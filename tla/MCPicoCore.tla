------------------------------ MODULE MCPicoCore ------------------------------
(* Small instances of PicoCore for TLC: two words of code, the interrupt    *)
(* handler in the second, which other code can reach as well.               *)
EXTENDS PicoCore

MCIrqLine == {"timer", "ebreak", "buserror", "line"}

(* Every arrangement of compressed and 32-bit instructions.                 *)
Plain == [long : SUBSET Half,
          kinds : {{"branch", "jal", "jalr"}}, lines : {{}}, masks : {{}}]

Accesses == [long : {{1}, {0, 2}, {1, 3}}, kinds : {{"alu", "branch", "load", "store", "shift"}},
             lines : {{}}, masks : {{}}]

Interrupted ==
    [long : {{1}, {0, 3}}, kinds : {{"load", "retirq", "maskirq", "waitirq", "ecall"}},
     lines : {{"line"}}, masks : {{{}, {"line"}}}]

(* What waitirq ends with may lie across two words. *)
Woken ==
    [long : {{1, 3}}, kinds : {{"alu", "waitirq", "retirq", "maskirq"}},
     lines : {{"line"}}, masks : {{{}, {"line"}}}]

Branching ==
    [long : {{0, 2}}, kinds : {{"branch", "retirq", "maskirq"}},
     lines : {{"line"}}, masks : {{{}, {"line"}}}]

Timed ==
    [long : {{0, 2}}, kinds : {{"timer", "waitirq", "retirq", "maskirq"}},
     lines : {{}}, masks : {{{}, {"timer"}}}]

Units ==
    [long : {{0, 3}},
     kinds : {{"mul", "div", "illegal", "simple", "retirq", "maskirq", "load"}},
     lines : {{}}, masks : {{{}}}]

MCFirmware == Plain \cup Accesses \cup Interrupted \cup Woken \cup Branching \cup Timed
              \cup Units
=============================================================================
