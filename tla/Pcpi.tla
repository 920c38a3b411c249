-------------------------------- MODULE Pcpi --------------------------------
(***************************************************************************)
(* Both co-processors on the core's interface.  Every action is a rising   *)
(* edge: the units compute from the interface as it is before the edge,    *)
(* and the core changes it.  The core keeps its side to what cpu_state_    *)
(* ld_rs1 does: it asks, holds the instruction and its operands until it   *)
(* sees pcpi_int_ready, and then lets go for an edge at least; what is of  *)
(* neither unit it gives up (when it times out).  The operands are of      *)
(* interest only while it asks.  The testbench clocks all three for some   *)
(* edges before it resets them.                                            *)
(***************************************************************************)
EXTENDS PcpiPort, Coprocessor

CONSTANTS
    CARRY_CHAIN,
    OnEdges         \* edges with resetn high before the reset: 5

ASSUME ChainAssumption == CARRY_CHAIN \in 1 .. 2 * W /\ (2 * W) % CARRY_CHAIN = 0
ASSUME OnAssumption == OnEdges \in Nat \ {0}

Mul == INSTANCE PcpiMul
Div == INSTANCE PcpiDiv

VARIABLES
    resetn,
    booted,     \* the reset has had an edge
    port,       \* [valid, op, rs1, rs2], as the core drives it
    mul, div,   \* the registers of the units
    age         \* edges since the core began to ask; before the reset, all

vars == <<resetn, booted, port, mul, div, age>>

Idle == [valid |-> FALSE, op |-> OtherOp, rs1 |-> 0, rs2 |-> 0]

(* Vpicorv32Wrap clocks the core before it resets it.                        *)
Init == /\ resetn = TRUE /\ booted = FALSE /\ port = Idle /\ age = 0
        /\ mul = Mul!MulInit /\ div = Div!DivInit

Units == /\ mul' = Mul!MulNext(mul, port, resetn)
         /\ div' = Div!DivNext(div, port, resetn)

pcpi_int_ready == mul.ready \/ div.ready

(* The multiplier first. *)
pcpi_int_rd == IF mul.ready THEN mul.result ELSE div.result

-----------------------------------------------------------------------------
(* Before the reset: the core's registers are zero, so it is in none of its  *)
(* states and asks nothing, and the multiplier is at work.                   *)
PowerUp == /\ ~booted /\ resetn /\ Units
           /\ age' = age + 1 /\ resetn' = (age' < OnEdges)
           /\ UNCHANGED <<booted, port>>

(* In reset, for an edge or more, and never again.                           *)
Reset == /\ ~resetn /\ Units
         /\ booted' = TRUE /\ age' = 0 /\ resetn' \in BOOLEAN
         /\ UNCHANGED port

Started == booted /\ resetn

Rest == /\ Started /\ ~port.valid /\ Units
        /\ UNCHANGED <<resetn, booted, port, age>>

Ask(op, a, b) ==
    /\ Started /\ ~port.valid /\ Units
    /\ port' = [valid |-> TRUE, op |-> op, rs1 |-> a, rs2 |-> b]
    /\ age' = 0 /\ UNCHANGED <<resetn, booted>>

Hold == /\ Started /\ port.valid /\ ~pcpi_int_ready /\ Units
        /\ age' = IF port.op = OtherOp THEN age ELSE age + 1
        /\ UNCHANGED <<resetn, booted, port>>

Take == /\ Started /\ port.valid /\ pcpi_int_ready /\ Units
        /\ port' = Idle /\ age' = 0 /\ UNCHANGED <<resetn, booted>>

GiveUp == /\ Started /\ port.valid /\ ~pcpi_int_ready /\ port.op = OtherOp /\ Units
          /\ port' = Idle /\ age' = 0 /\ UNCHANGED <<resetn, booted>>

Next ==
    \/ PowerUp \/ Reset \/ Rest \/ Hold \/ Take \/ GiveUp
    \/ \E op \in MulOp \cup DivOp, a, b \in Word : Ask(op, a, b)
    \/ Ask(OtherOp, 0, 0)

Spec == Init /\ [][Next]_vars

-----------------------------------------------------------------------------
(* The registers keep to their widths. *)
TypeOK ==
    /\ mul \in Mul!MulUnit /\ div \in Div!DivUnit
    /\ resetn \in BOOLEAN /\ booted \in BOOLEAN /\ age \in Nat

(* The edges an answer takes once the core asks: three until the unit has    *)
(* begun, one for each bit, and one to answer.                               *)
EdgesToAnswer(op) ==
    CASE op = "mul" -> W + 4
      [] op \in {"mulh", "mulhsu", "mulhu"} -> 2 * W + 4
      [] OTHER -> W + 4

(* Once reset, a unit answers only the instruction that is being asked, only *)
(* if it is its own, so that never both do; after a number of edges that     *)
(* only the instruction decides, and never later.  pcpi_wait is up from the  *)
(* second edge on, long before the core's timeout of 16, which is for        *)
(* instructions that are no unit's (picorv32.v:1423-1430).  Before the reset *)
(* nothing is asked, but the multiplier, whose registers are zero, is at     *)
(* work for two edges and answers at the third.                              *)
AnswersOnTime ==
    IF booted
    THEN /\ mul.ready => port.valid /\ port.op \in MulOp
         /\ div.ready => port.valid /\ port.op \in DivOp
         /\ port.valid /\ port.op # OtherOp =>
                /\ pcpi_int_ready <=> age = EdgesToAnswer(port.op)
                /\ age >= 2 => mul.wait \/ div.wait
    ELSE ~port.valid /\ ~div.ready /\ (mul.ready <=> age = 3)

(* While the multiplier runs, the sum, its carries and what is left to add   *)
(* make the product.                                                         *)
SumsToProduct ==
    ~mul.waiting /\ Started =>
        LET a == IF mul.instr \in {"mulh", "mulhsu"} THEN Signed(port.rs1) ELSE port.rs1
            b == IF mul.instr = "mulh" THEN Signed(port.rs2) ELSE port.rs2
            modulus == IF mul.instr = "mul" THEN 2^W ELSE 2^(2 * W)
        IN (mul.rd + mul.rdx + mul.rs1 * mul.rs2) % modulus = (a * b) % modulus

(* The core gets what RISC-V says a product is, whatever was computed        *)
(* before, because every step keeps the sum, within the widths of the        *)
(* registers.                                                                *)
ProductsAreRight ==
    /\ TypeOK
    /\ SumsToProduct
    /\ booted /\ mul.ready => pcpi_int_rd = Result(port.op, port.rs1, port.rs2)

(* While the divider runs, what is left of the dividend and the quotient     *)
(* found so far make the dividend, and what is left is less than what is     *)
(* still to be tried.                                                        *)
LeavesRemainder ==
    div.running =>
        LET signed == div.instr \in {"div", "rem"}
            a == Div!Magnitude(signed, port.rs1)
            b == Div!Magnitude(signed, port.rs2)
        IN /\ b # 0 => div.quotient * b + div.dividend = a
           /\ b = 0 => div.dividend = a
           /\ b # 0 => div.dividend < b * (IF div.quotient_msk = 0 THEN 1
                                           ELSE 2 * div.quotient_msk)

(* The core gets what RISC-V says a quotient or remainder is, also for       *)
(* division by zero and overflow, and whatever was computed before, because  *)
(* every step keeps the remainder.                                           *)
QuotientsAreRight ==
    /\ LeavesRemainder
    /\ div.ready => pcpi_int_rd = Result(port.op, port.rs1, port.rs2)

-----------------------------------------------------------------------------
(* The units as Coprocessor describes them.                                  *)
MulView == [instr |-> mul.instr # None, wait |-> mul.wait, wait_q |-> mul.wait_q,
            busy |-> ~mul.waiting \/ mul.finish, ready |-> mul.ready]
DivView == [instr |-> div.instr # None, wait |-> div.wait, wait_q |-> div.wait_q,
            busy |-> div.running, ready |-> div.ready]

Asked(ops) == port.valid /\ port.op \in ops

(* Both units are co-processors as the model of the core takes them: they    *)
(* notice an instruction of theirs at the next edge, wait from the one after *)
(* it, begin once and answer once, from power-up on; the multiplier, which   *)
(* is at work then, has nothing noticed and may answer without.              *)
ImplementsCoprocessor ==
    /\ MulView = UnitInit(TRUE) /\ DivView = UnitInit(FALSE)
    /\ [][/\ MulView' \in UnitNext(MulView, Asked(MulOp), resetn)
          /\ DivView' \in UnitNext(DivView, Asked(DivOp), resetn)]_vars
=============================================================================
