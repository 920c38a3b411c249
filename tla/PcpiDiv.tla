------------------------------- MODULE PcpiDiv -------------------------------
(***************************************************************************)
(* picorv32_pcpi_div, clock edge by clock edge: a restoring divider that   *)
(* tries one bit of the quotient per edge.  Every operator is the next     *)
(* value of a register, of the unit u and the port in = [valid, op, rs1,   *)
(* rs2].                                                                   *)
(***************************************************************************)
EXTENDS PcpiPort

DivUnit ==
    [instr : DivOp \cup {None}, wait : BOOLEAN, wait_q : BOOLEAN,
     dividend : Word, divisor : 0 .. 2^(2 * W - 1) - 1, quotient : Word,
     quotient_msk : {2^i : i \in 0 .. W - 1} \cup {0}, running : BOOLEAN, outsign : BOOLEAN,
     ready : BOOLEAN, result : Word]

DivInit == [instr |-> None, wait |-> FALSE, wait_q |-> FALSE, dividend |-> 0,
            divisor |-> 0, quotient |-> 0, quotient_msk |-> 0, running |-> FALSE,
            outsign |-> FALSE, ready |-> FALSE, result |-> 0]

start(u) == u.wait /\ ~u.wait_q

Neg(x) == (-x) % 2^W

Magnitude(signed, x) == IF signed /\ Negative(x) THEN Neg(x) ELSE x

(* The quotient's sign from the operands' alone: -1 by zero is 1. *)
BugZeroHasSign(u, in) ==
    \/ u.instr = "div" /\ Negative(in.rs1) # Negative(in.rs2)
    \/ u.instr = "rem" /\ Negative(in.rs1)

OutSign(u, in) ==
    \/ u.instr = "div" /\ Negative(in.rs1) # Negative(in.rs2) /\ in.rs2 # 0
    \/ u.instr = "rem" /\ Negative(in.rs1)

Load(u, in) ==
    LET signed == u.instr \in {"div", "rem"}
    IN [u EXCEPT !.running = TRUE,
                 !.dividend = Magnitude(signed, in.rs1),
                 !.divisor = Magnitude(signed, in.rs2) * 2^(W - 1),
                 !.outsign = OutSign(u, in),
                 !.quotient = 0, !.quotient_msk = 2^(W - 1)]

Fits(u) == u.divisor <= u.dividend

(* x | msk, for msk one bit or none. *)
WithBit(x, msk) == IF msk = 0 THEN x ELSE IF (x \div msk) % 2 = 1 THEN x ELSE x + msk

(* Also when it is not running.                                             *)
Step(u) ==
    [u EXCEPT !.dividend = IF Fits(u) THEN @ - u.divisor ELSE @,
              !.quotient = IF Fits(u) THEN WithBit(@, u.quotient_msk) ELSE @,
              !.divisor = @ \div 2, !.quotient_msk = @ \div 2]

Answers(u) == ~start(u) /\ u.quotient_msk = 0 /\ u.running

Work(u, in, resetn) ==
    IF ~resetn THEN [u EXCEPT !.running = FALSE]
    ELSE IF start(u) THEN Load(u, in)
    ELSE IF Answers(u) THEN [u EXCEPT !.running = FALSE]
    ELSE Step(u)

Noticed(u, in) == in.valid /\ ~u.ready /\ in.op \in DivOp

DivNext(u, in, resetn) ==
    LET answers == resetn /\ Answers(u)
        value   == IF u.instr \in {"div", "divu"} THEN u.quotient ELSE u.dividend
    IN [Work(u, in, resetn) EXCEPT
           !.instr = IF resetn /\ Noticed(u, in) THEN in.op ELSE None,
           !.wait = resetn /\ u.instr # None, !.wait_q = resetn /\ u.wait,
           !.ready = answers,
           !.result = IF ~answers THEN 0 ELSE IF u.outsign THEN Neg(value) ELSE value]
=============================================================================
