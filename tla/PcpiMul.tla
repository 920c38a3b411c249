------------------------------- MODULE PcpiMul -------------------------------
(***************************************************************************)
(* picorv32_pcpi_mul, clock edge by clock edge: a shift-and-add multiplier *)
(* of one step per edge (STEPS_AT_ONCE is 1) that keeps the carries out of *)
(* each CARRY_CHAIN bits of the sum apart, to be added at the next step.   *)
(* Every operator is the next value of a register, of the unit u and the   *)
(* port in = [valid, op, rs1, rs2].                                        *)
(***************************************************************************)
EXTENDS PcpiPort

CONSTANT CARRY_CHAIN

Double == 2^(2 * W)

(* mul_counter has as many bits as hold 4W values; its top bit is the sign. *)
CounterRange == 4 * W

MulUnit ==
    [instr : MulOp \cup {None}, wait : BOOLEAN, wait_q : BOOLEAN,
     rs1 : 0 .. Double - 1, rs2 : 0 .. Double - 1,
     rd : 0 .. Double - 1, rdx : 0 .. Double - 1,
     counter : 0 .. CounterRange - 1, waiting : BOOLEAN, finish : BOOLEAN,
     ready : BOOLEAN, result : Word]

(* Registers are zero at power-up: the unit is at work until a reset.        *)
MulInit == [instr |-> None, wait |-> FALSE, wait_q |-> FALSE, rs1 |-> 0, rs2 |-> 0,
            rd |-> 0, rdx |-> 0, counter |-> 0, waiting |-> FALSE, finish |-> FALSE,
            ready |-> FALSE, result |-> 0]

(* wait_q forgotten: it begins again while it answers. *)
BugStartsAgain(u) == u.wait

mul_start(u) == u.wait /\ ~u.wait_q

instr_any_mulh(u) == u.instr \in {"mulh", "mulhsu", "mulhu"}

SignExtended(x) == Signed(x) % Double

rs1_signed(u) == u.instr \in {"mulh", "mulhsu"}
rs2_signed(u) == u.instr = "mulh"

-----------------------------------------------------------------------------
(* The carry save accumulator: a loop over the chains of CARRY_CHAIN bits. *)
NChains == (2 * W) \div CARRY_CHAIN

Weight(k) == 2^(CARRY_CHAIN * k)

Slice(x, k) == (x \div Weight(k)) % 2^CARRY_CHAIN

ChainSum(u, k) ==
    Slice(u.rd, k) + Slice(u.rdx, k) + (IF u.rs1 % 2 = 1 THEN Slice(u.rs2, k) ELSE 0)

SumBits(u, k) == ChainSum(u, k) % 2^CARRY_CHAIN
Carry(u, k)   == (ChainSum(u, k) \div 2^CARRY_CHAIN) % 2

(* What the loop makes of what it puts at each chain. *)
Gather(part) ==
    LET upto[k \in 0 .. NChains] == IF k = 0 THEN 0 ELSE upto[k - 1] + part[k - 1]
    IN upto[NChains]

Chains == 0 .. NChains - 1

next_rd(u) == Gather([k \in Chains |-> SumBits(u, k) * Weight(k)])

(* A carry put where it came from. *)
BugCarryNotMoved(u) == Gather([k \in Chains |-> Carry(u, k) * (Weight(k + 1) \div 2)]) % Double

next_rdx(u) == Gather([k \in Chains |-> Carry(u, k) * Weight(k + 1)]) % Double

(* The steps of the low half also for the high one. *)
BugHalfTheSteps(u) == W - 2

FirstCount(u) == IF instr_any_mulh(u) THEN 2 * W - 2 ELSE W - 2

Load(u, in) ==
    [u EXCEPT !.rs1 = IF rs1_signed(u) THEN SignExtended(in.rs1) ELSE in.rs1,
              !.rs2 = IF rs2_signed(u) THEN SignExtended(in.rs2) ELSE in.rs2,
              !.rd = 0, !.rdx = 0, !.counter = FirstCount(u),
              !.waiting = ~mul_start(u), !.finish = FALSE]

Step(u) ==
    LET last == u.counter >= CounterRange \div 2
    IN [u EXCEPT !.rs1 = @ \div 2, !.rs2 = (2 * @) % Double,
                 !.rd = next_rd(u), !.rdx = next_rdx(u),
                 !.counter = (@ - 1) % CounterRange,
                 !.waiting = last, !.finish = last]

Stopped(u) == [u EXCEPT !.waiting = TRUE, !.finish = FALSE]

Work(u, in, resetn) ==
    IF ~resetn THEN Stopped(u)
    ELSE IF u.waiting THEN Load(u, in) ELSE Step(u)

(* Looked at also while it answers, unlike the divider.                     *)
MulNext(u, in, resetn) ==
    LET answers == u.finish /\ resetn
    IN [Work(u, in, resetn) EXCEPT
           !.instr = IF resetn /\ in.valid /\ in.op \in MulOp THEN in.op ELSE None,
           !.wait = u.instr # None, !.wait_q = u.wait,
           !.ready = answers,
           !.result = IF ~answers THEN 0    \* looked at only with pcpi_ready
                      ELSE IF instr_any_mulh(u) THEN u.rd \div 2^W ELSE u.rd % 2^W]
=============================================================================
