----------------------------- MODULE Coprocessor -----------------------------
(***************************************************************************)
(* What the core sees of a unit on its co-processor interface (PCPI), be   *)
(* it picorv32_pcpi_mul or picorv32_pcpi_div: an instruction of the unit's *)
(* is noticed at the first edge, pcpi_wait is up at the second and until   *)
(* the answer, and the answer comes once, after any number of edges.       *)
(***************************************************************************)
EXTENDS Integers

(* instr: an instruction of the unit's was on the interface at the last     *)
(* edge; wait, ready: the outputs; wait_q: wait an edge ago; busy: it has   *)
(* begun and not answered.                                                  *)
UnitState == [instr : BOOLEAN, wait : BOOLEAN, wait_q : BOOLEAN,
              busy : BOOLEAN, ready : BOOLEAN]

(* With registers that are zero at power-up a unit may be at work already.  *)
UnitInit(busy) == [instr |-> FALSE, wait |-> FALSE, wait_q |-> FALSE,
                   busy |-> busy, ready |-> FALSE]

Starts(u) == u.wait /\ ~u.wait_q

(* The states that may follow u.  mine: pcpi_valid with an instruction of   *)
(* the unit's.  The divider does not look while it answers.                 *)
UnitNext(u, mine, resetn) ==
    {n \in UnitState :
        /\ n.instr => resetn /\ mine
        /\ resetn /\ mine /\ ~u.ready => n.instr
        /\ n.wait = (u.instr /\ resetn)
        /\ n.wait_q = (u.wait /\ resetn)
        /\ n.ready => resetn /\ u.busy
        /\ n.busy = (resetn /\ (Starts(u) \/ (u.busy /\ ~n.ready)))}
=============================================================================
