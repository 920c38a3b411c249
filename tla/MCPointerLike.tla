---------------------------- MODULE MCPointerLike ----------------------------
(* Small instances of PointerLike for TLC. *)
EXTENDS PointerLike

CONSTANTS p1, p2, p3, h1, h2

(* Pools 0 and 2: two of the variables share the first, whose arrays have   *)
(* two blocks, so that a block lost makes it grow; the last has arrays of   *)
(* one block.                                                               *)
MCPoolSlots == {p1, p2, p3}
MCPoolOf    == [s \in MCPoolSlots |-> IF s = p3 THEN 2 ELSE 0]
MCHeapSlots == {h1, h2}
MCNone      == {}
MCValue     == {"x", "y"}
=============================================================================
