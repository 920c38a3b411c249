--------------------------------- MODULE Box ---------------------------------
(***************************************************************************)
(* What a pointer_like<T> is meant to be: a variable that holds a T of its *)
(* own and can be moved.  There is no memory here, hence no sharing.       *)
(* PointerLike implements it, but for one kind of move.                    *)
(***************************************************************************)
CONSTANTS Slots, Value, Absent, Empty

VARIABLE val    \* the T of each variable; Absent outside its lifetime

vars == val

Init == val = [s \in Slots |-> Absent]

Construct(s) ==
    /\ val[s] = Absent
    /\ \E v \in Value : val' = [val EXCEPT ![s] = v]

Destroy(s) ==
    /\ val[s] # Absent
    /\ val' = [val EXCEPT ![s] = Absent]

(* The source is left with the old T of the target, or with none. *)
MoveAssign(d, s) ==
    /\ val[d] # Absent /\ val[s] # Absent
    /\ \E left \in {val[d], Empty} :
           val' = [val EXCEPT ![s] = left, ![d] = val[s]]

MoveConstruct(d, s) ==
    /\ val[d] = Absent /\ val[s] # Absent
    /\ val' = [val EXCEPT ![s] = Empty, ![d] = val[s]]

Next == \E s \in Slots :
    \/ Construct(s) \/ Destroy(s)
    \/ \E d \in Slots : MoveAssign(d, s) \/ MoveConstruct(d, s)

Spec == Init /\ [][Next]_vars
=============================================================================
