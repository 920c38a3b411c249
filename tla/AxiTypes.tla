------------------------------- MODULE AxiTypes -------------------------------
(***************************************************************************)
(* The payloads of the AXI channels: ar_s, r_s and w_s of                  *)
(* sim/picorv32-main/main.cpp.  A 32-bit word is a function from byte      *)
(* lanes to byte values, a strobe is a set of lanes.  prot is left out:    *)
(* nothing reads it.                                                       *)
(***************************************************************************)
EXTENDS Integers, Sequences

CONSTANTS
    NLanes,     \* bytes of a word: 4
    Byte,       \* the values of a byte; 0 is among them
    Addr        \* the byte addresses a master may present

ASSUME PayloadAssumption ==
    /\ NLanes \in Nat \ {0}
    /\ 0 \in Byte
    /\ Addr \subseteq Nat

Lanes  == 0 .. NLanes - 1
Word   == [Lanes -> Byte]
Strobe == SUBSET Lanes
WData  == [data : Word, strb : Strobe]
Zero   == [l \in Lanes |-> 0]
=============================================================================
