--------------------------- MODULE MCUtilReference ---------------------------
(* Inputs for UtilReference: every size up to where all is on the heap, and *)
(* numbers of up to 31 bits near a power of two or with their ones spread.  *)
EXTENDS UtilReference

MCInputs ==
    (0 .. 4200)
    \cup {2^i - 1 : i \in 1 .. 30}
    \cup {2^i + 2^j : i \in 0 .. 29, j \in 0 .. 29}
    \cup {(2^i - 1) * 2^j : i \in 1 .. 15, j \in 0 .. 15}
    \cup {Fives, Threes, Nibble, 2147483647}

(* Up to five enumerators of up to three values. *)
MCEnums    == UNION {[1 .. k -> 1 .. 3] : k \in 1 .. 5}
MCEnumName == <<"a", "b", "c", "d", "e">>
=============================================================================
