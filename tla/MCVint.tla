-------------------------------- MODULE MCVint --------------------------------
(* Small instances of Vint for TLC: three words with an unused bit, two     *)
(* words fully used, a word with unused bits and one fully used.            *)
EXTENDS Vint

MCTypes ==
    {[is_signed |-> s, num_bit |-> n[1], bit_per_word |-> n[2]] :
        s \in BOOLEAN, n \in {<<5, 2>>, <<4, 2>>, <<3, 4>>, <<3, 3>>}}
=============================================================================
