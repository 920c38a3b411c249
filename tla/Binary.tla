-------------------------------- MODULE Binary --------------------------------
(***************************************************************************)
(* Numbers and their bits: the bitwise operators of C++ on unsigned        *)
(* integers of any length, for Vint, and on the integers these stand for,  *)
(* for Residue.                                                            *)
(***************************************************************************)
EXTENDS Integers

(* The sum of term[0] .. term[n - 1]. *)
Total(n, term) ==
    LET upto[i \in 0 .. n] == IF i = 0 THEN 0 ELSE upto[i - 1] + term[i - 1]
    IN upto[n]

BitOf(x, i) == (x \div 2^i) % 2

(* The number of n bits that has these. *)
FromBits(n, bit) == Total(n, [i \in 0 .. n - 1 |-> bit[i] * 2^i])

(* What becomes of two bits. *)
Tables == [{0, 1} -> [{0, 1} -> {0, 1}]]
And == [a \in {0, 1} |-> [b \in {0, 1} |-> a * b]]
Or  == [a \in {0, 1} |-> [b \in {0, 1} |-> IF a + b = 0 THEN 0 ELSE 1]]
Xor == [a \in {0, 1} |-> [b \in {0, 1} |-> (a + b) % 2]]

(* The number of n bits whose bit i comes from those of x and y. *)
Bitwise(n, table, x, y) ==
    FromBits(n, [i \in 0 .. n - 1 |-> table[BitOf(x, i)][BitOf(y, i)]])
=============================================================================
