---------------------------- MODULE MCParseString ----------------------------
(* A small instance of ParseString for TLC: base 2, words of two bits, and  *)
(* vints of one shorter word, one word and two; "z" is alphanumeric and no  *)
(* digit.                                                                   *)
EXTENDS ParseString

MCTypes ==
    {[is_signed |-> n[1], num_bit |-> n[2], bit_per_word |-> n[3]] :
        n \in {<<FALSE, 1, 1>>, <<TRUE, 2, 2>>, <<FALSE, 3, 2>>}}

(* The one of two words.                                                    *)
MCTwoWords == {t \in MCTypes : t.num_bit > t.bit_per_word}

MCDigits     == {"0", "1", "z"}
MCSeparators == {" "}
MCDigitValue == [c \in MCDigits |-> CASE c = "0" -> 0 [] c = "1" -> 1 [] c = "z" -> 35]
=============================================================================
