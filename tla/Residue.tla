-------------------------------- MODULE Residue --------------------------------
(***************************************************************************)
(* What a vint<is_signed, num_bit> is meant to be: a Verilog vector of     *)
(* num_bit bits, an integer modulo 2^num_bit.  There are no words here,    *)
(* hence no carries and no unused bits.  Vint implements it.               *)
(***************************************************************************)
EXTENDS Binary

VARIABLES
    num_bit, \* the length of the vector, always the same
    val,     \* the integer
    op       \* the last operation: its name and its operand

vars == <<num_bit, val, op>>

M == 2^num_bit

(* What each operation with each operand makes of x. *)
Result(x, o) ==
    CASE o.name = "="    -> o.arg % M
      [] o.name = "+="   -> (x + o.arg) % M
      [] o.name = "-="   -> (x - o.arg) % M
      [] o.name = "*="   -> (x * o.arg) % M
      [] o.name = "&="   -> Bitwise(num_bit, And, x, o.arg)
      [] o.name = "|="   -> Bitwise(num_bit, Or, x, o.arg)
      [] o.name = "^="   -> Bitwise(num_bit, Xor, x, o.arg)
      [] o.name = "~"    -> M - 1 - x
      [] o.name = "neg"  -> -x % M
      [] o.name = "set"  -> x + (1 - BitOf(x, o.arg)) * 2^o.arg
      [] o.name = "clear" -> x - BitOf(x, o.arg) * 2^o.arg

Init == num_bit \in Nat \ {0} /\ val \in 0 .. M - 1

Next == UNCHANGED num_bit /\ val' = Result(val, op')

Spec == Init /\ [][Next]_vars
=============================================================================
