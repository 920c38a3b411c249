--------------------------------- MODULE Vint ---------------------------------
(***************************************************************************)
(* vint<is_signed, num_bit> of verytb/verilog/dtype/vint.h, with           *)
(* vint_detail: the words v[], and every operation that changes them,      *)
(* carry by carry.  v[1] is the C++ v[0].  The program is any sequence of  *)
(* operations on one vint, whose type, the template arguments and the size *)
(* of its words, is one of those tried.                                    *)
(*                                                                         *)
(* The product of two uint16_t is computed as an int and overflows, which  *)
(* is undefined; the model takes the low bits, as every build does.        *)
(***************************************************************************)
EXTENDS Integers, Sequences, Binary

CONSTANT Types     \* the types tried; bit_per_word is 64, or less if num_bit is

ASSUME VintAssumption ==
    Types \subseteq [is_signed: BOOLEAN, num_bit: Nat \ {0}, bit_per_word: Nat \ {0}]

VARIABLES
    type,    \* never changes
    v,
    op       \* the last operation: its name and its operand

vars == <<type, v, op>>

is_signed     == type.is_signed
num_bit       == type.num_bit
bit_per_word  == type.bit_per_word
num_word      == (num_bit + bit_per_word - 1) \div bit_per_word
is_multi_word == num_word > 1
unused_bit    == num_word * bit_per_word - num_bit
used_mask     == 2^(bit_per_word - unused_bit) - 1

B     == 2^bit_per_word
Word  == 0 .. B - 1
Vint  == [1 .. num_word -> Word]
Index == 1 .. num_word

(* What a word counts for. *)
Weight(i) == 2^(bit_per_word * i)

(* The number a word vector stands for, and the word vector of a number     *)
(* (mpz_import, mpz_export).                                                *)
Val(x)   == Total(num_word, [i \in 0 .. num_word - 1 |-> x[i + 1] * Weight(i)])
Words(n) == [i \in Index |-> (n \div Weight(i - 1)) % B]

(* Of two words. *)
a & b  == Bitwise(bit_per_word, And, a, b)
a | b  == Bitwise(bit_per_word, Or, a, b)
a ^^ b == Bitwise(bit_per_word, Xor, a, b)

-----------------------------------------------------------------------------
ClearUnusedBits(x) == [x EXCEPT ![num_word] = @ & used_mask]

(* The words wholly beyond the rhs highest bits taken off are set.           *)
SetBitFromPosition(x, rhs) ==
    LET num_remaining    == num_bit - rhs
        signext_from_word == (num_remaining + bit_per_word - 1) \div bit_per_word
    IN ClearUnusedBits([i \in Index |-> IF is_multi_word /\ i > signext_from_word
                                        THEN B - 1 ELSE x[i]])

AssignInt(rhs) ==
    LET negative == is_signed /\ rhs >= B \div 2
    IN ClearUnusedBits([i \in Index |-> IF i = 1 THEN rhs
                                        ELSE IF negative THEN B - 1 ELSE 0])

(* At most num_word words, the last one extended. *)
AssignVector(rhs) ==
    LET negative == is_signed /\ rhs # << >> /\ rhs[Len(rhs)] >= B \div 2
    IN ClearUnusedBits([i \in Index |-> IF i <= Len(rhs) THEN rhs[i]
                                        ELSE IF negative THEN B - 1 ELSE 0])

Flip(x) == ClearUnusedBits([i \in Index |-> B - 1 - x[i]])

(* A borrow that came in not passed on. *)
BugBorrowIgnored(x, y) == [i \in 0 .. num_word |-> IF i > 0 /\ x[i] < y[i] THEN 1 ELSE 0]

(* The carries out of word i, in x + y + carry_in, and borrows in x - y. *)
Carry(x, y, carry_in) ==
    LET carry[i \in 0 .. num_word] ==
            IF i = 0 THEN carry_in ELSE (x[i] + y[i] + carry[i - 1]) \div B
    IN carry

Borrow(x, y) ==
    LET borrow[i \in 0 .. num_word] ==
            IF i = 0 THEN 0 ELSE IF x[i] < y[i] + borrow[i - 1] THEN 1 ELSE 0
    IN borrow

Plus(x, y, carry_in) == [i \in Index |-> (x[i] + y[i] + Carry(x, y, carry_in)[i - 1]) % B]
Minus(x, y)          == [i \in Index |-> (x[i] - y[i] - Borrow(x, y)[i - 1]) % B]

(* A machine word as the lowest word of a vint. *)
Low(word) == [i \in Index |-> IF i = 1 THEN word ELSE 0]

Negate(x) == ClearUnusedBits(
    IF is_multi_word THEN Plus([i \in Index |-> B - 1 - x[i]], Low(0), 1)  \* twos_complement64
    ELSE <<(-x[1]) % B>>)

AddAssign(x, rhs) == ClearUnusedBits(Plus(x, rhs, 0))
SubAssign(x, rhs) == ClearUnusedBits(Minus(x, rhs))

(* MulWordU64 if there are several words. *)
MulAssign(x, rhs) == ClearUnusedBits(
    IF is_multi_word THEN Words((Val(x) * Val(rhs)) % Weight(num_word))
    ELSE <<(x[1] * rhs[1]) % B>>)

AndAssign(x, rhs) == [i \in Index |-> x[i] & rhs[i]]
OrAssign(x, rhs)  == [i \in Index |-> x[i] | rhs[i]]
XorAssign(x, rhs) == [i \in Index |-> x[i] ^^ rhs[i]]

(* With a machine word, only the lowest word is touched. *)
AndWord(x, rhs) == ClearUnusedBits([x EXCEPT ![1] = @ & rhs])
OrWord(x, rhs)  == ClearUnusedBits([x EXCEPT ![1] = @ | rhs])
XorWord(x, rhs) == ClearUnusedBits([x EXCEPT ![1] = @ ^^ rhs])

lsb_word(pos) == pos \div bit_per_word + 1
shamt(pos)    == pos % bit_per_word

GetBit(x, pos) == (x[lsb_word(pos)] \div 2^shamt(pos)) % 2 = 1

SetBit(x, pos, value) ==
    LET bmask   == 2^shamt(pos)
        cleared == x[lsb_word(pos)] & (B - 1 - bmask)
    IN [x EXCEPT ![lsb_word(pos)] = IF value THEN cleared | bmask ELSE cleared]

SetBitMSB(x, value) == SetBit(x, num_bit - 1, value)
SetBitLSB(x, value) == SetBit(x, 0, value)

(* The high words not looked at. *)
BugLowWordOnly(x) == x[1] # 0

ToBool(x) == \E i \in Index : x[i] # 0

ReduceAnd(x) ==
    /\ x[num_word] = used_mask
    /\ \A i \in 1 .. num_word - 1 : x[i] = B - 1

popcount(x) == Total(bit_per_word, [i \in 0 .. bit_per_word - 1 |-> BitOf(x, i)])

(* popcount64 of the words xor-ed together. *)
ReduceXor(x) ==
    LET ret[i \in 0 .. num_word] == IF i = 0 THEN 0 ELSE ret[i - 1] ^^ x[i]
    IN popcount(ret[num_word]) % 2 = 1

IsNegative(x) == is_signed /\ GetBit(x, num_bit - 1)

-----------------------------------------------------------------------------
Operands  == {Words(n) : n \in 0 .. 2^num_bit - 1}
Positions == 0 .. num_bit - 1

(* Constructed from a zero; vint() itself leaves v unset. *)
Init == type \in Types /\ v = AssignInt(0) /\ op = [name |-> "=", arg |-> 0]

Record(name, arg) == op' = [name |-> name, arg |-> arg]

Assign ==
    \/ \E rhs \in Word :
          /\ v' = AssignInt(rhs)
          /\ Record("=", IF is_signed /\ rhs >= B \div 2 THEN rhs - B ELSE rhs)
    \/ \E rhs \in UNION {[1 .. sz -> Word] : sz \in 0 .. num_word} :
          /\ v' = AssignVector(rhs)
          /\ LET n == Val([i \in Index |-> IF i <= Len(rhs) THEN rhs[i] ELSE 0])
             IN Record("=", IF is_signed /\ rhs # << >> /\ rhs[Len(rhs)] >= B \div 2
                            THEN n - Weight(Len(rhs)) ELSE n)

Unary ==
    \/ v' = Flip(v) /\ Record("~", 0)
    \/ v' = Negate(v) /\ Record("neg", 0)

Arithmetic ==
    \/ \E rhs \in Operands :
          \/ v' = AddAssign(v, rhs) /\ Record("+=", Val(rhs))
          \/ v' = SubAssign(v, rhs) /\ Record("-=", Val(rhs))
          \/ v' = MulAssign(v, rhs) /\ Record("*=", Val(rhs))
    \/ \E rhs \in Word :
          \/ v' = AddAssign(v, Low(rhs)) /\ Record("+=", rhs)
          \/ v' = SubAssign(v, Low(rhs)) /\ Record("-=", rhs)
          \/ ~is_multi_word /\ v' = MulAssign(v, Low(rhs)) /\ Record("*=", rhs)

(* &= with a machine word leaves the other words as they are.               *)
BitwiseOps ==
    \/ \E rhs \in Operands :
          \/ v' = AndAssign(v, rhs) /\ Record("&=", Val(rhs))
          \/ v' = OrAssign(v, rhs) /\ Record("|=", Val(rhs))
          \/ v' = XorAssign(v, rhs) /\ Record("^=", Val(rhs))
    \/ \E rhs \in Word :
          \/ v' = AndWord(v, rhs) /\ Record("&=", rhs + (Weight(num_word) - B))
          \/ v' = OrWord(v, rhs) /\ Record("|=", rhs)
          \/ v' = XorWord(v, rhs) /\ Record("^=", rhs)
    \/ \E pos \in Positions :
          \/ v' = SetBit(v, pos, TRUE) /\ Record("set", pos)
          \/ v' = SetBit(v, pos, FALSE) /\ Record("clear", pos)
    \/ \E rhs \in 0 .. num_bit :
          /\ v' = SetBitFromPosition(v, rhs)
          /\ LET kept == CHOOSE i \in 0 .. num_word :
                             (i - 1) * bit_per_word < num_bit - rhs /\ num_bit - rhs <= i * bit_per_word
             IN Record("|=", IF is_multi_word THEN Weight(num_word) - Weight(kept) ELSE 0)
    \/ \E value \in BOOLEAN, end \in {0, num_bit - 1} :
          /\ v' = IF end = 0 THEN SetBitLSB(v, value) ELSE SetBitMSB(v, value)
          /\ Record(IF value THEN "set" ELSE "clear", end)

Next == (Assign \/ Unary \/ Arithmetic \/ BitwiseOps) /\ UNCHANGED type

Spec == Init /\ [][Next]_vars

-----------------------------------------------------------------------------
(* v is num_word words, and the bits beyond num_bit are zero, signed or     *)
(* not (vint.h:58 has those of a signed vint sign extended, but no code     *)
(* does that): operations use the top word whole.                           *)
TypeOK == type \in Types /\ v \in Vint /\ Val(v) < 2^num_bit

(* The unused bits are clear, and the reductions, the conversion to bool,   *)
(* IsNegative and GetBit see all the bits of the number and no others,      *)
(* across all words.                                                        *)
ObserversAgree ==
    LET ones == Total(num_bit, [i \in Positions |-> BitOf(Val(v), i)])
    IN /\ TypeOK
       /\ ToBool(v) = (Val(v) # 0)
       /\ ReduceAnd(v) = (ones = num_bit)
       /\ ReduceXor(v) = (ones % 2 = 1)
       /\ IsNegative(v) = (is_signed /\ 2 * Val(v) >= 2^num_bit)
       /\ \A i \in Positions : GetBit(v, i) = (BitOf(Val(v), i) = 1)

Abstract == INSTANCE Residue WITH val <- Val(v)

(* Any sequence of operations computes modulo 2^num_bit: carries and        *)
(* borrows cross words, extensions reach the top, and nothing of the unused *)
(* bits ever comes back.                                                    *)
ImplementsResidue == Abstract!Spec
=============================================================================
