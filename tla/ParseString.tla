----------------------------- MODULE ParseString -----------------------------
(***************************************************************************)
(* ParseStringAsU64 of verytb/verilog/dtype/vint_detail.cpp: a string of   *)
(* digits, minus signs and separators into words of uint64_t, through GMP; *)
(* and the assign of a string to a vint, which calls it.  GMP is modelled  *)
(* by its documentation: mpz_set_str takes digits of the base after an     *)
(* optional minus, mpz_export writes the words of the absolute value, as   *)
(* many as there are and no more.                                          *)
(*                                                                         *)
(* ptr[1 .. num_u64] is the caller's array, the v of a vint of several     *)
(* words or the tmp of assign, and what follows it is not the caller's.    *)
(***************************************************************************)
EXTENDS Vint, FiniteSets

CONSTANTS
    base,
    bit_per_u64,      \* 64
    Digits,           \* alphanumeric characters
    Hyphen,
    Separators,       \* any other characters
    DigitValue,       \* of each alphanumeric character
    MaxLen            \* bound: the length of the strings tried

(* Only a vint of one word may have words shorter than uint64_t.            *)
ASSUME ParseAssumption ==
    /\ base \in 2 .. 62
    /\ bit_per_u64 \in Nat \ {0}
    /\ \A t \in Types : \/ t.bit_per_word = bit_per_u64
                        \/ t.num_bit <= t.bit_per_word /\ t.bit_per_word < bit_per_u64
    /\ DigitValue \in [Digits -> Nat]
    /\ Hyphen \notin Digits \cup Separators
    /\ MaxLen \in Nat

VARIABLES
    s,        \* the string: chosen at first, one character after the other
    ptr       \* what the call has made of the memory; << >> before it

parseVars == <<type, v, op, s, ptr>>

Chars   == Digits \cup {Hyphen} \cup Separators
U64     == 0 .. 2^bit_per_u64 - 1
num_u64 == (num_bit + bit_per_u64 - 1) \div bit_per_u64     \* its num_word

(* What a word of uint64_t counts for. *)
WeightU64(i) == 2^(bit_per_u64 * i)

(* Words after the array that a number of MaxLen digits can reach. *)
Memory == 1 .. num_u64 + MaxLen

(* What was in memory: the words of v, if it is the array, and otherwise no *)
(* word of it is known to be zero.                                          *)
Before == [i \in Memory |-> IF is_multi_word /\ i <= num_word THEN v[i]
                            ELSE (i % (2^bit_per_u64 - 1)) + 1]

-----------------------------------------------------------------------------
(* keep_minus not cleared: every minus sign kept. *)
BugEveryMinus(str) == SelectSeq(str, LAMBDA c : c \in Digits \cup {Hyphen})

(* Alphanumeric characters, and a minus that none of them comes before.     *)
SanitizeStringInteger(str) ==
    LET result[i \in 0 .. Len(str)] ==
            IF i = 0 THEN << >>
            ELSE IF str[i] \in Digits \/ (str[i] = Hyphen /\ result[i - 1] = << >>)
            THEN Append(result[i - 1], str[i]) ELSE result[i - 1]
    IN result[Len(str)]

Magnitude(str) == IF str # << >> /\ str[1] = Hyphen THEN Tail(str) ELSE str

(* mpz_set_str returns 0. *)
Parses(str) ==
    /\ Magnitude(str) # << >>
    /\ \A i \in DOMAIN Magnitude(str) :
           Magnitude(str)[i] \in Digits /\ DigitValue[Magnitude(str)[i]] < base

AbsValue(str) ==
    LET digits == Magnitude(str)
        value[i \in 0 .. Len(digits)] ==
            IF i = 0 THEN 0 ELSE base * value[i - 1] + DigitValue[digits[i]]
    IN value[Len(digits)]

(* The memset one word too long. *)
BugClearsTooMuch(value) ==
    [i \in Memory |-> IF i <= num_u64 + 1 \/ value >= WeightU64(i - 1)
                      THEN (value \div WeightU64(i - 1)) % 2^bit_per_u64 ELSE Before[i]]

(* memset, then mpz_export of value. *)
Export(value) ==
    [i \in Memory |-> IF i <= num_u64 \/ value >= WeightU64(i - 1)
                      THEN (value \div WeightU64(i - 1)) % 2^bit_per_u64 ELSE Before[i]]

(* addcarry64 of ~v[i] and 0, over the array: as one number, its negation.  *)
TwosComplement(p) ==
    LET carry[i \in 0 .. num_u64] ==
            IF i = 0 THEN 1 ELSE (2^bit_per_u64 - 1 - p[i] + carry[i - 1]) \div 2^bit_per_u64
    IN [i \in Memory |-> IF i <= num_u64
                         THEN (2^bit_per_u64 - 1 - p[i] + carry[i - 1]) % 2^bit_per_u64
                         ELSE p[i]]

(* The sign is that of the string as it was given. *)
ParseStringAsU64(str) ==
    LET clean    == SanitizeStringInteger(str)
        exported == IF Parses(clean) THEN Export(AbsValue(clean)) ELSE Before
    IN IF str = << >> THEN Before
       ELSE IF str[1] = Hyphen THEN TwosComplement(exported) ELSE exported

(* A vint of one word takes tmp, which is what it was if nothing has been   *)
(* written to it; of several, v is the array.                               *)
AssignString(p) == ClearUnusedBits([i \in Index |-> p[i] % B])

-----------------------------------------------------------------------------
(* Any vint. *)
ParseInit ==
    /\ type \in Types /\ v \in Operands /\ op = [name |-> "=", arg |-> Val(v)]
    /\ s = << >> /\ ptr = << >>

NextChar ==
    /\ ptr = << >> /\ Len(s) < MaxLen
    /\ \E c \in Chars : s' = Append(s, c)
    /\ UNCHANGED <<type, v, op, ptr>>

Parse ==
    /\ ptr = << >>
    /\ ptr' = ParseStringAsU64(s)
    /\ v' = AssignString(ptr')
    /\ Record("=", s)
    /\ UNCHANGED <<type, s>>

ParseNext == NextChar \/ Parse

ParseSpec == ParseInit /\ [][ParseNext]_parseVars

-----------------------------------------------------------------------------
Called == ptr # << >>

(* The integer the string denotes: each digit counts for the base to the    *)
(* number of digits after it.                                               *)
Power[n \in 0 .. MaxLen] == IF n = 0 THEN 1 ELSE base * Power[n - 1]
DigitsAfter(str, i) == Cardinality({j \in DOMAIN str : j > i /\ str[j] \in Digits})
Denoted(str) ==
    Total(Len(str), [i \in 0 .. Len(str) - 1 |->
                        IF str[i + 1] \in Digits
                        THEN DigitValue[str[i + 1]] * Power[DigitsAfter(str, i + 1)] ELSE 0])
Negative(str) ==
    \E i \in DOMAIN str : /\ str[i] = Hyphen
                          /\ \A j \in 1 .. i : str[j] \notin Digits
IsNumber(str) ==
    /\ \E i \in DOMAIN str : str[i] \in Digits
    /\ \A i \in DOMAIN str : str[i] \in Digits => DigitValue[str[i]] < base

(* The array as one number: after the call, and before it.                  *)
ArrayValue == Total(num_u64, [i \in 0 .. num_u64 - 1 |-> ptr[i + 1] * WeightU64(i)])
OldValue   == Total(num_u64, [i \in 0 .. num_u64 - 1 |-> Before[i + 1] * WeightU64(i)])

(* If the string starts with its sign or a digit, the array is the integer  *)
(* it denotes modulo the array's size, in two's complement, whatever        *)
(* separators and minus signs come later; and a vint assigned the string is *)
(* that integer modulo 2^num_bit.                                           *)
ArrayIsInteger ==
    Called /\ IsNumber(s) /\ s[1] \notin Separators =>
        LET integer == IF Negative(s) THEN -Denoted(s) ELSE Denoted(s)
        IN ArrayValue = integer % WeightU64(num_u64) /\ Val(v) = integer % 2^num_bit

(* A string that is no number leaves the array as it was, and so a vint of  *)
(* several words; but if it starts with a minus sign, as "-" does, they are  *)
(* negated, whatever was in them (vint_detail.cpp:63-66).  And a word after  *)
(* the array is written only if the number does not fit in the words before  *)
(* it.                                                                       *)
OnlyTheArray ==
    [][Called' /\ ~Called =>
          /\ ~IsNumber(s) =>
                 IF s # << >> /\ s[1] = Hyphen
                 THEN /\ ArrayValue' = (-OldValue) % WeightU64(num_u64)
                      /\ is_multi_word => Val(v') = (-Val(v)) % 2^num_bit
                 ELSE ptr' = Before /\ (is_multi_word => v' = v)
          /\ \A i \in Memory :
                 i > num_u64 /\ (IsNumber(s) => Denoted(s) < WeightU64(i - 1))
                     => ptr'[i] = Before[i]]_parseVars

(* "Truncate to num_bit bits" (vint_detail.cpp:53): a number too large      *)
(* leaves its low num_bit bits, in the array.                               *)
Truncated ==
    Called /\ IsNumber(s) /\ ~Negative(s) =>
        /\ ArrayValue = Denoted(s) % 2^num_bit
        /\ \A i \in Memory : i > num_u64 => ptr[i] = Before[i]
=============================================================================
