------------------------------ MODULE Vint_proofs ------------------------------
(***************************************************************************)
(* Proofs about Vint, for every width, every size of the words and either  *)
(* sign: the unused bits stay clear, what the reductions and tests return  *)
(* is so of the number, and every operation is the one on numbers modulo   *)
(* 2^num_bit.  And about ParseString, for every base and string: what is   *)
(* parsed is the number that the string denotes, and where it is written.  *)
(***************************************************************************)
EXTENDS ParseString, Numbers_proofs, SequenceTheorems, TLAPS

-----------------------------------------------------------------------------
(* Words, what they count for, and the number they make. *)

(* The bits of the last word that are used. *)
used == bit_per_word - unused_bit

(* The words of a vint. *)
LEMMA Sizes ==
    ASSUME type \in Types
    PROVE  /\ bit_per_word \in Nat \ {0} /\ num_bit \in Nat \ {0} /\ is_signed \in BOOLEAN
           /\ num_word \in Nat \ {0}
           /\ used \in 1 .. bit_per_word
           /\ num_bit = bit_per_word * (num_word - 1) + used
<1> DEFINE W == bit_per_word  N == num_bit  K == num_word
<1>1. W \in Nat \ {0} /\ N \in Nat \ {0} /\ is_signed \in BOOLEAN
  BY VintAssumption DEF bit_per_word, num_bit, is_signed
<1>2. K = (N + W - 1) \div W
  BY DEF num_word
<1>3. used = W - (K * W - N)
  BY DEF used, unused_bit
<1> HIDE DEF W, N, K
<1> DEFINE q == N + W - 1  r == q % W
<1>4. K \in Int /\ r \in 0 .. W - 1 /\ q = K * W + r
  BY <1>1, <1>2
<1> HIDE DEF r
<1>5. K >= 1
  <2> SUFFICES ASSUME K <= 0 PROVE FALSE
    BY <1>4
  <2>1. K * W <= 0
    BY <1>1, <1>4
  <2> QED BY <1>1, <1>4, <2>1
<1>6. K * W = W * (K - 1) + W
  BY <1>1, <1>4
<1>7. W * (K - 1) \in Int
  BY <1>1, <1>4
<1>8. used \in 1 .. W /\ N = W * (K - 1) + used
  BY <1>1, <1>3, <1>4, <1>6, <1>7
<1> QED BY <1>1, <1>4, <1>5, <1>8 DEF W, N, K

(* What words count for. *)
LEMMA Weights ==
    ASSUME type \in Types
    PROVE  /\ B \in Nat \ {0} /\ B = 2^bit_per_word /\ 2 * (B \div 2) = B /\ B \div 2 \in Nat
           /\ Weight(0) = 1 /\ Weight(1) = B
           /\ \A k \in Nat : Weight(k) \in Nat \ {0} /\ Weight(k + 1) = Weight(k) * B
           /\ Multiple(Weight(num_word), 2^num_bit)
           /\ 2^num_bit = 2^used * Weight(num_word - 1)
           /\ 2^num_bit \in Nat \ {0} /\ 2^used \in Nat \ {0} /\ 2^used <= B
           /\ used_mask = 2^used - 1
<1> DEFINE W == bit_per_word
<1>1. W \in Nat \ {0} /\ used \in 1 .. W
  BY Sizes
<1>2. B = 2^W /\ B \in Nat \ {0}
  BY <1>1, TwoPositive DEF B
<1>3. 2 * (B \div 2) = B /\ B \div 2 \in Nat
  <2>1. W - 1 \in Nat /\ (W - 1) + 1 = W
    BY <1>1
  <2>2. 2^((W - 1) + 1) = 2 * 2^(W - 1) /\ 2^(W - 1) \in Nat
    BY <2>1, TwoExp, TwoPositive
  <2>3. B = 2 * 2^(W - 1)
    BY <1>2, <2>1, <2>2
  <2> DEFINE h == 2^(W - 1)
  <2>4. B = 2 * h /\ h \in Nat
    BY <2>2, <2>3
  <2> HIDE DEF h
  <2> QED BY <2>4
<1>4. Weight(0) = 1 /\ Weight(1) = B
  <2>1. W * 0 = 0 /\ W * 1 = W /\ 2^0 = 1
    BY <1>1
  <2> QED BY <1>2, <2>1 DEF Weight
<1>5. ASSUME NEW k \in Nat PROVE Weight(k) \in Nat \ {0} /\ Weight(k + 1) = Weight(k) * B
  <2> HIDE DEF W
  <2>1. W * k \in Nat /\ W * (k + 1) = W * k + W
    BY <1>1
  <2>2. 2^(W * k + W) = 2^(W * k) * 2^W
    BY <1>1, <2>1, TwoSum
  <2> QED BY <1>2, <2>1, <2>2, TwoPositive DEF Weight, W
<1>6. num_bit = W * (num_word - 1) + used /\ num_word \in Nat \ {0} /\ num_bit \in Nat
  BY Sizes
<1>7. Multiple(Weight(num_word), 2^num_bit)
  <2> DEFINE K == num_word
  <2> HIDE DEF W, K
  <2>1. W * K = W * (K - 1) + W /\ W * (K - 1) \in Nat
    BY <1>1, <1>6 DEF K
  <2>2. W * K \in Nat /\ num_bit <= W * K
    BY <1>1, <1>6, <2>1 DEF K
  <2> QED BY <1>6, <2>2, PowerMultiple DEF Weight, W, K
<1>8. 2^num_bit = 2^used * Weight(num_word - 1)
  <2> DEFINE m == W * (num_word - 1)
  <2>1. m \in Nat /\ used \in Nat /\ num_bit = used + m
    BY <1>1, <1>6
  <2>2. Weight(num_word - 1) = 2^m
    BY DEF Weight
  <2> HIDE DEF m
  <2> QED BY <2>1, <2>2, TwoSum
<1>9. 2^num_bit \in Nat \ {0} /\ 2^used \in Nat \ {0}
  BY <1>1, <1>6, TwoPositive
<1>10. 2^used <= B
  <2>1. used \in Nat /\ used <= W /\ W \in Nat
    BY <1>1
  <2>2. Multiple(2^W, 2^used)
    BY <2>1, PowerMultiple
  <2>3. PICK t \in Nat : B = 2^used * t
    BY <1>2, <2>2 DEF Multiple
  <2> DEFINE u == 2^used
  <2>4. u \in Nat \ {0} /\ B = u * t
    BY <1>9, <2>3
  <2> HIDE DEF u
  <2>5. t >= 1
    BY <1>2, <2>4
  <2>6. u * t >= u
    BY <2>4, <2>5
  <2> QED BY <2>4, <2>6 DEF u
<1>11. used_mask = 2^used - 1
  BY DEF used_mask, used
<1> QED BY <1>2, <1>3, <1>4, <1>5, <1>7, <1>8, <1>9, <1>10, <1>11

-----------------------------------------------------------------------------
(* The value of the first k words of x. *)
Terms(x)   == [i \in 0 .. num_word - 1 |-> x[i + 1] * Weight(i)]
Part(x, k) == Total(k, Terms(x))

(* It is found word by word, and fits into k words. *)
LEMMA PartIs ==
    ASSUME type \in Types, NEW x \in Vint
    PROVE  /\ Part(x, 0) = 0 /\ Val(x) = Part(x, num_word)
           /\ \A k \in 0 .. num_word - 1 :
                 x[k + 1] \in Word /\ Part(x, k + 1) = Part(x, k) + x[k + 1] * Weight(k)
           /\ \A k \in 0 .. num_word : Part(x, k) \in 0 .. Weight(k) - 1
<1>1. num_word \in Nat \ {0}
  BY Sizes
<1>2. \A k \in 0 .. num_word - 1 : k + 1 \in Index /\ x[k + 1] \in Word /\ x[k + 1] \in Nat
  <2>1. \A k \in 0 .. num_word - 1 : k + 1 \in Index
    BY <1>1 DEF Index
  <2>2. B \in Nat /\ Word \subseteq Nat
    BY Weights DEF Word
  <2>3. \A i \in Index : x[i] \in Word
    BY DEF Vint, Index
  <2> QED BY <2>1, <2>2, <2>3
<1>3. \A k \in 0 .. num_word - 1 : Terms(x)[k] = x[k + 1] * Weight(k) /\ Terms(x)[k] \in Int
  <2> TAKE k \in 0 .. num_word - 1
  <2>1. k \in Nat
    BY <1>1
  <2>2. Weight(k) \in Nat
    BY <2>1, Weights
  <2> QED BY <1>2, <2>2 DEF Terms
<1>4. /\ Part(x, 0) = 0
      /\ \A k \in 0 .. num_word - 1 : Part(x, k + 1) = Part(x, k) + Terms(x)[k]
  <2>1. \A i \in 0 .. num_word - 1 : Terms(x)[i] \in Int
    BY <1>3
  <2> HIDE DEF Terms
  <2> QED BY <1>1, <2>1, TotalStep DEF Part
<1>5. \A k \in 0 .. num_word - 1 : Part(x, k + 1) = Part(x, k) + x[k + 1] * Weight(k)
  BY <1>3, <1>4
<1>6. Val(x) = Part(x, num_word)
  BY DEF Val, Part, Terms
<1> DEFINE S == {k \in Nat : k <= num_word => Part(x, k) \in 0 .. Weight(k) - 1}
<1>7. 0 \in S
  <2>1. Weight(0) = 1
    BY Weights
  <2> QED BY <1>4, <2>1
<1>8. ASSUME NEW k \in Nat, k \in S PROVE k + 1 \in S
  <2> SUFFICES ASSUME k + 1 <= num_word PROVE Part(x, k + 1) \in 0 .. Weight(k + 1) - 1
    OBVIOUS
  <2>1. k \in 0 .. num_word - 1 /\ Part(x, k) \in 0 .. Weight(k) - 1
    BY <1>1, <1>8
  <2> DEFINE p == Weight(k)  q == Weight(k + 1)  d == x[k + 1]  l == Part(x, k)
             z == Part(x, k + 1)
  <2>2. p \in Nat \ {0} /\ B \in Nat \ {0} /\ q = p * B /\ d \in 0 .. B - 1
    <3>1. d \in 0 .. B - 1
      BY <1>2, <2>1 DEF Word
    <3> QED BY <3>1, Weights
  <2>3. l \in 0 .. p - 1 /\ z = l + d * p
    BY <1>5, <2>1
  <2> HIDE DEF p, q, d, l, z
  <2>4. d * p <= (B - 1) * p /\ d * p \in Nat
    BY <2>2
  <2>5. (B - 1) * p = q - p
    BY <2>2
  <2>6. z \in 0 .. q - 1
    BY <2>2, <2>3, <2>4, <2>5
  <2> QED BY <2>6 DEF z, q
<1> HIDE DEF S
<1>9. \A k \in 0 .. num_word : k \in S
  BY <1>1, <1>7, <1>8, Induct
<1>10. \A k \in 0 .. num_word : Part(x, k) \in 0 .. Weight(k) - 1
  BY <1>9 DEF S
<1> QED BY <1>2, <1>4, <1>5, <1>6, <1>10

(* A position is a word and a place in it. *)
LEMMA Places ==
    ASSUME type \in Types
    PROVE  /\ \A k \in 0 .. num_word - 1, j \in 0 .. bit_per_word - 1 :
                 bit_per_word * k + j \in 0 .. bit_per_word * num_word - 1
           /\ \A p \in 0 .. bit_per_word * num_word - 1 :
                 /\ p \div bit_per_word \in 0 .. num_word - 1
                 /\ p % bit_per_word \in 0 .. bit_per_word - 1
                 /\ p = bit_per_word * (p \div bit_per_word) + (p % bit_per_word)
           /\ num_bit \in 1 .. bit_per_word * num_word
<1> DEFINE W == bit_per_word  K == num_word
<1>1. W \in Nat \ {0} /\ K \in Nat \ {0} /\ used \in 1 .. W /\ num_bit = W * (K - 1) + used
  BY Sizes
<1> HIDE DEF W, K
<1>2. W * K = W * (K - 1) + W /\ W * K \in Nat /\ W * (K - 1) \in Nat
  BY <1>1
<1>3. ASSUME NEW k \in 0 .. K - 1, NEW j \in 0 .. W - 1 PROVE W * k + j \in 0 .. W * K - 1
  <2>1. W * k <= W * (K - 1) /\ W * k \in Nat
    BY <1>1
  <2> QED BY <1>1, <1>2, <2>1
<1>4. ASSUME NEW p \in 0 .. W * K - 1
      PROVE  p \div W \in 0 .. K - 1 /\ p % W \in 0 .. W - 1 /\ p = W * (p \div W) + (p % W)
  <2> DEFINE q == p \div W  r == p % W
  <2>1. q \in Nat /\ r \in 0 .. W - 1 /\ p = q * W + r
    BY <1>1, <1>2
  <2> HIDE DEF q, r
  <2>2. q < K
    <3> SUFFICES ASSUME q >= K PROVE FALSE
      BY <1>1, <2>1
    <3>1. q * W >= W * K
      BY <1>1, <2>1
    <3> QED BY <1>1, <1>2, <2>1, <3>1
  <2>3. q \in 0 .. K - 1 /\ r \in 0 .. W - 1 /\ p = W * q + r
    BY <1>1, <2>1, <2>2
  <2> QED BY <2>3 DEF q, r
<1>5. num_bit \in 1 .. W * K
  BY <1>1, <1>2
<1> QED BY <1>3, <1>4, <1>5 DEF W, K

(* The bits of the number are those of the words. *)
LEMMA ValBits ==
    ASSUME type \in Types, NEW x \in Vint
    PROVE  /\ Val(x) \in 0 .. 2^(bit_per_word * num_word) - 1
           /\ \A k \in 0 .. num_word - 1, j \in 0 .. bit_per_word - 1 :
                 BitOf(Val(x), bit_per_word * k + j) = BitOf(x[k + 1], j)
<1> DEFINE W == bit_per_word  K == num_word
           S == {m \in Nat : m <= K => \A k \in 0 .. m - 1, j \in 0 .. W - 1 :
                                          BitOf(Part(x, m), W * k + j) = BitOf(x[k + 1], j)}
<1>1. W \in Nat \ {0} /\ K \in Nat \ {0}
  BY Sizes
<1>2. 0 \in S
  OBVIOUS
<1>3. ASSUME NEW m \in Nat, m \in S PROVE m + 1 \in S
  <2> SUFFICES ASSUME m + 1 <= K, NEW k \in 0 .. m, NEW j \in 0 .. W - 1
               PROVE  BitOf(Part(x, m + 1), W * k + j) = BitOf(x[k + 1], j)
    OBVIOUS
  <2> DEFINE l == Part(x, m)  h == x[m + 1]  i == W * k + j
  <2>1. m \in 0 .. K - 1 /\ m \in 0 .. K
    BY <1>1
  <2>2. Part(x, m + 1) = l + h * Weight(m) /\ l \in 0 .. Weight(m) - 1 /\ h \in Word
    BY <2>1, PartIs
  <2>3. Weight(m) = 2^(W * m) /\ Weight(m) \in Nat /\ B \in Nat
    BY Weights DEF Weight
  <2>4. h \in Nat /\ l \in 0 .. 2^(W * m) - 1 /\ Part(x, m + 1) = h * 2^(W * m) + l
    BY <2>2, <2>3 DEF Word
  <2>5. i \in Nat /\ W * m \in Nat
    <3> HIDE DEF W
    <3> QED BY <1>1
  <2>6. BitOf(Part(x, m + 1), i) = IF i < W * m THEN BitOf(l, i) ELSE BitOf(h, i - W * m)
    <3> HIDE DEF i, l, h, W
    <3>1. BitOf(h * 2^(W * m) + l, i) = IF i < W * m THEN BitOf(l, i) ELSE BitOf(h, i - W * m)
      BY <2>4, <2>5, JoinBits
    <3> QED BY <2>4, <3>1
  <2>7. CASE k < m
    <3>1. i < W * m
      <4> HIDE DEF W
      <4>1. W * k <= W * (m - 1) /\ W * (m - 1) = W * m - W /\ W * k \in Nat
        BY <1>1, <2>7
      <4> QED BY <1>1, <2>5, <4>1
    <3>2. k \in 0 .. m - 1 /\ m <= K
      BY <1>1, <2>7
    <3>3. BitOf(l, i) = BitOf(x[k + 1], j)
      BY <1>3, <3>2
    <3> QED BY <2>6, <3>1, <3>3
  <2>8. CASE k = m
    <3>1. ~(i < W * m) /\ i - W * m = j
      <4> HIDE DEF W
      <4> QED BY <1>1, <2>5, <2>8
    <3> QED BY <2>6, <2>8, <3>1
  <2>9. k < m \/ k = m
    OBVIOUS
  <2> QED BY <2>7, <2>8, <2>9
<1> HIDE DEF S
<1>4. K \in S
  BY <1>1, <1>2, <1>3, Induct
<1>5. \A k \in 0 .. K - 1, j \in 0 .. W - 1 : BitOf(Part(x, K), W * k + j) = BitOf(x[k + 1], j)
  BY <1>1, <1>4 DEF S
<1>6. Val(x) = Part(x, K) /\ Part(x, K) \in 0 .. Weight(K) - 1
  <2>1. K \in 0 .. K
    BY <1>1
  <2> QED BY <2>1, PartIs
<1> QED BY <1>5, <1>6 DEF Weight

(* A vint is a number if its words have the number's bits. *)
LEMMA ValIs ==
    ASSUME type \in Types, NEW x \in Vint, NEW n \in 0 .. Weight(num_word) - 1,
           \A k \in 0 .. num_word - 1, j \in 0 .. bit_per_word - 1 :
              BitOf(x[k + 1], j) = BitOf(n, bit_per_word * k + j)
    PROVE  Val(x) = n
<1> DEFINE m == bit_per_word * num_word
<1>1. m \in Nat
  BY Sizes
<1>2. Val(x) \in 0 .. 2^m - 1 /\ n \in 0 .. 2^m - 1
  BY ValBits DEF Weight
<1>3. ASSUME NEW p \in 0 .. m - 1 PROVE BitOf(Val(x), p) = BitOf(n, p)
  <2> DEFINE k == p \div bit_per_word  j == p % bit_per_word
  <2>1. k \in 0 .. num_word - 1 /\ j \in 0 .. bit_per_word - 1 /\ p = bit_per_word * k + j
    BY Places
  <2> HIDE DEF k, j
  <2>2. BitOf(Val(x), bit_per_word * k + j) = BitOf(n, bit_per_word * k + j)
    BY <2>1, ValBits
  <2> QED BY <2>1, <2>2
<1> HIDE DEF m
<1> QED BY <1>1, <1>2, <1>3, SameBits

(* Words that make the same number are the same. *)
LEMMA SameVal ==
    ASSUME type \in Types, NEW x \in Vint, NEW y \in Vint, Val(x) = Val(y)
    PROVE  x = y
<1>1. num_word \in Nat \ {0} /\ bit_per_word \in Nat \ {0}
  BY Sizes
<1>2. ASSUME NEW i \in Index PROVE x[i] = y[i]
  <2> DEFINE k == i - 1
  <2>1. k \in 0 .. num_word - 1 /\ i = k + 1
    BY <1>1 DEF Index
  <2> HIDE DEF k
  <2>2. x[i] \in 0 .. 2^bit_per_word - 1 /\ y[i] \in 0 .. 2^bit_per_word - 1
    BY DEF Vint, Index, Word, B
  <2>3. \A j \in 0 .. bit_per_word - 1 : BitOf(x[i], j) = BitOf(y[i], j)
    BY <2>1, ValBits
  <2> QED BY <1>1, <2>2, <2>3, SameBits
<1>3. x \in [Index -> Word] /\ y \in [Index -> Word]
  BY DEF Vint, Index
<1> QED BY <1>2, <1>3

(* No word, no number. *)
Zeros == [i \in Index |-> 0]
(* It is 0.                                                                 *)
LEMMA ZeroVal == ASSUME type \in Types PROVE Zeros \in Vint /\ Val(Zeros) = 0
<1>1. Zeros \in Vint /\ 0 \in 0 .. Weight(num_word) - 1
  <2>1. 0 \in Word
    BY Weights DEF Word
  <2>2. num_word \in Nat
    BY Sizes
  <2> QED BY <2>1, <2>2, Weights DEF Zeros, Vint, Index
<1>2. ASSUME NEW k \in 0 .. num_word - 1, NEW j \in 0 .. bit_per_word - 1
      PROVE  BitOf(Zeros[k + 1], j) = BitOf(0, bit_per_word * k + j)
  <2>1. num_word \in Nat /\ bit_per_word \in Nat /\ bit_per_word * num_word \in Nat
    BY Sizes
  <2>2. bit_per_word * k + j \in 0 .. bit_per_word * num_word - 1
    BY Places
  <2>3. Zeros[k + 1] = 0 /\ bit_per_word * k + j \in Nat /\ j \in Nat
    BY <2>1, <2>2 DEF Zeros, Index
  <2>4. \A i \in Nat : BitOf(0, i) = 0
    <3> TAKE i \in Nat
    <3>1. 2^0 = 1
      OBVIOUS
    <3>2. 0 \in 0 .. 2^0 - 1 /\ 0 \in Nat /\ i >= 0
      BY <3>1
    <3> QED BY <3>2, BitsBeyond
  <2> QED BY <2>3, <2>4
<1> QED BY <1>1, <1>2, ValIs

(* One word changed. *)
LEMMA ValExcept ==
    ASSUME type \in Types, NEW x \in Vint, NEW l \in Index, NEW w \in Word,
           NEW y, y = [x EXCEPT ![l] = w]
    PROVE  y \in Vint /\ Val(y) = Val(x) + (w - x[l]) * Weight(l - 1)
<1> DEFINE d == (w - x[l]) * Weight(l - 1)
           S == {k \in Nat : k <= num_word => Part(y, k) = Part(x, k) + IF k < l THEN 0 ELSE d}
<1>1. num_word \in Nat \ {0} /\ l \in Nat /\ l >= 1 /\ l <= num_word
  BY Sizes DEF Index
<1>2. y \in Vint /\ \A i \in Index : y[i] = IF i = l THEN w ELSE x[i]
  BY DEF Vint, Index
<1>3. x[l] \in Int /\ w \in Int /\ Weight(l - 1) \in Int
  <2>1. x[l] \in Word /\ B \in Nat /\ l - 1 \in Nat
    BY <1>1, Weights DEF Vint, Index
  <2> QED BY <2>1, Weights DEF Word
<1>4. d \in Int
  BY <1>3
<1>5. 0 \in S
  BY <1>1, <1>2, PartIs
<1>6. ASSUME NEW k \in Nat, k \in S PROVE k + 1 \in S
  <2> SUFFICES ASSUME k + 1 <= num_word
               PROVE  Part(y, k + 1) = Part(x, k + 1) + IF k + 1 < l THEN 0 ELSE d
    OBVIOUS
  <2>1. k \in 0 .. num_word - 1 /\ k \in 0 .. num_word /\ k + 1 \in Index
    BY <1>1 DEF Index
  <2>2. /\ Part(y, k + 1) = Part(y, k) + y[k + 1] * Weight(k)
        /\ Part(x, k + 1) = Part(x, k) + x[k + 1] * Weight(k)
        /\ Part(y, k) \in Nat /\ Part(x, k) \in Nat /\ x[k + 1] \in Nat /\ Weight(k) \in Nat
    <3>1. x[k + 1] \in Nat /\ Weight(k) \in Nat
      <4>1. x[k + 1] \in Word
        BY <2>1, PartIs
      <4>2. B \in Nat /\ Weight(k) \in Nat
        BY Weights
      <4> QED BY <4>1, <4>2 DEF Word
    <3>2. Part(x, k + 1) = Part(x, k) + x[k + 1] * Weight(k) /\ Part(x, k) \in 0 .. Weight(k) - 1
      BY <2>1, PartIs
    <3>3. Part(y, k + 1) = Part(y, k) + y[k + 1] * Weight(k) /\ Part(y, k) \in 0 .. Weight(k) - 1
      BY <1>2, <2>1, PartIs
    <3> QED BY <3>1, <3>2, <3>3
  <2>3. Part(y, k) = Part(x, k) + IF k < l THEN 0 ELSE d
    BY <1>6, <2>1
  <2>4. CASE k + 1 = l
    <3>1. k < l /\ ~(k + 1 < l) /\ y[k + 1] = w /\ x[k + 1] = x[l] /\ l - 1 = k
      BY <1>1, <1>2, <2>1, <2>4
    <3>2. w * Weight(k) = x[l] * Weight(k) + d
      BY <1>3, <3>1
    <3> HIDE DEF d
    <3> DEFINE a == w * Weight(k)  c == x[l] * Weight(k)
    <3>3. c \in Int /\ a = c + d /\ Part(y, k + 1) = Part(x, k) + a /\ Part(x, k + 1) = Part(x, k) + c
      BY <1>3, <2>2, <2>3, <3>1, <3>2
    <3> HIDE DEF a, c
    <3> QED BY <1>4, <2>2, <3>1, <3>3
  <2>5. CASE k + 1 # l
    <3>1. y[k + 1] = x[k + 1] /\ (k < l <=> k + 1 < l)
      BY <1>1, <1>2, <2>1, <2>5
    <3> DEFINE a == x[k + 1] * Weight(k)
    <3>2. a \in Int
      BY <2>2
    <3> HIDE DEF a, d
    <3> QED BY <1>4, <2>2, <2>3, <3>1, <3>2 DEF a
  <2> QED BY <2>4, <2>5
<1> HIDE DEF S
<1>7. num_word \in S
  BY <1>1, <1>5, <1>6, Induct
<1>8. Part(y, num_word) = Part(x, num_word) + d
  BY <1>1, <1>7 DEF S
<1> QED BY <1>2, <1>8, PartIs

(* Words beyond the m-th set, or clear, where y has none. *)
LEMMA Extended ==
    ASSUME type \in Types, NEW x \in Vint, NEW y \in Vint, NEW m \in 0 .. num_word,
           NEW e \in {0, 1},
           \A i \in Index : IF i <= m THEN x[i] = y[i] ELSE x[i] = e * (B - 1) /\ y[i] = 0
    PROVE  Val(x) = Val(y) + e * (Weight(num_word) - Weight(m))
<1> DEFINE f(k) == IF k <= m THEN 0 ELSE e * (Weight(k) - Weight(m))
           S == {k \in Nat : k <= num_word => Part(x, k) = Part(y, k) + f(k)}
<1>1. num_word \in Nat \ {0} /\ m \in Nat
  BY Sizes
<1>2. 0 \in S
  <2>1. Part(x, 0) = 0 /\ Part(y, 0) = 0 /\ f(0) = 0
    BY <1>1, PartIs
  <2> QED BY <2>1
<1>3. ASSUME NEW k \in Nat, k \in S PROVE k + 1 \in S
  <2> SUFFICES ASSUME k + 1 <= num_word PROVE Part(x, k + 1) = Part(y, k + 1) + f(k + 1)
    OBVIOUS
  <2>1. k \in 0 .. num_word - 1 /\ k \in 0 .. num_word /\ k + 1 \in Index
    BY <1>1 DEF Index
  <2>2. Part(x, k + 1) = Part(x, k) + x[k + 1] * Weight(k) /\ Part(x, k) \in 0 .. Weight(k) - 1
    BY <2>1, PartIs
  <2>3. Part(y, k + 1) = Part(y, k) + y[k + 1] * Weight(k) /\ Part(y, k) \in 0 .. Weight(k) - 1
    BY <2>1, PartIs
  <2>4. Part(x, k) = Part(y, k) + f(k)
    BY <1>3, <2>1
  <2>5. /\ Weight(k) \in Nat /\ Weight(m) \in Nat /\ B \in Nat
        /\ Weight(k + 1) = Weight(k) * B
    BY <1>1, Weights
  <2>6. x[k + 1] \in Nat /\ y[k + 1] \in Nat
    BY <2>1, <2>5, PartIs DEF Word
  <2>7. CASE k + 1 <= m
    <3>1. f(k) = 0 /\ f(k + 1) = 0 /\ x[k + 1] = y[k + 1]
      <4>1. k <= m /\ k + 1 <= m
        BY <1>1, <2>7
      <4>2. x[k + 1] = y[k + 1]
        BY <2>1, <4>1
      <4> QED BY <4>1, <4>2
    <3> DEFINE a == x[k + 1] * Weight(k)
    <3>2. a \in Int /\ y[k + 1] * Weight(k) = a
      BY <2>5, <2>6, <3>1
    <3> HIDE DEF f
    <3>3. Part(x, k + 1) = Part(x, k) + a /\ Part(y, k + 1) = Part(y, k) + a
      BY <2>2, <2>3, <3>2
    <3> HIDE DEF a
    <3> QED BY <2>2, <2>3, <2>4, <2>5, <3>1, <3>2, <3>3
  <2>8. CASE ~(k + 1 <= m)
    <3>1. /\ f(k) = e * (Weight(k) - Weight(m))
          /\ f(k + 1) = e * (Weight(k + 1) - Weight(m))
          /\ x[k + 1] = e * (B - 1) /\ y[k + 1] = 0
      <4>1. k = m \/ ~(k <= m)
        BY <1>1, <2>8
      <4>2. k = m => e * (Weight(k) - Weight(m)) = 0
        BY <2>5
      <4> QED BY <2>1, <2>8, <4>1, <4>2
    <3>2. x[k + 1] * Weight(k) = e * (Weight(k + 1) - Weight(k))
      BY <2>5, <3>1
    <3>3. e * (Weight(k) - Weight(m)) + e * (Weight(k + 1) - Weight(k))
            = e * (Weight(k + 1) - Weight(m))
      BY <2>5
    <3> DEFINE a == x[k + 1] * Weight(k)  b == f(k)  c == f(k + 1)
    <3>4. a \in Int /\ b \in Int /\ c = b + a /\ y[k + 1] * Weight(k) = 0
      <4>1. c = b + a
        BY <3>1, <3>2, <3>3
      <4>2. a \in Int
        BY <2>5, <2>6
      <4>3. b \in Int /\ c \in Int
        <5>1. e \in Int /\ Weight(k) - Weight(m) \in Int /\ Weight(k + 1) - Weight(m) \in Int
          BY <2>5
        <5> HIDE DEF f
        <5> QED BY <3>1, <5>1
      <4>4. y[k + 1] * Weight(k) = 0
        BY <2>5, <3>1
      <4> QED BY <4>1, <4>2, <4>3, <4>4
    <3>5. Part(x, k + 1) = Part(x, k) + a /\ Part(y, k + 1) = Part(y, k) /\ Part(x, k) = Part(y, k) + b
      BY <2>2, <2>3, <2>4, <3>4
    <3>6. Part(x, k + 1) = Part(y, k + 1) + c
      <4> HIDE DEF a, b, c
      <4> QED BY <2>3, <2>5, <3>4, <3>5
    <3> QED BY <3>6
  <2> QED BY <2>7, <2>8
<1> HIDE DEF S
<1>4. num_word \in S
  BY <1>1, <1>2, <1>3, Induct
<1>5. Part(x, num_word) = Part(y, num_word) + f(num_word)
  BY <1>1, <1>4 DEF S
<1>6. f(num_word) = e * (Weight(num_word) - Weight(m))
  <2>1. m = num_word \/ ~(num_word <= m)
    BY <1>1
  <2>2. Weight(num_word) \in Nat
    BY <1>1, Weights
  <2>3. m = num_word => e * (Weight(num_word) - Weight(m)) = 0
    BY <2>2
  <2> QED BY <2>1, <2>3
<1> HIDE DEF f
<1> QED BY <1>5, <1>6, PartIs

-----------------------------------------------------------------------------
(* Clearing the unused bits, and arithmetic with its carries. *)

(* A machine word is the number it is. *)
LEMMA LowVal ==
    ASSUME type \in Types, NEW w \in Word PROVE Low(w) \in Vint /\ Val(Low(w)) = w
<1>1. num_word \in Nat \ {0} /\ 1 \in Index
  BY Sizes DEF Index
<1>2. Low(w) = [Zeros EXCEPT ![1] = w] /\ Zeros[1] = 0
  BY <1>1 DEF Low, Zeros
<1>3. Low(w) \in Vint /\ Val(Low(w)) = Val(Zeros) + (w - Zeros[1]) * Weight(1 - 1)
  BY <1>1, <1>2, ZeroVal, ValExcept
<1>4. Weight(1 - 1) = 1 /\ Val(Zeros) = 0 /\ w \in Int
  BY Weights, ZeroVal DEF Word
<1> QED BY <1>2, <1>3, <1>4

(* & with the lowest bits set is a remainder. *)
LEMMA MaskWord ==
    ASSUME type \in Types, NEW w \in Word, NEW u \in 0 .. bit_per_word
    PROVE  (w & (2^u - 1)) = w % 2^u /\ w % 2^u \in Word /\ w % 2^u < 2^u
<1> DEFINE W == bit_per_word  o == 2^u - 1  a == w & o  c == w % 2^u
<1>1. W \in Nat \ {0} /\ u \in Nat /\ w \in Nat /\ 2^u \in Nat \ {0} /\ w \in 0 .. 2^W - 1
  <2>1. W \in Nat \ {0} /\ u \in Nat
    BY Sizes
  <2>2. B = 2^W /\ B \in Nat /\ 2^u \in Nat \ {0}
    BY <2>1, Weights, TwoPositive
  <2> QED BY <2>1, <2>2 DEF Word
<1>2. o \in Nat /\ o \in 0 .. 2^u - 1
  BY <1>1
<1>b. \A i \in Nat : i < u => BitOf(o, i) = 1
  BY <1>1, OnesAre
<1> HIDE DEF o
<1>3. Combines(a, W, And, w, o)
  <2>1. a = Bitwise(W, And, w, o)
    BY DEF &
  <2>2. W \in Nat
    BY <1>1
  <2>3. And \in Tables
    BY TablesAre
  <2>4. Combines(Bitwise(W, And, w, o), W, And, w, o)
    BY <1>1, <1>2, <2>2, <2>3, BitwiseIs
  <2> QED BY <2>1, <2>4
<1>4. /\ a \in 0 .. 2^W - 1
      /\ \A i \in 0 .. W - 1 : BitOf(a, i) = And[BitOf(w, i)][BitOf(o, i)]
  <2> HIDE DEF a
  <2> QED BY <1>3 DEF Combines
<1>5. c \in 0 .. 2^u - 1 /\ c \in 0 .. 2^W - 1
  <2> DEFINE p == 2^u  q == 2^W
  <2>1. p \in Nat \ {0} /\ w \in 0 .. q - 1 /\ w \in Nat /\ c = w % p /\ q \in Nat
    BY <1>1
  <2> HIDE DEF p, q, c
  <2>2. c \in 0 .. p - 1 /\ c <= w
    BY <2>1
  <2> QED BY <2>1, <2>2 DEF p, q
<1>6. ASSUME NEW i \in 0 .. W - 1 PROVE BitOf(a, i) = BitOf(c, i)
  <2>1. i \in Nat /\ BitOf(w, i) \in {0, 1}
    BY <1>1, BitRange
  <2>2. CASE i < u
    <3>1. BitOf(o, i) = 1 /\ BitOf(c, i) = BitOf(w, i)
      <4>1. i \in 0 .. u - 1
        BY <1>1, <2>1, <2>2
      <4>2. BitOf(c, i) = BitOf(w, i)
        BY <1>1, <4>1, SplitBits
      <4> QED BY <1>b, <2>1, <2>2, <4>2
    <3> QED BY <1>4, <2>1, <3>1, TablesAre
  <2>3. CASE ~(i < u)
    <3>1. BitOf(o, i) = 0 /\ BitOf(c, i) = 0
      BY <1>1, <1>2, <1>5, <2>1, <2>3, BitsBeyond
    <3> QED BY <1>4, <2>1, <3>1, TablesAre
  <2> QED BY <2>2, <2>3
<1> HIDE DEF a, c
<1>7. a = c
  BY <1>1, <1>4, <1>5, <1>6, SameBits
<1> QED BY <1>5, <1>7 DEF a, c, o, Word, B

(* Clearing the unused bits leaves the remainder. *)
LEMMA ClearIs ==
    ASSUME type \in Types, NEW x \in Vint
    PROVE  /\ ClearUnusedBits(x) \in Vint
           /\ Val(ClearUnusedBits(x)) = Val(x) % 2^num_bit
           /\ Val(x) < 2^num_bit => ClearUnusedBits(x) = x
<1> DEFINE K == num_word  m == 2^used  w == x[K]  c == w % m  y == ClearUnusedBits(x)
           p == Weight(K - 1)  M == 2^num_bit
<1>1. K \in Nat \ {0} /\ K \in Index /\ used \in 0 .. bit_per_word
  BY Sizes DEF Index
<1>2. w \in Word /\ B \in Nat
  BY <1>1, Weights DEF Vint, Index
<1>3. m \in Nat \ {0} /\ p \in Nat \ {0} /\ M = m * p /\ M \in Nat \ {0}
  <2>1. m \in Nat \ {0} /\ M = m * p /\ M \in Nat \ {0}
    BY Weights
  <2>2. K - 1 \in Nat
    BY <1>1
  <2> QED BY <2>1, <2>2, Weights
<1>4. c \in Word /\ y = [x EXCEPT ![K] = c]
  <2>1. used_mask = m - 1
    BY Weights
  <2>2. (w & used_mask) = c /\ c \in Word
    BY <1>1, <1>2, <2>1, MaskWord
  <2> QED BY <2>2 DEF ClearUnusedBits
<1>5. y \in Vint /\ Val(y) = Val(x) + (c - w) * p
  BY <1>1, <1>4, ValExcept
<1>6. w \in Nat
  BY <1>2 DEF Word
<1> DEFINE q == w \div m
<1>7. q \in Nat /\ c \in 0 .. m - 1 /\ w = q * m + c
  <2> HIDE DEF m, w
  <2> QED BY <1>3, <1>6
<1>8. Val(y) \in 0 .. M - 1
  <2>1. y[K] = c
    BY <1>1, <1>4 DEF Vint, Index
  <2>2. K - 1 \in 0 .. K - 1 /\ K - 1 \in 0 .. K /\ (K - 1) + 1 = K
    BY <1>1
  <2>3. Part(y, K) = Part(y, K - 1) + c * p /\ Part(y, K - 1) \in 0 .. p - 1
    BY <1>5, <2>1, <2>2, PartIs
  <2>4. Val(y) = Part(y, K - 1) + c * p
    BY <1>5, <2>3, PartIs
  <2> DEFINE l == Part(y, K - 1)  z == Val(y)
  <2> HIDE DEF l, z, c, p, m, M
  <2>5. c * p <= (m - 1) * p /\ (m - 1) * p = M - p /\ c * p \in Nat
    BY <1>3, <1>7
  <2>6. z \in 0 .. M - 1
    BY <1>3, <2>3, <2>4, <2>5 DEF l, z
  <2> QED BY <2>6 DEF z
<1>9. Val(x) = q * M + Val(y) /\ Val(x) \in Nat
  <2>1. Val(x) \in Nat
    <3>1. Part(x, K) \in 0 .. Weight(K) - 1 /\ Val(x) = Part(x, K) /\ Weight(K) \in Nat
      BY <1>1, PartIs, Weights
    <3> QED BY <3>1
  <2> DEFINE n == Val(x)  z == Val(y)
  <2> HIDE DEF n, z, c, p, m, M, q, w, y
  <2>2. (c - w) * p = -(q * (m * p))
    BY <1>3, <1>7
  <2>3. n = q * M + z
    <3> DEFINE t == q * (m * p)
    <3>1. t \in Int /\ t = q * M /\ z = n - t /\ n \in Int
      BY <1>3, <1>5, <1>7, <2>1, <2>2 DEF n, z
    <3> HIDE DEF t
    <3> QED BY <3>1
  <2> QED BY <2>1, <2>3 DEF n, z
<1>10. Val(y) = Val(x) % M
  <2> DEFINE n == Val(x)  z == Val(y)
  <2> HIDE DEF n, z, M, q
  <2>1. n % M = z
    <3>1. n \in Int /\ M \in Nat /\ M > 0 /\ q \in Int /\ z \in 0 .. M - 1 /\ n = q * M + z
      BY <1>3, <1>7, <1>8, <1>9 DEF n, z
    <3> QED BY <3>1, DivUnique
  <2> QED BY <2>1 DEF n, z
<1>11. ASSUME Val(x) < M PROVE y = x
  <2> DEFINE n == Val(x)
  <2>1. n % M = n
    <3> HIDE DEF n, M
    <3> QED BY <1>3, <1>9, <1>11 DEF n
  <2> QED BY <1>5, <1>10, <2>1, SameVal
<1> QED BY <1>5, <1>10, <1>11

(* It takes numbers that are the same but for carries out of the words to   *)
(* the same remainder.                                                      *)
LEMMA ClearMod ==
    ASSUME type \in Types, NEW x \in Vint, NEW z \in Int,
           Congruent(Val(x), z, Weight(num_word))
    PROVE  /\ ClearUnusedBits(x) \in Vint
           /\ Val(ClearUnusedBits(x)) = z % 2^num_bit
<1>1. Weight(num_word) \in Nat \ {0} /\ 2^num_bit \in Nat \ {0} /\ Multiple(Weight(num_word), 2^num_bit)
  <2>1. num_word \in Nat
    BY Sizes
  <2> QED BY <2>1, Weights
<1>2. Val(x) \in Int
  <2>1. num_word \in Nat /\ num_word \in 0 .. num_word
    BY Sizes
  <2> QED BY <2>1, <1>1, PartIs
<1>3. Val(x) % 2^num_bit = z % 2^num_bit
  BY <1>1, <1>2, CongruentMod
<1> QED BY <1>3, ClearIs

(* The number of words, and the words of a number. *)
LEMMA ValFits ==
    ASSUME type \in Types, NEW x \in Vint
    PROVE  /\ Val(x) \in 0 .. Weight(num_word) - 1 /\ Val(x) \in Nat
           /\ Weight(num_word) \in Nat \ {0}
<1>1. num_word \in Nat /\ num_word \in 0 .. num_word
  BY Sizes
<1>2. Weight(num_word) \in Nat \ {0}
  BY <1>1, Weights
<1>3. Val(x) \in 0 .. Weight(num_word) - 1
  BY <1>1, PartIs
<1> QED BY <1>2, <1>3

(* The words of a number count for it, but for what the vint cannot hold.   *)
LEMMA ValWords ==
    ASSUME type \in Types, NEW n \in Nat
    PROVE  Words(n) \in Vint /\ Val(Words(n)) = n % Weight(num_word)
<1> DEFINE x == Words(n)
           S == {k \in Nat : k <= num_word => Part(x, k) = n % Weight(k)}
<1>1. num_word \in Nat \ {0}
  BY Sizes
<1>2. \A k \in Nat : Weight(k) \in Nat \ {0} /\ B \in Nat \ {0} /\ Weight(k + 1) = Weight(k) * B
  BY Weights
<1>3. \A k \in Nat : /\ (n \div Weight(k)) % B \in 0 .. B - 1
                     /\ n % Weight(k + 1) = (n % Weight(k)) + ((n \div Weight(k)) % B) * Weight(k)
  <2> TAKE k \in Nat
  <2> DEFINE p == Weight(k)  q == Weight(k + 1)
  <2>1. p \in Nat \ {0} /\ B \in Nat \ {0} /\ q = p * B /\ n \in Int
    BY <1>2
  <2> HIDE DEF p, q
  <2>2. /\ (n \div p) % B \in 0 .. B - 1
        /\ n % (p * B) = (n % p) + ((n \div p) % B) * p
    BY <2>1, DigitFact
  <2> QED BY <2>1, <2>2 DEF p, q
<1>4. \A k \in 0 .. num_word - 1 : k + 1 \in Index /\ x[k + 1] = (n \div Weight(k)) % B
  <2> TAKE k \in 0 .. num_word - 1
  <2>1. k + 1 \in Index /\ (k + 1) - 1 = k
    BY <1>1 DEF Index
  <2> QED BY <2>1 DEF Words
<1>5. x \in Vint
  <2>1. ASSUME NEW i \in Index PROVE (n \div Weight(i - 1)) % B \in Word
    <3>1. i - 1 \in Nat
      BY <1>1 DEF Index
    <3> QED BY <1>3, <3>1 DEF Word
  <2> QED BY <2>1 DEF Words, Vint, Index
<1> HIDE DEF x
<1>6. 0 \in S
  <2>1. Weight(0) = 1 /\ n % 1 = 0 /\ Part(x, 0) = 0
    BY <1>5, Weights, PartIs
  <2> QED BY <2>1
<1>7. ASSUME NEW k \in Nat, k \in S PROVE k + 1 \in S
  <2> SUFFICES ASSUME k + 1 <= num_word PROVE Part(x, k + 1) = n % Weight(k + 1)
    OBVIOUS
  <2>1. k \in 0 .. num_word - 1 /\ Part(x, k) = n % Weight(k)
    BY <1>1, <1>7
  <2>2. Part(x, k + 1) = Part(x, k) + x[k + 1] * Weight(k)
    BY <1>5, <2>1, PartIs
  <2> QED BY <1>3, <1>4, <2>1, <2>2
<1> HIDE DEF S
<1>8. num_word \in S
  BY <1>1, <1>6, <1>7, Induct
<1>9. Part(x, num_word) = n % Weight(num_word)
  BY <1>8 DEF S
<1> QED BY <1>5, <1>9, PartIs DEF x

(* The bits turned over. *)
LEMMA Complement ==
    ASSUME type \in Types, NEW x \in Vint, NEW y, y = [i \in Index |-> B - 1 - x[i]]
    PROVE  y \in Vint /\ Val(y) = Weight(num_word) - 1 - Val(x)
<1> DEFINE S == {k \in Nat : k <= num_word => Part(y, k) = Weight(k) - 1 - Part(x, k)}
<1>1. num_word \in Nat \ {0} /\ B \in Nat \ {0}
  BY Sizes, Weights
<1>2. y \in Vint
  <2>1. \A i \in Index : x[i] \in 0 .. B - 1
    BY DEF Vint, Index, Word
  <2>2. \A i \in Index : B - 1 - x[i] \in 0 .. B - 1
    BY <1>1, <2>1
  <2> QED BY <2>2 DEF Vint, Index, Word
<1>3. 0 \in S
  <2>1. Weight(0) = 1 /\ Part(x, 0) = 0 /\ Part(y, 0) = 0
    BY <1>2, Weights, PartIs
  <2> QED BY <2>1
<1>4. ASSUME NEW k \in Nat, k \in S PROVE k + 1 \in S
  <2> SUFFICES ASSUME k + 1 <= num_word PROVE Part(y, k + 1) = Weight(k + 1) - 1 - Part(x, k + 1)
    OBVIOUS
  <2>1. k \in 0 .. num_word - 1 /\ k \in 0 .. num_word /\ k + 1 \in Index
    BY <1>1 DEF Index
  <2>2. /\ x[k + 1] \in Word /\ Part(x, k + 1) = Part(x, k) + x[k + 1] * Weight(k)
        /\ Part(x, k) \in 0 .. Weight(k) - 1
    BY <2>1, PartIs
  <2>3. Part(y, k + 1) = Part(y, k) + (B - 1 - x[k + 1]) * Weight(k)
    BY <1>2, <2>1, PartIs
  <2>4. Part(y, k) = Weight(k) - 1 - Part(x, k)
    BY <1>4, <2>1
  <2>5. Weight(k) \in Nat /\ Weight(k + 1) = Weight(k) * B
    BY Weights
  <2> DEFINE p == Weight(k)  d == x[k + 1]  a == d * p  q == p * B
  <2>6. p \in Nat /\ d \in Nat /\ a \in Int /\ q \in Int /\ (B - 1 - d) * p = q - p - a
    BY <1>1, <2>2, <2>5 DEF Word
  <2>7. /\ Part(x, k + 1) = Part(x, k) + a /\ Part(y, k + 1) = p - 1 - Part(x, k) + (q - p - a)
        /\ Weight(k + 1) = q /\ Part(x, k) \in Int
    BY <2>2, <2>3, <2>4, <2>5, <2>6
  <2> HIDE DEF p, d, a, q
  <2> QED BY <2>6, <2>7
<1> HIDE DEF S
<1>5. num_word \in S
  BY <1>1, <1>3, <1>4, Induct
<1>6. Part(y, num_word) = Weight(num_word) - 1 - Part(x, num_word)
  BY <1>5 DEF S
<1> QED BY <1>2, <1>6, PartIs

(* The carries. *)
LEMMA CarryIs ==
    ASSUME type \in Types, NEW x \in Vint, NEW y \in Vint, NEW c \in {0, 1}
    PROVE  /\ Carry(x, y, c)[0] = c
           /\ \A i \in Index : Carry(x, y, c)[i] = (x[i] + y[i] + Carry(x, y, c)[i - 1]) \div B
           /\ \A i \in 0 .. num_word : Carry(x, y, c)[i] \in {0, 1}
<1> DEFINE Solves(f) == f = [i \in 0 .. num_word |->
                                IF i = 0 THEN c ELSE (x[i] + y[i] + f[i - 1]) \div B]
           step == [i \in Index |-> [z \in {0, 1} |-> (x[i] + y[i] + z) \div B]]
<1>1. num_word \in Nat \ {0} /\ B \in Nat \ {0}
  BY Sizes, Weights
<1>2. \A i \in Index : x[i] \in 0 .. B - 1 /\ y[i] \in 0 .. B - 1
  BY DEF Vint, Index, Word
<1>3. \A i \in Index, z \in {0, 1} : (x[i] + y[i] + z) \div B \in {0, 1}
  <2> TAKE i \in Index, z \in {0, 1}
  <2> DEFINE sum == x[i] + y[i] + z
  <2>1. sum \in 0 .. 2 * B - 1
    BY <1>1, <1>2
  <2> HIDE DEF sum
  <2>2. CASE sum < B
    <3>1. sum = 0 * B + sum /\ sum \in 0 .. B - 1
      BY <1>1, <2>1, <2>2
    <3>2. sum \div B = 0
      BY <1>1, <3>1, DivUnique
    <3> QED BY <3>2 DEF sum
  <2>3. CASE sum >= B
    <3>1. sum = 1 * B + (sum - B) /\ sum - B \in 0 .. B - 1 /\ sum \in Int
      BY <1>1, <2>1, <2>3
    <3>2. sum \div B = 1
      BY <1>1, <3>1, DivUnique
    <3> QED BY <3>2 DEF sum
  <2>4. sum < B \/ sum >= B
    BY <1>1, <2>1
  <2> QED BY <2>2, <2>3, <2>4
<1>4. step \in [1 .. num_word -> [{0, 1} -> {0, 1}]]
  BY <1>3 DEF Index
<1>5. \A i \in Index, z \in {0, 1} : step[i][z] = (x[i] + y[i] + z) \div B
  OBVIOUS
<1> HIDE DEF step
<1>6. PICK g \in [0 .. num_word -> {0, 1}] : RecursionOf(g, num_word, c, step)
  BY <1>1, <1>4, Recursion
<1>7. g[0] = c /\ \A i \in Index : g[i] = (x[i] + y[i] + g[i - 1]) \div B
  <2>1. \A i \in Index : i - 1 \in 0 .. num_word
    BY <1>1 DEF Index
  <2> QED BY <1>5, <1>6, <2>1 DEF RecursionOf, Index
<1>8. Solves(g)
  <2>1. ASSUME NEW i \in 0 .. num_word
        PROVE  g[i] = IF i = 0 THEN c ELSE (x[i] + y[i] + g[i - 1]) \div B
    <3>1. i = 0 \/ i \in Index
      BY <1>1 DEF Index
    <3>2. 0 \notin Index
      BY <1>1 DEF Index
    <3> QED BY <1>7, <3>1, <3>2
  <2> QED BY <1>6, <2>1
<1> DEFINE f == CHOOSE h : Solves(h)
<1>9. Solves(f)
  BY <1>8
<1>10. Carry(x, y, c) = f
  BY DEF Carry
<1> HIDE DEF f
<1>11. \A i \in 0 .. num_word : f[i] = IF i = 0 THEN c ELSE (x[i] + y[i] + f[i - 1]) \div B
  BY <1>9
<1>12. f[0] = c /\ \A i \in Index : f[i] = (x[i] + y[i] + f[i - 1]) \div B
  <2>1. 0 \in 0 .. num_word /\ \A i \in Index : i \in 0 .. num_word /\ i # 0
    BY <1>1 DEF Index
  <2> QED BY <1>11, <2>1
<1> DEFINE S == {i \in Nat : i <= num_word => f[i] \in {0, 1}}
<1>13. 0 \in S
  BY <1>12
<1>14. ASSUME NEW i \in Nat, i \in S PROVE i + 1 \in S
  <2> SUFFICES ASSUME i + 1 <= num_word PROVE f[i + 1] \in {0, 1}
    OBVIOUS
  <2>1. i + 1 \in Index /\ (i + 1) - 1 = i /\ f[i] \in {0, 1}
    BY <1>1, <1>14 DEF Index
  <2>2. f[i + 1] = (x[i + 1] + y[i + 1] + f[i]) \div B
    BY <1>12, <2>1
  <2> QED BY <1>3, <2>1, <2>2
<1> HIDE DEF S
<1>15. Nat \subseteq S
  BY <1>13, <1>14, Induct
<1>16. \A i \in 0 .. num_word : f[i] \in {0, 1}
  BY <1>15 DEF S
<1> QED BY <1>10, <1>12, <1>16

(* The sum with the carry in, but for the carry out of the last word. *)
LEMMA PlusIs ==
    ASSUME type \in Types, NEW x \in Vint, NEW y \in Vint, NEW c \in {0, 1}
    PROVE  /\ Plus(x, y, c) \in Vint
           /\ Congruent(Val(Plus(x, y, c)), Val(x) + Val(y) + c, Weight(num_word))
<1> DEFINE z == Plus(x, y, c)  f == Carry(x, y, c)
           S == {k \in Nat : k <= num_word =>
                    Part(z, k) + f[k] * Weight(k) = Part(x, k) + Part(y, k) + c}
<1>1. num_word \in Nat \ {0} /\ B \in Nat \ {0}
  BY Sizes, Weights
<1>2. /\ f[0] = c /\ \A i \in Index : f[i] = (x[i] + y[i] + f[i - 1]) \div B
      /\ \A i \in 0 .. num_word : f[i] \in {0, 1}
  BY CarryIs
<1>3. \A i \in Index : z[i] = (x[i] + y[i] + f[i - 1]) % B
  BY DEF Plus
<1>4. \A i \in Index : /\ z[i] \in 0 .. B - 1
                        /\ x[i] + y[i] + f[i - 1] = f[i] * B + z[i]
  <2> TAKE i \in Index
  <2>1. x[i] \in Nat /\ y[i] \in Nat
    <3>1. x[i] \in Word /\ y[i] \in Word
      BY DEF Vint, Index
    <3> QED BY <1>1, <3>1 DEF Word
  <2>2. f[i - 1] \in {0, 1} /\ f[i] \in {0, 1}
    BY <1>1, <1>2 DEF Index
  <2> DEFINE sum == x[i] + y[i] + f[i - 1]
  <2>3. sum \in Nat /\ f[i] = sum \div B /\ z[i] = sum % B
    BY <1>2, <1>3, <2>1, <2>2
  <2> HIDE DEF sum, f, z
  <2>4. z[i] \in 0 .. B - 1 /\ sum = f[i] * B + z[i]
    BY <1>1, <2>3
  <2> QED BY <2>4 DEF sum
<1>5. z \in Vint
  BY <1>4 DEF Plus, Vint, Index, Word
<1> HIDE DEF z, f
<1>6. 0 \in S
  <2>1. Weight(0) = 1 /\ Part(x, 0) = 0 /\ Part(y, 0) = 0 /\ Part(z, 0) = 0
    BY <1>5, Weights, PartIs
  <2> QED BY <1>2, <2>1
<1>7. ASSUME NEW k \in Nat, k \in S PROVE k + 1 \in S
  <2> SUFFICES ASSUME k + 1 <= num_word
               PROVE  Part(z, k + 1) + f[k + 1] * Weight(k + 1) = Part(x, k + 1) + Part(y, k + 1) + c
    OBVIOUS
  <2>1. /\ k \in 0 .. num_word - 1 /\ k \in 0 .. num_word /\ k + 1 \in Index
        /\ k + 1 \in 0 .. num_word /\ (k + 1) - 1 = k
    BY <1>1 DEF Index
  <2> DEFINE p == Weight(k)  q == Weight(k + 1)  dx == x[k + 1]  dy == y[k + 1]  dz == z[k + 1]
             px == Part(x, k)  py == Part(y, k)  pz == Part(z, k)  e == f[k]  g == f[k + 1]
  <2>2. p \in Nat /\ q = p * B
    BY Weights
  <2>3. dx \in Word /\ Part(x, k + 1) = px + dx * p /\ px \in 0 .. p - 1
    BY <2>1, PartIs
  <2>4. dy \in Word /\ Part(y, k + 1) = py + dy * p /\ py \in 0 .. p - 1
    BY <2>1, PartIs
  <2>5. dz \in Word /\ Part(z, k + 1) = pz + dz * p /\ pz \in 0 .. p - 1
    BY <1>5, <2>1, PartIs
  <2>6. e \in {0, 1} /\ g \in {0, 1} /\ dx + dy + e = g * B + dz
    BY <1>2, <1>4, <2>1
  <2>7. pz + e * p = px + py + c
    BY <1>7, <2>1
  <2> DEFINE ax == dx * p  ay == dy * p  az == dz * p  ae == e * p  ag == g * q
  <2>8. ax + ay + ae = ag + az
    <3> HIDE DEF p, q, dx, dy, dz, e, g
    <3>1. dx \in Nat /\ dy \in Nat /\ dz \in Nat /\ e \in Nat /\ g \in Nat
      BY <1>1, <2>3, <2>4, <2>5, <2>6 DEF Word
    <3>2. (dx + dy + e) * p = (g * B + dz) * p
      BY <2>6
    <3>3. (dx + dy + e) * p = dx * p + dy * p + e * p
      BY <2>2, <3>1
    <3>4. (g * B + dz) * p = g * (p * B) + dz * p
      BY <1>1, <2>2, <3>1
    <3> QED BY <2>2, <3>2, <3>3, <3>4
  <2>9. ax \in Int /\ ay \in Int /\ az \in Int /\ ae \in Int /\ ag \in Int
    <3> HIDE DEF p, q, dx, dy, dz, e, g
    <3>1. dx \in Nat /\ dy \in Nat /\ dz \in Nat /\ e \in Nat /\ g \in Nat /\ q \in Nat
      BY <1>1, <2>2, <2>3, <2>4, <2>5, <2>6 DEF Word
    <3> QED BY <2>2, <3>1
  <2>10. px \in Int /\ py \in Int /\ pz \in Int /\ pz + ae = px + py + c
    BY <2>3, <2>4, <2>5, <2>7
  <2>11. /\ Part(x, k + 1) = px + ax /\ Part(y, k + 1) = py + ay /\ Part(z, k + 1) = pz + az
         /\ f[k + 1] * Weight(k + 1) = ag
    BY <2>3, <2>4, <2>5
  <2> HIDE DEF ax, ay, az, ae, ag, px, py, pz
  <2> QED BY <2>8, <2>9, <2>10, <2>11
<1> HIDE DEF S
<1>8. num_word \in S
  BY <1>1, <1>6, <1>7, Induct
<1>9. Val(z) + f[num_word] * Weight(num_word) = Val(x) + Val(y) + c
  BY <1>1, <1>5, <1>8, PartIs DEF S
<1>10. Congruent(Val(z), Val(x) + Val(y) + c, Weight(num_word))
  <2> DEFINE a == Val(z)  b == Val(x) + Val(y) + c  w == Weight(num_word)  e == f[num_word]
  <2>1. a \in Int /\ b \in Int /\ w \in Int /\ e \in {0, 1} /\ a + e * w = b
    <3>1. num_word \in 0 .. num_word
      BY <1>1
    <3> QED BY <1>2, <1>5, <1>9, <3>1, ValFits
  <2> HIDE DEF a, b, w, e
  <2>2. -e \in Int /\ a = b + (-e) * w
    BY <2>1
  <2>3. Congruent(a, b, w)
    BY <2>2 DEF Congruent
  <2> QED BY <2>3 DEF a, b, w
<1> QED BY <1>5, <1>10 DEF z

(* The borrows. *)
LEMMA BorrowIs ==
    ASSUME type \in Types, NEW x \in Vint, NEW y \in Vint
    PROVE  /\ Borrow(x, y)[0] = 0
           /\ \A i \in Index : Borrow(x, y)[i] = IF x[i] < y[i] + Borrow(x, y)[i - 1] THEN 1 ELSE 0
           /\ \A i \in 0 .. num_word : Borrow(x, y)[i] \in {0, 1}
<1> DEFINE Solves(f) == f = [i \in 0 .. num_word |->
                                IF i = 0 THEN 0 ELSE IF x[i] < y[i] + f[i - 1] THEN 1 ELSE 0]
           step == [i \in Index |-> [z \in {0, 1} |-> IF x[i] < y[i] + z THEN 1 ELSE 0]]
<1>1. num_word \in Nat \ {0}
  BY Sizes
<1>2. step \in [1 .. num_word -> [{0, 1} -> {0, 1}]]
  BY DEF Index
<1>3. \A i \in Index, z \in {0, 1} : step[i][z] = IF x[i] < y[i] + z THEN 1 ELSE 0
  OBVIOUS
<1> HIDE DEF step
<1>4. PICK g \in [0 .. num_word -> {0, 1}] : RecursionOf(g, num_word, 0, step)
  <2>1. 0 \in {0, 1}
    OBVIOUS
  <2> QED BY <1>1, <1>2, <2>1, Recursion
<1>5. g[0] = 0 /\ \A i \in Index : g[i] = IF x[i] < y[i] + g[i - 1] THEN 1 ELSE 0
  <2>1. \A i \in Index : i - 1 \in 0 .. num_word
    BY <1>1 DEF Index
  <2> QED BY <1>3, <1>4, <2>1 DEF RecursionOf, Index
<1>6. Solves(g)
  <2>1. ASSUME NEW i \in 0 .. num_word
        PROVE  g[i] = IF i = 0 THEN 0 ELSE IF x[i] < y[i] + g[i - 1] THEN 1 ELSE 0
    <3>1. i = 0 \/ i \in Index
      BY <1>1 DEF Index
    <3>2. 0 \notin Index
      BY <1>1 DEF Index
    <3> QED BY <1>5, <3>1, <3>2
  <2> QED BY <1>4, <2>1
<1> DEFINE f == CHOOSE h : Solves(h)
<1>7. Solves(f)
  BY <1>6
<1>8. Borrow(x, y) = f
  BY DEF Borrow
<1> HIDE DEF f
<1>9. \A i \in 0 .. num_word : f[i] = IF i = 0 THEN 0 ELSE IF x[i] < y[i] + f[i - 1] THEN 1 ELSE 0
  BY <1>7
<1>10. \A i \in Index : i \in 0 .. num_word /\ i # 0
  BY <1>1 DEF Index
<1>11. f[0] = 0
  BY <1>1, <1>9
<1>12. \A i \in Index : f[i] = IF x[i] < y[i] + f[i - 1] THEN 1 ELSE 0
  BY <1>9, <1>10
<1>13. \A i \in 0 .. num_word : f[i] \in {0, 1}
  BY <1>9
<1> QED BY <1>8, <1>11, <1>12, <1>13

(* The difference, but for the borrow out of the last word. *)
LEMMA MinusIs ==
    ASSUME type \in Types, NEW x \in Vint, NEW y \in Vint
    PROVE  /\ Minus(x, y) \in Vint
           /\ Congruent(Val(Minus(x, y)), Val(x) - Val(y), Weight(num_word))
<1> DEFINE z == Minus(x, y)  f == Borrow(x, y)
           S == {k \in Nat : k <= num_word =>
                    Part(z, k) + Part(y, k) = Part(x, k) + f[k] * Weight(k)}
<1>1. num_word \in Nat \ {0} /\ B \in Nat \ {0}
  BY Sizes, Weights
<1>2. /\ f[0] = 0 /\ \A i \in Index : f[i] = IF x[i] < y[i] + f[i - 1] THEN 1 ELSE 0
      /\ \A i \in 0 .. num_word : f[i] \in {0, 1}
  BY BorrowIs
<1>3. \A i \in Index : z[i] = (x[i] - y[i] - f[i - 1]) % B
  BY DEF Minus
<1>4. \A i \in Index : /\ z[i] \in 0 .. B - 1
                        /\ z[i] + y[i] + f[i - 1] = x[i] + f[i] * B
  <2> TAKE i \in Index
  <2> DEFINE a == x[i]  b == y[i]  c == f[i - 1]  sum == a - b - c
  <2>1. a \in 0 .. B - 1 /\ b \in 0 .. B - 1
    BY DEF Vint, Index, Word
  <2>2. c \in {0, 1}
    BY <1>1, <1>2 DEF Index
  <2>3. z[i] = sum % B /\ f[i] = IF a < b + c THEN 1 ELSE 0
    BY <1>2, <1>3
  <2> HIDE DEF a, b, c, f, z
  <2>4. CASE a < b + c
    <3>1. sum \in Int /\ sum = (-1) * B + (sum + B) /\ sum + B \in 0 .. B - 1
      BY <1>1, <2>1, <2>2, <2>4
    <3> HIDE DEF sum
    <3>2. sum % B = sum + B
      BY <1>1, <3>1, DivUnique
    <3>3. z[i] \in 0 .. B - 1 /\ z[i] + b + c = a + B
      BY <1>1, <2>1, <2>2, <2>3, <3>1, <3>2 DEF sum
    <3>4. f[i] * B = B
      BY <1>1, <2>3, <2>4
    <3> QED BY <3>3, <3>4 DEF a, b, c
  <2>5. CASE ~(a < b + c)
    <3>1. sum \in Int /\ sum = 0 * B + sum /\ sum \in 0 .. B - 1
      BY <1>1, <2>1, <2>2, <2>5
    <3> HIDE DEF sum
    <3>2. sum % B = sum
      BY <1>1, <3>1, DivUnique
    <3>3. z[i] \in 0 .. B - 1 /\ z[i] + b + c = a
      BY <1>1, <2>1, <2>2, <2>3, <3>1, <3>2 DEF sum
    <3>4. f[i] * B = 0
      BY <1>1, <2>3, <2>5
    <3>5. a + f[i] * B = a
      BY <2>1, <3>4
    <3> QED BY <3>3, <3>5 DEF a, b, c
  <2> QED BY <2>4, <2>5
<1>5. z \in Vint
  BY <1>4 DEF Minus, Vint, Index, Word
<1> HIDE DEF z, f
<1>6. 0 \in S
  <2>1. Weight(0) = 1 /\ Part(x, 0) = 0 /\ Part(y, 0) = 0 /\ Part(z, 0) = 0
    BY <1>5, Weights, PartIs
  <2> QED BY <1>2, <2>1
<1>7. ASSUME NEW k \in Nat, k \in S PROVE k + 1 \in S
  <2> SUFFICES ASSUME k + 1 <= num_word
               PROVE  Part(z, k + 1) + Part(y, k + 1) = Part(x, k + 1) + f[k + 1] * Weight(k + 1)
    OBVIOUS
  <2>1. /\ k \in 0 .. num_word - 1 /\ k \in 0 .. num_word /\ k + 1 \in Index
        /\ k + 1 \in 0 .. num_word /\ (k + 1) - 1 = k
    BY <1>1 DEF Index
  <2> DEFINE p == Weight(k)  q == Weight(k + 1)  dx == x[k + 1]  dy == y[k + 1]  dz == z[k + 1]
             px == Part(x, k)  py == Part(y, k)  pz == Part(z, k)  e == f[k]  g == f[k + 1]
  <2>2. p \in Nat /\ q = p * B
    BY Weights
  <2>3. dx \in Word /\ Part(x, k + 1) = px + dx * p /\ px \in 0 .. p - 1
    BY <2>1, PartIs
  <2>4. dy \in Word /\ Part(y, k + 1) = py + dy * p /\ py \in 0 .. p - 1
    BY <2>1, PartIs
  <2>5. dz \in Word /\ Part(z, k + 1) = pz + dz * p /\ pz \in 0 .. p - 1
    BY <1>5, <2>1, PartIs
  <2>6. e \in {0, 1} /\ g \in {0, 1} /\ dz + dy + e = dx + g * B
    BY <1>2, <1>4, <2>1
  <2>7. pz + py = px + e * p
    BY <1>7, <2>1
  <2> DEFINE ax == dx * p  ay == dy * p  az == dz * p  ae == e * p  ag == g * q
  <2>8. az + ay + ae = ax + ag
    <3> HIDE DEF p, q, dx, dy, dz, e, g
    <3>1. dx \in Nat /\ dy \in Nat /\ dz \in Nat /\ e \in Nat /\ g \in Nat
      BY <1>1, <2>3, <2>4, <2>5, <2>6 DEF Word
    <3>2. (dz + dy + e) * p = (dx + g * B) * p
      BY <2>6
    <3>3. (dz + dy + e) * p = dz * p + dy * p + e * p
      BY <2>2, <3>1
    <3>4. (dx + g * B) * p = dx * p + g * (p * B)
      BY <1>1, <2>2, <3>1
    <3> QED BY <2>2, <3>2, <3>3, <3>4
  <2>9. ax \in Int /\ ay \in Int /\ az \in Int /\ ae \in Int /\ ag \in Int
    <3> HIDE DEF p, q, dx, dy, dz, e, g
    <3>1. dx \in Nat /\ dy \in Nat /\ dz \in Nat /\ e \in Nat /\ g \in Nat /\ q \in Nat
      BY <1>1, <2>2, <2>3, <2>4, <2>5, <2>6 DEF Word
    <3> QED BY <2>2, <3>1
  <2>10. px \in Int /\ py \in Int /\ pz \in Int /\ pz + py = px + ae
    BY <2>3, <2>4, <2>5, <2>7
  <2>11. /\ Part(x, k + 1) = px + ax /\ Part(y, k + 1) = py + ay /\ Part(z, k + 1) = pz + az
         /\ f[k + 1] * Weight(k + 1) = ag
    BY <2>3, <2>4, <2>5
  <2> HIDE DEF ax, ay, az, ae, ag, px, py, pz
  <2> QED BY <2>8, <2>9, <2>10, <2>11
<1> HIDE DEF S
<1>8. num_word \in S
  BY <1>1, <1>6, <1>7, Induct
<1>9. Val(z) + Val(y) = Val(x) + f[num_word] * Weight(num_word)
  BY <1>1, <1>5, <1>8, PartIs DEF S
<1>10. Congruent(Val(z), Val(x) - Val(y), Weight(num_word))
  <2> DEFINE a == Val(z)  b == Val(y)  c == Val(x)  w == Weight(num_word)  e == f[num_word]
  <2>1. a \in Int /\ b \in Int /\ c \in Int /\ w \in Int /\ e \in {0, 1} /\ a + b = c + e * w
    <3>1. num_word \in 0 .. num_word
      BY <1>1
    <3> QED BY <1>2, <1>5, <1>9, <3>1, ValFits
  <2> HIDE DEF a, b, c, w, e
  <2>2. e \in Int /\ a = (c - b) + e * w
    BY <2>1
  <2>3. Congruent(a, c - b, w)
    BY <2>2 DEF Congruent
  <2> QED BY <2>3 DEF a, b, c, w
<1> QED BY <1>5, <1>10 DEF z

-----------------------------------------------------------------------------
(* What each operation leaves. *)

(* A vint is a number. *)
Is(y, n) == y \in Vint /\ Val(y) = n

(* Clearing the unused bits takes the remainder.                            *)
LEMMA ClearGives ==
    ASSUME type \in Types, NEW x \in Vint, NEW z \in Int,
           Congruent(Val(x), z, Weight(num_word))
    PROVE  Is(ClearUnusedBits(x), z % 2^num_bit)
BY ClearMod DEF Is

(* Congruence follows from a difference of some moduli. *)
LEMMA CongruentBy ==
    ASSUME NEW x, NEW y, NEW m, NEW k \in Int, x = y + k * m
    PROVE  Congruent(x, y, m)
BY DEF Congruent

(* A remainder is congruent to its number.                                  *)
LEMMA CongruentMods ==
    ASSUME NEW x \in Int, NEW m \in Nat \ {0} PROVE Congruent(x % m, x, m)
<1> DEFINE d == x \div m  y == x % m
<1>1. d \in Int /\ y \in Int /\ x = d * m + y
  OBVIOUS
<1> HIDE DEF d, y
<1>2. -d \in Int /\ y = x + (-d) * m
  BY <1>1
<1>3. Congruent(y, x, m)
  BY <1>2, CongruentBy
<1> QED BY <1>3 DEF y

(* What a vint is assigned: words and the extension of the last one. *)
LEMMA AssignWords ==
    ASSUME type \in Types, NEW m \in 0 .. num_word, NEW y \in Vint,
           \A i \in Index : i > m => y[i] = 0, NEW negative \in BOOLEAN,
           NEW x, x = [i \in Index |-> IF i <= m THEN y[i] ELSE IF negative THEN B - 1 ELSE 0]
    PROVE  Is(ClearUnusedBits(x),
              (IF negative THEN Val(y) - Weight(m) ELSE Val(y)) % 2^num_bit)
<1> DEFINE e == IF negative THEN 1 ELSE 0
           n == IF negative THEN Val(y) - Weight(m) ELSE Val(y)
<1>1. B \in Nat \ {0} /\ num_word \in Nat /\ m \in Nat
  BY Sizes, Weights
<1>2. x \in Vint
  <2>1. \A i \in Index : y[i] \in Word
    BY DEF Vint, Index
  <2>2. B - 1 \in Word /\ 0 \in Word
    BY <1>1 DEF Word
  <2> QED BY <2>1, <2>2 DEF Vint, Index
<1>3. \A i \in Index : IF i <= m THEN x[i] = y[i] ELSE x[i] = e * (B - 1) /\ y[i] = 0
  <2>1. \A i \in Index : i \in Int
    BY <1>1 DEF Index
  <2> QED BY <1>1, <2>1
<1>4. Val(x) = Val(y) + e * (Weight(num_word) - Weight(m))
  BY <1>2, <1>3, Extended
<1>5. Weight(m) \in Nat /\ Weight(num_word) \in Nat /\ Val(y) \in Nat
  BY <1>1, Weights, ValFits
<1>6. n \in Int /\ Congruent(Val(x), n, Weight(num_word))
  <2> DEFINE a == Val(x)  b == Val(y)  w == Weight(num_word)  u == Weight(m)
  <2>1. a = b + e * (w - u) /\ b \in Int /\ w \in Int /\ u \in Int
    BY <1>4, <1>5
  <2>2. n = IF negative THEN b - u ELSE b
    OBVIOUS
  <2> HIDE DEF a, b, w, u, n
  <2>3. e \in Int /\ n \in Int /\ a = n + e * w
    <3>1. CASE negative
      BY <2>1, <2>2, <3>1
    <3>2. CASE ~negative
      BY <2>1, <2>2, <3>2
    <3> QED BY <3>1, <3>2
  <2>4. Congruent(a, n, w)
    BY <2>3, CongruentBy
  <2> QED BY <2>3, <2>4 DEF a, w
<1> HIDE DEF n
<1>7. Is(ClearUnusedBits(x), n % 2^num_bit)
  BY <1>2, <1>6, ClearGives
<1> QED BY <1>7 DEF n

(* The assignments. *)
LEMMA AssignIntIs ==
    ASSUME type \in Types, NEW rhs \in Word
    PROVE  Is(AssignInt(rhs), (IF is_signed /\ rhs >= B \div 2 THEN rhs - B ELSE rhs) % 2^num_bit)
<1> DEFINE negative == is_signed /\ rhs >= B \div 2
           x == [i \in Index |-> IF i <= 1 THEN Low(rhs)[i] ELSE IF negative THEN B - 1 ELSE 0]
<1>1. 1 \in 0 .. num_word /\ \A i \in Index : i \in Int /\ i >= 1
  BY Sizes DEF Index
<1>2. Low(rhs) \in Vint /\ Val(Low(rhs)) = rhs
  BY LowVal
<1>3. \A i \in Index : Low(rhs)[i] = IF i = 1 THEN rhs ELSE 0
  BY DEF Low
<1>4. \A i \in Index : i > 1 => Low(rhs)[i] = 0
  BY <1>1, <1>3
<1>5. negative \in BOOLEAN
  BY Sizes
<1>6. Is(ClearUnusedBits(x),
         (IF negative THEN Val(Low(rhs)) - Weight(1) ELSE Val(Low(rhs))) % 2^num_bit)
  <2> HIDE DEF negative
  <2> QED BY <1>1, <1>2, <1>4, <1>5, AssignWords
<1>7. AssignInt(rhs) = ClearUnusedBits(x)
  <2>1. x = [i \in Index |-> IF i = 1 THEN rhs ELSE IF negative THEN B - 1 ELSE 0]
    BY <1>1, <1>3
  <2> QED BY <2>1 DEF AssignInt
<1>8. Weight(1) = B
  BY Weights
<1> QED BY <1>2, <1>6, <1>7, <1>8

(* A vint assigned a vector of words is the number these have as the words   *)
(* of a signed, or of an unsigned, number, modulo 2^num_bit.                *)
LEMMA AssignVectorIs ==
    ASSUME type \in Types, NEW sz \in 0 .. num_word, NEW rhs \in [1 .. sz -> Word],
           NEW n, n = Val([i \in Index |-> IF i <= Len(rhs) THEN rhs[i] ELSE 0])
    PROVE  Is(AssignVector(rhs),
              (IF is_signed /\ rhs # << >> /\ rhs[Len(rhs)] >= B \div 2
               THEN n - Weight(Len(rhs)) ELSE n) % 2^num_bit)
<1> DEFINE y == [i \in Index |-> IF i <= Len(rhs) THEN rhs[i] ELSE 0]
           negative == is_signed /\ rhs # << >> /\ rhs[Len(rhs)] >= B \div 2
           x == [i \in Index |-> IF i <= Len(rhs) THEN y[i] ELSE IF negative THEN B - 1 ELSE 0]
<1>1. num_word \in Nat /\ B \in Nat \ {0} /\ \A i \in Index : i \in Int /\ i >= 1
  BY Sizes, Weights DEF Index
<1>2. Len(rhs) = sz /\ sz \in Nat
  BY <1>1
<1>3. \A i \in Index : y[i] = IF i <= sz THEN rhs[i] ELSE 0
  BY <1>2
<1>4. y \in Vint
  <2>1. \A i \in Index : i <= sz => rhs[i] \in Word
    BY <1>1, <1>2
  <2>2. 0 \in Word
    BY <1>1 DEF Word
  <2> QED BY <1>2, <2>1, <2>2 DEF Vint, Index
<1>5. \A i \in Index : i > sz => y[i] = 0
  BY <1>1, <1>2, <1>3
<1>6. negative \in BOOLEAN
  BY Sizes
<1>7. x = [i \in Index |-> IF i <= sz THEN y[i] ELSE IF negative THEN B - 1 ELSE 0]
  BY <1>2
<1>8. AssignVector(rhs) = ClearUnusedBits(x)
  <2>1. x = [i \in Index |-> IF i <= Len(rhs) THEN rhs[i] ELSE IF negative THEN B - 1 ELSE 0]
    OBVIOUS
  <2> QED BY <2>1 DEF AssignVector
<1>9. Val(y) = n
  OBVIOUS
<1>10. Is(ClearUnusedBits(x), (IF negative THEN Val(y) - Weight(sz) ELSE Val(y)) % 2^num_bit)
  <2> HIDE DEF negative, x, y
  <2> QED BY <1>4, <1>5, <1>6, <1>7, AssignWords
<1> QED BY <1>2, <1>8, <1>9, <1>10

(* The arithmetic. *)
LEMMA AddIs ==
    ASSUME type \in Types, NEW x \in Vint, NEW y \in Vint
    PROVE  Is(AddAssign(x, y), (Val(x) + Val(y)) % 2^num_bit)
<1>1. Plus(x, y, 0) \in Vint /\ Congruent(Val(Plus(x, y, 0)), Val(x) + Val(y) + 0, Weight(num_word))
  BY PlusIs
<1>2. Val(x) + Val(y) + 0 = Val(x) + Val(y) /\ Val(x) + Val(y) \in Int
  BY ValFits
<1> QED BY <1>1, <1>2, ClearGives DEF AddAssign

(* -= is the difference modulo 2^num_bit.                                   *)
LEMMA SubIs ==
    ASSUME type \in Types, NEW x \in Vint, NEW y \in Vint
    PROVE  Is(SubAssign(x, y), (Val(x) - Val(y)) % 2^num_bit)
<1>1. Minus(x, y) \in Vint /\ Congruent(Val(Minus(x, y)), Val(x) - Val(y), Weight(num_word))
  BY MinusIs
<1>2. Val(x) - Val(y) \in Int
  BY ValFits
<1> QED BY <1>1, <1>2, ClearGives DEF SubAssign

(* A single word. *)
LEMMA Single ==
    ASSUME type \in Types, ~is_multi_word
    PROVE  /\ \A w : <<w>> = Low(w)
           /\ \A x \in Vint : x[1] \in Word /\ Val(x) = x[1]
           /\ Weight(num_word) = B
<1>1. num_word = 1
  BY Sizes DEF is_multi_word
<1>2. Index = {1}
  BY <1>1 DEF Index
<1>3. ASSUME NEW w PROVE <<w>> = Low(w)
  <2>1. Low(w) = [i \in {1} |-> w]
    BY <1>2 DEF Low
  <2>2. <<w>> = [i \in {1} |-> w]
    OBVIOUS
  <2> QED BY <2>1, <2>2
<1>4. ASSUME NEW x \in Vint PROVE x[1] \in Word /\ Val(x) = x[1]
  <2>1. x \in [{1} -> Word]
    BY <1>2 DEF Vint, Index
  <2>2. x = Low(x[1])
    BY <1>2, <2>1 DEF Low
  <2> QED BY <2>1, <2>2, LowVal
<1> QED BY <1>1, <1>3, <1>4, Weights

(* *= is the product modulo 2^num_bit.                                      *)
LEMMA MulIs ==
    ASSUME type \in Types, NEW x \in Vint, NEW y \in Vint
    PROVE  Is(MulAssign(x, y), (Val(x) * Val(y)) % 2^num_bit)
<1> DEFINE p == Val(x) * Val(y)  w == Weight(num_word)
<1>1. p \in Nat /\ w \in Nat \ {0} /\ p % w \in Nat
  <2>1. Val(x) \in Nat /\ Val(y) \in Nat /\ w \in Nat \ {0}
    BY ValFits
  <2>2. p \in Nat
    BY <2>1
  <2> HIDE DEF p, w
  <2> QED BY <2>1, <2>2
<1>2. Congruent(p % w, p, w) /\ (p % w) % w = p % w
  <2> HIDE DEF p, w
  <2>1. Congruent(p % w, p, w)
    BY <1>1, CongruentMods
  <2> DEFINE r == p % w
  <2>2. r \in 0 .. w - 1
    BY <1>1
  <2> HIDE DEF r
  <2>3. r % w = r
    BY <1>1, <2>2
  <2> QED BY <2>1, <2>3 DEF r
<1>3. CASE is_multi_word
  <2>1. Words(p % w) \in Vint /\ Val(Words(p % w)) = p % w
    BY <1>1, <1>2, ValWords
  <2>2. MulAssign(x, y) = ClearUnusedBits(Words(p % w))
    BY <1>3 DEF MulAssign
  <2> HIDE DEF p, w
  <2>3. Is(MulAssign(x, y), p % 2^num_bit)
    BY <1>1, <1>2, <2>1, <2>2, ClearGives DEF w
  <2> QED BY <2>3 DEF p
<1>4. CASE ~is_multi_word
  <2>1. w = B /\ Val(x) = x[1] /\ Val(y) = y[1]
    BY <1>4, Single
  <2>2. MulAssign(x, y) = ClearUnusedBits(Low(p % w))
    BY <1>4, <2>1, Single DEF MulAssign
  <2>3. p % w \in Word
    <3> HIDE DEF p, w
    <3> QED BY <1>1, <2>1 DEF Word
  <2>4. Low(p % w) \in Vint /\ Val(Low(p % w)) = p % w
    BY <2>3, LowVal
  <2> HIDE DEF p, w
  <2>5. Is(MulAssign(x, y), p % 2^num_bit)
    BY <1>1, <1>2, <2>2, <2>4, ClearGives DEF w
  <2> QED BY <2>5 DEF p
<1> QED BY <1>3, <1>4

(* ~ is the complement of num_bit bits.                                     *)
LEMMA FlipIs ==
    ASSUME type \in Types, NEW x \in Vint, Val(x) < 2^num_bit
    PROVE  Is(Flip(x), 2^num_bit - 1 - Val(x))
<1> DEFINE y == [i \in Index |-> B - 1 - x[i]]
           n == Val(x)  M == 2^num_bit  w == Weight(num_word)
<1>1. y \in Vint /\ Val(y) = w - 1 - n
  BY Complement
<1>2. n \in 0 .. M - 1 /\ M \in Nat \ {0} /\ Multiple(w, M) /\ w \in Nat
  BY Weights, ValFits
<1>3. PICK t \in Nat : w = M * t
  BY <1>2 DEF Multiple
<1>4. Is(ClearUnusedBits(y), (w - 1 - n) % M)
  <2> DEFINE z == w - 1 - n
  <2>1. z \in Int /\ z = z + 0 * w /\ 0 \in Int
    BY <1>2
  <2> HIDE DEF z
  <2>2. Congruent(z, z, w)
    BY <2>1, CongruentBy
  <2> QED BY <1>1, <2>1, <2>2, ClearGives DEF z
<1>5. (w - 1 - n) % M = M - 1 - n
  <2> DEFINE z == M - 1 - n
  <2> HIDE DEF n, M, w
  <2>1. w - 1 - n = (t - 1) * M + z /\ z \in 0 .. M - 1 /\ t - 1 \in Int /\ w - 1 - n \in Int
    BY <1>2, <1>3
  <2> HIDE DEF z
  <2>2. (w - 1 - n) % M = z
    BY <1>2, <2>1, DivUnique
  <2> QED BY <2>2 DEF z
<1> QED BY <1>4, <1>5 DEF Flip

(* Unary minus is the opposite modulo 2^num_bit.                            *)
LEMMA NegateIs ==
    ASSUME type \in Types, NEW x \in Vint
    PROVE  Is(Negate(x), (-Val(x)) % 2^num_bit)
<1> DEFINE n == Val(x)  w == Weight(num_word)
<1>1. n \in Nat /\ w \in Nat \ {0} /\ -n \in Int
  BY ValFits
<1>2. CASE is_multi_word
  <2> DEFINE y == [i \in Index |-> B - 1 - x[i]]  z == Plus(y, Low(0), 1)  b == Val(y)
  <2>1. y \in Vint /\ b = w - 1 - n
    BY Complement
  <2>2. Low(0) \in Vint /\ Val(Low(0)) = 0
    <3>1. 0 \in Word
      BY Weights DEF Word
    <3> QED BY <3>1, LowVal
  <2>3. z \in Vint /\ Congruent(Val(z), b + 0 + 1, w)
    <3>1. 1 \in {0, 1}
      OBVIOUS
    <3> HIDE DEF y
    <3> QED BY <2>1, <2>2, <3>1, PlusIs
  <2>4. Negate(x) = ClearUnusedBits(z)
    BY <1>2 DEF Negate
  <2>5. Congruent(Val(z), -n, w)
    <3> DEFINE a == Val(z)
    <3> HIDE DEF a, n, w, z, b
    <3>1. b + 0 + 1 = w - n
      BY <1>1, <2>1
    <3>2. PICK k \in Int : a = (w - n) + k * w
      BY <2>3, <3>1 DEF Congruent, a
    <3>3. a = -n + (k + 1) * w /\ k + 1 \in Int
      BY <1>1, <3>2
    <3> QED BY <3>3, CongruentBy DEF a
  <2> HIDE DEF z, n, w
  <2>6. Is(Negate(x), (-n) % 2^num_bit)
    BY <1>1, <2>3, <2>4, <2>5, ClearGives DEF w
  <2> QED BY <2>6 DEF n
<1>3. CASE ~is_multi_word
  <2>1. w = B /\ n = x[1]
    BY <1>3, Single
  <2>2. Negate(x) = ClearUnusedBits(Low((-n) % w))
    BY <1>3, <2>1, Single DEF Negate
  <2> HIDE DEF n, w
  <2>3. (-n) % w \in Word
    BY <1>1, <2>1 DEF Word
  <2>4. Low((-n) % w) \in Vint /\ Val(Low((-n) % w)) = (-n) % w
    BY <2>3, LowVal
  <2>5. Congruent((-n) % w, -n, w)
    BY <1>1, CongruentMods
  <2>6. Is(Negate(x), (-n) % 2^num_bit)
    BY <1>1, <2>2, <2>4, <2>5, ClearGives DEF w
  <2> QED BY <2>6 DEF n
<1> QED BY <1>2, <1>3

-----------------------------------------------------------------------------
(* The bitwise operations. *)

(* Combined bits, of which the lowest remain. *)
LEMMA CombineMod ==
    ASSUME NEW m \in Nat, NEW n \in 0 .. m, NEW table \in Tables, NEW x \in Nat, NEW y \in Nat,
           NEW z, Combines(z, m, table, x, y)
    PROVE  z % 2^n = Bitwise(n, table, x, y)
<1> DEFINE c == Bitwise(n, table, x, y)  d == z % 2^n
<1>1. z \in Nat /\ n \in Nat
  <2>1. 2^m \in Nat
    BY TwoPositive
  <2> QED BY <2>1 DEF Combines
<1>2. Combines(c, n, table, x, y)
  BY <1>1, BitwiseIs
<1>3. d \in 0 .. 2^n - 1 /\ \A i \in 0 .. n - 1 : BitOf(d, i) = BitOf(z, i)
  BY <1>1, SplitBits
<1> HIDE DEF c, d
<1>4. c \in 0 .. 2^n - 1 /\ \A i \in 0 .. n - 1 : BitOf(c, i) = table[BitOf(x, i)][BitOf(y, i)]
  BY <1>2 DEF Combines
<1>5. \A i \in 0 .. n - 1 : BitOf(d, i) = BitOf(c, i)
  <2>1. \A i \in 0 .. n - 1 : i \in 0 .. m - 1
    OBVIOUS
  <2>2. \A i \in 0 .. m - 1 : BitOf(z, i) = table[BitOf(x, i)][BitOf(y, i)]
    BY DEF Combines
  <2> QED BY <1>3, <1>4, <2>1, <2>2
<1>6. d = c
  BY <1>1, <1>3, <1>4, <1>5, SameBits
<1> QED BY <1>6 DEF c, d

(* Of two numbers that fit, where two zeros make a zero. *)
LEMMA CombineFit ==
    ASSUME NEW m \in Nat, NEW n \in 0 .. m, NEW table \in Tables, table[0][0] = 0,
           NEW x \in 0 .. 2^n - 1, NEW y \in 0 .. 2^n - 1,
           NEW z, Combines(z, m, table, x, y)
    PROVE  z = Bitwise(n, table, x, y)
<1> DEFINE d == z % 2^n
<1>1. z \in 0 .. 2^m - 1 /\ z \in Nat /\ n \in Nat /\ x \in Nat /\ y \in Nat
  <2>1. 2^m \in Nat /\ 2^n \in Nat
    BY TwoPositive
  <2> QED BY <2>1 DEF Combines
<1>2. d = Bitwise(n, table, x, y)
  BY <1>1, CombineMod
<1>3. d \in 0 .. 2^n - 1 /\ \A i \in 0 .. n - 1 : BitOf(d, i) = BitOf(z, i)
  BY <1>1, SplitBits
<1>4. d \in 0 .. 2^m - 1
  <2> DEFINE p == 2^n  q == 2^m
  <2>1. p \in Nat \ {0} /\ q \in Nat /\ z \in Nat /\ z \in 0 .. q - 1 /\ d = z % p
    BY <1>1, TwoPositive
  <2> HIDE DEF p, q, d
  <2>2. d \in 0 .. p - 1 /\ d <= z
    BY <2>1
  <2> QED BY <2>1, <2>2 DEF q
<1> HIDE DEF d
<1>5. ASSUME NEW i \in 0 .. m - 1 PROVE BitOf(d, i) = BitOf(z, i)
  <2>1. CASE i < n
    <3>1. i \in 0 .. n - 1
      BY <1>1, <2>1
    <3> QED BY <1>3, <3>1
  <2>2. CASE ~(i < n)
    <3>1. i \in Nat /\ i >= n
      BY <1>1, <2>2
    <3>2. BitOf(d, i) = 0 /\ BitOf(x, i) = 0 /\ BitOf(y, i) = 0
      BY <1>1, <1>3, <3>1, BitsBeyond
    <3>3. BitOf(z, i) = table[BitOf(x, i)][BitOf(y, i)]
      BY DEF Combines
    <3> QED BY <3>2, <3>3
  <2> QED BY <2>1, <2>2
<1>6. d = z
  BY <1>1, <1>4, <1>5, SameBits
<1> QED BY <1>2, <1>6

(* Words combined are numbers combined. *)
LEMMA WordwiseIs ==
    ASSUME type \in Types, NEW table \in Tables, NEW x \in Vint, NEW y \in Vint,
           NEW z, z = [i \in Index |-> Bitwise(bit_per_word, table, x[i], y[i])]
    PROVE  z \in Vint /\ Combines(Val(z), bit_per_word * num_word, table, Val(x), Val(y))
<1> DEFINE W == bit_per_word  K == num_word
<1>1. W \in Nat \ {0} /\ K \in Nat \ {0} /\ B \in Nat \ {0} /\ B = 2^W
  BY Sizes, Weights
<1>2. ASSUME NEW i \in Index PROVE Combines(z[i], W, table, x[i], y[i])
  <2>1. x[i] \in Nat /\ y[i] \in Nat
    <3>1. x[i] \in Word /\ y[i] \in Word
      BY DEF Vint, Index
    <3> QED BY <1>1, <3>1 DEF Word
  <2>2. z[i] = Bitwise(W, table, x[i], y[i])
    OBVIOUS
  <2>3. Combines(Bitwise(W, table, x[i], y[i]), W, table, x[i], y[i])
    BY <1>1, <2>1, BitwiseIs
  <2> QED BY <2>2, <2>3
<1>3. z \in Vint
  <2>1. \A i \in Index : z[i] \in Word
    BY <1>1, <1>2 DEF Combines, Word
  <2> QED BY <2>1 DEF Vint, Index
<1>4. Val(z) \in 0 .. 2^(W * K) - 1
  BY <1>3, ValBits
<1>5. ASSUME NEW p \in 0 .. W * K - 1
      PROVE  BitOf(Val(z), p) = table[BitOf(Val(x), p)][BitOf(Val(y), p)]
  <2> DEFINE k == p \div W  j == p % W
  <2>1. k \in 0 .. K - 1 /\ j \in 0 .. W - 1 /\ p = W * k + j
    BY Places
  <2> HIDE DEF k, j
  <2>2. k + 1 \in Index
    BY <1>1, <2>1 DEF Index
  <2>3. BitOf(z[k + 1], j) = table[BitOf(x[k + 1], j)][BitOf(y[k + 1], j)]
    BY <1>2, <2>1, <2>2 DEF Combines
  <2>4. BitOf(Val(z), W * k + j) = BitOf(z[k + 1], j)
    BY <1>3, <2>1, ValBits
  <2>5. BitOf(Val(x), W * k + j) = BitOf(x[k + 1], j) /\ BitOf(Val(y), W * k + j) = BitOf(y[k + 1], j)
    BY <2>1, ValBits
  <2> QED BY <2>1, <2>3, <2>4, <2>5
<1> QED BY <1>3, <1>4, <1>5 DEF Combines

(* Of two vints whose unused bits are clear. *)
LEMMA BitwiseAssign ==
    ASSUME type \in Types, NEW table \in Tables, table[0][0] = 0,
           NEW x \in Vint, NEW y \in Vint, Val(x) < 2^num_bit, Val(y) < 2^num_bit,
           NEW z, z = [i \in Index |-> Bitwise(bit_per_word, table, x[i], y[i])]
    PROVE  Is(z, Bitwise(num_bit, table, Val(x), Val(y)))
<1> DEFINE m == bit_per_word * num_word
<1>1. m \in Nat /\ num_bit \in 0 .. m
  BY Sizes, Places
<1>2. Val(x) \in 0 .. 2^num_bit - 1 /\ Val(y) \in 0 .. 2^num_bit - 1
  <2> DEFINE M == 2^num_bit
  <2>1. M \in Nat /\ Val(x) \in Nat /\ Val(y) \in Nat /\ Val(x) < M /\ Val(y) < M
    BY ValFits, Weights
  <2> HIDE DEF M
  <2>2. Val(x) \in 0 .. M - 1 /\ Val(y) \in 0 .. M - 1
    BY <2>1
  <2> QED BY <2>2 DEF M
<1>3. z \in Vint /\ Combines(Val(z), m, table, Val(x), Val(y))
  BY WordwiseIs
<1> HIDE DEF m
<1>4. Val(z) = Bitwise(num_bit, table, Val(x), Val(y))
  BY <1>1, <1>2, <1>3, CombineFit
<1> QED BY <1>3, <1>4 DEF Is

(* Of one and any other, the unused bits cleared. *)
LEMMA BitwiseClear ==
    ASSUME type \in Types, NEW table \in Tables, NEW x \in Vint, NEW y \in Vint,
           NEW z, z = [i \in Index |-> Bitwise(bit_per_word, table, x[i], y[i])]
    PROVE  Is(ClearUnusedBits(z), Bitwise(num_bit, table, Val(x), Val(y)))
<1> DEFINE m == bit_per_word * num_word
<1>1. m \in Nat /\ num_bit \in 0 .. m
  BY Sizes, Places
<1>2. Val(x) \in Nat /\ Val(y) \in Nat
  BY ValFits
<1>3. z \in Vint /\ Combines(Val(z), m, table, Val(x), Val(y))
  BY WordwiseIs
<1> HIDE DEF m
<1>4. Val(z) % 2^num_bit = Bitwise(num_bit, table, Val(x), Val(y))
  BY <1>1, <1>2, <1>3, CombineMod
<1> QED BY <1>3, <1>4, ClearIs DEF Is

(* &=, |= and ^= word by word are those of the whole numbers.               *)
LEMMA BitwiseIsWhole ==
    ASSUME type \in Types, NEW x \in Vint, NEW y \in Vint, Val(x) < 2^num_bit, Val(y) < 2^num_bit
    PROVE  /\ Is(AndAssign(x, y), Bitwise(num_bit, And, Val(x), Val(y)))
           /\ Is(OrAssign(x, y), Bitwise(num_bit, Or, Val(x), Val(y)))
           /\ Is(XorAssign(x, y), Bitwise(num_bit, Xor, Val(x), Val(y)))
<1>1. And[0][0] = 0 /\ Or[0][0] = 0 /\ Xor[0][0] = 0
  BY TablesAre
<1>2. And \in Tables /\ Or \in Tables /\ Xor \in Tables
  BY TablesAre
<1>3. Is(AndAssign(x, y), Bitwise(num_bit, And, Val(x), Val(y)))
  <2>1. AndAssign(x, y) = [i \in Index |-> Bitwise(bit_per_word, And, x[i], y[i])]
    BY DEF AndAssign, &
  <2> QED BY <1>1, <1>2, <2>1, BitwiseAssign
<1>4. Is(OrAssign(x, y), Bitwise(num_bit, Or, Val(x), Val(y)))
  <2>1. OrAssign(x, y) = [i \in Index |-> Bitwise(bit_per_word, Or, x[i], y[i])]
    BY DEF OrAssign, |
  <2> QED BY <1>1, <1>2, <2>1, BitwiseAssign
<1>5. Is(XorAssign(x, y), Bitwise(num_bit, Xor, Val(x), Val(y)))
  <2>1. XorAssign(x, y) = [i \in Index |-> Bitwise(bit_per_word, Xor, x[i], y[i])]
    BY DEF XorAssign, ^^
  <2> QED BY <1>1, <1>2, <2>1, BitwiseAssign
<1> QED BY <1>3, <1>4, <1>5

(* Words combined with no bits, or with all. *)
LEMMA WithConstant ==
    ASSUME type \in Types, NEW w \in Word
    PROVE  /\ Bitwise(bit_per_word, And, w, B - 1) = w
           /\ Bitwise(bit_per_word, Or, w, 0) = w
           /\ Bitwise(bit_per_word, Or, w, B - 1) = B - 1
           /\ Bitwise(bit_per_word, Xor, w, 0) = w
<1> DEFINE W == bit_per_word  o == B - 1
<1>1. W \in Nat /\ B \in Nat \ {0} /\ B = 2^W
  BY Sizes, Weights
<1>2. w \in Nat /\ w \in 0 .. 2^W - 1 /\ o \in Nat /\ o \in 0 .. 2^W - 1 /\ 0 \in 0 .. 2^W - 1
  BY <1>1 DEF Word
<1>3. \A i \in 0 .. W - 1 : BitOf(w, i) \in {0, 1} /\ BitOf(o, i) = 1 /\ BitOf(0, i) = 0
  <2> TAKE i \in 0 .. W - 1
  <2>1. i \in Nat /\ i < W
    BY <1>1
  <2>2. BitOf(w, i) \in {0, 1} /\ BitOf(o, i) = 1
    BY <1>1, <1>2, <2>1, BitRange, OnesAre
  <2>3. BitOf(0, i) = 0
    <3>1. 2^0 = 1 /\ 0 \in Nat
      OBVIOUS
    <3>2. 0 \in 0 .. 2^0 - 1 /\ i >= 0
      BY <2>1, <3>1
    <3> QED BY <2>1, <3>1, <3>2, BitsBeyond
  <2> QED BY <2>2, <2>3
<1> HIDE DEF o
<1>4. ASSUME NEW table \in Tables, NEW y \in Nat, NEW z \in 0 .. 2^W - 1,
             \A i \in 0 .. W - 1 : BitOf(z, i) = table[BitOf(w, i)][BitOf(y, i)]
      PROVE  Bitwise(W, table, w, y) = z
  <2> DEFINE c == Bitwise(W, table, w, y)
  <2>1. Combines(c, W, table, w, y)
    BY <1>1, <1>2, BitwiseIs
  <2> HIDE DEF c
  <2>2. c \in 0 .. 2^W - 1 /\ \A i \in 0 .. W - 1 : BitOf(c, i) = BitOf(z, i)
    BY <1>4, <2>1 DEF Combines
  <2>3. c = z
    BY <1>1, <2>2, SameBits
  <2> QED BY <2>3 DEF c
<1>5. And \in Tables /\ Or \in Tables /\ Xor \in Tables
  BY TablesAre
<1>6. \A i \in 0 .. W - 1 : /\ BitOf(w, i) = And[BitOf(w, i)][BitOf(o, i)]
                            /\ BitOf(w, i) = Or[BitOf(w, i)][BitOf(0, i)]
                            /\ BitOf(o, i) = Or[BitOf(w, i)][BitOf(o, i)]
                            /\ BitOf(w, i) = Xor[BitOf(w, i)][BitOf(0, i)]
  BY <1>3, TablesAre
<1>7. Bitwise(W, And, w, o) = w /\ Bitwise(W, Or, w, 0) = w
  BY <1>2, <1>4, <1>5, <1>6
<1>8. Bitwise(W, Or, w, o) = o /\ Bitwise(W, Xor, w, 0) = w
  BY <1>2, <1>4, <1>5, <1>6
<1> QED BY <1>7, <1>8 DEF o

(* With a machine word. *)
LEMMA BitwiseIsLow ==
    ASSUME type \in Types, NEW x \in Vint, NEW rhs \in Word
    PROVE  /\ Is(AndWord(x, rhs), Bitwise(num_bit, And, Val(x), rhs + (Weight(num_word) - B)))
           /\ Is(OrWord(x, rhs), Bitwise(num_bit, Or, Val(x), rhs))
           /\ Is(XorWord(x, rhs), Bitwise(num_bit, Xor, Val(x), rhs))
<1> DEFINE l == Low(rhs)
<1>1. /\ num_word \in Nat \ {0} /\ B \in Nat \ {0} /\ 1 \in Index
      /\ \A i \in Index : i \in Int /\ i >= 1 /\ x[i] \in Word
  <2>1. num_word \in Nat \ {0} /\ B \in Nat \ {0}
    BY Sizes, Weights
  <2> QED BY <2>1 DEF Index, Vint
<1>2. And \in Tables /\ Or \in Tables /\ Xor \in Tables
  BY TablesAre
<1>3. l \in Vint /\ Val(l) = rhs /\ \A i \in Index : l[i] = IF i = 1 THEN rhs ELSE 0
  <2>1. \A i \in Index : l[i] = IF i = 1 THEN rhs ELSE 0
    BY DEF Low
  <2> QED BY <2>1, LowVal
<1>4. x = [i \in Index |-> x[i]]
  BY DEF Vint, Index
<1> HIDE DEF l
<1>5. ASSUME NEW table \in Tables, NEW y \in Vint, y[1] = rhs,
             \A i \in Index : i # 1 => Bitwise(bit_per_word, table, x[i], y[i]) = x[i]
      PROVE  [x EXCEPT ![1] = Bitwise(bit_per_word, table, @, rhs)]
               = [i \in Index |-> Bitwise(bit_per_word, table, x[i], y[i])]
  BY <1>1, <1>4, <1>5
<1>6. Is(AndWord(x, rhs), Bitwise(num_bit, And, Val(x), rhs + (Weight(num_word) - B)))
  <2> DEFINE y == [i \in Index |-> IF i = 1 THEN rhs ELSE B - 1]
  <2>1. y \in Vint /\ y[1] = rhs /\ \A i \in Index : i # 1 => y[i] = B - 1
    BY <1>1 DEF Vint, Index, Word
  <2>2. Val(y) = Val(l) + 1 * (Weight(num_word) - Weight(1))
    <3>1. 1 \in 0 .. num_word /\ 1 \in {0, 1}
      BY <1>1
    <3>2. \A i \in Index : IF i <= 1 THEN y[i] = l[i] ELSE y[i] = 1 * (B - 1) /\ l[i] = 0
      BY <1>1, <1>3
    <3> HIDE DEF y
    <3> QED BY <1>3, <2>1, <3>1, <3>2, Extended
  <2>3. Weight(1) = B /\ Weight(num_word) \in Nat
    BY <1>1, Weights
  <2> HIDE DEF y
  <2>4. Val(y) = rhs + (Weight(num_word) - B)
    BY <1>1, <1>3, <2>2, <2>3
  <2>5. \A i \in Index : i # 1 => Bitwise(bit_per_word, And, x[i], y[i]) = x[i]
    BY <1>1, <2>1, WithConstant
  <2>6. AndWord(x, rhs) = ClearUnusedBits([i \in Index |-> Bitwise(bit_per_word, And, x[i], y[i])])
    BY <1>2, <1>5, <2>1, <2>5 DEF AndWord, &
  <2> QED BY <1>2, <2>1, <2>4, <2>6, BitwiseClear
<1>7. Is(OrWord(x, rhs), Bitwise(num_bit, Or, Val(x), rhs))
  <2>1. l[1] = rhs /\ \A i \in Index : i # 1 => Bitwise(bit_per_word, Or, x[i], l[i]) = x[i]
    BY <1>1, <1>3, WithConstant
  <2>2. OrWord(x, rhs) = ClearUnusedBits([i \in Index |-> Bitwise(bit_per_word, Or, x[i], l[i])])
    BY <1>2, <1>3, <1>5, <2>1 DEF OrWord, |
  <2> QED BY <1>2, <1>3, <2>2, BitwiseClear
<1>8. Is(XorWord(x, rhs), Bitwise(num_bit, Xor, Val(x), rhs))
  <2>1. l[1] = rhs /\ \A i \in Index : i # 1 => Bitwise(bit_per_word, Xor, x[i], l[i]) = x[i]
    BY <1>1, <1>3, WithConstant
  <2>2. XorWord(x, rhs) = ClearUnusedBits([i \in Index |-> Bitwise(bit_per_word, Xor, x[i], l[i])])
    BY <1>2, <1>3, <1>5, <2>1 DEF XorWord, ^^
  <2> QED BY <1>2, <1>3, <2>2, BitwiseClear
<1> QED BY <1>6, <1>7, <1>8

(* A bit cleared, and set, by masks. *)
LEMMA MaskBit ==
    ASSUME type \in Types, NEW w \in Word, NEW sh \in 0 .. bit_per_word - 1,
           NEW c, c = w + (0 - BitOf(w, sh)) * 2^sh,
           NEW d, d = w + (1 - BitOf(w, sh)) * 2^sh
    PROVE  c \in Word /\ d \in Word /\ (w & (B - 1 - 2^sh)) = c /\ (c | 2^sh) = d
<1> DEFINE W == bit_per_word  o == B - 1 - 2^sh  b == 2^sh
<1>1. W \in Nat /\ sh \in Nat /\ sh < W /\ B \in Nat \ {0} /\ B = 2^W
  BY Sizes, Weights
<1>2. w \in Nat /\ w < 2^W /\ B - 1 \in Nat /\ B - 1 < 2^W
  BY <1>1 DEF Word
<1>3. /\ c \in Nat /\ c < 2^W
      /\ \A i \in Nat : BitOf(c, i) = IF i = sh THEN 0 ELSE BitOf(w, i)
  <2>1. 0 \in {0, 1}
    OBVIOUS
  <2>2. c \in Nat /\ \A i \in Nat : BitOf(c, i) = IF i = sh THEN 0 ELSE BitOf(w, i)
    BY <1>1, <1>2, <2>1, BitPutIn, SMTT(60)
  <2>3. \A n \in Nat : sh < n /\ w < 2^n => c < 2^n
    BY <1>1, <1>2, <2>1, BitPutIn
  <2> QED BY <1>1, <1>2, <2>2, <2>3
<1>4. /\ d \in Nat /\ d < 2^W
      /\ \A i \in Nat : BitOf(d, i) = IF i = sh THEN 1 ELSE BitOf(w, i)
  <2>1. 1 \in {0, 1}
    OBVIOUS
  <2>2. d \in Nat /\ \A i \in Nat : BitOf(d, i) = IF i = sh THEN 1 ELSE BitOf(w, i)
    BY <1>1, <1>2, <2>1, BitPutIn, SMTT(60)
  <2>3. \A n \in Nat : sh < n /\ w < 2^n => d < 2^n
    BY <1>1, <1>2, <2>1, BitPutIn
  <2> QED BY <1>1, <1>2, <2>2, <2>3
<1>5. o \in Nat /\ \A i \in Nat : BitOf(o, i) = IF i = sh THEN 0 ELSE BitOf(B - 1, i)
  <2> DEFINE a == B - 1
  <2>1. BitOf(a, sh) = 1
    BY <1>1, OnesAre
  <2>2. o = a + (0 - BitOf(a, sh)) * b
    <3>1. b \in Int
      BY <1>1, TwoPositive
    <3> HIDE DEF b
    <3>2. o = B - 1 - b
      BY DEF b
    <3> HIDE DEF o
    <3> QED BY <1>1, <2>1, <3>1, <3>2
  <2>3. 0 \in {0, 1} /\ a \in Nat
    BY <1>2
  <2> HIDE DEF o, a
  <2>4. o \in Nat /\ \A i \in Nat : BitOf(o, i) = IF i = sh THEN 0 ELSE BitOf(a, i)
    BY <1>1, <2>2, <2>3, BitPutIn, SMTT(60) DEF b
  <2> QED BY <2>4 DEF a
<1>6. b \in Nat /\ \A i \in Nat : BitOf(b, i) = IF i = sh THEN 1 ELSE 0
  <2>1. \A i \in Nat : BitOf(0, i) = 0
    <3> TAKE i \in Nat
    <3>1. 2^0 = 1
      OBVIOUS
    <3>2. 0 \in 0 .. 2^0 - 1 /\ 0 \in Nat /\ i >= 0
      BY <3>1
    <3> QED BY <3>2, BitsBeyond
  <2>2. b \in Nat
    BY <1>1, TwoPositive
  <2>3. b = 0 + (1 - BitOf(0, sh)) * 2^sh
    <3>1. BitOf(0, sh) = 0
      BY <1>1, <2>1
    <3>2. b = 0 + (1 - 0) * b
      <4> HIDE DEF b
      <4> QED BY <2>2
    <3> QED BY <3>1, <3>2
  <2>4. 0 \in Nat /\ 1 \in {0, 1}
    OBVIOUS
  <2> HIDE DEF b
  <2>5. \A i \in Nat : BitOf(b, i) = IF i = sh THEN 1 ELSE BitOf(0, i)
    BY <1>1, <2>3, <2>4, BitPutIn
  <2> QED BY <2>1, <2>2, <2>5
<1> HIDE DEF o, b
<1>7. \A i \in Nat : i < W => BitOf(o, i) = IF i = sh THEN 0 ELSE 1
  BY <1>1, <1>5, OnesAre
<1>8. ASSUME NEW table \in Tables, NEW x \in Nat, NEW y \in Nat, NEW z \in 0 .. 2^W - 1,
             \A i \in 0 .. W - 1 : BitOf(z, i) = table[BitOf(x, i)][BitOf(y, i)]
      PROVE  Bitwise(W, table, x, y) = z
  <2> DEFINE e == Bitwise(W, table, x, y)
  <2>1. Combines(e, W, table, x, y)
    BY <1>1, BitwiseIs
  <2> HIDE DEF e
  <2>2. e \in 0 .. 2^W - 1 /\ \A i \in 0 .. W - 1 : BitOf(e, i) = BitOf(z, i)
    BY <1>8, <2>1 DEF Combines
  <2>3. e = z
    BY <1>1, <2>2, SameBits
  <2> QED BY <2>3 DEF e
<1>9. And \in Tables /\ Or \in Tables /\ c \in 0 .. 2^W - 1 /\ d \in 0 .. 2^W - 1
  BY <1>1, <1>3, <1>4, TablesAre
<1>10. \A i \in Nat : BitOf(w, i) \in {0, 1}
  BY <1>2, BitRange
<1>11. \A i \in 0 .. W - 1 : BitOf(c, i) = And[BitOf(w, i)][BitOf(o, i)]
  <2> TAKE i \in 0 .. W - 1
  <2>1. i \in Nat /\ i < W
    BY <1>1
  <2>2. BitOf(o, i) = IF i = sh THEN 0 ELSE 1
    BY <1>7, <2>1
  <2>3. BitOf(c, i) = IF i = sh THEN 0 ELSE BitOf(w, i)
    BY <1>3, <2>1
  <2>4. BitOf(w, i) \in {0, 1}
    BY <1>10, <2>1
  <2> QED BY <2>2, <2>3, <2>4, TablesAre
<1>12. \A i \in 0 .. W - 1 : BitOf(d, i) = Or[BitOf(c, i)][BitOf(b, i)]
  <2> TAKE i \in 0 .. W - 1
  <2>1. i \in Nat
    BY <1>1
  <2>2. BitOf(b, i) = IF i = sh THEN 1 ELSE 0
    BY <1>6, <2>1
  <2>3. BitOf(c, i) = IF i = sh THEN 0 ELSE BitOf(w, i)
    BY <1>3, <2>1
  <2>4. BitOf(d, i) = IF i = sh THEN 1 ELSE BitOf(w, i)
    BY <1>4, <2>1
  <2>5. BitOf(w, i) \in {0, 1}
    BY <1>10, <2>1
  <2> QED BY <2>2, <2>3, <2>4, <2>5, TablesAre
<1>13. Bitwise(W, And, w, o) = c
  BY <1>2, <1>5, <1>8, <1>9, <1>11
<1>14. Bitwise(W, Or, c, b) = d
  BY <1>3, <1>6, <1>8, <1>9, <1>12
<1>15. c \in Word /\ d \in Word
  BY <1>1, <1>9 DEF Word
<1> QED BY <1>13, <1>14, <1>15 DEF &, |, o, b

(* One bit of the number. *)
LEMMA SetBitIs ==
    ASSUME type \in Types, NEW x \in Vint, Val(x) < 2^num_bit, NEW pos \in Positions,
           NEW value \in BOOLEAN
    PROVE  /\ Is(SetBit(x, pos, value),
                 Val(x) + ((IF value THEN 1 ELSE 0) - BitOf(Val(x), pos)) * 2^pos)
           /\ Val(SetBit(x, pos, value)) < 2^num_bit
<1> DEFINE W == bit_per_word  K == num_word  l == lsb_word(pos)  sh == shamt(pos)  k == pos \div W
           w == x[l]  b == IF value THEN 1 ELSE 0  q == BitOf(w, sh)
           d == w + (b - q) * 2^sh  y == SetBit(x, pos, value)
<1>1. W \in Nat \ {0} /\ K \in Nat \ {0} /\ num_bit \in Nat \ {0} /\ num_bit <= W * K
  BY Sizes, Places
<1>2. pos \in Nat /\ pos < num_bit /\ pos \in 0 .. W * K - 1
  BY <1>1 DEF Positions
<1>3. k \in 0 .. K - 1 /\ sh \in 0 .. W - 1 /\ pos = W * k + sh /\ l = k + 1
  BY <1>2, Places DEF lsb_word, shamt
<1> HIDE DEF k
<1>4. l \in Index /\ l - 1 = k /\ k \in Nat /\ sh \in Nat
  BY <1>1, <1>3 DEF Index
<1>5. w \in Word
  BY <1>4 DEF Vint, Index
<1> HIDE DEF sh
<1>6. /\ w + (0 - q) * 2^sh \in Word /\ w + (1 - q) * 2^sh \in Word
      /\ (w & (B - 1 - 2^sh)) = w + (0 - q) * 2^sh
      /\ ((w + (0 - q) * 2^sh) | 2^sh) = w + (1 - q) * 2^sh
  BY <1>3, <1>5, MaskBit
<1>7. y = [x EXCEPT ![l] = d] /\ d \in Word
  <2>1. y = [x EXCEPT ![l] = IF value THEN (w & (B - 1 - 2^sh)) | 2^sh ELSE (w & (B - 1 - 2^sh))]
    BY DEF SetBit, sh
  <2>2. CASE value
    <3>1. b = 1
      BY <2>2
    <3> QED BY <1>6, <2>1, <2>2, <3>1
  <2>3. CASE ~value
    <3>1. b = 0
      BY <2>3
    <3> QED BY <1>6, <2>1, <2>3, <3>1
  <2> QED BY <2>2, <2>3
<1> HIDE DEF y, d
<1>8. y \in Vint /\ Val(y) = Val(x) + (d - w) * Weight(k)
  BY <1>4, <1>5, <1>7, ValExcept
<1>9. q = BitOf(Val(x), pos) /\ q \in {0, 1}
  <2>1. BitOf(Val(x), W * k + sh) = BitOf(x[k + 1], sh)
    BY <1>3, ValBits
  <2>2. w \in Int
    <3>1. B \in Nat
      BY Weights
    <3> QED BY <1>5, <3>1 DEF Word
  <2> QED BY <1>3, <1>4, <2>1, <2>2, BitRange
<1>10. 2^sh * Weight(k) = 2^pos /\ 2^sh \in Nat /\ Weight(k) \in Nat
  <2>1. W * k \in Nat
    <3> HIDE DEF W
    <3> QED BY <1>1, <1>4
  <2>2. 2^(W * k + sh) = 2^(W * k) * 2^sh /\ 2^sh \in Nat /\ 2^(W * k) \in Nat
    BY <1>4, <2>1, TwoSum, TwoPositive
  <2>3. Weight(k) = 2^(W * k)
    BY DEF Weight
  <2> DEFINE a == 2^sh  c == 2^(W * k)
  <2>4. 2^pos = c * a /\ a \in Nat /\ c \in Nat
    BY <1>3, <2>2
  <2> HIDE DEF a, c
  <2>5. a * c = c * a
    BY <2>4
  <2> QED BY <2>2, <2>3, <2>4, <2>5 DEF a, c
<1>11. (d - w) * Weight(k) = (b - q) * 2^pos
  <2> DEFINE a == 2^sh  c == Weight(k)  e == b - q
  <2>1. d = w + e * a /\ w \in Int /\ e \in Int /\ a \in Int /\ c \in Int
    <3>1. w \in Int
      <4>1. B \in Nat
        BY Weights
      <4> QED BY <1>5, <4>1 DEF Word
    <3>2. e \in Int
      BY <1>9
    <3> QED BY <1>10, <3>1, <3>2 DEF d
  <2>2. (d - w) * c = e * (a * c)
    <3> HIDE DEF a, c, e, w
    <3>1. d - w = e * a
      BY <2>1
    <3>2. (e * a) * c = e * (a * c)
      BY <2>1
    <3> QED BY <3>1, <3>2
  <2> QED BY <1>10, <2>2
<1>12. Val(y) = Val(x) + (b - BitOf(Val(x), pos)) * 2^pos
  BY <1>8, <1>9, <1>11
<1>13. Val(y) < 2^num_bit
  <2>1. Val(x) \in Nat /\ num_bit \in Nat /\ b \in {0, 1}
    BY <1>1, ValFits
  <2> HIDE DEF b
  <2> QED BY <1>2, <1>12, <2>1, BitPutIn
<1> QED BY <1>8, <1>12, <1>13 DEF Is, y

(* The words wholly beyond the bits that remain. *)
Kept(rhs) == CHOOSE i \in 0 .. num_word :
                 (i - 1) * bit_per_word < num_bit - rhs /\ num_bit - rhs <= i * bit_per_word

(* There is one such number of words, the quotient rounded up.              *)
LEMMA KeptIs ==
    ASSUME type \in Types, NEW rhs \in 0 .. num_bit
    PROVE  Kept(rhs) \in 0 .. num_word /\ Kept(rhs) = (num_bit - rhs + bit_per_word - 1) \div bit_per_word
<1> DEFINE W == bit_per_word  K == num_word  n == num_bit - rhs
           q == n + W - 1  k == q \div W  r == q % W
           P(i) == i \in 0 .. K /\ (i - 1) * W < n /\ n <= i * W
<1>1. W \in Nat \ {0} /\ K \in Nat \ {0} /\ num_bit \in Nat /\ num_bit <= W * K
  BY Sizes, Places
<1>2. n \in Nat /\ n <= W * K
  <2>1. W * K \in Nat
    BY <1>1
  <2> QED BY <1>1, <2>1
<1> HIDE DEF n, W, K
<1>3. k \in Nat /\ r \in 0 .. W - 1 /\ q = k * W + r
  BY <1>1, <1>2
<1> HIDE DEF k, r
<1>4. (k - 1) * W = k * W - W /\ k * W \in Nat
  BY <1>1, <1>3
<1>5. (k - 1) * W < n /\ n <= k * W
  BY <1>1, <1>2, <1>3, <1>4
<1>6. k <= K
  <2> SUFFICES ASSUME k >= K + 1 PROVE FALSE
    BY <1>1, <1>3
  <2>1. (k - 1) * W >= K * W
    BY <1>1, <1>3
  <2>2. K * W = W * K /\ W * K \in Nat
    BY <1>1
  <2> DEFINE a == (k - 1) * W  b == W * K
  <2>3. a \in Int /\ b \in Nat /\ a >= b /\ a < n /\ n <= b
    BY <1>1, <1>2, <1>3, <1>5, <2>1, <2>2
  <2> HIDE DEF a, b
  <2> QED BY <1>2, <2>3
<1>7. P(k)
  BY <1>1, <1>3, <1>5, <1>6
<1>8. ASSUME NEW i, P(i) PROVE i = k
  <2>1. i \in Nat
    BY <1>8
  <2>2. ~(i < k)
    <3> SUFFICES ASSUME i <= k - 1 PROVE FALSE
      BY <1>3, <2>1
    <3>1. i * W <= (k - 1) * W
      BY <1>1, <1>3, <2>1
    <3> DEFINE a == i * W  b == (k - 1) * W
    <3>2. a \in Int /\ b \in Int /\ a <= b /\ b < n /\ n <= a
      BY <1>1, <1>3, <1>5, <1>8, <2>1, <3>1
    <3> HIDE DEF a, b
    <3> QED BY <1>2, <3>2
  <2>3. ~(k < i)
    <3> SUFFICES ASSUME k <= i - 1 PROVE FALSE
      BY <1>3, <2>1
    <3>1. k * W <= (i - 1) * W
      BY <1>1, <1>3, <2>1
    <3> DEFINE a == k * W  b == (i - 1) * W
    <3>2. a \in Int /\ b \in Int /\ a <= b /\ b < n /\ n <= a
      BY <1>1, <1>3, <1>5, <1>8, <2>1, <3>1
    <3> HIDE DEF a, b
    <3> QED BY <1>2, <3>2
  <2> QED BY <1>3, <2>1, <2>2, <2>3
<1>9. Kept(rhs) = CHOOSE i \in 0 .. K : (i - 1) * W < n /\ n <= i * W
  BY DEF Kept, K, W, n
<1>10. P(Kept(rhs))
  BY <1>7, <1>9
<1>11. Kept(rhs) = k /\ k \in 0 .. K
  BY <1>3, <1>6, <1>8, <1>10
<1> QED BY <1>11 DEF k, n, W, K

(* SetBitFromPosition sets the bits of the words beyond those it keeps, and *)
(* no others.                                                               *)
LEMMA SetBitFromPositionIs ==
    ASSUME type \in Types, NEW x \in Vint, Val(x) < 2^num_bit, NEW rhs \in 0 .. num_bit
    PROVE  Is(SetBitFromPosition(x, rhs),
              Bitwise(num_bit, Or, Val(x),
                      IF is_multi_word THEN Weight(num_word) - Weight(Kept(rhs)) ELSE 0))
<1> DEFINE kept == Kept(rhs)
           beyond(i) == is_multi_word /\ i > kept
           y == [i \in Index |-> IF beyond(i) THEN B - 1 ELSE 0]
           z == [i \in Index |-> IF beyond(i) THEN B - 1 ELSE x[i]]
<1>1. kept \in 0 .. num_word /\ kept = (num_bit - rhs + bit_per_word - 1) \div bit_per_word
  BY KeptIs
<1>2. SetBitFromPosition(x, rhs) = ClearUnusedBits(z)
  BY <1>1 DEF SetBitFromPosition
<1> HIDE DEF kept
<1>3. num_word \in Nat \ {0} /\ B \in Nat \ {0} /\ Or \in Tables
  BY Sizes, Weights, TablesAre
<1>4. y \in Vint
  <2>1. 0 \in Word /\ B - 1 \in Word
    BY <1>3 DEF Word
  <2> QED BY <2>1 DEF Vint, Index
<1>5. z = [i \in Index |-> Bitwise(bit_per_word, Or, x[i], y[i])]
  <2>1. \A i \in Index : /\ Bitwise(bit_per_word, Or, x[i], 0) = x[i]
                         /\ Bitwise(bit_per_word, Or, x[i], B - 1) = B - 1
    <3>1. \A i \in Index : x[i] \in Word
      BY DEF Vint, Index
    <3> QED BY <3>1, WithConstant
  <2>2. \A i \in Index : Bitwise(bit_per_word, Or, x[i], y[i]) = IF beyond(i) THEN B - 1 ELSE x[i]
    BY <2>1
  <2> QED BY <2>2
<1>6. Val(y) = IF is_multi_word THEN Weight(num_word) - Weight(kept) ELSE 0
  <2>1. CASE is_multi_word
    <3>1. 1 \in {0, 1} /\ Zeros \in Vint /\ Val(Zeros) = 0
      BY ZeroVal
    <3>2. \A i \in Index : IF i <= kept THEN y[i] = Zeros[i] ELSE y[i] = 1 * (B - 1) /\ Zeros[i] = 0
      <4>1. \A i \in Index : i \in Int
        BY <1>3 DEF Index
      <4> QED BY <1>1, <1>3, <2>1, <4>1 DEF Zeros
    <3> HIDE DEF y
    <3>3. Val(y) = Val(Zeros) + 1 * (Weight(num_word) - Weight(kept))
      BY <1>1, <1>4, <3>1, <3>2, Extended
    <3>4. Weight(num_word) \in Nat /\ Weight(kept) \in Nat
      <4>1. kept \in Nat
        BY <1>1, <1>3
      <4> QED BY <1>3, <4>1, Weights
    <3> QED BY <2>1, <3>1, <3>3, <3>4
  <2>2. CASE ~is_multi_word
    <3>1. y = Zeros
      BY <2>2 DEF Zeros
    <3> QED BY <2>2, <3>1, ZeroVal
  <2> QED BY <2>1, <2>2
<1> HIDE DEF y, z
<1>7. Is(ClearUnusedBits(z), Bitwise(num_bit, Or, Val(x), Val(y)))
  BY <1>3, <1>4, <1>5, BitwiseClear
<1> QED BY <1>2, <1>6, <1>7 DEF kept

-----------------------------------------------------------------------------
(* The refinement. *)

(* Residue has the operators of Binary too. *)
LEMMA Binaries ==
    /\ Abstract!And = And /\ Abstract!Or = Or /\ Abstract!Xor = Xor
    /\ \A x, i : Abstract!BitOf(x, i) = BitOf(x, i)
    /\ \A n, table, x, y : Abstract!Bitwise(n, table, x, y) = Bitwise(n, table, x, y)
<1>1. Abstract!And = And /\ Abstract!Or = Or /\ Abstract!Xor = Xor
  BY Zenon DEF Abstract!And, And, Abstract!Or, Or, Abstract!Xor, Xor
<1>2. \A x, i : Abstract!BitOf(x, i) = BitOf(x, i)
  BY Zenon DEF Abstract!BitOf, BitOf
<1>3. \A n, table, x, y : Abstract!Bitwise(n, table, x, y) = Bitwise(n, table, x, y)
  BY Zenon DEF Abstract!BitOf, BitOf, Abstract!Bitwise, Bitwise, Abstract!FromBits, FromBits, Abstract!Total, Total
<1> QED BY <1>1, <1>2, <1>3

(* The result of each operation. *)
LEMMA Results ==
    ASSUME NEW x, NEW o
    PROVE  /\ o.name = "=" => Abstract!Result(x, o) = o.arg % 2^num_bit
           /\ o.name = "+=" => Abstract!Result(x, o) = (x + o.arg) % 2^num_bit
           /\ o.name = "-=" => Abstract!Result(x, o) = (x - o.arg) % 2^num_bit
           /\ o.name = "*=" => Abstract!Result(x, o) = (x * o.arg) % 2^num_bit
           /\ o.name = "&=" => Abstract!Result(x, o) = Bitwise(num_bit, And, x, o.arg)
           /\ o.name = "|=" => Abstract!Result(x, o) = Bitwise(num_bit, Or, x, o.arg)
           /\ o.name = "^=" => Abstract!Result(x, o) = Bitwise(num_bit, Xor, x, o.arg)
           /\ o.name = "~" => Abstract!Result(x, o) = 2^num_bit - 1 - x
           /\ o.name = "neg" => Abstract!Result(x, o) = (-x) % 2^num_bit
           /\ o.name = "set" => Abstract!Result(x, o) = x + (1 - BitOf(x, o.arg)) * 2^o.arg
           /\ o.name = "clear" => Abstract!Result(x, o) = x - BitOf(x, o.arg) * 2^o.arg
<1> DEFINE R == Abstract!Result(x, o)
<1>1. /\ o.name = "=" => R = o.arg % Abstract!M
      /\ o.name = "+=" => R = (x + o.arg) % Abstract!M
      /\ o.name = "-=" => R = (x - o.arg) % Abstract!M
      /\ o.name = "*=" => R = (x * o.arg) % Abstract!M
  BY DEF Abstract!Result
<1>2. /\ o.name = "&=" => R = Abstract!Bitwise(num_bit, Abstract!And, x, o.arg)
      /\ o.name = "|=" => R = Abstract!Bitwise(num_bit, Abstract!Or, x, o.arg)
      /\ o.name = "^=" => R = Abstract!Bitwise(num_bit, Abstract!Xor, x, o.arg)
  BY DEF Abstract!Result
<1>3. /\ o.name = "~" => R = Abstract!M - 1 - x
      /\ o.name = "neg" => R = (-x) % Abstract!M
  BY DEF Abstract!Result
<1>4. /\ o.name = "set" => R = x + (1 - Abstract!BitOf(x, o.arg)) * 2^o.arg
      /\ o.name = "clear" => R = x - Abstract!BitOf(x, o.arg) * 2^o.arg
  BY DEF Abstract!Result
<1>5. Abstract!M = 2^num_bit
  BY DEF Abstract!M
<1> HIDE DEF R
<1> QED BY <1>1, <1>2, <1>3, <1>4, <1>5, Binaries DEF R

(* What fits. *)
LEMMA Fits ==
    ASSUME type \in Types
    PROVE  /\ \A n \in Int : n % 2^num_bit < 2^num_bit
           /\ \A table \in Tables, x \in Nat, y \in Nat : Bitwise(num_bit, table, x, y) < 2^num_bit
           /\ \A x \in Nat : 2^num_bit - 1 - x < 2^num_bit
<1> DEFINE M == 2^num_bit
<1>1. num_bit \in Nat /\ M \in Nat \ {0}
  BY Sizes, Weights
<1>2. ASSUME NEW table \in Tables, NEW x \in Nat, NEW y \in Nat
      PROVE  Bitwise(num_bit, table, x, y) < M
  <2> DEFINE z == Bitwise(num_bit, table, x, y)
  <2>1. z \in 0 .. 2^num_bit - 1
    BY <1>1, BitwiseIs DEF Combines
  <2> HIDE DEF z, M
  <2>2. z \in 0 .. M - 1
    BY <2>1 DEF M
  <2>3. z < M
    BY <1>1, <2>2
  <2> QED BY <2>3 DEF z
<1> HIDE DEF M
<1>3. \A n \in Int : n % M < M
  BY <1>1
<1>4. \A x \in Nat : M - 1 - x < M
  BY <1>1
<1> QED BY <1>2, <1>3, <1>4 DEF M

(* The step the abstract one takes: y is the vint after it. *)
Computes(y) ==
    Is(y, Abstract!Result(Val(v), op')) /\ Val(y) < 2^num_bit

(* The names of operations with their operands. *)
LEMMA Recorded ==
    ASSUME NEW name, NEW arg, Record(name, arg) PROVE op'.name = name /\ op'.arg = arg
BY DEF Record

(* The actions, one after the other.                                        *)
LEMMA AssignStep == ASSUME TypeOK, Assign PROVE Computes(v')
<1>1. type \in Types
  BY DEF TypeOK
<1>2. ASSUME NEW y, NEW n \in Int, Is(y, n % 2^num_bit), Record("=", n) PROVE Computes(y)
  <2>1. Val(y) < 2^num_bit
    BY <1>1, <1>2, Fits DEF Is
  <2>2. Abstract!Result(Val(v), op') = n % 2^num_bit
    BY <1>2, Recorded, Results
  <2> QED BY <1>2, <2>1, <2>2 DEF Computes
<1>3. ASSUME NEW rhs \in Word, v' = AssignInt(rhs),
             Record("=", IF is_signed /\ rhs >= B \div 2 THEN rhs - B ELSE rhs)
      PROVE  Computes(v')
  <2> DEFINE n == IF is_signed /\ rhs >= B \div 2 THEN rhs - B ELSE rhs
  <2>1. n \in Int
    <3>1. B \in Nat
      BY <1>1, Weights
    <3>2. rhs \in Int /\ rhs - B \in Int
      BY <3>1 DEF Word
    <3> QED BY <3>2
  <2>2. Is(v', n % 2^num_bit)
    BY <1>1, <1>3, AssignIntIs
  <2>3. Record("=", n)
    BY <1>3
  <2> HIDE DEF n
  <2> QED BY <1>2, <2>1, <2>2, <2>3
<1>4. ASSUME NEW sz \in 0 .. num_word, NEW rhs \in [1 .. sz -> Word], v' = AssignVector(rhs),
             NEW k, k = Val([i \in Index |-> IF i <= Len(rhs) THEN rhs[i] ELSE 0]),
             Record("=", IF is_signed /\ rhs # << >> /\ rhs[Len(rhs)] >= B \div 2
                         THEN k - Weight(Len(rhs)) ELSE k)
      PROVE  Computes(v')
  <2> DEFINE n == IF is_signed /\ rhs # << >> /\ rhs[Len(rhs)] >= B \div 2
                  THEN k - Weight(Len(rhs)) ELSE k
             x == [i \in Index |-> IF i <= Len(rhs) THEN rhs[i] ELSE 0]
  <2>1. num_word \in Nat /\ B \in Nat \ {0}
    BY <1>1, Sizes, Weights
  <2>2. Len(rhs) = sz /\ sz \in Nat /\ Weight(sz) \in Nat
    BY <1>1, <2>1, Weights
  <2>3. x \in Vint
    <3>1. \A i \in Index : i \in Int /\ i >= 1
      BY <2>1 DEF Index
    <3>2. \A i \in Index : i <= sz => rhs[i] \in Word
      BY <2>2, <3>1
    <3>3. 0 \in Word
      BY <2>1 DEF Word
    <3> QED BY <2>2, <3>2, <3>3 DEF Vint, Index
  <2>4. k \in Nat
    BY <1>1, <1>4, <2>3, ValFits
  <2>5. n \in Int
    BY <2>2, <2>4
  <2>6. Is(v', n % 2^num_bit)
    BY <1>1, <1>4, AssignVectorIs
  <2>7. Record("=", n)
    BY <1>4
  <2> HIDE DEF n
  <2> QED BY <1>2, <2>5, <2>6, <2>7
<1>5. CASE \E rhs \in Word :
              /\ v' = AssignInt(rhs)
              /\ Record("=", IF is_signed /\ rhs >= B \div 2 THEN rhs - B ELSE rhs)
  BY <1>3, <1>5
<1>6. CASE \E rhs \in UNION {[1 .. sz -> Word] : sz \in 0 .. num_word} :
              /\ v' = AssignVector(rhs)
              /\ LET n == Val([i \in Index |-> IF i <= Len(rhs) THEN rhs[i] ELSE 0])
                 IN Record("=", IF is_signed /\ rhs # << >> /\ rhs[Len(rhs)] >= B \div 2
                                THEN n - Weight(Len(rhs)) ELSE n)
  <2>1. PICK rhs \in UNION {[1 .. sz -> Word] : sz \in 0 .. num_word} :
              /\ v' = AssignVector(rhs)
              /\ LET n == Val([i \in Index |-> IF i <= Len(rhs) THEN rhs[i] ELSE 0])
                 IN Record("=", IF is_signed /\ rhs # << >> /\ rhs[Len(rhs)] >= B \div 2
                                THEN n - Weight(Len(rhs)) ELSE n)
    BY <1>6
  <2>2. PICK sz \in 0 .. num_word : rhs \in [1 .. sz -> Word]
    OBVIOUS
  <2> QED BY <1>4, <2>1, <2>2
<1> QED BY <1>5, <1>6 DEF Assign

(* ~ and unary minus.                                                       *)
LEMMA UnaryStep == ASSUME TypeOK, Unary PROVE Computes(v')
<1>1. type \in Types /\ v \in Vint /\ Val(v) < 2^num_bit
  BY DEF TypeOK
<1>2. Val(v) \in Nat /\ -Val(v) \in Int
  BY <1>1, ValFits
<1>3. CASE v' = Flip(v) /\ Record("~", 0)
  <2>1. Abstract!Result(Val(v), op') = 2^num_bit - 1 - Val(v)
    BY <1>3, Recorded, Results
  <2>2. Is(v', 2^num_bit - 1 - Val(v))
    BY <1>1, <1>3, FlipIs
  <2> QED BY <1>1, <1>2, <2>1, <2>2, Fits DEF Computes, Is
<1>4. CASE v' = Negate(v) /\ Record("neg", 0)
  <2>1. Abstract!Result(Val(v), op') = (-Val(v)) % 2^num_bit
    BY <1>4, Recorded, Results
  <2>2. Is(v', (-Val(v)) % 2^num_bit)
    BY <1>1, <1>4, NegateIs
  <2> QED BY <1>1, <1>2, <2>1, <2>2, Fits DEF Computes, Is
<1> QED BY <1>3, <1>4 DEF Unary

(* The vectors operated with. *)
LEMMA OperandsAre == ASSUME type \in Types PROVE \A y \in Operands : y \in Vint /\ Val(y) < 2^num_bit
<1> SUFFICES ASSUME NEW n \in 0 .. 2^num_bit - 1 PROVE Words(n) \in Vint /\ Val(Words(n)) < 2^num_bit
  BY DEF Operands
<1> DEFINE M == 2^num_bit  w == Weight(num_word)
<1>1. M \in Nat \ {0} /\ n \in Nat /\ n < M
  BY Weights
<1>2. Words(n) \in Vint /\ Val(Words(n)) = n % w /\ w \in Nat \ {0}
  <2>1. w \in Nat \ {0}
    <3>1. num_word \in Nat
      BY Sizes
    <3> QED BY <3>1, Weights
  <2> QED BY <1>1, <2>1, ValWords
<1> HIDE DEF M, w
<1>3. n % w <= n
  BY <1>1, <1>2
<1>4. n % w \in Nat
  BY <1>1, <1>2
<1>5. n % w < M
  BY <1>1, <1>3, <1>4
<1> QED BY <1>2, <1>5 DEF M

(* +=, -= and *=, with a vint or a machine word.                            *)
LEMMA ArithmeticStep == ASSUME TypeOK, Arithmetic PROVE Computes(v')
<1>1. type \in Types /\ v \in Vint /\ Val(v) < 2^num_bit
  BY DEF TypeOK
<1>2. ASSUME NEW y \in Vint,
             \/ v' = AddAssign(v, y) /\ Record("+=", Val(y))
             \/ v' = SubAssign(v, y) /\ Record("-=", Val(y))
             \/ v' = MulAssign(v, y) /\ Record("*=", Val(y))
      PROVE  Computes(v')
  <2>1. Val(v) + Val(y) \in Int /\ Val(v) - Val(y) \in Int /\ Val(v) * Val(y) \in Int
    <3>1. Val(v) \in Nat /\ Val(y) \in Nat
      BY <1>1, ValFits
    <3> QED BY <3>1
  <2>2. CASE v' = AddAssign(v, y) /\ Record("+=", Val(y))
    <3>1. Abstract!Result(Val(v), op') = (Val(v) + Val(y)) % 2^num_bit
      BY <2>2, Recorded, Results
    <3>2. Is(v', (Val(v) + Val(y)) % 2^num_bit)
      BY <1>1, <2>2, AddIs
    <3> QED BY <1>1, <2>1, <3>1, <3>2, Fits DEF Computes, Is
  <2>3. CASE v' = SubAssign(v, y) /\ Record("-=", Val(y))
    <3>1. Abstract!Result(Val(v), op') = (Val(v) - Val(y)) % 2^num_bit
      BY <2>3, Recorded, Results
    <3>2. Is(v', (Val(v) - Val(y)) % 2^num_bit)
      BY <1>1, <2>3, SubIs
    <3> QED BY <1>1, <2>1, <3>1, <3>2, Fits DEF Computes, Is
  <2>4. CASE v' = MulAssign(v, y) /\ Record("*=", Val(y))
    <3>1. Abstract!Result(Val(v), op') = (Val(v) * Val(y)) % 2^num_bit
      BY <2>4, Recorded, Results
    <3>2. Is(v', (Val(v) * Val(y)) % 2^num_bit)
      BY <1>1, <2>4, MulIs
    <3> QED BY <1>1, <2>1, <3>1, <3>2, Fits DEF Computes, Is
  <2> QED BY <1>2, <2>2, <2>3, <2>4
<1>3. \A y \in Operands : y \in Vint
  BY <1>1, OperandsAre
<1>4. \A rhs \in Word : Low(rhs) \in Vint /\ Val(Low(rhs)) = rhs
  BY <1>1, LowVal
<1>5. CASE \E rhs \in Operands :
              \/ v' = AddAssign(v, rhs) /\ Record("+=", Val(rhs))
              \/ v' = SubAssign(v, rhs) /\ Record("-=", Val(rhs))
              \/ v' = MulAssign(v, rhs) /\ Record("*=", Val(rhs))
  BY <1>2, <1>3, <1>5
<1>6. CASE \E rhs \in Word :
              \/ v' = AddAssign(v, Low(rhs)) /\ Record("+=", rhs)
              \/ v' = SubAssign(v, Low(rhs)) /\ Record("-=", rhs)
              \/ ~is_multi_word /\ v' = MulAssign(v, Low(rhs)) /\ Record("*=", rhs)
  <2>1. PICK rhs \in Word :
              \/ v' = AddAssign(v, Low(rhs)) /\ Record("+=", rhs)
              \/ v' = SubAssign(v, Low(rhs)) /\ Record("-=", rhs)
              \/ v' = MulAssign(v, Low(rhs)) /\ Record("*=", rhs)
    BY <1>6
  <2>2. Low(rhs) \in Vint /\ Val(Low(rhs)) = rhs
    BY <1>4
  <2> QED BY <1>2, <2>1, <2>2
<1> QED BY <1>5, <1>6 DEF Arithmetic

(* The bitwise assignments, and the bits set and cleared one by one.         *)
LEMMA BitwiseStep == ASSUME TypeOK, BitwiseOps PROVE Computes(v')
<1>1. type \in Types /\ v \in Vint /\ Val(v) < 2^num_bit
  BY DEF TypeOK
<1>2. Val(v) \in Nat /\ And \in Tables /\ Or \in Tables /\ Xor \in Tables
  BY <1>1, ValFits, TablesAre
<1>3. B \in Nat \ {0} /\ Weight(num_word) \in Nat \ {0} /\ B <= Weight(num_word)
  <2>1. B \in Nat \ {0} /\ num_word \in Nat \ {0}
    BY <1>1, Sizes, Weights
  <2>2. num_word - 1 \in Nat /\ (num_word - 1) + 1 = num_word
    BY <2>1
  <2>3. Weight(num_word) = Weight(num_word - 1) * B /\ Weight(num_word - 1) \in Nat \ {0}
    BY <1>1, <2>2, Weights
  <2> DEFINE w == Weight(num_word)  u == Weight(num_word - 1)
  <2>4. w = u * B /\ u \in Nat \ {0}
    BY <2>3
  <2> HIDE DEF w, u
  <2>5. w \in Nat /\ w >= B
    BY <2>1, <2>4
  <2> QED BY <2>1, <2>5 DEF w
<1>4. ASSUME NEW y, NEW n \in Nat, NEW table \in Tables, NEW name,
             Is(y, Bitwise(num_bit, table, Val(v), n)), Record(name, n),
             \/ name = "&=" /\ table = And
             \/ name = "|=" /\ table = Or
             \/ name = "^=" /\ table = Xor
      PROVE  Computes(y)
  <2>1. Abstract!Result(Val(v), op') = Bitwise(num_bit, table, Val(v), n)
    BY <1>4, Recorded, Results
  <2> QED BY <1>1, <1>2, <1>4, <2>1, Fits DEF Computes, Is
<1>5. CASE \E rhs \in Operands :
              \/ v' = AndAssign(v, rhs) /\ Record("&=", Val(rhs))
              \/ v' = OrAssign(v, rhs) /\ Record("|=", Val(rhs))
              \/ v' = XorAssign(v, rhs) /\ Record("^=", Val(rhs))
  <2>1. PICK rhs \in Operands :
              \/ v' = AndAssign(v, rhs) /\ Record("&=", Val(rhs))
              \/ v' = OrAssign(v, rhs) /\ Record("|=", Val(rhs))
              \/ v' = XorAssign(v, rhs) /\ Record("^=", Val(rhs))
    BY <1>5
  <2>2. rhs \in Vint /\ Val(rhs) < 2^num_bit
    BY <1>1, OperandsAre
  <2>3. Val(rhs) \in Nat
    BY <1>1, <2>2, ValFits
  <2>4. /\ Is(AndAssign(v, rhs), Bitwise(num_bit, And, Val(v), Val(rhs)))
        /\ Is(OrAssign(v, rhs), Bitwise(num_bit, Or, Val(v), Val(rhs)))
        /\ Is(XorAssign(v, rhs), Bitwise(num_bit, Xor, Val(v), Val(rhs)))
    BY <1>1, <2>2, BitwiseIsWhole
  <2> QED BY <1>2, <1>4, <2>1, <2>3, <2>4
<1>6. CASE \E rhs \in Word :
              \/ v' = AndWord(v, rhs) /\ Record("&=", rhs + (Weight(num_word) - B))
              \/ v' = OrWord(v, rhs) /\ Record("|=", rhs)
              \/ v' = XorWord(v, rhs) /\ Record("^=", rhs)
  <2>1. PICK rhs \in Word :
              \/ v' = AndWord(v, rhs) /\ Record("&=", rhs + (Weight(num_word) - B))
              \/ v' = OrWord(v, rhs) /\ Record("|=", rhs)
              \/ v' = XorWord(v, rhs) /\ Record("^=", rhs)
    BY <1>6
  <2>2. rhs \in Nat /\ rhs + (Weight(num_word) - B) \in Nat
    BY <1>3 DEF Word
  <2>3. /\ Is(AndWord(v, rhs), Bitwise(num_bit, And, Val(v), rhs + (Weight(num_word) - B)))
        /\ Is(OrWord(v, rhs), Bitwise(num_bit, Or, Val(v), rhs))
        /\ Is(XorWord(v, rhs), Bitwise(num_bit, Xor, Val(v), rhs))
    BY <1>1, BitwiseIsLow
  <2> QED BY <1>2, <1>4, <2>1, <2>2, <2>3
<1>7. ASSUME NEW pos \in Positions, NEW value \in BOOLEAN, v' = SetBit(v, pos, value),
             Record(IF value THEN "set" ELSE "clear", pos)
      PROVE  Computes(v')
  <2> DEFINE q == BitOf(Val(v), pos)  a == 2^pos  x == Val(v)
  <2>1. /\ Is(v', x + ((IF value THEN 1 ELSE 0) - q) * a)
        /\ Val(v') < 2^num_bit
    BY <1>1, <1>7, SetBitIs
  <2>2. x \in Int /\ q \in Int /\ a \in Int
    <3>1. num_bit \in Nat
      BY <1>1, Sizes
    <3>2. pos \in Nat
      BY <3>1 DEF Positions
    <3>3. q \in {0, 1} /\ a \in Nat
      BY <1>2, <3>2, BitRange, TwoPositive
    <3> QED BY <1>2, <3>3
  <2>3. CASE value
    <3>1. Abstract!Result(x, op') = x + (1 - q) * a
      BY <1>7, <2>3, Recorded, Results
    <3> QED BY <2>1, <2>3, <3>1 DEF Computes
  <2>4. CASE ~value
    <3>1. Abstract!Result(x, op') = x - q * a
      BY <1>7, <2>4, Recorded, Results
    <3>2. Is(v', x + (0 - q) * a)
      BY <2>1, <2>4
    <3>3. x + (0 - q) * a = x - q * a
      <4> HIDE DEF x, q, a
      <4>1. (0 - q) * a = -(q * a) /\ q * a \in Int
        BY <2>2
      <4> QED BY <2>2, <4>1
    <3> QED BY <2>1, <3>1, <3>2, <3>3 DEF Computes
  <2> QED BY <2>3, <2>4
<1>8. CASE \E pos \in Positions :
              \/ v' = SetBit(v, pos, TRUE) /\ Record("set", pos)
              \/ v' = SetBit(v, pos, FALSE) /\ Record("clear", pos)
  BY <1>7, <1>8
<1>9. CASE \E rhs \in 0 .. num_bit :
              /\ v' = SetBitFromPosition(v, rhs)
              /\ LET kept == CHOOSE i \in 0 .. num_word :
                                 (i - 1) * bit_per_word < num_bit - rhs /\ num_bit - rhs <= i * bit_per_word
                 IN Record("|=", IF is_multi_word THEN Weight(num_word) - Weight(kept) ELSE 0)
  <2>1. PICK rhs \in 0 .. num_bit :
              /\ v' = SetBitFromPosition(v, rhs)
              /\ Record("|=", IF is_multi_word THEN Weight(num_word) - Weight(Kept(rhs)) ELSE 0)
    BY <1>9 DEF Kept
  <2> DEFINE n == IF is_multi_word THEN Weight(num_word) - Weight(Kept(rhs)) ELSE 0
  <2>2. Is(v', Bitwise(num_bit, Or, Val(v), n))
    BY <1>1, <2>1, SetBitFromPositionIs
  <2>3. n \in Nat
    <3>1. Kept(rhs) \in 0 .. num_word /\ num_word \in Nat /\ Zeros \in Vint
      BY <1>1, KeptIs, Sizes, ZeroVal
    <3>2. Multiple(Weight(num_word), Weight(Kept(rhs)))
      <4> DEFINE i == Kept(rhs)
      <4>1. i \in Nat /\ i <= num_word /\ bit_per_word \in Nat
        BY <1>1, <3>1, Sizes
      <4> HIDE DEF i
      <4>2. bit_per_word * i \in Nat /\ bit_per_word * num_word \in Nat
        BY <3>1, <4>1
      <4>3. bit_per_word * i <= bit_per_word * num_word
        BY <3>1, <4>1
      <4> QED BY <4>2, <4>3, PowerMultiple DEF Weight, i
    <3>3. PICK t \in Nat : Weight(num_word) = Weight(Kept(rhs)) * t
      BY <3>2 DEF Multiple
    <3>4. Weight(Kept(rhs)) \in Nat \ {0}
      <4>1. Kept(rhs) \in Nat
        BY <3>1
      <4> QED BY <1>1, <4>1, Weights
    <3> DEFINE w == Weight(num_word)  u == Weight(Kept(rhs))
    <3>5. w - u \in Nat
      <4>1. w \in Nat \ {0} /\ u \in Nat \ {0} /\ w = u * t
        BY <1>3, <3>3, <3>4
      <4> HIDE DEF w, u
      <4>2. t >= 1
        BY <4>1
      <4>3. u * t >= u
        BY <4>1, <4>2
      <4> QED BY <4>1, <4>3
    <3> QED BY <3>5
  <2>4. Record("|=", n)
    BY <2>1
  <2> HIDE DEF n
  <2> QED BY <1>2, <1>4, <2>2, <2>3, <2>4
<1>10. CASE \E value \in BOOLEAN, end \in {0, num_bit - 1} :
              /\ v' = IF end = 0 THEN SetBitLSB(v, value) ELSE SetBitMSB(v, value)
              /\ Record(IF value THEN "set" ELSE "clear", end)
  <2>1. PICK value \in BOOLEAN, end \in {0, num_bit - 1} :
              /\ v' = IF end = 0 THEN SetBitLSB(v, value) ELSE SetBitMSB(v, value)
              /\ Record(IF value THEN "set" ELSE "clear", end)
    BY <1>10
  <2>2. v' = SetBit(v, end, value)
    BY <2>1 DEF SetBitLSB, SetBitMSB
  <2>3. end \in Positions
    <3>1. num_bit \in Nat \ {0}
      BY <1>1, Sizes
    <3> QED BY <3>1 DEF Positions
  <2> QED BY <1>7, <2>1, <2>2, <2>3
<1> QED BY <1>5, <1>6, <1>8, <1>9, <1>10 DEF BitwiseOps

(* Every operation leaves a vint whose number is that of the abstract one. *)
LEMMA StepIs == ASSUME TypeOK, Next PROVE type' = type /\ Computes(v')
BY AssignStep, UnaryStep, ArithmeticStep, BitwiseStep DEF Next

(* The type does not change, nor then what a vint stands for. *)
LEMMA Later ==
    ASSUME type' = type
    PROVE  /\ num_bit' = num_bit /\ (type \in Types)' = (type \in Types)
           /\ (v \in Vint)' = (v' \in Vint)
           /\ Val(v)' = Val(v')
<1>1. num_bit' = num_bit /\ bit_per_word' = bit_per_word
  BY DEF num_bit, bit_per_word
<1>2. num_word' = num_word
  BY <1>1 DEF num_word
<1>3. (v \in Vint)' = (v' \in Vint)
  BY <1>1, <1>2 DEF Vint, Word, B
<1>4. Val(v)' = Val(v')
  BY <1>1, <1>2 DEF Val, Weight
<1> QED BY <1>1, <1>3, <1>4

(* A vint starts as zero.                                                   *)
LEMMA InitIs == ASSUME Init PROVE TypeOK /\ Val(v) = 0
<1>1. type \in Types /\ v = AssignInt(0)
  BY DEF Init
<1>2. B \in Nat \ {0} /\ 2 * (B \div 2) = B /\ B \div 2 \in Nat /\ 2^num_bit \in Nat \ {0}
  BY <1>1, Weights
<1>3. ~(0 >= B \div 2) /\ 0 \in Word
  BY <1>2 DEF Word
<1>4. Is(v, 0 % 2^num_bit)
  BY <1>1, <1>3, AssignIntIs
<1>5. 0 % 2^num_bit = 0 /\ 0 < 2^num_bit
  <2> DEFINE M == 2^num_bit
  <2> HIDE DEF M
  <2>1. M \in Nat \ {0}
    BY <1>2 DEF M
  <2>2. 0 % M = 0 /\ 0 < M
    BY <2>1
  <2> QED BY <2>2 DEF M
<1> QED BY <1>1, <1>4, <1>5 DEF TypeOK, Is

(* A vint is always num_word words whose unused bits are clear, whatever    *)
(* operations were called, for every width and size of the words.           *)
THEOREM TypeCorrect == Spec => []TypeOK
<1>1. Init => TypeOK
  BY InitIs
<1>2. TypeOK /\ [Next]_vars => TypeOK'
  <2> SUFFICES ASSUME TypeOK, [Next]_vars PROVE TypeOK'
    OBVIOUS
  <2>1. CASE Next
    <3>1. type' = type /\ Computes(v')
      BY <2>1, StepIs
    <3>2. type \in Types /\ v' \in Vint /\ Val(v') < 2^num_bit
      BY <3>1 DEF TypeOK, Computes, Is
    <3> QED BY <3>1, <3>2, Later DEF TypeOK
  <2>2. CASE UNCHANGED vars
    <3>1. type' = type /\ v' = v
      BY <2>2 DEF vars
    <3> QED BY <3>1, Later DEF TypeOK
  <2> QED BY <2>1, <2>2
<1> QED BY <1>1, <1>2, PTL DEF Spec

(* Every operation of a vint, carry by carry and word by word, is the one   *)
(* the abstract specification defines on numbers modulo 2^num_bit.          *)
THEOREM Residues == Spec => ImplementsResidue
<1>1. Init => Abstract!Init
  <2> SUFFICES ASSUME Init PROVE Abstract!Init
    OBVIOUS
  <2>1. TypeOK /\ Val(v) = 0
    BY InitIs
  <2>2. num_bit \in Nat \ {0} /\ 2^num_bit \in Nat \ {0}
    BY <2>1, Sizes, Weights DEF TypeOK
  <2> DEFINE M == 2^num_bit
  <2> HIDE DEF M
  <2>3. 0 \in 0 .. M - 1
    BY <2>2 DEF M
  <2> QED BY <2>1, <2>2, <2>3 DEF Abstract!Init, Abstract!M, M
<1>2. TypeOK /\ [Next]_vars => [Abstract!Next]_Abstract!vars
  <2> SUFFICES ASSUME TypeOK, [Next]_vars PROVE [Abstract!Next]_Abstract!vars
    OBVIOUS
  <2>1. CASE Next
    <3>1. type' = type /\ Computes(v')
      BY <2>1, StepIs
    <3>2. num_bit' = num_bit /\ Val(v)' = Val(v')
      BY <3>1, Later
    <3>3. Val(v') = Abstract!Result(Val(v), op')
      BY <3>1 DEF Computes, Is
    <3> QED BY <3>2, <3>3 DEF Abstract!Next
  <2>2. CASE UNCHANGED vars
    <3>1. type' = type /\ v' = v /\ op' = op
      BY <2>2 DEF vars
    <3>2. num_bit' = num_bit /\ Val(v)' = Val(v)
      BY <3>1, Later
    <3> QED BY <3>1, <3>2 DEF Abstract!vars
  <2> QED BY <2>1, <2>2
<1> QED BY <1>1, <1>2, TypeCorrect, PTL DEF Spec, ImplementsResidue, Abstract!Spec

-----------------------------------------------------------------------------
(* The observers. *)

(* The bits of the number one by one. *)
LEMMA GetBitIs ==
    ASSUME type \in Types, NEW x \in Vint, NEW pos \in Positions
    PROVE  GetBit(x, pos) = (BitOf(Val(x), pos) = 1)
<1> DEFINE W == bit_per_word  K == num_word  k == pos \div W  sh == shamt(pos)
<1>1. W \in Nat \ {0} /\ K \in Nat \ {0} /\ num_bit \in Nat \ {0} /\ num_bit <= W * K
  BY Sizes, Places
<1>2. pos \in 0 .. W * K - 1
  BY <1>1 DEF Positions
<1>3. k \in 0 .. K - 1 /\ sh \in 0 .. W - 1 /\ pos = W * k + sh /\ lsb_word(pos) = k + 1
  BY <1>2, Places DEF lsb_word, shamt
<1>4. GetBit(x, pos) = (BitOf(x[k + 1], sh) = 1)
  BY <1>3 DEF GetBit, BitOf
<1> HIDE DEF k, sh
<1>5. BitOf(Val(x), W * k + sh) = BitOf(x[k + 1], sh)
  BY <1>3, ValBits
<1> QED BY <1>3, <1>4, <1>5

(* IsNegative is so of the upper half of the numbers, if signed.            *)
LEMMA IsNegativeIs ==
    ASSUME type \in Types, NEW x \in Vint, Val(x) < 2^num_bit
    PROVE  IsNegative(x) = (is_signed /\ 2 * Val(x) >= 2^num_bit)
<1> DEFINE m == num_bit - 1  h == 2^m  n == Val(x)  M == 2^num_bit  q == n \div h
<1>1. num_bit \in Nat \ {0} /\ m \in Nat /\ m + 1 = num_bit /\ m \in Positions
  <2>1. num_bit \in Nat \ {0}
    BY Sizes
  <2> QED BY <2>1 DEF Positions
<1>2. M = 2 * h /\ h \in Nat \ {0}
  <2>1. 2^(m + 1) = 2 * 2^m /\ 2^m \in Nat \ {0}
    <3> HIDE DEF m
    <3> QED BY <1>1, TwoExp, TwoPositive
  <2> QED BY <1>1, <2>1
<1>3. n \in Nat /\ n < M
  BY ValFits
<1>4. BitOf(n, m) = q % 2
  BY DEF BitOf
<1>5. (q % 2 = 1) = (2 * n >= M)
  <2> HIDE DEF n, h, M, q, m
  <2>1. CASE n < h
    <3>1. n = 0 * h + n /\ n \in 0 .. h - 1
      BY <1>2, <1>3, <2>1
    <3>2. q = 0
      BY <1>2, <3>1, DivUnique DEF q
    <3> QED BY <1>2, <1>3, <2>1, <3>2
  <2>2. CASE n >= h
    <3>1. n = 1 * h + (n - h) /\ n - h \in 0 .. h - 1
      BY <1>2, <1>3, <2>2
    <3>2. q = 1
      BY <1>2, <1>3, <3>1, DivUnique DEF q
    <3> QED BY <1>2, <1>3, <2>2, <3>2
  <2> QED BY <1>2, <1>3, <2>1, <2>2
<1>6. GetBit(x, m) = (BitOf(n, m) = 1)
  BY <1>1, GetBitIs
<1>7. GetBit(x, m) = (2 * n >= M)
  BY <1>4, <1>5, <1>6
<1> QED BY <1>7 DEF IsNegative

(* The conversion to bool looks at all the words.                           *)
LEMMA ToBoolIs ==
    ASSUME type \in Types, NEW x \in Vint PROVE ToBool(x) = (Val(x) # 0)
<1>1. Zeros \in Vint /\ Val(Zeros) = 0
  BY ZeroVal
<1>2. x = Zeros <=> \A i \in Index : x[i] = 0
  BY DEF Vint, Zeros, Index
<1>3. Val(x) = 0 <=> x = Zeros
  BY <1>1, SameVal
<1> QED BY <1>2, <1>3 DEF ToBool

(* All the bits are one. *)
LEMMA ReduceAndIs ==
    ASSUME type \in Types, NEW x \in Vint, Val(x) < 2^num_bit
    PROVE  ReduceAnd(x) = (Ones(num_bit, Val(x)) = num_bit)
<1> DEFINE F == Flip(Zeros)  K == num_word  N == num_bit  M == 2^N  n == Val(x)
<1>1. K \in Nat \ {0} /\ K \in Index /\ N \in Nat /\ used \in 0 .. bit_per_word /\ B \in Nat \ {0}
  <2>1. K \in Nat \ {0} /\ N \in Nat /\ used \in 0 .. bit_per_word
    BY Sizes
  <2>2. B \in Nat \ {0}
    BY Weights
  <2> QED BY <2>1, <2>2 DEF Index
<1>2. M \in Nat \ {0} /\ n \in 0 .. M - 1
  <2>1. M \in Nat \ {0} /\ n \in Nat /\ n < M
    BY Weights, ValFits
  <2> HIDE DEF M, n
  <2> QED BY <2>1
<1>3. F \in Vint /\ Val(F) = M - 1
  <2>1. Zeros \in Vint /\ Val(Zeros) = 0 /\ Val(Zeros) < M
    BY <1>2, ZeroVal
  <2>2. F \in Vint /\ Val(F) = M - 1 - 0
    BY <2>1, FlipIs DEF Is
  <2> QED BY <1>2, <2>2
<1>4. /\ \A i \in Index : i # K => F[i] = B - 1
      /\ F[K] = used_mask
  <2> DEFINE y == [i \in Index |-> B - 1 - Zeros[i]]
  <2>1. \A i \in Index : y[i] = B - 1
    BY <1>1 DEF Zeros
  <2>2. F = [y EXCEPT ![K] = @ & used_mask]
    BY DEF Flip, ClearUnusedBits
  <2>3. \A i \in Index : i # K => F[i] = B - 1
    BY <2>1, <2>2
  <2>4. F[K] = ((B - 1) & used_mask)
    BY <1>1, <2>1, <2>2
  <2>5. ((B - 1) & used_mask) = used_mask
    <3> DEFINE u == 2^used  o == B - 1
    <3>1. o \in Word
      BY <1>1 DEF Word
    <3>2. (o & (2^used - 1)) = o % 2^used
      <4> HIDE DEF o
      <4> QED BY <1>1, <3>1, MaskWord
    <3>3. Multiple(B, u)
      BY <1>1, Weights, Sizes, PowerMultiple
    <3>4. PICK t \in Nat : B = u * t
      BY <3>3 DEF Multiple
    <3>5. u \in Nat \ {0} /\ used_mask = u - 1
      BY Weights
    <3>6. o % u = u - 1
      <4> DEFINE r == u - 1
      <4> HIDE DEF u
      <4>1. o = (t - 1) * u + r /\ r \in 0 .. u - 1 /\ t - 1 \in Int /\ o \in Int
        BY <1>1, <3>4, <3>5
      <4> HIDE DEF o, r
      <4>2. o % u = r
        BY <3>5, <4>1, DivUnique
      <4> QED BY <4>2 DEF r
    <3> QED BY <3>2, <3>5, <3>6
  <2> QED BY <2>3, <2>4, <2>5
<1> HIDE DEF F
<1>5. ReduceAnd(x) <=> x = F
  <2>1. F \in [Index -> Word] /\ x \in [Index -> Word]
    BY <1>3 DEF Vint, Index
  <2>2. \A i \in Index : i \in 1 .. K - 1 \/ i = K
    BY <1>1 DEF Index
  <2>3. \A i \in 1 .. K - 1 : i \in Index /\ i # K
    BY <1>1 DEF Index
  <2>4. ASSUME ReduceAnd(x) PROVE x = F
    <3>1. \A i \in Index : x[i] = F[i]
      BY <1>4, <2>2, <2>3, <2>4 DEF ReduceAnd
    <3> QED BY <2>1, <3>1
  <2>5. ASSUME x = F PROVE ReduceAnd(x)
    BY <1>4, <2>3, <2>5 DEF ReduceAnd
  <2> QED BY <2>4, <2>5
<1>6. x = F <=> n = M - 1
  BY <1>3, SameVal
<1>7. n = M - 1 <=> \A i \in 0 .. N - 1 : BitOf(n, i) = 1
  <2> DEFINE o == M - 1
  <2>1. o \in 0 .. 2^N - 1
    <3> HIDE DEF M
    <3>1. o \in 0 .. M - 1
      BY <1>2
    <3> QED BY <3>1 DEF M
  <2>2. \A i \in 0 .. N - 1 : BitOf(o, i) = 1
    BY <1>1, OnesAre
  <2>3. n \in 0 .. 2^N - 1
    BY <1>2
  <2> HIDE DEF o, n
  <2>4. (\A i \in 0 .. N - 1 : BitOf(n, i) = BitOf(o, i)) => n = o
    BY <1>1, <2>1, <2>3, SameBits
  <2>5. n = o <=> \A i \in 0 .. N - 1 : BitOf(n, i) = 1
    BY <2>2, <2>4
  <2> QED BY <2>5 DEF o
<1>8. Ones(N, n) = N <=> \A i \in 0 .. N - 1 : BitOf(n, i) = 1
  <2>1. n \in Int
    BY <1>2
  <2> QED BY <1>1, <2>1, OnesCount
<1>9. ReduceAnd(x) \in BOOLEAN
  BY DEF ReduceAnd
<1> QED BY <1>5, <1>6, <1>7, <1>8, <1>9

(* The parity of the bits. *)
LEMMA ReduceXorIs ==
    ASSUME type \in Types, NEW x \in Vint, Val(x) < 2^num_bit
    PROVE  ReduceXor(x) = (Ones(num_bit, Val(x)) % 2 = 1)
<1> DEFINE Solves(f) == f = [i \in 0 .. num_word |-> IF i = 0 THEN 0 ELSE f[i - 1] ^^ x[i]]
           step == [i \in Index |-> [z \in Word |-> z ^^ x[i]]]
           W == bit_per_word  K == num_word  n == Val(x)  N == num_bit
           bits == [i \in 0 .. W * K - 1 |-> BitOf(n, i)]
<1>1. W \in Nat \ {0} /\ K \in Nat \ {0} /\ N \in 1 .. W * K
  BY Sizes, Places
<1>2. B \in Nat \ {0} /\ B = 2^W /\ Word \subseteq Nat /\ 0 \in Word
  <2>1. B \in Nat \ {0} /\ B = 2^W
    BY Weights
  <2> QED BY <2>1 DEF Word
<1>3. \A i \in Index : x[i] \in Word
  BY DEF Vint, Index
<1>4. ASSUME NEW a \in Word, NEW b \in Word PROVE Combines(a ^^ b, W, Xor, a, b) /\ (a ^^ b) \in Word
  <2>1. W \in Nat /\ a \in Nat /\ b \in Nat /\ Xor \in Tables
    BY <1>1, <1>2, TablesAre
  <2>2. Combines(Bitwise(W, Xor, a, b), W, Xor, a, b)
    BY <2>1, BitwiseIs
  <2>3. (a ^^ b) = Bitwise(W, Xor, a, b)
    BY DEF ^^
  <2>4. Combines(a ^^ b, W, Xor, a, b)
    BY <2>2, <2>3
  <2> QED BY <1>2, <2>4 DEF Combines, Word
<1>5. PICK g \in [0 .. K -> Word] : RecursionOf(g, K, 0, step)
  <2>1. step \in [1 .. K -> [Word -> Word]]
    BY <1>3, <1>4 DEF Index
  <2> HIDE DEF step
  <2> QED BY <1>1, <1>2, <2>1, Recursion
<1>6. g[0] = 0 /\ \A i \in Index : g[i] = g[i - 1] ^^ x[i]
  <2>1. \A i \in Index : i - 1 \in 0 .. K /\ i \in 1 .. K
    BY <1>1 DEF Index
  <2>2. \A i \in Index, z \in Word : step[i][z] = z ^^ x[i]
    OBVIOUS
  <2> HIDE DEF step
  <2>3. g[0] = 0 /\ \A i \in 1 .. K : g[i] = step[i][g[i - 1]]
    BY <1>5 DEF RecursionOf
  <2> QED BY <2>1, <2>2, <2>3
<1> HIDE DEF step
<1>7. Solves(g)
  <2>1. ASSUME NEW i \in 0 .. num_word PROVE g[i] = IF i = 0 THEN 0 ELSE g[i - 1] ^^ x[i]
    <3>1. i = 0 \/ i \in Index
      BY <1>1 DEF Index
    <3>2. 0 \notin Index
      BY <1>1 DEF Index
    <3> QED BY <1>6, <3>1, <3>2
  <2> QED BY <1>5, <2>1
<1> DEFINE ret == CHOOSE f : Solves(f)
<1>8. Solves(ret)
  BY <1>7
<1>9. ReduceXor(x) = (popcount(ret[K]) % 2 = 1)
  BY DEF ReduceXor
<1> HIDE DEF ret
<1>10. \A i \in 0 .. K : ret[i] = IF i = 0 THEN 0 ELSE ret[i - 1] ^^ x[i]
  BY <1>8
<1>11. ret[0] = 0 /\ \A i \in Index : ret[i] = ret[i - 1] ^^ x[i]
  <2>1. 0 \in 0 .. K /\ \A i \in Index : i \in 0 .. K /\ i # 0
    BY <1>1 DEF Index
  <2> QED BY <1>10, <2>1
<1>12. \A w : popcount(w) = Ones(W, w)
  BY DEF popcount, Ones
<1>13. W * K \in Nat /\ n \in Nat /\ N \in Nat
  BY <1>1, ValFits
<1>14. \A i \in 0 .. W * K - 1 : bits[i] = BitOf(n, i) /\ bits[i] \in {0, 1} /\ bits[i] \in Int
  BY <1>13, BitRange
<1> HIDE DEF bits
<1> DEFINE S == {k \in Nat : k <= K => /\ ret[k] \in Word
                                       /\ Total(W * k, bits) % 2 = Ones(W, ret[k]) % 2}
<1>15. 0 \in S
  <2>1. W * 0 = 0 /\ Total(0, bits) = 0
    BY <1>1, <1>13, <1>14, TotalStep
  <2>2. \A i \in 0 .. W - 1 : BitOf(0, i) = 0
    <3> TAKE i \in 0 .. W - 1
    <3>1. 2^0 = 1
      OBVIOUS
    <3>2. 0 \in 0 .. 2^0 - 1 /\ 0 \in Nat /\ i \in Nat /\ i >= 0
      BY <1>1, <3>1
    <3> QED BY <3>2, BitsBeyond
  <2>3. Combines(0, W, Xor, 0, 0)
    <3>1. 0 \in 0 .. 2^W - 1
      BY <1>2 DEF Word
    <3> QED BY <2>2, <3>1, TablesAre DEF Combines
  <2>4. Ones(W, 0) % 2 = (Ones(W, 0) + Ones(W, 0)) % 2 /\ Ones(W, 0) \in Int
    <3>1. W \in Nat /\ 0 \in Nat /\ 0 \in Int
      BY <1>1
    <3>2. Ones(W, 0) \in 0 .. W
      BY <3>1, OnesCount
    <3> QED BY <2>3, <3>1, <3>2, XorParity
  <2> DEFINE o == Ones(W, 0)
  <2> HIDE DEF o
  <2>5. o % 2 = (o + o) % 2 /\ o \in Int
    BY <2>4 DEF o
  <2>6. o % 2 = 0
    BY <2>5
  <2> QED BY <1>2, <1>11, <2>1, <2>6 DEF o
<1>16. ASSUME NEW k \in Nat, k \in S PROVE k + 1 \in S
  <2> SUFFICES ASSUME k + 1 <= K
               PROVE  /\ ret[k + 1] \in Word
                      /\ Total(W * (k + 1), bits) % 2 = Ones(W, ret[k + 1]) % 2
    OBVIOUS
  <2> DEFINE w == x[k + 1]  m == W * k
  <2>1. k \in 0 .. K - 1 /\ k + 1 \in Index /\ (k + 1) - 1 = k
    BY <1>1 DEF Index
  <2>2. ret[k] \in Word /\ Total(m, bits) % 2 = Ones(W, ret[k]) % 2
    <3>1. k <= K
      BY <1>1
    <3> QED BY <1>16, <3>1, Zenon
  <2>3. w \in Word /\ ret[k + 1] = ret[k] ^^ w
    BY <1>3, <1>11, <2>1
  <2>4. Combines(ret[k + 1], W, Xor, ret[k], w) /\ ret[k + 1] \in Word
    BY <1>4, <2>2, <2>3
  <2>5. W \in Nat /\ ret[k] \in Nat /\ w \in Nat
    BY <1>1, <1>2, <2>2, <2>3
  <2>6. Ones(W, ret[k + 1]) % 2 = (Ones(W, ret[k]) + Ones(W, w)) % 2
    BY <2>4, <2>5, XorParity
  <2>7. m \in Nat /\ W * (k + 1) = m + W /\ m + W <= W * K
    <3> HIDE DEF W
    <3>1. W * k \in Nat /\ W * (k + 1) = W * k + W
      BY <1>1
    <3>2. W * (k + 1) <= W * K
      BY <1>1
    <3> QED BY <3>1, <3>2
  <2>8. Total(m + W, bits) = Total(m, bits) + Ones(W, w)
    <3> DEFINE b == [j \in 0 .. W - 1 |-> BitOf(w, j)]
    <3>1. \A j \in 0 .. W - 1 : b[j] = bits[m + j]
      <4> TAKE j \in 0 .. W - 1
      <4>1. W * k + j \in 0 .. W * K - 1
        BY <2>1, Places
      <4>2. BitOf(n, W * k + j) = BitOf(w, j)
        BY <2>1, ValBits
      <4>3. bits[m + j] = BitOf(n, W * k + j)
        BY <1>14, <4>1
      <4> QED BY <4>2, <4>3
    <3>2. \A i \in 0 .. m + W - 1 : bits[i] \in Int
      <4>1. \A i \in 0 .. m + W - 1 : i \in 0 .. W * K - 1
        <5> DEFINE q == W * K
        <5>1. q \in Nat /\ m + W <= q
          BY <1>13, <2>7
        <5> HIDE DEF q, m
        <5>2. \A i \in 0 .. m + W - 1 : i \in 0 .. q - 1
          BY <2>5, <2>7, <5>1
        <5> QED BY <5>2 DEF q
      <4> QED BY <1>14, <4>1
    <3> HIDE DEF b, m
    <3>3. Total(m + W, bits) = Total(m, bits) + Total(W, b)
      BY <2>5, <2>7, <3>1, <3>2, TotalSplit
    <3> QED BY <3>3 DEF b, Ones
  <2>9. Total(m, bits) \in Int /\ Ones(W, w) \in Int /\ Ones(W, ret[k]) \in Int
    <3>1. Ones(W, w) \in 0 .. W /\ Ones(W, ret[k]) \in 0 .. W
      <4>1. w \in Int /\ ret[k] \in Int
        BY <2>5
      <4> QED BY <2>5, <4>1, OnesCount
    <3>2. m \in 0 .. W * K
      <4> DEFINE q == W * K
      <4> HIDE DEF q, m
      <4>1. q \in Nat /\ m + W <= q
        BY <1>13, <2>7 DEF q
      <4>2. m \in 0 .. q
        BY <2>5, <2>7, <4>1
      <4> QED BY <4>2 DEF q
    <3>3. Total(m, bits) \in Int
      <4> HIDE DEF m
      <4> QED BY <1>13, <1>14, <3>2, TotalStep
    <3> QED BY <3>1, <3>3
  <2> DEFINE t == Total(m, bits)  o == Ones(W, ret[k])  p == Ones(W, w)
  <2>10. t % 2 = o % 2 /\ t \in Int /\ o \in Int /\ p \in Int
    BY <2>2, <2>9
  <2>11. Total(W * (k + 1), bits) = t + p /\ Ones(W, ret[k + 1]) % 2 = (o + p) % 2
    BY <2>6, <2>7, <2>8
  <2> HIDE DEF t, o, p
  <2>12. (t + p) % 2 = (o + p) % 2
    BY <2>10
  <2> QED BY <2>4, <2>11, <2>12
<1> HIDE DEF S
<1>17. K \in S
  BY <1>1, <1>15, <1>16, Induct
<1>18. Total(W * K, bits) % 2 = Ones(W, ret[K]) % 2
  BY <1>1, <1>17 DEF S
<1>19. Total(W * K, bits) = Ones(N, n)
  <2> DEFINE d == W * K - N  rest == [j \in 0 .. d - 1 |-> bits[N + j]]
  <2>1. d \in Nat /\ N + d = W * K
    <3> DEFINE q == W * K
    <3>1. q \in Nat /\ N \in 1 .. q
      BY <1>1, <1>13
    <3> HIDE DEF q, N
    <3>2. q - N \in Nat /\ N + (q - N) = q
      BY <3>1
    <3> QED BY <3>2 DEF q
  <2> HIDE DEF d
  <2>2. \A j \in 0 .. d - 1 : rest[j] = bits[N + j]
    OBVIOUS
  <2>3. \A j \in 0 .. d - 1 : rest[j] = 0
    <3> TAKE j \in 0 .. d - 1
    <3>1. N + j \in 0 .. W * K - 1 /\ N + j \in Nat /\ N + j >= N
      <4> DEFINE q == W * K
      <4>1. q \in Nat /\ N + d = q
        BY <1>13, <2>1
      <4> HIDE DEF q, N
      <4>2. N \in Nat
        BY <1>13 DEF N
      <4>3. N + j \in 0 .. q - 1 /\ N + j \in Nat /\ N + j >= N
        BY <2>1, <4>1, <4>2
      <4> QED BY <4>3 DEF q
    <3>2. n \in 0 .. 2^N - 1
      <4> DEFINE M == 2^N
      <4>1. M \in Nat /\ n < M
        BY Weights
      <4> HIDE DEF M, n
      <4>2. n \in 0 .. M - 1
        BY <1>13, <4>1
      <4> QED BY <4>2 DEF M
    <3>3. BitOf(n, N + j) = 0
      BY <1>13, <3>1, <3>2, BitsBeyond
    <3> QED BY <1>14, <2>2, <3>1, <3>3
  <2> HIDE DEF rest
  <2>4. Total(W * K, bits) = Total(N, bits) + Total(d, rest)
    <3>1. \A i \in 0 .. N + d - 1 : bits[i] \in Int
      <4> DEFINE q == W * K
      <4>1. N + d = q /\ \A i \in 0 .. q - 1 : bits[i] \in Int
        BY <1>14, <2>1
      <4> HIDE DEF q
      <4> QED BY <1>13, <2>1, <4>1
    <3>2. Total(N + d, bits) = Total(N, bits) + Total(d, rest)
      BY <1>13, <2>1, <2>2, <3>1, TotalSplit
    <3> QED BY <2>1, <3>2
  <2>5. Total(d, rest) = 0
    <3>1. \A j \in 0 .. d - 1 : rest[j] \in Int /\ rest[j] = 0
      BY <2>3
    <3>2. Total(0, rest) = 0 /\ \A m \in 0 .. d - 1 : Total(m + 1, rest) = Total(m, rest) + rest[m]
      BY <2>1, <3>1, TotalStep
    <3> DEFINE Q == {m \in Nat : m <= d => Total(m, rest) = 0}
    <3>3. 0 \in Q
      BY <3>2
    <3>4. ASSUME NEW m \in Nat, m \in Q PROVE m + 1 \in Q
      <4> SUFFICES ASSUME m + 1 <= d PROVE Total(m + 1, rest) = 0
        OBVIOUS
      <4>1. m \in 0 .. d - 1 /\ Total(m, rest) = 0
        BY <2>1, <3>4
      <4> QED BY <3>1, <3>2, <4>1
    <3> HIDE DEF Q
    <3>5. d \in Q
      BY <2>1, <3>3, <3>4, Induct
    <3> QED BY <2>1, <3>5 DEF Q
  <2>6. Total(N, bits) = Ones(N, n) /\ Total(N, bits) \in Int
    <3> DEFINE c == [i \in 0 .. N - 1 |-> BitOf(n, i)]
    <3>1. \A i \in 0 .. N - 1 : i \in 0 .. W * K - 1
      <4> DEFINE q == W * K
      <4>1. q \in Nat /\ N \in 1 .. q
        BY <1>1, <1>13
      <4> HIDE DEF q, N
      <4>2. \A i \in 0 .. N - 1 : i \in 0 .. q - 1
        BY <4>1
      <4> QED BY <4>2 DEF q
    <3>2. \A i \in 0 .. N - 1 : bits[i] \in Int /\ c[i] = bits[i]
      BY <1>14, <3>1
    <3> HIDE DEF c
    <3>3. Total(N, bits) = Total(N, c)
      BY <1>13, <3>2, TotalSame
    <3>4. N \in 0 .. N
      BY <1>13
    <3>5. Total(N, bits) \in Int
      BY <1>13, <3>2, <3>4, TotalStep
    <3> QED BY <3>3, <3>5 DEF c, Ones
  <2> QED BY <2>4, <2>5, <2>6
<1> QED BY <1>9, <1>12, <1>18, <1>19

(* The observers see all the bits of the number and no others. *)
THEOREM Observers == Spec => []ObserversAgree
<1>1. TypeOK => ObserversAgree
  <2> SUFFICES ASSUME TypeOK PROVE ObserversAgree
    OBVIOUS
  <2>1. type \in Types /\ v \in Vint /\ Val(v) < 2^num_bit
    BY DEF TypeOK
  <2>2. /\ ToBool(v) = (Val(v) # 0)
        /\ ReduceAnd(v) = (Ones(num_bit, Val(v)) = num_bit)
        /\ ReduceXor(v) = (Ones(num_bit, Val(v)) % 2 = 1)
        /\ IsNegative(v) = (is_signed /\ 2 * Val(v) >= 2^num_bit)
        /\ \A i \in Positions : GetBit(v, i) = (BitOf(Val(v), i) = 1)
    BY <2>1, ToBoolIs, ReduceAndIs, ReduceXorIs, IsNegativeIs, GetBitIs
  <2>3. Total(num_bit, [i \in Positions |-> BitOf(Val(v), i)]) = Ones(num_bit, Val(v))
    BY DEF Positions, Ones
  <2> QED BY <2>2, <2>3 DEF ObserversAgree
<1> QED BY <1>1, TypeCorrect, PTL

-----------------------------------------------------------------------------
(* The array of uint64_t that a string is parsed into. *)

(* The array has the words of the vint, if there are several, and its one   *)
(* word has at least the bits of the vint's.                                *)
LEMMA ArraySizes ==
    ASSUME type \in Types
    PROVE  /\ bit_per_u64 \in Nat \ {0} /\ num_u64 = num_word /\ num_u64 \in Nat \ {0}
           /\ Multiple(2^bit_per_u64, B)
           /\ is_multi_word => bit_per_word = bit_per_u64
<1> DEFINE W == bit_per_word  N == num_bit  K == num_word  V == bit_per_u64
<1>1. W \in Nat \ {0} /\ N \in Nat \ {0} /\ K \in Nat \ {0} /\ V \in Nat \ {0}
  BY Sizes, ParseAssumption
<1>2. W = V \/ (N <= W /\ W < V)
  BY ParseAssumption DEF bit_per_word, num_bit
<1>3. K = (N + W - 1) \div W /\ num_u64 = (N + V - 1) \div V
  BY DEF num_word, num_u64
<1> HIDE DEF W, N, K, V
<1>4. CASE W = V
  <2>1. num_u64 = K
    BY <1>3, <1>4
  <2>2. Multiple(2^V, 2^W)
    BY <1>1, <1>4, PowerMultiple
  <2> QED BY <1>1, <1>4, <2>1, <2>2 DEF K, V, W, B
<1>5. CASE N <= W /\ W < V
  <2>1. N + W - 1 = 1 * W + (N - 1) /\ N - 1 \in 0 .. W - 1
    BY <1>1, <1>5
  <2>2. K = 1
    BY <1>1, <1>3, <2>1, DivUnique
  <2>3. N + V - 1 = 1 * V + (N - 1) /\ N - 1 \in 0 .. V - 1
    BY <1>1, <1>5
  <2>4. num_u64 = 1
    BY <1>1, <1>3, <2>3, DivUnique
  <2>5. ~is_multi_word
    BY <2>2 DEF K, is_multi_word
  <2>6. Multiple(2^V, 2^W)
    BY <1>1, <1>5, PowerMultiple
  <2> QED BY <1>1, <2>2, <2>4, <2>5, <2>6 DEF K, V, W, B
<1> QED BY <1>2, <1>4, <1>5

(* What the words of the array count for. *)
LEMMA ArrayWeights ==
    ASSUME type \in Types
    PROVE  /\ 2^bit_per_u64 \in Nat \ {0} /\ WeightU64(0) = 1
           /\ \A k \in Nat : /\ WeightU64(k) \in Nat \ {0}
                             /\ WeightU64(k + 1) = WeightU64(k) * 2^bit_per_u64
           /\ Multiple(WeightU64(num_u64), 2^num_bit)
           /\ is_multi_word => \A k : WeightU64(k) = Weight(k)
           /\ ~is_multi_word => WeightU64(num_u64) = 2^bit_per_u64
<1> DEFINE V == bit_per_u64  K == num_u64
<1>1. V \in Nat \ {0} /\ K \in Nat \ {0} /\ K = num_word
  BY ArraySizes
<1>2. 2^V \in Nat \ {0}
  BY <1>1, TwoPositive
<1>3. ASSUME NEW k \in Nat PROVE WeightU64(k) \in Nat \ {0} /\ WeightU64(k + 1) = WeightU64(k) * 2^V
  <2> HIDE DEF V
  <2>1. V * k \in Nat /\ V * (k + 1) = V * k + V
    BY <1>1
  <2>2. 2^(V * k + V) = 2^(V * k) * 2^V
    BY <1>1, <2>1, TwoSum
  <2> QED BY <2>1, <2>2, TwoPositive DEF WeightU64, V
<1>4. WeightU64(0) = 1
  <2>1. V * 0 = 0 /\ 2^0 = 1
    BY <1>1
  <2> QED BY <2>1 DEF WeightU64
<1>5. is_multi_word => \A k : WeightU64(k) = Weight(k)
  BY ArraySizes DEF WeightU64, Weight
<1>6. ~is_multi_word => WeightU64(K) = 2^V
  <2> SUFFICES ASSUME ~is_multi_word PROVE WeightU64(K) = 2^V
    OBVIOUS
  <2>1. K = 1
    BY <1>1 DEF is_multi_word
  <2>2. V * 1 = V
    BY <1>1
  <2> QED BY <2>1, <2>2 DEF WeightU64
<1>7. Multiple(WeightU64(K), 2^num_bit)
  <2>1. CASE is_multi_word
    BY <1>1, <1>5, <2>1, Weights
  <2>2. CASE ~is_multi_word
    <3>1. num_bit \in Nat /\ num_bit <= V
      <4>1. num_word = 1
        BY <1>1, <2>2 DEF is_multi_word
      <4> DEFINE W == bit_per_word  N == num_bit
      <4>2. W \in Nat \ {0} /\ N \in Nat \ {0} /\ used \in 1 .. W /\ N = W * (1 - 1) + used
        BY <4>1, Sizes
      <4>3. W = V \/ (N <= W /\ W < V)
        BY ParseAssumption DEF bit_per_word, num_bit
      <4> HIDE DEF W, N, V
      <4>4. W * (1 - 1) = 0
        BY <4>2
      <4>5. N <= W
        BY <4>2, <4>4
      <4>6. N <= V
        BY <1>1, <4>2, <4>3, <4>5
      <4> QED BY <4>2, <4>6 DEF N
    <3>2. Multiple(2^V, 2^num_bit)
      BY <1>1, <3>1, PowerMultiple
    <3> QED BY <1>6, <2>2, <3>2
  <2> QED BY <2>1, <2>2
<1> QED BY <1>2, <1>3, <1>4, <1>5, <1>6, <1>7

(* The number an array is, and an array of words. *)
ArraySum(p) == Total(num_u64, [i \in 0 .. num_u64 - 1 |-> p[i + 1] * WeightU64(i)])
HasWords(p) == \A i \in 1 .. num_u64 : p[i] \in U64

(* As words of a vint of several words. *)
AsWords(p)  == [i \in Index |-> p[i]]

(* An array is the number of a vint of several words, or its one word. *)
LEMMA ArrayIs ==
    ASSUME type \in Types, NEW p, HasWords(p)
    PROVE  /\ is_multi_word => AsWords(p) \in Vint /\ ArraySum(p) = Val(AsWords(p))
           /\ ~is_multi_word => ArraySum(p) = p[1]
           /\ ArraySum(p) \in 0 .. WeightU64(num_u64) - 1
           /\ WeightU64(num_u64) \in Nat \ {0}
<1>1. num_u64 \in Nat \ {0} /\ num_u64 = num_word /\ Index = 1 .. num_u64
  BY ArraySizes DEF Index
<1>2. 2^bit_per_u64 \in Nat \ {0} /\ WeightU64(0) = 1 /\ WeightU64(num_u64) \in Nat \ {0}
  BY <1>1, ArrayWeights
<1>3. CASE is_multi_word
  <2>1. bit_per_word = bit_per_u64
    BY <1>3, ArraySizes
  <2>2. B = 2^bit_per_u64 /\ U64 = Word
    BY <2>1 DEF B, U64, Word
  <2>3. \A k : WeightU64(k) = Weight(k)
    BY <2>1 DEF WeightU64, Weight
  <2>4. AsWords(p) \in Vint
    BY <1>1, <2>2 DEF HasWords, AsWords, Vint
  <2>5. \A i \in 0 .. num_u64 - 1 : p[i + 1] = AsWords(p)[i + 1]
    <3>1. \A i \in 0 .. num_u64 - 1 : i + 1 \in Index
      BY <1>1
    <3> QED BY <3>1 DEF AsWords
  <2>6. [i \in 0 .. num_u64 - 1 |-> p[i + 1] * WeightU64(i)]
          = [i \in 0 .. num_word - 1 |-> AsWords(p)[i + 1] * Weight(i)]
    BY <1>1, <2>3, <2>5
  <2>7. ArraySum(p) = Val(AsWords(p))
    BY <1>1, <2>6 DEF ArraySum, Val
  <2>8. ArraySum(p) \in 0 .. WeightU64(num_u64) - 1
    BY <1>1, <2>3, <2>4, <2>7, ValFits
  <2> QED BY <1>2, <1>3, <2>4, <2>7, <2>8
<1>4. CASE ~is_multi_word
  <2>1. num_u64 = 1 /\ WeightU64(num_u64) = 2^bit_per_u64
    <3>1. num_u64 = 1
      BY <1>1, <1>4 DEF is_multi_word
    <3> QED BY <1>4, <3>1, ArrayWeights
  <2> DEFINE term == [i \in 0 .. num_u64 - 1 |-> p[i + 1] * WeightU64(i)]
  <2>2. p[1] \in 0 .. 2^bit_per_u64 - 1
    BY <2>1 DEF HasWords, U64
  <2>3. term[0] = p[1]
    <3>1. 0 \in 0 .. num_u64 - 1
      BY <2>1
    <3>2. term[0] = p[0 + 1] * WeightU64(0)
      BY <3>1
    <3> QED BY <1>2, <2>2, <3>2
  <2>4. ArraySum(p) = Total(num_u64, term)
    BY DEF ArraySum
  <2>5. \A i \in 0 .. num_u64 - 1 : i = 0
    BY <2>1
  <2> HIDE DEF term
  <2>6. \A i \in 0 .. num_u64 - 1 : term[i] \in Int
    BY <1>2, <2>2, <2>3, <2>5
  <2>7. 0 \in 0 .. num_u64 - 1 /\ 0 + 1 = num_u64
    BY <2>1
  <2>8. Total(0, term) = 0 /\ Total(0 + 1, term) = Total(0, term) + term[0]
    BY <1>1, <2>6, <2>7, TotalStep
  <2>9. ArraySum(p) = p[1]
    BY <1>2, <2>2, <2>3, <2>4, <2>7, <2>8
  <2> QED BY <1>2, <1>4, <2>1, <2>2, <2>9
<1> QED BY <1>3, <1>4

(* mpz_export leaves the number, but for what the array cannot hold. *)
LEMMA ExportIs ==
    ASSUME type \in Types, NEW n \in Nat
    PROVE  /\ HasWords(Export(n))
           /\ ArraySum(Export(n)) = n % WeightU64(num_u64)
<1> DEFINE p == Export(n)  M == 2^bit_per_u64
<1>1. num_u64 \in Nat \ {0} /\ num_u64 = num_word /\ Index = 1 .. num_u64
  BY ArraySizes DEF Index
<1>2. M \in Nat \ {0} /\ WeightU64(0) = 1 /\ \A k \in Nat : WeightU64(k) \in Nat \ {0}
  BY ArrayWeights
<1>3. \A i \in 1 .. num_u64 : p[i] = (n \div WeightU64(i - 1)) % M
  <2>1. \A i \in 1 .. num_u64 : i \in Memory /\ i <= num_u64
    BY <1>1, ParseAssumption DEF Memory
  <2> QED BY <2>1 DEF Export
<1>4. HasWords(p)
  <2> SUFFICES ASSUME NEW i \in 1 .. num_u64 PROVE p[i] \in U64
    BY DEF HasWords
  <2> DEFINE w == WeightU64(i - 1)
  <2>1. w \in Nat \ {0}
    BY <1>1, <1>2
  <2> HIDE DEF w, M
  <2>2. (n \div w) % M \in 0 .. M - 1
    BY <1>2, <2>1
  <2> QED BY <1>3, <2>2 DEF U64, M, w
<1> HIDE DEF p
<1>5. CASE is_multi_word
  <2>1. bit_per_word = bit_per_u64
    BY <1>5, ArraySizes
  <2>2. M = B /\ \A k : WeightU64(k) = Weight(k)
    BY <2>1 DEF B, WeightU64, Weight
  <2>3. AsWords(p) = Words(n)
    BY <1>1, <1>3, <2>2 DEF AsWords, Words
  <2>4. Val(Words(n)) = n % Weight(num_word)
    BY ValWords
  <2>5. ArraySum(p) = Val(AsWords(p))
    BY <1>4, <1>5, ArrayIs
  <2>6. ArraySum(p) = n % WeightU64(num_u64)
    BY <1>1, <2>2, <2>3, <2>4, <2>5
  <2> QED BY <1>4, <2>6 DEF p
<1>6. CASE ~is_multi_word
  <2>1. WeightU64(num_u64) = M
    BY <1>6, ArrayWeights
  <2>2. 1 \in 1 .. num_u64 /\ WeightU64(1 - 1) = 1
    BY <1>1, <1>2
  <2>3. n \div 1 = n
    OBVIOUS
  <2>4. p[1] = n % M
    BY <1>3, <2>2, <2>3
  <2>5. ArraySum(p) = p[1]
    BY <1>4, <1>6, ArrayIs
  <2> QED BY <1>4, <2>1, <2>4, <2>5 DEF p
<1> QED BY <1>5, <1>6

(* The carries over the complement of an array. *)
NegCarry(p) ==
    LET carry[i \in 0 .. num_u64] ==
            IF i = 0 THEN 1 ELSE (2^bit_per_u64 - 1 - p[i] + carry[i - 1]) \div 2^bit_per_u64
    IN carry

LEMMA NegCarryIs ==
    ASSUME type \in Types, NEW p, HasWords(p)
    PROVE  /\ NegCarry(p)[0] = 1
           /\ \A i \in 1 .. num_u64 :
                 /\ NegCarry(p)[i] = (2^bit_per_u64 - 1 - p[i] + NegCarry(p)[i - 1]) \div 2^bit_per_u64
                 /\ NegCarry(p)[i - 1] \in Int
<1> DEFINE M == 2^bit_per_u64  K == num_u64
           Solves(f) == f = [i \in 0 .. K |->
                                IF i = 0 THEN 1 ELSE (M - 1 - p[i] + f[i - 1]) \div M]
           step == [i \in 1 .. K |-> [z \in Int |-> (M - 1 - p[i] + z) \div M]]
<1>1. K \in Nat \ {0} /\ M \in Nat \ {0}
  BY ArraySizes, ArrayWeights
<1>2. \A i \in 1 .. K : p[i] \in Int
  BY <1>1 DEF HasWords, U64
<1>a. NegCarry(p) = CHOOSE f : Solves(f)
  BY DEF NegCarry
<1> HIDE DEF M, K
<1>3. \A i \in 1 .. K, z \in Int : (M - 1 - p[i] + z) \div M \in Int
  BY <1>1, <1>2
<1>4. step \in [1 .. K -> [Int -> Int]] /\ 1 \in Int
  BY <1>3
<1>5. \A i \in 1 .. K, z \in Int : step[i][z] = (M - 1 - p[i] + z) \div M
  OBVIOUS
<1> HIDE DEF step
<1>6. PICK g \in [0 .. K -> Int] : RecursionOf(g, K, 1, step)
  BY <1>1, <1>4, Recursion
<1>7. g[0] = 1 /\ \A i \in 1 .. K : g[i] = (M - 1 - p[i] + g[i - 1]) \div M
  <2>1. \A i \in 1 .. K : i - 1 \in 0 .. K
    BY <1>1
  <2> QED BY <1>5, <1>6, <2>1 DEF RecursionOf
<1>8. Solves(g)
  <2>1. ASSUME NEW i \in 0 .. K
        PROVE  g[i] = IF i = 0 THEN 1 ELSE (M - 1 - p[i] + g[i - 1]) \div M
    <3>1. i = 0 \/ i \in 1 .. K
      BY <1>1
    <3>2. 0 \notin 1 .. K
      BY <1>1
    <3> QED BY <1>7, <3>1, <3>2
  <2> QED BY <1>6, <2>1
<1> DEFINE f == CHOOSE h : Solves(h)
<1>9. Solves(f)
  BY <1>8
<1> HIDE DEF f
<1>10. \A i \in 0 .. K : f[i] = IF i = 0 THEN 1 ELSE (M - 1 - p[i] + f[i - 1]) \div M
  BY <1>9
<1>11. f[0] = 1 /\ \A i \in 1 .. K : f[i] = (M - 1 - p[i] + f[i - 1]) \div M
  <2>1. 0 \in 0 .. K /\ \A i \in 1 .. K : i \in 0 .. K /\ i # 0
    BY <1>1
  <2> QED BY <1>10, <2>1
<1> DEFINE S == {i \in Nat : i <= K => f[i] \in Int}
<1>12. 0 \in S
  BY <1>11
<1>13. ASSUME NEW i \in Nat, i \in S PROVE i + 1 \in S
  <2> SUFFICES ASSUME i + 1 <= K PROVE f[i + 1] \in Int
    OBVIOUS
  <2>1. i + 1 \in 1 .. K /\ (i + 1) - 1 = i /\ f[i] \in Int
    BY <1>1, <1>13
  <2>2. f[i + 1] = (M - 1 - p[i + 1] + f[i]) \div M
    BY <1>11, <2>1
  <2> QED BY <1>3, <2>1, <2>2
<1> HIDE DEF S
<1>14. Nat \subseteq S
  BY <1>12, <1>13, Induct
<1>15. \A i \in 1 .. K : f[i - 1] \in Int
  <2>1. \A i \in 1 .. K : i - 1 \in Nat /\ i - 1 <= K
    BY <1>1
  <2> QED BY <1>14, <2>1 DEF S
<1>16. NegCarry(p) = f
  BY <1>a DEF f
<1> QED BY <1>11, <1>15, <1>16 DEF M, K

(* The two's complement of an array is its negation. *)
LEMMA TwosComplementIs ==
    ASSUME type \in Types, NEW p, HasWords(p)
    PROVE  /\ HasWords(TwosComplement(p))
           /\ ArraySum(TwosComplement(p)) = (-ArraySum(p)) % WeightU64(num_u64)
<1> DEFINE q == TwosComplement(p)  M == 2^bit_per_u64  K == num_u64  f == NegCarry(p)
           m == WeightU64(K)
<1>1. K \in Nat \ {0} /\ K = num_word /\ Index = 1 .. K
  BY ArraySizes DEF Index
<1>2. M \in Nat \ {0} /\ m \in Nat \ {0}
  BY <1>1, ArrayWeights
<1>3. \A i \in 1 .. K : p[i] \in 0 .. M - 1
  BY DEF HasWords, U64
<1>4. \A i \in 1 .. K : q[i] = (M - 1 - p[i] + f[i - 1]) % M
  <2>1. \A i \in 1 .. K : i \in Memory /\ i <= K
    BY <1>1, ParseAssumption DEF Memory
  <2> QED BY <2>1 DEF TwosComplement, NegCarry
<1>5. /\ f[0] = 1
      /\ \A i \in 1 .. K : f[i] = (M - 1 - p[i] + f[i - 1]) \div M /\ f[i - 1] \in Int
  BY NegCarryIs
<1>a. HasWords(q)
  <2> SUFFICES ASSUME NEW i \in 1 .. K PROVE q[i] \in 0 .. M - 1
    BY DEF HasWords, U64
  <2> HIDE DEF q, M, K, f
  <2> DEFINE n == M - 1 - p[i] + f[i - 1]
  <2>1. n \in Int
    BY <1>2, <1>3, <1>5
  <2> HIDE DEF n
  <2>2. n % M \in 0 .. M - 1
    BY <1>2, <2>1
  <2> QED BY <1>4, <2>2 DEF n
<1> HIDE DEF q
<1>6. CASE is_multi_word
  <2> DEFINE x == AsWords(p)  y == [i \in Index |-> B - 1 - x[i]]  c == Carry(y, Low(0), 1)
  <2>1. bit_per_word = bit_per_u64
    BY <1>6, ArraySizes
  <2>2. M = B /\ m = Weight(num_word)
    BY <1>1, <2>1 DEF B, WeightU64, Weight
  <2>3. x \in Vint /\ ArraySum(p) = Val(x) /\ AsWords(q) \in Vint /\ ArraySum(q) = Val(AsWords(q))
    BY <1>6, <1>a, ArrayIs
  <2>4. y \in Vint /\ Val(y) = Weight(num_word) - 1 - Val(x)
    <3> HIDE DEF x
    <3> QED BY <2>3, Complement
  <2>5. \A i \in Index : y[i] = M - 1 - p[i]
    BY <1>1, <2>2 DEF AsWords
  <2>6. Low(0) \in Vint /\ Val(Low(0)) = 0 /\ \A i \in Index : Low(0)[i] = 0
    <3>1. 0 \in Word
      BY <1>2, <2>2 DEF Word
    <3> QED BY <3>1, LowVal DEF Low
  <2> HIDE DEF x, y
  <2>7. c[0] = 1 /\ \A i \in Index : c[i] = (y[i] + Low(0)[i] + c[i - 1]) \div B
    BY <2>4, <2>6, CarryIs
  <2>8. \A i \in 0 .. K : c[i] \in {0, 1}
    BY <1>1, <2>4, <2>6, CarryIs
  <2> HIDE DEF c, f, M, K, m
  <2> DEFINE S == {i \in Nat : i <= K => f[i] = c[i]}
  <2>9. 0 \in S
    BY <1>5, <2>7
  <2>10. ASSUME NEW i \in Nat, i \in S PROVE i + 1 \in S
    <3> SUFFICES ASSUME i + 1 <= K PROVE f[i + 1] = c[i + 1]
      OBVIOUS
    <3>1. i + 1 \in 1 .. K /\ (i + 1) - 1 = i /\ f[i] = c[i] /\ i \in 0 .. K
      BY <1>1, <2>10
    <3>2. /\ f[i + 1] = (M - 1 - p[i + 1] + f[i]) \div M
          /\ c[i + 1] = (M - 1 - p[i + 1] + 0 + c[i]) \div M
      BY <1>1, <1>5, <2>2, <2>5, <2>6, <2>7, <3>1
    <3>3. M - 1 - p[i + 1] + 0 + c[i] = M - 1 - p[i + 1] + f[i]
      BY <1>2, <1>3, <2>8, <3>1
    <3> QED BY <3>2, <3>3
  <2> HIDE DEF S
  <2>11. Nat \subseteq S
    BY <2>9, <2>10, Induct
  <2>12. \A i \in 1 .. K : f[i - 1] = c[i - 1]
    <3>1. \A i \in 1 .. K : i - 1 \in Nat /\ i - 1 <= K
      BY <1>1
    <3> QED BY <2>11, <3>1 DEF S
  <2>13. AsWords(q) = Plus(y, Low(0), 1)
    <3>1. ASSUME NEW i \in Index
          PROVE  q[i] = (y[i] + Low(0)[i] + Carry(y, Low(0), 1)[i - 1]) % B
      <4>1. i \in 1 .. K /\ i - 1 \in 0 .. K
        BY <1>1
      <4>2. y[i] + Low(0)[i] + c[i - 1] = M - 1 - p[i] + f[i - 1]
        BY <1>1, <1>2, <1>3, <2>5, <2>6, <2>8, <2>12, <4>1
      <4> QED BY <1>4, <2>2, <4>1, <4>2 DEF c
    <3> QED BY <3>1 DEF AsWords, Plus
  <2>14. Congruent(Val(AsWords(q)), Val(y) + Val(Low(0)) + 1, m)
    BY <2>2, <2>4, <2>6, <2>13, PlusIs
  <2> DEFINE a == ArraySum(p)  b == ArraySum(q)
  <2>15. a \in 0 .. m - 1 /\ b \in 0 .. m - 1
    BY <1>a, ArrayIs DEF m, K
  <2>16. Congruent(b, m - a, m)
    <3>1. Val(y) + Val(Low(0)) + 1 = m - a
      BY <1>2, <2>2, <2>3, <2>4, <2>6, <2>15
    <3> QED BY <2>3, <2>14, <3>1
  <2> HIDE DEF a, b
  <2>17. b = (-a) % m
    <3>1. b % m = (m - a) % m
      BY <1>2, <2>15, <2>16, CongruentMod
    <3>2. (-a + 1 * m) % m = (-a) % m
      <4> DEFINE z == -a
      <4>1. z \in Int /\ 1 \in Int
        BY <2>15
      <4> HIDE DEF z
      <4>2. (z + 1 * m) % m = z % m
        BY <1>2, <4>1, ModPlusMultiple
      <4> QED BY <4>2 DEF z
    <3>3. -a + 1 * m = m - a /\ b % m = b
      BY <1>2, <2>15
    <3> QED BY <3>1, <3>2, <3>3
  <2> QED BY <1>a, <2>17 DEF a, b, m, K, q
<1>7. CASE ~is_multi_word
  <2>1. m = M
    BY <1>7, ArrayWeights
  <2>2. ArraySum(p) = p[1] /\ ArraySum(q) = q[1]
    BY <1>7, <1>a, ArrayIs
  <2>3. q[1] = (M - 1 - p[1] + 1) % M
    <3>1. 1 \in 1 .. K /\ f[1 - 1] = 1
      BY <1>1, <1>5
    <3> QED BY <1>4, <3>1
  <2>4. p[1] \in 0 .. M - 1
    BY <1>1, <1>3
  <2>5. (M - 1 - p[1] + 1) % M = (-p[1]) % M
    <3> DEFINE z == -p[1]
    <3> HIDE DEF M
    <3>1. M - 1 - p[1] + 1 = z + 1 * M /\ z \in Int /\ 1 \in Int
      BY <1>2, <2>4
    <3> HIDE DEF z
    <3>2. (z + 1 * M) % M = z % M
      BY <1>2, <3>1, ModPlusMultiple
    <3> QED BY <3>1, <3>2 DEF z
  <2> QED BY <1>a, <2>1, <2>2, <2>3, <2>5 DEF q
<1> QED BY <1>6, <1>7

(* A vint that takes an array takes its number. *)
LEMMA AssignStringIs ==
    ASSUME type \in Types, NEW p, HasWords(p), NEW z \in Int,
           ArraySum(p) = z % WeightU64(num_u64)
    PROVE  Is(AssignString(p), z % 2^num_bit)
<1> DEFINE x == [i \in Index |-> p[i] % B]  n == ArraySum(p)  m == WeightU64(num_u64)  N == 2^num_bit
<1>1. num_u64 \in Nat \ {0} /\ num_u64 = num_word /\ Index = 1 .. num_u64
  BY ArraySizes DEF Index
<1>2. B \in Nat \ {0} /\ m \in Nat \ {0} /\ N \in Nat \ {0} /\ n \in 0 .. m - 1 /\ Multiple(m, N)
  <2>1. B \in Nat \ {0} /\ N \in Nat \ {0}
    BY Weights
  <2> QED BY <2>1, ArrayIs, ArrayWeights
<1>3. x \in Vint
  <2>1. \A i \in 1 .. num_u64 : p[i] \in Int
    <3>1. 2^bit_per_u64 \in Int
      BY ArrayWeights
    <3> QED BY <3>1 DEF HasWords, U64
  <2>2. \A i \in Index : p[i] % B \in Word
    BY <1>1, <1>2, <2>1 DEF Word
  <2> QED BY <2>2 DEF Vint, Index
<1>4. n % N = z % N
  <2>1. n = z % m
    OBVIOUS
  <2> HIDE DEF n, m, N
  <2> QED BY <1>2, <2>1, ModOfMod
<1>5. Val(ClearUnusedBits(x)) = n % N /\ ClearUnusedBits(x) \in Vint
  <2>1. CASE is_multi_word
    <3>1. bit_per_word = bit_per_u64
      BY <2>1, ArraySizes
    <3>2. U64 = Word
      BY <3>1 DEF U64, Word, B
    <3>3. x = AsWords(p)
      <4>1. \A i \in Index : p[i] \in 0 .. B - 1
        BY <1>1, <3>2 DEF HasWords, Word
      <4>2. \A i \in Index : p[i] % B = p[i]
        BY <1>2, <4>1
      <4> QED BY <4>2 DEF AsWords
    <3>4. Val(x) = n
      BY <2>1, <3>3, ArrayIs
    <3> HIDE DEF x
    <3> QED BY <1>3, <3>4, ClearIs
  <2>2. CASE ~is_multi_word
    <3>1. n = p[1] /\ 1 \in Index
      BY <1>1, <2>2, ArrayIs
    <3>2. x[1] = n % B
      BY <3>1
    <3> HIDE DEF x
    <3>3. Val(x) = n % B
      BY <1>3, <2>2, <3>2, Single
    <3>4. Weight(num_word) = B
      BY <2>2, Single
    <3>5. Multiple(B, N)
      <4>1. num_word \in Nat
        BY <1>1
      <4> QED BY <3>4, <4>1, Weights
    <3>6. (n % B) % N = n % N
      <4>1. n \in Int
        BY <1>2
      <4> HIDE DEF n, N
      <4> QED BY <1>2, <3>5, <4>1, ModOfMod
    <3>7. ClearUnusedBits(x) \in Vint /\ Val(ClearUnusedBits(x)) = Val(x) % N
      BY <1>3, ClearIs
    <3> HIDE DEF n, N
    <3> QED BY <3>3, <3>6, <3>7
  <2> QED BY <2>1, <2>2
<1> QED BY <1>4, <1>5 DEF Is, AssignString

-----------------------------------------------------------------------------
(* Strings of digits, and what is made of a string. *)

(* What the conversion makes of digits, the highest first. *)
Horner(digits) ==
    LET value[i \in 0 .. Len(digits)] ==
            IF i = 0 THEN 0 ELSE base * value[i - 1] + DigitValue[digits[i]]
    IN value[Len(digits)]

(* The partial values of it. *)
Horners(g, digits) ==
    /\ g[0] = 0
    /\ \A i \in 1 .. Len(digits) : g[i] = base * g[i - 1] + DigitValue[digits[i]]

LEMMA HornerIs ==
    ASSUME NEW digits \in Seq(Digits)
    PROVE  \E g \in [0 .. Len(digits) -> Nat] : Horners(g, digits) /\ Horner(digits) = g[Len(digits)]
<1> DEFINE K == Len(digits)
           Solves(f) == f = [i \in 0 .. K |->
                                IF i = 0 THEN 0 ELSE base * f[i - 1] + DigitValue[digits[i]]]
           step == [i \in 1 .. K |-> [z \in Nat |-> base * z + DigitValue[digits[i]]]]
<1>1. K \in Nat /\ base \in Nat
  BY ParseAssumption
<1>2. \A i \in 1 .. K : DigitValue[digits[i]] \in Nat
  <2>1. \A i \in 1 .. K : digits[i] \in Digits
    OBVIOUS
  <2> QED BY <2>1, ParseAssumption
<1>a. Horner(digits) = (CHOOSE f : Solves(f))[K]
  BY DEF Horner
<1> HIDE DEF K
<1>3. \A i \in 1 .. K, z \in Nat : base * z + DigitValue[digits[i]] \in Nat
  BY <1>1, <1>2
<1>4. step \in [1 .. K -> [Nat -> Nat]] /\ 0 \in Nat
  BY <1>3
<1>5. \A i \in 1 .. K, z \in Nat : step[i][z] = base * z + DigitValue[digits[i]]
  OBVIOUS
<1> HIDE DEF step
<1>6. PICK g \in [0 .. K -> Nat] : RecursionOf(g, K, 0, step)
  BY <1>1, <1>4, Recursion
<1>7. g[0] = 0 /\ \A i \in 1 .. K : g[i] = base * g[i - 1] + DigitValue[digits[i]]
  <2>1. \A i \in 1 .. K : i - 1 \in 0 .. K
    BY <1>1
  <2> QED BY <1>5, <1>6, <2>1 DEF RecursionOf
<1>8. Solves(g)
  <2>1. ASSUME NEW i \in 0 .. K
        PROVE  g[i] = IF i = 0 THEN 0 ELSE base * g[i - 1] + DigitValue[digits[i]]
    <3>1. i = 0 \/ i \in 1 .. K
      BY <1>1
    <3>2. 0 \notin 1 .. K
      BY <1>1
    <3> QED BY <1>7, <3>1, <3>2
  <2> QED BY <1>6, <2>1
<1> DEFINE f == CHOOSE h : Solves(h)
<1>9. Solves(f)
  BY <1>8
<1> HIDE DEF f
<1>10. \A i \in 0 .. K : f[i] = IF i = 0 THEN 0 ELSE base * f[i - 1] + DigitValue[digits[i]]
  BY <1>9
<1>11. f[0] = 0 /\ \A i \in 1 .. K : f[i] = base * f[i - 1] + DigitValue[digits[i]]
  <2>1. 0 \in 0 .. K /\ \A i \in 1 .. K : i \in 0 .. K /\ i # 0
    BY <1>1
  <2> QED BY <1>10, <2>1
<1> DEFINE S == {i \in Nat : i <= K => f[i] \in Nat}
<1>12. 0 \in S
  BY <1>11
<1>13. ASSUME NEW i \in Nat, i \in S PROVE i + 1 \in S
  <2> SUFFICES ASSUME i + 1 <= K PROVE f[i + 1] \in Nat
    OBVIOUS
  <2>1. i + 1 \in 1 .. K /\ (i + 1) - 1 = i /\ f[i] \in Nat
    BY <1>1, <1>13
  <2>2. f[i + 1] = base * f[i] + DigitValue[digits[i + 1]]
    BY <1>11, <2>1
  <2> QED BY <1>3, <2>1, <2>2
<1> HIDE DEF S
<1>14. Nat \subseteq S
  BY <1>12, <1>13, Induct
<1>15. \A i \in 0 .. K : f[i] \in Nat
  BY <1>14 DEF S
<1>16. f \in [0 .. K -> Nat]
  <2>1. f = [i \in 0 .. K |-> IF i = 0 THEN 0 ELSE base * f[i - 1] + DigitValue[digits[i]]]
    BY <1>9
  <2>2. DOMAIN f = 0 .. K /\ f = [i \in DOMAIN f |-> f[i]]
    BY <2>1
  <2> QED BY <1>15, <2>2
<1>17. Horner(digits) = f[K] /\ Horners(f, digits)
  BY <1>a, <1>11 DEF f, K, Horners
<1> QED BY <1>16, <1>17 DEF K

(* A digit more. *)
LEMMA HornerStep ==
    /\ Horner(<< >>) = 0
    /\ \A digits \in Seq(Digits), c \in Digits :
          /\ Horner(digits) \in Nat
          /\ Horner(Append(digits, c)) = base * Horner(digits) + DigitValue[c]
<1>1. Horner(<< >>) = 0
  <2>1. << >> \in Seq(Digits) /\ Len(<< >>) = 0
    OBVIOUS
  <2>2. PICK g \in [0 .. Len(<< >>) -> Nat] : Horners(g, << >>) /\ Horner(<< >>) = g[Len(<< >>)]
    BY <2>1, HornerIs
  <2> QED BY <2>1, <2>2 DEF Horners
<1>2. ASSUME NEW digits \in Seq(Digits), NEW c \in Digits
      PROVE  /\ Horner(digits) \in Nat
             /\ Horner(Append(digits, c)) = base * Horner(digits) + DigitValue[c]
  <2> DEFINE K == Len(digits)  more == Append(digits, c)
  <2>1. K \in Nat /\ more \in Seq(Digits) /\ Len(more) = K + 1
    OBVIOUS
  <2>2. more[K + 1] = c /\ \A i \in 1 .. K : more[i] = digits[i]
    OBVIOUS
  <2> HIDE DEF more
  <2>3. PICK g \in [0 .. K -> Nat] : Horners(g, digits) /\ Horner(digits) = g[K]
    BY HornerIs
  <2>4. PICK h \in [0 .. K + 1 -> Nat] : Horners(h, more) /\ Horner(more) = h[K + 1]
    <3>1. \E h \in [0 .. Len(more) -> Nat] : Horners(h, more) /\ Horner(more) = h[Len(more)]
      BY <2>1, HornerIs
    <3> QED BY <2>1, <3>1
  <2>5. /\ g[0] = 0 /\ \A i \in 1 .. K : g[i] = base * g[i - 1] + DigitValue[digits[i]]
        /\ h[0] = 0 /\ \A i \in 1 .. K + 1 : h[i] = base * h[i - 1] + DigitValue[more[i]]
    BY <2>1, <2>3, <2>4 DEF Horners
  <2> HIDE DEF K
  <2> DEFINE S == {i \in Nat : i <= K => g[i] = h[i]}
  <2>6. 0 \in S
    BY <2>5
  <2>7. ASSUME NEW i \in Nat, i \in S PROVE i + 1 \in S
    <3> SUFFICES ASSUME i + 1 <= K PROVE g[i + 1] = h[i + 1]
      OBVIOUS
    <3>1. i + 1 \in 1 .. K /\ i + 1 \in 1 .. K + 1 /\ (i + 1) - 1 = i /\ g[i] = h[i]
      BY <2>1, <2>7
    <3> QED BY <2>2, <2>5, <3>1
  <2> HIDE DEF S
  <2>8. K \in S
    BY <2>1, <2>6, <2>7, Induct
  <2>9. g[K] = h[K]
    BY <2>1, <2>8 DEF S
  <2>10. h[K + 1] = base * h[K] + DigitValue[c]
    <3>1. K + 1 \in 1 .. K + 1 /\ (K + 1) - 1 = K
      BY <2>1
    <3> QED BY <2>2, <2>5, <3>1
  <2>11. g[K] \in Nat
    BY <2>1, <2>3
  <2> QED BY <2>3, <2>4, <2>9, <2>10, <2>11 DEF more
<1> QED
  <2> SUFFICES ASSUME NEW digits \in Seq(Digits), NEW c \in Digits
               PROVE  /\ Horner(digits) \in Nat
                      /\ Horner(Append(digits, c)) = base * Horner(digits) + DigitValue[c]
    BY <1>1
  <2> QED BY <1>2

LEMMA AbsValueIs == ASSUME NEW str PROVE AbsValue(str) = Horner(Magnitude(str))
BY DEF AbsValue, Horner

(* The prefixes of a string, sanitized. *)
Keeps(r, c) == c \in Digits \/ (c = Hyphen /\ r = << >>)
Sanitizes(g, str) ==
    /\ g[0] = << >>
    /\ \A i \in 1 .. Len(str) :
          g[i] = IF Keeps(g[i - 1], str[i]) THEN Append(g[i - 1], str[i]) ELSE g[i - 1]

LEMMA SanitizeIs ==
    ASSUME NEW str \in Seq(Chars)
    PROVE  \E g \in [0 .. Len(str) -> Seq(Chars)] :
              Sanitizes(g, str) /\ SanitizeStringInteger(str) = g[Len(str)]
<1> DEFINE K == Len(str)
           Solves(f) == f = [i \in 0 .. K |->
               IF i = 0 THEN << >>
               ELSE IF str[i] \in Digits \/ (str[i] = Hyphen /\ f[i - 1] = << >>)
               THEN Append(f[i - 1], str[i]) ELSE f[i - 1]]
           step == [i \in 1 .. K |-> [r \in Seq(Chars) |->
                       IF Keeps(r, str[i]) THEN Append(r, str[i]) ELSE r]]
<1>1. K \in Nat /\ \A i \in 1 .. K : str[i] \in Chars
  OBVIOUS
<1>a. SanitizeStringInteger(str) = (CHOOSE f : Solves(f))[K]
  BY DEF SanitizeStringInteger
<1> HIDE DEF K
<1>3. \A i \in 1 .. K, r \in Seq(Chars) :
          (IF Keeps(r, str[i]) THEN Append(r, str[i]) ELSE r) \in Seq(Chars)
  <2>1. \A i \in 1 .. K, r \in Seq(Chars) : Append(r, str[i]) \in Seq(Chars)
    BY <1>1
  <2> QED BY <2>1
<1>4. step \in [1 .. K -> [Seq(Chars) -> Seq(Chars)]] /\ << >> \in Seq(Chars)
  BY <1>3
<1>5. \A i \in 1 .. K, r \in Seq(Chars) :
          step[i][r] = IF Keeps(r, str[i]) THEN Append(r, str[i]) ELSE r
  OBVIOUS
<1> HIDE DEF step
<1>6. PICK g \in [0 .. K -> Seq(Chars)] : RecursionOf(g, K, << >>, step)
  BY <1>1, <1>4, Recursion
<1>7. /\ g[0] = << >>
      /\ \A i \in 1 .. K : g[i] = IF Keeps(g[i - 1], str[i]) THEN Append(g[i - 1], str[i]) ELSE g[i - 1]
  <2>1. \A i \in 1 .. K : i - 1 \in 0 .. K /\ i \in 0 .. K
    BY <1>1
  <2>2. \A i \in 1 .. K : g[i - 1] \in Seq(Chars) /\ g[i] = step[i][g[i - 1]]
    BY <1>6, <2>1 DEF RecursionOf
  <2>3. g[0] = << >>
    BY <1>6 DEF RecursionOf
  <2> QED BY <1>5, <2>2, <2>3
<1>8. Solves(g)
  <2>1. ASSUME NEW i \in 0 .. K
        PROVE  g[i] = IF i = 0 THEN << >>
                      ELSE IF str[i] \in Digits \/ (str[i] = Hyphen /\ g[i - 1] = << >>)
                      THEN Append(g[i - 1], str[i]) ELSE g[i - 1]
    <3>1. i = 0 \/ i \in 1 .. K
      BY <1>1
    <3>2. 0 \notin 1 .. K
      BY <1>1
    <3> QED BY <1>7, <3>1, <3>2 DEF Keeps
  <2> QED BY <1>6, <2>1
<1> DEFINE f == CHOOSE h : Solves(h)
<1>9. Solves(f)
  BY <1>8
<1> HIDE DEF f
<1>10. \A i \in 0 .. K : f[i] = IF i = 0 THEN << >>
                      ELSE IF str[i] \in Digits \/ (str[i] = Hyphen /\ f[i - 1] = << >>)
                      THEN Append(f[i - 1], str[i]) ELSE f[i - 1]
  BY <1>9
<1>11. /\ f[0] = << >>
       /\ \A i \in 1 .. K : f[i] = IF Keeps(f[i - 1], str[i]) THEN Append(f[i - 1], str[i]) ELSE f[i - 1]
  <2>1. 0 \in 0 .. K /\ \A i \in 1 .. K : i \in 0 .. K /\ i # 0
    BY <1>1
  <2> QED BY <1>10, <2>1 DEF Keeps
<1> DEFINE S == {i \in Nat : i <= K => f[i] \in Seq(Chars)}
<1>12. 0 \in S
  BY <1>4, <1>11
<1>13. ASSUME NEW i \in Nat, i \in S PROVE i + 1 \in S
  <2> SUFFICES ASSUME i + 1 <= K PROVE f[i + 1] \in Seq(Chars)
    OBVIOUS
  <2>1. i + 1 \in 1 .. K /\ (i + 1) - 1 = i /\ f[i] \in Seq(Chars)
    BY <1>1, <1>13
  <2>2. f[i + 1] = IF Keeps(f[i], str[i + 1]) THEN Append(f[i], str[i + 1]) ELSE f[i]
    BY <1>11, <2>1
  <2> QED BY <1>3, <2>1, <2>2
<1> HIDE DEF S
<1>14. Nat \subseteq S
  BY <1>12, <1>13, Induct
<1>15. \A i \in 0 .. K : f[i] \in Seq(Chars)
  BY <1>14 DEF S
<1>16. f \in [0 .. K -> Seq(Chars)]
  <2>1. DOMAIN f = 0 .. K /\ f = [i \in DOMAIN f |-> f[i]]
    BY <1>9
  <2> QED BY <1>15, <2>1
<1>17. SanitizeStringInteger(str) = f[K] /\ Sanitizes(f, str)
  BY <1>a, <1>11 DEF f, K, Sanitizes
<1> QED BY <1>16, <1>17 DEF K

(* The magnitude grows with each digit, and with nothing else.              *)
LEMMA MagnitudeStep ==
    ASSUME NEW r \in Seq(Chars), NEW c \in Chars,
           NEW t, t = IF Keeps(r, c) THEN Append(r, c) ELSE r
    PROVE  Magnitude(t) = IF c \in Digits THEN Append(Magnitude(r), c) ELSE Magnitude(r)
<1>1. Hyphen \notin Digits
  BY ParseAssumption
<1>2. CASE c \in Digits
  <2>1. t = Append(r, c) /\ c # Hyphen
    BY <1>1, <1>2 DEF Keeps
  <2>2. CASE r = << >>
    <3>1. t = <<c>> /\ t[1] = c
      BY <2>1, <2>2
    <3>2. Magnitude(t) = t /\ Magnitude(r) = r
      BY <2>1, <2>2, <3>1 DEF Magnitude
    <3> QED BY <1>2, <2>1, <3>2
  <2>3. CASE r # << >>
    <3>1. t # << >> /\ t[1] = r[1]
      BY <2>1, <2>3
    <3>2. Tail(t) = Append(Tail(r), c)
      BY <2>1, <2>3
    <3> QED BY <1>2, <2>1, <2>3, <3>1, <3>2 DEF Magnitude
  <2> QED BY <2>2, <2>3
<1>3. CASE c \notin Digits
  <2>1. CASE Keeps(r, c)
    <3>1. r = << >> /\ c = Hyphen /\ t = <<c>>
      <4>1. r = << >> /\ c = Hyphen /\ t = Append(r, c)
        BY <1>3, <2>1 DEF Keeps
      <4>2. Append(<< >>, c) = <<c>>
        OBVIOUS
      <4> QED BY <4>1, <4>2
    <3>2. Tail(t) = << >> /\ t # << >> /\ t[1] = Hyphen
      BY <3>1
    <3> QED BY <1>3, <3>1, <3>2 DEF Magnitude
  <2>2. CASE ~Keeps(r, c)
    BY <1>3, <2>2
  <2> QED BY <2>1, <2>2
<1> QED BY <1>2, <1>3

(* The digits of each prefix of a string. *)
Prefixes(mag, str) ==
    /\ mag[0] = << >>
    /\ \A i \in 1 .. Len(str) :
          mag[i] = IF str[i] \in Digits THEN Append(mag[i - 1], str[i]) ELSE mag[i - 1]

(* After the sign, the sanitized string has the digits and no more. *)
LEMMA PrefixesAre ==
    ASSUME NEW str \in Seq(Chars)
    PROVE  \E mag \in [0 .. Len(str) -> Seq(Digits)] :
              /\ Prefixes(mag, str)
              /\ Magnitude(SanitizeStringInteger(str)) = mag[Len(str)]
<1> DEFINE K == Len(str)
<1>1. K \in Nat /\ \A i \in 1 .. K : str[i] \in Chars
  OBVIOUS
<1> HIDE DEF K
<1>2. PICK g \in [0 .. K -> Seq(Chars)] : Sanitizes(g, str) /\ SanitizeStringInteger(str) = g[K]
  BY SanitizeIs DEF K
<1>3. /\ g[0] = << >>
      /\ \A i \in 1 .. K : g[i] = IF Keeps(g[i - 1], str[i]) THEN Append(g[i - 1], str[i]) ELSE g[i - 1]
  BY <1>2 DEF Sanitizes, K
<1> DEFINE mag == [i \in 0 .. K |-> Magnitude(g[i])]
<1>4. \A i \in 0 .. K : mag[i] = Magnitude(g[i])
  OBVIOUS
<1>5. mag[0] = << >>
  BY <1>1, <1>3, <1>4 DEF Magnitude
<1>6. \A i \in 1 .. K : mag[i] = IF str[i] \in Digits THEN Append(mag[i - 1], str[i]) ELSE mag[i - 1]
  <2> TAKE i \in 1 .. K
  <2>1. i \in 0 .. K /\ i - 1 \in 0 .. K /\ str[i] \in Chars /\ g[i - 1] \in Seq(Chars)
    BY <1>1, <1>2
  <2>2. Magnitude(g[i]) = IF str[i] \in Digits THEN Append(Magnitude(g[i - 1]), str[i])
                          ELSE Magnitude(g[i - 1])
    BY <1>3, <2>1, MagnitudeStep
  <2> QED BY <1>4, <2>1, <2>2
<1> DEFINE S == {i \in Nat : i <= K => mag[i] \in Seq(Digits)}
<1>b. mag = [i \in 0 .. K |-> mag[i]]
  OBVIOUS
<1>c. mag[K] = Magnitude(SanitizeStringInteger(str))
  BY <1>1, <1>2, <1>4
<1> HIDE DEF mag
<1>7. 0 \in S
  <2>1. << >> \in Seq(Digits)
    OBVIOUS
  <2> QED BY <1>5, <2>1
<1>8. ASSUME NEW i \in Nat, i \in S PROVE i + 1 \in S
  <2> SUFFICES ASSUME i + 1 <= K PROVE mag[i + 1] \in Seq(Digits)
    OBVIOUS
  <2>1. i + 1 \in 1 .. K /\ (i + 1) - 1 = i /\ mag[i] \in Seq(Digits)
    BY <1>1, <1>8
  <2>2. mag[i + 1] = IF str[i + 1] \in Digits THEN Append(mag[i], str[i + 1]) ELSE mag[i]
    BY <1>6, <2>1
  <2>3. str[i + 1] \in Digits => Append(mag[i], str[i + 1]) \in Seq(Digits)
    BY <2>1
  <2> QED BY <2>1, <2>2, <2>3
<1> HIDE DEF S
<1>9. Nat \subseteq S
  BY <1>7, <1>8, Induct
<1>10. \A i \in 0 .. K : mag[i] \in Seq(Digits)
  BY <1>9 DEF S
<1>11. mag \in [0 .. K -> Seq(Digits)]
  BY <1>b, <1>10
<1>12. Prefixes(mag, str)
  BY <1>5, <1>6 DEF Prefixes, K
<1> QED BY <1>c, <1>11, <1>12 DEF K

(* The powers of the base. *)
LEMMA PowerIs ==
    /\ Power[0] = 1
    /\ \A n \in 0 .. MaxLen : Power[n] \in Nat
    /\ \A n \in 1 .. MaxLen : Power[n] = base * Power[n - 1]
<1> DEFINE K == MaxLen
           Solves(f) == f = [n \in 0 .. K |-> IF n = 0 THEN 1 ELSE base * f[n - 1]]
           step == [n \in 1 .. K |-> [z \in Nat |-> base * z]]
<1>1. K \in Nat /\ base \in Nat
  BY ParseAssumption
<1>a. Power = CHOOSE f : Solves(f)
  BY DEF Power
<1> HIDE DEF K
<1>3. \A z \in Nat : base * z \in Nat
  BY <1>1
<1>4. step \in [1 .. K -> [Nat -> Nat]] /\ 1 \in Nat
  BY <1>3
<1>5. \A i \in 1 .. K, z \in Nat : step[i][z] = base * z
  OBVIOUS
<1> HIDE DEF step
<1>6. PICK g \in [0 .. K -> Nat] : RecursionOf(g, K, 1, step)
  BY <1>1, <1>4, Recursion
<1>7. g[0] = 1 /\ \A i \in 1 .. K : g[i] = base * g[i - 1]
  <2>1. \A i \in 1 .. K : i - 1 \in 0 .. K
    BY <1>1
  <2> QED BY <1>5, <1>6, <2>1 DEF RecursionOf
<1>8. Solves(g)
  <2>1. ASSUME NEW i \in 0 .. K PROVE g[i] = IF i = 0 THEN 1 ELSE base * g[i - 1]
    <3>1. i = 0 \/ i \in 1 .. K
      BY <1>1
    <3>2. 0 \notin 1 .. K
      BY <1>1
    <3> QED BY <1>7, <3>1, <3>2
  <2> QED BY <1>6, <2>1
<1> DEFINE f == CHOOSE h : Solves(h)
<1>9. Solves(f)
  BY <1>8
<1> HIDE DEF f
<1>10. \A i \in 0 .. K : f[i] = IF i = 0 THEN 1 ELSE base * f[i - 1]
  BY <1>9
<1>11. f[0] = 1 /\ \A i \in 1 .. K : f[i] = base * f[i - 1]
  <2>1. 0 \in 0 .. K /\ \A i \in 1 .. K : i \in 0 .. K /\ i # 0
    BY <1>1
  <2> QED BY <1>10, <2>1
<1> DEFINE S == {i \in Nat : i <= K => f[i] \in Nat}
<1>12. 0 \in S
  BY <1>11
<1>13. ASSUME NEW i \in Nat, i \in S PROVE i + 1 \in S
  <2> SUFFICES ASSUME i + 1 <= K PROVE f[i + 1] \in Nat
    OBVIOUS
  <2>1. i + 1 \in 1 .. K /\ (i + 1) - 1 = i /\ f[i] \in Nat
    BY <1>1, <1>13
  <2>2. f[i + 1] = base * f[i]
    BY <1>11, <2>1
  <2> QED BY <1>3, <2>1, <2>2
<1> HIDE DEF S
<1>14. Nat \subseteq S
  BY <1>12, <1>13, Induct
<1>15. \A i \in 0 .. K : f[i] \in Nat
  BY <1>14 DEF S
<1>16. Power = f
  BY <1>a DEF f
<1> QED BY <1>11, <1>15, <1>16 DEF K

(* The digits from one on. *)
LEMMA DigitsAfterIs ==
    ASSUME NEW str \in Seq(Chars), Len(str) <= MaxLen
    PROVE  /\ DigitsAfter(str, Len(str)) = 0
           /\ \A i \in 0 .. Len(str) : DigitsAfter(str, i) \in 0 .. MaxLen
           /\ \A i \in 0 .. Len(str) - 1 :
                 DigitsAfter(str, i) = DigitsAfter(str, i + 1) + (IF str[i + 1] \in Digits THEN 1 ELSE 0)
<1> DEFINE K == Len(str)  after(i) == {j \in DOMAIN str : j > i /\ str[j] \in Digits}
<1>1. K \in Nat /\ DOMAIN str = 1 .. K /\ MaxLen \in Nat
  BY ParseAssumption
<1>2. \A i : after(i) \subseteq 1 .. K
  <2> TAKE i
  <2>1. \A j \in after(i) : j \in DOMAIN str
    OBVIOUS
  <2> HIDE DEF after, K
  <2> QED BY <1>1, <2>1
<1>3. IsFiniteSet(1 .. K) /\ Cardinality(1 .. K) = K
  <2> HIDE DEF K
  <2>1. 1 \in Int /\ K \in Int
    BY <1>1
  <2>2. IsFiniteSet(1 .. K) /\ Cardinality(1 .. K) = IF 1 > K THEN 0 ELSE K - 1 + 1
    BY <2>1, FS_Interval, ZenonT(30)
  <2> QED BY <1>1, <2>2
<1>4. \A i : DigitsAfter(str, i) = Cardinality(after(i))
  BY DEF DigitsAfter
<1>5. \A i \in 0 .. K - 1 : /\ i + 1 \notin after(i + 1)
                            /\ after(i) = IF str[i + 1] \in Digits THEN after(i + 1) \cup {i + 1}
                                          ELSE after(i + 1)
  <2> TAKE i \in 0 .. K - 1
  <2>1. i + 1 \in 1 .. K /\ ~(i + 1 > i + 1)
    BY <1>1
  <2>2. \A j \in 1 .. K : j > i <=> j > i + 1 \/ j = i + 1
    BY <1>1
  <2> HIDE DEF K
  <2> QED BY <1>1, <2>1, <2>2
<1>6. after(K) = {}
  BY <1>1
<1> HIDE DEF after, K
<1>7. \A i : IsFiniteSet(after(i)) /\ Cardinality(after(i)) \in Nat /\ Cardinality(after(i)) <= K
  <2> TAKE i
  <2>1. IsFiniteSet(after(i)) /\ Cardinality(after(i)) <= Cardinality(1 .. K)
    BY <1>2, <1>3, FS_Subset
  <2>2. Cardinality(after(i)) \in Nat
    BY <2>1, FS_CardinalityType
  <2> QED BY <1>3, <2>1, <2>2
<1>8. Cardinality(after(K)) = 0
  BY <1>6, FS_EmptySet
<1>9. \A i : Cardinality(after(i)) \in 0 .. MaxLen
  <2>1. K <= MaxLen
    BY DEF K
  <2> QED BY <1>1, <1>7, <2>1
<1>10. ASSUME NEW i \in 0 .. K - 1
       PROVE  Cardinality(after(i)) = Cardinality(after(i + 1)) + (IF str[i + 1] \in Digits THEN 1 ELSE 0)
  <2>1. CASE str[i + 1] \in Digits
    <3> DEFINE a == after(i + 1)  x == i + 1
    <3>1. after(i) = a \cup {x} /\ x \notin a /\ IsFiniteSet(a)
      BY <1>5, <1>7, <2>1
    <3> HIDE DEF a, x
    <3>2. Cardinality(a \cup {x}) = Cardinality(a) + 1
      BY <3>1, FS_AddElement
    <3> QED BY <2>1, <3>1, <3>2 DEF a, x
  <2>2. CASE str[i + 1] \notin Digits
    <3>1. after(i) = after(i + 1) /\ Cardinality(after(i + 1)) \in Nat
      BY <1>5, <1>7, <2>2
    <3> QED BY <2>2, <3>1
  <2> QED BY <2>1, <2>2
<1> QED BY <1>4, <1>8, <1>9, <1>10 DEF K

(* A digit of the base. *)
IsDigit(c) == c \in Digits /\ DigitValue[c] < base

(* Whether digits and a string so far have a digit, and none too high. *)
SameDigits(m, str, i) ==
    /\ m # << >> <=> \E j \in 1 .. i : str[j] \in Digits
    /\ (\A j \in DOMAIN m : IsDigit(m[j]))
          <=> (\A j \in 1 .. i : str[j] \in Digits => DigitValue[str[j]] < base)

(* A string is a number if GMP finds one in it. *)
LEMMA ParsesIs ==
    ASSUME NEW str \in Seq(Chars)
    PROVE  Parses(SanitizeStringInteger(str)) = IsNumber(str)
<1> DEFINE K == Len(str)
<1>1. K \in Nat /\ DOMAIN str = 1 .. K
  OBVIOUS
<1>2. PICK mag \in [0 .. K -> Seq(Digits)] :
         Prefixes(mag, str) /\ Magnitude(SanitizeStringInteger(str)) = mag[K]
  BY PrefixesAre
<1>3. /\ mag[0] = << >>
      /\ \A i \in 1 .. K : mag[i] = IF str[i] \in Digits THEN Append(mag[i - 1], str[i]) ELSE mag[i - 1]
  BY <1>2 DEF Prefixes
<1> HIDE DEF K
<1> DEFINE S == {i \in Nat : i <= K => SameDigits(mag[i], str, i)}
<1>4. 0 \in S
  <2>1. 1 .. 0 = {} /\ DOMAIN << >> = {}
    OBVIOUS
  <2> QED BY <1>3, <2>1 DEF SameDigits
<1>5. ASSUME NEW i \in Nat, i \in S PROVE i + 1 \in S
  <2> SUFFICES ASSUME i + 1 <= K PROVE SameDigits(mag[i + 1], str, i + 1)
    OBVIOUS
  <2> DEFINE m == mag[i]  n == mag[i + 1]  c == str[i + 1]
  <2>1. i + 1 \in 1 .. K /\ (i + 1) - 1 = i /\ i \in 0 .. K /\ m \in Seq(Digits)
    BY <1>1, <1>2
  <2>2. n = IF c \in Digits THEN Append(m, c) ELSE m
    BY <1>3, <2>1
  <2>3. SameDigits(m, str, i)
    BY <1>5, <2>1
  <2>4. \A j : j \in 1 .. i + 1 <=> j \in 1 .. i \/ j = i + 1
    OBVIOUS
  <2> HIDE DEF m, n, c
  <2>5. CASE c \in Digits
    <3>1. n = Append(m, c) /\ n # << >>
      <4>1. Append(m, c) # << >>
        BY <2>1, <2>5
      <4> QED BY <2>2, <2>5, <4>1
    <3>2. (\A j \in DOMAIN n : IsDigit(n[j])) <=> (\A j \in DOMAIN m : IsDigit(m[j])) /\ IsDigit(c)
      <4>1. /\ Len(m) \in Nat /\ DOMAIN m = 1 .. Len(m) /\ DOMAIN n = 1 .. Len(m) + 1
            /\ n[Len(m) + 1] = c /\ \A j \in 1 .. Len(m) : n[j] = m[j]
        BY <2>1, <2>5, <3>1
      <4>2. \A j : j \in 1 .. Len(m) + 1 <=> j \in 1 .. Len(m) \/ j = Len(m) + 1
        BY <4>1
      <4> QED BY <4>1, <4>2
    <3>3. \E j \in 1 .. i + 1 : str[j] \in Digits
      BY <2>4, <2>5 DEF c
    <3>4. (\A j \in 1 .. i + 1 : str[j] \in Digits => DigitValue[str[j]] < base)
             <=> (\A j \in 1 .. i : str[j] \in Digits => DigitValue[str[j]] < base) /\ IsDigit(c)
      BY <2>4, <2>5 DEF IsDigit, c
    <3>5. SameDigits(n, str, i + 1)
      BY <2>3, <3>1, <3>2, <3>3, <3>4 DEF SameDigits
    <3> QED BY <3>5 DEF n
  <2>6. CASE c \notin Digits
    <3>1. n = m
      BY <2>2, <2>6
    <3>2. \A j \in 1 .. i + 1 : str[j] \in Digits => j \in 1 .. i
      BY <2>4, <2>6 DEF c
    <3>3. \A j \in 1 .. i : j \in 1 .. i + 1
      BY <2>4
    <3>4. SameDigits(n, str, i + 1)
      BY <2>3, <3>1, <3>2, <3>3 DEF SameDigits
    <3> QED BY <3>4 DEF n
  <2> QED BY <2>5, <2>6
<1> HIDE DEF S
<1>6. K \in S
  BY <1>1, <1>4, <1>5, Induct
<1>7. SameDigits(mag[K], str, K)
  BY <1>1, <1>6 DEF S
<1>8. IsNumber(str) <=> /\ \E j \in 1 .. K : str[j] \in Digits
                        /\ \A j \in 1 .. K : str[j] \in Digits => DigitValue[str[j]] < base
  BY <1>1 DEF IsNumber
<1>9. Parses(SanitizeStringInteger(str))
         <=> mag[K] # << >> /\ \A j \in DOMAIN mag[K] : IsDigit(mag[K][j])
  BY <1>2 DEF Parses, IsDigit
<1>10. Parses(SanitizeStringInteger(str)) \in BOOLEAN /\ IsNumber(str) \in BOOLEAN
  BY DEF Parses, IsNumber
<1> QED BY <1>7, <1>8, <1>9, <1>10 DEF SameDigits

(* What GMP makes of it is the number that it denotes.                      *)
LEMMA AbsValueDenoted ==
    ASSUME NEW str \in Seq(Chars), Len(str) <= MaxLen
    PROVE  AbsValue(SanitizeStringInteger(str)) = Denoted(str) /\ Denoted(str) \in Nat
<1> DEFINE K == Len(str)
           term == [i \in 0 .. K - 1 |-> IF str[i + 1] \in Digits
                                         THEN DigitValue[str[i + 1]] * Power[DigitsAfter(str, i + 1)] ELSE 0]
           after(i) == DigitsAfter(str, i)
<1>1. K \in Nat /\ base \in Nat
  BY ParseAssumption
<1>2. PICK mag \in [0 .. K -> Seq(Digits)] :
         Prefixes(mag, str) /\ Magnitude(SanitizeStringInteger(str)) = mag[K]
  BY PrefixesAre
<1>3. /\ mag[0] = << >>
      /\ \A i \in 1 .. K : mag[i] = IF str[i] \in Digits THEN Append(mag[i - 1], str[i]) ELSE mag[i - 1]
  BY <1>2 DEF Prefixes
<1>4. Denoted(str) = Total(K, term)
  BY DEF Denoted
<1>5. /\ after(K) = 0
      /\ \A i \in 0 .. K : after(i) \in 0 .. MaxLen
      /\ \A i \in 0 .. K - 1 : after(i) = after(i + 1) + (IF str[i + 1] \in Digits THEN 1 ELSE 0)
  BY DigitsAfterIs
<1>6. \A i \in 0 .. K - 1 : term[i] = IF str[i + 1] \in Digits
                                      THEN DigitValue[str[i + 1]] * Power[after(i + 1)] ELSE 0
  OBVIOUS
<1> HIDE DEF K, after, term
<1>7. \A i \in 0 .. K : Power[after(i)] \in Nat
  BY <1>5, PowerIs
<1>8. \A i \in 0 .. K - 1 : term[i] \in Nat
  <2> TAKE i \in 0 .. K - 1
  <2>1. i + 1 \in 0 .. K
    BY <1>1
  <2>2. Power[after(i + 1)] \in Nat
    BY <1>7, <2>1
  <2>3. str[i + 1] \in Digits => DigitValue[str[i + 1]] \in Nat
    BY ParseAssumption
  <2>4. \A a, b \in Nat : a * b \in Nat
    OBVIOUS
  <2> QED BY <1>6, <2>2, <2>3, <2>4
<1>9. /\ Total(0, term) = 0
      /\ \A i \in 0 .. K - 1 : Total(i + 1, term) = Total(i, term) + term[i]
  <2>1. \A i \in 0 .. K - 1 : term[i] \in Int
    BY <1>8
  <2> QED BY <1>1, <2>1, TotalStep
<1> DEFINE h(i) == Horner(mag[i])
           S == {i \in Nat : i <= K => h(i) \in Nat /\ Total(i, term) = h(i) * Power[after(i)]}
<1>10. 0 \in S
  <2>1. h(0) = 0
    BY <1>3, HornerStep
  <2>2. Power[after(0)] \in Nat
    BY <1>1, <1>7
  <2> HIDE DEF h
  <2> QED BY <1>9, <2>1, <2>2
<1>11. ASSUME NEW i \in Nat, i \in S PROVE i + 1 \in S
  <2> SUFFICES ASSUME i + 1 <= K
               PROVE  h(i + 1) \in Nat /\ Total(i + 1, term) = h(i + 1) * Power[after(i + 1)]
    OBVIOUS
  <2> DEFINE c == str[i + 1]  p == Power[after(i + 1)]  a == h(i)  d == DigitValue[c]
  <2>1. /\ i + 1 \in 1 .. K /\ (i + 1) - 1 = i /\ i \in 0 .. K - 1 /\ i \in 0 .. K /\ i + 1 \in 0 .. K
        /\ a \in Nat /\ Total(i, term) = a * Power[after(i)]
    BY <1>1, <1>11
  <2>2. mag[i + 1] = IF c \in Digits THEN Append(mag[i], c) ELSE mag[i]
    BY <1>3, <2>1
  <2>3. mag[i] \in Seq(Digits)
    BY <1>2, <2>1
  <2>4. p \in Nat
    BY <1>7, <2>1
  <2>5. Total(i + 1, term) = a * Power[after(i)] + term[i]
    BY <1>9, <2>1
  <2>6. CASE c \in Digits
    <3>1. h(i + 1) = base * a + d /\ d \in Nat
      <4>1. Horner(Append(mag[i], c)) = base * Horner(mag[i]) + DigitValue[c]
        BY <2>3, <2>6, HornerStep
      <4>2. d \in Nat
        BY <2>6, ParseAssumption
      <4> QED BY <2>2, <2>6, <4>1, <4>2
    <3>2. Power[after(i)] = base * p
      <4>1. after(i) = after(i + 1) + 1 /\ after(i) \in 0 .. MaxLen /\ after(i + 1) \in 0 .. MaxLen
        BY <1>5, <2>1, <2>6
      <4>2. after(i) \in 1 .. MaxLen /\ after(i) - 1 = after(i + 1)
        BY <4>1
      <4>3. Power[after(i)] = base * Power[after(i) - 1]
        BY <4>2, PowerIs
      <4> QED BY <4>2, <4>3
    <3>3. term[i] = d * p
      BY <1>6, <2>1, <2>6
    <3> HIDE DEF p, a, d, h
    <3>4. a * (base * p) + d * p = (base * a + d) * p
      <4>1. base \in Nat /\ a \in Nat /\ d \in Nat /\ p \in Nat
        BY <1>1, <2>1, <2>4, <3>1
      <4>2. a * (base * p) = (base * a) * p
        BY <4>1
      <4>3. base * a \in Nat
        BY <4>1
      <4> DEFINE e == base * a
      <4>4. e \in Nat /\ a * (base * p) = e * p
        BY <4>2, <4>3
      <4>6. a * (base * p) + d * p = (e + d) * p <=> a * (base * p) + d * p = (base * a + d) * p
        OBVIOUS
      <4> HIDE DEF e
      <4>5. e * p + d * p = (e + d) * p
        BY <4>1, <4>4
      <4> QED BY <4>4, <4>5, <4>6
    <3>5. base * a + d \in Nat
      <4>1. base * a \in Nat /\ d \in Nat
        BY <1>1, <2>1, <3>1
      <4> DEFINE e == base * a
      <4> HIDE DEF e
      <4>2. e + d \in Nat
        BY <4>1 DEF e
      <4> QED BY <4>2 DEF e
    <3> QED BY <2>5, <3>1, <3>2, <3>3, <3>4, <3>5 DEF p
  <2>7. CASE c \notin Digits
    <3>1. h(i + 1) = a /\ term[i] = 0
      BY <1>6, <2>1, <2>2, <2>7
    <3>2. after(i) = after(i + 1)
      <4>1. after(i) = after(i + 1) + 0 /\ after(i + 1) \in 0 .. MaxLen
        BY <1>5, <2>1, <2>7
      <4> QED BY <4>1
    <3>3. a * p \in Nat
      <4> HIDE DEF a, p
      <4> QED BY <2>1, <2>4
    <3> HIDE DEF a, h
    <3> QED BY <2>1, <2>5, <3>1, <3>2, <3>3
  <2> QED BY <2>6, <2>7
<1> HIDE DEF S
<1>12. K \in S
  BY <1>1, <1>10, <1>11, Induct
<1>13. h(K) \in Nat /\ Total(K, term) = h(K) * Power[after(K)]
  BY <1>1, <1>12 DEF S
<1>14. Total(K, term) = h(K)
  <2> HIDE DEF h
  <2>1. Power[after(K)] = 1
    BY <1>5, PowerIs
  <2> QED BY <1>13, <2>1
<1>15. AbsValue(SanitizeStringInteger(str)) = h(K)
  BY <1>2, AbsValueIs
<1> QED BY <1>4, <1>13, <1>14, <1>15

-----------------------------------------------------------------------------
(* The call. *)

(* What is known of the vint, the string and the array, at any time. *)
ParseTypeOK ==
    /\ TypeOK
    /\ s \in Seq(Chars) /\ Len(s) <= MaxLen
    /\ Called => HasWords(ptr)

(* What an array and a vint x are, once a string has been assigned. *)
Parsed(str, p, x) ==
    IsNumber(str) /\ str[1] \notin Separators =>
        LET integer == IF Negative(str) THEN -Denoted(str) ELSE Denoted(str)
        IN ArraySum(p) = integer % WeightU64(num_u64) /\ Val(x) = integer % 2^num_bit

LEMMA ParseLater ==
    ASSUME type' = type
    PROVE  /\ TypeOK' = (type \in Types /\ v' \in Vint /\ Val(v') < 2^num_bit)
           /\ HasWords(ptr)' = HasWords(ptr')
           /\ Called' = (ptr' # << >>)
           /\ ArrayValue' = ArraySum(ptr')
           /\ ArrayIsInteger' = (ptr' # << >> => Parsed(s', ptr', v'))
<1>1. num_bit' = num_bit /\ bit_per_word' = bit_per_word
  BY DEF num_bit, bit_per_word
<1>2. num_word' = num_word /\ num_u64' = num_u64
  BY <1>1 DEF num_word, num_u64
<1>3. TypeOK' = (type \in Types /\ v' \in Vint /\ Val(v') < 2^num_bit)
  BY <1>1, Later DEF TypeOK
<1>4. HasWords(ptr)' = HasWords(ptr')
  BY <1>2 DEF HasWords
<1>5. Val(v)' = Val(v')
  BY Later
<1>6. ArrayValue' = ArraySum(ptr')
  BY <1>2 DEF ArrayValue, ArraySum
<1>7. ArrayIsInteger' = (ptr' # << >> => Parsed(s', ptr', v'))
  BY <1>1, <1>2, <1>5, <1>6 DEF ArrayIsInteger, Parsed, Called
<1> QED BY <1>3, <1>4, <1>6, <1>7 DEF Called

(* Memory holds words from the start. *)
LEMMA BeforeIs ==
    ASSUME TypeOK
    PROVE  /\ HasWords(Before)
           /\ is_multi_word => \A i \in Index : Before[i] = v[i] /\ v[i] \in Word
<1> DEFINE M == 2^bit_per_u64
<1>1. type \in Types /\ v \in Vint
  BY DEF TypeOK
<1>2. num_u64 \in Nat \ {0} /\ num_u64 = num_word /\ Index = 1 .. num_u64
  BY <1>1, ArraySizes DEF Index
<1>3. \A i \in 1 .. num_u64 : i \in Memory
  BY <1>2, ParseAssumption DEF Memory
<1>4. \A i \in Index : v[i] \in Word
  BY <1>1 DEF Vint, Index
<1>5. is_multi_word => \A i \in Index : Before[i] = v[i] /\ v[i] \in Word
  BY <1>2, <1>3, <1>4 DEF Before
<1>6. CASE is_multi_word
  <2>1. bit_per_word = bit_per_u64
    BY <1>1, <1>6, ArraySizes
  <2>2. Word = U64
    BY <2>1 DEF Word, U64, B
  <2> QED BY <1>2, <1>5, <1>6, <2>2 DEF HasWords
<1>7. CASE ~is_multi_word
  <2>1. M \in Nat /\ M >= 2
    <3>1. bit_per_u64 \in Nat \ {0}
      BY <1>1, ArraySizes
    <3> DEFINE k == bit_per_u64 - 1
    <3>2. k \in Nat /\ k + 1 = bit_per_u64
      BY <3>1
    <3> HIDE DEF k
    <3>3. 2^(k + 1) = 2 * 2^k /\ 2^k \in Nat \ {0}
      BY <3>2, TwoExp, TwoPositive
    <3> QED BY <3>2, <3>3
  <2>2. \A i \in 1 .. num_u64 : Before[i] = (i % (M - 1)) + 1
    BY <1>3, <1>7 DEF Before
  <2>3. \A i \in 1 .. num_u64 : (i % (M - 1)) + 1 \in 0 .. M - 1
    <3> TAKE i \in 1 .. num_u64
    <3> HIDE DEF M
    <3> DEFINE n == M - 1
    <3>1. n \in Nat \ {0} /\ i \in Int
      BY <1>2, <2>1
    <3> HIDE DEF n
    <3>2. i % n \in 0 .. n - 1
      BY <3>1
    <3>3. n = M - 1
      BY DEF n
    <3>4. (i % n) + 1 \in 0 .. M - 1
      BY <2>1, <3>2, <3>3
    <3> QED BY <3>4 DEF n
  <2> QED BY <1>5, <2>2, <2>3 DEF HasWords, U64
<1> QED BY <1>5, <1>6, <1>7

(* The call leaves an array of words, whatever the string. *)
LEMMA ParseWords ==
    ASSUME TypeOK, s \in Seq(Chars), Len(s) <= MaxLen
    PROVE  HasWords(ParseStringAsU64(s)) /\ ParseStringAsU64(s) # << >>
<1> DEFINE clean == SanitizeStringInteger(s)
           exported == IF Parses(clean) THEN Export(AbsValue(clean)) ELSE Before
<1>1. type \in Types
  BY DEF TypeOK
<1>2. HasWords(Before)
  BY BeforeIs
<1>3. AbsValue(clean) \in Nat
  BY AbsValueDenoted
<1>4. HasWords(exported)
  <2> HIDE DEF clean
  <2> QED BY <1>1, <1>2, <1>3, ExportIs
<1>5. HasWords(TwosComplement(exported))
  <2> HIDE DEF exported
  <2> QED BY <1>1, <1>4, TwosComplementIs
<1>6. ParseStringAsU64(s) = IF s = << >> THEN Before
                            ELSE IF s[1] = Hyphen THEN TwosComplement(exported) ELSE exported
  BY DEF ParseStringAsU64
<1>7. ASSUME NEW p, DOMAIN p = Memory PROVE p # << >>
  <2>1. 1 \in Memory
    BY <1>1, ArraySizes, ParseAssumption DEF Memory
  <2>2. DOMAIN << >> = {}
    OBVIOUS
  <2> QED BY <1>7, <2>1, <2>2
<1>8. DOMAIN Before = Memory /\ DOMAIN exported = Memory /\ DOMAIN TwosComplement(exported) = Memory
  BY DEF Before, Export, TwosComplement
<1> HIDE DEF exported
<1> QED BY <1>2, <1>4, <1>5, <1>6, <1>7, <1>8

(* The array of a number that begins with its sign or a digit. *)
LEMMA ParseValue ==
    ASSUME TypeOK, s \in Seq(Chars), Len(s) <= MaxLen,
           NEW p, p = ParseStringAsU64(s)
    PROVE  Parsed(s, p, AssignString(p))
<1> SUFFICES ASSUME IsNumber(s), s[1] \notin Separators PROVE Parsed(s, p, AssignString(p))
  BY DEF Parsed
<1> DEFINE clean == SanitizeStringInteger(s)  exported == Export(AbsValue(clean))  n == Denoted(s)
           integer == IF Negative(s) THEN -n ELSE n  m == WeightU64(num_u64)
<1>1. type \in Types /\ num_u64 \in Nat
  BY ArraySizes DEF TypeOK
<1>2. AbsValue(clean) = n /\ n \in Nat /\ Parses(clean)
  BY AbsValueDenoted, ParsesIs
<1>3. s # << >> /\ s[1] \in Chars /\ Len(s) \in Nat /\ DOMAIN s = 1 .. Len(s) /\ 1 \in DOMAIN s
  <2>1. s # << >>
    BY DEF IsNumber
  <2> QED BY <2>1
<1>4. s[1] \in Digits \/ s[1] = Hyphen
  BY <1>3 DEF Chars
<1>5. Hyphen \notin Digits
  BY ParseAssumption
<1>6. Negative(s) <=> s[1] = Hyphen
  <2>1. ASSUME s[1] = Hyphen PROVE Negative(s)
    <3>1. \A j \in 1 .. 1 : j = 1
      OBVIOUS
    <3>2. \A j \in 1 .. 1 : s[j] \notin Digits
      BY <1>5, <2>1, <3>1
    <3> QED BY <1>3, <2>1, <3>2 DEF Negative
  <2>2. ASSUME Negative(s) PROVE s[1] = Hyphen
    <3>1. PICK i \in DOMAIN s : s[i] = Hyphen /\ \A j \in 1 .. i : s[j] \notin Digits
      BY <2>2 DEF Negative
    <3>2. 1 \in 1 .. i
      BY <1>3
    <3> QED BY <1>4, <3>1, <3>2
  <2> QED BY <2>1, <2>2
<1>7. p = IF s[1] = Hyphen THEN TwosComplement(exported) ELSE exported
  BY <1>2, <1>3 DEF ParseStringAsU64
<1>8. HasWords(exported) /\ ArraySum(exported) = n % m
  BY <1>1, <1>2, ExportIs
<1>9. /\ HasWords(TwosComplement(exported))
      /\ ArraySum(TwosComplement(exported)) = (-(n % m)) % m
  <2> HIDE DEF exported
  <2> QED BY <1>1, <1>8, TwosComplementIs
<1>10. m \in Nat \ {0}
  BY <1>1, ArrayWeights
<1> HIDE DEF exported, clean, n, m
<1>11. (-(n % m)) % m = (-n) % m
  <2> DEFINE q == n \div m  r == n % m  a == -r
  <2>1. q \in Int /\ r \in Int /\ n = q * m + r
    BY <1>2, <1>10
  <2> HIDE DEF q, r
  <2> DEFINE b == -n  k == -q
  <2>2. a \in Int /\ k \in Int /\ b = a + k * m
    <3>1. (-q) * m = -(q * m) /\ q * m \in Int
      BY <1>10, <2>1
    <3> QED BY <1>2, <2>1, <3>1
  <2> HIDE DEF a, b, k
  <2>3. b % m = a % m
    BY <1>10, <2>2, ModPlusMultiple
  <2> QED BY <2>3 DEF a, b, r
<1>12. integer \in Int
  BY <1>2
<1>13. HasWords(p) /\ ArraySum(p) = integer % m
  BY <1>6, <1>7, <1>8, <1>9, <1>11
<1> HIDE DEF integer
<1>14. Is(AssignString(p), integer % 2^num_bit)
  BY <1>1, <1>12, <1>13, AssignStringIs DEF m
<1> QED BY <1>13, <1>14 DEF Parsed, Is, integer, n, m

(* What the call writes: of a string that is no number nothing is exported, *)
(* but if it starts with a minus sign what is there is negated.             *)
LEMMA ParseWrites ==
    ASSUME TypeOK, s \in Seq(Chars), Len(s) <= MaxLen,
           NEW p, p = ParseStringAsU64(s)
    PROVE  /\ ~IsNumber(s) =>
                 IF s # << >> /\ s[1] = Hyphen
                 THEN /\ ArraySum(p) = (-OldValue) % WeightU64(num_u64)
                      /\ is_multi_word => Val(AssignString(p)) = (-Val(v)) % 2^num_bit
                 ELSE p = Before /\ (is_multi_word => AssignString(p) = v)
           /\ \A i \in Memory :
                 i > num_u64 /\ (IsNumber(s) => Denoted(s) < WeightU64(i - 1))
                     => p[i] = Before[i]
<1> DEFINE clean == SanitizeStringInteger(s)
           exported == IF Parses(clean) THEN Export(AbsValue(clean)) ELSE Before
<1>1. type \in Types /\ num_u64 \in Nat \ {0} /\ num_u64 = num_word /\ Index = 1 .. num_u64
  BY ArraySizes DEF TypeOK, Index
<1>2. p = IF s = << >> THEN Before
          ELSE IF s[1] = Hyphen THEN TwosComplement(exported) ELSE exported
  BY DEF ParseStringAsU64
<1>3. Parses(clean) = IsNumber(s) /\ AbsValue(clean) = Denoted(s) /\ Denoted(s) \in Nat
  BY ParsesIs, AbsValueDenoted
<1>4. ASSUME ~IsNumber(s), ~(s # << >> /\ s[1] = Hyphen)
      PROVE  p = Before /\ (is_multi_word => AssignString(p) = v)
  <2>1. p = Before
    BY <1>2, <1>3, <1>4
  <2>2. ASSUME is_multi_word PROVE AssignString(p) = v
    <3>1. \A i \in Index : p[i] = v[i] /\ v[i] \in 0 .. B - 1
      BY <2>1, <2>2, BeforeIs DEF Word
    <3>2. B \in Nat \ {0}
      BY <1>1, Weights
    <3>3. \A i \in Index : p[i] % B = v[i]
      BY <3>1, <3>2
    <3>4. v \in Vint /\ Val(v) < 2^num_bit /\ v = [i \in Index |-> v[i]]
      BY DEF TypeOK, Vint, Index
    <3>5. [i \in Index |-> p[i] % B] = v
      BY <3>3, <3>4
    <3>6. ClearUnusedBits(v) = v
      BY <1>1, <3>4, ClearIs
    <3> QED BY <3>5, <3>6 DEF AssignString
  <2> QED BY <2>1, <2>2
<1>5. ASSUME ~IsNumber(s), s # << >> /\ s[1] = Hyphen
      PROVE  /\ ArraySum(p) = (-OldValue) % WeightU64(num_u64)
             /\ is_multi_word => Val(AssignString(p)) = (-Val(v)) % 2^num_bit
  <2>1. p = TwosComplement(Before)
    BY <1>2, <1>3, <1>5
  <2>2. HasWords(Before) /\ OldValue = ArraySum(Before)
    BY BeforeIs DEF OldValue, ArraySum
  <2>3. HasWords(p) /\ ArraySum(p) = (-OldValue) % WeightU64(num_u64)
    <3>1. /\ HasWords(TwosComplement(Before))
          /\ ArraySum(TwosComplement(Before)) = (-ArraySum(Before)) % WeightU64(num_u64)
      BY <1>1, <2>2, TwosComplementIs
    <3> QED BY <2>1, <2>2, <3>1
  <2>4. OldValue \in Nat
    <3> DEFINE n == ArraySum(Before)  m == WeightU64(num_u64)
    <3>1. n \in 0 .. m - 1 /\ m \in Nat \ {0}
      BY <1>1, <2>2, ArrayIs
    <3>2. OldValue = n
      BY <2>2
    <3> HIDE DEF n, m
    <3> QED BY <3>1, <3>2
  <2>5. ASSUME is_multi_word PROVE Val(AssignString(p)) = (-Val(v)) % 2^num_bit
    <3>1. v \in Vint /\ \A i \in Index : Before[i] = v[i]
      BY <2>5, BeforeIs DEF TypeOK
    <3>2. v = AsWords(Before)
      BY <3>1 DEF AsWords, Vint, Index
    <3>3. OldValue = Val(v)
      BY <1>1, <2>2, <2>5, <3>2, ArrayIs
    <3>4. -OldValue \in Int
      BY <2>4
    <3>5. Is(AssignString(p), (-OldValue) % 2^num_bit)
      BY <1>1, <2>3, <3>4, AssignStringIs
    <3> QED BY <3>3, <3>5 DEF Is
  <2> QED BY <2>3, <2>5
<1>6. ASSUME NEW i \in Memory, i > num_u64, IsNumber(s) => Denoted(s) < WeightU64(i - 1)
      PROVE  p[i] = Before[i]
  <2>1. i - 1 \in Nat /\ ~(i <= num_u64)
    BY <1>1, <1>6 DEF Memory
  <2>2. WeightU64(i - 1) \in Nat
    BY <1>1, <2>1, ArrayWeights
  <2>3. exported[i] = Before[i]
    <3>1. CASE Parses(clean)
      <4> DEFINE n == AbsValue(clean)
      <4>1. ~(n >= WeightU64(i - 1))
        <5>1. n = Denoted(s) /\ n \in Nat /\ n < WeightU64(i - 1)
          BY <1>3, <1>6, <3>1
        <5> HIDE DEF n
        <5> QED BY <2>2, <5>1
      <4>2. Export(n)[i] = Before[i]
        BY <2>1, <4>1 DEF Export
      <4> QED BY <3>1, <4>2
    <3>2. CASE ~Parses(clean)
      BY <3>2
    <3> QED BY <3>1, <3>2
  <2>4. TwosComplement(exported)[i] = exported[i]
    BY <2>1 DEF TwosComplement
  <2> HIDE DEF exported
  <2> QED BY <1>2, <2>3, <2>4
<1> HIDE DEF exported
<1> QED BY <1>4, <1>5, <1>6

(* Before the call any vint and the empty string. *)
LEMMA ParseInitIs == ASSUME ParseInit PROVE ParseTypeOK /\ ~Called
<1>1. type \in Types /\ v \in Operands /\ s = << >> /\ ptr = << >>
  BY DEF ParseInit
<1>2. v \in Vint /\ Val(v) < 2^num_bit
  BY <1>1, OperandsAre
<1>3. << >> \in Seq(Chars) /\ Len(<< >>) = 0 /\ 0 <= MaxLen
  BY ParseAssumption
<1> QED BY <1>1, <1>2, <1>3 DEF ParseTypeOK, TypeOK, Called

(* Each step. *)
LEMMA ParseNextIs ==
    ASSUME ParseTypeOK, ParseNext
    PROVE  ParseTypeOK' /\ ArrayIsInteger'
<1>1. TypeOK /\ s \in Seq(Chars) /\ Len(s) <= MaxLen /\ type \in Types
  BY DEF ParseTypeOK, TypeOK
<1>2. CASE NextChar
  <2>1. type' = type /\ v' = v /\ ptr' = << >>
    BY <1>2 DEF NextChar
  <2>2. s' \in Seq(Chars) /\ Len(s') <= MaxLen
    <3>1. PICK c \in Chars : s' = Append(s, c)
      BY <1>2 DEF NextChar
    <3>2. Len(s) < MaxLen /\ Len(s) \in Nat /\ MaxLen \in Nat
      BY <1>1, <1>2, ParseAssumption DEF NextChar
    <3>3. Append(s, c) \in Seq(Chars) /\ Len(Append(s, c)) = Len(s) + 1
      BY <1>1
    <3> QED BY <3>1, <3>2, <3>3
  <2>3. TypeOK'
    BY <1>1, <2>1, ParseLater DEF TypeOK
  <2>4. ~Called' /\ ArrayIsInteger'
    BY <2>1, ParseLater
  <2> QED BY <2>2, <2>3, <2>4 DEF ParseTypeOK
<1>3. CASE Parse
  <2> DEFINE p == ParseStringAsU64(s)
  <2>1. type' = type /\ s' = s /\ ptr' = p /\ v' = AssignString(p)
    BY <1>3 DEF Parse
  <2>2. HasWords(p)
    BY <1>1, ParseWords
  <2>3. v' \in Vint /\ Val(v') < 2^num_bit
    <3> DEFINE n == ArraySum(p)  m == WeightU64(num_u64)  N == 2^num_bit
    <3>1. n \in 0 .. m - 1 /\ m \in Nat \ {0} /\ N \in Nat \ {0}
      <4>1. N \in Nat \ {0}
        BY <1>1, Weights
      <4> HIDE DEF p
      <4> QED BY <1>1, <2>2, <4>1, ArrayIs
    <3>2. n = n % m /\ n \in Int /\ n % N < N
      <4> HIDE DEF n, m, N
      <4> QED BY <3>1
    <3>3. Is(AssignString(p), n % N)
      <4>1. HasWords(p) /\ n \in Int /\ ArraySum(p) = n % m
        BY <2>2, <3>2
      <4> QED BY <1>1, <4>1, AssignStringIs
    <3> HIDE DEF p, n
    <3> QED BY <2>1, <3>2, <3>3 DEF Is
  <2>4. Parsed(s, p, AssignString(p))
    BY <1>1, ParseValue
  <2> HIDE DEF p
  <2>5. TypeOK' /\ HasWords(ptr)' /\ ArrayIsInteger'
    BY <1>1, <2>1, <2>2, <2>3, <2>4, ParseLater
  <2> QED BY <1>1, <2>1, <2>5 DEF ParseTypeOK
<1> QED BY <1>2, <1>3 DEF ParseNext

(* A vint that takes a string is num_word words whose unused bits are       *)
(* clear, whatever was in the array before and whatever the string.         *)
THEOREM ParseTypeCorrect == ParseSpec => []ParseTypeOK
<1>1. ParseInit => ParseTypeOK
  BY ParseInitIs
<1>2. ParseTypeOK /\ [ParseNext]_parseVars => ParseTypeOK'
  <2> SUFFICES ASSUME ParseTypeOK, [ParseNext]_parseVars PROVE ParseTypeOK'
    OBVIOUS
  <2>1. CASE ParseNext
    BY <2>1, ParseNextIs
  <2>2. CASE UNCHANGED parseVars
    <3>1. type' = type /\ v' = v /\ s' = s /\ ptr' = ptr
      BY <2>2 DEF parseVars
    <3> QED BY <3>1, ParseLater DEF ParseTypeOK, TypeOK, Called
  <2> QED BY <2>1, <2>2
<1> QED BY <1>1, <1>2, PTL DEF ParseSpec

(* A string that begins with its sign or a digit is parsed as the integer   *)
(* it denotes, modulo the size of the array, and assigned modulo 2^num_bit, *)
(* whatever its digits, its base and the width of the vint.                 *)
THEOREM StringIsInteger == ParseSpec => []ArrayIsInteger
<1>1. ParseInit => ArrayIsInteger
  BY ParseInitIs DEF ArrayIsInteger
<1>2. ParseTypeOK /\ ArrayIsInteger /\ [ParseNext]_parseVars => ArrayIsInteger'
  <2> SUFFICES ASSUME ParseTypeOK, ArrayIsInteger, [ParseNext]_parseVars PROVE ArrayIsInteger'
    OBVIOUS
  <2>1. CASE ParseNext
    BY <2>1, ParseNextIs
  <2>2. CASE UNCHANGED parseVars
    <3>1. type' = type /\ v' = v /\ s' = s /\ ptr' = ptr
      BY <2>2 DEF parseVars
    <3>2. ptr # << >> => Parsed(s, ptr, v)
      BY DEF ArrayIsInteger, Called, Parsed, ArrayValue, ArraySum
    <3> QED BY <3>1, <3>2, ParseLater
  <2> QED BY <2>1, <2>2
<1> QED BY <1>1, <1>2, ParseTypeCorrect, PTL DEF ParseSpec

(* A string that is no number leaves the array, and a vint of several words, *)
(* as they were, unless it starts with a minus sign: then both are negated,  *)
(* whatever was in them.  A word after the array is written only if the      *)
(* number reaches it.                                                        *)
THEOREM OnlyTheArrayWritten == ParseSpec => OnlyTheArray
<1> DEFINE A == Called' /\ ~Called =>
          /\ ~IsNumber(s) =>
                 IF s # << >> /\ s[1] = Hyphen
                 THEN /\ ArrayValue' = (-OldValue) % WeightU64(num_u64)
                      /\ is_multi_word => Val(v') = (-Val(v)) % 2^num_bit
                 ELSE ptr' = Before /\ (is_multi_word => v' = v)
          /\ \A i \in Memory :
                 i > num_u64 /\ (IsNumber(s) => Denoted(s) < WeightU64(i - 1))
                     => ptr'[i] = Before[i]
<1>1. ParseTypeOK /\ [ParseNext]_parseVars => [A]_parseVars
  <2> SUFFICES ASSUME ParseTypeOK, ParseNext, Called', ~Called PROVE A
    OBVIOUS
  <2>1. Parse
    <3>1. ASSUME NextChar PROVE FALSE
      BY <3>1 DEF NextChar, Called
    <3> QED BY <3>1 DEF ParseNext
  <2>2. ptr' = ParseStringAsU64(s) /\ v' = AssignString(ptr') /\ type' = type
    BY <2>1 DEF Parse
  <2>3. TypeOK /\ s \in Seq(Chars) /\ Len(s) <= MaxLen
    BY DEF ParseTypeOK
  <2>4. ArrayValue' = ArraySum(ptr')
    BY <2>2, ParseLater
  <2> QED BY <2>2, <2>3, <2>4, ParseWrites
<1> QED BY <1>1, ParseTypeCorrect, PTL DEF ParseSpec, OnlyTheArray
=============================================================================
