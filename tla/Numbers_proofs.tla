---------------------------- MODULE Numbers_proofs ----------------------------
(***************************************************************************)
(* Facts about numbers that the proofs of several modules rest on: least   *)
(* and greatest elements, and induction in the form the provers can use,   *)
(* on a set rather than on a formula; powers of two, quotients and         *)
(* remainders, multiples, and numbers that are the same but for one.       *)
(***************************************************************************)
EXTENDS Binary, Integers, FiniteSets, FiniteSetTheorems, FunctionTheorems, NaturalsInduction,
        WellFoundedInduction, TLAPS

(* A set of naturals has a least number, and a bounded one a greatest. *)
LEMMA LeastNat ==
    ASSUME NEW S, S \subseteq Nat, S # {}
    PROVE  \E m \in S : \A n \in S : m <= n
<1> DEFINE R == {ss \in Nat \X Nat : ss[1] < ss[2]}
<1>1. IsWellFoundedOn(R, Nat)
  BY NatLessThanWellFounded DEF OpToRel
<1>2. \A x, y \in Nat : <<y, x>> \in R <=> y < x
  OBVIOUS
<1> HIDE DEF R
<1>3. PICK m \in S : \A n \in S : ~ (<<n, m>> \in R)
  BY <1>1, WFMin
<1>4. \A n \in S : n \in Nat /\ m \in Nat /\ ~ (n < m)
  BY <1>2, <1>3
<1>5. \A n \in S : m <= n
  BY <1>4
<1> QED BY <1>5

LEMMA GreatestNat ==
    ASSUME NEW S, S \subseteq Nat, S # {}, NEW b \in Nat, \A n \in S : n <= b
    PROVE  \E m \in S : \A n \in S : n <= m
<1> DEFINE T == {b - n : n \in S}
<1>1. T \subseteq Nat /\ T # {}
  <2>1. \A n \in S : b - n \in Nat
    OBVIOUS
  <2> QED BY <2>1
<1>2. \E t \in T : \A u \in T : t <= u
  <2> HIDE DEF T
  <2> QED BY <1>1, LeastNat
<1>3. PICK m \in S : \A n \in S : b - m <= b - n
  BY <1>2
<1>4. \A n \in S : n \in Nat /\ m \in Nat /\ b - m <= b - n
  BY <1>3
<1>5. \A n \in S : n <= m
  BY <1>4
<1> QED BY <1>5

(* Induction on a set: the form of it the provers can use. *)
LEMMA Induct ==
    ASSUME NEW S, 0 \in S, \A n \in Nat : n \in S => n + 1 \in S
    PROVE  Nat \subseteq S
<1> SUFFICES ASSUME Nat \ S # {} PROVE FALSE
  OBVIOUS
<1>1. PICK m \in Nat \ S : \A n \in Nat \ S : m <= n
  BY LeastNat
<1>2. m # 0 /\ m - 1 \in Nat
  BY <1>1
<1>3. m - 1 \in S
  BY <1>1, <1>2
<1> QED BY <1>1, <1>2, <1>3
-----------------------------------------------------------------------------
(* Powers of two. *)

(* There are twice as many subsets of n + 1 numbers as of n of them.         *)
LEMMA TwoExp ==
    ASSUME NEW n \in Nat PROVE 2^(n + 1) = 2 * 2^n
<1> DEFINE A == SUBSET (1 .. n)
           B == {X \cup {n + 1} : X \in A}
           f == [X \in A |-> X \cup {n + 1}]
<1>1. IsFiniteSet(1 .. n) /\ Cardinality(1 .. n) = n
  BY FS_Interval
<1>2. IsFiniteSet(1 .. n + 1) /\ Cardinality(1 .. n + 1) = n + 1
  BY FS_Interval
<1>3. IsFiniteSet(A) /\ Cardinality(A) = 2^n
  BY <1>1, FS_SUBSET
<1>4. Cardinality(SUBSET (1 .. n + 1)) = 2^(n + 1)
  BY <1>2, FS_SUBSET
<1>5. f \in Bijection(A, B)
  <2>1. f \in [A -> B]  OBVIOUS
  <2>2. ASSUME NEW X \in A, NEW Y \in A, f[X] = f[Y] PROVE X = Y
    <3>1. X \cup {n + 1} = Y \cup {n + 1}  BY <2>2
    <3>2. n + 1 \notin X /\ n + 1 \notin Y  OBVIOUS
    <3> QED  BY <3>1, <3>2
  <2>3. \A Z \in B : \E X \in A : f[X] = Z  OBVIOUS
  <2> HIDE DEF f, A, B
  <2> QED  BY <2>1, <2>2, <2>3 DEF Bijection, Injection, Surjection, IsInjective
<1>6. IsFiniteSet(B) /\ Cardinality(B) = Cardinality(A)
  BY <1>3, <1>5, FS_Bijection DEF ExistsBijection
<1>7. A \cap B = {}
  <2>1. ASSUME NEW X \in A PROVE n + 1 \notin X  OBVIOUS
  <2>2. ASSUME NEW X \in B PROVE n + 1 \in X  OBVIOUS
  <2> QED  BY <2>1, <2>2
<1>8. SUBSET (1 .. n + 1) = A \cup B
  <2>1. ASSUME NEW X, X \subseteq 1 .. n + 1 PROVE X \in A \cup B
    <3>1. CASE n + 1 \in X
      <4>1. \A y \in X \ {n + 1} : y \in 1 .. n  BY <2>1
      <4>2. X = (X \ {n + 1}) \cup {n + 1}  BY <3>1
      <4>3. X \ {n + 1} \in A  BY <4>1
      <4> QED  BY <4>2, <4>3
    <3>2. CASE n + 1 \notin X
      <4>1. X \subseteq 1 .. n  BY <2>1, <3>2
      <4> QED  BY <4>1
    <3> QED  BY <3>1, <3>2
  <2>2. ASSUME NEW X \in A \cup B PROVE X \subseteq 1 .. n + 1
    OBVIOUS
  <2> QED  BY <2>1, <2>2
<1>9. Cardinality(SUBSET (1 .. n + 1)) = Cardinality(A) + Cardinality(B) - 0
  <2>1. Cardinality(A \cup B) = Cardinality(A) + Cardinality(B) - Cardinality(A \cap B)
    BY <1>3, <1>6, FS_Union
  <2> QED  BY <2>1, <1>7, <1>8, FS_EmptySet
<1>10. 2^n \in Nat
  BY <1>3, FS_CardinalityType
<1> HIDE DEF A, B
<1> QED  BY <1>3, <1>4, <1>6, <1>9, <1>10

(* Powers of two are positive. *)
LEMMA TwoPositive == \A n \in Nat : 2^n \in Nat \ {0}
<1> SUFFICES ASSUME NEW n \in Nat PROVE 2^n \in Nat \ {0}
  OBVIOUS
<1>1. IsFiniteSet(1 .. n) /\ Cardinality(1 .. n) = n
  BY FS_Interval
<1>2. IsFiniteSet(SUBSET (1 .. n)) /\ Cardinality(SUBSET (1 .. n)) = 2^n
  BY <1>1, FS_SUBSET
<1>3. SUBSET (1 .. n) # {}
  OBVIOUS
<1> QED  BY <1>2, <1>3, FS_CardinalityType, FS_EmptySet

(* Quotient and remainder are the only ones. *)
LEMMA DivUnique ==
    ASSUME NEW a \in Int, NEW b \in Nat, b > 0, NEW q \in Int, NEW r \in 0 .. b - 1,
           a = q * b + r
    PROVE  a \div b = q /\ a % b = r
<1>1. a \div b = q  OBVIOUS
<1>2. a % b = r  OBVIOUS
<1> QED  BY <1>1, <1>2

(* Their products are powers of two. *)
LEMMA TwoSum == \A m, n \in Nat : 2^(m + n) = 2^m * 2^n
<1> SUFFICES ASSUME NEW m \in Nat PROVE \A n \in Nat : 2^(m + n) = 2^m * 2^n
  OBVIOUS
<1> DEFINE S == {n \in Nat : 2^(m + n) = 2^m * 2^n}
<1>1. 0 \in S
  <2>1. 2^0 = 1 /\ m + 0 = m /\ 2^m \in Nat
    BY TwoPositive
  <2> QED BY <2>1
<1>2. ASSUME NEW n \in Nat, n \in S PROVE n + 1 \in S
  <2>1. 2^(m + n) = 2^m * 2^n
    BY <1>2
  <2>2. 2^(n + 1) = 2 * 2^n /\ 2^(m + n + 1) = 2 * 2^(m + n)
    BY TwoExp
  <2>3. m + (n + 1) = m + n + 1
    OBVIOUS
  <2> DEFINE x == 2^m  y == 2^n
  <2>4. x \in Nat /\ y \in Nat
    BY TwoPositive
  <2> HIDE DEF x, y
  <2>5. x * (2 * y) = 2 * (x * y)
    BY <2>4
  <2>6. 2^(m + (n + 1)) = 2^m * 2^(n + 1)
    BY <2>1, <2>2, <2>3, <2>5 DEF x, y
  <2> QED BY <2>6
<1> HIDE DEF S
<1>3. Nat \subseteq S
  BY <1>1, <1>2, Induct
<1> QED BY <1>3 DEF S

-----------------------------------------------------------------------------
(* Multiples, remainders and digits. *)

Multiple(x, m) == x \in Nat /\ \E q \in Nat : x = m * q

(* Adding multiples does not change a remainder. *)
LEMMA ModPlusMultiple ==
    ASSUME NEW x \in Int, NEW m \in Nat \ {0}, NEW q \in Int
    PROVE  (x + q * m) % m = x % m
<1> DEFINE d == x \div m  y == x % m
<1>1. d \in Int /\ y \in 0 .. m - 1 /\ x = d * m + y
  OBVIOUS
<1> HIDE DEF d, y
<1>2. x + q * m = (d + q) * m + y
  BY <1>1
<1> DEFINE e == d + q  z == x + q * m
<1>3. e \in Int /\ z \in Int /\ z = e * m + y
  BY <1>1, <1>2
<1> HIDE DEF e, z
<1>4. z % m = y
  BY <1>1, <1>3, DivUnique
<1> QED BY <1>4 DEF y, z

(* A remainder taken by a multiple first is the same. *)
LEMMA ModOfMod ==
    ASSUME NEW x \in Int, NEW m \in Nat \ {0}, NEW n \in Nat \ {0}, Multiple(n, m)
    PROVE  (x % n) % m = x % m
<1>1. PICK q \in Nat : n = m * q
  BY DEF Multiple
<1> DEFINE d == x \div n  y == x % n
<1>2. d \in Int /\ y \in 0 .. n - 1 /\ x = d * n + y
  OBVIOUS
<1> HIDE DEF d, y
<1> DEFINE k == d * q
<1>3. x = y + k * m /\ k \in Int /\ y \in Int
  BY <1>1, <1>2
<1> HIDE DEF k
<1>4. x % m = y % m
  BY <1>3, ModPlusMultiple
<1> QED BY <1>4 DEF y

(* A number below p * b is its remainder by p and one digit more. *)
LEMMA DigitFact ==
    ASSUME NEW x \in Int, NEW p \in Nat \ {0}, NEW b \in Nat \ {0}
    PROVE  /\ (x \div p) % b \in 0 .. b - 1
           /\ x % (p * b) = (x % p) + ((x \div p) % b) * p
<1> DEFINE q == x \div p  y == x % p
           q2 == q \div b  d == q % b
<1>1. q \in Int /\ y \in 0 .. p - 1 /\ x = q * p + y
  OBVIOUS
<1>a. q = x \div p /\ y = x % p
  OBVIOUS
<1> HIDE DEF q, y
<1>2. q2 \in Int /\ d \in 0 .. b - 1 /\ q = q2 * b + d
  BY <1>1
<1>b. d = q % b
  OBVIOUS
<1> HIDE DEF q2, d
<1>3. x = q2 * (p * b) + (d * p + y)
  <2>1. (q2 * b + d) * p = q2 * (p * b) + d * p
    BY <1>2
  <2> QED BY <1>1, <1>2, <2>1
<1>4. d * p + y \in 0 .. p * b - 1
  <2>1. d * p <= (b - 1) * p
    BY <1>2
  <2>2. (b - 1) * p = p * b - p
    OBVIOUS
  <2>3. d * p \in Nat /\ p * b \in Nat
    BY <1>2
  <2> QED BY <1>1, <2>1, <2>2, <2>3
<1>5. p * b \in Nat /\ p * b > 0
  OBVIOUS
<1>6. x % (p * b) = d * p + y
  <2> DEFINE n == p * b  l == d * p + y
  <2>1. n \in Nat /\ n > 0 /\ l \in 0 .. n - 1 /\ x = q2 * n + l
    BY <1>3, <1>4, <1>5
  <2> HIDE DEF n, l
  <2>2. x % n = l
    BY <1>2, <2>1, DivUnique
  <2> QED BY <2>2 DEF n, l
<1> QED BY <1>1, <1>2, <1>6, <1>a, <1>b

(* A greater power of two is a multiple of a smaller.                        *)
LEMMA PowerMultiple ==
    \A m, n \in Nat : m <= n => Multiple(2^n, 2^m)
<1> SUFFICES ASSUME NEW m \in Nat, NEW n \in Nat, m <= n PROVE Multiple(2^n, 2^m)
  OBVIOUS
<1>1. n - m \in Nat /\ m + (n - m) = n
  OBVIOUS
<1>2. 2^(m + (n - m)) = 2^m * 2^(n - m) /\ 2^(n - m) \in Nat /\ 2^n \in Nat
  BY <1>1, TwoSum, TwoPositive
<1> QED  BY <1>1, <1>2 DEF Multiple

(* Multiples leave nothing, and keep to their remainders.                    *)
LEMMA MultipleMod ==
    ASSUME NEW x, NEW m \in Nat \ {0}, Multiple(x, m)
    PROVE  /\ x % m = 0
           /\ \A n \in Nat \ {0} : Multiple(n, m) => Multiple(x % n, m)
<1>1. PICK t \in Nat : x = m * t
  BY DEF Multiple
<1>2. x \in Nat /\ x = t * m + 0
  BY <1>1
<1>3. x % m = 0
  BY <1>2, DivUnique
<1>4. ASSUME NEW n \in Nat \ {0}, Multiple(n, m) PROVE Multiple(x % n, m)
  <2> DEFINE y == x % n
  <2>1. y \in Nat
    BY <1>2
  <2>2. y % m = 0
    BY <1>2, <1>3, <1>4, ModOfMod
  <2> HIDE DEF y
  <2> DEFINE d == y \div m
  <2>3. d \in Nat /\ y = d * m
    BY <2>1, <2>2
  <2> HIDE DEF d
  <2>4. y = m * d
    BY <2>3
  <2>5. Multiple(y, m)
    BY <2>1, <2>3, <2>4 DEF Multiple
  <2> QED  BY <2>5 DEF y
<1> QED  BY <1>3, <1>4

(* Numbers that are the same but for a multiple of m.                        *)
Congruent(x, y, m) == \E k \in Int : x = y + k * m

(* They leave the same remainder, and by the divisors of m.                  *)
LEMMA CongruentMod ==
    ASSUME NEW x \in Int, NEW y \in Int, NEW m \in Nat \ {0}, Congruent(x, y, m)
    PROVE  /\ x % m = y % m
           /\ \A n \in Nat \ {0} : Multiple(m, n) => x % n = y % n
<1>1. PICK k \in Int : x = y + k * m
  BY DEF Congruent
<1>2. x % m = y % m
  BY <1>1, ModPlusMultiple
<1>3. ASSUME NEW n \in Nat \ {0}, Multiple(m, n) PROVE x % n = y % n
  <2>1. (x % m) % n = x % n /\ (y % m) % n = y % n
    BY <1>3, ModOfMod
  <2> QED  BY <1>2, <2>1
<1> QED  BY <1>2, <1>3

(* The product of remainders is the product.                                 *)
LEMMA CongruentProduct ==
    ASSUME NEW a \in Int, NEW b \in Int, NEW m \in Nat \ {0}
    PROVE  Congruent((a % m) * (b % m), a * b, m)
<1> DEFINE d == a \div m  x == a % m  e == b \div m  y == b % m
<1>1. d \in Int /\ x \in Int /\ a = d * m + x
  OBVIOUS
<1>2. e \in Int /\ y \in Int /\ b = e * m + y
  OBVIOUS
<1> HIDE DEF d, x, e, y
<1> DEFINE k == (d * m) * e + d * y + e * x
<1>3. a * b = k * m + x * y
  <2>1. (d * m + x) * (e * m + y) = (d * m) * (e * m) + (d * m) * y + x * (e * m) + x * y
    BY <1>1, <1>2
  <2>2. /\ (d * m) * (e * m) = ((d * m) * e) * m /\ (d * m) * y = (d * y) * m
        /\ x * (e * m) = (e * x) * m
    BY <1>1, <1>2
  <2>3. ((d * m) * e) * m + (d * y) * m + (e * x) * m = k * m
    BY <1>1, <1>2
  <2> QED  BY <1>1, <1>2, <2>1, <2>2, <2>3
<1>4. k \in Int /\ a * b \in Int /\ x * y \in Int
  BY <1>1, <1>2
<1> HIDE DEF k
<1> DEFINE ab == a * b  xy == x * y
<1>5. xy = ab + (-k) * m /\ -k \in Int
  <2>1. (-k) * m = -(k * m) /\ k * m \in Int
    BY <1>4
  <2> QED  BY <1>3, <1>4, <2>1
<1>6. Congruent(xy, ab, m)
  BY <1>5 DEF Congruent
<1> QED  BY <1>6 DEF x, y

-----------------------------------------------------------------------------
(* Bits: recursion, sums, and the operators of Binary. *)

(* g is defined by recursion: it begins with a, and step[i] makes g[i] of   *)
(* g[i - 1].                                                                *)
RecursionOf(g, n, a, step) == g[0] = a /\ \A i \in 1 .. n : g[i] = step[i][g[i - 1]]

(* There is such a function. *)
LEMMA Recursion ==
    ASSUME NEW n \in Nat, NEW D, NEW a \in D, NEW step \in [1 .. n -> [D -> D]]
    PROVE  \E g \in [0 .. n -> D] : RecursionOf(g, n, a, step)
<1> DEFINE upto(m) == \E g \in [0 .. m -> D] :
                          g[0] = a /\ \A i \in 1 .. m : g[i] = step[i][g[i - 1]]
           S == {m \in Nat : m <= n => upto(m)}
<1>1. 0 \in S
  <2> DEFINE g == [i \in 0 .. 0 |-> a]
  <2>1. g \in [0 .. 0 -> D] /\ g[0] = a /\ \A i \in 1 .. 0 : g[i] = step[i][g[i - 1]]
    OBVIOUS
  <2> HIDE DEF g
  <2>2. upto(0)
    BY <2>1
  <2> QED BY <2>2
<1>2. ASSUME NEW m \in Nat, m \in S PROVE m + 1 \in S
  <2> SUFFICES ASSUME m + 1 <= n PROVE upto(m + 1)
    OBVIOUS
  <2>1. PICK g \in [0 .. m -> D] : g[0] = a /\ \A i \in 1 .. m : g[i] = step[i][g[i - 1]]
    BY <1>2
  <2> DEFINE h == [i \in 0 .. m + 1 |-> IF i = m + 1 THEN step[m + 1][g[m]] ELSE g[i]]
  <2>2. step[m + 1][g[m]] \in D
    <3>1. m + 1 \in 1 .. n /\ g[m] \in D
      BY <2>1
    <3> QED BY <3>1
  <2>3. \A i \in 0 .. m + 1 : h[i] = IF i = m + 1 THEN step[m + 1][g[m]] ELSE g[i]
    OBVIOUS
  <2>4. h \in [0 .. m + 1 -> D]
    <3>1. \A i \in 0 .. m + 1 : i # m + 1 => i \in 0 .. m
      OBVIOUS
    <3> QED BY <2>1, <2>2, <3>1
  <2> HIDE DEF h
  <2>5. h[0] = a
    BY <2>1, <2>3
  <2>6. ASSUME NEW i \in 1 .. m + 1 PROVE h[i] = step[i][h[i - 1]]
    <3>1. CASE i = m + 1
      <4>1. i \in 0 .. m + 1 /\ i - 1 \in 0 .. m + 1 /\ i - 1 # m + 1 /\ i - 1 = m
        BY <3>1
      <4> QED BY <2>3, <3>1, <4>1
    <3>2. CASE i # m + 1
      <4>1. i \in 0 .. m + 1 /\ i - 1 \in 0 .. m + 1 /\ i - 1 # m + 1 /\ i \in 1 .. m
        BY <3>2
      <4> QED BY <2>1, <2>3, <3>2, <4>1
    <3> QED BY <3>1, <3>2
  <2> QED BY <2>4, <2>5, <2>6
<1> HIDE DEF S
<1>3. Nat \subseteq S
  BY <1>1, <1>2, Induct
<1> QED BY <1>3 DEF S, RecursionOf

(* A sum is found term by term. *)
LEMMA TotalIs ==
    ASSUME NEW n \in Nat, NEW term, \A i \in 0 .. n - 1 : term[i] \in Int
    PROVE  \E up \in [0 .. n -> Int] :
              /\ up[0] = 0 /\ \A i \in 1 .. n : up[i] = up[i - 1] + term[i - 1]
              /\ Total(n, term) = up[n]
<1> DEFINE Upto(f) == f = [i \in 0 .. n |-> IF i = 0 THEN 0 ELSE f[i - 1] + term[i - 1]]
           step == [i \in 1 .. n |-> [z \in Int |-> z + term[i - 1]]]
<1>1. step \in [1 .. n -> [Int -> Int]]
  <2>1. \A i \in 1 .. n : i - 1 \in 0 .. n - 1
    OBVIOUS
  <2> QED BY <2>1
<1>2. \A i \in 1 .. n : \A z \in Int : step[i][z] = z + term[i - 1]
  OBVIOUS
<1> HIDE DEF step
<1>3. PICK g \in [0 .. n -> Int] : g[0] = 0 /\ \A i \in 1 .. n : g[i] = step[i][g[i - 1]]
  <2>1. 0 \in Int
    OBVIOUS
  <2>2. \E g \in [0 .. n -> Int] : RecursionOf(g, n, 0, step)
    BY <1>1, <2>1, Recursion
  <2> QED BY <2>2 DEF RecursionOf
<1>4. Upto(g)
  <2>1. ASSUME NEW i \in 0 .. n PROVE g[i] = IF i = 0 THEN 0 ELSE g[i - 1] + term[i - 1]
    <3>1. CASE i = 0
      BY <1>3, <3>1
    <3>2. CASE i # 0
      <4>1. i \in 1 .. n /\ i - 1 \in 0 .. n
        BY <3>2
      <4>2. g[i - 1] \in Int /\ g[i] = step[i][g[i - 1]]
        BY <1>3, <4>1
      <4> QED BY <1>2, <3>2, <4>1, <4>2
    <3> QED BY <3>1, <3>2
  <2> QED BY <1>3, <2>1
<1> DEFINE up == CHOOSE f : Upto(f)
<1>5. Upto(up)
  BY <1>4
<1>6. Total(n, term) = up[n]
  BY DEF Total
<1> HIDE DEF up
<1>7. \A i \in 0 .. n : up[i] = IF i = 0 THEN 0 ELSE up[i - 1] + term[i - 1]
  BY <1>5
<1>8. up[0] = 0 /\ \A i \in 1 .. n : up[i] = up[i - 1] + term[i - 1]
  BY <1>7
<1> DEFINE S == {m \in Nat : m <= n => up[m] \in Int}
<1>9. Nat \subseteq S
  <2>1. 0 \in S
    BY <1>8
  <2>2. ASSUME NEW m \in Nat, m \in S PROVE m + 1 \in S
    <3> SUFFICES ASSUME m + 1 <= n PROVE up[m + 1] \in Int
      OBVIOUS
    <3>1. m + 1 \in 1 .. n /\ m \in 0 .. n - 1 /\ (m + 1) - 1 = m /\ up[m] \in Int
      BY <2>2
    <3>2. up[m + 1] = up[m] + term[m]
      BY <1>8, <3>1
    <3> QED BY <3>1, <3>2
  <2> HIDE DEF S
  <2> QED BY <2>1, <2>2, Induct
<1>10. \A m \in 0 .. n : up[m] \in Int
  BY <1>9
<1>11. up \in [0 .. n -> Int]
  <2>1. up = [i \in 0 .. n |-> IF i = 0 THEN 0 ELSE up[i - 1] + term[i - 1]]
    BY <1>5
  <2>2. DOMAIN up = 0 .. n /\ up = [i \in DOMAIN up |-> up[i]]
    BY <2>1
  <2> QED BY <1>10, <2>2
<1> QED BY <1>6, <1>8, <1>11

(* What a sum begins with, and what a term adds to it.                      *)
LEMMA TotalStep ==
    ASSUME NEW n \in Nat, NEW term, \A i \in 0 .. n - 1 : term[i] \in Int
    PROVE  /\ Total(0, term) = 0
           /\ \A m \in 0 .. n : Total(m, term) \in Int
           /\ \A m \in 0 .. n - 1 : Total(m + 1, term) = Total(m, term) + term[m]
<1>1. PICK up \in [0 .. n -> Int] :
        up[0] = 0 /\ \A i \in 1 .. n : up[i] = up[i - 1] + term[i - 1]
  BY TotalIs, ZenonT(60)
<1>2. ASSUME NEW m \in 0 .. n PROVE Total(m, term) = up[m]
  <2>1. m \in Nat /\ \A i \in 0 .. m - 1 : term[i] \in Int
    OBVIOUS
  <2>2. PICK g \in [0 .. m -> Int] :
          /\ g[0] = 0 /\ \A i \in 1 .. m : g[i] = g[i - 1] + term[i - 1]
          /\ Total(m, term) = g[m]
    BY <2>1, TotalIs
  <2> DEFINE S == {k \in Nat : k <= m => g[k] = up[k]}
  <2>3. 0 \in S
    BY <1>1, <2>2
  <2>4. ASSUME NEW k \in Nat, k \in S PROVE k + 1 \in S
    <3> SUFFICES ASSUME k + 1 <= m PROVE g[k + 1] = up[k + 1]
      OBVIOUS
    <3>1. k + 1 \in 1 .. m /\ k + 1 \in 1 .. n /\ (k + 1) - 1 = k /\ g[k] = up[k]
      BY <2>4
    <3>2. g[k + 1] = g[k] + term[k] /\ up[k + 1] = up[k] + term[k]
      BY <1>1, <2>2, <3>1
    <3> QED BY <3>1, <3>2
  <2> HIDE DEF S
  <2>5. m \in S
    BY <2>1, <2>3, <2>4, Induct
  <2> QED BY <2>2, <2>5 DEF S
<1>3. 0 \in 0 .. n /\ Total(0, term) = 0
  BY <1>1, <1>2
<1>4. \A m \in 0 .. n : Total(m, term) \in Int
  BY <1>1, <1>2
<1>5. ASSUME NEW m \in 0 .. n - 1 PROVE Total(m + 1, term) = Total(m, term) + term[m]
  <2>1. m \in 0 .. n /\ m + 1 \in 0 .. n /\ m + 1 \in 1 .. n /\ (m + 1) - 1 = m
    OBVIOUS
  <2> QED BY <1>1, <1>2, <2>1
<1> QED BY <1>3, <1>4, <1>5

(* A bit is zero or one. *)
LEMMA BitRange == \A x \in Int, i \in Nat : BitOf(x, i) \in {0, 1}
<1> SUFFICES ASSUME NEW x \in Int, NEW i \in Nat PROVE BitOf(x, i) \in {0, 1}
  OBVIOUS
<1> DEFINE p == 2^i
<1>1. p \in Nat \ {0}
  BY TwoPositive
<1> HIDE DEF p
<1> DEFINE q == x \div p
<1>2. q \in Int
  BY <1>1
<1> HIDE DEF q
<1>3. q % 2 \in {0, 1}
  BY <1>2
<1> QED BY <1>3 DEF BitOf, p, q

(* The bits of h followed by the m bits of l. *)
LEMMA JoinBits ==
    ASSUME NEW h \in Nat, NEW m \in Nat, NEW l \in 0 .. 2^m - 1, NEW i \in Nat
    PROVE  BitOf(h * 2^m + l, i) = IF i < m THEN BitOf(l, i) ELSE BitOf(h, i - m)
<1> DEFINE p == 2^m  a == 2^i
<1>1. p \in Nat \ {0} /\ a \in Nat \ {0} /\ l \in 0 .. p - 1
  BY TwoPositive
<1>2. CASE i < m
  <2> DEFINE d == m - i - 1  c == 2^d
  <2>1. d \in Nat /\ m = i + (d + 1)
    BY <1>2
  <2>2. 2^(i + (d + 1)) = 2^i * 2^(d + 1) /\ 2^(d + 1) = 2 * 2^d
    <3> HIDE DEF d
    <3>1. d + 1 \in Nat
      BY <2>1
    <3> QED BY <2>1, <3>1, TwoSum, TwoExp
  <2>3. c \in Nat /\ p = a * (2 * c)
    BY <2>1, <2>2, TwoPositive
  <2> HIDE DEF p, a, c, d
  <2> DEFINE q == l \div a  r == l % a
  <2>4. q \in Int /\ r \in 0 .. a - 1 /\ l = q * a + r
    BY <1>1
  <2> HIDE DEF q, r
  <2> DEFINE z == q + (h * c) * 2  x == h * p + l
  <2>5. z \in Int /\ x \in Int
    BY <1>1, <2>3, <2>4
  <2>6. x = z * a + r
    <3>1. h * (a * (2 * c)) = ((h * c) * 2) * a
      BY <1>1, <2>3
    <3>2. (q + (h * c) * 2) * a = q * a + ((h * c) * 2) * a
      BY <1>1, <2>3, <2>4
    <3>3. z * a = q * a + h * p
      BY <2>3, <3>1, <3>2
    <3> DEFINE hp == h * p  qa == q * a  za == z * a
    <3>4. hp \in Int /\ qa \in Int /\ za = qa + hp /\ l = qa + r /\ x = hp + l
      BY <1>1, <2>3, <2>4, <3>3
    <3>5. x = za + r
      <4> HIDE DEF hp, qa, za, x
      <4> QED BY <2>4, <3>4
    <3> QED BY <3>5
  <2>7. x \div a = z
    <3> HIDE DEF z, x
    <3> QED BY <1>1, <2>4, <2>5, <2>6, DivUnique
  <2>8. z % 2 = q % 2
    <3>1. h * c \in Int
      BY <2>3
    <3> QED BY <2>4, <3>1, ModPlusMultiple
  <2> QED BY <1>2, <2>7, <2>8 DEF BitOf, a, p, q
<1>3. CASE ~(i < m)
  <2> DEFINE e == i - m  c == 2^e
  <2>1. e \in Nat /\ i = m + e
    BY <1>3
  <2>2. 2^(m + e) = 2^m * 2^e
    BY <2>1, TwoSum
  <2>3. c \in Nat \ {0} /\ a = p * c
    BY <2>1, <2>2, TwoPositive
  <2> HIDE DEF p, a, c, e
  <2> DEFINE q == h \div c  r == h % c
  <2>4. q \in Int /\ r \in 0 .. c - 1 /\ h = q * c + r
    BY <2>3
  <2> HIDE DEF q, r
  <2> DEFINE y == r * p + l  x == h * p + l
  <2>5. y \in 0 .. a - 1
    <3>1. r * p <= (c - 1) * p /\ r * p \in Nat
      BY <1>1, <2>3, <2>4
    <3>2. (c - 1) * p = p * c - p
      BY <1>1, <2>3
    <3> QED BY <1>1, <2>3, <3>1, <3>2
  <2>6. x = q * a + y
    <3>1. (q * c + r) * p = q * (p * c) + r * p
      BY <1>1, <2>3, <2>4
    <3>2. h * p = q * a + r * p
      BY <2>3, <2>4, <3>1
    <3> QED BY <1>1, <2>3, <2>4, <3>2
  <2>7. x \in Int
    BY <1>1
  <2>8. x \div a = q
    <3> HIDE DEF y, x
    <3> QED BY <1>1, <2>4, <2>5, <2>6, <2>7, DivUnique
  <2>9. BitOf(h * 2^m + l, i) = q % 2
    BY <2>8 DEF BitOf, a, p
  <2>10. BitOf(h, i - m) = q % 2
    BY DEF BitOf, c, e, q
  <2> QED BY <1>3, <2>9, <2>10
<1> QED BY <1>2, <1>3

(* A number is its upper bits followed by its lower ones. *)
LEMMA SplitBits ==
    ASSUME NEW x \in Nat, NEW m \in Nat
    PROVE  /\ x \div 2^m \in Nat /\ x % 2^m \in 0 .. 2^m - 1
           /\ x = (x \div 2^m) * 2^m + (x % 2^m)
           /\ \A i \in 0 .. m - 1 : BitOf(x % 2^m, i) = BitOf(x, i)
           /\ \A i \in Nat : BitOf(x \div 2^m, i) = BitOf(x, m + i)
<1> DEFINE p == 2^m
<1>1. p \in Nat \ {0}
  BY TwoPositive
<1> DEFINE h == x \div p  l == x % p
<1>2. h \in Nat /\ l \in 0 .. p - 1 /\ x = h * p + l
  <2> HIDE DEF p
  <2> QED BY <1>1
<1> HIDE DEF h, l
<1>3. \A i \in Nat : BitOf(x, i) = IF i < m THEN BitOf(l, i) ELSE BitOf(h, i - m)
  BY <1>2, JoinBits, ZenonT(60)
<1>4. \A i \in 0 .. m - 1 : BitOf(l, i) = BitOf(x, i)
  BY <1>3
<1>5. ASSUME NEW i \in Nat PROVE BitOf(h, i) = BitOf(x, m + i)
  <2>1. m + i \in Nat /\ ~(m + i < m) /\ (m + i) - m = i
    OBVIOUS
  <2> QED BY <1>3, <2>1
<1>6. \A i \in Nat : BitOf(h, i) = BitOf(x, m + i)
  BY <1>5
<1>7. /\ h = x \div 2^m /\ l = x % 2^m
      /\ h \in Nat /\ l \in 0 .. 2^m - 1 /\ x = h * 2^m + l
  BY <1>2 DEF h, l
<1>8. \A i \in 0 .. m - 1 : BitOf(x % 2^m, i) = BitOf(x, i)
  BY <1>4, <1>7
<1>9. \A i \in Nat : BitOf(x \div 2^m, i) = BitOf(x, m + i)
  BY <1>6, <1>7
<1>10. x = (x \div 2^m) * 2^m + (x % 2^m)
  BY <1>7
<1> QED BY <1>7, <1>8, <1>9, <1>10

(* A number of n bits has no others. *)
LEMMA BitsBeyond ==
    ASSUME NEW n \in Nat, NEW x \in 0 .. 2^n - 1, NEW i \in Nat, i >= n
    PROVE  BitOf(x, i) = 0
<1>1. 2^n \in Nat /\ \A j \in Nat : 2^j \in Nat \ {0}
  BY TwoPositive
<1>2. 0 * 2^n + x = x
  BY <1>1
<1>3. BitOf(x, i) = BitOf(0, i - n)
  BY <1>2, JoinBits
<1> DEFINE p == 2^(i - n)
<1>4. p \in Nat \ {0}
  BY <1>1
<1> HIDE DEF p
<1>5. (0 \div p) % 2 = 0
  BY <1>4
<1> QED BY <1>3, <1>5 DEF BitOf, p

(* Numbers of n bits that are the same are equal. *)
LEMMA SameBits ==
    ASSUME NEW n \in Nat, NEW x \in 0 .. 2^n - 1, NEW y \in 0 .. 2^n - 1,
           \A i \in 0 .. n - 1 : BitOf(x, i) = BitOf(y, i)
    PROVE  x = y
<1>1. 2^n \in Nat \ {0}
  BY TwoPositive
<1>2. x \in Nat /\ y \in Nat
  BY <1>1
<1> DEFINE S == {m \in Nat : m <= n => x % 2^m = y % 2^m}
<1>3. 0 \in S
  <2>1. 2^0 = 1
    OBVIOUS
  <2>2. x % 1 = 0 /\ y % 1 = 0
    BY <1>2
  <2> QED BY <2>1, <2>2
<1>4. ASSUME NEW m \in Nat, m \in S PROVE m + 1 \in S
  <2> SUFFICES ASSUME m + 1 <= n PROVE x % 2^(m + 1) = y % 2^(m + 1)
    OBVIOUS
  <2>1. x % 2^m = y % 2^m /\ BitOf(x, m) = BitOf(y, m)
    BY <1>4
  <2>2. 2^(m + 1) = 2^m * 2 /\ 2^m \in Nat \ {0}
    <3>1. 2^(m + 1) = 2 * 2^m /\ 2^m \in Nat \ {0}
      BY TwoExp, TwoPositive
    <3> QED BY <3>1
  <2>3. \A z \in Nat : z % 2^(m + 1) = (z % 2^m) + BitOf(z, m) * 2^m
    <3> TAKE z \in Nat
    <3> DEFINE p == 2^m
    <3>1. z % (p * 2) = (z % p) + ((z \div p) % 2) * p
      <4>1. p \in Nat \ {0} /\ 2 \in Nat \ {0} /\ z \in Int
        BY <2>2
      <4> HIDE DEF p
      <4> QED BY <4>1, DigitFact
    <3> QED BY <2>2, <3>1 DEF BitOf
  <2> QED BY <1>2, <2>1, <2>3
<1> HIDE DEF S
<1>5. n \in S
  BY <1>3, <1>4, Induct
<1>6. x % 2^n = y % 2^n
  BY <1>5 DEF S
<1> DEFINE p == 2^n
<1>7. x % p = x /\ y % p = y
  <2>1. p \in Nat \ {0} /\ x \in 0 .. p - 1 /\ y \in 0 .. p - 1
    BY <1>1
  <2> HIDE DEF p
  <2> QED BY <2>1
<1> QED BY <1>6, <1>7

(* The lowest bit of a bit is itself, and it has no other. *)
LEMMA BitOfBit == \A b \in {0, 1}, k \in Nat : BitOf(2 * k + b, 0) = b
<1> SUFFICES ASSUME NEW b \in {0, 1}, NEW k \in Nat PROVE BitOf(2 * k + b, 0) = b
  OBVIOUS
<1>1. 2^0 = 1
  OBVIOUS
<1>2. (2 * k + b) \div 1 = 2 * k + b /\ (2 * k + b) % 2 = b
  OBVIOUS
<1> QED BY <1>1, <1>2 DEF BitOf

(* A number made of bits has them and no others. *)
LEMMA FromBitsIs ==
    ASSUME NEW n \in Nat, NEW bit, \A i \in 0 .. n - 1 : bit[i] \in {0, 1}
    PROVE  /\ FromBits(n, bit) \in 0 .. 2^n - 1
           /\ \A i \in 0 .. n - 1 : BitOf(FromBits(n, bit), i) = bit[i]
<1> DEFINE term == [i \in 0 .. n - 1 |-> bit[i] * 2^i]
           T(m) == Total(m, term)
           S == {m \in Nat : m <= n => /\ T(m) \in 0 .. 2^m - 1
                                       /\ \A i \in 0 .. m - 1 : BitOf(T(m), i) = bit[i]}
<1>1. \A i \in 0 .. n - 1 : term[i] = bit[i] * 2^i /\ term[i] \in Int
  BY TwoPositive
<1> HIDE DEF term
<1>2. Total(0, term) = 0 /\ \A m \in 0 .. n - 1 : Total(m + 1, term) = Total(m, term) + term[m]
  BY <1>1, TotalStep
<1> HIDE DEF T
<1>3. 0 \in S
  <2>1. 2^0 = 1 /\ T(0) = 0
    BY <1>2 DEF T
  <2> QED BY <2>1
<1>4. ASSUME NEW m \in Nat, m \in S PROVE m + 1 \in S
  <2> SUFFICES ASSUME m + 1 <= n
               PROVE  /\ T(m + 1) \in 0 .. 2^(m + 1) - 1
                      /\ \A i \in 0 .. m : BitOf(T(m + 1), i) = bit[i]
    OBVIOUS
  <2>1. T(m) \in 0 .. 2^m - 1 /\ \A i \in 0 .. m - 1 : BitOf(T(m), i) = bit[i]
    BY <1>4
  <2>2. m \in 0 .. n - 1 /\ bit[m] \in {0, 1}
    OBVIOUS
  <2>3. T(m + 1) = bit[m] * 2^m + T(m)
    <3>1. T(m + 1) = T(m) + bit[m] * 2^m /\ 2^m \in Nat
      BY <1>1, <1>2, <2>2, TwoPositive DEF T
    <3> QED BY <2>1, <2>2, <3>1
  <2>4. T(m + 1) \in 0 .. 2^(m + 1) - 1
    <3>1. 2^(m + 1) = 2 * 2^m /\ 2^m \in Nat
      BY TwoExp, TwoPositive
    <3> DEFINE p == 2^m  q == 2^(m + 1)
    <3>2. p \in Nat /\ q = 2 * p /\ T(m) \in 0 .. p - 1 /\ T(m + 1) = bit[m] * p + T(m)
      BY <2>1, <2>3, <3>1
    <3> HIDE DEF p, q
    <3>3. T(m + 1) \in 0 .. q - 1
      BY <2>2, <3>2
    <3> QED BY <3>3 DEF q
  <2>5. ASSUME NEW i \in 0 .. m PROVE BitOf(T(m + 1), i) = bit[i]
    <3>1. i \in Nat /\ bit[m] \in Nat
      BY <2>2
    <3>2. BitOf(T(m + 1), i) = IF i < m THEN BitOf(T(m), i) ELSE BitOf(bit[m], i - m)
      BY <2>1, <2>3, <3>1, JoinBits
    <3>3. CASE i < m
      BY <2>1, <3>2, <3>3
    <3>4. CASE ~(i < m)
      <4>1. i = m /\ i - m = 0 /\ 2 * 0 + bit[m] = bit[m]
        BY <2>2, <3>4
      <4> QED BY <2>2, <3>2, <3>4, <4>1, BitOfBit
    <3> QED BY <3>3, <3>4
  <2> QED BY <2>4, <2>5
<1> HIDE DEF S
<1>5. n \in S
  BY <1>3, <1>4, Induct
<1>6. T(n) = FromBits(n, bit)
  BY DEF T, term, FromBits
<1> QED BY <1>5, <1>6 DEF S

(* The bits of a bitwise combination. *)
Combines(z, n, table, x, y) ==
    /\ z \in 0 .. 2^n - 1
    /\ \A i \in 0 .. n - 1 : BitOf(z, i) = table[BitOf(x, i)][BitOf(y, i)]

(* Bitwise has the combined bits, and no others.                            *)
LEMMA BitwiseIs ==
    ASSUME NEW n \in Nat, NEW table \in Tables, NEW x \in Nat, NEW y \in Nat
    PROVE  Combines(Bitwise(n, table, x, y), n, table, x, y)
<1> DEFINE bit == [i \in 0 .. n - 1 |-> table[BitOf(x, i)][BitOf(y, i)]]
<1>1. \A i \in 0 .. n - 1 : BitOf(x, i) \in {0, 1} /\ BitOf(y, i) \in {0, 1}
  BY BitRange
<1>2. \A i \in 0 .. n - 1 : bit[i] = table[BitOf(x, i)][BitOf(y, i)] /\ bit[i] \in {0, 1}
  BY <1>1 DEF Tables
<1>3. Bitwise(n, table, x, y) = FromBits(n, bit)
  BY DEF Bitwise
<1> HIDE DEF bit
<1> QED BY <1>2, <1>3, FromBitsIs DEF Combines

(* The tables. *)
LEMMA TablesAre ==
    /\ And \in Tables /\ Or \in Tables /\ Xor \in Tables
    /\ \A b \in {0, 1} : /\ And[b][0] = 0 /\ And[0][b] = 0 /\ And[b][1] = b
                         /\ Or[b][0] = b /\ Or[b][1] = 1
                         /\ Xor[b][0] = b
    /\ \A a, b \in {0, 1} : Xor[a][b] = (a + b) % 2
BY DEF And, Or, Xor, Tables

(* One bit of a number changed. *)
LEMMA BitPutIn ==
    ASSUME NEW w \in Nat, NEW s \in Nat, NEW b \in {0, 1},
           NEW z, z = w + (b - BitOf(w, s)) * 2^s
    PROVE  /\ z \in Nat
           /\ \A i \in Nat : BitOf(z, i) = IF i = s THEN b ELSE BitOf(w, i)
           /\ \A n \in Nat : s < n /\ w < 2^n => z < 2^n
<1> DEFINE p == 2^s  h == w \div p  l == w % p  k == h \div 2  c == h % 2
<1>1. p \in Nat \ {0}
  BY TwoPositive
<1>2. h \in Nat /\ l \in 0 .. p - 1 /\ w = h * p + l /\ BitOf(w, s) = c
  <2>1. BitOf(w, s) = c
    BY DEF BitOf
  <2> HIDE DEF p, c
  <2> QED BY <1>1, <2>1
<1> HIDE DEF h, l
<1>3. k \in Nat /\ c \in {0, 1} /\ h = 2 * k + c
  BY <1>2
<1> HIDE DEF k, c
<1> DEFINE g == 2 * k + b
<1>4. g \in Nat /\ z = g * p + l
  <2>1. z = w + (b - c) * p
    BY <1>2
  <2>2. (2 * k + c) * p + (b - c) * p = (2 * k + b) * p
    BY <1>1, <1>3
  <2> HIDE DEF p
  <2> QED BY <1>1, <1>2, <1>3, <2>1, <2>2
<1>5. \A e \in Nat : BitOf(g, e) = IF e = 0 THEN b ELSE BitOf(h, e)
  <2> TAKE e \in Nat
  <2>1. 2^1 = 2 /\ b \in 0 .. 2^1 - 1 /\ c \in 0 .. 2^1 - 1 /\ 1 \in Nat
    BY <1>3
  <2>2. CASE e = 0
    BY <1>3, <2>2, BitOfBit
  <2>3. CASE e # 0
    <3>1. g = k * 2^1 + b /\ h = k * 2^1 + c
      BY <1>3, <2>1
    <3>2. ~(e < 1)
      BY <2>3
    <3>3. BitOf(k * 2^1 + b, e) = BitOf(k, e - 1) /\ BitOf(k * 2^1 + c, e) = BitOf(k, e - 1)
      BY <1>3, <2>1, <3>2, JoinBits, ZenonT(60)
    <3> QED BY <2>3, <3>1, <3>3
  <2> QED BY <2>2, <2>3
<1>6. z \in Nat
  <2>1. g * p \in Nat
    BY <1>1, <1>4
  <2> QED BY <1>1, <1>2, <1>4, <2>1
<1>7. ASSUME NEW i \in Nat PROVE BitOf(z, i) = IF i = s THEN b ELSE BitOf(w, i)
  <2> HIDE DEF g
  <2>1. BitOf(z, i) = IF i < s THEN BitOf(l, i) ELSE BitOf(g, i - s)
    <3>1. g \in Nat /\ z = g * 2^s + l /\ l \in 0 .. 2^s - 1
      BY <1>2, <1>4
    <3>2. BitOf(g * 2^s + l, i) = IF i < s THEN BitOf(l, i) ELSE BitOf(g, i - s)
      BY <3>1, JoinBits
    <3> QED BY <3>1, <3>2
  <2>2. BitOf(w, i) = IF i < s THEN BitOf(l, i) ELSE BitOf(h, i - s)
    BY <1>2, JoinBits, ZenonT(60)
  <2>3. CASE i < s
    BY <2>1, <2>2, <2>3
  <2>4. CASE ~(i < s)
    <3>1. i - s \in Nat /\ (i - s = 0 <=> i = s)
      BY <2>4
    <3> QED BY <1>5, <2>1, <2>2, <2>4, <3>1
  <2> QED BY <2>3, <2>4
<1>8. ASSUME NEW n \in Nat, s < n, w < 2^n PROVE z < 2^n
  <2> DEFINE d == n - s - 1  q == 2^d  m == 2^n
  <2>1. d \in Nat /\ n = s + (d + 1)
    BY <1>8
  <2>2. m = p * (2 * q) /\ q \in Nat
    <3> HIDE DEF d
    <3>1. d + 1 \in Nat
      BY <2>1
    <3>2. 2^(s + (d + 1)) = 2^s * 2^(d + 1) /\ 2^(d + 1) = 2 * 2^d
      BY <2>1, <3>1, TwoSum, TwoExp
    <3> QED BY <2>1, <3>2, TwoPositive
  <2>3. w < m
    BY <1>8
  <2> HIDE DEF d, q, m, p, g
  <2>4. h < 2 * q
    <3> SUFFICES ASSUME h >= 2 * q PROVE FALSE
      BY <1>2, <2>2
    <3>1. h * p >= (2 * q) * p
      BY <1>1, <1>2, <2>2
    <3>2. (2 * q) * p = m /\ h * p \in Nat
      BY <1>1, <1>2, <2>2
    <3> DEFINE hp == h * p
    <3>3. hp \in Nat /\ hp >= m /\ w = hp + l /\ l \in Nat
      BY <1>1, <1>2, <3>1, <3>2
    <3> HIDE DEF hp
    <3> QED BY <2>2, <2>3, <3>3
  <2>5. g <= 2 * q - 1
    BY <1>3, <2>2, <2>4 DEF g
  <2>6. g * p <= (2 * q - 1) * p
    BY <1>1, <1>4, <2>2, <2>5
  <2>7. (2 * q - 1) * p = m - p /\ g * p \in Nat
    BY <1>1, <1>4, <2>2
  <2>8. m \in Nat
    BY <1>1, <2>2
  <2>9. z < m
    BY <1>1, <1>2, <1>4, <2>6, <2>7, <2>8
  <2> QED BY <2>9 DEF m
<1> QED BY <1>6, <1>7, <1>8

(* All the bits of 2^n - 1 are ones. *)
LEMMA OnesAre == \A n \in Nat, i \in Nat : i < n => BitOf(2^n - 1, i) = 1
<1> DEFINE S == {n \in Nat : \A i \in 0 .. n - 1 : BitOf(2^n - 1, i) = 1}
<1>1. 0 \in S
  OBVIOUS
<1>2. ASSUME NEW n \in Nat, n \in S PROVE n + 1 \in S
  <2> SUFFICES ASSUME NEW i \in 0 .. n PROVE BitOf(2^(n + 1) - 1, i) = 1
    OBVIOUS
  <2>1. 2^(n + 1) = 2 * 2^n /\ 2^n \in Nat \ {0}
    BY TwoExp, TwoPositive
  <2>2. 2^(n + 1) - 1 = 1 * 2^n + (2^n - 1) /\ 2^n - 1 \in 0 .. 2^n - 1
    BY <2>1
  <2>3. BitOf(2^(n + 1) - 1, i) = IF i < n THEN BitOf(2^n - 1, i) ELSE BitOf(1, i - n)
    <3> DEFINE o == 2^n - 1
    <3>1. 1 \in Nat /\ i \in Nat /\ o \in 0 .. 2^n - 1
      BY <2>2
    <3> HIDE DEF o
    <3>2. BitOf(1 * 2^n + o, i) = IF i < n THEN BitOf(o, i) ELSE BitOf(1, i - n)
      BY <3>1, JoinBits
    <3> QED BY <2>2, <3>2 DEF o
  <2>4. CASE i < n
    BY <1>2, <2>3, <2>4
  <2>5. CASE ~(i < n)
    <3>1. i - n = 0 /\ 2 * 0 + 1 = 1 /\ 0 \in Nat /\ 1 \in {0, 1}
      BY <2>5
    <3>2. BitOf(1, 0) = 1
      BY <3>1, BitOfBit
    <3> QED BY <2>3, <2>5, <3>1, <3>2
  <2> QED BY <2>4, <2>5
<1> HIDE DEF S
<1>3. Nat \subseteq S
  BY <1>1, <1>2, Induct
<1> QED BY <1>3 DEF S

(* A sum in two parts. *)
LEMMA TotalSplit ==
    ASSUME NEW m \in Nat, NEW n \in Nat, NEW f, NEW g,
           \A i \in 0 .. m + n - 1 : f[i] \in Int, \A j \in 0 .. n - 1 : g[j] = f[m + j]
    PROVE  Total(m + n, f) = Total(m, f) + Total(n, g)
<1> DEFINE S == {k \in Nat : k <= n => Total(m + k, f) = Total(m, f) + Total(k, g)}
<1>1. m + n \in Nat /\ \A j \in 0 .. n - 1 : m + j \in 0 .. m + n - 1
  OBVIOUS
<1>2. \A j \in 0 .. n - 1 : g[j] \in Int
  BY <1>1
<1>3. /\ \A k \in 0 .. m + n : Total(k, f) \in Int
      /\ \A k \in 0 .. m + n - 1 : Total(k + 1, f) = Total(k, f) + f[k]
  BY <1>1, TotalStep
<1>4. /\ Total(0, g) = 0 /\ \A k \in 0 .. n : Total(k, g) \in Int
      /\ \A k \in 0 .. n - 1 : Total(k + 1, g) = Total(k, g) + g[k]
  BY <1>2, TotalStep
<1>5. 0 \in S
  <2>1. m \in 0 .. m + n /\ m + 0 = m
    OBVIOUS
  <2> QED BY <1>3, <1>4, <2>1
<1>6. ASSUME NEW k \in Nat, k \in S PROVE k + 1 \in S
  <2> SUFFICES ASSUME k + 1 <= n PROVE Total(m + (k + 1), f) = Total(m, f) + Total(k + 1, g)
    OBVIOUS
  <2>1. k \in 0 .. n - 1 /\ k \in 0 .. n /\ m + k \in 0 .. m + n - 1 /\ m \in 0 .. m + n
    OBVIOUS
  <2>2. Total(m + k, f) = Total(m, f) + Total(k, g)
    BY <1>6, <2>1
  <2>3. (m + k) + 1 = m + (k + 1)
    OBVIOUS
  <2>4. Total(m + (k + 1), f) = Total(m + k, f) + f[m + k]
    BY <1>3, <2>1, <2>3
  <2>5. Total(k + 1, g) = Total(k, g) + g[k] /\ g[k] = f[m + k] /\ g[k] \in Int
    BY <1>2, <1>4, <2>1
  <2>6. Total(m, f) \in Int /\ Total(k, g) \in Int
    BY <1>3, <1>4, <2>1
  <2> QED BY <2>2, <2>4, <2>5, <2>6
<1> HIDE DEF S
<1>7. n \in S
  BY <1>5, <1>6, Induct
<1> QED BY <1>7 DEF S

(* It depends on the terms alone. *)
LEMMA TotalSame ==
    ASSUME NEW n \in Nat, NEW f, NEW g, \A i \in 0 .. n - 1 : f[i] \in Int /\ g[i] = f[i]
    PROVE  Total(n, f) = Total(n, g)
<1>1. \A i \in 0 .. 0 + n - 1 : f[i] \in Int
  OBVIOUS
<1>2. \A j \in 0 .. n - 1 : g[j] = f[0 + j]
  OBVIOUS
<1>3. Total(0 + n, f) = Total(0, f) + Total(n, g)
  BY <1>1, <1>2, TotalSplit
<1>4. Total(0, f) = 0
  BY TotalStep
<1>5. Total(n, g) \in Int
  <2>1. \A i \in 0 .. n - 1 : g[i] \in Int
    OBVIOUS
  <2>2. n \in 0 .. n
    OBVIOUS
  <2> QED BY <2>1, <2>2, TotalStep
<1> QED BY <1>3, <1>4, <1>5

(* The number of bits that are one. *)
Ones(n, x) == Total(n, [i \in 0 .. n - 1 |-> BitOf(x, i)])

(* All the bits are ones if there are as many ones as bits.                 *)
LEMMA OnesCount ==
    ASSUME NEW n \in Nat, NEW x \in Int
    PROVE  Ones(n, x) \in 0 .. n /\ (Ones(n, x) = n <=> \A i \in 0 .. n - 1 : BitOf(x, i) = 1)
<1> DEFINE f == [i \in 0 .. n - 1 |-> BitOf(x, i)]
           S == {m \in Nat : m <= n => /\ Total(m, f) \in 0 .. m
                                       /\ Total(m, f) = m <=> \A i \in 0 .. m - 1 : BitOf(x, i) = 1}
<1>1. \A i \in 0 .. n - 1 : f[i] = BitOf(x, i) /\ f[i] \in {0, 1} /\ f[i] \in Int
  BY BitRange
<1>2. Ones(n, x) = Total(n, f)
  BY DEF Ones
<1> HIDE DEF f
<1>3. Total(0, f) = 0 /\ \A m \in 0 .. n - 1 : Total(m + 1, f) = Total(m, f) + f[m]
  BY <1>1, TotalStep
<1>4. 0 \in S
  BY <1>3
<1>5. ASSUME NEW m \in Nat, m \in S PROVE m + 1 \in S
  <2> SUFFICES ASSUME m + 1 <= n
               PROVE  /\ Total(m + 1, f) \in 0 .. m + 1
                      /\ Total(m + 1, f) = m + 1 <=> \A i \in 0 .. m : BitOf(x, i) = 1
    OBVIOUS
  <2>1. m \in 0 .. n - 1
    OBVIOUS
  <2>2. Total(m + 1, f) = Total(m, f) + f[m] /\ f[m] \in {0, 1} /\ f[m] = BitOf(x, m)
    BY <1>1, <1>3, <2>1
  <2>3. /\ Total(m, f) \in 0 .. m
        /\ Total(m, f) = m <=> \A i \in 0 .. m - 1 : BitOf(x, i) = 1
    BY <1>5, <2>1
  <2>4. (\A i \in 0 .. m : BitOf(x, i) = 1)
          <=> (\A i \in 0 .. m - 1 : BitOf(x, i) = 1) /\ BitOf(x, m) = 1
    OBVIOUS
  <2> QED BY <2>2, <2>3, <2>4
<1> HIDE DEF S
<1>6. n \in S
  BY <1>4, <1>5, Induct
<1> QED BY <1>2, <1>6 DEF S

(* Bits xor-ed together keep the parity. *)
LEMMA XorParity ==
    ASSUME NEW n \in Nat, NEW x \in Nat, NEW y \in Nat, NEW z, Combines(z, n, Xor, x, y)
    PROVE  Ones(n, z) % 2 = (Ones(n, x) + Ones(n, y)) % 2
<1> DEFINE f(w) == [i \in 0 .. n - 1 |-> BitOf(w, i)]
           S == {m \in Nat : m <= n =>
                    Total(m, f(z)) % 2 = (Total(m, f(x)) + Total(m, f(y))) % 2}
<1>1. z \in Nat
  <2>1. 2^n \in Nat
    BY TwoPositive
  <2> QED BY <2>1 DEF Combines
<1>2. \A w \in Nat : \A i \in 0 .. n - 1 : f(w)[i] = BitOf(w, i) /\ f(w)[i] \in {0, 1}
  BY BitRange
<1>3. \A w \in Nat : Ones(n, w) = Total(n, f(w))
  BY DEF Ones
<1> HIDE DEF f
<1>4. ASSUME NEW w \in Nat
      PROVE  /\ Total(0, f(w)) = 0 /\ \A m \in 0 .. n : Total(m, f(w)) \in Int
             /\ \A m \in 0 .. n - 1 : Total(m + 1, f(w)) = Total(m, f(w)) + BitOf(w, m)
  <2>1. \A i \in 0 .. n - 1 : f(w)[i] \in Int
    BY <1>2
  <2>2. /\ Total(0, f(w)) = 0 /\ \A m \in 0 .. n : Total(m, f(w)) \in Int
        /\ \A m \in 0 .. n - 1 : Total(m + 1, f(w)) = Total(m, f(w)) + f(w)[m]
    BY <2>1, TotalStep
  <2> QED BY <1>2, <2>2
<1>5. 0 \in S
  BY <1>1, <1>4
<1>6. ASSUME NEW m \in Nat, m \in S PROVE m + 1 \in S
  <2> SUFFICES ASSUME m + 1 <= n
               PROVE  Total(m + 1, f(z)) % 2 = (Total(m + 1, f(x)) + Total(m + 1, f(y))) % 2
    OBVIOUS
  <2>1. m \in 0 .. n - 1 /\ m \in 0 .. n
    OBVIOUS
  <2> DEFINE tx == Total(m, f(x))  ty == Total(m, f(y))  tz == Total(m, f(z))
             bx == BitOf(x, m)  by == BitOf(y, m)  bz == BitOf(z, m)
  <2>2. /\ Total(m + 1, f(x)) = tx + bx /\ Total(m + 1, f(y)) = ty + by /\ Total(m + 1, f(z)) = tz + bz
        /\ tx \in Int /\ ty \in Int /\ tz \in Int
    BY <1>1, <1>4, <2>1
  <2>3. bx \in {0, 1} /\ by \in {0, 1} /\ bz = (bx + by) % 2
    <3>1. bx \in {0, 1} /\ by \in {0, 1}
      BY BitRange
    <3>2. bz = Xor[bx][by]
      BY <2>1 DEF Combines
    <3> QED BY <3>1, <3>2, TablesAre
  <2>4. tz % 2 = (tx + ty) % 2
    BY <1>6, <2>1
  <2> HIDE DEF tx, ty, tz, bx, by, bz
  <2>5. bz = IF bx = by THEN 0 ELSE 1
    BY <2>3
  <2>6. (tz + bz) % 2 = (tx + bx + ty + by) % 2
    BY <2>2, <2>3, <2>4, <2>5
  <2>7. (tx + bx) + (ty + by) = tx + bx + ty + by
    BY <2>2, <2>3
  <2> QED BY <2>2, <2>6, <2>7
<1> HIDE DEF S
<1>7. n \in S
  BY <1>5, <1>6, Induct
<1> QED BY <1>1, <1>3, <1>7 DEF S
=============================================================================
