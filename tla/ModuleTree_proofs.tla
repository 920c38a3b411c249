--------------------------- MODULE ModuleTree_proofs ---------------------------
(***************************************************************************)
(* Proofs about ModuleTree, for any set of modules, of which any are       *)
(* members, unconstructible or renamed, and any number of mishaps.         *)
(***************************************************************************)
EXTENDS ModuleTree, Numbers_proofs, FiniteSetTheorems, SequenceTheorems, TLAPS

-----------------------------------------------------------------------------
(* The inductive invariant. *)

BaseNames == Names \cup {Unnamed}
MaybeMods == Mods \cup {Nullptr}
Call == [mod : Mods, parent : MaybeMods, at : Nat, names : Seq(BaseNames)]

TypeInv ==
    /\ declared \subseteq Mods /\ gone \subseteq Mods \ Members /\ built \subseteq Mods
    /\ home \in [Mods -> MaybeMods] /\ parent_ \in [Mods -> MaybeMods]
    /\ children_ \in [Mods -> Seq(Mods)]
    /\ basename_ \in [Mods -> BaseNames] /\ index_ \in [Mods -> Int]
    /\ initialized_ \in [Mods -> BOOLEAN]
    /\ build_stack_ \in Seq(Mods) /\ calls \in Seq(Call)
    /\ returned \in BOOLEAN /\ complained \in BOOLEAN
    /\ throws \in Nat /\ unwound \in Nat /\ rebuilds \in Nat

StackInv == StackIsCalls /\ (throws = 0 => unwound = 0)

(* Where on the stack the modules under construction are. *)
Places(place) ==
    /\ place \in [1 .. Len(calls) -> 1 .. Len(build_stack_)]
    /\ \A i \in 1 .. Len(calls) : build_stack_[place[i]] = calls[i].mod
    /\ \A i, j \in 1 .. Len(calls) : i < j => place[i] < place[j]

(* Those whose construction has begun; those that exist or have existed.    *)
Begun(m) == m \in Callers \/ initialized_[m]
Known(m) == m \in declared \cup gone \/ home[m] # Nullptr

IsChild(c, p) == \E i \in 1 .. Len(children_[p]) : children_[p][i] = c

(* The calls are of different modules, each constructed once.               *)
CallsInv ==
    /\ \A i, j \in 1 .. Len(calls) : calls[i].mod = calls[j].mod => i = j
    /\ \A i \in 1 .. Len(calls) :
          /\ calls[i].mod \in declared
          /\ calls[i].at = 0 => /\ ~initialized_[calls[i].mod]
                                /\ calls[i].names = << >>
          /\ calls[i].at > 0 => /\ initialized_[calls[i].mod]
                                /\ calls[i].parent = calls[i].mod
                                /\ calls[i].mod \in built
                                /\ Len(calls[i].names) = calls[i].at - 1
                                /\ calls[i].at <= Len(children_[calls[i].mod]) + 1
    /\ \A m \in declared : m \in built <=> initialized_[m]
    /\ built \subseteq declared

(* A member is in a T that lives or is being constructed.                   *)
HomeInv ==
    \A m \in Mods :
        /\ home[m] # Nullptr => m \in Members /\ Known(home[m])
        /\ m \in declared /\ home[m] # Nullptr =>
              home[m] \in declared /\ Begun(home[m]) /\ parent_[m] = home[m]
        /\ m \in declared \cap Members => home[m] # Nullptr
        /\ m \notin declared /\ home[m] # Nullptr => home[m] \notin declared
        /\ m \in declared => m \notin gone

(* The tree: children and parents agree, a parent was begun before its      *)
(* children, and a module is a child once.                                  *)
TreeInv ==
    /\ \A p \in Mods, c \in declared : IsChild(c, p) <=> parent_[c] = p
    /\ \A p, c \in Mods : IsChild(c, p) => Begun(p) /\ Known(p) /\ Known(c)
    /\ \A i, j \in 1 .. Len(calls) : parent_[calls[i].mod] = calls[j].mod => j < i
    /\ \A p, q \in Mods : \A i \in 1 .. Len(children_[p]), j \in 1 .. Len(children_[q]) :
          children_[p][i] = children_[q][j] => p = q /\ i = j

(* No one has outlived a parent, nor died before its parent's construction  *)
(* ended.                                                                   *)
RulesInv ==
    /\ \A m \in declared : /\ parent_[m] \in declared \cup {Nullptr}
                           /\ Nullptr \in Chain(parent_, m)
    /\ \A p \in Callers : \A i \in 1 .. Len(children_[p]) : children_[p][i] \in declared

(* Nothing has been skipped. *)
EndedInv ==
    /\ \A m \in declared : parent_[m] # Nullptr /\ Ended(parent_[m]) => Ended(m)
    /\ \A i \in 1 .. Len(calls) : \A j \in 1 .. Len(children_[calls[i].mod]) :
          j < calls[i].at /\ children_[calls[i].mod][j] \in declared
              => Ended(children_[calls[i].mod][j])

(* A module under construction in another's loop is the child that the loop  *)
(* is at; and a child that has been asked is constructed.                    *)
LoopInv ==
    /\ \A i \in 1 .. Len(calls) - 1 :
          calls[i].at > 0 =>
              /\ calls[i].at <= Len(children_[calls[i].mod])
              /\ children_[calls[i].mod][calls[i].at] = calls[i + 1].mod
    /\ returned => /\ calls # << >> /\ Caller.at > 0
                   /\ InLoop => initialized_[Child]

FaultsInv == /\ "dangling" \notin faults
             /\ "garbage" \in faults => complained

(* The base names of a module's children, and the index each is to have.    *)
NamesOf(p) == [i \in 1 .. Len(children_[p]) |-> basename_[children_[p][i]]]

IndexIn(names, i) == IF i \in Sharing(names) THEN IndexAmong(names, i) ELSE kNotIndexed

(* The names counted are those the children have, which do not change any   *)
(* more; the indices follow from them, and are given at the end.            *)
NamesInv ==
    /\ \A p, c \in Mods : IsChild(c, p) => parent_[c] = p
    /\ \A p \in Mods : \A i \in 1 .. Len(children_[p]) :
          IF Ended(p) THEN /\ initialized_[children_[p][i]]
                           /\ index_[children_[p][i]] = IndexIn(NamesOf(p), i)
                     ELSE index_[children_[p][i]] = kNotIndexed
    /\ \A i \in 1 .. Len(calls) : \A j \in 1 .. Len(calls[i].names) :
          /\ j \in 1 .. Len(children_[calls[i].mod])
          /\ initialized_[children_[calls[i].mod][j]]
          /\ calls[i].names[j] = basename_[children_[calls[i].mod][j]]

(* Nothing has been built over, nor been left behind by an exception.       *)
Orderly == throws = 0 /\ rebuilds = 0

OrderlyInv ==
    /\ CallsInv /\ HomeInv /\ TreeInv
    /\ broken = {} => RulesInv /\ FaultsInv
    /\ ~complained => EndedInv

ModuleTreeInv ==
    /\ TypeInv /\ StackInv
    /\ throws = 0 /\ rebuilds > 0 => complained
    /\ Orderly => OrderlyInv /\ LoopInv

-----------------------------------------------------------------------------
(* Chain(up, m) is the least set that m is in and that up does not leave.    *)

IsChain(c, n, up, m) ==
    /\ c = [i \in 0 .. n |-> c[i]] /\ c[0] = m
    /\ \A i \in 1 .. n : c[i] = IF c[i - 1] = Nullptr THEN Nullptr ELSE up[c[i - 1]]

LEMMA ChainExists ==
    ASSUME NEW up, NEW m
    PROVE  \A n \in Nat : \E c : IsChain(c, n, up, m)
<1> DEFINE S == {n \in Nat : \E c : IsChain(c, n, up, m)}
<1>1. 0 \in S
  <2> DEFINE c == [i \in 0 .. 0 |-> m]
  <2>1. c[0] = m /\ c = [i \in 0 .. 0 |-> c[i]]
    OBVIOUS
  <2> HIDE DEF c
  <2>2. IsChain(c, 0, up, m)
    BY <2>1 DEF IsChain
  <2> QED BY <2>2
<1>2. ASSUME NEW n \in Nat, n \in S PROVE n + 1 \in S
  <2>1. PICK c : IsChain(c, n, up, m)
    BY <1>2
  <2> DEFINE v == IF c[n] = Nullptr THEN Nullptr ELSE up[c[n]]
             d == [i \in 0 .. n + 1 |-> IF i = n + 1 THEN v ELSE c[i]]
  <2>2. /\ d = [i \in 0 .. n + 1 |-> d[i]] /\ d[n + 1] = v
        /\ \A i \in 0 .. n : d[i] = c[i]
    OBVIOUS
  <2> HIDE DEF d
  <2>3. \A i \in 1 .. n + 1 : d[i] = IF d[i - 1] = Nullptr THEN Nullptr ELSE up[d[i - 1]]
    <3> SUFFICES ASSUME NEW i \in 1 .. n + 1
                 PROVE  d[i] = IF d[i - 1] = Nullptr THEN Nullptr ELSE up[d[i - 1]]
      OBVIOUS
    <3>1. i - 1 \in 0 .. n /\ d[i - 1] = c[i - 1]
      <4>1. i - 1 \in 0 .. n
        OBVIOUS
      <4> QED BY <2>2, <4>1
    <3>2. CASE i = n + 1
      BY <2>2, <3>1, <3>2
    <3>3. CASE i # n + 1
      <4>1. i \in 1 .. n /\ d[i] = c[i]
        BY <2>2, <3>3
      <4> QED BY <2>1, <3>1, <4>1 DEF IsChain
    <3> QED BY <3>2, <3>3
  <2>4. d[0] = m
    BY <2>1, <2>2 DEF IsChain
  <2>5. IsChain(d, n + 1, up, m)
    BY <2>2, <2>3, <2>4 DEF IsChain
  <2> QED BY <2>5
<1> HIDE DEF S
<1>3. Nat \subseteq S
  BY <1>1, <1>2, Induct
<1> QED BY <1>3 DEF S

LEMMA ChainIs ==
    ASSUME NEW up, NEW m
    PROVE  /\ Cardinality(Mods) \in Nat
           /\ \E c : /\ IsChain(c, Cardinality(Mods), up, m)
                     /\ Chain(up, m) = {c[n] : n \in 0 .. Cardinality(Mods)}
<1> DEFINE N == Cardinality(Mods)
           Rec(f) == f = [n \in 0 .. N |-> IF n = 0 THEN m
                              ELSE IF f[n - 1] = Nullptr THEN Nullptr ELSE up[f[n - 1]]]
           c == CHOOSE f : Rec(f)
<1>1. N \in Nat
  BY FS_CardinalityType, ModuleTreeAssumption
<1>2. Chain(up, m) = {c[n] : n \in DOMAIN c}
  BY DEF Chain
<1> HIDE DEF N
<1>3. PICK d : IsChain(d, N, up, m)
  BY <1>1, ChainExists
<1>4. Rec(d)
  <2>1. \A n \in 0 .. N : d[n] = IF n = 0 THEN m
                               ELSE IF d[n - 1] = Nullptr THEN Nullptr ELSE up[d[n - 1]]
    <3> SUFFICES ASSUME NEW n \in 0 .. N
                 PROVE  d[n] = IF n = 0 THEN m
                               ELSE IF d[n - 1] = Nullptr THEN Nullptr ELSE up[d[n - 1]]
      OBVIOUS
    <3>1. CASE n = 0
      BY <1>3, <3>1 DEF IsChain
    <3>2. CASE n # 0
      <4>1. n \in 1 .. N
        BY <1>1, <3>2
      <4> QED BY <1>3, <3>2, <4>1 DEF IsChain
    <3> QED BY <3>1, <3>2
  <2>2. d = [n \in 0 .. N |-> d[n]]
    BY <1>3 DEF IsChain
  <2> QED BY <2>1, <2>2
<1>5. Rec(c)
  <2> HIDE DEF Rec
  <2> QED BY <1>4
<1>6. DOMAIN c = 0 .. N /\ IsChain(c, N, up, m)
  <2> HIDE DEF c
  <2>1. DOMAIN c = 0 .. N /\ c = [n \in 0 .. N |-> c[n]] /\ c[0] = m
    BY <1>1, <1>5
  <2>2. \A n \in 1 .. N : c[n] = IF c[n - 1] = Nullptr THEN Nullptr ELSE up[c[n - 1]]
    BY <1>1, <1>5
  <2> QED BY <2>1, <2>2 DEF IsChain
<1> QED BY <1>1, <1>2, <1>6 DEF N

LEMMA ChainStart ==
    ASSUME NEW up, NEW m PROVE m \in Chain(up, m)
<1>1. PICK c : /\ IsChain(c, Cardinality(Mods), up, m)
               /\ Chain(up, m) = {c[n] : n \in 0 .. Cardinality(Mods)}
  BY ChainIs
<1>2. 0 \in 0 .. Cardinality(Mods)
  BY ChainIs
<1> QED BY <1>1, <1>2 DEF IsChain

LEMMA ChainLeast ==
    ASSUME NEW up, NEW m, NEW S, m \in S,
           \A y \in S : y # Nullptr => up[y] \in S
    PROVE  Chain(up, m) \subseteq S
<1> DEFINE N == Cardinality(Mods)
<1>1. PICK c : IsChain(c, N, up, m) /\ Chain(up, m) = {c[n] : n \in 0 .. N}
  BY ChainIs
<1>2. N \in Nat
  BY ChainIs
<1> DEFINE T == {n \in Nat : n <= N => c[n] \in S}
<1> HIDE DEF N
<1>3. 0 \in T
  BY <1>1 DEF IsChain
<1>4. ASSUME NEW n \in Nat, n \in T PROVE n + 1 \in T
  <2>1. SUFFICES ASSUME n + 1 <= N PROVE c[n + 1] \in S
    OBVIOUS
  <2>2. n + 1 \in 1 .. N /\ (n + 1) - 1 = n /\ c[n] \in S
    BY <1>2, <1>4, <2>1
  <2>3. c[n + 1] = IF c[n] = Nullptr THEN Nullptr ELSE up[c[n]]
    BY <1>1, <2>2 DEF IsChain
  <2> QED BY <2>2, <2>3
<1> HIDE DEF T
<1>5. Nat \subseteq T
  BY <1>3, <1>4, Induct
<1> QED BY <1>1, <1>2, <1>5 DEF T

(* Pigeons: a chain that has not come to an end goes round in a circle.      *)
LEMMA ChainClosed ==
    ASSUME NEW up \in [Mods -> MaybeMods], NEW m \in MaybeMods,
           NEW y \in Chain(up, m), y # Nullptr
    PROVE  up[y] \in Chain(up, m)
<1> DEFINE N == Cardinality(Mods)
<1>1. PICK c : IsChain(c, N, up, m) /\ Chain(up, m) = {c[n] : n \in 0 .. N}
  BY ChainIs
<1>2. N \in Nat /\ IsFiniteSet(Mods)
  BY ChainIs, ModuleTreeAssumption
<1>3. \A n \in 0 .. N : c[n] \in MaybeMods
  <2>1. Chain(up, m) \subseteq MaybeMods
    BY ChainLeast DEF MaybeMods
  <2> QED BY <1>1, <2>1
<1> HIDE DEF N
<1>4. PICK k \in 0 .. N : y = c[k]
  BY <1>1
<1>5. \A n \in 0 .. N - 1 : c[n] # Nullptr => c[n + 1] = up[c[n]]
  <2> SUFFICES ASSUME NEW n \in 0 .. N - 1, c[n] # Nullptr PROVE c[n + 1] = up[c[n]]
    OBVIOUS
  <2>1. n + 1 \in 1 .. N /\ (n + 1) - 1 = n
    BY <1>2
  <2> QED BY <1>1, <2>1 DEF IsChain
<1>6. \A n \in 0 .. N - 1 : c[n] = Nullptr => c[n + 1] = Nullptr
  <2> SUFFICES ASSUME NEW n \in 0 .. N - 1, c[n] = Nullptr PROVE c[n + 1] = Nullptr
    OBVIOUS
  <2>1. n + 1 \in 1 .. N /\ (n + 1) - 1 = n
    BY <1>2
  <2> QED BY <1>1, <2>1 DEF IsChain
<1>7. CASE k < N
  <2>1. k \in 0 .. N - 1 /\ k + 1 \in 0 .. N
    BY <1>2, <1>7
  <2> QED BY <1>1, <1>4, <1>5, <2>1
<1>8. CASE k = N
  (* Nothing before the last is Nullptr. *)
  <2>1. ASSUME NEW i \in 0 .. N PROVE c[i] # Nullptr
    <3> SUFFICES ASSUME c[i] = Nullptr PROVE FALSE
      OBVIOUS
    <3> DEFINE T == {n \in Nat : i + n <= N => c[i + n] = Nullptr}
    <3>1. 0 \in T
      <4>1. i + 0 = i
        OBVIOUS
      <4> QED BY <4>1
    <3>2. ASSUME NEW n \in Nat, n \in T PROVE n + 1 \in T
      <4>1. SUFFICES ASSUME i + (n + 1) <= N PROVE c[i + (n + 1)] = Nullptr
        OBVIOUS
      <4>2. i + n \in 0 .. N - 1 /\ (i + n) + 1 = i + (n + 1) /\ i + n <= N
        BY <1>2, <4>1
      <4>3. c[i + n] = Nullptr
        BY <3>2, <4>2
      <4>4. c[(i + n) + 1] = Nullptr
        BY <1>6, <4>2, <4>3
      <4> QED BY <4>2, <4>4
    <3> HIDE DEF T
    <3>3. Nat \subseteq T
      BY <3>1, <3>2, Induct
    <3>4. N - i \in Nat /\ i + (N - i) = N
      BY <1>2
    <3> QED BY <1>4, <1>8, <3>3, <3>4 DEF T
  <2>2. c \in [0 .. N -> Mods]
    BY <1>1, <1>3, <2>1 DEF IsChain, MaybeMods
  <2>3. PICK i, j \in 0 .. N : i # j /\ c[i] = c[j]
    <3>1. IsFiniteSet(0 .. N) /\ Cardinality(0 .. N) = N + 1
      <4>1. 0 \in Int /\ N \in Int /\ ~ (0 > N) /\ N - 0 + 1 = N + 1
        BY <1>2
      <4> QED BY <4>1, FS_Interval
    <3>2. Cardinality(Mods) < Cardinality(0 .. N)
      BY <1>2, <3>1 DEF N
    <3> QED BY <1>2, <2>2, <3>1, <3>2, FS_PigeonHole
  <2>4. PICK a, b \in 0 .. N : a < b /\ c[a] = c[b]
    <3>1. i < j \/ j < i
      BY <2>3
    <3> QED BY <2>3, <3>1
  <2> DEFINE T == {n \in Nat : b + n <= N => c[a + n] = c[b + n]}
  <2>5. 0 \in T
    <3>1. a + 0 = a /\ b + 0 = b
      OBVIOUS
    <3> QED BY <2>4, <3>1
  <2>6. ASSUME NEW n \in Nat, n \in T PROVE n + 1 \in T
    <3>1. SUFFICES ASSUME b + (n + 1) <= N PROVE c[a + (n + 1)] = c[b + (n + 1)]
      OBVIOUS
    <3>2. /\ a + n \in 0 .. N - 1 /\ (a + n) + 1 = a + (n + 1)
          /\ b + n \in 0 .. N - 1 /\ (b + n) + 1 = b + (n + 1) /\ b + n <= N
          /\ a + n \in 0 .. N
      BY <1>2, <2>4, <3>1
    <3>3. c[a + n] = c[b + n]
      BY <2>6, <3>2
    <3>4. c[(a + n) + 1] = up[c[a + n]] /\ c[(b + n) + 1] = up[c[b + n]]
      <4>1. b + n \in 0 .. N
        BY <3>2
      <4> QED BY <1>5, <2>1, <3>2, <4>1
    <3> QED BY <3>2, <3>3, <3>4
  <2> HIDE DEF T
  <2>7. Nat \subseteq T
    BY <2>5, <2>6, Induct
  <2> DEFINE n == N - b
  <2>8. /\ n \in Nat /\ b + n = N /\ a + n \in 0 .. N - 1 /\ (a + n) + 1 \in 0 .. N
        /\ a + n \in 0 .. N
    BY <1>2, <2>4
  <2> HIDE DEF n
  <2>9. c[a + n] = y
    <3>1. b + n <= N
      BY <1>2, <2>8
    <3> QED BY <1>4, <1>8, <2>7, <2>8, <3>1 DEF T
  <2>10. c[(a + n) + 1] = up[y]
    BY <1>5, <2>8, <2>9
  <2> QED BY <1>1, <2>8, <2>10
<1> QED BY <1>2, <1>4, <1>7, <1>8

(* Facts about chains that follow from these three. *)

(* A chain goes through the chain of what it comes to first.                 *)
LEMMA ChainFirst ==
    ASSUME NEW up \in [Mods -> MaybeMods], NEW m \in Mods
    PROVE  Chain(up, m) = {m} \cup Chain(up, up[m])
<1>1. m # Nullptr /\ m \in MaybeMods /\ up[m] \in MaybeMods
  BY ModuleTreeAssumption DEF MaybeMods
<1>2. Chain(up, m) \subseteq {m} \cup Chain(up, up[m])
  <2> DEFINE S == {m} \cup Chain(up, up[m])
  <2>1. \A y \in S : y # Nullptr => up[y] \in S
    BY <1>1, ChainStart, ChainClosed
  <2> HIDE DEF S
  <2>2. m \in S
    BY DEF S
  <2>3. Chain(up, m) \subseteq S
    BY <2>1, <2>2, ChainLeast
  <2> QED BY <2>3 DEF S
<1>3. up[m] \in Chain(up, m)
  BY <1>1, ChainStart, ChainClosed
<1>4. Chain(up, up[m]) \subseteq Chain(up, m)
  <2>1. \A y \in Chain(up, m) : y # Nullptr => up[y] \in Chain(up, m)
    BY <1>1, ChainClosed
  <2> QED BY <1>3, <2>1, ChainLeast
<1> QED BY <1>2, <1>4, ChainStart

(* A chain depends only on what it goes through.                             *)
LEMMA ChainSame ==
    ASSUME NEW up \in [Mods -> MaybeMods], NEW now \in [Mods -> MaybeMods],
           NEW m \in MaybeMods, \A y \in Chain(up, m) : y # Nullptr => now[y] = up[y]
    PROVE  Chain(now, m) = Chain(up, m)
<1>1. \A y \in Chain(up, m) : y # Nullptr => up[y] \in Chain(up, m)
  BY ChainClosed
<1>2. \A y \in Chain(now, m) : y # Nullptr => now[y] \in Chain(now, m)
  BY ChainClosed
<1>3. m \in Chain(up, m) /\ m \in Chain(now, m)
  BY ChainStart
<1>4. Chain(now, m) \subseteq Chain(up, m)
  BY <1>1, <1>3, ChainLeast
<1>5. Chain(up, m) \subseteq Chain(up, m) \cap Chain(now, m)
  <2> DEFINE S == Chain(up, m) \cap Chain(now, m)
  <2>1. \A y \in S : y # Nullptr => up[y] \in S
    BY <1>1, <1>2
  <2>2. m \in S
    BY <1>3
  <2> HIDE DEF S
  <2>3. Chain(up, m) \subseteq S
    BY <2>1, <2>2, ChainLeast
  <2> QED BY <2>3 DEF S
<1> QED BY <1>4, <1>5

-----------------------------------------------------------------------------
(* Sequences: the last of one left out, put in the place of, or added. *)

LEMMA FrontIs ==
    ASSUME NEW S, NEW s \in Seq(S), s # << >>
    PROVE  /\ Len(s) \in Nat \ {0} /\ Last(s) \in S /\ Last(s) = s[Len(s)]
           /\ Front(s) \in Seq(S) /\ Len(Front(s)) = Len(s) - 1
           /\ \A i \in 1 .. Len(s) - 1 : Front(s)[i] = s[i]
<1>1. Len(s) \in Nat \ {0}
  BY EmptySeq
<1>2. Last(s) \in S /\ Last(s) = s[Len(s)]
  BY <1>1 DEF Last
<1>3. /\ Front(s) \in Seq(S) /\ Len(Front(s)) = Len(s) - 1
      /\ \A i \in 1 .. Len(s) - 1 : Front(s)[i] = s[i]
  <2> DEFINE n == Len(s) - 1
  <2>1. n \in Nat /\ \A i \in 1 .. n : s[i] \in S
    BY <1>1
  <2>2. Front(s) = SubSeq(s, 1, n)
    BY DEF Front
  <2> HIDE DEF n
  <2>3. /\ SubSeq(s, 1, n) \in Seq(S)
        /\ Len(SubSeq(s, 1, n)) = IF 1 <= n THEN n - 1 + 1 ELSE 0
        /\ \A i \in 1 .. n - 1 + 1 : SubSeq(s, 1, n)[i] = s[1 + i - 1]
    BY <2>1, SubSeqProperties
  <2>4. n - 1 + 1 = n /\ \A i \in 1 .. n : 1 + i - 1 = i
    BY <2>1
  <2>5. (IF 1 <= n THEN n - 1 + 1 ELSE 0) = n
    BY <2>1
  <2> QED BY <2>2, <2>3, <2>4, <2>5 DEF n
<1> QED BY <1>1, <1>2, <1>3

LEMMA PushIs ==
    ASSUME NEW S, NEW s \in Seq(S), NEW x \in S, NEW t, t = Append(s, x)
    PROVE  /\ t \in Seq(S) /\ Len(t) = Len(s) + 1 /\ t[Len(s) + 1] = x /\ t # << >>
           /\ Len(s) \in Nat /\ \A i \in 1 .. Len(s) : t[i] = s[i]
           /\ Last(t) = x
<1>1. /\ t \in Seq(S) /\ Len(t) = Len(s) + 1 /\ t[Len(s) + 1] = x
      /\ Len(s) \in Nat /\ \A i \in 1 .. Len(s) : t[i] = s[i]
  OBVIOUS
<1>2. t # << >>
  BY <1>1
<1> QED BY <1>1, <1>2 DEF Last

LEMMA ReplaceIs ==
    ASSUME NEW S, NEW s \in Seq(S), s # << >>, NEW x \in S, NEW t, t = Append(Front(s), x)
    PROVE  /\ t \in Seq(S) /\ Len(t) = Len(s) /\ t[Len(s)] = x /\ t # << >>
           /\ Len(s) \in Nat \ {0} /\ \A i \in 1 .. Len(s) - 1 : t[i] = s[i]
<1>1. /\ Len(s) \in Nat \ {0} /\ Front(s) \in Seq(S) /\ Len(Front(s)) = Len(s) - 1
      /\ \A i \in 1 .. Len(s) - 1 : Front(s)[i] = s[i]
  BY FrontIs
<1>2. /\ t \in Seq(S) /\ Len(t) = (Len(s) - 1) + 1 /\ t[(Len(s) - 1) + 1] = x /\ t # << >>
      /\ \A i \in 1 .. Len(s) - 1 : t[i] = Front(s)[i]
  BY <1>1, PushIs
<1>3. (Len(s) - 1) + 1 = Len(s)
  BY <1>1
<1> QED BY <1>1, <1>2, <1>3

-----------------------------------------------------------------------------
(* Types. *)

LEMMA CallerIs ==
    ASSUME TypeInv, calls # << >>
    PROVE  /\ Caller \in Call /\ Caller = calls[Len(calls)] /\ Len(calls) \in Nat \ {0}
           /\ Caller.mod \in Mods /\ Caller.at \in Nat /\ Caller.names \in Seq(BaseNames)
           /\ Caller.mod \in Callers
<1>1. /\ Caller \in Call /\ Caller = calls[Len(calls)] /\ Len(calls) \in Nat \ {0}
  BY FrontIs DEF TypeInv, Caller
<1>2. Caller.mod \in Callers
  BY <1>1 DEF Callers
<1> QED BY <1>1, <1>2 DEF Call

LEMMA ChildIs ==
    ASSUME TypeInv, InLoop
    PROVE  /\ calls # << >> /\ Caller.parent \in Mods /\ Caller.parent \in declared
           /\ Caller.at \in 1 .. Len(children_[Caller.parent])
           /\ Len(children_[Caller.parent]) \in Nat
           /\ Child \in Mods /\ IsChild(Child, Caller.parent)
<1>1. calls # << >> /\ Caller.parent \in declared /\ Caller.parent \in Mods
      /\ Caller.at > 0 /\ Caller.at <= Len(children_[Caller.parent])
  BY DEF InLoop, TypeInv
<1>2. Caller.at \in Nat
  BY <1>1, CallerIs
<1>3. children_[Caller.parent] \in Seq(Mods) /\ Len(children_[Caller.parent]) \in Nat
  BY <1>1 DEF TypeInv
<1>4. Caller.at \in 1 .. Len(children_[Caller.parent])
  BY <1>1, <1>2, <1>3
<1>5. Child \in Mods
  BY <1>3, <1>4 DEF Child
<1> QED BY <1>1, <1>3, <1>4, <1>5 DEF Child, IsChild

(* The index of a child is a number. *)
LEMMA IndicesType ==
    ASSUME TypeInv, NEW names \in Seq(BaseNames), NEW children
    PROVE  Indices(children, names) \in [Mods -> Int]
<1>1. ASSUME NEW i \in 1 .. Len(names) PROVE IndexAmong(names, i) \in Nat
  <2>1. IsFiniteSet(1 .. i - 1)
    BY FS_Interval
  <2> QED BY <2>1, FS_Subset, FS_CardinalityType DEF IndexAmong
<1>2. ASSUME NEW m \in Mods
      PROVE  LET at == {i \in Sharing(names) : children[i] = m}
             IN (IF at = {} THEN index_[m]
                 ELSE IndexAmong(names, CHOOSE i \in at : \A j \in at : j <= i)) \in Int
  <2> DEFINE at == {i \in Sharing(names) : children[i] = m}
  <2>1. at \subseteq 1 .. Len(names)
    BY DEF Sharing
  <2> HIDE DEF at
  <2>2. CASE at = {}
    BY <2>2 DEF TypeInv, at
  <2>3. CASE at # {}
    <3>1. at \subseteq Nat /\ Len(names) \in Nat /\ \A n \in at : n <= Len(names)
      BY <2>1
    <3>2. \E i \in at : \A j \in at : j <= i
      BY <2>3, <3>1, GreatestNat
    <3> DEFINE i == CHOOSE i \in at : \A j \in at : j <= i
    <3>3. i \in at
      BY <3>2
    <3> HIDE DEF i
    <3>4. IndexAmong(names, i) \in Int
      BY <1>1, <2>1, <3>3
    <3> QED BY <2>3, <3>4 DEF at, i
  <2> QED BY <2>2, <2>3
<1> QED BY <1>2 DEF Indices

(* The actions keep the types. *)
LEMMA DeclareTypes ==
    ASSUME TypeInv, NEW m \in Mods, Declare(m) PROVE TypeInv'
<1>1. /\ UNCHANGED <<gone, built, build_stack_, calls, returned, history>>
      /\ declared' = declared \cup {m}
      /\ home' = IF m \in Members THEN [home EXCEPT ![m] = Caller.mod] ELSE home
      /\ basename_' = [basename_ EXCEPT ![m] = Unnamed]
      /\ index_' = [index_ EXCEPT ![m] = kNotIndexed]
      /\ initialized_' = [initialized_ EXCEPT ![m] = FALSE]
  BY DEF Declare
<1>2. m \in Members => calls # << >>
  BY DEF Declare, MayDeclare
<1>3. home' \in [Mods -> MaybeMods]
  BY <1>1, <1>2, CallerIs DEF TypeInv, MaybeMods
<1>4. parent_' \in [Mods -> MaybeMods] /\ children_' \in [Mods -> Seq(Mods)]
  <2>1. CASE build_stack_ = << >>
    BY <2>1 DEF Declare, TypeInv, MaybeMods
  <2>2. CASE build_stack_ # << >>
    <3>1. Last(build_stack_) \in Mods
      BY <2>2, FrontIs DEF TypeInv
    <3> DEFINE p == Last(build_stack_)
    <3>2. /\ parent_' = [parent_ EXCEPT ![m] = p]
          /\ children_' = [children_ EXCEPT ![m] = << >>, ![p] = Append(@, m)]
      BY <2>2 DEF Declare
    <3> HIDE DEF p
    <3>3. parent_' \in [Mods -> MaybeMods]
      BY <3>1, <3>2 DEF TypeInv, MaybeMods, p
    <3>4. p # m /\ p \in Mods
      BY <2>2, <3>1 DEF Declare, MayDeclare, Adoptable, p
    <3>5. Append(children_[p], m) \in Seq(Mods)
      BY <3>4 DEF TypeInv
    <3>6. children_' = [x \in Mods |-> IF x = m THEN << >>
                                      ELSE IF x = p THEN Append(children_[p], m)
                                      ELSE children_[x]]
      BY <3>2, <3>4 DEF TypeInv
    <3>7. children_' \in [Mods -> Seq(Mods)]
      BY <3>5, <3>6 DEF TypeInv
    <3> QED BY <3>3, <3>7
  <2> QED BY <2>1, <2>2
<1>5. basename_' \in [Mods -> BaseNames]
  BY <1>1 DEF TypeInv, BaseNames
<1>6. index_' \in [Mods -> Int]
  BY <1>1 DEF TypeInv, kNotIndexed
<1>7. initialized_' \in [Mods -> BOOLEAN]
  BY <1>1 DEF TypeInv
<1> QED BY <1>1, <1>3, <1>4, <1>5, <1>6, <1>7 DEF TypeInv, history

LEMMA BeginTypes ==
    ASSUME TypeInv, NEW m \in Mods, NEW n \in Names, BeginInitModule(m, n)
    PROVE  TypeInv' /\ UNCHANGED throws
<1>1. /\ UNCHANGED <<gone, home, parent_, children_, index_, initialized_, returned,
                      throws, unwound, broken, faults>>
      /\ complained' = (complained \/ AlreadyConstructed(m))
      /\ basename_' = [basename_ EXCEPT ![m] = IF @ = Unnamed THEN n ELSE @]
      /\ build_stack_' = Append(build_stack_, m)
      /\ calls' = Append(calls, [mod |-> m, parent |-> Nullptr, at |-> 0, names |-> << >>])
      /\ rebuilds' = IF m \in built THEN rebuilds + 1 ELSE rebuilds
      /\ declared' = declared \ Inside(m)
      /\ built' = built \ ({m} \cup Inside(m))
  BY DEF BeginInitModule
<1>2. [mod |-> m, parent |-> Nullptr, at |-> 0, names |-> << >>] \in Call
  BY DEF Call, MaybeMods
<1>3. calls' \in Seq(Call) /\ build_stack_' \in Seq(Mods)
  BY <1>1, <1>2, PushIs DEF TypeInv
<1>4. complained' \in BOOLEAN
  BY <1>1 DEF TypeInv, AlreadyConstructed
<1>5. basename_' \in [Mods -> BaseNames]
  BY <1>1 DEF TypeInv, BaseNames
<1> QED BY <1>1, <1>3, <1>4, <1>5 DEF TypeInv

LEMMA NextChildTypes ==
    ASSUME TypeInv, HasChild, NextChild
    PROVE  calls' \in Seq(Call) /\ returned' \in BOOLEAN
<1> DEFINE c == [Caller EXCEPT !.at = @ + 1, !.names = Append(@, Counted(Child))]
<1>1. /\ calls # << >> /\ calls' = Append(Front(calls), c) /\ Child \in Mods
      /\ Caller \in Call
  BY ChildIs, CallerIs DEF HasChild, NextChild
<1>2. Counted(Child) \in BaseNames
  BY <1>1 DEF Counted, TypeInv
<1>3. c \in Call
  <2> DEFINE at == Caller.at + 1
             names == Append(Caller.names, Counted(Child))
  <2>1. c = [Caller EXCEPT !.at = at, !.names = names]
    BY <1>1 DEF Call
  <2>2. at \in Nat /\ names \in Seq(BaseNames)
    BY <1>1, <1>2, CallerIs
  <2> HIDE DEF c, at, names
  <2> QED BY <1>1, <2>1, <2>2 DEF Call
<1>4. returned' \in BOOLEAN
  BY DEF NextChild
<1> HIDE DEF c
<1> QED BY <1>1, <1>3, <1>4, ReplaceIs DEF TypeInv

LEMMA EndTypes ==
    ASSUME TypeInv, EndInitModule PROVE TypeInv'
<1>1. /\ UNCHANGED <<lifeVars, parent_, children_, basename_, initialized_, history>>
      /\ index_' = Indices(children_[Caller.parent], Caller.names)
      /\ build_stack_' = Popped(build_stack_) /\ calls' = Front(calls)
      /\ calls # << >>
  BY DEF EndInitModule, AtEnd
<1>2. index_' \in [Mods -> Int]
  BY <1>1, CallerIs, IndicesType
<1>3. calls' \in Seq(Call)
  BY <1>1, FrontIs DEF TypeInv
<1>4. build_stack_' \in Seq(Mods)
  <2>1. CASE build_stack_ = << >>
    <3>1. Front(build_stack_) = << >>
      BY <2>1, SubSeqEmpty DEF Front
    <3> QED BY <1>1, <3>1 DEF Popped
  <2>2. CASE build_stack_ # << >>
    BY <1>1, <2>2, FrontIs DEF TypeInv, Popped
  <2> QED BY <2>1, <2>2
<1>5. returned' \in BOOLEAN
  BY DEF EndInitModule
<1> QED BY <1>1, <1>2, <1>3, <1>4, <1>5 DEF TypeInv, history, lifeVars

(* Where an exception lands. *)
LEMMA ThrowIs ==
    ASSUME TypeInv, Throw
    PROVE  \E handler \in 0 .. Len(calls) - 1 :
              /\ calls' \in Seq(Call) /\ Len(calls') = handler
              /\ \A i \in 1 .. handler : calls'[i] = calls[i]
              /\ unwound' = unwound + Len(calls) - handler
              /\ unwound' \in Nat
<1> DEFINE Caught(i) == /\ i > 0 => calls[i].at = 0
                        /\ \A j \in i + 1 .. Len(calls) - 1 : calls[j].at > 0
           handler == CHOOSE i \in 0 .. Len(calls) - 1 : Caught(i)
<1>1. /\ calls # << >> /\ calls' = SubSeq(calls, 1, handler)
      /\ unwound' = unwound + Len(calls) - handler
  BY DEF Throw
<1>2. Len(calls) \in Nat \ {0}
  BY <1>1, CallerIs
<1>3. \E i \in 0 .. Len(calls) - 1 : Caught(i)
  <2> DEFINE S == {i \in 0 .. Len(calls) - 1 : i > 0 => calls[i].at = 0}
  <2>1. 0 \in S /\ S \subseteq Nat /\ Len(calls) - 1 \in Nat
        /\ \A i \in S : i <= Len(calls) - 1
    BY <1>2
  <2>2. \E i \in S : \A j \in S : j <= i
    <3> HIDE DEF S
    <3> QED BY <2>1, GreatestNat
  <2>3. PICK i \in S : \A j \in S : j <= i
    BY <2>2
  <2>4. ASSUME NEW j \in i + 1 .. Len(calls) - 1 PROVE calls[j].at > 0
    <3>1. j \notin S /\ j \in 1 .. Len(calls)
      BY <2>3
    <3>2. calls[j].at # 0
      BY <3>1
    <3>3. calls[j] \in Call
      BY <3>1 DEF TypeInv
    <3>4. calls[j].at \in Nat
      BY <3>3 DEF Call
    <3> QED BY <3>2, <3>4
  <2> QED BY <2>3, <2>4
<1> HIDE DEF Caught
<1>4. handler \in 0 .. Len(calls) - 1
  BY <1>3
<1> HIDE DEF handler
<1>5. /\ SubSeq(calls, 1, handler) \in Seq(Call)
      /\ Len(SubSeq(calls, 1, handler)) = handler
      /\ \A i \in 1 .. handler : SubSeq(calls, 1, handler)[i] = calls[i]
  <2>1. \A i \in 1 .. handler : calls[i] \in Call
    BY <1>2, <1>4 DEF TypeInv
  <2>2. /\ SubSeq(calls, 1, handler) \in Seq(Call)
        /\ Len(SubSeq(calls, 1, handler)) = IF 1 <= handler THEN handler - 1 + 1 ELSE 0
        /\ \A i \in 1 .. handler - 1 + 1 : SubSeq(calls, 1, handler)[i] = calls[1 + i - 1]
    BY <1>4, <2>1, SubSeqProperties
  <2>3. /\ (IF 1 <= handler THEN handler - 1 + 1 ELSE 0) = handler
        /\ handler - 1 + 1 = handler /\ \A i \in 1 .. handler : 1 + i - 1 = i
    BY <1>4
  <2> QED BY <2>2, <2>3
<1>6. unwound' \in Nat
  BY <1>1, <1>2, <1>4 DEF TypeInv
<1> QED BY <1>1, <1>4, <1>5, <1>6

LEMMA TypeStep == TypeInv /\ [Next]_vars => TypeInv'
<1> SUFFICES ASSUME TypeInv, [Next]_vars PROVE TypeInv'
  OBVIOUS
<1>1. ASSUME NEW m \in Mods, NEW n \in Names, BaseName(m, n) PROVE TypeInv'
  <2>1. /\ UNCHANGED <<lifeVars, treeVars, index_, initialized_, calls, returned,
                       throws, unwound, rebuilds, broken, faults>>
        /\ complained' = (complained \/ initialized_[m])
        /\ basename_' = [basename_ EXCEPT ![m] = n]
    BY <1>1 DEF BaseName
  <2>2. complained' \in BOOLEAN /\ basename_' \in [Mods -> BaseNames]
    BY <2>1 DEF TypeInv, BaseNames
  <2> QED BY <2>1, <2>2 DEF TypeInv, lifeVars, treeVars
<1>2. ASSUME NEW m \in Mods, NEW n \in Names, NamedConstruct(m, n) PROVE TypeInv'
  BY <1>2, BeginTypes DEF NamedConstruct
<1>3. ASSUME NEW m \in Mods, Destroy(m) PROVE TypeInv'
  <2>1. /\ UNCHANGED <<home, treeVars, nameVars, calls, returned, complained, throws,
                       unwound, rebuilds>>
        /\ declared' = declared \ ({m} \cup Inside(m))
        /\ built' = built \ ({m} \cup Inside(m))
        /\ gone' = gone \cup {m} /\ m \notin Members
    BY <1>3 DEF Destroy
  <2> QED BY <2>1 DEF TypeInv, treeVars, nameVars
<1>4. CASE EndConstructor
  <2>1. /\ UNCHANGED <<declared, gone, home, treeVars, basename_, index_, returned, history>>
        /\ calls # << >> /\ built' = built \cup {Caller.mod}
        /\ Last(build_stack_) \in declared
        /\ initialized_' = [initialized_ EXCEPT ![Last(build_stack_)] = TRUE]
        /\ calls' = Append(Front(calls),
                           [Caller EXCEPT !.parent = Last(build_stack_), !.at = 1])
    BY <1>4 DEF EndConstructor
  <2>2. [Caller EXCEPT !.parent = Last(build_stack_), !.at = 1] \in Call
    BY <2>1, CallerIs DEF Call, TypeInv, MaybeMods
  <2>3. calls' \in Seq(Call)
    <3> DEFINE c == [Caller EXCEPT !.parent = Last(build_stack_), !.at = 1]
    <3>1. c \in Call /\ calls' = Append(Front(calls), c) /\ calls # << >>
      BY <2>1, <2>2
    <3> HIDE DEF c
    <3> QED BY <3>1, ReplaceIs DEF TypeInv
  <2>4. built' \subseteq Mods
    BY <2>1, CallerIs DEF TypeInv
  <2> QED BY <2>1, <2>3, <2>4 DEF TypeInv, treeVars, history
<1>5. CASE Throw
  <2>1. /\ UNCHANGED <<gone, home, treeVars, nameVars, returned, complained, rebuilds, broken>>
        /\ throws' = throws + 1
        /\ declared' = declared \ Inside(Caller.mod)
        /\ built' = built \ Inside(Caller.mod)
    BY <1>5 DEF Throw
  <2> QED BY <1>5, <2>1, ThrowIs DEF TypeInv, treeVars, nameVars
<1>6. CASE DefaultConstruct
  <2>1. Child \in Mods /\ DefaultName[Child] \in Names
    BY <1>6, ChildIs, ModuleTreeAssumption DEF DefaultConstruct, Pending, HasChild
  <2> QED BY <1>6, <2>1, BeginTypes DEF DefaultConstruct
<1>7. CASE CannotConstruct
  <2>1. /\ UNCHANGED <<lifeVars, treeVars, nameVars, throws, unwound, rebuilds, broken, faults>>
        /\ complained' = TRUE /\ HasChild /\ NextChild
    BY <1>7 DEF CannotConstruct, Pending
  <2> QED BY <2>1, NextChildTypes DEF TypeInv, lifeVars, treeVars, nameVars
<1>8. CASE Constructed
  <2>1. UNCHANGED <<lifeVars, treeVars, nameVars, history>> /\ HasChild /\ NextChild
    BY <1>8 DEF Constructed
  <2> QED BY <2>1, NextChildTypes DEF TypeInv, lifeVars, treeVars, nameVars, history
<1>9. CASE TouchGone
  BY <1>9 DEF TouchGone, TypeInv, lifeVars, treeVars, nameVars
<1>10. CASE UNCHANGED vars
  BY <1>10 DEF vars, TypeInv, lifeVars, treeVars, nameVars, history
<1> QED BY <1>1, <1>2, <1>3, <1>4, <1>5, <1>6, <1>7, <1>8, <1>9, <1>10,
           DeclareTypes, EndTypes DEF Next

-----------------------------------------------------------------------------
(* The build stack. *)

(* As long as nothing throws, the module at the top of the stack is the one  *)
(* whose construction is innermost.                                          *)
LEMMA TopOfStack ==
    ASSUME TypeInv, StackInv, throws = 0
    PROVE  /\ Len(build_stack_) = Len(calls)
           /\ \A i \in 1 .. Len(calls) : build_stack_[i] = calls[i].mod
           /\ build_stack_ = << >> <=> calls = << >>
           /\ calls # << >> => Last(build_stack_) = Caller.mod
<1>1. /\ Len(build_stack_) = Len(calls) /\ Len(calls) \in Nat
      /\ \A i \in 1 .. Len(calls) : build_stack_[i] = calls[i].mod
  BY DEF TypeInv, StackInv, StackIsCalls
<1>2. build_stack_ = << >> <=> calls = << >>
  BY <1>1, EmptySeq DEF TypeInv
<1>3. calls # << >> => Last(build_stack_) = Caller.mod
  <2> SUFFICES ASSUME calls # << >> PROVE Last(build_stack_) = Caller.mod
    OBVIOUS
  <2>1. Caller = calls[Len(calls)] /\ Len(calls) \in 1 .. Len(calls)
    BY CallerIs
  <2>2. Last(build_stack_) = build_stack_[Len(calls)]
    BY <1>1 DEF Last
  <2> QED BY <1>1, <2>1, <2>2
<1> QED BY <1>1, <1>2, <1>3

LEMMA StackKept ==
    ASSUME TypeInv, TypeInv', StackInv, UNCHANGED <<build_stack_, throws, unwound>>,
           Len(calls') = Len(calls), \A i \in 1 .. Len(calls) : calls'[i].mod = calls[i].mod
    PROVE  StackInv'
<1>1. throws' = throws /\ unwound' = unwound /\ build_stack_' = build_stack_
  OBVIOUS
<1>2. [i \in 1 .. Len(calls) |-> calls[i].mod] = [i \in 1 .. Len(calls') |-> calls'[i].mod]
  OBVIOUS
<1>3. PICK place : Places(place)
  BY DEF StackInv, StackIsCalls, Places
<1>4. Places(place)'
  BY <1>1, <1>3 DEF Places
<1> QED BY <1>1, <1>2, <1>4 DEF StackInv, StackIsCalls, Places

LEMMA CallsReplaced ==
    ASSUME TypeInv, calls # << >>, NEW c \in Call, calls' = Append(Front(calls), c)
    PROVE  /\ calls' \in Seq(Call) /\ Len(calls') = Len(calls) /\ calls'[Len(calls)] = c
           /\ Len(calls) \in Nat \ {0}
           /\ \A i \in 1 .. Len(calls) - 1 : calls'[i] = calls[i]
<1> DEFINE t == calls'
<1>1. calls \in Seq(Call) /\ calls # << >> /\ c \in Call /\ t = Append(Front(calls), c)
  BY DEF TypeInv
<1> HIDE DEF t
<1>2. t \in Seq(Call)
  BY ONLY <1>1, ReplaceIs
<1>3. Len(t) = Len(calls)
  BY ONLY <1>1, ReplaceIs
<1>4. t[Len(calls)] = c /\ Len(calls) \in Nat \ {0}
  BY ONLY <1>1, ReplaceIs
<1>5. \A i \in 1 .. Len(calls) - 1 : t[i] = calls[i]
  BY ONLY <1>1, ReplaceIs
<1> QED BY <1>2, <1>3, <1>4, <1>5 DEF t

LEMMA NextChildCalls ==
    ASSUME TypeInv, HasChild, NextChild
    PROVE  /\ calls # << >> /\ calls' \in Seq(Call) /\ Len(calls) \in Nat \ {0}
           /\ Len(calls') = Len(calls) /\ Caller = calls[Len(calls)]
           /\ \A i \in 1 .. Len(calls) - 1 : calls'[i] = calls[i]
           /\ calls'[Len(calls)].mod = Caller.mod
           /\ calls'[Len(calls)].parent = Caller.parent
           /\ calls'[Len(calls)].at = Caller.at + 1
           /\ Len(calls'[Len(calls)].names) = Len(Caller.names) + 1
           /\ calls'[Len(calls)].names = Append(Caller.names, Counted(Child))
           /\ \A i \in 1 .. Len(calls) : calls'[i].mod = calls[i].mod
<1> DEFINE at == Caller.at + 1
           names == Append(Caller.names, Counted(Child))
           c == [Caller EXCEPT !.at = @ + 1, !.names = Append(@, Counted(Child))]
<1>1. /\ calls # << >> /\ calls' = Append(Front(calls), c) /\ Child \in Mods
      /\ Caller \in Call /\ Caller = calls[Len(calls)]
  BY ChildIs, CallerIs DEF HasChild, NextChild
<1>2. Counted(Child) \in BaseNames
  BY <1>1 DEF Counted, TypeInv
<1>3. c = [Caller EXCEPT !.at = at, !.names = names]
  BY <1>1 DEF Call
<1>4. at \in Nat /\ names \in Seq(BaseNames) /\ Len(names) = Len(Caller.names) + 1
  BY <1>1, <1>2, CallerIs
<1> HIDE DEF c, at, names
<1>5. /\ c \in Call /\ c.mod = Caller.mod /\ c.at = at /\ c.names = names
      /\ c.parent = Caller.parent
  BY <1>1, <1>3, <1>4 DEF Call
<1>6. /\ calls' \in Seq(Call) /\ Len(calls') = Len(calls) /\ calls'[Len(calls)] = c
      /\ Len(calls) \in Nat \ {0} /\ \A i \in 1 .. Len(calls) - 1 : calls'[i] = calls[i]
  BY <1>1, <1>5, CallsReplaced
<1>7. \A i \in 1 .. Len(calls) : calls'[i].mod = calls[i].mod
  <2> SUFFICES ASSUME NEW i \in 1 .. Len(calls) PROVE calls'[i].mod = calls[i].mod
    OBVIOUS
  <2>1. i = Len(calls) \/ i \in 1 .. Len(calls) - 1
    BY <1>6
  <2> QED BY <1>1, <1>5, <1>6, <2>1
<1> QED BY <1>1, <1>4, <1>5, <1>6, <1>7 DEF at, names

LEMMA EndConstructorCalls ==
    ASSUME TypeInv, EndConstructor
    PROVE  /\ calls # << >> /\ calls' \in Seq(Call) /\ Len(calls) \in Nat \ {0}
           /\ Len(calls') = Len(calls) /\ Caller = calls[Len(calls)]
           /\ \A i \in 1 .. Len(calls) - 1 : calls'[i] = calls[i]
           /\ calls'[Len(calls)].mod = Caller.mod
           /\ calls'[Len(calls)].parent = Last(build_stack_)
           /\ calls'[Len(calls)].at = 1
           /\ calls'[Len(calls)].names = Caller.names
           /\ \A i \in 1 .. Len(calls) : calls'[i].mod = calls[i].mod
<1> DEFINE c == [Caller EXCEPT !.parent = Last(build_stack_), !.at = 1]
<1>1. /\ calls # << >> /\ calls' = Append(Front(calls), c)
      /\ Caller \in Call /\ Caller = calls[Len(calls)] /\ Last(build_stack_) \in Mods
  BY CallerIs DEF EndConstructor, TypeInv
<1>2. /\ c \in Call /\ c.mod = Caller.mod /\ c.at = 1 /\ c.names = Caller.names
      /\ c.parent = Last(build_stack_)
  BY <1>1 DEF Call, MaybeMods
<1> HIDE DEF c
<1>3. /\ calls' \in Seq(Call) /\ Len(calls') = Len(calls) /\ calls'[Len(calls)] = c
      /\ Len(calls) \in Nat \ {0} /\ \A i \in 1 .. Len(calls) - 1 : calls'[i] = calls[i]
  BY <1>1, <1>2, CallsReplaced
<1>4. \A i \in 1 .. Len(calls) : calls'[i].mod = calls[i].mod
  <2> SUFFICES ASSUME NEW i \in 1 .. Len(calls) PROVE calls'[i].mod = calls[i].mod
    OBVIOUS
  <2>1. i = Len(calls) \/ i \in 1 .. Len(calls) - 1
    BY <1>3
  <2> QED BY <1>1, <1>2, <1>3, <2>1
<1> QED BY <1>1, <1>2, <1>3, <1>4

LEMMA BeginCalls ==
    ASSUME TypeInv, NEW m \in Mods, NEW n, BeginInitModule(m, n)
    PROVE  /\ Len(calls) \in Nat /\ calls' \in Seq(Call) /\ Len(calls') = Len(calls) + 1
           /\ \A i \in 1 .. Len(calls) : calls'[i] = calls[i]
           /\ calls'[Len(calls) + 1].mod = m /\ calls'[Len(calls) + 1].at = 0
           /\ calls'[Len(calls) + 1].names = << >>
           /\ Len(build_stack_) \in Nat /\ build_stack_' \in Seq(Mods)
           /\ Len(build_stack_') = Len(build_stack_) + 1
           /\ \A i \in 1 .. Len(build_stack_) : build_stack_'[i] = build_stack_[i]
           /\ build_stack_'[Len(build_stack_) + 1] = m
<1> DEFINE c == [mod |-> m, parent |-> Nullptr, at |-> 0, names |-> << >>]
<1>1. calls' = Append(calls, c) /\ build_stack_' = Append(build_stack_, m)
  BY DEF BeginInitModule
<1>2. c \in Call /\ c.mod = m /\ c.at = 0 /\ c.names = << >>
  BY DEF Call, MaybeMods
<1> HIDE DEF c
<1> QED BY <1>1, <1>2, PushIs DEF TypeInv

LEMMA EndInitCalls ==
    ASSUME TypeInv, EndInitModule
    PROVE  /\ calls # << >> /\ Len(calls) \in Nat \ {0} /\ calls' \in Seq(Call)
           /\ Len(calls') = Len(calls) - 1 /\ Caller = calls[Len(calls)]
           /\ \A i \in 1 .. Len(calls) - 1 : calls'[i] = calls[i]
<1>1. calls # << >> /\ calls' = Front(calls)
  BY DEF EndInitModule, AtEnd
<1> QED BY <1>1, FrontIs, CallerIs DEF TypeInv

(* Each action keeps the stack and the calls in step. *)
LEMMA StackStep == TypeInv /\ TypeInv' /\ StackInv /\ [Next]_vars => StackInv'
<1> SUFFICES ASSUME TypeInv, TypeInv', StackInv, [Next]_vars PROVE StackInv'
  OBVIOUS
<1>1. ASSUME NEW m \in Mods, NEW n, BeginInitModule(m, n) PROVE StackInv'
  <2>1. throws' = throws /\ unwound' = unwound
    BY <1>1 DEF BeginInitModule
  <2>2. Len(build_stack_') = Len(calls') + unwound'
    <3>1. /\ Len(build_stack_) = Len(calls) + unwound /\ unwound \in Nat
      BY DEF StackInv, StackIsCalls, TypeInv
    <3>2. /\ Len(calls) \in Nat /\ Len(calls') = Len(calls) + 1
          /\ Len(build_stack_') = Len(build_stack_) + 1
      BY <1>1, BeginCalls
    <3> QED BY <2>1, <3>1, <3>2
  <2>3. ASSUME throws = 0
        PROVE  build_stack_' = [i \in 1 .. Len(calls') |-> calls'[i].mod]
    <3>1. /\ Len(build_stack_) = Len(calls)
          /\ \A i \in 1 .. Len(calls) : build_stack_[i] = calls[i].mod
      BY <2>3, TopOfStack
    <3>2. \A i \in 1 .. Len(calls') : build_stack_'[i] = calls'[i].mod
      <4> SUFFICES ASSUME NEW i \in 1 .. Len(calls') PROVE build_stack_'[i] = calls'[i].mod
        OBVIOUS
      <4>1. i \in 1 .. Len(calls) \/ i = Len(calls) + 1
        BY <1>1, BeginCalls
      <4> QED BY <1>1, <3>1, <4>1, BeginCalls
    <3>3. build_stack_' \in Seq(Mods) /\ Len(build_stack_') = Len(calls')
      BY <1>1, <3>1, BeginCalls
    <3> QED BY <3>2, <3>3
  <2> DEFINE top == Len(build_stack_) + 1
             last == Len(calls) + 1
  <2>4. PICK place : Places(place)
    BY DEF StackInv, StackIsCalls, Places
  <2> DEFINE longer == [i \in 1 .. last |-> IF i = last THEN top ELSE place[i]]
  <2>5. /\ Len(calls) \in Nat /\ Len(calls') = last
        /\ \A i \in 1 .. Len(calls) : calls'[i] = calls[i]
        /\ calls'[last].mod = m
        /\ Len(build_stack_) \in Nat /\ Len(build_stack_') = top
        /\ \A i \in 1 .. Len(build_stack_) : build_stack_'[i] = build_stack_[i]
        /\ build_stack_'[top] = m
    BY <1>1, BeginCalls
  <2>6. \A i \in 1 .. last : i = last \/ i \in 1 .. Len(calls)
    BY <2>5
  <2>7. \A i \in 1 .. Len(calls) : /\ place[i] \in 1 .. Len(build_stack_)
                                   /\ build_stack_[place[i]] = calls[i].mod
    BY <2>4 DEF Places
  <2>8. longer \in [1 .. Len(calls') -> 1 .. Len(build_stack_')]
    BY <2>5, <2>6, <2>7
  <2>9. \A i \in 1 .. last : build_stack_'[longer[i]] = calls'[i].mod
    BY <2>5, <2>6, <2>7
  <2>10. ASSUME NEW i \in 1 .. last, NEW j \in 1 .. last, i < j PROVE longer[i] < longer[j]
    <3>1. i \in 1 .. Len(calls) /\ longer[i] = place[i] /\ place[i] < top
      BY <2>5, <2>6, <2>7, <2>10
    <3> QED BY <2>4, <2>6, <2>10, <3>1 DEF Places
  <2> HIDE DEF longer
  <2>11. PICK l : l = longer
    OBVIOUS
  <2>12. Places(l)'
    <3>1. Len(calls') = last
      BY <2>5
    <3> HIDE DEF last
    <3> QED BY <2>8, <2>9, <2>10, <2>11, <3>1 DEF Places
  <2> QED BY <2>1, <2>2, <2>3, <2>12 DEF StackInv, StackIsCalls, Places
<1>2. CASE EndInitModule
  <2>1. /\ throws' = throws /\ unwound' = unwound /\ build_stack_' = Front(build_stack_)
    BY <1>2 DEF EndInitModule, history, Popped
  <2>2. /\ Len(calls) \in Nat \ {0} /\ Len(calls') = Len(calls) - 1
        /\ \A i \in 1 .. Len(calls) - 1 : calls'[i] = calls[i]
    BY <1>2, EndInitCalls
  <2>3. Len(build_stack_) = Len(calls) + unwound /\ unwound \in Nat
    BY DEF StackInv, StackIsCalls, TypeInv
  <2>4. build_stack_ # << >>
    BY <2>2, <2>3
  <2>5. /\ build_stack_' \in Seq(Mods) /\ Len(build_stack_') = Len(build_stack_) - 1
        /\ \A i \in 1 .. Len(build_stack_) - 1 : build_stack_'[i] = build_stack_[i]
    BY <2>1, <2>4, FrontIs DEF TypeInv
  <2>6. Len(build_stack_') = Len(calls') + unwound'
    BY <2>1, <2>2, <2>3, <2>5
  <2>7. ASSUME throws = 0
        PROVE  build_stack_' = [i \in 1 .. Len(calls') |-> calls'[i].mod]
    <3>1. /\ Len(build_stack_) = Len(calls)
          /\ \A i \in 1 .. Len(calls) : build_stack_[i] = calls[i].mod
      BY <2>7, TopOfStack
    <3>2. \A i \in 1 .. Len(calls') : build_stack_'[i] = calls'[i].mod
      <4> SUFFICES ASSUME NEW i \in 1 .. Len(calls') PROVE build_stack_'[i] = calls'[i].mod
        OBVIOUS
      <4>1. i \in 1 .. Len(calls) - 1 /\ i \in 1 .. Len(calls)
        BY <2>2
      <4> QED BY <2>2, <2>5, <3>1, <4>1
    <3>3. Len(build_stack_') = Len(calls')
      BY <2>2, <2>5, <3>1
    <3> QED BY <2>5, <3>2, <3>3
  <2>8. PICK place : Places(place)
    BY DEF StackInv, StackIsCalls, Places
  <2> DEFINE shorter == [i \in 1 .. Len(calls') |-> place[i]]
  (* Those left are below the last. *)
  <2>9. ASSUME NEW i \in 1 .. Len(calls')
        PROVE  /\ i \in 1 .. Len(calls) /\ calls'[i] = calls[i]
               /\ place[i] \in 1 .. Len(build_stack_) - 1
               /\ build_stack_'[place[i]] = calls[i].mod
    <3>1. i \in 1 .. Len(calls) - 1 /\ i < Len(calls) /\ Len(calls) \in 1 .. Len(calls)
      BY <2>2
    <3>2. place[i] < place[Len(calls)]
      BY <2>8, <3>1 DEF Places
    <3>3. /\ place[i] \in 1 .. Len(build_stack_) /\ build_stack_[place[i]] = calls[i].mod
          /\ place[Len(calls)] \in 1 .. Len(build_stack_)
      BY <2>8, <3>1 DEF Places
    <3>4. place[i] \in 1 .. Len(build_stack_) - 1
      BY <2>3, <3>2, <3>3
    <3>5. build_stack_'[place[i]] = build_stack_[place[i]]
      BY <2>5, <3>4
    <3>6. i \in 1 .. Len(calls) /\ calls'[i] = calls[i]
      BY <2>2, <3>1
    <3> QED BY <3>3, <3>4, <3>5, <3>6
  <2>10. shorter \in [1 .. Len(calls') -> 1 .. Len(build_stack_')]
    BY <2>5, <2>9
  <2>11. PICK l : l = shorter
    OBVIOUS
  <2>12. Places(l)'
    BY <2>8, <2>9, <2>10, <2>11 DEF Places
  <2> QED BY <2>1, <2>6, <2>7, <2>12 DEF StackInv, StackIsCalls, Places
<1>3. CASE Throw
  <2>1. throws' # 0 /\ build_stack_' = build_stack_
    BY <1>3 DEF Throw, treeVars, TypeInv
  <2>2. PICK handler \in 0 .. Len(calls) - 1 :
              /\ Len(calls') = handler /\ unwound' = unwound + Len(calls) - handler
              /\ \A i \in 1 .. handler : calls'[i] = calls[i]
    BY <1>3, ThrowIs
  <2>3. /\ Len(build_stack_) = Len(calls) + unwound /\ unwound \in Nat /\ Len(calls) \in Nat
    BY DEF StackInv, StackIsCalls, TypeInv
  <2>4. Len(build_stack_') = Len(calls') + unwound'
    BY <2>1, <2>2, <2>3
  <2>5. PICK place : Places(place)
    BY DEF StackInv, StackIsCalls, Places
  <2> DEFINE shorter == [i \in 1 .. handler |-> place[i]]
  <2>6. \A i \in 1 .. handler : i \in 1 .. Len(calls)
    BY <2>3
  <2>7. shorter \in [1 .. handler -> 1 .. Len(build_stack_)]
    BY <2>5, <2>6 DEF Places
  <2>8. Places(shorter)'
    BY <2>1, <2>2, <2>5, <2>6, <2>7 DEF Places
  <2> QED BY <2>1, <2>4, <2>8 DEF StackInv, StackIsCalls, Places
<1>4. CASE EndConstructor
  <2>1. UNCHANGED <<build_stack_, throws, unwound>>
    BY <1>4 DEF EndConstructor, treeVars, history
  <2> QED BY <1>4, <2>1, EndConstructorCalls, StackKept
<1>5. CASE CannotConstruct \/ Constructed
  <2>1. UNCHANGED <<build_stack_, throws, unwound>> /\ HasChild /\ NextChild
    BY <1>5 DEF CannotConstruct, Constructed, Pending, treeVars, history
  <2> QED BY <2>1, NextChildCalls, StackKept
<1>6. CASE UNCHANGED <<build_stack_, calls, throws, unwound>>
  BY <1>6, StackKept
<1>7. CASE DefaultConstruct
  <2>1. Child \in Mods /\ BeginInitModule(Child, DefaultName[Child])
    BY <1>7, ChildIs DEF DefaultConstruct, Pending, HasChild
  <2> QED BY <1>1, <2>1
<1>8. ASSUME NEW m \in Mods, NEW n, NamedConstruct(m, n) PROVE StackInv'
  BY <1>1, <1>8 DEF NamedConstruct
<1>9. ASSUME NEW m \in Mods, NEW n, Declare(m) \/ BaseName(m, n) \/ Destroy(m)
      PROVE  UNCHANGED <<build_stack_, calls, throws, unwound>>
  BY <1>9 DEF Declare, BaseName, Destroy, treeVars, history
<1>10. TouchGone \/ UNCHANGED vars => UNCHANGED <<build_stack_, calls, throws, unwound>>
  BY DEF TouchGone, vars, treeVars, history
<1> QED BY <1>2, <1>3, <1>4, <1>5, <1>6, <1>7, <1>8, <1>9, <1>10 DEF Next

-----------------------------------------------------------------------------
(* What the orderly steps do to the tree. *)

(* A module's T holds those whose home is in it, and only those.             *)
LEMMA InsideIs ==
    ASSUME TypeInv, HomeInv, NEW m \in Mods
    PROVE  /\ \A x \in declared : home[x] \in {m} \cup Inside(m) => x \in {m} \cup Inside(m)
           /\ \A x \in Inside(m) : /\ x \in declared /\ x # m /\ home[x] # Nullptr
                                   /\ home[x] \in {m} \cup Inside(m)
<1>1. home \in [Mods -> MaybeMods] /\ declared \subseteq Mods /\ m # Nullptr
  BY ModuleTreeAssumption DEF TypeInv
<1>2. \A x \in declared : Chain(home, x) = {x} \cup Chain(home, home[x])
  BY <1>1, ChainFirst
<1>3. ASSUME NEW x \in declared, home[x] \in {m} \cup Inside(m)
      PROVE  x \in {m} \cup Inside(m)
  <2>1. m \in Chain(home, home[x])
    BY <1>3, ChainStart DEF Inside
  <2> QED BY <1>2, <2>1 DEF Inside
<1>4. ASSUME NEW x \in Inside(m)
      PROVE  /\ x \in declared /\ x # m /\ home[x] # Nullptr
             /\ home[x] \in {m} \cup Inside(m)
  <2>1. x \in declared /\ x # m /\ m \in Chain(home, x)
    BY DEF Inside
  <2>2. m \in Chain(home, home[x])
    BY <1>2, <2>1
  <2>3. home[x] # Nullptr
    <3>1. Chain(home, Nullptr) \subseteq {Nullptr}
      BY ChainLeast
    <3> QED BY <1>1, <2>2, <3>1
  <2>4. home[x] \in declared
    BY <1>1, <2>1, <2>3 DEF HomeInv
  <2>5. home[x] \in {m} \cup Inside(m)
    BY <2>2, <2>4 DEF Inside
  <2> QED BY <2>1, <2>3, <2>5
<1> QED BY <1>3, <1>4

(* What is not begun has no children, and nothing inside.                    *)
LEMMA NotBegun ==
    ASSUME TypeInv, HomeInv, TreeInv, NEW m \in Mods, ~ Begun(m)
    PROVE  /\ Inside(m) = {}
           /\ \A c \in Mods : ~ IsChild(c, m)
           /\ \A i \in 1 .. Len(children_[m]) : FALSE
<1>1. \A c \in Mods : ~ IsChild(c, m)
  BY DEF TreeInv
<1>2. \A i \in 1 .. Len(children_[m]) : FALSE
  <2> SUFFICES ASSUME NEW i \in 1 .. Len(children_[m]) PROVE FALSE
    OBVIOUS
  <2>1. children_[m][i] \in Mods
    BY DEF TypeInv
  <2> QED BY <1>1, <2>1 DEF IsChild
<1>3. ASSUME NEW x \in Inside(m) PROVE FALSE
  <2>1. x \in declared /\ x # m /\ x \in Mods /\ m \in Mods /\ m \in Chain(home, x)
    BY DEF Inside, TypeInv
  <2> DEFINE S == (declared \cup {Nullptr}) \ {m}
  <2>2. x \in S
    BY <2>1
  <2>3. \A y \in S : y # Nullptr => home[y] \in S
    BY ModuleTreeAssumption DEF HomeInv, TypeInv
  <2>4. m \notin S
    OBVIOUS
  <2> HIDE DEF S
  <2>5. Chain(home, x) \subseteq S
    BY <2>2, <2>3, ChainLeast
  <2> QED BY <2>1, <2>4, <2>5
<1> QED BY <1>1, <1>2, <1>3

(* Calls that are of the same modules as before. *)
LEMMA SameCallers ==
    ASSUME Len(calls') = Len(calls), \A i \in 1 .. Len(calls) : calls'[i].mod = calls[i].mod
    PROVE  Callers' = Callers
BY DEF Callers

(* The construction of one that has not begun begins. *)
LEMMA BeginOrderly ==
    ASSUME TypeInv, OrderlyInv, NEW m \in declared, NEW n,
           m \notin Callers, ~ initialized_[m], BeginInitModule(m, n), faults = {}
    PROVE  OrderlyInv'
<1>1. /\ CallsInv /\ HomeInv /\ TreeInv /\ m \in Mods /\ ~ Begun(m) /\ m \notin built
  BY DEF OrderlyInv, Begun, TypeInv, CallsInv
<1>2. /\ declared' = declared /\ built' = built /\ gone' = gone /\ home' = home
      /\ parent_' = parent_ /\ children_' = children_ /\ initialized_' = initialized_
      /\ broken' = broken /\ faults' = faults /\ complained' = complained
  <2>1. Inside(m) = {}
    BY <1>1, NotBegun
  <2>2. complained' = complained
    <3>1. complained' = (complained \/ AlreadyConstructed(m))
      BY DEF BeginInitModule
    <3> QED BY <3>1 DEF AlreadyConstructed, TypeInv
  <2> QED BY <1>1, <2>1, <2>2 DEF BeginInitModule
<1>3. /\ Len(calls) \in Nat /\ Len(calls') = Len(calls) + 1
      /\ \A i \in 1 .. Len(calls) : calls'[i] = calls[i]
      /\ calls'[Len(calls) + 1].mod = m /\ calls'[Len(calls) + 1].at = 0
      /\ calls'[Len(calls) + 1].names = << >>
  BY <1>1, BeginCalls
<1> DEFINE L == Len(calls)
<1>4. \A i \in 1 .. Len(calls') : i \in 1 .. L \/ i = L + 1
  BY <1>3
<1>5. Callers' = Callers \cup {m}
  <2>1. \A i \in 1 .. L : i \in 1 .. Len(calls')
    BY <1>3
  <2>2. L + 1 \in 1 .. Len(calls')
    BY <1>3
  <2> HIDE DEF L
  <2> QED BY <1>3, <1>4, <2>1, <2>2 DEF Callers, L
<1>6. \A x \in Mods : Begun(x)' <=> Begun(x) \/ x = m
  BY <1>2, <1>5 DEF Begun
<1>7. \A i \in 1 .. L : calls[i].mod \in Callers /\ calls[i].mod # m
  BY DEF Callers
<1>8. CallsInv'
  <2>1. ASSUME NEW i \in 1 .. Len(calls'), NEW j \in 1 .. Len(calls'),
               calls'[i].mod = calls'[j].mod
        PROVE  i = j
    <3>1. CASE i \in 1 .. L /\ j \in 1 .. L
      BY <1>1, <1>3, <2>1, <3>1 DEF CallsInv
    <3>2. CASE i = L + 1 /\ j \in 1 .. L
      BY <1>3, <1>7, <2>1, <3>2
    <3>3. CASE i \in 1 .. L /\ j = L + 1
      BY <1>3, <1>7, <2>1, <3>3
    <3> QED BY <1>4, <3>1, <3>2, <3>3
  <2>2. ASSUME NEW i \in 1 .. Len(calls')
        PROVE  /\ calls'[i].mod \in declared
               /\ calls'[i].at = 0 => ~ initialized_[calls'[i].mod] /\ calls'[i].names = << >>
               /\ calls'[i].at > 0 =>
                      /\ initialized_[calls'[i].mod]
                      /\ calls'[i].parent = calls'[i].mod
                      /\ calls'[i].mod \in built
                      /\ Len(calls'[i].names) = calls'[i].at - 1
                      /\ calls'[i].at <= Len(children_[calls'[i].mod]) + 1
    <3>1. CASE i \in 1 .. L
      BY <1>1, <1>3, <3>1 DEF CallsInv
    <3>2. CASE i = L + 1
      BY <1>3, <3>2
    <3> QED BY <1>4, <3>1, <3>2
  <2> QED BY <1>1, <1>2, <2>1, <2>2 DEF CallsInv
<1>9. HomeInv'
  BY <1>1, <1>2, <1>6 DEF HomeInv, Known, TypeInv, MaybeMods
<1>10. TreeInv'
  <2>1. \A p, c : IsChild(c, p)' <=> IsChild(c, p)
    BY <1>2 DEF IsChild
  <2>2. ASSUME NEW i \in 1 .. Len(calls'), NEW j \in 1 .. Len(calls'),
               parent_[calls'[i].mod] = calls'[j].mod
        PROVE  j < i
    <3>1. CASE i \in 1 .. L /\ j \in 1 .. L
      BY <1>1, <1>3, <2>2, <3>1 DEF TreeInv
    <3>2. CASE i = L + 1 /\ j \in 1 .. L
      BY <1>3, <3>2
    <3>3. CASE j = L + 1
      <4>1. calls'[i].mod \in declared /\ parent_[calls'[i].mod] = m
        <5>1. CASE i \in 1 .. L
          BY <1>1, <1>3, <2>2, <3>3, <5>1 DEF CallsInv
        <5>2. CASE i = L + 1
          BY <1>3, <2>2, <3>3, <5>2
        <5> QED BY <1>4, <5>1, <5>2
      <4>2. IsChild(calls'[i].mod, m) /\ calls'[i].mod \in Mods
        BY <1>1, <4>1 DEF TreeInv, TypeInv
      <4> QED BY <1>1, <4>2, NotBegun
    <3> QED BY <1>4, <3>1, <3>2, <3>3
  <2>3. \A x : Known(x)' <=> Known(x)
    BY <1>2 DEF Known
  <2> QED BY <1>1, <1>2, <1>6, <2>1, <2>2, <2>3 DEF TreeInv
<1>11. broken' = {} => RulesInv' /\ FaultsInv'
  <2> SUFFICES ASSUME broken = {} PROVE RulesInv' /\ FaultsInv'
    BY <1>2
  <2>1. RulesInv
    BY DEF OrderlyInv
  <2>2. ASSUME NEW p \in Callers', NEW i \in 1 .. Len(children_[p])
        PROVE  children_[p][i] \in declared
    BY <1>1, <1>5, <2>1, <2>2, NotBegun DEF RulesInv
  <2>3. RulesInv'
    BY <1>2, <2>1, <2>2 DEF RulesInv
  <2> QED BY <1>2, <2>3 DEF FaultsInv
<1>12. ~ complained' => EndedInv'
  <2> SUFFICES ASSUME ~ complained PROVE EndedInv'
    BY <1>2
  <2>1. EndedInv
    BY DEF OrderlyInv
  <2>2. \A x : Ended(x)' <=> Ended(x)
    BY <1>2, <1>5 DEF Ended
  <2>3. ASSUME NEW i \in 1 .. Len(calls'), NEW j \in 1 .. Len(children_[calls'[i].mod]),
               j < calls'[i].at, children_[calls'[i].mod][j] \in declared
        PROVE  Ended(children_[calls'[i].mod][j])
    <3>1. CASE i \in 1 .. L
      BY <1>3, <2>1, <2>3, <3>1 DEF EndedInv
    <3>2. CASE i = L + 1
      BY <1>3, <2>3, <3>2
    <3> QED BY <1>4, <3>1, <3>2
  <2> QED BY <1>2, <2>1, <2>2, <2>3 DEF EndedInv
<1> QED BY <1>8, <1>9, <1>10, <1>11, <1>12 DEF OrderlyInv

(* The constructor of the innermost returns. *)
LEMMA EndConstructorOrderly ==
    ASSUME TypeInv, StackInv, throws = 0, OrderlyInv, EndConstructor, faults = {}
    PROVE  OrderlyInv'
<1> DEFINE L == Len(calls)
           q == Caller.mod
<1>1. CallsInv /\ HomeInv /\ TreeInv
  BY DEF OrderlyInv
<1>2. /\ calls # << >> /\ Caller.at = 0 /\ Last(build_stack_) = q /\ q \in Mods
      /\ q \in Callers
  BY TopOfStack, CallerIs DEF EndConstructor
<1>3. /\ L \in Nat \ {0} /\ Len(calls') = L /\ Caller = calls[L]
      /\ \A i \in 1 .. L - 1 : calls'[i] = calls[i]
      /\ calls'[L].mod = q /\ calls'[L].parent = q /\ calls'[L].at = 1
      /\ calls'[L].names = Caller.names
      /\ \A i \in 1 .. L : calls'[i].mod = calls[i].mod
  BY <1>2, EndConstructorCalls
<1>4. L \in 1 .. L /\ \A i \in 1 .. L : i \in 1 .. L - 1 \/ i = L
  BY <1>3
<1>5. /\ declared' = declared /\ gone' = gone /\ home' = home
      /\ parent_' = parent_ /\ children_' = children_
      /\ broken' = broken /\ faults' = faults /\ complained' = complained
      /\ built' = built \cup {q}
      /\ initialized_' = [initialized_ EXCEPT ![q] = TRUE]
  BY <1>2 DEF EndConstructor, treeVars, history
<1>6. initialized_'[q] = TRUE /\ \A x \in Mods : x # q => initialized_'[x] = initialized_[x]
  BY <1>2, <1>5 DEF TypeInv
<1>7. Callers' = Callers
  BY <1>3, SameCallers
<1>8. q \in declared /\ calls[L].names = << >> /\ calls[L].mod = q
  BY <1>1, <1>2, <1>3, <1>4 DEF CallsInv
<1>9. \A i \in 1 .. L - 1 : calls[i].mod # q /\ calls[i].mod \in Mods
  <2> SUFFICES ASSUME NEW i \in 1 .. L - 1 PROVE calls[i].mod # q /\ calls[i].mod \in Mods
    OBVIOUS
  <2>1. i \in 1 .. L /\ i # L
    BY <1>3
  <2> HIDE DEF L
  <2> QED BY <1>1, <1>4, <1>8, <2>1 DEF CallsInv, TypeInv, L
<1>10. \A x \in Mods : Begun(x)' <=> Begun(x)
  BY <1>2, <1>6, <1>7 DEF Begun
<1>11. \A x \in Mods : Ended(x)' <=> Ended(x)
  BY <1>2, <1>6, <1>7 DEF Ended
<1>12. CallsInv'
  <2>1. ASSUME NEW i \in 1 .. L
        PROVE  /\ calls'[i].mod \in declared
               /\ calls'[i].at = 0 => ~ initialized_'[calls'[i].mod] /\ calls'[i].names = << >>
               /\ calls'[i].at > 0 =>
                      /\ initialized_'[calls'[i].mod]
                      /\ calls'[i].parent = calls'[i].mod
                      /\ calls'[i].mod \in built'
                      /\ Len(calls'[i].names) = calls'[i].at - 1
                      /\ calls'[i].at <= Len(children_[calls'[i].mod]) + 1
    <3>1. CASE i \in 1 .. L - 1
      <4>1. calls'[i] = calls[i] /\ i \in 1 .. Len(calls)
        BY <1>3, <3>1
      <4>2. calls[i].mod # q /\ calls[i].mod \in Mods
        BY <1>9, <3>1
      <4> HIDE DEF L, q
      <4> QED BY <1>1, <1>5, <1>6, <4>1, <4>2 DEF CallsInv
    <3>2. CASE i = L
      <4>1. Len(children_[q]) \in Nat
        BY <1>2 DEF TypeInv
      <4>2. Len(<< >>) = 0
        OBVIOUS
      <4>3. calls'[L].at # 0 /\ Len(calls'[L].names) = calls'[L].at - 1
            /\ calls'[L].at <= Len(children_[q]) + 1
        BY <1>3, <1>8, <4>1, <4>2
      <4> QED BY <1>3, <1>5, <1>6, <1>8, <3>2, <4>3
    <3> QED BY <1>4, <3>1, <3>2
  <2>2. \A i, j \in 1 .. L : calls'[i].mod = calls'[j].mod => i = j
    BY <1>1, <1>3 DEF CallsInv
  <2>3. built' \subseteq declared /\ \A x \in declared : x \in built' <=> initialized_'[x]
    BY <1>1, <1>5, <1>6, <1>8 DEF CallsInv, TypeInv
  <2>4. \A i \in 1 .. Len(calls') : i \in 1 .. L
    BY <1>3
  <2> HIDE DEF L, q
  <2> QED BY <1>5, <2>1, <2>2, <2>3, <2>4 DEF CallsInv
<1>13. HomeInv'
  BY <1>1, <1>5, <1>10 DEF HomeInv, Known, TypeInv, MaybeMods
<1>14. TreeInv'
  <2>1. \A p, c : IsChild(c, p)' <=> IsChild(c, p)
    BY <1>5 DEF IsChild
  <2>2. \A i, j \in 1 .. Len(calls') : parent_[calls'[i].mod] = calls'[j].mod => j < i
    BY <1>1, <1>3 DEF TreeInv
  <2>3. \A x : Known(x)' <=> Known(x)
    BY <1>5 DEF Known
  <2> QED BY <1>1, <1>5, <1>10, <2>1, <2>2, <2>3 DEF TreeInv
<1>15. broken' = {} => RulesInv' /\ FaultsInv'
  BY <1>5, <1>7 DEF OrderlyInv, RulesInv, FaultsInv
<1>16. ~ complained' => EndedInv'
  <2> SUFFICES ASSUME ~ complained PROVE EndedInv'
    BY <1>5
  <2>1. EndedInv
    BY DEF OrderlyInv
  <2>2. ASSUME NEW i \in 1 .. L, NEW j \in 1 .. Len(children_[calls'[i].mod]),
               j < calls'[i].at, children_[calls'[i].mod][j] \in declared
        PROVE  Ended(children_[calls'[i].mod][j])
    <3>1. CASE i \in 1 .. L - 1
      BY <1>3, <2>1, <2>2, <3>1 DEF EndedInv
    <3>2. CASE i = L
      BY <1>3, <2>2, <3>2
    <3> QED BY <1>4, <3>1, <3>2
  <2>3. ASSUME NEW x \in declared, NEW p, p = parent_[x], p # Nullptr, Ended(p)'
        PROVE  Ended(x)'
    <3>1. p \in Mods /\ x \in Mods
      BY <2>3 DEF TypeInv, MaybeMods
    <3> QED BY <1>11, <2>1, <2>3, <3>1 DEF EndedInv
  <2>4. ASSUME NEW i \in 1 .. Len(calls'), NEW j \in 1 .. Len(children_[calls'[i].mod]),
               NEW c, c = children_[calls'[i].mod][j], j < calls'[i].at, c \in declared
        PROVE  Ended(c)'
    <3>1. c \in Mods
      BY <2>4 DEF TypeInv
    <3>2. i \in 1 .. L
      BY <1>3
    <3>3. Ended(c)
      BY <2>2, <2>4, <3>2
    <3> QED BY <1>11, <3>1, <3>3
  <2> HIDE DEF L, q
  <2> QED BY <1>5, <2>3, <2>4 DEF EndedInv
<1> QED BY <1>12, <1>13, <1>14, <1>15, <1>16 DEF OrderlyInv

(* EndInitModule goes on to the next child. *)
LEMMA NextChildOrderly ==
    ASSUME TypeInv, OrderlyInv, LoopInv, CannotConstruct \/ Constructed, faults = {}
    PROVE  OrderlyInv'
<1> DEFINE L == Len(calls)
           q == Caller.mod
<1>1. CallsInv /\ HomeInv /\ TreeInv
  BY DEF OrderlyInv
<1>2. /\ HasChild /\ NextChild
      /\ declared' = declared /\ built' = built /\ gone' = gone /\ home' = home
      /\ parent_' = parent_ /\ children_' = children_ /\ initialized_' = initialized_
      /\ broken' = broken /\ faults' = faults
      /\ ~ complained' => ~ complained /\ (returned \/ ~ ToConstruct(Child))
  BY DEF CannotConstruct, Constructed, Pending, lifeVars, treeVars, nameVars, history
<1>3. /\ L \in Nat \ {0} /\ Len(calls') = L /\ Caller = calls[L]
      /\ \A i \in 1 .. L - 1 : calls'[i] = calls[i]
      /\ calls'[L].mod = q /\ calls'[L].parent = Caller.parent
      /\ calls'[L].at = Caller.at + 1
      /\ Len(calls'[L].names) = Len(Caller.names) + 1
      /\ \A i \in 1 .. L : calls'[i].mod = calls[i].mod
  BY <1>2, NextChildCalls
<1>4. L \in 1 .. L /\ \A i \in 1 .. L : i \in 1 .. L - 1 \/ i = L
  BY <1>3
<1>5. /\ Caller.at \in 1 .. Len(children_[Caller.parent]) /\ Child \in Mods
      /\ Len(children_[Caller.parent]) \in Nat /\ Child \in declared
      /\ IsChild(Child, Caller.parent)
  BY <1>2, ChildIs DEF HasChild
<1>6. /\ Caller.at > 0 /\ Caller.parent = q /\ q \in declared
      /\ initialized_[q] /\ q \in built /\ Len(Caller.names) = Caller.at - 1
  <2>1. Caller.at > 0
    BY <1>5
  <2> QED BY <1>1, <1>3, <1>4, <2>1 DEF CallsInv
<1>7. Callers' = Callers
  BY <1>3, SameCallers
<1>8. \A x : (Begun(x)' <=> Begun(x)) /\ (Ended(x)' <=> Ended(x)) /\ (Known(x)' <=> Known(x))
  BY <1>2, <1>7 DEF Begun, Ended, Known
<1>9. CallsInv'
  <2>1. ASSUME NEW i \in 1 .. L
        PROVE  /\ calls'[i].mod \in declared
               /\ calls'[i].at = 0 => ~ initialized_[calls'[i].mod] /\ calls'[i].names = << >>
               /\ calls'[i].at > 0 =>
                      /\ initialized_[calls'[i].mod]
                      /\ calls'[i].parent = calls'[i].mod
                      /\ calls'[i].mod \in built
                      /\ Len(calls'[i].names) = calls'[i].at - 1
                      /\ calls'[i].at <= Len(children_[calls'[i].mod]) + 1
    <3>1. CASE i \in 1 .. L - 1
      BY <1>1, <1>3, <3>1 DEF CallsInv
    <3>2. CASE i = L
      <4>1. /\ calls'[L].at # 0 /\ Len(calls'[L].names) = calls'[L].at - 1
            /\ calls'[L].at <= Len(children_[q]) + 1
        <5>1. /\ calls'[L].at = Caller.at + 1 /\ Len(calls'[L].names) = Len(Caller.names) + 1
              /\ Len(Caller.names) = Caller.at - 1
              /\ Caller.at \in 1 .. Len(children_[q]) /\ Len(children_[q]) \in Nat
          BY <1>3, <1>5, <1>6
        <5> HIDE DEF L, q
        <5> QED BY ONLY <5>1
      <4> QED BY <1>3, <1>6, <3>2, <4>1
    <3> QED BY <1>4, <3>1, <3>2
  <2>2. \A i, j \in 1 .. L : calls'[i].mod = calls'[j].mod => i = j
    BY <1>1, <1>3 DEF CallsInv
  <2>3. \A i \in 1 .. Len(calls') : i \in 1 .. L
    BY <1>3
  <2> HIDE DEF L, q
  <2> QED BY <1>1, <1>2, <2>1, <2>2, <2>3 DEF CallsInv
<1>10. HomeInv'
  BY <1>1, <1>2, <1>8 DEF HomeInv, Known, TypeInv, MaybeMods
<1>11. TreeInv'
  <2>1. \A p, c : IsChild(c, p)' <=> IsChild(c, p)
    BY <1>2 DEF IsChild
  <2>2. \A i, j \in 1 .. Len(calls') : parent_[calls'[i].mod] = calls'[j].mod => j < i
    BY <1>1, <1>3 DEF TreeInv
  <2> QED BY <1>1, <1>2, <1>8, <2>1, <2>2 DEF TreeInv
<1>12. broken' = {} => RulesInv' /\ FaultsInv'
  <2>1. broken' = {} => RulesInv'
    BY <1>2, <1>7 DEF OrderlyInv, RulesInv
  <2> QED BY <1>2, <2>1 DEF FaultsInv
<1>13. ~ complained' => EndedInv'
  <2> SUFFICES ASSUME ~ complained, returned \/ ~ ToConstruct(Child) PROVE EndedInv'
    BY <1>2
  <2>1. EndedInv
    BY DEF OrderlyInv
  <2>2. Ended(Child)
    <3>1. initialized_[Child]
      BY <1>2 DEF ToConstruct, LoopInv, HasChild
    <3>2. parent_[Child] = q
      BY <1>1, <1>5, <1>6 DEF TreeInv, TypeInv
    <3>3. ASSUME NEW i \in 1 .. L, Child = calls[i].mod PROVE FALSE
      <4>1. L < i
        BY <1>1, <1>3, <1>4, <3>2, <3>3 DEF TreeInv
      <4> QED BY <1>3, <4>1
    <3> QED BY <3>1, <3>3 DEF Ended, Callers
  <2>3. ASSUME NEW i \in 1 .. L, NEW j \in 1 .. Len(children_[calls'[i].mod]),
               j < calls'[i].at, children_[calls'[i].mod][j] \in declared
        PROVE  Ended(children_[calls'[i].mod][j])
    <3>1. CASE i \in 1 .. L - 1
      BY <1>3, <2>1, <2>3, <3>1 DEF EndedInv
    <3>2. CASE i = L
      <4>1. j < Caller.at \/ j = Caller.at
        BY <1>3, <1>5, <2>3, <3>2
      <4>2. j < Caller.at => Ended(children_[q][j])
        BY <1>3, <1>4, <2>1, <2>3, <3>2 DEF EndedInv
      <4>3. Child = children_[q][Caller.at]
        BY <1>6 DEF Child
      <4> QED BY <1>3, <2>2, <3>2, <4>1, <4>2, <4>3
    <3> QED BY <1>4, <3>1, <3>2
  <2>4. \A i \in 1 .. Len(calls') : i \in 1 .. L
    BY <1>3
  <2> HIDE DEF L, q
  <2> QED BY <1>2, <1>8, <2>1, <2>3, <2>4 DEF EndedInv
<1> QED BY <1>9, <1>10, <1>11, <1>12, <1>13 DEF OrderlyInv

(* The construction of the innermost ends. *)
LEMMA EndInitOrderly ==
    ASSUME TypeInv, OrderlyInv, EndInitModule, faults = {}
    PROVE  OrderlyInv'
<1> DEFINE L == Len(calls)
           q == Caller.mod
<1>1. CallsInv /\ HomeInv /\ TreeInv
  BY DEF OrderlyInv
<1>2. /\ calls # << >> /\ Caller.at > 0 /\ Caller.parent \in declared
      /\ Caller.at = Len(children_[Caller.parent]) + 1
      /\ declared' = declared /\ built' = built /\ gone' = gone /\ home' = home
      /\ parent_' = parent_ /\ children_' = children_ /\ initialized_' = initialized_
      /\ broken' = broken /\ faults' = faults /\ complained' = complained
  BY DEF EndInitModule, AtEnd, lifeVars, history
<1>3. /\ L \in Nat \ {0} /\ Len(calls') = L - 1 /\ Caller = calls[L]
      /\ \A i \in 1 .. L - 1 : calls'[i] = calls[i]
  BY EndInitCalls
<1>4. /\ L \in 1 .. L /\ \A i \in 1 .. L : i \in 1 .. L - 1 \/ i = L
      /\ \A i \in 1 .. L - 1 : i \in 1 .. L /\ i # L
      /\ \A i : i \in 1 .. Len(calls') <=> i \in 1 .. L - 1
  BY <1>3
<1>5. /\ Caller.parent = q /\ q \in declared /\ initialized_[q]
  BY <1>1, <1>2, <1>3, <1>4 DEF CallsInv
<1>6. /\ \A x \in Callers' : x \in Callers /\ x # q
      /\ \A x \in Callers : x \in Callers' \/ x = q
  <2>1. \A i \in 1 .. L - 1 : calls[i].mod # q
    BY <1>1, <1>3, <1>4 DEF CallsInv
  <2> HIDE DEF q
  <2>2. \A x \in Callers' : x \in Callers /\ x # q
    BY <1>3, <1>4, <2>1 DEF Callers
  <2>3. \A x \in Callers : x \in Callers' \/ x = q
    BY <1>3, <1>4 DEF Callers, q
  <2> QED BY <2>2, <2>3
<1>7. \A x : Begun(x)' <=> Begun(x)
  BY <1>2, <1>5, <1>6 DEF Begun
<1>8. \A x : Ended(x)' <=> Ended(x) \/ x = q
  BY <1>2, <1>5, <1>6 DEF Ended
<1>9. \A x : Known(x)' <=> Known(x)
  BY <1>2 DEF Known
<1>10. CallsInv'
  <2> HIDE DEF L, q
  <2>1. \A i, j \in 1 .. L - 1 : calls'[i].mod = calls'[j].mod => i = j
    BY <1>1, <1>3, <1>4 DEF CallsInv, L
  <2>2. ASSUME NEW i \in 1 .. L - 1
        PROVE  /\ calls'[i].mod \in declared
               /\ calls'[i].at = 0 => ~ initialized_[calls'[i].mod] /\ calls'[i].names = << >>
               /\ calls'[i].at > 0 =>
                      /\ initialized_[calls'[i].mod]
                      /\ calls'[i].parent = calls'[i].mod
                      /\ calls'[i].mod \in built
                      /\ Len(calls'[i].names) = calls'[i].at - 1
                      /\ calls'[i].at <= Len(children_[calls'[i].mod]) + 1
    <3>1. calls'[i] = calls[i] /\ i \in 1 .. Len(calls)
      BY <1>3, <1>4 DEF L
    <3> QED BY <1>1, <3>1 DEF CallsInv
  <2> QED BY <1>1, <1>2, <1>4, <2>1, <2>2 DEF CallsInv
<1>11. HomeInv'
  BY <1>1, <1>2, <1>7, <1>9 DEF HomeInv
<1>12. TreeInv'
  <2>1. \A p, c : IsChild(c, p)' <=> IsChild(c, p)
    BY <1>2 DEF IsChild
  <2>2. ASSUME NEW i \in 1 .. L - 1, NEW j \in 1 .. L - 1,
               parent_[calls'[i].mod] = calls'[j].mod
        PROVE  j < i
    <3>1. /\ calls'[i] = calls[i] /\ i \in 1 .. Len(calls)
          /\ calls'[j] = calls[j] /\ j \in 1 .. Len(calls)
      BY <1>3, <1>4
    <3> QED BY <1>1, <2>2, <3>1 DEF TreeInv
  <2> HIDE DEF L, q
  <2>3. \A p \in Mods, c \in declared' : IsChild(c, p)' <=> parent_'[c] = p
    BY <1>1, <1>2, <2>1 DEF TreeInv
  <2>4. \A p, c \in Mods : IsChild(c, p)' => Begun(p)' /\ Known(p)' /\ Known(c)'
    BY <1>1, <1>7, <1>9, <2>1 DEF TreeInv
  <2>5. \A i, j \in 1 .. Len(calls') : parent_'[calls'[i].mod] = calls'[j].mod => j < i
    BY <1>2, <1>4, <2>2
  <2>6. \A p, q1 \in Mods : \A i \in 1 .. Len(children_'[p]), j \in 1 .. Len(children_'[q1]) :
           children_'[p][i] = children_'[q1][j] => p = q1 /\ i = j
    BY <1>1, <1>2 DEF TreeInv
  <2> QED BY <2>3, <2>4, <2>5, <2>6 DEF TreeInv
<1>13. broken' = {} => RulesInv' /\ FaultsInv'
  BY <1>2, <1>6 DEF OrderlyInv, RulesInv, FaultsInv
<1>14. ~ complained' => EndedInv'
  <2> SUFFICES ASSUME ~ complained PROVE EndedInv'
    BY <1>2
  <2>1. EndedInv
    BY DEF OrderlyInv
  <2>2. ASSUME NEW m \in declared, parent_[m] = q PROVE Ended(m)
    <3>1. IsChild(m, q)
      BY <1>1, <1>5, <2>2 DEF TreeInv, TypeInv
    <3>2. PICK j \in 1 .. Len(children_[q]) : children_[q][j] = m
      BY <3>1 DEF IsChild
    <3>3. j < calls[L].at
      <4>1. Len(children_[q]) \in Nat
        BY <1>5 DEF TypeInv
      <4> QED BY <1>2, <1>3, <1>5, <4>1
    <3> QED BY <1>3, <1>4, <2>1, <3>2, <3>3 DEF EndedInv
  <2>3. ASSUME NEW m \in declared, parent_[m] # Nullptr,
               Ended(parent_[m]) \/ parent_[m] = q
        PROVE  Ended(m)
    BY <2>1, <2>2, <2>3 DEF EndedInv
  <2>4. ASSUME NEW i \in 1 .. L - 1, NEW j \in 1 .. Len(children_[calls'[i].mod]),
               j < calls'[i].at, children_[calls'[i].mod][j] \in declared
        PROVE  Ended(children_[calls'[i].mod][j])
    BY <1>3, <1>4, <2>1, <2>4 DEF EndedInv
  <2> HIDE DEF L, q
  <2> QED BY <1>2, <1>4, <1>8, <2>3, <2>4 DEF EndedInv
<1> QED BY <1>10, <1>11, <1>12, <1>13, <1>14 DEF OrderlyInv

(* A module that user code names, a step that would touch memory that is not *)
(* there, or none: what the tree is stays.                                   *)
LEMMA FrameOrderly ==
    ASSUME OrderlyInv,
           UNCHANGED <<declared, gone, home, built, parent_, children_, initialized_,
                       calls, broken>>,
           ~ complained' => ~ complained, broken = {} => FaultsInv'
    PROVE  OrderlyInv'
<1>1. /\ declared' = declared /\ built' = built /\ gone' = gone /\ home' = home
      /\ parent_' = parent_ /\ children_' = children_ /\ initialized_' = initialized_
      /\ calls' = calls /\ broken' = broken
  OBVIOUS
<1>2. Callers' = Callers
  BY <1>1 DEF Callers
<1>3. \A x : /\ Begun(x)' <=> Begun(x)
             /\ Ended(x)' <=> Ended(x)
             /\ Known(x)' <=> Known(x)
  BY <1>1, <1>2 DEF Begun, Ended, Known
<1>4. \A c, p : IsChild(c, p)' <=> IsChild(c, p)
  BY <1>1 DEF IsChild
<1>5. CallsInv'
  BY <1>1 DEF OrderlyInv, CallsInv
<1>6. HomeInv'
  BY <1>1, <1>3 DEF OrderlyInv, HomeInv
<1>7. TreeInv'
  BY <1>1, <1>3, <1>4 DEF OrderlyInv, TreeInv
<1>8. broken' = {} => RulesInv' /\ FaultsInv'
  BY <1>1, <1>2 DEF OrderlyInv, RulesInv
<1>9. ~ complained' => EndedInv'
  BY <1>1, <1>3 DEF OrderlyInv, EndedInv
<1> QED BY <1>5, <1>6, <1>7, <1>8, <1>9 DEF OrderlyInv

(* A program that keeps to the rules never has the code touch what is gone.  *)
LEMMA NothingGone ==
    ASSUME TypeInv, StackInv, throws = 0, OrderlyInv, broken = {}
    PROVE  ~ TouchGone
<1>1. CallsInv /\ HomeInv /\ TreeInv /\ RulesInv
  BY DEF OrderlyInv
<1>2. ASSUME calls # << >>
      PROVE  /\ Len(calls) \in 1 .. Len(calls) /\ Caller = calls[Len(calls)]
             /\ Last(build_stack_) = Caller.mod /\ Caller.mod \in declared
             /\ Caller.mod \in Callers /\ Caller.at \in Nat
             /\ Caller.at > 0 => Caller.parent = Caller.mod
  <2>1. /\ Len(calls) \in 1 .. Len(calls) /\ Caller = calls[Len(calls)]
        /\ Caller.mod \in Callers /\ Caller.at \in Nat
    BY <1>2, CallerIs
  <2> QED BY <1>1, <1>2, <2>1, TopOfStack DEF CallsInv
<1>3. ASSUME ~ Adoptable, InUserCode PROVE FALSE
  <2>1. calls # << >> /\ Caller.at = 0
    BY <1>3, TopOfStack DEF Adoptable, InUserCode
  <2>2. PICK i \in 1 .. Len(calls) : calls[i].at > 0 /\ calls[i].parent = Last(build_stack_)
    BY <1>2, <1>3, <2>1 DEF Adoptable
  <2>3. calls[i].mod = calls[Len(calls)].mod
    BY <1>1, <1>2, <2>1, <2>2 DEF CallsInv
  <2>4. i = Len(calls)
    BY <1>1, <1>2, <2>1, <2>3 DEF CallsInv
  <2> QED BY <1>2, <2>1, <2>2, <2>4
<1>4. \A m \in declared : HasHierarchicalName(m)
  <2> SUFFICES ASSUME NEW m \in declared PROVE HasHierarchicalName(m)
    OBVIOUS
  <2> DEFINE S == declared \cup {Nullptr}
  <2>1. m \in S /\ \A y \in S : y # Nullptr => parent_[y] \in S
    BY <1>1 DEF RulesInv
  <2> HIDE DEF S
  <2>2. Chain(parent_, m) \subseteq S
    BY <2>1, ChainLeast
  <2> QED BY <1>1, <2>2 DEF HasHierarchicalName, RulesInv, S
<1>5. ~ (calls # << >> /\ Caller.at = 0 /\ Last(build_stack_) \notin declared)
  BY <1>2
<1>6. ~ (calls # << >> /\ Caller.at > 0 /\ Caller.parent \notin declared)
  BY <1>2
<1>7. ~ (InLoop /\ Child \notin declared)
  <2> SUFFICES ASSUME InLoop PROVE Child \in declared
    OBVIOUS
  <2>1. calls # << >> /\ Caller.at \in 1 .. Len(children_[Caller.parent]) /\ Caller.at > 0
    BY ChildIs
  <2>2. Caller.parent \in Callers
    BY <1>2, <2>1
  <2> QED BY <1>1, <2>1, <2>2 DEF RulesInv, Child
<1>8. ~ (AtEnd /\ ~ Indexed \subseteq declared)
  <2> SUFFICES ASSUME AtEnd, NEW i \in Sharing(Caller.names)
               PROVE  children_[Caller.parent][i] \in declared
    BY DEF Indexed
  <2>1. calls # << >> /\ Caller.at > 0 /\ Caller.at = Len(children_[Caller.parent]) + 1
    BY DEF AtEnd
  <2>2. Caller.parent \in Callers /\ Caller.parent \in Mods
    BY <1>2, <2>1 DEF TypeInv
  <2>3. Len(Caller.names) = Caller.at - 1
    BY <1>1, <1>2, <2>1 DEF CallsInv
  <2>4. Len(children_[Caller.parent]) \in Nat
    BY <2>2 DEF TypeInv
  <2>5. i \in 1 .. Len(Caller.names)
    BY DEF Sharing
  <2>6. i \in 1 .. Len(children_[Caller.parent])
    BY <2>1, <2>3, <2>4, <2>5
  <2> QED BY <1>1, <2>2, <2>6 DEF RulesInv
<1> QED BY <1>3, <1>4, <1>5, <1>6, <1>7, <1>8 DEF TouchGone, MayDeclare, Pending, HasChild

(* A module that stands alone is destroyed, and its T with all inside it.    *)
LEMMA DestroyOrderly ==
    ASSUME TypeInv, OrderlyInv, NEW m \in Mods, Destroy(m)
    PROVE  OrderlyInv'
<1> DEFINE ends == {m} \cup Inside(m)
<1>1. CallsInv /\ HomeInv /\ TreeInv
  BY DEF OrderlyInv
<1>2. /\ m \in declared /\ m \notin Members /\ ends \cap Callers = {}
      /\ declared' = declared \ ends /\ built' = built \ ends
      /\ gone' = gone \cup {m} /\ broken' = broken \cup Breaks(m)
      /\ faults' = IF ends \subseteq built THEN {} ELSE {"garbage"}
      /\ home' = home /\ parent_' = parent_ /\ children_' = children_
      /\ initialized_' = initialized_ /\ calls' = calls /\ complained' = complained
  BY DEF Destroy, treeVars, nameVars
<1>3. /\ \A x \in declared : home[x] \in ends => x \in ends
      /\ \A x \in ends : x # m => home[x] # Nullptr /\ home[x] \in ends
      /\ ends \subseteq declared /\ m \in ends
  BY <1>1, <1>2, InsideIs
<1>4. Callers' = Callers
  BY <1>2 DEF Callers
<1>5. Breaks(m) = {} =>
          /\ parent_[m] = Nullptr => m \in built
          /\ parent_[m] \notin Callers
          /\ \A x \in declared \ ends : parent_[x] \notin ends
  <2> HIDE DEF ends
  <2>1. \A rule \in {"unbuilt", "early", "outlived"} :
            (\/ rule = "unbuilt" /\ parent_[m] = Nullptr /\ m \notin built
             \/ rule = "early" /\ parent_[m] \in Callers
             \/ rule = "outlived" /\ \E x \in declared \ ends : parent_[x] \in ends)
            => rule \in Breaks(m)
    BY DEF Breaks, ends
  <2> QED BY <2>1
<1> HIDE DEF ends
<1>6. \A x \in Mods : /\ Begun(x)' <=> Begun(x)
                      /\ Ended(x)' <=> Ended(x)
  BY <1>2, <1>4 DEF Begun, Ended
<1>7. \A x : Known(x) => Known(x)'
  <2> SUFFICES ASSUME NEW x, Known(x) PROVE Known(x)'
    OBVIOUS
  <2>1. CASE x \in ends /\ x # m
    BY <1>2, <1>3, <2>1 DEF Known
  <2>2. CASE x \notin ends \/ x = m
    BY <1>2, <2>2 DEF Known
  <2> QED BY <2>1, <2>2
<1>8. \A i \in 1 .. Len(calls) : calls[i].mod \notin ends
  BY <1>2 DEF Callers
<1>9. CallsInv'
  <2>1. \A i \in 1 .. Len(calls) : calls[i].mod \in declared \ ends
    BY <1>1, <1>8 DEF CallsInv
  <2>2. \A i \in 1 .. Len(calls) : calls[i].at > 0 => calls[i].mod \in built \ ends
    BY <1>1, <1>8 DEF CallsInv
  <2> QED BY <1>1, <1>2, <2>1, <2>2 DEF CallsInv
<1>10. HomeInv'
  <2> SUFFICES ASSUME NEW x \in Mods
               PROVE  /\ home[x] # Nullptr => x \in Members /\ Known(home[x])'
                      /\ x \in declared' /\ home[x] # Nullptr
                             => home[x] \in declared' /\ Begun(home[x])' /\ parent_[x] = home[x]
                      /\ x \in declared' \cap Members => home[x] # Nullptr
                      /\ x \notin declared' /\ home[x] # Nullptr => home[x] \notin declared'
                      /\ x \in declared' => x \notin gone'
    BY <1>2 DEF HomeInv
  <2>1. home[x] # Nullptr => x \in Members /\ Known(home[x])'
    <3>1. home[x] # Nullptr => x \in Members /\ Known(home[x])
      BY <1>1 DEF HomeInv
    <3>2. \A h : Known(h) => Known(h)'
      BY <1>7
    <3>3. PICK h : h = home[x]
      OBVIOUS
    <3> QED BY <1>2, <3>1, <3>2, <3>3
  <2>2. ASSUME x \in declared', home[x] # Nullptr
        PROVE  home[x] \in declared' /\ Begun(home[x])' /\ parent_[x] = home[x]
    <3>0. PICK h : h = home[x]
      OBVIOUS
    <3>1. x \in declared /\ x \notin ends
      BY <1>2, <2>2
    <3>2. h \in declared /\ Begun(h) /\ parent_[x] = h
      BY <1>1, <2>2, <3>0, <3>1 DEF HomeInv
    <3>3. h \notin ends /\ h \in Mods
      BY <1>3, <3>0, <3>1, <3>2 DEF TypeInv
    <3>4. Begun(h)'
      BY <1>6, <3>2, <3>3
    <3> QED BY <1>2, <3>0, <3>2, <3>3, <3>4
  <2>3. x \in declared' \cap Members => home[x] # Nullptr
    BY <1>1, <1>2 DEF HomeInv
  <2>4. ASSUME x \notin declared', home[x] # Nullptr PROVE home[x] \notin declared'
    <3>1. CASE x \in ends
      <4>1. x # m
        BY <1>1, <1>2, <2>4 DEF HomeInv
      <4> QED BY <1>2, <1>3, <3>1, <4>1
    <3>2. CASE x \notin ends
      BY <1>1, <1>2, <2>4, <3>2 DEF HomeInv
    <3> QED BY <3>1, <3>2
  <2>5. x \in declared' => x \notin gone'
    BY <1>1, <1>2, <1>3 DEF HomeInv
  <2> QED BY <2>1, <2>2, <2>3, <2>4, <2>5
<1>11. TreeInv'
  <2>1. \A p, c : IsChild(c, p)' <=> IsChild(c, p)
    BY <1>2 DEF IsChild
  <2> QED BY <1>1, <1>2, <1>6, <1>7, <2>1 DEF TreeInv
<1>12. ASSUME broken' = {} PROVE RulesInv' /\ FaultsInv'
  <2>1. /\ RulesInv /\ Breaks(m) = {}
    BY <1>2, <1>12 DEF OrderlyInv
  <2>2. RulesInv'
    <3>1. ASSUME NEW x \in declared'
          PROVE  parent_[x] \in declared' \cup {Nullptr} /\ Nullptr \in Chain(parent_, x)
      BY <1>2, <1>5, <2>1, <3>1 DEF RulesInv
    <3>2. ASSUME NEW p \in Callers, NEW i \in 1 .. Len(children_[p]),
                 children_[p][i] \in ends
          PROVE  FALSE
      <4> DEFINE c == children_[p][i]
      <4>1. p \in Mods /\ c \in declared /\ parent_[c] = p
        <5>1. p \in Mods
          <6>1. PICK k \in 1 .. Len(calls) : calls[k].mod = p
            BY DEF Callers
          <6> QED BY <1>1, <6>1 DEF CallsInv, TypeInv
        <5>2. c \in declared /\ IsChild(c, p)
          BY <2>1 DEF RulesInv, IsChild
        <5> QED BY <1>1, <5>1, <5>2 DEF TreeInv
      <4>2. c # m
        BY <1>5, <2>1, <4>1
      <4>3. home[c] # Nullptr /\ home[c] \in ends
        BY <1>3, <3>2, <4>2
      <4>4. parent_[c] = home[c]
        BY <1>1, <4>1, <4>3 DEF HomeInv, TypeInv
      <4> QED BY <1>2, <4>1, <4>3, <4>4
    <3>3. \A p \in Callers : \A i \in 1 .. Len(children_[p]) : children_[p][i] \in declared'
      BY <1>2, <2>1, <3>2 DEF RulesInv
    <3> QED BY <1>2, <1>4, <3>1, <3>3 DEF RulesInv
  <2>3. ASSUME ~ complained PROVE ends \subseteq built
    <3>1. EndedInv
      BY <2>3 DEF OrderlyInv
    <3>2. ASSUME NEW x \in declared, NEW p \in Mods, parent_[x] = p, p \notin Callers, Begun(p)
          PROVE  x \in built
      <4>1. p # Nullptr /\ Ended(p)
        BY <3>2, ModuleTreeAssumption DEF Begun, Ended
      <4>2. Ended(x)
        BY <3>1, <3>2, <4>1 DEF EndedInv
      <4> QED BY <1>1, <4>2 DEF Ended, CallsInv
    <3>3. m \in built
      <4>1. CASE parent_[m] = Nullptr
        BY <1>5, <2>1, <4>1
      <4>2. CASE parent_[m] # Nullptr
        <5>1. parent_[m] \in Mods /\ parent_[m] \notin Callers
          BY <1>5, <2>1, <4>2 DEF TypeInv, MaybeMods
        <5>2. IsChild(m, parent_[m])
          BY <1>1, <1>2, <5>1 DEF TreeInv
        <5>3. Begun(parent_[m])
          BY <1>1, <5>1, <5>2 DEF TreeInv
        <5> QED BY <1>2, <3>2, <5>1, <5>3
      <4> QED BY <4>1, <4>2
    <3>4. ASSUME NEW x \in ends, x # m PROVE x \in built
      <4>1. home[x] \in ends /\ home[x] # Nullptr /\ x \in declared /\ x \in Mods
        BY <1>3, <3>4 DEF TypeInv
      <4>2. parent_[x] = home[x] /\ Begun(home[x])
        BY <1>1, <4>1 DEF HomeInv
      <4>3. home[x] \in Mods /\ home[x] \notin Callers
        BY <1>2, <1>3, <4>1 DEF TypeInv
      <4> QED BY <3>2, <4>1, <4>2, <4>3
    <3> QED BY <3>3, <3>4
  <2>4. FaultsInv'
    BY <1>2, <2>3 DEF FaultsInv
  <2> QED BY <2>2, <2>4
<1>13. ~ complained' => EndedInv'
  <2> SUFFICES ASSUME ~ complained PROVE EndedInv'
    BY <1>2
  <2>1. EndedInv
    BY DEF OrderlyInv
  <2>2. \A x : Ended(x)' <=> Ended(x)
    BY <1>2, <1>4 DEF Ended
  <2> QED BY <1>2, <2>1, <2>2 DEF EndedInv
<1> QED BY <1>9, <1>10, <1>11, <1>12, <1>13 DEF OrderlyInv

(* The innermost module under construction, and what declaring m changes:    *)
(* it has one child more.                                                    *)
Innermost(q) ==
    /\ calls # << >> => /\ Len(calls) \in 1 .. Len(calls) /\ Caller = calls[Len(calls)]
                        /\ Caller.at = 0 /\ q \in Mods /\ q = Caller.mod /\ q \in Callers
                        /\ q \in declared /\ Last(build_stack_) = q
                        /\ build_stack_ # << >>
    /\ calls = << >> => q = Nullptr /\ build_stack_ = << >>

Adopts(m, q) ==
    /\ ~ Known(m) /\ m # Nullptr /\ m # q
    /\ \A p \in Mods : p # m /\ p # q => children_'[p] = children_[p]
    /\ children_'[m] = << >>
    /\ q # Nullptr => /\ q \in Mods /\ children_'[q] = Append(children_[q], m)
                      /\ Len(children_[q]) \in Nat
                      /\ Len(children_'[q]) = Len(children_[q]) + 1
                      /\ \A i \in 1 .. Len(children_[q]) :
                            children_'[q][i] = children_[q][i]
                      /\ children_'[q][Len(children_[q]) + 1] = m
    /\ initialized_'[m] = FALSE
    /\ \A x \in Mods : x # m => initialized_'[x] = initialized_[x]
    /\ parent_'[m] = q /\ \A x \in Mods : x # m => parent_'[x] = parent_[x]
    /\ \A x \in Mods : x # m => home'[x] = home[x]
    /\ m \in Members => home'[m] = q /\ calls # << >>
    /\ m \notin Members => home'[m] = Nullptr
    /\ parent_' \in [Mods -> MaybeMods]
    /\ \A p \in Mods : \A c :
          /\ IsChild(c, p)' <=> (IsChild(c, p) \/ (c = m /\ p = q))
          /\ IsChild(c, p) => p # m /\ c # m /\ c \in Mods

LEMMA DeclareIs ==
    ASSUME TypeInv, StackInv, throws = 0, OrderlyInv, NEW m \in Mods, Declare(m)
    PROVE  \E q \in MaybeMods : Innermost(q) /\ Adopts(m, q)
<1> DEFINE L == Len(calls)
           q == IF calls = << >> THEN Nullptr ELSE Caller.mod
<1>1. CallsInv /\ HomeInv /\ TreeInv
  BY DEF OrderlyInv
<1>2. /\ m \notin declared /\ m \notin gone /\ InUserCode
      /\ declared' = declared \cup {m}
      /\ built' = built /\ gone' = gone /\ calls' = calls /\ broken' = broken
      /\ faults' = faults /\ complained' = complained
      /\ m \notin Members => home' = home
      /\ m \in Members => calls # << >> /\ home' = [home EXCEPT ![m] = Caller.mod]
      /\ initialized_' = [initialized_ EXCEPT ![m] = FALSE]
  BY DEF Declare, MayDeclare, history
<1>3. /\ calls # << >> => /\ L \in 1 .. L /\ Caller = calls[L] /\ Caller.at = 0
                          /\ q \in Mods /\ q = Caller.mod /\ q \in Callers
                          /\ q \in declared /\ Last(build_stack_) = q
                          /\ build_stack_ # << >>
      /\ calls = << >> => q = Nullptr /\ build_stack_ = << >>
  BY <1>1, <1>2, CallerIs, TopOfStack DEF InUserCode, CallsInv
<1>4. home[m] = Nullptr
  BY <1>1, <1>2, <1>3 DEF HomeInv, Declare, MayDeclare
<1>5. ~ Known(m) /\ m # Nullptr /\ m # q
  BY <1>1, <1>2, <1>3, <1>4, ModuleTreeAssumption DEF Known
<1>6. /\ parent_' = [parent_ EXCEPT ![m] = q]
      /\ q = Nullptr => children_' = [x \in Mods |-> IF x = m THEN << >> ELSE children_[x]]
      /\ q # Nullptr =>
            /\ q \in Mods /\ calls # << >>
            /\ children_' = [x \in Mods |-> IF x = m THEN << >>
                                           ELSE IF x = q THEN Append(children_[q], m)
                                           ELSE children_[x]]
  <2>1. CASE calls = << >>
    BY <1>3, <2>1 DEF Declare, TypeInv
  <2>2. CASE calls # << >>
    <3>1. q \in Mods /\ q # Nullptr
      BY <1>3, <2>2, ModuleTreeAssumption
    <3>2. /\ parent_' = [parent_ EXCEPT ![m] = q]
          /\ children_' = [children_ EXCEPT ![m] = << >>, ![q] = Append(@, m)]
      BY <1>3, <2>2 DEF Declare
    <3> HIDE DEF q
    <3>3. children_' = [x \in Mods |-> IF x = m THEN << >>
                                      ELSE IF x = q THEN Append(children_[q], m)
                                      ELSE children_[x]]
      BY <1>5, <3>1, <3>2 DEF TypeInv
    <3> QED BY <2>2, <3>1, <3>2, <3>3
  <2> QED BY <2>1, <2>2
<1> HIDE DEF q
<1>7. /\ \A p \in Mods : p # m /\ p # q => children_'[p] = children_[p]
      /\ children_'[m] = << >>
      /\ q # Nullptr => /\ q \in Mods /\ children_'[q] = Append(children_[q], m)
                        /\ Len(children_[q]) \in Nat
                        /\ Len(children_'[q]) = Len(children_[q]) + 1
                        /\ \A i \in 1 .. Len(children_[q]) :
                              children_'[q][i] = children_[q][i]
                        /\ children_'[q][Len(children_[q]) + 1] = m
  <2>1. /\ \A p \in Mods : p # m /\ p # q => children_'[p] = children_[p]
        /\ children_'[m] = << >>
        /\ q # Nullptr => q \in Mods /\ children_'[q] = Append(children_[q], m)
    BY <1>5, <1>6, ModuleTreeAssumption
  <2>2. ASSUME q # Nullptr
        PROVE  /\ Len(children_[q]) \in Nat
               /\ Len(children_'[q]) = Len(children_[q]) + 1
               /\ \A i \in 1 .. Len(children_[q]) : children_'[q][i] = children_[q][i]
               /\ children_'[q][Len(children_[q]) + 1] = m
    <3> DEFINE s == children_[q]
    <3>1. s \in Seq(Mods) /\ children_'[q] = Append(s, m)
      BY <2>1, <2>2 DEF TypeInv
    <3> HIDE DEF s
    <3>2. /\ Len(s) \in Nat /\ Len(children_'[q]) = Len(s) + 1
          /\ \A i \in 1 .. Len(s) : children_'[q][i] = s[i]
          /\ children_'[q][Len(s) + 1] = m
      BY <3>1, PushIs
    <3> QED BY <3>2 DEF s
  <2> QED BY <2>1, <2>2
<1>8. /\ initialized_'[m] = FALSE /\ \A x \in Mods : x # m => initialized_'[x] = initialized_[x]
      /\ parent_'[m] = q /\ \A x \in Mods : x # m => parent_'[x] = parent_[x]
      /\ \A x \in Mods : x # m => home'[x] = home[x]
      /\ m \in Members => home'[m] = q /\ calls # << >>
      /\ m \notin Members => home'[m] = Nullptr
      /\ parent_' \in [Mods -> MaybeMods]
  <2>1. /\ initialized_'[m] = FALSE /\ \A x \in Mods : x # m => initialized_'[x] = initialized_[x]
    BY <1>2 DEF TypeInv
  <2>2. parent_'[m] = q /\ \A x \in Mods : x # m => parent_'[x] = parent_[x]
    BY <1>6 DEF TypeInv
  <2>3. /\ \A x \in Mods : x # m => home'[x] = home[x]
        /\ m \in Members => home'[m] = q /\ calls # << >>
        /\ m \notin Members => home'[m] = Nullptr
    BY <1>2, <1>3, <1>4 DEF TypeInv
  <2>4. parent_' \in [Mods -> MaybeMods]
    BY <1>3, <1>6 DEF TypeInv, MaybeMods
  <2> QED BY <2>1, <2>2, <2>3, <2>4
<1>9. ASSUME NEW p \in Mods, NEW c
       PROVE  /\ IsChild(c, p)' <=> (IsChild(c, p) \/ (c = m /\ p = q))
              /\ IsChild(c, p) => p # m /\ c # m /\ c \in Mods
  <2>1. IsChild(c, p) => p # m /\ c # m /\ c \in Mods
    <3>1. IsChild(c, p) => c \in Mods
      BY DEF IsChild, TypeInv
    <3> QED BY <1>1, <1>5, <3>1 DEF TreeInv
  <2>2. IsChild(c, p)' <=> (IsChild(c, p) \/ (c = m /\ p = q))
    <3>1. CASE p = m
      <4>1. children_'[p] = << >> /\ p # q /\ ~ IsChild(c, p)
        BY <1>5, <1>7, <2>1, <3>1
      <4>2. \A i \in 1 .. Len(<< >>) : FALSE
        OBVIOUS
      <4>3. ~ IsChild(c, p)'
        BY <4>1, <4>2 DEF IsChild
      <4> QED BY <4>1, <4>3
    <3>2. CASE p # m /\ p # q
      BY <1>7, <3>2 DEF IsChild
    <3>3. CASE p = q
      <4>1. q # Nullptr
        BY <3>3, ModuleTreeAssumption
      <4> DEFINE N == Len(children_[q])
      <4>2. \A i : i \in 1 .. N + 1 <=> i \in 1 .. N \/ i = N + 1
        BY <1>7, <4>1
      <4> QED BY <1>7, <3>3, <4>1, <4>2 DEF IsChild
    <3> QED BY <3>1, <3>2, <3>3
  <2> QED BY <2>1, <2>2
<1>10. q \in MaybeMods
  BY <1>3 DEF MaybeMods
<1> QED BY <1>3, <1>5, <1>7, <1>8, <1>9, <1>10 DEF Innermost, Adopts

(* A module is declared, where none has been. *)
LEMMA DeclareOrderly ==
    ASSUME TypeInv, StackInv, throws = 0, OrderlyInv, NEW m \in Mods, Declare(m), faults = {}
    PROVE  OrderlyInv'
<1> DEFINE L == Len(calls)
<1>1. CallsInv /\ HomeInv /\ TreeInv
  BY DEF OrderlyInv
<1>2. /\ m \notin declared /\ m \notin gone /\ InUserCode
      /\ declared' = declared \cup {m}
      /\ built' = built /\ gone' = gone /\ calls' = calls /\ broken' = broken
      /\ faults' = faults /\ complained' = complained
      /\ m \notin Members => home' = home
      /\ m \in Members => calls # << >> /\ home' = [home EXCEPT ![m] = Caller.mod]
      /\ initialized_' = [initialized_ EXCEPT ![m] = FALSE]
  BY DEF Declare, MayDeclare, history
<1>4. PICK q \in MaybeMods : Innermost(q) /\ Adopts(m, q)
  BY DeclareIs
<1>3. /\ calls # << >> => /\ Len(calls) \in 1 .. Len(calls) /\ Caller = calls[Len(calls)]
                          /\ Caller.at = 0 /\ q \in Mods /\ q = Caller.mod /\ q \in Callers
                          /\ q \in declared /\ Last(build_stack_) = q
                          /\ build_stack_ # << >>
      /\ calls = << >> => q = Nullptr /\ build_stack_ = << >>
  BY <1>4 DEF Innermost
<1>5. ~ Known(m) /\ m # Nullptr /\ m # q
  BY <1>4 DEF Adopts
<1>7. /\ \A p \in Mods : p # m /\ p # q => children_'[p] = children_[p]
      /\ children_'[m] = << >>
      /\ q # Nullptr => /\ q \in Mods /\ children_'[q] = Append(children_[q], m)
                        /\ Len(children_[q]) \in Nat
                        /\ Len(children_'[q]) = Len(children_[q]) + 1
                        /\ \A i \in 1 .. Len(children_[q]) :
                              children_'[q][i] = children_[q][i]
                        /\ children_'[q][Len(children_[q]) + 1] = m
  BY <1>4 DEF Adopts
<1>8. /\ initialized_'[m] = FALSE
      /\ \A x \in Mods : x # m => initialized_'[x] = initialized_[x]
      /\ parent_'[m] = q /\ \A x \in Mods : x # m => parent_'[x] = parent_[x]
      /\ \A x \in Mods : x # m => home'[x] = home[x]
      /\ m \in Members => home'[m] = q /\ calls # << >>
      /\ m \notin Members => home'[m] = Nullptr
      /\ parent_' \in [Mods -> MaybeMods]
  BY <1>4 DEF Adopts
<1>9. Callers' = Callers /\ m \notin Callers
  BY <1>1, <1>2 DEF Callers, CallsInv
<1>10. \A i \in 1 .. Len(calls) : calls[i].mod \in Mods /\ calls[i].mod # m
  BY <1>1, <1>2 DEF CallsInv, TypeInv
<1>11. \A x \in Mods : x # m => /\ Begun(x)' <=> Begun(x)
                                /\ Ended(x)' <=> Ended(x)
  BY <1>8, <1>9 DEF Begun, Ended
<1>12. \A x \in Mods : Known(x) => Known(x)' /\ x # m
  BY <1>2, <1>5, <1>8 DEF Known
<1>13. Known(m)'
  BY <1>2 DEF Known
<1>14. ASSUME NEW p \in Mods, NEW c
       PROVE  /\ IsChild(c, p)' <=> (IsChild(c, p) \/ (c = m /\ p = q))
              /\ IsChild(c, p) => p # m /\ c # m /\ c \in Mods
  BY <1>4 DEF Adopts
<1>15. CallsInv'
  <2>1. ASSUME NEW i \in 1 .. Len(calls)
        PROVE  Len(children_[calls[i].mod]) <= Len(children_'[calls[i].mod])
    <3>1. Len(children_[calls[i].mod]) \in Nat
      BY <1>10 DEF TypeInv
    <3> QED BY <1>7, <1>10, <3>1, ModuleTreeAssumption
  <2>2. ASSUME NEW i \in 1 .. Len(calls), calls[i].at > 0
        PROVE  calls[i].at <= Len(children_'[calls[i].mod]) + 1
    <3>1. calls[i].at <= Len(children_[calls[i].mod]) + 1
      BY <1>1, <2>2 DEF CallsInv
    <3>2. calls[i].at \in Nat
      <4>1. calls[i] \in Call
        BY DEF TypeInv
      <4> QED BY <4>1 DEF Call
    <3>3. Len(children_[calls[i].mod]) \in Nat
      BY <1>10 DEF TypeInv
    <3>4. Len(children_'[calls[i].mod]) \in Nat
      <4>1. CASE calls[i].mod = q
        BY <1>7, <1>10, <4>1, ModuleTreeAssumption
      <4>2. CASE calls[i].mod # q
        BY <1>7, <1>10, <3>3, <4>2
      <4> QED BY <4>1, <4>2
    <3> QED BY <2>1, <3>1, <3>2, <3>3, <3>4
  <2>3. \A x \in declared' : x \in built' <=> initialized_'[x]
    BY <1>1, <1>2, <1>8 DEF CallsInv, TypeInv
  <2>4. built' \subseteq declared'
    BY <1>1, <1>2 DEF CallsInv
  <2>5. ASSUME NEW i \in 1 .. Len(calls)
        PROVE  /\ calls[i].mod \in declared'
               /\ calls[i].at = 0 => ~ initialized_'[calls[i].mod] /\ calls[i].names = << >>
               /\ calls[i].at > 0 =>
                      /\ initialized_'[calls[i].mod]
                      /\ calls[i].parent = calls[i].mod
                      /\ calls[i].mod \in built
                      /\ Len(calls[i].names) = calls[i].at - 1
    BY <1>1, <1>2, <1>8, <1>10 DEF CallsInv
  <2>6. \A i, j \in 1 .. Len(calls) : calls[i].mod = calls[j].mod => i = j
    BY <1>1 DEF CallsInv
  <2> QED BY <1>2, <2>2, <2>3, <2>4, <2>5, <2>6 DEF CallsInv
<1>16. HomeInv'
  <2>1. ASSUME NEW x \in Mods, NEW h, h = home'[x], x # m
        PROVE  /\ h # Nullptr => x \in Members /\ Known(h)'
               /\ x \in declared' /\ h # Nullptr
                      => h \in declared' /\ Begun(h)' /\ parent_'[x] = h
               /\ x \in declared' \cap Members => h # Nullptr
               /\ x \notin declared' /\ h # Nullptr => h \notin declared'
               /\ x \in declared' => x \notin gone'
    <3>1. h = home[x] /\ h \in MaybeMods
      BY <1>8, <2>1 DEF TypeInv
    <3>2. h # Nullptr => x \in Members /\ Known(h) /\ h \in Mods
      BY <1>1, <3>1 DEF HomeInv, MaybeMods
    <3>3. h # Nullptr => Known(h)' /\ h # m
      BY <1>12, <3>2
    <3>4. x \in declared' /\ h # Nullptr => h \in declared /\ Begun(h) /\ parent_[x] = h
      BY <1>1, <1>2, <2>1, <3>1 DEF HomeInv
    <3>5. ASSUME x \in declared', h # Nullptr
          PROVE  h \in declared' /\ Begun(h)' /\ parent_'[x] = h
      <4>1. h \in Mods /\ h # m /\ h \in declared /\ Begun(h)
        BY <3>2, <3>3, <3>4, <3>5
      <4>2. Begun(h)'
        BY <1>11, <4>1
      <4>3. h \in declared' /\ parent_'[x] = h
        BY <1>2, <1>8, <2>1, <3>4, <3>5, <4>1
      <4> QED BY <4>2, <4>3
    <3>6. x \notin declared' /\ h # Nullptr => h \notin declared'
      BY <1>1, <1>2, <3>1, <3>3 DEF HomeInv
    <3>7. /\ x \in declared' \cap Members => h # Nullptr
          /\ x \in declared' => x \notin gone'
      BY <1>1, <1>2, <2>1, <3>1 DEF HomeInv
    <3> QED BY <3>2, <3>3, <3>5, <3>6, <3>7
  <2>2. ASSUME NEW h, h = home'[m]
        PROVE  /\ h # Nullptr => m \in Members /\ Known(h)'
               /\ h # Nullptr => h \in declared' /\ Begun(h)' /\ parent_'[m] = h
               /\ m \in declared' \cap Members => h # Nullptr
               /\ m \in declared'
               /\ m \notin gone'
    <3>1. m \in declared' /\ m \notin gone'
      BY <1>2
    <3>2. CASE m \notin Members
      BY <1>8, <2>2, <3>1, <3>2
    <3>3. CASE m \in Members
      <4>1. h = q /\ q \in Mods /\ q \in declared /\ q \in Callers /\ calls # << >>
        BY <1>3, <1>8, <2>2, <3>3
      <4>2. q # Nullptr /\ q \in declared' /\ parent_'[m] = q
        BY <1>2, <1>8, <4>1, ModuleTreeAssumption
      <4>3. Known(h)'
        BY <4>1, <4>2 DEF Known
      <4>4. Begun(h)'
        BY <1>9, <4>1 DEF Begun
      <4> QED BY <3>1, <3>3, <4>1, <4>2, <4>3, <4>4
    <3> QED BY <3>2, <3>3
  <2> QED BY <2>1, <2>2 DEF HomeInv
<1>17. TreeInv'
  <2>1. ASSUME NEW p \in Mods, NEW c \in declared' PROVE IsChild(c, p)' <=> parent_'[c] = p
    <3>1. CASE c = m
      BY <1>8, <1>14, <3>1
    <3>2. CASE c # m
      <4>1. c \in declared /\ c \in Mods
        BY <1>2, <3>2 DEF TypeInv
      <4>2. IsChild(c, p) <=> parent_[c] = p
        BY <1>1, <4>1 DEF TreeInv
      <4>3. parent_'[c] = parent_[c]
        BY <1>8, <3>2, <4>1
      <4>4. IsChild(c, p)' <=> IsChild(c, p)
        BY <1>14, <3>2
      <4> QED BY <4>2, <4>3, <4>4
    <3> QED BY <3>1, <3>2
  <2>2. ASSUME NEW p \in Mods, NEW c \in Mods, IsChild(c, p)'
        PROVE  Begun(p)' /\ Known(p)' /\ Known(c)'
    <3>1. CASE IsChild(c, p)
      <4>1. Begun(p) /\ Known(p) /\ Known(c)
        BY <1>1, <3>1 DEF TreeInv
      <4>2. p # m
        BY <1>14, <3>1
      <4>3. Begun(p)'
        BY <1>11, <4>1, <4>2
      <4>4. Known(p)' /\ Known(c)'
        BY <1>12, <4>1
      <4> QED BY <4>3, <4>4
    <3>2. CASE c = m /\ p = q
      <4>1. p \in declared' /\ p \in Callers'
        BY <1>2, <1>3, <1>9, <3>2, ModuleTreeAssumption
      <4> QED BY <1>13, <3>2, <4>1 DEF Begun, Known
    <3> QED BY <1>14, <2>2, <3>1, <3>2
  <2>3. \A i, j \in 1 .. Len(calls) : parent_'[calls[i].mod] = calls[j].mod => j < i
    BY <1>1, <1>8, <1>10 DEF TreeInv
  <2>4. ASSUME NEW p \in Mods, NEW r \in Mods, NEW i \in 1 .. Len(children_'[p]),
               NEW j \in 1 .. Len(children_'[r]), children_'[p][i] = children_'[r][j]
        PROVE  p = r /\ i = j
    <3>1. ASSUME NEW s \in Mods, NEW k \in 1 .. Len(children_'[s])
          PROVE  \/ /\ s = q /\ q # Nullptr /\ k = Len(children_[q]) + 1
                    /\ children_'[s][k] = m
                 \/ /\ k \in 1 .. Len(children_[s]) /\ children_'[s][k] = children_[s][k]
                    /\ children_[s][k] # m
      <4>1. CASE s = m
        BY <1>7, <3>1, <4>1
      <4>2. CASE s # m /\ s # q
        <5>1. k \in 1 .. Len(children_[s]) /\ children_'[s][k] = children_[s][k]
          BY <1>7, <4>2
        <5>2. IsChild(children_[s][k], s)
          BY <5>1 DEF IsChild
        <5> QED BY <1>14, <5>1, <5>2
      <4>3. CASE s = q
        <5>0. q # Nullptr
          BY <4>3, ModuleTreeAssumption
        <5>1. k = Len(children_[q]) + 1 \/ k \in 1 .. Len(children_[q])
          BY <1>7, <4>3, <5>0
        <5>2. CASE k = Len(children_[q]) + 1
          BY <1>7, <4>3, <5>0, <5>2
        <5>3. CASE k \in 1 .. Len(children_[q])
          <6>1. children_'[s][k] = children_[s][k]
            BY <1>7, <4>3, <5>0, <5>3
          <6>2. IsChild(children_[s][k], s)
            BY <4>3, <5>3 DEF IsChild
          <6> QED BY <1>14, <4>3, <5>3, <6>1, <6>2
        <5> QED BY <5>1, <5>2, <5>3
      <4> QED BY <4>1, <4>2, <4>3
    <3>2. CASE children_'[p][i] = m
      <4>1. p = q /\ i = Len(children_[q]) + 1
        <5>1. \/ p = q /\ i = Len(children_[q]) + 1
              \/ children_'[p][i] = children_[p][i] /\ children_[p][i] # m
          BY <3>1
        <5> QED BY <3>2, <5>1
      <4>2. r = q /\ j = Len(children_[q]) + 1
        <5>1. \/ r = q /\ j = Len(children_[q]) + 1
              \/ children_'[r][j] = children_[r][j] /\ children_[r][j] # m
          BY <3>1
        <5> QED BY <2>4, <3>2, <5>1
      <4> QED BY <4>1, <4>2
    <3>3. CASE children_'[p][i] # m
      <4>1. /\ i \in 1 .. Len(children_[p]) /\ j \in 1 .. Len(children_[r])
            /\ children_[p][i] = children_[r][j]
        BY <2>4, <3>1, <3>3
      <4> QED BY <1>1, <4>1 DEF TreeInv
    <3> QED BY <3>2, <3>3
  <2> QED BY <1>2, <2>1, <2>2, <2>3, <2>4 DEF TreeInv
<1>18. ASSUME broken' = {} PROVE RulesInv' /\ FaultsInv'
  <2>1. RulesInv
    BY <1>2, <1>18 DEF OrderlyInv
  <2>2. ASSUME NEW x \in declared
        PROVE  x # m /\ parent_'[x] \in declared \cup {Nullptr} /\ Nullptr \in Chain(parent_', x)
    <3>1. x # m /\ x \in Mods
      BY <1>2 DEF TypeInv
    <3> DEFINE S == declared \cup {Nullptr}
    <3>2. x \in S /\ \A y \in S : y # Nullptr => parent_[y] \in S
      BY <2>1 DEF RulesInv
    <3>3. \A y \in S : y # m /\ (y # Nullptr => y \in Mods)
      BY <1>2, <1>5 DEF TypeInv
    <3> HIDE DEF S
    <3>4. Chain(parent_, x) \subseteq S
      BY <3>2, ChainLeast
    <3>5. \A y \in Chain(parent_, x) : y # Nullptr => parent_'[y] = parent_[y]
      BY <1>8, <3>3, <3>4
    <3>6. parent_ \in [Mods -> MaybeMods] /\ parent_' \in [Mods -> MaybeMods] /\ x \in MaybeMods
      BY <1>8, <3>1 DEF TypeInv, MaybeMods
    <3>7. Chain(parent_', x) = Chain(parent_, x)
      BY <3>5, <3>6, ChainSame
    <3> QED BY <1>8, <2>1, <3>1, <3>7 DEF RulesInv
  <2>3. parent_'[m] \in declared \cup {Nullptr} /\ Nullptr \in Chain(parent_', m)
    <3>1. parent_' \in [Mods -> MaybeMods]
      BY <1>8
    <3>2. Chain(parent_', m) = {m} \cup Chain(parent_', q)
      BY <1>8, <3>1, ChainFirst
    <3>3. q \in declared \cup {Nullptr}
      BY <1>3
    <3>4. Nullptr \in Chain(parent_', q)
      BY <2>2, <3>3, ChainStart
    <3> QED BY <1>8, <3>2, <3>3, <3>4
  <2>4. ASSUME NEW p \in Callers, NEW i \in 1 .. Len(children_'[p])
        PROVE  children_'[p][i] \in declared'
    <3>1. p \in Mods /\ p # m
      BY <1>10 DEF Callers
    <3>3. PICK c : c = children_'[p][i]
      OBVIOUS
    <3>4. IsChild(c, p)' => IsChild(c, p) \/ c = m
      BY <1>14, <3>1
    <3>5. IsChild(c, p)'
      BY <3>3 DEF IsChild
    <3> QED BY <1>2, <2>1, <3>3, <3>4, <3>5 DEF RulesInv, IsChild
  <2>5. RulesInv'
    BY <1>2, <1>9, <2>2, <2>3, <2>4 DEF RulesInv
  <2> QED BY <1>2, <2>5 DEF FaultsInv
<1>19. ~ complained' => EndedInv'
  <2> SUFFICES ASSUME ~ complained PROVE EndedInv'
    BY <1>2
  <2>1. EndedInv
    BY DEF OrderlyInv
  <2>2. ASSUME NEW x \in declared', NEW p, p = parent_'[x], p # Nullptr, Ended(p)'
        PROVE  Ended(x)'
    <3>1. x # m
      <4>1. q \notin Callers => q = Nullptr
        BY <1>3
      <4> QED BY <1>8, <1>9, <2>2, <4>1 DEF Ended
    <3>2. x \in declared /\ x \in Mods /\ p = parent_[x] /\ p \in Mods
      BY <1>2, <1>8, <2>2, <3>1 DEF TypeInv, MaybeMods
    <3>3. IsChild(x, p)
      BY <1>1, <3>2 DEF TreeInv
    <3>4. p # m
      BY <1>14, <3>2, <3>3
    <3>5. Ended(p)
      <4>1. p \in Mods /\ p # m /\ Ended(p)'
        BY <2>2, <3>2, <3>4
      <4> QED BY <1>11, <4>1
    <3>6. Ended(x)
      BY <2>1, <2>2, <3>2, <3>5 DEF EndedInv
    <3> QED BY <1>11, <3>1, <3>2, <3>6
  <2>3. ASSUME NEW i \in 1 .. Len(calls), NEW j \in 1 .. Len(children_'[calls[i].mod]),
               NEW c, c = children_'[calls[i].mod][j], j < calls[i].at, c \in declared'
        PROVE  Ended(c)'
    <3>1. calls[i].mod # q
      <4> SUFFICES ASSUME calls[i].mod = q PROVE FALSE
        OBVIOUS
      <4>1. calls # << >> /\ i = L
        <5>1. calls # << >>
          BY <1>3, <1>10, ModuleTreeAssumption
        <5>2. calls[L].mod = q /\ L \in 1 .. Len(calls)
          BY <1>3, <5>1
        <5> QED BY <1>1, <5>1, <5>2 DEF CallsInv
      <4>2. calls[i].at = 0
        BY <1>3, <4>1
      <4> QED BY <2>3, <4>2
    <3>2. j \in 1 .. Len(children_[calls[i].mod]) /\ c = children_[calls[i].mod][j]
      BY <1>7, <1>10, <2>3, <3>1
    <3>3. c # m /\ c \in Mods
      <4>1. IsChild(c, calls[i].mod)
        BY <3>2 DEF IsChild
      <4> QED BY <1>10, <1>14, <4>1
    <3>4. Ended(c)
      BY <1>2, <2>1, <2>3, <3>2, <3>3 DEF EndedInv
    <3> QED BY <1>11, <3>3, <3>4
  <2> QED BY <1>2, <2>2, <2>3 DEF EndedInv
<1> QED BY <1>15, <1>16, <1>17, <1>18, <1>19 DEF OrderlyInv

-----------------------------------------------------------------------------
(* The invariant is inductive. *)

(* What the code constructs over a living T it reports.                      *)
LEMMA RebuildStep ==
    TypeInv /\ (throws = 0 /\ rebuilds > 0 => complained) /\ (Orderly => OrderlyInv)
        /\ [Next]_vars => (throws' = 0 /\ rebuilds' > 0 => complained')
<1> SUFFICES ASSUME TypeInv, throws = 0 /\ rebuilds > 0 => complained,
                    Orderly => OrderlyInv, [Next]_vars, throws' = 0, rebuilds' > 0
             PROVE  complained'
  OBVIOUS
<1>1. throws \in Nat /\ rebuilds \in Nat
  BY DEF TypeInv
<1>2. ASSUME NEW m \in declared, NEW n, BeginInitModule(m, n) PROVE complained'
  <2>1. /\ throws' = throws /\ rebuilds' = IF m \in built THEN rebuilds + 1 ELSE rebuilds
        /\ complained' = (complained \/ initialized_[m])
    BY <1>2 DEF BeginInitModule, AlreadyConstructed
  <2>2. CASE rebuilds > 0
    BY <2>1, <2>2
  <2>3. CASE rebuilds = 0
    <3>1. m \in built /\ Orderly
      BY <2>1, <2>3 DEF Orderly
    <3>2. initialized_[m]
      BY <3>1 DEF OrderlyInv, CallsInv
    <3> QED BY <2>1, <3>2
  <2> QED BY <1>1, <2>2, <2>3
<1>3. CASE throws' = throws /\ rebuilds' = rebuilds /\ (complained => complained')
  BY <1>3
<1>4. CASE Throw
  BY <1>1, <1>4 DEF Throw
<1>5. ASSUME NEW m \in Mods, NEW n, BaseName(m, n) \/ Declare(m) \/ Destroy(m)
      PROVE  throws' = throws /\ rebuilds' = rebuilds /\ (complained => complained')
  <2>1. CASE BaseName(m, n)
    BY <2>1 DEF BaseName
  <2>2. CASE Declare(m) \/ Destroy(m)
    BY <2>2 DEF Declare, Destroy, history
  <2> QED BY <1>5, <2>1, <2>2
<1>6. ASSUME EndConstructor \/ CannotConstruct \/ Constructed \/ EndInitModule \/ TouchGone
             \/ UNCHANGED vars
      PROVE  throws' = throws /\ rebuilds' = rebuilds /\ (complained => complained')
  BY <1>6 DEF EndConstructor, CannotConstruct, Constructed, EndInitModule, TouchGone,
              vars, history
<1>7. CASE DefaultConstruct
  BY <1>2, <1>7 DEF DefaultConstruct, Pending, HasChild
<1>8. ASSUME NEW m \in Mods, NEW n, NamedConstruct(m, n) PROVE complained'
  BY <1>2, <1>8 DEF NamedConstruct
<1> QED BY <1>3, <1>4, <1>5, <1>6, <1>7, <1>8 DEF Next

LEMMA OrderlyStep ==
    TypeInv /\ StackInv /\ Orderly /\ OrderlyInv /\ LoopInv /\ [Next]_vars /\ Orderly'
        => OrderlyInv'
<1> SUFFICES ASSUME TypeInv, StackInv, Orderly, OrderlyInv, LoopInv, [Next]_vars, Orderly'
             PROVE  OrderlyInv'
  OBVIOUS
<1>1. throws = 0 /\ throws' = 0 /\ rebuilds = 0 /\ rebuilds' = 0
  BY DEF Orderly
<1>2. CallsInv /\ TreeInv
  BY DEF OrderlyInv
<1> DEFINE Frame == UNCHANGED <<declared, gone, home, built, parent_, children_,
                                initialized_, calls, broken>>
<1>3. CASE UNCHANGED vars
  <2>1. Frame /\ complained' = complained /\ faults' = faults
    BY <1>3 DEF vars, lifeVars, treeVars, nameVars, history
  <2>2. broken = {} => FaultsInv'
    BY <2>1 DEF OrderlyInv, FaultsInv
  <2> QED BY <2>1, <2>2, FrameOrderly
<1>4. CASE Next
  <2> USE <1>4
  <2>1. faults = {}
    BY DEF Next
  <2>2. ASSUME NEW m \in Mods, NEW n, BaseName(m, n) PROVE OrderlyInv'
    <3>1. Frame /\ (~ complained' => ~ complained) /\ faults' = faults
      BY <2>2 DEF BaseName, lifeVars, treeVars
    <3> QED BY <2>1, <3>1, FrameOrderly DEF FaultsInv
  <2>3. ASSUME NEW m \in Mods, NEW n, NamedConstruct(m, n) PROVE OrderlyInv'
    <3>1. /\ m \in declared /\ m \notin Callers /\ BeginInitModule(m, n)
      BY <2>3 DEF NamedConstruct
    <3>2. m \notin built
      BY <1>1, <3>1 DEF BeginInitModule
    <3>3. ~ initialized_[m]
      BY <1>2, <3>1, <3>2 DEF CallsInv
    <3> QED BY <2>1, <3>1, <3>3, BeginOrderly
  <2>4. CASE DefaultConstruct
    <3>1. /\ HasChild /\ Child \in declared /\ ~ initialized_[Child]
          /\ BeginInitModule(Child, DefaultName[Child])
      BY <2>4 DEF DefaultConstruct, Pending, HasChild, ToConstruct
    <3>2. /\ calls # << >> /\ Caller.at > 0 /\ IsChild(Child, Caller.parent)
          /\ Caller.parent \in Mods
      BY <3>1, ChildIs DEF HasChild
    <3>3. /\ Caller = calls[Len(calls)] /\ Len(calls) \in 1 .. Len(calls)
      BY <3>2, CallerIs
    <3>4. parent_[Child] = calls[Len(calls)].mod
      BY <1>2, <3>1, <3>2, <3>3 DEF CallsInv, TreeInv
    <3>5. ASSUME NEW i \in 1 .. Len(calls), Child = calls[i].mod PROVE FALSE
      <4>1. Len(calls) < i
        BY <1>2, <3>3, <3>4, <3>5 DEF TreeInv
      <4> QED BY <3>3, <4>1
    <3>6. Child \notin Callers
      BY <3>5 DEF Callers
    <3> QED BY <2>1, <3>1, <3>6, BeginOrderly
  <2>5. CASE TouchGone
    <3>1. broken # {}
      BY <1>1, <2>5, NothingGone
    <3>2. Frame /\ complained' = complained
      BY <2>5 DEF TouchGone, lifeVars, treeVars, nameVars
    <3> QED BY <3>1, <3>2, FrameOrderly
  <2>6. CASE Throw
    BY <1>1, <2>6 DEF Throw
  <2>7. ASSUME NEW m \in Mods, Declare(m) \/ Destroy(m) PROVE OrderlyInv'
    BY <1>1, <2>1, <2>7, DeclareOrderly, DestroyOrderly
  <2>8. CASE EndConstructor
    BY <1>1, <2>1, <2>8, EndConstructorOrderly
  <2>9. CASE CannotConstruct \/ Constructed
    BY <2>1, <2>9, NextChildOrderly
  <2>10. CASE EndInitModule
    BY <2>1, <2>10, EndInitOrderly
  <2> QED BY <2>2, <2>3, <2>4, <2>5, <2>6, <2>7, <2>8, <2>9, <2>10 DEF Next
<1> QED BY <1>3, <1>4

(* The loops keep their places. *)
LEMMA LoopStep ==
    TypeInv /\ StackInv /\ Orderly /\ OrderlyInv /\ LoopInv /\ [Next]_vars /\ Orderly'
        => LoopInv'
<1> SUFFICES ASSUME TypeInv, StackInv, Orderly, OrderlyInv, LoopInv, [Next]_vars, Orderly'
             PROVE  LoopInv'
  OBVIOUS
<1> DEFINE L == Len(calls)
           Follows(i) == calls[i].at > 0 =>
                             /\ calls[i].at <= Len(children_[calls[i].mod])
                             /\ children_[calls[i].mod][calls[i].at] = calls[i + 1].mod
<1>1. throws = 0 /\ throws' = 0 /\ CallsInv
  BY DEF Orderly, OrderlyInv
<1>2. L \in Nat /\ \A i \in 1 .. L - 1 : Follows(i)
  BY DEF TypeInv, LoopInv
<1>3. InUserCode => ~ returned
  BY DEF InUserCode, LoopInv
<1>4. ASSUME \A i \in 1 .. Len(calls') - 1 : Follows(i)', ~ returned' PROVE LoopInv'
  BY <1>4 DEF LoopInv
<1>5. ASSUME UNCHANGED <<calls, children_>> PROVE \A i \in 1 .. Len(calls') - 1 : Follows(i)'
  BY <1>2, <1>5
<1>6. ASSUME NEW m \in Mods, NEW n, BeginInitModule(m, n), ~ returned,
             calls # << >> /\ Caller.at > 0 =>
                 /\ Caller.at <= Len(children_[Caller.mod])
                 /\ children_[Caller.mod][Caller.at] = m
      PROVE  LoopInv'
  <2>1. children_' = children_ /\ ~ returned'
    BY <1>6 DEF BeginInitModule
  <2>2. /\ Len(calls') = L + 1 /\ \A i \in 1 .. L : calls'[i] = calls[i]
        /\ calls'[L + 1].mod = m
    BY <1>6, BeginCalls
  <2>3. ASSUME NEW i \in 1 .. L PROVE Follows(i)'
    <3>1. CASE i \in 1 .. L - 1
      <4>1. i + 1 \in 1 .. L
        BY <1>2, <3>1
      <4> QED BY <1>2, <2>1, <2>2, <3>1, <4>1
    <3>2. CASE i = L
      <4>1. calls # << >>
        BY <1>2, <3>2
      <4>2. Caller = calls[L]
        BY <4>1, CallerIs
      <4> QED BY <1>6, <2>1, <2>2, <3>2, <4>1, <4>2
    <3> QED BY <1>2, <3>1, <3>2
  <2>4. \A i \in 1 .. Len(calls') - 1 : i \in 1 .. L
    BY <1>2, <2>2
  <2> QED BY <1>4, <2>1, <2>3, <2>4
<1>7. ASSUME Len(calls') = L, children_' = children_, ~ returned',
             \A i \in 1 .. L - 1 : calls'[i] = calls[i],
             \A i \in 1 .. L : calls'[i].mod = calls[i].mod
      PROVE  LoopInv'
  <2>1. \A i \in 1 .. L - 1 : i + 1 \in 1 .. L
    BY <1>2
  <2>2. \A i \in 1 .. Len(calls') - 1 : Follows(i)'
    BY <1>2, <1>7, <2>1
  <2> QED BY <1>4, <1>7, <2>2
<1>8. ASSUME NEW m \in Mods, Declare(m) PROVE LoopInv'
  <2>1. calls' = calls /\ ~ returned'
    BY <1>3, <1>8 DEF Declare, MayDeclare
  <2>2. PICK q \in MaybeMods : Innermost(q) /\ Adopts(m, q)
    BY <1>1, <1>8, DeclareIs
  <2>3. ASSUME NEW i \in 1 .. L - 1 PROVE Follows(i)'
    <3> SUFFICES ASSUME calls[i].at > 0
                 PROVE  /\ calls[i].at <= Len(children_'[calls[i].mod])
                        /\ children_'[calls[i].mod][calls[i].at] = calls[i + 1].mod
      BY <2>1
    <3> DEFINE p == calls[i].mod
    <3>1. i \in 1 .. L /\ p \in declared /\ calls[i] \in Call
      BY <1>1, <1>2 DEF CallsInv, TypeInv
    <3>2. /\ p \in Mods /\ p # m /\ calls[i].at \in Nat /\ Len(children_[p]) \in Nat
      <4>1. p \in Mods /\ p # m
        BY <1>8, <3>1 DEF TypeInv, Declare, MayDeclare
      <4>2. calls[i].at \in Nat
        BY <3>1 DEF Call
      <4> QED BY <4>1, <4>2 DEF TypeInv
    <3>3. calls[i].at <= Len(children_[p]) /\ children_[p][calls[i].at] = calls[i + 1].mod
      BY <1>2
    <3>4. CASE p = q
      <4>1. q # Nullptr
        BY <3>2, <3>4, ModuleTreeAssumption
      <4>2. /\ Len(children_'[p]) = Len(children_[p]) + 1
            /\ \A j \in 1 .. Len(children_[p]) : children_'[p][j] = children_[p][j]
        BY <2>2, <3>4, <4>1 DEF Adopts
      <4> HIDE DEF p
      <4>3. calls[i].at \in 1 .. Len(children_[p])
        BY <3>2, <3>3
      <4> QED BY <3>2, <3>3, <4>2, <4>3 DEF p
    <3>5. CASE p # q
      BY <2>2, <3>2, <3>3, <3>5 DEF Adopts
    <3> QED BY <3>4, <3>5
  <2>4. \A i \in 1 .. Len(calls') - 1 : i \in 1 .. L - 1
    BY <2>1
  <2> QED BY <1>4, <2>1, <2>3, <2>4
<1>9. ASSUME NEW m \in Mods, NEW n, NamedConstruct(m, n) PROVE LoopInv'
  BY <1>3, <1>6, <1>9 DEF NamedConstruct, InUserCode
<1>10. CASE DefaultConstruct
  <2>1. /\ InLoop /\ ~ returned /\ BeginInitModule(Child, DefaultName[Child])
    BY <1>10 DEF DefaultConstruct, Pending, HasChild
  <2>2. /\ calls # << >> /\ Caller = calls[L] /\ L \in 1 .. L /\ Caller.at > 0
        /\ Child \in Mods /\ Caller.at <= Len(children_[Caller.parent])
    BY <2>1, ChildIs, CallerIs
  <2>3. Caller.parent = Caller.mod
    BY <1>1, <2>2 DEF CallsInv
  <2>4. Child = children_[Caller.mod][Caller.at]
    BY <2>3 DEF Child
  <2> QED BY <1>6, <2>1, <2>2, <2>3, <2>4
<1>11. ASSUME NEW m \in Mods, NEW n, BaseName(m, n) \/ Destroy(m) PROVE LoopInv'
  <2>1. UNCHANGED <<calls, children_>> /\ ~ returned'
    BY <1>3, <1>11 DEF BaseName, Destroy, treeVars
  <2> QED BY <1>4, <1>5, <2>1
<1>12. CASE EndConstructor
  <2>1. calls # << >> /\ Caller.at = 0 /\ children_' = children_ /\ returned' = returned
    BY <1>12 DEF EndConstructor, treeVars
  <2>2. ~ returned'
    BY <1>3, <2>1 DEF InUserCode
  <2> QED BY <1>7, <1>12, <2>1, <2>2, EndConstructorCalls
<1>13. CASE CannotConstruct \/ Constructed
  <2>1. children_' = children_ /\ ~ returned' /\ HasChild /\ NextChild
    BY <1>13 DEF CannotConstruct, Constructed, Pending, NextChild, treeVars
  <2> QED BY <1>7, <2>1, NextChildCalls
<1>14. CASE EndInitModule
  <2>1. /\ children_' = children_ /\ initialized_' = initialized_ /\ declared' = declared
        /\ returned' = (calls' # << >> /\ Last(calls').at > 0)
        /\ calls # << >> /\ Caller.at > 0
    BY <1>14 DEF EndInitModule, AtEnd, lifeVars
  <2>2. /\ L \in Nat \ {0} /\ Len(calls') = L - 1 /\ Caller = calls[L]
        /\ calls' \in Seq(Call) /\ \A i \in 1 .. L - 1 : calls'[i] = calls[i]
    BY <1>14, EndInitCalls
  <2>3. \A i \in 1 .. Len(calls') - 1 : Follows(i)'
    <3>1. \A i \in 1 .. Len(calls') - 1 : i \in 1 .. L - 1 /\ i + 1 \in 1 .. L - 1
      BY <2>2
    <3> QED BY <1>2, <2>1, <2>2, <3>1
  <2>4. ASSUME returned'
        PROVE  calls' # << >> /\ Caller'.at > 0 /\ (InLoop' => initialized_'[Child'])
    <3>1. calls' # << >> /\ Caller' = Last(calls') /\ Caller'.at > 0
      BY <2>1, <2>4 DEF Caller
    <3>2. Len(calls') # 0 /\ Last(calls') = calls'[Len(calls')]
      BY <2>2, <3>1, EmptySeq DEF Last
    <3>3. L - 1 \in 1 .. L - 1 /\ L - 1 \in 1 .. L /\ L \in 1 .. L /\ (L - 1) + 1 = L
      BY <2>2, <3>2
    <3>4. Caller' = calls[L - 1] /\ calls[L - 1].at > 0
      BY <2>2, <3>1, <3>2, <3>3
    <3>5. calls[L - 1].parent = calls[L - 1].mod
      BY <1>1, <3>3, <3>4 DEF CallsInv
    <3>6. Child' = calls[L].mod
      BY <1>2, <2>1, <3>3, <3>4, <3>5 DEF Child
    <3>7. initialized_[calls[L].mod]
      BY <1>1, <2>1, <2>2, <3>3 DEF CallsInv
    <3> QED BY <2>1, <3>1, <3>6, <3>7
  <2> QED BY <2>3, <2>4 DEF LoopInv
<1>15. CASE TouchGone \/ UNCHANGED vars
  <2>1. UNCHANGED <<calls, children_, declared, initialized_, returned>>
    BY <1>15 DEF TouchGone, vars, lifeVars, treeVars, nameVars
  <2> QED BY <2>1 DEF LoopInv, InLoop, Child, Caller
<1>16. ~ Throw
  BY <1>1 DEF Throw
<1> QED BY <1>8, <1>9, <1>10, <1>11, <1>12, <1>13, <1>14, <1>15, <1>16 DEF Next

LEMMA InitHolds == Init => ModuleTreeInv
<1> SUFFICES ASSUME Init PROVE ModuleTreeInv
  OBVIOUS
<1>1. TypeInv
  <2>1. /\ declared = {} /\ gone = {} /\ built = {} /\ build_stack_ = << >> /\ calls = << >>
        /\ throws = 0 /\ unwound = 0 /\ rebuilds = 0 /\ complained = FALSE /\ returned = FALSE
    BY DEF Init
  <2>2. home \in [Mods -> MaybeMods] /\ parent_ \in [Mods -> MaybeMods]
    BY DEF Init, MaybeMods
  <2>3. basename_ \in [Mods -> BaseNames]
    BY DEF Init, BaseNames
  <2>4. index_ \in [Mods -> Int]
    BY DEF Init, kNotIndexed
  <2>5. initialized_ \in [Mods -> BOOLEAN]
    BY DEF Init
  <2>6. children_ \in [Mods -> Seq(Mods)]
    BY DEF Init
  <2>7. build_stack_ \in Seq(Mods) /\ calls \in Seq(Call)
    BY <2>1, EmptySeq
  <2>8. /\ throws \in Nat /\ unwound \in Nat /\ rebuilds \in Nat
        /\ complained \in BOOLEAN /\ returned \in BOOLEAN
    BY <2>1
  <2>9. declared \subseteq Mods /\ gone \subseteq Mods \ Members /\ built \subseteq Mods
    BY <2>1
  <2> QED BY <2>2, <2>3, <2>4, <2>5, <2>6, <2>7, <2>8, <2>9 DEF TypeInv
<1>2. Len(calls) = 0 /\ Len(build_stack_) = 0 /\ calls = << >> /\ build_stack_ = << >>
  BY DEF Init
<1>3. StackInv
  <2>1. << >> = [i \in 1 .. 0 |-> calls[i].mod]
    BY <1>2
  <2>2. Places([i \in 1 .. 0 |-> 0])
    BY <1>2 DEF Places
  <2>3. unwound = 0
    BY DEF Init
  <2>4. Len(build_stack_) = Len(calls) + unwound
    BY <1>2, <2>3
  <2>5. build_stack_ = [i \in 1 .. Len(calls) |-> calls[i].mod]
    BY <1>2, <2>1
  <2> QED BY <2>2, <2>3, <2>4, <2>5 DEF StackInv, StackIsCalls, Places
<1>4. \A i \in 1 .. Len(calls) : FALSE
  BY <1>2
<1>5. Callers = {}
  BY <1>4 DEF Callers
<1>6. \A p \in Mods : \A i \in 1 .. Len(children_[p]) : FALSE
  BY DEF Init
<1>7. \A p \in Mods : \A c : ~ IsChild(c, p)
  BY <1>6 DEF IsChild
<1>8. CallsInv
  BY <1>4 DEF Init, CallsInv
<1>9. HomeInv
  BY DEF Init, HomeInv
<1>10. TreeInv
  BY <1>4, <1>6, <1>7 DEF Init, TreeInv
<1>11. RulesInv /\ FaultsInv /\ EndedInv
  BY <1>4, <1>5 DEF Init, RulesInv, FaultsInv, EndedInv
<1>12. LoopInv
  <2>1. \A i \in 1 .. Len(calls) - 1 : FALSE
    BY <1>2
  <2> QED BY <2>1 DEF Init, LoopInv
<1> QED BY <1>1, <1>3, <1>8, <1>9, <1>10, <1>11, <1>12 DEF Init, ModuleTreeInv, OrderlyInv

LEMMA NextHolds == ModuleTreeInv /\ [Next]_vars => ModuleTreeInv'
<1> SUFFICES ASSUME ModuleTreeInv, [Next]_vars PROVE ModuleTreeInv'
  OBVIOUS
<1>1. /\ TypeInv /\ StackInv /\ (throws = 0 /\ rebuilds > 0 => complained)
      /\ Orderly => OrderlyInv /\ LoopInv
  BY DEF ModuleTreeInv
<1>2. TypeInv'
  BY <1>1, TypeStep
<1>3. StackInv'
  BY <1>1, <1>2, StackStep
<1>4. throws' = 0 /\ rebuilds' > 0 => complained'
  BY <1>1, RebuildStep
<1>5. Orderly' => Orderly
  <2>1. \/ throws' = throws /\ (rebuilds' = rebuilds \/ rebuilds' = rebuilds + 1)
        \/ throws' = throws + 1
    BY DEF Next, Declare, BaseName, NamedConstruct, Destroy, EndConstructor, Throw,
           DefaultConstruct, CannotConstruct, Constructed, EndInitModule, TouchGone,
           BeginInitModule, vars, history
  <2>2. throws \in Nat /\ rebuilds \in Nat
    BY <1>1 DEF TypeInv
  <2> QED BY <2>1, <2>2 DEF Orderly
<1>6. Orderly' => OrderlyInv'
  BY <1>1, <1>5, OrderlyStep
<1>7. Orderly' => LoopInv'
  BY <1>1, <1>5, LoopStep
<1> QED BY <1>2, <1>3, <1>4, <1>6, <1>7 DEF ModuleTreeInv

LEMMA Inductive == Spec => []ModuleTreeInv
<1> QED BY InitHolds, NextHolds, PTL DEF Spec

-----------------------------------------------------------------------------
(* What follows from it. *)

(* However constructors throw: the modules under construction are on the     *)
(* build stack, in their order, with one more for each call that an          *)
(* exception ended; and nothing else is on it as long as none has thrown.    *)
THEOREM StackInStep == Spec => []StackIsCalls
<1>1. ModuleTreeInv => StackIsCalls
  BY DEF ModuleTreeInv, StackInv
<1> QED BY <1>1, Inductive, PTL

(* Unless the code complains or a constructor throws, AutoConstruct leaves   *)
(* nothing out: below what has ended everything is built and has ended.      *)
THEOREM NothingLeftOut == Spec => []AllConstructed
<1>1. ModuleTreeInv => AllConstructed
  <2> SUFFICES ASSUME ModuleTreeInv, throws = 0, ~ complained, NEW m \in declared,
                      parent_[m] # Nullptr, Ended(parent_[m])
               PROVE  m \in built /\ Ended(m)
    BY DEF AllConstructed
  <2>1. rebuilds \in Nat /\ ~ (rebuilds > 0)
    BY DEF ModuleTreeInv, TypeInv
  <2>2. OrderlyInv
    BY <2>1 DEF ModuleTreeInv, Orderly
  <2>3. Ended(m)
    BY <2>2 DEF OrderlyInv, EndedInv
  <2> QED BY <2>2, <2>3 DEF OrderlyInv, CallsInv, Ended
<1> QED BY <1>1, Inductive, PTL

(* A program that keeps to the rules is safe, however its constructors nest, *)
(* construct and destroy.                                                    *)
THEOREM KeepingRulesIsSafe == Spec => []RulesSuffice
<1>1. ModuleTreeInv => RulesSuffice
  <2> SUFFICES ASSUME ModuleTreeInv, throws = 0
               PROVE  /\ rebuilds > 0 => complained
                      /\ rebuilds = 0 /\ broken = {} =>
                             "dangling" \notin faults /\ ("garbage" \in faults => complained)
    BY DEF RulesSuffice
  <2>1. rebuilds > 0 => complained
    BY DEF ModuleTreeInv
  <2>2. rebuilds = 0 /\ broken = {} => FaultsInv
    BY DEF ModuleTreeInv, Orderly, OrderlyInv
  <2> QED BY <2>1, <2>2 DEF FaultsInv
<1> QED BY <1>1, Inductive, PTL

(* Without exceptions a module only gets children while it is the innermost  *)
(* under construction, and none any more when its own has ended.             *)
THEOREM ChildrenInTime == Spec => NoLateAdoption
<1> DEFINE InTime == throws = 0 =>
              \A m \in declared : children_'[m] # children_[m] =>
                  calls # << >> /\ Caller.mod = m /\ (initialized_[m] => complained)
<1>1. ModuleTreeInv /\ [Next]_vars => [InTime]_vars
  <2> SUFFICES ASSUME ModuleTreeInv, [Next]_vars, throws = 0, NEW m \in declared,
                      children_'[m] # children_[m]
               PROVE  calls # << >> /\ Caller.mod = m /\ (initialized_[m] => complained)
    OBVIOUS
  <2>1. TypeInv /\ StackInv /\ (Orderly => OrderlyInv) /\ (rebuilds > 0 => complained)
    BY DEF ModuleTreeInv
  <2>2. PICK x \in Mods : Declare(x)
    BY DEF Next, BaseName, NamedConstruct, Destroy, EndConstructor, Throw,
           DefaultConstruct, CannotConstruct, Constructed, EndInitModule, TouchGone,
           BeginInitModule, vars, treeVars
  <2>3. x \notin declared /\ InUserCode /\ m \in Mods
    BY <2>1, <2>2 DEF Declare, MayDeclare, TypeInv
  <2>4. build_stack_ # << >> /\ Last(build_stack_) = m
    <3>1. CASE build_stack_ = << >>
      <4>1. children_' = [children_ EXCEPT ![x] = << >>]
        BY <2>2, <3>1 DEF Declare
      <4>2. children_'[m] = children_[m]
        BY <2>1, <2>3, <4>1 DEF TypeInv
      <4> QED BY <4>2
    <3>2. CASE build_stack_ # << >> /\ Last(build_stack_) # m
      <4> DEFINE p == Last(build_stack_)
      <4>1. children_' = [children_ EXCEPT ![x] = << >>, ![p] = Append(@, x)]
        BY <2>2, <3>2 DEF Declare
      <4>2. p # m /\ x # m
        BY <2>3, <3>2
      <4> HIDE DEF p
      <4>3. children_'[m] = children_[m]
        BY <2>1, <2>3, <4>1, <4>2 DEF TypeInv
      <4> QED BY <4>3
    <3> QED BY <3>1, <3>2
  <2>5. calls # << >> /\ Caller.mod = m
    BY <2>1, <2>4, TopOfStack
  <2>6. initialized_[m] => complained
    <3>1. CASE rebuilds > 0
      BY <2>1, <3>1
    <3>2. CASE rebuilds = 0
      <4>1. CallsInv /\ Caller.at = 0
        BY <2>1, <2>3, <2>5, <3>2 DEF Orderly, OrderlyInv, InUserCode
      <4>2. Caller = calls[Len(calls)] /\ Len(calls) \in 1 .. Len(calls)
        BY <2>1, <2>5, CallerIs
      <4> QED BY <2>5, <4>1, <4>2 DEF CallsInv
    <3>3. rebuilds \in Nat
      BY <2>1 DEF TypeInv
    <3> QED BY <3>1, <3>2, <3>3
  <2> QED BY <2>5, <2>6
<1>2. Spec => [][InTime]_vars
  BY <1>1, Inductive, PTL DEF Spec
<1> QED BY <1>2 DEF NoLateAdoption

-----------------------------------------------------------------------------
(* The names of siblings. *)

(* As long as the children of what has ended keep their names, all is as it  *)
(* was.                                                                      *)
LEMMA NamesKept ==
    ASSUME TypeInv, NamesInv, UNCHANGED <<parent_, children_, index_>>,
           \A x \in Mods : initialized_[x] => /\ initialized_'[x]
                                              /\ basename_'[x] = basename_[x],
           \A x \in Mods : Ended(x)' <=> Ended(x),
           calls' \in Seq(Call),
           \A i \in 1 .. Len(calls') : calls'[i].mod \in Mods,
           \A i \in 1 .. Len(calls') : \A j \in 1 .. Len(calls'[i].names) :
              /\ j \in 1 .. Len(children_[calls'[i].mod])
              /\ initialized_[children_[calls'[i].mod][j]]
              /\ calls'[i].names[j] = basename_[children_[calls'[i].mod][j]]
    PROVE  NamesInv'
<1>1. parent_' = parent_ /\ children_' = children_ /\ index_' = index_
  OBVIOUS
<1>2. \A p \in Mods : \A i \in 1 .. Len(children_[p]) : children_[p][i] \in Mods
  BY DEF TypeInv
<1>3. \A p, c : IsChild(c, p)' <=> IsChild(c, p)
  BY <1>1 DEF IsChild
<1>4. ASSUME NEW p \in Mods, Ended(p) PROVE NamesOf(p)' = NamesOf(p)
  <2>1. \A i \in 1 .. Len(children_[p]) :
            basename_'[children_[p][i]] = basename_[children_[p][i]]
    BY <1>2, <1>4 DEF NamesInv
  <2> QED BY <1>1, <2>1 DEF NamesOf
<1>5. ASSUME NEW p \in Mods, NEW i \in 1 .. Len(children_[p])
      PROVE  IF Ended(p)' THEN /\ initialized_'[children_[p][i]]
                               /\ index_[children_[p][i]] = IndexIn(NamesOf(p)', i)
                         ELSE index_[children_[p][i]] = kNotIndexed
  <2>1. CASE Ended(p)
    <3>1. initialized_[children_[p][i]] /\ index_[children_[p][i]] = IndexIn(NamesOf(p), i)
      BY <2>1 DEF NamesInv
    <3>2. Ended(p)' /\ initialized_'[children_[p][i]]
      BY <1>2, <2>1, <3>1
    <3>3. NamesOf(p)' = NamesOf(p)
      BY <1>4, <2>1
    <3> QED BY <3>1, <3>2, <3>3
  <2>2. CASE ~ Ended(p)
    <3>1. ~ Ended(p)' /\ index_[children_[p][i]] = kNotIndexed
      BY <2>2 DEF NamesInv
    <3> QED BY <3>1
  <2> QED BY <2>1, <2>2
<1>6. ASSUME NEW i \in 1 .. Len(calls'), NEW j \in 1 .. Len(calls'[i].names)
      PROVE  /\ j \in 1 .. Len(children_[calls'[i].mod])
             /\ initialized_'[children_[calls'[i].mod][j]]
             /\ calls'[i].names[j] = basename_'[children_[calls'[i].mod][j]]
  <2>1. /\ j \in 1 .. Len(children_[calls'[i].mod]) /\ calls'[i].mod \in Mods
        /\ initialized_[children_[calls'[i].mod][j]]
        /\ calls'[i].names[j] = basename_[children_[calls'[i].mod][j]]
    OBVIOUS
  <2> QED BY <1>2, <2>1
<1>7. \A p, c \in Mods : IsChild(c, p)' => parent_'[c] = p
  BY <1>1, <1>3 DEF NamesInv
<1>8. \A i : kNotIndexed' = kNotIndexed /\ \A p : IndexIn(NamesOf(p), i)' = IndexIn(NamesOf(p)', i)
  BY DEF IndexIn, IndexAmong, Sharing, kNotIndexed
<1> QED BY <1>1, <1>5, <1>6, <1>7, <1>8 DEF NamesInv

(* The indices that EndInitModule gives. *)
LEMMA IndicesAre ==
    ASSUME NEW ch \in Seq(Mods), NEW names, Len(names) = Len(ch),
           \A i, j \in 1 .. Len(ch) : ch[i] = ch[j] => i = j
    PROVE  /\ \A i \in 1 .. Len(ch) :
                  index_[ch[i]] = kNotIndexed => Indices(ch, names)[ch[i]] = IndexIn(names, i)
           /\ \A m \in Mods : (\A i \in 1 .. Len(ch) : ch[i] # m)
                  => Indices(ch, names)[m] = index_[m]
<1>1. ASSUME NEW i \in 1 .. Len(ch), index_[ch[i]] = kNotIndexed
      PROVE  Indices(ch, names)[ch[i]] = IndexIn(names, i)
  <2> DEFINE at == {k \in Sharing(names) : ch[k] = ch[i]}
  <2>1. ch[i] \in Mods
    OBVIOUS
  <2>2. Indices(ch, names)[ch[i]] =
            IF at = {} THEN index_[ch[i]]
            ELSE IndexAmong(names, CHOOSE k \in at : \A j \in at : j <= k)
    BY <2>1 DEF Indices
  <2>3. \A k \in Sharing(names) : k \in 1 .. Len(ch)
    BY DEF Sharing
  <2>4. \A k \in at : k = i
    BY <2>3
  <2>5. CASE i \in Sharing(names)
    <3>1. at = {i}
      BY <2>4, <2>5
    <3> DEFINE k == CHOOSE k \in at : \A j \in at : j <= k
    <3>2. i \in at /\ \A j \in at : j <= i
      BY <2>4, <3>1
    <3>3. k \in at
      BY <3>2
    <3>4. k = i
      BY <2>4, <3>3
    <3> HIDE DEF at, k
    <3> QED BY <2>2, <2>5, <3>2, <3>4 DEF IndexIn, k
  <2>6. CASE i \notin Sharing(names)
    <3>1. at = {}
      BY <2>4, <2>6
    <3> HIDE DEF at
    <3> QED BY <1>1, <2>2, <2>6, <3>1 DEF IndexIn
  <2> QED BY <2>5, <2>6
<1>2. ASSUME NEW m \in Mods, \A i \in 1 .. Len(ch) : ch[i] # m
      PROVE  Indices(ch, names)[m] = index_[m]
  <2> DEFINE at == {k \in Sharing(names) : ch[k] = m}
  <2>1. Indices(ch, names)[m] =
            IF at = {} THEN index_[m]
            ELSE IndexAmong(names, CHOOSE k \in at : \A j \in at : j <= k)
    BY DEF Indices
  <2>2. \A k \in Sharing(names) : k \in 1 .. Len(ch)
    BY DEF Sharing
  <2>3. at = {}
    BY <1>2, <2>2
  <2> HIDE DEF at
  <2> QED BY <2>1, <2>3
<1> QED BY <1>1, <1>2

(* The construction of the innermost ends, and its children are told apart.  *)
LEMMA EndInitNames ==
    ASSUME TypeInv, OrderlyInv, NamesInv, EndInitModule
    PROVE  NamesInv'
<1> DEFINE L == Len(calls)
           q == Caller.mod
           ch == children_[q]
           names == Caller.names
<1>1. CallsInv /\ TreeInv
  BY DEF OrderlyInv
<1>2. /\ calls # << >> /\ Caller.at > 0 /\ Caller.at = Len(children_[Caller.parent]) + 1
      /\ parent_' = parent_ /\ children_' = children_ /\ initialized_' = initialized_
      /\ basename_' = basename_
      /\ index_' = Indices(children_[Caller.parent], names)
  BY DEF EndInitModule, AtEnd
<1>3. /\ L \in Nat \ {0} /\ Len(calls') = L - 1 /\ Caller = calls[L]
      /\ \A i \in 1 .. L - 1 : calls'[i] = calls[i]
  BY EndInitCalls
<1>4. /\ L \in 1 .. L /\ \A i \in 1 .. L : i \in 1 .. L - 1 \/ i = L
      /\ \A i \in 1 .. L - 1 : i \in 1 .. L /\ i # L
      /\ \A i : i \in 1 .. Len(calls') <=> i \in 1 .. L - 1
  BY <1>3
<1>5. /\ Caller.parent = q /\ q \in Mods /\ initialized_[q] /\ q \in Callers
      /\ ch \in Seq(Mods) /\ names \in Seq(BaseNames) /\ Len(names) = Caller.at - 1
  <2>1. q \in Mods /\ q \in Callers /\ names \in Seq(BaseNames)
    BY <1>2, CallerIs
  <2> QED BY <1>1, <1>2, <1>3, <1>4, <2>1 DEF CallsInv, TypeInv
<1>6. /\ Len(names) = Len(ch) /\ Len(ch) \in Nat /\ index_' = Indices(ch, names)
  BY <1>2, <1>5
<1>7. \A i \in 1 .. Len(ch) : /\ initialized_[ch[i]] /\ names[i] = basename_[ch[i]]
                              /\ index_[ch[i]] = kNotIndexed /\ ch[i] \in Mods
  <2> SUFFICES ASSUME NEW i \in 1 .. Len(ch)
               PROVE  /\ initialized_[ch[i]] /\ names[i] = basename_[ch[i]]
                      /\ index_[ch[i]] = kNotIndexed /\ ch[i] \in Mods
    OBVIOUS
  <2>1. i \in 1 .. Len(calls[L].names) /\ calls[L].mod = q
    BY <1>3, <1>6
  <2>2. ~ Ended(q)
    BY <1>5 DEF Ended
  <2>3. initialized_[ch[i]] /\ names[i] = basename_[ch[i]]
    BY <1>3, <1>4, <2>1 DEF NamesInv
  <2>4. index_[ch[i]] = kNotIndexed
    BY <1>5, <2>2 DEF NamesInv
  <2> QED BY <1>5, <2>3, <2>4
<1>8. NamesOf(q) = names
  BY <1>5, <1>6, <1>7 DEF NamesOf
<1>9. \A i, j \in 1 .. Len(ch) : ch[i] = ch[j] => i = j
  BY <1>1, <1>5 DEF TreeInv
<1> HIDE DEF ch, names
<1>10. /\ \A i \in 1 .. Len(ch) : index_'[ch[i]] = IndexIn(names, i)
       /\ \A m \in Mods : (\A i \in 1 .. Len(ch) : ch[i] # m) => index_'[m] = index_[m]
  <2>1. /\ \A i \in 1 .. Len(ch) :
               index_[ch[i]] = kNotIndexed => Indices(ch, names)[ch[i]] = IndexIn(names, i)
        /\ \A m \in Mods : (\A i \in 1 .. Len(ch) : ch[i] # m)
               => Indices(ch, names)[m] = index_[m]
    BY ONLY <1>5, <1>6, <1>9, IndicesAre
  <2> QED BY <1>6, <1>7, <2>1
<1>11. \A x \in Mods : Ended(x)' <=> (Ended(x) \/ x = q)
  <2>1. \A i \in 1 .. L - 1 : calls[i].mod # q
    BY <1>1, <1>3, <1>4 DEF CallsInv
  <2> HIDE DEF q
  <2>2. \A x \in Callers' : x \in Callers /\ x # q
    BY <1>3, <1>4, <2>1 DEF Callers
  <2>3. \A x \in Callers : x \in Callers' \/ x = q
    BY <1>3, <1>4 DEF Callers, q
  <2> QED BY <1>2, <1>5, <2>2, <2>3 DEF Ended
<1>12. \A p : NamesOf(p)' = NamesOf(p)
  BY <1>2 DEF NamesOf
<1>13. ASSUME NEW p \in Mods, NEW i \in 1 .. Len(children_[p])
       PROVE  IF Ended(p)' THEN /\ initialized_[children_[p][i]]
                                /\ index_'[children_[p][i]] = IndexIn(NamesOf(p), i)
                          ELSE index_'[children_[p][i]] = kNotIndexed
  <2>1. CASE p = q
    BY <1>5, <1>7, <1>8, <1>10, <1>11, <2>1 DEF ch
  <2>2. CASE p # q
    <3>1. children_[p][i] \in Mods
      BY DEF TypeInv
    <3>2. \A j \in 1 .. Len(ch) : ch[j] # children_[p][i]
      BY <1>1, <1>5, <2>2 DEF TreeInv, ch
    <3>3. index_'[children_[p][i]] = index_[children_[p][i]]
      BY <1>10, <3>1, <3>2
    <3>4. Ended(p)' <=> Ended(p)
      BY <1>11, <2>2
    <3> QED BY <3>3, <3>4 DEF NamesInv
  <2> QED BY <2>1, <2>2
<1>14. \A p, c : IsChild(c, p)' <=> IsChild(c, p)
  BY <1>2 DEF IsChild
<1>15. \A p, c \in Mods : IsChild(c, p)' => parent_'[c] = p
  BY <1>2, <1>14 DEF NamesInv
<1>16. ASSUME NEW i \in 1 .. Len(calls'), NEW j \in 1 .. Len(calls'[i].names)
       PROVE  /\ j \in 1 .. Len(children_[calls'[i].mod])
              /\ initialized_[children_[calls'[i].mod][j]]
              /\ calls'[i].names[j] = basename_[children_[calls'[i].mod][j]]
  <2>1. i \in 1 .. Len(calls) /\ calls'[i] = calls[i]
    BY <1>3, <1>4
  <2>2. j \in 1 .. Len(calls[i].names)
    BY <2>1
  <2> QED BY <2>1, <2>2 DEF NamesInv
<1> HIDE DEF L, q
<1>17. \A i : kNotIndexed' = kNotIndexed /\ \A p : IndexIn(NamesOf(p), i)' = IndexIn(NamesOf(p)', i)
  BY DEF IndexIn, IndexAmong, Sharing, kNotIndexed
<1> QED BY <1>2, <1>12, <1>13, <1>15, <1>16, <1>17 DEF NamesInv

(* A module declared has no index yet. *)
LEMMA DeclareNames ==
    ASSUME TypeInv, StackInv, throws = 0, OrderlyInv, NamesInv, NEW m \in Mods, Declare(m)
    PROVE  NamesInv'
<1>1. CallsInv
  BY DEF OrderlyInv
<1>2. /\ calls' = calls /\ index_' = [index_ EXCEPT ![m] = kNotIndexed]
      /\ basename_' = [basename_ EXCEPT ![m] = Unnamed]
  BY DEF Declare
<1>3. /\ index_'[m] = kNotIndexed
      /\ \A x \in Mods : x # m => index_'[x] = index_[x] /\ basename_'[x] = basename_[x]
  BY <1>2 DEF TypeInv
<1>4. PICK q \in MaybeMods : Innermost(q) /\ Adopts(m, q)
  BY DeclareIs
<1>5. /\ \A p \in Mods : p # m /\ p # q => children_'[p] = children_[p]
      /\ children_'[m] = << >> /\ m # q
      /\ \A x \in Mods : x # m => initialized_'[x] = initialized_[x]
      /\ parent_'[m] = q /\ \A x \in Mods : x # m => parent_'[x] = parent_[x]
      /\ ~ initialized_'[m]
  BY <1>4 DEF Adopts
<1>6. \A p \in Mods : \A c : /\ IsChild(c, p)' <=> (IsChild(c, p) \/ (c = m /\ p = q))
                             /\ IsChild(c, p) => p # m /\ c # m /\ c \in Mods
  BY <1>4 DEF Adopts
<1>7. q # Nullptr => /\ q \in Callers /\ Caller.mod = q /\ Caller.at = 0
                     /\ Caller = calls[Len(calls)] /\ Len(calls) \in 1 .. Len(calls)
                     /\ q \in Mods
  BY <1>4 DEF Innermost
<1>8. q # Nullptr => /\ Len(children_[q]) \in Nat
                     /\ Len(children_'[q]) = Len(children_[q]) + 1
                     /\ \A i \in 1 .. Len(children_[q]) : children_'[q][i] = children_[q][i]
                     /\ children_'[q][Len(children_[q]) + 1] = m
  BY <1>4 DEF Adopts
<1>9. Callers' = Callers
  BY <1>2 DEF Callers
<1>10. \A x \in Mods : x # m => (Ended(x)' <=> Ended(x))
  BY <1>5, <1>9 DEF Ended
<1>11. \A i : kNotIndexed' = kNotIndexed /\ \A p : IndexIn(NamesOf(p), i)' = IndexIn(NamesOf(p)', i)
  BY DEF IndexIn, IndexAmong, Sharing, kNotIndexed
<1>12. \A p \in Mods : \A i \in 1 .. Len(children_[p]) :
           children_[p][i] \in Mods /\ children_[p][i] # m
  <2> SUFFICES ASSUME NEW p \in Mods, NEW i \in 1 .. Len(children_[p])
               PROVE  children_[p][i] \in Mods /\ children_[p][i] # m
    OBVIOUS
  <2>1. IsChild(children_[p][i], p)
    BY DEF IsChild
  <2> QED BY <1>6, <2>1
<1>13. ASSUME NEW p \in Mods, NEW i \in 1 .. Len(children_'[p])
       PROVE  IF Ended(p)' THEN /\ initialized_'[children_'[p][i]]
                                /\ index_'[children_'[p][i]] = IndexIn(NamesOf(p)', i)
                          ELSE index_'[children_'[p][i]] = kNotIndexed
  <2>1. CASE p = m
    <3>1. \A k \in 1 .. Len(<< >>) : FALSE
      OBVIOUS
    <3> QED BY <1>5, <2>1, <3>1
  <2>2. CASE p # m /\ p # q
    <3>1. children_'[p] = children_[p] /\ i \in 1 .. Len(children_[p])
      BY <1>5, <2>2
    <3>2. /\ index_'[children_[p][i]] = index_[children_[p][i]]
          /\ initialized_'[children_[p][i]] = initialized_[children_[p][i]]
      BY <1>3, <1>5, <1>12, <3>1
    <3>3. NamesOf(p)' = NamesOf(p)
      <4>1. \A k \in 1 .. Len(children_[p]) :
                basename_'[children_[p][k]] = basename_[children_[p][k]]
        BY <1>3, <1>12
      <4> QED BY <3>1, <4>1 DEF NamesOf
    <3>4. Ended(p)' <=> Ended(p)
      BY <1>10, <2>2
    <3> QED BY <3>1, <3>2, <3>3, <3>4 DEF NamesInv
  <2>3. CASE p = q
    <3>1. q # Nullptr /\ ~ Ended(p) /\ ~ Ended(p)'
      <4>1. q # Nullptr
        BY <2>3, ModuleTreeAssumption
      <4>2. ~ Ended(p) /\ p # m
        BY <1>5, <1>7, <2>3, <4>1 DEF Ended
      <4> QED BY <1>10, <4>1, <4>2
    <3>2. CASE i \in 1 .. Len(children_[p])
      <4>1. children_'[p][i] = children_[p][i]
        BY <1>8, <2>3, <3>1, <3>2
      <4>2. index_[children_[p][i]] = kNotIndexed
        BY <3>1, <3>2 DEF NamesInv
      <4>3. index_'[children_[p][i]] = index_[children_[p][i]]
        BY <1>3, <1>12, <3>2
      <4> QED BY <3>1, <4>1, <4>2, <4>3
    <3>3. CASE i = Len(children_[p]) + 1
      BY <1>3, <1>8, <2>3, <3>1, <3>3
    <3>4. i \in 1 .. Len(children_[p]) \/ i = Len(children_[p]) + 1
      BY <1>8, <2>3, <3>1
    <3> QED BY <3>2, <3>3, <3>4
  <2> QED BY <2>1, <2>2, <2>3
<1>14. ASSUME NEW p \in Mods, NEW c \in Mods, IsChild(c, p)' PROVE parent_'[c] = p
  <2>1. IsChild(c, p) \/ (c = m /\ p = q)
    BY <1>6, <1>14
  <2>2. IsChild(c, p) => c # m /\ parent_[c] = p
    BY <1>6 DEF NamesInv
  <2> QED BY <1>5, <2>1, <2>2
<1>15. ASSUME NEW i \in 1 .. Len(calls), NEW j \in 1 .. Len(calls[i].names)
       PROVE  /\ j \in 1 .. Len(children_'[calls[i].mod])
              /\ initialized_'[children_'[calls[i].mod][j]]
              /\ calls[i].names[j] = basename_'[children_'[calls[i].mod][j]]
  <2> DEFINE p == calls[i].mod
  <2>1. /\ p \in declared /\ p \in Mods
        /\ j \in 1 .. Len(children_[p]) /\ initialized_[children_[p][j]]
        /\ calls[i].names[j] = basename_[children_[p][j]]
    <3>1. p \in declared
      BY <1>1 DEF CallsInv
    <3>2. p \in Mods
      BY <1>1, <3>1 DEF TypeInv
    <3> QED BY <1>15, <3>1, <3>2 DEF NamesInv
  <2>2. p # m
    BY <2>1 DEF Declare, MayDeclare
  <2>3. p # q
    <3> SUFFICES ASSUME p = q PROVE FALSE
      OBVIOUS
    <3>1. q # Nullptr
      BY <2>1, ModuleTreeAssumption
    <3>2. i = Len(calls)
      BY <1>1, <1>7, <3>1 DEF CallsInv
    <3>3. calls[i].names = << >>
      BY <1>1, <1>7, <3>1, <3>2 DEF CallsInv
    <3>4. \A k \in 1 .. Len(<< >>) : FALSE
      OBVIOUS
    <3> QED BY <3>3, <3>4
  <2>4. children_'[p] = children_[p]
    BY <1>5, <2>1, <2>2, <2>3
  <2>5. /\ initialized_'[children_[p][j]] = initialized_[children_[p][j]]
        /\ basename_'[children_[p][j]] = basename_[children_[p][j]]
    BY <1>3, <1>5, <1>12, <2>1
  <2> QED BY <2>1, <2>4, <2>5
<1> QED BY <1>2, <1>11, <1>13, <1>14, <1>15 DEF NamesInv

Flawless == Orderly /\ broken = {} /\ ~ complained

LEMMA NamesStep ==
    ModuleTreeInv /\ ModuleTreeInv' /\ Flawless /\ Flawless' /\ NamesInv /\ [Next]_vars
        => NamesInv'
<1> SUFFICES ASSUME ModuleTreeInv, ModuleTreeInv', Flawless, Flawless', NamesInv, [Next]_vars
             PROVE  NamesInv'
  OBVIOUS
<1>1. /\ TypeInv /\ StackInv /\ throws = 0 /\ throws' = 0 /\ OrderlyInv /\ CallsInv
      /\ LoopInv
  BY DEF ModuleTreeInv, Flawless, Orderly, OrderlyInv
<1>2. ~ complained' /\ ~ complained /\ broken = {}
  BY DEF Flawless
<1>3. calls' \in Seq(Call) /\ \A i \in 1 .. Len(calls') : calls'[i].mod \in Mods
  <2>1. TypeInv' /\ CallsInv'
    BY DEF ModuleTreeInv, Flawless, Orderly, OrderlyInv
  <2> QED BY <2>1 DEF TypeInv, CallsInv
<1> DEFINE NamesCounted(i) ==
        \A j \in 1 .. Len(calls'[i].names) :
            /\ j \in 1 .. Len(children_[calls'[i].mod])
            /\ initialized_[children_[calls'[i].mod][j]]
            /\ calls'[i].names[j] = basename_[children_[calls'[i].mod][j]]
           Fixed == /\ \A x \in Mods : initialized_[x] => /\ initialized_'[x]
                                                          /\ basename_'[x] = basename_[x]
                    /\ \A x \in Mods : Ended(x)' <=> Ended(x)
                    /\ parent_' = parent_ /\ children_' = children_ /\ index_' = index_
<1>4. ASSUME Fixed, \A i \in 1 .. Len(calls') : NamesCounted(i) PROVE NamesInv'
  BY <1>1, <1>3, <1>4, NamesKept
<1>5. \A i \in 1 .. Len(calls) : \A c : c.mod = calls[i].mod /\ c.names = calls[i].names =>
         \A j \in 1 .. Len(c.names) :
            /\ j \in 1 .. Len(children_[c.mod])
            /\ initialized_[children_[c.mod][j]]
            /\ c.names[j] = basename_[children_[c.mod][j]]
  BY DEF NamesInv
<1> HIDE DEF NamesCounted, Fixed
<1>6. ASSUME NEW i \in 1 .. Len(calls), NEW k, calls'[k].mod = calls[i].mod,
             calls'[k].names = calls[i].names
      PROVE  NamesCounted(k)
  <2>1. PICK c : c = calls'[k]
    OBVIOUS
  <2> QED BY <1>5, <1>6, <2>1 DEF NamesCounted
<1>7. ASSUME NEW k, calls'[k].names = << >> PROVE NamesCounted(k)
  <2>1. \A j \in 1 .. Len(<< >>) : FALSE
    OBVIOUS
  <2> QED BY <1>7, <2>1 DEF NamesCounted
<1>8. ASSUME UNCHANGED <<calls, parent_, children_, index_, initialized_>>,
             \A x \in Mods : initialized_[x] => basename_'[x] = basename_[x]
      PROVE  NamesInv'
  <2>1. \A x : Ended(x)' <=> Ended(x)
    BY <1>8 DEF Ended, Callers
  <2>2. Fixed
    BY <1>8, <2>1 DEF Fixed
  <2>3. \A i \in 1 .. Len(calls') : NamesCounted(i)
    BY <1>6, <1>8
  <2> QED BY <1>4, <2>2, <2>3
<1>9. ASSUME NEW m \in declared, NEW n, ~ initialized_[m], BeginInitModule(m, n)
      PROVE  NamesInv'
  <2>1. /\ m \in Mods /\ parent_' = parent_ /\ children_' = children_ /\ index_' = index_
        /\ initialized_' = initialized_
        /\ basename_' = [basename_ EXCEPT ![m] = IF @ = Unnamed THEN n ELSE @]
    BY <1>1, <1>9 DEF BeginInitModule, TypeInv
  <2>2. /\ Len(calls) \in Nat /\ Len(calls') = Len(calls) + 1
        /\ \A i \in 1 .. Len(calls) : calls'[i] = calls[i]
        /\ calls'[Len(calls) + 1].mod = m /\ calls'[Len(calls) + 1].names = << >>
    BY <1>1, <1>9, <2>1, BeginCalls
  <2>3. \A i \in 1 .. Len(calls') : i \in 1 .. Len(calls) \/ i = Len(calls) + 1
    BY <2>2
  <2>4. \A x : x \in Callers' <=> (x \in Callers \/ x = m)
    <3>1. \A i \in 1 .. Len(calls) : i \in 1 .. Len(calls')
      BY <2>2
    <3>2. Len(calls) + 1 \in 1 .. Len(calls')
      BY <2>2
    <3> QED BY <2>2, <2>3, <3>1, <3>2 DEF Callers
  <2>5. \A x \in Mods : Ended(x)' <=> Ended(x)
    BY <1>9, <2>1, <2>4 DEF Ended
  <2>6. \A x \in Mods : initialized_[x] => basename_'[x] = basename_[x]
    BY <1>1, <1>9, <2>1 DEF TypeInv
  <2>7. Fixed
    BY <2>1, <2>5, <2>6 DEF Fixed
  <2>8. \A i \in 1 .. Len(calls') : NamesCounted(i)
    BY <1>6, <1>7, <2>2, <2>3
  <2> QED BY <1>4, <2>7, <2>8
<1>10. ASSUME NEW m \in Mods, NEW n, BaseName(m, n) PROVE NamesInv'
  <2>1. /\ UNCHANGED <<calls, parent_, children_, index_, initialized_>>
        /\ basename_' = [basename_ EXCEPT ![m] = n]
        /\ complained' = (complained \/ initialized_[m])
    BY <1>10 DEF BaseName, treeVars
  <2>2. \A x \in Mods : initialized_[x] => basename_'[x] = basename_[x]
    BY <1>1, <1>2, <2>1 DEF TypeInv
  <2> QED BY <1>8, <2>1, <2>2
<1>11. ASSUME NEW m \in Mods, NEW n, NamedConstruct(m, n) PROVE NamesInv'
  <2>1. m \in declared /\ BeginInitModule(m, n)
    BY <1>11 DEF NamedConstruct
  <2>2. ~ initialized_[m]
    BY <1>2, <2>1 DEF BeginInitModule, AlreadyConstructed
  <2> QED BY <1>9, <2>1, <2>2
<1>12. CASE DefaultConstruct
  BY <1>9, <1>12 DEF DefaultConstruct, Pending, HasChild, ToConstruct
<1>13. ASSUME NEW m \in Mods, Destroy(m) PROVE NamesInv'
  BY <1>8, <1>13 DEF Destroy, treeVars, nameVars
<1>14. CASE EndConstructor
  <2> DEFINE q == Caller.mod
  <2>1. /\ calls # << >> /\ q \in Mods /\ q \in Callers /\ Last(build_stack_) = q
    BY <1>1, <1>14, CallerIs, TopOfStack DEF EndConstructor
  <2>2. /\ parent_' = parent_ /\ children_' = children_ /\ index_' = index_
        /\ basename_' = basename_ /\ initialized_' = [initialized_ EXCEPT ![q] = TRUE]
    BY <1>14, <2>1 DEF EndConstructor, treeVars
  <2>3. /\ Len(calls) \in Nat \ {0} /\ Len(calls') = Len(calls) /\ Caller = calls[Len(calls)]
        /\ \A i \in 1 .. Len(calls) - 1 : calls'[i] = calls[i]
        /\ calls'[Len(calls)].names = Caller.names
        /\ \A i \in 1 .. Len(calls) : calls'[i].mod = calls[i].mod
    BY <1>1, <1>14, EndConstructorCalls
  <2>4. \A i \in 1 .. Len(calls) : i \in 1 .. Len(calls) - 1 \/ i = Len(calls)
    BY <2>3
  <2>5. \A i \in 1 .. Len(calls') : NamesCounted(i)
    BY <1>6, <2>3, <2>4
  <2>6. Callers' = Callers
    BY <2>3, SameCallers
  <2>7. \A x \in Mods : /\ initialized_[x] => initialized_'[x]
                        /\ x # q => initialized_'[x] = initialized_[x]
    BY <1>1, <2>1, <2>2 DEF TypeInv
  <2> HIDE DEF q
  <2>8. \A x \in Mods : Ended(x)' <=> Ended(x)
    <3> SUFFICES ASSUME NEW x \in Mods PROVE Ended(x)' <=> Ended(x)
      OBVIOUS
    <3>1. CASE x = q
      BY <2>1, <2>6, <3>1 DEF Ended
    <3>2. CASE x # q
      <4>1. initialized_'[x] = initialized_[x]
        BY <2>7, <3>2
      <4> QED BY <2>6, <4>1 DEF Ended
    <3> QED BY <3>1, <3>2
  <2>9. Fixed
    BY <2>2, <2>7, <2>8 DEF Fixed
  <2> QED BY <1>4, <2>5, <2>9
<1>15. CASE Constructed
  <2>1. /\ HasChild /\ NextChild /\ initialized_[Child] /\ initialized_' = initialized_
        /\ parent_' = parent_ /\ children_' = children_ /\ index_' = index_
        /\ basename_' = basename_
    BY <1>1, <1>15 DEF Constructed, HasChild, LoopInv, ToConstruct, treeVars, nameVars
  <2>2. /\ calls # << >> /\ Len(calls) \in Nat \ {0} /\ Len(calls') = Len(calls)
        /\ Caller = calls[Len(calls)]
        /\ \A i \in 1 .. Len(calls) - 1 : calls'[i] = calls[i]
        /\ calls'[Len(calls)].mod = Caller.mod
        /\ calls'[Len(calls)].names = Append(Caller.names, Counted(Child))
        /\ \A i \in 1 .. Len(calls) : calls'[i].mod = calls[i].mod
    BY <1>1, <2>1, NextChildCalls
  <2>3. \A i \in 1 .. Len(calls) : i \in 1 .. Len(calls) - 1 \/ i = Len(calls)
    BY <2>2
  <2>4. Callers' = Callers
    BY <2>2, SameCallers
  <2>5. \A x : Ended(x)' <=> Ended(x)
    BY <2>1, <2>4 DEF Ended
  <2>6. Fixed
    BY <2>1, <2>5 DEF Fixed
  <2>7. NamesCounted(Len(calls))
    <3> DEFINE names == Caller.names
    <3>1. /\ Caller.at \in 1 .. Len(children_[Caller.parent]) /\ Child \in Mods
          /\ Child = children_[Caller.parent][Caller.at]
      BY <1>1, <2>1, ChildIs DEF HasChild, Child
    <3>2. Len(calls) \in 1 .. Len(calls)
      BY <2>2
    <3>3. Caller.parent = Caller.mod /\ Len(names) = Caller.at - 1
      BY <1>1, <2>2, <3>1, <3>2 DEF CallsInv
    <3>4. names \in Seq(BaseNames) /\ Counted(Child) = basename_[Child]
      BY <1>1, <2>2, CallerIs DEF Counted
    <3>5. basename_[Child] \in BaseNames
      BY <1>1, <3>1 DEF TypeInv
    <3>6. \A j \in 1 .. Len(names) : /\ j \in 1 .. Len(children_[Caller.mod])
                                     /\ initialized_[children_[Caller.mod][j]]
                                     /\ names[j] = basename_[children_[Caller.mod][j]]
      BY <1>5, <2>2, <3>2
    <3> HIDE DEF names
    <3> DEFINE new == Append(names, basename_[Child])
    <3>7. /\ Len(new) = Caller.at /\ new[Caller.at] = basename_[Child]
          /\ \A j \in 1 .. Len(names) : new[j] = names[j]
          /\ \A j \in 1 .. Caller.at : j \in 1 .. Len(names) \/ j = Caller.at
      BY <3>1, <3>3, <3>4, <3>5
    <3>8. calls'[Len(calls)].names = new
      BY <2>2, <3>4 DEF names
    <3> HIDE DEF new
    <3>9. ASSUME NEW j \in 1 .. Len(new)
          PROVE  /\ j \in 1 .. Len(children_[Caller.mod])
                 /\ initialized_[children_[Caller.mod][j]]
                 /\ new[j] = basename_[children_[Caller.mod][j]]
      <4>1. j \in 1 .. Len(names) \/ j = Caller.at
        BY <3>7
      <4>2. CASE j \in 1 .. Len(names)
        BY <3>6, <3>7, <4>2
      <4>3. CASE j = Caller.at
        BY <2>1, <3>1, <3>3, <3>7, <4>3
      <4> QED BY <4>1, <4>2, <4>3
    <3> QED BY <2>2, <3>8, <3>9 DEF NamesCounted
  <2>8. \A i \in 1 .. Len(calls') : NamesCounted(i)
    BY <1>6, <2>2, <2>3, <2>7
  <2> QED BY <1>4, <2>6, <2>8
<1>16. ~ TouchGone /\ ~ CannotConstruct /\ ~ Throw
  BY <1>1, <1>2, NothingGone DEF CannotConstruct, Throw
<1>17. CASE EndInitModule
  BY <1>1, <1>17, EndInitNames
<1>18. ASSUME NEW m \in Mods, Declare(m) PROVE NamesInv'
  BY <1>1, <1>18, DeclareNames
<1>19. CASE UNCHANGED vars
  BY <1>8, <1>19 DEF vars, treeVars, nameVars
<1> QED BY <1>10, <1>11, <1>12, <1>13, <1>14, <1>15, <1>16, <1>17, <1>18, <1>19 DEF Next
-----------------------------------------------------------------------------
(* Counting those of a name among the first. *)

Count(names, b, n) == Cardinality({j \in 1 .. n - 1 : names[j] = b})

LEMMA CountIs ==
    ASSUME NEW names, NEW b
    PROVE  /\ Count(names, b, 1) = 0
           /\ \A n \in Nat \ {0} :
                 /\ Count(names, b, n) \in Nat
                 /\ names[n] = b => Count(names, b, n + 1) = Count(names, b, n) + 1
                 /\ names[n] # b => Count(names, b, n + 1) = Count(names, b, n)
<1> DEFINE Of(n) == {j \in 1 .. n - 1 : names[j] = b}
<1>1. Of(1) = {}
  OBVIOUS
<1>2. \A n : Count(names, b, n) = Cardinality(Of(n))
  BY DEF Count
<1>3. \A n \in Nat \ {0} : IsFiniteSet(Of(n)) /\ n \notin Of(n)
  <2> SUFFICES ASSUME NEW n \in Nat \ {0} PROVE IsFiniteSet(Of(n)) /\ n \notin Of(n)
    OBVIOUS
  <2>1. IsFiniteSet(1 .. n - 1)
    BY FS_Interval
  <2>2. Of(n) \in SUBSET (1 .. n - 1)
    OBVIOUS
  <2>3. n \notin 1 .. n - 1
    OBVIOUS
  <2> HIDE DEF Of
  <2> QED BY <2>1, <2>2, <2>3, FS_Subset
<1>4. \A n \in Nat \ {0} : /\ names[n] = b => Of(n + 1) = Of(n) \cup {n}
                           /\ names[n] # b => Of(n + 1) = Of(n)
  <2> SUFFICES ASSUME NEW n \in Nat \ {0}
               PROVE  /\ names[n] = b => Of(n + 1) = Of(n) \cup {n}
                      /\ names[n] # b => Of(n + 1) = Of(n)
    OBVIOUS
  <2>1. 1 .. (n + 1) - 1 = (1 .. n - 1) \cup {n}
    OBVIOUS
  <2> QED BY <2>1
<1> HIDE DEF Of
<1>5. ASSUME NEW n \in Nat \ {0}
      PROVE  /\ Count(names, b, n) \in Nat
             /\ names[n] = b => Count(names, b, n + 1) = Count(names, b, n) + 1
             /\ names[n] # b => Count(names, b, n + 1) = Count(names, b, n)
  <2>1. Cardinality(Of(n)) \in Nat
    BY <1>3, FS_CardinalityType
  <2>2. Cardinality(Of(n) \cup {n}) = Cardinality(Of(n)) + 1
    BY <1>3, FS_AddElement
  <2>3. /\ Count(names, b, n) = Cardinality(Of(n))
        /\ Count(names, b, n + 1) = Cardinality(Of(n + 1))
    BY <1>2
  <2>4. names[n] = b => Of(n + 1) = Of(n) \cup {n}
    BY <1>4
  <2>5. names[n] # b => Of(n + 1) = Of(n)
    BY <1>4
  <2> QED BY <2>1, <2>2, <2>3, <2>4, <2>5
<1>6. Count(names, b, 1) = 0
  BY <1>1, <1>2, FS_EmptySet
<1> QED BY <1>5, <1>6

LEMMA CountGrows ==
    ASSUME NEW names, NEW b, NEW i \in Nat \ {0}, NEW j \in Nat, i < j, names[i] = b
    PROVE  Count(names, b, i) + 1 <= Count(names, b, j)
<1> DEFINE S == {n \in Nat : Count(names, b, i) + 1 <= Count(names, b, i + 1 + n)}
<1>1. 0 \in S
  <2>1. Count(names, b, i + 1) = Count(names, b, i) + 1 /\ Count(names, b, i) \in Nat
    BY CountIs
  <2>2. i + 1 + 0 = i + 1
    OBVIOUS
  <2> QED BY <2>1, <2>2
<1>2. ASSUME NEW n \in Nat, n \in S PROVE n + 1 \in S
  <2> DEFINE k == i + 1 + n
  <2>1. k \in Nat \ {0} /\ k + 1 = i + 1 + (n + 1)
    OBVIOUS
  <2> HIDE DEF k
  <2>2. \/ Count(names, b, k + 1) = Count(names, b, k) + 1
        \/ Count(names, b, k + 1) = Count(names, b, k)
    BY <2>1, CountIs
  <2>3. Count(names, b, i) \in Nat /\ Count(names, b, k) \in Nat
    BY <2>1, CountIs
  <2>4. Count(names, b, i) + 1 <= Count(names, b, i + 1 + (n + 1))
    BY <1>2, <2>1, <2>2, <2>3 DEF k
  <2> QED BY <2>4
<1> HIDE DEF S
<1>3. j - (i + 1) \in S
  <2>1. j - (i + 1) \in Nat
    OBVIOUS
  <2> QED BY <1>1, <1>2, <2>1, Induct
<1>4. i + 1 + (j - (i + 1)) = j
  OBVIOUS
<1> QED BY <1>3, <1>4 DEF S

(* The counts of those of one name are without gaps. *)
LEMMA CountReached ==
    ASSUME NEW names, NEW j \in Nat \ {0}, NEW k \in 0 .. Count(names, names[j], j)
    PROVE  \E i \in 1 .. j : names[i] = names[j] /\ Count(names, names[j], i) = k
<1> DEFINE b == names[j]
           C(n) == Count(names, b, n)
           S == {n \in 1 .. j : C(n) <= k}
<1>1. /\ C(1) = 0 /\ \A n \in 1 .. j : C(n) \in Nat
      /\ \A n \in 1 .. j : IF names[n] = b THEN C(n + 1) = C(n) + 1 ELSE C(n + 1) = C(n)
  <2> HIDE DEF b
  <2>1. \A n \in 1 .. j : n \in Nat \ {0}
    OBVIOUS
  <2>2. C(1) = 0
    BY CountIs
  <2>3. \A n \in 1 .. j : C(n) \in Nat
    BY <2>1, CountIs
  <2>4. ASSUME NEW n \in 1 .. j
        PROVE  IF names[n] = b THEN C(n + 1) = C(n) + 1 ELSE C(n + 1) = C(n)
    <3>1. n \in Nat \ {0}
      BY <2>1
    <3>2. \A m \in Nat \ {0} : /\ names[m] = b => C(m + 1) = C(m) + 1
                               /\ names[m] # b => C(m + 1) = C(m)
      BY ONLY CountIs
    <3> HIDE DEF C
    <3> QED BY ONLY <3>1, <3>2
  <2> QED BY <2>2, <2>3, <2>4
<1>2. k \in Nat /\ k <= C(j)
  BY <1>1
<1> HIDE DEF C
<1>3. S \subseteq Nat /\ 1 \in S /\ \A n \in S : n <= j
  BY <1>1, <1>2
<1>4. PICK m \in S : \A n \in S : n <= m
  <2> HIDE DEF S
  <2> QED BY <1>3, GreatestNat
<1>5. m \in 1 .. j /\ C(m) <= k /\ C(m) \in Nat
  BY <1>1, <1>4
<1>6. names[m] = b /\ C(m) = k
  <2>1. CASE m = j
    BY <1>2, <1>5, <2>1
  <2>2. CASE m # j
    <3>1. m + 1 \in 1 .. j /\ m + 1 \notin S
      BY <1>4, <1>5, <2>2
    <3>2. ~ (C(m + 1) <= k) /\ C(m + 1) \in Nat
      BY <1>1, <3>1
    <3>3. names[m] = b
      <4> SUFFICES ASSUME names[m] # b PROVE FALSE
        OBVIOUS
      <4> HIDE DEF b
      <4>1. C(m + 1) = C(m)
        BY <1>1, <1>5
      <4> QED BY <1>5, <3>2, <4>1
    <3> HIDE DEF b
    <3>4. C(m + 1) = C(m) + 1
      BY <1>1, <1>5, <3>3
    <3> QED BY <1>2, <1>5, <3>2, <3>3, <3>4
  <2> QED BY <2>1, <2>2
<1> QED BY <1>5, <1>6 DEF C

(* What IndexIn gives to a sequence of names: the names with their indices   *)
(* are different, those of one name are numbered from 0 on, and no one has   *)
(* a number whose name is its own.                                           *)
LEMMA IndicesTell ==
    ASSUME NEW names, Len(names) \in Nat,
           NEW i \in 1 .. Len(names), NEW j \in 1 .. Len(names), i # j
    PROVE  names[i] = names[j] =>
                 /\ IndexIn(names, i) # IndexIn(names, j)
                 /\ i < j => IndexIn(names, i) \in 0 .. IndexIn(names, j) - 1
                 /\ \A k \in 0 .. IndexIn(names, j) : \E n \in 1 .. Len(names) :
                       names[n] = names[j] /\ IndexIn(names, n) = k
<1> SUFFICES ASSUME names[i] = names[j]
             PROVE  /\ IndexIn(names, i) # IndexIn(names, j)
                    /\ i < j => IndexIn(names, i) \in 0 .. IndexIn(names, j) - 1
                    /\ \A k \in 0 .. IndexIn(names, j) : \E n \in 1 .. Len(names) :
                          names[n] = names[j] /\ IndexIn(names, n) = k
  OBVIOUS
<1> DEFINE b == names[j]
<1>1. \A n \in 1 .. Len(names) :
         names[n] = b => IndexIn(names, n) = Count(names, b, n)
  <2> SUFFICES ASSUME NEW n \in 1 .. Len(names), names[n] = b
               PROVE  IndexIn(names, n) = Count(names, b, n)
    OBVIOUS
  <2>1. \E k \in 1 .. Len(names) : n # k /\ names[n] = names[k]
    OBVIOUS
  <2>2. n \in Sharing(names)
    BY <2>1 DEF Sharing
  <2> QED BY <2>2 DEF IndexIn, IndexAmong, Count
<1> HIDE DEF b
<1>2. names[i] = b /\ names[j] = b
  BY DEF b
<1>3. /\ i \in Nat \ {0} /\ j \in Nat \ {0}
      /\ Count(names, b, i) \in Nat /\ Count(names, b, j) \in Nat
  <2>1. i \in Nat \ {0} /\ j \in Nat \ {0}
    OBVIOUS
  <2> QED BY <2>1, CountIs
<1>4. i < j => Count(names, b, i) + 1 <= Count(names, b, j)
  BY <1>2, <1>3, CountGrows
<1>5. j < i => Count(names, b, j) + 1 <= Count(names, b, i)
  BY <1>2, <1>3, CountGrows
<1>6. /\ IndexIn(names, i) = Count(names, b, i)
      /\ IndexIn(names, j) = Count(names, b, j)
  BY <1>1, <1>2
<1>7. /\ IndexIn(names, i) # IndexIn(names, j)
      /\ i < j => IndexIn(names, i) \in 0 .. IndexIn(names, j) - 1
  BY <1>3, <1>4, <1>5, <1>6
<1>8. ASSUME NEW k \in 0 .. IndexIn(names, j)
      PROVE  \E n \in 1 .. Len(names) : names[n] = names[j] /\ IndexIn(names, n) = k
  <2>1. k \in 0 .. Count(names, names[j], j)
    BY <1>2, <1>6
  <2>2. PICK n \in 1 .. j : names[n] = names[j] /\ Count(names, names[j], n) = k
    BY <1>3, <2>1, CountReached
  <2>3. n \in 1 .. Len(names)
    OBVIOUS
  <2> QED BY <1>1, <1>2, <2>2, <2>3
<1> QED BY <1>7, <1>8

LEMMA NamesHold == Spec => [](ModuleTreeInv /\ (Flawless => NamesInv))
<1>1. Init => NamesInv
  <2> SUFFICES ASSUME Init PROVE NamesInv
    OBVIOUS
  <2>1. /\ \A p \in Mods : children_[p] = << >>
        /\ calls = << >>
    BY DEF Init
  <2>2. \A p \in Mods : 1 .. Len(children_[p]) = {}
    BY <2>1
  <2>3. 1 .. Len(calls) = {}
    BY <2>1
  <2> QED BY <2>2, <2>3 DEF NamesInv, IsChild
<1>2. ASSUME ModuleTreeInv, Flawless => NamesInv, ModuleTreeInv', [Next]_vars
      PROVE  Flawless' => NamesInv'
  <2>1. \/ throws' = throws /\ (rebuilds' = rebuilds \/ rebuilds' = rebuilds + 1)
        \/ throws' = throws + 1
    BY <1>2 DEF Next, Declare, BaseName, NamedConstruct, Destroy, EndConstructor, Throw,
           DefaultConstruct, CannotConstruct, Constructed, EndInitModule, TouchGone,
           BeginInitModule, vars, history
  <2>2. throws \in Nat /\ rebuilds \in Nat
    BY <1>2 DEF ModuleTreeInv, TypeInv
  <2>3. Orderly' => Orderly
    BY <2>1, <2>2 DEF Orderly
  <2>4. broken' = {} => broken = {}
    BY <1>2 DEF Next, Declare, BaseName, NamedConstruct, Destroy, EndConstructor, Throw,
           DefaultConstruct, CannotConstruct, Constructed, EndInitModule, TouchGone,
           BeginInitModule, vars, history
  <2>5. complained => complained'
    BY <1>2, ZenonT(60) DEF Next, Declare, BaseName, NamedConstruct, Destroy, EndConstructor,
           Throw, DefaultConstruct, CannotConstruct, Constructed, EndInitModule, TouchGone,
           BeginInitModule, vars, history
  <2>6. Flawless' => Flawless
    BY <2>3, <2>4, <2>5 DEF Flawless
  <2> QED BY <1>2, <2>6, NamesStep
<1> QED BY <1>1, <1>2, Inductive, PTL DEF Spec

(* Indices are few: a module is a child once. *)
LEMMA IndicesFew ==
    ASSUME TypeInv, TreeInv, NEW p \in Mods, NEW i \in 1 .. Len(children_[p])
    PROVE  IndexIn(NamesOf(p), i) \in {kNotIndexed} \cup 0 .. Cardinality(Mods)
<1> DEFINE names == NamesOf(p)
           C == Cardinality(Mods)
           n == Len(children_[p])
<1>1. children_[p] \in Seq(Mods) /\ n \in Nat
  BY DEF TypeInv
<1>2. IsFiniteSet(Mods) /\ C \in Nat
  BY ChainIs, ModuleTreeAssumption
<1>3. n <= C
  <2> SUFFICES ASSUME ~ (n <= C) PROVE FALSE
    OBVIOUS
  <2>1. IsFiniteSet(1 .. n) /\ Cardinality(1 .. n) = n
    <3>1. 1 \in Int /\ n \in Int /\ ~ (1 > n) /\ n - 1 + 1 = n
      BY <1>1, <1>2
    <3> HIDE DEF n
    <3> QED BY <3>1, FS_Interval
  <2>2. children_[p] \in [1 .. n -> Mods]
    BY <1>1
  <2>3. Cardinality(Mods) < Cardinality(1 .. n)
    BY <1>1, <1>2, <2>1
  <2> HIDE DEF n
  <2>4. \E k, j \in 1 .. n : k # j /\ children_[p][k] = children_[p][j]
    BY <1>2, <2>1, <2>2, <2>3, FS_PigeonHole
  <2> QED BY <2>4 DEF TreeInv, n
<1>4. IndexAmong(names, i) \in 0 .. C
  <2> DEFINE S == {j \in 1 .. i - 1 : names[j] = names[i]}
  <2>1. i \in Nat /\ i <= n /\ i >= 1
    BY <1>1
  <2>2. IsFiniteSet(1 .. i - 1) /\ Cardinality(1 .. i - 1) = i - 1
    <3>1. 1 \in Int /\ i - 1 \in Int /\ (1 > i - 1 => i - 1 = 0)
      BY <2>1
    <3>2. (i - 1) - 1 + 1 = i - 1
      BY <2>1
    <3> HIDE DEF n
    <3> QED BY <3>1, <3>2, FS_Interval
  <2>3. S \in SUBSET (1 .. i - 1)
    OBVIOUS
  <2> HIDE DEF S
  <2>4. Cardinality(S) \in Nat /\ Cardinality(S) <= i - 1
    BY <2>2, <2>3, FS_Subset, FS_CardinalityType
  <2>5. IndexAmong(names, i) = Cardinality(S)
    BY DEF IndexAmong, S
  <2> QED BY <1>1, <1>2, <1>3, <2>1, <2>4, <2>5
<1> QED BY <1>4 DEF IndexIn

(* Unless the code has complained, the children of a module whose            *)
(* construction has ended that share a base name are numbered from 0 on in   *)
(* their order, and no other has a number (the loops over names in           *)
(* EndInitModule); so that two have one name only if user code has named one *)
(* as another and an index.                                                  *)
THEOREM SiblingsToldApart == Spec => []SiblingNames
<1>1. ModuleTreeInv /\ (Flawless => NamesInv) => SiblingNames
  <2> SUFFICES ASSUME ModuleTreeInv, Flawless => NamesInv, WellBehaved,
                      NEW p \in declared, Ended(p),
                      NEW i \in 1 .. Len(children_[p]), NEW j \in 1 .. Len(children_[p]),
                      NEW c, c = children_[p][i], NEW d, d = children_[p][j]
               PROVE  /\ i # j /\ Name(c) = Name(d) =>
                             Imitates(basename_[c], basename_[d])
                                 \/ Imitates(basename_[d], basename_[c])
                      /\ i < j /\ basename_[c] = basename_[d]
                             => /\ index_[c] \in 0 .. index_[d] - 1
                                /\ \A k \in 0 .. index_[d] :
                                      \E e \in Mods :
                                          /\ parent_[e] = p /\ index_[e] = k
                                          /\ basename_[e] = basename_[c]
                      /\ index_[c] # kNotIndexed =>
                             \E e \in Mods \ {c} : /\ parent_[e] = p
                                                   /\ basename_[e] = basename_[c]
    BY DEF SiblingNames
  <2>1. TypeInv /\ throws = 0 /\ rebuilds \in Nat /\ ~ (throws = 0 /\ rebuilds > 0)
    BY DEF ModuleTreeInv, WellBehaved, TypeInv
  <2>2. Orderly
    BY <2>1 DEF Orderly
  <2>3. NamesInv /\ TreeInv
    BY <2>2 DEF Flawless, WellBehaved, ModuleTreeInv, OrderlyInv
  <2>4. p \in Mods /\ children_[p] \in Seq(Mods) /\ Len(children_[p]) \in Nat
    BY <2>1 DEF TypeInv
  <2> DEFINE names == NamesOf(p)
             IsOf(e, n) == /\ e \in Mods /\ e = children_[p][n] /\ parent_[e] = p
                           /\ basename_[e] = names[n] /\ index_[e] = IndexIn(names, n)
  <2>5. Len(names) = Len(children_[p]) /\ Len(names) \in Nat
    BY <2>4 DEF NamesOf
  <2>6. ASSUME NEW n \in 1 .. Len(names), NEW e, e = children_[p][n]
        PROVE  IsOf(e, n)
    <3>1. n \in 1 .. Len(children_[p]) /\ e \in Mods
      BY <2>4, <2>5, <2>6
    <3>2. IsChild(e, p)
      BY <2>6, <3>1 DEF IsChild
    <3>3. parent_[e] = p
      BY <2>3, <2>4, <3>1, <3>2 DEF NamesInv
    <3>4. index_[children_[p][n]] = IndexIn(NamesOf(p), n)
      BY <2>3, <2>4, <3>1 DEF NamesInv
    <3>5. names[n] = basename_[children_[p][n]]
      BY <3>1 DEF NamesOf
    <3> QED BY <2>6, <3>1, <3>3, <3>4, <3>5
  <2>7. IsOf(c, i) /\ IsOf(d, j) /\ i \in 1 .. Len(names) /\ j \in 1 .. Len(names)
    BY <2>5, <2>6
  <2>8. \A m, n \in 1 .. Len(names) : children_[p][m] = children_[p][n] => m = n
    BY <2>3, <2>4, <2>5 DEF TreeInv
  <2>9. \A n \in 1 .. Len(names) :
            IndexIn(names, n) \in {kNotIndexed} \cup 0 .. Cardinality(Mods)
    BY <2>1, <2>3, <2>4, <2>5, IndicesFew
  <2> HIDE DEF names
  <2>10. ASSUME i # j, Name(c) = Name(d)
        PROVE  \/ Imitates(basename_[c], basename_[d])
               \/ Imitates(basename_[d], basename_[c])
    <3>1. names[i] = names[j] => IndexIn(names, i) # IndexIn(names, j)
      BY <2>5, <2>7, <2>10, IndicesTell
    <3>2. /\ basename_[c] \in Names \cup {Unnamed} /\ basename_[d] \in Names \cup {Unnamed}
          /\ index_[c] # kNotIndexed => index_[c] \in 0 .. Cardinality(Mods)
          /\ index_[d] # kNotIndexed => index_[d] \in 0 .. Cardinality(Mods)
      BY <2>1, <2>7, <2>9 DEF TypeInv, BaseNames
    <3>3. CASE index_[c] = kNotIndexed /\ index_[d] = kNotIndexed
      BY <2>7, <2>10, <3>1, <3>3 DEF Name
    <3>4. CASE index_[c] # kNotIndexed /\ index_[d] # kNotIndexed
      <4>1. WithIndex(basename_[c], index_[c]) = WithIndex(basename_[d], index_[d])
        BY <2>10, <3>4 DEF Name
      <4>2. basename_[c] = basename_[d] /\ index_[c] = index_[d]
        BY <3>2, <3>4, <4>1, ModuleTreeAssumption
      <4> QED BY <2>7, <3>1, <4>2
    <3>5. CASE index_[c] = kNotIndexed /\ index_[d] # kNotIndexed
      BY <2>10, <3>2, <3>5 DEF Name, Imitates
    <3>6. CASE index_[c] # kNotIndexed /\ index_[d] = kNotIndexed
      BY <2>10, <3>2, <3>6 DEF Name, Imitates
    <3> QED BY <3>3, <3>4, <3>5, <3>6
  <2>11. ASSUME i < j, basename_[c] = basename_[d]
         PROVE  /\ index_[c] \in 0 .. index_[d] - 1
                /\ \A k \in 0 .. index_[d] :
                      \E e \in Mods : /\ parent_[e] = p /\ index_[e] = k
                                      /\ basename_[e] = basename_[c]
    <3>1. i # j /\ names[i] = names[j]
      BY <2>7, <2>11
    <3>2. /\ IndexIn(names, i) \in 0 .. IndexIn(names, j) - 1
          /\ \A k \in 0 .. IndexIn(names, j) : \E n \in 1 .. Len(names) :
                names[n] = names[j] /\ IndexIn(names, n) = k
      BY <2>5, <2>7, <2>11, <3>1, IndicesTell
    <3>3. ASSUME NEW k \in 0 .. index_[d]
          PROVE  \E e \in Mods : /\ parent_[e] = p /\ index_[e] = k
                                 /\ basename_[e] = basename_[c]
      <4>1. PICK n \in 1 .. Len(names) : names[n] = names[j] /\ IndexIn(names, n) = k
        BY <2>7, <3>2
      <4>2. PICK e : e = children_[p][n]
        OBVIOUS
      <4>3. IsOf(e, n)
        BY <2>6, <4>2
      <4> QED BY <2>7, <3>1, <4>1, <4>3
    <3> QED BY <2>7, <3>2, <3>3
  <2>12. ASSUME index_[c] # kNotIndexed
         PROVE  \E e \in Mods \ {c} : parent_[e] = p /\ basename_[e] = basename_[c]
    <3>1. i \in Sharing(names)
      BY <2>7, <2>12 DEF IndexIn
    <3>2. PICK n \in 1 .. Len(names) : i # n /\ names[i] = names[n]
      BY <3>1 DEF Sharing
    <3>3. PICK e : e = children_[p][n]
      OBVIOUS
    <3>4. IsOf(e, n) /\ e # c
      BY <2>6, <2>7, <2>8, <3>2, <3>3
    <3> QED BY <2>7, <3>2, <3>4
  <2> QED BY <2>10, <2>11, <2>12
<1> QED BY <1>1, NamesHold, PTL
=============================================================================
