-------------------------- MODULE PointerLike_proofs --------------------------
(***************************************************************************)
(* Proofs about PointerLike, for every number of variables, every size     *)
(* class, every number of blocks in an array and every limit on throws.    *)
(***************************************************************************)
EXTENDS PointerLike, FiniteSetTheorems, SequenceTheorems, TLAPS

-----------------------------------------------------------------------------
(* One pool. *)

Block     == Nat \X Nat \X Nat
BlockInfo == {IndexToBlockInfo(i) : i \in Nat} \cup
             {[block_bytes |-> 0, num_blocks |-> 0]}
Pool      == [arrays : Nat, free_list : Seq(Block), block_info : BlockInfo]

Distinct(seq) == \A i, j \in 1 .. Len(seq) : i # j => seq[i] # seq[j]

FreeOf(pool) == {pool.free_list[i] : i \in 1 .. Len(pool.free_list)}
BlocksOf(pool, index) ==
    {<<index, a, i>> : a \in 0 .. pool.arrays - 1,
                       i \in 0 .. pool.block_info.num_blocks - 1}
UsedOf(pool, index) == BlocksOf(pool, index) \ FreeOf(pool)

(* A pool of its index, whose free list holds blocks of its own, each once.  *)
Sound(pool, index) ==
    /\ pool \in Pool
    /\ pool.block_info = IndexToBlockInfo(index)
    /\ Distinct(pool.free_list)
    /\ FreeOf(pool) \subseteq BlocksOf(pool, index)

(* The blocks of a pool. *)
LEMMA BlocksProps ==
    ASSUME NEW pool, NEW index
    PROVE  \A p : p \in BlocksOf(pool, index) <=>
                     \E a \in 0 .. pool.arrays - 1, i \in 0 .. pool.block_info.num_blocks - 1 :
                         p = <<index, a, i>>
BY DEF BlocksOf

(* A pool has as many blocks as its arrays hold. *)
LEMMA BlocksCounted ==
    ASSUME NEW index, NEW pool, pool.arrays \in Nat, pool.block_info.num_blocks \in Nat
    PROVE  /\ IsFiniteSet(BlocksOf(pool, index))
           /\ Cardinality(BlocksOf(pool, index)) = pool.arrays * pool.block_info.num_blocks
<1> DEFINE A == 0 .. pool.arrays - 1
           N == 0 .. pool.block_info.num_blocks - 1
           B == BlocksOf(pool, index)
           f == [q \in A \X N |-> <<index, q[1], q[2]>>]
<1>1. /\ IsFiniteSet(A) /\ Cardinality(A) = pool.arrays
      /\ IsFiniteSet(N) /\ Cardinality(N) = pool.block_info.num_blocks
  <2>1. ASSUME NEW n \in Nat
        PROVE  IsFiniteSet(0 .. n - 1) /\ Cardinality(0 .. n - 1) = n
    <3>1. 0 \in Int /\ n - 1 \in Int /\ (0 > n - 1 <=> n = 0) /\ (n - 1) - 0 + 1 = n
      OBVIOUS
    <3> QED BY <3>1, FS_Interval
  <2> QED BY <2>1
<1>2. B = {<<index, a, i>> : a \in A, i \in N}
  BY DEF BlocksOf
<1> HIDE DEF A, N, B
<1>3. f \in Bijection(A \X N, B)
  <2>1. f \in [A \X N -> B]
    BY <1>2
  <2>2. \A q, r \in A \X N : f[q] = f[r] => q = r
    OBVIOUS
  <2>3. ASSUME NEW b \in B PROVE \E q \in A \X N : f[q] = b
    <3>1. PICK a \in A, i \in N : b = <<index, a, i>>
      BY <1>2
    <3>2. <<a, i>> \in A \X N /\ f[<<a, i>>] = b
      BY <3>1
    <3> QED BY <3>2
  <2> HIDE DEF f
  <2> QED BY <2>1, <2>2, <2>3 DEF Bijection, Injection, Surjection, IsInjective
<1> HIDE DEF f
<1>4. ExistsBijection(A \X N, B)
  BY <1>3 DEF ExistsBijection
<1>5. IsFiniteSet(A \X N) /\ Cardinality(A \X N) = Cardinality(A) * Cardinality(N)
  BY <1>1, FS_Product
<1> QED BY <1>1, <1>4, <1>5, FS_Bijection DEF B

(* Growing a pool gives it free blocks and puts none in use. *)
LEMMA StockedSound ==
    ASSUME NEW index \in Nat, NEW pool, Sound(pool, index),
           IndexToBlockInfo(index).num_blocks \in Nat \ {0}
    PROVE  /\ Sound(Stocked(pool, index), index)
           /\ Stocked(pool, index).free_list # << >>
           /\ UsedOf(Stocked(pool, index), index) = UsedOf(pool, index)
           /\ \/ Stocked(pool, index).arrays = pool.arrays
              \/ /\ Stocked(pool, index).arrays = pool.arrays + 1
                 /\ UsedOf(pool, index) = BlocksOf(pool, index)
<1> DEFINE n == pool.block_info.num_blocks
           new == [i \in 1 .. n |-> <<index, pool.arrays, i - 1>>]
<1>1. /\ n \in Nat \ {0} /\ pool.arrays \in Nat /\ pool.free_list \in Seq(Block)
      /\ pool \in Pool
  BY DEF Sound, Pool
<1>2. CASE pool.free_list # << >>
  BY <1>2 DEF Stocked
<1>3. CASE pool.free_list = << >>
  <2> DEFINE grown == EnsureEnoughFree(pool, index)
  <2>1. new \in Seq(Block) /\ Len(new) = n
    <3>1. \A i \in 1 .. n : <<index, pool.arrays, i - 1>> \in Block
      BY <1>1 DEF Block
    <3>2. new \in [1 .. n -> Block] /\ DOMAIN new = 1 .. n
      BY <3>1
    <3>3. n \in Nat
      BY <1>1
    <3> HIDE DEF new, n
    <3> QED BY <3>2, <3>3
  <2>2. << >> \o new = new
    BY <2>1, ConcatEmptySeq
  <2>3. grown = [pool EXCEPT !.arrays = @ + 1, !.free_list = @ \o new]
    BY DEF EnsureEnoughFree
  <2>10. new # << >> /\ \A i \in 1 .. n : new[i] = <<index, pool.arrays, i - 1>>
    BY <1>1, <2>1
  <2> HIDE DEF grown, new
  <2>4. /\ grown.arrays = pool.arrays + 1 /\ grown.free_list = new
        /\ grown.block_info = pool.block_info
        /\ grown \in Pool
    <3> DEFINE m == pool.arrays + 1
    <3>1. grown = [pool EXCEPT !.arrays = m, !.free_list = new] /\ m \in Nat
      BY <1>1, <1>3, <2>2, <2>3
    <3> HIDE DEF m
    <3>2. /\ grown.arrays = m /\ grown.free_list = new
          /\ grown.block_info = pool.block_info /\ grown \in Pool
      BY <1>1, <2>1, <3>1 DEF Pool
    <3> QED BY <3>2 DEF m
  <2>5. Distinct(new)
    <3> SUFFICES ASSUME NEW i \in 1 .. n, NEW j \in 1 .. n, i # j PROVE new[i] # new[j]
      BY <2>1 DEF Distinct
    <3>1. i - 1 # j - 1
      BY <1>1
    <3> QED BY <2>10, <3>1
  <2>6. FreeOf(grown) = {<<index, pool.arrays, i>> : i \in 0 .. n - 1}
    <3>1. FreeOf(grown) = {new[i] : i \in 1 .. n}
      BY <2>1, <2>4 DEF FreeOf
    <3>2. \A i \in 1 .. n : new[i] = <<index, pool.arrays, i - 1>> /\ i - 1 \in 0 .. n - 1
      BY <1>1, <2>10
    <3>3. \A j \in 0 .. n - 1 : new[j + 1] = <<index, pool.arrays, j>> /\ j + 1 \in 1 .. n
      <4>1. \A j \in 0 .. n - 1 : j + 1 \in 1 .. n /\ (j + 1) - 1 = j
        BY <1>1
      <4> HIDE DEF n
      <4> QED BY <2>10, <4>1
    <3> HIDE DEF n
    <3> QED BY <3>1, <3>2, <3>3
  <2>7. BlocksOf(grown, index) = BlocksOf(pool, index) \cup FreeOf(grown)
    <3>1. 0 .. (pool.arrays + 1) - 1 = (0 .. pool.arrays - 1) \cup {pool.arrays}
      BY <1>1
    <3>2. BlocksOf(grown, index) = {<<index, a, i>> : a \in 0 .. (pool.arrays + 1) - 1,
                                                      i \in 0 .. n - 1}
      BY <2>4 DEF BlocksOf
    <3>3. BlocksOf(pool, index) = {<<index, a, i>> : a \in 0 .. pool.arrays - 1,
                                                     i \in 0 .. n - 1}
      BY DEF BlocksOf
    <3> HIDE DEF n
    <3> QED BY <2>6, <3>1, <3>2, <3>3
  <2>8. BlocksOf(pool, index) \cap FreeOf(grown) = {}
    BY <1>1, <2>6 DEF BlocksOf
  <2>9. FreeOf(pool) = {}
    BY <1>3 DEF FreeOf
  <2> QED BY <1>3, <2>10, <2>4, <2>5, <2>7, <2>8, <2>9 DEF Stocked, Sound, UsedOf, grown
<1> QED BY <1>2, <1>3

(* Taking the last block of a free list puts that block in use. *)
LEMMA PopBackSound ==
    ASSUME NEW index \in Nat, NEW pool, Sound(pool, index), pool.free_list # << >>,
           NEW last, last = pool.free_list[Len(pool.free_list)]
    PROVE  /\ Sound(PopBack(pool), index)
           /\ last \in BlocksOf(pool, index) \ UsedOf(pool, index)
           /\ UsedOf(PopBack(pool), index) = UsedOf(pool, index) \cup {last}
           /\ PopBack(pool).arrays = pool.arrays
<1> DEFINE fl == pool.free_list
           n  == Len(fl)
           rest == SubSeq(fl, 1, n - 1)
           popped == PopBack(pool)
<1>1. pool \in Pool /\ fl \in Seq(Block) /\ n \in Nat /\ n # 0
  BY EmptySeq DEF Sound, Pool
<1>2. /\ rest \in Seq(Block) /\ Len(rest) = n - 1
      /\ \A i \in 1 .. n - 1 : rest[i] = fl[i]
  BY <1>1
<1>3. popped = [pool EXCEPT !.free_list = rest]
  BY DEF PopBack
<1>4. /\ popped \in Pool /\ popped.free_list = rest /\ popped.arrays = pool.arrays
      /\ popped.block_info = pool.block_info
  BY <1>1, <1>2, <1>3 DEF Pool
<1> HIDE DEF rest, popped
<1>5. Distinct(rest)
  BY <1>1, <1>2 DEF Sound, Distinct
<1>6. last \in FreeOf(pool)
  BY <1>1 DEF FreeOf
<1>7. FreeOf(popped) = FreeOf(pool) \ {last}
  <2>1. FreeOf(popped) = {fl[i] : i \in 1 .. n - 1}
    BY <1>1, <1>2, <1>4 DEF FreeOf
  <2>2. \A i \in 1 .. n - 1 : fl[i] # last
    BY <1>1 DEF Sound, Distinct
  <2>3. \A i \in 1 .. n : i # n => i \in 1 .. n - 1
    BY <1>1
  <2>4. FreeOf(pool) = {fl[i] : i \in 1 .. n}
    BY DEF FreeOf
  <2>5. \A i \in 1 .. n - 1 : i \in 1 .. n
    BY <1>1
  <2> HIDE DEF n, fl
  <2> QED BY <2>1, <2>2, <2>3, <2>4, <2>5 DEF fl, n
<1>8. BlocksOf(popped, index) = BlocksOf(pool, index)
  BY <1>4 DEF BlocksOf
<1>9. FreeOf(pool) \subseteq BlocksOf(pool, index)
  BY DEF Sound
<1> QED BY <1>4, <1>5, <1>6, <1>7, <1>8, <1>9 DEF Sound, UsedOf, popped

(* Putting a block in use on the free list takes it out of use. *)
LEMMA GivenBackSound ==
    ASSUME NEW index \in Nat, NEW pool, Sound(pool, index),
           NEW p \in UsedOf(pool, index), p \in Block
    PROVE  LET given == [pool EXCEPT !.free_list = Append(@, p)]
           IN /\ Sound(given, index)
              /\ UsedOf(given, index) = UsedOf(pool, index) \ {p}
              /\ given.arrays = pool.arrays
<1> DEFINE fl == pool.free_list
           n  == Len(fl)
           more == Append(fl, p)
           given == [pool EXCEPT !.free_list = more]
<1>1. pool \in Pool /\ fl \in Seq(Block) /\ n \in Nat
  BY DEF Sound, Pool
<1>2. /\ more \in Seq(Block) /\ Len(more) = n + 1 /\ more[n + 1] = p
      /\ \A i \in 1 .. n : more[i] = fl[i]
  BY <1>1
<1>3. /\ given \in Pool /\ given.free_list = more /\ given.arrays = pool.arrays
      /\ given.block_info = pool.block_info
  BY <1>1, <1>2 DEF Pool
<1>4. \A i \in 1 .. n : fl[i] # p
  BY DEF UsedOf, FreeOf
<1> HIDE DEF more, given
<1>5. Distinct(more)
  <2> SUFFICES ASSUME NEW i \in 1 .. n + 1, NEW j \in 1 .. n + 1, i # j
               PROVE  more[i] # more[j]
    BY <1>2 DEF Distinct
  <2>1. CASE i \in 1 .. n /\ j \in 1 .. n
    BY <1>2, <2>1 DEF Sound, Distinct
  <2>2. CASE i = n + 1 /\ j \in 1 .. n
    BY <1>2, <1>4, <2>2
  <2>3. CASE j = n + 1 /\ i \in 1 .. n
    BY <1>2, <1>4, <2>3
  <2> QED BY <1>1, <2>1, <2>2, <2>3
<1>6. FreeOf(given) = FreeOf(pool) \cup {p}
  <2>1. FreeOf(given) = {more[i] : i \in 1 .. n + 1}
    BY <1>1, <1>2, <1>3 DEF FreeOf
  <2>2. \A i \in 1 .. n + 1 : i # n + 1 => i \in 1 .. n
    BY <1>1
  <2>3. n + 1 \in 1 .. n + 1 /\ \A i \in 1 .. n : i \in 1 .. n + 1
    BY <1>1
  <2>4. FreeOf(pool) = {fl[i] : i \in 1 .. n}
    BY DEF FreeOf
  <2> HIDE DEF n, fl
  <2> QED BY <1>2, <2>1, <2>2, <2>3, <2>4
<1>7. BlocksOf(given, index) = BlocksOf(pool, index)
  BY <1>3 DEF BlocksOf
<1>8. p \in BlocksOf(pool, index) /\ FreeOf(pool) \subseteq BlocksOf(pool, index)
  BY DEF Sound, UsedOf
<1> QED BY <1>3, <1>5, <1>6, <1>7, <1>8 DEF Sound, UsedOf, given, more

-----------------------------------------------------------------------------
(* The pools. *)

PoolsSound == pools_ \in Seq(Pool) /\ \A k \in PoolRange : Sound(pools_[k], k - 1)

(* What a pool has in use and how many arrays it has; a pool there is not yet*)
(* has none.                                                                 *)
Used(k)   == IF k \in PoolRange THEN UsedOf(pools_[k], k - 1) ELSE {}
Arrays(k) == IF k \in PoolRange THEN pools_[k].arrays ELSE 0

(* A pool as resize() makes it and Init fills it in. *)
LEMMA NewPoolSound ==
    ASSUME NEW index \in Nat, NEW pool,
           pool = [NewPool EXCEPT !.block_info = IndexToBlockInfo(index)]
    PROVE  Sound(pool, index) /\ UsedOf(pool, index) = {} /\ pool.arrays = 0
<1>1. /\ pool.arrays = 0 /\ pool.free_list = << >>
      /\ pool.block_info = IndexToBlockInfo(index)
      /\ pool = [arrays |-> 0, free_list |-> << >>, block_info |-> IndexToBlockInfo(index)]
  BY DEF NewPool
<1>2. pool \in Pool
  <2>1. IndexToBlockInfo(index) \in {IndexToBlockInfo(i) : i \in Nat}
    OBVIOUS
  <2>2. << >> \in Seq(Block)
    OBVIOUS
  <2> DEFINE info == IndexToBlockInfo(index)
  <2>3. info \in BlockInfo
    BY <2>1 DEF BlockInfo
  <2> HIDE DEF info
  <2>4. [arrays |-> 0, free_list |-> << >>, block_info |-> info] \in Pool
    BY <2>2, <2>3 DEF Pool
  <2> QED BY <1>1, <2>4 DEF info
<1>3. FreeOf(pool) = {} /\ Distinct(pool.free_list)
  BY <1>1 DEF FreeOf, Distinct
<1>4. BlocksOf(pool, index) = {}
  BY <1>1 DEF BlocksOf
<1> QED BY <1>1, <1>2, <1>3, <1>4 DEF Sound, UsedOf

(* LazyInitializeToPoolIndex adds pools and leaves those there are alone. *)
LEMMA InitializedSound ==
    ASSUME PoolsSound, NEW index \in Nat, NEW P, P = Initialized(index)
    PROVE  /\ P \in Seq(Pool) /\ Len(P) >= Len(pools_) /\ index + 1 \in 1 .. Len(P)
           /\ \A k \in 1 .. Len(P) : /\ Sound(P[k], k - 1)
                                     /\ UsedOf(P[k], k - 1) = Used(k)
                                     /\ P[k].arrays = Arrays(k)
           /\ \A k \in PoolRange : P[k] = pools_[k]
<1>1. pools_ \in Seq(Pool) /\ Len(pools_) \in Nat
  BY DEF PoolsSound
<1>2. CASE index < Len(pools_)
  <2>1. P = pools_
    BY <1>1, <1>2 DEF Initialized
  <2> QED BY <1>1, <1>2, <2>1 DEF PoolsSound, PoolRange, Used, Arrays
<1>3. CASE index >= Len(pools_)
  <2>1. P = LazyInitializeToPoolIndex(pools_, index)
    BY <1>3 DEF Initialized
  <2>2. ASSUME NEW k \in 1 .. index + 1
        PROVE  /\ Sound(P[k], k - 1) /\ UsedOf(P[k], k - 1) = Used(k)
               /\ P[k].arrays = Arrays(k)
               /\ k \in PoolRange => P[k] = pools_[k]
    <3> DEFINE pool == IF k <= Len(pools_) THEN pools_[k] ELSE NewPool
    <3>1. P[k] = IF pool.block_info.block_bytes = 0
                 THEN [pool EXCEPT !.block_info = IndexToBlockInfo(k - 1)] ELSE pool
      BY <2>1 DEF LazyInitializeToPoolIndex
    <3>2. CASE k \in PoolRange
      <4>1. pool = pools_[k] /\ Sound(pool, k - 1)
        BY <1>1, <3>2 DEF PoolsSound, PoolRange
      <4> HIDE DEF pool
      <4>2. [pool EXCEPT !.block_info = IndexToBlockInfo(k - 1)] = pool
        BY <4>1 DEF Sound, Pool
      <4> QED BY <3>1, <3>2, <4>1, <4>2 DEF Used, Arrays
    <3>3. CASE k \notin PoolRange
      <4>1. pool = NewPool
        BY <1>1, <3>3 DEF PoolRange
      <4>2. P[k] = [NewPool EXCEPT !.block_info = IndexToBlockInfo(k - 1)]
        BY <3>1, <4>1 DEF NewPool
      <4>3. k - 1 \in Nat
        OBVIOUS
      <4> QED BY <3>3, <4>2, <4>3, NewPoolSound DEF Used, Arrays
    <3> QED BY <3>2, <3>3
  <2>3. \A k \in 1 .. index + 1 : P[k] \in Pool
    BY <2>2 DEF Sound
  <2>4. P \in Seq(Pool) /\ Len(P) = index + 1
    <3>1. P = [k \in 1 .. index + 1 |-> P[k]]
      BY <2>1 DEF LazyInitializeToPoolIndex
    <3>2. P \in [1 .. index + 1 -> Pool]
      BY <2>3, <3>1
    <3>3. index + 1 \in Nat
      OBVIOUS
    <3> QED BY <3>2, <3>3
  <2>5. \A k \in PoolRange : k \in 1 .. index + 1
    BY <1>1, <1>3 DEF PoolRange
  <2> QED BY <1>1, <1>3, <2>2, <2>4, <2>5
<1> QED BY <1>1, <1>2, <1>3

(* Malloc puts one block in use that was not, and leaves the pools sound.    *)
LEMMA MallocSound ==
    ASSUME PoolsSound, NEW index \in Nat, NEW P, P = AfterMalloc(index),
           IndexToBlockInfo(index).num_blocks \in Nat \ {0}
    PROVE  /\ P \in Seq(Pool) /\ Len(P) >= Len(pools_) /\ index + 1 \in 1 .. Len(P)
           /\ \A k \in 1 .. Len(P) :
                 /\ Sound(P[k], k - 1)
                 /\ UsedOf(P[k], k - 1) =
                       Used(k) \cup (IF k = index + 1 THEN {Malloced(index)} ELSE {})
           /\ Malloced(index) \in BlocksOf(P[index + 1], index)
           /\ Malloced(index) \notin Used(index + 1)
           /\ \A k \in 1 .. Len(P) : k # index + 1 => P[k].arrays = Arrays(k)
           /\ \/ P[index + 1].arrays = Arrays(index + 1)
              \/ /\ P[index + 1].arrays = Arrays(index + 1) + 1
                 /\ IsFiniteSet(Used(index + 1))
                 /\ Cardinality(Used(index + 1)) =
                       Arrays(index + 1) * IndexToBlockInfo(index).num_blocks
<1> DEFINE I == Initialized(index)
           src == Source(index)
           p == Malloced(index)
           popped == PopBack(src)
<1>1. /\ I \in Seq(Pool) /\ Len(I) >= Len(pools_) /\ index + 1 \in 1 .. Len(I)
      /\ \A k \in 1 .. Len(I) : /\ Sound(I[k], k - 1) /\ UsedOf(I[k], k - 1) = Used(k)
                                /\ I[k].arrays = Arrays(k)
  BY InitializedSound
<1>2. /\ Sound(I[index + 1], index) /\ UsedOf(I[index + 1], index) = Used(index + 1)
      /\ I[index + 1].arrays = Arrays(index + 1)
  <2>1. (index + 1) - 1 = index
    OBVIOUS
  <2> QED BY <1>1, <2>1
<1>3. src = Stocked(I[index + 1], index) /\ p = src.free_list[Len(src.free_list)]
  BY DEF Source, Malloced
<1>4. P = [I EXCEPT ![index + 1] = popped]
  BY DEF AfterMalloc
<1> HIDE DEF I, src, p, popped
<1>5. /\ Sound(src, index) /\ src.free_list # << >>
      /\ UsedOf(src, index) = Used(index + 1)
      /\ \/ src.arrays = Arrays(index + 1)
         \/ /\ src.arrays = Arrays(index + 1) + 1
            /\ Used(index + 1) = BlocksOf(I[index + 1], index)
  BY <1>2, <1>3, StockedSound
<1>6. /\ Sound(popped, index)
      /\ p \in BlocksOf(src, index) \ Used(index + 1)
      /\ UsedOf(popped, index) = Used(index + 1) \cup {p}
      /\ popped.arrays = src.arrays
  BY <1>3, <1>5, PopBackSound DEF popped
<1>7. p \in BlocksOf(popped, index)
  BY <1>6 DEF UsedOf
<1>8. P \in Seq(Pool) /\ Len(P) = Len(I)
  BY <1>1, <1>4, <1>6 DEF Sound
<1>9. P[index + 1] = popped /\ \A k \in 1 .. Len(I) : k # index + 1 => P[k] = I[k]
  BY <1>1, <1>4
<1>10. ASSUME NEW k \in 1 .. Len(P)
       PROVE  /\ Sound(P[k], k - 1)
              /\ UsedOf(P[k], k - 1) = Used(k) \cup (IF k = index + 1 THEN {p} ELSE {})
  <2>1. CASE k = index + 1
    <3>1. k - 1 = index
      BY <2>1
    <3> QED BY <1>6, <1>9, <2>1, <3>1
  <2>2. CASE k # index + 1
    BY <1>1, <1>8, <1>9, <2>2
  <2> QED BY <2>1, <2>2
<1>11. \A k \in 1 .. Len(P) : k # index + 1 => P[k].arrays = Arrays(k)
  BY <1>1, <1>8, <1>9
<1>12. /\ IsFiniteSet(BlocksOf(I[index + 1], index))
       /\ Cardinality(BlocksOf(I[index + 1], index)) =
             Arrays(index + 1) * IndexToBlockInfo(index).num_blocks
  <2>1. /\ I[index + 1].arrays \in Nat
        /\ I[index + 1].block_info = IndexToBlockInfo(index)
    BY <1>2 DEF Sound, Pool
  <2> QED BY <1>2, <2>1, BlocksCounted
<1>13. \/ P[index + 1].arrays = Arrays(index + 1)
       \/ /\ P[index + 1].arrays = Arrays(index + 1) + 1
          /\ IsFiniteSet(Used(index + 1))
          /\ Cardinality(Used(index + 1)) =
                Arrays(index + 1) * IndexToBlockInfo(index).num_blocks
  BY <1>5, <1>6, <1>9, <1>12
<1> QED BY <1>1, <1>6, <1>7, <1>8, <1>9, <1>10, <1>11, <1>13 DEF p

(* Free takes a block that is in use out of use. *)
LEMMA FreeSound ==
    ASSUME PoolsSound, NEW index \in Nat, index + 1 \in PoolRange,
           NEW p \in UsedOf(pools_[index + 1], index), p \in Block,
           NEW P, P = AfterFree(p, index)
    PROVE  /\ P \in Seq(Pool) /\ Len(P) = Len(pools_)
           /\ \A k \in 1 .. Len(P) :
                 /\ Sound(P[k], k - 1)
                 /\ UsedOf(P[k], k - 1) =
                       Used(k) \ (IF k = index + 1 THEN {p} ELSE {})
                 /\ P[k].arrays = pools_[k].arrays
<1> DEFINE pool == pools_[index + 1]
           given == [pool EXCEPT !.free_list = Append(@, p)]
<1>1. pools_ \in Seq(Pool) /\ \A k \in PoolRange : Sound(pools_[k], k - 1)
  BY DEF PoolsSound
<1>2. (index + 1) - 1 = index
  OBVIOUS
<1>3. Sound(pool, index)
  BY <1>1, <1>2
<1>4. P = [pools_ EXCEPT ![index + 1] = given]
  BY DEF AfterFree
<1> HIDE DEF pool
<1>5. /\ Sound(given, index) /\ UsedOf(given, index) = UsedOf(pool, index) \ {p}
      /\ given.arrays = pool.arrays
  BY <1>3, GivenBackSound DEF pool
<1> HIDE DEF given
<1>6. P \in Seq(Pool) /\ Len(P) = Len(pools_)
  BY <1>1, <1>4, <1>5 DEF Sound, PoolRange
<1>7. P[index + 1] = given /\ \A k \in PoolRange : k # index + 1 => P[k] = pools_[k]
  BY <1>1, <1>4 DEF PoolRange
<1>8. ASSUME NEW k \in 1 .. Len(P)
      PROVE  /\ Sound(P[k], k - 1)
             /\ UsedOf(P[k], k - 1) = Used(k) \ (IF k = index + 1 THEN {p} ELSE {})
             /\ P[k].arrays = pools_[k].arrays
  <2>1. k \in PoolRange
    BY <1>6 DEF PoolRange
  <2>2. CASE k = index + 1
    <3>1. Used(k) = UsedOf(pool, index)
      BY <1>2, <2>1, <2>2 DEF Used, pool
    <3> QED BY <1>2, <1>5, <1>7, <2>2, <3>1 DEF pool
  <2>3. CASE k # index + 1
    BY <1>1, <1>7, <2>1, <2>3 DEF Used
  <2> QED BY <2>2, <2>3
<1> QED BY <1>6, <1>8

-----------------------------------------------------------------------------
(* The inductive invariant. *)

(* Every variable has a block of its kind. *)
StorageSound ==
    /\ storage_ = [s \in Slots |-> storage_[s]]
    /\ \A s \in PoolSlots : Alive(s) => /\ PoolOf[s] + 1 \in PoolRange
                                        /\ storage_[s] \in Blocks(PoolOf[s] + 1)
    /\ \A s \in HeapSlots : storage_[s] \in HeapBlock \cup {Absent, Nullptr}

ContentSound ==
    /\ content \in [Owned -> Value]
    /\ throws \in 0 .. MaxThrows

(* What the pools believe is in use is what the variables hold or lost, and  *)
(* a block that was lost is one of a pool.                                   *)
UseSound ==
    /\ Owned \cap lost = {}
    /\ \A p \in lost : \E k \in PoolRange : p \in Blocks(k)
    /\ \A k \in PoolRange : UsedOf(pools_[k], k - 1) = InUse(k - 1)

PointerInv == PoolsSound /\ StorageSound /\ OneOwner /\ ContentSound /\ UseSound

-----------------------------------------------------------------------------
(* Blocks of the pools and of the heap. *)

LEMMA PoolBlock ==
    ASSUME NEW k \in Nat, NEW p \in Blocks(k), PoolsSound, k \in PoolRange
    PROVE  /\ p[1] = k - 1 /\ p[1] # kHeap /\ p \in Block
           /\ p # Absent /\ p # Nullptr /\ p \notin HeapBlock
           /\ p \in BlocksOf(pools_[k], k - 1)
<1>1. PICK a \in 0 .. pools_[k].arrays - 1, i \in 0 .. pools_[k].block_info.num_blocks - 1 :
          p = <<k - 1, a, i>>
  BY DEF Blocks
<1>2. p \in BlocksOf(pools_[k], k - 1)
  BY <1>1 DEF BlocksOf
<1>3. k - 1 \in Nat
  BY DEF PoolRange
<1>4. /\ p[1] = k - 1 /\ p[1] # kHeap /\ p \in Block
  BY <1>1, <1>3 DEF kHeap, Block
<1>5. p # Absent /\ p # Nullptr
  BY <1>1 DEF Absent, Nullptr
<1>6. p \notin HeapBlock
  BY <1>4 DEF HeapBlock
<1> QED BY <1>2, <1>4, <1>5, <1>6

(* Where the blocks in use are. *)
LEMMA InUseIs ==
    ASSUME PointerInv, NEW p \in Owned \cup lost
    PROVE  \/ p \in HeapBlock /\ p[1] = kHeap /\ p \notin lost
           \/ \E k \in PoolRange : p \in Blocks(k) /\ p[1] = k - 1
<1>1. PoolRange \subseteq Nat
  BY DEF PoolRange
<1>2. CASE p \in lost
  <2>1. PICK k \in PoolRange : p \in Blocks(k)
    BY <1>2 DEF PointerInv, UseSound
  <2> QED BY <1>1, <2>1, PoolBlock DEF PointerInv
<1>3. CASE p \in Owned /\ p \notin lost
  <2>1. PICK s \in Slots : p = storage_[s] /\ p # Absent /\ p # Nullptr
    BY <1>3 DEF Owned
  <2>2. CASE s \in PoolSlots
    <3>1. PoolOf[s] + 1 \in PoolRange /\ p \in Blocks(PoolOf[s] + 1)
      BY <2>1, <2>2 DEF PointerInv, StorageSound, Alive
    <3> QED BY <1>1, <3>1, PoolBlock DEF PointerInv
  <2>3. CASE s \in HeapSlots
    <3>1. p \in HeapBlock
      BY <2>1, <2>3 DEF PointerInv, StorageSound
    <3> QED BY <1>3, <3>1 DEF HeapBlock
  <2> QED BY <2>1, <2>2, <2>3 DEF Slots
<1> QED BY <1>2, <1>3

(* What is in use of a pool. *)
LEMMA UsedIsInUse ==
    ASSUME PointerInv, NEW k \in Nat \ {0}
    PROVE  Used(k) = InUse(k - 1)
<1>1. CASE k \in PoolRange
  BY <1>1 DEF PointerInv, UseSound, Used
<1>2. CASE k \notin PoolRange
  <2>1. ASSUME NEW p \in Owned \cup lost, p[1] = k - 1 PROVE FALSE
    <3>1. CASE p[1] = kHeap
      BY <2>1, <3>1 DEF kHeap
    <3>2. CASE \E m \in PoolRange : p[1] = m - 1
      BY <1>2, <2>1, <3>2 DEF PoolRange
    <3> QED BY <3>1, <3>2, InUseIs
  <2> QED BY <1>2, <2>1 DEF Used, InUse
<1> QED BY <1>1, <1>2

(* Malloc gives a block that nobody has.                                     *)
LEMMA FreshBlock ==
    ASSUME PointerInv, NEW s \in PoolSlots
    PROVE  /\ Malloced(PoolOf[s]) \notin Owned \cup lost
           /\ Malloced(PoolOf[s]) \notin {Absent, Nullptr}
<1> DEFINE i == PoolOf[s]
           p == Malloced(i)
<1>1. i \in Nat /\ IndexToBlockInfo(i).num_blocks \in Nat \ {0} /\ PoolsSound
  BY PointerLikeAssumption DEF PointerInv
<1>2. p \notin Used(i + 1) /\ \E pool : p \in BlocksOf(pool, i)
  BY <1>1, MallocSound
<1> HIDE DEF i, p
<1>3. PICK a, m : p = <<i, a, m>>
  BY <1>2 DEF BlocksOf
<1>4. p[1] = i /\ p # Absent /\ p # Nullptr
  BY <1>3 DEF Absent, Nullptr
<1>5. Used(i + 1) = InUse(i)
  <2>1. i + 1 \in Nat \ {0} /\ (i + 1) - 1 = i
    BY <1>1
  <2> QED BY <2>1, UsedIsInUse
<1> QED BY <1>2, <1>4, <1>5 DEF InUse, i, p

(* Malloc gives a block that nobody has, and the invariant about the pools   *)
(* holds when it is counted as in use.                                       *)
LEMMA Malloc ==
    ASSUME PointerInv, NEW s \in PoolSlots, NEW p, p = Malloced(PoolOf[s]),
           pools_' = AfterMalloc(PoolOf[s]),
           (Owned \cup lost)' = (Owned \cup lost) \cup {p}
    PROVE  /\ PoolsSound' /\ p \notin Owned \cup lost
           /\ PoolRange \subseteq PoolRange' /\ PoolOf[s] + 1 \in PoolRange'
           /\ p \in Blocks(PoolOf[s] + 1)'
           /\ \A k \in PoolRange, q \in Owned \cup lost : q \in Blocks(k) => q \in Blocks(k)'
           /\ \A k \in PoolRange' : UsedOf(pools_'[k], k - 1) = InUse(k - 1)'
           /\ p # Absent /\ p # Nullptr /\ p \notin HeapBlock
<1> DEFINE i == PoolOf[s]
<1>1. i \in Nat /\ IndexToBlockInfo(i).num_blocks \in Nat \ {0} /\ PoolsSound
  BY PointerLikeAssumption DEF PointerInv
<1>2. /\ pools_' \in Seq(Pool) /\ Len(pools_') >= Len(pools_) /\ i + 1 \in 1 .. Len(pools_')
      /\ \A k \in 1 .. Len(pools_') :
            /\ Sound(pools_'[k], k - 1)
            /\ UsedOf(pools_'[k], k - 1) = Used(k) \cup (IF k = i + 1 THEN {p} ELSE {})
      /\ p \in BlocksOf(pools_'[i + 1], i)
      /\ p \notin Used(i + 1)
  BY <1>1, MallocSound
<1>3. PoolRange' = 1 .. Len(pools_') /\ PoolRange = 1 .. Len(pools_)
  BY DEF PoolRange
<1>4. PoolsSound' /\ PoolRange \subseteq PoolRange' /\ i + 1 \in PoolRange'
  <2>1. Len(pools_) \in Nat /\ Len(pools_') \in Nat
    BY <1>1, <1>2 DEF PoolsSound
  <2> QED BY <1>2, <1>3, <2>1 DEF PoolsSound
<1>5. \A k \in Nat : Blocks(k)' = BlocksOf(pools_'[k], k - 1)
  BY DEF Blocks, BlocksOf
<1>6. (i + 1) - 1 = i /\ i + 1 \in Nat \ {0}
  BY <1>1
<1>7. p \in Blocks(i + 1)' /\ p[1] = i
  <2>1. p \in Blocks(i + 1)'
    BY <1>2, <1>5, <1>6
  <2>2. p[1] = i
    BY <1>2 DEF BlocksOf
  <2> QED BY <2>1, <2>2
<1> HIDE DEF i
<1>8. Used(i + 1) = InUse(i)
  BY <1>6, UsedIsInUse
<1>9. p \notin Owned \cup lost
  BY <1>2, <1>7, <1>8 DEF InUse
<1>10. \A j \in Nat : InUse(j)' = InUse(j) \cup (IF j = i THEN {p} ELSE {})
  BY <1>1, <1>7 DEF InUse
<1>11. ASSUME NEW k \in PoolRange'
       PROVE  UsedOf(pools_'[k], k - 1) = InUse(k - 1)'
  <2>1. k \in Nat \ {0} /\ k - 1 \in Nat /\ (k = i + 1 <=> k - 1 = i)
    BY <1>1, <1>3
  <2>2. Used(k) = InUse(k - 1)
    BY <2>1, UsedIsInUse
  <2> QED BY <1>2, <1>3, <1>10, <2>1, <2>2
<1>12. ASSUME NEW k \in PoolRange, NEW q \in Owned \cup lost, q \in Blocks(k)
       PROVE  q \in Blocks(k)'
  <2>1. k \in Nat \ {0} /\ k \in PoolRange' /\ k - 1 \in Nat
    BY <1>3, <1>4
  <2>2. q[1] = k - 1
    BY <1>1, <1>12, <2>1, PoolBlock
  <2>3. q \in InUse(k - 1)'
    BY <1>10, <2>1, <2>2 DEF InUse
  <2>4. q \in UsedOf(pools_'[k], k - 1)
    BY <1>11, <2>1, <2>3
  <2> QED BY <1>5, <2>1, <2>4 DEF UsedOf
<1>13. p # Absent /\ p # Nullptr /\ p \notin HeapBlock
  <2>1. PICK a, m : p = <<i, a, m>>
    BY <1>2 DEF BlocksOf
  <2>2. p # Absent /\ p # Nullptr
    BY <2>1 DEF Absent, Nullptr
  <2>3. p \notin HeapBlock
    BY <1>1, <1>7 DEF HeapBlock, kHeap
  <2> QED BY <2>2, <2>3
<1> QED BY <1>4, <1>7, <1>9, <1>11, <1>12, <1>13 DEF i

(* Free takes a block of a variable back.                                    *)
LEMMA FreeBlock ==
    ASSUME PointerInv, NEW s \in PoolSlots, Alive(s), NEW p, p = storage_[s],
           pools_' = AfterFree(p, PoolOf[s]),
           (Owned \cup lost)' = (Owned \cup lost) \ {p}
    PROVE  /\ PoolsSound' /\ PoolRange' = PoolRange
           /\ \A k \in PoolRange, q \in Owned \cup lost :
                 q \in Blocks(k) /\ q # p => q \in Blocks(k)'
           /\ \A k \in PoolRange' : UsedOf(pools_'[k], k - 1) = InUse(k - 1)'
<1> DEFINE i == PoolOf[s]
<1>1. i \in Nat /\ PoolsSound /\ (i + 1) - 1 = i /\ i + 1 \in Nat \ {0}
  BY PointerLikeAssumption DEF PointerInv
<1>2. i + 1 \in PoolRange /\ p \in Blocks(i + 1)
  BY DEF PointerInv, StorageSound
<1>3. p[1] = i /\ p \in Block /\ p # Absent /\ p # Nullptr
  BY <1>1, <1>2, PoolBlock
<1>4. p \in Owned
  BY <1>3 DEF Owned, Slots
<1>5. p \in UsedOf(pools_[i + 1], i)
  <2>1. p \in InUse(i)
    BY <1>3, <1>4 DEF InUse
  <2> QED BY <1>1, <1>2, <2>1 DEF PointerInv, UseSound
<1>6. /\ pools_' \in Seq(Pool) /\ Len(pools_') = Len(pools_)
      /\ \A k \in 1 .. Len(pools_') :
            /\ Sound(pools_'[k], k - 1)
            /\ UsedOf(pools_'[k], k - 1) = Used(k) \ (IF k = i + 1 THEN {p} ELSE {})
  BY <1>1, <1>2, <1>3, <1>5, FreeSound
<1>7. PoolRange' = 1 .. Len(pools_') /\ PoolRange = 1 .. Len(pools_)
  BY DEF PoolRange
<1>8. PoolsSound' /\ PoolRange' = PoolRange
  BY <1>6, <1>7 DEF PoolsSound
<1>9. \A k \in Nat : Blocks(k)' = BlocksOf(pools_'[k], k - 1)
  BY DEF Blocks, BlocksOf
<1> HIDE DEF i
<1>10. \A j \in Nat : InUse(j)' = InUse(j) \ (IF j = i THEN {p} ELSE {})
  BY <1>1, <1>3 DEF InUse
<1>11. ASSUME NEW k \in PoolRange'
       PROVE  UsedOf(pools_'[k], k - 1) = InUse(k - 1)'
  <2>1. k \in Nat \ {0} /\ k - 1 \in Nat /\ (k = i + 1 <=> k - 1 = i)
    BY <1>1, <1>7
  <2>2. Used(k) = InUse(k - 1)
    BY <2>1, UsedIsInUse
  <2> QED BY <1>6, <1>7, <1>10, <2>1, <2>2
<1>12. ASSUME NEW k \in PoolRange, NEW q \in Owned \cup lost, q \in Blocks(k), q # p
       PROVE  q \in Blocks(k)'
  <2>1. k \in Nat \ {0} /\ k \in PoolRange' /\ k - 1 \in Nat
    BY <1>7, <1>8
  <2>2. q[1] = k - 1
    BY <1>1, <1>12, <2>1, PoolBlock
  <2>3. q \in InUse(k - 1)'
    BY <1>10, <1>12, <2>1, <2>2 DEF InUse
  <2>4. q \in UsedOf(pools_'[k], k - 1)
    BY <1>11, <2>1, <2>3
  <2> QED BY <1>9, <2>1, <2>4 DEF UsedOf
<1> QED BY <1>8, <1>11, <1>12 DEF i

-----------------------------------------------------------------------------
(* The steps. *)

(* Nobody else has the block of a variable. *)
LEMMA OnlyOwner ==
    ASSUME PointerInv, NEW s \in Slots, storage_[s] \notin {Absent, Nullptr}
    PROVE  /\ storage_[s] \in Owned /\ storage_[s] \notin lost
           /\ \A t \in Slots : t # s => storage_[t] # storage_[s]
BY DEF PointerInv, OneOwner, Owned, UseSound

(* When a variable gets a new block, or none, the blocks owned change by its *)
(* own only.                                                                 *)
LEMMA OwnedAfter ==
    ASSUME PointerInv, NEW s \in Slots, NEW x,
           storage_' = [storage_ EXCEPT ![s] = x], x \notin Owned
    PROVE  /\ Owned' = (Owned \ {storage_[s]}) \cup ({x} \ {Absent, Nullptr})
           /\ OneOwner'
<1>1. storage_'[s] = x /\ \A t \in Slots : t # s => storage_'[t] = storage_[t]
  BY DEF PointerInv, StorageSound
<1>2. \A t \in Slots : storage_[t] \notin {Absent, Nullptr} => storage_[t] # x
  BY DEF Owned
<1>3. \A t \in Slots : t # s /\ storage_[t] \notin {Absent, Nullptr} => storage_[t] # storage_[s]
  BY DEF PointerInv, OneOwner
<1>4. OneOwner'
  BY <1>1, <1>2 DEF PointerInv, OneOwner
<1>5. Owned' = {storage_'[t] : t \in Slots} \ {Absent, Nullptr}
  BY DEF Owned
<1>6. Owned = {storage_[t] : t \in Slots} \ {Absent, Nullptr}
  BY DEF Owned
<1> QED BY <1>1, <1>3, <1>4, <1>5, <1>6

(* The pools' own part of the invariant, when the pools and what is in use   *)
(* of them stay.                                                             *)
LEMMA PoolsUntouched ==
    ASSUME PointerInv, pools_' = pools_, lost' = lost,
           \A p : p \in Owned' /\ p \notin HeapBlock <=> p \in Owned /\ p \notin HeapBlock
    PROVE  /\ PoolsSound' /\ PoolRange' = PoolRange
           /\ \A k \in PoolRange : Blocks(k)' = Blocks(k)
           /\ \A k \in PoolRange' : UsedOf(pools_'[k], k - 1) = InUse(k - 1)'
<1>1. PoolsSound' /\ PoolRange' = PoolRange
  BY DEF PointerInv, PoolsSound, PoolRange
<1>2. \A k \in PoolRange : Blocks(k)' = Blocks(k)
  BY DEF Blocks
<1>3. ASSUME NEW k \in PoolRange PROVE InUse(k - 1)' = InUse(k - 1)
  <2>1. k - 1 # kHeap
    BY <1>3 DEF PoolRange, kHeap
  <2>2. \A p \in HeapBlock : p[1] = kHeap
    BY DEF HeapBlock
  <2> QED BY <2>1, <2>2 DEF InUse
<1>4. \A k \in PoolRange : UsedOf(pools_[k], k - 1) = InUse(k - 1)
  BY DEF PointerInv, UseSound
<1> QED BY <1>1, <1>2, <1>3, <1>4

LEMMA PoolsFixed ==
    ASSUME PointerInv, UNCHANGED <<pools_, lost>>, Owned' = Owned
    PROVE  /\ PoolsSound' /\ PoolRange' = PoolRange
           /\ \A k \in PoolRange : Blocks(k)' = Blocks(k)
           /\ \A k \in PoolRange' : UsedOf(pools_'[k], k - 1) = InUse(k - 1)'
BY PoolsUntouched

(* The variables have blocks of their kind after one of them has changed.    *)
LEMMA StorageAfter ==
    ASSUME PointerInv, NEW s \in Slots, NEW x, storage_' = [storage_ EXCEPT ![s] = x],
           PoolRange \subseteq PoolRange',
           \A k \in PoolRange, q \in Owned \cup lost :
              q \in Blocks(k) /\ q # storage_[s] => q \in Blocks(k)',
           s \in PoolSlots /\ x # Absent => /\ PoolOf[s] + 1 \in PoolRange'
                                            /\ x \in Blocks(PoolOf[s] + 1)',
           s \in HeapSlots => x \in HeapBlock \cup {Absent, Nullptr}
    PROVE  StorageSound'
<1>1. storage_'[s] = x /\ \A t \in Slots : t # s => storage_'[t] = storage_[t]
  BY DEF PointerInv, StorageSound
<1>2. storage_' = [t \in Slots |-> storage_'[t]]
  BY DEF PointerInv, StorageSound
<1>3. ASSUME NEW t \in PoolSlots, storage_'[t] # Absent
      PROVE  /\ PoolOf[t] + 1 \in PoolRange'
             /\ storage_'[t] \in Blocks(PoolOf[t] + 1)'
  <2>1. CASE t = s
    BY <1>1, <1>3, <2>1
  <2>2. CASE t # s
    <3>1. t \in Slots /\ storage_'[t] = storage_[t]
      BY <1>1, <2>2 DEF Slots
    <3>2. PoolOf[t] + 1 \in PoolRange /\ storage_[t] \in Blocks(PoolOf[t] + 1)
      BY <1>3, <3>1 DEF PointerInv, StorageSound, Alive
    <3>3. storage_[t] \notin {Absent, Nullptr}
      BY <3>2, PoolBlock DEF PointerInv, PoolRange
    <3>4. storage_[t] \in Owned /\ storage_[t] # storage_[s]
      BY <2>2, <3>1, <3>3, OnlyOwner
    <3> QED BY <3>1, <3>2, <3>4
  <2> QED BY <2>1, <2>2
<1>4. \A t \in HeapSlots : storage_'[t] \in HeapBlock \cup {Absent, Nullptr}
  BY <1>1 DEF PointerInv, StorageSound, Slots
<1> QED BY <1>2, <1>3, <1>4 DEF StorageSound, Alive

(* A new pooled object. *)
LEMMA ConstructPoolKeeps ==
    ASSUME PointerInv, NEW s \in Slots, ConstructPool(s) PROVE PointerInv'
<1> DEFINE p == Malloced(PoolOf[s])
<1>1. /\ s \in PoolSlots /\ storage_[s] = Absent
      /\ pools_' = AfterMalloc(PoolOf[s])
      /\ storage_' = [storage_ EXCEPT ![s] = p]
      /\ UNCHANGED <<lost, throws>>
  BY DEF ConstructPool, Alive
<1>2. PICK v \in Value : content' = With(p, v)
  BY DEF ConstructPool
<1> HIDE DEF p
<1>3. p \notin Owned
  BY FreshBlock, <1>1 DEF p
<1>4. p # Absent /\ p # Nullptr
  BY FreshBlock, <1>1 DEF p
<1>5. Owned' = Owned \cup {p} /\ OneOwner'
  <2>1. Absent \notin Owned
    BY DEF Owned
  <2> QED BY <1>1, <1>3, <1>4, <2>1, OwnedAfter
<1>6. (Owned \cup lost)' = (Owned \cup lost) \cup {p}
  BY <1>1, <1>5
<1>7. /\ PoolsSound' /\ p \notin Owned \cup lost
      /\ PoolRange \subseteq PoolRange' /\ PoolOf[s] + 1 \in PoolRange'
      /\ p \in Blocks(PoolOf[s] + 1)'
      /\ \A k \in PoolRange, q \in Owned \cup lost : q \in Blocks(k) => q \in Blocks(k)'
      /\ \A k \in PoolRange' : UsedOf(pools_'[k], k - 1) = InUse(k - 1)'
  BY <1>1, <1>6, Malloc DEF p
<1>8. StorageSound'
  <2>1. s \notin HeapSlots
    BY <1>1, PointerLikeAssumption
  <2> QED BY <1>1, <1>7, <2>1, StorageAfter
<1>9. ContentSound'
  BY <1>1, <1>2, <1>5 DEF PointerInv, ContentSound, With
<1>10. UseSound'
  BY <1>1, <1>5, <1>7 DEF PointerInv, UseSound
<1> QED BY <1>5, <1>7, <1>8, <1>9, <1>10 DEF PointerInv

(* A pooled object whose constructor throws. *)
LEMMA ConstructPoolThrowsKeeps ==
    ASSUME PointerInv, NEW s \in Slots, ConstructPoolThrows(s) PROVE PointerInv'
<1> DEFINE p == Malloced(PoolOf[s])
<1>1. /\ s \in PoolSlots /\ throws < MaxThrows /\ throws' = throws + 1
      /\ pools_' = AfterMalloc(PoolOf[s])
      /\ lost' = lost \cup {p}
      /\ UNCHANGED <<storage_, content>>
  BY DEF ConstructPoolThrows
<1> HIDE DEF p
<1>2. Owned' = Owned /\ OneOwner'
  BY <1>1 DEF Owned, PointerInv, OneOwner
<1>3. (Owned \cup lost)' = (Owned \cup lost) \cup {p}
  BY <1>1, <1>2
<1>4. /\ PoolsSound' /\ p \notin Owned \cup lost
      /\ PoolRange \subseteq PoolRange' /\ PoolOf[s] + 1 \in PoolRange'
      /\ p \in Blocks(PoolOf[s] + 1)'
      /\ \A k \in PoolRange, q \in Owned \cup lost : q \in Blocks(k) => q \in Blocks(k)'
      /\ \A k \in PoolRange' : UsedOf(pools_'[k], k - 1) = InUse(k - 1)'
  BY <1>1, <1>3, Malloc DEF p
<1>5. StorageSound'
  <2>1. ASSUME NEW t \in PoolSlots, Alive(t)
        PROVE  /\ PoolOf[t] + 1 \in PoolRange'
               /\ storage_[t] \in Blocks(PoolOf[t] + 1)'
    <3>1. PoolOf[t] + 1 \in PoolRange /\ storage_[t] \in Blocks(PoolOf[t] + 1)
      BY <2>1 DEF PointerInv, StorageSound
    <3>2. storage_[t] \in Owned
      BY <3>1, PoolBlock DEF PointerInv, PoolRange, Owned, Slots
    <3> QED BY <1>4, <3>1, <3>2
  <2> QED BY <1>1, <2>1 DEF PointerInv, StorageSound, Alive
<1>6. ContentSound'
  BY <1>1, <1>2, PointerLikeAssumption DEF PointerInv, ContentSound
<1>7. UseSound'
  BY <1>1, <1>2, <1>4 DEF PointerInv, UseSound
<1> QED BY <1>2, <1>4, <1>5, <1>6, <1>7 DEF PointerInv

(* The end of a pooled object. *)
LEMMA DestroyPoolKeeps ==
    ASSUME PointerInv, NEW s \in Slots, DestroyPool(s) PROVE PointerInv'
<1> DEFINE p == storage_[s]
<1>1. /\ s \in PoolSlots /\ Alive(s)
      /\ pools_' = AfterFree(p, PoolOf[s])
      /\ content' = Without(p)
      /\ storage_' = [storage_ EXCEPT ![s] = Absent]
      /\ UNCHANGED <<lost, throws>>
  BY DEF DestroyPool
<1>2. p # Absent /\ p # Nullptr /\ p \in Owned /\ p \notin lost
  <2>1. PoolOf[s] + 1 \in PoolRange /\ p \in Blocks(PoolOf[s] + 1)
    BY <1>1 DEF PointerInv, StorageSound
  <2>2. p # Absent /\ p # Nullptr
    BY <2>1, PoolBlock DEF PointerInv, PoolRange
  <2> QED BY <2>2, OnlyOwner
<1>3. Owned' = Owned \ {p} /\ OneOwner'
  <2>1. Absent \notin Owned
    BY DEF Owned
  <2> QED BY <1>1, <2>1, OwnedAfter
<1>4. (Owned \cup lost)' = (Owned \cup lost) \ {p}
  BY <1>1, <1>2, <1>3
<1>5. /\ PoolsSound' /\ PoolRange' = PoolRange
      /\ \A k \in PoolRange, q \in Owned \cup lost :
            q \in Blocks(k) /\ q # p => q \in Blocks(k)'
      /\ \A k \in PoolRange' : UsedOf(pools_'[k], k - 1) = InUse(k - 1)'
  BY <1>1, <1>4, FreeBlock
<1>6. StorageSound'
  BY <1>1, <1>5, StorageAfter, PointerLikeAssumption
<1>7. ContentSound'
  BY <1>1, <1>3 DEF PointerInv, ContentSound, Without
<1>8. UseSound'
  BY <1>1, <1>2, <1>3, <1>5 DEF PointerInv, UseSound
<1> QED BY <1>3, <1>5, <1>6, <1>7, <1>8 DEF PointerInv

(* A step that leaves the pools alone and what is owned of them. *)
LEMMA PoolsLeft ==
    ASSUME PointerInv, NEW s \in HeapSlots, NEW x \in HeapBlock \cup {Absent, Nullptr},
           storage_' = [storage_ EXCEPT ![s] = x], x \notin Owned,
           UNCHANGED <<pools_, lost>>
    PROVE  /\ PoolsSound' /\ StorageSound' /\ OneOwner' /\ UseSound'
           /\ Owned' = (Owned \ {storage_[s]}) \cup ({x} \ {Absent, Nullptr})
<1>1. /\ Owned' = (Owned \ {storage_[s]}) \cup ({x} \ {Absent, Nullptr})
      /\ OneOwner'
  BY OwnedAfter DEF Slots
<1>2. storage_[s] \in HeapBlock \cup {Absent, Nullptr}
  BY DEF PointerInv, StorageSound
<1>3. \A p : p \in Owned' /\ p \notin HeapBlock <=> p \in Owned /\ p \notin HeapBlock
  BY <1>1, <1>2 DEF Owned
<1>4. /\ PoolsSound' /\ PoolRange' = PoolRange
      /\ \A k \in PoolRange : Blocks(k)' = Blocks(k)
      /\ \A k \in PoolRange' : UsedOf(pools_'[k], k - 1) = InUse(k - 1)'
  BY <1>3, PoolsUntouched
<1>5. StorageSound'
  <2>1. s \in Slots /\ s \notin PoolSlots
    BY PointerLikeAssumption DEF Slots
  <2> QED BY <1>4, <2>1, StorageAfter
<1>6. x \notin lost
  <2>1. \A q \in lost : \E k \in PoolRange : q \in Blocks(k) /\ k \in Nat
    BY DEF PointerInv, UseSound, PoolRange
  <2>2. \A q \in lost : q \notin HeapBlock /\ q # Absent /\ q # Nullptr
    BY <2>1, PoolBlock DEF PointerInv
  <2> QED BY <2>2
<1>7. UseSound'
  BY <1>1, <1>4, <1>6 DEF PointerInv, UseSound
<1> QED BY <1>1, <1>4, <1>5, <1>7

(* A new object on the heap, and the end of one. *)
LEMMA ConstructHeapKeeps ==
    ASSUME PointerInv, NEW s \in Slots, ConstructHeap(s) PROVE PointerInv'
<1>1. PICK p \in HeapBlock \ DOMAIN content, v \in Value :
          storage_' = [storage_ EXCEPT ![s] = p] /\ content' = With(p, v)
  BY DEF ConstructHeap
<1>2. /\ s \in HeapSlots /\ storage_[s] = Absent /\ UNCHANGED <<pools_, lost, throws>>
  BY DEF ConstructHeap, Alive
<1>3. p \notin Owned /\ p # Absent /\ p # Nullptr
  <2>1. p \notin Owned
    BY <1>1 DEF PointerInv, ContentSound
  <2>2. PICK t \in HeapSlots : p = <<kHeap, t>>
    BY <1>1 DEF HeapBlock
  <2> QED BY <2>1, <2>2 DEF Absent, Nullptr
<1>4. /\ PoolsSound' /\ StorageSound' /\ OneOwner' /\ UseSound'
      /\ Owned' = (Owned \ {storage_[s]}) \cup ({p} \ {Absent, Nullptr})
  BY <1>1, <1>2, <1>3, PoolsLeft
<1>5. Owned' = Owned \cup {p}
  BY <1>2, <1>3, <1>4 DEF Owned
<1>6. ContentSound'
  BY <1>1, <1>2, <1>5 DEF PointerInv, ContentSound, With
<1> QED BY <1>4, <1>6 DEF PointerInv

LEMMA DestroyHeapKeeps ==
    ASSUME PointerInv, NEW s \in Slots, DestroyHeap(s) PROVE PointerInv'
<1>1. /\ s \in HeapSlots /\ content' = Without(storage_[s])
      /\ storage_' = [storage_ EXCEPT ![s] = Absent]
      /\ UNCHANGED <<pools_, lost, throws>>
  BY DEF DestroyHeap
<1>2. Absent \notin Owned
  BY DEF Owned
<1>3. /\ PoolsSound' /\ StorageSound' /\ OneOwner' /\ UseSound'
      /\ Owned' = (Owned \ {storage_[s]}) \cup ({Absent} \ {Absent, Nullptr})
  BY <1>1, <1>2, PoolsLeft
<1>4. Owned' = Owned \ {storage_[s]}
  BY <1>3
<1>5. ContentSound'
  BY <1>1, <1>4 DEF PointerInv, ContentSound, Without
<1> QED BY <1>3, <1>5 DEF PointerInv

(* A variable takes over the block of another, which is left with another    *)
(* value of storage_: what is owned is what was, without the old block of    *)
(* the first unless the second has it now.                                   *)
LEMMA Handover ==
    ASSUME PointerInv, NEW d \in Slots, NEW s \in Slots, d # s, NEW x,
           x \in {storage_[d], Nullptr},
           storage_' = [storage_ EXCEPT ![d] = storage_[s], ![s] = x]
    PROVE  /\ Owned' = IF x = storage_[d] THEN Owned ELSE Owned \ {storage_[d]}
           /\ OneOwner'
           /\ storage_' = [t \in Slots |-> storage_'[t]]
           /\ storage_'[d] = storage_[s] /\ storage_'[s] = x
           /\ \A t \in Slots : t # d /\ t # s => storage_'[t] = storage_[t]
<1>1. /\ storage_'[d] = storage_[s] /\ storage_'[s] = x
      /\ \A t \in Slots : t # d /\ t # s => storage_'[t] = storage_[t]
      /\ storage_' = [t \in Slots |-> storage_'[t]]
  BY DEF PointerInv, StorageSound
<1> DEFINE old == storage_
           now == storage_'
<1>2. \A t, u \in Slots : t # u /\ old[t] = old[u] => old[t] \in {Absent, Nullptr}
  BY DEF PointerInv, OneOwner
<1>3. /\ \A p : p \in Owned  <=> p \notin {Absent, Nullptr} /\ \E t \in Slots : p = old[t]
      /\ \A p : p \in Owned' <=> p \notin {Absent, Nullptr} /\ \E t \in Slots : p = now[t]
  BY DEF Owned
<1>4. /\ now[d] = old[s] /\ now[s] = x
      /\ \A t \in Slots : t # d /\ t # s => now[t] = old[t]
  BY <1>1
<1> HIDE DEF old, now
<1>5. CASE x = old[d]
  <2>1. \A t \in Slots : \E u \in Slots : now[t] = old[u]
    BY <1>4, <1>5
  <2>2. \A t \in Slots : \E u \in Slots : old[t] = now[u]
    BY <1>4, <1>5
  <2>3. \A p : p \in Owned' <=> p \in Owned
    BY <1>3, <2>1, <2>2
  <2>4. \A t, u \in Slots : t # u /\ now[t] = now[u] => now[t] \in {Absent, Nullptr}
    BY <1>2, <1>4, <1>5
  <2> QED BY <1>1, <1>5, <2>3, <2>4 DEF old, now, OneOwner
<1>6. CASE x # old[d]
  <2>1. x = Nullptr
    BY <1>6 DEF old
  <2>2. ASSUME NEW p PROVE p \in Owned' <=> p \in Owned /\ p # old[d]
    <3>1. ASSUME p \in Owned' PROVE p \in Owned /\ p # old[d]
      <4>1. PICK t \in Slots : p = now[t] /\ p \notin {Absent, Nullptr}
        BY <1>3, <3>1
      <4>2. t # s
        BY <1>4, <2>1, <4>1
      <4>3. PICK u \in Slots : p = old[u] /\ u # d
        BY <1>4, <4>1, <4>2
      <4> QED BY <1>2, <1>3, <4>1, <4>3
    <3>2. ASSUME p \in Owned, p # old[d] PROVE p \in Owned'
      <4>1. PICK t \in Slots : p = old[t] /\ p \notin {Absent, Nullptr}
        BY <1>3, <3>2
      <4>2. \E u \in Slots : p = now[u]
        BY <1>4, <3>2, <4>1
      <4> QED BY <1>3, <4>1, <4>2
    <3> QED BY <3>1, <3>2
  <2>3. \A t, u \in Slots : t # u /\ now[t] = now[u] => now[t] \in {Absent, Nullptr}
    BY <1>2, <1>4, <2>1
  <2> QED BY <1>1, <1>6, <2>2, <2>3 DEF old, now, OneOwner
<1> QED BY <1>5, <1>6

(* The swap of two pooled variables. *)
LEMMA MoveAssignPoolKeeps ==
    ASSUME PointerInv, NEW d \in Slots, NEW s \in Slots, MoveAssignPool(d, s)
    PROVE  PointerInv'
<1>1. /\ d \in PoolSlots /\ s \in PoolSlots /\ PoolOf[d] = PoolOf[s]
      /\ Alive(d) /\ Alive(s)
      /\ storage_' = [storage_ EXCEPT ![d] = storage_[s], ![s] = storage_[d]]
      /\ UNCHANGED <<pools_, content, lost, throws>>
  BY DEF MoveAssignPool
<1>2. /\ Owned' = Owned /\ OneOwner' /\ storage_' = [t \in Slots |-> storage_'[t]]
      /\ storage_'[d] = storage_[s] /\ storage_'[s] = storage_[d]
      /\ \A t \in Slots : t # d /\ t # s => storage_'[t] = storage_[t]
  <2>1. CASE d = s
    <3>1. storage_' = storage_
      BY <1>1, <2>1 DEF PointerInv, StorageSound
    <3> QED BY <2>1, <3>1 DEF PointerInv, StorageSound, Owned, OneOwner
  <2>2. CASE d # s
    BY <1>1, <2>2, Handover
  <2> QED BY <2>1, <2>2
<1>3. /\ PoolsSound' /\ PoolRange' = PoolRange
      /\ \A k \in PoolRange : Blocks(k)' = Blocks(k)
      /\ \A k \in PoolRange' : UsedOf(pools_'[k], k - 1) = InUse(k - 1)'
  BY <1>1, <1>2, PoolsFixed
<1>4. StorageSound'
  <2>1. ASSUME NEW t \in PoolSlots, storage_'[t] # Absent
        PROVE  PoolOf[t] + 1 \in PoolRange /\ storage_'[t] \in Blocks(PoolOf[t] + 1)
    <3>1. \E u \in PoolSlots : storage_'[t] = storage_[u] /\ PoolOf[t] = PoolOf[u]
      BY <1>1, <1>2 DEF Slots
    <3> QED BY <2>1, <3>1 DEF PointerInv, StorageSound, Alive
  <2>2. \A t \in HeapSlots : storage_'[t] = storage_[t]
    BY <1>1, <1>2, PointerLikeAssumption DEF Slots
  <2> QED BY <1>2, <1>3, <2>1, <2>2 DEF PointerInv, StorageSound, Alive
<1>5. UseSound'
  BY <1>1, <1>2, <1>3 DEF PointerInv, UseSound
<1>6. ContentSound'
  BY <1>1, <1>2 DEF PointerInv, ContentSound
<1> QED BY <1>2, <1>3, <1>4, <1>5, <1>6 DEF PointerInv

(* A variable on the heap takes over the object of another. *)
LEMMA TakeOverKeeps ==
    ASSUME PointerInv, NEW d \in HeapSlots, NEW s \in HeapSlots, d # s,
           storage_' = [storage_ EXCEPT ![d] = storage_[s], ![s] = Nullptr],
           UNCHANGED <<pools_, lost, throws>>, content' = Without(storage_[d])
    PROVE  PointerInv'
<1>1. d \in Slots /\ s \in Slots /\ d \notin PoolSlots /\ s \notin PoolSlots
  BY PointerLikeAssumption DEF Slots
<1>2. /\ Owned' = IF Nullptr = storage_[d] THEN Owned ELSE Owned \ {storage_[d]}
      /\ OneOwner' /\ storage_' = [t \in Slots |-> storage_'[t]]
      /\ storage_'[d] = storage_[s] /\ storage_'[s] = Nullptr
      /\ \A t \in Slots : t # d /\ t # s => storage_'[t] = storage_[t]
  BY <1>1, Handover
<1>3. Owned' = Owned \ {storage_[d]}
  BY <1>2 DEF Owned
<1>4. storage_[d] \in HeapBlock \cup {Absent, Nullptr}
  BY DEF PointerInv, StorageSound
<1>5. \A p : p \in Owned' /\ p \notin HeapBlock <=> p \in Owned /\ p \notin HeapBlock
  BY <1>3, <1>4 DEF Owned
<1>6. /\ PoolsSound' /\ PoolRange' = PoolRange
      /\ \A k \in PoolRange : Blocks(k)' = Blocks(k)
      /\ \A k \in PoolRange' : UsedOf(pools_'[k], k - 1) = InUse(k - 1)'
  BY <1>5, PoolsUntouched
<1>7. StorageSound'
  <2>1. \A t \in PoolSlots : storage_'[t] = storage_[t]
    BY <1>1, <1>2 DEF Slots
  <2>2. \A t \in HeapSlots : storage_'[t] \in HeapBlock \cup {Absent, Nullptr}
    BY <1>2 DEF PointerInv, StorageSound, Slots
  <2> QED BY <1>2, <1>6, <2>1, <2>2 DEF PointerInv, StorageSound, Alive
<1>8. UseSound'
  BY <1>3, <1>6 DEF PointerInv, UseSound
<1>9. ContentSound'
  BY <1>3 DEF PointerInv, ContentSound, Without
<1> QED BY <1>2, <1>6, <1>7, <1>8, <1>9 DEF PointerInv

(* The invariant is one of these variables. *)
LEMMA InvOfVars ==
    PointerInv /\ UNCHANGED <<pools_, storage_, content, lost, throws>> => PointerInv'
<1> SUFFICES ASSUME PointerInv, UNCHANGED <<pools_, storage_, content, lost, throws>>
             PROVE  PointerInv'
  OBVIOUS
<1>1. Owned' = Owned /\ OneOwner'
  BY DEF Owned, OneOwner, PointerInv
<1>2. /\ PoolsSound' /\ PoolRange' = PoolRange
      /\ \A k \in PoolRange : Blocks(k)' = Blocks(k)
      /\ \A k \in PoolRange' : UsedOf(pools_'[k], k - 1) = InUse(k - 1)'
  BY <1>1, PoolsFixed
<1>3. StorageSound'
  BY <1>2 DEF PointerInv, StorageSound, Alive
<1>4. ContentSound' /\ UseSound'
  BY <1>1, <1>2 DEF PointerInv, ContentSound, UseSound
<1> QED BY <1>1, <1>2, <1>3, <1>4 DEF PointerInv

(* Every step keeps the invariant. *)
LEMMA PointerStep == PointerInv /\ [Next]_vars => PointerInv'
<1> SUFFICES ASSUME PointerInv, [Next]_vars PROVE PointerInv'
  OBVIOUS
<1>1. ASSUME NEW s \in Slots, NEW d \in Slots, MoveAssignHeap(d, s) PROVE PointerInv'
  <2>1. d \in HeapSlots /\ s \in HeapSlots /\ TakeOver(d, s) /\ UNCHANGED <<pools_, lost, throws>>
    BY <1>1 DEF MoveAssignHeap
  <2>2. CASE d = s
    <3>1. UNCHANGED <<pools_, storage_, content, lost, throws>>
      BY <2>1, <2>2 DEF TakeOver
    <3> QED BY <3>1, InvOfVars
  <2>3. CASE d # s
    BY <2>1, <2>3, TakeOverKeeps DEF TakeOver
  <2> QED BY <2>2, <2>3
<1>2. ASSUME NEW s \in Slots, NEW d \in Slots, MoveConstructHeap(d, s) PROVE PointerInv'
  <2>1. /\ d \in HeapSlots /\ s \in HeapSlots /\ storage_[d] = Absent /\ d # s
        /\ storage_' = [storage_ EXCEPT ![d] = storage_[s], ![s] = Nullptr]
        /\ UNCHANGED <<pools_, content, lost, throws>>
    BY <1>2 DEF MoveConstructHeap, Alive
  <2>2. content' = Without(storage_[d])
    <3>1. Absent \notin DOMAIN content /\ content = [p \in DOMAIN content |-> content[p]]
      BY DEF PointerInv, ContentSound, Owned
    <3> QED BY <2>1, <3>1 DEF Without
  <2> QED BY <2>1, <2>2, TakeOverKeeps
<1>3. CASE UNCHANGED vars
  BY <1>3, InvOfVars DEF vars
<1> QED BY <1>1, <1>2, <1>3, ConstructPoolKeeps, ConstructPoolThrowsKeeps, DestroyPoolKeeps,
           ConstructHeapKeeps, DestroyHeapKeeps, MoveAssignPoolKeeps DEF Next

LEMMA PointerInit == Init => PointerInv
<1> SUFFICES ASSUME Init PROVE PointerInv
  OBVIOUS
<1>1. PoolRange = {} /\ PoolsSound
  BY DEF Init, PoolRange, PoolsSound
<1>2. \A s \in Slots : storage_[s] = Absent
  BY DEF Init
<1>3. Owned = {}
  BY <1>2 DEF Owned
<1>4. StorageSound /\ OneOwner
  BY <1>2 DEF Init, StorageSound, Alive, OneOwner, Slots
<1>5. ContentSound
  BY <1>3, PointerLikeAssumption DEF Init, ContentSound
<1>6. UseSound
  BY <1>1, <1>3 DEF Init, UseSound
<1> QED BY <1>1, <1>4, <1>5, <1>6 DEF PointerInv

(* The invariant holds in every reachable state. *)
LEMMA PointerInvariant == Spec => []PointerInv
BY PointerInit, PointerStep, PTL DEF Spec

-----------------------------------------------------------------------------
(* What the runs check. *)

(* The T's alive are those of the variables alive. *)
THEOREM ObjectsAreOwned == Spec => []ObjectsMatchOwners
<1>1. PointerInv => ObjectsMatchOwners
  BY DEF PointerInv, ContentSound, ObjectsMatchOwners
<1> QED BY <1>1, PointerInvariant, PTL

(* The free list of a pool holds as many blocks as it is long. *)
LEMMA FreeCounted ==
    ASSUME PointerInv, NEW k \in PoolRange
    PROVE  IsFiniteSet(Free(k)) /\ Cardinality(Free(k)) = Len(pools_[k].free_list)
<1> DEFINE fl == pools_[k].free_list
           n == Len(fl)
           f == [i \in 1 .. n |-> fl[i]]
<1>1. Sound(pools_[k], k - 1) /\ n \in Nat
  <2>1. Sound(pools_[k], k - 1)
    BY DEF PointerInv, PoolsSound
  <2>2. fl \in Seq(Block)
    BY <2>1 DEF Sound, Pool
  <2> QED BY <2>1, <2>2
<1>2. Free(k) = {fl[i] : i \in 1 .. n}
  BY DEF Free
<1>3. f \in Bijection(1 .. n, Free(k))
  <2>1. \A i, j \in 1 .. n : i # j => fl[i] # fl[j]
    BY <1>1 DEF Sound, Distinct
  <2>2. f \in [1 .. n -> Free(k)]
    BY <1>2
  <2>3. \A x \in Free(k) : \E i \in 1 .. n : f[i] = x
    BY <1>2
  <2> HIDE DEF n, fl
  <2> QED BY <2>1, <2>2, <2>3 DEF Bijection, Injection, Surjection, IsInjective
<1> HIDE DEF n, fl, f
<1>4. ExistsBijection(1 .. n, Free(k))
  BY <1>3 DEF ExistsBijection
<1> QED BY <1>1, <1>4, FS_CountingElements, FS_NatBijection DEF n, fl

(* What is free of a pool is not in use, what is in use is not free, and     *)
(* there is nothing else.                                                    *)
THEOREM NoBlockAstray == Spec => []EveryBlockAccounted
<1>1. PointerInv => TypeOK
  <2> SUFFICES ASSUME PointerInv PROVE TypeOK
    OBVIOUS
  <2>1. MemoryPoolTypeOK
    <3> SUFFICES ASSUME NEW k \in PoolRange
                 PROVE  /\ pools_[k].arrays \in Nat
                        /\ pools_[k].block_info = IndexToBlockInfo(k - 1)
                        /\ \A i \in 1 .. Len(pools_[k].free_list) :
                              pools_[k].free_list[i] \in Blocks(k)
      BY DEF MemoryPoolTypeOK
    <3>1. Sound(pools_[k], k - 1)
      BY DEF PointerInv, PoolsSound
    <3>2. Blocks(k) = BlocksOf(pools_[k], k - 1)
      BY DEF Blocks, BlocksOf
    <3>3. pools_[k].arrays \in Nat /\ pools_[k].block_info = IndexToBlockInfo(k - 1)
      BY <3>1 DEF Sound, Pool
    <3> QED BY <3>1, <3>2, <3>3 DEF Sound, FreeOf
  <2>2. /\ \A s \in PoolSlots : Alive(s) => /\ PoolOf[s] + 1 \in PoolRange
                                            /\ storage_[s] \in Blocks(PoolOf[s] + 1)
        /\ \A s \in HeapSlots : storage_[s] \in HeapBlock \cup {Absent, Nullptr}
    BY DEF PointerInv, StorageSound
  <2>3. (\A p \in DOMAIN content : content[p] \in Value) /\ throws \in 0 .. MaxThrows
    BY DEF PointerInv, ContentSound
  <2> QED BY <2>1, <2>2, <2>3 DEF TypeOK
<1>2. PointerInv => EveryBlockAccounted
  <2> SUFFICES ASSUME PointerInv, NEW k \in PoolRange
               PROVE  /\ Cardinality(Free(k)) = Len(pools_[k].free_list)
                      /\ Free(k) \cap (Owned \cup lost) = {}
                      /\ Owned \cap lost = {}
                      /\ Free(k) \cup InUse(k - 1) = Blocks(k)
    BY <1>1 DEF EveryBlockAccounted, PointerInv
  <2>1. /\ Blocks(k) = BlocksOf(pools_[k], k - 1)
        /\ Free(k) = FreeOf(pools_[k])
    BY DEF Blocks, BlocksOf, Free, FreeOf
  <2>2. Sound(pools_[k], k - 1) /\ k \in Nat
    BY DEF PointerInv, PoolsSound, PoolRange
  <2>3. Free(k) \subseteq Blocks(k) /\ Blocks(k) \ Free(k) = InUse(k - 1)
    BY <2>1, <2>2 DEF Sound, UsedOf, PointerInv, UseSound
  <2>4. \A p \in Blocks(k) : p[1] = k - 1
    BY DEF Blocks
  <2>5. Free(k) \cap (Owned \cup lost) = {}
    BY <2>3, <2>4 DEF InUse
  <2>6. Owned \cap lost = {}
    BY DEF PointerInv, UseSound
  <2> QED BY <2>3, <2>5, <2>6, FreeCounted
<1> QED BY <1>2, PointerInvariant, PTL

-----------------------------------------------------------------------------
(* The footprint.  A pool grows only when all its blocks are in use, and the *)
(* peak is then raised to more than they were.                               *)

PeakSound ==
    /\ peak \in [PoolIndices -> Nat]
    /\ \A i \in PoolIndices : Cardinality(InUse(i)) <= peak[i]
    /\ \A i \in Nat : Arrays(i + 1) > 0 =>
          /\ i \in PoolIndices
          /\ (Arrays(i + 1) - 1) * IndexToBlockInfo(i).num_blocks < peak[i]

FootprintInv == PointerInv /\ PeakSound

InUseFinite ==
    \A i \in PoolIndices : IsFiniteSet(InUse(i)) /\ Cardinality(InUse(i)) \in Nat

(* What is in use of a pool can be counted. *)
LEMMA InUseCounted == PointerInv => InUseFinite
<1> SUFFICES ASSUME PointerInv, NEW i \in PoolIndices
             PROVE  IsFiniteSet(InUse(i)) /\ Cardinality(InUse(i)) \in Nat
  BY DEF InUseFinite
<1>1. i \in Nat /\ IndexToBlockInfo(i).num_blocks \in Nat
  BY PointerLikeAssumption DEF PoolIndices
<1>2. Used(i + 1) = InUse(i)
  BY <1>1, UsedIsInUse
<1>3. CASE i + 1 \in PoolRange
  <2>1. (i + 1) - 1 = i
    BY <1>1
  <2>2. Sound(pools_[i + 1], i)
    BY <1>3, <2>1 DEF PointerInv, PoolsSound
  <2>3. IsFiniteSet(BlocksOf(pools_[i + 1], i))
    <3>1. pools_[i + 1].arrays \in Nat /\ pools_[i + 1].block_info = IndexToBlockInfo(i)
      BY <2>2 DEF Sound, Pool
    <3> QED BY <1>1, <3>1, BlocksCounted
  <2>4. Used(i + 1) \in SUBSET BlocksOf(pools_[i + 1], i)
    BY <1>3, <2>1 DEF Used, UsedOf
  <2> QED BY <1>2, <2>3, <2>4, FS_Subset, FS_CardinalityType
<1>4. CASE i + 1 \notin PoolRange
  BY <1>2, <1>4, FS_EmptySet DEF Used
<1> QED BY <1>3, <1>4

(* A step that adds no array keeps the footprint, if the peak takes note.    *)
LEMMA PeakNoted ==
    ASSUME PointerInv, PointerInv', PeakSound, NotePeak,
           \A i \in Nat : Arrays(i + 1)' > 0 =>
              \/ Arrays(i + 1)' = Arrays(i + 1)
              \/ /\ Arrays(i + 1)' = Arrays(i + 1) + 1 /\ i \in PoolIndices
                 /\ Arrays(i + 1) * IndexToBlockInfo(i).num_blocks < Cardinality(InUse(i)')
    PROVE  PeakSound'
<1>1. InUseFinite'
  BY InUseCounted, PTL
<1>2. \A i \in PoolIndices : Cardinality(InUse(i)') \in Nat
  BY <1>1 DEF InUseFinite
<1>3. \A i \in PoolIndices : peak'[i] = Larger(peak[i], Cardinality(InUse(i)'))
  BY DEF NotePeak
<1>4. \A i \in PoolIndices : /\ peak'[i] \in Nat /\ Cardinality(InUse(i)') <= peak'[i]
                            /\ peak[i] <= peak'[i] /\ peak[i] \in Nat
  BY <1>2, <1>3 DEF PeakSound, Larger
<1>5. peak' \in [PoolIndices -> Nat]
  BY <1>4 DEF NotePeak
<1>6. ASSUME NEW i \in Nat, Arrays(i + 1)' > 0
      PROVE  /\ i \in PoolIndices
             /\ (Arrays(i + 1)' - 1) * IndexToBlockInfo(i).num_blocks < peak'[i]
  <2> DEFINE was == Arrays(i + 1)
             n   == IndexToBlockInfo(i).num_blocks
  <2>1. i \in PoolIndices => n \in Nat
    BY PointerLikeAssumption DEF PoolIndices
  <2>2. was \in Nat
    BY <1>6 DEF PointerInv, PoolsSound, Sound, Pool, Arrays
  <2> HIDE DEF was, n
  <2>3. CASE Arrays(i + 1)' = was
    <3>1. i \in PoolIndices /\ (was - 1) * n < peak[i]
      BY <1>6, <2>3 DEF PeakSound, was, n
    <3>2. (was - 1) * n \in Int
      BY <2>1, <2>2, <3>1
    <3> QED BY <1>4, <2>3, <3>1, <3>2 DEF n
  <2>4. CASE /\ Arrays(i + 1)' = was + 1 /\ i \in PoolIndices
             /\ was * n < Cardinality(InUse(i)')
    <3>1. was * n \in Int /\ (was + 1) - 1 = was
      BY <2>1, <2>2, <2>4
    <3> QED BY <1>2, <1>4, <2>4, <3>1 DEF n
  <2> QED BY <1>6, <2>3, <2>4 DEF was, n
<1> QED BY <1>4, <1>5, <1>6 DEF PeakSound

(* Malloc grows a pool only when all its blocks are in use. *)
LEMMA MallocGrows ==
    ASSUME PointerInv, NEW s \in PoolSlots, pools_' = AfterMalloc(PoolOf[s]),
           (Owned \cup lost)' = (Owned \cup lost) \cup {Malloced(PoolOf[s])},
           NEW i \in Nat
    PROVE  \/ Arrays(i + 1)' = Arrays(i + 1)
           \/ /\ Arrays(i + 1)' = Arrays(i + 1) + 1 /\ i \in PoolIndices
              /\ Arrays(i + 1) * IndexToBlockInfo(i).num_blocks < Cardinality(InUse(i)')
<1> DEFINE j == PoolOf[s]
           p == Malloced(j)
<1>1. j \in Nat /\ IndexToBlockInfo(j).num_blocks \in Nat \ {0} /\ PoolsSound
  BY PointerLikeAssumption DEF PointerInv
<1>2. /\ pools_' \in Seq(Pool) /\ Len(pools_') >= Len(pools_) /\ j + 1 \in 1 .. Len(pools_')
      /\ p \in BlocksOf(pools_'[j + 1], j) /\ p \notin Used(j + 1)
      /\ \A k \in 1 .. Len(pools_') : k # j + 1 => pools_'[k].arrays = Arrays(k)
      /\ \/ pools_'[j + 1].arrays = Arrays(j + 1)
         \/ /\ pools_'[j + 1].arrays = Arrays(j + 1) + 1
            /\ IsFiniteSet(Used(j + 1))
            /\ Cardinality(Used(j + 1)) = Arrays(j + 1) * IndexToBlockInfo(j).num_blocks
  BY <1>1, MallocSound
<1>3. /\ PoolRange' = 1 .. Len(pools_') /\ PoolRange = 1 .. Len(pools_)
      /\ Len(pools_) \in Nat /\ Len(pools_') \in Nat
  BY <1>1, <1>2 DEF PoolRange, PoolsSound
<1>4. \A k \in Nat : Arrays(k)' = IF k \in PoolRange' THEN pools_'[k].arrays ELSE 0
  BY DEF Arrays
<1>5. CASE i # j
  <2>1. i + 1 # j + 1 /\ i + 1 \in Nat
    BY <1>1, <1>5
  <2>2. CASE i + 1 \in PoolRange'
    BY <1>2, <1>3, <1>4, <2>1, <2>2
  <2>3. CASE i + 1 \notin PoolRange'
    <3>1. i + 1 \notin PoolRange
      BY <1>2, <1>3, <2>3
    <3> QED BY <1>4, <2>1, <2>3, <3>1 DEF Arrays
  <2> QED BY <2>2, <2>3
<1>6. CASE i = j
  <2>1. Arrays(j + 1)' = pools_'[j + 1].arrays
    BY <1>1, <1>2, <1>3, <1>4
  <2>2. p[1] = j
    BY <1>2 DEF BlocksOf
  <2>3. Used(j + 1) = InUse(j)
    <3>1. j + 1 \in Nat \ {0} /\ (j + 1) - 1 = j
      BY <1>1
    <3> HIDE DEF j
    <3> QED BY <3>1, UsedIsInUse
  <2>4. InUse(j)' = InUse(j) \cup {p}
    BY <2>2 DEF InUse
  <2>5. j \in PoolIndices
    BY DEF PoolIndices
  <2> HIDE DEF j, p
  <2>6. CASE /\ IsFiniteSet(Used(j + 1))
             /\ Cardinality(Used(j + 1)) = Arrays(j + 1) * IndexToBlockInfo(j).num_blocks
    <3>1. Cardinality(InUse(j)') = Cardinality(InUse(j)) + 1
      <4>1. IsFiniteSet(InUse(j)) /\ p \notin InUse(j)
        BY <1>2, <2>3, <2>6 DEF p
      <4>2. Cardinality(InUse(j) \cup {p}) = Cardinality(InUse(j)) + 1
        BY <4>1, FS_AddElement
      <4> QED BY <2>4, <4>2
    <3>2. Cardinality(InUse(j)) \in Nat
      BY <2>3, <2>6, FS_CardinalityType
    <3> QED BY <1>2, <1>6, <2>1, <2>3, <2>5, <2>6, <3>1, <3>2
  <2> QED BY <1>2, <1>6, <2>1, <2>6
<1> QED BY <1>5, <1>6

(* Free gives no array back. *)
LEMMA FreeKeepsArrays ==
    ASSUME PointerInv, NEW s \in PoolSlots, storage_[s] # Absent,
           pools_' = AfterFree(storage_[s], PoolOf[s])
    PROVE  \A i \in Nat : Arrays(i + 1)' = Arrays(i + 1)
<1> DEFINE i == PoolOf[s]
           p == storage_[s]
<1>1. i \in Nat /\ PoolsSound /\ (i + 1) - 1 = i /\ i + 1 \in Nat \ {0}
  BY PointerLikeAssumption DEF PointerInv
<1>2. i + 1 \in PoolRange /\ p \in Blocks(i + 1)
  BY DEF PointerInv, StorageSound, Alive
<1>3. p[1] = i /\ p \in Block /\ p # Absent /\ p # Nullptr
  BY <1>1, <1>2, PoolBlock
<1>4. p \in UsedOf(pools_[i + 1], i)
  <2>1. p \in InUse(i)
    BY <1>3 DEF InUse, Owned, Slots
  <2> QED BY <1>1, <1>2, <2>1 DEF PointerInv, UseSound
<1>5. /\ Len(pools_') = Len(pools_)
      /\ \A k \in 1 .. Len(pools_') : pools_'[k].arrays = pools_[k].arrays
  BY <1>1, <1>2, <1>3, <1>4, FreeSound
<1> QED BY <1>5 DEF Arrays, PoolRange

(* What is done on the heap leaves what is in use of the pools. *)
LEMMA HeapLeavesPools ==
    ASSUME PointerInv, NEW s \in Slots, NEW d \in Slots,
           \/ ConstructHeap(s) \/ DestroyHeap(s)
           \/ MoveAssignHeap(d, s) \/ MoveConstructHeap(d, s)
    PROVE  /\ UNCHANGED <<pools_, lost, peak>>
           /\ \A i \in PoolIndices : InUse(i)' = InUse(i)
<1>1. UNCHANGED <<pools_, lost, peak>>
  BY DEF ConstructHeap, DestroyHeap, MoveAssignHeap, MoveConstructHeap
<1>2. \A t \in Slots : storage_'[t] # storage_[t] => t \in HeapSlots
  BY DEF ConstructHeap, DestroyHeap, MoveAssignHeap, MoveConstructHeap, TakeOver,
         PointerInv, StorageSound
<1>3. PointerInv'
  <2>1. [Next]_vars
    BY DEF Next
  <2> QED BY <2>1, PointerStep
<1>4. \A t \in HeapSlots, i \in PoolIndices :
          /\ storage_[t] \notin {Absent, Nullptr} => storage_[t][1] # i
          /\ storage_'[t] \notin {Absent, Nullptr} => storage_'[t][1] # i
  <2>1. \A i \in PoolIndices : i # kHeap
    BY PointerLikeAssumption DEF PoolIndices, kHeap
  <2>2. \A t \in HeapSlots : /\ storage_[t] \in HeapBlock \cup {Absent, Nullptr}
                            /\ storage_'[t] \in HeapBlock \cup {Absent, Nullptr}
    BY <1>3 DEF PointerInv, StorageSound
  <2>3. \A p \in HeapBlock : p[1] = kHeap
    BY DEF HeapBlock
  <2> QED BY <2>1, <2>2, <2>3
<1> QED BY <1>1, <1>2, <1>4 DEF InUse, Owned

(* Every step keeps the footprint. *)
LEMMA FootprintStep == FootprintInv /\ [Next]_vars => FootprintInv'
<1> SUFFICES ASSUME PointerInv, PeakSound, [Next]_vars PROVE PeakSound'
  BY PointerStep DEF FootprintInv
<1>1. PointerInv'
  BY PointerStep
<1>2. ASSUME pools_' = pools_ PROVE \A i \in Nat : Arrays(i + 1)' = Arrays(i + 1)
  BY <1>2 DEF Arrays, PoolRange
<1>3. ASSUME pools_' = pools_, peak' = peak,
             \A i \in PoolIndices : InUse(i)' = InUse(i)
      PROVE  PeakSound'
  <2>1. \A i \in Nat : Arrays(i + 1)' = Arrays(i + 1)
    BY <1>2, <1>3
  <2> QED BY <1>3, <2>1 DEF PeakSound
<1>4. ASSUME pools_' = pools_, NotePeak PROVE PeakSound'
  BY <1>1, <1>2, <1>4, PeakNoted
<1>5. ASSUME NEW s \in PoolSlots, pools_' = AfterMalloc(PoolOf[s]),
             (Owned \cup lost)' = (Owned \cup lost) \cup {Malloced(PoolOf[s])}, NotePeak
      PROVE  PeakSound'
  BY <1>1, <1>5, MallocGrows, PeakNoted
<1>6. ASSUME NEW s \in Slots, ConstructPool(s) PROVE PeakSound'
  <2> DEFINE p == Malloced(PoolOf[s])
  <2>1. /\ s \in PoolSlots /\ storage_[s] = Absent /\ lost' = lost
        /\ storage_' = [storage_ EXCEPT ![s] = p]
        /\ pools_' = AfterMalloc(PoolOf[s]) /\ NotePeak
    BY <1>6 DEF ConstructPool, Alive
  <2>2. p \notin Owned \cup lost /\ p # Absent /\ p # Nullptr
    BY <2>1, FreshBlock
  <2> HIDE DEF p
  <2>3. Owned' = Owned \cup {p}
    <3>1. Absent \notin Owned
      BY DEF Owned
    <3> QED BY <2>1, <2>2, <3>1, OwnedAfter
  <2> QED BY <1>5, <2>1, <2>3 DEF p
<1>7. ASSUME NEW s \in Slots, ConstructPoolThrows(s) PROVE PeakSound'
  <2>1. /\ s \in PoolSlots /\ pools_' = AfterMalloc(PoolOf[s]) /\ NotePeak
        /\ lost' = lost \cup {Malloced(PoolOf[s])} /\ storage_' = storage_
    BY <1>7 DEF ConstructPoolThrows
  <2>2. Owned' = Owned
    BY <2>1 DEF Owned
  <2> QED BY <1>5, <2>1, <2>2
<1>8. ASSUME NEW s \in Slots, DestroyPool(s) PROVE PeakSound'
  <2>1. /\ s \in PoolSlots /\ storage_[s] # Absent /\ lost' = lost /\ NotePeak
        /\ pools_' = AfterFree(storage_[s], PoolOf[s])
    BY <1>8 DEF DestroyPool, Alive
  <2>2. \A i \in Nat : Arrays(i + 1)' = Arrays(i + 1)
    BY <2>1, FreeKeepsArrays
  <2> QED BY <1>1, <2>1, <2>2, PeakNoted
<1>9. ASSUME NEW s \in Slots, ConstructHeap(s) \/ DestroyHeap(s)
      PROVE  PeakSound'
  BY <1>9, HeapLeavesPools, <1>3
<1>10. ASSUME NEW s \in Slots, NEW d \in Slots, MoveAssignPool(d, s) PROVE PeakSound'
  BY <1>4, <1>10 DEF MoveAssignPool
<1>11. ASSUME NEW s \in Slots, NEW d \in Slots, MoveAssignHeap(d, s) \/ MoveConstructHeap(d, s)
       PROVE  PeakSound'
  BY <1>11, HeapLeavesPools, <1>3
<1>12. ASSUME UNCHANGED vars PROVE PeakSound'
  <2>1. \A i : InUse(i)' = InUse(i)
    BY <1>12 DEF vars, InUse, Owned
  <2> QED BY <1>3, <1>12, <2>1 DEF vars
<1> QED BY <1>6, <1>7, <1>8, <1>9, <1>10, <1>11, <1>12 DEF Next

(* The pools take no more than was needed at the worst time. *)
THEOREM PoolsStaySmall == Spec => []Footprint
<1>1. Init => FootprintInv
  <2> SUFFICES ASSUME Init PROVE PeakSound
    BY PointerInit DEF FootprintInv
  <2>1. pools_ = << >> /\ lost = {} /\ peak = [i \in PoolIndices |-> 0]
    BY DEF Init
  <2>2. Owned = {}
    BY DEF Init, Owned
  <2>3. \A i \in Nat : Arrays(i + 1) = 0
    BY <2>1 DEF Arrays, PoolRange
  <2>4. \A i : InUse(i) = {}
    BY <2>1, <2>2 DEF InUse
  <2> QED BY <2>1, <2>3, <2>4, FS_EmptySet DEF PeakSound
<1>2. FootprintInv => Footprint
  <2> SUFFICES ASSUME PointerInv, PeakSound, NEW k \in PoolRange, pools_[k].arrays > 0
               PROVE  (pools_[k].arrays - 1) * pools_[k].block_info.num_blocks < peak[k - 1]
    BY DEF FootprintInv, Footprint
  <2>1. k - 1 \in Nat /\ (k - 1) + 1 = k
    BY DEF PoolRange
  <2>2. pools_[k].arrays = Arrays(k) /\ pools_[k].block_info = IndexToBlockInfo(k - 1)
    BY DEF Arrays, PointerInv, PoolsSound, Sound
  <2> QED BY <2>1, <2>2 DEF PeakSound
<1> QED BY <1>1, <1>2, FootprintStep, PTL DEF Spec

-----------------------------------------------------------------------------
(* A T of its own: PointerLike implements Box. *)

(* What the box of a variable holds. *)
BoxKnown ==
    \A s \in Slots :
        /\ storage_[s] = Absent  => BoxVal[s] = "absent"
        /\ storage_[s] = Nullptr => BoxVal[s] = "empty"
        /\ storage_[s] \notin {Absent, Nullptr} =>
              /\ storage_[s] \in DOMAIN content
              /\ BoxVal[s] = content[storage_[s]]
              /\ BoxVal[s] \in Value

LEMMA BoxIsKnown == PointerInv => BoxKnown
<1> SUFFICES ASSUME PointerInv PROVE BoxKnown
  OBVIOUS
<1>1. Absent # Nullptr
  BY DEF Absent, Nullptr
<1>2. \A s \in Slots : storage_[s] \notin {Absent, Nullptr} =>
          storage_[s] \in DOMAIN content /\ content[storage_[s]] \in Value
  BY DEF PointerInv, ContentSound, Owned
<1> QED BY <1>1, <1>2 DEF BoxKnown, BoxVal, BoxOf, Alive

(* A variable alone gets another value: the boxes of the others stay.        *)
LEMMA OneBoxChanges ==
    ASSUME PointerInv, PointerInv', NEW s \in Slots, NEW x,
           storage_' = [storage_ EXCEPT ![s] = x],
           \A q \in DOMAIN content : q # storage_[s] =>
              q \in DOMAIN content' /\ content'[q] = content[q]
    PROVE  BoxVal' = [BoxVal EXCEPT ![s] = BoxVal'[s]]
<1>1. BoxKnown /\ BoxKnown'
  BY BoxIsKnown, PTL
<1>2. \A t \in Slots : t # s => storage_'[t] = storage_[t]
  BY DEF PointerInv, StorageSound
<1>3. ASSUME NEW t \in Slots, t # s PROVE BoxVal'[t] = BoxVal[t]
  <2>1. CASE storage_[t] \in {Absent, Nullptr}
    BY <1>1, <1>2, <1>3, <2>1 DEF BoxKnown
  <2>2. CASE storage_[t] \notin {Absent, Nullptr}
    <3>1. storage_[t] # storage_[s]
      BY <1>3, <2>2, OnlyOwner
    <3> QED BY <1>1, <1>2, <1>3, <2>2, <3>1 DEF BoxKnown
  <2> QED BY <2>1, <2>2
<1>4. BoxVal = [t \in Slots |-> BoxVal[t]] /\ BoxVal' = [t \in Slots |-> BoxVal'[t]]
  BY DEF BoxVal
<1> QED BY <1>3, <1>4

(* A variable takes over the block of another. *)
LEMMA TwoBoxesChange ==
    ASSUME PointerInv, PointerInv', NEW d \in Slots, NEW s \in Slots, d # s, NEW x,
           x \in {storage_[d], Nullptr},
           storage_' = [storage_ EXCEPT ![d] = storage_[s], ![s] = x],
           content' = IF x = storage_[d] THEN content ELSE Without(storage_[d])
    PROVE  \E left \in {BoxVal[d], "empty"} :
               /\ BoxVal' = [BoxVal EXCEPT ![s] = left, ![d] = BoxVal[s]]
               /\ x = Nullptr => left = "empty"
<1>1. BoxKnown /\ BoxKnown'
  BY BoxIsKnown, PTL
<1>2. /\ storage_'[d] = storage_[s] /\ storage_'[s] = x
      /\ \A t \in Slots : t # d /\ t # s => storage_'[t] = storage_[t]
  BY DEF PointerInv, StorageSound
<1>3. \A q \in DOMAIN content : q # storage_[d] \/ x = storage_[d] =>
          q \in DOMAIN content' /\ content'[q] = content[q]
  BY DEF Without
<1>4. Absent # Nullptr
  BY DEF Absent, Nullptr
<1>5. ASSUME NEW t \in Slots, t # d, t # s PROVE BoxVal'[t] = BoxVal[t]
  <2>1. storage_'[t] = storage_[t]
    BY <1>2, <1>5
  <2>2. CASE storage_[t] \in {Absent, Nullptr}
    BY <1>1, <2>1, <2>2 DEF BoxKnown
  <2>3. CASE storage_[t] \notin {Absent, Nullptr}
    <3>1. storage_[t] # storage_[d] /\ storage_[t] \in DOMAIN content
      BY <1>1, <1>5, <2>3, OnlyOwner DEF BoxKnown
    <3>2. content'[storage_[t]] = content[storage_[t]]
      BY <1>3, <3>1
    <3> QED BY <1>1, <2>1, <2>3, <3>2 DEF BoxKnown
  <2> QED BY <2>2, <2>3
<1>6. BoxVal'[d] = BoxVal[s]
  <2>1. CASE storage_[s] \in {Absent, Nullptr}
    BY <1>1, <1>2, <2>1 DEF BoxKnown
  <2>2. CASE storage_[s] \notin {Absent, Nullptr}
    <3>1. storage_[d] # storage_[s]
      BY <2>2, OnlyOwner
    <3> QED BY <1>1, <1>2, <1>3, <2>2, <3>1 DEF BoxKnown
  <2> QED BY <2>1, <2>2
<1>7. BoxVal'[s] \in {BoxVal[d], "empty"} /\ (x = Nullptr => BoxVal'[s] = "empty")
  <2>1. CASE x = Nullptr
    BY <1>1, <1>2, <2>1 DEF BoxKnown
  <2>2. CASE x # Nullptr
    <3>1. storage_'[s] = storage_[d] /\ content' = content
      BY <1>2, <2>2
    <3>2. CASE storage_[d] = Absent
      BY <1>1, <2>2, <3>1, <3>2 DEF BoxKnown
    <3>3. CASE storage_[d] # Absent
      BY <1>1, <2>2, <3>1, <3>3 DEF BoxKnown
    <3> QED BY <2>2, <3>2, <3>3
  <2> QED BY <2>1, <2>2
<1>8. BoxVal = [t \in Slots |-> BoxVal[t]] /\ BoxVal' = [t \in Slots |-> BoxVal'[t]]
  BY DEF BoxVal
<1>9. BoxVal' = [BoxVal EXCEPT ![s] = BoxVal'[s], ![d] = BoxVal[s]]
  BY <1>5, <1>6, <1>8
<1> QED BY <1>7, <1>9

(* Every step is one of the boxes' or none. *)
LEMMA BoxStep ==
    ASSUME PointerInv, [Next]_vars PROVE [Boxes!Next]_(Boxes!vars)
<1>1. PointerInv' /\ Absent # Nullptr
  BY PointerStep DEF Absent, Nullptr
<1>2. BoxKnown /\ BoxKnown'
  BY <1>1, BoxIsKnown, PTL
<1>3. "absent" \notin Value /\ "empty" \notin Value
  BY PointerLikeAssumption
<1>4. \A s \in Slots : BoxVal[s] = "absent" <=> storage_[s] = Absent
  BY <1>1, <1>2, <1>3 DEF BoxKnown
<1>5. ASSUME NEW s \in Slots, NEW p, NEW v \in Value, storage_[s] = Absent,
             p \notin DOMAIN content, p # Absent, p # Nullptr,
             storage_' = [storage_ EXCEPT ![s] = p], content' = With(p, v)
      PROVE  Boxes!Construct(s)
  <2>1. storage_'[s] = p /\ content'[p] = v
    BY <1>5 DEF PointerInv, StorageSound, With
  <2>2. BoxVal'[s] = v
    BY <1>2, <1>5, <2>1 DEF BoxKnown
  <2>3. BoxVal' = [BoxVal EXCEPT ![s] = BoxVal'[s]]
    BY <1>1, <1>5, OneBoxChanges DEF With
  <2> QED BY <1>4, <1>5, <2>2, <2>3 DEF Boxes!Construct
<1>6. ASSUME NEW s \in Slots, storage_[s] # Absent,
             storage_' = [storage_ EXCEPT ![s] = Absent], content' = Without(storage_[s])
      PROVE  Boxes!Destroy(s)
  <2>1. storage_'[s] = Absent
    BY <1>6 DEF PointerInv, StorageSound
  <2>2. BoxVal'[s] = "absent"
    BY <1>2, <2>1 DEF BoxKnown
  <2>3. BoxVal' = [BoxVal EXCEPT ![s] = BoxVal'[s]]
    BY <1>1, <1>6, OneBoxChanges DEF Without
  <2> QED BY <1>4, <1>6, <2>2, <2>3 DEF Boxes!Destroy
<1>7. ASSUME UNCHANGED <<storage_, content>> PROVE BoxVal' = BoxVal
  BY <1>7 DEF BoxVal, BoxOf, Alive
<1>8. ASSUME NEW s \in Slots, ConstructPool(s) PROVE Boxes!Construct(s)
  <2> DEFINE p == Malloced(PoolOf[s])
  <2>1. /\ s \in PoolSlots /\ storage_[s] = Absent
        /\ storage_' = [storage_ EXCEPT ![s] = p]
    BY <1>8 DEF ConstructPool, Alive
  <2>2. PICK v \in Value : content' = With(p, v)
    BY <1>8 DEF ConstructPool
  <2>3. p \notin Owned /\ p # Absent /\ p # Nullptr
    BY <2>1, FreshBlock
  <2> HIDE DEF p
  <2> QED BY <1>5, <2>1, <2>2, <2>3 DEF PointerInv, ContentSound
<1>9. ASSUME NEW s \in Slots, ConstructHeap(s) PROVE Boxes!Construct(s)
  <2>1. PICK p \in HeapBlock \ DOMAIN content, v \in Value :
            storage_' = [storage_ EXCEPT ![s] = p] /\ content' = With(p, v)
    BY <1>9 DEF ConstructHeap
  <2>2. p # Absent /\ p # Nullptr
    BY DEF HeapBlock, Absent, Nullptr
  <2>3. storage_[s] = Absent
    BY <1>9 DEF ConstructHeap, Alive
  <2> QED BY <1>5, <2>1, <2>2, <2>3
<1>10. ASSUME NEW s \in Slots, DestroyPool(s) \/ DestroyHeap(s) PROVE Boxes!Destroy(s)
  BY <1>6, <1>10 DEF DestroyPool, DestroyHeap, Alive
<1>11. ASSUME NEW s \in Slots, NEW d \in Slots,
              MoveAssignPool(d, s) \/ MoveAssignHeap(d, s)
       PROVE  Boxes!MoveAssign(d, s) \/ BoxVal' = BoxVal
  <2>1. storage_[d] # Absent /\ storage_[s] # Absent
    BY <1>11 DEF MoveAssignPool, MoveAssignHeap, Alive
  <2>2. CASE d = s
    <3>1. UNCHANGED <<storage_, content>>
      BY <1>11, <2>2 DEF MoveAssignPool, MoveAssignHeap, TakeOver, PointerInv, StorageSound
    <3> QED BY <1>7, <3>1
  <2>3. CASE d # s
    <3>1. PICK x \in {storage_[d], Nullptr} :
              /\ storage_' = [storage_ EXCEPT ![d] = storage_[s], ![s] = x]
              /\ content' = IF x = storage_[d] THEN content ELSE Without(storage_[d])
      <4>1. CASE MoveAssignPool(d, s)
        BY <4>1 DEF MoveAssignPool
      <4>2. CASE MoveAssignHeap(d, s)
        <5>1. /\ storage_' = [storage_ EXCEPT ![d] = storage_[s], ![s] = Nullptr]
              /\ content' = Without(storage_[d])
          BY <2>3, <4>2 DEF MoveAssignHeap, TakeOver
        <5>2. storage_[d] = Nullptr => Without(storage_[d]) = content
          BY DEF Without, PointerInv, ContentSound, Owned
        <5> QED BY <5>1, <5>2
      <4> QED BY <1>11, <4>1, <4>2
    <3>2. \E left \in {BoxVal[d], "empty"} :
              BoxVal' = [BoxVal EXCEPT ![s] = left, ![d] = BoxVal[s]]
      BY <1>1, <2>3, <3>1, TwoBoxesChange
    <3> QED BY <1>4, <2>1, <3>2 DEF Boxes!MoveAssign
  <2> QED BY <2>2, <2>3
<1>12. ASSUME NEW s \in Slots, NEW d \in Slots, MoveConstructHeap(d, s)
       PROVE  Boxes!MoveConstruct(d, s)
  <2>1. /\ storage_[d] = Absent /\ storage_[s] # Absent /\ d # s
        /\ storage_' = [storage_ EXCEPT ![d] = storage_[s], ![s] = Nullptr]
        /\ content' = content
    BY <1>12 DEF MoveConstructHeap, Alive
  <2>2. Without(storage_[d]) = content
    BY <2>1 DEF Without, PointerInv, ContentSound, Owned
  <2>3. BoxVal' = [BoxVal EXCEPT ![s] = "empty", ![d] = BoxVal[s]]
    BY <1>1, <2>1, <2>2, TwoBoxesChange
  <2> QED BY <1>4, <2>1, <2>3 DEF Boxes!MoveConstruct
<1>13. ASSUME NEW s \in Slots, ConstructPoolThrows(s) PROVE BoxVal' = BoxVal
  BY <1>7, <1>13 DEF ConstructPoolThrows
<1>14. ASSUME UNCHANGED vars PROVE BoxVal' = BoxVal
  BY <1>7, <1>14 DEF vars
<1> QED BY <1>8, <1>9, <1>10, <1>11, <1>12, <1>13, <1>14 DEF Next, Boxes!Next, Boxes!vars

(* Each variable behaves as if it had a T of its own: nothing that is done   *)
(* to the others, and no block that is used again, changes what it holds.    *)
THEOREM BoxesOfTheirOwn == Spec => ImplementsBox
<1>1. Init => Boxes!Init
  BY DEF Init, Boxes!Init, BoxVal, BoxOf, Alive
<1>2. PointerInv /\ [Next]_vars => [Boxes!Next]_(Boxes!vars)
  BY BoxStep
<1> QED BY <1>1, <1>2, PointerInvariant, PTL DEF Spec, ImplementsBox, Boxes!Spec
=============================================================================
