------------------------------ MODULE MemoryPool ------------------------------
(***************************************************************************)
(* class MemoryPool of verytb/util/pod_pointer_like.h and .cpp: one pool   *)
(* of equal blocks for each pool index, created when first asked for, that *)
(* grows by an array of blocks when its free list is empty and never gives *)
(* one back.  A block is named <<pool index, array, place in the array>>.  *)
(* The operators take the vector pools_ and give what it becomes.          *)
(***************************************************************************)
EXTENDS PoolBlocks, Sequences

VARIABLE pools_      \* pools_[i + 1] is the C++ pools_[i]

(* A PoolWrapper as resize() makes it. *)
NewPool == [arrays |-> 0, free_list |-> << >>,
            block_info |-> [block_bytes |-> 0, num_blocks |-> 0]]

LazyInitializeToPoolIndex(pools, pool_index) ==
    [k \in 1 .. pool_index + 1 |->
        LET pool == IF k <= Len(pools) THEN pools[k] ELSE NewPool
        IN IF pool.block_info.block_bytes = 0
           THEN [pool EXCEPT !.block_info = IndexToBlockInfo(k - 1)] ELSE pool]

(* The loop index left out of the address. *)
BugNoStride(pool, pool_index) ==
    [pool EXCEPT
        !.arrays = @ + 1,
        !.free_list = @ \o [i \in 1 .. pool.block_info.num_blocks |->
                                <<pool_index, pool.arrays, 0>>]]

(* A new array of blocks, cut up and put on the free list in order. *)
EnsureEnoughFree(pool, pool_index) ==
    [pool EXCEPT
        !.arrays = @ + 1,
        !.free_list = @ \o [i \in 1 .. pool.block_info.num_blocks |->
                                <<pool_index, pool.arrays, i - 1>>]]

(* Growing with a block to spare. *)
BugGrowsEarly(pool, pool_index) ==
    IF Len(pool.free_list) <= 1 THEN EnsureEnoughFree(pool, pool_index) ELSE pool

Stocked(pool, pool_index) ==
    IF pool.free_list = << >> THEN EnsureEnoughFree(pool, pool_index) ELSE pool

PopBack(pool) ==
    [pool EXCEPT !.free_list = SubSeq(@, 1, Len(@) - 1)]

Initialized(pool_index) ==
    IF pool_index >= Len(pools_)
    THEN LazyInitializeToPoolIndex(pools_, pool_index) ELSE pools_

(* MemoryPool::Malloc: the pool the block comes from, the block, and the    *)
(* pools afterwards.                                                        *)
Source(pool_index) == Stocked(Initialized(pool_index)[pool_index + 1], pool_index)

Malloced(pool_index) ==
    LET free_list == Source(pool_index).free_list IN free_list[Len(free_list)]

AfterMalloc(pool_index) ==
    [Initialized(pool_index) EXCEPT ![pool_index + 1] = PopBack(Source(pool_index))]

(* No push_back. *)
BugBlockLost(ptr, pool_index) == pools_

(* MemoryPool::Free. *)
AfterFree(ptr, pool_index) ==
    [pools_ EXCEPT ![pool_index + 1].free_list = Append(@, ptr)]

-----------------------------------------------------------------------------
PoolRange == 1 .. Len(pools_)

(* All the blocks a pool has ever cut, and those on its free list. *)
Blocks(k) ==
    {<<k - 1, a, i>> : a \in 0 .. pools_[k].arrays - 1,
                       i \in 0 .. pools_[k].block_info.num_blocks - 1}

Free(k) == {pools_[k].free_list[i] : i \in 1 .. Len(pools_[k].free_list)}

(* Pools keep the size Init gave them and free blocks of their own arrays. *)
MemoryPoolTypeOK ==
    \A k \in PoolRange :
        /\ pools_[k].arrays \in Nat
        /\ pools_[k].block_info = IndexToBlockInfo(k - 1)
        /\ \A i \in 1 .. Len(pools_[k].free_list) : pools_[k].free_list[i] \in Blocks(k)
=============================================================================
