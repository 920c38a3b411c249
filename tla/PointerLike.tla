----------------------------- MODULE PointerLike -----------------------------
(***************************************************************************)
(* pointer_like<T> of verytb/util/pod_pointer_like.h, for the two storages *)
(* that are pointers: objects of a MemoryPool (more than 128 bytes) and    *)
(* objects of the heap (more than 4096).  The program is any sequence of   *)
(* constructions, destructions and moves of a few variables, each of a     *)
(* fixed type.                                                             *)
(***************************************************************************)
EXTENDS MemoryPool, FiniteSets

CONSTANTS
    PoolSlots,       \* variables whose T is kept in a pool
    HeapSlots,       \* variables whose T is kept on the heap
    PoolOf,          \* kPoolIndex of the type of each pool variable
    Value,           \* what a T may hold
    MaxThrows        \* bound: constructors of T that throw

Slots == PoolSlots \cup HeapSlots

ASSUME PointerLikeAssumption ==
    /\ PoolSlots \cap HeapSlots = {}
    /\ PoolOf \in [PoolSlots -> Nat]
    /\ \A s \in PoolSlots : IndexToBlockInfo(PoolOf[s]).num_blocks \in Nat \ {0}
    /\ Value \cap {"absent", "empty"} = {}    \* the names Box is given
    /\ MaxThrows \in Nat

VARIABLES
    storage_,    \* of each variable: Absent outside its lifetime
    content,     \* the T's alive: a function from their blocks to Value
    (* histories *)
    lost,        \* blocks that no one will free
    throws,
    peak         \* for each pool index, the most blocks ever in use at once

vars == <<pools_, storage_, content, lost, throws, peak>>

Absent  == << >>
Nullptr == <<"nullptr">>

(* Where new may put an object: anywhere no object is.  Enough places for   *)
(* every variable to have one.  No pool has the index kHeap.                *)
kHeap     == -1
HeapBlock == {<<kHeap, s>> : s \in HeapSlots}

Alive(s)      == storage_[s] # Absent
Owned         == {storage_[s] : s \in Slots} \ {Absent, Nullptr}
SameType(d,s) == \/ d \in HeapSlots /\ s \in HeapSlots
                 \/ d \in PoolSlots /\ s \in PoolSlots /\ PoolOf[d] = PoolOf[s]

PoolIndices == {PoolOf[s] : s \in PoolSlots}
InUse(i)    == {p \in Owned \cup lost : p[1] = i}

Init ==
    /\ pools_ = << >>
    /\ storage_ = [s \in Slots |-> Absent]
    /\ content = [p \in {} |-> FALSE]
    /\ lost = {} /\ throws = 0
    /\ peak = [i \in PoolIndices |-> 0]

With(p, v) == [q \in DOMAIN content \cup {p} |-> IF q = p THEN v ELSE content[q]]
Without(p) == [q \in DOMAIN content \ {p} |-> content[q]]

Larger(m, n) == IF m > n THEN m ELSE n
NotePeak     == peak' = [i \in PoolIndices |-> Larger(peak[i], Cardinality(InUse(i)'))]

-----------------------------------------------------------------------------
(* pointer_storage<T, eByPointerPool>. *)

ConstructPool(s) ==
    /\ s \in PoolSlots /\ ~Alive(s)
    /\ pools_' = AfterMalloc(PoolOf[s])
    /\ storage_' = [storage_ EXCEPT ![s] = Malloced(PoolOf[s])]
    /\ \E v \in Value : content' = With(Malloced(PoolOf[s]), v)
    /\ UNCHANGED <<lost, throws>>
    /\ NotePeak

(* T's constructor throws after Malloc: no destructor runs, no one frees.   *)
ConstructPoolThrows(s) ==
    /\ s \in PoolSlots /\ ~Alive(s) /\ throws < MaxThrows
    /\ pools_' = AfterMalloc(PoolOf[s])
    /\ lost' = lost \cup {Malloced(PoolOf[s])}
    /\ throws' = throws + 1
    /\ UNCHANGED <<storage_, content>>
    /\ NotePeak

DestroyPool(s) ==
    /\ s \in PoolSlots /\ Alive(s)
    /\ pools_' = AfterFree(storage_[s], PoolOf[s])
    /\ content' = Without(storage_[s])
    /\ storage_' = [storage_ EXCEPT ![s] = Absent]
    /\ UNCHANGED <<lost, throws>>
    /\ NotePeak

(* std::swap of the two pointers. *)
MoveAssignPool(d, s) ==
    /\ d \in PoolSlots /\ s \in PoolSlots /\ PoolOf[d] = PoolOf[s]
    /\ Alive(d) /\ Alive(s)
    /\ storage_' = [storage_ EXCEPT ![d] = storage_[s], ![s] = storage_[d]]
    /\ UNCHANGED <<pools_, content, lost, throws>>
    /\ NotePeak

(* storage_ is first made equal to rhs.storage_, then swapped with it.      *)
MoveConstructPool(d, s) ==
    /\ d \in PoolSlots /\ s \in PoolSlots /\ PoolOf[d] = PoolOf[s]
    /\ ~Alive(d) /\ Alive(s)
    /\ storage_' = [storage_ EXCEPT ![d] = storage_[s]]
    /\ UNCHANGED <<pools_, content, lost, throws>>
    /\ NotePeak

-----------------------------------------------------------------------------
(* pointer_storage<T, eByPointer>. *)

ConstructHeap(s) ==
    /\ s \in HeapSlots /\ ~Alive(s)
    /\ \E p \in HeapBlock \ DOMAIN content, v \in Value :
           /\ storage_' = [storage_ EXCEPT ![s] = p]
           /\ content' = With(p, v)
    /\ UNCHANGED <<pools_, lost, throws, peak>>

(* delete of a null pointer does nothing. *)
DestroyHeap(s) ==
    /\ s \in HeapSlots /\ Alive(s)
    /\ content' = Without(storage_[s])
    /\ storage_' = [storage_ EXCEPT ![s] = Absent]
    /\ UNCHANGED <<pools_, lost, throws, peak>>

(* No delete of the old T. *)
BugNoDelete(d, s) ==
    IF d = s THEN UNCHANGED <<storage_, content>>
    ELSE /\ content' = content
         /\ storage_' = [storage_ EXCEPT ![d] = storage_[s], ![s] = Nullptr]

TakeOver(d, s) ==
    IF d = s THEN UNCHANGED <<storage_, content>>
    ELSE /\ content' = Without(storage_[d])
         /\ storage_' = [storage_ EXCEPT ![d] = storage_[s], ![s] = Nullptr]

MoveAssignHeap(d, s) ==
    /\ d \in HeapSlots /\ s \in HeapSlots /\ Alive(d) /\ Alive(s)
    /\ TakeOver(d, s)
    /\ UNCHANGED <<pools_, lost, throws, peak>>

MoveConstructHeap(d, s) ==
    /\ d \in HeapSlots /\ s \in HeapSlots /\ ~Alive(d) /\ Alive(s)
    /\ storage_' = [storage_ EXCEPT ![d] = storage_[s], ![s] = Nullptr]
    /\ UNCHANGED <<pools_, content, lost, throws, peak>>

-----------------------------------------------------------------------------
Next == \E s \in Slots :
    \/ ConstructPool(s) \/ ConstructPoolThrows(s) \/ DestroyPool(s)
    \/ ConstructHeap(s) \/ DestroyHeap(s)
    \/ \E d \in Slots : \/ MoveAssignPool(d, s)
                        \/ MoveAssignHeap(d, s) \/ MoveConstructHeap(d, s)

(* Programs that do not move-construct a pool variable, and all programs.   *)
Spec       == Init /\ [][Next]_vars
MovingNext == Next \/ \E d, s \in Slots : MoveConstructPool(d, s)
MovingSpec == Init /\ [][MovingNext]_vars

-----------------------------------------------------------------------------
(* A live pooled variable holds a block of the pool of its size, cut at the *)
(* size of that pool; a free list holds blocks of its own pool.             *)
TypeOK ==
    /\ MemoryPoolTypeOK
    /\ \A s \in PoolSlots :
          Alive(s) => /\ PoolOf[s] + 1 \in PoolRange
                      /\ storage_[s] \in Blocks(PoolOf[s] + 1)
    /\ \A s \in HeapSlots : storage_[s] \in HeapBlock \cup {Absent, Nullptr}
    /\ \A p \in DOMAIN content : content[p] \in Value
    /\ throws \in 0 .. MaxThrows

(* pointer_like(const pointer_like&) is deleted: no two variables ever hold *)
(* the same block.                                                          *)
OneOwner ==
    \A s, t \in Slots :
        s # t /\ storage_[s] = storage_[t] => storage_[s] \in {Absent, Nullptr}

(* Every block a pool has cut is on its free list once, or in use by one    *)
(* variable of the pool's size class, or lost to a constructor that threw,  *)
(* and never two of these.                                                  *)
EveryBlockAccounted ==
    /\ TypeOK /\ OneOwner
    /\ \A k \in PoolRange :
           /\ Cardinality(Free(k)) = Len(pools_[k].free_list)
           /\ Free(k) \cap (Owned \cup lost) = {}
           /\ Owned \cap lost = {}
           /\ Free(k) \cup InUse(k - 1) = Blocks(k)

(* The T's alive are those of the variables alive: none is destroyed under  *)
(* its variable, and none outlives it, whatever was moved where.            *)
ObjectsMatchOwners == DOMAIN content = Owned

(* A pool gives no memory back, but takes none before it needs it: without  *)
(* its last array it could not have held what was in use at the worst time. *)
Footprint ==
    \A k \in PoolRange :
        pools_[k].arrays > 0 =>
            (pools_[k].arrays - 1) * pools_[k].block_info.num_blocks < peak[k - 1]

-----------------------------------------------------------------------------
BoxOf(s) ==
    IF ~Alive(s) THEN "absent"
    ELSE IF storage_[s] = Nullptr THEN "empty"
    ELSE IF storage_[s] \in DOMAIN content THEN content[storage_[s]] ELSE "dangling"

BoxVal == [s \in Slots |-> BoxOf(s)]

Boxes == INSTANCE Box WITH Absent <- "absent", Empty <- "empty", val <- BoxVal

(* Each variable behaves as if it had a T of its own. *)
ImplementsBox == Boxes!Spec
=============================================================================
