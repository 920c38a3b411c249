------------------------------ MODULE PoolBlocks ------------------------------
(***************************************************************************)
(* The block sizes of verytb/util/pod_pointer_like.h: which pool an object *)
(* of a given size comes from, and what that pool's blocks are.            *)
(***************************************************************************)
EXTENDS Integers

CONSTANT kMaxBlocksPerAllocation      \* 128

ASSUME PoolBlocksAssumption == kMaxBlocksPerAllocation \in Nat \ {0}

kPointerPoolThreshold == 128
kPointerThreshold     == 4096

IndexToBlockInfo(index) ==
    [block_bytes |-> (IF index % 2 = 0 THEN 3 ELSE 4) * 2^(6 + index \div 2),
     num_blocks  |-> kMaxBlocksPerAllocation \div 2^(index \div 2)]
=============================================================================
