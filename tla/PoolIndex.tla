------------------------------ MODULE PoolIndex ------------------------------
(***************************************************************************)
(* From the size of a type to the pool its objects come from: SizeToIndex  *)
(* and PoolAllocationInfo of verytb/util/pod_pointer_like.h.               *)
(***************************************************************************)
EXTENDS PoolBlocks, Bits

(* No s -= 1. *)
BugNoMinusOne(type_size) ==
    LET s == type_size \div (kPointerPoolThreshold \div 2)
        shift == digits(s) - 2
    IN 2 * shift + (IF Shr(s, shift) = 3 THEN 1 ELSE 0)

SizeToIndex(type_size) ==
    LET s == (type_size - 1) \div (kPointerPoolThreshold \div 2)
        shift == digits(s) - 2
    IN 2 * shift + (IF Shr(s, shift) = 3 THEN 1 ELSE 0)

kPointerMode(type_size) ==
    IF type_size > kPointerThreshold THEN "eByPointer"
    ELSE IF type_size > kPointerPoolThreshold THEN "eByPointerPool"
    ELSE "eByValue"
=============================================================================
