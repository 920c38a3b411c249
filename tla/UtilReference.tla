---------------------------- MODULE UtilReference ----------------------------
(***************************************************************************)
(* The bit manipulations of Bits, the pool sizes of PoolIndex and the      *)
(* strings of Venum against what they are for, for each of a set of        *)
(* numbers and of enumerations.  The unit test of SizeToIndex tries twelve *)
(* sizes; here every size is tried.                                        *)
(***************************************************************************)
EXTENDS PoolIndex, FiniteSets, Venum

CONSTANTS
    Inputs,     \* bound: the numbers tried
    Enums,      \* bound: the enumerations, as the values of the enumerators
    EnumName    \* the names of the enumerators

VARIABLES n, enum

BitsSet(x) == Cardinality({i \in 0 .. 30 : Bit(x, i) = 1})
Width(x)   == Cardinality({i \in 0 .. 30 : 2^i <= x})

Init == \/ n \in Inputs /\ enum = << >>
        \/ n = 0 /\ enum \in Enums
Next == UNCHANGED <<n, enum>>
Spec == Init /\ [][Next]_<<n, enum>>

(* popcount counts the ones, and has_single_bit says whether there is one.  *)
PopcountCounts == popcount(n) = BitsSet(n) /\ has_single_bit(n) = (BitsSet(n) = 1)

(* digits is the length of the number in binary. *)
DigitsIsWidth == digits(n) = Width(n)

(* A byte of the mask is 0xff where the strobe has a one, and 0 elsewhere;  *)
(* a strobe of more bits than lanes spills into none.  Merge of AxiMemory   *)
(* takes the mask to be that.                                               *)
MaskMatchesStrobe ==
    \A l \in MaskLanes :
        Shr(BitMaskToByteMask(n % 256), 8 * l) % 256 = 255 * Bit(n, l)

(* Every stage of the bit tricks does its part, for every number tried.     *)
BitTricks == PopcountCounts /\ DigitsIsWidth /\ MaskMatchesStrobe

-----------------------------------------------------------------------------
(* The size of a type is n. *)
Pooled == kPointerMode(n) = "eByPointerPool"

(* What pod_pointer_like.test.cpp:34-41 expects of the block of a size, at  *)
(* all the sizes that are pooled.                                           *)
BlockFits ==
    Pooled => LET info == IndexToBlockInfo(SizeToIndex(n))
              IN /\ info.block_bytes \in n .. kPointerThreshold
                 /\ info.block_bytes > kPointerPoolThreshold
                 /\ info.block_bytes < (n * 3) \div 2
                 /\ info.num_blocks >= 4

(* SizeToIndex picks the first pool whose blocks are large enough: it is    *)
(* the inverse of IndexToBlockInfo, which it claims "to match".             *)
FirstThatFits ==
    Pooled => LET index == SizeToIndex(n)
              IN /\ index \in 0 .. 9
                 /\ \A i \in 0 .. 9 : IndexToBlockInfo(i).block_bytes >= n
                                     <=> i >= index

(* A size gets a block that is large enough, not too large, and of the pool *)
(* that is meant for it.                                                    *)
SizeClasses == BlockFits /\ FirstThatFits

-----------------------------------------------------------------------------
(* A venum may hold one value more than its enumerators have. *)
EnumNames  == SubSeq(EnumName, 1, Len(enum))
Held       == {enum[i] : i \in DOMAIN enum} \cup {0}
to_string(v) ==
    GetEnumStringRepresentation(v, ConstructValueToNameMap(enum, EnumNames))

(* What is printed tells the values a venum may hold apart, valid or not,    *)
(* with aliases next to each other or not; and it is the name of an          *)
(* enumerator, or of the first of two or more and the other of two           *)
(* (venum.test.cpp:46-57).                                                   *)
StringTellsValue ==
    /\ \A v, w \in Held : v # w => to_string(v) # to_string(w)
    /\ \A i \in DOMAIN enum :
          LET others == {j \in DOMAIN enum \ {i} : enum[j] = enum[i]}
          IN (\A j \in others : i < j) =>
                to_string(enum[i]) \in
                    IF others = {} THEN {EnumName[i]}
                    ELSE IF Cardinality(others) = 1
                    THEN {EnumName[i] \o "/" \o EnumName[j] : j \in others}
                    ELSE {EnumName[i] \o "/..."}
=============================================================================
