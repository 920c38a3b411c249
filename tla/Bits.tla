--------------------------------- MODULE Bits ---------------------------------
(***************************************************************************)
(* The bit manipulations of verytb/util/bit.h and BitMaskToByteMask of     *)
(* sim/picorv32-main/main.cpp, as they compute, on unsigned numbers below  *)
(* 2^31 (TLC has no larger ones).                                          *)
(***************************************************************************)
EXTENDS Integers, Bitwise

Shr(x, n) == x \div 2^n

(* 0x55555555, 0x33333333 and 0x0F0F0F0F. *)
Fives  == 1431655765
Threes == 858993459
Nibble == 252645135

has_single_bit(x) == x # 0 /\ x & (x - 1) = 0

popcount(x) ==
    LET a == x - (Shr(x, 1) & Fives)
        b == (a & Threes) + (Shr(a, 2) & Threes)
        c == (b + Shr(b, 4)) & Nibble
        d == c + Shr(c, 8)
        e == d + Shr(d, 16)
    IN e & 63

(* Smearing over 8 bits only. *)
BugShortSmear(x) ==
    LET a == x | Shr(x, 1)
        b == a | Shr(a, 2)
        c == b | Shr(b, 4)
    IN popcount(c)

digits(x) ==
    LET a == x | Shr(x, 1)
        b == a | Shr(a, 2)
        c == b | Shr(b, 4)
        d == c | Shr(c, 8)
        e == d | Shr(d, 16)
    IN popcount(e)

(* _pdep_u32(bit_mask, 0x10101010), on the bytes the number has room for:   *)
(* bit i of bit_mask goes to bit 8 * i + 4.                                 *)
MaskLanes == 0 .. 2
Bit(x, i) == Shr(x, i) % 2
pdep(bit_mask) ==
    Bit(bit_mask, 0) * 2^4 + Bit(bit_mask, 1) * 2^12 + Bit(bit_mask, 2) * 2^20

BitMaskToByteMask(bit_mask) ==
    LET a == pdep(bit_mask)
        b == a - Shr(a, 4)
    IN b | (b * 16)
=============================================================================
