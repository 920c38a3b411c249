------------------------------ MODULE PcpiPort ------------------------------
(***************************************************************************)
(* The co-processor interface (PCPI) of picorv32: which instructions there *)
(* are, and what RISC-V says they compute, for registers of W bits.        *)
(***************************************************************************)
EXTENDS Integers

CONSTANT W

ASSUME WidthAssumption == W \in Nat \ {0, 1}

MulOp == {"mul", "mulh", "mulhsu", "mulhu"}
DivOp == {"div", "divu", "rem", "remu"}
OtherOp == "other"        \* of neither unit
None    == "none"

Word  == 0 .. 2^W - 1
MinusOne == 2^W - 1

Negative(x) == x >= 2^(W - 1)
Signed(x)   == IF Negative(x) THEN x - 2^W ELSE x
Abs(n)      == IF n < 0 THEN -n ELSE n

(* Rounding towards zero; the remainder has the sign of the dividend.       *)
Quotient(n, d)  == IF (n < 0) = (d < 0) THEN Abs(n) \div Abs(d) ELSE -(Abs(n) \div Abs(d))
Remainder(n, d) == n - d * Quotient(n, d)

(* The RISC-V M extension.                                                  *)
Result(op, a, b) ==
    CASE op = "mul"    -> (a * b) % 2^W
      [] op = "mulh"   -> ((Signed(a) * Signed(b)) \div 2^W) % 2^W
      [] op = "mulhsu" -> ((Signed(a) * b) \div 2^W) % 2^W
      [] op = "mulhu"  -> (a * b) \div 2^W
      [] op = "div"    -> IF b = 0 THEN MinusOne ELSE Quotient(Signed(a), Signed(b)) % 2^W
      [] op = "divu"   -> IF b = 0 THEN MinusOne ELSE a \div b
      [] op = "rem"    -> IF b = 0 THEN a ELSE Remainder(Signed(a), Signed(b)) % 2^W
      [] op = "remu"   -> IF b = 0 THEN a ELSE a % b
=============================================================================
