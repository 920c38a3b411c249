----------------------------- MODULE Pcpi_proofs -----------------------------
(***************************************************************************)
(* What Pcpi checks for words of three bits, proved for words of any       *)
(* width: both units answer the instruction that is asked, when they are   *)
(* expected to, and are the co-processors that the model of the core is    *)
(* composed with; the divider's quotients and remainders are those of      *)
(* RISC-V, and the multiplier's products, for a carry save accumulator of  *)
(* any chain length.                                                       *)
(***************************************************************************)
EXTENDS Pcpi, Numbers_proofs, FiniteSets, FiniteSetTheorems, FunctionTheorems, TLAPS

(* The multiplier's steps, one for each bit of the result it computes. *)
Steps(op) == IF op = "mul" THEN W ELSE 2 * W

(* The registers of the units. *)
MulRecord(u) ==
    u = [instr |-> u.instr, wait |-> u.wait, wait_q |-> u.wait_q, rs1 |-> u.rs1,
         rs2 |-> u.rs2, rd |-> u.rd, rdx |-> u.rdx, counter |-> u.counter,
         waiting |-> u.waiting, finish |-> u.finish, ready |-> u.ready,
         result |-> u.result]

DivRecord(u) ==
    u = [instr |-> u.instr, wait |-> u.wait, wait_q |-> u.wait_q,
         dividend |-> u.dividend, divisor |-> u.divisor, quotient |-> u.quotient,
         quotient_msk |-> u.quotient_msk, running |-> u.running,
         outsign |-> u.outsign, ready |-> u.ready, result |-> u.result]

(* The core has the operands on the interface, and nothing in reset or before. *)
PortInv ==
    /\ port \in [valid : BOOLEAN, op : MulOp \cup DivOp \cup {OtherOp},
                 rs1 : Word, rs2 : Word]
    /\ resetn \in BOOLEAN /\ booted \in BOOLEAN /\ age \in Nat
    /\ ~Started => ~port.valid

MulType ==
    /\ MulRecord(mul)
    /\ mul.wait \in BOOLEAN /\ mul.wait_q \in BOOLEAN
    /\ mul.waiting \in BOOLEAN /\ mul.finish \in BOOLEAN /\ mul.ready \in BOOLEAN

(* Before the reset the multiplier steps on from zero, with nothing asked:   *)
(* it is at work for two edges, and answers at the third.                   *)
MulBoots ==
    /\ mul.instr = None /\ ~mul.wait /\ ~mul.wait_q
    /\ mul.waiting <=> age >= 2
    /\ mul.finish <=> age = 2
    /\ mul.ready <=> age = 3
    /\ age = 0 => mul.counter = 0
    /\ age = 1 => mul.counter = Mul!CounterRange - 1

(* In reset it sees and answers nothing. *)
MulInReset == mul.instr = None /\ ~mul.wait /\ ~mul.wait_q /\ ~mul.ready

(* Without an instruction of its own it waits; it may have noticed the last *)
(* one once more while it answered, but does not start with it.             *)
MulRests ==
    /\ mul.waiting /\ ~mul.finish /\ ~mul.ready
    /\ mul.wait => mul.wait_q
    /\ mul.instr # None => mul.wait /\ mul.wait_q

(* With one, its state is that of its age. *)
MulAt(u, op, k) ==
    LET n == Steps(op)
    IN /\ k <= n + 4
       /\ u.instr = IF k = 0 THEN None ELSE op
       /\ k = 0 => (u.wait => u.wait_q)
       /\ k > 0 => (u.wait <=> k >= 2)
       /\ k > 1 => (u.wait_q <=> k >= 3)
       /\ u.waiting <=> k < 3 \/ k > n + 2
       /\ u.finish <=> k = n + 3
       /\ u.ready <=> k = n + 4
       /\ k \in 3 .. n + 1 => u.counter = n + 1 - k
       /\ k = n + 2 => u.counter = Mul!CounterRange - 1

MulInv ==
    /\ MulType
    /\ ~booted => MulBoots
    /\ booted /\ ~resetn => MulInReset
    /\ Started /\ ~Asked(MulOp) => MulRests
    /\ Started /\ Asked(MulOp) => MulAt(mul, port.op, age)

-----------------------------------------------------------------------------
DivType ==
    /\ DivRecord(div)
    /\ div.wait \in BOOLEAN /\ div.wait_q \in BOOLEAN
    /\ div.running \in BOOLEAN /\ div.ready \in BOOLEAN

DivRests ==
    /\ div.instr = None /\ ~div.running /\ ~div.ready
    /\ div.wait => div.wait_q
    /\ ~resetn => ~div.wait

(* The divider tries the bits of the quotient from the top: the one it      *)
(* tries, and the weight of what has been tried.                            *)
Bit(j)  == IF j < W THEN 2^(W - 1 - j) ELSE 0
Left(j) == 2^(W - j)

IsSigned(op) == op \in {"div", "rem"}
Dividend(in) == Div!Magnitude(IsSigned(in.op), in.rs1)
Divisor(in)  == Div!Magnitude(IsSigned(in.op), in.rs2)

(* What is left, x, of dividing a by b, and the quotient so far, q, when the *)
(* bits down to m have been tried: dividing by zero, all of them have been   *)
(* set.                                                                      *)
Divides(a, b, m, x, q) ==
    /\ x \in Nat /\ q \in Nat
    /\ \E t \in Nat : q = m * t
    /\ b # 0 => q * b + x = a /\ x < b * m
    /\ b = 0 => x = a /\ q = 2^W - m

Tried(u, in, j) ==
    /\ Divides(Dividend(in), Divisor(in), Left(j), u.dividend, u.quotient)
    /\ u.quotient_msk = Bit(j)
    /\ j < W => u.divisor = Divisor(in) * Bit(j)

DivAt(u, in, k) ==
    /\ k <= W + 4
    /\ u.instr = IF k = 0 THEN None ELSE in.op
    /\ k = 0 => (u.wait => u.wait_q)
    /\ k > 0 => (u.wait <=> k >= 2)
    /\ k > 1 => (u.wait_q <=> k >= 3)
    /\ u.running <=> k \in 3 .. W + 3
    /\ u.ready <=> k = W + 4
    /\ k \in 3 .. W + 3 => Tried(u, in, k - 3) /\ u.outsign = Div!OutSign(u, in)
    /\ k = W + 4 => u.result = Result(in.op, in.rs1, in.rs2)

DivInv ==
    /\ DivType
    /\ ~Asked(DivOp) => DivRests
    /\ Asked(DivOp) => DivAt(div, port, age)

PcpiInv == PortInv /\ MulInv /\ DivInv

-----------------------------------------------------------------------------
(* Arithmetic.                                                               *)

(* Trying the bit m.                                                         *)
Tries(b, m, x, q, x2, q2) ==
    /\ b * m <= x => x2 = x - b * m /\ q2 = Div!WithBit(q, m)
    /\ ~(b * m <= x) => x2 = x /\ q2 = q

(* Trying one bit more keeps what is left and the quotient together.         *)
LEMMA Trial ==
    ASSUME NEW a \in Nat, NEW b \in Nat, NEW m \in Nat, m > 0, 2^W \in Nat,
           NEW x, NEW q, NEW x2, NEW q2,
           Divides(a, b, 2 * m, x, q), Tries(b, m, x, q, x2, q2)
    PROVE  Divides(a, b, m, x2, q2)
<1> DEFINE N == 2^W
<1> SUFFICES /\ x2 \in Nat /\ q2 \in Nat
             /\ \E s \in Nat : q2 = m * s
             /\ b # 0 => q2 * b + x2 = a /\ x2 < b * m
             /\ b = 0 => x2 = a /\ q2 = N - m
  BY DEF Divides
<1>a. PICK t \in Nat : q = 2 * m * t  BY DEF Divides
<1>b. /\ x \in Nat /\ q \in Nat /\ N \in Nat
      /\ b # 0 => q * b + x = a /\ x < b * (2 * m)
      /\ b = 0 => x = a /\ q = N - 2 * m
      /\ b * m <= x => x2 = x - b * m /\ q2 = Div!WithBit(q, m)
      /\ ~(b * m <= x) => x2 = x /\ q2 = q
  BY DEF Divides, Tries
<1> HIDE DEF N
<1>1. b * m \in Nat  OBVIOUS
<1>2. Div!WithBit(q, m) = q + m
  <2>1. q = (2 * t) * m + 0 /\ 2 * t \in Int /\ 0 \in 0 .. m - 1  BY <1>a, <1>b
  <2>2. q \div m = 2 * t  BY <1>a, <1>b, <2>1, DivUnique
  <2>3. (2 * t) % 2 = 0  OBVIOUS
  <2> QED  BY <2>2, <2>3 DEF Div!WithBit
<1>3. /\ q \in Nat /\ q + m \in Nat
      /\ \E s \in Nat : q = m * s
      /\ \E s \in Nat : q + m = m * s
  <2>1. q = m * (2 * t) /\ 2 * t \in Nat  BY <1>a, <1>b
  <2>2. q + m = m * (2 * t + 1) /\ 2 * t + 1 \in Nat  BY <1>a, <1>b
  <2>3. q \in Nat /\ q + m \in Nat  BY <1>a, <1>b
  <2> QED  BY <1>a, <1>b, <2>1, <2>2, <2>3
<1>4. CASE b = 0
  <2>1. b * m = 0  BY <1>a, <1>b, <1>4
  <2>2. x2 = x /\ q2 = q + m  BY <1>a, <1>b, <1>2, <2>1
  <2>3. q2 = N - m  BY <1>a, <1>b, <1>4, <2>2
  <2> QED  BY <1>a, <1>b, <1>3, <1>4, <2>2, <2>3
<1>5. CASE b # 0 /\ b * m <= x
  <2>1. x2 = x - b * m /\ q2 = q + m  BY <1>a, <1>b, <1>2, <1>5
  <2>2. (q + m) * b = q * b + b * m  BY <1>a, <1>b
  <2>3. b * (2 * m) = b * m + b * m  BY <1>a, <1>b
  <2>4. q * b \in Nat  BY <1>a, <1>b
  <2>5. x2 \in Nat /\ x2 < b * m  BY <1>a, <1>b, <1>1, <1>5, <2>1, <2>3
  <2>6. q2 * b + x2 = a  BY <1>a, <1>b, <1>1, <1>5, <2>1, <2>2, <2>4
  <2>7. q2 \in Nat /\ \E s \in Nat : q2 = m * s  BY <1>a, <1>b, <1>3, <2>1
  <2> QED  BY <1>a, <1>b, <1>5, <2>5, <2>6, <2>7
<1>6. CASE b # 0 /\ ~(b * m <= x)
  <2>1. x2 = x /\ q2 = q  BY <1>a, <1>b, <1>6
  <2>2. x < b * m  BY <1>a, <1>b, <1>1, <1>6
  <2>3. q2 * b + x2 = a  BY <1>a, <1>b, <1>6, <2>1
  <2> QED  BY <1>a, <1>b, <1>3, <1>6, <2>1, <2>2, <2>3
<1> QED  BY <1>a, <1>b, <1>4, <1>5, <1>6

(* Words have two bits at least, and the counter has room for their steps.   *)
LEMMA WidthFacts ==
    /\ W \in Nat /\ W >= 2
    /\ Mul!CounterRange = 4 * W /\ Mul!CounterRange \div 2 = 2 * W
    /\ 2^W \in Nat /\ 2^(W - 1) \in Nat /\ 2^(W - 1) > 0 /\ 2^W = 2 * 2^(W - 1)
<1>1. W \in Nat /\ W >= 2 /\ W - 1 \in Nat /\ W - 1 + 1 = W  BY WidthAssumption
<1>2. Mul!CounterRange = 4 * W /\ Mul!CounterRange \div 2 = 2 * W
  BY <1>1 DEF Mul!CounterRange
<1>3. 2^(W - 1 + 1) = 2 * 2^(W - 1)  BY <1>1, TwoExp
<1>4. 2^W \in Nat /\ 2^(W - 1) \in Nat /\ 2^(W - 1) > 0  BY <1>1, TwoPositive
<1> QED  BY <1>1, <1>2, <1>3, <1>4

(* The operands and the instruction are on the interface.                    *)
LEMMA PortFacts ==
    ASSUME PortInv
    PROVE  /\ port.valid \in BOOLEAN /\ port.rs1 \in Word /\ port.rs2 \in Word
           /\ port.op \in MulOp \cup DivOp \cup {OtherOp}
  BY DEF PortInv

(* The core keeps its side of the interface.                                 *)
LEMMA PortStep == PortInv /\ [Next]_vars => PortInv'
<1> SUFFICES ASSUME PortInv, [Next]_vars PROVE PortInv'
  OBVIOUS
<1>1. 0 \in Word
  BY WidthFacts DEF Word
<1>2. Idle \in [valid : BOOLEAN, op : MulOp \cup DivOp \cup {OtherOp},
                rs1 : Word, rs2 : Word]
  BY <1>1 DEF Idle
<1>a. CASE PowerUp
  <2>1. age' \in Nat /\ resetn' \in BOOLEAN /\ ~booted /\ booted' = booted /\ port' = port
    BY <1>a DEF PortInv, PowerUp
  <2> QED  BY <2>1 DEF PortInv, Started
<1>3. CASE Reset
  <2>1. resetn' \in BOOLEAN /\ booted' = TRUE /\ age' = 0 /\ port' = port /\ ~port.valid
    BY <1>3 DEF PortInv, Reset, Started
  <2> QED  BY <2>1 DEF PortInv
<1>4. CASE Rest  BY <1>4 DEF PortInv, Rest, Started
<1>5. CASE Hold
  <2>1. age' \in Nat  BY <1>5 DEF PortInv, Hold
  <2> QED  BY <1>5, <2>1 DEF PortInv, Hold, Started
<1>6. CASE Take \/ GiveUp  BY <1>2, <1>6 DEF PortInv, Take, GiveUp, Started
<1>7. ASSUME NEW op \in MulOp \cup DivOp \cup {OtherOp}, NEW a \in Word, NEW b \in Word,
             Ask(op, a, b)
      PROVE  PortInv'
  BY <1>7 DEF PortInv, Ask, Started
<1>8. CASE UNCHANGED vars  BY <1>8 DEF PortInv, vars, Started
<1> QED  BY <1>a, <1>1, <1>3, <1>4, <1>5, <1>6, <1>7, <1>8 DEF Next

(* What an edge does to the registers of the multiplier that decide when it  *)
(* answers.                                                                  *)
LEMMA MulEdge ==
    ASSUME MulType, Units, resetn \in BOOLEAN, port.valid \in BOOLEAN
    PROVE  /\ MulType'
           /\ mul'.instr = IF resetn /\ Asked(MulOp) THEN port.op ELSE None
           /\ mul'.wait <=> mul.instr # None
           /\ mul'.wait_q <=> mul.wait
           /\ mul'.ready <=> mul.finish /\ resetn
           /\ ~resetn => mul'.waiting /\ ~mul'.finish
           /\ resetn /\ mul.waiting =>
                  /\ mul'.waiting <=> ~(mul.wait /\ ~mul.wait_q)
                  /\ ~mul'.finish
                  /\ mul'.counter = Mul!FirstCount(mul)
           /\ resetn /\ ~mul.waiting =>
                  /\ mul'.waiting <=> mul.counter >= Mul!CounterRange \div 2
                  /\ mul'.finish <=> mul'.waiting
                  /\ mul'.counter = (mul.counter - 1) % Mul!CounterRange
<1> DEFINE w == Mul!Work(mul, port, resetn)
           last == mul.counter >= Mul!CounterRange \div 2
<1>1. MulRecord(w)
  BY DEF MulType, MulRecord, Mul!Work, Mul!Stopped, Mul!Load, Mul!Step
<1>2. ~resetn => w.waiting = TRUE /\ w.finish = FALSE
  BY DEF MulType, MulRecord, Mul!Work, Mul!Stopped
<1>3. resetn /\ mul.waiting => /\ w.waiting = ~(mul.wait /\ ~mul.wait_q)
                               /\ w.finish = FALSE
                               /\ w.counter = Mul!FirstCount(mul)
  BY DEF MulType, MulRecord, Mul!Work, Mul!Load, Mul!mul_start
<1>4. resetn /\ ~mul.waiting => /\ last \in BOOLEAN /\ w.waiting = last
                                /\ w.finish = w.waiting
                                /\ w.counter = (mul.counter - 1) % Mul!CounterRange
  BY DEF MulType, MulRecord, Mul!Work, Mul!Step
<1>5. mul' = [w EXCEPT !.instr = IF resetn /\ Asked(MulOp) THEN port.op ELSE None,
                       !.wait = mul.instr # None, !.wait_q = mul.wait,
                       !.ready = mul.finish /\ resetn, !.result = mul'.result]
  <2>1. mul' = [w EXCEPT !.instr = IF resetn /\ Asked(MulOp) THEN port.op ELSE None,
                         !.wait = mul.instr # None, !.wait_q = mul.wait,
                         !.ready = mul.finish /\ resetn,
                         !.result = IF ~(mul.finish /\ resetn) THEN 0
                                    ELSE IF Mul!instr_any_mulh(mul) THEN mul.rd \div 2^W
                                    ELSE mul.rd % 2^W]
    BY DEF Units, Mul!MulNext, Asked, MulOp, None, Mul!MulOp, Mul!None
  <2> HIDE DEF w
  <2> QED  BY <1>1, <2>1 DEF MulRecord
<1> HIDE DEF w
<1>6. /\ mul'.instr = IF resetn /\ Asked(MulOp) THEN port.op ELSE None
      /\ mul'.wait = (mul.instr # None) /\ mul'.wait_q = mul.wait
      /\ mul'.ready = (mul.finish /\ resetn)
      /\ mul'.waiting = w.waiting /\ mul'.finish = w.finish /\ mul'.counter = w.counter
      /\ MulRecord(mul')
  BY <1>1, <1>5 DEF MulRecord
<1> HIDE DEF last
<1>7. /\ mul'.wait \in BOOLEAN /\ mul'.wait_q \in BOOLEAN /\ mul'.ready \in BOOLEAN
      /\ mul'.wait <=> mul.instr # None
      /\ mul'.wait_q <=> mul.wait
      /\ mul'.ready <=> mul.finish /\ resetn
  BY <1>6 DEF MulType
<1>8. resetn /\ ~mul.waiting => /\ mul'.waiting \in BOOLEAN
                                /\ mul'.waiting <=> last
                                /\ mul'.finish <=> mul'.waiting
                                /\ mul'.finish \in BOOLEAN
  BY <1>4, <1>6
<1>9. resetn /\ mul.waiting => /\ mul'.waiting \in BOOLEAN /\ mul'.finish \in BOOLEAN
                               /\ mul'.waiting <=> ~(mul.wait /\ ~mul.wait_q)
                               /\ ~mul'.finish
  BY <1>3, <1>6 DEF MulType
<1>10. ~resetn => /\ mul'.waiting \in BOOLEAN /\ mul'.finish \in BOOLEAN
                  /\ mul'.waiting /\ ~mul'.finish
  BY <1>2, <1>6
<1>11. MulType'  BY <1>6, <1>7, <1>8, <1>9, <1>10 DEF MulType
<1> QED  BY <1>3, <1>4, <1>6, <1>7, <1>8, <1>9, <1>10, <1>11 DEF last

(* Counting down, past zero to the top of the range.                         *)
LEMMA Countdown ==
    \A n \in 0 .. 4 * W - 1 : (n - 1) % (4 * W) = IF n = 0 THEN 4 * W - 1 ELSE n - 1
<1> SUFFICES ASSUME NEW n \in 0 .. 4 * W - 1
             PROVE  (n - 1) % (4 * W) = IF n = 0 THEN 4 * W - 1 ELSE n - 1
  OBVIOUS
<1>1. 4 * W \in Nat /\ 4 * W > 0  BY WidthFacts
<1>2. CASE n = 0
  <2>1. n - 1 = -1 * (4 * W) + (4 * W - 1) /\ 4 * W - 1 \in 0 .. 4 * W - 1
    BY <1>1, <1>2
  <2> QED  BY <1>1, <1>2, <2>1, DivUnique
<1>3. CASE n # 0
  <2>1. n - 1 = 0 * (4 * W) + (n - 1) /\ n - 1 \in 0 .. 4 * W - 1
    BY <1>1, <1>3
  <2> QED  BY <1>1, <1>3, <2>1, DivUnique
<1> QED  BY <1>2, <1>3

(* A counter that shows how many of n steps are left goes on showing it.     *)
LEMMA CountsOn ==
    ASSUME NEW n \in Nat, NEW k \in Nat, NEW top, NEW c, NEW d,
           k # n + 2 => c = n + 1 - k,
           c = 0 => d = top, c # 0 => d = c - 1
    PROVE  /\ k + 1 \in 3 .. n + 1 => d = n + 1 - (k + 1)
           /\ k + 1 = n + 2 => d = top
<1>1. ASSUME k + 1 \in 3 .. n + 1 PROVE d = n + 1 - (k + 1)
  <2>1. k # n + 2 /\ n + 1 - k # 0  BY <1>1
  <2>2. c = n + 1 - k  BY <2>1
  <2> QED  BY <2>1, <2>2
<1>2. ASSUME k + 1 = n + 2 PROVE d = top
  <2>1. k # n + 2 /\ n + 1 - k = 0  BY <1>2
  <2> QED  BY <2>1
<1> QED  BY <1>1, <1>2

(* The multiplier stays out of it while another instruction is asked.        *)
LEMMA MulRestsStep ==
    ASSUME PortInv, MulInv, Started, ~Asked(MulOp), Units
    PROVE  MulType' /\ MulRests' /\ mul'.instr = None
<1>1. MulType /\ MulRests /\ resetn  BY DEF MulInv, Started
<1>2. resetn \in BOOLEAN /\ port.valid \in BOOLEAN  BY DEF PortInv
<1> QED  BY <1>1, <1>2, MulEdge DEF MulRests, MulType

(* With an instruction of its own it goes from one state to the next.        *)
LEMMA MulAsked ==
    ASSUME PortInv, MulInv, Started, Asked(MulOp), ~pcpi_int_ready, Units
    PROVE  MulType' /\ MulAt(mul', port.op, age + 1)
<1> DEFINE n == Steps(port.op)
<1>1. MulType /\ MulAt(mul, port.op, age) /\ resetn  BY DEF MulInv, Started
<1>2. resetn \in BOOLEAN /\ port.valid \in BOOLEAN /\ age \in Nat  BY DEF PortInv
<1>3. port.op \in MulOp /\ port.op # None  BY DEF Asked, MulOp, None
<1>4. n \in 2 .. 2 * W /\ W \in Nat /\ W >= 2
  BY <1>3, WidthFacts DEF Steps
<1>5. /\ mul.instr = IF age = 0 THEN None ELSE port.op
      /\ age = 0 => (mul.wait => mul.wait_q)
      /\ age > 0 => (mul.wait <=> age >= 2)
      /\ age > 1 => (mul.wait_q <=> age >= 3)
      /\ mul.waiting <=> age < 3 \/ age > n + 2
      /\ mul.finish <=> age = n + 3
      /\ age \in 3 .. n + 1 => mul.counter = n + 1 - age
      /\ age = n + 2 => mul.counter = 4 * W - 1
      /\ age <= n + 4 /\ age # n + 4
  BY <1>1, WidthFacts DEF MulAt, pcpi_int_ready
<1> HIDE DEF n
<1>6. /\ MulType'
      /\ mul'.instr = port.op
      /\ mul'.wait <=> mul.instr # None
      /\ mul'.wait_q <=> mul.wait
      /\ mul'.ready <=> mul.finish
  BY <1>1, <1>2, MulEdge
<1>7. /\ mul'.wait <=> age + 1 >= 2
      /\ age > 0 => (mul'.wait_q <=> age + 1 >= 3)
      /\ mul'.ready <=> age + 1 = n + 4
  <2>1. mul.instr # None <=> age # 0  BY <1>2, <1>3, <1>5
  <2>2. age > 0 => (mul.wait <=> age >= 2)  BY <1>5
  <2>3. mul.finish <=> age = n + 3  BY <1>5
  <2>4. age # 0 <=> age + 1 >= 2  BY <1>2
  <2>5. age >= 2 <=> age + 1 >= 3  BY <1>2
  <2>6. age = n + 3 <=> age + 1 = n + 4  BY <1>2, <1>4
  <2> QED  BY <1>6, <2>1, <2>2, <2>3, <2>4, <2>5, <2>6
<1>8. /\ mul'.waiting <=> age + 1 < 3 \/ age + 1 > n + 2
      /\ mul'.finish <=> age + 1 = n + 3
      /\ age + 1 \in 3 .. n + 1 => mul'.counter = n + 1 - (age + 1)
      /\ age + 1 = n + 2 => mul'.counter = Mul!CounterRange - 1
  <2>1. CASE age < 2 \/ age > n + 2
    <3>1. mul.waiting /\ ~(mul.wait /\ ~mul.wait_q)
      BY <1>2, <1>4, <1>5, <2>1
    <3>2. mul'.waiting /\ ~mul'.finish  BY <1>1, <1>2, <3>1, MulEdge
    <3>3. /\ age + 1 < 3 \/ age + 1 > n + 2
          /\ age + 1 # n + 3 /\ age + 1 # n + 2 /\ ~(age + 1 \in 3 .. n + 1)
      BY <1>2, <1>4, <2>1
    <3> QED  BY <3>2, <3>3
  <2>2. CASE age = 2
    <3>1. mul.waiting /\ mul.wait /\ ~mul.wait_q /\ mul.instr = port.op
      BY <1>2, <1>4, <1>5, <2>2
    <3>2. Mul!FirstCount(mul) = n - 2
      BY <1>3, <3>1, WidthFacts DEF Mul!FirstCount, Mul!instr_any_mulh, Steps, MulOp, n
    <3>3. ~mul'.waiting /\ ~mul'.finish /\ mul'.counter = n - 2
      BY <1>1, <1>2, <3>1, <3>2, MulEdge
    <3>4. /\ ~(age + 1 < 3) /\ ~(age + 1 > n + 2)
          /\ age + 1 # n + 3 /\ age + 1 # n + 2 /\ n - 2 = n + 1 - (age + 1)
      BY <1>2, <1>4, <2>2
    <3> QED  BY <3>3, <3>4
  <2>3. CASE age \in 3 .. n + 2
    <3>1. /\ ~mul.waiting
          /\ mul.counter = IF age = n + 2 THEN 4 * W - 1 ELSE n + 1 - age
      BY <1>2, <1>4, <1>5, <2>3
    <3>2. mul.counter \in 0 .. 4 * W - 1  BY <1>4, <2>3, <3>1
    <3>3. /\ mul'.waiting <=> mul.counter >= 2 * W
          /\ mul'.finish <=> mul'.waiting
          /\ mul'.counter = (mul.counter - 1) % (4 * W)
      BY <1>1, <1>2, <3>1, MulEdge, WidthFacts
    <3>4. mul'.counter = IF mul.counter = 0 THEN 4 * W - 1 ELSE mul.counter - 1
      BY <3>2, <3>3, Countdown
    <3>5. mul.counter >= 2 * W <=> age = n + 2
      BY <1>4, <2>3, <3>1
    <3>6. /\ age + 1 \in 3 .. n + 1 => mul'.counter = n + 1 - (age + 1)
          /\ age + 1 = n + 2 => mul'.counter = 4 * W - 1
      <4>1. n \in Nat /\ age \in Nat  BY <1>2, <1>4
      <4>2. age # n + 2 => mul.counter = n + 1 - age  BY <3>1
      <4>3. mul.counter = 0 => mul'.counter = 4 * W - 1  BY <3>4
      <4>4. mul.counter # 0 => mul'.counter = mul.counter - 1  BY <3>4
      <4> QED  BY <4>1, <4>2, <4>3, <4>4, CountsOn
    <3>8. /\ mul'.waiting <=> age = n + 2
          /\ mul'.finish <=> age = n + 2
      BY <3>3, <3>5
    <3>9. /\ age = n + 2 <=> age + 1 = n + 3
          /\ age = n + 2 <=> age + 1 < 3 \/ age + 1 > n + 2
      BY <1>2, <1>4, <2>3
    <3> QED  BY <3>6, <3>8, <3>9, WidthFacts
  <2>4. age < 2 \/ age = 2 \/ age \in 3 .. n + 2 \/ age > n + 2  BY <1>2, <1>4
  <2> QED  BY <2>1, <2>2, <2>3, <2>4
<1>9. age + 1 <= n + 4 /\ age + 1 # 0 /\ (age + 1 > 1 => age > 0)
  BY <1>2, <1>4, <1>5
<1>10. /\ mul'.instr = IF age + 1 = 0 THEN None ELSE port.op
       /\ age + 1 = 0 => (mul'.wait => mul'.wait_q)
       /\ age + 1 > 0 => (mul'.wait <=> age + 1 >= 2)
       /\ age + 1 > 1 => (mul'.wait_q <=> age + 1 >= 3)
  BY <1>6, <1>7, <1>9
<1> QED  BY <1>6, <1>7, <1>8, <1>9, <1>10 DEF MulAt, n

(* The units start and stop with the instructions asked of them.             *)
LEMMA Operations ==
    /\ \A op \in MulOp : op \notin DivOp /\ op # OtherOp /\ op # None
    /\ \A op \in DivOp : op \notin MulOp /\ op # OtherOp /\ op # None
  BY DEF MulOp, DivOp, OtherOp, None

(* Before the reset it goes from zero to its answer and then waits.          *)
LEMMA MulBootsStep ==
    ASSUME PortInv, MulInv, PowerUp
    PROVE  MulType' /\ MulBoots'
<1>1. /\ MulType /\ MulBoots /\ ~booted /\ resetn /\ Units /\ age' = age + 1
      /\ age \in Nat /\ ~Asked(MulOp) /\ port.valid \in BOOLEAN
  BY DEF MulInv, PowerUp, PortInv, Started, Asked
<1>2. /\ MulType' /\ mul'.instr = None /\ ~mul'.wait /\ ~mul'.wait_q
      /\ mul'.ready <=> mul.finish
  BY <1>1, MulEdge DEF MulBoots
<1>3. mul'.ready <=> age' = 3
  BY <1>1, <1>2 DEF MulBoots
<1>4. CASE age \in {0, 1}
  <2>1. /\ ~mul.waiting
        /\ mul.counter = IF age = 0 THEN 0 ELSE 4 * W - 1
    BY <1>1, <1>4, WidthFacts DEF MulBoots
  <2>2. mul.counter \in 0 .. 4 * W - 1  BY <2>1, WidthFacts
  <2>3. /\ mul'.waiting <=> mul.counter >= 2 * W
        /\ mul'.finish <=> mul'.waiting
        /\ mul'.counter = (mul.counter - 1) % (4 * W)
    BY <1>1, <2>1, MulEdge, WidthFacts
  <2>4. mul.counter >= 2 * W <=> age = 1  BY <1>4, <2>1, WidthFacts
  <2>5. age = 0 => mul'.counter = 4 * W - 1  BY <2>1, <2>2, <2>3, Countdown
  <2>6. /\ age = 1 <=> age' >= 2
        /\ age = 1 <=> age' = 2
        /\ age' = 1 <=> age = 0
        /\ age' # 0
    BY <1>1, <1>4
  <2> QED  BY <1>2, <1>3, <2>3, <2>4, <2>5, <2>6, WidthFacts DEF MulBoots
<1>5. CASE age \notin {0, 1}
  <2>1. /\ age >= 2 /\ age' >= 2 /\ age' # 2 /\ age' # 0 /\ age' # 1
    BY <1>1, <1>5
  <2>2. mul.waiting /\ ~mul.wait  BY <1>1, <2>1 DEF MulBoots
  <2>3. mul'.waiting /\ ~mul'.finish  BY <1>1, <2>2, MulEdge
  <2> QED  BY <1>2, <1>3, <2>1, <2>3 DEF MulBoots
<1> QED  BY <1>4, <1>5

(* The multiplier's part of the invariant is kept.                           *)
LEMMA MulStep == PcpiInv /\ [Next]_vars => MulInv'
<1> SUFFICES ASSUME PcpiInv, [Next]_vars PROVE MulInv'
  OBVIOUS
<1>1. PortInv /\ MulInv /\ DivInv /\ PortInv'  BY PortStep DEF PcpiInv
<1>2. /\ MulType /\ resetn \in BOOLEAN /\ port.valid \in BOOLEAN /\ age \in Nat
      /\ port.op \in MulOp \cup DivOp \cup {OtherOp}
  BY <1>1, PortFacts DEF MulInv, PortInv
<1>a. CASE PowerUp
  <2>1. ~booted /\ ~booted' /\ booted' = booted  BY <1>a DEF PowerUp
  <2>2. MulType' /\ MulBoots'  BY <1>1, <1>a, MulBootsStep
  <2> QED  BY <2>1, <2>2 DEF MulInv, Started
<1>3. CASE Reset
  <2>1. /\ ~resetn /\ Units /\ port' = port /\ booted'
        /\ ~port.valid
    BY <1>1, <1>3 DEF Reset, PortInv, Started
  <2>2. mul.instr = None /\ ~mul.wait  BY <1>1, <2>1 DEF MulInv, MulBoots, MulInReset
  <2>3. MulType' /\ MulInReset' /\ MulRests'
    BY <1>2, <2>1, <2>2, MulEdge DEF MulInReset, MulRests, MulType
  <2>4. ~Asked(MulOp)'  BY <2>1 DEF Asked
  <2> QED  BY <2>1, <2>3, <2>4 DEF MulInv, Started
<1>4. CASE Rest
  <2>1. Started /\ Started' /\ booted' /\ resetn' /\ ~Asked(MulOp) /\ Units
        /\ port' = port
    BY <1>4 DEF Rest, Asked, Started
  <2>2. MulType' /\ MulRests'  BY <1>1, <2>1, MulRestsStep
  <2>3. ~Asked(MulOp)'  BY <2>1 DEF Asked
  <2> QED  BY <2>1, <2>2, <2>3 DEF MulInv
<1>5. ASSUME NEW op, NEW a, NEW b, Ask(op, a, b) PROVE MulInv'
  <2>1. Started /\ Started' /\ booted' /\ resetn' /\ ~Asked(MulOp) /\ Units
        /\ age' = 0
    BY <1>5 DEF Ask, Asked, Started
  <2>2. MulType' /\ MulRests' /\ mul'.instr = None  BY <1>1, <2>1, MulRestsStep
  <2>3. ASSUME Asked(MulOp)' PROVE MulAt(mul, port.op, age)'
    <3>1. Steps(port'.op) \in Nat  BY WidthFacts DEF Steps
    <3>2. /\ age' <= Steps(port'.op) + 4 /\ age' # Steps(port'.op) + 4
          /\ age' # Steps(port'.op) + 3 /\ age' # Steps(port'.op) + 2
          /\ ~(age' \in 3 .. Steps(port'.op) + 1)
          /\ age' < 3 /\ ~(age' > 0) /\ ~(age' > 1)
      BY <2>1, <3>1
    <3>3. /\ mul'.instr = None /\ (mul'.wait => mul'.wait_q)
          /\ mul'.waiting /\ ~mul'.finish /\ ~mul'.ready
      BY <2>2 DEF MulRests
    <3> QED  BY <2>1, <3>2, <3>3 DEF MulAt
  <2> QED  BY <2>1, <2>2, <2>3 DEF MulInv
<1>6. CASE Hold
  <2>1. /\ Started /\ Started' /\ booted' /\ resetn'
        /\ port.valid /\ ~pcpi_int_ready /\ port' = port /\ Units
    BY <1>6 DEF Hold, Started
  <2>2. Asked(MulOp)' <=> Asked(MulOp)  BY <2>1 DEF Asked
  <2>3. CASE Asked(MulOp)
    <3>1. age' = age + 1  BY <1>6, <2>3, Operations DEF Hold, Asked
    <3>2. MulType' /\ MulAt(mul', port.op, age + 1)
      BY <1>1, <2>1, <2>3, MulAsked
    <3>3. MulAt(mul, port.op, age)'  BY <2>1, <3>1, <3>2
    <3> QED  BY <2>1, <2>2, <2>3, <3>2, <3>3 DEF MulInv
  <2>4. CASE ~Asked(MulOp)
    <3>1. MulType' /\ MulRests'  BY <1>1, <2>1, <2>4, MulRestsStep
    <3> QED  BY <2>1, <2>2, <2>4, <3>1 DEF MulInv
  <2> QED  BY <2>3, <2>4
<1>7. CASE Take \/ GiveUp
  <2>1. /\ Started /\ Started' /\ booted' /\ resetn /\ resetn' /\ port.valid /\ port' = Idle
        /\ Units
    BY <1>7 DEF Take, GiveUp, Started
  <2>2. ~Asked(MulOp)'  BY <2>1 DEF Asked, Idle
  <2>3. CASE ~Asked(MulOp)
    <3>1. MulType' /\ MulRests'  BY <1>1, <2>1, <2>3, MulRestsStep
    <3> QED  BY <2>1, <2>2, <3>1 DEF MulInv
  <2>4. CASE Asked(MulOp)
    <3>1. Take /\ pcpi_int_ready  BY <1>7, <2>4, Operations DEF Take, GiveUp, Asked
    <3>2. ~div.ready
      <4>1. ~Asked(DivOp)  BY <2>4, Operations DEF Asked
      <4> QED  BY <1>1, <4>1 DEF DivInv, DivRests
    <3>3. mul.ready /\ MulAt(mul, port.op, age)
      BY <1>1, <2>1, <2>4, <3>1, <3>2 DEF pcpi_int_ready, MulInv
    <3>4. Steps(port.op) \in Nat  BY WidthFacts DEF Steps
    <3>5. /\ mul.waiting /\ ~mul.finish /\ mul.wait /\ mul.wait_q /\ mul.instr # None
      <4>1. port.op # None  BY <2>4, Operations DEF Asked
      <4> QED  BY <1>2, <3>3, <3>4, <4>1 DEF MulAt
    <3>6. MulType' /\ MulRests'
      BY <1>2, <2>1, <3>5, MulEdge DEF MulRests
    <3> QED  BY <2>1, <2>2, <3>6 DEF MulInv
  <2> QED  BY <2>3, <2>4
<1>8. CASE UNCHANGED vars
  <2>1. /\ mul' = mul /\ port' = port /\ age' = age /\ resetn' = resetn /\ booted' = booted
    BY <1>8 DEF vars
  <2>2. MulType' = MulType /\ MulBoots' = MulBoots /\ MulInReset' = MulInReset
        /\ MulRests' = MulRests
    BY <2>1 DEF MulType, MulRecord, MulBoots, MulInReset, MulRests
  <2>3. Started' = Started /\ Asked(MulOp)' = Asked(MulOp)
    BY <2>1 DEF Started, Asked
  <2>4. MulAt(mul, port.op, age)' = MulAt(mul, port.op, age)  BY <2>1
  <2> QED  BY <1>1, <2>1, <2>2, <2>3, <2>4 DEF MulInv
<1> QED  BY <1>a, <1>3, <1>4, <1>5, <1>6, <1>7, <1>8 DEF Next

-----------------------------------------------------------------------------
(* What an edge does to the registers of the divider.                        *)
LEMMA DivEdge ==
    ASSUME DivType, Units, resetn \in BOOLEAN, port.valid \in BOOLEAN
    PROVE  /\ DivType'
           /\ div'.instr = IF resetn /\ Asked(DivOp) /\ ~div.ready THEN port.op ELSE None
           /\ div'.wait <=> resetn /\ div.instr # None
           /\ div'.wait_q <=> resetn /\ div.wait
           /\ div'.ready <=> resetn /\ Div!Answers(div)
           /\ ~resetn => ~div'.running
           /\ resetn /\ Div!start(div) => div'.running
           /\ resetn /\ Div!Answers(div) => ~div'.running
           /\ resetn /\ ~Div!start(div) /\ ~Div!Answers(div) =>
                  (div'.running <=> div.running)
<1> DEFINE w == Div!Work(div, port, resetn)
<1>1. DivRecord(w)
  BY DEF DivType, DivRecord, Div!Work, Div!Load, Div!Step
<1>2. /\ ~resetn => w.running = FALSE
      /\ resetn /\ Div!start(div) => w.running = TRUE
      /\ resetn /\ ~Div!start(div) /\ Div!Answers(div) => w.running = FALSE
      /\ resetn /\ ~Div!start(div) /\ ~Div!Answers(div) => w.running = div.running
  BY DEF DivType, DivRecord, Div!Work, Div!Load, Div!Step
<1>3. div' = [w EXCEPT !.instr = IF resetn /\ Asked(DivOp) /\ ~div.ready THEN port.op
                                 ELSE None,
                       !.wait = resetn /\ div.instr # None, !.wait_q = resetn /\ div.wait,
                       !.ready = resetn /\ Div!Answers(div), !.result = div'.result]
  <2>1. \E x : div' = [w EXCEPT
                 !.instr = IF resetn /\ Asked(DivOp) /\ ~div.ready THEN port.op ELSE None,
                 !.wait = resetn /\ div.instr # None, !.wait_q = resetn /\ div.wait,
                 !.ready = resetn /\ Div!Answers(div), !.result = x]
    BY DEF Units, Div!DivNext, Div!Noticed, Asked, DivOp, None, Div!DivOp, Div!None
  <2> HIDE DEF w
  <2> QED  BY <1>1, <2>1 DEF DivRecord
<1> HIDE DEF w
<1>4. /\ div'.instr = IF resetn /\ Asked(DivOp) /\ ~div.ready THEN port.op ELSE None
      /\ div'.wait = (resetn /\ div.instr # None) /\ div'.wait_q = (resetn /\ div.wait)
      /\ div'.ready = (resetn /\ Div!Answers(div))
      /\ div'.running = w.running /\ DivRecord(div')
  BY <1>1, <1>3 DEF DivRecord
<1>5. /\ div'.wait \in BOOLEAN /\ div'.wait_q \in BOOLEAN /\ div'.ready \in BOOLEAN
      /\ div'.wait <=> resetn /\ div.instr # None
      /\ div'.wait_q <=> resetn /\ div.wait
      /\ div'.ready <=> resetn /\ Div!Answers(div)
  BY <1>4
<1>6. Div!Answers(div) => ~Div!start(div)  BY DEF Div!Answers
<1>7. /\ div'.running \in BOOLEAN
      /\ ~resetn => ~div'.running
      /\ resetn /\ Div!start(div) => div'.running
      /\ resetn /\ Div!Answers(div) => ~div'.running
      /\ resetn /\ ~Div!start(div) /\ ~Div!Answers(div) =>
             (div'.running <=> div.running)
  BY <1>2, <1>4, <1>6 DEF DivType
<1> QED  BY <1>4, <1>5, <1>7 DEF DivType

(* And to its numbers.                                                       *)
LEMMA DivNumbers ==
    ASSUME DivType, Units, resetn
    PROVE  /\ Div!start(div) =>
                  /\ div'.dividend = Div!Magnitude(IsSigned(div.instr), port.rs1)
                  /\ div'.divisor = Div!Magnitude(IsSigned(div.instr), port.rs2) * 2^(W - 1)
                  /\ div'.quotient = 0 /\ div'.quotient_msk = 2^(W - 1)
                  /\ div'.outsign = Div!OutSign(div, port)
           /\ ~Div!start(div) /\ ~Div!Answers(div) =>
                  /\ div'.dividend = IF Div!Fits(div) THEN div.dividend - div.divisor
                                     ELSE div.dividend
                  /\ div'.quotient = IF Div!Fits(div)
                                     THEN Div!WithBit(div.quotient, div.quotient_msk)
                                     ELSE div.quotient
                  /\ div'.divisor = div.divisor \div 2
                  /\ div'.quotient_msk = div.quotient_msk \div 2
                  /\ div'.outsign = div.outsign
           /\ Div!Answers(div) =>
                  LET value == IF div.instr \in {"div", "divu"} THEN div.quotient
                               ELSE div.dividend
                  IN div'.result = IF div.outsign THEN Div!Neg(value) ELSE value
<1> DEFINE w == Div!Work(div, port, resetn)
           value == IF div.instr \in {"div", "divu"} THEN div.quotient ELSE div.dividend
<1>1. DivRecord(w)
  BY DEF DivType, DivRecord, Div!Work, Div!Load, Div!Step
<1>2. Div!start(div) =>
          /\ w.dividend = Div!Magnitude(IsSigned(div.instr), port.rs1)
          /\ w.divisor = Div!Magnitude(IsSigned(div.instr), port.rs2) * 2^(W - 1)
          /\ w.quotient = 0 /\ w.quotient_msk = 2^(W - 1)
          /\ w.outsign = Div!OutSign(div, port)
  BY DEF DivType, DivRecord, Div!Work, Div!Load, IsSigned
<1>3. ~Div!start(div) /\ ~Div!Answers(div) =>
          /\ w.dividend = IF Div!Fits(div) THEN div.dividend - div.divisor
                          ELSE div.dividend
          /\ w.quotient = IF Div!Fits(div)
                          THEN Div!WithBit(div.quotient, div.quotient_msk)
                          ELSE div.quotient
          /\ w.divisor = div.divisor \div 2
          /\ w.quotient_msk = div.quotient_msk \div 2
          /\ w.outsign = div.outsign
  BY DEF DivType, DivRecord, Div!Work, Div!Step
<1>4. \E x, y, z, v, r : /\ div' = [w EXCEPT !.instr = x, !.wait = y, !.wait_q = z,
                                                !.ready = v, !.result = r]
                         /\ Div!Answers(div) =>
                                r = IF div.outsign THEN Div!Neg(value) ELSE value
  <2> DEFINE i == IF resetn /\ Div!Noticed(div, port) THEN port.op ELSE Div!None
             answer == IF ~(resetn /\ Div!Answers(div)) THEN 0
                       ELSE IF div.outsign THEN Div!Neg(value) ELSE value
             waits == resetn /\ div.instr # Div!None
             waited == resetn /\ div.wait
             answers == resetn /\ Div!Answers(div)
  <2>1. div' = [w EXCEPT !.instr = i, !.wait = waits, !.wait_q = waited,
                         !.ready = answers, !.result = answer]
    BY Zenon DEF Units, Div!DivNext
  <2>2. Div!Answers(div) => answer = IF div.outsign THEN Div!Neg(value) ELSE value
    OBVIOUS
  <2> HIDE DEF w, value, i, answer, waits, waited, answers
  <2> QED  BY <2>1, <2>2
<1> HIDE DEF w
<1>5. /\ div'.dividend = w.dividend /\ div'.quotient = w.quotient
      /\ div'.divisor = w.divisor /\ div'.quotient_msk = w.quotient_msk
      /\ div'.outsign = w.outsign
      /\ Div!Answers(div) =>
             div'.result = IF div.outsign THEN Div!Neg(value) ELSE value
  BY <1>1, <1>4 DEF DivRecord
<1> HIDE DEF value
<1> QED  BY <1>2, <1>3, <1>5 DEF value

-----------------------------------------------------------------------------
(* The weights of the bits.                                                  *)
LEMMA BitFacts ==
    ASSUME NEW j \in 0 .. W - 1
    PROVE  /\ Bit(j) \in Nat /\ Bit(j) > 0
           /\ Left(j) = 2 * Bit(j) /\ Left(j + 1) = Bit(j)
           /\ j + 1 < W => Bit(j) = 2 * Bit(j + 1) /\ Bit(j + 1) \in Nat
           /\ Bit(j + 1) = Bit(j) \div 2
<1>1. W \in Nat /\ j \in Nat /\ j < W  BY WidthFacts
<1>2. W - 1 - j \in Nat /\ W - 1 - j + 1 = W - j /\ W - (j + 1) = W - 1 - j
  BY <1>1
<1>3. Bit(j) = 2^(W - 1 - j) /\ Bit(j) \in Nat /\ Bit(j) > 0
  BY <1>1, <1>2, TwoPositive DEF Bit
<1>4. Left(j) = 2 * Bit(j)
  <2>1. 2^(W - 1 - j + 1) = 2 * 2^(W - 1 - j)  BY <1>2, TwoExp
  <2> QED  BY <1>2, <1>3, <2>1 DEF Left
<1>5. Left(j + 1) = Bit(j)  BY <1>2, <1>3 DEF Left
<1>6. CASE j + 1 < W
  <2>1. W - 1 - (j + 1) \in Nat /\ W - 1 - (j + 1) + 1 = W - 1 - j  BY <1>1, <1>6
  <2>2. 2^(W - 1 - (j + 1) + 1) = 2 * 2^(W - 1 - (j + 1))  BY <2>1, TwoExp
  <2>3. Bit(j + 1) = 2^(W - 1 - (j + 1)) /\ Bit(j + 1) \in Nat
    BY <1>6, <2>1, TwoPositive DEF Bit
  <2>4. Bit(j) = 2 * Bit(j + 1)  BY <1>3, <2>1, <2>2, <2>3
  <2>5. Bit(j) \div 2 = Bit(j + 1)  BY <2>3, <2>4
  <2> QED  BY <1>3, <1>4, <1>5, <2>3, <2>4, <2>5
<1>7. CASE ~(j + 1 < W)
  <2>1. W - 1 - j = 0 /\ 2^0 = 1  BY <1>1, <1>7
  <2>2. Bit(j) = 1 /\ Bit(j + 1) = 0  BY <1>3, <1>7, <2>1 DEF Bit
  <2> QED  BY <1>3, <1>4, <1>5, <1>7, <2>2
<1> QED  BY <1>6, <1>7

(* The first bit, and what is beyond the last.                               *)
LEMMA BitEnds == Left(0) = 2^W /\ Bit(0) = 2^(W - 1) /\ Left(W) = 1 /\ Bit(W) = 0
<1>1. W - 0 = W /\ W - W = 0 /\ W - 1 - 0 = W - 1 /\ 0 < W /\ ~(W < W) /\ 2^0 = 1
  BY WidthFacts
<1> QED  BY <1>1 DEF Left, Bit

(* The magnitude of an operand.                                              *)
LEMMA MagnitudeIs ==
    ASSUME NEW x \in Word, NEW s
    PROVE  /\ Div!Magnitude(s, x) = IF s /\ Negative(x) THEN 2^W - x ELSE x
           /\ Div!Magnitude(s, x) \in Word
<1> DEFINE M == 2^W  H == 2^(W - 1)
<1>1. M \in Nat /\ H \in Nat /\ H > 0 /\ M = 2 * H  BY WidthFacts
<1>2. x \in 0 .. M - 1 /\ (Negative(x) <=> x >= H)  BY DEF Word, Negative
<1>3. Div!Magnitude(s, x) = IF s /\ Negative(x) THEN (-x) % M ELSE x
  BY DEF Div!Magnitude, Div!Neg, Div!Negative, Negative
<1> HIDE DEF M, H
<1>4. CASE Negative(x)
  <2>1. -x = -1 * M + (M - x) /\ M - x \in 0 .. M - 1  BY <1>1, <1>2, <1>4
  <2>2. (-x) % M = M - x  BY <1>1, <1>2, <2>1, DivUnique
  <2> QED  BY <1>1, <1>2, <1>3, <2>1, <2>2 DEF Word, M
<1>5. CASE ~Negative(x)  BY <1>2, <1>3, <1>5 DEF Word, M
<1> QED  BY <1>4, <1>5

(* A step of the divider tries one bit more.                                 *)
LEMMA TriedStep ==
    ASSUME NEW a \in Nat, NEW b \in Nat, NEW j \in 0 .. W - 1, NEW u, NEW v, NEW in,
           a = Dividend(in), b = Divisor(in), Tried(u, in, j),
           v.dividend = IF Div!Fits(u) THEN u.dividend - u.divisor ELSE u.dividend,
           v.quotient = IF Div!Fits(u) THEN Div!WithBit(u.quotient, u.quotient_msk)
                        ELSE u.quotient,
           v.divisor = u.divisor \div 2, v.quotient_msk = u.quotient_msk \div 2
    PROVE  Tried(v, in, j + 1)
<1> DEFINE m == Bit(j)
<1>1. /\ m \in Nat /\ m > 0 /\ Left(j) = 2 * m /\ Left(j + 1) = m /\ j < W
      /\ j + 1 < W => m = 2 * Bit(j + 1) /\ Bit(j + 1) \in Nat
      /\ Bit(j + 1) = m \div 2
  BY BitFacts, WidthFacts
<1>2. 2^W \in Nat  BY WidthFacts
<1>3. /\ Divides(a, b, 2 * m, u.dividend, u.quotient)
      /\ u.quotient_msk = m /\ u.divisor = b * m
  BY <1>1 DEF Tried
<1>4. Tries(b, m, u.dividend, u.quotient, v.dividend, v.quotient)
  BY <1>3 DEF Tries, Div!Fits
<1> HIDE DEF m
<1>7. Divides(a, b, m, v.dividend, v.quotient)
  BY <1>1, <1>2, <1>3, <1>4, Trial
<1>8. v.quotient_msk = Bit(j + 1)  BY <1>1, <1>3
<1>9. ASSUME j + 1 < W PROVE v.divisor = b * Bit(j + 1)
  <2>1. b * m = (b * Bit(j + 1)) * 2 + 0 /\ b * Bit(j + 1) \in Int /\ b * m \in Int
    BY <1>1, <1>9
  <2>2. (b * m) \div 2 = b * Bit(j + 1)  BY <2>1, DivUnique
  <2> QED  BY <1>3, <2>2
<1> QED  BY <1>1, <1>7, <1>8, <1>9 DEF Tried

(* What has been found when every bit has been tried.                        *)
LEMMA AllTried ==
    ASSUME NEW a \in Word, NEW b \in Word, NEW x, NEW q, Divides(a, b, 1, x, q)
    PROVE  /\ b # 0 => q = a \div b /\ x = a % b /\ q * b + x = a
           /\ b = 0 => q = MinusOne /\ x = a
           /\ x \in Word /\ q \in Word
<1> DEFINE N == 2^W
<1>1. /\ x \in Nat /\ q \in Nat /\ N \in Nat /\ a \in 0 .. N - 1 /\ b \in Nat
      /\ b # 0 => q * b + x = a /\ x < b * 1
      /\ b = 0 => x = a /\ q = N - 1
  BY WidthFacts DEF Divides, Word
<1> HIDE DEF N
<1>2. CASE b # 0
  <2>1. b * 1 = b /\ b > 0  BY <1>1, <1>2
  <2>2. a = q * b + x /\ x \in 0 .. b - 1  BY <1>1, <1>2, <2>1
  <2>3. a \div b = q /\ a % b = x  BY <1>1, <2>1, <2>2, DivUnique
  <2>4. q * b \in Nat /\ q * b >= q  BY <1>1, <2>1
  <2>5. x \in 0 .. N - 1 /\ q \in 0 .. N - 1  BY <1>1, <2>2, <2>4
  <2> QED  BY <1>2, <2>2, <2>3, <2>5 DEF Word, N
<1>3. CASE b = 0
  <2>1. N - 1 \in 0 .. N - 1  BY <1>1
  <2> QED  BY <1>1, <1>3, <2>1 DEF Word, N, MinusOne
<1> QED  BY <1>2, <1>3

(* Signed operands have the magnitudes the divider works with.               *)
LEMMA SignedIs ==
    ASSUME NEW x \in Word
    PROVE  /\ Signed(x) \in Int /\ (Signed(x) < 0 <=> Negative(x))
           /\ Abs(Signed(x)) = Div!Magnitude(TRUE, x)
           /\ Signed(x) = IF Negative(x) THEN -Div!Magnitude(TRUE, x)
                          ELSE Div!Magnitude(TRUE, x)
           /\ Div!Magnitude(TRUE, x) = 0 <=> x = 0
<1> DEFINE M == 2^W  H == 2^(W - 1)
<1>1. M \in Nat /\ H \in Nat /\ H > 0 /\ M = 2 * H  BY WidthFacts
<1>2. x \in 0 .. M - 1 /\ (Negative(x) <=> x >= H)  BY DEF Word, Negative
<1>3. Signed(x) = IF Negative(x) THEN x - M ELSE x  BY DEF Signed
<1>4. Div!Magnitude(TRUE, x) = IF Negative(x) THEN M - x ELSE x  BY MagnitudeIs
<1> HIDE DEF M, H
<1>5. CASE Negative(x)
  <2>1. x >= H  BY <1>2, <1>5
  <2>2. Signed(x) = x - M /\ Div!Magnitude(TRUE, x) = M - x  BY <1>3, <1>4, <1>5
  <2>3. Signed(x) \in Int /\ Signed(x) < 0 /\ -Signed(x) = M - x
        /\ M - x # 0 /\ x # 0 /\ x - M = -(M - x)
    BY <1>1, <1>2, <2>1, <2>2
  <2> QED  BY <1>5, <2>2, <2>3 DEF Abs
<1>6. CASE ~Negative(x)
  <2>1. Signed(x) = x /\ Div!Magnitude(TRUE, x) = x  BY <1>3, <1>4, <1>6
  <2>2. x \in Int /\ ~(x < 0)  BY <1>1, <1>2
  <2> QED  BY <1>6, <2>1, <2>2 DEF Abs
<1> QED  BY <1>5, <1>6

(* A word is its own remainder.                                              *)
LEMMA ModWord == \A x \in Word : x % 2^W = x
<1> SUFFICES ASSUME NEW x \in Word PROVE x % 2^W = x
  OBVIOUS
<1> DEFINE M == 2^W
<1>1. M \in Nat /\ x \in 0 .. M - 1  BY WidthFacts DEF Word
<1> HIDE DEF M
<1>2. x = 0 * M + x /\ M > 0  BY <1>1
<1>3. x % M = x  BY <1>1, <1>2, DivUnique
<1> QED  BY <1>3 DEF M

(* The magnitudes of n and d, and what dividing them gives.                  *)
Magnitudes(n, d, a, b, q, x) ==
    Abs(n) = a /\ Abs(d) = b /\ q = a \div b /\ q * b + x = a

(* The quotient of RISC-V is that of the magnitudes with the sign of both,   *)
(* and the remainder has the sign of the dividend.                           *)
LEMMA SignedDivision ==
    ASSUME NEW n \in Int, NEW d \in Int, d # 0, NEW a \in Nat, NEW b \in Nat,
           NEW q \in Nat, NEW x \in Nat, Magnitudes(n, d, a, b, q, x)
    PROVE  /\ Quotient(n, d) = IF (n < 0) = (d < 0) THEN q ELSE -q
           /\ Remainder(n, d) = IF n < 0 THEN -x ELSE x
<1>0. Abs(n) = a /\ Abs(d) = b /\ q = a \div b /\ q * b + x = a
  BY DEF Magnitudes
<1>1. Quotient(n, d) = IF (n < 0) = (d < 0) THEN q ELSE -q  BY <1>0 DEF Quotient
<1>2. /\ n = IF n < 0 THEN -a ELSE a
      /\ d = IF d < 0 THEN -b ELSE b
  BY <1>0 DEF Abs
<1>3. q * b \in Int /\ x = a - q * b  BY <1>0
<1>4. CASE n < 0 /\ d < 0
  <2>1. Quotient(n, d) = q /\ n = -a /\ d = -b  BY <1>1, <1>2, <1>4
  <2>2. (-b) * q = -(q * b)  OBVIOUS
  <2>3. n - d * Quotient(n, d) = -x  BY <1>3, <2>1, <2>2
  <2> QED  BY <1>1, <1>4, <2>3 DEF Remainder
<1>5. CASE n < 0 /\ ~(d < 0)
  <2>1. Quotient(n, d) = -q /\ n = -a /\ d = b  BY <1>1, <1>2, <1>5
  <2>2. b * (-q) = -(q * b)  OBVIOUS
  <2>3. n - d * Quotient(n, d) = -x  BY <1>3, <2>1, <2>2
  <2> QED  BY <1>1, <1>5, <2>3 DEF Remainder
<1>6. CASE ~(n < 0) /\ d < 0
  <2>1. Quotient(n, d) = -q /\ n = a /\ d = -b  BY <1>1, <1>2, <1>6
  <2>2. (-b) * (-q) = q * b  OBVIOUS
  <2>3. n - d * Quotient(n, d) = x  BY <1>3, <2>1, <2>2
  <2> QED  BY <1>1, <1>6, <2>3 DEF Remainder
<1>7. CASE ~(n < 0) /\ ~(d < 0)
  <2>1. Quotient(n, d) = q /\ n = a /\ d = b  BY <1>1, <1>2, <1>7
  <2>2. b * q = q * b  OBVIOUS
  <2>3. n - d * Quotient(n, d) = x  BY <1>3, <2>1, <2>2
  <2> QED  BY <1>1, <1>7, <2>3 DEF Remainder
<1> QED  BY <1>1, <1>4, <1>5, <1>6, <1>7

(* What the divider answers is what RISC-V says.                             *)
LEMMA AnswerIs ==
    ASSUME NEW op \in DivOp, NEW p \in Word, NEW d \in Word, NEW x, NEW q, NEW out,
           Divides(Div!Magnitude(IsSigned(op), p), Div!Magnitude(IsSigned(op), d), 1, x, q),
           out <=> \/ op = "div" /\ Negative(p) # Negative(d) /\ d # 0
                   \/ op = "rem" /\ Negative(p)
    PROVE  Result(op, p, d) = LET value == IF op \in {"div", "divu"} THEN q ELSE x
                              IN IF out THEN Div!Neg(value) ELSE value
<1> DEFINE a == Div!Magnitude(IsSigned(op), p)
           b == Div!Magnitude(IsSigned(op), d)
<1>1. a \in Word /\ b \in Word  BY MagnitudeIs
<1>2. /\ b # 0 => q = a \div b /\ x = a % b /\ q * b + x = a
      /\ b = 0 => q = MinusOne /\ x = a
      /\ x \in Word /\ q \in Word
  <2>1. Divides(a, b, 1, x, q)  OBVIOUS
  <2> HIDE DEF a, b
  <2> QED  BY <1>1, <2>1, AllTried
<1>3. a \in Nat /\ b \in Nat /\ x \in Nat /\ q \in Nat
  BY <1>1, <1>2, WidthFacts DEF Word
<1>4. x % 2^W = x /\ q % 2^W = q  BY <1>2, ModWord
<1>5. CASE op \in {"divu", "remu"}
  <2>1. a = p /\ b = d /\ ~out  BY <1>5, MagnitudeIs DEF IsSigned
  <2> QED  BY <1>2, <1>5, <2>1 DEF Result
<1>6. CASE op \in {"div", "rem"}
  <2>1. IsSigned(op) = TRUE  BY <1>6 DEF IsSigned
  <2>2. /\ Signed(p) \in Int /\ Signed(d) \in Int
        /\ Abs(Signed(p)) = a /\ Abs(Signed(d)) = b
        /\ Signed(p) < 0 <=> Negative(p)
        /\ Signed(d) < 0 <=> Negative(d)
        /\ b = 0 <=> d = 0
    BY <2>1, SignedIs
  <2>3. ASSUME d # 0
        PROVE  /\ Quotient(Signed(p), Signed(d)) = IF Negative(p) = Negative(d) THEN q ELSE -q
               /\ Remainder(Signed(p), Signed(d)) = IF Negative(p) THEN -x ELSE x
    <3>1. Signed(d) # 0  BY <2>2, <2>3 DEF Abs
    <3>2. q = a \div b /\ q * b + x = a  BY <1>2, <2>2, <2>3
    <3> HIDE DEF a, b
    <3>3. /\ Quotient(Signed(p), Signed(d)) =
                 IF (Signed(p) < 0) = (Signed(d) < 0) THEN q ELSE -q
          /\ Remainder(Signed(p), Signed(d)) = IF Signed(p) < 0 THEN -x ELSE x
      <4> DEFINE n == Signed(p)  m == Signed(d)
      <4>1. n \in Int /\ m \in Int /\ m # 0 /\ Abs(n) = a /\ Abs(m) = b
        BY <2>2, <3>1 DEF a, b
      <4> HIDE DEF n, m
      <4>2. Magnitudes(n, m, a, b, q, x)  BY <3>2, <4>1 DEF Magnitudes
      <4>3. /\ Quotient(n, m) = IF (n < 0) = (m < 0) THEN q ELSE -q
            /\ Remainder(n, m) = IF n < 0 THEN -x ELSE x
        BY <1>3, <4>1, <4>2, SignedDivision
      <4> QED  BY <4>3 DEF n, m
    <3>4. (Signed(p) < 0) = (Signed(d) < 0) <=> Negative(p) = Negative(d)
      BY <2>2 DEF Negative
    <3> QED  BY <2>2, <3>3, <3>4
  <2>4. CASE op = "div" /\ d # 0
    <3>1. out <=> Negative(p) # Negative(d)  BY <2>4
    <3>2. Result(op, p, d) = Quotient(Signed(p), Signed(d)) % 2^W  BY <2>4 DEF Result
    <3> QED  BY <1>4, <2>3, <2>4, <3>1, <3>2 DEF Div!Neg
  <2>5. CASE op = "div" /\ d = 0
    <3>1. ~out /\ q = MinusOne  BY <1>2, <2>2, <2>5
    <3> QED  BY <2>5, <3>1 DEF Result
  <2>6. CASE op = "rem" /\ d # 0
    <3>1. out <=> Negative(p)  BY <2>6
    <3>2. Result(op, p, d) = Remainder(Signed(p), Signed(d)) % 2^W  BY <2>6 DEF Result
    <3> QED  BY <1>4, <2>3, <2>6, <3>1, <3>2 DEF Div!Neg
  <2>7. CASE op = "rem" /\ d = 0
    <3>1. (out <=> Negative(p)) /\ x = a /\ Result(op, p, d) = p
      BY <1>2, <2>2, <2>7 DEF Result
    <3>2. a = IF Negative(p) THEN 2^W - p ELSE p  BY <2>1, MagnitudeIs
    <3>3. ASSUME Negative(p) PROVE (-(2^W - p)) % 2^W = p
      <4> DEFINE M == 2^W
      <4>1. M \in Nat /\ p \in 0 .. M - 1  BY WidthFacts DEF Word
      <4> HIDE DEF M
      <4>2. -(M - p) = -1 * M + p /\ -(M - p) \in Int /\ M > 0  BY <4>1
      <4>3. (-(M - p)) % M = p  BY <4>1, <4>2, DivUnique
      <4> QED  BY <4>3 DEF M
    <3> QED  BY <2>7, <3>1, <3>2, <3>3 DEF Div!Neg
  <2> QED  BY <1>6, <2>4, <2>5, <2>6, <2>7
<1> QED  BY <1>5, <1>6 DEF DivOp

-----------------------------------------------------------------------------
(* The divider stays out of it in reset, and while another instruction is    *)
(* asked.                                                                    *)
LEMMA DivRestsStep ==
    ASSUME DivType, DivRests, Units, resetn \in BOOLEAN, port.valid \in BOOLEAN,
           ~Asked(DivOp)
    PROVE  /\ DivType' /\ div'.instr = None /\ ~div'.running /\ ~div'.ready /\ ~div'.wait
<1>1. ~Div!start(div) /\ ~Div!Answers(div)
  BY DEF DivRests, Div!start, Div!Answers
<1> QED  BY <1>1, DivEdge DEF DivRests

(* With an instruction of its own it goes from one bit to the next.          *)
LEMMA DivAsked ==
    ASSUME PortInv, DivInv, resetn, Asked(DivOp), ~pcpi_int_ready, Units
    PROVE  DivType' /\ DivAt(div', port, age + 1)
<1>1. DivType /\ DivAt(div, port, age)  BY DEF DivInv
<1>2. /\ resetn \in BOOLEAN /\ port.valid \in BOOLEAN /\ age \in Nat
      /\ port.rs1 \in Word /\ port.rs2 \in Word
  BY DEF PortInv
<1>3. port.op \in DivOp /\ port.op # None  BY Operations DEF Asked
<1>4. W \in Nat /\ W >= 2  BY WidthFacts
<1>5. /\ age <= W + 4 /\ age # W + 4 /\ ~div.ready
      /\ div.instr = IF age = 0 THEN None ELSE port.op
      /\ age = 0 => (div.wait => div.wait_q)
      /\ age > 0 => (div.wait <=> age >= 2)
      /\ age > 1 => (div.wait_q <=> age >= 3)
      /\ div.running <=> age \in 3 .. W + 3
      /\ age \in 3 .. W + 3 =>
             Tried(div, port, age - 3) /\ div.outsign = Div!OutSign(div, port)
  BY <1>1 DEF DivAt, pcpi_int_ready
<1>6. /\ DivType'
      /\ div'.instr = port.op
      /\ div'.wait <=> div.instr # None
      /\ div'.wait_q <=> div.wait
      /\ div'.ready <=> Div!Answers(div)
      /\ Div!start(div) => div'.running
      /\ Div!Answers(div) => ~div'.running
      /\ ~Div!start(div) /\ ~Div!Answers(div) => (div'.running <=> div.running)
  BY <1>1, <1>2, <1>5, DivEdge
<1>7. Dividend(port) \in Word /\ Divisor(port) \in Word
      /\ Dividend(port) \in Nat /\ Divisor(port) \in Nat
  <2>1. Dividend(port) \in Word /\ Divisor(port) \in Word
    BY <1>2, MagnitudeIs DEF Dividend, Divisor
  <2> QED  BY <2>1, WidthFacts DEF Word
<1>8. /\ age + 1 <= W + 4 /\ age + 1 # 0
      /\ div'.wait <=> age + 1 >= 2
      /\ age + 1 > 1 => (div'.wait_q <=> age + 1 >= 3)
  <2>1. div.instr # None <=> age # 0  BY <1>2, <1>3, <1>5
  <2>2. age > 0 => (div.wait <=> age >= 2)  BY <1>5
  <2>3. age # 0 <=> age + 1 >= 2  BY <1>2
  <2>4. age >= 2 <=> age + 1 >= 3  BY <1>2
  <2>5. age + 1 > 1 => age > 0  BY <1>2
  <2>6. age + 1 <= W + 4 /\ age + 1 # 0  BY <1>2, <1>4, <1>5
  <2> QED  BY <1>6, <2>1, <2>2, <2>3, <2>4, <2>5, <2>6
<1>9. /\ div'.running <=> age + 1 \in 3 .. W + 3
      /\ div'.ready <=> age + 1 = W + 4
      /\ age + 1 \in 3 .. W + 3 =>
             Tried(div', port, age - 2) /\ div'.outsign = Div!OutSign(div', port)
      /\ age + 1 = W + 4 => div'.result = Result(port.op, port.rs1, port.rs2)
  <2>1. CASE age < 2
    <3>1. ~Div!start(div) /\ ~Div!Answers(div) /\ ~div.running
      BY <1>2, <1>5, <2>1 DEF Div!start, Div!Answers
    <3>2. ~(age + 1 \in 3 .. W + 3) /\ age + 1 # W + 4  BY <1>2, <1>4, <2>1
    <3> QED  BY <1>6, <3>1, <3>2
  <2>2. CASE age = 2
    <3>1. Div!start(div) /\ div.instr = port.op
      BY <1>5, <2>2 DEF Div!start
    <3>2. ~Div!Answers(div)  BY <3>1 DEF Div!Answers
    <3>3. age + 1 \in 3 .. W + 3 /\ age + 1 # W + 4 /\ age - 2 = 0 /\ 0 < W
      BY <1>4, <2>2
    <3>4. /\ div'.dividend = Dividend(port)
          /\ div'.divisor = Divisor(port) * 2^(W - 1)
          /\ div'.quotient = 0 /\ div'.quotient_msk = 2^(W - 1)
          /\ div'.outsign = Div!OutSign(div, port)
      BY <1>1, <3>1, DivNumbers DEF Dividend, Divisor
    <3>5. Div!OutSign(div, port) = Div!OutSign(div', port)
      BY <1>6, <3>1 DEF Div!OutSign
    <3>6. Divides(Dividend(port), Divisor(port), Left(0), div'.dividend, div'.quotient)
      <4> DEFINE a == Dividend(port)  b == Divisor(port)  N == 2^W
      <4>1. a \in 0 .. N - 1 /\ b \in Nat /\ N \in Nat  BY <1>7, WidthFacts DEF Word
      <4>2. div'.dividend = a /\ div'.quotient = 0 /\ Left(0) = N  BY <3>4, BitEnds
      <4>3. Divides(a, b, N, a, 0)
        <5> HIDE DEF a, b, N
        <5>1. 0 = N * 0 /\ 0 * b + a = a /\ 0 = N - N  BY <4>1
        <5>2. b # 0 => a < b * N  BY <4>1
        <5> QED  BY <4>1, <5>1, <5>2 DEF Divides, N
      <4> QED  BY <4>2, <4>3
    <3>7. Tried(div', port, 0)  BY <3>4, <3>6, BitEnds DEF Tried
    <3> QED  BY <1>6, <3>1, <3>2, <3>3, <3>4, <3>5, <3>7
  <2>3. CASE age \in 3 .. W + 2
    <3> DEFINE j == age - 3
    <3>1. j \in 0 .. W - 1 /\ age - 2 = j + 1  BY <1>4, <2>3
    <3>2. div.running /\ Tried(div, port, j) /\ div.outsign = Div!OutSign(div, port)
          /\ div.instr = port.op /\ div.wait_q
      BY <1>4, <1>5, <2>3
    <3> HIDE DEF j
    <3>3. div.quotient_msk # 0  BY <3>1, <3>2, BitFacts DEF Tried
    <3>4. ~Div!start(div) /\ ~Div!Answers(div)
      BY <3>2, <3>3 DEF Div!start, Div!Answers
    <3>5. /\ div'.dividend = IF Div!Fits(div) THEN div.dividend - div.divisor
                             ELSE div.dividend
          /\ div'.quotient = IF Div!Fits(div)
                             THEN Div!WithBit(div.quotient, div.quotient_msk)
                             ELSE div.quotient
          /\ div'.divisor = div.divisor \div 2
          /\ div'.quotient_msk = div.quotient_msk \div 2
          /\ div'.outsign = div.outsign
      BY <1>1, <3>4, DivNumbers
    <3>6. Tried(div', port, j + 1)  BY <1>7, <3>1, <3>2, <3>5, TriedStep
    <3>7. Div!OutSign(div, port) = Div!OutSign(div', port)
      BY <1>6, <3>2 DEF Div!OutSign
    <3>8. age + 1 \in 3 .. W + 3 /\ age + 1 # W + 4  BY <1>4, <2>3
    <3> QED  BY <1>6, <3>1, <3>2, <3>4, <3>5, <3>6, <3>7, <3>8
  <2>4. CASE age = W + 3
    <3>1. age \in 3 .. W + 3 /\ age - 3 = W /\ age > 1 /\ age >= 3 /\ age # 0
          /\ ~(age + 1 \in 3 .. W + 3) /\ age + 1 = W + 4
      BY <1>4, <2>4
    <3>2. div.running /\ Tried(div, port, W) /\ div.outsign = Div!OutSign(div, port)
          /\ div.instr = port.op /\ div.wait_q
      BY <1>5, <3>1
    <3>3. Divides(Dividend(port), Divisor(port), 1, div.dividend, div.quotient)
          /\ div.quotient_msk = 0
      BY <3>2, BitEnds DEF Tried
    <3>4. Div!Answers(div) /\ ~Div!start(div)
      BY <3>2, <3>3 DEF Div!start, Div!Answers
    <3>5. div'.result = LET value == IF div.instr \in {"div", "divu"} THEN div.quotient
                                     ELSE div.dividend
                        IN IF div.outsign THEN Div!Neg(value) ELSE value
      BY <1>1, <3>4, DivNumbers
    <3>6. div.outsign <=>
              \/ port.op = "div" /\ Negative(port.rs1) # Negative(port.rs2) /\ port.rs2 # 0
              \/ port.op = "rem" /\ Negative(port.rs1)
      BY <3>2 DEF Div!OutSign, Div!Negative, Negative
    <3>7. div'.result = Result(port.op, port.rs1, port.rs2)
      BY <1>2, <1>3, <3>2, <3>3, <3>5, <3>6, AnswerIs DEF Dividend, Divisor
    <3> QED  BY <1>6, <3>1, <3>4, <3>7
  <2>5. age < 2 \/ age = 2 \/ age \in 3 .. W + 2 \/ age = W + 3
    BY <1>2, <1>4, <1>5
  <2> QED  BY <2>1, <2>2, <2>3, <2>4, <2>5
<1>10. /\ div'.instr = IF age + 1 = 0 THEN None ELSE port.op
       /\ age + 1 = 0 => (div'.wait => div'.wait_q)
       /\ age + 1 > 0 => (div'.wait <=> age + 1 >= 2)
       /\ age + 1 > 1 => (div'.wait_q <=> age + 1 >= 3)
  BY <1>6, <1>8
<1>11. age + 1 <= W + 4  BY <1>8
<1>12. DivAt(div', port, age + 1)
  <2> DEFINE k == age + 1
  <2>1. /\ k <= W + 4
        /\ div'.instr = IF k = 0 THEN None ELSE port.op
        /\ k = 0 => (div'.wait => div'.wait_q)
        /\ k > 0 => (div'.wait <=> k >= 2)
        /\ k > 1 => (div'.wait_q <=> k >= 3)
    BY <1>10, <1>11
  <2>2. /\ div'.running <=> k \in 3 .. W + 3
        /\ div'.ready <=> k = W + 4
        /\ k \in 3 .. W + 3 =>
               Tried(div', port, k - 3) /\ div'.outsign = Div!OutSign(div', port)
        /\ k = W + 4 => div'.result = Result(port.op, port.rs1, port.rs2)
    <3>1. k - 3 = age - 2  BY <1>2
    <3> HIDE DEF k
    <3>2. k \in 3 .. W + 3 =>
              Tried(div', port, k - 3) /\ div'.outsign = Div!OutSign(div', port)
      BY <1>9, <3>1 DEF k
    <3> QED  BY <1>9, <3>2 DEF k
  <2> HIDE DEF k
  <2>3. DivAt(div', port, k)  BY <2>1, <2>2 DEF DivAt
  <2> QED  BY <2>3 DEF k
<1> QED  BY <1>6, <1>12

(* The divider's part of the invariant is kept.                              *)
LEMMA DivStep == PcpiInv /\ [Next]_vars => DivInv'
<1> SUFFICES ASSUME PcpiInv, [Next]_vars PROVE DivInv'
  OBVIOUS
<1>1. PortInv /\ MulInv /\ DivInv  BY DEF PcpiInv
<1>2. /\ DivType /\ resetn \in BOOLEAN /\ port.valid \in BOOLEAN /\ age \in Nat
      /\ W \in Nat /\ W >= 2
  BY <1>1, WidthFacts DEF DivInv, PortInv
<1>3. CASE Reset
  <2>1. /\ ~Asked(DivOp) /\ Units /\ port' = port
    BY <1>1, <1>3 DEF Reset, PortInv, Asked, Started
  <2>2. DivType' /\ DivRests'  BY <1>1, <1>2, <2>1, DivRestsStep DEF DivInv, DivRests
  <2>3. ~Asked(DivOp)'  BY <2>1 DEF Asked
  <2> QED  BY <2>2, <2>3 DEF DivInv
<1>4. CASE PowerUp \/ Rest
  <2>1. /\ ~Asked(DivOp) /\ Units /\ port' = port
    BY <1>1, <1>4 DEF PowerUp, PortInv, Started, Rest, Asked
  <2>2. DivType' /\ DivRests'  BY <1>1, <1>2, <2>1, DivRestsStep DEF DivInv, DivRests
  <2>3. ~Asked(DivOp)'  BY <2>1 DEF Asked
  <2> QED  BY <2>2, <2>3 DEF DivInv
<1>5. ASSUME NEW op, NEW a, NEW b, Ask(op, a, b) PROVE DivInv'
  <2>1. ~Asked(DivOp) /\ Units /\ age' = 0  BY <1>5 DEF Ask, Asked
  <2>2. /\ DivType' /\ div'.instr = None /\ ~div'.running /\ ~div'.ready /\ ~div'.wait
        /\ DivRests'
    BY <1>1, <1>2, <2>1, DivRestsStep DEF DivInv, DivRests
  <2>3. DivAt(div, port, age)'
    <3>1. /\ age' <= W + 4 /\ age' # W + 4 /\ ~(age' \in 3 .. W + 3)
          /\ ~(age' > 0) /\ ~(age' > 1)
      BY <1>2, <2>1
    <3> QED  BY <2>1, <2>2, <3>1 DEF DivAt
  <2> QED  BY <2>2, <2>3 DEF DivInv
<1>6. CASE Hold
  <2>1. resetn /\ port.valid /\ ~pcpi_int_ready /\ port' = port /\ Units
    BY <1>6 DEF Hold, Started
  <2>2. Asked(DivOp)' <=> Asked(DivOp)  BY <2>1 DEF Asked
  <2>3. CASE Asked(DivOp)
    <3>1. age' = age + 1  BY <1>6, <2>3, Operations DEF Hold, Asked
    <3>2. DivType' /\ DivAt(div', port, age + 1)
      BY <1>1, <2>1, <2>3, DivAsked
    <3>3. DivAt(div, port, age)'  BY <2>1, <3>1, <3>2
    <3> QED  BY <2>2, <2>3, <3>2, <3>3 DEF DivInv
  <2>4. CASE ~Asked(DivOp)
    <3>1. DivType' /\ DivRests'
      BY <1>1, <1>2, <2>1, <2>4, DivRestsStep DEF DivInv, DivRests
    <3> QED  BY <2>2, <2>4, <3>1 DEF DivInv
  <2> QED  BY <2>3, <2>4
<1>7. CASE Take \/ GiveUp
  <2>1. Started /\ resetn /\ resetn' /\ port' = Idle /\ Units
    BY <1>7 DEF Take, GiveUp, Started
  <2>2. ~Asked(DivOp)'  BY <2>1 DEF Asked, Idle
  <2>3. CASE ~Asked(DivOp)
    <3>1. DivType' /\ DivRests'
      BY <1>1, <1>2, <2>1, <2>3, DivRestsStep DEF DivInv, DivRests
    <3> QED  BY <2>2, <3>1 DEF DivInv
  <2>4. CASE Asked(DivOp)
    <3>1. pcpi_int_ready  BY <1>7, <2>4, Operations DEF Take, GiveUp, Asked
    <3>2. ~mul.ready
      <4>1. ~Asked(MulOp)  BY <2>4, Operations DEF Asked
      <4> QED  BY <1>1, <2>1, <4>1 DEF MulInv, MulRests
    <3>3. div.ready /\ DivAt(div, port, age)
      BY <1>1, <2>4, <3>1, <3>2 DEF pcpi_int_ready, DivInv
    <3>4. age = W + 4  BY <3>3 DEF DivAt
    <3>5. age > 0 /\ age > 1 /\ age >= 2 /\ age >= 3 /\ ~(age \in 3 .. W + 3)
      BY <1>2, <3>4
    <3>6. div.wait /\ div.wait_q /\ ~div.running  BY <3>3, <3>5 DEF DivAt
    <3>7. ~Div!start(div) /\ ~Div!Answers(div)
      BY <3>6 DEF Div!start, Div!Answers
    <3>8. DivType' /\ DivRests'
      BY <1>2, <2>1, <3>3, <3>6, <3>7, DivEdge DEF DivRests
    <3> QED  BY <2>2, <3>8 DEF DivInv
  <2> QED  BY <2>3, <2>4
<1>8. CASE UNCHANGED vars
  <2>1. div' = div /\ port' = port /\ age' = age /\ resetn' = resetn  BY <1>8 DEF vars
  <2>2. DivType' /\ (Asked(DivOp)' <=> Asked(DivOp))
    BY <1>2, <2>1 DEF DivType, DivRecord, Asked
  <2>3. DivAt(div, port, age)' <=> DivAt(div, port, age)  BY <2>1
  <2>4. DivRests' <=> DivRests  BY <2>1 DEF DivRests
  <2> QED  BY <1>1, <2>2, <2>3, <2>4 DEF DivInv
<1> QED  BY <1>3, <1>4, <1>5, <1>6, <1>7, <1>8 DEF Next

(* At power-up the multiplier is at work, the divider is not.                *)
LEMMA PcpiInit == Init => PcpiInv
<1> SUFFICES ASSUME Init PROVE PcpiInv
  OBVIOUS
<1>1. resetn = TRUE /\ booted = FALSE /\ port = Idle /\ age = 0 /\ 0 \in Word
  BY WidthFacts DEF Init, Word
<1>2. PortInv  BY <1>1 DEF PortInv, Idle
<1>3. ~Asked(DivOp) /\ ~Asked(MulOp)  BY <1>1 DEF Asked, Idle
<1>4. MulType /\ MulBoots
  BY <1>1 DEF Init, MulType, MulRecord, MulBoots, Mul!MulInit, Mul!None, None
<1>5. DivType /\ DivRests
  BY DEF Init, DivType, DivRecord, DivRests, Div!DivInit, Div!None, None
<1> QED  BY <1>1, <1>2, <1>3, <1>4, <1>5 DEF PcpiInv, MulInv, DivInv, Started

(* In every reachable state the units are where the age of the instruction   *)
(* puts them: the part of both modules that everything below follows from.   *)
THEOREM PcpiIsInvariant == Spec => []PcpiInv
<1>1. PcpiInv /\ [Next]_vars => PcpiInv'
  BY PortStep, MulStep, DivStep DEF PcpiInv
<1> QED  BY <1>1, PcpiInit, PTL DEF Spec

-----------------------------------------------------------------------------
(* Only the unit that is asked answers, but for the multiplier before the    *)
(* reset.                                                                    *)
LEMMA WhoAnswers ==
    ASSUME PcpiInv
    PROVE  /\ booted /\ mul.ready => Started /\ Asked(MulOp)
           /\ div.ready => Started /\ Asked(DivOp)
           /\ ~booted => ~port.valid /\ ~div.ready /\ (mul.ready <=> age = 3)
  BY DEF PcpiInv, PortInv, MulInv, MulBoots, MulInReset, MulRests, DivInv, DivRests,
         Started, Asked

(* pcpi_ready is up for the instruction that is asked, from its own unit, on *)
(* the edge that the instruction alone decides, and pcpi_wait well before the *)
(* core's timeout; before the reset, however many edges that takes, nothing  *)
(* is asked and the multiplier answers once, at the third edge.              *)
THEOREM UnitsAnswerOnTime == Spec => []AnswersOnTime
<1>1. ASSUME PcpiInv PROVE AnswersOnTime
  <2>a. CASE ~booted  BY <1>1, <2>a, WhoAnswers DEF AnswersOnTime
  <2>b. SUFFICES ASSUME booted PROVE AnswersOnTime
    BY <2>a
  <2>1. /\ mul.ready => port.valid /\ port.op \in MulOp
        /\ div.ready => port.valid /\ port.op \in DivOp
    BY <1>1, <2>b, WhoAnswers DEF Asked
  <2>2. /\ W \in Nat /\ W >= 2 /\ age \in Nat
        /\ port.op \in MulOp \cup DivOp \cup {OtherOp}
        /\ port.valid => Started
    BY <1>1, WidthFacts DEF PcpiInv, PortInv
  <2>3. ASSUME port.valid, port.op \in MulOp
        PROVE  /\ pcpi_int_ready <=> age = EdgesToAnswer(port.op)
               /\ age >= 2 => mul.wait \/ div.wait
    <3>1. ~div.ready  BY <2>1, <2>3, Operations
    <3>2. MulAt(mul, port.op, age)
      BY <1>1, <2>2, <2>3 DEF PcpiInv, MulInv, Asked
    <3>3. EdgesToAnswer(port.op) = Steps(port.op) + 4
      BY <2>3 DEF EdgesToAnswer, Steps, MulOp
    <3>4. mul.ready <=> age = Steps(port.op) + 4  BY <3>2 DEF MulAt
    <3>5. age > 0 => (mul.wait <=> age >= 2)  BY <3>2 DEF MulAt
    <3>6. age >= 2 => age > 0  BY <2>2
    <3> QED  BY <3>1, <3>3, <3>4, <3>5, <3>6 DEF pcpi_int_ready
  <2>4. ASSUME port.valid, port.op \in DivOp
        PROVE  /\ pcpi_int_ready <=> age = EdgesToAnswer(port.op)
               /\ age >= 2 => mul.wait \/ div.wait
    <3>1. ~mul.ready  BY <2>1, <2>4, Operations
    <3>2. DivAt(div, port, age)
      BY <1>1, <2>4 DEF PcpiInv, DivInv, Asked
    <3>3. EdgesToAnswer(port.op) = W + 4
      BY <2>4 DEF EdgesToAnswer, DivOp
    <3>4. div.ready <=> age = W + 4  BY <3>2 DEF DivAt
    <3>5. age > 0 => (div.wait <=> age >= 2)  BY <3>2 DEF DivAt
    <3>6. age >= 2 => age > 0  BY <2>2
    <3> QED  BY <3>1, <3>3, <3>4, <3>5, <3>6 DEF pcpi_int_ready
  <2> QED  BY <2>b, <2>1, <2>2, <2>3, <2>4 DEF AnswersOnTime
<1> QED  BY <1>1, PcpiIsInvariant, PTL

(* While it runs, dividend and quotient make up the operand that is divided. *)
LEMMA DivisionsInTheMaking ==
    ASSUME PcpiInv PROVE LeavesRemainder
<1> DEFINE a == Dividend(port)  b == Divisor(port)
           weight == IF div.quotient_msk = 0 THEN 1 ELSE 2 * div.quotient_msk
<1> SUFFICES ASSUME div.running
             PROVE  /\ b # 0 => div.quotient * b + div.dividend = a
                    /\ b = 0 => div.dividend = a
                    /\ b # 0 => div.dividend < b * weight
                    /\ div.instr = port.op
  BY DEF LeavesRemainder, Dividend, Divisor, IsSigned
<1>1. Asked(DivOp) /\ W \in Nat /\ W >= 2 /\ age \in Nat
  BY WidthFacts DEF PcpiInv, PortInv, DivInv, DivRests
<1>2. DivAt(div, port, age)  BY <1>1 DEF PcpiInv, DivInv
<1>3. age \in 3 .. W + 3  BY <1>2 DEF DivAt
<1>4. Tried(div, port, age - 3)  BY <1>2, <1>3 DEF DivAt
<1>5. div.instr = port.op  BY <1>1, <1>2, <1>3 DEF DivAt
<1>6. weight = Left(age - 3)
  <2>1. CASE age = W + 3
    <3>1. age - 3 = W  BY <1>1, <2>1
    <3> QED  BY <1>4, <3>1, BitEnds DEF Tried
  <2>2. CASE age # W + 3
    <3>1. age - 3 \in 0 .. W - 1  BY <1>1, <1>3, <2>2
    <3>2. /\ Bit(age - 3) \in Nat /\ Bit(age - 3) > 0
          /\ Left(age - 3) = 2 * Bit(age - 3)
      BY <3>1, BitFacts
    <3> QED  BY <1>4, <3>2 DEF Tried
  <2> QED  BY <2>1, <2>2
<1> HIDE DEF a, b, weight
<1>7. Divides(a, b, weight, div.dividend, div.quotient)
  BY <1>4, <1>6 DEF Tried, a, b
<1> QED  BY <1>5, <1>7 DEF Divides

(* When the divider answers, pcpi_rd is the quotient or remainder that       *)
(* RISC-V defines for the operands on the interface; until then what it has  *)
(* found and what is left make up the dividend.                              *)
THEOREM Divisions == Spec => []QuotientsAreRight
<1>1. ASSUME PcpiInv PROVE QuotientsAreRight
  <2> SUFFICES ASSUME div.ready PROVE pcpi_int_rd = Result(port.op, port.rs1, port.rs2)
    BY <1>1, DivisionsInTheMaking DEF QuotientsAreRight
  <2>1. Asked(DivOp) /\ ~mul.ready
    BY <1>1, WhoAnswers, Operations DEF Asked, Started
  <2>2. DivAt(div, port, age)  BY <1>1, <2>1 DEF PcpiInv, DivInv
  <2>3. age = W + 4  BY <2>2 DEF DivAt
  <2>4. div.result = Result(port.op, port.rs1, port.rs2)  BY <2>2, <2>3 DEF DivAt
  <2> QED  BY <2>1, <2>4 DEF pcpi_int_rd
<1> QED  BY <1>1, PcpiIsInvariant, PTL

-----------------------------------------------------------------------------
(* What a step has to show.                                                  *)
LEMMA CoprocessorStep ==
    ASSUME NEW u, NEW n \in UnitState, NEW mine, NEW r,
           n.instr => r /\ mine, r /\ mine /\ ~u.ready => n.instr,
           n.wait <=> u.instr /\ r, n.wait_q <=> u.wait /\ r, n.ready => r /\ u.busy,
           n.busy <=> r /\ (Starts(u) \/ (u.busy /\ ~n.ready))
    PROVE  n \in UnitNext(u, mine, r)
<1>1. n.wait \in BOOLEAN /\ n.wait_q \in BOOLEAN /\ n.busy \in BOOLEAN
  BY DEF UnitState
<1>2. n.wait = (u.instr /\ r)  BY <1>1
<1>3. n.wait_q = (u.wait /\ r)  BY <1>1
<1>4. n.busy = (r /\ (Starts(u) \/ (u.busy /\ ~n.ready)))  BY <1>1
<1> QED  BY <1>2, <1>3, <1>4 DEF UnitNext

(* An edge takes the multiplier as far as the co-processor the core expects. *)
LEMMA MulAsExpected ==
    ASSUME PcpiInv, Units PROVE MulView' \in UnitNext(MulView, Asked(MulOp), resetn)
<1>1. MulType /\ resetn \in BOOLEAN /\ port.valid \in BOOLEAN
  BY DEF PcpiInv, PortInv, MulInv
<1>2. /\ MulType'
      /\ mul'.instr = IF resetn /\ Asked(MulOp) THEN port.op ELSE None
      /\ mul'.wait <=> mul.instr # None
      /\ mul'.wait_q <=> mul.wait
      /\ mul'.ready <=> mul.finish /\ resetn
  BY <1>1, MulEdge
<1>3. ~resetn => mul.instr = None /\ ~mul.wait
  BY DEF PcpiInv, MulInv, MulBoots, MulInReset
<1>4. resetn /\ mul.finish => mul.waiting
  <2>a. CASE ~booted
    <3>1. MulBoots /\ age \in Nat  BY <2>a DEF PcpiInv, PortInv, MulInv
    <3> QED  BY <3>1 DEF MulBoots
  <2>1. CASE booted /\ Asked(MulOp)
    <3>1. ASSUME resetn, mul.finish PROVE mul.waiting
      <4>1. MulAt(mul, port.op, age)  BY <2>1, <3>1 DEF PcpiInv, MulInv, Started
      <4>2. age = Steps(port.op) + 3 /\ (mul.waiting <=> age < 3 \/ age > Steps(port.op) + 2)
        BY <3>1, <4>1 DEF MulAt
      <4>3. Steps(port.op) \in Nat  BY WidthFacts DEF Steps
      <4> QED  BY <4>2, <4>3
    <3> QED  BY <3>1
  <2>2. CASE booted /\ ~Asked(MulOp)  BY <2>2 DEF PcpiInv, MulInv, MulRests, Started
  <2> QED  BY <2>a, <2>1, <2>2
<1>5. /\ ~resetn => mul'.waiting /\ ~mul'.finish
      /\ resetn /\ mul.waiting => /\ mul'.waiting <=> ~(mul.wait /\ ~mul.wait_q)
                                  /\ ~mul'.finish
      /\ resetn /\ ~mul.waiting => (mul'.finish <=> mul'.waiting)
  BY <1>1, MulEdge
<1>6. Asked(MulOp) => port.op # None  BY Operations DEF Asked
<1>7. /\ mul'.instr # None <=> resetn /\ Asked(MulOp)
      /\ mul'.wait <=> mul.instr # None /\ resetn
      /\ mul'.wait_q <=> mul.wait /\ resetn
      /\ mul'.ready => resetn /\ (~mul.waiting \/ mul.finish)
      /\ ~mul'.waiting \/ mul'.finish <=>
             resetn /\ (\/ mul.wait /\ ~mul.wait_q
                        \/ (~mul.waiting \/ mul.finish) /\ ~mul'.ready)
  BY <1>1, <1>2, <1>3, <1>4, <1>5, <1>6 DEF MulType
<1> DEFINE u == MulView  n == MulView'
<1>8. /\ n.instr = (mul'.instr # None)
      /\ n.wait = mul'.wait
      /\ n.wait_q = mul'.wait_q
      /\ n.ready = mul'.ready
      /\ n.busy = (~mul'.waiting \/ mul'.finish)
  BY DEF MulView
<1>9. /\ u.instr = (mul.instr # None)
      /\ u.wait = mul.wait
      /\ u.ready = mul.ready
      /\ u.busy = (~mul.waiting \/ mul.finish)
      /\ u.wait_q = mul.wait_q
  BY DEF MulView
<1>10. n \in UnitState
  BY <1>2 DEF MulView, UnitState, MulType
<1> HIDE DEF u, n
<1>11. n \in UnitNext(u, Asked(MulOp), resetn)
  <2>1. n.instr => resetn /\ Asked(MulOp)  BY <1>7, <1>8, <1>9
  <2>2. resetn /\ Asked(MulOp) /\ ~u.ready => n.instr  BY <1>7, <1>8, <1>9
  <2>3. n.wait <=> u.instr /\ resetn  BY <1>7, <1>8, <1>9
  <2>4. n.wait_q <=> u.wait /\ resetn  BY <1>7, <1>8, <1>9
  <2>5. n.ready => resetn /\ u.busy  BY <1>7, <1>8, <1>9
  <2>6. n.busy <=> resetn /\ (Starts(u) \/ (u.busy /\ ~n.ready))
    BY <1>7, <1>8, <1>9 DEF Starts
  <2> QED  BY <1>10, <2>1, <2>2, <2>3, <2>4, <2>5, <2>6, CoprocessorStep
<1> QED  BY <1>11 DEF u, n

(* And the divider.                                                          *)
LEMMA DivAsExpected ==
    ASSUME PcpiInv, Units PROVE DivView' \in UnitNext(DivView, Asked(DivOp), resetn)
<1>1. DivType /\ resetn \in BOOLEAN /\ port.valid \in BOOLEAN
  BY DEF PcpiInv, PortInv, DivInv
<1>2. /\ DivType'
      /\ div'.instr = IF resetn /\ Asked(DivOp) /\ ~div.ready THEN port.op ELSE None
      /\ div'.wait <=> resetn /\ div.instr # None
      /\ div'.wait_q <=> resetn /\ div.wait
      /\ div'.ready <=> resetn /\ Div!Answers(div)
      /\ ~resetn => ~div'.running
      /\ resetn /\ Div!start(div) => div'.running
      /\ resetn /\ Div!Answers(div) => ~div'.running
      /\ resetn /\ ~Div!start(div) /\ ~Div!Answers(div) =>
             (div'.running <=> div.running)
  BY <1>1, DivEdge
<1>3. /\ Div!start(div) <=> div.wait /\ ~div.wait_q
      /\ Div!Answers(div) => ~Div!start(div) /\ div.running
  BY DEF Div!start, Div!Answers
<1>4. Asked(DivOp) => port.op # None  BY Operations DEF Asked
<1>5. /\ div'.instr # None <=> resetn /\ Asked(DivOp) /\ ~div.ready
      /\ div'.wait <=> div.instr # None /\ resetn
      /\ div'.wait_q <=> div.wait /\ resetn
      /\ div'.ready => resetn /\ div.running
      /\ div'.running <=>
             resetn /\ (\/ div.wait /\ ~div.wait_q
                        \/ div.running /\ ~div'.ready)
  BY <1>1, <1>2, <1>3, <1>4 DEF DivType
<1> DEFINE u == DivView  n == DivView'
<1>6. /\ n.instr = (div'.instr # None)
      /\ n.wait = div'.wait
      /\ n.wait_q = div'.wait_q
      /\ n.ready = div'.ready
      /\ n.busy = div'.running
  BY DEF DivView
<1>7. /\ u.instr = (div.instr # None)
      /\ u.wait = div.wait
      /\ u.ready = div.ready
      /\ u.busy = div.running
      /\ u.wait_q = div.wait_q
  BY DEF DivView
<1>8. n \in UnitState
  BY <1>2 DEF DivView, UnitState, DivType
<1> HIDE DEF u, n
<1>9. n \in UnitNext(u, Asked(DivOp), resetn)
  <2>1. n.instr => resetn /\ Asked(DivOp)  BY <1>5, <1>6, <1>7
  <2>2. resetn /\ Asked(DivOp) /\ ~u.ready => n.instr  BY <1>5, <1>6, <1>7
  <2>3. n.wait <=> u.instr /\ resetn  BY <1>5, <1>6, <1>7
  <2>4. n.wait_q <=> u.wait /\ resetn  BY <1>5, <1>6, <1>7
  <2>5. n.ready => resetn /\ u.busy  BY <1>5, <1>6, <1>7
  <2>6. n.busy <=> resetn /\ (Starts(u) \/ (u.busy /\ ~n.ready))
    BY <1>5, <1>6, <1>7 DEF Starts
  <2> QED  BY <1>8, <2>1, <2>2, <2>3, <2>4, <2>5, <2>6, CoprocessorStep
<1> QED  BY <1>9 DEF u, n

(* picorv32_pcpi_mul and picorv32_pcpi_div are the units that PicoCore       *)
(* expects, from power-up on.                                                *)
THEOREM UnitsAreCoprocessors == Spec => ImplementsCoprocessor
<1>1. Init => MulView = UnitInit(TRUE) /\ DivView = UnitInit(FALSE)
  <2> SUFFICES ASSUME Init PROVE MulView = UnitInit(TRUE) /\ DivView = UnitInit(FALSE)
    OBVIOUS
  <2>1. /\ (mul.instr # None) = FALSE /\ mul.wait = FALSE /\ mul.wait_q = FALSE
        /\ (~mul.waiting \/ mul.finish) = TRUE /\ mul.ready = FALSE
    BY DEF Init, Mul!MulInit, Mul!None, None
  <2>2. /\ (div.instr # None) = FALSE /\ div.wait = FALSE /\ div.wait_q = FALSE
        /\ div.running = FALSE /\ div.ready = FALSE
    BY DEF Init, Div!DivInit, Div!None, None
  <2> QED  BY <2>1, <2>2 DEF MulView, DivView, UnitInit
<1>2. PcpiInv /\ [Next]_vars =>
          [/\ MulView' \in UnitNext(MulView, Asked(MulOp), resetn)
           /\ DivView' \in UnitNext(DivView, Asked(DivOp), resetn)]_vars
  <2>1. Next => Units
    BY DEF Next, PowerUp, Reset, Rest, Hold, Take, GiveUp, Ask
  <2> QED  BY <2>1, MulAsExpected, DivAsExpected
<1> QED  BY <1>1, <1>2, PcpiIsInvariant, PTL DEF Spec, ImplementsCoprocessor
-----------------------------------------------------------------------------
(* The carry save accumulator. *)

Base == 2^CARRY_CHAIN

(* The chains make up the register.                                          *)
LEMMA ChainFacts ==
    /\ Mul!NChains \in Nat /\ Mul!NChains > 0 /\ CARRY_CHAIN * Mul!NChains = 2 * W
    /\ CARRY_CHAIN \in Nat \ {0} /\ Base \in Nat /\ Base >= 2
    /\ Mul!Double \in Nat \ {0} /\ Mul!Weight(Mul!NChains) = Mul!Double
    /\ Mul!Weight(0) = 1
    /\ \A k \in Nat : /\ Mul!Weight(k) \in Nat \ {0}
                      /\ Mul!Weight(k + 1) = Mul!Weight(k) * Base
<1> DEFINE C == CARRY_CHAIN  N == Mul!NChains
<1>1. W \in Nat /\ W >= 2 /\ C \in 1 .. 2 * W /\ (2 * W) % C = 0
  BY WidthFacts, ChainAssumption
<1>2. N = (2 * W) \div C
  BY DEF Mul!NChains
<1> HIDE DEF N
<1>3. N \in Nat /\ N > 0 /\ C * N = 2 * W
  <2>1. 2 * W = N * C + 0
    BY <1>1, <1>2
  <2>2. N \in Nat
    BY <1>1, <1>2
  <2>3. N * C = C * N
    BY <1>1, <2>2
  <2>4. N # 0
    <3>1. CASE N = 0
      <4>1. W \in Nat /\ W >= 2 /\ C \in Nat
        BY <1>1
      <4>2. 0 * C = 0
        BY <4>1
      <4>3. 2 * W = 0 * C + 0
        BY <2>1, <3>1
      <4> QED  BY <4>1, <4>2, <4>3
    <3> QED  BY <3>1
  <2>5. N * C \in Nat
    BY <1>1, <2>2
  <2>6. C * N = 2 * W
    BY <2>1, <2>3, <2>5
  <2> QED  BY <2>2, <2>4, <2>6
<1>4. Base \in Nat /\ Base >= 2
  <2>1. C - 1 \in Nat /\ C = (C - 1) + 1
    BY <1>1
  <2>2. 2^((C - 1) + 1) = 2 * 2^(C - 1) /\ 2^(C - 1) \in Nat \ {0}
    BY <2>1, TwoExp, TwoPositive
  <2>3. Base = 2 * 2^(C - 1)
    BY <2>1, <2>2 DEF Base
  <2> QED  BY <2>2, <2>3
<1>5. Mul!Double \in Nat \ {0}
  <2>1. 2 * W \in Nat
    BY <1>1
  <2> QED  BY <2>1, TwoPositive DEF Mul!Double
<1>6. Mul!Weight(N) = Mul!Double
  BY <1>3 DEF Mul!Weight, Mul!Double
<1>7. Mul!Weight(0) = 1
  <2>1. C * 0 = 0 /\ 2^0 = 1
    BY <1>1
  <2> QED  BY <2>1 DEF Mul!Weight
<1>8. ASSUME NEW k \in Nat
      PROVE  Mul!Weight(k) \in Nat \ {0} /\ Mul!Weight(k + 1) = Mul!Weight(k) * Base
  <2>1. C * k \in Nat /\ C * (k + 1) = C * k + C /\ C \in Nat
    BY <1>1
  <2>2. 2^(C * k + C) = 2^(C * k) * 2^C /\ 2^(C * k) \in Nat \ {0}
    BY <2>1, TwoSum, TwoPositive
  <2> QED  BY <2>1, <2>2 DEF Mul!Weight, Base
<1> QED  BY <1>1, <1>3, <1>4, <1>5, <1>6, <1>7, <1>8 DEF N

(* up is what the loop over the chains has put together at each of them.     *)
Gathers(up, part) ==
    /\ up[0] = 0
    /\ \A k \in Mul!Chains : up[k + 1] = up[k] + part[k]

(* There is one.                                                             *)
LEMMA GatherExists ==
    ASSUME NEW part
    PROVE  \A n \in Nat : \E up :
              up = [k \in 0 .. n |-> IF k = 0 THEN 0 ELSE up[k - 1] + part[k - 1]]
<1> DEFINE Is(up, n) == up = [k \in 0 .. n |-> IF k = 0 THEN 0 ELSE up[k - 1] + part[k - 1]]
           S == {n \in Nat : \E up : Is(up, n)}
<1>1. 0 \in S
  <2> DEFINE f == [k \in 0 .. 0 |-> 0]
  <2>1. Is(f, 0)
    OBVIOUS
  <2> QED  BY <2>1
<1>2. ASSUME NEW n \in Nat, n \in S PROVE n + 1 \in S
  <2>1. PICK f : Is(f, n)
    BY <1>2
  <2> DEFINE x == f[n] + part[n]
             g == [k \in 0 .. n + 1 |-> IF k = n + 1 THEN x ELSE f[k]]
  <2>2. /\ g = [k \in 0 .. n + 1 |-> g[k]] /\ g[n + 1] = x
        /\ \A k \in 0 .. n : g[k] = f[k]
    <3> HIDE DEF x
    <3> QED  OBVIOUS
  <2>3. ASSUME NEW k \in 0 .. n + 1
        PROVE  g[k] = IF k = 0 THEN 0 ELSE g[k - 1] + part[k - 1]
    <3> HIDE DEF g
    <3>1. CASE k = n + 1
      <4>1. k - 1 = n /\ n \in 0 .. n /\ k # 0
        BY <3>1
      <4>2. g[k] = f[n] + part[n]
        BY <2>2, <3>1
      <4>3. g[k - 1] = f[n]
        <5> HIDE DEF x
        <5> QED  BY <2>2, <4>1
      <4> QED  BY <4>1, <4>2, <4>3
    <3>2. CASE k \in 1 .. n
      <4>1. k \in 0 .. n /\ k - 1 \in 0 .. n /\ k # 0
        BY <3>2
      <4>2. g[k] = f[k] /\ g[k - 1] = f[k - 1]
        BY <2>2, <4>1
      <4>3. f[k] = f[k - 1] + part[k - 1]
        BY <2>1, <4>1
      <4> QED  BY <4>1, <4>2, <4>3
    <3>3. CASE k = 0
      <4>1. g[0] = f[0] /\ f[0] = 0
        BY <2>1, <2>2
      <4> QED  BY <3>3, <4>1
    <3> QED  BY <3>1, <3>2, <3>3
  <2> HIDE DEF g
  <2>4. Is(g, n + 1)
    BY <2>2, <2>3
  <2> HIDE DEF Is
  <2> QED  BY <2>4
<1> HIDE DEF S
<1>3. Nat \subseteq S
  BY <1>1, <1>2, Induct
<1> QED  BY <1>3 DEF S

(* Gather is where it ends.                                                  *)
LEMMA GatherIs ==
    ASSUME NEW part
    PROVE  \E up : Gathers(up, part) /\ Mul!Gather(part) = up[Mul!NChains]
<1> DEFINE N == Mul!NChains
           Is(up) == up = [k \in 0 .. N |-> IF k = 0 THEN 0 ELSE up[k - 1] + part[k - 1]]
           up == CHOOSE up : Is(up)
<1>1. N \in Nat
  BY ChainFacts
<1>2. Mul!Gather(part) = up[N]
  BY DEF Mul!Gather
<1>3. Is(up)
  BY <1>1, GatherExists
<1> HIDE DEF up
<1>4. Gathers(up, part)
  <2>1. \A k \in 0 .. N : up[k] = IF k = 0 THEN 0 ELSE up[k - 1] + part[k - 1]
    BY <1>3
  <2> HIDE DEF Is
  <2>2. up[0] = 0
    BY <1>1, <2>1
  <2>3. ASSUME NEW k \in 0 .. N - 1 PROVE up[k + 1] = up[k] + part[k]
    <3>1. k + 1 \in 0 .. N /\ k + 1 # 0 /\ (k + 1) - 1 = k
      BY <1>1
    <3> QED  BY <2>1, <3>1
  <2> QED  BY <2>2, <2>3 DEF Gathers, Mul!Chains
<1> QED  BY <1>2, <1>4
-----------------------------------------------------------------------------
(* One step of the accumulator, on the registers u. *)

MulWords(u) ==
    /\ u.rd \in 0 .. Mul!Double - 1 /\ u.rdx \in 0 .. Mul!Double - 1
    /\ u.rs1 \in 0 .. Mul!Double - 1 /\ u.rs2 \in 0 .. Mul!Double - 1

(* this_rs2 *)
Added(u) == IF u.rs1 % 2 = 1 THEN u.rs2 ELSE 0

(* What the loop makes of the sums and of the carries.                       *)
Sums(up, u)    == Gathers(up, [k \in Mul!Chains |-> Mul!SumBits(u, k) * Mul!Weight(k)])
Carries(up, u) == Gathers(up, [k \in Mul!Chains |-> Mul!Carry(u, k) * Mul!Weight(k + 1)])

(* A register of carries has a bit at most in each chain, its lowest.        *)
Sparse(x) == \A k \in Mul!Chains : (x % Mul!Weight(k + 1)) < 2 * Mul!Weight(k)

(* A chain of a number is a digit of it.                                     *)
LEMMA SliceFact ==
    ASSUME NEW x \in Nat, NEW k \in Nat
    PROVE  /\ Mul!Slice(x, k) \in 0 .. Base - 1
           /\ (x % Mul!Weight(k + 1)) = (x % Mul!Weight(k)) + Mul!Slice(x, k) * Mul!Weight(k)
<1> DEFINE p == Mul!Weight(k)  b == Base
<1>1. /\ p \in Nat \ {0} /\ b \in Nat \ {0} /\ Mul!Weight(k + 1) = p * b
      /\ x \in Int
  BY ChainFacts
<1>2. Mul!Slice(x, k) = (x \div p) % b
  BY DEF Mul!Slice, Base
<1> HIDE DEF p, b
<1>3. /\ (x \div p) % b \in 0 .. b - 1
      /\ x % (p * b) = (x % p) + ((x \div p) % b) * p
  BY <1>1, DigitFact
<1> QED  BY <1>1, <1>2, <1>3 DEF p, b

(* The sum of three digits to the base n is put as l, its carry c apart.     *)
Splits(x, y, z, n, l, c) == l = (x + y + z) % n /\ c = ((x + y + z) \div n) % 2

(* Adding three digits, the second a carry.                                  *)
LEMMA ThreeDigits ==
    ASSUME NEW n \in Nat, n >= 2, NEW x \in 0 .. n - 1, NEW y \in 0 .. n - 1,
           NEW z \in 0 .. n - 1, NEW l, NEW c,
           Splits(x, y, z, n, l, c)
    PROVE  /\ l \in 0 .. n - 1 /\ c \in 0 .. 1
           /\ y <= 1 => l + c * n = x + y + z
           /\ y = 0 /\ z = 0 => c = 0
<1> DEFINE s == x + y + z
<1>1. s \in Nat /\ n > 0 /\ l = s % n /\ c = (s \div n) % 2
  BY DEF Splits
<1>2. l \in 0 .. n - 1 /\ c \in 0 .. 1
  BY <1>1
<1>3. CASE s < n
  <2>1. s = 0 * n + s /\ s \in 0 .. n - 1
    BY <1>1, <1>3
  <2>2. s \div n = 0 /\ s % n = s
    BY <1>1, <2>1, DivUnique
  <2>3. l = s /\ c = 0
    BY <1>1, <2>2
  <2> QED  BY <1>1, <1>2, <2>3
<1>4. CASE n <= s /\ s < 2 * n
  <2>1. s = 1 * n + (s - n) /\ s - n \in 0 .. n - 1
    BY <1>1, <1>4
  <2>2. s \div n = 1 /\ s % n = s - n
    BY <1>1, <2>1, DivUnique
  <2>3. l = s - n /\ c = 1
    BY <1>1, <2>2
  <2>4. ~(y = 0 /\ z = 0)
    BY <1>4
  <2> QED  BY <1>1, <1>2, <2>3, <2>4
<1>5. CASE ~(s < 2 * n)
  <2>1. ~(y <= 1)
    BY <1>5
  <2> QED  BY <1>2, <2>1
<1> QED  BY <1>1, <1>3, <1>4, <1>5

(* The same for a chain.                                                     *)
LEMMA ChainDigits ==
    ASSUME NEW u, MulWords(u), NEW k \in Nat
    PROVE  /\ Mul!SumBits(u, k) \in 0 .. Base - 1 /\ Mul!Carry(u, k) \in 0 .. 1
           /\ Mul!Slice(u.rdx, k) <= 1 =>
                 Mul!SumBits(u, k) + Mul!Carry(u, k) * Base
                   = Mul!Slice(u.rd, k) + Mul!Slice(u.rdx, k) + Mul!Slice(Added(u), k)
           /\ Mul!Slice(u.rdx, k) = 0 /\ Mul!Slice(Added(u), k) = 0 => Mul!Carry(u, k) = 0
<1> DEFINE x == Mul!Slice(u.rd, k)  y == Mul!Slice(u.rdx, k)  z == Mul!Slice(Added(u), k)
           s == Mul!ChainSum(u, k)  l == Mul!SumBits(u, k)  c == Mul!Carry(u, k)
           n == Base
<1>1. n \in Nat /\ n >= 2 /\ Mul!Double \in Nat
  BY ChainFacts
<1>2. u.rd \in Nat /\ u.rdx \in Nat /\ Added(u) \in Nat
  BY <1>1 DEF MulWords, Added
<1>3. x \in 0 .. n - 1 /\ y \in 0 .. n - 1 /\ z \in 0 .. n - 1
  BY <1>2, SliceFact
<1>4. s = x + y + z
  <2>1. CASE u.rs1 % 2 = 1  BY <2>1 DEF Mul!ChainSum, Added
  <2>2. CASE u.rs1 % 2 # 1
    <3>1. Mul!Slice(0, k) = 0
      <4> DEFINE p == Mul!Weight(k)
      <4>1. p \in Nat \ {0}
        BY ChainFacts
      <4> HIDE DEF p
      <4>2. 0 \div p = 0 /\ 0 % n = 0
        <5> HIDE DEF n
        <5> QED  BY <1>1, <4>1
      <4> QED  BY <4>2 DEF Mul!Slice, Base, p
    <3>2. s = x + y + 0 /\ z = 0
      BY <2>2, <3>1 DEF Mul!ChainSum, Added
    <3> QED  BY <3>2
  <2> QED  BY <2>1, <2>2
<1>5. Splits(x, y, z, n, l, c)
  BY <1>4 DEF Mul!SumBits, Mul!Carry, Base, Splits
<1> HIDE DEF x, y, z, s, l, c, n
<1>6. /\ l \in 0 .. n - 1 /\ c \in 0 .. 1
      /\ y <= 1 => l + c * n = x + y + z
      /\ y = 0 /\ z = 0 => c = 0
  BY <1>1, <1>3, <1>5, ThreeDigits
<1> QED  BY <1>6 DEF x, y, z, l, c, n

(* The bits of a register below each chain, and a register of carries.       *)
LEMMA SparseDigits ==
    ASSUME NEW x \in Nat, Sparse(x), NEW k \in Mul!Chains
    PROVE  Mul!Slice(x, k) <= 1
<1> DEFINE p == Mul!Weight(k)  d == Mul!Slice(x, k)  y == (x % p)
<1>1. k \in Nat
  BY ChainFacts DEF Mul!Chains
<1>2. p \in Nat \ {0} /\ d \in Nat /\ (x % Mul!Weight(k + 1)) = y + d * p
  BY <1>1, ChainFacts, SliceFact
<1>3. y \in Nat
  BY <1>2
<1>4. y + d * p < 2 * p
  BY <1>2 DEF Sparse
<1> HIDE DEF p, d, y
<1>5. ASSUME d >= 2 PROVE FALSE
  <2>1. 2 * p <= d * p
    BY <1>2, <1>5
  <2>2. d * p \in Nat
    BY <1>2
  <2> QED  BY <1>2, <1>3, <1>4, <2>1, <2>2
<1> QED  BY <1>2, <1>5 DEF d

(* The sums fit.                                                             *)
LEMMA SumsFit ==
    ASSUME NEW u, MulWords(u), NEW up, Sums(up, u)
    PROVE  \A k \in 0 .. Mul!NChains : up[k] \in 0 .. Mul!Weight(k) - 1
<1> DEFINE N == Mul!NChains
           S == {k \in Nat : k <= N => up[k] \in 0 .. Mul!Weight(k) - 1}
<1>1. 0 \in S
  <2>1. up[0] = 0 /\ Mul!Weight(0) = 1
    BY ChainFacts DEF Sums, Gathers
  <2> QED  BY <2>1
<1>2. ASSUME NEW k \in Nat, k \in S PROVE k + 1 \in S
  <2> SUFFICES ASSUME k + 1 <= N PROVE up[k + 1] \in 0 .. Mul!Weight(k + 1) - 1
    OBVIOUS
  <2> DEFINE p == Mul!Weight(k)  l == Mul!SumBits(u, k)  b == Base
  <2>1. /\ N \in Nat /\ k \in Mul!Chains
        /\ p \in Nat \ {0} /\ b \in Nat /\ b >= 2 /\ Mul!Weight(k + 1) = p * b
    BY ChainFacts DEF Mul!Chains
  <2>2. up[k + 1] = up[k] + l * p
    BY <2>1 DEF Sums, Gathers
  <2>3. up[k] \in 0 .. p - 1
    BY <1>2, <2>1
  <2>4. l \in 0 .. b - 1
    BY ChainDigits
  <2> HIDE DEF p, l, b
  <2>5. l * p <= (b - 1) * p /\ (b - 1) * p = p * b - p
    BY <2>1, <2>4
  <2>6. l * p \in Nat /\ p * b \in Nat
    BY <2>1, <2>4
  <2>7. up[k] + l * p \in 0 .. p * b - 1
    BY <2>1, <2>3, <2>5, <2>6
  <2> QED  BY <2>1, <2>2, <2>7
<1> HIDE DEF S
<1>3. Nat \subseteq S
  BY <1>1, <1>2, Induct
<1> QED  BY <1>3, ChainFacts DEF S

(* The carries fit, but for the last.                                        *)
LEMMA CarriesFit ==
    ASSUME NEW u, MulWords(u), NEW up, Carries(up, u)
    PROVE  \A k \in 0 .. Mul!NChains : up[k] \in 0 .. 2 * Mul!Weight(k) - 1
<1> DEFINE N == Mul!NChains
           S == {k \in Nat : k <= N => up[k] \in 0 .. 2 * Mul!Weight(k) - 1}
<1>1. 0 \in S
  <2>1. up[0] = 0 /\ Mul!Weight(0) = 1
    BY ChainFacts DEF Carries, Gathers
  <2> QED  BY <2>1
<1>2. ASSUME NEW k \in Nat, k \in S PROVE k + 1 \in S
  <2> SUFFICES ASSUME k + 1 <= N PROVE up[k + 1] \in 0 .. 2 * Mul!Weight(k + 1) - 1
    OBVIOUS
  <2> DEFINE p == Mul!Weight(k)  q == Mul!Weight(k + 1)  c == Mul!Carry(u, k)  b == Base
  <2>1. /\ N \in Nat /\ k \in Mul!Chains
        /\ p \in Nat \ {0} /\ b \in Nat /\ b >= 2 /\ q = p * b
    BY ChainFacts DEF Mul!Chains
  <2>2. up[k + 1] = up[k] + c * q
    BY <2>1 DEF Carries, Gathers
  <2>3. up[k] \in 0 .. 2 * p - 1
    BY <1>2, <2>1
  <2>4. c \in 0 .. 1
    BY ChainDigits
  <2> HIDE DEF p, q, c, b
  <2>5. 2 * p <= q /\ q \in Nat
    BY <2>1
  <2>6. c * q = IF c = 0 THEN 0 ELSE q
    BY <2>4, <2>5
  <2>7. up[k] + c * q \in 0 .. 2 * q - 1
    BY <2>1, <2>3, <2>4, <2>5, <2>6
  <2> QED  BY <2>2, <2>7 DEF q
<1> HIDE DEF S
<1>3. Nat \subseteq S
  BY <1>1, <1>2, Induct
<1> SUFFICES ASSUME NEW k \in 0 .. N PROVE up[k] \in 0 .. 2 * Mul!Weight(k) - 1
  OBVIOUS
<1>4. k \in Nat /\ k <= N
  BY ChainFacts
<1> QED  BY <1>3, <1>4 DEF S

(* Each chain keeps the sum.                                                 *)
LEMMA KeepsSum ==
    ASSUME NEW u, MulWords(u), Sparse(u.rdx), NEW up, Sums(up, u), NEW co, Carries(co, u)
    PROVE  \A k \in 0 .. Mul!NChains :
              up[k] + co[k] = (u.rd % Mul!Weight(k)) + (u.rdx % Mul!Weight(k))
                                + (Added(u) % Mul!Weight(k))
<1> DEFINE N == Mul!NChains
           rest(k) == (u.rd % Mul!Weight(k)) + (u.rdx % Mul!Weight(k)) + (Added(u) % Mul!Weight(k))
           S == {k \in Nat : k <= N => up[k] + co[k] = rest(k)}
<1>0. u.rd \in Nat /\ u.rdx \in Nat /\ Added(u) \in Nat
  BY ChainFacts DEF MulWords, Added
<1>1. 0 \in S
  <2>1. up[0] = 0 /\ co[0] = 0 /\ Mul!Weight(0) = 1
    BY ChainFacts DEF Sums, Carries, Gathers
  <2>2. \A x \in Nat : x % 1 = 0
    OBVIOUS
  <2>3. rest(0) = 0
    BY <1>0, <2>1, <2>2
  <2> QED  BY <2>1, <2>3
<1>2. ASSUME NEW k \in Nat, k \in S PROVE k + 1 \in S
  <2> SUFFICES ASSUME k + 1 <= N PROVE up[k + 1] + co[k + 1] = rest(k + 1)
    OBVIOUS
  <2> DEFINE p == Mul!Weight(k)  q == Mul!Weight(k + 1)  b == Base
             l == Mul!SumBits(u, k)  c == Mul!Carry(u, k)
             x == Mul!Slice(u.rd, k)  y == Mul!Slice(u.rdx, k)  z == Mul!Slice(Added(u), k)
  <2>1. /\ N \in Nat /\ k \in Mul!Chains
        /\ p \in Nat \ {0} /\ b \in Nat /\ b >= 2 /\ q = p * b
    BY ChainFacts DEF Mul!Chains
  <2>2. up[k + 1] = up[k] + l * p /\ co[k + 1] = co[k] + c * q
    BY <2>1 DEF Sums, Carries, Gathers
  <2>3. l \in 0 .. b - 1 /\ c \in 0 .. 1 /\ l + c * b = x + y + z
    BY <1>0, <2>1, ChainDigits, SparseDigits
  <2>4. /\ (u.rd % q) = (u.rd % p) + x * p /\ (u.rdx % q) = (u.rdx % p) + y * p
        /\ (Added(u) % q) = (Added(u) % p) + z * p
        /\ x \in Nat /\ y \in Nat /\ z \in Nat
    <3>1. ASSUME NEW v, v \in Nat
          PROVE  (v % q) = (v % p) + Mul!Slice(v, k) * p /\ Mul!Slice(v, k) \in Nat
      <4>1. /\ Mul!Slice(v, k) \in 0 .. Base - 1
            /\ (v % Mul!Weight(k + 1)) = (v % Mul!Weight(k)) + Mul!Slice(v, k) * Mul!Weight(k)
        BY <3>1, SliceFact
      <4>2. Mul!Slice(v, k) \in Nat
        BY <4>1
      <4> QED  BY <4>1, <4>2
    <3> HIDE DEF p, q
    <3> QED  BY <1>0, <3>1
  <2>5. up[k] + co[k] = rest(k)
    BY <1>2, <2>1
  <2>6. up[k] \in Nat /\ co[k] \in Nat
    BY <2>1, SumsFit, CarriesFit
  <2>7. rest(k) = (u.rd % p) + (u.rdx % p) + (Added(u) % p)
    OBVIOUS
  <2>8. (u.rd % p) \in Nat /\ (u.rdx % p) \in Nat /\ (Added(u) % p) \in Nat
    BY <1>0, <2>1
  <2>9. rest(k + 1) = (u.rd % q) + (u.rdx % q) + (Added(u) % q)
    OBVIOUS
  <2> HIDE DEF p, q, b, l, c, x, y, z, rest
  <2>10. l * p + c * q = x * p + y * p + z * p
    <3>1. c * q = (c * b) * p
      BY <2>1, <2>3
    <3>2. l * p + (c * b) * p = (l + c * b) * p
      BY <2>1, <2>3
    <3>3. (x + y + z) * p = x * p + y * p + z * p
      BY <2>1, <2>4
    <3> QED  BY <2>3, <3>1, <3>2, <3>3
  <2>11. /\ l * p \in Nat /\ c * q \in Nat
         /\ x * p \in Nat /\ y * p \in Nat /\ z * p \in Nat
    BY <2>1, <2>3, <2>4
  <2> DEFINE lp == l * p  cq == c * q  xp == x * p  yp == y * p  zp == z * p
             r1 == (u.rd % p)  r2 == (u.rdx % p)  r3 == (Added(u) % p)
  <2>12. /\ lp + cq = xp + yp + zp /\ lp \in Nat /\ cq \in Nat
         /\ xp \in Nat /\ yp \in Nat /\ zp \in Nat
    BY <2>10, <2>11
  <2>13. r1 \in Nat /\ r2 \in Nat /\ r3 \in Nat /\ up[k] + co[k] = r1 + r2 + r3
    BY <2>5, <2>7, <2>8
  <2>14. rest(k + 1) = (r1 + xp) + (r2 + yp) + (r3 + zp)
    BY <2>4, <2>9
  <2>15. up[k + 1] = up[k] + lp /\ co[k + 1] = co[k] + cq
    BY <2>2
  <2> HIDE DEF lp, cq, xp, yp, zp, r1, r2, r3
  <2>16. (up[k] + lp) + (co[k] + cq) = (r1 + xp) + (r2 + yp) + (r3 + zp)
    BY <2>6, <2>12, <2>13
  <2> QED  BY <2>14, <2>15, <2>16
<1> HIDE DEF S
<1>3. Nat \subseteq S
  BY <1>1, <1>2, Induct
<1> QED  BY <1>3, ChainFacts DEF S

(* The weight of a chain divides that of those above it.                     *)
LEMMA WeightMultiple ==
    \A j, k \in Nat : j <= k => Multiple(Mul!Weight(k), Mul!Weight(j))
<1> SUFFICES ASSUME NEW j \in Nat, NEW k \in Nat, j <= k
             PROVE  Multiple(Mul!Weight(k), Mul!Weight(j))
  OBVIOUS
<1>1. CARRY_CHAIN \in Nat
  BY ChainFacts
<1>2. CARRY_CHAIN * j \in Nat /\ CARRY_CHAIN * k \in Nat /\ CARRY_CHAIN * j <= CARRY_CHAIN * k
  <2> DEFINE C == CARRY_CHAIN
  <2>1. C \in Nat
    BY <1>1
  <2> HIDE DEF C
  <2>2. PICK d \in Nat : k = j + d
    <3>1. k - j \in Nat /\ k = j + (k - j)
      OBVIOUS
    <3> QED  BY <3>1
  <2>3. C * (j + d) = C * j + C * d /\ C * d \in Nat /\ C * j \in Nat
    BY <2>1
  <2>4. C * j \in Nat /\ C * k \in Nat /\ C * j <= C * k
    BY <2>1, <2>2, <2>3
  <2> QED  BY <2>4 DEF C
<1> QED  BY <1>2, PowerMultiple DEF Mul!Weight

(* What the loop has put together up to a chain stays its lower part.        *)
LEMMA CarriesStay ==
    ASSUME NEW u, MulWords(u), NEW up, Carries(up, u), NEW j \in 0 .. Mul!NChains
    PROVE  \A k \in j .. Mul!NChains : up[k] % Mul!Weight(j + 1) = up[j]
<1> DEFINE N == Mul!NChains  m == Mul!Weight(j + 1)
           S == {i \in Nat : j + i <= N => up[j + i] % m = up[j]}
<1>a. /\ N \in Nat /\ j \in Nat /\ m \in Nat \ {0} /\ m = Mul!Weight(j) * Base
      /\ Base \in Nat /\ Base >= 2 /\ Mul!Weight(j) \in Nat \ {0}
  BY ChainFacts
<1>1. 0 \in S
  <2>1. up[j] \in 0 .. 2 * Mul!Weight(j) - 1
    BY CarriesFit
  <2>2. up[j] \in 0 .. m - 1
    <3> DEFINE p == Mul!Weight(j)
    <3>1. p * 2 <= m
      <4> HIDE DEF p, m
      <4> QED  BY <1>a DEF p
    <3> QED  BY <1>a, <2>1, <3>1
  <2> HIDE DEF m
  <2>3. up[j] = 0 * m + up[j]
    BY <1>a, <2>2
  <2>4. up[j] % m = up[j]
    BY <1>a, <2>2, <2>3, DivUnique
  <2>5. j + 0 = j
    BY <1>a
  <2> QED  BY <2>4, <2>5
<1>2. ASSUME NEW i \in Nat, i \in S PROVE i + 1 \in S
  <2> SUFFICES ASSUME j + (i + 1) <= N PROVE up[j + (i + 1)] % m = up[j]
    OBVIOUS
  <2> DEFINE k == j + i  c == Mul!Carry(u, k)
  <2>1. /\ k \in Mul!Chains /\ k \in Nat /\ j + (i + 1) = k + 1 /\ k <= N
        /\ k \in 0 .. N /\ j + 1 \in Nat /\ k + 1 \in Nat /\ j + 1 <= k + 1
    BY <1>a DEF Mul!Chains
  <2>2. up[k] % m = up[j]
    BY <1>2, <2>1
  <2>3. up[k + 1] = up[k] + c * Mul!Weight(k + 1)
    BY <2>1 DEF Carries, Gathers
  <2>4. c \in Nat /\ up[k] \in Nat
    <3>1. c \in 0 .. 1
      BY <2>1, ChainDigits
    <3>2. up[k] \in 0 .. 2 * Mul!Weight(k) - 1
      BY <2>1, CarriesFit
    <3> QED  BY <3>1, <3>2
  <2>5. PICK q \in Nat : Mul!Weight(k + 1) = m * q
    BY <2>1, WeightMultiple DEF Multiple
  <2> HIDE DEF k, c, m
  <2> DEFINE d == c * q
  <2>6. up[k + 1] = up[k] + d * m /\ d \in Nat
    BY <1>a, <2>3, <2>4, <2>5
  <2> HIDE DEF d
  <2>7. up[k + 1] % m = up[k] % m
    BY <1>a, <2>4, <2>6, ModPlusMultiple
  <2> QED  BY <2>1, <2>2, <2>7
<1> HIDE DEF S
<1>3. Nat \subseteq S
  BY <1>1, <1>2, Induct
<1> SUFFICES ASSUME NEW k \in j .. N PROVE up[k] % m = up[j]
  OBVIOUS
<1>4. k - j \in Nat /\ j + (k - j) = k /\ k <= N
  BY <1>a
<1>5. k - j \in S
  BY <1>3, <1>4
<1> QED  BY <1>4, <1>5 DEF S

(* When the carries and what is added leave e bits free, the next carries    *)
(* leave one more.                                                           *)
LEMMA CarriesShift ==
    ASSUME NEW u, MulWords(u), NEW up, Carries(up, u), NEW e \in Nat,
           Multiple(u.rdx, 2^e), Multiple(Added(u), 2^e)
    PROVE  \A k \in 0 .. Mul!NChains : Multiple(up[k], 2^(e + 1))
<1> DEFINE N == Mul!NChains  m == 2^(e + 1)
           S == {k \in Nat : k <= N => Multiple(up[k], m)}
<1>a. N \in Nat /\ m \in Nat \ {0}
  BY ChainFacts, TwoPositive
<1>b. \A x, y \in Nat : Multiple(x, m) /\ Multiple(y, m) => Multiple(x + y, m)
  <2> SUFFICES ASSUME NEW x \in Nat, NEW y \in Nat, Multiple(x, m), Multiple(y, m)
               PROVE  Multiple(x + y, m)
    OBVIOUS
  <2>1. PICK q \in Nat : x = m * q
    BY DEF Multiple
  <2>2. PICK r \in Nat : y = m * r
    BY DEF Multiple
  <2> HIDE DEF m
  <2>3. x + y = m * (q + r) /\ q + r \in Nat
    BY <1>a, <2>1, <2>2
  <2> QED  BY <2>3 DEF Multiple
<1>1. 0 \in S
  <2>1. up[0] = 0
    BY DEF Carries, Gathers
  <2>2. Multiple(0, m)
    <3> HIDE DEF m
    <3>1. 0 = m * 0
      BY <1>a
    <3> QED  BY <3>1 DEF Multiple
  <2> QED  BY <2>1, <2>2
<1>2. ASSUME NEW k \in Nat, k \in S PROVE k + 1 \in S
  <2> SUFFICES ASSUME k + 1 <= N PROVE Multiple(up[k + 1], m)
    OBVIOUS
  <2> DEFINE c == Mul!Carry(u, k)  q == Mul!Weight(k + 1)  C == CARRY_CHAIN
  <2>1. k \in Mul!Chains /\ k <= N /\ q \in Nat /\ C \in Nat /\ k + 1 \in Nat
    BY <1>a, ChainFacts DEF Mul!Chains
  <2>2. up[k + 1] = up[k] + c * q /\ Multiple(up[k], m)
    BY <1>2, <2>1 DEF Carries, Gathers
  <2>3. c \in 0 .. 1
    BY ChainDigits
  <2>4. C * (k + 1) \in Nat /\ q = 2^(C * (k + 1))
    BY <2>1 DEF Mul!Weight
  <2>5. CASE e + 1 <= C * (k + 1)
    <3>1. Multiple(q, m)
      BY <2>4, <2>5, PowerMultiple
    <3>2. up[k] \in Nat
      BY <2>2 DEF Multiple
    <3>3. c * q = 0 \/ c * q = q
      <4> HIDE DEF c, q
      <4> QED  BY <2>1, <2>3
    <3>4. c * q = 0 => up[k + 1] = up[k]
      <4> HIDE DEF c, q
      <4> QED  BY <2>2, <3>2
    <3> QED  BY <1>b, <2>1, <2>2, <3>1, <3>2, <3>3, <3>4
  <2>6. CASE C * (k + 1) <= e
    <3>1. Multiple(2^e, q)
      BY <2>4, <2>6, PowerMultiple
    <3>2. ASSUME NEW x, Multiple(x, 2^e) PROVE Mul!Slice(x, k) = 0
      <4> DEFINE d == Mul!Slice(x, k)  p == Mul!Weight(k)  y == x % p
      <4>1. PICK r \in Nat : 2^e = q * r
        BY <3>1 DEF Multiple
      <4>2. PICK t \in Nat : x = 2^e * t
        BY <3>2 DEF Multiple
      <4>3. q \in Nat \ {0} /\ p \in Nat \ {0} /\ x \in Nat
        BY <3>2, ChainFacts DEF Multiple
      <4>4. x % q = 0
        <5> DEFINE n == r * t
        <5> HIDE DEF q
        <5>1. x = n * q + 0 /\ n \in Nat
          <6>1. x = (q * r) * t /\ (q * r) * t = (r * t) * q
            BY <4>1, <4>2, <4>3
          <6> QED  BY <4>3, <6>1
        <5> HIDE DEF n
        <5> QED  BY <4>3, <5>1, DivUnique
      <4>5. (x % q) = y + d * p /\ d \in Nat /\ y \in Nat
        <5>1. d \in 0 .. Base - 1 /\ (x % q) = y + d * p
          BY <4>3, SliceFact
        <5> QED  BY <4>3, <5>1
      <4> HIDE DEF d, p, y, q
      <4>6. d * p \in Nat
        BY <4>3, <4>5
      <4>7. d * p = 0
        BY <4>4, <4>5, <4>6
      <4>8. d = 0
        BY <4>3, <4>5, <4>7
      <4> QED  BY <4>8 DEF d
    <3>3. c = 0
      BY <3>2, ChainDigits
    <3>4. up[k] \in Nat
      BY <2>2 DEF Multiple
    <3>5. c * q = 0
      <4> HIDE DEF c, q
      <4> QED  BY <2>1, <3>3
    <3> HIDE DEF c, q
    <3> QED  BY <2>2, <3>4, <3>5
  <2>7. e + 1 <= C * (k + 1) \/ C * (k + 1) <= e
    BY <2>4
  <2> QED  BY <2>5, <2>6, <2>7
<1> HIDE DEF S
<1>3. Nat \subseteq S
  BY <1>1, <1>2, Induct
<1> SUFFICES ASSUME NEW k \in 0 .. N PROVE Multiple(up[k], m)
  OBVIOUS
<1>4. k \in Nat /\ k <= N
  BY <1>a
<1> QED  BY <1>3, <1>4 DEF S
-----------------------------------------------------------------------------
(* An edge keeps the sum, to the width of the registers, and what the        *)
(* carries are.                                                              *)
LEMMA AccumulatorStep ==
    ASSUME NEW u, MulWords(u), Sparse(u.rdx)
    PROVE  /\ Mul!next_rd(u) \in 0 .. Mul!Double - 1
           /\ Mul!next_rdx(u) \in 0 .. Mul!Double - 1
           /\ Sparse(Mul!next_rdx(u))
           /\ \E q \in Nat : Mul!next_rd(u) + Mul!next_rdx(u) + q * Mul!Double
                               = u.rd + u.rdx + Added(u)
           /\ \A e \in Nat : /\ e + 1 <= 2 * W
                             /\ Multiple(u.rdx, 2^e) /\ Multiple(Added(u), 2^e)
                             => Multiple(Mul!next_rdx(u), 2^(e + 1))
<1> DEFINE N == Mul!NChains  D == Mul!Double
<1>1. /\ N \in Nat /\ N > 0 /\ D \in Nat \ {0} /\ Mul!Weight(N) = D /\ N \in 0 .. N
      /\ u.rd \in 0 .. D - 1 /\ u.rdx \in 0 .. D - 1 /\ Added(u) \in 0 .. D - 1
  BY ChainFacts DEF MulWords, Added
<1>2. PICK up : Sums(up, u) /\ Mul!next_rd(u) = up[N]
  BY GatherIs DEF Sums, Mul!next_rd
<1>3. PICK co : Carries(co, u) /\ Mul!next_rdx(u) = co[N] % D
  BY GatherIs DEF Carries, Mul!next_rdx
<1>4. up[N] \in 0 .. D - 1 /\ co[N] \in 0 .. 2 * D - 1
  BY <1>1, <1>2, <1>3, SumsFit, CarriesFit
<1>5. up[N] + co[N] = (u.rd % D) + (u.rdx % D) + (Added(u) % D)
  BY <1>1, <1>2, <1>3, KeepsSum
<1> DEFINE r == co[N] % D  d == co[N] \div D
<1>6. r \in 0 .. D - 1 /\ d \in Nat /\ co[N] = d * D + r
  <2> DEFINE z == co[N]
  <2>1. z \in Nat /\ D \in Nat /\ D > 0
    BY <1>1, <1>4
  <2> HIDE DEF D, z
  <2>2. (z % D) \in 0 .. D - 1 /\ (z \div D) \in Nat /\ z = (z \div D) * D + (z % D)
    BY <2>1
  <2> QED  BY <2>2 DEF z
<1>7. \A x \in 0 .. D - 1 : x % D = x
  <2> HIDE DEF D
  <2>1. ASSUME NEW x \in 0 .. D - 1 PROVE x % D = x
    <3>1. x = 0 * D + x
      BY <1>1
    <3> QED  BY <1>1, <3>1, DivUnique
  <2> QED  BY <2>1
<1>8. up[N] + r + d * D = u.rd + u.rdx + Added(u)
  <2> DEFINE e == d * D
  <2>1. e \in Nat /\ co[N] = e + r
    BY <1>1, <1>6
  <2>2. up[N] + co[N] = u.rd + u.rdx + Added(u)
    BY <1>1, <1>5, <1>7
  <2> HIDE DEF e, r, d, D
  <2>3. up[N] + r + e = u.rd + u.rdx + Added(u)
    BY <1>1, <1>4, <1>6, <2>1, <2>2
  <2> QED  BY <2>3 DEF e
<1>9. Sparse(r)
  <2> SUFFICES ASSUME NEW k \in Mul!Chains PROVE (r % Mul!Weight(k + 1)) < 2 * Mul!Weight(k)
    BY DEF Sparse
  <2>1. k \in 0 .. N /\ k \in Nat /\ k + 1 \in Nat /\ k + 1 <= N /\ N \in k .. N
    BY <1>1 DEF Mul!Chains
  <2> DEFINE m == Mul!Weight(k + 1)
  <2>2. m \in Nat \ {0} /\ Multiple(D, m)
    BY <1>1, <2>1, ChainFacts, WeightMultiple
  <2>3. r % m = co[N] % m
    <3> HIDE DEF m, D
    <3>1. co[N] \in Int /\ D \in Nat \ {0}
      BY <1>1, <1>4
    <3> QED  BY <2>2, <3>1, ModOfMod
  <2>4. co[N] % m = co[k]
    BY <1>3, <2>1, CarriesStay
  <2>5. co[k] \in 0 .. 2 * Mul!Weight(k) - 1 /\ Mul!Weight(k) \in Nat
    BY <1>3, <2>1, CarriesFit, ChainFacts
  <2> QED  BY <2>3, <2>4, <2>5
<1>10. ASSUME NEW e \in Nat, e + 1 <= 2 * W, Multiple(u.rdx, 2^e), Multiple(Added(u), 2^e)
       PROVE  Multiple(r, 2^(e + 1))
  <2>1. Multiple(co[N], 2^(e + 1))
    BY <1>1, <1>3, <1>10, CarriesShift
  <2>2. e + 1 \in Nat /\ 2 * W \in Nat /\ 2^(e + 1) \in Nat \ {0}
    BY WidthFacts, TwoPositive
  <2>3. Multiple(D, 2^(e + 1))
    BY <1>10, <2>2, PowerMultiple DEF Mul!Double
  <2> HIDE DEF D
  <2> QED  BY <1>1, <2>1, <2>2, <2>3, MultipleMod
<1> HIDE DEF r, d
<1> QED  BY <1>2, <1>3, <1>4, <1>6, <1>8, <1>9, <1>10 DEF r

(* What an edge does to the numbers in the multiplier.                       *)
LEMMA MulRegisters ==
    ASSUME MulType, Units
    PROVE  /\ ~resetn => /\ mul'.rs1 = mul.rs1 /\ mul'.rs2 = mul.rs2
                         /\ mul'.rd = mul.rd /\ mul'.rdx = mul.rdx
                         /\ mul'.counter = mul.counter
           /\ resetn /\ mul.waiting =>
                  /\ mul'.rs1 = IF Mul!rs1_signed(mul) THEN Mul!SignExtended(port.rs1)
                                ELSE port.rs1
                  /\ mul'.rs2 = IF Mul!rs2_signed(mul) THEN Mul!SignExtended(port.rs2)
                                ELSE port.rs2
                  /\ mul'.rd = 0 /\ mul'.rdx = 0
                  /\ mul'.counter = Mul!FirstCount(mul)
           /\ resetn /\ ~mul.waiting =>
                  /\ mul'.rs1 = mul.rs1 \div 2
                  /\ mul'.rs2 = (2 * mul.rs2) % Mul!Double
                  /\ mul'.rd = Mul!next_rd(mul) /\ mul'.rdx = Mul!next_rdx(mul)
                  /\ mul'.counter = (mul.counter - 1) % Mul!CounterRange
           /\ mul'.instr = IF resetn /\ Asked(MulOp) THEN port.op ELSE None
           /\ mul'.result = IF ~(mul.finish /\ resetn) THEN 0
                            ELSE IF Mul!instr_any_mulh(mul) THEN mul.rd \div 2^W
                            ELSE mul.rd % 2^W
<1> DEFINE w == Mul!Work(mul, port, resetn)
           answer == IF ~(mul.finish /\ resetn) THEN 0
                     ELSE IF Mul!instr_any_mulh(mul) THEN mul.rd \div 2^W
                     ELSE mul.rd % 2^W
<1>1. MulRecord(w)
  BY DEF MulType, MulRecord, Mul!Work, Mul!Stopped, Mul!Load, Mul!Step
<1>2. ~resetn => /\ w.rs1 = mul.rs1 /\ w.rs2 = mul.rs2
                 /\ w.rd = mul.rd /\ w.rdx = mul.rdx /\ w.counter = mul.counter
  BY DEF MulType, MulRecord, Mul!Work, Mul!Stopped
<1>3. resetn /\ mul.waiting =>
         /\ w.rs1 = IF Mul!rs1_signed(mul) THEN Mul!SignExtended(port.rs1) ELSE port.rs1
         /\ w.rs2 = IF Mul!rs2_signed(mul) THEN Mul!SignExtended(port.rs2) ELSE port.rs2
         /\ w.rd = 0 /\ w.rdx = 0 /\ w.counter = Mul!FirstCount(mul)
  BY DEF MulType, MulRecord, Mul!Work, Mul!Load
<1>4. resetn /\ ~mul.waiting =>
         /\ w.rs1 = mul.rs1 \div 2 /\ w.rs2 = (2 * mul.rs2) % Mul!Double
         /\ w.rd = Mul!next_rd(mul) /\ w.rdx = Mul!next_rdx(mul)
         /\ w.counter = (mul.counter - 1) % Mul!CounterRange
  BY DEF MulType, MulRecord, Mul!Work, Mul!Step
<1>5. mul' = [w EXCEPT !.instr = IF resetn /\ Asked(MulOp) THEN port.op ELSE None,
                       !.wait = mul.instr # None, !.wait_q = mul.wait,
                       !.ready = mul.finish /\ resetn, !.result = answer]
  BY DEF Units, Mul!MulNext, Asked, MulOp, None, Mul!MulOp, Mul!None
<1> HIDE DEF w, answer
<1>6. /\ mul'.rs1 = w.rs1 /\ mul'.rs2 = w.rs2 /\ mul'.rd = w.rd /\ mul'.rdx = w.rdx
      /\ mul'.counter = w.counter /\ mul'.result = answer
      /\ mul'.instr = IF resetn /\ Asked(MulOp) THEN port.op ELSE None
  BY <1>1, <1>5 DEF MulRecord
<1> QED  BY <1>2, <1>3, <1>4, <1>6 DEF answer

(* The rest of the divider's registers.                                      *)
LEMMA DivHeld ==
    ASSUME DivType, Units
    PROVE  /\ ~resetn \/ Div!Answers(div) =>
                  /\ div'.dividend = div.dividend /\ div'.divisor = div.divisor
                  /\ div'.quotient = div.quotient
                  /\ div'.quotient_msk = div.quotient_msk
                  /\ div'.outsign = div.outsign
           /\ ~(resetn /\ Div!Answers(div)) => div'.result = 0
<1> DEFINE w == Div!Work(div, port, resetn)
           value == IF div.instr \in {"div", "divu"} THEN div.quotient ELSE div.dividend
<1>1. DivRecord(w)
  BY DEF DivType, DivRecord, Div!Work, Div!Load, Div!Step
<1>2. ~resetn \/ Div!Answers(div) =>
          /\ w.dividend = div.dividend /\ w.divisor = div.divisor
          /\ w.quotient = div.quotient /\ w.quotient_msk = div.quotient_msk
          /\ w.outsign = div.outsign
  BY DEF DivType, DivRecord, Div!Work, Div!Answers
<1> DEFINE answer == IF ~(resetn /\ Div!Answers(div)) THEN 0
                     ELSE IF div.outsign THEN Div!Neg(value) ELSE value
<1>3. div' = [w EXCEPT !.instr = IF resetn /\ Div!Noticed(div, port) THEN port.op ELSE None,
                       !.wait = resetn /\ div.instr # None, !.wait_q = resetn /\ div.wait,
                       !.ready = resetn /\ Div!Answers(div),
                       !.result = answer]
  BY DEF Units, Div!DivNext, None, Div!None
<1> HIDE DEF w, answer
<1>4. /\ div'.dividend = w.dividend /\ div'.divisor = w.divisor
      /\ div'.quotient = w.quotient /\ div'.quotient_msk = w.quotient_msk
      /\ div'.outsign = w.outsign /\ div'.result = answer
  BY <1>1, <1>3 DEF DivRecord
<1> QED  BY <1>2, <1>4 DEF answer

-----------------------------------------------------------------------------
(* The widths of the registers.                                              *)

MulNumbers(u) ==
    /\ MulWords(u) /\ Sparse(u.rdx)
    /\ u.counter \in 0 .. Mul!CounterRange - 1 /\ u.result \in Word

DivWords(u) ==
    /\ u.dividend \in Word /\ u.divisor \in 0 .. 2^(2 * W - 1) - 1 /\ u.quotient \in Word
    /\ u.quotient_msk \in {2^i : i \in 0 .. W - 1} \cup {0}
    /\ u.outsign \in BOOLEAN /\ u.result \in Word

WidthInv ==
    /\ MulNumbers(mul) /\ mul.instr \in MulOp \cup {None}
    /\ DivWords(div) /\ div.instr \in DivOp \cup {None}

(* Two words are as wide as a register of the multiplier.                    *)
LEMMA WordFacts ==
    /\ 2^W \in Nat /\ 2^W >= 4 /\ Word = 0 .. 2^W - 1
    /\ Mul!Double = 2^W * 2^W /\ Mul!Double \in Nat \ {0}
    /\ Word \subseteq 0 .. Mul!Double - 1
    /\ 2^(2 * W - 1) = 2^W * 2^(W - 1)
    /\ Multiple(Mul!Double, 2^W)
<1> DEFINE P == 2^W  D == Mul!Double  H == 2^(W - 1)
<1>1. W \in Nat /\ W >= 2 /\ P \in Nat /\ H \in Nat /\ P = 2 * H
  BY WidthFacts
<1>2. H >= 2
  <2>1. W - 2 \in Nat /\ (W - 2) + 1 = W - 1
    BY <1>1
  <2>2. 2^((W - 2) + 1) = 2 * 2^(W - 2) /\ 2^(W - 2) \in Nat \ {0}
    BY <2>1, TwoExp, TwoPositive
  <2> QED  BY <2>1, <2>2
<1>3. D = P * P /\ 2^(2 * W - 1) = P * H
  <2>1. W + W = 2 * W /\ W + (W - 1) = 2 * W - 1 /\ W - 1 \in Nat
    BY <1>1
  <2>2. 2^(W + W) = P * P /\ 2^(W + (W - 1)) = P * H
    BY <1>1, <2>1, TwoSum
  <2> QED  BY <2>1, <2>2 DEF Mul!Double
<1>4. Word = 0 .. P - 1
  BY DEF Word
<1> HIDE DEF P, D, H
<1>5. P >= 4
  BY <1>1, <1>2
<1>6. P * P \in Nat /\ P <= P * P
  BY <1>1, <1>5
<1>7. D \in Nat \ {0} /\ 0 .. P - 1 \subseteq 0 .. D - 1
  BY <1>1, <1>3, <1>5, <1>6
<1>8. Multiple(D, P)
  BY <1>1, <1>3, <1>7 DEF Multiple
<1> QED  BY <1>1, <1>3, <1>4, <1>5, <1>7, <1>8 DEF P, D, H

(* The upper and the lower word.                                             *)
LEMMA HalvesFit ==
    ASSUME NEW x \in 0 .. Mul!Double - 1
    PROVE  x \div 2^W \in Word /\ x % 2^W \in Word
<1> DEFINE P == 2^W
<1>1. P \in Nat /\ P >= 4 /\ x \in 0 .. P * P - 1 /\ Word = 0 .. P - 1
  BY WordFacts
<1> HIDE DEF P
<1> DEFINE d == x \div P  r == x % P
<1>2. d \in Nat /\ r \in 0 .. P - 1 /\ x = d * P + r
  BY <1>1
<1> HIDE DEF d, r
<1>3. ASSUME d >= P PROVE FALSE
  <2>1. P * P <= d * P
    BY <1>1, <1>2, <1>3
  <2>2. d * P \in Nat /\ P * P \in Nat
    BY <1>1, <1>2
  <2> QED  BY <1>1, <1>2, <2>1, <2>2
<1> QED  BY <1>1, <1>2, <1>3 DEF d, r, P

(* No carries are none in each chain.                                        *)
LEMMA ZeroSparse == Sparse(0)
<1> SUFFICES ASSUME NEW k \in Mul!Chains
             PROVE  (0 % Mul!Weight(k + 1)) < 2 * Mul!Weight(k)
  BY DEF Sparse
<1> DEFINE m == Mul!Weight(k + 1)  n == Mul!Weight(k)
<1>1. m \in Nat \ {0} /\ n \in Nat \ {0}
  BY ChainFacts DEF Mul!Chains
<1> HIDE DEF m, n
<1>2. 0 = 0 * m + 0 /\ 0 \in 0 .. m - 1
  BY <1>1
<1>3. 0 % m = 0
  BY <1>1, <1>2, DivUnique
<1> QED  BY <1>1, <1>3 DEF m, n

(* The multiplier keeps to its widths.                                       *)
LEMMA MulNumbersStep ==
    ASSUME PortInv, MulType, MulNumbers(mul), Units
    PROVE  MulNumbers(mul')
<1> DEFINE D == Mul!Double  CR == Mul!CounterRange
<1>1. /\ W \in Nat /\ W >= 2 /\ CR = 4 * W /\ D \in Nat \ {0}
      /\ Word \subseteq 0 .. D - 1 /\ 0 \in Word /\ 0 \in 0 .. D - 1
      /\ port.rs1 \in Word /\ port.rs2 \in Word
  BY WidthFacts, WordFacts, PortFacts
<1>2. mul'.result \in Word
  <2>1. mul.rd \in 0 .. D - 1
    BY DEF MulNumbers, MulWords
  <2> QED  BY <1>1, <2>1, HalvesFit, MulRegisters
<1>3. CASE ~resetn
  <2> QED  BY <1>2, <1>3, MulRegisters DEF MulNumbers, MulWords
<1>4. CASE resetn /\ mul.waiting
  <2>1. \A x \in Word : Mul!SignExtended(x) \in 0 .. D - 1
    <3> SUFFICES ASSUME NEW x \in Word PROVE Mul!SignExtended(x) \in 0 .. D - 1
      OBVIOUS
    <3> DEFINE s == Mul!Signed(x)
    <3>1. s \in Int
      BY WordFacts DEF Mul!Signed
    <3>2. s % D \in 0 .. D - 1
      <4> HIDE DEF s, D
      <4> QED  BY <1>1, <3>1
    <3> QED  BY <3>2 DEF Mul!SignExtended
  <2>2. mul'.rs1 \in 0 .. D - 1 /\ mul'.rs2 \in 0 .. D - 1
    BY <1>1, <1>4, <2>1, MulRegisters
  <2>3. mul'.rd = 0 /\ mul'.rdx = 0
    BY <1>4, MulRegisters
  <2>4. mul'.counter \in 0 .. CR - 1
    <3>1. 2 * W - 2 \in 0 .. 4 * W - 1 /\ W - 2 \in 0 .. 4 * W - 1
      BY <1>1
    <3>2. Mul!FirstCount(mul) \in 0 .. 4 * W - 1
      BY <3>1 DEF Mul!FirstCount
    <3> QED  BY <1>1, <1>4, <3>2, MulRegisters
  <2> QED  BY <1>1, <1>2, <2>2, <2>3, <2>4, ZeroSparse DEF MulNumbers, MulWords
<1>5. CASE resetn /\ ~mul.waiting
  <2>1. /\ mul.rs1 \in 0 .. D - 1 /\ mul.rs2 \in 0 .. D - 1
        /\ mul.counter \in 0 .. CR - 1 /\ MulWords(mul) /\ Sparse(mul.rdx)
    BY DEF MulNumbers, MulWords
  <2>2. mul'.rd \in 0 .. D - 1 /\ mul'.rdx \in 0 .. D - 1 /\ Sparse(mul'.rdx)
    BY <1>5, <2>1, AccumulatorStep, MulRegisters
  <2>3. mul'.rs1 \in 0 .. D - 1 /\ mul'.rs2 \in 0 .. D - 1
    <3> HIDE DEF D
    <3>1. mul.rs1 \div 2 \in 0 .. D - 1
      BY <1>1, <2>1
    <3> DEFINE y == 2 * mul.rs2
    <3>2. y \in Int
      BY <2>1
    <3>3. y % D \in 0 .. D - 1
      <4> HIDE DEF y
      <4> QED  BY <1>1, <3>2
    <3> QED  BY <1>5, <3>1, <3>3, MulRegisters DEF D
  <2>4. mul'.counter \in 0 .. CR - 1
    <3>1. mul.counter - 1 \in Int /\ CR \in Nat \ {0}
      BY <1>1, <2>1
    <3> DEFINE c == mul.counter - 1
    <3> HIDE DEF CR, c
    <3>2. c % CR \in 0 .. CR - 1
      BY <3>1 DEF c
    <3> QED  BY <1>5, <3>2, MulRegisters DEF CR, c
  <2> QED  BY <1>2, <2>2, <2>3, <2>4 DEF MulNumbers, MulWords
<1> QED  BY <1>3, <1>4, <1>5

(* Setting a bit of a word makes a word.                                     *)
LEMMA WithBitFits ==
    ASSUME NEW q \in Word, NEW m \in {2^i : i \in 0 .. W - 1} \cup {0}
    PROVE  Div!WithBit(q, m) \in Word
<1>1. CASE m = 0  BY <1>1 DEF Div!WithBit
<1>2. CASE m # 0
  <2> DEFINE P == 2^W
  <2>1. P \in Nat /\ Word = 0 .. P - 1 /\ W \in Nat
    BY WordFacts, WidthFacts
  <2>2. PICK i \in 0 .. W - 1 : m = 2^i
    BY <1>2
  <2>3. i \in Nat /\ i + 1 \in Nat /\ W - (i + 1) \in Nat /\ (i + 1) + (W - (i + 1)) = W
    BY <2>1, <2>2
  <2>4. PICK h \in Nat : P = (2 * m) * h
    <3>1. 2^((i + 1) + (W - (i + 1))) = 2^(i + 1) * 2^(W - (i + 1)) /\ 2^(W - (i + 1)) \in Nat
      BY <2>3, TwoSum, TwoPositive
    <3>2. 2^(i + 1) = 2 * 2^i
      BY <2>3, TwoExp
    <3> QED  BY <2>2, <2>3, <3>1, <3>2
  <2>5. m \in Nat \ {0}
    BY <2>2, <2>3, TwoPositive
  <2> HIDE DEF P
  <2> DEFINE d == q \div m  r == q % m
  <2>6. q \in Nat /\ q < P
    BY <2>1
  <2>7. d \in Nat /\ r \in 0 .. m - 1 /\ q = d * m + r /\ d = q \div m
    BY <2>5, <2>6
  <2>8. CASE d % 2 = 1
    <3>1. Div!WithBit(q, m) = q
      BY <1>2, <2>8 DEF Div!WithBit
    <3> QED  BY <3>1
  <2>9. CASE d % 2 # 1
    <3>1. Div!WithBit(q, m) = q + m
      BY <1>2, <2>9 DEF Div!WithBit
    <3> HIDE DEF d, r
    <3>2. PICK t \in Nat : d = 2 * t
      <4>1. d = 2 * (d \div 2) /\ d \div 2 \in Nat
        BY <2>7, <2>9
      <4> QED  BY <4>1
    <3>3. ASSUME t >= h PROVE FALSE
      <4>1. (2 * m) * h <= (2 * m) * t
        BY <2>5, <3>3
      <4>2. (2 * m) * t = d * m
        BY <2>5, <3>2
      <4>3. d * m \in Nat /\ (2 * m) * h \in Nat
        BY <2>5, <2>7
      <4> QED  BY <2>4, <2>6, <2>7, <4>1, <4>2, <4>3
    <3>4. (2 * m) * (t + 1) <= (2 * m) * h
      <4>1. t + 1 <= h
        BY <3>3
      <4> QED  BY <2>5, <4>1
    <3>5. (2 * m) * (t + 1) = d * m + 2 * m
      BY <2>5, <3>2
    <3>6. d * m \in Nat
      BY <2>5, <2>7
    <3> DEFINE dm == d * m
    <3>7. dm \in Nat /\ q = dm + r /\ dm + 2 * m <= P
      BY <2>4, <2>7, <3>4, <3>5, <3>6
    <3> HIDE DEF dm
    <3>8. q + m < P
      BY <2>1, <2>5, <2>7, <3>7
    <3> QED  BY <2>1, <2>5, <2>6, <3>1, <3>8
  <2> QED  BY <2>8, <2>9
<1> QED  BY <1>1, <1>2

(* The next bit is one again, or none.                                       *)
LEMMA MaskHalves ==
    ASSUME NEW m \in {2^i : i \in 0 .. W - 1} \cup {0}
    PROVE  m \div 2 \in {2^i : i \in 0 .. W - 1} \cup {0}
<1>1. CASE m = 0
  <2>1. 0 \div 2 = 0
    OBVIOUS
  <2> QED  BY <1>1, <2>1
<1>2. CASE m # 0
  <2>1. PICK i \in 0 .. W - 1 : m = 2^i
    BY <1>2
  <2>2. W \in Nat /\ i \in Nat
    BY <2>1, WidthFacts
  <2>3. CASE i = 0
    <3>1. 2^0 = 1 /\ 1 \div 2 = 0
      OBVIOUS
    <3> QED  BY <2>1, <2>3, <3>1
  <2>4. CASE i # 0
    <3>1. i - 1 \in 0 .. W - 1 /\ i - 1 \in Nat /\ (i - 1) + 1 = i
      BY <2>2, <2>4
    <3>2. 2^((i - 1) + 1) = 2 * 2^(i - 1) /\ 2^(i - 1) \in Nat
      BY <3>1, TwoExp, TwoPositive
    <3> DEFINE n == 2^(i - 1)
    <3>3. m = 2 * n /\ n \in Nat
      BY <2>1, <3>1, <3>2
    <3> HIDE DEF n
    <3>4. m \div 2 = n
      BY <3>3
    <3> QED  BY <3>1, <3>4 DEF n
  <2> QED  BY <2>3, <2>4
<1> QED  BY <1>1, <1>2

(* The divider keeps to its widths.                                          *)
LEMMA DivWordsStep ==
    ASSUME PortInv, DivType, DivWords(div), Units
    PROVE  DivWords(div')
<1> DEFINE P == 2^W  H == 2^(W - 1)  E == 2^(2 * W - 1)
           Masks == {2^i : i \in 0 .. W - 1} \cup {0}
<1>1. /\ W \in Nat /\ W >= 2 /\ P \in Nat /\ P >= 4 /\ Word = 0 .. P - 1
      /\ H \in Nat /\ E = P * H
      /\ port.rs1 \in Word /\ port.rs2 \in Word /\ resetn \in BOOLEAN /\ 0 \in Word
  BY WidthFacts, WordFacts, PortFacts DEF PortInv
<1>2. /\ div.dividend \in Word /\ div.divisor \in 0 .. E - 1 /\ div.quotient \in Word
      /\ div.quotient_msk \in Masks /\ div.outsign \in BOOLEAN
  BY DEF DivWords
<1>3. div'.result \in Word
  <2>1. CASE resetn /\ Div!Answers(div)
    <3>1. \A x \in Word : Div!Neg(x) \in Word
      <4> SUFFICES ASSUME NEW x \in Word PROVE Div!Neg(x) \in Word
        OBVIOUS
      <4> HIDE DEF P
      <4>1. (-x) % P \in 0 .. P - 1
        BY <1>1
      <4> QED  BY <1>1, <4>1 DEF Div!Neg, P
    <3> DEFINE value == IF div.instr \in {"div", "divu"} THEN div.quotient ELSE div.dividend
    <3>2. value \in Word
      BY <1>2
    <3>3. div'.result = IF div.outsign THEN Div!Neg(value) ELSE value
      BY <2>1, DivNumbers
    <3> HIDE DEF value
    <3> QED  BY <3>1, <3>2, <3>3
  <2>2. CASE ~(resetn /\ Div!Answers(div))
    BY <1>1, <2>2, DivHeld
  <2> QED  BY <2>1, <2>2
<1>4. CASE ~resetn \/ Div!Answers(div)
  BY <1>2, <1>3, <1>4, DivHeld DEF DivWords
<1>5. CASE resetn /\ Div!start(div)
  <2>1. /\ div'.dividend = Div!Magnitude(IsSigned(div.instr), port.rs1)
        /\ div'.divisor = Div!Magnitude(IsSigned(div.instr), port.rs2) * H
        /\ div'.quotient = 0 /\ div'.quotient_msk = H
        /\ div'.outsign = Div!OutSign(div, port)
    BY <1>5, DivNumbers
  <2>2. div'.dividend \in Word /\ div'.outsign \in BOOLEAN
    BY <1>1, <2>1, MagnitudeIs DEF Div!OutSign
  <2>3. H \in Masks
    <3>1. W - 1 \in 0 .. W - 1
      BY <1>1
    <3> QED  BY <3>1
  <2>4. div'.divisor \in 0 .. E - 1
    <3> DEFINE x == Div!Magnitude(IsSigned(div.instr), port.rs2)
    <3>1. x \in 0 .. P - 1
      BY <1>1, MagnitudeIs
    <3>2. H > 0
      BY WidthFacts
    <3> HIDE DEF x, P, H, E
    <3>3. x * H <= (P - 1) * H /\ (P - 1) * H = P * H - H
      BY <1>1, <3>1
    <3>4. x * H \in Nat /\ P * H \in Nat
      BY <1>1, <3>1
    <3>5. x * H \in 0 .. E - 1
      BY <1>1, <3>2, <3>3, <3>4
    <3> QED  BY <2>1, <3>5 DEF x
  <2> QED  BY <1>1, <1>3, <2>1, <2>2, <2>3, <2>4 DEF DivWords
<1>6. CASE resetn /\ ~Div!start(div) /\ ~Div!Answers(div)
  <2>1. /\ div'.dividend = IF Div!Fits(div) THEN div.dividend - div.divisor
                           ELSE div.dividend
        /\ div'.quotient = IF Div!Fits(div) THEN Div!WithBit(div.quotient, div.quotient_msk)
                           ELSE div.quotient
        /\ div'.divisor = div.divisor \div 2
        /\ div'.quotient_msk = div.quotient_msk \div 2
        /\ div'.outsign = div.outsign
    BY <1>6, DivNumbers
  <2>2. div'.dividend \in Word
    <3> HIDE DEF P, E
    <3> QED  BY <1>1, <1>2, <2>1 DEF Div!Fits
  <2>3. div'.quotient \in Word
    BY <1>2, <2>1, WithBitFits
  <2>4. div'.quotient_msk \in Masks
    BY <1>2, <2>1, MaskHalves
  <2>5. div'.divisor \in 0 .. E - 1
    <3>1. E \in Nat
      <4> HIDE DEF P, H, E
      <4> QED  BY <1>1
    <3> HIDE DEF E
    <3> QED  BY <1>2, <2>1, <3>1
  <2> QED  BY <1>2, <1>3, <2>1, <2>2, <2>3, <2>4, <2>5 DEF DivWords
<1>7. Div!Answers(div) => ~Div!start(div)
  BY DEF Div!Answers
<1> QED  BY <1>4, <1>5, <1>6, <1>7

(* The registers start, and stay, within their widths.                       *)
LEMMA WidthsKept == PcpiInv /\ WidthInv /\ [Next]_vars => WidthInv'
<1> SUFFICES ASSUME PcpiInv, WidthInv, [Next]_vars PROVE WidthInv'
  OBVIOUS
<1>1. PortInv /\ MulType /\ DivType /\ resetn \in BOOLEAN /\ port.valid \in BOOLEAN
  BY DEF PcpiInv, PortInv, MulInv, DivInv
<1>2. CASE Units
  <2>1. MulNumbers(mul') /\ DivWords(div')
    BY <1>1, <1>2, MulNumbersStep, DivWordsStep DEF WidthInv
  <2>2. mul'.instr \in MulOp \cup {None}
    BY <1>1, <1>2, MulEdge DEF Asked
  <2>3. div'.instr \in DivOp \cup {None}
    BY <1>1, <1>2, DivEdge DEF Asked
  <2> QED  BY <2>1, <2>2, <2>3 DEF WidthInv
<1>3. CASE UNCHANGED vars
  BY <1>3 DEF vars, WidthInv
<1>4. Next => Units
  BY DEF Next, PowerUp, Reset, Rest, Hold, Take, GiveUp, Ask
<1> QED  BY <1>2, <1>3, <1>4

LEMMA WidthsAtFirst == Init => WidthInv
<1> SUFFICES ASSUME Init PROVE WidthInv
  OBVIOUS
<1>1. /\ Mul!Double \in Nat \ {0} /\ 0 \in Word /\ W \in Nat /\ W >= 2
      /\ Mul!CounterRange = 4 * W
  BY WordFacts, WidthFacts
<1>2. mul = Mul!MulInit /\ div = Div!DivInit
  BY DEF Init
<1>3. MulNumbers(mul)
  <2>1. /\ mul.rs1 = 0 /\ mul.rs2 = 0 /\ mul.rd = 0 /\ mul.rdx = 0 /\ mul.counter = 0
        /\ mul.result = 0
    BY <1>2 DEF Mul!MulInit
  <2>2. 0 \in 0 .. Mul!Double - 1 /\ 0 \in 0 .. 4 * W - 1
    BY <1>1
  <2> QED  BY <1>1, <2>1, <2>2, ZeroSparse DEF MulNumbers, MulWords
<1>4. DivWords(div)
  <2>1. /\ div.dividend = 0 /\ div.divisor = 0 /\ div.quotient = 0 /\ div.quotient_msk = 0
        /\ div.outsign = FALSE /\ div.result = 0
    BY <1>2 DEF Div!DivInit
  <2>2. 0 \in 0 .. 2^(2 * W - 1) - 1
    <3>1. 2 * W - 1 \in Nat
      BY <1>1
    <3>2. 2^(2 * W - 1) \in Nat \ {0}
      BY <3>1, TwoPositive
    <3> QED  BY <3>2
  <2> QED  BY <1>1, <2>1, <2>2 DEF DivWords
<1>5. mul.instr = None /\ div.instr = None
  BY <1>2 DEF Mul!MulInit, Div!DivInit, Mul!None, Div!None, None
<1> QED  BY <1>3, <1>4, <1>5 DEF WidthInv
-----------------------------------------------------------------------------
(* The upper half of a remainder is a remainder of the upper half.           *)
LEMMA UpperHalf ==
    ASSUME NEW x \in Int PROVE (x % Mul!Double) \div 2^W = (x \div 2^W) % 2^W
<1> DEFINE P == 2^W  d == (x \div P) % P  r == x % P
<1>1. P \in Nat \ {0} /\ Mul!Double = P * P
  BY WordFacts
<1> HIDE DEF P
<1>2. d \in 0 .. P - 1 /\ x % (P * P) = r + d * P
  BY <1>1, DigitFact
<1>3. r \in 0 .. P - 1
  BY <1>1
<1> HIDE DEF d, r
<1> DEFINE z == r + d * P
<1>4. z \in Int /\ z = d * P + r
  BY <1>1, <1>2, <1>3
<1> HIDE DEF z
<1>5. z \div P = d
  BY <1>1, <1>2, <1>3, <1>4, DivUnique
<1> QED  BY <1>1, <1>2, <1>5 DEF z, d, P

-----------------------------------------------------------------------------
(* What the multiplier multiplies. *)
Factor1(in) == IF in.op \in {"mulh", "mulhsu"} THEN Signed(in.rs1) ELSE in.rs1
Factor2(in) == IF in.op = "mulh" THEN Signed(in.rs2) ELSE in.rs2

(* After s steps: the bits of rs1 that are left fit the steps that are left, *)
(* what is to be added has s zeros for the bits that are gone, so have the   *)
(* carries, and all of it together is the product.                           *)
MulSum(u, in, s) ==
    /\ u.rs1 < 2^(Steps(in.op) - s)
    /\ Multiple(u.rs2, 2^s) /\ Multiple(u.rdx, 2^s)
    /\ Congruent(u.rd + u.rdx + u.rs1 * u.rs2, Factor1(in) * Factor2(in), Mul!Double)

ProductInv ==
    Started /\ Asked(MulOp) =>
        /\ age \in 3 .. Steps(port.op) + 3 => MulSum(mul, port, age - 3)
        /\ age = Steps(port.op) + 4 => mul.result = Result(port.op, port.rs1, port.rs2)

(* The factors are numbers, of which the registers hold the remainders.      *)
LEMMA FactorFacts ==
    ASSUME PortInv
    PROVE  /\ Factor1(port) \in Int /\ Factor2(port) \in Int
           /\ port.op \notin {"mulh", "mulhsu"} => Factor1(port) % Mul!Double = port.rs1
           /\ port.op # "mulh" => Factor2(port) % Mul!Double = port.rs2
<1>1. /\ 2^W \in Nat /\ Word = 0 .. 2^W - 1 /\ Mul!Double \in Nat \ {0}
      /\ Word \subseteq 0 .. Mul!Double - 1 /\ port.rs1 \in Word /\ port.rs2 \in Word
  BY WordFacts, PortFacts
<1>2. \A x \in Word : x \in Int /\ Signed(x) \in Int
  BY <1>1 DEF Signed
<1>3. ASSUME NEW x \in Word PROVE x % Mul!Double = x
  <2> DEFINE D == Mul!Double
  <2>1. D \in Nat \ {0} /\ x \in 0 .. D - 1
    BY <1>1
  <2> HIDE DEF D
  <2>2. x = 0 * D + x
    BY <2>1
  <2>3. x % D = x
    BY <2>1, <2>2, DivUnique
  <2> QED  BY <2>3 DEF D
<1> QED  BY <1>1, <1>2, <1>3 DEF Factor1, Factor2

(* The steps of an instruction.                                              *)
LEMMA StepsFacts ==
    ASSUME NEW op PROVE Steps(op) \in Nat /\ Steps(op) <= 2 * W /\ Steps(op) >= W
  BY WidthFacts DEF Steps

(* It begins with the product.                                               *)
LEMMA SumBegins ==
    ASSUME PortInv, MulType, Units, resetn, mul.waiting, mul.instr = port.op
    PROVE  MulSum(mul', port, 0)
<1> DEFINE D == Mul!Double  n == Steps(port.op)  a == Factor1(port)  b == Factor2(port)
<1>1. /\ D \in Nat \ {0} /\ a \in Int /\ b \in Int /\ n \in Nat
      /\ Word = 0 .. 2^W - 1 /\ Word \subseteq 0 .. D - 1 /\ port.rs1 \in Word
  BY WordFacts, FactorFacts, StepsFacts, PortFacts
<1>2. /\ mul'.rs1 = IF Mul!rs1_signed(mul) THEN Mul!SignExtended(port.rs1) ELSE port.rs1
      /\ mul'.rs2 = IF Mul!rs2_signed(mul) THEN Mul!SignExtended(port.rs2) ELSE port.rs2
      /\ mul'.rd = 0 /\ mul'.rdx = 0
  BY MulRegisters
<1>3. mul'.rs1 = a % D /\ mul'.rs2 = b % D
  <2>1. \A x : Mul!SignExtended(x) = Signed(x) % D
    BY DEF Mul!SignExtended, Mul!Signed, Mul!Negative, Signed, Negative
  <2> HIDE DEF D
  <2>2. mul'.rs1 = a % D
    BY <1>2, <2>1, FactorFacts DEF Mul!rs1_signed, Factor1, D
  <2>3. mul'.rs2 = b % D
    BY <1>2, <2>1, FactorFacts DEF Mul!rs2_signed, Factor2, D
  <2> QED  BY <2>2, <2>3
<1>4. mul'.rs1 \in 0 .. D - 1 /\ mul'.rs2 \in 0 .. D - 1
  <2> HIDE DEF D, a, b
  <2> QED  BY <1>1, <1>3
<1>5. mul'.rs1 < 2^(n - 0)
  <2>1. n - 0 = n
    BY <1>1
  <2>2. CASE port.op = "mul"
    <3>1. mul'.rs1 = port.rs1
      BY <1>2, <2>2 DEF Mul!rs1_signed
    <3>2. n = W
      BY <2>2 DEF Steps
    <3>3. 2^W \in Nat /\ port.rs1 < 2^W
      BY <1>1, WordFacts
    <3> QED  BY <2>1, <3>1, <3>2, <3>3
  <2>3. CASE port.op # "mul"
    <3>1. 2^n = D
      BY <2>3 DEF Steps, Mul!Double
    <3> QED  BY <1>1, <1>4, <2>1, <3>1
  <2> QED  BY <2>2, <2>3
<1>6. Multiple(mul'.rs2, 2^0) /\ Multiple(mul'.rdx, 2^0)
  <2>1. 2^0 = 1 /\ \A x \in Nat : x = 1 * x
    OBVIOUS
  <2>2. \A x \in Nat : Multiple(x, 2^0)
    BY <2>1 DEF Multiple
  <2> QED  BY <1>1, <1>2, <1>4, <2>2
<1>7. Congruent(mul'.rd + mul'.rdx + mul'.rs1 * mul'.rs2, a * b, D)
  <2> DEFINE x == mul'.rs1 * mul'.rs2
  <2>1. x \in Int
    BY <1>1, <1>4
  <2>2. Congruent(x, a * b, D)
    <3> HIDE DEF a, b, D
    <3>1. Congruent((a % D) * (b % D), a * b, D)
      BY <1>1, CongruentProduct
    <3> QED  BY <1>3, <3>1
  <2> HIDE DEF x
  <2>3. mul'.rd + mul'.rdx + x = x
    BY <1>2, <2>1
  <2> QED  BY <2>2, <2>3 DEF x
<1> QED  BY <1>5, <1>6, <1>7 DEF MulSum

(* A step of the multiplication.                                             *)
LEMMA SumKept ==
    ASSUME MulType, MulNumbers(mul), Units, resetn, ~mul.waiting,
           NEW s \in Nat, s + 1 <= Steps(port.op), MulSum(mul, port, s),
           Factor1(port) \in Int, Factor2(port) \in Int
    PROVE  MulSum(mul', port, s + 1)
<1> DEFINE D == Mul!Double  n == Steps(port.op)  ab == Factor1(port) * Factor2(port)
           added == Added(mul)
<1>1. /\ D \in Nat \ {0} /\ n \in Nat /\ n <= 2 * W /\ W \in Nat /\ ab \in Int
      /\ MulWords(mul) /\ Sparse(mul.rdx)
      /\ mul.rs1 \in Nat /\ mul.rs2 \in Nat /\ mul.rd \in Nat /\ mul.rdx \in Nat
      /\ added = (IF mul.rs1 % 2 = 1 THEN mul.rs2 ELSE 0) /\ added \in Nat
  BY WordFacts, WidthFacts, StepsFacts DEF MulNumbers, MulWords, Added
<1>2. /\ mul'.rs1 = mul.rs1 \div 2 /\ mul'.rs2 = (2 * mul.rs2) % D
      /\ mul'.rd = Mul!next_rd(mul) /\ mul'.rdx = Mul!next_rdx(mul)
  BY MulRegisters
<1>3. /\ mul'.rd \in 0 .. D - 1 /\ mul'.rdx \in 0 .. D - 1
      /\ \E q \in Nat : mul'.rd + mul'.rdx + q * D = mul.rd + mul.rdx + added
  BY <1>1, <1>2, AccumulatorStep
<1>4. 2^(s + 1) = 2 * 2^s /\ 2^s \in Nat \ {0} /\ 2^(s + 1) \in Nat \ {0}
  BY TwoExp, TwoPositive
<1>5. mul'.rs1 < 2^(n - (s + 1))
  <2>1. n - (s + 1) \in Nat /\ (n - (s + 1)) + 1 = n - s
    BY <1>1
  <2> DEFINE x == 2^(n - (s + 1))
  <2>2. 2^(n - s) = 2 * x /\ x \in Nat
    BY <2>1, TwoExp, TwoPositive
  <2>3. mul.rs1 < 2 * x
    BY <2>2 DEF MulSum
  <2> HIDE DEF x
  <2>4. mul.rs1 \div 2 < x
    BY <1>1, <2>2, <2>3
  <2> QED  BY <1>2, <2>4 DEF x
<1>6. Multiple(mul'.rs2, 2^(s + 1))
  <2>1. PICK t \in Nat : mul.rs2 = 2^s * t
    BY DEF MulSum, Multiple
  <2> DEFINE m == 2^s  x == 2 * mul.rs2
  <2>2. x = (2 * m) * t /\ x \in Nat
    <3>1. m \in Nat /\ mul.rs2 = m * t
      BY <1>4, <2>1
    <3> HIDE DEF m
    <3> QED  BY <3>1
  <2>3. Multiple(x, 2^(s + 1))
    BY <1>4, <2>2 DEF Multiple
  <2>4. Multiple(D, 2^(s + 1))
    <3>1. s + 1 \in Nat /\ 2 * W \in Nat /\ s + 1 <= 2 * W
      BY <1>1
    <3> QED  BY <3>1, PowerMultiple DEF Mul!Double
  <2> HIDE DEF x, D
  <2>5. Multiple(x % D, 2^(s + 1))
    BY <1>1, <1>4, <2>3, <2>4, MultipleMod
  <2> QED  BY <1>2, <2>5 DEF x
<1>7. Multiple(mul'.rdx, 2^(s + 1))
  <2>1. Multiple(mul.rdx, 2^s) /\ Multiple(mul.rs2, 2^s)
    BY DEF MulSum
  <2>2. Multiple(0, 2^s)
    <3> DEFINE m == 2^s
    <3> HIDE DEF m
    <3>1. m \in Nat
      BY <1>4 DEF m
    <3>2. 0 = m * 0
      BY <3>1
    <3>3. Multiple(0, m)
      BY <3>2 DEF Multiple
    <3> QED  BY <3>3 DEF m
  <2>3. Multiple(added, 2^s)
    BY <1>1, <2>1, <2>2
  <2>4. s + 1 <= 2 * W
    BY <1>1
  <2> QED  BY <1>1, <1>2, <2>1, <2>3, <2>4, AccumulatorStep
<1>8. Congruent(mul'.rd + mul'.rdx + mul'.rs1 * mul'.rs2, ab, D)
  <2> DEFINE x == mul.rs1  y == mul.rs2  h == x \div 2  e == (2 * y) \div D  z == (2 * y) % D
  <2>1. PICK q \in Nat : mul'.rd + mul'.rdx + q * D = mul.rd + mul.rdx + added
    BY <1>3
  <2>2. PICK k \in Int : mul.rd + mul.rdx + x * y = ab + k * D
    BY DEF MulSum, Congruent
  <2>3. x * y = h * (2 * y) + added /\ h \in Nat
    <3>1. x = 2 * h + (x % 2) /\ (x % 2) \in 0 .. 1 /\ h \in Nat
      <4>1. x \in Nat
        BY <1>1
      <4> HIDE DEF x
      <4> QED  BY <4>1
    <3>2. added = (IF x % 2 = 1 THEN y ELSE 0)
      BY <1>1
    <3>3. x \in Nat /\ y \in Nat
      BY <1>1
    <3> HIDE DEF x, y, h, added
    <3>4. CASE x % 2 = 1
      <4>1. x = 2 * h + 1
        BY <3>1, <3>4
      <4>2. (2 * h + 1) * y = h * (2 * y) + y
        BY <3>1, <3>3
      <4> QED  BY <3>1, <3>2, <3>4, <4>1, <4>2
    <3>5. CASE x % 2 # 1
      <4>1. x = 2 * h
        BY <3>1, <3>3, <3>5
      <4>2. (2 * h) * y = h * (2 * y) + 0
        BY <3>1, <3>3
      <4> QED  BY <3>1, <3>2, <3>5, <4>1, <4>2
    <3> QED  BY <3>4, <3>5
  <2>4. 2 * y = e * D + z /\ e \in Nat /\ z \in Nat
    <3> DEFINE yy == 2 * y
    <3>1. yy \in Nat /\ D \in Nat /\ D > 0
      BY <1>1
    <3> HIDE DEF yy, D
    <3>2. yy = (yy \div D) * D + (yy % D) /\ (yy \div D) \in Nat /\ (yy % D) \in Nat
      BY <3>1
    <3> QED  BY <3>2 DEF yy
  <2>5. mul'.rs1 = h /\ mul'.rs2 = z
    BY <1>2
  <2>6. /\ mul'.rd \in Int /\ mul'.rdx \in Int /\ mul.rd \in Int /\ mul.rdx \in Int
        /\ D \in Int /\ y \in Int /\ added \in Int /\ ab \in Int /\ x \in Int
    BY <1>1, <1>3
  <2> HIDE DEF x, y, h, e, z, added, ab, D
  <2> DEFINE rd == mul'.rd  rdx == mul'.rdx  s0 == mul.rd + mul.rdx
  <2>7. rd \in Int /\ rdx \in Int /\ s0 \in Int
    BY <2>6
  <2>8. rd + rdx + q * D = s0 + added /\ s0 + x * y = ab + k * D
    BY <2>1, <2>2
  <2> HIDE DEF rd, rdx, s0
  <2> DEFINE f == h * e  j == k - q - f
  <2>9. h * (2 * y) = h * z + f * D
    <3>1. h * (e * D + z) = (h * e) * D + h * z
      BY <2>3, <2>4, <2>6
    <3> DEFINE g == 2 * y
    <3>2. g = e * D + z
      BY <2>4
    <3> HIDE DEF g
    <3>3. h * g = h * z + (h * e) * D
      BY <2>3, <2>4, <2>6, <3>1, <3>2
    <3> QED  BY <3>3 DEF g
  <2>10. f \in Int /\ j \in Int /\ j * D = k * D - q * D - f * D
    <3>1. f \in Int
      BY <2>3, <2>4
    <3> HIDE DEF f
    <3> QED  BY <2>6, <3>1
  <2> HIDE DEF f, j
  <2>11. rd + rdx + h * z = ab + j * D
    <3> DEFINE hz == h * z  fD == f * D  qD == q * D  kD == k * D  xy == x * y  jD == j * D
    <3>1. /\ hz \in Int /\ fD \in Int /\ qD \in Int /\ kD \in Int /\ xy \in Int
      BY <2>3, <2>4, <2>6, <2>10
    <3>2. /\ rd + rdx + qD = s0 + added /\ s0 + xy = ab + kD
          /\ xy = hz + fD + added /\ jD = kD - qD - fD
      BY <2>3, <2>8, <2>9, <2>10
    <3> HIDE DEF hz, fD, qD, kD, xy, jD
    <3>3. rd + rdx + hz = ab + jD
      BY <2>6, <2>7, <3>1, <3>2
    <3> QED  BY <3>3 DEF hz, jD
  <2>12. Congruent(rd + rdx + h * z, ab, D)
    BY <2>10, <2>11 DEF Congruent
  <2> QED  BY <2>5, <2>12 DEF rd, rdx
<1> QED  BY <1>5, <1>6, <1>7, <1>8 DEF MulSum

(* When all bits are gone, the accumulator holds the product, and no carries *)
(* in the half that is looked at.                                            *)
LEMMA SumEnds ==
    ASSUME PortInv, MulNumbers(mul), port.op \in MulOp, MulSum(mul, port, Steps(port.op))
    PROVE  Result(port.op, port.rs1, port.rs2)
             = IF port.op = "mul" THEN mul.rd % 2^W ELSE mul.rd \div 2^W
<1> DEFINE P == 2^W  D == Mul!Double  n == Steps(port.op)
           a == Factor1(port)  b == Factor2(port)
<1>1. /\ P \in Nat \ {0} /\ D \in Nat \ {0} /\ D = P * P /\ Word = 0 .. P - 1
      /\ Multiple(D, P) /\ n \in Nat
      /\ a \in Int /\ b \in Int /\ port.rs1 \in Word /\ port.rs2 \in Word
      /\ mul.rs1 \in Nat /\ mul.rs2 \in Nat /\ mul.rd \in 0 .. D - 1 /\ mul.rdx \in 0 .. D - 1
  BY WordFacts, StepsFacts, FactorFacts, PortFacts DEF MulNumbers, MulWords
<1>2. mul.rs1 = 0
  <2>1. n - n = 0 /\ 2^0 = 1
    BY <1>1
  <2>2. mul.rs1 < 1
    BY <2>1 DEF MulSum
  <2> QED  BY <1>1, <2>2
<1>3. Congruent(mul.rd + mul.rdx, a * b, D)
  <2>1. mul.rs1 * mul.rs2 = 0
    BY <1>1, <1>2
  <2>2. mul.rd + mul.rdx + mul.rs1 * mul.rs2 = mul.rd + mul.rdx
    BY <1>1, <2>1
  <2>3. Congruent(mul.rd + mul.rdx + mul.rs1 * mul.rs2, a * b, D)
    BY DEF MulSum
  <2> QED  BY <2>2, <2>3
<1> DEFINE x == mul.rd + mul.rdx  ab == a * b
<1>4. x \in Int /\ ab \in Int
  <2>1. mul.rd \in Int /\ mul.rdx \in Int /\ a \in Int /\ b \in Int
    BY <1>1
  <2> HIDE DEF a, b
  <2> QED  BY <2>1
<1>5. CASE port.op = "mul"
  <2>1. Multiple(mul.rdx, P)
    BY <1>5 DEF MulSum, Steps
  <2>2. x % P = ab % P
    <3> HIDE DEF x, ab, P, D
    <3> QED  BY <1>1, <1>3, <1>4, CongruentMod DEF x, ab
  <2>3. x % P = mul.rd % P
    <3>1. PICK t \in Nat : mul.rdx = P * t
      BY <2>1 DEF Multiple
    <3> DEFINE r == mul.rd
    <3>2. x = r + t * P /\ r \in Int
      BY <1>1, <3>1
    <3>3. P \in Nat \ {0}
      BY <1>1
    <3> HIDE DEF x, P, r
    <3>4. \A q \in Int : (r + q * P) % P = r % P
      BY <3>2, <3>3, ModPlusMultiple
    <3>5. (r + t * P) % P = r % P
      BY <3>4
    <3> QED  BY <3>2, <3>5 DEF r
  <2>4. Result(port.op, port.rs1, port.rs2) = ab % P
    BY <1>5 DEF Result, Factor1, Factor2
  <2> QED  BY <1>5, <2>2, <2>3, <2>4
<1>6. CASE port.op # "mul"
  <2>1. mul.rdx = 0
    <3>1. Multiple(mul.rdx, D)
      BY <1>6 DEF MulSum, Steps, Mul!Double
    <3>2. mul.rdx % D = 0
      <4> HIDE DEF D
      <4> QED  BY <1>1, <3>1, MultipleMod
    <3> DEFINE r == mul.rdx
    <3>3. r \in 0 .. D - 1 /\ D \in Nat \ {0} /\ r % D = 0
      BY <1>1, <3>2
    <3> HIDE DEF D, r
    <3>4. r = 0 * D + r
      BY <3>3
    <3>5. r % D = r
      BY <3>3, <3>4, DivUnique
    <3> QED  BY <3>3, <3>5 DEF r
  <2>2. mul.rd = ab % D
    <3> HIDE DEF ab, D
    <3>1. x % D = ab % D
      BY <1>1, <1>3, <1>4, CongruentMod DEF ab
    <3>2. x = mul.rd /\ x \in 0 .. D - 1
      BY <1>1, <2>1
    <3>3. D \in Nat \ {0}
      BY <1>1
    <3> HIDE DEF x
    <3>4. x = 0 * D + x
      BY <1>4, <3>3
    <3>5. x % D = x
      BY <1>4, <3>2, <3>3, <3>4, DivUnique
    <3> QED  BY <3>1, <3>2, <3>5
  <2>3. mul.rd \div P = (ab \div P) % P
    BY <1>4, <2>2, UpperHalf
  <2>4. Result(port.op, port.rs1, port.rs2) = (ab \div P) % P
    <3>1. CASE port.op = "mulh"
      BY <3>1 DEF Result, Factor1, Factor2
    <3>2. CASE port.op = "mulhsu"
      BY <3>2 DEF Result, Factor1, Factor2
    <3>3. CASE port.op = "mulhu"
      <4>1. Result(port.op, port.rs1, port.rs2) = ab \div P /\ ab = port.rs1 * port.rs2
        BY <3>3 DEF Result, Factor1, Factor2
      <4>2. ab \in 0 .. D - 1
        <5> DEFINE c == port.rs1  d == port.rs2
        <5>1. c \in 0 .. P - 1 /\ d \in 0 .. P - 1
          BY <1>1
        <5> HIDE DEF c, d, P
        <5>2. c * d <= c * P /\ c * P <= (P - 1) * P /\ (P - 1) * P = P * P - P
          BY <1>1, <5>1
        <5>3. c * d \in Nat /\ c * P \in Nat /\ P * P \in Nat
          BY <1>1, <5>1
        <5>4. c * d \in 0 .. P * P - 1
          BY <1>1, <5>2, <5>3
        <5> QED  BY <1>1, <4>1, <5>4 DEF c, d
      <4>3. ab \div P \in Word
        BY <4>2, HalvesFit
      <4>4. (ab \div P) % P = ab \div P
        BY <4>3, ModWord
      <4> QED  BY <4>1, <4>4
    <3> QED  BY <1>6, <3>1, <3>2, <3>3 DEF MulOp
  <2> QED  BY <1>6, <2>3, <2>4
<1> QED  BY <1>5, <1>6

(* What the multiplier has found of a product, and answers, is kept.         *)
LEMMA ProductKept ==
    PcpiInv /\ WidthInv /\ ProductInv /\ [Next]_vars => ProductInv'
<1> SUFFICES ASSUME PcpiInv, WidthInv, ProductInv, [Next]_vars PROVE ProductInv'
  OBVIOUS
<1> DEFINE n == Steps(port.op)
<1>1. /\ PortInv /\ MulType /\ MulNumbers(mul)
      /\ n \in Nat /\ age \in Nat /\ resetn \in BOOLEAN /\ (~Started => ~port.valid)
      /\ Factor1(port) \in Int /\ Factor2(port) \in Int
  BY StepsFacts, FactorFacts DEF PcpiInv, PortInv, MulInv, WidthInv
<1>2. CASE PowerUp \/ Reset
  <2>1. port' = port /\ ~port.valid  BY <1>1, <1>2 DEF PowerUp, Reset, Started
  <2> QED  BY <2>1 DEF ProductInv, Asked
<1>3. CASE Rest  BY <1>3 DEF Rest, ProductInv, Asked
<1>4. CASE \E op, a, b : Ask(op, a, b)
  <2>1. age' = 0
    BY <1>4 DEF Ask
  <2>2. \A op : Steps(op) \in Nat
    BY StepsFacts
  <2>3. Steps(port'.op) \in Nat
    BY <2>2
  <2>4. ~(age' \in 3 .. Steps(port'.op) + 3) /\ age' # Steps(port'.op) + 4
    BY <2>1, <2>3
  <2> QED  BY <2>4 DEF ProductInv
<1>5. CASE Hold
  <2> SUFFICES ASSUME Asked(MulOp)
               PROVE  /\ age' \in 3 .. n + 3 => MulSum(mul', port, age' - 3)
                      /\ age' = n + 4 => mul'.result = Result(port.op, port.rs1, port.rs2)
    BY <1>5 DEF Hold, ProductInv, Asked
  <2>1. /\ Started /\ resetn /\ Units /\ port.op \in MulOp /\ age' = age + 1
        /\ MulAt(mul, port.op, age)
    BY <1>5, Operations DEF Hold, Asked, PcpiInv, MulInv, Started
  <2>2. ASSUME age' \in 3 .. n + 3 PROVE MulSum(mul', port, age' - 3)
    <3>1. age \in 2 .. n + 2
      BY <1>1, <2>1, <2>2
    <3>2. CASE age = 2
      <4>1. mul.waiting /\ mul.instr = port.op
        BY <2>1, <3>2 DEF MulAt
      <4>2. age' - 3 = 0
        BY <2>1, <3>2
      <4> QED  BY <1>1, <2>1, <4>1, <4>2, SumBegins
    <3>3. CASE age # 2
      <4>1. age \in 3 .. n + 3 /\ ~(age < 3) /\ ~(age > n + 2)
        BY <1>1, <3>1, <3>3
      <4>2. ~mul.waiting
        BY <2>1, <4>1 DEF MulAt
      <4>3. MulSum(mul, port, age - 3)
        BY <2>1, <4>1 DEF ProductInv
      <4> DEFINE s == age - 3
      <4>4. s \in Nat /\ s + 1 <= n /\ age' - 3 = s + 1
        BY <1>1, <2>1, <3>1, <3>3
      <4> HIDE DEF s
      <4>5. MulSum(mul', port, s + 1)
        BY <1>1, <2>1, <4>2, <4>3, <4>4, SumKept DEF s
      <4> QED  BY <4>4, <4>5
    <3> QED  BY <3>2, <3>3
  <2>3. ASSUME age' = n + 4 PROVE mul'.result = Result(port.op, port.rs1, port.rs2)
    <3>1. age = n + 3 /\ age \in 3 .. n + 3 /\ age - 3 = n /\ ~(age = 0)
      BY <1>1, <2>1, <2>3
    <3>2. mul.finish /\ mul.instr = port.op
      BY <2>1, <3>1 DEF MulAt
    <3>3. MulSum(mul, port, n)
      BY <2>1, <3>1 DEF ProductInv
    <3>4. Mul!instr_any_mulh(mul) <=> port.op # "mul"
      BY <2>1, <3>2 DEF Mul!instr_any_mulh, MulOp
    <3>5. mul'.result = IF port.op = "mul" THEN mul.rd % 2^W ELSE mul.rd \div 2^W
      BY <1>1, <2>1, <3>2, <3>4, MulRegisters
    <3> QED  BY <1>1, <2>1, <3>3, <3>5, SumEnds
  <2> QED  BY <2>2, <2>3
<1>6. CASE Take \/ GiveUp
  <2>1. port' = Idle  BY <1>6 DEF Take, GiveUp
  <2>2. ~port'.valid  BY <2>1 DEF Idle
  <2> QED  BY <2>2 DEF ProductInv, Asked
<1>7. CASE UNCHANGED vars  BY <1>7 DEF vars, ProductInv, Asked, Started
<1> QED  BY <1>2, <1>3, <1>4, <1>5, <1>6, <1>7 DEF Next

(* While the multiplier works, what it holds is the product.                 *)
LEMMA ProductsInTheMaking ==
    ASSUME PcpiInv, WidthInv, ProductInv PROVE SumsToProduct
<1> DEFINE D == Mul!Double  a == Factor1(port)  b == Factor2(port)
           modulus == IF mul.instr = "mul" THEN 2^W ELSE D
           x == mul.rd + mul.rdx + mul.rs1 * mul.rs2
<1> SUFFICES ASSUME ~mul.waiting, Started
             PROVE  mul.instr = port.op /\ x % modulus = (a * b) % modulus
  BY DEF SumsToProduct, Factor1, Factor2, Mul!Double
<1>1. Asked(MulOp) /\ MulAt(mul, port.op, age) /\ age \in Nat /\ Steps(port.op) \in Nat
  BY StepsFacts DEF PcpiInv, PortInv, MulInv, MulRests
<1>2. age \in 3 .. Steps(port.op) + 3 /\ age # 0
  BY <1>1 DEF MulAt
<1>3. mul.instr = port.op
  BY <1>1, <1>2 DEF MulAt
<1>4. Congruent(x, a * b, D)
  BY <1>1, <1>2 DEF ProductInv, MulSum
<1>5. a \in Int /\ b \in Int /\ D \in Nat \ {0} /\ 2^W \in Nat \ {0} /\ Multiple(D, 2^W)
  BY FactorFacts, WordFacts DEF PcpiInv
<1>6. x \in Int /\ a * b \in Int
  <2>1. mul.rs1 \in Int /\ mul.rs2 \in Int /\ mul.rd \in Int /\ mul.rdx \in Int
    BY <1>5 DEF WidthInv, MulNumbers, MulWords
  <2> QED  BY <1>5, <2>1
<1>7. x % D = (a * b) % D /\ x % 2^W = (a * b) % 2^W
  <2> DEFINE ab == a * b  P == 2^W
  <2>1. /\ x \in Int /\ ab \in Int /\ D \in Nat \ {0} /\ P \in Nat \ {0}
        /\ Congruent(x, ab, D) /\ Multiple(D, P)
    BY <1>4, <1>5, <1>6
  <2> HIDE DEF x, ab, D, P
  <2>2. x % D = ab % D /\ x % P = ab % P
    BY <2>1, CongruentMod
  <2> QED  BY <2>2 DEF ab, P
<1> QED  BY <1>3, <1>7

(* The registers never leave their widths; when the multiplier answers,      *)
(* pcpi_rd is the product that RISC-V defines for the operands on the        *)
(* interface, and until then the sum, its carries and what is left to add    *)
(* make it up.                                                               *)
THEOREM Products == Spec => []ProductsAreRight
<1>1. Init => WidthInv /\ ProductInv
  <2>1. Init => ProductInv
    BY DEF Init, ProductInv, Started
  <2> QED  BY <2>1, WidthsAtFirst
<1>2. PcpiInv /\ WidthInv /\ ProductInv /\ [Next]_vars => (WidthInv /\ ProductInv)'
  BY WidthsKept, ProductKept
<1>3. Spec => [](WidthInv /\ ProductInv)
  BY <1>1, <1>2, PcpiIsInvariant, PTL DEF Spec
<1>4. ASSUME PcpiInv, WidthInv, ProductInv PROVE ProductsAreRight
  <2>1. TypeOK
    <3>1. mul \in Mul!MulUnit
      BY <1>4 DEF PcpiInv, MulInv, MulType, MulRecord, WidthInv, MulNumbers, MulWords,
                  Mul!MulUnit, Mul!MulOp, MulOp, Mul!None, None, Mul!Word, Word
    <3>2. div \in Div!DivUnit
      BY <1>4 DEF PcpiInv, DivInv, DivType, DivRecord, WidthInv, DivWords,
                  Div!DivUnit, Div!DivOp, DivOp, Div!None, None, Div!Word, Word
    <3> QED  BY <1>4, <3>1, <3>2 DEF TypeOK, PcpiInv, PortInv
  <2>2. SumsToProduct
    BY <1>4, ProductsInTheMaking
  <2>3. ASSUME booted, mul.ready PROVE pcpi_int_rd = Result(port.op, port.rs1, port.rs2)
    <3>1. Started /\ Asked(MulOp) /\ MulAt(mul, port.op, age)
      BY <1>4, <2>3, WhoAnswers DEF PcpiInv, MulInv
    <3>2. age = Steps(port.op) + 4
      BY <2>3, <3>1 DEF MulAt
    <3> QED  BY <1>4, <2>3, <3>1, <3>2 DEF ProductInv, pcpi_int_rd
  <2> QED  BY <2>1, <2>2, <2>3 DEF ProductsAreRight
<1> QED  BY <1>3, <1>4, PcpiIsInvariant, PTL
=============================================================================
