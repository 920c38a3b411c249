---------------------------- MODULE PicoCore_proofs ----------------------------
(***************************************************************************)
(* What PicoCore checks on small instances, proved for code of any size,   *)
(* any programs, interrupts and bounds: the instructions are launched in   *)
(* program order, what is latched of one is its own until it is over, the  *)
(* assertions of picorv32.v hold, and no interrupt is lost.                *)
(***************************************************************************)
EXTENDS PicoCore, TLAPS

Odd(h)        == h % 2 = 1
Next1(h)      == Plus(h, 1)
Size2(pc)     == IF Long(pc) THEN 2 ELSE 1
Following(pc) == Plus(pc, Size2(pc))
WordOf(h)     == h \div 2
WordAfter(h)  == (h \div 2 + 1) % CodeWords

Registers == Half \cup Junk \cup {x0, q0, q1}

(* An instruction is being executed; its successor is not decoded yet; it   *)
(* is.                                                                      *)
Mid       == cpu_state \in {"ld_rs1", "exec", "shift", "stmem", "ldmem"}
Accessing == cpu_state \in {"stmem", "ldmem"} /\ ~mem_do_prefetch
Executing == Mid /\ ~Accessing
Decoded   == decoder_trigger \/ do_waitirq \/ Accessing

(* The memory interface goes on from reg_next_pc.                           *)
Sequential == ~latched_branch /\ irq_state = 0

(* Halfword h has been prefetched.                                          *)
Buffered(h) == prefetched_high_word /\ mem_16bit_buffer = h

Quiet == ~Fetching /\ ~mem_do_rdata /\ ~mem_do_wdata

(* The program, and where it is fetched from.                               *)
ProgramInv ==
    /\ long \subseteq Half /\ kinds \subseteq Kind
    /\ lines \subseteq IrqLine \ {"ebreak", "buserror"} /\ masks \subseteq SUBSET IrqLine
    /\ mem_valid /\ mem_instr => mem_addr \in 0 .. CodeWords - 1

TypeInv == TypeOK /\ ProgramInv

(* Before the reset and in it.                                              *)
PowerInv ==
    /\ cpu_state = "none" <=> started = "off"
    /\ started = "off" =>
           /\ Quiet /\ mem_state = 0 /\ ~mem_valid /\ ~last_mem_valid
           /\ ~mem_la_secondword /\ ~prefetched_high_word
           /\ ~decoder_trigger /\ ~decoder_pseudo_trigger /\ ~trap
           /\ ~latched_store /\ ~latched_branch /\ ~misaligned
           /\ irq_state = 0 /\ ~irq_active /\ ~resumed
    /\ started = "reset" =>
           /\ cpu_state = "fetch" /\ ~trap /\ Quiet /\ mem_state = 0 /\ ~mem_valid
           /\ ~mem_la_secondword /\ ~prefetched_high_word

(* What each state of the main state machine asks of the memory interface.  *)
RequestInv ==
    /\ cpu_state = "fetch" => ~mem_do_rdata /\ ~mem_do_wdata
    /\ cpu_state = "ld_rs1" =>
           /\ ~mem_do_rinst /\ ~mem_do_rdata /\ ~mem_do_wdata
           /\ mem_do_prefetch <=> insn1.kind \notin {"jalr", "retirq"}
    /\ cpu_state = "exec" =>
           /\ ~mem_do_rdata /\ ~mem_do_wdata
           /\ mem_do_prefetch <=> mem_do_rinst
           /\ mem_do_prefetch <=> Operation # "jalr"
    /\ cpu_state = "shift" =>
           mem_do_prefetch /\ ~mem_do_rinst /\ ~mem_do_rdata /\ ~mem_do_wdata
    /\ cpu_state = "ldmem" =>
           /\ ~mem_do_wdata
           /\ mem_do_prefetch <=> mem_do_rinst
           /\ mem_do_prefetch <=> ~mem_do_rdata
    /\ cpu_state = "stmem" =>
           /\ ~mem_do_rdata
           /\ mem_do_prefetch <=> mem_do_rinst
           /\ mem_do_prefetch <=> ~mem_do_wdata
    /\ cpu_state = "trap" =>
           /\ ~mem_do_rinst
           /\ ~(mem_do_prefetch /\ mem_do_rdata) /\ ~(mem_do_prefetch /\ mem_do_wdata)
           /\ ~(mem_do_rdata /\ mem_do_wdata)
    /\ trap => cpu_state = "trap"

(* The decoder triggers when a fetch has ended, and nothing is asked.       *)
TriggerInv ==
    /\ decoder_trigger => ~Fetching /\ cpu_state \in {"fetch", "stmem", "ldmem", "trap"}
    /\ decoder_pseudo_trigger =>
           /\ decoder_trigger /\ ~mem_do_rdata /\ ~mem_do_wdata
           /\ cpu_state \in {"fetch", "trap"}
    /\ do_waitirq => cpu_state = "fetch" /\ ~Fetching /\ insn1.kind = "waitirq"

(* The second step of the decoder follows the first.                        *)
DecoderInv ==
    /\ decoder_trigger /\ ~decoder_pseudo_trigger => mem_rdata_q = insn1.raw
    /\ Executing \/ decoder_pseudo_trigger \/ (Accessing /\ ~decoder_trigger) =>
           insn2 = insn1

(* An instruction that is executed has its registers.                       *)
LaunchInv ==
    /\ Executing =>
           /\ reg_pc = launched /\ insn1.raw.lo = launched
           /\ compressed_instr <=> ~Long(launched)
    /\ Mid =>
           /\ irq_state = 0 /\ ~latched_stalu /\ reg_next_pc = Following(launched)
           /\ latched_compr <=> ~Long(launched)

(* A branch that is taken leads the memory interface elsewhere while the    *)
(* prefetch is still under way; the other jumps find it idle.               *)
BranchInv ==
    /\ Mid /\ latched_branch =>
           /\ cpu_state = "exec" /\ alu_out_0 /\ latched_store
           /\ reg_out = Plus(launched, insn1.imm)
    /\ cpu_state \in {"ld_rs1", "stmem"} => ~latched_store
    /\ cpu_state = "exec" /\ ~latched_branch => ~latched_store
    /\ Mid /\ alu_out_0 => cpu_state = "exec" /\ Operation = "branch"
    /\ cpu_state = "fetch" /\ latched_branch =>
           /\ mem_state = 0 /\ ~mem_do_prefetch /\ ~decoder_trigger /\ ~do_waitirq
           /\ mem_do_rinst => ~latched_stalu

(* Entering the handler finds the memory interface idle.                    *)
EntryInv ==
    irq_state # 0 =>
        /\ cpu_state = "fetch" /\ ~latched_store /\ ~latched_branch
        /\ latched_rd = IF irq_state = 1 THEN q0 ELSE q1
        /\ mem_state = 0 /\ ~mem_do_prefetch /\ ~decoder_trigger /\ ~do_waitirq
        /\ mem_do_rinst <=> irq_state = 2

(* The access under way is the one that is asked for.                       *)
AccessInv ==
    ~trap =>
        /\ mem_valid => mem_state \in {1, 2}
        /\ last_mem_valid => mem_valid
        /\ mem_la_secondword => mem_state = 1 /\ mem_valid /\ mem_instr /\ mem_do_rinst
        /\ mem_do_rdata /\ last_mem_valid => ~mem_la_firstword_reg
        /\ mem_state = 1 =>
               /\ ~mem_wstrb /\ (Fetching \/ mem_do_rdata)
               /\ mem_instr <=> Fetching
               /\ mem_valid <=> ~(mem_la_firstword /\ prefetched_high_word /\ Sequential)
        /\ mem_state = 2 => mem_wstrb /\ mem_do_wdata /\ mem_valid
        /\ mem_state = 3 =>
               /\ ~mem_wstrb /\ mem_do_prefetch /\ ~mem_valid
               /\ Sequential /\ ~Odd(reg_next_pc)

(* A prefetch has begun when its instruction leaves cpu_state_ld_rs1, and   *)
(* nothing is under way that is not asked for.                              *)
BegunInv ==
    /\ cpu_state \in {"exec", "stmem", "ldmem"} /\ mem_do_prefetch /\ mem_state = 0 =>
           latched_branch
    /\ cpu_state = "fetch" /\ Decoded => mem_state = 0
    /\ Mid /\ ~mem_do_prefetch =>
           /\ mem_state # 3
           /\ ~mem_do_rdata => mem_state # 1
           /\ ~mem_do_wdata => mem_state # 2

(* The buffer has what comes next, before it is fetched and after.          *)
BufferInv ==
    /\ prefetched_high_word => ~clear_prefetched_high_word_q
    /\ ~trap /\ cpu_state # "trap" /\ ~Decoded /\ Sequential /\ Odd(reg_next_pc)
       /\ prefetched_high_word => mem_16bit_buffer = reg_next_pc
    /\ ~trap /\ mem_do_prefetch /\ Sequential /\ Odd(reg_next_pc)
       /\ ~mem_la_secondword => prefetched_high_word /\ ~mem_valid

(* What has been decoded is the instruction at reg_next_pc.                 *)
DecodedInv ==
    Decoded /\ cpu_state # "trap" =>
        /\ Sequential
        /\ insn1.raw.lo = reg_next_pc
        /\ Long(reg_next_pc) => insn1.raw.hi = Next1(reg_next_pc)
        /\ compressed_instr <=> ~Long(reg_next_pc)
        /\ insn1.kind = "waitirq" => Long(reg_next_pc)
        /\ Odd(Following(reg_next_pc)) => Buffered(Following(reg_next_pc))

(* What has been prefetched is the word at reg_next_pc.                     *)
PrefetchInv ==
    ~trap /\ mem_state = 3 =>
        /\ mem_rdata_q = [lo |-> reg_next_pc, hi |-> Next1(reg_next_pc)]
        /\ ~Long(reg_next_pc) => Buffered(Next1(reg_next_pc))

(* What is being fetched is the instruction at reg_next_pc, unless a branch *)
(* is being taken.                                                          *)
FetchInv ==
    /\ ~trap /\ mem_state = 1 /\ Fetching /\ mem_valid /\ ~latched_branch =>
           /\ mem_addr = IF mem_la_secondword THEN WordAfter(reg_next_pc)
                         ELSE WordOf(reg_next_pc)
           /\ last_mem_valid => (mem_la_firstword_reg <=> mem_la_firstword)
           /\ mem_la_secondword =>
                  /\ Odd(reg_next_pc) /\ Long(reg_next_pc)
                  /\ mem_16bit_buffer = reg_next_pc
    /\ cpu_state = "exec" /\ latched_branch /\ last_mem_valid /\ mem_la_firstword_reg
       /\ ~mem_la_secondword => Odd(reg_out)

(* Where the main state machine goes is where the program goes.             *)
OrderInv ==
    /\ irq_state = 1 => reg_next_pc = follows
    /\ irq_state = 2 => reg_next_pc = PROGADDR_IRQ /\ follows = PROGADDR_IRQ
    /\ Mid => follows = IF alu_out_0 THEN Plus(launched, insn1.imm) ELSE reg_next_pc
    /\ cpu_state = "fetch" /\ irq_state = 0 => follows = CurrentPc
    /\ started # "on" => follows = PROGADDR_RESET

WriteInv ==
    /\ Mid => latched_rd = launched \/ (cpu_state = "exec" /\ latched_rd = x0)
    /\ cpu_state = "fetch" /\ (latched_store \/ latched_branch) =>
           latched_rd \in {launched, x0}

(* Interrupts of the core's own are on their way to the handler, and the    *)
(* instruction that raised them can be found.                               *)
Trouble == irq_pending \cap {"ebreak", "buserror"}

InTrouble ==
    /\ cpu_state \in {"fetch", "stmem", "ldmem"}
    /\ Trouble \cap irq_mask = {}
    /\ irq_active <=> irq_state = 2
    /\ ~irq_active =>
           /\ ~irq_delay /\ reg_next_pc = Following(launched)
           /\ latched_compr <=> ~Long(launched)
    /\ cpu_state = "fetch" =>
           /\ ~latched_branch
           /\ \/ decoder_trigger \/ irq_state # 0
              \/ mem_do_prefetch /\ (compressed_instr <=> ~Long(launched))
    /\ irq_state = 2 =>
           /\ return_compr <=> ~Long(launched)
           /\ interrupted = Following(launched)

SavedInv ==
    /\ return_pc = interrupted
    /\ Trouble # {} => started = "on"
    /\ Trouble # {} /\ cpu_state # "trap" => InTrouble

IrqInv ==
    /\ resumed => started = "on" /\ irq_delay /\ cpu_state \in {"fetch", "trap"}
    /\ Mid => (irq_delay <=> irq_active)
    /\ irq_state = 1 => ~irq_active
    /\ irq_state = 2 => irq_active
    /\ irq_state # 0 => Unmasked # {}

(* A unit works only for an instruction that waits for it.                  *)
Mine(u) == pcpi_valid /\ insn2.kind = u

UnitInv ==
    /\ pcpi_valid => cpu_state = "ld_rs1" /\ started = "on" /\ Operation \in TrapKind
    /\ \A u \in Unit : started # "off" =>
           /\ unit[u].busy =>
                  Mine(u) /\ unit[u].instr /\ unit[u].wait /\ unit[u].wait_q
           /\ unit[u].ready =>
                  Mine(u) /\ unit[u].instr /\ unit[u].wait /\ unit[u].wait_q /\ ~unit[u].busy
           /\ unit[u].wait /\ ~unit[u].wait_q => Mine(u) /\ unit[u].instr
           /\ unit[u].instr /\ ~unit[u].wait => Mine(u)

(* An instruction of a unit waits two edges at most for the unit to stop    *)
(* the counter.                                                             *)
TimeoutInv ==
    cpu_state # "trap" =>
        /\ decoder_trigger => pcpi_timeout_counter = MaxTimeout
        /\ cpu_state = "ld_rs1" /\ ~pcpi_valid =>
               pcpi_timeout_counter = MaxTimeout /\ ~pcpi_timeout
        /\ \A u \in Unit : cpu_state = "ld_rs1" /\ Mine(u) =>
               /\ ~pcpi_timeout
               /\ pcpi_timeout_counter >= MaxTimeout - 2
               /\ ~unit[u].wait => pcpi_timeout_counter >= MaxTimeout - 1
               /\ ~unit[u].instr => pcpi_timeout_counter = MaxTimeout

ControlInv == TypeInv /\ PowerInv /\ RequestInv /\ TriggerInv /\ DecoderInv
              /\ LaunchInv /\ BranchInv /\ EntryInv
MemoryInv  == AccessInv /\ BegunInv /\ BufferInv /\ DecodedInv /\ PrefetchInv /\ FetchInv
CoreInv    == ControlInv /\ MemoryInv
HistoryInv == OrderInv /\ WriteInv /\ SavedInv /\ IrqInv
PcpiInv    == UnitInv /\ TimeoutInv
AllInv     == CoreInv /\ HistoryInv /\ PcpiInv

-----------------------------------------------------------------------------
(* Halfwords and words. *)

(* What the first numbers past a modulus leave. *)
LEMMA Wraps == \A m \in Nat : m >= 2 => m % m = 0 /\ (m + 1) % m = 1
<1> SUFFICES ASSUME NEW m \in Nat, m >= 2 PROVE m % m = 0 /\ (m + 1) % m = 1
  OBVIOUS
<1>1. m % m = 0  OBVIOUS
<1>2. (m + 1) % m = 1  OBVIOUS
<1> QED  BY <1>1, <1>2

(* The successors of a halfword are halfwords, and parity goes with them.   *)
LEMMA HalfFacts ==
    ASSUME NEW h \in Half
    PROVE  /\ Plus(h, 1) \in Half /\ Plus(h, 2) \in Half
           /\ Plus(Plus(h, 1), 1) = Plus(h, 2)
           /\ Odd(Plus(h, 1)) <=> ~Odd(h)
           /\ Odd(Plus(h, 2)) <=> Odd(h)
<1> DEFINE M == 2 * CodeWords
<1>1. CodeWords \in Nat /\ CodeWords > 0  BY CodeAssumption
<1>2. M \in Nat /\ M >= 2 /\ M % 2 = 0  BY <1>1
<1>3. h \in Nat /\ h < M  BY <1>1 DEF Half
<1>4. \A n \in Nat : n < M => n % M = n  BY <1>2
<1>5. \A n \in Nat : n >= M /\ n < 2 * M => n % M = n - M  BY <1>2
<1>6. (h + 1) % M = IF h + 1 < M THEN h + 1 ELSE 0
  <2>1. CASE h + 1 < M  BY <2>1, <1>3, <1>4
  <2>2. CASE h + 1 >= M  BY <2>2, <1>2, <1>3, <1>5
  <2> QED  BY <2>1, <2>2, <1>2, <1>3
<1>7. (h + 2) % M = IF h + 2 < M THEN h + 2 ELSE h + 2 - M
  <2>1. CASE h + 2 < M  BY <2>1, <1>3, <1>4
  <2>2. CASE h + 2 >= M
    <3>1. CASE M = 2  
      <4>1. h + 2 < 2 * M  BY <3>1, <1>3
      <4> QED  BY <4>1, <2>2, <1>2, <1>3, <1>5
    <3>2. CASE M > 2  BY <3>2, <2>2, <1>2, <1>3, <1>5
    <3> QED  BY <3>1, <3>2, <1>2
  <2> QED  BY <2>1, <2>2, <1>2, <1>3
<1>8. Plus(h, 1) = (h + 1) % M /\ Plus(h, 2) = (h + 2) % M /\ Half = 0 .. M - 1
  BY DEF Plus, Half
<1>9. Plus(h, 1) \in Half  BY <1>2, <1>3, <1>6, <1>8
<1>10. Plus(h, 2) \in Half  BY <1>2, <1>3, <1>7, <1>8
<1>11. Plus(Plus(h, 1), 1) = Plus(h, 2)
  <2>1. CASE h + 1 < M
    <3>1. Plus(h, 1) = h + 1  BY <2>1, <1>6, <1>8
    <3>2. Plus(h + 1, 1) = (h + 1 + 1) % M  BY DEF Plus
    <3>3. h + 1 + 1 = h + 2  BY <1>3
    <3> QED  BY <3>1, <3>2, <3>3, <1>8
  <2>2. CASE h + 1 >= M
    <3>1. h + 1 = M  BY <2>2, <1>2, <1>3
    <3>2. Plus(h, 1) = 0  BY <3>1, <1>2, <1>3, <1>6, <1>8
    <3>3. Plus(0, 1) = 1 % M  BY DEF Plus
    <3>4. 1 % M = 1  BY <1>2, <1>4
    <3>5. (h + 2) % M = 1  BY <3>1, <1>2, <1>3, <1>7
    <3> QED  BY <3>2, <3>3, <3>4, <3>5, <1>8
  <2> QED  BY <2>1, <2>2, <1>2, <1>3
<1>12. M = 2 * CodeWords  OBVIOUS
<1> HIDE DEF M
<1>13. Odd(Plus(h, 1)) <=> ~Odd(h)  BY <1>1, <1>2, <1>3, <1>6, <1>8, <1>12 DEF Odd
<1>14. Odd(Plus(h, 2)) <=> Odd(h)  BY <1>1, <1>2, <1>3, <1>7, <1>8, <1>12 DEF Odd
<1> QED  BY <1>9, <1>10, <1>11, <1>13, <1>14

(* A halfword is the low or the high one of its word, and the next one is   *)
(* beside it or in the next word.                                           *)
LEMMA WordFacts ==
    ASSUME NEW h \in Half
    PROVE  /\ WordOf(h) \in 0 .. CodeWords - 1 /\ WordAfter(h) \in 0 .. CodeWords - 1
           /\ (h \div 2 + 0) % CodeWords = WordOf(h)
           /\ ~Odd(h) => CodeWord(WordOf(h)) = [lo |-> h, hi |-> Plus(h, 1)]
           /\ Odd(h) => CodeWord(WordOf(h)).hi = h
           /\ Odd(h) => CodeWord(WordAfter(h)) = [lo |-> Plus(h, 1), hi |-> Plus(h, 2)]
<1> DEFINE M == 2 * CodeWords
<1> DEFINE w == h \div 2
<1>1. CodeWords \in Nat /\ CodeWords > 0  BY CodeAssumption
<1>2. h \in Nat /\ h < M  BY <1>1 DEF Half
<1>3. w \in Nat /\ w < CodeWords /\ (h = 2 * w \/ h = 2 * w + 1) /\ (Odd(h) <=> h = 2 * w + 1)
  BY <1>1, <1>2 DEF Odd
<1>4. Plus(h, 1) = (h + 1) % M /\ Plus(h, 2) = (h + 2) % M  BY DEF Plus
<1>5. \A n \in Nat : n < M => n % M = n  BY <1>1
<1>6. M % M = 0 /\ (M + 1) % M = 1
  <2>1. M \in Nat /\ M >= 2  BY <1>1
  <2> HIDE DEF M
  <2> QED  BY ONLY <2>1, Wraps
<1>7. w % CodeWords = w  BY <1>1, <1>3
<1>8. (w + 1) % CodeWords = IF w + 1 < CodeWords THEN w + 1 ELSE 0
  <2> HIDE DEF w
  <2>1. CASE w + 1 < CodeWords  BY <2>1, <1>1, <1>3
  <2>2. CASE w + 1 = CodeWords  BY <2>2, <1>1, <1>3
  <2> QED  BY <2>1, <2>2, <1>1, <1>3
<1>9. WordOf(h) = w /\ WordAfter(h) = (w + 1) % CodeWords /\ w + 0 = w
  BY <1>3 DEF WordOf, WordAfter
<1>10. M = 2 * CodeWords  OBVIOUS
<1> HIDE DEF w, M
<1>11. WordOf(h) \in 0 .. CodeWords - 1 /\ WordAfter(h) \in 0 .. CodeWords - 1
  BY <1>1, <1>3, <1>8, <1>9
<1>12. (h \div 2 + 0) % CodeWords = WordOf(h)  BY <1>7, <1>9 DEF w
<1>13. ASSUME ~Odd(h) PROVE CodeWord(WordOf(h)) = [lo |-> h, hi |-> Plus(h, 1)]
  <2>1. h = 2 * w /\ h + 1 < M  BY <1>13, <1>1, <1>3, <1>10
  <2>2. Plus(h, 1) = h + 1  BY <2>1, <1>2, <1>4, <1>5
  <2> QED  BY <2>1, <2>2, <1>9 DEF CodeWord
<1>14. ASSUME Odd(h) PROVE CodeWord(WordOf(h)).hi = h
  BY <1>14, <1>3, <1>9 DEF CodeWord
<1>15. ASSUME Odd(h)
       PROVE  CodeWord(WordAfter(h)) = [lo |-> Plus(h, 1), hi |-> Plus(h, 2)]
  <2>1. h = 2 * w + 1  BY <1>15, <1>3
  <2>2. CASE w + 1 < CodeWords
    <3>1. WordAfter(h) = w + 1  BY <2>2, <1>8, <1>9
    <3>2. h + 1 < M /\ h + 2 < M  BY <2>1, <2>2, <1>1, <1>3, <1>10
    <3>3. Plus(h, 1) = h + 1 /\ Plus(h, 2) = h + 2  BY <3>2, <1>2, <1>4, <1>5
    <3>4. h + 1 = 2 * (w + 1) /\ h + 2 = 2 * (w + 1) + 1  BY <2>1, <1>3
    <3> QED  BY <3>1, <3>3, <3>4 DEF CodeWord
  <2>3. CASE w + 1 = CodeWords
    <3>1. WordAfter(h) = 0  BY <2>3, <1>1, <1>3, <1>8, <1>9
    <3>2. h + 1 = M /\ h + 2 = M + 1  BY <2>1, <2>3, <1>1, <1>3, <1>10
    <3>3. Plus(h, 1) = 0 /\ Plus(h, 2) = 1  BY <3>2, <1>4, <1>6
    <3> QED  BY <3>1, <3>3 DEF CodeWord
  <2> QED  BY <2>2, <2>3, <1>1, <1>3
<1> QED  BY <1>11, <1>12, <1>13, <1>14, <1>15

(* Offsets lead to halfwords. *)
LEMMA PlusType == \A a, b \in Half : Plus(a, b) \in Half
<1> SUFFICES ASSUME NEW a \in Half, NEW b \in Half PROVE Plus(a, b) \in Half
  OBVIOUS
<1> DEFINE M == 2 * CodeWords
<1>1. M \in Nat /\ M > 0  BY CodeAssumption
<1>2. a \in Nat /\ b \in Nat  BY CodeAssumption DEF Half
<1> HIDE DEF M
<1>3. (a + b) % M \in 0 .. M - 1  BY <1>1, <1>2
<1> QED  BY <1>3 DEF Plus, Half, M

(* No halfword of code is one that is not driven. *)
LEMMA Apart ==
    /\ \A h \in Half : h \notin Junk /\ h \notin {x0, q0, q1}
    /\ \A j \in Junk : j \notin {x0, q0, q1}
    /\ 0 \in Half /\ 1 \in Half
    /\ PROGADDR_RESET \in Half /\ PROGADDR_IRQ \in Half
  BY CodeAssumption, CoreAssumption DEF Half, Junk, x0, q0, q1

-----------------------------------------------------------------------------
(* What an edge does to the memory interface while the main state machine   *)
(* is at work: nothing, the beginning of an access, a wait, a second word,  *)
(* or an end.                                                               *)

(* What the ports can have at an edge. *)
LEMMA InputFacts ==
    ASSUME TypeInv, NEW in \in Inputs
    PROVE  /\ in.resetn \in BOOLEAN /\ in.ready \in BOOLEAN
           /\ started = "on" => in.resetn
           /\ in.ready => mem_valid
           /\ in.rdata \in Fetched
           /\ mem_valid /\ mem_instr => in.rdata = CodeWord(mem_addr)
           /\ in.irq \subseteq IrqLine \ {"ebreak", "buserror"}
<1>1. CodeWords \in Nat /\ CodeWords > 0  BY CodeAssumption
<1>2. \A a \in 0 .. CodeWords - 1 : CodeWord(a) \in Fetched
  BY <1>1 DEF CodeWord, Fetched, Half
<1>3. \A j \in Junk : JunkWord(j) \in Fetched  BY DEF JunkWord, Fetched
<1>4. in.resetn \in BOOLEAN /\ (started = "on" => in.resetn)  BY DEF Inputs
<1>5. in.ready \in BOOLEAN /\ (in.ready => mem_valid)  BY DEF Inputs
<1>6. mem_valid /\ mem_instr => in.rdata = CodeWord(mem_addr)  BY DEF Inputs
<1>7. ~(mem_valid /\ mem_instr) => in.rdata \in {JunkWord(j) : j \in Junk}  BY DEF Inputs
<1>8. in.rdata \in Fetched
  BY <1>2, <1>3, <1>6, <1>7 DEF TypeInv, ProgramInv
<1>9. in.irq \subseteq lines  BY DEF Inputs
<1>10. in.irq \subseteq IrqLine \ {"ebreak", "buserror"}
  BY <1>9 DEF TypeInv, ProgramInv
<1> QED  BY <1>4, <1>5, <1>6, <1>8, <1>10

(* What the memory interface hands to the decoder is two halfwords. *)
LEMMA LatchedType ==
    ASSUME TypeInv, NEW in \in Inputs PROVE mem_rdata_latched(in) \in Fetched
<1>1. mem_16bit_buffer \in Half \cup Junk /\ mem_rdata_q \in Fetched /\ X \in Half \cup Junk
  BY DEF TypeInv, TypeOK, X, Junk
<1>2. in.rdata \in Fetched  BY InputFacts
<1> QED  BY <1>1, <1>2 DEF mem_rdata_latched, Fetched

KeepsBuffer(in) ==
    /\ mem_16bit_buffer' = mem_16bit_buffer
    /\ prefetched_high_word' <=> prefetched_high_word /\ ~clear_prefetched_high_word(in)

Idle(in) ==
    /\ mem_state = 0 /\ Quiet /\ ~mem_done(in)
    /\ mem_state' = 0 /\ ~mem_valid' /\ ~last_mem_valid' /\ ~mem_la_secondword'
    /\ mem_rdata_q' = mem_rdata_q
    /\ KeepsBuffer(in)

Begin(in) ==
    /\ mem_state = 0 /\ ~mem_done(in)
    /\ ~last_mem_valid' /\ ~mem_la_secondword'
    /\ KeepsBuffer(in)

BeginFetch(in) ==
    /\ Begin(in) /\ Fetching /\ ~mem_do_rdata /\ ~mem_do_wdata
    /\ mem_state' = 1 /\ mem_instr' /\ ~mem_wstrb'
    /\ mem_valid' <=> ~mem_la_use_prefetched_high_word(in)
    /\ mem_valid' => mem_addr' = WordOf(next_pc)

BeginLoad(in) ==
    /\ Begin(in) /\ ~Fetching /\ mem_do_rdata /\ ~mem_do_wdata
    /\ mem_state' = 1 /\ mem_valid' /\ ~mem_instr' /\ ~mem_wstrb'

BeginStore(in) ==
    /\ Begin(in) /\ ~Fetching /\ mem_do_wdata /\ ~mem_do_rdata
    /\ mem_state' = 2 /\ mem_valid' /\ ~mem_instr' /\ mem_wstrb'

OnGoing(in) ==
    /\ mem_state # 0 /\ ~mem_done(in)
    /\ UNCHANGED <<mem_valid, mem_instr, mem_wstrb, mem_addr, mem_state,
                   mem_la_secondword, mem_rdata_q>>
    /\ mem_state = 3 => ~mem_do_rinst
    /\ mem_do_rinst => ~mem_la_use_prefetched_high_word(in)
    /\ last_mem_valid' <=> mem_valid
    /\ mem_la_firstword_reg' <=> FirstwordOfXfer
    /\ KeepsBuffer(in)

BeginSecond(in) ==
    /\ mem_state = 1 /\ mem_do_rinst /\ ~mem_do_rdata /\ ~mem_do_wdata
    /\ ~mem_la_secondword /\ Odd(next_pc) /\ ~mem_done(in)
    /\ mem_state' = 1 /\ mem_valid' /\ mem_instr' /\ ~mem_wstrb'
    /\ mem_la_secondword' /\ ~last_mem_valid'
    /\ mem_addr' = WordAfter(next_pc)
    /\ Sequential => mem_16bit_buffer' = reg_next_pc /\ Long(reg_next_pc)
    /\ prefetched_high_word' <=> prefetched_high_word /\ ~clear_prefetched_high_word(in)

EndAccess(in) ==
    /\ ~mem_valid' /\ ~last_mem_valid' /\ ~mem_la_secondword'

EndPrefetch(in) ==
    /\ EndAccess(in) /\ ~mem_done(in)
    /\ mem_state = 1 /\ mem_do_prefetch /\ ~mem_do_rinst
    /\ Sequential /\ ~Odd(reg_next_pc)
    /\ mem_state' = 3 /\ ~mem_wstrb'
    /\ mem_rdata_q' = [lo |-> reg_next_pc, hi |-> Next1(reg_next_pc)]
    /\ ~Long(reg_next_pc) => prefetched_high_word'
                             /\ mem_16bit_buffer' = Next1(reg_next_pc)

(* The whole instruction at reg_next_pc is there. *)
HasInstruction(in) ==
    /\ mem_done(in)
    /\ mem_rdata_latched(in) \in Fetched
    /\ mem_rdata_latched(in).lo = reg_next_pc
    /\ Long(reg_next_pc) => mem_rdata_latched(in).hi = Next1(reg_next_pc)
    /\ mem_rdata_q' = mem_rdata_latched(in)
    /\ Odd(Following(reg_next_pc)) =>
           prefetched_high_word' /\ mem_16bit_buffer' = Following(reg_next_pc)

EndFetch(in) ==
    /\ EndAccess(in) /\ mem_do_rinst
    /\ mem_state # 0 /\ mem_state' = 0
    /\ mem_rdata_latched(in) \in Fetched
    /\ ~latched_branch => HasInstruction(in)

EndData(in) ==
    /\ EndAccess(in) /\ mem_done(in) /\ ~Fetching
    /\ mem_state # 0 /\ mem_state' = 0
    /\ KeepsBuffer(in)

MemStep(in) ==
    \/ Idle(in) \/ BeginFetch(in) \/ BeginLoad(in) \/ BeginStore(in) \/ OnGoing(in)
    \/ BeginSecond(in) \/ EndPrefetch(in) \/ EndFetch(in) \/ EndData(in)

AtWork(in) == in.resetn /\ cpu_state \notin {"none", "trap"}

(* Control facts the memory interface relies on. *)
LEMMA AtWorkFacts ==
    ASSUME CoreInv, NEW in \in Inputs, AtWork(in)
    PROVE  /\ ~trap
           /\ mem_do_rdata => ~Fetching /\ ~mem_do_wdata
           /\ mem_do_wdata => ~Fetching
           /\ mem_do_prefetch /\ ~mem_do_rinst => Sequential
           /\ mem_state # 0 => irq_state = 0
           /\ latched_branch /\ mem_state # 0 => cpu_state = "exec" /\ mem_do_prefetch /\ mem_do_rinst
<1> USE DEF CoreInv, ControlInv, MemoryInv
<1> USE DEF AtWork, Fetching
<1>1. cpu_state \in {"fetch", "ld_rs1", "exec", "shift", "stmem", "ldmem"}
  BY DEF TypeInv, TypeOK
<1>2. ~trap  BY DEF RequestInv
<1>3. mem_do_rdata => ~Fetching /\ ~mem_do_wdata  BY <1>1 DEF RequestInv
<1>4. mem_do_wdata => ~Fetching  BY <1>1 DEF RequestInv
<1>5. mem_state # 0 => irq_state = 0  BY DEF EntryInv
<1>6. latched_branch /\ mem_state # 0 => cpu_state = "exec"
  BY <1>1 DEF BranchInv, Mid
<1>7. cpu_state = "exec" /\ latched_branch => Operation = "branch"
  BY DEF BranchInv, Mid
<1>8. cpu_state = "exec" /\ latched_branch => mem_do_prefetch /\ mem_do_rinst
  BY <1>7 DEF RequestInv
<1>9. mem_do_prefetch /\ ~mem_do_rinst => Sequential
  <2>1. SUFFICES ASSUME mem_do_prefetch, ~mem_do_rinst PROVE Sequential  OBVIOUS
  <2>2. cpu_state \in {"fetch", "ld_rs1", "shift"}  BY <2>1, <1>1 DEF RequestInv
  <2>3. ~latched_branch  BY <2>1, <2>2 DEF BranchInv, Mid
  <2>4. irq_state = 0  BY <2>1 DEF EntryInv
  <2> QED  BY <2>3, <2>4 DEF Sequential
<1> QED  BY <1>2, <1>3, <1>4, <1>5, <1>6, <1>8, <1>9

(* An edge is one of these. *)
LEMMA MemCases ==
    ASSUME CoreInv, NEW in \in Inputs, AtWork(in), MemEdge(in)
    PROVE  MemStep(in)
<1>1. TypeInv /\ AccessInv /\ BegunInv /\ BufferInv /\ PrefetchInv /\ FetchInv
  BY DEF CoreInv, ControlInv, MemoryInv
<1>26. AtWork(in) /\ RequestInv /\ TriggerInv /\ BranchInv
  BY DEF CoreInv, ControlInv
<1>2. /\ ~trap
      /\ mem_do_rdata => ~Fetching /\ ~mem_do_wdata
      /\ mem_do_wdata => ~Fetching
      /\ mem_do_prefetch /\ ~mem_do_rinst => Sequential
      /\ mem_state # 0 => irq_state = 0
      /\ latched_branch /\ mem_state # 0 =>
             cpu_state = "exec" /\ mem_do_prefetch /\ mem_do_rinst
  BY AtWorkFacts
<1>3. in.resetn  BY DEF AtWork
<1>4. /\ Address(in)
      /\ \/ Sleep(in) \/ StartRead(in) \/ StartWrite(in) \/ Wait(in)
         \/ AskSecondWord(in) \/ EndRead(in) \/ EndWrite(in) \/ UsePrefetch(in)
      /\ mem_la_firstword_reg' = FirstwordOfXfer
      /\ last_mem_valid' = (mem_valid /\ ~in.ready)
      /\ mem_rdata_q' = IF mem_xfer(in) THEN mem_rdata_latched(in) ELSE mem_rdata_q
  BY <1>2, <1>3 DEF MemEdge
<1>5. /\ in.ready => mem_valid
      /\ in.rdata \in Fetched
      /\ mem_valid /\ mem_instr => in.rdata = CodeWord(mem_addr)
  BY <1>1, InputFacts
<1>6. next_pc \in Half /\ (Sequential => next_pc = reg_next_pc) /\ reg_next_pc \in Half
  BY <1>1 DEF TypeInv, TypeOK, next_pc, Sequential
<1>7. (~latched_branch => next_pc = reg_next_pc) /\ (mem_state # 0 /\ ~latched_branch => Sequential)
  BY <1>2 DEF next_pc, Sequential
<1>8. mem_rdata_latched(in) \in Fetched  BY <1>1, LatchedType
<1>9. /\ mem_state \in 0 .. 3
      /\ mem_valid \in BOOLEAN /\ mem_instr \in BOOLEAN /\ mem_wstrb \in BOOLEAN
  BY <1>1 DEF TypeInv, TypeOK
(* How a transfer comes about.                                              *)
<1>10. mem_xfer(in) /\ ~mem_la_use_prefetched_high_word(in) => mem_valid /\ in.ready
  BY DEF mem_xfer
<1>11. mem_la_use_prefetched_high_word(in) =>
           /\ mem_la_firstword /\ prefetched_high_word /\ Sequential
           /\ Fetching /\ Odd(next_pc) /\ ~mem_la_secondword
  BY DEF mem_la_use_prefetched_high_word, clear_prefetched_high_word, mem_la_firstword,
         Sequential, Odd
<1>12. mem_valid /\ ~in.ready => ~mem_xfer(in)
  <2>1. SUFFICES ASSUME mem_valid, ~in.ready, mem_xfer(in) PROVE FALSE  OBVIOUS
  <2>2. mem_la_use_prefetched_high_word(in)  BY <2>1, <1>10
  <2>3. mem_state = 1  BY <2>1, <2>2, <1>1, <1>2, <1>11, <1>9 DEF AccessInv
  <2> QED  BY <2>1, <2>2, <2>3, <1>1, <1>2, <1>11 DEF AccessInv
<1>13. mem_xfer(in) => ~last_mem_valid'  BY <1>4, <1>12
<1>14. mem_state = 0 => ~mem_done(in) /\ ~last_mem_valid' /\ ~mem_valid /\ ~mem_la_secondword
                        /\ (mem_xfer(in) => mem_la_use_prefetched_high_word(in))
  <2>1. SUFFICES ASSUME mem_state = 0
                 PROVE  /\ ~mem_done(in) /\ ~last_mem_valid' /\ ~mem_valid /\ ~mem_la_secondword
                        /\ (mem_xfer(in) => mem_la_use_prefetched_high_word(in))
    OBVIOUS
  <2>2. ~mem_done(in)  BY <2>1 DEF mem_done
  <2>3. ~mem_valid /\ ~mem_la_secondword  BY <2>1, <1>1, <1>2 DEF AccessInv
  <2>4. ~last_mem_valid'  BY <2>3, <1>4
  <2>5. mem_xfer(in) => mem_la_use_prefetched_high_word(in)  BY <2>3, <1>10
  <2> QED  BY <2>2, <2>3, <2>4, <2>5
<1>15. mem_la_firstword <=> Fetching /\ Odd(next_pc) /\ ~mem_la_secondword
  BY DEF mem_la_firstword, Odd
<1>16. /\ mem_la_read(in) <=>
             \/ mem_state = 0 /\ (Fetching \/ mem_do_rdata)
                /\ ~mem_la_use_prefetched_high_word(in)
             \/ NeedsSecondWord(in)
       /\ mem_la_write(in) <=> mem_state = 0 /\ mem_do_wdata
  BY <1>3 DEF mem_la_read, mem_la_write
<1>17. mem_state # 0 => ~mem_la_write(in) /\ (mem_la_read(in) <=> NeedsSecondWord(in))
  BY <1>16
<1>18. ~mem_la_read(in) /\ ~mem_la_write(in) /\ mem_state # 0 =>
           mem_addr' = mem_addr /\ mem_wstrb' = mem_wstrb
  BY <1>4, <1>9 DEF Address
<1>19. prefetched_high_word => ~clear_prefetched_high_word_q  BY <1>1 DEF BufferInv
<1>20. Sequential => ~clear_prefetched_high_word(in)
  BY <1>3, <1>19 DEF clear_prefetched_high_word, Sequential
<1>21. KeepPrefetched(in) => 
           (prefetched_high_word' <=> prefetched_high_word /\ ~clear_prefetched_high_word(in))
  BY DEF KeepPrefetched, SetPrefetched
(* What is read for a fetch, where no branch is being taken.                *)
<1>22. ASSUME mem_xfer(in), mem_state = 1, Fetching
       PROVE  /\ mem_valid /\ ~mem_la_use_prefetched_high_word(in) =>
                     in.ready /\ mem_instr /\ in.rdata = CodeWord(mem_addr)
              /\ mem_la_use_prefetched_high_word(in) <=> ~mem_valid
  <2>1. mem_instr  BY <1>22, <1>1, <1>2 DEF AccessInv
  <2>2. mem_la_use_prefetched_high_word(in) => ~mem_valid
    BY <1>22, <1>1, <1>2, <1>11 DEF AccessInv
  <2> QED  BY <2>1, <2>2, <1>5, <1>10, <1>22
<1>23. ASSUME mem_xfer(in), mem_state = 1, Fetching, ~latched_branch,
              mem_la_use_prefetched_high_word(in)
       PROVE  /\ mem_do_rinst /\ Odd(reg_next_pc) /\ ~mem_la_secondword
              /\ mem_rdata_latched(in) = [lo |-> reg_next_pc, hi |-> X]
              /\ mem_16bit_buffer = reg_next_pc
              /\ FirstwordOfXfer
  <2>1. ~mem_valid  BY <1>22, <1>23
  <2>2. mem_do_rinst  BY <2>1, <1>23 DEF mem_xfer
  <2>3. Odd(reg_next_pc) /\ ~mem_la_secondword /\ Sequential /\ prefetched_high_word /\ mem_la_firstword
    BY <1>6, <1>11, <1>23
  <2>4. ~Decoded /\ cpu_state # "trap"
    BY <2>2, <1>26 DEF AtWork, Decoded, Accessing, TriggerInv, RequestInv, Fetching
  <2>5. mem_16bit_buffer = reg_next_pc  BY <2>3, <2>4, <1>1, <1>2 DEF BufferInv
  <2>6. mem_rdata_latched(in) = [lo |-> reg_next_pc, hi |-> X]
    BY <2>5, <1>23 DEF mem_rdata_latched
  <2>7. FirstwordOfXfer  BY <2>1, <2>3, <1>1, <1>2 DEF FirstwordOfXfer, AccessInv
  <2> QED  BY <2>2, <2>3, <2>5, <2>6, <2>7
<1>24. ASSUME mem_xfer(in), mem_state = 1, Fetching, ~latched_branch,
              ~mem_la_use_prefetched_high_word(in)
       PROVE  /\ Sequential
              /\ mem_la_secondword =>
                     /\ mem_do_rinst /\ Odd(reg_next_pc) /\ Long(reg_next_pc)
                     /\ in.rdata = [lo |-> Plus(reg_next_pc, 1), hi |-> Plus(reg_next_pc, 2)]
                     /\ mem_rdata_latched(in) = [lo |-> reg_next_pc, hi |-> Plus(reg_next_pc, 1)]
              /\ ~mem_la_secondword /\ Odd(reg_next_pc) =>
                     /\ mem_do_rinst
                     /\ in.rdata.hi = reg_next_pc
                     /\ mem_rdata_latched(in) = [lo |-> reg_next_pc, hi |-> X]
                     /\ FirstwordOfXfer
              /\ ~mem_la_secondword /\ ~Odd(reg_next_pc) =>
                     /\ in.rdata = [lo |-> reg_next_pc, hi |-> Plus(reg_next_pc, 1)]
                     /\ mem_rdata_latched(in) = in.rdata
                     /\ ~FirstwordOfXfer
  <2>1. mem_valid /\ in.ready /\ in.rdata = CodeWord(mem_addr)  BY <1>22, <1>24
  <2>2. Sequential /\ next_pc = reg_next_pc  BY <1>6, <1>7, <1>24
  <2>3. /\ mem_addr = IF mem_la_secondword THEN WordAfter(reg_next_pc)
                      ELSE WordOf(reg_next_pc)
        /\ last_mem_valid => (mem_la_firstword_reg <=> mem_la_firstword)
        /\ mem_la_secondword =>
               /\ Odd(reg_next_pc) /\ Long(reg_next_pc)
               /\ mem_16bit_buffer = reg_next_pc
    BY <2>1, <1>1, <1>2, <1>24 DEF FetchInv
  <2>4. FirstwordOfXfer <=> mem_la_firstword  BY <2>3 DEF FirstwordOfXfer
  <2>5. ASSUME mem_la_secondword
        PROVE  /\ mem_do_rinst /\ Odd(reg_next_pc) /\ Long(reg_next_pc)
               /\ in.rdata = [lo |-> Plus(reg_next_pc, 1), hi |-> Plus(reg_next_pc, 2)]
               /\ mem_rdata_latched(in) = [lo |-> reg_next_pc, hi |-> Plus(reg_next_pc, 1)]
    <3>1. mem_do_rinst  BY <2>5, <1>1, <1>2 DEF AccessInv
    <3>2. in.rdata = [lo |-> Plus(reg_next_pc, 1), hi |-> Plus(reg_next_pc, 2)]
      BY <2>1, <2>3, <2>5, <1>6, WordFacts
    <3>3. mem_rdata_latched(in) = [lo |-> reg_next_pc, hi |-> Plus(reg_next_pc, 1)]
      BY <3>2, <2>3, <2>5, <1>24 DEF mem_rdata_latched
    <3> QED  BY <3>1, <3>2, <3>3, <2>3, <2>5
  <2>6. ASSUME ~mem_la_secondword, Odd(reg_next_pc)
        PROVE  /\ mem_do_rinst
               /\ in.rdata.hi = reg_next_pc
               /\ mem_rdata_latched(in) = [lo |-> reg_next_pc, hi |-> X]
               /\ FirstwordOfXfer
    <3>1. mem_do_rinst
      BY <2>1, <2>2, <2>6, <1>1, <1>2, <1>24 DEF BufferInv, Fetching
    <3>2. mem_la_firstword  BY <2>2, <2>6, <1>15, <1>24
    <3>3. in.rdata.hi = reg_next_pc  BY <2>1, <2>3, <2>6, <1>6, WordFacts
    <3>4. mem_rdata_latched(in) = [lo |-> reg_next_pc, hi |-> X]
      BY <3>2, <3>3, <2>6, <1>24 DEF mem_rdata_latched
    <3> QED  BY <3>1, <3>2, <3>3, <3>4, <2>4
  <2>7. ASSUME ~mem_la_secondword, ~Odd(reg_next_pc)
        PROVE  /\ in.rdata = [lo |-> reg_next_pc, hi |-> Plus(reg_next_pc, 1)]
               /\ mem_rdata_latched(in) = in.rdata
               /\ ~FirstwordOfXfer
    <3>1. ~mem_la_firstword  BY <2>2, <2>7, <1>15
    <3>2. in.rdata = [lo |-> reg_next_pc, hi |-> Plus(reg_next_pc, 1)]
      BY <2>1, <2>3, <2>7, <1>6, WordFacts
    <3>3. mem_rdata_latched(in) = in.rdata
      BY <3>1, <2>7, <1>24 DEF mem_rdata_latched
    <3> QED  BY <3>1, <3>2, <3>3, <2>4
  <2> QED  BY <2>2, <2>5, <2>6, <2>7
(* A second word is asked for only by an instruction at the end of a word.  *)
<1>25. ASSUME mem_xfer(in), mem_state = 1, FirstwordOfXfer, ~mem_la_secondword
       PROVE  mem_do_rinst /\ Odd(next_pc) /\ mem_la_firstword
  <2>1. ~mem_do_rdata \/ mem_la_firstword
    BY <1>1, <1>2, <1>25 DEF AccessInv, FirstwordOfXfer
  <2>2. Fetching  BY <2>1, <1>1, <1>2, <1>15, <1>25 DEF AccessInv
  <2>3. CASE latched_branch
    <3>1. cpu_state = "exec" /\ mem_do_rinst  BY <2>3, <1>2, <1>25
    <3>2. next_pc = reg_out
      BY <2>3, <3>1, <1>26 DEF BranchInv, Mid, next_pc
    <3>3. Odd(next_pc)
      BY <2>3, <3>1, <3>2, <1>1, <1>15, <1>25 DEF FetchInv, FirstwordOfXfer
    <3> QED  BY <3>1, <3>3, <2>2, <1>15, <1>25
  <2>4. CASE ~latched_branch
    <3>1. next_pc = reg_next_pc  BY <2>4, <1>7
    <3>2. mem_do_rinst /\ Odd(reg_next_pc)
      BY <2>2, <2>4, <1>23, <1>24, <1>25
    <3> QED  BY <3>1, <3>2, <2>2, <1>15, <1>25
  <2> QED  BY <2>3, <2>4
<1>a. CASE Sleep(in)
  <2>1. mem_state = 0 /\ Quiet  BY <1>a DEF Sleep, Quiet
  <2>2. ~mem_xfer(in)  BY <2>1, <1>14, <1>11 DEF Quiet
  <2>3. Idle(in)
    BY <1>a, <2>1, <2>2, <1>4, <1>14, <1>21 DEF Sleep, Idle, KeepsBuffer
  <2> QED  BY <2>3 DEF MemStep
<1>b. CASE StartRead(in)
  <2>1. mem_state = 0 /\ ~mem_do_wdata  BY <1>b DEF StartRead
  <2>2. Begin(in)
    BY <1>b, <2>1, <1>14, <1>21 DEF StartRead, Begin, KeepsBuffer
  <2>3. ~mem_wstrb'
    BY <1>b, <2>1, <1>4, <1>16 DEF StartRead, Address
  <2>4. CASE Fetching
    <3>1. mem_valid' <=> ~mem_la_use_prefetched_high_word(in)  BY <1>b DEF StartRead
    <3>2. ASSUME ~mem_la_use_prefetched_high_word(in) PROVE mem_addr' = WordOf(next_pc)
      <4>1. ~mem_xfer(in)  BY <3>2, <2>1, <1>14
      <4>2. mem_la_read(in)  BY <3>2, <2>1, <2>4, <1>16
      <4>3. mem_la_addr(in) = (next_pc \div 2 + 0) % CodeWords
        BY <4>1, <2>4 DEF mem_la_addr
      <4>4. mem_la_addr(in) = WordOf(next_pc)  BY <4>3, <1>6, WordFacts
      <4> QED  BY <4>2, <4>4, <1>4 DEF Address
    <3>3. BeginFetch(in)
      BY <1>b, <2>1, <2>2, <2>3, <2>4, <3>1, <3>2, <1>2 DEF StartRead, BeginFetch
    <3> QED  BY <3>3 DEF MemStep
  <2>5. CASE ~Fetching
    <3>1. ~mem_la_use_prefetched_high_word(in)  BY <2>5, <1>11
    <3>2. BeginLoad(in)
      BY <1>b, <2>1, <2>2, <2>3, <2>5, <3>1 DEF StartRead, BeginLoad
    <3> QED  BY <3>2 DEF MemStep
  <2> QED  BY <2>4, <2>5
<1>c. CASE StartWrite(in)
  <2>1. mem_state = 0 /\ mem_do_wdata  BY <1>c DEF StartWrite
  <2>2. Begin(in)
    BY <1>c, <2>1, <1>14, <1>21 DEF StartWrite, Begin, KeepsBuffer
  <2>3. mem_wstrb'  BY <2>1, <1>4, <1>16 DEF Address
  <2>4. BeginStore(in)
    BY <1>c, <2>1, <2>2, <2>3, <1>2 DEF StartWrite, BeginStore
  <2> QED  BY <2>4 DEF MemStep
<1>d. CASE Wait(in)
  <2>1. ~mem_xfer(in)
    BY <1>d, <1>1, <1>2 DEF Wait, mem_xfer, AccessInv
  <2>2. mem_state # 0 /\ (mem_state = 3 => ~mem_do_rinst)  BY <1>d DEF Wait
  <2>3. ~mem_done(in)  BY <2>1, <2>2 DEF mem_done
  <2>4. ~mem_la_read(in) /\ ~mem_la_write(in)
    BY <2>1, <2>2, <1>17 DEF NeedsSecondWord
  <2>5. mem_addr' = mem_addr /\ mem_wstrb' = mem_wstrb  BY <2>2, <2>4, <1>18
  <2>6. mem_rdata_q' = mem_rdata_q  BY <2>1, <1>4
  <2>7. last_mem_valid' <=> mem_valid  BY <2>1, <1>4 DEF mem_xfer
  <2>8. mem_do_rinst => ~mem_la_use_prefetched_high_word(in)  BY <2>1 DEF mem_xfer
  <2>9. KeepsBuffer(in)  BY <1>d, <1>21 DEF Wait, KeepsBuffer
  <2>10. OnGoing(in)
    BY <1>d, <2>2, <2>3, <2>5, <2>6, <2>7, <2>8, <2>9, <1>4 DEF Wait, OnGoing
  <2> QED  BY <2>10 DEF MemStep
<1>e. CASE AskSecondWord(in)
  <2>1. mem_state = 1 /\ mem_xfer(in) /\ mem_la_read(in)  BY <1>e DEF AskSecondWord
  <2>2. FirstwordOfXfer /\ ~mem_la_secondword /\ Long(mem_rdata_latched(in).lo)
    BY <2>1, <1>17 DEF NeedsSecondWord
  <2>3. mem_do_rinst /\ Odd(next_pc) /\ mem_la_firstword  BY <2>1, <2>2, <1>25
  <2>4. Fetching /\ ~mem_do_rdata /\ ~mem_do_wdata  BY <2>3, <1>2 DEF Fetching
  <2>5. ~mem_done(in)  BY <2>2, <2>3 DEF mem_done
  <2>6. mem_instr' /\ mem_valid' /\ mem_state' = 1 /\ mem_la_secondword'
    BY <1>e, <2>1, <2>4, <1>1, <1>2 DEF AskSecondWord, AccessInv
  <2>7. mem_addr' = WordAfter(next_pc) /\ ~mem_wstrb'
    <3>1. mem_la_addr(in) = WordAfter(next_pc)
      BY <2>1, <2>2, <2>4 DEF mem_la_addr, WordAfter
    <3> QED  BY <3>1, <2>1, <1>4, <1>17 DEF Address
  <2>8. Sequential => mem_16bit_buffer' = reg_next_pc /\ Long(reg_next_pc)
    <3>1. SUFFICES ASSUME Sequential PROVE mem_16bit_buffer' = reg_next_pc /\ Long(reg_next_pc)
      OBVIOUS
    <3>2. ~latched_branch /\ Odd(reg_next_pc)  BY <3>1, <2>3, <1>6 DEF Sequential
    <3>3. CASE mem_la_use_prefetched_high_word(in)
      BY <1>e, <3>2, <3>3, <2>1, <2>2, <2>4, <1>23 DEF AskSecondWord
    <3>4. CASE ~mem_la_use_prefetched_high_word(in)
      BY <1>e, <3>2, <3>4, <2>1, <2>2, <2>4, <1>24 DEF AskSecondWord
    <3> QED  BY <3>3, <3>4
  <2>9. BeginSecond(in)
    BY <1>e, <2>1, <2>2, <2>3, <2>4, <2>5, <2>6, <2>7, <2>8, <1>13, <1>21
    DEF AskSecondWord, BeginSecond
  <2> QED  BY <2>9 DEF MemStep
<1>f. CASE EndRead(in)
  <2>1. mem_state = 1 /\ mem_xfer(in) /\ ~NeedsSecondWord(in)  BY <1>f, <1>17 DEF EndRead
  <2>2. EndAccess(in)  BY <1>f, <2>1, <1>13 DEF EndRead, EndAccess
  <2>3. CASE mem_do_rdata
    <3>1. ~Fetching  BY <2>3, <1>2
    <3>2. mem_done(in)  BY <2>1, <2>3, <3>1, <1>3, <1>15 DEF mem_done
    <3>3. EndData(in)
      BY <1>f, <2>1, <2>2, <2>3, <3>1, <3>2, <1>21 DEF EndRead, EndData, KeepsBuffer
    <3> QED  BY <3>3 DEF MemStep
  <2>4. CASE ~mem_do_rdata
    <3>1. Fetching  BY <2>1, <2>4, <1>1, <1>2 DEF AccessInv
    <3>2. mem_rdata_q' = mem_rdata_latched(in)  BY <2>1, <1>4
    <3>3. ~mem_wstrb'
      BY <2>1, <1>1, <1>2, <1>17, <1>18 DEF AccessInv
    <3>4. Sequential /\ HighHalfIsNext(in) =>
              prefetched_high_word' /\ mem_16bit_buffer' = in.rdata.hi
      BY <1>f, <2>4, <1>20 DEF EndRead, SetPrefetched
    (* What comes with the end of a word.                                   *)
    <3>5. ASSUME ~latched_branch
          PROVE  /\ mem_rdata_latched(in).lo = reg_next_pc
                 /\ Long(reg_next_pc) => mem_rdata_latched(in).hi = Next1(reg_next_pc)
                 /\ Odd(Following(reg_next_pc)) =>
                        prefetched_high_word' /\ mem_16bit_buffer' = Following(reg_next_pc)
                 /\ mem_la_firstword => ~Long(mem_rdata_latched(in).lo)
      <4>1. next_pc = reg_next_pc  BY <3>5, <1>7, <2>1
      <4>2. CASE mem_la_use_prefetched_high_word(in)
        <5>1. /\ Odd(reg_next_pc) /\ ~mem_la_secondword /\ FirstwordOfXfer
              /\ mem_rdata_latched(in) = [lo |-> reg_next_pc, hi |-> X]
          BY <2>1, <3>1, <3>5, <4>2, <1>23
        <5>2. ~Long(reg_next_pc)  BY <5>1, <2>1 DEF NeedsSecondWord
        <5>3. ~Odd(Following(reg_next_pc))
          BY <5>1, <5>2, <1>6, HalfFacts DEF Following, Size2
        <5> QED  BY <5>1, <5>2, <5>3
      <4>3. CASE ~mem_la_use_prefetched_high_word(in) /\ mem_la_secondword
        <5>1. /\ Sequential /\ Odd(reg_next_pc) /\ Long(reg_next_pc)
              /\ in.rdata = [lo |-> Plus(reg_next_pc, 1), hi |-> Plus(reg_next_pc, 2)]
              /\ mem_rdata_latched(in) = [lo |-> reg_next_pc, hi |-> Plus(reg_next_pc, 1)]
          BY <2>1, <3>1, <3>5, <4>3, <1>24
        <5>2. prefetched_high_word' /\ mem_16bit_buffer' = Plus(reg_next_pc, 2)
          BY <5>1, <4>3, <3>4 DEF HighHalfIsNext
        <5> QED  BY <5>1, <5>2, <4>3, <1>15 DEF Following, Size2, Next1
      <4>4. CASE /\ ~mem_la_use_prefetched_high_word(in)
                 /\ ~mem_la_secondword /\ Odd(reg_next_pc)
        <5>1. /\ mem_rdata_latched(in) = [lo |-> reg_next_pc, hi |-> X]
              /\ FirstwordOfXfer
          BY <2>1, <3>1, <3>5, <4>4, <1>24
        <5>2. ~Long(reg_next_pc)  BY <5>1, <4>4, <2>1 DEF NeedsSecondWord
        <5>3. ~Odd(Following(reg_next_pc))
          BY <4>4, <5>2, <1>6, HalfFacts DEF Following, Size2
        <5> QED  BY <5>1, <5>2, <5>3
      <4>5. CASE /\ ~mem_la_use_prefetched_high_word(in)
                 /\ ~mem_la_secondword /\ ~Odd(reg_next_pc)
        <5>1. /\ in.rdata = [lo |-> reg_next_pc, hi |-> Plus(reg_next_pc, 1)]
              /\ mem_rdata_latched(in) = in.rdata /\ Sequential
          BY <2>1, <3>1, <3>5, <4>5, <1>24
        <5>2. ~mem_la_firstword  BY <4>1, <4>5, <1>15
        <5>3. Odd(Following(reg_next_pc)) =>
                  ~Long(reg_next_pc) /\ Following(reg_next_pc) = Plus(reg_next_pc, 1)
          BY <4>5, <1>6, HalfFacts DEF Following, Size2
        <5>4. ~Long(reg_next_pc) =>
                  prefetched_high_word' /\ mem_16bit_buffer' = Plus(reg_next_pc, 1)
          BY <5>1, <3>4 DEF HighHalfIsNext
        <5> QED  BY <5>1, <5>2, <5>3, <5>4 DEF Next1
      <4> QED  BY <4>2, <4>3, <4>4, <4>5
    <3>6. CASE mem_do_rinst
      <4>1. ~latched_branch => mem_done(in)
        BY <2>1, <3>5, <3>6, <1>3 DEF mem_done
      <4>2. ~latched_branch => HasInstruction(in)
        BY <4>1, <3>2, <3>5, <1>8 DEF HasInstruction
      <4>3. EndFetch(in)
        BY <1>f, <2>1, <2>2, <3>6, <4>2, <1>8 DEF EndRead, EndFetch
      <4> QED  BY <4>3 DEF MemStep
    <3>7. CASE ~mem_do_rinst
      <4>1. mem_do_prefetch /\ ~mem_do_wdata  BY <3>1, <3>7, <1>2 DEF Fetching
      <4>2. Sequential /\ ~latched_branch  BY <4>1, <3>7, <1>2 DEF Sequential
      <4>3. ~mem_la_use_prefetched_high_word(in)
        BY <2>1, <3>1, <3>7, <4>2, <1>23
      <4>4. /\ ~Odd(reg_next_pc)
            /\ in.rdata = [lo |-> reg_next_pc, hi |-> Plus(reg_next_pc, 1)]
            /\ mem_rdata_latched(in) = in.rdata
        BY <2>1, <3>1, <3>7, <4>2, <4>3, <1>24
      <4>5. ~mem_done(in)  BY <2>1, <2>4, <3>7, <4>1 DEF mem_done
      <4>6. mem_state' = 3  BY <1>f, <2>4, <3>7 DEF EndRead
      <4>7. ~Long(reg_next_pc) => 
                prefetched_high_word' /\ mem_16bit_buffer' = Next1(reg_next_pc)
        BY <4>2, <4>4, <3>4 DEF HighHalfIsNext, Next1
      <4>8. EndPrefetch(in)
        BY <2>1, <2>2, <3>2, <3>3, <3>7, <4>1, <4>2, <4>4, <4>5, <4>6, <4>7
        DEF EndPrefetch, Next1
      <4> QED  BY <4>8 DEF MemStep
    <3> QED  BY <3>6, <3>7
  <2> QED  BY <2>3, <2>4
<1>g. CASE EndWrite(in)
  <2>1. mem_state = 2 /\ mem_xfer(in)  BY <1>g DEF EndWrite
  <2>2. mem_do_wdata /\ ~Fetching /\ ~mem_la_secondword  BY <2>1, <1>1, <1>2 DEF AccessInv
  <2>3. mem_done(in)  BY <2>1, <2>2, <1>3, <1>15 DEF mem_done
  <2>4. EndAccess(in)  BY <1>g, <2>1, <2>2, <1>13 DEF EndWrite, EndAccess
  <2>5. EndData(in)
    BY <1>g, <2>1, <2>2, <2>3, <2>4, <1>21 DEF EndWrite, EndData, KeepsBuffer
  <2> QED  BY <2>5 DEF MemStep
<1>h. CASE UsePrefetch(in)
  <2>1. mem_state = 3 /\ mem_do_rinst  BY <1>h DEF UsePrefetch
  <2>2. Sequential /\ ~Odd(reg_next_pc) /\ ~mem_valid /\ ~mem_la_secondword
    BY <2>1, <1>1, <1>2 DEF AccessInv
  <2>3. ~mem_la_firstword /\ ~mem_la_use_prefetched_high_word(in)
    BY <2>2, <1>6, <1>11, <1>15
  <2>4. ~mem_xfer(in)  BY <2>2, <2>3, <1>10
  <2>5. mem_done(in)  BY <2>1, <2>3, <1>3 DEF mem_done
  <2>6. mem_rdata_latched(in) = mem_rdata_q
    BY <2>2, <2>3, <2>4 DEF mem_rdata_latched
  <2>7. /\ mem_rdata_q = [lo |-> reg_next_pc, hi |-> Next1(reg_next_pc)]
        /\ ~Long(reg_next_pc) => Buffered(Next1(reg_next_pc))
    BY <2>1, <1>1, <1>2 DEF PrefetchInv
  <2>8. Odd(Following(reg_next_pc)) => Following(reg_next_pc) = Next1(reg_next_pc) /\ ~Long(reg_next_pc)
    BY <2>2, <1>6, HalfFacts DEF Following, Size2, Next1
  <2>9. Buffered(Next1(reg_next_pc)) =>
            prefetched_high_word' /\ mem_16bit_buffer' = Next1(reg_next_pc)
    BY <1>h, <2>2, <1>20, <1>21 DEF UsePrefetch, Buffered
  <2>10. HasInstruction(in)
    BY <2>4, <2>5, <2>6, <2>7, <2>8, <2>9, <1>4, <1>8 DEF HasInstruction
  <2>11. EndAccess(in)  BY <1>h, <2>2, <1>4 DEF UsePrefetch, EndAccess
  <2>12. EndFetch(in)  BY <1>h, <2>1, <2>10, <2>11, <1>8 DEF UsePrefetch, EndFetch
  <2> QED  BY <2>12 DEF MemStep
<1> QED  BY <1>4, <1>a, <1>b, <1>c, <1>d, <1>e, <1>f, <1>g, <1>h

-----------------------------------------------------------------------------
(* What every edge does. *)

(* An edge is a reset, one without work, or one of the fifteen kinds of     *)
(* work.                                                                    *)
LEMMA EdgeCases ==
    ASSUME TypeInv, NEW in \in Inputs, Edge(in)
    PROVE  \/ Reset(in)
           \/ Stopped(in)
           \/ AtWork(in) /\ \/ EnterIrq(in) \/ WaitIrq(in) \/ AwaitInsn(in) \/ Launch(in)
                            \/ AskUnits(in) \/ TakeAnswer(in) \/ Refuse(in)
                            \/ ReadRegister(in) \/ RetIrq(in) \/ ToOtherState(in)
                            \/ ExecBranch(in) \/ Exec(in) \/ Shift(in)
                            \/ Stmem(in) \/ Ldmem(in)
<1> USE DEF AtWork, Fetch, FetchNoIrq, LdRs1, Execute
<1>1. CpuEdge(in)  BY DEF Edge
<1>2. CASE EnterIrq(in) \/ WaitIrq(in) \/ AwaitInsn(in) \/ Launch(in)
  BY <1>2 DEF EnterIrq, WaitIrq, AwaitInsn, Launch
<1>3. CASE AskUnits(in) \/ TakeAnswer(in) \/ Refuse(in) \/ ReadRegister(in) \/ RetIrq(in)
           \/ ToOtherState(in)
  BY <1>3 DEF AskUnits, TakeAnswer, Refuse, ReadRegister, RetIrq, ToOtherState
<1>4. CASE ExecBranch(in) \/ Exec(in) \/ Shift(in) \/ Stmem(in) \/ Ldmem(in)
  BY <1>4 DEF ExecBranch, Exec, Shift, Stmem, Ldmem, MemoryAccess
<1> QED  BY <1>1, <1>2, <1>3, <1>4 DEF CpuEdge

(* Each state of the main state machine has its own kinds of work. *)
LEMMA WorkCases ==
    ASSUME TypeInv, NEW in \in Inputs, Edge(in), AtWork(in)
    PROVE  /\ ~Reset(in) /\ ~Stopped(in)
           /\ cpu_state \in {"fetch", "ld_rs1", "exec", "shift", "stmem", "ldmem"}
           /\ cpu_state = "fetch" =>
                  EnterIrq(in) \/ WaitIrq(in) \/ AwaitInsn(in) \/ Launch(in)
           /\ cpu_state = "ld_rs1" =>
                  /\ LdRs1(in)
                  /\ \/ AskUnits(in) \/ TakeAnswer(in) \/ Refuse(in)
                     \/ ReadRegister(in) \/ RetIrq(in) \/ ToOtherState(in)
           /\ cpu_state = "exec" => ExecBranch(in) \/ Exec(in)
           /\ cpu_state = "shift" => Shift(in)
           /\ cpu_state = "stmem" => Stmem(in)
           /\ cpu_state = "ldmem" => Ldmem(in)
<1>1. ~Reset(in) /\ ~Stopped(in)  BY DEF AtWork, Reset, Stopped
<1>2. cpu_state \in {"fetch", "ld_rs1", "exec", "shift", "stmem", "ldmem"}
  BY DEF AtWork, TypeInv, TypeOK
<1>3. EnterIrq(in) \/ WaitIrq(in) \/ AwaitInsn(in) \/ Launch(in) => cpu_state = "fetch"
  BY DEF EnterIrq, WaitIrq, AwaitInsn, Launch, FetchNoIrq, Fetch
<1>4. AskUnits(in) \/ TakeAnswer(in) \/ Refuse(in) \/ ReadRegister(in) \/ RetIrq(in)
      \/ ToOtherState(in) => cpu_state = "ld_rs1" /\ LdRs1(in)
  <2>1. AskUnits(in) \/ TakeAnswer(in) \/ Refuse(in) \/ ReadRegister(in) \/ RetIrq(in)
        \/ ToOtherState(in) => LdRs1(in)
    BY DEF AskUnits, TakeAnswer, Refuse, ReadRegister, RetIrq, ToOtherState
  <2>2. LdRs1(in) => cpu_state = "ld_rs1"  BY DEF LdRs1, Execute
  <2> QED  BY <2>1, <2>2
<1>5. ExecBranch(in) \/ Exec(in) => cpu_state = "exec"  BY DEF ExecBranch, Exec, Execute
<1>6. /\ Shift(in) => cpu_state = "shift"
      /\ Stmem(in) => cpu_state = "stmem"
      /\ Ldmem(in) => cpu_state = "ldmem"
  BY DEF Shift, Stmem, Ldmem, MemoryAccess, Execute
<1> QED  BY <1>1, <1>2, <1>3, <1>4, <1>5, <1>6, EdgeCases

(* The decoder's registers change with what is fetched. *)
LEMMA DecodeFacts ==
    ASSUME TypeInv, DecoderInv, NEW in \in Inputs, Edge(in)
    PROVE  /\ insn1' \in Insn /\ insn2' \in Insn
           /\ ~(mem_do_rinst /\ mem_done(in)) =>
                  insn1' = insn1 /\ compressed_instr' = compressed_instr
           /\ mem_do_rinst /\ mem_done(in) =>
                  /\ insn1'.raw = mem_rdata_latched(in)
                  /\ compressed_instr' <=> ~Long(mem_rdata_latched(in).lo)
                  /\ insn1'.kind = "waitirq" => Long(mem_rdata_latched(in).lo)
           /\ ~decoder_trigger \/ decoder_pseudo_trigger => insn2' = insn2
           /\ decoder_trigger /\ ~decoder_pseudo_trigger => insn2' = insn1
<1>1. Decode(in) /\ mem_rdata_latched(in) \in Fetched  BY LatchedType DEF Edge
<1>2. insn1 \in Insn /\ insn2 \in Insn /\ kinds \subseteq Kind
  BY DEF TypeInv, TypeOK, ProgramInv
<1>3. ASSUME mem_do_rinst /\ mem_done(in)
      PROVE  /\ insn1' \in Insn
             /\ insn1'.raw = mem_rdata_latched(in)
             /\ compressed_instr' <=> ~Long(mem_rdata_latched(in).lo)
             /\ insn1'.kind = "waitirq" => Long(mem_rdata_latched(in).lo)
  <2>1. PICK i \in Insns(mem_rdata_latched(in)) : insn1' = i  BY <1>1, <1>3 DEF Decode
  <2>2. i \in Insn /\ i.raw = mem_rdata_latched(in)
    BY <1>1, <1>2 DEF Insns, Insn
  <2>3. i.kind = "waitirq" => Long(mem_rdata_latched(in).lo)
    BY DEF Insns, LongOnly
  <2> QED  BY <2>1, <2>2, <2>3, <1>1, <1>3 DEF Decode
<1>4. ~(mem_do_rinst /\ mem_done(in)) =>
          insn1' = insn1 /\ compressed_instr' = compressed_instr
  BY <1>1 DEF Decode
<1>5. ~decoder_trigger \/ decoder_pseudo_trigger => insn2' = insn2  BY <1>1 DEF Decode
<1>6. decoder_trigger /\ ~decoder_pseudo_trigger => insn2' = insn1
  BY <1>1 DEF Decode, DecoderInv
<1>7. insn1' \in Insn  BY <1>2, <1>3, <1>4
<1>8. insn2' \in Insn  BY <1>2, <1>5, <1>6
<1> QED  BY <1>3, <1>4, <1>5, <1>6, <1>7, <1>8

(* What the end of an access means while the main state machine is at work. *)
DoneFacts(in) ==
    /\ MemStep(in)
    /\ mem_done(in) => mem_state # 0 /\ (mem_do_rinst \/ mem_do_rdata \/ mem_do_wdata)
    /\ mem_do_rinst /\ mem_done(in) /\ ~latched_branch =>
           HasInstruction(in) /\ Sequential

(* How an access that ends does so while the core works. *)
LEMMA DoneAtWork ==
    ASSUME CoreInv, NEW in \in Inputs, AtWork(in), Edge(in)
    PROVE  DoneFacts(in)
<1>1. MemStep(in)  BY MemCases DEF Edge
<1>2. mem_done(in) => mem_state # 0 /\ (mem_do_rinst \/ mem_do_rdata \/ mem_do_wdata)
  BY DEF mem_done
<1>3. mem_do_rinst /\ mem_done(in) => EndFetch(in)
  BY <1>1 DEF MemStep, Idle, Begin, BeginFetch, BeginLoad, BeginStore, OnGoing, BeginSecond,
              EndPrefetch, EndData, Quiet, Fetching
<1>4. mem_state # 0 => irq_state = 0  BY AtWorkFacts
<1> QED  BY <1>1, <1>2, <1>3, <1>4 DEF DoneFacts, EndFetch, Sequential

(* Nothing is read or written for data outside the two states for it, and   *)
(* no access ends where none is awaited.                                    *)
LEMMA Calm ==
    ASSUME CoreInv, NEW in \in Inputs, AtWork(in)
    PROVE  /\ cpu_state \notin {"stmem", "ldmem"} => ~BusError
           /\ cpu_state \in {"ld_rs1", "shift"} => ~mem_done(in) /\ ~mem_do_rinst
           /\ cpu_state = "fetch" /\ (decoder_trigger \/ do_waitirq \/ irq_state # 0) =>
                  ~mem_done(in)
           /\ cpu_state = "fetch" /\ mem_done(in) => mem_do_rinst
<1>1. RequestInv /\ TriggerInv /\ EntryInv /\ TypeInv  BY DEF CoreInv, ControlInv
<1>2. cpu_state \in {"fetch", "ld_rs1", "exec", "shift", "stmem", "ldmem"}
  BY <1>1 DEF AtWork, TypeInv, TypeOK
<1>3. cpu_state \notin {"stmem", "ldmem"} => ~BusError
  BY <1>1, <1>2 DEF BusError, RequestInv
<1>4. cpu_state \in {"ld_rs1", "shift"} => ~mem_done(in) /\ ~mem_do_rinst
  BY <1>1 DEF RequestInv, mem_done
<1>5. cpu_state = "fetch" /\ mem_done(in) => mem_do_rinst
  BY <1>1 DEF RequestInv, mem_done
<1>6. cpu_state = "fetch" /\ (mem_do_rinst \/ mem_state = 0)
      /\ (decoder_trigger \/ do_waitirq \/ irq_state # 0) => ~mem_done(in)
  BY <1>1 DEF TriggerInv, EntryInv, mem_done, Fetching
<1>7. cpu_state = "fetch" /\ (decoder_trigger \/ do_waitirq \/ irq_state # 0) => ~mem_done(in)
  BY <1>5, <1>6
<1> QED  BY <1>3, <1>4, <1>5, <1>7

(* The decoder's registers are kept unless a fetch ends or the decoder      *)
(* triggers.                                                                *)
LEMMA InsnsKept ==
    ASSUME CoreInv, NEW in \in Inputs, Edge(in)
    PROVE  /\ ~(mem_do_rinst /\ mem_done(in)) =>
                  insn1' = insn1 /\ compressed_instr' = compressed_instr
           /\ ~decoder_trigger \/ decoder_pseudo_trigger => insn2' = insn2
           /\ decoder_trigger /\ ~decoder_pseudo_trigger => insn2' = insn1
  BY DecodeFacts DEF CoreInv, ControlInv

-----------------------------------------------------------------------------
(* Types. *)

(* The program counter is a halfword of code, and so is the one after it. *)
LEMMA CurrentPcType == TypeInv => CurrentPc \in Half /\ Plus(CurrentPc, Size) \in Half
<1>1. TypeInv => CurrentPc \in Half  BY CoreAssumption DEF TypeInv, TypeOK, CurrentPc
<1>2. TypeInv => Plus(CurrentPc, Size) \in Half  BY <1>1, HalfFacts DEF Size
<1> QED  BY <1>1, <1>2

(* An edge keeps the types of the memory interface. *)
LEMMA MemTypes ==
    ASSUME CoreInv, NEW in \in Inputs, Edge(in)
    PROVE  /\ mem_valid' \in BOOLEAN /\ mem_instr' \in BOOLEAN /\ mem_wstrb' \in BOOLEAN
           /\ mem_addr' \in 0 .. DataAddr /\ mem_state' \in 0 .. 3
           /\ mem_16bit_buffer' \in Half \cup Junk /\ mem_rdata_q' \in Fetched
           /\ mem_valid' /\ mem_instr' => mem_addr' \in 0 .. CodeWords - 1
<1>1. TypeInv /\ AccessInv  BY DEF CoreInv, ControlInv, MemoryInv
<1>2. MemEdge(in)  BY DEF Edge
<1>3. /\ mem_valid \in BOOLEAN /\ mem_instr \in BOOLEAN /\ mem_wstrb \in BOOLEAN
      /\ mem_addr \in 0 .. DataAddr /\ mem_state \in 0 .. 3
      /\ mem_16bit_buffer \in Half \cup Junk /\ mem_rdata_q \in Fetched
      /\ mem_valid /\ mem_instr => mem_addr \in 0 .. CodeWords - 1
      /\ in.rdata \in Fetched /\ in.ready \in BOOLEAN /\ in.resetn \in BOOLEAN
  BY <1>1, InputFacts DEF TypeInv, TypeOK, ProgramInv
<1>4. CodeWords \in Nat /\ CodeWords > 0  BY CodeAssumption
<1>5. next_pc \in Half  BY <1>1 DEF TypeInv, TypeOK, next_pc
<1>6. (Fetching => mem_la_addr(in) \in 0 .. CodeWords - 1) /\ mem_la_addr(in) \in 0 .. DataAddr
  <2>1. PICK n \in Nat : Fetching => mem_la_addr(in) = n % CodeWords
    <3>1. next_pc \div 2 + 0 \in Nat /\ next_pc \div 2 + 1 \in Nat  BY <1>4, <1>5 DEF Half
    <3> QED  BY <3>1 DEF mem_la_addr
  <2>2. n % CodeWords \in 0 .. CodeWords - 1  BY <1>4
  <2>3. Fetching => mem_la_addr(in) \in 0 .. CodeWords - 1  BY <2>1, <2>2
  <2>4. ~Fetching => mem_la_addr(in) = CodeWords  BY DEF mem_la_addr, DataAddr
  <2> QED  BY <2>3, <2>4, <1>4 DEF DataAddr
<1>7. mem_rdata_q' \in Fetched  BY <1>1, <1>2, <1>3, LatchedType DEF MemEdge
<1>8. CASE ~in.resetn \/ trap
  <2>1. ResetMem(in)  BY <1>2, <1>8 DEF MemEdge
  <2> QED  BY <1>3, <1>7, <2>1 DEF ResetMem
<1>9. CASE in.resetn /\ ~trap
  <2>1. /\ Address(in)
        /\ \/ Sleep(in) \/ StartRead(in) \/ StartWrite(in) \/ Wait(in)
           \/ AskSecondWord(in) \/ EndRead(in) \/ EndWrite(in) \/ UsePrefetch(in)
    BY <1>2, <1>9 DEF MemEdge
  <2> USE DEF Sleep, StartRead, StartWrite, Wait, AskSecondWord, EndRead, EndWrite, UsePrefetch
  <2>2. mem_valid' \in BOOLEAN /\ mem_instr' \in BOOLEAN  BY <1>3, <2>1 DEF Fetching
  <2>3. mem_state' \in 0 .. 3
    <3>1. mem_state' = mem_state \/ mem_state' = 0 \/ mem_state' = 1 \/ mem_state' = 2 \/ mem_state' = 3
      BY <2>1
    <3> QED  BY <3>1, <1>3
  <2>4. mem_16bit_buffer' \in Half \cup Junk  BY <1>3, <2>1 DEF Fetched
  <2>5. mem_wstrb' \in BOOLEAN  BY <1>3, <2>1 DEF Address, mem_la_write
  <2>6. mem_addr' \in 0 .. DataAddr  BY <1>3, <1>6, <2>1 DEF Address
  <2>7. ASSUME mem_valid', mem_instr' PROVE mem_addr' \in 0 .. CodeWords - 1
    <3>1. CASE mem_la_read(in) \/ mem_la_write(in)
      <4>1. mem_addr' = mem_la_addr(in)  BY <2>1, <3>1 DEF Address
      <4>2. StartRead(in) => Fetching  BY <2>7
      <4>3. AskSecondWord(in) => Fetching  BY <1>1, <1>9, <2>7 DEF AccessInv
      <4>4. ~Sleep(in) /\ ~StartWrite(in) /\ ~EndRead(in) /\ ~EndWrite(in) /\ ~UsePrefetch(in)
        BY <1>1, <1>9, <2>7 DEF AccessInv
      <4>5. ~Wait(in)
        <5>1. SUFFICES ASSUME Wait(in) PROVE FALSE  OBVIOUS
        <5>2. mem_valid  BY <5>1, <1>3, <2>7
        <5>3. mem_state \in {1, 2}  BY <5>2, <1>1, <1>9 DEF AccessInv
        <5>4. ~mem_xfer(in)  BY <5>1, <5>3
        <5> QED  BY <5>3, <5>4, <3>1 DEF mem_la_read, mem_la_write, NeedsSecondWord
      <4>6. Fetching  BY <2>1, <4>2, <4>3, <4>4, <4>5
      <4> QED  BY <4>1, <4>6, <1>6
    <3>2. CASE ~(mem_la_read(in) \/ mem_la_write(in))
      <4>1. mem_addr' = mem_addr  BY <2>1, <3>2 DEF Address
      <4>2. mem_valid /\ mem_instr
        BY <1>1, <1>3, <1>9, <2>1, <2>7, <3>2 DEF mem_la_read, Fetching
      <4> QED  BY <4>1, <4>2, <1>3
    <3> QED  BY <3>1, <3>2
  <2> QED  BY <2>2, <2>3, <2>4, <2>5, <2>6, <2>7, <1>7
<1> QED  BY <1>3, <1>8, <1>9

(* Only interrupts become pending. *)
LEMMA RaiseType ==
    ASSUME TypeInv, NEW in \in Inputs, NEW kept, NEW more, Raise(in, kept, more),
           kept \subseteq IrqLine, more \subseteq IrqLine
    PROVE  irq_pending' \subseteq IrqLine
<1>1. in.irq \subseteq IrqLine  BY InputFacts
<1>2. "timer" \in IrqLine /\ "buserror" \in IrqLine  BY CoreAssumption
<1> QED  BY <1>1, <1>2 DEF Raise

(* An edge keeps the types of the main state machine. *)
LEMMA CpuTypes ==
    ASSUME CoreInv, NEW in \in Inputs, Edge(in)
    PROVE  /\ cpu_state' \in {"none", "fetch", "ld_rs1", "exec", "shift", "stmem", "ldmem", "trap"}
           /\ {reg_pc', reg_next_pc', reg_out', alu_out_q', return_pc',
               follows', launched', interrupted'} \subseteq Half
           /\ latched_rd' \in Half \cup Junk \cup {x0, q0, q1}
           /\ irq_state' \in 0 .. 2
           /\ {irq_mask', irq_pending', eoi'} \subseteq SUBSET IrqLine
           /\ timer' \in 0 .. MaxTimer /\ reg_sh' \in 0 .. MaxShift
<1>1. TypeInv /\ CpuEdge(in)  BY DEF CoreInv, ControlInv, Edge
<1>2. /\ {reg_pc, reg_next_pc, reg_out, alu_out_q, return_pc,
          follows, launched, interrupted} \subseteq Half
      /\ latched_rd \in Half \cup Junk \cup {x0, q0, q1}
      /\ insn1 \in Insn /\ insn2 \in Insn
      /\ irq_state \in 0 .. 2
      /\ irq_mask \subseteq IrqLine /\ irq_pending \subseteq IrqLine /\ eoi \subseteq IrqLine
      /\ timer \in 0 .. MaxTimer /\ reg_sh \in 0 .. MaxShift
      /\ masks \subseteq SUBSET IrqLine
  BY <1>1 DEF TypeInv, TypeOK, ProgramInv
<1>3. MaxShift \in Nat /\ MaxTimer \in Nat  BY CoreAssumption
<1>4. CurrentPc \in Half /\ Plus(CurrentPc, Size) \in Half /\ 0 \in Half
      /\ PROGADDR_RESET \in Half /\ PROGADDR_IRQ \in Half
  BY <1>1, CurrentPcType, Apart
<1>5. insn1.imm \in Half /\ insn2.imm \in Half /\ insn1.raw.lo \in Half \cup Junk
  BY <1>2 DEF Insn, Fetched
<1>6. Plus(CurrentPc, insn1.imm) \in Half /\ Plus(reg_pc, insn2.imm) \in Half
      /\ Plus(launched, insn1.imm) \in Half
      /\ Plus(CurrentPc, IF insn1.kind = "jal" THEN insn1.imm
                         ELSE IF Long(CurrentPc) THEN 2 ELSE 1) \in Half
  BY <1>2, <1>4, <1>5, PlusType, HalfFacts
<1>7. Unmasked \subseteq IrqLine /\ StaysPending \subseteq IrqLine
  BY <1>2 DEF Unmasked, StaysPending
<1> USE DEF CpuEdge, EnterIrq, WaitIrq, AwaitInsn, Launch, AskUnits, TakeAnswer, Refuse,
            ReadRegister, RetIrq, ToOtherState, ExecBranch, Exec, Shift, Stmem, Ldmem,
            MemoryAccess, Stopped, Reset, FetchNoIrq, Fetch, Execute, LdRs1, NoIrqChange
<1>8. cpu_state' \in {"none", "fetch", "ld_rs1", "exec", "shift", "stmem", "ldmem", "trap"}
  BY <1>1 DEF Goto, NextState
<1>9. reg_pc' \in Half /\ reg_next_pc' \in Half  BY <1>1, <1>2, <1>4, <1>6
<1>10. reg_out' \in Half /\ alu_out_q' \in Half  BY <1>1, <1>2, <1>4, <1>6
<1>11. return_pc' \in Half  BY <1>1, <1>2 DEF SaveReturn
<1>12. interrupted' \in Half /\ launched' \in Half  BY <1>1, <1>2, <1>4 DEF histVars
<1>13. follows' \in Half  
  BY <1>1, <1>2, <1>4, <1>6 DEF histVars
<1>14. latched_rd' \in Half \cup Junk \cup {x0, q0, q1}
  BY <1>1, <1>2, <1>5 DEF IrqRegister
<1>15. irq_state' \in 0 .. 2  
  <2>1. irq_state' = (irq_state + 1) % 3 \/ irq_state' = irq_state \/ irq_state' = 0
    BY <1>1
  <2> QED  BY <2>1, <1>2
<1>16. irq_mask' \subseteq IrqLine /\ eoi' \subseteq IrqLine  BY <1>1, <1>2, <1>7
<1>17. irq_pending' \subseteq IrqLine
  <2>1. CASE Reset(in)
    BY <2>1, <1>1, InputFacts, CoreAssumption
  <2>2. CASE ~Reset(in)
    <3>1. \/ Raise(in, irq_pending, {}) \/ Raise(in, StaysPending, {})
          \/ Raise(in, irq_pending, {"ebreak"})
      BY <1>1, <2>2
    <3>2. {"ebreak"} \subseteq IrqLine  BY CoreAssumption
    <3> QED  BY <3>1, <3>2, <1>1, <1>2, <1>7, RaiseType
  <2> QED  BY <2>1, <2>2
<1>18. reg_sh' \in 0 .. MaxShift
  <2>1. \/ reg_sh' = 0 \/ reg_sh' \in 0 .. MaxShift
        \/ reg_sh' = IF reg_sh >= 4 THEN reg_sh - 4 ELSE IF reg_sh > 0 THEN reg_sh - 1 ELSE 0
    BY <1>1
  <2> QED  BY <2>1, <1>2, <1>3
<1>19. timer' \in 0 .. MaxTimer
  <2>1. timer' = 0 \/ timer' \in 0 .. MaxTimer \/ Tick  BY <1>1
  <2> QED  BY <2>1, <1>2, <1>3 DEF Tick
<1> QED  BY <1>8, <1>9, <1>10, <1>11, <1>12, <1>13, <1>14, <1>15, <1>16, <1>17, <1>18, <1>19

(* An edge keeps the types of the co-processors and of their timeout. *)
LEMMA PcpiTypes ==
    ASSUME CoreInv, NEW in \in Inputs, Edge(in)
    PROVE  pcpi_timeout_counter' \in 0 .. MaxTimeout /\ (\A u \in Unit : unit'[u] \in UnitState)
<1>1. Pcpi(in) /\ TypeInv  BY DEF CoreInv, ControlInv, Edge
<1>2. MaxTimeout \in Nat \ {0} /\ pcpi_timeout_counter \in 0 .. MaxTimeout
  BY <1>1, CoreAssumption DEF TypeInv, TypeOK
<1>3. pcpi_timeout_counter' \in 0 .. MaxTimeout  BY <1>1, <1>2 DEF Pcpi
<1>4. \A u, mine, resetn : UnitNext(u, mine, resetn) \subseteq UnitState  BY DEF UnitNext
<1>5. \A u \in Unit : unit'[u] \in UnitState  BY <1>1, <1>4 DEF Pcpi, Unit
<1> QED  BY <1>3, <1>5

(* An edge preserves TypeInv. *)
LEMMA TypeStep ==
    ASSUME CoreInv, NEW in \in Inputs, Edge(in)
    PROVE  TypeInv'
<1>1. TypeInv /\ started' \in {"off", "reset", "on"} /\ UNCHANGED programVars
  BY DEF CoreInv, ControlInv, TypeInv, TypeOK, Edge, Power
<1>2. insn1' \in Insn /\ insn2' \in Insn  BY DecodeFacts DEF CoreInv, ControlInv
<1>3. TypeOK'  BY <1>1, <1>2, MemTypes, CpuTypes, PcpiTypes DEF TypeOK
<1>4. ProgramInv'  BY <1>1, MemTypes DEF TypeInv, ProgramInv, programVars
<1> QED  BY <1>3, <1>4 DEF TypeInv

-----------------------------------------------------------------------------
(* The main state machine. *)

(* An edge preserves PowerInv: the reset clears what power-up left. *)
LEMMA PowerStep ==
    ASSUME CoreInv, NEW in \in Inputs, Edge(in)
    PROVE  PowerInv'
<1>1. PowerInv /\ TypeInv /\ AccessInv /\ RequestInv /\ TriggerInv
  BY DEF CoreInv, ControlInv, MemoryInv
<1>2. Power(in) /\ MemEdge(in) /\ CpuEdge(in)  BY DEF Edge
<1>3. in.resetn \in BOOLEAN /\ (in.ready => mem_valid)  BY <1>1, InputFacts
<1>4. CASE Reset(in)
  <2>1. ~in.resetn /\ started' = "reset"  BY <1>2, <1>4 DEF Reset, Power
  <2>2. ResetMem(in)  BY <1>2, <2>1 DEF MemEdge
  <2> QED  BY <1>4, <2>1, <2>2 DEF Reset, PowerInv, ResetMem, Quiet, Fetching
<1>5. CASE Stopped(in)
  <2>1. in.resetn /\ started' = (IF started = "reset" THEN "on" ELSE started)
    BY <1>2, <1>5 DEF Stopped, Power
  <2>2. CASE started = "off"
    <3>1. cpu_state = "none" /\ ~trap /\ Quiet /\ mem_state = 0 /\ ~mem_valid
      BY <1>1, <2>2 DEF PowerInv
    <3>2. Sleep(in)
      BY <1>2, <2>1, <3>1
      DEF MemEdge, Quiet, Sleep, StartRead, StartWrite, Wait, AskSecondWord, EndRead, EndWrite, UsePrefetch
    <3>3. ~mem_done(in) /\ ~BusError /\ started' = "off"
      BY <2>1, <2>2, <3>1 DEF mem_done, BusError, Quiet, Fetching
    <3>4. cpu_state' = "none" /\ Quiet' /\ ~decoder_trigger' /\ ~decoder_pseudo_trigger'
          /\ ~trap' 
      BY <1>5, <3>1, <3>3 DEF Stopped, Goto, Quiet, Fetching, Request, Trigger
    <3>5. mem_state' = 0 /\ ~mem_valid' /\ ~last_mem_valid' /\ ~mem_la_secondword' /\ ~prefetched_high_word'
      BY <1>1, <1>2, <2>1, <2>2, <3>1, <3>2 DEF PowerInv, MemEdge, Sleep, KeepPrefetched, SetPrefetched
    <3> QED  BY <1>1, <1>5, <2>2, <3>3, <3>4, <3>5 DEF PowerInv, Stopped, histVars
  <2>3. CASE started # "off"
    <3>1. cpu_state = "trap" /\ started' = "on"
      BY <1>1, <1>5, <2>1, <2>3 DEF PowerInv, Stopped, TypeInv, TypeOK
    <3>2. cpu_state' = "trap"  BY <1>5, <3>1 DEF Stopped, Goto
    <3> QED  BY <3>1, <3>2 DEF PowerInv
  <2> QED  BY <2>2, <2>3
<1>6. CASE AtWork(in)
  <2>1. started' = "on"
    BY <1>1, <1>2, <1>6 DEF PowerInv, Power, AtWork, TypeInv, TypeOK
  <2>2. cpu_state' # "none"
    BY <1>2, <1>6
    DEF CpuEdge, EnterIrq, WaitIrq, AwaitInsn, Launch, AskUnits, TakeAnswer, Refuse,
        ReadRegister, RetIrq, ToOtherState, ExecBranch, Exec, Shift, Stmem, Ldmem,
        MemoryAccess, Stopped, Reset, Goto, NextState, AtWork
  <2> QED  BY <2>1, <2>2 DEF PowerInv
<1> QED  BY <1>1, <1>4, <1>5, <1>6, EdgeCases

(* An edge preserves RequestInv: requests are made and end with the states  *)
(* that make them.                                                          *)
LEMMA RequestStep ==
    ASSUME CoreInv, NEW in \in Inputs, Edge(in)
    PROVE  RequestInv'
<1>1. TypeInv /\ PowerInv /\ RequestInv /\ TriggerInv /\ DecoderInv /\ BranchInv /\ EntryInv
  BY DEF CoreInv, ControlInv
<1>2. CASE Reset(in)
  BY <1>2 DEF Reset, RequestInv
<1>3. CASE Stopped(in)
  BY <1>1, <1>3 DEF Stopped, RequestInv, PowerInv, Request, Goto, BusError, Quiet, Fetching
<1>4. ASSUME AtWork(in) PROVE DoneFacts(in)  BY <1>4, DoneAtWork
<1>5. /\ ~(mem_do_rinst /\ mem_done(in)) =>
             insn1' = insn1 /\ compressed_instr' = compressed_instr
      /\ ~decoder_trigger \/ decoder_pseudo_trigger => insn2' = insn2
      /\ decoder_trigger /\ ~decoder_pseudo_trigger => insn2' = insn1
  BY <1>1, DecodeFacts
<1>6. CASE EnterIrq(in) 
  BY <1>1, <1>6 DEF EnterIrq, Fetch, RequestInv, Request, Goto, BusError
<1>7. CASE WaitIrq(in) 
  BY <1>1, <1>7 DEF WaitIrq, FetchNoIrq, Fetch, RequestInv, Request, Goto, BusError
<1>8. CASE AwaitInsn(in) 
  BY <1>1, <1>8 DEF AwaitInsn, FetchNoIrq, Fetch, RequestInv, Request, Goto, BusError, TriggerInv
<1>9. CASE Launch(in) 
  <2>1. ~mem_done(in)
    BY <1>1, <1>9 DEF Launch, FetchNoIrq, Fetch, RequestInv, TriggerInv, Fetching, mem_done
  <2> QED
    BY <1>1, <1>5, <1>9, <2>1
    DEF Launch, FetchNoIrq, Fetch, RequestInv, Request, Goto, BusError
<1>10. CASE AskUnits(in)
  BY <1>1, <1>5, <1>10 DEF AskUnits, LdRs1, Execute, RequestInv, Request, Goto, BusError, mem_done
<1>11. CASE TakeAnswer(in)
  BY <1>1, <1>5, <1>11 DEF TakeAnswer, LdRs1, Execute, RequestInv, Request, Goto, BusError, mem_done
<1>12. CASE Refuse(in)
  BY <1>1, <1>5, <1>12 DEF Refuse, LdRs1, Execute, RequestInv, Request, Goto, BusError, mem_done
<1>13. CASE ReadRegister(in)
  BY <1>1, <1>5, <1>13 DEF ReadRegister, LdRs1, Execute, RequestInv, Request, Goto, BusError, mem_done
<1>14. CASE RetIrq(in)
  BY <1>1, <1>5, <1>14 DEF RetIrq, LdRs1, Execute, RequestInv, Request, Goto, BusError, mem_done
<1>15. CASE ToOtherState(in)
  <2>1. cpu_state = "ld_rs1" /\ ~mem_done(in) /\ ~BusError /\ ~mem_do_rinst
    BY <1>1, <1>15 DEF ToOtherState, LdRs1, Execute, RequestInv, mem_done, BusError
  <2>2. insn1' = insn1 /\ insn2' = insn2 /\ insn2 = insn1
    BY <1>1, <1>5, <2>1 DEF TriggerInv, DecoderInv, Executing, Accessing, Mid
  <2>3. Operation = insn1.kind /\ Operation' = insn1.kind  BY <2>2 DEF Operation
  <2>4. /\ mem_do_prefetch' <=> mem_do_prefetch
        /\ mem_do_rinst' <=> FetchesNext
        /\ ~mem_do_rdata' /\ ~mem_do_wdata' /\ ~trap'
        /\ mem_do_prefetch <=> Operation # "jalr"
        /\ cpu_state' = NextState
    BY <1>1, <1>15, <2>1, <2>3 DEF ToOtherState, LdRs1, Execute, RequestInv, Request, Goto
  <2> QED  BY <2>1, <2>3, <2>4 DEF RequestInv, NextState, FetchesNext
<1>16. CASE ExecBranch(in)
  BY <1>1, <1>5, <1>16 DEF ExecBranch, Execute, RequestInv, Request, Goto, BusError,
     Operation, DecoderInv, TriggerInv, Executing, Accessing, Mid
<1>17. CASE Exec(in)
  BY <1>1, <1>5, <1>17 DEF Exec, Execute, RequestInv, Request, Goto, BusError, mem_done
<1>18. CASE Shift(in)
  BY <1>1, <1>5, <1>18 DEF Shift, Execute, RequestInv, Request, Goto, BusError, mem_done
<1>19. CASE Stmem(in)
  BY <1>1, <1>5, <1>19 DEF Stmem, MemoryAccess, Execute, RequestInv, Request, Goto, BusError
<1>20. CASE Ldmem(in)
  BY <1>1, <1>5, <1>20 DEF Ldmem, MemoryAccess, Execute, RequestInv, Request, Goto, BusError
<1> QED  BY <1>1, <1>2, <1>3, <1>6, <1>7, <1>8, <1>9, <1>10, <1>11, <1>12, <1>13, <1>14,
            <1>15, <1>16, <1>17, <1>18, <1>19, <1>20, EdgeCases

(* An edge preserves TriggerInv: the decoder triggers once for each fetch. *)
LEMMA TriggerStep ==
    ASSUME CoreInv, NEW in \in Inputs, Edge(in)
    PROVE  TriggerInv'
<1>1. TypeInv /\ PowerInv /\ RequestInv /\ TriggerInv /\ BranchInv /\ EntryInv
  BY DEF CoreInv, ControlInv
<1>2. ~(mem_do_rinst /\ mem_done(in)) => insn1' = insn1  BY InsnsKept
<1>3. CASE Reset(in)
  <2>1. ~mem_done(in)  BY <1>3 DEF Reset, mem_done
  <2> QED  BY <1>3, <2>1 DEF Reset, TriggerInv, Trigger, Fetching
<1>4. CASE Stopped(in)
  <2>1. ~decoder_trigger' /\ ~do_waitirq' /\ ~decoder_pseudo_trigger'
    BY <1>1, <1>4 DEF Stopped, Trigger, RequestInv, PowerInv, Quiet, Fetching
  <2> QED  BY <2>1 DEF TriggerInv
<1>5. CASE AtWork(in) /\ cpu_state = "fetch"
  <2>1. EnterIrq(in) \/ WaitIrq(in) \/ AwaitInsn(in) \/ Launch(in)
    BY <1>1, <1>5, EdgeCases
    DEF AskUnits, TakeAnswer, Refuse, ReadRegister, RetIrq, ToOtherState, ExecBranch,
        Exec, Shift, Stmem, Ldmem, MemoryAccess, LdRs1, Execute, Stopped, Reset, AtWork
  <2>2. ~BusError  BY <1>5, Calm
  <2>3. ~decoder_pseudo_trigger' /\ (decoder_trigger' <=> mem_do_rinst /\ mem_done(in))
    BY <2>1 DEF EnterIrq, WaitIrq, AwaitInsn, Launch, FetchNoIrq, Fetch, Trigger
  <2>4. decoder_trigger' => ~Fetching' /\ cpu_state' = "fetch"
    <3>1. SUFFICES ASSUME mem_do_rinst, mem_done(in) PROVE ~Fetching' /\ cpu_state' = "fetch"
      BY <2>3
    <3>2. AwaitInsn(in) /\ ~do_waitirq
      BY <2>1, <1>5, <3>1, Calm
      DEF EnterIrq, WaitIrq, Launch, FetchNoIrq, Waiting, TakesIrq
    <3> QED
      BY <1>5, <2>2, <3>1, <3>2 DEF AwaitInsn, FetchNoIrq, Fetch, Request, Goto, Fetching
  <2>5. do_waitirq' => cpu_state' = "fetch" /\ ~Fetching' /\ insn1'.kind = "waitirq"
    <3>1. SUFFICES ASSUME do_waitirq'
                   PROVE  cpu_state' = "fetch" /\ ~Fetching' /\ insn1'.kind = "waitirq"
      OBVIOUS
    <3>2. WaitIrq(in) /\ ~(irq_pending # {})
      BY <2>1, <3>1 DEF EnterIrq, WaitIrq, AwaitInsn, Launch
    <3>3. ~mem_done(in)  BY <1>5, <3>2, Calm DEF WaitIrq, Waiting
    <3>4. ~Fetching  BY <1>1, <3>2 DEF TriggerInv, WaitIrq, Waiting
    <3> QED
      BY <1>2, <2>2, <3>2, <3>3, <3>4 DEF WaitIrq, Waiting, Request, Goto, Fetching
  <2> QED  BY <2>3, <2>4, <2>5 DEF TriggerInv
<1>6. CASE AtWork(in) /\ cpu_state # "fetch"
  <2>1. ~do_waitirq'
    BY <1>1, <1>6, EdgeCases
    DEF AskUnits, TakeAnswer, Refuse, ReadRegister, RetIrq, ToOtherState, ExecBranch,
        Exec, Shift, Stmem, Ldmem, MemoryAccess, LdRs1, Execute, Stopped, Reset, AtWork,
        EnterIrq, WaitIrq, AwaitInsn, Launch, FetchNoIrq, Fetch
  <2>2. CASE LdRs1(in) \/ Shift(in)
    <3>1. ~mem_done(in)  BY <1>6, <2>2, Calm DEF LdRs1, Shift, Execute
    <3>2. ~decoder_trigger' /\ ~decoder_pseudo_trigger'
      BY <2>2, <3>1 DEF LdRs1, Shift, Trigger
    <3> QED  BY <2>1, <3>2 DEF TriggerInv
  <2>3. CASE ExecBranch(in) \/ Exec(in)
    <3>1. ~BusError  BY <1>6, <2>3, Calm DEF ExecBranch, Exec, Execute
    <3> QED
      BY <1>1, <2>1, <2>3, <3>1
      DEF ExecBranch, Exec, Execute, TriggerInv, Trigger, Request, Goto, Fetching
  <2>4. CASE Stmem(in)
    BY <1>1, <2>1, <2>4 DEF Stmem, MemoryAccess, Execute, RequestInv, TriggerInv, Request, Goto, Fetching
  <2>5. CASE Ldmem(in)
    BY <1>1, <2>1, <2>5 DEF Ldmem, MemoryAccess, Execute, RequestInv, TriggerInv, Request, Goto, Fetching
  <2> QED
    BY <1>1, <1>6, <2>2, <2>3, <2>4, <2>5, EdgeCases
    DEF AskUnits, TakeAnswer, Refuse, ReadRegister, RetIrq, ToOtherState,
        EnterIrq, WaitIrq, AwaitInsn, Launch, FetchNoIrq, Fetch, Stopped, Reset, AtWork
<1> QED  BY <1>1, <1>3, <1>4, <1>5, <1>6, EdgeCases

(* The decoder triggers on an instruction that has been fetched, and where  *)
(* no branch is being taken.                                                *)
LEMMA Triggers ==
    ASSUME CoreInv, NEW in \in Inputs, Edge(in)
    PROVE  /\ decoder_trigger' /\ ~decoder_pseudo_trigger' =>
                  /\ AtWork(in) /\ mem_do_rinst /\ mem_done(in)
                  /\ Sequential /\ HasInstruction(in)
           /\ decoder_pseudo_trigger' =>
                  /\ AtWork(in) /\ Accessing /\ mem_done(in)
                  /\ cpu_state' \in {"fetch", "trap"}
<1>1. TypeInv /\ PowerInv /\ RequestInv /\ TriggerInv /\ BranchInv /\ EntryInv
  BY DEF CoreInv, ControlInv
<1>2. CASE Reset(in)  BY <1>2 DEF Reset, Trigger, mem_done
<1>3. CASE Stopped(in)
  BY <1>1, <1>3 DEF Stopped, Trigger, RequestInv, PowerInv, Quiet, Fetching
<1>4. CASE AtWork(in)
  <2>1. DoneFacts(in)  BY <1>4, DoneAtWork
  <2>2. cpu_state = "fetch" =>
            ~decoder_pseudo_trigger' /\ (decoder_trigger' => mem_do_rinst /\ mem_done(in))
    BY <1>1, <1>4, WorkCases
    DEF EnterIrq, WaitIrq, AwaitInsn, Launch, FetchNoIrq, Fetch, Trigger
  <2>3. cpu_state = "ld_rs1" => ~decoder_pseudo_trigger' /\ ~decoder_trigger'
    BY <1>1, <1>4, WorkCases, Calm DEF LdRs1, Trigger
  <2>4. cpu_state = "shift" => ~decoder_pseudo_trigger' /\ ~decoder_trigger'
    BY <1>1, <1>4, WorkCases, Calm DEF Shift, Trigger
  <2>5. cpu_state = "exec" =>
            /\ ~decoder_pseudo_trigger'
            /\ decoder_trigger' => mem_do_rinst /\ mem_done(in) /\ ~latched_branch
    BY <1>1, <1>4, WorkCases DEF ExecBranch, Exec, Trigger, BranchInv, Mid
  <2>6. cpu_state \in {"stmem", "ldmem"} =>
            /\ decoder_pseudo_trigger' =>
                   Accessing /\ mem_done(in) /\ cpu_state' \in {"fetch", "trap"}
            /\ decoder_trigger' /\ ~decoder_pseudo_trigger' =>
                   mem_do_rinst /\ mem_done(in)
    BY <1>1, <1>4, WorkCases DEF Stmem, Ldmem, MemoryAccess, Accessing, Goto
  <2>7. mem_done(in) /\ latched_branch => cpu_state = "exec"
    BY <1>4, <2>1, AtWorkFacts DEF DoneFacts
  <2> QED  BY <1>1, <1>4, <2>1, <2>2, <2>3, <2>4, <2>5, <2>6, <2>7, WorkCases DEF DoneFacts
<1> QED  BY <1>1, <1>2, <1>3, <1>4, EdgeCases

(* An edge preserves DecoderInv: its second step sees the instruction of    *)
(* the first.                                                               *)
LEMMA DecoderStep ==
    ASSUME CoreInv, NEW in \in Inputs, Edge(in)
    PROVE  DecoderInv'
<1>1. TypeInv /\ PowerInv /\ RequestInv /\ TriggerInv /\ DecoderInv
  BY DEF CoreInv, ControlInv
<1>2. /\ ~(mem_do_rinst /\ mem_done(in)) => insn1' = insn1
      /\ ~decoder_trigger \/ decoder_pseudo_trigger => insn2' = insn2
      /\ decoder_trigger /\ ~decoder_pseudo_trigger => insn2' = insn1
  BY InsnsKept
<1>3. decoder_trigger' /\ ~decoder_pseudo_trigger' => mem_rdata_q' = insn1'.raw
  <2>1. mem_do_rinst /\ mem_done(in) => insn1'.raw = mem_rdata_latched(in)
    BY <1>1, DecodeFacts
  <2> QED  BY <2>1, Triggers DEF HasInstruction
<1>4. ASSUME Executing' \/ decoder_pseudo_trigger' \/ (Accessing /\ ~decoder_trigger)'
      PROVE  insn2' = insn1'
  <2>1. CASE Reset(in)
    BY <1>4, <2>1 DEF Reset, Trigger, Executing, Accessing, Mid
  <2>2. CASE Stopped(in)
    BY <1>1, <1>4, <2>2
    DEF Stopped, Trigger, Goto, BusError, Executing, Accessing, Mid
  <2>3. CASE AtWork(in) /\ cpu_state = "fetch"
    <3>1. Launch(in)
      BY <1>1, <1>4, <2>3, WorkCases, Triggers
      DEF EnterIrq, WaitIrq, AwaitInsn, FetchNoIrq, Fetch, Goto, Executing, Accessing, Mid
    <3>2. decoder_trigger /\ ~mem_done(in)  BY <2>3, <3>1, Calm DEF Launch
    <3> QED  BY <1>1, <1>2, <3>2 DEF DecoderInv
  <2>4. CASE AtWork(in) /\ cpu_state \in {"ld_rs1", "shift"}
    BY <1>1, <1>2, <2>4, Calm DEF TriggerInv, DecoderInv, Executing, Accessing, Mid
  <2>5. CASE AtWork(in) /\ cpu_state = "exec"
    <3>1. ~mem_done(in)
      BY <1>1, <1>4, <2>5, WorkCases, Calm, Triggers
      DEF ExecBranch, Exec, Goto, Executing, Accessing, Mid
    <3> QED  BY <1>1, <1>2, <2>5, <3>1 DEF TriggerInv, DecoderInv, Executing, Accessing, Mid
  <2>6. CASE AtWork(in) /\ cpu_state \in {"stmem", "ldmem"}
    <3>1. ~(mem_do_rinst /\ mem_done(in))
      <4>1. SUFFICES ASSUME mem_do_rinst, mem_done(in) PROVE FALSE  OBVIOUS
      <4>2. mem_do_prefetch /\ ~mem_do_rdata /\ ~mem_do_wdata
        BY <1>1, <2>6, <4>1 DEF RequestInv
      <4>3. /\ decoder_trigger' /\ ~decoder_pseudo_trigger' /\ ~mem_do_prefetch'
            /\ cpu_state' \in {"stmem", "ldmem"}
        BY <1>1, <2>6, <4>1, <4>2, WorkCases
        DEF Stmem, Ldmem, MemoryAccess, Request, Goto, BusError
      <4> QED  BY <1>4, <4>3 DEF Executing, Accessing
    <3> QED  BY <1>1, <1>2, <2>6, <3>1 DEF TriggerInv, DecoderInv, Executing, Accessing, Mid
  <2> QED  BY <1>1, <2>1, <2>2, <2>3, <2>4, <2>5, <2>6, EdgeCases, WorkCases
<1> QED  BY <1>3, <1>4 DEF DecoderInv

(* An instruction in execution, an edge later: what it needs is where it was. *)
LEMMA Stays ==
    ASSUME CoreInv, NEW in \in Inputs, Edge(in), AtWork(in), cpu_state # "fetch", Mid'
    PROVE  /\ Mid /\ irq_state' = irq_state /\ reg_pc' = reg_pc /\ launched' = launched
           /\ reg_next_pc' = reg_next_pc /\ (latched_compr' <=> latched_compr)
           /\ Executing' => /\ Executing /\ insn1' = insn1 /\ insn2' = insn2
                            /\ compressed_instr' <=> compressed_instr
                            /\ ~decoder_trigger
<1>1. TypeInv /\ RequestInv /\ TriggerInv
  BY DEF CoreInv, ControlInv
<1>2. cpu_state \in {"ld_rs1", "exec", "shift", "stmem", "ldmem"}  BY <1>1, WorkCases
<1>3. Execute(in, cpu_state)
  BY <1>1, <1>2, WorkCases
  DEF LdRs1, ExecBranch, Exec, Shift, Stmem, Ldmem, MemoryAccess, Execute
<1>4. ASSUME Executing'
      PROVE  Executing /\ ~(mem_do_rinst /\ mem_done(in)) /\ ~decoder_trigger
  <2>1. CASE cpu_state \in {"ld_rs1", "shift"}
    BY <1>1, <2>1, Calm DEF TriggerInv, Executing, Accessing, Mid
  <2>2. CASE cpu_state = "exec"
    <3>1. ~mem_done(in)
      BY <1>1, <1>4, <2>2, WorkCases, Calm
      DEF ExecBranch, Exec, Goto, Executing, Mid
    <3> QED  BY <1>1, <2>2, <3>1 DEF TriggerInv, Executing, Accessing, Mid
  <2>3. CASE cpu_state \in {"stmem", "ldmem"}
    <3>1. cpu_state' \in {cpu_state, "fetch", "trap"}
      <4>1. cpu_state = "stmem" => cpu_state' \in {"stmem", "fetch", "trap"}
        BY <1>1, WorkCases DEF Stmem, MemoryAccess, Goto
      <4>2. cpu_state = "ldmem" => cpu_state' \in {"ldmem", "fetch", "trap"}
        BY <1>1, WorkCases DEF Ldmem, MemoryAccess, Goto
      <4> QED  BY <2>3, <4>1, <4>2
    <3>2. mem_do_prefetch' /\ cpu_state' = cpu_state
      BY <1>4, <2>3, <3>1 DEF Executing, Accessing, Mid
    <3>3. mem_do_prefetch /\ ~mem_done(in)
      BY <1>1, <2>3, <3>2, WorkCases DEF Stmem, Ldmem, MemoryAccess, Request
    <3> QED
      BY <1>1, <2>3, <3>3 DEF TriggerInv, Fetching, Executing, Accessing, Mid
  <2> QED  BY <1>2, <2>1, <2>2, <2>3
<1> QED  BY <1>2, <1>3, <1>4, InsnsKept DEF Execute, Mid

(* An edge preserves LaunchInv: an instruction keeps its registers. *)
LEMMA LaunchStep ==
    ASSUME CoreInv, NEW in \in Inputs, Edge(in)
    PROVE  LaunchInv'
<1>1. TypeInv /\ PowerInv /\ TriggerInv /\ LaunchInv /\ DecodedInv /\ DecoderInv
  BY DEF CoreInv, ControlInv, MemoryInv
<1>2. long' = long  BY DEF Edge, programVars
<1>4. CASE Reset(in)  BY <1>4 DEF Reset, LaunchInv, Executing, Mid
<1>5. CASE Stopped(in)
  BY <1>5 DEF Stopped, Goto, LaunchInv, Executing, Mid
<1>6. CASE AtWork(in) /\ cpu_state = "fetch"
  <2>1. CASE ~Launch(in)
    <3>1. cpu_state' \in {"fetch", "trap"}
      BY <1>1, <1>6, <2>1, WorkCases DEF EnterIrq, WaitIrq, AwaitInsn, Goto
    <3> QED  BY <3>1 DEF LaunchInv, Executing, Mid
  <2>2. CASE Launch(in) 
    <3>1. /\ launched' = CurrentPc /\ reg_pc' = CurrentPc /\ latched_compr' = compressed_instr
          /\ reg_next_pc' = Plus(CurrentPc, IF insn1.kind = "jal" THEN insn1.imm ELSE Size)
          /\ irq_state' = irq_state /\ ~latched_stalu' /\ decoder_trigger /\ ~TakesIrq
          /\ insn1.kind = "jal" => cpu_state' # "ld_rs1"
      BY <2>2 DEF Launch, FetchNoIrq, Fetch, Goto
    <3>2. irq_state = 0  BY <3>1, <1>1 DEF TakesIrq, TypeInv, TypeOK
    <3>3. /\ Sequential /\ insn1.raw.lo = reg_next_pc
          /\ compressed_instr <=> ~Long(reg_next_pc)
      BY <1>1, <1>6, <3>1 DEF DecodedInv, Decoded
    <3>4. CurrentPc = reg_next_pc  BY <3>2, <3>3 DEF Sequential, CurrentPc
    <3>5. insn1' = insn1 /\ (compressed_instr' <=> compressed_instr)
      BY <1>6, <3>1, Calm, InsnsKept
    <3>6. cpu_state' = "ld_rs1" => reg_next_pc' = Following(CurrentPc)
      BY <3>1, <3>3, <3>4 DEF Following, Size, Size2
    <3>7. cpu_state' \in {"fetch", "ld_rs1", "trap"}  BY <2>2 DEF Launch, Goto
    <3> QED
      BY <1>2, <3>1, <3>2, <3>3, <3>4, <3>5, <3>6, <3>7
      DEF LaunchInv, Executing, Accessing, Mid, Following, Size2, Long
  <2> QED  BY <2>1, <2>2
<1>7. CASE AtWork(in) /\ cpu_state # "fetch"
  <2>1. Mid => ~latched_stalu' \/ cpu_state' \notin {"ld_rs1", "exec", "shift", "stmem", "ldmem"}
    BY <1>1, <1>7, WorkCases, Calm
    DEF LdRs1, ExecBranch, Exec, Shift, Stmem, Ldmem, MemoryAccess, Goto, LaunchInv
  <2> QED
    BY <1>1, <1>2, <1>7, <2>1, Stays DEF LaunchInv, Following, Size2, Mid, Executing, Long
<1> QED  BY <1>1, <1>4, <1>5, <1>6, <1>7, EdgeCases, WorkCases

(* The memory interface rests when nothing is asked of it, and a fetch ends *)
(* with its data.                                                           *)
LEMMA Resting ==
    ASSUME CoreInv, NEW in \in Inputs, Edge(in), AtWork(in)
    PROVE  /\ mem_state = 0 /\ Quiet => Idle(in)
           /\ mem_do_rinst /\ mem_done(in) => EndFetch(in)
           /\ Mid /\ Quiet => mem_state = 0
<1>1. MemStep(in)  BY MemCases DEF Edge
<1>2. mem_state = 0 /\ Quiet => Idle(in)
  BY <1>1
  DEF MemStep, BeginFetch, BeginLoad, BeginStore, OnGoing, BeginSecond, EndPrefetch,
      EndFetch, EndData, Quiet, Fetching
<1>3. mem_do_rinst /\ mem_done(in) => EndFetch(in)
  BY <1>1 DEF MemStep, Idle, Begin, BeginFetch, BeginLoad, BeginStore, OnGoing, BeginSecond,
              EndPrefetch, EndData, Quiet, Fetching
<1>4. Mid /\ Quiet => mem_state = 0
  BY DEF CoreInv, ControlInv, MemoryInv, BegunInv, Quiet, Fetching, TypeInv, TypeOK
<1> QED  BY <1>2, <1>3, <1>4

(* An edge preserves BranchInv: only a branch leads away while a fetch is   *)
(* under way.                                                               *)
LEMMA BranchStep ==
    ASSUME CoreInv, NEW in \in Inputs, Edge(in)
    PROVE  BranchInv'
<1>1. TypeInv /\ RequestInv /\ TriggerInv /\ DecoderInv /\ LaunchInv /\ BranchInv /\ BegunInv
      /\ PowerInv
  BY DEF CoreInv, ControlInv, MemoryInv
<1>2. CASE Reset(in)  BY <1>2 DEF Reset, BranchInv, Mid
<1>3. CASE Stopped(in)  BY <1>3 DEF Stopped, Goto, BranchInv, Mid
<1>4. CASE AtWork(in) /\ cpu_state = "fetch"
  <2>1. ~latched_branch' /\ cpu_state' \in {"fetch", "trap"} => BranchInv'
    BY DEF BranchInv, Mid
  <2>2. CASE ~Launch(in)
    <3>1. ~latched_branch' /\ cpu_state' \in {"fetch", "trap"}
      BY <1>1, <1>4, <2>2, WorkCases DEF EnterIrq, WaitIrq, AwaitInsn, Goto
    <3> QED  BY <2>1, <3>1
  <2>3. CASE Launch(in)
    <3>1. decoder_trigger /\ ~mem_done(in) /\ ~BusError /\ ~Fetching /\ Quiet
      BY <1>1, <1>4, <2>3, Calm DEF Launch, TriggerInv, RequestInv, Quiet
    <3>2. mem_state = 0  BY <1>1, <1>4, <3>1 DEF BegunInv, Decoded
    <3>3. mem_state' = 0  BY <1>4, <3>1, <3>2, Resting DEF Idle
    <3>4. ~latched_store' /\ ~alu_out_0' /\ ~do_waitirq' /\ ~decoder_trigger' /\ ~latched_stalu'
      BY <2>3, <3>1 DEF Launch, FetchNoIrq, Fetch, Trigger
    <3>5. \/ cpu_state' = "fetch" /\ ~mem_do_prefetch'
          \/ cpu_state' = "ld_rs1" /\ ~latched_branch'
      BY <2>3, <3>1 DEF Launch, Goto, Request, Fetching
    <3> QED  BY <3>3, <3>4, <3>5 DEF BranchInv, Mid
  <2> QED  BY <2>2, <2>3
<1>5. CASE AtWork(in) /\ cpu_state = "ld_rs1"
  <2>1. ~latched_branch /\ ~latched_store /\ ~mem_done(in) /\ ~mem_do_rinst /\ ~BusError
    BY <1>1, <1>5, Calm DEF BranchInv, Mid
  <2>2. ~decoder_trigger' /\ ~do_waitirq' /\ insn1' = insn1 /\ insn2' = insn2
        /\ (latched_stalu' <=> latched_stalu)
    BY <1>1, <1>5, <2>1, WorkCases, InsnsKept DEF LdRs1, Execute, Trigger, TriggerInv
  <2>3. CASE RetIrq(in)
    <3>1. Quiet
      BY <1>1, <1>5, <2>3
      DEF RetIrq, RequestInv, DecoderInv, Executing, Accessing, Mid, Operation, Quiet, Fetching
    <3>2. mem_state' = 0  BY <1>5, <3>1, Resting DEF Idle, Mid
    <3>3. ~mem_do_prefetch' /\ ~mem_do_rinst' /\ cpu_state' = "fetch"
      BY <2>1, <2>3, <3>1 DEF RetIrq, Request, Goto, Quiet, Fetching
    <3> QED  BY <2>2, <3>2, <3>3 DEF BranchInv, Mid
  <2>4. CASE ToOtherState(in)
    <3>1. ~latched_branch' /\ ~latched_store' /\ cpu_state' = NextState
          /\ (alu_out_0' => Operation = "branch")
      BY <2>1, <2>4 DEF ToOtherState, Goto
    <3>2. Operation' = Operation  BY <2>2 DEF Operation
    <3> QED  BY <3>1, <3>2 DEF BranchInv, Mid, NextState
  <2>5. CASE ~RetIrq(in) /\ ~ToOtherState(in)
    <3>1. ~latched_branch' /\ ~alu_out_0' /\ cpu_state' \in {"ld_rs1", "fetch", "trap"}
          /\ (cpu_state' = "ld_rs1" => ~latched_store')
      BY <1>1, <1>5, <2>1, <2>5, WorkCases
      DEF AskUnits, TakeAnswer, Refuse, ReadRegister, Goto
    <3> QED  BY <3>1 DEF BranchInv, Mid
  <2> QED  BY <2>3, <2>4, <2>5
<1>6. CASE AtWork(in) /\ cpu_state = "exec"
  <2>1. /\ ~BusError /\ ~latched_stalu /\ ~decoder_trigger /\ insn2 = insn1
        /\ reg_pc = launched /\ ~mem_do_rdata /\ ~mem_do_wdata
    BY <1>1, <1>6, Calm
    DEF LaunchInv, TriggerInv, DecoderInv, RequestInv, Executing, Accessing, Mid
  <2>2. CASE ExecBranch(in)
    <3>1. /\ latched_branch' = alu_out_0 /\ latched_store' = alu_out_0
          /\ alu_out_0' = alu_out_0 /\ latched_stalu' = latched_stalu
          /\ reg_out' = Plus(launched, insn1.imm) /\ launched' = launched
          /\ ~do_waitirq' /\ (decoder_trigger' => ~alu_out_0)
          /\ cpu_state' = IF mem_done(in) THEN "fetch" ELSE "exec"
      BY <2>1, <2>2 DEF ExecBranch, Execute, Goto
    <3>2. CASE mem_done(in)
      <4>1. mem_do_rinst  BY <2>1, <3>2, <1>1, <1>6 DEF mem_done, RequestInv
      <4>2. mem_state' = 0 /\ ~mem_do_prefetch'
        BY <1>6, <2>2, <3>2, <4>1, Resting DEF EndFetch, ExecBranch, Request
      <4> QED  BY <2>1, <3>1, <3>2, <4>2 DEF BranchInv, Mid
    <3>3. CASE ~mem_done(in)
      <4>1. insn1' = insn1 /\ insn2' = insn2 /\ Operation = "branch" /\ Operation' = "branch"
        BY <2>1, <2>2, <3>3, InsnsKept DEF Operation, ExecBranch
      <4> QED  BY <3>1, <3>3, <4>1 DEF BranchInv, Mid
    <3> QED  BY <3>2, <3>3
  <2>3. CASE Exec(in)
    <3>1. cpu_state' = "fetch" /\ (latched_branch' => Operation = "jalr")
      BY <2>1, <2>3 DEF Exec, Goto
    <3>2. SUFFICES ASSUME Operation = "jalr" PROVE BranchInv'
      BY <3>1 DEF BranchInv, Mid
    <3>3. Quiet /\ ~mem_do_prefetch /\ ~mem_do_rinst
      BY <1>1, <1>6, <3>2 DEF RequestInv, Quiet, Fetching
    <3>4. mem_state' = 0  BY <1>6, <3>3, Resting DEF Idle, Mid
    <3>5. ~mem_do_prefetch' /\ ~mem_do_rinst' /\ ~decoder_trigger' /\ ~do_waitirq'
      BY <2>3, <3>3 DEF Exec, Execute, Request, Trigger
    <3> QED  BY <3>1, <3>4, <3>5 DEF BranchInv, Mid
  <2> QED  BY <1>1, <1>6, <2>2, <2>3, WorkCases
<1>7. CASE AtWork(in) /\ cpu_state \in {"shift", "stmem", "ldmem"}
  <2>1. ~latched_branch /\ ~alu_out_0 /\ (cpu_state = "stmem" => ~latched_store)
    BY <1>1, <1>7 DEF BranchInv, Mid
  <2>2. CASE Shift(in)
    BY <2>1, <2>2 DEF Shift, Execute, Goto, BranchInv, Mid
  <2>3. CASE Stmem(in)
    BY <2>1, <2>3 DEF Stmem, MemoryAccess, Execute, Goto, BranchInv, Mid
  <2>4. CASE Ldmem(in)
    BY <2>1, <2>4 DEF Ldmem, MemoryAccess, Execute, Goto, BranchInv, Mid
  <2> QED  BY <1>1, <1>7, <2>2, <2>3, <2>4, WorkCases
<1> QED  BY <1>1, <1>2, <1>3, <1>4, <1>5, <1>6, <1>7, EdgeCases, WorkCases

(* An edge preserves EntryInv: the handler is entered with the memory       *)
(* interface idle.                                                          *)
LEMMA EntryStep ==
    ASSUME CoreInv, NEW in \in Inputs, Edge(in)
    PROVE  EntryInv'
<1>1. TypeInv /\ RequestInv /\ TriggerInv /\ EntryInv /\ BegunInv /\ LaunchInv
  BY DEF CoreInv, ControlInv, MemoryInv
<1>2. irq_state \in 0 .. 2  BY <1>1 DEF TypeInv, TypeOK
<1>3. CASE Reset(in)  BY <1>3 DEF Reset, EntryInv
<1>4. CASE Stopped(in)  BY <1>1, <1>4 DEF Stopped, EntryInv
<1>5. CASE AtWork(in) /\ cpu_state # "fetch"
  <2>1. irq_state = 0 /\ irq_state' = irq_state
    BY <1>1, <1>5, WorkCases
    DEF EntryInv, LdRs1, ExecBranch, Exec, Shift, Stmem, Ldmem, MemoryAccess, Execute
  <2> QED  BY <2>1 DEF EntryInv
<1>6. CASE AtWork(in) /\ cpu_state = "fetch" /\ ~EnterIrq(in)
  <2>1. irq_state = 0 /\ irq_state' = irq_state
    BY <1>1, <1>6, WorkCases DEF WaitIrq, AwaitInsn, Launch, FetchNoIrq, TakesIrq
  <2> QED  BY <2>1 DEF EntryInv
<1>7. CASE AtWork(in) /\ EnterIrq(in) /\ irq_state # 2
  <2>1. cpu_state = "fetch" /\ TakesIrq  BY <1>7 DEF EnterIrq, Fetch
  <2>2. (irq_state = 0 /\ decoder_trigger) \/ irq_state = 1
    BY <1>2, <1>7, <2>1 DEF TakesIrq
  <2>3. /\ Quiet /\ mem_state = 0 /\ ~mem_done(in) /\ ~BusError
        /\ ~mem_do_prefetch /\ ~mem_do_rinst
    BY <1>1, <1>7, <2>1, <2>2, Calm
    DEF RequestInv, TriggerInv, EntryInv, BegunInv, Decoded, Quiet, Fetching
  <2>4. mem_state' = 0  BY <1>7, <2>3, Resting DEF Idle
  <2>5. irq_state' = irq_state + 1
    BY <1>7, <2>2 DEF EnterIrq
  <2>6. /\ ~latched_store' /\ ~latched_branch' /\ ~mem_do_prefetch' /\ ~do_waitirq'
        /\ cpu_state' = "fetch" /\ ~decoder_trigger'
        /\ latched_rd' = IrqRegister
        /\ mem_do_rinst' <=> irq_state = 1
    BY <1>7, <2>2, <2>3 DEF EnterIrq, Fetch, Request, Goto, Trigger
  <2> QED  BY <1>2, <1>7, <2>2, <2>4, <2>5, <2>6 DEF EntryInv, IrqRegister
<1>8. CASE AtWork(in) /\ EnterIrq(in) /\ irq_state = 2
  BY <1>8 DEF EnterIrq, EntryInv
<1> QED  BY <1>1, <1>3, <1>4, <1>5, <1>6, <1>7, <1>8, EdgeCases, WorkCases

-----------------------------------------------------------------------------
(* The memory interface.                                                    *)

(* As long as an access is not done it is asked for, and a fetch is one of  *)
(* the same instruction, unless a branch is taken meanwhile.                *)
LEMMA Holding ==
    ASSUME CoreInv, NEW in \in Inputs, Edge(in), AtWork(in), ~mem_done(in)
    PROVE  /\ mem_do_prefetch => mem_do_prefetch'
           /\ mem_do_rinst => mem_do_rinst'
           /\ mem_do_rdata => mem_do_rdata' /\ ~mem_do_wdata'
           /\ mem_do_wdata => mem_do_wdata' /\ ~mem_do_rdata'
           /\ mem_do_rdata \/ mem_do_wdata => ~Fetching' /\ Accessing
                                              /\ (Accessing' \/ cpu_state' = "trap")
           /\ Fetching => /\ ~mem_do_rdata' /\ ~mem_do_wdata' /\ ~Decoded
                          /\ Sequential => reg_next_pc' = reg_next_pc
           /\ Fetching /\ cpu_state = "fetch" =>
                  Sequential' /\ reg_next_pc' = next_pc /\ cpu_state' = "fetch"
           /\ Fetching /\ cpu_state # "fetch" =>
                  /\ reg_next_pc' = reg_next_pc /\ irq_state' = 0
                  /\ ~Sequential' =>
                         cpu_state = "exec" /\ cpu_state' = "exec" /\ latched_branch' /\ mem_do_rinst
                  /\ latched_branch => latched_branch'
<1>1. TypeInv /\ RequestInv /\ TriggerInv /\ EntryInv /\ BranchInv /\ LaunchInv /\ DecoderInv
  BY DEF CoreInv, ControlInv
<1>2. /\ mem_do_rdata => ~Fetching /\ ~mem_do_wdata
      /\ mem_do_wdata => ~Fetching
  BY AtWorkFacts
<1>3. CASE cpu_state = "fetch"
  <2>1. ~mem_do_rdata /\ ~mem_do_wdata /\ ~BusError  BY <1>1, <1>3, Calm DEF RequestInv
  <2>2. CASE Fetching
    <3>1. ~decoder_trigger /\ ~do_waitirq /\ irq_state # 1 /\ ~Decoded
      BY <1>1, <1>3, <2>2 DEF TriggerInv, EntryInv, Decoded, Accessing, Fetching
    <3>2. (EnterIrq(in) /\ irq_state = 2) \/ AwaitInsn(in)
      <4>1. EnterIrq(in) => irq_state # 0  BY <3>1 DEF EnterIrq, TakesIrq
      <4>2. irq_state \in 0 .. 2  BY <1>1 DEF TypeInv, TypeOK
      <4>3. ~WaitIrq(in) /\ ~Launch(in)  BY <3>1 DEF WaitIrq, Launch, Waiting
      <4>4. EnterIrq(in) \/ AwaitInsn(in)  BY <1>1, <1>3, <4>3, WorkCases
      <4> QED  BY <3>1, <4>1, <4>2, <4>4
    <3>3. ~latched_branch' /\ irq_state' = 0
      BY <1>1, <3>2 DEF EnterIrq, AwaitInsn, FetchNoIrq, TakesIrq, TypeInv, TypeOK
    <3>4. reg_next_pc' = CurrentPc /\ cpu_state' = "fetch"
      BY <2>1, <3>2 DEF EnterIrq, AwaitInsn, Goto
    <3>5. mem_do_rdata' = FALSE /\ mem_do_wdata' = FALSE
          /\ (mem_do_prefetch => mem_do_prefetch')
          /\ (mem_do_rinst => mem_do_rinst')
      BY <2>1, <3>1, <3>2 DEF EnterIrq, AwaitInsn, Request
    <3>6. CurrentPc = next_pc
      <4>1. CASE latched_branch
        <5>1. mem_do_rinst /\ ~latched_stalu
          BY <1>1, <1>3, <2>2, <4>1 DEF BranchInv, Fetching
        <5> QED  BY <4>1, <5>1 DEF CurrentPc, next_pc
      <4>2. CASE ~latched_branch  BY <3>1, <4>2 DEF CurrentPc, next_pc
      <4> QED  BY <4>1, <4>2
    <3>7. Sequential => next_pc = reg_next_pc  BY DEF Sequential, next_pc
    <3> QED  BY <1>3, <2>1, <3>1, <3>3, <3>4, <3>5, <3>6, <3>7 DEF Sequential
  <2> QED  BY <1>3, <2>1, <2>2 DEF Fetching
<1>4. CASE cpu_state = "ld_rs1"
  <2>1. ~mem_do_rdata /\ ~mem_do_wdata /\ ~BusError /\ ~mem_do_rinst /\ ~Decoded
    BY <1>1, <1>4, Calm DEF RequestInv, TriggerInv, Decoded, Accessing
  <2>2. irq_state' = 0 /\ reg_next_pc' = reg_next_pc /\ ~latched_branch
    BY <1>1, <1>4, WorkCases DEF LdRs1, Execute, LaunchInv, BranchInv, Mid
  <2>3. mem_do_prefetch => ~RetIrq(in)
    BY <1>1, <1>4 DEF RequestInv, RetIrq, Operation, DecoderInv, Executing, Accessing, Mid
  <2>4. (mem_do_prefetch => mem_do_prefetch') /\ ~mem_do_rdata' /\ ~mem_do_wdata'
    BY <1>1, <1>4, <2>1, WorkCases
    DEF AskUnits, TakeAnswer, Refuse, ReadRegister, RetIrq, ToOtherState, Request
  <2>5. mem_do_prefetch => ~latched_branch'
    BY <1>1, <1>4, <2>2, <2>3, WorkCases
    DEF AskUnits, TakeAnswer, Refuse, ReadRegister, RetIrq, ToOtherState
  <2> QED  BY <1>4, <2>1, <2>2, <2>4, <2>5 DEF Fetching, Sequential
<1>5. CASE cpu_state \in {"exec", "shift"}
  <2>1. /\ ~mem_do_rdata /\ ~mem_do_wdata /\ ~BusError /\ ~Decoded /\ irq_state = 0
        /\ ~latched_branch \/ alu_out_0
    BY <1>1, <1>5, Calm
    DEF RequestInv, TriggerInv, Decoded, Accessing, LaunchInv, BranchInv, Mid
  <2>2. cpu_state = "shift" => ~latched_branch /\ mem_do_prefetch /\ ~mem_do_rinst
    BY <1>1 DEF RequestInv, BranchInv, Mid
  <2>3. CASE Shift(in)
    BY <1>5, <2>1, <2>2, <2>3 DEF Shift, Execute, Request, Fetching, Sequential
  <2>4. CASE ExecBranch(in)
    BY <1>1, <1>5, <2>1, <2>4
    DEF ExecBranch, Execute, Request, Goto, Fetching, Sequential, RequestInv
  <2>5. CASE Exec(in)
    BY <1>1, <1>5, <2>1, <2>5 DEF Exec, Execute, Request, Fetching, Sequential, RequestInv, BranchInv, Mid
  <2> QED  BY <1>1, <1>5, <2>3, <2>4, <2>5, WorkCases
<1>6. CASE cpu_state \in {"stmem", "ldmem"}
  <2>1. /\ ~latched_branch /\ irq_state = 0
        /\ mem_do_prefetch <=> mem_do_rinst
        /\ mem_do_prefetch <=> ~mem_do_rdata /\ ~mem_do_wdata
        /\ cpu_state = "stmem" => ~mem_do_rdata
        /\ cpu_state = "ldmem" => ~mem_do_wdata
        /\ mem_do_prefetch => ~Decoded
    BY <1>1, <1>6
    DEF RequestInv, LaunchInv, BranchInv, Mid, Decoded, Accessing, TriggerInv, Fetching
  <2>2. CASE Stmem(in)
    <3>1. /\ reg_next_pc' = reg_next_pc /\ irq_state' = 0 /\ latched_branch' = latched_branch
          /\ mem_do_prefetch' <=> mem_do_prefetch
          /\ mem_do_rinst' <=> mem_do_rinst
          /\ mem_do_rdata' <=> mem_do_rdata
          /\ mem_do_wdata' <=> mem_do_wdata
          /\ cpu_state' \in {"stmem", "trap"} /\ cpu_state = "stmem"
      BY <1>1, <2>1, <2>2 DEF Stmem, MemoryAccess, Execute, Request, Goto
    <3> QED  BY <2>1, <3>1 DEF Fetching, Sequential, Accessing
  <2>3. CASE Ldmem(in)
    <3>1. /\ reg_next_pc' = reg_next_pc /\ irq_state' = 0 /\ latched_branch' = latched_branch
          /\ mem_do_prefetch' <=> mem_do_prefetch
          /\ mem_do_rinst' <=> mem_do_rinst
          /\ mem_do_rdata' <=> mem_do_rdata
          /\ mem_do_wdata' <=> mem_do_wdata
          /\ cpu_state' \in {"ldmem", "trap"} /\ cpu_state = "ldmem"
      BY <1>1, <2>1, <2>3 DEF Ldmem, MemoryAccess, Execute, Request, Goto
    <3> QED  BY <2>1, <3>1 DEF Fetching, Sequential, Accessing
  <2> QED  BY <1>1, <1>6, <2>2, <2>3, WorkCases
<1> QED  BY <1>1, <1>3, <1>4, <1>5, <1>6, WorkCases

(* While it is fetched on, where to fetch from is kept, and so is the       *)
(* buffer.                                                                  *)
LEMMA FetchingOn ==
    ASSUME CoreInv, NEW in \in Inputs, Edge(in), AtWork(in), ~mem_done(in), Fetching
    PROVE  /\ Fetching' /\ ~mem_do_rdata' /\ ~mem_do_wdata'
           /\ Sequential => next_pc = reg_next_pc
           /\ Sequential' => next_pc' = reg_next_pc'
           /\ Sequential => ~clear_prefetched_high_word(in)
           /\ latched_branch => clear_prefetched_high_word(in)
           /\ Sequential' => reg_next_pc' = next_pc
           /\ Sequential' /\ cpu_state # "fetch" => Sequential
           /\ Sequential' /\ mem_state # 0 => Sequential
           /\ ~Sequential' => /\ cpu_state = "exec" /\ cpu_state' = "exec" /\ latched_branch'
                              /\ mem_do_rinst /\ mem_do_prefetch
<1>1. TypeInv /\ RequestInv /\ BranchInv /\ EntryInv /\ LaunchInv /\ BufferInv
  BY DEF CoreInv, ControlInv, MemoryInv
<1>2. Fetching' /\ ~mem_do_rdata' /\ ~mem_do_wdata'  BY Holding DEF Fetching
<1>3. /\ Sequential => next_pc = reg_next_pc
      /\ Sequential' => next_pc' = reg_next_pc'
  BY DEF Sequential, next_pc
<1>4. Sequential => ~clear_prefetched_high_word(in)
  BY <1>1 DEF AtWork, Sequential, clear_prefetched_high_word, BufferInv
<1>5. latched_branch => clear_prefetched_high_word(in)  BY DEF clear_prefetched_high_word
<1>6. ~Sequential' => /\ cpu_state = "exec" /\ cpu_state' = "exec" /\ latched_branch'
                      /\ mem_do_rinst /\ mem_do_prefetch
  BY <1>1, Holding DEF RequestInv
<1>7. ASSUME cpu_state # "fetch", Sequential' PROVE Sequential /\ reg_next_pc' = next_pc
  <2>1. ~latched_branch  BY <1>7, Holding DEF Sequential
  <2>2. irq_state = 0  BY <1>1, <1>7 DEF EntryInv
  <2> QED  BY <1>3, <1>7, <2>1, <2>2, Holding DEF Sequential
<1>8. cpu_state = "fetch" => reg_next_pc' = next_pc  BY Holding
<1>9. cpu_state = "fetch" /\ mem_state # 0 => Sequential
  BY <1>1 DEF BranchInv, EntryInv, Sequential
<1> QED  BY <1>2, <1>3, <1>4, <1>5, <1>6, <1>7, <1>8, <1>9

(* An edge preserves AccessInv: what is under way stays what is asked for,  *)
(* though the main state machine moves on.                                  *)
LEMMA AccessStep ==
    ASSUME CoreInv, NEW in \in Inputs, Edge(in)
    PROVE  AccessInv'
<1>1. TypeInv /\ PowerInv /\ RequestInv /\ BranchInv /\ AccessInv /\ BegunInv
  BY DEF CoreInv, ControlInv, MemoryInv
<1>2. MemEdge(in) /\ PowerInv'  BY PowerStep DEF Edge
<1>3. CASE Reset(in)
  <2>1. ResetMem(in) /\ ~last_mem_valid' /\ ~in.resetn  BY <1>2, <1>3 DEF Reset, MemEdge
  <2>2. mem_state' = 0 /\ ~mem_valid' /\ ~mem_la_secondword'  BY <2>1 DEF ResetMem
  <2> QED  BY <2>1, <2>2 DEF AccessInv
<1>4. CASE Stopped(in)
  <2>1. CASE cpu_state = "trap"  BY <1>4, <2>1 DEF Stopped, AccessInv
  <2>2. CASE cpu_state = "none"
    <3>1. started' = "off"  BY <1>1, <1>4, <2>2 DEF Stopped, Edge, Power, PowerInv
    <3> QED  BY <1>2, <3>1 DEF PowerInv, AccessInv
  <2> QED  BY <1>4, <2>1, <2>2 DEF Stopped
<1>5. CASE AtWork(in)
  <2>1. MemStep(in)  BY <1>5, DoneAtWork DEF DoneFacts
  <2>2. ~trap  BY <1>5, AtWorkFacts
  <2>3. mem_la_firstword <=> Fetching /\ Odd(next_pc) /\ ~mem_la_secondword
    BY DEF mem_la_firstword, Odd
  <2>4. mem_la_firstword' <=> Fetching' /\ Odd(next_pc)' /\ ~mem_la_secondword'
    BY DEF mem_la_firstword, Odd
  <2>5. mem_la_use_prefetched_high_word(in) <=>
            mem_la_firstword /\ prefetched_high_word /\ ~clear_prefetched_high_word(in)
    BY DEF mem_la_use_prefetched_high_word
  <2>6. CASE Idle(in) \/ EndFetch(in) \/ EndData(in)
    BY <2>6 DEF Idle, EndFetch, EndData, EndAccess, AccessInv
  <2>7. CASE BeginFetch(in)
    <3>1. ~mem_done(in) /\ Fetching /\ mem_state = 0 /\ ~mem_la_secondword /\ KeepsBuffer(in)
          /\ ~last_mem_valid' /\ ~mem_la_secondword'
          /\ mem_state' = 1 /\ mem_instr' /\ ~mem_wstrb'
          /\ (mem_valid' <=> ~mem_la_use_prefetched_high_word(in))
      BY <1>1, <2>2, <2>7 DEF BeginFetch, Begin, AccessInv
    <3>2. mem_valid' <=> ~(mem_la_firstword' /\ prefetched_high_word' /\ Sequential')
      <4>1. CASE Sequential'
        <5>1. next_pc' = next_pc  BY <1>5, <3>1, <4>1, FetchingOn
        <5>2. mem_la_firstword' <=> mem_la_firstword
          BY <1>5, <2>3, <2>4, <3>1, <5>1, FetchingOn DEF Odd
        <5> QED  BY <2>5, <3>1, <4>1, <5>2 DEF KeepsBuffer
      <4>2. CASE ~Sequential'
        <5>1. latched_branch
          BY <1>1, <1>5, <3>1, <4>2, FetchingOn DEF BegunInv
        <5> QED  BY <1>5, <2>5, <3>1, <4>2, <5>1, FetchingOn
      <4> QED  BY <4>1, <4>2
    <3> QED  BY <1>5, <3>1, <3>2, FetchingOn DEF AccessInv
  <2>8. CASE BeginLoad(in)
    <3>1. ~Fetching' /\ mem_do_rdata' /\ ~mem_do_wdata'
      BY <1>5, <2>8, Holding DEF BeginLoad, Begin
    <3> QED  BY <2>4, <2>8, <3>1 DEF BeginLoad, Begin, AccessInv
  <2>9. CASE BeginStore(in)
    <3>1. ~Fetching' /\ mem_do_wdata' /\ ~mem_do_rdata'
      BY <1>5, <2>9, Holding DEF BeginStore, Begin
    <3> QED  BY <2>4, <2>9, <3>1 DEF BeginStore, Begin, AccessInv
  <2>10. CASE OnGoing(in) /\ ~Fetching
    <3>1. /\ mem_do_rdata \/ mem_do_wdata => ~Fetching'
          /\ mem_do_rdata => mem_do_rdata' /\ ~mem_do_wdata'
          /\ mem_do_wdata => mem_do_wdata' /\ ~mem_do_rdata'
      BY <1>5, <2>10, Holding DEF OnGoing
    <3>2. mem_state \in 1 .. 2 /\ ~mem_la_secondword
          /\ (mem_state = 1 => mem_do_rdata) /\ (mem_state = 2 => mem_do_wdata)
      BY <1>1, <2>2, <2>10 DEF OnGoing, AccessInv, Fetching, TypeInv, TypeOK
    <3>3. ~mem_la_firstword /\ ~mem_la_firstword'  BY <2>3, <2>4, <2>10, <3>1, <3>2
    <3>4. mem_do_rdata => ~mem_la_firstword_reg'
      BY <1>1, <2>2, <2>10, <3>3 DEF OnGoing, FirstwordOfXfer, AccessInv
    <3> QED
      BY <1>1, <2>2, <2>10, <3>1, <3>2, <3>3, <3>4 DEF OnGoing, AccessInv
  <2>11. CASE OnGoing(in) /\ Fetching
    <3>1. ~mem_done(in) /\ KeepsBuffer(in) /\ mem_state # 0
          /\ (mem_do_rinst => ~mem_la_use_prefetched_high_word(in))
          /\ mem_state # 2 /\ (mem_la_secondword' <=> mem_la_secondword)
          /\ (mem_state = 3 => ~mem_do_rinst)
      BY <1>1, <1>5, <2>2, <2>11, AtWorkFacts DEF OnGoing, AccessInv
    <3>2. mem_do_rinst => mem_do_rinst'  BY <1>5, <3>1, Holding
    <3>3. ASSUME mem_state = 1
          PROVE  mem_valid' <=> ~(mem_la_firstword' /\ prefetched_high_word' /\ Sequential')
      <4>1. mem_valid' <=> ~(mem_la_firstword /\ prefetched_high_word /\ Sequential)
        BY <1>1, <2>2, <2>11, <3>3 DEF OnGoing, AccessInv
      <4>2. CASE Sequential'
        <5>1. Sequential /\ next_pc' = next_pc /\ ~clear_prefetched_high_word(in)
          BY <1>5, <2>11, <3>1, <4>2, FetchingOn
        <5>2. mem_la_firstword' <=> mem_la_firstword
          BY <1>5, <2>3, <2>4, <2>11, <3>1, <5>1, FetchingOn DEF Odd
        <5> QED  BY <3>1, <4>1, <4>2, <5>1, <5>2 DEF KeepsBuffer
      <4>3. CASE ~Sequential'
        <5>1. mem_do_rinst  BY <1>5, <2>11, <3>1, <4>3, FetchingOn
        <5>2. ~(mem_la_firstword /\ prefetched_high_word /\ Sequential)
          BY <1>5, <2>5, <2>11, <3>1, <5>1, FetchingOn
        <5> QED  BY <4>1, <4>3, <5>2
      <4> QED  BY <4>2, <4>3
    <3>4. ASSUME mem_state = 3
          PROVE  mem_do_prefetch' /\ Sequential' /\ ~Odd(reg_next_pc)'
      <4>1. mem_do_prefetch /\ ~mem_do_rinst /\ Sequential /\ ~Odd(reg_next_pc)
        BY <1>1, <2>2, <3>1, <3>4 DEF AccessInv
      <4>2. mem_do_prefetch' /\ Sequential'  BY <1>5, <2>11, <3>1, <4>1, FetchingOn, Holding
      <4>3. reg_next_pc' = reg_next_pc  BY <1>5, <2>11, <3>1, <4>1, <4>2, FetchingOn
      <4> QED  BY <4>1, <4>2, <4>3 DEF Odd
    <3> QED
      BY <1>1, <1>5, <2>2, <2>11, <3>1, <3>2, <3>3, <3>4, FetchingOn DEF OnGoing, AccessInv
  <2>12. CASE BeginSecond(in)
    <3>1. mem_do_rinst' /\ Fetching' /\ ~mem_do_rdata'
      BY <1>5, <2>12, Holding DEF BeginSecond, Fetching
    <3> QED  BY <2>4, <2>12, <3>1 DEF BeginSecond, AccessInv
  <2>13. CASE EndPrefetch(in)
    <3>1. ~mem_done(in) /\ Fetching /\ ~mem_do_rinst /\ mem_do_prefetch
      BY <2>13 DEF EndPrefetch, Fetching
    <3>2. mem_do_prefetch' /\ Sequential' /\ reg_next_pc' = reg_next_pc
      BY <1>5, <2>13, <3>1, FetchingOn, Holding DEF EndPrefetch
    <3>3. ~Odd(reg_next_pc)'  BY <2>13, <3>2 DEF EndPrefetch, Odd
    <3> QED  BY <2>13, <3>2, <3>3 DEF EndPrefetch, EndAccess, AccessInv
  <2> QED
    BY <2>1, <2>6, <2>7, <2>8, <2>9, <2>10, <2>11, <2>12, <2>13 DEF MemStep
<1> QED  BY <1>1, <1>3, <1>4, <1>5, EdgeCases

(* An edge preserves BegunInv: a prefetch has begun before its instruction  *)
(* goes on, and none is left over.                                          *)
LEMMA BegunStep ==
    ASSUME CoreInv, NEW in \in Inputs, Edge(in)
    PROVE  BegunInv'
<1>1. TypeInv /\ RequestInv /\ TriggerInv /\ BranchInv /\ AccessInv /\ BegunInv /\ LaunchInv
      /\ DecoderInv
  BY DEF CoreInv, ControlInv, MemoryInv
<1>2. TypeInv' /\ RequestInv' /\ AccessInv'  BY TypeStep, RequestStep, AccessStep
<1>3. cpu_state' \in {"exec", "stmem", "ldmem"} /\ mem_do_prefetch' /\ mem_state' = 0 =>
          latched_branch'
  <2>1. CASE Reset(in)  BY <2>1 DEF Reset
  <2>2. CASE Stopped(in)  BY <2>2 DEF Stopped, Goto
  <2>3. CASE AtWork(in)
    <3>1. SUFFICES ASSUME cpu_state' \in {"exec", "stmem", "ldmem"}, mem_do_prefetch',
                          mem_state' = 0
                   PROVE  latched_branch'
      OBVIOUS
    <3>2. MemStep(in) /\ ~trap  BY <2>3, DoneAtWork, AtWorkFacts DEF DoneFacts
    <3>3. cpu_state \in {"ld_rs1", "exec", "stmem", "ldmem"}
      BY <1>1, <2>3, <3>1, WorkCases
      DEF EnterIrq, WaitIrq, AwaitInsn, Launch, Shift, Goto
    <3>4. mem_do_prefetch /\ ~mem_done(in)
      <4>1. mem_do_prefetch' <=> mem_do_prefetch /\ ~mem_done(in)
        <5>1. CASE cpu_state = "ld_rs1"
          BY <1>1, <2>3, <5>1, WorkCases
          DEF AskUnits, TakeAnswer, Refuse, ReadRegister, RetIrq, ToOtherState, Request
        <5>2. CASE cpu_state = "exec"
          BY <1>1, <2>3, <5>2, WorkCases DEF ExecBranch, Exec, Request
        <5>3. CASE cpu_state \in {"stmem", "ldmem"}
          BY <1>1, <2>3, <5>3, WorkCases DEF Stmem, Ldmem, MemoryAccess, Request
        <5> QED  BY <3>3, <5>1, <5>2, <5>3
      <4> QED  BY <3>1, <4>1
    <3>5. mem_state = 0 \/ EndFetch(in)
      BY <3>1, <3>2, <3>4
      DEF MemStep, OnGoing, BeginSecond, EndPrefetch, EndData, Idle, Begin,
          BeginFetch, BeginLoad, BeginStore, Fetching
    <3>6. CASE mem_state # 0
      <4>1. latched_branch /\ Fetching
        BY <3>4, <3>5, <3>6 DEF EndFetch, HasInstruction, Fetching
      <4> QED  BY <1>1, <2>3, <3>2, <3>3, <3>4, <3>6, <4>1, Holding
    <3>7. CASE mem_state = 0
      <4>1. ~Quiet /\ ~mem_do_rdata /\ ~mem_do_wdata
        BY <1>1, <2>3, <3>2, <3>4, AtWorkFacts DEF Quiet, Fetching
      <4>2. FALSE
        BY <3>1, <3>2, <3>4, <3>5, <3>7, <4>1
        DEF MemStep, Idle, BeginFetch, BeginLoad, BeginStore, OnGoing, BeginSecond,
            EndPrefetch, EndFetch, EndData, Fetching
      <4> QED  BY <4>2
    <3> QED  BY <3>6, <3>7
  <2> QED  BY <1>1, <2>1, <2>2, <2>3, EdgeCases
<1>4. cpu_state' = "fetch" /\ Decoded' => mem_state' = 0
  <2>1. SUFFICES ASSUME cpu_state' = "fetch", decoder_trigger' \/ do_waitirq'
                 PROVE  mem_state' = 0
    BY DEF Decoded, Accessing
  <2>2. AtWork(in)
    BY <1>1, <2>1, EdgeCases, Triggers DEF Reset, Stopped
  <2>3. MemStep(in)  BY <2>2, DoneAtWork DEF DoneFacts
  <2>4. CASE decoder_trigger'
    <3>1. mem_done(in)  BY <2>4, Triggers
    <3> QED
      BY <2>3, <3>1
      DEF MemStep, Idle, Begin, BeginFetch, BeginLoad, BeginStore, OnGoing, BeginSecond,
          EndPrefetch, EndFetch, EndData
  <2>5. CASE do_waitirq'
    <3>1. WaitIrq(in)
      BY <1>1, <2>2, <2>5, WorkCases
      DEF EnterIrq, AwaitInsn, Launch, LdRs1, Execute, ExecBranch, Exec, Shift, Stmem, Ldmem,
          MemoryAccess
    <3>2. cpu_state = "fetch" /\ Decoded
      BY <3>1 DEF WaitIrq, FetchNoIrq, Fetch, Waiting, Decoded
    <3>3. Quiet /\ mem_state = 0
      BY <1>1, <3>2 DEF BegunInv, RequestInv, TriggerInv, Decoded, Accessing, Quiet
    <3> QED  BY <2>2, <3>3, Resting DEF Idle
  <2> QED  BY <2>1, <2>4, <2>5
<1>5. Mid' /\ ~mem_do_prefetch' =>
          /\ mem_state' # 3
          /\ ~mem_do_rdata' => mem_state' # 1
          /\ ~mem_do_wdata' => mem_state' # 2
  <2>1. SUFFICES ASSUME Mid', ~mem_do_prefetch'
                 PROVE  /\ mem_state' # 3
                        /\ ~mem_do_rdata' => mem_state' # 1
                        /\ ~mem_do_wdata' => mem_state' # 2
    OBVIOUS
  <2>2. ~trap' /\ ~mem_do_rinst'  BY <1>2, <2>1 DEF RequestInv, Mid
  <2> QED  BY <1>2, <2>1, <2>2 DEF AccessInv, Fetching
<1> QED  BY <1>3, <1>4, <1>5 DEF BegunInv

(* When an instruction is decoded in cpu_state_fetch, the memory interface  *)
(* is idle and what follows is known.                                       *)
LEMMA AtDecoded ==
    ASSUME CoreInv, NEW in \in Inputs, Edge(in), AtWork(in), cpu_state = "fetch", Decoded
    PROVE  /\ Quiet /\ mem_state = 0 /\ Idle(in) /\ ~BusError /\ Sequential
           /\ CurrentPc = reg_next_pc
           /\ Plus(CurrentPc, Size) = Following(reg_next_pc)
           /\ insn1.raw.lo = reg_next_pc
           /\ Long(reg_next_pc) => insn1.raw.hi = Next1(reg_next_pc)
           /\ compressed_instr <=> ~Long(reg_next_pc)
           /\ Odd(Following(reg_next_pc)) => Buffered(Following(reg_next_pc))
           /\ prefetched_high_word' <=> prefetched_high_word
           /\ mem_16bit_buffer' = mem_16bit_buffer
           /\ insn1' = insn1 /\ (compressed_instr' <=> compressed_instr)
<1>1. RequestInv /\ TriggerInv /\ BegunInv /\ DecodedInv /\ BufferInv
  BY DEF CoreInv, ControlInv, MemoryInv
<1>2. Quiet /\ mem_state = 0
  BY <1>1 DEF RequestInv, TriggerInv, BegunInv, Decoded, Accessing, Quiet
<1>3. Idle(in) /\ ~BusError  BY <1>2, Resting, Calm
<1>4. /\ Sequential /\ insn1.raw.lo = reg_next_pc
      /\ Long(reg_next_pc) => insn1.raw.hi = Next1(reg_next_pc)
      /\ compressed_instr <=> ~Long(reg_next_pc)
      /\ Odd(Following(reg_next_pc)) => Buffered(Following(reg_next_pc))
  BY <1>1 DEF DecodedInv
<1>5. CurrentPc = reg_next_pc  BY <1>4 DEF Sequential, CurrentPc
<1>6. Plus(CurrentPc, Size) = Following(reg_next_pc)
  BY <1>4, <1>5 DEF Following, Size, Size2
<1>7. ~clear_prefetched_high_word(in)
  BY <1>1, <1>4 DEF AtWork, Sequential, clear_prefetched_high_word, BufferInv
<1>8. /\ prefetched_high_word' <=> prefetched_high_word
      /\ mem_16bit_buffer' = mem_16bit_buffer
  BY <1>3, <1>7 DEF Idle, KeepsBuffer
<1>9. ~mem_done(in)  BY <1>3 DEF Idle
<1> QED  BY <1>2, <1>3, <1>4, <1>5, <1>6, <1>8, <1>9, InsnsKept

(* Where the program goes on, while the buffer is kept.                     *)
LEMMA BufferKept ==
    ASSUME CoreInv, NEW in \in Inputs, Edge(in), AtWork(in), KeepsBuffer(in),
           cpu_state' # "trap", ~Decoded', Sequential', Odd(reg_next_pc)', prefetched_high_word'
    PROVE  mem_16bit_buffer' = reg_next_pc'
<1>1. TypeInv /\ RequestInv /\ TriggerInv /\ EntryInv /\ BufferInv
  BY DEF CoreInv, ControlInv, MemoryInv
<1>2. prefetched_high_word /\ Sequential /\ mem_16bit_buffer' = mem_16bit_buffer
  BY DEF KeepsBuffer, Sequential, clear_prefetched_high_word
<1>3. ~trap  BY AtWorkFacts
<1>4. cpu_state # "trap"  BY DEF AtWork
<1>5. ASSUME ~Decoded, reg_next_pc' = reg_next_pc PROVE mem_16bit_buffer' = reg_next_pc'
  <2>1. Odd(reg_next_pc)  BY <1>5 DEF Odd
  <2> QED  BY <1>1, <1>2, <1>3, <1>4, <1>5, <2>1 DEF BufferInv
<1>6. CASE cpu_state = "fetch" /\ Decoded
  <2>1. Odd(Following(reg_next_pc)) => mem_16bit_buffer' = Following(reg_next_pc)
    BY <1>6, AtDecoded DEF Buffered
  <2>2. /\ CurrentPc = reg_next_pc /\ Plus(CurrentPc, Size) = Following(reg_next_pc)
    BY <1>6, AtDecoded
  <2>3. ~EnterIrq(in)  BY <1>2 DEF EnterIrq, Sequential
  <2>4. ~AwaitInsn(in)
    BY <1>1, <1>6 DEF AwaitInsn, Decoded, Accessing, Waiting, TriggerInv
  <2>5. WaitIrq(in) => reg_next_pc' = Following(reg_next_pc)
    BY <2>2 DEF WaitIrq, Decoded
  <2>6. Launch(in) => reg_next_pc' = Following(reg_next_pc)
    BY <2>2 DEF Launch, Sequential
  <2>7. reg_next_pc' = Following(reg_next_pc)
    BY <1>1, <1>6, <2>3, <2>4, <2>5, <2>6, WorkCases
  <2> QED  BY <2>1, <2>7 DEF Odd
<1>7. CASE cpu_state = "fetch" /\ ~Decoded
  <2>1. ~EnterIrq(in)  BY <1>2 DEF EnterIrq, Sequential
  <2>2. ~WaitIrq(in) /\ ~Launch(in)  BY <1>7 DEF WaitIrq, Launch, Waiting, Decoded
  <2>3. reg_next_pc' = CurrentPc  BY <1>1, <1>7, <2>1, <2>2, WorkCases DEF AwaitInsn
  <2>4. CurrentPc = reg_next_pc  BY <1>2 DEF Sequential, CurrentPc
  <2> QED  BY <1>5, <1>7, <2>3, <2>4
<1>8. CASE cpu_state # "fetch"
  <2>1. reg_next_pc' = reg_next_pc
    BY <1>1, <1>8, WorkCases
    DEF LdRs1, ExecBranch, Exec, Shift, Stmem, Ldmem, MemoryAccess, Execute
  <2>2. ASSUME Decoded PROVE FALSE
    <3>1. Accessing /\ cpu_state \in {"stmem", "ldmem"}
      BY <1>1, <1>8, <2>2, WorkCases DEF Decoded, TriggerInv, Accessing, Fetching
    <3>2. ~mem_do_prefetch' /\ ~decoder_trigger'
      BY <1>1, <3>1, WorkCases
      DEF Stmem, Ldmem, MemoryAccess, Request, Accessing, Decoded
    <3>3. ~mem_done(in)
      BY <1>1, <3>1, <3>2, WorkCases DEF Stmem, Ldmem, MemoryAccess, Accessing
    <3>4. cpu_state' \in {"stmem", "ldmem"}
      <4>1. cpu_state = "stmem" => cpu_state' = "stmem"
        BY <1>1, <3>3, WorkCases DEF Stmem, MemoryAccess, Goto
      <4>2. cpu_state = "ldmem" => cpu_state' = "ldmem"
        BY <1>1, <3>3, WorkCases DEF Ldmem, MemoryAccess, Goto
      <4> QED  BY <3>1, <4>1, <4>2
    <3> QED  BY <3>2, <3>4 DEF Decoded, Accessing
  <2> QED  BY <1>5, <2>1, <2>2
<1> QED  BY <1>6, <1>7, <1>8

(* An edge preserves BufferInv: the buffer has the halfword that comes      *)
(* next, or is not used.                                                    *)
LEMMA BufferStep ==
    ASSUME CoreInv, NEW in \in Inputs, Edge(in)
    PROVE  BufferInv'
<1>1. TypeInv /\ PowerInv /\ RequestInv /\ TriggerInv /\ EntryInv /\ BranchInv /\ DecoderInv
      /\ AccessInv /\ BufferInv
  BY DEF CoreInv, ControlInv, MemoryInv
<1>2. MemEdge(in) /\ PowerInv'  BY PowerStep DEF Edge
<1>3. prefetched_high_word' => ~clear_prefetched_high_word_q'
  <2>1. clear_prefetched_high_word_q' = clear_prefetched_high_word(in)
    BY <1>2 DEF MemEdge
  <2>2. ASSUME ~ResetMem(in) PROVE prefetched_high_word' => ~clear_prefetched_high_word(in)
    BY <1>2, <2>2
    DEF MemEdge, Sleep, StartRead, StartWrite, Wait, AskSecondWord, EndRead, EndWrite,
        UsePrefetch, KeepPrefetched, SetPrefetched
  <2>3. ResetMem(in) => ~prefetched_high_word'  BY DEF ResetMem
  <2> QED  BY <2>1, <2>2, <2>3
<1>4. CASE Reset(in)
  <2>1. ResetMem(in)  BY <1>2, <1>4 DEF Reset, MemEdge
  <2> QED  BY <1>4, <2>1 DEF Reset, ResetMem, BufferInv
<1>5. CASE Stopped(in)
  <2>1. CASE cpu_state = "trap"  BY <1>3, <1>5, <2>1 DEF Stopped, BufferInv
  <2>2. CASE cpu_state = "none"
    <3>1. started' = "off"  BY <1>1, <1>5, <2>2 DEF Stopped, Edge, Power, PowerInv
    <3> QED  BY <1>2, <3>1 DEF PowerInv, BufferInv, Quiet, Fetching
  <2> QED  BY <1>5, <2>1, <2>2 DEF Stopped
<1>6. CASE AtWork(in)
  <2>1. MemStep(in) /\ ~trap  BY <1>6, DoneAtWork, AtWorkFacts DEF DoneFacts
  <2>2. ASSUME cpu_state' # "trap", ~Decoded', Sequential', Odd(reg_next_pc)',
               prefetched_high_word'
        PROVE  mem_16bit_buffer' = reg_next_pc'
    <3>1. CASE KeepsBuffer(in)  BY <1>6, <2>2, <3>1, BufferKept
    <3>2. CASE BeginSecond(in)
      <4>1. Sequential  BY <2>2, <3>2 DEF BeginSecond, Sequential, clear_prefetched_high_word
      <4>2. Fetching /\ ~mem_done(in)  BY <3>2 DEF BeginSecond, Fetching
      <4>3. reg_next_pc' = reg_next_pc  BY <1>6, <2>2, <4>1, <4>2, FetchingOn
      <4> QED  BY <3>2, <4>1, <4>3 DEF BeginSecond
    <3>3. CASE EndPrefetch(in)
      <4>1. Fetching /\ ~mem_done(in) /\ Sequential /\ ~Odd(reg_next_pc)
        BY <3>3 DEF EndPrefetch, Fetching
      <4>2. reg_next_pc' = reg_next_pc  BY <1>6, <2>2, <4>1, FetchingOn
      <4> QED  BY <2>2, <4>1, <4>2 DEF Odd
    <3>4. CASE EndFetch(in)
      <4>1. CASE latched_branch
        <5>1. cpu_state = "exec" /\ alu_out_0 /\ ~Exec(in)
          BY <1>1, <1>6, <3>4, <4>1, AtWorkFacts DEF EndFetch, BranchInv, Mid, Exec, Execute,
            RequestInv
        <5>2. latched_branch'  BY <1>1, <1>6, <5>1, WorkCases DEF ExecBranch
        <5> QED  BY <2>2, <5>2 DEF Sequential
      <4>2. CASE ~latched_branch
        <5>1. mem_do_rinst /\ mem_done(in)  BY <3>4, <4>2 DEF EndFetch, HasInstruction
        <5>2. ~decoder_trigger' /\ ~latched_branch'  BY <2>2 DEF Decoded, Sequential
        <5>3. CASE cpu_state = "fetch"
          <6>1. Trigger(in)
            BY <1>1, <1>6, <5>3, WorkCases
            DEF EnterIrq, WaitIrq, AwaitInsn, Launch, FetchNoIrq, Fetch
          <6> QED  BY <5>1, <5>2, <6>1 DEF Trigger
        <5>4. CASE cpu_state = "exec"
          <6>1. ASSUME ExecBranch(in) PROVE FALSE
            <7>1. /\ decoder_trigger' = (mem_do_rinst /\ mem_done(in) /\ ~alu_out_0)
                  /\ latched_branch' = alu_out_0
              BY <6>1 DEF ExecBranch
            <7> QED  BY <5>1, <5>2, <7>1
          <6>2. Exec(in) => (decoder_trigger' <=> mem_do_rinst /\ mem_done(in))
            BY DEF Exec, Trigger
          <6> QED  BY <1>1, <1>6, <5>1, <5>2, <5>4, <6>1, <6>2, WorkCases
        <5>5. CASE cpu_state \in {"ld_rs1", "shift"}  BY <1>6, <5>1, <5>5, Calm
        <5>6. CASE cpu_state \in {"stmem", "ldmem"}
          BY <1>1, <1>6, <5>1, <5>2, <5>6, WorkCases DEF Stmem, Ldmem, MemoryAccess
        <5> QED  BY <1>1, <1>6, <5>3, <5>4, <5>5, <5>6, WorkCases
      <4> QED  BY <4>1, <4>2
    <3> QED
      BY <2>1, <3>1, <3>2, <3>3, <3>4
      DEF MemStep, Idle, Begin, BeginFetch, BeginLoad, BeginStore, OnGoing, EndData
  <2>3. ASSUME mem_do_prefetch', Sequential', Odd(reg_next_pc)', ~mem_la_secondword'
        PROVE  prefetched_high_word' /\ ~mem_valid'
    <3>1. CASE mem_do_prefetch /\ ~mem_done(in)
      <4>1. Fetching /\ ~mem_do_rdata /\ ~mem_do_wdata
        BY <1>6, <3>1, AtWorkFacts DEF Fetching
      <4>2. Sequential
        <5>1. CASE cpu_state = "fetch"
          BY <1>1, <3>1, <5>1 DEF EntryInv, BranchInv, Sequential
        <5>2. CASE cpu_state # "fetch"  BY <1>6, <2>3, <3>1, <4>1, <5>2, FetchingOn
        <5> QED  BY <5>1, <5>2
      <4>3. /\ reg_next_pc' = reg_next_pc /\ next_pc = reg_next_pc
            /\ ~clear_prefetched_high_word(in)
        BY <1>6, <2>3, <3>1, <4>1, <4>2, FetchingOn
      <4>4. Odd(reg_next_pc)  BY <2>3, <4>3 DEF Odd
      <4>5. ~mem_la_secondword => prefetched_high_word /\ ~mem_valid
        BY <1>1, <2>1, <3>1, <4>2, <4>4 DEF BufferInv
      <4>6. CASE BeginFetch(in)
        <5>1. ~mem_la_secondword  BY <1>1, <2>1, <4>6 DEF BeginFetch, Begin, AccessInv
        <5>2. mem_la_use_prefetched_high_word(in)
          BY <4>1, <4>3, <4>4, <4>5, <5>1
          DEF mem_la_use_prefetched_high_word, mem_la_firstword, Odd
        <5> QED  BY <4>3, <4>5, <4>6, <5>1, <5>2 DEF BeginFetch, Begin, KeepsBuffer
      <4>7. CASE OnGoing(in)
        BY <2>3, <4>3, <4>5, <4>7 DEF OnGoing, KeepsBuffer
      <4> QED
        BY <2>1, <2>3, <3>1, <4>1, <4>2, <4>4, <4>6, <4>7
        DEF MemStep, Idle, BeginLoad, BeginStore, BeginSecond, EndPrefetch, EndFetch,
            HasInstruction, EndData, Quiet, Sequential
    <3>2. CASE ~(mem_do_prefetch /\ ~mem_done(in))
      <4>1. CASE cpu_state = "fetch"
        <5>1. Launch(in)
          BY <1>1, <1>6, <2>3, <3>2, <4>1, WorkCases DEF EnterIrq, WaitIrq, AwaitInsn, Request
        <5>2. Decoded  BY <5>1 DEF Launch, Decoded
        <5>3. reg_next_pc' = Following(reg_next_pc)
          BY <1>6, <2>3, <4>1, <5>1, <5>2, AtDecoded DEF Launch, Sequential
        <5>4. Odd(Following(reg_next_pc))  BY <2>3, <5>3 DEF Odd
        <5> QED  BY <1>6, <4>1, <5>2, <5>4, AtDecoded DEF Buffered, Idle
      <4>2. CASE cpu_state = "ld_rs1"
        BY <1>1, <1>6, <2>3, <3>2, <4>2, WorkCases
        DEF AskUnits, TakeAnswer, Refuse, ReadRegister, RetIrq, ToOtherState, Request
      <4>3. CASE cpu_state \in {"exec", "shift"}
        BY <1>1, <1>6, <2>3, <3>2, <4>3, WorkCases DEF ExecBranch, Exec, Shift, Request
      <4>4. CASE cpu_state \in {"stmem", "ldmem"}
        BY <1>1, <1>6, <2>3, <3>2, <4>4, WorkCases DEF Stmem, Ldmem, MemoryAccess, Request
      <4> QED  BY <1>1, <1>6, <4>1, <4>2, <4>3, <4>4, WorkCases
    <3> QED  BY <3>1, <3>2
  <2> QED  BY <1>3, <2>2, <2>3 DEF BufferInv
<1> QED  BY <1>1, <1>4, <1>5, <1>6, EdgeCases

(* What the memory holds of the program does not change.                    *)
LEMMA SameProgram ==
    ASSUME NEW in \in Inputs, Edge(in), reg_next_pc' = reg_next_pc
    PROVE  /\ Long(reg_next_pc)' <=> Long(reg_next_pc)
           /\ Following(reg_next_pc)' = Following(reg_next_pc)
           /\ Next1(reg_next_pc)' = Next1(reg_next_pc)
<1>1. long' = long  BY DEF Edge, programVars
<1>2. Long(reg_next_pc)' <=> Long(reg_next_pc)  BY <1>1 DEF Long
<1>3. Size2(reg_next_pc)' = Size2(reg_next_pc)  BY <1>2 DEF Size2
<1>4. Following(reg_next_pc)' = Following(reg_next_pc)  BY <1>3 DEF Following, Plus
<1>5. Next1(reg_next_pc)' = Next1(reg_next_pc)  BY DEF Next1, Plus
<1> QED  BY <1>2, <1>4, <1>5

(* What is decoded stays decoded.                                           *)
LEMMA DecodedKept ==
    ASSUME CoreInv, NEW in \in Inputs, Edge(in), AtWork(in),
           Decoded, Sequential', reg_next_pc' = reg_next_pc, insn1' = insn1,
           compressed_instr' <=> compressed_instr, KeepsBuffer(in)
    PROVE  DecodedInv'
<1>1. DecodedInv /\ BufferInv /\ cpu_state # "trap"
  BY DEF CoreInv, MemoryInv, AtWork
<1>2. Sequential  BY <1>1 DEF DecodedInv
<1>3. ~clear_prefetched_high_word(in)
  BY <1>1, <1>2 DEF AtWork, Sequential, clear_prefetched_high_word, BufferInv
<1>4. /\ prefetched_high_word' <=> prefetched_high_word
      /\ mem_16bit_buffer' = mem_16bit_buffer
  BY <1>3 DEF KeepsBuffer
<1>5. /\ Long(reg_next_pc)' <=> Long(reg_next_pc)
      /\ Following(reg_next_pc)' = Following(reg_next_pc)
      /\ Next1(reg_next_pc)' = Next1(reg_next_pc)
  BY SameProgram
<1>6. /\ insn1'.raw.lo = reg_next_pc'
      /\ Long(reg_next_pc)' => insn1'.raw.hi = Next1(reg_next_pc)'
      /\ compressed_instr' <=> ~Long(reg_next_pc)'
      /\ insn1'.kind = "waitirq" => Long(reg_next_pc)'
  BY <1>1, <1>5 DEF DecodedInv
<1>7. Odd(Following(reg_next_pc))' <=> Odd(Following(reg_next_pc))  BY <1>5 DEF Odd
<1>8. Odd(Following(reg_next_pc))' => Buffered(Following(reg_next_pc))'
  BY <1>1, <1>4, <1>5, <1>7 DEF DecodedInv, Buffered
<1> QED  BY <1>6, <1>8 DEF DecodedInv

(* An edge preserves DecodedInv: what has been decoded stays the            *)
(* instruction at reg_next_pc until it is launched.                         *)
LEMMA DecodedStep ==
    ASSUME CoreInv, NEW in \in Inputs, Edge(in)
    PROVE  DecodedInv'
<1>1. TypeInv /\ RequestInv /\ TriggerInv /\ EntryInv /\ BranchInv /\ LaunchInv /\ DecoderInv
  BY DEF CoreInv, ControlInv
<1>2. SUFFICES ASSUME Decoded', cpu_state' # "trap" PROVE DecodedInv'
  BY DEF DecodedInv
<1>3. CASE decoder_trigger' /\ ~decoder_pseudo_trigger'
  <2>1. /\ AtWork(in) /\ mem_do_rinst /\ mem_done(in)
        /\ Sequential /\ HasInstruction(in)
    BY <1>3, Triggers
  <2>2. reg_next_pc' = reg_next_pc /\ Sequential'
    <3>1. CASE cpu_state = "fetch"
      <4>1. ~decoder_trigger /\ ~do_waitirq /\ irq_state = 0  BY <2>1, <3>1, Calm
      <4>2. AwaitInsn(in)
        BY <1>1, <2>1, <3>1, <4>1, WorkCases
        DEF EnterIrq, WaitIrq, Launch, TakesIrq, Waiting
      <4>3. CurrentPc = reg_next_pc  BY <2>1 DEF Sequential, CurrentPc
      <4> QED  BY <4>1, <4>2, <4>3 DEF AwaitInsn, FetchNoIrq, Sequential
    <3>2. CASE cpu_state \in {"stmem", "ldmem"}
      BY <1>1, <2>1, <3>2, WorkCases DEF Stmem, Ldmem, MemoryAccess, Execute, Sequential
    <3>3. CASE cpu_state = "exec"
      <4>1. reg_next_pc' = reg_next_pc /\ irq_state' = irq_state
        BY <1>1, <2>1, <3>3, WorkCases DEF ExecBranch, Exec, Execute
      <4>2. Exec(in) => ~latched_branch'
        BY <1>1, <2>1, <3>3 DEF Exec, RequestInv
      <4>3. ASSUME ExecBranch(in) PROVE ~latched_branch'
        <5>1. /\ decoder_trigger' = (mem_do_rinst /\ mem_done(in) /\ ~alu_out_0)
              /\ latched_branch' = alu_out_0
          BY <4>3 DEF ExecBranch
        <5> QED  BY <1>3, <5>1
      <4> QED  BY <1>1, <2>1, <3>3, <4>1, <4>2, <4>3, WorkCases DEF Sequential
    <3>4. CASE cpu_state \in {"ld_rs1", "shift"}  BY <2>1, <3>4, Calm
    <3> QED  BY <1>1, <2>1, <3>1, <3>2, <3>3, <3>4, WorkCases
  <2>3. /\ Long(reg_next_pc)' <=> Long(reg_next_pc)
        /\ Following(reg_next_pc)' = Following(reg_next_pc)
        /\ Next1(reg_next_pc)' = Next1(reg_next_pc)
    BY <2>2, SameProgram
  <2>4. /\ insn1'.raw = mem_rdata_latched(in)
        /\ compressed_instr' <=> ~Long(mem_rdata_latched(in).lo)
        /\ insn1'.kind = "waitirq" => Long(mem_rdata_latched(in).lo)
    BY <1>1, <2>1, DecodeFacts
  <2>5. /\ insn1'.raw.lo = reg_next_pc'
        /\ Long(reg_next_pc)' => insn1'.raw.hi = Next1(reg_next_pc)'
        /\ compressed_instr' <=> ~Long(reg_next_pc)'
        /\ insn1'.kind = "waitirq" => Long(reg_next_pc)'
    BY <2>1, <2>2, <2>3, <2>4 DEF HasInstruction
  <2>6. Odd(Following(reg_next_pc))' => Buffered(Following(reg_next_pc))'
    BY <2>1, <2>3 DEF HasInstruction, Odd, Buffered
  <2> QED  BY <2>2, <2>5, <2>6 DEF DecodedInv
<1>4. CASE decoder_pseudo_trigger'
  <2>1. AtWork(in) /\ Accessing /\ mem_done(in)  BY <1>4, Triggers
  <2>2. /\ cpu_state \in {"stmem", "ldmem"} /\ ~Fetching /\ Decoded
        /\ irq_state = 0 /\ ~latched_branch
    BY <1>1, <2>1 DEF Accessing, RequestInv, Fetching, Decoded, LaunchInv, BranchInv, Mid
  <2>3. /\ reg_next_pc' = reg_next_pc /\ irq_state' = irq_state
        /\ latched_branch' = latched_branch
    BY <1>1, <2>1, <2>2, WorkCases DEF Stmem, Ldmem, MemoryAccess, Execute
  <2>4. insn1' = insn1 /\ (compressed_instr' <=> compressed_instr)
    BY <2>2, InsnsKept DEF Fetching
  <2>5. KeepsBuffer(in)
    BY <2>1, <2>2, DoneAtWork
    DEF DoneFacts, MemStep, Idle, Begin, BeginFetch, BeginLoad, BeginStore, OnGoing,
        BeginSecond, EndPrefetch, EndFetch, EndData, Fetching
  <2> QED  BY <2>1, <2>2, <2>3, <2>4, <2>5, DecodedKept DEF Sequential
<1>5. CASE ~decoder_trigger' /\ do_waitirq'
  <2>1. AtWork(in) /\ WaitIrq(in)
    BY <1>1, <1>5, EdgeCases
    DEF Reset, Stopped, EnterIrq, AwaitInsn, Launch, AskUnits, TakeAnswer, Refuse,
        ReadRegister, RetIrq, ToOtherState, LdRs1, Execute, ExecBranch, Exec, Shift, Stmem,
        Ldmem, MemoryAccess
  <2>2. cpu_state = "fetch" /\ Decoded /\ irq_pending = {}
    BY <1>5, <2>1 DEF WaitIrq, FetchNoIrq, Fetch, Waiting, Decoded
  <2>3. reg_next_pc' = reg_next_pc /\ Sequential'
    BY <2>1, <2>2, AtDecoded DEF WaitIrq, FetchNoIrq, Sequential
  <2> QED  BY <2>1, <2>2, <2>3, AtDecoded, DecodedKept DEF Idle
<1>6. CASE Accessing' /\ ~decoder_trigger'
  <2>1. AtWork(in) /\ cpu_state \in {"ld_rs1", "stmem", "ldmem"}
    BY <1>1, <1>6, EdgeCases, WorkCases
    DEF Accessing, Reset, Stopped, Goto, EnterIrq, WaitIrq, AwaitInsn, Launch, ExecBranch,
        Exec, Shift
  <2>2. CASE cpu_state = "ld_rs1"
    <3>1. ToOtherState(in) /\ ~BusError /\ ~mem_done(in)
      BY <1>1, <1>6, <2>1, <2>2, WorkCases, Calm
      DEF Accessing, AskUnits, TakeAnswer, Refuse, ReadRegister, RetIrq, Goto
    <3>2. Operation \in {"load", "store"}
      BY <1>6, <3>1 DEF ToOtherState, Goto, NextState, Accessing
    <3>3. mem_do_prefetch
      BY <1>1, <2>2, <3>2
      DEF RequestInv, Operation, DecoderInv, Executing, Accessing, Mid
    <3> QED  BY <1>6, <3>1, <3>3 DEF ToOtherState, Request, Accessing
  <2>3. CASE cpu_state \in {"stmem", "ldmem"}
    <3>1. ~mem_done(in)
      BY <1>1, <1>6, <2>1, <2>3, WorkCases
      DEF Stmem, Ldmem, MemoryAccess, Request, Accessing, Goto, RequestInv
    <3>2. ~mem_do_prefetch
      BY <1>1, <1>6, <2>1, <2>3, <3>1, WorkCases
      DEF Stmem, Ldmem, MemoryAccess, Request, Accessing
    <3>3. /\ ~Fetching /\ Decoded /\ irq_state = 0 /\ ~latched_branch
      BY <1>1, <2>3, <3>2
      DEF Accessing, RequestInv, Fetching, Decoded, LaunchInv, BranchInv, Mid
    <3>4. /\ reg_next_pc' = reg_next_pc /\ irq_state' = irq_state
          /\ latched_branch' = latched_branch
      BY <1>1, <2>1, <2>3, WorkCases DEF Stmem, Ldmem, MemoryAccess, Execute
    <3>5. insn1' = insn1 /\ (compressed_instr' <=> compressed_instr)
      BY <3>1, InsnsKept
    <3>6. KeepsBuffer(in)
      BY <2>1, <3>1, <3>3, DoneAtWork
      DEF DoneFacts, MemStep, Idle, Begin, BeginFetch, BeginLoad, BeginStore, OnGoing,
          BeginSecond, EndPrefetch, EndFetch, EndData, Fetching
    <3> QED  BY <2>1, <3>3, <3>4, <3>5, <3>6, DecodedKept DEF Sequential
  <2> QED  BY <2>1, <2>2, <2>3
<1> QED  BY <1>2, <1>3, <1>4, <1>5, <1>6 DEF Decoded

(* An edge preserves PrefetchInv: the word that waits is the one at         *)
(* reg_next_pc.                                                             *)
LEMMA PrefetchStep ==
    ASSUME CoreInv, NEW in \in Inputs, Edge(in)
    PROVE  PrefetchInv'
<1>1. TypeInv /\ PowerInv /\ AccessInv /\ PrefetchInv
  BY DEF CoreInv, ControlInv, MemoryInv
<1>2. MemEdge(in) /\ PowerInv'  BY PowerStep DEF Edge
<1>3. CASE Reset(in)
  BY <1>2, <1>3 DEF Reset, MemEdge, ResetMem, PrefetchInv
<1>4. CASE Stopped(in)
  <2>1. CASE cpu_state = "trap"  BY <1>4, <2>1 DEF Stopped, PrefetchInv
  <2>2. CASE cpu_state = "none"
    <3>1. started' = "off"  BY <1>1, <1>4, <2>2 DEF Stopped, Edge, Power, PowerInv
    <3> QED  BY <1>2, <3>1 DEF PowerInv, PrefetchInv
  <2> QED  BY <1>4, <2>1, <2>2 DEF Stopped
<1>5. CASE AtWork(in)
  <2>1. MemStep(in) /\ ~trap  BY <1>5, DoneAtWork, AtWorkFacts DEF DoneFacts
  <2>2. SUFFICES ASSUME mem_state' = 3 PROVE PrefetchInv'
    BY DEF PrefetchInv
  <2>3. (OnGoing(in) /\ mem_state = 3) \/ EndPrefetch(in)
    BY <2>1, <2>2
    DEF MemStep, Idle, BeginFetch, BeginLoad, BeginStore, OnGoing, BeginSecond, EndFetch,
        EndData
  <2>4. Fetching /\ ~mem_done(in) /\ ~mem_do_rinst /\ Sequential
    BY <1>1, <2>1, <2>3 DEF OnGoing, EndPrefetch, AccessInv, Fetching
  <2>5. reg_next_pc' = reg_next_pc /\ ~clear_prefetched_high_word(in)
    BY <1>5, <2>4, FetchingOn
  <2>6. /\ Long(reg_next_pc)' <=> Long(reg_next_pc)
        /\ Next1(reg_next_pc)' = Next1(reg_next_pc)
    BY <2>5, SameProgram
  <2>7. mem_rdata_q' = [lo |-> reg_next_pc, hi |-> Next1(reg_next_pc)]
    BY <1>1, <2>1, <2>3 DEF OnGoing, EndPrefetch, PrefetchInv
  <2>8. ~Long(reg_next_pc) => prefetched_high_word' /\ mem_16bit_buffer' = Next1(reg_next_pc)
    BY <1>1, <2>1, <2>3, <2>5 DEF OnGoing, KeepsBuffer, EndPrefetch, PrefetchInv, Buffered
  <2> QED  BY <2>5, <2>6, <2>7, <2>8 DEF PrefetchInv, Buffered
<1> QED  BY <1>1, <1>3, <1>4, <1>5, EdgeCases

(* An edge preserves FetchInv: a fetch goes on with the address and the     *)
(* halves it began with.                                                    *)
LEMMA FetchStep ==
    ASSUME CoreInv, NEW in \in Inputs, Edge(in)
    PROVE  FetchInv'
<1>1. TypeInv /\ PowerInv /\ RequestInv /\ BranchInv /\ AccessInv /\ BufferInv /\ FetchInv
      /\ LaunchInv /\ DecoderInv
  BY DEF CoreInv, ControlInv, MemoryInv
<1>2. MemEdge(in) /\ PowerInv' /\ BranchInv'  BY PowerStep, BranchStep DEF Edge
<1>3. CASE Reset(in)
  BY <1>2, <1>3 DEF Reset, MemEdge, ResetMem, FetchInv
<1>4. CASE Stopped(in)
  <2>1. CASE cpu_state = "trap"
    BY <1>4, <2>1 DEF Stopped, FetchInv, Goto
  <2>2. CASE cpu_state = "none"
    <3>1. started' = "off"  BY <1>1, <1>4, <2>2 DEF Stopped, Edge, Power, PowerInv
    <3> QED  BY <1>2, <3>1 DEF PowerInv, FetchInv
  <2> QED  BY <1>4, <2>1, <2>2 DEF Stopped
<1>5. CASE AtWork(in)
  <2>1. MemStep(in) /\ ~trap  BY <1>5, DoneAtWork, AtWorkFacts DEF DoneFacts
  <2>2. ASSUME mem_state' = 1, Fetching', mem_valid', ~latched_branch'
        PROVE  /\ mem_addr' = IF mem_la_secondword' THEN WordAfter(reg_next_pc')
                              ELSE WordOf(reg_next_pc')
               /\ last_mem_valid' => (mem_la_firstword_reg' <=> mem_la_firstword')
               /\ mem_la_secondword' =>
                      /\ Odd(reg_next_pc)' /\ Long(reg_next_pc)'
                      /\ mem_16bit_buffer' = reg_next_pc'
    <3>1. BeginFetch(in) \/ OnGoing(in) \/ BeginSecond(in)
      BY <1>5, <2>1, <2>2, Holding
      DEF MemStep, Idle, Begin, BeginLoad, BeginStore, EndPrefetch, EndFetch, EndData, EndAccess
    <3>2. ~mem_done(in)  BY <3>1 DEF BeginFetch, Begin, OnGoing, BeginSecond
    <3>3. Fetching
      BY <1>1, <1>5, <2>1, <2>2, <3>1, <3>2, Holding
      DEF BeginFetch, OnGoing, BeginSecond, AccessInv, Fetching
    <3>4. Sequential'  BY <1>5, <2>2, <3>2, <3>3, FetchingOn
    <3>5. reg_next_pc' = next_pc /\ next_pc' = next_pc
      BY <1>5, <3>2, <3>3, <3>4, FetchingOn
    <3>6. Sequential \/ mem_state = 0
      BY <1>5, <3>2, <3>3, <3>4, FetchingOn
    <3>7. CASE BeginFetch(in)
      BY <2>2, <3>5, <3>7 DEF BeginFetch, Begin
    <3>8. CASE OnGoing(in)
      <4>1. Sequential /\ next_pc = reg_next_pc /\ ~latched_branch /\ mem_state = 1 /\ mem_valid
        BY <1>5, <2>2, <3>2, <3>3, <3>6, <3>8, FetchingOn DEF OnGoing, Sequential
      <4>2. /\ mem_addr = IF mem_la_secondword THEN WordAfter(reg_next_pc)
                          ELSE WordOf(reg_next_pc)
            /\ last_mem_valid => (mem_la_firstword_reg <=> mem_la_firstword)
            /\ mem_la_secondword =>
                   /\ Odd(reg_next_pc) /\ Long(reg_next_pc)
                   /\ mem_16bit_buffer = reg_next_pc
        BY <1>1, <2>1, <3>3, <4>1 DEF FetchInv
      <4>3. reg_next_pc' = reg_next_pc  BY <3>5, <4>1
      <4>4. Long(reg_next_pc)' <=> Long(reg_next_pc)  BY <4>3, SameProgram
      <4>5. mem_la_firstword_reg' <=> mem_la_firstword  BY <3>8, <4>2 DEF OnGoing, FirstwordOfXfer
      <4>6. mem_la_firstword' <=> mem_la_firstword
        BY <2>2, <3>3, <3>5, <3>8 DEF OnGoing, mem_la_firstword
      <4> QED  BY <3>8, <4>2, <4>3, <4>4, <4>5, <4>6 DEF OnGoing, KeepsBuffer, Odd
    <3>9. CASE BeginSecond(in)
      <4>1. Sequential /\ next_pc = reg_next_pc
        BY <1>5, <3>2, <3>3, <3>6, <3>9, FetchingOn DEF BeginSecond
      <4>2. reg_next_pc' = reg_next_pc  BY <3>5, <4>1
      <4>3. Long(reg_next_pc)' <=> Long(reg_next_pc)  BY <4>2, SameProgram
      <4> QED  BY <3>9, <4>1, <4>2, <4>3 DEF BeginSecond, Odd
    <3> QED  BY <3>1, <3>7, <3>8, <3>9
  <2>3. ASSUME cpu_state' = "exec", latched_branch', last_mem_valid', mem_la_firstword_reg',
               ~mem_la_secondword'
        PROVE  Odd(reg_out)'
    <3>1. OnGoing(in)
      BY <2>1, <2>3
      DEF MemStep, Idle, Begin, BeginFetch, BeginLoad, BeginStore, BeginSecond, EndPrefetch,
          EndFetch, EndData, EndAccess
    <3>2. ~mem_done(in) /\ mem_valid /\ FirstwordOfXfer /\ ~mem_la_secondword
      BY <2>3, <3>1 DEF OnGoing
    <3>3. cpu_state = "exec" /\ ExecBranch(in)
      BY <1>1, <1>5, <2>3, WorkCases, Calm
      DEF EnterIrq, WaitIrq, AwaitInsn, Launch, AskUnits, TakeAnswer, Refuse, ReadRegister,
          RetIrq, ToOtherState, Exec, Shift, Stmem, Ldmem, MemoryAccess, Goto, BranchInv, Mid
    <3>4. CASE latched_branch
      <4>1. reg_out' = reg_out
        <5>1. reg_out = Plus(launched, insn1.imm)  BY <1>1, <3>3, <3>4 DEF BranchInv, Mid
        <5>2. reg_pc = launched /\ insn2 = insn1
          BY <1>1, <3>3 DEF LaunchInv, DecoderInv, Executing, Accessing, Mid
        <5> QED  BY <3>3, <5>1, <5>2 DEF ExecBranch
      <4>2. Odd(reg_out)
        <5>1. CASE last_mem_valid
          BY <1>1, <3>2, <3>3, <3>4, <5>1 DEF FirstwordOfXfer, FetchInv
        <5>2. CASE ~last_mem_valid
          BY <1>1, <3>2, <3>3, <3>4, <5>2
          DEF FirstwordOfXfer, mem_la_firstword, next_pc, BranchInv, Mid, Odd
        <5> QED  BY <5>1, <5>2
      <4> QED  BY <4>1, <4>2 DEF Odd
    <3>5. CASE ~latched_branch
      <4>1. /\ Sequential /\ mem_do_prefetch /\ mem_do_rinst /\ Fetching /\ mem_state = 1
        <5>1. irq_state = 0  BY <1>1, <3>3 DEF LaunchInv, Mid
        <5>2. Operation = "branch"  BY <3>3 DEF ExecBranch
        <5>3. mem_do_prefetch /\ mem_do_rinst  BY <1>1, <3>3, <5>2 DEF RequestInv
        <5>4. mem_state = 1
          BY <1>1, <1>5, <2>1, <3>2, <5>3, AtWorkFacts DEF AccessInv, Fetching
        <5> QED  BY <3>5, <5>1, <5>3, <5>4 DEF Sequential, Fetching
      <4>2. mem_la_firstword
        BY <1>1, <2>1, <3>2, <3>5, <4>1 DEF FirstwordOfXfer, FetchInv
      <4>3. Odd(reg_next_pc)
        BY <3>5, <4>2 DEF mem_la_firstword, next_pc, Odd
      <4>4. FALSE  BY <1>1, <2>1, <3>2, <4>1, <4>3 DEF BufferInv
      <4> QED  BY <4>4
    <3> QED  BY <3>4, <3>5
  <2> QED  BY <2>2, <2>3 DEF FetchInv, WordAfter, WordOf
<1> QED  BY <1>1, <1>3, <1>4, <1>5, EdgeCases

(* An edge preserves the invariant of the two state machines and the        *)
(* decoder.                                                                 *)
LEMMA CoreStep ==
    ASSUME CoreInv, NEW in \in Inputs, Edge(in)
    PROVE  CoreInv'
  BY TypeStep, PowerStep, RequestStep, TriggerStep, DecoderStep, LaunchStep, BranchStep,
     EntryStep, AccessStep, BegunStep, BufferStep, DecodedStep, PrefetchStep, FetchStep
  DEF CoreInv, ControlInv, MemoryInv

-----------------------------------------------------------------------------
(* The program, its writes and the interrupts.                              *)

(* The core runs from the reset on. *)
LEMMA Running ==
    ASSUME CoreInv, NEW in \in Inputs, Edge(in)
    PROVE  /\ AtWork(in) => started # "off" /\ started' = "on"
           /\ Reset(in) => started # "on" /\ started' = "reset"
           /\ Stopped(in) /\ started # "on" =>
                  cpu_state = "none" /\ started' = "off" /\ cpu_state' = "none"
           /\ Stopped(in) => started' = started
<1>1. PowerInv /\ TypeInv  BY DEF CoreInv, ControlInv
<1>2. AtWork(in) => started # "off" /\ started' = "on"
  BY <1>1 DEF AtWork, Edge, Power, PowerInv, TypeInv, TypeOK
<1>3. Reset(in) => started # "on" /\ started' = "reset"
  BY <1>1, InputFacts DEF Reset, Edge, Power
<1>4. Stopped(in) => started' = started
  BY <1>1 DEF Stopped, Edge, Power, PowerInv
<1>5. ASSUME Stopped(in), started # "on" PROVE cpu_state = "none" /\ started' = "off"
                                               /\ cpu_state' = "none"
  <2>1. started # "reset"  BY <1>1, <1>5 DEF Stopped, PowerInv
  <2>2. started = "off"  BY <1>1, <1>5, <2>1 DEF TypeInv, TypeOK
  <2>3. started' = "off" /\ PowerInv'  BY <1>4, <1>5, <2>2, PowerStep
  <2> QED  BY <1>1, <2>2, <2>3 DEF PowerInv
<1> QED  BY <1>2, <1>3, <1>4, <1>5

(* An edge preserves OrderInv: the main state machine goes where the        *)
(* program goes.                                                            *)
LEMMA OrderStep ==
    ASSUME CoreInv, HistoryInv, NEW in \in Inputs, Edge(in)
    PROVE  OrderInv'
<1>1. TypeInv /\ RequestInv /\ TriggerInv /\ EntryInv /\ BranchInv /\ LaunchInv /\ DecoderInv
  BY DEF CoreInv, ControlInv
<1>2. OrderInv /\ return_pc = interrupted  BY DEF HistoryInv, SavedInv
<1>3. CASE Reset(in)
  <2>1. follows' = PROGADDR_RESET  BY <1>2, <1>3, Running DEF Reset, histVars, OrderInv
  <2> QED  BY <1>3, <2>1 DEF Reset, OrderInv, CurrentPc, Mid
<1>4. CASE Stopped(in)
  <2>1. /\ follows' = follows /\ reg_next_pc' = reg_next_pc /\ irq_state' = irq_state
        /\ ~Mid' /\ cpu_state' # "fetch"
    BY <1>4 DEF Stopped, histVars, Goto, Mid
  <2> QED  BY <1>2, <1>4, <2>1, Running DEF OrderInv
<1>5. CASE AtWork(in) /\ cpu_state = "fetch"
  <2>1. started' = "on" /\ ~BusError  BY <1>5, Running, Calm
  <2>2. CASE EnterIrq(in)
    <3>1. /\ reg_next_pc' = CurrentPc /\ ~latched_branch' /\ cpu_state' = "fetch"
          /\ irq_state' = (irq_state + 1) % 3
          /\ irq_state = 1 => follows' = PROGADDR_IRQ
          /\ irq_state # 1 => follows' = follows
      BY <2>1, <2>2 DEF EnterIrq, Goto
    <3>2. irq_state \in 0 .. 2  BY <1>1 DEF TypeInv, TypeOK
    <3>3. CASE irq_state = 0
      <4>1. irq_state' = 1  BY <3>1, <3>3
      <4>2. follows = CurrentPc  BY <1>2, <1>5, <3>3 DEF OrderInv
      <4> QED  BY <2>1, <3>1, <3>3, <4>1, <4>2 DEF OrderInv, Mid
    <3>4. CASE irq_state = 1
      <4>1. irq_state' = 2  BY <3>1, <3>4
      <4>2. CurrentPc = PROGADDR_IRQ  BY <1>1, <3>4 DEF EntryInv, CurrentPc
      <4> QED  BY <2>1, <3>1, <3>4, <4>1, <4>2 DEF OrderInv, Mid
    <3>5. CASE irq_state = 2
      <4>1. irq_state' = 0  BY <3>1, <3>5
      <4>2. CurrentPc = reg_next_pc  BY <1>1, <3>5 DEF EntryInv, CurrentPc
      <4>3. follows' = reg_next_pc'  BY <1>2, <3>1, <3>5, <4>2 DEF OrderInv
      <4> QED  BY <2>1, <3>1, <4>1, <4>3 DEF OrderInv, Mid, CurrentPc
    <3> QED  BY <3>2, <3>3, <3>4, <3>5
  <2>3. CASE WaitIrq(in) \/ AwaitInsn(in)
    <3>1. irq_state = 0 /\ irq_state' = 0
      BY <2>3 DEF WaitIrq, AwaitInsn, FetchNoIrq, TakesIrq
    <3>2. follows = CurrentPc  BY <1>2, <1>5, <3>1 DEF OrderInv
    <3>3. reg_next_pc' = follows' /\ ~latched_branch' /\ cpu_state' = "fetch"
      BY <2>1, <2>3, <3>2 DEF WaitIrq, AwaitInsn, Goto
    <3> QED  BY <2>1, <3>1, <3>3 DEF OrderInv, Mid, CurrentPc
  <2>4. CASE Launch(in)
    <3>1. Decoded /\ ~TakesIrq /\ irq_state' = irq_state /\ ~alu_out_0'
      BY <2>4 DEF Launch, FetchNoIrq, Fetch, Decoded
    <3>2. irq_state' = 0  BY <3>1 DEF TakesIrq
    <3>3. CurrentPc = reg_next_pc /\ Plus(CurrentPc, Size) = Following(reg_next_pc)
      BY <1>5, <3>1, AtDecoded
    <3>4. insn1.kind = "jal" =>
              /\ reg_next_pc' = Plus(CurrentPc, insn1.imm) /\ latched_branch' /\ ~latched_store'
              /\ cpu_state' = "fetch"
              /\ follows' = reg_next_pc'
      BY <2>1, <2>4 DEF Launch, Goto
    <3>5. insn1.kind # "jal" =>
              /\ reg_next_pc' = Plus(CurrentPc, Size) /\ cpu_state' = "ld_rs1"
              /\ follows' = Following(CurrentPc)
      BY <2>1, <2>4 DEF Launch, Goto, Following, Size2
    <3> QED
      BY <2>1, <3>1, <3>2, <3>3, <3>4, <3>5 DEF OrderInv, Mid, CurrentPc
  <2> QED  BY <1>1, <1>5, <2>2, <2>3, <2>4, WorkCases
<1>6. CASE AtWork(in) /\ cpu_state # "fetch"
  <2>1. /\ Mid /\ started' = "on" /\ irq_state' = 0 /\ ~latched_stalu
        /\ reg_next_pc' = reg_next_pc /\ launched' = launched
    <3>1. Mid /\ started' = "on"  BY <1>1, <1>6, WorkCases, Running DEF Mid
    <3>2. /\ reg_next_pc' = reg_next_pc /\ launched' = launched /\ irq_state' = irq_state
      BY <1>1, <1>6, WorkCases
      DEF LdRs1, ExecBranch, Exec, Shift, Stmem, Ldmem, MemoryAccess, Execute
    <3> QED  BY <1>1, <3>1, <3>2 DEF LaunchInv
  <2>2. follows = IF alu_out_0 THEN Plus(launched, insn1.imm) ELSE reg_next_pc
    BY <1>2, <2>1 DEF OrderInv
  <2>3. ASSUME /\ Mid' => follows' = IF alu_out_0' THEN Plus(launched, insn1.imm)'
                                     ELSE reg_next_pc'
               /\ cpu_state' = "fetch" => follows' = CurrentPc'
        PROVE  OrderInv'
    BY <2>1, <2>3 DEF OrderInv
  <2>4. CASE cpu_state = "ld_rs1"
    <3>1. ~mem_done(in) /\ ~BusError /\ insn1' = insn1 /\ ~alu_out_0 /\ ~latched_branch
      BY <1>1, <1>6, <2>1, <2>4, Calm, InsnsKept DEF BranchInv
    <3>2. CASE RetIrq(in)
      <4>1. /\ cpu_state' = "fetch" /\ latched_branch' /\ latched_store' /\ ~latched_stalu'
            /\ reg_out' = follows'
        BY <1>2, <2>1, <3>1, <3>2 DEF RetIrq, LdRs1, Goto
      <4> QED  BY <2>3, <4>1 DEF Mid, CurrentPc
    <3>3. CASE ToOtherState(in)
      <4>1. /\ follows' = IF alu_out_0' THEN Plus(launched, insn1.imm) ELSE follows
            /\ cpu_state' # "fetch"
        BY <3>1, <3>3 DEF ToOtherState, Goto, NextState
      <4>2. Plus(launched, insn1.imm)' = Plus(launched, insn1.imm)  BY <2>1, <3>1 DEF Plus
      <4> QED  BY <2>1, <2>2, <2>3, <3>1, <4>1, <4>2
    <3>4. CASE ~RetIrq(in) /\ ~ToOtherState(in)
      <4>1. follows' = follows /\ ~alu_out_0' /\ ~latched_branch'
        BY <1>1, <1>6, <2>4, <3>1, <3>4, WorkCases
        DEF AskUnits, TakeAnswer, Refuse, ReadRegister
      <4> QED  BY <2>1, <2>2, <2>3, <3>1, <4>1 DEF CurrentPc
    <3> QED  BY <3>2, <3>3, <3>4
  <2>5. CASE cpu_state = "exec"
    <3>1. reg_pc = launched /\ insn2 = insn1 /\ ~BusError
          /\ (alu_out_0 => Operation = "branch")
      BY <1>1, <1>6, <2>5, Calm
      DEF LaunchInv, DecoderInv, BranchInv, Executing, Accessing, Mid
    <3>2. CASE ExecBranch(in)
      <4>1. /\ latched_branch' = alu_out_0 /\ latched_store' = alu_out_0
            /\ alu_out_0' = alu_out_0 /\ latched_stalu' = latched_stalu
            /\ reg_out' = Plus(launched, insn1.imm) /\ follows' = follows
            /\ cpu_state' = IF mem_done(in) THEN "fetch" ELSE "exec"
        BY <3>1, <3>2 DEF ExecBranch, Goto
      <4>2. CASE mem_done(in)
        BY <2>1, <2>2, <2>3, <4>1, <4>2 DEF Mid, CurrentPc
      <4>3. CASE ~mem_done(in)
        <5>1. insn1' = insn1  BY <4>3, InsnsKept
        <5>2. Plus(launched, insn1.imm)' = Plus(launched, insn1.imm)  BY <2>1, <5>1 DEF Plus
        <5> QED  BY <2>1, <2>2, <2>3, <4>1, <4>3, <5>2
      <4> QED  BY <4>2, <4>3
    <3>3. CASE Exec(in)
      <4>1. /\ cpu_state' = "fetch" /\ ~alu_out_0
            /\ latched_branch' = (Operation = "jalr")
            /\ latched_store' = TRUE /\ latched_stalu' = TRUE
            /\ follows' = IF Operation = "jalr" THEN alu_out_q' ELSE follows
        BY <3>1, <3>3 DEF Exec, Goto
      <4> QED  BY <2>1, <2>2, <2>3, <4>1 DEF Mid, CurrentPc
    <3> QED  BY <1>1, <1>6, <2>5, <3>2, <3>3, WorkCases
  <2>6. CASE cpu_state \in {"shift", "stmem", "ldmem"}
    <3>1. ~alu_out_0 /\ ~latched_branch  BY <1>1, <2>1, <2>6 DEF BranchInv
    <3>2. follows' = follows /\ alu_out_0' = alu_out_0 /\ latched_branch' = latched_branch
      BY <1>1, <1>6, <2>6, WorkCases DEF Shift, Stmem, Ldmem, MemoryAccess
    <3> QED  BY <2>1, <2>2, <2>3, <3>1, <3>2 DEF CurrentPc
  <2> QED  BY <1>1, <1>6, <2>4, <2>5, <2>6, WorkCases
<1> QED  BY <1>1, <1>3, <1>4, <1>5, <1>6, EdgeCases

(* An edge preserves WriteInv: a result goes to the register of its own     *)
(* instruction.                                                             *)
LEMMA WriteStep ==
    ASSUME CoreInv, HistoryInv, NEW in \in Inputs, Edge(in)
    PROVE  WriteInv'
<1>1. TypeInv /\ TriggerInv /\ EntryInv /\ WriteInv
  BY DEF CoreInv, ControlInv, HistoryInv
<1>2. CASE Reset(in)  BY <1>2 DEF Reset, WriteInv, Mid
<1>3. CASE Stopped(in)  BY <1>3 DEF Stopped, Goto, WriteInv, Mid
<1>4. CASE AtWork(in) /\ cpu_state = "fetch"
  <2>1. ~BusError  BY <1>4, Calm
  <2>2. CASE EnterIrq(in) \/ AwaitInsn(in)
    BY <2>1, <2>2 DEF EnterIrq, AwaitInsn, Goto, WriteInv, Mid
  <2>3. CASE WaitIrq(in) \/ Launch(in)
    <3>1. Decoded
      BY <1>1, <2>3 DEF WaitIrq, Launch, Waiting, Decoded
    <3>2. latched_rd' = launched'
      BY <1>4, <2>3, <3>1, AtDecoded DEF WaitIrq, Launch, FetchNoIrq
    <3> QED  BY <3>2 DEF WriteInv
  <2> QED  BY <1>1, <1>4, <2>2, <2>3, WorkCases
<1>5. CASE AtWork(in) /\ cpu_state # "fetch"
  <2>1. Mid /\ launched' = launched
    BY <1>1, <1>5, WorkCases
    DEF LdRs1, ExecBranch, Exec, Shift, Stmem, Ldmem, MemoryAccess, Execute, Mid
  <2>2. CASE cpu_state # "exec"
    <3>1. latched_rd' = latched_rd
      BY <1>1, <1>5, <2>2, WorkCases DEF LdRs1, Shift, Stmem, Ldmem, MemoryAccess
    <3> QED  BY <1>1, <2>1, <2>2, <3>1 DEF WriteInv
  <2>3. CASE cpu_state = "exec"
    <3>1. /\ latched_rd' \in {latched_rd, x0} /\ cpu_state' \in {"exec", "fetch", "trap"}
      BY <1>1, <1>5, <2>3, WorkCases DEF ExecBranch, Exec, Goto
    <3> QED  BY <1>1, <2>1, <2>3, <3>1 DEF WriteInv, Mid
  <2> QED  BY <2>2, <2>3
<1> QED  BY <1>1, <1>2, <1>3, <1>4, <1>5, EdgeCases

(* What an edge does to the interrupts. *)
LEMMA IrqFacts ==
    ASSUME CoreInv, NEW in \in Inputs, Edge(in), AtWork(in)
    PROVE  /\ cpu_state = "fetch" => irq_mask' = irq_mask
           /\ cpu_state = "fetch" => Trouble' \subseteq Trouble
           /\ irq_state # 2 => irq_pending \subseteq irq_pending'
           /\ irq_state = 2 => Trouble' \subseteq irq_mask
           /\ cpu_state # "fetch" => /\ irq_state = 0 /\ irq_state' = 0
                                     /\ irq_delay' = irq_delay
                                     /\ ~RetIrq(in) => resumed' = resumed /\ irq_active' = irq_active
<1>1. TypeInv /\ EntryInv /\ RequestInv  BY DEF CoreInv, ControlInv
<1>2. in.irq \cap {"ebreak", "buserror"} = {}  BY <1>1, InputFacts
<1>3. CASE cpu_state = "fetch"
  <2>1. ~BusError  BY <1>3, Calm
  <2>2. irq_mask' = irq_mask
    BY <1>1, <1>3, WorkCases DEF EnterIrq, WaitIrq, AwaitInsn, Launch, FetchNoIrq, Fetch
  <2>3. PICK kept : Raise(in, kept, {}) /\ kept \subseteq irq_pending
                    /\ (irq_state # 2 => kept = irq_pending)
                    /\ (irq_state = 2 => kept \subseteq irq_mask)
    <3>1. CASE EnterIrq(in)
      <4>1. CASE irq_state = 2
        BY <1>1, <3>1, <4>1 DEF EnterIrq, EntryInv, StaysPending
      <4>2. CASE irq_state # 2  BY <3>1, <4>2 DEF EnterIrq
      <4> QED  BY <4>1, <4>2
    <3>2. CASE ~EnterIrq(in)
      <4>1. FetchNoIrq(in)
        BY <1>1, <1>3, <3>2, WorkCases DEF WaitIrq, AwaitInsn, Launch
      <4>2. irq_state = 0 /\ Raise(in, irq_pending, {})
        BY <4>1 DEF FetchNoIrq, TakesIrq
      <4> QED  BY <4>2
    <3> QED  BY <3>1, <3>2
  <2>4. irq_pending' = kept \cup in.irq \cup {l \in {"timer"} : timer = 1}
    BY <2>1, <2>3 DEF Raise
  <2>5. Trouble' = kept \cap {"ebreak", "buserror"}  BY <1>2, <2>4 DEF Trouble
  <2> QED  BY <1>3, <2>2, <2>3, <2>4, <2>5 DEF Trouble
<1>4. CASE cpu_state # "fetch"
  <2>1. irq_state = 0 /\ irq_state' = irq_state /\ irq_delay' = irq_delay
    BY <1>1, <1>4, WorkCases
    DEF EntryInv, LdRs1, ExecBranch, Exec, Shift, Stmem, Ldmem, MemoryAccess, Execute
  <2>2. irq_pending \subseteq irq_pending'
    <3>1. Raise(in, irq_pending, {"ebreak"}) \/ Raise(in, irq_pending, {})
      BY <1>1, <1>4, WorkCases
      DEF AskUnits, TakeAnswer, Refuse, ReadRegister, RetIrq, ToOtherState,
          ExecBranch, Exec, Shift, Stmem, Ldmem, MemoryAccess, NoIrqChange
    <3> QED  BY <3>1 DEF Raise
  <2>3. ~RetIrq(in) => resumed' = resumed /\ irq_active' = irq_active
    BY <1>1, <1>4, WorkCases
    DEF AskUnits, TakeAnswer, Refuse, ReadRegister, ToOtherState,
        ExecBranch, Exec, Shift, Stmem, Ldmem, MemoryAccess, NoIrqChange
  <2> QED  BY <1>4, <2>1, <2>2, <2>3
<1> QED  BY <1>3, <1>4

(* An edge preserves IrqInv: a handler that is being entered has something  *)
(* to handle, and a return is followed by an instruction.                   *)
LEMMA IrqStep ==
    ASSUME CoreInv, HistoryInv, NEW in \in Inputs, Edge(in)
    PROVE  IrqInv'
<1>1. TypeInv /\ PowerInv /\ EntryInv /\ IrqInv
  BY DEF CoreInv, ControlInv, HistoryInv
<1>2. irq_state \in 0 .. 2  BY <1>1 DEF TypeInv, TypeOK
<1>3. CASE Reset(in)
  <2>1. ~resumed  BY <1>1, <1>3, Running DEF IrqInv
  <2>2. ~resumed' /\ irq_state' = 0 /\ cpu_state' = "fetch"
    BY <1>3, <2>1 DEF Reset, histVars
  <2> QED  BY <2>2 DEF IrqInv, Mid
<1>4. CASE Stopped(in)
  <2>1. irq_state = 0  BY <1>1, <1>4 DEF Stopped, EntryInv
  <2>2. CASE cpu_state = "trap"
    BY <1>1, <1>4, <2>1, <2>2, Running DEF Stopped, IrqInv, Mid, histVars, Goto
  <2>3. CASE cpu_state = "none"
    BY <1>1, <1>4, <2>1, <2>3, Running DEF Stopped, IrqInv, Mid, histVars, PowerInv, Goto
  <2> QED  BY <1>4, <2>2, <2>3 DEF Stopped
<1>5. CASE AtWork(in) /\ cpu_state = "fetch"
  <2>1. started' = "on" /\ ~BusError /\ irq_mask' = irq_mask
        /\ (irq_state # 2 => irq_pending \subseteq irq_pending')
    BY <1>5, Running, Calm, IrqFacts
  <2>2. irq_state # 2 /\ Unmasked # {} => Unmasked' # {}  BY <2>1 DEF Unmasked
  <2>3. CASE EnterIrq(in)
    <3>1. /\ cpu_state' = "fetch" /\ irq_delay' = irq_delay /\ resumed' = resumed
          /\ irq_state' = (irq_state + 1) % 3
          /\ TakesIrq
      BY <2>1, <2>3 DEF EnterIrq, Goto
    <3>6. irq_active' = (irq_active \/ (irq_state = 1 /\ ~latched_branch /\ ~latched_store))
      BY <2>3 DEF EnterIrq
    <3>2. resumed' => started' = "on" /\ irq_delay'  BY <1>1, <2>1, <3>1 DEF IrqInv
    <3>3. CASE irq_state = 0
      <4>1. irq_state' = 1  BY <3>1, <3>3
      <4>2. ~irq_active /\ Unmasked # {}  BY <3>1, <3>3 DEF TakesIrq
      <4>3. irq_state # 1  BY <3>3
      <4>4. ~irq_active'  BY <3>6, <4>2, <4>3
      <4> QED  BY <2>2, <3>1, <3>2, <3>3, <4>1, <4>2, <4>4 DEF IrqInv, Mid
    <3>4. CASE irq_state = 1
      <4>1. irq_state' = 2  BY <3>1, <3>4
      <4>2. irq_state # 0 /\ ~latched_branch /\ ~latched_store  BY <1>1, <3>4 DEF EntryInv
      <4>3. irq_active'  BY <3>4, <3>6, <4>2
      <4> QED  BY <1>1, <2>2, <3>1, <3>2, <3>4, <4>1, <4>3 DEF IrqInv, Mid
    <3>5. CASE irq_state = 2
      <4>1. irq_state' = 0  BY <3>1, <3>5
      <4> QED  BY <3>1, <3>2, <4>1 DEF IrqInv, Mid
    <3> QED  BY <1>2, <3>3, <3>4, <3>5
  <2>4. CASE WaitIrq(in) \/ AwaitInsn(in)
    <3>1. irq_state' = 0 /\ cpu_state' = "fetch" /\ irq_delay' = irq_delay
          /\ (resumed' => resumed)
      BY <2>1, <2>4 DEF WaitIrq, AwaitInsn, FetchNoIrq, TakesIrq, Goto
    <3> QED  BY <1>1, <2>1, <3>1 DEF IrqInv, Mid
  <2>5. CASE Launch(in)
    <3>1. irq_state' = 0 /\ irq_delay' = irq_active /\ irq_active' = irq_active /\ ~resumed'
      BY <2>5 DEF Launch, FetchNoIrq, TakesIrq
    <3> QED  BY <3>1 DEF IrqInv
  <2> QED  BY <1>1, <1>5, <2>3, <2>4, <2>5, WorkCases
<1>6. CASE AtWork(in) /\ cpu_state # "fetch"
  <2>1. Mid /\ started' = "on" /\ irq_state' = 0 /\ irq_delay' = irq_delay
    BY <1>1, <1>6, WorkCases, Running, IrqFacts DEF Mid
  <2>2. (irq_delay <=> irq_active) /\ ~resumed  BY <1>1, <2>1 DEF IrqInv, Mid
  <2>3. CASE RetIrq(in)
    <3>1. cpu_state' = "fetch" /\ resumed' = irq_active
      BY <1>6, <2>3, Calm DEF RetIrq, LdRs1, Execute, Goto
    <3> QED  BY <2>1, <2>2, <3>1 DEF IrqInv, Mid
  <2>4. CASE ~RetIrq(in)
    <3>1. resumed' = resumed /\ irq_active' = irq_active  BY <1>6, <2>4, IrqFacts
    <3> QED  BY <2>1, <2>2, <3>1 DEF IrqInv
  <2> QED  BY <2>3, <2>4
<1> QED  BY <1>1, <1>3, <1>4, <1>5, <1>6, EdgeCases

(* What is known of the instruction launched, as long as it is the last.    *)
LEMMA SameLaunched ==
    ASSUME NEW in \in Inputs, Edge(in), launched' = launched
    PROVE  /\ Long(launched)' <=> Long(launched)
           /\ Following(launched)' = Following(launched)
<1>1. long' = long  BY DEF Edge, programVars
<1>2. Long(launched)' <=> Long(launched)  BY <1>1 DEF Long
<1>3. Size2(launched)' = Size2(launched)  BY <1>2 DEF Size2
<1>4. Following(launched)' = Following(launched)  BY <1>3 DEF Following, Plus
<1> QED  BY <1>2, <1>4

(* An edge preserves SavedInv: q0 has what follows in program order, and    *)
(* the instruction that raised an interrupt can be found.                   *)
LEMMA SavedStep ==
    ASSUME CoreInv, HistoryInv, NEW in \in Inputs, Edge(in)
    PROVE  SavedInv'
<1>1. TypeInv /\ PowerInv /\ RequestInv /\ TriggerInv /\ EntryInv /\ BranchInv /\ LaunchInv
      /\ DecoderInv
  BY DEF CoreInv, ControlInv
<1>2. OrderInv /\ SavedInv /\ IrqInv  BY DEF HistoryInv
<1>3. in.irq \cap {"ebreak", "buserror"} = {}  BY <1>1, InputFacts
<1>4. irq_state \in 0 .. 2  BY <1>1 DEF TypeInv, TypeOK
<1>5. return_pc' = interrupted'
  <2>1. CASE Reset(in) \/ Stopped(in)
    BY <1>2, <2>1 DEF Reset, Stopped, SavedInv, histVars
  <2>2. CASE AtWork(in) /\ cpu_state # "fetch"
    BY <1>1, <1>2, <2>2, WorkCases
    DEF SavedInv, LdRs1, ExecBranch, Exec, Shift, Stmem, Ldmem, MemoryAccess, Execute
  <2>3. CASE AtWork(in) /\ cpu_state = "fetch" /\ irq_state # 1
    <3>1. SaveReturn
      BY <1>1, <2>3, WorkCases DEF EnterIrq, WaitIrq, AwaitInsn, Launch, FetchNoIrq, Fetch
    <3>2. interrupted' = interrupted
      BY <1>1, <2>3, WorkCases DEF EnterIrq, WaitIrq, AwaitInsn, Launch, FetchNoIrq
    <3> QED  BY <1>2, <2>3, <3>1, <3>2 DEF SaveReturn, SavedInv
  <2>4. CASE AtWork(in) /\ cpu_state = "fetch" /\ irq_state = 1
    <3>1. EnterIrq(in)
      BY <1>1, <2>4, WorkCases DEF WaitIrq, AwaitInsn, Launch, FetchNoIrq, TakesIrq
    <3>2. return_pc' = reg_next_pc
      BY <1>1, <2>4, <3>1 DEF EnterIrq, Fetch, SaveReturn, EntryInv
    <3>3. interrupted' = follows  BY <2>4, <3>1 DEF EnterIrq
    <3> QED  BY <1>2, <2>4, <3>2, <3>3 DEF OrderInv
  <2> QED  BY <1>1, <2>1, <2>2, <2>3, <2>4, EdgeCases
<1>6. CASE Reset(in)
  <2>1. Trouble' = {}  BY <1>3, <1>6 DEF Reset, Trouble
  <2> QED  BY <1>5, <2>1 DEF SavedInv
<1>7. CASE Stopped(in)
  <2>1. CASE cpu_state = "trap"
    <3>1. cpu_state' = "trap" /\ started' = "on"
      BY <1>7, <2>1, Running DEF Stopped, Goto
    <3> QED  BY <1>5, <3>1 DEF SavedInv
  <2>2. CASE cpu_state = "none"
    <3>1. started = "off" /\ ~BusError
      BY <1>1, <2>2 DEF PowerInv, BusError, Quiet
    <3>2. Trouble = {}  BY <1>2, <3>1 DEF SavedInv
    <3>3. Trouble' = {}  BY <1>3, <1>7, <3>1, <3>2 DEF Stopped, Raise, Trouble
    <3> QED  BY <1>5, <3>3 DEF SavedInv
  <2> QED  BY <1>7, <2>1, <2>2 DEF Stopped
<1>8. CASE AtWork(in)
  <2>1. started' = "on"  BY <1>8, Running
  <2>2. cpu_state # "trap"  BY <1>8 DEF AtWork
  <2>3. SUFFICES ASSUME Trouble' # {}, cpu_state' # "trap" PROVE InTrouble'
    BY <1>5, <2>1 DEF SavedInv
  <2>4. CASE cpu_state = "fetch"
    <3>1. Trouble' \subseteq Trouble /\ irq_mask' = irq_mask /\ ~BusError
          /\ (irq_state = 2 => Trouble' \subseteq irq_mask)
      BY <1>8, <2>4, IrqFacts, Calm
    <3>2. Trouble # {} /\ InTrouble
      BY <1>2, <2>2, <2>3, <3>1 DEF SavedInv
    <3>3. Trouble' \cap irq_mask' = {}  BY <3>1, <3>2 DEF InTrouble
    <3>4. irq_state # 2  BY <2>3, <3>1, <3>3
    <3>5. ~irq_active  BY <3>2, <3>4 DEF InTrouble
    <3>6. /\ ~irq_delay /\ reg_next_pc = Following(launched)
          /\ latched_compr <=> ~Long(launched)
          /\ ~latched_branch
      BY <2>4, <3>2, <3>5 DEF InTrouble
    <3>7. Unmasked # {}  BY <3>2 DEF InTrouble, Trouble, Unmasked
    <3>8. CASE EnterIrq(in)
      <4>1. /\ cpu_state' = "fetch" /\ irq_delay' = irq_delay /\ launched' = launched
            /\ latched_compr' = latched_compr /\ reg_next_pc' = CurrentPc
            /\ ~latched_branch'
            /\ irq_state' = (irq_state + 1) % 3
        BY <3>1, <3>8 DEF EnterIrq, Goto
      <4>2. irq_active' = (irq_active \/ (irq_state = 1 /\ ~latched_branch /\ ~latched_store))
        BY <3>8 DEF EnterIrq
      <4>3. /\ Long(launched)' <=> Long(launched)
            /\ Following(launched)' = Following(launched)
        BY <4>1, SameLaunched
      <4>4. CASE irq_state = 0
        <5>1. irq_state' = 1 /\ irq_state # 1  BY <4>1, <4>4
        <5>2. ~irq_active'  BY <3>5, <4>2, <5>1
        <5>3. reg_next_pc' = reg_next_pc  BY <3>6, <4>1, <4>4 DEF CurrentPc
        <5> QED
          BY <3>3, <3>6, <4>1, <4>3, <5>1, <5>2, <5>3 DEF InTrouble
      <4>5. CASE irq_state = 1
        <5>1. irq_state' = 2 /\ irq_state # 0  BY <4>1, <4>5
        <5>2. ~latched_store /\ latched_rd = q0  BY <1>1, <4>5 DEF EntryInv
        <5>3. irq_active'  BY <3>6, <4>2, <4>5, <5>2
        <5>4. return_compr' = latched_compr
          BY <3>6, <3>8, <4>5, <5>2 DEF EnterIrq, Fetch, SaveReturn
        <5>5. interrupted' = reg_next_pc
          BY <1>2, <3>8, <4>5 DEF EnterIrq, OrderInv
        <5> QED
          BY <3>3, <3>6, <4>1, <4>3, <5>1, <5>3, <5>4, <5>5 DEF InTrouble
      <4> QED  BY <1>4, <3>4, <4>4, <4>5
    <3>9. CASE ~EnterIrq(in)
      <4>1. FetchNoIrq(in) /\ (WaitIrq(in) \/ AwaitInsn(in) \/ Launch(in))
        BY <1>1, <1>8, <2>4, <3>9, WorkCases DEF WaitIrq, AwaitInsn, Launch
      <4>2. irq_state = 0 /\ ~decoder_trigger
        BY <3>5, <3>6, <3>7, <4>1 DEF FetchNoIrq, TakesIrq
      <4>3. mem_do_prefetch /\ (compressed_instr <=> ~Long(launched))
        BY <2>4, <3>2, <4>2 DEF InTrouble
      <4>4. ~do_waitirq  BY <1>1, <4>3 DEF TriggerInv, Fetching
      <4>5. AwaitInsn(in)  BY <4>1, <4>2, <4>4 DEF WaitIrq, Launch, Waiting
      <4>6. /\ cpu_state' = "fetch" /\ irq_delay' = irq_delay /\ launched' = launched
            /\ reg_next_pc' = reg_next_pc /\ irq_state' = irq_state
            /\ ~latched_branch' /\ latched_compr' = compressed_instr
        BY <3>1, <3>6, <4>2, <4>5 DEF AwaitInsn, FetchNoIrq, Goto, CurrentPc
      <4>7. irq_active' = irq_active  BY <4>5 DEF AwaitInsn, FetchNoIrq
      <4>8. /\ Long(launched)' <=> Long(launched)
            /\ Following(launched)' = Following(launched)
        BY <4>6, SameLaunched
      <4>9. decoder_trigger' \/ (mem_do_prefetch' /\ ~mem_done(in))
        <5>1. decoder_trigger' = (mem_do_rinst /\ mem_done(in))
              /\ mem_do_prefetch' = (mem_do_prefetch /\ ~mem_done(in))
          BY <4>5 DEF AwaitInsn, FetchNoIrq, Fetch, Trigger, Request
        <5>2. mem_done(in) => mem_do_rinst  BY <1>8, <2>4, Calm
        <5> QED  BY <4>3, <5>1, <5>2
      <4>10. ~mem_done(in) => (compressed_instr' <=> compressed_instr)  BY InsnsKept
      <4> QED
        BY <3>3, <3>5, <3>6, <4>2, <4>3, <4>6, <4>7, <4>8, <4>9, <4>10 DEF InTrouble
    <3> QED  BY <3>8, <3>9
  <2>5. CASE cpu_state # "fetch"
    <3>1. /\ Mid /\ launched' = launched /\ reg_next_pc' = reg_next_pc
          /\ latched_compr' = latched_compr
      BY <1>1, <1>8, <2>5, WorkCases
      DEF LdRs1, ExecBranch, Exec, Shift, Stmem, Ldmem, MemoryAccess, Execute, Mid
    <3>2. irq_state = 0 /\ irq_state' = 0 /\ irq_delay' = irq_delay
      BY <1>8, <2>5, IrqFacts
    <3>3. /\ reg_next_pc = Following(launched)
          /\ latched_compr <=> ~Long(launched)
          /\ irq_delay <=> irq_active
      BY <1>1, <1>2, <3>1 DEF LaunchInv, IrqInv
    <3>4. /\ Long(launched)' <=> Long(launched)
          /\ Following(launched)' = Following(launched)
      BY <3>1, SameLaunched
    <3>5. Trouble # {} => ~irq_active /\ cpu_state \in {"stmem", "ldmem"}
      BY <1>2, <2>2, <2>5, <3>2 DEF SavedInv, InTrouble
    <3>6. CASE cpu_state \in {"stmem", "ldmem"}
      <4>1. /\ Raise(in, irq_pending, {}) /\ irq_mask' = irq_mask /\ irq_active' = irq_active
            /\ latched_branch' = latched_branch
        BY <1>1, <1>8, <3>6, WorkCases DEF Stmem, Ldmem, MemoryAccess, NoIrqChange
      <4>2. ~latched_branch  BY <1>1, <3>1, <3>6 DEF BranchInv
      <4>3. Trouble' = Trouble \cup {l \in {"buserror"} : BusError /\ Catchable(l)}
        BY <1>3, <4>1 DEF Raise, Trouble
      <4>4. Trouble' \cap irq_mask' = {} /\ ~irq_active
        <5>1. Trouble \cap irq_mask = {}
          BY <1>2, <2>2 DEF SavedInv, InTrouble
        <5>2. Trouble # {} \/ Catchable("buserror")  BY <2>3, <4>3
        <5> QED  BY <3>5, <4>1, <4>3, <5>1, <5>2 DEF Catchable
      <4>5. /\ cpu_state' \in {"stmem", "ldmem", "fetch"}
            /\ cpu_state' = "fetch" => decoder_trigger'
        <5>1. CASE Stmem(in)
          BY <2>3, <5>1 DEF Stmem, MemoryAccess, Execute, Goto
        <5>2. CASE Ldmem(in)
          BY <2>3, <5>2 DEF Ldmem, MemoryAccess, Execute, Goto
        <5> QED  BY <1>1, <1>8, <3>6, <5>1, <5>2, WorkCases
      <4> QED
        BY <3>1, <3>2, <3>3, <3>4, <4>1, <4>2, <4>4, <4>5 DEF InTrouble
    <3>7. CASE cpu_state \notin {"stmem", "ldmem"}
      <4>1. Trouble = {} /\ ~BusError  BY <1>8, <3>5, <3>7, Calm
      <4>2. Refuse(in) /\ Catchable("ebreak")
        <5>1. SUFFICES ASSUME Raise(in, irq_pending, {}) PROVE FALSE
          BY <1>1, <1>8, <2>5, <3>7, WorkCases
          DEF AskUnits, TakeAnswer, Refuse, ReadRegister, RetIrq, ToOtherState, ExecBranch,
              Exec, Shift, NoIrqChange
        <5> QED  BY <1>3, <2>3, <4>1, <5>1 DEF Raise, Trouble
      <4>3. /\ Raise(in, irq_pending, {"ebreak"}) /\ cpu_state' = "fetch"
            /\ irq_mask' = irq_mask /\ irq_active' = irq_active
            /\ latched_branch' = latched_branch
            /\ mem_do_prefetch' = (mem_do_prefetch /\ ~mem_done(in))
            /\ cpu_state = "ld_rs1" /\ Operation \in TrapKind
        BY <4>1, <4>2 DEF Refuse, LdRs1, Execute, Request, Goto
      <4>4. Trouble' = {"ebreak"}  BY <1>3, <4>1, <4>3 DEF Raise, Trouble
      <4>5. Trouble' \cap irq_mask' = {} /\ ~irq_active  BY <4>2, <4>3, <4>4 DEF Catchable
      <4>6. ~latched_branch /\ ~mem_done(in)
        BY <1>1, <1>8, <3>1, <4>3, Calm DEF BranchInv
      <4>7. mem_do_prefetch
        <5>1. insn1.kind \notin Phase1Kind
          BY <4>3 DEF Operation, TrapKind, Phase1Kind, Unit
        <5> QED  BY <1>1, <4>3, <5>1 DEF RequestInv, Phase1Kind
      <4>8. compressed_instr' <=> ~Long(launched)
        <5>1. Executing  BY <4>3 DEF Executing, Accessing, Mid
        <5> QED  BY <1>1, <4>6, <5>1, InsnsKept DEF LaunchInv
      <4>9. mem_do_prefetch' /\ ~latched_branch' /\ ~irq_active' /\ ~irq_delay'
        BY <3>2, <3>3, <4>3, <4>5, <4>6, <4>7
      <4>10. cpu_state' = "fetch"  BY <4>3
      <4> QED
        BY <3>1, <3>2, <3>3, <3>4, <4>5, <4>8, <4>9, <4>10 DEF InTrouble
    <3> QED  BY <3>6, <3>7
  <2> QED  BY <2>4, <2>5
<1> QED  BY <1>1, <1>6, <1>7, <1>8, EdgeCases

(* An edge preserves what is known of the program's order, its writes and   *)
(* its interrupts.                                                          *)
LEMMA HistoryStep ==
    ASSUME CoreInv, HistoryInv, NEW in \in Inputs, Edge(in)
    PROVE  HistoryInv'
  BY OrderStep, WriteStep, SavedStep, IrqStep DEF HistoryInv

-----------------------------------------------------------------------------
(* The co-processors.                                                       *)

(* An instruction of a unit's goes on waiting until the unit has answered. *)
LEMMA MineKept ==
    ASSUME CoreInv, PcpiInv, NEW in \in Inputs, Edge(in), AtWork(in),
           NEW u \in Unit, Mine(u), ~unit[u].ready
    PROVE  Mine(u)' /\ ~pcpi_int_ready
<1>1. TypeInv /\ PowerInv /\ TriggerInv  BY DEF CoreInv, ControlInv
<1>2. UnitInv /\ TimeoutInv  BY DEF PcpiInv
<1>3. cpu_state = "ld_rs1" /\ Operation \in TrapKind /\ pcpi_valid /\ insn2.kind = u
  BY <1>2 DEF UnitInv, Mine
<1>4. started # "off" /\ ~pcpi_timeout
  BY <1>2, <1>3, Running DEF TimeoutInv
<1>5. ~pcpi_int_ready
  <2>1. \A v \in Unit : unit[v].ready => insn2.kind = v
    BY <1>2, <1>4 DEF UnitInv, Mine
  <2> QED  BY <1>3, <2>1 DEF pcpi_int_ready
<1>6. Operation = u
  BY <1>3 DEF Operation, TrapKind, Unit, Phase1Kind
<1>7. AskUnits(in)
  BY <1>1, <1>3, <1>4, <1>5, <1>6, WorkCases
  DEF TakeAnswer, Refuse, ReadRegister, RetIrq, ToOtherState, Unit
<1>8. ~decoder_trigger  BY <1>1, <1>3 DEF TriggerInv
<1>9. insn2' = insn2  BY <1>8, InsnsKept
<1> QED  BY <1>3, <1>5, <1>7, <1>9 DEF AskUnits, Mine

(* A unit's edge is one of its own, whatever the other unit does. *)
LEMMA UnitEdge ==
    ASSUME TypeInv, NEW in \in Inputs, Edge(in), NEW u \in Unit
    PROVE  unit'[u] \in UnitNext(unit[u], Mine(u), in.resetn)
<1>1. PICK mul \in UnitNext(unit["mul"], pcpi_valid /\ insn2.kind = "mul", in.resetn),
           div \in UnitNext(unit["div"], pcpi_valid /\ insn2.kind = "div", in.resetn) :
               unit' = [v \in Unit |-> IF v = "mul" THEN mul ELSE div]
  BY DEF Edge, Pcpi
<1>2. CASE u = "mul"  BY <1>1, <1>2 DEF Unit, Mine
<1>3. CASE u = "div"  BY <1>1, <1>3 DEF Unit, Mine
<1> QED  BY <1>2, <1>3 DEF Unit

(* An edge preserves UnitInv: a unit answers the instruction it works for,  *)
(* and no later one.                                                        *)
LEMMA UnitStep ==
    ASSUME CoreInv, PcpiInv, NEW in \in Inputs, Edge(in)
    PROVE  UnitInv'
<1>1. TypeInv /\ PowerInv /\ TriggerInv  BY DEF CoreInv, ControlInv
<1>2. UnitInv  BY DEF PcpiInv
<1>3. ASSUME pcpi_valid'
      PROVE  AtWork(in) /\ AskUnits(in)
  <2>1. ~Reset(in)  BY <1>3 DEF Reset
  <2>2. ~Stopped(in)  BY <1>2, <1>3 DEF Stopped, UnitInv
  <2>3. AtWork(in)  BY <1>1, <2>1, <2>2, EdgeCases
  <2>4. CASE cpu_state # "ld_rs1"
    <3>1. pcpi_valid' = pcpi_valid
      BY <1>1, <2>3, <2>4, WorkCases
      DEF EnterIrq, WaitIrq, AwaitInsn, Launch, FetchNoIrq, Fetch, ExecBranch, Exec, Shift,
          Stmem, Ldmem, MemoryAccess
    <3> QED  BY <1>2, <1>3, <2>4, <3>1 DEF UnitInv
  <2>5. CASE cpu_state = "ld_rs1"
    <3>1. ~TakeAnswer(in) /\ ~Refuse(in)  BY <1>3 DEF TakeAnswer, Refuse
    <3>2. ReadRegister(in) \/ RetIrq(in) \/ ToOtherState(in) =>
              pcpi_valid /\ Operation \notin TrapKind
      BY <1>3 DEF ReadRegister, RetIrq, ToOtherState, TrapKind, Unit
    <3>3. ~(ReadRegister(in) \/ RetIrq(in) \/ ToOtherState(in))
      BY <1>2, <3>2 DEF UnitInv
    <3> QED  BY <1>1, <2>3, <2>5, <3>1, <3>3, WorkCases
  <2> QED  BY <2>3, <2>4, <2>5
<1>4. pcpi_valid' => cpu_state' = "ld_rs1" /\ started' = "on" /\ Operation' \in TrapKind
  <2>1. SUFFICES ASSUME pcpi_valid' PROVE cpu_state' = "ld_rs1" /\ started' = "on"
                                          /\ Operation' \in TrapKind
    OBVIOUS
  <2>2. AtWork(in) /\ AskUnits(in)  BY <1>3, <2>1
  <2>3. cpu_state = "ld_rs1"  BY <2>2 DEF AskUnits, LdRs1, Execute
  <2>4. ~BusError /\ ~mem_done(in) /\ ~decoder_trigger
    BY <1>1, <2>2, <2>3, Calm DEF TriggerInv
  <2>5. insn1' = insn1 /\ insn2' = insn2  BY <2>4, InsnsKept
  <2> QED  BY <2>2, <2>4, <2>5, Running DEF AskUnits, Goto, Operation
<1>5. ASSUME NEW u \in Unit, started' # "off"
      PROVE  /\ unit'[u].busy =>
                    Mine(u)' /\ unit'[u].instr /\ unit'[u].wait /\ unit'[u].wait_q
             /\ unit'[u].ready =>
                    Mine(u)' /\ unit'[u].instr /\ unit'[u].wait /\ unit'[u].wait_q
                    /\ ~unit'[u].busy
             /\ unit'[u].wait /\ ~unit'[u].wait_q => Mine(u)' /\ unit'[u].instr
             /\ unit'[u].instr /\ ~unit'[u].wait => Mine(u)'
  <2> DEFINE o == unit[u]
             n == unit'[u]
  <2>1. n \in UnitNext(o, Mine(u), in.resetn)  BY <1>1, UnitEdge
  <2>2. /\ n \in UnitState
        /\ n.instr => in.resetn /\ Mine(u)
        /\ in.resetn /\ Mine(u) /\ ~o.ready => n.instr
        /\ n.wait <=> o.instr /\ in.resetn
        /\ n.wait_q <=> o.wait /\ in.resetn
        /\ n.ready => in.resetn /\ o.busy
        /\ n.busy <=> in.resetn /\ ((o.wait /\ ~o.wait_q) \/ (o.busy /\ ~n.ready))
    BY <2>1 DEF UnitNext, UnitState, Starts
  <2>3. CASE Reset(in)
    <3>1. ~in.resetn  BY <2>3 DEF Reset
    <3> QED  BY <2>2, <3>1
  <2>4. CASE Stopped(in) \/ AtWork(in)
    <3>1. started # "off"  BY <1>5, <2>4, Running
    <3>2. /\ o.busy => Mine(u) /\ o.instr /\ o.wait /\ o.wait_q
          /\ o.ready => Mine(u) /\ o.instr /\ o.wait /\ o.wait_q /\ ~o.busy
          /\ o.wait /\ ~o.wait_q => Mine(u) /\ o.instr
          /\ o.instr /\ ~o.wait => Mine(u)
      BY <1>2, <3>1 DEF UnitInv
    <3>3. Mine(u) /\ ~o.ready => Mine(u)'
      <4>1. Stopped(in) => ~Mine(u)  BY <1>2 DEF Stopped, UnitInv, Mine
      <4> QED  BY <2>4, <4>1, MineKept
    <3>4. in.resetn  BY <2>4 DEF Stopped, AtWork
    <3> HIDE DEF o, n
    <3>5. /\ n.busy => Mine(u)' /\ n.instr /\ n.wait /\ n.wait_q
          /\ n.ready => Mine(u)' /\ n.instr /\ n.wait /\ n.wait_q /\ ~n.busy
          /\ n.wait /\ ~n.wait_q => Mine(u)' /\ n.instr
          /\ n.instr /\ ~n.wait => Mine(u)'
      BY <2>2, <3>2, <3>3, <3>4
    <3> QED  BY <3>5 DEF n
  <2> QED  BY <1>1, <2>3, <2>4, EdgeCases
<1> QED  BY <1>4, <1>5 DEF UnitInv

(* An edge preserves TimeoutInv: a unit stops the counter before it runs    *)
(* out.                                                                     *)
LEMMA TimeoutStep ==
    ASSUME CoreInv, PcpiInv, NEW in \in Inputs, Edge(in)
    PROVE  TimeoutInv'
<1>1. TypeInv /\ PowerInv /\ TriggerInv /\ RequestInv  BY DEF CoreInv, ControlInv
<1>2. UnitInv /\ TimeoutInv  BY DEF PcpiInv
<1>3. Pcpi(in) /\ MaxTimeout \in Nat /\ MaxTimeout > 2 /\ pcpi_timeout_counter \in Nat
  BY <1>1, CoreAssumption DEF Edge, TypeInv, TypeOK
<1>4. CASE Reset(in)
  <2>1. cpu_state' = "fetch" /\ ~decoder_trigger'
    BY <1>4 DEF Reset, Trigger, mem_done
  <2> QED  BY <2>1 DEF TimeoutInv
<1>5. CASE Stopped(in)
  <2>1. CASE cpu_state = "trap"
    <3>1. cpu_state' = "trap"  BY <1>5, <2>1 DEF Stopped, Goto
    <3> QED  BY <3>1 DEF TimeoutInv
  <2>2. CASE cpu_state = "none"
    <3>1. started # "on" /\ ~mem_do_rinst
      BY <1>1, <2>2 DEF PowerInv, Quiet, Fetching
    <3>2. cpu_state' = "none" /\ ~decoder_trigger'
      BY <1>5, <3>1, Running DEF Stopped, Trigger
    <3> QED  BY <3>2 DEF TimeoutInv
  <2> QED  BY <1>5, <2>1, <2>2 DEF Stopped
<1>6. CASE AtWork(in)
  <2>1. in.resetn /\ cpu_state # "trap" /\ started # "off"
    BY <1>6, Running DEF AtWork
  <2>2. ~pcpi_valid => pcpi_timeout_counter' = MaxTimeout
    BY <1>3 DEF Pcpi, CountsDown
  <2>3. pcpi_timeout' <=> pcpi_timeout_counter = 0
    BY <1>3, <2>1 DEF Pcpi
  <2>4. decoder_trigger' => pcpi_timeout_counter' = MaxTimeout
    <3>1. decoder_trigger' => cpu_state # "ld_rs1"
      BY <1>6, Triggers, Calm DEF Accessing
    <3> QED  BY <1>2, <2>2, <3>1 DEF UnitInv
  <2>5. cpu_state' = "ld_rs1" /\ ~pcpi_valid' =>
            pcpi_timeout_counter' = MaxTimeout /\ ~pcpi_timeout'
    <3>1. SUFFICES ASSUME cpu_state' = "ld_rs1", ~pcpi_valid'
                   PROVE  pcpi_timeout_counter' = MaxTimeout /\ ~pcpi_timeout'
      OBVIOUS
    <3>2. CASE cpu_state = "fetch"
      <4>1. Launch(in)
        BY <1>1, <1>6, <3>1, <3>2, WorkCases DEF EnterIrq, WaitIrq, AwaitInsn, Goto
      <4>2. pcpi_timeout_counter = MaxTimeout
        BY <1>2, <2>1, <4>1 DEF Launch, TimeoutInv
      <4>3. ~pcpi_valid  BY <1>2, <3>2 DEF UnitInv
      <4> QED  BY <1>3, <2>2, <2>3, <4>2, <4>3
    <3>3. CASE cpu_state = "ld_rs1"
      BY <1>1, <1>6, <3>1, <3>3, WorkCases
      DEF AskUnits, TakeAnswer, Refuse, ReadRegister, RetIrq, ToOtherState, NextState, Goto
    <3>4. CASE cpu_state \in {"exec", "shift"}
      BY <1>1, <1>6, <3>1, <3>4, WorkCases DEF ExecBranch, Exec, Shift, Goto
    <3>5. CASE cpu_state \in {"stmem", "ldmem"}
      <4>1. Stmem(in) => cpu_state' # "ld_rs1"  BY DEF Stmem, MemoryAccess, Goto
      <4>2. Ldmem(in) => cpu_state' # "ld_rs1"  BY DEF Ldmem, MemoryAccess, Goto
      <4> QED  BY <1>1, <1>6, <3>1, <3>5, <4>1, <4>2, WorkCases
    <3> QED  BY <1>1, <1>6, <3>2, <3>3, <3>4, <3>5, WorkCases
  <2>6. ASSUME NEW u \in Unit, cpu_state' = "ld_rs1", Mine(u)'
        PROVE  /\ ~pcpi_timeout'
               /\ pcpi_timeout_counter' >= MaxTimeout - 2
               /\ ~unit'[u].wait => pcpi_timeout_counter' >= MaxTimeout - 1
               /\ ~unit'[u].instr => pcpi_timeout_counter' = MaxTimeout
    <3>1. pcpi_valid' /\ insn2'.kind = u  BY <2>6 DEF Mine
    <3>2. AskUnits(in) /\ cpu_state = "ld_rs1"
      <4>1. cpu_state = "ld_rs1"
        BY <1>1, <1>2, <1>6, <3>1, WorkCases
        DEF EnterIrq, WaitIrq, AwaitInsn, Launch, FetchNoIrq, Fetch, ExecBranch, Exec, Shift,
            Stmem, Ldmem, MemoryAccess, UnitInv
      <4>2. ~TakeAnswer(in) /\ ~Refuse(in)  BY <3>1 DEF TakeAnswer, Refuse
      <4>3. ReadRegister(in) \/ RetIrq(in) \/ ToOtherState(in) =>
                pcpi_valid /\ Operation \notin TrapKind
        BY <3>1 DEF ReadRegister, RetIrq, ToOtherState, TrapKind, Unit
      <4> QED  BY <1>1, <1>2, <1>6, <4>1, <4>2, <4>3, WorkCases DEF UnitInv
    <3>3. insn2' = insn2
      <4>1. ~decoder_trigger  BY <1>1, <3>2 DEF TriggerInv
      <4> QED  BY <4>1, InsnsKept
    <3>4. CASE ~pcpi_valid
      <4>1. pcpi_timeout_counter = MaxTimeout
        BY <1>2, <2>1, <3>2, <3>4 DEF TimeoutInv
      <4> QED  BY <1>3, <2>2, <2>3, <3>4, <4>1
    <3>5. CASE pcpi_valid
      <4>1. Mine(u) /\ ~unit[u].ready
        BY <3>1, <3>2, <3>3, <3>5 DEF Mine, AskUnits, pcpi_int_ready
      <4>2. /\ pcpi_timeout_counter >= MaxTimeout - 2
            /\ ~unit[u].wait => pcpi_timeout_counter >= MaxTimeout - 1
            /\ ~unit[u].instr => pcpi_timeout_counter = MaxTimeout
        BY <1>2, <2>1, <3>2, <4>1 DEF TimeoutInv
      <4>3. /\ unit'[u].instr
            /\ unit'[u].wait <=> unit[u].instr
        BY <1>1, <2>1, <4>1, UnitEdge DEF UnitNext
      <4>4. ~pcpi_timeout'  BY <1>3, <2>3, <4>2
      <4>5. CASE pcpi_int_wait
        <5>1. pcpi_timeout_counter' = MaxTimeout  BY <1>3, <4>5 DEF Pcpi, CountsDown
        <5> QED  BY <1>3, <4>4, <5>1
      <4>6. CASE ~pcpi_int_wait
        <5>1. ~unit[u].wait  BY <4>6 DEF pcpi_int_wait
        <5>2. pcpi_timeout_counter' = pcpi_timeout_counter - 1
          BY <1>3, <2>1, <3>5, <4>2, <4>6 DEF Pcpi, CountsDown
        <5>3. pcpi_timeout_counter' >= MaxTimeout - 2  BY <1>3, <4>2, <5>1, <5>2
        <5>4. ~unit'[u].wait => pcpi_timeout_counter' >= MaxTimeout - 1
          BY <1>3, <4>2, <4>3, <5>2
        <5> QED  BY <4>3, <4>4, <5>3, <5>4
      <4> QED  BY <4>5, <4>6
    <3> QED  BY <3>4, <3>5
  <2> QED  BY <2>4, <2>5, <2>6 DEF TimeoutInv
<1> QED  BY <1>1, <1>4, <1>5, <1>6, EdgeCases

(* An edge preserves what is known of the co-processors. *)
LEMMA PcpiStep ==
    ASSUME CoreInv, PcpiInv, NEW in \in Inputs, Edge(in)
    PROVE  PcpiInv'
  BY UnitStep, TimeoutStep DEF PcpiInv

-----------------------------------------------------------------------------
(* The invariant of the specification. *)

(* It holds at power-up. *)
LEMMA InitInv == Init => AllInv
<1> SUFFICES ASSUME Init PROVE AllInv
  OBVIOUS
<1>1. TypeInv
  <2>1. PICK f \in Firmware : long = f.long /\ kinds = f.kinds /\ lines = f.lines /\ masks = f.masks
    BY DEF Init
  <2>2. ProgramInv  BY <2>1, CoreAssumption DEF Init, MemInit, ProgramInv
  <2>3. NoInstruction \in Insn
    BY Apart DEF NoInstruction, Instruction, JunkWord, X, Junk, Insn, Fetched, Kind,
                 Phase2Kind, TrapKind
  <2>4. \A b \in BOOLEAN : UnitInit(b) \in UnitState  BY DEF UnitInit, UnitState
  <2>5. \A u \in Unit : unit[u] \in UnitState
    <3>1. \A u \in Unit : unit[u] = UnitInit(u = "mul")  BY DEF Init
    <3> QED  BY <2>4, <3>1
  <2>6. 0 \in 0 .. DataAddr /\ JunkWord(X) \in Fetched /\ X \in Junk
    BY CodeAssumption DEF DataAddr, JunkWord, X, Junk, Fetched
  <2>7. 0 \in 0 .. MaxTimer /\ 0 \in 0 .. MaxShift /\ 0 \in 0 .. MaxTimeout
    BY CoreAssumption
  <2>8. /\ mem_valid \in BOOLEAN /\ mem_instr \in BOOLEAN /\ mem_wstrb \in BOOLEAN
        /\ mem_addr \in 0 .. DataAddr /\ mem_state \in 0 .. 3
        /\ mem_16bit_buffer \in Half \cup Junk /\ mem_rdata_q \in Fetched
    <3>1. mem_addr = 0 /\ mem_state = 0 /\ mem_16bit_buffer = X /\ mem_rdata_q = JunkWord(X)
      BY DEF Init, MemInit
    <3>2. mem_valid = FALSE /\ mem_instr = FALSE /\ mem_wstrb = FALSE
      BY DEF Init, MemInit
    <3>3. mem_addr \in 0 .. DataAddr /\ mem_16bit_buffer \in Half \cup Junk
          /\ mem_rdata_q \in Fetched
      BY <2>6, <3>1
    <3>4. mem_state \in 0 .. 3  BY <3>1
    <3>5. mem_valid \in BOOLEAN /\ mem_instr \in BOOLEAN /\ mem_wstrb \in BOOLEAN
      BY <3>2
    <3> QED  BY <3>3, <3>4, <3>5
  <2>9. /\ {reg_pc, reg_next_pc, reg_out, alu_out_q, return_pc,
             follows, launched, interrupted} \subseteq Half
        /\ latched_rd \in Half \cup Junk \cup {x0, q0, q1}
        /\ timer \in 0 .. MaxTimer /\ reg_sh \in 0 .. MaxShift
        /\ pcpi_timeout_counter \in 0 .. MaxTimeout
    BY <2>7, Apart DEF Init
  <2>10. /\ cpu_state = "none" /\ started = "off" /\ irq_state = 0
         /\ {irq_mask, irq_pending, eoi} \subseteq SUBSET IrqLine
         /\ insn1 \in Insn /\ insn2 \in Insn
    BY <2>3 DEF Init
  <2> QED  BY <2>2, <2>5, <2>8, <2>9, <2>10 DEF TypeInv, TypeOK
<1>2. PowerInv  BY DEF Init, MemInit, PowerInv, Quiet, Fetching
<1>3. RequestInv /\ TriggerInv  BY DEF Init, RequestInv, TriggerInv
<1>4. DecoderInv /\ LaunchInv /\ BranchInv /\ EntryInv
  BY DEF Init, DecoderInv, LaunchInv, BranchInv, EntryInv, Executing, Accessing, Mid
<1>5. AccessInv  BY DEF Init, MemInit, AccessInv
<1>6. BegunInv /\ BufferInv  BY DEF Init, MemInit, BegunInv, BufferInv, Mid
<1>7. DecodedInv  BY DEF Init, DecodedInv, Decoded, Accessing
<1>8. PrefetchInv /\ FetchInv  BY DEF Init, MemInit, PrefetchInv, FetchInv
<1>9. OrderInv /\ WriteInv  BY DEF Init, OrderInv, WriteInv, Mid
<1>10. SavedInv /\ IrqInv  BY DEF Init, SavedInv, IrqInv, Trouble, Mid
<1>11. UnitInv /\ TimeoutInv  BY DEF Init, UnitInv, TimeoutInv
<1> QED
  BY <1>1, <1>2, <1>3, <1>4, <1>5, <1>6, <1>7, <1>8, <1>9, <1>10, <1>11
  DEF AllInv, CoreInv, ControlInv, MemoryInv, HistoryInv, PcpiInv

(* It holds as long as nothing changes. *)
LEMMA StutterInv == AllInv /\ UNCHANGED vars => AllInv'
<1> SUFFICES ASSUME AllInv, UNCHANGED vars PROVE AllInv'
  OBVIOUS
<1> USE DEF AllInv, CoreInv, ControlInv, MemoryInv, HistoryInv, PcpiInv,
            vars, memVars, portVars, programVars, decoderVars, irqVars, histVars
<1>1. TypeInv'  BY DEF TypeInv, TypeOK, ProgramInv
<1>2. PowerInv'  BY DEF PowerInv, Quiet, Fetching
<1>3. RequestInv' /\ TriggerInv'
  BY DEF RequestInv, TriggerInv, Fetching, Operation
<1>4. DecoderInv' /\ LaunchInv'
  BY DEF DecoderInv, LaunchInv, Executing, Accessing, Mid, Following, Size2, Plus, Long
<1>5. BranchInv' /\ EntryInv'  BY DEF BranchInv, EntryInv, Mid, Plus, Operation
<1>6. AccessInv'
  BY DEF AccessInv, Fetching, mem_la_firstword, next_pc, Sequential, Odd
<1>7. BegunInv' /\ BufferInv'
  BY DEF BegunInv, BufferInv, Decoded, Accessing, Mid, Sequential, Odd
<1>8. DecodedInv'
  BY DEF DecodedInv, Decoded, Accessing, Sequential, Next1, Following, Size2, Plus, Long,
         Buffered, Odd
<1>9. PrefetchInv'  BY DEF PrefetchInv, Next1, Plus, Long, Buffered
<1>10. FetchInv'
  BY DEF FetchInv, Fetching, mem_la_firstword, next_pc, WordAfter, WordOf, Odd, Long
<1>11. OrderInv' /\ WriteInv'  BY DEF OrderInv, WriteInv, Mid, Plus, CurrentPc
<1>12. SavedInv'
  BY DEF SavedInv, InTrouble, Trouble, Following, Size2, Plus, Long
<1>13. IrqInv'  BY DEF IrqInv, Mid, Unmasked
<1>14. UnitInv' /\ TimeoutInv'  BY DEF UnitInv, TimeoutInv, Mine, Operation
<1> QED
  BY <1>1, <1>2, <1>3, <1>4, <1>5, <1>6, <1>7, <1>8, <1>9, <1>10, <1>11, <1>12, <1>13, <1>14

(* Every step preserves the invariant. *)
LEMMA NextInv == AllInv /\ [Next]_vars => AllInv'
<1>1. ASSUME AllInv, Next PROVE AllInv'
  <2>1. PICK in \in Inputs : Edge(in)  BY <1>1 DEF Next
  <2> QED  BY <1>1, <2>1, CoreStep, HistoryStep, PcpiStep DEF AllInv
<1> QED  BY <1>1, StutterInv

(* Every state the core can be in has all the parts of the invariant. *)
THEOREM Invariance == Spec => []AllInv
<1> QED  BY InitInv, NextInv, PTL DEF Spec

-----------------------------------------------------------------------------
(* The properties. *)

(* The requests exclude each other. *)
LEMMA Excluded ==
    ASSUME TypeInv, PowerInv, RequestInv
    PROVE  /\ mem_do_wdata => ~Fetching /\ ~mem_do_rdata
           /\ mem_do_rdata => ~Fetching
  BY DEF TypeInv, TypeOK, RequestInv, PowerInv, Quiet, Fetching

(* The requests exclude each other, and what the memory interface does is   *)
(* what is asked of it the whole time: the assertions of picorv32.v hold in *)
(* every reachable state, whatever the inputs are.                          *)
THEOREM AssertionsHold == Spec => []Asserts
<1>1. ASSUME AllInv PROVE Asserts
  <2>1. TypeInv /\ PowerInv /\ RequestInv /\ TriggerInv /\ AccessInv /\ BufferInv
        /\ EntryInv /\ BranchInv
    BY <1>1 DEF AllInv, CoreInv, ControlInv, MemoryInv
  <2>2. TypeOK  BY <2>1 DEF TypeInv
  <2>3. SUFFICES ASSUME NEW in \in Inputs, in.resetn, ~trap
                 PROVE  /\ mem_do_wdata => ~Fetching /\ ~mem_do_rdata
                        /\ mem_do_rdata => ~Fetching
                        /\ mem_state \in {2, 3} => mem_valid \/ mem_do_prefetch
                        /\ mem_state = 1 =>
                               /\ ~mem_wstrb /\ (Fetching \/ mem_do_rdata)
                               /\ mem_valid <=> ~mem_la_use_prefetched_high_word(in)
                               /\ mem_instr <=> Fetching
                        /\ mem_state = 2 => mem_wstrb /\ mem_do_wdata
                        /\ mem_state = 3 => ~mem_wstrb /\ mem_do_prefetch
    BY <2>2 DEF Asserts
  <2>4. /\ mem_do_wdata => ~Fetching /\ ~mem_do_rdata
        /\ mem_do_rdata => ~Fetching
    BY <2>1, Excluded
  <2>5. prefetched_high_word => (clear_prefetched_high_word(in) <=> ~Sequential)
    BY <2>1, <2>3 DEF BufferInv, clear_prefetched_high_word, Sequential
  <2>6. mem_la_use_prefetched_high_word(in)
        <=> mem_la_firstword /\ prefetched_high_word /\ Sequential
    BY <2>5 DEF mem_la_use_prefetched_high_word
  <2>7. mem_state = 1 => /\ ~mem_wstrb /\ (Fetching \/ mem_do_rdata)
                         /\ mem_instr <=> Fetching
    BY <2>1, <2>3 DEF AccessInv
  <2>8. mem_state = 1 => (mem_valid <=> ~mem_la_use_prefetched_high_word(in))
    BY <2>1, <2>3, <2>6 DEF AccessInv
  <2>9. /\ mem_state = 2 => mem_wstrb /\ mem_do_wdata /\ mem_valid
        /\ mem_state = 3 => ~mem_wstrb /\ mem_do_prefetch
    BY <2>1, <2>3 DEF AccessInv
  <2> QED  BY <2>4, <2>7, <2>8, <2>9
<1> QED  BY <1>1, Invariance, PTL

(* The instruction launched is the next one in program order, with its own  *)
(* halfwords: after jumps, taken branches, interrupts and returns as well,  *)
(* wherever it lies and whatever was prefetched, kept or discarded before.  *)
THEOREM LaunchedInOrder == Spec => []InProgramOrder
<1>1. ASSUME AllInv PROVE InProgramOrder
  <2>1. SUFFICES ASSUME launch_next_insn
                 PROVE  /\ CurrentPc = follows
                        /\ insn1.raw.lo = follows
                        /\ Long(follows) => insn1.raw.hi = Plus(follows, 1)
                        /\ compressed_instr <=> ~Long(follows)
    BY DEF InProgramOrder
  <2>2. DecodedInv /\ OrderInv /\ EntryInv
    BY <1>1 DEF AllInv, CoreInv, ControlInv, MemoryInv, HistoryInv
  <2>3. cpu_state = "fetch" /\ decoder_trigger  BY <2>1 DEF launch_next_insn
  <2>4. Sequential  BY <2>2, <2>3 DEF DecodedInv, Decoded
  <2>5. CurrentPc = reg_next_pc  BY <2>4 DEF CurrentPc, Sequential
  <2>6. CurrentPc = follows  BY <2>2, <2>3, <2>4 DEF OrderInv, Sequential
  <2>7. /\ insn1.raw.lo = reg_next_pc
        /\ Long(reg_next_pc) => insn1.raw.hi = Next1(reg_next_pc)
        /\ compressed_instr <=> ~Long(reg_next_pc)
    BY <2>2, <2>3 DEF DecodedInv, Decoded
  <2> QED  BY <2>5, <2>6, <2>7 DEF Next1
<1> QED  BY <1>1, Invariance, PTL

(* What is latched of an instruction stays its own until it has been        *)
(* executed and written back, though the next one is fetched and decoded    *)
(* into the same registers and an interrupt may come between.               *)
THEOREM InstructionIsKept == Spec => []KeepsInstruction
<1>1. ASSUME AllInv PROVE KeepsInstruction
  <2>1. DecoderInv /\ LaunchInv /\ RequestInv /\ EntryInv /\ WriteInv
    BY <1>1 DEF AllInv, CoreInv, ControlInv, HistoryInv
  <2>2. DecoderHolds
    BY <2>1 DEF DecoderHolds, DecoderInv, LaunchInv, Executing, Accessing, Mid
  <2>3. WritesOwnRegister
    BY <2>1 DEF WritesOwnRegister, EntryInv, WriteInv
  <2> QED  BY <2>2, <2>3 DEF KeepsInstruction
<1> QED  BY <1>1, Invariance, PTL

(* While a handler runs q0 has what follows the interrupted instruction in  *)
(* program order, and with it and its low bit the handler of an illegal     *)
(* instruction or a misaligned access finds the one to blame.               *)
THEOREM HandlerCanReturn == Spec => []ReturnAddress
<1>1. ASSUME AllInv PROVE ReturnAddress
  <2>1. SavedInv /\ EntryInv  BY <1>1 DEF AllInv, CoreInv, ControlInv, HistoryInv
  <2>2. return_pc = interrupted  BY <2>1 DEF SavedInv
  <2>3. ASSUME irq_state = 2, irq_pending \cap {"ebreak", "buserror"} # {}
        PROVE  /\ irq_active
               /\ return_compr <=> ~Long(launched)
               /\ return_pc = Plus(launched, IF return_compr THEN 1 ELSE 2)
    <3>1. cpu_state = "fetch"  BY <2>1, <2>3 DEF EntryInv
    <3>2. InTrouble  BY <2>1, <2>3, <3>1 DEF SavedInv, Trouble
    <3>3. /\ irq_active
          /\ return_compr <=> ~Long(launched)
          /\ interrupted = Following(launched)
      BY <2>3, <3>2 DEF InTrouble
    <3>4. Size2(launched) = IF return_compr THEN 1 ELSE 2  BY <3>3 DEF Size2
    <3> QED  BY <2>2, <3>3, <3>4 DEF Following
  <2> QED  BY <2>2, <2>3 DEF ReturnAddress
<1> QED  BY <1>1, Invariance, PTL

(* An instruction of a unit's never runs into the timeout, and no answer    *)
(* comes late to the instruction after it.                                  *)
THEOREM AnswersInTime == Spec => []UnitsAnswerInTime
<1>1. ASSUME AllInv PROVE UnitsAnswerInTime
  <2>1. UnitInv /\ TimeoutInv /\ TypeInv
    BY <1>1 DEF AllInv, CoreInv, ControlInv, PcpiInv
  <2>2. ASSUME cpu_state = "ld_rs1", Operation \in Unit PROVE ~pcpi_timeout
    <3>1. insn2.kind \in Unit
      BY <2>2 DEF Operation, Unit, Phase1Kind
    <3>2. CASE ~pcpi_valid  BY <2>1, <2>2, <3>2 DEF TimeoutInv
    <3>3. CASE pcpi_valid  BY <2>1, <2>2, <3>1, <3>3 DEF TimeoutInv, Mine
    <3> QED  BY <3>2, <3>3
  <2>3. ASSUME NEW u \in Unit, started = "on", unit[u].ready
        PROVE  cpu_state = "ld_rs1" /\ pcpi_valid /\ insn2.kind = u
    BY <2>1, <2>3 DEF UnitInv, Mine
  <2> QED  BY <2>2, <2>3 DEF UnitsAnswerInTime
<1> QED  BY <1>1, Invariance, PTL

(* What a step does to an interrupt that is pending. *)
LEMMA PendingStep ==
    ASSUME AllInv, NEW in \in Inputs, Edge(in), started = "on"
    PROVE  /\ irq_pending \subseteq irq_pending' \cup eoi'
           /\ irq_state = 2 => eoi' # {}
<1>1. CoreInv /\ HistoryInv /\ TypeInv /\ EntryInv /\ IrqInv
  BY DEF AllInv, CoreInv, ControlInv, HistoryInv
<1>2. ~Reset(in)  BY <1>1, InputFacts DEF Reset
<1>3. CASE Stopped(in)
  <2>1. irq_pending \subseteq irq_pending'  BY <1>3 DEF Stopped, Raise
  <2>2. irq_state # 2  BY <1>1, <1>3 DEF Stopped, EntryInv
  <2> QED  BY <2>1, <2>2
<1>4. CASE AtWork(in) /\ irq_state # 2
  BY <1>1, <1>4, IrqFacts
<1>5. CASE AtWork(in) /\ irq_state = 2
  <2>1. cpu_state = "fetch" /\ ~latched_branch /\ ~latched_store  BY <1>1, <1>5 DEF EntryInv
  <2>2. EnterIrq(in)
    BY <1>1, <1>5, <2>1, WorkCases DEF WaitIrq, AwaitInsn, Launch, FetchNoIrq, TakesIrq
  <2>3. eoi' = Unmasked /\ Raise(in, StaysPending, {})
    BY <1>5, <2>1, <2>2 DEF EnterIrq
  <2>4. Unmasked # {}  BY <1>1, <1>5 DEF IrqInv
  <2>5. irq_pending \subseteq StaysPending \cup Unmasked  BY DEF StaysPending, Unmasked
  <2> QED  BY <2>3, <2>4, <2>5 DEF Raise
<1> QED  BY <1>1, <1>2, <1>3, <1>4, <1>5, EdgeCases

(* Once it runs, the core forgets no interrupt that is pending but those it *)
(* reports in eoi, and a handler is entered only with one to handle.        *)
THEOREM InterruptsAreKept == Spec => NoIrqLost
<1>1. ASSUME AllInv, [Next]_vars
      PROVE  [started = "on" =>
                 /\ irq_pending \subseteq irq_pending' \cup eoi'
                 /\ irq_state = 2 => eoi' # {}]_vars
  <2>1. ASSUME Next, started = "on"
        PROVE  /\ irq_pending \subseteq irq_pending' \cup eoi'
               /\ irq_state = 2 => eoi' # {}
    <3>1. PICK in \in Inputs : Edge(in)  BY <2>1 DEF Next
    <3> QED  BY <1>1, <2>1, <3>1, PendingStep
  <2> QED  BY <1>1, <2>1
<1> QED  BY <1>1, Invariance, PTL DEF Spec, NoIrqLost

(* Between the return from a handler and the next entry an instruction of   *)
(* the program is executed, however many interrupts are pending.            *)
THEOREM ProgramGoesOn == Spec => ProgressBetweenIrqs
<1>1. ASSUME AllInv, [Next]_vars
      PROVE  [irq_state = 0 /\ irq_state' = 1 => ~resumed]_vars
  <2>1. ASSUME Next, irq_state = 0, irq_state' = 1 PROVE ~resumed
    <3>1. PICK in \in Inputs : Edge(in)  BY <2>1 DEF Next
    <3>2. CoreInv /\ TypeInv /\ IrqInv
      BY <1>1 DEF AllInv, CoreInv, ControlInv, HistoryInv
    <3>3. ~Reset(in) /\ ~Stopped(in)  BY <2>1 DEF Reset, Stopped
    <3>4. AtWork(in)  BY <3>1, <3>2, <3>3, EdgeCases
    <3>5. cpu_state = "fetch"  BY <2>1, <3>1, <3>2, <3>4, IrqFacts
    <3>6. EnterIrq(in)
      BY <2>1, <3>1, <3>2, <3>4, <3>5, WorkCases DEF WaitIrq, AwaitInsn, Launch, FetchNoIrq
    <3>7. ~irq_delay  BY <2>1, <3>6 DEF EnterIrq, TakesIrq
    <3> QED  BY <3>2, <3>7 DEF IrqInv
  <2> QED  BY <1>1, <2>1
<1> QED  BY <1>1, Invariance, PTL DEF Spec, ProgressBetweenIrqs

-----------------------------------------------------------------------------
(* The memory port. *)

(* Registers the port shows, and that a store does not take the halfword of *)
(* an earlier fetch for the first of two.                                   *)
PortInv ==
    /\ trap \in BOOLEAN /\ mem_la_secondword \in BOOLEAN
    /\ ~trap /\ mem_do_wdata /\ last_mem_valid => ~mem_la_firstword_reg

(* An edge preserves PortInv. *)
LEMMA PortInvStep ==
    ASSUME AllInv, PortInv, NEW in \in Inputs, Edge(in)
    PROVE  PortInv'
<1>1. /\ TypeInv /\ PowerInv /\ RequestInv /\ AccessInv /\ BegunInv /\ CoreInv
  BY DEF AllInv, CoreInv, ControlInv, MemoryInv
<1>2. MemEdge(in) /\ CpuEdge(in)  BY DEF Edge
<1>3. trap' \in BOOLEAN
  BY <1>2
  DEF CpuEdge, EnterIrq, WaitIrq, AwaitInsn, Launch, AskUnits, TakeAnswer, Refuse,
      ReadRegister, RetIrq, ToOtherState, ExecBranch, Exec, Shift, Stmem, Ldmem,
      MemoryAccess, FetchNoIrq, Fetch, Execute, LdRs1, Stopped, Reset
<1>4. mem_la_secondword' \in BOOLEAN
  BY <1>2
  DEF PortInv, MemEdge, ResetMem, Sleep, StartRead, StartWrite, Wait, AskSecondWord,
      EndRead, EndWrite, UsePrefetch
<1>5. ASSUME ~trap', mem_do_wdata', last_mem_valid' PROVE ~mem_la_firstword_reg'
  <2>1. in.resetn /\ mem_valid /\ ~in.ready  BY <1>2, <1>5 DEF MemEdge
  <2>2. ~Reset(in)  BY <2>1 DEF Reset
  <2>3. ~trap
    <3>1. CASE Stopped(in)  BY <1>1, <1>5, <3>1 DEF Stopped, RequestInv
    <3>2. CASE AtWork(in)  BY <1>1, <3>2, AtWorkFacts
    <3> QED  BY <1>1, <2>2, <3>1, <3>2, EdgeCases
  <2>4. mem_la_firstword_reg' <=> FirstwordOfXfer  BY <1>2, <2>1 DEF MemEdge
  <2>5. CASE mem_do_wdata
    <3>1. ~mem_la_firstword  BY <1>1, <2>5, Excluded DEF mem_la_firstword
    <3> QED  BY <2>3, <2>4, <2>5, <3>1 DEF FirstwordOfXfer, PortInv
  <2>6. CASE ~mem_do_wdata
    <3>1. AtWork(in) /\ cpu_state = "stmem" /\ Stmem(in)
      <4>1. ~Stopped(in)  BY <1>5, <2>6 DEF Stopped, Request
      <4>2. AtWork(in)  BY <1>1, <2>2, <4>1, EdgeCases
      <4>3. cpu_state = "stmem"
        BY <1>1, <1>5, <2>6, <4>2, WorkCases
        DEF EnterIrq, WaitIrq, AwaitInsn, Launch, AskUnits, TakeAnswer, Refuse,
            ReadRegister, RetIrq, ToOtherState, ExecBranch, Exec, Shift, Ldmem,
            MemoryAccess, Request
      <4> QED  BY <1>1, <4>2, <4>3, WorkCases
    <3>2. ~mem_do_prefetch \/ mem_done(in)
      BY <1>5, <2>6, <3>1 DEF Stmem, MemoryAccess, Request
    <3>3. MemStep(in)  BY <1>1, <1>2, <3>1, MemCases
    <3>4. OnGoing(in)
      BY <1>5, <3>3
      DEF MemStep, Idle, Begin, BeginFetch, BeginLoad, BeginStore, BeginSecond, EndAccess,
          EndPrefetch, EndFetch, EndData
    <3>5. mem_state # 0 /\ ~mem_do_prefetch  BY <3>2, <3>4 DEF OnGoing
    <3>6. ~mem_do_rdata  BY <1>1, <3>1 DEF RequestInv
    <3>7. mem_state \notin {1, 2, 3}
      BY <1>1, <2>6, <3>1, <3>5, <3>6 DEF BegunInv, Mid
    <3> QED  BY <1>1, <3>5, <3>7 DEF TypeInv, TypeOK
  <2> QED  BY <2>5, <2>6
<1> QED  BY <1>3, <1>4, <1>5 DEF PortInv

(* The address of an access to code, or of one to data. *)
LEMMA AddressType ==
    ASSUME TypeInv, NEW in \in Inputs
    PROVE  /\ mem_la_addr(in) \in 0 .. DataAddr
           /\ ~Fetching => mem_la_addr(in) = DataAddr
<1>1. CodeWords \in Nat /\ CodeWords > 0 /\ DataAddr = CodeWords
  BY CodeAssumption DEF DataAddr
<1>2. ~Fetching => mem_la_addr(in) = DataAddr  BY DEF mem_la_addr
<1>3. ASSUME Fetching PROVE mem_la_addr(in) \in 0 .. DataAddr
  <2>1. next_pc \in Half  BY DEF TypeInv, TypeOK, next_pc
  <2>2. WordOf(next_pc) \in 0 .. CodeWords - 1 /\ WordAfter(next_pc) \in 0 .. CodeWords - 1
        /\ (next_pc \div 2 + 0) % CodeWords = WordOf(next_pc)
    BY <2>1, WordFacts
  <2>3. mem_la_addr(in) \in {WordOf(next_pc), WordAfter(next_pc)}
    BY <1>3, <2>2 DEF mem_la_addr, WordAfter
  <2> QED  BY <1>1, <2>2, <2>3
<1>4. DataAddr \in 0 .. DataAddr  BY <1>1
<1> QED  BY <1>2, <1>3, <1>4

(* What the port does at an edge, out of reset and trap. *)
PortHold(in) ==
    /\ mem_valid /\ ~in.ready
    /\ UNCHANGED <<portVars, mem_la_secondword>>

PortIdle ==
    /\ ~mem_valid /\ mem_valid' = mem_valid
    /\ \/ UNCHANGED <<mem_instr, mem_addr, mem_wstrb>>
       \/ mem_instr' = TRUE /\ ~mem_wstrb' /\ mem_addr' \in 0 .. DataAddr
    /\ mem_la_secondword' = mem_la_secondword

PortRead ==
    /\ ~mem_valid /\ mem_valid' = TRUE
    /\ mem_addr' \in 0 .. DataAddr /\ ~mem_wstrb'
    /\ mem_instr' \in BOOLEAN
    /\ mem_la_secondword' \in {FALSE, mem_instr'}

PortWrite ==
    /\ ~mem_valid /\ mem_valid' = TRUE
    /\ mem_addr' = DataAddr /\ mem_wstrb' /\ mem_instr' = FALSE
    /\ mem_la_secondword' = mem_la_secondword

PortEnd(in) ==
    /\ mem_valid /\ in.ready
    /\ mem_valid' = FALSE /\ mem_la_secondword' = FALSE
    /\ UNCHANGED <<mem_instr, mem_addr, mem_wstrb>>

PortSecond(in) ==
    /\ mem_valid /\ in.ready /\ mem_instr /\ ~mem_la_secondword
    /\ mem_addr' \in 0 .. DataAddr /\ mem_la_secondword' = TRUE
    /\ mem_valid' = mem_valid /\ mem_instr' = mem_instr /\ ~mem_wstrb /\ ~mem_wstrb'

(* Every edge of the memory interface is one of these moves of the port,    *)
(* even when the main state machine has just trapped.                       *)
LEMMA PortCases ==
    ASSUME AllInv, PortInv, NEW in \in Inputs, MemEdge(in), in.resetn, ~trap
    PROVE  PortHold(in) \/ PortIdle \/ PortRead \/ PortWrite \/ PortEnd(in) \/ PortSecond(in)
<1>1. TypeInv /\ PowerInv /\ RequestInv /\ AccessInv /\ BufferInv
  BY DEF AllInv, CoreInv, ControlInv, MemoryInv
<1>2. /\ mem_do_wdata => ~Fetching /\ ~mem_do_rdata
      /\ mem_do_rdata => ~Fetching
  BY <1>1, Excluded
<1>3. /\ Address(in)
      /\ \/ Sleep(in) \/ StartRead(in) \/ StartWrite(in) \/ Wait(in)
         \/ AskSecondWord(in) \/ EndRead(in) \/ EndWrite(in) \/ UsePrefetch(in)
  BY DEF MemEdge
<1>4. in.ready => mem_valid  BY <1>1, InputFacts
<1>5. /\ mem_state \in 0 .. 3
      /\ mem_valid \in BOOLEAN /\ mem_instr \in BOOLEAN /\ mem_wstrb \in BOOLEAN
      /\ mem_la_secondword \in BOOLEAN
  BY <1>1 DEF TypeInv, TypeOK, PortInv
<1>6. mem_la_addr(in) \in 0 .. DataAddr /\ (~Fetching => mem_la_addr(in) = DataAddr)
  BY <1>1, AddressType
<1>7. mem_la_use_prefetched_high_word(in) =>
          mem_la_firstword /\ Fetching /\ prefetched_high_word /\ Sequential /\ Odd(next_pc)
  BY DEF mem_la_use_prefetched_high_word, clear_prefetched_high_word, mem_la_firstword,
         Sequential, Odd
<1>8. mem_valid => mem_state \in {1, 2} /\ ~mem_la_use_prefetched_high_word(in)
  BY <1>1, <1>2, <1>7 DEF AccessInv
<1>9. mem_valid => (mem_xfer(in) <=> in.ready)  BY <1>8 DEF mem_xfer
<1>10. ~mem_valid => (mem_xfer(in) <=> mem_la_use_prefetched_high_word(in) /\ mem_do_rinst)
  BY DEF mem_xfer
<1>11. /\ mem_la_read(in) <=>
              \/ mem_state = 0 /\ (Fetching \/ mem_do_rdata)
                 /\ ~mem_la_use_prefetched_high_word(in)
              \/ NeedsSecondWord(in)
       /\ mem_la_write(in) <=> mem_state = 0 /\ mem_do_wdata
  BY DEF mem_la_read, mem_la_write
<1>12. ~mem_la_read(in) /\ ~mem_la_write(in) /\ (mem_state = 0 => ~Fetching /\ ~mem_do_rdata)
       => mem_addr' = mem_addr /\ mem_wstrb' = mem_wstrb
  BY <1>3, <1>5 DEF Address
<1>13. mem_la_read(in) \/ mem_la_write(in) =>
           mem_addr' \in 0 .. DataAddr /\ (mem_wstrb' <=> mem_la_write(in))
  BY <1>3, <1>6 DEF Address
<1>14. NeedsSecondWord(in) /\ mem_state # 0 => Fetching /\ mem_state # 2
  BY <1>1, <1>2 DEF NeedsSecondWord, FirstwordOfXfer, mem_la_firstword, AccessInv, PortInv
<1>a. CASE Sleep(in)
  <2>1. /\ mem_state = 0 /\ ~Fetching /\ ~mem_do_rdata /\ ~mem_do_wdata /\ ~mem_valid
        /\ UNCHANGED <<mem_valid, mem_instr, mem_la_secondword>>
    BY <1>a, <1>8 DEF Sleep
  <2>2. ~mem_xfer(in)  BY <2>1, <1>7, <1>10
  <2>3. ~mem_la_read(in) /\ ~mem_la_write(in)  BY <2>1, <2>2, <1>11 DEF NeedsSecondWord
  <2>4. mem_addr' = mem_addr /\ mem_wstrb' = mem_wstrb  BY <2>1, <2>3, <1>12
  <2> QED  BY <2>1, <2>4 DEF PortIdle
<1>b. CASE StartRead(in)
  <2>1. /\ mem_state = 0 /\ (Fetching \/ mem_do_rdata) /\ ~mem_do_wdata /\ ~mem_valid
        /\ mem_instr' = Fetching /\ mem_la_secondword' = mem_la_secondword
        /\ mem_valid' = ~mem_la_use_prefetched_high_word(in)
    BY <1>b, <1>8 DEF StartRead
  <2>2. ~mem_la_write(in)  BY <2>1, <1>11
  <2>3. ~mem_wstrb'  BY <1>3, <2>1, <2>2 DEF Address
  <2>4. CASE mem_la_use_prefetched_high_word(in)
    <3>1. mem_instr' = TRUE /\ mem_valid' = FALSE  BY <2>1, <2>4, <1>7
    <3>2. mem_addr' \in 0 .. DataAddr
      <4>1. mem_addr \in 0 .. DataAddr  BY <1>1 DEF TypeInv, TypeOK
      <4> QED  BY <4>1, <1>3, <1>6 DEF Address
    <3>3. mem_valid' = mem_valid  BY <2>1, <3>1, <1>5
    <3> QED  BY <2>1, <2>3, <3>1, <3>2, <3>3 DEF PortIdle
  <2>5. CASE ~mem_la_use_prefetched_high_word(in)
    <3>1. mem_valid' = TRUE /\ mem_instr' \in BOOLEAN  BY <2>1, <2>5 DEF Fetching
    <3>2. mem_addr' \in 0 .. DataAddr  BY <2>1, <2>5, <1>11, <1>13
    <3>3. mem_la_secondword' = FALSE
      BY <1>1, <1>5, <2>1 DEF AccessInv
    <3> QED  BY <2>1, <2>3, <3>1, <3>2, <3>3 DEF PortRead
  <2> QED  BY <2>4, <2>5
<1>c. CASE StartWrite(in)
  <2>1. /\ mem_state = 0 /\ mem_do_wdata /\ ~mem_valid /\ ~Fetching
        /\ mem_valid' = TRUE /\ mem_instr' = FALSE /\ mem_la_secondword' = mem_la_secondword
    BY <1>c, <1>2, <1>8 DEF StartWrite
  <2>2. mem_la_write(in)  BY <2>1, <1>11
  <2>3. mem_wstrb' /\ mem_addr' = DataAddr  BY <2>1, <2>2, <1>3, <1>6 DEF Address
  <2> QED  BY <2>1, <2>3 DEF PortWrite
<1>d. CASE Wait(in)
  <2>1. UNCHANGED <<mem_valid, mem_instr, mem_la_secondword>> /\ mem_state # 0
    BY <1>d DEF Wait
  <2>2. ~mem_xfer(in)
    <3>1. CASE mem_state = 3
      <4>1. ~mem_valid /\ ~mem_do_rinst  BY <1>d, <1>8, <3>1 DEF Wait
      <4> QED  BY <4>1, <1>10
    <3>2. CASE mem_state # 3  BY <1>d, <3>2 DEF Wait
    <3> QED  BY <3>1, <3>2
  <2>3. ~mem_la_read(in) /\ ~mem_la_write(in)  BY <2>1, <2>2, <1>11 DEF NeedsSecondWord
  <2>4. mem_addr' = mem_addr /\ mem_wstrb' = mem_wstrb  BY <2>1, <2>3, <1>12
  <2>5. CASE mem_valid
    BY <2>1, <2>2, <2>4, <2>5, <1>9 DEF PortHold, portVars
  <2>6. CASE ~mem_valid
    BY <2>1, <2>4, <2>6 DEF PortIdle
  <2> QED  BY <2>5, <2>6
<1>e. CASE AskSecondWord(in)
  <2>1. /\ mem_state = 1 /\ mem_xfer(in) /\ mem_la_read(in)
        /\ mem_valid' = TRUE /\ mem_la_secondword' = TRUE /\ mem_instr' = mem_instr
    BY <1>e DEF AskSecondWord
  <2>2. NeedsSecondWord(in) /\ ~mem_la_write(in)  BY <2>1, <1>11
  <2>3. Fetching /\ ~mem_la_secondword  BY <2>1, <2>2, <1>14 DEF NeedsSecondWord
  <2>4. mem_addr' \in 0 .. DataAddr /\ ~mem_wstrb'  BY <2>1, <2>2, <1>13
  <2>5. mem_instr /\ ~mem_wstrb  BY <1>1, <2>1, <2>3 DEF AccessInv
  <2>6. CASE mem_valid
    <3>1. in.ready /\ mem_valid' = mem_valid  BY <2>1, <2>6, <1>5, <1>9
    <3> QED  BY <2>1, <2>3, <2>4, <2>5, <2>6, <3>1 DEF PortSecond
  <2>7. CASE ~mem_valid
    <3>1. mem_instr' = TRUE  BY <2>1, <2>5, <1>5
    <3> QED  BY <2>1, <2>4, <2>7, <3>1 DEF PortRead
  <2> QED  BY <2>6, <2>7
<1>f. CASE EndRead(in)
  <2>1. /\ mem_state = 1 /\ mem_xfer(in) /\ ~mem_la_read(in)
        /\ mem_valid' = FALSE /\ mem_la_secondword' = FALSE /\ mem_instr' = mem_instr
    BY <1>f DEF EndRead
  <2>2. mem_addr' = mem_addr /\ mem_wstrb' = mem_wstrb  BY <2>1, <1>11, <1>12
  <2>3. CASE mem_valid
    BY <2>1, <2>2, <2>3, <1>9 DEF PortEnd
  <2>4. CASE ~mem_valid
    <3>1. mem_la_secondword = FALSE  BY <1>1, <1>5, <2>4 DEF AccessInv
    <3>2. mem_valid' = mem_valid /\ mem_la_secondword' = mem_la_secondword
      BY <2>1, <2>4, <3>1, <1>5
    <3> QED  BY <2>1, <2>2, <2>4, <3>2 DEF PortIdle
  <2> QED  BY <2>3, <2>4
<1>g. CASE EndWrite(in)
  <2>1. /\ mem_state = 2 /\ mem_xfer(in) /\ mem_valid' = FALSE
        /\ mem_instr' = mem_instr /\ mem_la_secondword' = mem_la_secondword
    BY <1>g DEF EndWrite
  <2>2. mem_valid /\ in.ready  BY <1>1, <2>1, <1>9 DEF AccessInv
  <2>3. ~mem_la_read(in) /\ ~mem_la_write(in)  BY <2>1, <1>11, <1>14
  <2>4. mem_addr' = mem_addr /\ mem_wstrb' = mem_wstrb  BY <2>1, <2>3, <1>12
  <2>5. mem_la_secondword' = FALSE  BY <1>1, <1>5, <2>1 DEF AccessInv
  <2> QED  BY <2>1, <2>2, <2>4, <2>5 DEF PortEnd
<1>h. CASE UsePrefetch(in)
  <2>1. /\ mem_state = 3 /\ UNCHANGED <<mem_valid, mem_instr, mem_la_secondword>>
    BY <1>h DEF UsePrefetch
  <2>2. ~mem_valid /\ Sequential /\ ~Odd(reg_next_pc)  BY <1>1, <2>1 DEF AccessInv
  <2>3. ~mem_xfer(in)  BY <2>2, <1>7, <1>10 DEF next_pc, Sequential
  <2>4. ~mem_la_read(in) /\ ~mem_la_write(in)  BY <2>1, <2>3, <1>11 DEF NeedsSecondWord
  <2>5. mem_addr' = mem_addr /\ mem_wstrb' = mem_wstrb  BY <2>1, <2>4, <1>12
  <2> QED  BY <2>1, <2>2, <2>5 DEF PortIdle
<1> QED  BY <1>3, <1>a, <1>b, <1>c, <1>d, <1>e, <1>f, <1>g, <1>h

(* One edge of the core is one of its port, at either of the inputs that    *)
(* have the same effect on the memory interface.                            *)
LEMMA PortStep ==
    ASSUME AllInv, PortInv, NEW inputs \in Inputs, Edge(inputs),
           NEW in \in Inputs, MemEdge(in), Power(in)
    PROVE  Port!CoreEdge(in.resetn, in.ready)
<1>1. /\ TypeInv /\ PowerInv /\ RequestInv /\ AccessInv /\ CoreInv
  BY DEF AllInv, CoreInv, ControlInv, MemoryInv
<1>2. /\ in.resetn \in BOOLEAN /\ inputs.resetn \in BOOLEAN
      /\ started = "on" => in.resetn /\ inputs.resetn
  BY <1>1, InputFacts
<1>3. in.resetn <=> inputs.resetn
  BY <1>1, <1>2 DEF Edge, Power, TypeInv, TypeOK
<1>4. (started' # "off") = ((started # "off") \/ ~in.resetn)
  BY <1>1, <1>2 DEF Power, TypeInv, TypeOK
<1>5. /\ mem_valid \in BOOLEAN /\ mem_instr \in BOOLEAN /\ mem_wstrb \in BOOLEAN
      /\ mem_la_secondword \in BOOLEAN /\ trap \in BOOLEAN
  BY <1>1 DEF TypeInv, TypeOK, PortInv
<1>6. CASE ~in.resetn
  <2>1. /\ mem_valid' = FALSE /\ mem_la_secondword' = FALSE
        /\ UNCHANGED <<mem_instr, mem_addr, mem_wstrb>>
    BY <1>6 DEF MemEdge, ResetMem
  <2>2. trap' = FALSE
    <3>1. ~inputs.resetn  BY <1>3, <1>6
    <3> QED  BY <1>1, <3>1, EdgeCases DEF Reset, Stopped, AtWork
  <2> QED  BY <1>4, <1>6, <2>1, <2>2 DEF Port!CoreEdge
<1>7. CASE in.resetn /\ trap
  <2>1. /\ mem_valid' = (mem_valid /\ ~in.ready) /\ mem_la_secondword' = FALSE
        /\ UNCHANGED <<mem_instr, mem_addr, mem_wstrb>>
    BY <1>5, <1>7 DEF MemEdge, ResetMem
  <2>2. trap' = trap
    <3>1. cpu_state = "trap" /\ inputs.resetn  BY <1>1, <1>3, <1>7 DEF RequestInv
    <3>2. Stopped(inputs)  BY <1>1, <3>1, EdgeCases DEF Reset, AtWork
    <3> QED  BY <1>5, <1>7, <3>1, <3>2 DEF Stopped
  <2> QED  BY <1>4, <1>7, <2>1, <2>2 DEF Port!CoreEdge
<1>8. CASE in.resetn /\ ~trap /\ started # "off"
  <2>1. trap' \in BOOLEAN  BY PortInvStep DEF PortInv
  <2>2. PortHold(in) \/ PortIdle \/ PortRead \/ PortWrite \/ PortEnd(in) \/ PortSecond(in)
    BY <1>8, PortCases
  <2>3. \/ Port!Hold(in.ready) \/ Port!Idle \/ Port!IssueRead \/ Port!IssueWrite
        \/ Port!EndTransfer(in.ready) \/ Port!SecondWord(in.ready)
    <3>1. CASE PortHold(in)
      BY <3>1 DEF PortHold, portVars, Port!Hold, Port!nativeVars
    <3>2. CASE PortIdle
      BY <3>2 DEF PortIdle, Port!Idle
    <3>3. CASE PortRead
      BY <3>3 DEF PortRead, Port!IssueRead
    <3>4. CASE PortWrite
      BY <3>4 DEF PortWrite, Port!IssueWrite
    <3>5. CASE PortEnd(in)
      BY <3>5 DEF PortEnd, Port!EndTransfer
    <3>6. CASE PortSecond(in)
      BY <3>6 DEF PortSecond, Port!SecondWord
    <3> QED  BY <2>2, <3>1, <3>2, <3>3, <3>4, <3>5, <3>6
  <2> QED  BY <1>4, <1>8, <2>1, <2>3 DEF Port!CoreEdge
<1>9. CASE in.resetn /\ ~trap /\ started = "off"
  <2>1. /\ mem_state = 0 /\ ~mem_valid /\ ~mem_do_wdata /\ ~Fetching /\ ~mem_do_rdata
    BY <1>1, <1>9 DEF PowerInv, Quiet
  <2>2. Sleep(in) /\ Address(in)
    BY <1>9, <2>1
    DEF MemEdge, StartRead, StartWrite, Wait, AskSecondWord, EndRead, EndWrite, UsePrefetch
  <2>3. ~mem_la_read(in) /\ ~mem_la_write(in)
    BY <2>1
    DEF mem_la_read, mem_la_write, NeedsSecondWord, mem_xfer,
        mem_la_use_prefetched_high_word, mem_la_firstword, Fetching
  <2>4. mem_addr' = mem_addr /\ mem_wstrb' = mem_wstrb
    BY <1>5, <2>1, <2>2, <2>3 DEF Address
  <2>5. UNCHANGED <<mem_valid, mem_instr, mem_addr, mem_wstrb, mem_la_secondword>>
    BY <2>2, <2>4 DEF Sleep
  <2>6. trap' = trap
    <3>1. cpu_state = "none" /\ inputs.resetn  BY <1>1, <1>3, <1>9 DEF PowerInv
    <3>2. Stopped(inputs)  BY <1>1, <3>1, EdgeCases DEF Reset, AtWork
    <3> QED  BY <1>5, <1>9, <3>1, <3>2 DEF Stopped
  <2> QED  BY <1>4, <1>9, <2>5, <2>6 DEF Port!CoreEdge, Port!nativeVars
<1> QED  BY <1>2, <1>5, <1>6, <1>7, <1>8, <1>9

(* At its memory port the core does nothing but what CorePort allows and    *)
(* the AXI adapter relies on: requests are held until they are answered,    *)
(* second halves belong to fetches, and a trap lets the transfer under way  *)
(* come to its end.                                                         *)
THEOREM CoreImplementsPort == Spec => ImplementsPort
<1>1. Init => AllInv /\ PortInv
  <2>1. Init => PortInv  BY DEF Init, MemInit, PortInv
  <2> QED  BY <2>1, InitInv
<1>2. AllInv /\ PortInv /\ [Next]_vars => (AllInv /\ PortInv)'
  <2>1. ASSUME AllInv, PortInv, Next PROVE PortInv'
    <3>1. PICK in \in Inputs : Edge(in)  BY <2>1 DEF Next
    <3> QED  BY <2>1, <3>1, PortInvStep
  <2>2. PortInv /\ UNCHANGED vars => PortInv'  BY DEF vars, memVars, PortInv
  <2> QED  BY <2>1, <2>2, NextInv
<1>3. ASSUME AllInv, PortInv, [Next]_vars
      PROVE  [\A in \in Inputs :
                  MemEdge(in) /\ Power(in) => Port!CoreEdge(in.resetn, in.ready)]_vars
  <2>1. ASSUME Next, NEW in \in Inputs, MemEdge(in), Power(in)
        PROVE  Port!CoreEdge(in.resetn, in.ready)
    <3>1. PICK inputs \in Inputs : Edge(inputs)  BY <2>1 DEF Next
    <3> QED  BY <1>3, <2>1, <3>1, PortStep
  <2> QED  BY <1>3, <2>1
<1> QED  BY <1>1, <1>2, <1>3, PTL DEF Spec, ImplementsPort
=============================================================================
