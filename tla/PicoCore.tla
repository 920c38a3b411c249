------------------------------- MODULE PicoCore -------------------------------
(***************************************************************************)
(* The picorv32 core (picorv32.v) with its main state machine, as the      *)
(* simulation builds it: compressed instructions, interrupts, multiplier   *)
(* and divider, trace; no other co-processor, no two-cycle ALU, no barrel  *)
(* shifter.  Instructions are modelled by what they do to the state        *)
(* machines: which they are, where a jump goes, what a comparison yields,  *)
(* whether an address is aligned and what a mask or a timer is set to are  *)
(* up to the program and its data.                                         *)
(*                                                                         *)
(* The decoder works in two steps, an edge apart, on two sets of           *)
(* registers; so insn1 and insn2 are the instruction each step has seen    *)
(* last.                                                                   *)
(***************************************************************************)
EXTENDS PicoMem, Coprocessor

CONSTANTS
    PROGADDR_RESET, PROGADDR_IRQ,
    IrqLine,       \* the interrupts, "timer", "ebreak" and "buserror" among them
    Firmware,      \* the programs: [long, kinds, lines, masks]; lines that are driven
    MaxShift,      \* bound: shift amounts; 31
    MaxTimer,      \* bound: what the timer is set to; 2^32 - 1
    MaxTimeout     \* of pcpi_timeout_counter; 15, more than a unit takes to wait

(* The instructions, by their handling.  alu: everything that takes one     *)
(* cycle in cpu_state_exec but for branches and jalr; simple: the counters, *)
(* getq and setq.                                                           *)
Phase1Kind == {"jal", "jalr", "retirq", "waitirq", "branch", "load", "store"}
Unit       == {"mul", "div"}
TrapKind   == Unit \cup {"illegal", "ecall"}
Phase2Kind == {"alu", "shift", "simple", "maskirq", "timer"} \cup TrapKind
Kind       == Phase1Kind \cup Phase2Kind

ASSUME CoreAssumption ==
    /\ PROGADDR_RESET \in Half /\ PROGADDR_IRQ \in Half
    /\ PROGADDR_RESET % 2 = 0 /\ PROGADDR_IRQ % 2 = 0
    /\ {"timer", "ebreak", "buserror"} \subseteq IrqLine
    /\ \A f \in Firmware :
           /\ f.long \subseteq Half /\ f.kinds \subseteq Kind
           /\ f.lines \subseteq IrqLine \ {"ebreak", "buserror"}
           /\ f.masks \subseteq SUBSET IrqLine
    /\ MaxShift \in Nat /\ MaxTimer \in Nat
    /\ MaxTimeout \in Nat /\ MaxTimeout > 2

(* Register numbers: an instruction's own is its address. *)
x0 == -3
q0 == -4
q1 == -5

VARIABLES
    kinds, lines, masks,         \* of the program, as long
    started,      \* "off", "reset" or "on": no reset yet, in it, after it
    cpu_state, reg_pc, reg_sh, alu_out_0, alu_out_q,
    latched_stalu, latched_compr, latched_rd,
    misaligned,                  \* mem_wordsize and reg_op1 do not fit
    (* the decoder *)
    insn1, compressed_instr, insn2, decoder_trigger, decoder_pseudo_trigger,
    (* interrupts *)
    irq_active, irq_delay, irq_mask, irq_pending, timer, do_waitirq, eoi,
    return_pc, return_compr,     \* the register q0
    (* co-processors *)
    pcpi_valid, pcpi_timeout_counter, pcpi_timeout, unit,
    (* histories *)
    follows,      \* the instruction that comes next in program order
    launched,     \* the last one launched
    interrupted,  \* what followed when the interrupt handler was entered
    resumed       \* nothing has been launched since the handler returned

programVars == <<long, kinds, lines, masks>>
decoderVars == <<insn1, compressed_instr, insn2>>
irqVars     == <<irq_active, irq_delay, irq_mask, timer, do_waitirq, eoi,
                 return_pc, return_compr, irq_state>>
histVars    == <<follows, launched, interrupted, resumed>>
vars == <<memVars, trap, mem_do_prefetch, mem_do_rinst, mem_do_rdata, mem_do_wdata,
          reg_next_pc, reg_out, latched_store, latched_branch,
          programVars, started, cpu_state, reg_pc, reg_sh, alu_out_0, alu_out_q,
          latched_stalu, latched_compr, latched_rd, misaligned,
          decoderVars, decoder_trigger, decoder_pseudo_trigger,
          irqVars, irq_pending, pcpi_valid, pcpi_timeout_counter, pcpi_timeout,
          unit, histVars>>

-----------------------------------------------------------------------------
Instruction(raw, kind, imm) == [raw |-> raw, kind |-> kind, imm |-> imm]
NoInstruction == Instruction(JunkWord(X), "illegal", 0)

Init ==
    /\ MemInit
    /\ \E f \in Firmware :
           long = f.long /\ kinds = f.kinds /\ lines = f.lines /\ masks = f.masks
    /\ started = "off" /\ cpu_state = "none" /\ trap = FALSE
    /\ reg_pc = 0 /\ reg_next_pc = 0 /\ reg_out = 0 /\ reg_sh = 0
    /\ alu_out_0 = FALSE /\ alu_out_q = 0
    /\ latched_store = FALSE /\ latched_stalu = FALSE /\ latched_branch = FALSE
    /\ latched_compr = FALSE /\ latched_rd = x0 /\ misaligned = FALSE
    /\ insn1 = NoInstruction /\ insn2 = NoInstruction /\ compressed_instr = FALSE
    /\ decoder_trigger = FALSE /\ decoder_pseudo_trigger = FALSE
    /\ irq_state = 0 /\ irq_active = FALSE /\ irq_delay = FALSE
    /\ irq_mask = {} /\ irq_pending = {} /\ timer = 0 /\ do_waitirq = FALSE
    /\ eoi = {} /\ return_pc = 0 /\ return_compr = FALSE
    /\ pcpi_valid = FALSE /\ pcpi_timeout_counter = 0 /\ pcpi_timeout = FALSE
    /\ unit = [u \in Unit |-> UnitInit(u = "mul")]    \* mul_waiting is zero
    /\ follows = PROGADDR_RESET /\ launched = PROGADDR_RESET
    /\ interrupted = 0 /\ resumed = FALSE

(* The input ports at a clock edge.  The reset comes once.  ready without a  *)
(* request is never looked at, and rdata only at the end of an access; with  *)
(* no access it is a word of an earlier one.                                *)
Inputs ==
    [resetn : IF started = "on" THEN {TRUE} ELSE BOOLEAN,
     ready  : IF mem_valid THEN BOOLEAN ELSE {FALSE},
     rdata  : IF mem_valid /\ mem_instr THEN {CodeWord(mem_addr)}
              ELSE {JunkWord(j) : j \in Junk},
     irq    : SUBSET lines]

-----------------------------------------------------------------------------
(* The decoder.  A co-processor's and the interrupt instructions are never  *)
(* compressed.                                                              *)
LongOnly == Unit \cup {"retirq", "waitirq", "maskirq", "timer", "simple"}

Insns(raw) ==
    [raw : {raw}, kind : IF Long(raw.lo) THEN kinds ELSE kinds \ LongOnly, imm : Half]

Decode(in) ==
    /\ IF mem_do_rinst /\ mem_done(in)
       THEN /\ \E i \in Insns(mem_rdata_latched(in)) :
                  /\ i.kind \notin {"jal", "branch"} => i.imm = 0
                  /\ insn1' = i
            /\ compressed_instr' = ~Long(mem_rdata_latched(in).lo)
       ELSE UNCHANGED <<insn1, compressed_instr>>
    /\ insn2' = IF ~decoder_trigger \/ decoder_pseudo_trigger THEN insn2
                ELSE IF mem_rdata_q = insn1.raw THEN insn1
                ELSE Instruction(mem_rdata_q, "illegal", 0)

instr_trap == insn1.kind \notin Phase1Kind /\ insn2.kind \in TrapKind

Size == IF compressed_instr THEN 1 ELSE 2
Plus(pc, offset) == (pc + offset) % (2 * CodeWords)

-----------------------------------------------------------------------------
(* What every edge does after the case on cpu_state.                        *)

Catchable(line) == line \notin irq_mask /\ ~irq_active

BusError == misaligned /\ (mem_do_rdata \/ mem_do_wdata)

(* Interrupts that come in the cycle in which others are acknowledged.      *)
Raise(in, kept, more) ==
    irq_pending' = kept \cup more \cup in.irq
        \cup {l \in {"timer"} : timer = 1}
        \cup {l \in {"buserror"} : BusError /\ Catchable(l)}

Goto(state) ==
    cpu_state' = IF BusError /\ ~Catchable("buserror") THEN "trap" ELSE state

(* mem_do_*: requests end with mem_done, but for those made at that edge.   *)
Request(in, prefetch, rinst, set) ==
    /\ mem_do_prefetch' = (prefetch /\ ~mem_done(in))
    /\ mem_do_rinst' = ((rinst /\ ~mem_done(in)) \/ "rinst" \in set)
    /\ mem_do_rdata' = ((mem_do_rdata /\ ~mem_done(in)) \/ "rdata" \in set)
    /\ mem_do_wdata' = ((mem_do_wdata /\ ~mem_done(in)) \/ "wdata" \in set)

Trigger(in) ==
    /\ decoder_trigger' = (mem_do_rinst /\ mem_done(in))
    /\ decoder_pseudo_trigger' = FALSE

Tick == timer' = IF timer = 0 THEN 0 ELSE timer - 1

(* The units' wait not looked at. *)
BugWaitIgnored == FALSE

pcpi_int_wait  == \E u \in Unit : unit[u].wait
pcpi_int_ready == \E u \in Unit : unit[u].ready

(* Counting while a unit does wait, not while none does. *)
BugCountsWhileWaiting(in) == in.resetn /\ pcpi_valid /\ pcpi_int_wait

CountsDown(in) == in.resetn /\ pcpi_valid /\ ~pcpi_int_wait

Pcpi(in) ==
    /\ pcpi_timeout_counter' =
           IF ~CountsDown(in) THEN MaxTimeout
           ELSE IF pcpi_timeout_counter = 0 THEN 0 ELSE pcpi_timeout_counter - 1
    /\ pcpi_timeout' = (in.resetn /\ pcpi_timeout_counter = 0)
    /\ \E mul \in UnitNext(unit["mul"], pcpi_valid /\ insn2.kind = "mul", in.resetn),
          div \in UnitNext(unit["div"], pcpi_valid /\ insn2.kind = "div", in.resetn) :
              unit' = [u \in Unit |-> IF u = "mul" THEN mul ELSE div]

-----------------------------------------------------------------------------
(* cpu_state_fetch. *)

CurrentPc ==
    IF latched_branch
    THEN IF ~latched_store THEN reg_next_pc
         ELSE IF latched_stalu THEN alu_out_q ELSE reg_out
    ELSE IF irq_state = 1 /\ ~latched_store THEN PROGADDR_IRQ ELSE reg_next_pc

Unmasked == irq_pending \ irq_mask

(* The instruction after the return from a handler may be interrupted.      *)
BugNoDelay == (decoder_trigger /\ ~irq_active /\ Unmasked # {}) \/ irq_state # 0

TakesIrq ==
    \/ decoder_trigger /\ ~irq_active /\ ~irq_delay /\ Unmasked # {}
    \/ irq_state # 0

launch_next_insn ==
    /\ cpu_state = "fetch" /\ decoder_trigger
    /\ irq_delay \/ irq_active \/ Unmasked = {}

(* The size of the instruction decoded last, not of the one interrupted.    *)
BugSizeOfNext ==
    IF irq_state = 1 THEN return_pc' = reg_next_pc /\ return_compr' = compressed_instr
    ELSE UNCHANGED <<return_pc, return_compr>>

(* The register q0.  The other register writes are not shown, the results    *)
(* of instructions and the interrupts in q1.                                *)
SaveReturn ==
    IF irq_state = 1 /\ ~latched_branch /\ ~latched_store /\ latched_rd = q0
    THEN return_pc' = reg_next_pc /\ return_compr' = latched_compr
    ELSE UNCHANGED <<return_pc, return_compr>>

Fetch(in) ==
    /\ cpu_state = "fetch" /\ in.resetn
    /\ reg_pc' = CurrentPc
    /\ SaveReturn
    /\ latched_stalu' = FALSE /\ misaligned' = FALSE
    /\ reg_out' = 0 /\ reg_sh' = 0 /\ alu_out_0' = FALSE /\ alu_out_q' = 0
    /\ trap' = FALSE /\ UNCHANGED <<irq_mask, pcpi_valid>>
    /\ Trigger(in) /\ Tick

(* The masked interrupts forgotten with those that are acknowledged. *)
BugForgetsMasked == {}

StaysPending == irq_pending \cap irq_mask
IrqRegister  == IF irq_state = 1 THEN q1 ELSE q0

(* Three edges: one to begin with, one to save the return address and go to *)
(* the handler, one to acknowledge.  In the third, what comes in is kept.   *)
EnterIrq(in) ==
    /\ Fetch(in) /\ TakesIrq
    /\ irq_state' = (irq_state + 1) % 3
    /\ latched_rd' = IrqRegister
    /\ irq_active' = (irq_active \/ (irq_state = 1 /\ ~latched_branch /\ ~latched_store))
    /\ Request(in, mem_do_prefetch, irq_state = 1 \/ (~decoder_trigger /\ ~do_waitirq), {})
    /\ IF irq_state = 2 /\ ~latched_branch /\ ~latched_store
       THEN eoi' = Unmasked /\ Raise(in, StaysPending, {})
       ELSE UNCHANGED eoi /\ Raise(in, irq_pending, {})
    /\ reg_next_pc' = CurrentPc
    /\ latched_store' = FALSE /\ latched_branch' = FALSE
    /\ do_waitirq' = FALSE
    /\ Goto("fetch")
    /\ IF irq_state = 1
       THEN interrupted' = follows /\ follows' = PROGADDR_IRQ
       ELSE UNCHANGED <<interrupted, follows>>
    /\ UNCHANGED <<latched_compr, irq_delay, launched, resumed>>

(* What the other cases of the fetch have in common.                        *)
FetchNoIrq(in) ==
    /\ Fetch(in) /\ ~TakesIrq
    /\ latched_rd' = insn1.raw.lo /\ latched_compr' = compressed_instr
    /\ Raise(in, irq_pending, {})
    /\ UNCHANGED <<irq_state, irq_active, eoi, interrupted>>

Waiting == (decoder_trigger \/ do_waitirq) /\ insn1.kind = "waitirq"

(* waitirq, until something is pending, masked or not. *)
WaitIrq(in) ==
    /\ FetchNoIrq(in) /\ Waiting
    /\ LET ends == irq_pending # {}
       IN /\ do_waitirq' = ~ends /\ latched_store' = ends
          /\ Request(in, mem_do_prefetch, ends \/ (~decoder_trigger /\ ~do_waitirq), {})
          /\ reg_next_pc' = IF ends THEN Plus(CurrentPc, Size) ELSE CurrentPc
          /\ follows' = IF ends THEN Plus(CurrentPc, Size) ELSE follows
    /\ latched_branch' = FALSE
    /\ Goto("fetch")
    /\ launched' = CurrentPc /\ resumed' = FALSE
    /\ UNCHANGED irq_delay

(* Nothing decoded yet. *)
AwaitInsn(in) ==
    /\ FetchNoIrq(in) /\ ~Waiting /\ ~decoder_trigger
    /\ Request(in, mem_do_prefetch, ~do_waitirq, {})
    /\ reg_next_pc' = CurrentPc
    /\ latched_store' = FALSE /\ latched_branch' = FALSE /\ do_waitirq' = FALSE
    /\ Goto("fetch")
    /\ UNCHANGED <<irq_delay, follows, launched, resumed>>

(* A jump is over at once, every other instruction goes to ld_rs1; where it *)
(* is not a jump through a register, the next one is prefetched meanwhile.  *)
Launch(in) ==
    /\ FetchNoIrq(in) /\ ~Waiting /\ decoder_trigger
    /\ irq_delay' = irq_active
    /\ do_waitirq' = FALSE /\ latched_store' = FALSE
    /\ launched' = CurrentPc /\ resumed' = FALSE
    /\ \/ /\ insn1.kind = "jal"
          /\ Request(in, mem_do_prefetch, TRUE, {})
          /\ reg_next_pc' = Plus(CurrentPc, insn1.imm)
          /\ latched_branch' = TRUE
          /\ Goto("fetch")
       \/ /\ insn1.kind # "jal"
          /\ Request(in, insn1.kind \notin {"jalr", "retirq"}, FALSE, {})
          /\ reg_next_pc' = Plus(CurrentPc, Size)
          /\ latched_branch' = FALSE
          /\ Goto("ld_rs1")
    /\ follows' = Plus(CurrentPc, IF insn1.kind = "jal" THEN insn1.imm
                                  ELSE IF Long(CurrentPc) THEN 2 ELSE 1)

-----------------------------------------------------------------------------
(* The other states.  Those that do not touch interrupts: *)
NoIrqChange(in) == Tick /\ Raise(in, irq_pending, {}) /\ UNCHANGED <<irq_mask, irq_active, eoi>>

Execute(in, state) ==
    /\ cpu_state = state /\ in.resetn
    /\ trap' = FALSE /\ do_waitirq' = FALSE
    /\ UNCHANGED <<reg_pc, reg_next_pc, latched_compr, irq_state, irq_delay,
                   return_pc, return_compr, launched, interrupted>>

Operation  == IF insn1.kind \in Phase1Kind THEN insn1.kind ELSE insn2.kind

(* cpu_state_ld_rs1: the register operands are read.                        *)
LdRs1(in) ==
    /\ Execute(in, "ld_rs1")
    /\ UNCHANGED <<latched_stalu, latched_rd, misaligned>>
    /\ alu_out_q' = 0
    /\ Trigger(in)

(* An instruction that is none of the core's own is offered to the units    *)
(* until one answers.                                                       *)
AskUnits(in) ==
    /\ LdRs1(in) /\ Operation \in TrapKind
    /\ ~pcpi_int_ready /\ ~pcpi_timeout /\ Operation # "ecall"
    /\ pcpi_valid' = TRUE
    /\ Request(in, mem_do_prefetch, mem_do_rinst, {})
    /\ Goto("ld_rs1")
    /\ NoIrqChange(in)
    /\ reg_out' = 0 /\ reg_sh' = 0 /\ alu_out_0' = FALSE
    /\ UNCHANGED <<latched_store, latched_branch, follows, resumed>>

TakeAnswer(in) ==
    /\ LdRs1(in) /\ Operation \in TrapKind
    /\ pcpi_int_ready
    /\ pcpi_valid' = FALSE /\ latched_store' = TRUE
    /\ Request(in, mem_do_prefetch, TRUE, {})
    /\ Goto("fetch")
    /\ NoIrqChange(in)
    /\ reg_out' = 0 /\ reg_sh' = 0 /\ alu_out_0' = FALSE
    /\ UNCHANGED <<latched_branch, follows, resumed>>

(* An interrupt, if it can be taken, or the end. *)
Refuse(in) ==
    /\ LdRs1(in) /\ Operation \in TrapKind
    /\ ~pcpi_int_ready /\ (pcpi_timeout \/ Operation = "ecall")
    /\ pcpi_valid' = FALSE
    /\ Request(in, mem_do_prefetch, mem_do_rinst, {})
    /\ IF Catchable("ebreak")
       THEN Raise(in, irq_pending, {"ebreak"}) /\ Goto("fetch")
       ELSE Raise(in, irq_pending, {}) /\ Goto("trap")
    /\ Tick
    /\ reg_out' = 0 /\ reg_sh' = 0 /\ alu_out_0' = FALSE
    /\ UNCHANGED <<latched_store, latched_branch, irq_mask, irq_active, eoi,
                   follows, resumed>>

(* The counters, q registers, mask and timer; the old mask and timer are the *)
(* results.                                                                 *)
ReadRegister(in) ==
    /\ LdRs1(in) /\ Operation \in {"simple", "maskirq", "timer"}
    /\ latched_store' = TRUE
    /\ Request(in, mem_do_prefetch, mem_do_rinst, {})
    /\ Goto("fetch")
    /\ IF Operation = "maskirq" THEN irq_mask' \in masks ELSE UNCHANGED irq_mask
    /\ IF Operation = "timer" THEN timer' \in 0 .. MaxTimer ELSE Tick
    /\ Raise(in, irq_pending, {})
    /\ reg_out' = 0 /\ reg_sh' = 0 /\ alu_out_0' = FALSE
    /\ UNCHANGED <<latched_branch, irq_active, eoi, pcpi_valid, follows, resumed>>

RetIrq(in) ==
    /\ LdRs1(in) /\ Operation = "retirq"
    /\ eoi' = {} /\ irq_active' = FALSE
    /\ latched_branch' = TRUE /\ latched_store' = TRUE
    /\ reg_out' = return_pc
    /\ Request(in, mem_do_prefetch, mem_do_rinst, {})
    /\ Goto("fetch")
    /\ Tick /\ Raise(in, irq_pending, {})
    /\ follows' = interrupted /\ resumed' = irq_active
    /\ reg_sh' = 0 /\ alu_out_0' = FALSE
    /\ UNCHANGED <<irq_mask, pcpi_valid>>

NextState == IF Operation = "load" THEN "ldmem"
             ELSE IF Operation = "store" THEN "stmem"
             ELSE IF Operation = "shift" THEN "shift"
             ELSE "exec"

(* A shift that fetches the next instruction meanwhile.                      *)
BugShiftFetches ==
    CASE Operation \in {"load", "store"} -> TRUE
      [] OTHER                           -> mem_do_prefetch

(* An access needs the prefetch to be over; a shift leaves it for later.    *)
FetchesNext ==
    IF Operation \in {"load", "store"} THEN TRUE
    ELSE IF Operation = "shift" THEN mem_do_rinst
    ELSE mem_do_prefetch

ToOtherState(in) ==
    /\ LdRs1(in)
    /\ Operation \notin TrapKind \cup {"simple", "maskirq", "timer", "retirq"}
    /\ Request(in, mem_do_prefetch, FetchesNext, {})
    /\ Goto(NextState)
    /\ NoIrqChange(in)
    /\ reg_out' = 0
    /\ IF Operation = "shift" THEN reg_sh' \in 0 .. MaxShift ELSE reg_sh' = 0
    /\ IF Operation = "branch" THEN alu_out_0' \in BOOLEAN ELSE alu_out_0' = FALSE
    /\ follows' = IF alu_out_0' THEN Plus(launched, insn1.imm) ELSE follows
    /\ UNCHANGED <<latched_store, latched_branch, pcpi_valid, resumed>>

(* cpu_state_exec.  A branch waits until the prefetch is over; one that is   *)
(* taken forgets what was fetched and fetches again.                        *)
ExecBranch(in) ==
    /\ Execute(in, "exec") /\ Operation = "branch"
    /\ latched_rd' = x0
    /\ latched_store' = alu_out_0 /\ latched_branch' = alu_out_0
    /\ reg_out' = Plus(reg_pc, insn2.imm)
    /\ decoder_trigger' = (mem_do_rinst /\ mem_done(in) /\ ~alu_out_0)
    /\ decoder_pseudo_trigger' = FALSE
    /\ Request(in, mem_do_prefetch, mem_do_rinst, IF alu_out_0 THEN {"rinst"} ELSE {})
    /\ Goto(IF mem_done(in) THEN "fetch" ELSE "exec")
    /\ NoIrqChange(in)
    /\ reg_sh' = 0 /\ alu_out_q' = 0
    /\ UNCHANGED <<latched_stalu, misaligned, alu_out_0, pcpi_valid, follows, resumed>>

Exec(in) ==
    /\ Execute(in, "exec") /\ Operation # "branch"
    /\ latched_branch' = (Operation = "jalr")
    /\ latched_store' = TRUE /\ latched_stalu' = TRUE
    /\ reg_out' = Plus(reg_pc, insn2.imm)
    /\ IF Operation = "jalr" THEN alu_out_q' \in Half ELSE alu_out_q' = 0
    /\ follows' = IF Operation = "jalr" THEN alu_out_q' ELSE follows
    /\ Trigger(in)
    /\ Request(in, mem_do_prefetch, mem_do_rinst, {})
    /\ Goto("fetch")
    /\ NoIrqChange(in)
    /\ reg_sh' = 0
    /\ UNCHANGED <<latched_rd, misaligned, alu_out_0, pcpi_valid, resumed>>

(* cpu_state_shift: by four while there is that much left.                  *)
Shift(in) ==
    /\ Execute(in, "shift")
    /\ latched_store' = TRUE
    /\ reg_sh' = IF reg_sh >= 4 THEN reg_sh - 4 ELSE IF reg_sh > 0 THEN reg_sh - 1 ELSE 0
    /\ Request(in, mem_do_prefetch,
               IF reg_sh = 0 THEN mem_do_prefetch ELSE mem_do_rinst, {})
    /\ Goto(IF reg_sh = 0 THEN "fetch" ELSE "shift")
    /\ Trigger(in) /\ NoIrqChange(in)
    /\ reg_out' = 0 /\ alu_out_q' = 0
    /\ UNCHANGED <<latched_stalu, latched_branch, latched_rd, misaligned, alu_out_0,
                   pcpi_valid, follows, resumed>>

(* cpu_state_stmem and cpu_state_ldmem: once the prefetch is over the access *)
(* is asked for; once that is over, the instruction fetched before it is    *)
(* decoded already and triggers again.                                      *)
MemoryAccess(in, state, asked, set) ==
    /\ Execute(in, state)
    /\ LET over == ~mem_do_prefetch /\ mem_done(in)
           asks == (~mem_do_prefetch \/ mem_done(in)) /\ ~asked
       IN /\ IF asks THEN misaligned' \in BOOLEAN ELSE UNCHANGED misaligned
          /\ Request(in, mem_do_prefetch, mem_do_rinst, IF asks THEN {set} ELSE {})
          /\ decoder_trigger' = (over \/ (mem_do_rinst /\ mem_done(in)))
          /\ decoder_pseudo_trigger' = over
          /\ Goto(IF over THEN "fetch" ELSE state)
    /\ NoIrqChange(in)
    /\ reg_out' = 0 /\ reg_sh' = 0 /\ alu_out_q' = 0
    /\ UNCHANGED <<latched_stalu, latched_branch, latched_rd, alu_out_0, pcpi_valid,
                   follows, resumed>>

Stmem(in) == MemoryAccess(in, "stmem", mem_do_wdata, "wdata") /\ UNCHANGED latched_store
Ldmem(in) == MemoryAccess(in, "ldmem", mem_do_rdata, "rdata") /\ latched_store' = TRUE

(* cpu_state_trap, and the registers as they are at power-up, which are none *)
(* of the states.                                                           *)
Stopped(in) ==
    /\ cpu_state \in {"trap", "none"} /\ in.resetn
    /\ trap' = (cpu_state = "trap")
    /\ Goto(cpu_state)
    /\ Trigger(in)
    /\ Request(in, mem_do_prefetch, mem_do_rinst, {})
    /\ Tick /\ Raise(in, irq_pending, {})
    /\ do_waitirq' = FALSE /\ reg_out' = 0 /\ reg_sh' = 0 /\ alu_out_q' = 0
    /\ UNCHANGED <<reg_pc, reg_next_pc, alu_out_0, latched_store, latched_stalu,
                   latched_branch, latched_compr, latched_rd, misaligned, irq_state,
                   irq_active, irq_delay, irq_mask, eoi, return_pc, return_compr,
                   pcpi_valid, histVars>>

Reset(in) ==
    /\ ~in.resetn
    /\ trap' = FALSE /\ cpu_state' = "fetch"
    /\ reg_pc' = PROGADDR_RESET /\ reg_next_pc' = PROGADDR_RESET
    /\ latched_store' = FALSE /\ latched_stalu' = FALSE /\ latched_branch' = FALSE
    /\ pcpi_valid' = FALSE
    /\ irq_active' = FALSE /\ irq_delay' = FALSE /\ irq_mask' = IrqLine
    /\ irq_pending' = in.irq \cup {l \in {"timer"} : timer = 1}
    /\ irq_state' = 0 /\ eoi' = {} /\ timer' = 0
    /\ mem_do_prefetch' = FALSE /\ mem_do_rinst' = FALSE
    /\ mem_do_rdata' = FALSE /\ mem_do_wdata' = FALSE
    /\ Trigger(in)
    /\ do_waitirq' = FALSE /\ reg_out' = 0 /\ reg_sh' = 0 /\ alu_out_q' = 0
    /\ UNCHANGED <<alu_out_0, latched_compr, latched_rd, misaligned, return_pc,
                   return_compr, histVars>>

CpuEdge(in) ==
    \/ EnterIrq(in) \/ WaitIrq(in) \/ AwaitInsn(in) \/ Launch(in)
    \/ AskUnits(in) \/ TakeAnswer(in) \/ Refuse(in) \/ ReadRegister(in) \/ RetIrq(in)
    \/ ToOtherState(in) \/ ExecBranch(in) \/ Exec(in) \/ Shift(in)
    \/ Stmem(in) \/ Ldmem(in) \/ Stopped(in) \/ Reset(in)

Power(in) == started' = IF ~in.resetn THEN "reset"
                        ELSE IF started = "reset" THEN "on"
                        ELSE started

Edge(in) ==
    /\ CpuEdge(in)
    /\ MemEdge(in)
    /\ Decode(in)
    /\ Pcpi(in)
    /\ Power(in)
    /\ UNCHANGED programVars

Next == \E in \in Inputs : Edge(in)

Spec == Init /\ [][Next]_vars

(* The clock runs, the reset comes and goes, the memory answers and so do   *)
(* the units.                                                               *)
Fairness ==
    /\ WF_vars(Next)
    /\ WF_vars(started # "on"
               /\ \E in \in Inputs : in.resetn = (started = "reset") /\ Edge(in))
    /\ WF_vars(mem_valid /\ \E in \in Inputs : in.ready /\ Edge(in))
    /\ WF_vars((\E u \in Unit : unit[u].busy)
               /\ \E in \in Inputs : Edge(in) /\ \E u \in Unit : unit'[u].ready)

FairSpec == Spec /\ Fairness

-----------------------------------------------------------------------------
Insn == [raw : Fetched, kind : Kind, imm : Half]

(* Every register has its type, and the program is one of those given.      *)
TypeOK ==
    /\ mem_valid \in BOOLEAN /\ mem_instr \in BOOLEAN /\ mem_wstrb \in BOOLEAN
    /\ mem_addr \in 0 .. DataAddr /\ mem_state \in 0 .. 3
    /\ mem_16bit_buffer \in Half \cup Junk /\ mem_rdata_q \in Fetched
    /\ cpu_state \in {"none", "fetch", "ld_rs1", "exec", "shift", "stmem", "ldmem", "trap"}
    /\ started \in {"off", "reset", "on"}
    /\ {reg_pc, reg_next_pc, reg_out, alu_out_q, return_pc,
        follows, launched, interrupted} \subseteq Half
    /\ latched_rd \in Half \cup Junk \cup {x0, q0, q1}
    /\ insn1 \in Insn /\ insn2 \in Insn
    /\ irq_state \in 0 .. 2
    /\ {irq_mask, irq_pending, eoi} \subseteq SUBSET IrqLine
    /\ timer \in 0 .. MaxTimer /\ reg_sh \in 0 .. MaxShift
    /\ pcpi_timeout_counter \in 0 .. MaxTimeout
    /\ \A u \in Unit : unit[u] \in UnitState

(* The instruction launched is the one that comes next in program order,    *)
(* with its own halfwords, wherever it lies and whatever was prefetched,    *)
(* discarded or kept in the buffer before: after jumps, taken branches,     *)
(* interrupts and returns as well.                                          *)
InProgramOrder ==
    launch_next_insn =>
        /\ CurrentPc = follows
        /\ insn1.raw.lo = follows
        /\ Long(follows) => insn1.raw.hi = Plus(follows, 1)
        /\ compressed_instr <=> ~Long(follows)

(* Every register has its type, and the assertions picorv32.v makes of      *)
(* itself hold: the requests exclude each other, and in each state of the   *)
(* memory interface the access under way is the one that is asked for, the  *)
(* whole time, though the main state machine changes what it asks in the    *)
(* meantime.                                                                *)
Asserts ==
    /\ TypeOK
    /\ \A in \in Inputs : in.resetn /\ ~trap =>
           /\ mem_do_wdata => ~Fetching /\ ~mem_do_rdata
           /\ mem_do_rdata => ~Fetching
           /\ mem_state \in {2, 3} => mem_valid \/ mem_do_prefetch
           /\ mem_state = 1 =>
                  /\ ~mem_wstrb /\ (Fetching \/ mem_do_rdata)
                  /\ mem_valid <=> ~mem_la_use_prefetched_high_word(in)
                  /\ mem_instr <=> Fetching
           /\ mem_state = 2 => mem_wstrb /\ mem_do_wdata
           /\ mem_state = 3 => ~mem_wstrb /\ mem_do_prefetch

(* The decoder's registers are the instruction's that is being executed for *)
(* as long as it needs them, although the next one is fetched and decoded   *)
(* into the same registers before it is over; and the second step of the    *)
(* decoder finds the word that the first has seen.                          *)
DecoderHolds ==
    /\ decoder_trigger /\ ~decoder_pseudo_trigger => mem_rdata_q = insn1.raw
    /\ \/ cpu_state \in {"ld_rs1", "exec", "shift"}
       \/ cpu_state \in {"stmem", "ldmem"} /\ mem_do_prefetch
       => insn1.raw.lo = launched /\ insn2 = insn1

(* What is written back in cpu_state_fetch goes to the register of the      *)
(* instruction that has just been executed, not of the one decoded          *)
(* meanwhile; the first write of an interrupt is q0, the second is q1, and  *)
(* no result of an instruction comes between.                               *)
WritesOwnRegister ==
    cpu_state = "fetch" =>
        /\ latched_store \/ latched_branch => latched_rd \in {launched, x0}
        /\ irq_state # 0 => /\ ~latched_store /\ ~latched_branch
                            /\ latched_rd = IF irq_state = 1 THEN q0 ELSE q1

(* An instruction is executed and written back as the one launched, though  *)
(* the next one is fetched meanwhile and an interrupt may come between.     *)
KeepsInstruction == DecoderHolds /\ WritesOwnRegister

(* While a handler runs q0 holds what follows the interrupted instruction   *)
(* in program order, a jump's or a taken branch's target as well.  When the *)
(* instruction was refused, or accessed a misaligned address, that is the   *)
(* instruction after it and the low bit of q0 tells whether it was          *)
(* compressed: the handler can find it.                                     *)
ReturnAddress ==
    /\ irq_active => return_pc = interrupted
    /\ irq_state = 2 /\ irq_pending \cap {"ebreak", "buserror"} # {} =>
           /\ irq_active
           /\ return_compr <=> ~Long(launched)
           /\ return_pc = Plus(launched, IF return_compr THEN 1 ELSE 2)

(* An interrupt that is pending stays so until it is reported in eoi; a     *)
(* handler is entered only with an interrupt to handle, which three edges   *)
(* and new arrivals do not change.                                          *)
NoIrqLost ==
    [][started = "on" =>
        /\ irq_pending \subseteq irq_pending' \cup eoi'
        /\ irq_state = 2 => eoi' # {}]_vars

(* Between the return from a handler and the next entry an instruction of   *)
(* the program is executed, however many interrupts are pending.            *)
ProgressBetweenIrqs == [][irq_state = 0 /\ irq_state' = 1 => ~resumed]_vars

(* An instruction of the multiplier or the divider never runs into the      *)
(* timeout, and a unit answers only an instruction that waits for it: no    *)
(* answer comes late to the next one.                                       *)
UnitsAnswerInTime ==
    /\ cpu_state = "ld_rs1" /\ Operation \in Unit => ~pcpi_timeout
    /\ \A u \in Unit : started = "on" /\ unit[u].ready =>
           cpu_state = "ld_rs1" /\ pcpi_valid /\ insn2.kind = u

(* The core goes on: another instruction is launched, unless it has trapped *)
(* or waits for an interrupt.  The two state machines, the decoder, the     *)
(* prefetch and the units never wait for each other.                        *)
LaunchesForever ==
    []<>(launch_next_insn \/ cpu_state = "trap" \/ Waiting)

(* At its memory port the core keeps to what picorv32_axi relies on.        *)
Port == INSTANCE CorePort WITH
    LoadAddr <- 0 .. DataAddr, StoreAddr <- {DataAddr},
    StoreData <- {[data |-> 0, strb |-> {0}]},
    mem_wdata <- 0, mem_wstrb <- IF mem_wstrb THEN {0} ELSE {},
    started <- started # "off"

ImplementsPort ==
    [][\A in \in Inputs :
         MemEdge(in) /\ Power(in) => Port!CoreEdge(in.resetn, in.ready)]_vars
=============================================================================
