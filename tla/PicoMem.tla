------------------------------- MODULE PicoMem -------------------------------
(***************************************************************************)
(* The memory interface of the picorv32 core (picorv32.v): its memory      *)
(* state machine, the prefetch of the next instruction and the assembly of *)
(* instructions that are compressed or lie across two words.               *)
(*                                                                         *)
(* An address of code is the number of a halfword, and a halfword read     *)
(* from memory stands for itself: what is modelled is which halfwords      *)
(* reach the decoder.  Whether one has both low bits set, and so begins a  *)
(* 32-bit instruction, is up to the program.  All data is one word.        *)
(***************************************************************************)
EXTENDS Integers

CONSTANT CodeWords    \* words of code; addresses wrap, as at 2^32

ASSUME CodeAssumption == CodeWords \in Nat \ {0}

Half == 0 .. 2 * CodeWords - 1

(* Halfwords that are no code: without and with both low bits set.          *)
Junk   == {-1, -2}
Fetched == [lo : Half \cup Junk, hi : Half \cup Junk]

CodeWord(w) == [lo |-> 2 * w, hi |-> 2 * w + 1]
JunkWord(j) == [lo |-> j, hi |-> j]
X           == -1    \* bits that are not driven

DataAddr == CodeWords

VARIABLES
    long,             \* the halfwords of code with both low bits set
    (* the memory state machine *)
    mem_valid, mem_instr, mem_addr,
    mem_wstrb,        \* some bit of it is set
    mem_state, mem_la_secondword, mem_la_firstword_reg, last_mem_valid,
    prefetched_high_word, clear_prefetched_high_word_q,
    mem_16bit_buffer, mem_rdata_q,
    trap,
    (* what the main state machine asks of it *)
    mem_do_prefetch, mem_do_rinst, mem_do_rdata, mem_do_wdata,
    (* registers of the main state machine that it looks at *)
    reg_next_pc, reg_out, latched_store, latched_branch, irq_state

portVars == <<mem_valid, mem_instr, mem_addr, mem_wstrb>>
memVars  == <<portVars, mem_state, mem_la_secondword, mem_la_firstword_reg,
              last_mem_valid, prefetched_high_word, clear_prefetched_high_word_q,
              mem_16bit_buffer, mem_rdata_q>>

(* Registers are zero at power-up. *)
MemInit ==
    /\ mem_valid = FALSE /\ mem_instr = FALSE /\ mem_addr = 0 /\ mem_wstrb = FALSE
    /\ mem_state = 0 /\ mem_la_secondword = FALSE
    /\ mem_la_firstword_reg = FALSE /\ last_mem_valid = FALSE
    /\ prefetched_high_word = FALSE /\ clear_prefetched_high_word_q = FALSE
    /\ mem_16bit_buffer = X /\ mem_rdata_q = JunkWord(X)
    /\ mem_do_prefetch = FALSE /\ mem_do_rinst = FALSE
    /\ mem_do_rdata = FALSE /\ mem_do_wdata = FALSE

-----------------------------------------------------------------------------
(* The wires.  in is what the input ports have at the clock edge: resetn,   *)
(* ready and rdata.                                                         *)
Long(h) == h = -2 \/ h \in long

next_pc == IF latched_store /\ latched_branch THEN reg_out ELSE reg_next_pc

Fetching == mem_do_prefetch \/ mem_do_rinst

mem_la_firstword == Fetching /\ next_pc % 2 = 1 /\ ~mem_la_secondword

(* A jump does not discard what was prefetched. *)
BugJumpKeepsPrefetch(in) ==
    \/ irq_state # 0 \/ ~in.resetn
    \/ prefetched_high_word /\ clear_prefetched_high_word_q

clear_prefetched_high_word(in) ==
    \/ latched_branch \/ irq_state # 0 \/ ~in.resetn
    \/ prefetched_high_word /\ clear_prefetched_high_word_q

mem_la_use_prefetched_high_word(in) ==
    mem_la_firstword /\ prefetched_high_word /\ ~clear_prefetched_high_word(in)

mem_xfer(in) ==
    (mem_valid /\ in.ready) \/ (mem_la_use_prefetched_high_word(in) /\ mem_do_rinst)

FirstwordOfXfer == IF last_mem_valid THEN mem_la_firstword_reg ELSE mem_la_firstword

(* The first half of an instruction in the high half of a word, followed by  *)
(* the low half of the next; a compressed one there; or a word.             *)
mem_rdata_latched(in) ==
    LET word == IF mem_xfer(in) THEN in.rdata ELSE mem_rdata_q
    IN IF mem_la_use_prefetched_high_word(in) THEN [lo |-> mem_16bit_buffer, hi |-> X]
       ELSE IF mem_la_secondword THEN [lo |-> mem_16bit_buffer, hi |-> word.lo]
       ELSE IF mem_la_firstword THEN [lo |-> word.hi, hi |-> X]
       ELSE word

mem_done(in) ==
    /\ in.resetn
    /\ \/ mem_xfer(in) /\ mem_state # 0 /\ (mem_do_rinst \/ mem_do_rdata \/ mem_do_wdata)
       \/ mem_state = 3 /\ mem_do_rinst
    /\ mem_la_firstword => mem_xfer(in) /\ ~Long(mem_rdata_latched(in).lo)

mem_la_write(in) == in.resetn /\ mem_state = 0 /\ mem_do_wdata

NeedsSecondWord(in) ==
    /\ mem_xfer(in) /\ FirstwordOfXfer /\ ~mem_la_secondword
    /\ Long(mem_rdata_latched(in).lo)

mem_la_read(in) ==
    /\ in.resetn
    /\ \/ /\ mem_state = 0 /\ (Fetching \/ mem_do_rdata)
          /\ ~mem_la_use_prefetched_high_word(in)
       \/ NeedsSecondWord(in)

mem_la_addr(in) ==
    IF Fetching
    THEN (next_pc \div 2 + (IF mem_xfer(in) /\ FirstwordOfXfer THEN 1 ELSE 0)) % CodeWords
    ELSE DataAddr

-----------------------------------------------------------------------------
(* One clock edge, by mem_state.                                            *)

(* The strobe of the last store left on. *)
BugStrobeStays(in) ==
    IF mem_la_read(in) \/ mem_la_write(in)
    THEN mem_addr' = mem_la_addr(in) /\ mem_wstrb' = (mem_wstrb \/ mem_la_write(in))
    ELSE UNCHANGED <<mem_addr, mem_wstrb>>

Address(in) ==
    IF mem_la_read(in) \/ mem_la_write(in)
    THEN mem_addr' = mem_la_addr(in) /\ mem_wstrb' = mem_la_write(in)
    ELSE /\ UNCHANGED mem_addr
         /\ mem_wstrb' = (mem_wstrb /\ ~(mem_state = 0 /\ (Fetching \/ mem_do_rdata)))

(* prefetched_high_word is set as asked, but for the clear.                 *)
SetPrefetched(in, set) ==
    prefetched_high_word' = (set /\ ~clear_prefetched_high_word(in))

KeepPrefetched(in) == SetPrefetched(in, prefetched_high_word)

Sleep(in) ==
    /\ mem_state = 0
    /\ ~Fetching /\ ~mem_do_rdata /\ ~mem_do_wdata
    /\ KeepPrefetched(in)
    /\ UNCHANGED <<mem_valid, mem_instr, mem_state, mem_la_secondword,
                   mem_16bit_buffer>>

(* No access to memory for a halfword that is there already.                *)
StartRead(in) ==
    /\ mem_state = 0
    /\ Fetching \/ mem_do_rdata
    /\ ~mem_do_wdata
    /\ mem_valid' = ~mem_la_use_prefetched_high_word(in)
    /\ mem_instr' = Fetching
    /\ mem_state' = 1
    /\ KeepPrefetched(in)
    /\ UNCHANGED <<mem_la_secondword, mem_16bit_buffer>>

StartWrite(in) ==
    /\ mem_state = 0
    /\ mem_do_wdata
    /\ mem_valid' = TRUE /\ mem_instr' = FALSE /\ mem_state' = 2
    /\ KeepPrefetched(in)
    /\ UNCHANGED <<mem_la_secondword, mem_16bit_buffer>>

(* Unanswered, or the prefetch not yet asked for. *)
Wait(in) ==
    /\ \/ mem_state \in {1, 2} /\ ~mem_xfer(in)
       \/ mem_state = 3 /\ ~mem_do_rinst
    /\ KeepPrefetched(in)
    /\ UNCHANGED <<mem_valid, mem_instr, mem_state, mem_la_secondword,
                   mem_16bit_buffer>>

(* The first half of an instruction is there, the other is in the next word. *)
AskSecondWord(in) ==
    /\ mem_state = 1 /\ mem_xfer(in) /\ mem_la_read(in)
    /\ mem_valid' = TRUE /\ mem_la_secondword' = TRUE
    /\ mem_16bit_buffer' = IF mem_la_use_prefetched_high_word(in)
                           THEN mem_16bit_buffer ELSE in.rdata.hi
    /\ KeepPrefetched(in)
    /\ UNCHANGED <<mem_instr, mem_state>>

(* The high half of a word is kept unless its low half begins an instruction *)
(* that it ends, and when it is left over from a second word.               *)
HighHalfIsNext(in) == ~Long(in.rdata.lo) \/ mem_la_secondword

EndRead(in) ==
    /\ mem_state = 1 /\ mem_xfer(in) /\ ~mem_la_read(in)
    /\ mem_valid' = FALSE /\ mem_la_secondword' = FALSE
    /\ mem_state' = IF mem_do_rinst \/ mem_do_rdata THEN 0 ELSE 3
    /\ \/ ~mem_do_rdata /\ HighHalfIsNext(in)
          /\ mem_16bit_buffer' = in.rdata.hi /\ SetPrefetched(in, TRUE)
       \/ ~mem_do_rdata /\ ~HighHalfIsNext(in)
          /\ UNCHANGED mem_16bit_buffer /\ SetPrefetched(in, FALSE)
       \/ mem_do_rdata
          /\ UNCHANGED mem_16bit_buffer /\ KeepPrefetched(in)
    /\ UNCHANGED mem_instr

EndWrite(in) ==
    /\ mem_state = 2 /\ mem_xfer(in)
    /\ mem_valid' = FALSE /\ mem_state' = 0
    /\ KeepPrefetched(in)
    /\ UNCHANGED <<mem_instr, mem_la_secondword, mem_16bit_buffer>>

(* The prefetched word is taken. *)
UsePrefetch(in) ==
    /\ mem_state = 3 /\ mem_do_rinst
    /\ mem_state' = 0
    /\ KeepPrefetched(in)
    /\ UNCHANGED <<mem_valid, mem_instr, mem_la_secondword, mem_16bit_buffer>>

(* A trap that takes the request back. *)
BugTrapDropsRequest(in) ==
    /\ mem_state' = IF in.resetn THEN mem_state ELSE 0
    /\ mem_valid' = FALSE
    /\ mem_la_secondword' = FALSE /\ prefetched_high_word' = FALSE
    /\ UNCHANGED <<mem_addr, mem_wstrb, mem_instr, mem_16bit_buffer>>

(* A trap lets the access under way come to its end. *)
ResetMem(in) ==
    /\ mem_state' = IF in.resetn THEN mem_state ELSE 0
    /\ mem_valid' = (mem_valid /\ in.resetn /\ ~in.ready)
    /\ mem_la_secondword' = FALSE /\ prefetched_high_word' = FALSE
    /\ UNCHANGED <<mem_addr, mem_wstrb, mem_instr, mem_16bit_buffer>>

MemEdge(in) ==
    /\ IF in.resetn
       THEN /\ mem_la_firstword_reg' = FirstwordOfXfer
            /\ last_mem_valid' = (mem_valid /\ ~in.ready)
       ELSE mem_la_firstword_reg' = FALSE /\ last_mem_valid' = FALSE
    /\ clear_prefetched_high_word_q' = clear_prefetched_high_word(in)
    /\ mem_rdata_q' = IF mem_xfer(in) THEN mem_rdata_latched(in) ELSE mem_rdata_q
    /\ IF ~in.resetn \/ trap THEN ResetMem(in)
       ELSE /\ Address(in)
            /\ \/ Sleep(in) \/ StartRead(in) \/ StartWrite(in) \/ Wait(in)
               \/ AskSecondWord(in) \/ EndRead(in) \/ EndWrite(in)
               \/ UsePrefetch(in)
=============================================================================
