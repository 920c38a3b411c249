------------------------------- MODULE CorePort -------------------------------
(***************************************************************************)
(* The native memory port of the core (picorv32.v): one transfer at a time.*)
(* The core raises mem_valid with an address and a strobe (none for a      *)
(* read), holds them until mem_ready, and then drops mem_valid, or, when a *)
(* 32-bit instruction lies across two words (COMPRESSED_ISA), goes on to   *)
(* the second word.  What it asks for and when is left open; PicoCore      *)
(* implements it.                                                          *)
(***************************************************************************)
CONSTANTS
    LoadAddr,    \* the word addresses the core reads
    StoreAddr,   \* the word addresses the core writes
    StoreData    \* the data and strobes the core writes

VARIABLES
    mem_valid, mem_instr, mem_addr, mem_wdata, mem_wstrb,
    mem_la_secondword,      \* the transfer is the second half of a fetch
    trap,
    started                 \* the core has seen a reset since power-up

nativeVars == <<mem_valid, mem_instr, mem_addr, mem_wdata, mem_wstrb>>

Hold(mem_ready) ==
    mem_valid /\ ~mem_ready /\ UNCHANGED <<nativeVars, mem_la_secondword>>

(* A fetch of a halfword that is there already sets up the port all the     *)
(* same, but for the request; when that halfword is the first of two the    *)
(* address may be there before the request.                                 *)
Idle ==
    /\ ~mem_valid
    /\ \/ UNCHANGED <<mem_instr, mem_addr, mem_wstrb>>
       \/ /\ mem_instr' = TRUE /\ mem_wstrb' = {}
          /\ mem_addr' \in LoadAddr \cup {mem_addr}
    /\ UNCHANGED <<mem_valid, mem_wdata, mem_la_secondword>>

(* An instruction fetch, maybe of a second half whose first half was        *)
(* prefetched, or a load.                                                   *)
IssueRead ==
    /\ ~mem_valid
    /\ mem_valid' = TRUE
    /\ mem_addr' \in LoadAddr
    /\ mem_wstrb' = {}
    /\ mem_instr' \in BOOLEAN
    /\ mem_la_secondword' \in {FALSE, mem_instr'}
    /\ UNCHANGED mem_wdata

IssueWrite ==
    /\ ~mem_valid
    /\ mem_valid' = TRUE
    /\ mem_addr' \in StoreAddr
    /\ \E wd \in StoreData : mem_wdata' = wd.data /\ mem_wstrb' = wd.strb
    /\ mem_instr' = FALSE
    /\ UNCHANGED mem_la_secondword

EndTransfer(mem_ready) ==
    /\ mem_valid /\ mem_ready
    /\ mem_valid' = FALSE
    /\ mem_la_secondword' = FALSE
    /\ UNCHANGED <<mem_instr, mem_addr, mem_wdata, mem_wstrb>>

(* The first half of an instruction is there: mem_valid stays up.           *)
SecondWord(mem_ready) ==
    /\ mem_valid /\ mem_ready
    /\ mem_instr /\ ~mem_la_secondword
    /\ mem_addr' \in LoadAddr
    /\ mem_la_secondword' = TRUE
    /\ UNCHANGED <<mem_valid, mem_instr, mem_wdata, mem_wstrb>>

(* The core at a clock edge.  Before the first reset no state of it is a    *)
(* valid one and nothing happens; a trap lasts until a reset, and lets the  *)
(* transfer under way come to its end.                                      *)
CoreEdge(resetn, mem_ready) ==
    /\ started' = (started \/ ~resetn)
    /\ \/ /\ ~resetn
          /\ mem_valid' = FALSE /\ mem_la_secondword' = FALSE /\ trap' = FALSE
          /\ UNCHANGED <<mem_instr, mem_addr, mem_wdata, mem_wstrb>>
       \/ /\ resetn /\ trap
          /\ mem_valid' = (mem_valid /\ ~mem_ready)
          /\ mem_la_secondword' = FALSE
          /\ UNCHANGED <<mem_instr, mem_addr, mem_wdata, mem_wstrb, trap>>
       \/ /\ resetn /\ ~trap /\ started
          /\ \/ Hold(mem_ready) \/ Idle \/ IssueRead \/ IssueWrite
             \/ EndTransfer(mem_ready) \/ SecondWord(mem_ready)
          /\ trap' \in BOOLEAN
       \/ /\ resetn /\ ~trap /\ ~started
          /\ UNCHANGED <<nativeVars, mem_la_secondword, trap>>
=============================================================================
