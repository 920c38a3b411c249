------------------------------- MODULE AxiLoop -------------------------------
(***************************************************************************)
(* The loop of main() around AxiMemory with any AXI master in the place of *)
(* the CPU: one that may keep several reads and writes in flight, send     *)
(* write addresses and write data apart, and be slow to take a response.   *)
(* It is the contract the queues of AxiMemory are written for; picorv32,   *)
(* which has one transfer at a time, is in PicoTestbench.                  *)
(*                                                                         *)
(* Everything runs in one thread, so a member function called from the     *)
(* loop is one step.  The bound on the iterations (1000000) is abstracted  *)
(* to a loop that may stop at any iteration.                               *)
(***************************************************************************)
EXTENDS AxiMemory

CONSTANTS
    Payload,     \* the write data and strobes the master uses
    MaxReads,    \* bound: reads the master sends
    MaxWrites    \* bound: write addresses, and write data, the master sends

ASSUME LoopAssumption ==
    Payload \subseteq WData /\ MaxReads \in Nat /\ MaxWrites \in Nat

VARIABLES
    pc,          \* the next call of the loop body
    (* histories; none of them is read by an action of the program *)
    sentAr, sentAw, sentW,      \* what the master put on each channel
    ackedAt,     \* for each read sent, the write responses it had by then
    readAddr, readData,         \* the reads Exec_ has done, in order
    readAfter,   \* for each of them, the writes done before it
    wroteAddr, wroteData,       \* the writes Exec_ has done, in order
    gotR, gotB   \* the read data the master took, the write responses it took

loopVars == <<sentAr, sentAw, sentW, ackedAt, readAddr, readData, readAfter,
              wroteAddr, wroteData, gotR, gotB>>
vars == <<chanVars, memVars, pc, loopVars>>

Init ==
    /\ AxiInit
    /\ pc = "input"
    /\ sentAr = << >> /\ sentAw = << >> /\ sentW = << >> /\ ackedAt = << >>
    /\ readAddr = << >> /\ readData = << >> /\ readAfter = << >>
    /\ wroteAddr = << >> /\ wroteData = << >>
    /\ gotR = << >> /\ gotB = 0

-----------------------------------------------------------------------------
(* The condition of the loop, its bound apart; and that condition forgotten. *)
BugIgnoresPass == TRUE
LoopCondition  == ~simulation_passed

(* axi.HandleInputAndExec(), when the condition of the loop lets it run. *)
Input ==
    /\ pc = "input" /\ LoopCondition
    /\ HandleInputAndExec
    /\ pc' = "pre"
    /\ IF CanRead(ArIn[2])
       THEN /\ readAddr' = Append(readAddr, Head(ArIn[2]))
            /\ readData' = Append(readData, r_q'[Len(r_q')])
            /\ readAfter' = Append(readAfter, Len(wroteAddr))
       ELSE UNCHANGED <<readAddr, readData, readAfter>>
    /\ IF CanWrite(AwIn[2], WIn[2])
       THEN /\ wroteAddr' = Append(wroteAddr, Head(AwIn[2]))
            /\ wroteData' = Append(wroteData, Head(WIn[2]))
       ELSE UNCHANGED <<wroteAddr, wroteData>>
    /\ UNCHANGED <<sentAr, sentAw, sentW, ackedAt, gotR, gotB>>

(* An access outside memory_space may end the process. *)
Killed ==
    /\ pc = "pre" /\ wild
    /\ pc' = "killed"
    /\ UNCHANGED <<chanVars, memVars, loopVars>>

(* dut.Pre(): a response that is valid is reset if the master is ready. *)
Pre(rready, bready) ==
    /\ pc = "pre"
    /\ pc' = "output"
    /\ IF rready THEN r' = None /\ gotR' = gotR \o r ELSE UNCHANGED <<r, gotR>>
    /\ IF bready THEN b' = None /\ gotB' = gotB + Len(b) ELSE UNCHANGED <<b, gotB>>
    /\ UNCHANGED <<ar, aw, w, memVars, sentAr, sentAw, sentW, ackedAt, readAddr,
                   readData, readAfter, wroteAddr, wroteData>>

(* axi.HandleOutput(). *)
Output ==
    /\ pc = "output"
    /\ HandleOutput
    /\ pc' = "post"
    /\ UNCHANGED loopVars

(* dut.Post(), channel by channel: a beat goes through when the master has  *)
(* one and the optional is empty.                                           *)
SendAr ==
    \/ /\ ar = None /\ Len(sentAr) < MaxReads
       /\ \E addr \in Addr : ar' = <<addr>> /\ sentAr' = Append(sentAr, addr)
       /\ ackedAt' = Append(ackedAt, gotB)
    \/ UNCHANGED <<ar, sentAr, ackedAt>>

SendAw ==
    \/ /\ aw = None /\ Len(sentAw) < MaxWrites
       /\ \E addr \in Addr : aw' = <<addr>> /\ sentAw' = Append(sentAw, addr)
    \/ UNCHANGED <<aw, sentAw>>

SendW ==
    \/ /\ w = None /\ Len(sentW) < MaxWrites
       /\ \E wd \in Payload : w' = <<wd>> /\ sentW' = Append(sentW, wd)
    \/ UNCHANGED <<w, sentW>>

Post ==
    /\ pc = "post"
    /\ pc' = "input"
    /\ SendAr /\ SendAw /\ SendW
    /\ UNCHANGED <<r, b, memVars, readAddr, readData, readAfter, wroteAddr,
                   wroteData, gotR, gotB>>

(* The loop is left when the simulation has passed, or at its bound. *)
Leave ==
    /\ pc = "input"
    /\ pc' = "done"
    /\ UNCHANGED <<chanVars, memVars, loopVars>>

Terminated == pc \in {"done", "killed"} /\ UNCHANGED vars

Next ==
    \/ Input \/ Killed
    \/ \E rready, bready \in BOOLEAN : Pre(rready, bready)
    \/ Output \/ Post \/ Leave \/ Terminated

Spec == Init /\ [][Next]_vars

-----------------------------------------------------------------------------
(* Type invariant of the state and the histories of the loop. *)
TypeOK ==
    /\ AxiTypeOK
    /\ pc \in {"input", "pre", "output", "post", "done", "killed"}
    /\ sentAr \in Seq(Addr) /\ sentAw \in Seq(Addr) /\ sentW \in Seq(Payload)
    /\ ackedAt \in Seq(Nat) /\ readAfter \in Seq(Nat)
    /\ readAddr \in Seq(Addr) /\ readData \in Seq(Word)
    /\ wroteAddr \in Seq(Addr) /\ wroteData \in Seq(WData)
    /\ gotR \in Seq(Word) /\ gotB \in Nat

(* The read channels lose, duplicate and reorder nothing: what Exec_ read,  *)
(* what waits in ar_q and what sits in ar are what the master sent, and     *)
(* what it got, r and r_q are what Exec_ read.                              *)
ReadStream ==
    /\ readAddr \o (ar_q \o ar) = sentAr
    /\ (gotR \o r) \o r_q = readData

(* The same for writes, where the k-th address meets the k-th data however  *)
(* far one channel runs ahead of the other, and each pair done is answered  *)
(* by one response.                                                         *)
WriteStream ==
    /\ wroteAddr \o (aw_q \o aw) = sentAw
    /\ wroteData \o (w_q \o w) = sentW
    /\ Len(wroteAddr) = Len(wroteData)
    /\ gotB + Len(b) + Len(b_q) = Len(wroteAddr)

(* Between the master and Exec_ nothing is lost, duplicated or reordered.   *)
Streams == ReadStream /\ WriteStream

(* A read is done on a memory that already has every write whose response   *)
(* the master had taken when it sent the read.                              *)
ReadAfterAck ==
    \A i \in 1 .. Len(readAfter) : ackedAt[i] <= readAfter[i]

(* The memory and the console are those of doing the first n of the pairs   *)
(* sent, one after the other.                                               *)
Replay[n \in Nat] ==
    IF n = 0 THEN [mem |-> LoadFirmware, out |-> << >>]
    ELSE LET before == Replay[n - 1]
         IN [mem |-> Store(before.mem, sentAw[n], sentW[n]),
             out |-> IF sentAw[n] = ConsoleAddr
                     THEN Append(before.out, sentW[n].data[0]) ELSE before.out]

(* The effects of Exec_ are those of the writes in the order sent. *)
EffectsAreReplay ==
    Replay[Len(wroteAddr)] = [mem |-> memory_space, out |-> console]

(* Every value handed to the master is the one the memory had between two   *)
(* writes, the write done in the same iteration not being seen.             *)
ReadsAreReplay ==
    \A i \in 1 .. Len(readData) :
        InRange(sentAr[i]) =>
            readData[i] = Replay[readAfter[i]].mem[WordIndex(sentAr[i])]

(* What is done and what is read is what doing the writes one after the     *)
(* other would do.                                                          *)
ActsAsReplay == EffectsAreReplay /\ ReadsAreReplay

(* The write to the exit address is the last write the memory does, and     *)
(* nothing but such a write sets simulation_passed.                         *)
ExitIsLast ==
    \A i \in 1 .. Len(wroteAddr) :
        wroteAddr[i] = ExitAddr <=> (i = Len(wroteAddr) /\ simulation_passed)

-----------------------------------------------------------------------------
Slave == INSTANCE AxiSlave WITH
    Exit <- ExitAddr, InitMem <- LoadFirmware,
    Loads <- LoadResults, Stored <- Store,
    mem <- memory_space, passed <- simulation_passed,
    reads <- ar_q \o ar, waddrs <- aw_q \o aw, wdatas <- w_q \o w,
    results <- r \o r_q, acks <- Len(b) + Len(b_q)

(* The loop, its queues and its channels implement the abstract memory. *)
ImplementsSlave == Slave!Spec

-----------------------------------------------------------------------------
Stopped == pc \in {"done", "killed"}

LoopFairness == WF_vars(Input) /\ WF_vars(Pre(FALSE, FALSE) \/ Pre(TRUE, FALSE)
                    \/ Pre(FALSE, TRUE) \/ Pre(TRUE, TRUE))
                /\ WF_vars(Output) /\ WF_vars(Post)

TakesR == r # None /\ \E bready \in BOOLEAN : Pre(TRUE, bready)
TakesB == b # None /\ \E rready \in BOOLEAN : Pre(rready, TRUE)

FairSpec == Spec /\ LoopFairness

(* Writes whose responses are not taken do not hold up reads: as long as    *)
(* the master keeps taking read data each read is answered, unless the loop *)
(* ends.                                                                    *)
ReadsAreAnswered ==
    SF_vars(TakesR) =>
        \A k \in 1 .. MaxReads : (Len(sentAr) >= k) ~> (Len(gotR) >= k \/ Stopped)

(* Reads whose data is not taken do not hold up writes: as long as the      *)
(* master keeps taking responses, a write with its address and its data     *)
(* sent is answered, unless the loop ends.                                  *)
WritesAreAnswered ==
    SF_vars(TakesB) =>
        \A k \in 1 .. MaxWrites :
            (Len(sentAw) >= k /\ Len(sentW) >= k) ~> (gotB >= k \/ Stopped)

(* Neither direction holds up the other for ever.                           *)
BothAreAnswered == ReadsAreAnswered /\ WritesAreAnswered
=============================================================================
