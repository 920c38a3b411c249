------------------------------- MODULE AxiSlave -------------------------------
(***************************************************************************)
(* What a memory behind AXI4-Lite owes its master, with no channel         *)
(* registers, no queues and no loop: requests are served in the order of   *)
(* their channel, a write needs its address and its data, a response can   *)
(* only be taken after the access it answers, and every access acts on the *)
(* memory at one instant.  AxiLoop implements it.                          *)
(***************************************************************************)
EXTENDS Naturals, Sequences

CONSTANTS
    Addr, WData,      \* what a request carries
    Exit,             \* the address whose write ends the simulation
    InitMem,
    Loads(_, _),      \* Loads(mem, addr): the values a read may return
    Stored(_, _, _)   \* Stored(mem, addr, wd): the memory after a write

VARIABLES
    mem, passed,
    reads,            \* read addresses not served yet
    waddrs, wdatas,   \* write addresses, and write data, not served yet
    results,          \* read data the master has not taken
    acks              \* write responses it has not taken

vars == <<mem, passed, reads, waddrs, wdatas, results, acks>>

Init ==
    /\ mem = InitMem /\ passed = FALSE
    /\ reads = << >> /\ waddrs = << >> /\ wdatas = << >>
    /\ results = << >> /\ acks = 0

Grows(q, q1, T) == q1 = q \/ \E x \in T : q1 = Append(q, x)

Request ==
    /\ Grows(reads, reads', Addr)
    /\ Grows(waddrs, waddrs', Addr)
    /\ Grows(wdatas, wdatas', WData)
    /\ UNCHANGED <<mem, passed, results, acks>>

ServeRead ==
    \/ /\ reads # << >>
       /\ \E data \in Loads(mem, Head(reads)) : results' = Append(results, data)
       /\ reads' = Tail(reads)
    \/ UNCHANGED <<reads, results>>

ServeWrite ==
    \/ /\ waddrs # << >> /\ wdatas # << >>
       /\ mem' = Stored(mem, Head(waddrs), Head(wdatas))
       /\ passed' = (passed \/ Head(waddrs) = Exit)
       /\ acks' = acks + 1
       /\ waddrs' = Tail(waddrs) /\ wdatas' = Tail(wdatas)
    \/ UNCHANGED <<mem, passed, acks, waddrs, wdatas>>

(* A read and a write may be served together; the read sees the memory     *)
(* before the write.  Nothing is served once the simulation has passed.    *)
Serve == ~passed /\ ServeRead /\ ServeWrite

Take ==
    /\ results' = results \/ (results # << >> /\ results' = Tail(results))
    /\ acks' = acks \/ (acks > 0 /\ acks' = acks - 1)
    /\ UNCHANGED <<mem, passed, reads, waddrs, wdatas>>

Next == Request \/ Serve \/ Take

Spec == Init /\ [][Next]_vars
=============================================================================
