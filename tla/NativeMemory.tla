----------------------------- MODULE NativeMemory -----------------------------
(***************************************************************************)
(* What the memory port of the core is owed, with no AXI, no adapter, no   *)
(* ports, queues or loop: a request is performed once, at one instant      *)
(* between its issue and its end, on one memory, and a read gives the core *)
(* what the memory had at that instant.  PicoTestbench implements it.      *)
(***************************************************************************)
EXTENDS Sequences

CONSTANTS
    Word, Requests,   \* a request is [addr, data, strb]; strb = {} is a read
    Exit,             \* the address whose write ends the simulation
    InitMem, InitSeen,
    Loads(_, _),      \* Loads(mem, addr): the values a read may return
    Stored(_, _, _),  \* Stored(mem, addr, wd): the memory after a write
    Written           \* the answer to a write

VARIABLES
    mem, passed,
    request,          \* at most one, as a sequence
    answer,           \* its answer once it has been performed, likewise
    seen              \* the word the core was given last

vars == <<mem, passed, request, answer, seen>>

Init ==
    /\ mem = InitMem /\ passed = FALSE /\ seen = InitSeen
    /\ request = << >> /\ answer = << >>

Issue ==
    /\ request = << >> /\ answer = << >>
    /\ \E q \in Requests : request' = <<q>>
    /\ UNCHANGED <<mem, passed, answer, seen>>

Perform ==
    /\ request # << >> /\ answer = << >> /\ ~passed
    /\ LET q == request[1]
       IN IF q.strb = {}
          THEN /\ \E data \in Loads(mem, q.addr) : answer' = <<data>>
               /\ UNCHANGED <<mem, passed>>
          ELSE /\ mem' = Stored(mem, q.addr, [data |-> q.data, strb |-> q.strb])
               /\ passed' = (q.addr = Exit)
               /\ answer' = <<Written>>
    /\ UNCHANGED <<request, seen>>

(* The core goes idle, or on to the second half of an instruction.  What it *)
(* sees at the end of a write is not used.                                  *)
Complete ==
    /\ request # << >> /\ answer # << >>
    /\ answer' = << >>
    /\ IF request[1].strb = {} THEN seen' = answer[1] ELSE seen' \in Word
    /\ request' = << >> \/ \E q \in Requests : q.strb = {} /\ request' = <<q>>
    /\ UNCHANGED <<mem, passed>>

Next == Issue \/ Perform \/ Complete

Spec == Init /\ [][Next]_vars
=============================================================================
