------------------------------ MODULE AxiMemory ------------------------------
(***************************************************************************)
(* struct AxiMemory of sim/picorv32-main/main.cpp: the AXI4-Lite memory    *)
(* the testbench puts behind the CPU.  It shares five optional<> objects,  *)
(* one per AXI channel, with Vpicorv32Wrap, and keeps one queue behind     *)
(* each.  The module has the state of that struct and one operator per     *)
(* member function; AxiLoop and PicoTestbench extend it with the side that *)
(* fills ar, aw, w and empties r, b.                                       *)
(*                                                                         *)
(* An optional<T> is a sequence of length at most one, so that a channel   *)
(* and its queue read as one stream: ar_q \o ar.                           *)
(***************************************************************************)
EXTENDS AxiTypes

CONSTANTS
    MemWords,   \* memory_space.size(): 1<<16 in main
    ReqCap,     \* the 128 of HandleInput_
    RspCap,     \* the 16 of Exec_
    Firmware    \* the words of firmware.bin, a sequence

Index == 0 .. MemWords - 1

ASSUME AxiAssumption ==
    /\ MemWords \in Nat \ {0}
    /\ ReqCap \in Nat \ {0}
    /\ RspCap \in Nat \ {0}
    /\ Firmware \in Seq(Word)

None        == << >>
Response    == "okay"        \* b_s has no member
ConsoleAddr == 268435456     \* 0x10000000
ExitAddr    == 536870912     \* 0x20000000

VARIABLES
    ar, aw, w, r, b,                \* the channels, shared with the wrapper
    ar_q, aw_q, w_q, r_q, b_q,      \* the private queues
    memory_space,
    simulation_passed,
    console,                        \* what was written to cout, in order
    wild    \* an access has left memory_space: undefined behaviour in C++

chanVars == <<ar, aw, w, r, b>>
memVars  == <<ar_q, aw_q, w_q, r_q, b_q, memory_space, simulation_passed,
              console, wild>>

-----------------------------------------------------------------------------
(* main: memory_space = ReadBin("firmware.bin"), then resize(1<<16), which  *)
(* pads with zeros, or drops what does not fit.                             *)
LoadFirmware ==
    [i \in Index |-> IF i < Len(Firmware) THEN Firmware[i + 1] ELSE Zero]

AxiInit ==
    /\ ar = None /\ aw = None /\ w = None /\ r = None /\ b = None
    /\ ar_q = << >> /\ aw_q = << >> /\ w_q = << >>
    /\ r_q = << >> /\ b_q = << >>
    /\ memory_space = LoadFirmware
    /\ simulation_passed = FALSE
    /\ console = << >>
    /\ wild = FALSE

(* Definitions named Bug... are wrong on purpose: each is a slip one could   *)
(* make in the code of the definition after it, and makes a run fail.       *)

(* <= for <, no reset of the optional, and a reset also when it was full.   *)
BugQueueOverfull(opt, dq, max_size) ==
    IF opt # None /\ Len(dq) <= max_size THEN <<None, dq \o opt>> ELSE <<opt, dq>>
BugNoReset(opt, dq, max_size) ==
    IF opt # None /\ Len(dq) < max_size THEN <<opt, dq \o opt>> ELSE <<opt, dq>>
BugBeatDropped(opt, dq, max_size) ==
    IF opt # None /\ Len(dq) < max_size THEN <<None, dq \o opt>> ELSE <<None, dq>>

(* OptionalToQueue: the pair of the optional and the queue afterwards. *)
OptionalToQueue(opt, dq, max_size) ==
    IF opt # None /\ Len(dq) < max_size THEN <<None, dq \o opt>> ELSE <<opt, dq>>

(* No pop_front. *)
BugNoPop(dq, opt) ==
    IF opt = None /\ dq # << >> THEN <<dq, <<Head(dq)>>>> ELSE <<dq, opt>>

(* QueueToOptional, with the same reading of the result. *)
QueueToOptional(dq, opt) ==
    IF opt = None /\ dq # << >> THEN <<Tail(dq), <<Head(dq)>>>> ELSE <<dq, opt>>

WordIndex(addr) == addr \div 4
InRange(addr)   == WordIndex(addr) \in Index

(* Exec_, the read: memory_space[addr / 4], whatever the address.  Outside  *)
(* the vector the value is unspecified.  Reads know no console and no exit. *)
LoadResults(mem, addr) ==
    IF InRange(addr) THEN {mem[WordIndex(addr)]} ELSE Word

(* Exec_, the write: (src & mask) | (dst & ~mask), the mask having 0xff in  *)
(* the lanes whose strobe bit is set.                                       *)
Merge(dst, wd) == [l \in Lanes |-> IF l \in wd.strb THEN wd.data[l] ELSE dst[l]]

Store(mem, addr, wd) ==
    IF addr \notin {ConsoleAddr, ExitAddr} /\ InRange(addr)
    THEN [mem EXCEPT ![WordIndex(addr)] = Merge(@, wd)]
    ELSE mem

StrayRead(addr)  == ~InRange(addr)
StrayWrite(addr) == addr \notin {ConsoleAddr, ExitAddr} /\ ~InRange(addr)

(* Reads waiting for room in the response queue of the writes. *)
BugReadWaitsForB(reads) ==
    reads # << >> /\ Len(r_q) < RspCap /\ Len(b_q) < RspCap

CanRead(reads)         == reads # << >> /\ Len(r_q) < RspCap
CanWrite(addrs, datas) == addrs # << >> /\ datas # << >> /\ Len(b_q) < RspCap

ExecRead(reads) ==
    IF CanRead(reads)
    THEN /\ \E data \in LoadResults(memory_space, Head(reads)) : r_q' = Append(r_q, data)
         /\ ar_q' = Tail(reads)
    ELSE r_q' = r_q /\ ar_q' = reads

ExecWrite(addrs, datas) ==
    IF CanWrite(addrs, datas)
    THEN LET addr == Head(addrs)
             wd   == Head(datas)
         IN /\ memory_space' = Store(memory_space, addr, wd)
            /\ simulation_passed' = (simulation_passed \/ addr = ExitAddr)
            /\ console' = IF addr = ConsoleAddr THEN Append(console, wd.data[0])
                                                ELSE console
            /\ b_q' = Append(b_q, Response)
            /\ aw_q' = Tail(addrs)
            /\ w_q' = Tail(datas)
    ELSE /\ aw_q' = addrs
         /\ w_q' = datas
         /\ UNCHANGED <<memory_space, simulation_passed, console, b_q>>

(* The write before the read. *)
BugWriteFirst(reads, addrs, datas) ==
    /\ ExecWrite(addrs, datas)
    /\ IF CanRead(reads)
       THEN /\ \E data \in LoadResults(memory_space', Head(reads)) :
                    r_q' = Append(r_q, data)
            /\ ar_q' = Tail(reads)
       ELSE r_q' = r_q /\ ar_q' = reads
    /\ wild' = wild

(* Exec_: the read first, on the memory as it was, then the write. *)
Exec_(reads, addrs, datas) ==
    /\ ExecRead(reads)
    /\ ExecWrite(addrs, datas)
    /\ wild' = \/ wild
               \/ CanRead(reads) /\ StrayRead(Head(reads))
               \/ CanWrite(addrs, datas) /\ StrayWrite(Head(addrs))

(* HandleInput_: the channel and the queue after the channel is taken. *)
ArIn == OptionalToQueue(ar, ar_q, ReqCap)
AwIn == OptionalToQueue(aw, aw_q, ReqCap)
WIn  == OptionalToQueue(w, w_q, ReqCap)

HandleInputAndExec ==
    /\ ar' = ArIn[1] /\ aw' = AwIn[1] /\ w' = WIn[1]
    /\ Exec_(ArIn[2], AwIn[2], WIn[2])
    /\ UNCHANGED <<r, b>>

ROut == QueueToOptional(r_q, r)
BOut == QueueToOptional(b_q, b)

HandleOutput ==
    /\ r_q' = ROut[1] /\ r' = ROut[2]
    /\ b_q' = BOut[1] /\ b' = BOut[2]
    /\ UNCHANGED <<ar, aw, w, ar_q, aw_q, w_q, memory_space,
                   simulation_passed, console, wild>>

-----------------------------------------------------------------------------
Optional(T) == {s \in Seq(T) : Len(s) <= 1}
Queue(T, max) == {s \in Seq(T) : Len(s) <= max}

(* Every channel holds at most one beat and no queue outgrows its limit. *)
AxiTypeOK ==
    /\ ar \in Optional(Addr) /\ aw \in Optional(Addr) /\ w \in Optional(WData)
    /\ r \in Optional(Word) /\ b \in Optional({Response})
    /\ ar_q \in Queue(Addr, ReqCap)
    /\ aw_q \in Queue(Addr, ReqCap)
    /\ w_q \in Queue(WData, ReqCap)
    /\ r_q \in Queue(Word, RspCap)
    /\ b_q \in Queue({Response}, RspCap)
    /\ memory_space \in [Index -> Word]
    /\ simulation_passed \in BOOLEAN
    /\ console \in Seq(Byte)
    /\ wild \in BOOLEAN
=============================================================================
