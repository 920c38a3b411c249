------------------------- MODULE PicoTestbench_proofs -------------------------
(***************************************************************************)
(* Proofs about PicoTestbench, for every memory size, every limit of the   *)
(* queues, every set of addresses and data, and every period of the        *)
(* interrupts.                                                             *)
(***************************************************************************)
EXTENDS PicoTestbench, SequenceTheorems, TLAPS

-----------------------------------------------------------------------------
(* AxiMemory keeps its types. *)

(* An optional is empty or holds one beat. *)
LEMMA OptionalEmptyOrOne ==
    ASSUME NEW T, NEW o \in Optional(T)
    PROVE  o \in Seq(T) /\ (o = None \/ \E x \in T : o = <<x>>)
<1>1. o \in Seq(T) /\ Len(o) <= 1
  BY DEF Optional
<1>2. CASE Len(o) = 0
  BY <1>1, <1>2, EmptySeq DEF None
<1>3. CASE Len(o) = 1
  <2>1. o[1] \in T
    BY <1>1, <1>3
  <2>2. o = <<o[1]>>
    BY <1>1, <1>3
  <2> QED BY <1>1, <2>1, <2>2
<1>4. Len(o) = 0 \/ Len(o) = 1
  <2>1. Len(o) \in Nat
    BY <1>1, LenProperties
  <2>2. \A n \in Nat : n <= 1 => n = 0 \/ n = 1
    OBVIOUS
  <2> QED BY <1>1, <2>1, <2>2
<1> QED BY <1>1, <1>2, <1>3, <1>4

(* A channel just filled is an optional. *)
LEMMA OptionalSingleton ==
    ASSUME NEW T, NEW x \in T
    PROVE  <<x>> \in Optional(T) /\ None \in Optional(T)
BY DEF Optional, None

(* OptionalToQueue keeps an optional an optional and a queue in its limit.  *)
LEMMA OptionalToQueueType ==
    ASSUME NEW T, NEW max \in Nat \ {0},
           NEW opt \in Optional(T), NEW dq \in Queue(T, max)
    PROVE  /\ OptionalToQueue(opt, dq, max)[1] \in Optional(T)
           /\ OptionalToQueue(opt, dq, max)[2] \in Queue(T, max)
<1>1. CASE opt # None /\ Len(dq) < max
  <2>1. OptionalToQueue(opt, dq, max) = <<None, dq \o opt>>
    BY <1>1 DEF OptionalToQueue
  <2>2. dq \o opt \in Seq(T) /\ Len(dq \o opt) = Len(dq) + Len(opt)
    BY ConcatProperties DEF Optional, Queue
  <2>3. dq \o opt \in Queue(T, max) /\ None \in Optional(T)
    BY <1>1, <2>2, LenProperties DEF Optional, Queue, None
  <2> QED BY <2>1, <2>3
<1>2. CASE ~(opt # None /\ Len(dq) < max)
  BY <1>2 DEF OptionalToQueue
<1> QED BY <1>1, <1>2

(* QueueToOptional keeps an optional an optional and never lengthens a queue. *)
LEMMA QueueToOptionalType ==
    ASSUME NEW T, NEW max \in Nat,
           NEW opt \in Optional(T), NEW dq \in Queue(T, max)
    PROVE  /\ QueueToOptional(dq, opt)[1] \in Queue(T, max)
           /\ QueueToOptional(dq, opt)[2] \in Optional(T)
<1>1. dq \in Seq(T) /\ Len(dq) <= max
  BY DEF Queue
<1>2. CASE opt = None /\ dq # << >>
  <2>1. QueueToOptional(dq, opt) = <<Tail(dq), <<Head(dq)>>>>
    BY <1>2 DEF QueueToOptional
  <2>2. Head(dq) \in T /\ Tail(dq) \in Seq(T) /\ Len(Tail(dq)) = Len(dq) - 1
    BY <1>1, <1>2, HeadTailProperties
  <2>3. Tail(dq) \in Queue(T, max)
    BY <1>1, <2>2, LenProperties DEF Queue
  <2>4. <<Head(dq)>> \in Optional(T)
    BY <2>2, OptionalSingleton
  <2> QED BY <2>1, <2>3, <2>4
<1>3. CASE ~(opt = None /\ dq # << >>)
  BY <1>3 DEF QueueToOptional
<1> QED BY <1>2, <1>3

(* The state AxiMemory starts in has the right types. *)
LEMMA AxiInitType == AxiInit => AxiTypeOK
<1> SUFFICES ASSUME AxiInit PROVE AxiTypeOK
  OBVIOUS
<1> USE AxiAssumption, PayloadAssumption
<1>1. \A T : << >> \in Optional(T)
  BY DEF Optional
<1>2. \A T : \A max \in Nat : << >> \in Queue(T, max)
  BY DEF Queue
<1>3. memory_space \in [Index -> Word]
  <2>1. Zero \in Word
    BY DEF Zero, Word
  <2>2. \A i \in Index : i < Len(Firmware) => Firmware[i + 1] \in Word
    <3> TAKE i \in Index
    <3> HAVE i < Len(Firmware)
    <3>1. i + 1 \in 1 .. Len(Firmware)
      BY LenProperties DEF Index
    <3> QED BY <3>1, ElementOfSeq
  <2> QED BY <2>1, <2>2 DEF AxiInit, LoadFirmware
<1>4. console \in Seq(Byte)
  BY DEF AxiInit
<1> QED BY <1>1, <1>2, <1>3, <1>4 DEF AxiInit, AxiTypeOK, None

(* pop_front keeps a queue within its limit. *)
LEMMA QueueTail ==
    ASSUME NEW T, NEW max \in Nat, NEW q \in Queue(T, max), q # << >>
    PROVE  Tail(q) \in Queue(T, max) /\ Head(q) \in T
BY HeadTailProperties, LenProperties DEF Queue

(* push_back keeps a queue within its limit if it was shorter. *)
LEMMA QueueAppend ==
    ASSUME NEW T, NEW max \in Nat, NEW q \in Queue(T, max), Len(q) < max,
           NEW x \in T
    PROVE  /\ Append(q, x) \in Queue(T, max)
           /\ Len(Append(q, x)) = Len(q) + 1
BY AppendProperties, LenProperties DEF Queue

(* Exec_ keeps the types, whichever of its two halves does something.       *)
LEMMA ExecType ==
    ASSUME AxiTypeOK, NEW qr \in Queue(Addr, ReqCap), NEW qa \in Queue(Addr, ReqCap),
           NEW qw \in Queue(WData, ReqCap), Exec_(qr, qa, qw)
    PROVE  /\ ar_q' \in Queue(Addr, ReqCap) /\ r_q' \in Queue(Word, RspCap)
           /\ aw_q' \in Queue(Addr, ReqCap) /\ w_q' \in Queue(WData, ReqCap)
           /\ b_q' \in Queue({Response}, RspCap)
           /\ memory_space' \in [Index -> Word]
           /\ simulation_passed' \in BOOLEAN /\ console' \in Seq(Byte)
           /\ wild' \in BOOLEAN
<1> USE AxiAssumption
<1>1. /\ r_q \in Queue(Word, RspCap) /\ b_q \in Queue({Response}, RspCap)
      /\ memory_space \in [Index -> Word]
      /\ console \in Seq(Byte) /\ simulation_passed \in BOOLEAN
  BY DEF AxiTypeOK
<1>2. ExecRead(qr) /\ ExecWrite(qa, qw) /\ wild' \in BOOLEAN
  BY DEF Exec_, AxiTypeOK
<1>3. ar_q' \in Queue(Addr, ReqCap) /\ r_q' \in Queue(Word, RspCap)
  <2>1. CASE CanRead(qr)
    <3>1. qr # << >> /\ Len(r_q) < RspCap
      BY <2>1 DEF CanRead
    <3>2. Head(qr) \in Addr /\ Tail(qr) \in Queue(Addr, ReqCap)
      BY <3>1, QueueTail
    <3>3. PICK data \in LoadResults(memory_space, Head(qr)) :
              r_q' = Append(r_q, data) /\ ar_q' = Tail(qr)
      BY <1>2, <2>1 DEF ExecRead
    <3>4. data \in Word
      BY <1>1, <3>2 DEF LoadResults, InRange
    <3>5. Append(r_q, data) \in Queue(Word, RspCap)
      BY <1>1, <3>1, <3>4, QueueAppend
    <3> QED BY <3>2, <3>3, <3>5
  <2>2. CASE ~CanRead(qr)
    BY <1>1, <1>2, <2>2 DEF ExecRead
  <2> QED BY <2>1, <2>2
<1>4. /\ aw_q' \in Queue(Addr, ReqCap) /\ w_q' \in Queue(WData, ReqCap)
      /\ b_q' \in Queue({Response}, RspCap)
      /\ memory_space' \in [Index -> Word]
      /\ simulation_passed' \in BOOLEAN /\ console' \in Seq(Byte)
  <2>1. CASE CanWrite(qa, qw)
    <3>1. qa # << >> /\ qw # << >> /\ Len(b_q) < RspCap
      BY <2>1 DEF CanWrite
    <3>2. /\ Head(qa) \in Addr /\ Tail(qa) \in Queue(Addr, ReqCap)
          /\ Head(qw) \in WData /\ Tail(qw) \in Queue(WData, ReqCap)
      BY <3>1, QueueTail
    <3>3. /\ memory_space' = Store(memory_space, Head(qa), Head(qw))
          /\ simulation_passed' = (simulation_passed \/ Head(qa) = ExitAddr)
          /\ console' = IF Head(qa) = ConsoleAddr
                          THEN Append(console, Head(qw).data[0]) ELSE console
          /\ b_q' = Append(b_q, Response)
          /\ aw_q' = Tail(qa) /\ w_q' = Tail(qw)
      BY <1>2, <2>1 DEF ExecWrite
    <3>4. memory_space' \in [Index -> Word]
      <4>1. \A dst \in Word : Merge(dst, Head(qw)) \in Word
        BY <3>2 DEF Merge, Word, WData
      <4> QED BY <1>1, <3>3, <4>1 DEF Store, InRange
    <3>5. b_q' \in Queue({Response}, RspCap)
      BY <1>1, <3>1, <3>3, QueueAppend
    <3>6. Head(qw).data[0] \in Byte
      BY <3>2, PayloadAssumption DEF WData, Word, Lanes
    <3>7. console' \in Seq(Byte)
      BY <1>1, <3>3, <3>6, AppendProperties
    <3>8. simulation_passed' \in BOOLEAN
      BY <3>3
    <3> QED BY <3>2, <3>3, <3>4, <3>5, <3>7, <3>8
  <2>2. CASE ~CanWrite(qa, qw)
    BY <1>1, <1>2, <2>2 DEF ExecWrite
  <2> QED BY <2>1, <2>2
<1> QED BY <1>2, <1>3, <1>4

(* HandleInputAndExec keeps the types. *)
LEMMA InputAndExecType == AxiTypeOK /\ HandleInputAndExec => AxiTypeOK'
<1> SUFFICES ASSUME AxiTypeOK, HandleInputAndExec PROVE AxiTypeOK'
  OBVIOUS
<1>1. /\ ar' = ArIn[1] /\ aw' = AwIn[1] /\ w' = WIn[1]
      /\ Exec_(ArIn[2], AwIn[2], WIn[2]) /\ r' = r /\ b' = b
  BY DEF HandleInputAndExec
<1>2. /\ ReqCap \in Nat \ {0}
      /\ ar \in Optional(Addr) /\ ar_q \in Queue(Addr, ReqCap)
      /\ aw \in Optional(Addr) /\ aw_q \in Queue(Addr, ReqCap)
      /\ w \in Optional(WData) /\ w_q \in Queue(WData, ReqCap)
      /\ r \in Optional(Word) /\ b \in Optional({Response})
  BY AxiAssumption DEF AxiTypeOK
<1>3. ArIn[1] \in Optional(Addr) /\ ArIn[2] \in Queue(Addr, ReqCap)
  BY <1>2, OptionalToQueueType, ZenonT(40) DEF ArIn
<1>4. AwIn[1] \in Optional(Addr) /\ AwIn[2] \in Queue(Addr, ReqCap)
  BY <1>2, OptionalToQueueType, ZenonT(40) DEF AwIn
<1>5. WIn[1] \in Optional(WData) /\ WIn[2] \in Queue(WData, ReqCap)
  BY <1>2, OptionalToQueueType, ZenonT(40) DEF WIn
<1>6. /\ ar_q' \in Queue(Addr, ReqCap) /\ r_q' \in Queue(Word, RspCap)
      /\ aw_q' \in Queue(Addr, ReqCap) /\ w_q' \in Queue(WData, ReqCap)
      /\ b_q' \in Queue({Response}, RspCap)
      /\ memory_space' \in [Index -> Word]
      /\ simulation_passed' \in BOOLEAN /\ console' \in Seq(Byte)
      /\ wild' \in BOOLEAN
  BY <1>1, <1>3, <1>4, <1>5, ExecType
<1> QED BY <1>1, <1>2, <1>3, <1>4, <1>5, <1>6 DEF AxiTypeOK

(* HandleOutput keeps the types. *)
LEMMA OutputType == AxiTypeOK /\ HandleOutput => AxiTypeOK'
<1> SUFFICES ASSUME AxiTypeOK, HandleOutput PROVE AxiTypeOK'
  OBVIOUS
<1>1. /\ r \in Optional(Word) /\ r_q \in Queue(Word, RspCap)
      /\ b \in Optional({Response}) /\ b_q \in Queue({Response}, RspCap)
      /\ RspCap \in Nat
  BY AxiAssumption DEF AxiTypeOK
<1>2. ROut[1] \in Queue(Word, RspCap) /\ ROut[2] \in Optional(Word)
  BY <1>1, QueueToOptionalType, Zenon DEF ROut
<1>3. BOut[1] \in Queue({Response}, RspCap) /\ BOut[2] \in Optional({Response})
  BY <1>1, QueueToOptionalType, Zenon DEF BOut
<1> QED BY <1>2, <1>3 DEF HandleOutput, AxiTypeOK

-----------------------------------------------------------------------------
(* The inductive invariant. *)

Request == [data |-> mem_wdata, strb |-> mem_wstrb]

(* The beat of a read is at one place, or at none. *)
ReadIn(place) ==
    /\ ar = IF place = "channel" THEN <<mem_addr>> ELSE None
    /\ ar_q = None
    /\ Len(r_q) = IF place = "queue" THEN 1 ELSE 0
    /\ Len(r) = IF place = "answer" THEN 1 ELSE 0
    /\ InPort(rvalid) = IF place = "port" THEN 1 ELSE 0

(* The same for a write, whose address and data go together. *)
WriteIn(place) ==
    /\ aw = IF place = "channel" THEN <<mem_addr>> ELSE None
    /\ w = IF place = "channel" THEN <<Request>> ELSE None
    /\ aw_q = None /\ w_q = None
    /\ Len(b_q) = IF place = "queue" THEN 1 ELSE 0
    /\ Len(b) = IF place = "answer" THEN 1 ELSE 0
    /\ InPort(bvalid) = IF place = "port" THEN 1 ELSE 0

BeatIn(place) ==
    /\ ReadIn(IF Reading THEN place ELSE "none")
    /\ WriteIn(IF Writing THEN place ELSE "none")

(* Where the calls of the loop have brought the beat of a request that was   *)
(* acknowledged at the last edge, and of one acknowledged at the edge before.*)
NewPlace == IF pc \in {"irq", "input", "done"} THEN "channel"
            ELSE IF pc = "post" THEN "answer" ELSE "queue"
OldPlace == IF pc \in {"output", "post"} THEN "port" ELSE "answer"

Acked    == ack_arvalid \/ ack_awvalid
Underway == mem_valid /\ Acked /\ ~xfer_done

(* Edges that the second word of an instruction waits to be offered. *)
Extra == IF mem_instr THEN 1 ELSE 0

(* The acknowledge bits are those of the request there is, xfer_done         *)
(* outlasts a transfer only for a second word, and before the loop nothing   *)
(* is acknowledged.                                                          *)
Handshake ==
    /\ mem_instr => mem_wstrb = {}
    /\ ack_awvalid = ack_wvalid
    /\ mem_valid => (ack_arvalid => Reading) /\ (ack_awvalid => Writing)
    /\ mem_valid /\ xfer_done => ack_arvalid /\ mem_instr /\ waited = 0
    /\ mem_valid => started
    /\ pc = "boot" => /\ ~Acked /\ ~xfer_done /\ ~rvalid /\ ~bvalid
                      /\ evals < BootEdges /\ waited = 0
    /\ pc = "input" => ~simulation_passed

Beat ==
    \/ /\ ~Underway /\ BeatIn("none")
       /\ waited <= IF mem_valid THEN Extra ELSE 0
    \/ /\ Underway /\ BeatIn(NewPlace) /\ pc # "boot"
       /\ waited <= 1 + Extra
    \/ /\ Underway /\ BeatIn(OldPlace) /\ pc # "boot"
       /\ waited <= 2 + Extra

(* The counter is ahead of the edges between the call of IrqDriver and the   *)
(* edge, and the lines raised are those of the edge to come.                 *)
Ahead == pc \in {"input", "pre", "output", "post", "killed"}
Lines == {k \in {4, 5} : \/ k = 4 /\ edges % IrqPeriod = IrqPeriod - 1
                         \/ k = 5 /\ edges = IrqWrap - 1}

IrqInv ==
    /\ counter = IF Ahead THEN (edges + 1) % IrqWrap ELSE edges
    /\ Ahead => irq = Lines
    /\ pc \in {"output", "post"} => irq_port = irq

BenchInv == TypeOK /\ Handshake /\ Beat

-----------------------------------------------------------------------------
(* Type correctness. *)

(* A clock edge leaves the core's and the adapter's registers with their     *)
(* types.                                                                    *)
LEMMA EvalType ==
    ASSUME DutTypeOK, NEW resetn \in BOOLEAN, NEW arready \in BOOLEAN,
           NEW awready \in BOOLEAN, NEW wready \in BOOLEAN,
           Eval(resetn, arready, awready, wready)
    PROVE  DutTypeOK'
<1> USE PicoAssumption, PayloadAssumption
<1>1. mem_ready \in BOOLEAN
  BY DEF DutTypeOK, mem_ready
<1>2. /\ mem_valid' \in BOOLEAN /\ mem_instr' \in BOOLEAN /\ mem_addr' \in Addr
      /\ mem_wdata' \in Word /\ mem_wstrb' \in Strobe
      /\ mem_la_secondword' \in BOOLEAN /\ trap' \in BOOLEAN /\ started' \in BOOLEAN
  <2>1. CoreEdge(resetn, mem_ready) /\ {} \in Strobe
    BY DEF Eval, Strobe
  <2> QED BY <1>1, <2>1 DEF CoreEdge, DutTypeOK, WData, nativeVars, Hold, Idle, IssueRead,
                            IssueWrite, EndTransfer, SecondWord
<1>3. /\ ack_awvalid' \in BOOLEAN /\ ack_arvalid' \in BOOLEAN
      /\ ack_wvalid' \in BOOLEAN /\ xfer_done' \in BOOLEAN
  BY DEF Eval, AdapterEdge, DutTypeOK
<1>4. seen' \in Word /\ rvalid' \in BOOLEAN /\ rdata' \in Word /\ bvalid' \in BOOLEAN
  BY DEF Eval, DutTypeOK, portVars
<1> QED BY <1>2, <1>3, <1>4 DEF DutTypeOK

(* The state the simulation starts in has the right types. *)
LEMMA InitType == Init => TypeOK
<1> SUFFICES ASSUME Init PROVE TypeOK
  OBVIOUS
<1>1. AxiTypeOK
  BY AxiInitType DEF Init
<1>2. DutTypeOK
  <2>1. Zero \in Word /\ {} \in Strobe
    BY PayloadAssumption DEF Zero, Word, Strobe
  <2> QED BY <2>1, PicoAssumption DEF Init, DutInit, DutTypeOK
<1>3. IrqWrap \in Nat \ {0} /\ 0 \in 0 .. IrqWrap - 1
  BY IrqAssumption
<1> QED BY <1>1, <1>2, <1>3 DEF Init, TypeOK, BootEdges

(* Pre keeps the types. *)
LEMMA PreType == TypeOK /\ Pre => TypeOK'
<1> SUFFICES ASSUME TypeOK, Pre PROVE TypeOK'
  OBVIOUS
<1>1. r \in Optional(Word) /\ b \in Optional({Response}) /\ rdata \in Word
  BY DEF TypeOK, AxiTypeOK, DutTypeOK
<1>2. \A T : None \in Optional(T)
  BY DEF None, Optional
<1>3. rdata' \in Word
  <2>1. r = None \/ \E x \in Word : r = <<x>>
    BY <1>1, OptionalEmptyOrOne
  <2> QED BY <1>1, <2>1 DEF Pre, RdataPort
<1>4. r' \in Optional(Word) /\ b' \in Optional({Response})
  BY <1>1, <1>2 DEF Pre, AfterHandshake
<1>5. AxiTypeOK'
  BY <1>4 DEF Pre, TypeOK, AxiTypeOK, memVars
<1>6. DutTypeOK'
  <2>1. rvalid' \in BOOLEAN /\ bvalid' \in BOOLEAN
    BY DEF Pre
  <2> QED BY <1>3, <2>1 DEF Pre, TypeOK, DutTypeOK, coreVars, nativeVars, adapterVars
<1> QED BY <1>5, <1>6 DEF Pre, TypeOK, histVars

(* Post keeps the types: a channel is only filled when it is empty. *)
LEMMA PostType == TypeOK /\ Post => TypeOK'
<1> SUFFICES ASSUME TypeOK, Post PROVE TypeOK'
  OBVIOUS
<1>1. DutTypeOK'
  BY EvalType DEF Post, TypeOK
<1>2. ar' \in Optional(Addr) /\ aw' \in Optional(Addr)
  <2>1. <<mem_addr'>> \in Optional(Addr)
    BY <1>1, OptionalSingleton DEF DutTypeOK
  <2> QED BY <2>1 DEF Post, TypeOK, AxiTypeOK
<1>3. w' \in Optional(WData)
  <2>1. [data |-> mem_wdata', strb |-> mem_wstrb'] \in WData
    BY <1>1 DEF DutTypeOK, WData
  <2>2. <<[data |-> mem_wdata', strb |-> mem_wstrb']>> \in Optional(WData)
    BY <2>1, OptionalSingleton
  <2> QED BY <2>2 DEF Post, TypeOK, AxiTypeOK
<1>4. edges' \in 0 .. IrqWrap - 1 /\ waited' \in Nat
  BY IrqAssumption DEF Post, TypeOK
<1> QED BY <1>1, <1>2, <1>3, <1>4 DEF Post, TypeOK, AxiTypeOK, memVars, irqVars

(* Every step keeps the types, as long as the constructor has edges left. *)
LEMMA TypeStep == TypeOK /\ Handshake /\ [Next]_vars => TypeOK'
<1> SUFFICES ASSUME TypeOK, Handshake, [Next]_vars PROVE TypeOK'
  OBVIOUS
<1>1. CASE Boot
  <2>1. DutTypeOK'
    <3>1. Resetn(evals) \in BOOLEAN
      BY DEF Resetn
    <3> QED BY <1>1, <3>1, EvalType DEF Boot, TypeOK
  <2>2. evals' \in 0 .. BootEdges
    BY <1>1 DEF Boot, TypeOK, Handshake, BootEdges
  <2> QED BY <1>1, <2>1, <2>2 DEF Boot, TypeOK, AxiTypeOK, chanVars, memVars, irqVars,
                                  histVars
<1>2. CASE Irq
  <2>1. counter' \in 0 .. IrqWrap - 1 /\ irq' \subseteq {4, 5}
    BY <1>2, IrqAssumption DEF Irq, IrqMain, TypeOK
  <2> QED BY <1>2, <2>1 DEF Irq, TypeOK, AxiTypeOK, DutTypeOK, chanVars, memVars, coreVars,
                            nativeVars, adapterVars, portVars, histVars
<1>3. CASE Leave \/ Killed
  <2>1. pc' \in {"done", "killed"}
    BY <1>3 DEF Leave, Killed
  <2>2. UNCHANGED <<chanVars, memVars, coreVars, adapterVars, portVars, evals, irqVars, histVars>>
    BY <1>3 DEF Leave, Killed
  <2> QED BY <2>1, <2>2 DEF TypeOK, AxiTypeOK, DutTypeOK, chanVars, memVars, coreVars,
                            nativeVars, adapterVars, portVars, irqVars, histVars
<1>4. CASE Input
  <2>1. AxiTypeOK'
    BY <1>4, InputAndExecType DEF Input, TypeOK
  <2> QED BY <1>4, <2>1 DEF Input, TypeOK, DutTypeOK, coreVars, nativeVars, adapterVars,
                            portVars, irqVars, histVars
<1>5. CASE Output
  <2>1. AxiTypeOK'
    BY <1>5, OutputType DEF Output, TypeOK
  <2> QED BY <1>5, <2>1 DEF Output, TypeOK, DutTypeOK, coreVars, nativeVars, adapterVars,
                            portVars, irqVars, histVars
<1>6. CASE UNCHANGED vars
  BY <1>6 DEF vars, TypeOK, AxiTypeOK, DutTypeOK, chanVars, memVars, coreVars, nativeVars,
              adapterVars, portVars, irqVars, histVars
<1> QED BY <1>1, <1>2, <1>3, <1>4, <1>5, <1>6, PreType, PostType DEF Next, Terminated

-----------------------------------------------------------------------------
(* What the calls do to the one beat there is. *)

(* A port's request changes only at the end of a transfer or between two, and *)
(* stays up at the end of one only for the second word of an instruction.    *)
LEMMA CoreStep ==
    ASSUME DutTypeOK, mem_valid => started, mem_instr => mem_wstrb = {},
           NEW resetn \in BOOLEAN, CoreEdge(resetn, mem_ready)
    PROVE  /\ mem_valid' => started'
           /\ mem_instr' => mem_wstrb' = {}
           /\ resetn /\ mem_valid /\ ~mem_ready => mem_valid' /\ UNCHANGED nativeVars
           /\ mem_valid /\ mem_ready /\ mem_valid' =>
                 /\ mem_instr /\ mem_instr' /\ mem_wstrb' = {}
                 /\ mem_addr' \in LoadAddr
           /\ ~mem_valid /\ mem_valid' =>
                 \/ mem_wstrb' = {} /\ mem_addr' \in LoadAddr
                 \/ /\ mem_addr' \in StoreAddr
                    /\ \E wd \in StoreData : mem_wdata' = wd.data /\ mem_wstrb' = wd.strb
           /\ ~resetn => ~mem_valid'
<1>1. mem_ready \in BOOLEAN /\ mem_valid \in BOOLEAN /\ started \in BOOLEAN
  BY DEF DutTypeOK, mem_ready
<1>2. CASE ~resetn
  BY <1>1, <1>2 DEF CoreEdge
<1>3. CASE resetn /\ trap
  <2>1. /\ mem_valid' = (mem_valid /\ ~mem_ready) /\ started' = (started \/ ~resetn)
        /\ UNCHANGED <<mem_instr, mem_addr, mem_wdata, mem_wstrb>>
    BY <1>3 DEF CoreEdge
  <2>2. CASE mem_valid /\ ~mem_ready
    <3>1. mem_valid' = mem_valid
      BY <1>1, <2>1, <2>2
    <3> QED BY <1>3, <2>1, <2>2, <3>1 DEF nativeVars
  <2>3. CASE ~(mem_valid /\ ~mem_ready)
    BY <1>3, <2>1, <2>3
  <2> QED BY <2>2, <2>3
<1>4. CASE resetn /\ ~trap /\ ~started
  BY <1>1, <1>4 DEF CoreEdge, nativeVars
<1>5. CASE resetn /\ ~trap /\ started
  <2>1. started'
    <3>1. started' = (started \/ ~resetn)
      BY DEF CoreEdge
    <3> QED BY <1>5, <3>1
  <2>2. \/ Hold(mem_ready) \/ Idle \/ IssueRead \/ IssueWrite
        \/ EndTransfer(mem_ready) \/ SecondWord(mem_ready)
    BY <1>5 DEF CoreEdge
  <2>3. CASE Hold(mem_ready)
    BY <1>5, <2>1, <2>3 DEF Hold, nativeVars
  <2>4. CASE Idle
    BY <1>5, <2>1, <2>4 DEF Idle
  <2>5. CASE IssueRead \/ IssueWrite
    BY <1>5, <2>1, <2>5 DEF IssueRead, IssueWrite
  <2>6. CASE EndTransfer(mem_ready) \/ SecondWord(mem_ready)
    BY <1>5, <2>1, <2>6 DEF EndTransfer, SecondWord
  <2> QED BY <2>2, <2>3, <2>4, <2>5, <2>6
<1> QED BY <1>2, <1>3, <1>4, <1>5

(* A sequence without elements is empty, one with one is that. *)
LEMMA ShortSeq ==
    ASSUME NEW T, NEW s \in Seq(T)
    PROVE  /\ Len(s) = 0 <=> s = None
           /\ Len(s) = 1 => s[1] \in T /\ s = <<s[1]>>
           /\ Len(None) = 0 /\ \A x : Len(<<x>>) = 1
<1>1. Len(s) = 0 <=> s = None
  BY EmptySeq DEF None
<1>2. Len(s) = 1 => s[1] \in T /\ s = <<s[1]>>
  OBVIOUS
<1> QED BY <1>1, <1>2 DEF None

(* HandleInputAndExec without a read. *)
LEMMA InputNoRead ==
    ASSUME ar = None, ar_q = None, HandleInputAndExec
    PROVE  UNCHANGED <<ar, ar_q, r_q, r>>
<1>1. ArIn = <<ar, ar_q>>
  BY DEF ArIn, OptionalToQueue
<1>2. ~CanRead(ar_q)
  BY DEF CanRead, None
<1> QED BY <1>1, <1>2 DEF HandleInputAndExec, Exec_, ExecRead

(* HandleInputAndExec with a read and the queues empty. *)
LEMMA InputOneRead ==
    ASSUME AxiTypeOK, NEW a \in Addr, ar = <<a>>, ar_q = None, Len(r_q) = 0,
           HandleInputAndExec
    PROVE  /\ ar' = None /\ ar_q' = None /\ r' = r
           /\ \E data \in LoadResults(memory_space, a) : r_q' = <<data>>
<1>1. ReqCap \in Nat \ {0} /\ RspCap \in Nat \ {0}
  BY AxiAssumption
<1>2. ar # None /\ Len(ar_q) < ReqCap /\ ar_q \o ar = <<a>>
  BY <1>1 DEF None
<1>3. ArIn = <<None, <<a>>>>
  BY <1>2 DEF ArIn, OptionalToQueue
<1>4. CanRead(<<a>>)
  BY <1>1 DEF CanRead
<1>5. r_q = None
  BY ShortSeq DEF AxiTypeOK, Queue
<1>6. ExecRead(<<a>>) /\ ar' = None /\ r' = r
  BY <1>3 DEF HandleInputAndExec, Exec_
<1>7. PICK data \in LoadResults(memory_space, Head(<<a>>)) : r_q' = Append(r_q, data)
  BY <1>4, <1>6 DEF ExecRead
<1>8. ar_q' = Tail(<<a>>)
  BY <1>4, <1>6 DEF ExecRead
<1>9. Append(None, data) = <<data>> /\ Head(<<a>>) = a /\ Tail(<<a>>) = None
  BY DEF None
<1> QED BY <1>5, <1>6, <1>7, <1>8, <1>9

(* HandleInputAndExec without a write. *)
LEMMA InputNoWrite ==
    ASSUME aw = None, w = None, aw_q = None, w_q = None, HandleInputAndExec
    PROVE  UNCHANGED <<aw, w, aw_q, w_q, b_q, b, memory_space, simulation_passed>>
<1>1. AwIn = <<aw, aw_q>> /\ WIn = <<w, w_q>>
  BY DEF AwIn, WIn, OptionalToQueue
<1>2. ~CanWrite(aw_q, w_q)
  BY DEF CanWrite, None
<1> QED BY <1>1, <1>2 DEF HandleInputAndExec, Exec_, ExecWrite

(* HandleInputAndExec with a write and the queues empty. *)
LEMMA InputOneWrite ==
    ASSUME AxiTypeOK, NEW a \in Addr, NEW d \in WData, aw = <<a>>, w = <<d>>,
           aw_q = None, w_q = None, Len(b_q) = 0, HandleInputAndExec
    PROVE  /\ aw' = None /\ w' = None /\ aw_q' = None /\ w_q' = None /\ b' = b
           /\ b_q' = <<Response>>
           /\ memory_space' = Store(memory_space, a, d)
           /\ simulation_passed' = (simulation_passed \/ a = ExitAddr)
<1>1. ReqCap \in Nat \ {0} /\ RspCap \in Nat \ {0}
  BY AxiAssumption
<1>2. /\ aw # None /\ Len(aw_q) < ReqCap /\ aw_q \o aw = <<a>>
      /\ w # None /\ Len(w_q) < ReqCap /\ w_q \o w = <<d>>
  BY <1>1 DEF None
<1>3. AwIn = <<None, <<a>>>> /\ WIn = <<None, <<d>>>>
  BY <1>2 DEF AwIn, WIn, OptionalToQueue
<1>4. CanWrite(<<a>>, <<d>>)
  BY <1>1 DEF CanWrite
<1>5. b_q = None
  BY ShortSeq DEF AxiTypeOK, Queue
<1>6. ExecWrite(<<a>>, <<d>>) /\ aw' = None /\ w' = None /\ b' = b
  BY <1>3 DEF HandleInputAndExec, Exec_
<1>7. /\ memory_space' = Store(memory_space, Head(<<a>>), Head(<<d>>))
      /\ simulation_passed' = (simulation_passed \/ Head(<<a>>) = ExitAddr)
      /\ b_q' = Append(b_q, Response)
      /\ aw_q' = Tail(<<a>>) /\ w_q' = Tail(<<d>>)
  BY <1>4, <1>6 DEF ExecWrite
<1>8. /\ Append(None, Response) = <<Response>>
      /\ \A x : Head(<<x>>) = x /\ Tail(<<x>>) = None
  BY DEF None
<1> QED BY <1>5, <1>6, <1>7, <1>8

(* HandleOutput takes the only beat of a channel from the queue, if it is    *)
(* there.                                                                    *)
LEMMA OutputBeat ==
    ASSUME NEW T, NEW dq \in Seq(T), NEW opt \in Seq(T), Len(dq) + Len(opt) <= 1
    PROVE  /\ Len(dq) = 1 => QueueToOptional(dq, opt) = <<None, dq>>
           /\ Len(dq) = 0 => QueueToOptional(dq, opt) = <<dq, opt>>
<1>1. CASE Len(dq) = 1
  <2>1. dq = <<dq[1]>> /\ dq # << >>
    BY <1>1, ShortSeq
  <2>2. opt = None
    BY <1>1, ShortSeq, LenProperties
  <2>3. Tail(<<dq[1]>>) = None /\ Head(<<dq[1]>>) = dq[1]
    BY DEF None
  <2> QED BY <1>1, <2>1, <2>2, <2>3 DEF QueueToOptional
<1>2. CASE Len(dq) = 0
  <2>1. dq = None
    BY <1>2, ShortSeq
  <2> QED BY <1>2, <2>1 DEF QueueToOptional, None
<1>3. CASE Len(dq) # 1 /\ Len(dq) # 0
  BY <1>3
<1> QED BY <1>1, <1>2, <1>3
(* Input: a request goes from its channel into the queue of answers. *)
LEMMA InputMoves ==
    ASSUME TypeOK, Input, NEW p \in {"none", "channel", "answer"}
    PROVE  /\ ReadIn(p) => ReadIn(IF p = "channel" THEN "queue" ELSE p)'
           /\ WriteIn(p) => WriteIn(IF p = "channel" THEN "queue" ELSE p)'
<1>1. /\ AxiTypeOK /\ HandleInputAndExec /\ mem_addr \in Addr /\ Request \in WData
      /\ UNCHANGED <<mem_addr, mem_wdata, mem_wstrb, rvalid, bvalid>>
  BY DEF Input, TypeOK, DutTypeOK, Request, WData, coreVars, nativeVars, portVars
<1>2. InPort(rvalid)' = 0 /\ InPort(bvalid)' = 0
  BY DEF Input, InPort
<1>3. InPort(rvalid) = 0 /\ InPort(bvalid) = 0
  BY DEF Input, InPort
<1>4. ASSUME ReadIn(p) PROVE ReadIn(IF p = "channel" THEN "queue" ELSE p)'
  <2>1. CASE p = "channel"
    <3>1. ar = <<mem_addr>> /\ ar_q = None /\ Len(r_q) = 0 /\ Len(r) = 0
      BY <1>4, <2>1 DEF ReadIn
    <3>2. ar' = None /\ ar_q' = None /\ r' = r /\ \E data : r_q' = <<data>>
      BY <1>1, <3>1, InputOneRead
    <3> QED BY <1>2, <2>1, <3>1, <3>2 DEF ReadIn
  <2>2. CASE p # "channel"
    <3>1. ar = None /\ ar_q = None
      BY <1>4, <2>2 DEF ReadIn
    <3>2. UNCHANGED <<ar, ar_q, r_q, r>>
      BY <1>1, <3>1, InputNoRead
    <3> QED BY <1>2, <1>3, <1>4, <2>2, <3>2 DEF ReadIn
  <2> QED BY <2>1, <2>2
<1>5. ASSUME WriteIn(p) PROVE WriteIn(IF p = "channel" THEN "queue" ELSE p)'
  <2>1. CASE p = "channel"
    <3>1. /\ aw = <<mem_addr>> /\ w = <<Request>> /\ aw_q = None /\ w_q = None
          /\ Len(b_q) = 0 /\ Len(b) = 0
      BY <1>5, <2>1 DEF WriteIn
    <3>2. /\ aw' = None /\ w' = None /\ aw_q' = None /\ w_q' = None /\ b' = b
          /\ b_q' = <<Response>>
      BY <1>1, <3>1, InputOneWrite
    <3> QED BY <1>2, <2>1, <3>1, <3>2 DEF WriteIn
  <2>2. CASE p # "channel"
    <3>1. aw = None /\ w = None /\ aw_q = None /\ w_q = None
      BY <1>5, <2>2 DEF WriteIn
    <3>2. UNCHANGED <<aw, w, aw_q, w_q, b_q, b>>
      BY <1>1, <3>1, InputNoWrite
    <3> QED BY <1>2, <1>3, <1>5, <2>2, <3>2 DEF WriteIn
  <2> QED BY <2>1, <2>2
<1> QED BY <1>4, <1>5

(* Pre: an answer on its channel is put on the device's port. *)
LEMMA PreMoves ==
    ASSUME TypeOK, Pre, NEW p \in {"none", "queue", "answer"}
    PROVE  /\ ReadIn(p) /\ (p = "answer" => Reading)
                => ReadIn(IF p = "answer" THEN "port" ELSE p)'
           /\ WriteIn(p) /\ (p = "answer" => Writing)
                => WriteIn(IF p = "answer" THEN "port" ELSE p)'
<1>1. /\ r \in Seq(Word) /\ b \in Seq({Response})
      /\ UNCHANGED <<ar, aw, w, ar_q, aw_q, w_q, r_q, b_q, mem_addr, mem_wdata, mem_wstrb>>
  BY DEF Pre, TypeOK, AxiTypeOK, Optional, memVars, coreVars, nativeVars
<1>2. /\ rvalid' = (r # None) /\ bvalid' = (b # None) /\ pc' = "output" /\ pc = "pre"
      /\ r' = AfterHandshake(r # None, Reading, r)
      /\ b' = AfterHandshake(b # None, Writing, b)
  BY DEF Pre
<1>3. /\ Len(r) = 0 <=> r = None
      /\ Len(b) = 0 <=> b = None
      /\ Len(None) = 0
  BY <1>1, ShortSeq
<1>4. /\ InPort(rvalid)' = IF r # None THEN 1 ELSE 0
      /\ InPort(bvalid)' = IF b # None THEN 1 ELSE 0
  BY <1>2 DEF InPort
<1>5. ASSUME ReadIn(p), p = "answer" => Reading
      PROVE  ReadIn(IF p = "answer" THEN "port" ELSE p)'
  BY <1>1, <1>2, <1>3, <1>4, <1>5 DEF ReadIn, AfterHandshake
<1>6. ASSUME WriteIn(p), p = "answer" => Writing
      PROVE  WriteIn(IF p = "answer" THEN "port" ELSE p)'
  BY <1>1, <1>2, <1>3, <1>4, <1>6 DEF WriteIn, Request, AfterHandshake
<1> QED BY <1>5, <1>6

(* Output: an answer goes from the queue to its channel. *)
LEMMA OutputMoves ==
    ASSUME TypeOK, Output, NEW p \in {"none", "queue", "port"}
    PROVE  /\ ReadIn(p) => ReadIn(IF p = "queue" THEN "answer" ELSE p)'
           /\ WriteIn(p) => WriteIn(IF p = "queue" THEN "answer" ELSE p)'
<1>1. /\ r \in Seq(Word) /\ b \in Seq({Response})
      /\ r_q \in Seq(Word) /\ b_q \in Seq({Response}) /\ Len(None) = 0
  BY DEF TypeOK, AxiTypeOK, Optional, Queue, None
<1>2. /\ r_q' = ROut[1] /\ r' = ROut[2] /\ b_q' = BOut[1] /\ b' = BOut[2]
      /\ UNCHANGED <<ar, aw, w, ar_q, aw_q, w_q, mem_addr, mem_wdata, mem_wstrb,
                     rvalid, bvalid>>
  BY DEF Output, HandleOutput, coreVars, nativeVars, portVars
<1>3. InPort(rvalid)' = InPort(rvalid) /\ InPort(bvalid)' = InPort(bvalid)
  BY <1>2 DEF Output, InPort
<1>4. ASSUME ReadIn(p) PROVE ReadIn(IF p = "queue" THEN "answer" ELSE p)'
  <2>1. Len(r_q) + Len(r) <= 1
    BY <1>4 DEF ReadIn
  <2>2. /\ Len(r_q) = 1 => ROut = <<None, r_q>>
        /\ Len(r_q) = 0 => ROut = <<r_q, r>>
    BY <1>1, <2>1, OutputBeat DEF ROut
  <2>3. CASE p = "queue"
    <3>1. r_q' = None /\ r' = r_q /\ Len(r_q) = 1
      BY <1>2, <1>4, <2>2, <2>3 DEF ReadIn
    <3> QED BY <1>1, <1>2, <1>3, <1>4, <2>3, <3>1 DEF ReadIn
  <2>4. CASE p # "queue"
    <3>1. r_q' = r_q /\ r' = r
      BY <1>2, <1>4, <2>2, <2>4 DEF ReadIn
    <3> QED BY <1>2, <1>3, <1>4, <2>4, <3>1 DEF ReadIn
  <2> QED BY <2>3, <2>4
<1>5. ASSUME WriteIn(p) PROVE WriteIn(IF p = "queue" THEN "answer" ELSE p)'
  <2>1. Len(b_q) + Len(b) <= 1
    BY <1>5 DEF WriteIn
  <2>2. /\ Len(b_q) = 1 => BOut = <<None, b_q>>
        /\ Len(b_q) = 0 => BOut = <<b_q, b>>
    BY <1>1, <2>1, OutputBeat DEF BOut
  <2>3. CASE p = "queue"
    <3>1. b_q' = None /\ b' = b_q /\ Len(b_q) = 1
      BY <1>2, <1>5, <2>2, <2>3 DEF WriteIn
    <3> QED BY <1>1, <1>2, <1>3, <1>5, <2>3, <3>1 DEF WriteIn, Request
  <2>4. CASE p # "queue"
    <3>1. b_q' = b_q /\ b' = b
      BY <1>2, <1>5, <2>2, <2>4 DEF WriteIn
    <3> QED BY <1>2, <1>3, <1>5, <2>4, <3>1 DEF WriteIn, Request
  <2> QED BY <2>3, <2>4
<1> QED BY <1>4, <1>5

-----------------------------------------------------------------------------
(* The invariant is kept. *)

dutVars == <<coreVars, adapterVars, waited>>

(* Input, Pre and Output move the beat, and nothing else. *)
LEMMA CallsKeepBeat ==
    ASSUME TypeOK, Beat, Input \/ Pre \/ Output
    PROVE  Beat'
<1>1. UNCHANGED dutVars
  BY DEF Input, Pre, Output, dutVars, histVars
<1>2. /\ Reading' = Reading /\ Writing' = Writing /\ Underway' = Underway
      /\ Extra' = Extra /\ waited' = waited /\ mem_valid' = mem_valid
  BY <1>1 DEF dutVars, coreVars, nativeVars, adapterVars, Reading, Writing, Underway, Acked,
              Extra
<1>3. pc \in {"input", "pre", "output"} /\ pc # "boot" /\ pc' # "boot"
  BY DEF Input, Pre, Output
<1>4. BeatIn("none") => BeatIn("none")'
  <2>1. CASE Input
    BY <1>2, <2>1, InputMoves DEF BeatIn
  <2>2. CASE Pre
    BY <1>2, <2>2, PreMoves DEF BeatIn
  <2>3. CASE Output
    BY <1>2, <2>3, OutputMoves DEF BeatIn
  <2> QED BY <2>1, <2>2, <2>3
<1>5. BeatIn(NewPlace) => BeatIn(NewPlace)'
  <2>1. CASE Input
    <3>1. NewPlace = "channel" /\ NewPlace' = "queue"
      BY <2>1 DEF Input, NewPlace
    <3>2. BeatIn("channel") => BeatIn("queue")'
      BY <1>2, <2>1, InputMoves DEF BeatIn
    <3> QED BY <3>1, <3>2 DEF BeatIn, ReadIn, WriteIn
  <2>2. CASE Pre
    <3>1. NewPlace = "queue" /\ NewPlace' = "queue"
      BY <2>2 DEF Pre, NewPlace
    <3>2. BeatIn("queue") => BeatIn("queue")'
      BY <1>2, <2>2, PreMoves DEF BeatIn
    <3> QED BY <3>1, <3>2 DEF BeatIn, ReadIn, WriteIn
  <2>3. CASE Output
    <3>1. NewPlace = "queue" /\ NewPlace' = "answer"
      BY <2>3 DEF Output, NewPlace
    <3>2. BeatIn("queue") => BeatIn("answer")'
      BY <1>2, <2>3, OutputMoves DEF BeatIn
    <3> QED BY <3>1, <3>2 DEF BeatIn, ReadIn, WriteIn
  <2> QED BY <2>1, <2>2, <2>3
<1>6. BeatIn(OldPlace) => BeatIn(OldPlace)'
  <2>1. CASE Input
    <3>1. OldPlace = "answer" /\ OldPlace' = "answer"
      BY <2>1 DEF Input, OldPlace
    <3>2. BeatIn("answer") => BeatIn("answer")'
      BY <1>2, <2>1, InputMoves DEF BeatIn
    <3> QED BY <3>1, <3>2 DEF BeatIn, ReadIn, WriteIn
  <2>2. CASE Pre
    <3>1. OldPlace = "answer" /\ OldPlace' = "port"
      BY <2>2 DEF Pre, OldPlace
    <3>2. BeatIn("answer") => BeatIn("port")'
      BY <1>2, <2>2, PreMoves DEF BeatIn
    <3> QED BY <3>1, <3>2 DEF BeatIn, ReadIn, WriteIn
  <2>3. CASE Output
    <3>1. OldPlace = "port" /\ OldPlace' = "port"
      BY <2>3 DEF Output, OldPlace
    <3>2. BeatIn("port") => BeatIn("port")'
      BY <1>2, <2>3, OutputMoves DEF BeatIn
    <3> QED BY <3>1, <3>2 DEF BeatIn, ReadIn, WriteIn
  <2> QED BY <2>1, <2>2, <2>3
<1> QED BY <1>2, <1>3, <1>4, <1>5, <1>6 DEF Beat

(* What a clock edge of the loop does to the handshake, when it finds the    *)
(* channels the device could fill empty.                                     *)
LEMMA EdgeStep ==
    ASSUME TypeOK, Handshake, Post, aw = None <=> w = None
    PROVE  /\ mem_valid' => started'
           /\ mem_instr' => mem_wstrb' = {}
           /\ mem_valid /\ ~mem_ready => mem_valid' /\ UNCHANGED nativeVars
           /\ mem_valid /\ mem_ready /\ mem_valid' =>
                 mem_instr /\ mem_instr' /\ mem_wstrb' = {}
           /\ xfer_done' = (mem_valid /\ mem_ready)
           /\ ack_arvalid' = (~ClearAcks /\ (ack_arvalid \/ (ar = None /\ arvalid)))
           /\ ack_awvalid' = (~ClearAcks /\ (ack_awvalid \/ (aw = None /\ awvalid)))
           /\ ack_wvalid' = ack_awvalid'
           /\ waited' = IF mem_valid /\ ~mem_ready THEN waited + 1 ELSE 0
<1>1. Eval(TRUE, ar = None, aw = None, w = None)
  BY DEF Post
<1>2. CoreEdge(TRUE, mem_ready) /\ AdapterEdge(TRUE, ar = None, aw = None, w = None)
  BY <1>1 DEF Eval
<1>3. DutTypeOK /\ (mem_valid => started) /\ (mem_instr => mem_wstrb = {})
  BY DEF TypeOK, Handshake
<1>4. /\ mem_valid' => started'
      /\ mem_instr' => mem_wstrb' = {}
      /\ mem_valid /\ ~mem_ready => mem_valid' /\ UNCHANGED nativeVars
      /\ mem_valid /\ mem_ready /\ mem_valid' =>
            mem_instr /\ mem_instr' /\ mem_wstrb' = {}
  BY <1>2, <1>3, CoreStep
<1>5. /\ xfer_done' = (mem_valid /\ mem_ready)
      /\ ack_arvalid' = (~ClearAcks /\ (ack_arvalid \/ (ar = None /\ arvalid)))
      /\ ack_awvalid' = (~ClearAcks /\ (ack_awvalid \/ (aw = None /\ awvalid)))
      /\ ack_wvalid' = (~ClearAcks /\ (ack_wvalid \/ (w = None /\ wvalid)))
  BY <1>2 DEF AdapterEdge
<1>6. ack_wvalid' = ack_awvalid'
  BY <1>5 DEF Handshake, awvalid, wvalid
<1> QED BY <1>4, <1>5, <1>6 DEF Post

(* Nothing is in the queues and nothing left on the channels after an edge   *)
(* that hands nothing over.                                                  *)
LEMMA EdgeMoves ==
    ASSUME TypeOK, Post, NEW p \in {"none", "answer", "port"},
           ~(arvalid /\ ar = None), ~(awvalid /\ aw = None), ~(wvalid /\ w = None)
    PROVE  /\ ReadIn(p) => ReadIn(IF p = "port" THEN "none" ELSE p)'
           /\ WriteIn(p) => WriteIn(IF p = "port" THEN "none" ELSE p)'
<1>1. /\ UNCHANGED <<ar, aw, w, r, b, ar_q, aw_q, w_q, r_q, b_q>> /\ pc' = "irq"
  BY DEF Post, memVars
<1>2. InPort(rvalid)' = 0 /\ InPort(bvalid)' = 0
  BY <1>1 DEF InPort
<1> QED BY <1>1, <1>2 DEF ReadIn, WriteIn

(* Post without a request under way: it is handed over, or there is none, or *)
(* it is a second word, for which the acknowledgement is first taken back.   *)
LEMMA PostKeepsBeatNew ==
    ASSUME TypeOK, Handshake, Post, ~Underway, BeatIn("none"),
           waited <= IF mem_valid THEN Extra ELSE 0
    PROVE  Handshake' /\ Beat'
<1>1. ReadIn("none") /\ WriteIn("none")
  BY DEF BeatIn
<1>2. /\ ar = None /\ aw = None /\ w = None
      /\ InPort(rvalid) = 0 /\ InPort(bvalid) = 0
  BY <1>1 DEF ReadIn, WriteIn
<1>3. pc = "post" /\ pc' = "irq"
  BY DEF Post
<1>4. ~mem_ready
  BY <1>2, <1>3 DEF InPort, mem_ready
<1>5. /\ mem_valid' => started'
      /\ mem_instr' => mem_wstrb' = {}
      /\ mem_valid => mem_valid' /\ UNCHANGED nativeVars
      /\ ~xfer_done'
      /\ ack_arvalid' = (~ClearAcks /\ (ack_arvalid \/ arvalid))
      /\ ack_awvalid' = (~ClearAcks /\ (ack_awvalid \/ awvalid))
      /\ ack_wvalid' = ack_awvalid'
      /\ waited' = IF mem_valid THEN waited + 1 ELSE 0
  BY <1>2, <1>4, EdgeStep
<1>6. waited \in Nat
  BY DEF TypeOK
<1>7. CASE ~mem_valid
  <2>1. ~ack_arvalid' /\ ~ack_awvalid' /\ ~ack_wvalid' /\ waited' = 0
    BY <1>5, <1>7 DEF ClearAcks
  <2>2. ReadIn("none")' /\ WriteIn("none")'
    <3>1. ~arvalid /\ ~awvalid /\ ~wvalid
      BY <1>7 DEF arvalid, awvalid, wvalid, Reading, Writing
    <3> QED BY <1>1, <3>1, EdgeMoves
  <2>3. Beat'
    <3>1. 0 <= (IF mem_valid' THEN Extra' ELSE 0)
      BY DEF Extra
    <3> QED BY <2>1, <2>2, <3>1 DEF Beat, BeatIn, Underway, Acked
  <2>4. Handshake'
    BY <1>3, <1>5, <2>1 DEF Handshake, Acked
  <2> QED BY <2>3, <2>4
<1>8. CASE mem_valid /\ xfer_done
  <2>1. ack_arvalid /\ mem_instr /\ waited = 0 /\ Reading
    BY <1>8 DEF Handshake
  <2>2. ~ack_arvalid' /\ ~ack_awvalid' /\ ~ack_wvalid' /\ waited' = 1
    <3>1. waited' = 1
      BY <1>5, <1>8, <2>1
    <3>2. ~ack_arvalid' /\ ~ack_awvalid' /\ ~ack_wvalid'
      BY <1>5, <1>8 DEF ClearAcks
    <3> QED BY <3>1, <3>2
  <2>3. ReadIn("none")' /\ WriteIn("none")'
    <3>1. ~arvalid /\ ~awvalid /\ ~wvalid
      BY <2>1 DEF arvalid, awvalid, wvalid, Reading, Writing
    <3> QED BY <1>1, <3>1, EdgeMoves
  <2>4. Beat'
    <3>1. mem_instr' /\ mem_valid'
      BY <1>5, <1>8, <2>1 DEF nativeVars
    <3>2. waited' <= IF mem_valid' THEN Extra' ELSE 0
      BY <2>2, <3>1 DEF Extra
    <3> QED BY <2>2, <2>3, <3>2 DEF Beat, BeatIn, Underway, Acked
  <2>5. Handshake'
    BY <1>3, <1>5, <2>2 DEF Handshake, Acked
  <2> QED BY <2>4, <2>5
<1>9. CASE mem_valid /\ ~xfer_done
  <2>1. ~ack_arvalid /\ ~ack_awvalid /\ ~ack_wvalid
    BY <1>9 DEF Underway, Acked, Handshake
  <2>2. /\ mem_valid' /\ UNCHANGED nativeVars /\ Extra' = Extra
        /\ Reading' = Reading /\ Writing' = Writing
    BY <1>5, <1>9 DEF nativeVars, Extra, Reading, Writing
  <2>3. /\ ack_arvalid' = Reading /\ ack_awvalid' = Writing /\ ack_wvalid' = Writing
        /\ arvalid = Reading /\ awvalid = Writing /\ wvalid = Writing
    BY <1>5, <1>9, <2>1 DEF ClearAcks, arvalid, awvalid, wvalid, Reading, Writing
  <2>4. Reading # Writing
    BY <1>9 DEF Reading, Writing
  <2>5. BeatIn("channel")'
    <3>1. /\ ar' = IF Reading THEN <<mem_addr>> ELSE None
          /\ aw' = IF Writing THEN <<mem_addr>> ELSE None
          /\ w' = IF Writing THEN <<Request>> ELSE None
      BY <1>2, <2>2, <2>3 DEF Post, Request, nativeVars
    <3>2. UNCHANGED <<r, b, ar_q, aw_q, w_q, r_q, b_q>>
      BY DEF Post, memVars
    <3>3. InPort(rvalid)' = 0 /\ InPort(bvalid)' = 0
      BY <1>3 DEF InPort
    <3>4. Request' = Request /\ mem_addr' = mem_addr
      BY <2>2 DEF Request, nativeVars
    <3>5. ReadIn(IF Reading THEN "channel" ELSE "none")'
      BY <1>1, <2>2, <3>1, <3>2, <3>3, <3>4 DEF ReadIn
    <3>6. WriteIn(IF Writing THEN "channel" ELSE "none")'
      BY <1>1, <2>2, <3>1, <3>2, <3>3, <3>4 DEF WriteIn
    <3> QED BY <3>5, <3>6 DEF BeatIn
  <2>6. NewPlace' = "channel"
    BY <1>3 DEF NewPlace
  <2>7. waited' <= 1 + Extra'
    BY <1>5, <1>6, <1>9, <2>2 DEF Extra
  <2>8. Underway'
    BY <1>5, <2>2, <2>3, <2>4 DEF Underway, Acked
  <2>9. BeatIn(NewPlace)'
    BY <2>5, <2>6 DEF BeatIn, ReadIn, WriteIn
  <2>10. Handshake'
    BY <1>3, <1>5, <2>2, <2>3, <2>4 DEF Handshake, Acked
  <2> QED BY <1>3, <2>7, <2>8, <2>9, <2>10 DEF Beat
<1> QED BY <1>7, <1>8, <1>9

(* Post while the answer waits for the next Pre: everything is held. *)
LEMMA PostKeepsBeatHeld ==
    ASSUME TypeOK, Handshake, Post, Underway, BeatIn(NewPlace), waited <= 1 + Extra
    PROVE  Handshake' /\ Beat'
<1>1. pc = "post" /\ pc' = "irq" /\ NewPlace = "answer" /\ OldPlace' = "answer"
  BY DEF Post, NewPlace, OldPlace
<1>2. BeatIn("answer")
  BY <1>1 DEF BeatIn, ReadIn, WriteIn
<1>3. ar = None /\ aw = None /\ w = None /\ InPort(rvalid) = 0 /\ InPort(bvalid) = 0
  BY <1>2 DEF BeatIn, ReadIn, WriteIn
<1>4. ~mem_ready /\ mem_valid /\ ~xfer_done /\ Acked
  BY <1>1, <1>3 DEF InPort, mem_ready, Underway
<1>5. /\ mem_valid' => started'
      /\ mem_instr' => mem_wstrb' = {}
      /\ mem_valid' /\ UNCHANGED nativeVars
      /\ ~xfer_done'
      /\ ack_arvalid' = (ack_arvalid \/ arvalid)
      /\ ack_awvalid' = (ack_awvalid \/ awvalid)
      /\ ack_wvalid' = ack_awvalid'
      /\ waited' = waited + 1
  BY <1>3, <1>4, EdgeStep DEF ClearAcks
<1>6. ~arvalid /\ ~awvalid /\ ~wvalid
  BY <1>4 DEF arvalid, awvalid, wvalid, Handshake, Acked, Reading, Writing
<1>7. /\ Reading' = Reading /\ Writing' = Writing /\ Extra' = Extra
      /\ (ack_arvalid' <=> ack_arvalid) /\ (ack_awvalid' <=> ack_awvalid)
  BY <1>5, <1>6 DEF nativeVars, Reading, Writing, Extra
<1>8. BeatIn(OldPlace)'
  <2>1. BeatIn("answer")'
    BY <1>2, <1>6, <1>7, EdgeMoves DEF BeatIn
  <2> QED BY <1>1, <2>1 DEF BeatIn, ReadIn, WriteIn
<1>9. waited' <= 2 + Extra'
  <2>1. waited \in Nat
    BY DEF TypeOK
  <2> QED BY <1>5, <1>7, <2>1 DEF Extra
<1>10. Underway'
  BY <1>4, <1>5, <1>7 DEF Underway, Acked
<1>11. Handshake'
  BY <1>1, <1>4, <1>5, <1>7 DEF Handshake, Acked
<1> QED BY <1>1, <1>8, <1>9, <1>10, <1>11 DEF Beat

(* Post with the answer on the port: the transfer ends. *)
LEMMA PostKeepsBeatEnd ==
    ASSUME TypeOK, Handshake, Post, Underway, BeatIn(OldPlace)
    PROVE  Handshake' /\ Beat'
<1>1. pc = "post" /\ pc' = "irq" /\ OldPlace = "port"
  BY DEF Post, OldPlace
<1>2. BeatIn("port")
  BY <1>1 DEF BeatIn, ReadIn, WriteIn
<1>3. mem_valid /\ ~xfer_done /\ Acked /\ (Reading \/ Writing)
  BY DEF Underway, Reading, Writing
<1>4. ar = None /\ aw = None /\ w = None
  BY <1>2 DEF BeatIn, ReadIn, WriteIn
<1>5. mem_ready
  <2>1. CASE Reading
    BY <1>2, <2>1 DEF BeatIn, ReadIn, InPort, mem_ready
  <2>2. CASE Writing
    BY <1>2, <2>2 DEF BeatIn, WriteIn, InPort, mem_ready
  <2> QED BY <1>3, <2>1, <2>2
<1>6. /\ mem_valid' => started'
      /\ mem_instr' => mem_wstrb' = {}
      /\ mem_valid' => mem_instr /\ mem_instr' /\ mem_wstrb' = {}
      /\ xfer_done'
      /\ ack_arvalid' = (ack_arvalid \/ arvalid)
      /\ ack_awvalid' = (ack_awvalid \/ awvalid)
      /\ ack_wvalid' = ack_awvalid'
      /\ waited' = 0
  BY <1>3, <1>4, <1>5, EdgeStep DEF ClearAcks
<1>7. ~arvalid /\ ~awvalid /\ ~wvalid
  BY <1>3 DEF arvalid, awvalid, wvalid, Handshake, Acked, Reading, Writing
<1>8. BeatIn("none")'
  <2>1. ReadIn("port") \/ ReadIn("none")
    BY <1>2 DEF BeatIn
  <2>2. WriteIn("port") \/ WriteIn("none")
    BY <1>2 DEF BeatIn
  <2>3. ReadIn("none")' /\ WriteIn("none")'
    BY <1>7, <2>1, <2>2, EdgeMoves
  <2> QED BY <2>3 DEF BeatIn
<1>9. waited' <= IF mem_valid' THEN Extra' ELSE 0
  BY <1>6 DEF Extra
<1>10. mem_valid' => ack_arvalid' /\ ~ack_awvalid' /\ Reading'
  BY <1>3, <1>6, <1>7 DEF Handshake, Acked, Reading, Writing
<1>11. ~Underway'
  BY <1>6 DEF Underway
<1>12. Handshake'
  BY <1>1, <1>6, <1>10 DEF Handshake, Acked
<1> QED BY <1>8, <1>9, <1>11, <1>12 DEF Beat

(* Every edge of the loop keeps the invariant. *)
LEMMA PostKeeps == TypeOK /\ Handshake /\ Beat /\ Post => Handshake' /\ Beat'
BY PostKeepsBeatNew, PostKeepsBeatHeld, PostKeepsBeatEnd DEF Beat

(* The edges of the constructor, with or without reset, keep the invariant:  *)
(* the device may ask already, and nothing is acknowledged.                  *)
LEMMA BootKeeps == TypeOK /\ Handshake /\ Beat /\ Boot => Handshake' /\ Beat'
<1> SUFFICES ASSUME TypeOK, Handshake, Beat, Boot PROVE Handshake' /\ Beat'
  OBVIOUS
<1>1. /\ pc = "boot" /\ ~Acked /\ ~xfer_done /\ ~rvalid /\ ~bvalid /\ waited = 0
      /\ ~ack_wvalid /\ evals < BootEdges /\ evals \in Nat /\ evals' = evals + 1
      /\ pc' = IF evals' = BootEdges THEN "irq" ELSE "boot"
  BY DEF Boot, Handshake, Acked, TypeOK
<1>2. BeatIn("none")
  BY <1>1 DEF Beat, Underway
<1>3. CoreEdge(Resetn(evals), mem_ready) /\ ~mem_ready /\ Resetn(evals) \in BOOLEAN
  BY <1>1 DEF Boot, Eval, mem_ready, Resetn
<1>4. /\ mem_valid' => started'
      /\ mem_instr' => mem_wstrb' = {}
  <2>1. DutTypeOK /\ (mem_valid => started) /\ (mem_instr => mem_wstrb = {})
    BY DEF TypeOK, Handshake
  <2> QED BY <1>3, <2>1, CoreStep
<1>5. ~ack_arvalid' /\ ~ack_awvalid' /\ ~ack_wvalid' /\ ~xfer_done'
  <2>1. AdapterEdge(Resetn(evals), FALSE, FALSE, FALSE)
    BY DEF Boot, Eval
  <2> QED BY <1>1, <1>3, <2>1 DEF AdapterEdge, Acked
<1>6. /\ UNCHANGED <<ar, aw, w, r, b, ar_q, aw_q, w_q, r_q, b_q, waited, simulation_passed,
                     rvalid, bvalid>>
  BY DEF Boot, Eval, chanVars, memVars, histVars, portVars
<1>7. ReadIn("none")' /\ WriteIn("none")'
  <2>1. InPort(rvalid)' = 0 /\ InPort(bvalid)' = 0
    BY <1>1, <1>6 DEF InPort
  <2> QED BY <1>2, <1>6, <2>1 DEF BeatIn, ReadIn, WriteIn
<1>8. Beat'
  <2>1. waited' <= IF mem_valid' THEN Extra' ELSE 0
    BY <1>1, <1>6 DEF Extra
  <2> QED BY <1>5, <1>7, <2>1 DEF Beat, BeatIn, Underway, Acked
<1>9. Handshake'
  <2>1. pc' # "input" /\ (pc' = "boot" => evals' < BootEdges)
    BY <1>1 DEF BootEdges
  <2>2. ~rvalid' /\ ~bvalid' /\ waited' = 0
    BY <1>1, <1>6
  <2>3. ack_awvalid' = ack_wvalid'
    <3>1. ack_awvalid' \in BOOLEAN /\ ack_wvalid' \in BOOLEAN
      BY TypeStep DEF Next, TypeOK, DutTypeOK
    <3> QED BY <1>5, <3>1
  <2> QED BY <1>4, <1>5, <2>1, <2>2, <2>3 DEF Handshake, Acked
<1> QED BY <1>8, <1>9

(* Every step keeps the invariant. *)
LEMMA BenchStep == BenchInv /\ [Next]_vars => BenchInv'
<1> SUFFICES ASSUME TypeOK, Handshake, Beat, [Next]_vars PROVE Handshake' /\ Beat'
  BY TypeStep DEF BenchInv
<1>1. CASE Input \/ Pre \/ Output
  <2>1. Beat'
    BY <1>1, CallsKeepBeat
  <2>2. UNCHANGED dutVars /\ pc' # "boot" /\ pc' # "input"
    BY <1>1 DEF Input, Pre, Output, dutVars, histVars
  <2>3. Handshake'
    BY <2>2 DEF Handshake, dutVars, coreVars, nativeVars, adapterVars, Acked, Reading, Writing
  <2> QED BY <2>1, <2>3
<1>2. CASE Irq
  <2>1. UNCHANGED <<chanVars, memVars, dutVars, portVars>> /\ pc = "irq" /\ pc' = "input"
    BY <1>2 DEF Irq, dutVars, histVars
  <2>2. Handshake'
    BY <1>2, <2>1 DEF Irq, Handshake, dutVars, coreVars, nativeVars, adapterVars, Acked,
                      Reading, Writing, memVars
  <2>3. Beat'
    <3>1. NewPlace' = NewPlace /\ OldPlace' = OldPlace
      BY <2>1 DEF NewPlace, OldPlace
    <3>2. \A place : BeatIn(place)' <=> BeatIn(place)
      BY <2>1 DEF BeatIn, ReadIn, WriteIn, InPort, Reading, Writing, Request, chanVars, memVars,
                  dutVars, coreVars, nativeVars, portVars
    <3>3. Underway' = Underway /\ Extra' = Extra /\ waited' = waited /\ mem_valid' = mem_valid
      BY <2>1 DEF Underway, Acked, Extra, dutVars, coreVars, nativeVars, adapterVars
    <3> QED BY <2>1, <3>1, <3>2, <3>3 DEF Beat
  <2> QED BY <2>2, <2>3
<1>3. CASE Leave \/ Killed
  <2>1. /\ UNCHANGED <<chanVars, memVars, dutVars, portVars>>
        /\ \/ pc = "irq" /\ pc' = "done"
           \/ pc = "pre" /\ pc' = "killed"
    BY <1>3 DEF Leave, Killed, dutVars, histVars
  <2>2. Handshake'
    BY <2>1 DEF Handshake, dutVars, coreVars, nativeVars, adapterVars, Acked,
                Reading, Writing
  <2>3. Beat'
    <3>1. NewPlace' = NewPlace /\ OldPlace' = OldPlace
      BY <2>1 DEF NewPlace, OldPlace
    <3>2. \A place : BeatIn(place)' <=> BeatIn(place)
      BY <2>1 DEF BeatIn, ReadIn, WriteIn, InPort, Reading, Writing, Request, chanVars, memVars,
                  dutVars, coreVars, nativeVars, portVars
    <3>3. Underway' = Underway /\ Extra' = Extra /\ waited' = waited /\ mem_valid' = mem_valid
      BY <2>1 DEF Underway, Acked, Extra, dutVars, coreVars, nativeVars, adapterVars
    <3> QED BY <2>1, <3>1, <3>2, <3>3 DEF Beat
  <2> QED BY <2>2, <2>3
<1>4. CASE UNCHANGED vars
  BY <1>4 DEF vars, chanVars, memVars, coreVars, nativeVars, adapterVars, portVars, histVars,
              Handshake, Beat, BeatIn, ReadIn, WriteIn, InPort, Reading, Writing, Request,
              Underway, Acked, Extra, NewPlace, OldPlace
<1> QED BY <1>1, <1>2, <1>3, <1>4, PostKeeps, BootKeeps DEF Next, Terminated

(* The invariant holds at first: nothing is anywhere. *)
LEMMA BenchInit == Init => BenchInv
<1> SUFFICES ASSUME Init PROVE Handshake /\ Beat
  BY InitType DEF BenchInv
<1>1. /\ pc = "boot" /\ evals = 0 /\ waited = 0 /\ mem_valid = FALSE /\ mem_instr = FALSE
      /\ ack_awvalid = FALSE /\ ack_arvalid = FALSE /\ ack_wvalid = FALSE
      /\ xfer_done = FALSE /\ rvalid = FALSE /\ bvalid = FALSE
  BY DEF Init, DutInit
<1>2. Handshake
  <2>1. ack_awvalid = ack_wvalid
    BY <1>1
  <2>2. evals < BootEdges
    BY <1>1 DEF BootEdges
  <2>3. ~mem_valid /\ ~mem_instr /\ ~Acked /\ ~xfer_done /\ ~rvalid /\ ~bvalid /\ pc # "input"
    BY <1>1 DEF Acked
  <2> QED BY <1>1, <2>1, <2>2, <2>3 DEF Handshake
<1>3. ReadIn("none") /\ WriteIn("none")
  <2>1. Len(None) = 0
    BY DEF None
  <2> QED BY <1>1, <2>1 DEF Init, AxiInit, None, ReadIn, WriteIn, InPort
<1>4. Beat
  BY <1>1, <1>3 DEF Beat, BeatIn, Underway, Reading, Writing
<1> QED BY <1>2, <1>4

(* The invariant holds in every reachable state. *)
LEMMA BenchInvariant == Spec => []BenchInv
BY BenchInit, BenchStep, PTL DEF Spec

(* The lengths of the channels and queues where the one beat is. *)
LEMMA BeatLengths ==
    ASSUME NEW p \in {"none", "channel", "queue", "answer", "port"}
    PROVE  /\ ReadIn(p) => ReadTokens = IF p = "none" THEN 0 ELSE 1
           /\ WriteIn(p) => /\ Len(aw) + Len(aw_q) + WriteTokens = IF p = "none" THEN 0 ELSE 1
                            /\ Len(w) + Len(w_q) + WriteTokens = IF p = "none" THEN 0 ELSE 1
<1>1. Len(None) = 0 /\ \A x : Len(<<x>>) = 1
  BY DEF None
<1>2. ASSUME ReadIn(p) PROVE ReadTokens = IF p = "none" THEN 0 ELSE 1
  <2>1. Len(ar) = (IF p = "channel" THEN 1 ELSE 0) /\ Len(ar_q) = 0
    BY <1>1, <1>2 DEF ReadIn
  <2> QED BY <1>2, <2>1 DEF ReadIn, ReadTokens
<1>3. ASSUME WriteIn(p)
      PROVE  /\ Len(aw) + Len(aw_q) + WriteTokens = IF p = "none" THEN 0 ELSE 1
             /\ Len(w) + Len(w_q) + WriteTokens = IF p = "none" THEN 0 ELSE 1
  <2>1. /\ Len(aw) = (IF p = "channel" THEN 1 ELSE 0) /\ Len(aw_q) = 0
        /\ Len(w) = (IF p = "channel" THEN 1 ELSE 0) /\ Len(w_q) = 0
    BY <1>1, <1>3 DEF WriteIn
  <2> QED BY <1>3, <2>1 DEF WriteIn, WriteTokens
<1> QED BY <1>2, <1>3

(* Where the beat is says how many there are. *)
LEMMA InvGivesOneBeat == BenchInv => OneBeatPerTransfer
<1> SUFFICES ASSUME TypeOK, Handshake, Beat PROVE OneBeatPerTransfer
  BY DEF BenchInv
<1>1. PICK p \in {"none", "channel", "queue", "answer", "port"} :
          /\ BeatIn(p)
          /\ p = "none" <=> ~Underway
          /\ p = "port" => pc \in {"output", "post"}
  <2>1. NewPlace \in {"channel", "queue", "answer"} /\ OldPlace \in {"answer", "port"}
    BY DEF NewPlace, OldPlace
  <2>2. OldPlace = "port" => pc \in {"output", "post"}
    BY DEF OldPlace
  <2>3. CASE ~Underway /\ BeatIn("none")
    BY <2>3
  <2>4. CASE Underway /\ BeatIn(NewPlace)
    BY <2>1, <2>4
  <2>5. CASE Underway /\ BeatIn(OldPlace)
    BY <2>1, <2>2, <2>5
  <2> QED BY <2>3, <2>4, <2>5 DEF Beat
<1>2. ~(Reading /\ Writing)
  BY DEF Reading, Writing
<1>3. /\ Reading /\ ack_arvalid /\ ~xfer_done <=> Reading /\ Underway
      /\ Writing /\ ack_awvalid /\ ~xfer_done <=> Writing /\ Underway
      /\ Writing /\ ack_wvalid /\ ~xfer_done <=> Writing /\ Underway
  BY DEF Handshake, Underway, Acked, Reading, Writing
<1>4. ReadTokens = IF Reading /\ Underway THEN 1 ELSE 0
  BY <1>1, BeatLengths DEF BeatIn
<1>5. /\ Len(aw) + Len(aw_q) + WriteTokens = IF Writing /\ Underway THEN 1 ELSE 0
      /\ Len(w) + Len(w_q) + WriteTokens = IF Writing /\ Underway THEN 1 ELSE 0
  BY <1>1, BeatLengths DEF BeatIn
<1>6. AnswerMatchesRequest
  <2> SUFFICES ASSUME pc = "post"
               PROVE  /\ rvalid => Reading /\ ack_arvalid
                      /\ bvalid => Writing /\ ack_awvalid /\ ack_wvalid
    BY DEF AnswerMatchesRequest
  <2>1. rvalid => Reading /\ Underway
    BY <1>1 DEF BeatIn, ReadIn, InPort
  <2>2. bvalid => Writing /\ Underway
    BY <1>1 DEF BeatIn, WriteIn, InPort
  <2> QED BY <1>3, <2>1, <2>2
<1> QED BY <1>3, <1>4, <1>5, <1>6 DEF OneBeatPerTransfer

(* A transfer is neither started twice nor answered twice nor mixed up with  *)
(* another, in every reachable state: nothing of one is left when the next   *)
(* begins.                                                                   *)
THEOREM TransfersDoNotMix == Spec => []OneBeatPerTransfer
BY BenchInvariant, InvGivesOneBeat, PTL

(* No transfer waits longer than the order of the calls makes it.            *)
THEOREM AnsweredInTime == Spec => []BoundedWait
<1>1. BenchInv => BoundedWait
  <2> SUFFICES ASSUME TypeOK, Beat PROVE BoundedWait
    BY DEF BenchInv
  <2>1. waited \in Nat /\ (~mem_valid => ~Underway)
    BY DEF TypeOK, Underway
  <2>2. waited <= IF mem_valid THEN 2 + Extra ELSE 0
    BY <2>1 DEF Beat, Extra
  <2> QED BY <2>1, <2>2 DEF BoundedWait, Extra
<1> QED BY <1>1, BenchInvariant, PTL

-----------------------------------------------------------------------------
(* The interrupts. *)

(* What a remainder is. *)
LEMMA ModIs ==
    ASSUME NEW p \in Nat \ {0}, NEW n \in Nat, NEW q \in Int, NEW m \in 0 .. p - 1,
           n = p * q + m
    PROVE  n % p = m
OBVIOUS

(* The remainder is the largest one exactly when the next is zero. *)
LEMMA LastBeforeWrap ==
    ASSUME NEW p \in Nat \ {0}, NEW n \in Nat
    PROVE  n % p = p - 1 <=> (n + 1) % p = 0
<1> DEFINE q == n \div p
           m == n % p
<1>1. q \in Nat /\ m \in 0 .. p - 1 /\ n = p * q + m
  OBVIOUS
<1> HIDE DEF q, m
<1>2. CASE m = p - 1
  <2> DEFINE k == q + 1
  <2>1. k \in Int /\ n + 1 = p * k + 0
    BY <1>1, <1>2
  <2> HIDE DEF k
  <2>2. (n + 1) % p = 0
    <3> DEFINE N == n + 1
               z == 0
    <3>1. N \in Nat /\ z \in 0 .. p - 1 /\ N = p * k + z
      BY <2>1
    <3> HIDE DEF N, z
    <3>2. N % p = z
      BY <3>1, <2>1, ModIs
    <3> QED BY <3>2 DEF N, z
  <2> QED BY <1>2, <2>2 DEF m
<1>3. CASE m # p - 1
  <2> DEFINE N == n + 1
             z == m + 1
  <2>1. N \in Nat /\ z \in 0 .. p - 1 /\ z # 0 /\ N = p * q + z
    BY <1>1, <1>3
  <2> HIDE DEF N, z
  <2>2. N % p = z
    BY <1>1, <2>1, ModIs
  <2> QED BY <1>3, <2>1, <2>2 DEF N, m
<1> QED BY <1>2, <1>3

(* The counter keeps step with the edges, across its wrap. *)
LEMMA IrqStep == TypeOK /\ IrqInv /\ [Next]_vars => IrqInv'
<1> SUFFICES ASSUME TypeOK, IrqInv, [Next]_vars PROVE IrqInv'
  OBVIOUS
<1>1. edges \in 0 .. IrqWrap - 1 /\ IrqWrap \in Nat \ {0}
  BY IrqAssumption DEF TypeOK
<1>2. CASE Boot
  BY <1>2 DEF Boot, IrqInv, Ahead, Lines, irqVars, histVars
<1>3. CASE Irq
  <2>1. ~Ahead /\ Ahead' /\ pc' = "input" /\ edges' = edges /\ counter = edges
    BY <1>3 DEF Irq, Ahead, IrqInv, histVars
  <2>2. counter' = (edges' + 1) % IrqWrap /\ irq' = Lines'
    BY <1>3, <2>1 DEF Irq, IrqMain, Lines
  <2> QED BY <2>1, <2>2 DEF IrqInv
<1>4. CASE Pre
  BY <1>4 DEF Pre, IrqInv, Ahead, Lines, histVars
<1>5. CASE Post
  <2>1. Ahead /\ ~Ahead' /\ pc' = "irq" /\ UNCHANGED <<counter, irq>>
    BY <1>5 DEF Post, Ahead, irqVars
  <2>2. edges' = (edges + 1) % IrqWrap
    BY <1>5 DEF Post
  <2> QED BY <2>1, <2>2 DEF IrqInv
<1>6. CASE Leave \/ Input \/ Killed \/ Output
  <2>1. UNCHANGED <<counter, irq, irq_port, edges>>
    BY <1>6 DEF Leave, Input, Killed, Output, irqVars, histVars
  <2>2. Ahead' = Ahead /\ (pc' \in {"output", "post"} => pc \in {"output", "post"})
    BY <1>6 DEF Leave, Input, Killed, Output, Ahead
  <2> QED BY <2>1, <2>2 DEF IrqInv, Lines
<1>7. CASE UNCHANGED vars
  BY <1>7 DEF vars, irqVars, histVars, IrqInv, Ahead, Lines
<1> QED BY <1>2, <1>3, <1>4, <1>5, <1>6, <1>7 DEF Next, Terminated

(* The core sees irq 4 at every IrqPeriod-th edge of the loop and irq 5 at   *)
(* every IrqWrap-th.                                                         *)
THEOREM InterruptsOnTime == Spec => []IrqOnSchedule
<1>1. Init => IrqInv
  BY DEF Init, IrqInv, Ahead
<1>2. TypeOK /\ IrqInv => IrqOnSchedule
  <2> SUFFICES ASSUME TypeOK, IrqInv, pc = "post"
               PROVE  /\ 4 \in irq_port <=> (edges + 1) % IrqPeriod = 0
                      /\ 5 \in irq_port <=> (edges + 1) % IrqWrap = 0
    BY DEF IrqOnSchedule
  <2>1. /\ edges \in Nat /\ edges \in 0 .. IrqWrap - 1
        /\ IrqPeriod \in Nat \ {0} /\ IrqWrap \in Nat \ {0}
    BY IrqAssumption DEF TypeOK
  <2>2. irq_port = Lines
    BY DEF IrqInv, Ahead
  <2>3. 4 \in irq_port <=> edges % IrqPeriod = IrqPeriod - 1
    BY <2>2 DEF Lines
  <2>4. 5 \in irq_port <=> edges = IrqWrap - 1
    BY <2>2 DEF Lines
  <2>5. edges % IrqPeriod = IrqPeriod - 1 <=> (edges + 1) % IrqPeriod = 0
    BY <2>1, LastBeforeWrap
  <2>6. edges = IrqWrap - 1 <=> (edges + 1) % IrqWrap = 0
    BY <2>1, LastBeforeWrap
  <2> QED BY <2>3, <2>4, <2>5, <2>6
<1>3. BenchInv => TypeOK
  BY DEF BenchInv
<1> QED BY <1>1, <1>2, <1>3, IrqStep, BenchInvariant, PTL DEF Spec

-----------------------------------------------------------------------------
(* The refinement: the core sees one memory. *)

ReadAnswer(place) == IF place = "queue" THEN r_q
                     ELSE IF place = "answer" THEN r
                     ELSE IF place = "port" THEN <<rdata>>
                     ELSE None
WriteAnswer(place) == IF place \in {"queue", "answer", "port"} THEN <<Response>> ELSE None

Places == {"none", "channel", "queue", "answer", "port"}

(* The place of the beat tells the answer. *)
AnswerKnown ==
    \A p \in Places :
        BeatIn(p) => Answered = IF Reading THEN ReadAnswer(p)
                                ELSE IF Writing THEN WriteAnswer(p)
                                ELSE None

LEMMA AnswerIs == TypeOK => AnswerKnown
<1> SUFFICES ASSUME TypeOK, NEW p \in Places, BeatIn(p)
             PROVE  Answered = IF Reading THEN ReadAnswer(p)
                               ELSE IF Writing THEN WriteAnswer(p)
                               ELSE None
  BY DEF AnswerKnown
<1> DEFINE A == Word \cup {Response}
<1>1. /\ r_q \in Seq(A) /\ r \in Seq(A) /\ ReadPort \in Seq(A)
      /\ b_q \in Seq(A) /\ b \in Seq(A) /\ WritePort \in Seq(A)
  <2>1. /\ r_q \in Seq(Word) /\ r \in Seq(Word) /\ rdata \in Word
        /\ b_q \in Seq({Response}) /\ b \in Seq({Response})
    BY DEF TypeOK, AxiTypeOK, DutTypeOK, Optional, Queue
  <2>2. << >> \in Seq(A) /\ <<rdata>> \in Seq(A) /\ <<Response>> \in Seq(A)
    BY <2>1
  <2>3. Seq(Word) \subseteq Seq(A) /\ Seq({Response}) \subseteq Seq(A)
    OBVIOUS
  <2> QED BY <2>1, <2>2, <2>3 DEF ReadPort, WritePort
<1>2. ~(Reading /\ Writing)
  BY DEF Reading, Writing
<1> HIDE DEF A
<1>3. \A s \in Seq(A) : s \o None = s /\ None \o s = s
  BY ConcatEmptySeq DEF None
<1>4. None \in Seq(A) /\ None \o None = None
  BY <1>3 DEF None
<1>5. \A s \in Seq(A) : Len(s) = 0 => s = None
  BY ShortSeq
<1>6. ReadIn("none") => r_q = None /\ r = None /\ ReadPort = None
  BY <1>1, <1>5 DEF ReadIn, ReadPort, None
<1>7. WriteIn("none") => b_q = None /\ b = None /\ WritePort = None
  BY <1>1, <1>5 DEF WriteIn, WritePort, None
<1>8. CASE Reading
  <2>1. Answered = r_q \o r \o ReadPort
    <3>1. b_q \o b \o WritePort = None
      BY <1>2, <1>4, <1>7, <1>8 DEF BeatIn
    <3>2. (r_q \o r) \o ReadPort \in Seq(A)
      BY <1>1, ConcatProperties
    <3> QED BY <1>3, <3>1, <3>2 DEF Answered
  <2>2. ReadIn(p)
    BY <1>8 DEF BeatIn
  <2>3. CASE p \in {"none", "channel"}
    <3>1. r_q = None /\ r = None /\ ReadPort = None
      BY <1>1, <1>5, <2>2, <2>3 DEF ReadIn, ReadPort, None
    <3> QED BY <1>4, <1>8, <2>1, <2>3, <3>1 DEF ReadAnswer
  <2>4. CASE p = "queue"
    <3>1. r = None /\ ReadPort = None
      BY <1>1, <1>5, <2>2, <2>4 DEF ReadIn, ReadPort, None
    <3> QED BY <1>1, <1>3, <1>8, <2>1, <2>4, <3>1 DEF ReadAnswer
  <2>5. CASE p = "answer"
    <3>1. r_q = None /\ ReadPort = None
      BY <1>1, <1>5, <2>2, <2>5 DEF ReadIn, ReadPort, None
    <3> QED BY <1>1, <1>3, <1>8, <2>1, <2>5, <3>1 DEF ReadAnswer
  <2>6. CASE p = "port"
    <3>1. r_q = None /\ r = None /\ ReadPort = <<rdata>>
      BY <1>1, <1>5, <2>2, <2>6 DEF ReadIn, ReadPort
    <3> QED BY <1>1, <1>3, <1>4, <1>8, <2>1, <2>6, <3>1 DEF ReadAnswer
  <2> QED BY <2>3, <2>4, <2>5, <2>6 DEF Places
<1>9. CASE ~Reading
  <2>1. Answered = b_q \o b \o WritePort
    <3>1. r_q \o r \o ReadPort = None
      BY <1>4, <1>6, <1>9 DEF BeatIn
    <3>2. (b_q \o b) \o WritePort \in Seq(A)
      BY <1>1, ConcatProperties
    <3> QED BY <1>3, <3>1, <3>2 DEF Answered
  <2>2. CASE ~Writing
    <3>1. b_q = None /\ b = None /\ WritePort = None
      BY <1>7, <2>2 DEF BeatIn
    <3> QED BY <1>4, <1>9, <2>1, <2>2, <3>1
  <2>3. CASE Writing
    <3>1. WriteIn(p) /\ b_q \in Seq({Response}) /\ b \in Seq({Response})
      BY <2>3 DEF BeatIn, TypeOK, AxiTypeOK, Optional, Queue
    <3>2. \A s \in Seq({Response}) : Len(s) = 1 => s = <<Response>>
      BY ShortSeq
    <3>3. CASE p \in {"none", "channel"}
      <4>1. b_q = None /\ b = None /\ WritePort = None
        BY <1>1, <1>5, <3>1, <3>3 DEF WriteIn, WritePort, None
      <4> QED BY <1>4, <1>9, <2>1, <2>3, <3>3, <4>1 DEF WriteAnswer
    <3>4. CASE p = "queue"
      <4>1. b_q = <<Response>> /\ b = None /\ WritePort = None
        BY <1>1, <1>5, <3>1, <3>2, <3>4 DEF WriteIn, WritePort, None
      <4> QED BY <1>1, <1>3, <1>9, <2>1, <2>3, <3>4, <4>1 DEF WriteAnswer
    <3>5. CASE p = "answer"
      <4>1. b_q = None /\ b = <<Response>> /\ WritePort = None
        BY <1>1, <1>5, <3>1, <3>2, <3>5 DEF WriteIn, WritePort, None
      <4> QED BY <1>1, <1>3, <1>9, <2>1, <2>3, <3>5, <4>1 DEF WriteAnswer
    <3>6. CASE p = "port"
      <4>1. b_q = None /\ b = None /\ WritePort = <<Response>>
        BY <1>1, <1>5, <3>1, <3>6 DEF WriteIn, WritePort
      <4> QED BY <1>1, <1>3, <1>4, <1>9, <2>1, <2>3, <3>6, <4>1 DEF WriteAnswer
    <3> QED BY <3>3, <3>4, <3>5, <3>6 DEF Places
  <2> QED BY <2>2, <2>3
<1> QED BY <1>8, <1>9

(* The request under way, and what is on the port. *)
LEMMA AskedIs ==
    ASSUME mem_valid
    PROVE  /\ Asked # << >> /\ Asked[1].addr = mem_addr /\ Asked[1].strb = mem_wstrb
           /\ mem_wstrb # {} => Asked[1].data = mem_wdata
BY DEF Asked, MemRequest

(* The device asks for nothing before it was reset. *)
BootInv == pc = "boot" => /\ started => evals > 5
                          /\ mem_valid => evals > 8

LEMMA BootStep == BenchInv /\ BootInv /\ [Next]_vars => BootInv'
<1> SUFFICES ASSUME BenchInv, BootInv, [Next]_vars, pc' = "boot" PROVE BootInv'
  BY DEF BootInv
<1>1. CASE Boot
  <2>1. pc = "boot" /\ evals \in Nat /\ evals' = evals + 1
    BY <1>1 DEF Boot, BenchInv, TypeOK
  <2>2. CoreEdge(Resetn(evals), mem_ready) /\ Resetn(evals) \in BOOLEAN
    BY <1>1 DEF Boot, Eval, Resetn
  <2>3. started' = (started \/ ~Resetn(evals))
    BY <2>2 DEF CoreEdge
  <2>4. started' => evals' > 5
    <3>1. ~Resetn(evals) => evals >= 5
      BY <2>1 DEF Resetn
    <3>2. started => evals > 5
      BY <2>1 DEF BootInv
    <3>3. started' => started \/ ~Resetn(evals)
      BY <2>3
    <3>4. evals >= 5 => evals' > 5
      BY <2>1
    <3>5. evals > 5 => evals >= 5
      BY <2>1
    <3> QED BY <3>1, <3>2, <3>3, <3>4, <3>5
  <2>5. (mem_valid' => started') /\ (~Resetn(evals) => ~mem_valid')
    <3>1. DutTypeOK /\ (mem_valid => started) /\ (mem_instr => mem_wstrb = {})
      BY DEF BenchInv, TypeOK, Handshake
    <3> QED BY <2>2, <3>1, CoreStep
  <2>6. ASSUME mem_valid' PROVE evals' > 8
    <3>1. Resetn(evals) /\ evals' > 5
      BY <2>4, <2>5, <2>6
    <3> QED BY <2>1, <3>1 DEF Resetn
  <2> QED BY <2>4, <2>6 DEF BootInv
<1>2. CASE UNCHANGED vars
  BY <1>2 DEF vars, coreVars, nativeVars, BootInv
<1>3. CASE ~Boot /\ ~UNCHANGED vars
  BY <1>3 DEF Next, Terminated, Irq, Leave, Input, Killed, Pre, Output, Post
<1> QED BY <1>1, <1>2, <1>3

(* A request that is made is one the core may make. *)
LEMMA FirstRequest ==
    ASSUME DutTypeOK, mem_valid => started, mem_instr => mem_wstrb = {},
           NEW resetn \in BOOLEAN, CoreEdge(resetn, mem_ready), ~mem_valid, mem_valid'
    PROVE  \E q \in NativeRequests : Asked' = <<q>>
<1>1. \/ mem_wstrb' = {} /\ mem_addr' \in LoadAddr
      \/ /\ mem_addr' \in StoreAddr
         /\ \E wd \in StoreData : mem_wdata' = wd.data /\ mem_wstrb' = wd.strb
  BY CoreStep
<1>2. Asked' = <<MemRequest(mem_addr', mem_wdata', mem_wstrb')>>
  BY DEF Asked, MemRequest
<1>3. CASE mem_wstrb' = {} /\ mem_addr' \in LoadAddr
  <2>1. MemRequest(mem_addr', mem_wdata', mem_wstrb') = MemRequest(mem_addr', Zero, {})
    BY <1>3 DEF MemRequest
  <2>2. MemRequest(mem_addr', Zero, {}) \in NativeRequests
    BY <1>3 DEF NativeRequests
  <2> QED BY <1>2, <2>1, <2>2
<1>4. CASE /\ mem_addr' \in StoreAddr
           /\ \E wd \in StoreData : mem_wdata' = wd.data /\ mem_wstrb' = wd.strb
  <2>1. PICK wd \in StoreData : mem_wdata' = wd.data /\ mem_wstrb' = wd.strb
    BY <1>4
  <2>2. MemRequest(mem_addr', wd.data, wd.strb) \in NativeRequests
    BY <1>4 DEF NativeRequests
  <2> QED BY <1>2, <2>1, <2>2
<1> QED BY <1>1, <1>3, <1>4

(* Nothing has been answered when no request is under way, at any place of   *)
(* the loop.                                                                 *)
NothingAnswered == ~Underway => Answered = << >>

LEMMA NothingAnsweredIs == BenchInv => NothingAnswered
<1> SUFFICES ASSUME BenchInv, ~Underway PROVE Answered = << >>
  BY DEF NothingAnswered
<1>1. BeatIn("none") /\ AnswerKnown
  BY AnswerIs DEF BenchInv, Beat
<1> QED BY <1>1 DEF AnswerKnown, Places, ReadAnswer, WriteAnswer, None

(* An edge of the constructor: the core may issue its first request. *)
LEMMA BootRefines ==
    BenchInv /\ BenchInv' /\ BootInv /\ Boot => Native!Issue \/ UNCHANGED Native!vars
<1> SUFFICES ASSUME BenchInv, BenchInv', BootInv, Boot
             PROVE  Native!Issue \/ UNCHANGED Native!vars
  OBVIOUS
<1>1. /\ pc = "boot" /\ ~Underway /\ ~mem_ready
      /\ evals \in Nat
  BY DEF Boot, BenchInv, TypeOK, Handshake, Underway, Acked, mem_ready
<1>2. ~Underway'
  <2>1. ~Acked'
    <3>1. AdapterEdge(Resetn(evals), FALSE, FALSE, FALSE) /\ ~Acked
      BY <1>1 DEF Boot, Eval, BenchInv, Handshake
    <3> QED BY <3>1 DEF AdapterEdge, Acked
  <2> QED BY <2>1 DEF Underway
<1>3. Answered = << >> /\ Answered' = << >>
  <2>1. NothingAnswered /\ NothingAnswered'
    BY NothingAnsweredIs, PTL
  <2> QED BY <1>1, <1>2, <2>1 DEF NothingAnswered
<1>4. UNCHANGED <<memory_space, simulation_passed, seen>>
  BY <1>1 DEF Boot, Eval, memVars
<1>5. CoreEdge(Resetn(evals), mem_ready) /\ Resetn(evals) \in BOOLEAN
  BY DEF Boot, Eval, Resetn
<1>6. DutTypeOK /\ (mem_valid => started) /\ (mem_instr => mem_wstrb = {})
  BY DEF BenchInv, TypeOK, Handshake
<1>7. CASE mem_valid
  <2>1. Resetn(evals)
    BY <1>1, <1>7 DEF BootInv, Resetn
  <2>2. mem_valid' /\ UNCHANGED nativeVars
    BY <1>1, <1>5, <1>6, <1>7, <2>1, CoreStep
  <2>3. Asked' = Asked
    BY <2>2 DEF nativeVars, Asked, MemRequest
  <2> QED BY <1>3, <1>4, <2>3 DEF Native!vars
<1>8. CASE ~mem_valid /\ ~mem_valid'
  BY <1>3, <1>4, <1>8 DEF Native!vars, Asked
<1>9. CASE ~mem_valid /\ mem_valid'
  <2>1. \E q \in NativeRequests : Asked' = <<q>>
    BY <1>5, <1>6, <1>9, FirstRequest
  <2> QED BY <1>3, <1>4, <1>9, <2>1 DEF Native!Issue, Asked
<1> QED BY <1>7, <1>8, <1>9

(* The three states of the beat, with what has been answered in each. *)
LEMMA ThreeStates ==
    ASSUME BenchInv
    PROVE  \/ ~Underway /\ BeatIn("none") /\ Answered = << >>
           \/ Underway /\ BeatIn(NewPlace)
              /\ Answered = IF Reading THEN ReadAnswer(NewPlace) ELSE WriteAnswer(NewPlace)
           \/ Underway /\ BeatIn(OldPlace)
              /\ Answered = IF Reading THEN ReadAnswer(OldPlace) ELSE WriteAnswer(OldPlace)
<1>1. AnswerKnown /\ NothingAnswered /\ Beat
  BY AnswerIs, NothingAnsweredIs DEF BenchInv
<1>2. Underway => Reading \/ Writing
  BY DEF Underway, Reading, Writing
<1>3. NewPlace \in Places /\ OldPlace \in Places
  BY DEF NewPlace, OldPlace, Places
<1> QED BY <1>1, <1>2, <1>3 DEF AnswerKnown, NothingAnswered, Beat

(* Input performs the request that is on its channel, and nothing else.      *)
LEMMA InputRefines ==
    BenchInv /\ BenchInv' /\ Input => Native!Perform \/ UNCHANGED Native!vars
<1> SUFFICES ASSUME BenchInv, BenchInv', Input
             PROVE  Native!Perform \/ UNCHANGED Native!vars
  OBVIOUS
<1>1. /\ AxiTypeOK /\ TypeOK /\ HandleInputAndExec /\ mem_addr \in Addr /\ Request \in WData
      /\ UNCHANGED <<mem_valid, mem_addr, mem_wdata, mem_wstrb, seen, rdata, ack_arvalid,
                     ack_awvalid, xfer_done>>
      /\ pc = "input" /\ pc' = "pre" /\ ~simulation_passed
  BY DEF BenchInv, Handshake, Input, TypeOK, DutTypeOK, Request, WData, coreVars, nativeVars,
         portVars, adapterVars
<1>2. /\ Asked' = Asked /\ seen' = seen /\ Underway' = Underway
      /\ Reading' = Reading /\ Writing' = Writing
  BY <1>1 DEF Asked, MemRequest, Underway, Acked, Reading, Writing
<1>3. AnswerKnown' /\ NothingAnswered'
  BY AnswerIs, NothingAnsweredIs, PTL DEF BenchInv
<1>4. CASE ~Underway /\ BeatIn("none") /\ Answered = << >>
  <2>1. Answered' = << >>
    BY <1>2, <1>3, <1>4 DEF NothingAnswered
  <2>2. ar = None /\ ar_q = None /\ aw = None /\ w = None /\ aw_q = None /\ w_q = None
    BY <1>4 DEF BeatIn, ReadIn, WriteIn
  <2>3. UNCHANGED <<memory_space, simulation_passed>>
    BY <1>1, <2>2, InputNoWrite
  <2> QED BY <1>2, <1>4, <2>1, <2>3 DEF Native!vars
<1>5. CASE /\ Underway /\ BeatIn(NewPlace)
           /\ Answered = IF Reading THEN ReadAnswer(NewPlace) ELSE WriteAnswer(NewPlace)
  <2>1. NewPlace = "channel" /\ Answered = << >>
    BY <1>1, <1>5 DEF NewPlace, ReadAnswer, WriteAnswer, None
  <2>2. BeatIn("channel") /\ mem_valid
    BY <1>5, <2>1 DEF BeatIn, ReadIn, WriteIn, Underway
  <2>3. BeatIn("queue")'
    BY <1>1, <1>2, <2>2, InputMoves DEF BeatIn
  <2>4. CASE Reading
    <3>1. /\ ar = <<mem_addr>> /\ ar_q = None /\ Len(r_q) = 0
          /\ aw = None /\ w = None /\ aw_q = None /\ w_q = None
      BY <2>2, <2>4 DEF BeatIn, ReadIn, WriteIn, Reading, Writing
    <3>2. PICK data \in LoadResults(memory_space, mem_addr) : r_q' = <<data>>
      BY <1>1, <3>1, InputOneRead
    <3>3. UNCHANGED <<memory_space, simulation_passed>>
      BY <1>1, <3>1, InputNoWrite
    <3>4. Answered' = r_q'
      BY <1>2, <1>3, <2>3, <2>4 DEF AnswerKnown, Places, ReadAnswer
    <3>5. /\ Asked # << >> /\ Asked[1].addr = mem_addr /\ Asked[1].strb = {}
      BY <2>2, <2>4, AskedIs DEF Reading
    <3> QED BY <1>1, <1>2, <2>1, <3>2, <3>3, <3>4, <3>5 DEF Native!Perform
  <2>5. CASE ~Reading
    <3>1. Writing /\ mem_wstrb # {}
      BY <2>2, <2>5 DEF Reading, Writing
    <3>2. aw = <<mem_addr>> /\ w = <<Request>> /\ aw_q = None /\ w_q = None /\ Len(b_q) = 0
      BY <2>2, <3>1 DEF BeatIn, WriteIn
    <3>3. /\ memory_space' = Store(memory_space, mem_addr, Request)
          /\ simulation_passed' = (simulation_passed \/ mem_addr = ExitAddr)
      BY <1>1, <3>2, InputOneWrite
    <3>4. Answered' = <<Response>>
      BY <1>2, <1>3, <2>3, <2>5, <3>1 DEF AnswerKnown, Places, WriteAnswer
    <3>5. /\ Asked # << >> /\ Asked[1].addr = mem_addr /\ Asked[1].strb # {}
          /\ [data |-> Asked[1].data, strb |-> Asked[1].strb] = Request
      BY <2>2, <3>1, AskedIs DEF Request
    <3>6. simulation_passed' = (mem_addr = ExitAddr)
      BY <1>1, <3>3
    <3> QED BY <1>1, <1>2, <2>1, <3>3, <3>4, <3>5, <3>6 DEF Native!Perform
  <2> QED BY <2>4, <2>5
<1>6. CASE /\ Underway /\ BeatIn(OldPlace)
           /\ Answered = IF Reading THEN ReadAnswer(OldPlace) ELSE WriteAnswer(OldPlace)
  <2>1. OldPlace = "answer"
    BY <1>1 DEF OldPlace
  <2>2. BeatIn("answer")
    BY <1>6, <2>1 DEF BeatIn, ReadIn, WriteIn
  <2>3. ar = None /\ ar_q = None /\ aw = None /\ w = None /\ aw_q = None /\ w_q = None
    BY <2>2 DEF BeatIn, ReadIn, WriteIn
  <2>4. UNCHANGED <<memory_space, simulation_passed, r>>
    BY <1>1, <2>3, InputNoRead, InputNoWrite
  <2>5. BeatIn("answer")'
    BY <1>1, <1>2, <2>2, InputMoves DEF BeatIn
  <2>6. Answered' = Answered
    BY <1>2, <1>3, <1>6, <2>1, <2>4, <2>5
       DEF AnswerKnown, Places, ReadAnswer, WriteAnswer, Underway, Reading, Writing
  <2> QED BY <1>2, <2>4, <2>6 DEF Native!vars
<1> QED BY <1>4, <1>5, <1>6, ThreeStates

(* Pre and Output bring an answer nearer to the core, which sees no change.  *)
LEMMA MovesRefine ==
    BenchInv /\ BenchInv' /\ (Pre \/ Output) => UNCHANGED Native!vars
<1> SUFFICES ASSUME BenchInv, BenchInv', Pre \/ Output PROVE UNCHANGED Native!vars
  OBVIOUS
<1>1. /\ TypeOK
      /\ UNCHANGED <<mem_valid, mem_addr, mem_wdata, mem_wstrb, seen, ack_arvalid,
                     ack_awvalid, xfer_done, memory_space, simulation_passed>>
      /\ \/ pc = "pre" /\ pc' = "output" /\ Pre
         \/ pc = "output" /\ pc' = "post" /\ Output
  BY DEF BenchInv, Pre, Output, HandleOutput, coreVars, nativeVars, adapterVars, memVars
<1>2. /\ Asked' = Asked /\ seen' = seen /\ Underway' = Underway
      /\ Reading' = Reading /\ Writing' = Writing
  BY <1>1 DEF Asked, MemRequest, Underway, Acked, Reading, Writing
<1>3. AnswerKnown' /\ NothingAnswered'
  BY AnswerIs, NothingAnsweredIs, PTL DEF BenchInv
<1>4. CASE ~Underway /\ BeatIn("none") /\ Answered = << >>
  <2>1. Answered' = << >>
    BY <1>2, <1>3, <1>4 DEF NothingAnswered
  <2> QED BY <1>1, <1>2, <1>4, <2>1 DEF Native!vars
<1>5. ASSUME Underway, Answered' = Answered PROVE UNCHANGED Native!vars
  BY <1>1, <1>2, <1>5 DEF Native!vars
<1>6. Underway => (~Reading <=> Writing)
  BY DEF Underway, Reading, Writing
<1>7. CASE /\ Underway /\ BeatIn(NewPlace)
           /\ Answered = IF Reading THEN ReadAnswer(NewPlace) ELSE WriteAnswer(NewPlace)
  <2>1. NewPlace = "queue"
    BY <1>1 DEF NewPlace
  <2>2. BeatIn("queue")
    BY <1>7, <2>1 DEF BeatIn, ReadIn, WriteIn
  <2>3. CASE Pre
    <3>1. BeatIn("queue")' /\ r_q' = r_q
      BY <1>1, <1>2, <2>2, <2>3, PreMoves DEF BeatIn, Pre, memVars
    <3>2. Answered' = Answered
      BY <1>2, <1>3, <1>6, <1>7, <2>1, <3>1 DEF AnswerKnown, Places, ReadAnswer, WriteAnswer
    <3> QED BY <1>5, <1>7, <3>2
  <2>4. CASE Output
    <3>1. BeatIn("answer")'
      BY <1>1, <1>2, <2>2, <2>4, OutputMoves DEF BeatIn
    <3>2. Reading => r' = r_q
      <4>1. /\ r \in Seq(Word) /\ r_q \in Seq(Word)
            /\ Reading => Len(r_q) = 1 /\ Len(r) = 0
        BY <1>1, <2>2 DEF TypeOK, AxiTypeOK, Optional, Queue, BeatIn, ReadIn
      <4>2. ASSUME Reading PROVE ROut = <<None, r_q>>
        <5>1. Len(r_q) = 1 /\ Len(r_q) + Len(r) <= 1
          BY <4>1, <4>2
        <5> QED BY <4>1, <5>1, OutputBeat DEF ROut
      <4> QED BY <2>4, <4>2 DEF Output, HandleOutput
    <3>3. Answered' = Answered
      BY <1>2, <1>3, <1>6, <1>7, <2>1, <3>1, <3>2
         DEF AnswerKnown, Places, ReadAnswer, WriteAnswer
    <3> QED BY <1>5, <1>7, <3>3
  <2> QED BY <1>1, <2>3, <2>4
<1>8. CASE /\ Underway /\ BeatIn(OldPlace)
           /\ Answered = IF Reading THEN ReadAnswer(OldPlace) ELSE WriteAnswer(OldPlace)
  <2>1. CASE Pre
    <3>1. OldPlace = "answer"
      BY <2>1 DEF Pre, OldPlace
    <3>2. BeatIn("answer")
      BY <1>8, <3>1 DEF BeatIn, ReadIn, WriteIn
    <3>3. BeatIn("port")'
      BY <1>1, <1>2, <2>1, <3>2, PreMoves DEF BeatIn
    <3>4. Reading => <<rdata'>> = r
      <4>1. r \in Seq(Word) /\ (Reading => Len(r) = 1)
        BY <1>1, <3>2 DEF TypeOK, AxiTypeOK, Optional, BeatIn, ReadIn
      <4>2. Reading => r # None /\ r = <<r[1]>>
        BY <4>1, ShortSeq
      <4> QED BY <2>1, <4>2 DEF Pre, RdataPort
    <3>5. Answered' = Answered
      BY <1>2, <1>3, <1>6, <1>8, <3>1, <3>3, <3>4
         DEF AnswerKnown, Places, ReadAnswer, WriteAnswer
    <3> QED BY <1>5, <1>8, <3>5
  <2>2. CASE Output
    <3>1. OldPlace = "port" /\ rdata' = rdata
      BY <2>2 DEF Output, OldPlace, portVars
    <3>2. BeatIn("port")
      BY <1>8, <3>1 DEF BeatIn, ReadIn, WriteIn
    <3>3. BeatIn("port")'
      BY <1>1, <1>2, <2>2, <3>2, OutputMoves DEF BeatIn
    <3>4. Answered' = Answered
      BY <1>2, <1>3, <1>6, <1>8, <3>1, <3>3
         DEF AnswerKnown, Places, ReadAnswer, WriteAnswer
    <3> QED BY <1>5, <1>8, <3>4
  <2> QED BY <2>1, <2>2
<1> QED BY <1>4, <1>7, <1>8, ThreeStates

(* At the edge of Post the core may issue a request; it holds the one under  *)
(* way, or is given the answer and may go on to the second word of an        *)
(* instruction.                                                              *)
LEMMA PostRefines ==
    BenchInv /\ BenchInv' /\ Post
        => Native!Issue \/ Native!Complete \/ UNCHANGED Native!vars
<1> SUFFICES ASSUME BenchInv, BenchInv', Post
             PROVE  Native!Issue \/ Native!Complete \/ UNCHANGED Native!vars
  OBVIOUS
<1>1. /\ TypeOK /\ Handshake /\ pc = "post" /\ pc' = "irq"
      /\ UNCHANGED <<memory_space, simulation_passed, r>>
      /\ seen' = IF mem_valid /\ mem_ready THEN rdata ELSE seen
      /\ CoreEdge(TRUE, mem_ready)
  BY DEF BenchInv, Post, Eval, memVars
<1>2. AnswerKnown' /\ NothingAnswered'
  BY AnswerIs, NothingAnsweredIs, PTL DEF BenchInv
<1>3. DutTypeOK /\ (mem_valid => started) /\ (mem_instr => mem_wstrb = {})
  BY <1>1 DEF TypeOK, Handshake
<1>4. Underway => (~Reading <=> Writing)
  BY DEF Underway, Reading, Writing
<1>5. ASSUME mem_valid, ~mem_ready PROVE Asked' = Asked /\ mem_valid' /\ UNCHANGED nativeVars
  <2>1. mem_valid' /\ UNCHANGED nativeVars
    BY <1>1, <1>3, <1>5, CoreStep
  <2> QED BY <2>1 DEF nativeVars, Asked, MemRequest
<1>6. ASSUME InPort(rvalid) = 0, InPort(bvalid) = 0
      PROVE  Answered' = Answered /\ ~mem_ready
  <2>1. UNCHANGED <<r_q, r, b_q, b>>
    BY DEF Post, memVars
  <2>2. ReadPort = << >> /\ WritePort = << >>
    BY <1>6 DEF ReadPort, WritePort
  <2>3. InPort(rvalid)' = 0 /\ InPort(bvalid)' = 0
    BY <1>1 DEF InPort
  <2>4. ReadPort' = << >> /\ WritePort' = << >>
    BY <2>3 DEF ReadPort, WritePort
  <2>5. ~mem_ready
    BY <1>1, <1>6 DEF InPort, mem_ready
  <2> QED BY <2>1, <2>2, <2>4, <2>5 DEF Answered
<1>7. CASE ~Underway /\ BeatIn("none") /\ Answered = << >>
  <2>1. InPort(rvalid) = 0 /\ InPort(bvalid) = 0
    BY <1>7 DEF BeatIn, ReadIn, WriteIn
  <2>2. Answered' = Answered /\ ~mem_ready /\ seen' = seen
    BY <1>1, <1>6, <2>1
  <2>3. CASE mem_valid
    BY <1>1, <1>5, <2>2, <2>3 DEF Native!vars
  <2>4. CASE ~mem_valid /\ ~mem_valid'
    BY <1>1, <2>2, <2>4 DEF Native!vars, Asked
  <2>5. CASE ~mem_valid /\ mem_valid'
    <3>1. \E q \in NativeRequests : Asked' = <<q>>
      BY <1>1, <1>3, <2>5, FirstRequest
    <3> QED BY <1>1, <1>7, <2>2, <2>5, <3>1 DEF Native!Issue, Asked
  <2> QED BY <2>3, <2>4, <2>5
<1>8. CASE /\ Underway /\ BeatIn(NewPlace)
           /\ Answered = IF Reading THEN ReadAnswer(NewPlace) ELSE WriteAnswer(NewPlace)
  <2>1. NewPlace = "answer"
    BY <1>1 DEF NewPlace
  <2>2. InPort(rvalid) = 0 /\ InPort(bvalid) = 0 /\ mem_valid
    BY <1>8, <2>1 DEF BeatIn, ReadIn, WriteIn, Underway
  <2>3. Answered' = Answered /\ ~mem_ready /\ seen' = seen
    BY <1>1, <1>6, <2>2
  <2> QED BY <1>1, <1>5, <2>2, <2>3 DEF Native!vars
<1>9. CASE /\ Underway /\ BeatIn(OldPlace)
           /\ Answered = IF Reading THEN ReadAnswer(OldPlace) ELSE WriteAnswer(OldPlace)
  <2>1. OldPlace = "port" /\ mem_valid
    BY <1>1, <1>9 DEF OldPlace, Underway
  <2>2. BeatIn("port")
    BY <1>9, <2>1 DEF BeatIn, ReadIn, WriteIn
  <2>3. mem_ready
    BY <1>4, <1>9, <2>2 DEF BeatIn, ReadIn, WriteIn, InPort, mem_ready
  <2>4. seen' = rdata /\ seen' \in Word
    BY <1>1, <2>1, <2>3 DEF TypeOK, DutTypeOK
  <2>5. Answered' = << >>
    <3>1. xfer_done' = (mem_valid /\ mem_ready)
      BY DEF Post, Eval, AdapterEdge
    <3> QED BY <1>2, <2>1, <2>3, <3>1 DEF NothingAnswered, Underway
  <2>6. Asked # << >> /\ Asked[1].strb = mem_wstrb
    BY <2>1, AskedIs
  <2>7. Answered # << >> /\ (Asked[1].strb = {} => Answered[1] = rdata)
    <3>1. CASE Reading
      BY <1>9, <2>1, <3>1 DEF ReadAnswer
    <3>2. CASE ~Reading
      <4>1. Answered = <<Response>> /\ mem_wstrb # {}
        BY <1>9, <2>1, <3>2 DEF WriteAnswer, Reading
      <4> QED BY <2>6, <4>1
    <3> QED BY <3>1, <3>2
  <2>8. Asked' = << >> \/ \E q \in NativeRequests : q.strb = {} /\ Asked' = <<q>>
    <3>1. CASE ~mem_valid'
      BY <3>1 DEF Asked
    <3>2. CASE mem_valid'
      <4>1. mem_wstrb' = {} /\ mem_addr' \in LoadAddr
        BY <1>1, <1>3, <2>1, <2>3, <3>2, CoreStep
      <4> DEFINE q == MemRequest(mem_addr', Zero, {})
      <4>2. Asked' = <<q>> /\ q.strb = {}
        BY <3>2, <4>1 DEF Asked, MemRequest
      <4>3. q \in NativeRequests
        BY <4>1 DEF NativeRequests
      <4> QED BY <4>2, <4>3
    <3> QED BY <3>1, <3>2
  <2> QED BY <1>1, <2>4, <2>5, <2>6, <2>7, <2>8 DEF Native!Complete
<1> QED BY <1>7, <1>8, <1>9, ThreeStates

(* Every step of the simulation is one of the abstract memory, or none. *)
LEMMA NativeNext ==
    BenchInv /\ BenchInv' /\ BootInv /\ [Next]_vars => [Native!Next]_(Native!vars)
<1> SUFFICES ASSUME BenchInv, BenchInv', BootInv, [Next]_vars
             PROVE  Native!Next \/ UNCHANGED Native!vars
  OBVIOUS
<1>1. CASE Boot
  BY <1>1, BootRefines DEF Native!Next
<1>2. CASE Input
  BY <1>2, InputRefines DEF Native!Next
<1>3. CASE Pre \/ Output
  BY <1>3, MovesRefine
<1>4. CASE Post
  BY <1>4, PostRefines DEF Native!Next
<1>5. CASE Irq \/ Leave \/ Killed \/ UNCHANGED vars
  <2>1. UNCHANGED <<chanVars, memVars, coreVars, portVars>>
    BY <1>5 DEF Irq, Leave, Killed, vars
  <2>2. Asked' = Asked /\ UNCHANGED <<memory_space, simulation_passed, seen>>
    BY <2>1 DEF memVars, coreVars, nativeVars, Asked, MemRequest
  <2>3. InPort(rvalid)' = InPort(rvalid) /\ InPort(bvalid)' = InPort(bvalid)
    <3>1. pc \in {"output", "post"} <=> pc' \in {"output", "post"}
      BY <1>5 DEF Irq, Leave, Killed, vars
    <3> QED BY <2>1, <3>1 DEF InPort, portVars
  <2>4. Answered' = Answered
    BY <2>1, <2>3 DEF Answered, ReadPort, WritePort, chanVars, memVars, portVars
  <2> QED BY <2>2, <2>4 DEF Native!vars
<1> QED BY <1>1, <1>2, <1>3, <1>4, <1>5 DEF Next, Terminated

(* The core's memory port, through the adapter, the ports of the device, the *)
(* wrapper, the channels and the queues, is one memory on which each         *)
(* transfer acts once and at one instant.                                    *)
THEOREM OneMemory == Spec => ImplementsNative
<1>1. Init => Native!Init
  <2> SUFFICES ASSUME Init PROVE Native!Init
    OBVIOUS
  <2>1. Answered = << >>
    <3>1. NothingAnswered
      BY BenchInit, NothingAnsweredIs
    <3> QED BY <3>1 DEF NothingAnswered, Underway, Init, DutInit
  <2> QED BY <2>1 DEF Init, AxiInit, DutInit, Native!Init, Asked
<1>2. Init => BootInv
  BY DEF Init, DutInit, BootInv
<1>3. Spec => []BootInv
  BY <1>2, BenchInvariant, BootStep, PTL DEF Spec
<1> QED BY <1>1, <1>3, BenchInvariant, NativeNext, PTL DEF Spec, ImplementsNative, Native!Spec
=============================================================================
