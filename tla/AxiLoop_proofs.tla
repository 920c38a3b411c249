---------------------------- MODULE AxiLoop_proofs ----------------------------
(***************************************************************************)
(* Proofs about AxiLoop for every memory size, every limit of the queues,  *)
(* every firmware and every master.                                        *)
(***************************************************************************)
EXTENDS AxiLoop, Numbers_proofs, SequenceTheorems, TLAPS

-----------------------------------------------------------------------------
(* What the member functions of AxiMemory do: they keep the types, and move *)
(* beats along a channel without losing or reordering them.                 *)

(* An optional is empty or holds one beat. *)
LEMMA OptionalEmptyOrOne ==
    ASSUME NEW T, NEW o \in Optional(T)
    PROVE  o \in Seq(T) /\ (o = None \/ \E x \in T : o = <<x>>)
<1>1. o \in Seq(T) /\ Len(o) <= 1
  BY DEF Optional
<1>2. CASE Len(o) = 0
  BY <1>1, <1>2, EmptySeq DEF None
<1>3. CASE Len(o) = 1
  <2>1. o[1] \in T
    BY <1>1, <1>3
  <2>2. o = <<o[1]>>
    BY <1>1, <1>3
  <2> QED BY <1>1, <2>1, <2>2
<1>4. Len(o) = 0 \/ Len(o) = 1
  <2>1. Len(o) \in Nat
    BY <1>1, LenProperties
  <2>2. \A n \in Nat : n <= 1 => n = 0 \/ n = 1
    OBVIOUS
  <2> QED BY <1>1, <2>1, <2>2
<1> QED BY <1>1, <1>2, <1>3, <1>4

(* A channel just filled is an optional. *)
LEMMA OptionalSingleton ==
    ASSUME NEW T, NEW x \in T
    PROVE  <<x>> \in Optional(T) /\ None \in Optional(T)
BY DEF Optional, None

(* OptionalToQueue loses and reorders nothing, and keeps to its limit. *)
LEMMA OptionalToQueueStream ==
    ASSUME NEW T, NEW max \in Nat \ {0},
           NEW opt \in Optional(T), NEW dq \in Queue(T, max)
    PROVE  /\ OptionalToQueue(opt, dq, max)[1] \in Optional(T)
           /\ OptionalToQueue(opt, dq, max)[2] \in Queue(T, max)
           /\ OptionalToQueue(opt, dq, max)[2] \o OptionalToQueue(opt, dq, max)[1]
                = dq \o opt
<1>1. /\ opt \in Seq(T) /\ Len(opt) <= 1
      /\ dq \in Seq(T) /\ Len(dq) <= max
  BY DEF Optional, Queue
<1>2. CASE opt # None /\ Len(dq) < max
  <2>1. OptionalToQueue(opt, dq, max) = <<None, dq \o opt>>
    BY <1>2 DEF OptionalToQueue
  <2>2. dq \o opt \in Seq(T) /\ Len(dq \o opt) = Len(dq) + Len(opt)
    BY <1>1, ConcatProperties
  <2>3. dq \o opt \in Queue(T, max)
    BY <1>1, <1>2, <2>2, LenProperties DEF Queue
  <2>4. (dq \o opt) \o None = dq \o opt
    BY <2>2, ConcatEmptySeq DEF None
  <2>5. None \in Optional(T)
    BY DEF None, Optional
  <2> QED BY <2>1, <2>3, <2>4, <2>5
<1>3. CASE ~(opt # None /\ Len(dq) < max)
  BY <1>3 DEF OptionalToQueue
<1> QED BY <1>2, <1>3

(* QueueToOptional keeps an optional an optional and never lengthens a queue. *)
LEMMA QueueToOptionalType ==
    ASSUME NEW T, NEW max \in Nat,
           NEW opt \in Optional(T), NEW dq \in Queue(T, max)
    PROVE  /\ QueueToOptional(dq, opt)[1] \in Queue(T, max)
           /\ QueueToOptional(dq, opt)[2] \in Optional(T)
<1>1. dq \in Seq(T) /\ Len(dq) <= max
  BY DEF Queue
<1>2. CASE opt = None /\ dq # << >>
  <2>1. QueueToOptional(dq, opt) = <<Tail(dq), <<Head(dq)>>>>
    BY <1>2 DEF QueueToOptional
  <2>2. Head(dq) \in T /\ Tail(dq) \in Seq(T) /\ Len(Tail(dq)) = Len(dq) - 1
    BY <1>1, <1>2, HeadTailProperties
  <2>3. Tail(dq) \in Queue(T, max)
    BY <1>1, <2>2, LenProperties DEF Queue
  <2>4. <<Head(dq)>> \in Optional(T)
    BY <2>2, OptionalSingleton
  <2> QED BY <2>1, <2>3, <2>4
<1>3. CASE ~(opt = None /\ dq # << >>)
  BY <1>3 DEF QueueToOptional
<1> QED BY <1>2, <1>3

(* QueueToOptional loses and reorders nothing. *)
LEMMA QueueToOptionalStream ==
    ASSUME NEW T, NEW max \in Nat,
           NEW opt \in Optional(T), NEW dq \in Queue(T, max)
    PROVE  QueueToOptional(dq, opt)[2] \o QueueToOptional(dq, opt)[1] = opt \o dq
<1>1. dq \in Seq(T)
  BY DEF Queue
<1>2. CASE opt = None /\ dq # << >>
  <2>1. QueueToOptional(dq, opt) = <<Tail(dq), <<Head(dq)>>>>
    BY <1>2 DEF QueueToOptional
  <2>2. <<Head(dq)>> \o Tail(dq) = dq
    BY <1>1, <1>2, HeadTailProperties
  <2>3. None \o dq = dq
    BY <1>1, ConcatEmptySeq DEF None
  <2> QED BY <1>2, <2>1, <2>2, <2>3
<1>3. CASE ~(opt = None /\ dq # << >>)
  BY <1>3 DEF QueueToOptional
<1> QED BY <1>2, <1>3

(* A sequence that is not empty is its head followed by its tail. *)
LEMMA HeadThenTail ==
    ASSUME NEW T, NEW q \in Seq(T), q # << >>
    PROVE  /\ Head(q) \in T /\ Tail(q) \in Seq(T)
           /\ <<Head(q)>> \in Seq(T)
           /\ q = <<Head(q)>> \o Tail(q)
<1>1. Head(q) \in T /\ Tail(q) \in Seq(T) /\ <<Head(q)>> \in Seq(T)
  BY HeadTailProperties
<1>2. <<Head(q)>> \o Tail(q) = q
  BY <1>1, HeadTailProperties
<1> QED BY <1>1, <1>2

(* What is popped from a queue and appended to a history keeps the stream. *)
LEMMA PopStream ==
    ASSUME NEW T, NEW s \in Seq(T), NEW q \in Seq(T), NEW o \in Seq(T), q # << >>
    PROVE  Append(s, Head(q)) \o (Tail(q) \o o) = s \o (q \o o)
<1>1. Head(q) \in T /\ Tail(q) \in Seq(T) /\ q = <<Head(q)>> \o Tail(q)
  BY HeadThenTail
<1>2. Append(s, Head(q)) = s \o <<Head(q)>> /\ <<Head(q)>> \in Seq(T)
  BY <1>1, AppendIsConcat
<1>3. Tail(q) \o o \in Seq(T)
  BY <1>1, ConcatProperties
<1>4. (s \o <<Head(q)>>) \o (Tail(q) \o o) = s \o (<<Head(q)>> \o (Tail(q) \o o))
  <2>1. <<Head(q)>> \in Seq(T) /\ s \in Seq(T) /\ Tail(q) \o o \in Seq(T)
    BY <1>2, <1>3
  <2>2. \A x, y \in Seq(T) : (s \o x) \o y = s \o (x \o y)
    BY ConcatAssociative
  <2> QED BY <2>1, <2>2
<1>5. <<Head(q)>> \o (Tail(q) \o o) = (<<Head(q)>> \o Tail(q)) \o o
  BY <1>1, <1>2, ConcatAssociative
<1> QED BY <1>1, <1>2, <1>4, <1>5

-----------------------------------------------------------------------------
(* The state AxiMemory starts in has the right types. *)
LEMMA AxiInitType == AxiInit => AxiTypeOK
<1> SUFFICES ASSUME AxiInit PROVE AxiTypeOK
  OBVIOUS
<1> USE AxiAssumption, PayloadAssumption
<1>1. \A T : << >> \in Optional(T)
  BY DEF Optional
<1>2. \A T : \A max \in Nat : << >> \in Queue(T, max)
  BY DEF Queue
<1>3. memory_space \in [Index -> Word]
  <2>1. Zero \in Word
    BY DEF Zero, Word
  <2>2. \A i \in Index : i < Len(Firmware) => Firmware[i + 1] \in Word
    <3> TAKE i \in Index
    <3> HAVE i < Len(Firmware)
    <3>1. i + 1 \in 1 .. Len(Firmware)
      BY LenProperties DEF Index
    <3> QED BY <3>1, ElementOfSeq
  <2> QED BY <2>1, <2>2 DEF AxiInit, LoadFirmware
<1>4. console \in Seq(Byte)
  BY DEF AxiInit
<1> QED BY <1>1, <1>2, <1>3, <1>4 DEF AxiInit, AxiTypeOK, None

(* A store leaves a memory: it changes at most one word, to a word. *)
LEMMA StoreType ==
    ASSUME NEW mem \in [Index -> Word], NEW addr \in Addr, NEW wd \in WData
    PROVE  Store(mem, addr, wd) \in [Index -> Word]
<1>1. \A dst \in Word : Merge(dst, wd) \in Word
  BY DEF Merge, Word, WData
<1> QED BY <1>1 DEF Store, InRange

(* A load returns a word. *)
LEMMA LoadType ==
    ASSUME NEW mem \in [Index -> Word], NEW addr \in Addr,
           NEW data \in LoadResults(mem, addr)
    PROVE  data \in Word
BY DEF LoadResults, InRange

(* HandleInput_ on each of the three request channels. *)
LEMMA InputStreams ==
    ASSUME AxiTypeOK
    PROVE  /\ ArIn[1] \in Optional(Addr) /\ ArIn[2] \in Queue(Addr, ReqCap)
           /\ ArIn[2] \o ArIn[1] = ar_q \o ar
           /\ AwIn[1] \in Optional(Addr) /\ AwIn[2] \in Queue(Addr, ReqCap)
           /\ AwIn[2] \o AwIn[1] = aw_q \o aw
           /\ WIn[1] \in Optional(WData) /\ WIn[2] \in Queue(WData, ReqCap)
           /\ WIn[2] \o WIn[1] = w_q \o w
<1>1. ReqCap \in Nat \ {0}
  BY AxiAssumption
<1>2. /\ ar \in Optional(Addr) /\ ar_q \in Queue(Addr, ReqCap)
      /\ aw \in Optional(Addr) /\ aw_q \in Queue(Addr, ReqCap)
      /\ w \in Optional(WData) /\ w_q \in Queue(WData, ReqCap)
  BY DEF AxiTypeOK
<1>3. /\ ArIn[1] \in Optional(Addr) /\ ArIn[2] \in Queue(Addr, ReqCap)
      /\ ArIn[2] \o ArIn[1] = ar_q \o ar
  <2>1. ar \in Optional(Addr) /\ ar_q \in Queue(Addr, ReqCap)
    BY <1>2
  <2> QED BY <1>1, <2>1, OptionalToQueueStream, ZenonT(40) DEF ArIn
<1>4. /\ AwIn[1] \in Optional(Addr) /\ AwIn[2] \in Queue(Addr, ReqCap)
      /\ AwIn[2] \o AwIn[1] = aw_q \o aw
  <2>1. aw \in Optional(Addr) /\ aw_q \in Queue(Addr, ReqCap)
    BY <1>2
  <2> QED BY <1>1, <2>1, OptionalToQueueStream, ZenonT(40) DEF AwIn
<1>5. /\ WIn[1] \in Optional(WData) /\ WIn[2] \in Queue(WData, ReqCap)
      /\ WIn[2] \o WIn[1] = w_q \o w
  <2>1. w \in Optional(WData) /\ w_q \in Queue(WData, ReqCap)
    BY <1>2
  <2> QED BY <1>1, <2>1, OptionalToQueueStream, ZenonT(40) DEF WIn
<1> QED BY <1>3, <1>4, <1>5

(* pop_front keeps a queue within its limit. *)
LEMMA QueueTail ==
    ASSUME NEW T, NEW max \in Nat, NEW q \in Queue(T, max), q # << >>
    PROVE  Tail(q) \in Queue(T, max) /\ Head(q) \in T
BY HeadTailProperties, LenProperties DEF Queue

(* push_back keeps a queue within its limit if it was shorter. *)
LEMMA QueueAppend ==
    ASSUME NEW T, NEW max \in Nat, NEW q \in Queue(T, max), Len(q) < max,
           NEW x \in T
    PROVE  /\ Append(q, x) \in Queue(T, max)
           /\ Len(Append(q, x)) = Len(q) + 1
BY AppendProperties, LenProperties DEF Queue

(* Exec_ on the read channel: one request leaves ar_q for one word in r_q,  *)
(* or both stay.                                                            *)
LEMMA ExecReadStep ==
    ASSUME AxiTypeOK, NEW q \in Queue(Addr, ReqCap), ExecRead(q)
    PROVE  /\ ar_q' \in Queue(Addr, ReqCap)
           /\ r_q' \in Queue(Word, RspCap)
           /\ CanRead(q) => /\ q # << >> /\ Head(q) \in Addr /\ ar_q' = Tail(q)
                            /\ \E data \in Word : r_q' = Append(r_q, data)
           /\ ~CanRead(q) => ar_q' = q /\ r_q' = r_q
<1> USE AxiAssumption
<1>1. r_q \in Queue(Word, RspCap) /\ memory_space \in [Index -> Word]
  BY DEF AxiTypeOK
<1>2. CASE CanRead(q)
  <2>1. q # << >> /\ Len(r_q) < RspCap
    BY <1>2 DEF CanRead
  <2>2. Head(q) \in Addr /\ Tail(q) \in Queue(Addr, ReqCap)
    BY <2>1, QueueTail
  <2>3. PICK data \in LoadResults(memory_space, Head(q)) :
              r_q' = Append(r_q, data) /\ ar_q' = Tail(q)
    BY <1>2 DEF ExecRead
  <2>4. data \in Word
    BY <1>1, <2>2, LoadType
  <2>5. Append(r_q, data) \in Queue(Word, RspCap)
    BY <1>1, <2>1, <2>4, QueueAppend
  <2> QED BY <1>2, <2>1, <2>2, <2>3, <2>4, <2>5
<1>3. CASE ~CanRead(q)
  BY <1>1, <1>3 DEF ExecRead
<1> QED BY <1>2, <1>3

(* Exec_ on the write channels: an address and its data leave together for  *)
(* one response, or all stay.                                               *)
LEMMA ExecWriteStep ==
    ASSUME AxiTypeOK, NEW qa \in Queue(Addr, ReqCap),
           NEW qw \in Queue(WData, ReqCap), ExecWrite(qa, qw)
    PROVE  /\ aw_q' \in Queue(Addr, ReqCap)
           /\ w_q' \in Queue(WData, ReqCap)
           /\ b_q' \in Queue({Response}, RspCap)
           /\ memory_space' \in [Index -> Word]
           /\ simulation_passed' \in BOOLEAN
           /\ console' \in Seq(Byte)
           /\ CanWrite(qa, qw) =>
                 /\ qa # << >> /\ qw # << >>
                 /\ Head(qa) \in Addr /\ Head(qw) \in WData
                 /\ aw_q' = Tail(qa) /\ w_q' = Tail(qw)
                 /\ Len(b_q') = Len(b_q) + 1
           /\ ~CanWrite(qa, qw) =>
                 aw_q' = qa /\ w_q' = qw /\ b_q' = b_q
<1> USE AxiAssumption
<1>1. /\ b_q \in Queue({Response}, RspCap)
      /\ memory_space \in [Index -> Word]
      /\ console \in Seq(Byte) /\ simulation_passed \in BOOLEAN
  BY DEF AxiTypeOK
<1>2. CASE CanWrite(qa, qw)
  <2>1. qa # << >> /\ qw # << >> /\ Len(b_q) < RspCap
    BY <1>2 DEF CanWrite
  <2>2. /\ Head(qa) \in Addr /\ Tail(qa) \in Queue(Addr, ReqCap)
        /\ Head(qw) \in WData /\ Tail(qw) \in Queue(WData, ReqCap)
    BY <2>1, QueueTail
  <2>3. /\ memory_space' = Store(memory_space, Head(qa), Head(qw))
        /\ simulation_passed' = (simulation_passed \/ Head(qa) = ExitAddr)
        /\ console' = IF Head(qa) = ConsoleAddr
                        THEN Append(console, Head(qw).data[0]) ELSE console
        /\ b_q' = Append(b_q, Response)
        /\ aw_q' = Tail(qa) /\ w_q' = Tail(qw)
    BY <1>2 DEF ExecWrite
  <2>4. memory_space' \in [Index -> Word]
    BY <1>1, <2>2, <2>3, StoreType
  <2>5. /\ b_q' \in Queue({Response}, RspCap)
        /\ Len(b_q') = Len(b_q) + 1
    BY <1>1, <2>1, <2>3, QueueAppend
  <2>6. Head(qw).data[0] \in Byte
    BY <2>2, PayloadAssumption DEF WData, Word, Lanes
  <2>7. console' \in Seq(Byte)
    BY <1>1, <2>3, <2>6, AppendProperties
  <2>8. simulation_passed' \in BOOLEAN
    BY <2>3
  <2> QED BY <1>2, <2>1, <2>2, <2>3, <2>4, <2>5, <2>7, <2>8
<1>3. CASE ~CanWrite(qa, qw)
  BY <1>1, <1>3 DEF ExecWrite
<1> QED BY <1>2, <1>3

(* HandleInputAndExec keeps the types. *)
LEMMA InputAndExecType == AxiTypeOK /\ HandleInputAndExec => AxiTypeOK'
<1> SUFFICES ASSUME AxiTypeOK, HandleInputAndExec PROVE AxiTypeOK'
  OBVIOUS
<1>1. /\ ar' = ArIn[1] /\ aw' = AwIn[1] /\ w' = WIn[1]
      /\ ExecRead(ArIn[2]) /\ ExecWrite(AwIn[2], WIn[2])
      /\ wild' \in BOOLEAN /\ r' = r /\ b' = b
  BY DEF HandleInputAndExec, Exec_, AxiTypeOK
<1>2. /\ ar_q' \in Queue(Addr, ReqCap) /\ r_q' \in Queue(Word, RspCap)
  BY <1>1, InputStreams, ExecReadStep
<1>3. /\ aw_q' \in Queue(Addr, ReqCap) /\ w_q' \in Queue(WData, ReqCap)
      /\ b_q' \in Queue({Response}, RspCap) /\ memory_space' \in [Index -> Word]
      /\ simulation_passed' \in BOOLEAN /\ console' \in Seq(Byte)
  BY <1>1, InputStreams, ExecWriteStep
<1>4. r \in Optional(Word) /\ b \in Optional({Response})
  BY DEF AxiTypeOK
<1> QED BY <1>1, <1>2, <1>3, <1>4, InputStreams DEF AxiTypeOK

(* HandleOutput keeps the types and both response streams. *)
LEMMA OutputStep ==
    ASSUME AxiTypeOK, HandleOutput
    PROVE  /\ AxiTypeOK'
           /\ r' \o r_q' = r \o r_q
           /\ Len(b') + Len(b_q') = Len(b) + Len(b_q)
<1>1. /\ r \in Optional(Word) /\ r_q \in Queue(Word, RspCap)
      /\ b \in Optional({Response}) /\ b_q \in Queue({Response}, RspCap)
      /\ RspCap \in Nat
  BY AxiAssumption DEF AxiTypeOK
<1>2. /\ r_q' \in Queue(Word, RspCap) /\ r' \in Optional(Word)
      /\ r' \o r_q' = r \o r_q
  <2>1. ROut[1] \in Queue(Word, RspCap) /\ ROut[2] \in Optional(Word)
    BY <1>1, QueueToOptionalType, Zenon DEF ROut
  <2>2. ROut[2] \o ROut[1] = r \o r_q
    BY <1>1, QueueToOptionalStream, Zenon DEF ROut
  <2> QED BY <2>1, <2>2 DEF HandleOutput
<1>3. /\ b_q' \in Queue({Response}, RspCap) /\ b' \in Optional({Response})
      /\ Len(b') + Len(b_q') = Len(b) + Len(b_q)
  <2>1. BOut[1] \in Queue({Response}, RspCap) /\ BOut[2] \in Optional({Response})
    BY <1>1, QueueToOptionalType, Zenon DEF BOut
  <2>2. BOut[2] \o BOut[1] = b \o b_q
    BY <1>1, QueueToOptionalStream, Zenon DEF BOut
  <2>3. /\ Len(BOut[2] \o BOut[1]) = Len(BOut[2]) + Len(BOut[1])
        /\ Len(b \o b_q) = Len(b) + Len(b_q)
    BY <1>1, <2>1, ConcatProperties DEF Optional, Queue
  <2> QED BY <2>1, <2>2, <2>3 DEF HandleOutput
<1>4. UNCHANGED <<ar, aw, w, ar_q, aw_q, w_q, memory_space,
                  simulation_passed, console, wild>>
  BY DEF HandleOutput
<1> QED BY <1>2, <1>3, <1>4 DEF AxiTypeOK

-----------------------------------------------------------------------------
(* Type correctness. *)

(* The loop starts in a state of the right types. *)
LEMMA InitType == Init => TypeOK
<1> SUFFICES ASSUME Init PROVE TypeOK
  OBVIOUS
<1>1. AxiTypeOK
  BY AxiInitType DEF Init
<1>2. \A T : << >> \in Seq(T)
  OBVIOUS
<1> QED BY <1>1, <1>2 DEF Init, TypeOK

(* HandleInputAndExec keeps the types of the loop. *)
LEMMA InputType == TypeOK /\ Input => TypeOK'
<1> SUFFICES ASSUME TypeOK, Input PROVE TypeOK'
  OBVIOUS
<1>1. AxiTypeOK'
  BY InputAndExecType DEF TypeOK, Input
<1>2. AxiTypeOK /\ ExecRead(ArIn[2])
  BY DEF TypeOK, Input, HandleInputAndExec, Exec_
<1>3. /\ ArIn[2] \in Queue(Addr, ReqCap)
      /\ AwIn[2] \in Queue(Addr, ReqCap)
      /\ WIn[2] \in Queue(WData, ReqCap)
  BY <1>2, InputStreams
<1>4. readAddr' \in Seq(Addr) /\ readData' \in Seq(Word) /\ readAfter' \in Seq(Nat)
  <2>1. CASE CanRead(ArIn[2])
    <3>1. Head(ArIn[2]) \in Addr /\ \E data \in Word : r_q' = Append(r_q, data)
      BY <1>2, <1>3, <2>1, ExecReadStep
    <3>2. r_q \in Seq(Word)
      BY <1>2 DEF AxiTypeOK, Queue
    <3>3. r_q'[Len(r_q')] \in Word
      BY <3>1, <3>2, AppendProperties
    <3>4. Len(wroteAddr) \in Nat
      BY LenProperties DEF TypeOK
    <3>5. /\ readAddr' = Append(readAddr, Head(ArIn[2]))
          /\ readData' = Append(readData, r_q'[Len(r_q')])
          /\ readAfter' = Append(readAfter, Len(wroteAddr))
      BY <2>1 DEF Input
    <3>6. readAddr \in Seq(Addr) /\ readData \in Seq(Word) /\ readAfter \in Seq(Nat)
      BY DEF TypeOK
    <3> QED BY <3>1, <3>3, <3>4, <3>5, <3>6, AppendProperties
  <2>2. CASE ~CanRead(ArIn[2])
    BY <2>2 DEF Input, TypeOK
  <2> QED BY <2>1, <2>2
<1>5. wroteAddr' \in Seq(Addr) /\ wroteData' \in Seq(WData)
  <2>1. CASE CanWrite(AwIn[2], WIn[2])
    <3>1. AwIn[2] # << >> /\ WIn[2] # << >>
      BY <2>1 DEF CanWrite
    <3>2. Head(AwIn[2]) \in Addr /\ Head(WIn[2]) \in WData
      BY <1>3, <3>1, HeadTailProperties DEF Queue
    <3>3. /\ wroteAddr' = Append(wroteAddr, Head(AwIn[2]))
          /\ wroteData' = Append(wroteData, Head(WIn[2]))
      BY <2>1 DEF Input
    <3>4. wroteAddr \in Seq(Addr) /\ wroteData \in Seq(WData)
      BY DEF TypeOK
    <3> QED BY <3>2, <3>3, <3>4, AppendProperties
  <2>2. CASE ~CanWrite(AwIn[2], WIn[2])
    BY <2>2 DEF Input, TypeOK
  <2> QED BY <2>1, <2>2
<1> QED BY <1>1, <1>4, <1>5 DEF Input, TypeOK

(* Pre keeps the types of the loop. *)
LEMMA PreType ==
    ASSUME TypeOK, NEW rready \in BOOLEAN, NEW bready \in BOOLEAN,
           Pre(rready, bready)
    PROVE  TypeOK'
<1>1. /\ r \in Optional(Word) /\ b \in Optional({Response})
      /\ gotR \in Seq(Word) /\ gotB \in Nat
  BY DEF TypeOK, AxiTypeOK
<1>2. \A T : None \in Optional(T)
  BY DEF None, Optional
<1>3. r' \in Optional(Word) /\ gotR' \in Seq(Word)
  <2>1. gotR \o r \in Seq(Word)
    BY <1>1, ConcatProperties DEF Optional
  <2> QED BY <1>1, <1>2, <2>1 DEF Pre
<1>4. b' \in Optional({Response}) /\ gotB' \in Nat
  <2>1. Len(b) \in Nat
    BY <1>1, LenProperties DEF Optional
  <2> QED BY <1>1, <1>2, <2>1 DEF Pre
<1> QED BY <1>3, <1>4 DEF Pre, TypeOK, AxiTypeOK, memVars

(* Post keeps the types of the loop. *)
LEMMA PostType == TypeOK /\ Post => TypeOK'
<1> SUFFICES ASSUME TypeOK, Post PROVE TypeOK'
  OBVIOUS
<1>1. ar' \in Optional(Addr) /\ sentAr' \in Seq(Addr) /\ ackedAt' \in Seq(Nat)
  <2>1. SendAr
    BY DEF Post
  <2>2. CASE UNCHANGED <<ar, sentAr, ackedAt>>
    BY <2>2 DEF TypeOK, AxiTypeOK
  <2>3. ASSUME NEW x \in Addr, ar' = <<x>>, sentAr' = Append(sentAr, x),
               ackedAt' = Append(ackedAt, gotB)
        PROVE  ar' \in Optional(Addr) /\ sentAr' \in Seq(Addr) /\ ackedAt' \in Seq(Nat)
    <3>2. sentAr \in Seq(Addr) /\ ackedAt \in Seq(Nat) /\ gotB \in Nat
      BY DEF TypeOK
    <3>3. <<x>> \in Optional(Addr)
      BY OptionalSingleton
    <3> QED BY <2>3, <3>2, <3>3, AppendProperties
  <2> QED BY <2>1, <2>2, <2>3 DEF SendAr
<1>2. aw' \in Optional(Addr) /\ sentAw' \in Seq(Addr)
  <2>1. SendAw
    BY DEF Post
  <2>2. CASE UNCHANGED <<aw, sentAw>>
    BY <2>2 DEF TypeOK, AxiTypeOK
  <2>3. ASSUME NEW x \in Addr, aw' = <<x>>, sentAw' = Append(sentAw, x)
        PROVE  aw' \in Optional(Addr) /\ sentAw' \in Seq(Addr)
    <3>2. sentAw \in Seq(Addr)
      BY DEF TypeOK
    <3>3. <<x>> \in Optional(Addr)
      BY OptionalSingleton
    <3> QED BY <2>3, <3>2, <3>3, AppendProperties
  <2> QED BY <2>1, <2>2, <2>3 DEF SendAw
<1>3. w' \in Optional(WData) /\ sentW' \in Seq(Payload)
  <2>1. SendW
    BY DEF Post
  <2>2. CASE UNCHANGED <<w, sentW>>
    BY <2>2 DEF TypeOK, AxiTypeOK
  <2>3. ASSUME NEW x \in Payload, w' = <<x>>, sentW' = Append(sentW, x)
        PROVE  w' \in Optional(WData) /\ sentW' \in Seq(Payload)
    <3>1. x \in WData
      BY LoopAssumption
    <3>2. sentW \in Seq(Payload)
      BY DEF TypeOK
    <3>3. <<x>> \in Optional(WData)
      BY <3>1, OptionalSingleton
    <3> QED BY <2>3, <3>2, <3>3, AppendProperties
  <2> QED BY <2>1, <2>2, <2>3 DEF SendW
<1> QED BY <1>1, <1>2, <1>3 DEF Post, TypeOK, AxiTypeOK, memVars

(* Every step keeps the types. *)
LEMMA TypeStep == TypeOK /\ [Next]_vars => TypeOK'
<1> SUFFICES ASSUME TypeOK, [Next]_vars PROVE TypeOK'
  OBVIOUS
<1>1. CASE Input
  BY <1>1, InputType
<1>2. CASE Killed
  BY <1>2 DEF Killed, TypeOK, AxiTypeOK, chanVars, memVars, loopVars
<1>3. ASSUME NEW rready \in BOOLEAN, NEW bready \in BOOLEAN, Pre(rready, bready)
      PROVE  TypeOK'
  BY <1>3, PreType
<1>4. CASE Output
  <2>1. AxiTypeOK'
    BY <1>4, OutputStep DEF Output, TypeOK
  <2> QED BY <1>4, <2>1 DEF Output, TypeOK, loopVars
<1>5. CASE Post
  BY <1>5, PostType
<1>6. CASE Leave
  BY <1>6 DEF Leave, TypeOK, AxiTypeOK, chanVars, memVars, loopVars
<1>7. CASE UNCHANGED vars
  BY <1>7 DEF vars, TypeOK, AxiTypeOK, chanVars, memVars, loopVars
<1> QED BY <1>1, <1>2, <1>3, <1>4, <1>5, <1>6, <1>7 DEF Next, Terminated

(* Every state of the loop has the right types, with queues that respect    *)
(* the limits of HandleInput_ and Exec_ and channels of at most one beat.   *)
THEOREM TypeCorrect == Spec => []TypeOK
<1> QED BY InitType, TypeStep, PTL DEF Spec

-----------------------------------------------------------------------------
(* The streams. *)

(* What is put in an empty channel is appended to the stream. *)
LEMMA PushStream ==
    ASSUME NEW T, NEW s \in Seq(T), NEW q \in Seq(T), NEW x \in T
    PROVE  s \o (q \o <<x>>) = Append(s \o (q \o << >>), x)
<1>1. <<x>> \in Seq(T) /\ q \o << >> = q /\ s \o q \in Seq(T)
  BY ConcatEmptySeq, ConcatProperties
<1>2. s \o (q \o <<x>>) = (s \o q) \o <<x>>
  <2>1. \A y \in Seq(T) : (s \o q) \o y = s \o (q \o y)
    BY ConcatAssociative
  <2> QED BY <1>1, <2>1
<1>3. Append(s \o q, x) = (s \o q) \o <<x>>
  BY <1>1, AppendIsConcat
<1> QED BY <1>1, <1>2, <1>3

(* All streams are empty at first. *)
LEMMA InitStreams == Init => Streams
<1> SUFFICES ASSUME Init PROVE Streams
  OBVIOUS
<1>1. << >> \o << >> = << >> /\ Len(<< >>) = 0
  OBVIOUS
<1> QED BY <1>1 DEF Init, AxiInit, None, Streams, ReadStream, WriteStream

(* HandleInputAndExec: a request that is executed leaves the waiting stream *)
(* at its head and is appended to what was executed.                        *)
LEMMA InputReadStream ==
    ASSUME TypeOK, ReadStream, Input
    PROVE  ReadStream'
<1>1. /\ AxiTypeOK /\ ExecRead(ArIn[2]) /\ ar' = ArIn[1] /\ r' = r
      /\ sentAr' = sentAr /\ gotR' = gotR
  BY DEF TypeOK, Input, HandleInputAndExec, Exec_
<1>2. /\ ArIn[1] \in Optional(Addr) /\ ArIn[2] \in Queue(Addr, ReqCap)
      /\ ArIn[2] \o ArIn[1] = ar_q \o ar
  BY <1>1, InputStreams
<1>3. /\ ArIn[1] \in Seq(Addr) /\ ArIn[2] \in Seq(Addr)
      /\ readAddr \in Seq(Addr) /\ readData \in Seq(Word)
      /\ r_q \in Seq(Word) /\ gotR \o r \in Seq(Word)
  BY <1>2, ConcatProperties DEF Optional, Queue, TypeOK, AxiTypeOK
<1>4. CASE CanRead(ArIn[2])
  <2>1. /\ ArIn[2] # << >> /\ ar_q' = Tail(ArIn[2])
        /\ \E data \in Word : r_q' = Append(r_q, data)
    BY <1>1, <1>2, <1>4, ExecReadStep
  <2>2. /\ readAddr' = Append(readAddr, Head(ArIn[2]))
        /\ readData' = Append(readData, r_q'[Len(r_q')])
    BY <1>4 DEF Input
  <2>3. readAddr' \o (ar_q' \o ar') = sentAr'
    <3>1. Append(readAddr, Head(ArIn[2])) \o (Tail(ArIn[2]) \o ArIn[1])
             = readAddr \o (ArIn[2] \o ArIn[1])
      <4>1. \A s, q, o \in Seq(Addr) :
              q # << >> => Append(s, Head(q)) \o (Tail(q) \o o) = s \o (q \o o)
        BY PopStream
      <4> QED BY <1>3, <2>1, <4>1, Zenon
    <3> QED BY <1>1, <1>2, <2>1, <2>2, <3>1 DEF ReadStream
  <2>4. (gotR' \o r') \o r_q' = readData'
    <3>1. PICK data \in Word : r_q' = Append(r_q, data)
      BY <2>1
    <3>2. r_q'[Len(r_q')] = data
      BY <1>3, <3>1, AppendProperties
    <3>3. (gotR \o r) \o Append(r_q, data) = Append((gotR \o r) \o r_q, data)
      <4>1. /\ Append(r_q, data) = r_q \o <<data>> /\ <<data>> \in Seq(Word)
            /\ (gotR \o r) \o r_q \in Seq(Word)
        BY <1>3, AppendIsConcat, ConcatProperties
      <4>2. Append((gotR \o r) \o r_q, data) = ((gotR \o r) \o r_q) \o <<data>>
        BY <4>1, AppendIsConcat
      <4>3. \A x, y, z \in Seq(Word) : (x \o y) \o z = x \o (y \o z)
        BY ConcatAssociative
      <4>4. ((gotR \o r) \o r_q) \o <<data>> = (gotR \o r) \o (r_q \o <<data>>)
        BY <1>3, <4>1, <4>3, Zenon
      <4> QED BY <4>1, <4>2, <4>4
    <3> QED BY <1>1, <2>2, <3>1, <3>2, <3>3 DEF ReadStream
  <2> QED BY <2>3, <2>4 DEF ReadStream
<1>5. CASE ~CanRead(ArIn[2])
  <2>1. ar_q' = ArIn[2] /\ r_q' = r_q /\ readAddr' = readAddr /\ readData' = readData
    BY <1>1, <1>5 DEF ExecRead, Input
  <2> QED BY <1>1, <1>2, <2>1 DEF ReadStream
<1> QED BY <1>4, <1>5

(* The same for the write that HandleInputAndExec does. *)
LEMMA InputWriteStream ==
    ASSUME TypeOK, WriteStream, Input
    PROVE  WriteStream'
<1>1. /\ AxiTypeOK /\ ExecWrite(AwIn[2], WIn[2])
      /\ aw' = AwIn[1] /\ w' = WIn[1] /\ b' = b
      /\ sentAw' = sentAw /\ sentW' = sentW /\ gotB' = gotB
  BY DEF TypeOK, Input, HandleInputAndExec, Exec_
<1>2. /\ AwIn[1] \in Optional(Addr) /\ AwIn[2] \in Queue(Addr, ReqCap)
      /\ AwIn[2] \o AwIn[1] = aw_q \o aw
      /\ WIn[1] \in Optional(WData) /\ WIn[2] \in Queue(WData, ReqCap)
      /\ WIn[2] \o WIn[1] = w_q \o w
  BY <1>1, InputStreams
<1>3. /\ AwIn[1] \in Seq(Addr) /\ AwIn[2] \in Seq(Addr)
      /\ WIn[1] \in Seq(WData) /\ WIn[2] \in Seq(WData)
      /\ wroteAddr \in Seq(Addr) /\ wroteData \in Seq(WData)
      /\ Len(b) \in Nat /\ Len(b_q) \in Nat /\ gotB \in Nat
  BY <1>2, LenProperties DEF Optional, Queue, TypeOK, AxiTypeOK
<1>4. CASE CanWrite(AwIn[2], WIn[2])
  <2>1. /\ AwIn[2] # << >> /\ WIn[2] # << >>
        /\ aw_q' = Tail(AwIn[2]) /\ w_q' = Tail(WIn[2])
        /\ Head(AwIn[2]) \in Addr /\ Head(WIn[2]) \in WData
        /\ Len(b_q') = Len(b_q) + 1
    BY <1>1, <1>2, <1>4, ExecWriteStep
  <2>2. /\ wroteAddr' = Append(wroteAddr, Head(AwIn[2]))
        /\ wroteData' = Append(wroteData, Head(WIn[2]))
    BY <1>4 DEF Input
  <2>3. wroteAddr' \o (aw_q' \o aw') = sentAw'
    <3>1. Append(wroteAddr, Head(AwIn[2])) \o (Tail(AwIn[2]) \o AwIn[1])
             = wroteAddr \o (AwIn[2] \o AwIn[1])
      <4>1. \A s, q, o \in Seq(Addr) :
              q # << >> => Append(s, Head(q)) \o (Tail(q) \o o) = s \o (q \o o)
        BY PopStream
      <4> QED BY <1>3, <2>1, <4>1, Zenon
    <3> QED BY <1>1, <1>2, <2>1, <2>2, <3>1 DEF WriteStream
  <2>4. wroteData' \o (w_q' \o w') = sentW'
    <3>1. Append(wroteData, Head(WIn[2])) \o (Tail(WIn[2]) \o WIn[1])
             = wroteData \o (WIn[2] \o WIn[1])
      <4>1. \A s, q, o \in Seq(WData) :
              q # << >> => Append(s, Head(q)) \o (Tail(q) \o o) = s \o (q \o o)
        BY PopStream
      <4> QED BY <1>3, <2>1, <4>1, Zenon
    <3> QED BY <1>1, <1>2, <2>1, <2>2, <3>1 DEF WriteStream
  <2>5. /\ Len(wroteAddr') = Len(wroteAddr) + 1
        /\ Len(wroteData') = Len(wroteData) + 1
    BY <1>3, <2>1, <2>2, AppendProperties
  <2>6. gotB' + Len(b') + Len(b_q') = Len(wroteAddr')
    <3>1. gotB + Len(b) + Len(b_q) = Len(wroteAddr)
      BY DEF WriteStream
    <3>2. gotB' = gotB /\ b' = b
      BY <1>1
    <3>3. Len(b_q') = Len(b_q) + 1
      BY <2>1
    <3>4. Len(wroteAddr') = Len(wroteAddr) + 1
      BY <2>5
    <3>5. Len(b) \in Nat /\ Len(b_q) \in Nat /\ gotB \in Nat
      BY <1>3
    <3> QED BY <3>1, <3>2, <3>3, <3>4, <3>5
  <2>7. Len(wroteAddr') = Len(wroteData')
    BY <2>5 DEF WriteStream
  <2> QED BY <2>3, <2>4, <2>6, <2>7 DEF WriteStream
<1>5. CASE ~CanWrite(AwIn[2], WIn[2])
  <2>1. /\ aw_q' = AwIn[2] /\ w_q' = WIn[2] /\ b_q' = b_q
        /\ wroteAddr' = wroteAddr /\ wroteData' = wroteData
    BY <1>1, <1>5 DEF ExecWrite, Input
  <2> QED BY <1>1, <1>2, <2>1 DEF WriteStream
<1> QED BY <1>4, <1>5

(* Pre: what is taken from a response channel is appended to what was got. *)
LEMMA PreStreams ==
    ASSUME TypeOK, Streams, NEW rready \in BOOLEAN, NEW bready \in BOOLEAN,
           Pre(rready, bready)
    PROVE  Streams'
<1>1. /\ r \in Seq(Word) /\ gotR \in Seq(Word) /\ gotR \o r \in Seq(Word)
      /\ Len(b) \in Nat /\ Len(b_q) \in Nat /\ gotB \in Nat
  BY ConcatProperties, LenProperties DEF TypeOK, AxiTypeOK, Optional, Queue
<1>2. gotR' \o r' = gotR \o r
  <2>1. (gotR \o r) \o None = gotR \o r
    BY <1>1, ConcatEmptySeq DEF None
  <2> QED BY <2>1 DEF Pre
<1>3. gotB' + Len(b') = gotB + Len(b)
  <2>1. Len(None) = 0
    BY DEF None
  <2> QED BY <1>1, <2>1 DEF Pre
<1>4. UNCHANGED <<ar, aw, w, ar_q, aw_q, w_q, r_q, b_q, sentAr, sentAw, sentW,
                  readAddr, readData, wroteAddr, wroteData>>
  BY DEF Pre, memVars
<1> QED BY <1>2, <1>3, <1>4 DEF Streams, ReadStream, WriteStream

(* HandleOutput moves a response along its stream. *)
LEMMA OutputStreams == TypeOK /\ Streams /\ Output => Streams'
<1> SUFFICES ASSUME TypeOK, Streams, Output PROVE Streams'
  OBVIOUS
<1>1. /\ r \in Seq(Word) /\ r_q \in Seq(Word) /\ gotR \in Seq(Word)
      /\ Len(b) \in Nat /\ Len(b_q) \in Nat /\ gotB \in Nat
  BY LenProperties DEF TypeOK, AxiTypeOK, Optional, Queue
<1>2. /\ AxiTypeOK' /\ r' \o r_q' = r \o r_q
      /\ Len(b') + Len(b_q') = Len(b) + Len(b_q)
  BY OutputStep DEF TypeOK, Output
<1>3. /\ r' \in Seq(Word) /\ r_q' \in Seq(Word)
      /\ Len(b') \in Nat /\ Len(b_q') \in Nat
  BY <1>2, LenProperties DEF AxiTypeOK, Optional, Queue
<1>4. UNCHANGED <<ar, aw, w, ar_q, aw_q, w_q, loopVars>>
  BY DEF Output, HandleOutput
<1>5. (gotR \o r') \o r_q' = (gotR \o r) \o r_q
  <2>1. \A x, y, z \in Seq(Word) : (x \o y) \o z = x \o (y \o z)
    BY ConcatAssociative
  <2>2. (gotR \o r') \o r_q' = gotR \o (r' \o r_q')
    BY <1>1, <1>3, <2>1, Zenon
  <2>3. (gotR \o r) \o r_q = gotR \o (r \o r_q)
    BY <1>1, <2>1, Zenon
  <2> QED BY <1>2, <2>2, <2>3, Zenon
<1>6. gotB + Len(b') + Len(b_q') = gotB + Len(b) + Len(b_q)
  <2>1. /\ Len(b) \in Nat /\ Len(b_q) \in Nat /\ gotB \in Nat
        /\ Len(b') \in Nat /\ Len(b_q') \in Nat
        /\ Len(b') + Len(b_q') = Len(b) + Len(b_q)
    BY <1>1, <1>2, <1>3
  <2> QED BY <2>1
<1> QED BY <1>4, <1>5, <1>6 DEF Streams, ReadStream, WriteStream, loopVars

(* Post: what is put in an empty channel is appended to what was sent. *)
LEMMA PostStreams == TypeOK /\ Streams /\ Post => Streams'
<1> SUFFICES ASSUME TypeOK, Streams, Post PROVE Streams'
  OBVIOUS
<1>1. /\ ar_q \in Seq(Addr) /\ aw_q \in Seq(Addr) /\ w_q \in Seq(WData)
      /\ readAddr \in Seq(Addr) /\ wroteAddr \in Seq(Addr) /\ wroteData \in Seq(WData)
  BY DEF TypeOK, AxiTypeOK, Queue
<1>2. UNCHANGED <<r, b, memVars, readAddr, readData, wroteAddr, wroteData, gotR, gotB>>
  BY DEF Post
<1>3. readAddr \o (ar_q \o ar') = sentAr'
  <2>1. CASE UNCHANGED <<ar, sentAr, ackedAt>>
    BY <2>1 DEF Streams, ReadStream
  <2>2. ASSUME ar = None, NEW x \in Addr, ar' = <<x>>, sentAr' = Append(sentAr, x)
        PROVE  readAddr \o (ar_q \o ar') = sentAr'
    BY <1>1, <2>2, PushStream DEF Streams, ReadStream, None
  <2> QED BY <2>1, <2>2 DEF Post, SendAr
<1>4. wroteAddr \o (aw_q \o aw') = sentAw'
  <2>1. CASE UNCHANGED <<aw, sentAw>>
    BY <2>1 DEF Streams, WriteStream
  <2>2. ASSUME aw = None, NEW x \in Addr, aw' = <<x>>, sentAw' = Append(sentAw, x)
        PROVE  wroteAddr \o (aw_q \o aw') = sentAw'
    BY <1>1, <2>2, PushStream DEF Streams, WriteStream, None
  <2> QED BY <2>1, <2>2 DEF Post, SendAw
<1>5. wroteData \o (w_q \o w') = sentW'
  <2>1. CASE UNCHANGED <<w, sentW>>
    BY <2>1 DEF Streams, WriteStream
  <2>2. ASSUME w = None, NEW x \in Payload, w' = <<x>>, sentW' = Append(sentW, x)
        PROVE  wroteData \o (w_q \o w') = sentW'
    <3>1. x \in WData
      BY LoopAssumption
    <3> QED BY <1>1, <2>2, <3>1, PushStream DEF Streams, WriteStream, None
  <2> QED BY <2>1, <2>2 DEF Post, SendW
<1> QED BY <1>2, <1>3, <1>4, <1>5 DEF Streams, ReadStream, WriteStream, memVars

(* Every step keeps both streams. *)
LEMMA StreamsStep == TypeOK /\ Streams /\ [Next]_vars => Streams'
<1> SUFFICES ASSUME TypeOK, Streams, [Next]_vars PROVE Streams'
  OBVIOUS
<1>1. CASE Input
  BY <1>1, InputReadStream, InputWriteStream DEF Streams
<1>2. CASE Killed \/ Leave \/ UNCHANGED vars
  BY <1>2 DEF Killed, Leave, vars, Streams, ReadStream, WriteStream, chanVars,
              memVars, loopVars
<1>3. ASSUME NEW rready \in BOOLEAN, NEW bready \in BOOLEAN, Pre(rready, bready)
      PROVE  Streams'
  BY <1>3, PreStreams
<1>4. CASE Output
  BY <1>4, OutputStreams
<1>5. CASE Post
  BY <1>5, PostStreams
<1> QED BY <1>1, <1>2, <1>3, <1>4, <1>5 DEF Next, Terminated

(* No request, datum or response is lost, duplicated or reordered between   *)
(* the master and Exec_, in either direction.                               *)
THEOREM StreamsPreserved == Spec => []Streams
<1>1. Spec => []TypeOK
  BY TypeCorrect
<1>2. Spec => []Streams
  BY <1>1, InitStreams, StreamsStep, PTL DEF Spec
<1> QED BY <1>2

-----------------------------------------------------------------------------
(* The order of reads after acknowledged writes. *)

(* What ties the three counts together: a master has taken no more          *)
(* responses than writes were done, at the time it sent any read.           *)
AckedWereDone ==
    /\ Len(readAfter) = Len(readAddr)
    /\ Len(ackedAt) = Len(sentAr)
    /\ \A i \in 1 .. Len(ackedAt) : ackedAt[i] <= Len(wroteAddr)

OrderInv == AckedWereDone /\ ReadAfterAck

(* No read has been sent or done at first. *)
LEMMA InitOrder == Init => OrderInv
BY DEF Init, OrderInv, AckedWereDone, ReadAfterAck

(* A read done now comes after the writes done so far, hence after those acked. *)
LEMMA InputOrder ==
    ASSUME TypeOK, Streams, OrderInv, Input
    PROVE  OrderInv'
<1>1. /\ AxiTypeOK /\ ExecRead(ArIn[2]) /\ UNCHANGED <<sentAr, ackedAt>>
      /\ readAfter \in Seq(Nat) /\ ackedAt \in Seq(Nat)
      /\ readAddr \in Seq(Addr) /\ wroteAddr \in Seq(Addr)
      /\ Len(wroteAddr) \in Nat /\ Len(readAfter) \in Nat /\ Len(ackedAt) \in Nat
  BY LenProperties DEF TypeOK, Input, LoopCondition, HandleInputAndExec, Exec_
<1>2. /\ Len(wroteAddr') \in Nat /\ Len(wroteAddr) <= Len(wroteAddr')
  <2>1. CASE wroteAddr' = wroteAddr
    BY <1>1, <2>1
  <2>2. CASE CanWrite(AwIn[2], WIn[2])
    <3>1. Head(AwIn[2]) \in Addr
      BY <1>1, <2>2, InputStreams, HeadTailProperties DEF CanWrite, Queue
    <3>2. wroteAddr' = Append(wroteAddr, Head(AwIn[2]))
      BY <2>2 DEF Input
    <3> QED BY <1>1, <3>1, <3>2, AppendProperties
  <2> QED BY <2>1, <2>2 DEF Input
<1>3. \A i \in 1 .. Len(ackedAt') : ackedAt'[i] <= Len(wroteAddr')
  <2>1. \A i \in 1 .. Len(ackedAt) : ackedAt[i] \in Nat /\ ackedAt[i] <= Len(wroteAddr)
    BY <1>1, ElementOfSeq DEF OrderInv, AckedWereDone
  <2> QED BY <1>1, <1>2, <2>1
<1>4. CASE CanRead(ArIn[2])
  <2>1. ArIn[2] # << >> /\ Head(ArIn[2]) \in Addr
    BY <1>1, <1>4, InputStreams, ExecReadStep
  <2>2. /\ readAddr' = Append(readAddr, Head(ArIn[2]))
        /\ readAfter' = Append(readAfter, Len(wroteAddr))
    BY <1>4 DEF Input
  <2>3. /\ Len(readAddr') = Len(readAddr) + 1
        /\ Len(readAfter') = Len(readAfter) + 1
        /\ \A i \in 1 .. Len(readAfter) : readAfter'[i] = readAfter[i]
        /\ readAfter'[Len(readAfter) + 1] = Len(wroteAddr)
    BY <1>1, <2>1, <2>2, AppendProperties
  <2>4. Len(readAfter) + 1 <= Len(ackedAt)
    (* the read now done is one of those sent *)
    <3>1. readAddr' \o (ar_q' \o ar') = sentAr
      BY <1>1, InputReadStream DEF Streams, ReadStream
    <3>2. readAddr' \in Seq(Addr) /\ ar_q' \o ar' \in Seq(Addr)
      BY InputType, ConcatProperties DEF TypeOK, AxiTypeOK, Optional, Queue
    <3>3. /\ Len(sentAr) = Len(readAddr') + Len(ar_q' \o ar')
          /\ Len(ar_q' \o ar') \in Nat /\ Len(readAddr') \in Nat
      BY <3>1, <3>2, ConcatProperties, LenProperties
    <3> QED BY <1>1, <2>3, <3>3 DEF OrderInv, AckedWereDone
  <2>5. \A i \in 1 .. Len(readAfter') : ackedAt'[i] <= readAfter'[i]
    <3> TAKE i \in 1 .. Len(readAfter')
    <3>1. ackedAt' = ackedAt
      BY <1>1
    <3>2. CASE i \in 1 .. Len(readAfter)
      BY <2>3, <3>1, <3>2 DEF OrderInv, ReadAfterAck
    <3>3. CASE i = Len(readAfter) + 1
      BY <1>1, <2>3, <2>4, <3>1, <3>3 DEF OrderInv, AckedWereDone
    <3> QED BY <1>1, <2>3, <3>2, <3>3
  <2> QED BY <1>1, <1>3, <2>3, <2>5 DEF OrderInv, AckedWereDone, ReadAfterAck
<1>5. CASE ~CanRead(ArIn[2])
  <2>1. UNCHANGED <<readAddr, readAfter>>
    BY <1>5 DEF Input
  <2> QED BY <1>1, <1>3, <2>1 DEF OrderInv, AckedWereDone, ReadAfterAck
<1> QED BY <1>4, <1>5

(* A read sent now has been preceded by no more responses than writes done. *)
LEMMA PostOrder ==
    ASSUME TypeOK, Streams, OrderInv, Post
    PROVE  OrderInv'
<1>1. /\ sentAr \in Seq(Addr) /\ ackedAt \in Seq(Nat) /\ readAfter \in Seq(Nat)
      /\ readAddr \in Seq(Addr) /\ gotB \in Nat /\ Len(ackedAt) \in Nat
      /\ Len(b) \in Nat /\ Len(b_q) \in Nat
      /\ UNCHANGED <<readAddr, readAfter, wroteAddr>>
  BY LenProperties DEF TypeOK, AxiTypeOK, Optional, Queue, Post
<1>2. Len(readAfter) <= Len(ackedAt)
  <2>1. readAddr \o (ar_q \o ar) = sentAr /\ ar_q \o ar \in Seq(Addr)
    BY ConcatProperties DEF Streams, ReadStream, TypeOK, AxiTypeOK, Optional, Queue
  <2>2. /\ Len(sentAr) = Len(readAddr) + Len(ar_q \o ar)
        /\ Len(ar_q \o ar) \in Nat /\ Len(readAddr) \in Nat
    BY <1>1, <2>1, ConcatProperties, LenProperties
  <2> QED BY <2>2 DEF OrderInv, AckedWereDone
<1>3. CASE UNCHANGED <<ar, sentAr, ackedAt>>
  BY <1>1, <1>3 DEF OrderInv, AckedWereDone, ReadAfterAck
<1>4. ASSUME NEW x \in Addr, sentAr' = Append(sentAr, x),
             ackedAt' = Append(ackedAt, gotB)
      PROVE  OrderInv'
  <2>1. gotB <= Len(wroteAddr)
    BY <1>1 DEF Streams, WriteStream
  <2>2. /\ Len(sentAr') = Len(sentAr) + 1
        /\ Len(ackedAt') = Len(ackedAt) + 1
        /\ \A i \in 1 .. Len(ackedAt) : ackedAt'[i] = ackedAt[i]
        /\ ackedAt'[Len(ackedAt) + 1] = gotB
    BY <1>1, <1>4, AppendProperties
  <2>3. \A i \in 1 .. Len(ackedAt') : ackedAt'[i] <= Len(wroteAddr)
    <3> TAKE i \in 1 .. Len(ackedAt')
    <3>1. CASE i \in 1 .. Len(ackedAt)
      BY <2>2, <3>1 DEF OrderInv, AckedWereDone
    <3>2. CASE i = Len(ackedAt) + 1
      BY <2>1, <2>2, <3>2
    <3>3. i \in 1 .. Len(ackedAt) \/ i = Len(ackedAt) + 1
      <4>1. \A n \in Nat : \A k \in 1 .. n + 1 : k \in 1 .. n \/ k = n + 1
        OBVIOUS
      <4>2. Len(ackedAt) \in Nat /\ Len(ackedAt') = Len(ackedAt) + 1
        BY <1>1, <2>2
      <4> QED BY <4>1, <4>2
    <3> QED BY <3>1, <3>2, <3>3
  <2>4. \A i \in 1 .. Len(readAfter) : ackedAt'[i] <= readAfter[i]
    <3>1. Len(readAfter) \in Nat /\ Len(ackedAt) \in Nat
      BY <1>1, LenProperties
    <3>2. \A i \in 1 .. Len(readAfter) : i \in 1 .. Len(ackedAt)
      BY <1>2, <3>1
    <3>3. \A i \in 1 .. Len(readAfter) : ackedAt[i] <= readAfter[i]
      BY DEF OrderInv, ReadAfterAck
    <3>4. readAfter' = readAfter
      BY <1>1
    <3> QED BY <2>2, <3>2, <3>3, <3>4
  <2> QED BY <1>1, <2>2, <2>3, <2>4 DEF OrderInv, AckedWereDone, ReadAfterAck
<1> QED BY <1>3, <1>4 DEF Post, SendAr

(* Every step keeps the order of reads and acknowledged writes. *)
LEMMA OrderStep == TypeOK /\ Streams /\ OrderInv /\ [Next]_vars => OrderInv'
<1> SUFFICES ASSUME TypeOK, Streams, OrderInv, [Next]_vars PROVE OrderInv'
  OBVIOUS
<1>1. CASE Input
  BY <1>1, InputOrder
<1>2. CASE Post
  BY <1>2, PostOrder
<1>3. CASE UNCHANGED <<sentAr, ackedAt, readAddr, readAfter, wroteAddr>>
  BY <1>3 DEF OrderInv, AckedWereDone, ReadAfterAck
<1>4. ASSUME NEW rready \in BOOLEAN, NEW bready \in BOOLEAN, Pre(rready, bready)
      PROVE  UNCHANGED <<sentAr, ackedAt, readAddr, readAfter, wroteAddr>>
  BY <1>4 DEF Pre
<1>5. CASE Killed \/ Output \/ Leave \/ UNCHANGED vars
  BY <1>3, <1>5 DEF Killed, Output, Leave, vars, loopVars
<1> QED BY <1>1, <1>2, <1>3, <1>4, <1>5 DEF Next, Terminated

(* A read the master sends after it took the response of a write is done    *)
(* on a memory that has the write.  The argument: every response stands for *)
(* a write that was done (WriteStream), so the responses taken when a read  *)
(* is sent never outnumber the writes done (AckedWereDone), and the writes  *)
(* done only grow until the read is done.                                   *)
THEOREM ReadsSeeAckedWrites == Spec => []ReadAfterAck
<1>1. TypeOK /\ Streams /\ OrderInv /\ [Next]_vars => (TypeOK /\ Streams /\ OrderInv)'
  BY TypeStep, StreamsStep, OrderStep
<1>2. Init => TypeOK /\ Streams /\ OrderInv
  BY InitType, InitStreams, InitOrder
<1>3. OrderInv => ReadAfterAck
  BY DEF OrderInv
<1> QED BY <1>1, <1>2, <1>3, PTL DEF Spec

-----------------------------------------------------------------------------
(* The exit. *)

(* Every step keeps ExitIsLast: the loop condition stops Exec_ after the exit. *)
LEMMA ExitStep == TypeOK /\ ExitIsLast /\ [Next]_vars => ExitIsLast'
<1> SUFFICES ASSUME TypeOK, ExitIsLast, [Next]_vars PROVE ExitIsLast'
  OBVIOUS
<1>1. CASE UNCHANGED <<wroteAddr, simulation_passed>>
  BY <1>1 DEF ExitIsLast
<1>2. CASE Input
  <2>1. /\ AxiTypeOK /\ ~simulation_passed /\ ExecWrite(AwIn[2], WIn[2])
        /\ wroteAddr \in Seq(Addr) /\ Len(wroteAddr) \in Nat
    BY <1>2, LenProperties DEF TypeOK, Input, LoopCondition, HandleInputAndExec, Exec_
  <2>2. \A i \in 1 .. Len(wroteAddr) : wroteAddr[i] # ExitAddr
    BY <2>1 DEF ExitIsLast
  <2>3. CASE CanWrite(AwIn[2], WIn[2])
    <3>1. Head(AwIn[2]) \in Addr
      BY <2>1, <2>3, InputStreams, HeadTailProperties DEF CanWrite, Queue
    <3>2. /\ wroteAddr' = Append(wroteAddr, Head(AwIn[2]))
          /\ simulation_passed' = (Head(AwIn[2]) = ExitAddr)
      BY <1>2, <2>1, <2>3 DEF Input, ExecWrite
    <3>3. /\ Len(wroteAddr') = Len(wroteAddr) + 1
          /\ \A i \in 1 .. Len(wroteAddr) : wroteAddr'[i] = wroteAddr[i]
          /\ wroteAddr'[Len(wroteAddr) + 1] = Head(AwIn[2])
      BY <2>1, <3>1, <3>2, AppendProperties
    <3>4. ASSUME NEW i \in 1 .. Len(wroteAddr')
          PROVE  wroteAddr'[i] = ExitAddr <=> (i = Len(wroteAddr') /\ simulation_passed')
      <4>1. CASE i \in 1 .. Len(wroteAddr)
        BY <2>1, <2>2, <3>3, <4>1
      <4>2. CASE i = Len(wroteAddr) + 1
        BY <3>2, <3>3, <4>2
      <4>3. i \in 1 .. Len(wroteAddr) \/ i = Len(wroteAddr) + 1
        BY <2>1, <3>3
      <4> QED BY <4>1, <4>2, <4>3
    <3> QED BY <3>4 DEF ExitIsLast
  <2>4. CASE ~CanWrite(AwIn[2], WIn[2])
    BY <1>1, <1>2, <2>1, <2>4 DEF Input, ExecWrite
  <2> QED BY <2>3, <2>4
<1>3. ASSUME NEW rready \in BOOLEAN, NEW bready \in BOOLEAN, Pre(rready, bready)
      PROVE  UNCHANGED <<wroteAddr, simulation_passed>>
  BY <1>3 DEF Pre, memVars
<1>4. CASE Killed \/ Output \/ Post \/ Leave \/ UNCHANGED vars
  BY <1>1, <1>4 DEF Killed, Output, HandleOutput, Post, Leave, vars, memVars, loopVars
<1> QED BY <1>1, <1>2, <1>3, <1>4 DEF Next, Terminated

(* simulation_passed says exactly that the last write done was to the exit *)
(* address, and no write is done after such a write.                       *)
THEOREM ExitEndsTheRun == Spec => []ExitIsLast
<1>1. Init => ExitIsLast
  BY DEF Init, ExitIsLast
<1> QED BY <1>1, TypeCorrect, ExitStep, PTL DEF Spec

-----------------------------------------------------------------------------
(* The replay. *)

(* One write done on the memory and the console of x. *)
Redo(x, addr, wd) ==
    [mem |-> Store(x.mem, addr, wd),
     out |-> IF addr = ConsoleAddr THEN Append(x.out, wd.data[0]) ELSE x.out]

Fresh == [mem |-> LoadFirmware, out |-> << >>]

(* f is the replay of the writes of aw and wd. *)
IsReplay(f, aw_, wd_) ==
    f = [n \in Nat |-> IF n = 0 THEN Fresh ELSE Redo(f[n - 1], aw_[n], wd_[n])]

(* It is as far as the n-th write. *)
IsReplayTo(f, n, aw_, wd_) ==
    /\ f[0] = Fresh
    /\ \A i \in 1 .. n : f[i] = Redo(f[i - 1], aw_[i], wd_[i])

(* There is a replay of any number of writes. *)
LEMMA ReplayToExists ==
    ASSUME NEW aw_, NEW wd_
    PROVE  \A n \in Nat : \E f : IsReplayTo(f, n, aw_, wd_)
<1> DEFINE S == {n \in Nat : \E f : IsReplayTo(f, n, aw_, wd_)}
<1>1. 0 \in S
  <2> DEFINE f == [i \in 0 .. 0 |-> Fresh]
  <2>1. f[0] = Fresh
    OBVIOUS
  <2> HIDE DEF f
  <2>2. IsReplayTo(f, 0, aw_, wd_)
    BY <2>1 DEF IsReplayTo
  <2> QED BY <2>2
<1>2. \A n \in Nat : n \in S => n + 1 \in S
  <2> SUFFICES ASSUME NEW n \in Nat, NEW f, IsReplayTo(f, n, aw_, wd_)
               PROVE  \E g : IsReplayTo(g, n + 1, aw_, wd_)
    OBVIOUS
  <2> DEFINE x == Redo(f[n], aw_[n + 1], wd_[n + 1])
             g == [i \in 0 .. n + 1 |-> IF i = n + 1 THEN x ELSE f[i]]
  <2>1. /\ g[n + 1] = x
        /\ \A i \in 0 .. n : g[i] = f[i]
    <3> HIDE DEF x
    <3> QED OBVIOUS
  <2>2. g[0] = Fresh
    BY <2>1 DEF IsReplayTo
  <2>3. ASSUME NEW i \in 1 .. n + 1
        PROVE  g[i] = Redo(g[i - 1], aw_[i], wd_[i])
    <3> HIDE DEF g
    <3>1. CASE i = n + 1
      <4>1. i - 1 = n /\ n \in 0 .. n
        BY <3>1
      <4>2. g[i] = Redo(f[n], aw_[i], wd_[i])
        BY <2>1, <3>1
      <4>3. g[i - 1] = f[n]
        <5> HIDE DEF x
        <5> QED BY <2>1, <4>1
      <4> QED BY <4>2, <4>3
    <3>2. CASE i \in 1 .. n
      <4>1. i \in 0 .. n /\ i - 1 \in 0 .. n
        BY <3>2
      <4>2. g[i] = f[i] /\ g[i - 1] = f[i - 1]
        BY <2>1, <4>1
      <4> QED BY <3>2, <4>2 DEF IsReplayTo
    <3> QED BY <3>1, <3>2
  <2> HIDE DEF g
  <2>4. IsReplayTo(g, n + 1, aw_, wd_)
    BY <2>1, <2>2, <2>3 DEF IsReplayTo
  <2> QED BY <2>4
<1> HIDE DEF S
<1>3. Nat \subseteq S
  BY <1>1, <1>2, Induct
<1> QED BY <1>3 DEF S

(* Replays of writes that agree up to the n-th agree up to there. *)
LEMMA ReplaysAgree ==
    ASSUME NEW f, NEW g, NEW aw1, NEW wd1, NEW aw2, NEW wd2, NEW m \in Nat, NEW n \in Nat,
           IsReplayTo(f, m, aw1, wd1), IsReplayTo(g, n, aw2, wd2),
           \A i \in 1 .. m : aw1[i] = aw2[i] /\ wd1[i] = wd2[i], m <= n
    PROVE  \A i \in 0 .. m : f[i] = g[i]
<1> DEFINE S == {i \in Nat : i <= m => f[i] = g[i]}
<1>1. 0 \in S
  BY DEF IsReplayTo
<1>2. \A i \in Nat : i \in S => i + 1 \in S
  <2> SUFFICES ASSUME NEW i \in Nat, f[i] = g[i], i + 1 <= m
               PROVE  f[i + 1] = g[i + 1]
    OBVIOUS
  <2>1. i + 1 \in 1 .. m /\ i + 1 \in 1 .. n /\ (i + 1) - 1 = i
    OBVIOUS
  <2>2. f[i + 1] = Redo(f[i], aw1[i + 1], wd1[i + 1])
    BY <2>1 DEF IsReplayTo
  <2>3. g[i + 1] = Redo(g[i], aw2[i + 1], wd2[i + 1])
    BY <2>1 DEF IsReplayTo
  <2> QED BY <2>1, <2>2, <2>3
<1> HIDE DEF S
<1>3. Nat \subseteq S
  BY <1>1, <1>2, Induct
<1> QED BY <1>3 DEF S

(* Hence there is a replay of all of them. *)
LEMMA ReplayExists ==
    ASSUME NEW aw_, NEW wd_
    PROVE  \E f : IsReplay(f, aw_, wd_)
<1> DEFINE part(n) == CHOOSE f : IsReplayTo(f, n, aw_, wd_)
           f == [n \in Nat |-> part(n)[n]]
<1>1. \A n \in Nat : IsReplayTo(part(n), n, aw_, wd_)
  BY ReplayToExists
<1> HIDE DEF part
<1>2. f[0] = Fresh
  BY <1>1 DEF IsReplayTo
<1>3. ASSUME NEW n \in Nat \ {0}
      PROVE  f[n] = Redo(f[n - 1], aw_[n], wd_[n])
  <2>1. n - 1 \in Nat /\ n \in 1 .. n /\ n - 1 \in 0 .. n - 1 /\ n - 1 <= n
    OBVIOUS
  <2>2. IsReplayTo(part(n), n, aw_, wd_) /\ IsReplayTo(part(n - 1), n - 1, aw_, wd_)
    BY <1>1, <2>1
  <2>3. part(n - 1)[n - 1] = part(n)[n - 1]
    BY <2>1, <2>2, ReplaysAgree
  <2>4. part(n)[n] = Redo(part(n)[n - 1], aw_[n], wd_[n])
    BY <2>1, <2>2 DEF IsReplayTo
  <2> QED BY <2>1, <2>3, <2>4
<1>4. f = [n \in Nat |-> f[n]]
  OBVIOUS
<1> HIDE DEF f
<1>5. f = [n \in Nat |-> IF n = 0 THEN Fresh ELSE Redo(f[n - 1], aw_[n], wd_[n])]
  <2>1. \A n \in Nat : f[n] = IF n = 0 THEN Fresh ELSE Redo(f[n - 1], aw_[n], wd_[n])
    BY <1>2, <1>3
  <2> QED BY <1>4, <2>1
<1> QED BY <1>5 DEF IsReplay

(* Replay is one. *)
LEMMA ReplayIs == IsReplay(Replay, sentAw, sentW)
<1>1. Replay = CHOOSE f : IsReplay(f, sentAw, sentW)
  BY DEF Replay, IsReplay, Redo, Fresh
<1> QED BY <1>1, ReplayExists

(* It starts with the firmware and goes on write by write. *)
LEMMA ReplayFollows ==
    ASSUME NEW f, NEW aw_, NEW wd_, IsReplay(f, aw_, wd_)
    PROVE  \A n \in Nat : IsReplayTo(f, n, aw_, wd_)
<1> SUFFICES ASSUME NEW n \in Nat PROVE IsReplayTo(f, n, aw_, wd_)
  OBVIOUS
<1>1. \A i \in Nat : f[i] = IF i = 0 THEN Fresh ELSE Redo(f[i - 1], aw_[i], wd_[i])
  BY DEF IsReplay
<1>2. \A i \in 1 .. n : i \in Nat /\ i # 0
  OBVIOUS
<1> QED BY <1>1, <1>2 DEF IsReplayTo

(* What has been done is the beginning of what has been sent. *)
DoneWereSent ==
    /\ \A i \in 1 .. Len(readAddr) : sentAr[i] = readAddr[i]
    /\ \A i \in 1 .. Len(wroteAddr) : sentAw[i] = wroteAddr[i]
    /\ \A i \in 1 .. Len(wroteData) : sentW[i] = wroteData[i]

(* The streams say so. *)
LEMMA StreamsSay == TypeOK /\ Streams => DoneWereSent
<1> SUFFICES ASSUME TypeOK, Streams PROVE DoneWereSent
  OBVIOUS
<1>1. /\ readAddr \in Seq(Addr) /\ ar_q \o ar \in Seq(Addr)
      /\ wroteAddr \in Seq(Addr) /\ aw_q \o aw \in Seq(Addr)
      /\ wroteData \in Seq(WData) /\ w_q \o w \in Seq(WData)
  BY ConcatProperties DEF TypeOK, AxiTypeOK, Optional, Queue
<1>2. ASSUME NEW T, NEW x \in Seq(T), NEW y \in Seq(T)
      PROVE  \A i \in 1 .. Len(x) : (x \o y)[i] = x[i]
  BY <1>2, ConcatProperties
<1>3. \A i \in 1 .. Len(readAddr) : sentAr[i] = readAddr[i]
  BY <1>1, <1>2 DEF Streams, ReadStream
<1>4. \A i \in 1 .. Len(wroteAddr) : sentAw[i] = wroteAddr[i]
  BY <1>1, <1>2 DEF Streams, WriteStream
<1>5. \A i \in 1 .. Len(wroteData) : sentW[i] = wroteData[i]
  BY <1>1, <1>2 DEF Streams, WriteStream
<1> QED BY <1>3, <1>4, <1>5 DEF DoneWereSent

(* The writes done are replayed the same, whatever is sent after them. *)
LEMMA ReplayStays ==
    ASSUME TypeOK, Streams, [Next]_vars
    PROVE  \A n \in 0 .. Len(wroteAddr) : Replay'[n] = Replay[n]
<1>1. /\ TypeOK' /\ Streams' /\ Len(wroteAddr) \in Nat
      /\ Len(wroteAddr) = Len(wroteData)
  BY TypeStep, StreamsStep, LenProperties DEF TypeOK, Streams, WriteStream
<1>2. IsReplay(Replay, sentAw, sentW) /\ IsReplay(Replay, sentAw, sentW)'
  BY ReplayIs, PTL
<1>3. /\ IsReplayTo(Replay, Len(wroteAddr), sentAw, sentW)
      /\ IsReplayTo(Replay', Len(wroteAddr), sentAw', sentW')
  <2>1. IsReplay(Replay', sentAw', sentW')
    BY <1>2 DEF IsReplay, Fresh, LoadFirmware, Redo, Store, InRange, WordIndex, Merge
  <2> QED BY <1>1, <1>2, <2>1, ReplayFollows
<1>4. ASSUME \A i \in 1 .. Len(wroteAddr) : sentAw'[i] = sentAw[i] /\ sentW'[i] = sentW[i]
      PROVE  \A n \in 0 .. Len(wroteAddr) : Replay'[n] = Replay[n]
  <2> DEFINE m == Len(wroteAddr)
             after == Replay'
             now == Replay
  <2>1. /\ m \in Nat /\ m <= m
        /\ IsReplayTo(now, m, sentAw, sentW) /\ IsReplayTo(after, m, sentAw', sentW')
        /\ \A i \in 1 .. m : sentAw'[i] = sentAw[i] /\ sentW'[i] = sentW[i]
    BY <1>1, <1>3, <1>4
  <2> HIDE DEF m, after, now
  <2>2. \A i \in 0 .. m : after[i] = now[i]
    BY <2>1, ReplaysAgree
  <2> QED BY <2>2 DEF m, after, now
<1>5. CASE UNCHANGED <<sentAw, sentW>>
  BY <1>4, <1>5
<1>6. CASE Post
  <2>1. DoneWereSent /\ DoneWereSent'
    BY <1>1, StreamsSay, PTL
  <2>3. wroteAddr' = wroteAddr /\ wroteData' = wroteData
    BY <1>6 DEF Post
  <2>4. \A i \in 1 .. Len(wroteAddr) : sentAw'[i] = sentAw[i] /\ sentW'[i] = sentW[i]
    BY <1>1, <2>1, <2>3 DEF DoneWereSent
  <2> QED BY <1>1, <1>4, <2>4
<1>7. Post \/ UNCHANGED <<sentAw, sentW>>
  BY DEF Next, Input, Killed, Pre, Output, Leave, Terminated, vars, loopVars
<1> QED BY <1>5, <1>6, <1>7

(* What a read got is what the memory had after the writes done before it.  *)
ReadsDone ==
    /\ Len(readData) = Len(readAddr)
    /\ \A i \in 1 .. Len(readAddr) :
          /\ readAfter[i] \in 0 .. Len(wroteAddr)
          /\ InRange(readAddr[i]) =>
                readData[i] = Replay[readAfter[i]].mem[WordIndex(readAddr[i])]

ReplayInv == EffectsAreReplay /\ ReadsDone

(* Nothing has been written or read at first. *)
LEMMA InitReplay == Init => ReplayInv
<1> SUFFICES ASSUME Init PROVE ReplayInv
  OBVIOUS
<1>1. Len(readData) = 0 /\ Len(readAddr) = 0 /\ Len(wroteAddr) = 0
  BY DEF Init
<1>2. Replay[0] = Fresh
  BY ReplayIs, ReplayFollows DEF IsReplayTo
<1>3. memory_space = LoadFirmware /\ console = << >>
  BY DEF Init, AxiInit
<1>4. EffectsAreReplay
  BY <1>1, <1>2, <1>3 DEF EffectsAreReplay, Fresh
<1>5. ReadsDone
  BY <1>1 DEF ReadsDone
<1> QED BY <1>4, <1>5 DEF ReplayInv

(* The write HandleInputAndExec does is the next one of the replay. *)
LEMMA InputEffects ==
    ASSUME TypeOK, Streams, EffectsAreReplay, Input
    PROVE  EffectsAreReplay'
<1> DEFINE n == Len(wroteAddr)
<1>1. /\ TypeOK' /\ Streams' /\ n \in Nat /\ [Next]_vars /\ Len(wroteData) = n
      /\ wroteAddr \in Seq(Addr) /\ wroteData \in Seq(WData)
  BY TypeStep, StreamsStep, LenProperties DEF TypeOK, Next, Streams, WriteStream
<1>2. /\ AxiTypeOK /\ ExecWrite(AwIn[2], WIn[2])
      /\ sentAw' = sentAw /\ sentW' = sentW
  BY DEF TypeOK, Input, HandleInputAndExec, Exec_
<1>3. /\ AwIn[2] \in Queue(Addr, ReqCap) /\ WIn[2] \in Queue(WData, ReqCap)
  BY <1>2, InputStreams
<1>4. Replay'[n] = [mem |-> memory_space, out |-> console]
  <2>1. Replay'[n] = Replay[n]
    <3>1. n \in 0 .. n
      BY <1>1
    <3> QED BY <1>1, <3>1, ReplayStays
  <2> QED BY <2>1 DEF EffectsAreReplay
<1>5. CASE CanWrite(AwIn[2], WIn[2])
  <2> DEFINE addr == Head(AwIn[2])
             wd   == Head(WIn[2])
  <2>1. addr \in Addr /\ wd \in WData
    BY <1>3, <1>5, HeadTailProperties DEF CanWrite, Queue
  <2>2. wroteAddr' = Append(wroteAddr, addr) /\ wroteData' = Append(wroteData, wd)
    BY <1>5 DEF Input
  <2>3. /\ memory_space' = Store(memory_space, addr, wd)
        /\ console' = IF addr = ConsoleAddr THEN Append(console, wd.data[0]) ELSE console
    BY <1>2, <1>5 DEF ExecWrite
  <2> HIDE DEF addr, wd, n
  <2>4. /\ Len(wroteAddr') = n + 1 /\ Len(wroteData') = n + 1
        /\ wroteAddr'[n + 1] = addr /\ wroteData'[n + 1] = wd
    BY <1>1, <2>1, <2>2, AppendProperties DEF n
  <2>5. DoneWereSent'
    BY <1>1, StreamsSay, PTL
  <2>6. sentAw'[n + 1] = addr /\ sentW'[n + 1] = wd
    <3>1. n + 1 \in 1 .. n + 1
      BY <1>1
    <3> QED BY <2>4, <2>5, <3>1 DEF DoneWereSent
  <2>7. Replay'[n + 1] = Redo(Replay'[n], addr, wd)
    <3>1. IsReplay(Replay, sentAw, sentW)'
      BY ReplayIs, PTL
    <3>2. IsReplay(Replay', sentAw', sentW')
      BY <3>1 DEF IsReplay, Fresh, LoadFirmware, Redo, Store, InRange, WordIndex, Merge
    <3>3. IsReplayTo(Replay', n + 1, sentAw', sentW')
      <4>1. n + 1 \in Nat
        BY <1>1
      <4> QED BY <3>2, <4>1, ReplayFollows
    <3>4. n + 1 \in 1 .. n + 1 /\ (n + 1) - 1 = n
      BY <1>1
    <3> QED BY <2>6, <3>3, <3>4 DEF IsReplayTo
  <2>8. Replay'[n + 1] = [mem |-> memory_space', out |-> console']
    BY <1>4, <2>3, <2>7 DEF Redo
  <2> QED BY <2>4, <2>8 DEF EffectsAreReplay
<1>6. CASE ~CanWrite(AwIn[2], WIn[2])
  <2>1. UNCHANGED <<wroteAddr, memory_space, console>>
    BY <1>2, <1>6 DEF Input, ExecWrite
  <2> QED BY <1>4, <2>1 DEF EffectsAreReplay
<1> QED BY <1>5, <1>6

(* Writes that are done remain done. *)
LEMMA WritesGrow ==
    ASSUME TypeOK, [Next]_vars
    PROVE  /\ Len(wroteAddr) \in Nat /\ Len(wroteAddr') \in Nat
           /\ Len(wroteAddr) <= Len(wroteAddr')
<1>1. wroteAddr \in Seq(Addr) /\ wroteAddr' \in Seq(Addr)
  BY TypeStep DEF TypeOK
<1>2. CASE wroteAddr' = wroteAddr
  BY <1>1, <1>2, LenProperties
<1>3. ASSUME NEW x, wroteAddr' = Append(wroteAddr, x)
      PROVE  Len(wroteAddr') = Len(wroteAddr) + 1
  BY <1>1, <1>3
<1>4. wroteAddr' = wroteAddr \/ \E x : wroteAddr' = Append(wroteAddr, x)
  BY DEF Next, Input, Killed, Pre, Output, Post, Leave, Terminated, vars, loopVars
<1> QED BY <1>1, <1>2, <1>3, <1>4, LenProperties

(* What is said of the reads done goes on being so while writes are done.   *)
LEMMA ReadsDoneStay ==
    ASSUME TypeOK, Streams, ReadsDone, [Next]_vars, NEW i \in 1 .. Len(readAddr)
    PROVE  /\ readAfter[i] \in 0 .. Len(wroteAddr')
           /\ InRange(readAddr[i]) =>
                 readData[i] = Replay'[readAfter[i]].mem[WordIndex(readAddr[i])]
<1>1. readAfter[i] \in 0 .. Len(wroteAddr)
  BY DEF ReadsDone
<1>2. Replay'[readAfter[i]] = Replay[readAfter[i]]
  BY <1>1, ReplayStays
<1>3. Len(wroteAddr) \in Nat /\ Len(wroteAddr') \in Nat /\ Len(wroteAddr) <= Len(wroteAddr')
  BY WritesGrow
<1> QED BY <1>1, <1>2, <1>3 DEF ReadsDone

(* The read HandleInputAndExec does sees the writes done in earlier          *)
(* iterations.                                                               *)
LEMMA InputReads ==
    ASSUME TypeOK, Streams, OrderInv, ReplayInv, Input
    PROVE  ReadsDone'
<1>1. /\ AxiTypeOK /\ ExecRead(ArIn[2]) /\ [Next]_vars
      /\ readAddr \in Seq(Addr) /\ readData \in Seq(Word) /\ readAfter \in Seq(Nat)
      /\ r_q \in Seq(Word)
      /\ Len(wroteAddr) \in Nat /\ Len(readAddr) \in Nat
      /\ Len(readAfter) = Len(readAddr) /\ Len(readData) = Len(readAddr)
  BY LenProperties DEF TypeOK, AxiTypeOK, Queue, Input, HandleInputAndExec, Exec_, Next,
                       OrderInv, AckedWereDone, ReplayInv, ReadsDone
<1>2. ASSUME NEW i \in 1 .. Len(readAddr)
      PROVE  /\ readAfter[i] \in 0 .. Len(wroteAddr')
             /\ InRange(readAddr[i]) =>
                   readData[i] = Replay'[readAfter[i]].mem[WordIndex(readAddr[i])]
  BY <1>1, ReadsDoneStay DEF ReplayInv
<1>3. CASE CanRead(ArIn[2])
  <2> DEFINE n == Len(readAddr)
             addr == Head(ArIn[2])
             data == r_q'[Len(r_q')]
             after == Len(wroteAddr)
  <2>1. /\ readAddr' = Append(readAddr, addr)
        /\ readData' = Append(readData, data)
        /\ readAfter' = Append(readAfter, after)
    BY <1>3 DEF Input
  <2>2. addr \in Addr /\ data \in LoadResults(memory_space, addr) /\ data \in Word
    <3>1. addr \in Addr
      BY <1>1, <1>3, InputStreams, ExecReadStep
    <3>2. PICK x \in LoadResults(memory_space, addr) : r_q' = Append(r_q, x)
      BY <1>1, <1>3 DEF ExecRead
    <3>3. x \in Word
      BY <1>1, <3>1, <3>2, LoadType DEF AxiTypeOK
    <3>4. data = x
      BY <1>1, <3>2, <3>3, AppendProperties
    <3> QED BY <3>1, <3>2, <3>3, <3>4
  <2>3. /\ after \in 0 .. Len(wroteAddr')
        /\ InRange(addr) => data = Replay'[after].mem[WordIndex(addr)]
    <3>1. after \in 0 .. after
      BY <1>1
    <3>2. Replay'[after] = [mem |-> memory_space, out |-> console]
      BY <1>1, <3>1, ReplayStays DEF ReplayInv, EffectsAreReplay
    <3>3. Len(wroteAddr') \in Nat /\ after <= Len(wroteAddr')
      BY <1>1, WritesGrow
    <3> QED BY <1>1, <2>2, <3>2, <3>3 DEF LoadResults
  <2> HIDE DEF addr, data, after, n
  <2>4. /\ Len(readAddr') = n + 1 /\ Len(readData') = n + 1
        /\ \A i \in 1 .. n : /\ readAddr'[i] = readAddr[i]
                             /\ readData'[i] = readData[i]
                             /\ readAfter'[i] = readAfter[i]
        /\ readAddr'[n + 1] = addr /\ readData'[n + 1] = data /\ readAfter'[n + 1] = after
    <3>1. after \in Nat
      BY <1>1 DEF after
    <3> QED BY <1>1, <2>1, <2>2, <3>1, AppendProperties DEF n
  <2>5. ASSUME NEW i \in 1 .. n + 1
        PROVE  /\ readAfter'[i] \in 0 .. Len(wroteAddr')
               /\ InRange(readAddr'[i]) =>
                     readData'[i] = Replay'[readAfter'[i]].mem[WordIndex(readAddr'[i])]
    <3>1. n \in Nat
      BY <1>1 DEF n
    <3>2. CASE i \in 1 .. n
      <4>1. i \in 1 .. Len(readAddr)
        BY <3>2 DEF n
      <4> QED BY <1>2, <2>4, <3>2, <4>1
    <3>3. CASE i = n + 1
      BY <2>3, <2>4, <3>3
    <3> QED BY <3>1, <3>2, <3>3
  <2> QED BY <2>4, <2>5 DEF ReadsDone, InRange, WordIndex
<1>4. CASE ~CanRead(ArIn[2])
  <2>1. UNCHANGED <<readAddr, readData, readAfter>>
    BY <1>4 DEF Input
  <2> QED BY <1>1, <1>2, <2>1 DEF ReadsDone, InRange, WordIndex
<1> QED BY <1>3, <1>4

(* Every step keeps memory and console those of the replay. *)
LEMMA ReplayStep ==
    TypeOK /\ Streams /\ OrderInv /\ ReplayInv /\ [Next]_vars => ReplayInv'
<1> SUFFICES ASSUME TypeOK, Streams, OrderInv, ReplayInv, [Next]_vars PROVE ReplayInv'
  OBVIOUS
<1>1. CASE Input
  BY <1>1, InputEffects, InputReads DEF ReplayInv
<1>2. CASE UNCHANGED <<readAddr, readData, readAfter, wroteAddr, memory_space, console>>
  <2>1. EffectsAreReplay'
    <3>1. Len(wroteAddr) \in 0 .. Len(wroteAddr)
      BY LenProperties DEF TypeOK
    <3>2. Replay'[Len(wroteAddr)] = Replay[Len(wroteAddr)]
      BY <3>1, ReplayStays
    <3> QED BY <1>2, <3>2 DEF ReplayInv, EffectsAreReplay
  <2>2. ReadsDone'
    <3>1. ASSUME NEW i \in 1 .. Len(readAddr)
          PROVE  /\ readAfter[i] \in 0 .. Len(wroteAddr')
                 /\ InRange(readAddr[i]) =>
                       readData[i] = Replay'[readAfter[i]].mem[WordIndex(readAddr[i])]
      BY ReadsDoneStay DEF ReplayInv
    <3> QED BY <1>2, <3>1 DEF ReplayInv, ReadsDone, InRange, WordIndex
  <2> QED BY <2>1, <2>2 DEF ReplayInv
<1>3. Input \/ UNCHANGED <<readAddr, readData, readAfter, wroteAddr, memory_space, console>>
  BY DEF Next, Killed, Pre, Output, HandleOutput, Post, Leave, Terminated, vars, memVars,
         loopVars
<1> QED BY <1>1, <1>2, <1>3

(* The memory and the console are those of doing the writes one after the   *)
(* other, in the order they were sent, and every read inside memory_space   *)
(* got what the memory had between two of them.  The argument: a write done *)
(* is the next of those sent (DoneWereSent), so the replay of the writes    *)
(* done does not depend on what is sent later (ReplayStays) and goes on     *)
(* with each of them; a read is done before the write of its iteration, on  *)
(* the replay of the writes counted in readAfter.                           *)
THEOREM ActsAsIfOneByOne == Spec => []ActsAsReplay
<1>1. TypeOK /\ Streams /\ OrderInv /\ ReplayInv /\ [Next]_vars
        => (TypeOK /\ Streams /\ OrderInv /\ ReplayInv)'
  BY TypeStep, StreamsStep, OrderStep, ReplayStep
<1>2. Init => TypeOK /\ Streams /\ OrderInv /\ ReplayInv
  BY InitType, InitStreams, InitOrder, InitReplay
<1>3. TypeOK /\ Streams /\ ReplayInv => ActsAsReplay
  <2> SUFFICES ASSUME TypeOK, Streams, ReplayInv PROVE ReadsAreReplay
    BY DEF ReplayInv, ActsAsReplay
  <2>1. \A i \in 1 .. Len(readAddr) : sentAr[i] = readAddr[i]
    BY StreamsSay DEF DoneWereSent
  <2> QED BY <2>1 DEF ReplayInv, ReadsDone, ReadsAreReplay
<1> QED BY <1>1, <1>2, <1>3, PTL DEF Spec

-----------------------------------------------------------------------------
(* The refinement of AxiSlave. *)

(* The head and the tail of a stream are those of its first part. *)
LEMMA HeadOfStream ==
    ASSUME NEW T, NEW q \in Seq(T), NEW o \in Seq(T), q # << >>
    PROVE  /\ q \o o # << >>
           /\ Head(q \o o) = Head(q)
           /\ Tail(q \o o) = Tail(q) \o o
BY HeadTailProperties, ConcatProperties

(* An initial state is one of the abstract memory. *)
LEMMA InitRefines == Init => Slave!Init
<1> SUFFICES ASSUME Init PROVE Slave!Init
  OBVIOUS
<1>1. << >> \o << >> = << >> /\ Len(<< >>) = 0
  OBVIOUS
<1> QED BY <1>1 DEF Init, AxiInit, None, Slave!Init

(* HandleInputAndExec serves at most one read and one write. *)
LEMMA InputRefines == TypeOK /\ Input => Slave!Serve
<1> SUFFICES ASSUME TypeOK, Input PROVE Slave!Serve
  OBVIOUS
<1>1. /\ AxiTypeOK /\ ~simulation_passed
      /\ ExecRead(ArIn[2]) /\ ExecWrite(AwIn[2], WIn[2])
      /\ ar' = ArIn[1] /\ aw' = AwIn[1] /\ w' = WIn[1] /\ r' = r /\ b' = b
  BY DEF TypeOK, Input, LoopCondition, HandleInputAndExec, Exec_
<1>2. /\ ArIn[1] \in Seq(Addr) /\ ArIn[2] \in Seq(Addr)
      /\ AwIn[1] \in Seq(Addr) /\ AwIn[2] \in Seq(Addr)
      /\ WIn[1] \in Seq(WData) /\ WIn[2] \in Seq(WData)
      /\ r \in Seq(Word) /\ r_q \in Seq(Word)
      /\ Len(b) \in Nat /\ Len(b_q) \in Nat
  BY <1>1, InputStreams, LenProperties DEF Optional, Queue, AxiTypeOK
<1>3. /\ ArIn[2] \o ArIn[1] = ar_q \o ar
      /\ AwIn[2] \o AwIn[1] = aw_q \o aw
      /\ WIn[2] \o WIn[1] = w_q \o w
  BY <1>1, InputStreams
<1>4. Slave!ServeRead
  <2>1. CASE CanRead(ArIn[2])
    <3>1. ArIn[2] # << >> /\ Head(ArIn[2]) \in Addr
      BY <1>2, <2>1, HeadTailProperties DEF CanRead
    <3>2. PICK data \in LoadResults(memory_space, Head(ArIn[2])) :
                r_q' = Append(r_q, data) /\ ar_q' = Tail(ArIn[2])
      BY <1>1, <2>1 DEF ExecRead
    <3>3. data \in Word
      BY <1>1, <3>1, LoadType DEF AxiTypeOK
    <3>4. /\ ar_q \o ar # << >>
          /\ Head(ar_q \o ar) = Head(ArIn[2])
          /\ Tail(ar_q \o ar) = ar_q' \o ar'
      <4>1. /\ ArIn[2] \o ArIn[1] # << >>
            /\ Head(ArIn[2] \o ArIn[1]) = Head(ArIn[2])
            /\ Tail(ArIn[2] \o ArIn[1]) = Tail(ArIn[2]) \o ArIn[1]
        BY <1>2, <3>1, HeadOfStream
      <4> QED BY <1>1, <1>3, <3>2, <4>1
    <3>5. r' \o r_q' = Append(r \o r_q, data)
      <4>1. /\ Append(r_q, data) = r_q \o <<data>> /\ <<data>> \in Seq(Word)
            /\ r \o r_q \in Seq(Word)
        BY <1>2, <3>3, AppendIsConcat, ConcatProperties
      <4>2. Append(r \o r_q, data) = (r \o r_q) \o <<data>>
        BY <3>3, <4>1, AppendIsConcat
      <4>3. \A x, y, z \in Seq(Word) : (x \o y) \o z = x \o (y \o z)
        BY ConcatAssociative
      <4>4. (r \o r_q) \o <<data>> = r \o (r_q \o <<data>>)
        BY <1>2, <4>1, <4>3, Zenon
      <4> QED BY <1>1, <3>2, <4>1, <4>2, <4>4
    <3> QED BY <3>2, <3>4, <3>5 DEF Slave!ServeRead
  <2>2. CASE ~CanRead(ArIn[2])
    BY <1>1, <1>3, <2>2 DEF ExecRead, Slave!ServeRead
  <2> QED BY <2>1, <2>2
<1>5. Slave!ServeWrite
  <2>1. CASE CanWrite(AwIn[2], WIn[2])
    <3>1. AwIn[2] # << >> /\ WIn[2] # << >>
      BY <2>1 DEF CanWrite
    <3>2. /\ memory_space' = Store(memory_space, Head(AwIn[2]), Head(WIn[2]))
          /\ simulation_passed' = (simulation_passed \/ Head(AwIn[2]) = ExitAddr)
          /\ aw_q' = Tail(AwIn[2]) /\ w_q' = Tail(WIn[2])
      BY <1>1, <2>1 DEF ExecWrite
    <3>3. Len(b_q') = Len(b_q) + 1
      BY <1>1, <2>1, InputStreams, ExecWriteStep
    <3>4. /\ aw_q \o aw # << >>
          /\ Head(aw_q \o aw) = Head(AwIn[2])
          /\ Tail(aw_q \o aw) = aw_q' \o aw'
      <4>1. /\ AwIn[2] \o AwIn[1] # << >>
            /\ Head(AwIn[2] \o AwIn[1]) = Head(AwIn[2])
            /\ Tail(AwIn[2] \o AwIn[1]) = Tail(AwIn[2]) \o AwIn[1]
        BY <1>2, <3>1, HeadOfStream
      <4> QED BY <1>1, <1>3, <3>2, <4>1
    <3>5. /\ w_q \o w # << >>
          /\ Head(w_q \o w) = Head(WIn[2])
          /\ Tail(w_q \o w) = w_q' \o w'
      <4>1. /\ WIn[2] \o WIn[1] # << >>
            /\ Head(WIn[2] \o WIn[1]) = Head(WIn[2])
            /\ Tail(WIn[2] \o WIn[1]) = Tail(WIn[2]) \o WIn[1]
        BY <1>2, <3>1, HeadOfStream
      <4> QED BY <1>1, <1>3, <3>2, <4>1
    <3>6. Len(b') + Len(b_q') = Len(b) + Len(b_q) + 1
      BY <1>1, <1>2, <3>3
    <3> QED BY <3>2, <3>4, <3>5, <3>6 DEF Slave!ServeWrite
  <2>2. CASE ~CanWrite(AwIn[2], WIn[2])
    BY <1>1, <1>3, <2>2 DEF ExecWrite, Slave!ServeWrite
  <2> QED BY <2>1, <2>2
<1> QED BY <1>1, <1>4, <1>5 DEF Slave!Serve

(* Pre takes at most one result and one response. *)
LEMMA PreRefines ==
    ASSUME TypeOK, NEW rready \in BOOLEAN, NEW bready \in BOOLEAN,
           Pre(rready, bready)
    PROVE  Slave!Take
<1>1. /\ r \in Optional(Word) /\ b \in Optional({Response})
      /\ r_q \in Seq(Word) /\ Len(b_q) \in Nat
  BY LenProperties DEF TypeOK, AxiTypeOK, Queue
<1>2. UNCHANGED <<ar, aw, w, ar_q, aw_q, w_q, r_q, b_q, memory_space,
                  simulation_passed>>
  BY DEF Pre, memVars
<1>3. \/ r' \o r_q' = r \o r_q
      \/ r \o r_q # << >> /\ r' \o r_q' = Tail(r \o r_q)
  <2>1. CASE r' = r
    BY <1>2, <2>1
  <2>2. ASSUME r' = None, NEW x \in Word, r = <<x>>
        PROVE  r \o r_q # << >> /\ r' \o r_q' = Tail(r \o r_q)
    <3>1. /\ <<x>> \in Seq(Word) /\ <<x>> # << >> /\ Tail(<<x>>) = << >>
      OBVIOUS
    <3>2. /\ <<x>> \o r_q # << >> /\ Tail(<<x>> \o r_q) = Tail(<<x>>) \o r_q
      BY <1>1, <3>1, HeadOfStream
    <3> QED BY <1>2, <2>2, <3>1, <3>2 DEF None
  <2>3. r = None \/ \E x \in Word : r = <<x>>
    BY <1>1, OptionalEmptyOrOne
  <2> QED BY <2>1, <2>2, <2>3 DEF Pre
<1>4. \/ Len(b') + Len(b_q') = Len(b) + Len(b_q)
      \/ /\ Len(b) + Len(b_q) > 0
         /\ Len(b') + Len(b_q') = Len(b) + Len(b_q) - 1
  <2>1. CASE b' = b
    BY <1>2, <2>1
  <2>2. ASSUME b' = None, NEW x \in {Response}, b = <<x>>
        PROVE  /\ Len(b) + Len(b_q) > 0
               /\ Len(b') + Len(b_q') = Len(b) + Len(b_q) - 1
    <3>1. Len(<<x>>) = 1 /\ Len(None) = 0
      BY DEF None
    <3> QED BY <1>1, <1>2, <2>2, <3>1
  <2>3. b = None \/ \E x \in {Response} : b = <<x>>
    BY <1>1, OptionalEmptyOrOne
  <2> QED BY <2>1, <2>2, <2>3 DEF Pre
<1> QED BY <1>2, <1>3, <1>4 DEF Slave!Take

(* Post sends at most one request on each channel. *)
LEMMA PostRefines == TypeOK /\ Post => Slave!Request
<1> SUFFICES ASSUME TypeOK, Post PROVE Slave!Request
  OBVIOUS
<1>1. /\ ar_q \in Seq(Addr) /\ aw_q \in Seq(Addr) /\ w_q \in Seq(WData)
      /\ UNCHANGED <<r, b, ar_q, aw_q, w_q, r_q, b_q, memory_space, simulation_passed>>
  BY DEF TypeOK, AxiTypeOK, Queue, Post, memVars
<1>2. ASSUME NEW T, NEW q \in Seq(T), NEW x \in T
      PROVE  q \o <<x>> = Append(q \o << >>, x)
  BY AppendIsConcat, ConcatEmptySeq
<1>3. Slave!Grows(ar_q \o ar, ar_q' \o ar', Addr)
  BY <1>1, <1>2 DEF Post, SendAr, None, Slave!Grows
<1>4. Slave!Grows(aw_q \o aw, aw_q' \o aw', Addr)
  BY <1>1, <1>2 DEF Post, SendAw, None, Slave!Grows
<1>5. Slave!Grows(w_q \o w, w_q' \o w', WData)
  BY <1>1, <1>2, LoopAssumption DEF Post, SendW, None, Slave!Grows
<1> QED BY <1>1, <1>3, <1>4, <1>5 DEF Slave!Request

(* Every step is one of the abstract memory, or changes nothing it sees. *)
LEMMA NextRefines == TypeOK /\ [Next]_vars => [Slave!Next]_(Slave!vars)
<1> SUFFICES ASSUME TypeOK, [Next]_vars PROVE Slave!Next \/ UNCHANGED Slave!vars
  OBVIOUS
<1>1. CASE Input
  BY <1>1, InputRefines DEF Slave!Next
<1>2. ASSUME NEW rready \in BOOLEAN, NEW bready \in BOOLEAN, Pre(rready, bready)
      PROVE  Slave!Next
  BY <1>2, PreRefines DEF Slave!Next
<1>3. CASE Output
  BY <1>3, OutputStep DEF Output, HandleOutput, TypeOK, Slave!vars
<1>4. CASE Post
  BY <1>4, PostRefines DEF Slave!Next
<1>5. CASE Killed \/ Leave \/ UNCHANGED vars
  BY <1>5 DEF Killed, Leave, vars, chanVars, memVars, Slave!vars
<1> QED BY <1>1, <1>2, <1>3, <1>4, <1>5 DEF Next, Terminated

(* The loop, with its five queues of limited size and its channel registers, *)
(* implements the memory that serves each channel in order and acts on the   *)
(* memory at one instant per access.                                         *)
THEOREM Refinement == Spec => ImplementsSlave
<1>1. Spec => []TypeOK
  BY TypeCorrect
<1> QED BY <1>1, InitRefines, NextRefines, PTL DEF Spec, ImplementsSlave, Slave!Spec
=============================================================================
