---------------------------- MODULE PicoTestbench ----------------------------
(***************************************************************************)
(* The whole simulation of sim/picorv32-main: Vpicorv32Wrap with the       *)
(* device of PicoAxi in it, AxiMemory, IrqDriver, and main() calling them  *)
(* in turn.  The wrapper sets the device's input ports before a clock edge *)
(* and moves beats between its output ports and the shared optionals; the  *)
(* ports hold their values between two calls, so who acts on which value   *)
(* depends on the order of the calls.                                      *)
(*                                                                         *)
(* main stops after 1000000 iterations; here it may stop at any.           *)
(***************************************************************************)
EXTENDS AxiMemory, PicoAxi

CONSTANTS
    IrqPeriod,   \* 4096: irq 4 comes when the low 12 bits of counter are ones
    IrqWrap      \* 65536: counter is a uint16_t

ASSUME IrqAssumption ==
    /\ IrqPeriod \in Nat \ {0} /\ IrqWrap \in Nat \ {0}
    /\ IrqWrap % IrqPeriod = 0

VARIABLES
    pc,          \* the next call
    evals,       \* the clock edges of the constructor of Vpicorv32Wrap
    counter, irq,           \* IrqDriver::counter and main's irq
    irq_port,               \* the device's input
    (* histories *)
    edges,       \* clock edges since the loop began, modulo IrqWrap
    waited       \* of these, those at which the request under way has waited

irqVars == <<counter, irq, irq_port>>
histVars == <<edges, waited>>
vars == <<chanVars, memVars, coreVars, adapterVars, portVars, pc, evals, irqVars,
          histVars>>

(* irq is not initialised in main, and is not read before it is written.    *)
Init ==
    /\ AxiInit /\ DutInit
    /\ pc = "boot" /\ evals = 0
    /\ counter = 0 /\ irq = {} /\ irq_port = {}
    /\ edges = 0 /\ waited = 0

-----------------------------------------------------------------------------
(* The constructor of Vpicorv32Wrap: 5 edges, 3 with resetn low, and 5.     *)
BootEdges == 13
Resetn(n) == n \notin 5 .. 7

Boot ==
    /\ pc = "boot"
    /\ Eval(Resetn(evals), FALSE, FALSE, FALSE)
    /\ evals' = evals + 1
    /\ pc' = IF evals' = BootEdges THEN "irq" ELSE "boot"
    /\ UNCHANGED <<chanVars, memVars, irqVars, histVars>>

(* A counter incremented before it is looked at. *)
BugIncrementFirst ==
    /\ counter' = (counter + 1) % IrqWrap
    /\ irq' = {k \in {4, 5} : \/ k = 4 /\ counter' % IrqPeriod = IrqPeriod - 1
                              \/ k = 5 /\ counter' = IrqWrap - 1}

(* IrqDriver::Main. *)
IrqMain ==
    /\ counter' = (counter + 1) % IrqWrap
    /\ irq' = {k \in {4, 5} : \/ k = 4 /\ counter % IrqPeriod = IrqPeriod - 1
                              \/ k = 5 /\ counter = IrqWrap - 1}

Irq ==
    /\ pc = "irq" /\ ~simulation_passed
    /\ IrqMain
    /\ pc' = "input"
    /\ UNCHANGED <<chanVars, memVars, coreVars, adapterVars, portVars, evals,
                   irq_port, histVars>>

(* The loop is left when the simulation has passed, or at its bound. *)
Leave ==
    /\ pc = "irq"
    /\ pc' = "done"
    /\ UNCHANGED <<chanVars, memVars, coreVars, adapterVars, portVars, evals,
                   irqVars, histVars>>

Input ==
    /\ pc = "input"
    /\ HandleInputAndExec
    /\ pc' = "pre"
    /\ UNCHANGED <<coreVars, adapterVars, portVars, evals, irqVars, histVars>>

(* An access outside memory_space may end the process. *)
Killed ==
    /\ pc = "pre" /\ wild
    /\ pc' = "killed"
    /\ UNCHANGED <<chanVars, memVars, coreVars, adapterVars, portVars, evals,
                   irqVars, histVars>>

AfterHandshake(valid, ready, opt) == IF valid /\ ready THEN None ELSE opt

(* The data port not driven. *)
BugDataNotDriven == rdata

(* mem_axi_rdata keeps its value while there is no read data. *)
RdataPort == IF r = None THEN rdata ELSE r[1]

(* Vpicorv32Wrap::Pre. *)
Pre ==
    /\ pc = "pre"
    /\ pc' = "output"
    /\ rvalid' = (r # None) /\ rdata' = RdataPort
    /\ bvalid' = (b # None)
    /\ irq_port' = irq
    /\ r' = AfterHandshake(r # None, Reading, r)
    /\ b' = AfterHandshake(b # None, Writing, b)
    /\ UNCHANGED <<ar, aw, w, memVars, coreVars, adapterVars, evals, counter, irq,
                   histVars>>

Output ==
    /\ pc = "output"
    /\ HandleOutput
    /\ pc' = "post"
    /\ UNCHANGED <<coreVars, adapterVars, portVars, evals, irqVars, histVars>>

(* Vpicorv32Wrap::Post.  The valid signals are those before the edge, the   *)
(* payload is that after it.                                                *)
Post ==
    /\ pc = "post"
    /\ pc' = "irq"
    /\ Eval(TRUE, ar = None, aw = None, w = None)
    /\ ar' = IF arvalid /\ ar = None THEN <<mem_addr'>> ELSE ar
    /\ aw' = IF awvalid /\ aw = None THEN <<mem_addr'>> ELSE aw
    /\ w'  = IF wvalid /\ w = None
             THEN <<[data |-> mem_wdata', strb |-> mem_wstrb']>> ELSE w
    /\ edges' = (edges + 1) % IrqWrap
    /\ waited' = IF mem_valid /\ ~mem_ready THEN waited + 1 ELSE 0
    /\ UNCHANGED <<r, b, memVars, evals, irqVars>>

Terminated == pc \in {"done", "killed"} /\ UNCHANGED vars

Next == \/ Boot \/ Irq \/ Leave \/ Input \/ Killed \/ Pre \/ Output \/ Post
        \/ Terminated

Spec == Init /\ [][Next]_vars

-----------------------------------------------------------------------------
(* Every signal and register has its type, every channel and queue keeps to *)
(* its capacity, and the interrupt pattern only raises the lines it uses.   *)
TypeOK ==
    /\ AxiTypeOK /\ DutTypeOK
    /\ pc \in {"boot", "irq", "input", "pre", "output", "post", "done", "killed"}
    /\ evals \in 0 .. BootEdges
    /\ counter \in 0 .. IrqWrap - 1 /\ edges \in 0 .. IrqWrap - 1
    /\ irq \subseteq {4, 5} /\ irq_port \subseteq {4, 5}
    /\ waited \in Nat

-----------------------------------------------------------------------------
(* A port's valid is a beat only from Pre, which sets it, to the edge of    *)
(* Post, at which the device takes it; after that it is a leftover.         *)
InPort(valid) == IF valid /\ pc \in {"output", "post"} THEN 1 ELSE 0

ReadTokens  == Len(ar) + Len(ar_q) + Len(r_q) + Len(r) + InPort(rvalid)
WriteTokens == Len(b_q) + Len(b) + InPort(bvalid)

(* The adapter's mem_ready does not look at which response came, and the    *)
(* response ports keep their value between Pre and the next Pre.  When the  *)
(* edge comes, a read answer is there only for a read and a write answer    *)
(* only for a write, never both.                                            *)
AnswerMatchesRequest ==
    pc = "post" => /\ rvalid => Reading /\ ack_arvalid
                   /\ bvalid => Writing /\ ack_awvalid /\ ack_wvalid

(* Between the acknowledgement of the request and its answer there is       *)
(* exactly one beat of the transfer somewhere, and otherwise none: the      *)
(* transfer is neither started twice nor answered twice, and nothing of one *)
(* transfer is left when the next begins.  The answer is of the kind asked  *)
(* for, and every queue and register keeps to its capacity.                 *)
OneBeatPerTransfer ==
    /\ TypeOK /\ AnswerMatchesRequest
    /\ ReadTokens = IF Reading /\ ack_arvalid /\ ~xfer_done THEN 1 ELSE 0
    /\ Len(aw) + Len(aw_q) + WriteTokens =
           IF Writing /\ ack_awvalid /\ ~xfer_done THEN 1 ELSE 0
    /\ Len(w) + Len(w_q) + WriteTokens =
           IF Writing /\ ack_wvalid /\ ~xfer_done THEN 1 ELSE 0

(* Every transfer is answered after the two edges the loop's order of calls *)
(* takes for it, at which the request is handed over and the answer waits   *)
(* for the next Pre, or three for the second word of an instruction, which  *)
(* is only offered when the adapter has seen xfer_done.                     *)
BoundedWait == waited <= IF mem_valid /\ mem_instr THEN 3 ELSE 2

(* The core sees irq 4 at every IrqPeriod-th edge of the loop and irq 5 at  *)
(* every IrqWrap-th, also across the wrap of the 16-bit counter.            *)
IrqOnSchedule ==
    pc = "post" => /\ 4 \in irq_port <=> (edges + 1) % IrqPeriod = 0
                   /\ 5 \in irq_port <=> (edges + 1) % IrqWrap = 0

-----------------------------------------------------------------------------
MemRequest(addr, data, strb) ==
    [addr |-> addr, data |-> IF strb = {} THEN Zero ELSE data, strb |-> strb]

(* What the core may ask for, what it asks for, and what has been answered,  *)
(* in terms of NativeMemory: the answer is in one queue, channel or port.    *)
NativeRequests ==
    {MemRequest(a, Zero, {}) : a \in LoadAddr} \cup
    {MemRequest(a, wd.data, wd.strb) : a \in StoreAddr, wd \in StoreData}

Asked == IF mem_valid THEN <<MemRequest(mem_addr, mem_wdata, mem_wstrb)>> ELSE << >>

ReadPort  == IF InPort(rvalid) = 1 THEN <<rdata>> ELSE << >>
WritePort == IF InPort(bvalid) = 1 THEN <<Response>> ELSE << >>
Answered  == (r_q \o r \o ReadPort) \o (b_q \o b \o WritePort)

Native == INSTANCE NativeMemory WITH
    Requests <- NativeRequests, Exit <- ExitAddr, Written <- Response,
    InitMem <- LoadFirmware, InitSeen <- Zero,
    Loads <- LoadResults, Stored <- Store,
    mem <- memory_space, passed <- simulation_passed,
    request <- Asked, answer <- Answered

(* The core's memory port, through the adapter, the ports of the device,    *)
(* the wrapper, the channels and the queues, is one memory on which each    *)
(* transfer acts once and at one instant.                                   *)
ImplementsNative == Native!Spec
=============================================================================
