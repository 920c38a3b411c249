------------------------------- MODULE PicoAxi -------------------------------
(***************************************************************************)
(* The device under test, module picorv32_axi of picorv32.v: the adapter   *)
(* picorv32_axi_adapter in full, and the core at its native memory port.   *)
(***************************************************************************)
EXTENDS AxiTypes, CorePort

ASSUME PicoAssumption ==
    /\ 0 \in Addr
    /\ LoadAddr \subseteq Addr /\ StoreAddr \subseteq Addr
    /\ StoreData \subseteq {wd \in WData : wd.strb # {}}

VARIABLES
    seen,                   \* mem_rdata when the core last saw mem_ready
    (* the adapter *)
    ack_awvalid, ack_arvalid, ack_wvalid, xfer_done,
    (* input ports that keep their value between two edges *)
    rvalid, rdata, bvalid

coreVars    == <<nativeVars, mem_la_secondword, trap, started, seen>>
adapterVars == <<ack_awvalid, ack_arvalid, ack_wvalid, xfer_done>>
portVars    == <<rvalid, rdata, bvalid>>

(* Verilator starts registers and ports at zero. *)
DutInit ==
    /\ mem_valid = FALSE /\ mem_instr = FALSE /\ mem_addr = 0
    /\ mem_wdata = Zero /\ mem_wstrb = {}
    /\ mem_la_secondword = FALSE /\ trap = FALSE /\ started = FALSE
    /\ seen = Zero
    /\ ack_awvalid = FALSE /\ ack_arvalid = FALSE /\ ack_wvalid = FALSE
    /\ xfer_done = FALSE
    /\ rvalid = FALSE /\ rdata = Zero /\ bvalid = FALSE

-----------------------------------------------------------------------------
(* The wires of the adapter. *)
Reading == mem_valid /\ mem_wstrb = {}      \* mem_axi_rready
Writing == mem_valid /\ mem_wstrb # {}      \* mem_axi_bready

arvalid   == Reading /\ ~ack_arvalid
awvalid   == Writing /\ ~ack_awvalid
wvalid    == Writing /\ ~ack_wvalid
mem_ready == bvalid \/ rvalid

(* The end of a transfer not seen when mem_valid stays up for a second      *)
(* word, and seen an edge too early.                                        *)
BugSecondWordKeepsAcks == ~mem_valid
BugClearsEarly         == xfer_done \/ mem_ready \/ ~mem_valid

ClearAcks == xfer_done \/ ~mem_valid

(* The adapter's registers at a clock edge.  A reset clears only one of them. *)
AdapterEdge(resetn, arready, awready, wready) ==
    IF ~resetn
    THEN ack_awvalid' = FALSE /\ UNCHANGED <<ack_arvalid, ack_wvalid, xfer_done>>
    ELSE /\ xfer_done' = (mem_valid /\ mem_ready)
         /\ ack_arvalid' = (~ClearAcks /\ (ack_arvalid \/ (arready /\ arvalid)))
         /\ ack_awvalid' = (~ClearAcks /\ (ack_awvalid \/ (awready /\ awvalid)))
         /\ ack_wvalid'  = (~ClearAcks /\ (ack_wvalid \/ (wready /\ wvalid)))

-----------------------------------------------------------------------------
(* One rising edge of clk. *)
Eval(resetn, arready, awready, wready) ==
    /\ AdapterEdge(resetn, arready, awready, wready)
    /\ CoreEdge(resetn, mem_ready)
    /\ seen' = IF mem_valid /\ mem_ready THEN rdata ELSE seen
    /\ UNCHANGED portVars

(* The types of the registers and of the input ports. *)
DutTypeOK ==
    /\ mem_valid \in BOOLEAN /\ mem_instr \in BOOLEAN /\ mem_addr \in Addr
    /\ mem_wdata \in Word /\ mem_wstrb \in Strobe
    /\ mem_la_secondword \in BOOLEAN /\ trap \in BOOLEAN /\ started \in BOOLEAN
    /\ seen \in Word
    /\ ack_awvalid \in BOOLEAN /\ ack_arvalid \in BOOLEAN
    /\ ack_wvalid \in BOOLEAN /\ xfer_done \in BOOLEAN
    /\ rvalid \in BOOLEAN /\ rdata \in Word /\ bvalid \in BOOLEAN
=============================================================================
