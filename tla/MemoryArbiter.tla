--------------------------- MODULE MemoryArbiter ---------------------------
(***************************************************************************)
(* memory_arbiter.v: one AXI4-Lite master port shared by the instruction   *)
(* fetch and the load/store unit.  The module has one state machine and a  *)
(* result register; everything else is combinational.                      *)
(*                                                                         *)
(* The inputs of a clock edge are two records:                             *)
(*   core  pc_valid, pc, load_store_valid, load_store_addr,                *)
(*         load_store_is_write, store_strobe, store_data                   *)
(*   axi   arready, rvalid, rdata, awready, wready, bvalid                 *)
(* instruction_ready is tied to 1 in riscv_cpu.v and left out.  The        *)
(* responses RRESP and BRESP are inputs the code never reads.              *)
(***************************************************************************)
EXTENDS Datapath

VARIABLES
  arb_state,                \* state
  load_store_result_valid,
  load_data

arb_vars == <<arb_state, load_store_result_valid, load_data>>

ArbStates == {"IDLE", "PC_WAIT_ARREADY", "PC_DATA", "L_WAIT_ARREADY", "L_DATA",
              "S_WAIT_BOTH", "S_WAIT_AWREADY", "S_WAIT_WREADY", "S_RESP"}

ArbTypeOK ==
  /\ arb_state \in ArbStates
  /\ load_store_result_valid \in BOOLEAN
  /\ load_data \in Word

ArbInit ==
  /\ arb_state = "IDLE"
  /\ load_store_result_valid = FALSE
  /\ load_data = 0

ArbReset ==
  /\ arb_state' = "IDLE"
  /\ load_store_result_valid' = FALSE
  /\ load_data' = 0

-----------------------------------------------------------------------------
\* Outputs to the AXI bus.
FetchAddressPhase(core) ==
  \/ arb_state = "IDLE" /\ core.pc_valid
  \/ arb_state = "PC_WAIT_ARREADY"

M_AXI_ARVALID(core) == FetchAddressPhase(core) \/ arb_state = "L_WAIT_ARREADY"
M_AXI_ARADDR(core)  == IF FetchAddressPhase(core) THEN core.pc
                       ELSE IF arb_state = "L_WAIT_ARREADY" THEN core.load_store_addr ELSE 0
M_AXI_RREADY        == arb_state \in {"PC_DATA", "L_DATA"}

M_AXI_AWVALID       == arb_state \in {"S_WAIT_BOTH", "S_WAIT_AWREADY"}
M_AXI_AWADDR(core)  == IF M_AXI_AWVALID THEN core.load_store_addr ELSE 0
M_AXI_WVALID        == arb_state \in {"S_WAIT_BOTH", "S_WAIT_WREADY"}
M_AXI_WDATA(core)   == IF M_AXI_WVALID THEN core.store_data ELSE 0
M_AXI_WSTRB(core)   == IF M_AXI_WVALID THEN core.store_strobe ELSE {}
M_AXI_BREADY        == arb_state = "S_RESP"

\* Outputs to the core.
pc_ready(core, axi)    == FetchAddressPhase(core) /\ axi.arready
instruction_valid(axi) == arb_state = "PC_DATA" /\ axi.rvalid
load_store_ready(core) == arb_state = "IDLE" /\ ~core.pc_valid

-----------------------------------------------------------------------------
\* load_store_result_valid is a pulse of one cycle: it falls on every edge
\* that does not finish a load or a store.
NoResult == load_store_result_valid' = FALSE /\ UNCHANGED load_data

Goto(state) == arb_state' = state /\ NoResult

\* The fetch has priority, and skips the wait state if the slave is ready.
FetchRequest(core, axi) ==
  /\ arb_state = "IDLE" /\ core.pc_valid
  /\ Goto(IF axi.arready THEN "PC_DATA" ELSE "PC_WAIT_ARREADY")

LoadStoreAccept(core) ==
  /\ core.load_store_valid /\ load_store_ready(core)
  /\ Goto(IF core.load_store_is_write THEN "S_WAIT_BOTH" ELSE "L_WAIT_ARREADY")

FetchAddress(axi) ==
  arb_state = "PC_WAIT_ARREADY" /\ axi.arready /\ Goto("PC_DATA")

\* Mutant: the fetch does not wait for its data.
FetchData_NoWait(axi) ==
  arb_state = "PC_DATA" /\ Goto("IDLE")

FetchData(axi) ==
  arb_state = "PC_DATA" /\ axi.rvalid /\ Goto("IDLE")

LoadAddress(axi) ==
  arb_state = "L_WAIT_ARREADY" /\ axi.arready /\ Goto("L_DATA")

\* Mutant: the load finishes without a result pulse.
LoadDone_NoResult(axi) ==
  arb_state = "L_DATA" /\ axi.rvalid /\ Goto("IDLE")

LoadDone(axi) ==
  /\ arb_state = "L_DATA" /\ axi.rvalid
  /\ arb_state' = "IDLE"
  /\ load_store_result_valid' = TRUE
  /\ load_data' = axi.rdata

\* Mutant: one of the two ready signals is taken for both.
StoreIssue_AnyReady(axi) ==
  arb_state = "S_WAIT_BOTH" /\ (axi.awready \/ axi.wready) /\ Goto("S_RESP")

\* Address and data of a store are handed over in either order or together.
StoreIssue(axi) ==
  /\ arb_state = "S_WAIT_BOTH"
  /\ \/ axi.awready /\ axi.wready  /\ Goto("S_RESP")
     \/ axi.awready /\ ~axi.wready /\ Goto("S_WAIT_WREADY")
     \/ axi.wready /\ ~axi.awready /\ Goto("S_WAIT_AWREADY")

StoreAddress(axi) ==
  arb_state = "S_WAIT_AWREADY" /\ axi.awready /\ Goto("S_RESP")

StoreWriteData(axi) ==
  arb_state = "S_WAIT_WREADY" /\ axi.wready /\ Goto("S_RESP")

\* Mutant: a store ends without waiting for its response.
StoreAcknowledge_NoWait(axi) ==
  /\ arb_state = "S_RESP"
  /\ arb_state' = "IDLE"
  /\ load_store_result_valid' = TRUE
  /\ UNCHANGED load_data

StoreAcknowledge(axi) ==
  /\ arb_state = "S_RESP" /\ axi.bvalid
  /\ arb_state' = "IDLE"
  /\ load_store_result_valid' = TRUE
  /\ UNCHANGED load_data

\* The handshake that the current state waits for did not happen.
ArbWait(core, axi) ==
  /\ CASE arb_state = "IDLE"        -> ~core.pc_valid /\ ~core.load_store_valid
       [] arb_state \in {"PC_WAIT_ARREADY", "L_WAIT_ARREADY"} -> ~axi.arready
       [] arb_state \in {"PC_DATA", "L_DATA"} -> ~axi.rvalid
       [] arb_state = "S_WAIT_BOTH"    -> ~axi.awready /\ ~axi.wready
       [] arb_state = "S_WAIT_AWREADY" -> ~axi.awready
       [] arb_state = "S_WAIT_WREADY"  -> ~axi.wready
       [] arb_state = "S_RESP"         -> ~axi.bvalid
  /\ Goto(arb_state)

ArbTick(core, axi) ==
  \/ FetchRequest(core, axi)
  \/ LoadStoreAccept(core)
  \/ FetchAddress(axi)
  \/ FetchData(axi)
  \/ LoadAddress(axi)
  \/ LoadDone(axi)
  \/ StoreIssue(axi)
  \/ StoreAddress(axi)
  \/ StoreWriteData(axi)
  \/ StoreAcknowledge(axi)
  \/ ArbWait(core, axi)
=============================================================================
