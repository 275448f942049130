----------------------------- MODULE CoreSystem -----------------------------
(***************************************************************************)
(* The core connected to its memory and driven at its control pins, as in  *)
(* platforms/simulated/test_full_cpu.py: the stall pin changes at any      *)
(* cycle; the program counter and the registers are written, and faults    *)
(* injected, while the core is halted ("from outside the core while it is  *)
(* stopped", register_file.v:42).                                          *)
(***************************************************************************)
EXTENDS RiscvCpu, AxiLiteSlave

CONSTANTS
  Programs,       \* the initial memory contents to consider
  CmPcs,          \* the values the control module writes to the pc
  CmRegs,         \* the registers it writes
  CmValues        \* the values it writes there, and the fault masks

VARIABLE pc_stall  \* cm_pc_stall, a register of the control module

vars == <<cpu_vars, slave_vars, pc_stall>>

ASSUME SystemAssumption ==
  /\ Programs \subseteq [MemCells -> Word]
  /\ CmPcs \subseteq Word
  /\ CmRegs \subseteq RegIdx
  /\ CmValues \subseteq Word

TypeOK ==
  /\ CpuTypeOK
  /\ SlaveTypeOK
  /\ pc_stall \in BOOLEAN

Init ==
  /\ CpuInit
  /\ mem \in Programs
  /\ SlaveIdle
  /\ pc_stall = TRUE

-----------------------------------------------------------------------------
\* The core is halted: its next pc is ready and the stall holds it.
Halted == pc_stall /\ pc_release_pending /\ ~pc_stall_released

\* The pins of the control module in one cycle.  It does at most one thing.
IdlePins ==
  [pc_stall |-> pc_stall, pc_we |-> FALSE, pc_write_data |-> 0,
   regfile_addr |-> 0, regfile_we |-> FALSE, regfile_write_data |-> 0,
   fault_enable |-> FALSE, fault_addr |-> 0, fault_mode |-> 0, fault_mask |-> 0]

PcWritePins ==
  {[IdlePins EXCEPT !.pc_we = TRUE, !.pc_write_data = v] : v \in CmPcs}
RegReadPins ==
  {[IdlePins EXCEPT !.regfile_addr = r] : r \in CmRegs}
RegWritePins ==
  {[IdlePins EXCEPT !.regfile_we = TRUE, !.regfile_addr = w.reg,
                    !.regfile_write_data = w.value] :
     w \in [reg: CmRegs, value: CmValues]}
FaultPins ==
  {[IdlePins EXCEPT !.fault_enable = TRUE, !.fault_addr = f.reg,
                    !.fault_mode = f.mode, !.fault_mask = f.mask] :
     f \in [reg: CmRegs, mode: FaultMode, mask: CmValues]}

CmPins == {IdlePins} \cup RegReadPins
          \cup (IF Halted THEN PcWritePins \cup RegWritePins \cup FaultPins ELSE {})

-----------------------------------------------------------------------------
Clock(cm, axi) ==
  /\ CpuTick(cm, axi)
  /\ SlaveTick(MasterOutputs(cm), axi)
  /\ pc_stall' \in BOOLEAN

Tick == \E cm \in CmPins : \E axi \in SlaveOutputs(MasterOutputs(cm)) : Clock(cm, axi)

\* RSTn is shared by the control module, the core and the memory's port.
Reset == CpuReset /\ SlaveReset /\ pc_stall' = TRUE

Next == Tick \/ Reset

Spec == Init /\ [][Next]_vars

\* The clock never stops, and the slave answers promptly again and again.
\* Nothing is assumed of the cycles in between, nor of the stall pin.
PromptTick ==
  \E cm \in CmPins : \E axi \in SlaveOutputs(MasterOutputs(cm)) :
    SlaveResponds(MasterOutputs(cm), axi) /\ Clock(cm, axi)

\* Liveness is stated for runs without a reset.
LiveSpec == Init /\ [][Tick]_vars /\ WF_vars(PromptTick)

-----------------------------------------------------------------------------
(***************************************************************************)
(* Where the one instruction of the unpipelined core is.  Each predicate   *)
(* fixes every valid flag of riscv_cpu.v and the arbiter's state.          *)
(***************************************************************************)
Flags(pending, decode, result, next) ==
  /\ pc_release_pending = pending
  /\ decoded_valid = decode
  /\ (alu_result_valid \/ load_store_result_valid) = result
  /\ next_pc_valid = next

AtPc ==
  /\ Flags(TRUE, FALSE, FALSE, FALSE)
  /\ arb_state = "IDLE" \/ (arb_state = "PC_WAIT_ARREADY" /\ pc_stall_released)
AtFetch  == Flags(FALSE, FALSE, FALSE, FALSE) /\ arb_state = "PC_DATA"
AtDecode == Flags(FALSE, TRUE, FALSE, FALSE) /\ arb_state = "IDLE"
AtLoad ==
  /\ Flags(FALSE, FALSE, FALSE, FALSE)
  /\ arb_state \in {"L_WAIT_ARREADY", "L_DATA"}
  /\ decoded.use_mem /\ ~decoded.mem_is_write
AtStore ==
  /\ Flags(FALSE, FALSE, FALSE, FALSE)
  /\ arb_state \in {"S_WAIT_BOTH", "S_WAIT_AWREADY", "S_WAIT_WREADY", "S_RESP"}
  /\ decoded.use_mem /\ decoded.mem_is_write
AtResult ==
  /\ Flags(FALSE, FALSE, TRUE, FALSE)
  /\ arb_state = "IDLE"
  /\ load_store_result_valid = decoded.use_mem
  /\ alu_result_valid = ~decoded.use_mem
AtNextPc == Flags(FALSE, FALSE, FALSE, TRUE) /\ arb_state = "IDLE"

\* Exactly one instruction is in flight, and it is at one place: the five
\* ready/valid pairs of riscv_cpu.v, the pc generator and the arbiter's state
\* never disagree about where, whatever the stall pin and the slave do.
OneInFlight ==
  /\ AtPc \/ AtFetch \/ AtDecode \/ AtLoad \/ AtStore \/ AtResult \/ AtNextPc
  /\ pc_stall_released => pc_release_pending

\* The arbiter's state machine and the slave agree on the transaction that is
\* outstanding: no address is handed over twice, no answer is left behind for
\* a later request to pick up, and a half-taken store is the half the arbiter
\* believes was taken.
NoOrphanTransaction ==
  /\ arb_state \in {"PC_DATA", "L_DATA"} <=> s_read.phase # "none"
  /\ s_aw.taken => ~s_b /\ arb_state \in {"S_WAIT_WREADY", "S_RESP"}
  /\ s_w.taken => ~s_b /\ arb_state \in {"S_WAIT_AWREADY", "S_RESP"}
  /\ s_b => arb_state = "S_RESP"
  /\ arb_state = "S_WAIT_WREADY" => s_aw.taken /\ ~s_w.taken
  /\ arb_state = "S_WAIT_AWREADY" => s_w.taken /\ ~s_aw.taken
  /\ arb_state = "S_RESP" => s_b \/ (s_aw.taken /\ s_w.taken)

-----------------------------------------------------------------------------
Bus == MasterOutputs(IdlePins)   \* the master's outputs do not depend on the other pins

\* AXI4-Lite: an address or datum that is offered and not taken is offered
\* again, unchanged, in the next cycle.  The latch pc_stall_released
\* (riscv_cpu.v:113) exists for this: a stall that returns must not withdraw
\* a fetch.
OffersAreKept ==
  /\ Bus.arvalid /\ s_read.phase = "none" /\ s_read'.phase = "none" =>
       Bus'.arvalid /\ Bus'.araddr = Bus.araddr
  /\ Bus.awvalid /\ ~s_aw.taken /\ ~s_aw'.taken =>
       Bus'.awvalid /\ Bus'.awaddr = Bus.awaddr
  /\ Bus.wvalid /\ ~s_w.taken /\ ~s_w'.taken =>
       Bus'.wvalid /\ Bus'.wdata = Bus.wdata /\ Bus'.wstrb = Bus.wstrb

AxiStable == [][Reset \/ OffersAreKept]_vars

\* A stop takes effect at the next instruction boundary and then holds: with
\* the stall up, the instruction in flight is the last one (its NEXT_PC
\* transaction leaves the core halted), and a halted core stays halted, off
\* the bus, and changes neither memory nor control state.
StopHolds ==
  [][pc_stall /\ pc_stall' =>
       /\ NextPcTransaction => Halted'
       /\ Halted => Halted' /\ ~Bus.arvalid
                    /\ UNCHANGED <<mem, arb_state, decoded_valid, next_pc_valid>>]_vars

\* Every released instruction is completed, and the core asked to stop halts:
\* no stage waits for a stage that waits for it.
InstructionsComplete == (~pc_release_pending) ~> pc_release_pending
StopHalts == (<>[]pc_stall) => <>[]Halted

\* A stall that is low again and again lets instructions through again and
\* again, even if each low pulse lasts a single cycle.
StepsProgress == ([]<>~pc_stall) => []<>NextPcTransaction

-----------------------------------------------------------------------------
(***************************************************************************)
(* The refinement of DebugCore.  A store takes effect when the slave       *)
(* commits it, some cycles before the core moves on to the next pc; every  *)
(* other instruction takes effect at its NEXT_PC transaction.              *)
(***************************************************************************)
StoreDone ==
  \/ s_b
  \/ /\ decoded.use_mem /\ decoded.mem_is_write
     /\ load_store_result_valid \/ next_pc_valid

FetchIsCurrent ==
  AtFetch => /\ s_read.addr = pc
             /\ s_read.phase = "valid" => s_read.data = ReadCell(mem, pc)
DecodedIsCurrent ==
  (AtDecode \/ AtLoad \/ AtStore \/ AtResult \/ AtNextPc) /\ ~StoreDone =>
    instruction_latched = ReadCell(mem, pc)
LoadIsCurrent ==
  /\ arb_state = "L_DATA" =>
       /\ s_read.addr = mem_addr
       /\ s_read.phase = "valid" => s_read.data = ReadCell(mem, mem_addr)
  /\ (AtResult \/ AtNextPc) /\ decoded.use_mem /\ ~decoded.mem_is_write =>
       load_data = ReadCell(mem, mem_addr)
StoreIsCurrent ==
  /\ s_aw.taken => s_aw.addr = mem_addr
  /\ s_w.taken => s_w.data = mem_write_data /\ s_w.strobe = mem_write_strobe

\* The instruction in flight is the one at the pc, it works on the memory and
\* the registers as they are, and the slave holds what this instruction
\* offered: nothing that is latched on the way (a read's address and data, the
\* instruction, the halves of a store) goes stale before it is used, although
\* memory, registers and pc are written from several places.
InFlightIsCurrent ==
  FetchIsCurrent /\ DecodedIsCurrent /\ LoadIsCurrent /\ StoreIsCurrent

DebugPc   == IF StoreDone THEN pc_plus_4 ELSE pc
DebugMode == IF ~pc_stall THEN "run"
             ELSE IF Halted \/ StoreDone THEN "halted" ELSE "finish"

Debug == INSTANCE DebugCore WITH pc <- DebugPc, regs <- registers, mode <- DebugMode

\* The clocked core, with any memory latency and any stall pulses, executes
\* whole instructions one after the other and is changed only between them.
ImplementsDebugCore == Debug!Spec
=============================================================================
