---------------------------- MODULE WorkerSystem ----------------------------
(***************************************************************************)
(* cm_and_core.v: the control module wired to the core, with the memory    *)
(* behind the core and the firmware (control_module.c) in front of the     *)
(* control module.                                                         *)
(*                                                                         *)
(* The firmware issues one blocking Xil_In32 or Xil_Out32 at a time; how   *)
(* long it waits between two of them is left open.  HostPaced says whether *)
(* it waits for the core to come to rest, which the UART between the       *)
(* master PC and the firmware makes it do in practice: a line takes        *)
(* thousands of clock cycles and an instruction a few tens.                *)
(***************************************************************************)
EXTENDS RiscvCpu, AxiLiteSlave, SocControl

CONSTANTS
  Programs,
  CmPcs, CmRegs, CmValues,   \* what SET_PC, SET_REG and FAULT_REG write
  FaultModes,                \* the fault modes that are requested
  Calls,                     \* the functions of control_module.c that are called
  HostPaced,
  MaxOwed                    \* bound on the steps outstanding at once

VARIABLES
  command,    \* the call the firmware is in, or NoCommand
  phase,      \* the channel it waits for
  owed,       \* monitor: steps issued and not executed yet
  free        \* monitor: the core was started and has not halted since

host_vars == <<command, phase, owed, free>>
vars == <<cpu_vars, slave_vars, soc_vars, host_vars>>

NoCommand == [op |-> "none", reg |-> 0, mode |-> 0, value |-> 0]

\* The calls of control_module.c.
Command ==
  LET Cmd(ops, regs, modes, values) ==
        [op: ops \cap Calls, reg: regs, mode: modes, value: values]
  IN Cmd({"start", "stop", "step"}, {0}, {0}, {1})
     \cup Cmd({"pc_read", "debug_vector_read"}, {0}, {0}, {0})
     \cup Cmd({"regfile_read"}, CmRegs, {0}, {0})
     \cup Cmd({"pc_set"}, {0}, {0}, CmPcs)
     \cup Cmd({"regfile_write"}, CmRegs, {0}, CmValues)
     \cup Cmd({"fault_inject"}, CmRegs, FaultModes, CmValues)

\* The addresses are not scaled down: a register number is at most 5 bits wide.
ASSUME WorkerAssumption ==
  /\ NUM_REGISTERS \in {2, 4, 8, 16, 32}
  /\ Programs \subseteq [MemCells -> Word]
  /\ CmPcs \subseteq Word /\ CmRegs \subseteq RegIdx /\ CmValues \subseteq Word
  /\ FaultModes \subseteq FaultMode
  /\ HostPaced \in BOOLEAN
  /\ MaxOwed \in Nat

\* The offset each call adds to the base address (control_definitions.h).
CommandAddress(c) ==
  CASE c.op = "start"   -> 4096 + CTRL_REG_START
    [] c.op = "stop"    -> 4096 + CTRL_REG_STOP
    [] c.op = "step"    -> 4096 + CTRL_REG_STEP
    [] c.op \in {"pc_read", "pc_set"}  -> 4096 + CTRL_REG_PC
    [] c.op = "debug_vector_read"      -> 4096 + CTRL_REG_DBG_VECTOR
    [] c.op \in {"regfile_read", "regfile_write"} -> 8192 + 4 * c.reg
    [] c.op = "fault_inject"           -> 12288 + 256 * c.mode + 4 * c.reg
    [] c.op = "none"                   -> 0

IsRead(c) == c.op \in {"pc_read", "debug_vector_read", "regfile_read"}

TypeOK ==
  /\ CpuTypeOK /\ SlaveTypeOK /\ SocTypeOK
  /\ command \in Command \cup {NoCommand}
  /\ phase \in {"none", "ar", "r", "aw", "w", "b"}
  /\ owed \in 0 .. MaxOwed /\ free \in BOOLEAN

Init ==
  /\ CpuInit /\ SocInit
  /\ mem \in Programs /\ SlaveIdle
  /\ command = NoCommand /\ phase = "none"
  /\ owed = 0 /\ free = FALSE

-----------------------------------------------------------------------------
\* The core is at rest between two instructions.
Halted == pc_stall /\ pc_release_pending /\ ~pc_stall_released

HostInputs ==
  [arvalid |-> phase = "ar", araddr |-> CommandAddress(command), rready |-> TRUE,
   awvalid |-> phase = "aw", awaddr |-> CommandAddress(command),
   wvalid |-> phase \in {"aw", "w"}, wdata |-> command.value, wstrb |-> 0 .. 3,
   bready |-> TRUE]

CoreOutputs(axi) ==
  [pc_read_data |-> pc, regfile_read_data |-> extra_read_data,
   core_debug_vector |-> cm_debug_vector(CorePins, axi)]

\* A paced host lets the core come to rest before anything but a stop; a read
\* may also look at the running core.
MayIssue(c) ==
  /\ c.op = "step" => owed < MaxOwed
  /\ HostPaced => \/ Halted \/ c.op = "stop"
                  \/ ~pc_stall /\ IsRead(c)

\* The call returns with its response.
HostTick ==
  \/ /\ phase = "none"
     /\ \E c \in Command : MayIssue(c) /\ command' = c /\ phase' = IF IsRead(c) THEN "ar" ELSE "aw"
  \/ phase = "none" /\ UNCHANGED <<command, phase>>
  \/ /\ phase # "none"
     /\ phase' = CASE phase = "ar" -> IF S_AXI_ARREADY THEN "r" ELSE "ar"
                   [] phase = "aw" -> IF S_AXI_AWREADY THEN "w" ELSE "aw"
                   [] phase = "w"  -> IF S_AXI_WREADY THEN "b" ELSE "w"
                   [] phase = "r"  -> IF S_AXI_RVALID THEN "none" ELSE "r"
                   [] phase = "b"  -> IF S_AXI_BVALID THEN "none" ELSE "b"
     /\ command' = IF phase' = "none" THEN NoCommand ELSE command

\* A step adds an instruction to execute; a NEXT_PC transaction finishes one.
MonitorSteps ==
  /\ free' = (ControlWrite({CTRL_REG_START}) \/ (free /\ ~Halted))
  /\ owed' = owed + (IF ControlWrite({CTRL_REG_STEP}) THEN 1 ELSE 0)
                  - (IF NextPcTransaction /\ owed > 0 THEN 1 ELSE 0)

Clock(axi) ==
  /\ CpuTick(CorePins, axi)
  /\ SlaveTick(MasterOutputs(CorePins), axi)
  /\ SocTick(HostInputs, CoreOutputs(axi))
  /\ HostTick
  /\ MonitorSteps

Tick == \E axi \in SlaveOutputs(MasterOutputs(CorePins)) : Clock(axi)

\* RSTn is shared, and ends the call the firmware is in.
Reset ==
  /\ CpuReset /\ SlaveReset /\ SocReset
  /\ command' = NoCommand /\ phase' = "none"
  /\ owed' = 0 /\ free' = FALSE

Next == Tick \/ Reset

Spec == Init /\ [][Next]_vars

\* The clock never stops and the memory answers promptly again and again.
PromptTick ==
  \E axi \in SlaveOutputs(MasterOutputs(CorePins)) :
    SlaveResponds(MasterOutputs(CorePins), axi) /\ Clock(axi)

LiveSpec == Init /\ [][Tick]_vars /\ WF_vars(PromptTick)

-----------------------------------------------------------------------------
\* With a paced host, what the control module does to the core is what module
\* CoreSystem allows, so its properties hold of the wired system: pc, register
\* and fault pulses only ever reach a core that is halted.
Core == INSTANCE CoreSystem

ImplementsCoreSystem == Core!Spec

\* A step executes exactly one instruction: no step is lost (a core that has
\* come to rest owes none) and no instruction finishes that was not asked for.
StepsAreExact ==
  /\ Halted => owed = 0
  /\ NextPcTransaction => owed > 0 \/ free

\* In the cycle after the control module issued a write that it will answer
\* OKAY, the register, or the pc, holds the value written: the write port was
\* not taken by a write-back and the pc not by a NEXT_PC transaction.
RegisterWritesTake ==
  cm_state = "WRITE_WAIT_DONE" /\ regfile_write_valid =>
    registers[regfile_sub_addr] = latched_write_data

PcWritesTake ==
  cm_state = "WRITE_WAIT_DONE" /\ control_write_valid /\ sub_addr = CTRL_REG_PC =>
    pc = latched_write_data

WritesTakeEffect == RegisterWritesTake /\ PcWritesTake

\* What a halted core is asked for, it answers with its current state, though
\* the register file answers a cycle late and the control module's result
\* register a cycle after that.
ReadsAreCurrent ==
  S_AXI_RVALID /\ Halted =>
    /\ command.op = "regfile_read" => S_AXI_RDATA = ReadRegister(registers, command.reg)
    /\ command.op = "pc_read" => S_AXI_RDATA = pc

\* Every call of the firmware returns, and every step is executed.
CallsReturn == phase # "none" ~> phase = "none"
StepsComplete == owed > 0 ~> owed = 0
=============================================================================
