----------------------------- MODULE SocControl -----------------------------
(***************************************************************************)
(* soc_control.v: the AXI4-Lite slave through which the processing system  *)
(* halts, steps, reads, writes and disturbs the core.  One state machine   *)
(* serves one request at a time; a request takes effect in its ISSUE state *)
(* and its result is collected in the WAIT_DONE state after it.            *)
(*                                                                         *)
(* The inputs of a clock edge are two records:                             *)
(*   host  arvalid, araddr, rready, awvalid, awaddr, wvalid, wdata, wstrb, *)
(*         bready                                                          *)
(*   core  pc_read_data, regfile_read_data, core_debug_vector              *)
(***************************************************************************)
EXTENDS Rv32iParams

VARIABLES
  cm_state,                \* state
  latched_address, latched_write_data, latched_write_strobe,
  op_successful, read_data,
  pc_stall,
  control_read_data, control_address_valid

soc_vars == <<cm_state, latched_address, latched_write_data, latched_write_strobe,
              op_successful, read_data, pc_stall, control_read_data,
              control_address_valid>>

CmStates == {"IDLE", "READ_ISSUE", "READ_WAIT_DONE", "READ_RESP", "WRITE_RECV_ADDR",
             "WRITE_RECV_DATA", "WRITE_ISSUE", "WRITE_WAIT_DONE", "WRITE_RESP"}

\* An address has USED_ADDR_WIDTH bits, whatever lies above them.
USED_ADDR == 65536

SocTypeOK ==
  /\ cm_state \in CmStates
  /\ latched_address \in 0 .. (USED_ADDR - 1)
  /\ latched_write_data \in Word
  /\ latched_write_strobe \in Strobe
  /\ op_successful \in BOOLEAN
  /\ read_data \in Word
  /\ pc_stall \in BOOLEAN
  /\ control_read_data \in Word
  /\ control_address_valid \in BOOLEAN

\* The core is stalled after a reset.
SocInit ==
  /\ cm_state = "IDLE"
  /\ latched_address = 0 /\ latched_write_data = 0 /\ latched_write_strobe = {}
  /\ op_successful = FALSE /\ read_data = 0
  /\ pc_stall = TRUE
  /\ control_read_data = 0 /\ control_address_valid = FALSE

SocReset ==
  /\ cm_state' = "IDLE"
  /\ latched_address' = 0 /\ latched_write_data' = 0 /\ latched_write_strobe' = {}
  /\ op_successful' = FALSE /\ read_data' = 0
  /\ pc_stall' = TRUE
  /\ control_read_data' = 0 /\ control_address_valid' = FALSE

-----------------------------------------------------------------------------
\* The address space of 16 bits: 4 bits select the component, 12 the register.
SUB_SEL_CTRL    == 1
SUB_SEL_REGFILE == 2
SUB_SEL_FAULT   == 3

CTRL_REG_STATUS     == 0
CTRL_REG_START      == 4
CTRL_REG_STOP       == 8
CTRL_REG_STEP       == 12
CTRL_REG_PC         == 16
CTRL_REG_DBG_VECTOR == 28

sub_selector == latched_address \div 4096
sub_addr     == latched_address % 4096

sub_addr_aligned  == sub_addr % 4 = 0
write_strobe_full == latched_write_strobe = 0 .. 3

\* Register file: SUB_ADDR is 0000 0rrrrr00, and x0 is not written.
regfile_selected    == sub_selector = SUB_SEL_REGFILE
regfile_sub_addr    == (sub_addr \div 4) % NUM_REGISTERS
regfile_read_valid  == /\ regfile_selected /\ sub_addr_aligned
                       /\ sub_addr \div (4 * NUM_REGISTERS) = 0
regfile_write_valid == regfile_read_valid /\ write_strobe_full /\ regfile_sub_addr # 0

\* Fault injection: SUB_ADDR is 00mm 0rrrrr00.
fault_selected    == sub_selector = SUB_SEL_FAULT
fault_mode        == (sub_addr \div 256) % 4
fault_reg_addr    == (sub_addr \div 4) % NUM_REGISTERS
\* Mutant: bit 7 of the address is not looked at.
fault_addr_valid_NoBit7 == sub_addr \div 1024 = 0

fault_addr_valid  == sub_addr \div 1024 = 0 /\ (sub_addr \div 128) % 2 = 0
fault_write_valid == /\ fault_selected /\ write_strobe_full /\ sub_addr_aligned
                     /\ fault_addr_valid /\ fault_reg_addr # 0

control_selected    == sub_selector = SUB_SEL_CTRL
control_read_valid  == control_selected /\ control_address_valid /\ sub_addr_aligned
control_write_valid == control_read_valid /\ write_strobe_full

ControlWrite(offsets) ==
  cm_state = "WRITE_ISSUE" /\ control_selected /\ sub_addr \in offsets

\* The case label of the reads is START | STOP | STEP, a bitwise or of the
\* three addresses: 4 | 8 | 12.
START_OR_STOP_OR_STEP == 12

-----------------------------------------------------------------------------
\* The pins to the core, combinational except for the stall.
\* Mutant: the pulse depends on the address alone.
pc_write_enable_AnyState ==
  cm_state # "IDLE" /\ control_selected /\ sub_addr = CTRL_REG_PC

pc_write_enable == ControlWrite({CTRL_REG_PC})

regfile_write_enable == cm_state = "WRITE_ISSUE" /\ regfile_write_valid
\* Mutant: the register number is driven a cycle late.
regfile_addr_Late == IF \/ regfile_write_enable
                        \/ cm_state = "READ_WAIT_DONE" /\ regfile_read_valid
                     THEN regfile_sub_addr ELSE 0

regfile_addr == IF \/ regfile_write_enable
                   \/ cm_state = "READ_ISSUE" /\ regfile_read_valid
                THEN regfile_sub_addr ELSE 0

regfile_fault_enable == cm_state = "WRITE_ISSUE" /\ fault_write_valid

CorePins ==
  [pc_stall |-> pc_stall,
   pc_we |-> pc_write_enable,
   pc_write_data |-> IF pc_write_enable THEN latched_write_data ELSE 0,
   regfile_addr |-> regfile_addr,
   regfile_we |-> regfile_write_enable,
   regfile_write_data |-> IF regfile_write_enable THEN latched_write_data ELSE 0,
   fault_enable |-> regfile_fault_enable,
   fault_addr |-> IF regfile_fault_enable THEN fault_reg_addr ELSE 0,
   fault_mode |-> IF regfile_fault_enable THEN fault_mode ELSE 0,
   fault_mask |-> IF regfile_fault_enable THEN latched_write_data ELSE 0]

\* The AXI outputs; a response is OKAY or SLVERR.
S_AXI_ARREADY == cm_state = "IDLE"
S_AXI_RVALID  == cm_state = "READ_RESP"
S_AXI_RDATA   == IF S_AXI_RVALID /\ op_successful THEN read_data ELSE 0
S_AXI_AWREADY == cm_state = "WRITE_RECV_ADDR"
S_AXI_WREADY  == cm_state = "WRITE_RECV_DATA"
S_AXI_BVALID  == cm_state = "WRITE_RESP"
RESP          == IF op_successful THEN "OKAY" ELSE "SLVERR"

-----------------------------------------------------------------------------
\* What each state leaves alone.
KeepLatches == UNCHANGED <<latched_address, latched_write_data, latched_write_strobe>>
KeepResult  == UNCHANGED <<op_successful, read_data>>
KeepControl == UNCHANGED <<pc_stall, control_read_data, control_address_valid>>

\* IDLE: a read is taken at once and before a write, which is taken later.
\* Mutants: the valid flag of the request before is not cleared; the bits of the
\* address that belong to the interconnect are kept.
IdleRead_KeepsValid(host) ==
  /\ cm_state = "IDLE" /\ host.arvalid
  /\ cm_state' = "READ_ISSUE"
  /\ latched_address' = host.araddr % USED_ADDR
  /\ UNCHANGED <<latched_write_data, latched_write_strobe>> /\ KeepControl /\ KeepResult

IdleRead_FullAddress(host) ==
  /\ cm_state = "IDLE" /\ host.arvalid
  /\ cm_state' = "READ_ISSUE"
  /\ latched_address' = host.araddr
  /\ UNCHANGED <<latched_write_data, latched_write_strobe>>
  /\ control_address_valid' = FALSE
  /\ UNCHANGED <<pc_stall, control_read_data>> /\ KeepResult

IdleRead(host) ==
  /\ cm_state = "IDLE" /\ host.arvalid
  /\ cm_state' = "READ_ISSUE"
  /\ latched_address' = host.araddr % USED_ADDR
  /\ UNCHANGED <<latched_write_data, latched_write_strobe>>
  /\ control_address_valid' = FALSE
  /\ UNCHANGED <<pc_stall, control_read_data>> /\ KeepResult

\* Mutant: a write waits for its data before its address is taken.
IdleWrite_WaitsForData(host) ==
  /\ cm_state = "IDLE" /\ ~host.arvalid
  /\ cm_state' = IF host.awvalid /\ host.wvalid THEN "WRITE_RECV_ADDR" ELSE "IDLE"
  /\ control_address_valid' = FALSE
  /\ UNCHANGED <<pc_stall, control_read_data>> /\ KeepLatches /\ KeepResult

IdleWrite(host) ==
  /\ cm_state = "IDLE" /\ ~host.arvalid
  /\ cm_state' = IF host.awvalid THEN "WRITE_RECV_ADDR" ELSE "IDLE"
  /\ control_address_valid' = FALSE
  /\ UNCHANGED <<pc_stall, control_read_data>> /\ KeepLatches /\ KeepResult

ControlRead(core) ==
  /\ control_address_valid' =
       (\/ control_address_valid
        \/ sub_addr \in {CTRL_REG_STATUS, START_OR_STOP_OR_STEP, CTRL_REG_PC,
                         CTRL_REG_DBG_VECTOR})
  /\ control_read_data' =
       CASE sub_addr = CTRL_REG_STATUS     -> IF pc_stall THEN 1 ELSE 0
         [] sub_addr = CTRL_REG_PC         -> core.pc_read_data
         [] sub_addr = CTRL_REG_DBG_VECTOR -> core.core_debug_vector
         [] OTHER                          -> 0

ReadIssue(core) ==
  /\ cm_state = "READ_ISSUE"
  /\ cm_state' = "READ_WAIT_DONE"
  /\ IF control_selected THEN ControlRead(core)
     ELSE UNCHANGED <<control_address_valid, control_read_data>>
  /\ UNCHANGED pc_stall /\ KeepLatches /\ KeepResult

\* The result of the component that was selected; any other is an error.
Collect(core, control_ok, regfile_ok, fault_ok) ==
  /\ op_successful' = (\/ control_selected /\ control_ok
                       \/ regfile_selected /\ regfile_ok
                       \/ fault_selected /\ fault_ok)
  /\ read_data' = IF control_selected THEN control_read_data
                  ELSE IF regfile_selected THEN core.regfile_read_data ELSE 0

ReadWaitDone(core) ==
  /\ cm_state = "READ_WAIT_DONE"
  /\ cm_state' = "READ_RESP"
  /\ Collect(core, control_read_valid, regfile_read_valid, FALSE)
  /\ KeepLatches /\ KeepControl

\* Mutant: the ready signal of the other response channel.
ReadResp_BReady(host) ==
  /\ cm_state = "READ_RESP"
  /\ cm_state' = IF host.bready THEN "IDLE" ELSE "READ_RESP"
  /\ KeepLatches /\ KeepResult /\ KeepControl

ReadResp(host) ==
  /\ cm_state = "READ_RESP"
  /\ cm_state' = IF host.rready THEN "IDLE" ELSE "READ_RESP"
  /\ KeepLatches /\ KeepResult /\ KeepControl

WriteRecvAddr(host) ==
  /\ cm_state = "WRITE_RECV_ADDR"
  /\ IF host.awvalid
     THEN cm_state' = "WRITE_RECV_DATA" /\ latched_address' = host.awaddr % USED_ADDR
     ELSE UNCHANGED <<cm_state, latched_address>>
  /\ UNCHANGED <<latched_write_data, latched_write_strobe>> /\ KeepResult /\ KeepControl

\* Mutant: the data is only taken while an address is offered.
WriteRecvData_WithAddress(host) ==
  /\ cm_state = "WRITE_RECV_DATA"
  /\ IF host.wvalid /\ host.awvalid
     THEN /\ cm_state' = "WRITE_ISSUE"
          /\ latched_write_data' = host.wdata /\ latched_write_strobe' = host.wstrb
     ELSE UNCHANGED <<cm_state, latched_write_data, latched_write_strobe>>
  /\ UNCHANGED latched_address /\ KeepResult /\ KeepControl

WriteRecvData(host) ==
  /\ cm_state = "WRITE_RECV_DATA"
  /\ IF host.wvalid
     THEN /\ cm_state' = "WRITE_ISSUE"
          /\ latched_write_data' = host.wdata /\ latched_write_strobe' = host.wstrb
     ELSE UNCHANGED <<cm_state, latched_write_data, latched_write_strobe>>
  /\ UNCHANGED latched_address /\ KeepResult /\ KeepControl

\* A control register is written whatever the strobe: the strobe decides only
\* about the response.
WriteIssue ==
  /\ cm_state = "WRITE_ISSUE"
  /\ cm_state' = "WRITE_WAIT_DONE"
  /\ control_address_valid' =
       \/ control_address_valid
       \/ ControlWrite({CTRL_REG_START, CTRL_REG_STOP, CTRL_REG_STEP, CTRL_REG_PC})
  /\ pc_stall' = IF ControlWrite({CTRL_REG_START, CTRL_REG_STEP}) THEN FALSE
                 ELSE IF ControlWrite({CTRL_REG_STOP}) THEN TRUE ELSE pc_stall
  /\ UNCHANGED control_read_data /\ KeepLatches /\ KeepResult

\* Mutant: the stall does not return after a step.
WriteWaitDone_NoRestall(core) ==
  /\ cm_state = "WRITE_WAIT_DONE"
  /\ cm_state' = "WRITE_RESP"
  /\ Collect(core, control_write_valid, regfile_write_valid, fault_write_valid)
  /\ KeepLatches /\ KeepControl

\* A step is a stall that is low for one cycle.
WriteWaitDone(core) ==
  /\ cm_state = "WRITE_WAIT_DONE"
  /\ cm_state' = "WRITE_RESP"
  /\ Collect(core, control_write_valid, regfile_write_valid, fault_write_valid)
  /\ pc_stall' = (pc_stall \/ (control_selected /\ sub_addr = CTRL_REG_STEP))
  /\ UNCHANGED <<control_read_data, control_address_valid>> /\ KeepLatches

WriteResp(host) ==
  /\ cm_state = "WRITE_RESP"
  /\ cm_state' = IF host.bready THEN "IDLE" ELSE "WRITE_RESP"
  /\ KeepLatches /\ KeepResult /\ KeepControl

SocTick(host, core) ==
  \/ IdleRead(host)
  \/ IdleWrite(host)
  \/ ReadIssue(core)
  \/ ReadWaitDone(core)
  \/ ReadResp(host)
  \/ WriteRecvAddr(host)
  \/ WriteRecvData(host)
  \/ WriteIssue
  \/ WriteWaitDone(core)
  \/ WriteResp(host)
=============================================================================
