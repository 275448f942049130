------------------------- MODULE WorkerSystemProofs -------------------------
(***************************************************************************)
(* Theorems about WorkerSystem, for every datapath, program, word size and *)
(* choice of calls, and for every pace of the memory and of the firmware   *)
(* between two calls.  Those that need a firmware that lets the core come  *)
(* to rest say so: HostPaced is their hypothesis.                          *)
(***************************************************************************)
EXTENDS WorkerSystem, RiscvCpuProofs

\* The state machine serves the call the firmware is in, with that call's
\* address and datum.
HostAgrees ==
  /\ command \in Command \cup {NoCommand}
  /\ phase \in {"none", "ar", "r", "aw", "w", "b"}
  /\ cm_state \in CmStates /\ pc_stall \in BOOLEAN
  /\ phase = "none" <=> command = NoCommand
  /\ phase \in {"ar", "r"} => IsRead(command)
  /\ phase \in {"aw", "w", "b"} => ~IsRead(command)
  /\ phase \in {"none", "ar"} => cm_state = "IDLE"
  /\ phase = "r" => cm_state \in {"READ_ISSUE", "READ_WAIT_DONE", "READ_RESP"}
  /\ phase = "aw" => cm_state \in {"IDLE", "WRITE_RECV_ADDR"}
  /\ phase = "w" => cm_state = "WRITE_RECV_DATA"
  /\ phase = "b" => cm_state \in {"WRITE_ISSUE", "WRITE_WAIT_DONE", "WRITE_RESP"}
  /\ phase \in {"r", "w", "b"} => latched_address = CommandAddress(command)
  /\ phase = "b" => latched_write_data = command.value /\ latched_write_strobe = 0 .. 3

\* A step that has not taken effect yet finds room for it.
StepHasRoom ==
  /\ owed \in 0 .. MaxOwed
  /\ command.op = "step" /\ cm_state \notin {"WRITE_WAIT_DONE", "WRITE_RESP"} => owed < MaxOwed

\* Behind a paced firmware the core is at rest from before a call that is not
\* a stop until the call takes effect, and through a read unless it runs freely.
Paced ==
  /\ ~IsRead(command) /\ command.op \notin {"none", "stop"}
       /\ cm_state \notin {"WRITE_WAIT_DONE", "WRITE_RESP"} => Halted
  /\ command.op \in {"pc_set", "regfile_write", "fault_inject"} => Halted
  /\ IsRead(command) /\ pc_stall => Halted

\* A core that is not at rest executes the one step it owes or was started.
\* While it owes a step the stall is low in a single cycle, which finds the pc
\* waiting for its release.
StepsCounted ==
  /\ owed \in 0 .. 1
  /\ owed = 1 => ~Halted /\ ~free
  /\ ~Halted => owed = 1 \/ free
  /\ owed = 1 /\ ~pc_stall =>
       cm_state = "WRITE_WAIT_DONE" /\ command.op = "step" /\ pc_release_pending

\* What a read has collected from a core at rest is what the core holds.
ReadsCollected ==
  IsRead(command) /\ Halted =>
    /\ cm_state = "READ_WAIT_DONE" =>
         /\ command.op = "regfile_read" =>
              extra_read_data = ReadRegister(registers, command.reg)
         /\ command.op = "pc_read" => control_address_valid /\ control_read_data = pc
    /\ cm_state = "READ_RESP" =>
         /\ command.op \in {"regfile_read", "pc_read"} => op_successful
         /\ command.op = "regfile_read" => read_data = ReadRegister(registers, command.reg)
         /\ command.op = "pc_read" => read_data = pc

-----------------------------------------------------------------------------
(***************************************************************************)
(* The calls and their addresses.                                          *)
(***************************************************************************)
ReadOps    == {"pc_read", "debug_vector_read", "regfile_read"}
ControlOps == {"start", "stop", "step", "pc_read", "pc_set", "debug_vector_read"}
WriteOps   == {"start", "stop", "step", "pc_set", "regfile_write", "fault_inject"}

\* What a call may carry.
LEMMA CommandFields ==
  ASSUME NEW c \in Command
  PROVE  /\ c.op \in ReadOps \cup WriteOps
         /\ c.reg \in RegIdx /\ c.mode \in FaultMode /\ c.value \in Word
         /\ c.op \in {"regfile_read", "regfile_write", "fault_inject"} => c.reg \in CmRegs
         /\ c.op = "pc_set" => c.value \in CmPcs
         /\ c.op \in {"regfile_write", "fault_inject"} => c.value \in CmValues
         /\ c # NoCommand
  <1>1. /\ CmPcs \subseteq Word /\ CmRegs \subseteq RegIdx /\ CmValues \subseteq Word
        /\ FaultModes \subseteq FaultMode
        /\ 0 \in Word /\ 1 \in Word /\ 0 \in RegIdx /\ 0 \in FaultMode
    BY WorkerAssumption, SizesAssumption DEF Word, RegIdx, FaultMode
  <1> QED
    BY <1>1 DEF Command, NoCommand, ReadOps, WriteOps

\* No call, or a call of one of the two kinds.
LEMMA CommandKinds ==
  ASSUME command \in Command \cup {NoCommand}
  PROVE  /\ IsRead(command) <=> command \in Command /\ command.op \in ReadOps
         /\ command.op \in ReadOps \cup WriteOps \cup {"none"}
         /\ command = NoCommand <=> command.op = "none"
         /\ command.value \in Word
  <1>1. 0 \in Word
    BY ZeroIsWord
  <1> QED
    BY <1>1, CommandFields DEF IsRead, NoCommand, ReadOps, WriteOps

\* The address of a call fits into the bits the control module looks at.
LEMMA CommandAddressFits ==
  ASSUME NEW c \in Command
  PROVE  /\ CommandAddress(c) \in 0 .. (USED_ADDR - 1)
         /\ CommandAddress(c) % USED_ADDR = CommandAddress(c)
  <1>1. /\ c.op \in ReadOps \cup WriteOps
        /\ c.reg \in 0 .. 31 /\ c.mode \in 0 .. 3
    BY CommandFields, WorkerAssumption DEF RegIdx, FaultMode
  <1> DEFINE reg == c.reg
             mode == c.mode
             a == CommandAddress(c)
  <1>2. \/ a \in {4096, 4100, 4104, 4108, 4112, 4124}
        \/ a = 8192 + 4 * reg
        \/ a = 12288 + 256 * mode + 4 * reg
    BY <1>1 DEF CommandAddress, ReadOps, WriteOps, CTRL_REG_START, CTRL_REG_STOP, CTRL_REG_STEP,
                CTRL_REG_PC, CTRL_REG_DBG_VECTOR
  <1>3. reg \in 0 .. 31 /\ mode \in 0 .. 3
    BY <1>1
  <1> HIDE DEF reg, mode, a
  <1>4. a \in 0 .. 16383
    BY <1>2, <1>3
  <1>5. a \in 0 .. (USED_ADDR - 1)
    BY <1>4, SMT DEF USED_ADDR
  <1>6. a % USED_ADDR = a
    BY <1>4, SMT DEF USED_ADDR
  <1> QED
    BY <1>5, <1>6 DEF a

\* The control module takes the address of a call apart into the register the
\* call is about.
LEMMA CommandDecode ==
  ASSUME NEW c \in Command, latched_address = CommandAddress(c)
  PROVE  /\ control_selected <=> c.op \in ControlOps
         /\ regfile_selected <=> c.op \in {"regfile_read", "regfile_write"}
         /\ fault_selected <=> c.op = "fault_inject"
         /\ sub_addr_aligned
         /\ c.op \in ControlOps =>
              /\ sub_addr = CTRL_REG_START <=> c.op = "start"
              /\ sub_addr = CTRL_REG_STOP <=> c.op = "stop"
              /\ sub_addr = CTRL_REG_STEP <=> c.op = "step"
              /\ sub_addr = CTRL_REG_PC <=> c.op \in {"pc_read", "pc_set"}
              /\ sub_addr # CTRL_REG_STATUS
         /\ c.op \in {"regfile_read", "regfile_write"} =>
              regfile_read_valid /\ regfile_sub_addr = c.reg
         /\ c.op = "fault_inject" =>
              fault_addr_valid /\ fault_reg_addr = c.reg /\ fault_mode = c.mode
  <1>1. /\ c.op \in ReadOps \cup WriteOps
        /\ c.reg \in RegIdx /\ c.mode \in 0 .. 3
    BY CommandFields DEF FaultMode
  <1> USE DEF CTRL_REG_STATUS, CTRL_REG_START, CTRL_REG_STOP, CTRL_REG_STEP, CTRL_REG_PC,
              CTRL_REG_DBG_VECTOR, SUB_SEL_CTRL, SUB_SEL_REGFILE, SUB_SEL_FAULT, ControlOps
  <1> DEFINE reg == c.reg
             mode == c.mode
  <1>2. NUM_REGISTERS \in {2, 4, 8, 16, 32} /\ reg \in 0 .. (NUM_REGISTERS - 1) /\ mode \in 0 .. 3
    BY <1>1, WorkerAssumption DEF RegIdx
  <1>3. CASE c.op \in ControlOps
    <2>1. latched_address = IF c.op = "start" THEN 4100 ELSE IF c.op = "stop" THEN 4104
                            ELSE IF c.op = "step" THEN 4108
                            ELSE IF c.op = "debug_vector_read" THEN 4124 ELSE 4112
      BY <1>3 DEF CommandAddress
    <2> QED
      BY <1>3, <2>1 DEF sub_selector, sub_addr, sub_addr_aligned, control_selected,
                        regfile_selected, fault_selected
  <1>4. CASE c.op \in {"regfile_read", "regfile_write"}
    <2>1. latched_address = 8192 + 4 * reg
      BY <1>4 DEF CommandAddress
    <2> HIDE DEF reg
    <2>2. /\ sub_selector = 2 /\ sub_addr = 4 * reg /\ sub_addr % 4 = 0
          /\ sub_addr \div 4 = reg
      BY <1>2, <2>1 DEF sub_selector, sub_addr
    <2>3. sub_addr \div (4 * NUM_REGISTERS) = 0 /\ reg % NUM_REGISTERS = reg
      BY <1>2, <2>2
    <2> QED
      BY <1>4, <2>2, <2>3
      DEF reg, sub_addr_aligned, control_selected, regfile_selected, fault_selected,
          regfile_read_valid, regfile_sub_addr
  <1>5. CASE c.op = "fault_inject"
    <2>1. latched_address = 12288 + 256 * mode + 4 * reg
      BY <1>5 DEF CommandAddress
    <2> HIDE DEF reg, mode
    <2>2. reg \in 0 .. 31
      BY <1>2
    <2>3. /\ sub_selector = 3 /\ sub_addr = 256 * mode + 4 * reg /\ sub_addr % 4 = 0
          /\ sub_addr \div 4 = 64 * mode + reg /\ sub_addr \div 1024 = 0
          /\ sub_addr \div 256 = mode /\ (sub_addr \div 128) % 2 = 0
      BY <1>2, <2>1, <2>2 DEF sub_selector, sub_addr
    <2>4. (64 * mode + reg) % NUM_REGISTERS = reg /\ mode % 4 = mode
      BY <1>2
    <2> QED
      BY <1>5, <2>3, <2>4
      DEF reg, mode, sub_addr_aligned, control_selected, regfile_selected, fault_selected,
          fault_addr_valid, fault_reg_addr, fault_mode
  <1> QED
    BY <1>1, <1>3, <1>4, <1>5 DEF ReadOps, WriteOps

-----------------------------------------------------------------------------
(***************************************************************************)
(* What the control module does in each state, in terms of the call.       *)
(***************************************************************************)
ReadStates  == {"READ_ISSUE", "READ_WAIT_DONE", "READ_RESP"}
WriteStates == {"WRITE_ISSUE", "WRITE_WAIT_DONE", "WRITE_RESP"}

\* A request that was taken is the firmware's call.
LEMMA Stages ==
  ASSUME HostAgrees
  PROVE  /\ cm_state \in ReadStates \cup WriteStates =>
              command \in Command /\ latched_address = CommandAddress(command)
         /\ cm_state \in ReadStates => phase = "r" /\ command.op \in ReadOps
         /\ cm_state \in WriteStates =>
              /\ phase = "b" /\ command.op \in WriteOps
              /\ latched_write_data = command.value /\ latched_write_strobe = 0 .. 3
  <1>1. /\ IsRead(command) <=> command \in Command /\ command.op \in ReadOps
        /\ command.op \in ReadOps \cup WriteOps \cup {"none"}
        /\ command = NoCommand <=> command.op = "none"
    BY CommandKinds DEF HostAgrees
  <1> QED
    BY <1>1 DEF HostAgrees, ReadStates, WriteStates

\* The effect of a write, in its ISSUE state.
LEMMA Effects ==
  ASSUME HostAgrees
  PROVE  /\ ControlWrite({CTRL_REG_START}) <=> cm_state = "WRITE_ISSUE" /\ command.op = "start"
         /\ ControlWrite({CTRL_REG_STOP}) <=> cm_state = "WRITE_ISSUE" /\ command.op = "stop"
         /\ ControlWrite({CTRL_REG_STEP}) <=> cm_state = "WRITE_ISSUE" /\ command.op = "step"
         /\ ControlWrite({CTRL_REG_START, CTRL_REG_STEP}) <=>
              cm_state = "WRITE_ISSUE" /\ command.op \in {"start", "step"}
         /\ pc_write_enable <=> cm_state = "WRITE_ISSUE" /\ command.op = "pc_set"
         /\ regfile_write_enable <=>
              cm_state = "WRITE_ISSUE" /\ command.op = "regfile_write" /\ command.reg # 0
         /\ regfile_fault_enable <=>
              cm_state = "WRITE_ISSUE" /\ command.op = "fault_inject" /\ command.reg # 0
         /\ regfile_addr =
              IF \/ regfile_write_enable
                 \/ cm_state = "READ_ISSUE" /\ command.op = "regfile_read"
              THEN command.reg ELSE 0
  <1>1. CASE cm_state = "WRITE_ISSUE"
    <2>1. /\ command \in Command /\ latched_address = CommandAddress(command)
          /\ command.op \in WriteOps /\ write_strobe_full
      BY <1>1, Stages DEF ReadStates, WriteStates, write_strobe_full
    <2>2. /\ control_selected <=> command.op \in ControlOps
          /\ regfile_selected <=> command.op \in {"regfile_read", "regfile_write"}
          /\ fault_selected <=> command.op = "fault_inject"
          /\ sub_addr_aligned
          /\ command.op \in ControlOps =>
               /\ sub_addr = CTRL_REG_START <=> command.op = "start"
               /\ sub_addr = CTRL_REG_STOP <=> command.op = "stop"
               /\ sub_addr = CTRL_REG_STEP <=> command.op = "step"
               /\ sub_addr = CTRL_REG_PC <=> command.op \in {"pc_read", "pc_set"}
          /\ command.op \in {"regfile_read", "regfile_write"} =>
               regfile_read_valid /\ regfile_sub_addr = command.reg
          /\ command.op = "fault_inject" =>
               fault_addr_valid /\ fault_reg_addr = command.reg
      BY <2>1, CommandDecode
    <2>3. /\ ControlWrite({CTRL_REG_START}) <=> command.op = "start"
          /\ ControlWrite({CTRL_REG_STOP}) <=> command.op = "stop"
          /\ ControlWrite({CTRL_REG_STEP}) <=> command.op = "step"
          /\ ControlWrite({CTRL_REG_START, CTRL_REG_STEP}) <=> command.op \in {"start", "step"}
          /\ pc_write_enable <=> command.op = "pc_set"
      BY <1>1, <2>1, <2>2 DEF ControlWrite, pc_write_enable, ControlOps, WriteOps
    <2>4. regfile_read_valid => regfile_selected
      BY DEF regfile_read_valid
    <2>5. regfile_write_enable <=> command.op = "regfile_write" /\ command.reg # 0
      BY <1>1, <2>1, <2>2, <2>4 DEF regfile_write_enable, regfile_write_valid, WriteOps
    <2>6. regfile_fault_enable <=> command.op = "fault_inject" /\ command.reg # 0
      BY <1>1, <2>1, <2>2 DEF regfile_fault_enable, fault_write_valid
    <2> QED
      BY <1>1, <2>2, <2>3, <2>5, <2>6 DEF regfile_addr
  <1>2. CASE cm_state = "READ_ISSUE"
    <2>1. /\ command \in Command /\ latched_address = CommandAddress(command)
          /\ command.op \in ReadOps
      BY <1>2, Stages DEF ReadStates, WriteStates
    <2>2. /\ regfile_selected <=> command.op \in {"regfile_read", "regfile_write"}
          /\ command.op \in {"regfile_read", "regfile_write"} =>
               regfile_read_valid /\ regfile_sub_addr = command.reg
      BY <2>1, CommandDecode
    <2>3. regfile_read_valid => regfile_selected
      BY DEF regfile_read_valid
    <2> QED
      BY <1>2, <2>1, <2>2, <2>3
      DEF ReadOps, regfile_addr, ControlWrite, pc_write_enable, regfile_write_enable,
          regfile_fault_enable
  <1>3. CASE cm_state \notin {"WRITE_ISSUE", "READ_ISSUE"}
    BY <1>3 DEF regfile_addr, ControlWrite, pc_write_enable, regfile_write_enable,
                regfile_fault_enable
  <1> QED
    BY <1>1, <1>2, <1>3

\* Only a start, a stop and a step move the stall.
LEMMA StallMoves ==
  ASSUME HostAgrees, NEW host, NEW core, SocTick(host, core)
  PROVE  /\ pc_stall' \in BOOLEAN
         /\ cm_state = "WRITE_ISSUE" /\ command.op \in {"start", "step"} => pc_stall' = FALSE
         /\ cm_state = "WRITE_ISSUE" /\ command.op = "stop" => pc_stall' = TRUE
         /\ cm_state = "WRITE_WAIT_DONE" /\ command.op = "step" => pc_stall' = TRUE
         /\ \/ cm_state \notin {"WRITE_ISSUE", "WRITE_WAIT_DONE"}
            \/ command.op \notin {"start", "stop", "step"}
            \/ cm_state = "WRITE_WAIT_DONE" /\ command.op # "step"
            => pc_stall' = pc_stall
  <1>1. pc_stall \in BOOLEAN
    BY DEF HostAgrees
  <1>2. CASE cm_state = "WRITE_ISSUE"
    <2>1. pc_stall' = IF ControlWrite({CTRL_REG_START, CTRL_REG_STEP}) THEN FALSE
                      ELSE IF ControlWrite({CTRL_REG_STOP}) THEN TRUE ELSE pc_stall
      BY <1>2 DEF SocTick, IdleRead, IdleWrite, ReadIssue, ReadWaitDone, ReadResp, WriteRecvAddr,
                  WriteRecvData, WriteIssue, WriteWaitDone, WriteResp
    <2>2. /\ ControlWrite({CTRL_REG_START, CTRL_REG_STEP}) <=> command.op \in {"start", "step"}
          /\ ControlWrite({CTRL_REG_STOP}) <=> command.op = "stop"
      BY <1>2, Effects
    <2> QED
      BY <1>1, <1>2, <2>1, <2>2
  <1>3. CASE cm_state = "WRITE_WAIT_DONE"
    <2>1. pc_stall' = (pc_stall \/ (control_selected /\ sub_addr = CTRL_REG_STEP))
      BY <1>3 DEF SocTick, IdleRead, IdleWrite, ReadIssue, ReadWaitDone, ReadResp, WriteRecvAddr,
                  WriteRecvData, WriteIssue, WriteWaitDone, WriteResp
    <2>2. command \in Command /\ latched_address = CommandAddress(command)
      BY <1>3, Stages DEF ReadStates, WriteStates
    <2>3. control_selected /\ sub_addr = CTRL_REG_STEP <=> command.op = "step"
      BY <2>2, CommandDecode DEF ControlOps
    <2> QED
      BY <1>1, <1>3, <2>1, <2>3
  <1>4. CASE cm_state \notin {"WRITE_ISSUE", "WRITE_WAIT_DONE"}
    <2>1. pc_stall' = pc_stall
      BY <1>4 DEF SocTick, IdleRead, IdleWrite, ReadIssue, ReadWaitDone, ReadResp, WriteRecvAddr,
                  WriteRecvData, WriteIssue, WriteWaitDone, WriteResp, KeepControl
    <2> QED
      BY <1>1, <1>4, <2>1
  <1> QED
    BY <1>2, <1>3, <1>4

\* The call goes on, or begins, or ends with its response.
LEMMA CallMoves ==
  ASSUME HostAgrees, NEW core, SocTick(HostInputs, core), HostTick
  PROVE  \/ /\ phase = "none" /\ cm_state = "IDLE" /\ cm_state' = "IDLE"
            /\ command' \in Command /\ MayIssue(command')
         \/ /\ cm_state \notin {"READ_RESP", "WRITE_RESP"} /\ command' = command
            /\ phase = "none" <=> phase' = "none"
         \/ /\ cm_state \in {"READ_RESP", "WRITE_RESP"} /\ cm_state' = "IDLE"
            /\ command' = NoCommand /\ phase' = "none"
  <1> USE DEF SocTick, IdleRead, IdleWrite, ReadIssue, ReadWaitDone, ReadResp, WriteRecvAddr,
              WriteRecvData, WriteIssue, WriteWaitDone, WriteResp, HostInputs
  <1>1. CASE phase = "none"
    BY <1>1 DEF HostAgrees, HostTick
  <1>2. CASE phase # "none"
    <2>1. cm_state \in {"READ_RESP", "WRITE_RESP"} <=> phase' = "none"
      BY <1>2 DEF HostAgrees, HostTick, CmStates, S_AXI_ARREADY, S_AXI_AWREADY, S_AXI_WREADY,
                  S_AXI_RVALID, S_AXI_BVALID
    <2> QED
      BY <1>2, <2>1 DEF HostAgrees, HostTick
  <1> QED
    BY <1>1, <1>2

\* A response is collected in the cycle after the request took effect.
LEMMA StateMoves ==
  ASSUME HostAgrees, NEW core, SocTick(HostInputs, core)
  PROVE  /\ cm_state' = "READ_WAIT_DONE" <=> cm_state = "READ_ISSUE"
         /\ cm_state' = "READ_RESP" <=> cm_state = "READ_WAIT_DONE"
         /\ cm_state' = "WRITE_WAIT_DONE" <=> cm_state = "WRITE_ISSUE"
         /\ cm_state' = "WRITE_RESP" <=> cm_state = "WRITE_WAIT_DONE"
  BY DEF SocTick, IdleRead, IdleWrite, ReadIssue, ReadWaitDone, ReadResp, WriteRecvAddr,
         WriteRecvData, WriteIssue, WriteWaitDone, WriteResp, HostInputs

\* The firmware and the control module stay in step.
LEMMA HostStep ==
  ASSUME HostAgrees, NEW core, SocTick(HostInputs, core), HostTick
  PROVE  HostAgrees'
  <1>1. pc_stall' \in BOOLEAN
    BY StallMoves
  <1>2. \A c \in Command : IsRead(c) <=> c.op \in ReadOps
    BY DEF IsRead, ReadOps
  <1>3. \A c \in Command : c # NoCommand
    BY CommandFields
  <1> USE DEF HostInputs
  <1>4. CASE phase = "none"
    <2>1. cm_state' = "IDLE" /\ cm_state = "IDLE"
      BY <1>4 DEF HostAgrees, SocTick, IdleRead, IdleWrite, ReadIssue, ReadWaitDone, ReadResp,
                  WriteRecvAddr, WriteRecvData, WriteIssue, WriteWaitDone, WriteResp
    <2>2. CASE UNCHANGED <<command, phase>>
      BY <1>1, <1>4, <2>1, <2>2 DEF HostAgrees, IsRead
    <2>3. CASE \E c \in Command : command' = c /\ phase' = IF IsRead(c) THEN "ar" ELSE "aw"
      BY <1>1, <1>3, <2>1, <2>3 DEF HostAgrees, IsRead, CmStates
    <2> QED
      BY <1>4, <2>2, <2>3 DEF HostTick
  <1>5. CASE phase = "ar"
    <2>1. /\ cm_state = "IDLE" /\ cm_state' = "READ_ISSUE"
          /\ latched_address' = CommandAddress(command) % USED_ADDR
      BY <1>5 DEF HostAgrees, SocTick, IdleRead, IdleWrite, ReadIssue, ReadWaitDone, ReadResp,
                  WriteRecvAddr, WriteRecvData, WriteIssue, WriteWaitDone, WriteResp
    <2>2. command' = command /\ phase' = "r"
      BY <1>5, <2>1 DEF HostTick, S_AXI_ARREADY
    <2>3. command \in Command
      BY <1>5 DEF HostAgrees
    <2>4. latched_address' = CommandAddress(command)'
      BY <2>1, <2>2, <2>3, CommandAddressFits
    <2> QED
      BY <1>1, <1>5, <2>1, <2>2, <2>4 DEF HostAgrees, IsRead, CmStates
  <1>6. CASE phase = "r"
    <2>1. /\ cm_state' = IF cm_state = "READ_ISSUE" THEN "READ_WAIT_DONE"
                         ELSE IF cm_state = "READ_WAIT_DONE" THEN "READ_RESP" ELSE "IDLE"
          /\ latched_address' = latched_address
      BY <1>6 DEF HostAgrees, SocTick, IdleRead, IdleWrite, ReadIssue, ReadWaitDone, ReadResp,
                  WriteRecvAddr, WriteRecvData, WriteIssue, WriteWaitDone, WriteResp, KeepLatches
    <2>2. /\ phase' = IF cm_state = "READ_RESP" THEN "none" ELSE "r"
          /\ command' = IF cm_state = "READ_RESP" THEN NoCommand ELSE command
      BY <1>6 DEF HostTick, S_AXI_RVALID
    <2>3. CASE cm_state = "READ_RESP"
      BY <1>1, <1>6, <2>1, <2>2, <2>3 DEF HostAgrees, IsRead, CmStates
    <2>4. CASE cm_state # "READ_RESP"
      <3>1. /\ phase' = "r" /\ command' = command
            /\ cm_state' \in {"READ_ISSUE", "READ_WAIT_DONE", "READ_RESP"}
        BY <1>6, <2>1, <2>2, <2>4 DEF HostAgrees
      <3> QED
        BY <1>1, <1>6, <2>1, <3>1 DEF HostAgrees, IsRead, CmStates
    <2> QED
      BY <2>3, <2>4
  <1>7. CASE phase = "aw"
    <2>1. /\ cm_state \in {"IDLE", "WRITE_RECV_ADDR"}
          /\ cm_state' = IF cm_state = "IDLE" THEN "WRITE_RECV_ADDR" ELSE "WRITE_RECV_DATA"
          /\ cm_state = "WRITE_RECV_ADDR" =>
               latched_address' = CommandAddress(command) % USED_ADDR
      BY <1>7 DEF HostAgrees, SocTick, IdleRead, IdleWrite, ReadIssue, ReadWaitDone, ReadResp,
                  WriteRecvAddr, WriteRecvData, WriteIssue, WriteWaitDone, WriteResp
    <2>2. command' = command /\ phase' = IF cm_state = "IDLE" THEN "aw" ELSE "w"
      BY <1>7, <2>1 DEF HostTick, S_AXI_AWREADY
    <2>3. command \in Command
      BY <1>7 DEF HostAgrees
    <2>4. cm_state = "WRITE_RECV_ADDR" => latched_address' = CommandAddress(command)'
      BY <2>1, <2>2, <2>3, CommandAddressFits
    <2> QED
      BY <1>1, <1>7, <2>1, <2>2, <2>4 DEF HostAgrees, IsRead, CmStates
  <1>8. CASE phase = "w"
    <2>1. /\ cm_state' = "WRITE_ISSUE" /\ latched_address' = latched_address
          /\ latched_write_data' = command.value /\ latched_write_strobe' = 0 .. 3
      BY <1>8 DEF HostAgrees, SocTick, IdleRead, IdleWrite, ReadIssue, ReadWaitDone, ReadResp,
                  WriteRecvAddr, WriteRecvData, WriteIssue, WriteWaitDone, WriteResp
    <2>2. command' = command /\ phase' = "b"
      BY <1>8 DEF HostTick, S_AXI_WREADY, HostAgrees
    <2> QED
      BY <1>1, <1>8, <2>1, <2>2 DEF HostAgrees, IsRead, CmStates
  <1>9. CASE phase = "b"
    <2>1. /\ cm_state' = IF cm_state = "WRITE_ISSUE" THEN "WRITE_WAIT_DONE"
                         ELSE IF cm_state = "WRITE_WAIT_DONE" THEN "WRITE_RESP" ELSE "IDLE"
          /\ UNCHANGED <<latched_address, latched_write_data, latched_write_strobe>>
      BY <1>9 DEF HostAgrees, SocTick, IdleRead, IdleWrite, ReadIssue, ReadWaitDone, ReadResp,
                  WriteRecvAddr, WriteRecvData, WriteIssue, WriteWaitDone, WriteResp, KeepLatches
    <2>2. /\ phase' = IF cm_state = "WRITE_RESP" THEN "none" ELSE "b"
          /\ command' = IF cm_state = "WRITE_RESP" THEN NoCommand ELSE command
      BY <1>9 DEF HostTick, S_AXI_BVALID
    <2>3. CASE cm_state = "WRITE_RESP"
      BY <1>1, <1>9, <2>1, <2>2, <2>3 DEF HostAgrees, IsRead, CmStates
    <2>4. CASE cm_state # "WRITE_RESP"
      <3>1. /\ phase' = "b" /\ command' = command
            /\ cm_state' \in {"WRITE_ISSUE", "WRITE_WAIT_DONE", "WRITE_RESP"}
        BY <1>9, <2>1, <2>2, <2>4 DEF HostAgrees
      <3> QED
        BY <1>1, <1>9, <2>1, <3>1 DEF HostAgrees, IsRead, CmStates
    <2> QED
      BY <2>3, <2>4
  <1> QED
    BY <1>4, <1>5, <1>6, <1>7, <1>8, <1>9 DEF HostAgrees

-----------------------------------------------------------------------------
(***************************************************************************)
(* Types.                                                                  *)
(***************************************************************************)

\* The pins that the control module drives have their types.
LEMMA CorePinsType ==
  ASSUME SocTypeOK
  PROVE  CorePins \in CmType /\ CorePins.pc_stall = pc_stall
  <1>1. 0 \in Word /\ 0 \in RegIdx /\ 0 \in FaultMode /\ NUM_REGISTERS \in Nat \ {0}
    BY ZeroIsWord, SizesAssumption DEF FaultMode
  <1>2. sub_addr \in Nat
    BY DEF SocTypeOK, sub_addr
  <1>3. regfile_sub_addr \in RegIdx /\ fault_reg_addr \in RegIdx
    BY <1>1, <1>2 DEF regfile_sub_addr, fault_reg_addr, RegIdx
  <1>4. fault_mode \in FaultMode
    BY <1>2 DEF fault_mode, FaultMode
  <1>5. regfile_addr \in RegIdx
    BY <1>1, <1>3 DEF regfile_addr
  <1>6. /\ pc_write_enable \in BOOLEAN /\ regfile_write_enable \in BOOLEAN
        /\ regfile_fault_enable \in BOOLEAN
    BY DEF pc_write_enable, ControlWrite, regfile_write_enable, regfile_fault_enable
  <1>7. pc_stall \in BOOLEAN /\ latched_write_data \in Word
    BY DEF SocTypeOK
  <1> QED
    BY <1>1, <1>3, <1>4, <1>5, <1>6, <1>7 DEF CorePins, CmType

\* The debug vector is cut to the width of a word.
LEMMA DebugVectorType ==
  ASSUME CpuTypeOK, NEW cm, NEW axi
  PROVE  cm_debug_vector(cm, axi) \in Word
  <1>1. next_pc \in Word /\ pc \in Word
    BY WireTypes DEF CpuTypeOK
  <1> DEFINE bit(b) == IF b THEN 1 ELSE 0
             vector ==
               (bit(next_pc_valid) * 268435456) + (bit(next_pc_ready) * 16777216)
               + (bit(pc_valid(cm)) * 1048576) + (bit(pc_ready(ArbiterInputs(cm), axi)) * 65536)
               + (bit(pc_release_pending) * 4096) + ((next_pc % 16) * 256) + (pc % 256)
  <1>2. cm_debug_vector(cm, axi) = vector % WORD_SIZE
    BY SMT DEF cm_debug_vector
  <1>3. \A b : bit(b) \in 0 .. 1
    OBVIOUS
  <1>4. next_pc % 16 \in Nat /\ pc % 256 \in Nat
    BY <1>1, SMT DEF Word
  <1>5. vector \in Int
    <2> HIDE DEF bit
    <2> QED
      BY <1>3, <1>4, SMT
  <1> HIDE DEF vector
  <1>6. vector % WORD_SIZE \in 0 .. (WORD_SIZE - 1)
    BY <1>5, SizesAssumption, SMT
  <1> QED
    BY <1>2, <1>6 DEF Word

\* A clock edge keeps the types of the control module.
LEMMA SocType ==
  ASSUME SocTypeOK, CpuTypeOK, HostAgrees, NEW axi, SocTick(HostInputs, CoreOutputs(axi)),
         HostTick
  PROVE  SocTypeOK'
  <1> DEFINE core == CoreOutputs(axi)
  <1>1. /\ core.pc_read_data \in Word /\ core.regfile_read_data \in Word
        /\ core.core_debug_vector \in Word
    BY DebugVectorType DEF CoreOutputs, CpuTypeOK, RfTypeOK
  <1>2. cm_state' \in CmStates /\ pc_stall' \in BOOLEAN
    BY HostStep DEF HostAgrees
  <1>3. latched_address' \in 0 .. (USED_ADDR - 1)
    <2>1. CASE latched_address' = latched_address
      BY <2>1 DEF SocTypeOK
    <2>2. CASE latched_address' # latched_address
      <3>1. phase \in {"ar", "aw"} /\ latched_address' = CommandAddress(command) % USED_ADDR
        BY <2>2 DEF SocTick, IdleRead, IdleWrite, ReadIssue, ReadWaitDone, ReadResp, HostInputs,
                    WriteRecvAddr, WriteRecvData, WriteIssue, WriteWaitDone, WriteResp, KeepLatches
      <3>2. command \in Command
        BY <3>1 DEF HostAgrees
      <3> QED
        BY <3>1, <3>2, CommandAddressFits
    <2> QED
      BY <2>1, <2>2
  <1>4. latched_write_data' \in Word /\ latched_write_strobe' \in Strobe
    <2>1. command.value \in Word
      BY CommandKinds DEF HostAgrees
    <2> QED
      BY <2>1 DEF SocTypeOK, SocTick, IdleRead, IdleWrite, ReadIssue, ReadWaitDone, ReadResp,
                  HostInputs, WriteRecvAddr, WriteRecvData, WriteIssue, WriteWaitDone, WriteResp,
                  KeepLatches, Strobe
  <1>5. op_successful' \in BOOLEAN /\ read_data' \in Word
    <2>1. CASE Collect(core, control_read_valid, regfile_read_valid, FALSE)
               \/ Collect(core, control_write_valid, regfile_write_valid, fault_write_valid)
      BY <1>1, <2>1, ZeroIsWord DEF Collect, SocTypeOK
    <2>2. CASE KeepResult
      BY <2>2 DEF KeepResult, SocTypeOK
    <2> QED
      BY <2>1, <2>2 DEF SocTick, IdleRead, IdleWrite, ReadIssue, ReadWaitDone, ReadResp,
                        WriteRecvAddr, WriteRecvData, WriteIssue, WriteWaitDone, WriteResp
  <1>6. control_read_data' \in Word /\ control_address_valid' \in BOOLEAN
    <2>1. CASE ControlRead(core)
      <3>1. 0 \in Word /\ 1 \in Word
        BY SizesAssumption DEF Word
      <3>2. control_read_data' \in
              {IF pc_stall THEN 1 ELSE 0, core.pc_read_data, core.core_debug_vector, 0}
        BY <2>1 DEF ControlRead
      <3>3. control_address_valid' \in BOOLEAN
        BY <2>1 DEF ControlRead
      <3> HIDE DEF core
      <3> QED
        BY <1>1, <3>1, <3>2, <3>3
    <2>2. CASE KeepControl
      BY <2>2 DEF KeepControl, SocTypeOK
    <2>3. CASE control_read_data' = control_read_data /\ control_address_valid' \in BOOLEAN
      BY <2>3 DEF SocTypeOK
    <2>4. control_address_valid \in BOOLEAN
      BY DEF SocTypeOK
    <2> QED
      BY <2>1, <2>2, <2>3, <2>4
      DEF SocTick, IdleRead, IdleWrite, ReadIssue, ReadWaitDone, ReadResp,
          WriteRecvAddr, WriteRecvData, WriteIssue, WriteWaitDone, WriteResp
  <1> QED
    BY <1>2, <1>3, <1>4, <1>5, <1>6 DEF SocTypeOK

\* The monitor of the steps.
LEMMA OwedMoves ==
  ASSUME HostAgrees, MonitorSteps, owed \in Nat
  PROVE  /\ free' \in BOOLEAN
         /\ free' <=> \/ cm_state = "WRITE_ISSUE" /\ command.op = "start"
                      \/ free /\ ~Halted
         /\ owed' = owed + (IF cm_state = "WRITE_ISSUE" /\ command.op = "step" THEN 1 ELSE 0)
                         - (IF NextPcTransaction /\ owed > 0 THEN 1 ELSE 0)
  BY Effects DEF MonitorSteps

\* A step adds to what the core owes only where there is room.
LEMMA RoomStays ==
  ASSUME HostAgrees, StepHasRoom, NEW core, SocTick(HostInputs, core), HostTick, MonitorSteps
  PROVE  StepHasRoom'
  <1>1. owed \in 0 .. MaxOwed /\ MaxOwed \in Nat
    BY WorkerAssumption DEF StepHasRoom
  <1> DEFINE issues == cm_state = "WRITE_ISSUE" /\ command.op = "step"
  <1>2. owed' = owed + (IF issues THEN 1 ELSE 0) - (IF NextPcTransaction /\ owed > 0 THEN 1 ELSE 0)
    BY <1>1, OwedMoves
  <1>3. issues => owed < MaxOwed
    BY DEF StepHasRoom
  <1>4. /\ cm_state' = "WRITE_WAIT_DONE" <=> cm_state = "WRITE_ISSUE"
        /\ cm_state' = "WRITE_RESP" <=> cm_state = "WRITE_WAIT_DONE"
    BY StateMoves
  <1>5. command'.op = "step" /\ cm_state' \notin {"WRITE_WAIT_DONE", "WRITE_RESP"} =>
          owed < MaxOwed /\ ~issues
    BY <1>4, CallMoves DEF StepHasRoom, MayIssue, NoCommand
  <1> HIDE DEF issues
  <1>6. owed' \in 0 .. MaxOwed /\ (owed < MaxOwed /\ ~issues => owed' < MaxOwed)
    BY <1>1, <1>2, <1>3
  <1> QED
    BY <1>5, <1>6 DEF StepHasRoom

\* The types, with what they rest on, hold at the start and after every step.
TypeInv == TypeOK /\ HostAgrees /\ StepHasRoom

\* The program is in memory, nothing has been asked for.
LEMMA TypeInit == Init => TypeInv
  <1> SUFFICES ASSUME Init PROVE TypeInv
    OBVIOUS
  <1>1. CpuTypeOK /\ SlaveTypeOK
    BY CpuTypeInit, SlaveTypeInit, WorkerAssumption DEF Init
  <1>2. 0 \in 0 .. (USED_ADDR - 1)
    BY SMT DEF USED_ADDR
  <1>3. SocTypeOK
    BY <1>2, ZeroIsWord DEF Init, SocInit, SocTypeOK, CmStates, Strobe
  <1>4. HostAgrees
    BY DEF Init, SocInit, HostAgrees, CmStates, IsRead, NoCommand
  <1>5. StepHasRoom
    BY WorkerAssumption DEF Init, StepHasRoom, NoCommand
  <1>6. command \in Command \cup {NoCommand} /\ phase = "none" /\ free \in BOOLEAN
    BY DEF Init
  <1> QED
    BY <1>1, <1>3, <1>4, <1>5, <1>6 DEF TypeInv, TypeOK, StepHasRoom

\* A clock edge: every part with its own lemma.
LEMMA TypeTick ==
  ASSUME TypeInv, NEW axi \in SlaveOutputs(MasterOutputs(CorePins)), Clock(axi)
  PROVE  TypeInv'
  <1>1. CpuTypeOK' /\ SlaveTypeOK'
    BY CorePinsType, CpuAndSlaveType DEF TypeInv, TypeOK, Clock
  <1>2. SocTypeOK'
    BY SocType DEF TypeInv, TypeOK, Clock
  <1>3. HostAgrees'
    BY HostStep DEF TypeInv, Clock
  <1>4. StepHasRoom'
    BY RoomStays DEF TypeInv, Clock
  <1>5. free' \in BOOLEAN
    BY OwedMoves, WorkerAssumption DEF TypeInv, TypeOK, Clock
  <1> QED
    BY <1>1, <1>2, <1>3, <1>4, <1>5 DEF TypeInv, TypeOK, HostAgrees, StepHasRoom

\* The reset keeps the memory and forgets the call.
LEMMA TypeReset == ASSUME TypeInv, Reset PROVE TypeInv'
  <1>1. CpuTypeOK' /\ SlaveTypeOK'
    BY CpuTypeReset, SlaveTypeReset DEF Reset, TypeInv, TypeOK
  <1>2. 0 \in 0 .. (USED_ADDR - 1)
    BY SMT DEF USED_ADDR
  <1>3. SocTypeOK'
    BY <1>2, ZeroIsWord DEF Reset, SocReset, SocTypeOK, CmStates, Strobe
  <1>4. HostAgrees'
    BY DEF Reset, SocReset, HostAgrees, CmStates, IsRead, NoCommand
  <1>5. StepHasRoom'
    BY WorkerAssumption DEF Reset, StepHasRoom, NoCommand
  <1>6. /\ command' \in Command \cup {NoCommand} /\ phase' = "none" /\ free' \in BOOLEAN
        /\ owed' \in 0 .. MaxOwed
    BY <1>5 DEF Reset, StepHasRoom
  <1> QED
    BY <1>1, <1>3, <1>4, <1>5, <1>6 DEF TypeInv, TypeOK

-----------------------------------------------------------------------------
(***************************************************************************)
(* The core behind a paced firmware.                                       *)
(***************************************************************************)

\* A core at rest stays at rest while the stall stays up.
LEMMA RestStays ==
  ASSUME Halted, NEW axi, CpuTick(CorePins, axi)
  PROVE  /\ ~NextPcTransaction /\ pc_release_pending' /\ ~pc_stall_released'
         /\ pc_stall' <=> Halted'
         /\ pc' = IF pc_write_enable THEN latched_write_data ELSE pc
         /\ RegisterFileTick([enable |-> FALSE, addr |-> decoded.rd, data |-> 0], CorePins)
  <1>1. /\ CorePins.pc_stall = pc_stall /\ CorePins.pc_we = pc_write_enable
        /\ pc_write_enable => CorePins.pc_write_data = latched_write_data
    BY DEF CorePins
  <1>2. /\ ~NextPcTransaction /\ pc_release_pending' /\ ~pc_stall_released'
        /\ pc' = IF CorePins.pc_we THEN CorePins.pc_write_data ELSE pc
        /\ RegisterFileTick([enable |-> FALSE, addr |-> decoded.rd, data |-> 0], CorePins)
    BY <1>1, HaltedKeepsStill DEF Halted
  <1> QED
    BY <1>1, <1>2 DEF Halted

\* A core that works comes to rest with a NEXT_PC transaction under the stall
\* and in no other way.
LEMMA WorkEnds ==
  ASSUME ~Halted, NEW axi, CpuTick(CorePins, axi)
  PROVE  /\ NextPcTransaction =>
              ~pc_release_pending /\ pc_release_pending' /\ ~pc_stall_released'
         /\ ~NextPcTransaction => ~Halted'
  <1>1. CorePins.pc_stall = pc_stall
    BY DEF CorePins
  <1>2. TakeNextPc \/ ReleasePc(CorePins, axi) \/ KeepPc(CorePins, axi)
    BY DEF CpuTick, PcGenerator
  <1>3. NextPcTransaction =>
          ~pc_release_pending /\ pc_release_pending' /\ ~pc_stall_released'
    BY <1>2 DEF TakeNextPc, ReleasePc, KeepPc, NextPcTransaction, next_pc_ready
  <1>4. ASSUME ~NextPcTransaction PROVE ~(pc_release_pending' /\ ~pc_stall_released')
    <2>1. CASE ReleasePc(CorePins, axi)
      BY <2>1 DEF ReleasePc
    <2>2. CASE KeepPc(CorePins, axi)
      BY <1>1, <2>2 DEF KeepPc, PcTransaction, pc_valid, Halted
    <2> QED
      BY <1>2, <1>4, <2>1, <2>2 DEF TakeNextPc
  <1> QED
    BY <1>3, <1>4 DEF Halted

\* The core is at rest when the firmware needs it to be.
LEMMA PacedStays ==
  ASSUME HostPaced, HostAgrees, Paced, NEW axi, Clock(axi)
  PROVE  Paced'
  <1>1. Halted => (pc_stall' <=> Halted')
    BY RestStays DEF Clock
  <1>2. /\ \/ cm_state \notin {"WRITE_ISSUE", "WRITE_WAIT_DONE"}
           \/ command.op \notin {"start", "stop", "step"}
           \/ cm_state = "WRITE_WAIT_DONE" /\ command.op # "step"
           => pc_stall' = pc_stall
    BY StallMoves DEF Clock
  <1>3. /\ cm_state' = "WRITE_WAIT_DONE" <=> cm_state = "WRITE_ISSUE"
        /\ cm_state' = "WRITE_RESP" <=> cm_state = "WRITE_WAIT_DONE"
    BY StateMoves DEF Clock
  <1>4. Halted => pc_stall
    BY DEF Halted
  <1>5. CASE phase = "none" /\ cm_state = "IDLE" /\ cm_state' = "IDLE"
             /\ command' \in Command /\ MayIssue(command')
    <2>1. pc_stall' = pc_stall
      BY <1>2, <1>5
    <2>2. Halted \/ command'.op = "stop" \/ (~pc_stall /\ IsRead(command'))
      BY <1>5 DEF MayIssue
    <2> QED
      BY <1>1, <1>4, <2>1, <2>2 DEF Paced, IsRead
  <1>6. CASE cm_state \notin {"READ_RESP", "WRITE_RESP"} /\ command' = command
    <2>1. CASE command.op \notin {"start", "stop", "step"}
      BY <1>1, <1>2, <1>3, <1>4, <1>6, <2>1 DEF Paced, IsRead
    <2>2. CASE command.op \in {"start", "stop", "step"}
      BY <1>1, <1>2, <1>3, <1>4, <1>6, <2>2 DEF Paced, IsRead
    <2> QED
      BY <2>1, <2>2
  <1>7. CASE command' = NoCommand
    BY <1>7 DEF Paced, IsRead, NoCommand
  <1> QED
    BY <1>5, <1>6, <1>7, CallMoves DEF Clock

\* A core at rest owes no step, and one that works owes one or runs freely.
LEMMA StepsStayCounted ==
  ASSUME HostAgrees, Paced, StepsCounted, NEW axi, Clock(axi)
  PROVE  StepsCounted'
  <1>1. owed \in 0 .. 1 /\ pc_stall \in BOOLEAN
    BY DEF StepsCounted, HostAgrees
  <1> DEFINE steps == cm_state = "WRITE_ISSUE" /\ command.op = "step"
             starts == cm_state = "WRITE_ISSUE" /\ command.op = "start"
  <1>2. /\ free' <=> starts \/ (free /\ ~Halted)
        /\ owed' = owed + (IF steps THEN 1 ELSE 0)
                        - (IF NextPcTransaction /\ owed > 0 THEN 1 ELSE 0)
    BY <1>1, OwedMoves DEF Clock
  <1>3. /\ starts \/ steps => pc_stall' = FALSE /\ Halted
        /\ ~(starts \/ steps) /\ pc_stall => pc_stall' = TRUE
        /\ cm_state = "WRITE_WAIT_DONE" /\ command.op = "step" => pc_stall' = TRUE
    <2>1. starts \/ steps => Halted
      BY DEF Paced, IsRead
    <2> QED
      BY <1>1, <2>1, StallMoves DEF Clock
  <1>4. steps => cm_state' = "WRITE_WAIT_DONE" /\ command' = command
    BY StateMoves, CallMoves DEF Clock
  <1>5. Halted => /\ ~NextPcTransaction /\ pc_release_pending'
                  /\ pc_stall' <=> Halted'
    BY RestStays DEF Clock
  <1>6. ~Halted =>
          /\ NextPcTransaction =>
               ~pc_release_pending /\ pc_release_pending' /\ ~pc_stall_released'
          /\ ~NextPcTransaction => ~Halted'
    BY WorkEnds DEF Clock
  <1>7. /\ owed = 1 => ~Halted /\ ~free
        /\ ~Halted => owed = 1 \/ free
        /\ owed = 1 /\ ~pc_stall =>
             cm_state = "WRITE_WAIT_DONE" /\ command.op = "step" /\ pc_release_pending
    BY DEF StepsCounted
  <1>8. Halted => pc_stall
    BY DEF Halted
  <1>9. ~(starts /\ steps)
    OBVIOUS
  <1>10. steps => command.op = "step"
    OBVIOUS
  <1> HIDE DEF steps, starts
  <1>11. CASE Halted
    <2>1. owed = 0 /\ ~NextPcTransaction
      BY <1>1, <1>5, <1>7, <1>11
    <2>2. CASE steps
      <3>1. owed' = 1 /\ ~free' /\ ~Halted'
        BY <1>2, <1>3, <1>5, <1>9, <1>11, <2>1, <2>2
      <3> QED
        BY <1>4, <1>5, <1>10, <1>11, <2>2, <3>1 DEF StepsCounted
    <2>3. CASE ~steps
      <3>1. owed' = 0
        BY <1>2, <2>1, <2>3
      <3>2. starts => free'
        BY <1>2
      <3>3. ~starts => Halted'
        BY <1>3, <1>5, <1>8, <1>11, <2>3
      <3> QED
        BY <3>1, <3>2, <3>3 DEF StepsCounted
    <2> QED
      BY <2>2, <2>3
  <1>12. CASE ~Halted
    <2>1. ~starts /\ ~steps /\ (free' <=> free)
      BY <1>2, <1>3, <1>12
    <2>2. owed' = owed - (IF NextPcTransaction /\ owed > 0 THEN 1 ELSE 0)
      BY <1>1, <1>2, <2>1
    <2>3. CASE owed = 1
      <3>1. pc_stall' = TRUE
        BY <1>1, <1>3, <1>7, <2>1, <2>3
      <3>2. CASE NextPcTransaction
        <4>1. owed' = 0
          BY <2>2, <2>3, <3>2
        <4>2. Halted'
          BY <1>6, <1>12, <3>1, <3>2 DEF Halted
        <4> QED
          BY <4>1, <4>2 DEF StepsCounted
      <3>3. CASE ~NextPcTransaction
        <4>1. owed' = 1 /\ ~Halted' /\ ~free'
          BY <1>6, <1>7, <1>12, <2>1, <2>2, <2>3, <3>3
        <4> QED
          BY <3>1, <4>1 DEF StepsCounted
      <3> QED
        BY <3>2, <3>3
    <2>4. CASE owed = 0
      <3>1. owed' = 0 /\ free'
        BY <1>7, <1>12, <2>1, <2>2, <2>4
      <3> QED
        BY <3>1 DEF StepsCounted
    <2> QED
      BY <1>1, <2>3, <2>4
  <1> QED
    BY <1>11, <1>12

\* A write finds the core at rest and no write-back in its way.
LEMMA WritesStay ==
  ASSUME TypeInv, Paced, NEW axi, Clock(axi)
  PROVE  WritesTakeEffect'
  <1>1. HostAgrees /\ RfTypeOK
    BY DEF TypeInv, TypeOK, CpuTypeOK
  <1>2. SUFFICES ASSUME cm_state' = "WRITE_WAIT_DONE" PROVE WritesTakeEffect'
    BY DEF WritesTakeEffect, RegisterWritesTake, PcWritesTake
  <1>3. cm_state = "WRITE_ISSUE"
    BY <1>1, <1>2, StateMoves DEF Clock
  <1>4. UNCHANGED <<latched_address, latched_write_data, latched_write_strobe>>
    BY <1>3 DEF Clock, SocTick, IdleRead, IdleWrite, ReadIssue, ReadWaitDone, ReadResp,
                WriteRecvAddr, WriteRecvData, WriteIssue, WriteWaitDone, WriteResp, KeepLatches
  <1>5. command \in Command /\ command.op \in WriteOps /\ latched_address = CommandAddress(command)
    BY <1>1, <1>3, Stages DEF ReadStates, WriteStates
  <1>6. command.op \in {"pc_set", "regfile_write"} =>
          /\ pc' = IF pc_write_enable THEN latched_write_data ELSE pc
          /\ RegisterFileTick([enable |-> FALSE, addr |-> decoded.rd, data |-> 0], CorePins)
    BY RestStays DEF Paced, Clock
  <1>7. RegisterWritesTake'
    <2>1. SUFFICES ASSUME regfile_write_valid'
                   PROVE  registers'[regfile_sub_addr'] = latched_write_data'
      BY DEF RegisterWritesTake
    <2>2. regfile_write_valid /\ regfile_sub_addr' = regfile_sub_addr
      BY <1>4, <2>1 DEF regfile_write_valid, regfile_read_valid, regfile_selected, sub_addr,
                        sub_selector, sub_addr_aligned, regfile_sub_addr, write_strobe_full
    <2>3. command.op = "regfile_write" /\ regfile_sub_addr = command.reg /\ command.reg # 0
      BY <1>5, <2>2, CommandDecode DEF regfile_write_valid, regfile_read_valid, WriteOps
    <2>4. regfile_write_enable /\ regfile_addr = command.reg
      BY <1>3, <2>2, <2>3 DEF regfile_write_enable, regfile_addr
    <2>5. /\ CorePins.regfile_we /\ CorePins.regfile_addr = command.reg
          /\ CorePins.regfile_write_data = latched_write_data
      BY <2>4 DEF CorePins
    <2>6. registers' = [registers EXCEPT ![command.reg] = latched_write_data]
      BY <1>6, <2>3, <2>5 DEF RegisterFileTick, WriteBack, ExtraWrite, FaultWrite, NoWrite,
                              CoreWrites, ExtraWrites
    <2>7. command.reg \in RegIdx \ {0} /\ registers \in [RegIdx \ {0} -> Word]
      BY <1>1, <1>5, <2>3, CommandFields DEF RfTypeOK
    <2> QED
      BY <1>4, <2>2, <2>3, <2>6, <2>7
  <1>8. PcWritesTake'
    <2>1. SUFFICES ASSUME control_write_valid', sub_addr' = CTRL_REG_PC
                   PROVE  pc' = latched_write_data'
      BY DEF PcWritesTake
    <2>2. control_selected /\ sub_addr = CTRL_REG_PC
      BY <1>4, <2>1 DEF control_write_valid, control_read_valid, control_selected, sub_selector,
                        sub_addr
    <2>3. command.op = "pc_set" /\ pc_write_enable
      BY <1>3, <1>5, <2>2, CommandDecode DEF pc_write_enable, ControlWrite, WriteOps, ControlOps
    <2> QED
      BY <1>4, <1>6, <2>3
  <1> QED
    BY <1>7, <1>8 DEF WritesTakeEffect

\* A core at rest keeps its state while a read collects it.
LEMMA ReadsStay ==
  ASSUME TypeInv, Paced, ReadsCollected, NEW axi, Clock(axi)
  PROVE  ReadsCollected'
  <1>1. HostAgrees
    BY DEF TypeInv
  <1> SUFFICES ASSUME IsRead(command)', Halted',
                      cm_state' \in {"READ_WAIT_DONE", "READ_RESP"}
               PROVE  ReadsCollected'
    BY DEF ReadsCollected
  <1>2. cm_state \in {"READ_ISSUE", "READ_WAIT_DONE"} /\ command' = command
    BY <1>1, StateMoves, CallMoves DEF Clock
  <1>3. /\ command \in Command /\ command.op \in ReadOps /\ IsRead(command)
        /\ latched_address = CommandAddress(command)
    BY <1>1, <1>2, Stages DEF ReadStates, WriteStates, IsRead, ReadOps
  <1>4. pc_stall' = pc_stall /\ Halted
    <2>1. pc_stall' = pc_stall
      BY <1>1, <1>2, StallMoves DEF Clock
    <2> QED
      BY <1>3, <2>1 DEF Paced, Halted
  <1>5. /\ ~pc_write_enable /\ ~regfile_write_enable /\ ~regfile_fault_enable
        /\ cm_state = "READ_ISSUE" /\ command.op = "regfile_read" => regfile_addr = command.reg
    BY <1>1, <1>2, Effects
  <1>6. /\ pc' = pc /\ registers' = registers
        /\ extra_read_data' = ReadRegister(registers, regfile_addr)
    <2>1. /\ ~CorePins.regfile_we /\ ~CorePins.fault_enable
          /\ CorePins.regfile_addr = regfile_addr
      BY <1>5 DEF CorePins
    <2> QED
      BY <1>4, <1>5, <2>1, RestStays
      DEF Clock, RegisterFileTick, WriteBack, ExtraWrite, FaultWrite, NoWrite, CoreWrites,
          ExtraWrites, FaultWrites
  <1>7. /\ control_selected <=> command.op \in ControlOps
        /\ regfile_selected <=> command.op \in {"regfile_read", "regfile_write"}
        /\ sub_addr_aligned
        /\ command.op \in ControlOps =>
             (sub_addr = CTRL_REG_PC <=> command.op \in {"pc_read", "pc_set"})
        /\ command.op \in {"regfile_read", "regfile_write"} => regfile_read_valid
    BY <1>3, CommandDecode
  <1>8. CASE cm_state = "READ_ISSUE"
    <2>1. cm_state' = "READ_WAIT_DONE"
      BY <1>1, <1>8, StateMoves DEF Clock
    <2>2. control_selected => ControlRead(CoreOutputs(axi))
      BY <1>8 DEF Clock, SocTick, IdleRead, IdleWrite, ReadIssue, ReadWaitDone, ReadResp,
                  WriteRecvAddr, WriteRecvData, WriteIssue, WriteWaitDone, WriteResp
    <2>3. command.op = "pc_read" => control_address_valid' /\ control_read_data' = pc
      BY <1>7, <2>2 DEF ControlOps, ControlRead, CoreOutputs, CTRL_REG_STATUS, CTRL_REG_PC,
                        CTRL_REG_DBG_VECTOR
    <2> QED
      BY <1>2, <1>5, <1>6, <1>8, <2>1, <2>3 DEF ReadsCollected
  <1>9. CASE cm_state = "READ_WAIT_DONE"
    <2>1. cm_state' = "READ_RESP"
      BY <1>1, <1>9, StateMoves DEF Clock
    <2>2. Collect(CoreOutputs(axi), control_read_valid, regfile_read_valid, FALSE)
      BY <1>9 DEF Clock, SocTick, IdleRead, IdleWrite, ReadIssue, ReadWaitDone, ReadResp,
                  WriteRecvAddr, WriteRecvData, WriteIssue, WriteWaitDone, WriteResp
    <2>3. command.op = "regfile_read" =>
            op_successful' /\ read_data' = ReadRegister(registers, command.reg)
      BY <1>3, <1>4, <1>7, <1>9, <2>2 DEF Collect, CoreOutputs, ReadsCollected, ControlOps
    <2>4. command.op = "pc_read" => op_successful' /\ read_data' = pc
      BY <1>3, <1>4, <1>7, <1>9, <2>2 DEF Collect, control_read_valid, ReadsCollected, ControlOps
    <2> QED
      BY <1>2, <1>6, <2>1, <2>3, <2>4 DEF ReadsCollected
  <1> QED
    BY <1>2, <1>8, <1>9

-----------------------------------------------------------------------------
(***************************************************************************)
(* The theorems.                                                           *)
(***************************************************************************)
PacedInv == HostPaced => Paced /\ StepsCounted /\ ReadsCollected /\ WritesTakeEffect

IInv == TypeInv /\ PacedInv

\* The firmware waits for nothing and the core is at rest after a reset.
LEMMA PacedInit == Init => PacedInv
  <1> SUFFICES ASSUME Init PROVE PacedInv
    OBVIOUS
  <1>1. Halted
    BY DEF Init, CpuInit, SocInit, Halted
  <1> QED
    BY <1>1 DEF Init, SocInit, PacedInv, Paced, StepsCounted, ReadsCollected, WritesTakeEffect,
                RegisterWritesTake, PcWritesTake, IsRead, NoCommand

\* The reset stalls the core and ends the call.
LEMMA PacedReset == Reset => PacedInv'
  <1> SUFFICES ASSUME Reset PROVE PacedInv'
    OBVIOUS
  <1>1. Halted'
    BY DEF Reset, CpuReset, SocReset, Halted
  <1> QED
    BY <1>1 DEF Reset, SocReset, PacedInv, Paced, StepsCounted, ReadsCollected, WritesTakeEffect,
                RegisterWritesTake, PcWritesTake, IsRead, NoCommand

\* Every step keeps the invariant.
LEMMA Inductive == IInv /\ [Next]_vars => IInv'
  <1> SUFFICES ASSUME IInv, [Next]_vars PROVE IInv'
    OBVIOUS
  <1>1. CASE Tick
    <2>1. PICK axi \in SlaveOutputs(MasterOutputs(CorePins)) : Clock(axi)
      BY <1>1 DEF Tick
    <2>2. TypeInv'
      BY <2>1, TypeTick DEF IInv
    <2>3. PacedInv'
      BY <2>1, PacedStays, StepsStayCounted, ReadsStay, WritesStay DEF IInv, PacedInv, TypeInv
    <2> QED
      BY <2>2, <2>3 DEF IInv
  <1>2. CASE Reset
    BY <1>2, TypeReset, PacedReset DEF IInv
  <1>3. CASE UNCHANGED vars
    <2>1. CpuTypeOK' /\ SlaveTypeOK' /\ SocTypeOK'
      BY <1>3 DEF IInv, TypeInv, TypeOK, vars, cpu_vars, arb_vars, rf_vars, slave_vars, soc_vars,
                  CpuTypeOK, ArbTypeOK, RfTypeOK, SlaveTypeOK, SocTypeOK
    <2>2. HostAgrees' /\ StepHasRoom'
      BY <1>3 DEF IInv, TypeInv, HostAgrees, StepHasRoom, IsRead, vars, host_vars, soc_vars
    <2>3. TypeInv'
      BY <1>3, <2>1, <2>2 DEF IInv, TypeInv, TypeOK, vars, host_vars
    <2>4. Halted' <=> Halted
      BY <1>3 DEF Halted, vars, cpu_vars, soc_vars
    <2>5. (Paced /\ StepsCounted) => (Paced /\ StepsCounted)'
      BY <1>3, <2>4 DEF Paced, StepsCounted, IsRead, vars, cpu_vars, soc_vars, host_vars
    <2>6. ReadsCollected => ReadsCollected'
      BY <1>3, <2>4 DEF ReadsCollected, IsRead, vars, cpu_vars, rf_vars, soc_vars, host_vars
    <2>7. WritesTakeEffect => WritesTakeEffect'
      BY <1>3 DEF WritesTakeEffect, RegisterWritesTake, PcWritesTake, regfile_write_valid,
                  regfile_read_valid, regfile_selected, regfile_sub_addr, sub_selector, sub_addr,
                  sub_addr_aligned, write_strobe_full, control_write_valid, control_read_valid,
                  control_selected, vars, cpu_vars, rf_vars, soc_vars
    <2> QED
      BY <2>3, <2>5, <2>6, <2>7 DEF IInv, PacedInv
  <1> QED
    BY <1>1, <1>2, <1>3 DEF Next

\* IInv holds in every reachable state.
LEMMA Invariant == Spec => []IInv
  <1>1. Init => IInv
    BY TypeInit, PacedInit DEF IInv
  <1> QED
    BY <1>1, Inductive, PTL DEF Spec

\* Core, memory, control module and firmware keep their types, at any pace of
\* the firmware.
THEOREM WorkerTypeCorrect == Spec => []TypeOK
  <1>1. IInv => TypeOK
    BY DEF IInv, TypeInv
  <1> QED
    BY <1>1, Invariant, PTL

\* Behind a firmware that lets the core come to rest, a step executes exactly
\* one instruction (soc_control.v:347-391 and riscv_cpu.v:109-151).
THEOREM StepsExact == Spec => [](HostPaced => StepsAreExact)
  <1>1. IInv => (HostPaced => StepsAreExact)
    <2> SUFFICES ASSUME IInv, HostPaced PROVE StepsAreExact
      OBVIOUS
    <2>1. NextPcTransaction => ~Halted
      BY DEF NextPcTransaction, next_pc_ready, Halted
    <2> QED
      BY <2>1 DEF IInv, PacedInv, StepsCounted, StepsAreExact
  <1> QED
    BY <1>1, Invariant, PTL

\* A write to the pc or to a register that is answered OKAY has taken effect:
\* no write-back took the port (register_file.v:56-86) and no NEXT_PC
\* transaction the pc.
THEOREM WritesTake == Spec => [](HostPaced => WritesTakeEffect)
  <1>1. IInv => (HostPaced => WritesTakeEffect)
    BY DEF IInv, PacedInv
  <1> QED
    BY <1>1, Invariant, PTL

\* What the firmware reads of a core at rest is what the core holds, though it
\* was collected over three cycles (soc_control.v:191-265).
THEOREM ReadsCurrent == Spec => [](HostPaced => ReadsAreCurrent)
  <1>1. IInv => (HostPaced => ReadsAreCurrent)
    <2> SUFFICES ASSUME IInv, HostPaced PROVE ReadsAreCurrent
      OBVIOUS
    <2>1. S_AXI_RVALID => IsRead(command)
      BY Stages DEF IInv, TypeInv, S_AXI_RVALID, ReadStates, ReadOps, IsRead
    <2> QED
      BY <2>1 DEF IInv, PacedInv, ReadsCollected, ReadsAreCurrent, S_AXI_RVALID, S_AXI_RDATA
  <1> QED
    BY <1>1, Invariant, PTL

-----------------------------------------------------------------------------
(***************************************************************************)
(* The refinement of CoreSystem.  Core!X is the operator X of CoreSystem   *)
(* over the same state; the lemmas say that it is this module's X, from    *)
(* the data through the wires to the clocked blocks.                       *)
(***************************************************************************)

\* The data and the wires between the stages.
LEMMA SameWires ==
  /\ Core!decoded = decoded /\ Core!rs1 = rs1 /\ Core!rs2 = rs2
  /\ Core!alu_result = alu_result /\ Core!mem_addr = mem_addr
  /\ Core!mem_write_strobe = mem_write_strobe /\ Core!mem_write_data = mem_write_data
  /\ Core!next_pc = next_pc /\ Core!write_back_values = write_back_values
  <1>1. /\ \A a, b : Core!Add(a, b) = Add(a, b)
        /\ \A a : Core!WordAlign(a) = WordAlign(a)
        /\ \A m, a : Core!ReadRegister(m, a) = ReadRegister(m, a)
    BY DEF Core!Add, Add, Core!WordAlign, WordAlign, Core!ReadRegister, ReadRegister
  <1>2. Core!decoded = decoded
    BY DEF Core!decoded, decoded
  <1>3. Core!rs1 = rs1 /\ Core!rs2 = rs2 /\ Core!pc_plus_4 = pc_plus_4
    BY <1>1, <1>2 DEF Core!rs1, rs1, Core!rs2, rs2, Core!pc_plus_4, pc_plus_4
  <1>4. Core!alu_result = alu_result
    BY <1>2, <1>3 DEF Core!alu_result, alu_result
  <1>5. Core!take_branch <=> take_branch
    BY <1>4 DEF Core!take_branch, take_branch
  <1>6. Core!mem_addr = mem_addr
    BY <1>1, <1>2, <1>3 DEF Core!mem_addr, mem_addr, Core!mem_addr_aux, mem_addr_aux
  <1>7. Core!mem_write_strobe = mem_write_strobe /\ Core!mem_write_data = mem_write_data
    BY <1>2, <1>3, <1>4
    DEF Core!mem_write_strobe, mem_write_strobe, Core!mem_write_data, mem_write_data
  <1>8. Core!next_pc = next_pc
    BY <1>1, <1>2, <1>3, <1>5 DEF Core!next_pc, next_pc
  <1>9. Core!write_back_values = write_back_values
    BY <1>2, <1>3, <1>4, <1>7 DEF Core!write_back_values, write_back_values
  <1> QED
    BY <1>2, <1>3, <1>4, <1>6, <1>7, <1>8, <1>9

\* The handshakes.
LEMMA SameHandshakes ==
  ASSUME NEW cm, NEW axi
  PROVE  /\ Core!ArbiterInputs(cm) = ArbiterInputs(cm)
         /\ Core!MasterOutputs(cm) = MasterOutputs(cm)
         /\ Core!NextPcTransaction <=> NextPcTransaction
         /\ Core!PcTransaction(cm, axi) <=> PcTransaction(cm, axi)
         /\ Core!DecodedTransaction(cm) <=> DecodedTransaction(cm)
         /\ Core!ExecuteResultTransaction <=> ExecuteResultTransaction
         /\ Core!pc_valid(cm) <=> pc_valid(cm)
  <1>1. Core!pc_valid(cm) <=> pc_valid(cm)
    BY DEF Core!pc_valid, pc_valid
  <1>2. Core!ArbiterInputs(cm) = ArbiterInputs(cm)
    BY SameWires
    DEF Core!ArbiterInputs, ArbiterInputs, Core!pc_valid, pc_valid
  <1>3. Core!MasterOutputs(cm) = MasterOutputs(cm)
    BY <1>2
    DEF Core!MasterOutputs, MasterOutputs, Core!FetchAddressPhase, FetchAddressPhase,
        Core!M_AXI_ARVALID, M_AXI_ARVALID, Core!M_AXI_ARADDR, M_AXI_ARADDR,
        Core!M_AXI_RREADY, M_AXI_RREADY, Core!M_AXI_AWVALID, M_AXI_AWVALID,
        Core!M_AXI_AWADDR, M_AXI_AWADDR, Core!M_AXI_WVALID, M_AXI_WVALID,
        Core!M_AXI_WDATA, M_AXI_WDATA, Core!M_AXI_WSTRB, M_AXI_WSTRB,
        Core!M_AXI_BREADY, M_AXI_BREADY
  <1>4. Core!NextPcTransaction <=> NextPcTransaction
    BY DEF Core!NextPcTransaction, NextPcTransaction, Core!next_pc_ready, next_pc_ready
  <1>5. Core!PcTransaction(cm, axi) <=> PcTransaction(cm, axi)
    BY <1>1, <1>2 DEF Core!PcTransaction, PcTransaction, Core!pc_ready, pc_ready,
                      Core!FetchAddressPhase, FetchAddressPhase
  <1>6. Core!DecodedTransaction(cm) <=> DecodedTransaction(cm)
    BY <1>2, SameWires
    DEF Core!DecodedTransaction, DecodedTransaction, Core!decoded_ready, decoded_ready,
        Core!load_store_ready, load_store_ready
  <1>7. Core!ExecuteResultTransaction <=> ExecuteResultTransaction
    BY SameWires DEF Core!ExecuteResultTransaction, ExecuteResultTransaction
  <1> QED
    BY <1>1, <1>2, <1>3, <1>4, <1>5, <1>6, <1>7

\* The clocked blocks of the core.
LEMMA SameTick ==
  ASSUME NEW cm, NEW axi, CpuTick(cm, axi)
  PROVE  Core!CpuTick(cm, axi)
  <1>1. Core!PcGenerator(cm, axi)
    BY SameWires, SameHandshakes
    DEF CpuTick, Core!PcGenerator, PcGenerator, Core!TakeNextPc, TakeNextPc, Core!ReleasePc,
        ReleasePc, Core!KeepPc, KeepPc
  <1>2. Core!DecodeStage(cm, axi)
    BY SameHandshakes
    DEF CpuTick, Core!DecodeStage, DecodeStage, Core!LatchInstruction, LatchInstruction,
        Core!PassDecoded, PassDecoded, Core!instruction_valid, instruction_valid
  <1>3. Core!ExecuteStage(cm) /\ Core!NextPcStage
    <2>1. /\ Core!DecodedTransaction(cm) <=> DecodedTransaction(cm)
          /\ Core!ExecuteResultTransaction <=> ExecuteResultTransaction
          /\ Core!NextPcTransaction <=> NextPcTransaction
          /\ Core!decoded = decoded
      BY SameWires, SameHandshakes
    <2>2. Core!ExecuteStage(cm)
      BY <2>1, Zenon DEF CpuTick, Core!ExecuteStage, ExecuteStage
    <2> QED
      BY <2>1, <2>2, Zenon DEF CpuTick, Core!NextPcStage, NextPcStage
  <1>4. Core!ArbTick(ArbiterInputs(cm), axi)
    BY DEF CpuTick, Core!ArbTick, ArbTick, Core!FetchRequest, FetchRequest, Core!LoadStoreAccept,
           LoadStoreAccept, Core!FetchAddress, FetchAddress, Core!FetchData, FetchData,
           Core!LoadAddress, LoadAddress, Core!LoadDone, LoadDone, Core!StoreIssue, StoreIssue,
           Core!StoreAddress, StoreAddress, Core!StoreWriteData, StoreWriteData,
           Core!StoreAcknowledge, StoreAcknowledge, Core!ArbWait, ArbWait,
           Core!load_store_ready, load_store_ready, Core!Goto, Goto, Core!NoResult, NoResult
  <1>5. \A wb : RegisterFileTick(wb, cm) => Core!RegisterFileTick(wb, cm)
    BY DEF Core!RegisterFileTick, RegisterFileTick, Core!WriteBack, WriteBack, Core!ExtraWrite,
           ExtraWrite, Core!FaultWrite, FaultWrite, Core!NoWrite, NoWrite, Core!CoreWrites,
           CoreWrites, Core!ExtraWrites, ExtraWrites, Core!FaultWrites, FaultWrites,
           Core!ReadRegister, ReadRegister
  <1>6. PICK v \in IF NextPcTransaction THEN write_back_values ELSE {0} :
          RegisterFileTick([enable |-> decoded.do_write_back /\ NextPcTransaction,
                            addr |-> decoded.rd, data |-> v], cm)
    BY DEF CpuTick
  <1>7. Core!RegisterFileTick([enable |-> Core!decoded.do_write_back /\ Core!NextPcTransaction,
                               addr |-> Core!decoded.rd, data |-> v], cm)
    <2>1. [enable |-> Core!decoded.do_write_back /\ Core!NextPcTransaction,
           addr |-> Core!decoded.rd, data |-> v] =
          [enable |-> decoded.do_write_back /\ NextPcTransaction, addr |-> decoded.rd, data |-> v]
      BY SameWires, SameHandshakes
    <2> QED
      BY <1>5, <1>6, <2>1
  <1>8. v \in IF Core!NextPcTransaction THEN Core!write_back_values ELSE {0}
    BY <1>6, SameWires, SameHandshakes
  <1> QED
    BY <1>1, <1>2, <1>3, <1>4, <1>7, <1>8, SameHandshakes DEF Core!CpuTick

\* The memory and its port.
LEMMA SameMemory ==
  ASSUME NEW m, NEW axi
  PROVE  /\ Core!SlaveOutputs(m) = SlaveOutputs(m)
         /\ SlaveTick(m, axi) => Core!SlaveTick(m, axi)
  <1>1. Core!SlaveOutputs(m) = SlaveOutputs(m)
    BY DEF Core!SlaveOutputs, SlaveOutputs, Core!SlaveReady, SlaveReady
  <1>2. /\ \A c, a : Core!ReadCell(c, a) = ReadCell(c, a)
        /\ \A c, a, s, d : Core!WriteCell(c, a, s, d) = WriteCell(c, a, s, d)
    BY DEF Core!ReadCell, ReadCell, Core!WriteCell, WriteCell, Core!WordAlign, WordAlign
  <1>3. /\ ReadAccept(m, axi) => Core!ReadAccept(m, axi)
        /\ ReadServe => Core!ReadServe
        /\ ReadFinish(m) => Core!ReadFinish(m)
        /\ ReadIdle(m, axi) => Core!ReadIdle(m, axi)
    BY <1>2 DEF Core!ReadAccept, ReadAccept, Core!ReadServe, ReadServe, Core!ReadFinish,
                ReadFinish, Core!NoRead, NoRead, Core!ReadIdle, ReadIdle
  <1>4. /\ WriteCommit => Core!WriteCommit
        /\ WriteHandshake(m, axi) => Core!WriteHandshake(m, axi)
    BY <1>2 DEF Core!WriteCommit, WriteCommit, Core!NoAw, NoAw, Core!NoW, NoW,
                Core!WriteHandshake, WriteHandshake
  <1> QED
    BY <1>1, <1>3, <1>4 DEF Core!SlaveTick, SlaveTick

\* Two records of the pins are the same when their fields are.
PinNames == {"pc_stall", "pc_we", "pc_write_data", "regfile_addr", "regfile_we",
             "regfile_write_data", "fault_enable", "fault_addr", "fault_mode", "fault_mask"}

IsPins(p) == DOMAIN p = PinNames /\ p = [i \in DOMAIN p |-> p[i]]

\* Extensionality, for the records of the pins.
LEMMA SamePins ==
  ASSUME NEW p, NEW q, IsPins(p), IsPins(q),
         p.pc_stall = q.pc_stall, p.pc_we = q.pc_we, p.pc_write_data = q.pc_write_data,
         p.regfile_addr = q.regfile_addr, p.regfile_we = q.regfile_we,
         p.regfile_write_data = q.regfile_write_data, p.fault_enable = q.fault_enable,
         p.fault_addr = q.fault_addr, p.fault_mode = q.fault_mode, p.fault_mask = q.fault_mask
  PROVE  p = q
  BY SMT DEF IsPins, PinNames

\* The pins are idle, read a register, or change a core that is at rest.
LEMMA PinsAllowed ==
  ASSUME HostPaced, IInv
  PROVE  CorePins \in Core!CmPins
  <1>1. HostAgrees /\ Paced /\ SocTypeOK
    BY DEF IInv, TypeInv, TypeOK, PacedInv
  <1>2. Core!Halted <=> Halted
    BY DEF Core!Halted, Halted
  <1>3. /\ pc_write_enable <=> cm_state = "WRITE_ISSUE" /\ command.op = "pc_set"
        /\ regfile_write_enable <=>
             cm_state = "WRITE_ISSUE" /\ command.op = "regfile_write" /\ command.reg # 0
        /\ regfile_fault_enable <=>
             cm_state = "WRITE_ISSUE" /\ command.op = "fault_inject" /\ command.reg # 0
        /\ regfile_addr =
             IF \/ regfile_write_enable
                \/ cm_state = "READ_ISSUE" /\ command.op = "regfile_read"
             THEN command.reg ELSE 0
    BY <1>1, Effects
  <1>4. cm_state \in {"WRITE_ISSUE", "READ_ISSUE"} =>
          command \in Command /\ latched_address = CommandAddress(command)
    BY <1>1, Stages DEF ReadStates, WriteStates
  <1>5. cm_state = "WRITE_ISSUE" => latched_write_data = command.value
    BY <1>1, Stages DEF WriteStates
  <1>6. command.op \in {"pc_set", "regfile_write", "fault_inject"} => Halted
    BY <1>1 DEF Paced
  <1>12. /\ pc_write_enable \in BOOLEAN /\ regfile_write_enable \in BOOLEAN
         /\ regfile_fault_enable \in BOOLEAN
    BY DEF pc_write_enable, ControlWrite, regfile_write_enable, regfile_fault_enable
  <1>13. CorePins =
           [pc_stall |-> pc_stall, pc_we |-> pc_write_enable,
            pc_write_data |-> IF pc_write_enable THEN command.value ELSE 0,
            regfile_addr |-> regfile_addr,
            regfile_we |-> regfile_write_enable,
            regfile_write_data |-> IF regfile_write_enable THEN command.value ELSE 0,
            fault_enable |-> regfile_fault_enable,
            fault_addr |-> IF regfile_fault_enable THEN command.reg ELSE 0,
            fault_mode |-> IF regfile_fault_enable THEN command.mode ELSE 0,
            fault_mask |-> IF regfile_fault_enable THEN command.value ELSE 0]
    <2>1. regfile_fault_enable => fault_reg_addr = command.reg /\ fault_mode = command.mode
      BY <1>3, <1>4, CommandDecode
    <2>2. (pc_write_enable \/ regfile_write_enable \/ regfile_fault_enable) =>
             latched_write_data = command.value
      BY <1>3, <1>5
    <2> QED
      BY <2>1, <2>2 DEF CorePins
  <1>7. CASE pc_write_enable
    <2> DEFINE v == command.value
    <2>1. pc_write_enable = TRUE /\ regfile_write_enable = FALSE /\ regfile_fault_enable = FALSE
      BY <1>3, <1>7, <1>12
    <2>3. regfile_addr = 0
      BY <1>3, <1>7, <2>1
    <2>2. v \in CmPcs
      BY <1>3, <1>4, <1>7, CommandFields
    <2>4. CorePins = [pc_stall |-> pc_stall, pc_we |-> TRUE, pc_write_data |-> v,
                      regfile_addr |-> 0, regfile_we |-> FALSE, regfile_write_data |-> 0,
                      fault_enable |-> FALSE, fault_addr |-> 0, fault_mode |-> 0,
                      fault_mask |-> 0]
      BY <1>13, <2>1, <2>3
    <2> HIDE DEF v
    <2>5. CorePins = [Core!IdlePins EXCEPT !.pc_we = TRUE, !.pc_write_data = v]
      <3> DEFINE q == [Core!IdlePins EXCEPT !.pc_we = TRUE, !.pc_write_data = v]
      <3>1. IsPins(CorePins)
        BY <2>4 DEF IsPins, PinNames
      <3>2. IsPins(q)
        BY DEF IsPins, PinNames, Core!IdlePins
      <3>3. /\ CorePins.pc_stall = q.pc_stall /\ CorePins.pc_we = q.pc_we
            /\ CorePins.pc_write_data = q.pc_write_data
            /\ CorePins.regfile_addr = q.regfile_addr /\ CorePins.regfile_we = q.regfile_we
            /\ CorePins.regfile_write_data = q.regfile_write_data
            /\ CorePins.fault_enable = q.fault_enable /\ CorePins.fault_addr = q.fault_addr
            /\ CorePins.fault_mode = q.fault_mode /\ CorePins.fault_mask = q.fault_mask
        BY <2>4 DEF Core!IdlePins
      <3> HIDE DEF q
      <3>4. CorePins = q
        BY <3>1, <3>2, <3>3, SamePins
      <3> QED
        BY <3>4 DEF q
    <2> QED
      BY <1>2, <1>3, <1>6, <1>7, <2>5, <2>2 DEF Core!CmPins, Core!PcWritePins
  <1>8. CASE regfile_write_enable
    <2> DEFINE x == [reg |-> command.reg, value |-> command.value]
    <2>1. pc_write_enable = FALSE /\ regfile_write_enable = TRUE /\ regfile_fault_enable = FALSE
      BY <1>3, <1>8, <1>12
    <2>2. x \in [reg: CmRegs, value: CmValues]
      BY <1>3, <1>4, <1>8, CommandFields
    <2>3. regfile_addr = x.reg
      BY <1>3, <1>8, <2>1
    <2>4. CorePins = [pc_stall |-> pc_stall, pc_we |-> FALSE, pc_write_data |-> 0,
                      regfile_addr |-> x.reg, regfile_we |-> TRUE,
                      regfile_write_data |-> x.value,
                      fault_enable |-> FALSE, fault_addr |-> 0, fault_mode |-> 0,
                      fault_mask |-> 0]
      BY <1>13, <2>1, <2>3
    <2> HIDE DEF x
    <2>5. CorePins = [Core!IdlePins EXCEPT !.regfile_we = TRUE, !.regfile_addr = x.reg,
                                           !.regfile_write_data = x.value]
      <3> DEFINE q == [Core!IdlePins EXCEPT !.regfile_we = TRUE, !.regfile_addr = x.reg,
                                           !.regfile_write_data = x.value]
      <3>1. IsPins(CorePins)
        BY <2>4 DEF IsPins, PinNames
      <3>2. IsPins(q)
        BY DEF IsPins, PinNames, Core!IdlePins
      <3>3. /\ CorePins.pc_stall = q.pc_stall /\ CorePins.pc_we = q.pc_we
            /\ CorePins.pc_write_data = q.pc_write_data
            /\ CorePins.regfile_addr = q.regfile_addr /\ CorePins.regfile_we = q.regfile_we
            /\ CorePins.regfile_write_data = q.regfile_write_data
            /\ CorePins.fault_enable = q.fault_enable /\ CorePins.fault_addr = q.fault_addr
            /\ CorePins.fault_mode = q.fault_mode /\ CorePins.fault_mask = q.fault_mask
        BY <2>4 DEF Core!IdlePins
      <3> HIDE DEF q
      <3>4. CorePins = q
        BY <3>1, <3>2, <3>3, SamePins
      <3> QED
        BY <3>4 DEF q
    <2> QED
      BY <1>2, <1>3, <1>6, <1>8, <2>5, <2>2 DEF Core!CmPins, Core!RegWritePins
  <1>9. CASE regfile_fault_enable
    <2> DEFINE x == [reg |-> command.reg, mode |-> command.mode, mask |-> command.value]
    <2>1. pc_write_enable = FALSE /\ regfile_write_enable = FALSE /\ regfile_fault_enable = TRUE
      BY <1>3, <1>9, <1>12
    <2>2. Core!FaultMode = FaultMode
      BY DEF Core!FaultMode, FaultMode
    <2>3. x \in [reg: CmRegs, mode: Core!FaultMode, mask: CmValues]
      BY <1>3, <1>4, <1>9, <2>2, CommandFields
    <2>6. regfile_addr = 0
      BY <1>3, <1>9, <2>1
    <2>4. CorePins = [pc_stall |-> pc_stall, pc_we |-> FALSE, pc_write_data |-> 0,
                      regfile_addr |-> 0, regfile_we |-> FALSE, regfile_write_data |-> 0,
                      fault_enable |-> TRUE, fault_addr |-> x.reg, fault_mode |-> x.mode,
                      fault_mask |-> x.mask]
      BY <1>13, <2>1, <2>6
    <2> HIDE DEF x
    <2>5. CorePins = [Core!IdlePins EXCEPT !.fault_enable = TRUE, !.fault_addr = x.reg,
                                           !.fault_mode = x.mode, !.fault_mask = x.mask]
      <3> DEFINE q == [Core!IdlePins EXCEPT !.fault_enable = TRUE, !.fault_addr = x.reg,
                                           !.fault_mode = x.mode, !.fault_mask = x.mask]
      <3>1. IsPins(CorePins)
        BY <2>4 DEF IsPins, PinNames
      <3>2. IsPins(q)
        BY DEF IsPins, PinNames, Core!IdlePins
      <3>3. /\ CorePins.pc_stall = q.pc_stall /\ CorePins.pc_we = q.pc_we
            /\ CorePins.pc_write_data = q.pc_write_data
            /\ CorePins.regfile_addr = q.regfile_addr /\ CorePins.regfile_we = q.regfile_we
            /\ CorePins.regfile_write_data = q.regfile_write_data
            /\ CorePins.fault_enable = q.fault_enable /\ CorePins.fault_addr = q.fault_addr
            /\ CorePins.fault_mode = q.fault_mode /\ CorePins.fault_mask = q.fault_mask
        BY <2>4 DEF Core!IdlePins
      <3> HIDE DEF q
      <3>4. CorePins = q
        BY <3>1, <3>2, <3>3, SamePins
      <3> QED
        BY <3>4 DEF q
    <2> QED
      BY <1>2, <1>3, <1>6, <1>9, <2>5, <2>3 DEF Core!CmPins, Core!FaultPins
  <1>10. CASE cm_state = "READ_ISSUE" /\ command.op = "regfile_read"
    <2> DEFINE r == command.reg
    <2>1. /\ pc_write_enable = FALSE /\ regfile_write_enable = FALSE
          /\ regfile_fault_enable = FALSE
      BY <1>3, <1>10, <1>12
    <2>2. r \in CmRegs
      BY <1>4, <1>10, CommandFields
    <2>3. regfile_addr = r
      BY <1>3, <1>10
    <2>4. CorePins = [pc_stall |-> pc_stall, pc_we |-> FALSE, pc_write_data |-> 0,
                      regfile_addr |-> r, regfile_we |-> FALSE, regfile_write_data |-> 0,
                      fault_enable |-> FALSE, fault_addr |-> 0, fault_mode |-> 0,
                      fault_mask |-> 0]
      BY <1>13, <2>1, <2>3
    <2> HIDE DEF r
    <2>5. CorePins = [Core!IdlePins EXCEPT !.regfile_addr = r]
      <3> DEFINE q == [Core!IdlePins EXCEPT !.regfile_addr = r]
      <3>1. IsPins(CorePins)
        BY <2>4 DEF IsPins, PinNames
      <3>2. IsPins(q)
        BY DEF IsPins, PinNames, Core!IdlePins
      <3>3. /\ CorePins.pc_stall = q.pc_stall /\ CorePins.pc_we = q.pc_we
            /\ CorePins.pc_write_data = q.pc_write_data
            /\ CorePins.regfile_addr = q.regfile_addr /\ CorePins.regfile_we = q.regfile_we
            /\ CorePins.regfile_write_data = q.regfile_write_data
            /\ CorePins.fault_enable = q.fault_enable /\ CorePins.fault_addr = q.fault_addr
            /\ CorePins.fault_mode = q.fault_mode /\ CorePins.fault_mask = q.fault_mask
        BY <2>4 DEF Core!IdlePins
      <3> HIDE DEF q
      <3>4. CorePins = q
        BY <3>1, <3>2, <3>3, SamePins
      <3> QED
        BY <3>4 DEF q
    <2> QED
      BY <2>5, <2>2 DEF Core!CmPins, Core!RegReadPins
  <1>11. CASE /\ ~pc_write_enable /\ ~regfile_write_enable /\ ~regfile_fault_enable
              /\ ~(cm_state = "READ_ISSUE" /\ command.op = "regfile_read")
    <2>1. CorePins = Core!IdlePins
      BY <1>3, <1>11, <1>12 DEF CorePins, Core!IdlePins
    <2> QED
      BY <2>1 DEF Core!CmPins
  <1> QED
    BY <1>7, <1>8, <1>9, <1>10, <1>11

\* A clock edge of the worker is one of the core, driven at its pins.
LEMMA TickOfCore ==
  ASSUME HostPaced, IInv, Tick
  PROVE  Core!Tick
  <1>1. PICK axi \in SlaveOutputs(MasterOutputs(CorePins)) : Clock(axi)
    BY DEF Tick
  <1>2. CorePins \in Core!CmPins
    BY PinsAllowed
  <1>3. Core!CpuTick(CorePins, axi)
    BY <1>1, SameTick DEF Clock
  <1>4. /\ axi \in Core!SlaveOutputs(Core!MasterOutputs(CorePins))
        /\ Core!SlaveTick(Core!MasterOutputs(CorePins), axi)
    BY <1>1, SameMemory, SameHandshakes DEF Clock
  <1>5. pc_stall' \in BOOLEAN
    BY <1>1, StallMoves DEF Clock, IInv, TypeInv
  <1> QED
    BY <1>2, <1>3, <1>4, <1>5 DEF Core!Tick, Core!Clock

\* Behind a firmware that lets the core come to rest, the wired system is the
\* core driven as CoreSystem allows: pulses reach a core at rest only, so all
\* that is proved of CoreSystem holds of the core in the worker (cm_and_core.v).
THEOREM WorkerRefinesCore ==
  ASSUME HostPaced
  PROVE  Spec => ImplementsCoreSystem
  <1>1. Init => Core!Init
    BY DEF Init, CpuInit, ArbInit, RfInit, SocInit, SlaveIdle, NoRead, NoAw, NoW,
           Core!Init, Core!CpuInit, Core!ArbInit, Core!RfInit, Core!SlaveIdle, Core!NoRead,
           Core!NoAw, Core!NoW, RegIdx, Core!RegIdx
  <1>2. Reset => Core!Reset
    BY DEF Reset, CpuReset, ArbReset, RfReset, SocReset, SlaveReset, NoRead, NoAw, NoW,
           Core!Reset, Core!CpuReset, Core!ArbReset, Core!RfReset, Core!SlaveReset, Core!NoRead,
           Core!NoAw, Core!NoW, RegIdx, Core!RegIdx
  <1>3. UNCHANGED vars => UNCHANGED Core!vars
    BY DEF vars, cpu_vars, arb_vars, rf_vars, slave_vars, soc_vars, Core!vars, Core!cpu_vars,
           Core!arb_vars, Core!rf_vars, Core!slave_vars
  <1>4. IInv /\ [Next]_vars => [Core!Next]_(Core!vars)
    BY <1>2, <1>3, TickOfCore DEF Next, Core!Next
  <1> QED
    BY <1>1, <1>4, Invariant, PTL DEF Spec, ImplementsCoreSystem, Core!Spec
=============================================================================
