------------------------- MODULE ControlSystemProofs -------------------------
(***************************************************************************)
(* Theorems about ControlSystem: every response of the control module      *)
(* tells the truth, for every set of requests a master may make, every     *)
(* interleaving of its channels, and every behaviour of the core's pins.   *)
(***************************************************************************)
EXTENDS ControlSystem, TLAPS

ReadStates  == {"READ_ISSUE", "READ_WAIT_DONE", "READ_RESP"}
WriteStates == {"WRITE_RECV_DATA", "WRITE_ISSUE", "WRITE_WAIT_DONE", "WRITE_RESP"}

\* The state machine serves the request that the master sees taken, and has
\* latched that request's address and datum.
RequestsAgree ==
  /\ (reading # {}) <=> (cm_state \in ReadStates)
  /\ (writing # {}) <=> (cm_state \in WriteStates)
  /\ cm_state = "WRITE_RECV_ADDR" => aw # {}
  /\ \A req \in reading : latched_address = Address(req) % USED_ADDR
  /\ \A x \in writing :
       /\ latched_address = Address(x.req) % USED_ADDR
       /\ x.w = IF cm_state = "WRITE_RECV_DATA" THEN {}
                ELSE {[data |-> latched_write_data, strobe |-> latched_write_strobe]}

\* Nothing of an earlier request is left when a request takes effect.
NothingLeftOver ==
  /\ cm_state \in {"READ_ISSUE", "WRITE_RECV_ADDR", "WRITE_RECV_DATA", "WRITE_ISSUE"} =>
       ~control_address_valid
  /\ writing = {} => monitor.pulses = <<>> /\ monitor.low = 0
  /\ cm_state \in {"WRITE_RECV_DATA", "WRITE_ISSUE"} =>
       monitor.pulses = <<>> /\ monitor.low = 0 /\ monitor.stall = pc_stall

\* A read between its two cycles: what it asks of a control register is known,
\* and was read from the pins meanwhile.
ReadIssued ==
  cm_state = "READ_WAIT_DONE" =>
    \A req \in reading :
      req.sel = SUB_SEL_CTRL /\ req.byte = 0 =>
        /\ control_address_valid <=> Readable(req)
        /\ Readable(req) =>
             \E core \in monitor.inputs : control_read_data = ValueIn(req, core)

\* The pulses a write makes, and whether it lowers or raises the stall.
PulsesOf(req, d) ==
  IF \/ ControlWritable(req) /\ req.reg = CTRL_REG_PC
     \/ Writable(req) /\ d.strobe = 0 .. 3 /\ req.sel # SUB_SEL_CTRL
  THEN <<<<req, d.data>>>> ELSE <<>>

To(req, offsets) == ControlWritable(req) /\ req.reg \in offsets

\* A write between its two cycles has had its effect, a step half of it.
WriteIssued ==
  cm_state = "WRITE_WAIT_DONE" =>
    \A x \in writing : \A d \in x.w :
      /\ x.req.sel = SUB_SEL_CTRL /\ x.req.byte = 0 =>
           (control_address_valid <=> ControlWritable(x.req))
      /\ monitor.pulses = PulsesOf(x.req, d)
      /\ pc_stall = (\/ To(x.req, {CTRL_REG_STOP})
                     \/ monitor.stall /\ ~To(x.req, {CTRL_REG_START, CTRL_REG_STEP}))
      /\ monitor.stall => monitor.low = 0

IInv ==
  /\ TypeOK /\ RequestsAgree /\ NothingLeftOver
  /\ ReadIssued /\ WriteIssued
  /\ ReadAnswered /\ WriteHasItsEffectOnce /\ StallFollowsCommands


-----------------------------------------------------------------------------
(***************************************************************************)
(* The decoding of addresses.                                              *)
(***************************************************************************)

\* A request has its fields, whatever its component.
LEMMA RequestFields ==
  ASSUME NEW req \in Request
  PROVE  /\ req.sel \in 0 .. 15 /\ req.byte \in 0 .. 3
         /\ req.reg \in 0 .. 4092 /\ req.mode \in 0 .. 15
         /\ req = [sel |-> req.sel, reg |-> req.reg, mode |-> req.mode, byte |-> req.byte]
         /\ req.sel = SUB_SEL_FAULT => req.reg \in 0 .. 63
         /\ req.sel # SUB_SEL_FAULT => req.mode = 0
         /\ req.sel = SUB_SEL_REGFILE => req.reg \in 0 .. 1023
         /\ req.sel \notin {SUB_SEL_FAULT, SUB_SEL_REGFILE} => req.reg % 4 = 0
  BY DEF Request, FaultRequest, RegfileRequest, OtherRequest, SUB_SEL_FAULT, SUB_SEL_REGFILE

\* What the address of a request says beside its component.
LEMMA SubAddressFields ==
  ASSUME NEW req \in Request
  PROVE  /\ SubAddress(req) \in 0 .. 4095
         /\ req.sel = SUB_SEL_FAULT => SubAddress(req) = 256 * req.mode + 4 * req.reg + req.byte
         /\ req.sel = SUB_SEL_REGFILE => SubAddress(req) = 4 * req.reg + req.byte
         /\ req.sel \notin {SUB_SEL_FAULT, SUB_SEL_REGFILE} => SubAddress(req) = req.reg + req.byte
         /\ SubAddress(req) % 4 = req.byte
  <1> DEFINE sel == req.sel
             reg == req.reg
             mode == req.mode
             byte == req.byte
  <1>1. /\ sel = SUB_SEL_FAULT => SubAddress(req) = 256 * mode + 4 * reg + byte
        /\ sel = SUB_SEL_REGFILE => SubAddress(req) = 4 * reg + byte
        /\ sel \notin {SUB_SEL_FAULT, SUB_SEL_REGFILE} => SubAddress(req) = reg + byte
    BY DEF SubAddress, SUB_SEL_FAULT, SUB_SEL_REGFILE
  <1>2. /\ reg \in 0 .. 4092 /\ mode \in 0 .. 15 /\ byte \in 0 .. 3
        /\ sel = SUB_SEL_FAULT => reg \in 0 .. 63
        /\ sel = SUB_SEL_REGFILE => reg \in 0 .. 1023
        /\ sel \notin {SUB_SEL_FAULT, SUB_SEL_REGFILE} => reg % 4 = 0
    BY RequestFields
  <1> HIDE DEF sel, reg, mode, byte
  <1>3. /\ SubAddress(req) \in 0 .. 4095
        /\ SubAddress(req) % 4 = byte
    <2>1. CASE sel = SUB_SEL_FAULT
      BY <1>1, <1>2, <2>1
    <2>2. CASE sel = SUB_SEL_REGFILE
      BY <1>1, <1>2, <2>2
    <2>3. CASE sel \notin {SUB_SEL_FAULT, SUB_SEL_REGFILE}
      BY <1>1, <1>2, <2>3
    <2> QED
      BY <2>1, <2>2, <2>3
  <1> QED
    BY <1>1, <1>3 DEF sel, reg, mode, byte

\* The control module takes an address apart into what it was made of.
LEMMA AddressFields ==
  ASSUME NEW req \in Request, latched_address = Address(req) % USED_ADDR
  PROVE  /\ sub_selector = req.sel
         /\ sub_addr = SubAddress(req) /\ SubAddress(req) \in 0 .. 4095
  <1>1. SubAddress(req) \in 0 .. 4095 /\ req.sel \in 0 .. 15
    BY SubAddressFields, RequestFields
  <1> DEFINE sel == req.sel
             sub == SubAddress(req)
  <1>2. HOST_BASE \in Nat /\ HOST_BASE % USED_ADDR = 0
    BY ControlSystemAssumption
  <1>3. latched_address = (HOST_BASE + 4096 * sel + sub) % USED_ADDR
    BY DEF Address
  <1> HIDE DEF sel, sub
  <1>4. sel \in 0 .. 15 /\ sub \in 0 .. 4095
    BY <1>1 DEF sel, sub
  <1>5. latched_address = 4096 * sel + sub
    BY <1>2, <1>3, <1>4 DEF USED_ADDR
  <1>6. sub_selector = sel /\ sub_addr = sub
    BY <1>4, <1>5 DEF sub_selector, sub_addr
  <1> QED
    BY <1>4, <1>6 DEF sel, sub

\* A request is aligned iff its byte offset is 0.
LEMMA Aligned ==
  ASSUME NEW req \in Request, latched_address = Address(req) % USED_ADDR
  PROVE  sub_addr_aligned <=> req.byte = 0
  <1>1. sub_addr = SubAddress(req)
    BY AddressFields
  <1> QED
    BY <1>1, SubAddressFields, RequestFields DEF sub_addr_aligned

Offsets == {CTRL_REG_STATUS, CTRL_REG_START, CTRL_REG_STOP, CTRL_REG_STEP, CTRL_REG_PC,
            CTRL_REG_DBG_VECTOR}

\* A request to the control registers names the offset it was made of.
LEMMA ControlFields ==
  ASSUME NEW req \in Request, latched_address = Address(req) % USED_ADDR
  PROVE  /\ control_selected <=> req.sel = SUB_SEL_CTRL
         /\ req.sel = SUB_SEL_CTRL =>
              /\ req.byte = 0 => sub_addr = req.reg
              /\ req.byte # 0 => sub_addr \notin Offsets
  <1>1. sub_selector = req.sel /\ sub_addr = SubAddress(req)
    BY AddressFields
  <1>2. control_selected <=> req.sel = SUB_SEL_CTRL
    BY <1>1 DEF control_selected
  <1> DEFINE reg == req.reg
             byte == req.byte
  <1>3. CASE req.sel = SUB_SEL_CTRL
    <2>1. sub_addr = reg + byte /\ reg \in 0 .. 4092 /\ byte \in 0 .. 3 /\ sub_addr % 4 = byte
      BY <1>1, <1>3, SubAddressFields, RequestFields DEF SUB_SEL_FAULT, SUB_SEL_REGFILE, SUB_SEL_CTRL
    <2> HIDE DEF reg, byte
    <2>2. byte = 0 => sub_addr = reg
      BY <2>1
    <2>3. byte # 0 => sub_addr % 4 # 0
      BY <2>1
    <2>4. \A o \in {0, 4, 8, 12, 16, 28} : o % 4 = 0
      OBVIOUS
    <2> QED
      BY <1>2, <1>3, <2>2, <2>3, <2>4
      DEF reg, byte, Offsets, CTRL_REG_STATUS, CTRL_REG_START, CTRL_REG_STOP, CTRL_REG_STEP,
          CTRL_REG_PC, CTRL_REG_DBG_VECTOR
  <1> QED
    BY <1>2, <1>3

\* A request to the register file is valid iff it names a register.
LEMMA RegfileFields ==
  ASSUME NEW req \in Request, latched_address = Address(req) % USED_ADDR
  PROVE  /\ regfile_selected <=> req.sel = SUB_SEL_REGFILE
         /\ req.sel = SUB_SEL_REGFILE =>
              /\ regfile_read_valid <=> req.byte = 0 /\ req.reg \in RegIdx
              /\ regfile_read_valid => regfile_sub_addr = req.reg
  <1>1. sub_selector = req.sel /\ sub_addr = SubAddress(req) /\ (sub_addr_aligned <=> req.byte = 0)
    BY AddressFields, Aligned
  <1>2. NUM_REGISTERS = 32
    BY ControlSystemAssumption
  <1>3. req.sel = SUB_SEL_REGFILE =>
          sub_addr = 4 * req.reg + req.byte /\ req.reg \in 0 .. 1023 /\ req.byte \in 0 .. 3
    BY <1>1, SubAddressFields, RequestFields
  <1>4. \A r \in 0 .. 1023, b \in 0 .. 3 :
          /\ (4 * r + b) \div 128 = 0 <=> r \in 0 .. 31
          /\ (4 * r + b) \div 4 = r
    OBVIOUS
  <1> QED
    BY <1>1, <1>2, <1>3, <1>4
    DEF regfile_selected, regfile_read_valid, regfile_sub_addr, RegIdx

\* A fault is valid iff it names a register other than x0 and one of the
\* modes.
LEMMA FaultFields ==
  ASSUME NEW req \in Request, latched_address = Address(req) % USED_ADDR
  PROVE  /\ fault_selected <=> req.sel = SUB_SEL_FAULT
         /\ req.sel = SUB_SEL_FAULT =>
              /\ sub_addr_aligned /\ fault_addr_valid /\ fault_reg_addr # 0 <=>
                   req.byte = 0 /\ req.reg \in RegIdx \ {0} /\ req.mode \in FaultMode
              /\ fault_addr_valid => fault_reg_addr = req.reg /\ fault_mode = req.mode
  <1>1. sub_selector = req.sel /\ sub_addr = SubAddress(req) /\ (sub_addr_aligned <=> req.byte = 0)
    BY AddressFields, Aligned
  <1>2. NUM_REGISTERS = 32
    BY ControlSystemAssumption
  <1>3. req.sel = SUB_SEL_FAULT =>
          /\ sub_addr = 256 * req.mode + 4 * req.reg + req.byte
          /\ req.mode \in 0 .. 15 /\ req.reg \in 0 .. 63 /\ req.byte \in 0 .. 3
    BY <1>1, SubAddressFields, RequestFields
  <1> DEFINE reg == req.reg
             mode == req.mode
             byte == req.byte
  <1>4. fault_selected <=> req.sel = SUB_SEL_FAULT
    BY <1>1 DEF fault_selected
  <1>5. CASE req.sel = SUB_SEL_FAULT
    <2>1. /\ sub_addr = 256 * mode + 4 * reg + byte
          /\ mode \in 0 .. 15 /\ reg \in 0 .. 63 /\ byte \in 0 .. 3
      BY <1>3, <1>5
    <2> HIDE DEF reg, mode, byte
    <2>2. /\ sub_addr \div 1024 = 0 <=> mode \in 0 .. 3
          /\ (sub_addr \div 128) % 2 = 0 <=> reg \in 0 .. 31
          /\ sub_addr \div 256 = mode
          /\ (sub_addr \div 4) % 32 = reg % 32
      BY <2>1
    <2>3. /\ fault_addr_valid <=> mode \in FaultMode /\ reg \in RegIdx
          /\ fault_addr_valid => fault_mode = mode
          /\ fault_reg_addr = reg % 32
      BY <1>2, <2>1, <2>2 DEF fault_addr_valid, fault_reg_addr, fault_mode, RegIdx, FaultMode
    <2>4. /\ sub_addr_aligned /\ fault_addr_valid /\ fault_reg_addr # 0 <=>
               byte = 0 /\ reg \in RegIdx \ {0} /\ mode \in FaultMode
          /\ fault_addr_valid => fault_reg_addr = reg
      BY <1>1, <1>2, <2>1, <2>3 DEF RegIdx, byte
    <2> QED
      BY <1>4, <2>3, <2>4 DEF reg, mode, byte
  <1> QED
    BY <1>4, <1>5

-----------------------------------------------------------------------------
(***************************************************************************)
(* Types.                                                                  *)
(***************************************************************************)

CoreType == [pc_read_data: Word, regfile_read_data: Word, core_debug_vector: Word]

\* What the control module sees of the master's channels.
LEMMA HostTypes ==
  ASSUME TypeOK, NEW rready \in BOOLEAN, NEW bready \in BOOLEAN,
         NEW host, host = HostInputs(rready, bready)
  PROVE  /\ host.rready = rready /\ host.bready = bready
         /\ host.arvalid = (ar # {}) /\ host.awvalid = (aw # {}) /\ host.wvalid = (w # {})
         /\ \A req \in ar : host.araddr = Address(req)
         /\ \A req \in aw : host.awaddr = Address(req)
         /\ \A d \in w : host.wdata = d.data /\ host.wstrb = d.strobe
         /\ host.araddr \in Nat /\ host.awaddr \in Nat
         /\ host.wdata \in Word /\ host.wstrb \in Strobe
  <1>1. \A S, x : S = {x} => The(S) = x
    BY DEF The
  <1>2. /\ ar = {} \/ \E r \in ReadRequests : ar = {r}
        /\ aw = {} \/ \E r \in WriteRequests : aw = {r}
        /\ w = {} \/ \E d \in WriteData : w = {d}
    BY DEF TypeOK
  <1>3. \A req \in Request : Address(req) \in Nat
    <2>1. ASSUME NEW req \in Request PROVE Address(req) \in Nat
      <3> DEFINE sel == req.sel
                 sub == SubAddress(req)
      <3>1. sel \in 0 .. 15 /\ sub \in 0 .. 4095
        BY SubAddressFields, RequestFields
      <3>2. Address(req) = HOST_BASE + 4096 * sel + sub
        BY DEF Address
      <3>3. HOST_BASE \in Nat
        BY ControlSystemAssumption
      <3> HIDE DEF sel, sub
      <3> QED
        BY <3>1, <3>2, <3>3
    <2> QED
      BY <2>1
  <1>4. /\ ar # {} => The(ar) \in ar /\ The(ar) \in Request
        /\ aw # {} => The(aw) \in aw /\ The(aw) \in Request
        /\ w # {} => The(w) \in w /\ The(w) \in WriteData
    BY <1>1, <1>2, ControlSystemAssumption
  <1>5. 0 \in Word /\ {} \in Strobe /\ \A d \in WriteData : d.data \in Word /\ d.strobe \in Strobe
    BY ControlSystemAssumption, SizesAssumption DEF Word, Strobe
  <1> QED
    BY <1>1, <1>2, <1>3, <1>4, <1>5 DEF HostInputs

\* The state machine keeps the types of its registers.
LEMMA SocTypes ==
  ASSUME SocTypeOK, NEW host, NEW core \in CoreType, SocTick(host, core),
         host.araddr \in Nat, host.awaddr \in Nat,
         host.wdata \in Word, host.wstrb \in Strobe
  PROVE  SocTypeOK'
  <1>0. \A a \in Nat : a % USED_ADDR \in 0 .. (USED_ADDR - 1)
    BY DEF USED_ADDR
  <1>1. /\ 0 \in Word /\ 1 \in Word
        /\ host.araddr % USED_ADDR \in 0 .. (USED_ADDR - 1)
        /\ host.awaddr % USED_ADDR \in 0 .. (USED_ADDR - 1)
        /\ core.pc_read_data \in Word /\ core.regfile_read_data \in Word
        /\ core.core_debug_vector \in Word
    BY <1>0, SizesAssumption DEF Word, CoreType
  <1>2. CASE IdleRead(host)
    BY <1>1, <1>2 DEF SocTypeOK, CmStates, IdleRead, KeepResult
  <1>3. CASE IdleWrite(host)
    BY <1>1, <1>3 DEF SocTypeOK, CmStates, IdleWrite, KeepResult, KeepLatches
  <1>4. CASE ReadIssue(core)
    <2>1. control_read_data' \in Word /\ control_address_valid' \in BOOLEAN
      BY <1>1, <1>4 DEF SocTypeOK, ReadIssue, ControlRead
    <2> QED
      BY <1>4, <2>1 DEF SocTypeOK, CmStates, ReadIssue, KeepResult, KeepLatches
  <1>5. CASE ReadWaitDone(core)
    BY <1>1, <1>5 DEF SocTypeOK, CmStates, ReadWaitDone, Collect, KeepControl, KeepLatches
  <1>6. CASE ReadResp(host)
    BY <1>6 DEF SocTypeOK, CmStates, ReadResp, KeepResult, KeepControl, KeepLatches
  <1>7. CASE WriteRecvAddr(host)
    BY <1>1, <1>7 DEF SocTypeOK, CmStates, WriteRecvAddr, KeepResult, KeepControl
  <1>8. CASE WriteRecvData(host)
    BY <1>8 DEF SocTypeOK, CmStates, WriteRecvData, KeepResult, KeepControl
  <1>9. CASE WriteIssue
    BY <1>9 DEF SocTypeOK, CmStates, WriteIssue, KeepResult, KeepLatches
  <1>10. CASE WriteWaitDone(core)
    BY <1>1, <1>10 DEF SocTypeOK, CmStates, WriteWaitDone, Collect, KeepLatches
  <1>11. CASE WriteResp(host)
    BY <1>11 DEF SocTypeOK, CmStates, WriteResp, KeepResult, KeepControl, KeepLatches
  <1> QED
    BY <1>2, <1>3, <1>4, <1>5, <1>6, <1>7, <1>8, <1>9, <1>10, <1>11 DEF SocTick

\* A pulse to the core is a request with a datum, or none.
LEMMA PulseType ==
  ASSUME SocTypeOK
  PROVE  Pulse \in Seq(Request \X Word)
  <1>1. NUM_REGISTERS = 32 /\ latched_write_data \in Word
    BY ControlSystemAssumption DEF SocTypeOK
  <1>2. /\ CorePins.pc_write_data \in Word
        /\ CorePins.regfile_write_data \in Word
        /\ CorePins.fault_mask \in Word
    BY <1>1, SizesAssumption DEF CorePins, Word
  <1>3. sub_addr \in 0 .. 4095
    BY DEF SocTypeOK, sub_addr
  <1>4. /\ regfile_addr \in 0 .. 31
        /\ CorePins.fault_addr \in 0 .. 31 /\ CorePins.fault_mode \in 0 .. 3
    <2>1. regfile_sub_addr \in 0 .. 31 /\ fault_reg_addr \in 0 .. 31 /\ fault_mode \in 0 .. 3
      BY <1>1, <1>3 DEF regfile_sub_addr, fault_reg_addr, fault_mode
    <2> QED
      BY <2>1 DEF regfile_addr, CorePins
  <1>5. /\ [sel |-> SUB_SEL_CTRL, reg |-> CTRL_REG_PC, mode |-> 0, byte |-> 0] \in Request
        /\ [sel |-> SUB_SEL_REGFILE, reg |-> regfile_addr, mode |-> 0, byte |-> 0] \in Request
        /\ [sel |-> SUB_SEL_FAULT, reg |-> CorePins.fault_addr, mode |-> CorePins.fault_mode,
            byte |-> 0] \in Request
    <2>1. CTRL_REG_PC \in {4 * i : i \in 0 .. 1023}
      <3>1. 4 \in 0 .. 1023 /\ CTRL_REG_PC = 4 * 4
        BY DEF CTRL_REG_PC
      <3> QED
        BY <3>1
    <2> QED
      BY <1>4, <2>1 DEF Request, FaultRequest, RegfileRequest, OtherRequest,
                        SUB_SEL_CTRL, SUB_SEL_FAULT, SUB_SEL_REGFILE
  <1>6. \A r \in Request, d \in Word : <<<<r, d>>>> \in Seq(Request \X Word)
    OBVIOUS
  <1>7. <<>> \in Seq(Request \X Word)
    OBVIOUS
  <1> QED
    BY <1>2, <1>5, <1>6, <1>7, Zenon DEF Pulse

\* A clock edge keeps all types.
LEMMA TypeTick ==
  ASSUME TypeOK, NEW rready \in BOOLEAN, NEW bready \in BOOLEAN, NEW core \in CoreInputs,
         SocTick(HostInputs(rready, bready), core), Master(rready, bready), Monitor(core)
  PROVE  TypeOK'
  <1>1. SocTypeOK'
    <2>1. core \in CoreType
      BY ControlSystemAssumption DEF CoreType
    <2>2. SocTypeOK
      BY DEF TypeOK
    <2> QED
      BY <2>1, <2>2, HostTypes, SocTypes
  <1>2. /\ ar' \in {{}} \cup {{r} : r \in ReadRequests}
        /\ aw' \in {{}} \cup {{r} : r \in WriteRequests}
        /\ w' \in {{}} \cup {{d} : d \in WriteData}
    <2>1. \A S, channel, taken, c :
            channel \in {{}} \cup {{r} : r \in S} /\ c \in Offer(channel, taken, S) =>
              c \in {{}} \cup {{r} : r \in S}
      BY DEF Offer
    <2>2. /\ ar \in {{}} \cup {{r} : r \in ReadRequests}
          /\ aw \in {{}} \cup {{r} : r \in WriteRequests}
          /\ w \in {{}} \cup {{d} : d \in WriteData}
      BY DEF TypeOK
    <2>3. /\ ar' \in Offer(ar, S_AXI_ARREADY, ReadRequests)
          /\ aw' \in Offer(aw, S_AXI_AWREADY, WriteRequests)
          /\ w' \in Offer(w, S_AXI_WREADY, WriteData)
      BY DEF Master
    <2> QED
      BY <2>1, <2>2, <2>3, Zenon
  <1>3. reading' \in {{}} \cup {{r} : r \in ReadRequests}
    BY DEF TypeOK, Master
  <1>4. writing' \in {{}} \cup {{x} : x \in [req: WriteRequests, w: SUBSET WriteData]}
    <2> DEFINE Write == [req: WriteRequests, w: SUBSET WriteData]
    <2>1. /\ writing = {} \/ \E x \in Write : writing = {x}
          /\ aw = {} \/ \E r \in WriteRequests : aw = {r}
          /\ w \in SUBSET WriteData
      BY DEF TypeOK
    <2>2. writing' = {} \/ \E x \in Write : writing' = {x}
      <3>1. CASE S_AXI_AWREADY
        <4>1. writing' = {[req |-> r, w |-> {}] : r \in aw}
          BY <3>1 DEF Master
        <4> QED
          BY <2>1, <4>1
      <3>2. CASE ~S_AXI_AWREADY /\ S_AXI_WREADY /\ w # {}
        <4>1. writing' = {[x EXCEPT !.w = w] : x \in writing}
          BY <3>2 DEF Master
        <4> QED
          BY <2>1, <4>1
      <3>3. CASE ~S_AXI_AWREADY /\ ~(S_AXI_WREADY /\ w # {})
        BY <2>1, <3>3 DEF Master
      <3> QED
        BY <3>1, <3>2, <3>3
    <2> QED
      BY <2>2
  <1>5. monitor' \in [inputs: SUBSET CoreInputs, pulses: Seq(Request \X Word),
                      stall: BOOLEAN, low: Nat]
    <2>1. Pulse \in Seq(Request \X Word)
      BY PulseType DEF TypeOK
    <2>2. monitor \in [inputs: SUBSET CoreInputs, pulses: Seq(Request \X Word),
                       stall: BOOLEAN, low: Nat] /\ pc_stall \in BOOLEAN
      BY DEF TypeOK, SocTypeOK
    <2>3. monitor.pulses \o Pulse \in Seq(Request \X Word) /\ <<>> \in Seq(Request \X Word)
      BY <2>1, <2>2
    <2> QED
      BY <2>2, <2>3 DEF Monitor
  <1> QED
    BY <1>1, <1>2, <1>3, <1>4, <1>5 DEF TypeOK

\* The state after a reset has the types.
LEMMA TypeInit == Init => TypeOK
  <1> SUFFICES ASSUME Init PROVE TypeOK
    OBVIOUS
  <1>1. 0 \in Word /\ {} \in Strobe /\ 0 \in 0 .. (USED_ADDR - 1)
    BY SizesAssumption DEF Word, Strobe, USED_ADDR
  <1>2. SocTypeOK
    BY <1>1 DEF Init, SocInit, SocTypeOK, CmStates
  <1>3. NoMonitor \in [inputs: SUBSET CoreInputs, pulses: Seq(Request \X Word),
                       stall: BOOLEAN, low: Nat]
    BY DEF NoMonitor
  <1> QED
    BY <1>2, <1>3 DEF Init, TypeOK

\* A reset leaves every register and channel with its type.
LEMMA TypeReset == Reset => TypeOK'
  <1> SUFFICES ASSUME Reset PROVE TypeOK'
    OBVIOUS
  <1>1. 0 \in Word /\ {} \in Strobe /\ 0 \in 0 .. (USED_ADDR - 1)
    BY SizesAssumption DEF Word, Strobe, USED_ADDR
  <1>2. SocTypeOK'
    BY <1>1 DEF Reset, SocReset, SocTypeOK, CmStates
  <1>3. NoMonitor \in [inputs: SUBSET CoreInputs, pulses: Seq(Request \X Word),
                       stall: BOOLEAN, low: Nat]
    BY DEF NoMonitor
  <1>4. /\ ar' = {} /\ aw' = {} /\ w' = {} /\ reading' = {} /\ writing' = {}
        /\ monitor' = NoMonitor
    BY DEF Reset
  <1> QED
    BY <1>2, <1>3, <1>4 DEF TypeOK

-----------------------------------------------------------------------------
(***************************************************************************)
(* One lemma per action of the state machine.                              *)
(***************************************************************************)

\* What the master holds, spelled out: each is nothing or one request.
LEMMA OneEach ==
  ASSUME TypeOK
  PROVE  /\ cm_state \in CmStates /\ pc_stall \in BOOLEAN
         /\ \A req \in ar : ar = {req} /\ req \in Request
         /\ \A req \in aw : aw = {req} /\ req \in Request
         /\ \A req \in reading : reading = {req} /\ req \in Request
         /\ \A x \in writing : writing = {x} /\ x.req \in Request /\ x = [req |-> x.req, w |-> x.w]
         /\ monitor.pulses \in Seq(Request \X Word) /\ monitor.low \in Nat
         /\ monitor.stall \in BOOLEAN
  BY ControlSystemAssumption DEF TypeOK, SocTypeOK

\* No pulse outside the issue state.
LEMMA NoPulse ==
  ASSUME cm_state # "WRITE_ISSUE"
  PROVE  Pulse = <<>>
  BY DEF Pulse, pc_write_enable, regfile_write_enable, regfile_fault_enable, ControlWrite

\* A read is taken: its address is latched and no flag of an earlier one is left.
LEMMA StepIdleRead ==
  ASSUME IInv, TypeOK', NEW rready \in BOOLEAN, NEW bready \in BOOLEAN, NEW core \in CoreInputs,
         IdleRead(HostInputs(rready, bready)), Master(rready, bready), Monitor(core)
  PROVE  IInv'
  <1> DEFINE host == HostInputs(rready, bready)
  <1>1. host.arvalid = (ar # {}) /\ \A req \in ar : host.araddr = Address(req)
    BY HostTypes DEF IInv
  <1> HIDE DEF host
  <1>2. /\ cm_state = "IDLE" /\ cm_state' = "READ_ISSUE" /\ ar # {}
        /\ latched_address' = host.araddr % USED_ADDR /\ control_address_valid' = FALSE
    BY <1>1 DEF IdleRead, host
  <1>3. reading' = ar /\ writing = {} /\ writing' = {}
    BY <1>2 DEF IInv, RequestsAgree, ReadStates, WriteStates, Master, S_AXI_ARREADY,
                S_AXI_AWREADY, S_AXI_WREADY, S_AXI_BVALID
  <1>4. RequestsAgree'
    BY <1>1, <1>2, <1>3 DEF RequestsAgree, ReadStates, WriteStates
  <1>5. NothingLeftOver'
    BY <1>2, <1>3 DEF NothingLeftOver, Monitor
  <1> QED
    BY <1>2, <1>4, <1>5 DEF IInv, ReadIssued, WriteIssued, ReadAnswered, WriteHasItsEffectOnce,
                      StallFollowsCommands, S_AXI_RVALID, S_AXI_BVALID

\* A write is seen, and taken in the next cycle.
LEMMA StepIdleWrite ==
  ASSUME IInv, TypeOK', NEW rready \in BOOLEAN, NEW bready \in BOOLEAN, NEW core \in CoreInputs,
         IdleWrite(HostInputs(rready, bready)), Master(rready, bready), Monitor(core)
  PROVE  IInv'
  <1> DEFINE host == HostInputs(rready, bready)
  <1>1. host.arvalid = (ar # {}) /\ host.awvalid = (aw # {})
    BY HostTypes DEF IInv
  <1> HIDE DEF host
  <1>2. /\ cm_state = "IDLE" /\ ar = {} /\ control_address_valid' = FALSE
        /\ cm_state' = IF aw # {} THEN "WRITE_RECV_ADDR" ELSE "IDLE"
    BY <1>1 DEF IdleWrite, host
  <1>3. reading' = {} /\ writing = {} /\ writing' = {} /\ (aw # {} => aw' = aw)
    BY <1>2 DEF IInv, RequestsAgree, ReadStates, WriteStates, Master, Offer, S_AXI_ARREADY,
                S_AXI_AWREADY, S_AXI_WREADY, S_AXI_BVALID
  <1>4. RequestsAgree'
    BY <1>2, <1>3 DEF RequestsAgree, ReadStates, WriteStates
  <1>5. NothingLeftOver'
    BY <1>2, <1>3 DEF NothingLeftOver, Monitor
  <1> QED
    BY <1>2, <1>4, <1>5 DEF IInv, ReadIssued, WriteIssued, ReadAnswered, WriteHasItsEffectOnce,
                      StallFollowsCommands, S_AXI_RVALID, S_AXI_BVALID

\* The read looks at the pins: a control register's value is one of this cycle.
LEMMA StepReadIssue ==
  ASSUME IInv, TypeOK', NEW rready \in BOOLEAN, NEW bready \in BOOLEAN, NEW core \in CoreInputs,
         ReadIssue(core), Master(rready, bready), Monitor(core)
  PROVE  IInv'
  <1>1. /\ cm_state = "READ_ISSUE" /\ cm_state' = "READ_WAIT_DONE"
        /\ UNCHANGED <<pc_stall, latched_address>> /\ ~control_address_valid
    BY DEF ReadIssue, KeepLatches, IInv, NothingLeftOver
  <1>2. reading' = reading /\ reading # {} /\ writing = {} /\ writing' = {}
    BY <1>1 DEF IInv, RequestsAgree, ReadStates, WriteStates, Master, S_AXI_ARREADY,
                S_AXI_AWREADY, S_AXI_WREADY, S_AXI_BVALID, S_AXI_RVALID
  <1>3. RequestsAgree'
    BY <1>1, <1>2 DEF IInv, RequestsAgree, ReadStates, WriteStates
  <1>4. NothingLeftOver'
    BY <1>1, <1>2 DEF NothingLeftOver, Monitor
  <1>5. core \in monitor'.inputs
    BY <1>2 DEF Monitor
  <1>6. ASSUME NEW req \in reading, req.sel = SUB_SEL_CTRL, req.byte = 0
        PROVE  /\ control_address_valid' <=> Readable(req)
               /\ Readable(req) => control_read_data' = ValueIn(req, core)'
    <2>1. req \in Request /\ latched_address = Address(req) % USED_ADDR
      BY OneEach DEF IInv, RequestsAgree
    <2>2. /\ control_selected
          /\ sub_addr = req.reg
      BY <1>6, <2>1, ControlFields
    <2>3. ControlRead(core)
      BY <2>2 DEF ReadIssue
    <2>4. control_address_valid' <=> Readable(req)
      BY <1>1, <1>6, <2>2, <2>3 DEF ControlRead, Readable, START_OR_STOP_OR_STEP, CTRL_REG_STEP,
         SUB_SEL_CTRL, SUB_SEL_REGFILE
    <2>5. ASSUME Readable(req) PROVE control_read_data' = ValueIn(req, core)'
      <3>1. req.reg \in {CTRL_REG_STATUS, CTRL_REG_STEP, CTRL_REG_PC, CTRL_REG_DBG_VECTOR}
        BY <1>6, <2>5 DEF Readable, SUB_SEL_CTRL, SUB_SEL_REGFILE
      <3> QED
        BY <1>1, <1>6, <2>2, <2>3, <3>1
        DEF ControlRead, ValueIn, CTRL_REG_STATUS, CTRL_REG_STEP, CTRL_REG_PC, CTRL_REG_DBG_VECTOR,
            SUB_SEL_CTRL, SUB_SEL_REGFILE
    <2> QED
      BY <2>4, <2>5
  <1>7. ReadIssued'
    BY <1>2, <1>5, <1>6 DEF ReadIssued
  <1> QED
    BY <1>1, <1>3, <1>4, <1>7 DEF IInv, WriteIssued, ReadAnswered, WriteHasItsEffectOnce,
                      StallFollowsCommands, S_AXI_RVALID, S_AXI_BVALID

\* The read collects its result.
LEMMA StepReadWaitDone ==
  ASSUME IInv, TypeOK', NEW rready \in BOOLEAN, NEW bready \in BOOLEAN, NEW core \in CoreInputs,
         ReadWaitDone(core), Master(rready, bready), Monitor(core)
  PROVE  IInv'
  <1>1. /\ cm_state = "READ_WAIT_DONE" /\ cm_state' = "READ_RESP"
        /\ UNCHANGED <<pc_stall, latched_address>>
        /\ Collect(core, control_read_valid, regfile_read_valid, FALSE)
    BY DEF ReadWaitDone, KeepLatches, KeepControl
  <1>2. reading' = reading /\ reading # {} /\ writing = {} /\ writing' = {}
    BY <1>1 DEF IInv, RequestsAgree, ReadStates, WriteStates, Master, S_AXI_ARREADY,
                S_AXI_AWREADY, S_AXI_WREADY, S_AXI_BVALID, S_AXI_RVALID
  <1>3. RequestsAgree'
    BY <1>1, <1>2 DEF IInv, RequestsAgree, ReadStates, WriteStates
  <1>4. NothingLeftOver'
    BY <1>1, <1>2 DEF NothingLeftOver, Monitor
  <1>5. core \in monitor'.inputs /\ monitor.inputs \subseteq monitor'.inputs
    BY <1>2 DEF Monitor
  <1>6. ASSUME NEW req \in reading
        PROVE  /\ op_successful' <=> Readable(req)
               /\ Readable(req) => \E c \in monitor'.inputs : read_data' = ValueIn(req, c)'
    <2>1. req \in Request /\ latched_address = Address(req) % USED_ADDR
      BY OneEach DEF IInv, RequestsAgree
    <2>2. /\ control_selected <=> req.sel = SUB_SEL_CTRL
          /\ regfile_selected <=> req.sel = SUB_SEL_REGFILE
          /\ sub_addr_aligned <=> req.byte = 0
          /\ req.sel = SUB_SEL_REGFILE => (regfile_read_valid <=> req.byte = 0 /\ req.reg \in RegIdx)
      BY <2>1, ControlFields, RegfileFields, Aligned
    <2>3. CASE req.sel = SUB_SEL_CTRL
      <3>1. req.byte = 0 =>
              /\ control_address_valid <=> Readable(req)
              /\ Readable(req) => \E c \in monitor.inputs : control_read_data = ValueIn(req, c)
        BY <1>1, <2>3 DEF IInv, ReadIssued
      <3>2. op_successful' <=> Readable(req)
        BY <1>1, <2>2, <2>3, <3>1 DEF Collect, control_read_valid, Readable, SUB_SEL_CTRL, SUB_SEL_REGFILE
      <3>3. ASSUME Readable(req)
            PROVE  \E c \in monitor'.inputs : read_data' = ValueIn(req, c)'
        <4>1. PICK c \in monitor.inputs : control_read_data = ValueIn(req, c)
          BY <3>1, <3>3 DEF Readable
        <4>2. read_data' = control_read_data
          BY <1>1, <2>2, <2>3 DEF Collect
        <4>3. ValueIn(req, c)' = ValueIn(req, c)
          BY <1>1 DEF ValueIn
        <4> QED
          BY <1>5, <4>1, <4>2, <4>3
      <3> QED
        BY <3>2, <3>3
    <2>4. CASE req.sel = SUB_SEL_REGFILE
      <3>1. op_successful' <=> Readable(req)
        BY <1>1, <2>2, <2>4 DEF Collect, Readable, SUB_SEL_CTRL, SUB_SEL_REGFILE
      <3>2. read_data' = ValueIn(req, core)'
        BY <1>1, <2>2, <2>4 DEF Collect, ValueIn, SUB_SEL_CTRL, SUB_SEL_REGFILE
      <3> QED
        BY <1>5, <3>1, <3>2
    <2>5. CASE req.sel \notin {SUB_SEL_CTRL, SUB_SEL_REGFILE}
      BY <1>1, <2>2, <2>5 DEF Collect, Readable
    <2> QED
      BY <2>3, <2>4, <2>5
  <1>7. ReadAnswered'
    BY <1>1, <1>2, <1>6 DEF ReadAnswered, S_AXI_RVALID, S_AXI_RDATA, RESP
  <1> QED
    BY <1>1, <1>3, <1>4, <1>7 DEF IInv, WriteIssued, ReadIssued, WriteHasItsEffectOnce,
                      StallFollowsCommands, S_AXI_BVALID

\* The answer to a read stays what it is until the master takes it.
LEMMA StepReadResp ==
  ASSUME IInv, TypeOK', NEW rready \in BOOLEAN, NEW bready \in BOOLEAN, NEW core \in CoreInputs,
         ReadResp(HostInputs(rready, bready)), Master(rready, bready), Monitor(core)
  PROVE  IInv'
  <1>1. /\ cm_state = "READ_RESP" /\ cm_state' = IF rready THEN "IDLE" ELSE "READ_RESP"
        /\ UNCHANGED <<pc_stall, latched_address, op_successful, read_data>>
    BY HostTypes DEF ReadResp, KeepLatches, KeepControl, KeepResult, IInv
  <1>2. /\ reading' = IF rready THEN {} ELSE reading
        /\ reading # {} /\ writing = {} /\ writing' = {}
    BY <1>1 DEF IInv, RequestsAgree, ReadStates, WriteStates, Master, S_AXI_ARREADY,
                S_AXI_AWREADY, S_AXI_WREADY, S_AXI_BVALID, S_AXI_RVALID
  <1>3. RequestsAgree'
    BY <1>1, <1>2 DEF IInv, RequestsAgree, ReadStates, WriteStates
  <1>4. NothingLeftOver'
    BY <1>1, <1>2 DEF NothingLeftOver, Monitor
  <1>5. ReadAnswered'
    <2>1. CASE rready
      BY <1>1, <2>1 DEF ReadAnswered, S_AXI_RVALID
    <2>2. CASE ~rready
      <3>1. monitor.inputs \subseteq monitor'.inputs
        BY <1>2, <2>2 DEF Monitor
      <3>2. \A req, c : ValueIn(req, c)' = ValueIn(req, c)
        BY <1>1 DEF ValueIn
      <3> QED
        BY <1>1, <1>2, <2>2, <3>1, <3>2
        DEF IInv, ReadAnswered, S_AXI_RVALID, S_AXI_RDATA, RESP
    <2> QED
      BY <2>1, <2>2
  <1> QED
    BY <1>1, <1>3, <1>4, <1>5 DEF IInv, WriteIssued, ReadIssued, WriteHasItsEffectOnce,
                      StallFollowsCommands, S_AXI_BVALID

\* A write's address is taken; the monitors start from nothing.
LEMMA StepWriteRecvAddr ==
  ASSUME IInv, TypeOK', NEW rready \in BOOLEAN, NEW bready \in BOOLEAN, NEW core \in CoreInputs,
         WriteRecvAddr(HostInputs(rready, bready)), Master(rready, bready), Monitor(core)
  PROVE  IInv'
  <1> DEFINE host == HostInputs(rready, bready)
  <1>1. host.awvalid = (aw # {}) /\ \A req \in aw : host.awaddr = Address(req)
    BY HostTypes DEF IInv
  <1> HIDE DEF host
  <1>2. /\ cm_state = "WRITE_RECV_ADDR" /\ cm_state' = "WRITE_RECV_DATA" /\ aw # {}
        /\ latched_address' = host.awaddr % USED_ADDR
        /\ UNCHANGED <<pc_stall, control_address_valid>> /\ ~control_address_valid
    BY <1>1 DEF WriteRecvAddr, KeepControl, IInv, RequestsAgree, NothingLeftOver, host
  <1>3. /\ reading' = {} /\ reading = {} /\ writing = {}
        /\ writing' = {[req |-> r, w |-> {}] : r \in aw}
    BY <1>2 DEF IInv, RequestsAgree, ReadStates, WriteStates, Master, S_AXI_ARREADY,
                S_AXI_AWREADY, S_AXI_RVALID
  <1>4. RequestsAgree'
    <2>1. PICK r \in aw : aw = {r}
      BY <1>2, OneEach DEF IInv
    <2>2. writing' = {[req |-> r, w |-> {}]}
      BY <1>3, <2>1
    <2>3. writing' # {} /\ \A x \in writing' : x.req = r /\ x.w = {}
      BY <2>2
    <2>4. latched_address' = Address(r) % USED_ADDR
      BY <1>1, <1>2
    <2> QED
      BY <1>2, <1>3, <2>3, <2>4 DEF RequestsAgree, ReadStates, WriteStates
  <1>5. NothingLeftOver'
    <2>1. Pulse = <<>>
      BY <1>2, NoPulse
    <2>2. monitor.pulses = <<>> /\ monitor.low = 0
      BY <1>3 DEF IInv, NothingLeftOver
    <2> QED
      BY <1>2, <1>3, <2>1, <2>2 DEF NothingLeftOver, Monitor
  <1> QED
    BY <1>2, <1>4, <1>5 DEF IInv, ReadIssued, WriteIssued, ReadAnswered, WriteHasItsEffectOnce,
                      StallFollowsCommands, S_AXI_RVALID, S_AXI_BVALID

\* A write's datum is taken once it is there.
LEMMA StepWriteRecvData ==
  ASSUME IInv, TypeOK', NEW rready \in BOOLEAN, NEW bready \in BOOLEAN, NEW core \in CoreInputs,
         WriteRecvData(HostInputs(rready, bready)), Master(rready, bready), Monitor(core)
  PROVE  IInv'
  <1> DEFINE host == HostInputs(rready, bready)
  <1>1. /\ host.wvalid = (w # {}) /\ \A d \in w : host.wdata = d.data /\ host.wstrb = d.strobe
        /\ w # {} => \E d \in WriteData : w = {d}
    BY HostTypes DEF IInv, TypeOK
  <1> HIDE DEF host
  <1>2. /\ cm_state = "WRITE_RECV_DATA"
        /\ cm_state' = IF w # {} THEN "WRITE_ISSUE" ELSE "WRITE_RECV_DATA"
        /\ w # {} => latched_write_data' = host.wdata /\ latched_write_strobe' = host.wstrb
        /\ UNCHANGED <<pc_stall, control_address_valid, latched_address>> /\ ~control_address_valid
    BY <1>1 DEF WriteRecvData, KeepControl, IInv, NothingLeftOver, host
  <1>3. /\ reading' = {} /\ reading = {} /\ writing # {}
        /\ writing' = IF w # {} THEN {[x EXCEPT !.w = w] : x \in writing} ELSE writing
    BY <1>2 DEF IInv, RequestsAgree, ReadStates, WriteStates, Master, S_AXI_ARREADY,
                S_AXI_AWREADY, S_AXI_WREADY, S_AXI_BVALID, S_AXI_RVALID
  <1>4. PICK x : writing = {x} /\ x = [req |-> x.req, w |-> x.w]
    BY <1>3, OneEach DEF IInv
  <1>5. RequestsAgree'
    <2>1. CASE w = {}
      BY <1>2, <1>3, <2>1 DEF IInv, RequestsAgree, ReadStates, WriteStates
    <2>2. CASE w # {}
      <3>1. PICK d \in WriteData : w = {d}
        BY <1>1, <2>2
      <3>2. d = [data |-> d.data, strobe |-> d.strobe]
        BY ControlSystemAssumption
      <3>3. writing' = {[req |-> x.req, w |-> w]}
        BY <1>3, <1>4, <2>2
      <3>4. w = {[data |-> latched_write_data', strobe |-> latched_write_strobe']}
        BY <1>1, <1>2, <2>2, <3>1, <3>2
      <3>5. latched_address = Address(x.req) % USED_ADDR
        BY <1>4 DEF IInv, RequestsAgree
      <3>6. writing' # {} /\ \A y \in writing' : y.req = x.req /\ y.w = w
        BY <3>3
      <3> QED
        BY <1>2, <1>3, <2>2, <3>4, <3>5, <3>6
        DEF RequestsAgree, ReadStates, WriteStates
    <2> QED
      BY <2>1, <2>2
  <1>6. NothingLeftOver'
    <2>1. Pulse = <<>>
      BY <1>2, NoPulse
    <2>2. monitor.pulses = <<>> /\ monitor.low = 0 /\ monitor.stall = pc_stall
      BY <1>2 DEF IInv, NothingLeftOver
    <2>3. writing' # {}
      BY <1>3, <1>4
    <2> QED
      BY <1>2, <1>3, <2>1, <2>2, <2>3 DEF NothingLeftOver, Monitor
  <1> QED
    BY <1>2, <1>5, <1>6 DEF IInv, ReadIssued, WriteIssued, ReadAnswered, WriteHasItsEffectOnce,
                      StallFollowsCommands, S_AXI_RVALID, S_AXI_BVALID

\* The write takes effect: the pulse is the request's, and so is the stall.
LEMMA StepWriteIssue ==
  ASSUME IInv, TypeOK', NEW rready \in BOOLEAN, NEW bready \in BOOLEAN, NEW core \in CoreInputs,
         WriteIssue, Master(rready, bready), Monitor(core)
  PROVE  IInv'
  <1>1. /\ cm_state = "WRITE_ISSUE" /\ cm_state' = "WRITE_WAIT_DONE" /\ ~control_address_valid
        /\ UNCHANGED <<latched_address, latched_write_data, latched_write_strobe>>
        /\ monitor.pulses = <<>> /\ monitor.low = 0 /\ monitor.stall = pc_stall
    BY DEF WriteIssue, KeepLatches, IInv, NothingLeftOver
  <1>2. /\ reading' = {} /\ reading = {} /\ writing # {} /\ writing' = writing
    BY <1>1 DEF IInv, RequestsAgree, ReadStates, WriteStates, Master, S_AXI_ARREADY,
                S_AXI_AWREADY, S_AXI_WREADY, S_AXI_BVALID, S_AXI_RVALID
  <1>3. RequestsAgree'
    BY <1>1, <1>2 DEF IInv, RequestsAgree, ReadStates, WriteStates
  <1>4. NothingLeftOver'
    BY <1>1, <1>2 DEF NothingLeftOver
  <1>5. monitor'.pulses = Pulse /\ monitor'.stall = pc_stall
        /\ monitor'.low = IF pc_stall THEN 0 ELSE 1
    <2>1. Pulse \in Seq(Request \X Word)
      BY PulseType DEF IInv, TypeOK
    <2>2. <<>> \o Pulse = Pulse
      BY <2>1
    <2> QED
      BY <1>1, <1>2, <2>2, OneEach DEF Monitor, IInv
  <1>6. ASSUME NEW x \in writing, NEW d \in x.w
        PROVE  /\ x.req.sel = SUB_SEL_CTRL /\ x.req.byte = 0 =>
                    (control_address_valid' <=> ControlWritable(x.req))
               /\ Pulse = PulsesOf(x.req, d)
               /\ pc_stall' = (\/ To(x.req, {CTRL_REG_STOP})
                               \/ pc_stall /\ ~To(x.req, {CTRL_REG_START, CTRL_REG_STEP}))
    <2> DEFINE req == x.req
    <2>1. /\ req \in Request /\ latched_address = Address(req) % USED_ADDR
          /\ d = [data |-> latched_write_data, strobe |-> latched_write_strobe]
      BY <1>1, OneEach DEF IInv, RequestsAgree
    <2> HIDE DEF req
    <2>2. /\ control_selected <=> req.sel = SUB_SEL_CTRL
          /\ regfile_selected <=> req.sel = SUB_SEL_REGFILE
          /\ fault_selected <=> req.sel = SUB_SEL_FAULT
      BY <2>1, ControlFields, RegfileFields, FaultFields
    <2>3. \A offsets \in SUBSET {CTRL_REG_START, CTRL_REG_STOP, CTRL_REG_STEP, CTRL_REG_PC} :
            ControlWrite(offsets) <=> To(req, offsets)
      BY <1>1, <2>1, <2>2, ControlFields DEF ControlWrite, To, ControlWritable, Offsets
    <2>4. /\ pc_write_enable <=> ControlWritable(req) /\ req.reg = CTRL_REG_PC
          /\ control_address_valid' <=> ControlWritable(req)
      BY <1>1, <2>3 DEF pc_write_enable, WriteIssue, To, ControlWritable
    <2>5. pc_stall' = (\/ To(req, {CTRL_REG_STOP})
                       \/ pc_stall /\ ~To(req, {CTRL_REG_START, CTRL_REG_STEP}))
      <3>1. /\ ControlWrite({CTRL_REG_START, CTRL_REG_STEP}) <=> To(req, {CTRL_REG_START, CTRL_REG_STEP})
            /\ ControlWrite({CTRL_REG_STOP}) <=> To(req, {CTRL_REG_STOP})
        BY <2>3
      <3>2. ~(To(req, {CTRL_REG_START, CTRL_REG_STEP}) /\ To(req, {CTRL_REG_STOP}))
        BY DEF To, CTRL_REG_START, CTRL_REG_STEP, CTRL_REG_STOP
      <3> QED
        BY <3>1, <3>2, OneEach DEF WriteIssue, IInv
    <2>6. /\ regfile_write_enable <=>
               req.sel = SUB_SEL_REGFILE /\ Writable(req) /\ d.strobe = 0 .. 3
          /\ regfile_write_enable => regfile_addr = req.reg
      <3>1. req.sel = SUB_SEL_REGFILE =>
              /\ regfile_read_valid <=> req.byte = 0 /\ req.reg \in RegIdx
              /\ regfile_read_valid => regfile_sub_addr = req.reg
              /\ req.mode = 0
        BY <2>1, RegfileFields, RequestFields DEF SUB_SEL_REGFILE, SUB_SEL_FAULT
      <3>2. req.sel = SUB_SEL_REGFILE =>
              (Writable(req) <=> regfile_read_valid /\ regfile_sub_addr # 0)
        BY <3>1, SizesAssumption
        DEF Writable, ControlWritable, RegIdx, FaultMode, SUB_SEL_CTRL, SUB_SEL_REGFILE, SUB_SEL_FAULT
      <3>3. regfile_write_enable <=>
              regfile_selected /\ regfile_read_valid /\ d.strobe = 0 .. 3 /\ regfile_sub_addr # 0
        BY <1>1, <2>1 DEF regfile_write_enable, regfile_write_valid, regfile_read_valid, write_strobe_full
      <3> QED
        BY <2>2, <3>1, <3>2, <3>3 DEF regfile_addr
    <2>7. /\ regfile_fault_enable <=>
               req.sel = SUB_SEL_FAULT /\ Writable(req) /\ d.strobe = 0 .. 3
          /\ regfile_fault_enable =>
               CorePins.fault_addr = req.reg /\ CorePins.fault_mode = req.mode
      <3>1. req.sel = SUB_SEL_FAULT =>
              /\ sub_addr_aligned /\ fault_addr_valid /\ fault_reg_addr # 0 <=>
                   req.byte = 0 /\ req.reg \in RegIdx \ {0} /\ req.mode \in FaultMode
              /\ fault_addr_valid => fault_reg_addr = req.reg /\ fault_mode = req.mode
        BY <2>1, FaultFields
      <3>2. req.sel = SUB_SEL_FAULT =>
              (Writable(req) <=> sub_addr_aligned /\ fault_addr_valid /\ fault_reg_addr # 0)
        BY <3>1 DEF Writable, ControlWritable, SUB_SEL_CTRL, SUB_SEL_REGFILE, SUB_SEL_FAULT
      <3>3. regfile_fault_enable <=>
              /\ fault_selected /\ d.strobe = 0 .. 3 /\ sub_addr_aligned
              /\ fault_addr_valid /\ fault_reg_addr # 0
        BY <1>1, <2>1 DEF regfile_fault_enable, fault_write_valid, write_strobe_full
      <3> QED
        BY <2>2, <3>1, <3>2, <3>3 DEF CorePins
    <2>8. Pulse = PulsesOf(req, d)
      <3>1. d.data = latched_write_data
        BY <2>1
      <3>2. /\ req = [sel |-> req.sel, reg |-> req.reg, mode |-> req.mode, byte |-> req.byte]
            /\ req.sel # SUB_SEL_FAULT => req.mode = 0
        BY <2>1, RequestFields
      <3>3. CASE pc_write_enable
        <4>1. req = [sel |-> SUB_SEL_CTRL, reg |-> CTRL_REG_PC, mode |-> 0, byte |-> 0]
          BY <2>4, <3>2, <3>3 DEF ControlWritable, SUB_SEL_CTRL, SUB_SEL_FAULT
        <4> QED
          BY <2>4, <3>1, <3>3, <4>1 DEF Pulse, PulsesOf, CorePins
      <3>4. CASE regfile_write_enable
        <4>1. req = [sel |-> SUB_SEL_REGFILE, reg |-> regfile_addr, mode |-> 0, byte |-> 0]
              /\ req.sel = SUB_SEL_REGFILE
          BY <2>6, <3>2, <3>4 DEF Writable, ControlWritable, SUB_SEL_REGFILE, SUB_SEL_FAULT, SUB_SEL_CTRL
        <4>2. ~pc_write_enable
          BY <2>4, <4>1 DEF ControlWritable, SUB_SEL_REGFILE, SUB_SEL_CTRL
        <4>3. Pulse = <<<<req, latched_write_data>>>>
          BY <3>4, <4>1, <4>2 DEF Pulse, CorePins
        <4>4. PulsesOf(req, d) = <<<<req, d.data>>>>
          BY <2>6, <3>4 DEF PulsesOf, SUB_SEL_REGFILE, SUB_SEL_CTRL
        <4> QED
          BY <3>1, <4>3, <4>4
      <3>5. CASE regfile_fault_enable
        <4>1. req = [sel |-> SUB_SEL_FAULT, reg |-> CorePins.fault_addr,
                     mode |-> CorePins.fault_mode, byte |-> 0] /\ req.sel = SUB_SEL_FAULT
          BY <2>7, <3>2, <3>5 DEF Writable, ControlWritable, SUB_SEL_REGFILE, SUB_SEL_FAULT, SUB_SEL_CTRL
        <4>2. ~pc_write_enable /\ ~regfile_write_enable
          BY <2>4, <2>6, <4>1 DEF ControlWritable, SUB_SEL_REGFILE, SUB_SEL_CTRL, SUB_SEL_FAULT
        <4>3. CorePins.fault_mask = latched_write_data
          BY <3>5 DEF CorePins
        <4>4. Pulse = <<<<req, latched_write_data>>>>
          BY <3>5, <4>1, <4>2, <4>3 DEF Pulse
        <4>5. PulsesOf(req, d) = <<<<req, d.data>>>>
          BY <2>7, <3>5 DEF PulsesOf, SUB_SEL_FAULT, SUB_SEL_CTRL
        <4> QED
          BY <3>1, <4>4, <4>5
      <3>6. CASE ~pc_write_enable /\ ~regfile_write_enable /\ ~regfile_fault_enable
        <4>1. ~(Writable(req) /\ d.strobe = 0 .. 3 /\ req.sel # SUB_SEL_CTRL)
          BY <2>6, <2>7, <3>6 DEF Writable, ControlWritable, SUB_SEL_CTRL
        <4> QED
          BY <2>4, <3>6, <4>1 DEF Pulse, PulsesOf
      <3> QED
        BY <3>3, <3>4, <3>5, <3>6
    <2> QED
      BY <2>4, <2>5, <2>8 DEF req
  <1>7. WriteIssued'
    <2>1. pc_stall => monitor'.low = 0
      BY <1>5
    <2> QED
      BY <1>2, <1>5, <1>6, <2>1 DEF WriteIssued
  <1> QED
    BY <1>1, <1>3, <1>4, <1>7 DEF IInv, ReadIssued, ReadAnswered, WriteHasItsEffectOnce,
                      StallFollowsCommands, S_AXI_RVALID, S_AXI_BVALID

\* The write collects its result; the stall of a step returns.
LEMMA StepWriteWaitDone ==
  ASSUME IInv, TypeOK', NEW rready \in BOOLEAN, NEW bready \in BOOLEAN, NEW core \in CoreInputs,
         WriteWaitDone(core), Master(rready, bready), Monitor(core)
  PROVE  IInv'
  <1>1. /\ cm_state = "WRITE_WAIT_DONE" /\ cm_state' = "WRITE_RESP"
        /\ UNCHANGED <<latched_address, latched_write_data, latched_write_strobe>>
        /\ Collect(core, control_write_valid, regfile_write_valid, fault_write_valid)
        /\ pc_stall' = (pc_stall \/ (control_selected /\ sub_addr = CTRL_REG_STEP))
    BY DEF WriteWaitDone, KeepLatches
  <1>2. /\ reading' = {} /\ reading = {} /\ writing # {} /\ writing' = writing
    BY <1>1 DEF IInv, RequestsAgree, ReadStates, WriteStates, Master, S_AXI_ARREADY,
                S_AXI_AWREADY, S_AXI_WREADY, S_AXI_BVALID, S_AXI_RVALID
  <1>3. RequestsAgree'
    BY <1>1, <1>2 DEF IInv, RequestsAgree, ReadStates, WriteStates
  <1>4. NothingLeftOver'
    BY <1>1, <1>2 DEF NothingLeftOver
  <1>5. /\ monitor'.pulses = monitor.pulses /\ monitor'.stall = monitor.stall
        /\ monitor'.low = IF pc_stall THEN monitor.low ELSE monitor.low + 1
    <2>1. Pulse = <<>>
      BY <1>1, NoPulse
    <2>2. monitor.pulses \o <<>> = monitor.pulses
      BY OneEach DEF IInv
    <2> QED
      BY <1>1, <1>2, <2>1, <2>2, OneEach DEF Monitor, IInv
  <1>6. ASSUME NEW x \in writing, NEW d \in x.w
        PROVE  /\ op_successful' <=> Writable(x.req) /\ d.strobe = 0 .. 3
               /\ monitor.pulses = PulsesOf(x.req, d)
               /\ pc_stall' = (\/ To(x.req, {CTRL_REG_STOP, CTRL_REG_STEP})
                               \/ monitor.stall /\ ~To(x.req, {CTRL_REG_START}))
               /\ monitor.stall =>
                    monitor'.low = IF To(x.req, {CTRL_REG_START, CTRL_REG_STEP}) THEN 1 ELSE 0
    <2> DEFINE req == x.req
    <2>1. /\ req \in Request /\ latched_address = Address(req) % USED_ADDR
          /\ d = [data |-> latched_write_data, strobe |-> latched_write_strobe]
      BY <1>1, OneEach DEF IInv, RequestsAgree
    <2>2. /\ req.sel = SUB_SEL_CTRL /\ req.byte = 0 =>
               (control_address_valid <=> ControlWritable(req))
          /\ monitor.pulses = PulsesOf(req, d)
          /\ pc_stall = (\/ To(req, {CTRL_REG_STOP})
                         \/ monitor.stall /\ ~To(req, {CTRL_REG_START, CTRL_REG_STEP}))
          /\ monitor.stall => monitor.low = 0
      BY <1>1 DEF IInv, WriteIssued
    <2> HIDE DEF req
    <2>3. /\ control_selected <=> req.sel = SUB_SEL_CTRL
          /\ regfile_selected <=> req.sel = SUB_SEL_REGFILE
          /\ fault_selected <=> req.sel = SUB_SEL_FAULT
          /\ sub_addr_aligned <=> req.byte = 0
      BY <2>1, ControlFields, RegfileFields, FaultFields, Aligned
    <2>4. op_successful' <=> Writable(req) /\ d.strobe = 0 .. 3
      <3>1. write_strobe_full <=> d.strobe = 0 .. 3
        BY <2>1 DEF write_strobe_full
      <3>2. CASE req.sel = SUB_SEL_CTRL
        BY <1>1, <2>2, <2>3, <3>1, <3>2
        DEF Collect, control_write_valid, control_read_valid, Writable, ControlWritable,
            SUB_SEL_CTRL, SUB_SEL_REGFILE, SUB_SEL_FAULT
      <3>3. CASE req.sel = SUB_SEL_REGFILE
        <4>1. /\ regfile_read_valid <=> req.byte = 0 /\ req.reg \in RegIdx
              /\ regfile_read_valid => regfile_sub_addr = req.reg
              /\ req.mode = 0
          BY <2>1, <3>3, RegfileFields, RequestFields DEF SUB_SEL_REGFILE, SUB_SEL_FAULT
        <4>2. Writable(req) <=> regfile_read_valid /\ regfile_sub_addr # 0
          BY <3>3, <4>1, SizesAssumption
          DEF Writable, ControlWritable, RegIdx, FaultMode, SUB_SEL_CTRL, SUB_SEL_REGFILE, SUB_SEL_FAULT
        <4> QED
          BY <1>1, <2>3, <3>1, <3>3, <4>2
          DEF Collect, regfile_write_valid, SUB_SEL_CTRL, SUB_SEL_REGFILE, SUB_SEL_FAULT
      <3>4. CASE req.sel = SUB_SEL_FAULT
        <4>1. sub_addr_aligned /\ fault_addr_valid /\ fault_reg_addr # 0 <=>
                req.byte = 0 /\ req.reg \in RegIdx \ {0} /\ req.mode \in FaultMode
          BY <2>1, <3>4, FaultFields
        <4>2. Writable(req) <=> sub_addr_aligned /\ fault_addr_valid /\ fault_reg_addr # 0
          BY <3>4, <4>1 DEF Writable, ControlWritable, SUB_SEL_CTRL, SUB_SEL_REGFILE, SUB_SEL_FAULT
        <4> QED
          BY <1>1, <2>3, <3>1, <3>4, <4>2
          DEF Collect, fault_write_valid, SUB_SEL_CTRL, SUB_SEL_REGFILE, SUB_SEL_FAULT
      <3>5. CASE req.sel \notin {SUB_SEL_CTRL, SUB_SEL_REGFILE, SUB_SEL_FAULT}
        BY <1>1, <2>3, <3>5 DEF Collect, Writable, ControlWritable
      <3> QED
        BY <3>2, <3>3, <3>4, <3>5
    <2>5. control_selected /\ sub_addr = CTRL_REG_STEP <=> To(req, {CTRL_REG_STEP})
      BY <2>1, <2>3, ControlFields DEF To, ControlWritable, Offsets
    <2>6. pc_stall' = (\/ To(req, {CTRL_REG_STOP, CTRL_REG_STEP})
                       \/ monitor.stall /\ ~To(req, {CTRL_REG_START}))
      BY <1>1, <2>2, <2>5 DEF To, CTRL_REG_START, CTRL_REG_STOP, CTRL_REG_STEP
    <2>7. monitor.stall =>
            monitor'.low = IF To(req, {CTRL_REG_START, CTRL_REG_STEP}) THEN 1 ELSE 0
      BY <1>5, <2>2 DEF To, CTRL_REG_START, CTRL_REG_STOP, CTRL_REG_STEP
    <2> QED
      BY <2>2, <2>4, <2>6, <2>7 DEF req
  <1>7. WriteHasItsEffectOnce'
    BY <1>2, <1>5, <1>6 DEF WriteHasItsEffectOnce, PulsesOf, RESP, Writable, ControlWritable
  <1>8. StallFollowsCommands'
    <2>1. \A x \in writing : \A d \in x.w :
            /\ pc_stall' = (\/ To(x.req, {CTRL_REG_STOP, CTRL_REG_STEP})
                            \/ monitor.stall /\ ~To(x.req, {CTRL_REG_START}))
            /\ monitor.stall =>
                 monitor'.low = IF To(x.req, {CTRL_REG_START, CTRL_REG_STEP}) THEN 1 ELSE 0
      BY <1>6
    <2>2. \A x \in writing : \E d : d \in x.w
      <3>1. \A x \in writing : x.w = {[data |-> latched_write_data, strobe |-> latched_write_strobe]}
        BY <1>1 DEF IInv, RequestsAgree
      <3> QED
        BY <3>1
    <2>3. writing' = writing /\ monitor'.stall = monitor.stall
      BY <1>2, <1>5
    <2> QED
      BY <2>1, <2>2, <2>3 DEF StallFollowsCommands, To
  <1> QED
    BY <1>1, <1>3, <1>4, <1>7, <1>8 DEF IInv, ReadIssued, ReadAnswered, WriteIssued, S_AXI_RVALID

\* The answer to a write stays what it is until the master takes it.
LEMMA StepWriteResp ==
  ASSUME IInv, TypeOK', NEW rready \in BOOLEAN, NEW bready \in BOOLEAN, NEW core \in CoreInputs,
         WriteResp(HostInputs(rready, bready)), Master(rready, bready), Monitor(core)
  PROVE  IInv'
  <1>1. /\ cm_state = "WRITE_RESP" /\ cm_state' = IF bready THEN "IDLE" ELSE "WRITE_RESP"
        /\ UNCHANGED <<pc_stall, op_successful, latched_address, latched_write_data,
                       latched_write_strobe>>
    BY HostTypes DEF WriteResp, KeepLatches, KeepControl, KeepResult, IInv
  <1>2. /\ reading' = {} /\ reading = {} /\ writing # {}
        /\ writing' = IF bready THEN {} ELSE writing
    BY <1>1 DEF IInv, RequestsAgree, ReadStates, WriteStates, Master, S_AXI_ARREADY,
                S_AXI_AWREADY, S_AXI_WREADY, S_AXI_BVALID, S_AXI_RVALID
  <1>3. RequestsAgree'
    BY <1>1, <1>2 DEF IInv, RequestsAgree, ReadStates, WriteStates
  <1>4. NothingLeftOver'
    BY <1>1, <1>2 DEF NothingLeftOver, Monitor
  <1>5. WriteHasItsEffectOnce' /\ StallFollowsCommands'
    <2>1. CASE bready
      BY <1>1, <2>1 DEF WriteHasItsEffectOnce, StallFollowsCommands, S_AXI_BVALID
    <2>2. CASE ~bready
      <3>1. Pulse = <<>> /\ monitor.pulses \o <<>> = monitor.pulses
        BY <1>1, NoPulse, OneEach DEF IInv
      <3>2. /\ monitor'.pulses = monitor.pulses /\ monitor'.stall = monitor.stall
            /\ monitor'.low = monitor.low
        BY <1>1, <1>2, <2>2, <3>1 DEF Monitor
      <3>3. S_AXI_BVALID /\ RESP' = RESP /\ writing' = writing
        BY <1>1, <1>2, <2>2 DEF S_AXI_BVALID, RESP
      <3> QED
        BY <1>1, <3>2, <3>3
        DEF IInv, WriteHasItsEffectOnce, StallFollowsCommands, Writable, ControlWritable
    <2> QED
      BY <2>1, <2>2
  <1> QED
    BY <1>1, <1>3, <1>4, <1>5 DEF IInv, ReadIssued, ReadAnswered, WriteIssued, S_AXI_RVALID

-----------------------------------------------------------------------------
(***************************************************************************)
(* The theorems.                                                           *)
(***************************************************************************)

\* Nothing is under way after a reset.
LEMMA Initially == Init => IInv
  <1> SUFFICES ASSUME Init PROVE IInv
    OBVIOUS
  <1> QED
    BY TypeInit
    DEF Init, SocInit, NoMonitor, IInv, RequestsAgree, ReadStates, WriteStates, NothingLeftOver,
        ReadIssued, WriteIssued, ReadAnswered, WriteHasItsEffectOnce, StallFollowsCommands,
        S_AXI_RVALID, S_AXI_BVALID

\* So it is after any later reset, whatever it cut off.
LEMMA AfterReset == Reset => IInv'
  <1> SUFFICES ASSUME Reset PROVE IInv'
    OBVIOUS
  <1> QED
    BY TypeReset
    DEF Reset, SocReset, NoMonitor, IInv, RequestsAgree, ReadStates, WriteStates, NothingLeftOver,
        ReadIssued, WriteIssued, ReadAnswered, WriteHasItsEffectOnce, StallFollowsCommands,
        S_AXI_RVALID, S_AXI_BVALID

\* Every step keeps the invariant.
LEMMA Inductive == IInv /\ [Next]_vars => IInv'
  <1> SUFFICES ASSUME IInv, [Next]_vars PROVE IInv'
    OBVIOUS
  <1>1. ASSUME NEW rready \in BOOLEAN, NEW bready \in BOOLEAN, NEW core \in CoreInputs,
               SocTick(HostInputs(rready, bready), core), Master(rready, bready), Monitor(core)
        PROVE  IInv'
    <2>1. TypeOK'
      BY <1>1, TypeTick DEF IInv
    <2> QED
      BY <1>1, <2>1, StepIdleRead, StepIdleWrite, StepReadIssue, StepReadWaitDone, StepReadResp,
         StepWriteRecvAddr, StepWriteRecvData, StepWriteIssue, StepWriteWaitDone, StepWriteResp
      DEF SocTick
  <1>2. CASE Reset
    BY <1>2, AfterReset
  <1>3. CASE UNCHANGED vars
    <2>1. TypeOK'
      <3>1. SocTypeOK'
        BY <1>3 DEF vars, soc_vars, IInv, TypeOK, SocTypeOK
      <3> QED
        BY <1>3, <3>1 DEF vars, IInv, TypeOK
    <2>5. RequestsAgree' /\ NothingLeftOver'
      BY <1>3 DEF vars, soc_vars, IInv, RequestsAgree, NothingLeftOver
    <2>2. \A req, c : ValueIn(req, c)' = ValueIn(req, c)
      BY <1>3 DEF vars, soc_vars, ValueIn
    <2>3. ReadIssued' /\ ReadAnswered'
      BY <1>3, <2>2 DEF vars, soc_vars, IInv, ReadIssued, ReadAnswered, S_AXI_RVALID, S_AXI_RDATA, RESP
    <2>4. WriteIssued' /\ WriteHasItsEffectOnce' /\ StallFollowsCommands'
      BY <1>3 DEF vars, soc_vars, IInv, WriteIssued, WriteHasItsEffectOnce, StallFollowsCommands,
                  S_AXI_BVALID, RESP
    <2> QED
      BY <2>1, <2>3, <2>4, <2>5 DEF IInv
  <1> QED
    BY <1>1, <1>2, <1>3 DEF Next, Tick

\* IInv holds in every reachable state.
LEMMA Invariant == Spec => []IInv
  BY Initially, Inductive, PTL DEF Spec

\* All registers of the control module, the channels and the monitors have
\* their types, whatever the master offers.
THEOREM ControlTypeCorrect == Spec => []TypeOK
  <1>1. IInv => TypeOK
    BY DEF IInv
  <1> QED
    BY <1>1, Invariant, PTL

\* A read is answered OKAY iff its address can be read, with a value of its own
\* time: no latch of an earlier request (soc_control.v:316-341) reaches it.
THEOREM ReadsAreTrue == Spec => []ReadAnswered
  <1>1. IInv => ReadAnswered
    BY DEF IInv
  <1> QED
    BY <1>1, Invariant, PTL

\* A write is answered OKAY iff it is legal, and pulses the core exactly once
\* with what was asked for, or not at all (soc_control.v:369-384).
THEOREM WritesActOnce == Spec => []WriteHasItsEffectOnce
  <1>1. IInv => WriteHasItsEffectOnce
    BY DEF IInv
  <1> QED
    BY <1>1, Invariant, PTL

\* The stall is moved by START, STOP and STEP alone, and a step lowers it for
\* exactly one cycle (soc_control.v:196-232).
THEOREM StallIsCommanded == Spec => []StallFollowsCommands
  <1>1. IInv => StallFollowsCommands
    BY DEF IInv
  <1> QED
    BY <1>1, Invariant, PTL
=============================================================================
