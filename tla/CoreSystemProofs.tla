-------------------------- MODULE CoreSystemProofs --------------------------
(***************************************************************************)
(* Theorems about module CoreSystem, for every word size, register count,  *)
(* memory, program and combinational datapath that satisfy the assumptions *)
(* of module Datapath.                                                     *)
(***************************************************************************)
EXTENDS CoreSystem, RiscvCpuProofs

-----------------------------------------------------------------------------
\* The pins of the control module have their types.
LEMMA CmPinsType ==
  ASSUME TypeOK, NEW cm \in CmPins
  PROVE  cm \in CmType /\ cm.pc_stall = pc_stall
  <1>1. IdlePins \in CmType /\ IdlePins.pc_stall = pc_stall
    BY ZeroIsWord DEF TypeOK, IdlePins, CmType, FaultMode
  <1>2. CASE cm \in PcWritePins
    BY <1>1, <1>2, SystemAssumption DEF PcWritePins, CmType
  <1>3. CASE cm \in RegReadPins
    BY <1>1, <1>3, SystemAssumption DEF RegReadPins, CmType
  <1>4. CASE cm \in RegWritePins
    <2>1. PICK w \in [reg: CmRegs, value: CmValues] :
            cm = [IdlePins EXCEPT !.regfile_we = TRUE, !.regfile_addr = w.reg,
                                  !.regfile_write_data = w.value]
      BY <1>4 DEF RegWritePins
    <2>2. w.reg \in RegIdx /\ w.value \in Word
      BY SystemAssumption
    <2> QED
      BY <1>1, <2>1, <2>2 DEF CmType
  <1>5. CASE cm \in FaultPins
    <2>1. PICK f \in [reg: CmRegs, mode: FaultMode, mask: CmValues] :
            cm = [IdlePins EXCEPT !.fault_enable = TRUE, !.fault_addr = f.reg,
                                  !.fault_mode = f.mode, !.fault_mask = f.mask]
      BY <1>5 DEF FaultPins
    <2>2. f.reg \in RegIdx /\ f.mode \in FaultMode /\ f.mask \in Word
      BY SystemAssumption
    <2> QED
      BY <1>1, <2>1, <2>2 DEF CmType
  <1> QED
    BY <1>1, <1>2, <1>3, <1>4, <1>5 DEF CmPins


\* The types hold at the start, and every clock edge and reset keeps them.
LEMMA TypeInit == Init => TypeOK
  BY CpuTypeInit, SlaveTypeInit, SystemAssumption DEF Init, TypeOK

LEMMA TypeTick == ASSUME TypeOK, Tick PROVE TypeOK'
  <1>1. PICK cm \in CmPins : \E axi \in SlaveOutputs(MasterOutputs(cm)) : Clock(cm, axi)
    BY DEF Tick
  <1>2. PICK axi \in SlaveOutputs(MasterOutputs(cm)) : Clock(cm, axi)
    BY <1>1
  <1>3. cm \in CmType
    BY CmPinsType
  <1> QED
    BY <1>2, <1>3, CpuAndSlaveType DEF Clock, TypeOK

LEMMA TypeReset == ASSUME TypeOK, Reset PROVE TypeOK'
  BY CpuTypeReset, SlaveTypeReset DEF Reset, TypeOK

\* Every register of the core, of the arbiter and of the register file, and
\* the memory, always hold values of their type.
THEOREM TypeCorrect == Spec => []TypeOK
  <1>1. TypeOK /\ [Next]_vars => TypeOK'
    <2> SUFFICES ASSUME TypeOK, [Next]_vars PROVE TypeOK'
      OBVIOUS
    <2>1. CASE Tick
      BY <2>1, TypeTick
    <2>2. CASE Reset
      BY <2>2, TypeReset
    <2>3. CASE UNCHANGED vars
      BY <2>3 DEF vars, cpu_vars, arb_vars, rf_vars, slave_vars,
                  TypeOK, CpuTypeOK, ArbTypeOK, RfTypeOK, SlaveTypeOK
    <2> QED
      BY <2>1, <2>2, <2>3 DEF Next
  <1> QED
    BY TypeInit, <1>1, PTL DEF Spec

-----------------------------------------------------------------------------
(***************************************************************************)
(* Where the instruction is.  One lemma per place says where a clock edge  *)
(* can move it.                                                            *)
(***************************************************************************)
ReleasedIsPending == pc_stall_released => pc_release_pending

\* The arbiter in a state without a pc request.
LEMMA ArbiterIdle ==
  ASSUME NEW core, NEW axi, ArbTick(core, axi), arb_state = "IDLE", ~core.pc_valid,
         ~core.load_store_valid
  PROVE  arb_state' = "IDLE" /\ load_store_result_valid' = FALSE
  BY DEF ArbTick, FetchRequest, LoadStoreAccept, FetchAddress, FetchData, LoadAddress,
         LoadDone, StoreIssue, StoreAddress, StoreWriteData, StoreAcknowledge, ArbWait,
         load_store_ready, Goto, NoResult

LEMMA StepAtPc ==
  ASSUME TypeOK, ReleasedIsPending, NEW cm \in CmType, NEW axi \in AxiType,
         CpuTick(cm, axi), AtPc
  PROVE  (AtPc \/ AtFetch)' /\ ReleasedIsPending'
  <1> DEFINE core == ArbiterInputs(cm)
  <1>1. /\ pc_release_pending = TRUE /\ decoded_valid = FALSE
        /\ alu_result_valid = FALSE /\ load_store_result_valid = FALSE
        /\ next_pc_valid = FALSE
    BY DEF AtPc, Flags, TypeOK, CpuTypeOK, ArbTypeOK
  <1>2. /\ core.pc_valid = pc_valid(cm)
        /\ core.load_store_valid = (decoded_valid /\ decoded.use_mem)
    BY DEF ArbiterInputs
  <1>3. decoded_valid' = FALSE /\ alu_result_valid' = FALSE /\ next_pc_valid' = FALSE
    BY <1>1 DEF CpuTick, DecodeStage, LatchInstruction, PassDecoded, instruction_valid,
                AtPc, ExecuteStage, DecodedTransaction, ExecuteResultTransaction,
                NextPcStage, NextPcTransaction
  <1>4. CASE PcTransaction(cm, axi)
    <2>1. pc_release_pending' = FALSE /\ pc_stall_released' = FALSE
      BY <1>1, <1>4 DEF CpuTick, PcGenerator, TakeNextPc, ReleasePc, KeepPc, NextPcTransaction
    <2>2. arb_state' = "PC_DATA" /\ load_store_result_valid' = FALSE
      BY <1>1, <1>2, <1>4 DEF CpuTick, PcTransaction, pc_ready, FetchAddressPhase,
         ArbTick, FetchRequest, LoadStoreAccept, FetchAddress, FetchData, LoadAddress,
         LoadDone, StoreIssue, StoreAddress, StoreWriteData, StoreAcknowledge, ArbWait,
         load_store_ready, Goto, NoResult
    <2> QED
      BY <1>3, <2>1, <2>2 DEF AtFetch, Flags, ReleasedIsPending
  <1>5. CASE ~PcTransaction(cm, axi)
    <2>1. /\ pc_release_pending' = TRUE
          /\ pc_stall_released' = (pc_stall_released \/ ~cm.pc_stall)
      BY <1>1, <1>5 DEF CpuTick, PcGenerator, TakeNextPc, ReleasePc, KeepPc, NextPcTransaction
    <2>2. /\ load_store_result_valid' = FALSE
          /\ arb_state' = "IDLE" \/ (arb_state' = "PC_WAIT_ARREADY" /\ pc_valid(cm))
      BY <1>1, <1>2, <1>5 DEF CpuTick, PcTransaction, pc_ready, FetchAddressPhase, AtPc,
         ArbTick, FetchRequest, LoadStoreAccept, FetchAddress, FetchData, LoadAddress,
         LoadDone, StoreIssue, StoreAddress, StoreWriteData, StoreAcknowledge, ArbWait,
         load_store_ready, Goto, NoResult, pc_valid
    <2> QED
      BY <1>3, <2>1, <2>2 DEF AtPc, Flags, ReleasedIsPending, pc_valid
  <1> QED
    BY <1>4, <1>5

\* While an instruction is in flight the pc generator waits for its NEXT_PC.
LEMMA PcGeneratorWaits ==
  ASSUME TypeOK, ReleasedIsPending, NEW cm, NEW axi, CpuTick(cm, axi),
         pc_release_pending = FALSE, next_pc_valid = FALSE
  PROVE  /\ pc_release_pending' = FALSE /\ pc_stall_released' = FALSE
         /\ ArbiterInputs(cm).pc_valid = FALSE
  <1>1. ~PcTransaction(cm, axi) /\ ~NextPcTransaction
    BY DEF PcTransaction, pc_valid, NextPcTransaction
  <1>2. pc_release_pending' = FALSE /\ pc_stall_released' = FALSE
    BY <1>1 DEF CpuTick, PcGenerator, TakeNextPc, ReleasePc, KeepPc, ReleasedIsPending,
                TypeOK, CpuTypeOK
  <1> QED
    BY <1>2 DEF ArbiterInputs, pc_valid

LEMMA StepAtFetch ==
  ASSUME TypeOK, ReleasedIsPending, NEW cm \in CmType, NEW axi \in AxiType,
         CpuTick(cm, axi), AtFetch
  PROVE  (AtFetch \/ AtDecode)' /\ ReleasedIsPending'
  <1>1. /\ pc_release_pending = FALSE /\ decoded_valid = FALSE
        /\ alu_result_valid = FALSE /\ load_store_result_valid = FALSE
        /\ next_pc_valid = FALSE /\ arb_state = "PC_DATA"
    BY DEF AtFetch, Flags, TypeOK, CpuTypeOK, ArbTypeOK
  <1>2. pc_release_pending' = FALSE /\ pc_stall_released' = FALSE
    BY <1>1, PcGeneratorWaits
  <1>3. alu_result_valid' = FALSE /\ next_pc_valid' = FALSE
    BY <1>1 DEF CpuTick, ExecuteStage, DecodedTransaction, ExecuteResultTransaction,
                NextPcStage, NextPcTransaction
  <1>4. /\ load_store_result_valid' = FALSE
        /\ arb_state' = IF axi.rvalid THEN "IDLE" ELSE "PC_DATA"
    BY <1>1 DEF CpuTick, ArbTick, FetchRequest, LoadStoreAccept, FetchAddress, FetchData,
                LoadAddress, LoadDone, StoreIssue, StoreAddress, StoreWriteData,
                StoreAcknowledge, ArbWait, load_store_ready, Goto, NoResult
  <1>5. decoded_valid' = axi.rvalid
    BY <1>1 DEF CpuTick, DecodeStage, LatchInstruction, PassDecoded, instruction_valid, AxiType
  <1> QED
    BY <1>2, <1>3, <1>4, <1>5 DEF AtFetch, AtDecode, Flags, ReleasedIsPending, AxiType

LEMMA StepAtDecode ==
  ASSUME TypeOK, ReleasedIsPending, NEW cm \in CmType, NEW axi \in AxiType,
         CpuTick(cm, axi), AtDecode
  PROVE  (AtLoad \/ AtStore \/ AtResult)' /\ ReleasedIsPending'
  <1> DEFINE core == ArbiterInputs(cm)
  <1>1. /\ pc_release_pending = FALSE /\ decoded_valid = TRUE
        /\ alu_result_valid = FALSE /\ load_store_result_valid = FALSE
        /\ next_pc_valid = FALSE /\ arb_state = "IDLE"
    BY DEF AtDecode, Flags, TypeOK, CpuTypeOK, ArbTypeOK
  <1>2. pc_release_pending' = FALSE /\ pc_stall_released' = FALSE /\ core.pc_valid = FALSE
    BY <1>1, PcGeneratorWaits
  <1>3. decoded.use_mem \in BOOLEAN /\ decoded.mem_is_write \in BOOLEAN
    BY WireTypes DEF Decoded, TypeOK
  <1>4. /\ core.load_store_valid = decoded.use_mem
        /\ core.load_store_is_write = decoded.mem_is_write
    BY <1>1, <1>3 DEF ArbiterInputs
  <1>5. DecodedTransaction(cm)
    BY <1>1, <1>2 DEF DecodedTransaction, decoded_ready, load_store_ready
  <1>6. decoded_valid' = FALSE /\ decoded' = decoded
    BY <1>1, <1>5 DEF CpuTick, DecodeStage, LatchInstruction, PassDecoded, instruction_valid,
                      decoded
  <1>7. alu_result_valid' = ~decoded.use_mem /\ next_pc_valid' = FALSE
    BY <1>1, <1>3, <1>5 DEF CpuTick, ExecuteStage, NextPcStage, ExecuteResultTransaction,
                            NextPcTransaction
  <1>8. /\ load_store_result_valid' = FALSE
        /\ arb_state' = IF ~decoded.use_mem THEN "IDLE"
                        ELSE IF decoded.mem_is_write THEN "S_WAIT_BOTH" ELSE "L_WAIT_ARREADY"
    BY <1>1, <1>2, <1>4 DEF CpuTick, ArbTick, FetchRequest, LoadStoreAccept, FetchAddress,
                FetchData, LoadAddress, LoadDone, StoreIssue, StoreAddress, StoreWriteData,
                StoreAcknowledge, ArbWait, load_store_ready, Goto, NoResult
  <1> QED
    BY <1>2, <1>3, <1>6, <1>7, <1>8 DEF AtLoad, AtStore, AtResult, Flags, ReleasedIsPending

\* The stages that only wait for the arbiter to finish a load or a store.
LEMMA WaitForMemory ==
  ASSUME TypeOK, ReleasedIsPending, NEW cm \in CmType, NEW axi \in AxiType,
         CpuTick(cm, axi), Flags(FALSE, FALSE, FALSE, FALSE), arb_state # "PC_DATA"
  PROVE  /\ pc_release_pending' = FALSE /\ pc_stall_released' = FALSE
         /\ decoded_valid' = FALSE /\ decoded' = decoded
         /\ alu_result_valid' = FALSE /\ next_pc_valid' = FALSE
  <1>1. /\ pc_release_pending = FALSE /\ decoded_valid = FALSE
        /\ alu_result_valid = FALSE /\ load_store_result_valid = FALSE
        /\ next_pc_valid = FALSE
    BY DEF Flags, TypeOK, CpuTypeOK, ArbTypeOK
  <1>2. pc_release_pending' = FALSE /\ pc_stall_released' = FALSE
    BY <1>1, PcGeneratorWaits
  <1>3. decoded_valid' = FALSE /\ decoded' = decoded
    BY <1>1 DEF CpuTick, DecodeStage, LatchInstruction, PassDecoded, instruction_valid, decoded
  <1>4. alu_result_valid' = FALSE /\ next_pc_valid' = FALSE
    BY <1>1 DEF CpuTick, ExecuteStage, DecodedTransaction, ExecuteResultTransaction,
                NextPcStage, NextPcTransaction
  <1> QED
    BY <1>2, <1>3, <1>4

LEMMA StepAtLoad ==
  ASSUME TypeOK, ReleasedIsPending, NEW cm \in CmType, NEW axi \in AxiType,
         CpuTick(cm, axi), AtLoad
  PROVE  (AtLoad \/ AtResult)' /\ ReleasedIsPending'
  <1>1. /\ pc_release_pending' = FALSE /\ pc_stall_released' = FALSE
        /\ decoded_valid' = FALSE /\ decoded' = decoded
        /\ alu_result_valid' = FALSE /\ next_pc_valid' = FALSE
    BY WaitForMemory DEF AtLoad
  <1>2. \/ arb_state' \in {"L_WAIT_ARREADY", "L_DATA"} /\ load_store_result_valid' = FALSE
        \/ arb_state' = "IDLE" /\ load_store_result_valid' = TRUE
    BY DEF AtLoad, CpuTick, ArbTick, FetchRequest, LoadStoreAccept, FetchAddress, FetchData,
           LoadAddress, LoadDone, StoreIssue, StoreAddress, StoreWriteData,
           StoreAcknowledge, ArbWait, load_store_ready, Goto, NoResult
  <1> QED
    BY <1>1, <1>2 DEF AtLoad, AtResult, Flags, ReleasedIsPending

LEMMA StepAtStore ==
  ASSUME TypeOK, ReleasedIsPending, NEW cm \in CmType, NEW axi \in AxiType,
         CpuTick(cm, axi), AtStore
  PROVE  (AtStore \/ AtResult)' /\ ReleasedIsPending'
  <1>1. /\ pc_release_pending' = FALSE /\ pc_stall_released' = FALSE
        /\ decoded_valid' = FALSE /\ decoded' = decoded
        /\ alu_result_valid' = FALSE /\ next_pc_valid' = FALSE
    BY WaitForMemory DEF AtStore
  <1>2. \/ /\ arb_state' \in {"S_WAIT_BOTH", "S_WAIT_AWREADY", "S_WAIT_WREADY", "S_RESP"}
           /\ load_store_result_valid' = FALSE
        \/ arb_state' = "IDLE" /\ load_store_result_valid' = TRUE
    BY DEF AtStore, CpuTick, ArbTick, FetchRequest, LoadStoreAccept, FetchAddress, FetchData,
           LoadAddress, LoadDone, StoreIssue, StoreAddress, StoreWriteData,
           StoreAcknowledge, ArbWait, load_store_ready, Goto, NoResult
  <1> QED
    BY <1>1, <1>2 DEF AtStore, AtResult, Flags, ReleasedIsPending

LEMMA StepAtResult ==
  ASSUME TypeOK, ReleasedIsPending, NEW cm \in CmType, NEW axi \in AxiType,
         CpuTick(cm, axi), AtResult
  PROVE  AtNextPc' /\ ReleasedIsPending'
  <1> DEFINE core == ArbiterInputs(cm)
  <1>1. /\ pc_release_pending = FALSE /\ decoded_valid = FALSE
        /\ next_pc_valid = FALSE /\ arb_state = "IDLE"
        /\ load_store_result_valid = decoded.use_mem
        /\ alu_result_valid = ~decoded.use_mem
    BY DEF AtResult, Flags
  <1>2. pc_release_pending' = FALSE /\ pc_stall_released' = FALSE /\ core.pc_valid = FALSE
    BY <1>1, PcGeneratorWaits
  <1>3. ExecuteResultTransaction /\ ~DecodedTransaction(cm)
    BY <1>1 DEF ExecuteResultTransaction, DecodedTransaction
  <1>4. decoded_valid' = FALSE /\ alu_result_valid' = FALSE /\ next_pc_valid' = TRUE
    BY <1>1, <1>3 DEF CpuTick, DecodeStage, LatchInstruction, PassDecoded, instruction_valid,
                      ExecuteStage, NextPcStage
  <1>5. core.load_store_valid = FALSE
    BY <1>1 DEF ArbiterInputs
  <1>6. arb_state' = "IDLE" /\ load_store_result_valid' = FALSE
    BY <1>1, <1>2, <1>5, ArbiterIdle DEF CpuTick
  <1> QED
    BY <1>2, <1>4, <1>6 DEF AtNextPc, Flags, ReleasedIsPending

LEMMA StepAtNextPc ==
  ASSUME TypeOK, ReleasedIsPending, NEW cm \in CmType, NEW axi \in AxiType,
         CpuTick(cm, axi), AtNextPc
  PROVE  AtPc' /\ pc' = next_pc /\ pc_stall_released' = FALSE /\ ReleasedIsPending'
  <1> DEFINE core == ArbiterInputs(cm)
  <1>1. /\ pc_release_pending = FALSE /\ decoded_valid = FALSE
        /\ alu_result_valid = FALSE /\ load_store_result_valid = FALSE
        /\ next_pc_valid = TRUE /\ arb_state = "IDLE"
    BY DEF AtNextPc, Flags, TypeOK, CpuTypeOK, ArbTypeOK
  <1>2. NextPcTransaction /\ core.pc_valid = FALSE /\ core.load_store_valid = FALSE
    BY <1>1 DEF NextPcTransaction, next_pc_ready, ArbiterInputs, pc_valid
  <1>3. pc_release_pending' = TRUE /\ pc_stall_released' = FALSE /\ pc' = next_pc
    BY <1>2 DEF CpuTick, PcGenerator, TakeNextPc, ReleasePc, KeepPc
  <1>4. decoded_valid' = FALSE /\ alu_result_valid' = FALSE /\ next_pc_valid' = FALSE
    BY <1>1, <1>2 DEF CpuTick, DecodeStage, LatchInstruction, PassDecoded, instruction_valid,
                      ExecuteStage, NextPcStage, ExecuteResultTransaction, DecodedTransaction
  <1>5. arb_state' = "IDLE" /\ load_store_result_valid' = FALSE
    BY <1>1, <1>2, ArbiterIdle DEF CpuTick
  <1> QED
    BY <1>3, <1>4, <1>5 DEF AtPc, Flags, ReleasedIsPending

\* Exactly one instruction is in flight: the induction hypothesis names its
\* place, and each place hands it to the next.
THEOREM SingleInstruction == Spec => []OneInFlight
  <1>1. Init => OneInFlight
    BY DEF Init, CpuInit, ArbInit, OneInFlight, AtPc, Flags
  <1>2. TypeOK /\ OneInFlight /\ [Next]_vars => OneInFlight'
    <2> SUFFICES ASSUME TypeOK, OneInFlight, [Next]_vars PROVE OneInFlight'
      OBVIOUS
    <2>1. CASE Tick
      <3>0. PICK cm \in CmPins : \E axi \in SlaveOutputs(MasterOutputs(cm)) : Clock(cm, axi)
        BY <2>1 DEF Tick
      <3>1. PICK axi \in SlaveOutputs(MasterOutputs(cm)) : Clock(cm, axi)
        BY <3>0
      <3>2. cm \in CmType /\ axi \in AxiType /\ CpuTick(cm, axi) /\ ReleasedIsPending
        BY <3>1, CmPinsType, AxiPinsType DEF Clock, OneInFlight, ReleasedIsPending, TypeOK
      <3>3. AtPc \/ AtFetch \/ AtDecode \/ AtLoad \/ AtStore \/ AtResult \/ AtNextPc
        BY DEF OneInFlight
      <3>4. /\ (AtPc \/ AtFetch \/ AtDecode \/ AtLoad \/ AtStore \/ AtResult \/ AtNextPc)'
            /\ ReleasedIsPending'
        BY <3>2, <3>3, StepAtPc, StepAtFetch, StepAtDecode, StepAtLoad, StepAtStore,
           StepAtResult, StepAtNextPc
      <3> QED
        BY <3>4 DEF OneInFlight, ReleasedIsPending
    <2>2. CASE Reset
      BY <2>2 DEF Reset, CpuReset, ArbReset, OneInFlight, AtPc, Flags
    <2>3. CASE UNCHANGED vars
      BY <2>3 DEF vars, cpu_vars, arb_vars, OneInFlight, AtPc, AtFetch, AtDecode, AtLoad,
                  AtStore, AtResult, AtNextPc, Flags, decoded
    <2> QED
      BY <2>1, <2>2, <2>3 DEF Next
  <1> QED
    BY <1>1, <1>2, TypeCorrect, PTL DEF Spec

-----------------------------------------------------------------------------
\* The reads the arbiter and the slave have under way, and the writes.
ReadsAgree == arb_state \in {"PC_DATA", "L_DATA"} <=> s_read.phase # "none"
WritesAgree ==
  /\ s_aw.taken => ~s_b /\ arb_state \in {"S_WAIT_WREADY", "S_RESP"}
  /\ s_w.taken => ~s_b /\ arb_state \in {"S_WAIT_AWREADY", "S_RESP"}
  /\ s_b => arb_state = "S_RESP"
  /\ arb_state = "S_WAIT_WREADY" => s_aw.taken /\ ~s_w.taken
  /\ arb_state = "S_WAIT_AWREADY" => s_w.taken /\ ~s_aw.taken
  /\ arb_state = "S_RESP" => s_b \/ (s_aw.taken /\ s_w.taken)

\* What the slave drives, seen from the arbiter's state.
LEMMA Handshakes ==
  ASSUME TypeOK, NEW cm, NEW axi \in SlaveOutputs(MasterOutputs(cm))
  PROVE  LET core == ArbiterInputs(cm)
             m == MasterOutputs(cm)
         IN /\ axi \in AxiType
            /\ axi.rvalid <=> s_read.phase = "valid"
            /\ axi.bvalid <=> s_b
            /\ axi.arready => s_read.phase = "none" /\ m.arvalid
            /\ axi.awready => ~s_aw.taken /\ ~s_b /\ m.awvalid
            /\ axi.wready => ~s_w.taken /\ ~s_b /\ m.wvalid
            /\ m.arvalid <=> \/ arb_state = "IDLE" /\ core.pc_valid
                             \/ arb_state \in {"PC_WAIT_ARREADY", "L_WAIT_ARREADY"}
            /\ m.rready <=> arb_state \in {"PC_DATA", "L_DATA"}
            /\ m.awvalid <=> arb_state \in {"S_WAIT_BOTH", "S_WAIT_AWREADY"}
            /\ m.wvalid <=> arb_state \in {"S_WAIT_BOTH", "S_WAIT_WREADY"}
            /\ m.bready <=> arb_state = "S_RESP"
  <1> DEFINE m == MasterOutputs(cm)
  <1>1. /\ axi \in AxiType
        /\ axi.rvalid = (s_read.phase = "valid")
        /\ axi.bvalid = s_b
        /\ axi.arready => m.arvalid /\ s_read.phase = "none"
        /\ axi.awready => m.awvalid /\ ~s_aw.taken /\ ~s_b
        /\ axi.wready => m.wvalid /\ ~s_w.taken /\ ~s_b
    BY AxiPinsType DEF TypeOK
  <1>2. /\ m.arvalid = M_AXI_ARVALID(ArbiterInputs(cm)) /\ m.rready = M_AXI_RREADY
        /\ m.awvalid = M_AXI_AWVALID /\ m.wvalid = M_AXI_WVALID /\ m.bready = M_AXI_BREADY
    BY DEF MasterOutputs
  <1> QED
    BY <1>1, <1>2 DEF M_AXI_ARVALID, FetchAddressPhase, M_AXI_RREADY, M_AXI_AWVALID,
                      M_AXI_WVALID, M_AXI_BREADY

\* The arbiter's part: a read begins with its address and ends with its data.
LEMMA ArbiterReads ==
  ASSUME ArbTypeOK, NEW core, NEW axi \in AxiType, ArbTick(core, axi),
         axi.arready => \/ arb_state = "IDLE" /\ core.pc_valid
                        \/ arb_state \in {"PC_WAIT_ARREADY", "L_WAIT_ARREADY"}
  PROVE  arb_state' \in {"PC_DATA", "L_DATA"} <=>
           axi.arready \/ (arb_state \in {"PC_DATA", "L_DATA"} /\ ~axi.rvalid)
  <1> USE DEF ArbTypeOK, ArbStates, Goto, NoResult, AxiType
  <1>1. CASE FetchRequest(core, axi)
    BY <1>1 DEF FetchRequest
  <1>2. CASE LoadStoreAccept(core)
    BY <1>2 DEF LoadStoreAccept, load_store_ready
  <1>3. CASE FetchAddress(axi) \/ LoadAddress(axi)
    BY <1>3 DEF FetchAddress, LoadAddress
  <1>4. CASE FetchData(axi) \/ LoadDone(axi)
    BY <1>4 DEF FetchData, LoadDone
  <1>5. CASE StoreIssue(axi) \/ StoreAddress(axi) \/ StoreWriteData(axi) \/ StoreAcknowledge(axi)
    BY <1>5 DEF StoreIssue, StoreAddress, StoreWriteData, StoreAcknowledge
  <1>6. CASE ArbWait(core, axi)
    BY <1>6 DEF ArbWait
  <1> QED
    BY <1>1, <1>2, <1>3, <1>4, <1>5, <1>6 DEF ArbTick

LEMMA ReadsKeepAgreeing ==
  ASSUME TypeOK, ReadsAgree, NEW cm, NEW axi \in SlaveOutputs(MasterOutputs(cm)),
         ArbTick(ArbiterInputs(cm), axi), SlaveTick(MasterOutputs(cm), axi)
  PROVE  ReadsAgree'
  <1> DEFINE core == ArbiterInputs(cm)
             m == MasterOutputs(cm)
  <1>1. /\ axi \in AxiType
        /\ axi.rvalid <=> s_read.phase = "valid"
        /\ axi.arready => s_read.phase = "none" /\ m.arvalid
        /\ m.arvalid <=> \/ arb_state = "IDLE" /\ core.pc_valid
                         \/ arb_state \in {"PC_WAIT_ARREADY", "L_WAIT_ARREADY"}
        /\ m.rready <=> arb_state \in {"PC_DATA", "L_DATA"}
    BY Handshakes
  <1>2. arb_state' \in {"PC_DATA", "L_DATA"} <=>
          axi.arready \/ (arb_state \in {"PC_DATA", "L_DATA"} /\ ~axi.rvalid)
    <2> HIDE DEF core, m
    <2> QED
      BY <1>1, ArbiterReads DEF core, TypeOK, CpuTypeOK
  <1>3. /\ ReadAccept(m, axi) \/ ReadServe \/ ReadFinish(m) \/ ReadIdle(m, axi)
        /\ s_read.phase \in {"none", "busy", "valid"} /\ DOMAIN s_read = {"phase", "addr", "data"}
    BY DEF SlaveTick, TypeOK, SlaveTypeOK
  <1> HIDE DEF core, m
  <1>4. s_read'.phase # "none" <=>
          axi.arready \/ (s_read.phase # "none" /\ ~(s_read.phase = "valid" /\ m.rready))
    <2>1. CASE ReadAccept(m, axi)
      BY <1>1, <1>3, <2>1 DEF ReadAccept
    <2>2. CASE ReadServe
      BY <1>1, <1>3, <2>2 DEF ReadServe
    <2>3. CASE ReadFinish(m)
      BY <1>1, <1>3, <2>3 DEF ReadFinish, NoRead
    <2>4. CASE ReadIdle(m, axi)
      BY <1>1, <1>3, <2>4 DEF ReadIdle
    <2> QED
      BY <1>3, <2>1, <2>2, <2>3, <2>4
  <1> QED
    BY <1>1, <1>2, <1>4 DEF ReadsAgree

\* The arbiter's part of a store: which half it still has to hand over.
LEMMA ArbiterWrites ==
  ASSUME ArbTypeOK, NEW core, NEW axi \in AxiType, ArbTick(core, axi)
  PROVE  /\ arb_state = "S_WAIT_BOTH" =>
              arb_state' = IF axi.awready /\ axi.wready THEN "S_RESP"
                           ELSE IF axi.awready THEN "S_WAIT_WREADY"
                           ELSE IF axi.wready THEN "S_WAIT_AWREADY" ELSE "S_WAIT_BOTH"
         /\ arb_state = "S_WAIT_AWREADY" =>
              arb_state' = IF axi.awready THEN "S_RESP" ELSE "S_WAIT_AWREADY"
         /\ arb_state = "S_WAIT_WREADY" =>
              arb_state' = IF axi.wready THEN "S_RESP" ELSE "S_WAIT_WREADY"
         /\ arb_state = "S_RESP" => arb_state' = IF axi.bvalid THEN "IDLE" ELSE "S_RESP"
         /\ arb_state \notin {"S_WAIT_BOTH", "S_WAIT_AWREADY", "S_WAIT_WREADY", "S_RESP"} =>
              arb_state' \notin {"S_WAIT_AWREADY", "S_WAIT_WREADY", "S_RESP"}
  <1> USE DEF ArbTypeOK, ArbStates, Goto, NoResult, AxiType
  <1>1. CASE FetchRequest(core, axi) \/ LoadStoreAccept(core)
    BY <1>1 DEF FetchRequest, LoadStoreAccept, load_store_ready
  <1>2. CASE FetchAddress(axi) \/ FetchData(axi) \/ LoadAddress(axi) \/ LoadDone(axi)
    BY <1>2 DEF FetchAddress, FetchData, LoadAddress, LoadDone
  <1>3. CASE StoreIssue(axi)
    BY <1>3 DEF StoreIssue
  <1>4. CASE StoreAddress(axi) \/ StoreWriteData(axi) \/ StoreAcknowledge(axi)
    BY <1>4 DEF StoreAddress, StoreWriteData, StoreAcknowledge
  <1>5. CASE ArbWait(core, axi)
    BY <1>5 DEF ArbWait
  <1> QED
    BY <1>1, <1>2, <1>3, <1>4, <1>5 DEF ArbTick

LEMMA WritesKeepAgreeing ==
  ASSUME TypeOK, WritesAgree, NEW cm, NEW axi \in SlaveOutputs(MasterOutputs(cm)),
         ArbTick(ArbiterInputs(cm), axi), SlaveTick(MasterOutputs(cm), axi)
  PROVE  WritesAgree'
  <1> DEFINE core == ArbiterInputs(cm)
             m == MasterOutputs(cm)
  <1>1. /\ axi \in AxiType
        /\ axi.bvalid <=> s_b
        /\ axi.awready => ~s_aw.taken /\ ~s_b /\ m.awvalid
        /\ axi.wready => ~s_w.taken /\ ~s_b /\ m.wvalid
        /\ m.awvalid <=> arb_state \in {"S_WAIT_BOTH", "S_WAIT_AWREADY"}
        /\ m.wvalid <=> arb_state \in {"S_WAIT_BOTH", "S_WAIT_WREADY"}
        /\ m.bready <=> arb_state = "S_RESP"
    BY Handshakes
  <1>2. ArbTypeOK /\ ArbTick(core, axi)
    BY DEF TypeOK, CpuTypeOK
  <1>3. /\ WriteCommit \/ WriteHandshake(m, axi)
        /\ s_aw.taken \in BOOLEAN /\ s_w.taken \in BOOLEAN /\ s_b \in BOOLEAN
    BY DEF SlaveTick, TypeOK, SlaveTypeOK
  <1> HIDE DEF core, m
  <1>4. CASE WriteCommit
    <2>1. /\ s_aw.taken /\ s_w.taken /\ ~s_b
          /\ s_aw'.taken = FALSE /\ s_w'.taken = FALSE /\ s_b' = TRUE
      BY <1>4 DEF WriteCommit, NoAw, NoW
    <2>2. arb_state = "S_RESP" /\ ~axi.bvalid
      BY <1>1, <2>1 DEF WritesAgree
    <2>3. arb_state' = "S_RESP"
      BY <1>1, <1>2, <2>2, ArbiterWrites
    <2> QED
      BY <2>1, <2>3 DEF WritesAgree
  <1>5. CASE WriteHandshake(m, axi)
    <2>1. /\ s_aw'.taken <=> s_aw.taken \/ axi.awready
          /\ s_w'.taken <=> s_w.taken \/ axi.wready
          /\ s_b' <=> s_b /\ ~m.bready
      BY <1>1, <1>5 DEF WriteHandshake
    <2>2. CASE arb_state = "S_WAIT_BOTH"
      <3>1. arb_state' = IF axi.awready /\ axi.wready THEN "S_RESP"
                         ELSE IF axi.awready THEN "S_WAIT_WREADY"
                         ELSE IF axi.wready THEN "S_WAIT_AWREADY" ELSE "S_WAIT_BOTH"
        BY <1>1, <1>2, <2>2, ArbiterWrites
      <3> QED
        BY <1>1, <2>1, <2>2, <3>1 DEF WritesAgree
    <2>3. CASE arb_state = "S_WAIT_AWREADY"
      <3>1. arb_state' = IF axi.awready THEN "S_RESP" ELSE "S_WAIT_AWREADY"
        BY <1>1, <1>2, <2>3, ArbiterWrites
      <3> QED
        BY <1>1, <2>1, <2>3, <3>1 DEF WritesAgree
    <2>4. CASE arb_state = "S_WAIT_WREADY"
      <3>1. arb_state' = IF axi.wready THEN "S_RESP" ELSE "S_WAIT_WREADY"
        BY <1>1, <1>2, <2>4, ArbiterWrites
      <3> QED
        BY <1>1, <2>1, <2>4, <3>1 DEF WritesAgree
    <2>5. CASE arb_state = "S_RESP"
      <3>1. arb_state' = IF axi.bvalid THEN "IDLE" ELSE "S_RESP"
        BY <1>1, <1>2, <2>5, ArbiterWrites
      <3> QED
        BY <1>1, <2>1, <2>5, <3>1 DEF WritesAgree
    <2>6. CASE arb_state \notin {"S_WAIT_BOTH", "S_WAIT_AWREADY", "S_WAIT_WREADY", "S_RESP"}
      <3>1. arb_state' \notin {"S_WAIT_AWREADY", "S_WAIT_WREADY", "S_RESP"}
        BY <1>1, <1>2, <2>6, ArbiterWrites
      <3> QED
        BY <1>1, <2>1, <2>6, <3>1 DEF WritesAgree
    <2> QED
      BY <2>2, <2>3, <2>4, <2>5, <2>6
  <1> QED
    BY <1>3, <1>4, <1>5

\* The arbiter and the slave agree on what is outstanding, however long the slave takes and
\* whatever the stall and the control module do: NoOrphanTransaction is inductive with the types.
THEOREM TransactionsAgree == Spec => []NoOrphanTransaction
  <1>1. NoOrphanTransaction <=> ReadsAgree /\ WritesAgree
    BY DEF NoOrphanTransaction, ReadsAgree, WritesAgree
  <1>2. ASSUME Init PROVE ReadsAgree /\ WritesAgree
    BY <1>2 DEF Init, CpuInit, ArbInit, SlaveIdle, NoRead, NoAw, NoW, ReadsAgree, WritesAgree
  <1>3. ASSUME TypeOK, ReadsAgree, WritesAgree, [Next]_vars
        PROVE  ReadsAgree' /\ WritesAgree'
    <2>1. CASE Tick
      <3>1. PICK cm \in CmPins : \E axi \in SlaveOutputs(MasterOutputs(cm)) : Clock(cm, axi)
        BY <2>1 DEF Tick
      <3>2. PICK axi \in SlaveOutputs(MasterOutputs(cm)) : Clock(cm, axi)
        BY <3>1
      <3>3. ArbTick(ArbiterInputs(cm), axi) /\ SlaveTick(MasterOutputs(cm), axi)
        BY <3>2 DEF Clock, CpuTick
      <3> QED
        BY <1>3, <3>3, ReadsKeepAgreeing, WritesKeepAgreeing
    <2>2. CASE Reset
      BY <2>2 DEF Reset, CpuReset, ArbReset, SlaveReset, NoRead, NoAw, NoW,
                  ReadsAgree, WritesAgree
    <2>3. CASE UNCHANGED vars
      BY <1>3, <2>3 DEF vars, cpu_vars, arb_vars, slave_vars, ReadsAgree, WritesAgree
    <2> QED
      BY <1>3, <2>1, <2>2, <2>3 DEF Next
  <1> DEFINE Agree == ReadsAgree /\ WritesAgree
  <1>4. Init => Agree
    BY <1>2
  <1>5. TypeOK /\ Agree /\ [Next]_vars => Agree'
    BY <1>3
  <1>6. Agree => NoOrphanTransaction
    BY <1>1
  <1> HIDE DEF Agree
  <1> QED
    BY <1>4, <1>5, <1>6, TypeCorrect, PTL DEF Spec
=============================================================================
