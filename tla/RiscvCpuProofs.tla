--------------------------- MODULE RiscvCpuProofs ---------------------------
(***************************************************************************)
(* What a clock edge does to the core and to the memory behind it, for     *)
(* every datapath: lemmas that hold whatever drives the control pins.      *)
(* Module CoreSystemProofs uses them for the core alone, and               *)
(* WorkerSystemProofs for the core behind its control module.              *)
(***************************************************************************)
EXTENDS RiscvCpu, AxiLiteSlave, TLAPS

\* The types of the inputs of one clock edge.
CmType ==
  [pc_stall: BOOLEAN, pc_we: BOOLEAN, pc_write_data: Word,
   regfile_addr: RegIdx, regfile_we: BOOLEAN, regfile_write_data: Word,
   fault_enable: BOOLEAN, fault_addr: RegIdx, fault_mode: FaultMode, fault_mask: Word]

AxiType ==
  [arready: BOOLEAN, rvalid: BOOLEAN, rdata: Word,
   awready: BOOLEAN, wready: BOOLEAN, bvalid: BOOLEAN]

-----------------------------------------------------------------------------
\* Zero is a word and names a register.
LEMMA ZeroIsWord == 0 \in Word /\ 0 \in RegIdx
  BY ParamsAssumption, SizesAssumption DEF Word, RegIdx

\* What addition and alignment return is a word.
LEMMA AddType == \A a, b \in Word : Add(a, b) \in Word
  <1> SUFFICES ASSUME NEW a \in Word, NEW b \in Word PROVE Add(a, b) \in Word
    OBVIOUS
  <1>1. a + b \in Int /\ WORD_SIZE \in Nat /\ WORD_SIZE > 0
    BY ParamsAssumption, SizesAssumption DEF Word
  <1>2. (a + b) % WORD_SIZE \in 0 .. (WORD_SIZE - 1)
    BY <1>1
  <1> QED
    BY <1>2 DEF Add, Word

\* Aligning a word gives a word.
LEMMA AlignType == \A a \in Word : WordAlign(a) \in Word
  <1> SUFFICES ASSUME NEW a \in Word PROVE WordAlign(a) \in Word
    OBVIOUS
  <1>1. a \in Nat /\ a < WORD_SIZE /\ WORD_SIZE \in Nat
    BY ParamsAssumption, SizesAssumption DEF Word
  <1>2. a % 4 \in 0 .. 3 /\ a % 4 <= a
    BY <1>1
  <1> QED
    BY <1>1, <1>2 DEF WordAlign, Word

\* pc + 4 is a word whatever PC_STEP is.
LEMMA NextPcType == \A a \in Word : Add(a, PC_STEP) \in Word
  <1> SUFFICES ASSUME NEW a \in Word PROVE Add(a, PC_STEP) \in Word
    OBVIOUS
  <1>1. a + PC_STEP \in Int /\ WORD_SIZE \in Nat /\ WORD_SIZE > 0
    BY ParamsAssumption, SizesAssumption DEF Word
  <1>2. (a + PC_STEP) % WORD_SIZE \in 0 .. (WORD_SIZE - 1)
    BY <1>1
  <1> QED
    BY <1>2 DEF Add, Word

\* What is read from the registers is a word.
LEMMA ReadRegisterType ==
  ASSUME NEW regs \in [RegIdx \ {0} -> Word], NEW i \in RegIdx
  PROVE  ReadRegister(regs, i) \in Word
  BY ZeroIsWord DEF ReadRegister

\* A word is read from memory wherever it is read.
LEMMA ReadCellType ==
  ASSUME NEW m \in [MemCells -> Word], NEW a
  PROVE  ReadCell(m, a) \in Word
  BY ZeroIsWord DEF ReadCell

\* A write keeps the memory's type.
LEMMA WriteCellType ==
  ASSUME NEW m \in [MemCells -> Word], NEW a, NEW s \in Strobe, NEW d \in Word
  PROVE  WriteCell(m, a, s, d) \in [MemCells -> Word]
  BY MergeAssumption DEF WriteCell

\* The slave's outputs have their types, and offer no more than it can take.
LEMMA AxiPinsType ==
  ASSUME SlaveTypeOK, NEW m, NEW axi \in SlaveOutputs(m)
  PROVE  /\ axi \in AxiType
         /\ axi.rvalid = (s_read.phase = "valid")
         /\ axi.bvalid = s_b
         /\ axi.arready => m.arvalid /\ s_read.phase = "none"
         /\ axi.awready => m.awvalid /\ ~s_aw.taken /\ ~s_b
         /\ axi.wready => m.wvalid /\ ~s_w.taken /\ ~s_b
  <1>1. PICK r \in SlaveReady(m) :
          axi = [arready |-> r.ar, rvalid |-> s_read.phase = "valid",
                 rdata |-> s_read.data, awready |-> r.aw, wready |-> r.w, bvalid |-> s_b]
    BY DEF SlaveOutputs
  <1>2. /\ r.ar \in BOOLEAN /\ r.aw \in BOOLEAN /\ r.w \in BOOLEAN
        /\ r.ar => m.arvalid /\ s_read.phase = "none"
        /\ r.aw => m.awvalid /\ ~s_aw.taken /\ ~s_b
        /\ r.w => m.wvalid /\ ~s_w.taken /\ ~s_b
    BY DEF SlaveReady
  <1>3. (s_read.phase = "valid") \in BOOLEAN /\ s_read.data \in Word /\ s_b \in BOOLEAN
    BY DEF SlaveTypeOK
  <1> QED
    BY <1>1, <1>2, <1>3 DEF AxiType

-----------------------------------------------------------------------------
\* The wires of the core have their types.
LEMMA WireTypes ==
  ASSUME CpuTypeOK
  PROVE  /\ decoded \in Decoded
         /\ rs1 \in Word /\ rs2 \in Word
         /\ alu_result \in Word
         /\ mem_addr \in Word
         /\ mem_write_strobe \in Strobe /\ mem_write_data \in Word
         /\ next_pc \in Word
         /\ \A v \in write_back_values : v \in Word
  <1>1. decoded \in Decoded
    BY DecodeAssumption DEF CpuTypeOK, decoded
  <1>2. /\ decoded.rd \in RegIdx /\ decoded.rs1 \in RegIdx /\ decoded.rs2 \in RegIdx
        /\ decoded.imm \in Word /\ decoded.func3 \in Func3 /\ decoded.alu_ctrl \in AluCtrl
    BY <1>1 DEF Decoded
  <1>3. rs1 \in Word /\ rs2 \in Word
    BY <1>2, ReadRegisterType DEF rs1, rs2, CpuTypeOK, RfTypeOK
  <1>4. alu_result \in Word
    BY <1>2, <1>3, AluAssumption DEF alu_result, CpuTypeOK
  <1>5. mem_addr_aux \in Word
    BY <1>2, <1>3, AddType, ZeroIsWord DEF mem_addr_aux
  <1>6. mem_addr \in Word
    BY <1>5, AlignType DEF mem_addr
  <1>7. alu_result % 4 \in 0 .. 3
    BY <1>4, ParamsAssumption, SizesAssumption DEF Word
  <1>8. mem_write_strobe \in Strobe /\ mem_write_data \in Word
    BY <1>2, <1>3, <1>7, LoadStoreAssumption DEF mem_write_strobe, mem_write_data
  <1>9. pc_plus_4 \in Word
    BY NextPcType DEF pc_plus_4, CpuTypeOK
  <1>10. next_pc \in Word
    BY <1>2, <1>3, <1>9, AddType DEF next_pc, CpuTypeOK
  <1>11. LoadValues(decoded.func3, mem_write_strobe, load_data) \in (SUBSET Word) \ {{}}
    BY <1>2, <1>8, LoadStoreAssumption DEF CpuTypeOK, ArbTypeOK
  <1>12. \A v \in write_back_values : v \in Word
    BY <1>4, <1>9, <1>11 DEF write_back_values
  <1> QED
    BY <1>1, <1>3, <1>4, <1>6, <1>8, <1>10, <1>12

\* What the core offers on its port has its type.
LEMMA MasterOutputsType ==
  ASSUME CpuTypeOK, NEW cm
  PROVE  LET m == MasterOutputs(cm)
         IN m.araddr \in Word /\ m.awaddr \in Word /\ m.wdata \in Word /\ m.wstrb \in Strobe
  <1>1. pc \in Word /\ {} \in Strobe
    BY DEF CpuTypeOK, Strobe
  <1> QED
    BY <1>1, WireTypes, ZeroIsWord
    DEF MasterOutputs, ArbiterInputs, M_AXI_ARADDR, M_AXI_AWADDR, M_AXI_WDATA, M_AXI_WSTRB

\* A clock edge keeps the types of the arbiter.
LEMMA ArbiterType ==
  ASSUME ArbTypeOK, NEW core, NEW axi \in AxiType, ArbTick(core, axi)
  PROVE  ArbTypeOK'
  <1> USE DEF ArbTypeOK, ArbStates, Goto, NoResult, AxiType
  <1>1. CASE FetchRequest(core, axi)
    BY <1>1 DEF FetchRequest
  <1>2. CASE LoadStoreAccept(core)
    BY <1>2 DEF LoadStoreAccept
  <1>3. CASE FetchAddress(axi) \/ FetchData(axi) \/ LoadAddress(axi) \/ LoadDone(axi)
    BY <1>3 DEF FetchAddress, FetchData, LoadAddress, LoadDone
  <1>4. CASE StoreIssue(axi)
    BY <1>4 DEF StoreIssue
  <1>5. CASE StoreAddress(axi) \/ StoreWriteData(axi) \/ StoreAcknowledge(axi)
    BY <1>5 DEF StoreAddress, StoreWriteData, StoreAcknowledge
  <1>6. CASE ArbWait(core, axi)
    BY <1>6 DEF ArbWait
  <1> QED
    BY <1>1, <1>2, <1>3, <1>4, <1>5, <1>6 DEF ArbTick

\* A clock edge keeps the types of the register file.
LEMMA RegisterFileType ==
  ASSUME RfTypeOK, NEW wb \in [enable: BOOLEAN, addr: RegIdx, data: Word],
         NEW cm \in CmType, RegisterFileTick(wb, cm)
  PROVE  RfTypeOK'
  <1>1. registers' \in [RegIdx \ {0} -> Word]
    <2>1. CASE WriteBack(wb)
      BY <2>1 DEF WriteBack, CoreWrites, RfTypeOK
    <2>2. CASE ExtraWrite(wb, cm)
      BY <2>2 DEF ExtraWrite, ExtraWrites, RfTypeOK, CmType
    <2>3. CASE FaultWrite(wb, cm)
      <3>1. cm.fault_addr \in RegIdx \ {0}
        BY <2>3 DEF FaultWrite, FaultWrites, CmType
      <3>2. InjectedValue(cm.fault_mode, registers[cm.fault_addr], cm.fault_mask) \in Word
        BY <3>1, FaultAssumption DEF RfTypeOK, CmType
      <3> QED
        BY <2>3, <3>1, <3>2 DEF FaultWrite, RfTypeOK
    <2>4. CASE NoWrite(wb, cm)
      BY <2>4 DEF NoWrite, RfTypeOK
    <2> QED
      BY <2>1, <2>2, <2>3, <2>4 DEF RegisterFileTick
  <1>2. extra_read_data' \in Word
    BY ReadRegisterType DEF RegisterFileTick, RfTypeOK, CmType
  <1> QED
    BY <1>1, <1>2 DEF RfTypeOK

\* A clock edge keeps the types of the core.
LEMMA CpuType ==
  ASSUME CpuTypeOK, NEW cm \in CmType, NEW axi \in AxiType, CpuTick(cm, axi)
  PROVE  CpuTypeOK'
  <1>1. /\ pc' \in Word
        /\ pc_release_pending' \in BOOLEAN
        /\ pc_stall_released' \in BOOLEAN
    <2>1. CASE TakeNextPc
      BY <2>1, WireTypes DEF TakeNextPc
    <2>2. CASE ReleasePc(cm, axi)
      BY <2>2 DEF ReleasePc, CpuTypeOK
    <2>3. CASE KeepPc(cm, axi)
      BY <2>3 DEF KeepPc, CpuTypeOK, CmType
    <2> QED
      BY <2>1, <2>2, <2>3 DEF CpuTick, PcGenerator
  <1>2. decoded_valid' \in BOOLEAN /\ instruction_latched' \in Word
    BY DEF CpuTick, DecodeStage, LatchInstruction, PassDecoded, AxiType, CpuTypeOK
  <1>3. alu_result_valid' \in BOOLEAN
    BY DEF CpuTick, ExecuteStage
  <1>4. next_pc_valid' \in BOOLEAN
    BY DEF CpuTick, NextPcStage
  <1>5. ArbTypeOK'
    BY ArbiterType DEF CpuTick, CpuTypeOK
  <1>6. RfTypeOK'
    <2>1. PICK v \in IF NextPcTransaction THEN write_back_values ELSE {0} :
            RegisterFileTick([enable |-> decoded.do_write_back /\ NextPcTransaction,
                              addr |-> decoded.rd, data |-> v], cm)
      BY DEF CpuTick
    <2>2. v \in Word
      BY WireTypes, ZeroIsWord
    <2>3. [enable |-> decoded.do_write_back /\ NextPcTransaction,
           addr |-> decoded.rd, data |-> v] \in [enable: BOOLEAN, addr: RegIdx, data: Word]
      BY <2>2, WireTypes DEF Decoded
    <2> QED
      BY <2>1, <2>3, RegisterFileType DEF CpuTypeOK
  <1> QED
    BY <1>1, <1>2, <1>3, <1>4, <1>5, <1>6 DEF CpuTypeOK

\* A clock edge keeps the types of the memory and of its port.
LEMMA SlaveType ==
  ASSUME SlaveTypeOK, NEW axi \in AxiType, NEW m,
         m.araddr \in Word, m.awaddr \in Word, m.wdata \in Word, m.wstrb \in Strobe,
         SlaveTick(m, axi)
  PROVE  SlaveTypeOK'
  <1>1. s_read' \in [phase: {"none", "busy", "valid"}, addr: Word, data: Word]
    <2>1. CASE ReadAccept(m, axi)
      BY <2>1, ReadCellType, ZeroIsWord DEF ReadAccept, SlaveTypeOK
    <2>2. CASE ReadServe
      BY <2>2, ReadCellType DEF ReadServe, SlaveTypeOK
    <2>3. CASE ReadFinish(m)
      BY <2>3, ZeroIsWord DEF ReadFinish, NoRead
    <2>4. CASE ReadIdle(m, axi)
      BY <2>4 DEF ReadIdle, SlaveTypeOK
    <2> QED
      BY <2>1, <2>2, <2>3, <2>4 DEF SlaveTick
  <1>2. /\ mem' \in [MemCells -> Word]
        /\ s_aw' \in [taken: BOOLEAN, addr: Word]
        /\ s_w' \in [taken: BOOLEAN, data: Word, strobe: Strobe]
        /\ s_b' \in BOOLEAN
    <2>1. CASE WriteCommit
      <3>1. mem' \in [MemCells -> Word]
        BY <2>1, WriteCellType DEF WriteCommit, SlaveTypeOK
      <3> QED
        BY <2>1, <3>1, ZeroIsWord DEF WriteCommit, NoAw, NoW, Strobe
    <2>2. CASE WriteHandshake(m, axi)
      BY <2>2 DEF WriteHandshake, SlaveTypeOK
    <2> QED
      BY <2>1, <2>2 DEF SlaveTick
  <1> QED
    BY <1>1, <1>2 DEF SlaveTypeOK

-----------------------------------------------------------------------------
\* The state before the first clock edge is typed.
LEMMA CpuTypeInit == CpuInit => CpuTypeOK
  BY ZeroIsWord, ParamsAssumption, SizesAssumption
  DEF CpuInit, ArbInit, RfInit, CpuTypeOK, ArbTypeOK, ArbStates, RfTypeOK

\* So is the state a reset leaves.
LEMMA CpuTypeReset == CpuReset => CpuTypeOK'
  BY ZeroIsWord, ParamsAssumption, SizesAssumption
  DEF CpuReset, ArbReset, RfReset, CpuTypeOK, ArbTypeOK, ArbStates, RfTypeOK

\* The port starts idle, next to a memory of words.
LEMMA SlaveTypeInit == SlaveIdle /\ mem \in [MemCells -> Word] => SlaveTypeOK
  <1> SUFFICES ASSUME SlaveIdle, mem \in [MemCells -> Word] PROVE SlaveTypeOK
    OBVIOUS
  <1> QED
    BY ZeroIsWord DEF SlaveIdle, NoRead, NoAw, NoW, SlaveTypeOK, Strobe

\* A reset gives up the transactions and keeps the memory.
LEMMA SlaveTypeReset == SlaveTypeOK /\ SlaveReset => SlaveTypeOK'
  <1> SUFFICES ASSUME SlaveTypeOK, SlaveReset PROVE SlaveTypeOK'
    OBVIOUS
  <1> QED
    BY ZeroIsWord DEF SlaveReset, NoRead, NoAw, NoW, SlaveTypeOK, Strobe

\* The core and the memory keep their types when the pins have theirs.
LEMMA CpuAndSlaveType ==
  ASSUME CpuTypeOK, SlaveTypeOK, NEW cm \in CmType, NEW axi \in SlaveOutputs(MasterOutputs(cm)),
         CpuTick(cm, axi), SlaveTick(MasterOutputs(cm), axi)
  PROVE  CpuTypeOK' /\ SlaveTypeOK'
  <1>1. axi \in AxiType
    BY AxiPinsType
  <1> DEFINE m == MasterOutputs(cm)
  <1>2. m.araddr \in Word /\ m.awaddr \in Word /\ m.wdata \in Word /\ m.wstrb \in Strobe
    BY MasterOutputsType
  <1>3. SlaveTick(m, axi)
    OBVIOUS
  <1>4. CpuTypeOK'
    BY <1>1, CpuType
  <1> HIDE DEF m
  <1> QED
    BY <1>1, <1>2, <1>3, <1>4, SlaveType

-----------------------------------------------------------------------------
\* A core at rest between two instructions makes no transaction while the
\* stall is up: only its pc and its registers can be changed, from outside.
LEMMA HaltedKeepsStill ==
  ASSUME NEW cm, NEW axi, CpuTick(cm, axi),
         cm.pc_stall, pc_release_pending, ~pc_stall_released
  PROVE  /\ ~NextPcTransaction /\ KeepPc(cm, axi)
         /\ pc_release_pending' /\ ~pc_stall_released'
         /\ pc' = IF cm.pc_we THEN cm.pc_write_data ELSE pc
         /\ RegisterFileTick([enable |-> FALSE, addr |-> decoded.rd, data |-> 0], cm)
  <1>1. ~NextPcTransaction /\ ~PcTransaction(cm, axi)
    BY DEF NextPcTransaction, next_pc_ready, PcTransaction, pc_valid
  <1>2. KeepPc(cm, axi)
    BY <1>1 DEF CpuTick, PcGenerator, TakeNextPc, ReleasePc
  <1>3. /\ pc_release_pending' /\ ~pc_stall_released'
        /\ pc' = IF cm.pc_we THEN cm.pc_write_data ELSE pc
    BY <1>2 DEF KeepPc
  <1>4. RegisterFileTick([enable |-> FALSE, addr |-> decoded.rd, data |-> 0], cm)
    BY <1>1 DEF CpuTick, RegisterFileTick, WriteBack, ExtraWrite, FaultWrite, NoWrite, CoreWrites
  <1> QED
    BY <1>1, <1>2, <1>3, <1>4
=============================================================================
