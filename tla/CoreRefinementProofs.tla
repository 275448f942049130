------------------------ MODULE CoreRefinementProofs ------------------------
(***************************************************************************)
(* The core's bus rule, its stop rule, the invariant that nothing latched  *)
(* goes stale, and the refinement of module DebugCore, for every datapath, *)
(* program and memory that satisfy the assumptions of module Datapath.     *)
(***************************************************************************)
EXTENDS CoreSystemProofs

\* The control module is quiet while the core is not halted.
LEMMA QuietPins ==
  ASSUME ~Halted, NEW cm \in CmPins
  PROVE  cm.pc_we = FALSE /\ cm.regfile_we = FALSE /\ cm.fault_enable = FALSE
  <1>1. cm \in {IdlePins} \cup RegReadPins
    BY DEF CmPins
  <1> QED
    BY <1>1 DEF RegReadPins, IdlePins

\* The control module writes the pc or a register, never both at one edge.
LEMMA OneWrite ==
  ASSUME NEW cm \in CmPins
  PROVE  cm.regfile_we \/ cm.fault_enable => cm.pc_we = FALSE
  <1>1. CASE cm \in PcWritePins
    <2>1. PICK v \in CmPcs : cm = [IdlePins EXCEPT !.pc_we = TRUE, !.pc_write_data = v]
      BY <1>1 DEF PcWritePins
    <2> QED
      BY <2>1 DEF IdlePins
  <1>2. CASE cm = IdlePins \/ cm \in RegReadPins
    BY <1>2 DEF RegReadPins, IdlePins
  <1>3. CASE cm \in RegWritePins
    BY <1>3 DEF RegWritePins, IdlePins
  <1>4. CASE cm \in FaultPins
    BY <1>4 DEF FaultPins, IdlePins
  <1> QED
    BY <1>1, <1>2, <1>3, <1>4 DEF CmPins

\* Outside a NEXT_PC transaction a core that is not halted keeps its registers and its pc.
LEMMA DatapathKept ==
  ASSUME ~Halted, NEW cm \in CmPins, NEW axi, CpuTick(cm, axi), ~NextPcTransaction
  PROVE  UNCHANGED <<registers, pc>>
  <1>1. cm.pc_we = FALSE /\ cm.regfile_we = FALSE /\ cm.fault_enable = FALSE
    BY QuietPins
  <1>2. pc' = pc
    BY <1>1 DEF CpuTick, PcGenerator, TakeNextPc, ReleasePc, KeepPc
  <1>3. PICK v : RegisterFileTick([enable |-> decoded.do_write_back /\ NextPcTransaction,
                                   addr |-> decoded.rd, data |-> v], cm)
    BY DEF CpuTick
  <1>4. registers' = registers
    BY <1>1, <1>3 DEF RegisterFileTick, WriteBack, ExtraWrite, FaultWrite, NoWrite,
                      CoreWrites, ExtraWrites, FaultWrites
  <1> QED
    BY <1>2, <1>4

\* The wires are functions of the registers, the pc and the latched instruction.
LEMMA WiresKept ==
  ASSUME UNCHANGED <<registers, pc, instruction_latched>>
  PROVE  UNCHANGED <<decoded, rs1, rs2, alu_result, mem_addr, mem_write_strobe,
                     mem_write_data, pc_plus_4>>
  <1>1. decoded' = decoded
    BY DEF decoded
  <1>2. rs1' = rs1 /\ rs2' = rs2
    BY <1>1 DEF rs1, rs2, ReadRegister
  <1>3. alu_result' = alu_result
    BY <1>1, <1>2 DEF alu_result
  <1>4. mem_addr' = mem_addr
    BY <1>1, <1>2 DEF mem_addr, mem_addr_aux, Add, WordAlign
  <1>5. mem_write_strobe' = mem_write_strobe /\ mem_write_data' = mem_write_data
    BY <1>1, <1>2, <1>3 DEF mem_write_strobe, mem_write_data
  <1>6. pc_plus_4' = pc_plus_4
    BY DEF pc_plus_4, Add
  <1> QED
    BY <1>1, <1>2, <1>3, <1>4, <1>5, <1>6

\* A store commits only while the arbiter waits for its response; the memory
\* changes at no other time.
LEMMA MemoryKept ==
  ASSUME NoOrphanTransaction, NEW m, NEW axi, SlaveTick(m, axi), arb_state # "S_RESP" \/ s_b
  PROVE  UNCHANGED mem /\ ~WriteCommit /\ WriteHandshake(m, axi)
  BY DEF SlaveTick, WriteCommit, WriteHandshake, NoOrphanTransaction

\* Where the instruction is decides the flags, so at most one place is true.
LEMMA PlaceFlags ==
  ASSUME OneInFlight, TypeOK
  PROVE  /\ AtPc <=> pc_release_pending
         /\ AtNextPc <=> next_pc_valid
         /\ Halted => AtPc /\ arb_state = "IDLE"
         /\ NextPcTransaction <=> AtNextPc
         /\ arb_state = "PC_DATA" <=> AtFetch
         /\ arb_state \in {"L_WAIT_ARREADY", "L_DATA"} <=> AtLoad
         /\ arb_state \in {"S_WAIT_BOTH", "S_WAIT_AWREADY", "S_WAIT_WREADY", "S_RESP"} <=> AtStore
         /\ arb_state \in {"IDLE", "PC_WAIT_ARREADY"} <=> AtPc \/ AtDecode \/ AtResult \/ AtNextPc
         /\ arb_state = "PC_WAIT_ARREADY" => AtPc
         /\ AtPc => ~(AtFetch \/ AtDecode \/ AtLoad \/ AtStore \/ AtResult \/ AtNextPc)
         /\ AtResult => ~AtNextPc /\ ~AtDecode
         /\ AtDecode => ~AtNextPc
  BY DEF OneInFlight, AtPc, AtFetch, AtDecode, AtLoad, AtStore, AtResult, AtNextPc, Flags,
         Halted, NextPcTransaction, next_pc_ready, TypeOK, CpuTypeOK, ArbTypeOK, ArbStates

-----------------------------------------------------------------------------
(***************************************************************************)
(* What the clock edge does at each place to the data.                     *)
(***************************************************************************)
\* The invariants the lemmas below start from.
Placed == TypeOK /\ OneInFlight /\ NoOrphanTransaction

\* The edge of a halted core: the pc generator keeps the pc or takes the one
\* that is written, and everything else waits.
LEMMA HaltedEdge ==
  ASSUME Placed, Halted, NEW cm \in CmPins,
         NEW axi \in SlaveOutputs(MasterOutputs(cm)), Clock(cm, axi)
  PROVE  /\ pc_release_pending' /\ ~pc_stall_released'
         /\ ~M_AXI_ARVALID(ArbiterInputs(cm))
         /\ UNCHANGED <<mem, arb_state, decoded_valid, next_pc_valid>>
         /\ ~StoreDone /\ ~StoreDone'
  <1>1. /\ pc_stall = TRUE /\ pc_release_pending = TRUE /\ pc_stall_released = FALSE
        /\ decoded_valid = FALSE /\ alu_result_valid = FALSE
        /\ load_store_result_valid = FALSE /\ next_pc_valid = FALSE /\ arb_state = "IDLE"
    BY PlaceFlags DEF Placed, Halted, AtPc, Flags, TypeOK, CpuTypeOK, ArbTypeOK
  <1>2. cm.pc_stall = TRUE /\ CpuTick(cm, axi) /\ SlaveTick(MasterOutputs(cm), axi)
    BY <1>1, CmPinsType DEF Placed, Clock
  <1>3. pc_valid(cm) = FALSE /\ ~NextPcTransaction /\ ~PcTransaction(cm, axi)
    BY <1>1, <1>2 DEF pc_valid, NextPcTransaction, PcTransaction
  <1>4. ArbiterInputs(cm).pc_valid = FALSE /\ ArbiterInputs(cm).load_store_valid = FALSE
    BY <1>1, <1>3 DEF ArbiterInputs
  <1>5. pc_release_pending' = TRUE /\ pc_stall_released' = FALSE
    BY <1>1, <1>2, <1>3 DEF CpuTick, PcGenerator, TakeNextPc, ReleasePc, KeepPc
  <1>6. arb_state' = "IDLE" /\ load_store_result_valid' = FALSE
    BY <1>1, <1>2, <1>4, ArbiterIdle DEF CpuTick
  <1>7. decoded_valid' = FALSE /\ next_pc_valid' = FALSE
    BY <1>1, <1>2 DEF CpuTick, DecodeStage, LatchInstruction, PassDecoded, instruction_valid,
                      NextPcStage, ExecuteResultTransaction
  <1>8. mem' = mem /\ s_b' = FALSE /\ s_b = FALSE
    BY <1>1, <1>2, MemoryKept DEF Placed, NoOrphanTransaction, WriteHandshake,
                                  TypeOK, SlaveTypeOK
  <1>9. ~StoreDone /\ ~StoreDone'
    BY <1>1, <1>6, <1>7, <1>8 DEF StoreDone
  <1> QED
    BY <1>1, <1>4, <1>5, <1>6, <1>7, <1>8, <1>9 DEF M_AXI_ARVALID, FetchAddressPhase

\* The address and the data the master offers depend on the place, the wires and the pc.
LEMMA BusOffers ==
  ASSUME NEW cm
  PROVE  LET m == MasterOutputs(cm) IN
         /\ m.arvalid <=> \/ arb_state = "IDLE" /\ pc_valid(cm)
                          \/ arb_state \in {"PC_WAIT_ARREADY", "L_WAIT_ARREADY"}
         /\ (arb_state = "IDLE" /\ pc_valid(cm)) \/ arb_state = "PC_WAIT_ARREADY" => m.araddr = pc
         /\ arb_state = "L_WAIT_ARREADY" => m.araddr = mem_addr
         /\ m.rready <=> arb_state \in {"PC_DATA", "L_DATA"}
         /\ m.awvalid <=> arb_state \in {"S_WAIT_BOTH", "S_WAIT_AWREADY"}
         /\ m.awvalid => m.awaddr = mem_addr
         /\ m.wvalid <=> arb_state \in {"S_WAIT_BOTH", "S_WAIT_WREADY"}
         /\ m.wvalid => m.wdata = mem_write_data /\ m.wstrb = mem_write_strobe
         /\ m.bready <=> arb_state = "S_RESP"
  BY DEF MasterOutputs, ArbiterInputs, M_AXI_ARVALID, FetchAddressPhase, M_AXI_ARADDR,
         M_AXI_RREADY, M_AXI_AWVALID, M_AXI_AWADDR, M_AXI_WVALID, M_AXI_WDATA, M_AXI_WSTRB,
         M_AXI_BREADY

\* A clock edge accepts an address when the slave is ready for it, and else keeps it offered.
LEMMA ArbiterAddress ==
  ASSUME ArbTypeOK, NEW core, NEW axi \in AxiType, ArbTick(core, axi)
  PROVE  /\ (arb_state = "IDLE" /\ core.pc_valid) \/ arb_state = "PC_WAIT_ARREADY" =>
              arb_state' = IF axi.arready THEN "PC_DATA" ELSE "PC_WAIT_ARREADY"
         /\ arb_state = "L_WAIT_ARREADY" =>
              arb_state' = IF axi.arready THEN "L_DATA" ELSE "L_WAIT_ARREADY"
  <1> USE DEF ArbTypeOK, ArbStates, Goto, NoResult, AxiType
  <1>1. CASE FetchRequest(core, axi) \/ LoadStoreAccept(core)
    BY <1>1 DEF FetchRequest, LoadStoreAccept, load_store_ready
  <1>2. CASE FetchAddress(axi) \/ FetchData(axi) \/ LoadAddress(axi) \/ LoadDone(axi)
    BY <1>2 DEF FetchAddress, FetchData, LoadAddress, LoadDone
  <1>3. CASE StoreIssue(axi) \/ StoreAddress(axi) \/ StoreWriteData(axi) \/ StoreAcknowledge(axi)
    BY <1>3 DEF StoreIssue, StoreAddress, StoreWriteData, StoreAcknowledge
  <1>4. CASE ArbWait(core, axi)
    BY <1>4 DEF ArbWait
  <1> QED
    BY <1>1, <1>2, <1>3, <1>4 DEF ArbTick

\* The slave's read channel: an address it was ready for is kept with the read.
LEMMA SlaveReads ==
  ASSUME SlaveTypeOK, NEW m, NEW axi, SlaveTick(m, axi), axi.arready \in BOOLEAN,
         axi.arready => m.arvalid /\ s_read.phase = "none"
  PROVE  /\ axi.arready =>
              s_read'.phase # "none" /\ s_read'.addr = m.araddr
              /\ (s_read'.phase = "valid" => s_read'.data = ReadCell(mem, m.araddr))
         /\ ~axi.arready /\ s_read'.phase # "none" =>
              s_read.phase # "none" /\ s_read'.addr = s_read.addr
              /\ (s_read'.phase = "valid" =>
                    s_read'.data = IF s_read.phase = "valid" THEN s_read.data
                                   ELSE ReadCell(mem, s_read.addr))
  <1>1. /\ ReadAccept(m, axi) \/ ReadServe \/ ReadFinish(m) \/ ReadIdle(m, axi)
        /\ s_read.phase \in {"none", "busy", "valid"} /\ DOMAIN s_read = {"phase", "addr", "data"}
    BY DEF SlaveTick, SlaveTypeOK
  <1>2. CASE ReadAccept(m, axi)
    BY <1>1, <1>2 DEF ReadAccept
  <1>3. CASE ReadServe
    BY <1>1, <1>3 DEF ReadServe
  <1>4. CASE ReadFinish(m)
    BY <1>1, <1>4 DEF ReadFinish, NoRead
  <1>5. CASE ReadIdle(m, axi)
    BY <1>1, <1>5 DEF ReadIdle
  <1> QED
    BY <1>1, <1>2, <1>3, <1>4, <1>5

-----------------------------------------------------------------------------
\* What the bus carries while the control module is quiet.
BusIsDriven ==
  /\ Bus.arvalid <=> \/ arb_state = "IDLE" /\ pc_valid(IdlePins)
                     \/ arb_state \in {"PC_WAIT_ARREADY", "L_WAIT_ARREADY"}
  /\ arb_state \in {"IDLE", "PC_WAIT_ARREADY"} /\ Bus.arvalid => Bus.araddr = pc
  /\ arb_state = "L_WAIT_ARREADY" => Bus.araddr = mem_addr
  /\ Bus.awvalid <=> arb_state \in {"S_WAIT_BOTH", "S_WAIT_AWREADY"}
  /\ Bus.awvalid => Bus.awaddr = mem_addr
  /\ Bus.wvalid <=> arb_state \in {"S_WAIT_BOTH", "S_WAIT_WREADY"}
  /\ Bus.wvalid => Bus.wdata = mem_write_data /\ Bus.wstrb = mem_write_strobe

LEMMA BusDriven == BusIsDriven
  BY BusOffers DEF BusIsDriven, Bus

LEMMA OffersKept ==
  ASSUME Placed, Tick
  PROVE  OffersAreKept
  <1>1. PICK cm \in CmPins : \E axi \in SlaveOutputs(MasterOutputs(cm)) : Clock(cm, axi)
    BY DEF Tick
  <1>2. PICK axi \in SlaveOutputs(MasterOutputs(cm)) : Clock(cm, axi)
    BY <1>1
  <1> DEFINE m == MasterOutputs(cm)
             core == ArbiterInputs(cm)
  <1>3. BusIsDriven /\ BusIsDriven'
    BY BusDriven, PTL
  <1>4. /\ CpuTick(cm, axi) /\ SlaveTick(m, axi) /\ ArbTick(core, axi)
        /\ axi \in AxiType /\ cm.pc_stall = pc_stall /\ IdlePins.pc_stall = pc_stall
        /\ core.pc_valid = pc_valid(cm) /\ pc_valid(cm) = pc_valid(IdlePins)
        /\ TypeOK /\ ArbTypeOK /\ SlaveTypeOK
    BY <1>2, CmPinsType, AxiPinsType
    DEF Clock, CpuTick, IdlePins, ArbiterInputs, pc_valid, Placed, TypeOK, CpuTypeOK
  <1>5. /\ axi.arready => m.arvalid /\ s_read.phase = "none"
        /\ axi.arready \in BOOLEAN /\ axi.awready \in BOOLEAN /\ axi.wready \in BOOLEAN
        /\ m.awvalid <=> Bus.awvalid
        /\ m.wvalid <=> Bus.wvalid
    BY <1>3, <1>4, AxiPinsType, BusOffers DEF BusIsDriven, AxiType, Placed
  <1> HIDE DEF m, core
  <1>6. ASSUME ~Halted, ~NextPcTransaction, instruction_latched' = instruction_latched
        PROVE  /\ pc' = pc /\ mem_addr' = mem_addr
               /\ mem_write_data' = mem_write_data /\ mem_write_strobe' = mem_write_strobe
    BY <1>4, <1>6, DatapathKept, WiresKept
  <1>7. arb_state # "PC_DATA" => instruction_latched' = instruction_latched
    BY <1>4 DEF CpuTick, DecodeStage, LatchInstruction, PassDecoded, instruction_valid
  <1>8. ASSUME Bus.arvalid, s_read.phase = "none", s_read'.phase = "none"
        PROVE  Bus'.arvalid /\ Bus'.araddr = Bus.araddr
    <2>1. ~axi.arready
      BY <1>4, <1>5, <1>8, SlaveReads
    <2>2. CASE arb_state = "L_WAIT_ARREADY"
      <3>1. AtLoad /\ ~NextPcTransaction /\ ~Halted
        BY <2>2, PlaceFlags DEF Placed
      <3>2. arb_state' = "L_WAIT_ARREADY"
        BY <1>4, <2>1, <2>2, ArbiterAddress
      <3> QED
        BY <1>3, <1>6, <1>7, <2>2, <3>1, <3>2 DEF BusIsDriven
    <2>3. CASE arb_state # "L_WAIT_ARREADY"
      <3>1. (arb_state = "IDLE" /\ core.pc_valid) \/ arb_state = "PC_WAIT_ARREADY"
        BY <1>3, <1>4, <1>8, <2>3 DEF BusIsDriven
      <3>2. ~Halted /\ ~NextPcTransaction
        BY <1>4, <3>1, PlaceFlags
        DEF Placed, Halted, AtPc, pc_valid, NextPcTransaction, next_pc_ready, AtNextPc, Flags
      <3>3. arb_state' = "PC_WAIT_ARREADY"
        BY <1>4, <2>1, <3>1, ArbiterAddress
      <3> QED
        BY <1>3, <1>6, <1>7, <1>8, <3>1, <3>2, <3>3 DEF BusIsDriven
    <2> QED
      BY <2>2, <2>3
  <1>9. ASSUME arb_state \in {"S_WAIT_BOTH", "S_WAIT_AWREADY", "S_WAIT_WREADY"}
        PROVE  /\ mem_addr' = mem_addr /\ mem_write_data' = mem_write_data
               /\ mem_write_strobe' = mem_write_strobe
               /\ s_aw'.taken <=> s_aw.taken \/ (m.awvalid /\ axi.awready)
               /\ s_w'.taken <=> s_w.taken \/ (m.wvalid /\ axi.wready)
    <2>1. ~NextPcTransaction /\ ~Halted
      BY <1>9, PlaceFlags DEF Placed
    <2>2. WriteHandshake(m, axi) /\ s_aw.taken \in BOOLEAN /\ s_w.taken \in BOOLEAN
      BY <1>4, <1>9, MemoryKept DEF Placed, SlaveTypeOK
    <2> QED
      BY <1>6, <1>7, <1>9, <2>1, <2>2 DEF WriteHandshake
  <1>10. ASSUME Bus.awvalid, ~s_aw.taken, ~s_aw'.taken
         PROVE  Bus'.awvalid /\ Bus'.awaddr = Bus.awaddr
    <2>1. arb_state \in {"S_WAIT_BOTH", "S_WAIT_AWREADY"} /\ ~axi.awready
      BY <1>3, <1>5, <1>9, <1>10 DEF BusIsDriven
    <2>2. arb_state' \in {"S_WAIT_BOTH", "S_WAIT_AWREADY"}
      BY <1>4, <1>5, <2>1, ArbiterWrites
    <2> QED
      BY <1>3, <1>9, <1>10, <2>1, <2>2 DEF BusIsDriven
  <1>11. ASSUME Bus.wvalid, ~s_w.taken, ~s_w'.taken
         PROVE  Bus'.wvalid /\ Bus'.wdata = Bus.wdata /\ Bus'.wstrb = Bus.wstrb
    <2>1. arb_state \in {"S_WAIT_BOTH", "S_WAIT_WREADY"} /\ ~axi.wready
      BY <1>3, <1>5, <1>9, <1>11 DEF BusIsDriven
    <2>2. arb_state' \in {"S_WAIT_BOTH", "S_WAIT_WREADY"}
      BY <1>4, <1>5, <2>1, ArbiterWrites
    <2> QED
      BY <1>3, <1>9, <1>11, <2>1, <2>2 DEF BusIsDriven
  <1> QED
    BY <1>8, <1>10, <1>11 DEF OffersAreKept

\* The core obeys the stability rule of AXI whatever the stall pin, the control module and
\* the slave do: what is offered and not taken is offered again, unchanged.
THEOREM OffersStable == Spec => AxiStable
  <1>1. Placed /\ [Next]_vars => [Reset \/ OffersAreKept]_vars
    BY OffersKept DEF Next
  <1> QED
    BY <1>1, TypeCorrect, SingleInstruction, TransactionsAgree, PTL DEF Spec, AxiStable, Placed

\* A stop takes effect at the next instruction boundary and holds.
StopIsKept ==
  pc_stall /\ pc_stall' =>
    /\ NextPcTransaction => Halted'
    /\ Halted => Halted' /\ ~Bus.arvalid
                 /\ UNCHANGED <<mem, arb_state, decoded_valid, next_pc_valid>>

LEMMA StopKept ==
  ASSUME Placed, Next
  PROVE  StopIsKept
  <1> SUFFICES ASSUME pc_stall, pc_stall'
               PROVE  /\ NextPcTransaction => Halted'
                      /\ Halted => Halted' /\ ~Bus.arvalid
                                   /\ UNCHANGED <<mem, arb_state, decoded_valid, next_pc_valid>>
    BY DEF StopIsKept
  <1>1. Halted => ~Bus.arvalid
    <2>1. IdlePins.pc_stall = pc_stall
      BY DEF IdlePins
    <2> QED
      BY <2>1, BusDriven, PlaceFlags DEF BusIsDriven, Halted, pc_valid, Placed
  <1>2. CASE Tick
    <2>1. PICK cm \in CmPins : \E axi \in SlaveOutputs(MasterOutputs(cm)) : Clock(cm, axi)
      BY <1>2 DEF Tick
    <2>2. PICK axi \in SlaveOutputs(MasterOutputs(cm)) : Clock(cm, axi)
      BY <2>1
    <2>3. Halted => Halted' /\ UNCHANGED <<mem, arb_state, decoded_valid, next_pc_valid>>
      BY <2>2, HaltedEdge DEF Halted
    <2>4. NextPcTransaction => Halted'
      BY <2>2 DEF Clock, CpuTick, PcGenerator, TakeNextPc, ReleasePc, KeepPc, Halted
    <2> QED
      BY <1>1, <2>3, <2>4
  <1>3. CASE Reset
    <2>1. Halted' /\ mem' = mem
      BY <1>3 DEF Reset, CpuReset, SlaveReset, Halted
    <2>2. ASSUME Halted PROVE UNCHANGED <<arb_state, decoded_valid, next_pc_valid>>
      <3>1. arb_state = "IDLE" /\ decoded_valid = FALSE /\ next_pc_valid = FALSE
        BY <2>2, PlaceFlags DEF Placed, AtPc, Flags
      <3> QED
        BY <1>3, <3>1 DEF Reset, CpuReset, ArbReset
    <2> QED
      BY <1>1, <2>1, <2>2
  <1> QED
    BY <1>2, <1>3 DEF Next

\* With the stall up the instruction in flight is the last one, and a halted core stays
\* halted, off the bus, and changes neither memory nor control state, at every edge.
THEOREM StopsHold == Spec => StopHolds
  <1>1. Placed /\ [Next]_vars => [StopIsKept]_vars
    BY StopKept
  <1> QED
    BY <1>1, TypeCorrect, SingleInstruction, TransactionsAgree, PTL
    DEF Spec, StopHolds, StopIsKept, Placed

-----------------------------------------------------------------------------
(***************************************************************************)
(* Nothing that is latched goes stale.  One lemma per place again.         *)
(***************************************************************************)
\* What every clock edge satisfies, whatever the place.
LEMMA Edge ==
  ASSUME Placed, NEW cm \in CmPins, NEW axi \in SlaveOutputs(MasterOutputs(cm)), Clock(cm, axi)
  PROVE  /\ TypeOK /\ ReleasedIsPending /\ ArbTypeOK /\ SlaveTypeOK
         /\ CpuTick(cm, axi) /\ cm \in CmType /\ axi \in AxiType /\ cm.pc_stall = pc_stall
         /\ ArbTick(ArbiterInputs(cm), axi) /\ SlaveTick(MasterOutputs(cm), axi)
         /\ axi.rvalid = (s_read.phase = "valid") /\ axi.rdata = s_read.data /\ axi.bvalid = s_b
         /\ axi.arready => MasterOutputs(cm).arvalid /\ s_read.phase = "none"
  <1>1. axi.rdata = s_read.data
    BY DEF SlaveOutputs
  <1> QED
    BY <1>1, CmPinsType, AxiPinsType
    DEF Placed, OneInFlight, ReleasedIsPending, Clock, CpuTick, TypeOK, CpuTypeOK

\* An instruction in flight keeps the datapath until its NEXT_PC transaction, and the memory
\* outside the commit of its store.
LEMMA EdgeInFlight ==
  ASSUME Placed, NEW cm \in CmPins, NEW axi \in SlaveOutputs(MasterOutputs(cm)), Clock(cm, axi),
         ~AtPc, ~AtNextPc
  PROVE  /\ pc' = pc /\ registers' = registers
         /\ ~AtFetch =>
              UNCHANGED <<instruction_latched, decoded, rs1, rs2, alu_result, mem_addr,
                          mem_write_strobe, mem_write_data, pc_plus_4>>
         /\ AtFetch /\ axi.rvalid => instruction_latched' = s_read.data
         /\ ~AtStore \/ s_b => UNCHANGED mem /\ WriteHandshake(MasterOutputs(cm), axi)
         /\ ~AtStore => s_b = FALSE /\ s_b' = FALSE
         /\ ~MasterOutputs(cm).arvalid \/ arb_state = "L_WAIT_ARREADY"
         /\ ~Halted
  <1>1. /\ TypeOK /\ OneInFlight /\ NoOrphanTransaction /\ SlaveTypeOK /\ CpuTick(cm, axi)
        /\ SlaveTick(MasterOutputs(cm), axi) /\ axi.rdata = s_read.data /\ axi \in AxiType
    BY Edge DEF Placed
  <1>2. /\ ~Halted /\ ~NextPcTransaction
        /\ AtFetch <=> arb_state = "PC_DATA"
        /\ ~AtStore => arb_state # "S_RESP"
        /\ pc_release_pending = FALSE
    BY <1>1, PlaceFlags DEF TypeOK, CpuTypeOK
  <1>3. pc' = pc /\ registers' = registers
    BY <1>1, <1>2, DatapathKept
  <1>4. /\ ~AtFetch => instruction_latched' = instruction_latched
        /\ AtFetch /\ axi.rvalid => instruction_latched' = s_read.data
    BY <1>1, <1>2 DEF CpuTick, DecodeStage, LatchInstruction, PassDecoded, instruction_valid,
                      AxiType
  <1>5. ~AtFetch => UNCHANGED <<instruction_latched, decoded, rs1, rs2, alu_result, mem_addr,
                                mem_write_strobe, mem_write_data, pc_plus_4>>
    BY <1>3, <1>4, WiresKept
  <1>6. ~AtStore \/ s_b => UNCHANGED mem /\ WriteHandshake(MasterOutputs(cm), axi)
    BY <1>1, <1>2, MemoryKept
  <1>7. ~AtStore => s_b = FALSE /\ s_b' = FALSE
    BY <1>1, <1>2, <1>6 DEF WriteHandshake, NoOrphanTransaction, SlaveTypeOK
  <1>8. ~MasterOutputs(cm).arvalid \/ arb_state = "L_WAIT_ARREADY"
    BY <1>2, <1>1, PlaceFlags, BusOffers DEF pc_valid
  <1> QED
    BY <1>2, <1>3, <1>4, <1>5, <1>6, <1>7, <1>8

\* The arbiter's part of a load.
LEMMA ArbiterLoad ==
  ASSUME ArbTypeOK, NEW core, NEW axi \in AxiType, ArbTick(core, axi)
  PROVE  /\ arb_state = "L_DATA" /\ axi.rvalid => arb_state' = "IDLE" /\ load_data' = axi.rdata
         /\ arb_state = "L_DATA" /\ ~axi.rvalid => arb_state' = "L_DATA"
         /\ arb_state = "IDLE" => /\ arb_state' # "L_DATA" /\ load_data' = load_data
                                  /\ load_store_result_valid' = FALSE
         /\ arb_state = "S_RESP" /\ axi.bvalid => load_store_result_valid' = TRUE
  <1> USE DEF ArbTypeOK, ArbStates, Goto, NoResult, AxiType
  <1>1. CASE FetchRequest(core, axi) \/ LoadStoreAccept(core)
    BY <1>1 DEF FetchRequest, LoadStoreAccept, load_store_ready
  <1>2. CASE FetchAddress(axi) \/ FetchData(axi) \/ LoadAddress(axi) \/ LoadDone(axi)
    BY <1>2 DEF FetchAddress, FetchData, LoadAddress, LoadDone
  <1>3. CASE StoreIssue(axi) \/ StoreAddress(axi) \/ StoreWriteData(axi) \/ StoreAcknowledge(axi)
    BY <1>3 DEF StoreIssue, StoreAddress, StoreWriteData, StoreAcknowledge
  <1>4. CASE ArbWait(core, axi)
    BY <1>4 DEF ArbWait
  <1> QED
    BY <1>1, <1>2, <1>3, <1>4 DEF ArbTick

\* With no instruction in flight there is nothing to go stale.
NothingLatched ==
  /\ ~AtFetch /\ ~AtDecode /\ ~AtLoad /\ ~AtStore /\ ~AtResult /\ ~AtNextPc
  /\ arb_state \in {"IDLE", "PC_WAIT_ARREADY"} /\ ~s_aw.taken /\ ~s_w.taken

LEMMA NothingIsStale == NothingLatched => InFlightIsCurrent
  BY DEF NothingLatched, InFlightIsCurrent, FetchIsCurrent, DecodedIsCurrent, LoadIsCurrent,
         StoreIsCurrent

LEMMA PendingLatchesNothing == Placed /\ AtPc => NothingLatched
  BY DEF Placed, NoOrphanTransaction, NothingLatched, AtPc, AtFetch, AtDecode, AtLoad, AtStore,
         AtResult, AtNextPc, Flags

LEMMA CurrentAtPc ==
  ASSUME Placed, Placed', NEW cm \in CmPins, NEW axi \in SlaveOutputs(MasterOutputs(cm)),
         Clock(cm, axi), AtPc
  PROVE  InFlightIsCurrent'
  <1> DEFINE m == MasterOutputs(cm)
  <1>0. /\ TypeOK /\ ReleasedIsPending /\ ArbTypeOK /\ SlaveTypeOK /\ CpuTick(cm, axi)
        /\ axi \in AxiType /\ SlaveTick(m, axi)
        /\ axi.arready => m.arvalid /\ s_read.phase = "none"
        /\ cm.pc_stall = pc_stall /\ cm \in CmType
    BY Edge
  <1>1. (AtPc \/ AtFetch)'
    BY <1>0, StepAtPc
  <1>2. CASE AtPc'
    <2>1. NothingLatched'
      BY <1>2, PendingLatchesNothing, PTL
    <2> QED
      BY <2>1, NothingIsStale, PTL
  <1>3. CASE AtFetch'
    <2>1. /\ pc_release_pending' = FALSE /\ pc_release_pending = TRUE /\ next_pc_valid = FALSE
          /\ arb_state' = "PC_DATA" /\ s_read'.phase # "none" /\ s_read.phase = "none"
          /\ arb_state \in {"IDLE", "PC_WAIT_ARREADY"}
      BY <1>3 DEF AtPc, AtFetch, Flags, Placed, NoOrphanTransaction
    <2>2. PcTransaction(cm, axi)
      BY <1>0, <2>1 DEF CpuTick, PcGenerator, TakeNextPc, ReleasePc, KeepPc, NextPcTransaction
    <2>3. ~Halted /\ pc_valid(cm)
      BY <1>0, <2>2 DEF PcTransaction, pc_valid, Halted
    <2>4. pc' = pc /\ mem' = mem
      BY <1>0, <2>1, <2>3, DatapathKept, MemoryKept DEF NextPcTransaction, Placed
    <2>5. axi.arready /\ m.araddr = pc
      BY <2>1, <2>2, <2>3, BusOffers DEF PcTransaction, pc_ready
    <2>6. s_read'.addr = pc /\ (s_read'.phase = "valid" => s_read'.data = ReadCell(mem, pc))
      <3> HIDE DEF m
      <3> QED
        BY <1>0, <2>5, SlaveReads DEF AxiType
    <2>7. /\ ~AtDecode' /\ ~AtLoad' /\ ~AtStore' /\ ~AtResult' /\ ~AtNextPc'
          /\ ~s_aw'.taken /\ ~s_w'.taken
      BY <1>3, <2>1 DEF AtFetch, AtDecode, AtLoad, AtStore, AtResult, AtNextPc, Flags, Placed,
                        NoOrphanTransaction
    <2> QED
      BY <2>1, <2>4, <2>6, <2>7 DEF InFlightIsCurrent, FetchIsCurrent, DecodedIsCurrent,
                                    LoadIsCurrent, StoreIsCurrent
  <1> QED
    BY <1>1, <1>2, <1>3

LEMMA CurrentAtFetch ==
  ASSUME Placed, Placed', InFlightIsCurrent, NEW cm \in CmPins,
         NEW axi \in SlaveOutputs(MasterOutputs(cm)), Clock(cm, axi), AtFetch
  PROVE  InFlightIsCurrent'
  <1> DEFINE m == MasterOutputs(cm)
  <1>1. /\ TypeOK /\ ReleasedIsPending /\ SlaveTypeOK /\ CpuTick(cm, axi) /\ SlaveTick(m, axi)
        /\ axi \in AxiType /\ cm \in CmType /\ axi.rvalid = (s_read.phase = "valid")
        /\ axi.arready => m.arvalid /\ s_read.phase = "none"
    BY Edge
  <1>2. (AtFetch \/ AtDecode)'
    BY <1>1, StepAtFetch
  <1>3. s_read.phase # "none" /\ ~axi.arready /\ ~AtPc /\ ~AtNextPc /\ ~AtStore
    BY <1>1 DEF AtFetch, AtPc, AtNextPc, AtStore, Flags, Placed, NoOrphanTransaction
  <1>4. UNCHANGED <<pc, mem>> /\ (axi.rvalid => instruction_latched' = s_read.data)
    BY <1>3, EdgeInFlight
  <1>5. ~AtLoad' /\ ~AtStore' /\ ~AtResult' /\ ~AtNextPc' /\ ~s_aw'.taken /\ ~s_w'.taken
        /\ arb_state' # "L_DATA"
    BY <1>2 DEF AtFetch, AtDecode, AtLoad, AtStore, AtResult, AtNextPc, Flags, Placed,
                NoOrphanTransaction
  <1>6. s_read.addr = pc /\ (s_read.phase = "valid" => s_read.data = ReadCell(mem, pc))
    BY DEF InFlightIsCurrent, FetchIsCurrent
  <1> HIDE DEF m
  <1>7. CASE AtFetch'
    <2>1. s_read'.phase # "none" /\ ~AtDecode'
      BY <1>7 DEF AtFetch, AtDecode, Flags, Placed, NoOrphanTransaction
    <2>2. s_read'.addr = pc /\ (s_read'.phase = "valid" => s_read'.data = ReadCell(mem, pc))
      BY <1>1, <1>3, <1>6, <2>1, SlaveReads DEF AxiType
    <2> QED
      BY <1>4, <1>5, <2>1, <2>2 DEF InFlightIsCurrent, FetchIsCurrent, DecodedIsCurrent,
                                    LoadIsCurrent, StoreIsCurrent
  <1>8. CASE AtDecode'
    <2>1. axi.rvalid /\ ~AtFetch'
      BY <1>1, <1>8 DEF AtFetch, AtDecode, Flags, CpuTick, DecodeStage, LatchInstruction,
                        PassDecoded, instruction_valid
    <2>2. instruction_latched' = ReadCell(mem, pc)
      BY <1>1, <1>4, <1>6, <2>1
    <2> QED
      BY <1>4, <1>5, <2>1, <2>2 DEF InFlightIsCurrent, FetchIsCurrent, DecodedIsCurrent,
                                    LoadIsCurrent, StoreIsCurrent
  <1> QED
    BY <1>2, <1>7, <1>8

LEMMA CurrentAtDecode ==
  ASSUME Placed, Placed', InFlightIsCurrent, NEW cm \in CmPins,
         NEW axi \in SlaveOutputs(MasterOutputs(cm)), Clock(cm, axi), AtDecode
  PROVE  InFlightIsCurrent'
  <1>1. /\ TypeOK /\ ReleasedIsPending /\ CpuTick(cm, axi) /\ axi \in AxiType /\ cm \in CmType
        /\ ArbTypeOK /\ ArbTick(ArbiterInputs(cm), axi)
    BY Edge
  <1>2. (AtLoad \/ AtStore \/ AtResult)'
    BY <1>1, StepAtDecode
  <1>3. /\ ~AtPc /\ ~AtNextPc /\ ~AtStore /\ ~AtFetch /\ arb_state = "IDLE"
        /\ load_store_result_valid = FALSE /\ next_pc_valid = FALSE
    BY DEF AtDecode, AtFetch, AtPc, AtNextPc, AtStore, Flags, Placed, TypeOK, CpuTypeOK, ArbTypeOK
  <1>4. UNCHANGED <<pc, mem, instruction_latched, decoded>> /\ s_b = FALSE
    BY <1>3, EdgeInFlight
  <1>5. /\ load_store_result_valid' = FALSE /\ arb_state' # "L_DATA"
        /\ arb_state' \notin {"S_WAIT_AWREADY", "S_WAIT_WREADY", "S_RESP"}
    BY <1>1, <1>3, ArbiterLoad, ArbiterWrites
  <1>6. instruction_latched' = ReadCell(mem', pc')
    BY <1>3, <1>4 DEF InFlightIsCurrent, DecodedIsCurrent, StoreDone
  <1>7. ~AtFetch' /\ ~AtNextPc' /\ ~s_aw'.taken /\ ~s_w'.taken /\ (AtResult' => ~decoded'.use_mem)
    BY <1>2, <1>5 DEF AtFetch, AtLoad, AtStore, AtResult, AtNextPc, Flags, Placed,
                      NoOrphanTransaction
  <1> QED
    BY <1>5, <1>6, <1>7 DEF InFlightIsCurrent, FetchIsCurrent, DecodedIsCurrent, LoadIsCurrent,
                            StoreIsCurrent

LEMMA CurrentAtLoad ==
  ASSUME Placed, Placed', InFlightIsCurrent, NEW cm \in CmPins,
         NEW axi \in SlaveOutputs(MasterOutputs(cm)), Clock(cm, axi), AtLoad
  PROVE  InFlightIsCurrent'
  <1> DEFINE m == MasterOutputs(cm)
  <1>1. /\ TypeOK /\ ReleasedIsPending /\ SlaveTypeOK /\ CpuTick(cm, axi) /\ SlaveTick(m, axi)
        /\ axi \in AxiType /\ cm \in CmType /\ axi.rvalid = (s_read.phase = "valid")
        /\ axi.rdata = s_read.data
        /\ axi.arready => m.arvalid /\ s_read.phase = "none"
        /\ ArbTypeOK /\ ArbTick(ArbiterInputs(cm), axi)
    BY Edge
  <1>2. (AtLoad \/ AtResult)'
    BY <1>1, StepAtLoad
  <1>3. /\ ~AtPc /\ ~AtNextPc /\ ~AtStore /\ ~AtFetch
        /\ load_store_result_valid = FALSE /\ next_pc_valid = FALSE
        /\ decoded.use_mem /\ ~decoded.mem_is_write
        /\ arb_state \in {"L_WAIT_ARREADY", "L_DATA"}
    BY DEF AtLoad, AtFetch, AtPc, AtNextPc, AtStore, Flags, Placed, TypeOK, CpuTypeOK, ArbTypeOK
  <1>4. UNCHANGED <<pc, mem, instruction_latched, decoded, mem_addr>> /\ s_b = FALSE
    BY <1>3, EdgeInFlight
  <1>5. instruction_latched' = ReadCell(mem', pc')
    BY <1>3, <1>4 DEF InFlightIsCurrent, DecodedIsCurrent, StoreDone
  <1>6. ~AtFetch' /\ ~AtNextPc' /\ ~s_aw'.taken /\ ~s_w'.taken
    BY <1>2 DEF AtFetch, AtLoad, AtResult, AtNextPc, Flags, Placed, NoOrphanTransaction
  <1>7. ASSUME arb_state' = "L_DATA"
        PROVE  /\ s_read'.addr = mem_addr
               /\ s_read'.phase = "valid" => s_read'.data = ReadCell(mem, mem_addr)
    <2>1. s_read'.phase # "none"
      BY <1>7 DEF Placed, NoOrphanTransaction
    <2>2. CASE axi.arready
      <3>1. arb_state = "L_WAIT_ARREADY" /\ m.araddr = mem_addr
        BY <1>1, <1>3, <2>2, BusOffers DEF Placed, NoOrphanTransaction
      <3> HIDE DEF m
      <3> QED
        BY <1>1, <2>2, <3>1, SlaveReads DEF AxiType
    <2>3. CASE ~axi.arready
      <3>1. arb_state = "L_DATA"
        BY <1>1, <1>3, <1>7, <2>3, ArbiterAddress
      <3>2. s_read.addr = mem_addr /\ (s_read.phase = "valid" => s_read.data = ReadCell(mem, mem_addr))
        BY <3>1 DEF InFlightIsCurrent, LoadIsCurrent
      <3> HIDE DEF m
      <3> QED
        BY <1>1, <2>1, <2>3, <3>2, SlaveReads DEF AxiType
    <2> QED
      BY <1>1, <2>2, <2>3 DEF AxiType
  <1>8. AtResult' => load_data' = ReadCell(mem, mem_addr)
    <2>1. AtResult' => arb_state' = "IDLE"
      BY DEF AtResult
    <2>2. arb_state' = "IDLE" => arb_state = "L_DATA" /\ axi.rvalid
      BY <1>1, <1>3, ArbiterAddress, ArbiterLoad
    <2>3. arb_state = "L_DATA" /\ axi.rvalid => load_data' = ReadCell(mem, mem_addr)
      BY <1>1, ArbiterLoad DEF InFlightIsCurrent, LoadIsCurrent
    <2> QED
      BY <2>1, <2>2, <2>3
  <1> QED
    BY <1>4, <1>5, <1>6, <1>7, <1>8 DEF InFlightIsCurrent, FetchIsCurrent, DecodedIsCurrent,
                                        LoadIsCurrent, StoreIsCurrent

\* The slave keeps the halves of a store as they were offered until it commits them.
LEMMA SlaveHalves ==
  ASSUME NEW m, NEW axi, SlaveTick(m, axi)
  PROVE  /\ s_aw'.taken => \/ s_aw' = s_aw
                           \/ m.awvalid /\ s_aw'.addr = m.awaddr
         /\ s_w'.taken => \/ s_w' = s_w
                          \/ m.wvalid /\ s_w'.data = m.wdata /\ s_w'.strobe = m.wstrb
  BY DEF SlaveTick, WriteCommit, WriteHandshake, NoAw, NoW

\* A store whose effect is not there yet was not committed by this edge either.
LEMMA StoreNotDone ==
  ASSUME Placed, NEW cm \in CmPins, NEW axi \in SlaveOutputs(MasterOutputs(cm)), Clock(cm, axi),
         AtStore, ~StoreDone'
  PROVE  ~StoreDone /\ mem' = mem
  <1>1. /\ TypeOK /\ ReleasedIsPending /\ axi \in AxiType /\ cm \in CmType
        /\ axi.bvalid = s_b /\ SlaveTick(MasterOutputs(cm), axi) /\ CpuTick(cm, axi)
        /\ ArbTypeOK /\ ArbTick(ArbiterInputs(cm), axi)
    BY Edge
  <1>2. /\ ~AtPc /\ ~AtNextPc /\ ~AtFetch
        /\ load_store_result_valid = FALSE /\ next_pc_valid = FALSE
        /\ decoded.use_mem /\ decoded.mem_is_write
    BY DEF AtStore, AtFetch, AtPc, AtNextPc, Flags, Placed, TypeOK, CpuTypeOK, ArbTypeOK
  <1>3. decoded' = decoded
    BY <1>2, EdgeInFlight
  <1>4. ~s_b
    <2>1. s_b => arb_state = "S_RESP"
      BY DEF Placed, NoOrphanTransaction
    <2>2. s_b => load_store_result_valid' = TRUE
      BY <1>1, <2>1, ArbiterLoad
    <2> QED
      BY <1>2, <1>3, <2>2 DEF StoreDone
  <1>5. ~WriteCommit
    BY DEF WriteCommit, StoreDone
  <1> QED
    BY <1>1, <1>2, <1>4, <1>5 DEF StoreDone, SlaveTick, WriteHandshake

LEMMA CurrentAtStore ==
  ASSUME Placed, Placed', InFlightIsCurrent, NEW cm \in CmPins,
         NEW axi \in SlaveOutputs(MasterOutputs(cm)), Clock(cm, axi), AtStore
  PROVE  InFlightIsCurrent'
  <1> DEFINE m == MasterOutputs(cm)
  <1>1. /\ TypeOK /\ ReleasedIsPending /\ axi \in AxiType /\ cm \in CmType
        /\ SlaveTick(m, axi) /\ CpuTick(cm, axi)
    BY Edge
  <1>2. (AtStore \/ AtResult)'
    BY <1>1, StepAtStore
  <1>3. /\ ~AtPc /\ ~AtNextPc /\ ~AtFetch /\ decoded.use_mem /\ decoded.mem_is_write
    BY DEF AtStore, AtFetch, AtPc, AtNextPc, Flags, Placed, TypeOK, CpuTypeOK, ArbTypeOK
  <1>4. UNCHANGED <<pc, instruction_latched, decoded, mem_addr, mem_write_data, mem_write_strobe>>
    BY <1>3, EdgeInFlight
  <1>5. ~StoreDone' => instruction_latched' = ReadCell(mem', pc')
    BY <1>4, StoreNotDone DEF InFlightIsCurrent, DecodedIsCurrent
  <1>6. ~AtFetch' /\ ~AtNextPc' /\ arb_state' # "L_DATA"
    BY <1>2 DEF AtFetch, AtStore, AtResult, AtNextPc, Flags
  <1>7. /\ m.awvalid => m.awaddr = mem_addr
        /\ m.wvalid => m.wdata = mem_write_data /\ m.wstrb = mem_write_strobe
    BY BusOffers
  <1>8. /\ s_aw.taken => s_aw.addr = mem_addr
        /\ s_w.taken => s_w.data = mem_write_data /\ s_w.strobe = mem_write_strobe
    BY DEF InFlightIsCurrent, StoreIsCurrent
  <1> HIDE DEF m
  <1>9. /\ s_aw'.taken => s_aw'.addr = mem_addr
        /\ s_w'.taken => s_w'.data = mem_write_data /\ s_w'.strobe = mem_write_strobe
    BY <1>1, <1>7, <1>8, SlaveHalves
  <1> QED
    BY <1>3, <1>4, <1>5, <1>6, <1>9 DEF InFlightIsCurrent, FetchIsCurrent, DecodedIsCurrent,
                                        LoadIsCurrent, StoreIsCurrent

LEMMA CurrentAtResult ==
  ASSUME Placed, Placed', InFlightIsCurrent, NEW cm \in CmPins,
         NEW axi \in SlaveOutputs(MasterOutputs(cm)), Clock(cm, axi), AtResult
  PROVE  InFlightIsCurrent' /\ (StoreDone <=> StoreDone')
  <1>1. /\ TypeOK /\ ReleasedIsPending /\ CpuTick(cm, axi) /\ axi \in AxiType /\ cm \in CmType
        /\ ArbTypeOK /\ ArbTick(ArbiterInputs(cm), axi)
    BY Edge
  <1>2. AtNextPc'
    BY <1>1, StepAtResult
  <1>3. /\ ~AtPc /\ ~AtNextPc /\ ~AtStore /\ ~AtFetch /\ arb_state = "IDLE"
        /\ load_store_result_valid = decoded.use_mem /\ next_pc_valid = FALSE
    BY DEF AtResult, AtFetch, AtPc, AtNextPc, AtStore, Flags, Placed, TypeOK, CpuTypeOK, ArbTypeOK
  <1>4. UNCHANGED <<pc, mem, instruction_latched, decoded, mem_addr>> /\ s_b = FALSE /\ s_b' = FALSE
    BY <1>3, EdgeInFlight
  <1>5. load_data' = load_data
    BY <1>1, <1>3, ArbiterLoad
  <1>6. /\ ~AtFetch' /\ ~AtResult' /\ ~s_aw'.taken /\ ~s_w'.taken
        /\ arb_state' # "L_DATA" /\ next_pc_valid'
    BY <1>2 DEF AtFetch, AtResult, AtNextPc, Flags, Placed, NoOrphanTransaction
  <1>7. StoreDone <=> StoreDone'
    BY <1>3, <1>4, <1>6 DEF StoreDone
  <1> QED
    BY <1>4, <1>5, <1>6, <1>7 DEF InFlightIsCurrent, FetchIsCurrent, DecodedIsCurrent,
                                  LoadIsCurrent, StoreIsCurrent

LEMMA CurrentAtNextPc ==
  ASSUME Placed, Placed', NEW cm \in CmPins, NEW axi \in SlaveOutputs(MasterOutputs(cm)),
         Clock(cm, axi), AtNextPc
  PROVE  InFlightIsCurrent'
  <1>1. AtPc'
    BY Edge, StepAtNextPc
  <1>2. NothingLatched'
    BY <1>1, PendingLatchesNothing, PTL
  <1> QED
    BY <1>2, NothingIsStale, PTL

\* Nothing the instruction in flight has latched goes stale, for every datapath, program,
\* memory latency and stall waveform.
THEOREM CurrentInFlight == Spec => []InFlightIsCurrent
  <1>1. Init => InFlightIsCurrent
    <2> SUFFICES ASSUME Init PROVE NothingLatched
      BY NothingIsStale
    <2> QED
      BY DEF Init, CpuInit, ArbInit, SlaveIdle, NoAw, NoW, NothingLatched, AtFetch, AtDecode,
             AtLoad, AtStore, AtResult, AtNextPc, Flags
  <1>2. Placed /\ Placed' /\ InFlightIsCurrent /\ [Next]_vars => InFlightIsCurrent'
    <2> SUFFICES ASSUME Placed, Placed', InFlightIsCurrent, [Next]_vars PROVE InFlightIsCurrent'
      OBVIOUS
    <2>1. CASE Tick
      <3>1. PICK cm \in CmPins : \E axi \in SlaveOutputs(MasterOutputs(cm)) : Clock(cm, axi)
        BY <2>1 DEF Tick
      <3>2. PICK axi \in SlaveOutputs(MasterOutputs(cm)) : Clock(cm, axi)
        BY <3>1
      <3>3. AtPc \/ AtFetch \/ AtDecode \/ AtLoad \/ AtStore \/ AtResult \/ AtNextPc
        BY DEF Placed, OneInFlight
      <3> QED
        BY <3>2, <3>3, CurrentAtPc, CurrentAtFetch, CurrentAtDecode, CurrentAtLoad,
           CurrentAtStore, CurrentAtResult, CurrentAtNextPc
    <2>2. CASE Reset
      <3>1. NothingLatched'
        BY <2>2 DEF Reset, CpuReset, ArbReset, SlaveReset, NoAw, NoW, NothingLatched, AtFetch,
                    AtDecode, AtLoad, AtStore, AtResult, AtNextPc, Flags
      <3> QED
        BY <3>1, NothingIsStale, PTL
    <2>3. CASE UNCHANGED vars
      <3>1. UNCHANGED <<mem, pc, registers, instruction_latched, load_data, s_read, s_aw, s_w,
                        s_b, pc_release_pending, decoded_valid, alu_result_valid,
                        load_store_result_valid, next_pc_valid, arb_state, pc_stall_released>>
        BY <2>3 DEF vars, cpu_vars, arb_vars, rf_vars, slave_vars
      <3>2. UNCHANGED <<decoded, mem_addr, mem_write_data, mem_write_strobe>>
        BY <3>1, WiresKept
      <3> QED
        BY <3>1, <3>2 DEF InFlightIsCurrent, FetchIsCurrent, DecodedIsCurrent, LoadIsCurrent,
             StoreIsCurrent, StoreDone, AtFetch, AtDecode, AtLoad, AtStore, AtResult, AtNextPc,
             Flags
    <2> QED
      BY <2>1, <2>2, <2>3 DEF Next
  <1>3. Spec => []Placed
    BY TypeCorrect, SingleInstruction, TransactionsAgree, PTL DEF Placed
  <1> QED
    BY <1>1, <1>2, <1>3, PTL DEF Spec

-----------------------------------------------------------------------------
(***************************************************************************)
(* The refinement of DebugCore, step by step.                              *)
(***************************************************************************)
\* What the decoder promises about loads and stores.
LEMMA MemoryInstruction ==
  ASSUME TypeOK, decoded.use_mem
  PROVE  /\ alu_result = Add(rs1, decoded.imm) /\ mem_addr_aux = Add(rs1, decoded.imm)
         /\ ~decoded.is_jump
         /\ decoded.mem_is_write => ~decoded.do_write_back
  <1>1. instruction_latched \in Word /\ rs1 \in Word
    BY WireTypes DEF TypeOK, CpuTypeOK
  <1>2. /\ ~decoded.alu_src1_is_pc /\ decoded.alu_src2_is_imm
        /\ \A a \in Word : AluResult(decoded.alu_ctrl, a, decoded.imm)
                             = (a + decoded.imm) % WORD_SIZE
        /\ ~decoded.is_jump
        /\ decoded.mem_is_write => ~decoded.do_write_back
    BY <1>1, MemoryInstructionAssumption DEF decoded
  <1> QED
    BY <1>1, <1>2 DEF alu_result, mem_addr_aux, Add

LEMMA AlignTwice == \A a \in Word : WordAlign(WordAlign(a)) = WordAlign(a)
  <1> SUFFICES ASSUME NEW a \in Word PROVE WordAlign(WordAlign(a)) = WordAlign(a)
    OBVIOUS
  <1>1. a \in Int /\ (a - (a % 4)) % 4 = 0
    BY SizesAssumption DEF Word
  <1> QED
    BY <1>1 DEF WordAlign

\* The abstract machine sees the wires of the core.
LEMMA AbstractWires ==
  ASSUME Placed, InFlightIsCurrent, AtDecode \/ AtLoad \/ AtStore \/ AtResult \/ AtNextPc,
         ~StoreDone
  PROVE  /\ DebugPc = pc
         /\ Debug!Instr = decoded /\ Debug!Op1 = rs1 /\ Debug!Op2 = rs2
         /\ Debug!Alu = alu_result
         /\ Debug!Addr = Add(rs1, decoded.imm)
         /\ decoded.use_mem =>
              /\ Debug!Lanes = mem_write_strobe
              /\ StoreData(Debug!Instr.func3, Debug!Addr % 4, Debug!Op2) = mem_write_data
  <1>1. DebugPc = pc
    BY DEF DebugPc
  <1>2. Debug!Instr = decoded
    <2>1. instruction_latched = ReadCell(mem, pc)
      BY DEF InFlightIsCurrent, DecodedIsCurrent
    <2> QED
      BY <1>1, <2>1 DEF Debug!Instr, Debug!ReadCell, Debug!WordAlign, ReadCell, WordAlign, decoded
  <1>3. Debug!Op1 = rs1 /\ Debug!Op2 = rs2
    BY <1>2 DEF Debug!Op1, Debug!Op2, Debug!ReadRegister, ReadRegister, rs1, rs2
  <1>4. Debug!Alu = alu_result
    BY <1>1, <1>2, <1>3 DEF Debug!Alu, alu_result
  <1>5. Debug!Addr = Add(rs1, decoded.imm)
    BY <1>2, <1>3 DEF Debug!Addr, Debug!Add, Add
  <1>6. decoded.use_mem =>
          /\ Debug!Lanes = mem_write_strobe
          /\ StoreData(Debug!Instr.func3, Debug!Addr % 4, Debug!Op2) = mem_write_data
    BY <1>2, <1>3, <1>5, MemoryInstruction
    DEF Debug!Lanes, mem_write_strobe, mem_write_data, Placed
  <1> QED
    BY <1>1, <1>2, <1>3, <1>4, <1>5, <1>6

\* A step that changes the stall pin only starts the machine, asks it to stop, or is no step.
LEMMA StallStep ==
  ASSUME UNCHANGED <<DebugPc, registers, mem>>,
         DebugMode \in {"run", "halted", "finish"}, DebugMode' \in {"run", "halted", "finish"},
         DebugMode = "halted" => DebugMode' # "finish",
         DebugMode = "finish" => DebugMode' # "halted"
  PROVE  [Debug!Next]_(Debug!dvars)
  BY DEF Debug!Next, Debug!Start, Debug!Stop, Debug!dvars

LEMMA MapHalted ==
  ASSUME Placed, Placed', Halted, NEW cm \in CmPins,
         NEW axi \in SlaveOutputs(MasterOutputs(cm)), Clock(cm, axi)
  PROVE  Debug!Next
  <1>1. /\ pc_release_pending' /\ ~pc_stall_released' /\ UNCHANGED mem
        /\ ~StoreDone /\ ~StoreDone'
    BY HaltedEdge
  <1>2. /\ DebugPc = pc /\ DebugPc' = pc' /\ DebugMode = "halted"
        /\ DebugMode' \in {"halted", "run"}
    BY <1>1 DEF DebugPc, DebugMode, Halted
  <1>3. pc' \in Word /\ CpuTick(cm, axi) /\ cm \in CmType
    BY Edge DEF Placed, TypeOK, CpuTypeOK
  <1>4. ~NextPcTransaction /\ ~PcTransaction(cm, axi)
    BY Edge DEF NextPcTransaction, next_pc_ready, PcTransaction, pc_valid, Halted
  <1>5. PICK v : RegisterFileTick([enable |-> decoded.do_write_back /\ NextPcTransaction,
                                   addr |-> decoded.rd, data |-> v], cm)
    BY <1>3 DEF CpuTick
  <1>6. CASE registers' = registers
    <2>1. Debug!SetPc
      BY <1>1, <1>2, <1>3, <1>6 DEF Debug!SetPc, Debug!Word, Word
    <2> QED
      BY <2>1 DEF Debug!Next
  <1>7. CASE registers' # registers
    <2>1. \/ /\ ExtraWrites(cm)
             /\ registers' = [registers EXCEPT ![cm.regfile_addr] = cm.regfile_write_data]
          \/ /\ FaultWrites(cm)
             /\ registers' = [registers EXCEPT ![cm.fault_addr] =
                                InjectedValue(cm.fault_mode, @, cm.fault_mask)]
      BY <1>4, <1>5, <1>7 DEF RegisterFileTick, WriteBack, ExtraWrite, FaultWrite, NoWrite,
                              CoreWrites
    <2>2. \E r \in DOMAIN registers : \A i \in DOMAIN registers \ {r} : registers'[i] = registers[i]
      BY <1>3, <2>1 DEF ExtraWrites, FaultWrites, CmType, Placed, TypeOK, CpuTypeOK, RfTypeOK
    <2>3. cm.pc_we = FALSE
      <3>1. cm.regfile_we \/ cm.fault_enable
        BY <2>1 DEF ExtraWrites, FaultWrites
      <3> QED
        BY <3>1, OneWrite
    <2>4. pc' = pc
      BY <1>3, <1>4, <2>3 DEF CpuTick, PcGenerator, TakeNextPc, ReleasePc, KeepPc
    <2>5. Debug!SetRegister
      BY <1>1, <1>2, <2>2, <2>4 DEF Debug!SetRegister
    <2> QED
      BY <2>5 DEF Debug!Next
  <1> QED
    BY <1>6, <1>7

LEMMA MapAtPc ==
  ASSUME Placed, Placed', AtPc, ~Halted, NEW cm \in CmPins,
         NEW axi \in SlaveOutputs(MasterOutputs(cm)), Clock(cm, axi)
  PROVE  [Debug!Next]_(Debug!dvars)
  <1>1. /\ TypeOK /\ ReleasedIsPending /\ CpuTick(cm, axi) /\ SlaveTick(MasterOutputs(cm), axi)
        /\ cm \in CmType /\ axi \in AxiType
    BY Edge
  <1>2. /\ arb_state \in {"IDLE", "PC_WAIT_ARREADY"} /\ next_pc_valid = FALSE
        /\ load_store_result_valid = FALSE /\ pc_release_pending = TRUE
        /\ pc_stall => pc_stall_released = TRUE
    BY DEF AtPc, Flags, Halted, Placed, TypeOK, CpuTypeOK, ArbTypeOK
  <1>3. pc' = pc /\ registers' = registers
    BY <1>1, <1>2, DatapathKept DEF NextPcTransaction
  <1>4. mem' = mem /\ s_b = FALSE /\ s_b' = FALSE
    BY <1>1, <1>2, MemoryKept DEF Placed, NoOrphanTransaction, WriteHandshake, SlaveTypeOK, TypeOK
  <1>5. (AtPc \/ AtFetch)'
    BY <1>1, StepAtPc
  <1>6. ~StoreDone /\ ~StoreDone'
    <2>1. next_pc_valid' = FALSE /\ load_store_result_valid' = FALSE
      BY <1>5 DEF AtPc, AtFetch, Flags, Placed, TypeOK, CpuTypeOK, ArbTypeOK
    <2> QED
      BY <1>2, <1>4, <2>1 DEF StoreDone
  <1>7. pc_stall => ~Halted'
    BY <1>1, <1>2 DEF CpuTick, PcGenerator, TakeNextPc, ReleasePc, KeepPc, NextPcTransaction, Halted
  <1>8. /\ DebugPc' = DebugPc
        /\ DebugMode = IF pc_stall THEN "finish" ELSE "run"
        /\ DebugMode' \in {"run", "finish", "halted"}
        /\ pc_stall => DebugMode' \in {"run", "finish"}
    BY <1>3, <1>6, <1>7 DEF DebugPc, DebugMode
  <1> QED
    BY <1>3, <1>4, <1>8, StallStep

\* While an instruction is on its way only the stall pin is seen of it, except when its store
\* is committed.
LEMMA MapInFlight ==
  ASSUME Placed, NEW cm \in CmPins,
         NEW axi \in SlaveOutputs(MasterOutputs(cm)), Clock(cm, axi),
         ~AtPc, ~AtNextPc, mem' = mem, StoreDone' <=> StoreDone,
         AtFetch => ~StoreDone, pc_release_pending' = FALSE
  PROVE  [Debug!Next]_(Debug!dvars)
  <1>1. /\ pc' = pc /\ registers' = registers /\ ~Halted
        /\ ~AtFetch => pc_plus_4' = pc_plus_4
    BY EdgeInFlight
  <1>2. DebugPc' = DebugPc
    BY <1>1 DEF DebugPc
  <1>3. ~Halted'
    BY DEF Halted
  <1>4. /\ DebugMode \in {"run", "halted", "finish"} /\ DebugMode' \in {"run", "halted", "finish"}
        /\ DebugMode = "halted" => DebugMode' # "finish"
        /\ DebugMode = "finish" => DebugMode' # "halted"
    BY <1>1, <1>3 DEF DebugMode
  <1> QED
    BY <1>1, <1>2, <1>4, StallStep

\* The commit of a store is its execution.
LEMMA MapCommit ==
  ASSUME Placed, Placed', InFlightIsCurrent, NEW cm \in CmPins,
         NEW axi \in SlaveOutputs(MasterOutputs(cm)), Clock(cm, axi), AtStore, WriteCommit
  PROVE  Debug!Next
  <1>1. TypeOK /\ TypeOK'
    BY DEF Placed
  <1>2. /\ ~AtPc /\ ~AtNextPc /\ ~AtFetch /\ decoded.use_mem /\ decoded.mem_is_write
        /\ load_store_result_valid = FALSE /\ next_pc_valid = FALSE /\ ~s_b
    BY DEF AtStore, AtFetch, AtPc, AtNextPc, Flags, Placed, TypeOK, CpuTypeOK, ArbTypeOK, WriteCommit
  <1>3. /\ pc' = pc /\ registers' = registers /\ decoded' = decoded /\ pc_plus_4' = pc_plus_4
        /\ ~Halted
    BY <1>2, EdgeInFlight
  <1>4. ~StoreDone /\ StoreDone'
    BY <1>2 DEF StoreDone, WriteCommit
  <1>5. /\ DebugPc = pc /\ DebugPc' = Add(pc, PC_STEP)
        /\ DebugMode \in {"run", "finish"} /\ DebugMode' \in {"run", "halted"}
    BY <1>3, <1>4 DEF DebugPc, DebugMode, pc_plus_4
  <1>6. /\ Debug!Instr = decoded /\ Debug!Addr = Add(rs1, decoded.imm)
        /\ Debug!Lanes = mem_write_strobe
        /\ StoreData(Debug!Instr.func3, Debug!Addr % 4, Debug!Op2) = mem_write_data
    BY <1>2, <1>4, AbstractWires
  <1>7. ~decoded.is_jump /\ mem_addr = WordAlign(Add(rs1, decoded.imm))
    BY <1>1, <1>2, MemoryInstruction DEF mem_addr
  <1>8. mem' = WriteCell(mem, mem_addr, mem_write_strobe, mem_write_data)
    BY DEF WriteCommit, InFlightIsCurrent, StoreIsCurrent
  <1>9. WordAlign(mem_addr) = WordAlign(Add(rs1, decoded.imm))
    <2>1. Add(rs1, decoded.imm) \in Word
      BY <1>1, WireTypes, AddType DEF Decoded, TypeOK
    <2> QED
      BY <1>7, <2>1, AlignTwice
  <1>10. mem' = Debug!WriteCell(mem, Debug!Addr, Debug!Lanes,
                  StoreData(Debug!Instr.func3, Debug!Addr % 4, Debug!Op2))
    BY <1>6, <1>8, <1>9 DEF Debug!WriteCell, Debug!WordAlign, WriteCell, WordAlign
  <1>11. Debug!FallThrough
    BY <1>5 DEF Debug!FallThrough, Debug!Add, Add
  <1>12. Debug!Store
    BY <1>2, <1>3, <1>6, <1>7, <1>10, <1>11 DEF Debug!Store
  <1> QED
    BY <1>5, <1>12 DEF Debug!Next, Debug!Execute

\* A NEXT_PC transaction: where the core goes and what it writes back.
LEMMA NextPcEdge ==
  ASSUME Placed, Placed', NEW cm \in CmPins,
         NEW axi \in SlaveOutputs(MasterOutputs(cm)), Clock(cm, axi), AtNextPc
  PROVE  /\ pc' = next_pc /\ mem' = mem /\ ~StoreDone' /\ ~Halted
         /\ DebugPc' = next_pc /\ DebugMode' \in {"run", "halted"}
         /\ \E v \in write_back_values :
              registers' = IF decoded.do_write_back /\ decoded.rd # 0
                           THEN [registers EXCEPT ![decoded.rd] = v] ELSE registers
  <1>1. /\ TypeOK /\ ReleasedIsPending /\ CpuTick(cm, axi) /\ SlaveTick(MasterOutputs(cm), axi)
        /\ cm \in CmType /\ axi \in AxiType
    BY Edge
  <1>2. AtPc' /\ pc' = next_pc /\ pc_stall_released' = FALSE
    BY <1>1, StepAtNextPc
  <1>3. NextPcTransaction /\ ~Halted /\ arb_state = "IDLE" /\ TypeOK
    BY PlaceFlags DEF Placed, AtNextPc, AtPc, Flags
  <1>4. mem' = mem /\ s_b' = FALSE
    BY <1>1, <1>3, MemoryKept DEF Placed, NoOrphanTransaction, WriteHandshake, SlaveTypeOK, TypeOK
  <1>5. ~StoreDone' /\ pc_release_pending' = TRUE
    BY <1>2, <1>4 DEF AtPc, Flags, StoreDone, Placed, TypeOK, CpuTypeOK, ArbTypeOK
  <1>6. cm.regfile_we = FALSE /\ cm.fault_enable = FALSE
    BY <1>3, QuietPins
  <1>7. PICK v \in write_back_values :
          RegisterFileTick([enable |-> decoded.do_write_back /\ NextPcTransaction,
                            addr |-> decoded.rd, data |-> v], cm)
    BY <1>1, <1>3 DEF CpuTick
  <1>8. registers' = IF decoded.do_write_back /\ decoded.rd # 0
                     THEN [registers EXCEPT ![decoded.rd] = v] ELSE registers
    BY <1>3, <1>6, <1>7 DEF RegisterFileTick, WriteBack, ExtraWrite, FaultWrite, NoWrite,
                            CoreWrites, ExtraWrites, FaultWrites
  <1> QED
    BY <1>2, <1>3, <1>4, <1>5, <1>7, <1>8 DEF DebugPc, DebugMode, Halted

\* The NEXT_PC transaction of a store that is committed is a stutter, up to the stall pin.
LEMMA MapStoreNextPc ==
  ASSUME Placed, Placed', NEW cm \in CmPins,
         NEW axi \in SlaveOutputs(MasterOutputs(cm)), Clock(cm, axi), AtNextPc, StoreDone
  PROVE  [Debug!Next]_(Debug!dvars)
  <1>1. decoded.use_mem /\ decoded.mem_is_write /\ TypeOK
    BY DEF StoreDone, AtNextPc, Placed, NoOrphanTransaction
  <1>2. ~decoded.is_jump /\ ~decoded.do_write_back
    BY <1>1, MemoryInstruction
  <1>3. /\ mem' = mem /\ registers' = registers
        /\ DebugPc' = next_pc /\ DebugMode' \in {"run", "halted"}
    BY <1>2, NextPcEdge
  <1>4. next_pc = pc_plus_4 /\ DebugPc = pc_plus_4
    BY <1>1, <1>2 DEF next_pc, DebugPc
  <1>5. DebugMode \in {"run", "halted"}
    BY DEF DebugMode
  <1> QED
    BY <1>3, <1>4, <1>5, StallStep

\* Every other NEXT_PC transaction executes its instruction.
LEMMA MapNextPc ==
  ASSUME Placed, Placed', InFlightIsCurrent, NEW cm \in CmPins,
         NEW axi \in SlaveOutputs(MasterOutputs(cm)), Clock(cm, axi), AtNextPc, ~StoreDone
  PROVE  Debug!Next
  <1>1. TypeOK /\ decoded \in Decoded
    BY WireTypes DEF Placed, TypeOK
  <1>2. /\ mem' = mem /\ ~Halted /\ DebugPc' = next_pc /\ DebugMode' \in {"run", "halted"}
        /\ DebugMode \in {"run", "finish"}
    BY NextPcEdge DEF DebugMode
  <1>3. PICK v \in write_back_values :
          registers' = IF decoded.do_write_back /\ decoded.rd # 0
                       THEN [registers EXCEPT ![decoded.rd] = v] ELSE registers
    BY NextPcEdge
  <1>4. /\ DebugPc = pc /\ Debug!Instr = decoded /\ Debug!Op1 = rs1 /\ Debug!Alu = alu_result
        /\ Debug!Addr = Add(rs1, decoded.imm)
        /\ decoded.use_mem => Debug!Lanes = mem_write_strobe
    BY AbstractWires
  <1>5. Debug!SetRd(v)
    BY <1>3, <1>4 DEF Debug!SetRd
  <1>6. CASE decoded.is_jump
    <2>1. v = Debug!Add(DebugPc, PC_STEP)
      BY <1>4, <1>6 DEF write_back_values, pc_plus_4, Debug!Add, Add
    <2>2. DebugPc' = Debug!Add(IF Debug!Instr.is_jalr THEN Debug!Op1 ELSE DebugPc, Debug!Instr.imm)
      BY <1>2, <1>4, <1>6 DEF next_pc, Debug!Add, Add
    <2>3. Debug!Jump
      BY <1>2, <1>4, <1>5, <1>6, <2>1, <2>2 DEF Debug!Jump
    <2> QED
      BY <1>2, <2>3 DEF Debug!Next, Debug!Execute
  <1>7. CASE ~decoded.is_jump /\ decoded.use_mem
    <2>1. ~decoded.mem_is_write
      BY <1>7 DEF StoreDone, AtNextPc, Flags
    <2>2. load_data = ReadCell(mem, mem_addr) /\ mem_addr = Add(rs1, decoded.imm)
      BY <1>1, <1>7, <2>1, MemoryInstruction DEF InFlightIsCurrent, LoadIsCurrent, mem_addr
    <2>3. v \in LoadValues(Debug!Instr.func3, Debug!Lanes, Debug!ReadCell(mem, Debug!Addr))
      BY <1>4, <1>7, <2>2 DEF write_back_values, Debug!ReadCell, Debug!WordAlign, ReadCell, WordAlign
    <2>4. Debug!FallThrough
      BY <1>2, <1>4, <1>7 DEF next_pc, pc_plus_4, Debug!FallThrough, Debug!Add, Add
    <2>5. Debug!Load
      BY <1>2, <1>4, <1>5, <1>7, <2>1, <2>3, <2>4 DEF Debug!Load
    <2> QED
      BY <1>2, <2>5 DEF Debug!Next, Debug!Execute
  <1>8. CASE ~decoded.is_jump /\ ~decoded.use_mem
    <2>1. v = Debug!Alu
      BY <1>4, <1>8 DEF write_back_values
    <2>2. IF Debug!Instr.is_branch /\ Debug!Alu % 2 = 1
          THEN DebugPc' = Debug!Add(DebugPc, Debug!Instr.imm) ELSE Debug!FallThrough
      BY <1>2, <1>4, <1>8 DEF next_pc, take_branch, pc_plus_4, Debug!FallThrough, Debug!Add, Add
    <2>3. Debug!Compute
      BY <1>2, <1>4, <1>5, <1>8, <2>1, <2>2 DEF Debug!Compute
    <2> QED
      BY <1>2, <2>3 DEF Debug!Next, Debug!Execute
  <1> QED
    BY <1>6, <1>7, <1>8

\* Every clock edge is a step of DebugCore or none, wherever the instruction is.
LEMMA MapTick ==
  ASSUME Placed, Placed', InFlightIsCurrent, Tick
  PROVE  [Debug!Next]_(Debug!dvars)
  <1>1. PICK cm \in CmPins : \E axi \in SlaveOutputs(MasterOutputs(cm)) : Clock(cm, axi)
    BY DEF Tick
  <1>2. PICK axi \in SlaveOutputs(MasterOutputs(cm)) : Clock(cm, axi)
    BY <1>1
  <1>3. /\ TypeOK /\ ReleasedIsPending /\ CpuTick(cm, axi) /\ cm \in CmType /\ axi \in AxiType
        /\ SlaveTick(MasterOutputs(cm), axi)
    BY <1>2, Edge
  <1>4. CASE AtPc
    BY <1>2, <1>4, MapHalted, MapAtPc
  <1>5. CASE AtFetch
    <2>1. (AtFetch \/ AtDecode)' /\ ~AtPc /\ ~AtNextPc /\ ~AtStore
      BY <1>3, <1>5, StepAtFetch DEF AtFetch, AtPc, AtNextPc, AtStore, Flags
    <2>2. mem' = mem /\ s_b = FALSE /\ s_b' = FALSE
      BY <1>2, <2>1, EdgeInFlight
    <2>3. ~StoreDone /\ ~StoreDone' /\ pc_release_pending' = FALSE
      BY <1>5, <2>1, <2>2 DEF AtFetch, AtDecode, Flags, StoreDone, Placed, TypeOK, CpuTypeOK, ArbTypeOK
    <2> QED
      BY <1>2, <2>1, <2>2, <2>3, MapInFlight
  <1>6. CASE AtDecode
    <2>1. /\ (AtLoad \/ AtStore \/ AtResult)' /\ ~AtPc /\ ~AtNextPc /\ ~AtStore /\ ~AtFetch
          /\ arb_state = "IDLE"
      BY <1>3, <1>6, StepAtDecode DEF AtDecode, AtFetch, AtPc, AtNextPc, AtStore, Flags
    <2>2. mem' = mem /\ s_b = FALSE /\ s_b' = FALSE
      BY <1>2, <2>1, EdgeInFlight
    <2>3. load_store_result_valid' = FALSE
      BY <1>3, <2>1, ArbiterLoad DEF CpuTick, TypeOK, CpuTypeOK
    <2>4. ~StoreDone /\ ~StoreDone' /\ pc_release_pending' = FALSE
      BY <1>6, <2>1, <2>2, <2>3 DEF AtDecode, AtLoad, AtStore, AtResult, Flags, StoreDone, Placed,
                                    TypeOK, CpuTypeOK, ArbTypeOK
    <2> QED
      BY <1>2, <2>1, <2>2, <2>4, MapInFlight
  <1>7. CASE AtLoad
    <2>1. /\ (AtLoad \/ AtResult)' /\ ~AtPc /\ ~AtNextPc /\ ~AtStore /\ ~AtFetch
          /\ ~decoded.mem_is_write
      BY <1>3, <1>7, StepAtLoad DEF AtLoad, AtFetch, AtPc, AtNextPc, AtStore, Flags
    <2>2. mem' = mem /\ s_b = FALSE /\ s_b' = FALSE /\ decoded' = decoded
      BY <1>2, <2>1, EdgeInFlight
    <2>3. ~StoreDone /\ ~StoreDone' /\ pc_release_pending' = FALSE
      BY <2>1, <2>2 DEF AtLoad, AtResult, Flags, StoreDone, Placed, TypeOK, CpuTypeOK
    <2> QED
      BY <1>2, <2>1, <2>2, <2>3, MapInFlight
  <1>8. CASE AtStore
    <2>1. /\ (AtStore \/ AtResult)' /\ ~AtPc /\ ~AtNextPc /\ ~AtFetch
          /\ decoded.use_mem /\ decoded.mem_is_write
      BY <1>3, <1>8, StepAtStore DEF AtStore, AtFetch, AtPc, AtNextPc, Flags
    <2>2. CASE WriteCommit
      BY <1>2, <1>8, <2>2, MapCommit
    <2>3. CASE ~WriteCommit
      <3>1. mem' = mem /\ pc_release_pending' = FALSE /\ WriteHandshake(MasterOutputs(cm), axi)
        BY <1>3, <2>1, <2>3 DEF SlaveTick, WriteHandshake, AtStore, AtResult, Flags, Placed,
                                TypeOK, CpuTypeOK
      <3>2. StoreDone => StoreDone'
        BY <1>2, <1>8, StoreNotDone
      <3>3. StoreDone' => StoreDone
        <4>1. s_b' => s_b
          BY <3>1 DEF WriteHandshake
        <4>2. load_store_result_valid' => s_b
          BY <1>2, <1>3, <1>8, Edge DEF AtStore, CpuTick, ArbTick, FetchRequest, LoadStoreAccept,
             FetchAddress, FetchData, LoadAddress, LoadDone, StoreIssue, StoreAddress,
             StoreWriteData, StoreAcknowledge, ArbWait, load_store_ready, Goto, NoResult
        <4>3. next_pc_valid' = FALSE
          BY <2>1 DEF AtStore, AtResult, Flags, Placed, TypeOK, CpuTypeOK
        <4> QED
          BY <4>1, <4>2, <4>3 DEF StoreDone
      <3> QED
        BY <1>2, <2>1, <3>1, <3>2, <3>3, MapInFlight
    <2> QED
      BY <2>2, <2>3
  <1>9. CASE AtResult
    <2>1. AtNextPc' /\ ~AtPc /\ ~AtNextPc /\ ~AtStore /\ ~AtFetch
      BY <1>3, <1>9, StepAtResult DEF AtResult, AtFetch, AtPc, AtNextPc, AtStore, Flags
    <2>2. mem' = mem /\ pc_release_pending' = FALSE
      BY <1>2, <2>1, EdgeInFlight DEF AtNextPc, Flags, Placed, TypeOK, CpuTypeOK
    <2>3. StoreDone' <=> StoreDone
      BY <1>2, <1>9, CurrentAtResult
    <2> QED
      BY <1>2, <2>1, <2>2, <2>3, MapInFlight
  <1>10. CASE AtNextPc
    BY <1>2, <1>10, MapStoreNextPc, MapNextPc
  <1> QED
    BY <1>4, <1>5, <1>6, <1>7, <1>8, <1>9, <1>10 DEF Placed, OneInFlight

\* The clocked core implements the machine that executes whole instructions: with any memory
\* latency, any stall waveform and any writes while it is halted, every edge is an instruction
\* of DebugCore, one of its debug steps, or a stutter.
THEOREM CoreRefines == Spec => ImplementsDebugCore
  <1>1. Init => Debug!Init
    <2> SUFFICES ASSUME Init PROVE Debug!Init
      OBVIOUS
    <2>1. ~StoreDone /\ Halted /\ pc_stall
      BY DEF Init, CpuInit, ArbInit, SlaveIdle, StoreDone, Halted
    <2> QED
      BY <2>1 DEF Init, CpuInit, RfInit, Debug!Init, DebugPc, DebugMode, Debug!RegIdx, RegIdx
  <1>2. Placed /\ Placed' /\ InFlightIsCurrent /\ [Next]_vars => [Debug!Next]_(Debug!dvars)
    <2> SUFFICES ASSUME Placed, Placed', InFlightIsCurrent, [Next]_vars
                 PROVE  [Debug!Next]_(Debug!dvars)
      OBVIOUS
    <2>1. CASE Tick
      BY <2>1, MapTick
    <2>2. CASE Reset
      <3>1. ~StoreDone' /\ Halted' /\ pc_stall'
        BY <2>2 DEF Reset, CpuReset, ArbReset, SlaveReset, StoreDone, Halted
      <3>2. Debug!Reset
        BY <2>2, <3>1 DEF Reset, CpuReset, RfReset, SlaveReset, Debug!Reset, DebugPc, DebugMode,
                          Debug!RegIdx, RegIdx
      <3> QED
        BY <3>2 DEF Debug!Next
    <2>3. CASE UNCHANGED vars
      <3>1. UNCHANGED <<mem, pc, registers, instruction_latched, load_store_result_valid, pc_stall,
                        next_pc_valid, s_b, pc_release_pending, pc_stall_released>>
        BY <2>3 DEF vars, cpu_vars, arb_vars, rf_vars, slave_vars
      <3>2. UNCHANGED <<decoded, pc_plus_4>>
        BY <3>1, WiresKept
      <3> QED
        BY <3>1, <3>2 DEF Debug!dvars, DebugPc, DebugMode, StoreDone, Halted
    <2> QED
      BY <2>1, <2>2, <2>3 DEF Next
  <1>3. Spec => []Placed
    BY TypeCorrect, SingleInstruction, TransactionsAgree, PTL DEF Placed
  <1> QED
    BY <1>1, <1>2, <1>3, CurrentInFlight, PTL DEF Spec, ImplementsDebugCore, Debug!Spec
=============================================================================
