------------------------------ MODULE RiscvCpu ------------------------------
(***************************************************************************)
(* riscv_cpu.v: the unpipelined core.  An instruction passes through the   *)
(* transactions PC - INSTRUCTION - DECODED - EXECUTE_RESULT - NEXT_PC, each*)
(* with its own ready/valid pair; register file and memory arbiter are     *)
(* instantiated inside.                                                    *)
(*                                                                         *)
(* One CpuTick is one clock edge: the conjunction of what every clocked    *)
(* block does at it.  Wires are operators of the current state, of the     *)
(* pins cm of the control module (pc_stall, pc_we, pc_write_data and the   *)
(* register file pins) and of the AXI inputs axi.                          *)
(***************************************************************************)
EXTENDS MemoryArbiter, RegisterFile

VARIABLES
  pc,
  pc_release_pending,    \* the pc has not been handed to the fetch unit yet
  pc_stall_released,     \* the stall was released for the current pc
  decoded_valid,
  instruction_latched,
  alu_result_valid,
  next_pc_valid

cpu_vars == <<pc, pc_release_pending, pc_stall_released, decoded_valid,
              instruction_latched, alu_result_valid, next_pc_valid,
              arb_vars, rf_vars>>

CpuTypeOK ==
  /\ pc \in Word
  /\ pc_release_pending \in BOOLEAN
  /\ pc_stall_released \in BOOLEAN
  /\ decoded_valid \in BOOLEAN
  /\ instruction_latched \in Word
  /\ alu_result_valid \in BOOLEAN
  /\ next_pc_valid \in BOOLEAN
  /\ ArbTypeOK
  /\ RfTypeOK

CpuInit ==
  /\ pc = BOOT_ADDR
  /\ pc_release_pending = TRUE
  /\ pc_stall_released = FALSE
  /\ decoded_valid = FALSE
  /\ instruction_latched = 0
  /\ alu_result_valid = FALSE
  /\ next_pc_valid = FALSE
  /\ ArbInit
  /\ RfInit

CpuReset ==
  /\ pc' = BOOT_ADDR
  /\ pc_release_pending' = TRUE
  /\ pc_stall_released' = FALSE
  /\ decoded_valid' = FALSE
  /\ instruction_latched' = 0
  /\ alu_result_valid' = FALSE
  /\ next_pc_valid' = FALSE
  /\ ArbReset
  /\ RfReset

-----------------------------------------------------------------------------
\* Decode and execute stage.
decoded == Decode(instruction_latched)
rs1     == ReadRegister(registers, decoded.rs1)
rs2     == ReadRegister(registers, decoded.rs2)

alu_result == AluResult(decoded.alu_ctrl,
                        IF decoded.alu_src1_is_pc THEN pc ELSE rs1,
                        IF decoded.alu_src2_is_imm THEN decoded.imm ELSE rs2)
take_branch == alu_result % 2 = 1

\* Memory stage: a store's address is aligned, a load's is not.
mem_addr_aux     == IF decoded.use_mem THEN Add(rs1, decoded.imm) ELSE 0
mem_addr         == IF decoded.mem_is_write THEN WordAlign(mem_addr_aux) ELSE mem_addr_aux
\* Mutant: the strobe ignores the byte offset.
mem_write_strobe_NoOffset == StoreStrobe(decoded.func3, 0)

mem_write_strobe == StoreStrobe(decoded.func3, alu_result % 4)
mem_write_data   == StoreData(decoded.func3, alu_result % 4, rs2)

\* Write back stage.
pc_plus_4 == Add(pc, PC_STEP)

write_back_values ==
  IF decoded.is_jump THEN {pc_plus_4}
  ELSE IF decoded.use_mem THEN LoadValues(decoded.func3, mem_write_strobe, load_data)
  ELSE {alu_result}

next_pc ==
  IF decoded.is_jump THEN Add(IF decoded.is_jalr THEN rs1 ELSE pc, decoded.imm)
  ELSE IF ~decoded.use_mem /\ decoded.is_branch /\ take_branch THEN Add(pc, decoded.imm)
  ELSE pc_plus_4

-----------------------------------------------------------------------------
\* Handshakes.
\* Mutants: the stall does not gate the pc; its release is not remembered.
pc_valid_Ungated(cm) == pc_release_pending
pc_valid_NoLatch(cm) == pc_release_pending /\ ~cm.pc_stall

pc_valid(cm)  == pc_release_pending /\ (~cm.pc_stall \/ pc_stall_released)
next_pc_ready == ~pc_release_pending

ArbiterInputs(cm) ==
  [pc_valid |-> pc_valid(cm), pc |-> pc,
   load_store_valid |-> decoded_valid /\ decoded.use_mem,
   load_store_addr |-> mem_addr, load_store_is_write |-> decoded.mem_is_write,
   store_strobe |-> mem_write_strobe, store_data |-> mem_write_data]

MasterOutputs(cm) ==
  LET core == ArbiterInputs(cm)
  IN [arvalid |-> M_AXI_ARVALID(core), araddr |-> M_AXI_ARADDR(core),
      rready |-> M_AXI_RREADY,
      awvalid |-> M_AXI_AWVALID, awaddr |-> M_AXI_AWADDR(core),
      wvalid |-> M_AXI_WVALID, wdata |-> M_AXI_WDATA(core),
      wstrb |-> M_AXI_WSTRB(core), bready |-> M_AXI_BREADY]

decoded_ready(cm) == IF decoded.use_mem THEN load_store_ready(ArbiterInputs(cm)) ELSE TRUE

NextPcTransaction       == next_pc_valid /\ next_pc_ready
PcTransaction(cm, axi)  == pc_valid(cm) /\ pc_ready(ArbiterInputs(cm), axi)
DecodedTransaction(cm)  == decoded_valid /\ decoded_ready(cm)
ExecuteResultTransaction ==
  IF decoded.use_mem THEN load_store_result_valid ELSE alu_result_valid

\* Eight nibbles of flags and low address bits, cut to the width of a word.
cm_debug_vector(cm, axi) ==
  LET bit(b) == IF b THEN 1 ELSE 0
  IN ((bit(next_pc_valid) * 268435456) + (bit(next_pc_ready) * 16777216)
      + (bit(pc_valid(cm)) * 1048576) + (bit(pc_ready(ArbiterInputs(cm), axi)) * 65536)
      + (bit(pc_release_pending) * 4096) + ((next_pc % 16) * 256) + (pc % 256)) % WORD_SIZE

-----------------------------------------------------------------------------
\* The PC generator.
TakeNextPc ==
  /\ NextPcTransaction
  /\ pc' = next_pc
  /\ pc_release_pending' = TRUE
  /\ pc_stall_released' = FALSE

ReleasePc(cm, axi) ==
  /\ ~NextPcTransaction /\ PcTransaction(cm, axi)
  /\ pc_release_pending' = FALSE
  /\ pc_stall_released' = FALSE
  /\ UNCHANGED pc

\* Mutants: the release is latched whatever the stall; it is never latched; a
\* write to the pc wants the stall low.
KeepPc_LatchAlways(cm, axi) ==
  /\ ~NextPcTransaction /\ ~PcTransaction(cm, axi)
  /\ pc_stall_released' = (pc_stall_released \/ pc_release_pending)
  /\ pc' = IF cm.pc_stall /\ cm.pc_we THEN cm.pc_write_data ELSE pc
  /\ UNCHANGED pc_release_pending

KeepPc_NeverLatch(cm, axi) ==
  /\ ~NextPcTransaction /\ ~PcTransaction(cm, axi)
  /\ pc' = IF cm.pc_stall /\ cm.pc_we THEN cm.pc_write_data ELSE pc
  /\ UNCHANGED <<pc_release_pending, pc_stall_released>>

KeepPc_WriteUnstalled(cm, axi) ==
  /\ ~NextPcTransaction /\ ~PcTransaction(cm, axi)
  /\ pc_stall_released' = (pc_stall_released \/ (pc_release_pending /\ ~cm.pc_stall))
  /\ pc' = IF ~cm.pc_stall /\ cm.pc_we THEN cm.pc_write_data ELSE pc
  /\ UNCHANGED pc_release_pending

\* The control module may replace the pc, and a low stall is remembered.
KeepPc(cm, axi) ==
  /\ ~NextPcTransaction /\ ~PcTransaction(cm, axi)
  /\ pc_stall_released' = (pc_stall_released \/ (pc_release_pending /\ ~cm.pc_stall))
  /\ pc' = IF cm.pc_stall /\ cm.pc_we THEN cm.pc_write_data ELSE pc
  /\ UNCHANGED pc_release_pending

PcGenerator(cm, axi) == TakeNextPc \/ ReleasePc(cm, axi) \/ KeepPc(cm, axi)

\* INSTRUCTION and DECODED transactions.
LatchInstruction(axi) ==
  /\ instruction_valid(axi)
  /\ decoded_valid' = TRUE
  /\ instruction_latched' = axi.rdata

PassDecoded(cm, axi) ==
  /\ ~instruction_valid(axi)
  /\ decoded_valid' = (decoded_valid /\ ~DecodedTransaction(cm))
  /\ UNCHANGED instruction_latched

DecodeStage(cm, axi) == LatchInstruction(axi) \/ PassDecoded(cm, axi)

\* A DECODED transaction starts the ALU path; the EXECUTE_RESULT transaction
\* ends it.
ExecuteStage(cm) ==
  alu_result_valid' =
    IF DecodedTransaction(cm) THEN alu_result_valid \/ ~decoded.use_mem
    ELSE alu_result_valid /\ ~ExecuteResultTransaction

NextPcStage ==
  next_pc_valid' = (ExecuteResultTransaction \/ (next_pc_valid /\ ~NextPcTransaction))

CpuTick(cm, axi) ==
  /\ PcGenerator(cm, axi)
  /\ DecodeStage(cm, axi)
  /\ ExecuteStage(cm)
  /\ NextPcStage
  /\ ArbTick(ArbiterInputs(cm), axi)
  /\ \E v \in IF NextPcTransaction THEN write_back_values ELSE {0} :
       RegisterFileTick([enable |-> decoded.do_write_back /\ NextPcTransaction,
                         addr |-> decoded.rd, data |-> v], cm)
=============================================================================
