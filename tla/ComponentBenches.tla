--------------------------- MODULE ComponentBenches ---------------------------
(***************************************************************************)
(* What the component benches send and expect: instruction words for the   *)
(* decoder, control codes for the ALU and addresses for the control        *)
(* module, all built by tb_utils, against the translated Verilog.  The     *)
(* benches try a few cases each; here they try every format with the       *)
(* immediates at its limits, every control code and every address.         *)
(***************************************************************************)
EXTENDS InstructionEncode

D == INSTANCE InstructionDecode
\* soc_control.v while it looks at an address.
Soc(address) == INSTANCE SocControl WITH
  WORD_SIZE <- 65536, NUM_REGISTERS <- 32, latched_address <- address,
  cm_state <- "READ_ISSUE", latched_write_data <- 0, latched_write_strobe <- 0 .. 3,
  op_successful <- FALSE, read_data <- 0, pc_stall <- TRUE, control_read_data <- 0,
  control_address_valid <- FALSE

RegNumbers == {0, 1, 10, 21, 31}

\* The record of fields the decoder is expected to find.
Expected(op, f3, f7, rd, rs1, rs2, imm) ==
  [opcode |-> op, func3 |-> f3, func7 |-> f7, rd |-> rd, rs1 |-> rs1, rs2 |-> rs2, imm |-> imm]

Decodes(word, f) == D!decode(D!fields(word)) = D!decode(f)

Imm12 == {-2048, -2047, -33, -15, -1, 0, 1, 16, 31, 32, 1024, 1029, 2047}
BranchOffsets == {2 * i : i \in Imm12}
JumpOffsets   == BranchOffsets \cup {-1048576, -524288, -4098, 4096, 261120, 524288, 1048574}
Upper         == {4096 * i : i \in {-524288, -1, 0, 1, 74565, 524287}}

RTypeOK ==
  \A f3 \in 0 .. 7, f7 \in {0, F7_SUB} : \A rd, rs1, rs2 \in RegNumbers :
    Decodes(build_rtype(f7, rs2, rs1, f3, rd, OPCODE.OP), Expected("OP", f3, f7, rd, rs1, rs2, 0))

\* func7 of a shift is the upper part of its immediate.
ITypeOK ==
  \A op \in {"OP_IMM", "LOAD", "JALR"}, imm \in Imm12, rd, rs1 \in RegNumbers :
  \A f3 \in CASE op = "OP_IMM" -> 0 .. 7 [] op = "LOAD" -> F3_LOAD [] op = "JALR" -> {F3_JALR} :
    Decodes(build_itype(imm, rs1, f3, rd, OPCODE[op]),
            Expected(op, f3, (imm \div 32) % 128, rd, rs1, 0, imm))

STypeOK ==
  \A f3 \in F3_STORE, imm \in Imm12, rs1, rs2 \in RegNumbers :
    Decodes(build_stype(imm, rs2, rs1, f3, OPCODE.STORE), Expected("STORE", f3, 0, 0, rs1, rs2, imm))

BTypeOK ==
  \A f3 \in F3_BRANCH, imm \in BranchOffsets, rs1, rs2 \in RegNumbers :
    Decodes(build_btype(imm, rs2, rs1, f3, OPCODE.BRANCH), Expected("BRANCH", f3, 0, 0, rs1, rs2, imm))

UTypeOK ==
  \A op \in {"LUI", "AUIPC"}, imm \in Upper, rd \in RegNumbers :
    Decodes(build_utype(imm, rd, OPCODE[op]), Expected(op, 0, 0, rd, 0, 0, imm))

JTypeOK ==
  \A imm \in JumpOffsets, rd \in RegNumbers :
    Decodes(build_jtype(imm, rd, OPCODE.JAL), Expected("JAL", 0, 0, rd, 0, 0, imm))

\* An immediate that is expected as to_32b(imm).
ImmediateOK == \A imm \in Imm12 \cup JumpOffsets \cup Upper : D!Signed(to_32b(imm)) = imm

\* The decoder's code for an instruction is the one the ALU bench builds.
AluCtrlOK ==
  \A f3 \in 0 .. 7 :
    /\ \A m \in {0, 1} :
         get_alu_ctrl(0, m, f3) = D!alu_ctrl(Expected("OP", f3, m * F7_SUB, 0, 0, 0, 0), "R")
    /\ get_alu_ctrl(1, 0, f3) = D!alu_ctrl(Expected("BRANCH", f3, 0, 0, 0, 0, 0), "B")

\* Register and fault addresses select the register and the mode they name.
AddressesOK ==
  \A r \in 0 .. 31 :
    /\ Soc(get_reg_addr(r))!regfile_read_valid
    /\ Soc(get_reg_addr(r))!regfile_sub_addr = r
    /\ \A m \in 0 .. 3 :
         /\ Soc(get_fault_addr(m, r))!fault_mode = m
         /\ Soc(get_fault_addr(m, r))!fault_reg_addr = r
         /\ Soc(get_fault_addr(m, r))!fault_write_valid <=> r # 0

DecoderBench == RTypeOK /\ ITypeOK /\ STypeOK /\ BTypeOK /\ UTypeOK /\ JTypeOK /\ ImmediateOK

\* The benches that use what tb_utils builds; the others pass.
Passes(bench) ==
  CASE bench = "test_instruction_decode" -> DecoderBench
    [] bench = "test_alu"                -> AluCtrlOK
    [] bench = "test_soc_control"        -> AddressesOK
    [] OTHER                             -> TRUE
=============================================================================
