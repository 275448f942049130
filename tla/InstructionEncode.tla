-------------------------- MODULE InstructionEncode --------------------------
(***************************************************************************)
(* tb_utils/rv32i: the constants, instruction words and bus addresses the  *)
(* test benches build.  A 32 bit word is the set of the positions of its   *)
(* ones, so that | is \cup and a shift moves positions; an argument is an  *)
(* integer of 32 bits, negative in two's complement as in Python.          *)
(***************************************************************************)
EXTENDS Integers

OPCODE ==
  [LOAD |-> 3, OP_IMM |-> 19, AUIPC |-> 23, STORE |-> 35, OP |-> 51, LUI |-> 55,
   BRANCH |-> 99, JALR |-> 103, JAL |-> 111]

F3_ADD_SUB == 0
F3_SRL_SRA == 5
F3_JALR    == 0
F3_LOAD    == {0, 1, 2, 4, 5}         \* byte, half word, word; b and h unsigned
F3_STORE   == {0, 1, 2}
F3_BRANCH  == {0, 1, 4, 5, 6, 7}      \* eq, ne, lt, ge, ltu, geu
F7_SUB     == 32
F7_SRA     == 32

\* The case labels of soc_control.v, shifted into place.
SUB_SEL_REGFILE == 2 * 4096
SUB_SEL_FAULT   == 3 * 4096

-----------------------------------------------------------------------------
BitSet(v, b) == IF b = 31 THEN v < 0 ELSE (v \div 2 ^ b) % 2 = 1

\* ((v >> lo) & (2^n - 1)) << at, and v << at for a small v that is not masked.
Field(v, lo, n, at) == {at + b : b \in {c \in 0 .. n - 1 : BitSet(v, lo + c)}}
Shifted(v, at)      == Field(v, 0, 12, at)

to_32b(val) == Field(val, 0, 32, 0)

get_alu_ctrl(is_branch, modifier, funct3) == is_branch * 16 + modifier * 8 + funct3

build_rtype(funct7, rs2, rs1, funct3, rd, opcode) ==
  Shifted(funct7, 25) \cup Shifted(rs2, 20) \cup Shifted(rs1, 15) \cup Shifted(funct3, 12)
  \cup Shifted(rd, 7) \cup Shifted(opcode, 0)

build_itype(imm, rs1, funct3, rd, opcode) ==
  Field(imm, 0, 12, 20) \cup Shifted(rs1, 15) \cup Shifted(funct3, 12) \cup Shifted(rd, 7)
  \cup Shifted(opcode, 0)

build_stype(imm, rs2, rs1, funct3, opcode) ==
  Field(imm, 5, 7, 25) \cup Shifted(rs2, 20) \cup Shifted(rs1, 15) \cup Shifted(funct3, 12)
  \cup Field(imm, 0, 5, 7) \cup Shifted(opcode, 0)

\* Mutant: bit 11 and bit 12 of the offset change places.
build_btype_Swapped(imm, rs2, rs1, funct3, opcode) ==
  Field(imm, 11, 1, 31) \cup Field(imm, 5, 6, 25) \cup Shifted(rs2, 20) \cup Shifted(rs1, 15)
  \cup Shifted(funct3, 12) \cup Field(imm, 1, 4, 8) \cup Field(imm, 12, 1, 7) \cup Shifted(opcode, 0)

build_btype(imm, rs2, rs1, funct3, opcode) ==
  Field(imm, 12, 1, 31) \cup Field(imm, 5, 6, 25) \cup Shifted(rs2, 20) \cup Shifted(rs1, 15)
  \cup Shifted(funct3, 12) \cup Field(imm, 1, 4, 8) \cup Field(imm, 11, 1, 7) \cup Shifted(opcode, 0)

build_utype(imm, rd, opcode) ==
  Field(imm, 12, 20, 12) \cup Shifted(rd, 7) \cup Shifted(opcode, 0)

build_jtype(imm, rd, opcode) ==
  Field(imm, 20, 1, 31) \cup Field(imm, 1, 10, 21) \cup Field(imm, 11, 1, 20)
  \cup Field(imm, 12, 8, 12) \cup Shifted(rd, 7) \cup Shifted(opcode, 0)

-----------------------------------------------------------------------------
\* The fields do not overlap for the registers and modes there are: | adds.
get_reg_addr(reg) == SUB_SEL_REGFILE + reg * 4
get_fault_addr(mode, reg) == SUB_SEL_FAULT + (mode % 4) * 256 + (reg % 32) * 4
=============================================================================
