-------------------------- MODULE InstructionDecode --------------------------
(***************************************************************************)
(* instruction_decode.v, in two halves: an instruction word (the set of    *)
(* the positions of its ones) is sliced into the record f of its fields,   *)
(* opcode (by the name it has in rv32i_control.vh), func3, func7, rd, rs1, *)
(* rs2, and imm, the sign-extended immediate of its format; and f is       *)
(* decoded.  The runs of the core, whose words have 8 bits, take f from a  *)
(* table and use the second half only.                                     *)
(***************************************************************************)
EXTENDS Integers, FiniteSetsExt

F7_SUB       == 32
ALU_CTRL_ADD == 0
ALU_CTRL_NOP == 31

instr_type(opcode) ==
  CASE opcode \in {"LOAD", "OP_IMM", "JALR"} -> "I"
    [] opcode \in {"AUIPC", "LUI"}           -> "U"
    [] opcode = "STORE"                      -> "S"
    [] opcode = "OP"                         -> "R"
    [] opcode = "BRANCH"                     -> "B"
    [] opcode = "JAL"                        -> "J"
    [] OTHER                                 -> "INVALID"

-----------------------------------------------------------------------------
\* instr[hi:lo], with its lowest bit at the position `at'.
Slice(instr, hi, lo, at) == {at + b - lo : b \in instr \cap lo .. hi}
\* {n{instr[31]}} above the position `at'.
SignFrom(instr, at)      == IF 31 \in instr THEN at .. 31 ELSE {}

Unsigned(bits) == MapThenSumSet(LAMBDA b : 2 ^ b, bits)
\* -2^31 as two halves, which TLC can represent.
Signed(bits)   == Unsigned(bits \ {31}) - (IF 31 \in bits THEN 2 ^ 30 ELSE 0)
                                        - (IF 31 \in bits THEN 2 ^ 30 ELSE 0)

imm_bits(instr, type) ==
  CASE type = "I" -> SignFrom(instr, 12) \cup Slice(instr, 31, 20, 0)
    [] type = "S" -> SignFrom(instr, 12) \cup Slice(instr, 31, 25, 5) \cup Slice(instr, 11, 7, 0)
    [] type = "B" -> SignFrom(instr, 12) \cup Slice(instr, 7, 7, 11) \cup Slice(instr, 30, 25, 5)
                     \cup Slice(instr, 11, 8, 1)
    [] type = "U" -> Slice(instr, 31, 12, 12)
    [] type = "J" -> SignFrom(instr, 20) \cup Slice(instr, 19, 12, 12) \cup Slice(instr, 20, 20, 11)
                     \cup Slice(instr, 30, 21, 1)
    [] OTHER      -> {}

opcode_names ==
  [LOAD |-> 3, OP_IMM |-> 19, AUIPC |-> 23, STORE |-> 35, OP |-> 51, LUI |-> 55,
   BRANCH |-> 99, JALR |-> 103, JAL |-> 111]
opcode_of(instr) ==
  LET named == {n \in DOMAIN opcode_names : opcode_names[n] = Unsigned(Slice(instr, 6, 0, 0))}
  IN IF named = {} THEN "OTHER" ELSE CHOOSE n \in named : TRUE

fields(instr) ==
  LET op == opcode_of(instr) IN
  [opcode |-> op, rd |-> Unsigned(Slice(instr, 11, 7, 0)),
   func3 |-> Unsigned(Slice(instr, 14, 12, 0)), rs1 |-> Unsigned(Slice(instr, 19, 15, 0)),
   rs2 |-> Unsigned(Slice(instr, 24, 20, 0)), func7 |-> Unsigned(Slice(instr, 31, 25, 0)),
   imm |-> Signed(imm_bits(instr, instr_type(op)))]

-----------------------------------------------------------------------------
has_rs1(type)   == type \in {"R", "I", "S", "B"}
has_rs2(type)   == type \in {"R", "S", "B"}
has_rd(type)    == type \in {"R", "I", "U", "J"}
has_func3(type) == type \in {"R", "I", "S", "B"}
has_func7(f, type) ==
  \/ type = "R"
  \/ type = "I" /\ f.opcode = "OP_IMM" /\ f.func3 = 5

If0(b, v) == IF b THEN v ELSE 0

alu_ctrl(f, type) ==
  LET func3 == If0(has_func3(type), f.func3)
      func7 == If0(has_func7(f, type), f.func7)
  IN CASE f.opcode \in {"LOAD", "STORE", "LUI", "AUIPC"} -> ALU_CTRL_ADD
       [] f.opcode \in {"OP", "OP_IMM"} -> func3 + (IF func7 = F7_SUB THEN 8 ELSE 0)
       [] f.opcode = "BRANCH" -> 16 + func3
       [] OTHER -> ALU_CTRL_NOP

decode(f) ==
  LET type == instr_type(f.opcode) IN
  [rd   |-> If0(has_rd(type), f.rd),
   rs1  |-> If0(has_rs1(type), f.rs1),
   rs2  |-> If0(has_rs2(type), f.rs2),
   imm  |-> If0(type \notin {"R", "INVALID"}, f.imm),
   func3 |-> If0(has_func3(type), f.func3),
   alu_ctrl        |-> alu_ctrl(f, type),
   alu_src1_is_pc  |-> f.opcode = "AUIPC",
   alu_src2_is_imm |-> type \notin {"R", "B"},
   use_mem         |-> f.opcode \in {"LOAD", "STORE"},
   mem_is_write    |-> f.opcode = "STORE",
   is_branch       |-> f.opcode = "BRANCH",
   is_jump         |-> f.opcode \in {"JAL", "JALR"},
   is_jalr         |-> f.opcode = "JALR",
   do_write_back   |-> has_rd(type)]
=============================================================================
