-------------------------------- MODULE Alu --------------------------------
(***************************************************************************)
(* alu.v for words of XLEN bits, as numbers 0 .. 2^XLEN - 1.  The control  *)
(* code is {branch or misc, alternate function, func3}.                    *)
(***************************************************************************)
EXTENDS Integers, Bitwise

CONSTANT XLEN

WORDS == 2 ^ XLEN

Signed(a) == IF a >= WORDS \div 2 THEN a - WORDS ELSE a
Bit(b)    == IF b THEN 1 ELSE 0

\* alu_ctrl[4] = 0: OP and OP-IMM; alt is alu_ctrl[3].
AluOp(func3, alt, a, b) ==
  LET shamt == b % XLEN IN
  CASE func3 = 0 -> IF alt THEN (a - b) % WORDS ELSE (a + b) % WORDS
    [] func3 = 1 -> (a * 2 ^ shamt) % WORDS
    [] func3 = 2 -> Bit(Signed(a) < Signed(b))
    [] func3 = 3 -> Bit(a < b)
    [] func3 = 4 -> a ^^ b
    [] func3 = 5 -> IF alt THEN (Signed(a) \div 2 ^ shamt) % WORDS ELSE a \div 2 ^ shamt
    [] func3 = 6 -> a | b
    [] func3 = 7 -> a & b

\* alu_ctrl[4:3] = 10: the comparison of a branch.
AluCompare(func3, a, b) ==
  CASE func3 = 0 -> Bit(a = b)
    [] func3 = 1 -> Bit(a # b)
    [] func3 = 4 -> Bit(Signed(a) < Signed(b))
    [] func3 = 5 -> Bit(Signed(a) >= Signed(b))
    [] func3 = 6 -> Bit(a < b)
    [] func3 = 7 -> Bit(a >= b)
    [] OTHER     -> 0

alu(alu_ctrl, src1, src2) ==
  CASE alu_ctrl < 16 -> AluOp(alu_ctrl % 8, alu_ctrl >= 8, src1, src2)
    [] alu_ctrl \in 16 .. 23 -> AluCompare(alu_ctrl % 8, src1, src2)
    [] OTHER -> 0

-----------------------------------------------------------------------------
\* fault_injector.v: overwrite, xor, or, and-not.
injected_value(fault_mode, current_value, fault_mask) ==
  CASE fault_mode = 0 -> fault_mask
    [] fault_mode = 1 -> current_value ^^ fault_mask
    [] fault_mode = 2 -> current_value | fault_mask
    [] fault_mode = 3 -> current_value & (WORDS - 1 - fault_mask)
=============================================================================
