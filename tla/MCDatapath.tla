----------------------------- MODULE MCDatapath -----------------------------
(***************************************************************************)
(* A small datapath for the runs: words of 8 bits in four lanes of 2 bits, *)
(* the translated combinational blocks, and an assembler table that says   *)
(* which words of the memory are instructions.                             *)
(***************************************************************************)
EXTENDS Integers, TLC

A == INSTANCE Alu WITH XLEN <- 8
D == INSTANCE InstructionDecode
L == INSTANCE LoadStoreLanes WITH LANE <- 4

Ins(op, f3, f7, rd, rs1, rs2, imm) ==
  [opcode |-> op, func3 |-> f3, func7 |-> f7, rd |-> rd, rs1 |-> rs1, rs2 |-> rs2,
   imm |-> imm % 256]

\* Words that are no instruction decode to an invalid opcode with junk fields.
NoInstruction == Ins("OTHER", 7, 32, 1, 1, 1, 1)

Assembler ==
     160 :> Ins("LOAD",   2,  0, 1, 0, 0, 0)       \* lw    x1, 0(x0)
  @@ 161 :> Ins("OP_IMM", 4,  0, 1, 1, 0, 5)       \* xori  x1, x1, 5
  @@ 162 :> Ins("STORE",  0,  0, 0, 0, 1, 1)       \* sb    x1, 1(x0)
  @@ 163 :> Ins("BRANCH", 1,  0, 0, 1, 2, -12)     \* bne   x1, x2, -12
  @@ 164 :> Ins("JALR",   0,  0, 2, 0, 0, 8)       \* jalr  x2, 8(x0)
  @@ 165 :> Ins("LOAD",   1,  0, 1, 0, 0, 1)       \* lh    x1, 1(x0): misaligned
  @@ 166 :> Ins("LOAD",   4,  0, 1, 0, 0, 1)       \* lbu   x1, 1(x0)
  @@ 167 :> Ins("JAL",    0,  0, 0, 0, 0, -8)      \* jal   x0, -8
  @@ 168 :> Ins("OP",     0, 32, 1, 2, 1, 0)       \* sub   x1, x2, x1
  @@ 169 :> Ins("STORE",  2,  0, 0, 0, 1, 0)       \* sw    x1, 0(x0)
  @@ 170 :> Ins("AUIPC",  0,  0, 2, 0, 0, 16)      \* auipc x2, 16

MCDecode(w)          == D!decode(IF w \in DOMAIN Assembler THEN Assembler[w] ELSE NoInstruction)
MCAluResult(c, a, b) == A!alu(c, a, b)
MCStoreStrobe(f, o)  == L!byte_enb(f, o)
MCStoreData(f, o, w) == L!store_data(f, o, w)
MCLoadValues(f, s, w) == L!wb_values(f, s, w)
MCInjectedValue(m, c, k) == A!injected_value(m, c, k)
\* A table, so that the assumptions of Datapath are evaluated quickly.
Masked == [s \in SUBSET (0 .. 3), w \in 0 .. 255 |-> L!masked_data(s, w)]
MCMergeLanes(w, s, d) == Masked[(0 .. 3) \ s, w] + Masked[s, d]

MCAluCtrl  == {0, 4, 8, 17, 31}
MCMemCells == {0, 8, 12, 16, 20, 24}

\* Data word 0, and a program from the boot address 8 on.
Image(data, w8, w12, w16, w20, w24) ==
  0 :> data @@ 8 :> w8 @@ 12 :> w12 @@ 16 :> w16 @@ 20 :> w20 @@ 24 :> w24
=============================================================================
