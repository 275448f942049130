------------------------------ MODULE Datapath ------------------------------
(***************************************************************************)
(* The data of the RV32I core and its combinational blocks, as the clocked *)
(* modules see them.  The blocks themselves (instruction_decode.v, alu.v,  *)
(* load_store_decoder.v, byte_reader.v, fault_injector.v) are constant     *)
(* operators here: the control logic is specified and proved for ANY       *)
(* combinational datapath of the right type, and the runs instantiate them *)
(* with the translations in modules InstructionDecode, Alu and             *)
(* LoadStoreLanes.                                                         *)
(***************************************************************************)
EXTENDS Rv32iParams

CONSTANTS
  BOOT_ADDR, PC_STEP,
  MemCells,             \* the word-aligned addresses that are backed by memory
  AluCtrl,              \* the ALU control codes
  Decode(_),            \* instruction_decode.v: a word to its control signals
  AluResult(_, _, _),   \* alu.v: control code, src1, src2
  StoreStrobe(_, _),    \* load_store_decoder.v, byte_enb: func3, byte offset
  StoreData(_, _, _),   \* load_store_decoder.v, data: func3, byte offset, rs2
  LoadValues(_, _, _),  \* byte_reader.v: func3, byte mask, memory word
  InjectedValue(_, _, _), \* fault_injector.v: fault mode, current value, mask
  MergeLanes(_, _, _)   \* a memory word after a strobed write: word, strobe, data

Func3 == 0 .. 7

\* The control signals of a decoded instruction.
Decoded ==
  [rd: RegIdx, rs1: RegIdx, rs2: RegIdx, imm: Word, func3: Func3,
   alu_ctrl: AluCtrl, alu_src1_is_pc: BOOLEAN, alu_src2_is_imm: BOOLEAN,
   use_mem: BOOLEAN, mem_is_write: BOOLEAN, is_branch: BOOLEAN,
   is_jump: BOOLEAN, is_jalr: BOOLEAN, do_write_back: BOOLEAN]

ASSUME ParamsAssumption ==
  /\ BOOT_ADDR \in Word
  /\ PC_STEP \in Nat
  /\ MemCells \subseteq Word

ASSUME DecodeAssumption == \A w \in Word : Decode(w) \in Decoded

ASSUME AluAssumption ==
  \A c \in AluCtrl : \A a, b \in Word : AluResult(c, a, b) \in Word

\* A load may leave the value to a latch (several values), never to nothing.
ASSUME LoadStoreAssumption ==
  \A f \in Func3 :
    /\ \A o \in 0 .. 3 : StoreStrobe(f, o) \in Strobe
    /\ \A o \in 0 .. 3 : \A w \in Word : StoreData(f, o, w) \in Word
    /\ \A s \in Strobe : \A w \in Word :
         LoadValues(f, s, w) \in (SUBSET Word) \ {{}}

ASSUME FaultAssumption ==
  \A m \in FaultMode : \A c, k \in Word : InjectedValue(m, c, k) \in Word

\* What the core relies on its decoder for: the ALU computes the address of a
\* load or a store, from whose low bits the byte lanes are taken; no jump is a
\* load or a store; and a store has no destination register.
ASSUME MemoryInstructionAssumption ==
  \A w \in Word : LET d == Decode(w) IN
    d.use_mem =>
      /\ ~d.alu_src1_is_pc /\ d.alu_src2_is_imm
      /\ \A a \in Word : AluResult(d.alu_ctrl, a, d.imm) = (a + d.imm) % WORD_SIZE
      /\ ~d.is_jump
      /\ d.mem_is_write => ~d.do_write_back

ASSUME MergeAssumption ==
  \A w, d \in Word : \A s \in Strobe : MergeLanes(w, s, d) \in Word

-----------------------------------------------------------------------------
\* Mutant: the sum keeps its carry.
Add_NoWrap(a, b) == a + b

\* 32 bit addition wraps around.
Add(a, b) == (a + b) % WORD_SIZE

\* An address with its two low bits cleared.
WordAlign(a) == a - (a % 4)

\* Registers are an array without x0, which reads as 0.
ReadRegister(regs, i) == IF i = 0 THEN 0 ELSE regs[i]

(***************************************************************************)
(* The memory the core is connected to (AxiLiteRam in the simulation, the  *)
(* AXI BRAM controller on the board).  Both ignore the low address bits    *)
(* and write only the lanes that are strobed; an address that nothing      *)
(* backs reads as 0 and ignores writes.                                    *)
(***************************************************************************)
ReadCell(m, addr) == IF WordAlign(addr) \in MemCells THEN m[WordAlign(addr)] ELSE 0

WriteCell(m, addr, strobe, data) ==
  IF WordAlign(addr) \in MemCells
  THEN [m EXCEPT ![WordAlign(addr)] = MergeLanes(@, strobe, data)]
  ELSE m
=============================================================================
