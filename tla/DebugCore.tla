----------------------------- MODULE DebugCore -----------------------------
(***************************************************************************)
(* What the core promises to the tool that injects faults into it: an      *)
(* RV32I machine that executes one whole instruction after the other, and  *)
(* that can be halted, changed and resumed only BETWEEN two instructions.  *)
(* The clocked core (module CoreSystem) is shown to implement this module. *)
(***************************************************************************)
EXTENDS Datapath

CONSTANT Programs

VARIABLES
  pc, regs, mem,
  mode      \* "run", "halted", or "finish": asked to stop, one instruction to go

dvars == <<pc, regs, mem, mode>>

Init ==
  /\ pc = BOOT_ADDR
  /\ regs = [i \in RegIdx \ {0} |-> 0]
  /\ mem \in Programs
  /\ mode = "halted"

-----------------------------------------------------------------------------
Instr == Decode(ReadCell(mem, pc))
Op1   == ReadRegister(regs, Instr.rs1)
Op2   == ReadRegister(regs, Instr.rs2)
Addr  == Add(Op1, Instr.imm)
Lanes == StoreStrobe(Instr.func3, Addr % 4)
Alu   == AluResult(Instr.alu_ctrl, IF Instr.alu_src1_is_pc THEN pc ELSE Op1,
                   IF Instr.alu_src2_is_imm THEN Instr.imm ELSE Op2)

SetRd(v) == regs' = IF Instr.do_write_back /\ Instr.rd # 0
                    THEN [regs EXCEPT ![Instr.rd] = v] ELSE regs
FallThrough == pc' = Add(pc, PC_STEP)

Jump ==
  /\ Instr.is_jump
  /\ SetRd(Add(pc, PC_STEP))
  /\ pc' = Add(IF Instr.is_jalr THEN Op1 ELSE pc, Instr.imm)
  /\ UNCHANGED mem

Load ==
  /\ ~Instr.is_jump /\ Instr.use_mem /\ ~Instr.mem_is_write
  /\ \E v \in LoadValues(Instr.func3, Lanes, ReadCell(mem, Addr)) : SetRd(v)
  /\ FallThrough
  /\ UNCHANGED mem

Store ==
  /\ ~Instr.is_jump /\ Instr.use_mem /\ Instr.mem_is_write
  /\ mem' = WriteCell(mem, Addr, Lanes, StoreData(Instr.func3, Addr % 4, Op2))
  /\ FallThrough
  /\ UNCHANGED regs

Compute ==
  /\ ~Instr.is_jump /\ ~Instr.use_mem
  /\ SetRd(Alu)
  /\ IF Instr.is_branch /\ Alu % 2 = 1 THEN pc' = Add(pc, Instr.imm) ELSE FallThrough
  /\ UNCHANGED mem

\* An instruction is executed as a whole; the machine then runs on or halts.
Execute ==
  /\ mode \in {"run", "finish"}
  /\ Jump \/ Load \/ Store \/ Compute
  /\ mode' \in {"run", "halted"}

Start == mode \in {"halted", "finish"} /\ mode' = "run" /\ UNCHANGED <<pc, regs, mem>>

\* Stopping never interrupts an instruction.
Stop == mode = "run" /\ mode' \in {"finish", "halted"} /\ UNCHANGED <<pc, regs, mem>>

\* Only the halted machine is written from outside (and may resume at once).
SetPc ==
  /\ mode = "halted" /\ mode' \in {"halted", "run"}
  /\ pc' \in Word
  /\ UNCHANGED <<regs, mem>>

SetRegister ==
  /\ mode = "halted" /\ mode' \in {"halted", "run"}
  /\ \E r \in DOMAIN regs : \A i \in DOMAIN regs \ {r} : regs'[i] = regs[i]
  /\ UNCHANGED <<pc, mem>>

Reset ==
  /\ pc' = BOOT_ADDR
  /\ regs' = [i \in RegIdx \ {0} |-> 0]
  /\ mode' = "halted"
  /\ UNCHANGED mem

Next == Execute \/ Start \/ Stop \/ SetPc \/ SetRegister \/ Reset

Spec == Init /\ [][Next]_dvars
=============================================================================
