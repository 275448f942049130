------------------------------ MODULE Firmware ------------------------------
(***************************************************************************)
(* platforms/xilinx/src/main.c: the loop that reads a command line,        *)
(* carries it out on the core and the memory, and answers with one line.   *)
(*                                                                         *)
(* The core is the instruction-at-a-time machine that module CoreSystem is *)
(* shown to implement, with three instructions.  A command takes much      *)
(* longer on the UART than an instruction in the core, so a step or a stop *)
(* is over when the next command is read (see StepsAreExact in module      *)
(* WorkerSystem).                                                          *)
(***************************************************************************)
EXTENDS SerialLine, FiniteSetsExt

CONSTANTS
  WordBits,       \* width of a word (32)
  NUM_REGISTERS,  \* registers x0 .. x(NUM_REGISTERS-1)
  Cells,          \* byte addresses of the words of the shared memory
  BRAM_BASE_ADDR, \* the first of them
  Load1,          \* the word that encodes "addi x1, x0, 1"
  Store1,         \* the word that encodes "sw x1, BRAM_BASE_ADDR"
  JumpToSelf      \* the word that encodes "jal x0, 0"

WORDS    == 2 ^ WordBits
Word     == 0 .. (WORDS - 1)
Regs     == 1 .. (NUM_REGISTERS - 1)
REG_MAX  == NUM_REGISTERS - 1
MODE_MAX == 3

ASSUME FirmwareAssumption ==
  /\ WordBits \in Nat \ {0} /\ NUM_REGISTERS \in Nat /\ NUM_REGISTERS > 1
  /\ Cells \subseteq Nat /\ \A a \in Cells : a % 4 = 0
  /\ BRAM_BASE_ADDR \in Cells
  /\ {1, Load1, Store1, JumpToSelf} \subseteq Word
  /\ Load1 # Store1 /\ Store1 # JumpToSelf /\ Load1 # JumpToSelf

VARIABLES
  pc, regs, mem, running,  \* the core
  fw                       \* where the firmware is in its loop

core_vars == <<pc, regs, mem, running>>

NoLine == [cmd |-> "none", args |-> <<>>, script |-> "none", own |-> FALSE]
Reading == [at |-> "readline", line |-> NoLine, current |-> 0]

FirmwareInit ==
  /\ pc = BRAM_BASE_ADDR /\ running = FALSE
  /\ regs = [r \in Regs |-> 0] /\ mem = [a \in Cells |-> 0]
  /\ fw = Reading

\* The address after the last one is not followed any further: it wraps.
NextPc(a) == IF a + 4 \in Cells THEN a + 4 ELSE BRAM_BASE_ADDR

Execute ==
  /\ regs' = IF mem[pc] = Load1 THEN [regs EXCEPT ![1] = 1] ELSE regs
  /\ mem' = IF mem[pc] = Store1 THEN [mem EXCEPT ![BRAM_BASE_ADDR] = regs[1]] ELSE mem
  /\ pc' = IF mem[pc] = JumpToSelf THEN pc ELSE NextPc(pc)

CoreRuns == running /\ Execute /\ UNCHANGED <<running, fw, line_vars>>

-----------------------------------------------------------------------------
Line   == Head(to_worker)
Arg(n) == Line.args[n]

\* uart_readline and strtok: the next line, if it is this command.
Reads(cmd) == fw.at = "readline" /\ to_worker # <<>> /\ Line.cmd = cmd

Reply(kind, value, line) ==
  [kind |-> kind, value |-> value, own |-> line.own,
   to |-> IF kind = "OK value" THEN <<line.cmd, line.args>> ELSE <<>>]

Answer(kind, value) ==
  /\ to_worker' = Tail(to_worker)
  /\ to_pc' = Append(to_pc, Reply(kind, value, Line))
  /\ UNCHANGED <<half, fw>>

reply_ok         == Answer("OK", 0)
reply_ok_u32(v)  == Answer("OK value", v)

\* parse_u32 and the range checks.
BadReg(n)  == Arg(n) > REG_MAX
BadMode(n) == Arg(n) > MODE_MAX
Rejects ==
  \/ Line.cmd = "garbled"
  \/ Line.cmd \in {"GET_REG", "SET_REG"} /\ BadReg(1)
  \/ Line.cmd = "FAULT_REG" /\ (BadReg(1) \/ BadMode(2))
  \/ Line.cmd = "FAULT_MEM" /\ (BadMode(2) \/ Arg(1) % 4 # 0)

\* Mutant: the mask is added where it should be xor-ed.
apply_fault_mode_Adds(original, mode, mask) ==
  LET bit(w, b) == (w \div 2 ^ b) % 2
      new(b) == CASE mode = 0 -> bit(mask, b)
                  [] mode = 1 -> bit(original, b) + bit(mask, b)
                  [] mode = 2 -> IF bit(mask, b) = 1 THEN 1 ELSE bit(original, b)
                  [] mode = 3 -> IF bit(mask, b) = 1 THEN 0 ELSE bit(original, b)
  IN MapThenSumSet(LAMBDA b : new(b) * 2 ^ b, 0 .. (WordBits - 1))

\* A word is changed bit by bit.
apply_fault_mode(original, mode, mask) ==
  LET bit(w, b) == (w \div 2 ^ b) % 2
      new(b) == LET o == bit(original, b)
                    m == bit(mask, b)
                IN CASE mode = 0 -> m
                     [] mode = 1 -> (o + m) % 2
                     [] mode = 2 -> o + m - o * m
                     [] mode = 3 -> o * (1 - m)
  IN MapThenSumSet(LAMBDA b : new(b) * 2 ^ b, 0 .. (WordBits - 1))

\* A register that a running core is using may win.
WriteRegister(r, v) ==
  /\ regs' \in {[regs EXCEPT ![r] = v]} \cup (IF running THEN {regs} ELSE {})
  /\ UNCHANGED <<pc, mem, running>>

-----------------------------------------------------------------------------
\* Mutant: an unknown command is skipped without an answer.
Rejected_Silent ==
  /\ fw.at = "readline" /\ to_worker # <<>> /\ Rejects
  /\ IF Line.cmd = "garbled"
     THEN to_worker' = Tail(to_worker) /\ UNCHANGED <<to_pc, half, fw>>
     ELSE Answer("ERR", 0)
  /\ UNCHANGED core_vars

Rejected ==
  /\ fw.at = "readline" /\ to_worker # <<>> /\ Rejects
  /\ Answer("ERR", 0) /\ UNCHANGED core_vars

PROTOCOL_VERSION ==
  Reads("PROTOCOL_VERSION") /\ reply_ok_u32(1) /\ UNCHANGED core_vars

START == Reads("START") /\ running' = TRUE /\ reply_ok /\ UNCHANGED <<pc, regs, mem>>
STOP  == Reads("STOP") /\ running' = FALSE /\ reply_ok /\ UNCHANGED <<pc, regs, mem>>

\* Mutant: the stall is not put back after the step.
STEP_LeavesRunning == Reads("STEP") /\ running' = TRUE /\ Execute /\ reply_ok

\* The stall is up again after the step, also when the core was running.
STEP  == Reads("STEP") /\ running' = FALSE /\ Execute /\ reply_ok

GET_PC == Reads("GET_PC") /\ reply_ok_u32(pc) /\ UNCHANGED core_vars
SET_PC ==
  /\ Reads("SET_PC")
  /\ pc' \in {Arg(1)} \cup (IF running THEN {pc} ELSE {})
  /\ reply_ok /\ UNCHANGED <<regs, mem, running>>

GET_REG ==
  /\ Reads("GET_REG") /\ ~Rejects
  /\ reply_ok_u32(IF Arg(1) = 0 THEN 0 ELSE regs[Arg(1)]) /\ UNCHANGED core_vars

SET_REG ==
  /\ Reads("SET_REG") /\ ~Rejects /\ Arg(1) # 0
  /\ WriteRegister(Arg(1), Arg(2)) /\ reply_ok

FAULT_REG ==
  /\ Reads("FAULT_REG") /\ ~Rejects /\ Arg(1) # 0
  /\ WriteRegister(Arg(1), apply_fault_mode(regs[Arg(1)], Arg(2), Arg(3)))
  /\ reply_ok

\* An address nothing answers at, or x0, which the control module does not write, ends in
\* the data abort handler, which never returns.
Aborts ==
  \/ /\ Reads("READ_WORD") \/ Reads("WRITE_WORD") \/ (Reads("FAULT_MEM") /\ ~Rejects)
     /\ Arg(1) \notin Cells
  \/ (Reads("SET_REG") \/ Reads("FAULT_REG")) /\ ~Rejects /\ Arg(1) = 0
DataAbort ==
  /\ Aborts
  /\ fw' = [fw EXCEPT !.at = "aborted"]
  /\ to_worker' = Tail(to_worker)
  /\ UNCHANGED <<to_pc, half, core_vars>>

READ_WORD ==
  Reads("READ_WORD") /\ Arg(1) \in Cells /\ reply_ok_u32(mem[Arg(1)]) /\ UNCHANGED core_vars

WRITE_WORD ==
  /\ Reads("WRITE_WORD") /\ Arg(1) \in Cells
  /\ mem' = [mem EXCEPT ![Arg(1)] = Arg(2)]
  /\ reply_ok /\ UNCHANGED <<pc, regs, running>>

\* FAULT_MEM reads the word in one bus transfer and writes it back in another.
FAULT_MEM_Read ==
  /\ Reads("FAULT_MEM") /\ ~Rejects /\ Arg(1) \in Cells
  /\ fw' = [at |-> "fault_mem", line |-> Line, current |-> mem[Arg(1)]]
  /\ to_worker' = Tail(to_worker)
  /\ UNCHANGED <<to_pc, half, core_vars>>

FAULT_MEM_Write ==
  LET args == fw.line.args IN
  /\ fw.at = "fault_mem"
  /\ mem' = [mem EXCEPT ![args[1]] = apply_fault_mode(fw.current, args[2], args[3])]
  /\ to_pc' = Append(to_pc, Reply("OK", 0, fw.line))
  /\ fw' = Reading
  /\ UNCHANGED <<to_worker, half, pc, regs, running>>

FirmwareStep ==
  \/ Rejected \/ PROTOCOL_VERSION \/ START \/ STOP \/ STEP \/ GET_PC \/ SET_PC
  \/ GET_REG \/ SET_REG \/ FAULT_REG \/ DataAbort \/ READ_WORD \/ WRITE_WORD
  \/ FAULT_MEM_Read \/ FAULT_MEM_Write

\* The worker is restarted: main() from the top, with an empty UART.  Between the stop and the
\* write of the pc nothing can happen but the end of the instruction a running core is at,
\* which may take the place of the write.
Reboot ==
  /\ fw' = Reading
  /\ to_worker' = <<>> /\ half' = FALSE
  /\ pc' \in {BRAM_BASE_ADDR} \cup (IF running THEN {pc} ELSE {})
  /\ running' = FALSE
  /\ UNCHANGED <<to_pc, regs, mem>>
=============================================================================
