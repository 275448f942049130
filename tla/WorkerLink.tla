----------------------------- MODULE WorkerLink -----------------------------
(***************************************************************************)
(* The master PC and the worker joined by the serial line: sessions that   *)
(* complete, fail, time out or are killed, one after the other, over       *)
(* whatever the sessions before them left on the line and in the core; and *)
(* a worker that may be restarted at any time.                             *)
(***************************************************************************)
EXTENDS Firmware

CONSTANTS boot_addr, TestOrder, TestCases, relocated, MaxSteps, demo, UserCalls, MaxBacklog

\* A script is told from another by its name, and each test and demo has a program.
ASSUME ScriptAssumption ==
  /\ DOMAIN TestCases \cap {"demo", "faults", "user", "none"} = {}
  /\ TestOrder \in Seq(DOMAIN TestCases) \ {<<>>}
  /\ demo.program \in Seq(Word) \ {<<>>}
  /\ \A s \in DOMAIN TestCases :
       LET t == TestCases[s] IN {t.program, t.initial_memory, t.expected_memory} \subseteq Seq(Word)

VARIABLE session

Pc == INSTANCE WorkerInterface WITH base_addr <- BRAM_BASE_ADDR, infinite_loop <- JumpToSelf

vars == <<session, line_vars, core_vars, fw>>

Init == LineInit /\ FirmwareInit /\ session = Pc!Closed

\* A command the firmware is in the middle of belongs to the session that sent it.
ClientStep(A) ==
  /\ A
  /\ fw' = IF session'.at = "closed" THEN [fw EXCEPT !.line.own = FALSE] ELSE fw
  /\ UNCHANGED core_vars

\* Commands the firmware has taken and not answered.
Pending == IF fw.at = "fault_mem" THEN 1 ELSE 0

Opens    == ClientStep(Pc!Open(Pending))
Sends    == ClientStep(Pc!SendCommand)
Receives == ClientStep(Pc!Receive)
TimesOut == ClientStep(Pc!Timeout)
Finishes == ClientStep(Pc!Finish)
Leaves   == ClientStep(Pc!Leave)
IsKilled == ClientStep(Pc!Kill)

WorkerStep == (FirmwareStep \/ CoreRuns) /\ UNCHANGED session

Restart == Reboot /\ session' = [session EXCEPT !.rebooted = session.at # "closed"]

Next ==
  \/ Opens \/ Sends \/ Receives \/ TimesOut \/ Finishes \/ Leaves \/ IsKilled
  \/ WorkerStep \/ Restart

Spec == Init /\ [][Next]_vars

\* The client's process runs on, and readline returns: with a line, or empty-handed when
\* the timeout has passed.  Of the worker nothing is assumed.
ClientRuns == Sends \/ Receives \/ TimesOut \/ Finishes
LiveSpec   == Spec /\ WF_session(ClientRuns)

-----------------------------------------------------------------------------
TypeOK ==
  /\ session.at \in {"closed", "ready", "waiting", "done"}
  /\ fw.at \in {"readline", "fault_mem", "aborted"}
  /\ pc \in Cells /\ regs \in [Regs -> Word] /\ mem \in [Cells -> Word]
  /\ running \in BOOLEAN /\ half \in BOOLEAN

(***************************************************************************)
(* "Each command returns exactly one response line" (docs/uart_protocol.md)*)
(* and the client sends a command only when it has taken the answer to the *)
(* one before: whatever earlier sessions left on the line, a session       *)
(* neither adds to it nor catches up with it.                              *)
(***************************************************************************)
UnderWay == Len(to_worker) + Pending + Len(to_pc)

OneReplyPerCommand ==
  session.at # "closed" /\ ~session.rebooted /\ fw.at # "aborted" =>
    UnderWay = session.leftover + (IF session.at = "waiting" THEN 1 ELSE 0)

(***************************************************************************)
(* A timeout or a kill leaves replies under way, and a later session takes *)
(* each of them for an answer to its own commands, so that from then on    *)
(* every reply is taken for the answer to the next command.  In the        *)
(* shipped scripts no VALUE is ever taken for another: they begin with     *)
(* more acknowledgements than there are replies left, and an               *)
(* acknowledgement in the place of a value, or the other way round, ends   *)
(* the session before the first value is used.                             *)
(***************************************************************************)
ValuesBelong ==
  (/\ session.at = "waiting" /\ session.script \in Pc!Shipped
   /\ session.call.then \notin {"ack", "again"}
   /\ to_pc # <<>> /\ Head(to_pc).kind = "OK value")
  => Head(to_pc).own /\ Head(to_pc).to = <<session.call.cmd, session.call.args>>

(***************************************************************************)
(* When a test case begins to step, the core stands at the boot address    *)
(* with the program, the initial memory and cleared registers in place,    *)
(* although it may have been running when the session was opened: nothing  *)
(* of the set-up was overwritten by it or lost.                            *)
(***************************************************************************)
TestStartsClean ==
  LET t == TestCases[session.script]
      data(i) == IF i \in DOMAIN t.initial_memory THEN t.initial_memory[i] ELSE 0
  IN (session.at = "ready" /\ Pc!SetUp /\ session.steps = 0 /\ session.leftover = 0 /\ ~session.rebooted)
     => /\ ~running /\ pc = boot_addr
        /\ \A r \in Regs : regs[r] = 0
        /\ \A i \in DOMAIN t.program : mem[boot_addr + 4 * (i - 1)] = t.program[i]
        /\ \A i \in DOMAIN t.expected_memory : mem[BRAM_BASE_ADDR + 4 * (i - 1)] = data(i)

(***************************************************************************)
(* A test case that completes has reported exactly the registers and words *)
(* of memory of the worker that differ from both the expected value and    *)
(* the relocated one, even in a session opened while replies to an earlier *)
(* one were under way, or in which the worker was restarted: the test may  *)
(* have failed for that, but what it says of the worker is true.           *)
(***************************************************************************)
VerdictsAreTrue ==
  LET t == TestCases[session.script]
      wrong(v, e) == v \notin {e, relocated[e]}
  IN (session.at = "done" /\ session.script \in Pc!Tests) =>
     session.reported =
       {[cmd |-> "GET_REG", arg |-> r] : r \in {q \in Regs : wrong(regs[q], t.expected_registers[q])}}
       \cup {[cmd |-> "READ_WORD", arg |-> BRAM_BASE_ADDR + 4 * (i - 1)] :
               i \in {j \in DOMAIN t.expected_memory :
                        wrong(mem[BRAM_BASE_ADDR + 4 * (j - 1)], t.expected_memory[j])}}

(***************************************************************************)
(* FAULT_MEM reads a word and writes it back in two transfers, and a store *)
(* of the core in between would be lost.  The shipped scripts stop the     *)
(* core before they send it, and the commands are carried out in order: no *)
(* timeout, kill or leftover command lets it meet a running core.          *)
(***************************************************************************)
FaultsAreAtomic == fw.at = "fault_mem" /\ fw.line.script \in Pc!Shipped => ~running

(***************************************************************************)
(* Every session of a shipped script ends, whatever the worker does: also  *)
(* when it was restarted under the session or hangs in a data abort.       *)
(***************************************************************************)
SessionsEnd ==
  session.at # "closed" /\ session.script \in Pc!Shipped ~> session.at = "closed"
=============================================================================
