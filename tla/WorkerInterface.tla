--------------------------- MODULE WorkerInterface ---------------------------
(***************************************************************************)
(* The master PC: worker_interface.py, which sends one command, waits for  *)
(* one line and judges it, and the scripts that drive it: the test cases   *)
(* (execute_tests.py), the two demos (demo_workflow.py) and sessions of a  *)
(* user's own calls.  Any exception ends the session (main.py).            *)
(*                                                                         *)
(* A script is a sequence of calls; `then' says what is done with the      *)
(* answer.  Addresses are bytes, as in the code.                           *)
(***************************************************************************)
EXTENDS SerialLine

CONSTANTS
  Regs, REG_MAX, MODE_MAX,
  base_addr,   \* of the test cases' data
  boot_addr,   \* of the test cases' program
  TestOrder,   \* the names of the test cases in the order of their directories
  TestCases,   \* name -> [program, initial_memory, expected_registers, expected_memory]
  relocated,   \* relocated[w]: (w + base_addr) & 0xFFFFFFFF
  infinite_loop,
  MaxSteps,    \* of a test case (1000)
  demo,        \* the demos: [boot_addr, program, data_addr, x1, mask, probe_addr]
  apply_fault_mode(_, _, _),
  UserCalls,   \* the calls of a user's session
  MaxBacklog   \* bound on the lines under way when a session is opened

VARIABLE session
client_vars == <<session, line_vars>>

Call(cmd, args, then, expected) ==
  [cmd |-> cmd, args |-> args, then |-> then, expected |-> expected]
Ack(cmd, args)        == Call(cmd, args, "ack", 0)
Expect(cmd, args, v)  == Call(cmd, args, "expect", v)
Value(cmd, args)      == Call(cmd, args, "value", 0)
Report(cmd, args, v)  == Call(cmd, args, "report", v)
NoCall == Ack("none", <<>>)

\* _check_reg_idx, _check_mode and _check_word_addr raise before anything is sent.
CallAllowed(c) ==
  /\ c.cmd \in {"GET_REG", "SET_REG", "FAULT_REG"} => c.args[1] \in 0 .. REG_MAX
  /\ c.cmd \in {"FAULT_REG", "FAULT_MEM"} => c.args[2] \in 0 .. MODE_MAX
  /\ c.cmd \in {"READ_WORD", "WRITE_WORD", "FAULT_MEM"} => c.args[1] % 4 = 0

upload_words(base, words, verify) ==
  [i \in DOMAIN words |-> Ack("WRITE_WORD", <<base + 4 * (i - 1), words[i]>>)]
  \o IF verify
     THEN [i \in DOMAIN words |-> Expect("READ_WORD", <<base + 4 * (i - 1)>>, words[i])]
     ELSE <<>>

-----------------------------------------------------------------------------
\* Mutant: the core is not stopped before the registers and the memory are set.
setup_test_case_NoStop(t) ==
  [r \in Regs |-> Ack("SET_REG", <<r, 0>>)]
  \o [i \in DOMAIN t.expected_memory |-> Ack("WRITE_WORD", <<base_addr + 4 * (i - 1), 0>>)]
  \o upload_words(boot_addr, t.program, FALSE)
  \o upload_words(base_addr, t.initial_memory, FALSE)
  \o <<Ack("STOP", <<>>), Ack("SET_PC", <<boot_addr>>)>>

setup_test_case(t) ==
  <<Ack("STOP", <<>>)>>
  \o [r \in Regs |-> Ack("SET_REG", <<r, 0>>)]
  \o [i \in DOMAIN t.expected_memory |-> Ack("WRITE_WORD", <<base_addr + 4 * (i - 1), 0>>)]
  \o upload_words(boot_addr, t.program, FALSE)
  \o upload_words(base_addr, t.initial_memory, FALSE)
  \o <<Ack("STOP", <<>>), Ack("SET_PC", <<boot_addr>>)>>

\* The body of the loop: the address of READ_WORD is the answer to GET_PC.
step_loop == <<Call("GET_PC", <<>>, "pc", 0), Call("READ_WORD", <<0>>, "instr", 0),
               Call("STEP", <<>>, "again", 0)>>

execute_test_case(t) ==
  setup_test_case(t) \o step_loop
  \o [r \in Regs |-> Report("GET_REG", <<r>>, t.expected_registers[r])]
  \o [i \in DOMAIN t.expected_memory |->
        Report("READ_WORD", <<base_addr + 4 * (i - 1)>>, t.expected_memory[i])]

\* "demo": the first instruction sets x1, the second stores it.
run_demo_program_test ==
  upload_words(demo.boot_addr, demo.program, TRUE)
  \o <<Ack("STOP", <<>>), Ack("SET_PC", <<demo.boot_addr>>), Expect("GET_PC", <<>>, demo.boot_addr),
       Ack("STEP", <<>>), Expect("GET_PC", <<>>, demo.boot_addr + 4), Expect("GET_REG", <<1>>, demo.x1),
       Ack("STEP", <<>>), Expect("READ_WORD", <<demo.data_addr>>, demo.x1)>>

run_fault_injection_test ==
  upload_words(demo.boot_addr, demo.program, FALSE)
  \o <<Ack("STOP", <<>>), Ack("SET_PC", <<demo.boot_addr>>),
       Ack("STEP", <<>>), Expect("GET_REG", <<1>>, demo.x1),
       Ack("FAULT_REG", <<1, 1, demo.mask>>),
       Expect("GET_REG", <<1>>, apply_fault_mode(demo.x1, 1, demo.mask)),
       Ack("WRITE_WORD", <<demo.probe_addr, demo.x1>>),
       Ack("FAULT_MEM", <<demo.probe_addr, 2, demo.mask>>),
       Expect("READ_WORD", <<demo.probe_addr>>, apply_fault_mode(demo.x1, 2, demo.mask))>>

Tests == DOMAIN TestCases
Scripts ==
  [s \in Tests \cup {"demo", "faults"} |->
     CASE s \in Tests  -> execute_test_case(TestCases[s])
       [] s = "demo"   -> run_demo_program_test
       [] s = "faults" -> run_fault_injection_test]
Shipped == DOMAIN Scripts

-----------------------------------------------------------------------------
Closed == [at |-> "closed", script |-> "none", i |-> 0, call |-> NoCall, pc |-> 0,
           steps |-> 0, reported |-> {}, leftover |-> 0, rebooted |-> FALSE]

SetUp   == session.script \in Tests /\ session.i = Len(setup_test_case(TestCases[session.script])) + 1
NextCalls == IF session.script = "user" THEN UserCalls
             ELSE {IF Scripts[session.script][session.i].then = "instr"
                   THEN [Scripts[session.script][session.i] EXCEPT !.args = <<session.pc>>]
                   ELSE Scripts[session.script][session.i]}

\* An exception, the end of the script or of the process: the port is closed, what is
\* under way stays under way.
Close ==
  /\ session' = Closed
  /\ to_worker' = Disowned(to_worker)
  /\ to_pc' = Disowned(to_pc)
Raise == Close /\ UNCHANGED half

\* WorkerInterface(...): the replies that have arrived are discarded, those still on the
\* wire are not.
Begin(s, lines) ==
  session' = [Closed EXCEPT !.at = "ready", !.script = s, !.i = 1, !.leftover = lines]

Open(pending) ==
  /\ session.at = "closed"
  /\ \E arrived \in 0 .. Len(to_pc) :
       LET lines == Len(to_pc) - arrived + Len(to_worker) + pending IN
       /\ lines <= MaxBacklog
       /\ to_pc' = SubSeq(to_pc, arrived + 1, Len(to_pc))
       /\ \E s \in {TestOrder[1], "demo", "faults", "user"} : Begin(s, lines)
  /\ UNCHANGED <<to_worker, half>>

SendCommand ==
  /\ session.at = "ready"
  /\ \E c \in NextCalls :
       IF CallAllowed(c)
       THEN /\ WriteLine([cmd |-> c.cmd, args |-> c.args, script |-> session.script, own |-> TRUE])
            /\ session' = [session EXCEPT !.at = "waiting", !.call = c]
            /\ UNCHANGED to_pc
       ELSE Raise

\* Mutant: startswith("OK") for a value and for an acknowledgement.
Acceptable_AnyOk(r) == r.kind \in {"OK", "OK value"}

\* _send_ack and _send_u32: a bare OK acknowledges, OK and a number is a value.
Acceptable(r) ==
  r.kind = IF session.call.then \in {"ack", "again"} THEN "OK" ELSE "OK value"

Judge(v) ==
  LET c == session.call
      next == CASE c.then = "instr" /\ v = infinite_loop -> session.i + 2
                [] c.then = "again" /\ session.steps + 1 < MaxSteps -> session.i - 2
                [] OTHER -> session.i + 1
      ended == session.script # "user" /\ next > Len(Scripts[session.script])
  IN [session EXCEPT
        !.at = IF ended THEN "done" ELSE "ready",
        !.i = IF session.script = "user" THEN 1 ELSE next,
        !.call = NoCall,
        !.pc = CASE c.then = "pc" -> v [] c.then = "instr" -> 0 [] OTHER -> @,
        !.steps = IF c.then = "again" THEN @ + 1 ELSE IF c.then = "report" THEN 0 ELSE @,
        \* expect_word_equal
        !.reported = IF c.then = "report" /\ v \notin {c.expected, relocated[c.expected]}
                     THEN @ \cup {[cmd |-> c.cmd, arg |-> c.args[1]]} ELSE @]

Receive ==
  /\ session.at = "waiting" /\ to_pc # <<>>
  /\ LET r == Head(to_pc) IN
     IF Acceptable(r) /\ (session.call.then = "expect" => r.value = session.call.expected)
     THEN /\ session' = Judge(r.value)
          /\ to_pc' = Tail(to_pc)
          /\ UNCHANGED <<to_worker, half>>
     ELSE /\ session' = Closed
          /\ to_worker' = Disowned(to_worker) /\ to_pc' = Disowned(Tail(to_pc))
          /\ UNCHANGED half

\* Mutant: the port is opened without a timeout.
Timeout_Never == session.at = "waiting" /\ FALSE /\ Raise

\* readline returned nothing: the reply may still come.
Timeout == session.at = "waiting" /\ Raise

\* execute_all_test_cases takes the next test case; the other scripts end.
Finish ==
  /\ session.at = "done"
  /\ IF session.script \in Tests /\ session.script # TestOrder[Len(TestOrder)]
     THEN /\ \E k \in DOMAIN TestOrder :
               /\ TestOrder[k] = session.script
               /\ session' = [Closed EXCEPT !.at = "ready", !.script = TestOrder[k + 1], !.i = 1,
                                !.leftover = session.leftover, !.rebooted = session.rebooted]
          /\ UNCHANGED line_vars
     ELSE Raise

\* A user's session ends when the user says so.
Leave == session.at = "ready" /\ session.script = "user" /\ Raise

\* The process is killed, possibly while it writes a command.
Kill ==
  /\ session.at # "closed" /\ Close
  /\ half' \in {half} \cup (IF session.at = "ready" THEN {TRUE} ELSE {})
=============================================================================
