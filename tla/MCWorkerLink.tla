---------------------------- MODULE MCWorkerLink ----------------------------
(***************************************************************************)
(* One register, words of two bits, one word of data and three of program  *)
(* (set x1, store it, jump to itself).  The first test case passes; the    *)
(* second expects another register and another word.  The user's session   *)
(* can start the core, look at it, inject a fault under it, ask for things *)
(* the client refuses, write x0, and address memory that is not there.     *)
(***************************************************************************)
EXTENDS WorkerLink

MCCells == {0, 4, 8, 12}
MCTestOrder == <<"fails", "passes">>
MCTestCases ==
  [passes |-> [program |-> <<1, 2, 3>>, initial_memory |-> <<3>>,
               expected_registers |-> <<1>>, expected_memory |-> <<1>>],
   fails  |-> [program |-> <<1, 2>>, initial_memory |-> <<>>,
               expected_registers |-> <<2>>, expected_memory |-> <<0>>]]
MCRelocated == [w \in 0 .. 3 |-> (w + 2) % 4]
MCDemo == [boot_addr |-> 4, program |-> <<1, 2>>, data_addr |-> 0, x1 |-> 1, mask |-> 2, probe_addr |-> 0]
UserCall(cmd, args, then) == [cmd |-> cmd, args |-> args, then |-> then, expected |-> 0]
MCUserCalls ==
  {UserCall("START", <<>>, "ack"), UserCall("GET_PC", <<>>, "value"),
   UserCall("FAULT_MEM", <<0, 1, 3>>, "ack"), UserCall("SET_REG", <<0, 1>>, "ack"),
   UserCall("GET_REG", <<2>>, "value"), UserCall("READ_WORD", <<64>>, "value")}
=============================================================================
