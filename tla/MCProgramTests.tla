---------------------------- MODULE MCProgramTests ----------------------------
(***************************************************************************)
(* Programs of five words (more than a line of the dump) and of none, and  *)
(* one with a gap and a half word; no byte occurs twice.  A second core    *)
(* without utilities.                                                      *)
(***************************************************************************)
EXTENDS ProgramTests

Bytes(a, n) == [i \in 1 .. n |-> a + i]
MCVersions == {"five words", "empty", "gap"}
MCImage ==
     "five words" :> <<[at |-> 0, bytes |-> Bytes(0, 20)]>>
  @@ "empty"      :> <<>>
  @@ "gap"        :> <<[at |-> 0, bytes |-> Bytes(100, 4)], [at |-> 64, bytes |-> Bytes(164, 6)]>>

Terminals == Permutations(Launchers)

MCHdlOf == "rv32i" :> {"verilog"} @@ "rv32i_ft" :> {"verilog"}
MCNames == {<<"test_soc_control", "test_alu">>, <<"test_instruction_decode">>, <<"pc">>}
Options(mode, which, core, hdl) == [mode |-> mode, which |-> which, core |-> core, hdl |-> hdl]
MCCommandLines ==
  {Options(NotGiven, <<>>, "rv32i", "verilog"),
   Options("components", <<"test_alu">>, "rv32i_ft", NotGiven),
   Options("full", <<"all", "beq">>, "rv32i", "verilog")}
=============================================================================
