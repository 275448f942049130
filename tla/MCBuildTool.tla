----------------------------- MODULE MCBuildTool -----------------------------
(***************************************************************************)
(* Two cores, two contents for one of them and for the firmware (the       *)
(* second adds a file); a vendor with one board and one without, as in     *)
(* hardware.json.                                                          *)
(***************************************************************************)
EXTENDS BuildTool, TLC

MCCores == {"rv32i", "rv32i_ft"}
MCBoards == {"zybo"}
MCBoardsOf == "Xilinx" :> {"zybo"} @@ "Lattice" :> {}
MCContents ==
  "rv32i" :> {1, 2} @@ "rv32i_ft" :> {3} @@ "scripts" :> {1, 2} @@ "firmware" :> {1, 2}
MCFirmwareFiles == <<"main.c" :> 1, "main.c" :> 2 @@ "extra.c" :> 1>>

MCCommandLines ==
  [vendor : {NotGiven, "Lattice", "AMD"}, board : {NotGiven, "arty"}, core : {NotGiven, "rv64i"}]
=============================================================================
