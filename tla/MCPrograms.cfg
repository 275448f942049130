SPECIFICATION Spec
CONSTANTS
  Versions <- MCVersions
  Committed = "gap"
  Image <- MCImage
  MaxEdits = 1
  MaxConversions = 1
  Launchers = {t1, t2}
  Cores = {"rv32i", "rv32i_ft"}
  HdlOf <- MCHdlOf
  Benches = {"test_alu", "test_instruction_decode", "test_soc_control"}
  CommandLines <- MCCommandLines
  Names <- MCNames
  Program = "add"
  OtherPrograms = {"beq"}
SYMMETRY Terminals
CHECK_DEADLOCK FALSE
INVARIANTS
  ProgramsTypeOK
  LoadsTheImage
  TestsAsRequested
  BenchMatchesBuild
  BenchesPass
