SPECIFICATION LiveSpec
CONSTANTS
  WordBits = 2
  NUM_REGISTERS = 2
  Cells <- MCCells
  BRAM_BASE_ADDR = 0
  Load1 = 1
  Store1 = 2
  JumpToSelf = 3
  boot_addr = 4
  TestOrder <- MCTestOrder
  TestCases <- MCTestCases
  relocated <- MCRelocated
  MaxSteps = 3
  demo <- MCDemo
  UserCalls <- MCUserCalls
  MaxBacklog = 1
INVARIANTS
  TypeOK
  OneReplyPerCommand
  ValuesBelong
  TestStartsClean
  
  FaultsAreAtomic
PROPERTIES
  SessionsEnd
