SPECIFICATION Spec
CONSTANTS
  WORD_SIZE = 256
  NUM_REGISTERS = 32
  HOST_BASE = 327680
  ReadRequests <- FewReads
  WriteRequests <- MCWriteRequests
  WriteData <- MCWriteData
  CoreInputs <- OneInput
INVARIANTS
  WriteHasItsEffectOnce
  StallFollowsCommands
