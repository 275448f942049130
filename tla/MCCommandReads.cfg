SPECIFICATION Spec
CONSTANTS
  WORD_SIZE = 256
  NUM_REGISTERS = 32
  HOST_BASE = 327680
  ReadRequests <- MCReadRequests
  WriteRequests <- FewWrites
  WriteData <- FullData
  CoreInputs <- OneInput
INVARIANTS
  CommandRegistersReadable
