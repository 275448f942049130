SPECIFICATION LiveSpec
CONSTANTS
  WORD_SIZE = 256
  NUM_REGISTERS = 32
  HOST_BASE = 327680
  ReadRequests <- FewReads
  WriteRequests <- FewWrites
  WriteData <- FullData
  CoreInputs <- OneInput
PROPERTIES
  ReadsAnswered
  WritesAnswered
