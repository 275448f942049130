SPECIFICATION LiveSpec
CONSTANTS
  WORD_SIZE = 256
  NUM_REGISTERS = 4
  BOOT_ADDR = 8
  PC_STEP = 4
  MemCells <- MCMemCells
  AluCtrl <- MCAluCtrl
  Decode <- MCDecode
  AluResult <- MCAluResult
  StoreStrobe <- MCStoreStrobe
  StoreData <- MCStoreData
  LoadValues <- MCLoadValues
  InjectedValue <- MCInjectedValue
  MergeLanes <- MCMergeLanes
  Programs <- MCPrograms
  CmPcs = {}
  CmRegs = {}
  CmValues = {}
  FaultModes = {}
  Calls = {"step", "stop", "debug_vector_read"}
  HostPaced = TRUE
  MaxOwed = 2
PROPERTIES
  CallsReturn
  StepsComplete
