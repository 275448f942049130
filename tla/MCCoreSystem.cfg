SPECIFICATION Spec
CONSTANTS
  WORD_SIZE = 256
  NUM_REGISTERS = 4
  BOOT_ADDR = 8
  PC_STEP = 4
  MemCells <- MCMemCells
  AluCtrl <- MCAluCtrl
  Decode <- MCDecode
  AluResult <- MCAluResult
  StoreStrobe <- MCStoreStrobe
  StoreData <- MCStoreData
  LoadValues <- MCLoadValues
  InjectedValue <- MCInjectedValue
  MergeLanes <- MCMergeLanes
  Programs <- MCPrograms
  CmPcs = {8, 16}
  CmRegs = {1}
  CmValues = {1}
INVARIANTS
  TypeOK
  OneInFlight
  NoOrphanTransaction
  InFlightIsCurrent
PROPERTIES
  AxiStable
  StopHolds
  ImplementsDebugCore
