SPECIFICATION LiveSpec
CONSTANTS
  WORD_SIZE = 256
  NUM_REGISTERS = 4
  BOOT_ADDR = 8
  PC_STEP = 4
  MemCells <- MCMemCells
  AluCtrl <- MCAluCtrl
  Decode <- MCDecode
  AluResult <- MCAluResult
  StoreStrobe <- MCStoreStrobe
  StoreData <- MCStoreData
  LoadValues <- MCLoadValues
  InjectedValue <- MCInjectedValue
  MergeLanes <- MCMergeLanes
  Programs <- MCLivePrograms
  CmPcs = {}
  CmRegs = {}
  CmValues = {}
PROPERTIES
  InstructionsComplete
  StopHalts
  StepsProgress
