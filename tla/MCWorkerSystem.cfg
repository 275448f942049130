SPECIFICATION Spec
CONSTANTS
  WORD_SIZE = 256
  NUM_REGISTERS = 4
  BOOT_ADDR = 8
  PC_STEP = 4
  MemCells <- MCMemCells
  AluCtrl <- MCAluCtrl
  Decode <- MCDecode
  AluResult <- MCAluResult
  StoreStrobe <- MCStoreStrobe
  StoreData <- MCStoreData
  LoadValues <- MCLoadValues
  InjectedValue <- MCInjectedValue
  MergeLanes <- MCMergeLanes
  Programs <- MCPrograms
  CmPcs = {12}
  CmRegs = {1}
  CmValues = {1}
  FaultModes = {2}
  Calls = {"start", "stop", "step", "pc_read", "debug_vector_read", "regfile_read", "pc_set", "regfile_write", "fault_inject"}
  HostPaced = TRUE
  MaxOwed = 2
INVARIANTS
  TypeOK
  StepsAreExact
  WritesTakeEffect
  ReadsAreCurrent
PROPERTIES
  ImplementsCoreSystem
