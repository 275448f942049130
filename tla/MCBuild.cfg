SPECIFICATION Spec
CONSTANTS
  Cores <- MCCores
  Boards <- MCBoards
  Contents <- MCContents
  FirmwareFiles <- MCFirmwareFiles
  MaxDisturbances = 1
  BoardsOf <- MCBoardsOf
  CommandLines <- MCCommandLines
INVARIANTS
  BuildTypeOK
PROPERTIES
  SkipsAreFresh
  FreshIpIsNotRebuilt
  CompletedBuildIsFresh
