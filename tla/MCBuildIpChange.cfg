SPECIFICATION Spec
CONSTANTS
  Cores <- MCCores
  Boards <- MCBoards
  Contents <- MCContents
  FirmwareFiles <- MCFirmwareFiles
  MaxDisturbances = 1
  BoardsOf <- MCBoardsOf
  CommandLines <- MCCommandLines
PROPERTIES
  IpChangeRebuildsDiagram
