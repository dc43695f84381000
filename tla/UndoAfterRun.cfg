SPECIFICATION HistorySpec
CONSTANTS
  Reg = {0, 1, 2}
  WordMod = 4
  UpperScale = 2
  TextSize = 3
  Program <- TwoRegistersProgram
  ExecutionLimit = 0
  UndoCap = 2
  RetiredCap = 4
PROPERTIES
  UndoRevertsStep
CHECK_DEADLOCK FALSE
