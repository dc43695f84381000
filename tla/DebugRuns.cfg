SPECIFICATION FairSpec
CONSTANTS
  Reg = {0, 1}
  WordMod = 4
  UpperScale = 2
  TextSize = 3
  Program <- LoopProgram
  ExecutionLimit = 1
  UndoCap = 2
  RetiredCap = 1
INVARIANTS
  RetiredCoversUndo
PROPERTIES
  LoopsEnd
CHECK_DEADLOCK FALSE
