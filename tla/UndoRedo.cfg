SPECIFICATION SteppingSpec
CONSTANTS
  Reg = {0, 1}
  WordMod = 4
  UpperScale = 2
  TextSize = 4
  Program <- StepProgram
  ExecutionLimit = 1
  UndoCap = 3
  RetiredCap = 4
INVARIANTS
  TypeOK
PROPERTIES
  ImplementsTimeline
CHECK_DEADLOCK FALSE
