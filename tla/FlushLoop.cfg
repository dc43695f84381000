SPECIFICATION SpecOneProgram
CONSTANTS
  Reg = {0, 1, 2}
  WordMod = 8
  UpperScale = 4
  TextSize = 4
  Program <- DependentEndProgram
  Scenario <- DependentEndScenario
  Index <- MCIndex
  HistoryMod = 4
  ExecutionLimit = 6
  RetiredCap = 7
  PcBound = 8
INVARIANTS
  DrainedAtProgramEnd
CHECK_DEADLOCK FALSE
