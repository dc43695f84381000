SPECIFICATION SpecOneProgram
CONSTANTS
  Reg = {0, 1, 2}
  WordMod = 8
  UpperScale = 4
  TextSize = 4
  Program <- TakenBranchProgram
  Scenario <- ForwardingBranchScenario
  Index <- MCIndex
  HistoryMod = 4
  ExecutionLimit = 6
  RetiredCap = 7
  PcBound = 8
PROPERTIES
  ImplementsMachine
CHECK_DEADLOCK FALSE
