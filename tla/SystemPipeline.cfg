SPECIFICATION Spec
CONSTANTS
  Reg = {0, 1, 2, 3}
  WordMod = 4
  UpperScale = 4
  A0 = 1
  A1 = 2
  A2 = 2
  A7 = 3
  SYSCALL_PRINT_INT = 1
  SYSCALL_WRITE = 2
  BitOr <- MCBitOr
  LoadedCode <- MCCode
  InitialState <- MCState
INVARIANTS
  TypeOK
PROPERTIES
  RunsInOrder
CHECK_DEADLOCK FALSE
