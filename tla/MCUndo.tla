-------------------------------- MODULE MCUndo --------------------------------
(***************************************************************************)
(* Small programs for stepping, undo and redo.                             *)
(***************************************************************************)
EXTENDS UndoHistory, MCPrograms

\* Two writes of one register, a store over loaded data, a load from it, a loop.
StepPool == {Addi(1, 1, 1), Add(1, 1, 1), Ld(1, 0, 1), Sd(1, 0, 1), Jal(1, -1), Beq(1, 0, 2)}

StepProgram == Programs(StepPool, 3)

\* The first instruction is run, the second one stepped and undone.
TwoRegisters == Assemble(<<Addi(1, 0, 1), Addi(2, 0, 1)>>)
TwoRegistersProgram == {TwoRegisters}
===============================================================================
