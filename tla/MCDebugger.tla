------------------------------ MODULE MCDebugger ------------------------------
(***************************************************************************)
(* Small programs for the debugger.                                        *)
(***************************************************************************)
EXTENDS DebuggerProperties, MCPrograms

\* A program that never ends by itself and a shorter one that does.
Endless == Assemble(<<Addi(1, 1, 1), Jal(0, -1)>>)
OneStore == Assemble(<<Sd(1, 0, 1)>>)
LoopProgram == {Endless, OneStore}
===============================================================================
