-------------------------- MODULE DebuggerProperties --------------------------
(***************************************************************************)
(* What the debugger promises of its counters and of its loops.            *)
(***************************************************************************)
EXTENDS Debugger

\* Every delta on the undo stack was counted as an instruction: Undo, which
\* decrements the unsigned counter without looking at it, cannot wrap it
\* around, whatever was stepped, run, redone, reset or loaded before.
RetiredCoversUndo == instructions_retired_ >= Len(undo_stack_)

\* DebugRun and Run_single come to an end whatever the program does, wherever the
\* breakpoints are and without a stop request: their limit counts every
\* instruction, unlike that of Run_Pipelined, and a breakpoint leaves the loop.
\* Resets, loads and breakpoint commands in mid-loop cannot keep it going either,
\* because the count is the loop's own.
LoopsEnd == (run_phase # "idle") ~> (run_phase = "idle")
===============================================================================
