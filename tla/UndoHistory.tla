----------------------------- MODULE UndoHistory -----------------------------
(***************************************************************************)
(* Undo and redo against Timeline.  Its two variables, past and future, are*)
(* history variables here: they remember the states the stepping went      *)
(* through and do not influence the debugger.  The other variables of      *)
(* Timeline are those of the machine, which the debugger has too, so the   *)
(* refinement mapping is the identity.                                     *)
(***************************************************************************)
EXTENDS Debugger, Timeline

historyVars == <<vars, past, future>>

Remember == past' = Append(past, Present) /\ future' = << >>

Forget == past' = << >> /\ future' = << >>

\* Beyond what it remembers, the history starts anew.
GoBack ==
    IF past = << >> THEN Forget
    ELSE /\ past' = Rest(past)
         /\ future' = Append(future, Present)

GoForward ==
    IF future = << >> THEN Forget
    ELSE /\ past' = Append(past, Present)
         /\ future' = Rest(future)

HistoryInit == Init /\ past = << >> /\ future = << >>

SteppingNext ==
    \/ (StepCommand \/ DebugStep) /\ Remember
    \/ Undo /\ GoBack
    \/ Redo /\ GoForward
    \/ Reset /\ Forget
    \/ Bystander /\ UNCHANGED <<past, future>>

\* Stepping and debugging one loaded program.
SteppingSpec == HistoryInit /\ [][SteppingNext]_historyVars

\* A run or a load starts a new history.
HistoryNext ==
    \/ SteppingNext
    \/ (RunStep \/ LoadProgram) /\ Forget
    \/ (StartRun \/ EnterRunStep \/ EndRun) /\ UNCHANGED <<past, future>>

HistorySpec == HistoryInit /\ [][HistoryNext]_historyVars

-----------------------------------------------------------------------------
\* Stepping, undo and redo move along one line of states: undo restores exactly
\* the registers, the memory and the program counter the step started from, redo
\* exactly those it was undone in, and a new step makes redo impossible
\* (Step_single, Undo and Redo with their two stacks of deltas).
ImplementsTimeline == TimelineSpec

\* "Reverts the last executed step in the loaded file" (COMMANDS.md, undo): the
\* undo that follows a step restores the state the step began in.
UndoRevertsStep == [][Undo /\ past # << >> => Present' = Top(past)]_historyVars
==============================================================================
