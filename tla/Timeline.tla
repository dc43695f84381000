------------------------------- MODULE Timeline -------------------------------
(***************************************************************************)
(* What single-stepping with undo and redo promises: the machine moves     *)
(* along a line of states.  A step extends the line and forgets what was   *)
(* undone, undo goes back to exactly the state the last step started from, *)
(* redo goes forward to exactly the state it was undone in.                *)
(***************************************************************************)
EXTENDS Machine, Sequences

VARIABLES
    past,    \* the states behind the present one, oldest first
    future   \* the states ahead of it, the nearest last

timelineVars == <<machineVars, past, future>>

Present == [program_counter |-> program_counter, gpr |-> gpr, memory |-> memory]

Become(s) ==
    /\ program_counter' = s.program_counter
    /\ gpr' = s.gpr
    /\ memory' = s.memory
    /\ UNCHANGED text

Top(stack) == stack[Len(stack)]
Rest(stack) == SubSeq(stack, 1, Len(stack) - 1)

TimelineInit ==
    /\ MachineInit
    /\ past = << >> /\ future = << >>

Ahead ==
    /\ ExecuteInstruction
    /\ past' = Append(past, Present)
    /\ future' = << >>

Back ==
    /\ past # << >>
    /\ Become(Top(past))
    /\ past' = Rest(past)
    /\ future' = Append(future, Present)

Again ==
    /\ future # << >>
    /\ Become(Top(future))
    /\ future' = Rest(future)
    /\ past' = Append(past, Present)

StartAfresh ==
    /\ ResetMachine
    /\ past' = << >> /\ future' = << >>

TimelineNext == Ahead \/ Back \/ Again \/ StartAfresh

TimelineSpec == TimelineInit /\ [][TimelineNext]_timelineVars
===============================================================================
