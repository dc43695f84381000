------------------------ MODULE CommandLoopProperties ------------------------
(***************************************************************************)
(* What the two threads promise each other.                                *)
(***************************************************************************)
EXTENDS CommandLoop

\* Undo, Redo and Step look only at vm_running, a flag that two threads write:
\* it is up for as long as a VM thread is at work on the machine, the
\* handover from a stopped thread to the next one included.
RunningFlagCovers ==
    vm_at \in {"launched", "main", "flush", "input", "asleep", "returned"} => vm_running

\* The command thread gets out of every join, of EXIT ("ensure clean exit") as
\* of launch_vm_thread, if the stop it requested reached the loop, which a stop
\* before ClearStop does not, and if the program waits for no input.
JoinEnds ==
    (/\ command_at \in {"join", "exit_join"}
     /\ stop_requested_ /\ vm_at # "launched"
     /\ "read" \notin program_calls /\ ~Waiting)
    ~> command_at \in {"read", "exited"}

\* What is left of a VM thread that was told to stop and has heard it.
Stopping == Joining /\ stop_requested_ /\ vm_at # "launched"
StepsLeft ==
    [at \in {"input", "asleep", "main", "flush", "returned", "finished", "none"} |->
        CASE at = "input"    -> 6
          [] at = "asleep"   -> 5
          [] at = "main"     -> 4
          [] at = "flush"    -> 3
          [] at = "returned" -> 2
          [] at = "finished" -> 1
          [] at = "none"     -> 0]

\* The safety half of JoinEnds, for reading programs too: while the command
\* thread joins, nobody takes the stop back, the VM thread starts no instruction
\* or clock tick, and each of its steps brings it nearer to its end.
StopTakesHold ==
    [][ Stopping /\ Joining' =>
            Stopping' /\ StepsLeft[vm_at'] < StepsLeft[vm_at] ]_vars

\* A line that was pushed reaches the program that waits for one, whether it was
\* pushed before the read began, while the reader looked, or while it slept.
InputDelivered == (Waiting /\ input_queue_ > 0) ~> (~Waiting \/ command_at = "exited")

\* The two threads block each other in one way only: the command thread joins
\* a thread that sleeps until the command thread pushes input.
OnlyJoinDeadlocks ==
    ~ENABLED (Join \/ VmThread) /\ command_at # "read"
    => \/ command_at = "exited"
       \/ Joining /\ vm_at = "asleep" /\ input_queue_ = 0

\* "step: Executes the next step in the loaded file." A step that returns has
\* executed an instruction or a clock tick, unless there was none left.
StepExecutes ==
    [][ vm_fn = "step" /\ vm_at = "launched" /\ vm_at' = "returned" /\ ~NothingLeft
        => cycle_s_' # cycle_s_ ]_vars
==============================================================================
