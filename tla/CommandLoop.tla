----------------------------- MODULE CommandLoop -----------------------------
(***************************************************************************)
(* The two threads of the interactive simulator.  The command thread reads *)
(* one command at a time; Run, DebugRun and Step execute in a VM thread    *)
(* that launch_vm_thread starts after it has stopped and joined the one    *)
(* before.  The VM thread can block in a read system call, which waits for *)
(* input that only the command thread pushes.                              *)
(*                                                                         *)
(* Abstractions.  Of the machine there is left whether the program counter *)
(* has passed the end, whether the pipeline is empty and whether the       *)
(* program reads or exits; what an instruction does to them is arbitrary,  *)
(* and a loop may leave at any instruction (limit, breakpoint).  The       *)
(* command line, the dumps, output_status_ and the commands that touch     *)
(* neither thread (breakpoints, registers, memory) are left out.           *)
(***************************************************************************)
EXTENDS Integers

CONSTANTS
    FlushTicks,   \* 5 in the code: flush_cycles runs from 4 down to 0
    QueueCap      \* bound: lines of input waiting

ASSUME CommandLoopAssumption == FlushTicks \in Nat /\ QueueCap \in Nat

VARIABLES
    command_at,       \* where the command thread is
    requested_fn,     \* the argument of launch_vm_thread while it joins
    vm_at,            \* where the VM thread is; "none" until there is one
    vm_fn,            \* the function it executes
    vm_running,
    resume_at,        \* where it goes on after a read
    flush_cycles,     \* ticks left in Run_Pipelined's second loop
    configured_mode, pipeline_mode,
    stop_requested_, running_,
    at_end,           \* program_counter_ >= program_size_
    pipeline_empty,
    program_calls,    \* the system calls the program makes
    input_queue_,     \* how many lines wait
    cycle_s_          \* modulo 2

commandVars == <<command_at, requested_fn>>
threadVars == <<vm_at, vm_fn, vm_running, resume_at, flush_cycles>>
modeVars == <<configured_mode, pipeline_mode>>
machineVars == <<at_end, pipeline_empty, cycle_s_>>
vars == <<commandVars, threadVars, modeVars, stop_requested_, running_, machineVars,
          program_calls, input_queue_>>

Fn == {"run", "debug", "step"}
Mode == {"single", "pipelined"}
Waiting == vm_at \in {"input", "asleep"}
Joining == command_at \in {"join", "exit_join"}

TypeOK ==
    /\ command_at \in {"read", "join", "exit_join", "exited"}
    /\ requested_fn \in Fn /\ vm_fn \in Fn
    /\ vm_at \in {"none", "launched", "main", "flush", "input", "asleep", "returned", "finished"}
    /\ resume_at \in {"main", "flush", "returned"}
    /\ vm_running \in BOOLEAN /\ stop_requested_ \in BOOLEAN /\ running_ \in BOOLEAN
    /\ flush_cycles \in 0 .. FlushTicks
    /\ configured_mode \in Mode /\ pipeline_mode \in Mode
    /\ at_end \in BOOLEAN /\ pipeline_empty \in BOOLEAN
    /\ program_calls \subseteq {"read", "exit"}
    /\ input_queue_ \in 0 .. QueueCap
    /\ cycle_s_ \in 0 .. 1

Init ==
    /\ command_at = "read" /\ requested_fn = "run"
    /\ vm_at = "none" /\ vm_fn = "run" /\ resume_at = "main"
    /\ vm_running = FALSE /\ flush_cycles = 0
    /\ configured_mode \in Mode /\ pipeline_mode = "single"
    /\ stop_requested_ = FALSE /\ running_ = FALSE
    /\ at_end = FALSE /\ pipeline_empty = TRUE /\ cycle_s_ = 0
    /\ program_calls \in SUBSET {"read", "exit"}
    /\ input_queue_ = 0

-----------------------------------------------------------------------------
(* The command thread *)

\* Mutant: the flag is left to the new thread to raise.
StartThreadFlagLate(fn) ==
    /\ command_at' = "read"
    /\ vm_at' = "launched"
    /\ vm_fn' = fn
    /\ UNCHANGED <<requested_fn, vm_running>>

StartThread(fn) ==
    /\ command_at' = "read"
    /\ vm_running' = TRUE
    /\ vm_at' = "launched"
    /\ vm_fn' = fn
    /\ UNCHANGED requested_fn

\* launch_vm_thread: a thread that was not joined yet, ended or not, is asked
\* to stop first.
Launch(fn) ==
    /\ command_at = "read"
    /\ IF vm_at = "none"
       THEN StartThread(fn) /\ UNCHANGED stop_requested_
       ELSE /\ stop_requested_' = TRUE
            /\ command_at' = "join"
            /\ requested_fn' = fn
            /\ UNCHANGED <<vm_at, vm_fn, vm_running>>
    /\ UNCHANGED <<resume_at, flush_cycles, modeVars, running_, machineVars, program_calls,
                   input_queue_>>

RunCommand == Launch("run")
DebugRunCommand == Launch("debug")
StepCommand == ~vm_running /\ Launch("step")

Joined ==
    /\ command_at = "join" /\ vm_at = "finished"
    /\ StartThread(requested_fn)
    /\ UNCHANGED <<resume_at, flush_cycles, modeVars, stop_requested_, running_, machineVars,
                   program_calls, input_queue_>>

StopCommand ==
    /\ command_at = "read"
    /\ stop_requested_' = TRUE
    /\ UNCHANGED <<commandVars, threadVars, modeVars, running_, machineVars, program_calls,
                   input_queue_>>

ExitCommand ==
    /\ command_at = "read"
    /\ stop_requested_' = TRUE
    /\ command_at' = "exit_join"
    /\ UNCHANGED <<requested_fn, threadVars, modeVars, running_, machineVars, program_calls,
                   input_queue_>>

Exited ==
    /\ command_at = "exit_join" /\ vm_at \in {"none", "finished"}
    /\ command_at' = "exited"
    /\ UNCHANGED <<requested_fn, threadVars, modeVars, stop_requested_, running_, machineVars,
                   program_calls, input_queue_>>

ModifyConfig ==
    /\ command_at = "read"
    /\ configured_mode' \in Mode
    /\ UNCHANGED <<commandVars, threadVars, pipeline_mode, stop_requested_, running_,
                   machineVars, program_calls, input_queue_>>

\* LOAD keeps the program counter and the latches, and does not wait for a
\* running thread; neither does RESET.
LoadCommand ==
    /\ command_at = "read"
    /\ at_end' \in BOOLEAN
    /\ program_calls' \in SUBSET {"read", "exit"}
    /\ UNCHANGED <<commandVars, threadVars, modeVars, stop_requested_, running_,
                   pipeline_empty, cycle_s_, input_queue_>>

ResetCommand ==
    /\ command_at = "read"
    /\ at_end' = FALSE /\ pipeline_empty' = TRUE /\ cycle_s_' = 0
    /\ UNCHANGED <<commandVars, threadVars, modeVars, stop_requested_, running_, program_calls,
                   input_queue_>>

\* Undo and Redo, when there is a delta to apply.
UndoOrRedo ==
    /\ command_at = "read"
    /\ ~vm_running
    /\ at_end' \in BOOLEAN
    /\ cycle_s_' = 1 - cycle_s_
    /\ UNCHANGED <<commandVars, threadVars, modeVars, stop_requested_, running_,
                   pipeline_empty, program_calls, input_queue_>>

\* Mutant: the input is queued and nobody is told.
PushInputSilently ==
    /\ command_at = "read"
    /\ input_queue_ < QueueCap
    /\ input_queue_' = input_queue_ + 1
    /\ UNCHANGED <<commandVars, threadVars, modeVars, stop_requested_, running_, machineVars,
                   program_calls>>

\* VM_STDIN: PushInput queues a line and notifies the condition variable.
PushInput ==
    /\ command_at = "read"
    /\ input_queue_ < QueueCap
    /\ input_queue_' = input_queue_ + 1
    /\ vm_at' = IF vm_at = "asleep" THEN "input" ELSE vm_at
    /\ UNCHANGED <<commandVars, vm_fn, vm_running, resume_at, flush_cycles, modeVars,
                   stop_requested_, running_, machineVars, program_calls>>

CommandThread ==
    \/ RunCommand \/ DebugRunCommand \/ StepCommand \/ StopCommand \/ ExitCommand
    \/ ModifyConfig \/ LoadCommand \/ ResetCommand \/ UndoOrRedo \/ PushInput

Join == Joined \/ Exited

-----------------------------------------------------------------------------
(* The VM thread: the beginning of Run, DebugRun and Step *)

BeginRun ==
    /\ vm_at = "launched" /\ vm_fn = "run"
    /\ pipeline_mode' = configured_mode
    /\ stop_requested_' = FALSE
    /\ running_' = TRUE
    /\ vm_at' = "main"
    /\ UNCHANGED <<commandVars, vm_fn, vm_running, resume_at, flush_cycles, configured_mode,
                   machineVars, program_calls, input_queue_>>

\* DebugRun is for Mode 0 only, and returns before it clears the stop request.
BeginDebugRun ==
    /\ vm_at = "launched" /\ vm_fn = "debug"
    /\ pipeline_mode' = configured_mode
    /\ IF configured_mode = "single"
       THEN stop_requested_' = FALSE /\ running_' = TRUE /\ vm_at' = "main"
       ELSE vm_at' = "returned" /\ UNCHANGED <<stop_requested_, running_>>
    /\ UNCHANGED <<commandVars, vm_fn, vm_running, resume_at, flush_cycles, configured_mode,
                   machineVars, program_calls, input_queue_>>

\* An instruction (Mode 0) or a clock tick completes, and the thread goes on.
CompleteTick(mode, next) ==
    /\ at_end' \in BOOLEAN
    /\ pipeline_empty' \in (IF mode = "single" THEN {pipeline_empty} ELSE BOOLEAN)
    /\ cycle_s_' = 1 - cycle_s_
    /\ vm_at' = next

\* HandleSyscall, read: the tick is completed when there is input.
BeginRead(next) ==
    /\ "read" \in program_calls
    /\ vm_at' = "input"
    /\ resume_at' = next
    /\ UNCHANGED machineVars

Tick(mode, next) ==
    \/ CompleteTick(mode, next) /\ UNCHANGED resume_at
    \/ BeginRead(next)

\* Step and Step_single
NothingLeft == at_end /\ (configured_mode = "single" \/ pipeline_empty)

StepReturnsAtOnce ==
    NothingLeft \/ (configured_mode = "pipelined" /\ (running_ \/ stop_requested_))

BeginStep ==
    /\ vm_at = "launched" /\ vm_fn = "step"
    /\ pipeline_mode' = configured_mode
    /\ IF StepReturnsAtOnce
       THEN vm_at' = "returned" /\ UNCHANGED <<machineVars, resume_at>>
       ELSE Tick(configured_mode, "returned")
    /\ UNCHANGED <<commandVars, vm_fn, vm_running, flush_cycles, configured_mode,
                   stop_requested_, running_, program_calls, input_queue_>>

(* The loops of Run_single, DebugRun and Run_Pipelined *)

\* Mutant: the loop does not look at the stop request.
MainLoopGuardDeaf == ~at_end

MainLoopGuard == ~stop_requested_ /\ ~at_end

MainLoopTick ==
    /\ vm_at = "main"
    /\ MainLoopGuard
    /\ Tick(pipeline_mode, "main")
    /\ UNCHANGED <<commandVars, vm_fn, vm_running, flush_cycles, modeVars, stop_requested_,
                   running_, program_calls, input_queue_>>

\* The guard is false, the execution limit is reached or a breakpoint is hit.
LeaveMainLoop ==
    /\ vm_at = "main"
    /\ vm_at' = "flush"
    /\ flush_cycles' = IF pipeline_mode = "pipelined" THEN FlushTicks ELSE 0
    /\ UNCHANGED <<commandVars, vm_fn, vm_running, resume_at, modeVars, stop_requested_,
                   running_, machineVars, program_calls, input_queue_>>

\* Mutant: one tick too many.
FlushLoopGuardOffByOne == flush_cycles >= 0 /\ ~stop_requested_

FlushLoopGuard == flush_cycles > 0 /\ ~stop_requested_

FlushLoopTick ==
    /\ vm_at = "flush"
    /\ FlushLoopGuard
    /\ Tick(pipeline_mode, "flush")
    /\ flush_cycles' = flush_cycles - 1
    /\ UNCHANGED <<commandVars, vm_fn, vm_running, modeVars, stop_requested_, running_,
                   program_calls, input_queue_>>

ReturnFromRun ==
    /\ vm_at = "flush"
    /\ ~FlushLoopGuard
    /\ running_' = FALSE
    /\ flush_cycles' = 0
    /\ vm_at' = "returned"
    /\ UNCHANGED <<commandVars, vm_fn, vm_running, resume_at, modeVars, stop_requested_,
                   machineVars, program_calls, input_queue_>>

\* The last statement of the thread.
EndThread ==
    /\ vm_at = "returned"
    /\ vm_running' = FALSE
    /\ vm_at' = "finished"
    /\ UNCHANGED <<commandVars, vm_fn, resume_at, flush_cycles, modeVars, stop_requested_,
                   running_, machineVars, program_calls, input_queue_>>

(* HandleSyscall *)

\* Mutant: the reader goes to sleep without looking at the queue.
SleepAlways ==
    /\ vm_at = "input"
    /\ vm_at' = "asleep"
    /\ UNCHANGED <<commandVars, vm_fn, vm_running, resume_at, flush_cycles, modeVars,
                   stop_requested_, running_, machineVars, program_calls, input_queue_>>

\* input_cv_.wait: the queue is looked at under the mutex PushInput takes.
Sleep ==
    /\ vm_at = "input"
    /\ input_queue_ = 0
    /\ vm_at' = "asleep"
    /\ UNCHANGED <<commandVars, vm_fn, vm_running, resume_at, flush_cycles, modeVars,
                   stop_requested_, running_, machineVars, program_calls, input_queue_>>

TakeInput ==
    /\ vm_at = "input"
    /\ input_queue_ > 0
    /\ input_queue_' = input_queue_ - 1
    /\ CompleteTick(pipeline_mode, resume_at)
    /\ UNCHANGED <<commandVars, vm_fn, vm_running, resume_at, flush_cycles, modeVars,
                   stop_requested_, running_, program_calls>>

\* The exit system call ends the process, whatever the command thread is at.
ExitSyscall ==
    /\ \/ vm_at = "launched" /\ vm_fn = "step" /\ ~StepReturnsAtOnce
       \/ vm_at = "main" /\ MainLoopGuard
       \/ vm_at = "flush" /\ FlushLoopGuard
    /\ "exit" \in program_calls
    /\ stop_requested_' = TRUE
    /\ command_at' = "exited" /\ vm_at' = "none"
    /\ UNCHANGED <<requested_fn, vm_fn, vm_running, resume_at, flush_cycles, modeVars, running_,
                   machineVars, program_calls, input_queue_>>

VmThread ==
    \/ BeginRun \/ BeginDebugRun \/ BeginStep
    \/ MainLoopTick \/ LeaveMainLoop \/ FlushLoopTick \/ ReturnFromRun \/ EndThread
    \/ Sleep \/ TakeInput \/ ExitSyscall

-----------------------------------------------------------------------------
Next == CommandThread \/ Join \/ VmThread

Spec == Init /\ [][Next]_vars

\* Both threads are scheduled; the user need not type anything.
FairSpec == Spec /\ WF_vars(VmThread) /\ WF_vars(Join)

\* The user does nothing but step.
SteppingSpec == Init /\ [][StepCommand \/ Join \/ VmThread]_vars
=============================================================================
