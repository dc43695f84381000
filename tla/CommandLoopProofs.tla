-------------------------- MODULE CommandLoopProofs --------------------------
(***************************************************************************)
(* The two threads, for every number of flush ticks and every queue bound: *)
(* the flag that guards STEP, UNDO and REDO covers the VM thread, and no   *)
(* thread sleeps through input.                                            *)
(***************************************************************************)
EXTENDS CommandLoopProperties, TLAPS

LEMMA TypeInit == Init => TypeOK
<1> SUFFICES ASSUME Init PROVE TypeOK
  OBVIOUS
<1>1. program_calls \subseteq {"read", "exit"} /\ configured_mode \in Mode
  BY DEF Init
<1>2. flush_cycles \in 0 .. FlushTicks /\ input_queue_ \in 0 .. QueueCap /\ cycle_s_ \in 0 .. 1
  BY CommandLoopAssumption DEF Init
<1>3. /\ vm_running \in BOOLEAN /\ stop_requested_ \in BOOLEAN /\ running_ \in BOOLEAN
      /\ at_end \in BOOLEAN /\ pipeline_empty \in BOOLEAN
  BY DEF Init
<1>4. /\ command_at \in {"read", "join", "exit_join", "exited"}
      /\ requested_fn \in Fn /\ vm_fn \in Fn /\ pipeline_mode \in Mode
      /\ vm_at = "none" /\ resume_at = "main"
  BY DEF Init, Fn, Mode
<1> QED
  BY <1>1, <1>2, <1>3, <1>4 DEF TypeOK

LEMMA CommandStepTypes == TypeOK /\ (CommandThread \/ Join) => TypeOK'
<1> SUFFICES ASSUME TypeOK, CommandThread \/ Join PROVE TypeOK'
  OBVIOUS
<1> USE DEF TypeOK, Fn, Mode, commandVars, threadVars, modeVars, machineVars
<1>1. ASSUME NEW fn \in Fn, Launch(fn) PROVE TypeOK'
  <2>1. CASE vm_at = "none"
    BY <1>1, <2>1 DEF Launch, StartThread
  <2>2. CASE vm_at # "none"
    BY <1>1, <2>2 DEF Launch
  <2> QED BY <2>1, <2>2
<1>2. CASE RunCommand \/ DebugRunCommand \/ StepCommand
  BY <1>1, <1>2 DEF RunCommand, DebugRunCommand, StepCommand
<1>3. CASE Joined
  BY <1>3 DEF Joined, StartThread
<1>4. CASE StopCommand
  BY <1>4 DEF StopCommand
<1>5. CASE ExitCommand
  BY <1>5 DEF ExitCommand
<1>10. CASE Exited
  BY <1>10 DEF Exited
<1>8. CASE ModifyConfig
  BY <1>8 DEF ModifyConfig
<1>11. CASE ResetCommand
  <2>1. at_end' \in BOOLEAN /\ pipeline_empty' \in BOOLEAN
    BY <1>11 DEF ResetCommand
  <2>3. cycle_s_' = 0
    BY <1>11 DEF ResetCommand
  <2>2. UNCHANGED <<commandVars, threadVars, modeVars, stop_requested_, running_,
                    program_calls, input_queue_>>
    BY <1>11 DEF ResetCommand
  <2> QED BY <2>1, <2>2, <2>3
<1>9. CASE LoadCommand
  <2>1. program_calls' \subseteq {"read", "exit"} /\ at_end' \in BOOLEAN
    BY <1>9 DEF LoadCommand
  <2> QED BY <1>9, <2>1 DEF LoadCommand
<1>6. CASE UndoOrRedo
  BY <1>6 DEF UndoOrRedo
<1>7. CASE PushInput
  BY <1>7, CommandLoopAssumption DEF PushInput
<1> QED
  BY <1>2, <1>3, <1>4, <1>5, <1>6, <1>7, <1>8, <1>9, <1>10, <1>11
  DEF CommandThread, Join

LEMMA TickTypes ==
    ASSUME TypeOK, NEW mode, NEW next \in {"main", "flush", "returned"}, Tick(mode, next)
    PROVE  /\ vm_at' \in {"main", "flush", "input", "returned"}
           /\ resume_at' \in {"main", "flush", "returned"}
           /\ at_end' \in BOOLEAN /\ pipeline_empty' \in BOOLEAN /\ cycle_s_' \in 0 .. 1
BY DEF TypeOK, Tick, CompleteTick, BeginRead, machineVars

LEMMA VmStepTypes == TypeOK /\ VmThread => TypeOK'
<1> SUFFICES ASSUME TypeOK, VmThread PROVE TypeOK'
  OBVIOUS
<1> USE DEF commandVars, threadVars, modeVars, machineVars
<1>1. CASE BeginRun \/ BeginDebugRun
  BY <1>1 DEF BeginRun, BeginDebugRun, TypeOK, Fn, Mode
<1>2. CASE BeginStep
  <2>1. CASE StepReturnsAtOnce
    BY <1>2, <2>1 DEF BeginStep, TypeOK, Fn, Mode
  <2>2. CASE ~StepReturnsAtOnce
    <3>1. Tick(configured_mode, "returned")
      BY <1>2, <2>2 DEF BeginStep
    <3>2. /\ vm_at' \in {"main", "flush", "input", "returned"}
          /\ resume_at' \in {"main", "flush", "returned"}
          /\ at_end' \in BOOLEAN /\ pipeline_empty' \in BOOLEAN /\ cycle_s_' \in 0 .. 1
      BY <3>1, TickTypes
    <3> QED BY <1>2, <3>2 DEF BeginStep, TypeOK, Fn, Mode
  <2> QED BY <2>1, <2>2
<1>3. CASE MainLoopTick
  <2>1. Tick(pipeline_mode, "main")
    BY <1>3 DEF MainLoopTick
  <2>2. /\ vm_at' \in {"main", "flush", "input", "returned"}
        /\ resume_at' \in {"main", "flush", "returned"}
        /\ at_end' \in BOOLEAN /\ pipeline_empty' \in BOOLEAN /\ cycle_s_' \in 0 .. 1
    BY <2>1, TickTypes
  <2> QED BY <1>3, <2>2 DEF MainLoopTick, TypeOK, Fn, Mode
<1>4. CASE LeaveMainLoop
  BY <1>4, CommandLoopAssumption DEF LeaveMainLoop, TypeOK, Fn, Mode
<1>5. CASE FlushLoopTick
  <2>1. Tick(pipeline_mode, "flush") /\ flush_cycles > 0
    BY <1>5 DEF FlushLoopTick, FlushLoopGuard
  <2>2. /\ vm_at' \in {"main", "flush", "input", "returned"}
        /\ resume_at' \in {"main", "flush", "returned"}
        /\ at_end' \in BOOLEAN /\ pipeline_empty' \in BOOLEAN /\ cycle_s_' \in 0 .. 1
    BY <2>1, TickTypes
  <2>3. flush_cycles' \in 0 .. FlushTicks
    BY <1>5, <2>1, CommandLoopAssumption DEF FlushLoopTick, TypeOK
  <2> QED BY <1>5, <2>2, <2>3 DEF FlushLoopTick, TypeOK, Fn, Mode
<1>6. CASE ReturnFromRun
  <2>1. running_' \in BOOLEAN /\ vm_at' = "returned"
    BY <1>6 DEF ReturnFromRun
  <2>2. flush_cycles' \in 0 .. FlushTicks
    BY <1>6, CommandLoopAssumption DEF ReturnFromRun
  <2>3. UNCHANGED <<commandVars, vm_fn, vm_running, resume_at, modeVars, stop_requested_,
                    machineVars, program_calls, input_queue_>>
    BY <1>6 DEF ReturnFromRun
  <2> QED BY <2>1, <2>2, <2>3 DEF TypeOK, Fn, Mode
<1>9. CASE EndThread
  <2>1. vm_running' \in BOOLEAN /\ vm_at' = "finished"
    BY <1>9 DEF EndThread
  <2>2. UNCHANGED <<commandVars, vm_fn, resume_at, flush_cycles, modeVars, stop_requested_,
                    running_, machineVars, program_calls, input_queue_>>
    BY <1>9 DEF EndThread
  <2> QED BY <2>1, <2>2 DEF TypeOK, Fn, Mode
<1>10. CASE Sleep
  BY <1>10 DEF Sleep, TypeOK, Fn, Mode
<1>7. CASE TakeInput
  <2>1. input_queue_' \in 0 .. QueueCap
    BY <1>7, CommandLoopAssumption DEF TakeInput, TypeOK
  <2> QED BY <1>7, <2>1 DEF TakeInput, CompleteTick, TypeOK, Fn, Mode
<1>8. CASE ExitSyscall
  BY <1>8 DEF ExitSyscall, TypeOK, Fn, Mode
<1> QED
  BY <1>1, <1>2, <1>3, <1>4, <1>5, <1>6, <1>7, <1>8, <1>9, <1>10 DEF VmThread

\* The threads, the flags, the queue and the flush counter stay well formed under
\* every interleaving of commands and VM thread.
THEOREM CommandLoopTypeCorrect == Spec => []TypeOK
<1>1. TypeOK /\ [Next]_vars => TypeOK'
  <2>1. TypeOK /\ UNCHANGED vars => TypeOK'
    BY DEF TypeOK, vars, commandVars, threadVars, modeVars, machineVars
  <2> QED BY <2>1, CommandStepTypes, VmStepTypes DEF Next
<1> QED BY <1>1, TypeInit, PTL DEF Spec

-----------------------------------------------------------------------------
LEMMA CoversStep == RunningFlagCovers /\ [Next]_vars => RunningFlagCovers'
<1> SUFFICES ASSUME RunningFlagCovers, [Next]_vars PROVE RunningFlagCovers'
  OBVIOUS
<1> USE DEF RunningFlagCovers, commandVars, threadVars
<1>1. ASSUME NEW fn \in Fn, Launch(fn) PROVE RunningFlagCovers'
  <2>1. CASE vm_at = "none"
    BY <1>1, <2>1 DEF Launch, StartThread
  <2>2. CASE vm_at # "none"
    BY <1>1, <2>2 DEF Launch
  <2> QED BY <2>1, <2>2
<1>2. CASE RunCommand \/ DebugRunCommand \/ StepCommand
  BY <1>1, <1>2 DEF RunCommand, DebugRunCommand, StepCommand, Fn
<1>3. CASE Joined
  BY <1>3 DEF Joined, StartThread
<1>4. CASE StopCommand \/ ExitCommand \/ Exited \/ ModifyConfig \/ LoadCommand \/ ResetCommand
           \/ UndoOrRedo
  BY <1>4 DEF StopCommand, ExitCommand, Exited, ModifyConfig, LoadCommand, ResetCommand, UndoOrRedo
<1>5. CASE PushInput
  BY <1>5 DEF PushInput
<1>6. CASE BeginRun \/ BeginDebugRun
  BY <1>6 DEF BeginRun, BeginDebugRun
<1>7. CASE BeginStep
  BY <1>7 DEF BeginStep, Tick, CompleteTick, BeginRead
<1>8. CASE MainLoopTick \/ LeaveMainLoop \/ FlushLoopTick \/ ReturnFromRun \/ EndThread
  BY <1>8 DEF MainLoopTick, LeaveMainLoop, FlushLoopTick, ReturnFromRun, EndThread,
              Tick, CompleteTick, BeginRead
<1>9. CASE Sleep \/ TakeInput \/ ExitSyscall
  BY <1>9 DEF Sleep, TakeInput, ExitSyscall, CompleteTick
<1>10. CASE UNCHANGED vars
  BY <1>10 DEF vars
<1> QED
  BY <1>2, <1>3, <1>4, <1>5, <1>6, <1>7, <1>8, <1>9, <1>10
  DEF Next, CommandThread, Join, VmThread

\* While a VM thread is at work on the machine, vm_running is up, so that STEP,
\* UNDO and REDO stay away from it: also while launch_vm_thread hands over from
\* one thread to the next.
THEOREM RunningFlagAlwaysCovers == Spec => []RunningFlagCovers
<1>1. Init => RunningFlagCovers
  BY DEF Init, RunningFlagCovers
<1> QED BY <1>1, CoversStep, PTL DEF Spec

-----------------------------------------------------------------------------
\* The safety half of InputDelivered.
NobodySleepsOnInput == vm_at = "asleep" => input_queue_ = 0

LEMMA SleepStep == TypeOK /\ NobodySleepsOnInput /\ [Next]_vars => NobodySleepsOnInput'
<1> SUFFICES ASSUME TypeOK, NobodySleepsOnInput, [Next]_vars PROVE NobodySleepsOnInput'
  OBVIOUS
<1> USE DEF NobodySleepsOnInput, commandVars, threadVars
<1>1. ASSUME NEW fn \in Fn, Launch(fn) PROVE NobodySleepsOnInput'
  BY <1>1 DEF Launch, StartThread
<1>2. CASE RunCommand \/ DebugRunCommand \/ StepCommand
  BY <1>1, <1>2 DEF RunCommand, DebugRunCommand, StepCommand, Fn
<1>3. CASE Joined
  BY <1>3 DEF Joined, StartThread
<1>4. CASE StopCommand \/ ExitCommand \/ Exited \/ ModifyConfig \/ LoadCommand \/ ResetCommand
           \/ UndoOrRedo
  BY <1>4 DEF StopCommand, ExitCommand, Exited, ModifyConfig, LoadCommand, ResetCommand, UndoOrRedo
<1>5. CASE PushInput
  BY <1>5 DEF PushInput
<1>6. CASE BeginRun \/ BeginDebugRun
  BY <1>6 DEF BeginRun, BeginDebugRun
<1>7. CASE BeginStep
  BY <1>7 DEF BeginStep, Tick, CompleteTick, BeginRead
<1>8. CASE MainLoopTick \/ LeaveMainLoop \/ FlushLoopTick \/ ReturnFromRun \/ EndThread
  BY <1>8 DEF MainLoopTick, LeaveMainLoop, FlushLoopTick, ReturnFromRun, EndThread,
              Tick, CompleteTick, BeginRead
<1>9. CASE Sleep
  BY <1>9 DEF Sleep
<1>10. CASE TakeInput
  <2>1. resume_at # "asleep"
    BY DEF TypeOK
  <2> QED BY <1>10, <2>1 DEF TakeInput, CompleteTick
<1>11. CASE ExitSyscall
  BY <1>11 DEF ExitSyscall
<1>12. CASE UNCHANGED vars
  BY <1>12 DEF vars
<1> QED
  BY <1>2, <1>3, <1>4, <1>5, <1>6, <1>7, <1>8, <1>9, <1>10, <1>11, <1>12
  DEF Next, CommandThread, Join, VmThread

\* No wake-up is lost: whichever way a pushed line and a read cross each other, the
\* reader does not sleep while there is a line for it (PushInput and the wait of
\* HandleSyscall).
THEOREM NobodyEverSleepsOnInput == Spec => []NobodySleepsOnInput
<1>1. Init => NobodySleepsOnInput
  BY DEF Init, NobodySleepsOnInput
<1> QED BY <1>1, SleepStep, CommandLoopTypeCorrect, PTL DEF Spec

-----------------------------------------------------------------------------
(* What the threads wait for *)

\* The guards of the actions that are not the user's.
JoinReady ==
    \/ command_at = "join" /\ vm_at = "finished"
    \/ command_at = "exit_join" /\ vm_at \in {"none", "finished"}

VmThreadReady ==
    \/ vm_at = "launched" /\ vm_fn \in Fn
    \/ vm_at = "main"
    \/ vm_at = "flush" /\ (FlushLoopGuard \/ ~FlushLoopGuard)
    \/ vm_at = "returned"
    \/ vm_at = "input" /\ (input_queue_ = 0 \/ input_queue_ > 0)

\* The command thread joins no thread that is not there: launch_vm_thread asks
\* joinable() first.  The exit system call takes the join with it.
JoinsAThread == command_at = "join" => vm_at # "none"

\* No step is missing from the guards: a step of the join, or of the VM thread,
\* is taken where they say so.
LEMMA StepsAreReady ==
    TypeOK => /\ Join => JoinReady
              /\ VmThread => VmThreadReady
<1> SUFFICES ASSUME TypeOK
             PROVE  (Join => JoinReady) /\ (VmThread => VmThreadReady)
  OBVIOUS
<1>1. Join => JoinReady
  BY DEF Join, Joined, Exited, JoinReady
<1>2. vm_fn \in Fn
  BY DEF TypeOK
<1>3. BeginRun \/ BeginDebugRun \/ BeginStep => vm_at = "launched"
  BY DEF BeginRun, BeginDebugRun, BeginStep
<1>4. MainLoopTick \/ LeaveMainLoop => vm_at = "main"
  BY DEF MainLoopTick, LeaveMainLoop
<1>5. FlushLoopTick \/ ReturnFromRun => vm_at = "flush"
  BY DEF FlushLoopTick, ReturnFromRun
<1>6. Sleep \/ TakeInput => vm_at = "input" /\ (input_queue_ = 0 \/ input_queue_ > 0)
  BY DEF Sleep, TakeInput
<1>7. EndThread => vm_at = "returned"
  BY DEF EndThread
<1>8. ExitSyscall => vm_at \in {"launched", "main", "flush"}
  BY DEF ExitSyscall
<1>9. VmThread => VmThreadReady
  BY <1>2, <1>3, <1>4, <1>5, <1>6, <1>7, <1>8 DEF VmThread, VmThreadReady
<1> QED BY <1>1, <1>9

LEMMA JoinsStep == TypeOK /\ JoinsAThread /\ [Next]_vars => JoinsAThread'
<1> SUFFICES ASSUME TypeOK, JoinsAThread, [Next]_vars PROVE JoinsAThread'
  OBVIOUS
<1> USE DEF JoinsAThread, commandVars, threadVars
<1>1. ASSUME NEW fn \in Fn, Launch(fn) PROVE JoinsAThread'
  BY <1>1 DEF Launch, StartThread
<1>2. CASE RunCommand \/ DebugRunCommand \/ StepCommand
  BY <1>1, <1>2 DEF RunCommand, DebugRunCommand, StepCommand, Fn
<1>3. CASE Joined \/ Exited \/ ExitCommand
  BY <1>3 DEF Joined, StartThread, Exited, ExitCommand
<1>4. CASE StopCommand \/ ModifyConfig \/ LoadCommand \/ ResetCommand \/ UndoOrRedo
  BY <1>4 DEF StopCommand, ModifyConfig, LoadCommand, ResetCommand, UndoOrRedo
<1>5. CASE PushInput
  BY <1>5 DEF PushInput
<1>6. CASE BeginRun \/ BeginDebugRun
  BY <1>6 DEF BeginRun, BeginDebugRun
<1>7. CASE BeginStep \/ Sleep \/ TakeInput
  BY <1>7 DEF BeginStep, Sleep, TakeInput, Tick, CompleteTick, BeginRead, TypeOK
<1>8. CASE MainLoopTick \/ LeaveMainLoop \/ FlushLoopTick \/ ReturnFromRun \/ EndThread
  BY <1>8 DEF MainLoopTick, LeaveMainLoop, FlushLoopTick, ReturnFromRun, EndThread,
              Tick, CompleteTick, BeginRead
<1>9. CASE ExitSyscall
  BY <1>9 DEF ExitSyscall
<1>10. CASE UNCHANGED vars
  BY <1>10 DEF vars
<1> QED
  BY <1>2, <1>3, <1>4, <1>5, <1>6, <1>7, <1>8, <1>9, <1>10
  DEF Next, CommandThread, Join, VmThread

\* When neither thread can go on and the user is not asked for a command.
StuckJoinsTheSleeper ==
    ~JoinReady /\ ~VmThreadReady /\ command_at # "read"
    => \/ command_at = "exited"
       \/ Joining /\ vm_at = "asleep" /\ input_queue_ = 0

LEMMA StuckCases == TypeOK /\ NobodySleepsOnInput /\ JoinsAThread => StuckJoinsTheSleeper
<1> SUFFICES ASSUME TypeOK, NobodySleepsOnInput, JoinsAThread,
                    ~JoinReady, ~VmThreadReady, command_at \notin {"read", "exited"}
             PROVE  Joining /\ vm_at = "asleep" /\ input_queue_ = 0
  BY DEF StuckJoinsTheSleeper
<1>1. command_at \in {"join", "exit_join"} /\ vm_fn \in Fn
  BY DEF TypeOK
<1>2. vm_at \notin {"launched", "main", "flush", "returned"}
  BY <1>1 DEF VmThreadReady
<1>3. input_queue_ = 0 \/ input_queue_ > 0
  BY CommandLoopAssumption DEF TypeOK
<1>4. vm_at # "input"
  BY <1>3 DEF VmThreadReady
<1>5. vm_at \notin {"none", "finished"}
  BY <1>1 DEF JoinReady, JoinsAThread
<1>6. vm_at = "asleep"
  BY <1>2, <1>4, <1>5 DEF TypeOK
<1> QED BY <1>1, <1>6 DEF NobodySleepsOnInput, Joining

\* The guards' form of OnlyJoinDeadlocks: once the command thread waits, the
\* guards of both threads are false together in one state only, a join (of STOP
\* and start over, or of EXIT) of a thread that sleeps in a read.
THEOREM StuckOnlyInJoin == Spec => []StuckJoinsTheSleeper
<1>1. Init => JoinsAThread
  BY DEF Init, JoinsAThread
<1>2. Spec => []JoinsAThread
  BY <1>1, JoinsStep, CommandLoopTypeCorrect, PTL DEF Spec
<1> QED BY <1>2, StuckCases, CommandLoopTypeCorrect, NobodyEverSleepsOnInput, PTL

-----------------------------------------------------------------------------
(* What a stop does once the VM thread has begun *)

LEMMA StopStep ==
    ASSUME TypeOK, Next, Stopping, Joining'
    PROVE  Stopping' /\ StepsLeft[vm_at'] < StepsLeft[vm_at]
<1> USE DEF commandVars, threadVars
<1>1. /\ command_at \in {"join", "exit_join"} /\ command_at' \in {"join", "exit_join"}
      /\ stop_requested_ /\ vm_at # "launched"
  BY DEF Stopping, Joining
<1>2. ~CommandThread
  <2>1. ~RunCommand /\ ~DebugRunCommand /\ ~StepCommand
    BY <1>1 DEF RunCommand, DebugRunCommand, StepCommand, Launch
  <2>2. ~StopCommand /\ ~ExitCommand /\ ~ModifyConfig
    BY <1>1 DEF StopCommand, ExitCommand, ModifyConfig
  <2>3. ~LoadCommand /\ ~ResetCommand /\ ~UndoOrRedo /\ ~PushInput
    BY <1>1 DEF LoadCommand, ResetCommand, UndoOrRedo, PushInput
  <2> QED BY <2>1, <2>2, <2>3 DEF CommandThread
<1>3. ~Join
  BY <1>1 DEF Join, Joined, StartThread, Exited
<1>4. ~BeginRun /\ ~BeginDebugRun /\ ~BeginStep
  BY <1>1 DEF BeginRun, BeginDebugRun, BeginStep
<1>5. ~MainLoopTick /\ ~FlushLoopTick
  BY <1>1 DEF MainLoopTick, MainLoopGuard, FlushLoopTick, FlushLoopGuard
<1>6. ~ExitSyscall
  BY <1>1 DEF ExitSyscall
<1>7. LeaveMainLoop \/ ReturnFromRun \/ EndThread \/ Sleep \/ TakeInput
  BY <1>2, <1>3, <1>4, <1>5, <1>6 DEF Next, VmThread
<1>8. stop_requested_' /\ vm_at' # "launched"
  <2>1. CASE LeaveMainLoop \/ ReturnFromRun \/ EndThread \/ Sleep
    BY <1>1, <2>1 DEF LeaveMainLoop, ReturnFromRun, EndThread, Sleep
  <2>2. CASE TakeInput
    BY <1>1, <2>2 DEF TakeInput, CompleteTick, TypeOK
  <2> QED BY <1>7, <2>1, <2>2
<1>9. StepsLeft[vm_at'] < StepsLeft[vm_at]
  <2>1. CASE LeaveMainLoop
    BY <2>1 DEF LeaveMainLoop, StepsLeft
  <2>2. CASE ReturnFromRun
    BY <2>2 DEF ReturnFromRun, StepsLeft
  <2>3. CASE EndThread
    BY <2>3 DEF EndThread, StepsLeft
  <2>4. CASE Sleep
    BY <2>4 DEF Sleep, StepsLeft
  <2>5. CASE TakeInput
    <3>1. vm_at = "input" /\ vm_at' \in {"main", "flush", "returned"}
      BY <2>5 DEF TakeInput, CompleteTick, TypeOK
    <3> QED BY <3>1 DEF StepsLeft
  <2> QED BY <1>7, <2>1, <2>2, <2>3, <2>4, <2>5
<1> QED BY <1>8, <1>9 DEF Stopping

\* A stop that launch_vm_thread or EXIT requests after BeginRun has cleared the
\* flag holds until the join is over, and bounds what the VM thread still does:
\* at most five steps, one system call that had begun among them.
THEOREM StopAlwaysTakesHold == Spec => StopTakesHold
<1>1. TypeOK /\ [Next]_vars =>
          [Stopping /\ Joining' => Stopping' /\ StepsLeft[vm_at'] < StepsLeft[vm_at]]_vars
  BY StopStep
<1> QED BY <1>1, CommandLoopTypeCorrect, PTL DEF Spec, StopTakesHold
==============================================================================
