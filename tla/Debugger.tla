------------------------------- MODULE Debugger -------------------------------
(***************************************************************************)
(* The single-cycle machine of RVSSVM (Mode 0) under the debugger commands:*)
(* Step_single, Undo, Redo, DebugRun with its breakpoints, Run_single,     *)
(* Reset, LoadProgram and Stop.  A step records what it changed in a       *)
(* delta; undo and redo move deltas between two stacks.                    *)
(*                                                                         *)
(* DebugRun and Run_single execute in a thread of their own, which looks   *)
(* at the loop's conditions and then executes an instruction.  Stop, Reset,*)
(* LoadProgram and the breakpoint commands come before and after each of   *)
(* the two; the command loop refuses step, undo and redo meanwhile.        *)
(***************************************************************************)
EXTENDS Machine, Sequences

CONSTANTS
    ExecutionLimit,  \* instruction_execution_limit of the configuration
    UndoCap,         \* bound: no step or run starts that could exceed this stack depth
    RetiredCap       \* bound: no run starts beyond this number of instructions

ASSUME DebuggerAssumption ==
    ExecutionLimit \in Nat /\ UndoCap \in Nat /\ RetiredCap \in Nat

\* beside program_counter, gpr, memory and text
VARIABLES
    program_size_,
    undo_stack_, redo_stack_,   \* the top is the last element
    current_delta_,
    breakpoints_,
    instructions_retired_,
    stop_requested_,
    run_phase,                  \* "debug" and "run" at the head of the loops of DebugRun
                                \* and Run_single, "debug_step" and "run_step" in the body
    instruction_executed,       \* their local variable
    output_status_

stacks == <<undo_stack_, redo_stack_, current_delta_>>
runVars == <<run_phase, instruction_executed>>
vars == <<machineVars, program_size_, stacks, breakpoints_, instructions_retired_,
          stop_requested_, runVars, output_status_>>

-----------------------------------------------------------------------------
(* Deltas.  A change names a register or an address and its two values. *)

RegisterChange == [at : Reg, old_value : Word, new_value : Word]
MemoryChange == [at : Word, old_value : Word, new_value : Word]

StepDelta == [old_pc : Int, new_pc : Int,
              register_changes : Seq(RegisterChange),
              memory_changes : Seq(MemoryChange)]

NoDelta == [old_pc |-> 0, new_pc |-> 0,
            register_changes |-> << >>, memory_changes |-> << >>]

\* WriteMemory and WriteBack record a change only if the value is another one.
Noted(changes, at, old, new) ==
    IF old # new
    THEN Append(changes, [at |-> at, old_value |-> old, new_value |-> new])
    ELSE changes

\* Mutant: a recording that forgets the store.
DeltaAfterRegistersOnly(delta) ==
    LET inst == ReadInstruction(text, program_counter)
        newGpr == GprAfter(inst, program_counter, gpr, memory)
    IN  [delta EXCEPT !.register_changes = Noted(@, inst.rd, gpr[inst.rd], newGpr[inst.rd])]

\* current_delta_ once the instruction at the program counter has executed
DeltaAfter(delta) ==
    LET inst == ReadInstruction(text, program_counter)
        address == ExecutionResult(inst, gpr)
        newGpr == GprAfter(inst, program_counter, gpr, memory)
        newMemory == MemoryAfter(inst, gpr, memory)
    IN  [delta EXCEPT
            !.register_changes = Noted(@, inst.rd, gpr[inst.rd], newGpr[inst.rd]),
            !.memory_changes = IF SetControlSignals(inst).mem_write
                               THEN Noted(@, address, memory[address], newMemory[address])
                               ELSE @]

\* The changes are written back in the order they were recorded, so the last
\* one of a place decides.
Changed(changes, k) == \E i \in DOMAIN changes : changes[i].at = k

LastChange(changes, k) ==
    CHOOSE i \in DOMAIN changes :
        changes[i].at = k /\ \A j \in DOMAIN changes : changes[j].at = k => j <= i

Reverted(f, changes) ==
    [k \in DOMAIN f |-> IF Changed(changes, k)
                        THEN changes[LastChange(changes, k)].old_value ELSE f[k]]

Reapplied(f, changes) ==
    [k \in DOMAIN f |-> IF Changed(changes, k)
                        THEN changes[LastChange(changes, k)].new_value ELSE f[k]]

TypeOK ==
    /\ MachineTypeOK
    /\ program_size_ \in 0 .. TextSize
    /\ undo_stack_ \in Seq(StepDelta) /\ redo_stack_ \in Seq(StepDelta)
    /\ current_delta_ \in StepDelta
    /\ breakpoints_ \subseteq 0 .. TextSize
    /\ instructions_retired_ \in Nat
    /\ stop_requested_ \in BOOLEAN
    /\ run_phase \in {"idle", "debug", "debug_step", "run", "run_step"}
    /\ instruction_executed \in 0 .. (ExecutionLimit + 1)
    /\ output_status_ \in {"VM_PROGRAM_LOADED", "VM_STEP_COMPLETED", "VM_PROGRAM_END",
                           "VM_LAST_INSTRUCTION_STEPPED", "VM_UNDO_COMPLETED",
                           "VM_NO_MORE_UNDO", "VM_BREAKPOINT_HIT", "VM_STOPPED"}

-----------------------------------------------------------------------------
Init ==
    /\ \E p \in Program :
        /\ memory = LoadData(p, ZeroMemory)
        /\ text = LoadText(p, ZeroText)
        /\ program_size_ = p.size
        /\ breakpoints_ = {p.size}
    /\ program_counter = 0 /\ gpr = ZeroGpr
    /\ undo_stack_ = << >> /\ redo_stack_ = << >> /\ current_delta_ = NoDelta
    /\ instructions_retired_ = 0
    /\ stop_requested_ = FALSE
    /\ run_phase = "idle" /\ instruction_executed = 0
    /\ output_status_ = "VM_PROGRAM_LOADED"

(* Step_single *)

\* program_counter_ < program_size_.  Both are unsigned: an address before the
\* first instruction is far beyond the last one.
InProgram(pc) == pc \in 0 .. (program_size_ - 1)

StatusAfterStep(pc) ==
    IF InProgram(pc) THEN "VM_STEP_COMPLETED" ELSE "VM_LAST_INSTRUCTION_STEPPED"

\* Its first branch, which DebugRun's loop uses too.
StepSingle ==
    /\ InProgram(program_counter)
    /\ ExecuteInstruction
    /\ undo_stack_' = Append(undo_stack_,
                             [DeltaAfter(current_delta_) EXCEPT !.old_pc = program_counter,
                                                                !.new_pc = program_counter'])
    /\ redo_stack_' = << >>
    /\ current_delta_' = NoDelta
    /\ instructions_retired_' = instructions_retired_ + 1
    /\ output_status_' = StatusAfterStep(program_counter')

StepCommand ==
    /\ run_phase = "idle"
    /\ Len(undo_stack_) < UndoCap
    /\ StepSingle
    /\ UNCHANGED <<program_size_, breakpoints_, stop_requested_, runVars>>

\* Its other branch.
NothingToStep ==
    /\ ~InProgram(program_counter)
    /\ current_delta_' = [current_delta_ EXCEPT !.old_pc = program_counter]
    /\ output_status_' = "VM_PROGRAM_END"
    /\ UNCHANGED <<machineVars, program_size_, undo_stack_, redo_stack_, breakpoints_,
                   instructions_retired_, stop_requested_>>

StepAtEnd ==
    /\ run_phase = "idle"
    /\ NothingToStep
    /\ UNCHANGED runVars

(* Undo and Redo *)

Last(stack) == stack[Len(stack)]
Popped(stack) == SubSeq(stack, 1, Len(stack) - 1)

Undo ==
    /\ run_phase = "idle"
    /\ undo_stack_ # << >>
    /\ LET last == Last(undo_stack_)
       IN  /\ gpr' = Reverted(gpr, last.register_changes)
           /\ memory' = Reverted(memory, last.memory_changes)
           /\ program_counter' = last.old_pc
           /\ redo_stack_' = Append(redo_stack_, last)
    /\ undo_stack_' = Popped(undo_stack_)
    /\ instructions_retired_' = instructions_retired_ - 1
    /\ output_status_' = "VM_UNDO_COMPLETED"
    /\ UNCHANGED <<text, program_size_, current_delta_, breakpoints_, stop_requested_, runVars>>

UndoNothing ==
    /\ run_phase = "idle"
    /\ undo_stack_ = << >>
    /\ output_status_' = "VM_NO_MORE_UNDO"
    /\ UNCHANGED <<machineVars, program_size_, stacks, breakpoints_, instructions_retired_,
                   stop_requested_, runVars>>

\* Redo leaves output_status_ as it is, and does nothing on an empty stack.
Redo ==
    /\ run_phase = "idle"
    /\ redo_stack_ # << >>
    /\ LET next == Last(redo_stack_)
       IN  /\ gpr' = Reapplied(gpr, next.register_changes)
           /\ memory' = Reapplied(memory, next.memory_changes)
           /\ program_counter' = next.new_pc
           /\ undo_stack_' = Append(undo_stack_, next)
    /\ redo_stack_' = Popped(redo_stack_)
    /\ instructions_retired_' = instructions_retired_ + 1
    /\ UNCHANGED <<text, program_size_, current_delta_, breakpoints_, stop_requested_,
                   runVars, output_status_>>

-----------------------------------------------------------------------------
(* DebugRun and Run_single *)

\* Mutant: goes round once more.
LoopGuardOffByOne ==
    /\ ~stop_requested_
    /\ InProgram(program_counter)
    /\ instruction_executed <= ExecutionLimit + 1

LoopGuard ==
    /\ ~stop_requested_
    /\ InProgram(program_counter)
    /\ instruction_executed <= ExecutionLimit

StartLoop(phase) ==
    /\ run_phase = "idle"
    /\ Len(undo_stack_) + ExecutionLimit < UndoCap
    /\ instructions_retired_ <= RetiredCap
    /\ stop_requested_' = FALSE
    /\ run_phase' = phase
    /\ instruction_executed' = 0
    /\ UNCHANGED <<machineVars, program_size_, stacks, breakpoints_, instructions_retired_,
                   output_status_>>

StartDebugRun == StartLoop("debug")
StartRun == StartLoop("run")

\* The loop goes on to its body.
Enter(phase, body) ==
    /\ run_phase = phase
    /\ LoopGuard
    /\ run_phase' = body
    /\ UNCHANGED <<machineVars, program_size_, stacks, breakpoints_, instructions_retired_,
                   stop_requested_, instruction_executed, output_status_>>

EnterDebugStep == program_counter \notin breakpoints_ /\ Enter("debug", "debug_step")

EnterRunStep == Enter("run", "run_step")

\* The end of the body.
GoRound(body, phase) ==
    /\ run_phase = body
    /\ run_phase' = phase
    /\ instruction_executed' = instruction_executed + 1

DebugStep ==
    /\ GoRound("debug_step", "debug")
    /\ StepSingle
    /\ UNCHANGED <<program_size_, breakpoints_, stop_requested_>>

\* A reset or a load has come in between, and there is nothing to step.
DebugStepAtEnd == GoRound("debug_step", "debug") /\ NothingToStep

\* Run_single does not look again, and pushes no delta: what its instructions
\* change stays noted in current_delta_.
RunStep ==
    /\ GoRound("run_step", "run")
    /\ ExecuteInstruction
    /\ current_delta_' = DeltaAfter(current_delta_)
    /\ instructions_retired_' = instructions_retired_ + 1
    /\ UNCHANGED <<program_size_, undo_stack_, redo_stack_, breakpoints_, stop_requested_,
                   output_status_>>

StatusAtEnd(otherwise) ==
    IF InProgram(program_counter) THEN otherwise ELSE "VM_PROGRAM_END"

EndLoop(phase, status) ==
    /\ run_phase = phase
    /\ run_phase' = "idle"
    /\ output_status_' = StatusAtEnd(status)
    /\ UNCHANGED <<machineVars, program_size_, stacks, breakpoints_, instructions_retired_,
                   stop_requested_, instruction_executed>>

\* Mutant: a breakpoint that does not leave the loop.
BreakpointHitStays ==
    /\ LoopGuard
    /\ run_phase = "debug" /\ program_counter \in breakpoints_
    /\ output_status_' = "VM_BREAKPOINT_HIT"
    /\ UNCHANGED <<machineVars, program_size_, stacks, breakpoints_, instructions_retired_,
                   stop_requested_, runVars>>

BreakpointHit ==
    /\ LoopGuard
    /\ program_counter \in breakpoints_
    /\ EndLoop("debug", "VM_BREAKPOINT_HIT")

EndDebugRun == ~LoopGuard /\ EndLoop("debug", output_status_)

EndRun == ~LoopGuard /\ EndLoop("run", output_status_)

DebugLoop == EnterDebugStep \/ DebugStep \/ DebugStepAtEnd \/ BreakpointHit \/ EndDebugRun

RunLoop == EnterRunStep \/ RunStep \/ EndRun

-----------------------------------------------------------------------------
(* The other commands, which do not wait for a thread that runs *)

\* STOP: RequestStop and the new status.
Stop ==
    /\ stop_requested_' = TRUE
    /\ output_status_' = "VM_STOPPED"
    /\ UNCHANGED <<machineVars, program_size_, stacks, breakpoints_, instructions_retired_,
                   runVars>>

\* A source line stands for the instruction it was assembled to.
AddBreakpoint ==
    /\ \E a \in 0 .. (program_size_ - 1) : breakpoints_' = breakpoints_ \cup {a}
    /\ UNCHANGED <<machineVars, program_size_, stacks, instructions_retired_,
                   stop_requested_, runVars, output_status_>>

RemoveBreakpoint ==
    /\ \E a \in 0 .. (program_size_ - 1) : breakpoints_' = breakpoints_ \ {a}
    /\ UNCHANGED <<machineVars, program_size_, stacks, instructions_retired_,
                   stop_requested_, runVars, output_status_>>

\* Mutant: a reset of the machine that keeps the stacks.
ResetKeepsStacks ==
    /\ ResetMachine
    /\ instructions_retired_' = 0
    /\ UNCHANGED <<program_size_, stacks, breakpoints_, stop_requested_, runVars, output_status_>>

Reset ==
    /\ ResetMachine
    /\ undo_stack_' = << >> /\ redo_stack_' = << >> /\ current_delta_' = NoDelta
    /\ instructions_retired_' = 0
    /\ UNCHANGED <<program_size_, breakpoints_, stop_requested_, runVars, output_status_>>

\* LoadProgram keeps the stacks, the registers and the old breakpoints.
LoadProgram ==
    /\ \E p \in Program :
        /\ text' = LoadText(p, text)
        /\ memory' = LoadData(p, memory)
        /\ program_size_' = p.size
        /\ breakpoints_' = breakpoints_ \cup {p.size}
    /\ output_status_' = "VM_PROGRAM_LOADED"
    /\ UNCHANGED <<program_counter, gpr, stacks, instructions_retired_, stop_requested_, runVars>>

-----------------------------------------------------------------------------
\* Commands that neither execute nor revert an instruction.
Bystander ==
    \/ StepAtEnd \/ UndoNothing
    \/ StartDebugRun \/ EnterDebugStep \/ DebugStepAtEnd \/ BreakpointHit \/ EndDebugRun
    \/ Stop \/ AddBreakpoint \/ RemoveBreakpoint

\* Stepping through one loaded program.
NextStepping == StepCommand \/ DebugStep \/ Undo \/ Redo \/ Reset \/ Bystander

Next == NextStepping \/ StartRun \/ RunLoop \/ LoadProgram

Spec == Init /\ [][Next]_vars

\* The thread that runs DebugRun or Run_single is scheduled.
FairSpec == Spec /\ WF_vars(DebugLoop) /\ WF_vars(RunLoop)
===============================================================================
