# A verified model of the CARCH RISC-V simulator

The repository is a RISC-V (RV64) assembler and simulator in C++ with a command
line, a Python front end and six execution modes: Mode 0 executes one
instruction at a time, Modes 1 to 5 run a five-stage pipeline with no hazard
handling, with stalls, with forwarding, with forwarding and static branch
prediction, and with forwarding and a gshare predictor.

The central claim of the simulator is that the pipelined modes give the results
of the single-cycle machine, only in another number of cycles. The project
states that claim as a refinement, checks it with TLC over families of small
programs, and proves it with TLAPS, with the invariants it rests on, for every program
of the instructions for which the code keeps it. The second claim is that the image of a
source in memory means what the source says: branches arrive, addresses of data point at
the data, words decode to the lines they come from. It is checked and proved as well.
Around it stand the parts that make it a program one can use: the two threads of
the command loop, the debugger's undo, the assembler, and the memory an image is
loaded into.

## The system

| part | source (under `src/`) | state it keeps | operations | modelled in |
|---|---|---|---|---|
| single-cycle machine | `src/vm/rvss/rvss_vm.cpp` | pc, registers, memory | Fetch, Decode, Execute, WriteMemory, WriteBack | `Machine`, `Datapath` |
| five-stage pipeline | `src/vm/rvss/rvss_vm.cpp`, `include/pipelining_register.h` | four latches, stall and flush flags | Clocktick and its five stages | `Pipeline` |
| hazard detection unit | `src/vm/hazard_detection_unit.cpp` | none | compute_signals | `HazardUnit`, `SystemPipeline` |
| branch prediction unit | `src/vm/branch_prediction_unit.cpp` | counters, target buffer, history | predict, update, reset | `BranchPredictor` |
| run control | `rvss_vm.cpp`, `src/vm/vm_base.cpp` | running_, stop_requested_, program_size_, retired count | Run_Pipelined, Step, RequestStop, Reset, LoadProgram | `Pipeline` |
| single-step debugger | `rvss_vm.cpp` | undo and redo stacks, breakpoints | Step_single, Undo, Redo, DebugRun, Run_single | `Debugger` |
| control unit, ALU, comparator, registers | `rvss_control_unit.cpp`, `alu.cpp`, `branch_comparator_alu.cpp`, `registers.cpp` | registers | SetControlSignals, GetAluSignal, execute, result | `Datapath` (integer), `SystemMachine` (float) |
| float, CSR and system-call execution | `rvss_vm.cpp`, `alu.cpp` | float registers, CSRs, output | ExecuteFloat, ExecuteCsr, pipeline_execute_csr, HandleSyscall | `SystemMachine`, `SystemPipeline` |
| command loop | `src/main.cpp`, `src/command_handler.cpp`, `vm_base.cpp` | the VM thread, vm_running, the input queue | one branch per command | `CommandLoop` |
| assembler | `src/assembler/*`, `src/common/instructions.cpp` | symbol table, code, data, back patches | parse, back patching, code generator | `Assembler`, `Encoding` |
| main memory and loader | `src/vm/main_memory.cpp`, `vm_base.cpp` | sparse blocks | reads and writes of every width, LoadProgram, MODIFY_MEMORY | `MainMemory`, `FlatMemory`, `Image` |
| configuration, dumps, ELF, GUI, cache and MMIO stubs | `include/config.h`, `src/utils.cpp`, `src/assembler/elf_util.cpp`, `python_script.py`, ... | | | not modelled: key-value store, formatting, files for other tools, declarations without a caller |

How the parts interact. `main` reads commands in one thread and runs `Run`,
`DebugRun` or `Step` in another; the two share the machine and the atomic
`stop_requested_`. `Run` and `Step` dispatch on the mode of the configuration.
A tick calls the stages in the order write-back, memory, execute, decode, fetch;
they communicate through the latches (double-buffered) and, in place, through
the register file, the memory, the program counter and the predictor. Decode
asks the hazard unit whether to stall and what to forward, resolves branches and
jumps, redirects the program counter, and trains the predictor; fetch consumes
the flags decode set and consults the predictor.

What is hard: operands chosen in one tick and fetched in the next; stages that
update shared state in place inside one tick; speculation and its recovery; the
end of a run, when the pipeline has to drain; a stop, step, reset or load between
any two ticks; deltas that must undo exactly what was done; two threads that write
the same flags and wait for each other; two places that lay out the data section and
two that know the bits of an offset. The list, with lines, is in `PROJECT.json` under `hazards`.

## The modules

* `Datapath`: instructions as the decoder sees them, control signals, ALU,
  comparator, register and memory writes.
* `Machine`: what one instruction does to pc, registers and memory. It is the
  translation of the single-cycle path and the abstract specification of the
  pipeline.
* `HazardUnit`: the latch records and `compute_signals`. The repeated tests of
  the code (`valid && reg_write_ && rd != 0 && rd == rs`) are one operator,
  `WillWrite`.
* `BranchPredictor`: gshare. `Index` (pc xor history) is a constant operator, so
  the proofs hold for every index function.
* `Pipeline`: one operator per stage, `Clocktick` composing them in the code's
  order (each takes the register file, program counter and predictor as the stages
  before it left them), and one action per step of the driving loops:
  `StartRun`, `MainLoopTick`, `LeaveMainLoop`, `FlushLoopTick`, `EndRun` are
  `Run_Pipelined`; `StepTick` and `StepAtEnd` are the pipelined `Step`;
  `RequestStop`, `Reset` and `LoadProgram` are the functions of that name. `Spec` loads
  programs at any time, `SpecOneProgram` only the first one, and `SpecSession` each
  program after a reset, as a careful user does (`LoadAfterReset`, which also waits for the
  run to end; without the reset, the latches, the registers and the predictor of the last
  program are still there). A reset, and in `Spec` a load, comes between any two ticks of a run.
* `PipelineProperties`: the refinement mapping and the properties.
* `Debugger`: Mode 0 under the debugger commands, on the state of `Machine`.
  `StepSingle` and `NothingToStep` are the two branches of `Step_single`, shared by the step
  command (`StepCommand`, `StepAtEnd`) and the loop of `DebugRun`. `EnterDebugStep`,
  `BreakpointHit` and `EndDebugRun` are the outcomes of that loop's conditions, `DebugStep` and
  `DebugStepAtEnd` its body; `EnterRunStep` and `EndRun`, and `RunStep`, are the same of
  `Run_single`. `Undo`, `Redo`, `Reset`, `LoadProgram`, `Stop`,
  `AddBreakpoint` and `RemoveBreakpoint` are the functions and commands of that name.
* `Timeline`: what stepping with undo and redo promises: a line of states with
  a present one on it. `UndoHistory` adds its two stacks of states to the debugger
  as history variables and states the refinement.
* `DebuggerProperties`: the counter, and the end of the loops of the debugger.
* `CommandLoop`: the command thread and the VM thread. `Launch`, `Joined` and
  `StartThread` are `launch_vm_thread`; each other command is the branch of `main` of
  that name. `BeginRun`, `BeginDebugRun` and `BeginStep` are the first lines of `Run`,
  `DebugRun` and `Step`; `MainLoopTick`, `LeaveMainLoop`, `FlushLoopTick` and
  `ReturnFromRun` their loops; `EndThread` is the thread's last statement; `Sleep`,
  `TakeInput` and `ExitSyscall` are `HandleSyscall`.
* `CommandLoopProperties`: the flag, the joins, the input.
* `SystemMachine`: system calls, CSR instructions and floating point, one instruction
  at a time; `SystemPipeline`: the same instructions in the stages of the pipeline, in
  straight-line code. `SystemPipelineProperties` states the refinement of the second to
  the first for code that keeps its distance.
* `MainMemory`: the class `Memory` with its sparse blocks. `FlatMemory`: what it
  promises, an array of bytes. `MemoryIsFlat` is the refinement.
* `Encoding`: instruction words as the code generator builds them (`GenerateI1`, ...)
  and as the decoder takes them apart (`ImmGenerator`, ...). A word is the set of its
  one-bits.
* `Assembler`: `Parser::parse`, one action per token of the data section, line of the
  text section and entry of `back_patch_`, then the code generator. `DataToken` and `TextLine`
  are the forms of a token and of a line that get past the lexer.
* `Image`: the assembler, the loader (`LoadTextWord`, `LoadDataItem`, item by item) and the
  memory composed, with MODIFY_MEMORY, memory reads and RESET. `ImageProperties` says
  what the image of a source must mean.
* `MCPrograms`, `MCPipeline`, `MCDebugger`, `MCUndo`, `MCImage`, `MCSystem`: programs
  for TLC.
* `MachineProofs`, `PipelineProofs`, `RefinementProofs` (the pipeline), `SystemProofs` (system
  instructions), `DebuggerProofs`, `CommandLoopProofs`, `EncodingProofs` (instruction words and
  the sparse memory), `ImageProofs` (the assembler and the loader): lemmas and theorems.

The modules stand on each other like this:

    Datapath -- Machine -- Pipeline (with HazardUnit, BranchPredictor) -- PipelineProperties
                       \-- Debugger -- DebuggerProperties
                       \-- Timeline -/-- UndoHistory
    Datapath -- HazardUnit -- SystemMachine -- SystemPipeline -- SystemPipelineProperties
    CommandLoop -- CommandLoopProperties
    Encoding -- Assembler -\
    FlatMemory - MainMemory - Image -- ImageProperties

Abstractions of the pipeline modules. Program counters count instructions
instead of bytes. Text and data are separate (no self-modifying code). A memory
cell holds one register-sized value: LD and SD; the narrower widths take the
same path through the control. The ALU has the operations that branches,
addresses and the dependence tests need; hazards do not depend on which
operation is computed. Float, CSR and system instructions are not in these
modules (they are in `SystemPipeline`). Out-of-range memory accesses (an exception that ends the process) and
the cycle and stall counts are left out. The mode is fixed for a behaviour.
An address before the first instruction is, in the code, a huge unsigned number; the model
keeps it negative and treats it as beyond the end (`InProgram`).

Abstractions of the debugger. The same, and: a breakpoint is an instruction
instead of a source line; deltas hold integer registers and memory cells (control
and float registers have deltas of the same form). A loop of `DebugRun` or `Run_single`
takes two steps for an instruction, one that looks at the conditions and one that executes it.
The commands that the command loop does not keep from racing with a running thread
(STOP, reset, load, breakpoints) come before, between and after the two: an
instruction may execute after a STOP that the conditions did not see yet, and in `Run_single`
even one beyond the end of a program loaded in between. Inside an instruction they would be a
C++ data race, which is not enumerated. That `launch_vm_thread` raises `stop_requested_` before a
step is left out: `Step_single` does not look at it and every loop clears it first.

Abstractions of the command loop. Of the machine there is left whether the program
counter has passed the end, whether the pipeline is empty, and whether the program reads
or exits; an instruction changes the first two arbitrarily, and a loop may leave at any
instruction (limit, breakpoint). Accesses to `vm_running`, a plain bool, are atomic. The
thread's closure refers to a parameter that is gone when `launch_vm_thread` returns; the
model calls the function that was meant.

Abstractions of `SystemMachine` and `SystemPipeline`. Straight-line code: no
branches, so no flushes. Addition stands for every operation on floats: any
function of both operands does that tells them apart. The arithmetic is exact, so no
exception flag is raised (with flags, Mode 0 overwrites the FCSR at every float
instruction, `rvss_vm.cpp:724`, and the pipeline accumulates them, line 776). One CSR; print
and write stand for all system calls that only produce output.

Abstractions of the assembler. The lexer and the syntax of a line are left out: a line
that has none of the known forms is "bad". One mnemonic or a few of each format.
Instruction addresses, the reach of branches and jumps and the split of addresses into a
high and a low part are scaled down together (`BranchReach` 8 for 4096, `JumpReach` 12 for
1048576, `LowSize` 8 for 4096, `WordReach` 32 for 2147483648), so that offsets beyond each of
them occur in programs of four lines. They are constants: the theorems hold for all values that
the fields of the instruction words can take (`ReachAssumption`), the code's among them.

### The refinement

`Abstract!MachineSpec` (property `ImplementsMachine`) sees the pipeline through
this mapping: an instruction counts as executed when it leaves decode; the
abstract registers and memory are what they will be once the instructions in
ID/EX, EX/MEM and MEM/WB have finished; the abstract pc is the address of the
instruction in IF/ID or, if that is a bubble, the program counter. A tick is then
exactly one instruction of the machine (when decode issues), or no step (stall,
bubble, fill), a reset is a reset, and a load after a reset is a load (`LoadMachine`). What has to hold for this is nearly
everything the pipeline does: a missed stall, a wrong forward, a wrong-path
instruction that has an effect, a lost or repeated fetch all break it.

The check covers what the code gets right. It leaves out, because there the code
departs from the machine: taken branches in Modes 2 and 3 (never taken), Mode 1
(no hazard handling, by design), jumps with a link register other than x0 (the link
is lost), LUI and AUIPC (the pipeline adds the unshifted immediate to a register),
and JALR in Mode 5 (a wrong predicted target is not noticed). The report's "All integer and
branch instructions are now correctly processed" (`pdf and reports/report_3.tex:57`) claims
these too, Mode 1 apart. Two of them are violation runs; the others are departures that no run shows.

### The refinement of the system instructions

`RunsInOrder` uses the same mapping for `SystemPipeline`, with one addition: a system
call or a CSR instruction in ID/EX acts between the older instructions and itself. It
holds for code that is `Disciplined`, and only for it: the pipeline does not wait where it
should. The clauses of `Disciplined` are the distances the code leaves to the programmer:

* the argument registers of a system call must not be written by the instruction before
  it; two before is enough, because write-back runs before execute;
* a CSR instruction reads its register in execute without forwarding, so the two
  before it must not write that register, and it must have rd = 0 because it puts nothing
  into EX/MEM;
* a register of the same number in the other file must not be written in between a float
  producer and its consumer (the hazard unit and the forwarding compare numbers only), and
  f0 is taken for x0, so nobody waits for it or forwards it;
* FLW, FMV.W.X and FCVT read their integer operand from the float file, and FMV.X.W its
  float operand from the integer file, unless it is forwarded from the instruction just
  before.

Without any one of the clauses TLC finds a program that departs from the machine. No
document of the repository promises the contrary for these instructions, so they are
preconditions here and not findings.

## The runs

| run | instance | checks |
|---|---|---|
| `pipeline` | all programs of 3 instructions from a pool of 8 (register and memory traffic, Modes 2-5), of 5 (jumps, Modes 2-4), of 7 (branches, Modes 4-5); 3 registers, words modulo 8, history modulo 4; run, step, stop and reset at every point, in mid-run too, and load after a reset | `TypeOK`, `OperandsCurrent`, `FlagsConsumed`, `TargetBufferSound`, `FetchFollowsPrediction`, `TrainsConsultedCounter`, `FinishedAtProgramEnd`, `ImplementsMachine`, `RunAdvances` |
| `run_loops` | a counted loop and a loop without register writes, Modes 2-5, with resets and reloads at any point of a run; execution limit 3; weak fairness of the run thread | `RunEnds` |
| `undo_redo` | all programs of 3 instructions from a pool of 6 (two writes of one register, a store over loaded data, a load from it, jump, branch); at most 3 deltas; execution limit 1; step, debug run, breakpoints, undo, redo, stop and reset at every point, stop, reset and breakpoints in mid-run too | `TypeOK`, `ImplementsTimeline` |
| `debug_runs` | an endless loop and a shorter program, all commands, runs included, with resets, loads and breakpoints in mid-run; execution limit 1; weak fairness of the threads | `RetiredCoversUndo`, `LoopsEnd` |
| `command_loop` | every interleaving of the commands with the VM thread; two lines of waiting input, five flush ticks; weak fairness of the threads | `TypeOK`, `RunningFlagCovers`, `OnlyJoinDeadlocks`, `JoinEnds`, `StopTakesHold`, `InputDelivered` |
| `system_pipeline` | all programs of 4 instructions from a pool of 17 (system calls, CSR, float, integer), Modes 2 and 3; 4 registers of each file, words modulo 4 | `TypeOK`, `RunsInOrder` |
| `image` | data sections with a label between up to two directives on each side; texts of up to 4 lines with labels and branches in every order; boundary immediates; invalid lines; two loads, probes of the memory; memory of 64 bytes in blocks of 12, data from 34 | `TypeOK`, `ReferencesResolve`, `AddressesPointAtData`, `DecodesAsWritten`, `LiLoads`, `BreakpointLines`, `MemoryIsFlat` |
| `mode3_branch` | a taken BEQ in Mode 3 | violates `ImplementsMachine` |
| `call_link` | JAL x1 in Mode 4 | violates `ImplementsMachine` |
| `flush_loop` | a program ending in a load and its use, Mode 2 | violates `DrainedAtProgramEnd` |
| `undo_after_run` | one instruction run, the next one stepped and undone | violates `UndoRevertsStep` |
| `step_once` | the user steps, in either mode | violates `StepExecutes` |

Bounds. A dependence reaches at most two instructions back (the third is in
write-back, which runs before decode), so three instructions contain every pair of
producer and consumer at every distance that matters, and loops among them make
longer sequences. Three registers are two, plus x0. Words modulo 8 keep signed and
unsigned comparison apart. `TextSize` leaves one word of unwritten memory behind
each program; addresses beyond read as unwritten too. `PcBound` stops new runs and
steps (never a run that has started) once pc is that far past the end.
`RetiredCap` caps the retired count above the execution limit, where the code no
longer tells values apart.

For the debugger three deltas are enough for an undo in the middle of the line, a
redo after two undos, and a step that cuts the redo stack. `UndoCap` stops new steps and
runs (never a run that has started) that could exceed it; `RetiredCap` here stops new runs.

For the system instructions four is one more than the longest distance
`Disciplined` speaks of. Mode 3 stands for all forwarding modes: without branches they do
the same. In the `image` run the blocks and the start of the data are not multiples of any
width, so that accesses cross blocks and the parser has to align. `Session` bounds what one
user loads and probes; a second load meets the memory of the first.

Preconditions. Four properties of the `image` run except what the code does not do:
`DecodesAsWritten` the immediate of ADDIW, for whose opcode `ImmGenerator` has no case
(`vm_base.cpp:102-173`), so that it is taken for zero;
`LiLoads` the top of li's range, where LUI's sign extension makes the rounded-up high part
negative; `AddressesPointAtData` sources with a directive without values, for which the
parser aligns a label and the loader nothing; `ReferencesResolve` a JAL to a label of the data
section, which the parser accepts without adding the start of the section. `LiLoads` and
`AddressesPointAtData` check opcode, function field and registers of the one or two words and add their
immediates up as Mode 0 executes them. The pipelined modes add the upper immediate
unshifted (`rvss_vm.cpp:412` and `422`), so an `li` with a high part and an `la` compute other values there.

`RunEnds` holds of behaviours in which the user does not go on resetting or loading
for ever: either sends the run back to the start of a program. `LoopsEnd` needs no such
condition, as the loops of the debugger count in a variable of their own. `JoinEnds` is about a stop
that arrives after the loop has cleared `stop_requested_`, as one before it is lost, and about
programs that do not wait for input, as a join of those is the deadlock
`OnlyJoinDeadlocks` describes.

Deadlock is not checked where the system may really stop: the user need not type
anything, and straight-line code ends.

Fairness. `FairSpec` has weak fairness of `RunLoop`, the loop of `Run_Pipelined`:
the thread that runs it never blocks there (in the modelled instructions), so the
operating system schedules it. The debugger's `FairSpec` says the same of the loops of
`DebugRun` and `Run_single`. The command loop's has weak fairness of the VM thread as a
whole and of the return from a join; a thread that sleeps on the input queue or joins a thread
that has not ended is not enabled, so nothing is assumed of it. No fairness is assumed of the user's commands.

## What is proved

The theorems are about the specifications with the constants left open: any
set of registers, word size, memory for text, set of programs, index function,
history length, execution limit, memory and block size, under the named assumptions of the
modules (`RegAssumption`, `WordAssumption`, `ProgramAssumption`, ...), which TLC evaluates
on every run.

* `TypeCorrect`: `TypeOK` is inductive as it stands. The lemmas give the type of
  what each stage produces.
* `FlagsAlwaysConsumed`: inductive too, because the outcomes of decode exclude each
  other: a tick that stalls never flushes.
* `OperandsAlwaysCurrent`: `OperandsCurrent` is not inductive: it compares values, and
  nothing in it says where they come from, so a change of the memory between two ticks
  (a load of another program) could break it. `OperandInv` says which latch each operand comes from
  (`SourcesRight`), and that an instruction whose result comes from memory is marked as
  a load, so that the hazard unit would have stalled its consumer. The theorem assumes
  a mode of 2 or more, as Mode 1 has no hazard handling.
* `TargetBufferAlwaysSound` and `FetchAlwaysFollows` need each other: what decode writes
  to the target buffer is right because IF/ID holds the instruction of its address, and
  where fetch goes is right because the buffer is. Both are about `SpecSession`: the
  code does not clear the predictor when it loads a program, only when it resets.
* `PipelineImplementsMachine`: the central claim, `ImplementsMachine`, for every set of
  scenarios that satisfies `ScenariosHandled`: a mode of 2 or more, no LUI or AUIPC, jumps that
  link to x0, branches only in Modes 4 and 5, no JALR in Mode 5 (TLC confirms, as an
  assumption of `MCPipeline`, that the scenarios of the `pipeline` run are such). Sessions of any
  number of programs, each loaded after a reset (`SpecSession`); run, stepped, stopped and reset anywhere. The argument: write-back and memory only move an
  instruction on by a stage (`TickShifts`), so after a tick the abstract registers and memory are the
  old ones with the effect of the instruction that has just left decode, or the old ones
  (`NoTrace`). That effect is the machine's (`IssuedExecutes`), because the operands
  execute will choose are the values of the abstract registers (`OperandInv`). The abstract pc follows
  (`AbstractPcTick`) because fetch is where the prediction says (`PredictionInv`) and because decode
  reads settled registers when it resolves a branch or a JALR: what is still in
  flight to them would have stalled it (`SettledRegister`). The comparator of decode and the ALU flag of
  the single-cycle path agree (`BranchAgrees`, with `DivMod` and `ToWordSum` for sums modulo the word
  size). `RefinementInv` adds to the two invariants that the text in memory is handled by the
  mode (a reset leaves zeros, which are) and that below Mode 5 nothing is predicted taken.
* `FinishedAlwaysAtProgramEnd`: `FinishedAtProgramEnd` under the same assumption and
  `ScenariosBounded` (labels do not lie before the program; `MCPipeline` has TLC confirm it too). `Drained(n)` says how
  far the pipeline has emptied n ticks after the last fetch: the first tick may be lost to the
  stall of the last instruction behind a load, each of the other four takes the program out of
  one latch (`DrainTick`). That nothing in decode can turn the fetch back at that point
  (`LeavesAtEnd`) is clear for the last instruction, which falls through, but not for a branch that Mode 5 has
  predicted to leave the program. `LeftOnce` excludes it: such a prediction needs an entry in the target
  buffer, and once the branch that makes the entry has been taken the program is over; a reset
  clears the buffer. A reset in the middle of the flush loop leaves an empty pipeline and zeros for text, which
  finish trivially.
* `RunAlwaysAdvances`: the safety half of `RunEnds`, for every mode and every program whose loops
  retire instructions (`LoopsRetire`). A tick of the main loop lowers a lexicographic measure
  of three parts. `Committed`, the retired count and the counted instructions that have left decode,
  never falls, and is bounded while the loop goes on: its guard keeps the count at most
  `ExecutionLimit`, and three latches follow decode. `Distance`, the way to the end of the text or
  to the next counted instruction, falls when an instruction that is not counted leaves decode,
  a branch back included, as `LoopsRetire` sends it to a counted one (`BranchFalls`,
  `RedirectedFalls`). `Waiting` falls in a stall and in the fetch after a flush (`WaitingFalls`): a stall has
  its cause in one of the next two latches (`StallsBehind`), which empty. So the main loop makes finitely many
  ticks, and every tick is one of its thread's steps; that the thread takes them is fairness.
* `AlwaysTrainsConsultedCounter`: with `FlagsConsumed`, across loads as well.
* `DebuggerTypeCorrect` and `RetiredAlwaysCoversUndo` are one induction: `Undo` keeps
  the instruction counter a natural number only because it covers the undo stack. Both
  are about `Spec` with runs, reloads and all other commands.
* `SteppingImplementsTimeline`: `TimelineInv` says that each delta on either stack joins
  the two states of the line it lies between, forwards and backwards, and that no change
  waits in `current_delta_`. The second part is what a run destroys. A step preserves
  it because one instruction changes at most one register and one cell (`OneChange`), so
  that the recorded change undoes and redoes exactly it (`NotedJoins`). That the change
  applied last exists rests on the well-foundedness of the natural numbers.

* `CommandLoopTypeCorrect` and `RunningFlagAlwaysCovers` are inductive as they stand. What
  carries the flag through a handover is that a join ends only after the old thread's last
  statement, so the flag that thread lowers is never the one raised for the
  next. `NobodyEverSleepsOnInput` needs the types as well: a push wakes the reader that
  sleeps, and the reader looks at the queue before it sleeps.
* `StuckOnlyInJoin` is `OnlyJoinDeadlocks` with the guards of the threads' steps (`JoinReady`,
  `VmThreadReady`) in the place of ENABLED, which the prover does not know. No step is taken without
  its guard (`StepsAreReady`); the converse, that a step can be taken where its guard holds, can
  be read off the actions, which only assign once their guards hold. The proof needs
  `NobodySleepsOnInput`, and that nobody joins a thread that is not there (`JoinsAThread`).
* `StopAlwaysTakesHold`: while the command thread joins, the steps of the VM thread that would clear
  the stop or begin another tick are not possible, and the others lower `StepsLeft`.
* `SystemTypeCorrect` and `SystemRunsInOrder`: `RunsInOrder` for every straight-line code
  (`CodeAssumption`), every initial state, word size and choice of the system call's registers;
  of the bitwise or that CSRRS computes only that its result is a word (`BitOrAssumption`).
  `RunsInOrder` is an action property and needs to know what is in the latches: `SystemInv`
  adds to the types that each latch holds the instruction as many places
  back as there are valid latches before it (`LatchesFollowCode`), and that with forwarding ID/EX and
  EX/MEM are never both empty once the program has begun: the stall behind a load lasts one tick, so the
  value is in MEM/WB when its consumer executes. From there the proof follows one tick. What write-back and memory do to the state only brings
  it nearer to what it will be (`Older`); a system call or CSR instruction in execute acts
  before the instruction ahead of it has written back, and the two commute exactly under the
  distances of `Disciplined`; an operand is the settled register, or the forwarded value of
  the instruction that writes it, or a register of the other file that nobody in flight writes.
* `ImmediateI`, `ImmediateS`, `ImmediateB`, `ImmediateJ`: `ImmGenerator` undoes the code generator
  for every immediate that fits its format, every register and function field. The lemmas
  `FieldsDecode` and `ImmediateDecodes` say the same of `MachineCode`, for every mnemonic of the
  table and every field, with integers instead of sets of bits.
* `MemoryIsAlwaysFlat`: the sparse memory implements the array of bytes for every memory size
  from 8 on and every block size. A write of n bytes is n writes of one, each of
  which may create a block; the lemmas say what one does to the bytes seen through the
  blocks and follow the four widths through. From them, `ReadBack` and `ReadBeside`: what was written
  is read, and what lies beside it is not touched.
* `ImageTypeCorrect` and `ImageMemoryIsFlat`: the same for the whole of assembling, loading
  and probing, for every set of sessions (`SessionAssumption`). The types of the tables
  (`ImageTypes`) are stronger than `TypeOK`: an operand of a unit is a number although lines
  have different fields, and every entry of `back_patch_` is an instruction that waits for a label.
* `ReferencesAlwaysResolve`, `AlwaysDecodesAsWritten`, `AlwaysLiLoads`, `BreakpointsOnLines`:
  the four properties of the text, for every set of sources that satisfies `SourcesFit`. None of the
  properties is inductive; they are about the end of four phases. `CodeInv` follows the parser: the
  code of line l begins after that of the lines before it (`Place`), it is what the
  line calls for (`LineCoded`), a reference holds the distance to its label or is pending in `back_patch_`,
  and a label of the table is a line of the text with the address of the instruction after
  it. `TextInv` follows the loader: the words written so far are the machine code, and no
  later write touches them. For this the text must end before the data section, which
  nothing in the code checks: `SourcesFit` says it, as a line is two instructions
  at most. A longer text is overwritten by the data.
* `AddressesAlwaysPointAtData`: the parser computes the place of each value when it enters
  a label, the loader again when it writes the value, and neither tells the other. `DataInv`
  names the layout p they share: value j is at the end of value j - 1, aligned to its size.
  The parser's labels are at the value after them, or, as long as there is none yet, where the next
  will go, aligned in advance (that aligning twice is aligning once is `AlignTwice`); the loader's
  counter is the end of the value it has written last, and what it has written is at its
  place in p. `SourcesHaveValues` excludes directives without
  values, where parser and loader do disagree. TLC confirms both hypotheses for the sources of the
  `image` run, as an assumption of `MCImage`.

Induction over the lines of a text is done without the library's theorem, whose parameter is an
operator: `SetInduction` says it of sets of numbers.

Only model-checked: `OnlyJoinDeadlocks`, as it speaks of what is ENABLED; `RunEnds`, `LoopsEnd`,
`JoinEnds` and `InputDelivered`, as liveness under fairness is beyond the prover. What they rest on
is proved of all but `LoopsEnd`, whose loops only count to a limit: `StuckOnlyInJoin`, `RunAlwaysAdvances`,
`StopAlwaysTakesHold` and `NobodyEverSleepsOnInput`. All other
properties of the passing runs are theorems, under the assumptions named above.

## Findings

* Mode 3 never takes a conditional branch (`mode3_branch`).
* A JAL or JALR resolved in decode writes 0 to its link register (`call_link`).
* The fixed five flush ticks are too few in Mode 2 (`flush_loop`).
* After a run, an undo reverts more than the last step (`undo_after_run`). If the run and the
  step wrote the same register, the recording order happens to hide it. The redo
  stack survives a run as well.

* An interactive step in a pipelined mode executes nothing after the first (`step_once`):
  `launch_vm_thread` raises `stop_requested_` before it joins the ended thread, and the
  pipelined `Step` returns while it is up. Only a run clears it.

`FinishedAtProgramEnd` states where the five ticks do suffice: Modes 3 to 5, a last
instruction that is not a branch or a jump, and no cut by the execution limit. Without the
last condition TLC shows a run that the limit ends, whose flush ticks fetch past the end of the program.

One more departure has no run of its own. `COMMANDS.md:42` says of `instruction_execution_limit`
that it "Specifies the number of instruction to run on one use of `run` button. Set to `0` for no limit."
All three loops compare with `>` (`rvss_vm.cpp:1492`, `1544`, `1767`) and none treats 0 specially:
`Run_single` and `DebugRun` execute one instruction more than the limit, one when it is 0, and
`Run_Pipelined` compares the retired count of all runs since the last reset. The models do the same:
`instruction_executed` goes up to `ExecutionLimit + 1`, and `RunEnds` and `LoopsEnd` say that a
limit ends a run, not after how many instructions.

## Not modelled, and why

* The lexer, the syntax of a line and the expansion of the other pseudo-instructions: text
  processing and one fixed instruction each. The names, formats and error texts of dumps,
  the ELF file and the graphical front end: output that nothing in the simulator reads.
* The operations of the ALU that no hazard depends on, double precision, rounding modes
  and exception flags: 64-bit and IEEE arithmetic, which TLC cannot enumerate and the
  model would only transcribe. The 32-bit forms (ADDW, ADDIW, SLLW, ...) and the fused
  multiply-adds have an ALU operation but no case in `SetControlSignals`, so they write no register,
  although the assembler accepts them.
* What the read system call copies into memory, and undo across it: an undo restores memory
  and registers but does not give the consumed line back (`rvss_vm.cpp:1033`).
* A change of mode with instructions in the latches: it is in `CommandLoop`, but nothing says what
  the latches of the old mode should then do, so there is nothing to compare with.
* RESET and LOAD inside a tick or an instruction of a running thread: a C++ data race on registers and
  memory, undefined behaviour that is not enumerated. Between ticks and instructions they are in
  the models. What the instructions of a run do after a load that no reset
  preceded is compared with nothing: the refinements are about loads after a reset, or one program.
* The stop that arrives before the loop has cleared `stop_requested_` and is lost, an undo or redo of deltas of
  another program, a breakpoint left behind by another program, and the text left
  behind by a longer one are in the models, but no property says what should become of them.
* `std::out_of_range` from a fetch or an access in the pipeline: nothing catches it and the process ends.
* MODIFY_CONFIG of the memory's block size after the memory was made, MODIFY_REGISTER, two data labels of
  one name (the second silently wins, `parser.cpp:109`), and the bss section.
* Caches, MMIO and rv5s: declarations without a caller.
