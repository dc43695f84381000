------------------------------- MODULE Pipeline -------------------------------
(***************************************************************************)
(* The five-stage pipeline of RVSSVM (Modes 1 to 5) and the loops that     *)
(* drive it: Run_Pipelined, Step, Reset, LoadProgram and RequestStop.      *)
(*                                                                         *)
(* One Clocktick runs write-back, memory, execute, decode and fetch in     *)
(* that order, each on the latches as they were before the tick, and then  *)
(* latches what they produced.  The register file, the memory, the program *)
(* counter and the predictor are updated in place, so a stage sees what    *)
(* the stages that ran before it in the same tick did to them.             *)
(*                                                                         *)
(* The program-visible state (program_counter, gpr, memory, text) is that  *)
(* of Machine, which the pipeline extends and is meant to implement.       *)
(***************************************************************************)
EXTENDS Machine, HazardUnit, BranchPredictor

CONSTANTS
    Scenario,        \* the <<pipeline mode, program>> pairs the system starts with
    ExecutionLimit,  \* instruction_execution_limit of the configuration
    RetiredCap,      \* bound: instructions_retired_ is counted up to here
    PcBound          \* bound: no run or step starts beyond this program counter

\* beside program_counter, gpr, memory and text
VARIABLES
    program_size_,
    if_id, id_ex, ex_mem, mem_wb,           \* the latches
    pipeline_stalled_, flush_fetch_,        \* set by decode, consumed by fetch
    bpu,                                    \* branch predictor
    pipeline_mode,
    instructions_retired_,
    running_, stop_requested_,
    run_phase,                              \* where Run_Pipelined is
    flush_cycles,                           \* its local variable
    output_status_

programVars == <<text, program_size_>>
latches == <<if_id, id_ex, ex_mem, mem_wb>>
flags == <<pipeline_stalled_, flush_fetch_>>
tickVars == <<program_counter, gpr, memory, latches, flags, bpu, instructions_retired_>>
runVars == <<running_, stop_requested_, run_phase, flush_cycles, output_status_>>
vars == <<tickVars, programVars, pipeline_mode, runVars>>

ASSUME ScenarioAssumption == Scenario \subseteq (PipelineMode \X Program)
ASSUME BoundAssumption ==
    /\ ExecutionLimit \in Nat
    /\ RetiredCap \in Nat /\ RetiredCap > ExecutionLimit
    /\ PcBound \in Int

TypeOK ==
    /\ MachineTypeOK
    /\ program_size_ \in 0 .. TextSize
    /\ if_id \in IfId /\ id_ex \in IdEx /\ ex_mem \in ExMem /\ mem_wb \in MemWb
    /\ pipeline_stalled_ \in BOOLEAN /\ flush_fetch_ \in BOOLEAN
    /\ PredictorTypeOK(bpu)
    /\ pipeline_mode \in PipelineMode
    /\ instructions_retired_ \in 0 .. RetiredCap
    /\ running_ \in BOOLEAN /\ stop_requested_ \in BOOLEAN
    /\ run_phase \in {"idle", "main", "flush"}
    /\ flush_cycles \in -1 .. 4
    /\ output_status_ \in {"VM_PROGRAM_LOADED", "VM_STEP_COMPLETED", "VM_PROGRAM_END"}

-----------------------------------------------------------------------------
(* pipeline_write_back *)

WriteBackValue(w) == IF w.signals.mem_to_reg THEN w.mem_data ELSE w.alu_ans

WriteBackStage(w, regs) ==
    IF w.valid /\ w.signals.reg_write
    THEN WriteGpr(regs, w.rd, WriteBackValue(w))
    ELSE regs

\* Only an instruction that writes a register counts as retired.
RetiredAfter(w, n) ==
    IF w.valid /\ w.signals.reg_write /\ n < RetiredCap THEN n + 1 ELSE n

(* pipeline_mem *)

MemoryStage(x, mem) ==
    IF x.valid
    THEN [valid |-> TRUE, inst |-> x.inst, rd |-> x.rd, signals |-> x.signals,
          alu_ans |-> x.alu_ans,
          mem_data |-> IF x.signals.mem_read THEN mem[x.alu_ans] ELSE 0]
    ELSE MemWbBubble

MemoryWrite(x, mem) ==
    IF x.valid /\ x.signals.mem_write /\ ~x.signals.mem_read
    THEN WriteDoubleWord(mem, x.alu_ans, x.data)
    ELSE mem

(* pipeline_execute *)

ForwardedValue(source, fromDecode, x, w) ==
    CASE source = "FROM_EXECUTE" -> x.alu_ans
      [] source = "FROM_MEMORY" -> WriteBackValue(w)
      [] OTHER -> fromDecode

OperandA(d, x, w) == ForwardedValue(d.forward_A, d.rs1_data, x, w)
OperandB(d, x, w) == ForwardedValue(d.forward_B, d.rs2_data, x, w)

AluResult(d, a, b) ==
    IF IsJump(d.inst)
    THEN d.pc_plus_4
    ELSE AluExecute(GetAluSignal(d.inst), a,
                    IF d.signals.alu_src THEN ToWord(d.inst.imm) ELSE b)

ExecuteStage(d, x, w) ==
    IF d.valid
    THEN [valid |-> TRUE, inst |-> d.inst, rd |-> d.rd, signals |-> d.signals,
          alu_ans |-> AluResult(d, OperandA(d, x, w), OperandB(d, x, w)),
          data |-> OperandB(d, x, w)]
    ELSE ExMemBubble

-----------------------------------------------------------------------------
(* pipeline_decode; regs is the register file after this tick's write-back. *)

Taken(inst, regs) ==
    \/ IsJump(inst)
    \/ inst.opcode = "BRANCH" /\ BranchCompare(inst.funct, regs[inst.rs1], regs[inst.rs2])

\* Mutant: the offset counts from the next instruction.
TargetOffByOne(inst, pc, regs) ==
    IF inst.opcode = "JALR" THEN ToWord(regs[inst.rs1] + inst.imm) ELSE pc + 1 + inst.imm

Target(inst, pc, regs) ==
    IF inst.opcode = "JALR" THEN ToWord(regs[inst.rs1] + inst.imm) ELSE pc + inst.imm

\* Only the taken bit is compared, not the target.  Modes 1 to 3 take every
\* conditional branch to be predicted correctly.
PredictionCorrect(mode, d, regs) ==
    /\ mode = StaticBranchMode => ~Taken(d.inst, regs)
    /\ mode >= DynamicBranchMode => (Taken(d.inst, regs) = d.predicted_as_taken)
    /\ IsJump(d.inst) => d.predicted_as_taken

\* What decode does with the instruction in IF/ID.
DecodeOutcome(mode, fd, d, x, regs) ==
    IF StallFetch(mode, fd.inst, d, x) THEN "stall"
    ELSE IF ~fd.valid THEN "bubble"
    ELSE IF IsControlFlow(fd.inst) /\ ~PredictionCorrect(mode, fd, regs) THEN "mispredict"
    ELSE "issue"

IssuedLatch(mode, fd, d, x, regs) ==
    [valid |-> TRUE, inst |-> fd.inst, rd |-> fd.inst.rd,
     signals |-> SetControlSignals(fd.inst),
     rs1_data |-> regs[fd.inst.rs1], rs2_data |-> regs[fd.inst.rs2],
     pc_plus_4 |-> ToWord(fd.pc + 1), alu_ans |-> 0,
     forward_A |-> ForwardA(mode, fd.inst, d, x),
     forward_B |-> ForwardB(mode, fd.inst, d, x)]

\* A mispredicted jump still has its link register to write.  Its link value
\* is put in alu_ans; pc_plus_4 keeps its default.
LinkLatch(fd) ==
    [IdExBubble EXCEPT !.valid = TRUE, !.inst = fd.inst, !.rd = fd.inst.rd,
                       !.signals = [NoSignals EXCEPT !.reg_write = TRUE],
                       !.alu_ans = ToWord(fd.pc + 1)]

DecodeStage(mode, fd, d, x, regs) ==
    LET outcome == DecodeOutcome(mode, fd, d, x, regs)
    IN  IF outcome = "issue" THEN IssuedLatch(mode, fd, d, x, regs)
        ELSE IF outcome = "mispredict" /\ IsJump(fd.inst) THEN LinkLatch(fd)
        ELSE IdExBubble

\* Mutant: a branch wrongly predicted taken is not taken back.
RedirectedPcTaken(outcome, fd, regs, pc) ==
    IF outcome = "mispredict" THEN Target(fd.inst, fd.pc, regs) ELSE pc

\* The program counter fetch is going to see.
RedirectedPc(outcome, fd, regs, pc) ==
    IF outcome = "mispredict"
    THEN IF Taken(fd.inst, regs) THEN Target(fd.inst, fd.pc, regs) ELSE fd.pc + 1
    ELSE pc

TrainedPredictor(mode, outcome, fd, regs, predictor) ==
    IF /\ mode >= DynamicBranchMode
       /\ outcome \in {"issue", "mispredict"}
       /\ IsControlFlow(fd.inst)
    THEN Update(predictor, fd.pc, Taken(fd.inst, regs), Target(fd.inst, fd.pc, regs))
    ELSE predictor

-----------------------------------------------------------------------------
(* Pipeline_fetch, given the program counter, the flags and the predictor as
   decode left them.  A flush takes precedence over a stall. *)

\* Mutant: the flush is not taken back.
FetchFlushedSticky(pc, stalled, predictor) ==
    /\ if_id' = IfIdBubble
    /\ flush_fetch_' = TRUE
    /\ pipeline_stalled_' = stalled
    /\ program_counter' = pc
    /\ bpu' = predictor

FetchFlushed(pc, stalled, predictor) ==
    /\ if_id' = IfIdBubble
    /\ flush_fetch_' = FALSE
    /\ pipeline_stalled_' = stalled
    /\ program_counter' = pc
    /\ bpu' = predictor

\* Mutant: a stall holds the latch but not the program counter.
FetchStalledPcMoves(pc, predictor) ==
    /\ if_id' = if_id
    /\ flush_fetch_' = FALSE
    /\ pipeline_stalled_' = FALSE
    /\ program_counter' = pc + 1
    /\ bpu' = predictor

FetchStalled(pc, predictor) ==
    /\ if_id' = if_id
    /\ flush_fetch_' = FALSE
    /\ pipeline_stalled_' = FALSE
    /\ program_counter' = pc
    /\ bpu' = predictor

FetchNext(pc, predictor) ==
    LET dynamic == pipeline_mode >= DynamicBranchMode
    IN  /\ if_id' = [valid |-> TRUE, pc |-> pc,
                     inst |-> ReadInstruction(text, pc),
                     predicted_as_taken |-> dynamic /\ PredictTaken(predictor, pc)]
        /\ program_counter' = IF dynamic THEN PredictTarget(predictor, pc) ELSE pc + 1
        /\ bpu' = IF dynamic THEN AfterPredict(predictor, pc) ELSE predictor
        /\ flush_fetch_' = FALSE
        /\ pipeline_stalled_' = FALSE

Fetch(pc, flush, stalled, predictor) ==
    IF flush THEN FetchFlushed(pc, stalled, predictor)
    ELSE IF stalled THEN FetchStalled(pc, predictor)
    ELSE FetchNext(pc, predictor)

Clocktick ==
    LET regs == WriteBackStage(mem_wb, gpr)
        outcome == DecodeOutcome(pipeline_mode, if_id, id_ex, ex_mem, regs)
    IN  /\ gpr' = regs
        /\ instructions_retired_' = RetiredAfter(mem_wb, instructions_retired_)
        /\ mem_wb' = MemoryStage(ex_mem, memory)
        /\ memory' = MemoryWrite(ex_mem, memory)
        /\ ex_mem' = ExecuteStage(id_ex, ex_mem, mem_wb)
        /\ id_ex' = DecodeStage(pipeline_mode, if_id, id_ex, ex_mem, regs)
        /\ Fetch(RedirectedPc(outcome, if_id, regs, program_counter),
                 flush_fetch_ \/ outcome = "mispredict",
                 pipeline_stalled_ \/ outcome = "stall",
                 TrainedPredictor(pipeline_mode, outcome, if_id, regs, bpu))
        /\ UNCHANGED <<programVars, pipeline_mode>>

-----------------------------------------------------------------------------
Init ==
    /\ \E s \in Scenario :
        /\ pipeline_mode = s[1]
        /\ memory = LoadData(s[2], ZeroMemory)
        /\ text = LoadText(s[2], ZeroText)
        /\ program_size_ = s[2].size
    /\ program_counter = 0 /\ gpr = ZeroGpr
    /\ if_id = IfIdBubble /\ id_ex = IdExBubble
    /\ ex_mem = ExMemBubble /\ mem_wb = MemWbBubble
    /\ pipeline_stalled_ = FALSE /\ flush_fetch_ = FALSE
    /\ bpu = NewPredictor
    /\ instructions_retired_ = 0
    /\ running_ = FALSE /\ stop_requested_ = FALSE
    /\ run_phase = "idle" /\ flush_cycles = -1
    /\ output_status_ = "VM_PROGRAM_LOADED"

PipelineEmpty == ~if_id.valid /\ ~id_ex.valid /\ ~ex_mem.valid /\ ~mem_wb.valid

\* program_counter_ < program_size_.  Both are unsigned: an address before the
\* first instruction is far beyond the last one.
InProgram(pc) == pc \in 0 .. (program_size_ - 1)

\* Mutant: the loop does not look at the stop request.
MainLoopGuardDeaf ==
    /\ InProgram(program_counter)
    /\ instructions_retired_ <= ExecutionLimit

MainLoopGuard ==
    /\ ~stop_requested_
    /\ InProgram(program_counter)
    /\ instructions_retired_ <= ExecutionLimit

(* Run_Pipelined *)

StartRun ==
    /\ run_phase = "idle"
    /\ program_counter < PcBound
    /\ stop_requested_' = FALSE
    /\ running_' = TRUE
    /\ run_phase' = "main"
    /\ UNCHANGED <<tickVars, programVars, pipeline_mode, flush_cycles, output_status_>>

MainLoopTick ==
    /\ run_phase = "main"
    /\ MainLoopGuard
    /\ Clocktick
    /\ UNCHANGED runVars

\* Mutant: one flush tick too few.
LeaveMainLoopEarly ==
    /\ run_phase = "main"
    /\ ~MainLoopGuard
    /\ run_phase' = "flush"
    /\ flush_cycles' = 3
    /\ UNCHANGED <<tickVars, programVars, pipeline_mode, running_, stop_requested_, output_status_>>

LeaveMainLoop ==
    /\ run_phase = "main"
    /\ ~MainLoopGuard
    /\ run_phase' = "flush"
    /\ flush_cycles' = 4
    /\ UNCHANGED <<tickVars, programVars, pipeline_mode, running_, stop_requested_, output_status_>>

FlushLoopTick ==
    /\ run_phase = "flush"
    /\ ~stop_requested_ /\ flush_cycles >= 0
    /\ Clocktick
    /\ flush_cycles' = flush_cycles - 1
    /\ UNCHANGED <<running_, stop_requested_, run_phase, output_status_>>

EndRun ==
    /\ run_phase = "flush"
    /\ stop_requested_ \/ flush_cycles < 0
    /\ run_phase' = "idle"
    /\ running_' = FALSE
    /\ flush_cycles' = -1
    /\ output_status_' = IF ~InProgram(program_counter) /\ ~stop_requested_
                         THEN "VM_PROGRAM_END" ELSE output_status_
    /\ UNCHANGED <<tickVars, programVars, pipeline_mode, stop_requested_>>

(* Step, in the pipelined modes: it returns at once while stop_requested_ is
   still set, which only a run clears. *)

StepTick ==
    /\ run_phase = "idle" /\ ~running_ /\ ~stop_requested_
    /\ InProgram(program_counter) \/ ~PipelineEmpty
    /\ program_counter < PcBound
    /\ Clocktick
    /\ output_status_' = "VM_STEP_COMPLETED"
    /\ UNCHANGED <<running_, stop_requested_, run_phase, flush_cycles>>

StepAtEnd ==
    /\ run_phase = "idle" /\ ~running_ /\ ~stop_requested_
    /\ ~InProgram(program_counter) /\ PipelineEmpty
    /\ output_status_' = "VM_PROGRAM_END"
    /\ UNCHANGED <<tickVars, programVars, pipeline_mode, running_, stop_requested_,
                   run_phase, flush_cycles>>

(* The other thread's commands, which do not wait for a run to end *)

RequestStop ==
    /\ stop_requested_' = TRUE
    /\ UNCHANGED <<tickVars, programVars, pipeline_mode, running_, run_phase,
                   flush_cycles, output_status_>>

\* Reset clears the memory and so the program text, and leaves program_size_,
\* flush_fetch_ and stop_requested_ as they are.
Reset ==
    /\ ResetMachine
    /\ if_id' = IfIdBubble /\ id_ex' = IdExBubble
    /\ ex_mem' = ExMemBubble /\ mem_wb' = MemWbBubble
    /\ pipeline_stalled_' = FALSE
    /\ bpu' = NewPredictor
    /\ instructions_retired_' = 0
    /\ UNCHANGED <<flush_fetch_, program_size_, pipeline_mode, runVars>>

\* LoadProgram writes the text and the data, and nothing else starts afresh.
Load(p) ==
    /\ text' = LoadText(p, text)
    /\ memory' = LoadData(p, memory)
    /\ program_size_' = p.size
    /\ output_status_' = "VM_PROGRAM_LOADED"
    /\ UNCHANGED <<program_counter, gpr, latches, flags, bpu, instructions_retired_,
                   pipeline_mode, running_, stop_requested_, run_phase, flush_cycles>>

LoadProgram == \E p \in Program : Load(p)

\* The user who resets before loading, once the run has ended: nothing of the
\* last program is left.
Cleared ==
    /\ program_counter = 0 /\ gpr = ZeroGpr
    /\ memory = ZeroMemory /\ text = ZeroText
    /\ if_id = IfIdBubble /\ id_ex = IdExBubble
    /\ ex_mem = ExMemBubble /\ mem_wb = MemWbBubble
    /\ bpu = NewPredictor

LoadAfterReset ==
    /\ run_phase = "idle"
    /\ Cleared
    /\ \E s \in Scenario : s[1] = pipeline_mode /\ Load(s[2])

-----------------------------------------------------------------------------
RunLoop == MainLoopTick \/ LeaveMainLoop \/ FlushLoopTick \/ EndRun

\* The behaviours of one loaded program, those of a session in which each program
\* is loaded after a reset, and those in which programs are loaded at any time.
NextOneProgram == StartRun \/ RunLoop \/ StepTick \/ StepAtEnd \/ RequestStop \/ Reset

NextSession == NextOneProgram \/ LoadAfterReset

Next == NextOneProgram \/ LoadProgram

SpecOneProgram == Init /\ [][NextOneProgram]_vars

SpecSession == Init /\ [][NextSession]_vars

Spec == Init /\ [][Next]_vars

\* The thread that executes Run_Pipelined is scheduled by the operating system.
FairSpec == Spec /\ WF_vars(RunLoop)
==============================================================================
