---------------------------- MODULE PipelineProofs ----------------------------
(***************************************************************************)
(* Theorems about the pipeline, for every register set, word size, program *)
(* and predictor index function: type correctness first, then the safety   *)
(* invariants.                                                             *)
(***************************************************************************)
EXTENDS PipelineProperties, MachineProofs

USE DEF Word, ToWord

-----------------------------------------------------------------------------
(* What the stages return. *)

\* Write-back keeps the register file a register file.
LEMMA WriteBackType ==
    ASSUME NEW w \in MemWb, NEW regs \in [Reg -> Word]
    PROVE  WriteBackStage(w, regs) \in [Reg -> Word]
BY DEF WriteBackStage, WriteGpr, WriteBackValue, MemWb

LEMMA MemoryType ==
    ASSUME NEW x \in ExMem, NEW mem \in [Word -> Word]
    PROVE  /\ MemoryStage(x, mem) \in MemWb
           /\ MemoryWrite(x, mem) \in [Word -> Word]
<1> USE WordAssumption, RegAssumption
<1>1. MemoryStage(x, mem) \in MemWb
  BY ZeroInstType, NoSignalsType DEF MemoryStage, MemWb, ExMem, MemWbBubble, Signals
<1>2. MemoryWrite(x, mem) \in [Word -> Word]
  BY DEF MemoryWrite, WriteDoubleWord, ExMem, Signals
<1> QED BY <1>1, <1>2

LEMMA OperandType ==
    ASSUME NEW d \in IdEx, NEW x \in ExMem, NEW w \in MemWb
    PROVE  OperandA(d, x, w) \in Word /\ OperandB(d, x, w) \in Word
BY DEF OperandA, OperandB, ForwardedValue, WriteBackValue, IdEx, ExMem, MemWb

LEMMA ExecuteType ==
    ASSUME NEW d \in IdEx, NEW x \in ExMem, NEW w \in MemWb
    PROVE  ExecuteStage(d, x, w) \in ExMem
<1> USE WordAssumption, RegAssumption
<1> DEFINE a == OperandA(d, x, w)
           b == OperandB(d, x, w)
<1>1. a \in Word /\ b \in Word
  BY OperandType
<1> HIDE DEF a, b
<1>2. ToWord(d.inst.imm) \in Word
  BY DEF IdEx, Instruction
<1>3. AluResult(d, a, b) \in Word
  BY <1>1, <1>2, AluType DEF AluResult, IdEx
<1> QED
  BY <1>1, <1>3, ZeroInstType, NoSignalsType DEF ExecuteStage, ExMem, ExMemBubble, IdEx, a, b

LEMMA TargetType ==
    ASSUME NEW inst \in Instruction, NEW pc \in Int, NEW regs \in [Reg -> Word]
    PROVE  Target(inst, pc, regs) \in Int
BY WordAssumption DEF Target, Instruction

LEMMA BubbleTypes ==
    /\ IfIdBubble \in IfId /\ IdExBubble \in IdEx
    /\ ExMemBubble \in ExMem /\ MemWbBubble \in MemWb
<1> USE WordAssumption, RegAssumption, ZeroInstType, NoSignalsType
<1>1. IfIdBubble \in IfId
  BY DEF IfIdBubble, IfId
<1>2. IdExBubble \in IdEx
  BY DEF IdExBubble, IdEx, ForwardSource
<1>3. ExMemBubble \in ExMem
  BY DEF ExMemBubble, ExMem
<1>4. MemWbBubble \in MemWb
  BY DEF MemWbBubble, MemWb
<1> QED BY <1>1, <1>2, <1>3, <1>4

LEMMA ForwardType ==
    ASSUME NEW mode, NEW used, NEW rs, NEW d, NEW x
    PROVE  Forward(mode, used, rs, d, x) \in ForwardSource
BY DEF Forward, ForwardSource

LEMMA DecodeType ==
    ASSUME NEW mode \in PipelineMode, NEW fd \in IfId, NEW d \in IdEx, NEW x \in ExMem,
           NEW regs \in [Reg -> Word]
    PROVE  DecodeStage(mode, fd, d, x, regs) \in IdEx
<1> USE WordAssumption, RegAssumption
<1>1. IssuedLatch(mode, fd, d, x, regs) \in IdEx
  <2>1. SetControlSignals(fd.inst) \in Signals
    BY SignalsType DEF IfId
  <2>2. /\ ForwardA(mode, fd.inst, d, x) \in ForwardSource
        /\ ForwardB(mode, fd.inst, d, x) \in ForwardSource
    BY ForwardType DEF ForwardA, ForwardB
  <2>3. fd.inst \in Instruction /\ fd.inst.rd \in Reg
    BY DEF IfId, Instruction
  <2>4. regs[fd.inst.rs1] \in Word /\ regs[fd.inst.rs2] \in Word
    BY DEF IfId, Instruction
  <2>5. ToWord(fd.pc + 1) \in Word /\ 0 \in Word
    BY DEF IfId
  <2> HIDE DEF Word, ToWord
  <2> QED
    BY <2>1, <2>2, <2>3, <2>4, <2>5 DEF IssuedLatch, IdEx
<1>2. LinkLatch(fd) \in IdEx
  <2>1. [NoSignals EXCEPT !.reg_write = TRUE] \in Signals
    BY DEF NoSignals, Signals
  <2>2. IdExBubble \in IdEx
    BY BubbleTypes
  <2>3. fd.inst \in Instruction /\ fd.inst.rd \in Reg
    BY DEF IfId, Instruction
  <2>4. ToWord(fd.pc + 1) \in Word
    BY DEF IfId
  <2> HIDE DEF Word, ToWord
  <2> QED
    BY <2>1, <2>2, <2>3, <2>4 DEF LinkLatch, IdEx
<1> QED
  BY <1>1, <1>2, BubbleTypes DEF DecodeStage

-----------------------------------------------------------------------------
(* The predictor. *)

LEMMA PutType ==
    ASSUME NEW S, NEW f, f \in [DOMAIN f -> S], NEW k, NEW v \in S
    PROVE  /\ Put(f, k, v) \in [DOMAIN Put(f, k, v) -> S]
           /\ DOMAIN Put(f, k, v) = DOMAIN f \cup {k}
BY DEF Put

\* Looking a branch up keeps the predictor well formed.
LEMMA PredictType ==
    ASSUME NEW predictor, PredictorTypeOK(predictor), NEW pc \in Int
    PROVE  /\ PredictorTypeOK(AfterPredict(predictor, pc))
           /\ PredictTarget(predictor, pc) \in Int
<1>1. PredictorTypeOK(AfterPredict(predictor, pc))
  <2> DEFINE i == IndexOf(predictor, pc)
  <2> HIDE DEF i
  <2>1. WeaklyNotTaken \in Counter
    BY DEF WeaklyNotTaken, Counter
  <2>2. Put(predictor.bht, i, WeaklyNotTaken) \in
          [DOMAIN Put(predictor.bht, i, WeaklyNotTaken) -> Counter]
    BY <2>1, PutType DEF PredictorTypeOK
  <2> QED BY <2>2 DEF AfterPredict, PredictorTypeOK, i
<1>2. PredictTarget(predictor, pc) \in Int
  BY DEF PredictTarget, PredictTaken, PredictorTypeOK
<1> QED BY <1>1, <1>2

\* Training it does too: the counters saturate and the history wraps.
LEMMA UpdateType ==
    ASSUME NEW predictor, PredictorTypeOK(predictor), NEW pc \in Int,
           NEW taken \in BOOLEAN, NEW target \in Int
    PROVE  PredictorTypeOK(Update(predictor, pc, taken, target))
<1> DEFINE i == IndexOf(predictor, pc)
           c == NextCounter(CounterAt(predictor, i), taken)
<1>1. CounterAt(predictor, i) \in Counter
  BY DEF CounterAt, PredictorTypeOK, Counter
<1>2. c \in Counter
  BY <1>1 DEF NextCounter, Counter
<1> HIDE DEF i, c
<1>3. Put(predictor.bht, i, c) \in [DOMAIN Put(predictor.bht, i, c) -> Counter]
  BY <1>2, PutType DEF PredictorTypeOK
<1>4. Put(predictor.btb, pc, target) \in [DOMAIN Put(predictor.btb, pc, target) -> Int]
  BY PutType DEF PredictorTypeOK
<1>5. (2 * predictor.history + (IF taken THEN 1 ELSE 0)) % HistoryMod \in 0 .. (HistoryMod - 1)
  BY HistoryAssumption DEF PredictorTypeOK
<1> QED
  BY <1>3, <1>4, <1>5 DEF Update, PredictorTypeOK, i, c

-----------------------------------------------------------------------------
(* Type correctness. *)

\* Whatever decode hands over, fetch produces a well-formed IF/ID latch, program
\* counter and predictor.
LEMMA FetchType ==
    ASSUME NEW pc \in Int, NEW flush, NEW stalled \in BOOLEAN,
           NEW predictor, PredictorTypeOK(predictor),
           TypeOK, Fetch(pc, flush, stalled, predictor)
    PROVE  /\ if_id' \in IfId
           /\ program_counter' \in Int
           /\ PredictorTypeOK(bpu)'
           /\ flush_fetch_' \in BOOLEAN /\ pipeline_stalled_' \in BOOLEAN
<1>1. CASE FetchFlushed(pc, stalled, predictor)
  BY <1>1, BubbleTypes DEF FetchFlushed
<1>2. CASE FetchStalled(pc, predictor)
  BY <1>2 DEF FetchStalled, TypeOK
<1>3. CASE FetchNext(pc, predictor)
  <2>1. ReadInstruction(text, pc) \in Instruction
    BY ReadInstructionType DEF TypeOK, MachineTypeOK
  <2>2. PredictTarget(predictor, pc) \in Int /\ PredictorTypeOK(AfterPredict(predictor, pc))
    BY PredictType
  <2>3. if_id' \in IfId
    BY <1>3, <2>1 DEF FetchNext, IfId, PredictTaken
  <2>4. PredictorTypeOK(bpu)'
    BY <1>3, <2>2 DEF FetchNext
  <2>5. program_counter' \in Int
    BY <1>3, <2>2 DEF FetchNext
  <2>6. flush_fetch_' \in BOOLEAN /\ pipeline_stalled_' \in BOOLEAN
    BY <1>3 DEF FetchNext
  <2> QED BY <2>3, <2>4, <2>5, <2>6
<1> QED
  BY <1>1, <1>2, <1>3 DEF Fetch

LEMMA TrainedType ==
    ASSUME NEW mode, NEW outcome, NEW fd \in IfId, NEW regs \in [Reg -> Word],
           NEW predictor, PredictorTypeOK(predictor)
    PROVE  PredictorTypeOK(TrainedPredictor(mode, outcome, fd, regs, predictor))
<1>1. fd.inst \in Instruction /\ fd.pc \in Int
  BY DEF IfId
<1>2. Target(fd.inst, fd.pc, regs) \in Int
  BY <1>1, TargetType
<1>3. Taken(fd.inst, regs) \in BOOLEAN
  BY DEF Taken
<1> QED
  BY <1>1, <1>2, <1>3, UpdateType DEF TrainedPredictor

LEMMA RedirectedType ==
    ASSUME NEW outcome, NEW fd \in IfId, NEW regs \in [Reg -> Word], NEW pc \in Int
    PROVE  RedirectedPc(outcome, fd, regs, pc) \in Int
<1>1. fd.inst \in Instruction /\ fd.pc \in Int
  BY DEF IfId
<1>2. Target(fd.inst, fd.pc, regs) \in Int
  BY <1>1, TargetType
<1> QED
  BY <1>1, <1>2 DEF RedirectedPc

\* One tick, from any well-typed state.
LEMMA ClocktickType ==
    ASSUME TypeOK, Clocktick
    PROVE  /\ MachineTypeOK'
           /\ if_id' \in IfId /\ id_ex' \in IdEx /\ ex_mem' \in ExMem /\ mem_wb' \in MemWb
           /\ pipeline_stalled_' \in BOOLEAN /\ flush_fetch_' \in BOOLEAN
           /\ PredictorTypeOK(bpu)'
           /\ instructions_retired_' \in 0 .. RetiredCap
<1> DEFINE regs == WriteBackStage(mem_wb, gpr)
           outcome == DecodeOutcome(pipeline_mode, if_id, id_ex, ex_mem, regs)
           pc == RedirectedPc(outcome, if_id, regs, program_counter)
           flush == flush_fetch_ \/ outcome = "mispredict"
           stalled == pipeline_stalled_ \/ outcome = "stall"
           trained == TrainedPredictor(pipeline_mode, outcome, if_id, regs, bpu)
<1>1. /\ gpr' = regs
      /\ mem_wb' = MemoryStage(ex_mem, memory)
      /\ memory' = MemoryWrite(ex_mem, memory)
      /\ ex_mem' = ExecuteStage(id_ex, ex_mem, mem_wb)
      /\ id_ex' = DecodeStage(pipeline_mode, if_id, id_ex, ex_mem, regs)
      /\ instructions_retired_' = RetiredAfter(mem_wb, instructions_retired_)
      /\ text' = text
      /\ Fetch(pc, flush, stalled, trained)
  BY DEF Clocktick, programVars
<1>2. /\ gpr \in [Reg -> Word] /\ memory \in [Word -> Word] /\ program_counter \in Int
      /\ text \in [TextAddr -> Instruction]
      /\ if_id \in IfId /\ id_ex \in IdEx /\ ex_mem \in ExMem /\ mem_wb \in MemWb
      /\ PredictorTypeOK(bpu) /\ pipeline_mode \in PipelineMode
  BY DEF TypeOK, MachineTypeOK
<1>3. regs \in [Reg -> Word]
  BY <1>2, WriteBackType
<1>4. mem_wb' \in MemWb /\ memory' \in [Word -> Word]
  BY <1>1, <1>2, MemoryType
<1>5. ex_mem' \in ExMem
  BY <1>1, <1>2, ExecuteType
<1> HIDE DEF regs, outcome
<1>6. id_ex' \in IdEx
  BY <1>1, <1>2, <1>3, DecodeType
<1>7. PredictorTypeOK(trained)
  BY <1>2, <1>3, TrainedType
<1>8. pc \in Int
  BY <1>2, <1>3, RedirectedType
<1>9. stalled \in BOOLEAN
  BY DEF TypeOK
<1> HIDE DEF pc, flush, stalled, trained
<1>10. /\ if_id' \in IfId
       /\ program_counter' \in Int
       /\ PredictorTypeOK(bpu)'
       /\ flush_fetch_' \in BOOLEAN /\ pipeline_stalled_' \in BOOLEAN
  BY <1>1, <1>7, <1>8, <1>9, FetchType
<1>11. instructions_retired_' \in 0 .. RetiredCap
  BY <1>1, BoundAssumption DEF TypeOK, RetiredAfter
<1>12. MachineTypeOK'
  BY <1>1, <1>2, <1>3, <1>4, <1>10 DEF MachineTypeOK
<1> QED
  BY <1>4, <1>5, <1>6, <1>10, <1>11, <1>12

LEMMA NewPredictorType == PredictorTypeOK(NewPredictor)
BY HistoryAssumption DEF PredictorTypeOK, NewPredictor

\* The system starts well typed.
LEMMA InitType == Init => TypeOK
<1> SUFFICES ASSUME Init PROVE TypeOK
  OBVIOUS
<1>1. PICK s \in Scenario :
        /\ pipeline_mode = s[1]
        /\ memory = LoadData(s[2], ZeroMemory)
        /\ text = LoadText(s[2], ZeroText)
        /\ program_size_ = s[2].size
  BY DEF Init
<1>2. s[1] \in PipelineMode /\ s[2] \in Program
  BY ScenarioAssumption
<1>3. /\ memory \in [Word -> Word] /\ text \in [TextAddr -> Instruction]
      /\ program_size_ \in 0 .. TextSize
  BY <1>1, <1>2, ZeroTypes, LoadTypes
<1>4. MachineTypeOK
  BY <1>3, ZeroTypes DEF Init, MachineTypeOK
<1>5. PredictorTypeOK(bpu)
  BY NewPredictorType DEF Init
<1>6. if_id \in IfId /\ id_ex \in IdEx /\ ex_mem \in ExMem /\ mem_wb \in MemWb
  BY BubbleTypes DEF Init
<1>7. instructions_retired_ \in 0 .. RetiredCap
  BY BoundAssumption DEF Init
<1>8. /\ running_ \in BOOLEAN /\ stop_requested_ \in BOOLEAN
      /\ pipeline_stalled_ \in BOOLEAN /\ flush_fetch_ \in BOOLEAN
  BY DEF Init
<1>9. run_phase = "idle" /\ flush_cycles \in -1 .. 4 /\ output_status_ = "VM_PROGRAM_LOADED"
  BY DEF Init
<1> QED
  BY <1>1, <1>2, <1>3, <1>4, <1>5, <1>6, <1>7, <1>8, <1>9 DEF TypeOK

\* Every action of the system keeps it well typed.
LEMMA NextType == TypeOK /\ [Next]_vars => TypeOK'
<1> SUFFICES ASSUME TypeOK, [Next]_vars PROVE TypeOK'
  OBVIOUS
<1> USE DEF TypeOK
<1>1. CASE StartRun
  BY <1>1 DEF StartRun, tickVars, programVars, latches, flags, MachineTypeOK, PredictorTypeOK
<1>2. CASE MainLoopTick
  BY <1>2, ClocktickType DEF MainLoopTick, Clocktick, programVars, runVars
<1>3. CASE LeaveMainLoop
  BY <1>3 DEF LeaveMainLoop, tickVars, programVars, latches, flags, MachineTypeOK, PredictorTypeOK
<1>4. CASE FlushLoopTick
  <2>1. flush_cycles' \in -1 .. 4
    BY <1>4 DEF FlushLoopTick
  <2> QED
    BY <1>4, <2>1, ClocktickType DEF FlushLoopTick, Clocktick, programVars
<1>5. CASE EndRun
  <2>1. output_status_' \in {"VM_PROGRAM_LOADED", "VM_STEP_COMPLETED", "VM_PROGRAM_END"}
    BY <1>5 DEF EndRun
  <2>2. run_phase' = "idle" /\ running_' = FALSE /\ flush_cycles' = -1
    BY <1>5 DEF EndRun
  <2>3. UNCHANGED <<tickVars, programVars, pipeline_mode, stop_requested_>>
    BY <1>5 DEF EndRun
  <2>4. MachineTypeOK' /\ PredictorTypeOK(bpu)'
    BY <2>3 DEF tickVars, programVars, MachineTypeOK, PredictorTypeOK
  <2>5. run_phase' \in {"idle", "main", "flush"} /\ running_' \in BOOLEAN
    <3> HIDE DEF TypeOK
    <3> QED BY <2>2
  <2>6. flush_cycles' \in -1 .. 4
    <3> HIDE DEF TypeOK
    <3>1. flush_cycles' = -1
      BY <2>2
    <3>2. -1 \in -1 .. 4
      OBVIOUS
    <3> QED BY <3>1, <3>2
  <2> QED
    BY <2>1, <2>3, <2>4, <2>5, <2>6 DEF tickVars, programVars, latches, flags
<1>6. CASE StepTick
  BY <1>6, ClocktickType DEF StepTick, Clocktick, programVars
<1>7. CASE StepAtEnd
  BY <1>7 DEF StepAtEnd, tickVars, programVars, latches, flags, MachineTypeOK, PredictorTypeOK
<1>8. CASE RequestStop
  BY <1>8 DEF RequestStop, tickVars, programVars, latches, flags, MachineTypeOK, PredictorTypeOK
<1>9. CASE Reset
  <2>1. MachineTypeOK'
    BY <1>9, ZeroTypes DEF Reset, ResetMachine, MachineTypeOK
  <2>2. PredictorTypeOK(bpu)'
    BY <1>9, NewPredictorType DEF Reset
  <2>3. if_id' \in IfId /\ id_ex' \in IdEx /\ ex_mem' \in ExMem /\ mem_wb' \in MemWb
    BY <1>9, BubbleTypes DEF Reset
  <2>4. instructions_retired_' \in 0 .. RetiredCap
    BY <1>9, BoundAssumption DEF Reset
  <2>5. pipeline_stalled_' \in BOOLEAN
    BY <1>9 DEF Reset
  <2>6. UNCHANGED <<flush_fetch_, program_size_, pipeline_mode, running_, stop_requested_,
                    run_phase, flush_cycles, output_status_>>
    BY <1>9 DEF Reset, runVars
  <2> QED
    BY <2>1, <2>2, <2>3, <2>4, <2>5, <2>6
<1>10. CASE LoadProgram
  <2>1. PICK p \in Program :
          /\ text' = LoadText(p, text)
          /\ memory' = LoadData(p, memory)
          /\ program_size_' = p.size
    BY <1>10 DEF LoadProgram, Load
  <2>2. MachineTypeOK' /\ program_size_' \in 0 .. TextSize
    BY <1>10, <2>1, LoadTypes DEF LoadProgram, Load, MachineTypeOK
  <2>3. PredictorTypeOK(bpu)'
    BY <1>10 DEF LoadProgram, Load, PredictorTypeOK
  <2> QED
    BY <1>10, <2>2, <2>3 DEF LoadProgram, Load, latches, flags
<1>11. CASE UNCHANGED vars
  BY <1>11 DEF vars, tickVars, programVars, latches, flags, runVars, MachineTypeOK, PredictorTypeOK
<1> QED
  BY <1>1, <1>2, <1>3, <1>4, <1>5, <1>6, <1>7, <1>8, <1>9, <1>10, <1>11
  DEF Next, NextOneProgram, RunLoop

\* The latches, the registers, the memory and the predictor stay well formed
\* whatever is run, stepped, stopped, reset or loaded, in every mode.
THEOREM TypeCorrect == Spec => []TypeOK
BY InitType, NextType, PTL DEF Spec
-----------------------------------------------------------------------------
\* The flags, and the latches, are changed by a tick, a reset or nothing.
LEMMA TickOrNot ==
    [Next]_vars =>
        \/ Clocktick
        \/ Reset
        \/ UNCHANGED <<gpr, latches, flags, bpu, program_counter, pipeline_mode>>
<1> SUFFICES ASSUME [Next]_vars
             PROVE  \/ Clocktick
                    \/ Reset
                    \/ UNCHANGED <<gpr, latches, flags, bpu, program_counter, pipeline_mode>>
  OBVIOUS
<1>1. CASE StartRun \/ LeaveMainLoop \/ EndRun \/ StepAtEnd \/ RequestStop
  BY <1>1 DEF StartRun, LeaveMainLoop, EndRun, StepAtEnd, RequestStop, tickVars
<1>2. CASE MainLoopTick \/ FlushLoopTick \/ StepTick
  BY <1>2 DEF MainLoopTick, FlushLoopTick, StepTick
<1>3. CASE LoadProgram
  BY <1>3 DEF LoadProgram, Load
<1>4. CASE UNCHANGED vars
  BY <1>4 DEF vars, tickVars
<1> QED
  BY <1>1, <1>2, <1>3, <1>4 DEF Next, NextOneProgram, RunLoop

-----------------------------------------------------------------------------
(* Stall and flush are handed over within a tick. *)

LEMMA FlagsStep == FlagsConsumed /\ [Next]_vars => FlagsConsumed'
<1> SUFFICES ASSUME FlagsConsumed, [Next]_vars PROVE FlagsConsumed'
  OBVIOUS
<1>1. CASE Clocktick
  <2> DEFINE regs == WriteBackStage(mem_wb, gpr)
             outcome == DecodeOutcome(pipeline_mode, if_id, id_ex, ex_mem, regs)
             pc == RedirectedPc(outcome, if_id, regs, program_counter)
             trained == TrainedPredictor(pipeline_mode, outcome, if_id, regs, bpu)
  <2>1. Fetch(pc, flush_fetch_ \/ outcome = "mispredict",
              pipeline_stalled_ \/ outcome = "stall", trained)
    BY <1>1 DEF Clocktick
  <2> HIDE DEF outcome, pc, trained
  <2>2. ~flush_fetch_ /\ ~pipeline_stalled_
    BY DEF FlagsConsumed
  <2>3. CASE outcome = "mispredict"
    <3>1. FetchFlushed(pc, pipeline_stalled_ \/ outcome = "stall", trained)
      BY <2>1, <2>3 DEF Fetch
    <3>2. outcome # "stall"
      BY <2>3
    <3> QED BY <2>2, <3>1, <3>2 DEF FetchFlushed, FlagsConsumed
  <2>4. CASE outcome # "mispredict"
    BY <2>1, <2>2, <2>4 DEF Fetch, FetchStalled, FetchNext, FlagsConsumed
  <2> QED BY <2>3, <2>4
<1>2. CASE Reset
  BY <1>2 DEF Reset, FlagsConsumed
<1>3. CASE UNCHANGED <<gpr, latches, flags, bpu, program_counter, pipeline_mode>>
  BY <1>3 DEF flags, FlagsConsumed
<1> QED BY <1>1, <1>2, <1>3, TickOrNot

\* Between two ticks no stall and no flush is pending, in every mode and
\* wherever a run was stopped, stepped, reset or given another program.
THEOREM FlagsAlwaysConsumed == Spec => []FlagsConsumed
<1>1. Init => FlagsConsumed
  BY DEF Init, FlagsConsumed
<1> QED BY <1>1, FlagsStep, PTL DEF Spec

-----------------------------------------------------------------------------
(* Operands.  What makes them current is which latch each is taken from:
   that does not depend on the memory, which LoadProgram may change between
   two ticks, and it is inductive where OperandsCurrent is not. *)

SourceRight(source, fromDecode, r) ==
    \/ /\ WillWrite(ex_mem, r)
       /\ source = "FROM_EXECUTE" /\ ~ex_mem.signals.mem_to_reg
    \/ /\ ~WillWrite(ex_mem, r) /\ WillWrite(mem_wb, r)
       /\ source = "FROM_MEMORY"
    \/ /\ ~WillWrite(ex_mem, r) /\ ~WillWrite(mem_wb, r)
       /\ source = "FROM_DECODE" /\ fromDecode = gpr[r]

SourcesRight ==
    id_ex.valid /\ ~IsJump(id_ex.inst) =>
        /\ UsesRs1(id_ex.inst) => SourceRight(id_ex.forward_A, id_ex.rs1_data, id_ex.inst.rs1)
        /\ UsesRs2(id_ex.inst) => SourceRight(id_ex.forward_B, id_ex.rs2_data, id_ex.inst.rs2)

LoadsMarked == id_ex.signals.mem_to_reg => id_ex.signals.mem_read

OperandInv ==
    /\ TypeOK
    /\ pipeline_mode >= StallMode
    /\ LoadsMarked
    /\ SourcesRight

\* What a latch is going to write does not change as it moves down a stage.
LEMMA ExecuteKeepsWrite ==
    ASSUME NEW d, NEW x, NEW w, NEW r, d.valid \in BOOLEAN
    PROVE  /\ WillWrite(ExecuteStage(d, x, w), r) <=> WillWrite(d, r)
           /\ d.valid => ExecuteStage(d, x, w).signals = d.signals
<1>1. CASE d.valid
  BY <1>1 DEF ExecuteStage, WillWrite
<1>2. CASE ~d.valid
  BY <1>2 DEF ExecuteStage, WillWrite, ExMemBubble
<1> QED BY <1>1, <1>2

LEMMA MemoryKeepsWrite ==
    ASSUME NEW x, NEW mem, NEW r, x.valid \in BOOLEAN
    PROVE  WillWrite(MemoryStage(x, mem), r) <=> WillWrite(x, r)
<1>1. CASE x.valid
  BY <1>1 DEF MemoryStage, WillWrite
<1>2. CASE ~x.valid
  BY <1>2 DEF MemoryStage, WillWrite, MemWbBubble
<1> QED BY <1>1, <1>2

\* The hazard unit lets an instruction leave decode only if each operand can
\* be taken from the youngest older instruction that writes it.
LEMMA UnitChooses ==
    ASSUME NEW mode \in PipelineMode, mode >= StallMode, NEW inst, NEW d, NEW x,
           ~StallFetch(mode, inst, d, x)
    PROVE  /\ UsesRs1(inst) =>
                /\ WillWrite(d, inst.rs1) =>
                      ForwardA(mode, inst, d, x) = "FROM_EXECUTE" /\ ~WillLoad(d, inst.rs1)
                /\ ~WillWrite(d, inst.rs1) /\ WillWrite(x, inst.rs1) =>
                      ForwardA(mode, inst, d, x) = "FROM_MEMORY"
                /\ ~WillWrite(d, inst.rs1) /\ ~WillWrite(x, inst.rs1) =>
                      ForwardA(mode, inst, d, x) = "FROM_DECODE"
           /\ UsesRs2(inst) =>
                /\ WillWrite(d, inst.rs2) =>
                      ForwardB(mode, inst, d, x) = "FROM_EXECUTE" /\ ~WillLoad(d, inst.rs2)
                /\ ~WillWrite(d, inst.rs2) /\ WillWrite(x, inst.rs2) =>
                      ForwardB(mode, inst, d, x) = "FROM_MEMORY"
                /\ ~WillWrite(d, inst.rs2) /\ ~WillWrite(x, inst.rs2) =>
                      ForwardB(mode, inst, d, x) = "FROM_DECODE"
<1>1. CASE mode = StallMode
  <2>1. /\ UsesRs1(inst) => ~WillWrite(d, inst.rs1) /\ ~WillWrite(x, inst.rs1)
        /\ UsesRs2(inst) => ~WillWrite(d, inst.rs2) /\ ~WillWrite(x, inst.rs2)
    BY <1>1 DEF StallFetch, PendingWrite, Reads
  <2>2. ~(mode >= ForwardingMode)
    BY <1>1 DEF StallMode, ForwardingMode
  <2> QED BY <2>1, <2>2 DEF ForwardA, ForwardB, Forward
<1>2. CASE mode # StallMode
  <2>1. mode >= ForwardingMode
    BY <1>2 DEF StallMode, ForwardingMode, PipelineMode
  <2>2. /\ UsesRs1(inst) => ~WillLoad(d, inst.rs1)
        /\ UsesRs2(inst) => ~WillLoad(d, inst.rs2)
    BY <2>1 DEF StallFetch, PendingLoad, Reads
  <2> QED BY <2>1, <2>2 DEF ForwardA, ForwardB, Forward
<1> QED BY <1>1, <1>2

LEMMA LoadsMarkedStep ==
    ASSUME NEW mode, NEW fd, NEW d, NEW x, NEW regs
    PROVE  LET l == DecodeStage(mode, fd, d, x, regs)
           IN  l.signals.mem_to_reg => l.signals.mem_read
<1> DEFINE outcome == DecodeOutcome(mode, fd, d, x, regs)
<1> HIDE DEF outcome
<1>1. CASE outcome = "issue"
  BY <1>1 DEF DecodeStage, outcome, IssuedLatch, SetControlSignals
<1>2. CASE outcome = "mispredict" /\ IsJump(fd.inst)
  BY <1>2 DEF DecodeStage, outcome, LinkLatch, IdExBubble, NoSignals
<1>3. CASE outcome # "issue" /\ ~(outcome = "mispredict" /\ IsJump(fd.inst))
  BY <1>3 DEF DecodeStage, outcome, IdExBubble, NoSignals
<1> QED BY <1>1, <1>2, <1>3

\* A tick puts an instruction into ID/EX with the right sources.
LEMMA SourcesTick == OperandInv /\ Clocktick => SourcesRight'
<1> SUFFICES ASSUME OperandInv, Clocktick, id_ex'.valid, ~IsJump(id_ex'.inst)
             PROVE  /\ UsesRs1(id_ex'.inst) =>
                         SourceRight(id_ex.forward_A, id_ex.rs1_data, id_ex.inst.rs1)'
                    /\ UsesRs2(id_ex'.inst) =>
                         SourceRight(id_ex.forward_B, id_ex.rs2_data, id_ex.inst.rs2)'
  BY DEF SourcesRight
<1> DEFINE regs == WriteBackStage(mem_wb, gpr)
           outcome == DecodeOutcome(pipeline_mode, if_id, id_ex, ex_mem, regs)
<1>1. /\ gpr' = regs
      /\ mem_wb' = MemoryStage(ex_mem, memory)
      /\ ex_mem' = ExecuteStage(id_ex, ex_mem, mem_wb)
      /\ id_ex' = DecodeStage(pipeline_mode, if_id, id_ex, ex_mem, regs)
  BY DEF Clocktick
<1>2. /\ pipeline_mode \in PipelineMode /\ pipeline_mode >= StallMode
      /\ id_ex.valid \in BOOLEAN /\ ex_mem.valid \in BOOLEAN
      /\ id_ex.signals.mem_to_reg => id_ex.signals.mem_read
  BY DEF OperandInv, TypeOK, IdEx, ExMem, LoadsMarked
<1> HIDE DEF regs, outcome
<1>3. outcome = "issue"
  <2>1. CASE outcome = "mispredict" /\ IsJump(if_id.inst)
    BY <1>1, <2>1 DEF DecodeStage, outcome, LinkLatch, IdExBubble
  <2>2. CASE outcome # "issue" /\ ~(outcome = "mispredict" /\ IsJump(if_id.inst))
    BY <1>1, <2>2 DEF DecodeStage, outcome, IdExBubble
  <2> QED BY <2>1, <2>2
<1>4. id_ex' = IssuedLatch(pipeline_mode, if_id, id_ex, ex_mem, regs)
  BY <1>1, <1>3 DEF DecodeStage, outcome
<1>5. ~StallFetch(pipeline_mode, if_id.inst, id_ex, ex_mem)
  BY <1>3 DEF outcome, DecodeOutcome
<1> DEFINE i == if_id.inst
           fa == ForwardA(pipeline_mode, i, id_ex, ex_mem)
           fb == ForwardB(pipeline_mode, i, id_ex, ex_mem)
<1>6. /\ id_ex'.inst = i /\ id_ex'.forward_A = fa /\ id_ex'.forward_B = fb
      /\ id_ex'.rs1_data = gpr'[i.rs1] /\ id_ex'.rs2_data = gpr'[i.rs2]
  BY <1>1, <1>4 DEF IssuedLatch
<1>7. /\ UsesRs1(i) =>
           /\ WillWrite(id_ex, i.rs1) => fa = "FROM_EXECUTE" /\ ~WillLoad(id_ex, i.rs1)
           /\ ~WillWrite(id_ex, i.rs1) /\ WillWrite(ex_mem, i.rs1) => fa = "FROM_MEMORY"
           /\ ~WillWrite(id_ex, i.rs1) /\ ~WillWrite(ex_mem, i.rs1) => fa = "FROM_DECODE"
      /\ UsesRs2(i) =>
           /\ WillWrite(id_ex, i.rs2) => fb = "FROM_EXECUTE" /\ ~WillLoad(id_ex, i.rs2)
           /\ ~WillWrite(id_ex, i.rs2) /\ WillWrite(ex_mem, i.rs2) => fb = "FROM_MEMORY"
           /\ ~WillWrite(id_ex, i.rs2) /\ ~WillWrite(ex_mem, i.rs2) => fb = "FROM_DECODE"
  BY <1>2, <1>5, UnitChooses
<1> HIDE DEF i, fa, fb
<1>8. \A r : /\ WillWrite(ex_mem', r) <=> WillWrite(id_ex, r)
             /\ WillWrite(mem_wb', r) <=> WillWrite(ex_mem, r)
             /\ WillWrite(id_ex, r) /\ ~WillLoad(id_ex, r) => ~ex_mem'.signals.mem_to_reg
  <2> TAKE r
  <2>1. WillWrite(ex_mem', r) <=> WillWrite(id_ex, r)
    BY <1>1, <1>2, ExecuteKeepsWrite
  <2>2. WillWrite(mem_wb', r) <=> WillWrite(ex_mem, r)
    BY <1>1, <1>2, MemoryKeepsWrite
  <2>3. WillWrite(id_ex, r) /\ ~WillLoad(id_ex, r) => ~ex_mem'.signals.mem_to_reg
    <3>1. id_ex.valid => ex_mem'.signals = id_ex.signals
      BY <1>1, <1>2, ExecuteKeepsWrite
    <3> QED BY <1>2, <3>1 DEF WillWrite, WillLoad
  <2> QED BY <2>1, <2>2, <2>3
<1>9. UsesRs1(i) => SourceRight(id_ex.forward_A, id_ex.rs1_data, id_ex.inst.rs1)'
  BY <1>6, <1>7, <1>8 DEF SourceRight
<1>10. UsesRs2(i) => SourceRight(id_ex.forward_B, id_ex.rs2_data, id_ex.inst.rs2)'
  BY <1>6, <1>7, <1>8 DEF SourceRight
<1> QED BY <1>6, <1>9, <1>10

LEMMA OperandStep == OperandInv /\ [Next]_vars => OperandInv'
<1> SUFFICES ASSUME OperandInv, [Next]_vars PROVE OperandInv'
  OBVIOUS
<1>1. TypeOK'
  BY NextType DEF OperandInv
<1>2. CASE Clocktick
  <2>1. SourcesRight'
    BY <1>2, SourcesTick
  <2>2. LoadsMarked'
    BY <1>2, LoadsMarkedStep DEF Clocktick, LoadsMarked
  <2>3. (pipeline_mode >= StallMode)'
    BY <1>2 DEF Clocktick, OperandInv
  <2> QED BY <1>1, <2>1, <2>2, <2>3 DEF OperandInv
<1>3. CASE Reset
  BY <1>1, <1>3 DEF Reset, OperandInv, LoadsMarked, SourcesRight, IdExBubble, NoSignals
<1>4. CASE UNCHANGED <<gpr, latches, flags, bpu, program_counter, pipeline_mode>>
  BY <1>1, <1>4 DEF latches, OperandInv, LoadsMarked, SourcesRight, SourceRight, WillWrite
<1> QED BY <1>2, <1>3, <1>4, TickOrNot

\* Taken from the right latch, an operand has its current value.
LEMMA SourceIsCurrent ==
    ASSUME TypeOK, NEW source, NEW fromDecode, NEW r \in Reg,
           SourceRight(source, fromDecode, r)
    PROVE  ForwardedValue(source, fromDecode, ex_mem, mem_wb) = GprAfterMemory[r]
<1>1. /\ gpr \in [Reg -> Word] /\ ex_mem.valid \in BOOLEAN
      /\ ex_mem \in ExMem /\ mem_wb \in MemWb
  BY DEF TypeOK, MachineTypeOK, ExMem
<1> DEFINE m == MemoryStage(ex_mem, memory)
<1>2. GprAfterWriteBack \in [Reg -> Word]
  BY <1>1, WriteBackType DEF GprAfterWriteBack
<1>3. WillWrite(m, r) <=> WillWrite(ex_mem, r)
  BY <1>1, MemoryKeepsWrite
<1>4. ex_mem.valid => /\ m.rd = ex_mem.rd /\ m.signals = ex_mem.signals
                      /\ m.alu_ans = ex_mem.alu_ans
  BY DEF MemoryStage
<1> HIDE DEF m
<1>5. GprAfterMemory = WriteBackStage(m, GprAfterWriteBack)
  BY DEF GprAfterMemory, m
<1>6. WillWrite(m, r) => GprAfterMemory[r] = WriteBackValue(m)
  BY <1>2, <1>5 DEF WriteBackStage, WriteGpr, WillWrite
<1>7. ~WillWrite(m, r) => GprAfterMemory[r] = GprAfterWriteBack[r]
  BY <1>2, <1>5 DEF WriteBackStage, WriteGpr, WillWrite
<1>8. WillWrite(mem_wb, r) => GprAfterWriteBack[r] = WriteBackValue(mem_wb)
  BY <1>1 DEF GprAfterWriteBack, WriteBackStage, WriteGpr, WillWrite
<1>9. ~WillWrite(mem_wb, r) => GprAfterWriteBack[r] = gpr[r]
  BY <1>1 DEF GprAfterWriteBack, WriteBackStage, WriteGpr, WillWrite
<1>10. CASE WillWrite(ex_mem, r)
  <2>1. source = "FROM_EXECUTE" /\ ~ex_mem.signals.mem_to_reg
    BY <1>10 DEF SourceRight
  <2>2. WriteBackValue(m) = ex_mem.alu_ans
    BY <1>4, <1>10, <2>1 DEF WillWrite, WriteBackValue
  <2> QED BY <1>3, <1>6, <1>10, <2>1, <2>2 DEF ForwardedValue
<1>11. CASE ~WillWrite(ex_mem, r) /\ WillWrite(mem_wb, r)
  <2>1. source = "FROM_MEMORY"
    BY <1>11 DEF SourceRight
  <2> QED BY <1>3, <1>7, <1>8, <1>11, <2>1 DEF ForwardedValue
<1>12. CASE ~WillWrite(ex_mem, r) /\ ~WillWrite(mem_wb, r)
  <2>1. source = "FROM_DECODE" /\ fromDecode = gpr[r]
    BY <1>12 DEF SourceRight
  <2> QED BY <1>3, <1>7, <1>9, <1>12, <2>1 DEF ForwardedValue
<1> QED BY <1>10, <1>11, <1>12

LEMMA OperandInvImplies == OperandInv => OperandsCurrent
<1> SUFFICES ASSUME OperandInv, id_ex.valid, ~IsJump(id_ex.inst)
             PROVE  /\ UsesRs1(id_ex.inst) =>
                          OperandA(id_ex, ex_mem, mem_wb) = GprAfterMemory[id_ex.inst.rs1]
                    /\ UsesRs2(id_ex.inst) =>
                          OperandB(id_ex, ex_mem, mem_wb) = GprAfterMemory[id_ex.inst.rs2]
  BY DEF OperandsCurrent
<1>1. TypeOK /\ id_ex.inst.rs1 \in Reg /\ id_ex.inst.rs2 \in Reg
  BY DEF OperandInv, TypeOK, IdEx, Instruction
<1> QED BY <1>1, SourceIsCurrent DEF OperandInv, SourcesRight, OperandA, OperandB

\* In every mode with hazard handling (2 to 5) execute computes with the
\* values of a machine that runs one instruction at a time, for every program
\* and whatever is stepped, stopped, reset or loaded in between.
THEOREM OperandsAlwaysCurrent ==
    (\A s \in Scenario : s[1] >= StallMode) => (Spec => []OperandsCurrent)
<1> SUFFICES ASSUME \A s \in Scenario : s[1] >= StallMode
             PROVE  Spec => []OperandsCurrent
  OBVIOUS
<1>1. Init => OperandInv
  <2> SUFFICES ASSUME Init PROVE OperandInv
    OBVIOUS
  <2>1. TypeOK
    BY InitType
  <2>2. pipeline_mode >= StallMode
    BY DEF Init
  <2>3. LoadsMarked /\ SourcesRight
    BY DEF Init, LoadsMarked, SourcesRight, IdExBubble, NoSignals
  <2> QED BY <2>1, <2>2, <2>3 DEF OperandInv
<1> QED BY <1>1, OperandStep, OperandInvImplies, PTL DEF Spec

-----------------------------------------------------------------------------
(* What fetch predicted and what decode makes of it: the branch predictor of
   Mode 5, and the program counter in every mode. *)

\* With one program loaded, only a reset touches the text.
LEMMA TickOrNotOneProgram ==
    [NextOneProgram]_vars =>
        \/ Clocktick /\ text' = text
        \/ Reset
        \/ UNCHANGED <<tickVars, pipeline_mode, text>>
<1> SUFFICES ASSUME [NextOneProgram]_vars
             PROVE  \/ Clocktick /\ text' = text
                    \/ Reset
                    \/ UNCHANGED <<tickVars, pipeline_mode, text>>
  OBVIOUS
<1>1. CASE StartRun \/ LeaveMainLoop \/ EndRun \/ StepAtEnd \/ RequestStop
  BY <1>1 DEF StartRun, LeaveMainLoop, EndRun, StepAtEnd, RequestStop, tickVars, programVars
<1>2. CASE MainLoopTick \/ FlushLoopTick \/ StepTick
  BY <1>2 DEF MainLoopTick, FlushLoopTick, StepTick, Clocktick, programVars
<1>3. CASE UNCHANGED vars
  BY <1>3 DEF vars, tickVars, programVars
<1> QED
  BY <1>1, <1>2, <1>3 DEF NextOneProgram, RunLoop

\* A load after a reset is a load, and finds what the reset has left.
LEMMA LoadsOnceCleared ==
    ASSUME LoadAfterReset
    PROVE  /\ LoadProgram /\ Cleared
           /\ \E s \in Scenario :
                 /\ s[1] = pipeline_mode /\ s[2] \in Program
                 /\ text' = LoadText(s[2], ZeroText)
                 /\ memory' = LoadData(s[2], ZeroMemory)
                 /\ program_size_' = s[2].size
           /\ run_phase' = "idle" /\ output_status_' = "VM_PROGRAM_LOADED"
           /\ UNCHANGED <<program_counter, gpr, latches, bpu, pipeline_mode>>
<1>1. PICK s \in Scenario : s[1] = pipeline_mode /\ Load(s[2])
  BY DEF LoadAfterReset
<1>2. run_phase = "idle" /\ Cleared /\ s[2] \in Program
  BY ScenarioAssumption DEF LoadAfterReset
<1> QED BY <1>1, <1>2 DEF Load, LoadProgram, Cleared

LEMMA SessionIsNext == [NextSession]_vars => [Next]_vars
BY LoadsOnceCleared DEF NextSession, Next

\* The discipline asks for no more than a reset: after one a load is possible.
LEMMA ResetClears == Reset => Cleared'
BY DEF Reset, ResetMachine, Cleared

\* Taking the flags one at a time, fetch does one of three things.
LEMMA FetchCases ==
    ASSUME FlagsConsumed, Clocktick
    PROVE  LET regs == WriteBackStage(mem_wb, gpr)
               outcome == DecodeOutcome(pipeline_mode, if_id, id_ex, ex_mem, regs)
               trained == TrainedPredictor(pipeline_mode, outcome, if_id, regs, bpu)
           IN  \/ /\ outcome = "mispredict"
                  /\ if_id' = IfIdBubble /\ bpu' = trained
               \/ /\ outcome = "stall"
                  /\ UNCHANGED <<if_id, program_counter, bpu>>
               \/ /\ outcome \in {"issue", "bubble"}
                  /\ FetchNext(program_counter, trained)
<1> DEFINE regs == WriteBackStage(mem_wb, gpr)
           outcome == DecodeOutcome(pipeline_mode, if_id, id_ex, ex_mem, regs)
           trained == TrainedPredictor(pipeline_mode, outcome, if_id, regs, bpu)
           pc == RedirectedPc(outcome, if_id, regs, program_counter)
<1>1. Fetch(pc, flush_fetch_ \/ outcome = "mispredict",
            pipeline_stalled_ \/ outcome = "stall", trained)
  BY DEF Clocktick
<1>2. ~flush_fetch_ /\ ~pipeline_stalled_
  BY DEF FlagsConsumed
<1>3. outcome \in {"stall", "bubble", "mispredict", "issue"}
  BY DEF DecodeOutcome
<1>4. outcome # "mispredict" => pc = program_counter
  BY DEF RedirectedPc
<1>5. outcome = "stall" => trained = bpu
  BY DEF TrainedPredictor
<1> HIDE DEF regs, outcome, trained, pc
<1>6. CASE outcome = "mispredict"
  BY <1>1, <1>6 DEF Fetch, FetchFlushed, outcome, trained, regs
<1>7. CASE outcome = "stall"
  BY <1>1, <1>2, <1>4, <1>5, <1>7 DEF Fetch, FetchStalled, outcome, regs
<1>8. CASE outcome \in {"bubble", "issue"}
  BY <1>1, <1>2, <1>4, <1>8 DEF Fetch, outcome, trained, regs
<1> QED BY <1>3, <1>6, <1>7, <1>8

-----------------------------------------------------------------------------
(* The target buffer and the program counter.  The two are proved together:
   decode writes the target of the instruction it finds in IF/ID, which is
   the instruction of that address only because fetch put it there. *)

PredictionInv ==
    /\ TypeOK
    /\ FlagsConsumed
    /\ TargetBufferSound
    /\ FetchFollowsPrediction

LEMMA TrainedSound ==
    ASSUME NEW mode, NEW outcome, NEW regs, NEW txt, NEW fd, NEW predictor,
           IsControlFlow(fd.inst) => fd.inst = ReadInstruction(txt, fd.pc),
           \A pc \in DOMAIN predictor.btb :
              LET inst == ReadInstruction(txt, pc)
              IN  /\ IsControlFlow(inst)
                  /\ inst.opcode # "JALR" => predictor.btb[pc] = pc + inst.imm
    PROVE  LET trained == TrainedPredictor(mode, outcome, fd, regs, predictor)
           IN  \A pc \in DOMAIN trained.btb :
                  LET inst == ReadInstruction(txt, pc)
                  IN  /\ IsControlFlow(inst)
                      /\ inst.opcode # "JALR" => trained.btb[pc] = pc + inst.imm
<1> DEFINE trained == TrainedPredictor(mode, outcome, fd, regs, predictor)
           target == Target(fd.inst, fd.pc, regs)
<1>1. CASE trained = predictor
  BY <1>1
<1>2. CASE trained # predictor
  <2>1. /\ IsControlFlow(fd.inst)
        /\ trained = Update(predictor, fd.pc, Taken(fd.inst, regs), target)
    BY <1>2 DEF TrainedPredictor
  <2> HIDE DEF trained
  <2>2. trained.btb = predictor.btb \/ trained.btb = Put(predictor.btb, fd.pc, target)
    BY <2>1 DEF Update
  <2>3. fd.inst.opcode # "JALR" => target = fd.pc + fd.inst.imm
    BY DEF Target
  <2> HIDE DEF target
  <2>4. CASE trained.btb = predictor.btb
    BY <2>4 DEF trained
  <2>5. CASE trained.btb = Put(predictor.btb, fd.pc, target)
    <3> SUFFICES ASSUME NEW pc \in DOMAIN trained.btb
                 PROVE  /\ IsControlFlow(ReadInstruction(txt, pc))
                        /\ ReadInstruction(txt, pc).opcode # "JALR" =>
                              trained.btb[pc] = pc + ReadInstruction(txt, pc).imm
      BY DEF trained
    <3>1. CASE pc = fd.pc
      BY <2>1, <2>3, <2>5, <3>1 DEF Put
    <3>2. CASE pc # fd.pc
      <4>1. pc \in DOMAIN predictor.btb /\ trained.btb[pc] = predictor.btb[pc]
        BY <2>5, <3>2 DEF Put
      <4> QED BY <4>1
    <3> QED BY <3>1, <3>2
  <2> QED BY <2>2, <2>4, <2>5
<1> QED BY <1>1, <1>2

\* What a tick leaves in IF/ID and in the buffer.
LEMMA PredictionTick ==
    ASSUME PredictionInv, Clocktick, text' = text
    PROVE  TargetBufferSound' /\ FetchFollowsPrediction'
<1> DEFINE regs == WriteBackStage(mem_wb, gpr)
           outcome == DecodeOutcome(pipeline_mode, if_id, id_ex, ex_mem, regs)
           trained == TrainedPredictor(pipeline_mode, outcome, if_id, regs, bpu)
           Sound(b) == \A pc \in DOMAIN b.btb :
                          LET inst == ReadInstruction(text, pc)
                          IN  /\ IsControlFlow(inst)
                              /\ inst.opcode # "JALR" => b.btb[pc] = pc + inst.imm
<1> HIDE DEF regs, outcome, trained
<1>1. \/ outcome = "mispredict" /\ if_id' = IfIdBubble /\ bpu' = trained
      \/ outcome = "stall" /\ UNCHANGED <<if_id, program_counter, bpu>>
      \/ outcome \in {"issue", "bubble"} /\ FetchNext(program_counter, trained)
  BY FetchCases DEF PredictionInv, regs, outcome, trained
<1>2. Sound(bpu)
  BY DEF PredictionInv, TargetBufferSound
<1>3. if_id.valid => if_id.inst = ReadInstruction(text, if_id.pc)
  BY DEF PredictionInv, FetchFollowsPrediction
<1>4. Sound(trained)
  <2>1. CASE if_id.valid
    BY <1>2, <1>3, <2>1, TrainedSound DEF trained
  <2>2. CASE ~if_id.valid
    <3>1. outcome \notin {"issue", "mispredict"}
      BY <2>2 DEF outcome, DecodeOutcome
    <3> QED BY <1>2, <3>1 DEF trained, TrainedPredictor
  <2> QED BY <2>1, <2>2
<1> HIDE DEF Sound
<1>5. CASE outcome = "mispredict" /\ if_id' = IfIdBubble /\ bpu' = trained
  BY <1>4, <1>5 DEF Sound, TargetBufferSound, FetchFollowsPrediction, IfIdBubble
<1>6. CASE outcome = "stall" /\ UNCHANGED <<if_id, program_counter, bpu>>
  BY <1>6 DEF PredictionInv, TargetBufferSound, FetchFollowsPrediction
<1>7. CASE outcome \in {"issue", "bubble"} /\ FetchNext(program_counter, trained)
  <2> DEFINE predicted == pipeline_mode >= DynamicBranchMode
                             /\ PredictTaken(trained, program_counter)
  <2>1. /\ if_id'.pc = program_counter
        /\ if_id'.inst = ReadInstruction(text, program_counter)
        /\ if_id'.predicted_as_taken = predicted
    BY <1>7 DEF FetchNext
  <2>2. bpu'.btb = trained.btb
    BY <1>7 DEF FetchNext, AfterPredict
  <2>3. program_counter' = IF predicted THEN trained.btb[program_counter]
                                        ELSE program_counter + 1
    BY <1>7 DEF FetchNext, PredictTarget
  <2>4. predicted => program_counter \in DOMAIN trained.btb
    BY DEF PredictTaken
  <2> HIDE DEF predicted
  <2>5. predicted =>
          /\ IsControlFlow(if_id'.inst)
          /\ if_id'.inst.opcode # "JALR" =>
                program_counter' = if_id'.pc + if_id'.inst.imm
    BY <1>4, <2>1, <2>3, <2>4 DEF Sound
  <2>6. TargetBufferSound'
    BY <1>4, <2>2 DEF Sound, TargetBufferSound
  <2>7. FetchFollowsPrediction'
    BY <2>1, <2>3, <2>5 DEF FetchFollowsPrediction
  <2> QED BY <2>6, <2>7
<1> QED BY <1>1, <1>5, <1>6, <1>7

LEMMA PredictionStep == PredictionInv /\ [NextSession]_vars => PredictionInv'
<1> SUFFICES ASSUME PredictionInv, [NextSession]_vars PROVE PredictionInv'
  OBVIOUS
<1>1. TypeOK' /\ FlagsConsumed'
  BY SessionIsNext, NextType, FlagsStep DEF PredictionInv
<1>2. CASE Clocktick /\ text' = text
  BY <1>1, <1>2, PredictionTick DEF PredictionInv
<1>3. CASE Reset
  BY <1>1, <1>3 DEF Reset, PredictionInv, TargetBufferSound, FetchFollowsPrediction,
                    IfIdBubble, NewPredictor
<1>4. CASE UNCHANGED <<tickVars, pipeline_mode, text>>
  BY <1>1, <1>4 DEF tickVars, latches, PredictionInv, TargetBufferSound, FetchFollowsPrediction
<1>5. CASE LoadAfterReset
  <2>1. if_id' = IfIdBubble /\ bpu' = NewPredictor
    BY <1>5, LoadsOnceCleared DEF Cleared, latches
  <2> QED BY <1>1, <2>1 DEF PredictionInv, TargetBufferSound, FetchFollowsPrediction,
                            IfIdBubble, NewPredictor
<1> QED BY <1>2, <1>3, <1>4, <1>5, TickOrNotOneProgram DEF NextSession

LEMMA PredictionInit == Init => PredictionInv
<1> SUFFICES ASSUME Init PROVE PredictionInv
  OBVIOUS
<1>1. TypeOK
  BY InitType
<1> QED BY <1>1 DEF Init, PredictionInv, FlagsConsumed, TargetBufferSound,
                   FetchFollowsPrediction, IfIdBubble, NewPredictor

\* If programs are loaded after a reset only, the branch target buffer never holds
\* a wrong target for a branch or a JAL, whatever is run, stepped or stopped.
THEOREM TargetBufferAlwaysSound == SpecSession => []TargetBufferSound
<1>1. PredictionInv => TargetBufferSound
  BY DEF PredictionInv
<1> QED BY <1>1, PredictionInit, PredictionStep, PTL DEF SpecSession

\* In such a session fetch is never more than the one predicted step ahead of the
\* instruction in decode, in any mode.
THEOREM FetchAlwaysFollows == SpecSession => []FetchFollowsPrediction
<1>1. PredictionInv => FetchFollowsPrediction
  BY DEF PredictionInv
<1> QED BY <1>1, PredictionInit, PredictionStep, PTL DEF SpecSession

-----------------------------------------------------------------------------
(* Training. *)

ConsultedInv == FlagsConsumed /\ TrainsConsultedCounter

LEMMA ConsultedStep == ConsultedInv /\ [Next]_vars => ConsultedInv'
<1> SUFFICES ASSUME ConsultedInv, [Next]_vars PROVE ConsultedInv'
  OBVIOUS
<1>1. FlagsConsumed'
  BY FlagsStep DEF ConsultedInv
<1>2. CASE Clocktick
  <2> DEFINE regs == WriteBackStage(mem_wb, gpr)
             outcome == DecodeOutcome(pipeline_mode, if_id, id_ex, ex_mem, regs)
             trained == TrainedPredictor(pipeline_mode, outcome, if_id, regs, bpu)
  <2> HIDE DEF regs, outcome, trained
  <2>1. \/ outcome = "mispredict" /\ if_id' = IfIdBubble /\ bpu' = trained
        \/ outcome = "stall" /\ UNCHANGED <<if_id, program_counter, bpu>>
        \/ outcome \in {"issue", "bubble"} /\ FetchNext(program_counter, trained)
    BY <1>2, FetchCases DEF ConsultedInv, regs, outcome, trained
  <2>2. pipeline_mode' = pipeline_mode
    BY <1>2 DEF Clocktick
  <2>3. CASE if_id' = IfIdBubble
    BY <1>1, <2>3 DEF ConsultedInv, TrainsConsultedCounter, IfIdBubble
  <2>4. CASE UNCHANGED <<if_id, program_counter, bpu>>
    BY <1>1, <2>2, <2>4 DEF ConsultedInv, TrainsConsultedCounter
  <2>5. CASE FetchNext(program_counter, trained)
    <3>1. if_id'.pc = program_counter
      BY <2>5 DEF FetchNext
    <3>2. CASE pipeline_mode >= DynamicBranchMode
      <4>1. bpu' = AfterPredict(trained, program_counter)
        BY <2>5, <3>2 DEF FetchNext
      <4>2. /\ bpu'.history = trained.history
            /\ IndexOf(trained, program_counter) \in DOMAIN bpu'.bht
        BY <4>1 DEF AfterPredict, Put
      <4>3. IndexOf(bpu', if_id'.pc) = IndexOf(trained, program_counter)
        BY <3>1, <4>2 DEF IndexOf
      <4> QED BY <1>1, <4>2, <4>3 DEF ConsultedInv, TrainsConsultedCounter
    <3>3. CASE ~(pipeline_mode >= DynamicBranchMode)
      BY <1>1, <2>2, <3>3 DEF ConsultedInv, TrainsConsultedCounter
    <3> QED BY <3>2, <3>3
  <2> QED BY <2>1, <2>3, <2>4, <2>5
<1>3. CASE Reset
  BY <1>1, <1>3 DEF Reset, ConsultedInv, TrainsConsultedCounter, IfIdBubble
<1>4. CASE UNCHANGED <<gpr, latches, flags, bpu, program_counter, pipeline_mode>>
  BY <1>1, <1>4 DEF latches, ConsultedInv, TrainsConsultedCounter
<1> QED BY <1>2, <1>3, <1>4, TickOrNot

\* The counter decode trains in Mode 5 is one that fetch has consulted, for
\* every index function and history length, and also across loaded programs.
THEOREM AlwaysTrainsConsultedCounter == Spec => []TrainsConsultedCounter
<1>1. Init => ConsultedInv
  BY DEF Init, ConsultedInv, FlagsConsumed, TrainsConsultedCounter, IfIdBubble
<1>2. ConsultedInv => TrainsConsultedCounter
  BY DEF ConsultedInv
<1> QED BY <1>1, <1>2, ConsultedStep, PTL DEF Spec

===============================================================================
