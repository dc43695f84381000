--------------------------- MODULE RefinementProofs ---------------------------
(***************************************************************************)
(* The pipeline implements the single-cycle machine, for every program the *)
(* pipeline handles, every number of registers, word size and predictor;   *)
(* and a run that reports the end of the program has finished it.          *)
(***************************************************************************)
EXTENDS PipelineProofs

-----------------------------------------------------------------------------
(* Words. *)

\* What \div and % compute.
LEMMA DivMod ==
    ASSUME NEW n \in Int
    PROVE  /\ n \div WordMod \in Int
           /\ n % WordMod \in Int /\ 0 <= n % WordMod /\ n % WordMod < WordMod
           /\ n = WordMod * (n \div WordMod) + (n % WordMod)
<1>1. WordMod \in Nat /\ WordMod > 1
  BY WordAssumption
<1>2. n \div WordMod \in Int
  BY <1>1
<1>3. n % WordMod \in 0 .. (WordMod - 1)
  BY <1>1
<1>4. n = WordMod * (n \div WordMod) + (n % WordMod)
  BY <1>1
<1> QED BY <1>1, <1>2, <1>3, <1>4

LEMMA ModUnique ==
    ASSUME NEW n \in Int, NEW q \in Int, NEW r \in Word, n = WordMod * q + r
    PROVE  ToWord(n) = r
<1> DEFINE k == n \div WordMod
           m == n % WordMod
<1>1. WordMod \in Int /\ WordMod > 1
  BY WordAssumption
<1>2. k \in Int /\ m \in Int /\ n = WordMod * k + m /\ 0 <= m /\ m < WordMod
  BY DivMod
<1>3. r \in Int /\ 0 <= r /\ r < WordMod
  BY <1>1 DEF Word
<1> HIDE DEF k, m
<1>4. WordMod * (k - q) = r - m
  BY <1>1, <1>2, <1>3
<1>5. CASE k - q >= 1
  <2>1. WordMod * (k - q) >= WordMod
    BY <1>1, <1>2, <1>5
  <2> QED BY <1>1, <1>2, <1>3, <1>4, <2>1
<1>6. CASE k - q <= -1
  <2>1. WordMod * (k - q) <= -WordMod
    BY <1>1, <1>2, <1>6
  <2> QED BY <1>1, <1>2, <1>3, <1>4, <2>1
<1>7. CASE k - q = 0
  BY <1>1, <1>2, <1>3, <1>4, <1>7 DEF ToWord, m
<1> QED BY <1>2, <1>5, <1>6, <1>7

LEMMA ToWordSum ==
    ASSUME NEW a \in Word, NEW i \in Int
    PROVE  ToWord(a + ToWord(i)) = ToWord(a + i)
<1> DEFINE q == i \div WordMod
           r == i % WordMod
           k == (a + r) \div WordMod
           m == (a + r) % WordMod
<1>1. WordMod \in Int /\ WordMod > 1 /\ a \in Int
  BY WordAssumption DEF Word
<1>2. q \in Int /\ r \in Int /\ i = WordMod * q + r
  BY DivMod
<1>3. k \in Int /\ m \in Word /\ a + r = WordMod * k + m
  <2>1. a + r \in Int
    BY <1>1, <1>2
  <2>2. k \in Int /\ m \in Int /\ 0 <= m /\ m < WordMod /\ a + r = WordMod * k + m
    BY <2>1, DivMod, Zenon
  <2> HIDE DEF r, k, m
  <2> QED BY <1>1, <2>2 DEF Word
<1> HIDE DEF k, m, q
<1>4. a + i = WordMod * (q + k) + m
  BY <1>1, <1>2, <1>3
<1>5. ToWord(a + i) = m
  <2>1. a + i \in Int /\ q + k \in Int
    BY <1>1, <1>2, <1>3
  <2> QED BY <1>3, <1>4, <2>1, ModUnique, Zenon
<1> QED BY <1>5 DEF ToWord, m

\* The comparator that decode uses and the ALU flag the single-cycle path reads
\* agree on every branch.
LEMMA BranchAgrees ==
    ASSUME NEW inst \in Instruction, inst.opcode = "BRANCH", NEW a \in Word, NEW b \in Word
    PROVE  BranchCompare(inst.funct, a, b)
               <=> BranchFlag(inst.funct, AluExecute(GetAluSignal(inst), a, b))
<1>1. a \in Int /\ b \in Int /\ 0 <= a /\ a < WordMod /\ 0 <= b /\ b < WordMod /\ WordMod \in Nat
  BY WordAssumption DEF Word
<1>2. ToWord(a - b) = 0 <=> a = b
  <2>1. CASE a >= b
    <3>1. /\ a - b \in Word /\ a - b \in Int /\ 0 \in Int
          /\ a - b = WordMod * 0 + (a - b)
      BY <1>1, <2>1 DEF Word
    <3>2. ToWord(a - b) = a - b
      BY <3>1, ModUnique, Zenon
    <3> QED BY <1>1, <3>2
  <2>2. CASE a < b
    <3>1. (a - b) + WordMod \in Word \ {0}
      BY <1>1, <2>2 DEF Word
    <3>2. /\ a - b \in Int /\ -1 \in Int /\ (a - b) + WordMod \in Word
          /\ a - b = WordMod * (-1) + ((a - b) + WordMod)
      BY <1>1, <3>1
    <3>3. ToWord(a - b) = (a - b) + WordMod
      BY <3>2, ModUnique, Zenon
    <3> QED BY <1>1, <2>2, <3>1, <3>3
  <2> QED BY <1>1, <2>1, <2>2
<1>3. CASE inst.funct \in {"beq", "bne"}
  BY <1>2, <1>3 DEF BranchCompare, BranchFlag, AluExecute, GetAluSignal
<1>4. CASE inst.funct \in {"blt", "bge"}
  <2>1. Signed(a) \in Int /\ Signed(b) \in Int
    BY <1>1 DEF Signed
  <2>2. AluExecute(GetAluSignal(inst), a, b) = IF Signed(a) < Signed(b) THEN 1 ELSE 0
    BY <1>4 DEF AluExecute, GetAluSignal
  <2> QED BY <1>4, <2>1, <2>2 DEF BranchCompare, BranchFlag
<1>5. CASE inst.funct \in {"bltu", "bgeu"}
  BY <1>1, <1>5 DEF BranchCompare, BranchFlag, AluExecute, GetAluSignal
<1>6. CASE inst.funct \notin {"beq", "bne", "blt", "bge", "bltu", "bgeu"}
  BY <1>6 DEF BranchCompare, BranchFlag
<1> QED BY <1>3, <1>4, <1>5, <1>6

-----------------------------------------------------------------------------
(* What a tick does to the abstract registers and memory. *)

\* Write-back and memory move the instructions on by one stage.
LEMMA TickShifts ==
    ASSUME Clocktick
    PROVE  GprAfterMemory' = AbstractGpr /\ MemoryAfterMemory' = AbstractMemory
<1>1. /\ gpr' = WriteBackStage(mem_wb, gpr)
      /\ mem_wb' = MemoryStage(ex_mem, memory)
      /\ memory' = MemoryWrite(ex_mem, memory)
      /\ ex_mem' = ExecuteStage(id_ex, ex_mem, mem_wb)
  BY DEF Clocktick
<1>2. GprAfterWriteBack' = GprAfterMemory
  BY <1>1 DEF GprAfterWriteBack, GprAfterMemory
<1> QED
  BY <1>1, <1>2 DEF GprAfterMemory, AbstractGpr, MemoryAfterMemory, AbstractMemory, Executed

\* An instruction that writes nothing leaves no trace.
LEMMA NoTrace ==
    ASSUME NEW d, NEW x, NEW w, NEW regs, NEW mem,
           d.valid => ~d.signals.mem_write /\ (d.signals.reg_write => d.rd = 0)
    PROVE  LET e == ExecuteStage(d, x, w)
           IN  /\ WriteBackStage(MemoryStage(e, mem), regs) = regs
               /\ MemoryWrite(e, mem) = mem
<1>1. CASE d.valid
  BY <1>1 DEF ExecuteStage, MemoryStage, WriteBackStage, WriteGpr, MemoryWrite
<1>2. CASE ~d.valid
  BY <1>2 DEF ExecuteStage, ExMemBubble, MemoryStage, MemWbBubble, WriteBackStage, MemoryWrite
<1> QED BY <1>1, <1>2

\* With the right operands an instruction does in the stages after decode what
\* the machine does at once.
LEMMA IssuedExecutes ==
    ASSUME NEW inst \in Instruction, NEW mode, Handled(mode, inst),
           NEW d, d.valid, d.inst = inst, d.rd = inst.rd, d.signals = SetControlSignals(inst),
           NEW x, NEW w, NEW regs, NEW mem, NEW pc,
           ~IsJump(inst) =>
               /\ UsesRs1(inst) => OperandA(d, x, w) = regs[inst.rs1]
               /\ UsesRs2(inst) => OperandB(d, x, w) = regs[inst.rs2]
    PROVE  LET e == ExecuteStage(d, x, w)
           IN  /\ WriteBackStage(MemoryStage(e, mem), regs) = GprAfter(inst, pc, regs, mem)
               /\ MemoryWrite(e, mem) = MemoryAfter(inst, regs, mem)
<1> DEFINE e == ExecuteStage(d, x, w)
           result == ExecutionResult(inst, regs)
           signals == SetControlSignals(inst)
<1>1. CASE inst.opcode \notin {"OP", "OPIMM", "LOAD", "STORE"}
  <2>1. ~signals.mem_write /\ (signals.reg_write => inst.rd = 0)
    BY <1>1 DEF Handled, IsJump, SetControlSignals
  <2>2. WriteBackStage(MemoryStage(e, mem), regs) = regs /\ MemoryWrite(e, mem) = mem
    BY <2>1, NoTrace
  <2>3. GprAfter(inst, pc, regs, mem) = regs /\ MemoryAfter(inst, regs, mem) = mem
    BY <2>1 DEF GprAfter, WriteGpr, MemoryAfter
  <2> QED BY <2>2, <2>3
<1>2. CASE inst.opcode \in {"OP", "OPIMM", "LOAD", "STORE"}
  <2>1. /\ OperandA(d, x, w) = regs[inst.rs1]
        /\ inst.opcode \in {"OP", "STORE"} => OperandB(d, x, w) = regs[inst.rs2]
    BY <1>2 DEF IsJump, UsesRs1, UsesRs2
  <2>2. signals.alu_src <=> inst.opcode # "OP"
    BY <1>2 DEF SetControlSignals
  <2>3. AluResult(d, OperandA(d, x, w), OperandB(d, x, w)) = result
    BY <1>2, <2>1, <2>2 DEF AluResult, IsJump, ExecutionResult
  <2> HIDE DEF result
  <2>4. /\ e.valid /\ e.rd = inst.rd /\ e.signals = signals
        /\ e.alu_ans = result /\ e.data = OperandB(d, x, w)
    BY <2>3 DEF ExecuteStage
  <2> HIDE DEF e
  <2> DEFINE m == MemoryStage(e, mem)
             value == IF signals.mem_to_reg THEN m.mem_data ELSE result
  <2>5. /\ m.valid /\ m.rd = inst.rd /\ m.signals = signals /\ m.alu_ans = result
        /\ m.mem_data = IF signals.mem_read THEN mem[result] ELSE 0
    BY <2>4 DEF MemoryStage
  <2> HIDE DEF m
  <2>6. WriteBackStage(m, regs) = IF signals.reg_write THEN WriteGpr(regs, inst.rd, value) ELSE regs
    BY <2>5 DEF WriteBackStage, WriteBackValue
  <2>7. MemoryWrite(e, mem) = IF signals.mem_write /\ ~signals.mem_read
                              THEN WriteDoubleWord(mem, result, OperandB(d, x, w)) ELSE mem
    BY <2>4 DEF MemoryWrite
  <2>8. value = RegisterResult(inst, pc, regs, mem) \/ ~signals.reg_write
    BY <1>2, <2>5 DEF SetControlSignals, RegisterResult, IsJump, result
  <2>9. WriteBackStage(m, regs) = GprAfter(inst, pc, regs, mem)
    BY <2>6, <2>8 DEF GprAfter
  <2>10. MemoryWrite(e, mem) = MemoryAfter(inst, regs, mem)
    <3>1. CASE inst.opcode = "STORE"
      BY <2>1, <2>7, <3>1 DEF SetControlSignals, MemoryAfter, result
    <3>2. CASE inst.opcode # "STORE"
      BY <2>7, <3>2 DEF SetControlSignals, MemoryAfter
    <3> QED BY <3>1, <3>2
  <2> QED BY <2>9, <2>10 DEF m, e
<1> QED BY <1>1, <1>2

-----------------------------------------------------------------------------
(* Where the program counter goes. *)

LEMMA WriteBackElsewhere ==
    ASSUME NEW w, NEW regs \in [Reg -> Word], NEW r \in Reg, ~WillWrite(w, r)
    PROVE  WriteBackStage(w, regs)[r] = regs[r]
BY DEF WriteBackStage, WriteGpr, WillWrite

\* A register nobody in flight is going to write has its abstract value already.
LEMMA SettledRegister ==
    ASSUME TypeOK, NEW r \in Reg, ~WillWrite(id_ex, r), ~WillWrite(ex_mem, r)
    PROVE  GprAfterWriteBack[r] = AbstractGpr[r]
<1>1. /\ gpr \in [Reg -> Word] /\ memory \in [Word -> Word]
      /\ id_ex \in IdEx /\ ex_mem \in ExMem /\ mem_wb \in MemWb
      /\ id_ex.valid \in BOOLEAN /\ ex_mem.valid \in BOOLEAN
  BY DEF TypeOK, MachineTypeOK, IdEx, ExMem
<1>2. Executed \in ExMem /\ Executed.valid \in BOOLEAN
  BY <1>1, ExecuteType DEF Executed, ExMem
<1>3. ~WillWrite(MemoryStage(ex_mem, memory), r)
  BY <1>1, MemoryKeepsWrite
<1>4. ~WillWrite(MemoryStage(Executed, MemoryAfterMemory), r)
  <2>1. ~WillWrite(Executed, r)
    BY <1>1, ExecuteKeepsWrite DEF Executed
  <2> QED BY <1>2, <2>1, MemoryKeepsWrite
<1>5. GprAfterWriteBack \in [Reg -> Word]
  BY <1>1, WriteBackType DEF GprAfterWriteBack
<1>6. GprAfterMemory \in [Reg -> Word] /\ GprAfterMemory[r] = GprAfterWriteBack[r]
  BY <1>1, <1>3, <1>5, MemoryType, WriteBackType, WriteBackElsewhere DEF GprAfterMemory
<1>7. AbstractGpr[r] = GprAfterMemory[r]
  BY <1>4, <1>6, WriteBackElsewhere DEF AbstractGpr
<1> QED BY <1>6, <1>7

\* A branch or a JALR that decode resolves reads settled registers.
LEMMA ResolvedSettled ==
    ASSUME TypeOK, pipeline_mode >= StallMode, NEW inst \in Instruction,
           inst.opcode \in {"BRANCH", "JALR"},
           ~StallFetch(pipeline_mode, inst, id_ex, ex_mem)
    PROVE  /\ GprAfterWriteBack[inst.rs1] = AbstractGpr[inst.rs1]
           /\ inst.opcode = "BRANCH" => GprAfterWriteBack[inst.rs2] = AbstractGpr[inst.rs2]
<1>1. pipeline_mode = StallMode \/ pipeline_mode >= ForwardingMode
  BY DEF TypeOK, PipelineMode, StallMode, ForwardingMode
<1>2. ~PendingWrite(inst, id_ex) /\ ~PendingWrite(inst, ex_mem)
  BY <1>1 DEF StallFetch
<1>3. /\ ~WillWrite(id_ex, inst.rs1) /\ ~WillWrite(ex_mem, inst.rs1)
      /\ inst.opcode = "BRANCH" => ~WillWrite(id_ex, inst.rs2) /\ ~WillWrite(ex_mem, inst.rs2)
  BY <1>2 DEF PendingWrite, Reads, UsesRs1, UsesRs2
<1>4. inst.rs1 \in Reg /\ inst.rs2 \in Reg
  BY DEF Instruction
<1> QED BY <1>3, <1>4, SettledRegister

\* Decode finds the program counter the machine would go to.
LEMMA ResolvedRight ==
    ASSUME TypeOK, pipeline_mode >= StallMode, NEW inst \in Instruction, IsControlFlow(inst),
           ~StallFetch(pipeline_mode, inst, id_ex, ex_mem), NEW pc \in Int
    PROVE  NextProgramCounter(inst, pc, AbstractGpr) =
               IF Taken(inst, GprAfterWriteBack) THEN Target(inst, pc, GprAfterWriteBack)
                                                 ELSE pc + 1
<1>1. GprAfterWriteBack \in [Reg -> Word] /\ inst.rs1 \in Reg /\ inst.rs2 \in Reg
  BY WriteBackType DEF TypeOK, MachineTypeOK, GprAfterWriteBack, Instruction
<1> DEFINE a == GprAfterWriteBack[inst.rs1]
           b == GprAfterWriteBack[inst.rs2]
<1>2. a \in Word /\ b \in Word
  BY <1>1
<1>3. CASE inst.opcode = "JAL"
  BY <1>3 DEF NextProgramCounter, Taken, IsJump, Target
<1>4. CASE inst.opcode = "JALR"
  <2>1. a = AbstractGpr[inst.rs1]
    BY <1>4, ResolvedSettled
  <2>2. ExecutionResult(inst, AbstractGpr) = ToWord(a + ToWord(inst.imm))
    BY <1>4, <2>1 DEF ExecutionResult, AluExecute, GetAluSignal, SetControlSignals
  <2>3. inst.imm \in Int
    BY DEF Instruction
  <2> HIDE DEF a
  <2>4. ExecutionResult(inst, AbstractGpr) = ToWord(a + inst.imm)
    BY <1>2, <2>2, <2>3, ToWordSum
  <2> QED BY <1>4, <2>4 DEF NextProgramCounter, Taken, IsJump, Target, a
<1>5. CASE inst.opcode = "BRANCH"
  <2>1. a = AbstractGpr[inst.rs1] /\ b = AbstractGpr[inst.rs2]
    BY <1>5, ResolvedSettled
  <2>2. ExecutionResult(inst, AbstractGpr) = AluExecute(GetAluSignal(inst), a, b)
    BY <1>5, <2>1 DEF ExecutionResult, SetControlSignals
  <2>3. BranchCompare(inst.funct, a, b) <=> BranchFlag(inst.funct, ExecutionResult(inst, AbstractGpr))
    BY <1>2, <1>5, <2>2, BranchAgrees
  <2>4. Taken(inst, GprAfterWriteBack) <=> BranchCompare(inst.funct, a, b)
    BY <1>5 DEF Taken, IsJump
  <2>5. Target(inst, pc, GprAfterWriteBack) = pc + inst.imm
    BY <1>5 DEF Target
  <2> HIDE DEF a, b
  <2> QED BY <1>5, <2>3, <2>4, <2>5 DEF NextProgramCounter
<1> QED BY <1>3, <1>4, <1>5 DEF IsControlFlow

-----------------------------------------------------------------------------
(* A tick is one instruction of the machine, or nothing. *)

RefinementInv ==
    /\ OperandInv
    /\ PredictionInv
    /\ \A a \in TextAddr : Handled(pipeline_mode, text[a])
    /\ pipeline_mode < DynamicBranchMode => ~if_id.predicted_as_taken

LEMMA ReadHandled ==
    ASSUME RefinementInv, NEW a
    PROVE  Handled(pipeline_mode, ReadInstruction(text, a))
BY DEF RefinementInv, Handled, ReadInstruction, ZeroInst, IsJump

\* Where fetch is when decode lets an instruction pass is where the machine goes.
LEMMA IssuedNext ==
    ASSUME RefinementInv, if_id.valid,
           ~StallFetch(pipeline_mode, if_id.inst, id_ex, ex_mem),
           IsControlFlow(if_id.inst) =>
               PredictionCorrect(pipeline_mode, if_id, GprAfterWriteBack)
    PROVE  program_counter = NextProgramCounter(if_id.inst, if_id.pc, AbstractGpr)
<1> DEFINE inst == if_id.inst
           predicted == if_id.predicted_as_taken
           taken == Taken(inst, GprAfterWriteBack)
<1>1. /\ TypeOK /\ pipeline_mode \in 1 .. 5 /\ pipeline_mode >= StallMode
      /\ inst \in Instruction /\ if_id.pc \in Int /\ predicted \in BOOLEAN
  BY DEF RefinementInv, OperandInv, TypeOK, PipelineMode, IfId
<1>2. Handled(pipeline_mode, inst)
  BY ReadHandled DEF RefinementInv, PredictionInv, FetchFollowsPrediction
<1>3. /\ ~predicted => program_counter = if_id.pc + 1
      /\ predicted =>
            /\ IsControlFlow(inst)
            /\ inst.opcode # "JALR" => program_counter = if_id.pc + inst.imm
      /\ pipeline_mode < DynamicBranchMode => ~predicted
  BY DEF RefinementInv, PredictionInv, FetchFollowsPrediction
<1> HIDE DEF inst, predicted
<1>4. CASE ~IsControlFlow(inst)
  BY <1>3, <1>4 DEF IsControlFlow, NextProgramCounter, inst
<1>5. CASE IsControlFlow(inst)
  <2>1. NextProgramCounter(inst, if_id.pc, AbstractGpr) =
            IF taken THEN Target(inst, if_id.pc, GprAfterWriteBack) ELSE if_id.pc + 1
    BY <1>1, <1>5, ResolvedRight DEF inst
  <2>2. PredictionCorrect(pipeline_mode, if_id, GprAfterWriteBack)
    BY <1>5 DEF inst
  <2>3. CASE inst.opcode = "JAL"
    <3>1. predicted /\ taken
      BY <2>2, <2>3 DEF PredictionCorrect, IsJump, Taken, inst, predicted
    <3> QED BY <1>3, <2>1, <2>3, <3>1 DEF Target, inst
  <2>4. CASE inst.opcode = "JALR"
    <3>1. predicted
      BY <2>2, <2>4 DEF PredictionCorrect, IsJump, inst, predicted
    <3>2. pipeline_mode < DynamicBranchMode
      BY <1>2, <2>4 DEF Handled
    <3> QED BY <1>3, <3>1, <3>2
  <2>5. CASE inst.opcode = "BRANCH"
    <3>1. Target(inst, if_id.pc, GprAfterWriteBack) = if_id.pc + inst.imm
      BY <2>5 DEF Target
    <3>2. pipeline_mode = StaticBranchMode \/ pipeline_mode = DynamicBranchMode
      BY <1>1, <1>2, <2>5 DEF Handled, StaticBranchMode, DynamicBranchMode
    <3>3. taken <=> predicted
      <4>1. CASE pipeline_mode = StaticBranchMode
        <5>1. ~taken
          BY <2>2, <4>1 DEF PredictionCorrect, inst
        <5>2. ~predicted
          BY <1>3, <4>1 DEF StaticBranchMode, DynamicBranchMode
        <5> QED BY <5>1, <5>2
      <4>2. CASE pipeline_mode = DynamicBranchMode
        <5>1. taken = predicted
          BY <2>2, <4>2 DEF PredictionCorrect, DynamicBranchMode, inst, predicted
        <5> QED BY <5>1
      <4> QED BY <3>2, <4>1, <4>2
    <3> HIDE DEF taken
    <3>4. inst.opcode # "JALR"
      BY <2>5
    <3>5. CASE predicted
      BY <1>3, <2>1, <3>1, <3>3, <3>4, <3>5 DEF inst
    <3>6. CASE ~predicted
      BY <1>3, <2>1, <3>3, <3>6 DEF inst
    <3> QED BY <3>5, <3>6
  <2> QED BY <1>5, <2>3, <2>4, <2>5 DEF IsControlFlow
<1> QED BY <1>4, <1>5

\* What fetch leaves of the abstract program counter, by the outcome of decode.
LEMMA AbstractPcTick ==
    ASSUME FlagsConsumed, Clocktick
    PROVE  LET outcome == DecodeOutcome(pipeline_mode, if_id, id_ex, ex_mem, GprAfterWriteBack)
           IN  /\ outcome \in {"stall", "bubble"} => AbstractPc' = AbstractPc
               /\ outcome = "issue" => AbstractPc' = program_counter
               /\ outcome = "mispredict" =>
                     AbstractPc' = IF Taken(if_id.inst, GprAfterWriteBack)
                                   THEN Target(if_id.inst, if_id.pc, GprAfterWriteBack)
                                   ELSE if_id.pc + 1
<1> DEFINE regs == WriteBackStage(mem_wb, gpr)
           outcome == DecodeOutcome(pipeline_mode, if_id, id_ex, ex_mem, regs)
           trained == TrainedPredictor(pipeline_mode, outcome, if_id, regs, bpu)
           pc == RedirectedPc(outcome, if_id, regs, program_counter)
<1>1. regs = GprAfterWriteBack
  BY DEF GprAfterWriteBack
<1>2. \/ outcome = "mispredict" /\ if_id' = IfIdBubble /\ bpu' = trained
      \/ outcome = "stall" /\ UNCHANGED <<if_id, program_counter, bpu>>
      \/ outcome \in {"issue", "bubble"} /\ FetchNext(program_counter, trained)
  BY FetchCases
<1>3. Fetch(pc, flush_fetch_ \/ outcome = "mispredict",
            pipeline_stalled_ \/ outcome = "stall", trained)
  BY DEF Clocktick
<1>4. outcome = "bubble" => ~if_id.valid
  BY DEF DecodeOutcome
<1>5. outcome = "mispredict" =>
          pc = IF Taken(if_id.inst, regs) THEN Target(if_id.inst, if_id.pc, regs)
                                          ELSE if_id.pc + 1
  BY DEF RedirectedPc
<1> HIDE DEF regs, outcome, trained, pc
<1>6. CASE outcome = "mispredict"
  <2>1. if_id' = IfIdBubble /\ program_counter' = pc
    BY <1>3, <1>6 DEF Fetch, FetchFlushed
  <2> QED BY <1>1, <1>5, <1>6, <2>1 DEF AbstractPc, IfIdBubble, outcome
<1>7. CASE outcome = "stall"
  BY <1>1, <1>2, <1>7 DEF AbstractPc, outcome
<1>8. CASE outcome \in {"issue", "bubble"}
  <2>1. if_id'.valid /\ if_id'.pc = program_counter
    BY <1>2, <1>8 DEF FetchNext
  <2>2. AbstractPc' = program_counter
    BY <2>1 DEF AbstractPc
  <2> QED BY <1>1, <1>4, <1>8, <2>2 DEF AbstractPc, outcome
<1> QED BY <1>2, <1>6, <1>7, <1>8

LEMMA TickExecutes ==
    ASSUME RefinementInv, Clocktick, text' = text, OperandsCurrent'
    PROVE  \/ UNCHANGED <<AbstractPc, AbstractGpr, AbstractMemory>>
           \/ LET inst == ReadInstruction(text, AbstractPc)
              IN  /\ AbstractPc' = NextProgramCounter(inst, AbstractPc, AbstractGpr)
                  /\ AbstractGpr' = GprAfter(inst, AbstractPc, AbstractGpr, AbstractMemory)
                  /\ AbstractMemory' = MemoryAfter(inst, AbstractGpr, AbstractMemory)
<1> DEFINE regs == GprAfterWriteBack
           inst == if_id.inst
           outcome == DecodeOutcome(pipeline_mode, if_id, id_ex, ex_mem, regs)
<1>1. /\ TypeOK /\ pipeline_mode >= StallMode /\ FlagsConsumed
      /\ inst \in Instruction /\ if_id.pc \in Int
      /\ if_id.valid => inst = ReadInstruction(text, if_id.pc)
  BY DEF RefinementInv, OperandInv, PredictionInv, FetchFollowsPrediction, TypeOK, IfId
<1>2. id_ex' = DecodeStage(pipeline_mode, if_id, id_ex, ex_mem, regs)
  BY DEF Clocktick, GprAfterWriteBack
<1>3. /\ AbstractGpr' = WriteBackStage(MemoryStage(Executed', AbstractMemory), AbstractGpr)
      /\ AbstractMemory' = MemoryWrite(Executed', AbstractMemory)
  BY TickShifts DEF AbstractGpr, AbstractMemory
<1>4. Executed' = ExecuteStage(id_ex', ex_mem', mem_wb')
  BY DEF Executed
<1>5. outcome \in {"stall", "bubble", "mispredict", "issue"}
  BY DEF DecodeOutcome
<1>6. /\ outcome \in {"stall", "bubble"} => AbstractPc' = AbstractPc
      /\ outcome = "issue" => AbstractPc' = program_counter
      /\ outcome = "mispredict" =>
            AbstractPc' = IF Taken(inst, regs) THEN Target(inst, if_id.pc, regs) ELSE if_id.pc + 1
  BY <1>1, AbstractPcTick
<1>7. outcome \in {"issue", "mispredict"} =>
          if_id.valid /\ ~StallFetch(pipeline_mode, inst, id_ex, ex_mem)
  BY DEF DecodeOutcome
<1>8. /\ outcome = "mispredict" => IsControlFlow(inst)
      /\ outcome = "issue" /\ IsControlFlow(inst) => PredictionCorrect(pipeline_mode, if_id, regs)
  BY DEF DecodeOutcome
<1>9. CASE outcome \in {"stall", "bubble"}
  <2>1. ~id_ex'.valid
    BY <1>2, <1>9 DEF DecodeStage, IdExBubble
  <2> QED BY <1>3, <1>4, <1>6, <1>9, <2>1, NoTrace
<1>10. CASE outcome \in {"issue", "mispredict"}
  <2>1. if_id.valid /\ AbstractPc = if_id.pc /\ inst = ReadInstruction(text, AbstractPc)
    BY <1>1, <1>7, <1>10 DEF AbstractPc
  <2>2. Handled(pipeline_mode, inst)
    BY <2>1, ReadHandled
  <2>3. AbstractPc' = NextProgramCounter(inst, AbstractPc, AbstractGpr)
    <3>1. CASE outcome = "issue"
      BY <1>6, <1>7, <1>8, <2>1, <3>1, IssuedNext
    <3>2. CASE outcome = "mispredict"
      BY <1>1, <1>6, <1>7, <1>8, <2>1, <3>2, ResolvedRight
    <3> QED BY <1>10, <3>1, <3>2
  <2>4. /\ AbstractGpr' = GprAfter(inst, AbstractPc, AbstractGpr, AbstractMemory)
        /\ AbstractMemory' = MemoryAfter(inst, AbstractGpr, AbstractMemory)
    <3>1. CASE outcome = "issue"
      <4>1. id_ex' = IssuedLatch(pipeline_mode, if_id, id_ex, ex_mem, regs)
        BY <1>2, <3>1 DEF DecodeStage
      <4>2. /\ id_ex'.valid /\ id_ex'.inst = inst /\ id_ex'.rd = inst.rd
            /\ id_ex'.signals = SetControlSignals(inst)
        BY <4>1 DEF IssuedLatch
      <4>3. ~IsJump(inst) =>
                /\ UsesRs1(inst) => OperandA(id_ex', ex_mem', mem_wb') = AbstractGpr[inst.rs1]
                /\ UsesRs2(inst) => OperandB(id_ex', ex_mem', mem_wb') = AbstractGpr[inst.rs2]
        <5>1. GprAfterMemory' = AbstractGpr
          BY TickShifts
        <5> HIDE DEF inst
        <5> QED BY <4>2, <5>1 DEF OperandsCurrent
      <4> HIDE DEF inst
      <4> QED BY <1>1, <1>3, <1>4, <2>2, <4>2, <4>3, IssuedExecutes
    <3>2. CASE outcome = "mispredict"
      <4>1. id_ex' = IF IsJump(inst) THEN LinkLatch(if_id) ELSE IdExBubble
        BY <1>2, <3>2 DEF DecodeStage
      <4>2. inst.opcode \in {"BRANCH", "JAL", "JALR"} /\ (IsJump(inst) => inst.rd = 0)
        BY <1>8, <2>2, <3>2 DEF IsControlFlow, Handled
      <4>3. id_ex'.valid => ~id_ex'.signals.mem_write /\ id_ex'.rd = 0
        BY <4>1, <4>2 DEF LinkLatch, IdExBubble, NoSignals
      <4>4. AbstractGpr' = AbstractGpr /\ AbstractMemory' = AbstractMemory
        BY <1>3, <1>4, <4>3, NoTrace
      <4>5. ~SetControlSignals(inst).mem_write /\ (SetControlSignals(inst).reg_write => inst.rd = 0)
        BY <4>2 DEF SetControlSignals, IsJump
      <4> QED BY <4>4, <4>5 DEF GprAfter, WriteGpr, MemoryAfter
    <3> QED BY <1>10, <3>1, <3>2
  <2> QED BY <2>1, <2>3, <2>4
<1> QED BY <1>5, <1>9, <1>10

-----------------------------------------------------------------------------
(* The machine the mapping instantiates computes as Machine does. *)

LEMMA SameExecution ==
    ASSUME NEW inst, NEW regs
    PROVE  Abstract!ExecutionResult(inst, regs) = ExecutionResult(inst, regs)
BY DEF Abstract!ExecutionResult, ExecutionResult, Abstract!AluExecute, AluExecute,
       Abstract!GetAluSignal, GetAluSignal, Abstract!SetControlSignals, SetControlSignals,
       Abstract!ToWord, ToWord, Abstract!Signed, Signed

LEMMA SameMachine ==
    ASSUME NEW inst, NEW pc, NEW regs, NEW mem, NEW a
    PROVE  /\ Abstract!ReadInstruction(text, a) = ReadInstruction(text, a)
           /\ Abstract!NextProgramCounter(inst, pc, regs) = NextProgramCounter(inst, pc, regs)
           /\ Abstract!GprAfter(inst, pc, regs, mem) = GprAfter(inst, pc, regs, mem)
           /\ Abstract!MemoryAfter(inst, regs, mem) = MemoryAfter(inst, regs, mem)
<1>1. Abstract!ReadInstruction(text, a) = ReadInstruction(text, a)
  BY DEF Abstract!ReadInstruction, ReadInstruction, Abstract!ZeroInst, ZeroInst,
         Abstract!TextAddr, TextAddr
<1>2. Abstract!NextProgramCounter(inst, pc, regs) = NextProgramCounter(inst, pc, regs)
  BY SameExecution DEF Abstract!NextProgramCounter, NextProgramCounter, Abstract!BranchFlag, BranchFlag
<1>3. Abstract!GprAfter(inst, pc, regs, mem) = GprAfter(inst, pc, regs, mem)
  BY SameExecution DEF Abstract!GprAfter, GprAfter, Abstract!RegisterResult, RegisterResult,
         Abstract!WriteGpr, WriteGpr, Abstract!SetControlSignals, SetControlSignals,
         Abstract!IsJump, IsJump, Abstract!ToWord, ToWord, Abstract!Upper, Upper
<1>4. Abstract!MemoryAfter(inst, regs, mem) = MemoryAfter(inst, regs, mem)
  BY SameExecution DEF Abstract!MemoryAfter, MemoryAfter, Abstract!WriteDoubleWord, WriteDoubleWord,
         Abstract!SetControlSignals, SetControlSignals
<1> QED BY <1>1, <1>2, <1>3, <1>4

-----------------------------------------------------------------------------
LEMMA ZeroHandled == \A mode : Handled(mode, ZeroInst)
BY DEF Handled, ZeroInst, IsJump

LEMMA LoadedHandled ==
    ASSUME ScenariosHandled, NEW s \in Scenario, NEW a \in TextAddr
    PROVE  Handled(s[1], LoadText(s[2], ZeroText)[a])
<1>1. LoadText(s[2], ZeroText)[a] = IF a < s[2].size THEN s[2].code[a] ELSE ZeroInst
  BY DEF LoadText, ZeroText
<1> QED BY <1>1, ZeroHandled DEF ScenariosHandled, AllHandled

LEMMA RefinementInit == ScenariosHandled /\ Init => RefinementInv
<1> SUFFICES ASSUME ScenariosHandled, Init PROVE RefinementInv
  OBVIOUS
<1>1. PICK s \in Scenario : pipeline_mode = s[1] /\ text = LoadText(s[2], ZeroText)
  BY DEF Init
<1>2. TypeOK /\ PredictionInv
  BY InitType, PredictionInit
<1>3. OperandInv
  BY <1>1, <1>2 DEF Init, ScenariosHandled, AllHandled, OperandInv, LoadsMarked, SourcesRight, IdExBubble,
                    NoSignals
<1>4. ASSUME NEW a \in TextAddr PROVE Handled(pipeline_mode, text[a])
  BY <1>1, LoadedHandled
<1>5. ~if_id.predicted_as_taken
  BY DEF Init, IfIdBubble
<1> QED BY <1>2, <1>3, <1>4, <1>5 DEF RefinementInv

LEMMA RefinementStep ==
    ScenariosHandled /\ RefinementInv /\ [NextSession]_vars => RefinementInv'
<1> SUFFICES ASSUME ScenariosHandled, RefinementInv, [NextSession]_vars PROVE RefinementInv'
  OBVIOUS
<1>1. OperandInv' /\ PredictionInv'
  BY SessionIsNext, OperandStep, PredictionStep DEF RefinementInv
<1>2. CASE Clocktick /\ text' = text
  <2>1. pipeline_mode' = pipeline_mode
    BY <1>2 DEF Clocktick
  <2>2. pipeline_mode < DynamicBranchMode => ~if_id'.predicted_as_taken
    <3> DEFINE regs == WriteBackStage(mem_wb, gpr)
               outcome == DecodeOutcome(pipeline_mode, if_id, id_ex, ex_mem, regs)
               trained == TrainedPredictor(pipeline_mode, outcome, if_id, regs, bpu)
    <3> HIDE DEF regs, outcome, trained
    <3>1. \/ if_id' = IfIdBubble
          \/ if_id' = if_id
          \/ FetchNext(program_counter, trained)
      BY <1>2, FetchCases DEF RefinementInv, PredictionInv, regs, outcome, trained
    <3>2. pipeline_mode < DynamicBranchMode => ~(pipeline_mode >= DynamicBranchMode)
      BY DEF RefinementInv, OperandInv, TypeOK, PipelineMode, DynamicBranchMode
    <3>3. CASE if_id' = IfIdBubble
      BY <3>3 DEF IfIdBubble
    <3>4. CASE if_id' = if_id
      BY <3>4 DEF RefinementInv
    <3>5. CASE FetchNext(program_counter, trained)
      BY <3>2, <3>5 DEF FetchNext
    <3> QED BY <3>1, <3>3, <3>4, <3>5
  <2> QED BY <1>1, <1>2, <2>1, <2>2 DEF RefinementInv
<1>3. CASE Reset
  <2>1. /\ text' = ZeroText /\ if_id' = IfIdBubble
    BY <1>3 DEF Reset, ResetMachine
  <2> QED BY <1>1, <2>1, ZeroHandled DEF RefinementInv, ZeroText, IfIdBubble
<1>4. CASE UNCHANGED <<tickVars, pipeline_mode, text>>
  BY <1>1, <1>4 DEF RefinementInv, tickVars, latches
<1>5. CASE LoadAfterReset
  <2>1. PICK s \in Scenario : s[1] = pipeline_mode /\ text' = LoadText(s[2], ZeroText)
    BY <1>5, LoadsOnceCleared
  <2>2. pipeline_mode' = pipeline_mode /\ if_id' = IfIdBubble
    BY <1>5, LoadsOnceCleared DEF Cleared, latches
  <2>3. ASSUME NEW a \in TextAddr PROVE Handled(pipeline_mode, text'[a])
    BY <2>1, LoadedHandled
  <2> QED BY <1>1, <2>2, <2>3 DEF RefinementInv, IfIdBubble
<1> QED BY <1>2, <1>3, <1>4, <1>5, TickOrNotOneProgram DEF NextSession

\* With the pipeline empty the abstract state is the state.
LEMMA EmptyIsAbstract ==
    (if_id = IfIdBubble /\ id_ex = IdExBubble /\ ex_mem = ExMemBubble /\ mem_wb = MemWbBubble)
    => AbstractPc = program_counter /\ AbstractGpr = gpr /\ AbstractMemory = memory
BY DEF AbstractPc, AbstractGpr, AbstractMemory, GprAfterMemory, GprAfterWriteBack, MemoryAfterMemory,
       Executed, IfIdBubble, IdExBubble, ExMemBubble, MemWbBubble, ExecuteStage, MemoryStage,
       MemoryWrite, WriteBackStage

LEMMA StartsAsMachine == Init => Abstract!MachineInit
<1> SUFFICES ASSUME Init PROVE Abstract!MachineInit
  OBVIOUS
<1>1. PICK s \in Scenario : memory = LoadData(s[2], ZeroMemory) /\ text = LoadText(s[2], ZeroText)
  BY DEF Init
<1>2. s[2] \in Program
  BY ScenarioAssumption
<1>3. AbstractPc = 0 /\ AbstractGpr = ZeroGpr /\ AbstractMemory = memory
  BY EmptyIsAbstract DEF Init
<1>4. /\ Abstract!ZeroGpr = ZeroGpr
      /\ Abstract!LoadData(s[2], Abstract!ZeroMemory) = LoadData(s[2], ZeroMemory)
      /\ Abstract!LoadText(s[2], Abstract!ZeroText) = LoadText(s[2], ZeroText)
  BY DEF Abstract!ZeroGpr, ZeroGpr, Abstract!LoadData, LoadData, Abstract!ZeroMemory, ZeroMemory,
         Abstract!LoadText, LoadText, Abstract!ZeroText, ZeroText, Abstract!ZeroInst, ZeroInst,
         Abstract!TextAddr, TextAddr, Abstract!Word, Word
<1> QED BY <1>1, <1>2, <1>3, <1>4 DEF Abstract!MachineInit

\* After a step the operands are current as well.
LEMMA OperandsNext == OperandInv' => OperandsCurrent'
BY OperandInvImplies, PTL

LEMMA MovesAsMachine ==
    RefinementInv /\ RefinementInv' /\ [NextSession]_vars
    => [Abstract!MachineNext]_Abstract!machineVars
<1> SUFFICES ASSUME RefinementInv, RefinementInv', [NextSession]_vars
             PROVE  [Abstract!MachineNext]_<<AbstractPc, AbstractGpr, AbstractMemory, text>>
  BY DEF Abstract!machineVars
<1>1. CASE Clocktick /\ text' = text
  <2>1. OperandsCurrent'
    BY OperandsNext DEF RefinementInv
  <2> DEFINE inst == ReadInstruction(text, AbstractPc)
  <2>2. CASE UNCHANGED <<AbstractPc, AbstractGpr, AbstractMemory>>
    BY <1>1, <2>2
  <2>3. CASE /\ AbstractPc' = NextProgramCounter(inst, AbstractPc, AbstractGpr)
             /\ AbstractGpr' = GprAfter(inst, AbstractPc, AbstractGpr, AbstractMemory)
             /\ AbstractMemory' = MemoryAfter(inst, AbstractGpr, AbstractMemory)
    <3>1. Abstract!ExecuteInstruction
      BY <1>1, <2>3, SameMachine DEF Abstract!ExecuteInstruction
    <3> QED BY <3>1 DEF Abstract!MachineNext
  <2> QED BY <1>1, <2>1, <2>2, <2>3, TickExecutes
<1>2. CASE Reset
  <2>1. /\ program_counter' = 0 /\ gpr' = ZeroGpr /\ memory' = ZeroMemory /\ text' = ZeroText
        /\ if_id' = IfIdBubble /\ id_ex' = IdExBubble
        /\ ex_mem' = ExMemBubble /\ mem_wb' = MemWbBubble
    BY <1>2 DEF Reset, ResetMachine
  <2>2. AbstractPc' = 0 /\ AbstractGpr' = ZeroGpr /\ AbstractMemory' = ZeroMemory
    BY <2>1 DEF AbstractPc, AbstractGpr, AbstractMemory, GprAfterMemory, GprAfterWriteBack,
                MemoryAfterMemory, Executed, IfIdBubble, IdExBubble, ExMemBubble, MemWbBubble,
                ExecuteStage, MemoryStage, MemoryWrite, WriteBackStage
  <2>3. Abstract!ResetMachine
    BY <2>1, <2>2 DEF Abstract!ResetMachine, Abstract!ZeroGpr, ZeroGpr, Abstract!ZeroMemory,
                      ZeroMemory, Abstract!ZeroText, ZeroText, Abstract!ZeroInst, ZeroInst,
                      Abstract!TextAddr, TextAddr, Abstract!Word, Word
  <2> QED BY <2>3 DEF Abstract!MachineNext
<1>3. CASE UNCHANGED <<tickVars, pipeline_mode, text>>
  BY <1>3 DEF tickVars, latches, AbstractPc, AbstractGpr, AbstractMemory, GprAfterMemory,
              GprAfterWriteBack, MemoryAfterMemory, Executed
<1>4. CASE LoadAfterReset
  <2>1. /\ Cleared
        /\ UNCHANGED <<program_counter, gpr, latches>>
    BY <1>4, LoadsOnceCleared
  <2>2. PICK s \in Scenario : /\ s[2] \in Program
                             /\ text' = LoadText(s[2], ZeroText)
                             /\ memory' = LoadData(s[2], ZeroMemory)
    BY <1>4, LoadsOnceCleared
  <2>3. /\ AbstractPc = 0 /\ AbstractGpr = ZeroGpr /\ AbstractMemory = ZeroMemory
        /\ text = ZeroText
    BY <2>1, EmptyIsAbstract DEF Cleared
  <2>4. AbstractPc' = 0 /\ AbstractGpr' = ZeroGpr /\ AbstractMemory' = memory'
    <3>1. /\ if_id' = IfIdBubble /\ id_ex' = IdExBubble
          /\ ex_mem' = ExMemBubble /\ mem_wb' = MemWbBubble
          /\ program_counter' = 0 /\ gpr' = ZeroGpr
      BY <2>1 DEF Cleared, latches
    <3> QED BY <3>1 DEF AbstractPc, AbstractGpr, AbstractMemory, GprAfterMemory, GprAfterWriteBack,
                        MemoryAfterMemory, Executed, IfIdBubble, IdExBubble, ExMemBubble, MemWbBubble,
                        ExecuteStage, MemoryStage, MemoryWrite, WriteBackStage
  <2>5. /\ Abstract!LoadText(s[2], ZeroText) = LoadText(s[2], ZeroText)
        /\ Abstract!LoadData(s[2], ZeroMemory) = LoadData(s[2], ZeroMemory)
        /\ Abstract!ZeroGpr = ZeroGpr /\ Abstract!ZeroMemory = ZeroMemory
        /\ Abstract!ZeroText = ZeroText
    BY DEF Abstract!ZeroGpr, ZeroGpr, Abstract!LoadData, LoadData, Abstract!ZeroMemory, ZeroMemory,
           Abstract!LoadText, LoadText, Abstract!ZeroText, ZeroText, Abstract!ZeroInst, ZeroInst,
           Abstract!TextAddr, TextAddr, Abstract!Word, Word
  <2>6. Abstract!LoadMachine
    BY <2>2, <2>3, <2>4, <2>5 DEF Abstract!LoadMachine
  <2> QED BY <2>6 DEF Abstract!MachineNext
<1> QED BY <1>1, <1>2, <1>3, <1>4, TickOrNotOneProgram DEF NextSession

\* The pipeline gives the results of the single-cycle machine, only in another
\* number of cycles: for every program and mode that ScenariosHandled describes,
\* every number of registers and word size, and every branch predictor index,
\* run, stepped, stopped and reset at any point, and for one such program after
\* another if each is loaded after a reset.
THEOREM PipelineImplementsMachine ==
    ScenariosHandled => (SpecSession => ImplementsMachine)
<1> SUFFICES ASSUME ScenariosHandled PROVE SpecSession => ImplementsMachine
  OBVIOUS
<1>1. Init => RefinementInv
  BY RefinementInit
<1> QED
  BY <1>1, RefinementStep, StartsAsMachine, MovesAsMachine, PTL
  DEF SpecSession, ImplementsMachine, Abstract!MachineSpec

-----------------------------------------------------------------------------
(* The end of a run. *)

\* Nothing of the program is left to fetch, and the instruction in decode goes
\* the way fetch went.
FetchedOut ==
    /\ \A a \in TextAddr : a >= program_counter => text[a] = ZeroInst
    /\ IsControlFlow(if_id.inst) => if_id.inst.opcode = "JAL" /\ if_id.predicted_as_taken

\* Instructions and latches that leave registers and memory alone.
Harmless(signals, rd) == ~signals.mem_write /\ (signals.reg_write => rd = 0)

HarmlessFetch == if_id.valid => Harmless(SetControlSignals(if_id.inst), if_id.inst.rd)

HarmlessLatch(l) == l.valid => Harmless(l.signals, l.rd)

\* How far the pipeline has drained n ticks after the last fetch.  One tick is for
\* the stall of the last instruction behind a load.
Drained(n) ==
    /\ FetchedOut
    /\ n >= 1 => HarmlessFetch \/ ~id_ex.valid
    /\ n >= 2 => HarmlessFetch
    /\ n >= 3 => HarmlessLatch(id_ex)
    /\ n >= 4 => HarmlessLatch(ex_mem)
    /\ n >= 5 => HarmlessLatch(mem_wb)

\* The program ends in zeros, and only goes to addresses from 0 on.
ProgramBounded ==
    /\ \A a \in TextAddr : a >= program_size_ => text[a] = ZeroInst
    /\ \A a \in TextAddr : text[a].opcode \in {"BRANCH", "JAL"} => a + text[a].imm >= 0

FetchBounded ==
    /\ program_counter >= 0
    /\ IF if_id.valid THEN if_id.pc >= 0 ELSE if_id.inst = ZeroInst
    /\ \A a \in DOMAIN bpu.btb : bpu.btb[a] >= 0

\* A branch that leaves the program was taken once at most: no prediction goes there.
LeftOnce ==
    /\ \A a \in DOMAIN bpu.btb : bpu.btb[a] >= program_size_ => FetchedOut
    /\ if_id.valid /\ if_id.predicted_as_taken /\ if_id.inst.opcode = "BRANCH" =>
          program_counter < program_size_

MayFinish ==
    /\ pipeline_mode >= ForwardingMode
    /\ LastInstructionFallsThrough
    /\ instructions_retired_ <= ExecutionLimit

FinishInv ==
    /\ RefinementInv
    /\ ProgramBounded
    /\ FetchBounded
    /\ LeftOnce
    /\ MayFinish /\ run_phase = "flush" /\ ~stop_requested_ => Drained(4 - flush_cycles)
    /\ MayFinish /\ output_status_ = "VM_PROGRAM_END" => Drained(5)

LEMMA MispredictRedirects ==
    ASSUME FlagsConsumed, Clocktick,
           DecodeOutcome(pipeline_mode, if_id, id_ex, ex_mem, GprAfterWriteBack) = "mispredict"
    PROVE  /\ if_id' = IfIdBubble
           /\ program_counter' = IF Taken(if_id.inst, GprAfterWriteBack)
                                 THEN Target(if_id.inst, if_id.pc, GprAfterWriteBack)
                                 ELSE if_id.pc + 1
<1>1. if_id' = IfIdBubble
  BY FetchCases DEF GprAfterWriteBack
<1>2. AbstractPc' = program_counter'
  BY <1>1 DEF AbstractPc, IfIdBubble
<1> QED BY <1>1, <1>2, AbstractPcTick

\* No prediction is made for an address without a branch or a jump.
LEMMA FetchesNext ==
    ASSUME NEW predictor, FetchNext(program_counter, predictor),
           NEW inst, inst = ReadInstruction(text, program_counter),
           ~IsControlFlow(inst),
           \A pc \in DOMAIN predictor.btb : IsControlFlow(ReadInstruction(text, pc))
    PROVE  /\ if_id'.valid /\ if_id'.inst = inst /\ if_id'.pc = program_counter
           /\ ~if_id'.predicted_as_taken
           /\ program_counter' = program_counter + 1
<1>1. ~PredictTaken(predictor, program_counter)
  BY DEF PredictTaken
<1>2. PredictTarget(predictor, program_counter) = program_counter + 1
  BY <1>1 DEF PredictTarget
<1> QED BY <1>1, <1>2 DEF FetchNext

\* Decode only ever puts branches and jumps into the target buffer.
LEMMA TrainedControlFlow ==
    ASSUME PredictionInv, NEW mode, NEW outcome, NEW regs,
           outcome \in {"issue", "mispredict"} => if_id.valid
    PROVE  \A pc \in DOMAIN TrainedPredictor(mode, outcome, if_id, regs, bpu).btb :
               IsControlFlow(ReadInstruction(text, pc))
<1> DEFINE trained == TrainedPredictor(mode, outcome, if_id, regs, bpu)
<1>1. CASE if_id.valid
  <2>1. if_id.inst = ReadInstruction(text, if_id.pc)
    BY <1>1 DEF PredictionInv, FetchFollowsPrediction
  <2>2. \A pc \in DOMAIN bpu.btb :
            LET inst == ReadInstruction(text, pc)
            IN  /\ IsControlFlow(inst)
                /\ inst.opcode # "JALR" => bpu.btb[pc] = pc + inst.imm
    BY DEF PredictionInv, TargetBufferSound
  <2> QED BY <2>1, <2>2, TrainedSound
<1>2. CASE ~if_id.valid
  <2>1. trained = bpu
    BY <1>2 DEF TrainedPredictor
  <2> QED BY <2>1 DEF PredictionInv, TargetBufferSound
<1> QED BY <1>1, <1>2

\* Once fetch is out of the program it stays out, and brings in zeros only.
LEMMA FetchedOutTick ==
    ASSUME RefinementInv, FetchedOut, Clocktick, text' = text
    PROVE  LET outcome == DecodeOutcome(pipeline_mode, if_id, id_ex, ex_mem, GprAfterWriteBack)
           IN  /\ outcome \in {"stall", "bubble", "issue"}
               /\ outcome = "stall" => if_id' = if_id /\ program_counter' = program_counter
               /\ outcome = "stall" /\ pipeline_mode >= ForwardingMode => id_ex.valid
               /\ outcome # "stall" => if_id'.inst = ZeroInst
               /\ FetchedOut'
<1> DEFINE outcome == DecodeOutcome(pipeline_mode, if_id, id_ex, ex_mem, GprAfterWriteBack)
           trained == TrainedPredictor(pipeline_mode, outcome, if_id, GprAfterWriteBack, bpu)
<1>1. \/ outcome = "mispredict"
      \/ outcome = "stall" /\ UNCHANGED <<if_id, program_counter, bpu>>
      \/ outcome \in {"issue", "bubble"} /\ FetchNext(program_counter, trained)
  BY FetchCases DEF RefinementInv, PredictionInv, GprAfterWriteBack
<1>2. /\ program_counter \in Int /\ pipeline_mode \in 1 .. 5 /\ if_id.predicted_as_taken \in BOOLEAN
      /\ PredictionInv
  BY DEF RefinementInv, PredictionInv, TypeOK, MachineTypeOK, PipelineMode, IfId
<1>3. IsControlFlow(if_id.inst) => PredictionCorrect(pipeline_mode, if_id, GprAfterWriteBack)
  <2> SUFFICES ASSUME IsControlFlow(if_id.inst)
               PROVE  PredictionCorrect(pipeline_mode, if_id, GprAfterWriteBack)
    OBVIOUS
  <2>1. if_id.inst.opcode = "JAL" /\ if_id.predicted_as_taken = TRUE
    BY <1>2 DEF FetchedOut
  <2>2. ~(pipeline_mode < DynamicBranchMode)
    BY <2>1 DEF RefinementInv
  <2>3. pipeline_mode # StaticBranchMode
    BY <1>2, <2>2 DEF StaticBranchMode, DynamicBranchMode
  <2>4. Taken(if_id.inst, GprAfterWriteBack) = TRUE
    BY <2>1 DEF Taken, IsJump
  <2> QED BY <2>1, <2>3, <2>4 DEF PredictionCorrect
<1>4. outcome \in {"stall", "bubble", "issue"}
  BY <1>3 DEF DecodeOutcome
<1>5. outcome = "stall" /\ pipeline_mode >= ForwardingMode => id_ex.valid
  <2> SUFFICES ASSUME outcome = "stall", pipeline_mode >= ForwardingMode PROVE id_ex.valid
    OBVIOUS
  <2>1. StallFetch(pipeline_mode, if_id.inst, id_ex, ex_mem)
    BY DEF DecodeOutcome
  <2>2. if_id.inst.opcode \notin {"BRANCH", "JALR"}
    BY DEF FetchedOut, IsControlFlow
  <2>3. PendingLoad(if_id.inst, id_ex)
    BY <1>2, <2>1, <2>2 DEF StallFetch, StallMode, ForwardingMode
  <2> QED BY <2>3 DEF PendingLoad, Reads, WillLoad
<1>6. outcome \in {"issue", "mispredict"} => if_id.valid
  BY DEF DecodeOutcome
<1> HIDE DEF outcome
<1>7. CASE outcome = "stall"
  BY <1>1, <1>4, <1>5, <1>7 DEF FetchedOut, outcome
<1>8. CASE outcome \in {"issue", "bubble"}
  <2>1. ReadInstruction(text, program_counter) = ZeroInst
    BY <1>2 DEF FetchedOut, ReadInstruction, TextAddr
  <2>2. ~IsControlFlow(ZeroInst)
    BY DEF IsControlFlow, ZeroInst
  <2>3. \A pc \in DOMAIN trained.btb : IsControlFlow(ReadInstruction(text, pc))
    BY <1>2, <1>6, TrainedControlFlow
  <2>4. FetchNext(program_counter, trained)
    BY <1>1, <1>8
  <2> HIDE DEF trained
  <2>5. if_id'.inst = ZeroInst /\ program_counter' = program_counter + 1
    BY <2>1, <2>2, <2>3, <2>4, FetchesNext
  <2>6. FetchedOut'
    <3>1. \A a \in TextAddr : a >= program_counter' => text'[a] = ZeroInst
      BY <1>2, <2>5, TextAssumption DEF FetchedOut, TextAddr
    <3> QED BY <2>2, <2>5, <3>1 DEF FetchedOut
  <2> QED BY <1>4, <1>8, <2>5, <2>6 DEF outcome
<1> QED BY <1>4, <1>7, <1>8

LEMMA HarmlessStages ==
    ASSUME NEW d, NEW x, NEW w, NEW mem, d.valid \in BOOLEAN, x.valid \in BOOLEAN
    PROVE  /\ HarmlessLatch(d) => HarmlessLatch(ExecuteStage(d, x, w))
           /\ HarmlessLatch(x) => HarmlessLatch(MemoryStage(x, mem))
BY DEF HarmlessLatch, Harmless, ExecuteStage, MemoryStage, ExMemBubble, MemWbBubble

\* In five ticks the pipeline drains.
LEMMA DrainTick ==
    ASSUME RefinementInv, pipeline_mode >= ForwardingMode, Clocktick, text' = text,
           NEW n \in Int, Drained(n)
    PROVE  Drained(n + 1)'
<1> DEFINE outcome == DecodeOutcome(pipeline_mode, if_id, id_ex, ex_mem, GprAfterWriteBack)
<1>1. /\ outcome \in {"stall", "bubble", "issue"}
      /\ outcome = "stall" => if_id' = if_id /\ id_ex.valid
      /\ outcome # "stall" => if_id'.inst = ZeroInst
      /\ FetchedOut'
  BY FetchedOutTick DEF Drained
<1>2. id_ex' = IF outcome = "issue" THEN IssuedLatch(pipeline_mode, if_id, id_ex, ex_mem, GprAfterWriteBack)
                                    ELSE IdExBubble
  BY <1>1 DEF Clocktick, DecodeStage, GprAfterWriteBack
<1>3. ex_mem' = ExecuteStage(id_ex, ex_mem, mem_wb) /\ mem_wb' = MemoryStage(ex_mem, memory)
  BY DEF Clocktick
<1>4. outcome = "issue" => if_id.valid
  BY DEF DecodeOutcome
<1> HIDE DEF outcome
<1>5. outcome # "stall" => HarmlessFetch'
  <2>1. Harmless(SetControlSignals(ZeroInst), ZeroInst.rd)
    BY DEF Harmless, SetControlSignals, ZeroInst
  <2> QED BY <1>1, <2>1 DEF HarmlessFetch
<1>6. outcome = "stall" => ~id_ex'.valid /\ (HarmlessFetch => HarmlessFetch')
  BY <1>1, <1>2 DEF HarmlessFetch, IdExBubble
<1>7. HarmlessFetch => HarmlessLatch(id_ex')
  BY <1>2, <1>4 DEF HarmlessFetch, HarmlessLatch, IdExBubble, IssuedLatch
<1>8. id_ex.valid \in BOOLEAN /\ ex_mem.valid \in BOOLEAN
  BY DEF RefinementInv, PredictionInv, TypeOK, IdEx, ExMem
<1>9. /\ HarmlessLatch(id_ex) => HarmlessLatch(ex_mem')
      /\ HarmlessLatch(ex_mem) => HarmlessLatch(mem_wb')
  BY <1>3, <1>8, HarmlessStages
<1>10. FetchedOut'
  BY <1>1
<1>11. n + 1 >= 1 => HarmlessFetch' \/ ~id_ex'.valid
  BY <1>5, <1>6
<1>12. n + 1 >= 2 => HarmlessFetch'
  BY <1>1, <1>5, <1>6 DEF Drained
<1>13. /\ n + 1 >= 3 => HarmlessLatch(id_ex')
       /\ n + 1 >= 4 => HarmlessLatch(ex_mem')
       /\ n + 1 >= 5 => HarmlessLatch(mem_wb')
  BY <1>7, <1>9 DEF Drained
<1>14. /\ HarmlessLatch(id_ex)' <=> HarmlessLatch(id_ex')
       /\ HarmlessLatch(ex_mem)' <=> HarmlessLatch(ex_mem')
       /\ HarmlessLatch(mem_wb)' <=> HarmlessLatch(mem_wb')
  BY DEF HarmlessLatch
<1> QED BY <1>10, <1>11, <1>12, <1>13, <1>14 DEF Drained

\* Drained means that registers and memory are final.
LEMMA DrainedIsFinal ==
    ASSUME Drained(5)
    PROVE  AbstractGpr = gpr /\ AbstractMemory = memory
<1>1. HarmlessLatch(id_ex) /\ HarmlessLatch(ex_mem) /\ HarmlessLatch(mem_wb)
  BY DEF Drained
<1>2. GprAfterWriteBack = gpr
  BY <1>1 DEF GprAfterWriteBack, HarmlessLatch, Harmless, WriteBackStage, WriteGpr
<1>3. GprAfterMemory = gpr /\ MemoryAfterMemory = memory
  BY <1>1, <1>2 DEF GprAfterMemory, MemoryAfterMemory, HarmlessLatch, Harmless, WriteBackStage,
                    WriteGpr, MemoryStage, MemWbBubble, MemoryWrite
<1> QED
  BY <1>1, <1>3, NoTrace DEF AbstractGpr, AbstractMemory, Executed, HarmlessLatch, Harmless

-----------------------------------------------------------------------------
LEMMA ZeroIsNoControlFlow == ~IsControlFlow(ZeroInst)
BY DEF IsControlFlow, ZeroInst

LEMMA WrittenBackType == TypeOK => GprAfterWriteBack \in [Reg -> Word]
BY WriteBackType DEF TypeOK, MachineTypeOK, GprAfterWriteBack

LEMMA TargetBounded ==
    ASSUME RefinementInv, ProgramBounded, FetchBounded, if_id.valid, IsControlFlow(if_id.inst)
    PROVE  /\ Target(if_id.inst, if_id.pc, GprAfterWriteBack) \in Int
           /\ Target(if_id.inst, if_id.pc, GprAfterWriteBack) >= 0
<1>1. /\ TypeOK /\ GprAfterWriteBack \in [Reg -> Word]
      /\ if_id.inst \in Instruction /\ if_id.pc \in Int
  BY WrittenBackType DEF RefinementInv, PredictionInv, TypeOK, IfId
<1>2. if_id.inst = ReadInstruction(text, if_id.pc)
  BY DEF RefinementInv, PredictionInv, FetchFollowsPrediction
<1>3. if_id.pc \in TextAddr /\ if_id.inst = text[if_id.pc]
  BY <1>2, ZeroIsNoControlFlow DEF ReadInstruction
<1>4. CASE if_id.inst.opcode = "JALR"
  <2>1. /\ GprAfterWriteBack[if_id.inst.rs1] \in Int
        /\ if_id.inst.imm \in Int
    BY <1>1, WordAssumption DEF Instruction, Word
  <2>2. GprAfterWriteBack[if_id.inst.rs1] + if_id.inst.imm \in Int
    BY <2>1
  <2> QED BY <1>4, <2>2, DivMod DEF Target, ToWord
<1>5. CASE if_id.inst.opcode # "JALR"
  <2>1. Target(if_id.inst, if_id.pc, GprAfterWriteBack) = if_id.pc + if_id.inst.imm
    BY <1>5 DEF Target
  <2>2. if_id.inst.opcode \in {"BRANCH", "JAL"} /\ if_id.inst.imm \in Int
    BY <1>1, <1>5 DEF IsControlFlow, Instruction
  <2> QED BY <1>1, <1>3, <2>1, <2>2 DEF ProgramBounded
<1> QED BY <1>4, <1>5

\* An entry of the target buffer is an old one or the target just taken.
LEMMA TrainedEntries ==
    ASSUME NEW mode, NEW outcome, NEW regs,
           NEW a \in DOMAIN TrainedPredictor(mode, outcome, if_id, regs, bpu).btb
    PROVE  LET trained == TrainedPredictor(mode, outcome, if_id, regs, bpu)
           IN  \/ a \in DOMAIN bpu.btb /\ trained.btb[a] = bpu.btb[a]
               \/ /\ mode >= DynamicBranchMode /\ outcome \in {"issue", "mispredict"}
                  /\ IsControlFlow(if_id.inst) /\ Taken(if_id.inst, regs)
                  /\ trained.btb[a] = Target(if_id.inst, if_id.pc, regs)
<1> DEFINE trained == TrainedPredictor(mode, outcome, if_id, regs, bpu)
           trains == /\ mode >= DynamicBranchMode /\ outcome \in {"issue", "mispredict"}
                     /\ IsControlFlow(if_id.inst)
           target == Target(if_id.inst, if_id.pc, regs)
           taken == Taken(if_id.inst, regs)
<1>1. CASE ~trains \/ ~taken
  <2>1. trained.btb = bpu.btb
    BY <1>1 DEF TrainedPredictor, Update
  <2> QED BY <2>1
<1>2. CASE trains /\ taken
  <2>1. trained.btb = Put(bpu.btb, if_id.pc, target)
    BY <1>2 DEF TrainedPredictor, Update
  <2> HIDE DEF trained
  <2>2. a \in DOMAIN trained.btb
    BY DEF trained
  <2>3. \/ trained.btb[a] = target
        \/ a \in DOMAIN bpu.btb /\ trained.btb[a] = bpu.btb[a]
    <3> HIDE DEF target
    <3> QED BY <2>1, <2>2 DEF Put
  <2> QED BY <1>2, <2>3 DEF trained
<1> QED BY <1>1, <1>2

LEMMA BoundedTick ==
    ASSUME RefinementInv, ProgramBounded, FetchBounded, Clocktick
    PROVE  FetchBounded'
<1> DEFINE outcome == DecodeOutcome(pipeline_mode, if_id, id_ex, ex_mem, GprAfterWriteBack)
           trained == TrainedPredictor(pipeline_mode, outcome, if_id, GprAfterWriteBack, bpu)
           target == Target(if_id.inst, if_id.pc, GprAfterWriteBack)
<1>1. /\ FlagsConsumed /\ TypeOK /\ program_counter \in Int /\ if_id.pc \in Int
      /\ if_id.valid \in BOOLEAN
  BY DEF RefinementInv, PredictionInv, TypeOK, MachineTypeOK, IfId
<1>2. \/ outcome = "mispredict" /\ bpu' = trained
      \/ outcome = "stall" /\ UNCHANGED <<if_id, program_counter, bpu>>
      \/ outcome \in {"issue", "bubble"} /\ FetchNext(program_counter, trained)
  BY <1>1, FetchCases DEF GprAfterWriteBack
<1>3. /\ outcome \in {"issue", "mispredict"} => if_id.valid
      /\ outcome = "mispredict" => IsControlFlow(if_id.inst)
  BY DEF DecodeOutcome
<1>4. \A a \in DOMAIN trained.btb : trained.btb[a] >= 0
  <2> SUFFICES ASSUME NEW a \in DOMAIN trained.btb PROVE trained.btb[a] >= 0
    OBVIOUS
  <2>1. \/ a \in DOMAIN bpu.btb /\ trained.btb[a] = bpu.btb[a]
        \/ /\ outcome \in {"issue", "mispredict"} /\ IsControlFlow(if_id.inst)
           /\ trained.btb[a] = target
    BY TrainedEntries
  <2>2. if_id.valid /\ IsControlFlow(if_id.inst) => target >= 0
    BY TargetBounded
  <2> HIDE DEF trained, outcome, target
  <2> QED BY <1>3, <2>1, <2>2 DEF FetchBounded
<1>5. CASE outcome = "mispredict" /\ bpu' = trained
  <2>1. /\ if_id' = IfIdBubble
        /\ program_counter' = IF Taken(if_id.inst, GprAfterWriteBack) THEN target ELSE if_id.pc + 1
    BY <1>1, <1>5, MispredictRedirects
  <2>2. target >= 0 /\ if_id.pc >= 0
    BY <1>3, <1>5, TargetBounded DEF FetchBounded
  <2> HIDE DEF trained, outcome, target
  <2>3. program_counter' >= 0
    BY <1>1, <2>1, <2>2
  <2> QED BY <1>4, <1>5, <2>1, <2>3 DEF FetchBounded, IfIdBubble
<1> HIDE DEF outcome
<1>6. CASE outcome = "stall" /\ UNCHANGED <<if_id, program_counter, bpu>>
  BY <1>6 DEF FetchBounded
<1>7. CASE FetchNext(program_counter, trained)
  <2> HIDE DEF trained
  <2>1. if_id'.valid /\ if_id'.pc = program_counter
    BY <1>7 DEF FetchNext
  <2>2. bpu'.btb = trained.btb
    BY <1>7 DEF FetchNext, AfterPredict
  <2>3. \/ program_counter' = program_counter + 1
        \/ /\ program_counter \in DOMAIN trained.btb
           /\ program_counter' = trained.btb[program_counter]
    BY <1>7 DEF FetchNext, PredictTarget, PredictTaken
  <2>4. program_counter' >= 0
    BY <1>1, <1>4, <2>3 DEF FetchBounded
  <2> QED BY <1>1, <1>4, <2>1, <2>2, <2>4 DEF FetchBounded
<1> QED BY <1>2, <1>5, <1>6, <1>7

\* From the end of the program on fetch finds zeros.
LEMMA BeyondTheEnd ==
    ASSUME ProgramBounded, program_size_ \in Int, NEW pc \in Int, pc >= program_size_
    PROVE  \A a \in TextAddr : a >= pc => text[a] = ZeroInst
BY TextAssumption DEF ProgramBounded, TextAddr

\* When the run leaves the program at its end, fetch is out of it: what is in
\* decode is neither a branch about to be taken back nor the last instruction.
LEMMA LeavesAtEnd ==
    ASSUME RefinementInv, ProgramBounded, FetchBounded, LeftOnce, LastInstructionFallsThrough,
           program_size_ \in Int, program_counter >= program_size_
    PROVE  FetchedOut
<1>1. /\ TypeOK /\ program_counter \in Int /\ if_id.pc \in Int
      /\ if_id.valid \in BOOLEAN /\ if_id.predicted_as_taken \in BOOLEAN
      /\ pipeline_mode \in 1 .. 5
  BY DEF RefinementInv, PredictionInv, TypeOK, MachineTypeOK, IfId, PipelineMode
<1>2. SUFFICES ASSUME IsControlFlow(if_id.inst)
               PROVE  if_id.inst.opcode = "JAL" /\ if_id.predicted_as_taken
  <2>1. \A a \in TextAddr : a >= program_counter => text[a] = ZeroInst
    BY <1>1, BeyondTheEnd
  <2> QED BY <2>1 DEF FetchedOut
<1>3. if_id.valid /\ if_id.pc >= 0
  BY <1>2, ZeroIsNoControlFlow DEF FetchBounded
<1>4. /\ if_id.inst = ReadInstruction(text, if_id.pc)
      /\ ~if_id.predicted_as_taken => program_counter = if_id.pc + 1
  BY <1>3 DEF RefinementInv, PredictionInv, FetchFollowsPrediction
<1>5. if_id.pc \in TextAddr /\ if_id.inst = text[if_id.pc]
  BY <1>2, <1>4, ZeroIsNoControlFlow DEF ReadInstruction
<1>6. ~(if_id.pc >= program_size_)
  BY <1>2, <1>5, ZeroIsNoControlFlow DEF ProgramBounded
<1>7. if_id.predicted_as_taken
  <2> SUFFICES ASSUME ~if_id.predicted_as_taken PROVE FALSE
    OBVIOUS
  <2>1. if_id.pc = program_size_ - 1 /\ program_size_ > 0
    BY <1>1, <1>3, <1>4, <1>6
  <2> QED BY <1>2, <1>5, <2>1 DEF LastInstructionFallsThrough
<1>8. if_id.inst.opcode # "BRANCH"
  BY <1>1, <1>3, <1>7 DEF LeftOnce
<1>9. if_id.inst.opcode # "JALR"
  <2>1. Handled(pipeline_mode, if_id.inst)
    BY <1>4, ReadHandled
  <2>2. ~(pipeline_mode < DynamicBranchMode)
    BY <1>7 DEF RefinementInv
  <2> QED BY <2>1, <2>2 DEF Handled
<1> QED BY <1>2, <1>7, <1>8, <1>9 DEF IsControlFlow

LEMMA LeftOnceTick ==
    ASSUME RefinementInv, ProgramBounded, FetchBounded, LeftOnce, Clocktick, text' = text
    PROVE  LeftOnce'
<1> DEFINE outcome == DecodeOutcome(pipeline_mode, if_id, id_ex, ex_mem, GprAfterWriteBack)
           trained == TrainedPredictor(pipeline_mode, outcome, if_id, GprAfterWriteBack, bpu)
           target == Target(if_id.inst, if_id.pc, GprAfterWriteBack)
<1>1. /\ PredictionInv /\ FlagsConsumed /\ TypeOK /\ program_counter \in Int
      /\ pipeline_mode \in 1 .. 5 /\ program_size_ \in Int /\ program_size_' = program_size_
      /\ ProgramBounded'
  <2>1. program_size_' = program_size_
    BY DEF Clocktick, programVars
  <2> QED BY <2>1, TextAssumption DEF RefinementInv, PredictionInv, TypeOK, MachineTypeOK,
                                      PipelineMode, ProgramBounded
<1>2. \/ outcome = "mispredict" /\ bpu' = trained
      \/ outcome = "stall" /\ UNCHANGED <<if_id, program_counter, bpu>>
      \/ outcome \in {"issue", "bubble"} /\ FetchNext(program_counter, trained)
  BY <1>1, FetchCases DEF GprAfterWriteBack
<1>3. /\ outcome \in {"issue", "mispredict"} => if_id.valid
      /\ outcome = "issue" /\ IsControlFlow(if_id.inst) =>
            PredictionCorrect(pipeline_mode, if_id, GprAfterWriteBack)
  BY DEF DecodeOutcome
<1>4. FetchedOut => FetchedOut' /\ outcome # "mispredict"
  BY FetchedOutTick
<1>5. ASSUME NEW a \in DOMAIN trained.btb, trained.btb[a] >= program_size_
      PROVE  \/ FetchedOut
             \/ /\ pipeline_mode >= DynamicBranchMode /\ outcome \in {"issue", "mispredict"}
                /\ IsControlFlow(if_id.inst) /\ Taken(if_id.inst, GprAfterWriteBack)
                /\ target >= program_size_
  <2>1. \/ a \in DOMAIN bpu.btb /\ trained.btb[a] = bpu.btb[a]
        \/ /\ pipeline_mode >= DynamicBranchMode /\ outcome \in {"issue", "mispredict"}
           /\ IsControlFlow(if_id.inst) /\ Taken(if_id.inst, GprAfterWriteBack)
           /\ trained.btb[a] = target
    BY TrainedEntries
  <2> HIDE DEF trained, outcome, target
  <2> QED BY <1>5, <2>1 DEF LeftOnce
<1>6. CASE outcome = "mispredict" /\ bpu' = trained
  <2>1. /\ if_id' = IfIdBubble
        /\ program_counter' = IF Taken(if_id.inst, GprAfterWriteBack) THEN target ELSE if_id.pc + 1
    BY <1>1, <1>6, MispredictRedirects
  <2>2. program_counter' \in Int
    BY <1>1, ClocktickType DEF MachineTypeOK
  <2> HIDE DEF trained, outcome, target
  <2>3. ASSUME NEW a \in DOMAIN bpu'.btb, bpu'.btb[a] >= program_size_
        PROVE  FetchedOut'
    <3>1. program_counter' >= program_size_
      BY <1>4, <1>5, <1>6, <2>1, <2>3
    <3>2. \A b \in TextAddr : b >= program_counter' => text[b] = ZeroInst
      BY <1>1, <2>2, <3>1, BeyondTheEnd
    <3>3. ~IsControlFlow(if_id'.inst)
      BY <2>1, ZeroIsNoControlFlow DEF IfIdBubble
    <3> QED BY <3>2, <3>3 DEF FetchedOut
  <2> QED BY <1>1, <2>1, <2>3 DEF LeftOnce, IfIdBubble
<1>7. CASE outcome = "stall" /\ UNCHANGED <<if_id, program_counter, bpu>>
  <2> HIDE DEF trained, outcome, target
  <2> QED BY <1>1, <1>7 DEF LeftOnce, FetchedOut
<1>8. CASE outcome \in {"issue", "bubble"} /\ FetchNext(program_counter, trained)
  <2>1. \A pc \in DOMAIN trained.btb : IsControlFlow(ReadInstruction(text, pc))
    BY <1>1, <1>3, TrainedControlFlow
  <2>2. \/ ~if_id'.predicted_as_taken
        \/ /\ program_counter \in DOMAIN trained.btb
           /\ program_counter' = trained.btb[program_counter]
    BY <1>8 DEF FetchNext, PredictTarget, PredictTaken
  <2>3. bpu'.btb = trained.btb
    BY <1>8 DEF FetchNext, AfterPredict
  <2>4. outcome = "issue" /\ pipeline_mode >= DynamicBranchMode /\ IsControlFlow(if_id.inst)
            /\ Taken(if_id.inst, GprAfterWriteBack) => program_counter = target
    <3> SUFFICES ASSUME outcome = "issue", pipeline_mode >= DynamicBranchMode,
                        IsControlFlow(if_id.inst), Taken(if_id.inst, GprAfterWriteBack)
                 PROVE  program_counter = target
      OBVIOUS
    <3>1. if_id.valid /\ if_id.predicted_as_taken = TRUE
      <4>1. if_id.predicted_as_taken \in BOOLEAN
        BY <1>1 DEF TypeOK, IfId
      <4> QED BY <1>3, <4>1 DEF PredictionCorrect
    <3>2. /\ if_id.inst = ReadInstruction(text, if_id.pc)
          /\ if_id.inst.opcode # "JALR" => program_counter = if_id.pc + if_id.inst.imm
      BY <1>1, <3>1 DEF PredictionInv, FetchFollowsPrediction
    <3>3. Handled(pipeline_mode, if_id.inst)
      BY <3>2, ReadHandled
    <3>4. ~(pipeline_mode < DynamicBranchMode)
      BY <1>1 DEF DynamicBranchMode
    <3>5. if_id.inst.opcode # "JALR"
      BY <3>3, <3>4 DEF Handled
    <3> QED BY <3>2, <3>5 DEF Target
  <2> HIDE DEF trained, outcome, target
  <2>5. ASSUME NEW a \in DOMAIN trained.btb, trained.btb[a] >= program_size_
        PROVE  FetchedOut'
    <3>1. CASE FetchedOut
      BY <1>4, <3>1
    <3>2. CASE program_counter >= program_size_
      <4>1. \A b \in TextAddr : b >= program_counter => text[b] = ZeroInst
        BY <1>1, <3>2, BeyondTheEnd
      <4>2. ReadInstruction(text, program_counter) = ZeroInst
        BY <1>1, <4>1 DEF ReadInstruction, TextAddr
      <4>3. if_id'.inst = ZeroInst /\ program_counter' = program_counter + 1
        BY <1>8, <2>1, <4>2, ZeroIsNoControlFlow, FetchesNext
      <4>4. \A b \in TextAddr : b >= program_counter' => text[b] = ZeroInst
        BY <1>1, <4>1, <4>3, TextAssumption DEF TextAddr
      <4> QED BY <4>3, <4>4, ZeroIsNoControlFlow DEF FetchedOut
    <3> QED BY <1>5, <1>8, <2>4, <2>5, <3>1, <3>2
  <2>6. ASSUME if_id'.predicted_as_taken, if_id'.inst.opcode = "BRANCH"
        PROVE  program_counter' < program_size_
    <3>1. /\ program_counter \in DOMAIN trained.btb
          /\ program_counter' = trained.btb[program_counter]
      BY <2>2, <2>6
    <3>2. program_counter' \in Int
      BY <1>1, ClocktickType DEF MachineTypeOK
    <3>3. ~FetchedOut'
      BY <2>6 DEF FetchedOut, IsControlFlow
    <3>4. ~(trained.btb[program_counter] >= program_size_)
      BY <2>5, <3>1, <3>3
    <3> QED BY <1>1, <3>1, <3>2, <3>4
  <2> QED BY <1>1, <2>3, <2>5, <2>6 DEF LeftOnce
<1> QED BY <1>2, <1>6, <1>7, <1>8

-----------------------------------------------------------------------------
\* A program just loaded ends in zeros, and its labels lie in it.
LEMMA LoadedBounded ==
    ASSUME ScenariosBounded, NEW s \in Scenario, NEW txt, txt = LoadText(s[2], ZeroText)
    PROVE  /\ \A a \in TextAddr : a >= s[2].size => txt[a] = ZeroInst
           /\ \A a \in TextAddr : txt[a].opcode \in {"BRANCH", "JAL"} => a + txt[a].imm >= 0
<1>1. s[2].size \in Int
  BY ScenarioAssumption, ProgramAssumption, TextAssumption
<1>2. ASSUME NEW a \in TextAddr, a >= s[2].size PROVE txt[a] = ZeroInst
  <2>1. ~(a < s[2].size)
    BY <1>1, <1>2, TextAssumption DEF TextAddr
  <2> QED BY <2>1 DEF LoadText, ZeroText
<1>3. ASSUME NEW a \in TextAddr, txt[a].opcode \in {"BRANCH", "JAL"}
      PROVE  a + txt[a].imm >= 0
  <2>1. a < s[2].size /\ txt[a] = s[2].code[a]
    BY <1>3 DEF LoadText, ZeroText, ZeroInst
  <2> QED BY <1>3, <2>1 DEF ScenariosBounded, AllBounded
<1> QED BY <1>2, <1>3

LEMMA FinishInit == ScenariosHandled /\ ScenariosBounded /\ Init => FinishInv
<1> SUFFICES ASSUME ScenariosHandled, ScenariosBounded, Init PROVE FinishInv
  OBVIOUS
<1>1. PICK s \in Scenario : text = LoadText(s[2], ZeroText) /\ program_size_ = s[2].size
  BY DEF Init
<1>2. RefinementInv
  BY RefinementInit
<1>3. ProgramBounded
  BY <1>1, LoadedBounded DEF ProgramBounded
<1>4. FetchBounded /\ LeftOnce
  BY DEF Init, FetchBounded, LeftOnce, IfIdBubble, NewPredictor
<1> QED BY <1>2, <1>3, <1>4 DEF Init, FinishInv

\* Only a load changes where the program ends.
LEMMA SizeKept == [NextOneProgram]_vars => program_size_' = program_size_
BY DEF NextOneProgram, RunLoop, StartRun, MainLoopTick, LeaveMainLoop, FlushLoopTick, EndRun,
       StepTick, StepAtEnd, RequestStop, Reset, Clocktick, vars, programVars

LEMMA BoundsStep ==
    ASSUME ScenariosBounded, FinishInv, [NextSession]_vars
    PROVE  ProgramBounded' /\ FetchBounded' /\ LeftOnce'
<1>1. /\ RefinementInv /\ ProgramBounded /\ FetchBounded /\ LeftOnce
      /\ [NextOneProgram]_vars => program_size_' = program_size_
  BY SizeKept DEF FinishInv
<1>2. CASE Clocktick /\ text' = text
  <2>1. program_size_' = program_size_
    BY <1>2 DEF Clocktick, programVars
  <2> QED BY <1>1, <1>2, <2>1, BoundedTick, LeftOnceTick DEF ProgramBounded
<1>3. CASE Reset
  <2>1. /\ text' = ZeroText /\ program_counter' = 0
        /\ if_id' = IfIdBubble /\ bpu' = NewPredictor
    BY <1>3 DEF Reset, ResetMachine
  <2>2. ProgramBounded'
    BY <2>1 DEF ProgramBounded, ZeroText, ZeroInst
  <2> QED BY <2>1, <2>2 DEF FetchBounded, LeftOnce, IfIdBubble, NewPredictor
<1>4. CASE [NextOneProgram]_vars /\ UNCHANGED <<tickVars, pipeline_mode, text>>
  BY <1>1, <1>4 DEF tickVars, latches, ProgramBounded, FetchBounded, LeftOnce, FetchedOut
<1>5. CASE LoadAfterReset
  <2>1. PICK s \in Scenario : /\ text' = LoadText(s[2], ZeroText)
                             /\ program_size_' = s[2].size
    BY <1>5, LoadsOnceCleared
  <2>2. program_counter' = 0 /\ if_id' = IfIdBubble /\ bpu' = NewPredictor
    BY <1>5, LoadsOnceCleared DEF Cleared, latches
  <2>3. ProgramBounded'
    BY <2>1, LoadedBounded DEF ProgramBounded
  <2> QED BY <2>2, <2>3 DEF FetchBounded, LeftOnce, IfIdBubble, NewPredictor
<1> QED BY <1>2, <1>3, <1>4, <1>5, TickOrNotOneProgram DEF NextSession

\* A tick only adds to the retired instructions.
LEMMA MayFinishTick ==
    ASSUME TypeOK, Clocktick, text' = text, MayFinish'
    PROVE  MayFinish
<1>1. /\ pipeline_mode' = pipeline_mode /\ program_size_' = program_size_
      /\ instructions_retired_' = RetiredAfter(mem_wb, instructions_retired_)
  BY DEF Clocktick, programVars
<1>2. instructions_retired_ \in Int
  BY BoundAssumption DEF TypeOK
<1>3. instructions_retired_' <= ExecutionLimit => instructions_retired_ <= ExecutionLimit
  BY <1>1, <1>2, BoundAssumption DEF RetiredAfter
<1> QED BY <1>1, <1>3 DEF MayFinish, LastInstructionFallsThrough

\* Having drained the pipeline stays so.
LEMMA DrainedStays ==
    ASSUME FinishInv, Clocktick, text' = text, MayFinish', output_status_ = "VM_PROGRAM_END"
    PROVE  Drained(5)'
<1>1. MayFinish
  BY MayFinishTick DEF FinishInv, RefinementInv, PredictionInv
<1>2. RefinementInv /\ Drained(5) /\ pipeline_mode >= ForwardingMode
  BY <1>1 DEF FinishInv, MayFinish
<1>3. Drained(5 + 1)'
  BY <1>2, DrainTick
<1> QED BY <1>3 DEF Drained

LEMMA FinishStep ==
    ScenariosHandled /\ ScenariosBounded /\ FinishInv /\ [NextSession]_vars => FinishInv'
<1> SUFFICES ASSUME ScenariosHandled, ScenariosBounded, FinishInv, [NextSession]_vars
             PROVE  FinishInv'
  OBVIOUS
<1> DEFINE Flushing == MayFinish /\ run_phase = "flush" /\ ~stop_requested_ => Drained(4 - flush_cycles)
           AtEnd == MayFinish /\ output_status_ = "VM_PROGRAM_END" => Drained(5)
<1>1. RefinementInv' /\ ProgramBounded' /\ FetchBounded' /\ LeftOnce'
  BY RefinementStep, BoundsStep DEF FinishInv
<1>2. /\ TypeOK /\ flush_cycles \in Int /\ program_size_ \in Int /\ program_counter \in Int
      /\ RefinementInv /\ ProgramBounded /\ FetchBounded /\ LeftOnce /\ Flushing /\ AtEnd
  BY DEF FinishInv, RefinementInv, PredictionInv, TypeOK, MachineTypeOK
<1>3. SUFFICES Flushing' /\ AtEnd'
  BY <1>1 DEF FinishInv
<1>4. ~InProgram(program_counter) => program_counter >= program_size_
  BY <1>2 DEF InProgram, FetchBounded
<1>5. CASE StartRun
  BY <1>2, <1>5 DEF StartRun, tickVars, latches, programVars, MayFinish, Drained, FetchedOut,
                    HarmlessFetch, HarmlessLatch, LastInstructionFallsThrough
<1>6. CASE MainLoopTick
  <2>1. /\ Clocktick /\ text' = text
        /\ run_phase' = "main" /\ output_status_' = output_status_
    BY <1>6 DEF MainLoopTick, runVars, Clocktick, programVars
  <2>2. AtEnd'
    BY <2>1, DrainedStays
  <2> QED BY <2>1, <2>2
<1>7. CASE LeaveMainLoop
  <2>1. /\ UNCHANGED <<tickVars, programVars, pipeline_mode, stop_requested_, output_status_>>
        /\ flush_cycles' = 4 /\ ~MainLoopGuard
    BY <1>7 DEF LeaveMainLoop
  <2>2. MayFinish /\ ~stop_requested_ => FetchedOut
    BY <1>2, <1>4, <2>1, LeavesAtEnd DEF MainLoopGuard, MayFinish
  <2>3. MayFinish' => MayFinish
    BY <2>1 DEF tickVars, programVars, MayFinish, LastInstructionFallsThrough
  <2>4. FetchedOut => FetchedOut'
    BY <2>1 DEF tickVars, latches, programVars, FetchedOut
  <2>5. Drained(5) => Drained(5)'
    BY <2>1, <2>4 DEF tickVars, latches, Drained, HarmlessFetch, HarmlessLatch
  <2>6. Flushing'
    BY <2>1, <2>2, <2>3, <2>4 DEF Drained
  <2> QED BY <1>2, <2>1, <2>3, <2>5, <2>6
<1>8. CASE FlushLoopTick
  <2>1. /\ Clocktick /\ text' = text /\ flush_cycles' = flush_cycles - 1
        /\ run_phase = "flush" /\ ~stop_requested_ /\ output_status_' = output_status_
    BY <1>8 DEF FlushLoopTick, Clocktick, programVars
  <2>2. AtEnd'
    BY <2>1, DrainedStays
  <2>3. Flushing'
    <3> SUFFICES ASSUME MayFinish' PROVE Drained(4 - flush_cycles)'
      OBVIOUS
    <3>1. MayFinish
      BY <1>2, <2>1, MayFinishTick
    <3>2. PICK n \in Int : n = 4 - flush_cycles
      BY <1>2
    <3>3. Drained(n)
      BY <1>2, <2>1, <3>1, <3>2
    <3>4. Drained(n + 1)'
      BY <1>2, <2>1, <3>1, <3>3, DrainTick DEF MayFinish
    <3>5. 4 - flush_cycles' = n + 1
      BY <1>2, <2>1, <3>2
    <3> QED BY <3>4, <3>5 DEF Drained
  <2> QED BY <2>2, <2>3
<1>9. CASE EndRun
  <2>1. /\ UNCHANGED <<tickVars, programVars, pipeline_mode>>
        /\ run_phase = "flush" /\ run_phase' = "idle"
        /\ stop_requested_ \/ flush_cycles < 0
        /\ output_status_' # output_status_ => ~stop_requested_
    BY <1>9 DEF EndRun
  <2>2. MayFinish' => MayFinish
    BY <2>1 DEF tickVars, programVars, MayFinish, LastInstructionFallsThrough
  <2>3. Drained(5) => Drained(5)'
    BY <2>1 DEF tickVars, latches, programVars, Drained, FetchedOut, HarmlessFetch, HarmlessLatch
  <2>4. MayFinish /\ ~stop_requested_ => Drained(5)
    BY <1>2, <2>1 DEF Drained, TypeOK
  <2> QED BY <1>2, <2>1, <2>2, <2>3, <2>4
<1>10. CASE StepTick
  BY <1>10 DEF StepTick
<1>11. CASE StepAtEnd
  <2>1. /\ UNCHANGED <<tickVars, programVars>> /\ run_phase' = "idle"
        /\ ~InProgram(program_counter) /\ PipelineEmpty
    BY <1>11 DEF StepAtEnd
  <2>2. \A a \in TextAddr : a >= program_counter => text[a] = ZeroInst
    BY <1>2, <1>4, <2>1, BeyondTheEnd
  <2>3. if_id.inst = ZeroInst
    BY <1>2, <2>1 DEF FetchBounded, PipelineEmpty
  <2>4. Drained(5)
    BY <2>1, <2>2, <2>3, ZeroIsNoControlFlow
    DEF PipelineEmpty, Drained, FetchedOut, HarmlessFetch, HarmlessLatch
  <2>5. Drained(5)'
    BY <2>1, <2>4 DEF tickVars, latches, programVars, Drained, FetchedOut, HarmlessFetch, HarmlessLatch
  <2> QED BY <2>1, <2>5
<1>12. CASE RequestStop
  BY <1>2, <1>12 DEF RequestStop, tickVars, latches, programVars, MayFinish, Drained, FetchedOut,
                     HarmlessFetch, HarmlessLatch, LastInstructionFallsThrough
<1>13. CASE Reset
  <2>1. /\ text' = ZeroText /\ if_id' = IfIdBubble /\ id_ex' = IdExBubble
        /\ ex_mem' = ExMemBubble /\ mem_wb' = MemWbBubble
    BY <1>13 DEF Reset, ResetMachine
  <2>2. /\ FetchedOut' /\ HarmlessFetch' /\ HarmlessLatch(id_ex)'
        /\ HarmlessLatch(ex_mem)' /\ HarmlessLatch(mem_wb)'
    BY <2>1, ZeroIsNoControlFlow
    DEF FetchedOut, HarmlessFetch, HarmlessLatch, ZeroText, IfIdBubble, IdExBubble,
        ExMemBubble, MemWbBubble
  <2>3. Drained(4 - flush_cycles)' /\ Drained(5)'
    BY <2>2 DEF Drained
  <2> QED BY <2>3
<1>14. CASE UNCHANGED vars
  BY <1>2, <1>14 DEF vars, runVars, tickVars, latches, programVars, MayFinish, Drained, FetchedOut,
                     HarmlessFetch, HarmlessLatch, LastInstructionFallsThrough
<1>15. CASE LoadAfterReset
  BY <1>15, LoadsOnceCleared
<1> QED
  BY <1>5, <1>6, <1>7, <1>8, <1>9, <1>10, <1>11, <1>12, <1>13, <1>14, <1>15
  DEF NextSession, NextOneProgram, RunLoop

\* When the pipeline reports the end of the program, its registers and memory are
\* final: for every program that falls off its end, in the forwarding modes, and
\* whatever was loaded, run, stepped, stopped and reset before.  The five ticks that
\* Run_Pipelined adds are one for the stall of the last instruction and one for each
\* of the four stages it still has to leave.
THEOREM FinishedAlwaysAtProgramEnd ==
    ScenariosHandled /\ ScenariosBounded => (SpecSession => []FinishedAtProgramEnd)
<1> SUFFICES ASSUME ScenariosHandled, ScenariosBounded
             PROVE  SpecSession => []FinishedAtProgramEnd
  OBVIOUS
<1>1. Init => FinishInv
  BY FinishInit
<1>2. FinishInv => FinishedAtProgramEnd
  BY DrainedIsFinal DEF FinishInv, MayFinish, FinishedAtProgramEnd
<1> QED BY <1>1, <1>2, FinishStep, PTL DEF SpecSession

-----------------------------------------------------------------------------
(* Progress.  A tick of the main loop either commits another instruction, or
   gets closer to one or to the end of the text, or costs one of the few ticks
   of a stall or a flush.  No scenario is assumed to be handled: this is so in
   every mode and for every program whose loops retire instructions. *)

\* While the counter is below its bound, what leaves a latch for the next one
\* or for the counter is counted once: only decode adds to the sum.
LEMMA CommittedTick ==
    ASSUME TypeOK, Clocktick, instructions_retired_ < RetiredCap
    PROVE  Committed' = Committed + Counts(id_ex')
<1> DEFINE regs == WriteBackStage(mem_wb, gpr)
<1>1. /\ instructions_retired_' = RetiredAfter(mem_wb, instructions_retired_)
      /\ mem_wb' = MemoryStage(ex_mem, memory)
      /\ ex_mem' = ExecuteStage(id_ex, ex_mem, mem_wb)
  BY DEF Clocktick
<1>2. /\ instructions_retired_ \in Int
      /\ id_ex.valid \in BOOLEAN /\ ex_mem.valid \in BOOLEAN
  BY BoundAssumption DEF TypeOK, IdEx, ExMem
<1>3. instructions_retired_' = instructions_retired_ + Counts(mem_wb)
  BY <1>1, <1>2 DEF RetiredAfter, Counts
<1>4. Counts(mem_wb') = Counts(ex_mem)
  BY <1>1, <1>2 DEF MemoryStage, MemWbBubble, Counts
<1>5. Counts(ex_mem') = Counts(id_ex)
  BY <1>1, <1>2 DEF ExecuteStage, ExMemBubble, Counts
<1>6. /\ Counts(id_ex) \in Int /\ Counts(ex_mem) \in Int
      /\ Counts(mem_wb) \in Int /\ Counts(id_ex') \in Int
  BY DEF Counts
<1> QED BY <1>2, <1>3, <1>4, <1>5, <1>6 DEF Committed

\* Decode hands over an instruction that counts exactly if it issues one that
\* writes a register, or gives a mispredicted jump its link to write.
LEMMA CountsDecoded ==
    ASSUME NEW mode, NEW fd, NEW d, NEW x, NEW regs
    PROVE  LET outcome == DecodeOutcome(mode, fd, d, x, regs)
           IN  Counts(DecodeStage(mode, fd, d, x, regs)) =
                   IF \/ outcome = "issue" /\ SetControlSignals(fd.inst).reg_write
                      \/ outcome = "mispredict" /\ IsJump(fd.inst)
                   THEN 1 ELSE 0
<1> DEFINE outcome == DecodeOutcome(mode, fd, d, x, regs)
           l == DecodeStage(mode, fd, d, x, regs)
<1>1. l = IF outcome = "issue" THEN IssuedLatch(mode, fd, d, x, regs)
          ELSE IF outcome = "mispredict" /\ IsJump(fd.inst) THEN LinkLatch(fd)
          ELSE IdExBubble
  BY DEF DecodeStage
<1> HIDE DEF outcome, l
<1>2. CASE outcome = "issue"
  <2>1. l.valid /\ l.signals = SetControlSignals(fd.inst)
    BY <1>1, <1>2 DEF IssuedLatch
  <2> QED BY <1>2, <2>1 DEF Counts, outcome, l
<1>3. CASE outcome = "mispredict" /\ IsJump(fd.inst)
  <2>1. l.valid /\ l.signals.reg_write
    BY <1>1, <1>3 DEF LinkLatch, IdExBubble, NoSignals
  <2> QED BY <1>3, <2>1 DEF Counts, outcome, l
<1>4. CASE outcome # "issue" /\ ~(outcome = "mispredict" /\ IsJump(fd.inst))
  <2>1. ~l.valid
    BY <1>1, <1>4 DEF IdExBubble
  <2> QED BY <1>4, <2>1 DEF Counts, outcome, l
<1> QED BY <1>2, <1>3, <1>4

\* Decode only waits for an instruction in one of the next two latches.
LEMMA StallsBehind ==
    ASSUME NEW mode, NEW inst, NEW d, NEW x, StallFetch(mode, inst, d, x)
    PROVE  d.valid \/ x.valid
BY DEF StallFetch, PendingWrite, PendingLoad, Reads, WillWrite, WillLoad

\* From an instruction that writes nothing, further on and to one that writes
\* are both nearer.
LEMMA DistanceFalls ==
    ASSUME NEW code, NEW pc \in Int, NEW next \in Int,
           pc < TextSize, ~SetControlSignals(ReadInstruction(code, pc)).reg_write,
           \/ pc < next
           \/ SetControlSignals(ReadInstruction(code, next)).reg_write
    PROVE  DistanceFrom(code, next) < DistanceFrom(code, pc)
<1>1. TextSize \in Int
  BY TextAssumption
<1>2. DistanceFrom(code, pc) = TextSize - pc
  BY <1>1 DEF DistanceFrom
<1>3. DistanceFrom(code, next) = 0
      \/ (pc < next /\ DistanceFrom(code, next) = TextSize - next)
  BY DEF DistanceFrom
<1> QED BY <1>1, <1>2, <1>3

\* A branch of a program whose loops retire leads nearer, taken or not.
LEMMA BranchFalls ==
    ASSUME TypeOK, LoopsRetire, NEW pc \in TextAddr, text[pc].opcode = "BRANCH"
    PROVE  /\ DistanceFrom(text, pc + text[pc].imm) < DistanceFrom(text, pc)
           /\ DistanceFrom(text, pc + 1) < DistanceFrom(text, pc)
<1>1. /\ pc \in Int /\ pc < TextSize
      /\ text[pc].imm \in Int
  BY TextAssumption DEF TextAddr, TypeOK, MachineTypeOK, Instruction
<1>2. ReadInstruction(text, pc) = text[pc]
  BY DEF ReadInstruction
<1>3. ~SetControlSignals(ReadInstruction(text, pc)).reg_write
  BY <1>2 DEF SetControlSignals
<1>4. \/ pc < pc + text[pc].imm
      \/ SetControlSignals(ReadInstruction(text, pc + text[pc].imm)).reg_write
  BY <1>1 DEF LoopsRetire
<1>5. pc + text[pc].imm \in Int /\ pc + 1 \in Int /\ pc < pc + 1
  BY <1>1
<1>6. DistanceFrom(text, pc + text[pc].imm) < DistanceFrom(text, pc)
  BY <1>1, <1>3, <1>4, <1>5, DistanceFalls
<1>7. DistanceFrom(text, pc + 1) < DistanceFrom(text, pc)
  BY <1>1, <1>3, <1>5, DistanceFalls
<1> QED BY <1>6, <1>7

\* An instruction that leaves decode without writing a register leaves a nearer
\* one behind it: fetch is in the program, and so has not run past the end.
LEMMA IssuedFalls ==
    ASSUME PredictionInv, LoopsRetire, InProgram(program_counter), if_id.valid,
           ~SetControlSignals(if_id.inst).reg_write
    PROVE  DistanceFrom(text, program_counter) < DistanceFrom(text, if_id.pc)
<1>1. TypeOK /\ if_id.pc \in Int /\ program_counter \in Int
  BY DEF PredictionInv, TypeOK, MachineTypeOK, IfId
<1>2. if_id.inst = ReadInstruction(text, if_id.pc)
  BY DEF PredictionInv, FetchFollowsPrediction
<1>3. program_counter < TextSize
  BY <1>1, TextAssumption DEF InProgram, TypeOK
<1>4. CASE ~if_id.predicted_as_taken
  <2>1. program_counter = if_id.pc + 1
    BY <1>4 DEF PredictionInv, FetchFollowsPrediction
  <2>2. if_id.pc < TextSize /\ if_id.pc < program_counter
    BY <1>1, <1>3, <2>1, TextAssumption
  <2> QED BY <1>1, <1>2, <2>2, DistanceFalls
<1>5. CASE if_id.predicted_as_taken
  <2>1. /\ IsControlFlow(if_id.inst)
        /\ if_id.inst.opcode # "JALR" => program_counter = if_id.pc + if_id.inst.imm
    BY <1>5 DEF PredictionInv, FetchFollowsPrediction
  <2>2. if_id.inst.opcode = "BRANCH"
    BY <2>1 DEF IsControlFlow, SetControlSignals
  <2>3. if_id.pc \in TextAddr /\ if_id.inst = text[if_id.pc]
    BY <1>2, <2>1, ZeroIsNoControlFlow DEF ReadInstruction
  <2> QED BY <1>1, <2>1, <2>2, <2>3, BranchFalls
<1> QED BY <1>4, <1>5

\* The redirection of a mispredicted branch leads nearer too.
LEMMA RedirectedFalls ==
    ASSUME PredictionInv, LoopsRetire, if_id.valid, if_id.inst.opcode = "BRANCH",
           NEW regs
    PROVE  /\ DistanceFrom(text, Target(if_id.inst, if_id.pc, regs)) < DistanceFrom(text, if_id.pc)
           /\ DistanceFrom(text, if_id.pc + 1) < DistanceFrom(text, if_id.pc)
<1>1. IsControlFlow(if_id.inst) /\ if_id.inst = ReadInstruction(text, if_id.pc)
  BY DEF PredictionInv, FetchFollowsPrediction, IsControlFlow
<1>2. if_id.pc \in TextAddr /\ if_id.inst = text[if_id.pc]
  BY <1>1, ZeroIsNoControlFlow DEF ReadInstruction
<1>3. Target(if_id.inst, if_id.pc, regs) = if_id.pc + if_id.inst.imm
  BY DEF Target
<1> QED BY <1>2, <1>3, BranchFalls DEF PredictionInv

\* What a stall, or the bubble that a flush has left in IF/ID, costs.
LEMMA WaitingFalls ==
    ASSUME TypeOK, FlagsConsumed, Clocktick,
           DecodeOutcome(pipeline_mode, if_id, id_ex, ex_mem, GprAfterWriteBack)
               \in {"stall", "bubble"}
    PROVE  Waiting(if_id', id_ex', ex_mem') < Waiting(if_id, id_ex, ex_mem)
<1> DEFINE outcome == DecodeOutcome(pipeline_mode, if_id, id_ex, ex_mem, GprAfterWriteBack)
<1>1. /\ if_id.valid \in BOOLEAN /\ id_ex.valid \in BOOLEAN /\ ex_mem.valid \in BOOLEAN
  BY DEF TypeOK, IfId, IdEx, ExMem
<1>2. id_ex' = DecodeStage(pipeline_mode, if_id, id_ex, ex_mem, GprAfterWriteBack)
  BY DEF Clocktick, GprAfterWriteBack
<1>3. ~id_ex'.valid
  BY <1>2 DEF DecodeStage, IdExBubble
<1>4. ex_mem'.valid = id_ex.valid
  BY <1>1 DEF Clocktick, ExecuteStage, ExMemBubble
<1>5. CASE outcome = "stall"
  <2>1. StallFetch(pipeline_mode, if_id.inst, id_ex, ex_mem)
    BY <1>5 DEF DecodeOutcome
  <2>2. id_ex.valid \/ ex_mem.valid
    BY <2>1, StallsBehind
  <2>3. if_id' = if_id
    BY <1>5, FetchCases DEF GprAfterWriteBack
  <2> HIDE DEF outcome
  <2> QED BY <1>1, <1>3, <1>4, <2>2, <2>3 DEF Waiting
<1>6. CASE outcome = "bubble"
  <2>1. ~if_id.valid
    BY <1>6 DEF DecodeOutcome
  <2>2. if_id'.valid
    BY <1>6, FetchCases DEF GprAfterWriteBack, FetchNext
  <2> HIDE DEF outcome
  <2> QED BY <1>1, <1>3, <1>4, <2>1, <2>2 DEF Waiting
<1> QED BY <1>5, <1>6

\* One tick of the main loop.
LEMMA MainLoopAdvances ==
    ASSUME PredictionInv, MainLoopTick, LoopsRetire
    PROVE  \/ Committed' > Committed
           \/ /\ Committed' = Committed
              /\ \/ Distance' < Distance
                 \/ /\ Distance' = Distance
                    /\ Waiting(if_id', id_ex', ex_mem') < Waiting(if_id, id_ex, ex_mem)
<1> DEFINE regs == GprAfterWriteBack
           outcome == DecodeOutcome(pipeline_mode, if_id, id_ex, ex_mem, regs)
<1>1. /\ TypeOK /\ FlagsConsumed
      /\ Clocktick /\ InProgram(program_counter)
      /\ instructions_retired_ <= ExecutionLimit
  BY DEF PredictionInv, MainLoopTick, MainLoopGuard
<1>2. text' = text
  BY <1>1 DEF Clocktick, programVars
<1>3. id_ex' = DecodeStage(pipeline_mode, if_id, id_ex, ex_mem, regs)
  BY <1>1 DEF Clocktick, GprAfterWriteBack
<1>4. Counts(id_ex') = IF \/ outcome = "issue" /\ SetControlSignals(if_id.inst).reg_write
                          \/ outcome = "mispredict" /\ IsJump(if_id.inst)
                       THEN 1 ELSE 0
  BY <1>3, CountsDecoded
<1>5. Committed \in Int
  BY <1>1 DEF Committed, Counts, TypeOK
<1>6. Committed' = Committed + Counts(id_ex')
  BY <1>1, CommittedTick, BoundAssumption DEF TypeOK
<1>7. outcome \in {"stall", "bubble", "mispredict", "issue"}
  BY DEF DecodeOutcome
<1>8. outcome \in {"mispredict", "issue"} => if_id.valid /\ AbstractPc = if_id.pc
  BY DEF DecodeOutcome, AbstractPc
<1>9. Distance = DistanceFrom(text, AbstractPc) /\ Distance' = DistanceFrom(text, AbstractPc')
  BY <1>2 DEF Distance
<1>10. CASE Counts(id_ex') = 1
  BY <1>5, <1>6, <1>10
<1>11. CASE Counts(id_ex') # 1
  <2>1. Committed' = Committed
    BY <1>4, <1>5, <1>6, <1>11
  <2>2. CASE outcome \in {"stall", "bubble"}
    <3>1. AbstractPc' = AbstractPc
      BY <1>1, <2>2, AbstractPcTick
    <3>2. Waiting(if_id', id_ex', ex_mem') < Waiting(if_id, id_ex, ex_mem)
      BY <1>1, <2>2, WaitingFalls
    <3> QED BY <1>9, <2>1, <3>1, <3>2
  <2>3. CASE outcome = "issue"
    <3>1. AbstractPc' = program_counter
      BY <1>1, <2>3, AbstractPcTick
    <3>2. ~SetControlSignals(if_id.inst).reg_write
      BY <1>4, <1>11, <2>3
    <3>3. DistanceFrom(text, program_counter) < DistanceFrom(text, if_id.pc)
      BY <1>1, <1>8, <2>3, <3>2, IssuedFalls
    <3> QED BY <1>8, <1>9, <2>1, <2>3, <3>1, <3>3
  <2>4. CASE outcome = "mispredict"
    <3>1. AbstractPc' = IF Taken(if_id.inst, regs) THEN Target(if_id.inst, if_id.pc, regs)
                                                   ELSE if_id.pc + 1
      BY <1>1, <2>4, AbstractPcTick
    <3>2. IsControlFlow(if_id.inst) /\ ~IsJump(if_id.inst)
      BY <1>4, <1>11, <2>4 DEF DecodeOutcome
    <3>3. if_id.inst.opcode = "BRANCH"
      BY <3>2 DEF IsControlFlow, IsJump
    <3>4. /\ DistanceFrom(text, Target(if_id.inst, if_id.pc, regs)) < DistanceFrom(text, if_id.pc)
          /\ DistanceFrom(text, if_id.pc + 1) < DistanceFrom(text, if_id.pc)
      BY <1>8, <2>4, <3>3, RedirectedFalls
    <3> QED BY <1>8, <1>9, <2>1, <2>4, <3>1, <3>4
  <2> QED BY <1>7, <2>2, <2>3, <2>4
<1> QED BY <1>10, <1>11

\* Every tick of Run_Pipelined's main loop gets on with the program, in every
\* mode: neither stalls nor flushes nor mispredictions can keep it busy.
THEOREM RunAlwaysAdvances == SpecSession => RunAdvances
<1>1. PredictionInv /\ [NextSession]_vars =>
          [MainLoopTick /\ LoopsRetire =>
              \/ Committed' > Committed
              \/ /\ Committed' = Committed
                 /\ \/ Distance' < Distance
                    \/ /\ Distance' = Distance
                       /\ Waiting(if_id, id_ex, ex_mem)' < Waiting(if_id, id_ex, ex_mem)]_vars
  BY MainLoopAdvances
<1> QED BY <1>1, PredictionInit, PredictionStep, PTL DEF SpecSession, RunAdvances

==============================================================================
