---------------------------- MODULE DebuggerProofs ----------------------------
(***************************************************************************)
(* Theorems about the debugger: type correctness together with the counter *)
(* that covers the undo stack; and that stepping with undo and redo        *)
(* implements Timeline, for every program, every set of registers and      *)
(* every word size.                                                        *)
(***************************************************************************)
EXTENDS DebuggerProperties, UndoHistory, MachineProofs, SequenceTheorems, WellFoundedInduction

\* In the body of a loop the limit has been looked at.
LimitSeen == run_phase \in {"debug_step", "run_step"} => instruction_executed <= ExecutionLimit

\* instructions_retired_ stays a natural number only because it covers the
\* stack, and the loops' counter within its range only because they look at it
\* first, so the three are one inductive invariant.
DebuggerInv == TypeOK /\ RetiredCoversUndo /\ LimitSeen

-----------------------------------------------------------------------------
(* Deltas. *)

LEMMA NoDeltaType == NoDelta \in StepDelta
BY DEF NoDelta, StepDelta

\* A change of a register or of a cell is noted as a change.
LEMMA NotedType ==
    ASSUME NEW K, NEW changes \in Seq([at : K, old_value : Word, new_value : Word]),
           NEW at \in K, NEW old \in Word, NEW new \in Word
    PROVE  Noted(changes, at, old, new) \in Seq([at : K, old_value : Word, new_value : Word])
<1> DEFINE change == [at |-> at, old_value |-> old, new_value |-> new]
<1> HIDE DEF Word
<1>1. change \in [at : K, old_value : Word, new_value : Word]
  OBVIOUS
<1> HIDE DEF change
<1>2. Append(changes, change) \in Seq([at : K, old_value : Word, new_value : Word])
  BY <1>1
<1> QED
  BY <1>2 DEF Noted, change

LEMMA DeltaAfterType ==
    ASSUME MachineTypeOK, NEW delta \in StepDelta
    PROVE  DeltaAfter(delta) \in StepDelta
<1> DEFINE inst == ReadInstruction(text, program_counter)
           address == ExecutionResult(inst, gpr)
           newGpr == GprAfter(inst, program_counter, gpr, memory)
           newMemory == MemoryAfter(inst, gpr, memory)
           registers == Noted(delta.register_changes, inst.rd, gpr[inst.rd], newGpr[inst.rd])
           cells == IF SetControlSignals(inst).mem_write
                    THEN Noted(delta.memory_changes, address, memory[address], newMemory[address])
                    ELSE delta.memory_changes
<1>1. inst \in Instruction
  BY ReadInstructionType DEF MachineTypeOK
<1>2. inst.rd \in Reg
  BY <1>1 DEF Instruction
<1>3. address \in Word /\ newGpr \in [Reg -> Word] /\ newMemory \in [Word -> Word]
  BY <1>1, ExecutionResultType, GprAfterType, MemoryAfterType DEF MachineTypeOK
<1>4. /\ delta.register_changes \in Seq(RegisterChange)
      /\ delta.memory_changes \in Seq(MemoryChange)
  BY DEF StepDelta
<1>5. registers \in Seq(RegisterChange)
  <2>1. gpr[inst.rd] \in Word /\ newGpr[inst.rd] \in Word
    BY <1>2, <1>3 DEF MachineTypeOK
  <2> HIDE DEF inst, newGpr
  <2> QED BY <2>1, <1>2, <1>4, NotedType DEF RegisterChange
<1>6. cells \in Seq(MemoryChange)
  <2>1. memory[address] \in Word /\ newMemory[address] \in Word
    BY <1>3 DEF MachineTypeOK
  <2> HIDE DEF inst, address, newMemory
  <2> QED BY <2>1, <1>3, <1>4, NotedType DEF MemoryChange
<1>7. DeltaAfter(delta) = [delta EXCEPT !.register_changes = registers, !.memory_changes = cells]
  BY DEF DeltaAfter, StepDelta
<1> HIDE DEF registers, cells
<1> QED
  BY <1>5, <1>6, <1>7 DEF StepDelta

\* A finite set of numbers has a largest one.
LEMMA LargestExists ==
    ASSUME NEW n \in Nat, NEW S \in SUBSET (1 .. n), S # {}
    PROVE  \E m \in S : \A i \in S : i <= m
<1> DEFINE T == {n - i : i \in S}
<1>0. \A i \in S : i \in 1 .. n /\ i \in Int
  OBVIOUS
<1>1. T \subseteq Nat /\ T # {}
  <2>1. \A i \in S : n - i \in Nat
    BY <1>0
  <2> QED BY <2>1
<1>2. PICK x \in T : \A y \in T : ~(<<y, x>> \in OpToRel(<, Nat))
  BY <1>1, NatLessThanWellFounded, WFMin
<1>3. \A y \in T : ~(y < x)
  BY <1>1, <1>2 DEF OpToRel
<1>4. PICK m \in S : x = n - m
  OBVIOUS
<1>5. ASSUME NEW i \in S PROVE i <= m
  <2>1. ~(n - i < n - m)
    BY <1>3, <1>4
  <2> QED BY <2>1, <1>0
<1> QED BY <1>5

\* A place that changed has a last change.
LEMMA LastChangeExists ==
    ASSUME NEW C, NEW changes \in Seq(C), NEW k, Changed(changes, k)
    PROVE  LastChange(changes, k) \in DOMAIN changes /\ changes[LastChange(changes, k)].at = k
<1> DEFINE S == {i \in DOMAIN changes : changes[i].at = k}
<1>1. Len(changes) \in Nat /\ DOMAIN changes = 1 .. Len(changes)
  BY LenProperties
<1>2. S \in SUBSET (1 .. Len(changes)) /\ S # {}
  BY <1>1 DEF Changed
<1>3. PICK m \in S : \A i \in S : i <= m
  <2> HIDE DEF S
  <2> QED BY <1>1, <1>2, LargestExists
<1>4. \E i \in DOMAIN changes :
        changes[i].at = k /\ \A j \in DOMAIN changes : changes[j].at = k => j <= i
  BY <1>3
<1> QED
  BY <1>4 DEF LastChange

\* Reverting and reapplying noted changes gives registers, or cells, again.
LEMMA RevertedType ==
    ASSUME NEW K, NEW f \in [K -> Word],
           NEW changes \in Seq([at : K, old_value : Word, new_value : Word])
    PROVE  Reverted(f, changes) \in [K -> Word] /\ Reapplied(f, changes) \in [K -> Word]
<1> DEFINE C == [at : K, old_value : Word, new_value : Word]
<1>1. ASSUME NEW k \in K, Changed(changes, k)
      PROVE  /\ changes[LastChange(changes, k)].old_value \in Word
             /\ changes[LastChange(changes, k)].new_value \in Word
  <2>1. LastChange(changes, k) \in DOMAIN changes
    BY <1>1, LastChangeExists
  <2>2. changes[LastChange(changes, k)] \in C
    BY <2>1, ElementOfSeq, LenProperties
  <2> HIDE DEF Word
  <2> QED BY <2>2
<1> QED
  BY <1>1 DEF Reverted, Reapplied

-----------------------------------------------------------------------------
(* Every action keeps the invariant. *)

LEMMA DebuggerInit == Init => DebuggerInv
<1> SUFFICES ASSUME Init PROVE DebuggerInv
  OBVIOUS
<1>1. PICK p \in Program : /\ memory = LoadData(p, ZeroMemory)
                           /\ text = LoadText(p, ZeroText)
                           /\ program_size_ = p.size
                           /\ breakpoints_ = {p.size}
  BY DEF Init
<1>2. /\ memory \in [Word -> Word] /\ text \in [TextAddr -> Instruction]
      /\ program_size_ \in 0 .. TextSize
  BY <1>1, ZeroTypes, LoadTypes
<1>3. MachineTypeOK
  BY <1>2, ZeroTypes DEF Init, MachineTypeOK
<1>4. undo_stack_ = << >> /\ redo_stack_ = << >> /\ current_delta_ \in StepDelta
  BY NoDeltaType DEF Init
<1>5. instruction_executed \in 0 .. (ExecutionLimit + 1)
  BY DebuggerAssumption DEF Init
<1>6. breakpoints_ \subseteq 0 .. TextSize
  BY <1>1, <1>2
<1>7. /\ instructions_retired_ = 0 /\ stop_requested_ = FALSE
      /\ run_phase = "idle" /\ output_status_ = "VM_PROGRAM_LOADED"
  BY DEF Init
<1>8. TypeOK
  BY <1>2, <1>3, <1>4, <1>5, <1>6, <1>7, EmptySeq DEF TypeOK
<1>9. RetiredCoversUndo
  BY <1>4, <1>7, EmptySeq DEF RetiredCoversUndo
<1> QED BY <1>7, <1>8, <1>9 DEF DebuggerInv, LimitSeen

\* What a step does, typed a step or by the debug run.
LEMMA StepSingleType ==
    ASSUME DebuggerInv, StepSingle
    PROVE  /\ MachineTypeOK'
           /\ undo_stack_' \in Seq(StepDelta) /\ redo_stack_' \in Seq(StepDelta)
           /\ current_delta_' \in StepDelta
           /\ instructions_retired_' \in Nat
           /\ instructions_retired_' >= Len(undo_stack_')
           /\ output_status_' \in {"VM_STEP_COMPLETED", "VM_LAST_INSTRUCTION_STEPPED"}
<1>1. MachineTypeOK'
  BY ExecuteInstructionType DEF StepSingle, DebuggerInv, TypeOK
<1>2. program_counter \in Int /\ program_counter' \in Int
  BY <1>1 DEF MachineTypeOK, DebuggerInv, TypeOK
<1> DEFINE delta == DeltaAfter(current_delta_)
           pushed == [delta EXCEPT !.old_pc = program_counter, !.new_pc = program_counter']
<1>3. delta \in StepDelta
  BY DeltaAfterType DEF DebuggerInv, TypeOK
<1>4. pushed \in StepDelta
  <2> HIDE DEF delta
  <2> QED BY <1>2, <1>3 DEF StepDelta
<1>5. undo_stack_' = Append(undo_stack_, pushed)
  BY DEF StepSingle
<1> HIDE DEF pushed
<1>6. undo_stack_ \in Seq(StepDelta) /\ instructions_retired_ \in Nat
      /\ instructions_retired_ >= Len(undo_stack_)
  BY DEF DebuggerInv, TypeOK, RetiredCoversUndo
<1>7. /\ undo_stack_' \in Seq(StepDelta)
      /\ Len(undo_stack_') = Len(undo_stack_) + 1
  BY <1>4, <1>5, <1>6, AppendProperties
<1>8. instructions_retired_' = instructions_retired_ + 1
  BY DEF StepSingle
<1>9. Len(undo_stack_) \in Nat
  BY <1>6, LenProperties
<1>10. redo_stack_' \in Seq(StepDelta) /\ current_delta_' \in StepDelta
  BY NoDeltaType, EmptySeq DEF StepSingle
<1>11. output_status_' \in {"VM_STEP_COMPLETED", "VM_LAST_INSTRUCTION_STEPPED"}
  BY DEF StepSingle, StatusAfterStep
<1> QED BY <1>1, <1>6, <1>7, <1>8, <1>9, <1>10, <1>11

\* The two stacks exchange their tops.
LEMMA PoppedType ==
    ASSUME NEW S, NEW stack \in Seq(S), stack # << >>
    PROVE  /\ Last(stack) \in S /\ Popped(stack) \in Seq(S)
           /\ Len(stack) \in Nat \ {0} /\ Len(Popped(stack)) = Len(stack) - 1
           /\ \A i \in 1 .. (Len(stack) - 1) : Popped(stack)[i] = stack[i]
<1>1. Len(stack) \in Nat \ {0}
  BY EmptySeq
<1>2. \A i \in 1 .. Len(stack) : stack[i] \in S
  BY ElementOfSeq
<1>3. \A i \in 1 .. (Len(stack) - 1) : stack[i] \in S
  BY <1>1, <1>2
<1>4. /\ SubSeq(stack, 1, Len(stack) - 1) \in Seq(S)
      /\ Len(SubSeq(stack, 1, Len(stack) - 1)) = Len(stack) - 1
      /\ \A i \in 1 .. (Len(stack) - 1) : SubSeq(stack, 1, Len(stack) - 1)[i] = stack[i]
  <2> DEFINE m == Len(stack) - 1
  <2>1. m \in Int /\ m >= 0 /\ m - 1 + 1 = m
    BY <1>1
  <2>2. /\ SubSeq(stack, 1, m) \in Seq(S)
        /\ Len(SubSeq(stack, 1, m)) = IF 1 <= m THEN m - 1 + 1 ELSE 0
        /\ \A i \in 1 .. (m - 1 + 1) : SubSeq(stack, 1, m)[i] = stack[1 + i - 1]
    <3> HIDE DEF m
    <3> QED BY <2>1, <1>3, SubSeqProperties DEF m
  <2> HIDE DEF m
  <2> QED BY <2>1, <2>2 DEF m
<1> QED BY <1>1, <1>2, <1>4 DEF Last, Popped

LEMMA UndoType ==
    ASSUME DebuggerInv, Undo
    PROVE  DebuggerInv'
<1> DEFINE last == Last(undo_stack_)
<1>1. undo_stack_ # << >> /\ undo_stack_ \in Seq(StepDelta) /\ redo_stack_ \in Seq(StepDelta)
  BY DEF Undo, DebuggerInv, TypeOK
<1>2. /\ last \in StepDelta /\ Popped(undo_stack_) \in Seq(StepDelta)
      /\ Len(undo_stack_) \in Nat \ {0} /\ Len(Popped(undo_stack_)) = Len(undo_stack_) - 1
  BY <1>1, PoppedType
<1>3. /\ last.old_pc \in Int
      /\ last.register_changes \in Seq(RegisterChange)
      /\ last.memory_changes \in Seq(MemoryChange)
  <2> HIDE DEF last
  <2> QED BY <1>2 DEF StepDelta
<1> HIDE DEF last
<1>4. MachineTypeOK'
  <2>1. gpr' \in [Reg -> Word]
    BY <1>3, RevertedType DEF Undo, DebuggerInv, TypeOK, MachineTypeOK, RegisterChange, last
  <2>2. memory' \in [Word -> Word]
    BY <1>3, RevertedType DEF Undo, DebuggerInv, TypeOK, MachineTypeOK, MemoryChange, last
  <2>3. program_counter' \in Int /\ text' \in [TextAddr -> Instruction]
    BY <1>3 DEF Undo, DebuggerInv, TypeOK, MachineTypeOK, last
  <2> QED BY <2>1, <2>2, <2>3 DEF MachineTypeOK
<1>5. undo_stack_' = Popped(undo_stack_) /\ redo_stack_' = Append(redo_stack_, last)
  BY DEF Undo, last
<1>6. undo_stack_' \in Seq(StepDelta) /\ redo_stack_' \in Seq(StepDelta)
  BY <1>1, <1>2, <1>5, AppendProperties
<1>7. /\ instructions_retired_ \in Nat /\ instructions_retired_ >= Len(undo_stack_)
      /\ instructions_retired_' = instructions_retired_ - 1
  BY DEF Undo, DebuggerInv, TypeOK, RetiredCoversUndo
<1>8. instructions_retired_' \in Nat /\ instructions_retired_' >= Len(undo_stack_')
  BY <1>2, <1>5, <1>7
<1> QED
  BY <1>4, <1>6, <1>8 DEF Undo, DebuggerInv, TypeOK, RetiredCoversUndo, LimitSeen, runVars

LEMMA RedoType ==
    ASSUME DebuggerInv, Redo
    PROVE  DebuggerInv'
<1> DEFINE next == Last(redo_stack_)
<1>1. redo_stack_ # << >> /\ undo_stack_ \in Seq(StepDelta) /\ redo_stack_ \in Seq(StepDelta)
  BY DEF Redo, DebuggerInv, TypeOK
<1>2. next \in StepDelta /\ Popped(redo_stack_) \in Seq(StepDelta)
  BY <1>1, PoppedType
<1>3. /\ next.new_pc \in Int
      /\ next.register_changes \in Seq(RegisterChange)
      /\ next.memory_changes \in Seq(MemoryChange)
  <2> HIDE DEF next
  <2> QED BY <1>2 DEF StepDelta
<1> HIDE DEF next
<1>4. MachineTypeOK'
  <2>1. gpr' \in [Reg -> Word]
    BY <1>3, RevertedType DEF Redo, DebuggerInv, TypeOK, MachineTypeOK, RegisterChange, next
  <2>2. memory' \in [Word -> Word]
    BY <1>3, RevertedType DEF Redo, DebuggerInv, TypeOK, MachineTypeOK, MemoryChange, next
  <2>3. program_counter' \in Int /\ text' \in [TextAddr -> Instruction]
    BY <1>3 DEF Redo, DebuggerInv, TypeOK, MachineTypeOK, next
  <2> QED BY <2>1, <2>2, <2>3 DEF MachineTypeOK
<1>5. redo_stack_' = Popped(redo_stack_) /\ undo_stack_' = Append(undo_stack_, next)
  BY DEF Redo, next
<1>6. /\ undo_stack_' \in Seq(StepDelta) /\ redo_stack_' \in Seq(StepDelta)
      /\ Len(undo_stack_') = Len(undo_stack_) + 1 /\ Len(undo_stack_) \in Nat
  BY <1>1, <1>2, <1>5, AppendProperties, LenProperties
<1>7. /\ instructions_retired_ \in Nat /\ instructions_retired_ >= Len(undo_stack_)
      /\ instructions_retired_' = instructions_retired_ + 1
  BY DEF Redo, DebuggerInv, TypeOK, RetiredCoversUndo
<1>8. instructions_retired_' \in Nat /\ instructions_retired_' >= Len(undo_stack_')
  BY <1>6, <1>7
<1> QED
  BY <1>4, <1>6, <1>8 DEF Redo, DebuggerInv, TypeOK, RetiredCoversUndo, LimitSeen, runVars

LEMMA MachineKept == MachineTypeOK /\ UNCHANGED machineVars => MachineTypeOK'
BY DEF MachineTypeOK, machineVars

\* The commands that only look, and those that start and end the loops.
LEMMA QuietType ==
    ASSUME DebuggerInv, Bystander \/ StartRun \/ EnterRunStep \/ EndRun
    PROVE  DebuggerInv'
<1>1. CASE StepAtEnd \/ DebugStepAtEnd
  <2>1. NothingToStep
    BY <1>1 DEF StepAtEnd, DebugStepAtEnd
  <2>2. current_delta_' \in StepDelta
    BY <2>1 DEF NothingToStep, DebuggerInv, TypeOK, MachineTypeOK, StepDelta
  <2>3. /\ run_phase' \in {"idle", "debug", "debug_step", "run", "run_step"}
        /\ instruction_executed' \in 0 .. (ExecutionLimit + 1)
        /\ LimitSeen'
    BY <1>1, DebuggerAssumption
    DEF StepAtEnd, DebugStepAtEnd, GoRound, DebuggerInv, TypeOK, LimitSeen, runVars
  <2>4. MachineTypeOK'
    BY <2>1, MachineKept DEF NothingToStep, DebuggerInv, TypeOK
  <2> QED
    BY <2>1, <2>2, <2>3, <2>4 DEF NothingToStep, DebuggerInv, TypeOK, RetiredCoversUndo
<1>2. CASE UndoNothing
  BY <1>2, MachineKept DEF UndoNothing, DebuggerInv, TypeOK, RetiredCoversUndo, LimitSeen, runVars, stacks
<1>3. CASE StartDebugRun \/ StartRun
  <2>1. PICK phase \in {"debug", "run"} : StartLoop(phase)
    BY <1>3 DEF StartDebugRun, StartRun
  <2>2. instruction_executed' \in 0 .. (ExecutionLimit + 1)
    BY <2>1, DebuggerAssumption DEF StartLoop
  <2>3. run_phase' \in {"debug", "run"} /\ stop_requested_' \in BOOLEAN
    BY <2>1 DEF StartLoop
  <2> QED
    BY <2>1, <2>2, <2>3, MachineKept
    DEF StartLoop, DebuggerInv, TypeOK, RetiredCoversUndo, LimitSeen, stacks
<1>4. CASE BreakpointHit \/ EndDebugRun \/ EndRun
  BY <1>4, MachineKept
  DEF BreakpointHit, EndDebugRun, EndRun, EndLoop, StatusAtEnd, DebuggerInv, TypeOK,
      RetiredCoversUndo, LimitSeen, stacks
<1>8. CASE EnterDebugStep \/ EnterRunStep
  BY <1>8, MachineKept
  DEF EnterDebugStep, EnterRunStep, Enter, LoopGuard, DebuggerInv, TypeOK, RetiredCoversUndo,
      LimitSeen, stacks
<1>5. CASE Stop
  BY <1>5, MachineKept DEF Stop, DebuggerInv, TypeOK, RetiredCoversUndo, LimitSeen, runVars, stacks
<1>6. CASE AddBreakpoint
  BY <1>6, MachineKept, TextAssumption
  DEF AddBreakpoint, DebuggerInv, TypeOK, RetiredCoversUndo, LimitSeen, runVars, stacks
<1>7. CASE RemoveBreakpoint
  BY <1>7, MachineKept DEF RemoveBreakpoint, DebuggerInv, TypeOK, RetiredCoversUndo, LimitSeen, runVars, stacks
<1> QED
  BY <1>1, <1>2, <1>3, <1>4, <1>5, <1>6, <1>7, <1>8 DEF Bystander

LEMMA DebuggerNext == DebuggerInv /\ [Next]_vars => DebuggerInv'
<1> SUFFICES ASSUME DebuggerInv, [Next]_vars PROVE DebuggerInv'
  OBVIOUS
<1>1. CASE StepCommand
  BY <1>1, StepSingleType DEF StepCommand, DebuggerInv, TypeOK, RetiredCoversUndo, LimitSeen, runVars
<1>2. CASE DebugStep
  <2>1. instruction_executed' \in 0 .. (ExecutionLimit + 1) /\ run_phase' = "debug"
    BY <1>2, DebuggerAssumption DEF DebugStep, GoRound, DebuggerInv, TypeOK, LimitSeen
  <2>2. StepSingle
    BY <1>2 DEF DebugStep
  <2> QED
    BY <1>2, <2>1, <2>2, StepSingleType
    DEF DebugStep, DebuggerInv, TypeOK, RetiredCoversUndo, LimitSeen
<1>3. CASE Undo
  BY <1>3, UndoType
<1>4. CASE Redo
  BY <1>4, RedoType
<1>5. CASE Reset
  <2>1. MachineTypeOK'
    BY <1>5, ResetMachineType DEF Reset, DebuggerInv, TypeOK
  <2>2. undo_stack_' = << >> /\ redo_stack_' = << >> /\ current_delta_' \in StepDelta
    BY <1>5, NoDeltaType DEF Reset
  <2>3. instructions_retired_' \in Nat /\ instructions_retired_' >= Len(undo_stack_')
    BY <1>5, EmptySeq DEF Reset
  <2> QED
    BY <1>5, <2>1, <2>2, <2>3, EmptySeq DEF Reset, DebuggerInv, TypeOK, RetiredCoversUndo, LimitSeen, runVars
<1>6. CASE Bystander \/ StartRun \/ EnterRunStep \/ EndRun
  BY <1>6, QuietType
<1>7. CASE RunStep
  <2>1. MachineTypeOK'
    BY <1>7, ExecuteInstructionType DEF RunStep, DebuggerInv, TypeOK
  <2>2. current_delta_' \in StepDelta
    BY <1>7, DeltaAfterType DEF RunStep, DebuggerInv, TypeOK
  <2>3. instruction_executed' \in 0 .. (ExecutionLimit + 1) /\ run_phase' = "run"
    BY <1>7, DebuggerAssumption DEF RunStep, GoRound, DebuggerInv, TypeOK, LimitSeen
  <2>4. instructions_retired_' \in Nat /\ instructions_retired_' >= Len(undo_stack_')
    <3>1. Len(undo_stack_) \in Nat
      BY LenProperties DEF DebuggerInv, TypeOK
    <3> QED BY <1>7, <3>1 DEF RunStep, DebuggerInv, TypeOK, RetiredCoversUndo
  <2> QED
    BY <1>7, <2>1, <2>2, <2>3, <2>4 DEF RunStep, DebuggerInv, TypeOK, RetiredCoversUndo, LimitSeen
<1>8. CASE LoadProgram
  <2>1. PICK p \in Program : /\ text' = LoadText(p, text)
                             /\ memory' = LoadData(p, memory)
                             /\ program_size_' = p.size
                             /\ breakpoints_' = breakpoints_ \cup {p.size}
    BY <1>8 DEF LoadProgram
  <2>2. /\ text' \in [TextAddr -> Instruction] /\ memory' \in [Word -> Word]
        /\ program_size_' \in 0 .. TextSize
    BY <2>1, LoadTypes DEF DebuggerInv, TypeOK, MachineTypeOK
  <2>3. MachineTypeOK'
    BY <1>8, <2>2 DEF LoadProgram, DebuggerInv, TypeOK, MachineTypeOK
  <2>4. breakpoints_' \subseteq 0 .. TextSize
    BY <2>1, <2>2 DEF DebuggerInv, TypeOK
  <2> QED
    BY <1>8, <2>2, <2>3, <2>4
    DEF LoadProgram, DebuggerInv, TypeOK, RetiredCoversUndo, LimitSeen, stacks, runVars
<1>9. CASE UNCHANGED vars
  BY <1>9, MachineKept DEF vars, stacks, runVars, DebuggerInv, TypeOK, RetiredCoversUndo, LimitSeen
<1> QED
  BY <1>1, <1>2, <1>3, <1>4, <1>5, <1>6, <1>7, <1>8, <1>9 DEF Next, NextStepping, RunLoop

\* Registers, memory, deltas and stacks stay well formed under every sequence of
\* debugger commands.
THEOREM DebuggerTypeCorrect == Spec => []TypeOK
BY DebuggerInit, DebuggerNext, PTL DEF Spec, DebuggerInv

\* No undo ever takes the unsigned counter below zero, for any program, any
\* limit and any mixture of steps, runs, undos, redos, resets and loads.
THEOREM RetiredAlwaysCoversUndo == Spec => []RetiredCoversUndo
BY DebuggerInit, DebuggerNext, PTL DEF Spec, DebuggerInv

-----------------------------------------------------------------------------
(* The timeline. *)

State == [program_counter : Int, gpr : [Reg -> Word], memory : [Word -> Word]]

\* The delta leads from one state to the other and back.
Joins(delta, before, after) ==
    /\ delta.old_pc = before.program_counter
    /\ delta.new_pc = after.program_counter
    /\ Reverted(after.gpr, delta.register_changes) = before.gpr
    /\ Reapplied(before.gpr, delta.register_changes) = after.gpr
    /\ Reverted(after.memory, delta.memory_changes) = before.memory
    /\ Reapplied(before.memory, delta.memory_changes) = after.memory

NothingNoted(delta) == delta.register_changes = << >> /\ delta.memory_changes = << >>

\* The state above the i-th one of a stack.
Above(stack, i) == IF i = Len(stack) THEN Present ELSE stack[i + 1]

\* What makes undo and redo right: each delta on a stack joins the two states
\* of the timeline it lies between, and no change waits in current_delta_.
TimelineInv ==
    /\ DebuggerInv
    /\ NothingNoted(current_delta_)
    /\ past \in Seq(State) /\ future \in Seq(State)
    /\ Len(past) = Len(undo_stack_) /\ Len(future) = Len(redo_stack_)
    /\ \A i \in 1 .. Len(past) : Joins(undo_stack_[i], past[i], Above(past, i))
    /\ \A i \in 1 .. Len(future) : Joins(redo_stack_[i], Above(future, i), future[i])

-----------------------------------------------------------------------------
(* One recorded change reverts and reapplies one assignment. *)

\* An assignment to at most one place, noted on an empty list, is undone and
\* redone by the list.
LEMMA NotedJoins ==
    ASSUME NEW K, NEW f \in [K -> Word], NEW g \in [K -> Word], NEW at \in K,
           \A k \in K : k # at => f[k] = g[k]
    PROVE  /\ Reverted(g, Noted(<< >>, at, f[at], g[at])) = f
           /\ Reapplied(f, Noted(<< >>, at, f[at], g[at])) = g
<1> HIDE DEF Word
<1> DEFINE change == [at |-> at, old_value |-> f[at], new_value |-> g[at]]
<1>1. CASE f[at] = g[at]
  <2>1. f = g
    BY <1>1
  <2>2. Noted(<< >>, at, f[at], g[at]) = << >>
    BY <1>1 DEF Noted
  <2>3. \A k \in K : ~Changed(<< >>, k)
    BY DEF Changed
  <2> QED
    BY <2>1, <2>2, <2>3 DEF Reverted, Reapplied
<1>2. CASE f[at] # g[at]
  <2>1. Noted(<< >>, at, f[at], g[at]) = <<change>>
    BY <1>2 DEF Noted
  <2>2. \A k \in K : Changed(<<change>>, k) <=> k = at
    BY DEF Changed
  <2>3. LastChange(<<change>>, at) = 1
    <3>1. /\ DOMAIN <<change>> = {1} /\ <<change>>[1].at = at
      OBVIOUS
    <3> HIDE DEF change
    <3>2. \A i \in DOMAIN <<change>> : i <= 1
      BY <3>1
    <3> QED
      BY <3>1, <3>2 DEF LastChange
  <2>4. <<change>>[1].old_value = f[at] /\ <<change>>[1].new_value = g[at]
    OBVIOUS
  <2> HIDE DEF change
  <2>5. Reverted(g, <<change>>) = f
    BY <2>2, <2>3, <2>4 DEF Reverted
  <2>6. Reapplied(f, <<change>>) = g
    BY <2>2, <2>3, <2>4 DEF Reapplied
  <2> QED BY <2>1, <2>5, <2>6
<1> QED BY <1>1, <1>2


\* An instruction changes at most its destination register and, if it stores,
\* the cell it addresses.
LEMMA OneChange ==
    ASSUME NEW inst \in Instruction, NEW pc \in Int,
           NEW regs \in [Reg -> Word], NEW mem \in [Word -> Word]
    PROVE  /\ \A r \in Reg : r # inst.rd => regs[r] = GprAfter(inst, pc, regs, mem)[r]
           /\ \A a \in Word : a # ExecutionResult(inst, regs) =>
                                   mem[a] = MemoryAfter(inst, regs, mem)[a]
           /\ ~SetControlSignals(inst).mem_write => MemoryAfter(inst, regs, mem) = mem
<1> HIDE DEF Word
<1>1. \A r \in Reg : r # inst.rd => regs[r] = GprAfter(inst, pc, regs, mem)[r]
  BY DEF GprAfter, WriteGpr
<1>2. \A a \in Word : a # ExecutionResult(inst, regs) => mem[a] = MemoryAfter(inst, regs, mem)[a]
  BY DEF MemoryAfter, WriteDoubleWord
<1>3. ~SetControlSignals(inst).mem_write => MemoryAfter(inst, regs, mem) = mem
  BY DEF MemoryAfter
<1> QED BY <1>1, <1>2, <1>3

LEMMA NothingToDo ==
    ASSUME NEW K, NEW f \in [K -> Word]
    PROVE  Reverted(f, << >>) = f /\ Reapplied(f, << >>) = f
<1> HIDE DEF Word
<1>1. \A k : ~Changed(<< >>, k)
  BY DEF Changed
<1> QED BY <1>1 DEF Reverted, Reapplied

PushedDelta ==
    [DeltaAfter(current_delta_) EXCEPT !.old_pc = program_counter, !.new_pc = program_counter']

\* The delta a step pushes joins the state the step starts from to the one it
\* leads to.
LEMMA StepJoins ==
    ASSUME MachineTypeOK, MachineTypeOK', current_delta_ \in StepDelta,
           NothingNoted(current_delta_), ExecuteInstruction
    PROVE  Joins(PushedDelta, Present, Present')
<1> DEFINE inst == ReadInstruction(text, program_counter)
           address == ExecutionResult(inst, gpr)
           registers == Noted(<< >>, inst.rd, gpr[inst.rd], gpr'[inst.rd])
           cells == IF SetControlSignals(inst).mem_write
                    THEN Noted(<< >>, address, memory[address], memory'[address]) ELSE << >>
<1>1. /\ inst \in Instruction /\ inst.rd \in Reg /\ address \in Word
  <2>1. inst \in Instruction
    BY ReadInstructionType DEF MachineTypeOK
  <2>2. inst.rd \in Reg
    BY <2>1 DEF Instruction
  <2>3. address \in Word
    BY <2>1, ExecutionResultType DEF MachineTypeOK
  <2> QED BY <2>1, <2>2, <2>3
<1>2. /\ gpr \in [Reg -> Word] /\ gpr' \in [Reg -> Word]
      /\ memory \in [Word -> Word] /\ memory' \in [Word -> Word] /\ program_counter \in Int
  BY DEF MachineTypeOK
<1>3. /\ gpr' = GprAfter(inst, program_counter, gpr, memory)
      /\ memory' = MemoryAfter(inst, gpr, memory)
  BY DEF ExecuteInstruction
<1> HIDE DEF inst, address
<1>4. Reverted(gpr', registers) = gpr /\ Reapplied(gpr, registers) = gpr'
  <2>1. \A r \in Reg : r # inst.rd => gpr[r] = gpr'[r]
    BY <1>1, <1>2, <1>3, OneChange
  <2> HIDE DEF Word
  <2> QED BY <1>1, <1>2, <2>1, NotedJoins
<1>5. Reverted(memory', cells) = memory /\ Reapplied(memory, cells) = memory'
  <2>1. \A a \in Word : a # address => memory[a] = memory'[a]
    BY <1>1, <1>2, <1>3, OneChange DEF address
  <2>2. CASE SetControlSignals(inst).mem_write
    <3> HIDE DEF Word
    <3> QED BY <1>1, <1>2, <2>1, <2>2, NotedJoins
  <2>3. CASE ~SetControlSignals(inst).mem_write
    <3>1. memory' = memory
      BY <1>1, <1>2, <1>3, <2>3, OneChange
    <3> HIDE DEF Word
    <3> QED BY <1>2, <2>3, <3>1, NothingToDo
  <2> QED BY <2>2, <2>3
<1>6. DeltaAfter(current_delta_) =
         [current_delta_ EXCEPT !.register_changes = registers, !.memory_changes = cells]
  BY <1>3 DEF DeltaAfter, NothingNoted, StepDelta, inst, address
<1> HIDE DEF registers, cells
<1>7. /\ PushedDelta.old_pc = program_counter /\ PushedDelta.new_pc = program_counter'
      /\ PushedDelta.register_changes = registers /\ PushedDelta.memory_changes = cells
  BY <1>6 DEF PushedDelta, StepDelta
<1> QED
  BY <1>4, <1>5, <1>7 DEF Joins, Present

-----------------------------------------------------------------------------
(* The stacks and the timeline move together. *)

LEMMA PresentType == MachineTypeOK => Present \in State
BY DEF MachineTypeOK, Present, State

\* A state pushed on a stack of states.
LEMMA PushedStates ==
    ASSUME NEW S, NEW stack \in Seq(S), NEW s \in S
    PROVE  /\ Append(stack, s) \in Seq(S) /\ Len(stack) \in Nat
           /\ Len(Append(stack, s)) = Len(stack) + 1
           /\ \A i \in 1 .. Len(stack) : Append(stack, s)[i] = stack[i]
           /\ Append(stack, s)[Len(stack) + 1] = s
BY AppendProperties, LenProperties

\* A step extends the timeline.
LEMMA StepAhead ==
    ASSUME TimelineInv, DebuggerInv', StepSingle, Remember
    PROVE  TimelineInv' /\ Ahead
<1>1. MachineTypeOK /\ MachineTypeOK' /\ current_delta_ \in StepDelta /\ undo_stack_ \in Seq(StepDelta)
  BY DEF TimelineInv, DebuggerInv, TypeOK
<1>2. ExecuteInstruction /\ redo_stack_' = << >> /\ current_delta_' = NoDelta
  BY DEF StepSingle
<1>3. undo_stack_' = Append(undo_stack_, PushedDelta)
  BY DEF StepSingle, PushedDelta
<1>4. Joins(PushedDelta, Present, Present')
  BY <1>1, <1>2, StepJoins DEF TimelineInv
<1>5. PushedDelta \in StepDelta
  <2>1. DeltaAfter(current_delta_) \in StepDelta
    BY <1>1, DeltaAfterType
  <2>2. program_counter \in Int /\ program_counter' \in Int
    BY <1>1 DEF MachineTypeOK
  <2> QED BY <2>1, <2>2 DEF PushedDelta, StepDelta
<1>6. /\ past \in Seq(State) /\ Present \in State /\ Len(past) = Len(undo_stack_)
  BY <1>1, PresentType DEF TimelineInv
<1>7. past' = Append(past, Present) /\ future' = << >>
  BY DEF Remember
<1> DEFINE n == Len(past)
<1>8. /\ n \in Nat /\ Len(past') = n + 1 /\ Len(undo_stack_') = n + 1 /\ past' \in Seq(State)
      /\ \A i \in 1 .. n : past'[i] = past[i] /\ undo_stack_'[i] = undo_stack_[i]
      /\ past'[n + 1] = Present /\ undo_stack_'[n + 1] = PushedDelta
  BY <1>1, <1>3, <1>5, <1>6, <1>7, PushedStates
<1>9. ASSUME NEW i \in 1 .. Len(past')
      PROVE  Joins(undo_stack_'[i], past'[i], Above(past, i)')
  <2>1. CASE i = n + 1
    BY <1>4, <1>8, <2>1 DEF Above
  <2>2. CASE i \in 1 .. n
    <3>1. Joins(undo_stack_[i], past[i], Above(past, i))
      BY <2>2 DEF TimelineInv
    <3>2. Above(past, i)' = Above(past, i)
      <4>1. CASE i = n
        BY <1>8, <4>1 DEF Above
      <4>2. CASE i # n
        <5>1. i + 1 \in 1 .. n /\ i # n + 1
          BY <1>8, <2>2, <4>2
        <5> QED BY <1>8, <4>2, <5>1 DEF Above
      <4> QED BY <4>1, <4>2
    <3> QED BY <1>8, <2>2, <3>1, <3>2
  <2> QED BY <1>8, <2>1, <2>2
<1>10. future' \in Seq(State) /\ Len(future') = 0 /\ Len(redo_stack_') = 0
  BY <1>2, <1>7, EmptySeq
<1>11. NothingNoted(current_delta_)'
  BY <1>2 DEF NothingNoted, NoDelta
<1>12. TimelineInv'
  BY <1>8, <1>9, <1>10, <1>11 DEF TimelineInv
<1> QED BY <1>2, <1>7, <1>12 DEF Ahead

\* Undo goes back to the state the step started from.
LEMMA UndoBack ==
    ASSUME TimelineInv, DebuggerInv', Undo, GoBack
    PROVE  TimelineInv' /\ Back
<1> DEFINE n == Len(past)
           m == Len(future)
           delta == Last(undo_stack_)
<1>1. /\ MachineTypeOK /\ undo_stack_ \in Seq(StepDelta) /\ redo_stack_ \in Seq(StepDelta)
      /\ past \in Seq(State) /\ future \in Seq(State)
      /\ n = Len(undo_stack_) /\ m = Len(redo_stack_)
  BY DEF TimelineInv, DebuggerInv, TypeOK
<1>2. undo_stack_ # << >> /\ undo_stack_' = Popped(undo_stack_) /\ redo_stack_' = Append(redo_stack_, delta)
  BY DEF Undo
<1>3. /\ n \in Nat \ {0} /\ Len(undo_stack_') = n - 1 /\ delta \in StepDelta
      /\ delta = undo_stack_[n]
      /\ \A i \in 1 .. (n - 1) : undo_stack_'[i] = undo_stack_[i]
  BY <1>1, <1>2, PoppedType DEF Last
<1>4. past # << >> /\ past' = Rest(past) /\ future' = Append(future, Present)
  <2>1. past # << >>
    BY <1>1, <1>3, EmptySeq
  <2> QED BY <2>1 DEF GoBack
<1>5. /\ past' \in Seq(State) /\ Len(past') = n - 1
      /\ Top(past) = past[n] /\ past[n] \in State
      /\ \A i \in 1 .. (n - 1) : past'[i] = past[i]
  BY <1>1, <1>4, PoppedType DEF Top, Rest, Last, Popped
<1>6. Present \in State
  BY <1>1, PresentType
<1>7. /\ future' \in Seq(State) /\ m \in Nat /\ Len(future') = m + 1 /\ Len(redo_stack_') = m + 1
      /\ \A i \in 1 .. m : future'[i] = future[i] /\ redo_stack_'[i] = redo_stack_[i]
      /\ future'[m + 1] = Present /\ redo_stack_'[m + 1] = delta
  BY <1>1, <1>2, <1>3, <1>4, <1>6, PushedStates
<1>8. Joins(delta, past[n], Present)
  <2>1. n \in 1 .. Len(past) /\ Above(past, n) = Present
    BY <1>3 DEF Above
  <2> QED BY <1>3, <2>1 DEF TimelineInv
<1>9. Become(past[n])
  BY <1>8 DEF Undo, Become, Joins, Present
<1>10. Present' = past[n]
  BY <1>5, <1>9 DEF Become, Present, State
<1> HIDE DEF delta
<1>11. ASSUME NEW i \in 1 .. Len(past')
       PROVE  Joins(undo_stack_'[i], past'[i], Above(past, i)')
  <2>1. i \in 1 .. (n - 1) /\ i \in 1 .. Len(past)
    BY <1>3, <1>5
  <2>2. Joins(undo_stack_[i], past[i], Above(past, i)) /\ Above(past, i) = past[i + 1]
    BY <1>3, <2>1 DEF TimelineInv, Above
  <2>3. Above(past, i)' = past[i + 1]
    <3>1. CASE i = n - 1
      BY <1>3, <1>5, <1>10, <3>1 DEF Above
    <3>2. CASE i # n - 1
      <4>1. i + 1 \in 1 .. (n - 1)
        BY <1>3, <2>1, <3>2
      <4> QED BY <1>5, <3>2, <4>1 DEF Above
    <3> QED BY <3>1, <3>2
  <2> QED BY <1>3, <1>5, <2>1, <2>2, <2>3
<1>12. ASSUME NEW i \in 1 .. Len(future')
       PROVE  Joins(redo_stack_'[i], Above(future, i)', future'[i])
  <2>1. CASE i = m + 1
    BY <1>7, <1>8, <1>10, <2>1 DEF Above
  <2>2. CASE i \in 1 .. m
    <3>1. Joins(redo_stack_[i], Above(future, i), future[i])
      BY <2>2 DEF TimelineInv
    <3>2. Above(future, i)' = Above(future, i)
      <4>1. CASE i = m
        BY <1>7, <4>1 DEF Above
      <4>2. CASE i # m
        <5>1. i + 1 \in 1 .. m /\ i # m + 1
          BY <1>7, <2>2, <4>2
        <5> QED BY <1>7, <4>2, <5>1 DEF Above
      <4> QED BY <4>1, <4>2
    <3> QED BY <1>7, <2>2, <3>1, <3>2
  <2> QED BY <1>7, <2>1, <2>2
<1>13. NothingNoted(current_delta_)'
  BY DEF Undo, TimelineInv, NothingNoted
<1>14. TimelineInv'
  BY <1>3, <1>5, <1>7, <1>11, <1>12, <1>13 DEF TimelineInv
<1> QED
  BY <1>4, <1>5, <1>9, <1>14 DEF Back

\* Redo goes forward to the state that was undone.
LEMMA RedoAgain ==
    ASSUME TimelineInv, DebuggerInv', Redo, GoForward
    PROVE  TimelineInv' /\ Again
<1> DEFINE n == Len(future)
           m == Len(past)
           delta == Last(redo_stack_)
<1>1. /\ MachineTypeOK /\ undo_stack_ \in Seq(StepDelta) /\ redo_stack_ \in Seq(StepDelta)
      /\ past \in Seq(State) /\ future \in Seq(State)
      /\ n = Len(redo_stack_) /\ m = Len(undo_stack_)
  BY DEF TimelineInv, DebuggerInv, TypeOK
<1>2. redo_stack_ # << >> /\ redo_stack_' = Popped(redo_stack_) /\ undo_stack_' = Append(undo_stack_, delta)
  BY DEF Redo
<1>3. /\ n \in Nat \ {0} /\ Len(redo_stack_') = n - 1 /\ delta \in StepDelta
      /\ delta = redo_stack_[n]
      /\ \A i \in 1 .. (n - 1) : redo_stack_'[i] = redo_stack_[i]
  BY <1>1, <1>2, PoppedType DEF Last
<1>4. future # << >> /\ future' = Rest(future) /\ past' = Append(past, Present)
  <2>1. future # << >>
    BY <1>1, <1>3, EmptySeq
  <2> QED BY <2>1 DEF GoForward
<1>5. /\ future' \in Seq(State) /\ Len(future') = n - 1
      /\ Top(future) = future[n] /\ future[n] \in State
      /\ \A i \in 1 .. (n - 1) : future'[i] = future[i]
  BY <1>1, <1>4, PoppedType DEF Top, Rest, Last, Popped
<1>6. Present \in State
  BY <1>1, PresentType
<1>7. /\ past' \in Seq(State) /\ m \in Nat /\ Len(past') = m + 1 /\ Len(undo_stack_') = m + 1
      /\ \A i \in 1 .. m : past'[i] = past[i] /\ undo_stack_'[i] = undo_stack_[i]
      /\ past'[m + 1] = Present /\ undo_stack_'[m + 1] = delta
  BY <1>1, <1>2, <1>3, <1>4, <1>6, PushedStates
<1>8. Joins(delta, Present, future[n])
  <2>1. n \in 1 .. Len(future) /\ Above(future, n) = Present
    BY <1>3 DEF Above
  <2> QED BY <1>3, <2>1 DEF TimelineInv
<1>9. Become(future[n])
  BY <1>8 DEF Redo, Become, Joins, Present
<1>10. Present' = future[n]
  BY <1>5, <1>9 DEF Become, Present, State
<1> HIDE DEF delta
<1>11. ASSUME NEW i \in 1 .. Len(future')
       PROVE  Joins(redo_stack_'[i], Above(future, i)', future'[i])
  <2>1. i \in 1 .. (n - 1) /\ i \in 1 .. Len(future)
    BY <1>3, <1>5
  <2>2. Joins(redo_stack_[i], Above(future, i), future[i]) /\ Above(future, i) = future[i + 1]
    BY <1>3, <2>1 DEF TimelineInv, Above
  <2>3. Above(future, i)' = future[i + 1]
    <3>1. CASE i = n - 1
      BY <1>3, <1>5, <1>10, <3>1 DEF Above
    <3>2. CASE i # n - 1
      <4>1. i + 1 \in 1 .. (n - 1)
        BY <1>3, <2>1, <3>2
      <4> QED BY <1>5, <3>2, <4>1 DEF Above
    <3> QED BY <3>1, <3>2
  <2> QED BY <1>3, <1>5, <2>1, <2>2, <2>3
<1>12. ASSUME NEW i \in 1 .. Len(past')
       PROVE  Joins(undo_stack_'[i], past'[i], Above(past, i)')
  <2>1. CASE i = m + 1
    BY <1>7, <1>8, <1>10, <2>1 DEF Above
  <2>2. CASE i \in 1 .. m
    <3>1. Joins(undo_stack_[i], past[i], Above(past, i))
      BY <2>2 DEF TimelineInv
    <3>2. Above(past, i)' = Above(past, i)
      <4>1. CASE i = m
        BY <1>7, <4>1 DEF Above
      <4>2. CASE i # m
        <5>1. i + 1 \in 1 .. m /\ i # m + 1
          BY <1>7, <2>2, <4>2
        <5> QED BY <1>7, <4>2, <5>1 DEF Above
      <4> QED BY <4>1, <4>2
    <3> QED BY <1>7, <2>2, <3>1, <3>2
  <2> QED BY <1>7, <2>1, <2>2
<1>13. NothingNoted(current_delta_)'
  BY DEF Redo, TimelineInv, NothingNoted
<1>14. TimelineInv'
  BY <1>3, <1>5, <1>7, <1>11, <1>12, <1>13 DEF TimelineInv
<1> QED
  BY <1>4, <1>5, <1>9, <1>14 DEF Again

-----------------------------------------------------------------------------
\* What a bystander leaves alone is all that the timeline is about.
LEMMA BystanderKeeps ==
    ASSUME TimelineInv, DebuggerInv', UNCHANGED <<past, future>>,
           Bystander \/ UNCHANGED vars
    PROVE  TimelineInv' /\ UNCHANGED timelineVars
<1>1. UNCHANGED <<machineVars, undo_stack_, redo_stack_>>
  BY DEF Bystander, StepAtEnd, DebugStepAtEnd, NothingToStep, UndoNothing, StartDebugRun,
         StartLoop, EnterDebugStep, Enter, BreakpointHit, EndDebugRun, EndLoop, Stop,
         AddBreakpoint, RemoveBreakpoint, stacks, vars
<1>2. NothingNoted(current_delta_)'
  <2>1. CASE StepAtEnd \/ DebugStepAtEnd
    BY <2>1
    DEF StepAtEnd, DebugStepAtEnd, NothingToStep, TimelineInv, DebuggerInv, TypeOK,
        NothingNoted, StepDelta
  <2>2. CASE UNCHANGED current_delta_
    BY <2>2 DEF TimelineInv, NothingNoted
  <2> QED
    BY <2>1, <2>2
    DEF Bystander, UndoNothing, StartDebugRun, StartLoop, EnterDebugStep, Enter,
        BreakpointHit, EndDebugRun, EndLoop, Stop, AddBreakpoint, RemoveBreakpoint, stacks, vars
<1>3. Present' = Present
  BY <1>1 DEF Present, machineVars
<1>4. TimelineInv'
  BY <1>1, <1>2, <1>3 DEF TimelineInv, Above
<1> QED BY <1>1, <1>4 DEF timelineVars

LEMMA SteppingInit == HistoryInit => TimelineInv /\ TimelineInit
<1> SUFFICES ASSUME HistoryInit PROVE TimelineInv /\ TimelineInit
  OBVIOUS
<1>1. Init /\ past = << >> /\ future = << >>
  BY DEF HistoryInit
<1>2. undo_stack_ = << >> /\ redo_stack_ = << >> /\ NothingNoted(current_delta_)
  BY <1>1 DEF Init, NothingNoted, NoDelta
<1>3. TimelineInv
  BY <1>1, <1>2, DebuggerInit, EmptySeq DEF TimelineInv
<1>4. TimelineInit
  BY <1>1 DEF Init, TimelineInit, MachineInit
<1> QED BY <1>3, <1>4

LEMMA SteppingStep ==
    TimelineInv /\ [SteppingNext]_historyVars => TimelineInv' /\ [TimelineNext]_timelineVars
<1> SUFFICES ASSUME TimelineInv, [SteppingNext]_historyVars
             PROVE  TimelineInv' /\ [TimelineNext]_timelineVars
  OBVIOUS
<1>1. DebuggerInv'
  <2>1. [Next]_vars
    BY DEF SteppingNext, historyVars, Next, NextStepping
  <2> QED BY <2>1, DebuggerNext DEF TimelineInv
<1>2. CASE (StepCommand \/ DebugStep) /\ Remember
  BY <1>1, <1>2, StepAhead DEF StepCommand, DebugStep, TimelineNext
<1>3. CASE Undo /\ GoBack
  BY <1>1, <1>3, UndoBack DEF TimelineNext
<1>4. CASE Redo /\ GoForward
  BY <1>1, <1>4, RedoAgain DEF TimelineNext
<1>5. CASE Reset /\ Forget
  <2>1. /\ ResetMachine /\ past' = << >> /\ future' = << >>
        /\ undo_stack_' = << >> /\ redo_stack_' = << >> /\ current_delta_' = NoDelta
    BY <1>5 DEF Reset, Forget
  <2>2. TimelineInv'
    BY <1>1, <2>1, EmptySeq DEF TimelineInv, NothingNoted, NoDelta
  <2> QED BY <2>1, <2>2 DEF TimelineNext, StartAfresh
<1>6. CASE Bystander /\ UNCHANGED <<past, future>>
  BY <1>1, <1>6, BystanderKeeps
<1>7. CASE UNCHANGED historyVars
  BY <1>1, <1>7, BystanderKeeps DEF historyVars
<1> QED
  BY <1>2, <1>3, <1>4, <1>5, <1>6, <1>7 DEF SteppingNext

\* Stepping with undo and redo through one loaded program moves along a line of
\* states, whatever the program and however steps, undos, redos, debug runs,
\* breakpoints, stops and resets are mixed.
THEOREM SteppingImplementsTimeline == SteppingSpec => ImplementsTimeline
BY SteppingInit, SteppingStep, PTL DEF SteppingSpec, ImplementsTimeline, TimelineSpec
===============================================================================
