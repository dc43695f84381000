----------------------------- MODULE SystemProofs -----------------------------
(***************************************************************************)
(* Theorems about system calls, CSR instructions and floating point in the *)
(* pipeline, for every straight-line program, register set and word size.  *)
(***************************************************************************)
EXTENDS SystemPipelineProperties, SequenceTheorems, TLAPS

USE DEF Word, ToWord

LEMMA ControlSignals ==
    ASSUME NEW i
    PROVE  /\ SetControlSignals(i) \in Signals
           /\ SetControlSignals(i).alu_src <=>
                 i.opcode \in {"LOAD", "STORE", "OPIMM", "LUI", "AUIPC", "JALR"}
           /\ SetControlSignals(i).mem_to_reg <=> i.opcode = "LOAD"
           /\ SetControlSignals(i).reg_write <=>
                 i.opcode \in {"OP", "LOAD", "OPIMM", "LUI", "AUIPC", "JAL", "JALR"}
           /\ SetControlSignals(i).mem_read <=> i.opcode = "LOAD"
           /\ SetControlSignals(i).mem_write <=> i.opcode = "STORE"
<1>1. SetControlSignals(i) \in Signals
  BY DEF SetControlSignals, Signals
<1> QED
  BY <1>1, Zenon DEF SetControlSignals

\* The signals of straight-line code, opcode by opcode.
LEMMA SignalFacts ==
    ASSUME NEW inst \in SystemInstruction
    PROVE  /\ SystemSignals(inst) \in Signals
           /\ SystemSignals(inst).reg_write <=>
                 inst.opcode \in {"OP", "OPIMM", "LOAD", "FLOAD", "FP"}
           /\ SystemSignals(inst).mem_read <=> inst.opcode \in {"LOAD", "FLOAD"}
           /\ SystemSignals(inst).mem_to_reg <=> inst.opcode \in {"LOAD", "FLOAD"}
           /\ SystemSignals(inst).mem_write <=> inst.opcode \in {"STORE", "FSTORE"}
           /\ SystemSignals(inst).alu_src <=>
                 inst.opcode \in {"OPIMM", "LOAD", "STORE", "FLOAD", "FSTORE"}
<1> DEFINE as == IF inst.opcode = "FLOAD" THEN [inst EXCEPT !.opcode = "LOAD"]
                 ELSE IF inst.opcode = "FSTORE" THEN [inst EXCEPT !.opcode = "STORE"]
                 ELSE IF inst.opcode = "FP" THEN [inst EXCEPT !.opcode = "OP"]
                 ELSE inst
<1>1. inst.opcode \in {"OP", "OPIMM", "OP32", "OPIMM32", "LOAD", "STORE",
                       "FLOAD", "FSTORE", "FP", "SYSTEM", "NONE"}
  BY DEF SystemInstruction
<1>2. as.opcode = IF inst.opcode = "FLOAD" THEN "LOAD"
                  ELSE IF inst.opcode = "FSTORE" THEN "STORE"
                  ELSE IF inst.opcode = "FP" THEN "OP" ELSE inst.opcode
  BY DEF SystemInstruction
<1>3. SystemSignals(inst) = SetControlSignals(as)
  BY DEF SystemSignals
<1> HIDE DEF as
<1> QED
  BY <1>1, <1>2, <1>3, ControlSignals

LEMMA ZeroInstType == ZeroInst \in SystemInstruction
BY RegAssumption DEF ZeroInst, SystemInstruction, Funct, FloatFunct, SystemFunct

LEMMA CodeAtType ==
    ASSUME code \in Seq(SystemInstruction), NEW address \in Nat
    PROVE  CodeAt(address) \in SystemInstruction
<1>1. CASE address < Len(code)
  <2>1. address + 1 \in 1 .. Len(code)
    BY <1>1
  <2> QED BY <1>1, <2>1, ElementOfSeq DEF CodeAt
<1>2. CASE ~(address < Len(code))
  BY <1>2, ZeroInstType DEF CodeAt
<1> QED BY <1>1, <1>2

-----------------------------------------------------------------------------
(* Types of what the program can see. *)

LEMMA WriteRegisterType ==
    ASSUME NEW s \in State, NEW file, NEW r \in Reg, NEW value \in Word
    PROVE  WriteRegister(s, file, r, value) \in State
BY DEF WriteRegister, WriteGpr, State

LEMMA ReadRegisterType ==
    ASSUME NEW s \in State, NEW file, NEW r \in Reg
    PROVE  ReadRegister(s, file, r) \in Word
BY DEF ReadRegister, State

LEMMA ComputedType ==
    ASSUME NEW inst \in SystemInstruction, NEW a \in Word, NEW b \in Word
    PROVE  Computed(inst, a, b) \in Word
<1>1. /\ \A op : \A c \in Word : AluExecute(op, a, c) \in Word
      /\ ToWord(inst.imm) \in Word
  BY WordAssumption DEF AluExecute, SystemInstruction
<1>2. AluExecute(GetAluSignal(inst), a,
                 IF SystemSignals(inst).alu_src THEN ToWord(inst.imm) ELSE b) \in Word
  BY <1>1
<1>3. ToWord(a + b) \in Word /\ 0 \in Word /\ 1 \in Word
  BY WordAssumption
<1> QED
  BY <1>2, <1>3 DEF Computed

LEMMA BufferType ==
    ASSUME NEW s \in State
    PROVE  Buffer(s) \in Seq(Word)
<1>1. A1 \in Reg /\ A2 \in Reg
  BY SystemAssumption
<1>2. s.gpr[A1] \in Int /\ s.gpr[A2] \in Nat
  BY <1>1, WordAssumption DEF State
<1>3. \A i \in 1 .. s.gpr[A2] : s.memory[ToWord(s.gpr[A1] + i - 1)] \in Word
  <2> TAKE i \in 1 .. s.gpr[A2]
  <2>1. ToWord(s.gpr[A1] + i - 1) \in Word
    BY <1>2, WordAssumption
  <2> QED BY <2>1 DEF State
<1>4. Buffer(s) \in [1 .. s.gpr[A2] -> Word]
  BY <1>3 DEF Buffer
<1> QED
  BY <1>2, <1>4, SeqDef

LEMMA HandleSyscallType ==
    ASSUME NEW s \in State
    PROVE  HandleSyscall(s) \in State
<1>1. A0 \in Reg /\ A2 \in Reg
  BY SystemAssumption
<1>2. s.gpr[A0] \in Word /\ s.gpr[A2] \in Word /\ s.output \in Seq(Word)
  BY <1>1 DEF State
<1>3. Append(s.output, s.gpr[A0]) \in Seq(Word) /\ s.output \o Buffer(s) \in Seq(Word)
  BY <1>2, BufferType, AppendProperties, ConcatProperties
<1>4. [s.gpr EXCEPT ![A0] = s.gpr[A2]] \in [Reg -> Word]
  BY <1>1, <1>2 DEF State
<1> QED
  BY <1>3, <1>4 DEF HandleSyscall, State

LEMMA SystemEffectType ==
    ASSUME NEW s \in State, NEW d, d.rs1_data \in Word
    PROVE  SystemEffect(d, s) \in State
<1>1. CsrValue(d.inst, s.csr, d.rs1_data) \in Word
  BY BitOrAssumption DEF CsrValue, State
<1>2. [s EXCEPT !.csr = CsrValue(d.inst, s.csr, d.rs1_data)] \in State
  BY <1>1 DEF State
<1> QED
  BY <1>2, HandleSyscallType DEF SystemEffect

-----------------------------------------------------------------------------
(* The latches and what the stages put into them. *)

FetchLatch == [valid : BOOLEAN, inst : SystemInstruction]

SystemIdEx == [valid : BOOLEAN, inst : SystemInstruction, rd : Reg, signals : Signals,
               rs1_data : Word, rs2_data : Word,
               forward_A : ForwardSource, forward_B : ForwardSource]

SystemExMem == [valid : BOOLEAN, inst : SystemInstruction, rd : Reg, signals : Signals,
                alu_ans : Word, data : Word]

SystemMemWb == [valid : BOOLEAN, inst : SystemInstruction, rd : Reg, signals : Signals,
                alu_ans : Word, mem_data : Word]

LEMMA BubbleTypes ==
    /\ FetchBubble \in FetchLatch /\ EmptyDecode \in SystemIdEx
    /\ ExMemBubble \in SystemExMem /\ MemWbBubble \in SystemMemWb
<1>1. 0 \in Reg /\ 0 \in Word /\ NoSignals \in Signals
  BY RegAssumption, WordAssumption DEF NoSignals, Signals
<1> QED
  BY <1>1, ZeroInstType DEF FetchBubble, FetchLatch, EmptyDecode, SystemIdEx, ForwardSource,
     ExMemBubble, SystemExMem, MemWbBubble, SystemMemWb

LEMMA WriteBackType ==
    ASSUME NEW w \in SystemMemWb, NEW s \in State
    PROVE  WriteBack(w, s) \in State
BY WriteRegisterType DEF WriteBack, SystemMemWb

LEMMA StoreType ==
    ASSUME NEW x \in SystemExMem, NEW s \in State
    PROVE  Store(x, s) \in State
BY DEF Store, WriteDoubleWord, SystemExMem, State

LEMMA MemoryLatchType ==
    ASSUME NEW x \in SystemExMem, NEW s \in State
    PROVE  MemoryLatch(x, s) \in SystemMemWb
<1>1. s.memory \in [Word -> Word] /\ x.alu_ans \in Word
  BY DEF SystemExMem, State
<1>2. s.memory[x.alu_ans] \in Word /\ 0 \in Word
  BY <1>1, WordAssumption
<1> QED
  BY <1>2, BubbleTypes DEF MemoryLatch, SystemExMem, SystemMemWb

LEMMA OperandTypes ==
    ASSUME NEW d \in SystemIdEx, NEW x \in SystemExMem, NEW w \in SystemMemWb
    PROVE  FirstOperand(d, x, w) \in Word /\ SecondOperand(d, x, w) \in Word
BY DEF FirstOperand, SecondOperand, Forwarded, SystemIdEx, SystemExMem, SystemMemWb

LEMMA ExecuteLatchType ==
    ASSUME NEW d \in SystemIdEx, NEW x \in SystemExMem, NEW w \in SystemMemWb
    PROVE  ExecuteLatch(d, x, w) \in SystemExMem
<1>1. Computed(d.inst, FirstOperand(d, x, w), SecondOperand(d, x, w)) \in Word
  BY OperandTypes, ComputedType DEF SystemIdEx
<1> QED
  BY <1>1, OperandTypes, BubbleTypes DEF ExecuteLatch, SystemIdEx, SystemExMem

LEMMA DecodeLatchType ==
    ASSUME NEW inst \in SystemInstruction, NEW s \in State
    PROVE  DecodeLatch(inst, s) \in SystemIdEx
<1>1. /\ inst.rs1 \in Reg /\ inst.rs2 \in Reg /\ inst.rd \in Reg
      /\ SystemSignals(inst) \in Signals
  BY SignalFacts DEF SystemInstruction
<1>2. \A used, r : Forward(pipeline_mode, used, r, id_ex, ex_mem) \in ForwardSource
  BY DEF Forward, ForwardSource
<1> QED
  BY <1>1, <1>2, ReadRegisterType DEF DecodeLatch, SystemIdEx

-----------------------------------------------------------------------------
(* The inductive invariant: the latches are well typed, and decode and the
   two stages after it hold consecutive instructions of the program.  A stall
   leaves a gap in ID/EX, and in the forwarding modes only one. *)

LatchTypes ==
    /\ code \in Seq(SystemInstruction)
    /\ pipeline_mode \in {StallMode, ForwardingMode}
    /\ if_id \in FetchLatch /\ id_ex \in SystemIdEx
    /\ ex_mem \in SystemExMem /\ mem_wb \in SystemMemWb

LatchesFollowCode ==
    /\ ~if_id.valid => pc = 0 /\ ~id_ex.valid /\ ~ex_mem.valid
    /\ if_id.valid => pc >= 1 /\ if_id.inst = CodeAt(pc - 1)
    /\ id_ex.valid => pc >= 2 /\ id_ex.inst = CodeAt(pc - 2)
    /\ ex_mem.valid /\ id_ex.valid => pc >= 3 /\ ex_mem.inst = CodeAt(pc - 3)
    /\ ex_mem.valid /\ ~id_ex.valid => pc >= 2 /\ ex_mem.inst = CodeAt(pc - 2)
    /\ pipeline_mode >= ForwardingMode => id_ex.valid \/ ex_mem.valid \/ pc <= 1

SystemInv == TypeOK /\ LatchTypes /\ LatchesFollowCode

LEMMA InitInv == Init => SystemInv
<1> SUFFICES ASSUME Init PROVE SystemInv
  OBVIOUS
<1>1. code \in Seq(SystemInstruction) /\ Len(code) \in Nat
  BY CodeAssumption, LenProperties DEF Init
<1>2. LatchTypes
  BY <1>1, BubbleTypes DEF Init, LatchTypes
<1>3. LatchesFollowCode
  BY DEF Init, LatchesFollowCode, FetchBubble, EmptyDecode, ExMemBubble, StallMode, ForwardingMode
<1>4. TypeOK
  <2>1. state \in State /\ pc \in 0 .. (Len(code) + 4)
    BY <1>1, InitialAssumption DEF Init
  <2>2. ~if_id.valid /\ ~id_ex.valid /\ ~ex_mem.valid /\ ~mem_wb.valid
    BY DEF Init, FetchBubble, EmptyDecode, ExMemBubble, MemWbBubble
  <2> QED
    BY <1>2, <2>1, <2>2 DEF TypeOK, LatchTypes, SystemIdEx, SystemExMem, SystemMemWb
<1> QED BY <1>2, <1>3, <1>4 DEF SystemInv

\* A tick keeps the state and the latches well typed.
LEMMA TickTypes ==
    ASSUME SystemInv, Clocktick
    PROVE  LatchTypes' /\ state' \in State
<1>1. state \in State /\ pc \in Nat
  BY LenProperties DEF SystemInv, TypeOK, LatchTypes
<1>2. state' \in State
  BY <1>1, WriteBackType, StoreType, SystemEffectType
  DEF Clocktick, AfterExecute, SystemInv, LatchTypes, SystemIdEx
<1>3. mem_wb' \in SystemMemWb /\ ex_mem' \in SystemExMem
  BY <1>1, MemoryLatchType, ExecuteLatchType DEF Clocktick, SystemInv, LatchTypes
<1>4. id_ex' \in SystemIdEx
  <2>1. if_id.inst \in SystemInstruction
    BY DEF SystemInv, LatchTypes, FetchLatch
  <2>2. id_ex' = EmptyDecode \/ id_ex' = DecodeLatch(if_id.inst, state')
    BY DEF Clocktick
  <2> QED BY <1>2, <2>1, <2>2, BubbleTypes, DecodeLatchType
<1>5. if_id' \in FetchLatch
  <2>1. CodeAt(pc) \in SystemInstruction
    BY <1>1, CodeAtType DEF SystemInv, LatchTypes
  <2>2. CASE Stall
    BY <2>2 DEF Clocktick, SystemInv, LatchTypes
  <2>3. CASE ~Stall
    <3>1. if_id' = [valid |-> TRUE, inst |-> CodeAt(pc)]
      BY <2>3 DEF Clocktick
    <3> QED BY <2>1, <3>1 DEF FetchLatch
  <2> QED BY <2>2, <2>3
<1>6. UNCHANGED <<code, pipeline_mode>>
  BY DEF Clocktick
<1> QED
  BY <1>2, <1>3, <1>4, <1>5, <1>6 DEF SystemInv, LatchTypes

\* What a latch says of its instruction moves with it.
LEMMA MovesAlong ==
    ASSUME NEW d \in SystemIdEx, NEW x \in SystemExMem, NEW w, NEW s
    PROVE  /\ ExecuteLatch(d, x, w).valid <=> d.valid /\ d.inst.opcode # "SYSTEM"
           /\ ExecuteLatch(d, x, w).valid =>
                 /\ ExecuteLatch(d, x, w).inst = d.inst
                 /\ ExecuteLatch(d, x, w).rd = d.rd
                 /\ ExecuteLatch(d, x, w).signals = d.signals
           /\ MemoryLatch(x, s).valid <=> x.valid
           /\ x.valid => /\ MemoryLatch(x, s).inst = x.inst
                         /\ MemoryLatch(x, s).rd = x.rd
                         /\ MemoryLatch(x, s).signals = x.signals
<1>1. CASE d.valid /\ d.inst.opcode # "SYSTEM"
  BY <1>1 DEF ExecuteLatch, MemoryLatch, MemWbBubble
<1>2. CASE ~(d.valid /\ d.inst.opcode # "SYSTEM")
  BY <1>2 DEF ExecuteLatch, ExMemBubble, MemoryLatch, MemWbBubble
<1> QED BY <1>1, <1>2

\* A stall in the forwarding modes waits for a load, which moves on.
LEMMA StallBehindLoad ==
    ASSUME SystemInv, Stall, pipeline_mode >= ForwardingMode
    PROVE  id_ex.valid /\ id_ex.inst.opcode # "SYSTEM"
<1>1. id_ex.valid /\ id_ex.signals.mem_read
  BY DEF Stall, WillLoad, StallMode, ForwardingMode
<1>2. id_ex.signals = SystemSignals(id_ex.inst) /\ id_ex.inst \in SystemInstruction
  BY <1>1 DEF SystemInv, TypeOK, LatchTypes, SystemIdEx
<1> QED BY <1>1, <1>2, SignalFacts

LEMMA TickFollows ==
    ASSUME SystemInv, Clocktick
    PROVE  LatchesFollowCode'
<1>1. /\ UNCHANGED <<code, pipeline_mode>> /\ pc \in Nat
      /\ \A a : CodeAt(a)' = CodeAt(a)
  BY LenProperties DEF Clocktick, SystemInv, TypeOK, LatchTypes, CodeAt
<1>2. /\ ex_mem'.valid <=> id_ex.valid /\ id_ex.inst.opcode # "SYSTEM"
      /\ ex_mem'.valid => ex_mem'.inst = id_ex.inst
  BY MovesAlong DEF Clocktick, SystemInv, LatchTypes
<1>3. CASE Stall
  <2>1. if_id.valid
    BY <1>3 DEF Stall, WillWrite, WillLoad, SystemInv, LatchesFollowCode
  <2>2. ~id_ex'.valid /\ if_id' = if_id /\ pc' = pc
    BY <1>3 DEF Clocktick, EmptyDecode
  <2>3. pipeline_mode >= ForwardingMode => ex_mem'.valid
    BY <1>2, <1>3, StallBehindLoad
  <2> QED
    BY <1>1, <1>2, <2>1, <2>2, <2>3 DEF SystemInv, LatchesFollowCode
<1>4. CASE ~Stall
  <2>1. if_id'.valid /\ if_id'.inst = CodeAt(pc) /\ pc' = pc + 1
    BY <1>4 DEF Clocktick
  <2>2. id_ex'.valid <=> if_id.valid
    BY <1>4 DEF Clocktick, EmptyDecode, DecodeLatch
  <2>3. if_id.valid => id_ex'.inst = if_id.inst
    BY <1>4 DEF Clocktick, DecodeLatch
  <2> QED
    BY <1>1, <1>2, <2>1, <2>2, <2>3 DEF SystemInv, LatchesFollowCode
<1> QED BY <1>3, <1>4

LEMMA TickTypeOK ==
    ASSUME SystemInv, ~Drained, Clocktick
    PROVE  TypeOK'
<1>1. /\ UNCHANGED code /\ Len(code) \in Nat /\ pc \in 0 .. (Len(code) + 3)
      /\ pc' \in {pc, pc + 1}
  BY LenProperties DEF Clocktick, Drained, SystemInv, TypeOK, LatchTypes
<1>2. pc' \in 0 .. (Len(code') + 4)
  BY <1>1
<1>3. LatchTypes' /\ state' \in State
  BY TickTypes
<1>4. if_id'.valid => if_id'.inst = CodeAt(pc - 1)'
  BY TickFollows DEF LatchesFollowCode
<1>5. id_ex'.valid => id_ex'.signals = SystemSignals(id_ex'.inst) /\ id_ex'.rd = id_ex'.inst.rd
  BY DEF Clocktick, EmptyDecode, DecodeLatch
<1>6. ex_mem'.valid => ex_mem'.signals = SystemSignals(ex_mem'.inst) /\ ex_mem'.rd = ex_mem'.inst.rd
  BY MovesAlong DEF Clocktick, SystemInv, TypeOK, LatchTypes
<1>7. mem_wb'.valid => mem_wb'.signals = SystemSignals(mem_wb'.inst) /\ mem_wb'.rd = mem_wb'.inst.rd
  BY MovesAlong DEF Clocktick, SystemInv, TypeOK, LatchTypes
<1> QED
  BY <1>2, <1>3, <1>4, <1>5, <1>6, <1>7
  DEF TypeOK, LatchTypes, SystemIdEx, SystemExMem, SystemMemWb

LEMMA NextInv == SystemInv /\ [Next]_vars => SystemInv'
<1>1. ASSUME SystemInv, Next PROVE SystemInv'
  BY <1>1, TickTypes, TickTypeOK, TickFollows DEF Next, SystemInv
<1>2. ASSUME SystemInv, UNCHANGED vars PROVE SystemInv'
  BY <1>2 DEF vars, latches, SystemInv, TypeOK, LatchTypes, LatchesFollowCode, CodeAt
<1> QED BY <1>1, <1>2

\* The latches hold well-typed instructions of the program, each with the signals
\* of its opcode, and the registers, the CSR, the memory and the output words
\* (pipeline_fetch to pipeline_writeback).
THEOREM SystemTypeCorrect == Spec => []TypeOK
<1>1. SystemInv => TypeOK
  BY DEF SystemInv
<1> QED BY <1>1, InitInv, NextInv, PTL DEF Spec

-----------------------------------------------------------------------------
(* Running in order.  Older(x, w, s) is the state once the instructions of
   EX/MEM and MEM/WB have finished, and Finish lets the one of ID/EX finish on
   top of it: AbstractState is both. *)

Older(x, w, s) == WriteBack(MemoryLatch(x, s), Store(x, WriteBack(w, s)))

Finish(d, x, w, older) ==
    LET executed == ExecuteLatch(d, x, w)
        called == SystemEffect(d, older)
    IN  WriteBack(MemoryLatch(executed, called), Store(executed, called))

LEMMA AbstractIsFinish ==
    AbstractState = Finish(id_ex, ex_mem, mem_wb, Older(ex_mem, mem_wb, state))
BY DEF AbstractState, Finish, Older

\* The latch is about to write register r of the file.
Hits(l, file, r) ==
    /\ l.valid /\ l.signals.reg_write
    /\ DestinationFile(l.inst) = file /\ l.rd = r
    /\ file = "gpr" => r # 0

WrittenValue(w) == IF w.signals.mem_to_reg THEN w.mem_data ELSE w.alu_ans

LEMMA DestinationFiles ==
    ASSUME NEW inst
    PROVE  DestinationFile(inst) \in {"gpr", "fpr"}
BY DEF DestinationFile

LEMMA WriteRegisterFields ==
    ASSUME NEW s \in State, NEW file \in {"gpr", "fpr"}, NEW r \in Reg, NEW value \in Word
    PROVE  /\ WriteRegister(s, file, r, value).memory = s.memory
           /\ WriteRegister(s, file, r, value).csr = s.csr
           /\ WriteRegister(s, file, r, value).output = s.output
           /\ \A f \in {"gpr", "fpr"} : \A q \in Reg :
                 ReadRegister(WriteRegister(s, file, r, value), f, q) =
                    IF f = file /\ q = r /\ (f = "gpr" => q # 0)
                    THEN value ELSE ReadRegister(s, f, q)
BY DEF WriteRegister, WriteGpr, ReadRegister, State

\* What a register holds after a write-back.
LEMMA ReadWriteBack ==
    ASSUME NEW w \in SystemMemWb, NEW s \in State,
           NEW f \in {"gpr", "fpr"}, NEW r \in Reg
    PROVE  ReadRegister(WriteBack(w, s), f, r) =
              IF Hits(w, f, r) THEN WrittenValue(w) ELSE ReadRegister(s, f, r)
<1>1. w.rd \in Reg /\ WrittenValue(w) \in Word
  BY DEF SystemMemWb, WrittenValue
<1>2. CASE w.valid /\ w.signals.reg_write
  <2>1. WriteBack(w, s) = WriteRegister(s, DestinationFile(w.inst), w.rd, WrittenValue(w))
    BY <1>2 DEF WriteBack, WrittenValue
  <2> QED
    BY <1>1, <1>2, <2>1, WriteRegisterFields, DestinationFiles DEF Hits
<1>3. CASE ~(w.valid /\ w.signals.reg_write)
  BY <1>3 DEF WriteBack, Hits
<1> QED BY <1>2, <1>3

LEMMA WriteBackMemory ==
    ASSUME NEW w \in SystemMemWb, NEW s \in State
    PROVE  WriteBack(w, s).memory = s.memory
<1>1. w.rd \in Reg /\ w.mem_data \in Word /\ w.alu_ans \in Word
  BY DEF SystemMemWb
<1> QED
  BY <1>1, WriteRegisterFields, DestinationFiles DEF WriteBack

LEMMA ReadStore ==
    ASSUME NEW x, NEW s \in State, NEW f, NEW r
    PROVE  ReadRegister(Store(x, s), f, r) = ReadRegister(s, f, r)
BY DEF Store, ReadRegister, State

\* A register once the two older instructions have finished: the younger one
\* counts.
LEMMA ReadOlder ==
    ASSUME NEW x \in SystemExMem, NEW w \in SystemMemWb, NEW s \in State,
           NEW f \in {"gpr", "fpr"}, NEW r \in Reg
    PROVE  ReadRegister(Older(x, w, s), f, r) =
              IF Hits(MemoryLatch(x, s), f, r) THEN WrittenValue(MemoryLatch(x, s))
              ELSE IF Hits(w, f, r) THEN WrittenValue(w) ELSE ReadRegister(s, f, r)
<1>1. WriteBack(w, s) \in State /\ MemoryLatch(x, s) \in SystemMemWb
  BY WriteBackType, MemoryLatchType
<1>2. Store(x, WriteBack(w, s)) \in State
  BY <1>1, StoreType
<1> QED
  BY <1>1, <1>2, ReadWriteBack, ReadStore DEF Older

-----------------------------------------------------------------------------
(* A system call acts before the instruction in front of it has written its
   register.  Nothing tells the difference if that is none of the call's. *)

LEMMA CallCommutes ==
    ASSUME NEW s \in State, NEW file \in {"gpr", "fpr"}, NEW r \in Reg, NEW value \in Word,
           file = "gpr" => r = 0 \/ r \notin {A0, A1, A2, A7}
    PROVE  WriteRegister(HandleSyscall(s), file, r, value) =
              HandleSyscall(WriteRegister(s, file, r, value))
<1> DEFINE t == WriteRegister(s, file, r, value)
<1>1. {A0, A1, A2, A7} \subseteq Reg \ {0}
  BY SystemAssumption
<1>2. /\ t.memory = s.memory /\ t.output = s.output
      /\ \A a \in {A0, A1, A2, A7} : t.gpr[a] = s.gpr[a]
  BY <1>1 DEF WriteRegister, WriteGpr, State
<1>3. Buffer(t) = Buffer(s)
  BY <1>2 DEF Buffer
<1>4. CASE s.gpr[A7] = SYSCALL_PRINT_INT
  <2>1. HandleSyscall(s) = [s EXCEPT !.output = Append(s.output, s.gpr[A0])]
    BY <1>4, SystemAssumption DEF HandleSyscall, State
  <2>2. HandleSyscall(t) = [t EXCEPT !.output = Append(s.output, s.gpr[A0])]
    BY <1>2, <1>4, SystemAssumption, WriteRegisterType DEF HandleSyscall, State
  <2> QED BY <2>1, <2>2 DEF WriteRegister, WriteGpr, State
<1>5. CASE s.gpr[A7] = SYSCALL_WRITE /\ s.gpr[A0] = 1
  <2>1. HandleSyscall(s) =
           [s EXCEPT !.output = s.output \o Buffer(s), !.gpr[A0] = s.gpr[A2]]
    BY <1>5, SystemAssumption DEF HandleSyscall, State
  <2>2. HandleSyscall(t) =
           [t EXCEPT !.output = s.output \o Buffer(s), !.gpr[A0] = s.gpr[A2]]
    BY <1>2, <1>3, <1>5, SystemAssumption, WriteRegisterType DEF HandleSyscall, State
  <2> DEFINE out == s.output \o Buffer(s)
             size == s.gpr[A2]
  <2>3. A0 \in Reg /\ (file = "gpr" => r = 0 \/ r # A0)
    BY <1>1
  <2>4. WriteRegister(HandleSyscall(s), file, r, value) = HandleSyscall(t)
    <3> HIDE DEF out, size
    <3>1. CASE file = "fpr"
      BY <2>1, <2>2, <3>1 DEF WriteRegister, State, out, size
    <3>2. CASE file = "gpr" /\ r = 0
      BY <2>1, <2>2, <3>2 DEF WriteRegister, WriteGpr, State, out, size
    <3>3. CASE file = "gpr" /\ r # 0
      <4>1. [[s.gpr EXCEPT ![A0] = size] EXCEPT ![r] = value] =
            [[s.gpr EXCEPT ![r] = value] EXCEPT ![A0] = size]
        BY <2>3, <3>3 DEF State
      <4> QED BY <2>1, <2>2, <3>3, <4>1 DEF WriteRegister, WriteGpr, State, out, size
    <3> QED BY <3>1, <3>2, <3>3
  <2> QED BY <2>4
<1>6. CASE /\ s.gpr[A7] # SYSCALL_PRINT_INT
           /\ ~(s.gpr[A7] = SYSCALL_WRITE /\ s.gpr[A0] = 1)
  BY <1>2, <1>6 DEF HandleSyscall
<1> QED BY <1>4, <1>5, <1>6

LEMMA EffectCommutes ==
    ASSUME NEW d \in SystemIdEx, NEW w \in SystemMemWb, NEW s \in State,
           d.valid /\ IsEcall(d.inst) => \A r \in {A0, A1, A2, A7} : ~Hits(w, "gpr", r)
    PROVE  WriteBack(w, SystemEffect(d, s)) = SystemEffect(d, WriteBack(w, s))
<1> DEFINE file == DestinationFile(w.inst)
           value == WrittenValue(w)
<1>1. w.rd \in Reg /\ value \in Word /\ file \in {"gpr", "fpr"}
  BY DestinationFiles DEF SystemMemWb, WrittenValue
<1>2. CASE w.valid /\ w.signals.reg_write
  <2>1. \A q : WriteBack(w, q) = WriteRegister(q, file, w.rd, value)
    BY <1>2 DEF WriteBack, WrittenValue
  <2> HIDE DEF file, value
  <2>2. CASE d.valid /\ IsEcall(d.inst)
    <3>1. file = "gpr" => w.rd = 0 \/ w.rd \notin {A0, A1, A2, A7}
      BY <1>2, <2>2 DEF Hits, file
    <3>2. WriteRegister(HandleSyscall(s), file, w.rd, value) =
             HandleSyscall(WriteRegister(s, file, w.rd, value))
      BY <1>1, <3>1, CallCommutes
    <3>3. \A q : SystemEffect(d, q) = HandleSyscall(q)
      BY <2>2 DEF SystemEffect
    <3>4. WriteBack(w, HandleSyscall(s)) = HandleSyscall(WriteBack(w, s))
      BY <2>1, <3>2
    <3> QED BY <3>3, <3>4
  <2>3. CASE ~(d.valid /\ IsEcall(d.inst)) /\ d.valid /\ IsCsr(d.inst)
    <3>1. WriteRegister(s, file, w.rd, value).csr = s.csr
      BY <1>1, WriteRegisterFields
    <3> DEFINE csr == CsrValue(d.inst, s.csr, d.rs1_data)
    <3>2. SystemEffect(d, s) = [s EXCEPT !.csr = csr]
      BY <2>3 DEF SystemEffect, State
    <3>3. SystemEffect(d, WriteRegister(s, file, w.rd, value)) =
             [WriteRegister(s, file, w.rd, value) EXCEPT !.csr = csr]
      BY <1>1, <2>3, <3>1, WriteRegisterType DEF SystemEffect, State
    <3>4. WriteRegister([s EXCEPT !.csr = csr], file, w.rd, value) =
             [WriteRegister(s, file, w.rd, value) EXCEPT !.csr = csr]
      <4> HIDE DEF csr
      <4>1. CASE file = "fpr"
        BY <4>1 DEF WriteRegister, State
      <4>2. CASE file = "gpr"
        BY <4>2 DEF WriteRegister, WriteGpr, State
      <4> QED BY <1>1, <4>1, <4>2
    <3> HIDE DEF csr
    <3> QED BY <2>1, <3>2, <3>3, <3>4
  <2>4. CASE ~(d.valid /\ IsEcall(d.inst)) /\ ~(d.valid /\ IsCsr(d.inst))
    BY <2>4 DEF SystemEffect
  <2> QED BY <2>2, <2>3, <2>4
<1>3. CASE ~(w.valid /\ w.signals.reg_write)
  BY <1>3 DEF WriteBack
<1> QED BY <1>2, <1>3

LEMMA EffectMemory ==
    ASSUME NEW d, NEW s \in State
    PROVE  SystemEffect(d, s).memory = s.memory
BY DEF SystemEffect, HandleSyscall, State

\* Past its end the program does nothing, so what runs is in it.
LEMMA InCode ==
    ASSUME SystemInv, NEW i \in Nat, i >= 1, CodeAt(i - 1).opcode # "NONE"
    PROVE  i \in 1 .. Len(code) /\ code[i] = CodeAt(i - 1)
<1>1. Len(code) \in Nat
  BY LenProperties DEF SystemInv, LatchTypes
<1>2. i - 1 < Len(code)
  BY DEF CodeAt, ZeroInst
<1> QED BY <1>1, <1>2 DEF CodeAt

LEMMA BeforeIs ==
    ASSUME SystemInv, NEW i \in 1 .. Len(code), NEW k \in 1 .. 2
    PROVE  Before(i, k) = IF i > k THEN CodeAt(i - k - 1) ELSE ZeroInst
<1>1. Len(code) \in Nat
  BY LenProperties DEF SystemInv, LatchTypes
<1>2. CASE i > k
  <2>1. i - k - 1 \in Nat /\ i - k - 1 < Len(code) /\ i - k - 1 + 1 = i - k
    BY <1>1, <1>2
  <2> QED BY <1>2, <2>1 DEF Before, CodeAt
<1>3. CASE ~(i > k)
  BY <1>3 DEF Before
<1> QED BY <1>2, <1>3

\* A latch writes what its instruction writes.
LEMMA HitsWrites ==
    ASSUME NEW l, NEW f, NEW r, Hits(l, f, r),
           l.signals = SystemSignals(l.inst), l.rd = l.inst.rd
    PROVE  Writes(l.inst, f, r)
BY DEF Hits, Writes, WritesNumber

\* The instruction in front of a system call writes none of its registers.
LEMMA CallDistance ==
    ASSUME SystemInv, Disciplined, id_ex.valid, IsEcall(id_ex.inst), NEW s,
           NEW r \in {A0, A1, A2, A7}
    PROVE  ~Hits(MemoryLatch(ex_mem, s), "gpr", r)
<1> SUFFICES ASSUME Hits(MemoryLatch(ex_mem, s), "gpr", r) PROVE FALSE
  OBVIOUS
<1>1. /\ ex_mem.valid /\ MemoryLatch(ex_mem, s).inst = ex_mem.inst
      /\ MemoryLatch(ex_mem, s).signals = SystemSignals(ex_mem.inst)
      /\ MemoryLatch(ex_mem, s).rd = ex_mem.inst.rd
  BY MovesAlong DEF Hits, SystemInv, TypeOK, LatchTypes
<1>2. Writes(ex_mem.inst, "gpr", r)
  BY <1>1, HitsWrites
<1>3. /\ pc \in Nat /\ pc >= 3 /\ id_ex.inst = CodeAt(pc - 2) /\ ex_mem.inst = CodeAt(pc - 3)
  BY <1>1, LenProperties DEF SystemInv, TypeOK, LatchTypes, LatchesFollowCode
<1>4. pc - 1 \in 1 .. Len(code) /\ code[pc - 1] = id_ex.inst
  <2>1. pc - 1 \in Nat /\ (pc - 1) - 1 = pc - 2
    BY <1>3
  <2> QED BY <1>3, <2>1, InCode DEF IsEcall
<1>5. Before(pc - 1, 1) = ex_mem.inst
  <2>1. pc - 1 > 1 /\ (pc - 1) - 1 - 1 = pc - 3
    BY <1>3
  <2> QED BY <1>3, <1>4, <2>1, BeforeIs
<1> QED
  BY <1>2, <1>4, <1>5 DEF Disciplined, CallSettled

\* A tick only moves the older instructions on: once they have finished, the
\* state is what it was to be before the tick.
LEMMA OlderAfterTick ==
    ASSUME SystemInv, Disciplined, Clocktick
    PROVE  /\ Older(ex_mem', mem_wb', state') = AbstractState
           /\ AbstractState \in State
<1> DEFINE t == Store(ex_mem, WriteBack(mem_wb, state))
           older == Older(ex_mem, mem_wb, state)
           called == SystemEffect(id_ex, older)
<1>1. /\ state \in State /\ id_ex \in SystemIdEx /\ id_ex.rs1_data \in Word
      /\ ex_mem \in SystemExMem /\ mem_wb \in SystemMemWb
  BY DEF SystemInv, TypeOK, LatchTypes, SystemIdEx
<1>2. t \in State /\ MemoryLatch(ex_mem, state) \in SystemMemWb
  BY <1>1, WriteBackType, StoreType, MemoryLatchType
<1>3. /\ state' = SystemEffect(id_ex, t) /\ mem_wb' = MemoryLatch(ex_mem, state)
      /\ ex_mem' = ExecuteLatch(id_ex, ex_mem, mem_wb)
  BY DEF Clocktick, AfterExecute
<1>4. older = WriteBack(MemoryLatch(ex_mem, state), t)
  BY DEF Older
<1> HIDE DEF t, older
<1>5. older \in State /\ called \in State /\ ex_mem' \in SystemExMem /\ mem_wb' \in SystemMemWb
  BY <1>1, <1>2, <1>3, <1>4, WriteBackType, SystemEffectType, ExecuteLatchType
<1>6. WriteBack(mem_wb', state') = called
  BY <1>1, <1>2, <1>3, <1>4, CallDistance, EffectCommutes
<1>7. state'.memory = called.memory
  BY <1>2, <1>3, <1>4, <1>5, EffectMemory, WriteBackMemory
<1>8. MemoryLatch(ex_mem', state') = MemoryLatch(ex_mem', called)
  BY <1>7 DEF MemoryLatch
<1>9. AbstractState = WriteBack(MemoryLatch(ex_mem', called), Store(ex_mem', called))
  BY <1>3, AbstractIsFinish DEF Finish, older
<1>10. AbstractState \in State
  BY <1>5, <1>9, WriteBackType, StoreType, MemoryLatchType
<1> HIDE DEF called
<1> QED
  BY <1>6, <1>8, <1>9, <1>10 DEF Older

-----------------------------------------------------------------------------
(* The operands of the instruction in decode. *)

\* The latches in front of decode, in terms of the program.
LEMMA Neighbours ==
    ASSUME SystemInv, if_id.valid, pc \in 1 .. Len(code)
    PROVE  /\ id_ex.valid => Before(pc, 1) = id_ex.inst
           /\ ex_mem.valid /\ id_ex.valid => Before(pc, 2) = ex_mem.inst
           /\ ex_mem.valid /\ ~id_ex.valid => Before(pc, 1) = ex_mem.inst
           /\ pipeline_mode >= ForwardingMode /\ ~id_ex.valid /\ ~ex_mem.valid =>
                 Before(pc, 1) = ZeroInst
<1>1. pc \in Nat /\ pc >= 1
  OBVIOUS
<1>2. /\ Before(pc, 1) = IF pc > 1 THEN CodeAt(pc - 2) ELSE ZeroInst
      /\ Before(pc, 2) = IF pc > 2 THEN CodeAt(pc - 3) ELSE ZeroInst
  <2>1. pc - 1 - 1 = pc - 2 /\ pc - 2 - 1 = pc - 3
    BY <1>1
  <2> QED BY <2>1, BeforeIs
<1> QED
  BY <1>1, <1>2 DEF SystemInv, LatchesFollowCode

LEMMA WillWriteIs ==
    ASSUME NEW l, NEW r, l.valid => l.signals = SystemSignals(l.inst) /\ l.rd = l.inst.rd
    PROVE  WillWrite(l, r) <=> l.valid /\ WritesNumber(l.inst, r) /\ r # 0
BY DEF WillWrite, WritesNumber

LEMMA HitsAre ==
    ASSUME SystemInv, Clocktick, NEW f \in {"gpr", "fpr"}, NEW r
    PROVE  /\ Hits(MemoryLatch(ex_mem', state'), f, r) <=>
                 id_ex.valid /\ Writes(id_ex.inst, f, r) /\ (f = "gpr" => r # 0)
           /\ Hits(mem_wb', f, r) <=>
                 ex_mem.valid /\ Writes(ex_mem.inst, f, r) /\ (f = "gpr" => r # 0)
<1>1. /\ ex_mem' = ExecuteLatch(id_ex, ex_mem, mem_wb) /\ mem_wb' = MemoryLatch(ex_mem, state)
      /\ id_ex \in SystemIdEx /\ ex_mem \in SystemExMem /\ ex_mem' \in SystemExMem
  BY TickTypes DEF Clocktick, SystemInv, LatchTypes
<1>2. /\ id_ex.valid => id_ex.signals = SystemSignals(id_ex.inst) /\ id_ex.rd = id_ex.inst.rd
      /\ ex_mem.valid => ex_mem.signals = SystemSignals(ex_mem.inst) /\ ex_mem.rd = ex_mem.inst.rd
  BY DEF SystemInv, TypeOK
<1>3. id_ex.inst.opcode = "SYSTEM" => ~Writes(id_ex.inst, f, r)
  BY <1>1, SignalFacts DEF Writes, WritesNumber, SystemIdEx
<1>4. /\ MemoryLatch(ex_mem', state').valid <=> id_ex.valid /\ id_ex.inst.opcode # "SYSTEM"
      /\ MemoryLatch(ex_mem', state').valid =>
            /\ MemoryLatch(ex_mem', state').inst = id_ex.inst
            /\ MemoryLatch(ex_mem', state').rd = id_ex.rd
            /\ MemoryLatch(ex_mem', state').signals = id_ex.signals
  BY <1>1, MovesAlong
<1>5. Hits(MemoryLatch(ex_mem', state'), f, r) <=>
         id_ex.valid /\ Writes(id_ex.inst, f, r) /\ (f = "gpr" => r # 0)
  BY <1>2, <1>3, <1>4 DEF Hits, Writes, WritesNumber
<1>6. /\ mem_wb'.valid <=> ex_mem.valid
      /\ ex_mem.valid => /\ mem_wb'.inst = ex_mem.inst /\ mem_wb'.rd = ex_mem.rd
                         /\ mem_wb'.signals = ex_mem.signals
  BY <1>1, MovesAlong
<1>7. Hits(mem_wb', f, r) <=>
         ex_mem.valid /\ Writes(ex_mem.inst, f, r) /\ (f = "gpr" => r # 0)
  BY <1>2, <1>6 DEF Hits, Writes, WritesNumber
<1> QED BY <1>5, <1>7

\* What execute takes for a register is what the register holds once the older
\* instructions have finished.
LEMMA OperandValue ==
    ASSUME SystemInv, Clocktick, ~Stall, if_id.valid, pc \in 1 .. Len(code),
           NEW r \in Reg, r \in Used(if_id.inst),
           NEW decoded \in {"gpr", "fpr"}, NEW meant \in {"gpr", "fpr"},
           OperandSettled(pc, decoded, meant, r)
    PROVE  Forwarded(Forward(pipeline_mode, TRUE, r, id_ex, ex_mem),
                     ReadRegister(state', decoded, r), ex_mem', mem_wb') =
              ReadRegister(Older(ex_mem', mem_wb', state'), meant, r)
<1> DEFINE one == Before(pc, 1)
           two == Before(pc, 2)
           source == Forward(pipeline_mode, TRUE, r, id_ex, ex_mem)
           younger == MemoryLatch(ex_mem', state')
<1>1. /\ pipeline_mode = StallMode \/ pipeline_mode = ForwardingMode
      /\ id_ex \in SystemIdEx /\ ex_mem \in SystemExMem
      /\ ex_mem' \in SystemExMem /\ mem_wb' \in SystemMemWb /\ state' \in State
  BY TickTypes DEF SystemInv, LatchTypes
<1>2. /\ id_ex.valid => one = id_ex.inst
      /\ ex_mem.valid /\ id_ex.valid => two = ex_mem.inst
      /\ ex_mem.valid /\ ~id_ex.valid => one = ex_mem.inst
      /\ pipeline_mode = ForwardingMode /\ ~id_ex.valid /\ ~ex_mem.valid => one = ZeroInst
  BY <1>1, Neighbours DEF ForwardingMode, StallMode
<1>3. /\ WillWrite(id_ex, r) <=> id_ex.valid /\ WritesNumber(id_ex.inst, r) /\ r # 0
      /\ WillWrite(ex_mem, r) <=> ex_mem.valid /\ WritesNumber(ex_mem.inst, r) /\ r # 0
  BY WillWriteIs DEF SystemInv, TypeOK
<1>4. /\ Hits(younger, meant, r) <=>
            id_ex.valid /\ Writes(id_ex.inst, meant, r) /\ (meant = "gpr" => r # 0)
      /\ Hits(mem_wb', meant, r) <=>
            ex_mem.valid /\ Writes(ex_mem.inst, meant, r) /\ (meant = "gpr" => r # 0)
  BY HitsAre
<1>5. ReadRegister(Older(ex_mem', mem_wb', state'), meant, r) =
         IF Hits(younger, meant, r) THEN WrittenValue(younger)
         ELSE IF Hits(mem_wb', meant, r) THEN WrittenValue(mem_wb')
         ELSE ReadRegister(state', meant, r)
  BY <1>1, ReadOlder
<1>6. ~WritesNumber(ZeroInst, r)
  BY ZeroInstType, SignalFacts DEF WritesNumber, ZeroInst
<1> HIDE DEF one, two, source, younger
<1>7. CASE pipeline_mode = StallMode \/ r = 0
  <2>1. source = "FROM_DECODE"
    BY <1>3, <1>7 DEF Forward, source, StallMode, ForwardingMode
  <2>2. /\ decoded = meant
        /\ r = 0 /\ meant = "fpr" => ~Writes(one, meant, r) /\ ~Writes(two, meant, r)
    BY <1>7 DEF OperandSettled, one, two, StallMode, ForwardingMode
  <2>3. pipeline_mode = StallMode => ~WillWrite(id_ex, r) /\ ~WillWrite(ex_mem, r)
    BY DEF Stall
  <2>4. ~Hits(younger, meant, r) /\ ~Hits(mem_wb', meant, r)
    BY <1>2, <1>3, <1>4, <1>7, <2>2, <2>3 DEF Writes
  <2> QED
    BY <1>5, <2>1, <2>2, <2>4 DEF Forwarded, source
<1>8. CASE pipeline_mode = ForwardingMode /\ r # 0
  <2>1. /\ WritesNumber(one, r) => DestinationFile(one) = meant
        /\ ~WritesNumber(one, r) =>
              decoded = meant /\ (WritesNumber(two, r) => DestinationFile(two) = meant)
    BY <1>8 DEF OperandSettled, one, two, StallMode, ForwardingMode
  <2>2. CASE WillWrite(id_ex, r)
    <3>1. source = "FROM_EXECUTE"
      BY <1>8, <2>2 DEF Forward, source, ForwardingMode
    <3>2. Hits(younger, meant, r)
      BY <1>2, <1>3, <1>4, <1>8, <2>1, <2>2 DEF Writes
    <3>3. ~id_ex.signals.mem_read
      BY <1>8, <2>2 DEF Stall, WillWrite, WillLoad, ForwardingMode
    <3>4. ~id_ex.signals.mem_to_reg /\ id_ex.valid /\ id_ex.inst.opcode # "SYSTEM"
      <4>1. /\ id_ex.valid /\ id_ex.signals.reg_write /\ id_ex.inst \in SystemInstruction
            /\ id_ex.signals = SystemSignals(id_ex.inst)
        BY <1>1, <2>2 DEF WillWrite, SystemInv, TypeOK, SystemIdEx
      <4> QED BY <3>3, <4>1, SignalFacts
    <3>5. WrittenValue(younger) = ex_mem'.alu_ans
      <4>1. ex_mem' = ExecuteLatch(id_ex, ex_mem, mem_wb) /\ ex_mem'.signals = id_ex.signals
            /\ ex_mem'.valid
        BY <1>1, <3>4, MovesAlong DEF Clocktick
      <4> QED BY <3>4, <4>1 DEF WrittenValue, younger, MemoryLatch
    <3> QED BY <1>5, <3>1, <3>2, <3>5 DEF Forwarded, source
  <2>3. CASE ~WillWrite(id_ex, r) /\ WillWrite(ex_mem, r)
    <3>1. source = "FROM_MEMORY"
      BY <1>8, <2>3 DEF Forward, source, ForwardingMode
    <3>2. ~Hits(younger, meant, r) /\ Hits(mem_wb', meant, r)
      BY <1>2, <1>3, <1>4, <1>8, <2>1, <2>3 DEF Writes
    <3> QED BY <1>5, <3>1, <3>2 DEF Forwarded, source, WrittenValue
  <2>4. CASE ~WillWrite(id_ex, r) /\ ~WillWrite(ex_mem, r)
    <3>1. source = "FROM_DECODE"
      BY <1>8, <2>4 DEF Forward, source, ForwardingMode
    <3>2. ~Hits(younger, meant, r) /\ ~Hits(mem_wb', meant, r)
      BY <1>3, <1>4, <1>8, <2>4 DEF Writes
    <3>3. decoded = meant
      BY <1>2, <1>3, <1>6, <1>8, <2>1, <2>4
    <3> QED BY <1>5, <3>1, <3>2, <3>3 DEF Forwarded, source
  <2> QED BY <2>2, <2>3, <2>4
<1> QED BY <1>1, <1>7, <1>8

-----------------------------------------------------------------------------
(* The instruction that leaves decode. *)

LEMMA FinishBubble ==
    ASSUME NEW d, ~d.valid, NEW x, NEW w, NEW s
    PROVE  Finish(d, x, w, s) = s
<1>1. ExecuteLatch(d, x, w) = ExMemBubble /\ SystemEffect(d, s) = s
  BY DEF ExecuteLatch, SystemEffect
<1>2. MemoryLatch(ExMemBubble, s) = MemWbBubble /\ Store(ExMemBubble, s) = s
  BY DEF MemoryLatch, Store, ExMemBubble
<1>3. WriteBack(MemWbBubble, s) = s
  BY DEF WriteBack, MemWbBubble
<1> QED BY <1>1, <1>2, <1>3 DEF Finish

\* The result of an instruction that has an effect depends on the operands the
\* hazard unit knows of.
LEMMA ComputedSame ==
    ASSUME NEW inst \in SystemInstruction, NEW a, NEW b, NEW c,
           SystemSignals(inst).reg_write \/ SystemSignals(inst).mem_write,
           UsesSecond(inst) /\ inst.funct \notin {"fmv.x.w", "fmv.w.x"} => b = c
    PROVE  Computed(inst, a, b) = Computed(inst, a, c)
<1>1. CASE b = c
  BY <1>1
<1>2. CASE inst.funct \in {"fmv.x.w", "fmv.w.x"}
  BY <1>2 DEF Computed
<1>3. CASE ~UsesSecond(inst)
  <2>1. inst.opcode \in {"OPIMM", "LOAD", "FLOAD"}
    BY <1>3, SignalFacts DEF UsesSecond, UsesRs2
  <2>2. SystemSignals(inst).alu_src /\ inst.funct \notin FloatFunct
    BY <2>1, SignalFacts DEF SystemInstruction
  <2> QED BY <2>2 DEF Computed, FloatFunct
<1> QED BY <1>1, <1>2, <1>3

LEMMA FinishExecutes ==
    ASSUME NEW inst \in SystemInstruction, NEW d \in SystemIdEx, NEW x, NEW w, NEW s \in State,
           d.valid, d.inst = inst, d.rd = inst.rd, d.signals = SystemSignals(inst),
           UsesFirst(inst) =>
              FirstOperand(d, x, w) = ReadRegister(s, FirstFile(inst), inst.rs1),
           UsesSecond(inst) /\ inst.funct \notin {"fmv.x.w", "fmv.w.x"} =>
              SecondOperand(d, x, w) = ReadRegister(s, SecondFile(inst), inst.rs2),
           IsCsr(inst) => inst.rd = 0 /\ d.rs1_data = s.gpr[inst.rs1]
    PROVE  Finish(d, x, w, s) = InOrder(inst, s)
<1> DEFINE executed == ExecuteLatch(d, x, w)
           called == SystemEffect(d, s)
<1>1. CASE inst.opcode = "SYSTEM"
  <2>1. executed = ExMemBubble
    BY <1>1 DEF ExecuteLatch
  <2>2. Finish(d, x, w, s) = called
    <3>1. MemoryLatch(ExMemBubble, called) = MemWbBubble /\ Store(ExMemBubble, called) = called
      BY DEF MemoryLatch, Store, ExMemBubble
    <3>2. WriteBack(MemWbBubble, called) = called
      BY DEF WriteBack, MemWbBubble
    <3> QED BY <2>1, <3>1, <3>2 DEF Finish
  <2>3. CASE IsEcall(inst)
    BY <2>2, <2>3 DEF SystemEffect, InOrder
  <2>4. CASE IsCsr(inst) /\ ~IsEcall(inst)
    <3>1. called = [s EXCEPT !.csr = CsrValue(inst, s.csr, s.gpr[inst.rs1])]
      BY <2>4 DEF SystemEffect, State
    <3>2. InOrder(inst, s) = [s EXCEPT !.gpr = s.gpr,
                                       !.csr = CsrValue(inst, s.csr, s.gpr[inst.rs1])]
      BY <2>4 DEF InOrder, ExecuteCsr, WriteGpr, State
    <3>3. [s EXCEPT !.gpr = s.gpr] = s
      BY DEF State
    <3> QED BY <2>2, <3>1, <3>2, <3>3
  <2> QED BY <1>1, <2>3, <2>4 DEF IsEcall, IsCsr
<1>2. CASE inst.opcode # "SYSTEM"
  <2> DEFINE first == ReadRegister(s, FirstFile(inst), inst.rs1)
             second == ReadRegister(s, SecondFile(inst), inst.rs2)
             result == Computed(inst, first, second)
             signals == SystemSignals(inst)
             loaded == MemoryLatch(executed, s)
  <2>1. InOrder(inst, s) = ExecuteOther(inst, s) /\ called = s
    BY <1>2 DEF InOrder, SystemEffect, IsEcall, IsCsr
  <2>2. /\ executed.valid /\ executed.inst = inst /\ executed.rd = inst.rd
        /\ executed.signals = signals /\ executed.data = SecondOperand(d, x, w)
        /\ executed.alu_ans = Computed(inst, FirstOperand(d, x, w), SecondOperand(d, x, w))
    BY <1>2 DEF ExecuteLatch
  <2> HIDE DEF executed
  <2>3. Finish(d, x, w, s) = WriteBack(loaded, Store(executed, s))
    BY <2>1 DEF Finish, executed
  <2>4. /\ loaded.valid /\ loaded.inst = inst /\ loaded.rd = inst.rd
        /\ loaded.signals = signals /\ loaded.alu_ans = executed.alu_ans
        /\ loaded.mem_data = IF signals.mem_read THEN s.memory[executed.alu_ans] ELSE 0
    BY <2>2 DEF MemoryLatch
  <2>5. UsesFirst(inst) /\ (signals.reg_write \/ signals.mem_write) => executed.alu_ans = result
    BY <2>2, ComputedSame
  <2> HIDE DEF loaded, first
  <2>6. CASE signals.mem_write
    <3>1. /\ inst.opcode \in {"STORE", "FSTORE"} /\ ~signals.reg_write
          /\ inst.funct \notin FloatFunct
      BY <2>6, SignalFacts DEF SystemInstruction
    <3>2. UsesFirst(inst) /\ UsesSecond(inst) /\ inst.funct \notin {"fmv.x.w", "fmv.w.x"}
      BY <3>1 DEF UsesFirst, UsesSecond, UsesRs1, UsesRs2, IsFloat, FloatFunct
    <3>3. executed.alu_ans = result /\ executed.data = second
      BY <2>2, <2>5, <2>6, <3>2
    <3>4. Store(executed, s) = [s EXCEPT !.memory = WriteDoubleWord(s.memory, result, second)]
      BY <2>2, <2>6, <3>3 DEF Store, State
    <3>5. Finish(d, x, w, s) = Store(executed, s)
      BY <2>3, <2>4, <3>1 DEF WriteBack
    <3>6. ExecuteOther(inst, s) = [s EXCEPT !.memory = WriteDoubleWord(s.memory, result, second)]
      BY <2>6 DEF ExecuteOther, State, first
    <3> QED BY <2>1, <3>4, <3>5, <3>6
  <2>7. CASE ~signals.mem_write /\ signals.reg_write
    <3>1. inst.opcode \in {"OP", "OPIMM", "LOAD", "FLOAD", "FP"}
      BY <2>7, SignalFacts
    <3>2. UsesFirst(inst)
      BY <3>1 DEF UsesFirst, UsesRs1, IsFloat
    <3>3. Store(executed, s) = s
      BY <2>2, <2>7 DEF Store
    <3>4. (IF signals.mem_to_reg THEN loaded.mem_data ELSE loaded.alu_ans) =
             Loaded(inst, s, result)
      BY <2>4, <2>5, <2>7, <3>2, SignalFacts DEF Loaded
    <3>5. WriteBack(loaded, s) =
             WriteRegister(s, DestinationFile(inst), inst.rd, Loaded(inst, s, result))
      BY <2>4, <2>7, <3>4 DEF WriteBack
    <3>6. ExecuteOther(inst, s) =
             WriteRegister(s, DestinationFile(inst), inst.rd, Loaded(inst, s, result))
      BY <2>7 DEF ExecuteOther, first
    <3> QED BY <2>1, <2>3, <3>3, <3>5, <3>6
  <2>8. CASE ~signals.mem_write /\ ~signals.reg_write
    <3>1. Store(executed, s) = s
      BY <2>2, <2>8 DEF Store
    <3>2. WriteBack(loaded, s) = s
      BY <2>4, <2>8 DEF WriteBack
    <3>3. ExecuteOther(inst, s) = s
      BY <2>8 DEF ExecuteOther
    <3> QED BY <2>1, <2>3, <3>1, <3>2, <3>3
  <2> QED BY <2>6, <2>7, <2>8
<1> QED BY <1>1, <1>2

\* What a CSR instruction reads in decode is what the register is going to hold.
LEMMA CsrOperand ==
    ASSUME SystemInv, Clocktick, if_id.valid, pc \in 1 .. Len(code), NEW r \in Reg,
           r # 0 => ~Writes(Before(pc, 1), "gpr", r) /\ ~Writes(Before(pc, 2), "gpr", r)
    PROVE  ReadRegister(Older(ex_mem', mem_wb', state'), "gpr", r) = ReadRegister(state', "gpr", r)
<1>1. ex_mem' \in SystemExMem /\ mem_wb' \in SystemMemWb /\ state' \in State
  BY TickTypes DEF LatchTypes
<1>2. ~Hits(MemoryLatch(ex_mem', state'), "gpr", r) /\ ~Hits(mem_wb', "gpr", r)
  BY HitsAre, Neighbours
<1> QED BY <1>1, <1>2, ReadOlder

\* An instruction that leaves decode does to the abstract state what the
\* single-cycle path does.
LEMMA IssuedInOrder ==
    ASSUME SystemInv, Disciplined, Clocktick, ~Stall, if_id.valid
    PROVE  AbstractState' = InOrder(CodeAt(pc - 1), AbstractState)
<1> DEFINE inst == CodeAt(pc - 1)
           older == Older(ex_mem', mem_wb', state')
<1>1. older = AbstractState /\ older \in State
  BY OlderAfterTick
<1>2. AbstractState' = Finish(id_ex', ex_mem', mem_wb', older)
  BY DEF AbstractState, Finish, Older
<1>3. /\ id_ex' = DecodeLatch(inst, state') /\ if_id.inst = inst
      /\ pc \in Nat /\ pc >= 1 /\ inst \in SystemInstruction
  BY LenProperties
  DEF Clocktick, SystemInv, TypeOK, LatchTypes, LatchesFollowCode, FetchLatch
<1>4. id_ex' \in SystemIdEx
  BY TickTypes DEF LatchTypes
<1>5. /\ id_ex'.valid /\ id_ex'.inst = inst /\ id_ex'.rd = inst.rd
      /\ id_ex'.signals = SystemSignals(inst)
      /\ id_ex'.rs1_data = ReadRegister(state', DecodedFirstFile(inst), inst.rs1)
      /\ id_ex'.rs2_data = ReadRegister(state', SecondFile(inst), inst.rs2)
      /\ UsesFirst(inst) =>
            id_ex'.forward_A = Forward(pipeline_mode, TRUE, inst.rs1, id_ex, ex_mem)
      /\ UsesSecond(inst) =>
            id_ex'.forward_B = Forward(pipeline_mode, TRUE, inst.rs2, id_ex, ex_mem)
  BY <1>3 DEF DecodeLatch
<1>6. /\ inst.rs1 \in Reg /\ inst.rs2 \in Reg
      /\ DecodedFirstFile(inst) \in {"gpr", "fpr"} /\ FirstFile(inst) \in {"gpr", "fpr"}
      /\ SecondFile(inst) \in {"gpr", "fpr"}
  BY <1>3 DEF SystemInstruction, DecodedFirstFile, FirstFile, SecondFile
<1>7. inst.opcode # "NONE" => pc \in 1 .. Len(code) /\ code[pc] = inst
  BY <1>3, InCode
<1> HIDE DEF inst, older
<1>8. UsesFirst(inst) =>
         FirstOperand(id_ex', ex_mem', mem_wb') = ReadRegister(older, FirstFile(inst), inst.rs1)
  <2> SUFFICES ASSUME UsesFirst(inst)
               PROVE  FirstOperand(id_ex', ex_mem', mem_wb') =
                         ReadRegister(older, FirstFile(inst), inst.rs1)
    OBVIOUS
  <2>1. pc \in 1 .. Len(code) /\ code[pc] = inst
    BY <1>7 DEF UsesFirst, UsesRs1, IsFloat
  <2>2. OperandSettled(pc, DecodedFirstFile(inst), FirstFile(inst), inst.rs1)
    BY <2>1 DEF Disciplined, OperandsSettled
  <2>3. inst.rs1 \in Used(if_id.inst)
    BY <1>3 DEF Used
  <2>4. Forwarded(Forward(pipeline_mode, TRUE, inst.rs1, id_ex, ex_mem),
                  ReadRegister(state', DecodedFirstFile(inst), inst.rs1), ex_mem', mem_wb') =
           ReadRegister(older, FirstFile(inst), inst.rs1)
    BY <1>6, <2>1, <2>2, <2>3, OperandValue DEF older
  <2> QED BY <1>5, <2>4 DEF FirstOperand
<1>9. UsesSecond(inst) /\ inst.funct \notin {"fmv.x.w", "fmv.w.x"} =>
         SecondOperand(id_ex', ex_mem', mem_wb') = ReadRegister(older, SecondFile(inst), inst.rs2)
  <2> SUFFICES ASSUME UsesSecond(inst), inst.funct \notin {"fmv.x.w", "fmv.w.x"}
               PROVE  SecondOperand(id_ex', ex_mem', mem_wb') =
                         ReadRegister(older, SecondFile(inst), inst.rs2)
    OBVIOUS
  <2>1. pc \in 1 .. Len(code) /\ code[pc] = inst
    BY <1>7 DEF UsesSecond, UsesRs2
  <2>2. OperandSettled(pc, SecondFile(inst), SecondFile(inst), inst.rs2)
    BY <2>1 DEF Disciplined, OperandsSettled
  <2>3. inst.rs2 \in Used(if_id.inst)
    BY <1>3 DEF Used
  <2>4. Forwarded(Forward(pipeline_mode, TRUE, inst.rs2, id_ex, ex_mem),
                  ReadRegister(state', SecondFile(inst), inst.rs2), ex_mem', mem_wb') =
           ReadRegister(older, SecondFile(inst), inst.rs2)
    BY <1>6, <2>1, <2>2, <2>3, OperandValue DEF older
  <2> QED BY <1>5, <2>4 DEF SecondOperand
<1>10. IsCsr(inst) => inst.rd = 0 /\ id_ex'.rs1_data = older.gpr[inst.rs1]
  <2> SUFFICES ASSUME IsCsr(inst)
               PROVE  inst.rd = 0 /\ id_ex'.rs1_data = older.gpr[inst.rs1]
    OBVIOUS
  <2>1. pc \in 1 .. Len(code) /\ code[pc] = inst /\ DecodedFirstFile(inst) = "gpr"
    BY <1>7 DEF IsCsr, DecodedFirstFile
  <2>2. /\ inst.rd = 0
        /\ inst.rs1 # 0 => /\ ~Writes(Before(pc, 1), "gpr", inst.rs1)
                           /\ ~Writes(Before(pc, 2), "gpr", inst.rs1)
    BY <2>1 DEF Disciplined, CsrSettled
  <2>3. ReadRegister(older, "gpr", inst.rs1) = ReadRegister(state', "gpr", inst.rs1)
    BY <1>6, <2>1, <2>2, CsrOperand DEF older
  <2> QED BY <1>5, <2>1, <2>2, <2>3 DEF ReadRegister
<1>11. Finish(id_ex', ex_mem', mem_wb', older) = InOrder(inst, older)
  BY <1>1, <1>3, <1>4, <1>5, <1>8, <1>9, <1>10, FinishExecutes
<1> QED BY <1>1, <1>2, <1>11 DEF inst

\* The instance of the machine is the machine.
LEMMA SameSignals ==
    ASSUME NEW inst
    PROVE  SingleCycle!SystemSignals(inst) = SystemSignals(inst)
BY DEF SingleCycle!SystemSignals, SystemSignals,
       SingleCycle!SetControlSignals, SetControlSignals

LEMMA SameComputed ==
    ASSUME NEW inst, NEW a, NEW b
    PROVE  SingleCycle!Computed(inst, a, b) = Computed(inst, a, b)
BY SameSignals
DEF SingleCycle!Computed, Computed, SingleCycle!AluExecute, AluExecute,
    SingleCycle!GetAluSignal, GetAluSignal, SingleCycle!ToWord, ToWord,
    SingleCycle!Signed, Signed

LEMMA SameInOrder ==
    ASSUME NEW inst, NEW s
    PROVE  SingleCycle!InOrder(inst, s) = InOrder(inst, s)
<1>1. SingleCycle!HandleSyscall(s) = HandleSyscall(s)
  BY DEF SingleCycle!HandleSyscall, HandleSyscall, SingleCycle!Buffer, Buffer,
         SingleCycle!ToWord, ToWord
<1>2. SingleCycle!ExecuteCsr(inst, s) = ExecuteCsr(inst, s)
  BY DEF SingleCycle!ExecuteCsr, ExecuteCsr, SingleCycle!WriteGpr, WriteGpr,
         SingleCycle!CsrValue, CsrValue
<1>3. SingleCycle!ExecuteOther(inst, s) = ExecuteOther(inst, s)
  <2>1. \A r : /\ SingleCycle!Loaded(inst, s, r) = Loaded(inst, s, r)
               /\ SingleCycle!FirstFile(inst) = FirstFile(inst)
               /\ SingleCycle!SecondFile(inst) = SecondFile(inst)
               /\ SingleCycle!DestinationFile(inst) = DestinationFile(inst)
    BY SameSignals DEF SingleCycle!Loaded, Loaded, SingleCycle!FirstFile, FirstFile,
       SingleCycle!SecondFile, SecondFile, SingleCycle!IsFloat, IsFloat,
       SingleCycle!DestinationFile, DestinationFile
  <2>2. \A f, r, v : /\ SingleCycle!ReadRegister(s, f, r) = ReadRegister(s, f, r)
                     /\ SingleCycle!WriteRegister(s, f, r, v) = WriteRegister(s, f, r, v)
    BY DEF SingleCycle!ReadRegister, ReadRegister, SingleCycle!WriteRegister, WriteRegister,
       SingleCycle!WriteGpr, WriteGpr
  <2>3. \A m, a, v : SingleCycle!WriteDoubleWord(m, a, v) = WriteDoubleWord(m, a, v)
    BY DEF SingleCycle!WriteDoubleWord, WriteDoubleWord
  <2> QED
    BY <2>1, <2>2, <2>3, SameSignals, SameComputed DEF SingleCycle!ExecuteOther, ExecuteOther
<1> QED
  BY <1>1, <1>2, <1>3 DEF SingleCycle!InOrder, InOrder, SingleCycle!IsEcall, IsEcall,
     SingleCycle!IsCsr, IsCsr

\* A tick executes the next instruction, or seen from outside does nothing.
LEMMA TickInOrder ==
    ASSUME SystemInv, Disciplined, Clocktick
    PROVE  SingleCycle!ExecuteOne \/ UNCHANGED <<AbstractPc, AbstractState>>
<1>1. pc \in Nat
  BY LenProperties DEF SystemInv, TypeOK, LatchTypes
<1>2. CASE Stall \/ ~if_id.valid
  <2>1. ~id_ex'.valid
    BY <1>2 DEF Clocktick, EmptyDecode
  <2>2. AbstractState' = Finish(id_ex', ex_mem', mem_wb', Older(ex_mem', mem_wb', state'))
    BY DEF AbstractState, Finish, Older
  <2>3. AbstractState' = AbstractState
    BY <2>1, <2>2, FinishBubble, OlderAfterTick
  <2>4. AbstractPc' = AbstractPc
    <3>1. CASE Stall
      BY <3>1 DEF Clocktick, AbstractPc
    <3>2. CASE ~Stall /\ ~if_id.valid
      <4>1. if_id'.valid /\ pc' = pc + 1
        BY <3>2 DEF Clocktick
      <4> QED BY <1>1, <3>2, <4>1 DEF AbstractPc
    <3> QED BY <1>2, <3>1, <3>2
  <2> QED BY <2>3, <2>4
<1>3. CASE ~Stall /\ if_id.valid
  <2>1. AbstractPc = pc - 1 /\ AbstractPc' = AbstractPc + 1
    <3>1. if_id'.valid /\ pc' = pc + 1
      BY <1>3 DEF Clocktick
    <3> QED BY <1>1, <1>3, <3>1 DEF AbstractPc
  <2>2. AbstractState' = InOrder(CodeAt(AbstractPc), AbstractState)
    BY <1>3, <2>1, IssuedInOrder
  <2>3. SingleCycle!CodeAt(AbstractPc) = CodeAt(AbstractPc)
    BY DEF SingleCycle!CodeAt, CodeAt, SingleCycle!ZeroInst, ZeroInst
  <2>4. UNCHANGED code
    BY DEF Clocktick
  <2> QED
    BY <2>1, <2>2, <2>3, <2>4, SameInOrder DEF SingleCycle!ExecuteOne
<1> QED BY <1>2, <1>3

\* Code that keeps its distances runs in the pipeline as it does one instruction
\* at a time, in Mode 2 and in the forwarding modes, for every such program, word
\* size, register set and assignment of the registers of a system call
\* (pipeline_execute, HandleSyscall, pipeline_execute_csr, pipeline_decode,
\* compute_signals).
THEOREM SystemRunsInOrder == Spec => RunsInOrder
<1>1. SystemInv /\ [Next]_vars
         => [Disciplined => SingleCycle!ExecuteOne]_<<AbstractPc, AbstractState>>
  <2>1. ASSUME SystemInv, Next
        PROVE  [Disciplined => SingleCycle!ExecuteOne]_<<AbstractPc, AbstractState>>
    BY <2>1, TickInOrder DEF Next
  <2>2. ASSUME SystemInv, UNCHANGED vars
        PROVE  UNCHANGED <<AbstractPc, AbstractState>>
    BY <2>2 DEF vars, latches, AbstractPc, AbstractState, Store, MemoryLatch
  <2> QED BY <2>1, <2>2
<1> QED
  BY <1>1, InitInv, NextInv, PTL DEF Spec, RunsInOrder
===============================================================================
