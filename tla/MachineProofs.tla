----------------------------- MODULE MachineProofs -----------------------------
(***************************************************************************)
(* The types of what the machine computes.                                 *)
(***************************************************************************)
EXTENDS Machine, TLAPS

USE DEF Word, ToWord

-----------------------------------------------------------------------------
\* The ALU returns a register value.
LEMMA AluType ==
    ASSUME NEW op, NEW a \in Word, NEW b \in Word
    PROVE  AluExecute(op, a, b) \in Word
BY WordAssumption DEF AluExecute

\* The control signals of any instruction are Booleans.
LEMMA SignalsType ==
    ASSUME NEW inst \in Instruction
    PROVE  SetControlSignals(inst) \in Signals
BY DEF SetControlSignals, Signals

LEMMA NoSignalsType == NoSignals \in Signals
BY DEF NoSignals, Signals

LEMMA ZeroInstType == ZeroInst \in Instruction
BY RegAssumption DEF ZeroInst, Instruction, Opcode, Funct

LEMMA ReadInstructionType ==
    ASSUME NEW txt \in [TextAddr -> Instruction], NEW a
    PROVE  ReadInstruction(txt, a) \in Instruction
BY ZeroInstType DEF ReadInstruction

LEMMA ZeroTypes ==
    ZeroGpr \in [Reg -> Word] /\ ZeroMemory \in [Word -> Word] /\ ZeroText \in [TextAddr -> Instruction]
BY ZeroInstType, WordAssumption DEF ZeroGpr, ZeroMemory, ZeroText

LEMMA LoadTypes ==
    ASSUME NEW p \in Program,
           NEW txt \in [TextAddr -> Instruction], NEW mem \in [Word -> Word]
    PROVE  /\ LoadText(p, txt) \in [TextAddr -> Instruction]
           /\ LoadData(p, mem) \in [Word -> Word]
           /\ p.size \in 0 .. TextSize
<1>1. /\ p.size \in 0 .. TextSize
      /\ p.code \in [TextAddr -> Instruction]
      /\ DOMAIN p.data \subseteq Word
      /\ p.data \in [DOMAIN p.data -> Word]
  BY ProgramAssumption
<1>2. LoadText(p, txt) \in [TextAddr -> Instruction]
  BY <1>1 DEF LoadText
<1>3. LoadData(p, mem) \in [Word -> Word]
  BY <1>1 DEF LoadData
<1> QED BY <1>1, <1>2, <1>3

-----------------------------------------------------------------------------
LEMMA ExecutionResultType ==
    ASSUME NEW inst \in Instruction, NEW regs \in [Reg -> Word]
    PROVE  ExecutionResult(inst, regs) \in Word
<1>1. /\ regs[inst.rs1] \in Word /\ regs[inst.rs2] \in Word
      /\ ToWord(inst.imm) \in Word
  BY WordAssumption DEF Instruction
<1> QED
  BY <1>1, AluType DEF ExecutionResult

LEMMA NextProgramCounterType ==
    ASSUME NEW inst \in Instruction, NEW pc \in Int, NEW regs \in [Reg -> Word]
    PROVE  NextProgramCounter(inst, pc, regs) \in Int
<1>1. ExecutionResult(inst, regs) \in Int /\ inst.imm \in Int
  BY ExecutionResultType DEF Instruction
<1> QED
  BY <1>1 DEF NextProgramCounter

LEMMA MemoryAfterType ==
    ASSUME NEW inst \in Instruction, NEW regs \in [Reg -> Word], NEW mem \in [Word -> Word]
    PROVE  MemoryAfter(inst, regs, mem) \in [Word -> Word]
<1>1. regs[inst.rs2] \in Word
  BY DEF Instruction
<1> QED
  BY <1>1 DEF MemoryAfter, WriteDoubleWord

LEMMA GprAfterType ==
    ASSUME NEW inst \in Instruction, NEW pc \in Int,
           NEW regs \in [Reg -> Word], NEW mem \in [Word -> Word]
    PROVE  GprAfter(inst, pc, regs, mem) \in [Reg -> Word]
<1>1. ExecutionResult(inst, regs) \in Word
  BY ExecutionResultType
<1>2. ToWord(pc + 1) \in Word
  BY WordAssumption
<1>3. Upper(inst) \in Int
  BY UpperAssumption DEF Upper, Instruction
<1>4. ToWord(Upper(inst)) \in Word /\ ToWord(pc + Upper(inst)) \in Word
  BY <1>3, WordAssumption
<1>5. RegisterResult(inst, pc, regs, mem) \in Word
  BY <1>1, <1>2, <1>4 DEF RegisterResult
<1> QED
  BY <1>5 DEF GprAfter, WriteGpr

\* One instruction keeps the machine well typed, and so does a reset.
LEMMA ExecuteInstructionType ==
    ASSUME MachineTypeOK, ExecuteInstruction
    PROVE  MachineTypeOK'
<1> DEFINE inst == ReadInstruction(text, program_counter)
<1>1. inst \in Instruction
  BY ReadInstructionType DEF MachineTypeOK
<1> HIDE DEF inst
<1>2. program_counter' \in Int
  BY <1>1, NextProgramCounterType DEF ExecuteInstruction, MachineTypeOK, inst
<1>3. gpr' \in [Reg -> Word]
  BY <1>1, GprAfterType DEF ExecuteInstruction, MachineTypeOK, inst
<1>4. memory' \in [Word -> Word]
  BY <1>1, MemoryAfterType DEF ExecuteInstruction, MachineTypeOK, inst
<1> QED
  BY <1>2, <1>3, <1>4 DEF ExecuteInstruction, MachineTypeOK

LEMMA ResetMachineType ==
    ASSUME MachineTypeOK, ResetMachine
    PROVE  MachineTypeOK'
BY ZeroTypes DEF ResetMachine, MachineTypeOK
================================================================================
