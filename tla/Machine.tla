------------------------------- MODULE Machine -------------------------------
(***************************************************************************)
(* The instruction-set machine: what one instruction does to the program   *)
(* counter, the registers and the memory.  It is the single-cycle path of  *)
(* RVSSVM (Mode 0: Fetch, Decode, Execute, WriteMemory, WriteBack in one   *)
(* go), and it is the abstract specification the five-stage pipeline is    *)
(* shown to implement.                                                     *)
(***************************************************************************)
EXTENDS Datapath

CONSTANTS
    TextSize,   \* number of instruction words that can hold program text
    Program     \* the programs that can be loaded: [size, code, data]

ASSUME TextAssumption == TextSize \in Nat

TextAddr == 0 .. (TextSize - 1)

ZeroText == [a \in TextAddr |-> ZeroInst]

ASSUME ProgramAssumption ==
    \A p \in Program : /\ p.size \in 0 .. TextSize
                       /\ p.code \in [TextAddr -> Instruction]
                       /\ DOMAIN p.data \subseteq Word
                       /\ p.data \in [DOMAIN p.data -> Word]

VARIABLES program_counter, gpr, memory, text

machineVars == <<program_counter, gpr, memory, text>>

MachineTypeOK ==
    /\ program_counter \in Int
    /\ gpr \in [Reg -> Word]
    /\ memory \in [Word -> Word]
    /\ text \in [TextAddr -> Instruction]

\* Memory is sparse: a word outside the loaded text reads as zero.
ReadInstruction(txt, address) ==
    IF address \in TextAddr THEN txt[address] ELSE ZeroInst

\* LoadProgram overwrites what it has words for and leaves the rest alone.
LoadText(p, txt) == [a \in TextAddr |-> IF a < p.size THEN p.code[a] ELSE txt[a]]
LoadData(p, mem) == [a \in Word |-> IF a \in DOMAIN p.data THEN p.data[a] ELSE mem[a]]

-----------------------------------------------------------------------------
\* Execute: the second ALU operand is the immediate when alu_src is set.
ExecutionResult(inst, regs) ==
    AluExecute(GetAluSignal(inst),
               regs[inst.rs1],
               IF SetControlSignals(inst).alu_src THEN ToWord(inst.imm)
                                                  ELSE regs[inst.rs2])

\* Execute: Fetch has already added one instruction to the program counter,
\* a jump or a taken branch takes it back and adds its own offset.
NextProgramCounter(inst, pc, regs) ==
    CASE inst.opcode = "JALR" -> ExecutionResult(inst, regs)
      [] inst.opcode = "JAL" -> pc + inst.imm
      [] /\ inst.opcode = "BRANCH"
         /\ BranchFlag(inst.funct, ExecutionResult(inst, regs)) -> pc + inst.imm
      [] OTHER -> pc + 1

MemoryAfter(inst, regs, mem) ==
    IF SetControlSignals(inst).mem_write
    THEN WriteDoubleWord(mem, ExecutionResult(inst, regs), regs[inst.rs2])
    ELSE mem

\* WriteBack picks the value by opcode.
RegisterResult(inst, pc, regs, mem) ==
    CASE inst.opcode = "LOAD" -> mem[ExecutionResult(inst, regs)]
      [] IsJump(inst) -> ToWord(pc + 1)
      [] inst.opcode = "LUI" -> ToWord(Upper(inst))
      [] inst.opcode = "AUIPC" -> ToWord(pc + Upper(inst))
      [] OTHER -> ExecutionResult(inst, regs)

GprAfter(inst, pc, regs, mem) ==
    IF SetControlSignals(inst).reg_write
    THEN WriteGpr(regs, inst.rd, RegisterResult(inst, pc, regs, mem))
    ELSE regs

-----------------------------------------------------------------------------
MachineInit ==
    \E p \in Program :
        /\ program_counter = 0
        /\ gpr = ZeroGpr
        /\ memory = LoadData(p, ZeroMemory)
        /\ text = LoadText(p, ZeroText)

ExecuteInstruction ==
    LET inst == ReadInstruction(text, program_counter)
    IN  /\ program_counter' = NextProgramCounter(inst, program_counter, gpr)
        /\ gpr' = GprAfter(inst, program_counter, gpr, memory)
        /\ memory' = MemoryAfter(inst, gpr, memory)
        /\ UNCHANGED text

\* Reset clears the memory, and with it the program.
ResetMachine ==
    /\ program_counter' = 0
    /\ gpr' = ZeroGpr
    /\ memory' = ZeroMemory
    /\ text' = ZeroText

\* The next program is loaded into a machine as a reset leaves it.
LoadMachine ==
    /\ program_counter = 0 /\ gpr = ZeroGpr
    /\ memory = ZeroMemory /\ text = ZeroText
    /\ \E p \in Program : text' = LoadText(p, text) /\ memory' = LoadData(p, memory)
    /\ UNCHANGED <<program_counter, gpr>>

MachineNext == ExecuteInstruction \/ ResetMachine \/ LoadMachine

MachineSpec == MachineInit /\ [][MachineNext]_machineVars
==============================================================================
