---------------------------- MODULE SystemMachine ----------------------------
(***************************************************************************)
(* System calls, CSR instructions and floating point, executed one at a    *)
(* time: the single-cycle path of RVSSVM (HandleSyscall, ExecuteCsr and    *)
(* WriteBackCsr, ExecuteFloat, WriteMemoryFloat and WriteBackFloat), next  *)
(* to the integer instructions of Datapath.  The pipeline is compared with *)
(* it in SystemPipelineProperties.                                         *)
(*                                                                         *)
(* Abstractions.  The opcode classes added to those of Datapath are FLOAD  *)
(* (FLW), FSTORE (FSW), FP (opcode 0b1010011) and SYSTEM.  The sum of two  *)
(* floats is the sum of two words: any function of both operands does, as  *)
(* long as it tells them apart.  The arithmetic is exact, so no exception  *)
(* flag is raised.  There is one CSR.  Code is straight-line and does not  *)
(* change; program counters count instructions.                            *)
(***************************************************************************)
EXTENDS HazardUnit, Sequences

CONSTANTS
    A0, A1, A2, A7,     \* the registers of the system call interface: 10, 11, 12, 17
    SYSCALL_PRINT_INT,  \* 1
    SYSCALL_WRITE,      \* 64
    BitOr(_, _)         \* the bitwise or of two register values

ASSUME SystemAssumption ==
    /\ {A0, A1, A2, A7} \subseteq Reg \ {0}
    /\ SYSCALL_PRINT_INT # SYSCALL_WRITE

ASSUME BitOrAssumption == \A a, b \in Word : BitOr(a, b) \in Word

VARIABLES
    code,   \* the instructions of the loaded program, a sequence
    pc,     \* index of the next one, from 0
    state   \* what the program can see

\* The instructions of straight-line code.
FloatFunct == {"fadd.s", "feq.s", "fmv.x.w", "fmv.w.x"}
SystemFunct == {"ecall", "csrrw", "csrrs"}

SystemInstruction ==
    {inst \in [opcode : {"OP", "OPIMM", "OP32", "OPIMM32", "LOAD", "STORE",
                        "FLOAD", "FSTORE", "FP", "SYSTEM", "NONE"},
               funct : Funct \cup FloatFunct \cup SystemFunct,
               rd : Reg, rs1 : Reg, rs2 : Reg, imm : Int] :
        inst.opcode = "FP" <=> inst.funct \in FloatFunct}

State == [gpr : [Reg -> Word], fpr : [Reg -> Word], csr : Word,
          memory : [Word -> Word], output : Seq(Word)]

CodeAt(address) == IF address < Len(code) THEN code[address + 1] ELSE ZeroInst

-----------------------------------------------------------------------------
(* Registers: an operand is a number and the file it is in. *)

IsFloat(inst) == inst.opcode \in {"FLOAD", "FSTORE", "FP"}

ReadRegister(s, file, r) == IF file = "fpr" THEN s.fpr[r] ELSE s.gpr[r]

WriteRegister(s, file, r, value) ==
    IF file = "fpr" THEN [s EXCEPT !.fpr[r] = value]
                    ELSE [s EXCEPT !.gpr = WriteGpr(@, r, value)]

\* ExecuteFloat takes rs1 from the integer registers for a load, a store and a
\* move from there.
FirstFile(inst) == IF inst.opcode = "FP" /\ inst.funct # "fmv.w.x" THEN "fpr" ELSE "gpr"

SecondFile(inst) == IF IsFloat(inst) THEN "fpr" ELSE "gpr"

\* WriteBackFloat: comparisons and moves to there write an integer register.
DestinationFile(inst) ==
    IF \/ inst.opcode = "FLOAD"
       \/ inst.opcode = "FP" /\ inst.funct \notin {"feq.s", "fmv.x.w"}
    THEN "fpr" ELSE "gpr"

SystemSignals(inst) ==
    CASE inst.opcode = "FLOAD" -> SetControlSignals([inst EXCEPT !.opcode = "LOAD"])
      [] inst.opcode = "FSTORE" -> SetControlSignals([inst EXCEPT !.opcode = "STORE"])
      [] inst.opcode = "FP" -> SetControlSignals([inst EXCEPT !.opcode = "OP"])
      [] OTHER -> SetControlSignals(inst)

\* Alu::execute and Alu::fpexecute
Computed(inst, a, b) ==
    CASE inst.funct = "fadd.s" -> ToWord(a + b)
      [] inst.funct = "feq.s" -> IF a = b THEN 1 ELSE 0
      [] inst.funct \in {"fmv.x.w", "fmv.w.x"} -> a
      [] OTHER -> AluExecute(GetAluSignal(inst), a,
                             IF SystemSignals(inst).alu_src THEN ToWord(inst.imm) ELSE b)

-----------------------------------------------------------------------------
(* SYSTEM *)

IsEcall(inst) == inst.opcode = "SYSTEM" /\ inst.funct = "ecall"
IsCsr(inst) == inst.opcode = "SYSTEM" /\ inst.funct # "ecall"

Buffer(s) == [i \in 1 .. s.gpr[A2] |-> s.memory[ToWord(s.gpr[A1] + i - 1)]]

\* Printing an integer, and writing a buffer to stdout (file descriptor 1).
HandleSyscall(s) ==
    CASE s.gpr[A7] = SYSCALL_PRINT_INT -> [s EXCEPT !.output = Append(@, s.gpr[A0])]
      [] s.gpr[A7] = SYSCALL_WRITE /\ s.gpr[A0] = 1 ->
            [s EXCEPT !.output = @ \o Buffer(s), !.gpr[A0] = s.gpr[A2]]
      [] OTHER -> s

\* Mutant: CSRRS adds instead of setting bits.
CsrValueSum(inst, old, value) == IF inst.funct = "csrrw" THEN value ELSE old + value

\* CSRRW and CSRRS
CsrValue(inst, old, value) == IF inst.funct = "csrrw" THEN value ELSE BitOr(old, value)

ExecuteCsr(inst, s) ==
    LET value == s.gpr[inst.rs1]
    IN  [s EXCEPT !.gpr = WriteGpr(@, inst.rd, s.csr),
                  !.csr = CsrValue(inst, @, value)]

-----------------------------------------------------------------------------
Loaded(inst, s, result) == IF SystemSignals(inst).mem_read THEN s.memory[result] ELSE result

\* Execute, WriteMemory and WriteBack of anything but SYSTEM.
ExecuteOther(inst, s) ==
    LET first == ReadRegister(s, FirstFile(inst), inst.rs1)
        second == ReadRegister(s, SecondFile(inst), inst.rs2)
        result == Computed(inst, first, second)
        signals == SystemSignals(inst)
    IN  IF signals.mem_write
        THEN [s EXCEPT !.memory = WriteDoubleWord(@, result, second)]
        ELSE IF signals.reg_write
        THEN WriteRegister(s, DestinationFile(inst), inst.rd, Loaded(inst, s, result))
        ELSE s

InOrder(inst, s) ==
    IF IsEcall(inst) THEN HandleSyscall(s)
    ELSE IF IsCsr(inst) THEN ExecuteCsr(inst, s)
    ELSE ExecuteOther(inst, s)

ExecuteOne ==
    /\ pc' = pc + 1
    /\ state' = InOrder(CodeAt(pc), state)
    /\ UNCHANGED code
==============================================================================
