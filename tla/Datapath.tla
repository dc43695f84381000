------------------------------ MODULE Datapath ------------------------------
(***************************************************************************)
(* The parts of the simulator that the single-cycle path and the five-stage*)
(* pipeline share: instructions as the decoder sees them, the control      *)
(* signals of RVSSControlUnit, the integer ALU, the branch comparator and  *)
(* the register file and memory accessors.                                 *)
(*                                                                         *)
(* Abstractions.  An instruction is its decoded fields: "opcode" is the    *)
(* opcode class, "funct" stands for funct3/funct7 and "imm" is what        *)
(* ImmGenerator returns.  Program counters count instructions, not bytes,  *)
(* so jump and branch immediates count instructions too.  A memory cell    *)
(* holds one register-sized value (LD and SD; the other widths go through  *)
(* the same control path).  Floating point and SYSTEM opcodes are left to  *)
(* other modules.                                                          *)
(***************************************************************************)
EXTENDS Integers

CONSTANTS
    Reg,        \* the register numbers in use, 0..31 in the code
    WordMod,    \* 2^64 in the code: registers wrap modulo WordMod
    UpperScale  \* 2^12 in the code: what LUI and AUIPC multiply by

ASSUME RegAssumption == Reg \subseteq Nat /\ 0 \in Reg
ASSUME WordAssumption == WordMod \in Nat /\ WordMod > 1
ASSUME UpperAssumption == UpperScale \in Nat

Word == 0 .. (WordMod - 1)

ToWord(n) == n % WordMod

\* static_cast<int64_t> of a register value
Signed(a) == IF 2 * a >= WordMod THEN a - WordMod ELSE a

-----------------------------------------------------------------------------
Opcode == {"OP", "OPIMM", "OP32", "OPIMM32", "LOAD", "STORE", "BRANCH",
           "JAL", "JALR", "LUI", "AUIPC", "NONE"}

Funct == {"add", "sub", "slt", "sltu",
          "beq", "bne", "blt", "bge", "bltu", "bgeu", "none"}

Instruction == [opcode : Opcode, funct : Funct,
                rd : Reg, rs1 : Reg, rs2 : Reg, imm : Int]

\* A word of memory nothing was written to reads as 0, which decodes to an
\* instruction without any control signal.
ZeroInst == [opcode |-> "NONE", funct |-> "none",
             rd |-> 0, rs1 |-> 0, rs2 |-> 0, imm |-> 0]

IsJump(inst) == inst.opcode \in {"JAL", "JALR"}

IsControlFlow(inst) == inst.opcode \in {"JAL", "JALR", "BRANCH"}

-----------------------------------------------------------------------------
(* RVSSControlUnit *)

Signals == [alu_src : BOOLEAN, mem_to_reg : BOOLEAN, reg_write : BOOLEAN,
            mem_read : BOOLEAN, mem_write : BOOLEAN]

NoSignals == [alu_src |-> FALSE, mem_to_reg |-> FALSE, reg_write |-> FALSE,
              mem_read |-> FALSE, mem_write |-> FALSE]

\* The 32-bit forms (OP32, OPIMM32) have no case of their own in the switch.
SetControlSignals(inst) ==
    [alu_src    |-> inst.opcode \in {"LOAD", "STORE", "OPIMM", "LUI", "AUIPC", "JALR"},
     mem_to_reg |-> inst.opcode = "LOAD",
     reg_write  |-> inst.opcode \in {"OP", "LOAD", "OPIMM", "LUI", "AUIPC", "JAL", "JALR"},
     mem_read   |-> inst.opcode = "LOAD",
     mem_write  |-> inst.opcode = "STORE"]

GetAluSignal(inst) ==
    CASE inst.opcode \in {"OP", "OPIMM", "OP32", "OPIMM32"} -> inst.funct
      [] inst.opcode = "BRANCH" ->
            (CASE inst.funct \in {"beq", "bne"} -> "sub"
               [] inst.funct \in {"blt", "bge"} -> "slt"
               [] OTHER -> "sltu")
      [] inst.opcode = "NONE" -> "none"
      [] OTHER -> "add"

AluExecute(op, a, b) ==
    CASE op = "add"  -> ToWord(a + b)
      [] op = "sub"  -> ToWord(a - b)
      [] op = "slt"  -> IF Signed(a) < Signed(b) THEN 1 ELSE 0
      [] op = "sltu" -> IF a < b THEN 1 ELSE 0
      [] OTHER -> 0

\* Branch_Comparision::result, which the decode stage of the pipeline uses.
BranchCompare(funct, a, b) ==
    CASE funct = "beq"  -> a = b
      [] funct = "bne"  -> a # b
      [] funct = "blt"  -> Signed(a) < Signed(b)
      [] funct = "bge"  -> Signed(a) >= Signed(b)
      [] funct = "bltu" -> a < b
      [] funct = "bgeu" -> a >= b
      [] OTHER -> FALSE

\* The single-cycle path has no comparator: it reads the outcome off the ALU.
BranchFlag(funct, result) ==
    CASE funct \in {"beq", "bge", "bgeu"} -> result = 0
      [] funct = "bne" -> result # 0
      [] funct \in {"blt", "bltu"} -> result = 1
      [] OTHER -> FALSE

\* imm << 12
Upper(inst) == inst.imm * UpperScale

-----------------------------------------------------------------------------
(* RegisterFile and MemoryController *)

\* WriteGpr ignores x0.
WriteGpr(gpr, rd, value) == IF rd = 0 THEN gpr ELSE [gpr EXCEPT ![rd] = value]

WriteDoubleWord(memory, address, value) == [memory EXCEPT ![address] = value]

ZeroGpr == [r \in Reg |-> 0]
ZeroMemory == [a \in Word |-> 0]
=============================================================================
