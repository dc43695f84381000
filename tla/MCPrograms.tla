------------------------------ MODULE MCPrograms ------------------------------
(***************************************************************************)
(* Instructions and small programs for the instances TLC checks.           *)
(***************************************************************************)
EXTENDS Machine, Sequences, TLC

R(opcode, funct, rd, rs1, rs2, imm) ==
    [opcode |-> opcode, funct |-> funct, rd |-> rd, rs1 |-> rs1, rs2 |-> rs2, imm |-> imm]

Addi(rd, rs1, imm) == R("OPIMM", "add", rd, rs1, 0, imm)
Add(rd, rs1, rs2) == R("OP", "add", rd, rs1, rs2, 0)
Sub(rd, rs1, rs2) == R("OP", "sub", rd, rs1, rs2, 0)
Ld(rd, rs1, imm) == R("LOAD", "none", rd, rs1, 0, imm)
Sd(rs2, rs1, imm) == R("STORE", "none", 0, rs1, rs2, imm)
Beq(rs1, rs2, imm) == R("BRANCH", "beq", 0, rs1, rs2, imm)
Bne(rs1, rs2, imm) == R("BRANCH", "bne", 0, rs1, rs2, imm)
Blt(rs1, rs2, imm) == R("BRANCH", "blt", 0, rs1, rs2, imm)
Bgeu(rs1, rs2, imm) == R("BRANCH", "bgeu", 0, rs1, rs2, imm)
Jal(rd, imm) == R("JAL", "none", rd, 0, 0, imm)
Jalr(rd, rs1, imm) == R("JALR", "none", rd, rs1, 0, imm)
Addw(rd, rs1, rs2) == R("OP32", "add", rd, rs1, rs2, 0)
Lui(rd, imm) == R("LUI", "none", rd, 0, 0, imm)
Auipc(rd, imm) == R("AUIPC", "none", rd, 0, 0, imm)

MCData == (0 :> 3) @@ (1 :> 2) @@ (2 :> 1)

\* The program made of the instructions of s, followed by unwritten memory.
Assemble(s) ==
    [size |-> Len(s),
     code |-> [a \in TextAddr |-> IF a < Len(s) THEN s[a + 1] ELSE ZeroInst],
     data |-> MCData]

\* Labels resolve to an instruction of the program or to its end.
WellFormed(s) ==
    \A i \in 1 .. Len(s) :
        s[i].opcode \in {"BRANCH", "JAL"} => (i - 1) + s[i].imm \in 0 .. Len(s)

Programs(pool, n) == {Assemble(s) : s \in {t \in [1 .. n -> pool] : WellFormed(t)}}
===============================================================================
