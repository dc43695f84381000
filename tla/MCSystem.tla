------------------------------- MODULE MCSystem -------------------------------
(***************************************************************************)
(* Every sequence of four instructions of a pool of seventeen.              *)
(***************************************************************************)
EXTENDS SystemPipelineProperties, Bitwise

R(opcode, funct, rd, rs1, rs2, imm) ==
    [opcode |-> opcode, funct |-> funct, rd |-> rd, rs1 |-> rs1, rs2 |-> rs2, imm |-> imm]

\* Registers 1, 2 and 3 are a0, a1 and a7; a1 also plays a2.
Pool == {
    R("OPIMM", "add", 1, 0, 0, 2), R("OPIMM", "add", 3, 0, 0, 1), R("OP", "add", 2, 1, 2, 0),
    R("LOAD", "none", 1, 2, 0, 0), R("STORE", "none", 0, 2, 1, 0),
    R("FP", "fadd.s", 1, 1, 2, 0), R("FP", "fadd.s", 0, 1, 1, 0), R("FP", "fadd.s", 2, 0, 1, 0),
    R("FP", "feq.s", 1, 1, 2, 0), R("FP", "fmv.x.w", 2, 1, 0, 0), R("FP", "fmv.w.x", 1, 1, 0, 0),
    R("FLOAD", "none", 1, 1, 0, 0), R("FSTORE", "none", 0, 2, 1, 0),
    R("SYSTEM", "ecall", 0, 0, 0, 0), R("SYSTEM", "csrrw", 0, 1, 0, 0),
    R("SYSTEM", "csrrs", 0, 2, 0, 0), R("SYSTEM", "csrrw", 2, 1, 0, 0)}

MCBitOr(a, b) == a | b

MCCode == [1 .. 4 -> Pool]

MCState ==
    {[gpr |-> [r \in Reg |-> IF r = 0 THEN 0 ELSE IF r = 3 THEN call ELSE r],
      fpr |-> [r \in Reg |-> (r + 1) % WordMod],
      csr |-> 1,
      memory |-> [a \in Word |-> (a + 2) % WordMod],
      output |-> <<>>] : call \in {SYSCALL_PRINT_INT, SYSCALL_WRITE}}
===============================================================================
