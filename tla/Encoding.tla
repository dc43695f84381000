------------------------------- MODULE Encoding -------------------------------
(***************************************************************************)
(* Instructions as 32-bit words: what the code generator puts together and *)
(* what the machine takes apart again.                                     *)
(*                                                                         *)
(* A word is the set of its bits that are one.                             *)
(***************************************************************************)
EXTENDS Integers

Word == SUBSET (0 .. 31)

\* The low bits of an integer in two's complement; bits above 30 are its sign
\* (TLC's integers have 32 bits).
Bits(n, width) ==
    {b \in 0 .. (width - 1) : (n \div 2 ^ (IF b < 30 THEN b ELSE 30)) % 2 = 1}

\* (word >> low) & mask and value << n, as uint32_t
Field(word, low, width) == {b \in 0 .. (width - 1) : b + low \in word}
Shl(value, n) == {b \in 0 .. 31 : b - n \in value}

-----------------------------------------------------------------------------
(* The encoding tables: one mnemonic or a few of each format. *)

Instruction == [
    add   |-> [type |-> "R",  opcode |-> {0, 1, 4, 5}, funct3 |-> {}, funct7 |-> {}],
    sub   |-> [type |-> "R",  opcode |-> {0, 1, 4, 5}, funct3 |-> {}, funct7 |-> {5}],
    addi  |-> [type |-> "I1", opcode |-> {0, 1, 4}, funct3 |-> {}],
    addiw |-> [type |-> "I1", opcode |-> {0, 1, 3, 4}, funct3 |-> {}],
    lw    |-> [type |-> "I1", opcode |-> {0, 1}, funct3 |-> {1}],
    flw   |-> [type |-> "I1", opcode |-> {0, 1, 2}, funct3 |-> {1}],
    jalr  |-> [type |-> "I1", opcode |-> {0, 1, 2, 5, 6}, funct3 |-> {}],
    slli  |-> [type |-> "I2", opcode |-> {0, 1, 4}, funct3 |-> {0}, funct6 |-> {}],
    srai  |-> [type |-> "I2", opcode |-> {0, 1, 4}, funct3 |-> {0, 2}, funct6 |-> {4}],
    sw    |-> [type |-> "S",  opcode |-> {0, 1, 5}, funct3 |-> {1}],
    fsw   |-> [type |-> "S",  opcode |-> {0, 1, 2, 5}, funct3 |-> {1}],
    beq   |-> [type |-> "B",  opcode |-> {0, 1, 5, 6}, funct3 |-> {}],
    lui   |-> [type |-> "U",  opcode |-> {0, 1, 2, 4, 5}],
    auipc |-> [type |-> "U",  opcode |-> {0, 1, 2, 4}],
    jal   |-> [type |-> "J",  opcode |-> {0, 1, 2, 3, 5, 6}]
]

Mnemonic == DOMAIN Instruction
OfType(types) == {m \in Mnemonic : Instruction[m].type \in types}

-----------------------------------------------------------------------------
(* The generators.  Their arguments are the bits of the fields. *)

GenerateR(e, rd, rs1, rs2) ==
    Shl(e.funct7, 25) \cup Shl(rs2, 20) \cup Shl(rs1, 15) \cup Shl(e.funct3, 12)
    \cup Shl(rd, 7) \cup e.opcode

GenerateI1(e, rd, rs1, imm) ==
    Shl(imm, 20) \cup Shl(rs1, 15) \cup Shl(e.funct3, 12) \cup Shl(rd, 7) \cup e.opcode

GenerateI2(e, rd, rs1, imm) ==
    Shl(e.funct6, 26) \cup Shl(imm, 20) \cup Shl(rs1, 15) \cup Shl(e.funct3, 12)
    \cup Shl(rd, 7) \cup e.opcode

GenerateS(e, rs1, rs2, imm) ==
    Shl(Field(imm, 5, 7), 25) \cup Shl(rs2, 20) \cup Shl(rs1, 15) \cup Shl(e.funct3, 12)
    \cup Shl(Field(imm, 0, 5), 7) \cup e.opcode

\* Mutant: bits 11 and 12 of the offset are swapped.
GenerateBSwapped(e, rs1, rs2, imm) ==
    Shl(Field(imm, 11, 1), 31) \cup Shl(Field(imm, 5, 6), 25) \cup Shl(rs2, 20)
    \cup Shl(rs1, 15) \cup Shl(e.funct3, 12) \cup Shl(Field(imm, 1, 4), 8)
    \cup Shl(Field(imm, 12, 1), 7) \cup e.opcode

GenerateB(e, rs1, rs2, imm) ==
    Shl(Field(imm, 12, 1), 31) \cup Shl(Field(imm, 5, 6), 25) \cup Shl(rs2, 20)
    \cup Shl(rs1, 15) \cup Shl(e.funct3, 12) \cup Shl(Field(imm, 1, 4), 8)
    \cup Shl(Field(imm, 11, 1), 7) \cup e.opcode

GenerateU(e, rd, imm) == Shl(Field(imm, 0, 20), 12) \cup Shl(rd, 7) \cup e.opcode

GenerateJ(e, rd, imm) ==
    Shl(imm \cap {20}, 11) \cup Shl(imm \cap (1 .. 10), 20) \cup Shl(imm \cap {11}, 9)
    \cup (imm \cap (12 .. 19)) \cup Shl(rd, 7) \cup e.opcode

\* The loop of generateMachineCode, for one unit of intermediate code.
MachineCode(block) ==
    LET e == Instruction[block.opcode]
        rd == Bits(block.rd, 5)
        rs1 == Bits(block.rs1, 5)
        rs2 == Bits(block.rs2, 5)
        imm == Bits(block.imm, 32)
    IN  CASE e.type = "R" -> GenerateR(e, rd, rs1, rs2)
          [] e.type = "I1" -> GenerateI1(e, rd, rs1, imm)
          [] e.type = "I2" -> GenerateI2(e, rd, rs1, imm)
          [] e.type = "S" -> GenerateS(e, rs1, rs2, imm)
          [] e.type = "B" -> GenerateB(e, rs1, rs2, imm)
          [] e.type = "U" -> GenerateU(e, rd, imm)
          [] e.type = "J" -> GenerateJ(e, rd, imm)

-----------------------------------------------------------------------------
(* The machine's side: the fields decode takes out of a word. *)

Opcode(word) == Field(word, 0, 7)
Rd(word) == Field(word, 7, 5)
Funct3(word) == Field(word, 12, 3)
Rs1(word) == Field(word, 15, 5)
Rs2(word) == Field(word, 20, 5)
Funct7(word) == Field(word, 25, 7)

\* (value ^ mask) - mask
SignExtend(value, width) ==
    IF width - 1 \in value THEN value \cup (width .. 31) ELSE value

ImmI(word) == SignExtend(Field(word, 20, 12), 12)

ImmS(word) == SignExtend(Field(word, 7, 5) \cup Shl(Field(word, 25, 7), 5), 12)

ImmB(word) ==
    SignExtend(Shl(Field(word, 8, 4) \cup Shl(Field(word, 25, 6), 4)
                   \cup Shl(Field(word, 7, 1), 10) \cup Shl(Field(word, 31, 1), 11), 1), 13)

ImmU(word) == Field(word, 12, 20)

ImmJ(word) ==
    SignExtend(Shl(Field(word, 21, 10) \cup Shl(Field(word, 20, 1), 10)
                   \cup Shl(Field(word, 12, 8), 11) \cup Shl(Field(word, 31, 1), 19), 1), 21)

\* The switch over the opcode; the opcode of addiw is in none of its cases.
ImmGenerator(word) ==
    CASE Opcode(word) \in {{0, 1, 4}, {0, 1}, {0, 1, 2, 5, 6}, {0, 1, 2, 3}, {0, 1, 2}} ->
             ImmI(word)
      [] Opcode(word) \in {{0, 1, 5}, {0, 1, 2, 5}} -> ImmS(word)
      [] Opcode(word) = {0, 1, 5, 6} -> ImmB(word)
      [] Opcode(word) \in {{0, 1, 2, 4, 5}, {0, 1, 2, 4}} -> ImmU(word)
      [] Opcode(word) = {0, 1, 2, 3, 5, 6} -> ImmJ(word)
      [] OTHER -> {}
===============================================================================
