---------------------------- MODULE EncodingProofs -----------------------------
(***************************************************************************)
(* The machine takes out of a word what the code generator put into it,    *)
(* for every register and every immediate of the width the format has.     *)
(* The memory that holds the words is an array of bytes, whatever the size *)
(* of its blocks.                                                          *)
(***************************************************************************)
EXTENDS Encoding, MainMemory, TLAPS

\* imm is an integer in -2^(width-1) .. 2^(width-1)-1, as 32 bits: its bits from
\* width-1 on are copies of the sign.
Signed(imm, width) ==
    /\ imm \subseteq 0 .. 31
    /\ \A b \in (width - 1) .. 31 : b \in imm <=> width - 1 \in imm

RegisterField == SUBSET (0 .. 4)

LEMMA Partition ==
    ASSUME NEW All, NEW Low, NEW High, NEW S, S \subseteq All, High \subseteq All,
           \A b \in All : b \in Low <=> b \notin High
    PROVE  /\ High \subseteq S => (S \cap Low) \cup High = S
           /\ (\A b \in High : b \notin S) => S \cap Low = S
  OBVIOUS

LEMMA SignExtendRestores ==
    ASSUME NEW width \in 1 .. 32, NEW imm, Signed(imm, width)
    PROVE  SignExtend(imm \cap (0 .. (width - 1)), width) = imm
<1> DEFINE Low == 0 .. (width - 1)
           High == width .. 31
           All == 0 .. 31
<1>1. imm \subseteq All /\ High \subseteq All
  BY DEF Signed
<1>2. \A b \in All : b \in Low <=> b \notin High
  OBVIOUS
<1>3. width - 1 \in Low
  OBVIOUS
<1>4. CASE width - 1 \in imm
  <2>1. High \subseteq imm
    BY <1>4 DEF Signed
  <2>2. SignExtend(imm \cap Low, width) = (imm \cap Low) \cup High
    BY <1>3, <1>4 DEF SignExtend
  <2>3. (imm \cap Low) \cup High = imm
    BY <1>1, <1>2, <2>1, Partition
  <2> QED
    BY <2>2, <2>3
<1>5. CASE width - 1 \notin imm
  <2>1. \A b \in High : b \notin imm
    BY <1>5 DEF Signed
  <2>2. SignExtend(imm \cap Low, width) = imm \cap Low
    BY <1>5 DEF SignExtend
  <2>3. imm \cap Low = imm
    BY <1>1, <1>2, <2>1, Partition
  <2> QED
    BY <2>2, <2>3
<1> QED
  BY <1>4, <1>5

\* A 12-bit immediate of ADDI, a load or JALR.
THEOREM ImmediateI ==
    ASSUME NEW e, e.opcode \subseteq 0 .. 6, e.funct3 \subseteq 0 .. 2,
           NEW rd \in RegisterField, NEW rs1 \in RegisterField,
           NEW imm, Signed(imm, 12)
    PROVE  ImmI(GenerateI1(e, rd, rs1, imm)) = imm
<1> DEFINE word == GenerateI1(e, rd, rs1, imm)
<1>1. Field(word, 20, 12) = imm \cap (0 .. 11)
  BY DEF Field, GenerateI1, Shl, Signed, RegisterField
<1> QED
  BY <1>1, SignExtendRestores DEF ImmI

\* The split immediate of a store.
THEOREM ImmediateS ==
    ASSUME NEW e, e.opcode \subseteq 0 .. 6, e.funct3 \subseteq 0 .. 2,
           NEW rs1 \in RegisterField, NEW rs2 \in RegisterField,
           NEW imm, Signed(imm, 12)
    PROVE  ImmS(GenerateS(e, rs1, rs2, imm)) = imm
<1> DEFINE word == GenerateS(e, rs1, rs2, imm)
<1>1. Field(word, 7, 5) = imm \cap (0 .. 4)
  BY DEF Field, GenerateS, Shl, Signed, RegisterField
<1>2. Shl(Field(word, 25, 7), 5) = imm \cap (5 .. 11)
  BY DEF Field, GenerateS, Shl, Signed, RegisterField
<1>3. Field(word, 7, 5) \cup Shl(Field(word, 25, 7), 5) = imm \cap (0 .. 11)
  BY <1>1, <1>2 DEF Signed
<1> QED
  BY <1>3, SignExtendRestores DEF ImmS

\* The even 13-bit offset of a branch.
THEOREM ImmediateB ==
    ASSUME NEW e, e.opcode \subseteq 0 .. 6, e.funct3 \subseteq 0 .. 2,
           NEW rs1 \in RegisterField, NEW rs2 \in RegisterField,
           NEW imm, Signed(imm, 13), 0 \notin imm
    PROVE  ImmB(GenerateB(e, rs1, rs2, imm)) = imm
<1> DEFINE word == GenerateB(e, rs1, rs2, imm)
<1>1. Field(word, 8, 4) = Field(imm, 1, 4)
  BY DEF Field, GenerateB, Shl, Signed, RegisterField
<1>2. Field(word, 25, 6) = Field(imm, 5, 6)
  BY DEF Field, GenerateB, Shl, Signed, RegisterField
<1>3. Field(word, 7, 1) = Field(imm, 11, 1)
  BY DEF Field, GenerateB, Shl, Signed, RegisterField
<1>4. Field(word, 31, 1) = Field(imm, 12, 1)
  BY DEF Field, GenerateB, Shl, Signed, RegisterField
<1>5. Shl(Field(imm, 1, 4) \cup Shl(Field(imm, 5, 6), 4) \cup Shl(Field(imm, 11, 1), 10)
          \cup Shl(Field(imm, 12, 1), 11), 1) = imm \cap (0 .. 12)
  BY DEF Field, Shl, Signed
<1>6. ImmB(word) = SignExtend(imm \cap (0 .. 12), 13)
  BY <1>1, <1>2, <1>3, <1>4, <1>5 DEF ImmB
<1> HIDE DEF word
<1> QED
  BY <1>6, SignExtendRestores DEF word

\* The even 21-bit offset of a jump.
THEOREM ImmediateJ ==
    ASSUME NEW e, e.opcode \subseteq 0 .. 6,
           NEW rd \in RegisterField,
           NEW imm, Signed(imm, 21), 0 \notin imm
    PROVE  ImmJ(GenerateJ(e, rd, imm)) = imm
<1> DEFINE word == GenerateJ(e, rd, imm)
<1>1. Field(word, 21, 10) = Field(imm, 1, 10)
  BY DEF Field, GenerateJ, Shl, Signed, RegisterField
<1>2. Field(word, 20, 1) = Field(imm, 11, 1)
  BY DEF Field, GenerateJ, Shl, Signed, RegisterField
<1>3. Field(word, 12, 8) = Field(imm, 12, 8)
  BY DEF Field, GenerateJ, Shl, Signed, RegisterField
<1>4. Field(word, 31, 1) = Field(imm, 20, 1)
  BY DEF Field, GenerateJ, Shl, Signed, RegisterField
<1>5. Shl(Field(imm, 1, 10) \cup Shl(Field(imm, 11, 1), 10) \cup Shl(Field(imm, 12, 8), 11)
          \cup Shl(Field(imm, 20, 1), 19), 1) = imm \cap (0 .. 20)
  BY DEF Field, Shl, Signed
<1>6. ImmJ(word) = SignExtend(imm \cap (0 .. 20), 21)
  BY <1>1, <1>2, <1>3, <1>4, <1>5 DEF ImmJ
<1> HIDE DEF word
<1> QED
  BY <1>6, SignExtendRestores DEF word

-----------------------------------------------------------------------------
(* The bits of integers. *)

LEMMA PowerGrows ==
    ASSUME NEW b \in 5 .. 30
    PROVE  2 ^ b \in Nat /\ 2 ^ b >= 2 ^ 5 /\ (b >= 11 => 2 ^ b >= 2 ^ 11) /\ (b >= 12 => 2 ^ b >= 2 ^ 12)
 /\ (b >= 20 => 2 ^ b >= 2 ^ 20)
<1>5. CASE b = 5  BY <1>5, SMT
<1>6. CASE b = 6  BY <1>6, SMT
<1>7. CASE b = 7  BY <1>7, SMT
<1>8. CASE b = 8  BY <1>8, SMT
<1>9. CASE b = 9  BY <1>9, SMT
<1>10. CASE b = 10  BY <1>10, SMT
<1>11. CASE b = 11  BY <1>11, SMT
<1>12. CASE b = 12  BY <1>12, SMT
<1>13. CASE b = 13  BY <1>13, SMT
<1>14. CASE b = 14  BY <1>14, SMT
<1>15. CASE b = 15  BY <1>15, SMT
<1>16. CASE b = 16  BY <1>16, SMT
<1>17. CASE b = 17  BY <1>17, SMT
<1>18. CASE b = 18  BY <1>18, SMT
<1>19. CASE b = 19  BY <1>19, SMT
<1>20. CASE b = 20  BY <1>20, SMT
<1>21. CASE b = 21  BY <1>21, SMT
<1>22. CASE b = 22  BY <1>22, SMT
<1>23. CASE b = 23  BY <1>23, SMT
<1>24. CASE b = 24  BY <1>24, SMT
<1>25. CASE b = 25  BY <1>25, SMT
<1>26. CASE b = 26  BY <1>26, SMT
<1>27. CASE b = 27  BY <1>27, SMT
<1>28. CASE b = 28  BY <1>28, SMT
<1>29. CASE b = 29  BY <1>29, SMT
<1>30. CASE b = 30  BY <1>30, SMT
<1> QED
  <2>1. b = 5 \/ b = 6 \/ b = 7 \/ b = 8 \/ b = 9 \/ b = 10 \/ b = 11 \/ b = 12 \/ b = 13 \/ b = 14
       \/ b = 15 \/ b = 16 \/ b = 17 \/ b = 18 \/ b = 19 \/ b = 20 \/ b = 21 \/ b = 22 \/ b = 23
       \/ b = 24 \/ b = 25 \/ b = 26 \/ b = 27 \/ b = 28 \/ b = 29 \/ b = 30
    OBVIOUS
  <2> QED
    BY <2>1, <1>5, <1>6, <1>7, <1>8, <1>9, <1>10, <1>11, <1>12, <1>13, <1>14, <1>15, <1>16, <1>17,
         <1>18, <1>19, <1>20, <1>21, <1>22, <1>23, <1>24, <1>25, <1>26, <1>27, <1>28, <1>29, <1>30

LEMMA SmallQuotient ==
    ASSUME NEW n \in Int, NEW m \in Nat, m > 0, -m <= n, n < m
    PROVE  n \div m = IF n < 0 THEN -1 ELSE 0
  OBVIOUS

\* An integer that fits width bits has a sign and width - 1 bits more.
LEMMA SmallBits ==
    ASSUME NEW low \in {11, 12, 20}, NEW width, width = low + 1,
           NEW n, n \in -(2 ^ low) .. (2 ^ low - 1)
    PROVE  Signed(Bits(n, 32), width)
<1>1. ASSUME NEW b \in low .. 31
      PROVE  b \in Bits(n, 32) <=> n < 0
  <2> DEFINE c == IF b < 30 THEN b ELSE 30
             m == 2 ^ c
  <2>1. m \in Nat /\ m >= 2 ^ low
    <3>1. c \in 11 .. 30 /\ (low = 12 => c >= 12) /\ (low = 20 => c >= 20)
      OBVIOUS
    <3> HIDE DEF c
    <3>2. c \in 5 .. 30 /\ c >= 11
      BY <3>1
    <3>3. /\ 2 ^ c \in Nat /\ 2 ^ c >= 2 ^ 11 /\ (c >= 12 => 2 ^ c >= 2 ^ 12)
          /\ c >= 20 => 2 ^ c >= 2 ^ 20
      BY <3>2, PowerGrows, Zenon
    <3> QED BY <3>1, <3>3, Zenon
  <2>2. 2 ^ low \in Nat
    BY SMT
  <2> HIDE DEF m
  <2>3. n \div m = IF n < 0 THEN -1 ELSE 0
    BY <2>1, <2>2, SmallQuotient
  <2>4. (n \div m) % 2 = 1 <=> n < 0
    BY <2>2, <2>3
  <2> QED BY <2>4 DEF Bits, m, c
<1>2. low \in low .. 31
  OBVIOUS
<1>3. width - 1 = low
  OBVIOUS
<1> QED BY <1>1, <1>2, <1>3 DEF Bits, Signed

LEMMA EvenBits ==
    ASSUME NEW n \in Int, n % 2 = 0
    PROVE  0 \notin Bits(n, 32)
<1>1. 2 ^ (IF 0 < 30 THEN 0 ELSE 30) = 1
  BY SMT
<1> QED BY <1>1 DEF Bits

\* A shift amount has five bits.
LEMMA ShiftBits ==
    ASSUME NEW n \in 0 .. 31
    PROVE  Bits(n, 32) \subseteq 0 .. 4 /\ Bits(n, 6) = Bits(n, 32)
<1>1. ASSUME NEW b \in 5 .. 31
      PROVE  (n \div 2 ^ (IF b < 30 THEN b ELSE 30)) % 2 # 1
  <2> DEFINE c == IF b < 30 THEN b ELSE 30
             m == 2 ^ c
  <2>1. m \in Nat /\ m >= 32
    <3>1. c \in 5 .. 30
      OBVIOUS
    <3> HIDE DEF c
    <3>2. 2 ^ c \in Nat /\ 2 ^ c >= 2 ^ 5
      BY <3>1, PowerGrows
    <3>3. 2 ^ 5 = 32
      BY SMT
    <3> QED BY <3>2, <3>3
  <2> HIDE DEF m
  <2>2. (n \div m) % 2 # 1
    BY <2>1, SmallQuotient
  <2> QED BY <2>2 DEF m, c
<1>2. \A b \in 0 .. 31 : b \in 5 .. 31 \/ b \in 0 .. 4
  OBVIOUS
<1>3. Bits(n, 32) \subseteq 0 .. 4
  <2> SUFFICES ASSUME NEW b \in Bits(n, 32) PROVE b \in 0 .. 4
    OBVIOUS
  <2>1. b \in 0 .. 31 /\ (n \div 2 ^ (IF b < 30 THEN b ELSE 30)) % 2 = 1
    BY DEF Bits
  <2> QED BY <1>1, <1>2, <2>1
<1>4. Bits(n, 6) \subseteq Bits(n, 32)
  BY DEF Bits
<1>5. \A b \in 0 .. 4 : b \in Bits(n, 32) => b \in Bits(n, 6)
  BY DEF Bits
<1> QED BY <1>3, <1>4, <1>5

-----------------------------------------------------------------------------
(* The instruction table. *)

LEMMA Mnemonics ==
    Mnemonic = {"add", "sub", "addi", "addiw", "lw", "flw", "jalr", "slli", "srai", "sw",
                "fsw", "beq", "lui", "auipc", "jal"}
  BY DEF Mnemonic, Instruction

\* The rows of the table, and its columns.
LEMMA Rows ==
    /\ Instruction["add"] = [type |-> "R",  opcode |-> {0, 1, 4, 5}, funct3 |-> {}, funct7 |-> {}]
    /\ Instruction["sub"] = [type |-> "R",  opcode |-> {0, 1, 4, 5}, funct3 |-> {}, funct7 |-> {5}]
    /\ Instruction["addi"] = [type |-> "I1", opcode |-> {0, 1, 4}, funct3 |-> {}]
    /\ Instruction["addiw"] = [type |-> "I1", opcode |-> {0, 1, 3, 4}, funct3 |-> {}]
    /\ Instruction["lw"] = [type |-> "I1", opcode |-> {0, 1}, funct3 |-> {1}]
    /\ Instruction["flw"] = [type |-> "I1", opcode |-> {0, 1, 2}, funct3 |-> {1}]
    /\ Instruction["jalr"] = [type |-> "I1", opcode |-> {0, 1, 2, 5, 6}, funct3 |-> {}]
    /\ Instruction["slli"] = [type |-> "I2", opcode |-> {0, 1, 4}, funct3 |-> {0}, funct6 |-> {}]
    /\ Instruction["srai"] = [type |-> "I2", opcode |-> {0, 1, 4}, funct3 |-> {0, 2}, funct6 |-> {4}]
    /\ Instruction["sw"] = [type |-> "S",  opcode |-> {0, 1, 5}, funct3 |-> {1}]
    /\ Instruction["fsw"] = [type |-> "S",  opcode |-> {0, 1, 2, 5}, funct3 |-> {1}]
    /\ Instruction["beq"] = [type |-> "B",  opcode |-> {0, 1, 5, 6}, funct3 |-> {}]
    /\ Instruction["lui"] = [type |-> "U",  opcode |-> {0, 1, 2, 4, 5}]
    /\ Instruction["auipc"] = [type |-> "U",  opcode |-> {0, 1, 2, 4}]
    /\ Instruction["jal"] = [type |-> "J",  opcode |-> {0, 1, 2, 3, 5, 6}]
  BY DEF Instruction

\* The columns of the table.
LEMMA Types ==
    ASSUME NEW m \in Mnemonic
    PROVE  Instruction[m].type =
               CASE m \in {"add", "sub"} -> "R"
                 [] m \in {"addi", "addiw", "lw", "flw", "jalr"} -> "I1"
                 [] m \in {"slli", "srai"} -> "I2"
                 [] m \in {"sw", "fsw"} -> "S"
                 [] m = "beq" -> "B"
                 [] m \in {"lui", "auipc"} -> "U"
                 [] m = "jal" -> "J"
  BY Mnemonics, Rows

LEMMA Opcodes ==
    ASSUME NEW m \in Mnemonic
    PROVE  LET o == Instruction[m].opcode
           IN  /\ o \subseteq 0 .. 6
               /\ m \in {"addi", "lw", "flw", "jalr", "slli", "srai"} =>
                      o \in {{0, 1, 4}, {0, 1}, {0, 1, 2, 5, 6}, {0, 1, 2, 3}, {0, 1, 2}}
               /\ m \in {"sw", "fsw"} => o \in {{0, 1, 5}, {0, 1, 2, 5}}
               /\ m = "beq" => o = {0, 1, 5, 6}
               /\ m \in {"lui", "auipc"} => o \in {{0, 1, 2, 4, 5}, {0, 1, 2, 4}}
               /\ m = "jal" => o = {0, 1, 2, 3, 5, 6}
  BY Mnemonics, Rows

LEMMA Functions ==
    ASSUME NEW m \in Mnemonic
    PROVE  LET e == Instruction[m]
           IN  /\ e.type \in {"R", "I1", "I2", "S", "B"} => e.funct3 \subseteq 0 .. 2
               /\ e.type = "R" => e.funct7 \subseteq 0 .. 6
               /\ e.type = "I2" => e.funct6 \subseteq 0 .. 5
  BY Mnemonics, Rows

-----------------------------------------------------------------------------
(* The fields of a word. *)

\* A field is its bits.
LEMMA FieldsAre ==
    ASSUME NEW word, NEW v
    PROVE  /\ v \subseteq 0 .. 6 /\ (\A b \in 0 .. 6 : b + 0 \in word <=> b \in v) => Opcode(word) = v
           /\ v \subseteq 0 .. 4 /\ (\A b \in 0 .. 4 : b + 7 \in word <=> b \in v) => Rd(word) = v
           /\ v \subseteq 0 .. 2 /\ (\A b \in 0 .. 2 : b + 12 \in word <=> b \in v) => Funct3(word) = v
           /\ v \subseteq 0 .. 4 /\ (\A b \in 0 .. 4 : b + 15 \in word <=> b \in v) => Rs1(word) = v
           /\ v \subseteq 0 .. 4 /\ (\A b \in 0 .. 4 : b + 20 \in word <=> b \in v) => Rs2(word) = v
           /\ v \subseteq 0 .. 6 /\ (\A b \in 0 .. 6 : b + 25 \in word <=> b \in v) => Funct7(word) = v
           /\ v \subseteq 0 .. 5 /\ (\A b \in 0 .. 5 : b + 20 \in word <=> b \in v) =>
                  Field(word, 20, 6) = v
           /\ v \subseteq 0 .. 19 /\ (\A b \in 0 .. 19 : b + 12 \in word <=> b \in v) => ImmU(word) = v
  BY DEF Field, Opcode, Rd, Funct3, Rs1, Rs2, Funct7, ImmU

LEMMA FieldsR ==
    ASSUME NEW e, e.opcode \subseteq 0 .. 6, e.funct3 \subseteq 0 .. 2, e.funct7 \subseteq 0 .. 6,
           NEW rd \in RegisterField, NEW rs1 \in RegisterField, NEW rs2 \in RegisterField
    PROVE  LET word == GenerateR(e, rd, rs1, rs2)
           IN  /\ word \in Word /\ Opcode(word) = e.opcode
               /\ Rd(word) = rd /\ Rs1(word) = rs1 /\ Rs2(word) = rs2
               /\ Funct3(word) = e.funct3 /\ Funct7(word) = e.funct7
<1> DEFINE word == GenerateR(e, rd, rs1, rs2)
<1>1. rd \subseteq 0 .. 4 /\ rs1 \subseteq 0 .. 4 /\ rs2 \subseteq 0 .. 4
  BY DEF RegisterField
<1>2. word \in Word
  BY <1>1 DEF GenerateR, Shl, Word
<1>3. \A b \in 0 .. 6 : b + 0 \in word <=> b \in e.opcode
  BY <1>1 DEF GenerateR, Shl
<1>4. \A b \in 0 .. 4 : (b + 7 \in word <=> b \in rd) /\ (b + 15 \in word <=> b \in rs1) /\ (b + 20 \in word <=> b \in rs2)
  BY <1>1 DEF GenerateR, Shl
<1>5. \A b \in 0 .. 2 : b + 12 \in word <=> b \in e.funct3
  BY <1>1 DEF GenerateR, Shl
<1>6. \A b \in 0 .. 6 : b + 25 \in word <=> b \in e.funct7
  BY <1>1 DEF GenerateR, Shl
<1> HIDE DEF word
<1> SUFFICES word \in Word /\ Opcode(word) = e.opcode /\ Rd(word) = rd /\ Rs1(word) = rs1 /\ Rs2(word) = rs2 /\ Funct3(word) = e.funct3 /\ Funct7(word) = e.funct7
  BY DEF word
<1> QED
  BY <1>1, <1>2, <1>3, <1>4, <1>5, <1>6, FieldsAre

LEMMA FieldsI1 ==
    ASSUME NEW e, e.opcode \subseteq 0 .. 6, e.funct3 \subseteq 0 .. 2,
           NEW rd \in RegisterField, NEW rs1 \in RegisterField,
           NEW imm \in Word
    PROVE  LET word == GenerateI1(e, rd, rs1, imm)
           IN  /\ word \in Word /\ Opcode(word) = e.opcode
               /\ Rd(word) = rd /\ Rs1(word) = rs1
               /\ Funct3(word) = e.funct3
<1> DEFINE word == GenerateI1(e, rd, rs1, imm)
<1>1. rd \subseteq 0 .. 4 /\ rs1 \subseteq 0 .. 4 /\ imm \subseteq 0 .. 31
  BY DEF RegisterField, Word
<1>2. word \in Word
  BY <1>1 DEF GenerateI1, Shl, Word
<1>3. \A b \in 0 .. 6 : b + 0 \in word <=> b \in e.opcode
  BY <1>1 DEF GenerateI1, Shl
<1>4. \A b \in 0 .. 4 : (b + 7 \in word <=> b \in rd) /\ (b + 15 \in word <=> b \in rs1)
  BY <1>1 DEF GenerateI1, Shl
<1>5. \A b \in 0 .. 2 : b + 12 \in word <=> b \in e.funct3
  BY <1>1 DEF GenerateI1, Shl
<1> HIDE DEF word
<1> SUFFICES word \in Word /\ Opcode(word) = e.opcode /\ Rd(word) = rd /\ Rs1(word) = rs1 /\ Funct3(word) = e.funct3
  BY DEF word
<1> QED
  BY <1>1, <1>2, <1>3, <1>4, <1>5, FieldsAre

LEMMA FieldsI2 ==
    ASSUME NEW e, e.opcode \subseteq 0 .. 6, e.funct3 \subseteq 0 .. 2,
           NEW rd \in RegisterField, NEW rs1 \in RegisterField,
           NEW imm \in Word, imm \subseteq 0 .. 5, e.funct6 \subseteq 0 .. 5
    PROVE  LET word == GenerateI2(e, rd, rs1, imm)
           IN  /\ word \in Word /\ Opcode(word) = e.opcode
               /\ Rd(word) = rd /\ Rs1(word) = rs1
               /\ Funct3(word) = e.funct3 /\ Field(ImmI(word), 0, 6) = imm
<1> DEFINE word == GenerateI2(e, rd, rs1, imm)
<1>1. rd \subseteq 0 .. 4 /\ rs1 \subseteq 0 .. 4 /\ imm \subseteq 0 .. 31
  BY DEF RegisterField, Word
<1>2. word \in Word
  BY <1>1 DEF GenerateI2, Shl, Word
<1>3. \A b \in 0 .. 6 : b + 0 \in word <=> b \in e.opcode
  BY <1>1 DEF GenerateI2, Shl
<1>4. \A b \in 0 .. 4 : (b + 7 \in word <=> b \in rd) /\ (b + 15 \in word <=> b \in rs1)
  BY <1>1 DEF GenerateI2, Shl
<1>5. \A b \in 0 .. 2 : b + 12 \in word <=> b \in e.funct3
  BY <1>1 DEF GenerateI2, Shl
<1>6. Field(word, 20, 6) = imm
  <2>1. \A b \in 0 .. 5 : b + 20 \in word <=> b \in imm
    BY <1>1 DEF GenerateI2, Shl
  <2> HIDE DEF word
  <2> QED BY <2>1, FieldsAre
<1>7. Field(ImmI(word), 0, 6) = Field(word, 20, 6)
  <2> HIDE DEF word
  <2> QED BY DEF ImmI, SignExtend, Field
<1> HIDE DEF word
<1> SUFFICES word \in Word /\ Opcode(word) = e.opcode /\ Rd(word) = rd /\ Rs1(word) = rs1 /\ Funct3(word) = e.funct3 /\ Field(ImmI(word), 0, 6) = imm
  BY DEF word
<1> QED
  BY <1>1, <1>2, <1>3, <1>4, <1>5, <1>6, <1>7, FieldsAre

LEMMA FieldsS ==
    ASSUME NEW e, e.opcode \subseteq 0 .. 6, e.funct3 \subseteq 0 .. 2,
           NEW rs1 \in RegisterField, NEW rs2 \in RegisterField,
           NEW imm \in Word
    PROVE  LET word == GenerateS(e, rs1, rs2, imm)
           IN  /\ word \in Word /\ Opcode(word) = e.opcode
               /\ Rs1(word) = rs1 /\ Rs2(word) = rs2
               /\ Funct3(word) = e.funct3
<1> DEFINE word == GenerateS(e, rs1, rs2, imm)
<1>1. rs1 \subseteq 0 .. 4 /\ rs2 \subseteq 0 .. 4 /\ imm \subseteq 0 .. 31
  BY DEF RegisterField, Word
<1>2. word \in Word
  BY <1>1 DEF GenerateS, Field, Shl, Word
<1>3. \A b \in 0 .. 6 : b + 0 \in word <=> b \in e.opcode
  BY <1>1 DEF GenerateS, Field, Shl
<1>4. \A b \in 0 .. 4 : (b + 15 \in word <=> b \in rs1) /\ (b + 20 \in word <=> b \in rs2)
  BY <1>1 DEF GenerateS, Field, Shl
<1>5. \A b \in 0 .. 2 : b + 12 \in word <=> b \in e.funct3
  BY <1>1 DEF GenerateS, Field, Shl
<1> HIDE DEF word
<1> SUFFICES word \in Word /\ Opcode(word) = e.opcode /\ Rs1(word) = rs1 /\ Rs2(word) = rs2 /\ Funct3(word) = e.funct3
  BY DEF word
<1> QED
  BY <1>1, <1>2, <1>3, <1>4, <1>5, FieldsAre

LEMMA FieldsB ==
    ASSUME NEW e, e.opcode \subseteq 0 .. 6, e.funct3 \subseteq 0 .. 2,
           NEW rs1 \in RegisterField, NEW rs2 \in RegisterField,
           NEW imm \in Word
    PROVE  LET word == GenerateB(e, rs1, rs2, imm)
           IN  /\ word \in Word /\ Opcode(word) = e.opcode
               /\ Rs1(word) = rs1 /\ Rs2(word) = rs2
               /\ Funct3(word) = e.funct3
<1> DEFINE word == GenerateB(e, rs1, rs2, imm)
<1>1. rs1 \subseteq 0 .. 4 /\ rs2 \subseteq 0 .. 4 /\ imm \subseteq 0 .. 31
  BY DEF RegisterField, Word
<1>2. word \in Word
  BY <1>1 DEF GenerateB, Field, Shl, Word
<1>3. \A b \in 0 .. 6 : b + 0 \in word <=> b \in e.opcode
  BY <1>1 DEF GenerateB, Field, Shl
<1>4. \A b \in 0 .. 4 : (b + 15 \in word <=> b \in rs1) /\ (b + 20 \in word <=> b \in rs2)
  BY <1>1 DEF GenerateB, Field, Shl
<1>5. \A b \in 0 .. 2 : b + 12 \in word <=> b \in e.funct3
  BY <1>1 DEF GenerateB, Field, Shl
<1> HIDE DEF word
<1> SUFFICES word \in Word /\ Opcode(word) = e.opcode /\ Rs1(word) = rs1 /\ Rs2(word) = rs2 /\ Funct3(word) = e.funct3
  BY DEF word
<1> QED
  BY <1>1, <1>2, <1>3, <1>4, <1>5, FieldsAre

LEMMA FieldsU ==
    ASSUME NEW e, e.opcode \subseteq 0 .. 6,
           NEW rd \in RegisterField,
           NEW imm \in Word
    PROVE  LET word == GenerateU(e, rd, imm)
           IN  /\ word \in Word /\ Opcode(word) = e.opcode
               /\ Rd(word) = rd
               /\ ImmU(word) = Field(imm, 0, 20)
<1> DEFINE word == GenerateU(e, rd, imm)
<1>1. rd \subseteq 0 .. 4 /\ imm \subseteq 0 .. 31
  BY DEF RegisterField, Word
<1>2. word \in Word
  BY <1>1 DEF GenerateU, Field, Shl, Word
<1>3. \A b \in 0 .. 6 : b + 0 \in word <=> b \in e.opcode
  BY <1>1 DEF GenerateU, Field, Shl
<1>4. \A b \in 0 .. 4 : (b + 7 \in word <=> b \in rd)
  BY <1>1 DEF GenerateU, Field, Shl
<1>5. \A b \in 0 .. 19 : b + 12 \in word <=> b \in Field(imm, 0, 20)
  BY <1>1 DEF GenerateU, Field, Shl
<1>6. Field(imm, 0, 20) \subseteq 0 .. 19
  BY DEF Field
<1> HIDE DEF word
<1> SUFFICES word \in Word /\ Opcode(word) = e.opcode /\ Rd(word) = rd /\ ImmU(word) = Field(imm, 0, 20)
  BY DEF word
<1> QED
  BY <1>1, <1>2, <1>3, <1>4, <1>5, <1>6, FieldsAre DEF ImmU

LEMMA FieldsJ ==
    ASSUME NEW e, e.opcode \subseteq 0 .. 6,
           NEW rd \in RegisterField,
           NEW imm \in Word
    PROVE  LET word == GenerateJ(e, rd, imm)
           IN  /\ word \in Word /\ Opcode(word) = e.opcode
               /\ Rd(word) = rd
<1> DEFINE word == GenerateJ(e, rd, imm)
<1>1. rd \subseteq 0 .. 4 /\ imm \subseteq 0 .. 31
  BY DEF RegisterField, Word
<1>2. word \in Word
  BY <1>1 DEF GenerateJ, Shl, Word
<1>3. \A b \in 0 .. 6 : b + 0 \in word <=> b \in e.opcode
  BY <1>1 DEF GenerateJ, Shl
<1>4. \A b \in 0 .. 4 : (b + 7 \in word <=> b \in rd)
  BY <1>1 DEF GenerateJ, Shl
<1> HIDE DEF word
<1> SUFFICES word \in Word /\ Opcode(word) = e.opcode /\ Rd(word) = rd
  BY DEF word
<1> QED
  BY <1>1, <1>2, <1>3, <1>4, FieldsAre

-----------------------------------------------------------------------------
(* From a unit of intermediate code to the fields decode takes out of its word. *)

\* What decode takes out of the word of a unit, the immediate left out.
LEMMA FieldsDecode ==
    ASSUME NEW block, block.opcode \in Mnemonic,
           Instruction[block.opcode].type = "I2" => block.imm \in 0 .. 31
    PROVE  LET word == MachineCode(block)
               e == Instruction[block.opcode]
           IN  /\ word \in Word
               /\ Opcode(word) = e.opcode
               /\ e.type \in {"R", "I1", "I2", "U", "J"} => Rd(word) = Bits(block.rd, 5)
               /\ e.type \in {"R", "I1", "I2", "S", "B"} =>
                      Rs1(word) = Bits(block.rs1, 5) /\ Funct3(word) = e.funct3
               /\ e.type \in {"R", "S", "B"} => Rs2(word) = Bits(block.rs2, 5)
               /\ e.type = "R" => Funct7(word) = e.funct7
<1> DEFINE e == Instruction[block.opcode]
           rd == Bits(block.rd, 5)
           rs1 == Bits(block.rs1, 5)
           rs2 == Bits(block.rs2, 5)
           imm == Bits(block.imm, 32)
           word == MachineCode(block)
<1>1. rd \in RegisterField /\ rs1 \in RegisterField /\ rs2 \in RegisterField /\ imm \in Word
  BY DEF Bits, RegisterField, Word
<1>2. e.opcode \subseteq 0 .. 6
  BY Opcodes
<1>3. /\ e.type \in {"R", "I1", "I2", "S", "B"} => e.funct3 \subseteq 0 .. 2
      /\ e.type = "R" => e.funct7 \subseteq 0 .. 6
      /\ e.type = "I2" => e.funct6 \subseteq 0 .. 5
  BY Functions
<1>4. e.type \in {"R", "I1", "I2", "S", "B", "U", "J"}
  BY Types, Mnemonics
<1>5. /\ e.type = "R" => word = GenerateR(e, rd, rs1, rs2)
      /\ e.type = "I1" => word = GenerateI1(e, rd, rs1, imm)
      /\ e.type = "I2" => word = GenerateI2(e, rd, rs1, imm)
      /\ e.type = "S" => word = GenerateS(e, rs1, rs2, imm)
      /\ e.type = "B" => word = GenerateB(e, rs1, rs2, imm)
      /\ e.type = "U" => word = GenerateU(e, rd, imm)
      /\ e.type = "J" => word = GenerateJ(e, rd, imm)
  BY DEF MachineCode
<1>6. e.type = "I2" => imm \subseteq 0 .. 5
  BY ShiftBits
<1> HIDE DEF e, rd, rs1, rs2, imm, word
<1> SUFFICES /\ word \in Word
             /\ Opcode(word) = e.opcode
             /\ e.type \in {"R", "I1", "I2", "U", "J"} => Rd(word) = rd
             /\ e.type \in {"R", "I1", "I2", "S", "B"} => Rs1(word) = rs1 /\ Funct3(word) = e.funct3
             /\ e.type \in {"R", "S", "B"} => Rs2(word) = rs2
             /\ e.type = "R" => Funct7(word) = e.funct7
  BY DEF e, rd, rs1, rs2, word
<1>7. CASE e.type = "R"
  BY <1>1, <1>2, <1>3, <1>5, <1>7, FieldsR
<1>8. CASE e.type = "I1"
  BY <1>1, <1>2, <1>3, <1>5, <1>8, FieldsI1
<1>9. CASE e.type = "I2"
  BY <1>1, <1>2, <1>3, <1>5, <1>6, <1>9, FieldsI2
<1>10. CASE e.type = "S"
  BY <1>1, <1>2, <1>3, <1>5, <1>10, FieldsS
<1>11. CASE e.type = "B"
  BY <1>1, <1>2, <1>3, <1>5, <1>11, FieldsB
<1>12. CASE e.type = "U"
  BY <1>1, <1>2, <1>3, <1>5, <1>12, FieldsU
<1>13. CASE e.type = "J"
  BY <1>1, <1>2, <1>3, <1>5, <1>13, FieldsJ
<1> QED BY <1>4, <1>7, <1>8, <1>9, <1>10, <1>11, <1>12, <1>13

\* What the machine makes of the immediate of a unit that fits its field.
LEMMA ImmediateDecodes ==
    ASSUME NEW block, block.opcode \in Mnemonic, block.imm \in Int
    PROVE  LET imm == ImmGenerator(MachineCode(block))
               type == Instruction[block.opcode].type
           IN  /\ /\ type \in {"I1", "S"} /\ block.opcode # "addiw"
                  /\ block.imm \in -(2 ^ 11) .. (2 ^ 11 - 1)
                  => imm = Bits(block.imm, 32)
               /\ /\ type = "B"
                  /\ block.imm \in -(2 ^ 12) .. (2 ^ 12 - 1) /\ block.imm % 2 = 0
                  => imm = Bits(block.imm, 32)
               /\ /\ type = "J"
                  /\ block.imm \in -(2 ^ 20) .. (2 ^ 20 - 1) /\ block.imm % 2 = 0
                  => imm = Bits(block.imm, 32)
               /\ type = "I2" /\ block.imm \in 0 .. 31 => Field(imm, 0, 6) = Bits(block.imm, 6)
               /\ type = "U" => imm = Bits(block.imm, 20)
<1> DEFINE e == Instruction[block.opcode]
           rd == Bits(block.rd, 5)
           rs1 == Bits(block.rs1, 5)
           rs2 == Bits(block.rs2, 5)
           imm == Bits(block.imm, 32)
           word == MachineCode(block)
<1>1. rd \in RegisterField /\ rs1 \in RegisterField /\ rs2 \in RegisterField /\ imm \in Word
  BY DEF Bits, RegisterField, Word
<1>2. /\ e.opcode \subseteq 0 .. 6
      /\ e.type \in {"I1", "I2"} /\ block.opcode # "addiw" =>
             e.opcode \in {{0, 1, 4}, {0, 1}, {0, 1, 2, 5, 6}, {0, 1, 2, 3}, {0, 1, 2}}
      /\ e.type = "S" => e.opcode \in {{0, 1, 5}, {0, 1, 2, 5}}
      /\ e.type = "B" => e.opcode = {0, 1, 5, 6}
      /\ e.type = "U" => e.opcode \in {{0, 1, 2, 4, 5}, {0, 1, 2, 4}}
      /\ e.type = "J" => e.opcode = {0, 1, 2, 3, 5, 6}
  BY Opcodes, Types, Mnemonics
<1>3. /\ e.type \in {"R", "I1", "I2", "S", "B"} => e.funct3 \subseteq 0 .. 2
      /\ e.type = "I2" => e.funct6 \subseteq 0 .. 5
  BY Functions
<1>4. /\ e.type = "I1" => word = GenerateI1(e, rd, rs1, imm)
      /\ e.type = "I2" => word = GenerateI2(e, rd, rs1, imm)
      /\ e.type = "S" => word = GenerateS(e, rs1, rs2, imm)
      /\ e.type = "B" => word = GenerateB(e, rs1, rs2, imm)
      /\ e.type = "U" => word = GenerateU(e, rd, imm)
      /\ e.type = "J" => word = GenerateJ(e, rd, imm)
  BY DEF MachineCode
<1>5. e.type = "I2" /\ block.imm \in 0 .. 31 =>
          imm \subseteq 0 .. 4 /\ Bits(block.imm, 6) = imm
  BY ShiftBits
<1>6. e.type = "I2" => block.opcode # "addiw"
  BY Types, Mnemonics
<1>7. e.type = "I2" => (block.imm \in 0 .. 31 => Opcode(word) = e.opcode)
  BY FieldsDecode
<1>8. e.type # "I2" => Opcode(word) = e.opcode
  BY FieldsDecode
<1>9. /\ Opcode(word) \in {{0, 1, 4}, {0, 1}, {0, 1, 2, 5, 6}, {0, 1, 2, 3}, {0, 1, 2}} =>
             ImmGenerator(word) = ImmI(word)
      /\ Opcode(word) \in {{0, 1, 5}, {0, 1, 2, 5}} => ImmGenerator(word) = ImmS(word)
      /\ Opcode(word) = {0, 1, 5, 6} => ImmGenerator(word) = ImmB(word)
      /\ Opcode(word) \in {{0, 1, 2, 4, 5}, {0, 1, 2, 4}} => ImmGenerator(word) = ImmU(word)
      /\ Opcode(word) = {0, 1, 2, 3, 5, 6} => ImmGenerator(word) = ImmJ(word)
  BY DEF ImmGenerator
<1>10. Field(imm, 0, 20) = Bits(block.imm, 20)
  BY DEF Field, Bits
<1>11. /\ block.imm \in -(2 ^ 11) .. (2 ^ 11 - 1) => Signed(imm, 12)
       /\ block.imm \in -(2 ^ 12) .. (2 ^ 12 - 1) => Signed(imm, 13)
       /\ block.imm \in -(2 ^ 20) .. (2 ^ 20 - 1) => Signed(imm, 21)
  <2>1. 12 = 11 + 1 /\ 13 = 12 + 1 /\ 21 = 20 + 1
    BY SMT
  <2> QED BY <2>1, SmallBits, Zenon
<1>12. block.imm % 2 = 0 => 0 \notin imm
  BY EvenBits
<1> HIDE DEF e, rd, rs1, rs2, imm, word
<1> DEFINE result == ImmGenerator(word)
<1>13. ASSUME e.type = "I1", block.opcode # "addiw", block.imm \in -(2 ^ 11) .. (2 ^ 11 - 1)
       PROVE  result = imm
  BY <1>1, <1>2, <1>3, <1>4, <1>8, <1>9, <1>11, <1>13, ImmediateI
<1>14. ASSUME e.type = "S", block.imm \in -(2 ^ 11) .. (2 ^ 11 - 1)
       PROVE  result = imm
  BY <1>1, <1>2, <1>3, <1>4, <1>8, <1>9, <1>11, <1>14, ImmediateS
<1>15. ASSUME e.type = "B", block.imm \in -(2 ^ 12) .. (2 ^ 12 - 1), block.imm % 2 = 0
       PROVE  result = imm
  BY <1>1, <1>2, <1>3, <1>4, <1>8, <1>9, <1>11, <1>12, <1>15, ImmediateB
<1>16. ASSUME e.type = "J", block.imm \in -(2 ^ 20) .. (2 ^ 20 - 1), block.imm % 2 = 0
       PROVE  result = imm
  BY <1>1, <1>2, <1>3, <1>4, <1>8, <1>9, <1>11, <1>12, <1>16, ImmediateJ
<1>17. ASSUME e.type = "I2", block.imm \in 0 .. 31
       PROVE  Field(result, 0, 6) = Bits(block.imm, 6)
  BY <1>1, <1>2, <1>3, <1>4, <1>5, <1>6, <1>7, <1>9, <1>17, FieldsI2
<1>18. ASSUME e.type = "U"
       PROVE  result = Bits(block.imm, 20)
  BY <1>1, <1>2, <1>3, <1>4, <1>8, <1>9, <1>10, <1>18, FieldsU
<1> HIDE DEF result
<1> QED BY <1>13, <1>14, <1>15, <1>16, <1>17, <1>18 DEF e, imm, word, result

-----------------------------------------------------------------------------
(* The blocks are an array of bytes. *)

LEMMA PlaceInBlock ==
    ASSUME NEW a \in Nat
    PROVE  /\ GetBlockIndex(a) \in Nat
           /\ GetBlockOffset(a) \in 0 .. (BlockSize - 1)
           /\ GetBlockIndex(a) * BlockSize + GetBlockOffset(a) = a
BY MemoryAssumption DEF GetBlockIndex, GetBlockOffset

LEMMA RangeIsFit ==
    ASSUME NEW address \in Nat, NEW size \in Size
    PROVE  InRange(address, size) <=> Flat!Fits(address, size)
BY MemoryAssumption DEF InRange, Flat!Fits, Size

\* A byte after a write: one of those written, or the one that was there.
LEMMA ReadAfterWrite ==
    ASSUME NEW blocks, NEW address \in Nat, NEW size \in Size, NEW value, NEW a \in Nat
    PROVE  Read(WriteGeneric(blocks, address, size, value), a) =
               IF a - address \in 0 .. (size - 1)
               THEN ByteAt(value, a - address)
               ELSE Read(blocks, a)
<1> DEFINE k == GetBlockIndex(a)
           o == GetBlockOffset(a)
           after == WriteGeneric(blocks, address, size, value)
           touched == {GetBlockIndex(address + i) : i \in 0 .. (size - 1)}
<1>1. k \in Nat /\ o \in 0 .. (BlockSize - 1) /\ k * BlockSize + o = a
  BY PlaceInBlock
<1>2. DOMAIN after = DOMAIN blocks \cup touched
  BY DEF WriteGeneric
<1>3. k \in DOMAIN after =>
          after[k][o] = IF a - address \in 0 .. (size - 1) THEN ByteAt(value, a - address)
                        ELSE IF k \in DOMAIN blocks THEN blocks[k][o] ELSE {}
  <2> SUFFICES ASSUME k \in DOMAIN after
               PROVE  after[k][o] = IF a - address \in 0 .. (size - 1)
                                    THEN ByteAt(value, a - address)
                                    ELSE IF k \in DOMAIN blocks THEN blocks[k][o] ELSE {}
    OBVIOUS
  <2>1. after[k] = [p \in 0 .. (BlockSize - 1) |->
                       LET i == k * BlockSize + p - address
                       IN  IF i \in 0 .. (size - 1) THEN ByteAt(value, i)
                           ELSE IF k \in DOMAIN blocks THEN blocks[k][p] ELSE {}]
    BY DEF WriteGeneric
  <2> HIDE DEF after, k, o
  <2>2. after[k][o] = LET i == k * BlockSize + o - address
                      IN  IF i \in 0 .. (size - 1) THEN ByteAt(value, i)
                          ELSE IF k \in DOMAIN blocks THEN blocks[k][o] ELSE {}
    BY <1>1, <2>1
  <2>3. k * BlockSize + o - address = a - address
    <3>1. k * BlockSize \in Int /\ o \in Int /\ k * BlockSize + o = a
      BY <1>1, MemoryAssumption
    <3>2. \A p \in Int : p + o = a => p + o - address = a - address
      BY <3>1
    <3> QED BY <3>1, <3>2
  <2> QED BY <2>2, <2>3
<1>4. CASE a - address \in 0 .. (size - 1)
  <2>1. k \in touched
    <3>1. address + (a - address) = a
      OBVIOUS
    <3> QED BY <1>4, <3>1
  <2> QED BY <1>2, <1>3, <1>4, <2>1 DEF Read
<1>5. CASE a - address \notin 0 .. (size - 1)
  <2>1. CASE k \in DOMAIN after
    BY <1>3, <1>5, <2>1, <1>2 DEF Read
  <2>2. CASE k \notin DOMAIN after
    BY <1>2, <1>5, <2>2 DEF Read
  <2> QED BY <2>1, <2>2
<1> QED BY <1>4, <1>5

\* What is written can be read again, and nothing beside it changes.
LEMMA ReadBack ==
    ASSUME NEW blocks, NEW address \in Nat, NEW size \in Size,
           NEW value, value \subseteq 0 .. (8 * size - 1)
    PROVE  ReadGeneric(WriteGeneric(blocks, address, size, value), address, size) = value
<1> DEFINE after == WriteGeneric(blocks, address, size, value)
<1>1. ASSUME NEW b \in 0 .. (8 * size - 1)
      PROVE  b % 8 \in Read(after, address + (b \div 8)) <=> b \in value
  <2>1. b \div 8 \in 0 .. (size - 1) /\ b % 8 \in 0 .. 7 /\ (b % 8) + 8 * (b \div 8) = b
    BY DEF Size
  <2>2. address + (b \div 8) \in Nat /\ (address + (b \div 8)) - address = b \div 8
    BY <2>1 DEF Size
  <2>3. Read(after, address + (b \div 8)) = ByteAt(value, b \div 8)
    BY <2>1, <2>2, ReadAfterWrite
  <2> QED BY <2>1, <2>3 DEF ByteAt
<1> HIDE DEF after
<1>2. ReadGeneric(after, address, size) = value
  BY <1>1 DEF ReadGeneric
<1> QED BY <1>2 DEF after

LEMMA ReadBeside ==
    ASSUME NEW blocks, NEW address \in Nat, NEW size \in Size, NEW value,
           NEW other \in Nat, NEW n \in Size,
           other + n <= address \/ address + size <= other
    PROVE  ReadGeneric(WriteGeneric(blocks, address, size, value), other, n)
               = ReadGeneric(blocks, other, n)
<1> DEFINE after == WriteGeneric(blocks, address, size, value)
<1>1. ASSUME NEW b \in 0 .. (8 * n - 1)
      PROVE  Read(after, other + (b \div 8)) = Read(blocks, other + (b \div 8))
  <2>1. b \div 8 \in 0 .. (n - 1)
    BY DEF Size
  <2>2. other + (b \div 8) \in Nat /\ (other + (b \div 8)) - address \notin 0 .. (size - 1)
    BY <2>1 DEF Size
  <2> QED BY <2>2, ReadAfterWrite
<1> HIDE DEF after
<1>2. ReadGeneric(after, other, n) = ReadGeneric(blocks, other, n)
  BY <1>1 DEF ReadGeneric
<1> QED BY <1>2 DEF after

LEMMA ReadIsFlat ==
    ASSUME NEW address \in Nat, NEW size \in Size, ReadMemory(address, size)
    PROVE  Flat!Read \/ Flat!Refuse
<1>1. CASE InRange(address, size)
  <2>1. /\ access' = [op |-> "read", address |-> address, size |-> size,
                      value |-> ReadGeneric(blocks_, address, size)]
        /\ UNCHANGED blocks_
    BY <1>1 DEF ReadMemory, Accessed
  <2>2. \A b \in 0 .. (8 * size - 1) : address + (b \div 8) \in 0 .. (MemorySize - 1)
    BY <1>1, MemoryAssumption DEF InRange, Size
  <2>3. ReadGeneric(blocks_, address, size) =
            {b \in 0 .. (8 * size - 1) :
                b % 8 \in [a \in 0 .. (MemorySize - 1) |-> Read(blocks_, a)][address + (b \div 8)]}
    BY <2>2 DEF ReadGeneric
  <2>4. Flat!Fits(address, size)
    BY <1>1, RangeIsFit
  <2> QED BY <2>1, <2>3, <2>4 DEF Flat!Read
<1>2. CASE ~InRange(address, size)
  <2>1. /\ access' = [op |-> "out_of_range", address |-> address, size |-> size, value |-> {}]
        /\ UNCHANGED blocks_
    BY <1>2 DEF ReadMemory, Accessed
  <2> QED BY <1>2, <2>1, RangeIsFit DEF Flat!Refuse
<1> QED BY <1>1, <1>2

LEMMA WriteIsFlat ==
    ASSUME NEW address \in Nat, NEW size \in Size, NEW value, WriteMemory(address, size, value)
    PROVE  Flat!Write \/ Flat!Refuse
<1>1. CASE InRange(address, size)
  <2>1. /\ access' = [op |-> "write", address |-> address, size |-> size, value |-> value]
        /\ blocks_' = WriteGeneric(blocks_, address, size, value)
    BY <1>1 DEF WriteMemory, Accessed
  <2>2. \A a \in 0 .. (MemorySize - 1) :
            Read(blocks_', a) = IF a - address \in 0 .. (size - 1)
                                THEN Flat!ByteOf(value, a - address)
                                ELSE Read(blocks_, a)
    <3> TAKE a \in 0 .. (MemorySize - 1)
    <3>1. a \in Nat
      BY MemoryAssumption
    <3>2. Read(WriteGeneric(blocks_, address, size, value), a) =
              IF a - address \in 0 .. (size - 1) THEN ByteAt(value, a - address)
                                                 ELSE Read(blocks_, a)
      BY <3>1, ReadAfterWrite
    <3>3. ByteAt(value, a - address) = Flat!ByteOf(value, a - address)
      BY DEF ByteAt, Flat!ByteOf
    <3> QED BY <2>1, <3>2, <3>3
  <2>3. Flat!Fits(address, size)
    BY <1>1, RangeIsFit
  <2> QED BY <2>1, <2>2, <2>3 DEF Flat!Write, Flat!Address
<1>2. CASE ~InRange(address, size)
  <2>1. /\ access' = [op |-> "out_of_range", address |-> address, size |-> size, value |-> {}]
        /\ UNCHANGED blocks_
    BY <1>2 DEF WriteMemory, Accessed
  <2> QED BY <1>2, <2>1, RangeIsFit DEF Flat!Refuse
<1> QED BY <1>1, <1>2

\* The class Memory is an array of bytes: whatever was written, read and reset
\* before, every access in range reads or writes exactly its bytes, for every
\* size of the blocks and of the memory, and an access out of range nothing.
THEOREM MemoryIsAlwaysFlat == MemorySpec => MemoryIsFlat
<1>1. MemoryInit => Flat!Init
  BY DEF MemoryInit, Flat!Init, Flat!NoAccess, Flat!Address, Read
<1>2. ResetMemory => Flat!Reset
  BY DEF ResetMemory, Flat!Reset, Flat!Address, Accessed, Read
<1>3. MemoryNext => Flat!Next
  BY <1>2, ReadIsFlat, WriteIsFlat DEF MemoryNext, Flat!Next
<1>4. UNCHANGED memoryVars =>
          UNCHANGED <<[a \in 0 .. (MemorySize - 1) |-> Read(blocks_, a)], access>>
  BY DEF memoryVars
<1> QED BY <1>1, <1>3, <1>4, PTL DEF MemorySpec, MemoryIsFlat, Flat!Spec
===============================================================================
