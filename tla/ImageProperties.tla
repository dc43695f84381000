--------------------------- MODULE ImageProperties ---------------------------
(***************************************************************************)
(* What a source means, and that its image in memory says the same.  Where *)
(* a line or a value ends up is worked out from the source alone, without  *)
(* the assembler's tables, and what the image says by decoding its words   *)
(* as the machine does.                                                    *)
(***************************************************************************)
EXTENDS Image

Lines == 1 .. Len(source.text)
Line(l) == source.text[l]

NamesData(line) == line.opcode \in {"la", "lw"} /\ "label" \in DOMAIN line
NamesText(line) == line.opcode \in OfType({"B", "J"}) /\ "label" \in DOMAIN line

LowRange == -(LowSize \div 2) .. (LowSize \div 2 - 1)

\* How many instructions a line stands for.
Length(line) ==
    CASE line.opcode = "label" -> 0
      [] NamesData(line) -> 2
      [] line.opcode = "li" /\ line.imm \notin LowRange /\ line.imm % LowSize # 0 -> 2
      [] OTHER -> 1

\* The address of a line's first instruction.
Address(l) ==
    LET a[k \in 1 .. l] == IF k = 1 THEN 0 ELSE a[k - 1] + 4 * Length(Line(k - 1))
    IN  a[l]

\* What the theorems assume of the sources: no text reaches the data, a line being
\* two instructions at most.
Fits(text) == 8 * Len(text) <= DataStart

SourcesFit == \A s \in Session : \A i \in DOMAIN s.sources : Fits(s.sources[i].text)

\* And what those about the data assume besides: a directive has values.
HasValues(data) == \A k \in DOMAIN data : data[k].kind # "label" => Items(data[k]) # <<>>

SourcesHaveValues == \A s \in Session : \A i \in DOMAIN s.sources : HasValues(s.sources[i].data)

WordAt(address) == ReadGeneric(blocks_, address, 4)
Imm(address) == ImmGenerator(WordAt(address))

\* What a word is decoded to: an instruction with an upper immediate, or one with
\* a source register and a low immediate.
IsUpper(word, opcode, rd, imm) ==
    /\ Opcode(word) = Instruction[opcode].opcode
    /\ Rd(word) = Bits(rd, 5)
    /\ ImmGenerator(word) = Bits(imm, 20)

IsLower(word, opcode, rd, rs1, imm) ==
    /\ Opcode(word) = Instruction[opcode].opcode
    /\ Funct3(word) = Instruction[opcode].funct3
    /\ Rd(word) = Bits(rd, 5) /\ Rs1(word) = Bits(rs1, 5)
    /\ ImmGenerator(word) = Bits(imm, 32)

TypeOK ==
    /\ MemoryTypeOK
    /\ phase \in {"idle", "data", "text", "patch", "assembled", "failed", "write_text",
                  "write_data", "loaded", "crashed"}
    /\ {pos_, data_index_, errors_, loaded, data_counter} \subseteq Nat
    /\ \A n \in DOMAIN symbol_table_ :
           symbol_table_[n].address \in Nat /\ symbol_table_[n].isData \in BOOLEAN
    /\ \A i \in DOMAIN data_buffer_ :
           data_buffer_[i].size \in Size /\ data_buffer_[i].value \in Value
    /\ \A i \in DOMAIN intermediate_code_ :
           intermediate_code_[i].opcode \in Mnemonic /\ intermediate_code_[i].imm \in Int
    /\ \A i \in DOMAIN back_patch_ : back_patch_[i] \in 0 .. (instruction_index_ - 1)

\* Every branch and every jump to a text label, forwards or backwards, across
\* lines of no, one or two instructions, takes the machine to the instruction
\* the label stands before.  A program with a label that is declared nowhere,
\* or with a branch to one of the data section, is not loaded.
ReferencesResolve ==
    phase = "loaded" =>
        \A l \in Lines :
            NamesText(Line(l)) =>
                LET targets == {k \in Lines : Line(k).opcode = "label"
                                              /\ Line(k).label = Line(l).label}
                IN  IF targets = {}
                    THEN Line(l).opcode = "jal" /\ Known(Line(l).label, TRUE)
                    ELSE \A k \in targets :
                             Imm(Address(l)) = Bits(Address(k) - Address(l), 32)

\* The parser and the loader lay the data section out separately.  They agree:
\* an LA or a load from a label is AUIPC, which puts the high part of a distance
\* added to its own address in rd, and ADDI or the load itself on rd with the low
\* part, and the address this comes to in Mode 0 is that of the first value declared
\* after the label; all values of the directive follow it.  Excepted are sources with
\* a directive without values, for which the parser aligns a label and the loader
\* nothing.
AddressesPointAtData ==
    phase = "loaded" =>
        \A l \in Lines :
            NamesData(Line(l)) =>
                LET line == Line(l)
                    d == Max({k \in DOMAIN source.data :
                                  source.data[k].kind = "label"
                                  /\ source.data[k].name = line.label})
                    items == Items(source.data[d + 1])
                    second == IF line.opcode = "la" THEN "addi" ELSE "lw"
                IN  \E high \in -MemorySize .. MemorySize, low \in LowRange :
                        /\ IsUpper(WordAt(Address(l)), "auipc", line.rd, high)
                        /\ IsLower(WordAt(Address(l) + 4), second, line.rd, line.rd, low)
                        /\ \A i \in DOMAIN items :
                               ReadGeneric(blocks_,
                                           Address(l) + high * LowSize + low
                                               + (i - 1) * items[i].size,
                                           items[i].size) = items[i].value

\* A line with registers or a number is decoded as it was written: opcode,
\* registers and immediate, at both ends of the range the assembler accepts.
\* Excepted is the immediate of ADDIW, which the machine takes for zero.
DecodesAsWritten ==
    phase = "loaded" =>
        \A l \in Lines :
            LET line == Line(l)
                word == WordAt(Address(l))
                e == Instruction[line.opcode]
            IN  line.opcode \in Mnemonic /\ "label" \notin DOMAIN line =>
                    /\ Opcode(word) = e.opcode
                    /\ "rd" \in DOMAIN line => Rd(word) = Bits(line.rd, 5)
                    /\ "rs1" \in DOMAIN line => Rs1(word) = Bits(line.rs1, 5)
                    /\ "rs2" \in DOMAIN line => Rs2(word) = Bits(line.rs2, 5)
                    /\ e.type \in {"R", "I1", "I2", "S", "B"} => Funct3(word) = e.funct3
                    /\ e.type = "R" => Funct7(word) = e.funct7
                    /\ e.type \in {"I1", "S", "B", "J"} /\ line.opcode # "addiw" =>
                           ImmGenerator(word) = Bits(line.imm, 32)
                    /\ e.type = "I2" => Field(ImmGenerator(word), 0, 6) = Bits(line.imm, 6)
                    /\ e.type = "U" => ImmGenerator(word) = Bits(line.imm, 20)

\* LI leaves the number in its register: the words are ADDI from x0, or LUI and
\* then, unless the low part is zero, ADDI from that register, and in Mode 0, which
\* shifts LUI's immediate, they add up to the number.  Excepted is the top of the
\* range, where LUI's sign extension makes the rounded-up high part negative.
LiLoads ==
    phase = "loaded" =>
        \A l \in Lines :
            LET a == Address(l)
                rd == Line(l).rd
                number == Line(l).imm
            IN  Line(l).opcode = "li" /\ number < WordReach - LowSize \div 2 =>
                    \E high \in -WordReach .. WordReach, low \in LowRange :
                        /\ number = high * LowSize + low
                        /\ IF number \in LowRange
                           THEN IsLower(WordAt(a), "addi", rd, 0, low)
                           ELSE /\ IsUpper(WordAt(a), "lui", rd, high)
                                /\ low # 0 => IsLower(WordAt(a + 4), "addi", rd, rd, low)

\* A breakpoint on a line stops at the first instruction of that line or, if it
\* has none, of the next line that has.
BreakpointLines ==
    phase = "loaded" =>
        LET coded == {k \in Lines : Length(Line(k)) > 0}
            number(k) == Len(source.data) + k
        IN  /\ DOMAIN LineMapping = UNION {1 .. number(k) : k \in coded}
            /\ \A n \in DOMAIN LineMapping :
                   LineMapping[n] * 4 = Min({Address(k) : k \in {j \in coded : number(j) >= n}})
===============================================================================
