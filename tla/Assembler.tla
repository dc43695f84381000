------------------------------ MODULE Assembler ------------------------------
(***************************************************************************)
(* The assembler: Parser::parse with its two passes and the back patching, *)
(* and the code generation that follows if there were no errors.           *)
(*                                                                         *)
(* A source is a record of the tokens of its data section and the lines of *)
(* its text section; the lexer and the syntax of a line are left out: a    *)
(* line that is none of the forms of TextLine is "bad".  Values are the    *)
(* sets of their bits that are one.                                        *)
(***************************************************************************)
EXTENDS Encoding, Sequences, SequencesExt, FiniteSetsExt

CONSTANTS
    DataStart,     \* data_section_start of the configuration
    BranchReach,   \* 4096: half the range of a branch to a label
    JumpReach,     \* 1048576: half the range of a jump to a label
    LowSize,       \* 4096: what the low part of a split address counts to
    WordReach      \* 2147483648: half the range of li

ASSUME AssemblerAssumption ==
    /\ {DataStart, BranchReach, JumpReach} \subseteq Nat
    /\ LowSize \in Nat /\ LowSize > 0 /\ LowSize % 2 = 0
    /\ WordReach \in Nat /\ WordReach % LowSize = 0

\* What the fields of the instruction words hold.
ASSUME ReachAssumption == BranchReach <= 2 ^ 12 /\ JumpReach <= 2 ^ 20 /\ LowSize <= 2 ^ 12

-----------------------------------------------------------------------------
(* The forms of a source *)

\* A string's values are its characters, without the 0 at its end.
DataToken ==
    [kind : {"label"}, name : STRING]
    \cup [kind : {"byte", "halfword", "word", "dword", "string"}, values : Seq(SUBSET (0 .. 63))]
    \cup [kind : {"zero"}, count : Nat]

Register == 0 .. 31

\* A load is written with an address in registers or with the label of a value.
TextLine ==
    [opcode : {"bad"}]
    \cup [opcode : {"label"}, label : STRING]
    \cup [opcode : {"li"}, rd : Register, imm : Int]
    \cup [opcode : {"la", "lw"}, rd : Register, label : STRING]
    \cup [opcode : OfType({"B"}), rs1 : Register, rs2 : Register, label : STRING]
    \cup [opcode : OfType({"J"}), rd : Register, label : STRING]
    \cup [opcode : OfType({"R"}), rd : Register, rs1 : Register, rs2 : Register]
    \cup [opcode : OfType({"I1", "I2"}), rd : Register, rs1 : Register, imm : Int]
    \cup [opcode : OfType({"S", "B"}), rs1 : Register, rs2 : Register, imm : Int]
    \cup [opcode : OfType({"U", "J"}), rd : Register, imm : Int]

Source == [data : Seq(DataToken), text : Seq(TextLine)]

-----------------------------------------------------------------------------
(* The parser *)

VARIABLES
    source,
    phase,                \* which pass, "assembled" or "failed"
    pos_,                 \* the token or line, or the place in back_patch_
    data_index_,
    symbol_table_,        \* name -> [address, isData]
    data_buffer_,         \* the values with the sizes of their types
    intermediate_code_,   \* the units, with second as resolved
    back_patch_,
    errors_               \* their count

parserVars == <<source, phase, pos_, data_index_, symbol_table_, data_buffer_,
                intermediate_code_, back_patch_, errors_>>

instruction_index_ == Len(intermediate_code_)

\* The smallest multiple of alignment that is not below i.
Align(i, alignment) == IF i % alignment = 0 THEN i ELSE i + alignment - (i % alignment)

-----------------------------------------------------------------------------
(* First pass: the data section *)

DirectiveSize == [byte |-> 1, halfword |-> 2, word |-> 4, dword |-> 8, string |-> 1, zero |-> 1]

\* static_cast to the type of the directive
Item(size, value) == [size |-> size, value |-> value \cap (0 .. 8 * size - 1)]

\* What a directive appends to the data buffer; a string's bytes are stored one
\* by one when it is loaded.
Items(token) ==
    LET size == DirectiveSize[token.kind]
    IN  CASE token.kind = "zero" -> [i \in 1 .. token.count |-> Item(1, {})]
          [] token.kind = "string" ->
                 [i \in 1 .. Len(token.values) + 1 |->
                     Item(1, IF i <= Len(token.values) THEN token.values[i] ELSE {})]
          [] OTHER -> [i \in 1 .. Len(token.values) |-> Item(size, token.values[i])]

\* A label takes the alignment of the directive that follows it.  Mutant: it does
\* not.
LabelIndexUnaligned(next) == data_index_

LabelIndex(next) ==
    IF next # <<>> /\ next[1].kind \in DOMAIN DirectiveSize
    THEN Align(data_index_, DirectiveSize[next[1].kind])
    ELSE data_index_

\* A second label of the same name silently replaces the first.
ParseDataLabel(token) ==
    LET next == IF pos_ < Len(source.data) THEN <<source.data[pos_ + 1]>> ELSE <<>>
    IN  /\ data_index_' = LabelIndex(next)
        /\ symbol_table_' = [n \in DOMAIN symbol_table_ \cup {token.name} |->
                                IF n = token.name
                                THEN [address |-> data_index_', isData |-> TRUE]
                                ELSE symbol_table_[n]]
        /\ errors_' = IF next # <<>> /\ next[1].kind \in DOMAIN DirectiveSize
                      THEN errors_ ELSE errors_ + 1
        /\ UNCHANGED data_buffer_

\* All values of a directive have one size: only the first needs padding.
ParseDirective(token) ==
    LET items == Items(token)
        start == Align(data_index_, DirectiveSize[token.kind])
    IN  /\ data_buffer_' = data_buffer_ \o items
        /\ data_index_' = IF items = <<>> THEN data_index_
                          ELSE start + DirectiveSize[token.kind] * Len(items)
        /\ errors_' = IF token.kind = "zero" /\ token.count = 0 THEN errors_ + 1 ELSE errors_
        /\ UNCHANGED symbol_table_

ParseData ==
    /\ phase = "data" /\ pos_ <= Len(source.data)
    /\ LET token == source.data[pos_]
       IN  IF token.kind = "label" THEN ParseDataLabel(token) ELSE ParseDirective(token)
    /\ pos_' = pos_ + 1
    /\ UNCHANGED <<source, phase, intermediate_code_, back_patch_>>

EndFirstPass ==
    /\ phase = "data" /\ pos_ > Len(source.data)
    /\ phase' = "text" /\ pos_' = 1
    /\ UNCHANGED <<source, data_index_, symbol_table_, data_buffer_, intermediate_code_,
                   back_patch_, errors_>>

-----------------------------------------------------------------------------
(* Second pass: the text section *)

Known(name, isData) == name \in DOMAIN symbol_table_ /\ symbol_table_[name].isData = isData

Operand(line, name) == IF name \in DOMAIN line THEN line[name] ELSE 0

NoLabel == ""

\* An ICUnit with the line it comes from and the flag that goes with it.
Unit(line, opcode, rd, rs1, imm, resolved) ==
    [opcode |-> opcode, rd |-> rd, rs1 |-> rs1, rs2 |-> Operand(line, "rs2"), imm |-> imm,
     label |-> IF "label" \in DOMAIN line THEN line.label ELSE NoLabel,
     line |-> Len(source.data) + pos_, resolved |-> resolved]

UnitOf(line, imm, resolved) ==
    Unit(line, line.opcode, Operand(line, "rd"), Operand(line, "rs1"), imm, resolved)

Emit(units) ==
    /\ intermediate_code_' = intermediate_code_ \o units
    /\ UNCHANGED <<symbol_table_, back_patch_, errors_>>

\* The line is skipped, and no instruction takes its place.
Reject ==
    /\ errors_' = errors_ + 1
    /\ UNCHANGED <<symbol_table_, intermediate_code_, back_patch_>>

ParseLabel(line) ==
    IF line.label \in DOMAIN symbol_table_
    THEN Reject
    ELSE /\ symbol_table_' = [n \in DOMAIN symbol_table_ \cup {line.label} |->
                                 IF n = line.label
                                 THEN [address |-> instruction_index_ * 4, isData |-> FALSE]
                                 ELSE symbol_table_[n]]
         /\ UNCHANGED <<intermediate_code_, back_patch_, errors_>>

\* What an immediate operand has to be; a U-type's comes without its low bits.
ImmediateAllowed(opcode, imm) ==
    CASE Instruction[opcode].type \in {"I1", "S"} -> imm \in -(2 ^ 11) .. (2 ^ 11 - 1)
      [] Instruction[opcode].type = "I2" -> imm \in 0 .. 31
      [] Instruction[opcode].type = "B" -> imm \in -(2 ^ 12) .. (2 ^ 12 - 1) /\ imm % 4 = 0
      [] Instruction[opcode].type = "U" -> imm \in 0 .. (2 ^ 20 - 1)
      [] Instruction[opcode].type = "J" -> imm \in -(2 ^ 20) .. (2 ^ 20 - 1) /\ imm % 2 = 0
      [] OTHER -> TRUE

\* The forms with three registers or with an immediate.
ParsePlain(line) ==
    IF ImmediateAllowed(line.opcode, Operand(line, "imm"))
    THEN Emit(<<UnitOf(line, Operand(line, "imm"), TRUE)>>)
    ELSE Reject

Reach(opcode) == IF opcode \in OfType({"B"}) THEN BranchReach ELSE JumpReach

InReach(opcode, offset) == offset \in -Reach(opcode) .. (Reach(opcode) - 1)

\* A branch or jump to a label: the label may be behind, or not known yet.
ParseReference(line) ==
    IF Known(line.label, FALSE)
    THEN LET offset == symbol_table_[line.label].address - instruction_index_ * 4
         IN  IF InReach(line.opcode, offset) THEN Emit(<<UnitOf(line, offset, TRUE)>>) ELSE Reject
    ELSE /\ back_patch_' = Append(back_patch_, instruction_index_)
         /\ intermediate_code_' = Append(intermediate_code_, UnitOf(line, 0, FALSE))
         /\ UNCHANGED <<symbol_table_, errors_>>

\* The high part is rounded so that the low part, which is sign-extended, adds up
\* to the value again.  Mutant: it is not rounded.
HighTruncated(value) == value \div LowSize

High(value) == (value + LowSize \div 2) \div LowSize

Low(value) == value - High(value) * LowSize

\* la, and a load from a data label: AUIPC and an instruction for the low part.
ParseAddress(line) ==
    LET offset == DataStart + symbol_table_[line.label].address - instruction_index_ * 4
        second == IF line.opcode = "la" THEN "addi" ELSE line.opcode
    IN  IF Known(line.label, TRUE)
        THEN Emit(<<Unit(line, "auipc", line.rd, 0, High(offset), TRUE),
                    Unit(line, second, line.rd, line.rd, Low(offset), TRUE)>>)
        ELSE Reject

\* li: the shortest of ADDI, LUI, and LUI with ADDI.
ParseLi(line) ==
    LET addi(rs1, imm) == Unit(line, "addi", line.rd, rs1, imm, TRUE)
        lui == Unit(line, "lui", line.rd, 0, High(line.imm), TRUE)
    IN  IF line.imm \in -(LowSize \div 2) .. (LowSize \div 2 - 1)
        THEN Emit(<<addi(0, line.imm)>>)
        ELSE IF line.imm \in -WordReach .. (WordReach - 1)
        THEN Emit(IF Low(line.imm) = 0 THEN <<lui>>
                  ELSE <<lui, addi(line.rd, Low(line.imm))>>)
        ELSE Reject

ParseLine(line) ==
    CASE line.opcode = "label" -> ParseLabel(line)
      [] line.opcode = "bad" -> Reject
      [] line.opcode = "li" -> ParseLi(line)
      [] line.opcode = "la" \/ (line.opcode = "lw" /\ "label" \in DOMAIN line) ->
             ParseAddress(line)
      [] line.opcode \in OfType({"B", "J"}) /\ "label" \in DOMAIN line -> ParseReference(line)
      [] OTHER -> ParsePlain(line)

ParseText ==
    /\ phase = "text" /\ pos_ <= Len(source.text)
    /\ ParseLine(source.text[pos_])
    /\ pos_' = pos_ + 1
    /\ UNCHANGED <<source, phase, data_index_, data_buffer_>>

EndSecondPass ==
    /\ phase = "text" /\ pos_ > Len(source.text)
    /\ phase' = "patch" /\ pos_' = 1
    /\ UNCHANGED <<source, data_index_, symbol_table_, data_buffer_, intermediate_code_,
                   back_patch_, errors_>>

-----------------------------------------------------------------------------
(* Back patching *)

\* Mutant: the offset is taken from the instruction after the reference.
PatchOffsetFromNext(index, name) == symbol_table_[name].address - (index + 1) * 4

PatchOffset(index, name) == symbol_table_[name].address - index * 4

\* A branch to a data label is an error; a jump to one is resolved with the
\* label's place in the data section, DataStart left out.
BackPatch ==
    /\ phase = "patch" /\ pos_ <= Len(back_patch_)
    /\ LET index == back_patch_[pos_]
           block == intermediate_code_[index + 1]
           branch == block.opcode \in OfType({"B"})
           known == block.label \in DOMAIN symbol_table_
           toData == known /\ symbol_table_[block.label].isData
           offset == PatchOffset(index, block.label)
           patched == known /\ ((branch /\ toData) \/ InReach(block.opcode, offset))
       IN  /\ intermediate_code_' =
                  IF patched
                  THEN [intermediate_code_ EXCEPT
                           ![index + 1].resolved = TRUE,
                           ![index + 1].imm = IF branch /\ toData THEN @ ELSE offset]
                  ELSE intermediate_code_
           /\ errors_' = IF patched /\ ~(branch /\ toData) THEN errors_ ELSE errors_ + 1
    /\ pos_' = pos_ + 1
    /\ UNCHANGED <<source, phase, data_index_, symbol_table_, data_buffer_, back_patch_>>

\* assemble: the code is generated if there were no errors.
Assemble ==
    /\ phase = "patch" /\ pos_ > Len(back_patch_)
    /\ phase' = IF errors_ = 0 THEN "assembled" ELSE "failed"
    /\ UNCHANGED <<source, pos_, data_index_, symbol_table_, data_buffer_, intermediate_code_,
                   back_patch_, errors_>>

text_buffer == [i \in 1 .. Len(intermediate_code_) |-> MachineCode(intermediate_code_[i])]

\* line_number_instruction_number_mapping: the lines from the one after the
\* instruction before up to an instruction's own are mapped to it, if there are
\* any.  Mutant: the line of the instruction before is mapped anew.
LineMappingOverlapping ==
    LET line(i) == intermediate_code_[i].line
        after(i) == IF i = 1 THEN 1 ELSE line(i - 1)
    IN  [l \in UNION {after(i) .. line(i) : i \in 1 .. instruction_index_} |->
            Max({i \in 1 .. instruction_index_ : l \in after(i) .. line(i)}) - 1]

LineMapping ==
    LET line(i) == intermediate_code_[i].line
        after(i) == IF i = 1 THEN 1 ELSE line(i - 1) + 1
    IN  [l \in UNION {after(i) .. line(i) : i \in 1 .. instruction_index_} |->
            Max({i \in 1 .. instruction_index_ : l \in after(i) .. line(i)}) - 1]

-----------------------------------------------------------------------------
\* A new Parser, at the first of its tokens.
Parsing(s) ==
    /\ source' = s
    /\ phase' = "data" /\ pos_' = 1
    /\ data_index_' = 0 /\ symbol_table_' = <<>> /\ data_buffer_' = <<>>
    /\ intermediate_code_' = <<>> /\ back_patch_' = <<>> /\ errors_' = 0

AssemblerNext ==
    \/ ParseData \/ EndFirstPass \/ ParseText \/ EndSecondPass \/ BackPatch \/ Assemble
===============================================================================
