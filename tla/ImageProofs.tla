----------------------------- MODULE ImageProofs -----------------------------
(***************************************************************************)
(* The image of a source means what the source says, for every source,     *)
(* every start of the data section and every memory.                       *)
(***************************************************************************)
EXTENDS ImageProperties, EncodingProofs, SequenceTheorems, WellFoundedInduction

-----------------------------------------------------------------------------
(* Types. *)

Phase == {"idle", "data", "text", "patch", "assembled", "failed", "write_text", "write_data",
          "loaded", "crashed"}

ItemType == {item \in [size : Size, value : Value] : item.value \subseteq 0 .. (8 * item.size - 1)}

UnitType ==
    [opcode : Mnemonic, rd : Int, rs1 : Int, rs2 : Int, imm : Int, label : STRING \cup {NoLabel}, line : Nat,
     resolved : BOOLEAN]

SymbolType == [address : Nat, isData : BOOLEAN]

SessionTypes ==
    /\ session \in [sources : Seq(Source), probes : Nat]
    /\ source \in Source
    /\ phase \in Phase
    /\ pos_ \in Nat \ {0}
    /\ errors_ \in Nat

TableTypes ==
    /\ data_index_ \in Nat
    /\ \A n \in DOMAIN symbol_table_ : symbol_table_[n] \in SymbolType
    /\ data_buffer_ \in Seq(ItemType)

CodeTypes ==
    /\ intermediate_code_ \in Seq(UnitType)
    /\ back_patch_ \in Seq(Nat)
    /\ \A i \in DOMAIN back_patch_ : back_patch_[i] < Len(intermediate_code_)

LoaderTypes ==
    /\ loaded \in Nat /\ data_counter \in Nat
    /\ MemoryTypeOK

ImageTypes == SessionTypes /\ TableTypes /\ CodeTypes /\ LoaderTypes

\* The types the proofs use imply the invariant the runs check.
LEMMA TypesSuffice == ImageTypes => TypeOK
<1> SUFFICES ASSUME ImageTypes PROVE TypeOK
  OBVIOUS
<1> USE DEF ImageTypes
<1>1. MemoryTypeOK /\ {pos_, data_index_, errors_, loaded, data_counter} \subseteq Nat
  BY DEF SessionTypes, TableTypes, LoaderTypes
<1>2. phase \in Phase
  BY DEF SessionTypes
<1>3. \A n \in DOMAIN symbol_table_ :
          symbol_table_[n].address \in Nat /\ symbol_table_[n].isData \in BOOLEAN
  BY DEF TableTypes, SymbolType
<1>4. \A i \in DOMAIN data_buffer_ :
          data_buffer_[i].size \in Size /\ data_buffer_[i].value \in Value
  BY ElementOfSeq DEF TableTypes, ItemType
<1>5. \A i \in DOMAIN intermediate_code_ :
          intermediate_code_[i].opcode \in Mnemonic /\ intermediate_code_[i].imm \in Int
  <2>1. \A i \in DOMAIN intermediate_code_ : intermediate_code_[i] \in UnitType
    BY ElementOfSeq DEF CodeTypes
  <2> QED BY <2>1 DEF UnitType
<1>6. \A i \in DOMAIN back_patch_ : back_patch_[i] \in 0 .. (instruction_index_ - 1)
  BY ElementOfSeq DEF CodeTypes, instruction_index_
<1> QED BY <1>1, <1>2, <1>3, <1>4, <1>5, <1>6 DEF TypeOK, Phase

\* They hold of an empty memory with nothing loaded.
LEMMA TypesAtStart == Init => ImageTypes
<1> SUFFICES ASSUME Init PROVE ImageTypes
  OBVIOUS
<1> USE SessionAssumption DEF Init
<1>1. source \in Source
  BY DEF Source
<1>2. SessionTypes
  BY <1>1 DEF SessionTypes, Phase
<1>3. TableTypes /\ CodeTypes
  BY DEF TableTypes, CodeTypes
<1>4. LoaderTypes
  BY DEF LoaderTypes, MemoryInit, MemoryTypeOK
<1> QED BY <1>2, <1>3, <1>4 DEF ImageTypes

-----------------------------------------------------------------------------
(* Lines. *)

RegisterName == {"rd", "rs1", "rs2"}

\* Which operands the lines have is told by their opcodes.
LEMMA LineForms ==
    ASSUME NEW line \in TextLine
    PROVE  /\ line.opcode \in {"bad", "label", "li", "la"} \cup Mnemonic
           /\ line.opcode = "label" => line.label \in STRING
           /\ "label" \in DOMAIN line => line.label \in STRING
           /\ line.opcode = "li" => line.rd \in Register /\ line.imm \in Int
           /\ line.opcode = "la" => "label" \in DOMAIN line
           /\ line.opcode \in {"la", "lw"} /\ "label" \in DOMAIN line => line.rd \in Register
  BY Mnemonics, Types DEF TextLine, OfType

\* A register or an immediate that a line has is an integer.
LEMMA OperandTypes ==
    ASSUME NEW line \in TextLine
    PROVE  /\ \A name \in RegisterName : Operand(line, name) \in Register
           /\ Operand(line, "imm") \in Int
  BY DEF TextLine, Operand, RegisterName, Register

\* The instructions the parser makes of a line's fields.
LEMMA UnitTypes ==
    ASSUME SessionTypes, NEW line \in TextLine, NEW opcode \in Mnemonic,
           NEW rd \in Int, NEW rs1 \in Int, NEW imm \in Int, NEW resolved \in BOOLEAN
    PROVE  Unit(line, opcode, rd, rs1, imm, resolved) \in UnitType
<1>1. Operand(line, "rs2") \in Int
  BY OperandTypes DEF RegisterName, Register
<1>2. (IF "label" \in DOMAIN line THEN line.label ELSE NoLabel) \in STRING \cup {NoLabel}
  BY LineForms
<1>3. Len(source.data) + pos_ \in Nat
  BY DEF SessionTypes, Source
<1> QED BY <1>1, <1>2, <1>3 DEF Unit, UnitType

\* The high and the low part of an integer are its split by LowSize.
LEMMA PartTypes ==
    ASSUME NEW value \in Int
    PROVE  /\ High(value) \in Int /\ Low(value) \in Int
           /\ value = High(value) * LowSize + Low(value)
           /\ Low(value) \in LowRange
<1> DEFINE h == LowSize \div 2
           q == (value + h) \div LowSize
<1>1. LowSize \in Nat /\ LowSize > 0 /\ h \in Nat /\ LowSize = 2 * h
  BY AssemblerAssumption
<1>2. q \in Int /\ q * LowSize <= value + h /\ value + h < q * LowSize + LowSize
  BY <1>1
<1> HIDE DEF h, q
<1>3. q * LowSize \in Int
  BY <1>1, <1>2
<1>4. value - q * LowSize \in -h .. (h - 1)
  BY <1>1, <1>2, <1>3
<1>5. value = q * LowSize + (value - q * LowSize)
  BY <1>3
<1> QED BY <1>2, <1>3, <1>4, <1>5 DEF High, Low, LowRange, q, h

-----------------------------------------------------------------------------
(* Directives. *)

\* A function on 1 .. n is a sequence of that length.
LEMMA FunctionIsSequence ==
    ASSUME NEW S, NEW n \in Nat, NEW f \in [1 .. n -> S]
    PROVE  f \in Seq(S) /\ Len(f) = n /\ DOMAIN f = 1 .. n
  OBVIOUS

\* Sequences of one and two elements.
LEMMA ShortSequences ==
    ASSUME NEW S, NEW u \in S, NEW v \in S
    PROVE  <<u>> \in Seq(S) /\ <<u, v>> \in Seq(S)
  OBVIOUS

\* The values of a directive have its size.
LEMMA ItemsTypes ==
    ASSUME NEW token \in DataToken, token.kind # "label"
    PROVE  /\ Items(token) \in Seq(ItemType)
           /\ DirectiveSize[token.kind] \in Size
           /\ \A i \in DOMAIN Items(token) : Items(token)[i].size = DirectiveSize[token.kind]
<1> DEFINE size == DirectiveSize[token.kind]
<1>1. token.kind \in {"byte", "halfword", "word", "dword", "string", "zero"}
  BY DEF DataToken
<1>2. /\ size \in Size
      /\ token.kind \in {"string", "zero"} => size = 1
  BY <1>1 DEF DirectiveSize, Size
<1>3. token.kind # "zero" => token.values \in Seq(SUBSET (0 .. 63))
  BY <1>1 DEF DataToken
<1>4. token.kind = "zero" => token.count \in Nat
  BY <1>1 DEF DataToken
<1> HIDE DEF size
<1>5. \A s \in Size : \A v : Item(s, v) \in ItemType /\ Item(s, v).size = s
  BY DEF Item, ItemType, Size, Value
<1>6. CASE token.kind = "zero"
  <2>1. Items(token) = [i \in 1 .. token.count |-> Item(1, {})]
    BY <1>6 DEF Items
  <2>2. 1 \in Size
    BY DEF Size
  <2> QED BY <1>2, <1>4, <1>5, <1>6, <2>1, <2>2, IsASeq DEF size
<1>7. CASE token.kind = "string"
  <2> DEFINE f == [i \in 1 .. Len(token.values) + 1 |->
                      Item(1, IF i <= Len(token.values) THEN token.values[i] ELSE {})]
  <2>1. Items(token) = f
    BY <1>7 DEF Items
  <2>2. 1 \in Size /\ Len(token.values) + 1 \in Nat
    BY <1>3, <1>7 DEF Size
  <2>3. \A i \in 1 .. Len(token.values) + 1 : f[i] \in ItemType /\ f[i].size = 1
    BY <1>5, <2>2
  <2>4. f \in Seq(ItemType)
    BY <2>2, <2>3, FunctionIsSequence
  <2> QED BY <1>2, <1>7, <2>1, <2>3, <2>4 DEF size
<1>8. CASE token.kind \notin {"zero", "string"}
  <2> DEFINE f == [i \in 1 .. Len(token.values) |-> Item(size, token.values[i])]
  <2>1. Items(token) = f
    BY <1>1, <1>8 DEF Items, size
  <2>2. Len(token.values) \in Nat
    BY <1>3, <1>8
  <2>3. \A i \in 1 .. Len(token.values) : f[i] \in ItemType /\ f[i].size = size
    BY <1>2, <1>5
  <2>4. f \in Seq(ItemType)
    BY <2>2, <2>3, FunctionIsSequence
  <2> QED BY <1>2, <2>1, <2>3, <2>4 DEF size
<1> QED BY <1>6, <1>7, <1>8

-----------------------------------------------------------------------------
(* Every step keeps the types. *)

\* Align goes up to the next multiple of the size, if at all.
LEMMA AlignTypes ==
    ASSUME NEW i \in Nat, NEW size \in Size
    PROVE  /\ Align(i, size) \in Nat /\ Align(i, size) >= i
           /\ Align(i, size) % size = 0
           /\ Align(i, size) < i + size
  BY DEF Align, Size

\* A token of the data section or a line of the text.
LEMMA TokenTypes ==
    ASSUME SessionTypes
    PROVE  /\ source.data \in Seq(DataToken) /\ source.text \in Seq(TextLine)
           /\ \A k \in 1 .. Len(source.data) : source.data[k] \in DataToken
           /\ \A k \in 1 .. Len(source.text) : source.text[k] \in TextLine
  BY ElementOfSeq DEF SessionTypes, Source

\* A label of the data section keeps the types of the table.
LEMMA LabelTypes ==
    ASSUME SessionTypes, TableTypes, NEW token \in DataToken, token.kind = "label",
           ParseDataLabel(token)
    PROVE  TableTypes' /\ errors_' \in Nat
<1> DEFINE next == IF pos_ < Len(source.data) THEN <<source.data[pos_ + 1]>> ELSE <<>>
<1>1. LabelIndex(next) \in Nat
  <2>1. CASE next # <<>> /\ next[1].kind \in DOMAIN DirectiveSize
    <3>1. next[1] \in DataToken /\ next[1].kind # "label"
      <4>1. next = <<source.data[pos_ + 1]>> /\ pos_ + 1 \in 1 .. Len(source.data)
        BY <2>1, TokenTypes DEF SessionTypes
      <4> QED BY <2>1, <4>1, TokenTypes DEF DirectiveSize
    <3> HIDE DEF next
    <3>2. DirectiveSize[next[1].kind] \in Size
      BY <3>1, ItemsTypes
    <3> QED BY <2>1, <3>2, AlignTypes DEF LabelIndex, TableTypes
  <2>2. CASE ~(next # <<>> /\ next[1].kind \in DOMAIN DirectiveSize)
    BY <2>2 DEF LabelIndex, TableTypes
  <2> QED BY <2>1, <2>2
<1>2. /\ data_index_' = LabelIndex(next)
      /\ symbol_table_' = [n \in DOMAIN symbol_table_ \cup {token.name} |->
                              IF n = token.name THEN [address |-> data_index_', isData |-> TRUE]
                              ELSE symbol_table_[n]]
      /\ errors_' = errors_ \/ errors_' = errors_ + 1
      /\ UNCHANGED data_buffer_
  BY DEF ParseDataLabel
<1> HIDE DEF next
<1>3. \A n \in DOMAIN symbol_table_' : symbol_table_'[n] \in SymbolType
  <2>1. [address |-> data_index_', isData |-> TRUE] \in SymbolType
    BY <1>1, <1>2 DEF SymbolType
  <2> QED BY <1>2, <2>1 DEF TableTypes
<1>4. errors_' \in Nat
  BY <1>2 DEF SessionTypes
<1>5. data_buffer_' \in Seq(ItemType)
  BY <1>2 DEF TableTypes
<1>6. data_index_' \in Nat
  BY <1>1, <1>2
<1> QED BY <1>3, <1>4, <1>5, <1>6 DEF TableTypes

\* A directive keeps the types of the data buffer.
LEMMA DirectiveTypes ==
    ASSUME SessionTypes, TableTypes, NEW token \in DataToken, token.kind # "label",
           ParseDirective(token)
    PROVE  TableTypes' /\ errors_' \in Nat
<1> DEFINE items == Items(token)
           size == DirectiveSize[token.kind]
<1>1. items \in Seq(ItemType) /\ size \in Size /\ Len(items) \in Nat
  BY ItemsTypes
<1>2. Align(data_index_, size) \in Nat
  BY <1>1, AlignTypes DEF TableTypes
<1>3. data_buffer_' \in Seq(ItemType)
  BY <1>1 DEF ParseDirective, TableTypes
<1>4. size * Len(items) \in Nat
  BY <1>1 DEF Size
<1>5. data_index_' = IF items = <<>> THEN data_index_
                     ELSE Align(data_index_, size) + size * Len(items)
  BY DEF ParseDirective
<1>6. /\ errors_' = errors_ \/ errors_' = errors_ + 1
      /\ UNCHANGED symbol_table_
  BY DEF ParseDirective
<1> HIDE DEF items, size
<1>7. data_index_' \in Nat
  BY <1>2, <1>4, <1>5 DEF TableTypes
<1> QED BY <1>3, <1>6, <1>7 DEF TableTypes, SessionTypes

\* Emit keeps the types of the code.
LEMMA EmitTypes ==
    ASSUME ImageTypes, NEW units \in Seq(UnitType), Emit(units)
    PROVE  CodeTypes' /\ UNCHANGED <<symbol_table_, errors_>>
<1>1. intermediate_code_' \in Seq(UnitType)
      /\ Len(intermediate_code_') = Len(intermediate_code_) + Len(units)
  BY DEF Emit, ImageTypes, CodeTypes
<1>2. Len(units) \in Nat /\ Len(intermediate_code_) \in Nat
  BY DEF ImageTypes, CodeTypes
<1>3. \A i \in DOMAIN back_patch_ : back_patch_[i] \in Nat
  BY ElementOfSeq DEF ImageTypes, CodeTypes
<1> QED BY <1>1, <1>2, <1>3 DEF Emit, ImageTypes, CodeTypes

\* Reject keeps all types.
LEMMA RejectTypes ==
    ASSUME ImageTypes, Reject
    PROVE  CodeTypes' /\ errors_' \in Nat /\ UNCHANGED symbol_table_
  BY DEF Reject, ImageTypes, CodeTypes, SessionTypes

\* What a line of each form is.
IsAddress(line) == line.opcode = "la" \/ (line.opcode = "lw" /\ "label" \in DOMAIN line)
IsReference(line) == NamesText(line)
IsPlain(line) == line.opcode \in Mnemonic /\ "label" \notin DOMAIN line

\* The forms of a line exclude each other.
LEMMA LineCases ==
    ASSUME NEW line \in TextLine
    PROVE  /\ \/ line.opcode \in {"label", "bad", "li"}
              \/ IsAddress(line) \/ IsReference(line) \/ IsPlain(line)
           /\ IsAddress(line) <=> NamesData(line)
           /\ IsAddress(line) => line.opcode \in {"la", "lw"} /\ line.rd \in Register
           /\ IsReference(line) => line.opcode \in {"beq", "jal"}
           /\ IsPlain(line) => line.opcode \in Mnemonic
<1>1. "label" \in DOMAIN line => line.opcode \in {"label", "la", "lw", "beq", "jal"}
  BY Mnemonics, Types DEF TextLine, OfType
<1>2. OfType({"B", "J"}) = {"beq", "jal"}
  BY Mnemonics, Types DEF OfType
<1> QED BY <1>1, <1>2, LineForms, Mnemonics DEF IsAddress, IsReference, IsPlain, NamesData, NamesText

\* What ParseLine does depends on the form of the line.
LEMMA ParseLineCases ==
    ASSUME NEW line \in TextLine, ParseLine(line)
    PROVE  /\ line.opcode = "label" => ParseLabel(line)
           /\ line.opcode = "bad" => Reject
           /\ line.opcode = "li" => ParseLi(line)
           /\ IsAddress(line) => ParseAddress(line)
           /\ IsReference(line) => ParseReference(line)
           /\ IsPlain(line) => ParsePlain(line)
<1>1. "label" \notin Mnemonic /\ "bad" \notin Mnemonic /\ "li" \notin Mnemonic
      /\ "la" \notin Mnemonic
  BY Mnemonics
<1>2. OfType({"B", "J"}) \subseteq Mnemonic /\ "lw" \notin OfType({"B", "J"})
  BY Mnemonics, Types DEF OfType
<1> QED BY <1>1, <1>2 DEF ParseLine, IsAddress, IsReference, IsPlain, NamesText

\* ParseAddress keeps the types.
LEMMA AddressTypes ==
    ASSUME ImageTypes, NEW line \in TextLine, IsAddress(line), ParseAddress(line)
    PROVE  CodeTypes' /\ errors_' \in Nat /\ UNCHANGED symbol_table_
<1> DEFINE offset == DataStart + symbol_table_[line.label].address - instruction_index_ * 4
           second == IF line.opcode = "la" THEN "addi" ELSE line.opcode
           units == <<Unit(line, "auipc", line.rd, 0, High(offset), TRUE),
                      Unit(line, second, line.rd, line.rd, Low(offset), TRUE)>>
<1>1. CASE Known(line.label, TRUE)
  <2>1. offset \in Int
    BY <1>1, AssemblerAssumption
    DEF Known, ImageTypes, TableTypes, CodeTypes, SymbolType, instruction_index_
  <2>2. second \in Mnemonic /\ "auipc" \in Mnemonic /\ line.rd \in Int
    BY LineCases, Mnemonics DEF Register
  <2>3. Emit(units)
    BY <1>1 DEF ParseAddress
  <2> HIDE DEF offset, second
  <2>4. High(offset) \in Int /\ Low(offset) \in Int
    BY <2>1, PartTypes
  <2>5. units \in Seq(UnitType)
    <3>1. 0 \in Int /\ TRUE \in BOOLEAN
      OBVIOUS
    <3>2. SessionTypes
      BY DEF ImageTypes
    <3>3. Unit(line, "auipc", line.rd, 0, High(offset), TRUE) \in UnitType
      BY <2>2, <2>4, <3>1, <3>2, UnitTypes, Zenon
    <3>4. Unit(line, second, line.rd, line.rd, Low(offset), TRUE) \in UnitType
      BY <2>2, <2>4, <3>1, <3>2, UnitTypes, Zenon
    <3> QED BY <3>3, <3>4, ShortSequences, Zenon
  <2> HIDE DEF units
  <2> QED BY <2>3, <2>5, EmitTypes DEF ImageTypes, SessionTypes
<1>2. CASE ~Known(line.label, TRUE)
  BY <1>2, RejectTypes DEF ParseAddress
<1> QED BY <1>1, <1>2

\* ParseLi keeps the types.
LEMMA LiTypes ==
    ASSUME ImageTypes, NEW line \in TextLine, line.opcode = "li", ParseLi(line)
    PROVE  CodeTypes' /\ errors_' \in Nat /\ UNCHANGED symbol_table_
<1> DEFINE addi(rs1, imm) == Unit(line, "addi", line.rd, rs1, imm, TRUE)
           lui == Unit(line, "lui", line.rd, 0, High(line.imm), TRUE)
<1>1. line.rd \in Int /\ line.imm \in Int
  BY LineForms DEF Register
<1>2. "addi" \in Mnemonic /\ "lui" \in Mnemonic
  BY Mnemonics
<1>3. High(line.imm) \in Int /\ Low(line.imm) \in Int
  BY <1>1, PartTypes
<1>4. addi(0, line.imm) \in UnitType /\ addi(line.rd, Low(line.imm)) \in UnitType
      /\ lui \in UnitType
  <2>1. 0 \in Int /\ TRUE \in BOOLEAN
    OBVIOUS
  <2>2. SessionTypes
    BY DEF ImageTypes
  <2> QED BY <1>1, <1>2, <1>3, <2>1, <2>2, UnitTypes, Zenon
<1>5. \/ Emit(<<addi(0, line.imm)>>) \/ Emit(<<lui>>)
      \/ Emit(<<lui, addi(line.rd, Low(line.imm))>>) \/ Reject
  BY DEF ParseLi
<1> HIDE DEF addi, lui
<1>6. <<addi(0, line.imm)>> \in Seq(UnitType) /\ <<lui>> \in Seq(UnitType)
      /\ <<lui, addi(line.rd, Low(line.imm))>> \in Seq(UnitType)
  BY <1>4
<1> QED BY <1>5, <1>6, EmitTypes, RejectTypes DEF ImageTypes, SessionTypes

\* The instruction of a line with registers or a number.
LEMMA UnitOfTypes ==
    ASSUME ImageTypes, NEW line \in TextLine, line.opcode \in Mnemonic, NEW imm \in Int,
           NEW resolved \in BOOLEAN
    PROVE  UnitOf(line, imm, resolved) \in UnitType
<1>1. Operand(line, "rd") \in Int /\ Operand(line, "rs1") \in Int
  BY OperandTypes DEF RegisterName, Register
<1> QED BY <1>1, UnitTypes DEF UnitOf, ImageTypes

\* ParseReference keeps the types.
LEMMA ReferenceTypes ==
    ASSUME ImageTypes, NEW line \in TextLine, IsReference(line), ParseReference(line)
    PROVE  CodeTypes' /\ errors_' \in Nat /\ UNCHANGED symbol_table_
<1> DEFINE offset == symbol_table_[line.label].address - instruction_index_ * 4
<1>1. line.opcode \in Mnemonic
  BY LineCases, Mnemonics
<1>2. CASE Known(line.label, FALSE)
  <2>1. offset \in Int
    BY <1>2 DEF Known, ImageTypes, TableTypes, CodeTypes, SymbolType, instruction_index_
  <2>2. Emit(<<UnitOf(line, offset, TRUE)>>) \/ Reject
    BY <1>2 DEF ParseReference
  <2> HIDE DEF offset
  <2>3. UnitOf(line, offset, TRUE) \in UnitType
    BY <1>1, <2>1, UnitOfTypes, Zenon
  <2>4. <<UnitOf(line, offset, TRUE)>> \in Seq(UnitType)
    BY <2>3, ShortSequences, Zenon
  <2> QED BY <2>2, <2>4, EmitTypes, RejectTypes DEF ImageTypes, SessionTypes
<1>3. CASE ~Known(line.label, FALSE)
  <2> DEFINE unit == UnitOf(line, 0, FALSE)
             n == Len(intermediate_code_)
  <2>1. unit \in UnitType
    <3>1. 0 \in Int
      OBVIOUS
    <3> QED BY <1>1, <3>1, UnitOfTypes, Zenon
  <2>2. /\ back_patch_' = Append(back_patch_, n)
        /\ intermediate_code_' = Append(intermediate_code_, unit)
        /\ UNCHANGED <<symbol_table_, errors_>>
    BY <1>3 DEF ParseReference, instruction_index_
  <2>3. /\ intermediate_code_ \in Seq(UnitType) /\ back_patch_ \in Seq(Nat) /\ n \in Nat
        /\ \A i \in DOMAIN back_patch_ : back_patch_[i] < n
    BY DEF ImageTypes, CodeTypes
  <2> HIDE DEF unit
  <2>4. /\ intermediate_code_' \in Seq(UnitType) /\ Len(intermediate_code_') = n + 1
        /\ back_patch_' \in Seq(Nat)
    BY <2>1, <2>2, <2>3, AppendProperties
  <2>5. ASSUME NEW i \in DOMAIN back_patch_' PROVE back_patch_'[i] < n + 1
    <3>1. i \in DOMAIN back_patch_ \/ back_patch_'[i] = n
      BY <2>2, <2>3, AppendProperties
    <3>2. i \in DOMAIN back_patch_ => back_patch_'[i] = back_patch_[i] /\ back_patch_[i] \in Nat
      BY <2>2, <2>3, AppendProperties
    <3> QED BY <2>3, <3>1, <3>2
  <2> QED BY <2>2, <2>4, <2>5 DEF CodeTypes, ImageTypes, SessionTypes
<1> QED BY <1>2, <1>3

\* ParseText keeps the types.
LEMMA LineTypes ==
    ASSUME ImageTypes, NEW line \in TextLine, ParseLine(line)
    PROVE  /\ CodeTypes' /\ errors_' \in Nat
           /\ \A n \in DOMAIN symbol_table_' : symbol_table_'[n] \in SymbolType
<1>1. CASE line.opcode = "label"
  <2>1. ParseLabel(line)
    BY <1>1, ParseLineCases
  <2>2. CASE Reject
    BY <2>2, RejectTypes DEF ImageTypes, TableTypes
  <2>3. CASE ~Reject
    <3> DEFINE symbol == [address |-> instruction_index_ * 4, isData |-> FALSE]
    <3>1. symbol \in SymbolType
      BY DEF ImageTypes, CodeTypes, SymbolType, instruction_index_
    <3>2. /\ symbol_table_' = [n \in DOMAIN symbol_table_ \cup {line.label} |->
                                  IF n = line.label THEN symbol ELSE symbol_table_[n]]
          /\ UNCHANGED <<intermediate_code_, back_patch_, errors_>>
      BY <2>1, <2>3 DEF ParseLabel
    <3> HIDE DEF symbol
    <3>3. \A n \in DOMAIN symbol_table_' : symbol_table_'[n] \in SymbolType
      BY <3>1, <3>2 DEF ImageTypes, TableTypes
    <3> QED BY <3>2, <3>3 DEF ImageTypes, CodeTypes, SessionTypes
  <2> QED BY <2>2, <2>3
<1>2. CASE line.opcode # "label"
  <2>1. CodeTypes' /\ errors_' \in Nat /\ UNCHANGED symbol_table_
    <3>1. CASE line.opcode = "bad"
      BY <3>1, ParseLineCases, RejectTypes
    <3>2. CASE line.opcode = "li"
      BY <3>2, ParseLineCases, LiTypes
    <3>3. CASE IsAddress(line)
      BY <3>3, ParseLineCases, AddressTypes
    <3>4. CASE IsReference(line)
      BY <3>4, ParseLineCases, ReferenceTypes
    <3>5. CASE IsPlain(line)
      <4> DEFINE imm == Operand(line, "imm")
      <4>1. Emit(<<UnitOf(line, imm, TRUE)>>) \/ Reject
        BY <3>5, ParseLineCases DEF ParsePlain
      <4>2. imm \in Int
        BY OperandTypes
      <4> HIDE DEF imm
      <4>3. UnitOf(line, imm, TRUE) \in UnitType
        BY <3>5, <4>2, UnitOfTypes, Zenon DEF IsPlain
      <4>4. <<UnitOf(line, imm, TRUE)>> \in Seq(UnitType)
        BY <4>3, ShortSequences, Zenon
      <4> QED BY <4>1, <4>4, EmitTypes, RejectTypes DEF ImageTypes, SessionTypes
    <3> QED BY <1>2, <3>1, <3>2, <3>3, <3>4, <3>5, LineCases
  <2> QED BY <2>1 DEF ImageTypes, TableTypes
<1> QED BY <1>1, <1>2

Patched(unit, imm) == [unit EXCEPT !.resolved = TRUE, !.imm = imm]

\* A patched instruction is one.
LEMMA PatchedTypes ==
    ASSUME NEW unit \in UnitType, NEW imm \in Int
    PROVE  Patched(unit, imm) \in UnitType
  BY DEF Patched, UnitType

\* A step of the back patching, from the place in back_patch_.
LEMMA PatchCases ==
    ASSUME ImageTypes, BackPatch
    PROVE  LET index == back_patch_[pos_]
               block == intermediate_code_[index + 1]
               known == block.label \in DOMAIN symbol_table_
               offset == PatchOffset(index, block.label)
               stray == block.opcode \in OfType({"B"}) /\ known
                        /\ symbol_table_[block.label].isData
           IN  /\ pos_ \in 1 .. Len(back_patch_)
               /\ index \in Nat /\ index + 1 \in 1 .. Len(intermediate_code_)
               /\ block \in UnitType
               /\ known => offset \in Int
               /\ \/ UNCHANGED intermediate_code_ /\ errors_' = errors_ + 1
                  \/ /\ stray /\ errors_' = errors_ + 1
                     /\ intermediate_code_' =
                            [intermediate_code_ EXCEPT ![index + 1] = Patched(block, block.imm)]
                  \/ /\ known /\ ~stray /\ InReach(block.opcode, offset) /\ errors_' = errors_
                     /\ intermediate_code_' =
                            [intermediate_code_ EXCEPT ![index + 1] = Patched(block, offset)]
<1> DEFINE index == back_patch_[pos_]
           block == intermediate_code_[index + 1]
           known == block.label \in DOMAIN symbol_table_
           offset == PatchOffset(index, block.label)
           branch == block.opcode \in OfType({"B"})
           toData == known /\ symbol_table_[block.label].isData
           patched == known /\ ((branch /\ toData) \/ InReach(block.opcode, offset))
           stray == branch /\ known /\ symbol_table_[block.label].isData
<1>0. CodeTypes /\ SessionTypes /\ TableTypes
  BY DEF ImageTypes
<1>1. pos_ \in 1 .. Len(back_patch_)
  BY <1>0 DEF BackPatch, SessionTypes, CodeTypes
<1>2. index \in Nat /\ index + 1 \in 1 .. Len(intermediate_code_)
  BY <1>0, <1>1, ElementOfSeq DEF CodeTypes
<1>3. block \in UnitType
  BY <1>0, <1>2, ElementOfSeq DEF CodeTypes
<1>4. known => offset \in Int
  BY <1>0, <1>2 DEF TableTypes, SymbolType, PatchOffset
<1>5. \A imm : [intermediate_code_ EXCEPT ![index + 1].resolved = TRUE, ![index + 1].imm = imm]
                   = [intermediate_code_ EXCEPT ![index + 1] = Patched(block, imm)]
  BY <1>0, <1>2 DEF CodeTypes, Patched
<1>6. /\ intermediate_code_' =
             IF patched
             THEN [intermediate_code_ EXCEPT
                      ![index + 1].resolved = TRUE,
                      ![index + 1].imm = IF branch /\ toData THEN @ ELSE offset]
             ELSE intermediate_code_
      /\ errors_' = IF patched /\ ~(branch /\ toData) THEN errors_ ELSE errors_ + 1
  BY DEF BackPatch
<1>7. CASE ~patched
  BY <1>1, <1>2, <1>3, <1>4, <1>6, <1>7
<1>8. CASE patched /\ stray
  <2>1. intermediate_code_' = [intermediate_code_ EXCEPT ![index + 1].resolved = TRUE,
                                                         ![index + 1].imm = block.imm]
    BY <1>0, <1>2, <1>6, <1>8 DEF CodeTypes, UnitType
  <2> QED BY <1>1, <1>2, <1>3, <1>4, <1>5, <1>6, <1>8, <2>1, Zenon
<1>9. CASE patched /\ ~stray
  <2>1. intermediate_code_' = [intermediate_code_ EXCEPT ![index + 1].resolved = TRUE,
                                                         ![index + 1].imm = offset]
    BY <1>6, <1>9, Zenon
  <2> QED BY <1>1, <1>2, <1>3, <1>4, <1>5, <1>6, <1>9, <2>1, Zenon
<1> QED BY <1>7, <1>8, <1>9

\* BackPatch keeps the types.
LEMMA PatchTypes ==
    ASSUME ImageTypes, BackPatch
    PROVE  CodeTypes' /\ errors_' \in Nat
<1> DEFINE index == back_patch_[pos_]
           block == intermediate_code_[index + 1]
<1>0. CodeTypes /\ SessionTypes /\ index + 1 \in DOMAIN intermediate_code_
  BY PatchCases DEF ImageTypes, CodeTypes
<1>1. errors_' \in Nat
  BY <1>0 DEF BackPatch, SessionTypes
<1>2. \/ UNCHANGED intermediate_code_
      \/ \E imm \in Int :
             intermediate_code_' = [intermediate_code_ EXCEPT ![index + 1] = Patched(block, imm)]
  <2>1. block.imm \in Int
    BY PatchCases DEF UnitType
  <2> QED BY <2>1, PatchCases
<1>3. \A imm \in Int : Patched(block, imm) \in UnitType
  BY PatchCases, PatchedTypes
<1> HIDE DEF index, block
<1>4. intermediate_code_' \in Seq(UnitType) /\ Len(intermediate_code_') = Len(intermediate_code_)
  BY <1>0, <1>2, <1>3 DEF CodeTypes
<1> QED BY <1>0, <1>1, <1>4 DEF BackPatch, CodeTypes

\* Reads and writes keep the types of the memory.
LEMMA MemoryTypes ==
    ASSUME MemoryTypeOK, NEW address \in Nat, NEW size \in Size, NEW value,
           WriteMemory(address, size, value)
    PROVE  MemoryTypeOK'
<1>1. CASE InRange(address, size)
  <2> DEFINE after == WriteGeneric(blocks_, address, size, value)
             touched == {GetBlockIndex(address + i) : i \in 0 .. (size - 1)}
  <2>1. blocks_' = after
    BY <1>1 DEF WriteMemory
  <2>2. touched \subseteq Nat
    <3>1. \A i \in 0 .. (size - 1) : address + i \in Nat
      BY DEF Size
    <3> QED BY <3>1, PlaceInBlock
  <2>3. DOMAIN after = DOMAIN blocks_ \cup touched
    BY DEF WriteGeneric
  <2>4. \A v, i : ByteAt(v, i) \in Byte
    BY DEF ByteAt, Byte
  <2>5. {} \in Byte
    BY DEF Byte
  <2>6. \A k \in DOMAIN after : after[k] \in Block
    <3> TAKE k \in DOMAIN after
    <3> DEFINE byte(o) == LET i == k * BlockSize + o - address
                          IN  IF i \in 0 .. (size - 1) THEN ByteAt(value, i)
                              ELSE IF k \in DOMAIN blocks_ THEN blocks_[k][o] ELSE {}
    <3>1. after[k] = [o \in 0 .. (BlockSize - 1) |-> byte(o)]
      BY DEF WriteGeneric
    <3>2. \A o \in 0 .. (BlockSize - 1) : byte(o) \in Byte
      BY <2>4, <2>5 DEF MemoryTypeOK, Block
    <3> HIDE DEF byte
    <3> QED BY <3>1, <3>2 DEF Block
  <2> HIDE DEF after
  <2> QED BY <2>1, <2>2, <2>3, <2>6 DEF MemoryTypeOK
<1>2. CASE ~InRange(address, size)
  BY <1>2 DEF WriteMemory, MemoryTypeOK
<1> QED BY <1>1, <1>2

\* What the program's step of the loader may touch.
LEMMA LoadTypes ==
    ASSUME ImageTypes
    PROVE  /\ LoadTextWord => LoaderTypes' /\ phase' \in Phase
           /\ LoadDataItem => LoaderTypes' /\ phase' \in Phase
<1>1. ASSUME LoadTextWord PROVE LoaderTypes' /\ phase' \in Phase
  <2>1. loaded * 4 \in Nat /\ 4 \in Size
    BY DEF ImageTypes, LoaderTypes, Size
  <2>2. MemoryTypeOK'
    BY <1>1, <2>1, MemoryTypes DEF LoadTextWord, ImageTypes, LoaderTypes
  <2> QED BY <1>1, <2>2 DEF LoadTextWord, ImageTypes, LoaderTypes, SessionTypes, Phase
<1>2. ASSUME LoadDataItem PROVE LoaderTypes' /\ phase' \in Phase
  <2> DEFINE item == data_buffer_[loaded + 1]
             counter == Align(data_counter, item.size)
  <2>1. loaded + 1 \in 1 .. Len(data_buffer_)
    BY <1>2 DEF LoadDataItem, ImageTypes, LoaderTypes, TableTypes
  <2>2. item \in ItemType
    BY <2>1, ElementOfSeq DEF ImageTypes, TableTypes
  <2>3. item.size \in Size
    BY <2>2 DEF ItemType
  <2>4. counter \in Nat
    BY <2>3, AlignTypes DEF ImageTypes, LoaderTypes
  <2>5. /\ WriteMemory(DataStart + counter, item.size, item.value)
        /\ phase' = IF InRange(DataStart + counter, item.size) THEN phase ELSE "crashed"
        /\ data_counter' = counter + item.size
        /\ loaded' = loaded + 1
    BY <1>2 DEF LoadDataItem
  <2> HIDE DEF item, counter
  <2>6. DataStart + counter \in Nat /\ data_counter' \in Nat
    BY <2>3, <2>4, <2>5, AssemblerAssumption DEF Size
  <2>7. MemoryTypeOK'
    BY <2>3, <2>5, <2>6, MemoryTypes DEF ImageTypes, LoaderTypes
  <2>8. phase' \in Phase
    BY <2>5 DEF ImageTypes, SessionTypes, Phase
  <2> QED BY <2>5, <2>6, <2>7, <2>8 DEF ImageTypes, LoaderTypes
<1> QED BY <1>1, <1>2

\* Every action keeps the types.
LEMMA TypesStep == ImageTypes /\ [Next]_imageVars => ImageTypes'
<1> SUFFICES ASSUME ImageTypes, [Next]_imageVars PROVE ImageTypes'
  OBVIOUS
<1>0. SessionTypes /\ TableTypes /\ CodeTypes /\ LoaderTypes
  BY DEF ImageTypes
<1>1. CASE LoadCommand
  <2>1. Head(session.sources) \in Source /\ Tail(session.sources) \in Seq(Source)
    BY <1>0, <1>1, HeadTailProperties DEF LoadCommand, SessionTypes
  <2>2. session' \in [sources : Seq(Source), probes : Nat]
    BY <1>0, <1>1, <2>1 DEF LoadCommand, SessionTypes
  <2>3. SessionTypes'
    BY <1>1, <2>1, <2>2 DEF LoadCommand, Parsing, SessionTypes, Phase
  <2>4. TableTypes' /\ CodeTypes'
    BY <1>1 DEF LoadCommand, Parsing, TableTypes, CodeTypes
  <2>5. LoaderTypes'
    BY <1>0, <1>1 DEF LoadCommand, memoryVars, loaderVars, LoaderTypes, MemoryTypeOK
  <2> QED BY <2>3, <2>4, <2>5 DEF ImageTypes
<1>2. CASE ParseData /\ UNCHANGED <<memoryVars, session, loaderVars>>
  <2>1. pos_ \in 1 .. Len(source.data)
    BY <1>0, <1>2 DEF ParseData, SessionTypes, Source
  <2>2. source.data[pos_] \in DataToken
    BY <1>0, <2>1, TokenTypes
  <2>3. TableTypes' /\ errors_' \in Nat
    <3>1. CASE source.data[pos_].kind = "label"
      BY <1>0, <1>2, <2>2, <3>1, LabelTypes DEF ParseData
    <3>2. CASE source.data[pos_].kind # "label"
      BY <1>0, <1>2, <2>2, <3>2, DirectiveTypes DEF ParseData
    <3> QED BY <3>1, <3>2
  <2>4. SessionTypes'
    BY <1>0, <1>2, <2>3 DEF ParseData, SessionTypes
  <2>5. CodeTypes' /\ LoaderTypes'
    BY <1>0, <1>2 DEF ParseData, CodeTypes, LoaderTypes, memoryVars, loaderVars, MemoryTypeOK
  <2> QED BY <2>3, <2>4, <2>5 DEF ImageTypes
<1>3. CASE ParseText /\ UNCHANGED <<memoryVars, session, loaderVars>>
  <2>1. pos_ \in 1 .. Len(source.text)
    BY <1>0, <1>3 DEF ParseText, SessionTypes, Source
  <2>2. source.text[pos_] \in TextLine
    BY <1>0, <2>1, TokenTypes
  <2>3. /\ CodeTypes' /\ errors_' \in Nat
        /\ \A n \in DOMAIN symbol_table_' : symbol_table_'[n] \in SymbolType
    BY <1>3, <2>2, LineTypes DEF ParseText
  <2>4. SessionTypes' /\ TableTypes'
    BY <1>0, <1>3, <2>3 DEF ParseText, SessionTypes, TableTypes
  <2>5. LoaderTypes'
    BY <1>0, <1>3 DEF LoaderTypes, memoryVars, loaderVars, MemoryTypeOK
  <2> QED BY <2>3, <2>4, <2>5 DEF ImageTypes
<1>4. CASE (EndFirstPass \/ EndSecondPass \/ Assemble) /\ UNCHANGED <<memoryVars, session, loaderVars>>
  <2>1. SessionTypes'
    BY <1>0, <1>4 DEF EndFirstPass, EndSecondPass, Assemble, SessionTypes, Phase
  <2>2. TableTypes' /\ CodeTypes'
    BY <1>0, <1>4 DEF EndFirstPass, EndSecondPass, Assemble, TableTypes, CodeTypes
  <2>3. LoaderTypes'
    BY <1>0, <1>4 DEF LoaderTypes, memoryVars, loaderVars, MemoryTypeOK
  <2> QED BY <2>1, <2>2, <2>3 DEF ImageTypes
<1>5. CASE BackPatch /\ UNCHANGED <<memoryVars, session, loaderVars>>
  <2>1. CodeTypes' /\ errors_' \in Nat
    BY <1>5, PatchTypes DEF ImageTypes
  <2>2. SessionTypes' /\ TableTypes'
    BY <1>0, <1>5, <2>1 DEF BackPatch, SessionTypes, TableTypes
  <2>3. LoaderTypes'
    BY <1>0, <1>5 DEF LoaderTypes, memoryVars, loaderVars, MemoryTypeOK
  <2> QED BY <2>1, <2>2, <2>3 DEF ImageTypes
<1>6. CASE BeginLoadProgram \/ EndText \/ EndData
  <2>1. SessionTypes'
    BY <1>0, <1>6
    DEF BeginLoadProgram, EndText, EndData, ProgramKept, SessionTypes, Phase
  <2>2. TableTypes' /\ CodeTypes'
    BY <1>0, <1>6 DEF BeginLoadProgram, EndText, EndData, ProgramKept, TableTypes, CodeTypes
  <2>3. LoaderTypes'
    BY <1>0, <1>6
    DEF BeginLoadProgram, EndText, EndData, LoaderTypes, memoryVars, loaderVars, MemoryTypeOK
  <2> QED BY <2>1, <2>2, <2>3 DEF ImageTypes
<1>7. CASE LoadTextWord \/ LoadDataItem
  <2>1. LoaderTypes' /\ phase' \in Phase
    BY <1>7, LoadTypes
  <2>2. SessionTypes'
    BY <1>0, <1>7, <2>1 DEF LoadTextWord, LoadDataItem, ProgramKept, SessionTypes
  <2>3. TableTypes' /\ CodeTypes'
    BY <1>0, <1>7 DEF LoadTextWord, LoadDataItem, ProgramKept, TableTypes, CodeTypes
  <2> QED BY <2>1, <2>2, <2>3 DEF ImageTypes
<1>8. CASE ModifyMemory \/ LookAtMemory \/ ResetCommand
  <2>1. session' \in [sources : Seq(Source), probes : Nat]
    BY <1>0, <1>8 DEF ModifyMemory, LookAtMemory, ResetCommand, Probe, SessionTypes
  <2>2. SessionTypes'
    BY <1>0, <1>8, <2>1
    DEF ModifyMemory, LookAtMemory, ResetCommand, ProgramKept, SessionTypes, Phase
  <2>3. TableTypes' /\ CodeTypes'
    BY <1>0, <1>8
    DEF ModifyMemory, LookAtMemory, ResetCommand, ProgramKept, TableTypes, CodeTypes
  <2>4. MemoryTypeOK'
    <3>1. CASE ModifyMemory
      <4>1. PICK a \in ProbeAddress, size \in Size, value \in ProbeValue :
                WriteMemory(a, size, value \cap (0 .. 8 * size - 1))
        BY <3>1 DEF ModifyMemory
      <4>2. a \in Nat
        BY SessionAssumption
      <4> QED BY <1>0, <4>1, <4>2, MemoryTypes DEF LoaderTypes
    <3>2. CASE LookAtMemory
      BY <1>0, <3>2 DEF LookAtMemory, ReadMemory, LoaderTypes, MemoryTypeOK
    <3>3. CASE ResetCommand
      BY <3>3 DEF ResetCommand, ResetMemory, MemoryTypeOK
    <3> QED BY <1>8, <3>1, <3>2, <3>3
  <2>5. UNCHANGED loaderVars
    BY <1>8 DEF ModifyMemory, LookAtMemory, ResetCommand
  <2> QED BY <1>0, <2>2, <2>3, <2>4, <2>5 DEF ImageTypes, LoaderTypes, loaderVars
<1>9. CASE UNCHANGED imageVars
  BY <1>0, <1>9
  DEF imageVars, parserVars, memoryVars, loaderVars, ImageTypes, SessionTypes, TableTypes,
      CodeTypes, LoaderTypes, MemoryTypeOK
<1> QED BY <1>1, <1>2, <1>3, <1>4, <1>5, <1>6, <1>7, <1>8, <1>9
        DEF Next, AssembleStep, AssemblerNext

\* The parser's tables, the code and the memory keep their types, whatever is
\* loaded, probed and reset: the assembler never produces a unit without a place
\* in the encoding tables, and a load never leaves a block of the wrong size.
THEOREM ImageTypeCorrect == Spec => []TypeOK
<1>1. Spec => []ImageTypes
  BY TypesAtStart, TypesStep, PTL DEF Spec
<1> QED BY <1>1, TypesSuffice, PTL

-----------------------------------------------------------------------------
(* The memory of the program that loads. *)

\* The loader, the commands that write, read and reset: all of them see an array
\* of bytes, with accesses across blocks and beyond the end of the memory.
THEOREM ImageMemoryIsFlat == Spec => MemoryIsFlat
<1> DEFINE bytes == [a \in 0 .. (MemorySize - 1) |-> Read(blocks_, a)]
<1>1. Init => Flat!Init
  BY DEF Init, MemoryInit, Flat!Init, Flat!NoAccess, Flat!Address, Read
<1>2. ASSUME ImageTypes, [Next]_imageVars
      PROVE  Flat!Next \/ UNCHANGED <<bytes, access>>
  <2>1. CASE LoadTextWord
    <3>1. loaded * 4 \in Nat /\ 4 \in Size
      BY <1>2 DEF ImageTypes, LoaderTypes, Size
    <3> QED BY <2>1, <3>1, WriteIsFlat DEF LoadTextWord, Flat!Next
  <2>2. CASE LoadDataItem
    <3> DEFINE item == data_buffer_[loaded + 1]
               counter == Align(data_counter, item.size)
    <3>1. loaded + 1 \in 1 .. Len(data_buffer_)
      BY <1>2, <2>2 DEF LoadDataItem, ImageTypes, LoaderTypes, TableTypes
    <3>2. item.size \in Size
      BY <1>2, <3>1, ElementOfSeq DEF ImageTypes, TableTypes, ItemType
    <3>3. counter \in Nat
      BY <1>2, <3>2, AlignTypes DEF ImageTypes, LoaderTypes
    <3>4. WriteMemory(DataStart + counter, item.size, item.value)
      BY <2>2 DEF LoadDataItem
    <3> HIDE DEF item, counter
    <3>5. DataStart + counter \in Nat
      BY <3>3, AssemblerAssumption
    <3> QED BY <3>2, <3>4, <3>5, WriteIsFlat DEF Flat!Next
  <2>3. CASE ModifyMemory
    <3>1. PICK a \in ProbeAddress, size \in Size, value \in ProbeValue :
              WriteMemory(a, size, value \cap (0 .. 8 * size - 1))
      BY <2>3 DEF ModifyMemory
    <3>2. a \in Nat
      BY SessionAssumption
    <3> QED BY <3>1, <3>2, WriteIsFlat DEF Flat!Next
  <2>4. CASE LookAtMemory
    <3>1. PICK a \in ProbeAddress, size \in Size : ReadMemory(a, size)
      BY <2>4 DEF LookAtMemory
    <3>2. a \in Nat
      BY SessionAssumption
    <3> QED BY <3>1, <3>2, ReadIsFlat DEF Flat!Next
  <2>5. CASE ResetCommand
    BY <2>5 DEF ResetCommand, ResetMemory, Flat!Next, Flat!Reset, Flat!Address, Accessed, Read
  <2>6. CASE LoadCommand \/ AssembleStep \/ BeginLoadProgram \/ EndText \/ EndData
    <3>1. UNCHANGED memoryVars
      BY <2>6 DEF LoadCommand, AssembleStep, BeginLoadProgram, EndText, EndData
    <3> QED BY <3>1 DEF memoryVars
  <2>7. CASE UNCHANGED imageVars
    BY <2>7 DEF imageVars, memoryVars
  <2> QED BY <1>2, <2>1, <2>2, <2>3, <2>4, <2>5, <2>6, <2>7 DEF Next
<1>3. Spec => []ImageTypes
  BY TypesAtStart, TypesStep, PTL DEF Spec
<1> QED BY <1>1, <1>2, <1>3, PTL DEF Spec, MemoryIsFlat, Flat!Spec

-----------------------------------------------------------------------------
(* Where a line is: the instructions of the lines before it. *)

\* Induction over the natural numbers, for a set of them.
LEMMA SetInduction ==
    ASSUME NEW S \in SUBSET Nat, 0 \in S, \A n \in S : n + 1 \in S
    PROVE  \A n \in Nat : n \in S
<1>1. SUFFICES ASSUME Nat \ S # {} PROVE FALSE
  OBVIOUS
<1>2. PICK m \in Nat \ S : \A k \in Nat \ S : <<k, m>> \notin OpToRel(<, Nat)
  BY <1>1, NatLessThanWellFounded, WFMin, Zenon
<1>3. m - 1 \in Nat /\ m - 1 < m
  OBVIOUS
<1>4. m - 1 \in S
  BY <1>2, <1>3 DEF OpToRel
<1> QED BY <1>3, <1>4

\* A line stands for no, one or two instructions.
LEMMA LengthCases ==
    ASSUME NEW line
    PROVE  Length(line) \in {0, 1, 2}
  BY DEF Length

\* The function that Address defines recursively.
AddressOf(a, n) == a = [k \in 1 .. n |-> IF k = 1 THEN 0 ELSE a[k - 1] + 4 * Length(Line(k - 1))]

\* There is such a function.
LEMMA AddressesExist ==
    \A n \in Nat : \E a : AddressOf(a, n)
<1> DEFINE S == {n \in Nat : \E a : AddressOf(a, n)}
<1>1. 0 \in S
  <2>1. AddressOf([k \in 1 .. 0 |-> 0], 0)
    BY DEF AddressOf
  <2> QED BY <2>1
<1>2. ASSUME NEW n \in S PROVE n + 1 \in S
  <2>1. PICK a : AddressOf(a, n)
    OBVIOUS
  <2> DEFINE b == [k \in 1 .. n + 1 |-> IF k = 1 THEN 0 ELSE a[k - 1] + 4 * Length(Line(k - 1))]
  <2>2. \A k \in 1 .. n : b[k] = a[k]
    BY <2>1 DEF AddressOf
  <2>3. \A k \in 1 .. n + 1 : k # 1 => k - 1 \in 1 .. n
    OBVIOUS
  <2>4. AddressOf(b, n + 1)
    BY <2>2, <2>3 DEF AddressOf
  <2> QED BY <2>4
<1> HIDE DEF S
<1>3. \A n \in Nat : n \in S
  BY <1>1, <1>2, SetInduction DEF S
<1> QED BY <1>3 DEF S

\* Address is the value of that function.
LEMMA AddressIs ==
    ASSUME NEW n \in Nat
    PROVE  \E a : AddressOf(a, n) /\ Address(n) = a[n]
<1> DEFINE a == CHOOSE a : AddressOf(a, n)
<1>1. AddressOf(a, n)
  BY AddressesExist
<1>2. Address(n) = a[n]
  BY DEF Address, AddressOf
<1> QED BY <1>1, <1>2

\* Two such functions agree where both are defined.
LEMMA AddressesAgree ==
    ASSUME NEW m \in Nat, NEW n \in Nat, m <= n,
           NEW a, AddressOf(a, m), NEW b, AddressOf(b, n)
    PROVE  \A k \in 1 .. m : a[k] = b[k]
<1> DEFINE S == {k \in Nat : k \in 1 .. m => a[k] = b[k]}
<1>1. ASSUME NEW k \in S PROVE k + 1 \in S
  <2>1. SUFFICES ASSUME k + 1 \in 1 .. m PROVE a[k + 1] = b[k + 1]
    OBVIOUS
  <2>2. a[k + 1] = IF k + 1 = 1 THEN 0 ELSE a[k] + 4 * Length(Line(k))
    BY <2>1 DEF AddressOf
  <2>3. b[k + 1] = IF k + 1 = 1 THEN 0 ELSE b[k] + 4 * Length(Line(k))
    BY <2>1 DEF AddressOf
  <2> QED BY <2>1, <2>2, <2>3
<1>2. 0 \in S
  OBVIOUS
<1> HIDE DEF S
<1>3. \A k \in Nat : k \in S
  BY <1>1, <1>2, SetInduction DEF S
<1> QED BY <1>3 DEF S

\* Each line begins where the one before it ends.
LEMMA AddressSteps ==
    /\ Address(1) = 0
    /\ \A l \in Nat \ {0} : Address(l + 1) = Address(l) + 4 * Length(Line(l))
<1>1. Address(1) = 0
  <2>1. PICK a : AddressOf(a, 1) /\ Address(1) = a[1]
    BY AddressIs
  <2> QED BY <2>1 DEF AddressOf
<1>2. ASSUME NEW l \in Nat \ {0} PROVE Address(l + 1) = Address(l) + 4 * Length(Line(l))
  <2>1. PICK a : AddressOf(a, l) /\ Address(l) = a[l]
    BY AddressIs
  <2>2. PICK b : AddressOf(b, l + 1) /\ Address(l + 1) = b[l + 1]
    BY AddressIs
  <2>3. a[l] = b[l]
    BY <2>1, <2>2, AddressesAgree
  <2>4. b[l + 1] = b[l] + 4 * Length(Line(l))
    BY <2>2 DEF AddressOf
  <2> QED BY <2>1, <2>2, <2>3, <2>4
<1> QED BY <1>1, <1>2

Place(l) == Address(l) \div 4

\* The same for places, which count instructions.
LEMMA PlaceSteps ==
    /\ Place(1) = 0
    /\ \A l \in Nat \ {0} :
           /\ Place(l) \in 0 .. 2 * (l - 1)
           /\ Address(l) = 4 * Place(l)
           /\ Place(l + 1) = Place(l) + Length(Line(l))
<1> DEFINE S == {n \in Nat : n > 0 => \E p \in 0 .. 2 * (n - 1) : Address(n) = 4 * p}
<1>1. ASSUME NEW n \in S PROVE n + 1 \in S
  <2>1. CASE n = 0
    <3>1. 0 \in 0 .. 2 * ((n + 1) - 1) /\ Address(n + 1) = 4 * 0
      BY <2>1, AddressSteps
    <3> QED BY <3>1
  <2>2. CASE n > 0
    <3>1. PICK p \in 0 .. 2 * (n - 1) : Address(n) = 4 * p
      BY <2>2
    <3>2. Address(n + 1) = 4 * p + 4 * Length(Line(n))
      BY <2>2, <3>1, AddressSteps
    <3>3. Length(Line(n)) \in {0, 1, 2}
      BY LengthCases
    <3>4. /\ p + Length(Line(n)) \in 0 .. 2 * ((n + 1) - 1)
          /\ Address(n + 1) = 4 * (p + Length(Line(n)))
      BY <2>2, <3>2, <3>3
    <3> QED BY <3>4
  <2> QED BY <2>1, <2>2
<1>2. 0 \in S
  OBVIOUS
<1> HIDE DEF S
<1>3. \A n \in Nat : n \in S
  BY <1>1, <1>2, SetInduction DEF S
<1>4. \A l \in Nat \ {0} : Place(l) \in 0 .. 2 * (l - 1) /\ Address(l) = 4 * Place(l)
  <2> TAKE l \in Nat \ {0}
  <2>1. PICK p \in 0 .. 2 * (l - 1) : Address(l) = 4 * p
    BY <1>3 DEF S
  <2> QED BY <2>1 DEF Place
<1>5. \A l \in Nat \ {0} : Place(l + 1) = Place(l) + Length(Line(l))
  <2> TAKE l \in Nat \ {0}
  <2>1. Length(Line(l)) \in {0, 1, 2}
    BY LengthCases
  <2>2. Address(l + 1) = Address(l) + 4 * Length(Line(l))
    BY AddressSteps
  <2>3. Address(l) = 4 * Place(l) /\ Place(l) \in Nat
    BY <1>4
  <2>4. Address(l + 1) = 4 * (Place(l) + Length(Line(l)))
    BY <2>1, <2>2, <2>3
  <2> QED BY <2>1, <2>3, <2>4 DEF Place
<1> QED BY <1>4, <1>5, AddressSteps DEF Place

\* Places never go back.
LEMMA PlacesGrow ==
    \A k, l \in Nat \ {0} : k < l => Place(k) + Length(Line(k)) <= Place(l)
<1> SUFFICES ASSUME NEW k \in Nat \ {0}
             PROVE  \A l \in Nat \ {0} : k < l => Place(k) + Length(Line(k)) <= Place(l)
  OBVIOUS
<1> DEFINE S == {n \in Nat : k < n => Place(k) + Length(Line(k)) <= Place(n)}
<1>1. ASSUME NEW n \in S PROVE n + 1 \in S
  <2>1. CASE n < k
    BY <2>1
  <2>2. CASE n = k
    BY <2>2, PlaceSteps, LengthCases
  <2>3. CASE n > k
    <3>1. Place(n + 1) = Place(n) + Length(Line(n)) /\ Place(n) \in Nat /\ Place(k) \in Nat
      BY <2>3, PlaceSteps
    <3>2. Length(Line(n)) \in {0, 1, 2} /\ Length(Line(k)) \in {0, 1, 2}
      BY LengthCases
    <3> HIDE DEF S
    <3>3. Place(k) + Length(Line(k)) <= Place(n)
      BY <2>3 DEF S
    <3> QED BY <2>3, <3>1, <3>2, <3>3 DEF S
  <2> QED BY <2>1, <2>2, <2>3
<1>2. 0 \in S
  OBVIOUS
<1> HIDE DEF S
<1>3. \A n \in Nat : n \in S
  BY <1>1, <1>2, SetInduction DEF S
<1> QED BY <1>3 DEF S

\* They do not change while the source does not.
LEMMA PlacesStay ==
    ASSUME UNCHANGED source, NEW l \in Nat \ {0}
    PROVE  Place(l)' = Place(l) /\ Address(l)' = Address(l) /\ Line(l)' = Line(l)
  BY DEF Place, Address, Line

-----------------------------------------------------------------------------
(* What a line stands for. *)

\* The length of a line by its form.
LEMMA LineLengths ==
    ASSUME NEW line \in TextLine
    PROVE  /\ Length(line) \in {0, 1, 2}
           /\ line.opcode = "label" <=> Length(line) = 0
           /\ IsPlain(line) \/ IsReference(line) => Length(line) = 1
           /\ IsAddress(line) => Length(line) = 2
           /\ line.opcode = "li" =>
                  Length(line) = IF line.imm \notin LowRange /\ line.imm % LowSize # 0 THEN 2 ELSE 1
<1>1. line.opcode \in {"label", "li"} => ~NamesData(line) /\ ~IsPlain(line) /\ ~IsReference(line)
  BY LineCases, Mnemonics DEF NamesData, IsPlain
<1>2. IsPlain(line) \/ IsReference(line) => ~NamesData(line)
  BY LineCases DEF IsPlain, NamesData
<1>3. IsAddress(line) => line.opcode \notin {"label", "li"} /\ NamesData(line)
  BY LineCases
<1> QED BY <1>1, <1>2, <1>3 DEF Length

\* The low part is zero just for the multiples of LowSize.
LEMMA LowZero ==
    ASSUME NEW value \in Int
    PROVE  Low(value) = 0 <=> value % LowSize = 0
<1> DEFINE h == LowSize \div 2
           q == High(value)
           r == value \div LowSize
<1>1. LowSize \in Nat /\ LowSize > 0 /\ h \in Nat /\ LowSize = 2 * h
  BY AssemblerAssumption
<1>2. /\ q \in Int /\ value = q * LowSize + Low(value)
      /\ Low(value) \in LowRange /\ Low(value) \in Int
  BY PartTypes
<1>3. r \in Int /\ value = r * LowSize + (value % LowSize) /\ value % LowSize \in 0 .. (LowSize - 1)
  BY <1>1
<1> HIDE DEF q, r
<1>4. ASSUME Low(value) = 0 PROVE value % LowSize = 0
  <2>1. value = q * LowSize
    BY <1>1, <1>2, <1>4
  <2> QED BY <1>1, <1>2, <2>1
<1>5. ASSUME value % LowSize = 0 PROVE Low(value) = 0
  <2>1. value = r * LowSize
    BY <1>1, <1>3, <1>5
  <2>2. (r - q) * LowSize \in LowRange
    <3>1. q * LowSize \in Int /\ r * LowSize \in Int
      BY <1>1, <1>2, <1>3
    <3>2. r * LowSize - q * LowSize = Low(value)
      BY <1>2, <2>1, <3>1
    <3>3. (r - q) * LowSize = r * LowSize - q * LowSize
      BY <1>1, <1>2, <1>3
    <3> QED BY <1>2, <3>2, <3>3
  <2>3. (r - q) * LowSize < LowSize /\ (r - q) * LowSize > -LowSize
    BY <1>1, <2>2 DEF LowRange
  <2>4. r - q = 0
    BY <1>1, <1>2, <1>3, <2>3
  <2> QED BY <1>1, <1>2, <1>3, <2>1, <2>4
<1> QED BY <1>4, <1>5

PlainCoded(line, unit) ==
    IsPlain(line) =>
        /\ unit.opcode = line.opcode
        /\ unit.rd = Operand(line, "rd") /\ unit.rs1 = Operand(line, "rs1")
        /\ unit.rs2 = Operand(line, "rs2") /\ unit.imm = Operand(line, "imm")
        /\ ImmediateAllowed(line.opcode, unit.imm)

UnitIs(unit, opcode, rd, rs1, imm) ==
    unit.opcode = opcode /\ unit.rd = rd /\ unit.rs1 = rs1 /\ unit.imm = imm

LiCoded(line, first, second) ==
    line.opcode = "li" =>
        IF line.imm \in LowRange
        THEN UnitIs(first, "addi", line.rd, 0, line.imm)
        ELSE /\ line.imm \in -WordReach .. (WordReach - 1)
             /\ UnitIs(first, "lui", line.rd, 0, High(line.imm))
             /\ Low(line.imm) # 0 => UnitIs(second, "addi", line.rd, line.rd, Low(line.imm))

AddressCoded(line, first, second, index, table) ==
    LET offset == DataStart + table[line.label].address - index * 4
        opcode == IF line.opcode = "la" THEN "addi" ELSE "lw"
    IN  IsAddress(line) =>
            /\ line.label \in DOMAIN table /\ table[line.label].isData
            /\ UnitIs(first, "auipc", line.rd, 0, High(offset))
            /\ UnitIs(second, opcode, line.rd, line.rd, Low(offset))

\* The unit of a reference whose label is known.
Linked(unit, index, table) ==
    /\ unit.label \in DOMAIN table
    /\ unit.imm = table[unit.label].address - index * 4
    /\ InReach(unit.opcode, unit.imm)
    /\ unit.opcode \in OfType({"B"}) => ~table[unit.label].isData

ReferenceNamed(line, unit) ==
    IsReference(line) => unit.opcode = line.opcode /\ unit.label = line.label

\* One instruction more: the others stay.
LEMMA EmitOne ==
    ASSUME CodeTypes, NEW unit, Emit(<<unit>>)
    PROVE  LET n == Len(intermediate_code_)
           IN  /\ Len(intermediate_code_') = n + 1 /\ intermediate_code_'[n + 1] = unit
               /\ \A i \in 1 .. n : intermediate_code_'[i] = intermediate_code_[i]
               /\ UNCHANGED <<symbol_table_, back_patch_, errors_>>
<1>1. intermediate_code_' = intermediate_code_ \o <<unit>> /\ intermediate_code_ \in Seq(UnitType)
  BY DEF CodeTypes, Emit
<1> QED BY <1>1 DEF Emit

\* Two instructions more: the others stay.
LEMMA EmitTwo ==
    ASSUME CodeTypes, NEW unit, NEW other, Emit(<<unit, other>>)
    PROVE  LET n == Len(intermediate_code_)
           IN  /\ Len(intermediate_code_') = n + 2
               /\ intermediate_code_'[n + 1] = unit /\ intermediate_code_'[n + 2] = other
               /\ \A i \in 1 .. n : intermediate_code_'[i] = intermediate_code_[i]
               /\ UNCHANGED <<symbol_table_, back_patch_, errors_>>
<1>1. intermediate_code_' = intermediate_code_ \o <<unit, other>> /\ intermediate_code_ \in Seq(UnitType)
  BY DEF CodeTypes, Emit
<1> QED BY <1>1 DEF Emit

\* What a unit of a line has in its fields.
Fields(unit, line, opcode, rd, rs1, imm) ==
    /\ unit.opcode = opcode /\ unit.rd = rd /\ unit.rs1 = rs1 /\ unit.imm = imm
    /\ unit.rs2 = Operand(line, "rs2")
    /\ "label" \in DOMAIN line => unit.label = line.label
    /\ unit.line = Len(source.data) + pos_

\* The fields of an instruction that is made for a line.
LEMMA UnitFields ==
    ASSUME NEW line, NEW opcode, NEW rd, NEW rs1, NEW imm, NEW resolved \in BOOLEAN
    PROVE  Fields(Unit(line, opcode, rd, rs1, imm, resolved), line, opcode, rd, rs1, imm)
  BY DEF Unit, Fields

-----------------------------------------------------------------------------
(* What a line adds to the code. *)

\* What every form of line has in common.
Grown(line) ==
    LET n == Len(intermediate_code_)
    IN  /\ Len(intermediate_code_') = n + Length(line)
        /\ \A i \in 1 .. n : intermediate_code_'[i] = intermediate_code_[i]
        /\ \A i \in 1 .. Length(line) : intermediate_code_'[n + i].line = Len(source.data) + pos_

\* The code of a line with registers or a number.
LEMMA NewPlain ==
    ASSUME ImageTypes, NEW line \in TextLine, IsPlain(line), ParsePlain(line), errors_' = errors_
    PROVE  /\ Grown(line) /\ UNCHANGED <<symbol_table_, back_patch_>>
           /\ PlainCoded(line, intermediate_code_'[Len(intermediate_code_) + 1])
<1> DEFINE imm == Operand(line, "imm")
           unit == UnitOf(line, imm, TRUE)
           n == Len(intermediate_code_)
<1>1. ImmediateAllowed(line.opcode, imm) /\ Emit(<<unit>>)
  BY DEF ParsePlain, Reject, ImageTypes, SessionTypes
<1>2. Fields(unit, line, line.opcode, Operand(line, "rd"), Operand(line, "rs1"), imm)
  <2>1. TRUE \in BOOLEAN /\ FALSE \in BOOLEAN
    OBVIOUS
  <2> QED BY <2>1, UnitFields, Zenon DEF UnitOf
<1>3. Length(line) = 1
  BY LineLengths
<1>4. n \in Nat
  BY DEF ImageTypes, CodeTypes
<1> HIDE DEF unit
<1>5. /\ Len(intermediate_code_') = n + 1 /\ intermediate_code_'[n + 1] = unit
      /\ \A i \in 1 .. n : intermediate_code_'[i] = intermediate_code_[i]
      /\ UNCHANGED <<symbol_table_, back_patch_>>
  BY <1>1, EmitOne DEF ImageTypes
<1>6. Grown(line)
  BY <1>2, <1>3, <1>4, <1>5 DEF Grown, Fields
<1> QED BY <1>1, <1>2, <1>5, <1>6 DEF PlainCoded, Fields

\* The code of an LI.
LEMMA NewLi ==
    ASSUME ImageTypes, NEW line \in TextLine, line.opcode = "li", ParseLi(line), errors_' = errors_
    PROVE  LET n == Len(intermediate_code_)
           IN  /\ Grown(line) /\ UNCHANGED <<symbol_table_, back_patch_>>
               /\ LiCoded(line, intermediate_code_'[n + 1], intermediate_code_'[n + 2])
<1> DEFINE n == Len(intermediate_code_)
           addi(rs1, imm) == Unit(line, "addi", line.rd, rs1, imm, TRUE)
           lui == Unit(line, "lui", line.rd, 0, High(line.imm), TRUE)
           long == addi(line.rd, Low(line.imm))
           short == addi(0, line.imm)
<1>1. /\ Fields(short, line, "addi", line.rd, 0, line.imm)
      /\ Fields(long, line, "addi", line.rd, line.rd, Low(line.imm))
      /\ Fields(lui, line, "lui", line.rd, 0, High(line.imm))
  <2>1. TRUE \in BOOLEAN /\ FALSE \in BOOLEAN
    OBVIOUS
  <2> QED BY <2>1, UnitFields, Zenon
<1>2. CASE line.imm \in LowRange
  <2>1. Emit(<<short>>)
    BY <1>2 DEF ParseLi, LowRange
  <2>2. Length(line) = 1
    BY <1>2, LineLengths
  <2> HIDE DEF short
  <2>3. /\ Len(intermediate_code_') = n + 1 /\ intermediate_code_'[n + 1] = short
        /\ \A i \in 1 .. n : intermediate_code_'[i] = intermediate_code_[i]
        /\ UNCHANGED <<symbol_table_, back_patch_>>
    BY <2>1, EmitOne DEF ImageTypes
  <2>4. Grown(line)
    BY <1>1, <2>2, <2>3 DEF Grown, Fields
  <2> QED BY <1>1, <1>2, <2>3, <2>4 DEF LiCoded, UnitIs, Fields
<1>3. CASE line.imm \notin LowRange
  <2>1. /\ line.imm \in -WordReach .. (WordReach - 1)
        /\ Emit(IF Low(line.imm) = 0 THEN <<lui>> ELSE <<lui, long>>)
    BY <1>3 DEF ParseLi, LowRange, Reject, ImageTypes, SessionTypes
  <2>2. Low(line.imm) = 0 <=> line.imm % LowSize = 0
    BY LowZero, LineForms
  <2> HIDE DEF lui, long
  <2>3. CASE Low(line.imm) = 0
    <3>1. Length(line) = 1 /\ Emit(<<lui>>)
      BY <1>3, <2>1, <2>2, <2>3, LineLengths
    <3>2. /\ Len(intermediate_code_') = n + 1 /\ intermediate_code_'[n + 1] = lui
          /\ \A i \in 1 .. n : intermediate_code_'[i] = intermediate_code_[i]
          /\ UNCHANGED <<symbol_table_, back_patch_>>
      BY <3>1, EmitOne DEF ImageTypes
    <3>3. Grown(line)
      BY <1>1, <3>1, <3>2 DEF Grown, Fields
    <3> QED BY <1>1, <1>3, <2>1, <2>3, <3>2, <3>3 DEF LiCoded, UnitIs, Fields
  <2>4. CASE Low(line.imm) # 0
    <3>1. Length(line) = 2 /\ Emit(<<lui, long>>)
      BY <1>3, <2>1, <2>2, <2>4, LineLengths
    <3>2. /\ Len(intermediate_code_') = n + 2
          /\ intermediate_code_'[n + 1] = lui /\ intermediate_code_'[n + 2] = long
          /\ \A i \in 1 .. n : intermediate_code_'[i] = intermediate_code_[i]
          /\ UNCHANGED <<symbol_table_, back_patch_>>
      BY <3>1, EmitTwo DEF ImageTypes
    <3>3. Grown(line)
      BY <1>1, <3>1, <3>2 DEF Grown, Fields
    <3> QED BY <1>1, <1>3, <2>1, <2>4, <3>2, <3>3 DEF LiCoded, UnitIs, Fields
  <2> QED BY <2>3, <2>4
<1> QED BY <1>2, <1>3

\* The code of an address of data.
LEMMA NewAddress ==
    ASSUME ImageTypes, NEW line \in TextLine, IsAddress(line), ParseAddress(line),
           errors_' = errors_
    PROVE  LET n == Len(intermediate_code_)
           IN  /\ Grown(line) /\ UNCHANGED <<symbol_table_, back_patch_>>
               /\ AddressCoded(line, intermediate_code_'[n + 1], intermediate_code_'[n + 2], n, symbol_table_)
<1> DEFINE n == Len(intermediate_code_)
           offset == DataStart + symbol_table_[line.label].address - n * 4
           second == IF line.opcode = "la" THEN "addi" ELSE line.opcode
           high == Unit(line, "auipc", line.rd, 0, High(offset), TRUE)
           low == Unit(line, second, line.rd, line.rd, Low(offset), TRUE)
<1>1. Known(line.label, TRUE) /\ Emit(<<high, low>>)
  <2>1. ~Reject
    BY DEF Reject, ImageTypes, SessionTypes
  <2> QED BY <2>1, Zenon DEF ParseAddress, instruction_index_
<1>2. /\ Fields(high, line, "auipc", line.rd, 0, High(offset))
      /\ Fields(low, line, second, line.rd, line.rd, Low(offset))
  <2>1. TRUE \in BOOLEAN /\ FALSE \in BOOLEAN
    OBVIOUS
  <2> QED BY <2>1, UnitFields, Zenon
<1>3. second = IF line.opcode = "la" THEN "addi" ELSE "lw"
  BY LineCases
<1>4. Length(line) = 2
  BY LineLengths
<1> HIDE DEF high, low, second
<1>5. /\ Len(intermediate_code_') = n + 2
      /\ intermediate_code_'[n + 1] = high /\ intermediate_code_'[n + 2] = low
      /\ \A i \in 1 .. n : intermediate_code_'[i] = intermediate_code_[i]
      /\ UNCHANGED <<symbol_table_, back_patch_>>
  BY <1>1, EmitTwo DEF ImageTypes
<1>6. Grown(line)
  BY <1>2, <1>4, <1>5 DEF Grown, Fields
<1> QED BY <1>1, <1>2, <1>3, <1>5, <1>6 DEF AddressCoded, UnitIs, Known, Fields

\* The code of a branch or a jump to a label, linked or pending.
LEMMA NewReference ==
    ASSUME ImageTypes, NEW line \in TextLine, IsReference(line), ParseReference(line),
           errors_' = errors_
    PROVE  LET n == Len(intermediate_code_)
               unit == intermediate_code_'[n + 1]
           IN  /\ Grown(line) /\ UNCHANGED symbol_table_
               /\ ReferenceNamed(line, unit)
               /\ \/ UNCHANGED back_patch_ /\ Linked(unit, n, symbol_table_)
                  \/ back_patch_' = Append(back_patch_, n)
<1> DEFINE n == Len(intermediate_code_)
           offset == symbol_table_[line.label].address - n * 4
<1>0. n \in Nat /\ Length(line) = 1 /\ "label" \in DOMAIN line
  BY LineLengths DEF ImageTypes, CodeTypes, IsReference, NamesText
<1>1. CASE Known(line.label, FALSE)
  <2> DEFINE unit == UnitOf(line, offset, TRUE)
  <2>1. Emit(<<unit>>) /\ InReach(line.opcode, offset)
    BY <1>1 DEF ParseReference, Reject, ImageTypes, SessionTypes, instruction_index_
  <2>2. Fields(unit, line, line.opcode, Operand(line, "rd"), Operand(line, "rs1"), offset)
    <3>1. TRUE \in BOOLEAN /\ FALSE \in BOOLEAN
      OBVIOUS
    <3> QED BY <3>1, <1>0, UnitFields, Zenon DEF UnitOf
  <2> HIDE DEF unit
  <2>3. /\ Len(intermediate_code_') = n + 1 /\ intermediate_code_'[n + 1] = unit
        /\ \A i \in 1 .. n : intermediate_code_'[i] = intermediate_code_[i]
        /\ UNCHANGED <<symbol_table_, back_patch_>>
    BY <2>1, EmitOne DEF ImageTypes
  <2>4. Grown(line)
    BY <1>0, <2>2, <2>3 DEF Grown, Fields
  <2>5. Linked(unit, n, symbol_table_) /\ ReferenceNamed(line, unit)
    BY <1>0, <1>1, <2>1, <2>2 DEF Linked, Known, ReferenceNamed, Fields
  <2> QED BY <2>3, <2>4, <2>5
<1>2. CASE ~Known(line.label, FALSE)
  <2> DEFINE unit == UnitOf(line, 0, FALSE)
  <2>1. /\ back_patch_' = Append(back_patch_, n)
        /\ intermediate_code_' = Append(intermediate_code_, unit)
        /\ UNCHANGED symbol_table_
    BY <1>2 DEF ParseReference, instruction_index_
  <2>2. Fields(unit, line, line.opcode, Operand(line, "rd"), Operand(line, "rs1"), 0)
    <3>1. TRUE \in BOOLEAN /\ FALSE \in BOOLEAN
      OBVIOUS
    <3> QED BY <3>1, <1>0, UnitFields, Zenon DEF UnitOf
  <2> HIDE DEF unit
  <2>3. /\ Len(intermediate_code_') = n + 1 /\ intermediate_code_'[n + 1] = unit
        /\ \A i \in 1 .. n : intermediate_code_'[i] = intermediate_code_[i]
    BY <2>1, AppendProperties DEF ImageTypes, CodeTypes
  <2>4. Grown(line)
    BY <1>0, <2>2, <2>3 DEF Grown, Fields
  <2>5. ReferenceNamed(line, unit)
    BY <1>0, <2>2 DEF ReferenceNamed, Fields
  <2> QED BY <2>1, <2>3, <2>4, <2>5
<1> QED BY <1>1, <1>2

\* A label of the text is entered at the address of the next line.
LEMMA NewLabel ==
    ASSUME ImageTypes, NEW line \in TextLine, line.opcode = "label", ParseLabel(line),
           errors_' = errors_
    PROVE  /\ Grown(line) /\ UNCHANGED <<intermediate_code_, back_patch_>>
           /\ line.label \notin DOMAIN symbol_table_
           /\ symbol_table_' = [n \in DOMAIN symbol_table_ \cup {line.label} |->
                                  IF n = line.label
                                  THEN [address |-> 4 * Len(intermediate_code_), isData |-> FALSE]
                                  ELSE symbol_table_[n]]
<1>1. Length(line) = 0 /\ Len(intermediate_code_) \in Nat
  BY LineLengths DEF ImageTypes, CodeTypes
<1>2. instruction_index_ * 4 = 4 * Len(intermediate_code_)
  BY <1>1 DEF instruction_index_
<1>3. line.label \notin DOMAIN symbol_table_
  BY DEF ParseLabel, Reject, ImageTypes, SessionTypes
<1> QED BY <1>1, <1>2, <1>3 DEF ParseLabel, Grown

\* Without an error, a line becomes what it stands for.
LEMMA LineIsCoded ==
    ASSUME ImageTypes, NEW line \in TextLine, ParseLine(line), errors_' = errors_
    PROVE  LET n == Len(intermediate_code_)
               first == intermediate_code_'[n + 1]
               second == intermediate_code_'[n + 2]
           IN  /\ line.opcode # "bad"
               /\ Grown(line)
               /\ PlainCoded(line, first)
               /\ LiCoded(line, first, second)
               /\ AddressCoded(line, first, second, n, symbol_table_)
               /\ ReferenceNamed(line, first)
               /\ \/ UNCHANGED back_patch_ /\ (IsReference(line) => Linked(first, n, symbol_table_))
                  \/ IsReference(line) /\ back_patch_' = Append(back_patch_, n)
               /\ \/ line.opcode # "label" /\ UNCHANGED symbol_table_
                  \/ /\ line.opcode = "label" /\ line.label \notin DOMAIN symbol_table_
                     /\ symbol_table_' = [s \in DOMAIN symbol_table_ \cup {line.label} |->
                            IF s = line.label THEN [address |-> 4 * n, isData |-> FALSE]
                            ELSE symbol_table_[s]]
<1>0. /\ line.opcode \in {"label", "bad", "li"} => ~IsAddress(line) /\ ~IsReference(line) /\ ~IsPlain(line)
      /\ IsAddress(line) => ~IsReference(line) /\ ~IsPlain(line)
      /\ IsReference(line) => ~IsPlain(line)
  BY LineCases, Mnemonics DEF IsAddress, IsPlain, IsReference, NamesText
<1> DEFINE n == Len(intermediate_code_)
           first == intermediate_code_'[n + 1]
           second == intermediate_code_'[n + 2]
<1>1. line.opcode # "bad"
  BY ParseLineCases DEF Reject, ImageTypes, SessionTypes
<1>2. CASE line.opcode = "label"
  BY <1>0, <1>2, ParseLineCases, NewLabel
  DEF PlainCoded, LiCoded, AddressCoded, ReferenceNamed
<1>3. CASE line.opcode = "li"
  <2>1. Grown(line) /\ UNCHANGED <<symbol_table_, back_patch_>> /\ LiCoded(line, first, second)
    BY <1>3, ParseLineCases, NewLi
  <2> QED BY <1>0, <1>1, <1>3, <2>1 DEF PlainCoded, AddressCoded, ReferenceNamed
<1>4. CASE IsAddress(line)
  <2>1. Grown(line) /\ UNCHANGED <<symbol_table_, back_patch_>> /\ AddressCoded(line, first, second, n, symbol_table_)
    BY <1>4, ParseLineCases, NewAddress
  <2> QED BY <1>0, <1>1, <1>4, <2>1 DEF PlainCoded, LiCoded, ReferenceNamed
<1>5. CASE IsReference(line)
  <2>1. /\ Grown(line) /\ UNCHANGED symbol_table_ /\ ReferenceNamed(line, first)
        /\ \/ UNCHANGED back_patch_ /\ Linked(first, n, symbol_table_)
           \/ back_patch_' = Append(back_patch_, n)
    BY <1>5, ParseLineCases, NewReference
  <2> QED BY <1>0, <1>1, <1>5, <2>1 DEF PlainCoded, LiCoded, AddressCoded
<1>6. CASE IsPlain(line)
  <2>1. Grown(line) /\ UNCHANGED <<symbol_table_, back_patch_>> /\ PlainCoded(line, first)
    BY <1>6, ParseLineCases, NewPlain
  <2> QED BY <1>0, <1>1, <1>6, <2>1 DEF LiCoded, AddressCoded, ReferenceNamed
<1> QED BY <1>1, <1>2, <1>3, <1>4, <1>5, <1>6, LineCases

-----------------------------------------------------------------------------
(* The code of the lines parsed so far. *)

HasCode == phase \in {"text", "patch", "assembled", "write_text", "write_data", "loaded"}

\* The first line that is not coded yet.
Reached == IF phase = "text" THEN pos_ ELSE Len(source.text) + 1

Patchable == {back_patch_[j] : j \in DOMAIN back_patch_}

Pending ==
    {back_patch_[j] : j \in IF phase = "text" THEN DOMAIN back_patch_
                            ELSE IF phase = "patch" THEN pos_ .. Len(back_patch_)
                            ELSE {}}

LabelCoded(line, index, table) ==
    line.opcode = "label" =>
        /\ line.label \in DOMAIN table
        /\ table[line.label] = [address |-> 4 * index, isData |-> FALSE]

LineCoded(l) ==
    LET line == Line(l)
        index == Place(l)
        first == intermediate_code_[index + 1]
        second == intermediate_code_[index + 2]
    IN  /\ line.opcode # "bad"
        /\ index + Length(line) <= Len(intermediate_code_)
        /\ \A i \in 1 .. Length(line) : intermediate_code_[index + i].line = Len(source.data) + l
        /\ PlainCoded(line, first)
        /\ LiCoded(line, first, second)
        /\ AddressCoded(line, first, second, index, symbol_table_)
        /\ ReferenceNamed(line, first)
        /\ IsReference(line) => Linked(first, index, symbol_table_) \/ index \in Pending
        /\ LabelCoded(line, index, symbol_table_)
        /\ ~IsReference(line) => \A i \in 1 .. Length(line) : index + i - 1 \notin Patchable

Coded ==
    /\ Reached \in 1 .. (Len(source.text) + 1)
    /\ Len(intermediate_code_) = Place(Reached)
    /\ \A l \in 1 .. (Reached - 1) : LineCoded(l)
    /\ \A n \in DOMAIN symbol_table_ :
           ~symbol_table_[n].isData =>
               \E l \in 1 .. (Reached - 1) : Line(l).opcode = "label" /\ Line(l).label = n

CodeInv ==
    /\ phase = "data" =>
           /\ intermediate_code_ = <<>> /\ back_patch_ = <<>>
           /\ \A n \in DOMAIN symbol_table_ : symbol_table_[n].isData
    /\ HasCode /\ errors_ = 0 => Coded
    /\ phase \in {"assembled", "write_text", "write_data", "loaded"} => errors_ = 0

\* A line that is coded stays so while the code, the symbols and the references
\* only become more.
LEMMA LineStays ==
    ASSUME ImageTypes, UNCHANGED source, NEW l \in 1 .. Len(source.text), LineCoded(l),
           Len(intermediate_code_') \in Nat,
           Len(intermediate_code_') >= Len(intermediate_code_),
           \A i \in 1 .. Len(intermediate_code_) : intermediate_code_'[i] = intermediate_code_[i],
           \A n \in DOMAIN symbol_table_ :
               n \in DOMAIN symbol_table_' /\ symbol_table_'[n] = symbol_table_[n],
           \A k \in Patchable' : k \in Patchable \/ k >= Len(intermediate_code_),
           Pending \subseteq Pending'
    PROVE  LineCoded(l)'
<1> DEFINE line == Line(l)
           index == Place(l)
           n == Len(intermediate_code_)
           first == intermediate_code_[index + 1]
           second == intermediate_code_[index + 2]
           first1 == intermediate_code_'[index + 1]
           second1 == intermediate_code_'[index + 2]
<1>1. line \in TextLine /\ Len(source.text) \in Nat
  BY TokenTypes DEF ImageTypes, Line
<1>2. index \in Nat /\ n \in Nat /\ Length(line) \in {0, 1, 2} /\ index + Length(line) <= n
  <2>1. l \in Nat \ {0}
    BY <1>1
  <2>2. index + Length(line) <= n
    BY DEF LineCoded
  <2>3. index \in Nat
    BY <2>1, PlaceSteps
  <2>4. Length(line) \in {0, 1, 2}
    BY LengthCases
  <2>5. n \in Nat
    BY DEF ImageTypes, CodeTypes
  <2> QED BY <2>2, <2>3, <2>4, <2>5
<1>3. Place(l)' = index /\ Line(l)' = line
  BY <1>1, PlacesStay
<1>4. /\ Length(line) >= 1 => first1 = first
      /\ Length(line) = 2 => second1 = second
  BY <1>2
<1>5. /\ line.opcode # "bad"
      /\ \A i \in 1 .. Length(line) : intermediate_code_[index + i].line = Len(source.data) + l
      /\ PlainCoded(line, first)
      /\ LiCoded(line, first, second)
      /\ AddressCoded(line, first, second, index, symbol_table_)
      /\ ReferenceNamed(line, first)
      /\ IsReference(line) => Linked(first, index, symbol_table_) \/ index \in Pending
      /\ LabelCoded(line, index, symbol_table_)
      /\ ~IsReference(line) => \A i \in 1 .. Length(line) : index + i - 1 \notin Patchable
  BY DEF LineCoded
<1> HIDE DEF line, index, first, second, first1, second1
<1>6. \A i \in 1 .. Length(line) : intermediate_code_'[index + i].line = Len(source.data) + l
  BY <1>2, <1>5
<1>7. PlainCoded(line, first1)
  BY <1>1, <1>4, <1>5, LineLengths DEF PlainCoded
<1>8. LiCoded(line, first1, second1)
  BY <1>1, <1>4, <1>5, LineLengths, LineForms, LowZero DEF LiCoded
<1>9. AddressCoded(line, first1, second1, index, symbol_table_')
  BY <1>1, <1>4, <1>5, LineLengths DEF AddressCoded, Known
<1>10. ReferenceNamed(line, first1)
  BY <1>1, <1>4, <1>5, LineLengths DEF ReferenceNamed
<1>11. IsReference(line) => Linked(first1, index, symbol_table_') \/ index \in Pending'
  BY <1>1, <1>4, <1>5, LineLengths DEF Linked
<1>12. LabelCoded(line, index, symbol_table_')
  BY <1>5 DEF LabelCoded
<1>13. ~IsReference(line) => \A i \in 1 .. Length(line) : index + i - 1 \notin Patchable'
  BY <1>2, <1>5
<1> QED
  BY <1>2, <1>3, <1>5, <1>6, <1>7, <1>8, <1>9, <1>10, <1>11, <1>12, <1>13
  DEF LineCoded, line, index, first1, second1

\* The lines coded before stay coded when a line is added.
LEMMA CodedStays ==
    ASSUME ImageTypes, Coded,
           UNCHANGED <<source, symbol_table_, intermediate_code_, back_patch_>>,
           Reached' = Reached, Pending \subseteq Pending'
    PROVE  Coded'
<1>1. Len(intermediate_code_) \in Nat /\ Len(source.text) \in Nat
  BY TokenTypes DEF ImageTypes, CodeTypes
<1>2. Patchable' = Patchable
  BY DEF Patchable
<1>3. Reached \in 1 .. (Len(source.text) + 1)
  BY DEF Coded
<1>4. ASSUME NEW l \in 1 .. (Reached - 1) PROVE LineCoded(l)'
  <2>1. l \in 1 .. Len(source.text) /\ LineCoded(l)
    BY <1>1, <1>3 DEF Coded
  <2> QED BY <1>1, <1>2, <2>1, LineStays
<1>5. Place(Reached)' = Place(Reached)
  BY DEF Place, Address, Line
<1>6. \A l : Line(l)' = Line(l)
  BY DEF Line
<1> QED BY <1>4, <1>5, <1>6 DEF Coded

\* A line of the second pass.
LEMMA CodedByLine ==
    ASSUME ImageTypes, Coded, ParseText, errors_' = errors_
    PROVE  Coded'
<1> DEFINE line == Line(pos_)
           n == Len(intermediate_code_)
           first == intermediate_code_'[n + 1]
           second == intermediate_code_'[n + 2]
<1>1. /\ phase = "text" /\ phase' = "text" /\ pos_' = pos_ + 1 /\ UNCHANGED source
      /\ pos_ <= Len(source.text) /\ ParseLine(line)
  BY DEF ParseText, Line
<1>2. /\ pos_ \in 1 .. Len(source.text) /\ Len(source.text) \in Nat /\ line \in TextLine
      /\ n \in Nat /\ Length(line) \in {0, 1, 2}
  BY <1>1, TokenTypes, LengthCases DEF ImageTypes, SessionTypes, CodeTypes, Line
<1>3. Reached = pos_ /\ Reached' = pos_ + 1 /\ n = Place(pos_)
  BY <1>1 DEF Reached, Coded
<1>4. /\ line.opcode # "bad"
      /\ Grown(line)
      /\ PlainCoded(line, first)
      /\ LiCoded(line, first, second)
      /\ AddressCoded(line, first, second, n, symbol_table_)
      /\ ReferenceNamed(line, first)
      /\ \/ UNCHANGED back_patch_ /\ (IsReference(line) => Linked(first, n, symbol_table_))
         \/ IsReference(line) /\ back_patch_' = Append(back_patch_, n)
      /\ \/ line.opcode # "label" /\ UNCHANGED symbol_table_
         \/ /\ line.opcode = "label" /\ line.label \notin DOMAIN symbol_table_
            /\ symbol_table_' = [s \in DOMAIN symbol_table_ \cup {line.label} |->
                   IF s = line.label THEN [address |-> 4 * n, isData |-> FALSE]
                   ELSE symbol_table_[s]]
  BY <1>1, <1>2, LineIsCoded
<1>5. /\ Len(intermediate_code_') = n + Length(line)
      /\ \A i \in 1 .. n : intermediate_code_'[i] = intermediate_code_[i]
      /\ \A i \in 1 .. Length(line) : intermediate_code_'[n + i].line = Len(source.data) + pos_
  BY <1>4 DEF Grown
<1> HIDE DEF line
<1>6. \A s \in DOMAIN symbol_table_ : s \in DOMAIN symbol_table_' /\ symbol_table_'[s] = symbol_table_[s]
  BY <1>4
<1>7. /\ back_patch_ \in Seq(Nat) /\ \A i \in DOMAIN back_patch_ : back_patch_[i] \in Nat /\ back_patch_[i] < n
  BY ElementOfSeq DEF ImageTypes, CodeTypes
<1>8. \/ UNCHANGED back_patch_ /\ Patchable' = Patchable
      \/ IsReference(line) /\ back_patch_' = Append(back_patch_, n) /\ Patchable' = Patchable \cup {n}
  <2>1. ASSUME back_patch_' = Append(back_patch_, n) PROVE Patchable' = Patchable \cup {n}
    <3>1. /\ DOMAIN back_patch_' = DOMAIN back_patch_ \cup {Len(back_patch_) + 1}
          /\ \A i \in DOMAIN back_patch_ : back_patch_'[i] = back_patch_[i]
          /\ back_patch_'[Len(back_patch_) + 1] = n
      BY <1>2, <1>7, <2>1, AppendProperties
    <3> QED BY <3>1 DEF Patchable
  <2>2. ASSUME UNCHANGED back_patch_ PROVE Patchable' = Patchable
    BY <2>2 DEF Patchable
  <2> HIDE DEF n
  <2> QED BY <1>4, <2>1, <2>2
<1>9. Pending = Patchable /\ Pending' = Patchable'
  BY <1>1 DEF Pending, Patchable
<1>10. \A k \in Patchable : k < n /\ k \in Nat
  BY <1>7 DEF Patchable
<1>11. ASSUME NEW l \in 1 .. (pos_ - 1) PROVE LineCoded(l)'
  <2>1. l \in 1 .. Len(source.text) /\ LineCoded(l)
    BY <1>2, <1>3 DEF Coded
  <2>2. Len(intermediate_code_') \in Nat /\ Len(intermediate_code_') >= n
    BY <1>2, <1>5
  <2>3. \A k \in Patchable' : k \in Patchable \/ k >= n
    BY <1>2, <1>8
  <2>4. Pending \subseteq Pending'
    BY <1>8, <1>9
  <2> QED BY <1>1, <1>5, <1>6, <2>1, <2>2, <2>3, <2>4, LineStays
<1>12. PICK k \in 1 .. Len(source.text) : k = pos_
  BY <1>2
<1>13. LineCoded(k)'
  <2>1. Line(k)' = line /\ Place(k)' = n
    BY <1>1, <1>3, <1>12, PlacesStay DEF line
  <2>2. n + Length(line) <= Len(intermediate_code_')
    BY <1>2, <1>5
  <2>3. \A i \in 1 .. Length(line) : intermediate_code_'[n + i].line = Len(source.data') + k
    BY <1>1, <1>5, <1>12
  <2>4. AddressCoded(line, first, second, n, symbol_table_')
    BY <1>2, <1>4, LineCases, Mnemonics DEF AddressCoded, IsAddress
  <2>5. IsReference(line) => Linked(first, n, symbol_table_') \/ n \in Pending'
    <3>1. IsReference(line) => line.opcode # "label"
      BY <1>2, LineCases
    <3> QED BY <1>4, <1>8, <1>9, <3>1
  <2>6. LabelCoded(line, n, symbol_table_')
    BY <1>4 DEF LabelCoded
  <2>7. ~IsReference(line) => \A i \in 1 .. Length(line) : n + i - 1 \notin Patchable'
    BY <1>2, <1>8, <1>10
  <2> HIDE DEF n, first, second
  <2> QED
    BY <1>4, <2>1, <2>2, <2>3, <2>4, <2>5, <2>6, <2>7 DEF LineCoded, n, first, second
<1>14. Len(intermediate_code_') = Place(Reached)'
  <2>1. Place(k + 1)' = Place(k + 1) /\ Place(k + 1) = Place(k) + Length(Line(k))
    <3>1. k \in Nat \ {0} /\ k + 1 \in Nat \ {0}
      BY <1>2
    <3>2. Place(k + 1) = Place(k) + Length(Line(k))
      BY <3>1, PlaceSteps
    <3>3. Place(k + 1)' = Place(k + 1)
      BY <1>1, <3>1, PlacesStay
    <3> QED BY <3>2, <3>3
  <2>2. Place(Reached)' = Place(k + 1)'
    BY <1>3, <1>12 DEF Place, Address, Line
  <2> QED BY <1>3, <1>5, <1>12, <2>1, <2>2 DEF line
<1>15. Reached' \in 1 .. (Len(source.text') + 1)
  BY <1>1, <1>2, <1>3
<1>16. \A l \in 1 .. (Reached' - 1) : LineCoded(l)'
  BY <1>2, <1>3, <1>11, <1>12, <1>13
<1>17. ASSUME NEW s \in DOMAIN symbol_table_', ~symbol_table_'[s].isData
       PROVE  \E l \in 1 .. (Reached' - 1) : Line(l)'.opcode = "label" /\ Line(l)'.label = s
  <2>1. \A l : Line(l)' = Line(l)
    BY <1>1 DEF Line
  <2>2. CASE s \in DOMAIN symbol_table_
    <3>1. PICK l \in 1 .. (Reached - 1) : Line(l).opcode = "label" /\ Line(l).label = s
      BY <1>6, <1>17, <2>2 DEF Coded
    <3> QED BY <1>2, <1>3, <2>1, <3>1
  <2>3. CASE s \notin DOMAIN symbol_table_
    <3>1. line.opcode = "label" /\ s = line.label
      BY <1>4, <1>17, <2>3
    <3>2. pos_ \in 1 .. (Reached' - 1)
      BY <1>2, <1>3
    <3> QED BY <2>1, <3>1, <3>2 DEF line
  <2> QED BY <2>2, <2>3
<1> QED BY <1>14, <1>15, <1>16, <1>17 DEF Coded

\* A back patch links what was pending.
LEMMA CodedByPatch ==
    ASSUME ImageTypes, Coded, BackPatch, errors_' = errors_
    PROVE  Coded'
<1> DEFINE p == back_patch_[pos_]
           block == intermediate_code_[p + 1]
           offset == PatchOffset(p, block.label)
           n == Len(intermediate_code_)
<1>1. /\ phase = "patch" /\ phase' = "patch" /\ pos_' = pos_ + 1
      /\ UNCHANGED <<source, symbol_table_, back_patch_>>
      /\ pos_ \in 1 .. Len(back_patch_) /\ Len(back_patch_) \in Nat
  BY DEF BackPatch, ImageTypes, CodeTypes, SessionTypes
<1>2. errors_ \in Nat
  BY DEF ImageTypes, SessionTypes
<1>3. /\ p \in Nat /\ p + 1 \in 1 .. n /\ block \in UnitType
      /\ block.label \in DOMAIN symbol_table_
      /\ ~(block.opcode \in OfType({"B"}) /\ symbol_table_[block.label].isData)
      /\ InReach(block.opcode, offset)
      /\ intermediate_code_' = [intermediate_code_ EXCEPT ![p + 1] = Patched(block, offset)]
  BY <1>2, PatchCases
<1>4. /\ intermediate_code_ \in Seq(UnitType) /\ n \in Nat
      /\ source.text \in Seq(TextLine) /\ Len(source.text) \in Nat
  BY TokenTypes DEF ImageTypes, CodeTypes
<1>5. /\ Patched(block, offset).opcode = block.opcode /\ Patched(block, offset).label = block.label
      /\ Patched(block, offset).line = block.line /\ Patched(block, offset).imm = offset
  BY <1>3 DEF Patched, UnitType
<1>6. Linked(Patched(block, offset), p, symbol_table_)
  BY <1>3, <1>5 DEF Linked, PatchOffset
<1>7. p \in Patchable /\ Patchable' = Patchable
  BY <1>1 DEF Patchable
<1>8. \A k \in Pending : k = p \/ k \in Pending'
  <2>1. Pending = {back_patch_[j] : j \in pos_ .. Len(back_patch_)}
    BY <1>1 DEF Pending
  <2>2. Pending' = {back_patch_[j] : j \in (pos_ + 1) .. Len(back_patch_)}
    BY <1>1 DEF Pending
  <2>3. \A j \in pos_ .. Len(back_patch_) : j = pos_ \/ j \in (pos_ + 1) .. Len(back_patch_)
    BY <1>1
  <2> QED BY <2>1, <2>2, <2>3
<1> HIDE DEF block, offset, p
<1>9. /\ Len(intermediate_code_') = n
      /\ \A i \in 1 .. n : intermediate_code_'[i] = IF i = p + 1 THEN Patched(block, offset)
                                                    ELSE intermediate_code_[i]
      /\ intermediate_code_[p + 1] = block
  BY <1>3, <1>4 DEF block
<1>10. ASSUME NEW l \in 1 .. Len(source.text), LineCoded(l)
       PROVE  LineCoded(l)'
  <2> DEFINE line == Line(l)
             q == Place(l)
             first == intermediate_code_[q + 1]
             second == intermediate_code_[q + 2]
             first1 == intermediate_code_'[q + 1]
             second1 == intermediate_code_'[q + 2]
  <2>1. /\ line \in TextLine /\ Length(line) \in {0, 1, 2} /\ q \in Nat
        /\ Line(l)' = line /\ Place(l)' = q
    <3>1. l \in Nat \ {0}
      BY <1>4
    <3> QED BY <1>1, <1>4, <3>1, PlaceSteps, PlacesStay, LengthCases, ElementOfSeq DEF Line
  <2>2. /\ line.opcode # "bad" /\ q + Length(line) <= n
        /\ \A i \in 1 .. Length(line) : intermediate_code_[q + i].line = Len(source.data) + l
        /\ PlainCoded(line, first) /\ LiCoded(line, first, second)
        /\ AddressCoded(line, first, second, q, symbol_table_)
        /\ ReferenceNamed(line, first)
        /\ IsReference(line) => Linked(first, q, symbol_table_) \/ q \in Pending
        /\ LabelCoded(line, q, symbol_table_)
        /\ ~IsReference(line) => \A i \in 1 .. Length(line) : q + i - 1 \notin Patchable
    BY <1>10 DEF LineCoded
  <2> HIDE DEF line, q, first, second, first1, second1
  <2>3. ASSUME NEW i \in 1 .. Length(line)
        PROVE  intermediate_code_'[q + i].line = Len(source.data') + l
    <3>1. q + i \in 1 .. n
      BY <1>4, <2>1, <2>2
    <3> QED BY <1>1, <1>5, <1>9, <2>2, <3>1
  <2>4. CASE ~IsReference(line)
    <3>1. \A i \in 1 .. Length(line) : q + i \in 1 .. n /\ q + i # p + 1
      <4> TAKE i \in 1 .. Length(line)
      <4>1. q + i - 1 # p
        BY <1>7, <2>2, <2>4
      <4> QED BY <1>3, <1>4, <2>1, <2>2, <4>1
    <3>2. /\ Length(line) >= 1 => first1 = first
          /\ Length(line) = 2 => second1 = second
      BY <1>9, <2>1, <3>1 DEF first, first1, second, second1
    <3>3. PlainCoded(line, first1)
      BY <2>1, <2>2, <3>2, LineLengths DEF PlainCoded
    <3>4. LiCoded(line, first1, second1)
      BY <2>1, <2>2, <3>2, LineLengths, LineForms, LowZero DEF LiCoded
    <3>5. AddressCoded(line, first1, second1, q, symbol_table_)
      BY <2>1, <2>2, <3>2, LineLengths DEF AddressCoded
    <3>6. ReferenceNamed(line, first1)
      BY <2>4 DEF ReferenceNamed
    <3> QED
      BY <1>1, <1>7, <1>9, <2>1, <2>2, <2>3, <2>4, <3>3, <3>4, <3>5, <3>6
      DEF LineCoded, first1, second1
  <2>5. CASE IsReference(line)
    <3>1. /\ Length(line) = 1 /\ line.opcode \notin {"label", "li"} /\ ~IsPlain(line)
          /\ ~IsAddress(line)
      BY <2>1, <2>5, LineLengths, LineCases, Mnemonics DEF IsReference, NamesText, IsPlain, IsAddress
    <3>2. q + 1 \in 1 .. n
      BY <1>4, <2>1, <2>2, <3>1
    <3>3. first1.opcode = first.opcode /\ first1.label = first.label
      BY <1>5, <1>9, <3>2 DEF first, first1
    <3>4. Linked(first1, q, symbol_table_) \/ q \in Pending'
      <4>1. CASE q = p
        BY <1>6, <1>9, <3>2, <4>1 DEF first1
      <4>2. CASE q # p
        <5>1. first1 = first
          BY <1>3, <1>9, <2>1, <3>2, <4>2 DEF first, first1
        <5> QED BY <1>8, <2>2, <2>5, <4>2, <5>1
      <4> QED BY <4>1, <4>2
    <3>5. /\ PlainCoded(line, first1) /\ LiCoded(line, first1, second1)
          /\ AddressCoded(line, first1, second1, q, symbol_table_)
          /\ ReferenceNamed(line, first1)
      BY <2>2, <3>1, <3>3 DEF PlainCoded, LiCoded, AddressCoded, ReferenceNamed
    <3> QED
      BY <1>1, <1>9, <2>1, <2>2, <2>3, <2>5, <3>4, <3>5 DEF LineCoded, first1, second1
  <2> QED BY <2>4, <2>5
<1>11. /\ Reached = Len(source.text) + 1 /\ Reached' = Reached
       /\ Place(Reached)' = Place(Reached)
       /\ \A l : Line(l)' = Line(l)
  BY <1>1 DEF Reached, Place, Address, Line
<1>12. Reached - 1 = Len(source.text)
  BY <1>4, <1>11
<1>13. \A l \in 1 .. (Reached' - 1) : LineCoded(l)'
  BY <1>10, <1>11, <1>12 DEF Coded
<1> QED BY <1>1, <1>9, <1>11, <1>13 DEF Coded

\* Every action keeps CodeInv.
LEMMA CodeStep ==
    ASSUME ImageTypes, CodeInv, [Next]_imageVars
    PROVE  CodeInv'
<1> DEFINE Programmed == {"assembled", "write_text", "write_data", "loaded"}
<1>0. errors_ \in Nat /\ pos_ \in Nat \ {0} /\ Len(source.text) \in Nat
  BY TokenTypes DEF ImageTypes, SessionTypes
<1>1. CASE LoadCommand
  BY <1>1 DEF LoadCommand, Parsing, CodeInv, HasCode
<1>2. CASE ParseData
  <2>1. phase = "data" /\ phase' = "data" /\ UNCHANGED <<intermediate_code_, back_patch_>>
    BY <1>2 DEF ParseData
  <2>2. \A n \in DOMAIN symbol_table_' : symbol_table_'[n].isData
    BY <1>2, <2>1 DEF ParseData, ParseDataLabel, ParseDirective, CodeInv
  <2> QED BY <2>1, <2>2 DEF CodeInv, HasCode
<1>3. CASE EndFirstPass
  <2>1. /\ phase = "data" /\ phase' = "text" /\ pos_' = 1
        /\ UNCHANGED <<source, symbol_table_, intermediate_code_, back_patch_>>
    BY <1>3 DEF EndFirstPass
  <2>2. Reached' = 1 /\ Len(intermediate_code_') = 0
    BY <2>1 DEF Reached, CodeInv
  <2>3. Place(Reached)' = 0
    <3>1. Place(1)' = Place(1) /\ Place(1) = 0
      BY <2>1, PlacesStay, PlaceSteps
    <3> QED BY <2>2, <3>1 DEF Place, Address, Line
  <2>4. Coded'
    BY <1>0, <2>1, <2>2, <2>3 DEF Coded, CodeInv
  <2> QED BY <2>1, <2>4 DEF CodeInv
<1>4. CASE ParseText
  <2>1. phase = "text" /\ phase' = "text" /\ errors_' \in Nat /\ (errors_' = errors_ \/ errors_' = errors_ + 1)
    <3>1. source.text[pos_] \in TextLine /\ ParseLine(source.text[pos_])
      BY <1>4, <1>0, TokenTypes DEF ParseText, ImageTypes
    <3>2. errors_' = errors_ \/ errors_' = errors_ + 1
      BY <3>1 DEF ParseLine, ParseLabel, ParseLi, ParseAddress, ParseReference, ParsePlain, Emit, Reject
    <3> QED BY <1>0, <1>4, <3>2 DEF ParseText
  <2>2. errors_' = 0 => errors_ = 0 /\ errors_' = errors_
    BY <1>0, <2>1
  <2> QED BY <1>4, <2>1, <2>2, CodedByLine DEF CodeInv, HasCode
<1>5. CASE EndSecondPass
  <2>1. /\ phase = "text" /\ phase' = "patch" /\ pos_' = 1 /\ pos_ > Len(source.text)
        /\ UNCHANGED <<source, symbol_table_, intermediate_code_, back_patch_, errors_>>
    BY <1>5 DEF EndSecondPass
  <2>2. Pending' = Pending
    BY <2>1 DEF Pending, ImageTypes, CodeTypes
  <2>3. ASSUME Coded PROVE Coded'
    <3>1. Reached' = Reached
      BY <1>0, <2>1, <2>3 DEF Coded, Reached
    <3> QED BY <2>1, <2>2, <2>3, <3>1, CodedStays
  <2> QED BY <2>1, <2>3 DEF CodeInv, HasCode
<1>6. CASE BackPatch
  <2>1. phase = "patch" /\ phase' = "patch" /\ (errors_' = errors_ \/ errors_' = errors_ + 1)
    BY <1>6 DEF BackPatch
  <2>2. errors_' = 0 => errors_ = 0 /\ errors_' = errors_
    BY <1>0, <2>1
  <2> QED BY <1>6, <2>1, <2>2, CodedByPatch DEF CodeInv, HasCode
<1>7. CASE Assemble
  <2>1. /\ phase = "patch" /\ pos_ > Len(back_patch_)
        /\ phase' = IF errors_ = 0 THEN "assembled" ELSE "failed"
        /\ UNCHANGED <<source, symbol_table_, intermediate_code_, back_patch_, errors_>>
    BY <1>7 DEF Assemble
  <2>2. Pending = {}
    BY <1>0, <2>1 DEF Pending, ImageTypes, CodeTypes
  <2>3. ASSUME Coded PROVE Coded'
    <3>1. Reached' = Reached
      BY <2>1 DEF Reached
    <3> QED BY <2>1, <2>2, <2>3, <3>1, CodedStays
  <2> QED BY <2>1, <2>3 DEF CodeInv, HasCode
<1>8. CASE \/ phase \in Programmed /\ phase' \in Programmed \cup {"idle", "crashed"}
              /\ ProgramKept
           \/ ~HasCode /\ phase # "data" /\ phase' = phase
           \/ phase' \notin Programmed \cup {"data", "text", "patch"}
           \/ UNCHANGED imageVars
  <2>1. CASE phase' \notin Programmed \cup {"data", "text", "patch"}
    BY <2>1 DEF CodeInv, HasCode
  <2>2. CASE phase \in Programmed /\ phase' \in Programmed /\ ProgramKept
    <3>1. Reached' = Reached /\ Pending' = Pending
      BY <2>2 DEF Reached, Pending, ProgramKept
    <3>2. ASSUME Coded PROVE Coded'
      BY <2>2, <3>1, <3>2, CodedStays DEF ProgramKept
    <3>3. errors_' = errors_ /\ HasCode
      BY <2>2 DEF ProgramKept, HasCode
    <3> QED BY <2>2, <3>2, <3>3 DEF CodeInv, HasCode
  <2>3. CASE UNCHANGED imageVars
    <3>1. Reached' = Reached /\ Pending' = Pending
      BY <2>3 DEF Reached, Pending, imageVars, parserVars
    <3>2. ASSUME Coded PROVE Coded'
      BY <2>3, <3>1, <3>2, CodedStays DEF imageVars, parserVars
    <3> QED BY <2>3, <3>2 DEF CodeInv, HasCode, imageVars, parserVars
  <2> QED BY <1>8, <2>1, <2>2, <2>3 DEF HasCode
<1>9. CASE BeginLoadProgram \/ LoadTextWord \/ EndText \/ LoadDataItem \/ EndData
  BY <1>8, <1>9 DEF BeginLoadProgram, LoadTextWord, EndText, LoadDataItem, EndData
<1>10. CASE ModifyMemory \/ LookAtMemory \/ ResetCommand
  BY <1>8, <1>10 DEF ModifyMemory, LookAtMemory, ResetCommand, Resting, HasCode
<1>11. CASE UNCHANGED imageVars
  BY <1>8, <1>11
<1> QED BY <1>1, <1>2, <1>3, <1>4, <1>5, <1>6, <1>7, <1>9, <1>10, <1>11
        DEF Next, AssembleStep, AssemblerNext

-----------------------------------------------------------------------------
(* The text in memory. *)

\* Every unit of code is a word, however its immediate came about.
LEMMA CodeIsWords ==
    ASSUME NEW block, block.opcode \in Mnemonic
    PROVE  MachineCode(block) \in Word
<1> DEFINE e == Instruction[block.opcode]
           rd == Bits(block.rd, 5)
           rs1 == Bits(block.rs1, 5)
           rs2 == Bits(block.rs2, 5)
           imm == Bits(block.imm, 32)
           word == MachineCode(block)
<1>1. e.opcode \subseteq 0 .. 6
  BY Opcodes
<1>2. e.type \in {"R", "I1", "I2", "S", "B", "U", "J"}
  BY Types, Mnemonics
<1>3. \/ word = GenerateR(e, rd, rs1, rs2) \/ word = GenerateI1(e, rd, rs1, imm)
      \/ word = GenerateI2(e, rd, rs1, imm) \/ word = GenerateS(e, rs1, rs2, imm)
      \/ word = GenerateB(e, rs1, rs2, imm) \/ word = GenerateU(e, rd, imm)
      \/ word = GenerateJ(e, rd, imm)
  BY <1>2 DEF MachineCode
<1>4. \A s, k : Shl(s, k) \in Word
  BY DEF Shl, Word
<1> HIDE DEF e, rd, rs1, rs2, imm, word
<1>5. e.opcode \in Word /\ imm \cap (12 .. 19) \in Word
  BY <1>1 DEF Word
<1>6. \A a, b \in Word : a \cup b \in Word
  BY DEF Word
<1> HIDE DEF Word
<1>7. word \in Word
  <2>1. GenerateR(e, rd, rs1, rs2) \in Word
    BY <1>4, <1>5, <1>6 DEF GenerateR
  <2>2. GenerateI1(e, rd, rs1, imm) \in Word
    BY <1>4, <1>5, <1>6 DEF GenerateI1
  <2>3. GenerateI2(e, rd, rs1, imm) \in Word
    BY <1>4, <1>5, <1>6 DEF GenerateI2
  <2>4. GenerateS(e, rs1, rs2, imm) \in Word
    BY <1>4, <1>5, <1>6 DEF GenerateS
  <2>5. GenerateB(e, rs1, rs2, imm) \in Word
    BY <1>4, <1>5, <1>6 DEF GenerateB
  <2>6. GenerateU(e, rd, imm) \in Word
    BY <1>4, <1>5, <1>6 DEF GenerateU
  <2>7. GenerateJ(e, rd, imm) \in Word
    BY <1>4, <1>5, <1>6 DEF GenerateJ
  <2> QED BY <1>3, <2>1, <2>2, <2>3, <2>4, <2>5, <2>6, <2>7
<1> QED BY <1>7 DEF word

\* It holds of the sources still to load, and of the one loaded.
FitInv == Fits(source.text) /\ \A i \in DOMAIN session.sources : Fits(session.sources[i].text)

WordOf(blocks, i) == ReadGeneric(blocks, 4 * (i - 1), 4)

TextInv ==
    /\ phase = "write_text" =>
           \A i \in 1 .. Len(intermediate_code_) :
               i <= loaded => WordOf(blocks_, i) = MachineCode(intermediate_code_[i])
    /\ phase \in {"write_data", "loaded"} =>
           \A i \in 1 .. Len(intermediate_code_) : WordOf(blocks_, i) = MachineCode(intermediate_code_[i])

\* The sources of a session fit at the start.
LEMMA FitStart == ASSUME SourcesFit, Init PROVE FitInv
<1>1. Len(source.text) = 0 /\ session \in Session
  BY DEF Init
<1>2. 8 * 0 <= DataStart
  BY AssemblerAssumption
<1> QED BY <1>1, <1>2 DEF SourcesFit, FitInv, Fits

\* A source is one of those the session had.
LEMMA SourceSteps ==
    ASSUME ImageTypes, [Next]_imageVars
    PROVE  /\ source' = source
              \/ \E j \in DOMAIN session.sources : source' = session.sources[j]
           /\ \A i \in DOMAIN session'.sources :
                  \E j \in DOMAIN session.sources : session'.sources[i] = session.sources[j]
<1>1. CASE LoadCommand
  <2>1. /\ session.sources \in Seq(Source) /\ session.sources # <<>>
        /\ session \in [sources : Seq(Source), probes : Nat]
        /\ source' = Head(session.sources)
        /\ session' = [session EXCEPT !.sources = Tail(@)]
    BY <1>1 DEF LoadCommand, Parsing, ImageTypes, SessionTypes
  <2>2. session'.sources = Tail(session.sources)
    BY <2>1
  <2>3. /\ source' = session.sources[1] /\ 1 \in DOMAIN session.sources
        /\ \A i \in DOMAIN session'.sources :
               i + 1 \in DOMAIN session.sources /\ session'.sources[i] = session.sources[i + 1]
    BY <2>1, <2>2, HeadTailProperties
  <2> QED BY <2>3
<1>2. CASE UNCHANGED <<source, session>>
  BY <1>2
<1>3. CASE ModifyMemory \/ LookAtMemory \/ ResetCommand
  <2>1. source' = source /\ session'.sources = session.sources
    BY <1>3 DEF ModifyMemory, LookAtMemory, ResetCommand, Probe, ProgramKept, ImageTypes, SessionTypes
  <2> QED BY <2>1
<1>4. CASE AssembleStep
  <2>1. UNCHANGED <<source, session>>
    BY <1>4 DEF AssembleStep, AssemblerNext, ParseData, EndFirstPass, ParseText, EndSecondPass,
                BackPatch, Assemble
  <2> QED BY <1>2, <2>1
<1>5. CASE BeginLoadProgram \/ LoadTextWord \/ EndText \/ LoadDataItem \/ EndData
  BY <1>2, <1>5 DEF BeginLoadProgram, LoadTextWord, EndText, LoadDataItem, EndData, ProgramKept
<1> QED BY <1>1, <1>2, <1>3, <1>4, <1>5 DEF Next, imageVars, parserVars

\* And in every step.
LEMMA FitStep ==
    ASSUME ImageTypes, FitInv, [Next]_imageVars
    PROVE  FitInv'
<1>1. Fits(source'.text)
  BY SourceSteps DEF FitInv
<1>2. \A i \in DOMAIN session'.sources : Fits(session'.sources[i].text)
  BY SourceSteps DEF FitInv
<1> QED BY <1>1, <1>2 DEF FitInv

\* A text that fits ends before the data section.
LEMMA CodeBelowData ==
    ASSUME ImageTypes, CodeInv, FitInv, phase \in {"assembled", "write_text", "write_data", "loaded"}
    PROVE  4 * Len(intermediate_code_) <= DataStart
<1>1. Coded /\ Reached = Len(source.text) + 1
  BY DEF CodeInv, HasCode, Reached
<1>2. Len(source.text) \in Nat
  BY TokenTypes DEF ImageTypes
<1>3. Place(Len(source.text) + 1) \in 0 .. 2 * Len(source.text)
  <2> DEFINE l == Len(source.text) + 1
  <2>1. l \in Nat \ {0} /\ l - 1 = Len(source.text)
    BY <1>2
  <2> HIDE DEF l
  <2>2. Place(l) \in 0 .. 2 * (l - 1)
    BY <2>1, PlaceSteps
  <2> QED BY <2>1, <2>2 DEF l
<1> QED BY <1>1, <1>2, <1>3, AssemblerAssumption DEF Coded, FitInv, Fits

\* Every write of the loader leaves the words before it alone.
LEMMA WordStays ==
    ASSUME NEW i \in Nat \ {0}, NEW address \in Nat, NEW size \in Size, NEW value,
           WriteMemory(address, size, value), 4 * i <= address
    PROVE  WordOf(blocks_', i) = WordOf(blocks_, i)
<1>1. 4 * (i - 1) \in Nat /\ 4 * (i - 1) + 4 <= address /\ 4 \in Size
  BY DEF Size
<1>2. CASE InRange(address, size)
  <2>1. blocks_' = WriteGeneric(blocks_, address, size, value)
    BY <1>2 DEF WriteMemory
  <2> QED BY <1>1, <2>1, ReadBeside DEF WordOf
<1>3. CASE ~InRange(address, size)
  BY <1>3 DEF WriteMemory, WordOf
<1> QED BY <1>2, <1>3

\* All code is of known mnemonics, so its words are words.
LEMMA CodeOpcodes ==
    ASSUME CodeTypes
    PROVE  /\ Len(intermediate_code_) \in Nat
           /\ \A i \in 1 .. Len(intermediate_code_) :
                  /\ intermediate_code_[i] \in UnitType
                  /\ MachineCode(intermediate_code_[i]) \in Word
<1>1. intermediate_code_ \in Seq(UnitType)
  BY DEF CodeTypes
<1>2. \A i \in 1 .. Len(intermediate_code_) : intermediate_code_[i] \in UnitType
  BY <1>1, ElementOfSeq
<1>3. \A unit \in UnitType : unit.opcode \in Mnemonic
  BY DEF UnitType
<1> QED BY <1>1, <1>2, <1>3, CodeIsWords

\* Every action keeps TextInv.
LEMMA TextStep ==
    ASSUME ImageTypes, CodeInv, FitInv, TextInv, [Next]_imageVars
    PROVE  TextInv'
<1> DEFINE n == Len(intermediate_code_)
           word(i) == MachineCode(intermediate_code_[i])
<1>0. n \in Nat /\ loaded \in Nat
  BY CodeOpcodes DEF ImageTypes, LoaderTypes
<1>1. CASE phase' \notin {"write_text", "write_data", "loaded"}
  BY <1>1 DEF TextInv
<1>2. CASE BeginLoadProgram
  <2>1. /\ phase' = "write_text" /\ loaded' = 0
        /\ intermediate_code_' = intermediate_code_
    BY <1>2 DEF BeginLoadProgram, ProgramKept
  <2> QED BY <1>0, <2>1 DEF TextInv
<1>3. CASE LoadTextWord
  <2>1. loaded + 1 \in 1 .. n /\ text_buffer[loaded + 1] = word(loaded + 1)
    <3>1. Len(text_buffer) = n
      BY <1>0 DEF text_buffer
    <3>2. loaded + 1 \in 1 .. n
      BY <1>0, <1>3, <3>1 DEF LoadTextWord
    <3> QED BY <3>2 DEF text_buffer
  <2>2. /\ phase = "write_text"
        /\ WriteMemory(loaded * 4, 4, word(loaded + 1))
        /\ phase' = IF InRange(loaded * 4, 4) THEN phase ELSE "crashed"
        /\ loaded' = loaded + 1
        /\ intermediate_code_' = intermediate_code_
    BY <1>3, <2>1 DEF LoadTextWord, ProgramKept
  <2>3. loaded * 4 \in Nat /\ 4 \in Size
    BY <1>0 DEF Size
  <2>4. InRange(loaded * 4, 4) => WordOf(blocks_', loaded + 1) = word(loaded + 1)
    <3>1. word(loaded + 1) \subseteq 0 .. (8 * 4 - 1)
      <4>1. CodeTypes
        BY DEF ImageTypes
      <4>2. word(loaded + 1) \in Word
        BY <2>1, <4>1, CodeOpcodes
      <4> HIDE DEF word
      <4> QED BY <4>2 DEF Word
    <3> HIDE DEF word
    <3>2. InRange(loaded * 4, 4) => blocks_' = WriteGeneric(blocks_, loaded * 4, 4, word(loaded + 1))
      BY <2>2 DEF WriteMemory
    <3>3. 4 * ((loaded + 1) - 1) = loaded * 4
      BY <1>0
    <3> QED BY <2>3, <3>1, <3>2, <3>3, ReadBack DEF WordOf
  <2>5. ASSUME NEW i \in 1 .. n, i <= loaded
        PROVE  WordOf(blocks_', i) = word(i)
    <3>1. i \in Nat \ {0} /\ 4 * i <= loaded * 4
      BY <1>0, <2>5
    <3> HIDE DEF word
    <3>2. WordOf(blocks_', i) = WordOf(blocks_, i)
      BY <2>2, <2>3, <3>1, WordStays
    <3> QED BY <2>2, <2>5, <3>2 DEF TextInv, word
  <2>6. ASSUME NEW i \in 1 .. n, i <= loaded + 1, InRange(loaded * 4, 4)
        PROVE  WordOf(blocks_', i) = word(i)
    <3>1. i <= loaded \/ i = loaded + 1
      BY <1>0, <2>6
    <3> HIDE DEF word
    <3> QED BY <2>4, <2>5, <2>6, <3>1
  <2>7. CASE InRange(loaded * 4, 4)
    BY <2>2, <2>6, <2>7 DEF TextInv
  <2>8. CASE ~InRange(loaded * 4, 4)
    BY <1>1, <2>2, <2>8
  <2> QED BY <2>7, <2>8
<1>4. CASE EndText
  <2>1. /\ phase = "write_text" /\ phase' = "write_data" /\ loaded = n
        /\ UNCHANGED <<intermediate_code_, blocks_>>
    BY <1>0, <1>4 DEF EndText, ProgramKept, memoryVars, text_buffer
  <2> QED BY <1>0, <2>1 DEF TextInv
<1>5. CASE LoadDataItem
  <2> DEFINE item == data_buffer_[loaded + 1]
             counter == Align(data_counter, item.size)
  <2>1. loaded + 1 \in 1 .. Len(data_buffer_)
    BY <1>5 DEF LoadDataItem, ImageTypes, LoaderTypes, TableTypes
  <2>2. item.size \in Size
    BY <2>1, ElementOfSeq DEF ImageTypes, TableTypes, ItemType
  <2>3. counter \in Nat
    BY <2>2, AlignTypes DEF ImageTypes, LoaderTypes
  <2>4. /\ phase = "write_data"
        /\ WriteMemory(DataStart + counter, item.size, item.value)
        /\ phase' = IF InRange(DataStart + counter, item.size) THEN phase ELSE "crashed"
        /\ intermediate_code_' = intermediate_code_
    BY <1>5 DEF LoadDataItem, ProgramKept
  <2> HIDE DEF item, counter
  <2>5. DataStart + counter \in Nat /\ 4 * n <= DataStart + counter
    BY <1>0, <2>3, <2>4, CodeBelowData, AssemblerAssumption
  <2>6. ASSUME NEW i \in 1 .. n PROVE WordOf(blocks_', i) = word(i)
    <3>1. i \in Nat \ {0} /\ 4 * i <= DataStart + counter
      BY <1>0, <2>5
    <3> HIDE DEF word
    <3>2. WordOf(blocks_', i) = WordOf(blocks_, i)
      BY <2>2, <2>4, <2>5, <3>1, WordStays
    <3> QED BY <2>4, <3>2 DEF TextInv, word
  <2> QED BY <2>4, <2>6 DEF TextInv
<1>6. CASE EndData \/ UNCHANGED imageVars
  <2>1. /\ phase' = phase \/ (phase = "write_data" /\ phase' = "loaded")
        /\ UNCHANGED <<intermediate_code_, blocks_, loaded>>
    BY <1>6 DEF EndData, ProgramKept, memoryVars, imageVars, parserVars, loaderVars
  <2> QED BY <2>1 DEF TextInv
<1>7. CASE LookAtMemory
  <2>1. UNCHANGED <<phase, intermediate_code_, blocks_, loaded>>
    BY <1>7 DEF LookAtMemory, ReadMemory, ProgramKept, loaderVars
  <2> QED BY <2>1 DEF TextInv
<1>8. CASE LoadCommand \/ AssembleStep \/ ModifyMemory \/ ResetCommand
  <2>1. phase' \notin {"write_text", "write_data", "loaded"}
    BY <1>8 DEF LoadCommand, Parsing, ModifyMemory, ResetCommand, AssembleStep, AssemblerNext,
                ParseData, EndFirstPass, ParseText, EndSecondPass, BackPatch, Assemble
  <2> QED BY <1>1, <2>1
<1> QED BY <1>2, <1>3, <1>4, <1>5, <1>6, <1>7, <1>8 DEF Next

-----------------------------------------------------------------------------
(* Lines are decoded as they were written. *)

TextLoaded == ImageTypes /\ CodeInv /\ FitInv /\ TextInv

\* The invariants of the text hold throughout.
LEMMA TextLoadedAlways ==
    ASSUME SourcesFit
    PROVE  Spec => []TextLoaded
<1>1. Init => TextLoaded
  <2>1. Init => CodeInv /\ TextInv
    BY DEF Init, CodeInv, TextInv, HasCode
  <2> QED BY <2>1, TypesAtStart, FitStart DEF TextLoaded
<1>2. TextLoaded /\ [Next]_imageVars => TextLoaded'
  BY TypesStep, CodeStep, FitStep, TextStep DEF TextLoaded
<1> QED BY <1>1, <1>2, PTL DEF Spec

\* What is in memory where the instructions of a line have to be.
LEMMA LineInMemory ==
    ASSUME TextLoaded, phase = "loaded", NEW l \in Lines
    PROVE  /\ Line(l) \in TextLine /\ LineCoded(l)
           /\ Place(l) \in Nat /\ Address(l) = 4 * Place(l)
           /\ Len(intermediate_code_) \in Nat
           /\ \A i \in 1 .. Length(Line(l)) :
                  /\ Place(l) + i \in 1 .. Len(intermediate_code_)
                  /\ intermediate_code_[Place(l) + i] \in UnitType
                  /\ WordAt(Address(l) + 4 * (i - 1)) = MachineCode(intermediate_code_[Place(l) + i])
<1> DEFINE n == Len(intermediate_code_)
<1>1. /\ ImageTypes /\ Coded /\ Reached = Len(source.text) + 1
      /\ n \in Nat
  BY CodeOpcodes DEF TextLoaded, CodeInv, HasCode, Reached, ImageTypes
<1>2. Line(l) \in TextLine /\ l \in Nat \ {0} /\ l \in 1 .. (Reached - 1)
  BY <1>1, TokenTypes DEF ImageTypes, Lines, Line
<1>3. LineCoded(l)
  BY <1>1, <1>2 DEF Coded
<1>4. Place(l) \in Nat /\ Address(l) = 4 * Place(l)
  BY <1>2, PlaceSteps
<1>5. Length(Line(l)) \in {0, 1, 2} /\ Place(l) + Length(Line(l)) <= n
  BY <1>3, LengthCases DEF LineCoded
<1>6. ASSUME NEW i \in 1 .. Length(Line(l))
      PROVE  /\ Place(l) + i \in 1 .. n
             /\ intermediate_code_[Place(l) + i] \in UnitType
             /\ WordAt(Address(l) + 4 * (i - 1)) = MachineCode(intermediate_code_[Place(l) + i])
  <2>1. Place(l) + i \in 1 .. n
    BY <1>1, <1>4, <1>5
  <2>2. intermediate_code_[Place(l) + i] \in UnitType
    BY <1>1, <2>1, CodeOpcodes DEF ImageTypes
  <2>3. WordOf(blocks_, Place(l) + i) = MachineCode(intermediate_code_[Place(l) + i])
    BY <2>1 DEF TextLoaded, TextInv
  <2>4. 4 * ((Place(l) + i) - 1) = Address(l) + 4 * (i - 1)
    BY <1>4, <1>5
  <2> QED BY <2>1, <2>2, <2>3, <2>4 DEF WordOf, WordAt
<1> QED BY <1>1, <1>2, <1>3, <1>4, <1>6

\* The numbers of the parser's ranges.
LEMMA AllowedImmediates ==
    ASSUME NEW opcode \in Mnemonic, NEW imm \in Int, ImmediateAllowed(opcode, imm)
    PROVE  LET type == Instruction[opcode].type
           IN  /\ type \in {"I1", "S"} => imm \in -(2 ^ 11) .. (2 ^ 11 - 1)
               /\ type = "I2" => imm \in 0 .. 31
               /\ type = "B" => imm \in -(2 ^ 12) .. (2 ^ 12 - 1) /\ imm % 2 = 0
               /\ type = "J" => imm \in -(2 ^ 20) .. (2 ^ 20 - 1) /\ imm % 2 = 0
<1> DEFINE type == Instruction[opcode].type
<1>1. type \in {"I1", "S"} => imm \in -(2 ^ 11) .. (2 ^ 11 - 1)
  BY SMT DEF ImmediateAllowed
<1>2. type = "I2" => imm \in 0 .. 31
  BY SMT DEF ImmediateAllowed
<1>3. type = "B" => imm \in -(2 ^ 12) .. (2 ^ 12 - 1) /\ imm % 2 = 0
  BY SMT DEF ImmediateAllowed
<1>4. type = "J" => imm \in -(2 ^ 20) .. (2 ^ 20 - 1) /\ imm % 2 = 0
  BY SMT DEF ImmediateAllowed
<1> HIDE DEF type
<1> QED BY <1>1, <1>2, <1>3, <1>4, Zenon DEF type

\* What the formats have for operands.
LEMMA PlainOperands ==
    ASSUME NEW line \in TextLine, IsPlain(line)
    PROVE  LET type == Instruction[line.opcode].type
           IN  /\ type \in {"R", "I1", "I2", "S", "B", "U", "J"}
               /\ "rd" \in DOMAIN line => type \in {"R", "I1", "I2", "U", "J"}
               /\ "rs1" \in DOMAIN line => type \in {"R", "I1", "I2", "S", "B"}
               /\ "rs2" \in DOMAIN line => type \in {"R", "S", "B"}
               /\ type # "R" => "imm" \in DOMAIN line
  BY Mnemonics, Types DEF TextLine, OfType, IsPlain

\* A line with registers or a number is decoded as it was written, wherever it is,
\* for every source whose text stays below its data.
THEOREM AlwaysDecodesAsWritten ==
    ASSUME SourcesFit
    PROVE  Spec => []DecodesAsWritten
<1>1. ASSUME TextLoaded PROVE DecodesAsWritten
  <2> SUFFICES ASSUME phase = "loaded", NEW l \in Lines,
                      Line(l).opcode \in Mnemonic, "label" \notin DOMAIN Line(l)
               PROVE  LET line == Line(l)
                          word == WordAt(Address(l))
                          e == Instruction[line.opcode]
                      IN  /\ Opcode(word) = e.opcode
                          /\ "rd" \in DOMAIN line => Rd(word) = Bits(line.rd, 5)
                          /\ "rs1" \in DOMAIN line => Rs1(word) = Bits(line.rs1, 5)
                          /\ "rs2" \in DOMAIN line => Rs2(word) = Bits(line.rs2, 5)
                          /\ e.type \in {"R", "I1", "I2", "S", "B"} => Funct3(word) = e.funct3
                          /\ e.type = "R" => Funct7(word) = e.funct7
                          /\ e.type \in {"I1", "S", "B", "J"} /\ line.opcode # "addiw" =>
                                 ImmGenerator(word) = Bits(line.imm, 32)
                          /\ e.type = "I2" => Field(ImmGenerator(word), 0, 6) = Bits(line.imm, 6)
                          /\ e.type = "U" => ImmGenerator(word) = Bits(line.imm, 20)
    BY DEF DecodesAsWritten
  <2> DEFINE line == Line(l)
             block == intermediate_code_[Place(l) + 1]
             word == WordAt(Address(l))
             e == Instruction[line.opcode]
  <2>1. line \in TextLine /\ IsPlain(line) /\ Length(line) = 1
    BY <1>1, LineInMemory, LineLengths DEF IsPlain
  <2>2. block \in UnitType /\ PlainCoded(line, block)
    BY <1>1, <2>1, LineInMemory DEF LineCoded
  <2>3. word = MachineCode(block)
    <3>1. WordAt(Address(l) + 4 * (1 - 1)) = MachineCode(block) /\ Address(l) \in Nat
      BY <1>1, <2>1, LineInMemory
    <3> QED BY <3>1
  <2> HIDE DEF line, block, word
  <2>4. /\ block.opcode = line.opcode /\ line.opcode \in Mnemonic
        /\ block.rd = Operand(line, "rd") /\ block.rs1 = Operand(line, "rs1")
        /\ block.rs2 = Operand(line, "rs2") /\ block.imm = Operand(line, "imm")
        /\ ImmediateAllowed(line.opcode, block.imm) /\ block.imm \in Int
    BY <2>1, <2>2, OperandTypes DEF PlainCoded, IsPlain
  <2> HIDE DEF e
  <2>5. /\ e.type \in {"I1", "S"} => block.imm \in -(2 ^ 11) .. (2 ^ 11 - 1)
        /\ e.type = "I2" => block.imm \in 0 .. 31
        /\ e.type = "B" => block.imm \in -(2 ^ 12) .. (2 ^ 12 - 1) /\ block.imm % 2 = 0
        /\ e.type = "J" => block.imm \in -(2 ^ 20) .. (2 ^ 20 - 1) /\ block.imm % 2 = 0
    BY <2>4, AllowedImmediates, Zenon DEF e
  <2>6. /\ Opcode(word) = e.opcode
        /\ e.type \in {"R", "I1", "I2", "U", "J"} => Rd(word) = Bits(block.rd, 5)
        /\ e.type \in {"R", "I1", "I2", "S", "B"} =>
               Rs1(word) = Bits(block.rs1, 5) /\ Funct3(word) = e.funct3
        /\ e.type \in {"R", "S", "B"} => Rs2(word) = Bits(block.rs2, 5)
        /\ e.type = "R" => Funct7(word) = e.funct7
    BY <2>3, <2>4, <2>5, FieldsDecode DEF e
  <2>7. /\ e.type \in {"I1", "S", "B", "J"} /\ line.opcode # "addiw" =>
               ImmGenerator(word) = Bits(block.imm, 32)
        /\ e.type = "I2" => Field(ImmGenerator(word), 0, 6) = Bits(block.imm, 6)
        /\ e.type = "U" => ImmGenerator(word) = Bits(block.imm, 20)
    <3> DEFINE generated == ImmGenerator(word)
    <3>1. /\ /\ e.type \in {"I1", "S"} /\ line.opcode # "addiw"
             /\ block.imm \in -(2 ^ 11) .. (2 ^ 11 - 1)
             => generated = Bits(block.imm, 32)
          /\ /\ e.type = "B"
             /\ block.imm \in -(2 ^ 12) .. (2 ^ 12 - 1) /\ block.imm % 2 = 0
             => generated = Bits(block.imm, 32)
          /\ /\ e.type = "J"
             /\ block.imm \in -(2 ^ 20) .. (2 ^ 20 - 1) /\ block.imm % 2 = 0
             => generated = Bits(block.imm, 32)
          /\ e.type = "I2" /\ block.imm \in 0 .. 31 => Field(generated, 0, 6) = Bits(block.imm, 6)
          /\ e.type = "U" => generated = Bits(block.imm, 20)
      BY <2>3, <2>4, ImmediateDecodes, Zenon DEF e
    <3> HIDE DEF generated
    <3> QED BY <2>5, <3>1, Zenon DEF generated
  <2>8. /\ e.type \in {"R", "I1", "I2", "S", "B", "U", "J"}
        /\ "rd" \in DOMAIN line => e.type \in {"R", "I1", "I2", "U", "J"}
        /\ "rs1" \in DOMAIN line => e.type \in {"R", "I1", "I2", "S", "B"}
        /\ "rs2" \in DOMAIN line => e.type \in {"R", "S", "B"}
        /\ e.type # "R" => "imm" \in DOMAIN line
    BY <2>1, PlainOperands DEF e
  <2>9. /\ "rd" \in DOMAIN line => block.rd = line.rd
        /\ "rs1" \in DOMAIN line => block.rs1 = line.rs1
        /\ "rs2" \in DOMAIN line => block.rs2 = line.rs2
        /\ "imm" \in DOMAIN line => block.imm = line.imm
    BY <2>4 DEF Operand
  <2>10. /\ Opcode(word) = e.opcode
         /\ "rd" \in DOMAIN line => Rd(word) = Bits(line.rd, 5)
         /\ "rs1" \in DOMAIN line => Rs1(word) = Bits(line.rs1, 5)
         /\ "rs2" \in DOMAIN line => Rs2(word) = Bits(line.rs2, 5)
         /\ e.type \in {"R", "I1", "I2", "S", "B"} => Funct3(word) = e.funct3
         /\ e.type = "R" => Funct7(word) = e.funct7
    BY <2>6, <2>8, <2>9
  <2>11. /\ e.type \in {"I1", "S", "B", "J"} /\ line.opcode # "addiw" =>
                ImmGenerator(word) = Bits(line.imm, 32)
         /\ e.type = "I2" => Field(ImmGenerator(word), 0, 6) = Bits(line.imm, 6)
         /\ e.type = "U" => ImmGenerator(word) = Bits(line.imm, 20)
    BY <2>7, <2>8, <2>9
  <2> QED BY <2>10, <2>11 DEF line, word, e
<1> QED BY <1>1, TextLoadedAlways, PTL

-----------------------------------------------------------------------------
(* Numbers loaded by LI. *)

\* What the machine makes of the unit of a line.
LEMMA UnitDecodes ==
    ASSUME NEW block \in UnitType, NEW opcode, NEW rd, NEW rs1, NEW imm \in Int,
           UnitIs(block, opcode, rd, rs1, imm)
    PROVE  /\ opcode \in {"addi", "lw"} /\ imm \in LowRange =>
                  IsLower(MachineCode(block), opcode, rd, rs1, imm)
           /\ opcode \in {"lui", "auipc"} => IsUpper(MachineCode(block), opcode, rd, imm)
<1> DEFINE word == MachineCode(block)
           e == Instruction[opcode]
<1>1. /\ block.opcode = opcode /\ block.rd = rd /\ block.rs1 = rs1 /\ block.imm = imm
      /\ opcode \in Mnemonic /\ block.imm \in Int
  BY DEF UnitType, UnitIs
<1>2. /\ opcode \in {"addi", "lw"} => e.type = "I1" /\ opcode # "addiw"
      /\ opcode \in {"lui", "auipc"} => e.type = "U"
  BY <1>1, Types
<1>3. /\ /\ e.type \in {"I1", "S"} /\ opcode # "addiw"
         /\ imm \in -(2 ^ 11) .. (2 ^ 11 - 1)
         => ImmGenerator(word) = Bits(imm, 32)
      /\ e.type = "U" => ImmGenerator(word) = Bits(imm, 20)
  BY <1>1, ImmediateDecodes, Zenon
<1>4. e.type # "I2" =>
          /\ Opcode(word) = e.opcode
          /\ e.type \in {"R", "I1", "I2", "U", "J"} => Rd(word) = Bits(rd, 5)
          /\ e.type \in {"R", "I1", "I2", "S", "B"} =>
                 Rs1(word) = Bits(rs1, 5) /\ Funct3(word) = e.funct3
  BY <1>1, FieldsDecode, Zenon
<1>5. imm \in LowRange => imm \in -(2 ^ 11) .. (2 ^ 11 - 1)
  <2>1. LowSize \in Nat /\ LowSize % 2 = 0 /\ LowSize <= 2 ^ 12
    BY AssemblerAssumption, ReachAssumption
  <2> QED BY <2>1, SMT DEF LowRange
<1> HIDE DEF word
<1>6. ASSUME opcode \in {"addi", "lw"}, imm \in LowRange
      PROVE  IsLower(word, opcode, rd, rs1, imm)
  BY <1>2, <1>3, <1>4, <1>5, <1>6 DEF IsLower
<1>7. ASSUME opcode \in {"lui", "auipc"} PROVE IsUpper(word, opcode, rd, imm)
  BY <1>2, <1>3, <1>4, <1>7 DEF IsUpper
<1> QED BY <1>6, <1>7 DEF word

\* The high part of a number that LI loads is within reach.
LEMMA HighInReach ==
    ASSUME NEW value \in Int, value >= -WordReach, value < WordReach - LowSize \div 2
    PROVE  High(value) \in -WordReach .. WordReach
<1> DEFINE h == LowSize \div 2
           q == (value + h) \div LowSize
<1>1. LowSize \in Nat /\ LowSize > 0 /\ h \in Nat /\ WordReach \in Nat
  BY AssemblerAssumption
<1>2. q \in Int /\ q * LowSize <= value + h /\ value + h < q * LowSize + LowSize
  BY <1>1
<1> HIDE DEF q, h
<1>3. q * LowSize \in Int
  BY <1>1, <1>2
<1>4. q <= WordReach
  <2>1. SUFFICES ASSUME q > WordReach PROVE FALSE
    BY <1>1, <1>2
  <2>2. q * LowSize >= q
    BY <1>1, <1>2, <2>1
  <2>3. value + h < WordReach
    BY <1>1 DEF h
  <2> QED BY <1>1, <1>2, <1>3, <2>1, <2>2, <2>3
<1>5. q >= -WordReach
  <2>1. SUFFICES ASSUME q + 1 <= -WordReach PROVE FALSE
    BY <1>1, <1>2
  <2>2. (q + 1) * LowSize <= q + 1
    <3>1. -(q + 1) \in Nat
      BY <1>1, <1>2, <2>1
    <3>2. (-(q + 1)) * LowSize >= -(q + 1)
      BY <1>1, <3>1
    <3> QED BY <1>1, <1>2, <3>2
  <2>3. (q + 1) * LowSize = q * LowSize + LowSize
    BY <1>1, <1>2
  <2> QED BY <1>1, <1>2, <1>3, <2>1, <2>2, <2>3
<1> QED BY <1>1, <1>2, <1>4, <1>5 DEF High, q, h

\* LI leaves its number in the register, in each of its three forms.
THEOREM AlwaysLiLoads ==
    ASSUME SourcesFit
    PROVE  Spec => []LiLoads
<1>1. ASSUME TextLoaded PROVE LiLoads
  <2> SUFFICES ASSUME phase = "loaded", NEW l \in Lines,
                      Line(l).opcode = "li", Line(l).imm < WordReach - LowSize \div 2
               PROVE  \E high \in -WordReach .. WordReach, low \in LowRange :
                          /\ Line(l).imm = high * LowSize + low
                          /\ IF Line(l).imm \in LowRange
                             THEN IsLower(WordAt(Address(l)), "addi", Line(l).rd, 0, low)
                             ELSE /\ IsUpper(WordAt(Address(l)), "lui", Line(l).rd, high)
                                  /\ low # 0 => IsLower(WordAt(Address(l) + 4), "addi",
                                                        Line(l).rd, Line(l).rd, low)
    BY DEF LiLoads
  <2> DEFINE line == Line(l)
             imm == line.imm
             first == intermediate_code_[Place(l) + 1]
             second == intermediate_code_[Place(l) + 2]
  <2>1. /\ line \in TextLine /\ imm \in Int /\ Length(line) \in {1, 2}
        /\ Length(line) = IF imm \notin LowRange /\ imm % LowSize # 0 THEN 2 ELSE 1
        /\ LiCoded(line, first, second)
        /\ Address(l) \in Nat
    BY <1>1, LineInMemory, LineLengths, LineForms DEF LineCoded
  <2>2. first \in UnitType /\ WordAt(Address(l)) = MachineCode(first)
    <3>1. 1 \in 1 .. Length(line)
      BY <2>1
    <3>2. first \in UnitType /\ WordAt(Address(l) + 4 * (1 - 1)) = MachineCode(first)
      BY <1>1, <3>1, LineInMemory
    <3>3. Address(l) + 4 * (1 - 1) = Address(l)
      BY <2>1
    <3> QED BY <3>2, <3>3
  <2>3. Length(line) = 2 =>
            second \in UnitType /\ WordAt(Address(l) + 4) = MachineCode(second)
    <3>1. SUFFICES ASSUME Length(line) = 2
                   PROVE  second \in UnitType
                          /\ WordAt(Address(l) + 4) = MachineCode(second)
      OBVIOUS
    <3>2. second \in UnitType /\ WordAt(Address(l) + 4 * (2 - 1)) = MachineCode(second)
      BY <1>1, <3>1, LineInMemory
    <3>3. Address(l) + 4 * (2 - 1) = Address(l) + 4
      BY <2>1
    <3> QED BY <3>2, <3>3
  <2>4. /\ LowSize \in Nat /\ LowSize > 0 /\ LowSize % 2 = 0
        /\ WordReach \in Nat
    BY AssemblerAssumption
  <2> HIDE DEF line, imm, first, second
  <2>5. CASE imm \in LowRange
    <3>1. UnitIs(first, "addi", line.rd, 0, imm)
      BY <2>1, <2>5 DEF LiCoded, imm, line
    <3>2. IsLower(WordAt(Address(l)), "addi", line.rd, 0, imm)
      BY <2>1, <2>2, <2>5, <3>1, UnitDecodes
    <3>3. 0 \in -WordReach .. WordReach /\ imm = 0 * LowSize + imm
      BY <2>1, <2>4
    <3> QED BY <2>5, <3>2, <3>3 DEF imm, line
  <2>6. CASE imm \notin LowRange
    <3>1. /\ imm \in -WordReach .. (WordReach - 1)
          /\ UnitIs(first, "lui", line.rd, 0, High(imm))
          /\ Low(imm) # 0 => UnitIs(second, "addi", line.rd, line.rd, Low(imm))
      BY <2>1, <2>6 DEF LiCoded, imm, line
    <3>2. /\ High(imm) \in Int /\ Low(imm) \in Int /\ imm = High(imm) * LowSize + Low(imm)
          /\ Low(imm) \in LowRange
      BY <2>1, PartTypes
    <3>3. High(imm) \in -WordReach .. WordReach
      <4>1. imm >= -WordReach /\ imm < WordReach - LowSize \div 2
        BY <2>1, <2>4, <3>1 DEF imm, line
      <4> QED BY <2>1, <4>1, HighInReach
    <3>4. IsUpper(WordAt(Address(l)), "lui", line.rd, High(imm))
      BY <2>2, <3>1, <3>2, UnitDecodes
    <3>5. Low(imm) # 0 =>
              IsLower(WordAt(Address(l) + 4), "addi", line.rd, line.rd, Low(imm))
      BY <2>1, <2>3, <2>6, <3>1, <3>2, LowZero, UnitDecodes
    <3> HIDE DEF imm
    <3> QED BY <2>6, <3>2, <3>3, <3>4, <3>5 DEF imm, line
  <2> QED BY <2>5, <2>6
<1> QED BY <1>1, TextLoadedAlways, PTL

-----------------------------------------------------------------------------
(* Branches and jumps to labels. *)

\* What the machine makes of a reference.
LEMMA ReferenceDecodes ==
    ASSUME NEW block \in UnitType, NEW imm \in Int, block.imm = imm, imm % 2 = 0,
           block.opcode \in {"beq", "jal"}, InReach(block.opcode, imm)
    PROVE  ImmGenerator(MachineCode(block)) = Bits(imm, 32)
<1> DEFINE word == MachineCode(block)
           type == Instruction[block.opcode].type
<1>1. block.opcode \in Mnemonic /\ block.imm \in Int
  BY DEF UnitType
<1>2. /\ /\ type = "B"
         /\ block.imm \in -(2 ^ 12) .. (2 ^ 12 - 1) /\ block.imm % 2 = 0
         => ImmGenerator(word) = Bits(block.imm, 32)
      /\ /\ type = "J"
         /\ block.imm \in -(2 ^ 20) .. (2 ^ 20 - 1) /\ block.imm % 2 = 0
         => ImmGenerator(word) = Bits(block.imm, 32)
  BY <1>1, ImmediateDecodes, Zenon
<1>3. /\ block.opcode = "beq" => type = "B"
      /\ block.opcode = "jal" => type = "J"
  BY <1>1, Types
<1>4. OfType({"B"}) = {"beq"}
  BY Mnemonics, Types DEF OfType
<1>5. /\ BranchReach \in Nat /\ BranchReach <= 2 ^ 12
      /\ JumpReach \in Nat /\ JumpReach <= 2 ^ 20
  BY AssemblerAssumption, ReachAssumption, Zenon
<1>6. block.opcode = "beq" => imm \in -(2 ^ 12) .. (2 ^ 12 - 1)
  <2>1. SUFFICES ASSUME imm \in -BranchReach .. (BranchReach - 1)
                 PROVE  imm \in -(2 ^ 12) .. (2 ^ 12 - 1)
    BY <1>4 DEF InReach, Reach
  <2> QED BY <1>5, <2>1, SMT
<1>7. block.opcode = "jal" => imm \in -(2 ^ 20) .. (2 ^ 20 - 1)
  <2>1. SUFFICES ASSUME imm \in -JumpReach .. (JumpReach - 1)
                 PROVE  imm \in -(2 ^ 20) .. (2 ^ 20 - 1)
    BY <1>4 DEF InReach, Reach
  <2> QED BY <1>5, <2>1, SMT
<1> HIDE DEF word, type
<1> QED BY <1>2, <1>3, <1>6, <1>7, Zenon DEF word

\* Every branch and every jump to a label of the text goes to the instruction the
\* label stands before; one to a label that is declared nowhere is not loaded.
THEOREM ReferencesAlwaysResolve ==
    ASSUME SourcesFit
    PROVE  Spec => []ReferencesResolve
<1>1. ASSUME TextLoaded PROVE ReferencesResolve
  <2> SUFFICES ASSUME phase = "loaded", NEW l \in Lines, NamesText(Line(l))
               PROVE  LET targets == {k \in Lines : Line(k).opcode = "label"
                                                    /\ Line(k).label = Line(l).label}
                      IN  IF targets = {}
                          THEN Line(l).opcode = "jal" /\ Known(Line(l).label, TRUE)
                          ELSE \A k \in targets :
                                   Imm(Address(l)) = Bits(Address(k) - Address(l), 32)
    BY DEF ReferencesResolve
  <2> DEFINE line == Line(l)
             first == intermediate_code_[Place(l) + 1]
             targets == {k \in Lines : Line(k).opcode = "label" /\ Line(k).label = line.label}
  <2>1. /\ line \in TextLine /\ IsReference(line) /\ Length(line) = 1
        /\ line.opcode \in {"beq", "jal"}
        /\ LineCoded(l) /\ Place(l) \in Nat /\ Address(l) = 4 * Place(l)
    BY <1>1, LineInMemory, LineLengths, LineCases DEF IsReference
  <2>2. first \in UnitType /\ Imm(Address(l)) = ImmGenerator(MachineCode(first))
    <3>1. first \in UnitType /\ WordAt(Address(l) + 4 * (1 - 1)) = MachineCode(first)
      BY <1>1, <2>1, LineInMemory
    <3>2. Address(l) + 4 * (1 - 1) = Address(l)
      BY <2>1
    <3> QED BY <3>1, <3>2 DEF Imm
  <2>3. first.opcode = line.opcode /\ first.label = line.label
    BY <2>1 DEF LineCoded, ReferenceNamed
  <2>4. Linked(first, Place(l), symbol_table_)
    <3>1. Pending = {}
      BY DEF Pending
    <3> QED BY <2>1, <3>1 DEF LineCoded
  <2>5. /\ Coded /\ Reached = Len(source.text) + 1
        /\ \A n \in DOMAIN symbol_table_ : symbol_table_[n] \in SymbolType
    BY <1>1 DEF TextLoaded, CodeInv, HasCode, Reached, ImageTypes, TableTypes
  <2> HIDE DEF line, first
  <2>6. CASE targets = {}
    <3>1. line.label \in DOMAIN symbol_table_
      BY <2>3, <2>4 DEF Linked
    <3>2. symbol_table_[line.label].isData
      <4>1. SUFFICES ASSUME ~symbol_table_[line.label].isData PROVE FALSE
        OBVIOUS
      <4>2. PICK k \in 1 .. (Reached - 1) : Line(k).opcode = "label" /\ Line(k).label = line.label
        BY <2>5, <3>1, <4>1 DEF Coded
      <4>3. k \in Lines
        BY <1>1, <2>5, TokenTypes DEF Lines, TextLoaded, ImageTypes
      <4> QED BY <2>6, <4>2, <4>3
    <3>3. OfType({"B"}) = {"beq"}
      BY Mnemonics, Types DEF OfType
    <3>4. line.opcode = "jal"
      BY <2>1, <2>3, <2>4, <3>2, <3>3 DEF Linked
    <3>5. symbol_table_[line.label].isData = TRUE
      BY <2>5, <3>1, <3>2 DEF SymbolType
    <3> QED BY <2>6, <3>1, <3>4, <3>5 DEF Known, line
  <2>7. ASSUME NEW k \in targets PROVE Imm(Address(l)) = Bits(Address(k) - Address(l), 32)
    <3>1. k \in Lines /\ Line(k).opcode = "label" /\ Line(k).label = line.label
      OBVIOUS
    <3>2. LineCoded(k) /\ Place(k) \in Nat /\ Address(k) = 4 * Place(k)
      BY <1>1, <3>1, LineInMemory
    <3>3. symbol_table_[line.label] = [address |-> 4 * Place(k), isData |-> FALSE]
      BY <3>1, <3>2 DEF LineCoded, LabelCoded
    <3>4. first.imm = 4 * Place(k) - Place(l) * 4 /\ InReach(first.opcode, first.imm)
      BY <2>3, <2>4, <3>3 DEF Linked
    <3>5. /\ Address(k) - Address(l) = first.imm
          /\ first.imm \in Int /\ first.imm % 2 = 0
      BY <2>1, <3>2, <3>4
    <3> QED BY <2>1, <2>2, <2>3, <3>4, <3>5, ReferenceDecodes
  <2> HIDE DEF targets
  <2> QED BY <2>6, <2>7 DEF targets, line
<1> QED BY <1>1, TextLoadedAlways, PTL

-----------------------------------------------------------------------------
(* Breakpoints on lines. *)

\* Max is the element that no other exceeds.
LEMMA MaxIs ==
    ASSUME NEW S \in SUBSET Int, NEW m \in S, \A x \in S : x <= m
    PROVE  Max(S) = m
<1>1. Max(S) \in S /\ \A y \in S : Max(S) >= y
  BY Zenon DEF Max, >=
<1>2. m \in Int /\ Max(S) \in Int /\ m <= Max(S) /\ Max(S) <= m
  BY <1>1
<1> QED BY <1>2

\* Min is the element that exceeds no other.
LEMMA MinIs ==
    ASSUME NEW S \in SUBSET Int, NEW m \in S, \A x \in S : m <= x
    PROVE  Min(S) = m
<1>1. Min(S) \in S /\ \A y \in S : Min(S) <= y
  BY Zenon DEF Min
<1>2. m \in Int /\ Min(S) \in Int /\ m <= Min(S) /\ Min(S) <= m
  BY <1>1
<1> QED BY <1>2

\* A set of natural numbers that is not empty has a least element.
LEMMA LeastIndex ==
    ASSUME NEW S \in SUBSET Nat, S # {}
    PROVE  \E m \in S : \A k \in S : m <= k
<1>1. PICK m \in S : \A k \in S : <<k, m>> \notin OpToRel(<, Nat)
  BY NatLessThanWellFounded, WFMin, Zenon
<1>2. \A k \in S : ~(k < m)
  BY <1>1 DEF OpToRel
<1> QED BY <1>2

\* Every instruction before a line belongs to one of the lines before it.
LEMMA InstructionsOfLines ==
    \A l \in Nat \ {0} : \A i \in 1 .. Place(l) :
        \E k \in 1 .. (l - 1) : i > Place(k) /\ i <= Place(k) + Length(Line(k))
<1> DEFINE Owned(l) == \A i \in 1 .. Place(l) :
               \E k \in 1 .. (l - 1) : i > Place(k) /\ i <= Place(k) + Length(Line(k))
           S == {n \in Nat : n # 0 => Owned(n)}
<1>1. ASSUME NEW n \in S PROVE n + 1 \in S
  <2>1. CASE n = 0
    BY <2>1, PlaceSteps
  <2>2. CASE n # 0
    <3>1. /\ Place(n) \in Nat /\ Length(Line(n)) \in {0, 1, 2}
          /\ Place(n + 1) = Place(n) + Length(Line(n))
      BY <2>2, PlaceSteps, LengthCases
    <3>2. Owned(n)
      BY <2>2
    <3> HIDE DEF S
    <3>3. ASSUME NEW i \in 1 .. Place(n + 1)
          PROVE  \E k \in 1 .. ((n + 1) - 1) : i > Place(k) /\ i <= Place(k) + Length(Line(k))
      <4>1. CASE i <= Place(n)
        <5>1. i \in 1 .. Place(n)
          BY <3>1, <4>1
        <5>2. PICK k \in 1 .. (n - 1) : i > Place(k) /\ i <= Place(k) + Length(Line(k))
          BY <3>2, <5>1
        <5>3. k \in 1 .. ((n + 1) - 1)
          BY <2>2 DEF S
        <5> QED BY <5>2, <5>3
      <4>2. CASE i > Place(n)
        <5>1. n \in 1 .. ((n + 1) - 1) /\ i <= Place(n) + Length(Line(n))
          BY <2>2, <3>1, <4>2 DEF S
        <5> QED BY <4>2, <5>1
      <4> QED BY <3>1, <4>1, <4>2
    <3> QED BY <3>3 DEF S
  <2> QED BY <2>1, <2>2
<1>2. 0 \in S
  OBVIOUS
<1> HIDE DEF S
<1>3. \A n \in Nat : n \in S
  BY <1>1, <1>2, SetInduction DEF S
<1> QED BY <1>3 DEF S

\* The lines of the instructions in a program that is loaded.
LEMMA InstructionLines ==
    ASSUME TextLoaded, phase = "loaded"
    PROVE  LET n == Len(intermediate_code_)
               line(i) == intermediate_code_[i].line
           IN  /\ n \in Nat /\ Len(source.data) \in Nat
               /\ \A i \in 1 .. n :
                      \E k \in Lines :
                          /\ i > Place(k) /\ i <= Place(k) + Length(Line(k))
                          /\ line(i) = Len(source.data) + k
               /\ \A k \in Lines :
                      \A i \in (Place(k) + 1) .. (Place(k) + Length(Line(k))) :
                          i \in 1 .. n /\ line(i) = Len(source.data) + k
<1> DEFINE n == Len(intermediate_code_)
<1>1. ImageTypes /\ Coded /\ Reached = Len(source.text) + 1
  BY DEF TextLoaded, CodeInv, HasCode, Reached
<1>2. n \in Nat /\ Len(source.text) \in Nat /\ Len(source.data) \in Nat
  BY <1>1, CodeOpcodes, TokenTypes DEF ImageTypes
<1>3. n = Place(Len(source.text) + 1)
  BY <1>1 DEF Coded
<1>4. ASSUME NEW k \in Lines, NEW i \in (Place(k) + 1) .. (Place(k) + Length(Line(k)))
      PROVE  i \in 1 .. n /\ intermediate_code_[i].line = Len(source.data) + k
  <2>1. LineCoded(k) /\ Place(k) \in Nat /\ Length(Line(k)) \in {0, 1, 2}
    BY LineInMemory, LengthCases
  <2>2. /\ Place(k) + Length(Line(k)) <= n
        /\ \A j \in 1 .. Length(Line(k)) :
               intermediate_code_[Place(k) + j].line = Len(source.data) + k
    BY <2>1 DEF LineCoded
  <2>3. i - Place(k) \in 1 .. Length(Line(k)) /\ Place(k) + (i - Place(k)) = i /\ i \in 1 .. n
    BY <1>2, <2>1, <2>2
  <2> QED BY <2>2, <2>3
<1>5. ASSUME NEW i \in 1 .. n
      PROVE  \E k \in Lines : /\ i > Place(k) /\ i <= Place(k) + Length(Line(k))
                              /\ intermediate_code_[i].line = Len(source.data) + k
  <2>1. Len(source.text) + 1 \in Nat \ {0} /\ (Len(source.text) + 1) - 1 = Len(source.text)
    BY <1>2
  <2>2. PICK k \in 1 .. Len(source.text) : i > Place(k) /\ i <= Place(k) + Length(Line(k))
    BY <1>3, <2>1, InstructionsOfLines
  <2>3. k \in Lines
    BY <2>2 DEF Lines
  <2>4. Place(k) \in Nat /\ Length(Line(k)) \in {0, 1, 2}
    BY <2>3, LineInMemory, LengthCases
  <2>5. i \in (Place(k) + 1) .. (Place(k) + Length(Line(k)))
    BY <1>2, <2>2, <2>4
  <2> QED BY <1>4, <2>2, <2>3, <2>5
<1> QED BY <1>2, <1>4, <1>5

\* A breakpoint on a line stops at its first instruction, or at that of the next
\* line that has one.
THEOREM BreakpointsOnLines ==
    ASSUME SourcesFit
    PROVE  Spec => []BreakpointLines
<1>1. ASSUME TextLoaded PROVE BreakpointLines
  <2> DEFINE coded == {k \in Lines : Length(Line(k)) > 0}
             number(k) == Len(source.data) + k
             n == Len(intermediate_code_)
             line(i) == intermediate_code_[i].line
             after(i) == IF i = 1 THEN 1 ELSE line(i - 1) + 1
             covered == UNION {after(i) .. line(i) : i \in 1 .. n}
             first(x) == {i \in 1 .. n : x \in after(i) .. line(i)}
  <2> SUFFICES ASSUME phase = "loaded"
               PROVE  /\ DOMAIN LineMapping = UNION {1 .. number(k) : k \in coded}
                      /\ \A x \in DOMAIN LineMapping :
                             LineMapping[x] * 4
                                 = Min({Address(k) : k \in {j \in coded : number(j) >= x}})
    BY DEF BreakpointLines
  <2>1. LineMapping = [x \in covered |-> Max(first(x)) - 1]
    BY DEF LineMapping, instruction_index_
  <2>2. /\ n \in Nat /\ Len(source.data) \in Nat /\ Len(source.text) \in Nat
        /\ \A i \in 1 .. n : \E k \in Lines : /\ i > Place(k) /\ i <= Place(k) + Length(Line(k))
                                              /\ line(i) = number(k)
        /\ \A k \in Lines : \A i \in (Place(k) + 1) .. (Place(k) + Length(Line(k))) :
               i \in 1 .. n /\ line(i) = number(k)
    BY <1>1, InstructionLines, TokenTypes DEF TextLoaded, ImageTypes
  <2>3. \A k \in Lines : /\ k \in Nat \ {0} /\ number(k) \in Nat \ {0}
                         /\ Place(k) \in Nat /\ Address(k) = 4 * Place(k)
                         /\ Length(Line(k)) \in Nat
    <3> TAKE k \in Lines
    <3>1. k \in Nat \ {0}
      BY <2>2 DEF Lines
    <3>2. Place(k) \in 0 .. 2 * (k - 1) /\ Address(k) = 4 * Place(k)
      BY <3>1, PlaceSteps
    <3>3. Length(Line(k)) \in Nat
      BY LengthCases
    <3> QED BY <2>2, <3>1, <3>2, <3>3
  <2>0. \A k : number(k) = Len(source.data) + k
    OBVIOUS
  <2>4. \A i \in 1 .. n : line(i) \in Nat \ {0}
    BY <2>2, <2>3
  <2> HIDE DEF line, Lines, number
  <2>5. ASSUME NEW i \in 1 .. n, NEW j \in 1 .. n, i < j PROVE line(i) <= line(j)
    <3>1. PICK k \in Lines : i > Place(k) /\ i <= Place(k) + Length(Line(k)) /\ line(i) = number(k)
      BY <2>2
    <3>2. PICK m \in Lines : j > Place(m) /\ j <= Place(m) + Length(Line(m)) /\ line(j) = number(m)
      BY <2>2
    <3>4. k \in Nat \ {0} /\ Place(k) \in Nat /\ Length(Line(k)) \in Nat
      BY <2>3, <3>1
    <3>5. m \in Nat \ {0} /\ Place(m) \in Nat /\ Length(Line(m)) \in Nat
      BY <2>3, <3>2
    <3>6. line(i) = Len(source.data) + k /\ line(j) = Len(source.data) + m
      BY <2>0, <3>1, <3>2
    <3>7. i \in Int /\ j \in Int /\ Len(source.data) \in Nat
      BY <2>2
    <3>3. ~(m < k)
      <4>1. SUFFICES ASSUME m < k PROVE FALSE
        OBVIOUS
      <4>2. Place(m) + Length(Line(m)) <= Place(k)
        BY <3>4, <3>5, <4>1, PlacesGrow
      <4> QED BY <2>5, <3>1, <3>2, <3>4, <3>5, <3>7, <4>2
    <3> QED BY <3>3, <3>4, <3>5, <3>6, <3>7
  <2>6. ASSUME NEW x \in Nat \ {0}, NEW k \in coded, number(k) >= x
        PROVE  \E i \in 1 .. n : /\ first(x) = {i}
                                 /\ (i - 1) * 4 = Min({Address(j) : j \in {j \in coded : number(j) >= x}})
    <3> DEFINE S == {i \in 1 .. n : line(i) >= x}
               T == {Address(j) : j \in {j \in coded : number(j) >= x}}
    <3>1. \A j \in coded : number(j) >= x => Place(j) + 1 \in S
      <4> TAKE j \in coded
      <4>1. Place(j) + 1 \in (Place(j) + 1) .. (Place(j) + Length(Line(j)))
        BY <2>3
      <4> QED BY <2>2, <4>1
    <3>2. S # {} /\ S \in SUBSET Nat
      BY <2>2, <2>6, <3>1
    <3>3. PICK i \in S : \A m \in S : i <= m
      BY <3>2, LeastIndex
    <3>4. i \in 1 .. n /\ line(i) >= x
      OBVIOUS
    <3>5. \A m \in 1 .. n : m < i => line(m) < x
      BY <2>2, <2>4, <3>3, <3>4
    <3>6. x \in after(i) .. line(i)
      <4>1. i # 1 => line(i - 1) < x /\ line(i - 1) \in Nat
        BY <2>2, <2>4, <3>4, <3>5
      <4> QED BY <2>4, <3>4, <4>1
    <3>7. ASSUME NEW m \in 1 .. n, x \in after(m) .. line(m) PROVE m = i
      <4>1. line(m) >= x
        BY <2>4, <3>7
      <4>2. ~(m < i)
        BY <2>4, <3>5, <4>1
      <4>3. ~(m > i)
        <5>1. SUFFICES ASSUME m > i PROVE FALSE
          OBVIOUS
        <5>2. m - 1 \in 1 .. n /\ m # 1 /\ (i = m - 1 \/ i < m - 1)
          BY <2>2, <3>4, <5>1
        <5>3. line(i) <= line(m - 1)
          BY <2>4, <2>5, <3>4, <5>2
        <5>4. after(m) > line(i)
          BY <2>4, <3>4, <5>2, <5>3
        <5> QED BY <2>4, <3>4, <3>7, <5>2, <5>4
      <4> QED BY <2>2, <3>4, <4>2, <4>3
    <3>8. first(x) = {i}
      BY <3>4, <3>6, <3>7
    <3>9. PICK o \in Lines : i > Place(o) /\ i <= Place(o) + Length(Line(o)) /\ line(i) = number(o)
      BY <2>2, <3>4
    <3>10. o \in coded /\ number(o) >= x
      BY <2>2, <2>3, <3>4, <3>9
    <3>11. i = Place(o) + 1
      <4>0. Place(o) \in Nat /\ Length(Line(o)) \in Nat /\ i \in Nat
        BY <2>2, <2>3, <3>4
      <4>1. SUFFICES ASSUME i - 1 > Place(o) PROVE FALSE
        BY <3>9, <4>0
      <4>2. i - 1 \in (Place(o) + 1) .. (Place(o) + Length(Line(o)))
        BY <3>9, <4>0, <4>1
      <4>3. i - 1 \in 1 .. n /\ line(i - 1) = number(o)
        BY <2>2, <4>2
      <4>4. i - 1 < i
        BY <2>2, <3>4
      <4> QED BY <2>3, <3>5, <3>9, <3>10, <4>3, <4>4
    <3>12. (i - 1) * 4 \in T
      <4>1. Place(o) \in Nat /\ Address(o) = 4 * Place(o) /\ i = Place(o) + 1
        BY <2>3, <3>9, <3>11
      <4>2. Address(o) = (i - 1) * 4
        BY <4>1
      <4> QED BY <3>10, <4>2
    <3>13. \A a \in T : (i - 1) * 4 <= a
      <4>1. ASSUME NEW j \in coded, number(j) >= x PROVE (i - 1) * 4 <= Address(j)
        <5>1. i <= Place(j) + 1
          BY <3>1, <3>3, <4>1
        <5>2. Place(j) \in Nat /\ Address(j) = 4 * Place(j) /\ i \in Nat
          BY <2>2, <2>3, <3>4
        <5> QED BY <5>1, <5>2
      <4> QED BY <4>1
    <3>14. T \in SUBSET Int
      BY <2>3
    <3> HIDE DEF T
    <3>15. Min(T) = (i - 1) * 4
      BY <3>12, <3>13, <3>14, MinIs
    <3> QED BY <3>4, <3>8, <3>15 DEF T
  <2>7. covered \subseteq UNION {1 .. number(k) : k \in coded}
    <3>1. ASSUME NEW i \in 1 .. n, NEW x \in after(i) .. line(i)
          PROVE  \E k \in coded : x \in 1 .. number(k)
      <4>1. PICK k \in Lines : i > Place(k) /\ i <= Place(k) + Length(Line(k)) /\ line(i) = number(k)
        BY <2>2
      <4>2. k \in coded
        BY <2>2, <2>3, <4>1
      <4>3. i # 1 => line(i - 1) \in Nat
        BY <2>2, <2>4
      <4>4. x \in 1 .. number(k)
        BY <2>3, <4>1, <4>3
      <4> QED BY <4>2, <4>4
    <3> QED BY <3>1
  <2>8. ASSUME NEW k \in coded, NEW x \in 1 .. number(k) PROVE x \in covered
    <3>1. x \in Nat \ {0} /\ number(k) >= x
      BY <2>3
    <3>2. PICK i \in 1 .. n : first(x) = {i}
      BY <2>6, <3>1
    <3>3. x \in after(i) .. line(i)
      BY <3>2
    <3> QED BY <3>3
  <2>9. ASSUME NEW x \in covered
        PROVE  LineMapping[x] * 4 = Min({Address(k) : k \in {j \in coded : number(j) >= x}})
    <3>1. PICK k \in coded : x \in 1 .. number(k)
      BY <2>7
    <3>2. x \in Nat \ {0} /\ number(k) >= x
      BY <2>3, <3>1
    <3>3. PICK i \in 1 .. n : /\ first(x) = {i}
                              /\ (i - 1) * 4
                                     = Min({Address(j) : j \in {j \in coded : number(j) >= x}})
      BY <2>6, <3>2
    <3>4. Max({i}) = i
      <4>1. {i} \in SUBSET Int /\ \A y \in {i} : y <= i
        BY <2>2
      <4> QED BY <4>1, MaxIs
    <3>5. LineMapping[x] = i - 1
      BY <2>1, <3>3, <3>4
    <3> QED BY <3>3, <3>5
  <2>10. DOMAIN LineMapping = covered
    BY <2>1
  <2>11. covered = UNION {1 .. number(k) : k \in coded}
    BY <2>7, <2>8
  <2> QED BY <2>9, <2>10, <2>11 DEF number
<1> QED BY <1>1, TextLoadedAlways, PTL

-----------------------------------------------------------------------------
(* The layout of the data section, which parser and loader compute each for itself. *)

\* Where the values of the data section go, from the start of the section: p[j] is
\* the place of value j.
EndAt(p, buffer, n) == IF n = 0 THEN 0 ELSE p[n] + buffer[n].size

LaidOut(p, buffer) ==
    \A j \in 1 .. Len(buffer) : p[j] = Align(EndAt(p, buffer, j - 1), buffer[j].size)

\* The values of a directive, one after the other from an address.
ValuesAt(p, buffer, address, items) ==
    \E b \in Nat :
        /\ b + Len(items) <= Len(buffer)
        /\ \A i \in 1 .. Len(items) :
               buffer[b + i] = items[i] /\ p[b + i] = address + (i - 1) * items[i].size

IsLabel(data, d) == data[d].kind = "label"

DataDone == IF phase = "data" THEN pos_ - 1 ELSE Len(source.data)

\* The label before token done + 1 has been aligned already.
IndexAt(data, p, buffer, done, index) ==
    index = IF done > 0 /\ IsLabel(data, done)
            THEN Align(EndAt(p, buffer, Len(buffer)), DirectiveSize[data[done + 1].kind])
            ELSE EndAt(p, buffer, Len(buffer))

LastOfName(data, d, done) ==
    \A e \in (d + 1) .. done : IsLabel(data, e) => data[e].name # data[d].name

KnownAt(data, p, buffer, table, done, index, d) ==
    LET name == data[d].name
    IN  /\ name \in DOMAIN table /\ table[name].isData
        /\ IF d = done THEN table[name].address = index
           ELSE ValuesAt(p, buffer, table[name].address, Items(data[d + 1]))

LabelsKnown(data, p, buffer, table, done, index) ==
    \A d \in 1 .. done :
        IsLabel(data, d) =>
            /\ d < Len(data) /\ ~IsLabel(data, d + 1)
            /\ LastOfName(data, d, done) => KnownAt(data, p, buffer, table, done, index, d)

LabelsNamed(data, table, done) ==
    \A n \in DOMAIN table :
        table[n].isData => \E d \in 1 .. done : IsLabel(data, d) /\ data[d].name = n

Parsed(data, p, buffer, table, done, index) ==
    /\ LaidOut(p, buffer)
    /\ IndexAt(data, p, buffer, done, index)
    /\ LabelsKnown(data, p, buffer, table, done, index)
    /\ LabelsNamed(data, table, done)

\* What is aligned stays.
LEMMA AlignTwice ==
    ASSUME NEW i \in Nat, NEW size \in Size
    PROVE  /\ Align(Align(i, size), size) = Align(i, size)
           /\ \A k \in Nat : Align(Align(i, size) + k * size, size) = Align(i, size) + k * size
<1> DEFINE a == Align(i, size)
<1>1. a \in Nat /\ a % size = 0
  BY AlignTypes
<1> HIDE DEF a
<1>2. \A k \in Nat : (a + k * size) % size = 0
  BY <1>1 DEF Size
<1> QED BY <1>1, <1>2 DEF Align, a

\* The size, the value and the place of each value.
LEMMA BufferTypes ==
    ASSUME NEW buffer \in Seq(ItemType)
    PROVE  /\ Len(buffer) \in Nat
           /\ \A j \in 1 .. Len(buffer) :
                  /\ buffer[j] \in ItemType /\ buffer[j].size \in Size /\ buffer[j].size \in Nat
                  /\ buffer[j].value \subseteq 0 .. (8 * buffer[j].size - 1)
           /\ \A p \in [Nat -> Nat] : \A n \in 0 .. Len(buffer) : EndAt(p, buffer, n) \in Nat
<1>1. Len(buffer) \in Nat /\ \A j \in 1 .. Len(buffer) : buffer[j] \in ItemType
  BY ElementOfSeq
<1>2. \A item \in ItemType : /\ item.size \in Size /\ item.size \in Nat
                             /\ item.value \subseteq 0 .. (8 * item.size - 1)
  BY DEF ItemType, Size
<1>3. \A p \in [Nat -> Nat] : \A n \in 0 .. Len(buffer) : EndAt(p, buffer, n) \in Nat
  <2> TAKE p \in [Nat -> Nat]
  <2> TAKE n \in 0 .. Len(buffer)
  <2>1. CASE n = 0
    BY <2>1 DEF EndAt
  <2>2. CASE n # 0
    <3>1. p[n] \in Nat /\ buffer[n].size \in Nat
      BY <1>1, <1>2, <2>2
    <3>2. \A x, y \in Nat : x + y \in Nat
      OBVIOUS
    <3> QED BY <2>2, <3>1, <3>2, Zenon DEF EndAt
  <2> QED BY <2>1, <2>2
<1> QED BY <1>1, <1>2, <1>3

\* The counters of the parser are natural numbers.
LEMMA ParserCounters ==
    ASSUME ImageTypes
    PROVE  /\ pos_ \in Nat \ {0} /\ Len(source.data) \in Nat /\ data_index_ \in Nat
           /\ errors_ \in Nat /\ loaded \in Nat /\ data_counter \in Nat
           /\ data_buffer_ \in Seq(ItemType)
<1>1. pos_ \in Nat \ {0} /\ errors_ \in Nat
  BY DEF ImageTypes, SessionTypes
<1>2. Len(source.data) \in Nat
  BY TokenTypes DEF ImageTypes
<1>3. data_index_ \in Nat /\ data_buffer_ \in Seq(ItemType)
  BY DEF ImageTypes, TableTypes
<1>4. loaded \in Nat /\ data_counter \in Nat
  BY DEF ImageTypes, LoaderTypes
<1> QED BY <1>1, <1>2, <1>3, <1>4

\* A label is at the place of the value after it.
LEMMA ParsedLabel ==
    ASSUME ImageTypes, phase = "data", pos_ <= Len(source.data), IsLabel(source.data, pos_),
           ParseDataLabel(source.data[pos_]), errors_' = errors_, UNCHANGED source,
           NEW p \in [Nat -> Nat],
           Parsed(source.data, p, data_buffer_, symbol_table_, pos_ - 1, data_index_)
    PROVE  Parsed(source.data, p, data_buffer_, symbol_table_', pos_, data_index_')
<1> DEFINE token == source.data[pos_]
           next == IF pos_ < Len(source.data) THEN <<source.data[pos_ + 1]>> ELSE <<>>
           done == pos_ - 1
<1>1. pos_ \in Nat \ {0} /\ Len(source.data) \in Nat /\ data_index_ \in Nat /\ errors_ \in Nat
  BY ParserCounters
<1>2. /\ data_index_' = LabelIndex(next)
      /\ symbol_table_' = [n \in DOMAIN symbol_table_ \cup {token.name} |->
                              IF n = token.name THEN [address |-> data_index_', isData |-> TRUE]
                              ELSE symbol_table_[n]]
      /\ next # <<>> /\ next[1].kind \in DOMAIN DirectiveSize
  BY <1>1 DEF ParseDataLabel
<1>3. pos_ < Len(source.data) /\ next[1] = source.data[pos_ + 1]
  BY <1>2
<1>4. ~IsLabel(source.data, pos_ + 1)
  BY <1>2, <1>3 DEF IsLabel, DirectiveSize
<1>5. data_index_' = Align(data_index_, DirectiveSize[source.data[pos_ + 1].kind])
  BY <1>2, <1>3 DEF LabelIndex
<1> HIDE DEF next
<1>6. ~(done > 0 /\ IsLabel(source.data, done))
  <2>1. SUFFICES ASSUME done > 0, IsLabel(source.data, done) PROVE FALSE
    OBVIOUS
  <2>2. done \in 1 .. done /\ done + 1 = pos_
    BY <1>1, <2>1
  <2> HIDE DEF done
  <2>3. ~IsLabel(source.data, done + 1)
    BY <2>1, <2>2 DEF Parsed, LabelsKnown, done
  <2> QED BY <2>2, <2>3
<1>7. data_index_ = EndAt(p, data_buffer_, Len(data_buffer_))
  BY <1>6 DEF Parsed, IndexAt
<1>8. IndexAt(source.data, p, data_buffer_, pos_, data_index_')
  BY <1>1, <1>5, <1>7 DEF IndexAt
<1>9. LabelsNamed(source.data, symbol_table_', pos_)
  <2> SUFFICES ASSUME NEW n \in DOMAIN symbol_table_', symbol_table_'[n].isData
               PROVE  \E d \in 1 .. pos_ : IsLabel(source.data, d) /\ source.data[d].name = n
    BY DEF LabelsNamed
  <2>1. CASE n = token.name
    <3>1. pos_ \in 1 .. pos_
      BY <1>1
    <3> QED BY <2>1, <3>1, Zenon
  <2>2. CASE n # token.name
    <3>1. n \in DOMAIN symbol_table_ /\ symbol_table_[n].isData
      BY <1>2, <2>2
    <3>2. PICK d \in 1 .. (pos_ - 1) : IsLabel(source.data, d) /\ source.data[d].name = n
      BY <3>1 DEF Parsed, LabelsNamed
    <3>3. d \in 1 .. pos_
      BY <1>1
    <3> QED BY <3>2, <3>3, Zenon
  <2> QED BY <2>1, <2>2
<1>10. ASSUME NEW d \in 1 .. pos_, IsLabel(source.data, d)
       PROVE  /\ d < Len(source.data) /\ ~IsLabel(source.data, d + 1)
              /\ LastOfName(source.data, d, pos_) =>
                     KnownAt(source.data, p, data_buffer_, symbol_table_', pos_, data_index_', d)
  <2>1. CASE d = pos_
    <3>1. /\ token.name \in DOMAIN symbol_table_'
          /\ symbol_table_'[token.name] = [address |-> data_index_', isData |-> TRUE]
      BY <1>2
    <3> QED BY <1>3, <1>4, <2>1, <3>1 DEF KnownAt
  <2>2. CASE d # pos_
    <3>0. d \in 1 .. (pos_ - 1)
      BY <1>1, <2>2
    <3>1. d \in 1 .. (pos_ - 1) /\ d # pos_ - 1
      <4>1. CASE d = pos_ - 1
        <5>1. done > 0
          BY <1>1, <3>0, <4>1
        <5> QED BY <1>6, <1>10, <4>1, <5>1, Zenon
      <4> QED BY <3>0, <4>1
    <3>2. /\ d < Len(source.data) /\ ~IsLabel(source.data, d + 1)
          /\ LastOfName(source.data, d, pos_ - 1) =>
                 KnownAt(source.data, p, data_buffer_, symbol_table_, pos_ - 1, data_index_, d)
      BY <1>10, <3>1 DEF Parsed, LabelsKnown
    <3>3. SUFFICES ASSUME LastOfName(source.data, d, pos_)
                   PROVE  KnownAt(source.data, p, data_buffer_, symbol_table_', pos_, data_index_', d)
      BY <3>2
    <3>4. LastOfName(source.data, d, pos_ - 1) /\ source.data[d].name # token.name
      <4>1. \A e \in (d + 1) .. (pos_ - 1) : e \in (d + 1) .. pos_
        BY <1>1, <3>0
      <4>2. pos_ \in (d + 1) .. pos_
        BY <1>1, <3>0
      <4> QED BY <3>3, <4>1, <4>2, Zenon DEF LastOfName
    <3>5. LET name == source.data[d].name
          IN  /\ name \in DOMAIN symbol_table_ /\ symbol_table_[name].isData
              /\ ValuesAt(p, data_buffer_, symbol_table_[name].address, Items(source.data[d + 1]))
      BY <3>1, <3>2, <3>4 DEF KnownAt
    <3>6. symbol_table_'[source.data[d].name] = symbol_table_[source.data[d].name]
          /\ source.data[d].name \in DOMAIN symbol_table_'
      BY <1>2, <3>4, <3>5
    <3> QED BY <2>2, <3>5, <3>6 DEF KnownAt
  <2> QED BY <2>1, <2>2
<1> QED BY <1>8, <1>9, <1>10 DEF Parsed, LabelsKnown

\* The elements of two sequences one after the other.
LEMMA ConcatIs ==
    ASSUME NEW S, NEW s \in Seq(S), NEW t \in Seq(S)
    PROVE  /\ Len(s) \in Nat /\ Len(t) \in Nat
           /\ s \o t \in Seq(S) /\ Len(s \o t) = Len(s) + Len(t)
           /\ \A j \in 1 .. Len(s) : (s \o t)[j] = s[j]
           /\ \A i \in 1 .. Len(t) : (s \o t)[Len(s) + i] = t[i]
  OBVIOUS

\* Values stay where they are when more of them follow.
LEMMA ValuesStay ==
    ASSUME NEW p \in [Nat -> Nat], NEW q \in [Nat -> Nat],
           NEW buffer \in Seq(ItemType), NEW more \in Seq(ItemType),
           \A j \in 1 .. Len(buffer) : q[j] = p[j],
           NEW address \in Nat, NEW items \in Seq(ItemType), ValuesAt(p, buffer, address, items)
    PROVE  ValuesAt(q, buffer \o more, address, items)
<1>1. PICK b \in Nat :
          /\ b + Len(items) <= Len(buffer)
          /\ \A i \in 1 .. Len(items) :
                 buffer[b + i] = items[i] /\ p[b + i] = address + (i - 1) * items[i].size
  BY DEF ValuesAt
<1>2. /\ Len(buffer) \in Nat /\ Len(more) \in Nat /\ Len(items) \in Nat
      /\ Len(buffer \o more) = Len(buffer) + Len(more)
      /\ \A j \in 1 .. Len(buffer) : (buffer \o more)[j] = buffer[j]
  <2>1. Len(items) \in Nat
    OBVIOUS
  <2> QED BY <2>1, ConcatIs, Zenon
<1>3. b + Len(items) <= Len(buffer \o more)
  BY <1>1, <1>2
<1>4. ASSUME NEW i \in 1 .. Len(items)
      PROVE  (buffer \o more)[b + i] = items[i] /\ q[b + i] = address + (i - 1) * items[i].size
  <2>1. b + i \in 1 .. Len(buffer)
    BY <1>1, <1>2
  <2> QED BY <1>1, <1>2, <2>1, Zenon
<1> QED BY <1>3, <1>4, Zenon DEF ValuesAt

\* The values of a directive go one after the other from an aligned place.
Appended(p, n, start, size) == [j \in Nat |-> IF j <= n THEN p[j] ELSE start + ((j - n) - 1) * size]

\* The new values' places, and the old ones.
LEMMA AppendedIs ==
    ASSUME NEW p \in [Nat -> Nat], NEW n \in Nat, NEW start \in Nat, NEW size \in Size
    PROVE  LET q == Appended(p, n, start, size)
           IN  /\ q \in [Nat -> Nat]
               /\ \A j \in Nat : j <= n => q[j] = p[j]
<1> DEFINE q == Appended(p, n, start, size)
<1>1. \A j \in Nat : q[j] = IF j <= n THEN p[j] ELSE start + ((j - n) - 1) * size
  BY DEF Appended
<1>2. \A j \in Nat : (IF j <= n THEN p[j] ELSE start + ((j - n) - 1) * size) \in Nat
  <2> TAKE j \in Nat
  <2>1. CASE j <= n
    BY <2>1
  <2>2. CASE j > n
    <3>1. (j - n) - 1 \in Nat
      BY <2>2
    <3>2. \A k \in Nat : k * size \in Nat /\ start + k * size \in Nat
      BY DEF Size
    <3>3. ~(j <= n) /\ start + ((j - n) - 1) * size \in Nat
      BY <2>2, <3>1, <3>2
    <3> QED BY <3>3
  <2> QED BY <2>1, <2>2
<1>3. q \in [Nat -> Nat]
  BY <1>2 DEF Appended
<1> HIDE DEF q
<1> QED BY <1>1, <1>3 DEF q

\* Arithmetic of indices.
LEMMA Indices == \A n \in Nat : \A i \in 1 .. n : i \in Nat \ {0}
  OBVIOUS

\* The layout after the values of a directive.
LEMMA LaidOutMore ==
    ASSUME NEW p \in [Nat -> Nat], NEW buffer \in Seq(ItemType), LaidOut(p, buffer),
           NEW items \in Seq(ItemType), NEW size \in Size, items # <<>>,
           \A i \in 1 .. Len(items) : items[i].size = size
    PROVE  LET n == Len(buffer)
               start == Align(EndAt(p, buffer, n), size)
               q == Appended(p, n, start, size)
           IN  /\ LaidOut(q, buffer \o items)
               /\ EndAt(q, buffer \o items, Len(buffer \o items)) = start + size * Len(items)
               /\ ValuesAt(q, buffer \o items, start, items)
<1> DEFINE n == Len(buffer)
           m == Len(items)
           start == Align(EndAt(p, buffer, n), size)
           q == Appended(p, n, start, size)
           all == buffer \o items
<1>1. /\ n \in Nat /\ m \in Nat \ {0} /\ Len(all) = n + m
      /\ \A j \in 1 .. n : all[j] = buffer[j]
      /\ \A i \in 1 .. m : all[n + i] = items[i]
  <2>1. m # 0
    BY EmptySeq
  <2>2. /\ n \in Nat /\ m \in Nat /\ Len(all) = n + m
        /\ \A j \in 1 .. n : all[j] = buffer[j]
        /\ \A i \in 1 .. m : all[n + i] = items[i]
    <3> HIDE DEF m, n, all
    <3>1. n \in Nat /\ m \in Nat /\ Len(all) = n + m
      BY ConcatIs, Zenon DEF m, n, all
    <3>2. \A j \in 1 .. n : all[j] = buffer[j]
      BY ConcatIs, Zenon DEF n, all
    <3>3. \A i \in 1 .. m : all[n + i] = items[i]
      BY ConcatIs DEF m, n, all
    <3> QED BY <3>1, <3>2, <3>3
  <2> QED BY <2>1, <2>2
<1>2. EndAt(p, buffer, n) \in Nat
  <2>1. n \in 0 .. n
    BY <1>1
  <2> QED BY <2>1, BufferTypes, Zenon
<1>3. start \in Nat /\ start % size = 0
  BY <1>2, AlignTypes
<1> HIDE DEF start
<1>4. /\ q \in [Nat -> Nat]
      /\ \A j \in Nat : j <= n => q[j] = p[j]
      /\ \A i \in Nat \ {0} : q[n + i] = start + (i - 1) * size
  <2>1. n \in Nat /\ start \in Nat
    BY <1>1, <1>3
  <2> HIDE DEF n
  <2>2. q \in [Nat -> Nat]
    BY <2>1, AppendedIs, Zenon
  <2>3. \A j \in Nat : j <= n => q[j] = p[j]
    BY <2>1, AppendedIs, Zenon
  <2>4. \A i \in Nat \ {0} : q[n + i] = start + (i - 1) * size
    <3> TAKE i \in Nat \ {0}
    <3>1. \A j \in Nat : q[j] = IF j <= n THEN p[j] ELSE start + ((j - n) - 1) * size
      BY DEF Appended
    <3> HIDE DEF q
    <3>2. n + i \in Nat /\ ~(n + i <= n) /\ ((n + i) - n) - 1 = i - 1
      BY <2>1
    <3> QED BY <3>1, <3>2
  <2> HIDE DEF q
  <2> QED BY <2>2, <2>3, <2>4
<1>5. /\ size \in Nat /\ \A k \in Nat : start + k * size \in Nat
      /\ \A k \in Nat : Align(start + k * size, size) = start + k * size
  <2>1. \A k \in Nat : k * size \in Nat
    BY DEF Size
  <2>2. size \in Nat /\ \A k \in Nat : start + k * size \in Nat
    BY <1>3, <2>1 DEF Size
  <2> QED BY <1>2, <2>2, AlignTwice DEF start
<1> HIDE DEF q, all, start, n, m
<1>6. \A j \in 1 .. n : q[j] = Align(EndAt(q, all, j - 1), all[j].size)
  <2> TAKE j \in 1 .. n
  <2>1. p[j] = Align(EndAt(p, buffer, j - 1), buffer[j].size)
    BY DEF LaidOut, n
  <2>2. EndAt(q, all, j - 1) = EndAt(p, buffer, j - 1)
    <3>1. CASE j = 1
      BY <3>1 DEF EndAt
    <3>2. CASE j # 1
      <4>1. j - 1 \in 1 .. n /\ j - 1 \in Nat /\ j - 1 <= n
        BY <1>1, <3>2
      <4> QED BY <1>1, <1>4, <4>1, Zenon DEF EndAt
    <3> QED BY <3>1, <3>2
  <2>3. j \in Nat /\ j <= n
    BY <1>1
  <2> QED BY <1>1, <1>4, <2>1, <2>2, <2>3
<1>7. \A i \in 1 .. m : q[n + i] = Align(EndAt(q, all, (n + i) - 1), all[n + i].size)
  <2> TAKE i \in 1 .. m
  <2>1. all[n + i].size = size /\ q[n + i] = start + (i - 1) * size /\ i \in Nat \ {0}
    <3>1. i \in Nat \ {0}
      BY <1>1
    <3> QED BY <1>1, <1>4, <3>1, Zenon DEF m
  <2>2. CASE i = 1
    <3>1. (n + i) - 1 = n /\ q[n + i] = start
      BY <1>1, <1>3, <1>5, <2>1, <2>2
    <3>2. EndAt(q, all, n) = EndAt(p, buffer, n)
      <4>1. CASE n = 0
        BY <4>1 DEF EndAt
      <4>2. CASE n # 0
        <5>1. n \in Nat
          BY <1>1
        <5>2. n \in 1 .. n /\ n <= n
          BY <4>2, <5>1
        <5> QED BY <1>1, <1>4, <5>2, Zenon DEF EndAt
      <4> QED BY <4>1, <4>2
    <3> QED BY <2>1, <3>1, <3>2 DEF start
  <2>3. CASE i # 1
    <3>1. /\ i - 1 \in Nat \ {0} /\ i - 1 \in 1 .. m /\ (n + i) - 1 = n + (i - 1)
          /\ n + (i - 1) # 0 /\ (i - 1) - 1 \in Nat
      BY <1>1, <2>3
    <3>2. q[n + (i - 1)] = start + ((i - 1) - 1) * size
      BY <1>4, <3>1, Zenon
    <3>3. all[n + (i - 1)].size = size
      BY <1>1, <3>1 DEF m
    <3>4. EndAt(q, all, (n + i) - 1) = (start + ((i - 1) - 1) * size) + size
      BY <3>1, <3>2, <3>3, Zenon DEF EndAt
    <3>5. (start + ((i - 1) - 1) * size) + size = start + (i - 1) * size
      <4>1. \A k \in Nat : (k - 1) * size + size = k * size /\ (k - 1) * size \in Int
        BY DEF Size
      <4>2. i - 1 \in Nat /\ (i - 1) * size \in Nat
        BY <1>5, <3>1
      <4> HIDE DEF start
      <4>3. ((i - 1) - 1) * size + size = (i - 1) * size /\ ((i - 1) - 1) * size \in Int
        BY <4>1, <4>2, Zenon
      <4>4. \A x, y, z \in Int : x + y = z => (start + x) + y = start + z
        BY <1>3
      <4>5. size \in Int /\ (i - 1) * size \in Int
        BY <1>5, <4>2
      <4> QED BY <4>3, <4>4, <4>5, Zenon
    <3> QED BY <1>5, <2>1, <3>1, <3>4, <3>5
  <2> QED BY <2>2, <2>3
<1>8. LaidOut(q, all)
  <2> SUFFICES ASSUME NEW j \in 1 .. Len(all)
               PROVE  q[j] = Align(EndAt(q, all, j - 1), all[j].size)
    BY DEF LaidOut
  <2>1. CASE j \in 1 .. n
    BY <1>6, <2>1
  <2>2. CASE j \notin 1 .. n
    <3>1. j - n \in 1 .. m /\ n + (j - n) = j
      BY <1>1, <2>2
    <3>2. q[n + (j - n)] = Align(EndAt(q, all, (n + (j - n)) - 1), all[n + (j - n)].size)
      BY <1>7, <3>1, Zenon
    <3> QED BY <3>1, <3>2
  <2> QED BY <2>1, <2>2
<1>9. EndAt(q, all, Len(all)) = start + size * m
  <2>1. m \in 1 .. m /\ n + m # 0
    BY <1>1
  <2>2. EndAt(q, all, n + m) = (start + (m - 1) * size) + size
    <3>1. all[n + m].size = size
      BY <1>1, <2>1 DEF m
    <3> QED BY <1>1, <1>4, <2>1, <3>1, Zenon DEF EndAt
  <2>3. (start + (m - 1) * size) + size = start + size * m
    BY <1>1, <1>3 DEF Size
  <2> QED BY <1>1, <2>2, <2>3
<1>10. ValuesAt(q, all, start, items)
  <2>1. n \in Nat /\ n + Len(items) <= Len(all)
    BY <1>1 DEF m
  <2>2. ASSUME NEW i \in 1 .. Len(items)
        PROVE  all[n + i] = items[i] /\ q[n + i] = start + (i - 1) * items[i].size
    <3>1. i \in 1 .. m
      BY <2>2 DEF m
    <3>2. i \in Nat \ {0}
      BY <1>1, <3>1, Indices, Zenon
    <3> QED BY <1>1, <1>4, <3>1, <3>2, Zenon
  <2> QED BY <2>1, <2>2, Zenon DEF ValuesAt
<1> QED BY <1>8, <1>9, <1>10 DEF n, m, start, q, all

-----------------------------------------------------------------------------
(* The parser in the data section. *)

\* The values of a directive are items of its size.
LEMMA DirectiveItems ==
    ASSUME ImageTypes, NEW d \in 1 .. Len(source.data), ~IsLabel(source.data, d)
    PROVE  LET items == Items(source.data[d])
               size == DirectiveSize[source.data[d].kind]
           IN  /\ items \in Seq(ItemType) /\ size \in Size
               /\ \A i \in 1 .. Len(items) : items[i].size = size
<1>1. source.data[d] \in DataToken /\ source.data[d].kind # "label"
  BY TokenTypes DEF ImageTypes, IsLabel
<1>2. Items(source.data[d]) \in Seq(ItemType)
      /\ DirectiveSize[source.data[d].kind] \in Size
      /\ \A i \in DOMAIN Items(source.data[d]) :
             Items(source.data[d])[i].size = DirectiveSize[source.data[d].kind]
  BY <1>1, ItemsTypes
<1>3. DOMAIN Items(source.data[d]) = 1 .. Len(Items(source.data[d]))
  BY <1>2
<1> QED BY <1>2, <1>3

\* The values of a directive are where the label before it is.
LEMMA ParsedDirective ==
    ASSUME ImageTypes, HasValues(source.data),
           pos_ <= Len(source.data), ~IsLabel(source.data, pos_),
           ParseDirective(source.data[pos_]),
           NEW p \in [Nat -> Nat],
           Parsed(source.data, p, data_buffer_, symbol_table_, pos_ - 1, data_index_)
    PROVE  \E q \in [Nat -> Nat] :
               Parsed(source.data, q, data_buffer_', symbol_table_, pos_, data_index_')
<1> DEFINE token == source.data[pos_]
           items == Items(token)
           size == DirectiveSize[token.kind]
           n == Len(data_buffer_)
           end == EndAt(p, data_buffer_, n)
           start == Align(end, size)
           q == Appended(p, n, start, size)
           all == data_buffer_ \o items
           done == pos_ - 1
<1>1. /\ pos_ \in Nat \ {0} /\ pos_ \in 1 .. Len(source.data) /\ data_buffer_ \in Seq(ItemType)
      /\ done \in Nat /\ done + 1 = pos_ /\ Len(source.data) \in Nat
  <2>1. pos_ \in Nat \ {0} /\ data_buffer_ \in Seq(ItemType) /\ Len(source.data) \in Nat
    BY ParserCounters
  <2>2. pos_ \in 1 .. Len(source.data) /\ pos_ - 1 \in Nat /\ (pos_ - 1) + 1 = pos_
    <3>1. \A k \in Nat \ {0} : \A m \in Nat :
              k <= m => k \in 1 .. m /\ k - 1 \in Nat /\ (k - 1) + 1 = k
      OBVIOUS
    <3> QED BY <2>1, <3>1, Zenon
  <2> QED BY <2>1, <2>2, Zenon
<1>2. /\ items \in Seq(ItemType) /\ size \in Size
      /\ \A i \in 1 .. Len(items) : items[i].size = size
  BY <1>1, DirectiveItems
<1>3. items # <<>>
  <2>1. pos_ \in DOMAIN source.data
    <3>1. source.data \in Seq(DataToken)
      BY TokenTypes DEF ImageTypes
    <3>2. DOMAIN source.data = 1 .. Len(source.data)
      BY <3>1
    <3> QED BY <1>1, <3>2, Zenon
  <2> QED BY <2>1 DEF HasValues, IsLabel
<1>4. n \in Nat /\ end \in Nat
  <2>1. n \in Nat /\ n \in 0 .. n
    BY <1>1
  <2> QED BY <1>1, <2>1, BufferTypes, Zenon
<1>5. start \in Nat
  BY <1>2, <1>4, AlignTypes
<1>6. /\ data_index_ = IF done > 0 /\ IsLabel(source.data, done) THEN start ELSE end
      /\ LaidOut(p, data_buffer_)
  <2>1. /\ data_index_ = IF done > 0 /\ IsLabel(source.data, done)
                         THEN Align(end, DirectiveSize[source.data[done + 1].kind]) ELSE end
        /\ LaidOut(p, data_buffer_)
    BY DEF Parsed, IndexAt
  <2> QED BY <1>1, <2>1
<1>7. /\ LaidOut(q, all) /\ EndAt(q, all, Len(all)) = start + size * Len(items)
      /\ ValuesAt(q, all, start, items)
  BY <1>1, <1>2, <1>3, <1>6, LaidOutMore, Zenon
<1>8. /\ q \in [Nat -> Nat] /\ \A j \in 1 .. n : q[j] = p[j]
  <2> HIDE DEF start, size, n
  <2>0. n \in Nat /\ start \in Nat /\ size \in Size
    BY <1>2, <1>4, <1>5, Zenon
  <2>1. q \in [Nat -> Nat] /\ \A j \in Nat : j <= n => q[j] = p[j]
    BY <2>0, AppendedIs, Zenon
  <2>2. \A j \in 1 .. n : j \in Nat /\ j <= n
    BY <1>4
  <2> QED BY <2>1, <2>2, Zenon
<1> HIDE DEF q, start, end
<1>9. data_buffer_' = all /\ data_index_' = start + size * Len(items)
  <2>1. Align(data_index_, size) = start
    BY <1>2, <1>4, <1>6, AlignTwice DEF start
  <2> QED BY <1>3, <2>1 DEF ParseDirective
<1>10. IndexAt(source.data, q, all, pos_, data_index_')
  BY <1>7, <1>9 DEF IndexAt
<1> HIDE DEF all, items, size, token
<1>11. ASSUME NEW d \in 1 .. pos_, IsLabel(source.data, d)
       PROVE  /\ d < Len(source.data) /\ ~IsLabel(source.data, d + 1)
              /\ LastOfName(source.data, d, pos_) => KnownAt(source.data, q, all, symbol_table_, pos_, data_index_', d)
  <2>1. d \in 1 .. done /\ d # pos_
    <3>1. d # pos_
      BY <1>11
    <3> QED BY <1>1, <3>1
  <2>2. /\ d < Len(source.data) /\ ~IsLabel(source.data, d + 1)
        /\ LastOfName(source.data, d, done) =>
               KnownAt(source.data, p, data_buffer_, symbol_table_, done, data_index_, d)
    BY <1>11, <2>1 DEF Parsed, LabelsKnown
  <2>3. SUFFICES ASSUME LastOfName(source.data, d, pos_)
                 PROVE  KnownAt(source.data, q, all, symbol_table_, pos_, data_index_', d)
    BY <2>2
  <2>4. LastOfName(source.data, d, done)
    <3>1. \A e \in (d + 1) .. done : e \in (d + 1) .. pos_
      BY <1>1, <2>1
    <3> QED BY <2>3, <3>1, Zenon DEF LastOfName
  <2> DEFINE name == source.data[d].name
             address == symbol_table_[name].address
             values == Items(source.data[d + 1])
  <2>5. /\ name \in DOMAIN symbol_table_ /\ symbol_table_[name].isData
        /\ IF d = done THEN address = data_index_ ELSE ValuesAt(p, data_buffer_, address, values)
    BY <2>2, <2>4 DEF KnownAt
  <2>6. ValuesAt(q, all, address, values)
    <3>1. CASE d = done
      <4>1. address = start
        <5>1. done > 0 /\ IsLabel(source.data, done)
          BY <1>1, <1>11, <2>1, <3>1
        <5>2. address = data_index_
          BY <2>5, <3>1, Zenon
        <5> QED BY <1>6, <5>1, <5>2, Zenon
      <4>2. values = items
        BY <1>1, <3>1 DEF items, token
      <4> QED BY <1>7, <4>1, <4>2
    <3>2. CASE d # done
      <4>1. values \in Seq(ItemType)
        <5>1. d + 1 \in 1 .. Len(source.data)
          <6>1. \A k, m \in Nat : k < m => k + 1 \in 1 .. m
            OBVIOUS
          <6>2. d \in Nat
            BY <1>1
          <6> QED BY <1>1, <2>2, <6>1, <6>2, Zenon
        <5> QED BY <2>2, <5>1, DirectiveItems, Zenon
      <4>2. address \in Nat
        BY <2>5 DEF ImageTypes, TableTypes, SymbolType
      <4> HIDE DEF values, address
      <4> QED BY <1>1, <1>2, <1>8, <2>5, <3>2, <4>1, <4>2, ValuesStay, Zenon DEF all, n
    <3> QED BY <3>1, <3>2
  <2> QED BY <2>1, <2>5, <2>6 DEF KnownAt
<1>12. LabelsNamed(source.data, symbol_table_, pos_)
  <2> SUFFICES ASSUME NEW name \in DOMAIN symbol_table_, symbol_table_[name].isData
               PROVE  \E d \in 1 .. pos_ : IsLabel(source.data, d) /\ source.data[d].name = name
    BY DEF LabelsNamed
  <2>1. PICK d \in 1 .. (pos_ - 1) : IsLabel(source.data, d) /\ source.data[d].name = name
    BY DEF Parsed, LabelsNamed
  <2>2. d \in 1 .. pos_
    BY <1>1
  <2> QED BY <2>1, <2>2, Zenon
<1>13. Parsed(source.data, q, data_buffer_', symbol_table_, pos_, data_index_')
  BY <1>7, <1>9, <1>10, <1>11, <1>12 DEF Parsed, LabelsKnown
<1> QED BY <1>8, <1>13

-----------------------------------------------------------------------------
(* The values in memory. *)

\* Value j is in memory.
InMemory(p, buffer, counter, blocks, j) ==
    /\ p[j] + buffer[j].size <= counter
    /\ DataStart + p[j] + buffer[j].size <= MemorySize
    /\ ReadGeneric(blocks, DataStart + p[j], buffer[j].size) = buffer[j].value

LoadedTo(p, buffer, counter, blocks, n) ==
    /\ n <= Len(buffer) /\ counter = EndAt(p, buffer, n)
    /\ \A j \in 1 .. n : InMemory(p, buffer, counter, blocks, j)

DataIs(p) ==
    /\ Parsed(source.data, p, data_buffer_, symbol_table_, DataDone, data_index_)
    /\ phase = "write_text" => data_counter = 0
    /\ phase \in {"write_data", "loaded"} =>
           LoadedTo(p, data_buffer_, data_counter, blocks_, loaded)
    /\ phase = "loaded" => loaded = Len(data_buffer_)

DataInv ==
    /\ phase = "data" => pos_ <= Len(source.data) + 1
    /\ (phase = "data" \/ HasCode) /\ errors_ = 0 => \E p \in [Nat -> Nat] : DataIs(p)

ValuesInv == HasValues(source.data) /\ \A i \in DOMAIN session.sources : HasValues(session.sources[i].data)

\* The directives of a session have values at the start.
LEMMA ValuesStart == ASSUME SourcesHaveValues, Init PROVE ValuesInv
<1>1. source.data = <<>> /\ session \in Session
  BY DEF Init
<1>2. HasValues(source.data)
  BY <1>1 DEF HasValues
<1> QED BY <1>1, <1>2 DEF SourcesHaveValues, ValuesInv

\* And in every step.
LEMMA ValuesStep ==
    ASSUME ImageTypes, ValuesInv, [Next]_imageVars
    PROVE  ValuesInv'
<1>1. HasValues(source'.data)
  BY SourceSteps DEF ValuesInv
<1>2. \A i \in DOMAIN session'.sources : HasValues(session'.sources[i].data)
  BY SourceSteps DEF ValuesInv
<1> QED BY <1>1, <1>2 DEF ValuesInv

\* Arithmetic of an index and the next one.
LEMMA NextPlace ==
    \A k, m \in Nat :
        k < m => /\ k + 1 \in 1 .. m /\ k \in 0 .. m /\ k + 1 \in Nat /\ k + 1 <= m
                 /\ (k + 1) - 1 = k /\ k + 1 # 0
  OBVIOUS

\* Arithmetic of places.
LEMMA Sums ==
    /\ \A a, b \in Nat : a + b \in Nat /\ a <= a
    /\ \A a, b, c, d, s, t \in Nat :
           b + s <= c /\ c <= d => (a + b) + s <= a + d /\ b + s <= d + t
  OBVIOUS

\* A write of a value after the others.
LEMMA LoadedOne ==
    ASSUME NEW p \in [Nat -> Nat], NEW buffer \in Seq(ItemType), LaidOut(p, buffer),
           NEW n \in Nat, NEW counter, NEW blocks, LoadedTo(p, buffer, counter, blocks, n),
           n < Len(buffer),
           DataStart + p[n + 1] + buffer[n + 1].size <= MemorySize
    PROVE  LET item == buffer[n + 1]
               at == Align(counter, item.size)
           IN  /\ at = p[n + 1]
               /\ LoadedTo(p, buffer, at + item.size,
                           WriteGeneric(blocks, DataStart + at, item.size, item.value), n + 1)
<1> DEFINE item == buffer[n + 1]
           at == p[n + 1]
           after == WriteGeneric(blocks, DataStart + at, item.size, item.value)
<1>1. /\ Len(buffer) \in Nat /\ n + 1 \in 1 .. Len(buffer) /\ n \in 0 .. Len(buffer)
      /\ n + 1 \in Nat /\ (n + 1) - 1 = n /\ n + 1 # 0
  <2>1. Len(buffer) \in Nat
    BY BufferTypes
  <2> QED BY <2>1, NextPlace, Zenon
<1>2. /\ item.size \in Size /\ item.size \in Nat
      /\ item.value \subseteq 0 .. (8 * item.size - 1)
  BY <1>1, BufferTypes
<1>3. at \in Nat /\ counter \in Nat /\ counter = EndAt(p, buffer, n)
  <2>1. EndAt(p, buffer, n) \in Nat
    BY <1>1, BufferTypes, Zenon
  <2> QED BY <1>1, <2>1 DEF LoadedTo
<1>4. at = Align(counter, item.size)
  BY <1>1, <1>3 DEF LaidOut
<1>5. at >= counter
  BY <1>2, <1>3, <1>4, AlignTypes
<1>6. EndAt(p, buffer, n + 1) = at + item.size
  BY <1>1 DEF EndAt
<1>7. DataStart \in Nat /\ DataStart + at \in Nat
  <2>1. DataStart \in Nat
    BY AssemblerAssumption
  <2> QED BY <1>3, <2>1, Sums, Zenon
<1> HIDE DEF after, at
<1>8. InMemory(p, buffer, at + item.size, after, n + 1)
  <2>1. ReadGeneric(after, DataStart + at, item.size) = item.value
    BY <1>2, <1>7, ReadBack DEF after
  <2>2. at + item.size <= at + item.size
    BY <1>2, <1>3, Sums, Zenon
  <2> QED BY <2>1, <2>2 DEF InMemory, at
<1>9. ASSUME NEW j \in 1 .. n PROVE InMemory(p, buffer, at + item.size, after, j)
  <2> DEFINE other == buffer[j]
  <2>1. /\ p[j] + other.size <= counter
        /\ DataStart + p[j] + other.size <= MemorySize
        /\ ReadGeneric(blocks, DataStart + p[j], other.size) = other.value
    BY <1>9 DEF LoadedTo, InMemory
  <2>2. p[j] \in Nat /\ other.size \in Size /\ other.size \in Nat
    <3>1. j \in Nat /\ j \in 1 .. Len(buffer)
      BY <1>1
    <3> QED BY <3>1, BufferTypes
  <2> HIDE DEF other, item
  <2>3. DataStart + p[j] \in Nat /\ (DataStart + p[j]) + other.size <= DataStart + at
    <3>1. counter <= at
      BY <1>3, <1>5
    <3> QED BY <1>3, <1>7, <2>1, <2>2, <3>1, Sums, Zenon
  <2>4. ReadGeneric(after, DataStart + p[j], other.size) = other.value
    <3> DEFINE a == DataStart + at
               o == DataStart + p[j]
               m == other.size
               s == item.size
    <3>1. a \in Nat /\ o \in Nat /\ m \in Size /\ s \in Size /\ o + m <= a
      BY <1>2, <1>7, <2>2, <2>3
    <3>2. ReadGeneric(blocks, o, m) = other.value
      BY <2>1
    <3>3. after = WriteGeneric(blocks, a, s, item.value)
      BY DEF after
    <3> HIDE DEF a, o, m, s
    <3>4. ReadGeneric(after, o, m) = ReadGeneric(blocks, o, m)
      BY <3>1, <3>3, ReadBeside
    <3> QED BY <3>2, <3>4 DEF o, m
  <2>5. p[j] + other.size <= at + item.size
    <3>1. counter <= at
      BY <1>3, <1>5
    <3> QED BY <1>2, <1>3, <1>7, <2>1, <2>2, <3>1, Sums, Zenon
  <2> QED BY <2>1, <2>4, <2>5, Zenon DEF InMemory, other
<1>10. \A j \in 1 .. (n + 1) : InMemory(p, buffer, at + item.size, after, j)
  <2> TAKE j \in 1 .. (n + 1)
  <2>1. j \in 1 .. n \/ j = n + 1
    OBVIOUS
  <2> QED BY <1>8, <1>9, <2>1
<1>11. n + 1 <= Len(buffer)
  BY <1>1
<1> QED BY <1>4, <1>6, <1>10, <1>11, Zenon DEF LoadedTo, after, at

-----------------------------------------------------------------------------
(* The layout through the whole of assembling and loading. *)

\* The second pass adds labels of the text to the table, and nothing else.
LEMMA LineTable ==
    ASSUME NEW line \in TextLine, ParseLine(line)
    PROVE  /\ \A n \in DOMAIN symbol_table_ :
                  n \in DOMAIN symbol_table_' /\ symbol_table_'[n] = symbol_table_[n]
           /\ \A n \in DOMAIN symbol_table_' :
                  symbol_table_'[n].isData =>
                      n \in DOMAIN symbol_table_ /\ symbol_table_[n].isData
           /\ errors_' \in {errors_, errors_ + 1}
<1>1. CASE UNCHANGED symbol_table_ /\ errors_' \in {errors_, errors_ + 1}
  BY <1>1
<1>2. CASE line.opcode = "label"
  <2>1. CASE line.label \in DOMAIN symbol_table_
    <3>1. ParseLabel(line)
      BY <1>2, ParseLineCases
    <3> QED BY <1>1, <2>1, <3>1 DEF ParseLabel, Reject
  <2>2. CASE line.label \notin DOMAIN symbol_table_
    <3>1. /\ symbol_table_' = [n \in DOMAIN symbol_table_ \cup {line.label} |->
                                  IF n = line.label
                                  THEN [address |-> instruction_index_ * 4, isData |-> FALSE]
                                  ELSE symbol_table_[n]]
          /\ errors_' = errors_
      BY <1>2, <2>2, ParseLineCases DEF ParseLabel
    <3>2. /\ DOMAIN symbol_table_' = DOMAIN symbol_table_ \cup {line.label}
          /\ ~symbol_table_'[line.label].isData
          /\ \A n \in DOMAIN symbol_table_ : symbol_table_'[n] = symbol_table_[n]
      BY <2>2, <3>1
    <3> QED BY <3>1, <3>2
  <2> QED BY <2>1, <2>2
<1>3. CASE line.opcode # "label"
  <2>1. \/ Reject \/ ParseLi(line) \/ ParseAddress(line) \/ ParseReference(line) \/ ParsePlain(line)
    BY <1>3, LineCases, ParseLineCases
  <2>2. Reject => UNCHANGED symbol_table_ /\ errors_' \in {errors_, errors_ + 1}
    BY DEF Reject
  <2>3. \A units : Emit(units) => UNCHANGED symbol_table_ /\ errors_' \in {errors_, errors_ + 1}
    BY DEF Emit
  <2>4. ParseLi(line) => UNCHANGED symbol_table_ /\ errors_' \in {errors_, errors_ + 1}
    BY <2>2, <2>3, Zenon DEF ParseLi
  <2>5. ParseAddress(line) => UNCHANGED symbol_table_ /\ errors_' \in {errors_, errors_ + 1}
    BY <2>2, <2>3, Zenon DEF ParseAddress
  <2>6. ParseReference(line) => UNCHANGED symbol_table_ /\ errors_' \in {errors_, errors_ + 1}
    <3>1. ParseReference(line) =>
              \/ Reject \/ \E units : Emit(units)
              \/ UNCHANGED <<symbol_table_, errors_>>
      BY Zenon DEF ParseReference
    <3> QED BY <2>2, <2>3, <3>1
  <2>7. ParsePlain(line) => UNCHANGED symbol_table_ /\ errors_' \in {errors_, errors_ + 1}
    BY <2>2, <2>3, Zenon DEF ParsePlain
  <2> QED BY <1>1, <2>1, <2>2, <2>4, <2>5, <2>6, <2>7
<1> QED BY <1>2, <1>3

\* What is known of the data does not depend on labels of the text.
LEMMA ParsedTable ==
    ASSUME NEW data, NEW p, NEW buffer, NEW table, NEW done, NEW index, NEW more,
           Parsed(data, p, buffer, table, done, index),
           \A n \in DOMAIN table : n \in DOMAIN more /\ more[n] = table[n],
           \A n \in DOMAIN more : more[n].isData => n \in DOMAIN table /\ table[n].isData
    PROVE  Parsed(data, p, buffer, more, done, index)
<1>1. \A d : KnownAt(data, p, buffer, table, done, index, d)
                 => KnownAt(data, p, buffer, more, done, index, d)
  BY DEF KnownAt
<1>2. LabelsKnown(data, p, buffer, more, done, index)
  BY <1>1, Zenon DEF Parsed, LabelsKnown
<1>3. LabelsNamed(data, more, done)
  <2> SUFFICES ASSUME NEW n \in DOMAIN more, more[n].isData
               PROVE  \E d \in 1 .. done : IsLabel(data, d) /\ data[d].name = n
    BY DEF LabelsNamed
  <2>1. n \in DOMAIN table /\ table[n].isData
    OBVIOUS
  <2> QED BY <2>1 DEF Parsed, LabelsNamed
<1> QED BY <1>2, <1>3 DEF Parsed

\* Before the first token nothing is laid out.
LEMMA ParsedNothing ==
    ASSUME NEW data
    PROVE  Parsed(data, [j \in Nat |-> 0], <<>>, <<>>, 0, 0)
<1>1. Len(<<>>) = 0
  OBVIOUS
<1>2. LaidOut([j \in Nat |-> 0], <<>>)
  BY <1>1 DEF LaidOut
<1>3. IndexAt(data, [j \in Nat |-> 0], <<>>, 0, 0)
  BY <1>1 DEF IndexAt, EndAt
<1>4. LabelsKnown(data, [j \in Nat |-> 0], <<>>, <<>>, 0, 0)
  BY DEF LabelsKnown
<1>5. LabelsNamed(data, <<>>, 0)
  BY DEF LabelsNamed
<1> QED BY <1>2, <1>3, <1>4, <1>5 DEF Parsed

\* The first pass.
LEMMA DataByToken ==
    ASSUME ImageTypes, ValuesInv, DataInv, ParseData
    PROVE  DataInv'
<1>1. /\ pos_ \in Nat \ {0} /\ Len(source.data) \in Nat /\ errors_ \in Nat
      /\ phase = "data" /\ phase' = "data" /\ pos_ <= Len(source.data)
      /\ pos_' = pos_ + 1 /\ source' = source
  BY ParserCounters DEF ParseData
<1>2. (pos_ + 1) - 1 = pos_ /\ pos_ + 1 <= Len(source.data) + 1
  BY <1>1
<1>3. DataDone = pos_ - 1 /\ DataDone' = pos_
  BY <1>1, <1>2 DEF DataDone
<1>4. IF IsLabel(source.data, pos_) THEN ParseDataLabel(source.data[pos_])
      ELSE ParseDirective(source.data[pos_])
  BY DEF ParseData, IsLabel
<1>5. errors_' \in {errors_, errors_ + 1}
  BY <1>4 DEF ParseDataLabel, ParseDirective
<1>6. SUFFICES ASSUME errors_' = 0 PROVE \E q \in [Nat -> Nat] : DataIs(q)'
  BY <1>1, <1>2 DEF DataInv
<1>7. errors_ = 0 /\ errors_' = errors_
  BY <1>1, <1>5, <1>6
<1>8. PICK p \in [Nat -> Nat] :
          Parsed(source.data, p, data_buffer_, symbol_table_, pos_ - 1, data_index_)
  BY <1>1, <1>3, <1>7 DEF DataInv, DataIs
<1>9. \E q \in [Nat -> Nat] :
          Parsed(source.data, q, data_buffer_', symbol_table_', pos_, data_index_')
  <2>1. CASE IsLabel(source.data, pos_)
    <3>1. data_buffer_' = data_buffer_
      BY <1>4, <2>1 DEF ParseDataLabel
    <3> QED BY <1>1, <1>4, <1>7, <1>8, <2>1, <3>1, ParsedLabel
  <2>2. CASE ~IsLabel(source.data, pos_)
    <3>1. symbol_table_' = symbol_table_
      BY <1>4, <2>2 DEF ParseDirective
    <3>2. HasValues(source.data)
      BY DEF ValuesInv
    <3> QED BY <1>1, <1>4, <1>8, <2>2, <3>1, <3>2, ParsedDirective
  <2> QED BY <2>1, <2>2
<1>10. PICK q \in [Nat -> Nat] :
           Parsed(source.data, q, data_buffer_', symbol_table_', pos_, data_index_')
  BY <1>9
<1>11. DataIs(q)'
  BY <1>1, <1>3, <1>10 DEF DataIs
<1> QED BY <1>11

\* The loader's step for a value.
LEMMA DataByItem ==
    ASSUME ImageTypes, LoadDataItem, phase' # "crashed", NEW p \in [Nat -> Nat], DataIs(p)
    PROVE  LoadedTo(p, data_buffer_, data_counter', blocks_', loaded')
<1> DEFINE item == data_buffer_[loaded + 1]
           counter == Align(data_counter, item.size)
<1>1. /\ data_buffer_ \in Seq(ItemType) /\ loaded \in Nat /\ data_counter \in Nat
      /\ Len(data_buffer_) \in Nat /\ loaded < Len(data_buffer_) /\ phase = "write_data"
  BY ParserCounters DEF LoadDataItem
<1>2. /\ WriteMemory(DataStart + counter, item.size, item.value)
      /\ phase' = IF InRange(DataStart + counter, item.size) THEN phase ELSE "crashed"
      /\ data_counter' = counter + item.size
      /\ loaded' = loaded + 1
  BY DEF LoadDataItem
<1>3. /\ LaidOut(p, data_buffer_)
      /\ LoadedTo(p, data_buffer_, data_counter, blocks_, loaded)
  BY <1>1 DEF DataIs, Parsed
<1>4. /\ loaded + 1 \in 1 .. Len(data_buffer_) /\ loaded \in 0 .. Len(data_buffer_)
      /\ (loaded + 1) - 1 = loaded
  BY <1>1, NextPlace, Zenon
<1>5. item.size \in Size /\ item.size \in Nat
  BY <1>1, <1>4, BufferTypes
<1>6. counter = p[loaded + 1] /\ counter \in Nat
  <2>1. p[loaded + 1] = Align(EndAt(p, data_buffer_, loaded), item.size)
    BY <1>3, <1>4 DEF LaidOut
  <2>2. data_counter = EndAt(p, data_buffer_, loaded)
    BY <1>3 DEF LoadedTo
  <2> QED BY <1>1, <1>5, <2>1, <2>2, AlignTypes
<1> HIDE DEF item, counter
<1>7. DataStart + counter + item.size <= MemorySize
      /\ blocks_' = WriteGeneric(blocks_, DataStart + counter, item.size, item.value)
  <2>1. InRange(DataStart + counter, item.size)
    BY <1>2
  <2>2. blocks_' = WriteGeneric(blocks_, DataStart + counter, item.size, item.value)
    BY <1>2, <2>1 DEF WriteMemory
  <2>3. DataStart \in Nat /\ MemorySize \in Nat
    BY AssemblerAssumption, MemoryAssumption
  <2>4. DataStart + counter < MemorySize - (item.size - 1)
    BY <2>1 DEF InRange
  <2> QED BY <1>5, <1>6, <2>2, <2>3, <2>4
<1>8. LoadedTo(p, data_buffer_, counter + item.size, blocks_', loaded + 1)
  <2>1. DataStart + p[loaded + 1] + data_buffer_[loaded + 1].size <= MemorySize
    BY <1>6, <1>7 DEF item
  <2> DEFINE after(c) == WriteGeneric(blocks_, DataStart + c, item.size, item.value)
  <2>2. LoadedTo(p, data_buffer_, counter + item.size, after(counter), loaded + 1)
    BY <1>1, <1>3, <2>1, LoadedOne, Zenon DEF item, counter
  <2> QED BY <1>7, <2>2
<1> QED BY <1>2, <1>8

\* Every action keeps DataInv.
LEMMA DataStep ==
    ASSUME ImageTypes, ValuesInv, DataInv, [Next]_imageVars
    PROVE  DataInv'
<1>0. /\ pos_ \in Nat \ {0} /\ Len(source.data) \in Nat /\ errors_ \in Nat /\ loaded \in Nat
      /\ Len(data_buffer_) \in Nat
  BY ParserCounters
<1> DEFINE Loading == {"assembled", "write_text", "write_data", "loaded"}
<1>1. CASE LoadCommand
  <2>1. /\ phase' = "data" /\ pos_' = 1 /\ data_index_' = 0 /\ symbol_table_' = <<>>
        /\ data_buffer_' = <<>>
    BY <1>1 DEF LoadCommand, Parsing
  <2>2. DataDone' = 0
    BY <2>1 DEF DataDone
  <2> DEFINE p == [j \in Nat |-> 0]
  <2>3. p \in [Nat -> Nat] /\ Parsed(source'.data, p, <<>>, <<>>, 0, 0)
    BY ParsedNothing
  <2> HIDE DEF p
  <2>4. DataIs(p)'
    BY <2>1, <2>2, <2>3 DEF DataIs
  <2>5. Len(source'.data) \in Nat
    BY TypesStep, TokenTypes, ParserCounters DEF ImageTypes
  <2>6. pos_' <= Len(source'.data) + 1
    BY <2>1, <2>5
  <2> QED BY <2>3, <2>4, <2>6 DEF DataInv
<1>2. CASE ParseData
  BY <1>2, DataByToken
<1>3. CASE phase' \notin {"data", "text", "patch"} \cup Loading
  BY <1>3 DEF DataInv, HasCode
<1>4. ASSUME phase' \in {"text", "patch"} \cup Loading, DataDone' = DataDone,
             phase \in {"data", "text", "patch"} \cup Loading,
             errors_' \in {errors_, errors_ + 1},
             UNCHANGED <<source, data_buffer_, data_index_>>,
             \A n \in DOMAIN symbol_table_ :
                 n \in DOMAIN symbol_table_' /\ symbol_table_'[n] = symbol_table_[n],
             \A n \in DOMAIN symbol_table_' :
                 symbol_table_'[n].isData => n \in DOMAIN symbol_table_ /\ symbol_table_[n].isData,
             NEW p \in [Nat -> Nat], DataIs(p)
      PROVE  Parsed(source'.data, p, data_buffer_', symbol_table_', DataDone', data_index_')
  BY <1>4, ParsedTable DEF DataIs
<1>5. ASSUME phase' \in {"text", "patch"} \cup Loading, DataDone' = DataDone,
             phase \in {"data", "text", "patch"} \cup Loading,
             errors_' \in {errors_, errors_ + 1},
             UNCHANGED <<source, data_buffer_, data_index_>>,
             \A n \in DOMAIN symbol_table_ :
                 n \in DOMAIN symbol_table_' /\ symbol_table_'[n] = symbol_table_[n],
             \A n \in DOMAIN symbol_table_' :
                 symbol_table_'[n].isData => n \in DOMAIN symbol_table_ /\ symbol_table_[n].isData,
             \A p \in [Nat -> Nat] :
                 DataIs(p) =>
                     /\ phase' = "write_text" => data_counter' = 0
                     /\ phase' \in {"write_data", "loaded"} =>
                            LoadedTo(p, data_buffer_', data_counter', blocks_', loaded')
                     /\ phase' = "loaded" => loaded' = Len(data_buffer_')
      PROVE  DataInv'
  <2>1. SUFFICES ASSUME errors_' = 0 PROVE \E p \in [Nat -> Nat] : DataIs(p)'
    BY <1>5 DEF DataInv
  <2>2. errors_ = 0
    BY <1>0, <1>5, <2>1
  <2>3. PICK p \in [Nat -> Nat] : DataIs(p)
    BY <1>5, <2>2 DEF DataInv, HasCode
  <2>4. Parsed(source'.data, p, data_buffer_', symbol_table_', DataDone', data_index_')
    BY <1>4, <1>5, <2>3
  <2>5. DataIs(p)'
    BY <1>5, <2>3, <2>4 DEF DataIs
  <2> QED BY <2>5
<1>6. CASE EndFirstPass
  <2>1. /\ phase = "data" /\ phase' = "text" /\ pos_ > Len(source.data)
        /\ UNCHANGED <<source, symbol_table_, data_buffer_, data_index_, errors_>>
    BY <1>6 DEF EndFirstPass
  <2>2. DataDone' = DataDone
    <3>1. pos_ - 1 = Len(source.data)
      BY <1>0, <2>1 DEF DataInv
    <3> QED BY <2>1, <3>1 DEF DataDone
  <2> QED BY <1>5, <2>1, <2>2
<1>7. CASE ParseText
  <2>1. /\ phase = "text" /\ phase' = "text" /\ ParseLine(source.text[pos_])
        /\ UNCHANGED <<source, data_buffer_, data_index_>>
    BY <1>7 DEF ParseText
  <2>2. source.text[pos_] \in TextLine
    <3>1. pos_ <= Len(source.text)
      BY <1>7 DEF ParseText
    <3>2. Len(source.text) \in Nat /\ \A k \in 1 .. Len(source.text) : source.text[k] \in TextLine
      BY TokenTypes DEF ImageTypes
    <3> QED BY <1>0, <3>1, <3>2
  <2>3. DataDone' = DataDone
    BY <2>1 DEF DataDone
  <2>4. /\ \A n \in DOMAIN symbol_table_ :
               n \in DOMAIN symbol_table_' /\ symbol_table_'[n] = symbol_table_[n]
        /\ \A n \in DOMAIN symbol_table_' :
               symbol_table_'[n].isData =>
                   n \in DOMAIN symbol_table_ /\ symbol_table_[n].isData
        /\ errors_' \in {errors_, errors_ + 1}
    BY <2>1, <2>2, LineTable
  <2> QED BY <1>5, <2>1, <2>3, <2>4
<1>8. CASE EndSecondPass \/ BackPatch \/ Assemble
  <2>1. /\ phase \in {"text", "patch"} /\ phase' \in {"patch", "assembled", "failed"}
        /\ UNCHANGED <<source, symbol_table_, data_buffer_, data_index_>>
        /\ errors_' \in {errors_, errors_ + 1}
    BY <1>8 DEF EndSecondPass, BackPatch, Assemble
  <2>2. DataDone' = DataDone
    BY <2>1 DEF DataDone
  <2> QED BY <1>3, <1>5, <2>1, <2>2
<1>9. CASE BeginLoadProgram
  <2>1. /\ phase = "assembled" /\ phase' = "write_text" /\ data_counter' = 0
        /\ UNCHANGED <<source, symbol_table_, data_buffer_, data_index_, errors_>>
    BY <1>9 DEF BeginLoadProgram, ProgramKept
  <2>2. DataDone' = DataDone
    BY <2>1 DEF DataDone
  <2> QED BY <1>5, <2>1, <2>2
<1>10. CASE LoadTextWord
  <2>1. /\ phase = "write_text" /\ phase' \in {"write_text", "crashed"}
        /\ UNCHANGED <<source, symbol_table_, data_buffer_, data_index_, errors_, data_counter>>
    BY <1>10 DEF LoadTextWord, ProgramKept
  <2>2. DataDone' = DataDone
    BY <2>1 DEF DataDone
  <2>3. \A p \in [Nat -> Nat] : DataIs(p) => data_counter' = 0
    BY <2>1 DEF DataIs
  <2> QED BY <1>3, <1>5, <2>1, <2>2, <2>3
<1>11. CASE EndText
  <2>1. /\ phase = "write_text" /\ phase' = "write_data" /\ loaded' = 0
        /\ UNCHANGED <<source, symbol_table_, data_buffer_, data_index_, errors_, data_counter>>
    BY <1>11 DEF EndText, ProgramKept
  <2>2. DataDone' = DataDone
    BY <2>1 DEF DataDone
  <2>3. \A p \in [Nat -> Nat] :
            DataIs(p) => LoadedTo(p, data_buffer_', data_counter', blocks_', loaded')
    <3> SUFFICES ASSUME NEW p \in [Nat -> Nat], DataIs(p)
                 PROVE  LoadedTo(p, data_buffer_', data_counter', blocks_', loaded')
      OBVIOUS
    <3>1. data_counter' = 0 /\ loaded' = 0 /\ data_buffer_' = data_buffer_
      BY <2>1 DEF DataIs
    <3>2. LoadedTo(p, data_buffer_, 0, blocks_', 0)
      BY <1>0 DEF LoadedTo, EndAt
    <3> QED BY <3>1, <3>2
  <2> QED BY <1>5, <2>1, <2>2, <2>3
<1>12. CASE LoadDataItem
  <2>1. /\ phase = "write_data" /\ phase' \in {"write_data", "crashed"}
        /\ UNCHANGED <<source, symbol_table_, data_buffer_, data_index_, errors_>>
    BY <1>12 DEF LoadDataItem, ProgramKept
  <2>2. DataDone' = DataDone
    BY <2>1 DEF DataDone
  <2>3. phase' # "crashed" =>
            \A p \in [Nat -> Nat] :
                DataIs(p) => LoadedTo(p, data_buffer_', data_counter', blocks_', loaded')
    BY <1>12, <2>1, DataByItem
  <2> QED BY <1>3, <1>5, <2>1, <2>2, <2>3
<1>13. CASE EndData
  <2>1. /\ phase = "write_data" /\ phase' = "loaded" /\ loaded = Len(data_buffer_)
        /\ UNCHANGED <<source, symbol_table_, data_buffer_, data_index_, errors_, data_counter,
                       loaded, blocks_>>
    BY <1>13 DEF EndData, ProgramKept, memoryVars, loaderVars
  <2>2. DataDone' = DataDone
    BY <2>1 DEF DataDone
  <2>3. \A p \in [Nat -> Nat] :
            DataIs(p) => LoadedTo(p, data_buffer_', data_counter', blocks_', loaded')
    BY <2>1 DEF DataIs
  <2> QED BY <1>5, <2>1, <2>2, <2>3
<1>14. CASE LookAtMemory \/ UNCHANGED imageVars
  <2>1. UNCHANGED <<source, pos_, phase, symbol_table_, data_buffer_, data_index_, errors_,
                    data_counter, loaded, blocks_>>
    BY <1>14 DEF LookAtMemory, ReadMemory, ProgramKept, loaderVars, imageVars, parserVars, memoryVars
  <2>2. DataDone' = DataDone
    BY <2>1 DEF DataDone
  <2>3. \A p : DataIs(p) => DataIs(p)'
    BY <2>1, <2>2 DEF DataIs
  <2> QED BY <2>1, <2>3 DEF DataInv, HasCode
<1>15. CASE ModifyMemory \/ ResetCommand
  <2>1. phase' = "idle"
    BY <1>15 DEF ModifyMemory, ResetCommand
  <2> QED BY <1>3, <2>1
<1> QED
  BY <1>1, <1>2, <1>6, <1>7, <1>8, <1>9, <1>10, <1>11, <1>12, <1>13, <1>14, <1>15
  DEF Next, AssembleStep, AssemblerNext

-----------------------------------------------------------------------------
(* Addresses of data. *)

\* Arithmetic of an index below another.
LEMMA Below ==
    \A k, m \in Nat : k < m => k # m /\ k + 1 \in 1 .. m
  OBVIOUS

\* A set of indices that is not empty has a greatest element.
LEMMA GreatestIndex ==
    ASSUME NEW n \in Nat, NEW S \in SUBSET (1 .. n), S # {}
    PROVE  \E m \in S : \A k \in S : k <= m
<1> DEFINE T == {n - k : k \in S}
<1>1. T \in SUBSET Nat /\ T # {}
  <2>1. \A k \in S : n - k \in Nat
    OBVIOUS
  <2>2. PICK k \in S : TRUE
    OBVIOUS
  <2>3. n - k \in T
    OBVIOUS
  <2>4. T \in SUBSET Nat
    BY <2>1, Zenon
  <2> QED BY <2>3, <2>4
<1>2. PICK t \in T : \A k \in T : t <= k
  BY <1>1, LeastIndex
<1>3. PICK m \in S : t = n - m
  OBVIOUS
<1>4. ASSUME NEW k \in S PROVE k <= m
  <2>1. t <= n - k
    BY <1>2
  <2> QED BY <1>3, <2>1
<1> QED BY <1>4

\* The high part of an offset within the memory is small.
LEMMA HighInMemory ==
    ASSUME NEW size \in Nat, NEW value \in 0 .. (size - 1)
    PROVE  High(value) \in -size .. size
<1> DEFINE h == LowSize \div 2
           q == (value + h) \div LowSize
<1>1. LowSize \in Nat /\ LowSize > 0 /\ h \in Nat /\ LowSize = 2 * h /\ h > 0
  BY AssemblerAssumption
<1>2. q \in Int /\ q * LowSize <= value + h /\ value + h < q * LowSize + LowSize
  BY <1>1
<1> HIDE DEF q, h
<1>3. q * LowSize \in Int
  BY <1>1, <1>2
<1>4. q >= 0
  <2>1. SUFFICES ASSUME q + 1 <= 0 PROVE FALSE
    BY <1>2
  <2>2. -(q + 1) \in Nat /\ (-(q + 1)) * LowSize >= 0
    BY <1>1, <1>2, <2>1
  <2>3. (-(q + 1)) * LowSize = -(q * LowSize) - LowSize
    BY <1>1, <1>2
  <2> QED BY <1>1, <1>2, <1>3, <2>2, <2>3
<1>5. q <= size
  <2>1. SUFFICES ASSUME q >= size + 1 PROVE FALSE
    BY <1>2
  <2>2. q - 1 \in Nat /\ (q - 1) * h >= q - 1
    BY <1>1, <1>2, <2>1
  <2>3. q * LowSize = (q - 1) * h + (q - 1) * h + h + h
    BY <1>1, <1>2
  <2>4. (q - 1) * h \in Int
    BY <1>1, <1>2
  <2> QED BY <1>1, <1>2, <1>3, <2>1, <2>2, <2>3, <2>4
<1> QED BY <1>2, <1>4, <1>5 DEF High, q, h

\* Where the values of a data label are in a program that is loaded.
LEMMA ValuesLoaded ==
    ASSUME TextLoaded, ValuesInv, DataInv, phase = "loaded", NEW name,
           name \in DOMAIN symbol_table_, symbol_table_[name].isData
    PROVE  LET named == {k \in DOMAIN source.data : source.data[k].kind = "label"
                                                    /\ source.data[k].name = name}
               items == Items(source.data[Max(named) + 1])
               at == DataStart + symbol_table_[name].address
           IN  /\ at < MemorySize
               /\ \A i \in DOMAIN items :
                      /\ items[i].size \in Nat /\ i \in Nat
                      /\ ReadGeneric(blocks_, at + (i - 1) * items[i].size, items[i].size)
                             = items[i].value
<1> DEFINE named == {k \in DOMAIN source.data : source.data[k].kind = "label"
                                                /\ source.data[k].name = name}
           n == Len(source.data)
           address == symbol_table_[name].address
<1>1. /\ ImageTypes /\ n \in Nat /\ DOMAIN source.data = 1 .. n
      /\ data_buffer_ \in Seq(ItemType)
  <2>1. ImageTypes
    BY DEF TextLoaded
  <2>2. source.data \in Seq(DataToken)
    BY <2>1, TokenTypes DEF ImageTypes
  <2> QED BY <2>1, <2>2, ParserCounters
<1>2. errors_ = 0
  BY DEF TextLoaded, CodeInv
<1>3. PICK p \in [Nat -> Nat] : DataIs(p)
  BY <1>2 DEF DataInv, HasCode
<1>4. /\ Parsed(source.data, p, data_buffer_, symbol_table_, n, data_index_)
      /\ LoadedTo(p, data_buffer_, data_counter, blocks_, Len(data_buffer_))
  BY <1>3 DEF DataIs, DataDone
<1>5. PICK d \in named : \A k \in named : k <= d
  <2>1. PICK k \in 1 .. n : IsLabel(source.data, k) /\ source.data[k].name = name
    BY <1>4 DEF Parsed, LabelsNamed
  <2>2. k \in named
    BY <1>1, <2>1 DEF IsLabel
  <2>3. named \in SUBSET (1 .. n) /\ named # {}
    BY <1>1, <2>2
  <2> HIDE DEF named
  <2> QED BY <1>1, <2>3, GreatestIndex
<1>6. Max(named) = d
  <2>1. named \in SUBSET Int
    BY <1>1
  <2> HIDE DEF named
  <2> QED BY <1>5, <2>1, MaxIs
<1> DEFINE items == Items(source.data[d + 1])
<1>7. d \in 1 .. n /\ IsLabel(source.data, d) /\ source.data[d].name = name
  BY <1>1, <1>5 DEF IsLabel
<1>8. LastOfName(source.data, d, n)
  <2> SUFFICES ASSUME NEW e \in (d + 1) .. n, IsLabel(source.data, e), source.data[e].name = name
               PROVE  FALSE
    BY <1>7 DEF LastOfName
  <2>1. e \in 1 .. n /\ ~(e <= d)
    BY <1>1, <1>7
  <2>2. e \in named
    BY <1>1, <2>1 DEF IsLabel
  <2> QED BY <1>5, <2>1, <2>2
<1> HIDE DEF named
<1>9. /\ d < n /\ ~IsLabel(source.data, d + 1)
      /\ ValuesAt(p, data_buffer_, address, items)
  <2>1. /\ d < n /\ ~IsLabel(source.data, d + 1)
        /\ KnownAt(source.data, p, data_buffer_, symbol_table_, n, data_index_, d)
    BY <1>4, <1>7, <1>8 DEF Parsed, LabelsKnown
  <2>2. d \in Nat
    BY <1>7
  <2>3. d # n
    BY <1>1, <2>1, <2>2, Below, Zenon
  <2> QED BY <1>7, <2>1, <2>3, Zenon DEF KnownAt
<1>10. /\ items \in Seq(ItemType) /\ Len(items) \in Nat /\ Len(items) # 0
       /\ DOMAIN items = 1 .. Len(items)
       /\ \A i \in 1 .. Len(items) : items[i].size \in Size /\ items[i].size \in Nat
  <2>1. d + 1 \in 1 .. n
    <3>1. d \in Nat
      BY <1>7
    <3> QED BY <1>1, <1>9, <3>1, Below, Zenon
  <2>2. items \in Seq(ItemType)
    BY <1>1, <1>9, <2>1, DirectiveItems, Zenon
  <2>3. items # <<>>
    BY <1>1, <1>9, <2>1 DEF ValuesInv, HasValues, IsLabel
  <2> HIDE DEF items
  <2>4. Len(items) # 0
    BY <2>2, <2>3, EmptySeq
  <2>5. Len(items) \in Nat /\ DOMAIN items = 1 .. Len(items)
    BY <2>2
  <2>6. \A i \in 1 .. Len(items) : items[i].size \in Size /\ items[i].size \in Nat
    BY <2>2, BufferTypes
  <2> QED BY <2>2, <2>4, <2>5, <2>6
<1> HIDE DEF items
<1>11. address \in Nat
  BY <1>1 DEF ImageTypes, TableTypes, SymbolType
<1> HIDE DEF address
<1>12. PICK b \in Nat :
           /\ b + Len(items) <= Len(data_buffer_)
           /\ \A i \in 1 .. Len(items) :
                  /\ data_buffer_[b + i] = items[i]
                  /\ p[b + i] = address + (i - 1) * items[i].size
  BY <1>9 DEF ValuesAt
<1>13. ASSUME NEW i \in 1 .. Len(items)
       PROVE  /\ DataStart + p[b + i] + items[i].size <= MemorySize
              /\ ReadGeneric(blocks_, DataStart + p[b + i], items[i].size) = items[i].value
  <2>1. b + i \in 1 .. Len(data_buffer_)
    <3>1. Len(data_buffer_) \in Nat /\ Len(items) \in Nat
      BY <1>1, <1>10
    <3>2. b + Len(items) <= Len(data_buffer_)
      BY <1>12
    <3> QED BY <3>1, <3>2
  <2>2. InMemory(p, data_buffer_, data_counter, blocks_, b + i)
    BY <1>4, <2>1, Zenon DEF LoadedTo
  <2>3. data_buffer_[b + i] = items[i]
    BY <1>12
  <2> QED BY <2>2, <2>3 DEF InMemory
<1>14. DataStart \in Nat /\ MemorySize \in Nat
  BY AssemblerAssumption, MemoryAssumption
<1>15. DataStart + address < MemorySize
  <2>1. 1 \in 1 .. Len(items)
    BY <1>10
  <2>2. /\ DataStart + p[b + 1] + items[1].size <= MemorySize
        /\ p[b + 1] = address + (1 - 1) * items[1].size
        /\ items[1].size \in Size
    BY <1>10, <1>12, <1>13, <2>1, Zenon
  <2>3. \A a, s \in Nat : a + (1 - 1) * s = a
    OBVIOUS
  <2>4. items[1].size \in Nat /\ items[1].size > 0
    BY <2>2 DEF Size
  <2>5. p[b + 1] = address
    BY <1>11, <2>2, <2>3, <2>4, Zenon
  <2> QED BY <1>11, <1>14, <2>2, <2>4, <2>5
<1>16. ASSUME NEW i \in 1 .. Len(items)
       PROVE  /\ items[i].size \in Nat /\ i \in Nat
              /\ ReadGeneric(blocks_, (DataStart + address) + (i - 1) * items[i].size, items[i].size)
                     = items[i].value
  <2>1. items[i].size \in Nat /\ i \in Nat /\ i - 1 \in Nat
    BY <1>10
  <2>2. p[b + i] = address + (i - 1) * items[i].size
    BY <1>12
  <2>3. \A s, k \in Nat : DataStart + (address + k * s) = (DataStart + address) + k * s
    BY <1>11, <1>14
  <2>4. DataStart + p[b + i] = (DataStart + address) + (i - 1) * items[i].size
    BY <2>1, <2>2, <2>3, Zenon
  <2> QED BY <1>13, <2>1, <2>4
<1> QED BY <1>6, <1>10, <1>15, <1>16, Zenon DEF named, items, address

\* The invariants of text and data hold throughout.
LEMMA DataLoadedAlways ==
    ASSUME SourcesFit, SourcesHaveValues
    PROVE  Spec => [](TextLoaded /\ ValuesInv /\ DataInv)
<1>1. Init => ValuesInv /\ DataInv
  BY ValuesStart DEF Init, DataInv, HasCode
<1>2. TextLoaded /\ ValuesInv /\ DataInv /\ [Next]_imageVars => ValuesInv' /\ DataInv'
  BY ValuesStep, DataStep DEF TextLoaded
<1> QED BY <1>1, <1>2, TextLoadedAlways, PTL DEF Spec

\* The address that an LA or a load from a label computes is that of the first value
\* after the label, and the other values of the directive follow it.
THEOREM AddressesAlwaysPointAtData ==
    ASSUME SourcesFit, SourcesHaveValues
    PROVE  Spec => []AddressesPointAtData
<1>1. ASSUME TextLoaded, ValuesInv, DataInv PROVE AddressesPointAtData
  <2> SUFFICES ASSUME phase = "loaded", NEW l \in Lines, NamesData(Line(l))
               PROVE  LET d == Max({k \in DOMAIN source.data :
                                        source.data[k].kind = "label"
                                        /\ source.data[k].name = Line(l).label})
                          items == Items(source.data[d + 1])
                          opcode == IF Line(l).opcode = "la" THEN "addi" ELSE "lw"
                      IN  \E high \in -MemorySize .. MemorySize, low \in LowRange :
                              /\ IsUpper(WordAt(Address(l)), "auipc", Line(l).rd, high)
                              /\ IsLower(WordAt(Address(l) + 4), opcode,
                                         Line(l).rd, Line(l).rd, low)
                              /\ \A i \in DOMAIN items :
                                     ReadGeneric(blocks_,
                                                 Address(l) + high * LowSize + low
                                                     + (i - 1) * items[i].size,
                                                 items[i].size) = items[i].value
    BY DEF AddressesPointAtData
  <2> DEFINE line == Line(l)
             first == intermediate_code_[Place(l) + 1]
             second == intermediate_code_[Place(l) + 2]
             named == {k \in DOMAIN source.data : source.data[k].kind = "label"
                                                  /\ source.data[k].name = line.label}
             items == Items(source.data[Max(named) + 1])
             opcode == IF line.opcode = "la" THEN "addi" ELSE "lw"
             address == symbol_table_[line.label].address
             offset == DataStart + address - Place(l) * 4
             high == High(offset)
             low == Low(offset)
  <2>1. /\ line \in TextLine /\ IsAddress(line) /\ Length(line) = 2
        /\ LineCoded(l) /\ Place(l) \in Nat /\ Address(l) = 4 * Place(l)
    BY <1>1, LineInMemory, LineCases, LineLengths
  <2>2. /\ line.label \in DOMAIN symbol_table_ /\ symbol_table_[line.label].isData
        /\ UnitIs(first, "auipc", line.rd, 0, high)
        /\ UnitIs(second, opcode, line.rd, line.rd, low) /\ opcode \in {"addi", "lw"}
    BY <2>1 DEF LineCoded, AddressCoded
  <2>3. /\ first \in UnitType /\ WordAt(Address(l)) = MachineCode(first)
        /\ second \in UnitType /\ WordAt(Address(l) + 4) = MachineCode(second)
        /\ 4 * Place(l) <= DataStart
    <3>1. 1 \in 1 .. Length(line) /\ 2 \in 1 .. Length(line)
      BY <2>1
    <3>2. /\ first \in UnitType /\ WordAt(Address(l) + 4 * (1 - 1)) = MachineCode(first)
          /\ second \in UnitType /\ WordAt(Address(l) + 4 * (2 - 1)) = MachineCode(second)
          /\ Place(l) + 1 \in 1 .. Len(intermediate_code_) /\ Len(intermediate_code_) \in Nat
      BY <1>1, <3>1, LineInMemory
    <3>3. Address(l) + 4 * (1 - 1) = Address(l) /\ Address(l) + 4 * (2 - 1) = Address(l) + 4
      BY <2>1
    <3>4. 4 * Len(intermediate_code_) <= DataStart
      BY <1>1, CodeBelowData DEF TextLoaded
    <3>5. DataStart \in Nat
      BY AssemblerAssumption
    <3>6. 4 * Place(l) <= DataStart
      BY <2>1, <3>2, <3>4, <3>5
    <3> QED BY <3>2, <3>3, <3>6
  <2>4. /\ DataStart + address < MemorySize
        /\ \A i \in DOMAIN items :
               /\ items[i].size \in Nat /\ i \in Nat
               /\ ReadGeneric(blocks_, (DataStart + address) + (i - 1) * items[i].size, items[i].size)
                      = items[i].value
    BY <1>1, <2>2, ValuesLoaded, Zenon
  <2>5. address \in Nat /\ DataStart \in Nat /\ MemorySize \in Nat
    BY <1>1, <2>2, AssemblerAssumption, MemoryAssumption
    DEF TextLoaded, ImageTypes, TableTypes, SymbolType
  <2> HIDE DEF line, first, second, address, items, named, opcode
  <2>6. offset \in 0 .. (MemorySize - 1)
    BY <2>1, <2>3, <2>4, <2>5
  <2>7. Address(l) + offset = DataStart + address
    BY <2>1, <2>5
  <2> HIDE DEF offset
  <2>8. /\ high \in -MemorySize .. MemorySize /\ low \in LowRange
        /\ high \in Int /\ low \in Int /\ offset = high * LowSize + low
    BY <2>5, <2>6, HighInMemory, PartTypes
  <2> HIDE DEF high, low
  <2>9. /\ IsUpper(WordAt(Address(l)), "auipc", line.rd, high)
        /\ IsLower(WordAt(Address(l) + 4), opcode, line.rd, line.rd, low)
    BY <2>2, <2>3, <2>8, UnitDecodes
  <2>10. ASSUME NEW i \in DOMAIN items
         PROVE  ReadGeneric(blocks_,
                            Address(l) + high * LowSize + low + (i - 1) * items[i].size,
                            items[i].size) = items[i].value
    <3>1. Address(l) + high * LowSize + low = DataStart + address
      <4>1. high * LowSize \in Int /\ Address(l) \in Int
        BY <2>1, <2>8, AssemblerAssumption
      <4> QED BY <2>7, <2>8, <4>1
    <3> QED BY <2>4, <3>1
  <2> QED BY <2>8, <2>9, <2>10 DEF named, items, line, opcode
<1> QED BY <1>1, DataLoadedAlways, PTL
===============================================================================
