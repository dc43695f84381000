------------------------------ MODULE MainMemory ------------------------------
(***************************************************************************)
(* The class Memory: a sparse map from block indices to blocks of bytes.   *)
(* A block comes into being, filled with zeros, when a byte of it is first *)
(* written; reading never creates one.                                     *)
(*                                                                         *)
(* A value is the set of its bits that are one, so that its width is that  *)
(* of the code and byte order is a matter of which bits go where.          *)
(***************************************************************************)
EXTENDS Integers

CONSTANTS
    MemorySize,   \* memory_size_
    BlockSize     \* block_size_

\* Smaller memories would wrap memory_size_ - 7 around.
ASSUME MemoryAssumption ==
    /\ MemorySize \in Nat /\ MemorySize >= 8
    /\ BlockSize \in Nat /\ BlockSize > 0

VARIABLES
    blocks_,
    access   \* the last access and its outcome, as FlatMemory describes it

memoryVars == <<blocks_, access>>

Size == {1, 2, 4, 8}
Byte == SUBSET (0 .. 7)
Value == SUBSET (0 .. 63)
Block == [0 .. (BlockSize - 1) -> Byte]

GetBlockIndex(address) == address \div BlockSize
GetBlockOffset(address) == address % BlockSize

MemoryTypeOK ==
    /\ DOMAIN blocks_ \subseteq Nat
    /\ \A k \in DOMAIN blocks_ : blocks_[k] \in Block

\* The test every access makes, in the width it has.  Mutant: the width is
\* left out of account.
InRangeFirstByte(address, size) == address < MemorySize

InRange(address, size) == address < MemorySize - (size - 1)

Read(blocks, address) ==
    IF GetBlockIndex(address) \in DOMAIN blocks
    THEN blocks[GetBlockIndex(address)][GetBlockOffset(address)]
    ELSE {}

ReadGeneric(blocks, address, size) ==
    {b \in 0 .. (8 * size - 1) : b % 8 \in Read(blocks, address + (b \div 8))}

\* static_cast<uint8_t>(value >> (8*i)).  Mutant: without the cast.
ByteAtUncast(value, i) == {b \in 0 .. 63 : b + 8 * i \in value}

ByteAt(value, i) == {b \in 0 .. 7 : b + 8 * i \in value}

\* The loop over Write, byte by byte; EnsureBlockExists creates the blocks.
WriteGeneric(blocks, address, size, value) ==
    [k \in DOMAIN blocks \cup {GetBlockIndex(address + i) : i \in 0 .. (size - 1)} |->
        [o \in 0 .. (BlockSize - 1) |->
            LET i == k * BlockSize + o - address
            IN  IF i \in 0 .. (size - 1) THEN ByteAt(value, i)
                ELSE IF k \in DOMAIN blocks THEN blocks[k][o] ELSE {}]]

Accessed(op, address, size, value) ==
    access' = [op |-> op, address |-> address, size |-> size, value |-> value]

-----------------------------------------------------------------------------
MemoryInit ==
    /\ blocks_ = [k \in {} |-> [o \in 0 .. (BlockSize - 1) |-> {}]]
    /\ access = [op |-> "none", address |-> 0, size |-> 1, value |-> {}]

\* ReadByte, ReadHalfWord, ReadWord and ReadDoubleWord
ReadMemory(address, size) ==
    /\ IF InRange(address, size)
       THEN Accessed("read", address, size, ReadGeneric(blocks_, address, size))
       ELSE Accessed("out_of_range", address, size, {})
    /\ UNCHANGED blocks_

\* WriteByte, WriteHalfWord, WriteWord and WriteDoubleWord
WriteMemory(address, size, value) ==
    IF InRange(address, size)
    THEN /\ Accessed("write", address, size, value)
         /\ blocks_' = WriteGeneric(blocks_, address, size, value)
    ELSE Accessed("out_of_range", address, size, {}) /\ UNCHANGED blocks_

ResetMemory ==
    /\ Accessed("reset", 0, 1, {})
    /\ blocks_' = [k \in {} |-> [o \in 0 .. (BlockSize - 1) |-> {}]]

MemoryNext ==
    \/ \E address \in Nat, size \in Size :
           \/ ReadMemory(address, size)
           \/ \E value \in Value : WriteMemory(address, size, value)
    \/ ResetMemory

MemorySpec == MemoryInit /\ [][MemoryNext]_memoryVars

-----------------------------------------------------------------------------
\* What an observer of the memory can read.
Flat == INSTANCE FlatMemory WITH
            bytes <- [a \in 0 .. (MemorySize - 1) |-> Read(blocks_, a)]

\* The sparse blocks are an array of bytes, whatever is loaded, written, read and
\* reset, across block borders and at the end of the memory.
MemoryIsFlat == Flat!Spec
===============================================================================
