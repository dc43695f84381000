------------------------------ MODULE FlatMemory ------------------------------
(***************************************************************************)
(* What the main memory promises: an array of bytes, all zero at first.    *)
(* An access to size bytes at an address, of which the last is still       *)
(* inside the memory, reads or writes exactly these bytes, the low-order   *)
(* byte first.  Any other access fails and changes nothing.                *)
(* A value is the set of its bits that are one.                            *)
(***************************************************************************)
EXTENDS Integers

CONSTANT MemorySize   \* memory_size of the configuration

Address == 0 .. (MemorySize - 1)
Byte == SUBSET (0 .. 7)
Size == {1, 2, 4, 8}

\* The bits 8 * i to 8 * i + 7 of a value.
ByteOf(value, i) == {b \in 0 .. 7 : b + 8 * i \in value}

Operation == {"none", "reset", "read", "write", "out_of_range"}

NoAccess == [op |-> "none", address |-> 0, size |-> 1, value |-> {}]

VARIABLES
    bytes,    \* the memory
    access    \* the last access, with its outcome

Init == bytes = [a \in Address |-> {}] /\ access = NoAccess

Fits(a, n) == a \in Nat /\ a + n <= MemorySize

Read ==
    /\ access'.op = "read"
    /\ Fits(access'.address, access'.size)
    /\ access'.value = {b \in 0 .. (8 * access'.size - 1) :
                           b % 8 \in bytes[access'.address + (b \div 8)]}
    /\ UNCHANGED bytes

Write ==
    /\ access'.op = "write"
    /\ Fits(access'.address, access'.size)
    /\ bytes' = [a \in Address |->
                    IF a - access'.address \in 0 .. (access'.size - 1)
                    THEN ByteOf(access'.value, a - access'.address)
                    ELSE bytes[a]]

Refuse ==
    /\ access'.op = "out_of_range"
    /\ ~Fits(access'.address, access'.size)
    /\ UNCHANGED bytes

Reset == access'.op = "reset" /\ bytes' = [a \in Address |-> {}]

Next == Read \/ Write \/ Refuse \/ Reset

Spec == Init /\ [][Next]_<<bytes, access>>
===============================================================================
