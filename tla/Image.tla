-------------------------------- MODULE Image --------------------------------
(***************************************************************************)
(* From a source to an image in memory: LOAD assembles a program and, if   *)
(* there were no errors, LoadProgram writes its text from address 0 and    *)
(* its data from the start of the data section into the main memory, item  *)
(* by item.  MODIFY_MEMORY, memory reads and RESET use the same memory.    *)
(*                                                                         *)
(* An address outside the memory ends the process in the middle of a load  *)
(* (nothing catches std::out_of_range there); MODIFY_MEMORY catches it.    *)
(*                                                                         *)
(* phase goes on after the assembler's: "write_text" and "write_data" while*)
(* the program is loaded, "loaded" when it is, "idle" when there is no     *)
(* program or its image was touched, "crashed".                            *)
(***************************************************************************)
EXTENDS Assembler, MainMemory

CONSTANTS
    Session,         \* bound: what the user loads, and how often he probes
    ProbeAddress,    \* bound: addresses the user reads and writes
    ProbeValue       \* bound: values the user writes

ASSUME SessionAssumption ==
    /\ Session \subseteq [sources : Seq(Source), probes : Nat]
    /\ ProbeAddress \subseteq Nat

VARIABLES
    session,      \* [sources |-> those still to load, probes |-> those left]
    loaded,       \* items of the text or the data written so far
    data_counter

loaderVars == <<loaded, data_counter>>
imageVars == <<parserVars, memoryVars, session, loaderVars>>

Resting == phase \in {"idle", "loaded", "failed"}

Init ==
    /\ session \in Session
    /\ source = [data |-> <<>>, text |-> <<>>]
    /\ phase = "idle" /\ pos_ = 1
    /\ data_index_ = 0 /\ symbol_table_ = <<>> /\ data_buffer_ = <<>>
    /\ intermediate_code_ = <<>> /\ back_patch_ = <<>> /\ errors_ = 0
    /\ MemoryInit
    /\ loaded = 0 /\ data_counter = 0

-----------------------------------------------------------------------------
LoadCommand ==
    /\ Resting
    /\ session.sources # <<>>
    /\ Parsing(Head(session.sources))
    /\ session' = [session EXCEPT !.sources = Tail(@)]
    /\ UNCHANGED <<memoryVars, loaderVars>>

AssembleStep == AssemblerNext /\ UNCHANGED <<memoryVars, session, loaderVars>>

\* The rest of the assembler's state is gone with the Parser; what the program
\* has of it stays.
ProgramKept ==
    UNCHANGED <<source, pos_, data_index_, symbol_table_, data_buffer_, intermediate_code_,
                back_patch_, errors_>>

BeginLoadProgram ==
    /\ phase = "assembled"
    /\ phase' = "write_text"
    /\ loaded' = 0 /\ data_counter' = 0
    /\ ProgramKept /\ UNCHANGED <<memoryVars, session>>

LoadTextWord ==
    /\ phase = "write_text" /\ loaded < Len(text_buffer)
    /\ WriteMemory(loaded * 4, 4, text_buffer[loaded + 1])
    /\ phase' = IF InRange(loaded * 4, 4) THEN phase ELSE "crashed"
    /\ loaded' = loaded + 1
    /\ ProgramKept /\ UNCHANGED <<session, data_counter>>

EndText ==
    /\ phase = "write_text" /\ loaded = Len(text_buffer)
    /\ phase' = "write_data"
    /\ loaded' = 0
    /\ ProgramKept /\ UNCHANGED <<memoryVars, session, data_counter>>

LoadDataItem ==
    /\ phase = "write_data" /\ loaded < Len(data_buffer_)
    /\ LET item == data_buffer_[loaded + 1]
           counter == Align(data_counter, item.size)
       IN  /\ WriteMemory(DataStart + counter, item.size, item.value)
           /\ phase' = IF InRange(DataStart + counter, item.size) THEN phase ELSE "crashed"
           /\ data_counter' = counter + item.size
    /\ loaded' = loaded + 1
    /\ ProgramKept /\ UNCHANGED session

EndData ==
    /\ phase = "write_data" /\ loaded = Len(data_buffer_)
    /\ phase' = "loaded"
    /\ ProgramKept /\ UNCHANGED <<memoryVars, session, loaderVars>>

-----------------------------------------------------------------------------
Probe ==
    /\ session.probes > 0
    /\ session' = [session EXCEPT !.probes = @ - 1]

ModifyMemory ==
    /\ Resting /\ Probe
    /\ \E a \in ProbeAddress, size \in Size, value \in ProbeValue :
           WriteMemory(a, size, value \cap (0 .. 8 * size - 1))
    /\ phase' = "idle"
    /\ ProgramKept /\ UNCHANGED loaderVars

\* A load of the machine, or a command that shows memory.
LookAtMemory ==
    /\ Resting /\ Probe
    /\ \E a \in ProbeAddress, size \in Size : ReadMemory(a, size)
    /\ ProgramKept /\ UNCHANGED <<phase, loaderVars>>

ResetCommand ==
    /\ Resting /\ Probe
    /\ ResetMemory
    /\ phase' = "idle"
    /\ ProgramKept /\ UNCHANGED loaderVars

-----------------------------------------------------------------------------
Next ==
    \/ LoadCommand \/ AssembleStep
    \/ BeginLoadProgram \/ LoadTextWord \/ EndText \/ LoadDataItem \/ EndData
    \/ ModifyMemory \/ LookAtMemory \/ ResetCommand

Spec == Init /\ [][Next]_imageVars
===============================================================================
