------------------------------ MODULE MCPipeline ------------------------------
(***************************************************************************)
(* Small programs for the pipeline: every sequence of ProgramLength        *)
(* instructions of a pool, in every mode the pool is right for.            *)
(***************************************************************************)
EXTENDS PipelineProperties, MCPrograms, Bitwise

\* Program counters count instructions here and bytes in the code.
MCIndex(pc, history) == (4 * pc) ^^ history

-----------------------------------------------------------------------------
(* Register and memory traffic: every pair of producer and consumer, at
   distance one and two, through each operand. *)

DataPool == {Addi(1, 0, 1), Addi(2, 1, 2), Add(1, 1, 2), Sub(2, 2, 1),
             Ld(1, 2, 0), Ld(0, 1, 0), Sd(1, 2, 1), Addw(1, 2, 2)}

(* Jumps that link to x0, their targets read from a register. *)
JumpPool == {Addi(1, 0, 3), Addi(1, 1, 1), Ld(1, 2, 0), Jal(0, 2), Jalr(0, 1, 0)}

(* Branches of every kind, forward and backward, on registers just written. *)
BranchPool == {Addi(1, 1, 1), Addi(2, 0, 2), Ld(1, 2, 0), Beq(1, 2, 2), Bne(1, 2, -1),
               Blt(2, 1, 2), Jal(0, 2)}

DataPrograms == Programs(DataPool, 3)
JumpPrograms == Programs(JumpPool, 3)
BranchPrograms == Programs(BranchPool, 3)

MCProgram == DataPrograms \cup JumpPrograms \cup BranchPrograms

MCScenario ==
    ((2 .. 5) \X DataPrograms) \cup ((2 .. 4) \X JumpPrograms) \cup ((4 .. 5) \X BranchPrograms)

\* What the theorems assume of the scenarios they are proved for.
ASSUME PoolsHandled == AllHandled(MCScenario) /\ AllBounded(MCScenario)

-----------------------------------------------------------------------------
(* Programs for the driving loops: a counted loop, a loop without any register
   write. *)

CountedLoop == Assemble(<<Addi(1, 1, 1), Ld(2, 0, 0), Bne(1, 2, -2)>>)
SilentLoop == Assemble(<<Addi(1, 0, 1), Bne(1, 0, 0)>>)

RunProgram == {CountedLoop, SilentLoop}
RunScenario == (2 .. 5) \X RunProgram

(* Programs that show where the pipeline departs from what is said of it. *)

\* A taken branch over one instruction.
TakenBranch == Assemble(<<Beq(0, 0, 2), Addi(1, 0, 1), Addi(2, 0, 2)>>)
TakenBranchProgram == {TakenBranch}
ForwardingBranchScenario == {ForwardingMode} \X TakenBranchProgram

\* A call: the return address goes to x1.
Call == Assemble(<<Addi(2, 0, 1), Jal(1, 2), Addi(2, 0, 2), Addi(2, 0, 3)>>)
CallProgram == {Call}
CallScenario == {StaticBranchMode} \X CallProgram

\* The last two instructions of input.s: a load and an addition that needs it.
DependentEnd == Assemble(<<Ld(1, 0, 1), Addi(2, 1, 1)>>)
DependentEndProgram == {DependentEnd}
DependentEndScenario == {StallMode} \X DependentEndProgram
==============================================================================
