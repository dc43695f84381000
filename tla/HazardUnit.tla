------------------------------ MODULE HazardUnit ------------------------------
(***************************************************************************)
(* HazardDetectionUnit::compute_signals and the latches it looks at.  The  *)
(* unit compares the registers the instruction in decode reads with the    *)
(* destination of the two older instructions still in flight, and either   *)
(* stalls the decode stage or tells execute where to take each operand.    *)
(* It does not look at MEM/WB: write-back runs before decode in a tick.    *)
(***************************************************************************)
EXTENDS Datapath

\* MODES 1..5; 0 is the single-cycle mode and does not use the pipeline.
PipelineMode == 1 .. 5
NoHazardMode == 1
StallMode == 2
ForwardingMode == 3
StaticBranchMode == 4
DynamicBranchMode == 5

ForwardSource == {"FROM_DECODE", "FROM_EXECUTE", "FROM_MEMORY"}

-----------------------------------------------------------------------------
(* The latches between the stages, as records. *)

IfId == [valid : BOOLEAN, pc : Int, inst : Instruction, predicted_as_taken : BOOLEAN]

IdEx == [valid : BOOLEAN, inst : Instruction, rd : Reg, signals : Signals,
         rs1_data : Word, rs2_data : Word, pc_plus_4 : Word, alu_ans : Word,
         forward_A : ForwardSource, forward_B : ForwardSource]

ExMem == [valid : BOOLEAN, inst : Instruction, rd : Reg, signals : Signals,
          alu_ans : Word, data : Word]

MemWb == [valid : BOOLEAN, inst : Instruction, rd : Reg, signals : Signals,
          alu_ans : Word, mem_data : Word]

IfIdBubble == [valid |-> FALSE, pc |-> 0, inst |-> ZeroInst, predicted_as_taken |-> FALSE]

IdExBubble == [valid |-> FALSE, inst |-> ZeroInst, rd |-> 0, signals |-> NoSignals,
               rs1_data |-> 0, rs2_data |-> 0, pc_plus_4 |-> 0, alu_ans |-> 0,
               forward_A |-> "FROM_DECODE", forward_B |-> "FROM_DECODE"]

ExMemBubble == [valid |-> FALSE, inst |-> ZeroInst, rd |-> 0, signals |-> NoSignals,
                alu_ans |-> 0, data |-> 0]

MemWbBubble == [valid |-> FALSE, inst |-> ZeroInst, rd |-> 0, signals |-> NoSignals,
                alu_ans |-> 0, mem_data |-> 0]

-----------------------------------------------------------------------------
UsesRs1(inst) ==
    inst.opcode \in {"OPIMM", "LOAD", "OPIMM32", "OP", "OP32", "STORE", "BRANCH", "JALR"}

UsesRs2(inst) == inst.opcode \in {"OP", "OP32", "STORE", "BRANCH"}

\* The instruction in latch l (ID/EX or EX/MEM) is going to write register r.
WillWrite(l, r) == l.valid /\ l.signals.reg_write /\ l.rd # 0 /\ l.rd = r

WillLoad(l, r) == l.valid /\ l.signals.mem_read /\ l.rd # 0 /\ l.rd = r

\* A test of rs1 and of rs2 counts for the operands the instruction uses.
Reads(inst, rs1Hit, rs2Hit) ==
    (UsesRs1(inst) /\ rs1Hit) \/ (UsesRs2(inst) /\ rs2Hit)

PendingWrite(inst, l) == Reads(inst, WillWrite(l, inst.rs1), WillWrite(l, inst.rs2))

PendingLoad(inst, l) == Reads(inst, WillLoad(l, inst.rs1), WillLoad(l, inst.rs2))

\* Mode 2 waits for every producer; Mode 3 and up wait for a load one ahead,
\* and for any producer when the instruction is resolved in decode itself.
StallFetch(mode, inst, id_ex, ex_mem) ==
    \/ /\ mode = StallMode
       /\ PendingWrite(inst, id_ex) \/ PendingWrite(inst, ex_mem)
    \/ /\ mode >= ForwardingMode
       /\ PendingLoad(inst, id_ex)
    \/ /\ mode >= ForwardingMode
       /\ inst.opcode \in {"BRANCH", "JALR"}
       /\ PendingWrite(inst, id_ex) \/ PendingWrite(inst, ex_mem)

\* Mutant: the oldest producer wins.
ForwardOldest(mode, used, rs, id_ex, ex_mem) ==
    IF mode >= ForwardingMode /\ used
    THEN CASE WillWrite(ex_mem, rs) -> "FROM_MEMORY"
           [] ~WillWrite(ex_mem, rs) /\ WillWrite(id_ex, rs) -> "FROM_EXECUTE"
           [] OTHER -> "FROM_DECODE"
    ELSE "FROM_DECODE"

\* The youngest producer wins.
Forward(mode, used, rs, id_ex, ex_mem) ==
    IF mode >= ForwardingMode /\ used
    THEN CASE WillWrite(id_ex, rs) -> "FROM_EXECUTE"
           [] ~WillWrite(id_ex, rs) /\ WillWrite(ex_mem, rs) -> "FROM_MEMORY"
           [] OTHER -> "FROM_DECODE"
    ELSE "FROM_DECODE"

ForwardA(mode, inst, id_ex, ex_mem) ==
    Forward(mode, UsesRs1(inst), inst.rs1, id_ex, ex_mem)

ForwardB(mode, inst, id_ex, ex_mem) ==
    Forward(mode, UsesRs2(inst), inst.rs2, id_ex, ex_mem)
=============================================================================
