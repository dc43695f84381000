---------------------------- MODULE SystemPipeline ----------------------------
(***************************************************************************)
(* The five stages again, for what Pipeline leaves out: system calls, CSR  *)
(* instructions and floating point, in straight-line code (so without      *)
(* predictions and flushes) in Mode 2 and in the forwarding modes.         *)
(*                                                                         *)
(* A system call and a CSR instruction take effect in the execute stage,   *)
(* between the write-back and the decode of the same tick, and put nothing *)
(* into EX/MEM.  A float instruction goes through the latches like an      *)
(* integer one; only decode and write-back know which file a register is   *)
(* in, and the hazard unit does not.                                       *)
(***************************************************************************)
EXTENDS SystemMachine

CONSTANTS
    LoadedCode,     \* the programs that can be loaded: sequences of instructions
    InitialState    \* what the user has set registers and memory to

ASSUME CodeAssumption == LoadedCode \subseteq Seq(SystemInstruction)
ASSUME InitialAssumption == InitialState \subseteq State

VARIABLES if_id, id_ex, ex_mem, mem_wb, pipeline_mode

latches == <<if_id, id_ex, ex_mem, mem_wb>>
vars == <<code, pc, state, latches, pipeline_mode>>

FetchBubble == [valid |-> FALSE, inst |-> ZeroInst]

-----------------------------------------------------------------------------
(* compute_signals *)

UsesFirst(inst) == UsesRs1(inst) \/ IsFloat(inst)
UsesSecond(inst) == UsesRs2(inst) \/ inst.opcode \in {"FSTORE", "FP"}

\* Register numbers, whatever the file.
Used(inst) ==
    (IF UsesFirst(inst) THEN {inst.rs1} ELSE {}) \cup (IF UsesSecond(inst) THEN {inst.rs2} ELSE {})

Stall ==
    \E r \in Used(if_id.inst) :
        \/ pipeline_mode = StallMode /\ (WillWrite(id_ex, r) \/ WillWrite(ex_mem, r))
        \/ pipeline_mode >= ForwardingMode /\ WillLoad(id_ex, r)

-----------------------------------------------------------------------------
(* The stages, oldest instruction first. *)

WriteBack(w, s) ==
    IF w.valid /\ w.signals.reg_write
    THEN WriteRegister(s, DestinationFile(w.inst), w.rd,
                       IF w.signals.mem_to_reg THEN w.mem_data ELSE w.alu_ans)
    ELSE s

MemoryLatch(x, s) ==
    IF x.valid
    THEN [valid |-> TRUE, inst |-> x.inst, rd |-> x.rd, signals |-> x.signals,
          alu_ans |-> x.alu_ans,
          mem_data |-> IF x.signals.mem_read THEN s.memory[x.alu_ans] ELSE 0]
    ELSE MemWbBubble

Store(x, s) ==
    IF x.valid /\ x.signals.mem_write
    THEN [s EXCEPT !.memory = WriteDoubleWord(@, x.alu_ans, x.data)] ELSE s

Forwarded(source, fromDecode, x, w) ==
    CASE source = "FROM_EXECUTE" -> x.alu_ans
      [] source = "FROM_MEMORY" -> IF w.signals.mem_to_reg THEN w.mem_data ELSE w.alu_ans
      [] OTHER -> fromDecode

FirstOperand(d, x, w) == Forwarded(d.forward_A, d.rs1_data, x, w)
SecondOperand(d, x, w) == Forwarded(d.forward_B, d.rs2_data, x, w)

ExecuteLatch(d, x, w) ==
    LET second == SecondOperand(d, x, w)
    IN  IF d.valid /\ d.inst.opcode # "SYSTEM"
        THEN [valid |-> TRUE, inst |-> d.inst, rd |-> d.rd, signals |-> d.signals,
              alu_ans |-> Computed(d.inst, FirstOperand(d, x, w), second),
              data |-> second]
        ELSE ExMemBubble

\* pipeline_execute_csr works on the value read in decode, and its result does
\* not reach the destination register.
SystemEffect(d, s) ==
    IF d.valid /\ IsEcall(d.inst) THEN HandleSyscall(s)
    ELSE IF d.valid /\ IsCsr(d.inst)
    THEN [s EXCEPT !.csr = CsrValue(d.inst, @, d.rs1_data)]
    ELSE s

\* The file pipeline_decode reads rs1 from: of the float instructions, a store
\* and FMV.X.W read an integer register.
DecodedFirstFile(inst) ==
    IF inst.opcode = "FLOAD" \/ (inst.opcode = "FP" /\ inst.funct # "fmv.x.w")
    THEN "fpr" ELSE "gpr"

DecodeLatch(inst, s) ==
    [valid |-> TRUE, inst |-> inst, rd |-> inst.rd, signals |-> SystemSignals(inst),
     rs1_data |-> ReadRegister(s, DecodedFirstFile(inst), inst.rs1),
     rs2_data |-> ReadRegister(s, SecondFile(inst), inst.rs2),
     forward_A |-> Forward(pipeline_mode, UsesFirst(inst), inst.rs1, id_ex, ex_mem),
     forward_B |-> Forward(pipeline_mode, UsesSecond(inst), inst.rs2, id_ex, ex_mem)]

EmptyDecode ==
    [valid |-> FALSE, inst |-> ZeroInst, rd |-> 0, signals |-> NoSignals,
     rs1_data |-> 0, rs2_data |-> 0,
     forward_A |-> "FROM_DECODE", forward_B |-> "FROM_DECODE"]

\* Mutant: execute runs before memory and write-back.
AfterExecuteFirst(d, x, w, s) == WriteBack(w, Store(x, SystemEffect(d, s)))

\* The program-visible state after the stages of a tick that change it.
AfterExecute(d, x, w, s) == SystemEffect(d, Store(x, WriteBack(w, s)))

-----------------------------------------------------------------------------
Init ==
    /\ code \in LoadedCode
    /\ pc = 0
    /\ state \in InitialState
    /\ if_id = FetchBubble /\ id_ex = EmptyDecode
    /\ ex_mem = ExMemBubble /\ mem_wb = MemWbBubble
    /\ pipeline_mode \in {StallMode, ForwardingMode}

Clocktick ==
    LET after == AfterExecute(id_ex, ex_mem, mem_wb, state)
    IN  /\ state' = after
        /\ mem_wb' = MemoryLatch(ex_mem, state)
        /\ ex_mem' = ExecuteLatch(id_ex, ex_mem, mem_wb)
        /\ id_ex' = IF Stall \/ ~if_id.valid THEN EmptyDecode ELSE DecodeLatch(if_id.inst, after)
        /\ IF Stall THEN UNCHANGED <<pc, if_id>>
           ELSE /\ if_id' = [valid |-> TRUE, inst |-> CodeAt(pc)]
                /\ pc' = pc + 1
        /\ UNCHANGED <<code, pipeline_mode>>

\* Run_Pipelined ends the main loop at the program's end and adds five ticks;
\* here the pipeline runs until the last instruction has drained.
Drained == pc >= Len(code) + 4

Next == ~Drained /\ Clocktick

Spec == Init /\ [][Next]_vars
===============================================================================
