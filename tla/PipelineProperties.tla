-------------------------- MODULE PipelineProperties --------------------------
(***************************************************************************)
(* What the pipeline promises: the refinement mapping to Machine, and the  *)
(* invariants that relate the latches, the predictor and the registers.    *)
(***************************************************************************)
EXTENDS Pipeline

-----------------------------------------------------------------------------
(* The abstraction: let the instructions that have left decode finish, oldest
   first.  An instruction is counted as executed when it leaves decode. *)

GprAfterWriteBack == WriteBackStage(mem_wb, gpr)

GprAfterMemory == WriteBackStage(MemoryStage(ex_mem, memory), GprAfterWriteBack)

MemoryAfterMemory == MemoryWrite(ex_mem, memory)

Executed == ExecuteStage(id_ex, ex_mem, mem_wb)

AbstractGpr == WriteBackStage(MemoryStage(Executed, MemoryAfterMemory), GprAfterMemory)

AbstractMemory == MemoryWrite(Executed, MemoryAfterMemory)

\* The next instruction to execute is the one waiting in IF/ID.
AbstractPc == IF if_id.valid THEN if_id.pc ELSE program_counter

Abstract == INSTANCE Machine WITH program_counter <- AbstractPc,
                                  gpr <- AbstractGpr,
                                  memory <- AbstractMemory

\* The pipeline implements the single-cycle machine: seen through the
\* mapping, every tick executes one instruction exactly as Fetch .. WriteBack
\* do, or nothing.  This is what the stalls, the forwarding paths and the
\* flushes of Clocktick are for.
ImplementsMachine == Abstract!MachineSpec

\* An instruction the pipeline executes as the machine does: it is right about
\* neither LUI nor AUIPC, loses the link of a jump, takes conditional branches in
\* Modes 4 and 5 only, and does not notice a wrong target of a JALR in Mode 5.
Handled(mode, inst) ==
    /\ inst.opcode \notin {"LUI", "AUIPC"}
    /\ IsJump(inst) => inst.rd = 0
    /\ inst.opcode = "BRANCH" => mode >= StaticBranchMode
    /\ inst.opcode = "JALR" => mode < DynamicBranchMode

\* Each of them runs in a mode with hazard handling a program that mode handles.
AllHandled(scenarios) ==
    \A s \in scenarios :
        /\ s[1] >= StallMode
        /\ \A a \in TextAddr : a < s[2].size => Handled(s[1], s[2].code[a])

ScenariosHandled == AllHandled(Scenario)

-----------------------------------------------------------------------------
\* The operands execute is about to use, forwarded or read in decode, are the
\* values the registers have once the older instructions have written back
\* (compute_signals and the forwarding switches of pipeline_execute).
OperandsCurrent ==
    id_ex.valid /\ ~IsJump(id_ex.inst) =>
        /\ UsesRs1(id_ex.inst) =>
              OperandA(id_ex, ex_mem, mem_wb) = GprAfterMemory[id_ex.inst.rs1]
        /\ UsesRs2(id_ex.inst) =>
              OperandB(id_ex, ex_mem, mem_wb) = GprAfterMemory[id_ex.inst.rs2]

\* Decode and fetch hand the stall and the flush over within one tick: none is
\* pending between ticks, so Step, Run and Reset (which forgets flush_fetch_)
\* can start from any state.
FlagsConsumed == ~flush_fetch_ /\ ~pipeline_stalled_

\* The branch target buffer of Mode 5 only knows control-flow instructions of
\* the loaded program, with the target they really have.  Decode relies on it:
\* it checks the direction of a prediction and never its target.
TargetBufferSound ==
    \A pc \in DOMAIN bpu.btb :
        LET inst == ReadInstruction(text, pc)
        IN  IsControlFlow(inst) /\ (inst.opcode # "JALR" => bpu.btb[pc] = pc + inst.imm)

\* Fetch has moved on to the predicted successor of the instruction in IF/ID
\* and no further: a flush can only ever have to drop one fetch.
FetchFollowsPrediction ==
    if_id.valid =>
        /\ if_id.inst = ReadInstruction(text, if_id.pc)
        /\ ~if_id.predicted_as_taken => program_counter = if_id.pc + 1
        /\ if_id.predicted_as_taken =>
              /\ IsControlFlow(if_id.inst)
              /\ if_id.inst.opcode # "JALR" =>
                    program_counter = if_id.pc + if_id.inst.imm

\* When decode trains the predictor, the history is still the one fetch used
\* for that instruction: the counter it moves is the one that was consulted,
\* and operator[] never creates another.
TrainsConsultedCounter ==
    pipeline_mode >= DynamicBranchMode /\ if_id.valid =>
        IndexOf(bpu, if_id.pc) \in DOMAIN bpu.bht

\* The five ticks of the flush loop let every instruction of the program
\* finish, so that registers and memory are final when VM_PROGRAM_END is
\* reported: in the forwarding modes, for a program that does not end in a
\* branch or a jump, and if the execution limit did not cut the run short.
LastInstructionFallsThrough ==
    program_size_ > 0 => ~IsControlFlow(text[program_size_ - 1])

FinishedAtProgramEnd ==
    /\ pipeline_mode >= ForwardingMode
    /\ LastInstructionFallsThrough
    /\ instructions_retired_ <= ExecutionLimit
    /\ run_phase = "idle" /\ output_status_ = "VM_PROGRAM_END"
    => AbstractGpr = gpr /\ AbstractMemory = memory

\* Labels are in the program: no branch or jump goes before its first instruction.
AllBounded(scenarios) ==
    \A s \in scenarios : \A a \in TextAddr :
        a < s[2].size /\ s[2].code[a].opcode \in {"BRANCH", "JAL"} =>
            a + s[2].code[a].imm >= 0

ScenariosBounded == AllBounded(Scenario)

-----------------------------------------------------------------------------
\* Going round a loop retires an instruction: jumps count as retired, and a
\* conditional branch backwards leads to an instruction that writes a register.
LoopsRetire ==
    \A a \in TextAddr :
        text[a].opcode = "BRANCH" /\ text[a].imm <= 0 =>
            SetControlSignals(ReadInstruction(text, a + text[a].imm)).reg_write

\* What a tick of the main loop brings forward, the first of three that moves:
\* the instructions that write a register and have left decode (the limit counts
\* them, the latest three of them before it can see them) ...
Counts(l) == IF l.valid /\ l.signals.reg_write THEN 1 ELSE 0

Committed == instructions_retired_ + Counts(mem_wb) + Counts(ex_mem) + Counts(id_ex)

\* ... the way left to the end of the text, or to the next such instruction if
\* that is the one to decode ...
DistanceFrom(code, pc) ==
    IF pc >= TextSize \/ SetControlSignals(ReadInstruction(code, pc)).reg_write
    THEN 0 ELSE TextSize - pc

Distance == DistanceFrom(text, AbstractPc)

\* ... and the ticks until decode has an instruction it can issue: the fetch of
\* one, and the writers ahead of it that it may have to wait for.
Waiting(fd, d, x) ==
    (IF fd.valid THEN 0 ELSE 4) + (IF d.valid THEN 2 ELSE 0) + (IF x.valid THEN 1 ELSE 0)

\* Every tick of the main loop gets on with the program: it commits another
\* instruction that the execution limit will count, or comes closer to the end of
\* the program or to such an instruction, or is one of the few ticks that a stall
\* or a flush may cost.  This is why Run_Pipelined cannot go round for ever with
\* the limit out of sight.
RunAdvances ==
    [][MainLoopTick /\ LoopsRetire =>
          \/ Committed' > Committed
          \/ /\ Committed' = Committed
             /\ \/ Distance' < Distance
                \/ /\ Distance' = Distance
                   /\ Waiting(if_id, id_ex, ex_mem)' < Waiting(if_id, id_ex, ex_mem)]_vars

\* Run_Pipelined comes to an end, by itself when every loop of the program
\* retires instructions (the execution limit counts those) and after a stop
\* request in any case: no stall, flush or misprediction holds it up forever,
\* nor a reset or a load in mid-run, unless the user goes on with them for ever.
RunEnds ==
    <>[][~Reset /\ ~LoadProgram]_vars
    => []<>(run_phase = "idle" \/ (~LoopsRetire /\ ~stop_requested_))

\* VM_PROGRAM_END means that the program is done: "Incomplete Flush Loop Bug:
\* Fixed by dynamic valid-bit loop".  The registers and the memory are final,
\* whatever the mode and the last instruction.
DrainedAtProgramEnd ==
    run_phase = "idle" /\ output_status_ = "VM_PROGRAM_END"
    => AbstractGpr = gpr /\ AbstractMemory = memory
==============================================================================
