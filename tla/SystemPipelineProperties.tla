----------------------- MODULE SystemPipelineProperties -----------------------
(***************************************************************************)
(* What the pipeline makes of system calls, CSR instructions and floats:   *)
(* the same as the single-cycle path, for code that keeps its distance.    *)
(***************************************************************************)
EXTENDS SystemPipeline

\* The latches hold the instructions of the program in order, each with the
\* signals of its opcode, and the registers and the memory hold words.
TypeOK ==
    /\ pc \in 0 .. (Len(code) + 4)
    /\ state \in State
    /\ if_id.valid => if_id.inst = CodeAt(pc - 1)
    /\ \A l \in {id_ex, ex_mem, mem_wb} :
          l.valid => l.signals = SystemSignals(l.inst) /\ l.rd = l.inst.rd
    /\ id_ex.rs1_data \in Word /\ id_ex.rs2_data \in Word
    /\ ex_mem.alu_ans \in Word /\ ex_mem.data \in Word
    /\ mem_wb.alu_ans \in Word /\ mem_wb.mem_data \in Word

-----------------------------------------------------------------------------
(* The abstraction: let the instructions that have left decode finish, oldest
   first. *)

AbstractState ==
    LET older == WriteBack(MemoryLatch(ex_mem, state), Store(ex_mem, WriteBack(mem_wb, state)))
        executed == ExecuteLatch(id_ex, ex_mem, mem_wb)
        called == SystemEffect(id_ex, older)
    IN  WriteBack(MemoryLatch(executed, called), Store(executed, called))

AbstractPc == IF if_id.valid THEN pc - 1 ELSE pc

SingleCycle == INSTANCE SystemMachine WITH pc <- AbstractPc, state <- AbstractState

-----------------------------------------------------------------------------
(* The distances the pipeline relies on and does not check.  k instructions
   before instruction i: *)
Before(i, k) == IF i > k THEN code[i - k] ELSE ZeroInst

WritesNumber(inst, r) == SystemSignals(inst).reg_write /\ inst.rd = r

Writes(inst, file, r) == WritesNumber(inst, r) /\ DestinationFile(inst) = file

\* The operand, register r of file meant, is read from file decoded, or is
\* forwarded from the instruction just before.  In the forwarding modes a
\* register of the same number in the other file must not come in between, and
\* f0 is taken for x0, so that nobody waits for it.
OperandSettled(i, decoded, meant, r) ==
    LET one == Before(i, 1)
        two == Before(i, 2)
        forwarding == pipeline_mode >= ForwardingMode /\ r # 0
    IN  IF forwarding /\ WritesNumber(one, r) THEN DestinationFile(one) = meant
        ELSE /\ decoded = meant
             /\ forwarding /\ WritesNumber(two, r) => DestinationFile(two) = meant
             /\ r = 0 /\ meant = "fpr" => ~Writes(one, meant, r) /\ ~Writes(two, meant, r)

OperandsSettled(i) ==
    LET inst == code[i]
    IN  /\ UsesFirst(inst) =>
              OperandSettled(i, DecodedFirstFile(inst), FirstFile(inst), inst.rs1)
        /\ UsesSecond(inst) /\ inst.funct \notin {"fmv.x.w", "fmv.w.x"} =>
              OperandSettled(i, SecondFile(inst), SecondFile(inst), inst.rs2)

\* A system call does not wait for the instruction before it.
CallSettled(i) ==
    IsEcall(code[i]) => \A r \in {A0, A1, A2, A7} : ~Writes(Before(i, 1), "gpr", r)

\* A CSR instruction does not wait for the two before it and loses its result.
CsrSettled(i) ==
    IsCsr(code[i]) =>
        /\ code[i].rd = 0
        /\ \A k \in 1 .. 2 : code[i].rs1 # 0 => ~Writes(Before(i, k), "gpr", code[i].rs1)

Disciplined == \A i \in 1 .. Len(code) : OperandsSettled(i) /\ CallSettled(i) /\ CsrSettled(i)

\* Code that keeps these distances runs in the pipeline as it does one
\* instruction at a time: same registers of both files, same memory, same CSR,
\* same output in the same order.  A system call acts in the execute stage,
\* before older instructions have written back and after younger ones were
\* fetched, and still sees every older store (pipeline_execute, HandleSyscall,
\* pipeline_execute_csr, pipeline_decode, compute_signals).
RunsInOrder == [][Disciplined => SingleCycle!ExecuteOne]_<<AbstractPc, AbstractState>>
===============================================================================
