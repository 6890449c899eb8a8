-------------------------------- MODULE Isa ---------------------------------
(***************************************************************************)
(* What the pipeline promises: the RV32I machine that executes one         *)
(* instruction at a time, in program order.  A program exits through the   *)
(* exit call; any other ecall, an illegal instruction or a misaligned      *)
(* access ends it with an error.                                           *)
(***************************************************************************)
EXTENDS Execute

CONSTANTS SpReg, InitSp, A0, A7, ExitCall

VARIABLES
  program,
  pc,         \* the next instruction to execute (EntryPc once ended)
  regs,       \* the architectural registers
  memory,     \* partial function from addresses to bytes
  status,     \* "running", "done" or "error"
  exitCode

M == INSTANCE Memory

isaVars == <<program, pc, regs, memory, status, exitCode>>

Init ==
  /\ program \in Programs
  /\ pc = EntryPc
  /\ regs = [a \in Arch |-> IF a = SpReg /\ a # 0 THEN InitSp ELSE 0]
  /\ M!MemoryInit
  /\ status = "running"
  /\ exitCode = 0

Inst == InstrAt(program, pc)

(* Inst as the program counter sees it *)
Here == [op |-> Inst.op, imm |-> Inst.imm, pc |-> pc]

a == regs[Inst.rs1]
b == regs[Inst.rs2]

Address == WordAdd(a, Inst.imm)

Faults ==
  \/ Inst.op = "Illegal"
  \/ Inst.op = "Ecall" /\ regs[A7] # ExitCall
  \/ Inst.op \in MemoryOps /\ Misaligned(Address, Inst.op)

Step ==
  /\ status = "running" /\ ~Faults /\ Inst.op # "Ecall"
  /\ regs' = IF hasDest(Inst)
               THEN [regs EXCEPT ![Inst.rd] =
                       IF Inst.op \in Loads THEN M!loadValue(memory, Address, Inst.op)
                                            ELSE Value(Here, a, b)]
               ELSE regs
  /\ IF Inst.op \in Stores THEN M!storeValue(Address, b, memorySizeBytes(Inst.op))
                           ELSE UNCHANGED memory
  /\ pc' = Target(Here, a, b)
  /\ UNCHANGED <<program, status, exitCode>>

Exit ==
  /\ status = "running" /\ ~Faults /\ Inst.op = "Ecall"
  /\ status' = "done"
  /\ exitCode' = regs[A0]
  /\ pc' = EntryPc
  /\ UNCHANGED <<program, regs, memory>>

Fault ==
  /\ status = "running" /\ Faults
  /\ status' = "error"
  /\ pc' = EntryPc
  /\ UNCHANGED <<program, regs, memory, exitCode>>

Next == Step \/ Exit \/ Fault

Spec == Init /\ [][Next]_isaVars
=============================================================================
