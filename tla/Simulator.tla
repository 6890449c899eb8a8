----------------------------- MODULE Simulator -----------------------------
(***************************************************************************)
(* Simulator.cpp: the out-of-order pipeline.  One cycle of Simulator::run  *)
(* is commit, complete, issue, rename, fetch, in this order, and each      *)
(* stage is a loop; an action here is one iteration of one of these loops, *)
(* or the exit from it.  What the code takes from caches and predictor     *)
(* (latencies and predictions) is chosen nondeterministically.             *)
(*                                                                         *)
(* The cycle count and its limit maxCycles, the statistics and the         *)
(* instruction trace are left out: nothing in the pipeline reads them, but *)
(* for the limit, which turns an endless execution into an error.          *)
(***************************************************************************)
EXTENDS ExecutionUnits, InstructionFetch, Memory

CONSTANTS
  CommitWidth,    \* config_.core.commitWidth
  RenameWidth,    \* min(config_.core.renameWidth, config_.core.decodeWidth)
  DataLatencies,  \* latencies accessData may return
  A0, A7,         \* argument registers of the exit call (x10 and x17)
  ExitCall        \* the only system call (93)

ASSUME SimulatorAssumption ==
  /\ CommitWidth \in Nat /\ RenameWidth \in Nat
  /\ DataLatencies \subseteq Nat
  /\ A0 \in Arch \ {0} /\ A7 \in Arch \ {0}
  /\ ExitCall \in Word

VARIABLES
  stage,            \* the stage whose loop is running, or how the run ended
  done,             \* iterations of that loop so far (commit, rename, fetch)
  work,             \* sequence numbers the loop still has to visit
                    \* (the vectors 'completed' and 'ready')
  halted,           \* stats_.halted
  exitCode,         \* stats_.exitCode
  stoppedFetching   \* stoppedFetching_

loopVars == <<stage, done, work>>
exitVars == <<halted, exitCode, stoppedFetching>>
vars == <<memory, renameVars, prfVars, robVars, iq, exec, lastTarget, program,
          frontVars, loopVars, exitVars>>

Stages == {"commit", "complete", "issue", "rename", "fetch"}

Init ==
  /\ MemoryInit /\ RenameInit /\ PrfInit /\ RobInit /\ IqInit /\ ExecInit
  /\ OracleInit /\ FetchInit
  /\ stage = "commit" /\ done = 0 /\ work = {}
  /\ halted = FALSE /\ exitCode = 0 /\ stoppedFetching = FALSE

GoTo(s) == stage' = s /\ done' = 0

-----------------------------------------------------------------------------
(* commitStage *)

(* Mutant: the width of the stage is forgotten. *)
CommitsAnyNumber(s) == ~halted /\ IsHead(s) /\ rob[s].ready

Commits(s) == ~halted /\ done < CommitWidth /\ IsHead(s) /\ rob[s].ready

SystemCall == read(physForArch(A7))

Faults(e) == e.exception \/ (e.inst.op = "Ecall" /\ SystemCall # ExitCall)

(* Mutant: commit releases the register it should publish. *)
ReleasedNew(e) == e.destPhys

(* The register no younger instruction can name once e has committed. *)
Released(e) == e.oldDestPhys

CommitInstruction ==
  /\ stage = "commit"
  /\ \E s \in InFlight :
       LET e == rob[s] IN
       /\ Commits(s) /\ ~Faults(e) /\ e.inst.op # "Ecall"
       /\ IF e.inst.op \in Stores
            THEN storeValue(e.storeAddress, e.storeData, memorySizeBytes(e.inst.op))
            ELSE UNCHANGED memory
       /\ IF e.hasDest THEN freePhysical(Released(e)) ELSE UNCHANGED renameVars
       /\ popHead(s)
  /\ done' = done + 1
  /\ UNCHANGED <<prfVars, nextSeq, iq, exec, lastTarget, program, frontVars,
                 stage, work, exitVars>>

CommitEcall ==
  /\ stage = "commit"
  /\ \E s \in InFlight :
       /\ Commits(s) /\ ~Faults(rob[s]) /\ rob[s].inst.op = "Ecall"
       /\ popHead(s)
  /\ exitCode' = read(physForArch(A0))
  /\ halted' = TRUE
  /\ stoppedFetching' = TRUE
  /\ done' = done + 1
  /\ UNCHANGED <<memory, renameVars, prfVars, nextSeq, iq, exec, lastTarget,
                 program, frontVars, stage, work>>

(* SimError leaves run(); nothing is executed after it. *)
CommitFault ==
  /\ stage = "commit"
  /\ \E s \in InFlight : Commits(s) /\ Faults(rob[s])
  /\ GoTo("error")
  /\ UNCHANGED <<memory, renameVars, prfVars, robVars, iq, exec, lastTarget,
                 program, frontVars, work, exitVars>>

(* The commit loop has ended: the execution units count down. *)
Tick ==
  /\ stage = "commit"
  /\ ~ \E s \in InFlight : Commits(s)
  /\ tick
  /\ work' = Finishing
  /\ GoTo("complete")
  /\ UNCHANGED <<memory, renameVars, prfVars, robVars, iq, lastTarget, program,
                 frontVars, exitVars>>

-----------------------------------------------------------------------------
(* completeInstruction, for the finished instructions, oldest first *)

IsNext(s) == s \in work /\ \A t \in work : s <= t

(* An instruction flushed by an older one of the same cycle is gone. *)
Completes(s) == IsNext(s) /\ s \in InFlight /\ ~rob[s].ready

CompleteSkip ==
  /\ stage = "complete"
  /\ \E s \in work : /\ IsNext(s) /\ ~Completes(s)
                     /\ work' = work \ {s}
  /\ UNCHANGED <<memory, renameVars, prfVars, robVars, iq, exec, lastTarget,
                 program, frontVars, stage, done, exitVars>>

Src1(e) == read(e.src1Phys)
Src2(e) == read(e.src2Phys)

(* Mutant: the address is computed in a wider type. *)
wideAddress(e) == Src1(e) + e.inst.imm

accessAddress(e) == WordAdd(Src1(e), e.inst.imm)

Result(e) == IF e.inst.op \in Loads
               THEN loadValue(memory, accessAddress(e), e.inst.op)
               ELSE Value(e.inst, Src1(e), Src2(e))

actualTaken(e)  == Taken(e.inst, Src1(e), Src2(e))
actualTarget(e) == Target(e.inst, Src1(e), Src2(e))

(* Mutant: a wrong target of a taken jump or branch goes unnoticed. *)
mispredictedDirection(e) ==
  e.inst.op \in ControlOps /\ e.inst.predictedTaken # actualTaken(e)

mispredicted(e) ==
  /\ e.inst.op \in ControlOps
  /\ \/ e.inst.predictedTaken # actualTaken(e)
     \/ actualTaken(e) /\ e.inst.predictedTarget # actualTarget(e)

(* recoverFromBranch does nothing without a checkpoint. *)
recovers(e) == mispredicted(e) /\ e.hasCheckpoint

Executed(e) ==
  [e EXCEPT !.ready        = TRUE,
            !.exception    = @ \/ e.inst.op = "Illegal",
            !.storeAddress = IF e.inst.op \in Stores THEN accessAddress(e) ELSE @,
            !.storeData    = IF e.inst.op \in Stores THEN Src2(e) ELSE @]

(* The register write and the predictor training of one completion. *)
WriteBack(e) ==
  /\ IF e.hasDest THEN write(e.destPhys, Result(e)) ELSE UNCHANGED prfVars
  /\ IF e.inst.op \in Branches \cup {"Jalr"}
       THEN update(e.inst.pc, actualTaken(e), actualTarget(e))
       ELSE UNCHANGED lastTarget

CompleteInstruction ==
  /\ stage = "complete"
  /\ \E s \in work :
       /\ Completes(s) /\ ~recovers(rob[s])
       /\ WriteBack(rob[s])
       /\ rob' = Put(rob, s, Executed(rob[s]))
       /\ work' = work \ {s}
  /\ UNCHANGED <<memory, renameVars, nextSeq, iq, exec, program, frontVars,
                 stage, done, exitVars>>

(* completeInstruction with recoverFromBranch: everything younger goes,    *)
(* except from the vector of completed instructions being traversed.       *)
CompleteRecovering ==
  /\ stage = "complete"
  /\ \E s \in work :
       /\ Completes(s) /\ recovers(rob[s])
       /\ WriteBack(rob[s])
       /\ restore(rob[s].checkpoint)
       /\ rob' = Only(Put(rob, s, Executed(rob[s])), UpTo(InFlight, s))
       /\ iq' = UpTo(iq, s)
       /\ flushYoungerThan(s)
       /\ FetchFlush(actualTarget(rob[s]))
       /\ work' = work \ {s}
  /\ UNCHANGED <<memory, nextSeq, program, stage, done, exitVars>>

(* Every completion has been visited: issueStage selects what to issue. *)
Select ==
  /\ stage = "complete" /\ work = {}
  /\ work' = selectReady
  /\ GoTo("issue")
  /\ UNCHANGED <<memory, renameVars, prfVars, robVars, iq, exec, lastTarget,
                 program, frontVars, exitVars>>

-----------------------------------------------------------------------------
(* issueStage, for the selected instructions, oldest first *)

(* The iteration gets past 'continue' with a unit free for s. *)
Issues(s) == /\ IsNext(s) /\ s \in InFlight /\ ~rob[s].issued
             /\ canAccept(rob[s].inst)

(* The alignment test, on the address known when the instruction issues. *)
misaligned(e) == e.inst.op \in MemoryOps /\ Misaligned(accessAddress(e), e.inst.op)

Issued(e)  == [e EXCEPT !.issued = TRUE]
Faulted(e) == [e EXCEPT !.exception = TRUE, !.ready = TRUE]

(* The unit is busy: the instruction stays in the queue. *)
IssueSkip ==
  /\ stage = "issue"
  /\ \E s \in work : /\ IsNext(s) /\ ~Issues(s)
                     /\ work' = work \ {s}
  /\ UNCHANGED <<memory, renameVars, prfVars, robVars, iq, exec, lastTarget,
                 program, frontVars, stage, done, exitVars>>

IssueMisaligned ==
  /\ stage = "issue"
  /\ \E s \in work :
       /\ Issues(s) /\ misaligned(rob[s])
       /\ rob' = Put(rob, s, Faulted(rob[s]))
       /\ iq' = iq \ {s}
       /\ work' = work \ {s}
  /\ UNCHANGED <<memory, renameVars, prfVars, nextSeq, exec, lastTarget, program,
                 frontVars, stage, done, exitVars>>

(* Instruction s issues, and the data cache takes 'latency' for it. *)
IssueWith(s, latency) ==
  /\ stage = "issue"
  /\ Issues(s) /\ ~misaligned(rob[s])
  /\ start(rob[s].inst, s, IF latency > 1 THEN latency - 1 ELSE 0)
  /\ rob' = Put(rob, s, Issued(rob[s]))
  /\ iq' = iq \ {s}
  /\ work' = work \ {s}
  /\ UNCHANGED <<memory, renameVars, prfVars, nextSeq, lastTarget, program,
                 frontVars, stage, done, exitVars>>

IssueInstruction ==
  \E s \in work :
    /\ Issues(s)
    /\ \E latency \in IF rob[s].inst.op \in MemoryOps THEN DataLatencies ELSE {0} :
         IssueWith(s, latency)

IssueDone ==
  /\ stage = "issue" /\ work = {}
  /\ GoTo("rename")
  /\ UNCHANGED <<memory, renameVars, prfVars, robVars, iq, exec, lastTarget,
                 program, frontVars, work, exitVars>>

-----------------------------------------------------------------------------
(* renameStage *)

CanRename ==
  /\ done < RenameWidth
  /\ fetchQueue # << >>
  /\ ~RobFull
  /\ ~IqFull
  /\ hasDest(Head(fetchQueue)) => canAllocate

(* The ROB entry built for an instruction.  The sources are looked up      *)
(* before the destination is allocated, the checkpoint is taken after.     *)
RobEntry(i) ==
  [inst          |-> i,
   src1Phys      |-> physForArch(i.rs1),
   src2Phys      |-> physForArch(i.rs2),
   destPhys      |-> IF hasDest(i) THEN NextFree ELSE -1,
   oldDestPhys   |-> IF hasDest(i) THEN physForArch(i.rd) ELSE -1,
   hasDest       |-> hasDest(i),
   ready         |-> FALSE,
   issued        |-> FALSE,
   exception     |-> FALSE,
   storeAddress  |-> 0,
   storeData     |-> 0,
   hasCheckpoint |-> i.op \in ControlOps,
   checkpoint    |-> IF i.op \in ControlOps
                       THEN checkpoint ELSE NoEntries]

(* Mutant: what was fetched behind an exit stays in the queue. *)
JustPopped(i) == Tail(fetchQueue)

(* The queue after i left it: nothing behind an exit is kept. *)
Popped(i) == IF i.op \in ExitOps THEN << >> ELSE Tail(fetchQueue)

RenameInstruction ==
  LET i == Head(fetchQueue) IN
  /\ stage = "rename"
  /\ CanRename
  /\ IF hasDest(i) THEN allocate(i.rd) /\ markNotReady(NextFree)
                   ELSE UNCHANGED <<renameVars, prfVars>>
  /\ RobAllocate(RobEntry(i))
  /\ iq' = iq \cup {nextSeq}
  /\ fetchQueue' = Popped(i)
  /\ stoppedFetching' = (stoppedFetching \/ i.op \in ExitOps)
  /\ done' = done + 1
  /\ UNCHANGED <<memory, exec, lastTarget, program, pc, waitCycles, stage, work,
                 halted, exitCode>>

RenameDone ==
  /\ stage = "rename" /\ ~CanRename
  /\ GoTo("fetch")
  /\ UNCHANGED <<memory, renameVars, prfVars, robVars, iq, exec, lastTarget,
                 program, frontVars, work, exitVars>>

-----------------------------------------------------------------------------
(* fetch_.tick, and the end of the cycle *)

NextCycle == GoTo(IF halted THEN "done" ELSE "commit")

Fetches == /\ ~stoppedFetching /\ waitCycles = 0
           /\ done < FetchWidth /\ Len(fetchQueue) < MaxQueue

FetchWait ==
  /\ stage = "fetch" /\ ~stoppedFetching
  /\ waitCycles > 0
  /\ waitCycles' = waitCycles - 1
  /\ NextCycle
  /\ UNCHANGED <<memory, renameVars, prfVars, robVars, iq, exec, lastTarget,
                 program, pc, fetchQueue, work, exitVars>>

(* The next instruction is fetched with prediction p, and the instruction  *)
(* cache takes 'latency' for it.                                           *)
FetchWith(latency, p) ==
  /\ stage = "fetch" /\ Fetches
  /\ FetchInstruction(latency, p)
  /\ IF EndsFetchGroup(latency) THEN NextCycle
                                ELSE stage' = stage /\ done' = done + 1
  /\ UNCHANGED <<memory, renameVars, prfVars, robVars, iq, exec, lastTarget,
                 program, work, exitVars>>

Fetch ==
  \E latency \in FetchLatencies, p \in PredictionsFor(InstrAt(program, pc)) :
    FetchWith(latency, p)

FetchDone ==
  /\ stage = "fetch" /\ ~Fetches
  /\ stoppedFetching \/ waitCycles = 0
  /\ NextCycle
  /\ UNCHANGED <<memory, renameVars, prfVars, robVars, iq, exec, lastTarget,
                 program, frontVars, work, exitVars>>

-----------------------------------------------------------------------------
(* run() has returned or thrown. *)
Ended == stage \in {"done", "error"} /\ UNCHANGED vars

Next ==
  \/ CommitInstruction \/ CommitEcall \/ CommitFault \/ Tick
  \/ CompleteSkip \/ CompleteInstruction \/ CompleteRecovering \/ Select
  \/ IssueSkip \/ IssueMisaligned \/ IssueInstruction \/ IssueDone
  \/ RenameInstruction \/ RenameDone
  \/ FetchWait \/ Fetch \/ FetchDone
  \/ Ended

(* Its steps, which the whole simulator takes too (module Machine). *)
Pipeline == Init /\ [][Next]_vars

(* The simulator is one thread that runs until it ends. *)
Spec == Pipeline /\ WF_vars(Next)
=============================================================================
