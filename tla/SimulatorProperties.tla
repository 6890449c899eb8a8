------------------------ MODULE SimulatorProperties ------------------------
(***************************************************************************)
(* What the pipeline of module Simulator must never do, and what it must   *)
(* eventually do.                                                          *)
(***************************************************************************)
EXTENDS Simulator, Functions

Seqs == 1 .. nextSeq - 1     \* the sequence numbers handed out so far

(* Every variable has the type of the field it models; in particular every *)
(* queue holds only sequence numbers that were handed out.                 *)
LoopTypeOK ==
  /\ stage \in Stages \cup {"done", "error"}
  /\ done \in Nat
  /\ work \subseteq Seqs
  /\ halted \in BOOLEAN
  /\ exitCode \in Word
  /\ stoppedFetching \in BOOLEAN

FrontTypeOK ==
  /\ IsPartial(lastTarget, Word, Word)
  /\ program \in Programs
  /\ pc \in Word
  /\ waitCycles \in Nat
  /\ fetchQueue \in Seq(Fetched)

BackTypeOK ==
  /\ nextSeq \in Nat \ {0}
  /\ IsPartial(rob, Seqs, Entry)
  /\ \A s \in InFlight : rob[s].hasCheckpoint => rob[s].checkpoint \in Checkpoint
  /\ iq \subseteq Seqs
  /\ IsPartial(exec, Seqs, Active)

MemoryTypeOK == IsPartial(memory, Word, Byte)

TypeOK ==
  /\ MemoryTypeOK
  /\ RenameTypeOK
  /\ PrfTypeOK
  /\ BackTypeOK
  /\ FrontTypeOK
  /\ LoopTypeOK

-----------------------------------------------------------------------------
(* Registers in flight *)

Writers(S) == {s \in S : rob[s].hasDest}

Sources(s) == {rob[s].src1Phys, rob[s].src2Phys}

(* The registers that the instructions of S release when they commit, for  *)
(* the reorder buffer q.                                                   *)
Releases(q, S) == [s \in {t \in S : q[t].hasDest} |-> q[s].oldDestPhys]

(* No register has two uses among a map, a free list and releases.         *)
Disjoint(m, f, r) ==
  /\ IsInjective(m) /\ IsInjective(f) /\ IsInjective(r)
  /\ Range(m) \cap Range(f) = {}
  /\ Range(m) \cap Range(r) = {}
  /\ Range(f) \cap Range(r) = {}

(* A physical register is never handed out while something still names it: *)
(* map, free list and pending releases are disjoint, and stay so when any  *)
(* branch in flight restores its checkpoint (RenameUnit.cpp, commitStage,  *)
(* recoverFromBranch).                                                     *)
RegistersDisjoint ==
  /\ Disjoint(map, freeList, Releases(rob, InFlight))
  /\ \A s \in InFlight : rob[s].hasCheckpoint =>
       Disjoint(rob[s].checkpoint.map, rob[s].checkpoint.freeList,
                Releases(rob, UpTo(InFlight, s)))

(* No instruction in flight writes a register that an older one has still  *)
(* to read, or may yet be allocated such a register: allocation, release   *)
(* at commit and recovery together exclude write-after-read.               *)
SourcesKept ==
  \A s \in InFlight :
    /\ Sources(s) \cap Range(freeList) = {}
    /\ \A t \in InFlight : s < t => rob[t].destPhys \notin Sources(s)
    /\ \A t \in UpTo(Writers(InFlight), s) :
         t # s => rob[t].oldDestPhys \notin Sources(s)

(* The checkpoint of a branch is the rename map with every younger write   *)
(* undone: restoring it forgets exactly the flushed instructions, however  *)
(* much was committed since it was taken.                                  *)
WritersAfter(s, a) == {t \in Writers(InFlight) : s < t /\ rob[t].inst.rd = a}

CheckpointUndoesYounger ==
  \A s \in InFlight : rob[s].hasCheckpoint =>
    \A a \in Arch :
      /\ WritersAfter(s, a) = {} => rob[s].checkpoint.map[a] = map[a]
      /\ \A t \in WritersAfter(s, a) :
           (\A u \in WritersAfter(s, a) : t <= u)
             => rob[s].checkpoint.map[a] = rob[t].oldDestPhys

(* A source of an instruction in flight is not ready exactly while an older*)
(* instruction that produces it has not completed (or faulted instead):    *)
(* nobody issues too early, and nobody waits for a register that no one    *)
(* will write.                                                             *)
Pending(s) == ~rob[s].ready \/ rob[s].exception

ReadyBitsExact ==
  \A s \in InFlight, p \in Phys :
    p \in Sources(s) =>
      (~PrfReady(p) <=> \E t \in Writers(InFlight) :
                            t < s /\ rob[t].destPhys = p /\ Pending(t))

-----------------------------------------------------------------------------
(* Where instructions are *)

Executing == DOMAIN exec \cup (IF stage = "complete" THEN work ELSE {})

(* Every instruction in flight is in exactly one place: waiting in the     *)
(* issue queue, executing, or finished; and neither the queue nor a unit   *)
(* holds an instruction the reorder buffer has lost.  Issue, completion,   *)
(* the misalignment path and recovery all move instructions.               *)
InOnePlace ==
  /\ iq \subseteq InFlight
  /\ DOMAIN exec \subseteq InFlight
  /\ \A s \in InFlight :
       /\ s \in iq <=> ~rob[s].issued /\ ~rob[s].ready
       /\ s \in Executing <=> rob[s].issued /\ ~rob[s].ready

(* A load executes only when every older store in flight knows its address *)
(* and data (README: loads are held behind older unresolved stores).       *)
LoadsBehindStores ==
  \A s, t \in InFlight :
    (t < s /\ s \in Executing /\ rob[s].inst.op \in Loads /\ rob[t].inst.op \in Stores)
      => rob[t].ready

(* Nothing follows an ecall or an illegal instruction into the pipeline:   *)
(* renaming one leaves it the youngest instruction until it is flushed or  *)
(* commits.                                                                *)
ExitIsYoungest ==
  \A s \in InFlight : rob[s].inst.op \in ExitOps =>
    stoppedFetching /\ fetchQueue = << >> /\ \A t \in InFlight : t <= s

(* Fetching stays off only for an exit or fault that is on its way: after  *)
(* a recovery the front end resumes at the resolved target.                *)
FetchResumesAfterRecovery ==
  stoppedFetching =>
    halted \/ stage = "error" \/ \E s \in InFlight : rob[s].inst.op \in ExitOps

-----------------------------------------------------------------------------
(* Program order *)

Oldest(T) == CHOOSE t \in T : \A u \in T : t <= u

WritersFrom(n, a) == {t \in Writers(InFlight) : t >= n /\ rob[t].inst.rd = a}

(* The register of a as instruction n finds it: what the oldest write of a *)
(* from n on releases, or else the one it is mapped to.                    *)
MapBefore(n, a) ==
  IF WritersFrom(n, a) = {} THEN map[a] ELSE rob[Oldest(WritersFrom(n, a))].oldDestPhys

(* Sources and destinations are the registers that program order gives     *)
(* them, and no destination is a register that its instruction could have  *)
(* found: so it stays when branches older than the instruction are undone  *)
(* and others renamed (renameStage, recoverFromBranch, commitStage).       *)
OperandsNamed ==
  \A s \in InFlight :
    /\ rob[s].src1Phys = MapBefore(s, rob[s].inst.rs1)
    /\ rob[s].src2Phys = MapBefore(s, rob[s].inst.rs2)
    /\ rob[s].hasDest => /\ rob[s].destPhys = MapBefore(s + 1, rob[s].inst.rd)
                         /\ \A a \in Arch : rob[s].destPhys # MapBefore(s, a)

(* Where the front end continues, and where instruction n is or will be.   *)
FrontPc == IF fetchQueue # << >> THEN Head(fetchQueue).pc ELSE pc

From(n) == {t \in InFlight : t >= n}

NextPc(n) == IF From(n) = {} THEN FrontPc ELSE rob[Oldest(From(n))].inst.pc

ContinuesAt(e) == IF e.ready THEN actualTarget(e) ELSE e.inst.predictedTarget

(* An instruction in the queue was fetched where the prediction of the one *)
(* before it goes, and fetch goes on where that of the youngest goes.      *)
QueueInOrder ==
  /\ \A k \in 1 .. Len(fetchQueue) - 1 : fetchQueue[k + 1].pc = fetchQueue[k].predictedTarget
  /\ fetchQueue # << >> => pc = fetchQueue[Len(fetchQueue)].predictedTarget

(* What follows an instruction in flight is where it goes, or is predicted *)
(* to go while nothing is resolved.                                        *)
FlightInOrder ==
  \A s \in InFlight : rob[s].inst.op \notin ExitOps => NextPc(s + 1) = ContinuesAt(rob[s])

(* What is in flight, queued and to be fetched next is one path of the     *)
(* program: nothing of a wrong path outlives the branch that left the      *)
(* program for it (fetchStage, renameStage, completeInstruction,           *)
(* recoverFromBranch).                                                     *)
InProgramOrder == QueueInOrder /\ FlightInOrder

-----------------------------------------------------------------------------
(* Results *)

Completed(s) == rob[s].ready /\ ~rob[s].exception

(* The bytes a load or a store accesses. *)
BytesOf(e) ==
  {WordAdd(accessAddress(e), k) : k \in 0 .. memorySizeBytes(e.inst.op) - 1}

(* No load has executed ahead of the commit of an older store to one of    *)
(* its bytes.  The issue stage waits until the store is executed, not      *)
(* until it commits, so this holds only of programs that leave enough time *)
(* between the two or never load what they store.                          *)
LoadsFollowStores ==
  \A s, t \in InFlight :
    /\ t < s
    /\ rob[s].inst.op \in Loads /\ Completed(s)
    /\ rob[t].inst.op \in Stores /\ Completed(t)
    => BytesOf(rob[s]) \cap BytesOf(rob[t]) = {}

(* What an instruction that has completed computed is still its result:    *)
(* its sources have not changed since they were read, its register is not  *)
(* written again, and only stores change what a load would read, none to   *)
(* its bytes being older (completeInstruction, commitStage).               *)
ResultsExact ==
  \A s \in InFlight : Completed(s) =>
    /\ rob[s].hasDest => read(rob[s].destPhys) = Result(rob[s])
    /\ rob[s].inst.op \in Stores => /\ rob[s].storeAddress = accessAddress(rob[s])
                                    /\ rob[s].storeData = Src2(rob[s])

-----------------------------------------------------------------------------
(* Every program ends, with an exit or a fault. *)
Termination == <>(stage \in {"done", "error"})
=============================================================================
