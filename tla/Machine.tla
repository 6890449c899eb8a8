------------------------------ MODULE Machine -------------------------------
(***************************************************************************)
(* The whole of class Simulator: the pipeline of module Simulator with the *)
(* predictor and the caches that decide its predictions and latencies, the *)
(* cycle count with its limit, the statistics and the instruction trace.   *)
(* One program now has one execution.                                      *)
(***************************************************************************)
EXTENDS Simulator, BranchPredictor, CacheHierarchy

CONSTANT MaxCycles      \* config_.core.maxCycles

(* The latencies an access of first level g can have in hierarchy h: that  *)
(* of a hit, or those of the fill and of the write-back on top.            *)
AccessLatencies(g, h) ==
  LET below == {h.l2.latency, h.l2.latency + MemoryLatency}
  IN  {g.latency} \cup {g.latency + fill + back : fill \in below, back \in below \cup {0}}

(* The pipeline was checked for every latency that the caches can take.    *)
ASSUME MachineAssumption ==
  /\ MaxCycles \in Nat \ {0}
  /\ \A h \in Hierarchies : /\ AccessLatencies(h.l1i, h) \subseteq FetchLatencies
                            /\ AccessLatencies(h.l1d, h) \subseteq DataLatencies

VARIABLES
  cycles,         \* stats_.cycles, the number of the cycle being run
  expired,        \* run() left its loop at the limit, and threw an error
  stats,          \* the other counters of Stats, with its stalls
  robOccupancy,   \* stats_.robOccupancy
  rsOccupancy,    \* stats_.rsOccupancy
  trace,          \* stats_.instructions, by sequence number
  fetchCycles,    \* fetchCycle of the instructions in fetchQueue
  flushedAt       \* history: the cycle an instruction was flushed in

reportVars  == <<stats, trace, fetchCycles, flushedAt>>
cycleVars   == <<cycles, expired, robOccupancy, rsOccupancy>>
machineVars == <<vars, predictorVars, cacheVars, reportVars, cycleVars>>

Counters == {"fetched", "committed", "retiredBranches", "branchMispredictions",
             "commit_head_not_ready", "branch_recoveries", "issue_fu_busy",
             "rename_rob_full", "rename_issue_queue_full",
             "rename_physical_registers", "fetch_cache", "fetch_queue_full"}

(* OccupancyStats::sample *)
sample(o, value) ==
  [samples |-> o.samples + 1, total |-> o.total + value,
   max |-> IF value > o.max THEN value ELSE o.max]

NoSamples == [samples |-> 0, total |-> 0, max |-> 0]

(* The first cycle has begun: its samples are taken. *)
MachineInit ==
  /\ Init /\ PredictorInit /\ CacheInit
  /\ cycles = 1 /\ expired = FALSE
  /\ robOccupancy = sample(NoSamples, 0) /\ rsOccupancy = sample(NoSamples, 0)
  /\ stats = [n \in Counters |-> 0]
  /\ trace = NoEntries /\ fetchCycles = << >> /\ flushedAt = NoEntries

(* Mutant: the cycle is not counted while nothing is fetched. *)
SampleWhileFetching ==
  /\ cycles' = IF stoppedFetching THEN cycles ELSE cycles + 1
  /\ robOccupancy' = IF stoppedFetching THEN robOccupancy
                     ELSE sample(robOccupancy, Cardinality(InFlight))
  /\ rsOccupancy' = IF stoppedFetching THEN rsOccupancy
                    ELSE sample(rsOccupancy, Cardinality(iq))

CountAndSample ==
  /\ cycles' = cycles + 1
  /\ robOccupancy' = sample(robOccupancy, Cardinality(InFlight))
  /\ rsOccupancy' = sample(rsOccupancy, Cardinality(iq))

(* After the last stage of a cycle the next one begins, unless the program *)
(* has halted or the limit is reached.                                     *)
BeginCycle ==
  LET ends == stage' = "commit" /\ stage # "commit"
  IN  \/ ~ends /\ UNCHANGED cycleVars
      \/ ends /\ cycles < MaxCycles /\ CountAndSample /\ UNCHANGED expired
      \/ /\ ends /\ cycles >= MaxCycles /\ expired' = TRUE
         /\ UNCHANGED <<cycles, robOccupancy, rsOccupancy>>

(* Increments the named counters. *)
Tally(names) == stats' = Count(stats, names)

Stamp(s, t) == trace' = [trace EXCEPT ![s] = t]

Quiet == UNCHANGED <<predictorVars, cacheVars, reportVars, cycleVars>>

-----------------------------------------------------------------------------
(* commitStage *)

MachineCommit ==
  /\ CommitInstruction \/ CommitEcall
  /\ \E s \in InFlight : IsHead(s) /\ Stamp(s, [trace[s] EXCEPT !.commit = cycles])
  /\ Tally({"committed"})
  /\ UNCHANGED <<predictorVars, cacheVars, fetchCycles, flushedAt, cycleVars>>

MachineTick ==
  /\ Tick
  /\ Tally({n \in {"commit_head_not_ready"} :
              ~halted /\ done < CommitWidth /\ InFlight # {}})
  /\ UNCHANGED <<predictorVars, cacheVars, trace, fetchCycles, flushedAt, cycleVars>>

-----------------------------------------------------------------------------
(* completeInstruction *)

TrainsPredictor(e) == e.inst.op \in Branches \cup {"Jalr"}

MachineComplete ==
  /\ CompleteInstruction \/ CompleteRecovering
  /\ \E s \in work :
       LET e == rob[s]
           predicted == [taken |-> e.inst.predictedTaken, target |-> e.inst.predictedTarget]
           lost == IF recovers(e) THEN {t \in InFlight : t > s} ELSE {}
       IN
       /\ IsNext(s)
       /\ IF TrainsPredictor(e)
            THEN train(e.inst.pc, predicted, actualTaken(e), actualTarget(e))
            ELSE UNCHANGED predictorVars
       /\ Tally({n \in {"retiredBranches"} : TrainsPredictor(e)}
                  \cup {n \in {"branchMispredictions"} : mispredicted(e)}
                  \cup {n \in {"branch_recoveries"} : recovers(e)})
       /\ Stamp(s, [trace[s] EXCEPT !.complete = cycles, !.mispredicted = mispredicted(e)])
       /\ fetchCycles' = IF recovers(e) THEN << >> ELSE fetchCycles
       /\ flushedAt' = [t \in DOMAIN flushedAt \cup lost |->
                          IF t \in lost THEN cycles ELSE flushedAt[t]]
  /\ UNCHANGED <<cacheVars, cycleVars>>

-----------------------------------------------------------------------------
(* issueStage *)

MachineIssueSkip ==
  /\ IssueSkip
  /\ Tally({n \in {"issue_fu_busy"} :
              \E s \in work : /\ IsNext(s) /\ s \in InFlight /\ ~rob[s].issued
                              /\ ~canAccept(rob[s].inst)})
  /\ UNCHANGED <<predictorVars, cacheVars, trace, fetchCycles, flushedAt, cycleVars>>

(* Mutant: the access counts as a load, which leaves its line clean. *)
MachineIssueRead ==
  /\ stage = "issue"
  /\ \E s \in work :
       LET e == rob[s] IN
       /\ Issues(s) /\ ~misaligned(e)
       /\ IF e.inst.op \in MemoryOps
            THEN /\ accessInstruction(accessAddress(e))
                 /\ IssueWith(s, InstructionAccess(accessAddress(e)).latency)
            ELSE UNCHANGED cacheVars /\ IssueWith(s, 0)
       /\ Stamp(s, [trace[s] EXCEPT !.issue = cycles,
                                    !.cached = e.inst.op \in MemoryOps])
  /\ UNCHANGED <<predictorVars, stats, fetchCycles, flushedAt, cycleVars>>

(* Loads and stores access the data cache when they issue. *)
MachineIssue ==
  /\ stage = "issue"
  /\ \E s \in work :
       LET e == rob[s]
           isStore == e.inst.op \in Stores
       IN
       /\ Issues(s) /\ ~misaligned(e)
       /\ IF e.inst.op \in MemoryOps
            THEN /\ accessData(accessAddress(e), isStore)
                 /\ IssueWith(s, DataAccess(accessAddress(e), isStore).latency)
            ELSE UNCHANGED cacheVars /\ IssueWith(s, 0)
       /\ Stamp(s, [trace[s] EXCEPT !.issue = cycles,
                                    !.cached = e.inst.op \in MemoryOps])
  /\ UNCHANGED <<predictorVars, stats, fetchCycles, flushedAt, cycleVars>>

-----------------------------------------------------------------------------
(* renameStage, with Stats::createTrace *)

MachineRename ==
  /\ RenameInstruction
  /\ trace' = Put(trace, nextSeq,
                  [fetch |-> Head(fetchCycles), rename |-> cycles, issue |-> 0,
                   complete |-> 0, commit |-> 0, mispredicted |-> FALSE,
                   cached |-> FALSE, branch |-> TrainsPredictor([inst |-> Head(fetchQueue)])])
  /\ fetchCycles' = IF fetchQueue' = << >> THEN << >> ELSE Tail(fetchCycles)
  /\ UNCHANGED <<predictorVars, cacheVars, stats, flushedAt, cycleVars>>

(* The first resource that is missing is the one that is counted. *)
MachineRenameDone ==
  /\ RenameDone
  /\ LET waits == done < RenameWidth /\ fetchQueue # << >> IN
     Tally({n \in {"rename_rob_full"} : waits /\ RobFull}
             \cup {n \in {"rename_issue_queue_full"} : waits /\ ~RobFull /\ IqFull}
             \cup {n \in {"rename_physical_registers"} : waits /\ ~RobFull /\ ~IqFull})
  /\ UNCHANGED <<predictorVars, cacheVars, trace, fetchCycles, flushedAt, cycleVars>>

-----------------------------------------------------------------------------
(* fetch_.tick, and the end of the cycle *)

MachineFetchWait ==
  /\ FetchWait
  /\ Tally({"fetch_cache"})
  /\ BeginCycle
  /\ UNCHANGED <<predictorVars, cacheVars, trace, fetchCycles, flushedAt>>

(* Mutant: the target of the BTB is kept for a branch predicted not taken. *)
PredictionWithTarget(i) ==
  IF i.op \in Branches \cup {"Jalr"}
    THEN [taken |-> predict(pc).taken, target |-> predict(pc).target]
    ELSE IF i.op = "Jal" THEN [taken |-> TRUE, target |-> WordAdd(pc, i.imm)]
    ELSE [taken |-> FALSE, target |-> WordAdd(pc, 4)]

(* The prediction the instruction at pc really gets. *)
PredictionOf(i) ==
  IF i.op \in Branches \cup {"Jalr"}
    THEN LET p == predict(pc)
         IN  [taken |-> p.taken, target |-> IF p.taken THEN p.target ELSE WordAdd(pc, 4)]
    ELSE IF i.op = "Jal" THEN [taken |-> TRUE, target |-> WordAdd(pc, i.imm)]
    ELSE [taken |-> FALSE, target |-> WordAdd(pc, 4)]

MachineFetch ==
  LET i == InstrAt(program, pc) IN
  /\ stage = "fetch" /\ Fetches
  /\ FetchWith(InstructionAccess(pc).latency, PredictionOf(i))
  /\ accessInstruction(pc)
  /\ IF i.op \in Branches \cup {"Jalr"}
       THEN CountLookup(pc) /\ UNCHANGED <<bpConfig, counters, globalHistory, btb, btbClock>>
       ELSE UNCHANGED predictorVars
  /\ Tally({"fetched"})
  /\ fetchCycles' = Append(fetchCycles, cycles)
  /\ BeginCycle
  /\ UNCHANGED <<trace, flushedAt>>

MachineFetchDone ==
  /\ FetchDone
  /\ Tally({n \in {"fetch_queue_full"} :
              ~stoppedFetching /\ done = 0 /\ Len(fetchQueue) >= MaxQueue})
  /\ BeginCycle
  /\ UNCHANGED <<predictorVars, cacheVars, trace, fetchCycles, flushedAt>>

-----------------------------------------------------------------------------
(* run() has thrown "simulation reached maxCycles". *)
TimedOut == expired /\ UNCHANGED machineVars

(* One iteration of one loop, as in module Simulator. *)
MachineStep ==
  \/ MachineCommit \/ MachineTick
  \/ MachineComplete
  \/ MachineIssueSkip \/ MachineIssue
  \/ MachineRename \/ MachineRenameDone
  \/ MachineFetchWait \/ MachineFetch \/ MachineFetchDone
  \/ /\ CommitFault \/ CompleteSkip \/ Select \/ IssueMisaligned \/ IssueDone \/ Ended
     /\ Quiet

MachineNext == (~expired /\ MachineStep) \/ TimedOut

MachineSpec == MachineInit /\ [][MachineNext]_machineVars /\ WF_machineVars(MachineNext)
=============================================================================
