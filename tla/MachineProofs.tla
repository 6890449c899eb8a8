--------------------------- MODULE MachineProofs ----------------------------
(***************************************************************************)
(* The simulator with its own predictor and caches is one of the pipelines *)
(* of module Simulator, for tables and caches of every size: all that is   *)
(* proved of those holds of it.                                            *)
(***************************************************************************)
EXTENDS MachineProperties, SimulatorProofs, BranchPredictorProofs, Sums

(* Where a program can have a branch. *)
CodePcs == {x \in Word : (x - EntryPc) % 4 = 0}

DrivenInv ==
  /\ TypeOK /\ InstsFromProgram
  /\ BtbInv(CodePcs)
  /\ hierarchy \in Hierarchies

-----------------------------------------------------------------------------
(* What the caches and the predictor give the pipeline *)

LEMMA LatenciesTyped ==
  ASSUME hierarchy \in Hierarchies
  PROVE  L1I.latency \in Nat /\ L1D.latency \in Nat /\ L2.latency \in Nat /\ MemoryLatency \in Nat
BY CacheAssumption DEF L1I, L1D, L2, ValidConfig, CacheLevelConfig

LEMMA AccessTakes ==
  ASSUME hierarchy \in Hierarchies, NEW g, g.latency \in Nat,
         NEW c, NEW lower, NEW address, NEW stores
  PROVE  FirstAccess(g, c, lower, address, stores).latency \in AccessLatencies(g, hierarchy)
<1> DEFINE fill == LastAccess(L2, lower, address, FALSE)
           back == IF WritesBack(g, c, address)
                     THEN LastAccess(L2, fill.level, victimAddress(g, c, address), TRUE)
                     ELSE [latency |-> 0, level |-> fill.level]
           below == {L2.latency, L2.latency + MemoryLatency}
           result == FirstAccess(g, c, lower, address, stores)
<1>1. \A d, x, w : LastAccess(L2, d, x, w).latency \in below
  BY DEF LastAccess
<1>2. fill.latency \in below /\ back.latency \in below \cup {0}
  <2>1. CASE WritesBack(g, c, address)
    BY <1>1, <2>1
  <2>2. CASE ~WritesBack(g, c, address)
    BY <1>1, <2>2
  <2> QED
    BY <2>1, <2>2
<1>3. CASE HitWays(g, c, address) # {}
  BY <1>3 DEF FirstAccess, AccessLatencies
<1>4. CASE HitWays(g, c, address) = {}
  <2>1. result.latency = g.latency + (fill.latency + back.latency)
    BY <1>4 DEF FirstAccess
  <2> HIDE DEF fill, back, result
  <2>2. result.latency = g.latency + fill.latency + back.latency
    BY <1>2, <2>1, LatenciesTyped
  <2>3. below = {hierarchy.l2.latency, hierarchy.l2.latency + MemoryLatency}
    BY DEF L2
  <2> HIDE DEF below
  <2> QED
    BY <1>2, <2>2, <2>3 DEF AccessLatencies, result
<1> QED
  BY <1>3, <1>4

LEMMA CodeIdentified ==
  ASSUME bpConfig \in PredictorConfigs
  PROVE  /\ Identified(CodePcs)
         /\ \A x \in CodePcs : SetOf(x) \in BtbSets /\ TagOf(x) \in Nat
<1>1. EntryPc \in Nat /\ Word \subseteq Nat
  BY ProgramAssumption, WordAssumption DEF Word
<1>2. CodePcs \in SUBSET Nat /\ \A x \in CodePcs : (x - EntryPc) % 4 = 0
  BY <1>1 DEF CodePcs
<1>3. \A x, y \in CodePcs : x % 4 = y % 4
  BY <1>1, <1>2
<1> QED
  BY <1>2, <1>3, SameAlignment

(* Only the illegal instruction is found elsewhere. *)
LEMMA BranchesInCode ==
  ASSUME NEW x \in Word, InstrAt(program, x).op # "Illegal"
  PROVE  x \in CodePcs
BY DEF InstrAt, IllegalInst, CodePcs

LEMMA PredictorGives ==
  ASSUME DrivenInv
  PROVE  PredictionOf(InstrAt(program, pc)) \in PredictionsFor(InstrAt(program, pc))
<1> DEFINE i == InstrAt(program, pc)
<1>1. CASE i.op \in Branches \cup {"Jalr"}
  <2>1. pc \in CodePcs
    BY <1>1, BranchesInCode DEF DrivenInv, TypeOK, FrontTypeOK, Branches
  <2>2. bpConfig \in PredictorConfigs
    BY DEF DrivenInv, BtbInv, TablesTyped
  <2>3. PredictionOf(i) \in Predictions(pc)
    BY <1>1, <2>1, <2>2, CodeIdentified, PredictionAllowed DEF DrivenInv, PredictionOf
  <2> QED
    BY <1>1, <2>3 DEF PredictionsFor
<1>2. CASE i.op \notin Branches \cup {"Jalr"}
  BY <1>2 DEF PredictionsFor, PredictionOf
<1> QED
  BY <1>1, <1>2

LEMMA CachesTake ==
  ASSUME hierarchy \in Hierarchies
  PROVE  /\ \A x : InstructionAccess(x).latency \in FetchLatencies
         /\ \A x, w : DataAccess(x, w).latency \in DataLatencies
<1>1. /\ AccessLatencies(L1I, hierarchy) \subseteq FetchLatencies
      /\ AccessLatencies(L1D, hierarchy) \subseteq DataLatencies
  BY MachineAssumption DEF L1I, L1D
<1>2. \A x : InstructionAccess(x).latency \in AccessLatencies(L1I, hierarchy)
  BY LatenciesTyped, AccessTakes DEF InstructionAccess
<1>3. \A x, w : DataAccess(x, w).latency \in AccessLatencies(L1D, hierarchy)
  BY LatenciesTyped, AccessTakes DEF DataAccess
<1> QED
  BY <1>1, <1>2, <1>3

-----------------------------------------------------------------------------
(* Every step is one of the pipeline's *)

LEMMA MachineFetches ==
  ASSUME DrivenInv, MachineFetch
  PROVE  Fetch /\ UNCHANGED <<bpConfig, btb, btbClock, lastTarget, hierarchy>>
<1>1. FetchWith(InstructionAccess(pc).latency, PredictionOf(InstrAt(program, pc)))
  BY DEF MachineFetch
<1>2. InstructionAccess(pc).latency \in FetchLatencies
  BY CachesTake DEF DrivenInv
<1>3. Fetch
  BY <1>1, <1>2, PredictorGives DEF Fetch
<1> QED
  BY <1>3 DEF MachineFetch, FetchWith, accessInstruction, predictorVars

LEMMA MachineIssues ==
  ASSUME DrivenInv, MachineIssue
  PROVE  IssueInstruction /\ UNCHANGED <<bpConfig, btb, btbClock, lastTarget, hierarchy>>
<1>1. PICK s \in work :
        /\ Issues(s)
        /\ IF rob[s].inst.op \in MemoryOps
             THEN LET isStore == rob[s].inst.op \in Stores
                  IN  /\ accessData(accessAddress(rob[s]), isStore)
                      /\ IssueWith(s, DataAccess(accessAddress(rob[s]), isStore).latency)
             ELSE UNCHANGED cacheVars /\ IssueWith(s, 0)
  BY DEF MachineIssue
<1>2. CASE rob[s].inst.op \in MemoryOps
  <2>1. PICK latency \in DataLatencies : IssueWith(s, latency)
    BY <1>1, <1>2, CachesTake DEF DrivenInv
  <2>2. UNCHANGED hierarchy
    BY <1>1, <1>2 DEF accessData
  <2> QED
    BY <1>1, <1>2, <2>1, <2>2 DEF IssueInstruction, IssueWith, MachineIssue, predictorVars
<1>3. CASE rob[s].inst.op \notin MemoryOps
  BY <1>1, <1>3 DEF IssueInstruction, IssueWith, MachineIssue, predictorVars, cacheVars
<1> QED
  BY <1>2, <1>3

(* The instruction that completes trains the predictor as the pipeline     *)
(* says it does.                                                           *)
LEMMA MachineCompletes ==
  ASSUME DrivenInv, MachineComplete
  PROVE  BtbInv(CodePcs)' /\ UNCHANGED hierarchy
<1> DEFINE predicted(e) == [taken |-> e.inst.predictedTaken,
                            target |-> e.inst.predictedTarget]
<1>1. PICK s \in work : /\ IsNext(s) /\ s \in InFlight /\ WriteBack(rob[s])
  BY DEF MachineComplete, CompleteInstruction, CompleteRecovering, Completes
<1>2. PICK t \in work :
        /\ IsNext(t)
        /\ IF TrainsPredictor(rob[t])
             THEN train(rob[t].inst.pc, predicted(rob[t]), actualTaken(rob[t]),
                        actualTarget(rob[t]))
             ELSE UNCHANGED predictorVars
  BY DEF MachineComplete
<1>3. s = t
  <2>1. s <= t /\ t <= s /\ s \in Nat /\ t \in Nat
    BY <1>1, <1>2 DEF IsNext, DrivenInv, TypeOK, LoopTypeOK, Seqs
  <2> QED
    BY <2>1
<1> DEFINE e == rob[s]
<1>4. /\ e.inst.pc \in Word /\ actualTarget(e) \in Word
      /\ e.inst.op = InstrAt(program, e.inst.pc).op
  <2>1. FromProgram(program, e.inst)
    BY <1>1 DEF DrivenInv, InstsFromProgram
  <2>2. e.inst \in Fetched
    BY <1>1, EntryType DEF DrivenInv, Entry
  <2> QED
    BY <1>1, <2>1, <2>2, OperandTypes DEF DrivenInv, FromProgram, Fetched
<1>5. bpConfig \in PredictorConfigs /\ BtbInv(CodePcs)
  BY DEF DrivenInv, BtbInv, TablesTyped
<1> SUFFICES BtbInv(CodePcs)'
  BY DEF MachineComplete, cacheVars
<1>6. CASE TrainsPredictor(e)
  <2>1. e.inst.op \in Branches \cup {"Jalr"}
    BY <1>6 DEF TrainsPredictor
  <2>2. e.inst.pc \in CodePcs
    BY <1>4, <2>1, BranchesInCode DEF Branches
  <2>3. update(e.inst.pc, actualTaken(e), actualTarget(e))
    BY <1>1, <2>1 DEF WriteBack
  <2>4. train(e.inst.pc, predicted(e), actualTaken(e), actualTarget(e))
    BY <1>2, <1>3, <1>6
  <2>5. actualTaken(e) \in BOOLEAN
    BY DEF actualTaken, Taken
  <2>6. SetOf(e.inst.pc) \in BtbSets /\ TagOf(e.inst.pc) \in Nat
    BY <1>5, <2>2, CodeIdentified
  <2> HIDE DEF e, predicted
  <2> QED
    BY <1>4, <1>5, <2>2, <2>3, <2>4, <2>5, <2>6, TrainingKeepsLines
<1>7. CASE ~TrainsPredictor(e)
  <2>1. UNCHANGED <<bpConfig, btb, btbClock>>
    BY <1>2, <1>3, <1>7 DEF predictorVars
  <2>2. UNCHANGED lastTarget
    BY <1>1, <1>7 DEF WriteBack, TrainsPredictor
  <2> QED
    BY <1>5, <2>1, <2>2, LinesStay
<1> QED
  BY <1>6, <1>7

LEMMA OthersDrive ==
  ASSUME MachineNext, ~MachineFetch, ~MachineIssue, ~MachineComplete
  PROVE  [Next]_vars /\ UNCHANGED <<bpConfig, btb, btbClock, lastTarget, hierarchy>>
<1>1. CASE MachineCommit
  BY <1>1 DEF MachineCommit, Next, CommitInstruction, CommitEcall, predictorVars, cacheVars
<1>2. CASE MachineTick
  BY <1>2 DEF MachineTick, Next, Tick, predictorVars, cacheVars
<1>3. CASE MachineIssueSkip
  BY <1>3 DEF MachineIssueSkip, Next, IssueSkip, predictorVars, cacheVars
<1>4. CASE MachineRename
  BY <1>4 DEF MachineRename, Next, RenameInstruction, predictorVars, cacheVars
<1>5. CASE MachineRenameDone
  BY <1>5 DEF MachineRenameDone, Next, RenameDone, predictorVars, cacheVars
<1>6. CASE MachineFetchWait
  BY <1>6 DEF MachineFetchWait, Next, FetchWait, predictorVars, cacheVars
<1>7. CASE MachineFetchDone
  BY <1>7 DEF MachineFetchDone, Next, FetchDone, predictorVars, cacheVars
<1>8. CASE /\ CommitFault \/ CompleteSkip \/ Select \/ IssueMisaligned \/ IssueDone \/ Ended
           /\ Quiet
  <2>1. UNCHANGED lastTarget
    BY <1>8 DEF CommitFault, CompleteSkip, Select, IssueMisaligned, IssueDone, Ended, vars
  <2> QED
    BY <1>8, <2>1 DEF Quiet, Next, predictorVars, cacheVars
<1>9. CASE TimedOut
  BY <1>9 DEF TimedOut, machineVars, vars, predictorVars, cacheVars
<1> QED
  BY <1>1, <1>2, <1>3, <1>4, <1>5, <1>6, <1>7, <1>8, <1>9 DEF MachineNext, MachineStep

LEMMA MachineDrives ==
  ASSUME DrivenInv, [MachineNext]_machineVars
  PROVE  [Next]_vars /\ DrivenInv'
<1> SUFFICES [Next]_vars /\ BtbInv(CodePcs)' /\ UNCHANGED hierarchy
  <2>1. [Next]_vars => TypeOK' /\ InstsFromProgram'
    BY NextType, InstsStep DEF DrivenInv
  <2> QED
    BY <2>1 DEF DrivenInv
<1>1. UNCHANGED <<bpConfig, btb, btbClock, lastTarget>> => BtbInv(CodePcs)'
  BY LinesStay DEF DrivenInv
<1>2. CASE MachineFetch
  BY <1>1, <1>2, MachineFetches DEF Next
<1>3. CASE MachineIssue
  BY <1>1, <1>3, MachineIssues DEF Next
<1>4. CASE MachineComplete
  <2>1. Next
    BY <1>4 DEF MachineComplete, Next
  <2> QED
    BY <1>4, <2>1, MachineCompletes
<1>5. CASE MachineNext /\ ~MachineFetch /\ ~MachineIssue /\ ~MachineComplete
  BY <1>1, <1>5, OthersDrive
<1>6. CASE UNCHANGED machineVars
  <2>1. UNCHANGED <<vars, bpConfig, btb, btbClock, lastTarget, hierarchy>>
    BY <1>6 DEF machineVars, vars, predictorVars, cacheVars
  <2> QED
    BY <1>1, <2>1
<1> QED
  BY <1>2, <1>3, <1>4, <1>5, <1>6

LEMMA MachineStarts == MachineInit => DrivenInv
<1>1. Init => InstsFromProgram
  <2> SUFFICES ASSUME Init PROVE InstsFromProgram
    OBVIOUS
  <2>1. InFlight = {} /\ fetchQueue = << >>
    BY NoEntriesPartial DEF Init, RobInit, InFlight, FetchInit
  <2> QED
    BY <2>1 DEF InstsFromProgram
<1>2. Init /\ PredictorInit => BtbInv(CodePcs)
  BY InitLines DEF Init
<1> QED
  BY <1>1, <1>2, InitType DEF MachineInit, CacheInit, DrivenInv

LEMMA DrivenInvariant == MachineSpec => []DrivenInv
BY MachineStarts, MachineDrives, PTL DEF MachineSpec

(* Whatever the tables of the predictor and the lines of the caches hold,  *)
(* the machine steps as one of the pipelines that are open about both.     *)
THEOREM MachineIsAPipeline == MachineSpec => PipelineAllows
<1>1. MachineInit => Init
  BY DEF MachineInit
<1>2. DrivenInv /\ [MachineNext]_machineVars => [Next]_vars
  BY MachineDrives
<1> QED
  BY <1>1, <1>2, DrivenInvariant, PTL DEF MachineSpec, PipelineAllows, Pipeline

(* So the machine, too, implements the in-order machine as far as no load  *)
(* runs ahead of an older store to one of its bytes.                       *)
THEOREM MachineImplementsIsa == MachineSpec /\ []LoadsFollowStores => ImplementsIsa
BY MachineIsAPipeline, PipelineImplementsIsa, PTL DEF PipelineAllows

(* And the invariants of the open pipeline are invariants of the machine.  *)
THEOREM MachineKeepsInvariants ==
  MachineSpec => [](/\ RegistersDisjoint /\ SourcesKept /\ CheckpointUndoesYounger
                    /\ InOnePlace /\ LoadsBehindStores /\ ExitIsYoungest
                    /\ ReadyBitsExact /\ OperandsNamed /\ InProgramOrder)
BY MachineIsAPipeline, RegistersNeverShared, NoWriteAfterRead,
   RecoveryForgetsExactlyTheFlushed, NothingMisplaced, LoadsWaitForStores,
   NothingBehindExit, WakeUpExact, OperandsFollowProgramOrder, NoWrongPathSurvives,
   PTL DEF PipelineAllows

-----------------------------------------------------------------------------
(* Cycles and stages *)

(* The stages of a cycle from one on, and how a run ends.                  *)
FromFetch    == {"fetch", "done", "error"}
FromRename   == {"rename"} \cup FromFetch
FromIssue    == {"issue"} \cup FromRename
FromComplete == {"complete"} \cup FromIssue

StageSets == {FromFetch, FromRename, FromIssue, FromComplete}

Advances ==
  /\ cycles' \in Nat \ {0}
  /\ expired => expired'
  /\ \/ expired'
     \/ cycles' = cycles + 1
     \/ cycles' = cycles /\ \A S \in StageSets : stage \in S => stage' \in S

LEMMA Clock ==
  ASSUME cycles \in Nat \ {0}, [MachineNext]_machineVars
  PROVE  Advances
<1>1. CASE UNCHANGED <<cycleVars, stage>>
  BY <1>1 DEF Advances, cycleVars
<1>2. CASE MachineCommit
  BY <1>1, <1>2 DEF MachineCommit, CommitInstruction, CommitEcall
<1>3. CASE MachineTick
  BY <1>3 DEF MachineTick, Tick, GoTo, Advances, cycleVars, StageSets,
              FromFetch, FromRename, FromIssue, FromComplete
<1>4. CASE MachineComplete
  BY <1>1, <1>4 DEF MachineComplete, CompleteInstruction, CompleteRecovering
<1>5. CASE MachineIssueSkip
  BY <1>1, <1>5 DEF MachineIssueSkip, IssueSkip
<1>6. CASE MachineIssue
  BY <1>1, <1>6 DEF MachineIssue, IssueWith
<1>7. CASE MachineRename
  BY <1>1, <1>7 DEF MachineRename, RenameInstruction
<1>8. CASE MachineRenameDone
  BY <1>8 DEF MachineRenameDone, RenameDone, GoTo, Advances, cycleVars, StageSets,
              FromFetch, FromRename, FromIssue, FromComplete
<1>9. CASE MachineFetchWait \/ MachineFetch \/ MachineFetchDone
  <2>1. /\ stage = "fetch" /\ BeginCycle
        /\ NextCycle \/ stage' = stage
    BY <1>9 DEF MachineFetchWait, MachineFetch, MachineFetchDone, FetchWait, FetchWith, FetchDone
  <2>2. CASE stage' = "commit"
    BY <2>1, <2>2 DEF BeginCycle, CountAndSample, cycleVars, Advances
  <2>3. CASE stage' # "commit"
    <3>1. stage' \in {"fetch", "done"} /\ UNCHANGED cycleVars
      BY <2>1, <2>3 DEF BeginCycle, NextCycle, GoTo
    <3> QED
      BY <2>1, <3>1 DEF Advances, cycleVars, StageSets,
                        FromFetch, FromRename, FromIssue, FromComplete
  <2> QED
    BY <2>2, <2>3
<1>10. CASE /\ CommitFault \/ CompleteSkip \/ Select \/ IssueMisaligned \/ IssueDone \/ Ended
            /\ Quiet
  <2>1. UNCHANGED cycleVars
    BY <1>10 DEF Quiet
  <2>2. \/ stage' \in {stage, "error"}
        \/ stage = "complete" /\ stage' = "issue"
        \/ stage = "issue" /\ stage' = "rename"
    BY <1>10 DEF CommitFault, CompleteSkip, Select, IssueMisaligned, IssueDone, Ended, GoTo,
                 vars, loopVars
  <2> QED
    BY <2>1, <2>2 DEF Advances, cycleVars, StageSets,
                      FromFetch, FromRename, FromIssue, FromComplete
<1>11. CASE TimedOut \/ UNCHANGED machineVars
  BY <1>1, <1>11 DEF TimedOut, machineVars, vars, loopVars
<1> QED
  BY <1>2, <1>3, <1>4, <1>5, <1>6, <1>7, <1>8, <1>9, <1>10, <1>11 DEF MachineNext, MachineStep

(* A stamp is of an earlier cycle, or of this one and a stage that ran.    *)
Past(x, stages) == x < cycles \/ (x = cycles /\ stage \in stages)

LEMMA PastStays ==
  ASSUME cycles \in Nat, Advances, ~expired', NEW x \in Nat, NEW S \in StageSets, Past(x, S)
  PROVE  Past(x, S)'
BY DEF Past, Advances

-----------------------------------------------------------------------------
(* The trace *)

TraceEntry ==
  [fetch : Nat, rename : Nat, issue : Nat, complete : Nat, commit : Nat,
   mispredicted : BOOLEAN, cached : BOOLEAN, branch : BOOLEAN]

(* The trace t of an instruction in flight, with entry e, says how far it  *)
(* has come.                                                               *)
Traced(e, t) ==
  /\ t.branch = TrainsPredictor(e)
  /\ t.commit = 0
  /\ e.issued <=> t.issue # 0
  /\ ~e.issued => ~t.cached
  /\ ~e.ready => t.complete = 0 /\ ~t.mispredicted
  /\ e.ready => e.exception \/ t.complete # 0

Timed(t) ==
  /\ Past(t.rename, FromRename)
  /\ Past(t.issue, FromIssue)
  /\ Past(t.complete, FromComplete)
  /\ t.commit <= cycles

TraceInv ==
  /\ cycles \in Nat \ {0} /\ expired \in BOOLEAN
  /\ DOMAIN trace = Seqs
  /\ \A s \in Seqs : /\ trace[s] \in TraceEntry
                     /\ StampsOrdered(trace[s])
                     /\ ~expired => Timed(trace[s])
  /\ \A s \in InFlight : Traced(rob[s], trace[s])
  /\ \A s \in Committed, t \in InFlight : s < t
  /\ \A s, t \in Committed : s < t => trace[s].commit <= trace[t].commit

(* The cycles of the instructions that wait in the queue.                  *)
QueueTimed ==
  /\ fetchCycles \in Seq(Nat) /\ Len(fetchCycles) = Len(fetchQueue)
  /\ ~expired => \A k \in 1 .. Len(fetchCycles) : Past(fetchCycles[k], FromFetch)

LEMMA TimedStays ==
  ASSUME cycles \in Nat, Advances, ~expired', NEW t \in TraceEntry, Timed(t)
  PROVE  Timed(t)'
<1>1. /\ t.rename \in Nat /\ t.issue \in Nat /\ t.complete \in Nat /\ t.commit \in Nat
  BY DEF TraceEntry
<1>2. Past(t.rename, FromRename)' /\ Past(t.issue, FromIssue)' /\ Past(t.complete, FromComplete)'
  BY <1>1, PastStays DEF Timed, StageSets
<1>3. t.commit <= cycles'
  BY <1>1, <1>2 DEF Timed, Advances
<1> QED
  BY <1>2, <1>3 DEF Timed

LEMMA TracedFlight ==
  ASSUME TypeOK, TraceInv, NEW s \in InFlight
  PROVE  /\ s \in Seqs /\ s \in DOMAIN trace /\ trace[s] \in TraceEntry
         /\ StampsOrdered(trace[s]) /\ Traced(rob[s], trace[s]) /\ s \in Nat
         /\ ~expired => Timed(trace[s])
BY EntryType DEF TraceInv, Seqs, TypeOK, BackTypeOK

(* No stamp is set. *)
LEMMA NoStamp ==
  ASSUME TypeOK, TraceInv, Advances, UNCHANGED <<trace, nextSeq>>, expired' \in BOOLEAN,
         \A s \in InFlight' : s \in InFlight /\ rob'[s] \in {rob[s], Faulted(rob[s])}
  PROVE  TraceInv'
<1>1. cycles' \in Nat \ {0} /\ cycles \in Nat \ {0}
  BY DEF Advances, TraceInv
<1>2. Seqs' = Seqs /\ Committed' = Committed
  BY DEF Seqs, Committed
<1>3. \A s \in Seqs : ~expired' => Timed(trace[s])'
  <2> SUFFICES ASSUME NEW s \in Seqs, ~expired' PROVE Timed(trace[s])'
    OBVIOUS
  <2>1. ~expired /\ trace[s] \in TraceEntry /\ Timed(trace[s])
    BY DEF Advances, TraceInv
  <2>2. PICK t \in TraceEntry : t = trace[s]
    BY <2>1
  <2>3. Timed(t)'
    BY <1>1, <2>1, <2>2, TimedStays
  <2> QED
    BY <2>2, <2>3 DEF Timed, Past
<1>4. \A s \in InFlight' : Traced(rob'[s], trace[s])
  <2> SUFFICES ASSUME NEW s \in InFlight' PROVE Traced(rob'[s], trace[s])
    OBVIOUS
  <2>1. s \in InFlight /\ Traced(rob[s], trace[s])
    BY DEF TraceInv
  <2>2. CASE rob'[s] = rob[s]
    BY <2>1, <2>2
  <2>3. CASE rob'[s] = Faulted(rob[s])
    BY <2>1, <2>3, EntryAfter DEF Traced, TrainsPredictor
  <2> QED
    BY <2>2, <2>3
<1> QED
  BY <1>1, <1>2, <1>3, <1>4 DEF TraceInv, Committed

(* One instruction in flight is stamped. *)
LEMMA OneStamp ==
  ASSUME TypeOK, TraceInv, ~expired, UNCHANGED <<stage, cycles, expired, nextSeq>>,
         NEW h \in InFlight, NEW t \in TraceEntry, StampsOrdered(t), Timed(t),
         \/ t.commit = 0
         \/ IsHead(h) /\ h \notin InFlight' /\ t.commit = cycles,
         trace' = [trace EXCEPT ![h] = t],
         \A s \in InFlight' : /\ s \in InFlight
                              /\ s # h => rob'[s] = rob[s]
                              /\ s = h => Traced(rob'[s], t)
  PROVE  TraceInv'
<1>1. /\ cycles \in Nat \ {0} /\ DOMAIN trace = Seqs /\ h \in Seqs
      /\ \A s \in InFlight : s \in Seqs /\ s \in Nat
  BY TracedFlight DEF TraceInv
<1>2. DOMAIN trace' = Seqs /\ \A s \in Seqs : trace'[s] = IF s = h THEN t ELSE trace[s]
  BY <1>1
<1>3. \A x, S : Past(x, S)' <=> Past(x, S)
  BY DEF Past
<1>4. Timed(t)'
  BY DEF Timed, Past
<1>5. \A s \in Seqs : /\ trace'[s] \in TraceEntry /\ StampsOrdered(trace'[s])
                      /\ Timed(trace[s])'
  <2> SUFFICES ASSUME NEW s \in Seqs
               PROVE  trace'[s] \in TraceEntry /\ StampsOrdered(trace'[s]) /\ Timed(trace[s])'
    OBVIOUS
  <2>1. CASE s = h
    BY <1>2, <1>4, <2>1 DEF Timed, Past
  <2>2. CASE s # h
    BY <1>2, <2>2 DEF TraceInv, Timed, Past
  <2> QED
    BY <2>1, <2>2
<1>6. \A s \in InFlight' : Traced(rob'[s], trace'[s])
  BY <1>1, <1>2 DEF TraceInv
<1>7. \A s \in Seqs : s \in Committed' <=>
        s \in Committed \/ (s = h /\ t.commit # 0)
  <2>1. trace[h].commit = 0
    BY TracedFlight DEF Traced
  <2> QED
    BY <1>1, <1>2, <2>1 DEF Committed
<1>8. Committed' \subseteq Seqs /\ Committed \subseteq Seqs
  BY <1>1, <1>2 DEF Committed
<1>9. \A s \in Committed', u \in InFlight' : s < u
  <2> SUFFICES ASSUME NEW s \in Committed', NEW u \in InFlight' PROVE s < u
    OBVIOUS
  <2>1. u \in InFlight
    OBVIOUS
  <2>2. CASE s \in Committed
    BY <2>1, <2>2 DEF TraceInv
  <2>3. CASE s \notin Committed
    <3>1. s = h /\ IsHead(h) /\ h \notin InFlight'
      BY <1>7, <1>8, <2>3
    <3> QED
      BY <1>1, <2>1, <3>1 DEF IsHead
  <2> QED
    BY <2>2, <2>3
<1>10. \A s, u \in Committed' : s < u => trace'[s].commit <= trace'[u].commit
  <2> SUFFICES ASSUME NEW s \in Committed', NEW u \in Committed', s < u
               PROVE  trace'[s].commit <= trace'[u].commit
    OBVIOUS
  <2>1. /\ s \in Seqs /\ u \in Seqs
        /\ s \in Committed \/ (s = h /\ t.commit # 0)
        /\ u \in Committed \/ (u = h /\ t.commit # 0)
    BY <1>7, <1>8
  <2>2. CASE s = h
    <3>1. u = h \/ u < h
      BY <2>1 DEF TraceInv
    <3> QED
      BY <1>1, <2>1, <2>2, <3>1 DEF Seqs
  <2>3. CASE s # h /\ u = h
    <3>1. t.commit # 0 \/ h \in Committed
      BY <2>1, <2>3
    <3>2. h \notin Committed
      BY TracedFlight DEF Traced, Committed
    <3>3. trace[s].commit <= cycles
      BY <2>1 DEF TraceInv, Timed
    <3> QED
      BY <1>2, <2>1, <2>3, <3>1, <3>2, <3>3
  <2>4. CASE s # h /\ u # h
    BY <1>2, <2>1, <2>4 DEF TraceInv
  <2> QED
    BY <2>2, <2>3, <2>4
<1>11. Seqs' = Seqs
  BY DEF Seqs
<1> QED
  BY <1>1, <1>2, <1>5, <1>6, <1>9, <1>10, <1>11 DEF TraceInv

(* The completion the machine makes is the one of the pipeline. *)
LEMMA CompletionMade ==
  ASSUME TypeOK, PlaceInv, MachineComplete
  PROVE  \E s \in InFlight :
           LET e == rob[s]
               lost == IF recovers(e) THEN {t \in InFlight : t > s} ELSE {}
           IN
           /\ Finishes(s)
           /\ IF TrainsPredictor(e)
                THEN train(e.inst.pc,
                           [taken |-> e.inst.predictedTaken, target |-> e.inst.predictedTarget],
                           actualTaken(e), actualTarget(e))
                ELSE UNCHANGED predictorVars
           /\ Tally({n \in {"retiredBranches"} : TrainsPredictor(e)}
                      \cup {n \in {"branchMispredictions"} : mispredicted(e)}
                      \cup {n \in {"branch_recoveries"} : recovers(e)})
           /\ Stamp(s, [trace[s] EXCEPT !.complete = cycles, !.mispredicted = mispredicted(e)])
           /\ fetchCycles' = IF recovers(e) THEN << >> ELSE fetchCycles
           /\ flushedAt' = [t \in DOMAIN flushedAt \cup lost |->
                              IF t \in lost THEN cycles ELSE flushedAt[t]]
<1>1. PICK u \in InFlight : Finishes(u)
  BY CompletionFinishes DEF MachineComplete
<1>2. \A t \in work : IsNext(t) => t = u
  BY <1>1, SeqsBelow DEF Finishes, IsNext
<1> QED
  BY <1>1, <1>2 DEF MachineComplete

(* So is what it commits, the head of the reorder buffer. *)
LEMMA CommitMade ==
  ASSUME TypeOK, MachineCommit
  PROVE  \E h \in InFlight :
           /\ Commits(h) /\ ~Faults(rob[h]) /\ rob' = Only(rob, InFlight \ {h})
           /\ trace' = [trace EXCEPT ![h] = [trace[h] EXCEPT !.commit = cycles]]
<1>1. PICK h \in InFlight : /\ Commits(h) /\ ~Faults(rob[h])
                            /\ rob' = Only(rob, InFlight \ {h})
  BY DEF MachineCommit, CommitInstruction, CommitEcall, popHead
<1>2. \A s \in InFlight : IsHead(s) => s = h
  BY <1>1, SeqsBelow DEF Commits, IsHead
<1> QED
  BY <1>1, <1>2 DEF MachineCommit, Stamp

LEMMA CommitTraced == TypeOK /\ TraceInv /\ ~expired /\ MachineCommit => TraceInv'
<1> SUFFICES ASSUME TypeOK, TraceInv, ~expired, MachineCommit PROVE TraceInv'
  OBVIOUS
<1>1. PICK h \in InFlight :
        /\ Commits(h) /\ ~Faults(rob[h]) /\ rob' = Only(rob, InFlight \ {h})
        /\ trace' = [trace EXCEPT ![h] = [trace[h] EXCEPT !.commit = cycles]]
  BY CommitMade
<1>2. stage = "commit" /\ UNCHANGED <<stage, cycles, expired, nextSeq>>
  BY DEF MachineCommit, CommitInstruction, CommitEcall, cycleVars
<1>3. IsHead(h) /\ \A x \in InFlight' : x \in InFlight /\ x # h /\ rob'[x] = rob[x]
  BY <1>1 DEF Commits, Only, InFlight
<1> DEFINE t == [trace[h] EXCEPT !.commit = cycles]
<1>4. /\ trace[h] \in TraceEntry /\ StampsOrdered(trace[h]) /\ Timed(trace[h])
      /\ Traced(rob[h], trace[h])
      /\ cycles \in Nat \ {0}
  BY TracedFlight DEF TraceInv
<1>5. /\ t \in TraceEntry /\ t.commit = cycles
      /\ t.fetch = trace[h].fetch /\ t.rename = trace[h].rename
      /\ t.issue = trace[h].issue /\ t.complete = trace[h].complete
  BY <1>4 DEF TraceEntry
<1>6. t.complete # 0
  BY <1>1, <1>4, <1>5 DEF Commits, Faults, Traced
<1>7. t.complete < cycles
  BY <1>2, <1>4, <1>5 DEF Timed, Past, FromComplete, FromIssue, FromRename, FromFetch
<1>8. StampsOrdered(t) /\ Timed(t)
  BY <1>4, <1>5, <1>6, <1>7 DEF StampsOrdered, Timed
<1> HIDE DEF t
<1> QED
  BY <1>1, <1>2, <1>3, <1>5, <1>8, OneStamp DEF t

LEMMA CompleteTraced == TypeOK /\ PlaceInv /\ TraceInv /\ ~expired /\ MachineComplete => TraceInv'
<1> SUFFICES ASSUME TypeOK, PlaceInv, TraceInv, ~expired, MachineComplete PROVE TraceInv'
  OBVIOUS
<1>1. PICK h \in InFlight :
        /\ Finishes(h)
        /\ trace' = [trace EXCEPT ![h] = [trace[h] EXCEPT !.complete = cycles,
                                            !.mispredicted = mispredicted(rob[h])]]
  BY CompletionMade DEF Stamp
<1>2. stage = "complete" /\ UNCHANGED <<stage, cycles, expired, nextSeq>>
  BY DEF MachineComplete, CompleteInstruction, CompleteRecovering, cycleVars
<1> DEFINE t == [trace[h] EXCEPT !.complete = cycles, !.mispredicted = mispredicted(rob[h])]
<1>3. /\ trace[h] \in TraceEntry /\ StampsOrdered(trace[h]) /\ Timed(trace[h])
      /\ Traced(rob[h], trace[h])
      /\ cycles \in Nat \ {0}
  BY TracedFlight DEF TraceInv
<1>4. mispredicted(rob[h]) \in BOOLEAN
  BY DEF mispredicted
<1>5. /\ t \in TraceEntry /\ t.complete = cycles /\ t.commit = trace[h].commit
      /\ t.fetch = trace[h].fetch /\ t.rename = trace[h].rename
      /\ t.issue = trace[h].issue /\ t.cached = trace[h].cached
      /\ t.branch = trace[h].branch
  BY <1>3, <1>4 DEF TraceEntry
<1>6. t.issue # 0 /\ t.commit = 0
  BY <1>1, <1>3, <1>5 DEF Traced, Finishes
<1>7. t.issue < cycles
  BY <1>2, <1>3, <1>5 DEF Timed, Past, FromIssue, FromRename, FromFetch
<1>8. StampsOrdered(t) /\ Timed(t)
  BY <1>2, <1>3, <1>5, <1>6, <1>7 DEF StampsOrdered, Timed, Past, FromComplete
<1>9. Traced(rob'[h], t)
  <2>1. rob'[h] = Executed(rob[h])
    BY <1>1 DEF Finishes
  <2> HIDE DEF t
  <2> QED
    BY <2>1, <1>1, <1>3, <1>5, <1>6, EntryAfter DEF Traced, TrainsPredictor, Finishes
<1>10. \A x \in InFlight' : x \in InFlight /\ (x # h => rob'[x] = rob[x])
  BY <1>1 DEF Finishes
<1> HIDE DEF t
<1> QED
  BY <1>1, <1>2, <1>5, <1>6, <1>8, <1>9, <1>10, OneStamp DEF t

LEMMA IssueTraced == TypeOK /\ TraceInv /\ ~expired /\ MachineIssue => TraceInv'
<1> SUFFICES ASSUME TypeOK, TraceInv, ~expired, MachineIssue PROVE TraceInv'
  OBVIOUS
<1>1. PICK h \in InFlight :
        /\ ~rob[h].issued /\ rob' = Put(rob, h, Issued(rob[h]))
        /\ trace' = [trace EXCEPT ![h] = [trace[h] EXCEPT !.issue = cycles,
                                            !.cached = rob[h].inst.op \in MemoryOps]]
  BY DEF MachineIssue, IssueWith, Issues, Stamp
<1>2. stage = "issue" /\ UNCHANGED <<stage, cycles, expired, nextSeq>>
  BY DEF MachineIssue, IssueWith, cycleVars
<1> DEFINE isMemory == rob[h].inst.op \in MemoryOps
           t == [trace[h] EXCEPT !.issue = cycles, !.cached = isMemory]
<1>3. /\ trace[h] \in TraceEntry /\ StampsOrdered(trace[h]) /\ Timed(trace[h])
      /\ Traced(rob[h], trace[h])
      /\ cycles \in Nat \ {0}
  BY TracedFlight DEF TraceInv
<1>4. isMemory \in BOOLEAN
  OBVIOUS
<1> HIDE DEF isMemory
<1>5. /\ t \in TraceEntry /\ t.issue = cycles /\ t.commit = trace[h].commit
      /\ t.fetch = trace[h].fetch /\ t.rename = trace[h].rename
      /\ t.complete = trace[h].complete /\ t.branch = trace[h].branch
      /\ t.mispredicted = trace[h].mispredicted
  BY <1>3, <1>4 DEF TraceEntry
<1>6. t.complete = 0 /\ t.commit = 0
  BY <1>1, <1>3, <1>5 DEF Traced, StampsOrdered
<1>7. t.rename < cycles
  BY <1>2, <1>3, <1>5 DEF Timed, Past, FromRename, FromFetch
<1>8. StampsOrdered(t) /\ Timed(t)
  BY <1>2, <1>3, <1>5, <1>6, <1>7 DEF StampsOrdered, Timed, Past, FromIssue, FromComplete
<1>9. InFlight' = InFlight /\ rob'[h] = Issued(rob[h]) /\ \A x \in InFlight : x # h => rob'[x] = rob[x]
  BY <1>1, Replaced
<1>10. Traced(rob'[h], t)
  <2> HIDE DEF t
  <2> QED
    BY <1>3, <1>5, <1>6, <1>9, EntryAfter DEF Traced, TrainsPredictor
<1> HIDE DEF t
<1> QED
  BY <1>1, <1>2, <1>5, <1>6, <1>8, <1>9, <1>10, OneStamp DEF t, isMemory

LEMMA RenameTraced ==
  TypeOK /\ TraceInv /\ QueueTimed /\ ~expired /\ MachineRename => TraceInv'
<1> SUFFICES ASSUME TypeOK, TraceInv, QueueTimed, ~expired, MachineRename PROVE TraceInv'
  OBVIOUS
<1> DEFINE i == Head(fetchQueue)
           branch == TrainsPredictor([inst |-> i])
           t == [fetch |-> Head(fetchCycles), rename |-> cycles, issue |-> 0, complete |-> 0,
                 commit |-> 0, mispredicted |-> FALSE, cached |-> FALSE, branch |-> branch]
<1>1. /\ trace' = Put(trace, nextSeq, t) /\ nextSeq' = nextSeq + 1
      /\ stage = "rename" /\ UNCHANGED <<stage, cycles, expired>>
      /\ fetchQueue # << >>
  BY DEF MachineRename, RenameInstruction, RobAllocate, CanRename, cycleVars
<1>2. /\ cycles \in Nat \ {0} /\ expired \in BOOLEAN /\ DOMAIN trace = Seqs
      /\ nextSeq \in Nat \ {0}
      /\ \A s \in InFlight : s < nextSeq /\ s \in Seqs
  BY SeqsBelow, EntryType DEF TraceInv, TypeOK, BackTypeOK
<1>3. Seqs' = Seqs \cup {nextSeq} /\ nextSeq \notin Seqs
  BY <1>1, <1>2 DEF Seqs
<1>4. /\ Head(fetchCycles) \in Nat /\ Head(fetchCycles) < cycles
  <2>1. Len(fetchQueue) \in Nat /\ Len(fetchQueue) # 0
    BY <1>1 DEF TypeOK, FrontTypeOK
  <2>2. /\ fetchCycles \in Seq(Nat) /\ fetchCycles # << >> /\ 1 \in 1 .. Len(fetchCycles)
        /\ Head(fetchCycles) = fetchCycles[1] /\ Head(fetchCycles) \in Nat
    BY <2>1 DEF QueueTimed
  <2> QED
    BY <1>1, <2>2 DEF QueueTimed, Past, FromFetch
<1>5. branch \in BOOLEAN
  BY DEF TrainsPredictor
<1> HIDE DEF branch
<1>6. t \in TraceEntry /\ StampsOrdered(t) /\ Timed(t)
  BY <1>1, <1>2, <1>4, <1>5 DEF TraceEntry, StampsOrdered, Timed, Past,
                                FromRename, FromIssue, FromComplete
<1>7. t.commit = 0
  OBVIOUS
<1>8. InFlight' = InFlight \cup {nextSeq} /\ rob'[nextSeq] = RobEntry(i)
      /\ \A s \in InFlight : rob'[s] = rob[s]
  BY RenameAdds DEF MachineRename
<1>9. Traced(RobEntry(i), t)
  BY DEF Traced, RobEntry, TrainsPredictor, branch
<1> HIDE DEF t
<1>10. /\ DOMAIN trace' = Seqs' /\ trace'[nextSeq] = t
       /\ \A s \in Seqs : trace'[s] = trace[s]
  BY <1>1, <1>2, <1>3 DEF Put
<1>11. \A s \in Seqs' : trace'[s] \in TraceEntry /\ StampsOrdered(trace'[s]) /\ Timed(trace'[s])
  BY <1>2, <1>3, <1>6, <1>10 DEF TraceInv
<1>12. \A s \in Seqs' : Timed(trace[s])' <=> Timed(trace'[s])
  BY <1>1 DEF Timed, Past
<1>13. \A s \in InFlight' : Traced(rob'[s], trace'[s])
  BY <1>2, <1>8, <1>9, <1>10 DEF TraceInv
<1>14. Committed' = Committed /\ Committed \subseteq Seqs
  BY <1>2, <1>3, <1>7, <1>10 DEF Committed
<1>15. \A s \in Committed, u \in InFlight' : s < u
  BY <1>2, <1>8, <1>14 DEF TraceInv, Seqs
<1>16. \A s, u \in Committed : s < u => trace'[s].commit <= trace'[u].commit
  BY <1>10, <1>14 DEF TraceInv
<1> QED
  BY <1>1, <1>2, <1>10, <1>11, <1>12, <1>13, <1>14, <1>15, <1>16 DEF TraceInv

LEMMA OthersTraced ==
  ASSUME TypeOK, TraceInv, Advances, [MachineNext]_machineVars,
         ~MachineCommit, ~MachineComplete, ~MachineIssue, ~MachineRename
  PROVE  TraceInv'
<1>1. UNCHANGED <<trace, nextSeq>>
  BY DEF MachineNext, MachineStep, MachineTick, MachineIssueSkip, MachineRenameDone,
         MachineFetchWait, MachineFetch, MachineFetchDone, Tick, IssueSkip, RenameDone,
         FetchWait, FetchWith, FetchDone, CommitFault, CompleteSkip, Select, IssueMisaligned,
         IssueDone, Ended, Quiet, TimedOut, machineVars, vars, robVars, reportVars
<1>2. expired' \in BOOLEAN
  BY DEF MachineNext, MachineStep, MachineTick, MachineIssueSkip, MachineRenameDone,
         MachineFetchWait, MachineFetch, MachineFetchDone, BeginCycle, TraceInv,
         Quiet, TimedOut, machineVars, cycleVars
<1>3. CASE IssueMisaligned
  <2>1. PICK s \in InFlight : rob' = Put(rob, s, Faulted(rob[s]))
    BY <1>3 DEF IssueMisaligned, Issues
  <2>2. \A x \in InFlight' : x \in InFlight /\ rob'[x] \in {rob[x], Faulted(rob[x])}
    BY <2>1, Replaced
  <2> QED
    BY <1>1, <1>2, <2>2, NoStamp
<1>4. CASE ~IssueMisaligned
  <2>1. rob' = rob
    BY <1>4 DEF MachineNext, MachineStep, MachineTick, MachineIssueSkip, MachineRenameDone,
         MachineFetchWait, MachineFetch, MachineFetchDone, Tick, IssueSkip, RenameDone,
         FetchWait, FetchWith, FetchDone, CommitFault, CompleteSkip, Select,
         IssueDone, Ended, Quiet, TimedOut, machineVars, vars, robVars
  <2> QED
    BY <1>1, <1>2, <2>1, NoStamp DEF InFlight
<1> QED
  BY <1>3, <1>4

LEMMA TraceStep ==
  TypeOK /\ PlaceInv /\ TraceInv /\ QueueTimed /\ [MachineNext]_machineVars => TraceInv'
<1> SUFFICES ASSUME TypeOK, PlaceInv, TraceInv, QueueTimed, [MachineNext]_machineVars
             PROVE  TraceInv'
  OBVIOUS
<1>1. Advances
  BY Clock DEF TraceInv
<1>2. CASE MachineNext /\ ~expired
  BY <1>1, <1>2, CommitTraced, CompleteTraced, IssueTraced, RenameTraced, OthersTraced
<1>3. CASE UNCHANGED machineVars
  <2>1. UNCHANGED <<trace, nextSeq, rob, expired>>
    BY <1>3 DEF machineVars, vars, robVars, reportVars, cycleVars
  <2> QED
    BY <1>1, <2>1, NoStamp DEF InFlight, TraceInv
<1> QED
  BY <1>2, <1>3 DEF MachineNext, TimedOut

LEMMA QueueTimesStep ==
  TypeOK /\ PlaceInv /\ TraceInv /\ QueueTimed /\ [MachineNext]_machineVars => QueueTimed'
<1> SUFFICES ASSUME TypeOK, PlaceInv, TraceInv, QueueTimed, [MachineNext]_machineVars
             PROVE  QueueTimed'
  OBVIOUS
<1> DEFINE n == Len(fetchQueue)
           Earlier(x) == x < cycles' \/ (x = cycles' /\ stage' \in FromFetch)
<1>1. Advances /\ cycles \in Nat
  BY Clock DEF TraceInv
<1>2. /\ fetchCycles \in Seq(Nat) /\ Len(fetchCycles) = n /\ n \in Nat
      /\ \A k \in 1 .. n : fetchCycles[k] \in Nat
  BY DEF QueueTimed, TypeOK, FrontTypeOK
<1>3. ~expired' => \A k \in 1 .. n : Earlier(fetchCycles[k])
  <2> SUFFICES ASSUME ~expired', NEW k \in 1 .. n PROVE Earlier(fetchCycles[k])
    OBVIOUS
  <2>1. ~expired
    BY <1>1 DEF Advances
  <2>2. PICK x \in Nat : x = fetchCycles[k]
    BY <1>2
  <2>3. Past(x, FromFetch)
    BY <1>2, <2>1, <2>2 DEF QueueTimed
  <2>4. FromFetch \in StageSets
    BY DEF StageSets
  <2>5. Past(x, FromFetch)'
    BY <1>1, <2>3, <2>4, PastStays
  <2> QED
    BY <2>2, <2>5 DEF Past
<1>4. CASE UNCHANGED <<fetchQueue, fetchCycles>>
  BY <1>2, <1>3, <1>4 DEF QueueTimed, Past
<1>5. CASE fetchQueue' = << >> /\ fetchCycles' = << >>
  BY <1>5 DEF QueueTimed
<1>6. CASE MachineFetch
  <2>1. /\ stage = "fetch" /\ Len(fetchQueue') = n + 1 /\ fetchCycles' = Append(fetchCycles, cycles)
        /\ Len(fetchCycles') = n + 1 /\ fetchCycles' \in Seq(Nat)
        /\ fetchCycles'[n + 1] = cycles
        /\ \A k \in 1 .. n : fetchCycles'[k] = fetchCycles[k]
    BY <1>1, <1>2, <1>6 DEF MachineFetch, FetchWith, FetchInstruction, TypeOK, FrontTypeOK
  <2>2. ~expired' => cycles < cycles' \/ (cycles = cycles' /\ stage' \in FromFetch)
    BY <1>1, <2>1 DEF Advances, StageSets, FromFetch
  <2>3. \A k \in 1 .. n + 1 : k \in 1 .. n \/ k = n + 1
    BY <1>2
  <2>4. ~expired' => \A k \in 1 .. n + 1 : Earlier(fetchCycles'[k])
    BY <1>3, <2>1, <2>2, <2>3
  <2> QED
    BY <2>1, <2>4 DEF QueueTimed, Past
<1>7. CASE MachineRename
  <2>1. /\ fetchQueue # << >> /\ fetchQueue' = Popped(Head(fetchQueue))
        /\ fetchCycles' = IF fetchQueue' = << >> THEN << >> ELSE Tail(fetchCycles)
    BY <1>7 DEF MachineRename, RenameInstruction, CanRename
  <2>2. CASE fetchQueue' = << >>
    BY <1>5, <2>1, <2>2
  <2>3. CASE fetchQueue' # << >>
    <3>1. fetchQueue' = Tail(fetchQueue) /\ fetchCycles' = Tail(fetchCycles) /\ n # 0
      BY <2>1, <2>3 DEF Popped, TypeOK, FrontTypeOK
    <3>2. Len(fetchQueue') = n - 1 /\ Len(fetchCycles') = n - 1 /\ fetchCycles' \in Seq(Nat)
          /\ \A k \in 1 .. n - 1 : fetchCycles'[k] = fetchCycles[k + 1]
      BY <1>2, <2>1, <3>1 DEF TypeOK, FrontTypeOK
    <3>3. \A k \in 1 .. n - 1 : k + 1 \in 1 .. n
      BY <1>2
    <3>4. ~expired' => \A k \in 1 .. n - 1 : Earlier(fetchCycles'[k])
      BY <1>3, <3>2, <3>3
    <3> QED
      BY <3>2, <3>4 DEF QueueTimed, Past
  <2> QED
    BY <2>2, <2>3
<1>8. CASE MachineComplete
  <2>1. PICK s \in InFlight : /\ IsNext(s)
                              /\ fetchCycles' = IF recovers(rob[s]) THEN << >> ELSE fetchCycles
    BY <1>8, CompletionMade DEF Finishes
  <2>2. \A t \in work : IsNext(t) => t = s
    BY <2>1, SeqsBelow DEF IsNext
  <2>3. CASE recovers(rob[s])
    <3>1. fetchQueue' = << >>
      BY <1>8, <2>2, <2>3 DEF MachineComplete, CompleteInstruction, CompleteRecovering,
                              Completes, FetchFlush
    <3> QED
      BY <1>5, <2>1, <2>3, <3>1
  <2>4. CASE ~recovers(rob[s])
    <3>1. UNCHANGED fetchQueue
      BY <1>8, <2>2, <2>4 DEF MachineComplete, CompleteInstruction, CompleteRecovering,
                              Completes, frontVars
    <3> QED
      BY <1>4, <2>1, <2>4, <3>1
  <2> QED
    BY <2>3, <2>4
<1>9. CASE /\ MachineNext \/ UNCHANGED machineVars
           /\ ~MachineFetch /\ ~MachineRename /\ ~MachineComplete
  <2>1. UNCHANGED <<fetchQueue, fetchCycles>>
    BY <1>9 DEF MachineNext, MachineStep, MachineCommit, MachineTick, MachineIssueSkip,
         MachineIssue, MachineRenameDone, MachineFetchWait, MachineFetchDone, CommitInstruction,
         CommitEcall, Tick, IssueSkip, IssueWith, RenameDone, FetchWait, FetchDone, CommitFault,
         CompleteSkip, Select, IssueMisaligned, IssueDone, Ended, Quiet, TimedOut,
         machineVars, vars, frontVars, reportVars
  <2> QED
    BY <1>4, <2>1
<1> QED
  BY <1>6, <1>7, <1>8, <1>9 DEF MachineNext, MachineStep

LEMMA TraceInvariant == MachineSpec => [](TraceInv /\ QueueTimed)
<1>1. MachineInit => TraceInv /\ QueueTimed
  <2> SUFFICES ASSUME MachineInit PROVE TraceInv /\ QueueTimed
    OBVIOUS
  <2>1. InFlight = {} /\ DOMAIN trace = {} /\ nextSeq = 1 /\ fetchQueue = << >>
    BY NoEntriesPartial DEF MachineInit, Init, RobInit, InFlight, FetchInit
  <2>2. Seqs = {} /\ Committed = {}
    BY <2>1 DEF Seqs, Committed
  <2>3. cycles = 1 /\ expired = FALSE /\ fetchCycles = << >>
    BY DEF MachineInit
  <2>4. TraceInv
    <3>1. cycles \in Nat \ {0}
      BY <2>3
    <3>2. expired \in BOOLEAN
      BY <2>3
    <3>3. DOMAIN trace = Seqs
      BY <2>1, <2>2
    <3> QED
      BY <2>1, <2>2, <3>1, <3>2, <3>3 DEF TraceInv
  <2>5. << >> \in Seq(Nat) /\ Len(<< >>) = 0
    OBVIOUS
  <2>6. QueueTimed
    BY <2>1, <2>3, <2>5 DEF QueueTimed
  <2> QED
    BY <2>4, <2>6
<1>2. TypeOK /\ PlaceInv /\ TraceInv /\ QueueTimed /\ [MachineNext]_machineVars
        => (TraceInv /\ QueueTimed)'
  BY TraceStep, QueueTimesStep
<1>3. MachineSpec => []TypeOK /\ []PlaceInv
  BY MachineIsAPipeline, TypeCorrect, PlaceInvariant, PTL DEF PipelineAllows
<1> QED
  BY <1>1, <1>2, <1>3, PTL DEF MachineSpec

-----------------------------------------------------------------------------
(* Widths *)

RenamedAt(c)   == {t \in DOMAIN trace : trace[t].rename = c}
IssuedAt(c)    == {t \in DOMAIN trace : trace[t].issue = c}
CommittedAt(c) == {t \in DOMAIN trace : trace[t].commit = c}

WidthsKept ==
  \A c \in Nat \ {0} :
    /\ Cardinality(RenamedAt(c)) <= RenameWidth
    /\ Cardinality(IssuedAt(c)) <= IssueWidth
    /\ Cardinality(CommittedAt(c)) <= CommitWidth

(* What the loop that is running counted in this cycle. *)
LoopCounted ==
  /\ stage = "commit" => Cardinality(CommittedAt(cycles)) <= done
  /\ stage = "rename" => Cardinality(RenamedAt(cycles)) <= done
  /\ stage = "issue"  => Cardinality(IssuedAt(cycles)) + Cardinality(work) <= IssueWidth

WidthInv == WidthsKept /\ (~expired => LoopCounted)

LEMMA CountsTyped ==
  ASSUME TypeOK, DOMAIN trace = Seqs
  PROVE  /\ IsFiniteSet(DOMAIN trace) /\ IsFiniteSet(work) /\ Cardinality(work) \in Nat
         /\ \A T \in SUBSET DOMAIN trace : IsFiniteSet(T) /\ Cardinality(T) \in Nat
         /\ \A c : /\ IsFiniteSet(RenamedAt(c)) /\ Cardinality(RenamedAt(c)) \in Nat
                   /\ IsFiniteSet(IssuedAt(c)) /\ Cardinality(IssuedAt(c)) \in Nat
                   /\ IsFiniteSet(CommittedAt(c)) /\ Cardinality(CommittedAt(c)) \in Nat
<1>1. IsFiniteSet(DOMAIN trace)
  BY FS_Interval DEF TypeOK, BackTypeOK, Seqs
<1>2. \A T \in SUBSET DOMAIN trace : IsFiniteSet(T) /\ Cardinality(T) \in Nat
  BY <1>1, FS_Subset, FS_CardinalityType
<1>3. \A c : /\ RenamedAt(c) \in SUBSET DOMAIN trace /\ IssuedAt(c) \in SUBSET DOMAIN trace
             /\ CommittedAt(c) \in SUBSET DOMAIN trace
  BY DEF RenamedAt, IssuedAt, CommittedAt
<1>4. work \in SUBSET DOMAIN trace
  BY DEF TypeOK, LoopTypeOK
<1> QED
  BY <1>1, <1>2, <1>3, <1>4

(* What the issue queue selects is no more than may issue: the number of   *)
(* older candidates tells the selected ones apart.                         *)
LEMMA SelectedFew ==
  ASSUME TypeOK
  PROVE  Cardinality(selectReady) \in Nat /\ Cardinality(selectReady) <= IssueWidth
<1> DEFINE S == {s \in iq : Selectable(s)}
           Older(s) == {t \in S : t < s}
           rank == [s \in selectReady |-> Cardinality(Older(s))]
<1>1. S \subseteq Seqs /\ IsFiniteSet(S) /\ \A s \in S : s \in Nat
  <2>1. S \in SUBSET Seqs
    BY DEF TypeOK, BackTypeOK
  <2>2. IsFiniteSet(Seqs) /\ \A s \in Seqs : s \in Nat
    BY FS_Interval DEF TypeOK, BackTypeOK, Seqs
  <2> HIDE DEF S
  <2>3. IsFiniteSet(S)
    BY <2>1, <2>2, FS_Subset
  <2> QED
    BY <2>1, <2>2, <2>3
<1>2. \A s : IsFiniteSet(Older(s)) /\ Cardinality(Older(s)) \in Nat
  BY <1>1, FS_Subset, FS_CardinalityType
<1>3. \A s \in selectReady : s \in S /\ Cardinality(Older(s)) < IssueWidth
  BY DEF selectReady
<1> HIDE DEF S
<1>4. \A s, t \in S : s < t => Cardinality(Older(s)) < Cardinality(Older(t))
  <2> SUFFICES ASSUME NEW s \in S, NEW t \in S, s < t
               PROVE  Cardinality(Older(s)) < Cardinality(Older(t))
    OBVIOUS
  <2>1. Older(s) \cup {s} \in SUBSET Older(t) /\ s \notin Older(s)
    BY <1>1
  <2>2. Cardinality(Older(s) \cup {s}) = Cardinality(Older(s)) + 1
    BY <1>2, <2>1, FS_AddElement
  <2>3. Cardinality(Older(s) \cup {s}) <= Cardinality(Older(t))
    BY <1>2, <2>1, FS_Subset
  <2> QED
    BY <1>2, <2>2, <2>3
<1>5. rank \in Injection(selectReady, 0 .. IssueWidth - 1)
  <2>1. rank \in [selectReady -> 0 .. IssueWidth - 1]
    BY <1>2, <1>3, IssueAssumption
  <2>2. \A s, t \in selectReady : rank[s] = rank[t] => s = t
    <3> SUFFICES ASSUME NEW s \in selectReady, NEW t \in selectReady, rank[s] = rank[t]
                 PROVE  s = t
      OBVIOUS
    <3>1. s \in Nat /\ t \in Nat /\ s \in S /\ t \in S
      BY <1>1, <1>3
    <3>2. ~(s < t) /\ ~(t < s)
      BY <1>2, <1>4, <3>1
    <3> QED
      BY <3>1, <3>2
  <2> QED
    BY <2>1, <2>2 DEF Injection, IsInjective
<1> HIDE DEF rank
<1>6. IsFiniteSet(0 .. IssueWidth - 1) /\ Cardinality(0 .. IssueWidth - 1) = IssueWidth
  BY IssueAssumption, FS_Interval
<1>7. IsFiniteSet(selectReady) /\ Cardinality(selectReady) <= IssueWidth
  BY <1>5, <1>6, FS_Injection
<1> QED
  BY <1>7, FS_CardinalityType

(* Nothing was committed or renamed before the loop began, nothing issued. *)
LEMMA LoopsStart ==
  ASSUME TypeOK, TraceInv, ~expired
  PROVE  /\ \A c \in Nat : c > cycles => CommittedAt(c) = {}
         /\ stage = "issue" => RenamedAt(cycles) = {}
         /\ stage = "complete" => IssuedAt(cycles) = {}
<1>1. /\ DOMAIN trace = Seqs /\ cycles \in Nat
      /\ \A t \in Seqs : trace[t] \in TraceEntry /\ Timed(trace[t])
  BY DEF TraceInv
<1>2. \A t \in DOMAIN trace : trace[t].commit \in Nat /\ trace[t].commit <= cycles
  BY <1>1 DEF Timed, TraceEntry
<1>3. \A t \in DOMAIN trace : stage = "issue" => trace[t].rename < cycles
  BY <1>1 DEF Timed, Past, FromRename, FromFetch
<1>4. \A t \in DOMAIN trace : stage = "complete" => trace[t].issue < cycles
  BY <1>1 DEF Timed, Past, FromIssue, FromRename, FromFetch
<1> QED
  BY <1>1, <1>2, <1>3, <1>4 DEF RenamedAt, IssuedAt, CommittedAt

(* How the loops advance where nothing is counted. *)
LEMMA LoopSteps ==
  ASSUME MachineNext, ~expired, ~MachineCommit, ~MachineIssue, ~MachineRename
  PROVE  /\ stage' = "commit" => UNCHANGED <<stage, cycles, done>> \/ expired'
                                  \/ cycles' = cycles + 1
         /\ stage' = "rename" => /\ UNCHANGED cycles
                                 /\ UNCHANGED <<stage, done>> \/ stage = "issue"
         /\ stage' = "issue" => /\ UNCHANGED cycles
                                /\ \/ stage = "issue" /\ work' \subseteq work
                                   \/ stage = "complete" /\ work' = selectReady
<1>1. CASE MachineTick
  BY <1>1 DEF MachineTick, Tick, GoTo
<1>2. CASE MachineComplete
  BY <1>2 DEF MachineComplete, CompleteInstruction, CompleteRecovering
<1>3. CASE MachineIssueSkip
  BY <1>3 DEF MachineIssueSkip, IssueSkip, cycleVars
<1>4. CASE MachineRenameDone
  BY <1>4 DEF MachineRenameDone, RenameDone, GoTo
<1>5. CASE MachineFetchWait \/ MachineFetch \/ MachineFetchDone
  <2>1. stage = "fetch" /\ BeginCycle /\ (NextCycle \/ stage' = stage)
    BY <1>5 DEF MachineFetchWait, MachineFetch, MachineFetchDone, FetchWait, FetchWith, FetchDone
  <2> QED
    BY <2>1 DEF BeginCycle, CountAndSample, NextCycle, GoTo
<1>6. CASE /\ CommitFault \/ CompleteSkip \/ Select \/ IssueMisaligned \/ IssueDone \/ Ended
           /\ Quiet
  <2>1. UNCHANGED cycles
    BY <1>6 DEF Quiet, cycleVars
  <2>2. CASE CommitFault \/ CompleteSkip
    BY <2>2 DEF CommitFault, CompleteSkip, GoTo
  <2>3. CASE Select \/ IssueMisaligned
    BY <2>1, <2>3 DEF Select, IssueMisaligned, GoTo
  <2>4. CASE IssueDone \/ Ended
    BY <2>1, <2>4 DEF IssueDone, Ended, GoTo, vars, loopVars
  <2> QED
    BY <1>6, <2>2, <2>3, <2>4
<1> QED
  BY <1>1, <1>2, <1>3, <1>4, <1>5, <1>6 DEF MachineNext, MachineStep, TimedOut

(* Where no stamp is added, the loops have counted what they had.          *)
LEMMA OthersCounted ==
  ASSUME TypeOK, TypeOK', TraceInv, WidthInv, MachineNext, ~expired,
         ~MachineCommit, ~MachineIssue, ~MachineRename,
         \A c : /\ RenamedAt(c)' = RenamedAt(c) /\ IssuedAt(c)' = IssuedAt(c)
                /\ CommittedAt(c)' = CommittedAt(c)
  PROVE  WidthInv'
<1>1. WidthsKept'
  BY DEF WidthInv, WidthsKept
<1>2. /\ cycles \in Nat /\ DOMAIN trace = Seqs /\ done' \in Nat
      /\ \A c : Cardinality(IssuedAt(c)) \in Nat
      /\ IsFiniteSet(work) /\ Cardinality(work) \in Nat
  BY CountsTyped DEF TraceInv, TypeOK, LoopTypeOK
<1>3. LoopCounted
  BY DEF WidthInv
<1>4. ASSUME ~expired', stage' = "commit" PROVE Cardinality(CommittedAt(cycles)') <= done'
  <2>1. CASE UNCHANGED <<stage, cycles, done>>
    BY <1>3, <1>4, <2>1 DEF LoopCounted
  <2>2. CASE cycles' = cycles + 1
    <3>1. CommittedAt(cycles') = {}
      BY <1>2, <2>2, LoopsStart
    <3> QED
      BY <1>2, <3>1, FS_EmptySet
  <2> QED
    BY <1>4, <2>1, <2>2, LoopSteps
<1>5. ASSUME stage' = "rename" PROVE Cardinality(RenamedAt(cycles)') <= done'
  <2>1. UNCHANGED cycles /\ (UNCHANGED <<stage, done>> \/ stage = "issue")
    BY <1>5, LoopSteps
  <2>2. CASE UNCHANGED <<stage, done>>
    BY <1>3, <1>5, <2>1, <2>2 DEF LoopCounted
  <2>3. CASE stage = "issue"
    <3>1. RenamedAt(cycles) = {}
      BY <2>3, LoopsStart
    <3> QED
      BY <1>2, <2>1, <3>1, FS_EmptySet
  <2> QED
    BY <2>1, <2>2, <2>3
<1>6. ASSUME stage' = "issue"
      PROVE  Cardinality(IssuedAt(cycles)') + Cardinality(work') <= IssueWidth
  <2>1. /\ UNCHANGED cycles
        /\ \/ stage = "issue" /\ work' \subseteq work
           \/ stage = "complete" /\ work' = selectReady
    BY <1>6, LoopSteps
  <2>2. CASE stage = "issue" /\ work' \subseteq work
    <3>1. Cardinality(work') \in Nat /\ Cardinality(work') <= Cardinality(work)
      BY <1>2, <2>2, FS_Subset, FS_CardinalityType
    <3> QED
      BY <1>2, <1>3, <2>1, <2>2, <3>1, IssueAssumption DEF LoopCounted
  <2>3. CASE stage = "complete" /\ work' = selectReady
    <3>1. IssuedAt(cycles) = {}
      BY <2>3, LoopsStart
    <3> QED
      BY <2>1, <2>3, <3>1, FS_EmptySet, SelectedFew
  <2> QED
    BY <2>1, <2>2, <2>3
<1> QED
  BY <1>1, <1>4, <1>5, <1>6 DEF WidthInv, LoopCounted

(* What one stamp adds to the instructions of a cycle. *)
LEMMA StampAdds ==
  ASSUME NEW h \in DOMAIN trace, NEW t, trace' = [trace EXCEPT ![h] = t]
  PROVE  /\ t.rename = trace[h].rename => \A c : RenamedAt(c)' = RenamedAt(c)
         /\ t.issue = trace[h].issue => \A c : IssuedAt(c)' = IssuedAt(c)
         /\ t.commit = trace[h].commit => \A c : CommittedAt(c)' = CommittedAt(c)
         /\ trace[h].issue = 0 =>
              \A c : c # 0 => IssuedAt(c)' = IF t.issue = c THEN IssuedAt(c) \cup {h}
                                                            ELSE IssuedAt(c)
         /\ trace[h].commit = 0 =>
              \A c : c # 0 => CommittedAt(c)' = IF t.commit = c THEN CommittedAt(c) \cup {h}
                                                                ELSE CommittedAt(c)
<1>1. DOMAIN trace' = DOMAIN trace /\ \A s \in DOMAIN trace : trace'[s] = IF s = h THEN t ELSE trace[s]
  OBVIOUS
<1> QED
  BY <1>1 DEF RenamedAt, IssuedAt, CommittedAt

LEMMA OneMore ==
  ASSUME NEW S, NEW x, IsFiniteSet(S)
  PROVE  /\ Cardinality(S \cup {x}) \in Nat
         /\ Cardinality(S \cup {x}) <= Cardinality(S) + 1
         /\ x \notin S => Cardinality(S \cup {x}) = Cardinality(S) + 1
<1>1. Cardinality(S) \in Nat
  BY FS_CardinalityType
<1>2. Cardinality(S \cup {x}) = IF x \in S THEN Cardinality(S) ELSE Cardinality(S) + 1
  BY FS_AddElement
<1> QED
  BY <1>1, <1>2

LEMMA CommitCounted ==
  ASSUME TypeOK, TraceInv, WidthInv, ~expired, MachineCommit
  PROVE  WidthInv'
<1>1. PICK h \in InFlight :
        /\ Commits(h)
        /\ trace' = [trace EXCEPT ![h] = [trace[h] EXCEPT !.commit = cycles]]
  BY CommitMade
<1> DEFINE t == [trace[h] EXCEPT !.commit = cycles]
<1>2. /\ stage = "commit" /\ UNCHANGED <<stage, cycles>>
      /\ done' = done + 1 /\ done < CommitWidth /\ done \in Nat
  BY <1>1 DEF MachineCommit, CommitInstruction, CommitEcall, cycleVars, Commits, TypeOK, LoopTypeOK
<1>3. /\ h \in DOMAIN trace /\ trace[h] \in TraceEntry /\ trace[h].commit = 0
      /\ cycles \in Nat \ {0}
  BY TracedFlight DEF Traced, TraceInv
<1>4. t.commit = cycles /\ t.rename = trace[h].rename /\ t.issue = trace[h].issue
  BY <1>3 DEF TraceEntry
<1> HIDE DEF t
<1>5. /\ \A c : RenamedAt(c)' = RenamedAt(c) /\ IssuedAt(c)' = IssuedAt(c)
      /\ \A c : c # 0 => CommittedAt(c)' = IF c = cycles THEN CommittedAt(c) \cup {h}
                                                         ELSE CommittedAt(c)
  <2>1. trace' = [trace EXCEPT ![h] = t]
    BY <1>1 DEF t
  <2> QED
    BY <1>3, <1>4, <2>1, StampAdds
<1>6. \A c : IsFiniteSet(CommittedAt(c)) /\ Cardinality(CommittedAt(c)) \in Nat
  BY CountsTyped DEF TraceInv
<1>7. /\ Cardinality(CommittedAt(cycles) \cup {h}) \in Nat
      /\ Cardinality(CommittedAt(cycles) \cup {h}) <= done + 1
  <2>1. Cardinality(CommittedAt(cycles)) <= done
    BY <1>2 DEF WidthInv, LoopCounted
  <2> QED
    BY <1>2, <1>6, <2>1, OneMore
<1>8. CommittedAt(cycles)' = CommittedAt(cycles) \cup {h}
  BY <1>2, <1>3, <1>5
<1>9. LoopCounted'
  BY <1>2, <1>7, <1>8 DEF LoopCounted
<1>10. Cardinality(CommittedAt(cycles) \cup {h}) <= CommitWidth
  BY <1>2, <1>7, SimulatorAssumption
<1>11. WidthsKept'
  BY <1>5, <1>10 DEF WidthInv, WidthsKept
<1> QED
  BY <1>9, <1>11 DEF WidthInv

LEMMA IssueCounted ==
  ASSUME TypeOK, TypeOK', TraceInv, WidthInv, ~expired, MachineIssue
  PROVE  WidthInv'
<1>1. PICK h \in InFlight :
        /\ ~rob[h].issued /\ h \in work /\ work' = work \ {h}
        /\ trace' = [trace EXCEPT ![h] = [trace[h] EXCEPT !.issue = cycles,
                                            !.cached = rob[h].inst.op \in MemoryOps]]
  BY DEF MachineIssue, IssueWith, Issues, Stamp
<1> DEFINE t == [trace[h] EXCEPT !.issue = cycles, !.cached = rob[h].inst.op \in MemoryOps]
<1>2. stage = "issue" /\ UNCHANGED <<stage, cycles>>
  BY DEF MachineIssue, IssueWith, cycleVars
<1>3. /\ h \in DOMAIN trace /\ trace[h] \in TraceEntry /\ trace[h].issue = 0
      /\ cycles \in Nat \ {0}
  BY <1>1, TracedFlight DEF Traced, TraceInv
<1>4. t.issue = cycles /\ t.rename = trace[h].rename /\ t.commit = trace[h].commit
  BY <1>3 DEF TraceEntry
<1> HIDE DEF t
<1>5. /\ \A c : RenamedAt(c)' = RenamedAt(c) /\ CommittedAt(c)' = CommittedAt(c)
      /\ \A c : c # 0 => IssuedAt(c)' = IF c = cycles THEN IssuedAt(c) \cup {h} ELSE IssuedAt(c)
  <2>1. trace' = [trace EXCEPT ![h] = t]
    BY <1>1 DEF t
  <2> QED
    BY <1>3, <1>4, <2>1, StampAdds
<1>6. /\ \A c : IsFiniteSet(IssuedAt(c)) /\ Cardinality(IssuedAt(c)) \in Nat
      /\ IsFiniteSet(work) /\ Cardinality(work) \in Nat
  BY CountsTyped DEF TraceInv
<1>7. /\ Cardinality(IssuedAt(cycles) \cup {h}) \in Nat
      /\ Cardinality(work') \in Nat
      /\ Cardinality(IssuedAt(cycles) \cup {h}) + Cardinality(work') <= IssueWidth
  <2>1. Cardinality(IssuedAt(cycles)) + Cardinality(work) <= IssueWidth
    BY <1>2 DEF WidthInv, LoopCounted
  <2>2. Cardinality(work') = Cardinality(work) - 1 /\ Cardinality(work') \in Nat
    BY <1>1, <1>6, FS_RemoveElement, FS_CardinalityType
  <2>3. /\ Cardinality(IssuedAt(cycles) \cup {h}) \in Nat
        /\ Cardinality(IssuedAt(cycles) \cup {h}) <= Cardinality(IssuedAt(cycles)) + 1
    BY <1>6, OneMore
  <2> QED
    BY <1>6, <2>1, <2>2, <2>3, IssueAssumption
<1>8. IssuedAt(cycles)' = IssuedAt(cycles) \cup {h}
  BY <1>2, <1>3, <1>5
<1>9. LoopCounted'
  BY <1>2, <1>7, <1>8 DEF LoopCounted
<1>10. Cardinality(IssuedAt(cycles) \cup {h}) <= IssueWidth
  BY <1>7, IssueAssumption
<1>11. WidthsKept'
  BY <1>5, <1>10 DEF WidthInv, WidthsKept
<1> QED
  BY <1>9, <1>11 DEF WidthInv

LEMMA RenameCounted ==
  ASSUME TypeOK, TraceInv, WidthInv, ~expired, MachineRename
  PROVE  WidthInv'
<1> DEFINE t == [fetch |-> Head(fetchCycles), rename |-> cycles, issue |-> 0, complete |-> 0,
                 commit |-> 0, mispredicted |-> FALSE, cached |-> FALSE,
                 branch |-> TrainsPredictor([inst |-> Head(fetchQueue)])]
<1>1. /\ stage = "rename" /\ UNCHANGED <<stage, cycles>> /\ trace' = Put(trace, nextSeq, t)
      /\ done' = done + 1 /\ done < RenameWidth /\ done \in Nat
  BY DEF MachineRename, RenameInstruction, CanRename, cycleVars, TypeOK, LoopTypeOK
<1>2. t.rename = cycles /\ t.issue = 0 /\ t.commit = 0 /\ cycles \in Nat \ {0}
  BY DEF TraceInv
<1>3. DOMAIN trace = Seqs /\ nextSeq \notin DOMAIN trace
  BY DEF TraceInv, TypeOK, BackTypeOK, Seqs
<1> HIDE DEF t
<1>4. /\ \A c : c # 0 => IssuedAt(c)' = IssuedAt(c) /\ CommittedAt(c)' = CommittedAt(c)
      /\ \A c : RenamedAt(c)' = IF c = cycles THEN RenamedAt(c) \cup {nextSeq} ELSE RenamedAt(c)
  BY <1>1, <1>2, <1>3, PutFacts DEF RenamedAt, IssuedAt, CommittedAt
<1>5. \A c : IsFiniteSet(RenamedAt(c)) /\ Cardinality(RenamedAt(c)) \in Nat
  BY <1>3, CountsTyped
<1>6. /\ Cardinality(RenamedAt(cycles) \cup {nextSeq}) \in Nat
      /\ Cardinality(RenamedAt(cycles) \cup {nextSeq}) <= done + 1
  <2>1. Cardinality(RenamedAt(cycles)) <= done
    BY <1>1 DEF WidthInv, LoopCounted
  <2> QED
    BY <1>1, <1>5, <2>1, OneMore
<1>7. RenamedAt(cycles)' = RenamedAt(cycles) \cup {nextSeq}
  BY <1>1, <1>4
<1>8. LoopCounted'
  BY <1>1, <1>6, <1>7 DEF LoopCounted
<1>9. Cardinality(RenamedAt(cycles) \cup {nextSeq}) <= RenameWidth
  BY <1>1, <1>6, SimulatorAssumption
<1>10. WidthsKept'
  BY <1>4, <1>9 DEF WidthInv, WidthsKept
<1> QED
  BY <1>8, <1>10 DEF WidthInv

LEMMA WidthStep ==
  ASSUME TypeOK, TypeOK', PlaceInv, TraceInv, WidthInv, [MachineNext]_machineVars
  PROVE  WidthInv'
<1> DEFINE Same == \A c : /\ RenamedAt(c)' = RenamedAt(c) /\ IssuedAt(c)' = IssuedAt(c)
                          /\ CommittedAt(c)' = CommittedAt(c)
<1>1. UNCHANGED trace => Same
  BY DEF RenamedAt, IssuedAt, CommittedAt
<1>2. CASE UNCHANGED machineVars
  <2>1. UNCHANGED <<trace, stage, cycles, expired, done, work>>
    BY <1>2 DEF machineVars, vars, loopVars, reportVars, cycleVars
  <2> QED
    BY <1>1, <2>1 DEF WidthInv, WidthsKept, LoopCounted
<1>3. ASSUME MachineComplete PROVE Same
  <2>1. PICK h \in InFlight :
          trace' = [trace EXCEPT ![h] = [trace[h] EXCEPT !.complete = cycles,
                                            !.mispredicted = mispredicted(rob[h])]]
    BY <1>3, CompletionMade DEF Stamp
  <2> DEFINE t == [trace[h] EXCEPT !.complete = cycles, !.mispredicted = mispredicted(rob[h])]
  <2>2. h \in DOMAIN trace /\ trace[h] \in TraceEntry
    BY TracedFlight
  <2>3. t.rename = trace[h].rename /\ t.issue = trace[h].issue /\ t.commit = trace[h].commit
    BY <2>2 DEF TraceEntry
  <2>4. trace' = [trace EXCEPT ![h] = t]
    BY <2>1
  <2> HIDE DEF t
  <2> QED
    BY <2>2, <2>3, <2>4, StampAdds
<1>4. ASSUME MachineNext, ~expired, ~MachineCommit, ~MachineIssue, ~MachineRename
      PROVE  Same
  <2>1. CASE ~MachineComplete
    <3>1. UNCHANGED trace
      BY <1>4, <2>1 DEF MachineNext, MachineStep, MachineTick, MachineIssueSkip,
         MachineRenameDone, MachineFetchWait, MachineFetch, MachineFetchDone, Quiet, TimedOut,
         reportVars
    <3> QED
      BY <1>1, <3>1
  <2> QED
    BY <1>3, <2>1
<1>5. CASE MachineNext /\ ~expired
  BY <1>4, <1>5, CommitCounted, IssueCounted, RenameCounted, OthersCounted
<1> QED
  BY <1>2, <1>5 DEF MachineNext, TimedOut

LEMMA WidthInvariant == MachineSpec => []WidthInv
<1>1. MachineInit => WidthInv
  <2> SUFFICES ASSUME MachineInit PROVE WidthInv
    OBVIOUS
  <2>1. DOMAIN trace = {} /\ stage = "commit" /\ done = 0 /\ cycles = 1
    BY NoEntriesPartial DEF MachineInit, Init
  <2>2. \A c : RenamedAt(c) = {} /\ IssuedAt(c) = {} /\ CommittedAt(c) = {}
    BY <2>1 DEF RenamedAt, IssuedAt, CommittedAt
  <2>3. Cardinality({}) = 0 /\ RenameWidth \in Nat /\ IssueWidth \in Nat /\ CommitWidth \in Nat
    BY FS_EmptySet, SimulatorAssumption, IssueAssumption
  <2>4. WidthsKept
    BY <2>2, <2>3 DEF WidthsKept
  <2>5. LoopCounted
    BY <2>1, <2>2, <2>3 DEF LoopCounted
  <2> QED
    BY <2>4, <2>5 DEF WidthInv
<1>2. /\ TypeOK /\ TypeOK' /\ PlaceInv /\ TraceInv /\ WidthInv /\ [MachineNext]_machineVars
        => WidthInv'
  BY WidthStep
<1>3. MachineSpec => []TypeOK /\ []PlaceInv
  BY MachineIsAPipeline, TypeCorrect, PlaceInvariant, PTL DEF PipelineAllows
<1> QED
  BY <1>1, <1>2, <1>3, TraceInvariant, PTL DEF MachineSpec

(* Fetch stamps are kept with the queue until rename: an instruction that  *)
(* was fetched in cycle c is in the trace, or waits, or was flushed.       *)
FetchedAt(c)    == {t \in DOMAIN trace : trace[t].fetch = c}
WaitingSince(c) == {k \in DOMAIN fetchCycles : fetchCycles[k] = c}

FetchInv ==
  /\ \A c \in Nat : Cardinality(FetchedAt(c)) + Cardinality(WaitingSince(c)) <= FetchWidth
  /\ ~expired /\ stage = "fetch" => Cardinality(WaitingSince(cycles)) <= done

LEMMA FetchesTyped ==
  ASSUME TypeOK, TraceInv, QueueTimed
  PROVE  /\ Len(fetchCycles) \in Nat /\ DOMAIN fetchCycles = 1 .. Len(fetchCycles)
         /\ \A c : /\ IsFiniteSet(FetchedAt(c)) /\ Cardinality(FetchedAt(c)) \in Nat
                   /\ IsFiniteSet(WaitingSince(c)) /\ Cardinality(WaitingSince(c)) \in Nat
<1>1. Len(fetchCycles) \in Nat /\ DOMAIN fetchCycles = 1 .. Len(fetchCycles)
  BY DEF QueueTimed
<1>2. IsFiniteSet(DOMAIN trace) /\ IsFiniteSet(DOMAIN fetchCycles)
  BY <1>1, FS_Interval, CountsTyped DEF TraceInv
<1>3. \A c : FetchedAt(c) \in SUBSET DOMAIN trace /\ WaitingSince(c) \in SUBSET DOMAIN fetchCycles
  BY DEF FetchedAt, WaitingSince
<1> QED
  BY <1>1, <1>2, <1>3, FS_Subset, FS_CardinalityType

(* What is renamed was fetched before this cycle, and what waits was too,  *)
(* until fetch begins.                                                     *)
LEMMA FetchedBefore ==
  ASSUME TypeOK, TraceInv, QueueTimed, ~expired
  PROVE  /\ FetchedAt(cycles) = {}
         /\ stage \notin FromFetch => WaitingSince(cycles) = {}
<1>1. \A t \in DOMAIN trace : trace[t].fetch < cycles
  <2> SUFFICES ASSUME NEW t \in DOMAIN trace PROVE trace[t].fetch < cycles
    OBVIOUS
  <2>1. /\ trace[t] \in TraceEntry /\ StampsOrdered(trace[t]) /\ Timed(trace[t])
        /\ cycles \in Nat
    BY DEF TraceInv
  <2>2. trace[t].fetch \in Nat /\ trace[t].rename \in Nat
    BY <2>1 DEF TraceEntry
  <2>3. trace[t].rename < cycles \/ trace[t].rename = cycles
    BY <2>1 DEF Timed, Past
  <2>4. trace[t].fetch < trace[t].rename
    BY <2>1 DEF StampsOrdered
  <2> QED
    BY <2>1, <2>2, <2>3, <2>4
<1>2. cycles \in Nat
  BY DEF TraceInv
<1>3. stage \notin FromFetch => \A k \in DOMAIN fetchCycles : fetchCycles[k] < cycles
  BY FetchesTyped DEF QueueTimed, Past
<1> QED
  BY <1>1, <1>2, <1>3 DEF FetchedAt, WaitingSince

(* The queue moves up by one place. *)
LEMMA TailWaits ==
  ASSUME NEW q \in Seq(Nat), q # << >>, NEW c
  PROVE  /\ IsFiniteSet({k \in DOMAIN q : q[k] = c})
         /\ LET W == {k \in DOMAIN q : q[k] = c}
                T == {k \in DOMAIN Tail(q) : Tail(q)[k] = c}
            IN  /\ Cardinality(T) \in Nat /\ Cardinality(T) <= Cardinality(W)
                /\ Head(q) = c => Cardinality(T) <= Cardinality(W) - 1
<1> DEFINE W == {k \in DOMAIN q : q[k] = c}
           T == {k \in DOMAIN Tail(q) : Tail(q)[k] = c}
           up == [k \in T |-> k + 1]
<1>1. /\ Len(q) \in Nat \ {0} /\ DOMAIN q = 1 .. Len(q) /\ Head(q) = q[1]
      /\ DOMAIN Tail(q) = 1 .. Len(q) - 1
      /\ \A k \in 1 .. Len(q) - 1 : Tail(q)[k] = q[k + 1]
  OBVIOUS
<1>2. IsFiniteSet(DOMAIN q)
  BY <1>1, FS_Interval
<1>3. W \in SUBSET DOMAIN q
  OBVIOUS
<1>4. IsFiniteSet(W) /\ Cardinality(W) \in Nat /\ IsFiniteSet(W \ {1})
  BY <1>2, <1>3, FS_Subset, FS_CardinalityType
<1>5. \A k \in T : k \in Nat \ {0} /\ k + 1 \in W \ {1}
  BY <1>1
<1> HIDE DEF W, T
<1>6. up \in Injection(T, W \ {1})
  <2>1. up \in [T -> W \ {1}]
    BY <1>5
  <2>2. \A j, k \in T : up[j] = up[k] => j = k
    BY <1>5
  <2> QED
    BY <2>1, <2>2 DEF Injection, IsInjective
<1> HIDE DEF up
<1>7. IsFiniteSet(T) /\ Cardinality(T) <= Cardinality(W \ {1})
  BY <1>4, <1>6, FS_Injection
<1>8. Cardinality(T) \in Nat /\ Cardinality(W \ {1}) \in Nat
  BY <1>4, <1>7, FS_CardinalityType
<1>9. Cardinality(W \ {1}) <= Cardinality(W)
  BY <1>4, FS_Subset
<1>10. Head(q) = c => Cardinality(W \ {1}) = Cardinality(W) - 1
  <2>1. Head(q) = c => 1 \in W
    BY <1>1 DEF W
  <2> QED
    BY <1>4, <2>1, FS_RemoveElement
<1>11. /\ IsFiniteSet(W) /\ Cardinality(T) \in Nat /\ Cardinality(T) <= Cardinality(W)
       /\ Head(q) = c => Cardinality(T) <= Cardinality(W) - 1
  BY <1>4, <1>7, <1>8, <1>9, <1>10
<1> QED
  BY <1>11 DEF W, T

LEMMA FetchCounted ==
  ASSUME TypeOK, TraceInv, QueueTimed, FetchInv, ~expired, MachineFetch
  PROVE  FetchInv'
<1> DEFINE n == Len(fetchCycles)
<1>1. /\ stage = "fetch" /\ done < FetchWidth /\ done \in Nat /\ UNCHANGED trace
      /\ fetchCycles' = Append(fetchCycles, cycles) /\ BeginCycle
      /\ stage' = "fetch" => done' = done + 1
  BY DEF MachineFetch, FetchWith, Fetches, NextCycle, GoTo, TypeOK, LoopTypeOK
<1>2. /\ n \in Nat /\ DOMAIN fetchCycles = 1 .. n /\ cycles \in Nat
      /\ DOMAIN fetchCycles' = 1 .. n + 1 /\ fetchCycles'[n + 1] = cycles
      /\ \A k \in 1 .. n : fetchCycles'[k] = fetchCycles[k]
  BY <1>1 DEF QueueTimed, TraceInv
<1>3. \A k \in 1 .. n + 1 : k \in 1 .. n \/ k = n + 1
  BY <1>2
<1>4. n + 1 \notin 1 .. n /\ \A k \in 1 .. n : k \in 1 .. n + 1
  BY <1>2
<1> HIDE DEF n
<1>5. \A c : /\ FetchedAt(c)' = FetchedAt(c)
             /\ WaitingSince(c)' = IF c = cycles THEN WaitingSince(c) \cup {n + 1}
                                                 ELSE WaitingSince(c)
  <2>1. \A c : FetchedAt(c)' = FetchedAt(c)
    BY <1>1 DEF FetchedAt
  <2>2. n + 1 \in 1 .. n + 1
    BY <1>2
  <2> QED
    BY <1>2, <1>3, <1>4, <2>1, <2>2 DEF WaitingSince
<1>6. /\ Cardinality(WaitingSince(cycles) \cup {n + 1}) \in Nat
      /\ Cardinality(WaitingSince(cycles) \cup {n + 1}) <= done + 1
  <2>1. Cardinality(WaitingSince(cycles)) <= done
    BY <1>1 DEF FetchInv
  <2>2. IsFiniteSet(WaitingSince(cycles)) /\ Cardinality(WaitingSince(cycles)) \in Nat
    BY FetchesTyped
  <2>3. /\ Cardinality(WaitingSince(cycles) \cup {n + 1}) \in Nat
        /\ Cardinality(WaitingSince(cycles) \cup {n + 1}) <= Cardinality(WaitingSince(cycles)) + 1
    BY <2>2, OneMore
  <2> QED
    BY <1>1, <2>1, <2>2, <2>3
<1>7. FetchedAt(cycles) = {} /\ Cardinality({}) = 0
  BY FetchedBefore, FS_EmptySet
<1>8. \A c \in Nat : Cardinality(FetchedAt(c)') + Cardinality(WaitingSince(c)') <= FetchWidth
  <2> SUFFICES ASSUME NEW c \in Nat
               PROVE  Cardinality(FetchedAt(c)') + Cardinality(WaitingSince(c)') <= FetchWidth
    OBVIOUS
  <2>1. CASE c = cycles
    <3>1. FetchedAt(c)' = {} /\ WaitingSince(c)' = WaitingSince(cycles) \cup {n + 1}
      BY <1>5, <1>7, <2>1
    <3>2. Cardinality(WaitingSince(cycles) \cup {n + 1}) <= FetchWidth
      BY <1>1, <1>6, FetchAssumption
    <3> QED
      BY <1>6, <1>7, <3>1, <3>2
  <2>2. CASE c # cycles
    BY <1>5, <2>2 DEF FetchInv
  <2> QED
    BY <2>1, <2>2
<1>9. stage' = "fetch" => cycles' = cycles
  BY <1>1 DEF BeginCycle, cycleVars
<1>10. stage' = "fetch" => Cardinality(WaitingSince(cycles)') <= done'
  BY <1>1, <1>5, <1>6, <1>9
<1> QED
  BY <1>8, <1>10 DEF FetchInv

(* An instruction goes from the queue to the trace with its stamp. *)
LEMMA RenameMovesFetched ==
  ASSUME TypeOK, TraceInv, QueueTimed, FetchInv, ~expired, MachineRename
  PROVE  FetchInv'
<1>1. /\ stage' = "rename" /\ nextSeq \notin DOMAIN trace /\ fetchQueue # << >>
      /\ \E t : t.fetch = Head(fetchCycles) /\ trace' = Put(trace, nextSeq, t)
      /\ fetchCycles' \in {<< >>, Tail(fetchCycles)}
  <2>1. nextSeq \notin DOMAIN trace
    BY DEF TraceInv, TypeOK, BackTypeOK, Seqs
  <2> QED
    BY <2>1 DEF MachineRename, RenameInstruction, CanRename
<1>2. fetchCycles \in Seq(Nat) /\ fetchCycles # << >>
  <2>1. Len(fetchQueue) # 0
    BY <1>1 DEF TypeOK, FrontTypeOK
  <2> QED
    BY <2>1 DEF QueueTimed
<1>3. \A c : FetchedAt(c)' = IF Head(fetchCycles) = c THEN FetchedAt(c) \cup {nextSeq}
                                                      ELSE FetchedAt(c)
  BY <1>1, PutFacts DEF FetchedAt
<1>4. ASSUME NEW c \in Nat
      PROVE  Cardinality(FetchedAt(c)') + Cardinality(WaitingSince(c)') <= FetchWidth
  <2>1. /\ IsFiniteSet(FetchedAt(c)) /\ Cardinality(FetchedAt(c)) \in Nat
        /\ Cardinality(WaitingSince(c)) \in Nat
    BY FetchesTyped
  <2>2. /\ Cardinality(WaitingSince(c)') \in Nat
        /\ Cardinality(WaitingSince(c)') <= Cardinality(WaitingSince(c))
        /\ Head(fetchCycles) = c =>
             Cardinality(WaitingSince(c)') <= Cardinality(WaitingSince(c)) - 1
    <3>1. CASE fetchCycles' = Tail(fetchCycles)
      BY <1>2, <3>1, TailWaits DEF WaitingSince
    <3>2. CASE fetchCycles' = << >>
      <4>1. WaitingSince(c)' = {} /\ Cardinality({}) = 0
        BY <3>2, FS_EmptySet DEF WaitingSince
      <4>2. Head(fetchCycles) = c => 1 \in WaitingSince(c)
        BY <1>2 DEF WaitingSince
      <4>3. Head(fetchCycles) = c => Cardinality(WaitingSince(c)) # 0
        BY <4>2, FetchesTyped, FS_EmptySet
      <4> QED
        BY <2>1, <4>1, <4>3
    <3> QED
      BY <1>1, <3>1, <3>2
  <2>3. /\ Cardinality(FetchedAt(c)') \in Nat
        /\ Cardinality(FetchedAt(c)') <= Cardinality(FetchedAt(c)) + 1
        /\ Head(fetchCycles) # c => Cardinality(FetchedAt(c)') = Cardinality(FetchedAt(c))
    <3>1. CASE Head(fetchCycles) = c
      BY <1>3, <2>1, <3>1, OneMore
    <3>2. CASE Head(fetchCycles) # c
      BY <1>3, <2>1, <3>2
    <3> QED
      BY <3>1, <3>2
  <2>4. Cardinality(FetchedAt(c)) + Cardinality(WaitingSince(c)) <= FetchWidth
    BY DEF FetchInv
  <2> QED
    BY <2>1, <2>2, <2>3, <2>4, FetchAssumption
<1> QED
  BY <1>1, <1>4 DEF FetchInv

(* The stamps of fetch are set once. *)
LEMMA FetchStampsStay ==
  ASSUME NEW h \in DOMAIN trace, NEW t, trace' = [trace EXCEPT ![h] = t],
         t.fetch = trace[h].fetch
  PROVE  \A c : FetchedAt(c)' = FetchedAt(c)
BY DEF FetchedAt

LEMMA FetchedStay ==
  ASSUME TypeOK, PlaceInv, TraceInv, ~expired, MachineStep, ~MachineFetch, ~MachineRename
  PROVE  \A c : FetchedAt(c)' = FetchedAt(c)
<1>1. CASE MachineCommit
  <2>1. PICK h \in InFlight : trace' = [trace EXCEPT ![h] = [trace[h] EXCEPT !.commit = cycles]]
    BY <1>1, CommitMade
  <2>2. h \in DOMAIN trace /\ trace[h] \in TraceEntry
    BY TracedFlight
  <2>3. [trace[h] EXCEPT !.commit = cycles].fetch = trace[h].fetch
    BY <2>2 DEF TraceEntry
  <2> QED
    BY <2>1, <2>2, <2>3, FetchStampsStay
<1>2. CASE MachineComplete
  <2>1. PICK h \in InFlight :
          trace' = [trace EXCEPT ![h] = [trace[h] EXCEPT !.complete = cycles,
                                            !.mispredicted = mispredicted(rob[h])]]
    BY <1>2, CompletionMade DEF Stamp
  <2>2. h \in DOMAIN trace /\ trace[h] \in TraceEntry
    BY TracedFlight
  <2>3. [trace[h] EXCEPT !.complete = cycles,
                         !.mispredicted = mispredicted(rob[h])].fetch = trace[h].fetch
    BY <2>2 DEF TraceEntry
  <2> QED
    BY <2>1, <2>2, <2>3, FetchStampsStay
<1>3. CASE MachineIssue
  <2>1. PICK h \in InFlight :
          trace' = [trace EXCEPT ![h] = [trace[h] EXCEPT !.issue = cycles,
                                            !.cached = rob[h].inst.op \in MemoryOps]]
    BY <1>3 DEF MachineIssue, Issues, Stamp
  <2>2. h \in DOMAIN trace /\ trace[h] \in TraceEntry
    BY TracedFlight
  <2>3. [trace[h] EXCEPT !.issue = cycles,
                         !.cached = rob[h].inst.op \in MemoryOps].fetch = trace[h].fetch
    BY <2>2 DEF TraceEntry
  <2> QED
    BY <2>1, <2>2, <2>3, FetchStampsStay
<1>4. CASE ~MachineCommit /\ ~MachineComplete /\ ~MachineIssue
  <2>1. UNCHANGED trace
    BY <1>4 DEF MachineStep, MachineTick, MachineIssueSkip, MachineRenameDone,
         MachineFetchWait, MachineFetchDone, Quiet, reportVars
  <2> QED
    BY <2>1 DEF FetchedAt
<1> QED
  BY <1>1, <1>2, <1>3, <1>4

LEMMA FetchStep ==
  ASSUME TypeOK, PlaceInv, TraceInv, QueueTimed, FetchInv, [MachineNext]_machineVars
  PROVE  FetchInv'
<1>1. CASE UNCHANGED machineVars
  <2>1. UNCHANGED <<trace, fetchCycles, stage, done, cycles, expired>>
    BY <1>1 DEF machineVars, vars, loopVars, reportVars, cycleVars
  <2> QED
    BY <2>1 DEF FetchInv, FetchedAt, WaitingSince
<1>2. CASE ~expired /\ MachineStep /\ ~MachineFetch /\ ~MachineRename
  <2>1. fetchCycles' \in {fetchCycles, << >>}
    BY <1>2 DEF MachineStep, MachineCommit, MachineTick, MachineComplete, MachineIssueSkip,
         MachineIssue, MachineRenameDone, MachineFetchWait, MachineFetchDone, Quiet, reportVars
  <2>2. \A c : WaitingSince(c)' \in {WaitingSince(c), {}}
    BY <2>1 DEF WaitingSince
  <2>3. stage' = "fetch" => /\ stage = "rename" /\ UNCHANGED <<fetchCycles, cycles>>
                            /\ done' = 0
    <3>1. CASE MachineCommit
      BY <3>1 DEF MachineCommit, CommitInstruction, CommitEcall
    <3>2. CASE MachineTick
      BY <3>2 DEF MachineTick, Tick, GoTo
    <3>3. CASE MachineComplete
      BY <3>3 DEF MachineComplete, CompleteInstruction, CompleteRecovering
    <3>4. CASE MachineIssueSkip \/ MachineIssue
      BY <3>4 DEF MachineIssueSkip, MachineIssue, IssueSkip, IssueWith
    <3>5. CASE MachineRenameDone
      BY <3>5 DEF MachineRenameDone, RenameDone, GoTo, cycleVars
    <3>6. CASE MachineFetchWait \/ MachineFetchDone
      BY <3>6 DEF MachineFetchWait, MachineFetchDone, FetchWait, FetchDone, NextCycle, GoTo
    <3>7. CASE CommitFault \/ CompleteSkip \/ Select \/ IssueMisaligned \/ IssueDone \/ Ended
      BY <3>7 DEF CommitFault, CompleteSkip, Select, IssueMisaligned, IssueDone, Ended, GoTo,
                  vars, loopVars
    <3> QED
      BY <1>2, <3>1, <3>2, <3>3, <3>4, <3>5, <3>6, <3>7 DEF MachineStep
  <2>4. stage' = "fetch" => WaitingSince(cycles)' = {} /\ Cardinality({}) = 0 /\ done' = 0
    <3>1. "rename" \notin FromFetch
      BY DEF FromFetch
    <3> QED
      BY <1>2, <2>2, <2>3, <3>1, FetchedBefore, FS_EmptySet
  <2>5. \A c \in Nat : Cardinality(FetchedAt(c)') + Cardinality(WaitingSince(c)') <= FetchWidth
    <3> SUFFICES ASSUME NEW c \in Nat
                 PROVE  Cardinality(FetchedAt(c)') + Cardinality(WaitingSince(c)') <= FetchWidth
      OBVIOUS
    <3>1. /\ Cardinality(FetchedAt(c)) \in Nat /\ Cardinality(WaitingSince(c)) \in Nat
          /\ Cardinality(FetchedAt(c)) + Cardinality(WaitingSince(c)) <= FetchWidth
      BY FetchesTyped DEF FetchInv
    <3>2. FetchedAt(c)' = FetchedAt(c)
      BY <1>2, FetchedStay
    <3>3. Cardinality(WaitingSince(c)') \in {Cardinality(WaitingSince(c)), 0}
      BY <2>2, FS_EmptySet
    <3> QED
      BY <3>1, <3>2, <3>3, FetchAssumption
  <2> QED
    BY <2>4, <2>5 DEF FetchInv
<1> QED
  BY <1>1, <1>2, FetchCounted, RenameMovesFetched DEF MachineNext, TimedOut

LEMMA FetchInvariant == MachineSpec => []FetchInv
<1>1. MachineInit => FetchInv
  <2> SUFFICES ASSUME MachineInit PROVE FetchInv
    OBVIOUS
  <2>1. DOMAIN trace = {} /\ stage = "commit" /\ fetchCycles = << >>
    BY NoEntriesPartial DEF MachineInit, Init
  <2>2. \A c : FetchedAt(c) = {} /\ WaitingSince(c) = {}
    BY <2>1 DEF FetchedAt, WaitingSince
  <2> QED
    BY <2>1, <2>2, FS_EmptySet, FetchAssumption DEF FetchInv
<1>2. TypeOK /\ PlaceInv /\ TraceInv /\ QueueTimed /\ FetchInv /\ [MachineNext]_machineVars
        => FetchInv'
  BY FetchStep
<1>3. MachineSpec => []TypeOK /\ []PlaceInv
  BY MachineIsAPipeline, TypeCorrect, PlaceInvariant, PTL DEF PipelineAllows
<1> QED
  BY <1>1, <1>2, <1>3, TraceInvariant, PTL DEF MachineSpec

(* An instruction spends at least a cycle in every stage it passes, in the *)
(* order of the stages; instructions commit in program order; and no cycle *)
(* fetches, renames, issues or commits more than the widths of the stages. *)
THEOREM TraceFollowsStages == MachineSpec => []TraceOrdered
<1>1. TypeOK /\ TraceInv /\ QueueTimed /\ WidthInv /\ FetchInv => TraceOrdered
  <2> SUFFICES ASSUME TypeOK, TraceInv, QueueTimed, WidthInv, FetchInv PROVE TraceOrdered
    OBVIOUS
  <2>1. /\ DOMAIN trace = Seqs
        /\ \A s \in DOMAIN trace : trace[s] \in TraceEntry /\ StampsOrdered(trace[s])
        /\ \A s, t \in Committed : s < t => trace[s].commit <= trace[t].commit
    BY DEF TraceInv
  <2>2. \A s \in DOMAIN trace : /\ trace[s].rename \in Nat \ {0} /\ trace[s].issue \in Nat
                                /\ trace[s].commit \in Nat
    BY <2>1 DEF TraceEntry, StampsOrdered
  <2>3. ASSUME NEW s \in DOMAIN trace
        PROVE  /\ Cardinality({t \in DOMAIN trace : trace[t].fetch = trace[s].fetch}) <= FetchWidth
               /\ Cardinality({t \in DOMAIN trace : trace[t].rename = trace[s].rename}) <= RenameWidth
               /\ s \in Committed =>
                    Cardinality({t \in Committed : trace[t].commit = trace[s].commit}) <= CommitWidth
               /\ trace[s].issue # 0 =>
                    Cardinality({t \in DOMAIN trace : trace[t].issue = trace[s].issue}) <= IssueWidth
    <3>1. {t \in DOMAIN trace : trace[t].rename = trace[s].rename} = RenamedAt(trace[s].rename)
      BY DEF RenamedAt
    <3>2. {t \in DOMAIN trace : trace[t].issue = trace[s].issue} = IssuedAt(trace[s].issue)
      BY DEF IssuedAt
    <3>3. s \in Committed => {t \in Committed : trace[t].commit = trace[s].commit}
                               = CommittedAt(trace[s].commit)
      BY DEF CommittedAt, Committed
    <3>4. s \in Committed => trace[s].commit # 0
      BY DEF Committed
    <3>5. Cardinality({t \in DOMAIN trace : trace[t].fetch = trace[s].fetch}) <= FetchWidth
      <4>1. trace[s].fetch \in Nat
        BY <2>1 DEF TraceEntry
      <4>2. {t \in DOMAIN trace : trace[t].fetch = trace[s].fetch} = FetchedAt(trace[s].fetch)
        BY DEF FetchedAt
      <4>3. \A c \in Nat : Cardinality(FetchedAt(c)) <= FetchWidth
        <5> SUFFICES ASSUME NEW c \in Nat PROVE Cardinality(FetchedAt(c)) <= FetchWidth
          OBVIOUS
        <5>1. Cardinality(FetchedAt(c)) \in Nat /\ Cardinality(WaitingSince(c)) \in Nat
          BY FetchesTyped
        <5> QED
          BY <5>1, FetchAssumption DEF FetchInv
      <4> QED
        BY <4>1, <4>2, <4>3
    <3> QED
      BY <2>2, <3>1, <3>2, <3>3, <3>4, <3>5 DEF WidthInv, WidthsKept
  <2> QED
    BY <2>1, <2>3 DEF TraceOrdered
<1>2. MachineSpec => []TypeOK
  BY MachineIsAPipeline, TypeCorrect, PTL DEF PipelineAllows
<1> QED
  BY <1>1, <1>2, TraceInvariant, WidthInvariant, FetchInvariant, PTL

-----------------------------------------------------------------------------
(* The reports *)

BranchesDone == {s \in DOMAIN trace : trace[s].branch /\ trace[s].complete # 0}
WrongOnes    == {s \in DOMAIN trace : trace[s].mispredicted}
Accessed     == {s \in DOMAIN trace : trace[s].cached}

(* A first level that counts its accesses. *)
CountsAccesses(c) ==
  "stats" \in DOMAIN c /\ "accesses" \in DOMAIN c.stats /\ c.stats.accesses \in Nat

Wrongly == bpStats.directionMispredictions + bpStats.targetMispredictions

(* ReportsAgree, by the instructions that each counter is about. *)
BranchesAgree == /\ bpStats.predictions = stats["retiredBranches"]
                 /\ stats["retiredBranches"] = Cardinality(BranchesDone)
WrongAgree    == /\ stats["branchMispredictions"] = Wrongly
                 /\ stats["branchMispredictions"] = stats["branch_recoveries"]
                 /\ stats["branchMispredictions"] = Cardinality(WrongOnes)
FetchesAgree  == stats["fetched"] = l1i.stats.accesses
AccessesAgree == l1d.stats.accesses = Cardinality(Accessed)
CommitsAgree  == stats["committed"] = Cardinality(Committed)

CountersTyped ==
  /\ stats \in [Counters -> Nat] /\ bpStats \in BranchPredictorStats
  /\ CountsAccesses(l1i) /\ CountsAccesses(l1d)

ReportInv == /\ CountersTyped
             /\ BranchesAgree /\ WrongAgree /\ FetchesAgree /\ AccessesAgree /\ CommitsAgree

LEMMA TallyCounts ==
  ASSUME stats \in [Counters -> Nat], NEW names, Tally(names)
  PROVE  /\ stats' \in [Counters -> Nat]
         /\ \A n \in Counters : stats'[n] = IF n \in names THEN stats[n] + 1 ELSE stats[n]
BY DEF Tally, Count

LEMMA AccessCounted ==
  ASSUME NEW g, NEW c, NEW lower, NEW address, NEW stores, CountsAccesses(c)
  PROVE  LET next == FirstAccess(g, c, lower, address, stores).level
         IN  CountsAccesses(next) /\ next.stats.accesses = c.stats.accesses + 1
<1> DEFINE next == FirstAccess(g, c, lower, address, stores).level
<1>1. ASSUME NEW d, "stats" \in DOMAIN d, d.stats = c.stats, NEW names, "accesses" \in names,
             NEW more, next = [d EXCEPT !.stats = [Count(c.stats, names) EXCEPT !.totalLatency = more]]
      PROVE  CountsAccesses(next) /\ next.stats.accesses = c.stats.accesses + 1
  <2> HIDE DEF next
  <2>1. next.stats = [Count(c.stats, names) EXCEPT !.totalLatency = more] /\ "stats" \in DOMAIN next
    BY <1>1
  <2>2. DOMAIN Count(c.stats, names) = DOMAIN c.stats
        /\ Count(c.stats, names)["accesses"] = c.stats["accesses"] + 1
    BY <1>1 DEF Count, CountsAccesses
  <2>3. DOMAIN next.stats = DOMAIN c.stats /\ next.stats["accesses"] = c.stats["accesses"] + 1
    BY <2>1, <2>2 DEF CountsAccesses
  <2> QED
    BY <2>1, <2>3 DEF CountsAccesses
<1>2. \A s, w, line : /\ "stats" \in DOMAIN Touched(g, c, s, w, line)
                      /\ Touched(g, c, s, w, line).stats = c.stats
  BY DEF Touched, CountsAccesses
<1>3. CASE HitWays(g, c, address) # {}
  <2>1. next = Hit(g, c, address, stores)
    BY <1>3 DEF FirstAccess
  <2> HIDE DEF next
  <2>2. PICK d, more : /\ "stats" \in DOMAIN d /\ d.stats = c.stats
                       /\ next = [d EXCEPT !.stats = [Count(c.stats, {"accesses", "hits"}) EXCEPT
                                                        !.totalLatency = more]]
    BY <1>2, <2>1 DEF Hit
  <2> QED
    BY <1>1, <2>2 DEF next
<1>4. CASE HitWays(g, c, address) = {}
  <2>1. PICK wait : next = Miss(g, c, address, stores, wait)
    BY <1>4 DEF FirstAccess
  <2> HIDE DEF next
  <2>2. PICK d, names, more :
          /\ "stats" \in DOMAIN d /\ d.stats = c.stats /\ "accesses" \in names
          /\ next = [d EXCEPT !.stats = [Count(c.stats, names) EXCEPT !.totalLatency = more]]
    BY <1>2, <2>1 DEF Miss
  <2> QED
    BY <1>1, <2>2 DEF next
<1> QED
  BY <1>3, <1>4

LEMMA ReportsAgreeParts ==
  BranchesAgree /\ WrongAgree /\ FetchesAgree /\ AccessesAgree /\ CommitsAgree => ReportsAgree
<1>1. BranchesAgree => /\ bpStats.predictions = stats.retiredBranches
                       /\ stats.retiredBranches
                            = Cardinality({s \in DOMAIN trace : trace[s].branch
                                                                  /\ trace[s].complete # 0})
  BY DEF BranchesAgree, BranchesDone
<1>2. WrongAgree => /\ stats.branchMispredictions
                         = bpStats.directionMispredictions + bpStats.targetMispredictions
                    /\ stats.branchMispredictions = stats.branch_recoveries
                    /\ stats.branchMispredictions
                         = Cardinality({s \in DOMAIN trace : trace[s].mispredicted})
  BY DEF WrongAgree, Wrongly, WrongOnes
<1>3. FetchesAgree /\ AccessesAgree /\ CommitsAgree =>
        /\ stats.fetched = l1i.stats.accesses
        /\ l1d.stats.accesses = Cardinality({s \in DOMAIN trace : trace[s].cached})
        /\ stats.committed = Cardinality(Committed)
  BY DEF FetchesAgree, AccessesAgree, CommitsAgree, Accessed
<1> QED
  BY <1>1, <1>2, <1>3 DEF ReportsAgree

(* What one stamp moves from set to set. *)
LEMMA StampMarks ==
  ASSUME NEW h \in DOMAIN trace, NEW t, trace' = [trace EXCEPT ![h] = t],
         trace[h].mispredicted \in BOOLEAN, trace[h].cached \in BOOLEAN,
         t.mispredicted \in BOOLEAN, t.cached \in BOOLEAN
  PROVE  /\ t.branch = trace[h].branch /\ t.complete = trace[h].complete
              => BranchesDone' = BranchesDone
         /\ t.mispredicted = trace[h].mispredicted => WrongOnes' = WrongOnes
         /\ t.cached = trace[h].cached => Accessed' = Accessed
         /\ t.commit = trace[h].commit => Committed' = Committed
         /\ trace[h].complete = 0 =>
              BranchesDone' = IF t.branch /\ t.complete # 0 THEN BranchesDone \cup {h}
                                                            ELSE BranchesDone
         /\ ~trace[h].mispredicted =>
              WrongOnes' = IF t.mispredicted THEN WrongOnes \cup {h} ELSE WrongOnes
         /\ ~trace[h].cached => Accessed' = IF t.cached THEN Accessed \cup {h} ELSE Accessed
         /\ trace[h].commit = 0 => Committed' = IF t.commit # 0 THEN Committed \cup {h}
                                                                ELSE Committed
<1>1. DOMAIN trace' = DOMAIN trace /\ \A s \in DOMAIN trace : trace'[s] = IF s = h THEN t ELSE trace[s]
  OBVIOUS
<1>2. /\ t.branch = trace[h].branch /\ t.complete = trace[h].complete
           => BranchesDone' = BranchesDone
      /\ trace[h].complete = 0 =>
           BranchesDone' = IF t.branch /\ t.complete # 0 THEN BranchesDone \cup {h}
                                                         ELSE BranchesDone
  BY <1>1 DEF BranchesDone
<1>3. /\ t.mispredicted = trace[h].mispredicted => WrongOnes' = WrongOnes
      /\ ~trace[h].mispredicted =>
           WrongOnes' = IF t.mispredicted THEN WrongOnes \cup {h} ELSE WrongOnes
  BY <1>1 DEF WrongOnes
<1>4. /\ t.cached = trace[h].cached => Accessed' = Accessed
      /\ ~trace[h].cached => Accessed' = IF t.cached THEN Accessed \cup {h} ELSE Accessed
  BY <1>1 DEF Accessed
<1>5. /\ t.commit = trace[h].commit => Committed' = Committed
      /\ trace[h].commit = 0 => Committed' = IF t.commit # 0 THEN Committed \cup {h} ELSE Committed
  BY <1>1 DEF Committed
<1> QED
  BY <1>2, <1>3, <1>4, <1>5

LEMMA MarksStay ==
  UNCHANGED trace => UNCHANGED <<BranchesDone, WrongOnes, Accessed, Committed>>
BY DEF BranchesDone, WrongOnes, Accessed, Committed

LEMMA MarksFinite ==
  ASSUME TypeOK, TraceInv
  PROVE  \A T \in {BranchesDone, WrongOnes, Accessed, Committed} :
           IsFiniteSet(T) /\ Cardinality(T) \in Nat
<1>1. DOMAIN trace = Seqs
  BY DEF TraceInv
<1>2. \A T \in {BranchesDone, WrongOnes, Accessed, Committed} : T \in SUBSET DOMAIN trace
  BY DEF BranchesDone, WrongOnes, Accessed, Committed
<1> QED
  BY <1>1, <1>2, CountsTyped

(* The counters that the report compares with something. *)
Compared == {"retiredBranches", "branchMispredictions", "branch_recoveries",
             "fetched", "committed"}

LEMMA ReportCommit == TypeOK /\ TraceInv /\ ReportInv /\ MachineCommit => ReportInv'
<1> SUFFICES ASSUME TypeOK, TraceInv, ReportInv, MachineCommit PROVE ReportInv'
  OBVIOUS
<1>1. PICK h \in InFlight : trace' = [trace EXCEPT ![h] = [trace[h] EXCEPT !.commit = cycles]]
  BY CommitMade
<1> DEFINE t == [trace[h] EXCEPT !.commit = cycles]
<1>2. h \in DOMAIN trace /\ trace[h] \in TraceEntry /\ trace[h].commit = 0 /\ cycles \in Nat \ {0}
  BY TracedFlight DEF Traced, TraceInv
<1>3. /\ t.commit = cycles /\ t.branch = trace[h].branch /\ t.complete = trace[h].complete
      /\ t.mispredicted = trace[h].mispredicted /\ t.cached = trace[h].cached
      /\ trace[h].mispredicted \in BOOLEAN /\ trace[h].cached \in BOOLEAN
  BY <1>2 DEF TraceEntry
<1> HIDE DEF t
<1>4. /\ BranchesDone' = BranchesDone /\ WrongOnes' = WrongOnes /\ Accessed' = Accessed
      /\ Committed' = Committed \cup {h} /\ h \notin Committed
  <2>1. trace' = [trace EXCEPT ![h] = t]
    BY <1>1 DEF t
  <2> QED
    BY <1>2, <1>3, <2>1, StampMarks DEF Committed
<1>5. Cardinality(Committed') = Cardinality(Committed) + 1
  BY <1>4, MarksFinite, OneMore
<1>6. /\ stats' \in [Counters -> Nat] /\ stats'["committed"] = stats["committed"] + 1
      /\ \A n \in Compared \ {"committed"} : stats'[n] = stats[n]
      /\ UNCHANGED <<bpStats, l1i, l1d>>
  BY TallyCounts DEF MachineCommit, ReportInv, CountersTyped, Counters, Compared,
                     predictorVars, cacheVars
<1>7. CountersTyped'
  BY <1>6 DEF ReportInv, CountersTyped, CountsAccesses
<1>8. BranchesAgree' /\ WrongAgree' /\ FetchesAgree' /\ AccessesAgree'
  BY <1>4, <1>6 DEF ReportInv, BranchesAgree, WrongAgree, FetchesAgree, AccessesAgree,
                    Wrongly, Compared
<1>9. CommitsAgree'
  BY <1>5, <1>6 DEF ReportInv, CommitsAgree
<1> QED
  BY <1>7, <1>8, <1>9 DEF ReportInv

LEMMA ReportIssue == TypeOK /\ TraceInv /\ ReportInv /\ MachineIssue => ReportInv'
<1> SUFFICES ASSUME TypeOK, TraceInv, ReportInv, MachineIssue PROVE ReportInv'
  OBVIOUS
<1>1. PICK h \in InFlight :
        /\ ~rob[h].issued
        /\ IF rob[h].inst.op \in MemoryOps
             THEN accessData(accessAddress(rob[h]), rob[h].inst.op \in Stores)
             ELSE UNCHANGED cacheVars
        /\ trace' = [trace EXCEPT ![h] = [trace[h] EXCEPT !.issue = cycles,
                                            !.cached = rob[h].inst.op \in MemoryOps]]
  BY DEF MachineIssue, IssueWith, Issues, Stamp
<1> DEFINE isMemory == rob[h].inst.op \in MemoryOps
           t == [trace[h] EXCEPT !.issue = cycles, !.cached = isMemory]
<1>2. h \in DOMAIN trace /\ trace[h] \in TraceEntry /\ ~trace[h].cached
  BY <1>1, TracedFlight DEF Traced
<1>3. isMemory \in BOOLEAN
  OBVIOUS
<1>4. IF isMemory THEN l1d'.stats.accesses = l1d.stats.accesses + 1 /\ CountsAccesses(l1d') /\ l1i' = l1i
                  ELSE UNCHANGED <<l1i, l1d>>
  <2>1. CASE isMemory
    <3>1. l1i' = l1i
          /\ \E x, w : l1d' = FirstAccess(L1D, l1d, l2, x, w).level
      BY <1>1, <2>1 DEF accessData, DataAccess
    <3> QED
      BY <2>1, <3>1, AccessCounted DEF ReportInv, CountersTyped
  <2>2. CASE ~isMemory
    BY <1>1, <2>2 DEF cacheVars
  <2> QED
    BY <2>1, <2>2
<1> HIDE DEF isMemory
<1>5. /\ t.cached = isMemory /\ t.branch = trace[h].branch /\ t.complete = trace[h].complete
      /\ t.mispredicted = trace[h].mispredicted /\ t.commit = trace[h].commit
      /\ trace[h].mispredicted \in BOOLEAN /\ trace[h].cached \in BOOLEAN
  BY <1>2, <1>3 DEF TraceEntry
<1> HIDE DEF t
<1>6. /\ BranchesDone' = BranchesDone /\ WrongOnes' = WrongOnes /\ Committed' = Committed
      /\ Accessed' = (IF isMemory THEN Accessed \cup {h} ELSE Accessed) /\ h \notin Accessed
  <2>1. trace' = [trace EXCEPT ![h] = t]
    BY <1>1 DEF t, isMemory
  <2> QED
    BY <1>2, <1>3, <1>5, <2>1, StampMarks DEF Accessed
<1>7. Cardinality(Accessed') = IF isMemory THEN Cardinality(Accessed) + 1 ELSE Cardinality(Accessed)
  BY <1>6, MarksFinite, OneMore
<1>8. UNCHANGED <<bpStats, stats>>
  BY DEF MachineIssue, predictorVars
<1>9. CountersTyped'
  BY <1>4, <1>8 DEF ReportInv, CountersTyped, CountsAccesses
<1>10. BranchesAgree' /\ WrongAgree' /\ FetchesAgree' /\ CommitsAgree'
  BY <1>4, <1>6, <1>8 DEF ReportInv, BranchesAgree, WrongAgree, FetchesAgree, CommitsAgree, Wrongly
<1>11. AccessesAgree'
  BY <1>4, <1>7 DEF ReportInv, AccessesAgree
<1> QED
  BY <1>9, <1>10, <1>11 DEF ReportInv

LEMMA ReportFetch == TypeOK /\ TraceInv /\ ReportInv /\ MachineFetch => ReportInv'
<1> SUFFICES ASSUME TypeOK, TraceInv, ReportInv, MachineFetch PROVE ReportInv'
  OBVIOUS
<1>1. /\ stats' \in [Counters -> Nat] /\ stats'["fetched"] = stats["fetched"] + 1
      /\ \A n \in Compared \ {"fetched"} : stats'[n] = stats[n]
  BY TallyCounts DEF MachineFetch, ReportInv, CountersTyped, Counters, Compared
<1>2. /\ l1i'.stats.accesses = l1i.stats.accesses + 1 /\ CountsAccesses(l1i')
      /\ UNCHANGED <<l1d, trace>>
  <2>1. \E x, w : l1i' = FirstAccess(L1I, l1i, l2, x, w).level
    BY DEF MachineFetch, accessInstruction, InstructionAccess
  <2>2. UNCHANGED <<l1d, trace>>
    BY DEF MachineFetch, accessInstruction
  <2> QED
    BY <2>1, <2>2, AccessCounted DEF ReportInv, CountersTyped
<1>3. /\ bpStats' \in BranchPredictorStats
      /\ bpStats'.predictions = bpStats.predictions
      /\ bpStats'.directionMispredictions = bpStats.directionMispredictions
      /\ bpStats'.targetMispredictions = bpStats.targetMispredictions
  <2>1. \/ bpStats' = bpStats
        \/ bpStats' = [bpStats EXCEPT !.btbHits = @ + 1]
        \/ bpStats' = [bpStats EXCEPT !.btbMisses = @ + 1]
    BY DEF MachineFetch, CountLookup, predictorVars
  <2>2. bpStats \in BranchPredictorStats
    BY DEF ReportInv, CountersTyped
  <2> QED
    BY <2>1, <2>2 DEF BranchPredictorStats
<1>4. CountersTyped'
  BY <1>1, <1>2, <1>3 DEF ReportInv, CountersTyped, CountsAccesses
<1>5. BranchesAgree' /\ WrongAgree' /\ AccessesAgree' /\ CommitsAgree'
  BY <1>1, <1>2, <1>3, MarksStay
     DEF ReportInv, BranchesAgree, WrongAgree, AccessesAgree, CommitsAgree, Wrongly, Compared
<1>6. FetchesAgree'
  BY <1>1, <1>2 DEF ReportInv, FetchesAgree
<1> QED
  BY <1>4, <1>5, <1>6 DEF ReportInv

(* Nothing is marked that was not. *)
LEMMA ReportRename == TypeOK /\ TraceInv /\ ReportInv /\ MachineRename => ReportInv'
<1> SUFFICES ASSUME TypeOK, TraceInv, ReportInv, MachineRename PROVE ReportInv'
  OBVIOUS
<1>1. PICK t : /\ trace' = Put(trace, nextSeq, t)
               /\ t.complete = 0 /\ t.commit = 0 /\ ~t.mispredicted /\ ~t.cached
  BY DEF MachineRename
<1>2. nextSeq \notin DOMAIN trace
  BY DEF TraceInv, TypeOK, BackTypeOK, Seqs
<1>3. /\ BranchesDone' = BranchesDone /\ WrongOnes' = WrongOnes
      /\ Accessed' = Accessed /\ Committed' = Committed
  BY <1>1, <1>2, PutFacts DEF BranchesDone, WrongOnes, Accessed, Committed
<1>4. UNCHANGED <<bpStats, stats, l1i, l1d>>
  BY DEF MachineRename, predictorVars, cacheVars
<1> QED
  BY <1>3, <1>4 DEF ReportInv, CountersTyped, CountsAccesses, BranchesAgree, WrongAgree,
                    FetchesAgree, AccessesAgree, CommitsAgree, Wrongly

(* Only names that are not compared are counted. *)
LEMMA ReportOthers ==
  ASSUME ReportInv, [MachineNext]_machineVars,
         ~MachineCommit, ~MachineComplete, ~MachineIssue, ~MachineRename, ~MachineFetch
  PROVE  ReportInv'
<1>1. UNCHANGED <<trace, bpStats, l1i, l1d>>
  BY DEF MachineNext, MachineStep, MachineTick, MachineIssueSkip, MachineRenameDone,
         MachineFetchWait, MachineFetchDone, Quiet, TimedOut, machineVars, reportVars,
         predictorVars, cacheVars
<1>2. \/ UNCHANGED stats
      \/ \E names : Tally(names) /\ names \cap Compared = {}
  <2>1. CASE MachineTick
    <3> DEFINE names == {n \in {"commit_head_not_ready"} :
                           ~halted /\ done < CommitWidth /\ InFlight # {}}
    <3>1. Tally(names) /\ names \cap Compared = {}
      BY <2>1 DEF MachineTick, Compared
    <3> QED
      BY <3>1
  <2>2. CASE MachineIssueSkip
    <3> DEFINE names == {n \in {"issue_fu_busy"} :
                           \E s \in work : /\ IsNext(s) /\ s \in InFlight /\ ~rob[s].issued
                                           /\ ~canAccept(rob[s].inst)}
    <3>1. Tally(names) /\ names \cap Compared = {}
      BY <2>2 DEF MachineIssueSkip, Compared
    <3> QED
      BY <3>1
  <2>3. CASE MachineRenameDone
    <3> DEFINE waits == done < RenameWidth /\ fetchQueue # << >>
               names == {n \in {"rename_rob_full"} : waits /\ RobFull}
                          \cup {n \in {"rename_issue_queue_full"} : waits /\ ~RobFull /\ IqFull}
                          \cup {n \in {"rename_physical_registers"} : waits /\ ~RobFull /\ ~IqFull}
    <3>1. Tally(names) /\ names \cap Compared = {}
      BY <2>3 DEF MachineRenameDone, Compared
    <3> QED
      BY <3>1
  <2>4. CASE MachineFetchWait
    <3>1. Tally({"fetch_cache"}) /\ {"fetch_cache"} \cap Compared = {}
      BY <2>4 DEF MachineFetchWait, Compared
    <3> QED
      BY <3>1
  <2>5. CASE MachineFetchDone
    <3> DEFINE names == {n \in {"fetch_queue_full"} :
                           ~stoppedFetching /\ done = 0 /\ Len(fetchQueue) >= MaxQueue}
    <3>1. Tally(names) /\ names \cap Compared = {}
      BY <2>5 DEF MachineFetchDone, Compared
    <3> QED
      BY <3>1
  <2>6. CASE Quiet \/ TimedOut \/ UNCHANGED machineVars
    BY <2>6 DEF Quiet, TimedOut, machineVars, reportVars
  <2> QED
    BY <2>1, <2>2, <2>3, <2>4, <2>5, <2>6 DEF MachineNext, MachineStep
<1>3. stats' \in [Counters -> Nat] /\ \A n \in Compared : stats'[n] = stats[n]
  <2>1. Compared \subseteq Counters /\ stats \in [Counters -> Nat]
    BY DEF Compared, Counters, ReportInv, CountersTyped
  <2>2. CASE UNCHANGED stats
    BY <2>1, <2>2
  <2>3. CASE \E names : Tally(names) /\ names \cap Compared = {}
    <3>1. PICK names : Tally(names) /\ names \cap Compared = {}
      BY <2>3
    <3>2. \A n \in Compared : n \in Counters /\ n \notin names
      BY <2>1, <3>1
    <3> QED
      BY <2>1, <3>1, <3>2, TallyCounts
  <2> QED
    BY <1>2, <2>2, <2>3
<1>4. CountersTyped'
  BY <1>1, <1>3 DEF ReportInv, CountersTyped, CountsAccesses
<1>5. BranchesAgree' /\ WrongAgree' /\ FetchesAgree' /\ AccessesAgree' /\ CommitsAgree'
  BY <1>1, <1>3, MarksStay
     DEF ReportInv, BranchesAgree, WrongAgree, FetchesAgree, AccessesAgree, CommitsAgree,
         Wrongly, Compared
<1> QED
  BY <1>4, <1>5 DEF ReportInv

(* A JAL is never mispredicted: every wrong prediction is one the          *)
(* predictor made, is trained with, and is recovered from.                 *)
LEMMA WrongIsTrained ==
  ASSUME TypeOK, InstsFromProgram, NEW s \in InFlight
  PROVE  LET e == rob[s]
             predicted == [taken |-> e.inst.predictedTaken, target |-> e.inst.predictedTarget]
         IN  /\ mispredicted(e) <=> /\ TrainsPredictor(e)
                                    /\ Wrong(predicted, actualTaken(e), actualTarget(e))
             /\ recovers(e) <=> mispredicted(e)
             /\ actualTaken(e) \in BOOLEAN
<1> DEFINE e == rob[s]
           predicted == [taken |-> e.inst.predictedTaken, target |-> e.inst.predictedTarget]
<1>1. FromProgram(program, e.inst) /\ e.hasCheckpoint = (e.inst.op \in ControlOps)
  BY DEF InstsFromProgram
<1>2. e.inst.op = "Jal" => ~mispredicted(e)
  <2> SUFFICES ASSUME e.inst.op = "Jal" PROVE ~mispredicted(e)
    OBVIOUS
  <2>1. e.inst.predictedTaken = TRUE /\ e.inst.predictedTarget = WordAdd(e.inst.pc, e.inst.imm)
    <3>1. e.inst.predictedTaken \in BOOLEAN
      BY EntryType DEF Entry, Fetched
    <3> QED
      BY <1>1, <3>1 DEF FromProgram
  <2>2. actualTaken(e) = TRUE /\ actualTarget(e) = WordAdd(e.inst.pc, e.inst.imm)
    BY DEF actualTaken, actualTarget, Taken, Target, Jumps
  <2> QED
    BY <2>1, <2>2 DEF mispredicted
<1>3. /\ e.inst.op \in ControlOps <=> TrainsPredictor(e) \/ e.inst.op = "Jal"
      /\ TrainsPredictor(e) => e.inst.op # "Jal"
  BY DEF ControlOps, Jumps, TrainsPredictor, Branches
<1>4. e.inst.op \in ControlOps =>
        (mispredicted(e) <=> Wrong(predicted, actualTaken(e), actualTarget(e)))
  BY DEF mispredicted, Wrong
<1>5. recovers(e) <=> mispredicted(e)
  BY <1>1 DEF recovers, mispredicted
<1>6. actualTaken(e) \in BOOLEAN
  BY DEF actualTaken, Taken
<1>7. mispredicted(e) => e.inst.op \in ControlOps
  BY DEF mispredicted
<1> QED
  BY <1>2, <1>3, <1>4, <1>5, <1>6, <1>7

LEMMA ReportComplete ==
  TypeOK /\ PlaceInv /\ InstsFromProgram /\ TraceInv /\ ReportInv /\ MachineComplete => ReportInv'
<1> SUFFICES ASSUME TypeOK, PlaceInv, InstsFromProgram, TraceInv, ReportInv, MachineComplete
             PROVE  ReportInv'
  OBVIOUS
<1> DEFINE predicted(e) == [taken |-> e.inst.predictedTaken, target |-> e.inst.predictedTarget]
<1>1. PICK h \in InFlight :
        /\ ~rob[h].ready
        /\ IF TrainsPredictor(rob[h])
             THEN train(rob[h].inst.pc, predicted(rob[h]), actualTaken(rob[h]), actualTarget(rob[h]))
             ELSE UNCHANGED predictorVars
        /\ Tally({n \in {"retiredBranches"} : TrainsPredictor(rob[h])}
                   \cup {n \in {"branchMispredictions"} : mispredicted(rob[h])}
                   \cup {n \in {"branch_recoveries"} : recovers(rob[h])})
        /\ trace' = [trace EXCEPT ![h] = [trace[h] EXCEPT !.complete = cycles,
                                            !.mispredicted = mispredicted(rob[h])]]
  BY CompletionMade DEF Finishes, Stamp
<1> DEFINE e == rob[h]
           trains == TrainsPredictor(e)
           wrong == mispredicted(e)
           names == {n \in {"retiredBranches"} : trains}
                      \cup {n \in {"branchMispredictions"} : wrong}
                      \cup {n \in {"branch_recoveries"} : recovers(e)}
           t == [trace[h] EXCEPT !.complete = cycles, !.mispredicted = wrong]
<1>2. /\ wrong <=> trains /\ Wrong(predicted(e), actualTaken(e), actualTarget(e))
      /\ recovers(e) <=> wrong
      /\ actualTaken(e) \in BOOLEAN
  BY WrongIsTrained
<1>3. /\ h \in DOMAIN trace /\ trace[h] \in TraceEntry
      /\ trace[h].complete = 0 /\ ~trace[h].mispredicted /\ trace[h].branch = trains
      /\ cycles \in Nat \ {0}
  BY <1>1, TracedFlight DEF Traced, TraceInv
<1>4. wrong \in BOOLEAN /\ trains \in BOOLEAN
  BY DEF mispredicted, TrainsPredictor
<1>5. /\ bpStats' \in BranchPredictorStats
      /\ bpStats'.predictions = bpStats.predictions + (IF trains THEN 1 ELSE 0)
      /\ Wrongly' = Wrongly + (IF wrong THEN 1 ELSE 0)
  <2>1. bpStats \in BranchPredictorStats /\ Wrongly \in Nat /\ bpStats.predictions \in Nat
    BY DEF ReportInv, CountersTyped, BranchPredictorStats, Wrongly
  <2>2. CASE trains
    <3>1. train(e.inst.pc, predicted(e), actualTaken(e), actualTarget(e))
      BY <1>1, <2>2
    <3>2. /\ bpStats' \in BranchPredictorStats
          /\ bpStats'.predictions = bpStats.predictions + 1
          /\ bpStats'.directionMispredictions + bpStats'.targetMispredictions
               = bpStats.directionMispredictions + bpStats.targetMispredictions
                   + (IF Wrong(predicted(e), actualTaken(e), actualTarget(e)) THEN 1 ELSE 0)
      BY <1>2, <2>1, <3>1, TrainingCounts
    <3> HIDE DEF e, predicted, wrong
    <3> QED
      BY <1>2, <2>2, <3>2 DEF Wrongly
  <2>3. CASE ~trains
    <3>1. bpStats' = bpStats
      BY <1>1, <2>3 DEF predictorVars
    <3> HIDE DEF e, predicted, wrong
    <3> QED
      BY <1>2, <2>1, <2>3, <3>1 DEF Wrongly
  <2> QED
    BY <2>2, <2>3
<1>6. Tally(names)
  BY <1>1
<1> HIDE DEF trains, wrong
<1>7. /\ t.complete = cycles /\ t.mispredicted = wrong /\ t.branch = trains
      /\ t.cached = trace[h].cached /\ t.commit = trace[h].commit
      /\ trace[h].mispredicted \in BOOLEAN /\ trace[h].cached \in BOOLEAN
  BY <1>3, <1>4 DEF TraceEntry
<1>8. trace' = [trace EXCEPT ![h] = t]
  BY <1>1 DEF trains, wrong
<1> HIDE DEF t
<1>9. /\ BranchesDone' = (IF trains THEN BranchesDone \cup {h} ELSE BranchesDone)
      /\ h \notin BranchesDone
      /\ WrongOnes' = (IF wrong THEN WrongOnes \cup {h} ELSE WrongOnes)
      /\ h \notin WrongOnes
      /\ Accessed' = Accessed /\ Committed' = Committed
  <2>1. BranchesDone' = IF t.branch /\ t.complete # 0 THEN BranchesDone \cup {h}
                                                      ELSE BranchesDone
    BY <1>3, <1>4, <1>7, <1>8, StampMarks
  <2>2. WrongOnes' = IF t.mispredicted THEN WrongOnes \cup {h} ELSE WrongOnes
    BY <1>3, <1>4, <1>7, <1>8, StampMarks
  <2>3. Accessed' = Accessed /\ Committed' = Committed
    BY <1>3, <1>4, <1>7, <1>8, StampMarks
  <2>4. h \notin BranchesDone /\ h \notin WrongOnes
    BY <1>3 DEF BranchesDone, WrongOnes
  <2>5. t.complete # 0 /\ t.branch = trains /\ t.mispredicted = wrong
    BY <1>3, <1>7
  <2> QED
    BY <1>4, <2>1, <2>2, <2>3, <2>4, <2>5
<1>10. /\ Cardinality(BranchesDone') = Cardinality(BranchesDone) + (IF trains THEN 1 ELSE 0)
       /\ Cardinality(WrongOnes') = Cardinality(WrongOnes) + (IF wrong THEN 1 ELSE 0)
  <2>1. /\ IsFiniteSet(BranchesDone) /\ Cardinality(BranchesDone) \in Nat
        /\ IsFiniteSet(WrongOnes) /\ Cardinality(WrongOnes) \in Nat
    BY MarksFinite
  <2>2. /\ Cardinality(BranchesDone \cup {h}) = Cardinality(BranchesDone) + 1
        /\ Cardinality(WrongOnes \cup {h}) = Cardinality(WrongOnes) + 1
    BY <1>9, <2>1, OneMore
  <2>3. CASE trains
    BY <1>2, <1>9, <2>1, <2>2, <2>3
  <2>4. CASE ~trains
    BY <1>2, <1>9, <2>1, <2>2, <2>4
  <2> QED
    BY <2>3, <2>4
<1>11. /\ "retiredBranches" \in names <=> trains
       /\ "branchMispredictions" \in names <=> wrong
       /\ "branch_recoveries" \in names <=> wrong
       /\ "fetched" \notin names /\ "committed" \notin names
  BY <1>2
<1> HIDE DEF names
<1>12. /\ stats' \in [Counters -> Nat]
       /\ stats'["retiredBranches"] = stats["retiredBranches"] + (IF trains THEN 1 ELSE 0)
       /\ stats'["branchMispredictions"] = stats["branchMispredictions"] + (IF wrong THEN 1 ELSE 0)
       /\ stats'["branch_recoveries"] = stats["branch_recoveries"] + (IF wrong THEN 1 ELSE 0)
       /\ stats'["fetched"] = stats["fetched"] /\ stats'["committed"] = stats["committed"]
  <2>1. stats \in [Counters -> Nat] /\ Compared \subseteq Counters
    BY DEF ReportInv, CountersTyped, Counters, Compared
  <2>2. /\ stats' \in [Counters -> Nat]
        /\ \A n \in Compared : stats'[n] = IF n \in names THEN stats[n] + 1 ELSE stats[n]
    BY <1>6, <2>1, TallyCounts
  <2>3. \A n \in Compared : stats[n] \in Nat
    BY <2>1
  <2> QED
    BY <1>4, <1>11, <2>2, <2>3 DEF Compared
<1>13. UNCHANGED <<l1i, l1d>>
  BY DEF MachineComplete, cacheVars
<1>14. CountersTyped'
  BY <1>5, <1>12, <1>13 DEF ReportInv, CountersTyped, CountsAccesses
<1>15. BranchesAgree'
  BY <1>5, <1>10, <1>12 DEF ReportInv, BranchesAgree
<1>16. WrongAgree'
  <2>1. WrongAgree
    BY DEF ReportInv
  <2> QED
    BY <1>5, <1>10, <1>12, <2>1 DEF WrongAgree
<1>17. FetchesAgree' /\ AccessesAgree' /\ CommitsAgree'
  BY <1>9, <1>12, <1>13 DEF ReportInv, FetchesAgree, AccessesAgree, CommitsAgree
<1> QED
  BY <1>14, <1>15, <1>16, <1>17 DEF ReportInv

LEMMA ReportStarts == MachineInit => ReportInv
<1> SUFFICES ASSUME MachineInit PROVE ReportInv
  OBVIOUS
<1>1. DOMAIN trace = {}
  BY NoEntriesPartial DEF MachineInit
<1>2. /\ Cardinality(BranchesDone) = 0 /\ Cardinality(WrongOnes) = 0
      /\ Cardinality(Accessed) = 0 /\ Cardinality(Committed) = 0
  <2>1. BranchesDone = {} /\ WrongOnes = {} /\ Accessed = {} /\ Committed = {}
    BY <1>1 DEF BranchesDone, WrongOnes, Accessed, Committed
  <2> QED
    BY <2>1, FS_EmptySet
<1>3. stats = [n \in Counters |-> 0]
  BY DEF MachineInit
<1>4. bpStats = [predictions |-> 0, correct |-> 0, directionMispredictions |-> 0,
                 targetMispredictions |-> 0, btbHits |-> 0, btbMisses |-> 0]
  BY DEF MachineInit, PredictorInit
<1>5. /\ CountsAccesses(l1i) /\ l1i.stats.accesses = 0
      /\ CountsAccesses(l1d) /\ l1d.stats.accesses = 0
  BY DEF MachineInit, CacheInit, EmptyLevel, CountsAccesses
<1>6. CountersTyped
  BY <1>3, <1>4, <1>5 DEF CountersTyped, BranchPredictorStats
<1> QED
  BY <1>2, <1>3, <1>4, <1>5, <1>6 DEF ReportInv, BranchesAgree, WrongAgree, FetchesAgree,
                                      AccessesAgree, CommitsAgree, Wrongly, Counters

(* The counters of the predictor, of the caches and of the pipeline, and   *)
(* the trace, which nothing but the order of their updates keeps together, *)
(* say the same of every run, of any length and with tables of any size.   *)
THEOREM ReportsTellOneStory == MachineSpec => []ReportsAgree
<1>1. /\ TypeOK /\ PlaceInv /\ InstsFromProgram /\ TraceInv /\ ReportInv /\ [MachineNext]_machineVars
        => ReportInv'
  BY ReportCommit, ReportIssue, ReportFetch, ReportRename, ReportComplete, ReportOthers
<1>2. MachineSpec => []TypeOK /\ []PlaceInv
  BY MachineIsAPipeline, TypeCorrect, PlaceInvariant, PTL DEF PipelineAllows
<1>3. DrivenInv => InstsFromProgram
  BY DEF DrivenInv
<1>4. MachineSpec => []ReportInv
  BY <1>1, <1>2, <1>3, ReportStarts, DrivenInvariant, TraceInvariant, PTL DEF MachineSpec
<1>5. ReportInv => ReportsAgree
  BY ReportsAgreeParts DEF ReportInv
<1> QED
  BY <1>4, <1>5, PTL

-----------------------------------------------------------------------------
(* The samples of the reorder buffer *)

SizesInv ==
  Cardinality(InFlight) <= RobEntries /\ Cardinality(iq) <= IssueQueueEntries

(* What is left of the trace was committed or flushed, at a known cycle.   *)
LeftInv ==
  /\ DOMAIN flushedAt \subseteq Seqs
  /\ \A s \in DOMAIN flushedAt : flushedAt[s] \in Nat
  /\ \A s \in Seqs : s \in InFlight <=> trace[s].commit = 0 /\ s \notin DOMAIN flushedAt

Sampled(o, most) ==
  /\ o.samples = cycles /\ o.total \in Nat
  /\ o.max \in Nat /\ o.max <= most

SamplesInv ==
  /\ Sampled(robOccupancy, RobEntries) /\ Sampled(rsOccupancy, IssueQueueEntries)
  /\ robOccupancy.total = SumFunction(Residence)

OccupancyInv == SizesInv /\ LeftInv /\ SamplesInv

LEMMA QueuesFinite ==
  ASSUME TypeOK
  PROVE  /\ IsFiniteSet(Seqs)
         /\ InFlight \in SUBSET Seqs /\ IsFiniteSet(InFlight) /\ Cardinality(InFlight) \in Nat
         /\ iq \in SUBSET Seqs /\ IsFiniteSet(iq) /\ Cardinality(iq) \in Nat
<1>1. IsFiniteSet(Seqs)
  BY FS_Interval DEF TypeOK, BackTypeOK, Seqs
<1>2. InFlight \in SUBSET Seqs /\ iq \in SUBSET Seqs
  BY DEF TypeOK, BackTypeOK, IsPartial, InFlight
<1> QED
  BY <1>1, <1>2, FS_Subset, FS_CardinalityType

(* Rename adds an entry where there is room, nothing else adds any.        *)
LEMMA SizesStep ==
  ASSUME TypeOK, SizesInv, [Next]_vars
  PROVE  SizesInv'
<1>1. /\ IsFiniteSet(InFlight) /\ Cardinality(InFlight) \in Nat
      /\ IsFiniteSet(iq) /\ Cardinality(iq) \in Nat
      /\ RobEntries \in Nat /\ IssueQueueEntries \in Nat
  BY QueuesFinite, RobAssumption, IssueAssumption
<1>2. CASE RenameInstruction
  <2>1. InFlight' = InFlight \cup {nextSeq} /\ iq' = iq \cup {nextSeq}
    BY <1>2, RenameAdds DEF RenameInstruction
  <2>2. Cardinality(InFlight) < RobEntries /\ Cardinality(iq) < IssueQueueEntries
    BY <1>1, <1>2 DEF RenameInstruction, CanRename, RobFull, IqFull
  <2>3. /\ Cardinality(InFlight \cup {nextSeq}) <= Cardinality(InFlight) + 1
        /\ Cardinality(InFlight \cup {nextSeq}) \in Nat
        /\ Cardinality(iq \cup {nextSeq}) <= Cardinality(iq) + 1
        /\ Cardinality(iq \cup {nextSeq}) \in Nat
    BY <1>1, OneMore
  <2>4. Cardinality(InFlight \cup {nextSeq}) <= RobEntries
    BY <1>1, <2>2, <2>3
  <2>5. Cardinality(iq \cup {nextSeq}) <= IssueQueueEntries
    BY <1>1, <2>2, <2>3
  <2> QED
    BY <2>1, <2>4, <2>5 DEF SizesInv
<1>3. CASE ~RenameInstruction
  <2>1. InFlight' \subseteq InFlight
    BY <1>3, StepsKeepEntries DEF SameEntries
  <2>2. iq' \subseteq iq
    BY <1>3 DEF Next, vars, CommitInstruction, CommitEcall, CommitFault, Tick, CompleteSkip,
                CompleteInstruction, CompleteRecovering, Select, IssueSkip, IssueMisaligned,
                IssueInstruction, IssueWith, IssueDone, RenameDone, FetchWait, Fetch, FetchWith,
                FetchDone, Ended, UpTo
  <2>3. Cardinality(InFlight') <= Cardinality(InFlight) /\ Cardinality(InFlight') \in Nat
    BY <1>1, <2>1, FS_Subset, FS_CardinalityType
  <2>4. Cardinality(iq') <= Cardinality(iq) /\ Cardinality(iq') \in Nat
    BY <1>1, <2>2, FS_Subset, FS_CardinalityType
  <2>5. Cardinality(InFlight') <= RobEntries
    BY <1>1, <2>3 DEF SizesInv
  <2>6. Cardinality(iq') <= IssueQueueEntries
    BY <1>1, <2>4 DEF SizesInv
  <2> QED
    BY <2>5, <2>6 DEF SizesInv
<1> QED
  BY <1>2, <1>3

(* The cycles that an instruction has spent in the buffer. *)
LEMMA ResidenceIs ==
  ASSUME TypeOK, TraceInv, LeftInv
  PROVE  /\ DOMAIN Residence = Seqs
         /\ \A s \in Seqs :
              /\ Residence[s] \in Int
              /\ s \in InFlight => Residence[s] = cycles - trace[s].rename
              /\ trace[s].commit # 0 => Residence[s] = trace[s].commit - trace[s].rename
              /\ trace[s].commit = 0 /\ s \in DOMAIN flushedAt
                   => Residence[s] = flushedAt[s] - trace[s].rename
<1>1. DOMAIN trace = Seqs /\ cycles \in Nat
  BY DEF TraceInv
<1>2. ASSUME NEW s \in Seqs
      PROVE  /\ Residence[s] = LeftAt(s) - trace[s].rename
             /\ trace[s].commit \in Nat /\ trace[s].rename \in Nat
             /\ s \in Committed <=> trace[s].commit # 0
             /\ s \in DOMAIN flushedAt => flushedAt[s] \in Nat
             /\ s \in InFlight <=> trace[s].commit = 0 /\ s \notin DOMAIN flushedAt
  <2>1. trace[s] \in TraceEntry
    BY DEF TraceInv
  <2> QED
    BY <1>1, <2>1 DEF Residence, TraceEntry, Committed, LeftInv
<1>3. ASSUME NEW s \in Seqs
      PROVE  /\ Residence[s] \in Int
             /\ s \in InFlight => Residence[s] = cycles - trace[s].rename
             /\ trace[s].commit # 0 => Residence[s] = trace[s].commit - trace[s].rename
             /\ trace[s].commit = 0 /\ s \in DOMAIN flushedAt
                  => Residence[s] = flushedAt[s] - trace[s].rename
  <2>1. CASE s \in Committed
    BY <1>1, <1>2, <2>1 DEF LeftAt
  <2>2. CASE s \notin Committed
    BY <1>1, <1>2, <2>2 DEF LeftAt
  <2> QED
    BY <2>1, <2>2
<1>4. DOMAIN Residence = Seqs
  BY <1>1 DEF Residence
<1> QED
  BY <1>3, <1>4

(* The same of the state after a step. *)
LEMMA ResidenceNext ==
  ASSUME TypeOK', TraceInv', LeftInv'
  PROVE  /\ DOMAIN Residence' = Seqs'
         /\ \A s \in Seqs' :
              /\ Residence'[s] \in Int
              /\ s \in InFlight' => Residence'[s] = cycles' - trace'[s].rename
              /\ trace'[s].commit # 0 => Residence'[s] = trace'[s].commit - trace'[s].rename
              /\ trace'[s].commit = 0 /\ s \in DOMAIN flushedAt'
                   => Residence'[s] = flushedAt'[s] - trace'[s].rename
<1>1. DOMAIN trace' = Seqs' /\ cycles' \in Nat
  BY DEF TraceInv
<1>2. ASSUME NEW s \in Seqs'
      PROVE  /\ Residence'[s] = LeftAt(s)' - trace'[s].rename
             /\ trace'[s].commit \in Nat /\ trace'[s].rename \in Nat
             /\ (s \in Committed') <=> trace'[s].commit # 0
             /\ s \in DOMAIN flushedAt' => flushedAt'[s] \in Nat
             /\ s \in InFlight' <=> trace'[s].commit = 0 /\ s \notin DOMAIN flushedAt'
  <2>1. trace'[s] \in TraceEntry
    BY DEF TraceInv
  <2> QED
    BY <1>1, <2>1 DEF Residence, TraceEntry, Committed, LeftInv
<1>3. ASSUME NEW s \in Seqs'
      PROVE  /\ Residence'[s] \in Int
             /\ s \in InFlight' => Residence'[s] = cycles' - trace'[s].rename
             /\ trace'[s].commit # 0 => Residence'[s] = trace'[s].commit - trace'[s].rename
             /\ trace'[s].commit = 0 /\ s \in DOMAIN flushedAt'
                  => Residence'[s] = flushedAt'[s] - trace'[s].rename
  <2>1. CASE s \in Committed'
    BY <1>1, <1>2, <2>1 DEF LeftAt
  <2>2. CASE s \notin Committed'
    BY <1>1, <1>2, <2>2 DEF LeftAt
  <2> QED
    BY <2>1, <2>2
<1>4. DOMAIN Residence' = Seqs'
  BY <1>1 DEF Residence
<1> QED
  BY <1>3, <1>4

LEMMA SeqsStay ==
  ASSUME UNCHANGED nextSeq
  PROVE  Seqs' = Seqs
BY DEF Seqs

(* Instructions leave the buffer when they get one of the two cycles.      *)
LEMMA FlushedAre ==
  ASSUME TypeOK, PlaceInv, TraceInv, LeftInv, MachineComplete
  PROVE  \E h \in InFlight, lost \in SUBSET InFlight :
           /\ h \notin lost /\ InFlight' = InFlight \ lost
           /\ UNCHANGED <<nextSeq, cycleVars>>
           /\ DOMAIN flushedAt' = DOMAIN flushedAt \cup lost
           /\ \A t \in DOMAIN flushedAt' :
                flushedAt'[t] = IF t \in lost THEN cycles ELSE flushedAt[t]
           /\ DOMAIN trace' = DOMAIN trace
           /\ \A t \in Seqs : /\ trace'[t].commit = trace[t].commit
                              /\ trace'[t].rename = trace[t].rename
<1>1. PICK h \in InFlight :
        LET lost == IF recovers(rob[h]) THEN {t \in InFlight : t > h} ELSE {} IN
        /\ Finishes(h)
        /\ trace' = [trace EXCEPT ![h] = [trace[h] EXCEPT !.complete = cycles,
                                            !.mispredicted = mispredicted(rob[h])]]
        /\ flushedAt' = [t \in DOMAIN flushedAt \cup lost |->
                           IF t \in lost THEN cycles ELSE flushedAt[t]]
  BY CompletionMade DEF Stamp
<1> DEFINE lost == IF recovers(rob[h]) THEN {t \in InFlight : t > h} ELSE {}
<1>2. lost \in SUBSET InFlight /\ h \notin lost /\ \A t \in InFlight : t \in Nat
  BY SeqsBelow
<1>3. InFlight' = InFlight \ lost
  <2>1. \A t \in work : IsNext(t) => t = h
    BY <1>1, SeqsBelow DEF Finishes, IsNext
  <2>2. CASE recovers(rob[h])
    <3>1. rob' = Only(Put(rob, h, Executed(rob[h])), UpTo(InFlight, h))
      BY <1>1, <2>1, <2>2 DEF Finishes, CompleteInstruction, CompleteRecovering, Completes
    <3>2. h \in UpTo(InFlight, h)
      BY <1>2 DEF UpTo
    <3>3. InFlight' = InFlight \cap UpTo(InFlight, h)
      BY <3>1, <3>2, ReplacedAndDropped
    <3>4. \A t \in InFlight : t \in UpTo(InFlight, h) <=> t \notin lost
      BY <1>2, <2>2 DEF UpTo
    <3> QED
      BY <3>3, <3>4 DEF UpTo
  <2>3. CASE ~recovers(rob[h])
    <3>1. rob' = Put(rob, h, Executed(rob[h]))
      BY <1>1, <2>1, <2>3 DEF Finishes, CompleteInstruction, CompleteRecovering, Completes
    <3>2. InFlight' = InFlight
      BY <3>1, Replaced
    <3> QED
      BY <2>3, <3>2
  <2> QED
    BY <2>2, <2>3
<1>4. UNCHANGED <<nextSeq, cycleVars>>
  BY DEF MachineComplete, CompleteInstruction, CompleteRecovering
<1> HIDE DEF lost
<1>5. flushedAt' = [t \in DOMAIN flushedAt \cup lost |->
                      IF t \in lost THEN cycles ELSE flushedAt[t]]
  BY <1>1 DEF lost
<1>6. /\ DOMAIN trace' = DOMAIN trace
      /\ \A t \in Seqs : /\ trace'[t].commit = trace[t].commit
                         /\ trace'[t].rename = trace[t].rename
  <2> DEFINE wrong == mispredicted(rob[h])
             e == [trace[h] EXCEPT !.complete = cycles, !.mispredicted = wrong]
  <2> HIDE DEF wrong
  <2>1. trace[h] \in TraceEntry /\ DOMAIN trace = Seqs
    BY TracedFlight DEF TraceInv
  <2>2. e.commit = trace[h].commit /\ e.rename = trace[h].rename
    BY <2>1 DEF TraceEntry
  <2>3. trace' = [trace EXCEPT ![h] = e]
    BY <1>1 DEF wrong
  <2> HIDE DEF e
  <2> QED
    BY <2>1, <2>2, <2>3
<1> QED
  BY <1>2, <1>3, <1>4, <1>5, <1>6

(* An issue changes neither. *)
LEMMA IssueLeaves ==
  ASSUME TypeOK, TraceInv, MachineIssue
  PROVE  /\ InFlight' = InFlight /\ UNCHANGED <<nextSeq, flushedAt, cycleVars>>
         /\ DOMAIN trace' = DOMAIN trace
         /\ \A t \in Seqs : /\ trace'[t].commit = trace[t].commit
                            /\ trace'[t].rename = trace[t].rename
<1>1. PICK h \in InFlight :
        /\ rob' = Put(rob, h, Issued(rob[h]))
        /\ trace' = [trace EXCEPT ![h] = [trace[h] EXCEPT !.issue = cycles,
                                            !.cached = rob[h].inst.op \in MemoryOps]]
  BY DEF MachineIssue, IssueWith, Issues, Stamp
<1>2. InFlight' = InFlight
  BY <1>1, Replaced
<1>3. UNCHANGED <<nextSeq, flushedAt, cycleVars>>
  BY DEF MachineIssue, IssueWith
<1> DEFINE isMemory == rob[h].inst.op \in MemoryOps
           e == [trace[h] EXCEPT !.issue = cycles, !.cached = isMemory]
<1> HIDE DEF isMemory
<1>4. trace[h] \in TraceEntry /\ DOMAIN trace = Seqs
  BY TracedFlight DEF TraceInv
<1>5. e.commit = trace[h].commit /\ e.rename = trace[h].rename
  BY <1>4 DEF TraceEntry
<1>6. trace' = [trace EXCEPT ![h] = e]
  BY <1>1 DEF isMemory
<1> HIDE DEF e
<1> QED
  BY <1>2, <1>3, <1>4, <1>5, <1>6

LEMMA CommitLeaves ==
  ASSUME TypeOK, TraceInv, MachineCommit
  PROVE  \E h \in InFlight :
           /\ InFlight' = InFlight \ {h} /\ UNCHANGED <<nextSeq, flushedAt, cycleVars>>
           /\ DOMAIN trace' = DOMAIN trace
           /\ \A t \in Seqs : /\ trace'[t].commit = IF t = h THEN cycles ELSE trace[t].commit
                              /\ trace'[t].rename = trace[t].rename
<1>1. PICK h \in InFlight :
        /\ rob' = Only(rob, InFlight \ {h})
        /\ trace' = [trace EXCEPT ![h] = [trace[h] EXCEPT !.commit = cycles]]
  BY CommitMade
<1>2. InFlight' = InFlight \ {h}
  BY <1>1 DEF Only, InFlight
<1>3. UNCHANGED <<nextSeq, flushedAt, cycleVars>>
  BY DEF MachineCommit, CommitInstruction, CommitEcall
<1> DEFINE e == [trace[h] EXCEPT !.commit = cycles]
<1>4. trace[h] \in TraceEntry /\ DOMAIN trace = Seqs
  BY TracedFlight DEF TraceInv
<1>5. e.commit = cycles /\ e.rename = trace[h].rename
  BY <1>4 DEF TraceEntry
<1>6. trace' = [trace EXCEPT ![h] = e]
  BY <1>1
<1> HIDE DEF e
<1> QED
  BY <1>2, <1>3, <1>4, <1>5, <1>6

(* All others leave the trace and the buffer as they are. *)
LEMMA OthersLeave ==
  ASSUME [MachineNext]_machineVars,
         ~MachineCommit, ~MachineComplete, ~MachineIssue, ~MachineRename
  PROVE  /\ UNCHANGED <<trace, nextSeq, flushedAt>> /\ InFlight' = InFlight
         /\ UNCHANGED cycleVars \/ BeginCycle
<1>1. UNCHANGED <<trace, nextSeq, flushedAt>>
  BY DEF MachineNext, MachineStep, MachineTick, MachineIssueSkip, MachineRenameDone,
         MachineFetchWait, MachineFetch, MachineFetchDone, Tick, IssueSkip, RenameDone,
         FetchWait, FetchWith, FetchDone, CommitFault, CompleteSkip, Select, IssueMisaligned,
         IssueDone, Ended, Quiet, TimedOut, machineVars, vars, robVars, reportVars
<1>2. UNCHANGED cycleVars \/ BeginCycle
  BY DEF MachineNext, MachineStep, MachineTick, MachineIssueSkip, MachineRenameDone,
         MachineFetchWait, MachineFetch, MachineFetchDone, Quiet, TimedOut, machineVars
<1>3. CASE IssueMisaligned
  <2>1. PICK s \in InFlight : rob' = Put(rob, s, Faulted(rob[s]))
    BY <1>3 DEF IssueMisaligned, Issues
  <2> QED
    BY <1>1, <1>2, <2>1, Replaced
<1>4. CASE ~IssueMisaligned
  <2>1. rob' = rob
    BY <1>4 DEF MachineNext, MachineStep, MachineTick, MachineIssueSkip, MachineRenameDone,
         MachineFetchWait, MachineFetch, MachineFetchDone, Tick, IssueSkip, RenameDone,
         FetchWait, FetchWith, FetchDone, CommitFault, CompleteSkip, Select,
         IssueDone, Ended, Quiet, TimedOut, machineVars, vars, robVars
  <2> QED
    BY <1>1, <1>2, <2>1 DEF InFlight
<1> QED
  BY <1>3, <1>4

LEMMA RenameJoins ==
  ASSUME TypeOK, TraceInv, LeftInv, MachineRename
  PROVE  /\ InFlight' = InFlight \cup {nextSeq} /\ Seqs' = Seqs \cup {nextSeq}
         /\ nextSeq \notin Seqs /\ UNCHANGED <<flushedAt, cycleVars>>
         /\ DOMAIN trace' = Seqs'
         /\ trace'[nextSeq].commit = 0 /\ trace'[nextSeq].rename = cycles
         /\ \A t \in Seqs : trace'[t] = trace[t]
<1> DEFINE e == [fetch |-> Head(fetchCycles), rename |-> cycles, issue |-> 0, complete |-> 0,
                 commit |-> 0, mispredicted |-> FALSE, cached |-> FALSE,
                 branch |-> TrainsPredictor([inst |-> Head(fetchQueue)])]
<1>1. trace' = Put(trace, nextSeq, e) /\ UNCHANGED <<flushedAt, cycleVars>>
  BY DEF MachineRename
<1>2. e.commit = 0 /\ e.rename = cycles
  OBVIOUS
<1> HIDE DEF e
<1>3. nextSeq' = nextSeq + 1 /\ nextSeq \in Nat \ {0} /\ DOMAIN trace = Seqs
  BY DEF MachineRename, RenameInstruction, RobAllocate, TypeOK, BackTypeOK, TraceInv
<1>4. Seqs' = Seqs \cup {nextSeq} /\ nextSeq \notin Seqs
  BY <1>3 DEF Seqs
<1>5. InFlight' = InFlight \cup {nextSeq}
  BY RenameAdds DEF MachineRename
<1>6. /\ DOMAIN trace' = DOMAIN trace \cup {nextSeq} /\ trace'[nextSeq] = e
      /\ \A t \in DOMAIN trace : t # nextSeq => trace'[t] = trace[t]
  BY <1>1, PutFacts
<1>7. DOMAIN trace' = Seqs' /\ \A t \in Seqs : trace'[t] = trace[t]
  BY <1>3, <1>4, <1>6
<1> QED
  BY <1>1, <1>2, <1>4, <1>5, <1>6, <1>7

LEMMA LeftStep ==
  ASSUME TypeOK, PlaceInv, TraceInv, LeftInv, [MachineNext]_machineVars
  PROVE  LeftInv'
<1>1. /\ cycles \in Nat \ {0} /\ InFlight \in SUBSET Seqs
      /\ DOMAIN flushedAt \subseteq Seqs
      /\ \A s \in DOMAIN flushedAt : flushedAt[s] \in Nat
      /\ \A s \in Seqs : s \in InFlight <=> trace[s].commit = 0 /\ s \notin DOMAIN flushedAt
  BY QueuesFinite DEF TraceInv, LeftInv
<1>2. CASE MachineCommit
  <2>1. PICK h \in InFlight :
           /\ InFlight' = InFlight \ {h} /\ UNCHANGED <<nextSeq, flushedAt, cycleVars>>
           /\ \A t \in Seqs : trace'[t].commit = IF t = h THEN cycles ELSE trace[t].commit
    BY <1>2, CommitLeaves
  <2> QED
    BY <1>1, <2>1, SeqsStay DEF LeftInv
<1>3. CASE MachineComplete
  <2>1. PICK h \in InFlight, lost \in SUBSET InFlight :
           /\ h \notin lost /\ InFlight' = InFlight \ lost
           /\ UNCHANGED <<nextSeq, cycleVars>>
           /\ DOMAIN flushedAt' = DOMAIN flushedAt \cup lost
           /\ \A t \in DOMAIN flushedAt' :
                flushedAt'[t] = IF t \in lost THEN cycles ELSE flushedAt[t]
           /\ \A t \in Seqs : trace'[t].commit = trace[t].commit
    BY <1>3, FlushedAre
  <2> QED
    BY <1>1, <2>1, SeqsStay DEF LeftInv
<1>4. CASE MachineIssue
  BY <1>1, <1>4, IssueLeaves, SeqsStay DEF LeftInv
<1>5. CASE MachineRename
  BY <1>1, <1>5, RenameJoins DEF LeftInv
<1>6. CASE ~MachineCommit /\ ~MachineComplete /\ ~MachineIssue /\ ~MachineRename
  BY <1>1, <1>6, OthersLeave, SeqsStay DEF LeftInv
<1> QED
  BY <1>2, <1>3, <1>4, <1>5, <1>6

(* Within a cycle no instruction grows older. *)
LEMMA SamplesStay ==
  ASSUME TypeOK, SamplesInv, UNCHANGED <<cycles, robOccupancy, rsOccupancy>>,
         DOMAIN Residence = Seqs, DOMAIN Residence' = Seqs, \A s \in Seqs : Residence[s] \in Int,
         \A s \in Seqs : Residence'[s] = Residence[s]
  PROVE  SamplesInv'
<1>1. IsFiniteSet(Seqs)
  BY QueuesFinite
<1>2. SumFunctionOnSet(Residence', Seqs) = SumFunctionOnSet(Residence, Seqs)
  BY <1>1, SumSame
<1>3. SumFunction(Residence') = SumFunction(Residence)
  BY <1>2 DEF SumFunction
<1> QED
  BY <1>3 DEF SamplesInv, Sampled

(* Its sample is what a cycle adds to the time that the entries in the     *)
(* buffer have been there.                                                 *)
LEMMA CycleSampled ==
  ASSUME TypeOK, SizesInv, SamplesInv, cycles \in Nat, CountAndSample,
         DOMAIN Residence = Seqs, DOMAIN Residence' = Seqs, \A s \in Seqs : Residence[s] \in Int,
         \A s \in Seqs : Residence'[s] = IF s \in InFlight THEN Residence[s] + 1
                                                           ELSE Residence[s]
  PROVE  SamplesInv'
<1>1. /\ IsFiniteSet(Seqs) /\ InFlight \in SUBSET Seqs
      /\ Cardinality(InFlight) \in Nat /\ Cardinality(iq) \in Nat
  BY QueuesFinite
<1>2. SumFunctionOnSet(Residence', Seqs) = SumFunctionOnSet(Residence, Seqs) + Cardinality(InFlight)
  BY <1>1, SumRaised
<1>3. SumFunction(Residence') = SumFunction(Residence) + Cardinality(InFlight)
  BY <1>2 DEF SumFunction
<1>4. /\ cycles' = cycles + 1
      /\ robOccupancy' = sample(robOccupancy, Cardinality(InFlight))
      /\ rsOccupancy' = sample(rsOccupancy, Cardinality(iq))
  BY DEF CountAndSample
<1>5. ASSUME NEW o, NEW most \in Nat, Sampled(o, most), NEW n \in Nat, n <= most
      PROVE  LET p == sample(o, n) IN
             /\ p.samples = cycles' /\ p.total = o.total + n /\ p.total \in Nat
             /\ p.max \in Nat /\ p.max <= most
  BY <1>4, <1>5 DEF sample, Sampled
<1>6. Sampled(robOccupancy, RobEntries)' /\ robOccupancy'.total = robOccupancy.total + Cardinality(InFlight)
  BY <1>1, <1>4, <1>5, RobAssumption DEF SamplesInv, SizesInv, Sampled
<1>7. Sampled(rsOccupancy, IssueQueueEntries)'
  BY <1>1, <1>4, <1>5, IssueAssumption DEF SamplesInv, SizesInv, Sampled
<1> QED
  BY <1>3, <1>6, <1>7 DEF SamplesInv

LEMMA SamplesStep ==
  ASSUME TypeOK, TypeOK', PlaceInv, TraceInv, TraceInv', OccupancyInv, LeftInv',
         [MachineNext]_machineVars
  PROVE  SamplesInv'
<1>1. /\ cycles \in Nat \ {0} /\ InFlight \in SUBSET Seqs
      /\ SizesInv /\ LeftInv /\ SamplesInv
      /\ DOMAIN flushedAt \subseteq Seqs
      /\ \A s \in Seqs : s \in InFlight <=> trace[s].commit = 0 /\ s \notin DOMAIN flushedAt
  BY QueuesFinite DEF TraceInv, OccupancyInv, LeftInv
<1>2. /\ DOMAIN Residence = Seqs
      /\ \A s \in Seqs :
           /\ Residence[s] \in Int
           /\ s \in InFlight => Residence[s] = cycles - trace[s].rename
           /\ trace[s].commit # 0 => Residence[s] = trace[s].commit - trace[s].rename
           /\ trace[s].commit = 0 /\ s \in DOMAIN flushedAt
                => Residence[s] = flushedAt[s] - trace[s].rename
  BY <1>1, ResidenceIs
<1>3. /\ DOMAIN Residence' = Seqs'
      /\ \A s \in Seqs' :
           /\ Residence'[s] \in Int
           /\ s \in InFlight' => Residence'[s] = cycles' - trace'[s].rename
           /\ trace'[s].commit # 0 => Residence'[s] = trace'[s].commit - trace'[s].rename
           /\ trace'[s].commit = 0 /\ s \in DOMAIN flushedAt'
                => Residence'[s] = flushedAt'[s] - trace'[s].rename
  BY ResidenceNext
<1>4. CASE MachineCommit
  <2>1. PICK h \in InFlight :
           /\ InFlight' = InFlight \ {h} /\ UNCHANGED <<nextSeq, flushedAt, cycleVars>>
           /\ \A t \in Seqs : /\ trace'[t].commit = IF t = h THEN cycles ELSE trace[t].commit
                              /\ trace'[t].rename = trace[t].rename
    BY <1>4, CommitLeaves
  <2>2. UNCHANGED <<cycles, robOccupancy, rsOccupancy>> /\ Seqs' = Seqs
    BY <2>1, SeqsStay DEF cycleVars
  <2>3. \A s \in Seqs : Residence'[s] = Residence[s]
    BY <1>1, <1>2, <1>3, <2>1, <2>2
  <2> QED
    BY <1>1, <1>2, <1>3, <2>1, <2>2, <2>3, SamplesStay
<1>5. CASE MachineComplete
  <2>1. PICK h \in InFlight, lost \in SUBSET InFlight :
           /\ h \notin lost /\ InFlight' = InFlight \ lost
           /\ UNCHANGED <<nextSeq, cycleVars>>
           /\ DOMAIN flushedAt' = DOMAIN flushedAt \cup lost
           /\ \A t \in DOMAIN flushedAt' :
                flushedAt'[t] = IF t \in lost THEN cycles ELSE flushedAt[t]
           /\ \A t \in Seqs : /\ trace'[t].commit = trace[t].commit
                              /\ trace'[t].rename = trace[t].rename
    BY <1>1, <1>5, FlushedAre
  <2>2. UNCHANGED <<cycles, robOccupancy, rsOccupancy>> /\ Seqs' = Seqs
    BY <2>1, SeqsStay DEF cycleVars
  <2>3. \A s \in Seqs : Residence'[s] = Residence[s]
    BY <1>1, <1>2, <1>3, <2>1, <2>2
  <2> QED
    BY <1>1, <1>2, <1>3, <2>1, <2>2, <2>3, SamplesStay
<1>6. CASE MachineIssue
  <2>1. /\ InFlight' = InFlight /\ UNCHANGED <<nextSeq, flushedAt, cycleVars>>
        /\ \A t \in Seqs : /\ trace'[t].commit = trace[t].commit
                           /\ trace'[t].rename = trace[t].rename
    BY <1>6, IssueLeaves
  <2>2. UNCHANGED <<cycles, robOccupancy, rsOccupancy>> /\ Seqs' = Seqs
    BY <2>1, SeqsStay DEF cycleVars
  <2>3. \A s \in Seqs : Residence'[s] = Residence[s]
    BY <1>1, <1>2, <1>3, <2>1, <2>2
  <2> QED
    BY <1>1, <1>2, <1>3, <2>1, <2>2, <2>3, SamplesStay
<1>7. CASE MachineRename
  <2>1. /\ InFlight' = InFlight \cup {nextSeq} /\ Seqs' = Seqs \cup {nextSeq}
        /\ nextSeq \notin Seqs /\ UNCHANGED <<flushedAt, cycleVars>>
        /\ trace'[nextSeq].commit = 0 /\ trace'[nextSeq].rename = cycles
        /\ \A t \in Seqs : trace'[t] = trace[t]
    BY <1>1, <1>7, RenameJoins
  <2>2. UNCHANGED <<cycles, robOccupancy, rsOccupancy>>
    BY <2>1 DEF cycleVars
  <2>3. \A s \in Seqs : Residence'[s] = Residence[s]
    BY <1>1, <1>2, <1>3, <2>1, <2>2
  <2>4. Residence'[nextSeq] = 0
    BY <1>1, <1>3, <2>1, <2>2
  <2>5. IsFiniteSet(Seqs)
    BY QueuesFinite
  <2>6. SumFunctionOnSet(Residence', Seqs) = SumFunctionOnSet(Residence, Seqs)
    BY <1>2, <2>3, <2>5, SumSame
  <2>7. /\ SumFunctionOnSet(Residence', Seqs \cup {nextSeq})
             = Residence'[nextSeq] + SumFunctionOnSet(Residence', Seqs)
        /\ SumFunctionOnSet(Residence', Seqs) \in Int
    BY <1>3, <2>1, <2>5, SumMore
  <2>8. SumFunctionOnSet(Residence', Seqs') = SumFunctionOnSet(Residence, Seqs)
    BY <2>1, <2>4, <2>6, <2>7
  <2>9. SumFunction(Residence') = SumFunction(Residence)
    BY <1>2, <1>3, <2>8 DEF SumFunction
  <2> QED
    BY <1>1, <2>2, <2>9 DEF SamplesInv, Sampled
<1>8. CASE ~MachineCommit /\ ~MachineComplete /\ ~MachineIssue /\ ~MachineRename
  <2>1. UNCHANGED <<trace, nextSeq, flushedAt>> /\ InFlight' = InFlight /\ Seqs' = Seqs
    BY <1>8, OthersLeave, SeqsStay
  <2>2. CASE CountAndSample
    <3>1. cycles' = cycles + 1
      BY <2>2 DEF CountAndSample
    <3>2. \A s \in Seqs : trace[s].rename \in Nat
      BY DEF TraceInv, TraceEntry
    <3>3. \A s \in Seqs : Residence'[s] = IF s \in InFlight THEN Residence[s] + 1
                                                            ELSE Residence[s]
      BY <1>1, <1>2, <1>3, <2>1, <3>1, <3>2
    <3> QED
      BY <1>1, <1>2, <1>3, <2>1, <2>2, <3>3, CycleSampled
  <2>3. CASE UNCHANGED <<cycles, robOccupancy, rsOccupancy>>
    <3>1. \A s \in Seqs : Residence'[s] = Residence[s]
      BY <1>1, <1>2, <1>3, <2>1, <2>3
    <3> QED
      BY <1>1, <1>2, <1>3, <2>1, <2>3, <3>1, SamplesStay
  <2>4. CountAndSample \/ UNCHANGED <<cycles, robOccupancy, rsOccupancy>>
    BY <1>8, OthersLeave DEF BeginCycle, cycleVars
  <2> QED
    BY <2>2, <2>3, <2>4
<1> QED
  BY <1>4, <1>5, <1>6, <1>7, <1>8

LEMMA OccupancyStarts == MachineInit => OccupancyInv
<1> SUFFICES ASSUME MachineInit PROVE OccupancyInv
  OBVIOUS
<1>1. InFlight = {} /\ iq = {} /\ DOMAIN trace = {} /\ DOMAIN flushedAt = {} /\ nextSeq = 1
  BY NoEntriesPartial DEF MachineInit, Init, RobInit, IqInit, InFlight
<1>2. Seqs = {} /\ RobEntries \in Nat /\ IssueQueueEntries \in Nat
  BY <1>1, RobAssumption, IssueAssumption DEF Seqs
<1>3. SizesInv
  BY <1>1, <1>2, FS_EmptySet DEF SizesInv
<1>4. LeftInv
  BY <1>1, <1>2 DEF LeftInv
<1>5. SumFunction(Residence) = 0
  <2>1. DOMAIN Residence = {}
    BY <1>1 DEF Residence
  <2> QED
    BY <2>1, SumOfNone DEF SumFunction
<1>6. SamplesInv
  BY <1>2, <1>5 DEF SamplesInv, Sampled, MachineInit, sample, NoSamples
<1> QED
  BY <1>3, <1>4, <1>6 DEF OccupancyInv

(* The mean occupancy of the buffer is the mean time its instructions      *)
(* spend there, for all of them, committed, flushed or caught by the limit *)
(* on cycles.                                                              *)
THEOREM OccupancyIsResidence == MachineSpec => []OccupancyAddsUp
<1>1. TypeOK /\ PlaceInv /\ OccupancyInv /\ TraceInv /\ [MachineNext]_machineVars /\ [Next]_vars
        /\ TypeOK' /\ TraceInv'
        => OccupancyInv'
  BY SizesStep, LeftStep, SamplesStep DEF OccupancyInv
<1>2. MachineSpec => []TypeOK /\ []PlaceInv /\ [][Next]_vars
  BY MachineIsAPipeline, TypeCorrect, PlaceInvariant, PTL DEF PipelineAllows, Pipeline
<1>3. MachineSpec => []OccupancyInv
  BY <1>1, <1>2, OccupancyStarts, TraceInvariant, PTL DEF MachineSpec
<1>4. OccupancyInv => OccupancyAddsUp
  BY DEF OccupancyInv, SamplesInv, Sampled, OccupancyAddsUp
<1> QED
  BY <1>3, <1>4, PTL
=============================================================================
