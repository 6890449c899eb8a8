------------------------- MODULE MachineProperties -------------------------
(***************************************************************************)
(* What holds of the pipeline once it is driven by its own predictor and   *)
(* caches, and of the report it leaves.                                    *)
(***************************************************************************)
EXTENDS Machine, SimulatorProperties

Committed == {s \in DOMAIN trace : trace[s].commit # 0}

(* The machine is one of the pipelines that module Simulator allows: the   *)
(* predictor never gives a target the branch did not have, the caches no   *)
(* latency out of their set, and counting changes nothing.                 *)
PipelineAllows == Pipeline

(* An instruction passes the stages in order and is in one of them at a    *)
(* time, at least a cycle each; commits are in program order; and fetch,   *)
(* rename, issue and commit handle no more than their width in a cycle.    *)
StampsOrdered(t) ==
  /\ t.fetch < t.rename
  /\ t.issue # 0 => t.rename < t.issue
  /\ t.complete # 0 => t.issue # 0 /\ t.issue < t.complete
  /\ t.commit # 0 => t.complete # 0 /\ t.complete < t.commit

TraceOrdered ==
  /\ \A s \in DOMAIN trace : StampsOrdered(trace[s])
  /\ \A s, t \in Committed : s < t => trace[s].commit <= trace[t].commit
  /\ \A s \in DOMAIN trace :
       /\ Cardinality({t \in DOMAIN trace : trace[t].fetch = trace[s].fetch}) <= FetchWidth
       /\ Cardinality({t \in DOMAIN trace : trace[t].rename = trace[s].rename}) <= RenameWidth
       /\ s \in Committed =>
            Cardinality({t \in Committed : trace[t].commit = trace[s].commit}) <= CommitWidth
       /\ trace[s].issue # 0 =>
            Cardinality({t \in DOMAIN trace : trace[t].issue = trace[s].issue}) <= IssueWidth

(* Counters kept in different classes tell one story: the predictor and    *)
(* the pipeline count the same mispredictions, each of which is recovered  *)
(* from once; every fetch is one access of L1I, every issue of a load or   *)
(* store one of L1D; the branches called retired are those that executed,  *)
(* flushed or not; and the trace has what was counted.                     *)
ReportsAgree ==
  /\ bpStats.predictions = stats.retiredBranches
  /\ stats.retiredBranches
       = Cardinality({s \in DOMAIN trace : trace[s].branch /\ trace[s].complete # 0})
  /\ stats.branchMispredictions
       = bpStats.directionMispredictions + bpStats.targetMispredictions
  /\ stats.branchMispredictions = stats.branch_recoveries
  /\ stats.branchMispredictions
       = Cardinality({s \in DOMAIN trace : trace[s].mispredicted})
  /\ stats.fetched = l1i.stats.accesses
  /\ l1d.stats.accesses = Cardinality({s \in DOMAIN trace : trace[s].cached})
  /\ stats.committed = Cardinality(Committed)

(* The samples of the reorder buffer add up to the cycles its instructions *)
(* spent in it, whether they left by commit or by recovery or are still    *)
(* there; every cycle was sampled.                                         *)
LeftAt(s) == IF s \in Committed THEN trace[s].commit
             ELSE IF s \in DOMAIN flushedAt THEN flushedAt[s] ELSE cycles

Residence == [s \in DOMAIN trace |-> LeftAt(s) - trace[s].rename]

OccupancyAddsUp ==
  stage # "error" =>
    /\ robOccupancy.samples = cycles /\ rsOccupancy.samples = cycles
    /\ robOccupancy.total = SumFunction(Residence)
    /\ robOccupancy.max <= RobEntries /\ rsOccupancy.max <= IssueQueueEntries

(* Every run ends: with an exit, a fault, or the limit on cycles, which no *)
(* wrong path, stall or lost register can hold up.                         *)
RunEnds == <>(stage \in {"done", "error"} \/ expired)
=============================================================================
