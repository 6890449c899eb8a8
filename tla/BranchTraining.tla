--------------------------- MODULE BranchTraining ---------------------------
(***************************************************************************)
(* The branch predictor in the hands of a pipeline that is left open: any  *)
(* branch is predicted at any time, predictions wait in program order,     *)
(* resolve out of order, and are squashed from the young end; outcomes are *)
(* arbitrary.  lastTarget, lastTwo, lastTaken and wrongPaths are history   *)
(* variables.                                                              *)
(***************************************************************************)
EXTENDS BranchPredictor, BranchOracle, LruSets, SequencesExt

CONSTANTS
  Pcs,              \* where branches are
  Targets,          \* where each of them goes when taken; several for JALR
  MaxAsked,         \* bound: predictions waiting for their outcome
  MaxLookups,       \* bound: predictions made
  MaxUpdates        \* bound: outcomes trained

ASSUME TrainingAssumption ==
  /\ Pcs \subseteq {p \in Word : p % 4 = 0} /\ Targets \in [Pcs -> SUBSET Word]
  /\ MaxAsked \in Nat /\ MaxLookups \in Nat /\ MaxUpdates \in Nat

VARIABLES
  asked,      \* predictions waiting for their outcome, oldest first
  lastTwo,    \* per counter, the last two outcomes it was trained with
  lastTaken,  \* of each branch taken, the outcome that was its last
  wrongPaths  \* outcomes known when fetch had gone on somewhere else

historyVars == <<lastTarget, lastTwo, lastTaken, wrongPaths>>
vars == <<predictorVars, asked, historyVars>>

Init ==
  /\ PredictorInit /\ OracleInit
  /\ asked = << >> /\ lastTaken = NoEntries /\ wrongPaths = 0
  /\ lastTwo = [k \in Indices |-> << >>]

(* What InstructionFetch::tick keeps of a prediction. *)
AsFetched(pc) ==
  LET p == predict(pc)
  IN  [taken |-> p.taken, target |-> IF p.taken THEN p.target ELSE WordAdd(pc, 4)]

Lookups == bpStats.btbHits + bpStats.btbMisses

Ask(pc) ==
  /\ Len(asked) < MaxAsked /\ Lookups < MaxLookups
  /\ asked' = Append(asked, [pc |-> pc, prediction |-> AsFetched(pc)])
  /\ CountLookup(pc)
  /\ UNCHANGED <<bpConfig, counters, globalHistory, btb, btbClock, historyVars>>

(* Simulator::executeInstruction on the k-th waiting branch. *)
Resolve(k, taken, target) ==
  LET b == asked[k]
      next == IF taken THEN target ELSE WordAdd(b.pc, 4)
  IN
  /\ bpStats.predictions < MaxUpdates
  /\ train(b.pc, b.prediction, taken, next)
  /\ update(b.pc, taken, target)
  /\ lastTaken' = IF taken THEN Put(lastTaken, b.pc, bpStats.predictions + 1) ELSE lastTaken
  /\ lastTwo' = [lastTwo EXCEPT ![directionIndex(b.pc)] =
                   <<taken>> \o SubSeq(@, 1, IF Len(@) > 0 THEN 1 ELSE 0)]
  /\ wrongPaths' = wrongPaths + (IF b.prediction.target = next THEN 0 ELSE 1)
  /\ asked' = RemoveAt(asked, k)

Squash(k) ==
  /\ asked' = SubSeq(asked, 1, k - 1)
  /\ UNCHANGED <<predictorVars, historyVars>>

Next ==
  \/ \E pc \in Pcs : Ask(pc)
  \/ \E k \in DOMAIN asked : \E taken \in BOOLEAN, target \in Targets[asked[k].pc] :
       Resolve(k, taken, target)
  \/ \E k \in DOMAIN asked : Squash(k)

Spec == Init /\ [][Next]_vars

-----------------------------------------------------------------------------
(* Counters stay two-bit and lines stay in range. *)
PredictorTypeOK ==
  /\ counters \in [Indices -> 0 .. 3]
  /\ globalHistory \in 0 .. 2^historyLength - 1
  /\ btb \in [BtbSets -> [Ways -> BtbLine]]
  /\ btbClock \in Nat
  /\ bpStats \in BranchPredictorStats

(* Whatever was replaced, aliased or trained out of order, a prediction is *)
(* one that module BranchOracle allows, so the pipeline, which is checked  *)
(* against all of those, meets no other; this needs the pair of set and    *)
(* tag to identify the branch, and no stale second line for it.            *)
PredictionsAllowed == \A pc \in Pcs : AsFetched(pc) \in Predictions(pc)

(* Two equal outcomes in a row settle a counter: the branches that use it  *)
(* are then predicted that way, after whatever came before (a two-bit      *)
(* counter that saturates, from the weak state it starts in).              *)
TwoOutcomesSettle ==
  \A pc \in Pcs :
    LET seen == lastTwo[directionIndex(pc)]
    IN  Len(seen) = 2 /\ seen[1] = seen[2] => predict(pc).taken = seen[1]

(* Every outcome is counted in one class, and the classes tell the paths   *)
(* that were fetched: none that left the program is counted as correct,    *)
(* and every wrong target is one that did.  Outcomes are told against the  *)
(* prediction that fetch followed, however many others trained the tables  *)
(* in between.  A wrong direction can be harmless: of a branch that jumps  *)
(* to the next address, or is taken for one because no target is known.    *)
StatisticsAgree ==
  LET wrong == bpStats.directionMispredictions + bpStats.targetMispredictions IN
  /\ bpStats.predictions = bpStats.correct + wrong
  /\ wrongPaths \in bpStats.targetMispredictions .. wrong

(* The branch a line was filled by. *)
PcOf(s, line) == 4 * (line.tag * btbSetCount + s)

ValidWays(s) == {w \in Ways : btb[s][w].valid}

(* Each set of the BTB holds the branches most recently taken in it, each  *)
(* once, in the order of their ages and with the last target: the ages,    *)
(* the invalid lines and the search for a victim come to least-recently-   *)
(* used replacement, as module LruSets defines it.                         *)
KeepsRecentBranches ==
  \A s \in BtbSets :
    /\ {PcOf(s, btb[s][w]) : w \in ValidWays(s)}
         = LastUsed(lastTaken, {pc \in Pcs : SetOf(pc) = s}, Cardinality(Ways))
    /\ \A v, w \in ValidWays(s) :
         LET p == PcOf(s, btb[s][v])
             q == PcOf(s, btb[s][w])
         IN  /\ btb[s][v].target = lastTarget[p]
             /\ p = q => v = w
             /\ btb[s][v].age < btb[s][w].age <=> lastTaken[p] < lastTaken[q]
=============================================================================
