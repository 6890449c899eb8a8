------------------------ MODULE BranchTrainingProofs ------------------------
(***************************************************************************)
(* The predictor under any branches and outcomes, for tables of every      *)
(* size: its type invariant, what it may predict, when its counters are    *)
(* settled, and that its statistics add up.                                *)
(***************************************************************************)
EXTENDS BranchTraining, BranchPredictorProofs, SequenceTheorems, Sums

-----------------------------------------------------------------------------
(* Predictions wait in a sequence *)

Question ==
  {q \in [pc : Pcs, prediction : [taken : BOOLEAN, target : Word]] :
     ~q.prediction.taken => q.prediction.target = WordAdd(q.pc, 4)}

TargetsTyped == \A x \in DOMAIN lastTarget : lastTarget[x] \in Word

LinesInv == BtbInv(Pcs) /\ TargetsTyped /\ asked \in Seq(Question)

LEMMA PcsIdentified ==
  ASSUME bpConfig \in PredictorConfigs
  PROVE  /\ Identified(Pcs)
         /\ \A x \in Pcs : x \in Word /\ x \in Nat /\ SetOf(x) \in BtbSets /\ TagOf(x) \in Nat
<1>1. Pcs \in SUBSET Nat /\ \A x \in Pcs : x \in Word /\ x \in Nat /\ x % 4 = 0
  BY TrainingAssumption, WordAssumption DEF Word
<1>2. \A x, y \in Pcs : x % 4 = y % 4
  BY <1>1
<1> QED
  BY <1>1, <1>2, SameAlignment

(* What a lookup keeps is allowed, and a question. *)
LEMMA Fetchable ==
  ASSUME BtbInv(Pcs), TargetsTyped, NEW pc \in Pcs
  PROVE  /\ AsFetched(pc) \in Predictions(pc)
         /\ AsFetched(pc) \in [taken : BOOLEAN, target : Word]
<1>1. bpConfig \in PredictorConfigs
  BY DEF BtbInv, TablesTyped
<1>2. AsFetched(pc) \in Predictions(pc)
  BY <1>1, PcsIdentified, PredictionAllowed DEF AsFetched
<1>3. WordAdd(pc, 4) \in Word
  <2>1. pc \in Int
    BY <1>1, PcsIdentified
  <2> QED
    BY <2>1, WordAssumption DEF WordAdd, Word
<1>4. \A p \in Predictions(pc) : p \in [taken : BOOLEAN, target : Word]
  <2> SUFFICES ASSUME NEW p \in Predictions(pc) PROVE p \in [taken : BOOLEAN, target : Word]
    OBVIOUS
  <2>1. CASE p = [taken |-> FALSE, target |-> WordAdd(pc, 4)]
    BY <1>3, <2>1
  <2>2. ASSUME NEW t, p = [taken |-> TRUE, target |-> t],
               t = WordAdd(pc, 4) \/ \E x \in DOMAIN lastTarget : t = lastTarget[x]
        PROVE  p \in [taken : BOOLEAN, target : Word]
    <3>1. t \in Word
      BY <1>3, <2>2 DEF TargetsTyped
    <3> QED
      BY <2>2, <3>1
  <2> QED
    BY <2>1, <2>2 DEF Predictions
<1> QED
  BY <1>2, <1>4

LEMMA Removed ==
  ASSUME NEW S, NEW q \in Seq(S), NEW k \in DOMAIN q
  PROVE  /\ RemoveAt(q, k) \in Seq(S) /\ Len(RemoveAt(q, k)) = Len(q) - 1
         /\ SubSeq(q, 1, k - 1) \in Seq(S) /\ Len(SubSeq(q, 1, k - 1)) < Len(q)
         /\ Len(q) \in Nat /\ q[k] \in S
<1>1. k \in 1 .. Len(q) /\ Len(q) \in Nat
  OBVIOUS
<1>2. SubSeq(q, 1, k - 1) \in Seq(S) /\ Len(SubSeq(q, 1, k - 1)) = k - 1
  BY <1>1
<1>3. /\ SubSeq(q, k + 1, Len(q)) \in Seq(S)
      /\ Len(SubSeq(q, k + 1, Len(q))) = Len(q) - k
  BY <1>1
<1>4. \A s, t \in Seq(S) : s \o t \in Seq(S) /\ Len(s \o t) = Len(s) + Len(t)
  OBVIOUS
<1>5. q[k] \in S
  BY <1>1
<1>6. RemoveAt(q, k) \in Seq(S) /\ Len(RemoveAt(q, k)) = (k - 1) + (Len(q) - k)
  BY <1>2, <1>3, <1>4 DEF RemoveAt
<1> QED
  BY <1>1, <1>2, <1>5, <1>6

LEMMA AskKeepsLines ==
  ASSUME LinesInv, NEW pc \in Pcs, Ask(pc)
  PROVE  LinesInv'
<1>1. BtbInv(Pcs)'
  BY LinesStay DEF LinesInv, Ask, historyVars
<1>2. [pc |-> pc, prediction |-> AsFetched(pc)] \in Question
  <2>1. /\ AsFetched(pc) \in [taken : BOOLEAN, target : Word]
        /\ ~AsFetched(pc).taken => AsFetched(pc).target = WordAdd(pc, 4)
    BY Fetchable DEF LinesInv, AsFetched
  <2> QED
    BY <2>1 DEF Question
<1> QED
  BY <1>1, <1>2 DEF LinesInv, Ask, historyVars, TargetsTyped

LEMMA ResolveKeepsLines ==
  ASSUME LinesInv, NEW k \in DOMAIN asked, NEW taken \in BOOLEAN,
         NEW target \in Targets[asked[k].pc], Resolve(k, taken, target)
  PROVE  LinesInv'
<1> DEFINE b == asked[k]
<1>1. b.pc \in Pcs /\ target \in Word
  <2>1. b \in Question
    BY Removed DEF LinesInv
  <2>2. b.pc \in Pcs
    BY <2>1 DEF Question
  <2> QED
    BY <2>2, TrainingAssumption
<1>2. bpConfig \in PredictorConfigs
  BY DEF LinesInv, BtbInv, TablesTyped
<1>3. /\ train(b.pc, b.prediction, taken, IF taken THEN target ELSE WordAdd(b.pc, 4))
      /\ update(b.pc, taken, target) /\ asked' = RemoveAt(asked, k)
  BY DEF Resolve
<1> HIDE DEF b
<1>4. BtbInv(Pcs)'
  <2>1. taken => (IF taken THEN target ELSE WordAdd(b.pc, 4)) = target
    OBVIOUS
  <2> QED
    BY <1>1, <1>2, <1>3, <2>1, PcsIdentified, TrainingKeepsLines DEF LinesInv
<1>5. TargetsTyped'
  BY <1>1, <1>3 DEF LinesInv, TargetsTyped, update, Put
<1>6. asked' \in Seq(Question)
  BY <1>3, Removed DEF LinesInv
<1> QED
  BY <1>4, <1>5, <1>6 DEF LinesInv

LEMMA LinesInvariant == Spec => []LinesInv
<1>1. Init => LinesInv
  BY InitLines DEF Init, LinesInv, TargetsTyped, OracleInit, NoEntries
<1>2. LinesInv /\ [Next]_vars => LinesInv'
  <2> SUFFICES ASSUME LinesInv, [Next]_vars PROVE LinesInv'
    OBVIOUS
  <2>1. ASSUME NEW pc \in Pcs, Ask(pc) PROVE LinesInv'
    BY <2>1, AskKeepsLines
  <2>2. ASSUME NEW k \in DOMAIN asked, NEW taken \in BOOLEAN,
               NEW target \in Targets[asked[k].pc], Resolve(k, taken, target)
        PROVE  LinesInv'
    BY <2>2, ResolveKeepsLines
  <2>3. ASSUME NEW k \in DOMAIN asked, Squash(k) PROVE LinesInv'
    <3>1. UNCHANGED <<bpConfig, btb, btbClock, lastTarget>>
      BY <2>3 DEF Squash, predictorVars, historyVars
    <3>2. asked' \in Seq(Question)
      BY <2>3, Removed DEF LinesInv, Squash
    <3> QED
      BY <3>1, <3>2, LinesStay DEF LinesInv, TargetsTyped
  <2>4. CASE UNCHANGED vars
    BY <2>4, LinesStay DEF LinesInv, TargetsTyped, vars, predictorVars, historyVars
  <2> QED
    BY <2>1, <2>2, <2>3, <2>4 DEF Next
<1> QED
  BY <1>1, <1>2, PTL DEF Spec

(* Whatever is trained, in whatever order, evicted or aliased, a branch is *)
(* predicted to go on or to the last target it was trained with: what the  *)
(* pipeline is proved for covers the tables of every size.                 *)
THEOREM OracleCoversTables == Spec => []PredictionsAllowed
<1>1. LinesInv => PredictionsAllowed
  BY Fetchable DEF LinesInv, PredictionsAllowed
<1> QED
  BY <1>1, LinesInvariant, PTL

-----------------------------------------------------------------------------
(* The counters and what is counted *)

LEMMA IndexInRange ==
  ASSUME bpConfig \in PredictorConfigs, globalHistory \in 0 .. 2^historyLength - 1,
         NEW pc \in Pcs
  PROVE  directionIndex(pc) \in Indices
<1> DEFINE n == counterCount
<1>1. n \in Nat \ {0}
  BY TableSizes
<1>2. pc \div 4 \in Word /\ pc \div 4 \in Nat
  BY TrainingAssumption, WordAssumption DEF Word
<1>3. BitAnd(BitXor(pc \div 4, globalHistory), n - 1) \in Nat
  <2>1. n - 1 = IF bpConfig.bimodalEntries > 2 THEN bpConfig.bimodalEntries - 1 ELSE 1
    BY PredictorAssumption DEF n, counterCount, BranchPredictorConfig
  <2> HIDE DEF n
  <2> QED
    BY <1>2, <2>1, PredictorAssumption DEF historyLength
<1> HIDE DEF n
<1>4. \A x \in Nat : x % n \in 0 .. n - 1
  BY <1>1
<1>5. directionIndex(pc) \in 0 .. n - 1
  BY <1>2, <1>3, <1>4 DEF directionIndex, n
<1> QED
  BY <1>5 DEF Indices, n

(* Where a counter is after the last outcomes it was trained with.         *)
Settled(c, seen) ==
  /\ c \in 0 .. 3 /\ seen \in Seq(BOOLEAN)
  /\ Len(seen) = 0 => c = 1
  /\ Len(seen) = 1 => c = IF seen[1] THEN 2 ELSE 0
  /\ Len(seen) \in 0 .. 2
  /\ Len(seen) = 2 => /\ seen[1] => c >= 1
                      /\ ~seen[1] => c <= 2
                      /\ seen[1] /\ seen[2] => c >= 2
                      /\ ~seen[1] /\ ~seen[2] => c <= 1

CountersInv ==
  /\ bpConfig \in PredictorConfigs
  /\ globalHistory \in 0 .. 2^historyLength - 1
  /\ counters \in [Indices -> 0 .. 3]
  /\ DOMAIN lastTwo = Indices
  /\ \A k \in Indices : Settled(counters[k], lastTwo[k])

LEMMA Prepended ==
  ASSUME NEW S, NEW x \in S, NEW q \in Seq(S)
  PROVE  /\ <<x>> \o q \in Seq(S) /\ Len(<<x>> \o q) = Len(q) + 1
         /\ (<<x>> \o q)[1] = x
         /\ Len(q) = 1 => (<<x>> \o q)[2] = q[1]
<1>1. <<x>> \in Seq(S) /\ Len(<<x>>) = 1 /\ <<x>>[1] = x
  OBVIOUS
<1>2. Len(q) \in Nat
  OBVIOUS
<1> DEFINE one == <<x>>
<1> HIDE DEF one
<1>3. one \in Seq(S) /\ Len(one) = 1 /\ one[1] = x
  BY <1>1 DEF one
<1>4. /\ one \o q \in Seq(S) /\ Len(one \o q) = Len(one) + Len(q)
      /\ \A i \in 1 .. Len(one) + Len(q) :
           (one \o q)[i] = IF i <= Len(one) THEN one[i] ELSE q[i - Len(one)]
  BY <1>3, ConcatProperties
<1>5. (one \o q)[1] = x /\ (Len(q) = 1 => (one \o q)[2] = q[1])
  BY <1>2, <1>3, <1>4
<1> QED
  BY <1>2, <1>3, <1>4, <1>5 DEF one

LEMMA StepSettles ==
  ASSUME NEW c, NEW seen, Settled(c, seen), NEW taken \in BOOLEAN
  PROVE  Settled(Stepped(c, taken),
                 <<taken>> \o SubSeq(seen, 1, IF Len(seen) > 0 THEN 1 ELSE 0))
<1> DEFINE kept == SubSeq(seen, 1, IF Len(seen) > 0 THEN 1 ELSE 0)
           now == <<taken>> \o kept
<1>1. seen \in Seq(BOOLEAN) /\ c \in 0 .. 3 /\ Len(seen) \in 0 .. 2
  BY DEF Settled
<1>2. CASE Len(seen) = 0
  <2>1. kept \in Seq(BOOLEAN) /\ Len(kept) = 0
    BY <1>1, <1>2
  <2>2. c = 1
    BY <1>2 DEF Settled
  <2> HIDE DEF kept
  <2>3. now \in Seq(BOOLEAN) /\ Len(now) = 1 /\ now[1] = taken
    BY <2>1, Prepended
  <2> HIDE DEF now
  <2> QED
    BY <2>2, <2>3 DEF Settled, Stepped, now, kept
<1>3. CASE Len(seen) # 0
  <2>1. kept \in Seq(BOOLEAN) /\ Len(kept) = 1 /\ kept[1] = seen[1] /\ seen[1] \in BOOLEAN
    BY <1>1, <1>3
  <2> HIDE DEF kept
  <2>2. now \in Seq(BOOLEAN) /\ Len(now) = 2 /\ now[1] = taken /\ now[2] = seen[1]
    <3> DEFINE joined(q) == <<taken>> \o q
    <3>1. \A q \in Seq(BOOLEAN) :
            /\ joined(q) \in Seq(BOOLEAN) /\ Len(joined(q)) = Len(q) + 1
            /\ joined(q)[1] = taken /\ (Len(q) = 1 => joined(q)[2] = q[1])
      BY Prepended
    <3>2. now = joined(kept)
      OBVIOUS
    <3> HIDE DEF joined, now
    <3>3. Len(now) = 2 /\ now \in Seq(BOOLEAN)
      <4>1. kept \in Seq(BOOLEAN) /\ Len(kept) = 1
        BY <2>1
      <4>2. now \in Seq(BOOLEAN) /\ Len(now) = Len(kept) + 1
        BY <4>1, <3>1, <3>2, Zenon
      <4> QED
        BY <4>1, <4>2
    <3>4. now[1] = taken
      BY <2>1, <3>1, <3>2
    <3>5. now[2] = seen[1]
      BY <2>1, <3>1, <3>2
    <3> QED
      BY <3>3, <3>4, <3>5
  <2>3. Len(seen) \in 1 .. 2
    BY <1>1, <1>3
  <2>4. /\ seen[1] => c >= 1
        /\ ~seen[1] => c <= 2
    BY <2>3 DEF Settled
  <2> HIDE DEF now
  <2>5. Stepped(c, taken) \in 0 .. 3
    BY <1>1 DEF Stepped
  <2>6. taken => Stepped(c, taken) >= 1 /\ (seen[1] => Stepped(c, taken) >= 2)
    BY <1>1, <2>4 DEF Stepped
  <2>7. ~taken => Stepped(c, taken) <= 2 /\ (~seen[1] => Stepped(c, taken) <= 1)
    BY <1>1, <2>4 DEF Stepped
  <2>8. Settled(Stepped(c, taken), now)
    BY <2>2, <2>5, <2>6, <2>7 DEF Settled
  <2> QED
    BY <2>8 DEF now, kept
<1> QED
  BY <1>2, <1>3

LEMMA CountersInvariant == Spec => []CountersInv
<1>1. Init => CountersInv
  <2> SUFFICES ASSUME Init PROVE CountersInv
    OBVIOUS
  <2>1. bpConfig \in PredictorConfigs
    BY DEF Init, PredictorInit
  <2>2. 2^historyLength \in Nat \ {0}
    BY <2>1, PredictorAssumption DEF historyLength
  <2>3. \A k \in Indices : Settled(counters[k], lastTwo[k])
    BY DEF Init, PredictorInit, Settled
  <2> QED
    BY <2>1, <2>2, <2>3 DEF Init, PredictorInit, CountersInv
<1>2. CountersInv /\ LinesInv /\ [Next]_vars => CountersInv'
  <2> SUFFICES ASSUME CountersInv, LinesInv, [Next]_vars PROVE CountersInv'
    OBVIOUS
  <2>1. CASE UNCHANGED <<bpConfig, globalHistory, counters, lastTwo>>
    BY <2>1 DEF CountersInv, Indices, counterCount, historyLength
  <2>2. ASSUME NEW k \in DOMAIN asked, NEW taken \in BOOLEAN,
               NEW target \in Targets[asked[k].pc], Resolve(k, taken, target)
        PROVE  CountersInv'
    <3> DEFINE d == directionIndex(asked[k].pc)
               seen(x) == <<taken>> \o SubSeq(x, 1, IF Len(x) > 0 THEN 1 ELSE 0)
    <3>1. asked[k].pc \in Pcs
      <4>1. asked[k] \in Question
        BY Removed DEF LinesInv
      <4> QED
        BY <4>1 DEF Question
    <3>2. d \in Indices
      BY <3>1, IndexInRange DEF CountersInv
    <3>3. /\ UNCHANGED bpConfig
          /\ counters' = [counters EXCEPT ![d] = Stepped(counters[d], taken)]
          /\ lastTwo' = [lastTwo EXCEPT ![d] = seen(lastTwo[d])]
          /\ globalHistory' = (2 * globalHistory + (IF taken THEN 1 ELSE 0)) % 2^historyLength
      BY <2>2 DEF Resolve, train
    <3>4. Indices' = Indices /\ historyLength' = historyLength
      BY <3>3 DEF Indices, counterCount, historyLength
    <3>5. globalHistory' \in 0 .. 2^historyLength - 1
      <4> DEFINE m == 2^historyLength
      <4>1. m \in Nat \ {0}
        BY PredictorAssumption DEF historyLength, CountersInv
      <4> HIDE DEF m
      <4>2. globalHistory \in Nat
        BY <4>1 DEF CountersInv, m
      <4>3. (2 * globalHistory + (IF taken THEN 1 ELSE 0)) % m \in 0 .. m - 1
        BY <4>1, <4>2
      <4> QED
        BY <3>3, <4>3 DEF m
    <3>6. Settled(Stepped(counters[d], taken), seen(lastTwo[d]))
      BY <3>2, StepSettles DEF CountersInv
    <3>7. Stepped(counters[d], taken) \in 0 .. 3
      BY <3>6 DEF Settled
    <3> HIDE DEF d, seen
    <3>8. counters' \in [Indices -> 0 .. 3] /\ DOMAIN lastTwo' = Indices
      BY <3>2, <3>3, <3>7 DEF CountersInv
    <3>9. \A x \in Indices : Settled(counters'[x], lastTwo'[x])
      BY <3>2, <3>3, <3>6 DEF CountersInv
    <3> QED
      BY <3>3, <3>4, <3>5, <3>8, <3>9 DEF CountersInv
  <2>3. ASSUME NEW pc \in Pcs, Ask(pc) PROVE CountersInv'
    BY <2>1, <2>3 DEF Ask, historyVars
  <2>4. ASSUME NEW k \in DOMAIN asked, Squash(k) PROVE CountersInv'
    BY <2>1, <2>4 DEF Squash, predictorVars, historyVars
  <2>5. CASE UNCHANGED vars
    BY <2>1, <2>5 DEF vars, predictorVars, historyVars
  <2> QED
    BY <2>2, <2>3, <2>4, <2>5 DEF Next
<1> QED
  BY <1>1, <1>2, LinesInvariant, PTL DEF Spec

(* Whatever the counter has been through, and whichever branches share it, *)
(* two equal outcomes are enough for the prediction to follow them.        *)
THEOREM TwoOutcomesAreEnough == Spec => []TwoOutcomesSettle
<1>1. CountersInv => TwoOutcomesSettle
  <2> SUFFICES ASSUME CountersInv, NEW pc \in Pcs,
                      Len(lastTwo[directionIndex(pc)]) = 2,
                      lastTwo[directionIndex(pc)][1] = lastTwo[directionIndex(pc)][2]
               PROVE  predict(pc).taken = lastTwo[directionIndex(pc)][1]
    BY DEF TwoOutcomesSettle
  <2> DEFINE d == directionIndex(pc)
  <2>1. d \in Indices
    BY IndexInRange DEF CountersInv
  <2>2. Settled(counters[d], lastTwo[d])
    BY <2>1 DEF CountersInv
  <2>3. predict(pc).taken = (counters[d] >= 2)
    BY DEF predict
  <2> HIDE DEF d
  <2>4. lastTwo[d][1] \in BOOLEAN /\ counters[d] \in 0 .. 3
    BY <2>2 DEF Settled, d
  <2>5. lastTwo[d][1] => counters[d] >= 2
    BY <2>2 DEF Settled, d
  <2>6. ~lastTwo[d][1] => ~(counters[d] >= 2)
    BY <2>2, <2>4 DEF Settled, d
  <2> QED
    BY <2>3, <2>4, <2>5, <2>6 DEF d
<1> QED
  BY <1>1, CountersInvariant, PTL

-----------------------------------------------------------------------------
(* The statistics *)

StatisticsInv ==
  bpStats \in BranchPredictorStats /\ wrongPaths \in Nat /\ StatisticsAgree

LEMMA ResolveCounts ==
  ASSUME StatisticsInv, LinesInv, NEW k \in DOMAIN asked, NEW taken \in BOOLEAN,
         NEW target \in Targets[asked[k].pc], Resolve(k, taken, target)
  PROVE  StatisticsInv'
<1> DEFINE p == asked[k].prediction
           next == IF taken THEN target ELSE WordAdd(asked[k].pc, 4)
           strayed == IF p.target = next THEN 0 ELSE 1
           wrong == IF Wrong(p, taken, next) THEN 1 ELSE 0
           target1 == IF Wrong(p, taken, next) /\ p.taken = taken THEN 1 ELSE 0
<1>1. train(asked[k].pc, p, taken, next) /\ wrongPaths' = wrongPaths + strayed
  BY DEF Resolve
<1>2. /\ p.taken \in BOOLEAN
      /\ ~p.taken => p.target = WordAdd(asked[k].pc, 4)
  <2>1. asked[k] \in Question
    BY Removed DEF LinesInv
  <2> QED
    BY <2>1 DEF Question
<1>3. target1 <= strayed /\ strayed <= wrong
  BY <1>2 DEF Wrong
<1>4. bpStats \in BranchPredictorStats /\ wrongPaths \in Nat
  BY DEF StatisticsInv
<1>5. /\ bpStats' \in BranchPredictorStats
      /\ bpStats'.predictions = bpStats.predictions + 1
      /\ bpStats'.correct = bpStats.correct + (IF Wrong(p, taken, next) THEN 0 ELSE 1)
      /\ bpStats'.directionMispredictions + bpStats'.targetMispredictions
           = bpStats.directionMispredictions + bpStats.targetMispredictions + wrong
      /\ bpStats'.targetMispredictions = bpStats.targetMispredictions + target1
  BY <1>1, <1>4, TrainingCounts
<1>6. strayed \in {0, 1} /\ wrong \in {0, 1} /\ target1 \in {0, 1}
      /\ (IF Wrong(p, taken, next) THEN 0 ELSE 1) = 1 - wrong
  OBVIOUS
<1> HIDE DEF p, next, strayed, wrong, target1
<1>7. StatisticsAgree'
  BY <1>1, <1>3, <1>4, <1>5, <1>6 DEF StatisticsInv, BranchPredictorStats, StatisticsAgree
<1> QED
  BY <1>1, <1>4, <1>5, <1>6, <1>7 DEF StatisticsInv

LEMMA StatisticsInvariant == Spec => []StatisticsInv
<1>1. Init => StatisticsInv
  BY DEF Init, PredictorInit, StatisticsInv, BranchPredictorStats, StatisticsAgree
<1>2. StatisticsInv /\ LinesInv /\ [Next]_vars => StatisticsInv'
  <2> SUFFICES ASSUME StatisticsInv, LinesInv, [Next]_vars PROVE StatisticsInv'
    OBVIOUS
  <2>1. ASSUME NEW pc \in Pcs, Ask(pc) PROVE StatisticsInv'
    <3>1. CountLookup(pc) /\ wrongPaths' = wrongPaths
      BY <2>1 DEF Ask, historyVars
    <3>2. /\ bpStats' \in BranchPredictorStats
          /\ bpStats'.predictions = bpStats.predictions
          /\ bpStats'.correct = bpStats.correct
          /\ bpStats'.directionMispredictions = bpStats.directionMispredictions
          /\ bpStats'.targetMispredictions = bpStats.targetMispredictions
      <4>1. bpStats \in BranchPredictorStats
        BY DEF StatisticsInv
      <4>2. CASE bpStats' = [bpStats EXCEPT !.btbHits = @ + 1]
        BY <4>1, <4>2 DEF BranchPredictorStats
      <4>3. CASE bpStats' = [bpStats EXCEPT !.btbMisses = @ + 1]
        BY <4>1, <4>3 DEF BranchPredictorStats
      <4> QED
        BY <3>1, <4>2, <4>3 DEF CountLookup
    <3> QED
      BY <3>1, <3>2 DEF StatisticsInv, StatisticsAgree
  <2>2. ASSUME NEW k \in DOMAIN asked, NEW taken \in BOOLEAN,
               NEW target \in Targets[asked[k].pc], Resolve(k, taken, target)
        PROVE  StatisticsInv'
    BY <2>2, ResolveCounts
  <2>3. ASSUME NEW k \in DOMAIN asked, Squash(k) PROVE StatisticsInv'
    BY <2>3 DEF Squash, predictorVars, historyVars, StatisticsInv, StatisticsAgree
  <2>4. CASE UNCHANGED vars
    BY <2>4 DEF vars, predictorVars, historyVars, StatisticsInv, StatisticsAgree
  <2> QED
    BY <2>1, <2>2, <2>3, <2>4 DEF Next
<1> QED
  BY <1>1, <1>2, LinesInvariant, PTL DEF Spec

(* In whatever order predictions are resolved or squashed, the classes add *)
(* up, and every outcome on a wrong path is among the mispredictions.      *)
THEOREM StatisticsAddUp == Spec => []StatisticsAgree
BY StatisticsInvariant, PTL DEF StatisticsInv

(* The counters stay within two bits, the history within its bits, and the *)
(* lines in their sets.                                                    *)
THEOREM PredictorTyped == Spec => []PredictorTypeOK
<1>1. LinesInv /\ CountersInv /\ StatisticsInv => PredictorTypeOK
  BY DEF LinesInv, BtbInv, TablesTyped, CountersInv, StatisticsInv, PredictorTypeOK
<1> QED
  BY <1>1, LinesInvariant, CountersInvariant, StatisticsInvariant, PTL

-----------------------------------------------------------------------------
(* What is kept *)

(* The victim is a line that no line comes before. *)
LEMMA VictimFirst ==
  ASSUME TablesTyped, NEW s \in BtbSets
  PROVE  LET w == VictimLine(s) IN
         /\ w \in Ways
         /\ btb[s][w].valid => \A x \in Ways : /\ btb[s][x].valid
                                               /\ btb[s][w].age <= btb[s][x].age
<1> DEFINE set == btb[s]
           free == {w \in Ways : ~set[w].valid}
           from == IF free # {} THEN free ELSE Ways
           ages == {set[w].age : w \in from}
           first == {w \in Ways : \A x \in Ways : ~Before(set[x], set[w])}
<1>1. set \in [Ways -> BtbLine]
  BY DEF TablesTyped
<1>2. Ways \in SUBSET Nat /\ 0 \in Ways
  BY PredictorAssumption DEF TablesTyped, Ways, BranchPredictorConfig
<1>3. \A w \in Ways : set[w].valid \in BOOLEAN /\ set[w].age \in Nat
  BY <1>1 DEF BtbLine
<1> HIDE DEF set
<1>4. from # {} /\ from \subseteq Ways
  BY <1>2
<1>5. ages \in SUBSET Nat /\ ages # {}
  <2> HIDE DEF from
  <2> QED
    BY <1>3, <1>4
<1>6. Min(ages) \in ages /\ \A m \in ages : Min(ages) <= m
  <2> HIDE DEF ages
  <2> QED
    BY <1>5, LeastNat
<1>7. PICK w \in from : set[w].age = Min(ages)
  BY <1>6
<1>8. \A x \in from : set[w].age <= set[x].age
  BY <1>6, <1>7
<1>9. w \in first
  <2> SUFFICES ASSUME NEW x \in Ways PROVE ~Before(set[x], set[w])
    BY <1>4, <1>7
  <2>1. CASE set[x].valid # set[w].valid
    <3>1. set[x].valid
      BY <1>3, <1>4, <1>7, <2>1
    <3> QED
      BY <2>1, <3>1 DEF Before
  <2>2. CASE set[x].valid = set[w].valid
    <3>1. x \in from
      BY <1>7, <2>2
    <3>2. set[w].age <= set[x].age /\ set[w].age \in Nat /\ set[x].age \in Nat
      BY <1>3, <1>4, <1>7, <1>8, <3>1
    <3> QED
      BY <2>2, <3>2 DEF Before
  <2> QED
    BY <2>1, <2>2
<1>10. VictimLine(s) = Min(first)
  BY DEF VictimLine, set
<1>11. first \in SUBSET Nat /\ first # {}
  BY <1>2, <1>9
<1> HIDE DEF first
<1>12. VictimLine(s) \in first
  BY <1>10, <1>11, LeastNat
<1>13. VictimLine(s) \in Ways /\ \A x \in Ways : ~Before(set[x], set[VictimLine(s)])
  BY <1>12 DEF first
<1> DEFINE v == VictimLine(s)
<1> HIDE DEF v
<1>14. ASSUME set[v].valid, NEW x \in Ways PROVE set[x].valid /\ set[v].age <= set[x].age
  <2>1. ~Before(set[x], set[v]) /\ v \in Ways
    BY <1>13 DEF v
  <2>2. set[x].valid
    BY <1>14, <2>1 DEF Before
  <2>3. ~(set[x].age < set[v].age)
    BY <1>3, <1>14, <2>1, <2>2 DEF Before
  <2>4. set[x].age \in Nat /\ set[v].age \in Nat
    BY <1>3, <2>1
  <2> QED
    BY <2>2, <2>3, <2>4
<1> QED
  BY <1>13, <1>14 DEF v, set

(* In table t, way w of set s has the line of x, one of the branches used. *)
LineOfBranch(t, used, s, w, x) ==
  /\ w \in Ways /\ t[s][w].valid
  /\ x \in DOMAIN used /\ SetOf(x) = s /\ TagOf(x) = t[s][w].tag

(* The ages of the lines order them as the outcomes that their branches    *)
(* were last taken in, and a branch without a line was taken before every  *)
(* branch that has one in its set, which is then full.                     *)
AgedByUse(t, clock, used, count) ==
  /\ \A x \in DOMAIN used : used[x] \in Nat /\ used[x] <= count
  /\ \A x, y \in DOMAIN used : used[x] = used[y] => x = y
  /\ \A s \in BtbSets, w \in Ways : t[s][w].valid => t[s][w].age <= clock
  /\ \A s \in BtbSets : \A v, w, x, y :
       LineOfBranch(t, used, s, v, x) /\ LineOfBranch(t, used, s, w, y)
         => (t[s][v].age < t[s][w].age <=> used[x] < used[y])
  /\ \A z \in DOMAIN used :
       \/ \E w : LineOfBranch(t, used, SetOf(z), w, z)
       \/ \A w \in Ways :
            /\ t[SetOf(z)][w].valid
            /\ \A x : LineOfBranch(t, used, SetOf(z), w, x) => used[z] < used[x]

RecentInv ==
  /\ DOMAIN lastTaken = DOMAIN lastTarget
  /\ AgedByUse(btb, btbClock, lastTaken, bpStats.predictions)

LEMMA RecentNext ==
  ASSUME UNCHANGED bpConfig, DOMAIN lastTaken' = DOMAIN lastTarget',
         AgedByUse(btb', btbClock', lastTaken', bpStats'.predictions)
  PROVE  RecentInv'
<1>1. /\ BtbSets' = BtbSets /\ Ways' = Ways
      /\ \A x : SetOf(x)' = SetOf(x) /\ TagOf(x)' = TagOf(x)
  BY SetsStay
<1>2. \A s, w, x : LineOfBranch(btb, lastTaken, s, w, x)'
                     <=> LineOfBranch(btb', lastTaken', s, w, x)
  BY <1>1 DEF LineOfBranch
<1>3. AgedByUse(btb, btbClock, lastTaken, bpStats.predictions)'
  BY <1>1, <1>2 DEF AgedByUse
<1> QED
  BY <1>3 DEF RecentInv

LEMMA MoreOutcomes ==
  ASSUME NEW t, NEW clock, NEW used, NEW m \in Nat, NEW n \in Nat, m <= n,
         AgedByUse(t, clock, used, m)
  PROVE  AgedByUse(t, clock, used, n)
BY DEF AgedByUse

(* A taken branch becomes the one last used of its set.                    *)
LEMMA TakenIsYoungest ==
  ASSUME BtbInv(Pcs), RecentInv, NEW pc \in Pcs, NEW target \in Word,
         UNCHANGED bpConfig, updateBtb(pc, target), bpStats.predictions \in Nat
  PROVE  AgedByUse(btb', btbClock', Put(lastTaken, pc, bpStats.predictions + 1),
                   bpStats.predictions + 1)
<1> DEFINE s == SetOf(pc)
           w == IF Hits(pc) # {} THEN Min(Hits(pc)) ELSE VictimLine(s)
           line == [valid |-> TRUE, tag |-> TagOf(pc), target |-> target,
                    age |-> btbClock + 1]
           now == bpStats.predictions + 1
           uu == Put(lastTaken, pc, now)
           clock == btbClock + 1
<1>0. TablesTyped /\ bpConfig \in PredictorConfigs /\ Identified(Pcs)
      /\ \A x \in Pcs : SetOf(x) \in BtbSets /\ TagOf(x) \in Nat
      /\ DOMAIN lastTaken \subseteq Pcs
  BY PcsIdentified DEF BtbInv, TablesTyped, RecentInv
<1>1. btb' = [btb EXCEPT ![s][w] = line] /\ btbClock' = clock
  BY DEF updateBtb
<1>2. btb \in [BtbSets -> [Ways -> BtbLine]] /\ btbClock \in Nat /\ s \in BtbSets
  BY <1>0 DEF TablesTyped
<1>3. line.valid /\ line.tag = TagOf(pc) /\ line.age = clock
  OBVIOUS
<1>4. ASSUME NEW v \in Ways, btb[s][v].valid, btb[s][v].tag = TagOf(pc)
      PROVE  v = w
  <2>1. v \in Hits(pc)
    BY <1>4 DEF Hits
  <2>2. Hits(pc) = {v}
    BY <1>2, <1>4, <2>1 DEF Hits, BtbInv, LinesDistinct
  <2>3. v \in Int
    BY DEF Ways
  <2> QED
    BY <2>2, <2>3 DEF Min
<1>5. /\ w \in Ways
      /\ btb[s][w].valid =>
           \/ btb[s][w].tag = TagOf(pc)
           \/ \A x \in Ways : btb[s][x].valid /\ btb[s][w].age <= btb[s][x].age
  <2>1. CASE Hits(pc) = {}
    BY <1>0, <1>2, <2>1, VictimFirst
  <2>2. CASE Hits(pc) # {}
    <3>1. PICK v \in Hits(pc) : TRUE
      BY <2>2
    <3>2. v \in Ways /\ btb[s][v].valid /\ btb[s][v].tag = TagOf(pc)
      BY <3>1 DEF Hits
    <3> QED
      BY <1>4, <3>2
  <2> QED
    BY <2>1, <2>2
<1> HIDE DEF w, line
<1>6. \A r \in BtbSets, v \in Ways :
        btb'[r][v] = IF r = s /\ v = w THEN line ELSE btb[r][v]
  BY <1>1, <1>2
<1>7. /\ DOMAIN uu = DOMAIN lastTaken \cup {pc} /\ uu[pc] = now
      /\ \A x \in DOMAIN lastTaken : x # pc => uu[x] = lastTaken[x]
  BY DEF Put
<1> HIDE DEF uu
<1>8. /\ \A x \in DOMAIN lastTaken : lastTaken[x] \in Nat /\ lastTaken[x] <= bpStats.predictions
      /\ \A x, y \in DOMAIN lastTaken : lastTaken[x] = lastTaken[y] => x = y
      /\ \A r \in BtbSets, v \in Ways : btb[r][v].valid => btb[r][v].age <= btbClock
  BY DEF RecentInv, AgedByUse
<1>9. \A r \in BtbSets, v \in Ways : btb[r][v].age \in Nat
  BY <1>2 DEF BtbLine
<1>10. now \in Nat /\ \A x \in DOMAIN lastTaken : lastTaken[x] < now
  BY <1>8
(* The lines after: that of pc in w, and those before elsewhere. *)
<1>11. ASSUME NEW r \in BtbSets, NEW v, NEW x, LineOfBranch(btb', uu, r, v, x)
       PROVE  \/ r = s /\ v = w /\ x = pc
              \/ /\ ~(r = s /\ v = w) /\ x # pc /\ LineOfBranch(btb, lastTaken, r, v, x)
                 /\ uu[x] = lastTaken[x] /\ btb'[r][v] = btb[r][v]
  <2>1. v \in Ways /\ btb'[r][v].valid /\ x \in DOMAIN uu /\ SetOf(x) = r
        /\ TagOf(x) = btb'[r][v].tag /\ x \in Pcs
    BY <1>0, <1>7, <1>11 DEF LineOfBranch
  <2>2. CASE r = s /\ v = w
    <3>1. TagOf(x) = TagOf(pc) /\ SetOf(x) = SetOf(pc)
      BY <1>3, <1>6, <2>1, <2>2
    <3> QED
      BY <1>0, <2>1, <2>2, <3>1 DEF Identified
  <2>3. CASE ~(r = s /\ v = w)
    <3>1. btb'[r][v] = btb[r][v]
      BY <1>6, <2>1, <2>3
    <3>2. x # pc
      BY <1>4, <2>1, <2>3, <3>1
    <3> QED
      BY <1>7, <2>1, <2>3, <3>1, <3>2 DEF LineOfBranch
  <2> QED
    BY <2>2, <2>3
<1>12. \A x \in DOMAIN uu : uu[x] \in Nat /\ uu[x] <= now
  BY <1>7, <1>8, <1>10
<1>13. ASSUME NEW x \in DOMAIN uu, NEW y \in DOMAIN uu, uu[x] = uu[y] PROVE x = y
  <2>1. CASE x = pc /\ y # pc
    BY <1>7, <1>8, <1>10, <1>13, <2>1
  <2>2. CASE y = pc /\ x # pc
    BY <1>7, <1>8, <1>10, <1>13, <2>2
  <2>3. CASE y # pc /\ x # pc
    BY <1>7, <1>8, <1>13, <2>3
  <2> QED
    BY <2>1, <2>2, <2>3
<1>14. ASSUME NEW r \in BtbSets, NEW v \in Ways, btb'[r][v].valid
       PROVE  btb'[r][v].age <= clock
  BY <1>2, <1>3, <1>6, <1>8, <1>9, <1>14
<1>15. ASSUME NEW r \in BtbSets, NEW v, NEW u, NEW x, NEW y,
              LineOfBranch(btb', uu, r, v, x), LineOfBranch(btb', uu, r, u, y)
       PROVE  btb'[r][v].age < btb'[r][u].age <=> uu[x] < uu[y]
  <2>1. v \in Ways /\ u \in Ways
    BY <1>15 DEF LineOfBranch
  <2>2. CASE r = s /\ v = w
    <3>1. x = pc /\ btb'[r][v].age = clock /\ uu[x] = now
      BY <1>3, <1>6, <1>7, <1>11, <1>15, <2>1, <2>2
    <3>2. CASE u = w
      BY <1>10, <1>2, <1>11, <1>15, <2>2, <3>1, <3>2
    <3>3. CASE u # w
      <4>1. LineOfBranch(btb, lastTaken, r, u, y) /\ uu[y] = lastTaken[y] /\ btb'[r][u] = btb[r][u]
        BY <1>11, <1>15, <3>3
      <4>2. y \in DOMAIN lastTaken /\ btb[r][u].valid
        BY <4>1 DEF LineOfBranch
      <4> QED
        BY <1>2, <1>8, <1>9, <1>10, <2>1, <3>1, <4>1, <4>2
    <3> QED
      BY <3>2, <3>3
  <2>3. CASE r = s /\ v # w /\ u = w
    <3>1. y = pc /\ btb'[r][u].age = clock /\ uu[y] = now
      BY <1>3, <1>6, <1>7, <1>11, <1>15, <2>1, <2>3
    <3>2. LineOfBranch(btb, lastTaken, r, v, x) /\ uu[x] = lastTaken[x] /\ btb'[r][v] = btb[r][v]
      BY <1>11, <1>15, <2>3
    <3>3. x \in DOMAIN lastTaken /\ btb[r][v].valid
      BY <3>2 DEF LineOfBranch
    <3> QED
      BY <1>2, <1>8, <1>9, <1>10, <2>1, <3>1, <3>2, <3>3
  <2>4. CASE ~(r = s /\ v = w) /\ ~(r = s /\ u = w)
    <3>1. LineOfBranch(btb, lastTaken, r, u, y) /\ uu[y] = lastTaken[y] /\ btb'[r][u] = btb[r][u]
      BY <1>11, <1>15, <2>4
    <3>2. LineOfBranch(btb, lastTaken, r, v, x) /\ uu[x] = lastTaken[x] /\ btb'[r][v] = btb[r][v]
      BY <1>11, <1>15, <2>4
    <3> QED
      BY <3>1, <3>2 DEF RecentInv, AgedByUse
  <2> QED
    BY <2>2, <2>3, <2>4
<1>16. LineOfBranch(btb', uu, s, w, pc)
  BY <1>2, <1>3, <1>5, <1>6, <1>7 DEF LineOfBranch
<1>17. ASSUME NEW z \in DOMAIN uu, ~\E v : LineOfBranch(btb', uu, SetOf(z), v, z),
              NEW v \in Ways
       PROVE  /\ btb'[SetOf(z)][v].valid
              /\ \A x : LineOfBranch(btb', uu, SetOf(z), v, x) => uu[z] < uu[x]
  <2> DEFINE r == SetOf(z)
  <2>1. z # pc
    BY <1>16, <1>17
  <2>2. z \in DOMAIN lastTaken /\ uu[z] = lastTaken[z] /\ r \in BtbSets
    BY <1>0, <1>7, <2>1
  <2>3. CASE \E u : LineOfBranch(btb, lastTaken, r, u, z)
    <3>1. PICK u : LineOfBranch(btb, lastTaken, r, u, z)
      BY <2>3
    <3>2. u \in Ways /\ btb[r][u].valid /\ TagOf(z) = btb[r][u].tag
      BY <3>1 DEF LineOfBranch
    <3>3. r = s /\ u = w
      <4>1. SUFFICES ASSUME ~(r = s /\ u = w) PROVE FALSE
        OBVIOUS
      <4>2. btb'[r][u] = btb[r][u]
        BY <1>6, <2>2, <3>2, <4>1
      <4>3. LineOfBranch(btb', uu, r, u, z)
        BY <1>17, <3>1, <4>2 DEF LineOfBranch
      <4> QED
        BY <1>17, <4>3
    <3>4. btb[s][w].tag # TagOf(pc)
      BY <1>0, <2>1, <2>2, <3>2, <3>3 DEF Identified
    <3>5. \A x \in Ways : btb[s][x].valid /\ btb[s][w].age <= btb[s][x].age
      BY <1>5, <3>2, <3>3, <3>4
    <3>6. btb'[s][v].valid
      BY <1>2, <1>3, <1>6, <3>5
    <3>7. ASSUME NEW x, LineOfBranch(btb', uu, s, v, x) PROVE uu[z] < uu[x]
      <4>1. CASE x = pc
        BY <1>7, <1>10, <2>2, <4>1
      <4>2. CASE x # pc
        <5>1. LineOfBranch(btb, lastTaken, s, v, x) /\ uu[x] = lastTaken[x] /\ v # w
          BY <1>2, <1>11, <3>7, <4>2
        <5>2. x \in DOMAIN lastTaken /\ lastTaken[x] \in Nat /\ lastTaken[z] \in Nat
          BY <1>8, <2>2, <5>1 DEF LineOfBranch
        <5>3. btb[s][v].age < btb[s][w].age <=> lastTaken[x] < lastTaken[z]
          BY <1>2, <3>1, <3>3, <5>1 DEF RecentInv, AgedByUse
        <5>4. ~(btb[s][v].age < btb[s][w].age)
          BY <1>2, <1>5, <1>9, <3>5
        <5>5. x # z
          <6>1. SUFFICES ASSUME x = z PROVE FALSE
            OBVIOUS
          <6>2. LineOfBranch(btb', uu, r, v, z)
            BY <3>3, <3>7, <6>1
          <6> QED
            BY <1>17, <6>2
        <5>6. lastTaken[x] # lastTaken[z]
          BY <1>8, <2>2, <5>2, <5>5
        <5> QED
          BY <2>2, <5>1, <5>2, <5>3, <5>4, <5>6
      <4> QED
        BY <4>1, <4>2
    <3> QED
      BY <3>3, <3>6, <3>7
  <2>4. CASE ~\E u : LineOfBranch(btb, lastTaken, r, u, z)
    <3>1. \A u \in Ways :
            /\ btb[r][u].valid
            /\ \A x : LineOfBranch(btb, lastTaken, r, u, x) => lastTaken[z] < lastTaken[x]
      BY <2>2, <2>4 DEF RecentInv, AgedByUse
    <3>2. btb'[r][v].valid
      BY <1>3, <1>6, <2>2, <3>1
    <3>3. ASSUME NEW x, LineOfBranch(btb', uu, r, v, x) PROVE uu[z] < uu[x]
      <4>1. CASE x = pc
        BY <1>7, <1>10, <2>2, <4>1
      <4>2. CASE x # pc
        <5>1. LineOfBranch(btb, lastTaken, r, v, x) /\ uu[x] = lastTaken[x]
          BY <1>11, <2>2, <3>3, <4>2
        <5> QED
          BY <2>2, <3>1, <5>1
      <4> QED
        BY <4>1, <4>2
    <3> QED
      BY <3>2, <3>3
  <2> QED
    BY <2>3, <2>4
<1>18. AgedByUse(btb', clock, uu, now)
  BY <1>12, <1>13, <1>14, <1>15, <1>17 DEF AgedByUse
<1> QED
  BY <1>1, <1>18 DEF uu

LEMMA ResolveKeepsRecent ==
  ASSUME LinesInv, StatisticsInv, StatisticsInv', RecentInv, NEW k \in DOMAIN asked,
         NEW taken \in BOOLEAN, NEW target \in Targets[asked[k].pc], Resolve(k, taken, target)
  PROVE  RecentInv'
<1> DEFINE b == asked[k]
           n == bpStats.predictions
<1>1. b.pc \in Pcs /\ target \in Word
  <2>1. b \in Question
    BY Removed DEF LinesInv
  <2>2. b.pc \in Pcs
    BY <2>1 DEF Question
  <2> QED
    BY <2>2, TrainingAssumption
<1>2. /\ train(b.pc, b.prediction, taken, IF taken THEN target ELSE WordAdd(b.pc, 4))
      /\ update(b.pc, taken, target)
      /\ lastTaken' = IF taken THEN Put(lastTaken, b.pc, n + 1) ELSE lastTaken
  BY DEF Resolve
<1>3. n \in Nat /\ bpStats' \in BranchPredictorStats /\ bpStats'.predictions = n + 1
  BY <1>2, TrainingCounts DEF StatisticsInv, BranchPredictorStats
<1>4. UNCHANGED bpConfig
  BY <1>2 DEF train
<1> HIDE DEF b, n
<1>5. DOMAIN lastTaken' = DOMAIN lastTarget'
  BY <1>2 DEF update, Put, RecentInv
<1>6. CASE taken
  <2>1. updateBtb(b.pc, target) /\ lastTaken' = Put(lastTaken, b.pc, n + 1)
    BY <1>2, <1>6 DEF train
  <2>2. AgedByUse(btb', btbClock', Put(lastTaken, b.pc, n + 1), n + 1)
    BY <1>1, <1>3, <1>4, <2>1, TakenIsYoungest DEF LinesInv, n
  <2> QED
    BY <1>3, <1>4, <1>5, <2>1, <2>2, RecentNext
<1>7. CASE ~taken
  <2>1. UNCHANGED <<btb, btbClock, lastTaken>>
    BY <1>2, <1>7 DEF train
  <2>2. AgedByUse(btb, btbClock, lastTaken, n + 1)
    BY <1>3, MoreOutcomes DEF RecentInv, n
  <2> QED
    BY <1>3, <1>4, <1>5, <2>1, <2>2, RecentNext
<1> QED
  BY <1>6, <1>7

LEMMA RecentStays ==
  ASSUME RecentInv, UNCHANGED <<bpConfig, btb, btbClock, lastTaken, lastTarget>>,
         bpStats'.predictions = bpStats.predictions
  PROVE  RecentInv'
BY RecentNext DEF RecentInv

LEMMA RecentInvariant == Spec => []RecentInv
<1>1. Init => RecentInv
  <2> SUFFICES ASSUME Init PROVE RecentInv
    OBVIOUS
  <2>1. DOMAIN lastTaken = {} /\ DOMAIN lastTarget = {}
    BY DEF Init, OracleInit, NoEntries
  <2>2. \A s \in BtbSets, w \in Ways : ~btb[s][w].valid
    BY DEF Init, PredictorInit
  <2> QED
    BY <2>1, <2>2 DEF RecentInv, AgedByUse, LineOfBranch
<1>2. /\ RecentInv /\ LinesInv /\ StatisticsInv /\ StatisticsInv' /\ [Next]_vars
      => RecentInv'
  <2> SUFFICES ASSUME RecentInv, LinesInv, StatisticsInv, StatisticsInv', [Next]_vars
               PROVE  RecentInv'
    OBVIOUS
  <2>1. ASSUME NEW pc \in Pcs, Ask(pc) PROVE RecentInv'
    <3>1. UNCHANGED <<bpConfig, btb, btbClock, lastTaken, lastTarget>>
      BY <2>1 DEF Ask, historyVars
    <3>2. bpStats'.predictions = bpStats.predictions
      BY <2>1 DEF Ask, CountLookup, StatisticsInv, BranchPredictorStats
    <3> QED
      BY <3>1, <3>2, RecentStays
  <2>2. ASSUME NEW k \in DOMAIN asked, NEW taken \in BOOLEAN,
               NEW target \in Targets[asked[k].pc], Resolve(k, taken, target)
        PROVE  RecentInv'
    BY <2>2, ResolveKeepsRecent
  <2>3. ASSUME NEW k \in DOMAIN asked, Squash(k) PROVE RecentInv'
    BY <2>3, RecentStays DEF Squash, predictorVars, historyVars
  <2>4. CASE UNCHANGED vars
    BY <2>4, RecentStays DEF vars, predictorVars, historyVars
  <2> QED
    BY <2>1, <2>2, <2>3, <2>4 DEF Next
<1> QED
  BY <1>1, <1>2, LinesInvariant, StatisticsInvariant, PTL DEF Spec

-----------------------------------------------------------------------------
(* Least recently used *)

(* A line is that of the branch that its set and tag make up. *)
LEMMA LineNamesBranch ==
  ASSUME LinesInv, RecentInv, NEW s \in BtbSets, NEW w \in Ways, btb[s][w].valid
  PROVE  LET x == PcOf(s, btb[s][w]) IN
         /\ x \in Pcs /\ LineOfBranch(btb, lastTaken, s, w, x)
         /\ btb[s][w].target = lastTarget[x]
         /\ \A y : LineOfBranch(btb, lastTaken, s, w, y) => y = x
<1> DEFINE n == btbSetCount
<1>1. PICK x \in DOMAIN lastTarget : /\ SetOf(x) = s /\ TagOf(x) = btb[s][w].tag
                                     /\ btb[s][w].target = lastTarget[x]
  BY DEF LinesInv, BtbInv, LinesCurrent
<1>2. /\ bpConfig \in PredictorConfigs /\ DOMAIN lastTarget \subseteq Pcs
      /\ DOMAIN lastTaken = DOMAIN lastTarget
  BY DEF LinesInv, BtbInv, TablesTyped, RecentInv
<1>3. x \in Nat /\ x % 4 = 0 /\ n \in Nat \ {0}
  BY <1>1, <1>2, PcsIdentified, TrainingAssumption, TableSizes
<1>4. x \div 4 = (n * TagOf(x)) + SetOf(x) /\ TagOf(x) \in Nat /\ SetOf(x) \in Nat
  <2> HIDE DEF n
  <2>1. /\ (x \div 4) % n \in 0 .. n - 1 /\ x \div (4 * n) \in Nat
        /\ x \div 4 = (n * (x \div (4 * n))) + ((x \div 4) % n)
    BY <1>3, SetAndTag
  <2>2. TagOf(x) = x \div (4 * n) /\ SetOf(x) = (x \div 4) % n
    BY DEF TagOf, SetOf, n
  <2>3. \A i \in 0 .. n - 1 : i \in Nat
    OBVIOUS
  <2> QED
    BY <2>1, <2>2, <2>3
<1>5. x = 4 * (x \div 4)
  BY <1>3
<1>6. n * TagOf(x) = TagOf(x) * n
  BY <1>3, <1>4
<1>7. x = PcOf(s, btb[s][w])
  <2> HIDE DEF n
  <2>1. x = 4 * (TagOf(x) * n + SetOf(x))
    BY <1>4, <1>5, <1>6
  <2> QED
    BY <1>1, <2>1 DEF PcOf, n
<1>8. LineOfBranch(btb, lastTaken, s, w, x)
  BY <1>1, <1>2 DEF LineOfBranch
<1>9. ASSUME NEW y, LineOfBranch(btb, lastTaken, s, w, y) PROVE y = x
  <2>1. y \in Pcs /\ SetOf(y) = SetOf(x) /\ TagOf(y) = TagOf(x)
    BY <1>1, <1>2, <1>9 DEF LineOfBranch
  <2> QED
    BY <1>1, <1>2, <2>1, PcsIdentified DEF Identified
<1> QED
  BY <1>1, <1>2, <1>7, <1>8, <1>9

SetBranches(s) == {pc \in Pcs : SetOf(pc) = s}

LEMMA WaysFinite ==
  ASSUME bpConfig \in PredictorConfigs
  PROVE  IsFiniteSet(Ways) /\ Cardinality(Ways) \in Nat
<1>1. bpConfig \in BranchPredictorConfig
  BY PredictorAssumption
<1> DEFINE top == (IF bpConfig.btbAssociativity > 1 THEN bpConfig.btbAssociativity ELSE 1) - 1
<1>2. top \in Nat
  BY <1>1 DEF BranchPredictorConfig
<1> HIDE DEF top
<1>3. IsFiniteSet(0 .. top)
  BY <1>2, FS_Interval
<1> QED
  BY <1>3, FS_CardinalityType DEF Ways, top

(* The branches taken after one that has a line all have lines, beside it. *)
LEMMA HeldIsRecent ==
  ASSUME LinesInv, RecentInv, NEW s \in BtbSets, NEW w, NEW x,
         LineOfBranch(btb, lastTaken, s, w, x)
  PROVE  Cardinality(UsedAfter(lastTaken, SetBranches(s), x)) < Cardinality(Ways)
<1> DEFINE U == UsedAfter(lastTaken, SetBranches(s), x)
           others == Ways \ {w}
           f == [y \in U |-> CHOOSE v : LineOfBranch(btb, lastTaken, s, v, y)]
<1>1. bpConfig \in PredictorConfigs
  BY DEF LinesInv, BtbInv, TablesTyped
<1>2. /\ \A y \in DOMAIN lastTaken : lastTaken[y] \in Nat
      /\ \A z \in DOMAIN lastTaken :
           \/ \E v : LineOfBranch(btb, lastTaken, SetOf(z), v, z)
           \/ \A v \in Ways :
                /\ btb[SetOf(z)][v].valid
                /\ \A y : LineOfBranch(btb, lastTaken, SetOf(z), v, y) => lastTaken[z] < lastTaken[y]
  BY DEF RecentInv, AgedByUse
<1>3. w \in Ways /\ x \in DOMAIN lastTaken
  BY DEF LineOfBranch
<1>4. ASSUME NEW y \in U PROVE LineOfBranch(btb, lastTaken, s, f[y], y) /\ f[y] \in others
  <2>1. y \in DOMAIN lastTaken /\ SetOf(y) = s /\ lastTaken[y] > lastTaken[x]
    BY DEF UsedAfter, SetBranches
  <2>2. \E v : LineOfBranch(btb, lastTaken, s, v, y)
    <3>1. SUFFICES ASSUME ~\E v : LineOfBranch(btb, lastTaken, s, v, y) PROVE FALSE
      OBVIOUS
    <3>2. lastTaken[y] < lastTaken[x]
      BY <1>2, <1>3, <2>1, <3>1
    <3> QED
      BY <1>2, <1>3, <2>1, <3>2
  <2>3. LineOfBranch(btb, lastTaken, s, f[y], y)
    BY <2>2
  <2>4. f[y] \in Ways
    BY <2>3 DEF LineOfBranch
  <2>5. f[y] # w
    <3>1. SUFFICES ASSUME f[y] = w PROVE FALSE
      OBVIOUS
    <3>2. btb[s][w].valid
      BY DEF LineOfBranch
    <3>3. \A z : LineOfBranch(btb, lastTaken, s, w, z) => z = PcOf(s, btb[s][w])
      BY <1>3, <3>2, LineNamesBranch
    <3>4. y = x
      BY <2>3, <3>1, <3>3
    <3> QED
      BY <1>2, <1>3, <2>1, <3>4
  <2> QED
    BY <2>3, <2>4, <2>5
<1>5. ASSUME NEW y \in U, NEW z \in U, f[y] = f[z] PROVE y = z
  <2>1. LineOfBranch(btb, lastTaken, s, f[y], y) /\ LineOfBranch(btb, lastTaken, s, f[y], z)
    BY <1>4, <1>5
  <2>2. f[y] \in Ways /\ btb[s][f[y]].valid
    BY <2>1 DEF LineOfBranch
  <2>3. \A u : LineOfBranch(btb, lastTaken, s, f[y], u) => u = PcOf(s, btb[s][f[y]])
    BY <2>2, LineNamesBranch
  <2> QED
    BY <2>1, <2>3
<1>6. f \in Injection(U, others)
  <2>1. f \in [U -> others]
    BY <1>4
  <2> QED
    BY <1>5, <2>1 DEF Injection, IsInjective
<1> HIDE DEF f, U
<1>7. /\ IsFiniteSet(others) /\ Cardinality(others) = Cardinality(Ways) - 1
      /\ Cardinality(Ways) \in Nat
  BY <1>1, <1>3, WaysFinite, FS_RemoveElement
<1> HIDE DEF others
<1>8. Cardinality(U) <= Cardinality(others) /\ IsFiniteSet(U)
  BY <1>6, <1>7, FS_Injection
<1>9. Cardinality(U) \in Nat
  BY <1>8, FS_CardinalityType
<1>10. Cardinality(U) < Cardinality(Ways)
  BY <1>7, <1>8, <1>9
<1> QED
  BY <1>10 DEF U

(* A branch without a line has one taken after it in every way. *)
LEMMA RecentIsHeld ==
  ASSUME LinesInv, RecentInv, NEW s \in BtbSets, NEW x \in DOMAIN lastTaken, SetOf(x) = s,
         Cardinality(UsedAfter(lastTaken, SetBranches(s), x)) < Cardinality(Ways)
  PROVE  \E w : LineOfBranch(btb, lastTaken, s, w, x)
<1> DEFINE U == UsedAfter(lastTaken, SetBranches(s), x)
           f == [w \in Ways |-> PcOf(s, btb[s][w])]
<1>1. bpConfig \in PredictorConfigs
  BY DEF LinesInv, BtbInv, TablesTyped
<1>2. SUFFICES ASSUME ~\E w : LineOfBranch(btb, lastTaken, s, w, x) PROVE FALSE
  OBVIOUS
<1>3. \A w \in Ways :
        /\ btb[s][w].valid
        /\ \A y : LineOfBranch(btb, lastTaken, s, w, y) => lastTaken[x] < lastTaken[y]
  BY <1>2 DEF RecentInv, AgedByUse
<1>4. \A y \in DOMAIN lastTaken : lastTaken[y] \in Nat
  BY DEF RecentInv, AgedByUse
<1>5. ASSUME NEW w \in Ways
      PROVE  LineOfBranch(btb, lastTaken, s, w, f[w]) /\ f[w] \in U
  <2>1. btb[s][w].valid
    BY <1>3
  <2>2. PcOf(s, btb[s][w]) \in Pcs /\ LineOfBranch(btb, lastTaken, s, w, PcOf(s, btb[s][w]))
    BY <2>1, LineNamesBranch
  <2>3. f[w] = PcOf(s, btb[s][w])
    OBVIOUS
  <2> HIDE DEF f
  <2>4. f[w] \in DOMAIN lastTaken /\ SetOf(f[w]) = s
    BY <2>2, <2>3 DEF LineOfBranch
  <2>5. lastTaken[x] < lastTaken[f[w]]
    BY <1>3, <2>2, <2>3
  <2>6. lastTaken[f[w]] > lastTaken[x]
    BY <1>4, <2>4, <2>5
  <2> QED
    BY <2>2, <2>3, <2>4, <2>6 DEF UsedAfter, SetBranches
<1>6. ASSUME NEW v \in Ways, NEW w \in Ways, f[v] = f[w] PROVE v = w
  <2>1. LineOfBranch(btb, lastTaken, s, v, f[v]) /\ LineOfBranch(btb, lastTaken, s, w, f[v])
    BY <1>5, <1>6
  <2>2. btb[s][v].valid /\ btb[s][w].valid /\ btb[s][v].tag = btb[s][w].tag
    BY <2>1 DEF LineOfBranch
  <2> QED
    BY <2>2 DEF LinesInv, BtbInv, LinesDistinct
<1>7. f \in Injection(Ways, U)
  <2>1. f \in [Ways -> U]
    BY <1>5
  <2> QED
    BY <1>6, <2>1 DEF Injection, IsInjective
<1>8. IsFiniteSet(U)
  <2>1. IsFiniteSet(Word)
    BY WordAssumption, FS_Interval DEF Word
  <2>2. U \in SUBSET Word
    BY TrainingAssumption DEF UsedAfter, SetBranches
  <2> QED
    BY <2>1, <2>2, FS_Subset
<1> HIDE DEF f, U
<1>9. Cardinality(Ways) <= Cardinality(U)
  BY <1>7, <1>8, FS_Injection
<1>10. Cardinality(U) \in Nat /\ Cardinality(Ways) \in Nat
  BY <1>1, <1>8, WaysFinite, FS_CardinalityType
<1>11. Cardinality(U) < Cardinality(Ways)
  BY DEF U
<1> QED
  BY <1>9, <1>10, <1>11

(* The ages come to least-recently-used replacement, for every size of the *)
(* BTB and whatever is trained: each set has a line for each of the        *)
(* branches last taken in it, with its last target, and for no other.      *)
THEOREM RecentBranchesKept == Spec => []KeepsRecentBranches
<1>1. ASSUME LinesInv, RecentInv PROVE KeepsRecentBranches
  <2> SUFFICES ASSUME NEW s \in BtbSets
               PROVE  /\ {PcOf(s, btb[s][w]) : w \in ValidWays(s)}
                           = LastUsed(lastTaken, SetBranches(s), Cardinality(Ways))
                      /\ \A v, w \in ValidWays(s) :
                           LET p == PcOf(s, btb[s][v])
                               q == PcOf(s, btb[s][w])
                           IN  /\ btb[s][v].target = lastTarget[p]
                               /\ p = q => v = w
                               /\ btb[s][v].age < btb[s][w].age <=> lastTaken[p] < lastTaken[q]
    BY DEF KeepsRecentBranches, SetBranches
  <2>1. \A w \in ValidWays(s) : w \in Ways /\ btb[s][w].valid
    BY DEF ValidWays
  <2>2. \A w \in ValidWays(s) :
          /\ PcOf(s, btb[s][w]) \in Pcs
          /\ LineOfBranch(btb, lastTaken, s, w, PcOf(s, btb[s][w]))
          /\ btb[s][w].target = lastTarget[PcOf(s, btb[s][w])]
    BY <1>1, <2>1, LineNamesBranch
  <2>3. ASSUME NEW w \in ValidWays(s)
        PROVE  PcOf(s, btb[s][w]) \in LastUsed(lastTaken, SetBranches(s), Cardinality(Ways))
    <3> DEFINE x == PcOf(s, btb[s][w])
    <3>1. x \in Pcs /\ LineOfBranch(btb, lastTaken, s, w, x)
      BY <2>2
    <3> HIDE DEF x
    <3>2. Cardinality(UsedAfter(lastTaken, SetBranches(s), x)) < Cardinality(Ways)
      BY <1>1, <3>1, HeldIsRecent
    <3>3. x \in DOMAIN lastTaken \cap SetBranches(s)
      BY <3>1 DEF LineOfBranch, SetBranches
    <3>4. x \in LastUsed(lastTaken, SetBranches(s), Cardinality(Ways))
      BY <3>2, <3>3 DEF LastUsed
    <3> QED
      BY <3>4 DEF x
  <2>4. ASSUME NEW x \in LastUsed(lastTaken, SetBranches(s), Cardinality(Ways))
        PROVE  \E w \in ValidWays(s) : x = PcOf(s, btb[s][w])
    <3>1. /\ x \in DOMAIN lastTaken /\ SetOf(x) = s
          /\ Cardinality(UsedAfter(lastTaken, SetBranches(s), x)) < Cardinality(Ways)
      BY DEF LastUsed, SetBranches
    <3>2. PICK w : LineOfBranch(btb, lastTaken, s, w, x)
      BY <1>1, <3>1, RecentIsHeld
    <3>3. w \in Ways /\ btb[s][w].valid
      BY <3>2 DEF LineOfBranch
    <3>4. \A y : LineOfBranch(btb, lastTaken, s, w, y) => y = PcOf(s, btb[s][w])
      BY <1>1, <3>3, LineNamesBranch
    <3> QED
      BY <3>2, <3>3, <3>4 DEF ValidWays
  <2>5. ASSUME NEW v \in ValidWays(s), NEW w \in ValidWays(s)
        PROVE  LET p == PcOf(s, btb[s][v])
                   q == PcOf(s, btb[s][w])
               IN  /\ btb[s][v].target = lastTarget[p]
                   /\ p = q => v = w
                   /\ btb[s][v].age < btb[s][w].age <=> lastTaken[p] < lastTaken[q]
    <3> DEFINE p == PcOf(s, btb[s][v])
               q == PcOf(s, btb[s][w])
    <3>1. /\ LineOfBranch(btb, lastTaken, s, v, p) /\ LineOfBranch(btb, lastTaken, s, w, q)
          /\ btb[s][v].target = lastTarget[p]
      BY <2>2
    <3> HIDE DEF p, q
    <3>2. btb[s][v].age < btb[s][w].age <=> lastTaken[p] < lastTaken[q]
      BY <1>1, <3>1 DEF RecentInv, AgedByUse
    <3>3. ASSUME p = q PROVE v = w
      <4>1. btb[s][v].tag = btb[s][w].tag
        BY <3>1, <3>3 DEF LineOfBranch
      <4> QED
        BY <1>1, <2>1, <4>1 DEF LinesInv, BtbInv, LinesDistinct
    <3> QED
      BY <3>1, <3>2, <3>3 DEF p, q
  <2>6. {PcOf(s, btb[s][w]) : w \in ValidWays(s)}
          = LastUsed(lastTaken, SetBranches(s), Cardinality(Ways))
    BY <2>3, <2>4
  <2> QED
    BY <2>5, <2>6
<1> QED
  BY <1>1, LinesInvariant, RecentInvariant, PTL
=============================================================================
