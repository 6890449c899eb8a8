----------------------- MODULE BranchPredictorProofs ------------------------
(***************************************************************************)
(* What module BranchOracle promises of the predictor, for tables of every *)
(* size: each line of the BTB has the last target of the branch that its   *)
(* set and tag name, and no branch has two lines.                          *)
(***************************************************************************)
EXTENDS BranchPredictor, BranchOracle, FiniteSetTheorems, TLAPS

-----------------------------------------------------------------------------
(* The tables *)

LEMMA TableSizes ==
  ASSUME bpConfig \in PredictorConfigs
  PROVE  btbSetCount \in Nat \ {0} /\ counterCount \in Nat \ {0}
<1>1. bpConfig \in BranchPredictorConfig
  BY PredictorAssumption
<1>2. counterCount \in Nat \ {0}
  BY <1>1 DEF counterCount, BranchPredictorConfig
<1>3. Cardinality(Ways) \in Nat \ {0}
  <2> DEFINE top == (IF bpConfig.btbAssociativity > 1 THEN bpConfig.btbAssociativity ELSE 1) - 1
  <2>1. top \in Nat
    BY <1>1 DEF BranchPredictorConfig
  <2> HIDE DEF top
  <2>2. Cardinality(0 .. top) = top + 1
    BY <2>1, FS_Interval
  <2> QED
    BY <2>1, <2>2 DEF Ways, top
<1>4. bpConfig.btbEntries \div Cardinality(Ways) \in Int
  BY <1>1, <1>3 DEF BranchPredictorConfig
<1>5. btbSetCount \in Nat \ {0}
  <2> DEFINE sets == bpConfig.btbEntries \div Cardinality(Ways)
  <2> HIDE DEF sets
  <2>1. (IF sets > 1 THEN sets ELSE 1) \in Nat \ {0}
    BY <1>4 DEF sets
  <2> QED
    BY <2>1 DEF btbSetCount, sets
<1> QED
  BY <1>2, <1>5

(* The set and the tag of a pc make up the pc without its two lowest bits. *)
LEMMA SetAndTag ==
  ASSUME NEW n \in Nat \ {0}, NEW x \in Nat
  PROVE  /\ (x \div 4) % n \in 0 .. n - 1
         /\ x \div (4 * n) \in Nat
         /\ x \div 4 = (n * (x \div (4 * n))) + ((x \div 4) % n)
<1> DEFINE q == x \div 4
           a == q \div n
           b == q % n
           t == x \div (4 * n)
           u == x % (4 * n)
<1>1. q \in Nat /\ 4 * q <= x /\ x < 4 * q + 4
  OBVIOUS
<1>2. a \in Int /\ b \in 0 .. n - 1 /\ q = (n * a) + b
  BY <1>1
<1>3. t \in Int /\ u \in 0 .. 4 * n - 1 /\ x = (4 * n) * t + u
  <2> DEFINE m == 4 * n
  <2>1. m \in Nat \ {0}
    OBVIOUS
  <2> HIDE DEF m
  <2>2. x \div m \in Int /\ x % m \in 0 .. m - 1 /\ x = m * (x \div m) + (x % m)
    BY <2>1
  <2> QED
    BY <2>2 DEF m
<1> HIDE DEF a, b, t, u
<1>4. (4 * n) * t = 4 * (n * t) /\ n * t \in Int
  BY <1>3
<1>5. PICK v \in 0 .. n - 1 : q = n * t + v
  <2>1. n * t <= q
    BY <1>1, <1>3, <1>4
  <2>2. q < n * t + n
    BY <1>1, <1>3, <1>4
  <2>3. q - n * t \in 0 .. n - 1 /\ q = n * t + (q - n * t)
    <3> DEFINE p == n * t
    <3>1. p \in Int /\ p <= q /\ q < p + n
      BY <1>4, <2>1, <2>2
    <3> HIDE DEF p, q
    <3>2. q - p \in 0 .. n - 1 /\ q = p + (q - p)
      BY <1>1, <3>1
    <3> QED
      BY <3>2 DEF p
  <2> QED
    BY <2>3
<1>6. \A i, j \in Int : i < j => n * i + n <= n * j
  OBVIOUS
<1>7. a = t
  <2>1. ~(a < t)
    BY <1>2, <1>3, <1>5, <1>6
  <2>2. ~(t < a)
    BY <1>2, <1>3, <1>5, <1>6
  <2> QED
    BY <1>2, <1>3, <2>1, <2>2
<1>8. t \in Nat
  <2>1. ~(t < 0)
    BY <1>1, <1>3, <1>5, <1>6
  <2> QED
    BY <1>3, <2>1
<1> QED
  BY <1>2, <1>7, <1>8 DEF b, t

-----------------------------------------------------------------------------
(* What the lines hold *)

TablesTyped ==
  /\ bpConfig \in PredictorConfigs
  /\ btb \in [BtbSets -> [Ways -> BtbLine]]
  /\ btbClock \in Nat

(* Of the pcs of a program, set and tag name one. *)
Identified(A) ==
  \A x, y \in A : SetOf(x) = SetOf(y) /\ TagOf(x) = TagOf(y) => x = y

(* Each line is that of a branch that was trained, with its last target.   *)
LinesCurrent ==
  \A s \in BtbSets, w \in Ways : btb[s][w].valid =>
    \E x \in DOMAIN lastTarget : /\ SetOf(x) = s /\ TagOf(x) = btb[s][w].tag
                                 /\ btb[s][w].target = lastTarget[x]

(* No branch has two. *)
LinesDistinct ==
  \A s \in BtbSets, v, w \in Ways :
    btb[s][v].valid /\ btb[s][w].valid /\ btb[s][v].tag = btb[s][w].tag => v = w

BtbInv(A) ==
  TablesTyped /\ LinesCurrent /\ LinesDistinct /\ DOMAIN lastTarget \subseteq A

(* Pcs that agree in their lowest two bits are identified. *)
LEMMA SameAlignment ==
  ASSUME bpConfig \in PredictorConfigs, NEW A \in SUBSET Nat,
         \A x, y \in A : x % 4 = y % 4
  PROVE  Identified(A) /\ \A x \in A : SetOf(x) \in BtbSets /\ TagOf(x) \in Nat
<1> DEFINE n == btbSetCount
<1>1. n \in Nat \ {0}
  BY TableSizes
<1> HIDE DEF n
<1>2. ASSUME NEW x \in A
      PROVE  /\ SetOf(x) \in 0 .. n - 1 /\ TagOf(x) \in Nat
             /\ x \div 4 = (n * TagOf(x)) + SetOf(x)
  BY <1>1, <1>2, SetAndTag DEF SetOf, TagOf, n
<1>3. ASSUME NEW x \in A, NEW y \in A, SetOf(x) = SetOf(y), TagOf(x) = TagOf(y)
      PROVE  x = y
  <2>1. x \div 4 = y \div 4
    BY <1>2, <1>3
  <2>2. x % 4 = y % 4
    OBVIOUS
  <2> QED
    BY <2>1, <2>2
<1> QED
  BY <1>2, <1>3 DEF Identified, BtbSets, n

LEMMA InitLines ==
  ASSUME PredictorInit, OracleInit, NEW A
  PROVE  BtbInv(A)
<1>1. btb \in [BtbSets -> [Ways -> BtbLine]] /\ \A s \in BtbSets, w \in Ways : ~btb[s][w].valid
  BY WordAssumption DEF PredictorInit, BtbLine, Word
<1>2. TablesTyped
  BY <1>1 DEF PredictorInit, TablesTyped
<1>3. DOMAIN lastTarget = {}
  BY DEF OracleInit, NoEntries
<1> QED
  BY <1>1, <1>2, <1>3 DEF BtbInv, LinesCurrent, LinesDistinct

(* A prediction is the fall-through, or the last target of its branch.     *)
LEMMA PredictionAllowed ==
  ASSUME NEW A, BtbInv(A), Identified(A), NEW pc \in A, SetOf(pc) \in BtbSets
  PROVE  [taken  |-> predict(pc).taken,
          target |-> IF predict(pc).taken THEN predict(pc).target ELSE WordAdd(pc, 4)]
           \in Predictions(pc)
<1> DEFINE p == predict(pc)
<1>1. p.target = WordAdd(pc, 4) \/ \E x \in DOMAIN lastTarget \cap {pc} : p.target = lastTarget[x]
  <2>1. CASE Hits(pc) = {}
    BY <2>1 DEF predict
  <2>2. CASE Hits(pc) # {}
    <3>1. PICK w \in Hits(pc) : TRUE
      BY <2>2
    <3>2. Hits(pc) = {w}
      BY <3>1 DEF Hits, BtbInv, LinesDistinct
    <3>3. Min(Hits(pc)) = w
      <4>1. w \in Int
        BY <3>1 DEF Hits, Ways
      <4> QED
        BY <3>2, <4>1 DEF Min
    <3>4. PICK x \in DOMAIN lastTarget :
            /\ SetOf(x) = SetOf(pc) /\ TagOf(x) = btb[SetOf(pc)][w].tag
            /\ btb[SetOf(pc)][w].target = lastTarget[x]
      BY <3>1 DEF Hits, BtbInv, LinesCurrent
    <3>5. x = pc
      BY <3>1, <3>4 DEF Hits, Identified, BtbInv
    <3>6. p.target = lastTarget[pc]
      BY <2>2, <3>3, <3>4, <3>5 DEF predict
    <3> QED
      BY <3>4, <3>5, <3>6
  <2> QED
    BY <2>1, <2>2
<1>2. p.taken \in BOOLEAN
  BY DEF predict
<1> HIDE DEF p
<1>3. ASSUME p.taken
      PROVE  [taken |-> TRUE, target |-> p.target] \in Predictions(pc)
  BY <1>1 DEF Predictions
<1>4. [taken |-> FALSE, target |-> WordAdd(pc, 4)] \in Predictions(pc)
  BY DEF Predictions
<1>5. [taken |-> p.taken, target |-> IF p.taken THEN p.target ELSE WordAdd(pc, 4)]
        \in Predictions(pc)
  <2>1. CASE p.taken = TRUE
    BY <1>3, <2>1
  <2>2. CASE p.taken = FALSE
    BY <1>4, <2>2
  <2> QED
    BY <1>2, <2>1, <2>2
<1> QED
  BY <1>5 DEF p

LEMMA SetsStay ==
  ASSUME UNCHANGED bpConfig
  PROVE  /\ BtbSets' = BtbSets /\ Ways' = Ways
         /\ \A x : SetOf(x)' = SetOf(x) /\ TagOf(x)' = TagOf(x)
BY DEF BtbSets, btbSetCount, Ways, SetOf, TagOf

(* Without a taken branch nothing changes. *)
LEMMA LinesStay ==
  ASSUME NEW A, BtbInv(A), UNCHANGED <<bpConfig, btb, btbClock, lastTarget>>
  PROVE  BtbInv(A)'
BY SetsStay DEF BtbInv, TablesTyped, LinesCurrent, LinesDistinct

(* A taken branch has its line, new or old, with its new target; every     *)
(* other line is that of another branch.                                   *)
LEMMA UpdateKeepsLines ==
  ASSUME NEW A, BtbInv(A), NEW pc \in A, SetOf(pc) \in BtbSets, TagOf(pc) \in Nat,
         NEW target \in Word, UNCHANGED bpConfig, updateBtb(pc, target),
         lastTarget' = Put(lastTarget, pc, target)
  PROVE  BtbInv(A)'
<1> DEFINE s == SetOf(pc)
           w == IF Hits(pc) # {} THEN Min(Hits(pc)) ELSE VictimLine(s)
           line == [valid |-> TRUE, tag |-> TagOf(pc), target |-> target,
                    age |-> btbClock + 1]
<1>1. btb' = [btb EXCEPT ![s][w] = line] /\ btbClock' = btbClock + 1
  BY DEF updateBtb
<1>2. btb \in [BtbSets -> [Ways -> BtbLine]] /\ btbClock \in Nat /\ line \in BtbLine
  BY DEF BtbInv, TablesTyped, BtbLine
<1>3. line.valid /\ line.tag = TagOf(pc) /\ line.target = target
  OBVIOUS
<1>4. ASSUME NEW v \in Ways, btb[s][v].valid, btb[s][v].tag = TagOf(pc)
      PROVE  v = w
  <2>1. v \in Hits(pc)
    BY <1>4 DEF Hits
  <2>2. Hits(pc) = {v}
    BY <1>4, <2>1 DEF Hits, BtbInv, LinesDistinct
  <2>3. v \in Int
    BY DEF Ways
  <2> QED
    BY <2>2, <2>3 DEF Min
<1> HIDE DEF w, line
<1>5. \A r \in BtbSets, v \in Ways :
        btb'[r][v] = IF r = s /\ v = w THEN line ELSE btb[r][v]
  BY <1>1, <1>2
<1>6. TablesTyped'
  <2>1. btb' \in [BtbSets -> [Ways -> BtbLine]]
    BY <1>1, <1>2
  <2> QED
    BY <1>1, <1>2, <2>1, SetsStay DEF BtbInv, TablesTyped
<1>7. LinesCurrent'
  <2> SUFFICES ASSUME NEW r \in BtbSets, NEW v \in Ways, btb'[r][v].valid
               PROVE  \E x \in DOMAIN lastTarget' :
                        /\ SetOf(x) = r /\ TagOf(x) = btb'[r][v].tag
                        /\ btb'[r][v].target = lastTarget'[x]
    BY SetsStay DEF LinesCurrent
  <2>1. CASE r = s /\ v = w
    BY <1>3, <1>5, <2>1 DEF Put
  <2>2. CASE ~(r = s /\ v = w)
    <3>1. btb'[r][v] = btb[r][v]
      BY <1>5, <2>2
    <3>2. PICK x \in DOMAIN lastTarget : /\ SetOf(x) = r /\ TagOf(x) = btb[r][v].tag
                                         /\ btb[r][v].target = lastTarget[x]
      BY <3>1 DEF BtbInv, LinesCurrent
    <3>3. x # pc
      BY <1>4, <2>2, <3>1, <3>2
    <3>4. x \in DOMAIN lastTarget' /\ lastTarget'[x] = lastTarget[x]
      BY <3>2, <3>3 DEF Put
    <3> QED
      BY <3>1, <3>2, <3>4
  <2> QED
    BY <2>1, <2>2
<1>8. LinesDistinct'
  <2> SUFFICES ASSUME NEW r \in BtbSets, NEW u \in Ways, NEW v \in Ways,
                      btb'[r][u].valid, btb'[r][v].valid, btb'[r][u].tag = btb'[r][v].tag
               PROVE  u = v
    BY SetsStay DEF LinesDistinct
  <2>1. CASE r # s
    BY <1>5, <2>1 DEF BtbInv, LinesDistinct
  <2>2. CASE r = s /\ u # w /\ v # w
    BY <1>5, <2>2 DEF BtbInv, LinesDistinct
  <2>3. CASE r = s /\ u = w /\ v # w
    BY <1>3, <1>4, <1>5, <2>3
  <2>4. CASE r = s /\ u # w /\ v = w
    BY <1>3, <1>4, <1>5, <2>4
  <2> QED
    BY <2>1, <2>2, <2>3, <2>4
<1>9. DOMAIN lastTarget' \subseteq A
  BY DEF BtbInv, Put
<1> QED
  BY <1>6, <1>7, <1>8, <1>9 DEF BtbInv

LEMMA TrainingKeepsLines ==
  ASSUME NEW A, BtbInv(A), NEW pc \in A, SetOf(pc) \in BtbSets, TagOf(pc) \in Nat,
         NEW taken \in BOOLEAN, NEW target \in Word, NEW predicted, NEW next,
         taken => next = target,
         train(pc, predicted, taken, next), update(pc, taken, target)
  PROVE  BtbInv(A)'
<1>1. UNCHANGED bpConfig
  BY DEF train
<1>2. CASE taken
  <2>1. updateBtb(pc, target) /\ lastTarget' = Put(lastTarget, pc, target)
    BY <1>2 DEF train, update
  <2> QED
    BY <1>1, <2>1, UpdateKeepsLines
<1>3. CASE ~taken
  BY <1>1, <1>3, LinesStay DEF train, update
<1> QED
  BY <1>2, <1>3

-----------------------------------------------------------------------------
(* What is counted *)

Wrong(predicted, taken, target) ==
  predicted.taken # taken \/ (taken /\ predicted.target # target)

(* An outcome belongs to one class. *)
LEMMA CountedOnce ==
  ASSUME NEW predicted, NEW taken \in BOOLEAN, NEW target
  PROVE  LET names == Counted(predicted, taken, target)
         IN  /\ "predictions" \in names /\ "btbHits" \notin names /\ "btbMisses" \notin names
             /\ \/ /\ "correct" \in names /\ "directionMispredictions" \notin names
                   /\ "targetMispredictions" \notin names
                   /\ ~Wrong(predicted, taken, target)
                \/ /\ "correct" \notin names /\ "directionMispredictions" \in names
                   /\ "targetMispredictions" \notin names /\ predicted.taken # taken
                   /\ Wrong(predicted, taken, target)
                \/ /\ "correct" \notin names /\ "directionMispredictions" \notin names
                   /\ "targetMispredictions" \in names /\ predicted.taken = taken
                   /\ Wrong(predicted, taken, target)
<1>1. CASE predicted.taken # taken
  BY <1>1 DEF Counted, Wrong
<1>2. CASE predicted.taken = taken /\ (~taken \/ predicted.target = target)
  BY <1>2 DEF Counted, Wrong
<1>3. CASE predicted.taken = taken /\ taken /\ predicted.target # target
  BY <1>3 DEF Counted, Wrong
<1> QED
  BY <1>1, <1>2, <1>3

LEMMA TrainingCounts ==
  ASSUME bpStats \in BranchPredictorStats, NEW pc, NEW predicted, NEW taken \in BOOLEAN,
         NEW target, train(pc, predicted, taken, target)
  PROVE  /\ bpStats' \in BranchPredictorStats
         /\ bpStats'.predictions = bpStats.predictions + 1
         /\ bpStats'.btbHits = bpStats.btbHits /\ bpStats'.btbMisses = bpStats.btbMisses
         /\ bpStats'.correct = bpStats.correct
              + (IF Wrong(predicted, taken, target) THEN 0 ELSE 1)
         /\ bpStats'.directionMispredictions + bpStats'.targetMispredictions
              = bpStats.directionMispredictions + bpStats.targetMispredictions
                  + (IF Wrong(predicted, taken, target) THEN 1 ELSE 0)
         /\ bpStats'.targetMispredictions = bpStats.targetMispredictions
              + (IF Wrong(predicted, taken, target) /\ predicted.taken = taken THEN 1 ELSE 0)
<1> DEFINE names == Counted(predicted, taken, target)
           up(n) == IF n \in names THEN bpStats[n] + 1 ELSE bpStats[n]
<1>1. bpStats' = [c \in DOMAIN bpStats |-> IF c \in names THEN bpStats[c] + 1 ELSE bpStats[c]]
  BY DEF train, CountOutcome
<1>2. /\ "predictions" \in names /\ "btbHits" \notin names /\ "btbMisses" \notin names
      /\ \/ /\ "correct" \in names /\ "directionMispredictions" \notin names
            /\ "targetMispredictions" \notin names
            /\ ~Wrong(predicted, taken, target)
         \/ /\ "correct" \notin names /\ "directionMispredictions" \in names
            /\ "targetMispredictions" \notin names /\ predicted.taken # taken
            /\ Wrong(predicted, taken, target)
         \/ /\ "correct" \notin names /\ "directionMispredictions" \notin names
            /\ "targetMispredictions" \in names /\ predicted.taken = taken
            /\ Wrong(predicted, taken, target)
  BY CountedOnce
<1> HIDE DEF names
<1>3. bpStats' = [predictions |-> up("predictions"), correct |-> up("correct"),
                  directionMispredictions |-> up("directionMispredictions"),
                  targetMispredictions |-> up("targetMispredictions"),
                  btbHits |-> up("btbHits"), btbMisses |-> up("btbMisses")]
  <2>1. DOMAIN bpStats = {"predictions", "correct", "directionMispredictions",
                          "targetMispredictions", "btbHits", "btbMisses"}
    BY DEF BranchPredictorStats
  <2>2. bpStats' = [n \in DOMAIN bpStats |-> up(n)]
    BY <1>1
  <2> HIDE DEF up
  <2> QED
    BY <2>1, <2>2
<1>4. /\ up("predictions") = bpStats.predictions + 1
      /\ up("btbHits") = bpStats.btbHits /\ up("btbMisses") = bpStats.btbMisses
      /\ up("correct") = bpStats.correct + (IF Wrong(predicted, taken, target) THEN 0 ELSE 1)
      /\ up("directionMispredictions") + up("targetMispredictions")
              = bpStats.directionMispredictions + bpStats.targetMispredictions
                  + (IF Wrong(predicted, taken, target) THEN 1 ELSE 0)
      /\ up("targetMispredictions") = bpStats.targetMispredictions
              + (IF Wrong(predicted, taken, target) /\ predicted.taken = taken THEN 1 ELSE 0)
      /\ up("predictions") \in Nat /\ up("correct") \in Nat
      /\ up("directionMispredictions") \in Nat /\ up("targetMispredictions") \in Nat
      /\ up("btbHits") \in Nat /\ up("btbMisses") \in Nat
  BY <1>2 DEF BranchPredictorStats
<1> HIDE DEF up
<1> QED
  BY <1>3, <1>4 DEF BranchPredictorStats
=============================================================================
