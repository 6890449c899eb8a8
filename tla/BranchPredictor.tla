-------------------------- MODULE BranchPredictor --------------------------
(***************************************************************************)
(* BranchPredictor.cpp: the table of two-bit counters, indexed by the pc   *)
(* or by the pc and the global history, the branch target buffer (BTB)     *)
(* with its sets of aged lines, and the statistics kept on both.           *)
(* Operations are action fragments over predictorVars.                     *)
(***************************************************************************)
EXTENDS Common, FiniteSets, FiniteSetsExt

CONSTANTS
  PredictorConfigs,             \* the configurations considered
  BitXor(_, _), BitAnd(_, _)    \* ^ and & on u32

BranchPredictorConfig ==
  [mode : {"gshare", "bimodal"}, historyBits : Nat, bimodalEntries : Nat,
   btbEntries : Nat, btbAssociativity : Nat]

VARIABLES
  bpConfig,        \* config_
  counters,        \* counters_: one saturating counter 0..3 per index
  globalHistory,   \* globalHistory_: the last historyLength outcomes as bits
  btb,             \* btbSets_
  btbClock,        \* btbClock_
  bpStats          \* stats_

counterCount == IF bpConfig.bimodalEntries > 2 THEN bpConfig.bimodalEntries ELSE 2

Ways == 0 .. (IF bpConfig.btbAssociativity > 1 THEN bpConfig.btbAssociativity ELSE 1) - 1

(* The bits of a u32 shifted left that the mask keeps. *)
historyLength == IF bpConfig.historyBits >= 32 THEN 32 ELSE bpConfig.historyBits

btbSetCount ==
  LET sets == bpConfig.btbEntries \div Cardinality(Ways) IN IF sets > 1 THEN sets ELSE 1

Indices == 0 .. counterCount - 1
BtbSets == 0 .. btbSetCount - 1

(* The values of a history of that length, and set and tag of a            *)
(* word-aligned pc from bits it has.                                       *)
ASSUME PredictorAssumption ==
  \A c \in PredictorConfigs :
    LET histories == 2^(IF c.historyBits >= 32 THEN 32 ELSE c.historyBits) IN
    /\ c \in BranchPredictorConfig
    /\ 4 * c.btbEntries < WordMod
    /\ histories \in Nat \ {0}
    /\ \A x \in Word, h \in 0 .. histories - 1 :
         BitAnd(BitXor(x, h), IF c.bimodalEntries > 2 THEN c.bimodalEntries - 1 ELSE 1) \in Nat

predictorVars == <<bpConfig, counters, globalHistory, btb, btbClock, bpStats>>

BtbLine == [valid : BOOLEAN, tag : Nat, target : Word, age : Nat]

BranchPredictorStats ==
  [predictions : Nat, correct : Nat, directionMispredictions : Nat,
   targetMispredictions : Nat, btbHits : Nat, btbMisses : Nat]

PredictorInit ==
  /\ bpConfig \in PredictorConfigs
  /\ counters = [k \in Indices |-> 1]
  /\ globalHistory = 0
  /\ btb = [s \in BtbSets |->
              [w \in Ways |-> [valid |-> FALSE, tag |-> 0, target |-> 0, age |-> 0]]]
  /\ btbClock = 0
  /\ bpStats = [predictions |-> 0, correct |-> 0, directionMispredictions |-> 0,
                targetMispredictions |-> 0, btbHits |-> 0, btbMisses |-> 0]

-----------------------------------------------------------------------------
(* Indexing *)

(* The history never holds more than historyLength bits, so the mask that    *)
(* directionIndex puts on it again changes nothing.                        *)
directionIndex(pc) ==
  IF bpConfig.mode = "bimodal" THEN (pc \div 4) % counterCount
  ELSE BitAnd(BitXor(pc \div 4, globalHistory), counterCount - 1) % counterCount

(* Mutant: the set is taken from the byte address. *)
byteSetOf(pc) == pc % btbSetCount

SetOf(pc) == (pc \div 4) % btbSetCount
TagOf(pc) == pc \div (4 * btbSetCount)

Hits(pc) == {w \in Ways : btb[SetOf(pc)][w].valid /\ btb[SetOf(pc)][w].tag = TagOf(pc)}

-----------------------------------------------------------------------------
(* predict *)

predict(pc) ==
  [taken  |-> counters[directionIndex(pc)] >= 2,
   btbHit |-> Hits(pc) # {},
   target |-> IF Hits(pc) # {} THEN btb[SetOf(pc)][Min(Hits(pc))].target
                               ELSE WordAdd(pc, 4)]

(* The statistics of one predict. *)
CountLookup(pc) ==
  bpStats' = IF Hits(pc) # {} THEN [bpStats EXCEPT !.btbHits = @ + 1]
                              ELSE [bpStats EXCEPT !.btbMisses = @ + 1]

-----------------------------------------------------------------------------
(* update *)

(* Mutant: correct is decided by the direction alone. *)
CountedByDirection(predicted, taken, target) ==
  {"predictions"}
    \cup {c \in {"correct"} : predicted.taken = taken}
    \cup {c \in {"directionMispredictions"} : predicted.taken # taken}
    \cup {c \in {"targetMispredictions"} :
            predicted.taken = taken /\ taken /\ predicted.target # target}

(* The counters that an outcome increments. *)
Counted(predicted, taken, target) ==
  {"predictions"}
    \cup {c \in {"correct"} :
            predicted.taken = taken /\ (~taken \/ predicted.target = target)}
    \cup {c \in {"directionMispredictions"} : predicted.taken # taken}
    \cup {c \in {"targetMispredictions"} :
            predicted.taken = taken /\ taken /\ predicted.target # target}

(* Mutant: the counter does not stop at 3. *)
unboundedStep(c, taken) == IF taken THEN c + 1 ELSE IF c = 0 THEN 0 ELSE c - 1

Stepped(c, taken) ==
  IF taken THEN (IF c >= 3 THEN 3 ELSE c + 1) ELSE (IF c = 0 THEN 0 ELSE c - 1)

(* min_element: invalid lines first, then the least age, then the first. *)
Before(a, b) == IF a.valid # b.valid THEN ~a.valid ELSE a.age < b.age

(* Mutant: the first way is replaced once the set is full. *)
FirstLine(s) == LET free == {w \in Ways : ~btb[s][w].valid}
               IN  IF free # {} THEN Min(free) ELSE 0

VictimLine(s) == Min({w \in Ways : \A x \in Ways : ~Before(btb[s][x], btb[s][w])})

(* Mutant: training a known branch leaves its age alone. *)
trainWithoutAge(pc, target) ==
  LET s == SetOf(pc)
      w == IF Hits(pc) # {} THEN Min(Hits(pc)) ELSE VictimLine(s)
  IN  /\ btbClock' = btbClock + 1
      /\ btb' = [btb EXCEPT ![s][w] =
                   [valid |-> TRUE, tag |-> TagOf(pc), target |-> target,
                    age |-> IF Hits(pc) # {} THEN @.age ELSE btbClock + 1]]

(* Mutant: a branch already in its set takes a second line. *)
trainAlwaysFill(pc, target) ==
  /\ btbClock' = btbClock + 1
  /\ btb' = [btb EXCEPT ![SetOf(pc)][VictimLine(SetOf(pc))] =
               [valid |-> TRUE, tag |-> TagOf(pc), target |-> target,
                age |-> btbClock + 1]]

updateBtb(pc, target) ==
  LET s == SetOf(pc)
      w == IF Hits(pc) # {} THEN Min(Hits(pc)) ELSE VictimLine(s)
  IN  /\ btbClock' = btbClock + 1
      /\ btb' = [btb EXCEPT ![s][w] =
                   [valid |-> TRUE, tag |-> TagOf(pc), target |-> target,
                    age |-> btbClock + 1]]

(* Mutant: the outcome is compared with what the tables predict by now. *)
CountAfresh(pc, predicted, taken, target) ==
  LET names == Counted(predict(pc), taken, target) IN
  bpStats' = [c \in DOMAIN bpStats |-> IF c \in names THEN bpStats[c] + 1 ELSE bpStats[c]]

CountOutcome(pc, predicted, taken, target) ==
  LET names == Counted(predicted, taken, target) IN
  bpStats' = [c \in DOMAIN bpStats |-> IF c \in names THEN bpStats[c] + 1 ELSE bpStats[c]]

(* update(pc, predicted.taken, predicted.target, taken, target) *)
train(pc, predicted, taken, target) ==
  /\ CountOutcome(pc, predicted, taken, target)
  /\ counters' = [counters EXCEPT ![directionIndex(pc)] = Stepped(@, taken)]
  /\ IF taken THEN updateBtb(pc, target) ELSE UNCHANGED <<btb, btbClock>>
  /\ globalHistory' = (2 * globalHistory + (IF taken THEN 1 ELSE 0)) % 2^historyLength
  /\ UNCHANGED bpConfig
=============================================================================
