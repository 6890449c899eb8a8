--------------------------- MODULE ExecutionUnits ---------------------------
(***************************************************************************)
(* ExecutionUnits.cpp: the instructions being executed, with the cycles    *)
(* each has left.  The three lists alu_, branch_ and loadStore_ are one    *)
(* partial function from sequence numbers to [unit, remaining]: only their *)
(* lengths and contents matter, as tick() sorts what it returns.           *)
(***************************************************************************)
EXTENDS IssueQueue

CONSTANTS
  AluUnits, BranchUnits, LoadStoreUnits,
  AluLatency, BranchLatency, LoadStoreBaseLatency

ASSUME UnitsAssumption ==
  /\ AluUnits \in Nat /\ BranchUnits \in Nat /\ LoadStoreUnits \in Nat
  /\ AluLatency \in Nat /\ BranchLatency \in Nat /\ LoadStoreBaseLatency \in Nat

Unit == {"alu", "branch", "loadStore"}

Active == [unit : Unit, remaining : Nat]

VARIABLE exec

ExecInit == exec = NoEntries

unitFor(i) == IF i.op \in ControlOps THEN "branch"
              ELSE IF i.op \in MemoryOps THEN "loadStore" ELSE "alu"

capacityFor(i) == CASE unitFor(i) = "branch"    -> BranchUnits
                    [] unitFor(i) = "loadStore" -> LoadStoreUnits
                    [] unitFor(i) = "alu"       -> AluUnits

latencyFor(i) == CASE unitFor(i) = "branch"    -> BranchLatency
                   [] unitFor(i) = "loadStore" -> LoadStoreBaseLatency
                   [] unitFor(i) = "alu"       -> AluLatency

activeFor(i) == Cardinality({s \in DOMAIN exec : exec[s].unit = unitFor(i)})

canAccept(i) == activeFor(i) < capacityFor(i)

start(i, s, extraLatency) ==
  LET cycles == latencyFor(i) + extraLatency
  IN  exec' = Put(exec, s, [unit      |-> unitFor(i),
                            remaining |-> IF cycles < 1 THEN 1 ELSE cycles])

(* tick(): every list counts down and gives up what reached zero. *)
Finishing == {s \in DOMAIN exec : exec[s].remaining <= 1}

tick ==
  exec' = [s \in DOMAIN exec \ Finishing |->
             [unit |-> exec[s].unit, remaining |-> exec[s].remaining - 1]]

(* Mutant: flushed instructions go on executing. *)
flushNothing(s) == UNCHANGED exec

flushYoungerThan(s) == exec' = Only(exec, UpTo(DOMAIN exec, s))
=============================================================================
