-------------------------- MODULE InstructionFetch --------------------------
(***************************************************************************)
(* InstructionFetch.cpp: the fetch program counter, the cycles it still    *)
(* waits for the instruction cache, and the queue it feeds to rename.      *)
(***************************************************************************)
EXTENDS BranchOracle, Execute

CONSTANTS
  FetchWidth,      \* config_.core.fetchWidth
  MaxQueue,        \* default argument maxQueue of tick (32)
  FetchLatencies   \* latencies accessInstruction may return

ASSUME FetchAssumption ==
  /\ FetchWidth \in Nat /\ MaxQueue \in Nat
  /\ FetchLatencies \subseteq Nat

VARIABLES
  program,      \* the program in memory, fixed for a behaviour
  pc,           \* pc_
  waitCycles,   \* waitCycles_
  fetchQueue    \* Simulator::fetchQueue_, decoded instructions in order

frontVars == <<pc, waitCycles, fetchQueue>>

FetchInit ==
  /\ program \in Programs
  /\ pc = EntryPc
  /\ waitCycles = 0
  /\ fetchQueue = << >>

(* The predictions tick may attach to instruction i at the current pc. *)
PredictionsFor(i) ==
  IF i.op \in Branches \cup {"Jalr"} THEN Predictions(pc)
  ELSE IF i.op = "Jal" THEN {[taken |-> TRUE, target |-> WordAdd(pc, i.imm)]}
  ELSE {[taken |-> FALSE, target |-> WordAdd(pc, 4)]}

WithPrediction(i, p) ==
  [op |-> i.op, rd |-> i.rd, rs1 |-> i.rs1, rs2 |-> i.rs2, imm |-> i.imm,
   pc |-> pc, predictedTaken |-> p.taken, predictedTarget |-> p.target]

(* One iteration of the loop of tick. *)
FetchInstruction(latency, p) ==
  /\ fetchQueue' = Append(fetchQueue, WithPrediction(InstrAt(program, pc), p))
  /\ pc' = p.target
  /\ waitCycles' = IF latency > 1 THEN latency - 1 ELSE waitCycles

(* After which iterations tick leaves the loop early. *)
EndsFetchGroup(latency) == latency > 1 \/ InstrAt(program, pc).op \in ExitOps

(* Mutant: what was fetched on the wrong path stays in the queue. *)
RedirectOnly(target) ==
  /\ pc' = target
  /\ waitCycles' = 0
  /\ UNCHANGED fetchQueue

(* flush(target), together with the fetchQueue_.clear() of its caller. *)
FetchFlush(target) ==
  /\ pc' = target
  /\ waitCycles' = 0
  /\ fetchQueue' = << >>
=============================================================================
