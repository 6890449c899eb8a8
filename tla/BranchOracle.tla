---------------------------- MODULE BranchOracle ----------------------------
(***************************************************************************)
(* What the pipeline may assume of BranchPredictor: a direction that can   *)
(* be anything, and a target that is either the fall-through address (BTB  *)
(* miss) or the last target the branch at that pc was trained with (BTB    *)
(* hit; the tag is exact).  The tables behind it are left out.             *)
(***************************************************************************)
EXTENDS Common

VARIABLE lastTarget   \* pc -> the target of the last taken update at that pc

OracleInit == lastTarget = NoEntries

(* predict(pc), with the target InstructionFetch keeps of it. *)
Predictions(pc) ==
  LET fallThrough == WordAdd(pc, 4)
      targets == {fallThrough} \cup {lastTarget[x] : x \in DOMAIN lastTarget \cap {pc}}
  IN  {[taken |-> FALSE, target |-> fallThrough]}
        \cup {[taken |-> TRUE, target |-> t] : t \in targets}

update(pc, taken, target) ==
  lastTarget' = IF taken THEN Put(lastTarget, pc, target) ELSE lastTarget
=============================================================================
