-------------------------- MODULE MCBranchTraining --------------------------
(***************************************************************************)
(* Tables for three branches that compete for one set and a fourth: a BTB  *)
(* of two sets of two lines with a global history, and one set of three    *)
(* lines with two counters that all branches share.                        *)
(***************************************************************************)
EXTENDS BranchTraining, Bitwise

XorOp(x, y) == x ^^ y
AndOp(x, y) == x & y

Predictor(mode, counterEntries, lines, ways) ==
  [mode |-> mode, historyBits |-> 2, bimodalEntries |-> counterEntries,
   btbEntries |-> lines, btbAssociativity |-> ways]

BranchPcs == {0, 4, 8, 24}
GoesTo == [pc \in BranchPcs |-> IF pc = 8 THEN {0, 40} ELSE {40}]

TwoPredictors == {Predictor("gshare", 4, 4, 2), Predictor("bimodal", 0, 3, 3)}
=============================================================================
