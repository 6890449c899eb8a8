----------------------------- MODULE IssueQueue -----------------------------
(***************************************************************************)
(* IssueQueue.cpp: the renamed instructions that have not been issued.     *)
(* Sequence numbers are pushed in increasing order and removal keeps the   *)
(* order, so the vector is modelled as a set of sequence numbers, scanned  *)
(* in increasing order.                                                    *)
(***************************************************************************)
EXTENDS ReorderBuffer

CONSTANTS
  IssueQueueEntries,   \* config_.core.issueQueueEntries
  IssueWidth           \* config_.core.issueWidth

ASSUME IssueAssumption == IssueQueueEntries \in Nat /\ IssueWidth \in Nat \ {0}

VARIABLE iq      \* entries_

IqInit == iq = {}

IqFull == Cardinality(iq) >= IssueQueueEntries

(* Mutant: the second source is not waited for. *)
SelectableOnFirst(s) ==
  /\ s \in InFlight /\ ~rob[s].issued /\ ~rob[s].ready
  /\ ~(rob[s].inst.op \in Loads /\ hasOlderUnreadyStore(s))
  /\ rob[s].inst.rs1 = 0 \/ PrfReady(rob[s].src1Phys)

(* The test of selectReady on one queue entry. *)
Selectable(s) ==
  /\ s \in InFlight /\ ~rob[s].issued /\ ~rob[s].ready
  /\ ~(rob[s].inst.op \in Loads /\ hasOlderUnreadyStore(s))
  /\ rob[s].inst.rs1 = 0 \/ PrfReady(rob[s].src1Phys)
  /\ rob[s].inst.rs2 = 0 \/ PrfReady(rob[s].src2Phys)

(* The oldest IssueWidth selectable entries. *)
selectReady ==
  LET S == {s \in iq : Selectable(s)}
  IN  {s \in S : Cardinality({t \in S : t < s}) < IssueWidth}
=============================================================================
