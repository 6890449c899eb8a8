---------------------------- MODULE ReorderBuffer ---------------------------
(***************************************************************************)
(* ReorderBuffer.cpp: the instructions in flight, oldest first.  Entries   *)
(* are pushed at the back with a fresh, larger sequence number and leave   *)
(* at either end, so the deque is always sorted by sequence number; it is  *)
(* modelled as a partial function from sequence numbers to entries, whose  *)
(* least key is the head and whose keys order the deque.                   *)
(***************************************************************************)
EXTENDS PhysicalRegisterFile, FiniteSets

CONSTANT RobEntries      \* config_.core.robEntries

ASSUME RobAssumption == RobEntries \in Nat

(* RobEntry without the fields nothing reads back: 'value' (written to the *)
(* register file by the same call) and 'storeSize' (a function of the      *)
(* opcode).  'checkpoint' means something only under hasCheckpoint.        *)
Entry ==
  [inst          : Fetched,
   src1Phys      : Phys,
   src2Phys      : Phys,
   destPhys      : Phys \cup {-1},
   oldDestPhys   : Phys \cup {-1},
   hasDest       : BOOLEAN,
   ready         : BOOLEAN,
   issued        : BOOLEAN,
   exception     : BOOLEAN,
   storeAddress  : Word,
   storeData     : Word,
   hasCheckpoint : BOOLEAN,
   checkpoint    : Checkpoint \cup {NoEntries}]

VARIABLES
  rob,       \* entries_
  nextSeq    \* Simulator::nextSeq_, the source of sequence numbers

robVars == <<rob, nextSeq>>

RobInit == rob = NoEntries /\ nextSeq = 1

InFlight == DOMAIN rob

(* Mutant: one entry more than there is room for. *)
RobOverfull == Cardinality(InFlight) > RobEntries

RobFull == Cardinality(InFlight) >= RobEntries

IsHead(s) == s \in InFlight /\ \A t \in InFlight : s <= t

RobAllocate(entry) ==
  /\ rob' = Put(rob, nextSeq, entry)
  /\ nextSeq' = nextSeq + 1

popHead(s) == rob' = Only(rob, InFlight \ {s})

(* What flushYoungerThan(s) leaves of a set of sequence numbers. *)
UpTo(S, s) == {t \in S : t <= s}

(* Mutant: only the oldest instruction is looked at. *)
headIsUnreadyStore(s) ==
  \E t \in InFlight : t < s /\ IsHead(t) /\ rob[t].inst.op \in Stores /\ ~rob[t].ready

hasOlderUnreadyStore(s) ==
  \E t \in InFlight : t < s /\ rob[t].inst.op \in Stores /\ ~rob[t].ready
=============================================================================
