----------------------------- MODULE RenameUnit -----------------------------
(***************************************************************************)
(* RenameUnit.cpp: the map from architectural to physical registers and    *)
(* the FIFO of free physical registers.  Operations are action fragments   *)
(* over the two variables; the pipeline conjoins them into its stages.     *)
(***************************************************************************)
EXTENDS Common, Sequences

CONSTANT NPhys      \* config_.core.physicalRegisters

(* The constructor refuses fewer physical than architectural registers. *)
ASSUME NPhysAssumption == NPhys \in Nat /\ NPhys >= NArch

Phys == 0 .. NPhys - 1

VARIABLES
  map,        \* map_: the speculative rename map
  freeList    \* freeList_: a deque, allocated at the front, freed at the back

renameVars == <<map, freeList>>

RenameInit ==
  /\ map = [a \in Arch |-> a]
  /\ freeList = [k \in 1 .. NPhys - NArch |-> NArch + k - 1]

physForArch(a) == IF a = 0 THEN 0 ELSE map[a]

canAllocate == freeList # << >>

(* The register 'allocate' hands out next; it is called for a # 0 only. *)
NextFree == Head(freeList)

allocate(a) ==
  /\ canAllocate
  /\ map' = [map EXCEPT ![a] = NextFree]
  /\ freeList' = Tail(freeList)

(* The first NArch registers are dropped, never put on the free list. *)
freePhysical(p) ==
  /\ freeList' = IF p >= NArch THEN Append(freeList, p) ELSE freeList
  /\ UNCHANGED map

Checkpoint == [map : [Arch -> Phys], freeList : Seq(Phys)]

(* Mutant: taken before the destination of the branch is allocated. *)
checkpointEarly == [map |-> map, freeList |-> freeList]

(* checkpoint(), called after the destination is allocated. *)
checkpoint == [map |-> map', freeList |-> freeList']

(* Mutant: the free list comes back, the map does not. *)
restoreFreeListOnly(c) ==
  /\ freeList' = c.freeList
  /\ UNCHANGED map

restore(c) ==
  /\ map' = c.map
  /\ freeList' = c.freeList

RenameTypeOK ==
  /\ map \in [Arch -> Phys]
  /\ freeList \in Seq(Phys)
=============================================================================
