---------------------------- MODULE CacheTraffic ----------------------------
(***************************************************************************)
(* The cache hierarchy under every sequence of instruction fetches, loads  *)
(* and stores.  The caches of the program hold no data; the history        *)
(* variables follow what they would hold, as versions of lines, and which  *)
(* lines were used last.                                                   *)
(***************************************************************************)
EXTENDS CacheHierarchy, LruSets

CONSTANT
  Traffic(_)    \* of a hierarchy: addresses fetched and accessed, and how often

(* Bounds: maxFetches accesses to L1I and maxData to L1D. *)
ASSUME TrafficAssumption ==
  \A h \in Hierarchies :
    /\ Traffic(h).fetches \subseteq Word /\ Traffic(h).accesses \subseteq Word
    /\ Traffic(h).maxFetches \in Nat /\ Traffic(h).maxData \in Nat
    /\ h.l1d.lineBytes = h.l2.lineBytes   \* so that a version belongs to one line

VARIABLES
  latest,      \* the version last stored to each line
  data,        \* the versions in L1D (d), in L2 (low) and in memory (mem)
  lastUse      \* for l1i, l1d and l2: of each line used, the access that used it last

vars == <<cacheVars, latest, data, lastUse>>

LineOf(g, address) == address \div g.lineBytes

(* The valid places of a level, and the line in each. *)
Held(g, c) == {x \in SetIndices(g) \X WaysOf(g) : c.lines[x[1]][x[2]].valid}

LineIn(g, c, x) == c.lines[x[1]][x[2]].tag * setCount(g) + x[1]

Cached(g, c) == {LineIn(g, c, x) : x \in Held(g, c)}

Dirty(g, c) == {LineIn(g, c, x) : x \in {y \in Held(g, c) : c.lines[y[1]][y[2]].dirty}}

MemoryLines == 0 .. LineOf(L2, WordMod - 1)

Init ==
  /\ CacheInit
  /\ latest = [x \in MemoryLines |-> 0]
  /\ data = [d |-> NoEntries, low |-> NoEntries, mem |-> [x \in MemoryLines |-> 0]]
  /\ lastUse = [l1i |-> NoEntries, l1d |-> NoEntries, l2 |-> NoEntries]

-----------------------------------------------------------------------------
(* Versions *)

(* What a read of line x below the first level returns. *)
Below(h, x) ==
  CASE x \in DOMAIN h.low -> h.low[x]
    [] x \in MemoryLines \ DOMAIN h.low -> h.mem[x]
    [] OTHER -> 0

(* The versions after the second level went from c to cc because line x    *)
(* was accessed and now has version v: dirty lines that left go to memory. *)
LowAfter(h, c, cc, x, v) ==
  LET held == Cached(L2, cc)
      gone == Dirty(L2, c) \ held
  IN  [h EXCEPT !.low = [y \in held |-> IF y = x THEN v ELSE Below(h, y)],
                !.mem = [y \in DOMAIN @ |-> IF y \in gone THEN h.low[y] ELSE @[y]]]

AfterFill(r, x) == LowAfter(data, l2, r.fill, x, Below(data, x))

(* The lines a first-level access drops; at most one. *)
Dropped(r) == Cached(L1D, l1d) \ Cached(L1D, r.level)

(* The content of the dropped line goes to the address the code computed.  *)
AfterWriteBack(r, address) ==
  IF ~r.hit /\ WritesBack(L1D, l1d, address)
    THEN LowAfter(AfterFill(r, LineOf(L2, address)), r.fill, r.lower,
                  LineOf(L2, victimAddress(L1D, l1d, address)),
                  data.d[CHOOSE y \in Dropped(r) : TRUE])
    ELSE AfterFill(r, LineOf(L2, address))

-----------------------------------------------------------------------------
(* Uses *)

(* The next access of level c uses the line of 'address'. *)
UseOf(uses, g, c, address) == Put(uses, LineOf(g, address), c.stats.accesses + 1)

(* L2 is used for the fill of a miss, then for the write-back. *)
LowUses(r, g, c, address) ==
  LET filled == UseOf(lastUse.l2, L2, l2, address)
  IN  IF r.hit THEN lastUse.l2
      ELSE IF WritesBack(g, c, address)
             THEN UseOf(filled, L2, r.fill, victimAddress(g, c, address))
             ELSE filled

-----------------------------------------------------------------------------
FetchLine(address) ==
  LET r == InstructionAccess(address) IN
  /\ l1i.stats.accesses < Traffic(hierarchy).maxFetches
  /\ accessInstruction(address)
  /\ data' = IF r.hit THEN data ELSE AfterFill(r, LineOf(L2, address))
  /\ lastUse' = [lastUse EXCEPT !.l1i = UseOf(@, L1I, l1i, address),
                                !.l2  = LowUses(r, L1I, l1i, address)]
  /\ UNCHANGED latest

AccessLine(address, write) ==
  LET r == DataAccess(address, write)
      x == LineOf(L1D, address)
      low == IF r.hit THEN data ELSE AfterWriteBack(r, address)
      seen == IF r.hit THEN data.d[x] ELSE Below(data, x)
  IN
  /\ l1d.stats.accesses < Traffic(hierarchy).maxData
  /\ accessData(address, write)
  /\ latest' = IF write THEN [latest EXCEPT ![x] = @ + 1] ELSE latest
  /\ data' = [low EXCEPT !.d = [y \in Cached(L1D, r.level) |->
                                  IF y # x THEN data.d[y]
                                  ELSE IF write THEN latest[x] + 1 ELSE seen]]
  /\ lastUse' = [lastUse EXCEPT !.l1d = UseOf(@, L1D, l1d, address),
                                !.l2  = LowUses(r, L1D, l1d, address)]

Next ==
  \/ \E a \in Traffic(hierarchy).fetches : FetchLine(a)
  \/ \E a \in Traffic(hierarchy).accesses, write \in BOOLEAN : AccessLine(a, write)

Spec == Init /\ [][Next]_vars

-----------------------------------------------------------------------------
LevelTypeOK(g, c) ==
  /\ c.lines \in [SetIndices(g) -> [WaysOf(g) -> CacheLine]]
  /\ \A s \in SetIndices(g), w \in WaysOf(g) :
       c.lines[s][w].tag <= (WordMod - 1) \div (g.lineBytes * setCount(g))
  /\ c.plruBits \in [SetIndices(g) -> [PlruNodes(g) -> {0, 1}]]
  /\ c.clock \in Nat
  /\ c.stats \in CacheStats

(* Tags, ways and tree nodes stay in range. *)
CacheTypeOK == LevelTypeOK(L1I, l1i) /\ LevelTypeOK(L1D, l1d) /\ LevelTypeOK(L2, l2)

(* If the caches held data, a load would read the last store to its line,  *)
(* wherever the line has been since: dirty bits, victims and the addresses *)
(* rebuilt for write-backs lose no store, and a stale copy in L2 is never  *)
(* in front of a newer one.                                                *)
NothingLost ==
  LET held == Cached(L1D, l1d) IN
  \A x \in MemoryLines :
    latest[x] = IF x \in held THEN data.d[x] ELSE Below(data, x)

(* How many lines a set is sure to keep: all of its ways under LRU, one    *)
(* more than the depth of the tree under PLRU.                             *)
Kept(g) == IF UsesPlru(g) THEN Cardinality(Spans(g)) + 1 ELSE g.associativity

(* Every level keeps the lines used last in each set: all its ways under   *)
(* LRU, and under PLRU one more than the depth of the tree, so touch and   *)
(* the search for a victim follow the same path.                           *)
KeepsRecent(g, c, uses) ==
  \A s \in SetIndices(g) :
    LastUsed(uses, {x \in DOMAIN uses : x % setCount(g) = s}, Kept(g)) \subseteq Cached(g, c)

KeepsRecentLines ==
  /\ KeepsRecent(L1I, l1i, lastUse.l1i)
  /\ KeepsRecent(L1D, l1d, lastUse.l1d)
  /\ KeepsRecent(L2, l2, lastUse.l2)

(* The report adds up, across levels: L2 sees the misses and write-backs   *)
(* of the first level and nothing else, every line held was missed and not *)
(* evicted, no instruction line is ever written back, and the time charged *)
(* in the first level contains all the time charged below.                 *)
LevelAddsUp(g, c) ==
  /\ c.stats.accesses = c.stats.hits + c.stats.misses
  /\ c.stats.misses = c.stats.evictions + Cardinality(Cached(g, c))
  /\ c.stats.writebacks <= c.stats.evictions

TrafficAddsUp ==
  /\ LevelAddsUp(L1I, l1i) /\ LevelAddsUp(L1D, l1d) /\ LevelAddsUp(L2, l2)
  /\ l1i.stats.writebacks = 0
  /\ l2.stats.accesses = l1i.stats.misses + l1d.stats.misses + l1d.stats.writebacks
  /\ l1i.stats.totalLatency + l1d.stats.totalLatency
       = L1I.latency * l1i.stats.accesses + L1D.latency * l1d.stats.accesses
           + l2.stats.totalLatency
  /\ l2.stats.totalLatency
       = L2.latency * l2.stats.accesses + MemoryLatency * l2.stats.misses
=============================================================================
