----------------------------- MODULE CacheLevel -----------------------------
(***************************************************************************)
(* CacheHierarchy.cpp: one set-associative, write-back, write-allocate     *)
(* cache.  A level is a value c: its lines, PLRU bits, clock and counters; *)
(* g is its configuration.  An access takes c to another such value.       *)
(***************************************************************************)
EXTENDS Common, FiniteSets, FiniteSetsExt

CacheLevelConfig ==
  [sizeBytes : Nat, lineBytes : Nat, associativity : Nat, latency : Nat, plru : BOOLEAN]

(* The constructor throws for any other configuration. *)
ValidConfig(g) ==
  /\ g \in CacheLevelConfig
  /\ g.lineBytes # 0 /\ g.associativity # 0
  /\ g.sizeBytes >= g.lineBytes * g.associativity

setCount(g) == g.sizeBytes \div (g.lineBytes * g.associativity)

SetIndices(g) == 0 .. setCount(g) - 1
WaysOf(g)     == 0 .. g.associativity - 1
PlruNodes(g)  == 0 .. (IF g.associativity > 2 THEN g.associativity - 2 ELSE 0)

CacheLine  == [valid : BOOLEAN, dirty : BOOLEAN, tag : Nat, age : Nat]
CacheStats == [accesses : Nat, hits : Nat, misses : Nat, evictions : Nat,
               writebacks : Nat, totalLatency : Nat]

EmptyLevel(g) ==
  [lines |-> [s \in SetIndices(g) |->
                [w \in WaysOf(g) |->
                   [valid |-> FALSE, dirty |-> FALSE, tag |-> 0, age |-> 0]]],
   plruBits |-> [s \in SetIndices(g) |-> [n \in PlruNodes(g) |-> 0]],
   clock |-> 0,
   stats |-> [accesses |-> 0, hits |-> 0, misses |-> 0, evictions |-> 0,
              writebacks |-> 0, totalLatency |-> 0]]

-----------------------------------------------------------------------------
(* Addresses *)

setIndex(g, address) == (address \div g.lineBytes) % setCount(g)

(* Mutant: the tag keeps the bits of the set. *)
tagWithSet(g, address) == address \div g.lineBytes

tag(g, address) == (address \div g.lineBytes) \div setCount(g)

(* The address a victim is written back to. *)
lineAddress(g, s, t) == ((t * setCount(g) + s) * g.lineBytes) % WordMod

HitWays(g, c, address) ==
  LET set == c.lines[setIndex(g, address)]
  IN  {w \in WaysOf(g) : set[w].valid /\ set[w].tag = tag(g, address)}

-----------------------------------------------------------------------------
(* Replacement.  The PLRU bits are a binary tree: node n has children      *)
(* 2n + 1 (left) and 2n + 2 (right), and its bit points away from the half *)
(* used last.                                                              *)

PowerOfTwo(n) == \A d \in 2 .. n : n % d = 0 => d % 2 = 0

UsesPlru(g) == g.plru /\ PowerOfTwo(g.associativity)

(* The values of span in the loops of plruTouch and plruVictim, which halve *)
(* it from the associativity down to 2; the node the loop is at when it    *)
(* goes to 'way', and whether it then turns right.                         *)
Spans(g) == {span \in 2 .. g.associativity : g.associativity % span = 0}

NodeAt(g, span, way) == (g.associativity \div span) - 1 + (way \div span)

Right(span, way) == way % span >= span \div 2

NodesPassed(g, way, right) ==
  {NodeAt(g, span, way) : span \in {x \in Spans(g) : Right(x, way) = right}}

(* Mutant: the bit points to the half used last. *)
plruTouchTowards(g, bits, way) ==
  [n \in DOMAIN bits |-> IF n \in NodesPassed(g, way, TRUE) THEN 1
                         ELSE IF n \in NodesPassed(g, way, FALSE) THEN 0
                         ELSE bits[n]]

plruTouch(g, bits, way) ==
  [n \in DOMAIN bits |-> IF n \in NodesPassed(g, way, TRUE) THEN 0
                         ELSE IF n \in NodesPassed(g, way, FALSE) THEN 1
                         ELSE bits[n]]

(* The way the bits lead to. *)
plruVictim(g, bits) ==
  CHOOSE way \in WaysOf(g) :
    \A span \in Spans(g) : (bits[NodeAt(g, span, way)] # 0) <=> Right(span, way)

chooseVictim(g, c, s) ==
  LET set     == c.lines[s]
      invalid == {w \in WaysOf(g) : ~set[w].valid}
  IN  IF invalid # {} THEN Min(invalid)
      ELSE IF UsesPlru(g) THEN plruVictim(g, c.plruBits[s])
      ELSE Min({w \in WaysOf(g) : \A x \in WaysOf(g) : set[w].age <= set[x].age})

-----------------------------------------------------------------------------
(* access *)

Count(stats, names) ==
  [n \in DOMAIN stats |-> IF n \in names THEN stats[n] + 1 ELSE stats[n]]

(* Mutant: the age is that of the first use. *)
TouchedOnce(g, c, s, w, line) ==
  [c EXCEPT !.lines[s][w]  = [line EXCEPT !.age = IF @ = 0 THEN c.clock + 1 ELSE @],
            !.clock        = @ + 1,
            !.plruBits[s]  = IF UsesPlru(g) THEN plruTouch(g, @, w) ELSE @]

(* 'line' in way w of set s, touched at the current clock. *)
Touched(g, c, s, w, line) ==
  [c EXCEPT !.lines[s][w]  = [line EXCEPT !.age = c.clock + 1],
            !.clock        = @ + 1,
            !.plruBits[s]  = IF UsesPlru(g) THEN plruTouch(g, @, w) ELSE @]

(* Mutant: a read of a dirty line cleans it. *)
HitClean(g, c, address, write) ==
  LET s == setIndex(g, address)
      w == Min(HitWays(g, c, address))
      line == c.lines[s][w]
  IN  [Touched(g, c, s, w, [line EXCEPT !.dirty = write]) EXCEPT
         !.stats = [Count(c.stats, {"accesses", "hits"}) EXCEPT !.totalLatency = @ + g.latency]]

Hit(g, c, address, write) ==
  LET s == setIndex(g, address)
      w == Min(HitWays(g, c, address))
      line == c.lines[s][w]
  IN  [Touched(g, c, s, w, [line EXCEPT !.dirty = @ \/ write]) EXCEPT
         !.stats = [Count(c.stats, {"accesses", "hits"}) EXCEPT !.totalLatency = @ + g.latency]]

(* The line a miss replaces. *)
VictimWay(g, c, address) == chooseVictim(g, c, setIndex(g, address))
Victim(g, c, address)    == c.lines[setIndex(g, address)][VictimWay(g, c, address)]

WritesBack(g, c, address) ==
  Victim(g, c, address).valid /\ Victim(g, c, address).dirty

victimAddress(g, c, address) ==
  lineAddress(g, setIndex(g, address), Victim(g, c, address).tag)

(* Mutant: the levels below are left out of the time. *)
MissWithoutLower(g, c, address, write, lower) ==
  LET s == setIndex(g, address)
      v == Victim(g, c, address)
      counted == {"accesses", "misses"}
                   \cup {n \in {"evictions"} : v.valid}
                   \cup {n \in {"writebacks"} : v.valid /\ v.dirty}
      line == [valid |-> TRUE, dirty |-> write, tag |-> tag(g, address), age |-> 0]
  IN  [Touched(g, c, s, VictimWay(g, c, address), line) EXCEPT
         !.stats = [Count(c.stats, counted) EXCEPT !.totalLatency = @ + g.latency]]

(* A miss, when the levels below took 'lower' for the fill and write-back. *)
Miss(g, c, address, write, lower) ==
  LET s == setIndex(g, address)
      v == Victim(g, c, address)
      counted == {"accesses", "misses"}
                   \cup {n \in {"evictions"} : v.valid}
                   \cup {n \in {"writebacks"} : v.valid /\ v.dirty}
      line == [valid |-> TRUE, dirty |-> write, tag |-> tag(g, address), age |-> 0]
  IN  [Touched(g, c, s, VictimWay(g, c, address), line) EXCEPT
         !.stats = [Count(c.stats, counted) EXCEPT !.totalLatency = @ + g.latency + lower]]
=============================================================================
