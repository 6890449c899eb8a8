--------------------------- MODULE MCCacheTraffic ---------------------------
(***************************************************************************)
(* Small hierarchies with lines of 4 bytes: one for write-backs, where a   *)
(* data cache of one two-way set lies over two single lines, and one for   *)
(* replacement by the tree, which only instructions use.                   *)
(***************************************************************************)
EXTENDS CacheTraffic

CacheConfig(size, ways, latency, plru) ==
  [sizeBytes |-> size, lineBytes |-> 4, associativity |-> ways,
   latency |-> latency, plru |-> plru]

ForWriteBack == [l1i |-> CacheConfig(4, 1, 1, FALSE), l1d |-> CacheConfig(8, 2, 1, FALSE),
                 l2 |-> CacheConfig(8, 1, 3, FALSE)]

ForTree == [l1i |-> CacheConfig(16, 4, 1, TRUE), l1d |-> CacheConfig(4, 1, 1, FALSE),
            l2 |-> CacheConfig(8, 2, 3, TRUE)]

TwoHierarchies == {ForWriteBack, ForTree}

TrafficOf(h) ==
  IF h = ForWriteBack
    THEN [fetches |-> {0}, accesses |-> {0, 10, 16, 60}, maxFetches |-> 1, maxData |-> 5]
    ELSE [fetches |-> {0, 10, 16, 28, 40}, accesses |-> {0}, maxFetches |-> 6, maxData |-> 0]
=============================================================================
