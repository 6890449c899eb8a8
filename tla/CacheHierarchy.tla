--------------------------- MODULE CacheHierarchy ---------------------------
(***************************************************************************)
(* CacheHierarchy.cpp: an instruction and a data cache over one shared     *)
(* second level, which neither includes nor excludes what they hold.  A    *)
(* miss in the first level reads the second and, if the victim is dirty,   *)
(* then writes it there.                                                   *)
(***************************************************************************)
EXTENDS CacheLevel

CONSTANTS
  Hierarchies,        \* the configurations considered
  MemoryLatency       \* 50: what the last level waits for memory

ASSUME CacheAssumption ==
  /\ \A h \in Hierarchies : ValidConfig(h.l1i) /\ ValidConfig(h.l1d) /\ ValidConfig(h.l2)
  /\ MemoryLatency \in Nat

VARIABLES
  hierarchy,          \* the configurations the levels were made with
  l1i, l1d, l2

cacheVars == <<hierarchy, l1i, l1d, l2>>

L1I == hierarchy.l1i
L1D == hierarchy.l1d
L2  == hierarchy.l2

CacheInit ==
  /\ hierarchy \in Hierarchies
  /\ l1i = EmptyLevel(L1I)
  /\ l1d = EmptyLevel(L1D)
  /\ l2  = EmptyLevel(L2)

(* access of a level with nothing below it; the dirty victims of such a    *)
(* level are counted and dropped.                                          *)
LastAccess(g, c, address, write) ==
  IF HitWays(g, c, address) # {}
    THEN [hit |-> TRUE, latency |-> g.latency, level |-> Hit(g, c, address, write)]
    ELSE [hit |-> FALSE, latency |-> g.latency + MemoryLatency,
          level |-> Miss(g, c, address, write, MemoryLatency)]

(* access of a first-level cache over the second level 'lower'.  The       *)
(* result also has the second level between the fill and the write-back.   *)
FirstAccess(g, c, lower, address, write) ==
  LET fill == LastAccess(L2, lower, address, FALSE)
      back == IF WritesBack(g, c, address)
                THEN LastAccess(L2, fill.level, victimAddress(g, c, address), TRUE)
                ELSE [latency |-> 0, level |-> fill.level]
      wait == fill.latency + back.latency
  IN  IF HitWays(g, c, address) # {}
        THEN [hit |-> TRUE, latency |-> g.latency, level |-> Hit(g, c, address, write),
              fill |-> lower, lower |-> lower]
        ELSE [hit |-> FALSE, latency |-> g.latency + wait,
              level |-> Miss(g, c, address, write, wait),
              fill |-> fill.level, lower |-> back.level]

InstructionAccess(address) == FirstAccess(L1I, l1i, l2, address, FALSE)
DataAccess(address, write) == FirstAccess(L1D, l1d, l2, address, write)

accessInstruction(address) ==
  /\ LET r == InstructionAccess(address) IN l1i' = r.level /\ l2' = r.lower
  /\ UNCHANGED <<hierarchy, l1d>>

accessData(address, write) ==
  /\ LET r == DataAccess(address, write) IN l1d' = r.level /\ l2' = r.lower
  /\ UNCHANGED <<hierarchy, l1i>>
=============================================================================
