----------------------------- MODULE MCMachine ------------------------------
(***************************************************************************)
(* Programs and parameters for the whole simulator.                        *)
(***************************************************************************)
EXTENDS MachineProperties, MCSimulator

CacheConfig(size, line, ways, latency, plru) ==
  [sizeBytes |-> size, lineBytes |-> line, associativity |-> ways,
   latency |-> latency, plru |-> plru]

(* Single lines over a second level of two lines. *)
OneHierarchy ==
  {[l1i |-> CacheConfig(16, 16, 1, 1, FALSE), l1d |-> CacheConfig(4, 4, 1, 1, FALSE),
    l2 |-> CacheConfig(16, 8, 2, 2, TRUE)]}

BothPredictors ==
  {[mode |-> mode, historyBits |-> 2, bimodalEntries |-> 4,
    btbEntries |-> 2, btbAssociativity |-> 1] : mode \in {"gshare", "bimodal"}}

(* Two loops over a branch whose outcome alternates, and the programs of   *)
(* the other runs.                                                         *)
Alternating ==
  <<I("Addi", 1, 0, 0, 3),
    I("Addi", 1, 1, 0, 255),
    I("Andi", 2, 1, 0, 1),
    I("Beq",  0, 2, 0, 8),
    I("Sw",   0, 0, 2, 136),
    I("Bne",  0, 1, 0, 240)>> \o [k \in 1 .. 4 |-> Nop] \o <<Exit>>

MachinePrograms ==
  Sequences(3, Mix, <<Exit>>) \cup FaultPrograms
    \cup {Loop(0), Loop(4), CallTwice, Alternating}
=============================================================================
