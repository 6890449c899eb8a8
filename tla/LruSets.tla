------------------------------ MODULE LruSets -------------------------------
(***************************************************************************)
(* What a set-associative table with least-recently-used replacement       *)
(* promises: each set keeps the keys of its last 'capacity' distinct uses. *)
(* lastUse gives each key used so far the number of its last use.          *)
(***************************************************************************)
EXTENDS Common, FiniteSets

(* The keys of a set that were used after 'key' was. *)
UsedAfter(lastUse, set, key) ==
  {k \in DOMAIN lastUse \cap set : lastUse[k] > lastUse[key]}

LastUsed(lastUse, set, capacity) ==
  {key \in DOMAIN lastUse \cap set :
     Cardinality(UsedAfter(lastUse, set, key)) < capacity}
=============================================================================
