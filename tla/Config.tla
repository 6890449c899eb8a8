------------------------------- MODULE Config -------------------------------
(***************************************************************************)
(* Config.cpp: a configuration is read by searching its text.  The text is *)
(* a sequence of tokens: punctuation, quoted strings, numbers, truth       *)
(* values.  Names and defaults are those of include/Common.h.              *)
(***************************************************************************)
EXTENDS SequencesExt, Integers

Quoted(text) == <<"string", text>>
Number(n)    == <<"number", n>>
Truth(v)     == <<"truth", v>>
Open  == <<"{">>
Close == <<"}">>
Colon == <<":">>
Comma == <<",">>

CoreConfig ==
  [fetchWidth |-> 4, decodeWidth |-> 4, renameWidth |-> 4, issueWidth |-> 4,
   commitWidth |-> 4, robEntries |-> 64, issueQueueEntries |-> 32,
   physicalRegisters |-> 96, aluUnits |-> 2, branchUnits |-> 1, loadStoreUnits |-> 1,
   aluLatency |-> 1, branchLatency |-> 1, loadStoreBaseLatency |-> 1,
   maxCycles |-> 1000000, trace |-> TRUE]

BranchPredictorConfig ==
  [mode |-> "gshare", historyBits |-> 8, bimodalEntries |-> 1024, btbEntries |-> 256,
   btbAssociativity |-> 4]

CacheLevelDefaults ==
  [sizeBytes |-> 16384, lineBytes |-> 64, associativity |-> 4, latency |-> 1,
   replacement |-> "LRU"]

SimulatorConfig ==
  [core |-> CoreConfig, branchPredictor |-> BranchPredictorConfig,
   l1i |-> CacheLevelDefaults, l1d |-> CacheLevelDefaults,
   l2 |-> [CacheLevelDefaults EXCEPT !.sizeBytes = 262144, !.associativity = 8,
                                     !.latency = 12]]

(* The pattern a value is searched with: getInt, getBool or getString. *)
KindOf(key) ==
  CASE key = "trace" -> "truth"
    [] key \in {"mode", "replacement"} -> "string"
    [] OTHER -> "number"

-----------------------------------------------------------------------------
Nowhere == 0

First(S) == IF S = {} THEN Nowhere ELSE CHOOSE k \in S : \A j \in S : k <= j

keyAt(json, key) == First({k \in DOMAIN json : json[k] = Quoted(key)})

braceAt(json, key) ==
  LET at == keyAt(json, key)
  IN  First({k \in at + 1 .. Len(json) : json[k] = Open})

depth(json, from, to) ==
  Cardinality({k \in from .. to : json[k] = Open})
    - Cardinality({k \in from .. to : json[k] = Close})

(* The brace that closes the object of the key. *)
closeOf(json, key) ==
  LET brace == braceAt(json, key)
  IN  First({k \in brace .. Len(json) : json[k] = Close /\ depth(json, brace, k) = 0})

HasObject(json, key) == keyAt(json, key) # Nowhere /\ braceAt(json, key) # Nowhere

(* Mutant: an object without its closing brace goes on to the end. *)
neverMalformed(json, key) == FALSE

(* "malformed JSON object for key" *)
Malformed(json, key) == HasObject(json, key) /\ closeOf(json, key) = Nowhere

(* Mutant: the values are searched in the whole text. *)
wholeText(json, key) == IF HasObject(json, key) THEN json ELSE << >>

(* The text of the object, empty when there is none. *)
objectFor(json, key) ==
  IF ~HasObject(json, key) THEN << >>
  ELSE LET close == closeOf(json, key)
       IN  SubSeq(json, braceAt(json, key), IF close = Nowhere THEN Len(json) ELSE close)

(* The first place where the key, a colon and a value of the kind stand.   *)
getValue(section, key, fallback) ==
  LET at == First({k \in 1 .. Len(section) - 2 :
                     /\ section[k] = Quoted(key) /\ section[k + 1] = Colon
                     /\ section[k + 2][1] = KindOf(key)})
  IN  IF at = Nowhere THEN fallback ELSE section[at + 2][2]

parse(section, defaults) ==
  [key \in DOMAIN defaults |-> getValue(section, key, defaults[key])]

(* SimulatorConfig::load *)
LoadFails(json) == \E s \in DOMAIN SimulatorConfig : Malformed(json, s)

load(json) ==
  [s \in DOMAIN SimulatorConfig |-> parse(objectFor(json, s), SimulatorConfig[s])]
=============================================================================
