-------------------------- MODULE ConfigDocuments ---------------------------
(***************************************************************************)
(* Configuration files of the shape of configs/default.json, written by a  *)
(* user one entry at a time: an object of sections, each an object of      *)
(* entries.  An entry may be of the wrong kind, unknown, or an object.     *)
(***************************************************************************)
EXTENDS Config

CONSTANTS
  Sections,     \* names of sections a file may have, known and unknown
  Entries,      \* entries of a section: a key and the tokens of its value
  MaxSections, MaxEntries

Names == DOMAIN SimulatorConfig      \* of the sections that the program knows

(* The numbers that the conversions of load keep in every field, int,      *)
(* std::size_t or u64.                                                     *)
Kept == 0 .. 2147483647

Value == ({"string"} \X STRING) \cup ({"number"} \X Kept) \cup ({"truth"} \X BOOLEAN)

Token == {Open, Close, Colon, Comma} \cup Value

(* An entry gives one value, or an object of one entry. *)
GivesValue(value) == Len(value) = 1 /\ value[1] \in Value

GivesObject(value) ==
  /\ Len(value) = 5 /\ value[1] = Open /\ value[3] = Colon /\ value[5] = Close
  /\ value[2] \in {"string"} \X STRING /\ value[4] \in Value

(* The name of a known section is no word of an entry: the search would    *)
(* take it for the section.                                                *)
ASSUME DocumentsAssumption ==
  /\ Sections \subseteq STRING /\ MaxSections \in Nat /\ MaxEntries \in Nat
  /\ \A e \in Entries :
       /\ e.key \in STRING \ Names /\ e.value \in Seq(Token)
       /\ (GivesValue(e.value) \/ GivesObject(e.value))
       /\ \A k \in DOMAIN e.value : \A s \in Names : e.value[k] # Quoted(s)

VARIABLE document     \* a sequence of [name, entries]

(* A text so far, with one more part. *)
Extended(text, part) == IF text = << >> THEN part ELSE text \o <<Comma>> \o part

(* The texts of the first n parts, for each n. *)
Joined(parts) ==
  LET text[n \in 0 .. Len(parts)] ==
        IF n = 0 THEN << >> ELSE Extended(text[n - 1], parts[n])
  IN  text

Separated(parts) == Joined(parts)[Len(parts)]

Object(parts) == <<Open>> \o Separated(parts) \o <<Close>>

EntryText(e) == <<Quoted(e.key), Colon>> \o e.value

SectionText(s) ==
  <<Quoted(s.name), Colon>> \o Object([k \in DOMAIN s.entries |-> EntryText(s.entries[k])])

Text == Object([k \in DOMAIN document |-> SectionText(document[k])])

-----------------------------------------------------------------------------
DocumentInit == document = << >>

AddSection ==
  /\ Len(document) < MaxSections
  /\ \E s \in Sections :
       /\ \A k \in DOMAIN document : document[k].name # s
       /\ document' = Append(document, [name |-> s, entries |-> << >>])

(* A file is written from its beginning to its end. *)
AddEntry ==
  \E e \in Entries :
    LET k == Len(document) IN
    /\ k # 0 /\ Len(document[k].entries) < MaxEntries
    /\ document' = [document EXCEPT ![k].entries = Append(@, e)]

-----------------------------------------------------------------------------
(* An object inside a section, with its one entry, is not told apart from   *)
(* the section: that entry counts as one of the section's own.             *)
Plainly(e) == IF Len(e.value) = 1 THEN e ELSE [key |-> e.value[2][2], value |-> <<e.value[4]>>]

(* The value a file gives for a key: that of the first entry of its own    *)
(* section that has the key and a value of its kind; else the default.     *)
Given(s, key) ==
  LET fits(e) == e.key = key /\ e.value[1][1] = KindOf(key)
      owners  == {k \in DOMAIN document : document[k].name = s}
      written == IF owners = {} THEN << >> ELSE document[CHOOSE k \in owners : TRUE].entries
      entries == [k \in DOMAIN written |-> Plainly(written[k])]
      fitting == {k \in DOMAIN entries : fits(entries[k])}
  IN  IF fitting = {} THEN SimulatorConfig[s][key]
      ELSE entries[CHOOSE k \in fitting : \A j \in fitting : k <= j].value[1][2]
=============================================================================
