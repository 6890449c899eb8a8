--------------------------- MODULE MainProperties ---------------------------
(***************************************************************************)
(* The program in its world: a user writes a configuration file, starts    *)
(* the process, and sees its exit status and its report.                   *)
(***************************************************************************)
EXTENDS Main, ElfImage, ConfigDocuments

vars == <<memory, loadVars, mainVars, document>>

UserFile == "user.json"

(* The default file leaves every default as it is. *)
Texts == [p \in {UserFile, DefaultConfig} |-> IF p = UserFile THEN Text ELSE Object(<< >>)]

Init == MemoryInit /\ LoadInit /\ MainInit /\ file = NoEntries /\ DocumentInit

(* The file is written before the process that reads it starts. *)
WriteFile ==
  /\ mainStage = "arguments" /\ position = 1 /\ UserFile \in Range(args)
  /\ AddSection \/ AddEntry
  /\ UNCHANGED <<memory, loadVars, mainVars>>

Exited == mainStage = "exited" /\ UNCHANGED vars

Next == WriteFile \/ (MainStep(Texts) /\ UNCHANGED document) \/ Exited

Spec == Init /\ [][Next]_vars

-----------------------------------------------------------------------------
(* Arguments come in pairs: the odd positions are options.  The value that *)
(* counts is that of the last pair with the option, even where the value   *)
(* looks like an option itself.  Only other lists are refused; a program   *)
(* that ran may leave the same status.                                     *)
Pairs == {k \in 1 .. Len(args) : k % 2 = 1}

LastValue(option, default) ==
  LET at == {k \in Pairs : args[k] = option}
  IN  IF at = {} THEN default
      ELSE args[1 + Max(at)]

Paired == Len(args) % 2 = 0 /\ \A k \in Pairs : args[k] \in Options

ArgumentsInPairs ==
  /\ mainStage \notin {"arguments", "exited"} =>
       /\ Paired
       /\ program    = LastValue("--program", "")
       /\ configPath = LastValue("--config", DefaultConfig)
       /\ statsPath  = LastValue("--stats", DefaultStats)
  /\ status = 2 /\ outcome = NotRun => ~Paired \/ LastValue("--program", "") = ""

(* Searching the text of the file finds its sections, in any order, with   *)
(* keys of the same name in several of them and objects inside them.  The  *)
(* machine is built from what the file gives, and defaults for the rest.   *)
LoadsWhatIsGiven ==
  mainStage = "open" /\ configPath = UserFile =>
    \A s \in DOMAIN SimulatorConfig : \A key \in DOMAIN SimulatorConfig[s] :
      config[s][key] = Given(s, key)

(* A file cut off at any token is noticed, or else each section is read    *)
(* whole or not at all.                                                    *)
NoSectionHalfRead ==
  mainStage = "open" /\ configPath = UserFile =>
    \A n \in 0 .. Len(Text) :
      LET part == SubSeq(Text, 1, n) IN
      \/ LoadFails(part)
      \/ LET read == load(part) IN
         \A s \in DOMAIN SimulatorConfig : read[s] \in {config[s], SimulatorConfig[s]}

(* What a process leaves behind fits together.  It has printed its         *)
(* completion line exactly when a report is at the path asked for; the     *)
(* program was then loaded whole and halted, and the status is its exit    *)
(* code.  A process that fails, wherever it does, or only prints its usage *)
(* leaves every report of an earlier one as it was.                        *)
NewReports == {p \in DOMAIN reports : reports[p] # "before"}

ReportOfThisRun ==
  /\ \A p \in NewReports : /\ p = LastValue("--stats", DefaultStats)
                          /\ outcome \in ExitCodes /\ loadStage = "loaded"
  /\ printed => status = Narrow(outcome)
  /\ mainStage = "exited" => /\ printed <=> NewReports # {}
                             /\ printed <=> outcome \in ExitCodes

(* The status is 0 only for help or for a program that halted; its report  *)
(* then is at the path.                                                    *)
FailureIsReported ==
  status = 0 => \/ outcome \in ExitCodes /\ reports[statsPath] # "before"
                \/ outcome = NotRun /\ Help \cap {args[k] : k \in Pairs} # {}
=============================================================================
