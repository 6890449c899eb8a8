-------------------------------- MODULE Main --------------------------------
(***************************************************************************)
(* main.cpp: the arguments, the configuration, the construction of the     *)
(* simulator with the loading of its program, the run, the report and the  *)
(* exit status.  Files and the terminal are the world outside; the run is  *)
(* known by its outcome alone, which module Machine describes.             *)
(***************************************************************************)
EXTENDS ElfLoader, Config

CONSTANTS
  Arguments,       \* the argument lists considered
  Paths,           \* names of files; the defaults are among them
  ElfAt,           \* what a program file may hold, by path
  ExitCodes,       \* values a program can leave in a0
  Narrow(_)        \* from an exit code to an exit status: external

Options == {"--program", "--config", "--stats"}
Help    == {"--help", "-h"}
Words   == Paths \cup Options \cup Help    \* what an argument may be

NotRun == -1    \* outcome of a run that has not been, or has failed
Failed == -2
DefaultConfig == "configs/default.json"
DefaultStats  == "stats.json"

ASSUME MainAssumption ==
  /\ {DefaultConfig, DefaultStats} \subseteq Paths
  /\ Arguments \subseteq Seq(Words)
  /\ IsPartial(ElfAt, Paths, SUBSET Files)
  /\ ExitCodes \subseteq Nat

VARIABLES
  args,                              \* argv[1 ..]
  position,                          \* i
  program, configPath, statsPath,    \* "" stands for the empty program path
  mainStage,                         \* what main() does next
  config,                            \* the configuration loaded
  outcome,                           \* of run(): its exit code, or why there is none
  reports,                           \* files: what each path holds
  printed,                           \* the completion line has been written
  status                             \* of the process, -1 while it runs

parseVars == <<position, program, configPath, statsPath>>
mainVars  == <<args, parseVars, mainStage, config, outcome, reports, printed, status>>

MainInit ==
  /\ args \in Arguments /\ position = 1
  /\ program = "" /\ configPath = DefaultConfig /\ statsPath = DefaultStats
  /\ mainStage = "arguments" /\ config = SimulatorConfig /\ outcome = NotRun
  /\ reports = [p \in Words |-> "before"]
  /\ printed = FALSE /\ status = -1

Exit(code) == mainStage' = "exited" /\ status' = code

StayInMemory == UNCHANGED <<memory, loadVars>>

(* Mutant: the value of an option is looked at as an option again. *)
AfterOptionOnly == position + 1

AfterValue == position + 2

HasValue == position + 1 <= Len(args)

TakeOption ==
  /\ mainStage = "arguments" /\ position <= Len(args)
  /\ args[position] \in Options /\ HasValue
  /\ LET value == args[position + 1] IN
     /\ program'    = IF args[position] = "--program" THEN value ELSE program
     /\ configPath' = IF args[position] = "--config"  THEN value ELSE configPath
     /\ statsPath'  = IF args[position] = "--stats"   THEN value ELSE statsPath
  /\ position' = AfterValue
  /\ StayInMemory /\ UNCHANGED <<args, mainStage, config, outcome, reports, printed, status>>

PrintUsage ==
  /\ mainStage = "arguments" /\ position <= Len(args)
  /\ ~(args[position] \in Options /\ HasValue)
  /\ Exit(IF args[position] \in Help THEN 0 ELSE 2)
  /\ StayInMemory /\ UNCHANGED <<args, parseVars, config, outcome, reports, printed>>

EndOfArguments ==
  /\ mainStage = "arguments" /\ position > Len(args)
  /\ IF program = "" THEN Exit(2) ELSE mainStage' = "config" /\ UNCHANGED status
  /\ StayInMemory /\ UNCHANGED <<args, parseVars, config, outcome, reports, printed>>

-----------------------------------------------------------------------------
(* Mutant: an error is printed and the program ends as usual. *)
CaughtAsSuccess ==
  /\ outcome' = Failed /\ Exit(0)
  /\ UNCHANGED <<args, parseVars, config, reports, printed>>

(* Mutant: what was counted so far is written on the error path too. *)
CaughtWithReport ==
  /\ outcome' = Failed /\ Exit(1)
  /\ reports' = [reports EXCEPT ![statsPath] = "partial"]
  /\ UNCHANGED <<args, parseVars, config, printed>>

(* catch (const std::exception &) *)
Caught ==
  /\ outcome' = Failed /\ Exit(1)
  /\ UNCHANGED <<args, parseVars, config, reports, printed>>

(* The constructors of the rename unit and of the caches reject a size.    *)
CacheFits(g) ==
  /\ g.lineBytes # 0 /\ g.associativity # 0
  /\ g.sizeBytes >= g.lineBytes * g.associativity

Accepted(c) ==
  c.core.physicalRegisters >= 32 /\ CacheFits(c.l1i) /\ CacheFits(c.l1d) /\ CacheFits(c.l2)

(* SimulatorConfig::load, then the members of the simulator.  'texts' are  *)
(* the configuration files that can be read, by path.                      *)
Configure(texts) ==
  /\ mainStage = "config" /\ StayInMemory
  /\ IF configPath \notin DOMAIN texts \/ LoadFails(texts[configPath])
       THEN Caught
       ELSE IF ~Accepted(load(texts[configPath])) THEN Caught
       ELSE /\ config' = load(texts[configPath])
            /\ mainStage' = "open"
            /\ UNCHANGED <<args, parseVars, outcome, reports, printed, status>>

OpenProgram ==
  /\ mainStage = "open"
  /\ IF program \notin DOMAIN ElfAt THEN Caught /\ StayInMemory
     ELSE /\ mainStage' = "load" /\ file' \in ElfAt[program]
          /\ UNCHANGED <<memory, loadStage, segment, lowAddress, highAddress, loadError>>
          /\ UNCHANGED <<args, parseVars, config, outcome, reports, printed, status>>

LoadProgram ==
  /\ mainStage = "load"
  /\ \/ LoadStep /\ UNCHANGED mainVars
     \/ loadStage = "failed" /\ Caught /\ StayInMemory
     \/ /\ loadStage = "loaded" /\ mainStage' = "run" /\ StayInMemory
        /\ UNCHANGED <<args, parseVars, config, outcome, reports, printed, status>>

(* Simulator::run returns when the program has halted and throws when it   *)
(* meets an illegal or misaligned instruction, a system call other than    *)
(* exit, or the limit on cycles.                                           *)
Run ==
  /\ mainStage = "run"
  /\ \/ Caught
     \/ /\ \E code \in ExitCodes : outcome' = code
        /\ mainStage' = "report"
        /\ UNCHANGED <<args, parseVars, config, reports, printed, status>>
  /\ StayInMemory

Reported(text) == [reports EXCEPT ![statsPath] = text]

(* writeJson throws when the file cannot be opened; the state of the       *)
(* stream is not looked at again, whatever was written.                    *)
WriteReport ==
  /\ mainStage = "report"
  /\ \/ Caught
     \/ /\ \E text \in {"complete", "partial"} : reports' = Reported(text)
        /\ mainStage' = "return"
        /\ UNCHANGED <<args, parseVars, config, outcome, printed, status>>
  /\ StayInMemory

Return ==
  /\ mainStage = "return"
  /\ printed' = TRUE
  /\ Exit(Narrow(outcome))
  /\ StayInMemory /\ UNCHANGED <<args, parseVars, config, outcome, reports>>

MainStep(texts) ==
  \/ TakeOption \/ PrintUsage \/ EndOfArguments
  \/ Configure(texts) \/ OpenProgram \/ LoadProgram
  \/ Run \/ WriteReport \/ Return
=============================================================================
