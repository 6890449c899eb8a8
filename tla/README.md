# A TLA+ model of the RV32I out-of-order simulator

The simulator is a single-threaded C++ program that steps a small out-of-order
RV32I processor cycle by cycle. What makes it hard is not threads but the
processor it models: instructions run speculatively and out of order, several
structures hold parts of their state, and a branch recovery has to bring all of
them back at once. The modules here model that processor as the code implements
it, the predictor and the caches that drive it, and the program around it from
its command line to its exit status. TLC checks them on small instances. For
machines of every size TLAPS proves the invariants of the pipeline, that it
implements the in-order machine, the contract with the branch predictor, that the
caches lose no store, and that trace, counters and samples of the whole simulator
are right; for every program file, configuration file and list of arguments, what
is loaded and what the status says; for every word, that it is decoded as the encoding says; and for
every pair of operands, that the arithmetic is that of the gates.

## The system

| Component | State | Operations | Correct when |
|---|---|---|---|
| `Simulator` (pipeline) | `nextSeq_`, `stoppedFetching_`, `stats_.halted`, `exitCode` | `run`: commit, complete, issue, rename, fetch, in this order, every cycle | commits are the steps of the in-order machine; every program ends |
| `RenameUnit` | `map_`, `freeList_` | `allocate`, `freePhysical`, `checkpoint`, `restore` | no register has two uses; a restore undoes exactly the flushed writes |
| `PhysicalRegisterFile` | `values_`, `ready_` | `read`, `write`, `markNotReady` | a source is not ready exactly while its producer is pending |
| `ReorderBuffer` | `entries_` (deque) | `allocate`, `head`, `popHead`, `flushYoungerThan`, `hasOlderUnreadyStore` | entries are the instructions in flight, by age |
| `IssueQueue` | `entries_` | `push`, `remove`, `selectReady`, `flushYoungerThan` | holds exactly what is renamed and not issued |
| `ExecutionUnits` | `alu_`, `branch_`, `loadStore_` | `canAccept`, `start`, `tick`, `flushYoungerThan` | holds exactly what is issued and not finished |
| `InstructionFetch` | `pc_`, `waitCycles_`, and the caller's `fetchQueue_` | `tick`, `flush` | resumes at the resolved target |
| `BranchPredictor` | `counters_`, `globalHistory_`, `btbSets_`, `btbClock_`, `stats_` | `predict`, `update`, `updateBtb` | a predicted target is one the branch had; replacement is LRU; outcomes are counted once |
| `CacheLevel`, `CacheHierarchy` | `sets_` of lines, PLRU bits, `clock_`, `stats_`, per level | `accessInstruction`, `accessData` | no store is lost on the way to memory; recent lines stay; time and traffic add up |
| `Memory` | `bytes_` (sparse) | `read8/16/32`, `write8/16/32` | little-endian, zero where never written |
| `Decoder` | none | `decode` | one opcode and operand set per word |
| `Stats` | counters, stalls, occupancies, trace | increments all over the pipeline, `writeJson` | what different classes count agrees |
| `ElfLoader` | none (fills the memory) | `load` | memory is the image the file describes |
| `SimulatorConfig` | five sections of values | `load` | each value comes from its own section |
| `main` | paths | arguments, construction, run, report | the status tells success from failure |
| `web/` | none | static page | recorded data, independent of the simulator |

The components do not know each other; `Simulator` owns them and moves
instructions between them. `renameStage` takes from the fetch queue, allocates
in the rename unit, marks the register not ready and enters the buffer and the
issue queue. `issueStage` asks the queue for what can run, the units for room
and the cache for a latency. `execution_.tick` returns what finished, and
`completeInstruction` computes it, writes the register, trains the predictor
and, for a misprediction, calls `recoverFromBranch`, which restores the rename
unit and flushes four structures. `commitStage` retires the oldest entries,
writes stores to memory and frees registers.

`fetch_.tick` asks the caches for a latency and the predictor for a branch.
`main` reads the configuration, constructs the simulator, which loads the
program, runs it and writes the report.

Everything hard is in the order of these steps: a register freed while
something names it, a checkpoint that is stale when it is restored, a finished
instruction that was flushed a moment ago, an exit found on a wrong path, a load
that overtakes a store, a dirty line that meets its own stale copy, and
shortages (buffer, queue, units, registers) that can make every stage wait for
another. `PROJECT.json` lists them as hazards, each at its line, with the
properties that cover it.

## The modules

```
Common        words, opcodes and their classes (Common.h)
Execute       value, direction and target of an instruction (executeInstruction)
Memory        bytes, loads and stores
Alu           the arithmetic itself, on words of any width
RenameUnit <- PhysicalRegisterFile <- ReorderBuffer <- IssueQueue <- ExecutionUnits
BranchOracle <- InstructionFetch
Simulator     composes all of the above: the pipeline
SimulatorProperties      what the pipeline must satisfy
Isa                      the in-order machine it should implement
SimulatorRefinesIsa      the refinement mapping between the two
SimulatorProofs          theorems: its invariants and its refinement of Isa

BranchPredictor          tables, history and statistics
BranchTraining           the predictor under an open pipeline: any branches, any outcomes
CacheLevel <- CacheHierarchy    one level; two first levels over a second
CacheTraffic             the hierarchy under every sequence of accesses
LruSets                  what least-recently-used replacement promises, of both
BranchPredictorProofs <- BranchTrainingProofs     theorems about tables of every size
CacheProofs              theorems about levels of every size and policy

Machine                  Simulator + BranchPredictor + CacheHierarchy, cycles, statistics, trace
MachineProperties        what the whole simulator must satisfy
MachineProofs            theorems: it is such a pipeline, and its report is right

Decoder, DecoderReference       from bits to instruction, and back
AluReference                    Alu against gates
InstructionProofs               theorems about every word and every pair of operands
ElfLoader, ElfImage             the loop over segments, and the image a file describes
Config, ConfigDocuments         the search in the text, and files a user writes
Main, MainProperties            composes ElfLoader and Config: the process and its world
MainProofs                      theorems about every program, configuration and list of arguments

Sums                     lemmas on least elements, sums and counts that the proofs share

MCSimulator, MCMachine, MCBranchTraining, MCCacheTraffic, MCInstructions, MCMain
                         programs, files and parameters for TLC; MC*.cfg its runs
```

The component modules declare their own variables and give each method as a
fragment of an action (`allocate`, `popHead`, `write`, ...); module `Simulator`
conjoins the fragments into actions, the way the class calls its members.

**Granularity.** A stage is a loop, and an action of `Simulator` is one
iteration of it: `CommitInstruction`, `CommitEcall` and `CommitFault` for
`commitStage`; `Tick`, `CompleteSkip`, `CompleteInstruction` and
`CompleteRecovering` for the completions; `Select`, `IssueSkip`,
`IssueMisaligned`, `IssueInstruction` and `IssueDone` for `issueStage`;
`RenameInstruction` and `RenameDone`; `FetchWait`, `Fetch` and `FetchDone` for
`InstructionFetch::tick`. `stage`, `done` and `work` are the program counter and
the local variables of these loops, so every state between two iterations is
checked too. The code is sequential: in a state, at most one of these actions is
enabled; all that is left open is the program, the latency and the prediction.

`Machine` takes each of these actions and adds what the same code does to the
predictor, the caches, the counters and the trace: `MachineIssue` accesses the
data cache and issues with the latency it returned, `MachineFetch` does the same
with the instruction cache and takes the prediction of `predict`,
`MachineComplete` calls `train`. `BeginCycle` is the head of the loop in `run`.
One program and configuration then have one execution.

An operation of the predictor or of the caches is one step, as no other code
runs inside it. `ElfLoader` takes a step per program header, `Main` one per
argument and one per call in its `try` block.

**Data.** Entries, queue elements and active executions are keyed by sequence
number. The buffer and the queue are always sorted by it (entries are pushed
with a fresh, larger number and removal keeps order), so sets and partial
functions replace the deques. `ExecutionUnits::tick` sorts what it returns, so
the order inside the unit lists is not observable.

**Abstractions.**
- A program is a sequence of decoded instructions at `EntryPc`; everything else
  reads as an illegal instruction, as a zero word does. Instruction text is not
  data: stores do not change it and loads do not see it, and a program counter
  that is not a multiple of four from the entry fetches an illegal instruction
  (the programs checked only jump to multiples of four).
- In `Simulator` the predictor is module `BranchOracle`: any direction, and a
  target that is the fall-through or the last taken target trained for this pc.
  Run `predictor` checks that the tables give nothing else, run `machine` that
  the pipeline with the real tables is one of those, and both are theorems. They
  need pcs that are equal modulo four, where set and tag identify a branch.
- In `Simulator` cache latencies are any element of a set; in `Machine` they come
  from the caches, whose configuration determines what they can be
  (`AccessLatencies`), which has to be in that set.
- Words, bytes and the number of registers are parameters (2^32, 2^8, 32 in the
  code); arithmetic is modulo `WordMod`. `ImmOps` get their immediate as a word.
- The counters, history and tags of the predictor and the caches are theirs; ages
  and clocks are unbounded numbers (64 bits in the code). A PLRU configuration
  with a number of ways that is no power of two uses LRU, as in the code.
- The caches hold tags and no data, in the code as here. `CacheTraffic` follows
  the versions of lines that real caches would hold, as history variables; lines
  of L1D and L2 have one size there.
- The header fields of an ELF file are a record and its program headers a function
  of their offset; bytes at other offsets are bytes. Offsets do not overflow, as
  `size_t` does not.
- A configuration file is a sequence of tokens; characters and white space are left
  out. So are negative numbers and those of 2^31 and more, which the conversions of
  `load` change in some fields (`Config.cpp:77-113`).
- `Main` knows a run by its outcome: an exit code, or an error. Whether the report
  can be opened, and whether all of it is written, is open.
- `EBREAK` is an illegal word for the decoder, and the reference table follows it.
- Left out: the text of the report, mnemonics, the minimum of an occupancy and
  the quotients. `IssueWidth` and `MaxCycles` are at least 1 (for an issue width
  of 0 the code still selects one instruction). An instruction's `value` field and
  `storeSize` are not stored, as the same call uses them or the opcode fixes them.

## What TLC checks

The runs of `Simulator` and `Machine` use words of 8 bits made of four 2-bit
bytes (the smallest that keep byte, halfword and word distinct), 4 architectural
registers, one unit of each kind, data latencies 1 and 3 (hit and miss), widths
of 2, so that a stage handles an older and a younger instruction in one cycle.

| Run | Programs and bounds | Checks | Result |
|---|---|---|---|
| `pipeline` | all 7^4 sequences of four instructions of `Mix` and an exit; 6 physical registers (2 spare), ROB 4, queue 3: all three run out | the eight invariants of `SimulatorProperties` | hold; about 300 000 states |
| `isa` | all 7^3 sequences of `Apart`, six programs with faults, two loops, a function called twice, a load that waits for its store; fetch latencies 1 and 2 | `ImplementsIsa`, and the four invariants its proof rests on | hold; about 240 000 states |
| `termination` | the sequences of `Apart` before four no-ops and an exit, a loop, the faults | `Termination` | holds; about 880 000 states |
| `machine` | 350 programs: the sequences of three of `Mix`, two loops, a branch that alternates, a function called twice, the faults; gshare and bimodal; caches of one and two lines; buffer 3, queue 2; 150 cycles | the five properties of `MachineProperties` | hold; about 170 000 states |
| `predictor` | gshare with two sets of two lines, bimodal with one set of three; four branches, one with two targets; two predictions waiting, five lookups, five outcomes | the five of `BranchTraining` | hold; about 460 000 states |
| `caches` | L1D of two ways over two single lines of L2, five data accesses to four lines and a fetch of one of them; L1I of four ways over two, both PLRU, six fetches of five lines | the four of `CacheTraffic` | hold; about 122 000 states |
| `instructions` | every opcode and funct3, with five bits of funct7; the seams of the fields of eleven words; all pairs of 8-bit operands | the two of `DecoderReference`, the two of `AluReference` | hold; about 160 000 states |
| `start_up` | 1076 argument lists; all files of up to two sections of two out of six entries; 17 500 program files of two segments and twenty with bad headers or cut off; exit codes 0, 2 and 256 | the eight of `MainProperties` and `ElfImage` | hold; about 280 000 states |
| `exit_on_wrong_path` | a loop followed by its exit | `FetchResumesAfterRecovery` | violated |
| `few_registers` | two register writes, 5 physical registers | `Termination` | violated |
| `register_leak` | a loop of three turns, 8 physical registers | `Termination` | violated |
| `stale_load` | a store and a load of the same word, behind a chain of additions | `ImplementsIsa` | violated |

The invariants:
- `RegistersDisjoint`: the rename map, the free list and the registers to be
  released at commit never share a register, and would not after the restoration
  of any checkpoint in flight.
- `SourcesKept`: no instruction in flight writes, or can be allocated, a
  register that an older one has still to read.
- `CheckpointUndoesYounger`: a checkpoint is the current map with the younger
  writes undone.
- `ReadyBitsExact`: a source is not ready exactly while its producer is pending.
- `InOnePlace`: every instruction in flight is in the queue, in a unit, or done,
  and nothing else is in the queue or a unit.
- `LoadsBehindStores`: no load executes past an older store that is not ready.
- `ExitIsYoungest`: nothing is renamed behind an exit or an illegal instruction.
- `OperandsNamed`: sources and destinations are the registers that program order
  gives them, whatever was recovered and committed since they were renamed.
- `InProgramOrder`: buffer, queue and fetch address are one path of the program. In
  flight, an instruction is followed by where it goes or is still predicted to go
  (`FlightInOrder`); in the queue, by where it is predicted to go (`QueueInOrder`).
- `ResultsExact`: what a completed instruction computed is what its sources and
  the memory give, until it commits.
- `LoadsFollowStores`: no load has executed ahead of the commit of an older store
  to one of its bytes. The code does not ensure it (finding 4): it holds of the
  programs of `isa`, one of which loads what it stores, and is the hypothesis of
  the last invariant and of the refinement.

`ImplementsIsa` is refinement: with the registers, memory, exit code and program
counter that the committed instructions left (`SimulatorRefinesIsa`), the
pipeline takes only steps of `Isa` and stuttering steps. It covers recovery,
wrong paths, exceptions and reordering at once.

The whole simulator (`machine`):
- `PipelineAllows`: with its own predictor and caches it takes only steps that
  `Simulator` takes, so what is checked and proved there, for any predictions
  and latencies, is about this machine.
- `TraceOrdered`: the cycles in the trace of an instruction are in the order of
  the stages, a cycle apart; commits are in program order; no cycle fetches,
  renames, issues or commits more than the widths of these stages.
- `ReportsAgree`: predictor, caches, pipeline and trace count the same events.
- `OccupancyAddsUp`: the samples of the buffer sum up to the time instructions
  spent in it, through commits and recoveries.
- `RunEnds`: by an exit, a fault or the limit on cycles.

The components under open environments:
- `PredictionsAllowed`: whatever was evicted, aliased or trained out of order, a
  prediction is one `BranchOracle` allows. `TwoOutcomesSettle`: two equal outcomes
  decide a counter. `KeepsRecentBranches`: ages, invalid lines and search for a
  victim come to LRU. `StatisticsAgree`: each outcome is counted in one class, none
  as correct whose prediction, the one fetch followed, left the path of the program.
- `NothingLost`: a load would see the last store to its line, through dirty
  victims, write-backs to rebuilt addresses and stale copies in L2.
  `KeepsRecentLines`: all ways under LRU, one more than the depth of the tree
  under PLRU. `TrafficAddsUp`: L2 sees the misses and write-backs of the first
  level and nothing else, and time charged above contains the time below.
- `DecodesItsEncoding`, `RejectsTheRest`: bit by bit against a table of the
  encodings. `AluIsBitwise`, `ConditionsAreBitwise`: against a carry chain. The
  operators `^`, `|` and `&` are constants of `Alu`: what they do is assumed, bit
  by bit (`BitwiseAssumption`), and true of the operators the runs give.
- `LoadsWellFormedFiles`, `GoodFilesLoad`, `ImageLoaded`: a program is loaded
  exactly from files that hold all they claim, and memory is then their image,
  overlapping segments in file order, zeros included, wrapping at the end.
- `LoadsWhatIsGiven`: the machine is built from what the file says, section by
  section. `NoSectionHalfRead`: cut off at any token, a file is refused or its
  sections are read whole or not at all.
- `ArgumentsInPairs`: which lists are accepted, and which value counts. A program
  that ran may leave status 2 as well.
  `ReportOfThisRun`: the completion line, the report at the path asked for and a
  status that is the exit code come together or not at all; whatever else ends the
  process, or fails, leaves earlier reports alone.
  `FailureIsReported`: status 0 means help, or a halted program and a report.

**Bounds.** Four instructions are enough for a producer, a consumer, a branch
between or before them and a younger writer; with the buffer at four the whole
program can be in flight. Loops and the call add backward jumps, repeated
recoveries and a return predicted to the wrong caller. Sequence numbers are not
bounded because the programs end; no state constraint is used. In `machine` the
buffer and queue are so small that every stall is counted, the BTB of two lines
and the caches are smaller than the loops, and 150 cycles end the programs that
hang. Five outcomes fill a set of three lines, touch one and evict another, and
saturate a counter and turn it back; two predictions can resolve out of order.
Five accesses fill both ways of L1D, evict a dirty line into L2, evict that from
L2, and bring it back; six fetches go round a tree of four ways more than once.
`predictor`, `caches` and `start_up` bound the environment (`MaxLookups`,
`MaxUpdates`, `MaxAsked`; `maxFetches`, `maxData`; `MaxSections`, `MaxEntries`).
The first two are passive and have no end of their own, so these runs stop at
their bounds and do not check for deadlock; all others do.

**Fairness.** `Spec` and `MachineSpec` have weak fairness of the whole next-state
relation: the simulator is one thread that runs until it returns. Predictions and
latencies are chosen without fairness; every choice must lead to the end. The
other specifications state safety only and have none.

## Findings

Four runs show disagreements between code and documentation. Each was also
reproduced with the simulator itself.

1. **An exit on a wrong path stops the machine** (`exit_on_wrong_path`).
   `renameStage` sets `stoppedFetching_` for an ecall or illegal instruction on a
   mispredicted path (`Simulator.cpp:104-107`); `recoverFromBranch` does not
   reset it (`373-384`). The program never ends.
2. **Recovery loses registers** (`register_leak`). `restore` brings back the free
   list of the checkpoint (`RenameUnit.cpp:50`), without what was freed since.
   Each recovery can lose up to as many registers as instructions committed in
   between, until rename stalls for ever.
3. **First writes free nothing** (`few_registers`). `freePhysical` drops
   registers below 32 (`RenameUnit.cpp:41`), so `physicalRegisters` has to exceed
   32 by more than the number of registers the program writes, though the
   constructor accepts 32.
4. **A load can miss an older store** (`stale_load`). Loads wait only for stores
   that have not executed (`ReorderBuffer.cpp:54`), but read memory, which a
   store writes at commit, without forwarding.

The runs that pass are built so that these four cannot happen (programs whose
exit is out of reach of wrong paths, enough registers, loads and stores apart or a
store that commits in time) and the property can then speak about everything else.

Smaller observations, without a run of their own:
- `retiredBranches` counts branches when they execute, also those flushed later
  (`Simulator.cpp:192`); `ReportsAgree` states what is counted.
- `core.trace` is read from the configuration and used by nothing, though
  `README.md:51` says it enables the trace.
- Nothing in the caches blocks: a second load/store unit, or the fetch of the
  same cycle, accesses them while a miss is under way (`Simulator.cpp:136`),
  against `README.md:79`.
- A file whose only segment starts at 0xffffffff is loaded and then rejected for
  having no segment (`ElfLoader.cpp:82`); `GoodFilesLoad` excepts it.
- A key inside an object inside a section is taken for a key of the section
  (`Config.cpp:46`); `LoadsWhatIsGiven` states it.
- A key or a string that is the name of a section is taken for the section
  (`Config.cpp:23`); `DocumentsAssumption` leaves such entries out.
- `main` returns a 32-bit exit code of which the system keeps the low byte, so
  256 becomes success (`main.cpp:48`); and `writeJson` does not look at its stream
  after opening it, so a report cut short is announced as written
  (`Stats.cpp:84`). No property excludes either: `FailureIsReported` accepts both.
- A `commitWidth` or unit count of 0 is accepted and makes every program run into
  the limit on cycles.

## What TLAPS proves

For every size of the machine, every program, every arithmetic (`AluOp` and
`BranchTaken` are constant operators with only their types assumed), every
latency and prediction. `Pipeline` is `Spec` without its fairness, so these are
theorems about both, and about the whole simulator (see below).

Registers and places:
- `TypeCorrect` (`TypeOK`), inductive by itself. Its core is that sequence numbers
  in all structures were handed out, and that values stay words through
  arithmetic, sign extension and memory.
- `RegistersNeverShared` (`RegistersDisjoint`). The invariant includes its own
  strengthening: since a recovery makes a checkpoint current, disjointness has to
  hold for every checkpoint in flight together with the releases of the
  instructions that would survive. Three lemmas about one map, one list and one
  set of releases (`DisjointFewer`, `DisjointRelease`, `DisjointAllocate`) carry
  the proof; every action is an instance of one of them, and the loss of registers
  in finding 2 is `DisjointFewer`: it wastes registers and never shares them.
- `NoWriteAfterRead` (`SourcesKept`), with two conjuncts added (`SourceInv`):
  register 0 is never remapped, in the map or in a checkpoint, and the free list of
  a checkpoint holds no source of an instruction that survives its restoration.
- `NothingMisplaced` (`InOnePlace`), with `WorkInPlace`: what the loop of the
  complete stage has still to visit has left the units, and what the loop of the
  issue stage has is still in the queue. `LoadsWaitForStores`
  (`LoadsBehindStores`), with `WorkBehindStores`: what was selected in this cycle
  keeps its older stores resolved until it issues. `NothingBehindExit`
  (`ExitIsYoungest`).

Renaming and wake-up:
- `RecoveryForgetsExactlyTheFlushed` (`CheckpointUndoesYounger`), from
  `OldestExists`: every set of instructions in flight has an oldest one.
- `WakeUpExact` (`ReadyBitsExact`), from `ReadyInv`: the same statement for what the
  map names, and what each checkpoint in flight names, as these are the sources of
  the next instruction, now or after a recovery, which leaves the ready bits
  alone; and from `DestinationsKept`: a register that an instruction in flight
  writes is written by no other, released by no older one, and not free now or
  after a recovery that the instruction survives.
- `OperandsFollowProgramOrder` (`OperandsNamed`). `MapBefore(n, a)` is the register
  of `a` as instruction n finds it, read off the releases of younger writes; each
  action is shown to keep it for the instructions that stay.

Results and the in-order machine:
- `NoWrongPathSurvives` (`InProgramOrder`), with `InstsFromProgram` (instructions
  are what the program has at their pc). The order in flight needs that in the
  queue, whose head is renamed next.
- `ResultsAreKept`: `Pipeline /\ []LoadsFollowStores => []ResultsExact`, with
  `StartedReady` (issued instructions have ready sources) and `FaultsExact` (a
  fault is a misaligned access or an illegal instruction).
- `PipelineImplementsIsa`: `Pipeline /\ []LoadsFollowStores => ImplementsIsa`. A
  commit is a step of `Isa`: it retires the instruction at the pc (program order),
  with operands that are the committed registers (`OperandsNamed`, as nothing older
  is left), and the result that they give (`ResultsExact`). Every other action
  leaves the mapped state alone: the committed registers are those that the oldest
  instruction finds (`MapsBefore`), and no instruction in flight writes these or,
  by a recovery, undoes them.
- The hypothesis is needed: without it `stale_load` is a counterexample to the
  conclusion. It can be met: run `isa` checks it, with a load that really waits
  for a store. `ImplementsWithoutDependencies` has no such hypothesis, for programs
  that load or store but not both.

The predictor, alone (`BranchTraining`), for tables of every size:
- `OracleCoversTables` (`PredictionsAllowed`), from `BtbInv`: each valid line holds
  the last target of the branch its set and tag name (`LinesCurrent`), and no set
  holds a branch twice (`LinesDistinct`). It needs that set and tag identify a
  branch, which is proved of pcs that are equal modulo four.
- `TwoOutcomesAreEnough` (`TwoOutcomesSettle`), `StatisticsAddUp`
  (`StatisticsAgree`), `PredictorTyped` (`PredictorTypeOK`). That a prediction which
  is not taken goes to the next address, kept with each question asked (`Question`),
  makes every outcome counted as correct one that stayed on the path.

The whole simulator (`Machine`), with tables and caches of every size:
- `MachineIsAPipeline` (`PipelineAllows`): its predictor satisfies the contract by
  `BtbInv` over `CodePcs`, the addresses a program can have a branch at, and its
  caches take the latencies of `AccessLatencies`. Hence `MachineImplementsIsa`
  and `MachineKeepsInvariants`.
- `TraceFollowsStages` (`TraceOrdered`). `TraceInv` relates each entry of the
  buffer to its trace, and each stamp to the clock: it is of an earlier cycle, or
  of this one and of a stage that the loop of `run` has reached. `QueueTimed` is
  the same for the fetch queue, and `WidthInv` counts the stamps of this cycle
  against the loop that is running; for issue that is the number selected, which
  is at most the width because the number of older candidates tells the selected
  ones apart. `FetchInv` counts the stamps of fetch in the queue and in the trace
  together, as they move from one to the other long after the cycle they name.
- `ReportsTellOneStory` (`ReportsAgree`), from `TraceInv` and the types of the
  counters. Mispredictions counted by the pipeline and by the predictor agree
  because a `JAL`, which the predictor is not trained with, is never mispredicted,
  and each is recovered from because every control instruction has a checkpoint.

- `OccupancyIsResidence` (`OccupancyAddsUp`), from three parts: buffer and queue
  keep to their sizes (`SizesInv`), what is in the trace and no longer in the buffer
  left it at a known cycle (`LeftInv`), and the total is the sum of the times since
  (`SamplesInv`). A sample adds one for each entry in flight (`SumRaised`).

Replacement in the predictor, alone:
- `RecentBranchesKept` (`KeepsRecentBranches`), from `RecentInv`: the ages of the
  lines order them as the outcomes in which their branches were last taken, and a
  branch without a line was taken before every branch that has one in its set,
  which is then full (`AgedByUse`). The lines of a full set then name as many
  branches taken later as there are ways.

The caches, for levels of every size and policy:
- `CachesTyped` (`CacheTypeOK`), from `CacheInv`: no set holds a line twice, ages
  are of the past, and no line of instructions is dirty.
- `NoStoreLost` (`NothingLost`), from `DataInv`: a clean line of L1D has the version
  that is below it, and a clean line of L2 the one in memory (`Stored`). Each access
  is followed through its write-back, the victim that this evicts from L2, and its
  fill; the address rebuilt from set and tag is shown to be the one it came from.
- `TrafficCounted` (`TrafficAddsUp`): each access raises the counters of the two
  levels by amounts that depend on where it hit and what it evicted, and the time
  it is charged contains the time charged below.
- `RecentLinesKept` (`KeepsRecentLines`), from `AllUsesInv`. LRU is as for the
  predictor. For PLRU every node of the tree points away from the half with the
  line used last (`TreePoints`); the victim is at the end of the pointers, so every
  half left behind on the way to it holds a line used later, one for each level of
  the tree, and what was dropped was used before all of these (`Outlived`).

The loader and the process, for every file and list of arguments:
- `LoadedFilesAreWhole`, `WholeFilesAreLoaded`, `MemoryIsTheImage`
  (`LoadsWellFormedFiles`, `GoodFilesLoad`, `ImageLoaded`), from `LoopInv`: after n
  program headers these and their segments lie in the file, the lowest address is
  that of a segment among them, and each byte of memory is that of the last of
  these segments that covers it, modulo the size of the address space.
- `ArgumentsArePairs` (`ArgumentsInPairs`), from `ArgumentsInv`: each value is the
  last of its option among the pairs read so far (`ValueBefore`).
- `FailuresAreReported` (`FailureIsReported`), from `ResultInv`: the status is decided
  by the call that ended `main`. `ReportsAreOfThisRun` (`ReportOfThisRun`), from
  `ReportInv`: no report is written before `writeJson` has opened it, and nothing
  between that and the exit throws.

The configuration, for every file of sections and entries:
- `ConfigurationIsAsGiven` (`LoadsWhatIsGiven`). The name of a section stands
  nowhere before its own place in the text (`PartPlaced`, `SectionLacks`). From its
  brace on, each entry opens and closes braces in pairs, so the depth first returns
  to 0 at the end of the object (`BalancedJoined`, `ObjectEnds`), and what is cut
  out is that object (`ObjectFound`). In it no hit of the search for a key reaches
  across a comma (`HitsExtended`), so the first hit is the value of the first entry
  that fits (`ReadsExtended`).
- `SectionsAreReadWhole` (`NoSectionHalfRead`), which holds of every text: in the
  first n tokens, key, brace and closing brace are where the whole text has them,
  or missing (`CutShort`).
- That a file is a sequence of sections of different names is an invariant
  (`DocumentInv`); that the machine is configured from the file as it stands is
  another (`ConfigRead`).

Words and operands:
- `DecodesEveryWord`, `RejectsEveryOtherWord` (`DecodesItsEncoding`,
  `RejectsTheRest`), of all 2^32 words. A field is split at any bit (`FieldSplit`),
  moved to where its bits stand elsewhere (`FieldMoved`), and keeps its bits when
  its sign is extended (`Extended`). So an immediate scattered over a word is the
  field of a word where its bits are side by side. Each row of the tables then
  decides, by opcode and function bits, what a word is.
- `ArithmeticIsBitwise`, `BranchesAreBitwise` (`AluIsBitwise`,
  `ConditionsAreBitwise`), of all pairs of words of every width up to 32. The carry
  into a bit is the quotient of the sum of the lower parts (`CarryIs`); a
  difference is the sum with the complement, which borrows exactly when it is
  negative (`BorrowIs`) and whose sign, corrected by the overflow, compares signed
  words (`LessSignedIs`); a shift divides or multiplies by a power of two, and bits
  above the highest are those of the sign (`ShiftedBits`).
- The provers know the numbers 2^0 to 2^32, not exponentiation, so these powers are
  listed (`Powers`), which is why the width ends at 32, that of the code.

Recursion on a number needs no induction theorem: a set of natural numbers has a
least element (`LeastNat` in `Sums`), so a statement that fails for some number
has a least counterexample.

The assumptions are the named ASSUMEs of the modules: sizes are natural numbers,
there are at least as many physical as architectural registers, a program is a
sequence of decoded instructions, cache configurations are valid, L1D and L2 have
lines of one size where versions are followed, `^`, `|` and `&` do what they do bit
by bit, a file has bytes and, where there is room for one, program headers of
numbers, and the latencies of the caches are among those of the pipeline. An entry
of a configuration file is a value or an object of one entry, and no key and no
string in it is the name of a section of the simulator: `Config.cpp` would take
that for the section. TLC evaluates the assumptions in every run of these modules.

Only model-checked:
- `LoadsFollowStores`, which is no invariant of the code (finding 4) but of the
  programs of `isa`;
- `Termination`, `RunEnds` and whatever else is liveness.

## Plan

1. Done: the pipeline with its properties, refinement and first theorems.
2. Done: the remaining components, the whole simulator, and the program around it.
3. Done: the invariants of the pipeline, its refinement of `Isa`, the contract and
   the statistics of the predictor, and the whole simulator: contract, trace and
   counters.
4. Done: the caches, replacement, occupancy, the loader and the process, the search
   in a configuration, the decoder and the arithmetic.
5. Later: the deques of `ReorderBuffer` and `IssueQueue` refined to the functions
   used here; configuration files of any shape.

## Not modelled

The JSON text of the report (its counters are), the unit tests and workloads,
which are inputs, and the static pages of `web/`. Characters of configuration
files, and the conversions of numbers that their type does not hold. Self-modifying code,
data in the program image and misaligned program counters are outside the model
of the pipeline; `Machine` takes programs of decoded instructions, and decoder and
loader are checked on their own.
