-------------------------- MODULE SimulatorProofs ---------------------------
(***************************************************************************)
(* The pipeline, for every machine size, program and latency.  First where *)
(* things are: types, with what the proofs need of words, of partial       *)
(* functions and of the helpers of Execute and Memory; no physical register *)
(* has two uses or is written while an older instruction has to read it;   *)
(* every instruction in flight is in exactly one place, loads execute      *)
(* behind older stores, and nothing follows an exit into the pipeline.     *)
(*                                                                         *)
(* Then what is in them: a checkpoint is the map without the writes of     *)
(* younger instructions, a register is ready exactly when nothing older has *)
(* still to write it; instructions name the registers that program order   *)
(* gives them, read them only when they are written, and leave in them     *)
(* what they compute.                                                      *)
(*                                                                         *)
(* Last, the pipeline implements the in-order machine, as far as no load   *)
(* runs ahead of an older store to one of its bytes.                       *)
(***************************************************************************)
EXTENDS SimulatorProperties, SimulatorRefinesIsa, TLAPS

-----------------------------------------------------------------------------
(* Words, partial functions, execution and memory                          *)

(* A sum of words is reduced to a word. *)
LEMMA WordAddType ==
  ASSUME NEW x \in Int, NEW y \in Int
  PROVE  WordAdd(x, y) \in Word
BY WordAssumption DEF WordAdd, Word

(* What Put and Only do to a function. *)
LEMMA PutFacts ==
  ASSUME NEW f, NEW k, NEW v
  PROVE  /\ \A x : x \in DOMAIN Put(f, k, v) <=> x \in DOMAIN f \/ x = k
         /\ Put(f, k, v)[k] = v
         /\ \A x : x \in DOMAIN f /\ x # k => Put(f, k, v)[x] = f[x]
BY DEF Put

LEMMA OnlyFacts ==
  ASSUME NEW f, NEW D
  PROVE  /\ \A x : x \in DOMAIN Only(f, D) <=> x \in DOMAIN f /\ x \in D
         /\ \A x : x \in DOMAIN f /\ x \in D => Only(f, D)[x] = f[x]
BY DEF Only

(* Both keep a partial function typed. *)
LEMMA PutPartial ==
  ASSUME NEW S, NEW T, NEW f, NEW k \in S, NEW v \in T, IsPartial(f, S, T)
  PROVE  IsPartial(Put(f, k, v), S, T)
BY DEF IsPartial, Put

LEMMA OnlyPartial ==
  ASSUME NEW S, NEW T, NEW f, NEW D, IsPartial(f, S, T)
  PROVE  IsPartial(Only(f, D), S, T)
BY DEF IsPartial, Only

(* The empty partial function has every type. *)
LEMMA NoEntriesPartial ==
  ASSUME NEW S, NEW T
  PROVE  IsPartial(NoEntries, S, T) /\ DOMAIN NoEntries = {}
BY DEF IsPartial, NoEntries

-----------------------------------------------------------------------------
(* A byte of a word is a byte. *)
LEMMA ByteOfType ==
  ASSUME NEW value \in Word, NEW k
  PROVE  ByteOf(value, k) \in Byte
<1>1. \A x \in Int : x % ByteMod \in Byte /\ x \div ByteMod \in Int
  BY WordAssumption DEF Byte
<1>2. value \in Int
  BY WordAssumption DEF Word
<1> DEFINE d1 == value \div ByteMod
           d2 == d1 \div ByteMod
           d3 == d2 \div ByteMod
<1>3. d1 \in Int /\ d2 \in Int /\ d3 \in Int
  BY <1>1, <1>2
<1>4. /\ value % ByteMod \in Byte /\ d1 % ByteMod \in Byte
      /\ d2 % ByteMod \in Byte /\ d3 % ByteMod \in Byte
  BY <1>1, <1>2, <1>3
<1> QED
  BY <1>4 DEF ByteOf

(* Storing bytes leaves a byte memory. *)
LEMMA WrittenType ==
  ASSUME NEW m, IsPartial(m, Word, Byte), NEW address \in Word, NEW value \in Word,
         NEW size \in Nat
  PROVE  IsPartial(Written(m, address, value, size), Word, Byte)
<1> DEFINE touched == {WordAdd(address, k) : k \in 0 .. size - 1}
<1>1. touched \subseteq Word
  BY WordAddType, WordAssumption DEF Word
<1>2. \A x \in touched : ByteOf(value, (x - address) % WordMod) \in Byte
  BY ByteOfType
<1> QED
  BY <1>1, <1>2 DEF IsPartial, Written

(* Reading a byte of memory, written or not. *)
LEMMA Read8Type ==
  ASSUME NEW m, IsPartial(m, Word, Byte), NEW address
  PROVE  read8(m, address) \in Byte
BY WordAssumption DEF IsPartial, read8, Byte

(* Whatever a load instruction reads becomes a word. *)
LEMMA LoadValueType ==
  ASSUME NEW m, IsPartial(m, Word, Byte), NEW address, NEW op \in Loads
  PROVE  loadValue(m, address, op) \in Word
<1>1. \A x \in Int : x % WordMod \in Word
  BY WordAssumption DEF Word
<1>2. \A x, y \in Int : x * y \in Int /\ x + y \in Int /\ x - y \in Int
  OBVIOUS
<1>3. ByteMod \in Int /\ WordMod \in Int
  BY WordAssumption
<1>4. \A x : read8(m, x) \in Int
  BY Read8Type, WordAssumption DEF Byte
<1>5. \A x : read16(m, x) \in Int
  BY <1>2, <1>3, <1>4 DEF read16
<1>6. \A x : read32(m, x) \in Word
  <2> TAKE x
  <2> DEFINE high == ByteMod * (ByteMod * read16(m, WordAdd(x, 2)))
  <2>1. high \in Int
    BY <1>2, <1>3, <1>5
  <2>2. read16(m, x) + high \in Int
    BY <1>2, <1>5, <2>1
  <2> QED
    BY <1>1, <2>2 DEF read32
<1>7. \A v, modulus \in Int : signExtend(v, modulus) \in Word
  BY <1>1, <1>2, <1>3 DEF signExtend
<1>8. ByteMod * ByteMod \in Int
  BY <1>2, <1>3
<1> QED
  BY <1>1, <1>3, <1>4, <1>5, <1>6, <1>7, <1>8 DEF loadValue, Loads

-----------------------------------------------------------------------------
(* Fetching anywhere gives an instruction. *)
LEMMA InstrAtType ==
  ASSUME NEW prog \in Programs, NEW x \in Word
  PROVE  InstrAt(prog, x) \in Decoded
<1>1. prog \in Seq(Decoded)
  BY ProgramAssumption
<1>2. IllegalInst \in Decoded
  BY WordAssumption DEF IllegalInst, Decoded, Opcode, Arch, Word
<1> QED
  BY <1>1, <1>2 DEF InstrAt

(* Every instruction computes a word ... *)
LEMMA ValueType ==
  ASSUME NEW i, i.op \in Opcode, i.imm \in Word, i.pc \in Word, NEW x \in Word, NEW y \in Word
  PROVE  Value(i, x, y) \in Word
<1>1. 0 \in Word
  BY WordAssumption DEF Word
<1>2. WordAdd(i.pc, i.imm) \in Word /\ WordAdd(i.pc, 4) \in Word
  <2>1. i.pc \in Int /\ i.imm \in Int
    BY WordAssumption DEF Word
  <2> QED
    BY <2>1, WordAddType
<1>3. i.op \in ImmOps => AluOp(i.op, x, i.imm) \in Word
  BY ExecuteAssumption
<1>4. i.op \in RegOps => AluOp(i.op, x, y) \in Word
  BY ExecuteAssumption
<1> QED
  BY <1>1, <1>2, <1>3, <1>4 DEF Value

(* ... and continues at one. *)
LEMMA TargetType ==
  ASSUME NEW i, i.imm \in Word, i.pc \in Word, NEW x \in Word, NEW y \in Word
  PROVE  Target(i, x, y) \in Word
<1>1. /\ WordAdd(i.pc, i.imm) \in Word /\ WordAdd(i.pc, 4) \in Word
      /\ WordAdd(x, i.imm) \in Word
  <2>1. i.pc \in Int /\ i.imm \in Int /\ x \in Int
    BY WordAssumption DEF Word
  <2> QED
    BY <2>1, WordAddType
<1>2. \A w \in Word : 2 * (w \div 2) \in Word
  BY WordAssumption DEF Word
<1> QED
  BY <1>1, <1>2 DEF Target

-----------------------------------------------------------------------------
(* The pipeline                                                            *)

(* A step that leaves the variables of a part alone leaves it well typed.  *)
LEMMA FrameType ==
  /\ MemoryTypeOK /\ UNCHANGED memory => MemoryTypeOK'
  /\ RenameTypeOK /\ UNCHANGED renameVars => RenameTypeOK'
  /\ PrfTypeOK /\ UNCHANGED prfVars => PrfTypeOK'
  /\ BackTypeOK /\ UNCHANGED <<robVars, iq, exec>> => BackTypeOK'
  /\ FrontTypeOK /\ UNCHANGED <<lastTarget, program, frontVars>> => FrontTypeOK'
  /\ LoopTypeOK /\ UNCHANGED <<nextSeq, loopVars, exitVars>> => LoopTypeOK'
<1>1. MemoryTypeOK /\ UNCHANGED memory => MemoryTypeOK'
  BY DEF MemoryTypeOK
<1>2. RenameTypeOK /\ UNCHANGED renameVars => RenameTypeOK'
  BY DEF RenameTypeOK, renameVars
<1>3. PrfTypeOK /\ UNCHANGED prfVars => PrfTypeOK'
  BY DEF PrfTypeOK, prfVars
<1>4. BackTypeOK /\ UNCHANGED <<robVars, iq, exec>> => BackTypeOK'
  BY DEF BackTypeOK, robVars, Seqs, InFlight
<1>5. FrontTypeOK /\ UNCHANGED <<lastTarget, program, frontVars>> => FrontTypeOK'
  BY DEF FrontTypeOK, frontVars
<1>6. LoopTypeOK /\ UNCHANGED <<nextSeq, loopVars, exitVars>> => LoopTypeOK'
  BY DEF LoopTypeOK, loopVars, exitVars, Seqs
<1> QED
  BY <1>1, <1>2, <1>3, <1>4, <1>5, <1>6

(* Some facts about constants that the steps below need. *)
LEMMA Zeroes == 0 \in Word /\ 0 \in Phys /\ 0 \in Arch /\ 0 \in Nat
BY WordAssumption, NPhysAssumption DEF Word, Phys, Arch

(* The initial states are well typed. *)
LEMMA InitType == Init => TypeOK
<1> SUFFICES ASSUME Init PROVE TypeOK
  OBVIOUS
<1> USE Zeroes DEF Init
<1>1. MemoryTypeOK
  BY NoEntriesPartial DEF MemoryTypeOK, MemoryInit
<1>2. RenameTypeOK
  BY WordAssumption, NPhysAssumption DEF RenameTypeOK, RenameInit, Arch, Phys
<1>3. PrfTypeOK
  BY StackPointerAssumption DEF PrfTypeOK, PrfInit
<1>4. BackTypeOK
  <2>1. IsPartial(rob, Seqs, Entry) /\ InFlight = {}
    BY NoEntriesPartial DEF RobInit, InFlight
  <2>2. IsPartial(exec, Seqs, Active)
    BY NoEntriesPartial DEF ExecInit
  <2>3. iq \subseteq Seqs /\ nextSeq \in Nat \ {0}
    BY DEF IqInit, RobInit
  <2> QED
    BY <2>1, <2>2, <2>3 DEF BackTypeOK
<1>5. FrontTypeOK
  BY NoEntriesPartial, ProgramAssumption DEF FrontTypeOK, FetchInit, OracleInit
<1>6. LoopTypeOK
  BY DEF LoopTypeOK, Stages
<1> QED
  BY <1>1, <1>2, <1>3, <1>4, <1>5, <1>6 DEF TypeOK

-----------------------------------------------------------------------------
(* Facts about one entry of the reorder buffer *)

(* What an entry in flight is made of. *)
LEMMA EntryType ==
  ASSUME TypeOK, NEW s \in InFlight
  PROVE  /\ s \in Seqs /\ rob[s] \in Entry
         /\ rob[s].hasCheckpoint => rob[s].checkpoint \in Checkpoint
BY DEF TypeOK, BackTypeOK, IsPartial, InFlight

(* Its operands and everything computed from them are words. *)
LEMMA OperandTypes ==
  ASSUME TypeOK, NEW s \in InFlight
  PROVE  /\ Src1(rob[s]) \in Word /\ Src2(rob[s]) \in Word
         /\ accessAddress(rob[s]) \in Word
         /\ Result(rob[s]) \in Word
         /\ actualTarget(rob[s]) \in Word
<1> DEFINE e == rob[s]
<1>1. e \in Entry
  BY EntryType
<1>2. /\ e.inst.op \in Opcode /\ e.inst.imm \in Word /\ e.inst.pc \in Word
      /\ e.src1Phys \in Phys /\ e.src2Phys \in Phys
  BY <1>1 DEF Entry, Fetched
<1>3. Src1(e) \in Word /\ Src2(e) \in Word
  BY <1>2 DEF TypeOK, PrfTypeOK, Src1, Src2, read
<1>4. accessAddress(e) \in Word
  <2>1. Src1(e) \in Int /\ e.inst.imm \in Int
    BY <1>2, <1>3, WordAssumption DEF Word
  <2> QED
    BY <2>1, WordAddType DEF accessAddress
<1>5. Result(e) \in Word
  <2>1. CASE e.inst.op \in Loads
    BY <2>1, LoadValueType DEF Result, TypeOK, MemoryTypeOK
  <2>2. CASE e.inst.op \notin Loads
    BY <2>2, <1>2, <1>3, ValueType DEF Result
  <2> QED
    BY <2>1, <2>2
<1>6. actualTarget(e) \in Word
  BY <1>2, <1>3, TargetType DEF actualTarget
<1> QED
  BY <1>3, <1>4, <1>5, <1>6

(* Completing an entry keeps it an entry. *)
LEMMA ExecutedType ==
  ASSUME TypeOK, NEW s \in InFlight
  PROVE  /\ Executed(rob[s]) \in Entry
         /\ Executed(rob[s]).hasCheckpoint = rob[s].hasCheckpoint
         /\ Executed(rob[s]).checkpoint = rob[s].checkpoint
<1>1. rob[s] \in Entry
  BY EntryType
<1>2. accessAddress(rob[s]) \in Word /\ Src2(rob[s]) \in Word
  BY OperandTypes
<1> QED
  BY <1>1, <1>2 DEF Executed, Entry

(* So does issuing it, or finding its address misaligned. *)
LEMMA IssuedType ==
  ASSUME TypeOK, NEW s \in InFlight
  PROVE  /\ Issued(rob[s]) \in Entry /\ Faulted(rob[s]) \in Entry
         /\ Issued(rob[s]).hasCheckpoint = rob[s].hasCheckpoint
         /\ Faulted(rob[s]).hasCheckpoint = rob[s].hasCheckpoint
         /\ Issued(rob[s]).checkpoint = rob[s].checkpoint
         /\ Faulted(rob[s]).checkpoint = rob[s].checkpoint
<1>1. rob[s] \in Entry
  BY EntryType
<1> QED
  BY <1>1 DEF Issued, Faulted, Entry

(* Replacing an entry of the reorder buffer by e, or adding it, and        *)
(* cutting entries keep the buffer typed.                                  *)
LEMMA RobPutType ==
  ASSUME TypeOK, NEW s \in Seqs, NEW e \in Entry,
         e.hasCheckpoint => e.checkpoint \in Checkpoint
  PROVE  /\ IsPartial(Put(rob, s, e), Seqs, Entry)
         /\ \A t \in DOMAIN Put(rob, s, e) :
              Put(rob, s, e)[t].hasCheckpoint => Put(rob, s, e)[t].checkpoint \in Checkpoint
<1>1. IsPartial(rob, Seqs, Entry)
  BY DEF TypeOK, BackTypeOK
<1>2. IsPartial(Put(rob, s, e), Seqs, Entry)
  BY <1>1, PutPartial
<1>3. \A t \in InFlight : rob[t].hasCheckpoint => rob[t].checkpoint \in Checkpoint
  BY DEF TypeOK, BackTypeOK
<1> QED
  BY <1>2, <1>3, PutFacts DEF InFlight

LEMMA RobOnlyType ==
  ASSUME NEW r, NEW D, IsPartial(r, Seqs, Entry),
         \A t \in DOMAIN r : r[t].hasCheckpoint => r[t].checkpoint \in Checkpoint
  PROVE  /\ IsPartial(Only(r, D), Seqs, Entry)
         /\ \A t \in DOMAIN Only(r, D) :
              Only(r, D)[t].hasCheckpoint => Only(r, D)[t].checkpoint \in Checkpoint
BY OnlyPartial, OnlyFacts

-----------------------------------------------------------------------------
(* The commit stage keeps the types *)

LEMMA CommitInstructionType == TypeOK /\ CommitInstruction => TypeOK'
<1> SUFFICES ASSUME TypeOK, CommitInstruction PROVE TypeOK'
  OBVIOUS
<1> PICK s \in InFlight :
      /\ IF rob[s].inst.op \in Stores
           THEN storeValue(rob[s].storeAddress, rob[s].storeData,
                           memorySizeBytes(rob[s].inst.op))
           ELSE UNCHANGED memory
      /\ IF rob[s].hasDest THEN freePhysical(Released(rob[s])) ELSE UNCHANGED renameVars
      /\ popHead(s)
  BY DEF CommitInstruction
<1>1. rob[s] \in Entry
  BY EntryType
<1>2. MemoryTypeOK'
  <2>1. CASE rob[s].inst.op \in Stores
    <3>1. rob[s].storeAddress \in Word /\ rob[s].storeData \in Word
      BY <1>1 DEF Entry
    <3>2. memorySizeBytes(rob[s].inst.op) \in Nat
      BY <2>1 DEF memorySizeBytes, Stores
    <3> QED
      BY <2>1, <3>1, <3>2, WrittenType DEF storeValue, TypeOK, MemoryTypeOK
  <2>2. CASE rob[s].inst.op \notin Stores
    BY <2>2, FrameType DEF TypeOK
  <2> QED
    BY <2>1, <2>2
<1>3. RenameTypeOK'
  <2>1. rob[s].oldDestPhys \in Phys \cup {-1}
    BY <1>1 DEF Entry
  <2>2. rob[s].oldDestPhys >= NArch => rob[s].oldDestPhys \in Phys
    BY <2>1, WordAssumption DEF Phys
  <2> QED
    BY <2>2, FrameType DEF TypeOK, RenameTypeOK, freePhysical, Released, renameVars
<1>4. BackTypeOK'
  <2>1. rob' = Only(rob, InFlight \ {s})
    BY DEF popHead
  <2>2. /\ IsPartial(rob', Seqs, Entry)
        /\ \A t \in DOMAIN rob' : rob'[t].hasCheckpoint => rob'[t].checkpoint \in Checkpoint
    BY <2>1, RobOnlyType DEF TypeOK, BackTypeOK, InFlight
  <2> QED
    BY <2>2 DEF CommitInstruction, TypeOK, BackTypeOK, Seqs, InFlight
<1>5. PrfTypeOK' /\ FrontTypeOK'
  BY FrameType DEF CommitInstruction, TypeOK
<1>6. LoopTypeOK'
  BY DEF CommitInstruction, TypeOK, LoopTypeOK, exitVars, Seqs
<1> QED
  BY <1>2, <1>3, <1>4, <1>5, <1>6 DEF TypeOK

LEMMA CommitEcallType == TypeOK /\ CommitEcall => TypeOK'
<1> SUFFICES ASSUME TypeOK, CommitEcall PROVE TypeOK'
  OBVIOUS
<1> PICK s \in InFlight : popHead(s)
  BY DEF CommitEcall
<1>1. MemoryTypeOK' /\ RenameTypeOK' /\ PrfTypeOK' /\ FrontTypeOK'
  BY FrameType DEF CommitEcall, TypeOK
<1>2. BackTypeOK'
  <2>1. rob' = Only(rob, InFlight \ {s})
    BY DEF popHead
  <2>2. /\ IsPartial(rob', Seqs, Entry)
        /\ \A t \in DOMAIN rob' : rob'[t].hasCheckpoint => rob'[t].checkpoint \in Checkpoint
    BY <2>1, RobOnlyType DEF TypeOK, BackTypeOK, InFlight
  <2> QED
    BY <2>2 DEF CommitEcall, TypeOK, BackTypeOK, Seqs, InFlight
<1>3. read(physForArch(A0)) \in Word
  BY SimulatorAssumption DEF TypeOK, RenameTypeOK, PrfTypeOK, read, physForArch
<1>4. LoopTypeOK'
  BY <1>3 DEF CommitEcall, TypeOK, LoopTypeOK, Seqs
<1> QED
  BY <1>1, <1>2, <1>4 DEF TypeOK

LEMMA CommitFaultType == TypeOK /\ CommitFault => TypeOK'
<1> SUFFICES ASSUME TypeOK, CommitFault PROVE TypeOK'
  OBVIOUS
<1>1. MemoryTypeOK' /\ RenameTypeOK' /\ PrfTypeOK' /\ BackTypeOK' /\ FrontTypeOK'
  BY FrameType DEF CommitFault, TypeOK
<1>2. LoopTypeOK'
  BY DEF CommitFault, GoTo, TypeOK, LoopTypeOK, robVars, exitVars, Seqs
<1> QED
  BY <1>1, <1>2 DEF TypeOK

LEMMA TickType == TypeOK /\ Tick => TypeOK'
<1> SUFFICES ASSUME TypeOK, Tick PROVE TypeOK'
  OBVIOUS
<1>1. MemoryTypeOK' /\ RenameTypeOK' /\ PrfTypeOK' /\ FrontTypeOK'
  BY FrameType DEF Tick, TypeOK
<1>2. IsPartial(exec, Seqs, Active)
  BY DEF TypeOK, BackTypeOK
<1>3. IsPartial(exec', Seqs, Active)
  BY <1>2 DEF Tick, tick, Finishing, IsPartial, Active
<1>4. BackTypeOK'
  BY <1>3 DEF Tick, TypeOK, BackTypeOK, robVars, Seqs, InFlight
<1>5. Finishing \subseteq Seqs
  BY <1>2 DEF Finishing, IsPartial
<1>6. LoopTypeOK'
  BY <1>5 DEF Tick, GoTo, TypeOK, LoopTypeOK, Stages, robVars, exitVars, Seqs
<1> QED
  BY <1>1, <1>4, <1>6 DEF TypeOK

-----------------------------------------------------------------------------
(* The complete stage keeps the types *)

LEMMA CompleteSkipType == TypeOK /\ CompleteSkip => TypeOK'
<1> SUFFICES ASSUME TypeOK, CompleteSkip PROVE TypeOK'
  OBVIOUS
<1>1. MemoryTypeOK' /\ RenameTypeOK' /\ PrfTypeOK' /\ BackTypeOK' /\ FrontTypeOK'
  BY FrameType DEF CompleteSkip, TypeOK
<1>2. LoopTypeOK'
  BY DEF CompleteSkip, TypeOK, LoopTypeOK, robVars, exitVars, Seqs
<1> QED
  BY <1>1, <1>2 DEF TypeOK

(* The register and predictor updates of a completion. *)
LEMMA WriteBackType ==
  ASSUME TypeOK, NEW s \in InFlight, WriteBack(rob[s])
  PROVE  PrfTypeOK' /\ IsPartial(lastTarget', Word, Word)
<1>1. rob[s] \in Entry
  BY EntryType
<1>2. Result(rob[s]) \in Word /\ actualTarget(rob[s]) \in Word /\ rob[s].inst.pc \in Word
  BY <1>1, OperandTypes DEF Entry, Fetched
<1>3. PrfTypeOK'
  BY <1>2 DEF WriteBack, write, TypeOK, PrfTypeOK, prfVars
<1>4. IsPartial(lastTarget, Word, Word)
  BY DEF TypeOK, FrontTypeOK
<1>5. IsPartial(Put(lastTarget, rob[s].inst.pc, actualTarget(rob[s])), Word, Word)
  BY <1>2, <1>4, PutPartial
<1> QED
  BY <1>3, <1>4, <1>5 DEF WriteBack, update

LEMMA CompleteInstructionType == TypeOK /\ CompleteInstruction => TypeOK'
<1> SUFFICES ASSUME TypeOK, CompleteInstruction PROVE TypeOK'
  OBVIOUS
<1> PICK s \in work : /\ s \in InFlight /\ WriteBack(rob[s])
                      /\ rob' = Put(rob, s, Executed(rob[s]))
                      /\ work' = work \ {s}
  BY DEF CompleteInstruction, Completes
<1>1. MemoryTypeOK' /\ RenameTypeOK'
  BY FrameType DEF CompleteInstruction, TypeOK
<1>2. PrfTypeOK' /\ IsPartial(lastTarget', Word, Word)
  BY WriteBackType
<1>3. BackTypeOK'
  <2>1. /\ IsPartial(rob', Seqs, Entry)
        /\ \A t \in DOMAIN rob' : rob'[t].hasCheckpoint => rob'[t].checkpoint \in Checkpoint
    BY EntryType, ExecutedType, RobPutType
  <2> QED
    BY <2>1 DEF CompleteInstruction, TypeOK, BackTypeOK, Seqs, InFlight
<1>4. FrontTypeOK'
  BY <1>2 DEF CompleteInstruction, TypeOK, FrontTypeOK, frontVars
<1>5. LoopTypeOK'
  BY DEF CompleteInstruction, TypeOK, LoopTypeOK, exitVars, Seqs
<1> QED
  BY <1>1, <1>2, <1>3, <1>4, <1>5 DEF TypeOK

LEMMA CompleteRecoveringType == TypeOK /\ CompleteRecovering => TypeOK'
<1> SUFFICES ASSUME TypeOK, CompleteRecovering PROVE TypeOK'
  OBVIOUS
<1> PICK s \in work :
      /\ s \in InFlight /\ recovers(rob[s]) /\ WriteBack(rob[s])
      /\ restore(rob[s].checkpoint)
      /\ rob' = Only(Put(rob, s, Executed(rob[s])), UpTo(InFlight, s))
      /\ iq' = UpTo(iq, s)
      /\ flushYoungerThan(s)
      /\ FetchFlush(actualTarget(rob[s]))
      /\ work' = work \ {s}
  BY DEF CompleteRecovering, Completes
<1>1. MemoryTypeOK'
  BY FrameType DEF CompleteRecovering, TypeOK
<1>2. PrfTypeOK' /\ IsPartial(lastTarget', Word, Word)
  BY WriteBackType
<1>3. RenameTypeOK'
  <2>1. rob[s].checkpoint \in Checkpoint
    BY EntryType DEF recovers
  <2> QED
    BY <2>1 DEF restore, RenameTypeOK, Checkpoint
<1>4. BackTypeOK'
  <2> DEFINE r == Put(rob, s, Executed(rob[s]))
  <2>1. /\ IsPartial(r, Seqs, Entry)
        /\ \A t \in DOMAIN r : r[t].hasCheckpoint => r[t].checkpoint \in Checkpoint
    BY EntryType, ExecutedType, RobPutType
  <2>2. rob' = Only(r, UpTo(InFlight, s))
    OBVIOUS
  <2> HIDE DEF r
  <2>3. /\ IsPartial(rob', Seqs, Entry)
        /\ \A t \in DOMAIN rob' : rob'[t].hasCheckpoint => rob'[t].checkpoint \in Checkpoint
    BY <2>1, <2>2, RobOnlyType
  <2>4. IsPartial(exec', Seqs, Active)
    BY OnlyPartial DEF flushYoungerThan, TypeOK, BackTypeOK
  <2>5. iq' \subseteq Seqs
    BY DEF UpTo, TypeOK, BackTypeOK
  <2> QED
    BY <2>3, <2>4, <2>5 DEF CompleteRecovering, TypeOK, BackTypeOK, Seqs, InFlight
<1>5. FrontTypeOK'
  BY <1>2, OperandTypes DEF CompleteRecovering, TypeOK, FrontTypeOK, FetchFlush
<1>6. LoopTypeOK'
  BY DEF CompleteRecovering, TypeOK, LoopTypeOK, exitVars, Seqs
<1> QED
  BY <1>1, <1>2, <1>3, <1>4, <1>5, <1>6 DEF TypeOK

LEMMA SelectType == TypeOK /\ Select => TypeOK'
<1> SUFFICES ASSUME TypeOK, Select PROVE TypeOK'
  OBVIOUS
<1>1. MemoryTypeOK' /\ RenameTypeOK' /\ PrfTypeOK' /\ BackTypeOK' /\ FrontTypeOK'
  BY FrameType DEF Select, TypeOK
<1>2. selectReady \subseteq Seqs
  BY DEF selectReady, TypeOK, BackTypeOK
<1>3. LoopTypeOK'
  BY <1>2 DEF Select, GoTo, TypeOK, LoopTypeOK, Stages, robVars, exitVars, Seqs
<1> QED
  BY <1>1, <1>3 DEF TypeOK

-----------------------------------------------------------------------------
(* The issue stage keeps the types *)

LEMMA IssueSkipType == TypeOK /\ IssueSkip => TypeOK'
<1> SUFFICES ASSUME TypeOK, IssueSkip PROVE TypeOK'
  OBVIOUS
<1>1. MemoryTypeOK' /\ RenameTypeOK' /\ PrfTypeOK' /\ BackTypeOK' /\ FrontTypeOK'
  BY FrameType DEF IssueSkip, TypeOK
<1>2. LoopTypeOK'
  BY DEF IssueSkip, TypeOK, LoopTypeOK, robVars, exitVars, Seqs
<1> QED
  BY <1>1, <1>2 DEF TypeOK

LEMMA IssueMisalignedType == TypeOK /\ IssueMisaligned => TypeOK'
<1> SUFFICES ASSUME TypeOK, IssueMisaligned PROVE TypeOK'
  OBVIOUS
<1> PICK s \in work : /\ s \in InFlight
                      /\ rob' = Put(rob, s, Faulted(rob[s]))
                      /\ iq' = iq \ {s}
                      /\ work' = work \ {s}
  BY DEF IssueMisaligned, Issues
<1>1. MemoryTypeOK' /\ RenameTypeOK' /\ PrfTypeOK' /\ FrontTypeOK'
  BY FrameType DEF IssueMisaligned, TypeOK
<1>2. BackTypeOK'
  <2>1. /\ IsPartial(rob', Seqs, Entry)
        /\ \A t \in DOMAIN rob' : rob'[t].hasCheckpoint => rob'[t].checkpoint \in Checkpoint
    BY EntryType, IssuedType, RobPutType
  <2> QED
    BY <2>1 DEF IssueMisaligned, TypeOK, BackTypeOK, Seqs, InFlight
<1>3. LoopTypeOK'
  BY DEF IssueMisaligned, TypeOK, LoopTypeOK, exitVars, Seqs
<1> QED
  BY <1>1, <1>2, <1>3 DEF TypeOK

(* A started instruction has a number of cycles left. *)
LEMMA StartType ==
  ASSUME TypeOK, NEW s \in InFlight, NEW extra \in Nat, start(rob[s].inst, s, extra)
  PROVE  IsPartial(exec', Seqs, Active)
<1> DEFINE cycles == latencyFor(rob[s].inst) + extra
           active == [unit      |-> unitFor(rob[s].inst),
                      remaining |-> IF cycles < 1 THEN 1 ELSE cycles]
<1>1. unitFor(rob[s].inst) \in Unit
  BY DEF unitFor, Unit
<1>2. latencyFor(rob[s].inst) \in Nat
  BY <1>1, UnitsAssumption DEF latencyFor, Unit
<1>3. active \in Active
  BY <1>1, <1>2 DEF Active
<1>4. IsPartial(exec, Seqs, Active) /\ s \in Seqs
  BY EntryType DEF TypeOK, BackTypeOK
<1>5. exec' = Put(exec, s, active)
  BY DEF start
<1> HIDE DEF active
<1> QED
  BY <1>3, <1>4, <1>5, PutPartial

LEMMA IssueInstructionType == TypeOK /\ IssueInstruction => TypeOK'
<1> SUFFICES ASSUME TypeOK, IssueInstruction PROVE TypeOK'
  OBVIOUS
<1> PICK s \in work, latency \in DataLatencies \cup {0} :
      /\ s \in InFlight
      /\ start(rob[s].inst, s, IF latency > 1 THEN latency - 1 ELSE 0)
      /\ rob' = Put(rob, s, Issued(rob[s]))
      /\ iq' = iq \ {s}
      /\ work' = work \ {s}
  BY DEF IssueInstruction, IssueWith, Issues
<1>1. MemoryTypeOK' /\ RenameTypeOK' /\ PrfTypeOK' /\ FrontTypeOK'
  BY FrameType DEF IssueInstruction, IssueWith, TypeOK
<1>2. (IF latency > 1 THEN latency - 1 ELSE 0) \in Nat
  BY SimulatorAssumption
<1>3. IsPartial(exec', Seqs, Active)
  BY <1>2, StartType
<1>4. BackTypeOK'
  <2>1. /\ IsPartial(rob', Seqs, Entry)
        /\ \A t \in DOMAIN rob' : rob'[t].hasCheckpoint => rob'[t].checkpoint \in Checkpoint
    BY EntryType, IssuedType, RobPutType
  <2> QED
    BY <1>3, <2>1 DEF IssueInstruction, IssueWith, TypeOK, BackTypeOK, Seqs, InFlight
<1>5. LoopTypeOK'
  BY DEF IssueInstruction, IssueWith, TypeOK, LoopTypeOK, exitVars, Seqs
<1> QED
  BY <1>1, <1>4, <1>5 DEF TypeOK

LEMMA IssueDoneType == TypeOK /\ IssueDone => TypeOK'
<1> SUFFICES ASSUME TypeOK, IssueDone PROVE TypeOK'
  OBVIOUS
<1>1. MemoryTypeOK' /\ RenameTypeOK' /\ PrfTypeOK' /\ BackTypeOK' /\ FrontTypeOK'
  BY FrameType DEF IssueDone, TypeOK
<1>2. LoopTypeOK'
  BY DEF IssueDone, GoTo, TypeOK, LoopTypeOK, Stages, robVars, exitVars, Seqs
<1> QED
  BY <1>1, <1>2 DEF TypeOK

-----------------------------------------------------------------------------
(* The rename stage keeps the types *)

(* The registers after a destination, if any, was allocated. *)
LEMMA AllocateType ==
  ASSUME TypeOK, RenameInstruction
  PROVE  /\ Head(fetchQueue) \in Fetched
         /\ RenameTypeOK' /\ PrfTypeOK'
         /\ hasDest(Head(fetchQueue)) => NextFree \in Phys
<1> DEFINE i == Head(fetchQueue)
<1>1. i \in Fetched
  BY DEF RenameInstruction, CanRename, TypeOK, FrontTypeOK
<1>2. CASE hasDest(i)
  <2>1. allocate(i.rd) /\ markNotReady(NextFree) /\ canAllocate
    BY <1>2 DEF RenameInstruction, CanRename
  <2>2. freeList \in Seq(Phys) /\ freeList # << >>
    BY <2>1 DEF TypeOK, RenameTypeOK, canAllocate
  <2>3. NextFree \in Phys /\ Tail(freeList) \in Seq(Phys)
    BY <2>2 DEF NextFree
  <2>4. RenameTypeOK'
    BY <2>1, <2>3 DEF TypeOK, RenameTypeOK, allocate
  <2>5. PrfTypeOK'
    BY <2>1 DEF TypeOK, PrfTypeOK, markNotReady
  <2> QED
    BY <1>1, <2>3, <2>4, <2>5
<1>3. CASE ~hasDest(i)
  <2>1. UNCHANGED <<renameVars, prfVars>>
    BY <1>3 DEF RenameInstruction
  <2> QED
    BY <1>1, <1>3, <2>1, FrameType DEF TypeOK
<1> QED
  BY <1>2, <1>3

(* The reorder buffer entry of a renamed instruction. *)
LEMMA RobEntryType ==
  ASSUME TypeOK, RenameInstruction
  PROVE  /\ RobEntry(Head(fetchQueue)) \in Entry
         /\ RobEntry(Head(fetchQueue)).hasCheckpoint =>
              RobEntry(Head(fetchQueue)).checkpoint \in Checkpoint
<1> DEFINE i == Head(fetchQueue)
<1>1. /\ i \in Fetched /\ map' \in [Arch -> Phys] /\ freeList' \in Seq(Phys)
      /\ hasDest(i) => NextFree \in Phys
  BY AllocateType DEF RenameTypeOK
<1>2. checkpoint \in Checkpoint
  BY <1>1 DEF checkpoint, Checkpoint
<1>3. \A a \in Arch : physForArch(a) \in Phys
  BY Zeroes DEF physForArch, TypeOK, RenameTypeOK
<1>4. i.rd \in Arch /\ i.rs1 \in Arch /\ i.rs2 \in Arch
  BY <1>1 DEF Fetched
<1>5. /\ (IF hasDest(i) THEN NextFree ELSE -1) \in Phys \cup {-1}
      /\ (IF hasDest(i) THEN physForArch(i.rd) ELSE -1) \in Phys \cup {-1}
      /\ hasDest(i) \in BOOLEAN
  BY <1>1, <1>3, <1>4 DEF hasDest
<1> DEFINE c == IF i.op \in ControlOps THEN checkpoint ELSE NoEntries
<1>6. c \in Checkpoint \cup {NoEntries} /\ (i.op \in ControlOps => c \in Checkpoint)
  BY <1>2
<1>7. physForArch(i.rs1) \in Phys /\ physForArch(i.rs2) \in Phys
  BY <1>3, <1>4
<1> HIDE DEF c
<1>8. RobEntry(i).hasCheckpoint = (i.op \in ControlOps) /\ RobEntry(i).checkpoint = c
  BY DEF RobEntry, c
<1>9. RobEntry(i) \in Entry
  BY <1>1, <1>5, <1>6, <1>7, Zeroes DEF RobEntry, Entry, c
<1> QED
  BY <1>6, <1>8, <1>9

LEMMA RenameInstructionType == TypeOK /\ RenameInstruction => TypeOK'
<1> SUFFICES ASSUME TypeOK, RenameInstruction PROVE TypeOK'
  OBVIOUS
<1> DEFINE i == Head(fetchQueue)
<1>1. MemoryTypeOK'
  BY FrameType DEF RenameInstruction, TypeOK
<1>2. RenameTypeOK' /\ PrfTypeOK'
  BY AllocateType
<1>3. BackTypeOK'
  <2> DEFINE e == RobEntry(i)
  <2>1. rob' = Put(rob, nextSeq, e) /\ nextSeq' = nextSeq + 1
    BY DEF RenameInstruction, RobAllocate
  <2>2. e \in Entry /\ (e.hasCheckpoint => e.checkpoint \in Checkpoint)
    BY RobEntryType
  <2> HIDE DEF e
  <2>3. /\ nextSeq' \in Nat \ {0} /\ nextSeq \in Seqs'
        /\ Seqs \subseteq Seqs'
    BY <2>1 DEF TypeOK, BackTypeOK, Seqs
  <2>4. IsPartial(rob, Seqs', Entry) /\ IsPartial(exec', Seqs', Active)
    BY <2>3 DEF RenameInstruction, TypeOK, BackTypeOK, IsPartial
  <2>5. IsPartial(rob', Seqs', Entry)
    BY <2>1, <2>2, <2>3, <2>4, PutPartial
  <2>6. \A t \in DOMAIN rob' : rob'[t].hasCheckpoint => rob'[t].checkpoint \in Checkpoint
    BY <2>1, <2>2, PutFacts DEF TypeOK, BackTypeOK, InFlight
  <2>7. iq' \subseteq Seqs'
    BY <2>3 DEF RenameInstruction, TypeOK, BackTypeOK
  <2> QED
    BY <2>3, <2>4, <2>5, <2>6, <2>7 DEF BackTypeOK, InFlight
<1>4. FrontTypeOK'
  <2>1. fetchQueue' \in Seq(Fetched)
    BY DEF RenameInstruction, CanRename, Popped, TypeOK, FrontTypeOK
  <2> QED
    BY <2>1 DEF RenameInstruction, TypeOK, FrontTypeOK
<1>5. LoopTypeOK'
  BY DEF RenameInstruction, RobAllocate, TypeOK, LoopTypeOK, BackTypeOK, Seqs
<1> QED
  BY <1>1, <1>2, <1>3, <1>4, <1>5 DEF TypeOK

LEMMA RenameDoneType == TypeOK /\ RenameDone => TypeOK'
<1> SUFFICES ASSUME TypeOK, RenameDone PROVE TypeOK'
  OBVIOUS
<1>1. MemoryTypeOK' /\ RenameTypeOK' /\ PrfTypeOK' /\ BackTypeOK' /\ FrontTypeOK'
  BY FrameType DEF RenameDone, TypeOK
<1>2. LoopTypeOK'
  BY DEF RenameDone, GoTo, TypeOK, LoopTypeOK, Stages, robVars, exitVars, Seqs
<1> QED
  BY <1>1, <1>2 DEF TypeOK

-----------------------------------------------------------------------------
(* The fetch stage keeps the types *)

(* A prediction is a direction and a target. *)
LEMMA PredictionType ==
  ASSUME TypeOK, NEW p \in PredictionsFor(InstrAt(program, pc))
  PROVE  p.taken \in BOOLEAN /\ p.target \in Word
<1> DEFINE i == InstrAt(program, pc)
<1>1. i \in Decoded /\ pc \in Word
  BY InstrAtType DEF TypeOK, FrontTypeOK
<1>2. WordAdd(pc, 4) \in Word /\ WordAdd(pc, i.imm) \in Word
  <2>1. pc \in Int /\ i.imm \in Int
    BY <1>1, WordAssumption DEF Word, Decoded
  <2> QED
    BY <2>1, WordAddType
<1>3. \A x \in DOMAIN lastTarget : lastTarget[x] \in Word
  BY DEF TypeOK, FrontTypeOK, IsPartial
<1>4. ASSUME p \in Predictions(pc) PROVE p.taken \in BOOLEAN /\ p.target \in Word
  <2>1. CASE p = [taken |-> FALSE, target |-> WordAdd(pc, 4)]
    BY <2>1, <1>2
  <2>2. CASE p = [taken |-> TRUE, target |-> WordAdd(pc, 4)]
    BY <2>2, <1>2
  <2>3. CASE \E x \in DOMAIN lastTarget : p = [taken |-> TRUE, target |-> lastTarget[x]]
    BY <2>3, <1>3
  <2> QED
    BY <1>4, <2>1, <2>2, <2>3 DEF Predictions
<1>5. CASE i.op \in Branches \cup {"Jalr"}
  BY <1>4, <1>5 DEF PredictionsFor
<1>6. CASE p = [taken |-> TRUE, target |-> WordAdd(pc, i.imm)]
  BY <1>2, <1>6
<1>7. CASE p = [taken |-> FALSE, target |-> WordAdd(pc, 4)]
  BY <1>2, <1>7
<1> QED
  BY <1>5, <1>6, <1>7 DEF PredictionsFor

LEMMA FetchType == TypeOK /\ Fetch => TypeOK'
<1> SUFFICES ASSUME TypeOK, Fetch PROVE TypeOK'
  OBVIOUS
<1> PICK latency \in FetchLatencies, p \in PredictionsFor(InstrAt(program, pc)) :
      /\ FetchInstruction(latency, p)
      /\ IF EndsFetchGroup(latency) THEN NextCycle
                                    ELSE stage' = stage /\ done' = done + 1
  BY DEF Fetch, FetchWith
<1>1. MemoryTypeOK' /\ RenameTypeOK' /\ PrfTypeOK' /\ BackTypeOK'
  BY FrameType DEF Fetch, FetchWith, TypeOK
<1>2. FrontTypeOK'
  <2>1. p.taken \in BOOLEAN /\ p.target \in Word
    BY PredictionType
  <2>2. InstrAt(program, pc) \in Decoded /\ pc \in Word
    BY InstrAtType DEF TypeOK, FrontTypeOK
  <2>3. WithPrediction(InstrAt(program, pc), p) \in Fetched
    BY <2>1, <2>2 DEF WithPrediction, Decoded, Fetched
  <2>4. fetchQueue' \in Seq(Fetched)
    BY <2>3 DEF FetchInstruction, TypeOK, FrontTypeOK
  <2>5. waitCycles' \in Nat
    BY FetchAssumption DEF FetchInstruction, TypeOK, FrontTypeOK
  <2> QED
    BY <2>1, <2>4, <2>5 DEF Fetch, FetchWith, FetchInstruction, TypeOK, FrontTypeOK
<1>3. LoopTypeOK'
  BY DEF Fetch, FetchWith, NextCycle, GoTo, TypeOK, LoopTypeOK, Stages, robVars, exitVars, Seqs
<1> QED
  BY <1>1, <1>2, <1>3 DEF TypeOK

LEMMA FetchWaitType == TypeOK /\ FetchWait => TypeOK'
<1> SUFFICES ASSUME TypeOK, FetchWait PROVE TypeOK'
  OBVIOUS
<1>1. MemoryTypeOK' /\ RenameTypeOK' /\ PrfTypeOK' /\ BackTypeOK'
  BY FrameType DEF FetchWait, TypeOK
<1>2. FrontTypeOK'
  BY DEF FetchWait, TypeOK, FrontTypeOK
<1>3. LoopTypeOK'
  BY DEF FetchWait, NextCycle, GoTo, TypeOK, LoopTypeOK, Stages, robVars, exitVars, Seqs
<1> QED
  BY <1>1, <1>2, <1>3 DEF TypeOK

LEMMA FetchDoneType == TypeOK /\ FetchDone => TypeOK'
<1> SUFFICES ASSUME TypeOK, FetchDone PROVE TypeOK'
  OBVIOUS
<1>1. MemoryTypeOK' /\ RenameTypeOK' /\ PrfTypeOK' /\ BackTypeOK' /\ FrontTypeOK'
  BY FrameType DEF FetchDone, TypeOK
<1>2. LoopTypeOK'
  BY DEF FetchDone, NextCycle, GoTo, TypeOK, LoopTypeOK, Stages, robVars, exitVars, Seqs
<1> QED
  BY <1>1, <1>2 DEF TypeOK

-----------------------------------------------------------------------------
(* So does a stuttering step. *)
LEMMA StutterType == TypeOK /\ UNCHANGED vars => TypeOK'
<1> SUFFICES ASSUME TypeOK, UNCHANGED vars PROVE TypeOK'
  OBVIOUS
<1>1. /\ UNCHANGED memory /\ UNCHANGED renameVars /\ UNCHANGED prfVars
      /\ UNCHANGED robVars /\ UNCHANGED iq /\ UNCHANGED exec
      /\ UNCHANGED lastTarget /\ UNCHANGED program /\ UNCHANGED frontVars
      /\ UNCHANGED loopVars /\ UNCHANGED exitVars
  BY DEF vars
<1>2. UNCHANGED nextSeq
  BY <1>1 DEF robVars
<1> QED
  BY <1>1, <1>2, FrameType DEF TypeOK

(* Every step keeps the types. *)
LEMMA NextType == TypeOK /\ [Next]_vars => TypeOK'
<1> SUFFICES ASSUME TypeOK, [Next]_vars PROVE TypeOK'
  OBVIOUS
<1>1. CASE UNCHANGED vars
  BY <1>1, StutterType
<1>2. CASE CommitInstruction \/ CommitEcall \/ CommitFault \/ Tick
  BY <1>2, CommitInstructionType, CommitEcallType, CommitFaultType, TickType
<1>3. CASE CompleteSkip \/ CompleteInstruction \/ CompleteRecovering \/ Select
  BY <1>3, CompleteSkipType, CompleteInstructionType, CompleteRecoveringType, SelectType
<1>4. CASE IssueSkip \/ IssueMisaligned \/ IssueInstruction \/ IssueDone
  BY <1>4, IssueSkipType, IssueMisalignedType, IssueInstructionType, IssueDoneType
<1>5. CASE RenameInstruction \/ RenameDone
  BY <1>5, RenameInstructionType, RenameDoneType
<1>6. CASE FetchWait \/ Fetch \/ FetchDone
  BY <1>6, FetchWaitType, FetchType, FetchDoneType
<1>7. CASE Ended
  BY <1>7, StutterType DEF Ended
<1> QED
  BY <1>1, <1>2, <1>3, <1>4, <1>5, <1>6, <1>7 DEF Next

(* TypeOK holds in every reachable state: no register number, address,     *)
(* queue entry or sequence number the pipeline handles ever leaves the     *)
(* range of the structure it indexes.                                      *)
THEOREM TypeCorrect == Pipeline => []TypeOK
<1>1. Init => TypeOK
  BY InitType
<1>2. TypeOK /\ [Next]_vars => TypeOK'
  BY NextType
<1> QED
  BY <1>1, <1>2, PTL DEF Pipeline

-----------------------------------------------------------------------------
(* Registers are never shared: RegistersDisjoint is inductive with TypeOK  *)

(* Disjointness under the operations of the rename unit *)

(* Fewer releases stay disjoint. *)
LEMMA DisjointFewer ==
  ASSUME NEW m, NEW f, NEW r, NEW r2, Disjoint(m, f, r),
         \A x \in DOMAIN r2 : x \in DOMAIN r /\ r2[x] = r[x]
  PROVE  Disjoint(m, f, r2)
BY DEF Disjoint, IsInjective, Range

(* Moving a release to the end of the free list. *)
LEMMA DisjointRelease ==
  ASSUME NEW m, NEW f \in Seq(Phys), NEW r, NEW r2, NEW s \in DOMAIN r, r[s] \in Phys,
         Disjoint(m, f, r),
         \A x \in DOMAIN r2 : x \in DOMAIN r /\ r2[x] = r[x] /\ x # s
  PROVE  Disjoint(m, Append(f, r[s]), r2)
<1> DEFINE g == Append(f, r[s])
<1>1. /\ Len(g) = Len(f) + 1 /\ g[Len(f) + 1] = r[s]
      /\ \A k \in 1 .. Len(f) : g[k] = f[k]
      /\ DOMAIN g = 1 .. Len(f) + 1 /\ DOMAIN f = 1 .. Len(f) /\ Len(f) \in Nat
  OBVIOUS
<1> HIDE DEF g
<1>2. \A k \in DOMAIN g : (k \in DOMAIN f /\ g[k] = f[k]) \/ (k = Len(f) + 1 /\ g[k] = r[s])
  BY <1>1
<1>3. \A k \in DOMAIN f : f[k] # r[s]
  BY DEF Disjoint, Range
<1>4. IsInjective(g)
  BY <1>2, <1>3 DEF Disjoint, IsInjective
<1>5. Range(m) \cap Range(g) = {}
  BY <1>2 DEF Disjoint, Range
<1>6. \A x \in DOMAIN r2 : r2[x] # r[s]
  BY DEF Disjoint, IsInjective
<1>7. Range(g) \cap Range(r2) = {}
  BY <1>2, <1>6 DEF Disjoint, Range
<1>8. Disjoint(m, f, r2)
  BY DisjointFewer
<1>9. Disjoint(m, g, r2)
  BY <1>4, <1>5, <1>7, <1>8 DEF Disjoint
<1> QED
  BY <1>9 DEF g

(* Taking the first free register for x, whose mapping is to be released.  *)
LEMMA DisjointAllocate ==
  ASSUME NEW m \in [Arch -> Phys], NEW f \in Seq(Phys), f # << >>, NEW x \in Arch,
         NEW r, NEW r2, NEW n, n \notin DOMAIN r,
         Disjoint(m, f, r),
         \A t \in DOMAIN r2 : (t \in DOMAIN r /\ r2[t] = r[t]) \/ (t = n /\ r2[t] = m[x])
  PROVE  Disjoint([m EXCEPT ![x] = Head(f)], Tail(f), r2)
<1> DEFINE m2 == [m EXCEPT ![x] = Head(f)]
           g  == Tail(f)
<1>1. /\ DOMAIN g = 1 .. Len(f) - 1 /\ DOMAIN f = 1 .. Len(f) /\ Len(f) \in Nat \ {0}
      /\ \A k \in 1 .. Len(f) - 1 : g[k] = f[k + 1]
      /\ Head(f) = f[1]
  OBVIOUS
<1>2. /\ DOMAIN m2 = Arch /\ DOMAIN m = Arch /\ m2[x] = Head(f)
      /\ \A y \in Arch : y # x => m2[y] = m[y]
  OBVIOUS
<1> HIDE DEF m2, g
<1>3. \A k \in DOMAIN g : k + 1 \in DOMAIN f /\ k + 1 # 1 /\ g[k] = f[k + 1]
  BY <1>1
<1>4. \A j, k \in DOMAIN g : j + 1 = k + 1 => j = k
  BY <1>1
<1>5. IsInjective(g)
  BY <1>3, <1>4 DEF Disjoint, IsInjective
<1>6. Head(f) \notin Range(m) /\ Head(f) \notin Range(r) /\ Head(f) \in Range(f)
  <2>1. Head(f) \in Range(f)
    BY <1>1 DEF Range
  <2> QED
    BY <2>1 DEF Disjoint
<1>7. Range(g) \subseteq Range(f) /\ Head(f) \notin Range(g)
  BY <1>1, <1>3 DEF Disjoint, IsInjective, Range
<1>8. \A y \in Arch : (y # x /\ m2[y] = m[y]) \/ (y = x /\ m2[y] = Head(f))
  BY <1>2
<1>9. IsInjective(m2)
  BY <1>2, <1>6, <1>8 DEF Disjoint, IsInjective, Range
<1>10. m[x] \notin Range(m2)
  BY <1>2, <1>6, <1>8 DEF Disjoint, IsInjective, Range
<1>11. Range(m2) \subseteq Range(m) \cup {Head(f)}
  BY <1>2, <1>8 DEF Range
<1>12. m[x] \in Range(m) /\ m[x] \notin Range(r)
  BY <1>2 DEF Disjoint, Range
<1>13. Range(r2) \subseteq Range(r) \cup {m[x]}
  BY DEF Range
<1>14. IsInjective(r2)
  BY <1>12 DEF Disjoint, IsInjective, Range
<1>15. /\ Range(m2) \cap Range(g) = {}
       /\ Range(m2) \cap Range(r2) = {}
       /\ Range(g) \cap Range(r2) = {}
  BY <1>6, <1>7, <1>10, <1>11, <1>12, <1>13 DEF Disjoint
<1>16. Disjoint(m2, g, r2)
  BY <1>5, <1>9, <1>14, <1>15 DEF Disjoint
<1> QED
  BY <1>16 DEF m2, g

(* The releases of a buffer whose entries are among those of another. *)
LEMMA ReleasesFewer ==
  ASSUME NEW q, NEW q2, NEW S, NEW S2,
         \A t \in S2 : /\ t \in S
                       /\ q2[t].hasDest = q[t].hasDest
                       /\ q2[t].oldDestPhys = q[t].oldDestPhys
  PROVE  \A x \in DOMAIN Releases(q2, S2) :
           /\ x \in S2 /\ x \in DOMAIN Releases(q, S)
           /\ Releases(q2, S2)[x] = Releases(q, S)[x]
BY DEF Releases

-----------------------------------------------------------------------------
(* Steps that add nothing to the reorder buffer *)

(* What the registers of an instruction depend on stays as it is. *)
KeepsRegisters ==
  \A t \in InFlight' :
    /\ t \in InFlight
    /\ rob'[t].hasDest = rob[t].hasDest
    /\ rob'[t].oldDestPhys = rob[t].oldDestPhys
    /\ rob'[t].hasCheckpoint = rob[t].hasCheckpoint
    /\ rob'[t].checkpoint = rob[t].checkpoint

CheckpointsDisjoint ==
  \A s \in InFlight : rob[s].hasCheckpoint =>
    Disjoint(rob[s].checkpoint.map, rob[s].checkpoint.freeList,
             Releases(rob, UpTo(InFlight, s)))

LEMMA RegistersDisjointSplit ==
  RegistersDisjoint <=>
    Disjoint(map, freeList, Releases(rob, InFlight)) /\ CheckpointsDisjoint
BY DEF RegistersDisjoint, CheckpointsDisjoint

LEMMA CheckpointsKept == CheckpointsDisjoint /\ KeepsRegisters => CheckpointsDisjoint'
<1> SUFFICES ASSUME CheckpointsDisjoint, KeepsRegisters,
                    NEW s \in InFlight', rob'[s].hasCheckpoint
             PROVE  Disjoint(rob'[s].checkpoint.map, rob'[s].checkpoint.freeList,
                             Releases(rob', UpTo(InFlight', s)))
  BY DEF CheckpointsDisjoint, UpTo, Releases
<1>1. /\ rob'[s].checkpoint = rob[s].checkpoint
      /\ Disjoint(rob[s].checkpoint.map, rob[s].checkpoint.freeList,
                  Releases(rob, UpTo(InFlight, s)))
  BY DEF KeepsRegisters, CheckpointsDisjoint
<1>2. \A t \in UpTo(InFlight', s) : /\ t \in UpTo(InFlight, s)
                                    /\ rob'[t].hasDest = rob[t].hasDest
                                    /\ rob'[t].oldDestPhys = rob[t].oldDestPhys
  BY DEF KeepsRegisters, UpTo
<1>3. \A x \in DOMAIN Releases(rob', UpTo(InFlight', s)) :
        /\ x \in DOMAIN Releases(rob, UpTo(InFlight, s))
        /\ Releases(rob', UpTo(InFlight', s))[x] = Releases(rob, UpTo(InFlight, s))[x]
  BY <1>2, ReleasesFewer
<1> QED
  BY <1>1, <1>3, DisjointFewer

(* With the rename unit unchanged, that is all there is to show. *)
LEMMA RegistersKept ==
  RegistersDisjoint /\ KeepsRegisters /\ UNCHANGED renameVars => RegistersDisjoint'
<1> SUFFICES ASSUME RegistersDisjoint, KeepsRegisters, UNCHANGED renameVars
             PROVE  RegistersDisjoint'
  OBVIOUS
<1>1. Disjoint(map, freeList, Releases(rob, InFlight)) /\ CheckpointsDisjoint
  BY RegistersDisjointSplit
<1>2. map' = map /\ freeList' = freeList
  BY DEF renameVars
<1>3. \A x \in DOMAIN Releases(rob', InFlight') :
        /\ x \in DOMAIN Releases(rob, InFlight)
        /\ Releases(rob', InFlight')[x] = Releases(rob, InFlight)[x]
  BY ReleasesFewer DEF KeepsRegisters
<1>4. Disjoint(map', freeList', Releases(rob', InFlight'))
  BY <1>1, <1>2, <1>3, DisjointFewer
<1>5. CheckpointsDisjoint'
  BY <1>1, CheckpointsKept
<1> QED
  BY <1>4, <1>5 DEF RegistersDisjoint, CheckpointsDisjoint

(* Replacing an entry by one with the same registers. *)
LEMMA PutKeepsRegisters ==
  ASSUME NEW s \in InFlight, NEW e,
         e.hasDest = rob[s].hasDest, e.oldDestPhys = rob[s].oldDestPhys,
         e.hasCheckpoint = rob[s].hasCheckpoint, e.checkpoint = rob[s].checkpoint,
         NEW D, rob' = Only(Put(rob, s, e), D) \/ rob' = Put(rob, s, e)
  PROVE  KeepsRegisters
<1> DEFINE r == Put(rob, s, e)
<1>1. /\ \A t : t \in DOMAIN r <=> t \in InFlight
      /\ r[s] = e /\ \A t \in InFlight : t # s => r[t] = rob[t]
  BY PutFacts DEF InFlight
<1>2. rob' = Only(r, D) \/ rob' = r
  OBVIOUS
<1> HIDE DEF r
<1>3. \A t \in InFlight' : t \in DOMAIN r /\ rob'[t] = r[t]
  BY <1>2, OnlyFacts DEF InFlight
<1> QED
  BY <1>1, <1>3 DEF KeepsRegisters

LEMMA CompletionKeepsRegisters ==
  ASSUME TypeOK, NEW s \in InFlight
  PROVE  /\ Executed(rob[s]).hasDest = rob[s].hasDest
         /\ Executed(rob[s]).oldDestPhys = rob[s].oldDestPhys
         /\ Issued(rob[s]).hasDest = rob[s].hasDest
         /\ Issued(rob[s]).oldDestPhys = rob[s].oldDestPhys
         /\ Faulted(rob[s]).hasDest = rob[s].hasDest
         /\ Faulted(rob[s]).oldDestPhys = rob[s].oldDestPhys
<1>1. rob[s] \in Entry
  BY EntryType
<1> QED
  BY <1>1 DEF Executed, Issued, Faulted, Entry

(* Most actions leave the buffer alone, or replace one entry of it. *)
LEMMA OtherStepsDisjoint ==
  ASSUME TypeOK, RegistersDisjoint,
         \/ CommitFault \/ Tick \/ CompleteSkip \/ Select \/ IssueSkip \/ IssueDone
         \/ RenameDone \/ FetchWait \/ Fetch \/ FetchDone
         \/ UNCHANGED vars
  PROVE  RegistersDisjoint'
<1>1. UNCHANGED renameVars /\ UNCHANGED rob
  BY DEF CommitFault, Tick, CompleteSkip, Select, IssueSkip, IssueDone, RenameDone,
         FetchWait, Fetch, FetchWith, FetchDone, vars, robVars
<1>2. KeepsRegisters
  BY <1>1 DEF KeepsRegisters, InFlight
<1> QED
  BY <1>1, <1>2, RegistersKept

LEMMA EntryStepsDisjoint ==
  ASSUME TypeOK, RegistersDisjoint,
         CompleteInstruction \/ IssueMisaligned \/ IssueInstruction
  PROVE  RegistersDisjoint'
<1>1. UNCHANGED renameVars
  BY DEF CompleteInstruction, IssueMisaligned, IssueInstruction, IssueWith
<1>2. PICK s \in InFlight :
        \/ rob' = Put(rob, s, Executed(rob[s]))
        \/ rob' = Put(rob, s, Faulted(rob[s]))
        \/ rob' = Put(rob, s, Issued(rob[s]))
  BY DEF CompleteInstruction, Completes, IssueMisaligned, IssueInstruction, IssueWith, Issues
<1>3. KeepsRegisters
  BY <1>2, ExecutedType, IssuedType, CompletionKeepsRegisters, PutKeepsRegisters
<1> QED
  BY <1>1, <1>3, RegistersKept

LEMMA CommitEcallDisjoint ==
  ASSUME RegistersDisjoint, CommitEcall
  PROVE  RegistersDisjoint'
<1>1. UNCHANGED renameVars
  BY DEF CommitEcall
<1>2. PICK s \in InFlight : rob' = Only(rob, InFlight \ {s})
  BY DEF CommitEcall, popHead
<1>3. KeepsRegisters
  BY <1>2, OnlyFacts DEF KeepsRegisters, InFlight
<1> QED
  BY <1>1, <1>3, RegistersKept

(* A commit moves a release to the free list, or drops one of the first    *)
(* NArch registers.                                                        *)
LEMMA CommitInstructionDisjoint ==
  ASSUME TypeOK, RegistersDisjoint, CommitInstruction
  PROVE  RegistersDisjoint'
<1>1. PICK s \in InFlight :
        /\ IF rob[s].hasDest THEN freePhysical(Released(rob[s])) ELSE UNCHANGED renameVars
        /\ rob' = Only(rob, InFlight \ {s})
  BY DEF CommitInstruction, popHead
<1>2. /\ \A t \in InFlight' : t \in InFlight /\ t # s /\ rob'[t] = rob[t]
  BY <1>1, OnlyFacts DEF InFlight
<1>3. KeepsRegisters
  BY <1>2 DEF KeepsRegisters
<1> DEFINE r  == Releases(rob, InFlight)
           r2 == Releases(rob', InFlight')
<1>4. \A x \in DOMAIN r2 : x \in InFlight' /\ x \in DOMAIN r /\ r2[x] = r[x]
  BY <1>2, ReleasesFewer
<1>5. Disjoint(map, freeList, r) /\ CheckpointsDisjoint
  BY RegistersDisjointSplit
<1>6. Disjoint(map', freeList', r2)
  <2>1. CASE rob[s].hasDest /\ rob[s].oldDestPhys >= NArch
    <3>1. map' = map /\ freeList' = Append(freeList, rob[s].oldDestPhys)
      BY <1>1, <2>1 DEF freePhysical, Released
    <3>2. rob[s].oldDestPhys \in Phys
      <4>1. rob[s].oldDestPhys \in Phys \cup {-1}
        BY EntryType DEF Entry
      <4> QED
        BY <2>1, <4>1, WordAssumption DEF Phys
    <3>3. s \in DOMAIN r /\ r[s] = rob[s].oldDestPhys
      BY <2>1 DEF Releases
    <3>4. freeList \in Seq(Phys)
      BY DEF TypeOK, RenameTypeOK
    <3> HIDE DEF r, r2
    <3>5. \A x \in DOMAIN r2 : x \in DOMAIN r /\ r2[x] = r[x] /\ x # s
      BY <1>2, <1>4
    <3>6. Disjoint(map, Append(freeList, r[s]), r2)
      BY <1>5, <3>2, <3>3, <3>4, <3>5, DisjointRelease
    <3> QED
      BY <3>1, <3>3, <3>6
  <2>2. CASE ~(rob[s].hasDest /\ rob[s].oldDestPhys >= NArch)
    <3>1. map' = map /\ freeList' = freeList
      BY <1>1, <2>2 DEF freePhysical, Released, renameVars
    <3> HIDE DEF r, r2
    <3> QED
      BY <1>4, <1>5, <3>1, DisjointFewer
  <2> QED
    BY <2>1, <2>2
<1>7. CheckpointsDisjoint'
  BY <1>3, <1>5, CheckpointsKept
<1> QED
  BY <1>6, <1>7 DEF RegistersDisjoint, CheckpointsDisjoint

(* A recovery restores a checkpoint that was kept for this. *)
LEMMA CompleteRecoveringDisjoint ==
  ASSUME TypeOK, RegistersDisjoint, CompleteRecovering
  PROVE  RegistersDisjoint'
<1>1. PICK s \in InFlight :
        /\ recovers(rob[s]) /\ restore(rob[s].checkpoint)
        /\ rob' = Only(Put(rob, s, Executed(rob[s])), UpTo(InFlight, s))
  BY DEF CompleteRecovering, Completes
<1>2. KeepsRegisters
  BY <1>1, ExecutedType, CompletionKeepsRegisters, PutKeepsRegisters
<1>3. CheckpointsDisjoint
  BY RegistersDisjointSplit
<1>4. /\ map' = rob[s].checkpoint.map /\ freeList' = rob[s].checkpoint.freeList
      /\ Disjoint(rob[s].checkpoint.map, rob[s].checkpoint.freeList,
                  Releases(rob, UpTo(InFlight, s)))
  BY <1>1, <1>3 DEF CheckpointsDisjoint, recovers, restore
<1>5. \A t \in InFlight' : t \in UpTo(InFlight, s)
  BY <1>1, OnlyFacts DEF InFlight
<1>6. \A x \in DOMAIN Releases(rob', InFlight') :
        /\ x \in DOMAIN Releases(rob, UpTo(InFlight, s))
        /\ Releases(rob', InFlight')[x] = Releases(rob, UpTo(InFlight, s))[x]
  BY <1>2, <1>5, ReleasesFewer DEF KeepsRegisters
<1>7. Disjoint(map', freeList', Releases(rob', InFlight'))
  BY <1>4, <1>6, DisjointFewer
<1>8. CheckpointsDisjoint'
  BY <1>2, <1>3, CheckpointsKept
<1> QED
  BY <1>7, <1>8 DEF RegistersDisjoint, CheckpointsDisjoint

(* Renaming allocates, promises the old mapping, and takes a checkpoint.   *)
LEMMA RenameInstructionDisjoint ==
  ASSUME TypeOK, RegistersDisjoint, RenameInstruction
  PROVE  RegistersDisjoint'
<1> DEFINE i  == Head(fetchQueue)
           e  == RobEntry(i)
           n  == nextSeq
           r  == Releases(rob, InFlight)
           r2 == Releases(rob', InFlight')
<1>1. /\ rob' = Put(rob, n, e)
      /\ IF hasDest(i) THEN allocate(i.rd) /\ markNotReady(NextFree)
                       ELSE UNCHANGED <<renameVars, prfVars>>
  BY DEF RenameInstruction, RobAllocate
<1>2. i \in Fetched
  BY AllocateType
<1>3. /\ e.hasDest = hasDest(i)
      /\ e.oldDestPhys = IF hasDest(i) THEN physForArch(i.rd) ELSE -1
      /\ e.hasCheckpoint => e.checkpoint = checkpoint
  BY DEF RobEntry
<1> HIDE DEF e
<1>4. n \notin InFlight /\ n \in Nat /\ \A t \in InFlight : t \in Nat /\ t < n
  BY DEF TypeOK, BackTypeOK, IsPartial, InFlight, Seqs
<1>5. /\ \A t : t \in InFlight' <=> t \in InFlight \/ t = n
      /\ rob'[n] = e /\ \A t \in InFlight : rob'[t] = rob[t]
  BY <1>1, <1>4, PutFacts DEF InFlight
<1>6. Disjoint(map, freeList, r) /\ CheckpointsDisjoint
  BY RegistersDisjointSplit
<1>7. n \notin DOMAIN r
  BY <1>4 DEF Releases
<1>8. \A t \in DOMAIN r2 :
        \/ t \in DOMAIN r /\ r2[t] = r[t]
        \/ t = n /\ e.hasDest /\ r2[t] = e.oldDestPhys
  BY <1>5 DEF Releases
<1> HIDE DEF n, r, r2
<1>9. Disjoint(map', freeList', r2)
  <2>1. CASE hasDest(i)
    <3>1. /\ freeList # << >> /\ map' = [map EXCEPT ![i.rd] = Head(freeList)]
          /\ freeList' = Tail(freeList)
      BY <1>1, <2>1 DEF allocate, canAllocate, NextFree
    <3>2. i.rd \in Arch /\ physForArch(i.rd) = map[i.rd]
      BY <1>2, <2>1 DEF Fetched, hasDest, physForArch
    <3>3. map \in [Arch -> Phys] /\ freeList \in Seq(Phys)
      BY DEF TypeOK, RenameTypeOK
    <3>4. \A t \in DOMAIN r2 :
            \/ t \in DOMAIN r /\ r2[t] = r[t]
            \/ t = n /\ r2[t] = map[i.rd]
      BY <1>3, <1>8, <2>1, <3>2
    <3>5. Disjoint([map EXCEPT ![i.rd] = Head(freeList)], Tail(freeList), r2)
      BY <1>6, <1>7, <3>1, <3>2, <3>3, <3>4, DisjointAllocate
    <3> QED
      BY <3>1, <3>5
  <2>2. CASE ~hasDest(i)
    <3>1. map' = map /\ freeList' = freeList
      BY <1>1, <2>2 DEF renameVars
    <3>2. \A t \in DOMAIN r2 : t \in DOMAIN r /\ r2[t] = r[t]
      BY <1>3, <1>8, <2>2
    <3> QED
      BY <1>6, <3>1, <3>2, DisjointFewer
  <2> QED
    BY <2>1, <2>2
<1>10. ASSUME NEW s \in InFlight', rob'[s].hasCheckpoint
       PROVE  Disjoint(rob'[s].checkpoint.map, rob'[s].checkpoint.freeList,
                       Releases(rob', UpTo(InFlight', s)))
  <2>1. CASE s = n
    <3>1. rob'[s].checkpoint.map = map' /\ rob'[s].checkpoint.freeList = freeList'
      BY <1>3, <1>5, <1>10, <2>1 DEF checkpoint
    <3>2. \A t \in UpTo(InFlight', s) : t \in InFlight'
      BY DEF UpTo
    <3>3. \A x \in DOMAIN Releases(rob', UpTo(InFlight', s)) :
            x \in DOMAIN r2 /\ Releases(rob', UpTo(InFlight', s))[x] = r2[x]
      BY <3>2, ReleasesFewer DEF r2
    <3> QED
      BY <1>9, <3>1, <3>3, DisjointFewer
  <2>2. CASE s # n
    <3>1. s \in InFlight /\ rob'[s] = rob[s]
      BY <1>5, <2>2
    <3>2. Disjoint(rob[s].checkpoint.map, rob[s].checkpoint.freeList,
                   Releases(rob, UpTo(InFlight, s)))
      BY <1>6, <1>10, <3>1 DEF CheckpointsDisjoint
    <3>3. \A t \in UpTo(InFlight', s) : t \in UpTo(InFlight, s) /\ rob'[t] = rob[t]
      BY <1>4, <1>5, <3>1 DEF UpTo
    <3>4. \A x \in DOMAIN Releases(rob', UpTo(InFlight', s)) :
            /\ x \in DOMAIN Releases(rob, UpTo(InFlight, s))
            /\ Releases(rob', UpTo(InFlight', s))[x] = Releases(rob, UpTo(InFlight, s))[x]
      BY <3>3, ReleasesFewer
    <3> QED
      BY <3>1, <3>2, <3>4, DisjointFewer
  <2> QED
    BY <2>1, <2>2
<1> QED
  BY <1>9, <1>10 DEF RegistersDisjoint, r2

-----------------------------------------------------------------------------
(* Initially every register is mapped or free. *)
LEMMA InitDisjoint == Init => RegistersDisjoint
<1> SUFFICES ASSUME Init PROVE RegistersDisjoint
  OBVIOUS
<1>1. InFlight = {}
  BY NoEntriesPartial DEF Init, RobInit, InFlight
<1>2. map = [a \in Arch |-> a] /\ freeList = [k \in 1 .. NPhys - NArch |-> NArch + k - 1]
  BY DEF Init, RenameInit
<1>3. NArch \in Nat /\ NPhys \in Nat
  BY WordAssumption, NPhysAssumption
<1>4. IsInjective(map)
  BY <1>2 DEF IsInjective
<1>5. IsInjective(freeList)
  BY <1>2, <1>3 DEF IsInjective
<1>6. \A x \in Range(map) : x \in 0 .. NArch - 1
  BY <1>2 DEF Range, Arch
<1>7. \A x \in Range(freeList) : x \in Int /\ x >= NArch
  BY <1>2, <1>3 DEF Range
<1>8. Range(map) \cap Range(freeList) = {}
  BY <1>3, <1>6, <1>7
<1>9. \A x : x \notin DOMAIN Releases(rob, InFlight)
  BY <1>1 DEF Releases
<1>10. Disjoint(map, freeList, Releases(rob, InFlight))
  BY <1>4, <1>5, <1>8, <1>9 DEF Disjoint, IsInjective, Range
<1> QED
  BY <1>1, <1>10 DEF RegistersDisjoint

(* Every step keeps the registers disjoint. *)
LEMMA NextDisjoint == TypeOK /\ RegistersDisjoint /\ [Next]_vars => RegistersDisjoint'
<1> SUFFICES ASSUME TypeOK, RegistersDisjoint, [Next]_vars PROVE RegistersDisjoint'
  OBVIOUS
<1>1. CASE CommitInstruction
  BY <1>1, CommitInstructionDisjoint
<1>2. CASE CommitEcall
  BY <1>2, CommitEcallDisjoint
<1>3. CASE CompleteRecovering
  BY <1>3, CompleteRecoveringDisjoint
<1>4. CASE RenameInstruction
  BY <1>4, RenameInstructionDisjoint
<1>5. CASE CompleteInstruction \/ IssueMisaligned \/ IssueInstruction
  BY <1>5, EntryStepsDisjoint
<1>6. CASE \/ CommitFault \/ Tick \/ CompleteSkip \/ Select \/ IssueSkip \/ IssueDone
           \/ RenameDone \/ FetchWait \/ Fetch \/ FetchDone
           \/ UNCHANGED vars
  BY <1>6, OtherStepsDisjoint
<1>7. CASE Ended
  BY <1>7, OtherStepsDisjoint DEF Ended
<1> QED
  BY <1>1, <1>2, <1>3, <1>4, <1>5, <1>6, <1>7 DEF Next

(* No physical register is ever handed out while the map, the free list,   *)
(* an instruction in flight or a checkpoint that may be restored still     *)
(* accounts for it.                                                        *)
THEOREM RegistersNeverShared == Pipeline => []RegistersDisjoint
<1>1. Init => RegistersDisjoint
  BY InitDisjoint
<1>2. TypeOK /\ RegistersDisjoint /\ [Next]_vars => RegistersDisjoint'
  BY NextDisjoint
<1> QED
  BY <1>1, <1>2, TypeCorrect, PTL DEF Pipeline

-----------------------------------------------------------------------------
(* No write-after-read: SourcesKept, strengthened for the checkpoints      *)

(* Register 0 is never remapped: it is always the zero of the ISA. *)
ZeroFixed ==
  /\ map[0] = 0
  /\ \A s \in InFlight : rob[s].hasCheckpoint => rob[s].checkpoint.map[0] = 0

(* The free list of a checkpoint has no source of an instruction that      *)
(* survives its restoration.                                               *)
CheckpointSourcesKept ==
  \A s \in InFlight : rob[s].hasCheckpoint =>
    \A t \in UpTo(InFlight, s) :
      Sources(t) \cap Range(rob[s].checkpoint.freeList) = {}

SourceInv == ZeroFixed /\ SourcesKept /\ CheckpointSourcesKept

-----------------------------------------------------------------------------
(* The free list under append and tail. *)
LEMMA RangeOfAppend ==
  ASSUME NEW f \in Seq(Phys), NEW p \in Phys, NEW x \in Range(Append(f, p))
  PROVE  x \in Range(f) \/ x = p
BY DEF Range

LEMMA RangeOfTail ==
  ASSUME NEW f \in Seq(Phys), f # << >>, NEW x \in Range(Tail(f))
  PROVE  x \in Range(f)
<1>1. /\ DOMAIN f = 1 .. Len(f) /\ DOMAIN Tail(f) = 1 .. Len(f) - 1 /\ Len(f) \in Nat
      /\ \A k \in 1 .. Len(f) - 1 : Tail(f)[k] = f[k + 1]
  OBVIOUS
<1>2. PICK k \in 1 .. Len(f) - 1 : x = f[k + 1]
  BY <1>1 DEF Range
<1>3. k + 1 \in DOMAIN f
  BY <1>1
<1> QED
  BY <1>2, <1>3 DEF Range

LEMMA RangeOfHead ==
  ASSUME NEW f \in Seq(Phys), f # << >>
  PROVE  Head(f) \in Range(f)
<1>1. Head(f) = f[1] /\ 1 \in DOMAIN f
  OBVIOUS
<1> QED
  BY <1>1 DEF Range

-----------------------------------------------------------------------------
(* Steps that add nothing to the reorder buffer *)

KeepsOperands ==
  /\ KeepsRegisters
  /\ \A t \in InFlight' : /\ rob'[t].src1Phys = rob[t].src1Phys
                          /\ rob'[t].src2Phys = rob[t].src2Phys
                          /\ rob'[t].destPhys = rob[t].destPhys

(* What is left to show then is that the new free list is harmless. *)
LEMMA SourcesStayKept ==
  ASSUME SourceInv, KeepsOperands, map'[0] = 0,
         \A s \in InFlight' : Sources(s) \cap Range(freeList') = {}
  PROVE  SourceInv'
<1>1. \A s \in InFlight' : /\ s \in InFlight
                           /\ Sources(s)' = Sources(s)
                           /\ rob'[s].hasDest = rob[s].hasDest
                           /\ rob'[s].destPhys = rob[s].destPhys
                           /\ rob'[s].oldDestPhys = rob[s].oldDestPhys
                           /\ rob'[s].hasCheckpoint = rob[s].hasCheckpoint
                           /\ rob'[s].checkpoint = rob[s].checkpoint
  BY DEF KeepsOperands, KeepsRegisters, Sources
<1>2. ZeroFixed'
  BY <1>1 DEF SourceInv, ZeroFixed
<1>3. SourcesKept'
  <2> SUFFICES ASSUME NEW s \in InFlight'
               PROVE  /\ Sources(s)' \cap Range(freeList') = {}
                      /\ \A t \in InFlight' : s < t => rob'[t].destPhys \notin Sources(s)'
                      /\ \A t \in InFlight' : (rob'[t].hasDest /\ t <= s /\ t # s)
                           => rob'[t].oldDestPhys \notin Sources(s)'
    BY DEF SourcesKept, Writers, UpTo
  <2>1. Sources(s)' \cap Range(freeList') = {}
    BY <1>1
  <2>2. \A t \in InFlight' : s < t => rob'[t].destPhys \notin Sources(s)'
    BY <1>1 DEF SourceInv, SourcesKept
  <2>3. ASSUME NEW t \in InFlight', rob'[t].hasDest, t <= s, t # s
        PROVE  rob'[t].oldDestPhys \notin Sources(s)'
    <3>1. t \in UpTo(Writers(InFlight), s)
      BY <1>1, <2>3 DEF UpTo, Writers
    <3> QED
      BY <1>1, <2>3, <3>1 DEF SourceInv, SourcesKept
  <2> QED
    BY <2>1, <2>2, <2>3
<1>4. CheckpointSourcesKept'
  <2> SUFFICES ASSUME NEW s \in InFlight', rob'[s].hasCheckpoint,
                      NEW t \in InFlight', t <= s
               PROVE  Sources(t)' \cap Range(rob'[s].checkpoint.freeList) = {}
    BY DEF CheckpointSourcesKept, UpTo
  <2>1. t \in UpTo(InFlight, s)
    BY <1>1 DEF UpTo
  <2> QED
    BY <1>1, <2>1 DEF SourceInv, CheckpointSourcesKept
<1> QED
  BY <1>2, <1>3, <1>4 DEF SourceInv

(* Replacing an entry by one with the same operands. *)
LEMMA PutKeepsOperands ==
  ASSUME TypeOK, NEW s \in InFlight,
         NEW e \in {Executed(rob[s]), Issued(rob[s]), Faulted(rob[s])},
         NEW D, rob' = Only(Put(rob, s, e), D) \/ rob' = Put(rob, s, e)
  PROVE  KeepsOperands
<1> DEFINE r == Put(rob, s, e)
<1>1. rob[s] \in Entry
  BY EntryType
<1>2. /\ e.src1Phys = rob[s].src1Phys /\ e.src2Phys = rob[s].src2Phys
      /\ e.destPhys = rob[s].destPhys
  BY <1>1 DEF Executed, Issued, Faulted, Entry
<1>3. KeepsRegisters
  BY ExecutedType, IssuedType, CompletionKeepsRegisters, PutKeepsRegisters
<1>4. /\ \A t : t \in DOMAIN r <=> t \in InFlight
      /\ r[s] = e /\ \A t \in InFlight : t # s => r[t] = rob[t]
  BY PutFacts DEF InFlight
<1>5. rob' = Only(r, D) \/ rob' = r
  OBVIOUS
<1> HIDE DEF r
<1>6. \A t \in InFlight' : t \in DOMAIN r /\ rob'[t] = r[t]
  BY <1>5, OnlyFacts DEF InFlight
<1> QED
  BY <1>2, <1>3, <1>4, <1>6 DEF KeepsOperands

(* With the rename unit unchanged, nothing is left to show. *)
LEMMA SourcesUnchanged ==
  ASSUME SourceInv, KeepsOperands, UNCHANGED renameVars
  PROVE  SourceInv'
<1>1. map' = map /\ freeList' = freeList
  BY DEF renameVars
<1>2. \A s \in InFlight' : Sources(s) \cap Range(freeList') = {}
  BY <1>1 DEF SourceInv, SourcesKept, KeepsOperands, KeepsRegisters
<1>3. map'[0] = 0
  BY <1>1 DEF SourceInv, ZeroFixed
<1> QED
  BY <1>2, <1>3, SourcesStayKept

LEMMA OtherStepsSources ==
  ASSUME TypeOK, SourceInv,
         \/ CommitFault \/ Tick \/ CompleteSkip \/ Select \/ IssueSkip \/ IssueDone
         \/ RenameDone \/ FetchWait \/ Fetch \/ FetchDone
         \/ UNCHANGED vars
  PROVE  SourceInv'
<1>1. UNCHANGED renameVars /\ UNCHANGED rob
  BY DEF CommitFault, Tick, CompleteSkip, Select, IssueSkip, IssueDone, RenameDone,
         FetchWait, Fetch, FetchWith, FetchDone, vars, robVars
<1>2. KeepsOperands
  BY <1>1 DEF KeepsOperands, KeepsRegisters, InFlight
<1> QED
  BY <1>1, <1>2, SourcesUnchanged

LEMMA EntryStepsSources ==
  ASSUME TypeOK, SourceInv,
         CompleteInstruction \/ IssueMisaligned \/ IssueInstruction
  PROVE  SourceInv'
<1>1. UNCHANGED renameVars
  BY DEF CompleteInstruction, IssueMisaligned, IssueInstruction, IssueWith
<1>2. PICK s \in InFlight :
        \/ rob' = Put(rob, s, Executed(rob[s]))
        \/ rob' = Put(rob, s, Faulted(rob[s]))
        \/ rob' = Put(rob, s, Issued(rob[s]))
  BY DEF CompleteInstruction, Completes, IssueMisaligned, IssueInstruction, IssueWith, Issues
<1>3. KeepsOperands
  BY <1>2, PutKeepsOperands
<1> QED
  BY <1>1, <1>3, SourcesUnchanged

LEMMA CommitEcallSources ==
  ASSUME SourceInv, CommitEcall
  PROVE  SourceInv'
<1>1. UNCHANGED renameVars
  BY DEF CommitEcall
<1>2. PICK s \in InFlight : rob' = Only(rob, InFlight \ {s})
  BY DEF CommitEcall, popHead
<1>3. KeepsOperands
  BY <1>2, OnlyFacts DEF KeepsOperands, KeepsRegisters, InFlight
<1> QED
  BY <1>1, <1>3, SourcesUnchanged

(* The register a commit frees is no source of anything younger. *)
LEMMA CommitInstructionSources ==
  ASSUME TypeOK, SourceInv, CommitInstruction
  PROVE  SourceInv'
<1>1. PICK s \in InFlight :
        /\ IsHead(s)
        /\ IF rob[s].hasDest THEN freePhysical(Released(rob[s])) ELSE UNCHANGED renameVars
        /\ rob' = Only(rob, InFlight \ {s})
  BY DEF CommitInstruction, Commits, popHead
<1>2. \A t \in InFlight' : t \in InFlight /\ t # s /\ rob'[t] = rob[t]
  BY <1>1, OnlyFacts DEF InFlight
<1>3. KeepsOperands
  BY <1>2 DEF KeepsOperands, KeepsRegisters
<1>4. map' = map
  BY <1>1 DEF freePhysical, renameVars
<1>5. \A t \in InFlight' : Sources(t) \cap Range(freeList') = {}
  <2> TAKE t \in InFlight'
  <2>1. t \in InFlight /\ t # s /\ Sources(t) \cap Range(freeList) = {}
    BY <1>2 DEF SourceInv, SourcesKept
  <2>2. CASE rob[s].hasDest /\ rob[s].oldDestPhys >= NArch
    <3>1. freeList' = Append(freeList, rob[s].oldDestPhys)
      BY <1>1, <2>2 DEF freePhysical, Released
    <3>2. rob[s].oldDestPhys \in Phys
      <4>1. rob[s].oldDestPhys \in Phys \cup {-1}
        BY EntryType DEF Entry
      <4> QED
        BY <2>2, <4>1, WordAssumption DEF Phys
    <3>3. s \in UpTo(Writers(InFlight), t)
      BY <1>1, <2>1, <2>2 DEF IsHead, UpTo, Writers
    <3>4. rob[s].oldDestPhys \notin Sources(t)
      BY <2>1, <3>3 DEF SourceInv, SourcesKept
    <3>5. freeList \in Seq(Phys)
      BY DEF TypeOK, RenameTypeOK
    <3> QED
      BY <2>1, <3>1, <3>2, <3>4, <3>5, RangeOfAppend
  <2>3. CASE ~(rob[s].hasDest /\ rob[s].oldDestPhys >= NArch)
    <3>1. freeList' = freeList
      BY <1>1, <2>3 DEF freePhysical, Released, renameVars
    <3> QED
      BY <2>1, <3>1
  <2> QED
    BY <2>2, <2>3
<1>6. map'[0] = 0
  BY <1>4 DEF SourceInv, ZeroFixed
<1> QED
  BY <1>3, <1>5, <1>6, SourcesStayKept

LEMMA CompleteRecoveringSources ==
  ASSUME TypeOK, SourceInv, CompleteRecovering
  PROVE  SourceInv'
<1>1. PICK s \in InFlight :
        /\ recovers(rob[s]) /\ restore(rob[s].checkpoint)
        /\ rob' = Only(Put(rob, s, Executed(rob[s])), UpTo(InFlight, s))
  BY DEF CompleteRecovering, Completes
<1>2. KeepsOperands
  BY <1>1, PutKeepsOperands
<1>3. /\ rob[s].hasCheckpoint
      /\ map' = rob[s].checkpoint.map /\ freeList' = rob[s].checkpoint.freeList
  BY <1>1 DEF recovers, restore
<1>4. \A t \in InFlight' : t \in UpTo(InFlight, s)
  BY <1>1, OnlyFacts DEF InFlight
<1>5. \A t \in InFlight' : Sources(t) \cap Range(freeList') = {}
  BY <1>3, <1>4 DEF SourceInv, CheckpointSourcesKept
<1>6. map'[0] = 0
  BY <1>3 DEF SourceInv, ZeroFixed
<1> QED
  BY <1>2, <1>5, <1>6, SourcesStayKept

-----------------------------------------------------------------------------
(* Renaming: an instruction reads what the map names, which is neither     *)
(* free nor about to be released, and is handed a register nobody reads.   *)

(* A source is named by the map. *)
LEMMA SourcesMapped ==
  ASSUME TypeOK, ZeroFixed, NEW a \in Arch
  PROVE  physForArch(a) \in Range(map)
<1>1. map \in [Arch -> Phys] /\ 0 \in Arch
  BY Zeroes DEF TypeOK, RenameTypeOK
<1> QED
  BY <1>1 DEF physForArch, ZeroFixed, Range

(* What an allocation leaves is some of what was free, and register 0 is   *)
(* not remapped.                                                           *)
LEMMA AllocationShrinks ==
  ASSUME TypeOK, RenameInstruction, ZeroFixed
  PROVE  /\ \A p : p \in Range(freeList') => p \in Range(freeList)
         /\ hasDest(Head(fetchQueue)) => NextFree \in Range(freeList)
         /\ map'[0] = 0
<1> DEFINE i == Head(fetchQueue)
<1>1. freeList \in Seq(Phys) /\ map \in [Arch -> Phys] /\ 0 \in Arch
  BY Zeroes DEF TypeOK, RenameTypeOK
<1>2. CASE hasDest(i)
  <2>1. allocate(i.rd) /\ i.rd # 0
    BY <1>2 DEF RenameInstruction, hasDest
  <2>2. /\ freeList # << >> /\ freeList' = Tail(freeList)
        /\ map' = [map EXCEPT ![i.rd] = NextFree]
    BY <2>1 DEF allocate, canAllocate
  <2>3. \A p : p \in Range(freeList') => p \in Range(freeList)
    BY <1>1, <2>2, RangeOfTail
  <2>4. NextFree \in Range(freeList)
    BY <1>1, <2>2, RangeOfHead DEF NextFree
  <2>5. map'[0] = 0
    BY <1>1, <2>1, <2>2 DEF ZeroFixed
  <2> QED
    BY <2>3, <2>4, <2>5
<1>3. CASE ~hasDest(i)
  <2>1. UNCHANGED renameVars
    BY <1>3 DEF RenameInstruction
  <2> QED
    BY <1>3, <2>1 DEF renameVars, ZeroFixed
<1> QED
  BY <1>2, <1>3

LEMMA RenameInstructionSources ==
  ASSUME TypeOK, RegistersDisjoint, SourceInv, RenameInstruction
  PROVE  SourceInv'
<1> DEFINE i == Head(fetchQueue)
           e == RobEntry(i)
           n == nextSeq
<1>1. rob' = Put(rob, n, e)
  BY DEF RenameInstruction, RobAllocate
<1>2. i.rs1 \in Arch /\ i.rs2 \in Arch
  BY AllocateType DEF Fetched
<1>3. /\ e.src1Phys \in Range(map) /\ e.src2Phys \in Range(map)
      /\ e.destPhys \in Range(freeList) \/ e.destPhys = -1
      /\ e.hasCheckpoint =>
           e.checkpoint.map = map' /\ e.checkpoint.freeList = freeList'
  BY <1>2, SourcesMapped, AllocationShrinks DEF RobEntry, checkpoint, SourceInv
<1> HIDE DEF e
<1>4. n \notin InFlight /\ n \in Nat /\ \A t \in InFlight : t \in Nat /\ t < n
  BY DEF TypeOK, BackTypeOK, IsPartial, InFlight, Seqs
<1>5. /\ \A t : t \in InFlight' <=> t \in InFlight \/ t = n
      /\ rob'[n] = e /\ \A t \in InFlight : rob'[t] = rob[t]
  BY <1>1, <1>4, PutFacts DEF InFlight
<1> HIDE DEF n, i
<1>6. \A p : p \in Range(freeList') => p \in Range(freeList)
  BY AllocationShrinks DEF SourceInv
<1>7. \A p \in Range(map) :
        /\ p \notin Range(freeList)
        /\ \A t \in Writers(InFlight) : p # rob[t].oldDestPhys
  BY DEF RegistersDisjoint, Disjoint, Releases, Range, Writers
<1>8. \A s \in InFlight : Sources(s)' = Sources(s) /\ -1 \notin Sources(s)
  <2> TAKE s \in InFlight
  <2>1. rob[s].src1Phys \in Phys /\ rob[s].src2Phys \in Phys
    BY EntryType DEF Entry
  <2>2. -1 \notin Phys
    BY NPhysAssumption DEF Phys
  <2> QED
    BY <1>5, <2>1, <2>2 DEF Sources
<1>9. \A s \in InFlight' : s = n => \A p \in Sources(s)' : p \in Range(map)
  BY <1>3, <1>5 DEF Sources
<1>10. \A s \in InFlight' : Sources(s)' \cap Range(freeList') = {}
  BY <1>5, <1>6, <1>7, <1>8, <1>9 DEF SourceInv, SourcesKept
<1>11. SourcesKept'
  <2> SUFFICES ASSUME NEW s \in InFlight'
               PROVE  /\ \A t \in InFlight' : s < t => rob'[t].destPhys \notin Sources(s)'
                      /\ \A t \in InFlight' : (rob'[t].hasDest /\ t <= s /\ t # s)
                           => rob'[t].oldDestPhys \notin Sources(s)'
    BY <1>10 DEF SourcesKept, Writers, UpTo
  <2>1. ASSUME NEW t \in InFlight', s < t
        PROVE  rob'[t].destPhys \notin Sources(s)'
    <3>1. s \in InFlight
      BY <1>4, <1>5, <2>1
    <3>2. CASE t = n
      BY <1>3, <1>5, <1>8, <3>1, <3>2 DEF SourceInv, SourcesKept
    <3>3. CASE t # n
      BY <1>5, <1>8, <2>1, <3>1, <3>3 DEF SourceInv, SourcesKept
    <3> QED
      BY <3>2, <3>3
  <2>2. ASSUME NEW t \in InFlight', rob'[t].hasDest, t <= s, t # s
        PROVE  rob'[t].oldDestPhys \notin Sources(s)'
    <3>1. t \in InFlight /\ rob'[t] = rob[t] /\ t \in Writers(InFlight)
      BY <1>4, <1>5, <2>2 DEF Writers
    <3>2. CASE s = n
      BY <1>7, <1>9, <3>1, <3>2
    <3>3. CASE s # n
      <4>1. s \in InFlight /\ t \in UpTo(Writers(InFlight), s)
        BY <1>5, <2>2, <3>1, <3>3 DEF UpTo
      <4> QED
        BY <1>8, <2>2, <3>1, <4>1 DEF SourceInv, SourcesKept
    <3> QED
      BY <3>2, <3>3
  <2> QED
    BY <2>1, <2>2
<1>12. CheckpointSourcesKept'
  <2> SUFFICES ASSUME NEW s \in InFlight', rob'[s].hasCheckpoint,
                      NEW t \in InFlight', t <= s
               PROVE  Sources(t)' \cap Range(rob'[s].checkpoint.freeList) = {}
    BY DEF CheckpointSourcesKept, UpTo
  <2>1. CASE s = n
    BY <1>3, <1>5, <1>10, <2>1
  <2>2. CASE s # n
    <3>1. s \in InFlight /\ rob'[s] = rob[s] /\ t \in UpTo(InFlight, s)
      BY <1>4, <1>5, <2>2 DEF UpTo
    <3>2. t \in InFlight
      BY <3>1 DEF UpTo
    <3> QED
      BY <1>8, <3>1, <3>2 DEF SourceInv, CheckpointSourcesKept
  <2> QED
    BY <2>1, <2>2
<1>13. ZeroFixed'
  <2>1. map'[0] = 0
    BY AllocationShrinks DEF SourceInv
  <2> QED
    BY <1>3, <1>5, <2>1 DEF ZeroFixed, SourceInv
<1> QED
  BY <1>11, <1>12, <1>13 DEF SourceInv

-----------------------------------------------------------------------------
(* Initially nothing is in flight. *)
LEMMA InitSources == Init => SourceInv
<1> SUFFICES ASSUME Init PROVE SourceInv
  OBVIOUS
<1>1. InFlight = {}
  BY NoEntriesPartial DEF Init, RobInit, InFlight
<1>2. map[0] = 0
  BY Zeroes DEF Init, RenameInit
<1> QED
  BY <1>1, <1>2 DEF SourceInv, ZeroFixed, SourcesKept, CheckpointSourcesKept

(* Every step keeps the sources of the instructions in flight. *)
LEMMA NextSources ==
  TypeOK /\ RegistersDisjoint /\ SourceInv /\ [Next]_vars => SourceInv'
<1> SUFFICES ASSUME TypeOK, RegistersDisjoint, SourceInv, [Next]_vars
             PROVE  SourceInv'
  OBVIOUS
<1>1. CASE CommitInstruction
  BY <1>1, CommitInstructionSources
<1>2. CASE CommitEcall
  BY <1>2, CommitEcallSources
<1>3. CASE CompleteRecovering
  BY <1>3, CompleteRecoveringSources
<1>4. CASE RenameInstruction
  BY <1>4, RenameInstructionSources
<1>5. CASE CompleteInstruction \/ IssueMisaligned \/ IssueInstruction
  BY <1>5, EntryStepsSources
<1>6. CASE \/ CommitFault \/ Tick \/ CompleteSkip \/ Select \/ IssueSkip \/ IssueDone
           \/ RenameDone \/ FetchWait \/ Fetch \/ FetchDone
           \/ UNCHANGED vars
  BY <1>6, OtherStepsSources
<1>7. CASE Ended
  BY <1>7, OtherStepsSources DEF Ended
<1> QED
  BY <1>1, <1>2, <1>3, <1>4, <1>5, <1>6, <1>7 DEF Next

LEMMA SourceInvariant == Pipeline => []SourceInv
<1>1. Init => SourceInv
  BY InitSources
<1>2. TypeOK /\ RegistersDisjoint /\ SourceInv /\ [Next]_vars => SourceInv'
  BY NextSources
<1> QED
  BY <1>1, <1>2, TypeCorrect, RegistersNeverShared, PTL DEF Pipeline

(* An operand that an instruction in flight has still to read is neither   *)
(* written by a younger instruction nor free to be allocated to one.       *)
THEOREM NoWriteAfterRead == Pipeline => []SourcesKept
<1>1. SourceInv => SourcesKept
  BY DEF SourceInv
<1> QED
  BY <1>1, SourceInvariant, PTL

-----------------------------------------------------------------------------
(* Where instructions are                                                  *)

(* What the loops of the complete and issue stages have still to visit: in *)
(* the one, instructions the units have given up; in the other, waiting    *)
(* ones that were behind no unresolved store when they were selected.      *)
WorkInPlace ==
  /\ stage = "complete" => work \cap DOMAIN exec = {}
  /\ stage = "issue" => work \subseteq iq

(* Instruction s is not a load with an older store unresolved. *)
BehindStores(s) ==
  rob[s].inst.op \in Loads =>
    \A t \in InFlight : t < s /\ rob[t].inst.op \in Stores => rob[t].ready

WorkBehindStores == stage = "issue" => \A s \in work : BehindStores(s)

PlaceInv == InOnePlace /\ WorkInPlace
LoadInv  == LoadsBehindStores /\ WorkBehindStores

-----------------------------------------------------------------------------
(* The reorder buffer after an entry was replaced, added or dropped. *)

LEMMA Replaced ==
  ASSUME NEW s \in InFlight, NEW e, rob' = Put(rob, s, e)
  PROVE  /\ InFlight' = InFlight /\ rob'[s] = e
         /\ \A t \in InFlight : t # s => rob'[t] = rob[t]
<1>1. \A t : t \in InFlight' <=> t \in InFlight
  BY PutFacts DEF InFlight
<1> QED
  BY <1>1, PutFacts DEF InFlight

LEMMA Added ==
  ASSUME NEW n, n \notin InFlight, NEW e, rob' = Put(rob, n, e)
  PROVE  /\ InFlight' = InFlight \cup {n} /\ rob'[n] = e
         /\ \A t \in InFlight : rob'[t] = rob[t]
<1>1. \A t : t \in InFlight' <=> t \in InFlight \cup {n}
  BY PutFacts DEF InFlight
<1> QED
  BY <1>1, PutFacts DEF InFlight

LEMMA Dropped ==
  ASSUME NEW D, rob' = Only(rob, D)
  PROVE  InFlight' = InFlight \cap D /\ \A t \in InFlight' : rob'[t] = rob[t]
<1>1. \A t : t \in InFlight' <=> t \in InFlight \cap D
  BY OnlyFacts DEF InFlight
<1> QED
  BY <1>1, OnlyFacts DEF InFlight

LEMMA ReplacedAndDropped ==
  ASSUME NEW s \in InFlight, NEW e, NEW D, s \in D, rob' = Only(Put(rob, s, e), D)
  PROVE  /\ InFlight' = InFlight \cap D /\ rob'[s] = e
         /\ \A t \in InFlight' : t # s => rob'[t] = rob[t]
<1> DEFINE q == Put(rob, s, e)
<1>1. /\ \A t : t \in DOMAIN q <=> t \in InFlight
      /\ q[s] = e /\ \A t \in InFlight : t # s => q[t] = rob[t]
  BY PutFacts DEF InFlight
<1>2. rob' = Only(q, D)
  OBVIOUS
<1> HIDE DEF q
<1>3. \A t : t \in InFlight' <=> t \in InFlight \cap D
  BY <1>1, <1>2, OnlyFacts DEF InFlight
<1> QED
  BY <1>1, <1>2, <1>3, OnlyFacts DEF InFlight

(* Sequence numbers in flight are below the next one to be handed out. *)
LEMMA SeqsBelow ==
  ASSUME TypeOK
  PROVE  /\ nextSeq \in Nat /\ \A t \in InFlight : t \in Nat /\ t < nextSeq
         /\ \A t \in iq \cup DOMAIN exec \cup work : t \in Nat /\ t < nextSeq
         /\ nextSeq \notin InFlight
BY DEF TypeOK, BackTypeOK, LoopTypeOK, IsPartial, InFlight, Seqs

(* The fields of an entry after it was executed, issued or found to fault. *)
LEMMA EntryAfter ==
  ASSUME TypeOK, NEW s \in InFlight
  PROVE  LET e == rob[s] IN
         /\ \A f \in {Executed(e), Issued(e), Faulted(e)} :
              /\ f.inst = e.inst /\ f.hasDest = e.hasDest
              /\ f.src1Phys = e.src1Phys /\ f.src2Phys = e.src2Phys
              /\ f.destPhys = e.destPhys /\ f.oldDestPhys = e.oldDestPhys
              /\ f.hasCheckpoint = e.hasCheckpoint /\ f.checkpoint = e.checkpoint
         /\ Executed(e).ready /\ Executed(e).issued = e.issued
         /\ Executed(e).exception = (e.exception \/ e.inst.op = "Illegal")
         /\ Faulted(e).ready /\ Faulted(e).exception /\ Faulted(e).issued = e.issued
         /\ Issued(e).issued /\ Issued(e).ready = e.ready
         /\ Issued(e).exception = e.exception
<1>1. rob[s] \in Entry
  BY EntryType
<1> QED
  BY <1>1 DEF Executed, Issued, Faulted, Entry

-----------------------------------------------------------------------------
(* One place for each instruction *)

(* A step that moves nothing. *)
LEMMA NothingMoves ==
  ASSUME PlaceInv, UNCHANGED <<rob, iq, exec>>, WorkInPlace',
         \A s \in InFlight : s \in Executing' <=> s \in Executing
  PROVE  PlaceInv'
BY DEF PlaceInv, InOnePlace, InFlight

LEMMA QuietStepsPlace ==
  ASSUME TypeOK, PlaceInv,
         \/ CommitFault \/ CompleteSkip \/ Select \/ IssueSkip \/ IssueDone
         \/ RenameDone \/ FetchWait \/ Fetch \/ FetchDone \/ UNCHANGED vars
  PROVE  PlaceInv'
<1>1. UNCHANGED <<rob, iq, exec>>
  BY DEF CommitFault, CompleteSkip, Select, IssueSkip, IssueDone, RenameDone,
         FetchWait, Fetch, FetchWith, FetchDone, vars, robVars
<1>2. CASE \/ CommitFault \/ IssueDone \/ RenameDone \/ FetchWait \/ Fetch \/ FetchDone
  <2>1. stage # "complete" /\ stage' \notin {"complete", "issue"}
    BY <1>2 DEF CommitFault, IssueDone, RenameDone, FetchWait, Fetch, FetchWith,
                FetchDone, NextCycle, GoTo
  <2>2. WorkInPlace' /\ Executing' = Executing
    BY <1>1, <2>1 DEF WorkInPlace, Executing
  <2> QED
    BY <1>1, <2>2, NothingMoves
<1>3. CASE CompleteSkip
  <2>1. PICK s \in work : ~Completes(s) /\ IsNext(s) /\ work' = work \ {s}
    BY <1>3 DEF CompleteSkip
  <2>2. stage = "complete" /\ stage' = "complete"
    BY <1>3 DEF CompleteSkip
  <2>3. s \notin InFlight
    BY <2>1, <2>2 DEF Completes, PlaceInv, InOnePlace, Executing
  <2>4. WorkInPlace' /\ \A t \in InFlight : t \in Executing' <=> t \in Executing
    BY <1>1, <2>1, <2>2, <2>3 DEF PlaceInv, WorkInPlace, Executing
  <2> QED
    BY <1>1, <2>4, NothingMoves
<1>4. CASE Select
  <2>1. stage = "complete" /\ stage' = "issue" /\ work = {} /\ work' \subseteq iq
    BY <1>4 DEF Select, GoTo, selectReady
  <2>2. WorkInPlace' /\ Executing' = Executing
    BY <1>1, <2>1 DEF WorkInPlace, Executing
  <2> QED
    BY <1>1, <2>2, NothingMoves
<1>5. CASE IssueSkip
  <2>1. stage = "issue" /\ stage' = "issue" /\ work' \subseteq work
    BY <1>5 DEF IssueSkip
  <2>2. WorkInPlace' /\ Executing' = Executing
    BY <1>1, <2>1 DEF PlaceInv, WorkInPlace, Executing
  <2> QED
    BY <1>1, <2>2, NothingMoves
<1>6. CASE UNCHANGED vars
  <2>1. UNCHANGED <<stage, work>>
    BY <1>6 DEF vars, loopVars
  <2>2. WorkInPlace' /\ Executing' = Executing
    BY <1>1, <2>1 DEF PlaceInv, WorkInPlace, Executing
  <2> QED
    BY <1>1, <2>2, NothingMoves
<1> QED
  BY <1>2, <1>3, <1>4, <1>5, <1>6

(* The instruction that commits was finished, and so nowhere else. *)
LEMMA CommitPlace ==
  ASSUME TypeOK, PlaceInv, CommitInstruction \/ CommitEcall
  PROVE  PlaceInv'
<1>1. PICK s \in InFlight : rob[s].ready /\ rob' = Only(rob, InFlight \ {s})
  BY DEF CommitInstruction, CommitEcall, Commits, popHead
<1>2. UNCHANGED <<iq, exec, work>> /\ stage = "commit" /\ stage' = "commit"
  BY DEF CommitInstruction, CommitEcall
<1>3. InFlight' = InFlight \ {s} /\ \A t \in InFlight' : rob'[t] = rob[t]
  BY <1>1, Dropped
<1>4. Executing = DOMAIN exec /\ Executing' = DOMAIN exec
  BY <1>2 DEF Executing
<1>5. s \notin iq /\ s \notin DOMAIN exec
  BY <1>1, <1>4 DEF PlaceInv, InOnePlace
<1> QED
  BY <1>2, <1>3, <1>4, <1>5 DEF PlaceInv, InOnePlace, WorkInPlace

(* What the units give up is still executing until it is visited. *)
LEMMA TickPlace ==
  ASSUME PlaceInv, Tick
  PROVE  PlaceInv'
<1>1. UNCHANGED <<rob, iq>> /\ stage = "commit" /\ stage' = "complete" /\ work' = Finishing
  BY DEF Tick, GoTo, robVars
<1>2. DOMAIN exec' = DOMAIN exec \ Finishing /\ Finishing \subseteq DOMAIN exec
  BY DEF Tick, tick, Finishing
<1>3. Executing' = Executing /\ WorkInPlace'
  BY <1>1, <1>2 DEF Executing, WorkInPlace
<1>4. InFlight' = InFlight
  BY <1>1 DEF InFlight
<1> QED
  BY <1>1, <1>2, <1>3, <1>4 DEF PlaceInv, InOnePlace

LEMMA CompleteInstructionPlace ==
  ASSUME TypeOK, PlaceInv, CompleteInstruction
  PROVE  PlaceInv'
<1>1. PICK s \in work : /\ s \in InFlight /\ ~rob[s].ready
                        /\ rob' = Put(rob, s, Executed(rob[s])) /\ work' = work \ {s}
  BY DEF CompleteInstruction, Completes
<1>2. UNCHANGED <<iq, exec>> /\ stage = "complete" /\ stage' = "complete"
  BY DEF CompleteInstruction
<1>3. /\ InFlight' = InFlight /\ rob'[s] = Executed(rob[s])
      /\ \A t \in InFlight : t # s => rob'[t] = rob[t]
  BY <1>1, Replaced
<1>4. rob'[s].ready
  BY <1>1, <1>3, EntryAfter
<1>5. s \in Executing /\ s \notin DOMAIN exec /\ s \notin iq
  BY <1>1, <1>2 DEF PlaceInv, InOnePlace, WorkInPlace, Executing
<1>6. Executing' = Executing \ {s}
  BY <1>1, <1>2, <1>5 DEF Executing
<1>7. WorkInPlace'
  BY <1>1, <1>2 DEF PlaceInv, WorkInPlace
<1>8. InOnePlace'
  BY <1>2, <1>3, <1>4, <1>5, <1>6 DEF PlaceInv, InOnePlace
<1> QED
  BY <1>7, <1>8 DEF PlaceInv

LEMMA CompleteRecoveringPlace ==
  ASSUME TypeOK, PlaceInv, CompleteRecovering
  PROVE  PlaceInv'
<1>1. PICK s \in work : /\ s \in InFlight /\ ~rob[s].ready
                        /\ rob' = Only(Put(rob, s, Executed(rob[s])), UpTo(InFlight, s))
                        /\ iq' = UpTo(iq, s) /\ exec' = Only(exec, UpTo(DOMAIN exec, s))
                        /\ work' = work \ {s}
  BY DEF CompleteRecovering, Completes, flushYoungerThan
<1>2. stage = "complete" /\ stage' = "complete"
  BY DEF CompleteRecovering
<1>3. s \in UpTo(InFlight, s) /\ \A t \in UpTo(InFlight, s) : t \in InFlight /\ t <= s
  BY <1>1, SeqsBelow DEF UpTo
<1>4. /\ InFlight' = UpTo(InFlight, s) /\ rob'[s] = Executed(rob[s])
      /\ \A t \in InFlight' : t # s => rob'[t] = rob[t]
  <2>1. /\ InFlight' = InFlight \cap UpTo(InFlight, s) /\ rob'[s] = Executed(rob[s])
        /\ \A t \in InFlight' : t # s => rob'[t] = rob[t]
    BY <1>1, <1>3, ReplacedAndDropped
  <2> QED
    BY <2>1, <1>3
<1>5. rob'[s].ready
  BY <1>1, <1>4, EntryAfter
<1>6. s \in Executing /\ s \notin DOMAIN exec /\ s \notin iq
  BY <1>1, <1>2 DEF PlaceInv, InOnePlace, WorkInPlace, Executing
<1>7. DOMAIN exec' = UpTo(DOMAIN exec, s)
  BY <1>1 DEF Only, UpTo
<1>8. \A t \in InFlight' : t \in Executing' <=> t \in Executing /\ t # s
  BY <1>1, <1>2, <1>3, <1>4, <1>6, <1>7 DEF Executing, UpTo
<1>9. \A t \in InFlight' : t \in iq' <=> t \in iq
  BY <1>1, <1>3, <1>4 DEF UpTo
<1>10. WorkInPlace'
  BY <1>1, <1>2, <1>7 DEF PlaceInv, WorkInPlace, UpTo
<1>11. iq' \subseteq InFlight' /\ DOMAIN exec' \subseteq InFlight'
  BY <1>1, <1>4, <1>7 DEF PlaceInv, InOnePlace, UpTo
<1>12. \A t \in InFlight' : /\ t \in iq' <=> ~rob'[t].issued /\ ~rob'[t].ready
                            /\ t \in Executing' <=> rob'[t].issued /\ ~rob'[t].ready
  BY <1>3, <1>4, <1>5, <1>6, <1>8, <1>9 DEF PlaceInv, InOnePlace
<1> QED
  BY <1>10, <1>11, <1>12 DEF PlaceInv, InOnePlace

(* An instruction whose address is misaligned leaves the queue, finished.  *)
LEMMA IssueMisalignedPlace ==
  ASSUME TypeOK, PlaceInv, IssueMisaligned
  PROVE  PlaceInv'
<1>1. PICK s \in work : /\ s \in InFlight /\ rob' = Put(rob, s, Faulted(rob[s]))
                        /\ iq' = iq \ {s} /\ work' = work \ {s}
  BY DEF IssueMisaligned, Issues
<1>2. UNCHANGED exec /\ stage = "issue" /\ stage' = "issue"
  BY DEF IssueMisaligned
<1>3. /\ InFlight' = InFlight /\ rob'[s] = Faulted(rob[s])
      /\ \A t \in InFlight : t # s => rob'[t] = rob[t]
  BY <1>1, Replaced
<1>4. rob'[s].ready
  BY <1>1, <1>3, EntryAfter
<1>5. s \in iq /\ Executing = DOMAIN exec /\ Executing' = DOMAIN exec
  BY <1>1, <1>2 DEF PlaceInv, WorkInPlace, Executing
<1>6. s \notin Executing
  BY <1>1, <1>5 DEF PlaceInv, InOnePlace
<1>7. WorkInPlace'
  BY <1>1, <1>2 DEF PlaceInv, WorkInPlace
<1>8. InOnePlace'
  BY <1>1, <1>2, <1>3, <1>4, <1>5, <1>6 DEF PlaceInv, InOnePlace
<1> QED
  BY <1>7, <1>8 DEF PlaceInv

(* An instruction that issues goes from the queue to a unit. *)
LEMMA IssueInstructionPlace ==
  ASSUME TypeOK, PlaceInv, IssueInstruction
  PROVE  PlaceInv'
<1>1. PICK s, cycles :
        /\ s \in work /\ s \in InFlight /\ rob' = Put(rob, s, Issued(rob[s]))
        /\ iq' = iq \ {s} /\ work' = work \ {s}
        /\ exec' = Put(exec, s, cycles)
  BY DEF IssueInstruction, IssueWith, Issues, start
<1>2. stage = "issue" /\ stage' = "issue"
  BY DEF IssueInstruction, IssueWith
<1>3. /\ InFlight' = InFlight /\ rob'[s] = Issued(rob[s])
      /\ \A t \in InFlight : t # s => rob'[t] = rob[t]
  BY <1>1, Replaced
<1>4. rob'[s].issued /\ rob'[s].ready = rob[s].ready
  BY <1>1, <1>3, EntryAfter
<1>5. s \in iq /\ ~rob[s].ready
  BY <1>1, <1>2 DEF PlaceInv, WorkInPlace, InOnePlace
<1>6. DOMAIN exec' = DOMAIN exec \cup {s}
  BY <1>1 DEF Put
<1>7. Executing = DOMAIN exec /\ Executing' = DOMAIN exec'
  BY <1>2 DEF Executing
<1>8. WorkInPlace'
  BY <1>1, <1>2 DEF PlaceInv, WorkInPlace
<1>9. InOnePlace'
  BY <1>1, <1>3, <1>4, <1>5, <1>6, <1>7 DEF PlaceInv, InOnePlace
<1> QED
  BY <1>8, <1>9 DEF PlaceInv

(* A renamed instruction waits in the queue. *)
LEMMA RenameInstructionPlace ==
  ASSUME TypeOK, PlaceInv, RenameInstruction
  PROVE  PlaceInv'
<1> DEFINE e == RobEntry(Head(fetchQueue))
<1>1. /\ rob' = Put(rob, nextSeq, e) /\ iq' = iq \cup {nextSeq}
      /\ UNCHANGED <<exec, work>> /\ stage = "rename" /\ stage' = "rename"
  BY DEF RenameInstruction, RobAllocate
<1>2. ~e.ready /\ ~e.issued
  BY DEF RobEntry
<1> HIDE DEF e
<1>3. nextSeq \notin InFlight
  BY SeqsBelow
<1>4. /\ InFlight' = InFlight \cup {nextSeq} /\ rob'[nextSeq] = e
      /\ \A t \in InFlight : rob'[t] = rob[t]
  BY <1>1, <1>3, Added
<1>5. Executing = DOMAIN exec /\ Executing' = DOMAIN exec /\ WorkInPlace'
  BY <1>1 DEF Executing, WorkInPlace
<1>6. InOnePlace'
  BY <1>1, <1>2, <1>3, <1>4, <1>5 DEF PlaceInv, InOnePlace
<1> QED
  BY <1>5, <1>6 DEF PlaceInv

(* Initially nothing is in flight. *)
LEMMA InitPlace == Init => PlaceInv
<1> SUFFICES ASSUME Init PROVE PlaceInv
  OBVIOUS
<1>1. InFlight = {} /\ iq = {} /\ DOMAIN exec = {} /\ stage = "commit"
  BY NoEntriesPartial DEF Init, RobInit, IqInit, ExecInit, InFlight
<1> QED
  BY <1>1 DEF PlaceInv, InOnePlace, WorkInPlace

LEMMA NextPlace == TypeOK /\ PlaceInv /\ [Next]_vars => PlaceInv'
<1> SUFFICES ASSUME TypeOK, PlaceInv, [Next]_vars PROVE PlaceInv'
  OBVIOUS
<1>1. CASE CommitInstruction \/ CommitEcall
  BY <1>1, CommitPlace
<1>2. CASE Tick
  BY <1>2, TickPlace
<1>3. CASE CompleteInstruction \/ CompleteRecovering
  BY <1>3, CompleteInstructionPlace, CompleteRecoveringPlace
<1>4. CASE IssueMisaligned \/ IssueInstruction
  BY <1>4, IssueMisalignedPlace, IssueInstructionPlace
<1>5. CASE RenameInstruction
  BY <1>5, RenameInstructionPlace
<1>6. CASE \/ CommitFault \/ CompleteSkip \/ Select \/ IssueSkip \/ IssueDone
           \/ RenameDone \/ FetchWait \/ Fetch \/ FetchDone \/ UNCHANGED vars
  BY <1>6, QuietStepsPlace
<1>7. CASE Ended
  BY <1>7, QuietStepsPlace DEF Ended
<1> QED
  BY <1>1, <1>2, <1>3, <1>4, <1>5, <1>6, <1>7 DEF Next

LEMMA PlaceInvariant == Pipeline => []PlaceInv
<1>1. Init => PlaceInv
  BY InitPlace
<1>2. TypeOK /\ PlaceInv /\ [Next]_vars => PlaceInv'
  BY NextPlace
<1> QED
  BY <1>1, <1>2, TypeCorrect, PTL DEF Pipeline

(* Every instruction in flight waits in the queue, executes or is finished,*)
(* and neither the queue nor a unit holds an instruction the reorder       *)
(* buffer has lost.                                                        *)
THEOREM NothingMisplaced == Pipeline => []InOnePlace
<1>1. PlaceInv => InOnePlace
  BY DEF PlaceInv
<1> QED
  BY <1>1, PlaceInvariant, PTL

-----------------------------------------------------------------------------
(* Loads behind stores *)

(* Instructions may leave, and become ready; none is added or unready.     *)
KeepsReady ==
  \A t \in InFlight' : /\ t \in InFlight /\ rob'[t].inst = rob[t].inst
                       /\ rob[t].ready => rob'[t].ready

(* BehindStores of the next state, from that of this one. *)
LEMMA StaysBehind ==
  ASSUME KeepsReady, NEW s \in InFlight', BehindStores(s)
  PROVE  BehindStores(s)'
BY DEF KeepsReady, BehindStores

LEMMA LoadsStayBehind ==
  ASSUME KeepsReady, LoadInv, PlaceInv',
         \A s \in InFlight' : s \in Executing' => s \in Executing \/ BehindStores(s),
         stage' = "issue" => \A s \in work' : BehindStores(s)
  PROVE  LoadInv'
<1>1. \A s \in InFlight : s \in Executing => BehindStores(s)
  BY DEF LoadInv, LoadsBehindStores, BehindStores
<1>2. \A s \in InFlight' : s \in Executing' => BehindStores(s)'
  BY <1>1, StaysBehind DEF KeepsReady
<1>3. LoadsBehindStores'
  BY <1>2 DEF LoadsBehindStores, BehindStores
<1>4. WorkBehindStores'
  <2> SUFFICES ASSUME stage' = "issue", NEW s \in work' PROVE BehindStores(s)'
    BY DEF WorkBehindStores
  <2>1. s \in InFlight'
    BY DEF PlaceInv, InOnePlace, WorkInPlace
  <2> QED
    BY <2>1, StaysBehind
<1> QED
  BY <1>3, <1>4 DEF LoadInv

(* All steps but that of rename keep what is ready. *)
LEMMA StepsKeepReady ==
  ASSUME TypeOK, Next, ~RenameInstruction
  PROVE  KeepsReady
<1>1. CASE UNCHANGED rob
  BY <1>1 DEF KeepsReady, InFlight
<1>2. CASE CommitInstruction \/ CommitEcall
  <2>1. PICK s \in InFlight : rob' = Only(rob, InFlight \ {s})
    BY <1>2 DEF CommitInstruction, CommitEcall, popHead
  <2> QED
    BY <2>1, Dropped DEF KeepsReady
<1>3. CASE CompleteInstruction \/ IssueMisaligned \/ IssueInstruction
  <2>1. PICK s \in InFlight :
          \/ rob' = Put(rob, s, Executed(rob[s]))
          \/ rob' = Put(rob, s, Faulted(rob[s]))
          \/ rob' = Put(rob, s, Issued(rob[s]))
    BY <1>3 DEF CompleteInstruction, Completes, IssueMisaligned, IssueInstruction,
                IssueWith, Issues
  <2> QED
    BY <2>1, Replaced, EntryAfter DEF KeepsReady
<1>4. CASE CompleteRecovering
  <2>1. PICK s \in InFlight : rob' = Only(Put(rob, s, Executed(rob[s])), UpTo(InFlight, s))
    BY <1>4 DEF CompleteRecovering, Completes
  <2>2. s \in UpTo(InFlight, s)
    BY SeqsBelow DEF UpTo
  <2> QED
    BY <2>1, <2>2, ReplacedAndDropped, EntryAfter DEF KeepsReady, UpTo
<1>5. CASE \/ CommitFault \/ Tick \/ CompleteSkip \/ Select \/ IssueSkip \/ IssueDone
           \/ RenameDone \/ FetchWait \/ Fetch \/ FetchDone \/ Ended
  BY <1>1, <1>5 DEF CommitFault, Tick, CompleteSkip, Select, IssueSkip, IssueDone,
       RenameDone, FetchWait, Fetch, FetchWith, FetchDone, Ended, vars, robVars
<1> QED
  BY <1>2, <1>3, <1>4, <1>5 DEF Next

(* What is selected is behind no unresolved store. *)
LEMMA SelectedBehindStores == \A s \in selectReady : BehindStores(s)
BY DEF selectReady, Selectable, hasOlderUnreadyStore, BehindStores

(* What executes was executing, or is issued by this step. *)
LEMMA ExecutesBehindStores ==
  ASSUME TypeOK, PlaceInv, LoadInv, Next, ~RenameInstruction
  PROVE  /\ \A s \in InFlight' : s \in Executing' => s \in Executing \/ BehindStores(s)
         /\ stage' = "issue" => \A s \in work' : BehindStores(s)
<1>1. CASE IssueInstruction
  <2>1. PICK s, cycles : s \in work /\ exec' = Put(exec, s, cycles) /\ work' = work \ {s}
    BY <1>1 DEF IssueInstruction, IssueWith, start
  <2>2. stage = "issue" /\ stage' = "issue" /\ DOMAIN exec' = DOMAIN exec \cup {s}
    BY <1>1, <2>1 DEF IssueInstruction, IssueWith, Put
  <2> QED
    BY <2>1, <2>2 DEF Executing, LoadInv, WorkBehindStores
<1>2. CASE Select
  <2>1. stage' = "issue" /\ work' = selectReady /\ UNCHANGED exec
    BY <1>2 DEF Select, GoTo
  <2> QED
    BY <2>1, SelectedBehindStores DEF Executing
<1>3. CASE Tick
  <2>1. stage' = "complete" /\ work' = Finishing /\ DOMAIN exec' \subseteq DOMAIN exec
    BY <1>3 DEF Tick, GoTo, tick
  <2> QED
    BY <2>1 DEF Executing, Finishing
<1>4. CASE CompleteRecovering
  <2>1. /\ stage = "complete" /\ stage' = "complete" /\ work' \subseteq work
        /\ DOMAIN exec' \subseteq DOMAIN exec
    BY <1>4 DEF CompleteRecovering, flushYoungerThan, Only
  <2> QED
    BY <2>1 DEF Executing
<1>5. CASE CompleteSkip \/ CompleteInstruction
  <2>1. stage = "complete" /\ stage' = "complete" /\ work' \subseteq work /\ UNCHANGED exec
    BY <1>5 DEF CompleteSkip, CompleteInstruction
  <2> QED
    BY <2>1 DEF Executing
<1>6. CASE IssueSkip \/ IssueMisaligned
  <2>1. stage = "issue" /\ stage' = "issue" /\ work' \subseteq work /\ UNCHANGED exec
    BY <1>6 DEF IssueSkip, IssueMisaligned
  <2> QED
    BY <2>1 DEF Executing, LoadInv, WorkBehindStores
<1>7. CASE \/ CommitInstruction \/ CommitEcall \/ CommitFault \/ IssueDone \/ RenameDone
           \/ FetchWait \/ Fetch \/ FetchDone
  <2>1. stage' \notin {"complete", "issue"} /\ UNCHANGED exec
    BY <1>7 DEF CommitInstruction, CommitEcall, CommitFault, IssueDone, RenameDone,
                FetchWait, Fetch, FetchWith, FetchDone, NextCycle, GoTo
  <2> QED
    BY <2>1 DEF Executing
<1>8. CASE Ended
  <2>1. UNCHANGED <<exec, stage, work>> /\ stage \in {"done", "error"}
    BY <1>8 DEF Ended, vars, loopVars
  <2> QED
    BY <2>1 DEF Executing
<1> QED
  BY <1>1, <1>2, <1>3, <1>4, <1>5, <1>6, <1>7, <1>8 DEF Next

LEMMA RenameInstructionLoads ==
  ASSUME TypeOK, PlaceInv, LoadInv, RenameInstruction
  PROVE  LoadInv'
<1> DEFINE e == RobEntry(Head(fetchQueue))
<1>1. /\ rob' = Put(rob, nextSeq, e) /\ UNCHANGED <<exec, work>>
      /\ stage = "rename" /\ stage' = "rename"
  BY DEF RenameInstruction, RobAllocate
<1> HIDE DEF e
<1>2. /\ InFlight' = InFlight \cup {nextSeq}
      /\ \A t \in InFlight : rob'[t] = rob[t] /\ t < nextSeq /\ t \in Nat
      /\ nextSeq \in Nat
  BY <1>1, Added, SeqsBelow
<1>3. Executing' = Executing /\ nextSeq \notin Executing
  BY <1>1, SeqsBelow DEF Executing, PlaceInv, InOnePlace
<1>4. LoadsBehindStores'
  BY <1>2, <1>3 DEF LoadInv, LoadsBehindStores
<1>5. WorkBehindStores'
  BY <1>1 DEF WorkBehindStores
<1> QED
  BY <1>4, <1>5 DEF LoadInv

LEMMA NextLoads == TypeOK /\ PlaceInv /\ LoadInv /\ [Next]_vars => LoadInv'
<1> SUFFICES ASSUME TypeOK, PlaceInv, LoadInv, [Next]_vars PROVE LoadInv'
  OBVIOUS
<1>1. CASE UNCHANGED vars
  <2>1. UNCHANGED <<rob, exec, stage, work>>
    BY <1>1 DEF vars, robVars, loopVars
  <2> QED
    BY <2>1 DEF LoadInv, LoadsBehindStores, WorkBehindStores, BehindStores, Executing, InFlight
<1>2. CASE RenameInstruction
  BY <1>2, RenameInstructionLoads
<1>3. CASE Next /\ ~RenameInstruction
  <2>1. KeepsReady
    BY <1>3, StepsKeepReady
  <2>2. PlaceInv'
    BY NextPlace
  <2> QED
    BY <1>3, <2>1, <2>2, ExecutesBehindStores, LoadsStayBehind
<1> QED
  BY <1>1, <1>2, <1>3

(* A load executes only when every older store in flight has its address   *)
(* and its data: selection looks for unresolved stores, and none can turn  *)
(* up before the load has issued.                                          *)
THEOREM LoadsWaitForStores == Pipeline => []LoadsBehindStores
<1>1. Init => LoadInv
  BY NoEntriesPartial DEF Init, RobInit, InFlight, LoadInv, LoadsBehindStores, WorkBehindStores
<1>2. TypeOK /\ PlaceInv /\ LoadInv /\ [Next]_vars => LoadInv'
  BY NextLoads
<1>3. LoadInv => LoadsBehindStores
  BY DEF LoadInv
<1> QED
  BY <1>1, <1>2, <1>3, TypeCorrect, PlaceInvariant, PTL DEF Pipeline

-----------------------------------------------------------------------------
(* Nothing behind an exit *)

(* Instructions may leave, and the front end stays stopped and empty. *)
LEMMA ExitStays ==
  ASSUME ExitIsYoungest,
         \A t \in InFlight' : t \in InFlight /\ rob'[t].inst = rob[t].inst,
         stoppedFetching => stoppedFetching',
         stoppedFetching /\ fetchQueue = << >> => fetchQueue' = << >>
  PROVE  ExitIsYoungest'
BY DEF ExitIsYoungest

LEMMA FrontStaysStopped ==
  ASSUME Next, ~RenameInstruction
  PROVE  /\ stoppedFetching => stoppedFetching'
         /\ stoppedFetching /\ fetchQueue = << >> => fetchQueue' = << >>
<1>1. CASE CommitEcall
  BY <1>1 DEF CommitEcall, frontVars
<1>2. CASE CompleteRecovering
  BY <1>2 DEF CompleteRecovering, FetchFlush, exitVars
<1>3. CASE Fetch
  BY <1>3 DEF Fetch, FetchWith, Fetches, exitVars
<1>4. CASE FetchWait
  BY <1>4 DEF FetchWait, exitVars
<1>5. CASE \/ CommitInstruction \/ CommitFault \/ Tick \/ CompleteSkip
           \/ CompleteInstruction \/ Select \/ IssueSkip \/ IssueMisaligned
           \/ IssueInstruction \/ IssueDone \/ RenameDone \/ FetchDone \/ Ended
  <2>1. UNCHANGED frontVars /\ UNCHANGED exitVars
    BY <1>5 DEF CommitInstruction, CommitFault, Tick, CompleteSkip, CompleteInstruction,
         Select, IssueSkip, IssueMisaligned, IssueInstruction, IssueWith, IssueDone,
         RenameDone, FetchDone, Ended, vars
  <2> QED
    BY <2>1 DEF frontVars, exitVars
<1> QED
  BY <1>1, <1>2, <1>3, <1>4, <1>5 DEF Next

(* Only with something in the queue is anything renamed, so no exit is in  *)
(* flight; what is renamed is younger than all.                            *)
LEMMA RenameInstructionExit ==
  ASSUME TypeOK, ExitIsYoungest, RenameInstruction
  PROVE  ExitIsYoungest'
<1> DEFINE i == Head(fetchQueue)
           e == RobEntry(i)
<1>1. /\ rob' = Put(rob, nextSeq, e) /\ fetchQueue # << >>
      /\ i.op \in ExitOps => stoppedFetching' /\ fetchQueue' = << >>
  BY DEF RenameInstruction, RobAllocate, CanRename, Popped
<1>2. e.inst = i
  BY DEF RobEntry
<1> HIDE DEF e, i
<1>3. /\ InFlight' = InFlight \cup {nextSeq} /\ rob'[nextSeq] = e
      /\ \A t \in InFlight : rob'[t] = rob[t] /\ t < nextSeq /\ t \in Nat
      /\ nextSeq \in Nat
  BY <1>1, Added, SeqsBelow
<1>4. \A t \in InFlight : rob[t].inst.op \notin ExitOps
  BY <1>1 DEF ExitIsYoungest
<1> QED
  BY <1>1, <1>2, <1>3, <1>4 DEF ExitIsYoungest

(* Renaming an ecall or illegal instruction leaves it the youngest, with   *)
(* nothing fetched behind it, until it commits or is flushed.              *)
THEOREM NothingBehindExit == Pipeline => []ExitIsYoungest
<1>1. Init => ExitIsYoungest
  BY NoEntriesPartial DEF Init, RobInit, InFlight, ExitIsYoungest
<1>2. TypeOK /\ ExitIsYoungest /\ [Next]_vars => ExitIsYoungest'
  <2> SUFFICES ASSUME TypeOK, ExitIsYoungest, [Next]_vars PROVE ExitIsYoungest'
    OBVIOUS
  <2>1. CASE UNCHANGED vars
    <3>1. UNCHANGED <<rob, fetchQueue, stoppedFetching>>
      BY <2>1 DEF vars, robVars, frontVars, exitVars
    <3> QED
      BY <3>1 DEF ExitIsYoungest, InFlight
  <2>2. CASE RenameInstruction
    BY <2>2, RenameInstructionExit
  <2>3. CASE Next /\ ~RenameInstruction
    BY <2>3, StepsKeepReady, FrontStaysStopped, ExitStays DEF KeepsReady
  <2> QED
    BY <2>1, <2>2, <2>3
<1> QED
  BY <1>1, <1>2, TypeCorrect, PTL DEF Pipeline

-----------------------------------------------------------------------------
(* What stays of the reorder buffer *)

(* The fields of an entry that are fixed when it is renamed. *)
SameEntries ==
  \A t \in InFlight' :
    /\ t \in InFlight
    /\ rob'[t].inst = rob[t].inst /\ rob'[t].hasDest = rob[t].hasDest
    /\ rob'[t].src1Phys = rob[t].src1Phys /\ rob'[t].src2Phys = rob[t].src2Phys
    /\ rob'[t].destPhys = rob[t].destPhys /\ rob'[t].oldDestPhys = rob[t].oldDestPhys
    /\ rob'[t].hasCheckpoint = rob[t].hasCheckpoint
    /\ rob'[t].checkpoint = rob[t].checkpoint

(* All steps but that of rename only change the others, or drop entries.   *)
LEMMA StepsKeepEntries ==
  ASSUME TypeOK, [Next]_vars, ~RenameInstruction
  PROVE  SameEntries
<1>1. CASE UNCHANGED rob
  BY <1>1 DEF SameEntries, InFlight
<1>2. CASE CommitInstruction \/ CommitEcall
  <2>1. PICK s \in InFlight : rob' = Only(rob, InFlight \ {s})
    BY <1>2 DEF CommitInstruction, CommitEcall, popHead
  <2> QED
    BY <2>1, Dropped DEF SameEntries
<1>3. CASE CompleteInstruction \/ IssueMisaligned \/ IssueInstruction
  <2>1. PICK s \in InFlight :
          \E e \in {Executed(rob[s]), Issued(rob[s]), Faulted(rob[s])} : rob' = Put(rob, s, e)
    BY <1>3 DEF CompleteInstruction, Completes, IssueMisaligned, IssueInstruction,
                IssueWith, Issues
  <2> QED
    BY <2>1, Replaced, EntryAfter DEF SameEntries
<1>4. CASE CompleteRecovering
  <2>1. PICK s \in InFlight : rob' = Only(Put(rob, s, Executed(rob[s])), UpTo(InFlight, s))
    BY <1>4 DEF CompleteRecovering, Completes
  <2>2. s \in UpTo(InFlight, s)
    BY SeqsBelow DEF UpTo
  <2> QED
    BY <2>1, <2>2, ReplacedAndDropped, EntryAfter DEF SameEntries, UpTo
<1>5. CASE \/ CommitFault \/ Tick \/ CompleteSkip \/ Select \/ IssueSkip \/ IssueDone
           \/ RenameDone \/ FetchWait \/ Fetch \/ FetchDone \/ Ended \/ UNCHANGED vars
  BY <1>1, <1>5 DEF CommitFault, Tick, CompleteSkip, Select, IssueSkip, IssueDone,
       RenameDone, FetchWait, Fetch, FetchWith, FetchDone, Ended, vars, robVars
<1> QED
  BY <1>2, <1>3, <1>4, <1>5 DEF Next

(* And but for a recovery, only the oldest entry leaves; the map stays.    *)
LEMMA OnlyOldestLeaves ==
  ASSUME TypeOK, [Next]_vars, ~RenameInstruction, ~CompleteRecovering
  PROVE  /\ map' = map
         /\ \A s \in InFlight', t \in InFlight : s < t => t \in InFlight'
<1>1. CASE CommitInstruction \/ CommitEcall
  <2>1. PICK h \in InFlight : IsHead(h) /\ rob' = Only(rob, InFlight \ {h})
    BY <1>1 DEF CommitInstruction, CommitEcall, Commits, popHead
  <2>2. InFlight' = InFlight \ {h}
    BY <2>1, Dropped
  <2>3. \A s \in InFlight', t \in InFlight : s < t => t \in InFlight'
    BY <2>1, <2>2, SeqsBelow DEF IsHead
  <2>4. map' = map
    BY <1>1 DEF CommitInstruction, CommitEcall, freePhysical, renameVars
  <2> QED
    BY <2>3, <2>4
<1>2. CASE CompleteInstruction \/ IssueMisaligned \/ IssueInstruction
  <2>1. PICK s, e : s \in InFlight /\ rob' = Put(rob, s, e)
    BY <1>2 DEF CompleteInstruction, Completes, IssueMisaligned, IssueInstruction,
                IssueWith, Issues
  <2>2. map' = map
    BY <1>2 DEF CompleteInstruction, IssueMisaligned, IssueInstruction, IssueWith, renameVars
  <2> QED
    BY <2>1, <2>2, Replaced
<1>3. CASE \/ CommitFault \/ Tick \/ CompleteSkip \/ Select \/ IssueSkip \/ IssueDone
           \/ RenameDone \/ FetchWait \/ Fetch \/ FetchDone \/ Ended \/ UNCHANGED vars
  <2>1. UNCHANGED <<rob, map>>
    BY <1>3 DEF CommitFault, Tick, CompleteSkip, Select, IssueSkip, IssueDone,
       RenameDone, FetchWait, Fetch, FetchWith, FetchDone, Ended, vars, robVars, renameVars
  <2> QED
    BY <2>1 DEF InFlight
<1> QED
  BY <1>1, <1>2, <1>3 DEF Next

LEMMA RecoveryKeeps ==
  ASSUME TypeOK, CompleteRecovering
  PROVE  \E s \in InFlight :
           /\ rob[s].hasCheckpoint /\ map' = rob[s].checkpoint.map
           /\ freeList' = rob[s].checkpoint.freeList
           /\ ~rob[s].ready /\ WriteBack(rob[s])
           /\ InFlight' = UpTo(InFlight, s) /\ rob'[s] = Executed(rob[s])
           /\ \A t \in InFlight' : t # s => rob'[t] = rob[t]
<1>1. PICK s \in InFlight :
        /\ recovers(rob[s]) /\ restore(rob[s].checkpoint)
        /\ ~rob[s].ready /\ WriteBack(rob[s])
        /\ rob' = Only(Put(rob, s, Executed(rob[s])), UpTo(InFlight, s))
  BY DEF CompleteRecovering, Completes
<1>2. s \in UpTo(InFlight, s) /\ InFlight \cap UpTo(InFlight, s) = UpTo(InFlight, s)
  BY SeqsBelow DEF UpTo
<1> QED
  BY <1>1, <1>2, ReplacedAndDropped DEF recovers, restore

(* What a rename adds. *)
LEMMA RenameAdds ==
  ASSUME TypeOK, RenameInstruction
  PROVE  LET i == Head(fetchQueue) IN
         /\ InFlight' = InFlight \cup {nextSeq} /\ rob'[nextSeq] = RobEntry(i)
         /\ \A t \in InFlight : rob'[t] = rob[t]
         /\ i \in Fetched
         /\ hasDest(i) => /\ freeList # << >> /\ freeList' = Tail(freeList)
                          /\ map' = [map EXCEPT ![i.rd] = NextFree]
                          /\ markNotReady(NextFree)
         /\ ~hasDest(i) => UNCHANGED <<map, freeList, values, readyBits>>
<1>1. rob' = Put(rob, nextSeq, RobEntry(Head(fetchQueue)))
  BY DEF RenameInstruction, RobAllocate
<1>2. nextSeq \notin InFlight
  BY SeqsBelow
<1>3. Head(fetchQueue) \in Fetched
  BY DEF RenameInstruction, CanRename, TypeOK, FrontTypeOK
<1> QED
  BY <1>1, <1>2, <1>3, Added DEF RenameInstruction, allocate, canAllocate, renameVars, prfVars

-----------------------------------------------------------------------------
(* Every set of instructions in flight has an oldest *)

HasOldest(T) == \E x \in T : \A y \in T : x <= y

OldestExists == \A T \in SUBSET InFlight : T # {} => HasOldest(T)

LEMMA RenameOldest ==
  ASSUME TypeOK, OldestExists, RenameInstruction
  PROVE  OldestExists'
<1>1. InFlight' = InFlight \cup {nextSeq} /\ \A t \in InFlight : t < nextSeq
  BY RenameAdds, SeqsBelow
<1> SUFFICES ASSUME NEW T \in SUBSET InFlight', T # {} PROVE HasOldest(T)
  BY DEF OldestExists, HasOldest
<1>2. CASE T \ {nextSeq} = {}
  BY <1>2, SeqsBelow DEF HasOldest
<1>3. CASE T \ {nextSeq} # {}
  <2>1. HasOldest(T \ {nextSeq}) /\ T \ {nextSeq} \subseteq InFlight
    BY <1>1, <1>3 DEF OldestExists
  <2>2. PICK x \in T \ {nextSeq} : \A y \in T \ {nextSeq} : x <= y
    BY <2>1 DEF HasOldest
  <2>3. x < nextSeq /\ x \in Nat /\ nextSeq \in Nat
    BY <2>1, SeqsBelow
  <2>4. \A y \in T : x <= y
    BY <2>2, <2>3
  <2> QED
    BY <2>2, <2>4 DEF HasOldest
<1> QED
  BY <1>2, <1>3

LEMMA OldestInvariant == Pipeline => []OldestExists
<1>1. Init => OldestExists
  BY NoEntriesPartial DEF Init, RobInit, InFlight, OldestExists
<1>2. TypeOK /\ OldestExists /\ [Next]_vars => OldestExists'
  <2> SUFFICES ASSUME TypeOK, OldestExists, [Next]_vars PROVE OldestExists'
    OBVIOUS
  <2>1. CASE RenameInstruction
    BY <2>1, RenameOldest
  <2>2. CASE ~RenameInstruction
    <3>1. InFlight' \subseteq InFlight
      BY <2>2, StepsKeepEntries DEF SameEntries
    <3> QED
      BY <3>1 DEF OldestExists, HasOldest
  <2> QED
    BY <2>1, <2>2
<1> QED
  BY <1>1, <1>2, TypeCorrect, PTL DEF Pipeline

-----------------------------------------------------------------------------
(* Checkpoints *)

(* The conjunct of CheckpointUndoesYounger for one branch and register.    *)
Undone(s, a) ==
  /\ WritersAfter(s, a) = {} => rob[s].checkpoint.map[a] = map[a]
  /\ \A t \in WritersAfter(s, a) :
       (\A u \in WritersAfter(s, a) : t <= u)
         => rob[s].checkpoint.map[a] = rob[t].oldDestPhys

LEMMA CheckpointsByRegister ==
  /\ CheckpointUndoesYounger <=>
       \A s \in InFlight : rob[s].hasCheckpoint => \A a \in Arch : Undone(s, a)
  /\ (\A s \in InFlight' : rob'[s].hasCheckpoint => \A a \in Arch : Undone(s, a)')
       => CheckpointUndoesYounger'
BY DEF CheckpointUndoesYounger, Undone

(* While only the oldest leave, nothing younger than s changes. *)
LEMMA CheckpointsStay ==
  ASSUME CheckpointUndoesYounger, SameEntries, map' = map,
         \A s \in InFlight', t \in InFlight : s < t => t \in InFlight'
  PROVE  CheckpointUndoesYounger'
<1> SUFFICES ASSUME NEW s \in InFlight', rob'[s].hasCheckpoint, NEW a \in Arch
             PROVE  Undone(s, a)'
  BY CheckpointsByRegister
<1>1. Undone(s, a)
  BY CheckpointsByRegister DEF SameEntries
<1>2. \A t : t \in WritersAfter(s, a)' <=> t \in WritersAfter(s, a)
  BY DEF WritersAfter, Writers, SameEntries
<1>3. \A t \in WritersAfter(s, a) : rob'[t].oldDestPhys = rob[t].oldDestPhys
  BY DEF WritersAfter, Writers, SameEntries
<1>4. rob'[s].checkpoint = rob[s].checkpoint
  BY DEF SameEntries
<1> QED
  BY <1>1, <1>2, <1>3, <1>4 DEF Undone

(* Where an older checkpoint differs from that of r, the oldest write that *)
(* r undoes does not matter: an older one is undone.                       *)
LEMMA RecoveryCheckpoints ==
  ASSUME TypeOK, OldestExists, CheckpointUndoesYounger, CompleteRecovering
  PROVE  CheckpointUndoesYounger'
<1>1. PICK r \in InFlight :
        /\ rob[r].hasCheckpoint /\ map' = rob[r].checkpoint.map
        /\ InFlight' = UpTo(InFlight, r)
  BY RecoveryKeeps
<1>2. SameEntries
  <2>1. [Next]_vars /\ ~RenameInstruction
    BY DEF Next, CompleteRecovering, RenameInstruction
  <2> QED
    BY <2>1, StepsKeepEntries
<1>3. \A t \in InFlight : t \in Nat
  BY SeqsBelow
<1> SUFFICES ASSUME NEW s \in InFlight', rob'[s].hasCheckpoint, NEW a \in Arch
             PROVE  Undone(s, a)'
  BY CheckpointsByRegister
<1>4. s \in InFlight /\ s <= r
  BY <1>1 DEF UpTo
<1>5. Undone(s, a) /\ Undone(r, a) /\ rob'[s].checkpoint = rob[s].checkpoint
  BY <1>1, <1>2, <1>4, CheckpointsByRegister DEF SameEntries
<1>6. \A t : t \in WritersAfter(s, a)' <=> t \in WritersAfter(s, a) /\ t <= r
  BY <1>1, <1>2, <1>4 DEF WritersAfter, Writers, SameEntries, UpTo
<1>7. \A t \in WritersAfter(s, a) : t > r <=> t \in WritersAfter(r, a)
  BY <1>1, <1>3, <1>4 DEF WritersAfter, Writers
<1>8. \A t \in WritersAfter(r, a) : t \in WritersAfter(s, a) /\ t \in InFlight /\ t > r
  BY <1>1, <1>3, <1>4 DEF WritersAfter, Writers
<1>9. ASSUME WritersAfter(s, a)' = {}
      PROVE  rob[s].checkpoint.map[a] = map'[a]
  <2>1. \A t \in WritersAfter(s, a) : t \in WritersAfter(r, a)
    BY <1>3, <1>6, <1>7, <1>9 DEF WritersAfter, Writers
  <2>2. CASE WritersAfter(r, a) = {}
    BY <1>1, <1>5, <2>1, <2>2 DEF Undone
  <2>3. CASE WritersAfter(r, a) # {}
    <3>1. PICK m \in WritersAfter(r, a) : \A u \in WritersAfter(r, a) : m <= u
      BY <1>8, <2>3 DEF OldestExists, HasOldest
    <3> QED
      BY <1>1, <1>5, <1>8, <2>1, <3>1 DEF Undone
  <2> QED
    BY <2>2, <2>3
<1>10. ASSUME NEW t \in WritersAfter(s, a)', \A u \in WritersAfter(s, a)' : t <= u
       PROVE  rob[s].checkpoint.map[a] = rob'[t].oldDestPhys
  <2>1. t \in WritersAfter(s, a) /\ t <= r /\ t \in InFlight'
    BY <1>1, <1>6 DEF WritersAfter, Writers, UpTo
  <2>2. \A u \in WritersAfter(s, a) : t <= u
    BY <1>1, <1>3, <1>6, <1>7, <1>8, <1>10, <2>1 DEF WritersAfter, Writers
  <2> QED
    BY <1>2, <1>5, <2>1, <2>2 DEF Undone, SameEntries
<1> QED
  BY <1>5, <1>9, <1>10 DEF Undone

(* A new writer is the oldest younger one of its register for the branches *)
(* that had none, and releases what they would restore.                    *)
LEMMA RenameCheckpoints ==
  ASSUME TypeOK, CheckpointUndoesYounger, RenameInstruction
  PROVE  CheckpointUndoesYounger'
<1> DEFINE i == Head(fetchQueue)
           e == RobEntry(i)
           n == nextSeq
<1>1. /\ InFlight' = InFlight \cup {n} /\ rob'[n] = e
      /\ \A t \in InFlight : rob'[t] = rob[t]
      /\ i \in Fetched
      /\ hasDest(i) => map' = [map EXCEPT ![i.rd] = NextFree]
      /\ ~hasDest(i) => map' = map
  BY RenameAdds
<1>2. /\ e.inst = i /\ e.hasDest = hasDest(i)
      /\ e.hasCheckpoint => e.checkpoint.map = map'
      /\ hasDest(i) => e.oldDestPhys = map[i.rd]
  BY DEF RobEntry, checkpoint, hasDest, physForArch
<1>3. i.rd \in Arch /\ map \in [Arch -> Phys]
  BY <1>1 DEF Fetched, TypeOK, RenameTypeOK
<1> HIDE DEF e, i
<1>4. n \notin InFlight /\ n \in Nat /\ \A t \in InFlight : t \in Nat /\ t < n
  BY SeqsBelow
<1> HIDE DEF n
<1> SUFFICES ASSUME NEW s \in InFlight', rob'[s].hasCheckpoint, NEW a \in Arch
             PROVE  Undone(s, a)'
  BY CheckpointsByRegister
<1>5. \A t : t \in WritersAfter(s, a)' <=>
               \/ t \in WritersAfter(s, a) /\ s # n
               \/ t = n /\ s # n /\ hasDest(i) /\ i.rd = a
  BY <1>1, <1>2, <1>4 DEF WritersAfter, Writers
<1>6. CASE s = n
  BY <1>1, <1>2, <1>5, <1>6 DEF Undone
<1>7. CASE s # n
  <2>1. Undone(s, a) /\ rob'[s] = rob[s]
    BY <1>1, <1>7, CheckpointsByRegister
  <2>2. \A t \in WritersAfter(s, a) : t < n /\ t \in Nat /\ rob'[t] = rob[t]
    BY <1>1, <1>4 DEF WritersAfter, Writers
  <2>3. CASE hasDest(i) /\ i.rd = a
    <3>1. CASE WritersAfter(s, a) = {}
      <4>1. \A t \in WritersAfter(s, a)' : t = n
        BY <1>5, <3>1
      <4>2. rob[s].checkpoint.map[a] = rob'[n].oldDestPhys
        BY <1>1, <1>2, <2>1, <2>3, <3>1 DEF Undone
      <4>3. n \in WritersAfter(s, a)'
        BY <1>5, <1>7, <2>3
      <4> QED
        BY <2>1, <4>1, <4>2, <4>3 DEF Undone
    <3>2. CASE WritersAfter(s, a) # {}
      <4>1. PICK u \in WritersAfter(s, a) : TRUE
        BY <3>2
      <4>2. u \in WritersAfter(s, a)' /\ u < n
        BY <1>5, <1>7, <2>2
      <4>3. ASSUME NEW t \in WritersAfter(s, a)', \A v \in WritersAfter(s, a)' : t <= v
            PROVE  rob[s].checkpoint.map[a] = rob'[t].oldDestPhys
        <5>1. t # n
          BY <1>4, <2>2, <4>2, <4>3
        <5>2. t \in WritersAfter(s, a) /\ \A v \in WritersAfter(s, a) : t <= v
          BY <1>5, <1>7, <4>3, <5>1
        <5> QED
          BY <2>1, <2>2, <5>2 DEF Undone
      <4> QED
        BY <2>1, <4>2, <4>3 DEF Undone
    <3> QED
      BY <3>1, <3>2
  <2>4. CASE ~(hasDest(i) /\ i.rd = a)
    <3>1. \A t : t \in WritersAfter(s, a)' <=> t \in WritersAfter(s, a)
      BY <1>5, <1>7, <2>4
    <3>2. map'[a] = map[a]
      BY <1>1, <1>3, <2>4
    <3> QED
      BY <2>1, <2>2, <3>1, <3>2 DEF Undone
  <2> QED
    BY <2>3, <2>4
<1> QED
  BY <1>6, <1>7

(* The checkpoint of every branch in flight is the map with the writes of  *)
(* all younger instructions undone: restoring it forgets exactly what a    *)
(* recovery flushes, whatever was committed since it was taken.            *)
THEOREM RecoveryForgetsExactlyTheFlushed == Pipeline => []CheckpointUndoesYounger
<1>1. Init => CheckpointUndoesYounger
  BY NoEntriesPartial DEF Init, RobInit, InFlight, CheckpointUndoesYounger
<1>2. TypeOK /\ OldestExists /\ CheckpointUndoesYounger /\ [Next]_vars
        => CheckpointUndoesYounger'
  <2> SUFFICES ASSUME TypeOK, OldestExists, CheckpointUndoesYounger, [Next]_vars
               PROVE  CheckpointUndoesYounger'
    OBVIOUS
  <2>1. CASE RenameInstruction
    BY <2>1, RenameCheckpoints
  <2>2. CASE CompleteRecovering
    BY <2>2, RecoveryCheckpoints
  <2>3. CASE ~RenameInstruction /\ ~CompleteRecovering
    BY <2>3, StepsKeepEntries, OnlyOldestLeaves, CheckpointsStay
  <2> QED
    BY <2>1, <2>2, <2>3
<1> QED
  BY <1>1, <1>2, TypeCorrect, OldestInvariant, PTL DEF Pipeline

-----------------------------------------------------------------------------
(* Destinations *)

(* Only a write can be the destination of an instruction, and nothing but  *)
(* completion makes one ready or faulty.                                   *)
EntriesConsistent ==
  \A s \in InFlight : /\ rob[s].hasDest = hasDest(rob[s].inst)
                      /\ ~rob[s].ready => ~rob[s].exception

(* A destination is free neither now nor after a recovery it survives, and *)
(* is no other instruction's, nor what an older one releases.              *)
DestinationsKept ==
  /\ \A s \in Writers(InFlight) :
       /\ rob[s].destPhys \in Phys \ {0} /\ rob[s].oldDestPhys \in Phys
       /\ rob[s].destPhys \notin Range(freeList)
  /\ \A s, t \in Writers(InFlight) :
       s < t => rob[t].destPhys \notin {rob[s].destPhys, rob[s].oldDestPhys}
  /\ \A s \in InFlight : rob[s].hasCheckpoint =>
       \A t \in UpTo(Writers(InFlight), s) :
         rob[t].destPhys \notin Range(rob[s].checkpoint.freeList)

LEMMA ConsistentStep ==
  TypeOK /\ EntriesConsistent /\ [Next]_vars => EntriesConsistent'
<1> SUFFICES ASSUME TypeOK, EntriesConsistent, [Next]_vars PROVE EntriesConsistent'
  OBVIOUS
<1>1. CASE RenameInstruction
  <2>1. /\ InFlight' = InFlight \cup {nextSeq}
        /\ rob'[nextSeq] = RobEntry(Head(fetchQueue))
        /\ \A t \in InFlight : rob'[t] = rob[t]
    BY <1>1, RenameAdds
  <2>2. /\ RobEntry(Head(fetchQueue)).hasDest = hasDest(RobEntry(Head(fetchQueue)).inst)
        /\ ~RobEntry(Head(fetchQueue)).exception
    BY DEF RobEntry
  <2> QED
    BY <2>1, <2>2 DEF EntriesConsistent
<1>2. CASE CompleteRecovering
  <2>1. PICK s \in InFlight :
          /\ InFlight' = UpTo(InFlight, s) /\ rob'[s] = Executed(rob[s])
          /\ \A t \in InFlight' : t # s => rob'[t] = rob[t]
    BY <1>2, RecoveryKeeps
  <2> QED
    BY <2>1, EntryAfter DEF EntriesConsistent, UpTo
<1>3. CASE CompleteInstruction \/ IssueMisaligned \/ IssueInstruction
  <2>1. PICK s \in InFlight :
          \E e \in {Executed(rob[s]), Issued(rob[s]), Faulted(rob[s])} : rob' = Put(rob, s, e)
    BY <1>3 DEF CompleteInstruction, Completes, IssueMisaligned, IssueInstruction,
                IssueWith, Issues
  <2> QED
    BY <2>1, Replaced, EntryAfter DEF EntriesConsistent
<1>4. CASE CommitInstruction \/ CommitEcall
  <2>1. PICK s \in InFlight : rob' = Only(rob, InFlight \ {s})
    BY <1>4 DEF CommitInstruction, CommitEcall, popHead
  <2> QED
    BY <2>1, Dropped DEF EntriesConsistent
<1>5. CASE \/ CommitFault \/ Tick \/ CompleteSkip \/ Select \/ IssueSkip \/ IssueDone
           \/ RenameDone \/ FetchWait \/ Fetch \/ FetchDone \/ Ended \/ UNCHANGED vars
  <2>1. UNCHANGED rob
    BY <1>5 DEF CommitFault, Tick, CompleteSkip, Select, IssueSkip, IssueDone,
       RenameDone, FetchWait, Fetch, FetchWith, FetchDone, Ended, vars, robVars
  <2> QED
    BY <2>1 DEF EntriesConsistent, InFlight
<1> QED
  BY <1>1, <1>2, <1>3, <1>4, <1>5 DEF Next

(* Destinations stay kept when no destination left is on the new free list.*)
LEMMA DestinationsStay ==
  ASSUME DestinationsKept, SameEntries,
         \A s \in InFlight' : rob[s].hasDest => rob[s].destPhys \notin Range(freeList')
  PROVE  DestinationsKept'
<1>1. \A s : s \in Writers(InFlight)' <=> s \in InFlight' /\ s \in Writers(InFlight)
  BY DEF SameEntries, Writers
<1>2. \A s \in Writers(InFlight)' :
        /\ rob'[s].destPhys \in Phys \ {0} /\ rob'[s].oldDestPhys \in Phys
        /\ rob'[s].destPhys \notin Range(freeList')
  BY <1>1 DEF SameEntries, DestinationsKept, Writers
<1>3. \A s, t \in Writers(InFlight)' :
        s < t => rob'[t].destPhys \notin {rob'[s].destPhys, rob'[s].oldDestPhys}
  BY <1>1 DEF SameEntries, DestinationsKept
<1>4. ASSUME NEW s \in InFlight', rob'[s].hasCheckpoint,
             NEW t \in Writers(InFlight)', t <= s
      PROVE  rob'[t].destPhys \notin Range(rob'[s].checkpoint.freeList)
  <2>1. /\ t \in UpTo(Writers(InFlight), s) /\ s \in InFlight /\ rob[s].hasCheckpoint
        /\ rob'[t].destPhys = rob[t].destPhys /\ rob'[s].checkpoint = rob[s].checkpoint
    BY <1>1, <1>4 DEF SameEntries, UpTo
  <2> QED
    BY <2>1 DEF DestinationsKept
<1> QED
  BY <1>2, <1>3, <1>4 DEF DestinationsKept, UpTo

LEMMA HeadNotInTail ==
  ASSUME NEW f \in Seq(Phys), f # << >>, IsInjective(f)
  PROVE  Head(f) \notin Range(Tail(f))
<1> SUFFICES ASSUME Head(f) \in Range(Tail(f)) PROVE FALSE
  OBVIOUS
<1>1. /\ DOMAIN f = 1 .. Len(f) /\ DOMAIN Tail(f) = 1 .. Len(f) - 1 /\ Len(f) \in Nat
      /\ \A k \in 1 .. Len(f) - 1 : Tail(f)[k] = f[k + 1]
      /\ Head(f) = f[1] /\ 1 \in 1 .. Len(f)
  OBVIOUS
<1>2. PICK k \in 1 .. Len(f) - 1 : f[1] = f[k + 1]
  BY <1>1 DEF Range
<1>3. k + 1 \in 1 .. Len(f) /\ k + 1 # 1
  BY <1>1
<1> QED
  BY <1>1, <1>2, <1>3 DEF IsInjective

(* A step other than rename puts no destination that stays on the free     *)
(* list: commit frees what the oldest instruction released, a recovery     *)
(* what its branch saved.                                                  *)
LEMMA NoDestinationFreed ==
  ASSUME TypeOK, DestinationsKept, [Next]_vars, ~RenameInstruction
  PROVE  \A t \in InFlight' : rob[t].hasDest => rob[t].destPhys \notin Range(freeList')
<1>1. SameEntries
  BY StepsKeepEntries
<1> SUFFICES ASSUME NEW t \in InFlight', rob[t].hasDest
             PROVE  rob[t].destPhys \notin Range(freeList')
  OBVIOUS
<1>2. t \in Writers(InFlight) /\ rob[t].destPhys \notin Range(freeList)
  BY <1>1 DEF SameEntries, Writers, DestinationsKept
<1>3. CASE CommitInstruction
  <2>1. PICK h \in InFlight :
          /\ IsHead(h) /\ rob' = Only(rob, InFlight \ {h})
          /\ IF rob[h].hasDest THEN freePhysical(Released(rob[h])) ELSE UNCHANGED renameVars
    BY <1>3 DEF CommitInstruction, Commits, popHead
  <2>2. h < t
    <3>1. t \in InFlight /\ t # h
      BY <2>1, Dropped
    <3> QED
      BY <2>1, <3>1, SeqsBelow DEF IsHead
  <2>3. CASE rob[h].hasDest /\ rob[h].oldDestPhys >= NArch
    <3>1. /\ freeList' = Append(freeList, rob[h].oldDestPhys)
          /\ rob[t].destPhys # rob[h].oldDestPhys
      BY <1>2, <2>1, <2>2, <2>3 DEF freePhysical, Released, DestinationsKept, Writers
    <3>2. freeList \in Seq(Phys) /\ rob[h].oldDestPhys \in Phys
      <4>1. rob[h].oldDestPhys \in Phys \cup {-1}
        BY EntryType DEF Entry
      <4> QED
        BY <2>3, <4>1, WordAssumption DEF TypeOK, RenameTypeOK
    <3> QED
      BY <1>2, <3>1, <3>2, RangeOfAppend
  <2>4. CASE ~(rob[h].hasDest /\ rob[h].oldDestPhys >= NArch)
    BY <1>2, <2>1, <2>4 DEF freePhysical, Released, renameVars
  <2> QED
    BY <2>3, <2>4
<1>4. CASE CompleteRecovering
  <2>1. PICK r \in InFlight :
          /\ rob[r].hasCheckpoint /\ freeList' = rob[r].checkpoint.freeList
          /\ InFlight' = UpTo(InFlight, r)
    BY <1>4, RecoveryKeeps
  <2> QED
    BY <1>2, <2>1 DEF DestinationsKept, UpTo, Writers
<1>5. CASE ~CommitInstruction /\ ~CompleteRecovering
  <2>1. freeList' = freeList
    BY <1>5 DEF Next, CommitEcall, CommitFault, Tick, CompleteSkip, CompleteInstruction,
         Select, IssueSkip, IssueMisaligned, IssueInstruction, IssueWith, IssueDone,
         RenameDone, FetchWait, Fetch, FetchWith, FetchDone, Ended, vars, renameVars
  <2> QED
    BY <1>2, <2>1
<1> QED
  BY <1>3, <1>4, <1>5

(* The register allocated is free: no register of the map, no release and  *)
(* no destination, and not on what is left of the free list.               *)
LEMMA AllocatedIsFree ==
  ASSUME TypeOK, RegistersDisjoint, ZeroFixed, DestinationsKept, freeList # << >>
  PROVE  /\ NextFree \in Phys \ {0} /\ NextFree \notin Range(Tail(freeList))
         /\ NextFree \in Range(freeList) /\ NextFree \notin Range(map)
         /\ \A s \in Writers(InFlight) : NextFree \notin {rob[s].destPhys, rob[s].oldDestPhys}
<1>1. freeList \in Seq(Phys) /\ map \in [Arch -> Phys] /\ 0 \in Arch
  BY Zeroes DEF TypeOK, RenameTypeOK
<1>2. NextFree \in Phys /\ NextFree \in Range(freeList)
  BY <1>1, RangeOfHead DEF NextFree
<1>3. Disjoint(map, freeList, Releases(rob, InFlight))
  BY DEF RegistersDisjoint
<1>4. 0 \in Range(map)
  BY <1>1 DEF ZeroFixed, Range
<1>5. NextFree \notin Range(Tail(freeList))
  BY <1>1, <1>3, HeadNotInTail DEF Disjoint, NextFree
<1>6. \A s \in Writers(InFlight) : rob[s].oldDestPhys \in Range(Releases(rob, InFlight))
  BY DEF Writers, Releases, Range
<1>7. \A s \in Writers(InFlight) : NextFree # rob[s].destPhys
  BY <1>2 DEF DestinationsKept
<1> QED
  BY <1>2, <1>3, <1>4, <1>5, <1>6, <1>7 DEF Disjoint

LEMMA RenameDestinations ==
  ASSUME TypeOK, RegistersDisjoint, ZeroFixed, DestinationsKept, RenameInstruction
  PROVE  DestinationsKept'
<1> DEFINE i == Head(fetchQueue)
           e == RobEntry(i)
           n == nextSeq
<1>1. /\ InFlight' = InFlight \cup {n} /\ rob'[n] = e
      /\ \A t \in InFlight : rob'[t] = rob[t]
      /\ hasDest(i) => freeList # << >> /\ freeList' = Tail(freeList)
      /\ ~hasDest(i) => freeList' = freeList
  BY RenameAdds
<1>2. /\ e.hasDest = hasDest(i)
      /\ hasDest(i) => e.destPhys = NextFree /\ e.oldDestPhys \in Phys
      /\ e.hasCheckpoint => e.checkpoint.freeList = freeList'
  <2>1. hasDest(i) => physForArch(i.rd) \in Phys
    BY RenameAdds DEF Fetched, hasDest, physForArch, TypeOK, RenameTypeOK
  <2> QED
    BY <2>1 DEF RobEntry, checkpoint
<1> HIDE DEF e, i
<1>3. n \notin InFlight /\ n \in Nat /\ \A t \in InFlight : t \in Nat /\ t < n
  BY SeqsBelow
<1> HIDE DEF n
<1>4. \A p : p \in Range(freeList') => p \in Range(freeList)
  BY <1>1, RangeOfTail DEF TypeOK, RenameTypeOK
<1>5. \A t : t \in Writers(InFlight)' <=> t \in Writers(InFlight) \/ (t = n /\ hasDest(i))
  BY <1>1, <1>2, <1>3 DEF Writers
<1>6. \A t \in Writers(InFlight) : t \in InFlight /\ rob'[t] = rob[t] /\ t < n /\ t \in Nat
  BY <1>1, <1>3 DEF Writers
<1>7. \A s \in Writers(InFlight)' :
        /\ rob'[s].destPhys \in Phys \ {0} /\ rob'[s].oldDestPhys \in Phys
        /\ rob'[s].destPhys \notin Range(freeList')
  <2>1. \A s \in Writers(InFlight) :
          /\ rob'[s].destPhys \in Phys \ {0} /\ rob'[s].oldDestPhys \in Phys
          /\ rob'[s].destPhys \notin Range(freeList')
    BY <1>4, <1>6 DEF DestinationsKept
  <2>2. hasDest(i) => /\ rob'[n].destPhys \in Phys \ {0} /\ rob'[n].oldDestPhys \in Phys
                      /\ rob'[n].destPhys \notin Range(freeList')
    BY <1>1, <1>2, AllocatedIsFree
  <2> QED
    BY <1>5, <2>1, <2>2
<1>8. ASSUME NEW s \in Writers(InFlight)', NEW t \in Writers(InFlight)', s < t
      PROVE  rob'[t].destPhys \notin {rob'[s].destPhys, rob'[s].oldDestPhys}
  <2>1. s \in Writers(InFlight)
    BY <1>3, <1>5, <1>6, <1>8
  <2>2. CASE t = n /\ hasDest(i)
    BY <1>1, <1>2, <1>6, <2>1, <2>2, AllocatedIsFree
  <2>3. CASE t \in Writers(InFlight)
    BY <1>6, <1>8, <2>1, <2>3 DEF DestinationsKept
  <2> QED
    BY <1>5, <2>2, <2>3
<1>9. ASSUME NEW s \in InFlight', rob'[s].hasCheckpoint,
             NEW t \in Writers(InFlight)', t <= s
      PROVE  rob'[t].destPhys \notin Range(rob'[s].checkpoint.freeList)
  <2>1. CASE s = n
    BY <1>1, <1>2, <1>7, <1>9, <2>1
  <2>2. CASE s # n
    <3>1. s \in InFlight /\ rob'[s] = rob[s] /\ s < n /\ s \in Nat
      BY <1>1, <1>3, <2>2
    <3>2. t \in Writers(InFlight) /\ rob'[t] = rob[t]
      BY <1>3, <1>5, <1>6, <1>9, <3>1
    <3> QED
      BY <1>9, <3>1, <3>2 DEF DestinationsKept, UpTo
  <2> QED
    BY <2>1, <2>2
<1> QED
  BY <1>7, <1>8, <1>9 DEF DestinationsKept, UpTo

DestinationInv == EntriesConsistent /\ DestinationsKept

LEMMA DestinationInvariant == Pipeline => []DestinationInv
<1>1. Init => DestinationInv
  BY NoEntriesPartial DEF Init, RobInit, InFlight, DestinationInv, EntriesConsistent,
                          DestinationsKept, Writers
<1>2. TypeOK /\ RegistersDisjoint /\ SourceInv /\ DestinationInv /\ [Next]_vars
        => DestinationInv'
  <2> SUFFICES ASSUME TypeOK, RegistersDisjoint, SourceInv, DestinationInv, [Next]_vars
               PROVE  DestinationInv'
    OBVIOUS
  <2>1. EntriesConsistent'
    BY ConsistentStep DEF DestinationInv
  <2>2. CASE RenameInstruction
    BY <2>1, <2>2, RenameDestinations DEF DestinationInv, SourceInv
  <2>3. CASE ~RenameInstruction
    BY <2>1, <2>3, StepsKeepEntries, NoDestinationFreed, DestinationsStay DEF DestinationInv
  <2> QED
    BY <2>2, <2>3
<1> QED
  BY <1>1, <1>2, TypeCorrect, RegistersNeverShared, SourceInvariant, PTL DEF Pipeline

-----------------------------------------------------------------------------
(* Ready bits *)

(* Some instruction in flight before number n has still to write p. *)
AwaitedBelow(p, n) ==
  \E t \in Writers(InFlight) : t < n /\ rob[t].destPhys = p /\ Pending(t)

ReadyAt(p, n) == ~PrfReady(p) <=> AwaitedBelow(p, n)

(* The ready bits are exact for the sources in flight, for the next to be  *)
(* renamed, and for the next after any recovery.                           *)
ReadyInv ==
  /\ \A s \in InFlight : \A p \in Sources(s) : ReadyAt(p, s)
  /\ \A p \in Range(map) : ReadyAt(p, nextSeq)
  /\ \A s \in InFlight : rob[s].hasCheckpoint =>
       \A p \in Range(rob[s].checkpoint.map) : ReadyAt(p, s + 1)

(* Who leaves is not pending, and who stays remains pending or not. *)
PendingKept(n) ==
  /\ UNCHANGED prfVars
  /\ \A t \in InFlight' : t \in InFlight
  /\ \A t \in InFlight : t < n =>
       \/ /\ t \in InFlight'
          /\ rob'[t].hasDest = rob[t].hasDest /\ rob'[t].destPhys = rob[t].destPhys
          /\ Pending(t)' <=> Pending(t)
       \/ t \notin InFlight' /\ ~Pending(t)

LEMMA ReadyStays ==
  ASSUME NEW p, NEW n, PendingKept(n), ReadyAt(p, n)
  PROVE  ReadyAt(p, n)'
<1>1. PrfReady(p)' <=> PrfReady(p)
  BY DEF PendingKept, PrfReady, prfVars
<1>2. AwaitedBelow(p, n)' => AwaitedBelow(p, n)
  BY DEF PendingKept, AwaitedBelow, Writers
<1>3. AwaitedBelow(p, n) => AwaitedBelow(p, n)'
  BY DEF PendingKept, AwaitedBelow, Writers
<1> QED
  BY <1>1, <1>2, <1>3 DEF ReadyAt

(* Completion wakes up exactly the readers of what it writes: no other     *)
(* instruction in flight has the same destination.                         *)
LEMMA CompletionWakes ==
  ASSUME TypeOK, DestinationInv, NEW s \in InFlight, ~rob[s].ready, WriteBack(rob[s]),
         s \in InFlight', rob'[s] = Executed(rob[s]),
         \A t \in InFlight' : t \in InFlight /\ (t # s => rob'[t] = rob[t]),
         NEW p \in Phys, NEW n, \A t \in InFlight : t < n => t \in InFlight',
         ReadyAt(p, n)
  PROVE  ReadyAt(p, n)'
<1>1. /\ rob'[s].hasDest = rob[s].hasDest /\ rob'[s].destPhys = rob[s].destPhys
      /\ rob[s].hasDest => ~Pending(s)'
  <2>1. rob[s].hasDest => rob[s].inst.op # "Illegal" /\ ~rob[s].exception
    BY DEF DestinationInv, EntriesConsistent, hasDest, writesRegister, UpperOps, Jumps,
           Loads, ImmOps, RegOps
  <2>2. Executed(rob[s]).ready
        /\ Executed(rob[s]).exception = (rob[s].exception \/ rob[s].inst.op = "Illegal")
    BY EntryAfter
  <2>3. /\ Executed(rob[s]).hasDest = rob[s].hasDest
        /\ Executed(rob[s]).destPhys = rob[s].destPhys
    BY EntryAfter
  <2> QED
    BY <2>1, <2>2, <2>3 DEF Pending
<1>2. CASE rob[s].hasDest /\ p = rob[s].destPhys
  <2>1. p \in Phys \ {0}
    BY <1>2 DEF DestinationInv, DestinationsKept, Writers
  <2>2. PrfReady(p)'
    BY <1>2, <2>1 DEF WriteBack, write, PrfReady, TypeOK, PrfTypeOK
  <2>3. ASSUME NEW t \in Writers(InFlight)', rob'[t].destPhys = p, t # s
        PROVE  FALSE
    <3>1. t \in Writers(InFlight) /\ rob[t].destPhys = p /\ s \in Writers(InFlight)
      BY <1>2, <2>3 DEF Writers
    <3>2. s < t \/ t < s
      BY <2>3, <3>1, SeqsBelow DEF Writers
    <3> QED
      BY <1>2, <3>1, <3>2 DEF DestinationInv, DestinationsKept
  <2>4. ~AwaitedBelow(p, n)'
    BY <1>1, <1>2, <2>3 DEF AwaitedBelow, Writers
  <2> QED
    BY <2>2, <2>4 DEF ReadyAt
<1>3. CASE ~(rob[s].hasDest /\ p = rob[s].destPhys)
  <2>1. PrfReady(p)' <=> PrfReady(p)
    <3>1. CASE rob[s].hasDest /\ rob[s].destPhys # 0
      BY <1>3, <3>1 DEF WriteBack, write, PrfReady, TypeOK, PrfTypeOK
    <3>2. CASE ~(rob[s].hasDest /\ rob[s].destPhys # 0)
      BY <3>2 DEF WriteBack, write, PrfReady, prfVars
    <3> QED
      BY <3>1, <3>2
  <2>2. AwaitedBelow(p, n)' => AwaitedBelow(p, n)
    BY <1>1, <1>3 DEF AwaitedBelow, Writers, Pending
  <2>3. AwaitedBelow(p, n) => AwaitedBelow(p, n)'
    BY <1>1, <1>3 DEF AwaitedBelow, Writers, Pending
  <2> QED
    BY <2>1, <2>2, <2>3 DEF ReadyAt
<1> QED
  BY <1>2, <1>3

(* No step but rename or a recovery changes who is waited for.             *)
LEMMA ReadyThrough ==
  ASSUME TypeOK, PlaceInv, DestinationInv, [Next]_vars,
         ~RenameInstruction, ~CompleteRecovering,
         NEW p \in Phys, NEW n, ReadyAt(p, n)
  PROVE  ReadyAt(p, n)'
<1>1. CASE CommitInstruction \/ CommitEcall
  <2>1. PICK h \in InFlight : /\ rob[h].ready /\ ~Faults(rob[h])
                              /\ rob' = Only(rob, InFlight \ {h})
    BY <1>1 DEF CommitInstruction, CommitEcall, Commits, popHead
  <2>2. UNCHANGED prfVars
    BY <1>1 DEF CommitInstruction, CommitEcall
  <2>3. ~Pending(h)
    BY <2>1 DEF Pending, Faults
  <2>4. InFlight' = InFlight \ {h} /\ \A t \in InFlight' : rob'[t] = rob[t]
    BY <2>1, Dropped
  <2>5. PendingKept(n)
    BY <2>2, <2>3, <2>4 DEF PendingKept, Pending
  <2> QED
    BY <2>5, ReadyStays
<1>2. CASE CompleteInstruction
  <2>1. PICK s \in InFlight : /\ ~rob[s].ready /\ WriteBack(rob[s])
                              /\ rob' = Put(rob, s, Executed(rob[s]))
    BY <1>2 DEF CompleteInstruction, Completes
  <2>2. /\ InFlight' = InFlight /\ rob'[s] = Executed(rob[s])
        /\ \A t \in InFlight : t # s => rob'[t] = rob[t]
    BY <2>1, Replaced
  <2> QED
    BY <2>1, <2>2, CompletionWakes
<1>3. CASE IssueMisaligned \/ IssueInstruction
  <2>1. PICK s \in InFlight :
          \/ /\ rob' = Put(rob, s, Faulted(rob[s]))
             /\ stage = "issue" /\ s \in work
          \/ rob' = Put(rob, s, Issued(rob[s]))
    BY <1>3 DEF IssueMisaligned, IssueInstruction, IssueWith, Issues
  <2>2. PICK e : /\ rob' = Put(rob, s, e)
                 /\ e.hasDest = rob[s].hasDest /\ e.destPhys = rob[s].destPhys
                 /\ (~e.ready \/ e.exception) <=> Pending(s)
    <3>1. CASE rob' = Put(rob, s, Issued(rob[s]))
      <4>1. (~Issued(rob[s]).ready \/ Issued(rob[s]).exception) <=> Pending(s)
        BY EntryAfter DEF Pending
      <4>2. /\ Issued(rob[s]).hasDest = rob[s].hasDest
            /\ Issued(rob[s]).destPhys = rob[s].destPhys
        BY EntryAfter
      <4> QED
        BY <3>1, <4>1, <4>2
    <3>2. CASE /\ rob' = Put(rob, s, Faulted(rob[s]))
               /\ stage = "issue" /\ s \in work
      <4>1. Faulted(rob[s]).exception
        BY EntryAfter
      <4>2. /\ Faulted(rob[s]).hasDest = rob[s].hasDest
            /\ Faulted(rob[s]).destPhys = rob[s].destPhys
        BY EntryAfter
      <4>3. Pending(s)
        BY <3>2 DEF PlaceInv, InOnePlace, WorkInPlace, Pending
      <4> QED
        BY <3>2, <4>1, <4>2, <4>3
    <3> QED
      BY <2>1, <3>1, <3>2
  <2>3. /\ InFlight' = InFlight /\ rob'[s] = e
        /\ \A t \in InFlight : t # s => rob'[t] = rob[t]
    BY <2>2, Replaced
  <2>4. UNCHANGED prfVars
    BY <1>3 DEF IssueMisaligned, IssueInstruction, IssueWith
  <2>5. PendingKept(n)
    BY <2>2, <2>3, <2>4 DEF PendingKept, Pending
  <2> QED
    BY <2>5, ReadyStays
<1>4. CASE \/ CommitFault \/ Tick \/ CompleteSkip \/ Select \/ IssueSkip \/ IssueDone
           \/ RenameDone \/ FetchWait \/ Fetch \/ FetchDone \/ Ended \/ UNCHANGED vars
  <2>1. UNCHANGED <<rob, prfVars>>
    BY <1>4 DEF CommitFault, Tick, CompleteSkip, Select, IssueSkip, IssueDone,
       RenameDone, FetchWait, Fetch, FetchWith, FetchDone, Ended, vars, robVars
  <2>2. PendingKept(n)
    BY <2>1 DEF PendingKept, InFlight, Pending
  <2> QED
    BY <2>2, ReadyStays
<1> QED
  BY <1>1, <1>2, <1>3, <1>4 DEF Next

(* Sources and mapped registers are physical registers. *)
LEMMA ReadyTypes ==
  ASSUME TypeOK
  PROVE  /\ \A s \in InFlight : Sources(s) \subseteq Phys
         /\ Range(map) \subseteq Phys
         /\ \A s \in InFlight : rob[s].hasCheckpoint =>
              Range(rob[s].checkpoint.map) \subseteq Phys
<1>1. \A s \in InFlight : Sources(s) \subseteq Phys
  BY EntryType DEF Sources, Entry
<1>2. Range(map) \subseteq Phys
  BY DEF TypeOK, RenameTypeOK, Range
<1>3. \A s \in InFlight : rob[s].hasCheckpoint => Range(rob[s].checkpoint.map) \subseteq Phys
  BY EntryType DEF Checkpoint, Range
<1> QED
  BY <1>1, <1>2, <1>3

LEMMA OtherStepsReady ==
  ASSUME TypeOK, PlaceInv, DestinationInv, ReadyInv, [Next]_vars,
         ~RenameInstruction, ~CompleteRecovering
  PROVE  ReadyInv'
<1>1. SameEntries /\ map' = map /\ nextSeq' = nextSeq
  <2>1. nextSeq' = nextSeq
    BY DEF Next, CommitInstruction, CommitEcall, CommitFault, Tick, CompleteSkip,
         CompleteInstruction, Select, IssueSkip, IssueMisaligned, IssueInstruction,
         IssueWith, IssueDone, RenameDone, FetchWait, Fetch, FetchWith, FetchDone,
         Ended, vars, robVars
  <2> QED
    BY <2>1, StepsKeepEntries, OnlyOldestLeaves
<1>2. \A p \in Phys : \A n : ReadyAt(p, n) => ReadyAt(p, n)'
  BY ReadyThrough
<1>3. \A s \in InFlight' : \A p \in Sources(s)' : ReadyAt(p, s)'
  BY <1>1, <1>2, ReadyTypes DEF ReadyInv, SameEntries, Sources
<1>4. \A p \in Range(map') : ReadyAt(p, nextSeq)'
  BY <1>1, <1>2, ReadyTypes DEF ReadyInv
<1>5. \A s \in InFlight' : rob'[s].hasCheckpoint =>
        \A p \in Range(rob'[s].checkpoint.map) : ReadyAt(p, s + 1)'
  BY <1>1, <1>2, ReadyTypes DEF ReadyInv, SameEntries
<1> QED
  BY <1>3, <1>4, <1>5 DEF ReadyInv

LEMMA RecoveryReady ==
  ASSUME TypeOK, DestinationInv, ReadyInv, CompleteRecovering
  PROVE  ReadyInv'
<1>1. PICK r \in InFlight :
        /\ rob[r].hasCheckpoint /\ map' = rob[r].checkpoint.map
        /\ ~rob[r].ready /\ WriteBack(rob[r])
        /\ InFlight' = UpTo(InFlight, r) /\ rob'[r] = Executed(rob[r])
        /\ \A t \in InFlight' : t # r => rob'[t] = rob[t]
  BY RecoveryKeeps
<1>2. SameEntries /\ nextSeq' = nextSeq
  <2>1. [Next]_vars /\ ~RenameInstruction /\ nextSeq' = nextSeq
    BY DEF Next, CompleteRecovering, RenameInstruction
  <2> QED
    BY <2>1, StepsKeepEntries
<1>3. /\ \A t \in InFlight : t \in Nat /\ t < nextSeq
      /\ \A t : t \in InFlight' <=> t \in InFlight /\ t <= r
  BY <1>1, SeqsBelow DEF UpTo
<1>4. \A p \in Phys : \A n \in Nat : n <= r + 1 /\ ReadyAt(p, n) => ReadyAt(p, n)'
  <2> SUFFICES ASSUME NEW p \in Phys, NEW n \in Nat, n <= r + 1, ReadyAt(p, n)
               PROVE  ReadyAt(p, n)'
    OBVIOUS
  <2>1. \A t \in InFlight : t < n => t \in InFlight'
    BY <1>3
  <2> QED
    BY <1>1, <1>3, <2>1, CompletionWakes
<1>5. \A s \in InFlight' : s \in InFlight /\ s <= r + 1 /\ s + 1 <= r + 1 /\ s + 1 \in Nat
                           /\ s \in Nat
  BY <1>3
<1>6. \A s \in InFlight' : \A p \in Sources(s)' : ReadyAt(p, s)'
  BY <1>2, <1>4, <1>5, ReadyTypes DEF ReadyInv, SameEntries, Sources
<1>7. \A p \in Range(map') : ReadyAt(p, nextSeq)'
  <2> SUFFICES ASSUME NEW p \in Range(map') PROVE ReadyAt(p, nextSeq)'
    OBVIOUS
  <2>1. ReadyAt(p, r + 1)'
    BY <1>1, <1>3, <1>4, ReadyTypes DEF ReadyInv
  <2>2. \A t \in InFlight' : t < r + 1 /\ t < nextSeq'
    BY <1>2, <1>3
  <2>3. AwaitedBelow(p, r + 1)' <=> AwaitedBelow(p, nextSeq)'
    BY <2>2 DEF AwaitedBelow, Writers
  <2> QED
    BY <2>1, <2>3 DEF ReadyAt
<1>8. \A s \in InFlight' : rob'[s].hasCheckpoint =>
        \A p \in Range(rob'[s].checkpoint.map) : ReadyAt(p, s + 1)'
  BY <1>2, <1>4, <1>5, ReadyTypes DEF ReadyInv, SameEntries
<1> QED
  BY <1>6, <1>7, <1>8 DEF ReadyInv

(* What a checkpoint maps is still mapped, or released by an instruction   *)
(* in flight.                                                              *)
LEMMA CheckpointRegisters ==
  ASSUME TypeOK, OldestExists, CheckpointUndoesYounger,
         NEW s \in InFlight, rob[s].hasCheckpoint, NEW p \in Range(rob[s].checkpoint.map)
  PROVE  p \in Range(map) \/ \E t \in Writers(InFlight) : p = rob[t].oldDestPhys
<1>1. DOMAIN rob[s].checkpoint.map = Arch /\ DOMAIN map = Arch
  BY EntryType DEF Checkpoint, TypeOK, RenameTypeOK
<1>2. PICK a \in Arch : p = rob[s].checkpoint.map[a]
  BY <1>1 DEF Range
<1>3. CASE WritersAfter(s, a) = {}
  BY <1>1, <1>2, <1>3 DEF CheckpointUndoesYounger, Range
<1>4. CASE WritersAfter(s, a) # {}
  <2>1. WritersAfter(s, a) \in SUBSET InFlight
    BY DEF WritersAfter, Writers
  <2>2. PICK t \in WritersAfter(s, a) : \A u \in WritersAfter(s, a) : t <= u
    BY <1>4, <2>1 DEF OldestExists, HasOldest
  <2> QED
    BY <1>2, <2>2 DEF CheckpointUndoesYounger, WritersAfter
<1> QED
  BY <1>3, <1>4

(* A register just allocated is named by none of those whose ready bit     *)
(* matters so far, and is awaited by what is renamed next.                 *)
LEMMA RenameReady ==
  ASSUME TypeOK, RegistersDisjoint, SourceInv, OldestExists, CheckpointUndoesYounger,
         DestinationInv, ReadyInv, RenameInstruction
  PROVE  ReadyInv'
<1> DEFINE i == Head(fetchQueue)
           e == RobEntry(i)
           d == hasDest(i)
<1>0. PICK n, f : n = nextSeq /\ f = NextFree
  OBVIOUS
<1>1. /\ InFlight' = InFlight \cup {n} /\ rob'[n] = e
      /\ \A t \in InFlight : rob'[t] = rob[t]
      /\ d => /\ freeList # << >> /\ map' = [map EXCEPT ![i.rd] = f]
              /\ markNotReady(f)
      /\ ~d => UNCHANGED <<map, readyBits>>
      /\ i.rd \in Arch /\ i.rs1 \in Arch /\ i.rs2 \in Arch
  BY <1>0, RenameAdds DEF Fetched
<1>2. /\ e.hasDest = d
      /\ d => e.destPhys = f
      /\ e.src1Phys = physForArch(i.rs1) /\ e.src2Phys = physForArch(i.rs2)
      /\ e.hasCheckpoint => e.checkpoint.map = map'
      /\ ~e.ready
  BY <1>0 DEF RobEntry, checkpoint
<1>3. nextSeq' = n + 1
  BY <1>0 DEF RenameInstruction, RobAllocate
<1>4. {e.src1Phys, e.src2Phys} \subseteq Range(map)
  BY <1>1, <1>2, SourcesMapped DEF SourceInv
<1> HIDE DEF e, i, d
<1>5. n \notin InFlight /\ n \in Nat /\ \A t \in InFlight : t \in Nat /\ t < n
  BY <1>0, SeqsBelow
<1>6. d => /\ f \in Phys \ {0} /\ f \notin Range(map)
           /\ f \in Range(freeList)
           /\ \A t \in Writers(InFlight) : f # rob[t].oldDestPhys
  BY <1>0, <1>1, AllocatedIsFree DEF SourceInv, DestinationInv
<1>7. ASSUME NEW p \in Phys, d => p # f
      PROVE  /\ \A m \in Nat : m <= n /\ ReadyAt(p, m) => ReadyAt(p, m)'
             /\ ReadyAt(p, n) => ReadyAt(p, n + 1)'
  <2>1. PrfReady(p)' <=> PrfReady(p)
    BY <1>1, <1>6, <1>7 DEF markNotReady, PrfReady, TypeOK, PrfTypeOK
  <2>2. \A t : t \in Writers(InFlight)' <=> t \in Writers(InFlight) \/ (t = n /\ d)
    BY <1>1, <1>2, <1>5 DEF Writers
  <2>3. \A t \in Writers(InFlight) : /\ t \in Nat /\ t < n /\ rob'[t] = rob[t]
                                     /\ Pending(t)' <=> Pending(t)
    BY <1>1, <1>5 DEF Writers, Pending
  <2>4. d => rob'[n].destPhys # p
    BY <1>1, <1>2, <1>7
  <2>5. \A m \in Nat : m <= n => (AwaitedBelow(p, m)' <=> AwaitedBelow(p, m))
    BY <1>5, <2>2, <2>3, <2>4 DEF AwaitedBelow
  <2>6. AwaitedBelow(p, n + 1)' <=> AwaitedBelow(p, n)
    BY <1>5, <2>2, <2>3, <2>4 DEF AwaitedBelow
  <2> QED
    BY <2>1, <2>5, <2>6 DEF ReadyAt
<1>8. d => ReadyAt(f, n + 1)'
  <2> SUFFICES ASSUME d PROVE ReadyAt(f, n + 1)'
    OBVIOUS
  <2>1. ~readyBits'[f] /\ f # 0
    BY <1>1, <1>6 DEF markNotReady, TypeOK, PrfTypeOK
  <2>2. n \in InFlight' /\ rob'[n].hasDest /\ rob'[n].destPhys = f /\ ~rob'[n].ready
    BY <1>1, <1>2
  <2>3. n \in Writers(InFlight)' /\ Pending(n)' /\ n < n + 1
    BY <1>5, <2>2 DEF Writers, Pending
  <2> QED
    BY <2>1, <2>2, <2>3 DEF ReadyAt, AwaitedBelow, PrfReady
<1>9. \A s \in InFlight' : \A p \in Sources(s)' : ReadyAt(p, s)'
  <2> SUFFICES ASSUME NEW s \in InFlight', NEW p \in Sources(s)' PROVE ReadyAt(p, s)'
    OBVIOUS
  <2>1. CASE s = n
    BY <1>0, <1>1, <1>2, <1>4, <1>5, <1>6, <1>7, <2>1, ReadyTypes DEF Sources, ReadyInv
  <2>2. CASE s # n
    <3>1. s \in InFlight /\ p \in Sources(s) /\ s \in Nat /\ s <= n
      BY <1>1, <1>5, <2>2 DEF Sources
    <3>2. d => p # f
      BY <1>6, <3>1 DEF SourceInv, SourcesKept
    <3> QED
      BY <1>7, <3>1, <3>2, ReadyTypes DEF ReadyInv
  <2> QED
    BY <2>1, <2>2
<1>10. \A p \in Range(map') : ReadyAt(p, n + 1)'
  <2> SUFFICES ASSUME NEW p \in Range(map') PROVE ReadyAt(p, n + 1)'
    OBVIOUS
  <2>1. CASE d /\ p = f
    BY <1>8, <2>1
  <2>2. CASE ~(d /\ p = f)
    <3>1. p \in Range(map)
      BY <1>1, <2>2 DEF TypeOK, RenameTypeOK, Range
    <3> QED
      BY <1>0, <1>7, <2>2, <3>1, ReadyTypes DEF ReadyInv
  <2> QED
    BY <2>1, <2>2
<1>11. ASSUME NEW s \in InFlight', rob'[s].hasCheckpoint,
              NEW p \in Range(rob'[s].checkpoint.map)
       PROVE  ReadyAt(p, s + 1)'
  <2>1. CASE s = n
    BY <1>1, <1>2, <1>10, <1>11, <2>1
  <2>2. CASE s # n
    <3>1. s \in InFlight /\ rob'[s] = rob[s] /\ s + 1 \in Nat /\ s + 1 <= n
      BY <1>1, <1>5, <2>2
    <3>2. d => p # f
      BY <1>6, <1>11, <3>1, CheckpointRegisters
    <3>3. p \in Phys /\ ReadyAt(p, s + 1)
      BY <1>11, <3>1, ReadyTypes DEF ReadyInv
    <3> QED
      BY <1>7, <3>1, <3>2, <3>3
  <2> QED
    BY <2>1, <2>2
<1>12. \A p \in Range(map') : ReadyAt(p, nextSeq)'
  BY <1>3, <1>10 DEF ReadyAt, AwaitedBelow
<1> QED
  BY <1>9, <1>11, <1>12 DEF ReadyInv

LEMMA ReadyInvariant == Pipeline => []ReadyInv
<1>1. Init => ReadyInv
  <2> SUFFICES ASSUME Init PROVE ReadyInv
    OBVIOUS
  <2>1. InFlight = {}
    BY NoEntriesPartial DEF Init, RobInit, InFlight
  <2>2. \A p \in Range(map) : PrfReady(p)
    BY InitType, ReadyTypes DEF Init, PrfInit, PrfReady
  <2> QED
    BY <2>1, <2>2 DEF ReadyInv, ReadyAt, AwaitedBelow, Writers
<1>2. TypeOK /\ RegistersDisjoint /\ SourceInv /\ PlaceInv /\ OldestExists
        /\ CheckpointUndoesYounger /\ DestinationInv /\ ReadyInv /\ [Next]_vars => ReadyInv'
  BY RenameReady, RecoveryReady, OtherStepsReady
<1> QED
  BY <1>1, <1>2, TypeCorrect, RegistersNeverShared, SourceInvariant, PlaceInvariant,
     OldestInvariant, RecoveryForgetsExactlyTheFlushed, DestinationInvariant, PTL DEF Pipeline

(* A source is not ready exactly while an older instruction in flight has  *)
(* still to produce it: no instruction is selected before its operands     *)
(* are there, and none waits for a register that nobody will write.        *)
THEOREM WakeUpExact == Pipeline => []ReadyBitsExact
<1>1. ReadyInv => ReadyBitsExact
  BY DEF ReadyInv, ReadyBitsExact, ReadyAt, AwaitedBelow
<1> QED
  BY <1>1, ReadyInvariant, PTL

-----------------------------------------------------------------------------
(* The oldest of a set of instructions *)

LEMMA OldestIs ==
  ASSUME NEW T \in SUBSET Nat, NEW t \in T, \A u \in T : t <= u
  PROVE  Oldest(T) = t
<1>1. \A x \in T : (\A u \in T : x <= u) => x = t
  OBVIOUS
<1> QED
  BY <1>1 DEF Oldest

LEMMA OldestInFlight ==
  ASSUME TypeOK, OldestExists, NEW T \in SUBSET InFlight, T # {}
  PROVE  /\ T \in SUBSET Nat
         /\ Oldest(T) \in T /\ \A u \in T : Oldest(T) <= u
<1>1. PICK t \in T : \A u \in T : t <= u
  BY DEF OldestExists, HasOldest
<1>2. T \in SUBSET Nat
  BY SeqsBelow
<1> QED
  BY <1>1, <1>2, OldestIs

LEMMA WritersFromTypes ==
  ASSUME TypeOK, NEW n, NEW a
  PROVE  /\ WritersFrom(n, a) \in SUBSET InFlight
         /\ WritersFrom(n, a) \in SUBSET Nat
BY SeqsBelow DEF WritersFrom, Writers

-----------------------------------------------------------------------------
(* What steps leave of the map of program order *)

(* The entries of instructions in flight keep what they release. *)
SameReleases ==
  \A t \in InFlight' : t \in InFlight => rob'[t].oldDestPhys = rob[t].oldDestPhys

(* The oldest writer stays, or there is none before and after.             *)
LEMMA MapBeforeSame ==
  ASSUME TypeOK, OldestExists, SameReleases, NEW n, NEW a,
         \/ /\ WritersFrom(n, a)' = {} /\ WritersFrom(n, a) = {}
            /\ map'[a] = map[a]
         \/ /\ WritersFrom(n, a) # {}
            /\ WritersFrom(n, a)' \in SUBSET Nat
            /\ Oldest(WritersFrom(n, a)) \in WritersFrom(n, a)'
            /\ \A t \in WritersFrom(n, a)' : Oldest(WritersFrom(n, a)) <= t
  PROVE  MapBefore(n, a)' = MapBefore(n, a)
<1>1. CASE /\ WritersFrom(n, a)' = {} /\ WritersFrom(n, a) = {}
           /\ map'[a] = map[a]
  BY <1>1 DEF MapBefore
<1>2. CASE /\ WritersFrom(n, a) # {}
           /\ WritersFrom(n, a)' \in SUBSET Nat
           /\ Oldest(WritersFrom(n, a)) \in WritersFrom(n, a)'
           /\ \A t \in WritersFrom(n, a)' : Oldest(WritersFrom(n, a)) <= t
  <2> DEFINE o == Oldest(WritersFrom(n, a))
  <2>1. o \in InFlight /\ o \in InFlight'
    BY <1>2, OldestInFlight, WritersFromTypes DEF WritersFrom, Writers
  <2>2. Oldest(WritersFrom(n, a)') = o
    BY <1>2, OldestIs
  <2>3. rob'[o].oldDestPhys = rob[o].oldDestPhys
    BY <2>1 DEF SameReleases
  <2> QED
    BY <1>2, <2>2, <2>3 DEF MapBefore, Oldest
<1> QED
  BY <1>1, <1>2

LEMMA EntriesKeepReleases == SameEntries => SameReleases
BY DEF SameEntries, SameReleases

(* While only the oldest leave, nothing changes for those who stay. *)
LEMMA MapBeforeStays ==
  ASSUME TypeOK, OldestExists, [Next]_vars, ~RenameInstruction, ~CompleteRecovering,
         NEW n, NEW a \in Arch, \A t \in InFlight : t >= n => t \in InFlight'
  PROVE  MapBefore(n, a)' = MapBefore(n, a)
<1>1. SameEntries /\ map' = map
  BY StepsKeepEntries, OnlyOldestLeaves
<1>2. \A t : t \in WritersFrom(n, a)' <=> t \in WritersFrom(n, a)
  BY <1>1 DEF WritersFrom, Writers, SameEntries
<1>3. WritersFrom(n, a)' = WritersFrom(n, a)
  BY <1>2
<1> QED
  BY <1>1, <1>3, WritersFromTypes, OldestInFlight, MapBeforeSame, EntriesKeepReleases

(* A recovery flushes writers and undoes what they did to the map.         *)
LEMMA MapBeforeRecovered ==
  ASSUME TypeOK, OldestExists, CheckpointUndoesYounger, CompleteRecovering,
         NEW r \in InFlight, rob[r].hasCheckpoint, map' = rob[r].checkpoint.map,
         InFlight' = UpTo(InFlight, r),
         NEW n \in Nat, n <= r + 1, NEW a \in Arch
  PROVE  MapBefore(n, a)' = MapBefore(n, a)
<1>1. SameEntries
  <2>1. [Next]_vars /\ ~RenameInstruction
    BY DEF Next, CompleteRecovering, RenameInstruction
  <2> QED
    BY <2>1, StepsKeepEntries
<1>2. \A t \in InFlight : t \in Nat
  BY SeqsBelow
<1>3. \A t : t \in WritersFrom(n, a)' <=> t \in WritersFrom(n, a) /\ t <= r
  BY <1>1 DEF WritersFrom, Writers, SameEntries, UpTo
<1>4. WritersFrom(n, a) \in SUBSET InFlight /\ WritersFrom(n, a) \in SUBSET Nat
  BY WritersFromTypes
<1>5. CASE WritersFrom(n, a)' # {}
  <2>1. /\ Oldest(WritersFrom(n, a)) \in WritersFrom(n, a)
        /\ \A u \in WritersFrom(n, a) : Oldest(WritersFrom(n, a)) <= u
    BY <1>3, <1>4, <1>5, OldestInFlight
  <2>2. PICK w \in WritersFrom(n, a)' : TRUE
    BY <1>5
  <2>3. w \in Nat /\ w <= r /\ w \in WritersFrom(n, a) /\ r \in Nat
    BY <1>2, <1>3, <1>4, <2>2
  <2>4. Oldest(WritersFrom(n, a)) <= r
    BY <1>4, <2>1, <2>3
  <2> QED
    BY <1>1, <1>3, <1>4, <2>1, <2>3, <2>4, MapBeforeSame, EntriesKeepReleases
<1>6. CASE WritersFrom(n, a)' = {}
  <2>1. MapBefore(n, a)' = rob[r].checkpoint.map[a]
    BY <1>6 DEF MapBefore
  <2>2. \A t : t \in WritersFrom(n, a) <=> t \in WritersAfter(r, a)
    BY <1>2, <1>3, <1>4, <1>6 DEF WritersFrom, WritersAfter, Writers
  <2>3. Undone(r, a)
    BY CheckpointsByRegister
  <2>4. CASE WritersFrom(n, a) = {}
    BY <2>1, <2>2, <2>3, <2>4 DEF Undone, MapBefore
  <2>5. CASE WritersFrom(n, a) # {}
    <3>1. /\ Oldest(WritersFrom(n, a)) \in WritersAfter(r, a)
          /\ \A u \in WritersAfter(r, a) : Oldest(WritersFrom(n, a)) <= u
      BY <1>4, <2>2, <2>5, OldestInFlight
    <3> QED
      BY <2>1, <2>3, <2>5, <3>1 DEF Undone, MapBefore
  <2> QED
    BY <2>4, <2>5
<1> QED
  BY <1>5, <1>6

LEMMA MapBeforeNext ==
  ASSUME TypeOK, NEW a
  PROVE  MapBefore(nextSeq, a) = map[a]
<1>1. WritersFrom(nextSeq, a) = {}
  BY SeqsBelow DEF WritersFrom, Writers
<1> QED
  BY <1>1 DEF MapBefore

(* A rename shows only behind the instruction renamed. *)
LEMMA MapBeforeRenamed ==
  ASSUME TypeOK, OldestExists, ZeroFixed, RenameInstruction,
         NEW n \in Nat, NEW a \in Arch
  PROVE  /\ n <= nextSeq => MapBefore(n, a)' = MapBefore(n, a)
         /\ n > nextSeq => MapBefore(n, a)' = map'[a]
<1> DEFINE i == Head(fetchQueue)
<1>0. PICK m : m = nextSeq
  OBVIOUS
<1>1. /\ InFlight' = InFlight \cup {m} /\ rob'[m] = RobEntry(i)
      /\ \A t \in InFlight : rob'[t] = rob[t]
      /\ hasDest(i) => map' = [map EXCEPT ![i.rd] = NextFree]
      /\ ~hasDest(i) => map' = map
      /\ i.rd \in Arch
  BY <1>0, RenameAdds DEF Fetched
<1>2. /\ RobEntry(i).hasDest = hasDest(i) /\ RobEntry(i).inst = i
      /\ hasDest(i) => RobEntry(i).oldDestPhys = map[i.rd]
  BY DEF RobEntry, physForArch, hasDest
<1>3. map \in [Arch -> Phys]
  BY DEF TypeOK, RenameTypeOK
<1> HIDE DEF i
<1>4. m \notin InFlight /\ m \in Nat /\ \A t \in InFlight : t \in Nat /\ t < m
  BY <1>0, SeqsBelow
<1>5. \A t : t \in WritersFrom(n, a)' <=>
               t \in WritersFrom(n, a) \/ (t = m /\ n <= m /\ hasDest(i) /\ i.rd = a)
  BY <1>1, <1>2, <1>4 DEF WritersFrom, Writers
<1>6. WritersFrom(n, a) \in SUBSET InFlight /\ WritersFrom(n, a) \in SUBSET Nat
  BY WritersFromTypes
<1>7. SameReleases
  BY <1>1 DEF SameReleases
<1>8. CASE WritersFrom(n, a) # {}
  <2>1. /\ Oldest(WritersFrom(n, a)) \in WritersFrom(n, a)
        /\ \A u \in WritersFrom(n, a) : Oldest(WritersFrom(n, a)) <= u
    BY <1>6, <1>8, OldestInFlight
  <2>2. /\ Oldest(WritersFrom(n, a)) <= m
        /\ n <= m
        /\ Oldest(WritersFrom(n, a)) \in Nat
    BY <1>4, <1>6, <2>1 DEF WritersFrom
  <2>3. MapBefore(n, a)' = MapBefore(n, a)
    BY <1>4, <1>5, <1>6, <1>7, <1>8, <2>1, <2>2, MapBeforeSame
  <2> QED
    BY <1>0, <1>4, <2>2, <2>3
<1>9. CASE WritersFrom(n, a) = {}
  <2>1. CASE n <= m /\ hasDest(i) /\ i.rd = a
    <3>1. WritersFrom(n, a)' = {m}
      BY <1>5, <1>9, <2>1
    <3>2. Oldest(WritersFrom(n, a)') = m
      BY <1>4, <3>1, OldestIs
    <3>3. MapBefore(n, a)' = rob'[m].oldDestPhys
      BY <3>1, <3>2 DEF MapBefore, Oldest
    <3> QED
      BY <1>0, <1>1, <1>2, <1>4, <1>9, <2>1, <3>3 DEF MapBefore
  <2>2. CASE ~(n <= m /\ hasDest(i) /\ i.rd = a)
    <3>1. WritersFrom(n, a)' = {}
      BY <1>5, <1>9, <2>2
    <3>2. n <= m => map'[a] = map[a]
      BY <1>1, <1>3, <2>2
    <3> QED
      BY <1>0, <1>9, <3>1, <3>2 DEF MapBefore
  <2> QED
    BY <2>1, <2>2
<1> QED
  BY <1>8, <1>9

-----------------------------------------------------------------------------
(* Operands are the registers of program order *)

(* The conjunct of OperandsNamed for one instruction. *)
Named(s) ==
  /\ rob[s].src1Phys = MapBefore(s, rob[s].inst.rs1)
  /\ rob[s].src2Phys = MapBefore(s, rob[s].inst.rs2)
  /\ rob[s].hasDest => /\ rob[s].destPhys = MapBefore(s + 1, rob[s].inst.rd)
                       /\ \A a \in Arch : rob[s].destPhys # MapBefore(s, a)

LEMMA OperandsByInstruction ==
  /\ OperandsNamed <=> \A s \in InFlight : Named(s)
  /\ (\A s \in InFlight' : Named(s)') => OperandsNamed'
BY DEF OperandsNamed, Named

LEMMA OperandTypesOf ==
  ASSUME TypeOK, NEW s \in InFlight
  PROVE  rob[s].inst.rs1 \in Arch /\ rob[s].inst.rs2 \in Arch /\ rob[s].inst.rd \in Arch
BY EntryType DEF Entry, Fetched

LEMMA NamedStays ==
  ASSUME TypeOK, NEW s \in InFlight', s \in InFlight, Named(s),
         rob'[s].inst = rob[s].inst, rob'[s].hasDest = rob[s].hasDest,
         rob'[s].src1Phys = rob[s].src1Phys, rob'[s].src2Phys = rob[s].src2Phys,
         rob'[s].destPhys = rob[s].destPhys,
         \A a \in Arch : MapBefore(s, a)' = MapBefore(s, a),
         \A a \in Arch : MapBefore(s + 1, a)' = MapBefore(s + 1, a)
  PROVE  Named(s)'
BY OperandTypesOf DEF Named

LEMMA RenameNames ==
  ASSUME TypeOK, OldestExists, RegistersDisjoint, SourceInv, DestinationInv,
         OperandsNamed, RenameInstruction
  PROVE  OperandsNamed'
<1>0. PICK m, i : m = nextSeq /\ i = Head(fetchQueue)
  OBVIOUS
<1>1. /\ InFlight' = InFlight \cup {m} /\ rob'[m] = RobEntry(i)
      /\ \A t \in InFlight : rob'[t] = rob[t]
      /\ hasDest(i) => freeList # << >> /\ map' = [map EXCEPT ![i.rd] = NextFree]
      /\ i.rd \in Arch /\ i.rs1 \in Arch /\ i.rs2 \in Arch
  BY <1>0, RenameAdds DEF Fetched
<1>2. /\ RobEntry(i).inst = i /\ RobEntry(i).hasDest = hasDest(i)
      /\ RobEntry(i).src1Phys = physForArch(i.rs1)
      /\ RobEntry(i).src2Phys = physForArch(i.rs2)
      /\ hasDest(i) => RobEntry(i).destPhys = NextFree
  BY DEF RobEntry
<1>3. ZeroFixed /\ map \in [Arch -> Phys]
  BY DEF SourceInv, TypeOK, RenameTypeOK
<1>4. physForArch(i.rs1) = map[i.rs1] /\ physForArch(i.rs2) = map[i.rs2]
  BY <1>3 DEF physForArch, ZeroFixed
<1>5. m \in Nat /\ \A t \in InFlight : t \in Nat /\ t < m
  BY <1>0, SeqsBelow
<1>6. \A n \in Nat : \A a \in Arch :
        /\ n <= m => MapBefore(n, a)' = MapBefore(n, a)
        /\ n > m => MapBefore(n, a)' = map'[a]
  BY <1>0, <1>3, MapBeforeRenamed
<1> SUFFICES ASSUME NEW s \in InFlight' PROVE Named(s)'
  BY OperandsByInstruction
<1>7. CASE s # m
  <2>1. s \in InFlight /\ rob'[s] = rob[s] /\ s \in Nat /\ s + 1 \in Nat /\ s + 1 <= m
    BY <1>1, <1>5, <1>7
  <2>2. \A a \in Arch : /\ MapBefore(s, a)' = MapBefore(s, a)
                        /\ MapBefore(s + 1, a)' = MapBefore(s + 1, a)
    BY <1>5, <1>6, <2>1
  <2> QED
    BY <2>1, <2>2, OperandsByInstruction, NamedStays
<1>8. CASE s = m
  <2>1. \A a \in Arch : MapBefore(m, a)' = map[a]
    BY <1>0, <1>5, <1>6, MapBeforeNext
  <2>2. rob'[m].src1Phys = MapBefore(m, i.rs1)' /\ rob'[m].src2Phys = MapBefore(m, i.rs2)'
    BY <1>1, <1>2, <1>4, <2>1
  <2>3. hasDest(i) => /\ rob'[m].destPhys = MapBefore(m + 1, i.rd)'
                      /\ \A a \in Arch : rob'[m].destPhys # MapBefore(m, a)'
    <3> SUFFICES ASSUME hasDest(i)
                 PROVE  /\ rob'[m].destPhys = MapBefore(m + 1, i.rd)'
                        /\ \A a \in Arch : rob'[m].destPhys # MapBefore(m, a)'
      OBVIOUS
    <3>1. MapBefore(m + 1, i.rd)' = NextFree
      BY <1>1, <1>3, <1>5, <1>6
    <3>2. NextFree \notin Range(map)
      BY <1>1, AllocatedIsFree DEF SourceInv, DestinationInv
    <3>3. \A a \in Arch : NextFree # map[a]
      BY <1>3, <3>2 DEF Range
    <3> QED
      BY <1>1, <1>2, <2>1, <3>1, <3>3
  <2> QED
    BY <1>1, <1>2, <1>8, <2>2, <2>3 DEF Named
<1> QED
  BY <1>7, <1>8

(* Instructions name the registers that program order gives them, however  *)
(* many branches were undone since they were renamed.                      *)
THEOREM OperandsFollowProgramOrder == Pipeline => []OperandsNamed
<1>1. Init => OperandsNamed
  BY NoEntriesPartial DEF Init, RobInit, InFlight, OperandsNamed
<1>2. TypeOK /\ OldestExists /\ CheckpointUndoesYounger /\ RegistersDisjoint /\ SourceInv
        /\ DestinationInv /\ OperandsNamed /\ [Next]_vars => OperandsNamed'
  <2> SUFFICES ASSUME TypeOK, OldestExists, CheckpointUndoesYounger, RegistersDisjoint,
                      SourceInv, DestinationInv, OperandsNamed, [Next]_vars
               PROVE  OperandsNamed'
    OBVIOUS
  <2>1. CASE RenameInstruction
    BY <2>1, RenameNames
  <2>2. CASE ~RenameInstruction
    <3> SUFFICES ASSUME NEW s \in InFlight' PROVE Named(s)'
      BY OperandsByInstruction
    <3>1. SameEntries
      BY <2>2, StepsKeepEntries
    <3>2. s \in InFlight /\ s \in Nat /\ s + 1 \in Nat /\ \A t \in InFlight : t \in Nat
      BY <3>1, SeqsBelow DEF SameEntries
    <3>3. \A a \in Arch : /\ MapBefore(s, a)' = MapBefore(s, a)
                          /\ MapBefore(s + 1, a)' = MapBefore(s + 1, a)
      <4>1. CASE ~CompleteRecovering
        <5>1. \A t \in InFlight : t >= s => t \in InFlight'
          BY <2>2, <3>2, <4>1, OnlyOldestLeaves
        <5>2. \A t \in InFlight : t >= s + 1 => t \in InFlight'
          BY <3>2, <5>1
        <5> QED
          BY <2>2, <4>1, <5>1, <5>2, MapBeforeStays
      <4>2. CASE CompleteRecovering
        <5>1. PICK r \in InFlight :
                /\ rob[r].hasCheckpoint /\ map' = rob[r].checkpoint.map
                /\ InFlight' = UpTo(InFlight, r)
          BY <4>2, RecoveryKeeps
        <5>2. s <= r + 1 /\ s + 1 <= r + 1
          BY <3>2, <5>1 DEF UpTo
        <5> QED
          BY <3>2, <4>2, <5>1, <5>2, MapBeforeRecovered
      <4> QED
        BY <4>1, <4>2
    <3> QED
      BY <3>1, <3>2, <3>3, OperandsByInstruction, NamedStays DEF SameEntries
  <2> QED
    BY <2>1, <2>2
<1> QED
  BY <1>1, <1>2, TypeCorrect, OldestInvariant, RecoveryForgetsExactlyTheFlushed,
     RegistersNeverShared, SourceInvariant, DestinationInvariant, PTL DEF Pipeline

-----------------------------------------------------------------------------
(* What a step can do to an instruction *)

(* The step completes instruction u. *)
Finishes(u) ==
  /\ CompleteInstruction \/ CompleteRecovering
  /\ IsNext(u) /\ u \in InFlight /\ u \in InFlight'
  /\ ~rob[u].ready /\ rob[u].issued
  /\ rob'[u] = Executed(rob[u]) /\ WriteBack(rob[u])
  /\ \A t \in InFlight' : t \in InFlight /\ (t # u => rob'[t] = rob[t])

LEMMA CompletionFinishes ==
  ASSUME TypeOK, PlaceInv, CompleteInstruction \/ CompleteRecovering
  PROVE  \E u \in InFlight : Finishes(u)
<1>1. PICK u \in InFlight :
        /\ stage = "complete" /\ IsNext(u) /\ ~rob[u].ready /\ WriteBack(rob[u])
        /\ \/ rob' = Put(rob, u, Executed(rob[u]))
           \/ rob' = Only(Put(rob, u, Executed(rob[u])), UpTo(InFlight, u))
  BY DEF CompleteInstruction, CompleteRecovering, Completes
<1>2. rob[u].issued
  BY <1>1 DEF PlaceInv, InOnePlace, Executing, IsNext
<1>3. u \in UpTo(InFlight, u) /\ \A t \in InFlight' : t \in InFlight
  <2>1. u \in UpTo(InFlight, u)
    BY SeqsBelow DEF UpTo
  <2> QED
    BY <1>1, <2>1, Replaced, ReplacedAndDropped
<1>4. u \in InFlight' /\ rob'[u] = Executed(rob[u])
      /\ \A t \in InFlight' : t # u => rob'[t] = rob[t]
  <2>1. CASE rob' = Put(rob, u, Executed(rob[u]))
    BY <2>1, Replaced
  <2>2. CASE rob' = Only(Put(rob, u, Executed(rob[u])), UpTo(InFlight, u))
    BY <1>3, <2>2, ReplacedAndDropped
  <2> QED
    BY <1>1, <2>1, <2>2
<1> QED
  BY <1>1, <1>2, <1>3, <1>4 DEF Finishes

LEMMA EntryChanges ==
  ASSUME TypeOK, PlaceInv, [Next]_vars, NEW s \in InFlight, s \in InFlight'
  PROVE  \/ rob'[s] = rob[s]
         \/ /\ ~rob[s].ready /\ stage = "issue" /\ s \in work
            /\ \/ rob'[s] = Issued(rob[s]) /\ ~misaligned(rob[s])
               \/ rob'[s] = Faulted(rob[s]) /\ misaligned(rob[s])
            /\ UNCHANGED <<memory, values>>
         \/ Finishes(s)
<1>1. CASE RenameInstruction
  BY <1>1, RenameAdds
<1>2. CASE CommitInstruction \/ CommitEcall
  <2>1. PICK h \in InFlight : rob' = Only(rob, InFlight \ {h})
    BY <1>2 DEF CommitInstruction, CommitEcall, popHead
  <2> QED
    BY <2>1, Dropped
<1>3. CASE CompleteInstruction \/ CompleteRecovering
  BY <1>3, CompletionFinishes DEF Finishes
<1>4. CASE IssueMisaligned \/ IssueInstruction
  <2>1. PICK t \in InFlight :
          /\ stage = "issue" /\ t \in work
          /\ \/ rob' = Put(rob, t, Issued(rob[t])) /\ ~misaligned(rob[t])
             \/ rob' = Put(rob, t, Faulted(rob[t])) /\ misaligned(rob[t])
    BY <1>4 DEF IssueMisaligned, IssueInstruction, IssueWith, Issues
  <2>2. ~rob[t].ready
    BY <2>1 DEF PlaceInv, InOnePlace, WorkInPlace
  <2>3. UNCHANGED <<memory, values>>
    BY <1>4 DEF IssueMisaligned, IssueInstruction, IssueWith, prfVars
  <2> QED
    BY <2>1, <2>2, <2>3, Replaced
<1>5. CASE \/ CommitFault \/ Tick \/ CompleteSkip \/ Select \/ IssueSkip \/ IssueDone
           \/ RenameDone \/ FetchWait \/ Fetch \/ FetchDone \/ Ended \/ UNCHANGED vars
  BY <1>5 DEF CommitFault, Tick, CompleteSkip, Select, IssueSkip, IssueDone,
       RenameDone, FetchWait, Fetch, FetchWith, FetchDone, Ended, vars, robVars
<1> QED
  BY <1>1, <1>2, <1>3, <1>4, <1>5 DEF Next

(* Nothing but a completion writes a register. *)
LEMMA OnlyCompletionWrites ==
  ASSUME TypeOK, PlaceInv, [Next]_vars
  PROVE  values' = values \/ \E u \in InFlight : Finishes(u)
<1>1. CASE CompleteInstruction \/ CompleteRecovering
  BY <1>1, CompletionFinishes
<1>2. CASE RenameInstruction
  BY <1>2 DEF RenameInstruction, markNotReady, prfVars
<1>3. CASE ~RenameInstruction /\ ~CompleteInstruction /\ ~CompleteRecovering
  BY <1>3 DEF Next, CommitInstruction, CommitEcall, CommitFault, Tick, CompleteSkip,
         Select, IssueSkip, IssueMisaligned, IssueInstruction, IssueWith, IssueDone,
         RenameDone, FetchWait, Fetch, FetchWith, FetchDone, Ended, vars, prfVars
<1> QED
  BY <1>1, <1>2, <1>3

-----------------------------------------------------------------------------
(* Operands are read only when they are there *)

OperandsReady(s) == PrfReady(rob[s].src1Phys) /\ PrfReady(rob[s].src2Phys)

(* Whoever has been issued, or is about to be, has both its operands.      *)
StartedReady ==
  /\ \A s \in InFlight : rob[s].issued \/ rob[s].ready => OperandsReady(s)
  /\ stage = "issue" => \A s \in work : OperandsReady(s)

LEMMA ReadyRemains ==
  ASSUME TypeOK, [Next]_vars, NEW p \in Phys, PrfReady(p),
         RenameInstruction /\ hasDest(Head(fetchQueue)) => p # NextFree
  PROVE  PrfReady(p)'
<1>1. CASE RenameInstruction
  BY <1>1, RenameAdds DEF markNotReady, PrfReady, TypeOK, PrfTypeOK
<1>2. CASE CompleteInstruction \/ CompleteRecovering
  <2>1. PICK s \in InFlight : WriteBack(rob[s])
    BY <1>2 DEF CompleteInstruction, CompleteRecovering, Completes
  <2> QED
    BY <2>1 DEF WriteBack, write, PrfReady, TypeOK, PrfTypeOK, prfVars
<1>3. CASE ~RenameInstruction /\ ~CompleteInstruction /\ ~CompleteRecovering
  <2>1. readyBits' = readyBits
    BY <1>3 DEF Next, CommitInstruction, CommitEcall, CommitFault, Tick, CompleteSkip,
         Select, IssueSkip, IssueMisaligned, IssueInstruction, IssueWith, IssueDone,
         RenameDone, FetchWait, Fetch, FetchWith, FetchDone, Ended, vars, prfVars
  <2> QED
    BY <2>1 DEF PrfReady
<1> QED
  BY <1>1, <1>2, <1>3

LEMMA OperandsStayReady ==
  ASSUME TypeOK, RegistersDisjoint, SourceInv, DestinationInv, [Next]_vars,
         NEW s \in InFlight, OperandsReady(s),
         rob'[s].src1Phys = rob[s].src1Phys, rob'[s].src2Phys = rob[s].src2Phys
  PROVE  OperandsReady(s)'
<1>1. Sources(s) \subseteq Phys
  BY ReadyTypes
<1>2. RenameInstruction /\ hasDest(Head(fetchQueue)) => NextFree \notin Sources(s)
  <2>1. RenameInstruction /\ hasDest(Head(fetchQueue)) => NextFree \in Range(freeList)
    BY RenameAdds, AllocatedIsFree DEF SourceInv, DestinationInv
  <2> QED
    BY <2>1 DEF SourceInv, SourcesKept
<1> QED
  BY <1>1, <1>2, ReadyRemains DEF OperandsReady, Sources

(* Nothing writes register 0, which nobody waits for. *)
LEMMA ZeroFound ==
  ASSUME EntriesConsistent, ZeroFixed, NEW n
  PROVE  MapBefore(n, 0) = 0
<1>1. WritersFrom(n, 0) = {}
  BY DEF EntriesConsistent, WritersFrom, Writers, hasDest
<1> QED
  BY <1>1 DEF MapBefore, ZeroFixed

LEMMA SelectedReady ==
  ASSUME SourceInv, DestinationInv, OperandsNamed, NEW s \in selectReady
  PROVE  s \in InFlight /\ OperandsReady(s)
<1>1. Selectable(s)
  BY DEF selectReady
<1>2. s \in InFlight
  BY <1>1 DEF Selectable
<1>3. rob[s].inst.rs1 = 0 => PrfReady(rob[s].src1Phys)
  BY <1>2, ZeroFound DEF OperandsNamed, PrfReady, SourceInv, DestinationInv
<1>4. rob[s].inst.rs2 = 0 => PrfReady(rob[s].src2Phys)
  BY <1>2, ZeroFound DEF OperandsNamed, PrfReady, SourceInv, DestinationInv
<1> QED
  BY <1>1, <1>2, <1>3, <1>4 DEF Selectable, OperandsReady

(* Who has started after a step had started before, or was about to. *)
LEMMA StepsStart ==
  ASSUME TypeOK, PlaceInv, [Next]_vars,
         NEW s \in InFlight', s \in InFlight, rob'[s].issued \/ rob'[s].ready
  PROVE  \/ rob[s].issued \/ rob[s].ready
         \/ stage = "issue" /\ s \in work
BY EntryChanges DEF Finishes

(* Whom the issue loop will visit it was to visit before, but for Select.  *)
LEMMA StepsSelect ==
  ASSUME TypeOK, [Next]_vars, stage' = "issue"
  PROVE  \/ work' = selectReady /\ UNCHANGED <<rob, readyBits>>
         \/ stage = "issue" /\ work' \subseteq work /\ ~RenameInstruction
<1>1. CASE Select
  BY <1>1 DEF Select, robVars, prfVars
<1>2. CASE IssueSkip \/ IssueMisaligned \/ IssueInstruction \/ UNCHANGED vars
  <2>1. stage = "issue" /\ work' \subseteq work
    BY <1>2 DEF IssueSkip, IssueMisaligned, IssueInstruction, IssueWith, vars, loopVars
  <2> QED
    BY <2>1 DEF RenameInstruction
<1>3. CASE ~Select /\ ~(IssueSkip \/ IssueMisaligned \/ IssueInstruction \/ UNCHANGED vars)
  BY <1>3 DEF Next, CommitInstruction, CommitEcall, CommitFault, Tick, CompleteSkip,
         CompleteInstruction, CompleteRecovering, IssueDone, RenameInstruction, RenameDone,
         FetchWait, Fetch, FetchWith, FetchDone, Ended, GoTo, NextCycle
<1> QED
  BY <1>1, <1>2, <1>3

LEMMA StartedInvariant == Pipeline => []StartedReady
<1>1. Init => StartedReady
  BY NoEntriesPartial DEF Init, RobInit, InFlight, StartedReady
<1>2. TypeOK /\ PlaceInv /\ RegistersDisjoint /\ SourceInv /\ DestinationInv /\ OperandsNamed
        /\ PlaceInv' /\ StartedReady /\ [Next]_vars => StartedReady'
  <2> SUFFICES ASSUME TypeOK, PlaceInv, RegistersDisjoint, SourceInv, DestinationInv,
                      OperandsNamed, PlaceInv', StartedReady, [Next]_vars
               PROVE  StartedReady'
    OBVIOUS
  <2>1. \A s \in InFlight' : s \in InFlight =>
          /\ rob'[s].src1Phys = rob[s].src1Phys
          /\ rob'[s].src2Phys = rob[s].src2Phys
          /\ OperandsReady(s) => OperandsReady(s)'
    BY RenameAdds, StepsKeepEntries, OperandsStayReady DEF SameEntries
  <2>2. ASSUME NEW s \in InFlight', rob'[s].issued \/ rob'[s].ready
        PROVE  OperandsReady(s)'
    <3>1. CASE RenameInstruction
      <4>1. s \in InFlight /\ rob'[s] = rob[s]
        <5>1. ~RobEntry(Head(fetchQueue)).issued /\ ~RobEntry(Head(fetchQueue)).ready
          BY DEF RobEntry
        <5> QED
          BY <2>2, <3>1, <5>1, RenameAdds
      <4> QED
        BY <2>1, <2>2, <4>1 DEF StartedReady
    <3>2. CASE ~RenameInstruction
      <4>1. s \in InFlight
        BY <3>2, StepsKeepEntries DEF SameEntries
      <4> QED
        BY <2>1, <2>2, <3>2, <4>1, StepsStart DEF StartedReady
    <3> QED
      BY <3>1, <3>2
  <2>3. ASSUME stage' = "issue", NEW s \in work'
        PROVE  OperandsReady(s)'
    <3>1. s \in InFlight'
      BY <2>3 DEF PlaceInv, InOnePlace, WorkInPlace
    <3>2. CASE work' = selectReady /\ UNCHANGED <<rob, readyBits>>
      BY <2>3, <3>2, SelectedReady DEF OperandsReady, PrfReady
    <3>3. CASE stage = "issue" /\ work' \subseteq work /\ ~RenameInstruction
      <4>1. s \in InFlight
        BY <3>1, <3>3, StepsKeepEntries DEF SameEntries
      <4> QED
        BY <2>1, <2>3, <3>1, <3>3, <4>1 DEF StartedReady
    <3> QED
      BY <2>3, <3>2, <3>3, StepsSelect
  <2> QED
    BY <2>2, <2>3 DEF StartedReady
<1> QED
  BY <1>1, <1>2, TypeCorrect, PlaceInvariant, RegistersNeverShared, SourceInvariant,
     DestinationInvariant, OperandsFollowProgramOrder, PTL DEF Pipeline

-----------------------------------------------------------------------------
(* Operands keep their values, and results stay what they were computed to *)

(* Everything about registers that the values depend on. *)
RegisterInv ==
  /\ TypeOK /\ PlaceInv /\ RegistersDisjoint /\ SourceInv /\ DestinationInv
  /\ ReadyInv /\ OldestExists /\ CheckpointUndoesYounger /\ OperandsNamed /\ StartedReady

LEMMA RegisterInvariant == Pipeline => []RegisterInv
BY TypeCorrect, PlaceInvariant, RegistersNeverShared, SourceInvariant, DestinationInvariant,
   ReadyInvariant, OldestInvariant, RecoveryForgetsExactlyTheFlushed, OperandsFollowProgramOrder,
   StartedInvariant, PTL DEF RegisterInv

(* A completion changes no register but the destination. *)
LEMMA OthersKeepValues ==
  ASSUME TypeOK, NEW u, Finishes(u), NEW p \in Phys, rob[u].hasDest => p # rob[u].destPhys
  PROVE  values'[p] = values[p]
BY DEF Finishes, WriteBack, write, prfVars, TypeOK, PrfTypeOK

(* Nobody in flight writes an operand that is there. *)
LEMMA ReadyOperandsUnwritten ==
  ASSUME RegisterInv, NEW s \in InFlight, OperandsReady(s),
         NEW u \in InFlight, ~rob[u].ready, rob[u].hasDest
  PROVE  rob[u].destPhys \notin Sources(s)
<1>1. s \in Nat /\ u \in Nat
  BY SeqsBelow DEF RegisterInv
<1>2. CASE u < s
  <2>1. \A p \in Sources(s) : PrfReady(p) /\ ReadyAt(p, s)
    BY DEF OperandsReady, Sources, RegisterInv, ReadyInv
  <2> QED
    BY <1>2, <2>1 DEF ReadyAt, AwaitedBelow, Writers, Pending
<1>3. CASE u = s
  BY <1>3, OperandTypesOf DEF RegisterInv, OperandsNamed, Sources
<1>4. CASE s < u
  BY <1>4 DEF RegisterInv, SourceInv, SourcesKept
<1> QED
  BY <1>1, <1>2, <1>3, <1>4

(* What an instruction whose operands are there computes from them. *)
LEMMA OperandValuesStay ==
  ASSUME RegisterInv, [Next]_vars, NEW s \in InFlight', s \in InFlight, OperandsReady(s)
  PROVE  /\ rob'[s].inst = rob[s].inst
         /\ Src1(rob[s])' = Src1(rob[s]) /\ Src2(rob[s])' = Src2(rob[s])
         /\ accessAddress(rob[s])' = accessAddress(rob[s])
         /\ misaligned(rob[s])' <=> misaligned(rob[s])
         /\ actualTaken(rob[s])' <=> actualTaken(rob[s])
         /\ actualTarget(rob[s])' = actualTarget(rob[s])
<1>1. /\ rob'[s].inst = rob[s].inst
      /\ rob'[s].src1Phys = rob[s].src1Phys /\ rob'[s].src2Phys = rob[s].src2Phys
  BY RenameAdds, StepsKeepEntries DEF SameEntries, RegisterInv
<1>2. \A p \in Sources(s) : values'[p] = values[p]
  <2>1. CASE values' = values
    BY <2>1
  <2>2. ASSUME NEW u \in InFlight, Finishes(u)
        PROVE  \A p \in Sources(s) : values'[p] = values[p]
    BY <2>2, ReadyOperandsUnwritten, ReadyTypes, OthersKeepValues DEF Finishes, RegisterInv
  <2> QED
    BY <2>1, <2>2, OnlyCompletionWrites DEF RegisterInv
<1>3. Src1(rob[s])' = Src1(rob[s]) /\ Src2(rob[s])' = Src2(rob[s])
  BY <1>1, <1>2 DEF Src1, Src2, read, Sources
<1> QED
  BY <1>1, <1>3 DEF accessAddress, misaligned, actualTaken, actualTarget

(* An instruction is marked faulty exactly if it is illegal or misaligned. *)
FaultsExact ==
  \A s \in InFlight :
    /\ rob[s].exception => rob[s].inst.op = "Illegal" \/ misaligned(rob[s])
    /\ Completed(s) => rob[s].inst.op # "Illegal"
    /\ rob[s].issued \/ rob[s].ready => rob[s].exception \/ ~misaligned(rob[s])

-----------------------------------------------------------------------------
(* What a load reads *)

LEMMA AddressSums ==
  ASSUME NEW x \in Word
  PROVE  /\ WordAdd(x, 0) = x
         /\ WordAdd(WordAdd(x, 2), 1) = WordAdd(x, 3)
<1>1. x \in Nat /\ x < WordMod /\ WordMod \in Nat /\ WordMod > 1
  BY WordAssumption DEF Word
<1>2. x % WordMod = x
  BY <1>1
<1>3. (((x + 2) % WordMod) + 1) % WordMod = (x + 3) % WordMod
  <2> DEFINE q == (x + 2) \div WordMod
             r == (x + 2) % WordMod
  <2>1. x + 2 = WordMod * q + r /\ r \in 0 .. WordMod - 1 /\ q \in Int
    BY <1>1
  <2> HIDE DEF q, r
  <2>2. CASE r + 1 < WordMod
    <3>1. (r + 1) % WordMod = r + 1
      BY <1>1, <2>1, <2>2
    <3>2. (x + 3) % WordMod = r + 1
      BY <1>1, <2>1, <2>2
    <3> QED
      BY <3>1, <3>2 DEF r
  <2>3. CASE r + 1 = WordMod
    <3>1. (r + 1) % WordMod = 0
      BY <1>1, <2>1, <2>3
    <3>2. (x + 3) % WordMod = 0
      BY <1>1, <2>1, <2>3
    <3> QED
      BY <3>1, <3>2 DEF r
  <2> QED
    BY <1>1, <2>1, <2>2, <2>3
<1> QED
  BY <1>1, <1>2, <1>3 DEF WordAdd

(* A load depends on the bytes it accesses only. *)
LEMMA LoadReads ==
  ASSUME NEW m, NEW m2, NEW op \in Loads, NEW x \in Word,
         \A k \in 0 .. memorySizeBytes(op) - 1 :
           read8(m2, WordAdd(x, k)) = read8(m, WordAdd(x, k))
  PROVE  loadValue(m2, x, op) = loadValue(m, x, op)
<1>1. WordAdd(x, 0) = x /\ WordAdd(WordAdd(x, 2), 1) = WordAdd(x, 3)
  BY AddressSums
<1>2. CASE op \in {"Lb", "Lbu"}
  <2>1. read8(m2, x) = read8(m, x)
    BY <1>1, <1>2 DEF memorySizeBytes
  <2> QED
    BY <1>2, <2>1 DEF loadValue
<1>3. CASE op \in {"Lh", "Lhu"}
  <2>1. read8(m2, x) = read8(m, x) /\ read8(m2, WordAdd(x, 1)) = read8(m, WordAdd(x, 1))
    BY <1>1, <1>3 DEF memorySizeBytes
  <2> QED
    BY <1>3, <2>1 DEF loadValue, read16
<1>4. CASE op = "Lw"
  <2>1. /\ read8(m2, x) = read8(m, x)
        /\ read8(m2, WordAdd(x, 1)) = read8(m, WordAdd(x, 1))
        /\ read8(m2, WordAdd(x, 2)) = read8(m, WordAdd(x, 2))
        /\ read8(m2, WordAdd(x, 3)) = read8(m, WordAdd(x, 3))
    BY <1>1, <1>4 DEF memorySizeBytes
  <2> QED
    BY <1>1, <1>4, <2>1 DEF loadValue, read32, read16
<1> QED
  BY <1>2, <1>3, <1>4 DEF Loads

(* A write leaves all other bytes. *)
LEMMA WriteLeaves ==
  ASSUME NEW m, NEW x, NEW v, NEW size, NEW y,
         y \notin {WordAdd(x, k) : k \in 0 .. size - 1}
  PROVE  read8(Written(m, x, v, size), y) = read8(m, y)
BY DEF read8, Written

(* Only the commit of a store changes memory. *)
LEMMA OnlyCommitStores ==
  ASSUME [Next]_vars
  PROVE  \/ memory' = memory
         \/ \E h \in InFlight :
              /\ IsHead(h) /\ Completed(h) /\ rob[h].inst.op \in Stores
              /\ storeValue(rob[h].storeAddress, rob[h].storeData,
                            memorySizeBytes(rob[h].inst.op))
              /\ h \notin InFlight'
<1>1. CASE CommitInstruction
  <2>1. PICK h \in InFlight :
          /\ IsHead(h) /\ Completed(h)
          /\ IF rob[h].inst.op \in Stores
               THEN storeValue(rob[h].storeAddress, rob[h].storeData,
                               memorySizeBytes(rob[h].inst.op))
               ELSE UNCHANGED memory
          /\ rob' = Only(rob, InFlight \ {h})
    BY <1>1 DEF CommitInstruction, Commits, Faults, Completed, popHead
  <2> QED
    BY <2>1, Dropped
<1>2. CASE ~CommitInstruction
  BY <1>2 DEF Next, CommitEcall, CommitFault, Tick, CompleteSkip, CompleteInstruction,
         CompleteRecovering, Select, IssueSkip, IssueMisaligned, IssueInstruction,
         IssueWith, IssueDone, RenameInstruction, RenameDone, FetchWait, Fetch, FetchWith,
         FetchDone, Ended, vars
<1> QED
  BY <1>1, <1>2

LEMMA FaultsStep == RegisterInv /\ FaultsExact /\ [Next]_vars => FaultsExact'
<1> SUFFICES ASSUME RegisterInv, FaultsExact, [Next]_vars, NEW s \in InFlight'
             PROVE  /\ rob'[s].exception => rob'[s].inst.op = "Illegal" \/ misaligned(rob[s])'
                    /\ Completed(s)' => rob'[s].inst.op # "Illegal"
                    /\ rob'[s].issued \/ rob'[s].ready
                         => rob'[s].exception \/ ~misaligned(rob[s])'
  BY DEF FaultsExact
<1>1. TypeOK /\ PlaceInv /\ StartedReady /\ EntriesConsistent
  BY DEF RegisterInv, DestinationInv
<1>2. CASE s \notin InFlight
  <2>1. RenameInstruction
    BY <1>1, <1>2, StepsKeepEntries DEF SameEntries
  <2>2. rob'[s] = RobEntry(Head(fetchQueue))
    BY <1>1, <1>2, <2>1, RenameAdds
  <2>3. LET e == RobEntry(Head(fetchQueue)) IN ~e.exception /\ ~e.ready /\ ~e.issued
    BY DEF RobEntry
  <2> QED
    BY <2>2, <2>3 DEF Completed
<1>3. CASE s \in InFlight
  <2>1. OperandsReady(s) => /\ rob'[s].inst = rob[s].inst
                            /\ misaligned(rob[s])' <=> misaligned(rob[s])
    BY <1>3, OperandValuesStay
  <2>2. rob[s].issued \/ rob[s].ready => OperandsReady(s)
    BY <1>1, <1>3 DEF StartedReady
  <2>3. CASE rob'[s] = rob[s]
    BY <1>1, <1>3, <2>1, <2>2, <2>3 DEF FaultsExact, Completed, EntriesConsistent
  <2>4. CASE /\ ~rob[s].ready /\ stage = "issue" /\ s \in work
             /\ \/ rob'[s] = Issued(rob[s]) /\ ~misaligned(rob[s])
                \/ rob'[s] = Faulted(rob[s]) /\ misaligned(rob[s])
    <3>1. OperandsReady(s) /\ ~rob[s].exception
      BY <1>1, <1>3, <2>4 DEF StartedReady, EntriesConsistent
    <3>2. CASE rob'[s] = Issued(rob[s]) /\ ~misaligned(rob[s])
      <4>1. ~rob'[s].exception /\ ~rob'[s].ready
        BY <1>1, <1>3, <2>4, <3>1, <3>2, EntryAfter
      <4> QED
        BY <2>1, <3>1, <3>2, <4>1 DEF Completed
    <3>3. CASE rob'[s] = Faulted(rob[s]) /\ misaligned(rob[s])
      <4>1. rob'[s].exception
        BY <1>1, <1>3, <3>3, EntryAfter
      <4> QED
        BY <2>1, <3>1, <3>3, <4>1 DEF Completed
    <3> QED
      BY <2>4, <3>2, <3>3
  <2>5. CASE Finishes(s)
    <3>1. OperandsReady(s) /\ ~rob[s].exception /\ ~misaligned(rob[s])
      BY <1>1, <1>3, <2>2, <2>5 DEF Finishes, FaultsExact, EntriesConsistent
    <3>2. /\ rob'[s].ready /\ rob'[s].inst = rob[s].inst
          /\ rob'[s].exception = (rob[s].inst.op = "Illegal")
      <4>1. rob'[s] = Executed(rob[s])
        BY <2>5 DEF Finishes
      <4>2. Executed(rob[s]).exception = (rob[s].exception \/ rob[s].inst.op = "Illegal")
        BY <1>1, <1>3, EntryAfter
      <4>3. Executed(rob[s]).ready /\ Executed(rob[s]).inst = rob[s].inst
        BY <1>1, <1>3, EntryAfter
      <4> QED
        BY <3>1, <4>1, <4>2, <4>3
    <3> QED
      BY <2>1, <3>1, <3>2 DEF Completed
  <2> QED
    BY <1>1, <1>3, <2>3, <2>4, <2>5, EntryChanges
<1> QED
  BY <1>2, <1>3

-----------------------------------------------------------------------------
(* Results *)

(* The fields a completion writes. *)
LEMMA ExecutedStore ==
  ASSUME TypeOK, NEW s \in InFlight, rob[s].inst.op \in Stores
  PROVE  /\ Executed(rob[s]).storeAddress = accessAddress(rob[s])
         /\ Executed(rob[s]).storeData = Src2(rob[s])
BY EntryType DEF Executed, Entry

(* An instruction computes the same in every later state.                  *)
LEMMA ResultStays ==
  ASSUME RegisterInv, ResultsExact, LoadsFollowStores, [Next]_vars,
         NEW s \in InFlight', s \in InFlight, OperandsReady(s),
         memory' = memory \/ Completed(s)
  PROVE  Result(rob[s])' = Result(rob[s])
<1>1. /\ rob'[s].inst = rob[s].inst
      /\ Src1(rob[s])' = Src1(rob[s]) /\ Src2(rob[s])' = Src2(rob[s])
      /\ accessAddress(rob[s])' = accessAddress(rob[s])
  BY OperandValuesStay
<1>2. CASE rob[s].inst.op \notin Loads
  BY <1>1, <1>2 DEF Result
<1>3. CASE rob[s].inst.op \in Loads
  <2> DEFINE x == accessAddress(rob[s])
             op == rob[s].inst.op
  <2>1. loadValue(memory', x, op) = loadValue(memory, x, op)
    <3>1. CASE memory' = memory
      BY <3>1
    <3>2. ASSUME Completed(s),
                 NEW h \in InFlight, IsHead(h), Completed(h), rob[h].inst.op \in Stores,
                 storeValue(rob[h].storeAddress, rob[h].storeData,
                            memorySizeBytes(rob[h].inst.op)),
                 h \notin InFlight'
          PROVE  loadValue(memory', x, op) = loadValue(memory, x, op)
      <4>1. h < s
        <5>1. h <= s /\ h # s
          BY <3>2 DEF IsHead
        <5> QED
          BY <5>1, SeqsBelow DEF RegisterInv
      <4>2. BytesOf(rob[s]) \cap BytesOf(rob[h]) = {}
        BY <1>3, <3>2, <4>1 DEF LoadsFollowStores
      <4>3. memory' = Written(memory, accessAddress(rob[h]), rob[h].storeData,
                              memorySizeBytes(rob[h].inst.op))
        BY <3>2 DEF ResultsExact, storeValue
      <4>4. \A k \in 0 .. memorySizeBytes(op) - 1 :
              read8(memory', WordAdd(x, k)) = read8(memory, WordAdd(x, k))
        <5> SUFFICES ASSUME NEW k \in 0 .. memorySizeBytes(op) - 1
                     PROVE  read8(memory', WordAdd(x, k)) = read8(memory, WordAdd(x, k))
          OBVIOUS
        <5>1. WordAdd(x, k) \in BytesOf(rob[s])
          BY DEF BytesOf
        <5>2. WordAdd(x, k) \notin BytesOf(rob[h])
          BY <4>2, <5>1
        <5> QED
          BY <4>3, <5>2, WriteLeaves DEF BytesOf
      <4>5. x \in Word
        BY OperandTypes DEF RegisterInv
      <4> HIDE DEF x, op
      <4> QED
        BY <1>3, <4>4, <4>5, LoadReads DEF op
    <3> QED
      BY <3>1, <3>2, OnlyCommitStores
  <2> QED
    BY <1>1, <1>3, <2>1 DEF Result
<1> QED
  BY <1>2, <1>3

(* No completion overwrites a result. *)
LEMMA DestinationsStayWritten ==
  ASSUME RegisterInv, [Next]_vars, NEW s \in InFlight, rob[s].ready, rob[s].hasDest
  PROVE  values'[rob[s].destPhys] = values[rob[s].destPhys]
<1>1. rob[s].destPhys \in Phys
  BY DEF RegisterInv, DestinationInv, DestinationsKept, Writers
<1>2. ASSUME NEW u \in InFlight, Finishes(u)
      PROVE  values'[rob[s].destPhys] = values[rob[s].destPhys]
  <2>1. u # s
    BY <1>2 DEF Finishes
  <2>2. u < s \/ s < u
    BY <2>1, SeqsBelow DEF RegisterInv
  <2>3. rob[u].hasDest => rob[s].destPhys # rob[u].destPhys
    BY <2>2 DEF RegisterInv, DestinationInv, DestinationsKept, Writers
  <2> QED
    BY <1>1, <1>2, <2>3, OthersKeepValues DEF RegisterInv
<1> QED
  BY <1>2, OnlyCompletionWrites DEF RegisterInv

LEMMA ResultsStep ==
  RegisterInv /\ ResultsExact /\ LoadsFollowStores /\ [Next]_vars => ResultsExact'
<1> SUFFICES ASSUME RegisterInv, ResultsExact, LoadsFollowStores, [Next]_vars,
                    NEW s \in InFlight', Completed(s)'
             PROVE  /\ rob'[s].hasDest => read(rob[s].destPhys)' = Result(rob[s])'
                    /\ rob'[s].inst.op \in Stores =>
                         /\ rob'[s].storeAddress = accessAddress(rob[s])'
                         /\ rob'[s].storeData = Src2(rob[s])'
  BY DEF ResultsExact
<1>1. TypeOK /\ PlaceInv /\ StartedReady
  BY DEF RegisterInv
<1>2. s \in InFlight
  <2>1. CASE RenameInstruction
    <3>1. ~RobEntry(Head(fetchQueue)).ready
      BY DEF RobEntry
    <3> QED
      BY <1>1, <2>1, <3>1, RenameAdds DEF Completed
  <2>2. CASE ~RenameInstruction
    BY <1>1, <2>2, StepsKeepEntries DEF SameEntries
  <2> QED
    BY <2>1, <2>2
<1>3. CASE rob'[s] = rob[s]
  <2>1. Completed(s) /\ OperandsReady(s)
    BY <1>1, <1>2, <1>3 DEF Completed, StartedReady
  <2>2. /\ Src2(rob[s])' = Src2(rob[s])
        /\ accessAddress(rob[s])' = accessAddress(rob[s])
    BY <1>2, <2>1, OperandValuesStay
  <2>3. rob[s].hasDest => read(rob[s].destPhys)' = read(rob[s].destPhys)
    BY <1>2, <1>3, <2>1, DestinationsStayWritten DEF Completed, read
  <2>4. Result(rob[s])' = Result(rob[s])
    BY <1>2, <2>1, ResultStays
  <2> QED
    BY <1>2, <1>3, <2>1, <2>2, <2>3, <2>4 DEF ResultsExact
<1>4. CASE /\ ~rob[s].ready
           /\ rob'[s] = Issued(rob[s]) \/ rob'[s] = Faulted(rob[s])
  <2>1. ~Completed(s)'
    BY <1>1, <1>2, <1>4, EntryAfter DEF Completed
  <2> QED
    BY <2>1
<1>5. CASE Finishes(s)
  <2>1. OperandsReady(s) /\ memory' = memory
    BY <1>1, <1>5 DEF Finishes, StartedReady, CompleteInstruction, CompleteRecovering
  <2>2. /\ rob'[s].inst = rob[s].inst
        /\ Src2(rob[s])' = Src2(rob[s])
        /\ accessAddress(rob[s])' = accessAddress(rob[s])
    BY <1>2, <2>1, OperandValuesStay
  <2>3. Result(rob[s])' = Result(rob[s])
    BY <1>2, <2>1, ResultStays
  <2>4. /\ rob'[s].hasDest = rob[s].hasDest /\ rob'[s].destPhys = rob[s].destPhys
    BY <1>1, <1>2, <1>5, EntryAfter DEF Finishes
  <2>5. rob[s].hasDest => values'[rob[s].destPhys] = Result(rob[s])
    <3>1. rob[s].hasDest => rob[s].destPhys \in Phys \ {0}
      BY <1>2 DEF RegisterInv, DestinationInv, DestinationsKept, Writers
    <3> QED
      BY <1>1, <1>5, <3>1 DEF Finishes, WriteBack, write, TypeOK, PrfTypeOK
  <2>6. rob'[s].inst.op \in Stores => /\ rob'[s].storeAddress = accessAddress(rob[s])
                                      /\ rob'[s].storeData = Src2(rob[s])
    BY <1>1, <1>2, <1>5, <2>2, ExecutedStore DEF Finishes
  <2> QED
    BY <2>2, <2>3, <2>4, <2>5, <2>6 DEF read
<1> QED
  BY <1>1, <1>2, <1>3, <1>4, <1>5, EntryChanges

(* Faults are exact whatever the program; results, as long as no load has  *)
(* executed ahead of a store it depends on.                                *)
LEMMA FaultsInvariant == Pipeline => []FaultsExact
<1>1. Init => FaultsExact
  BY NoEntriesPartial DEF Init, RobInit, InFlight, FaultsExact
<1> QED
  BY <1>1, FaultsStep, RegisterInvariant, PTL DEF Pipeline

(* As long as no load executes ahead of an older store to its bytes, what  *)
(* a completed instruction wrote is what it computes from its sources and  *)
(* the memory, until it commits.                                           *)
THEOREM ResultsAreKept == Pipeline /\ []LoadsFollowStores => []ResultsExact
<1>1. Init => ResultsExact
  BY NoEntriesPartial DEF Init, RobInit, InFlight, ResultsExact
<1> QED
  BY <1>1, ResultsStep, RegisterInvariant, PTL DEF Pipeline

-----------------------------------------------------------------------------
(* The in-order machine *)

(* Instruction i is what program prog has at its pc, a prediction that it   *)
(* is not taken goes to the next address, and that of a JAL is right.      *)
FromProgram(prog, i) ==
  LET d == InstrAt(prog, i.pc) IN
  /\ i.op = d.op /\ i.rd = d.rd /\ i.rs1 = d.rs1 /\ i.rs2 = d.rs2 /\ i.imm = d.imm
  /\ i.op \notin ControlOps => ~i.predictedTaken
  /\ ~i.predictedTaken => i.predictedTarget = WordAdd(i.pc, 4)
  /\ i.op = "Jal" => i.predictedTaken /\ i.predictedTarget = WordAdd(i.pc, i.imm)

(* What is in the pipeline was fetched there. *)
InstsFromProgram ==
  /\ \A s \in InFlight : /\ FromProgram(program, rob[s].inst)
                         /\ rob[s].hasCheckpoint = (rob[s].inst.op \in ControlOps)
  /\ \A k \in 1 .. Len(fetchQueue) : FromProgram(program, fetchQueue[k])

-----------------------------------------------------------------------------
(* The front end *)

LEMMA FrontSteps ==
  ASSUME [Next]_vars
  PROVE  /\ program' = program
         /\ \/ UNCHANGED <<fetchQueue, pc>> /\ ~RenameInstruction /\ ~CompleteRecovering
            \/ Fetch
            \/ CompleteRecovering /\ fetchQueue' = << >>
            \/ /\ RenameInstruction /\ fetchQueue # << >> /\ pc' = pc
               /\ fetchQueue' = Popped(Head(fetchQueue))
<1>1. CASE Fetch
  BY <1>1 DEF Fetch, FetchWith
<1>2. CASE CompleteRecovering
  BY <1>2 DEF CompleteRecovering, FetchFlush
<1>3. CASE RenameInstruction
  BY <1>3 DEF RenameInstruction, CanRename
<1>4. CASE ~Fetch /\ ~CompleteRecovering /\ ~RenameInstruction
  BY <1>4 DEF Next, CommitInstruction, CommitEcall, CommitFault, Tick, CompleteSkip,
         CompleteInstruction, Select, IssueSkip, IssueMisaligned, IssueInstruction,
         IssueWith, IssueDone, RenameDone, FetchWait, FetchDone, Ended, vars, frontVars
<1> QED
  BY <1>1, <1>2, <1>3, <1>4

(* What a fetch appends. *)
LEMMA FetchAppends ==
  ASSUME TypeOK, Fetch
  PROVE  \E i : /\ i \in Fetched /\ FromProgram(program, i) /\ i.pc = pc
                /\ pc' = i.predictedTarget /\ UNCHANGED rob
                /\ fetchQueue' = Append(fetchQueue, i)
<1>1. PICK p \in PredictionsFor(InstrAt(program, pc)) :
        /\ fetchQueue' = Append(fetchQueue, WithPrediction(InstrAt(program, pc), p))
        /\ pc' = p.target
        /\ UNCHANGED rob
  BY DEF Fetch, FetchWith, FetchInstruction, robVars
<1> DEFINE d == InstrAt(program, pc)
           i == WithPrediction(d, p)
<1>2. d \in Decoded /\ pc \in Word
  BY InstrAtType DEF TypeOK, FrontTypeOK
<1>3. p.taken \in BOOLEAN /\ p.target \in Word
  BY PredictionType
<1>4. /\ d.op \notin ControlOps => ~p.taken
      /\ ~p.taken => p.target = WordAdd(pc, 4)
      /\ d.op = "Jal" => p.taken /\ p.target = WordAdd(pc, d.imm)
  <2>1. CASE d.op \in Branches \cup {"Jalr"}
    <3>1. p \in Predictions(pc)
      BY <2>1 DEF PredictionsFor
    <3>2. d.op \in ControlOps /\ d.op # "Jal"
      BY <2>1 DEF ControlOps, Branches, Jumps
    <3>3. ~p.taken => p.target = WordAdd(pc, 4)
      BY <3>1 DEF Predictions
    <3> QED
      BY <3>2, <3>3
  <2>2. CASE d.op \notin Branches \cup {"Jalr"}
    BY <2>2 DEF PredictionsFor, ControlOps, Jumps
  <2> QED
    BY <2>1, <2>2
<1>5. /\ i.op = d.op /\ i.rd = d.rd /\ i.rs1 = d.rs1 /\ i.rs2 = d.rs2 /\ i.imm = d.imm
      /\ i.pc = pc /\ i.predictedTaken = p.taken /\ i.predictedTarget = p.target
  BY DEF WithPrediction
<1>6. i \in Fetched
  BY <1>2, <1>3 DEF WithPrediction, Decoded, Fetched
<1> HIDE DEF d
<1>7. FromProgram(program, i)
  BY <1>4, <1>5 DEF FromProgram, d
<1> HIDE DEF i
<1> QED
  BY <1>1, <1>5, <1>6, <1>7 DEF i, d

(* The queue after a fetch and after a rename. *)
LEMMA Appended ==
  ASSUME NEW q \in Seq(Fetched), NEW i \in Fetched
  PROVE  /\ Len(Append(q, i)) = Len(q) + 1 /\ Len(q) \in Nat
         /\ \A k \in 1 .. Len(q) : Append(q, i)[k] = q[k]
         /\ Append(q, i)[Len(q) + 1] = i
         /\ Append(q, i) # << >>
         /\ Head(Append(q, i)) = IF q = << >> THEN i ELSE Head(q)
<1>1. /\ Len(Append(q, i)) = Len(q) + 1 /\ Len(q) \in Nat
      /\ \A k \in 1 .. Len(q) : Append(q, i)[k] = q[k]
      /\ Append(q, i)[Len(q) + 1] = i
      /\ Append(q, i) \in Seq(Fetched)
  OBVIOUS
<1>2. Append(q, i) # << >> /\ Head(Append(q, i)) = Append(q, i)[1]
  BY <1>1
<1>3. CASE q = << >>
  BY <1>1, <1>2, <1>3
<1>4. CASE q # << >>
  <2>1. 1 \in 1 .. Len(q) /\ Head(q) = q[1]
    BY <1>4
  <2> QED
    BY <1>1, <1>2, <1>4, <2>1
<1> QED
  BY <1>1, <1>2, <1>3, <1>4

LEMMA Tailed ==
  ASSUME NEW q \in Seq(Fetched), q # << >>
  PROVE  /\ Len(Tail(q)) = Len(q) - 1 /\ Len(q) \in Nat \ {0}
         /\ \A k \in 1 .. Len(q) - 1 : Tail(q)[k] = q[k + 1]
         /\ Head(q) = q[1]
         /\ Tail(q) # << >> <=> Len(q) # 1
         /\ Tail(q) # << >> => Head(Tail(q)) = q[2]
<1>1. /\ Len(Tail(q)) = Len(q) - 1 /\ Len(q) \in Nat \ {0}
      /\ \A k \in 1 .. Len(q) - 1 : Tail(q)[k] = q[k + 1]
      /\ Head(q) = q[1] /\ Tail(q) \in Seq(Fetched)
  OBVIOUS
<1>2. Tail(q) # << >> <=> Len(Tail(q)) # 0
  BY <1>1
<1>3. Tail(q) # << >> => Head(Tail(q)) = Tail(q)[1] /\ 1 \in 1 .. Len(q) - 1
  BY <1>1, <1>2
<1> QED
  BY <1>1, <1>2, <1>3

LEMMA QueueStep == TypeOK /\ QueueInOrder /\ [Next]_vars => QueueInOrder'
<1> SUFFICES ASSUME TypeOK, QueueInOrder, [Next]_vars PROVE QueueInOrder'
  OBVIOUS
<1>1. fetchQueue \in Seq(Fetched)
  BY DEF TypeOK, FrontTypeOK
<1>2. CASE UNCHANGED <<fetchQueue, pc>>
  BY <1>2 DEF QueueInOrder
<1>3. CASE Fetch
  <2>1. PICK i \in Fetched : /\ i.pc = pc /\ pc' = i.predictedTarget
                             /\ fetchQueue' = Append(fetchQueue, i)
    BY <1>3, FetchAppends
  <2>2. /\ Len(fetchQueue') = Len(fetchQueue) + 1 /\ Len(fetchQueue) \in Nat
        /\ \A k \in 1 .. Len(fetchQueue) : fetchQueue'[k] = fetchQueue[k]
        /\ fetchQueue'[Len(fetchQueue) + 1] = i
    BY <1>1, <2>1, Appended
  <2>3. ASSUME NEW k \in 1 .. Len(fetchQueue') - 1
        PROVE  fetchQueue'[k + 1].pc = fetchQueue'[k].predictedTarget
    <3>1. k \in 1 .. Len(fetchQueue) /\ fetchQueue'[k] = fetchQueue[k]
      BY <2>2, <2>3
    <3>2. CASE k = Len(fetchQueue)
      <4>1. fetchQueue # << >>
        BY <1>1, <3>1
      <4> QED
        BY <2>1, <2>2, <3>1, <3>2, <4>1 DEF QueueInOrder
    <3>3. CASE k # Len(fetchQueue)
      <4>1. k \in 1 .. Len(fetchQueue) - 1 /\ k + 1 \in 1 .. Len(fetchQueue)
        BY <2>2, <3>1, <3>3
      <4> QED
        BY <2>2, <3>1, <4>1 DEF QueueInOrder
    <3> QED
      BY <3>2, <3>3
  <2>4. pc' = fetchQueue'[Len(fetchQueue')].predictedTarget
    BY <2>1, <2>2
  <2> QED
    BY <2>3, <2>4 DEF QueueInOrder
<1>4. CASE fetchQueue' = << >>
  BY <1>4 DEF QueueInOrder
<1>5. CASE fetchQueue # << >> /\ pc' = pc /\ fetchQueue' = Tail(fetchQueue)
  <2>1. /\ Len(fetchQueue') = Len(fetchQueue) - 1 /\ Len(fetchQueue) \in Nat \ {0}
        /\ \A k \in 1 .. Len(fetchQueue) - 1 : fetchQueue'[k] = fetchQueue[k + 1]
        /\ fetchQueue' # << >> <=> Len(fetchQueue) # 1
    BY <1>1, <1>5, Tailed
  <2>2. ASSUME NEW k \in 1 .. Len(fetchQueue') - 1
        PROVE  fetchQueue'[k + 1].pc = fetchQueue'[k].predictedTarget
    <3>1. /\ k \in 1 .. Len(fetchQueue) - 1 /\ k + 1 \in 1 .. Len(fetchQueue) - 1
      BY <2>1, <2>2
    <3>2. fetchQueue'[k] = fetchQueue[k + 1] /\ fetchQueue'[k + 1] = fetchQueue[(k + 1) + 1]
      BY <2>1, <3>1
    <3> QED
      BY <3>1, <3>2 DEF QueueInOrder
  <2>3. fetchQueue' # << >> => pc' = fetchQueue'[Len(fetchQueue')].predictedTarget
    <3> SUFFICES ASSUME fetchQueue' # << >>
                 PROVE  pc' = fetchQueue'[Len(fetchQueue')].predictedTarget
      OBVIOUS
    <3>1. Len(fetchQueue') \in 1 .. Len(fetchQueue) - 1
      BY <2>1
    <3>2. fetchQueue'[Len(fetchQueue')] = fetchQueue[Len(fetchQueue)]
      BY <2>1, <3>1
    <3> QED
      BY <1>5, <3>2 DEF QueueInOrder
  <2> QED
    BY <2>2, <2>3 DEF QueueInOrder
<1> QED
  BY <1>2, <1>3, <1>4, <1>5, FrontSteps DEF Popped

LEMMA InstsStep == TypeOK /\ InstsFromProgram /\ [Next]_vars => InstsFromProgram'
<1> SUFFICES ASSUME TypeOK, InstsFromProgram, [Next]_vars PROVE InstsFromProgram'
  OBVIOUS
<1>1. fetchQueue \in Seq(Fetched) /\ program' = program
  BY FrontSteps DEF TypeOK, FrontTypeOK
<1>2. \A s \in InFlight' : s \in InFlight =>
        /\ FromProgram(program', rob'[s].inst)
        /\ rob'[s].hasCheckpoint = (rob'[s].inst.op \in ControlOps)
  BY <1>1, StepsKeepEntries, RenameAdds DEF SameEntries, InstsFromProgram
<1>3. CASE UNCHANGED <<fetchQueue, pc>> /\ ~RenameInstruction /\ ~CompleteRecovering
  BY <1>1, <1>2, <1>3, StepsKeepEntries DEF InstsFromProgram, SameEntries
<1>4. CASE Fetch
  <2>1. PICK i \in Fetched : /\ FromProgram(program, i) /\ UNCHANGED rob
                             /\ fetchQueue' = Append(fetchQueue, i)
    BY <1>4, FetchAppends
  <2>2. /\ Len(fetchQueue') = Len(fetchQueue) + 1 /\ Len(fetchQueue) \in Nat
        /\ \A k \in 1 .. Len(fetchQueue) : fetchQueue'[k] = fetchQueue[k]
        /\ fetchQueue'[Len(fetchQueue) + 1] = i
    BY <1>1, <2>1, Appended
  <2>3. \A k \in 1 .. Len(fetchQueue') : FromProgram(program', fetchQueue'[k])
    <3> SUFFICES ASSUME NEW k \in 1 .. Len(fetchQueue')
                 PROVE  FromProgram(program', fetchQueue'[k])
      OBVIOUS
    <3>1. k \in 1 .. Len(fetchQueue) \/ k = Len(fetchQueue) + 1
      BY <2>2
    <3> QED
      BY <1>1, <2>1, <2>2, <3>1 DEF InstsFromProgram
  <2>4. InFlight' = InFlight
    BY <2>1 DEF InFlight
  <2> QED
    BY <1>2, <2>3, <2>4 DEF InstsFromProgram
<1>5. CASE CompleteRecovering /\ fetchQueue' = << >>
  <2>1. SameEntries
    <3>1. ~RenameInstruction
      BY <1>5 DEF CompleteRecovering, RenameInstruction
    <3> QED
      BY <3>1, StepsKeepEntries
  <2> QED
    BY <1>2, <1>5, <2>1 DEF InstsFromProgram, SameEntries
<1>6. CASE /\ RenameInstruction /\ fetchQueue # << >>
           /\ fetchQueue' = Popped(Head(fetchQueue))
  <2>1. /\ Len(Tail(fetchQueue)) = Len(fetchQueue) - 1 /\ Len(fetchQueue) \in Nat \ {0}
        /\ \A k \in 1 .. Len(fetchQueue) - 1 : Tail(fetchQueue)[k] = fetchQueue[k + 1]
        /\ Head(fetchQueue) = fetchQueue[1]
    BY <1>1, <1>6, Tailed
  <2>2. /\ FromProgram(program, Head(fetchQueue))
        /\ \A k \in 1 .. Len(fetchQueue) - 1 : FromProgram(program, Tail(fetchQueue)[k])
    BY <2>1 DEF InstsFromProgram
  <2>3. \A k \in 1 .. Len(fetchQueue') : FromProgram(program', fetchQueue'[k])
    BY <1>1, <1>6, <2>1, <2>2 DEF Popped
  <2>4. \A s \in InFlight' : s \notin InFlight =>
          /\ rob'[s].inst = Head(fetchQueue)
          /\ rob'[s].hasCheckpoint = (rob'[s].inst.op \in ControlOps)
    BY <1>6, RenameAdds DEF RobEntry
  <2> QED
    BY <1>1, <1>2, <2>2, <2>3, <2>4 DEF InstsFromProgram
<1> QED
  BY <1>3, <1>4, <1>5, <1>6, FrontSteps

-----------------------------------------------------------------------------
(* Where instructions continue *)

LEMMA NextPcStays ==
  ASSUME TypeOK, OldestExists, [Next]_vars, ~RenameInstruction, ~CompleteRecovering,
         NEW n, \A t \in InFlight : t >= n => t \in InFlight'
  PROVE  NextPc(n)' = NextPc(n)
<1>1. SameEntries
  BY StepsKeepEntries
<1>2. From(n)' = From(n)
  BY <1>1 DEF From, SameEntries
<1>3. FrontPc' = FrontPc
  <2>1. CASE UNCHANGED <<fetchQueue, pc>>
    BY <2>1 DEF FrontPc
  <2>2. CASE Fetch
    <3>1. PICK i \in Fetched : i.pc = pc /\ fetchQueue' = Append(fetchQueue, i)
      BY <2>2, FetchAppends
    <3>2. fetchQueue' # << >> /\ Head(fetchQueue') = IF fetchQueue = << >> THEN i
                                                     ELSE Head(fetchQueue)
      BY <3>1, Appended DEF TypeOK, FrontTypeOK
    <3> QED
      BY <3>1, <3>2 DEF FrontPc
  <2> QED
    BY <2>1, <2>2, FrontSteps
<1>4. CASE From(n) = {}
  BY <1>2, <1>3, <1>4 DEF NextPc
<1>5. CASE From(n) # {}
  <2>1. Oldest(From(n)) \in From(n)
    BY <1>5, OldestInFlight DEF From
  <2>2. Oldest(From(n)) \in InFlight'
    BY <1>2, <2>1 DEF From
  <2>3. rob'[Oldest(From(n))].inst = rob[Oldest(From(n))].inst
    BY <1>1, <2>2 DEF SameEntries
  <2> QED
    BY <1>2, <1>5, <2>3 DEF NextPc, Oldest
<1> QED
  BY <1>4, <1>5

(* A recovery resumes at the target of the branch it completes. *)
LEMMA RecoveryFinishes ==
  ASSUME TypeOK, PlaceInv, CompleteRecovering
  PROVE  \E r \in InFlight :
           /\ rob[r].hasCheckpoint /\ map' = rob[r].checkpoint.map
           /\ InFlight' = UpTo(InFlight, r) /\ Finishes(r)
           /\ pc' = actualTarget(rob[r]) /\ fetchQueue' = << >>
<1>1. PICK r \in InFlight :
        /\ stage = "complete" /\ IsNext(r) /\ ~rob[r].ready
        /\ recovers(rob[r]) /\ WriteBack(rob[r]) /\ restore(rob[r].checkpoint)
        /\ rob' = Only(Put(rob, r, Executed(rob[r])), UpTo(InFlight, r))
        /\ FetchFlush(actualTarget(rob[r]))
  BY DEF CompleteRecovering, Completes
<1>2. rob[r].issued
  BY <1>1 DEF PlaceInv, InOnePlace, Executing, IsNext
<1>3. r \in UpTo(InFlight, r) /\ UpTo(InFlight, r) \subseteq InFlight
  BY SeqsBelow DEF UpTo
<1>4. /\ InFlight' = UpTo(InFlight, r) /\ rob'[r] = Executed(rob[r])
      /\ \A t \in InFlight' : t # r => rob'[t] = rob[t]
  BY <1>1, <1>3, ReplacedAndDropped
<1> QED
  BY <1>1, <1>2, <1>3, <1>4 DEF Finishes, recovers, restore, FetchFlush

LEMMA NextPcRecovered ==
  ASSUME TypeOK, OldestExists, CompleteRecovering,
         NEW r \in InFlight, InFlight' = UpTo(InFlight, r),
         pc' = actualTarget(rob[r]), fetchQueue' = << >>
  PROVE  /\ \A n \in Nat : n <= r => NextPc(n)' = NextPc(n)
         /\ NextPc(r + 1)' = actualTarget(rob[r])
<1>1. SameEntries
  <2>1. [Next]_vars /\ ~RenameInstruction
    BY DEF Next, CompleteRecovering, RenameInstruction
  <2> QED
    BY <2>1, StepsKeepEntries
<1>2. \A t \in InFlight : t \in Nat
  BY SeqsBelow
<1>3. ASSUME NEW n \in Nat, n <= r
      PROVE  NextPc(n)' = NextPc(n)
  <2>1. r \in From(n)
    BY <1>2, <1>3 DEF From
  <2>2. /\ From(n) \in SUBSET Nat /\ Oldest(From(n)) \in From(n)
        /\ \A t \in From(n) : Oldest(From(n)) <= t
    BY <1>2, <2>1, OldestInFlight DEF From
  <2>3. \A t : t \in From(n)' <=> t \in From(n) /\ t <= r
    BY DEF From, UpTo
  <2>4. Oldest(From(n)) \in From(n)'
    BY <2>1, <2>2, <2>3
  <2>5. Oldest(From(n)') = Oldest(From(n))
    BY <2>2, <2>3, <2>4, OldestIs
  <2>6. rob'[Oldest(From(n))].inst = rob[Oldest(From(n))].inst
    BY <1>1, <2>4 DEF SameEntries, From
  <2>7. NextPc(n)' = rob'[Oldest(From(n)')].inst.pc
    BY <2>4 DEF NextPc, Oldest
  <2> QED
    BY <2>1, <2>5, <2>6, <2>7 DEF NextPc
<1>4. From(r + 1)' = {}
  BY <1>2 DEF From, UpTo
<1> QED
  BY <1>3, <1>4 DEF NextPc, FrontPc

(* What is renamed was next, and its prediction is what follows. *)
LEMMA NextPcRenamed ==
  ASSUME TypeOK, OldestExists, QueueInOrder, RenameInstruction
  PROVE  /\ \A n \in Nat : n <= nextSeq => NextPc(n)' = NextPc(n)
         /\ \A n \in Nat : n = nextSeq + 1 /\ Head(fetchQueue).op \notin ExitOps
              => NextPc(n)' = Head(fetchQueue).predictedTarget
<1>0. PICK m, i : m = nextSeq /\ i = Head(fetchQueue)
  OBVIOUS
<1>1. /\ InFlight' = InFlight \cup {m} /\ rob'[m].inst = i
      /\ \A t \in InFlight : rob'[t] = rob[t]
  BY <1>0, RenameAdds DEF RobEntry
<1>2. /\ fetchQueue \in Seq(Fetched) /\ fetchQueue # << >> /\ pc' = pc
      /\ fetchQueue' = Popped(i)
  BY <1>0 DEF TypeOK, FrontTypeOK, RenameInstruction, CanRename
<1>3. m \in Nat /\ m \notin InFlight /\ \A t \in InFlight : t \in Nat /\ t < m
  BY <1>0, SeqsBelow
<1>4. ASSUME NEW n \in Nat, n <= m
      PROVE  NextPc(n)' = NextPc(n)
  <2>1. \A t : t \in From(n)' <=> t \in From(n) \/ t = m
    BY <1>1, <1>3, <1>4 DEF From
  <2>2. CASE From(n) = {}
    <3>1. From(n)' = {m}
      BY <2>1, <2>2
    <3>2. Oldest(From(n)') = m
      BY <1>3, <3>1, OldestIs
    <3>3. NextPc(n)' = i.pc
      BY <1>1, <3>1, <3>2 DEF NextPc, Oldest
    <3> QED
      BY <1>0, <1>2, <2>2, <3>3 DEF NextPc, FrontPc
  <2>3. CASE From(n) # {}
    <3>1. /\ From(n) \in SUBSET Nat /\ Oldest(From(n)) \in From(n)
          /\ \A t \in From(n) : Oldest(From(n)) <= t
      BY <1>3, <2>3, OldestInFlight DEF From
    <3>2. Oldest(From(n)) <= m /\ Oldest(From(n)) \in InFlight
      BY <1>3, <3>1 DEF From
    <3>3. From(n)' \in SUBSET Nat /\ Oldest(From(n)) \in From(n)'
          /\ \A t \in From(n)' : Oldest(From(n)) <= t
      BY <1>3, <2>1, <3>1, <3>2
    <3>4. Oldest(From(n)') = Oldest(From(n))
      BY <3>3, OldestIs
    <3> QED
      BY <1>1, <2>3, <3>2, <3>3, <3>4 DEF NextPc, Oldest
  <2> QED
    BY <2>2, <2>3
<1>5. ASSUME i.op \notin ExitOps
      PROVE  NextPc(m + 1)' = i.predictedTarget
  <2>1. From(m + 1)' = {}
    BY <1>1, <1>3 DEF From
  <2>2. /\ Len(fetchQueue) \in Nat \ {0} /\ Head(fetchQueue) = fetchQueue[1]
        /\ Tail(fetchQueue) # << >> <=> Len(fetchQueue) # 1
        /\ Tail(fetchQueue) # << >> => Head(Tail(fetchQueue)) = fetchQueue[2]
    BY <1>2, Tailed
  <2>3. fetchQueue' = Tail(fetchQueue)
    BY <1>2, <1>5 DEF Popped
  <2>4. FrontPc' = IF Tail(fetchQueue) # << >> THEN Head(Tail(fetchQueue)).pc ELSE pc
    BY <1>2, <2>3 DEF FrontPc
  <2>5. CASE Len(fetchQueue) = 1
    BY <1>0, <1>2, <2>1, <2>2, <2>4, <2>5 DEF NextPc, QueueInOrder
  <2>6. CASE Len(fetchQueue) # 1
    <3>1. 1 \in 1 .. Len(fetchQueue) - 1
      BY <2>2, <2>6
    <3>2. fetchQueue[1 + 1].pc = fetchQueue[1].predictedTarget
      BY <3>1 DEF QueueInOrder
    <3> QED
      BY <1>0, <2>1, <2>2, <2>4, <2>6, <3>2 DEF NextPc
  <2> QED
    BY <2>5, <2>6
<1> QED
  BY <1>0, <1>4, <1>5

-----------------------------------------------------------------------------
(* The pipeline follows the program *)

(* What is no jump or branch continues at the next address, as predicted.  *)
LEMMA FallsThrough ==
  ASSUME NEW s, FromProgram(program, rob[s].inst), rob[s].inst.op \notin ControlOps
  PROVE  actualTarget(rob[s]) = rob[s].inst.predictedTarget
BY DEF FromProgram, actualTarget, Target, Taken, ControlOps

(* So does what completes without a recovery. *)
LEMMA PredictedRight ==
  ASSUME TypeOK, InstsFromProgram, NEW s \in InFlight, ~recovers(rob[s])
  PROVE  actualTarget(rob[s]) = rob[s].inst.predictedTarget
<1>1. FromProgram(program, rob[s].inst)
  BY DEF InstsFromProgram
<1>2. CASE rob[s].inst.op \notin ControlOps
  BY <1>1, <1>2, FallsThrough
<1>3. CASE rob[s].inst.op \in ControlOps
  <2>1. ~mispredicted(rob[s])
    BY <1>3 DEF recovers, InstsFromProgram
  <2>2. CASE actualTaken(rob[s])
    BY <1>3, <2>1, <2>2 DEF mispredicted
  <2>3. CASE ~actualTaken(rob[s])
    <3>1. rob[s].inst.predictedTaken \in BOOLEAN
      BY EntryType DEF Entry, Fetched
    <3>2. ~rob[s].inst.predictedTaken
      BY <1>3, <2>1, <2>3, <3>1 DEF mispredicted
    <3> QED
      BY <1>1, <2>3, <3>2 DEF FromProgram, actualTarget, actualTaken, Target
  <2> QED
    BY <2>2, <2>3
<1> QED
  BY <1>2, <1>3

LEMMA CompletesRight ==
  ASSUME TypeOK, InstsFromProgram, CompleteInstruction, NEW s \in InFlight, Finishes(s)
  PROVE  actualTarget(rob[s]) = rob[s].inst.predictedTarget
<1>1. PICK t \in InFlight : ~recovers(rob[t]) /\ rob' = Put(rob, t, Executed(rob[t]))
  BY DEF CompleteInstruction, Completes
<1>2. Executed(rob[s]).ready
  BY EntryAfter
<1>3. s = t
  BY <1>1, <1>2, Replaced DEF Finishes
<1> QED
  BY <1>1, <1>3, PredictedRight

(* Where an instruction continues does not change while it is in flight.   *)
LEMMA ContinuesSame ==
  ASSUME RegisterInv, InstsFromProgram, [Next]_vars, NEW s \in InFlight, s \in InFlight',
         ~(CompleteRecovering /\ Finishes(s))
  PROVE  ContinuesAt(rob[s])' = ContinuesAt(rob[s])
<1>1. TypeOK /\ PlaceInv /\ StartedReady
  BY DEF RegisterInv
<1>2. OperandsReady(s) => /\ rob'[s].inst = rob[s].inst
                          /\ actualTarget(rob[s])' = actualTarget(rob[s])
  BY OperandValuesStay
<1>3. rob[s].issued \/ rob[s].ready => OperandsReady(s)
  BY <1>1 DEF StartedReady
<1>4. CASE rob'[s] = rob[s]
  BY <1>2, <1>3, <1>4 DEF ContinuesAt
<1>5. CASE rob'[s] = Issued(rob[s]) /\ ~rob[s].ready
  <2>1. rob'[s].inst = rob[s].inst
    BY <1>1, <1>5, EntryAfter
  <2>2. ~rob'[s].ready
    BY <1>1, <1>5, EntryAfter
  <2> QED
    BY <1>5, <2>1, <2>2 DEF ContinuesAt
<1>6. CASE rob'[s] = Faulted(rob[s]) /\ misaligned(rob[s]) /\ stage = "issue" /\ s \in work
           /\ ~rob[s].ready
  <2>1. OperandsReady(s)
    BY <1>1, <1>6 DEF StartedReady
  <2>2. rob[s].inst.op \notin ControlOps
    BY <1>6 DEF misaligned, MemoryOps, Loads, Stores, ControlOps, Branches, Jumps
  <2>3. actualTarget(rob[s]) = rob[s].inst.predictedTarget
    BY <2>2, FallsThrough DEF InstsFromProgram
  <2>4. rob'[s].ready
    BY <1>1, <1>6, EntryAfter
  <2> QED
    BY <1>2, <1>6, <2>1, <2>3, <2>4 DEF ContinuesAt
<1>7. CASE Finishes(s)
  <2>1. OperandsReady(s) /\ CompleteInstruction
    BY <1>3, <1>7 DEF Finishes
  <2>2. actualTarget(rob[s]) = rob[s].inst.predictedTarget
    BY <1>1, <1>7, <2>1, CompletesRight
  <2>3. Executed(rob[s]).ready
    BY <1>1, EntryAfter
  <2> QED
    BY <1>2, <1>7, <2>1, <2>2, <2>3 DEF ContinuesAt, Finishes
<1> QED
  BY <1>1, <1>4, <1>5, <1>6, <1>7, EntryChanges

LEMMA ProgramOrderStep ==
  RegisterInv /\ InstsFromProgram /\ QueueInOrder /\ FlightInOrder /\ [Next]_vars
    => FlightInOrder'
<1> SUFFICES ASSUME RegisterInv, InstsFromProgram, QueueInOrder, FlightInOrder, [Next]_vars,
                    NEW s \in InFlight', rob'[s].inst.op \notin ExitOps
             PROVE  NextPc(s + 1)' = ContinuesAt(rob[s])'
  BY DEF FlightInOrder
<1>1. TypeOK /\ PlaceInv /\ OldestExists
  BY DEF RegisterInv
<1>2. CASE RenameInstruction
  <2>0. PICK m, i : m = nextSeq /\ i = Head(fetchQueue)
    OBVIOUS
  <2>1. /\ InFlight' = InFlight \cup {m} /\ rob'[m] = RobEntry(i)
        /\ \A t \in InFlight : rob'[t] = rob[t]
    BY <1>1, <1>2, <2>0, RenameAdds
  <2>2. m \in Nat /\ m + 1 \in Nat /\ \A t \in InFlight : t \in Nat /\ t < m
    BY <1>1, <2>0, SeqsBelow
  <2>3. CASE s = m
    <3>1. RobEntry(i).inst = i /\ ~RobEntry(i).ready
      BY DEF RobEntry
    <3>2. NextPc(m + 1)' = i.predictedTarget
      BY <1>1, <1>2, <2>0, <2>1, <2>2, <2>3, <3>1, NextPcRenamed
    <3> QED
      BY <2>1, <2>3, <3>1, <3>2 DEF ContinuesAt
  <2>4. CASE s # m
    <3>1. s \in InFlight /\ rob'[s] = rob[s] /\ s + 1 \in Nat /\ s + 1 <= m
      BY <2>1, <2>2, <2>4
    <3>2. NextPc(s + 1)' = NextPc(s + 1)
      BY <1>1, <1>2, <2>0, <3>1, NextPcRenamed
    <3>3. ~CompleteRecovering
      BY <1>2 DEF RenameInstruction, CompleteRecovering
    <3>4. ContinuesAt(rob[s])' = ContinuesAt(rob[s])
      BY <3>1, <3>3, ContinuesSame
    <3> QED
      BY <3>1, <3>2, <3>4 DEF FlightInOrder
  <2> QED
    BY <2>3, <2>4
<1>3. CASE ~RenameInstruction
  <2>1. SameEntries
    BY <1>1, <1>3, StepsKeepEntries
  <2>2. s \in InFlight /\ rob'[s].inst = rob[s].inst /\ s \in Nat /\ s + 1 \in Nat
    BY <1>1, <2>1, SeqsBelow DEF SameEntries
  <2>3. NextPc(s + 1) = ContinuesAt(rob[s])
    BY <2>2 DEF FlightInOrder
  <2>4. CASE ~CompleteRecovering
    <3>1. \A t \in InFlight : t >= s + 1 => t \in InFlight'
      <4>1. \A t \in InFlight : s < t => t \in InFlight'
        BY <1>1, <1>3, <2>4, OnlyOldestLeaves
      <4> QED
        BY <1>1, <2>2, <4>1, SeqsBelow
    <3>2. NextPc(s + 1)' = NextPc(s + 1)
      BY <1>1, <1>3, <2>4, <3>1, NextPcStays
    <3> QED
      BY <2>2, <2>3, <2>4, <3>2, ContinuesSame
  <2>5. CASE CompleteRecovering
    <3>1. PICK r \in InFlight :
            /\ InFlight' = UpTo(InFlight, r) /\ Finishes(r)
            /\ pc' = actualTarget(rob[r]) /\ fetchQueue' = << >>
      BY <1>1, <2>5, RecoveryFinishes
    <3>2. /\ \A n \in Nat : n <= r => NextPc(n)' = NextPc(n)
          /\ NextPc(r + 1)' = actualTarget(rob[r])
      BY <1>1, <2>5, <3>1, NextPcRecovered
    <3>3. CASE s = r
      <4>1. OperandsReady(r)
        BY <3>1 DEF Finishes, RegisterInv, StartedReady
      <4>2. actualTarget(rob[r])' = actualTarget(rob[r])
        BY <3>1, <3>3, <4>1, OperandValuesStay
      <4>3. Executed(rob[r]).ready
        BY <1>1, EntryAfter
      <4> QED
        BY <3>1, <3>2, <3>3, <4>2, <4>3 DEF ContinuesAt, Finishes
    <3>4. CASE s # r
      <4>1. s + 1 <= r
        BY <1>1, <2>2, <3>1, <3>4, SeqsBelow DEF UpTo
      <4>2. ~Finishes(s)
        <5>1. rob'[s] = rob[s]
          BY <3>1, <3>4 DEF Finishes
        <5>2. Executed(rob[s]).ready
          BY <1>1, <2>2, EntryAfter
        <5> QED
          BY <5>1, <5>2 DEF Finishes
      <4>3. ContinuesAt(rob[s])' = ContinuesAt(rob[s])
        BY <2>2, <4>2, ContinuesSame
      <4> QED
        BY <2>2, <2>3, <3>2, <4>1, <4>3
    <3> QED
      BY <3>3, <3>4
  <2> QED
    BY <2>4, <2>5
<1> QED
  BY <1>2, <1>3

ProgramInv == InstsFromProgram /\ QueueInOrder /\ FlightInOrder

LEMMA ProgramInvariant == Pipeline => []ProgramInv
<1>1. Init => ProgramInv
  <2> SUFFICES ASSUME Init PROVE ProgramInv
    OBVIOUS
  <2>1. InFlight = {} /\ fetchQueue = << >>
    BY NoEntriesPartial DEF Init, RobInit, InFlight, FetchInit
  <2> QED
    BY <2>1 DEF ProgramInv, InstsFromProgram, QueueInOrder, FlightInOrder
<1>2. RegisterInv /\ ProgramInv /\ [Next]_vars => ProgramInv'
  <2>1. RegisterInv => TypeOK
    BY DEF RegisterInv
  <2> QED
    BY <2>1, InstsStep, QueueStep, ProgramOrderStep DEF ProgramInv
<1> QED
  BY <1>1, <1>2, RegisterInvariant, PTL DEF Pipeline

(* What the pipeline holds is a path of the program: nothing of a wrong    *)
(* path follows the branch that left it, once the branch is resolved.      *)
THEOREM NoWrongPathSurvives == Pipeline => []InProgramOrder
BY ProgramInvariant, PTL DEF ProgramInv, InProgramOrder

-----------------------------------------------------------------------------
(* The committed state, by program order *)

MapsBefore ==
  /\ \A x \in Arch : CommittedPhys(x) = MapBefore(0, x)
  /\ Status = "running" => CommittedPc = NextPc(0)

LEMMA HeadIsOldest ==
  ASSUME TypeOK, NEW h, IsHead(h)
  PROVE  Oldest(InFlight) = h /\ (CHOOSE s \in InFlight : IsHead(s)) = h
<1>1. h \in InFlight /\ InFlight \in SUBSET Nat /\ \A t \in InFlight : h <= t
  BY SeqsBelow DEF IsHead
<1>2. \A t \in InFlight : IsHead(t) => t = h
  BY <1>1 DEF IsHead
<1> QED
  BY <1>1, <1>2, OldestIs

LEMMA MapsFromRegisters == RegisterInv => MapsBefore
<1> SUFFICES ASSUME RegisterInv PROVE MapsBefore
  OBVIOUS
<1>1. TypeOK /\ OldestExists /\ ZeroFixed
  BY DEF RegisterInv, SourceInv
<1>2. \A t \in InFlight : t \in Nat /\ t >= 0
  BY <1>1, SeqsBelow
<1>3. ASSUME NEW x \in Arch
      PROVE  CommittedPhys(x) = MapBefore(0, x)
  <2> DEFINE W == {s \in Writers(InFlight) : rob[s].inst.rd = x}
  <2>1. W = WritersFrom(0, x)
    BY <1>2 DEF WritersFrom, Writers
  <2>2. physForArch(x) = map[x]
    BY <1>1 DEF physForArch, ZeroFixed
  <2>3. CommittedPhys(x) = IF W = {} THEN physForArch(x) ELSE rob[Oldest(W)].oldDestPhys
    BY DEF CommittedPhys, Oldest
  <2> HIDE DEF W
  <2> QED
    BY <2>1, <2>2, <2>3 DEF MapBefore
<1>4. ASSUME Status = "running"
      PROVE  CommittedPc = NextPc(0)
  <2>1. From(0) = InFlight
    BY <1>2 DEF From
  <2>2. CASE InFlight = {}
    BY <1>4, <2>1, <2>2 DEF CommittedPc, NextPc, FrontPc
  <2>3. CASE InFlight # {}
    <3>1. PICK h \in InFlight : \A t \in InFlight : h <= t
      BY <1>1, <2>3 DEF OldestExists, HasOldest
    <3>2. Oldest(InFlight) = h /\ (CHOOSE s \in InFlight : IsHead(s)) = h
      BY <1>1, <3>1, HeadIsOldest DEF IsHead
    <3>3. CommittedPc = rob[CHOOSE s \in InFlight : IsHead(s)].inst.pc
      BY <1>4, <2>3 DEF CommittedPc
    <3>4. NextPc(0) = rob[Oldest(InFlight)].inst.pc
      BY <2>1, <2>3 DEF NextPc
    <3> QED
      BY <3>2, <3>3, <3>4
  <2> QED
    BY <2>2, <2>3
<1> QED
  BY <1>3, <1>4 DEF MapsBefore

LEMMA MapBeforeType ==
  ASSUME RegisterInv, NEW n, NEW x \in Arch
  PROVE  MapBefore(n, x) \in Phys
<1>1. map[x] \in Phys
  BY DEF RegisterInv, TypeOK, RenameTypeOK
<1>2. WritersFrom(n, x) # {} => Oldest(WritersFrom(n, x)) \in Writers(InFlight)
  BY WritersFromTypes, OldestInFlight DEF RegisterInv, WritersFrom
<1> QED
  BY <1>1, <1>2 DEF MapBefore, RegisterInv, DestinationInv, DestinationsKept

(* Nobody in flight writes a register that holds a committed value.        *)
LEMMA CommittedUnwritten ==
  ASSUME RegisterInv, NEW u \in InFlight, rob[u].hasDest, NEW x \in Arch
  PROVE  rob[u].destPhys # MapBefore(0, x)
<1> DEFINE W == WritersFrom(0, x)
<1>1. /\ W \in SUBSET InFlight /\ W \in SUBSET Nat /\ u \in Nat
      /\ \A t \in Writers(InFlight) : t \in Nat
  BY WritersFromTypes, SeqsBelow DEF RegisterInv, Writers
<1>2. W # {} => /\ Oldest(W) \in W /\ Oldest(W) \in Writers(InFlight)
                /\ \A t \in W : Oldest(W) <= t
  BY <1>1, OldestInFlight DEF RegisterInv, WritersFrom
<1>3. CASE W # {} /\ Oldest(W) < u
  <2>1. MapBefore(0, x) = rob[Oldest(W)].oldDestPhys
    BY <1>3 DEF MapBefore
  <2> QED
    BY <1>2, <1>3, <2>1 DEF RegisterInv, DestinationInv, DestinationsKept, Writers
<1>4. CASE W = {} \/ ~(Oldest(W) < u)
  <2>1. \A t : t \in W => t >= u
    BY <1>1, <1>2, <1>4
  <2>2. \A t : t \in WritersFrom(u, x) <=> t \in W
    BY <1>1, <2>1 DEF WritersFrom
  <2>3. WritersFrom(u, x) = W
    BY <2>2
  <2>4. MapBefore(u, x) = MapBefore(0, x)
    BY <2>3 DEF MapBefore
  <2> QED
    BY <2>4 DEF RegisterInv, OperandsNamed
<1> QED
  BY <1>3, <1>4

(* All the invariants the refinement rests on. *)
RefinementInv ==
  RegisterInv /\ ExitIsYoungest /\ FaultsExact /\ ResultsExact /\ ProgramInv /\ MapsBefore

LEMMA RefinementInvariant == Pipeline /\ []LoadsFollowStores => []RefinementInv
BY RegisterInvariant, NothingBehindExit, FaultsInvariant, ResultsAreKept, ProgramInvariant,
   MapsFromRegisters, PTL DEF RefinementInv

-----------------------------------------------------------------------------
(* Steps the in-order machine does not see *)

(* The only steps it sees. *)
CommitStep == CommitInstruction \/ CommitEcall \/ CommitFault

LEMMA StatusOnlyByCommit ==
  ASSUME [Next]_vars, ~CommitStep
  PROVE  UNCHANGED <<program, memory, exitCode, Status>>
<1>1. UNCHANGED <<memory, exitCode, halted>>
  BY DEF CommitStep, Next, Tick, CompleteSkip, CompleteInstruction, CompleteRecovering,
       Select, IssueSkip, IssueMisaligned, IssueInstruction, IssueWith, IssueDone,
       RenameInstruction, RenameDone, FetchWait, Fetch, FetchWith, FetchDone, Ended,
       vars, exitVars
<1>2. stage' = "error" <=> stage = "error"
  <2>1. CASE Ended \/ UNCHANGED vars
    BY <2>1 DEF Ended, vars, loopVars
  <2>2. CASE ~(Ended \/ UNCHANGED vars)
    <3>1. stage # "error"
      BY <2>2 DEF CommitStep, Next, Tick, CompleteSkip, CompleteInstruction,
           CompleteRecovering, Select, IssueSkip, IssueMisaligned, IssueInstruction,
           IssueWith, IssueDone, RenameInstruction, RenameDone, FetchWait, Fetch,
           FetchWith, FetchDone
    <3>2. stage' = stage \/ stage' \in {"complete", "issue", "rename", "fetch", "commit", "done"}
      BY <2>2 DEF CommitStep, Next, Tick, CompleteSkip, CompleteInstruction,
           CompleteRecovering, Select, IssueSkip, IssueMisaligned, IssueInstruction,
           IssueWith, IssueDone, RenameInstruction, RenameDone, FetchWait, Fetch,
           FetchWith, FetchDone, GoTo, NextCycle
    <3> QED
      BY <3>1, <3>2
  <2> QED
    BY <2>1, <2>2
<1> QED
  BY <1>1, <1>2, FrontSteps DEF Status

(* Nothing leaves but by a commit or a recovery. *)
LEMMA NothingLeaves ==
  ASSUME TypeOK, PlaceInv, [Next]_vars, ~CommitStep, ~CompleteRecovering
  PROVE  InFlight \subseteq InFlight'
<1>1. CASE RenameInstruction
  BY <1>1, RenameAdds
<1>2. CASE CompleteInstruction
  <2>1. PICK t \in InFlight : rob' = Put(rob, t, Executed(rob[t]))
    BY <1>2 DEF CompleteInstruction, Completes
  <2> QED
    BY <2>1, Replaced
<1>3. CASE IssueMisaligned \/ IssueInstruction
  <2>1. PICK t \in InFlight :
          rob' = Put(rob, t, Faulted(rob[t])) \/ rob' = Put(rob, t, Issued(rob[t]))
    BY <1>3 DEF IssueMisaligned, IssueInstruction, IssueWith, Issues
  <2> QED
    BY <2>1, Replaced
<1>4. CASE UNCHANGED rob
  BY <1>4 DEF InFlight
<1>5. CASE ~(RenameInstruction \/ CompleteInstruction \/ IssueMisaligned \/ IssueInstruction)
  <2>1. UNCHANGED rob
    BY <1>5 DEF CommitStep, Next, Tick, CompleteSkip, Select, IssueSkip, IssueDone, RenameDone,
         FetchWait, Fetch, FetchWith, FetchDone, Ended, vars, robVars
  <2> QED
    BY <1>4, <2>1
<1> QED
  BY <1>1, <1>2, <1>3, <1>5

LEMMA QuietStep ==
  ASSUME RefinementInv, RefinementInv', [Next]_vars, ~CommitStep
  PROVE  UNCHANGED <<program, CommittedPc, CommittedRegs, memory, Status, exitCode>>
<1>1. /\ TypeOK /\ PlaceInv /\ OldestExists /\ CheckpointUndoesYounger /\ ZeroFixed
      /\ QueueInOrder /\ RegisterInv /\ MapsBefore /\ MapsBefore'
  BY DEF RefinementInv, RegisterInv, ProgramInv, SourceInv
<1>2. UNCHANGED <<program, memory, exitCode, Status>>
  BY StatusOnlyByCommit
<1>3. 0 \in Nat /\ nextSeq \in Nat /\ \A t \in InFlight : t \in Nat
  BY <1>1, SeqsBelow
<1>4. /\ NextPc(0)' = NextPc(0)
      /\ \A x \in Arch : MapBefore(0, x)' = MapBefore(0, x)
  <2>1. CASE RenameInstruction
    <3>1. 0 <= nextSeq
      BY <1>3
    <3> QED
      BY <1>1, <1>3, <2>1, <3>1, NextPcRenamed, MapBeforeRenamed
  <2>2. CASE CompleteRecovering
    <3>1. PICK r \in InFlight :
            /\ rob[r].hasCheckpoint /\ map' = rob[r].checkpoint.map
            /\ InFlight' = UpTo(InFlight, r)
            /\ pc' = actualTarget(rob[r]) /\ fetchQueue' = << >>
      BY <1>1, <2>2, RecoveryFinishes
    <3>2. 0 <= r /\ 0 <= r + 1
      BY <1>3
    <3> QED
      BY <1>1, <1>3, <2>2, <3>1, <3>2, NextPcRecovered, MapBeforeRecovered
  <2>3. CASE ~RenameInstruction /\ ~CompleteRecovering
    BY <1>1, <2>3, NothingLeaves, NextPcStays, MapBeforeStays
  <2> QED
    BY <2>1, <2>2, <2>3
<1>5. CommittedPc' = CommittedPc
  <2>1. CASE Status = "running"
    BY <1>1, <1>2, <1>4, <2>1 DEF MapsBefore
  <2>2. CASE Status # "running"
    BY <1>2, <2>2 DEF CommittedPc
  <2> QED
    BY <2>1, <2>2
<1>6. ASSUME NEW x \in Arch
      PROVE  values'[MapBefore(0, x)] = values[MapBefore(0, x)]
  <2>1. ASSUME NEW u \in InFlight, Finishes(u)
        PROVE  values'[MapBefore(0, x)] = values[MapBefore(0, x)]
    BY <1>1, <2>1, CommittedUnwritten, MapBeforeType, OthersKeepValues
  <2> QED
    BY <1>1, <2>1, OnlyCompletionWrites
<1>7. CommittedRegs' = CommittedRegs
  <2>1. CommittedRegs = [x \in Arch |-> values[MapBefore(0, x)]]
    BY <1>1 DEF CommittedRegs, MapsBefore, read
  <2>2. CommittedRegs' = [x \in Arch |-> values'[MapBefore(0, x)']]
    BY <1>1 DEF CommittedRegs, MapsBefore, read
  <2> QED
    BY <1>4, <1>6, <2>1, <2>2
<1> QED
  BY <1>2, <1>5, <1>7

-----------------------------------------------------------------------------
(* The in-order machine on the committed state *)

(* Its operators are those of the pipeline, of the committed state.        *)
LEMMA ArchFaults ==
  LET i == InstrAt(program, CommittedPc) IN
  Arch1!Faults <=>
    \/ i.op = "Illegal"
    \/ i.op = "Ecall" /\ CommittedRegs[A7] # ExitCall
    \/ i.op \in MemoryOps /\ Misaligned(WordAdd(CommittedRegs[i.rs1], i.imm), i.op)
BY DEF Arch1!Faults, Arch1!Inst, Arch1!InstrAt, Arch1!Address, Arch1!a, InstrAt,
   Arch1!MemoryOps, Arch1!Misaligned, Arch1!WordAdd, Arch1!memorySizeBytes,
   Arch1!IllegalInst, Arch1!Loads, Arch1!Stores,
   MemoryOps, Misaligned, WordAdd, memorySizeBytes, IllegalInst, Loads, Stores

LEMMA ArchStores ==
  ASSUME NEW x, NEW v, NEW n
  PROVE  Arch1!M!storeValue(x, v, n) <=> storeValue(x, v, n)
BY DEF Arch1!M!storeValue, Arch1!M!Written, Arch1!M!ByteOf, Arch1!M!WordAdd,
   storeValue, Written, ByteOf, WordAdd

LEMMA ArchLoads ==
  ASSUME NEW m, NEW x, NEW op
  PROVE  Arch1!M!loadValue(m, x, op) = loadValue(m, x, op)
BY DEF Arch1!M!loadValue, Arch1!M!read8, Arch1!M!read16, Arch1!M!read32,
   Arch1!M!signExtend, Arch1!M!WordAdd,
   loadValue, read8, read16, read32, signExtend, WordAdd

LEMMA ArchComputes ==
  ASSUME NEW i, NEW x, NEW y
  PROVE  Arch1!Value(i, x, y) = Value(i, x, y) /\ Arch1!Target(i, x, y) = Target(i, x, y)
BY DEF Arch1!Value, Arch1!Target, Arch1!Taken, Arch1!WordAdd, Arch1!Jumps, Arch1!ImmOps,
   Arch1!RegOps, Arch1!Branches,
   Value, Target, Taken, WordAdd, Jumps, ImmOps, RegOps, Branches

(* Only the opcode, the immediate and the pc matter to what is computed.   *)
LEMMA SameComputation ==
  ASSUME NEW i, NEW j, i.op = j.op, i.imm = j.imm, i.pc = j.pc, NEW x, NEW y
  PROVE  Value(i, x, y) = Value(j, x, y) /\ Target(i, x, y) = Target(j, x, y)
BY DEF Value, Target, Taken

(* The step of an instruction that is neither the exit nor faults.         *)
LEMMA ArchStep ==
  ASSUME Status = "running", ~Arch1!Faults,
         NEW i, i.op = InstrAt(program, CommittedPc).op, i.rd = InstrAt(program, CommittedPc).rd,
         i.rs1 = InstrAt(program, CommittedPc).rs1, i.rs2 = InstrAt(program, CommittedPc).rs2,
         i.imm = InstrAt(program, CommittedPc).imm, i.pc = CommittedPc, i.op # "Ecall",
         NEW x, NEW y, NEW address,
         x = CommittedRegs[i.rs1], y = CommittedRegs[i.rs2], address = WordAdd(x, i.imm),
         CommittedRegs' =
           IF hasDest(i) THEN [CommittedRegs EXCEPT ![i.rd] =
                                 IF i.op \in Loads THEN loadValue(memory, address, i.op)
                                                   ELSE Value(i, x, y)]
                         ELSE CommittedRegs,
         IF i.op \in Stores THEN storeValue(address, y, memorySizeBytes(i.op))
                            ELSE UNCHANGED memory,
         CommittedPc' = Target(i, x, y),
         UNCHANGED <<program, Status, exitCode>>
  PROVE  Arch1!Next
<1> DEFINE d == Arch1!Inst
           h == Arch1!Here
<1>1. /\ d.op = i.op /\ d.rd = i.rd /\ d.rs1 = i.rs1 /\ d.rs2 = i.rs2 /\ d.imm = i.imm
  BY DEF Arch1!Inst, Arch1!InstrAt, InstrAt, Arch1!IllegalInst, IllegalInst
<1>2. h.op = i.op /\ h.imm = i.imm /\ h.pc = i.pc
  BY <1>1 DEF Arch1!Here
<1>3. Arch1!a = x /\ Arch1!b = y /\ Arch1!Address = address
  BY <1>1 DEF Arch1!a, Arch1!b, Arch1!Address, Arch1!WordAdd, WordAdd
<1>4. Arch1!hasDest(d) <=> hasDest(i)
  BY <1>1 DEF Arch1!hasDest, hasDest, Arch1!writesRegister, writesRegister, Arch1!UpperOps,
     UpperOps, Arch1!Jumps, Jumps, Arch1!Loads, Loads, Arch1!ImmOps, ImmOps, Arch1!RegOps, RegOps
<1>5. Arch1!Value(h, x, y) = Value(i, x, y) /\ Arch1!Target(h, x, y) = Target(i, x, y)
  BY <1>2, ArchComputes, SameComputation
<1>6. /\ Arch1!Loads = Loads /\ Arch1!Stores = Stores
      /\ Arch1!memorySizeBytes(i.op) = memorySizeBytes(i.op)
  BY DEF Arch1!Loads, Loads, Arch1!Stores, Stores, Arch1!memorySizeBytes, memorySizeBytes
<1> HIDE DEF d, h
<1>7. CommittedRegs' =
        IF Arch1!hasDest(d)
          THEN [CommittedRegs EXCEPT ![d.rd] =
                  IF d.op \in Arch1!Loads THEN Arch1!M!loadValue(memory, Arch1!Address, d.op)
                                          ELSE Arch1!Value(h, Arch1!a, Arch1!b)]
          ELSE CommittedRegs
  BY <1>1, <1>3, <1>4, <1>5, <1>6, ArchLoads
<1>8. IF d.op \in Arch1!Stores
        THEN Arch1!M!storeValue(Arch1!Address, Arch1!b, Arch1!memorySizeBytes(d.op))
        ELSE UNCHANGED memory
  BY <1>1, <1>3, <1>6, ArchStores
<1>9. CommittedPc' = Arch1!Target(h, Arch1!a, Arch1!b)
  BY <1>3, <1>5
<1> QED
  BY <1>1, <1>7, <1>8, <1>9 DEF Arch1!Next, Arch1!Step, d, h

-----------------------------------------------------------------------------
(* The head of the reorder buffer is what the in-order machine executes    *)

LEMMA RegsByMap ==
  ASSUME MapsBefore
  PROVE  CommittedRegs = [x \in Arch |-> values[MapBefore(0, x)]]
BY DEF CommittedRegs, MapsBefore, read

LEMMA HeadFinds ==
  ASSUME RefinementInv, NEW h \in InFlight, IsHead(h), NEW x \in Arch
  PROVE  /\ MapBefore(h, x) = MapBefore(0, x)
         /\ ~(rob[h].hasDest /\ rob[h].inst.rd = x)
              => MapBefore(h + 1, x) = MapBefore(0, x)
<1>1. /\ h \in Nat /\ \A t \in Writers(InFlight) : t \in Nat /\ h <= t
  BY SeqsBelow DEF RefinementInv, RegisterInv, IsHead, Writers
<1>2. WritersFrom(h, x) = WritersFrom(0, x)
  BY <1>1 DEF WritersFrom
<1>3. ~(rob[h].hasDest /\ rob[h].inst.rd = x) => WritersFrom(h + 1, x) = WritersFrom(0, x)
  <2> SUFFICES ASSUME ~(rob[h].hasDest /\ rob[h].inst.rd = x)
               PROVE  \A t : t \in WritersFrom(h + 1, x) <=> t \in WritersFrom(0, x)
    OBVIOUS
  <2>1. \A t \in Writers(InFlight) : rob[t].inst.rd = x => t >= h + 1
    BY <1>1 DEF Writers
  <2> QED
    BY <1>1, <2>1 DEF WritersFrom
<1> QED
  BY <1>2, <1>3 DEF MapBefore

LEMMA HeadExecutes ==
  ASSUME RefinementInv, stage = "commit", ~halted, NEW h \in InFlight, IsHead(h)
  PROVE  /\ Status = "running" /\ CommittedPc = rob[h].inst.pc
         /\ Src1(rob[h]) = CommittedRegs[rob[h].inst.rs1]
         /\ Src2(rob[h]) = CommittedRegs[rob[h].inst.rs2]
<1>1. Status = "running"
  BY DEF Status
<1>2. TypeOK /\ MapsBefore /\ OperandsNamed
  BY DEF RefinementInv, RegisterInv
<1>3. From(0) = InFlight
  BY <1>2, SeqsBelow DEF From
<1>4. CommittedPc = rob[h].inst.pc
  BY <1>1, <1>2, <1>3, HeadIsOldest DEF MapsBefore, NextPc
<1>5. rob[h].inst.rs1 \in Arch /\ rob[h].inst.rs2 \in Arch
  BY <1>2, OperandTypesOf
<1>6. /\ rob[h].src1Phys = MapBefore(0, rob[h].inst.rs1)
      /\ rob[h].src2Phys = MapBefore(0, rob[h].inst.rs2)
  BY <1>2, <1>5, HeadFinds DEF OperandsNamed
<1> QED
  BY <1>1, <1>2, <1>4, <1>5, <1>6, RegsByMap DEF Src1, Src2, read

(* An exit at the head is alone in the pipeline, which then finds the      *)
(* committed registers in its map.                                         *)
LEMMA ExitAlone ==
  ASSUME RefinementInv, NEW h \in InFlight, IsHead(h), rob[h].inst.op = "Ecall",
         NEW x \in Arch
  PROVE  ~rob[h].hasDest /\ read(physForArch(x)) = CommittedRegs[x]
<1>1. TypeOK /\ ZeroFixed /\ EntriesConsistent /\ MapsBefore
  BY DEF RefinementInv, RegisterInv, SourceInv, DestinationInv
<1>2. ~rob[h].hasDest
  BY <1>1 DEF EntriesConsistent, hasDest, writesRegister, UpperOps, Jumps, Loads, ImmOps, RegOps
<1>3. \A t \in InFlight : t <= h /\ h <= t
  BY DEF RefinementInv, ExitIsYoungest, ExitOps, IsHead
<1>4. \A t \in InFlight : t = h
  BY <1>1, <1>3, SeqsBelow
<1>5. WritersFrom(0, x) = {}
  BY <1>2, <1>4 DEF WritersFrom, Writers
<1>6. physForArch(x) = map[x]
  BY <1>1 DEF physForArch, ZeroFixed
<1> QED
  BY <1>1, <1>2, <1>5, <1>6, RegsByMap DEF MapBefore, read

LEMMA HeadFaults ==
  ASSUME RefinementInv, stage = "commit", ~halted, NEW h \in InFlight, IsHead(h), rob[h].ready
  PROVE  Faults(rob[h]) <=> Arch1!Faults
<1> DEFINE i == rob[h].inst
           d == InstrAt(program, CommittedPc)
<1>1. /\ CommittedPc = i.pc
      /\ Src1(rob[h]) = CommittedRegs[i.rs1]
  BY HeadExecutes
<1>2. i.op = d.op /\ i.rs1 = d.rs1 /\ i.imm = d.imm
  BY <1>1 DEF RefinementInv, ProgramInv, InstsFromProgram, FromProgram
<1>3. accessAddress(rob[h]) = WordAdd(CommittedRegs[i.rs1], i.imm)
  BY <1>1 DEF accessAddress
<1>4. i.op = "Ecall" => SystemCall = CommittedRegs[A7]
  BY ExitAlone, SimulatorAssumption DEF SystemCall
<1>5. rob[h].exception <=> i.op = "Illegal" \/ misaligned(rob[h])
  BY DEF RefinementInv, FaultsExact, Completed
<1>6. Arch1!Faults <=> \/ i.op = "Illegal"
                       \/ i.op = "Ecall" /\ CommittedRegs[A7] # ExitCall
                       \/ misaligned(rob[h])
  BY <1>2, <1>3, ArchFaults DEF misaligned
<1> HIDE DEF d
<1> QED
  BY <1>4, <1>5, <1>6 DEF Faults

-----------------------------------------------------------------------------
(* Every commit is a step of the in-order machine *)

LEMMA CommitsStep ==
  ASSUME RefinementInv, RefinementInv', CommitInstruction
  PROVE  Arch1!Next
<1>1. PICK h \in InFlight :
        /\ Commits(h) /\ ~Faults(rob[h]) /\ rob[h].inst.op # "Ecall"
        /\ IF rob[h].inst.op \in Stores
             THEN storeValue(rob[h].storeAddress, rob[h].storeData,
                             memorySizeBytes(rob[h].inst.op))
             ELSE UNCHANGED memory
        /\ rob' = Only(rob, InFlight \ {h})
  BY DEF CommitInstruction, popHead
<1> DEFINE i == rob[h].inst
<1>2. IsHead(h) /\ rob[h].ready /\ ~halted /\ stage = "commit" /\ Completed(h)
  BY <1>1 DEF CommitInstruction, Commits, Faults, Completed
<1>3. UNCHANGED <<values, program, stage, halted, exitCode>>
  BY DEF CommitInstruction, prfVars, exitVars
<1>4. /\ Status = "running" /\ CommittedPc = i.pc
      /\ Src1(rob[h]) = CommittedRegs[i.rs1]
      /\ Src2(rob[h]) = CommittedRegs[i.rs2]
  BY <1>2, HeadExecutes
<1>5. ~Arch1!Faults
  BY <1>1, <1>2, HeadFaults
<1>6. Status' = Status
  BY <1>3 DEF Status
<1>7. /\ TypeOK /\ OldestExists /\ EntriesConsistent /\ OperandsNamed /\ ResultsExact
      /\ MapsBefore /\ MapsBefore' /\ RegisterInv
  BY DEF RefinementInv, RegisterInv, DestinationInv
<1>8. h \in Nat /\ \A t \in InFlight : t \in Nat /\ h <= t
  BY <1>2, <1>7, SeqsBelow DEF IsHead
<1>9. InFlight' = InFlight \ {h} /\ \A t \in InFlight' : t >= h + 1
  <2>1. InFlight' = InFlight \ {h}
    BY <1>1, Dropped
  <2> QED
    BY <1>8, <2>1
<1>10. /\ NextPc(h + 1)' = NextPc(h + 1)
       /\ \A x \in Arch : MapBefore(h + 1, x)' = MapBefore(h + 1, x)
  <2>1. [Next]_vars /\ ~RenameInstruction /\ ~CompleteRecovering
    BY <1>2 DEF Next, RenameInstruction, CompleteRecovering
  <2>2. \A t \in InFlight : t >= h + 1 => t \in InFlight'
    BY <1>8, <1>9
  <2> QED
    BY <1>7, <2>1, <2>2, NextPcStays, MapBeforeStays
<1>11. \A t \in InFlight' : t >= 0
  BY <1>8, <1>9
<1>12. CommittedPc' = Target(i, Src1(rob[h]), Src2(rob[h]))
  <2>1. From(0)' = From(h + 1)'
    BY <1>9, <1>11 DEF From
  <2>2. CommittedPc' = NextPc(0)'
    BY <1>4, <1>6, <1>7 DEF MapsBefore
  <2>3. CommittedPc' = NextPc(h + 1)'
    BY <2>1, <2>2 DEF NextPc
  <2>4. i.op \notin ExitOps
    BY <1>1, <1>2 DEF ExitOps, RefinementInv, FaultsExact
  <2>5. NextPc(h + 1) = actualTarget(rob[h])
    BY <1>2, <2>4 DEF RefinementInv, ProgramInv, FlightInOrder, ContinuesAt
  <2> QED
    BY <1>10, <2>3, <2>5 DEF actualTarget
<1>13. \A x \in Arch : MapBefore(0, x)' = MapBefore(h + 1, x)
  <2> SUFFICES ASSUME NEW x \in Arch PROVE MapBefore(0, x)' = MapBefore(h + 1, x)
    OBVIOUS
  <2>1. WritersFrom(0, x)' = WritersFrom(h + 1, x)'
    BY <1>9, <1>11 DEF WritersFrom, Writers
  <2>2. MapBefore(0, x)' = MapBefore(h + 1, x)'
    BY <2>1 DEF MapBefore
  <2> QED
    BY <1>10, <2>2
<1>14. rob[h].hasDest <=> hasDest(i)
  BY <1>7 DEF EntriesConsistent
<1>15. CommittedRegs' =
         IF hasDest(i) THEN [CommittedRegs EXCEPT ![i.rd] = Result(rob[h])]
                       ELSE CommittedRegs
  <2>1. /\ CommittedRegs = [x \in Arch |-> values[MapBefore(0, x)]]
        /\ CommittedRegs' = [x \in Arch |-> values[MapBefore(h + 1, x)]]
    BY <1>3, <1>7, <1>13, RegsByMap DEF CommittedRegs, MapsBefore, read
  <2>2. \A x \in Arch : ~(hasDest(i) /\ i.rd = x) => MapBefore(h + 1, x) = MapBefore(0, x)
    BY <1>2, <1>14, HeadFinds
  <2>3. hasDest(i) => values[MapBefore(h + 1, i.rd)] = Result(rob[h])
    BY <1>2, <1>7, <1>14 DEF OperandsNamed, ResultsExact, read
  <2> QED
    BY <2>1, <2>2, <2>3
<1>16. IF i.op \in Stores
         THEN storeValue(accessAddress(rob[h]), Src2(rob[h]), memorySizeBytes(i.op))
         ELSE UNCHANGED memory
  BY <1>1, <1>2, <1>7 DEF ResultsExact
<1>17. LET d == InstrAt(program, CommittedPc) IN
       i.op = d.op /\ i.rd = d.rd /\ i.rs1 = d.rs1 /\ i.rs2 = d.rs2 /\ i.imm = d.imm
  BY <1>4 DEF RefinementInv, ProgramInv, InstsFromProgram, FromProgram
<1>18. /\ accessAddress(rob[h]) = WordAdd(Src1(rob[h]), i.imm)
       /\ Result(rob[h]) = IF i.op \in Loads
                             THEN loadValue(memory, accessAddress(rob[h]), i.op)
                             ELSE Value(i, Src1(rob[h]), Src2(rob[h]))
  BY DEF accessAddress, Result
<1> HIDE DEF i
<1> QED
  BY <1>1, <1>3, <1>4, <1>5, <1>6, <1>12, <1>15, <1>16, <1>17, <1>18, ArchStep DEF i

LEMMA CommitsExit ==
  ASSUME RefinementInv, RefinementInv', CommitEcall
  PROVE  Arch1!Next
<1>1. PICK h \in InFlight :
        /\ Commits(h) /\ ~Faults(rob[h]) /\ rob[h].inst.op = "Ecall"
        /\ rob' = Only(rob, InFlight \ {h})
  BY DEF CommitEcall, popHead
<1>2. IsHead(h) /\ rob[h].ready /\ ~halted /\ stage = "commit"
  BY <1>1 DEF CommitEcall, Commits
<1>3. /\ UNCHANGED <<map, values, program, memory, stage>>
      /\ halted' = TRUE /\ exitCode' = read(physForArch(A0))
  BY DEF CommitEcall, renameVars, prfVars
<1>4. Status = "running" /\ CommittedPc = rob[h].inst.pc
  BY <1>2, HeadExecutes
<1>5. ~Arch1!Faults
  BY <1>1, <1>2, HeadFaults
<1>6. Status' = "done" /\ CommittedPc' = EntryPc
  BY <1>2, <1>3 DEF Status, CommittedPc
<1>7. exitCode' = CommittedRegs[A0]
  BY <1>1, <1>2, <1>3, ExitAlone, SimulatorAssumption
<1>8. CommittedRegs' = CommittedRegs
  <2>1. MapsBefore /\ MapsBefore' /\ ~rob[h].hasDest
    BY <1>1, <1>2, ExitAlone, Zeroes DEF RefinementInv
  <2>2. InFlight' = InFlight \ {h} /\ \A t \in InFlight' : rob'[t] = rob[t]
    BY <1>1, Dropped
  <2>3. ASSUME NEW x \in Arch
        PROVE  MapBefore(0, x)' = MapBefore(0, x)
    <3>1. \A t : t \in WritersFrom(0, x)' <=> t \in WritersFrom(0, x)
      BY <2>1, <2>2 DEF WritersFrom, Writers
    <3>2. WritersFrom(0, x)' = WritersFrom(0, x)
      BY <3>1
    <3>3. WritersFrom(0, x) = {}
      BY <1>1, <1>2, <2>1, SeqsBelow DEF WritersFrom, Writers, RefinementInv,
           RegisterInv, ExitIsYoungest, ExitOps, IsHead
    <3> QED
      BY <1>3, <3>2, <3>3 DEF MapBefore
  <2> QED
    BY <1>3, <2>1, <2>3, RegsByMap DEF CommittedRegs, MapsBefore, read
<1>9. InstrAt(program, CommittedPc).op = "Ecall"
  BY <1>1, <1>4 DEF RefinementInv, ProgramInv, InstsFromProgram, FromProgram
<1>10. Arch1!Inst.op = "Ecall"
  BY <1>9 DEF Arch1!Inst, Arch1!InstrAt, InstrAt, Arch1!IllegalInst, IllegalInst
<1> QED
  BY <1>3, <1>4, <1>5, <1>6, <1>7, <1>8, <1>10 DEF Arch1!Next, Arch1!Exit

LEMMA CommitsFault ==
  ASSUME RefinementInv, CommitFault
  PROVE  Arch1!Next
<1>1. PICK h \in InFlight : Commits(h) /\ Faults(rob[h])
  BY DEF CommitFault
<1>2. IsHead(h) /\ rob[h].ready /\ ~halted /\ stage = "commit"
  BY <1>1 DEF CommitFault, Commits
<1>3. /\ UNCHANGED <<map, values, program, memory, rob, exitCode>>
      /\ stage' = "error"
  BY DEF CommitFault, GoTo, renameVars, prfVars, robVars, exitVars
<1>4. Status = "running" /\ Arch1!Faults
  BY <1>1, <1>2, HeadExecutes, HeadFaults
<1>5. Status' = "error" /\ CommittedPc' = EntryPc
  BY <1>3 DEF Status, CommittedPc
<1>6. CommittedRegs' = CommittedRegs
  BY <1>3 DEF CommittedRegs, CommittedPhys, physForArch, Writers, InFlight, read
<1> QED
  BY <1>3, <1>4, <1>5, <1>6 DEF Arch1!Next, Arch1!Fault

LEMMA InitImplements == Init => Arch1!Init
<1> SUFFICES ASSUME Init PROVE Arch1!Init
  OBVIOUS
<1>1. InFlight = {} /\ stage = "commit" /\ ~halted /\ exitCode = 0
  BY NoEntriesPartial DEF Init, RobInit, InFlight
<1>2. Status = "running"
  BY <1>1 DEF Status
<1>3. CommittedPc = EntryPc
  BY <1>1, <1>2 DEF CommittedPc, Init, FetchInit
<1>4. CommittedRegs = [x \in Arch |-> IF x = SpReg /\ x # 0 THEN InitSp ELSE 0]
  <2>1. \A x \in Arch : CommittedPhys(x) = x
    BY <1>1 DEF CommittedPhys, Writers, physForArch, Init, RenameInit
  <2>2. \A x \in Arch : values[x] = IF x = SpReg /\ x # 0 THEN InitSp ELSE 0
    BY NPhysAssumption, WordAssumption DEF Init, PrfInit, Arch, Phys
  <2> QED
    BY <2>1, <2>2 DEF CommittedRegs, read
<1>5. Arch1!Arch = Arch /\ Arch1!M!MemoryInit
  BY DEF Arch1!Arch, Arch, Init, MemoryInit, Arch1!M!MemoryInit, NoEntries, Arch1!M!NoEntries
<1> QED
  BY <1>1, <1>2, <1>3, <1>4, <1>5 DEF Arch1!Init, Init, FetchInit

(* The pipeline implements the in-order machine: whatever is fetched,      *)
(* predicted, reordered and flushed, the committed registers, the memory,  *)
(* the exit code and the end of a run are those of executing the program   *)
(* one instruction at a time.                                              *)
THEOREM PipelineImplementsIsa == Pipeline /\ []LoadsFollowStores => ImplementsIsa
<1>1. Init => Arch1!Init
  BY InitImplements
<1>2. RefinementInv /\ RefinementInv' /\ [Next]_vars => [Arch1!Next]_(Arch1!isaVars)
  <2> SUFFICES ASSUME RefinementInv, RefinementInv', [Next]_vars
               PROVE  [Arch1!Next]_(Arch1!isaVars)
    OBVIOUS
  <2>1. CASE CommitStep
    BY <2>1, CommitsStep, CommitsExit, CommitsFault DEF CommitStep
  <2>2. CASE ~CommitStep
    BY <2>2, QuietStep DEF Arch1!isaVars
  <2> QED
    BY <2>1, <2>2
<1> QED
  BY <1>1, <1>2, RefinementInvariant, PTL DEF Pipeline, ImplementsIsa, Arch1!Spec

-----------------------------------------------------------------------------
(* Programs that only load or only store *)

NoLoadsWithStores ==
  \A p \in Programs : \A j, k \in 1 .. Len(p) :
    ~(p[j].op \in Loads /\ p[k].op \in Stores)

LEMMA OpsOfProgram ==
  ASSUME InstsFromProgram, NEW s \in InFlight, rob[s].inst.op \in Loads \cup Stores
  PROVE  \E k \in 1 .. Len(program) : program[k].op = rob[s].inst.op
<1>1. FromProgram(program, rob[s].inst)
  BY DEF InstsFromProgram
<1>2. rob[s].inst.op # "Illegal"
  BY DEF Loads, Stores
<1> QED
  BY <1>1, <1>2 DEF FromProgram, InstrAt, IllegalInst

(* For these the implementation holds without any hypothesis on what       *)
(* happens in the pipeline.                                                *)
THEOREM ImplementsWithoutDependencies ==
  ASSUME NoLoadsWithStores
  PROVE  Pipeline => ImplementsIsa
<1>1. TypeOK /\ ProgramInv => LoadsFollowStores
  <2> SUFFICES ASSUME TypeOK, ProgramInv PROVE LoadsFollowStores
    OBVIOUS
  <2>1. program \in Programs
    BY DEF TypeOK, FrontTypeOK
  <2>2. \A s, t \in InFlight : ~(rob[s].inst.op \in Loads /\ rob[t].inst.op \in Stores)
    BY <2>1, OpsOfProgram DEF ProgramInv, NoLoadsWithStores
  <2> QED
    BY <2>2 DEF LoadsFollowStores
<1> QED
  BY <1>1, TypeCorrect, ProgramInvariant, PipelineImplementsIsa, PTL
=============================================================================
