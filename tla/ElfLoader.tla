----------------------------- MODULE ElfLoader ------------------------------
(***************************************************************************)
(* ElfLoader.cpp: the checks of the file header and the loop over the      *)
(* program headers, which copies segments into memory.  A file is its size *)
(* and bytes, the fields of its header, and the program headers that can   *)
(* be read at offsets of it.  Offsets are size_t, which does not overflow  *)
(* on sums of u32 fields.                                                  *)
(***************************************************************************)
EXTENDS Memory

CONSTANT Files

HeaderSize   == 52
SegmentEntry == 32     \* bytes of a program header that are read
PtLoad       == 1

ProgramHeader == [type : Nat, offset : Word, vaddr : Word, filesz : Word, memsz : Word]

ASSUME FilesAssumption ==
  \A f \in Files :
    /\ f.size \in Nat /\ f.bytes \in [0 .. f.size - 1 -> Byte]
    /\ {f.type, f.machine, f.phoff, f.phentsize, f.phnum} \subseteq Nat
    /\ f.entry \in Word
    /\ \A off \in DOMAIN f.headers : f.headers[off] \in ProgramHeader
    /\ f.phentsize >= SegmentEntry =>    \* wherever there are bytes for one
         \A i \in 0 .. f.phnum - 1 :
           LET off == f.phoff + i * f.phentsize
           IN  off + SegmentEntry <= f.size => off \in DOMAIN f.headers

VARIABLES
  file,         \* the file being loaded
  loadStage,    \* where load() is: "header", "segments", "loaded", "failed"
  segment,      \* i, the program header looked at
  lowAddress, highAddress,    \* of LoadedProgram
  loadError     \* the SimError thrown, "none" before

loadVars == <<file, loadStage, segment, lowAddress, highAddress, loadError>>

LoadInit ==
  /\ loadStage = "header" /\ segment = 0 /\ loadError = "none"
  /\ lowAddress = WordMod - 1 /\ highAddress = 0

Throw(message) ==
  /\ loadStage' = "failed" /\ loadError' = message
  /\ UNCHANGED <<memory, file, segment, lowAddress, highAddress>>

(* The first check that fails is the error. *)
HeaderError ==
  CASE file.size < HeaderSize \/ ~file.magic -> "program is not an ELF file"
    [] ~file.elf32le       -> "only little-endian ELF32 is supported"
    [] file.type # 2       -> "only executable bare-metal ELF files are supported"
    [] file.machine # 243  -> "ELF machine is not RISC-V"
    [] file.phentsize < SegmentEntry -> "unsupported ELF program header size"
    [] OTHER -> "none"

CheckHeader ==
  /\ loadStage = "header"
  /\ \/ HeaderError # "none" /\ Throw(HeaderError)
     \/ /\ HeaderError = "none" /\ loadStage' = "segments"
        /\ UNCHANGED <<memory, file, segment, lowAddress, highAddress, loadError>>

-----------------------------------------------------------------------------
headerOffset(i) == file.phoff + i * file.phentsize

HeaderInFile(i) == headerOffset(i) + SegmentEntry <= file.size

(* Mutant: the sum is computed in 32 bits. *)
SegmentInFileNarrow(p) == (p.offset + p.filesz) % WordMod <= file.size

(* Mutant: a segment may not end where the file does. *)
SegmentInFileStrict(p) == p.offset + p.filesz < file.size

SegmentInFile(p) == p.offset + p.filesz <= file.size

(* Mutant: the bytes from the file alone are written. *)
PlacedWithoutZeros(p) ==
  LET touched == {WordAdd(p.vaddr, j) : j \in 0 .. p.filesz - 1}
  IN  [x \in DOMAIN memory \cup touched |->
         IF x \in touched
           THEN LET j == (x - p.vaddr) % WordMod IN
                IF p.offset + j < file.size THEN file.bytes[p.offset + j] ELSE ByteMod
           ELSE memory[x]]

(* The two loops: bytes of the file, then zeros up to p_memsz.  A read     *)
(* behind the end of the file would be a value that is no byte.            *)
Placed(p) ==
  LET length  == IF p.memsz > p.filesz THEN p.memsz ELSE p.filesz
      touched == {WordAdd(p.vaddr, j) : j \in 0 .. length - 1}
  IN  [x \in DOMAIN memory \cup touched |->
         LET j == (x - p.vaddr) % WordMod IN
         CASE x \notin touched -> memory[x]
           [] x \in touched /\ j >= p.filesz -> 0
           [] OTHER -> IF p.offset + j < file.size THEN file.bytes[p.offset + j] ELSE ByteMod]

LoadSegment ==
  /\ loadStage = "segments" /\ segment < file.phnum
  /\ IF ~HeaderInFile(segment) THEN Throw("ELF program header outside file")
     ELSE LET p == file.headers[headerOffset(segment)] IN
       CASE p.type # PtLoad ->
              /\ segment' = segment + 1
              /\ UNCHANGED <<memory, file, loadStage, lowAddress, highAddress, loadError>>
         [] p.type = PtLoad /\ ~SegmentInFile(p) -> Throw("ELF segment outside file")
         [] OTHER ->
              /\ memory' = Placed(p)
              /\ lowAddress' = IF p.vaddr < lowAddress THEN p.vaddr ELSE lowAddress
              /\ highAddress' = LET end == WordAdd(p.vaddr, p.memsz)
                                IN  IF end > highAddress THEN end ELSE highAddress
              /\ segment' = segment + 1
              /\ UNCHANGED <<file, loadStage, loadError>>

FinishLoad ==
  /\ loadStage = "segments" /\ segment >= file.phnum
  /\ IF lowAddress = WordMod - 1 THEN Throw("ELF contains no loadable segments")
     ELSE /\ loadStage' = "loaded"
          /\ UNCHANGED <<memory, file, segment, lowAddress, highAddress, loadError>>

LoadStep == CheckHeader \/ LoadSegment \/ FinishLoad
=============================================================================
