----------------------------- MODULE MainProofs -----------------------------
(***************************************************************************)
(* The process from its arguments to its status, for every list of         *)
(* arguments, configuration and program file: what a program is loaded     *)
(* from and into, which failures the status shows, and what a report is of.*)
(***************************************************************************)
EXTENDS MainProperties, Sums, TLAPS

-----------------------------------------------------------------------------
(* Addresses *)

(* Addresses from a on wrap, and their distance from a does not.           *)
LEMMA Wraps ==
  ASSUME NEW a \in Word
  PROVE  /\ \A x \in Word : (x - a) % WordMod \in Word /\ WordAdd(a, (x - a) % WordMod) = x
         /\ \A j \in Word : WordAdd(a, j) \in Word /\ (WordAdd(a, j) - a) % WordMod = j
<1> DEFINE W == WordMod
<1>1. W \in Nat \ {0, 1} /\ a \in 0 .. W - 1
  BY WordAssumption DEF Word
<1> HIDE DEF W
<1>2. \A z \in 0 .. W - 1 : z % W = z
  BY <1>1
<1>3. \A z \in W .. 2 * W - 1 : z % W = z - W
  BY <1>1
<1>4. \A z \in -W .. -1 : z % W = z + W
  BY <1>1
<1>5. ASSUME NEW x \in 0 .. W - 1
      PROVE  (x - a) % W \in 0 .. W - 1 /\ (a + ((x - a) % W)) % W = x
  <2>1. CASE x >= a
    BY <1>1, <1>2, <2>1
  <2>2. CASE x < a
    <3>1. (x - a) % W = x - a + W
      BY <1>1, <1>4, <2>2
    <3>2. a + (x - a + W) = x + W
      BY <1>1
    <3> QED
      BY <1>1, <1>3, <2>2, <3>1, <3>2
  <2> QED
    BY <1>1, <2>1, <2>2
<1>6. ASSUME NEW j \in 0 .. W - 1
      PROVE  (a + j) % W \in 0 .. W - 1 /\ (((a + j) % W) - a) % W = j
  <2>1. CASE a + j < W
    BY <1>1, <1>2, <2>1
  <2>2. CASE a + j >= W
    <3>1. (a + j) % W = a + j - W
      BY <1>1, <1>3, <2>2
    <3>2. (a + j - W) - a = j - W
      BY <1>1
    <3> QED
      BY <1>1, <1>4, <2>2, <3>1, <3>2
  <2> QED
    BY <1>1, <2>1, <2>2
<1> QED
  BY <1>5, <1>6 DEF W, Word, WordAdd

-----------------------------------------------------------------------------
(* The file *)

(* What ElfLoader checks of the header of the file. *)
LEMMA HeaderChecked ==
  ASSUME file \in Files
  PROVE  HeaderError = "none" <=>
           /\ file.size >= HeaderSize /\ file.magic /\ file.elf32le
           /\ file.type = 2 /\ file.machine = 243 /\ file.phentsize >= SegmentEntry
<1>1. file.size \in Nat /\ file.phentsize \in Nat
  BY FilesAssumption
<1>2. (file.size < HeaderSize) <=> ~(file.size >= HeaderSize)
  BY <1>1 DEF HeaderSize
<1>3. (file.phentsize < SegmentEntry) <=> ~(file.phentsize >= SegmentEntry)
  BY <1>1 DEF SegmentEntry
<1> QED
  BY <1>2, <1>3 DEF HeaderError

(* A program header that lies in the file can be read, and is one. *)
LEMMA HeaderReadable ==
  ASSUME file \in Files, HeaderError = "none", NEW i \in Indices
  PROVE  /\ headerOffset(i) \in Nat
         /\ HeaderInFile(i) => headerOffset(i) \in DOMAIN file.headers
         /\ headerOffset(i) \in DOMAIN file.headers => SegmentAt(i) \in ProgramHeader
<1>1. file.phoff \in Nat /\ file.phentsize \in Nat /\ file.phnum \in Nat /\ i \in Nat
  BY FilesAssumption DEF Indices
<1>2. i * file.phentsize \in Nat
  BY <1>1
<1>3. headerOffset(i) \in Nat
  <2> DEFINE z == i * file.phentsize
  <2> HIDE DEF z
  <2>1. file.phoff + z \in Nat
    BY <1>1, <1>2 DEF z
  <2> QED
    BY <2>1 DEF headerOffset, z
<1>4. file.phentsize >= SegmentEntry
  BY HeaderChecked
<1>5. HeaderInFile(i) => headerOffset(i) \in DOMAIN file.headers
  <2>1. \A k \in 0 .. file.phnum - 1 :
          LET off == file.phoff + k * file.phentsize
          IN  off + SegmentEntry <= file.size => off \in DOMAIN file.headers
    BY <1>4, FilesAssumption
  <2>2. i \in 0 .. file.phnum - 1
    BY DEF Indices
  <2> QED
    BY <2>1, <2>2 DEF HeaderInFile, headerOffset
<1>6. headerOffset(i) \in DOMAIN file.headers => SegmentAt(i) \in ProgramHeader
  BY FilesAssumption DEF SegmentAt
<1> QED
  BY <1>3, <1>5, <1>6

(* The loadable ones of the first n program headers, all of which lie in   *)
(* the file, with the bytes that they name.                                *)
Seen(n) == {i \in 0 .. n - 1 : SegmentAt(i).type = PtLoad}

InFile(i) ==
  HeaderInFile(i) /\ (SegmentAt(i).type = PtLoad => SegmentInFile(SegmentAt(i)))

(* A file is well-formed when its header and all that it names pass. *)
LEMMA WholeFile ==
  ASSUME file \in Files, HeaderError = "none"
  PROVE  /\ WellFormed <=> \A i \in Indices : InFile(i)
         /\ WellFormed => LoadSegments = Seen(file.phnum)
<1>1. file.size \in Nat /\ file.phnum \in Nat /\ DOMAIN file.bytes = 0 .. file.size - 1
  BY FilesAssumption
<1>2. ASSUME NEW i \in Indices
      PROVE  /\ HeaderInFile(i)
                  <=> \A k \in 0 .. SegmentEntry - 1 : headerOffset(i) + k \in DOMAIN file.bytes
             /\ HeaderInFile(i) => (i \in LoadSegments <=> SegmentAt(i).type = PtLoad)
  <2>1. headerOffset(i) \in Nat
    BY HeaderReadable
  <2>2. HeaderInFile(i) => headerOffset(i) \in DOMAIN file.headers
    BY HeaderReadable
  <2>3. ASSUME HeaderInFile(i), NEW k \in 0 .. SegmentEntry - 1
        PROVE  headerOffset(i) + k \in DOMAIN file.bytes
    BY <1>1, <2>1, <2>3 DEF HeaderInFile, SegmentEntry
  <2>4. ASSUME \A k \in 0 .. SegmentEntry - 1 : headerOffset(i) + k \in DOMAIN file.bytes
        PROVE  HeaderInFile(i)
    <3>1. headerOffset(i) + 31 \in DOMAIN file.bytes
      BY <2>4 DEF SegmentEntry
    <3> QED
      BY <1>1, <2>1, <3>1 DEF HeaderInFile, SegmentEntry
  <2> QED
    BY <2>2, <2>3, <2>4 DEF LoadSegments, SegmentAt
<1>3. ASSUME NEW i \in Indices, HeaderInFile(i)
      PROVE  SegmentInFile(SegmentAt(i))
               <=> /\ SegmentAt(i).offset \in 0 .. file.size
                   /\ \A j \in 0 .. SegmentAt(i).filesz - 1 :
                        SegmentAt(i).offset + j \in DOMAIN file.bytes
  <2> DEFINE p == SegmentAt(i)
  <2>1. p.offset \in Nat /\ p.filesz \in Nat
    BY <1>3, HeaderReadable, WordAssumption DEF ProgramHeader, Word
  <2> HIDE DEF p
  <2>2. ASSUME SegmentInFile(p)
        PROVE  /\ p.offset \in 0 .. file.size
               /\ \A j \in 0 .. p.filesz - 1 : p.offset + j \in DOMAIN file.bytes
    BY <1>1, <2>1, <2>2 DEF SegmentInFile
  <2>3. ASSUME p.offset \in 0 .. file.size,
               \A j \in 0 .. p.filesz - 1 : p.offset + j \in DOMAIN file.bytes
        PROVE  SegmentInFile(p)
    <3>1. CASE p.filesz = 0
      BY <1>1, <2>1, <2>3, <3>1 DEF SegmentInFile
    <3>2. CASE p.filesz # 0
      <4>1. p.filesz - 1 \in 0 .. p.filesz - 1
        BY <2>1, <3>2
      <4>2. p.offset + (p.filesz - 1) \in 0 .. file.size - 1
        BY <1>1, <2>3, <4>1
      <4> QED
        BY <1>1, <2>1, <4>2 DEF SegmentInFile
    <3> QED
      BY <3>1, <3>2
  <2> QED
    BY <2>2, <2>3 DEF p
<1>4. LoadSegments \subseteq Indices
  BY DEF LoadSegments
<1>5. /\ file.size >= HeaderSize /\ file.magic /\ file.elf32le
      /\ file.type = 2 /\ file.machine = 243
  BY HeaderChecked
<1>6. ASSUME \A i \in Indices : InFile(i) PROVE WellFormed
  BY <1>2, <1>3, <1>4, <1>5, <1>6 DEF WellFormed, InFile
<1>7. ASSUME WellFormed PROVE \A i \in Indices : InFile(i)
  BY <1>2, <1>3, <1>7 DEF WellFormed, InFile
<1>8. ASSUME WellFormed PROVE LoadSegments = Seen(file.phnum)
  <2>1. Indices = 0 .. file.phnum - 1
    BY DEF Indices
  <2>2. \A i \in Indices : HeaderInFile(i)
    BY <1>7, <1>8 DEF InFile
  <2> QED
    BY <1>2, <1>4, <2>1, <2>2 DEF Seen
<1> QED
  BY <1>6, <1>7, <1>8

-----------------------------------------------------------------------------
(* The loop over the program headers *)

(* The least address of those seen, or the greatest of all. *)
LowestOf(low, n) ==
  /\ low \in Word
  /\ \A i \in Seen(n) : low <= SegmentAt(i).vaddr
  /\ low # WordMod - 1 => Seen(n) # {}

Covers(i, x) == (x - SegmentAt(i).vaddr) % WordMod < Length(SegmentAt(i))

SegmentByte(i, x) ==
  LET p == SegmentAt(i)
      j == (x - p.vaddr) % WordMod
  IN  IF j < p.filesz THEN file.bytes[p.offset + j] ELSE 0

(* Each byte is that of the last of the first n segments that covers it.   *)
ImageOf(m, n) ==
  /\ DOMAIN m \subseteq Word
  /\ \A x \in Word :
       IF x \in DOMAIN m
         THEN \E i \in Seen(n) : /\ Covers(i, x) /\ m[x] = SegmentByte(i, x)
                                 /\ \A j \in Seen(n) : Covers(j, x) => j <= i
         ELSE \A j \in Seen(n) : ~Covers(j, x)

LoopInv(m, low, n) ==
  /\ n \in 0 .. file.phnum
  /\ \A i \in 0 .. n - 1 : InFile(i)
  /\ LowestOf(low, n)
  /\ ImageOf(m, n)

Loadable ==
  /\ WellFormed /\ file.phentsize >= SegmentEntry
  /\ \E i \in LoadSegments : SegmentAt(i).vaddr # WordMod - 1

LoaderInv ==
  /\ loadStage \in {"header", "segments", "loaded", "failed"}
  /\ loadStage = "header" =>
       segment = 0 /\ lowAddress = WordMod - 1 /\ memory = NoEntries
  /\ loadStage # "header" => file \in Files
  /\ loadStage \in {"segments", "loaded"} =>
       HeaderError = "none" /\ LoopInv(memory, lowAddress, segment)
  /\ loadStage = "loaded" => segment = file.phnum /\ lowAddress # WordMod - 1
  /\ loadStage = "failed" => ~Loadable

(* A segment written to memory covers what it covers. *)
LEMMA PlacedCovers ==
  ASSUME file \in Files, NEW i, SegmentAt(i) \in ProgramHeader, SegmentInFile(SegmentAt(i)),
         DOMAIN memory \subseteq Word
  PROVE  LET m == Placed(SegmentAt(i)) IN
         /\ DOMAIN m \subseteq Word
         /\ \A x \in Word : /\ x \in DOMAIN m <=> x \in DOMAIN memory \/ Covers(i, x)
                            /\ Covers(i, x) => m[x] = SegmentByte(i, x)
                            /\ ~Covers(i, x) /\ x \in DOMAIN memory => m[x] = memory[x]
<1> DEFINE p == SegmentAt(i)
           length == IF p.memsz > p.filesz THEN p.memsz ELSE p.filesz
           touched == {WordAdd(p.vaddr, j) : j \in 0 .. length - 1}
           m == Placed(p)
<1>1. /\ p.vaddr \in Word /\ p.offset \in Nat /\ p.filesz \in Nat /\ length \in Word
      /\ WordMod \in Nat /\ Length(p) = length
  BY WordAssumption DEF ProgramHeader, Word, Length
<1>2. p.offset + p.filesz <= file.size /\ file.size \in Nat
  BY FilesAssumption DEF SegmentInFile
<1>3. m = [x \in DOMAIN memory \cup touched |->
             LET j == (x - p.vaddr) % WordMod IN
             CASE x \notin touched -> memory[x]
               [] x \in touched /\ j >= p.filesz -> 0
               [] OTHER -> IF p.offset + j < file.size THEN file.bytes[p.offset + j] ELSE ByteMod]
  BY DEF Placed
<1> HIDE DEF m, p, length
<1>4. \A j \in 0 .. length - 1 : j \in Word
  BY <1>1 DEF Word
<1>5. ASSUME NEW x \in Word PROVE x \in touched <=> Covers(i, x)
  <2>1. ASSUME NEW j \in 0 .. length - 1, x = WordAdd(p.vaddr, j)
        PROVE  (x - p.vaddr) % WordMod < length
    <3>1. (x - p.vaddr) % WordMod = j
      BY <1>1, <1>4, <2>1, Wraps
    <3> QED
      BY <1>1, <3>1 DEF Word
  <2>2. ASSUME (x - p.vaddr) % WordMod < length PROVE x \in touched
    <3> DEFINE j == (x - p.vaddr) % WordMod
    <3>1. j \in Word /\ WordAdd(p.vaddr, j) = x
      BY <1>1, Wraps
    <3>2. j < length
      BY <2>2
    <3> HIDE DEF j
    <3>3. j \in 0 .. length - 1
      BY <1>1, <3>1, <3>2 DEF Word
    <3> QED
      BY <3>1, <3>3
  <2>3. Covers(i, x) <=> (x - p.vaddr) % WordMod < length
    BY <1>1 DEF Covers, p
  <2> QED
    BY <2>1, <2>2, <2>3
<1>6. touched \subseteq Word
  BY <1>1, <1>4, Wraps
<1> HIDE DEF touched
<1>7. DOMAIN m = DOMAIN memory \cup touched
  BY <1>3
<1>8. ASSUME NEW x \in Word, x \in touched PROVE m[x] = SegmentByte(i, x)
  <2> DEFINE j == (x - p.vaddr) % WordMod
  <2>1. j \in Nat
    <3>1. j \in Word
      BY <1>1, Wraps
    <3> HIDE DEF j
    <3> QED
      BY <3>1, WordAssumption DEF Word
  <2>2. m[x] = IF j >= p.filesz THEN 0
               ELSE IF p.offset + j < file.size THEN file.bytes[p.offset + j] ELSE ByteMod
    BY <1>3, <1>8
  <2>3. SegmentByte(i, x) = IF j < p.filesz THEN file.bytes[p.offset + j] ELSE 0
    BY DEF SegmentByte, p
  <2> HIDE DEF j
  <2>4. CASE j >= p.filesz
    BY <1>1, <2>1, <2>2, <2>3, <2>4
  <2>5. CASE j < p.filesz
    <3>1. p.offset + j < file.size /\ ~(j >= p.filesz)
      BY <1>1, <1>2, <2>1, <2>5
    <3> QED
      BY <2>2, <2>3, <2>5, <3>1
  <2> QED
    BY <1>1, <2>1, <2>4, <2>5
<1>9. ASSUME NEW x \in Word, x \notin touched, x \in DOMAIN memory PROVE m[x] = memory[x]
  BY <1>3, <1>9
<1> QED
  BY <1>5, <1>6, <1>7, <1>8, <1>9 DEF m, p

LEMMA LoopInvNext ==
  ASSUME UNCHANGED file, LoopInv(memory', lowAddress', segment')
  PROVE  LoopInv(memory, lowAddress, segment)'
<1>1. /\ \A i : SegmentAt(i)' = SegmentAt(i) /\ HeaderInFile(i)' = HeaderInFile(i)
      /\ \A i : InFile(i)' <=> InFile(i)
      /\ \A n : Seen(n)' = Seen(n)
  BY DEF SegmentAt, HeaderInFile, headerOffset, InFile, SegmentInFile, Seen
<1>2. \A i, x : (Covers(i, x)' <=> Covers(i, x)) /\ SegmentByte(i, x)' = SegmentByte(i, x)
  BY DEF SegmentAt, headerOffset, Covers, SegmentByte, Length
<1>3. LowestOf(lowAddress, segment)'
  BY <1>1 DEF LowestOf, LoopInv
<1>4. ImageOf(memory, segment)'
  BY <1>1, <1>2 DEF ImageOf, LoopInv
<1> QED
  BY <1>1, <1>3, <1>4 DEF LoopInv

(* A program header of another type changes nothing. *)
LEMMA SegmentPassed ==
  ASSUME NEW m, NEW low, NEW n \in Nat, n < file.phnum, file.phnum \in Nat,
         LoopInv(m, low, n), InFile(n), SegmentAt(n).type # PtLoad
  PROVE  LoopInv(m, low, n + 1)
<1>1. 0 .. (n + 1) - 1 = (0 .. n - 1) \cup {n}
  OBVIOUS
<1>2. Seen(n + 1) = Seen(n)
  BY <1>1 DEF Seen
<1>3. \A i \in 0 .. (n + 1) - 1 : InFile(i)
  BY <1>1 DEF LoopInv
<1>4. n + 1 \in 0 .. file.phnum
  OBVIOUS
<1> QED
  BY <1>2, <1>3, <1>4 DEF LoopInv, LowestOf, ImageOf

(* A loadable one overlays what was there. *)
LEMMA SegmentLoaded ==
  ASSUME NEW n \in Nat, n < file.phnum, file \in Files, HeaderError = "none",
         LoopInv(memory, lowAddress, n), InFile(n), SegmentAt(n).type = PtLoad
  PROVE  LoopInv(Placed(SegmentAt(n)),
                 IF SegmentAt(n).vaddr < lowAddress THEN SegmentAt(n).vaddr ELSE lowAddress,
                 n + 1)
<1> DEFINE p == SegmentAt(n)
           m == Placed(SegmentAt(n))
           low == IF p.vaddr < lowAddress THEN p.vaddr ELSE lowAddress
<1>1. file.phnum \in Nat /\ n \in Indices
  BY FilesAssumption DEF Indices
<1>2. p \in ProgramHeader /\ SegmentInFile(p)
  BY <1>1, HeaderReadable DEF InFile
<1>3. 0 .. (n + 1) - 1 = (0 .. n - 1) \cup {n} /\ n \notin 0 .. n - 1
  OBVIOUS
<1>4. Seen(n + 1) = Seen(n) \cup {n} /\ \A i \in Seen(n) : i \in Nat /\ i < n
  BY <1>3 DEF Seen
<1>5. LowestOf(low, n + 1)
  <2>1. p.vaddr \in Int /\ p.vaddr \in Word /\ lowAddress \in Int /\ lowAddress \in Word
    BY <1>2, WordAssumption DEF ProgramHeader, Word, LoopInv, LowestOf
  <2>2. low \in Word /\ low <= p.vaddr /\ low <= lowAddress
    BY <2>1
  <2>3. \A i \in Seen(n) : lowAddress <= SegmentAt(i).vaddr /\ SegmentAt(i).vaddr \in Int
    <3>1. \A i \in Seen(n) : i \in Indices /\ InFile(i)
      BY <1>1, <1>4 DEF LoopInv, Seen, Indices
    <3>2. \A i \in Seen(n) : SegmentAt(i) \in ProgramHeader
      BY <3>1, HeaderReadable DEF InFile
    <3> QED
      BY <3>2, WordAssumption DEF ProgramHeader, Word, LoopInv, LowestOf
  <2> HIDE DEF low, p
  <2>4. \A i \in Seen(n) : low <= SegmentAt(i).vaddr
    BY <2>1, <2>2, <2>3, WordAssumption DEF Word
  <2> QED
    BY <1>4, <2>2, <2>4 DEF LowestOf, p
<1>6. ImageOf(m, n + 1)
  <2>1. DOMAIN memory \subseteq Word
    BY DEF LoopInv, ImageOf
  <2>2. /\ DOMAIN m \subseteq Word
        /\ \A x \in Word : /\ x \in DOMAIN m <=> x \in DOMAIN memory \/ Covers(n, x)
                           /\ Covers(n, x) => m[x] = SegmentByte(n, x)
                           /\ ~Covers(n, x) /\ x \in DOMAIN memory => m[x] = memory[x]
    BY <1>2, <2>1, PlacedCovers
  <2> HIDE DEF m, p
  <2> SUFFICES ASSUME NEW x \in Word
               PROVE  IF x \in DOMAIN m
                        THEN \E i \in Seen(n + 1) :
                               /\ Covers(i, x) /\ m[x] = SegmentByte(i, x)
                               /\ \A j \in Seen(n + 1) : Covers(j, x) => j <= i
                        ELSE \A j \in Seen(n + 1) : ~Covers(j, x)
    BY <2>2 DEF ImageOf
  <2>3. IF x \in DOMAIN memory
          THEN \E i \in Seen(n) : /\ Covers(i, x) /\ memory[x] = SegmentByte(i, x)
                                  /\ \A j \in Seen(n) : Covers(j, x) => j <= i
          ELSE \A j \in Seen(n) : ~Covers(j, x)
    BY DEF LoopInv, ImageOf
  <2>4. CASE Covers(n, x)
    <3>1. x \in DOMAIN m /\ m[x] = SegmentByte(n, x)
      BY <2>2, <2>4
    <3>2. \A j \in Seen(n + 1) : j <= n
      BY <1>4
    <3> QED
      BY <1>4, <2>4, <3>1, <3>2
  <2>5. CASE ~Covers(n, x)
    <3>1. x \in DOMAIN m <=> x \in DOMAIN memory
      BY <2>2, <2>5
    <3>2. x \in DOMAIN memory => m[x] = memory[x]
      BY <2>2, <2>5
    <3> QED
      BY <1>4, <2>3, <2>5, <3>1, <3>2
  <2> QED
    BY <2>4, <2>5
<1>7. \A i \in 0 .. (n + 1) - 1 : InFile(i)
  BY <1>3 DEF LoopInv
<1>8. n + 1 \in 0 .. file.phnum
  BY <1>1
<1> QED
  BY <1>5, <1>6, <1>7, <1>8 DEF LoopInv

LEMMA FileStays ==
  ASSUME UNCHANGED file
  PROVE  /\ HeaderError' = HeaderError
         /\ Loadable' <=> Loadable
<1>1. \A i : SegmentAt(i)' = SegmentAt(i) /\ headerOffset(i)' = headerOffset(i)
  BY DEF SegmentAt, headerOffset
<1>2. Indices' = Indices /\ LoadSegments' = LoadSegments
  BY <1>1 DEF Indices, LoadSegments
<1>3. WellFormed' <=> WellFormed
  BY <1>1, <1>2 DEF WellFormed
<1> QED
  BY <1>1, <1>2, <1>3 DEF Loadable, HeaderError

(* What does not pass is not well-formed. *)
LEMMA FailsUnloadable ==
  ASSUME LoaderInv, file \in Files, UNCHANGED <<memory, file, segment, lowAddress>>,
         loadStage' = "failed", ~Loadable
  PROVE  LoaderInv'
BY FileStays DEF LoaderInv

LEMMA LoadStepKeeps ==
  ASSUME LoaderInv, file \in Files, LoadStep
  PROVE  LoaderInv'
<1>0. file.phnum \in Nat /\ file.size \in Nat
  BY FilesAssumption
<1>1. CASE CheckHeader /\ HeaderError # "none"
  <2>1. Throw(HeaderError)
    BY <1>1 DEF CheckHeader
  <2>2. ~Loadable
    BY <1>1, HeaderChecked DEF Loadable, WellFormed
  <2> QED
    BY <2>1, <2>2, FailsUnloadable DEF Throw
<1>2. CASE CheckHeader /\ HeaderError = "none"
  <2>1. /\ loadStage = "header" /\ loadStage' = "segments"
        /\ UNCHANGED <<memory, file, segment, lowAddress>>
    BY <1>2 DEF CheckHeader
  <2>2. segment = 0 /\ lowAddress = WordMod - 1 /\ memory = NoEntries
    BY <2>1 DEF LoaderInv
  <2>3. Seen(0) = {} /\ 0 .. 0 - 1 = {}
    BY DEF Seen
  <2>4. LoopInv(memory, lowAddress, segment)
    <3>1. WordMod - 1 \in Word
      BY WordAssumption DEF Word
    <3> QED
      BY <1>0, <2>2, <2>3, <3>1 DEF LoopInv, LowestOf, ImageOf, NoEntries
  <2>5. LoopInv(memory, lowAddress, segment)'
    BY <2>1, <2>4, LoopInvNext
  <2>6. HeaderError' = "none"
    BY <1>2, <2>1, FileStays
  <2> QED
    BY <2>1, <2>5, <2>6 DEF LoaderInv
<1>3. CASE LoadSegment
  <2> DEFINE p == SegmentAt(segment)
  <2>1. /\ loadStage = "segments" /\ segment < file.phnum
        /\ HeaderError = "none" /\ LoopInv(memory, lowAddress, segment)
    BY <1>3 DEF LoadSegment, LoaderInv
  <2>2. segment \in Nat /\ segment \in Indices
    BY <1>0, <2>1 DEF LoopInv, Indices
  <2>3. CASE ~HeaderInFile(segment) \/ (p.type = PtLoad /\ ~SegmentInFile(p))
    <3>1. \E message : Throw(message)
      BY <1>3, <2>3 DEF LoadSegment, SegmentAt
    <3>2. ~InFile(segment)
      BY <2>3 DEF InFile
    <3>3. ~Loadable
      BY <2>1, <2>2, <3>2, WholeFile DEF Loadable
    <3> QED
      BY <3>1, <3>3, FailsUnloadable DEF Throw
  <2>4. CASE HeaderInFile(segment) /\ p.type # PtLoad
    <3>1. segment' = segment + 1 /\ UNCHANGED <<memory, file, loadStage, lowAddress>>
      BY <1>3, <2>4 DEF LoadSegment, SegmentAt
    <3>2. LoopInv(memory, lowAddress, segment + 1)
      BY <1>0, <2>1, <2>2, <2>4, SegmentPassed DEF InFile
    <3>3. LoopInv(memory, lowAddress, segment)'
      BY <3>1, <3>2, LoopInvNext
    <3> QED
      BY <2>1, <3>1, <3>3, FileStays DEF LoaderInv
  <2>5. CASE HeaderInFile(segment) /\ p.type = PtLoad /\ SegmentInFile(p)
    <3>1. /\ memory' = Placed(p) /\ segment' = segment + 1
          /\ lowAddress' = IF p.vaddr < lowAddress THEN p.vaddr ELSE lowAddress
          /\ UNCHANGED <<file, loadStage>>
      BY <1>3, <2>5 DEF LoadSegment, SegmentAt
    <3>2. LoopInv(Placed(p), IF p.vaddr < lowAddress THEN p.vaddr ELSE lowAddress, segment + 1)
      BY <2>1, <2>2, <2>5, SegmentLoaded DEF InFile
    <3>3. LoopInv(memory, lowAddress, segment)'
      BY <3>1, <3>2, LoopInvNext
    <3> QED
      BY <2>1, <3>1, <3>3, FileStays DEF LoaderInv
  <2> QED
    BY <2>3, <2>4, <2>5
<1>4. CASE FinishLoad
  <2>1. /\ loadStage = "segments" /\ segment >= file.phnum
        /\ HeaderError = "none" /\ LoopInv(memory, lowAddress, segment)
    BY <1>4 DEF FinishLoad, LoaderInv
  <2>2. segment = file.phnum
    BY <1>0, <2>1 DEF LoopInv
  <2>3. CASE lowAddress = WordMod - 1
    <3>1. \E message : Throw(message)
      BY <1>4, <2>3 DEF FinishLoad
    <3>2. \A i \in Seen(file.phnum) : WordMod - 1 <= SegmentAt(i).vaddr
      BY <2>1, <2>2, <2>3 DEF LoopInv, LowestOf
    <3>3. ASSUME WellFormed, NEW i \in LoadSegments PROVE SegmentAt(i).vaddr = WordMod - 1
      <4>1. i \in Seen(file.phnum)
        BY <2>1, <3>3, WholeFile
      <4>2. SegmentAt(i) \in ProgramHeader
        <5>1. i \in Indices
          BY DEF LoadSegments
        <5> QED
          BY <2>1, <3>3, <5>1, HeaderReadable, WholeFile DEF InFile
      <4>3. SegmentAt(i).vaddr \in 0 .. WordMod - 1
        BY <4>2 DEF ProgramHeader, Word
      <4>4. WordMod - 1 <= SegmentAt(i).vaddr
        BY <3>2, <4>1
      <4> QED
        BY <4>3, <4>4, WordAssumption
    <3>4. ~Loadable
      BY <3>3 DEF Loadable
    <3> QED
      BY <3>1, <3>4, FailsUnloadable DEF Throw
  <2>4. CASE lowAddress # WordMod - 1
    <3>1. loadStage' = "loaded" /\ UNCHANGED <<memory, file, segment, lowAddress>>
      BY <1>4, <2>4 DEF FinishLoad
    <3>2. LoopInv(memory, lowAddress, segment)'
      BY <2>1, <3>1, LoopInvNext
    <3> QED
      BY <2>1, <2>2, <2>4, <3>1, <3>2, FileStays DEF LoaderInv
  <2> QED
    BY <2>3, <2>4
<1> QED
  BY <1>1, <1>2, <1>3, <1>4 DEF LoadStep, CheckHeader

(* The loader runs when main has a file, and before the simulator does.    *)
ProcessInv ==
  /\ mainStage \in {"arguments", "config", "open", "load", "run", "report", "return", "exited"}
  /\ mainStage \in {"arguments", "config", "open"} => loadStage = "header"
  /\ mainStage = "load" => file \in Files
  /\ mainStage \in {"run", "report", "return"} => loadStage = "loaded"

LEMMA LoaderStays ==
  ASSUME LoaderInv, UNCHANGED <<memory, loadVars>>
  PROVE  LoaderInv'
<1>1. UNCHANGED <<memory, file, loadStage, segment, lowAddress>>
  BY DEF loadVars
<1>2. LoopInv(memory, lowAddress, segment) => LoopInv(memory, lowAddress, segment)'
  BY <1>1, LoopInvNext
<1> QED
  BY <1>1, <1>2, FileStays DEF LoaderInv

LEMMA LoaderInvariant == Spec => [](LoaderInv /\ ProcessInv)
<1>1. Init => LoaderInv /\ ProcessInv
  <2>1. WordMod - 1 \in Word
    BY WordAssumption DEF Word
  <2> QED
    BY DEF Init, MemoryInit, LoadInit, MainInit, LoaderInv, ProcessInv
<1>2. LoaderInv /\ ProcessInv /\ [Next]_vars => (LoaderInv /\ ProcessInv)'
  <2> SUFFICES ASSUME LoaderInv, ProcessInv, [Next]_vars PROVE LoaderInv' /\ ProcessInv'
    OBVIOUS
  <2>1. CASE UNCHANGED <<memory, loadVars, mainVars>>
    <3>1. ProcessInv'
      BY <2>1 DEF loadVars, mainVars, ProcessInv
    <3> QED
      BY <2>1, <3>1, LoaderStays
  <2>2. CASE TakeOption \/ PrintUsage \/ EndOfArguments \/ Configure(Texts)
    <3>1. UNCHANGED <<memory, loadVars>>
      BY <2>2 DEF TakeOption, PrintUsage, EndOfArguments, Configure, StayInMemory
    <3>2. /\ mainStage \in {"arguments", "config"}
          /\ mainStage' \in {"arguments", "config", "open", "exited"}
      BY <2>2 DEF TakeOption, PrintUsage, EndOfArguments, Configure, Exit, Caught
    <3>3. ProcessInv'
      BY <3>1, <3>2 DEF ProcessInv, loadVars
    <3> QED
      BY <3>1, <3>3, LoaderStays
  <2>3. CASE OpenProgram
    <3>1. mainStage = "open" /\ loadStage = "header"
      BY <2>3 DEF OpenProgram, ProcessInv
    <3>2. CASE program \notin DOMAIN ElfAt
      <4>1. UNCHANGED <<memory, loadVars>> /\ mainStage' = "exited"
        BY <2>3, <3>2 DEF OpenProgram, StayInMemory, Caught, Exit
      <4>2. ProcessInv'
        BY <4>1 DEF ProcessInv
      <4> QED
        BY <4>1, <4>2, LoaderStays
    <3>3. CASE program \in DOMAIN ElfAt
      <4>1. /\ mainStage' = "load" /\ file' \in ElfAt[program]
            /\ UNCHANGED <<memory, loadStage, segment, lowAddress>>
        BY <2>3, <3>3 DEF OpenProgram
      <4>2. file' \in Files
        BY <3>3, <4>1, MainAssumption DEF IsPartial
      <4> QED
        BY <3>1, <4>1, <4>2 DEF LoaderInv, ProcessInv
    <3> QED
      BY <3>2, <3>3
  <2>4. CASE LoadProgram
    <3>1. mainStage = "load" /\ file \in Files
      BY <2>4 DEF LoadProgram, ProcessInv
    <3>2. CASE LoadStep /\ UNCHANGED mainVars
      <4>1. LoaderInv'
        BY <3>1, <3>2, LoadStepKeeps
      <4>2. UNCHANGED <<file, mainStage>>
        BY <3>2 DEF LoadStep, CheckHeader, LoadSegment, FinishLoad, Throw, mainVars
      <4>3. ProcessInv'
        BY <3>1, <4>2 DEF ProcessInv
      <4> QED
        BY <4>1, <4>3
    <3>3. CASE loadStage = "failed" /\ Caught /\ StayInMemory
      <4>1. UNCHANGED <<memory, loadVars>> /\ mainStage' = "exited"
        BY <3>3 DEF StayInMemory, Caught, Exit
      <4>2. ProcessInv'
        BY <4>1 DEF ProcessInv
      <4> QED
        BY <4>1, <4>2, LoaderStays
    <3>4. CASE loadStage = "loaded" /\ mainStage' = "run" /\ StayInMemory
      <4>1. UNCHANGED <<memory, loadVars>>
        BY <3>4 DEF StayInMemory
      <4>2. ProcessInv'
        BY <3>4, <4>1 DEF ProcessInv, loadVars
      <4> QED
        BY <4>1, <4>2, LoaderStays
    <3> QED
      BY <2>4, <3>2, <3>3, <3>4 DEF LoadProgram
  <2>5. CASE Run \/ WriteReport \/ Return
    <3>1. UNCHANGED <<memory, loadVars>>
      BY <2>5 DEF Run, WriteReport, Return, StayInMemory
    <3>2. /\ mainStage \in {"run", "report", "return"}
          /\ mainStage' \in {"report", "return", "exited"}
      BY <2>5 DEF Run, WriteReport, Return, Exit, Caught
    <3>3. ProcessInv'
      BY <3>1, <3>2 DEF ProcessInv, loadVars
    <3> QED
      BY <3>1, <3>3, LoaderStays
  <2>6. CASE WriteFile \/ Exited \/ UNCHANGED vars
    BY <2>1, <2>6 DEF WriteFile, Exited, vars
  <2> QED
    BY <2>2, <2>3, <2>4, <2>5, <2>6 DEF Next, MainStep
<1> QED
  BY <1>1, <1>2, PTL DEF Spec

(* Whatever the file, a program is loaded from it only when all that the   *)
(* file names is in it: each header and each segment is in the file when   *)
(* the loop has passed it.                                                 *)
THEOREM LoadedFilesAreWhole == Spec => []LoadsWellFormedFiles
<1>1. LoaderInv => LoadsWellFormedFiles
  <2> SUFFICES ASSUME LoaderInv, loadStage = "loaded" PROVE WellFormed /\ LoadSegments # {}
    BY DEF LoadsWellFormedFiles
  <2>1. /\ file \in Files /\ HeaderError = "none" /\ segment = file.phnum
        /\ lowAddress # WordMod - 1 /\ LoopInv(memory, lowAddress, file.phnum)
    BY DEF LoaderInv
  <2>2. WellFormed
    BY <2>1, WholeFile DEF LoopInv, Indices
  <2>3. Seen(file.phnum) # {}
    BY <2>1 DEF LoopInv, LowestOf
  <2> QED
    BY <2>1, <2>2, <2>3, WholeFile
<1> QED
  BY <1>1, LoaderInvariant, PTL

(* A file is refused only for what it lacks, or for segments that are all  *)
(* at the last address.                                                    *)
THEOREM WholeFilesAreLoaded == Spec => []GoodFilesLoad
<1>1. LoaderInv => GoodFilesLoad
  BY DEF LoaderInv, GoodFilesLoad, Loadable
<1> QED
  BY <1>1, LoaderInvariant, PTL

(* For every number of segments, overlapping and wrapping as they may, the *)
(* two loops over bytes leave the image that the file describes.           *)
THEOREM MemoryIsTheImage == Spec => []ImageLoaded
<1>1. LoaderInv => ImageLoaded
  <2> SUFFICES ASSUME LoaderInv, loadStage = "loaded"
               PROVE  /\ \A x \in Word : read8(memory, x) = ImageByte(x)
                      /\ \A x \in DOMAIN memory : Covering(x) # {}
    BY DEF ImageLoaded
  <2>1. /\ file \in Files /\ HeaderError = "none" /\ segment = file.phnum
        /\ LoopInv(memory, lowAddress, file.phnum)
    BY DEF LoaderInv
  <2>2. LoadSegments = Seen(file.phnum)
    BY <2>1, WholeFile DEF LoopInv, Indices
  <2>3. \A x : Covering(x) = {i \in Seen(file.phnum) : Covers(i, x)}
    BY <2>2 DEF Covering, Covers
  <2>4. ImageOf(memory, file.phnum)
    BY <2>1 DEF LoopInv
  <2>5. ASSUME NEW x \in Word, x \in DOMAIN memory
        PROVE  read8(memory, x) = ImageByte(x) /\ Covering(x) # {}
    <3>1. PICK i \in Seen(file.phnum) : /\ Covers(i, x) /\ memory[x] = SegmentByte(i, x)
                                        /\ \A j \in Seen(file.phnum) : Covers(j, x) => j <= i
      BY <2>4, <2>5 DEF ImageOf
    <3>2. i \in Covering(x) /\ \A j \in Covering(x) : j <= i
      BY <2>3, <3>1
    <3>3. \A k \in Covering(x) : k \in Int
      BY <2>3 DEF Seen
    <3>4. i = CHOOSE k \in Covering(x) : \A j \in Covering(x) : j <= k
      <4>1. \A k \in Covering(x) : (\A j \in Covering(x) : j <= k) => k = i
        BY <3>2, <3>3
      <4> QED
        BY <3>2, <4>1
    <3>5. ImageByte(x) = SegmentByte(i, x)
      BY <3>2, <3>4 DEF ImageByte, SegmentByte
    <3> QED
      BY <2>5, <3>1, <3>2, <3>5 DEF read8
  <2>6. ASSUME NEW x \in Word, x \notin DOMAIN memory PROVE read8(memory, x) = ImageByte(x)
    <3>1. Covering(x) = {}
      BY <2>3, <2>4, <2>6 DEF ImageOf
    <3> QED
      BY <2>6, <3>1 DEF read8, ImageByte
  <2>7. DOMAIN memory \subseteq Word
    BY <2>4 DEF ImageOf
  <2> QED
    BY <2>5, <2>6, <2>7
<1> QED
  BY <1>1, LoaderInvariant, PTL

-----------------------------------------------------------------------------
(* The arguments *)

(* LastValue, of the pairs before position n. *)
Before(n, option) == {k \in Pairs : k < n /\ args[k] = option}

ValueBefore(n, option, default) ==
  IF Before(n, option) = {} THEN default
  ELSE args[1 + Max(Before(n, option))]

ArgumentsInv ==
  /\ args \in Seq(Words)
  /\ position \in Nat /\ position % 2 = 1 /\ position <= Len(args) + 1
  /\ \A k \in Pairs : k < position => args[k] \in Options /\ k + 1 <= Len(args)
  /\ program    = ValueBefore(position, "--program", "")
  /\ configPath = ValueBefore(position, "--config", DefaultConfig)
  /\ statsPath  = ValueBefore(position, "--stats", DefaultStats)
  /\ statsPath \in Words
  /\ mainStage \notin {"arguments", "exited"} => position > Len(args)
  /\ status # -1 => mainStage = "exited"
  /\ status = 2 /\ outcome = NotRun => ~Paired \/ LastValue("--program", "") = ""

(* Reading the pair at n gives its option the value of the pair.           *)
LEMMA ValueRead ==
  ASSUME NEW n \in Nat, n % 2 = 1, args \in Seq(Words), n + 1 <= Len(args),
         NEW option, NEW default
  PROVE  ValueBefore(n + 2, option, default)
           = IF args[n] = option THEN args[n + 1] ELSE ValueBefore(n, option, default)
<1>1. n \in Pairs /\ \A k \in Pairs : k \in Int /\ (k < n + 2 <=> k < n \/ k = n)
  <2>1. Len(args) \in Nat
    OBVIOUS
  <2>2. n \in Pairs
    BY <2>1 DEF Pairs
  <2>3. ASSUME NEW k \in Pairs PROVE k \in Int /\ (k < n + 2 <=> k < n \/ k = n)
    <3>1. k \in Nat /\ k % 2 = 1
      BY <2>1 DEF Pairs
    <3> QED
      BY <3>1
  <2> QED
    BY <2>2, <2>3
<1>2. CASE args[n] = option
  <2>1. n \in Before(n + 2, option) /\ \A k \in Before(n + 2, option) : k \in Int /\ k <= n
    BY <1>1, <1>2 DEF Before
  <2>2. Max(Before(n + 2, option)) = n
    <3>1. \A k \in Before(n + 2, option) :
            (\A j \in Before(n + 2, option) : k >= j) <=> k = n
      BY <2>1
    <3> QED
      BY <2>1, <3>1 DEF Max
  <2>3. ValueBefore(n + 2, option, default) = args[1 + n]
    BY <2>1, <2>2 DEF ValueBefore
  <2> QED
    BY <1>2, <2>3
<1>3. CASE args[n] # option
  <2>1. Before(n + 2, option) = Before(n, option)
    BY <1>1, <1>3 DEF Before
  <2> QED
    BY <1>3, <2>1 DEF ValueBefore
<1> QED
  BY <1>2, <1>3

(* At the end every pair has been read. *)
LEMMA AllRead ==
  ASSUME NEW n \in Nat, n > Len(args), args \in Seq(Words)
  PROVE  \A option, default : ValueBefore(n, option, default) = LastValue(option, default)
<1>1. \A k \in Pairs : k < n
  <2>1. Len(args) \in Nat
    OBVIOUS
  <2> QED
    BY <2>1 DEF Pairs
<1>2. \A option : Before(n, option) = {k \in Pairs : args[k] = option}
  BY <1>1 DEF Before
<1> QED
  BY <1>2 DEF ValueBefore, LastValue

LEMMA ArgumentsStay ==
  ASSUME ArgumentsInv, UNCHANGED <<args, parseVars>>,
         mainStage' \notin {"arguments", "exited"} => position > Len(args),
         status' # -1 => mainStage' = "exited",
         status' = 2 /\ outcome' = NotRun => ~Paired \/ LastValue("--program", "") = ""
  PROVE  ArgumentsInv'
<1>1. /\ Pairs' = Pairs /\ (Paired' <=> Paired)
      /\ \A o, d : LastValue(o, d)' = LastValue(o, d)
      /\ \A n, o, d : ValueBefore(n, o, d)' = ValueBefore(n, o, d)
  BY DEF Pairs, Paired, LastValue, ValueBefore, Before
<1>2. UNCHANGED <<position, program, configPath, statsPath>>
  BY DEF parseVars
<1>3. /\ ValueBefore(position, "--program", "")' = ValueBefore(position, "--program", "")
      /\ ValueBefore(position, "--config", DefaultConfig)'
           = ValueBefore(position, "--config", DefaultConfig)
      /\ ValueBefore(position, "--stats", DefaultStats)'
           = ValueBefore(position, "--stats", DefaultStats)
  BY <1>1, <1>2 DEF ValueBefore, Before
<1> QED
  BY <1>1, <1>2, <1>3 DEF ArgumentsInv

(* The status says how it ended *)

ResultInv ==
  /\ mainStage \in {"report", "return"} => outcome \in ExitCodes
  /\ mainStage \notin {"report", "return", "exited"} => outcome = NotRun
  /\ DOMAIN reports = Words
  /\ mainStage = "return" => reports[statsPath] # "before"
  /\ FailureIsReported

LEMMA ArgumentCount ==
  ASSUME ArgumentsInv
  PROVE  args \in Seq(Words) /\ Len(args) \in Nat /\ position \in Nat /\ position % 2 = 1
<1>1. args \in Seq(Words) /\ position \in Nat /\ position % 2 = 1
  BY DEF ArgumentsInv
<1> QED
  BY <1>1

LEMMA ReadsPair ==
  ASSUME ArgumentsInv, TakeOption
  PROVE  ArgumentsInv'
<1> DEFINE n == position
           value == args[position + 1]
<1>1. /\ n \in Nat /\ n % 2 = 1 /\ args \in Seq(Words) /\ n + 1 <= Len(args)
      /\ args[n] \in Options /\ Len(args) \in Nat
  BY ArgumentCount DEF TakeOption, HasValue
<1>2. /\ position' = n + 2 /\ UNCHANGED <<args, mainStage, outcome, status>>
      /\ program'    = IF args[n] = "--program" THEN value ELSE program
      /\ configPath' = IF args[n] = "--config"  THEN value ELSE configPath
      /\ statsPath'  = IF args[n] = "--stats"   THEN value ELSE statsPath
      /\ mainStage = "arguments"
  BY DEF TakeOption, AfterValue
<1>3. n + 2 \in Nat /\ (n + 2) % 2 = 1 /\ n + 2 <= Len(args) + 1 /\ n + 1 \in 1 .. Len(args)
  BY <1>1
<1>4. value \in Words
  BY <1>1, <1>3
<1> HIDE DEF value
<1>5. \A o, d : ValueBefore(n + 2, o, d)
                  = IF args[n] = o THEN value ELSE ValueBefore(n, o, d)
  BY <1>1, ValueRead DEF value
<1>6. ASSUME NEW k \in Pairs, k < n + 2 PROVE args[k] \in Options /\ k + 1 <= Len(args)
  <2>1. k \in Nat /\ k % 2 = 1
    BY <1>1 DEF Pairs
  <2>2. k < n \/ k = n
    BY <1>1, <1>6, <2>1
  <2> QED
    BY <1>1, <2>2 DEF ArgumentsInv
<1>7. /\ program'    = ValueBefore(n + 2, "--program", "")
      /\ configPath' = ValueBefore(n + 2, "--config", DefaultConfig)
      /\ statsPath'  = ValueBefore(n + 2, "--stats", DefaultStats)
  BY <1>2, <1>5 DEF ArgumentsInv
<1>8. statsPath' \in Words
  BY <1>2, <1>4 DEF ArgumentsInv
<1>9. /\ Pairs' = Pairs /\ (Paired' <=> Paired)
      /\ LastValue("--program", "")' = LastValue("--program", "")
      /\ ValueBefore(position, "--program", "")' = ValueBefore(n + 2, "--program", "")
      /\ ValueBefore(position, "--config", DefaultConfig)'
           = ValueBefore(n + 2, "--config", DefaultConfig)
      /\ ValueBefore(position, "--stats", DefaultStats)'
           = ValueBefore(n + 2, "--stats", DefaultStats)
  BY <1>2 DEF Pairs, Paired, LastValue, ValueBefore, Before
<1> QED
  BY <1>1, <1>2, <1>3, <1>6, <1>7, <1>8, <1>9 DEF ArgumentsInv

LEMMA UsageFits ==
  ASSUME ArgumentsInv, ResultInv, PrintUsage
  PROVE  ArgumentsInv' /\ ResultInv'
<1>1. /\ mainStage = "arguments" /\ position <= Len(args) /\ mainStage' = "exited"
      /\ ~(args[position] \in Options /\ position + 1 <= Len(args))
      /\ status' = IF args[position] \in Help THEN 0 ELSE 2
      /\ UNCHANGED <<args, parseVars, outcome, reports>>
  BY DEF PrintUsage, HasValue, Exit
<1>2. /\ position \in Nat /\ position % 2 = 1 /\ Len(args) \in Nat /\ outcome = NotRun
  BY <1>1, ArgumentCount DEF ResultInv
<1>3. position \in Pairs
  BY <1>1, <1>2 DEF Pairs
<1>4. ~Paired
  <2>1. CASE args[position] \notin Options
    BY <1>3, <2>1 DEF Paired
  <2>2. CASE ~(position + 1 <= Len(args))
    <3>1. Len(args) = position
      BY <1>1, <1>2, <2>2
    <3>2. Len(args) % 2 = 1
      BY <1>2, <3>1
    <3> QED
      BY <3>2 DEF Paired
  <2> QED
    BY <1>1, <2>1, <2>2
<1>5. ArgumentsInv'
  BY <1>1, <1>4, ArgumentsStay
<1>6. status' = 0 => args'[position] \in Help \cap {args'[k] : k \in Pairs'}
  BY <1>1, <1>3 DEF Pairs
<1>7. FailureIsReported'
  BY <1>1, <1>2, <1>6 DEF FailureIsReported
<1> QED
  BY <1>1, <1>5, <1>7 DEF ResultInv

(* The list is read to its end, and complete. *)
LEMMA EndFits ==
  ASSUME ArgumentsInv, ResultInv, EndOfArguments
  PROVE  ArgumentsInv' /\ ResultInv'
<1>1. /\ mainStage = "arguments" /\ position > Len(args)
      /\ UNCHANGED <<args, parseVars, outcome, reports>>
      /\ IF program = "" THEN mainStage' = "exited" /\ status' = 2
                         ELSE mainStage' = "config" /\ UNCHANGED status
  BY DEF EndOfArguments, Exit
<1>2. status = -1 /\ outcome = NotRun
  BY <1>1 DEF ArgumentsInv, ResultInv
<1>3. program = LastValue("--program", "")
  BY <1>1, AllRead DEF ArgumentsInv
<1>4. ArgumentsInv'
  <2>1. CASE program = ""
    BY <1>1, <1>3, <2>1, ArgumentsStay
  <2>2. CASE program # ""
    <3>1. mainStage' = "config" /\ status' = -1
      BY <1>1, <1>2, <2>2
    <3>2. status' # 2 /\ ~(status' # -1)
      BY <3>1
    <3> QED
      BY <1>1, <3>2, ArgumentsStay
  <2> QED
    BY <2>1, <2>2
<1>5. status' # 0
  <2>1. status' = 2 \/ status' = -1
    BY <1>1, <1>2
  <2> QED
    BY <2>1
<1> QED
  BY <1>1, <1>2, <1>4, <1>5 DEF ResultInv, FailureIsReported

(* Neither the status nor the arguments change until the end. *)
LEMMA StepFits ==
  ASSUME ArgumentsInv, ResultInv, UNCHANGED <<args, parseVars>>,
         mainStage \notin {"arguments", "exited"}, mainStage' # "arguments",
         status' # -1 => mainStage' = "exited",
         status' = 2 => outcome' # NotRun, ResultInv'
  PROVE  ArgumentsInv' /\ ResultInv'
BY ArgumentsStay DEF ArgumentsInv

LEMMA CaughtFits ==
  ASSUME ArgumentsInv, ResultInv, Caught, mainStage \notin {"arguments", "exited"}
  PROVE  ArgumentsInv' /\ ResultInv'
<1>1. /\ outcome' = Failed /\ mainStage' = "exited" /\ status' = 1
      /\ UNCHANGED <<args, parseVars, reports>>
  BY DEF Caught, Exit
<1>2. ResultInv'
  BY <1>1 DEF ResultInv, FailureIsReported
<1> QED
  BY <1>1, <1>2, StepFits

LEMMA QuietFits ==
  ASSUME ArgumentsInv, ResultInv, UNCHANGED <<args, parseVars, outcome, reports, status>>,
         mainStage \in {"config", "open", "load"}, mainStage' \in {"open", "load", "run"}
  PROVE  ArgumentsInv' /\ ResultInv'
<1>1. status = -1 /\ outcome = NotRun
  BY DEF ArgumentsInv, ResultInv
<1>2. ResultInv'
  BY <1>1 DEF ResultInv, FailureIsReported
<1> QED
  BY <1>1, <1>2, StepFits

LEMMA RunFits ==
  ASSUME ArgumentsInv, ResultInv, Run \/ WriteReport \/ Return
  PROVE  ArgumentsInv' /\ ResultInv'
<1>1. status = -1 /\ statsPath \in Words /\ DOMAIN reports = Words
  <2>1. mainStage \in {"run", "report", "return"}
    BY DEF Run, WriteReport, Return
  <2> QED
    BY <2>1 DEF ArgumentsInv, ResultInv
<1>2. CASE Caught /\ (Run \/ WriteReport)
  BY <1>2, CaughtFits DEF Run, WriteReport
<1>3. CASE Run /\ ~Caught
  <2>1. /\ mainStage = "run" /\ mainStage' = "report" /\ outcome' \in ExitCodes
        /\ UNCHANGED <<args, parseVars, reports, status>>
    BY <1>3 DEF Run
  <2>2. ResultInv'
    BY <1>1, <2>1 DEF ResultInv, FailureIsReported
  <2> QED
    BY <1>1, <2>1, <2>2, StepFits
<1>4. CASE WriteReport /\ ~Caught
  <2>1. /\ mainStage = "report" /\ mainStage' = "return"
        /\ UNCHANGED <<args, parseVars, outcome, status>>
    BY <1>4 DEF WriteReport
  <2>2. PICK text \in {"complete", "partial"} : reports' = [reports EXCEPT ![statsPath] = text]
    BY <1>4 DEF WriteReport, Reported
  <2>3. DOMAIN reports' = Words /\ reports'[statsPath] # "before"
    BY <1>1, <2>2
  <2>4. statsPath' = statsPath
    BY <2>1 DEF parseVars
  <2>5. ResultInv'
    BY <1>1, <2>1, <2>3, <2>4 DEF ResultInv, FailureIsReported
  <2> QED
    BY <1>1, <2>1, <2>5, StepFits
<1>5. CASE Return
  <2>1. /\ mainStage = "return" /\ mainStage' = "exited" /\ status' = Narrow(outcome)
        /\ UNCHANGED <<args, parseVars, outcome, reports>>
    BY <1>5 DEF Return, Exit
  <2>2. outcome \in ExitCodes /\ reports[statsPath] # "before" /\ statsPath' = statsPath
    BY <2>1 DEF ResultInv, parseVars
  <2>3. outcome # NotRun
    BY <2>2, MainAssumption DEF NotRun
  <2>4. ResultInv'
    BY <1>1, <2>1, <2>2 DEF ResultInv, FailureIsReported
  <2> QED
    BY <2>1, <2>3, <2>4, StepFits
<1> QED
  BY <1>2, <1>3, <1>4, <1>5

LEMMA MainInvariant == Spec => [](ArgumentsInv /\ ResultInv)
<1>1. Init => ArgumentsInv /\ ResultInv
  <2> SUFFICES ASSUME Init PROVE ArgumentsInv /\ ResultInv
    OBVIOUS
  <2>1. /\ args \in Seq(Words) /\ position = 1 /\ mainStage = "arguments" /\ status = -1
        /\ program = "" /\ configPath = DefaultConfig /\ statsPath = DefaultStats
        /\ outcome = NotRun /\ reports = [p \in Words |-> "before"]
        /\ DefaultStats \in Words
    BY MainAssumption DEF Init, MainInit, Words
  <2>0. position = 1 /\ status = -1
    BY DEF Init, MainInit
  <2>2. Len(args) \in Nat
    <3>1. args \in Seq(Words)
      BY <2>1
    <3> QED
      BY <3>1
  <2>3. \A k \in Pairs : ~(k < 1)
    BY <2>2 DEF Pairs
  <2>4. \A option : Before(1, option) = {}
    BY <2>3 DEF Before
  <2>5. ArgumentsInv
    <3>1. \A option, default : ValueBefore(1, option, default) = default
      BY <2>4 DEF ValueBefore
    <3>2. position \in Nat /\ position % 2 = 1 /\ position <= Len(args) + 1
      BY <2>0, <2>2
    <3>3. \A k \in Pairs : k < position => args[k] \in Options /\ k + 1 <= Len(args)
      BY <2>0, <2>3
    <3>4. ~(status # -1) /\ status # 2
      BY <2>0
    <3> QED
      BY <2>1, <3>1, <3>2, <3>3, <3>4 DEF ArgumentsInv
  <2>6. ResultInv
    <3>1. status # 0
      BY <2>0
    <3>2. DOMAIN reports = Words
      BY <2>1
    <3> QED
      BY <2>1, <3>1, <3>2 DEF ResultInv, FailureIsReported
  <2> QED
    BY <2>5, <2>6
<1>2. ArgumentsInv /\ ResultInv /\ [Next]_vars => (ArgumentsInv /\ ResultInv)'
  <2> SUFFICES ASSUME ArgumentsInv, ResultInv, [Next]_vars
               PROVE  ArgumentsInv' /\ ResultInv'
    OBVIOUS
  <2>1. CASE TakeOption
    <3>1. /\ mainStage = "arguments" /\ mainStage' = "arguments"
          /\ UNCHANGED <<args, outcome, reports, status>>
      BY <2>1 DEF TakeOption
    <3>2. ResultInv'
      <4>1. status = -1
        BY <3>1 DEF ArgumentsInv
      <4>2. status' # 0
        BY <3>1, <4>1
      <4> QED
        BY <3>1, <4>2 DEF ResultInv, FailureIsReported
    <3> QED
      BY <2>1, <3>2, ReadsPair
  <2>2. CASE PrintUsage \/ EndOfArguments
    BY <2>2, UsageFits, EndFits
  <2>3. CASE Configure(Texts) /\ ~Caught
    BY <2>3, QuietFits DEF Configure
  <2>4. CASE OpenProgram /\ ~Caught
    BY <2>4, QuietFits DEF OpenProgram
  <2>5. CASE LoadProgram /\ ~Caught
    BY <2>5, QuietFits DEF LoadProgram, mainVars
  <2>6. CASE Caught /\ (Configure(Texts) \/ OpenProgram \/ LoadProgram)
    <3>1. mainStage \notin {"arguments", "exited"}
      BY <2>6 DEF Configure, OpenProgram, LoadProgram
    <3> QED
      BY <2>6, <3>1, CaughtFits
  <2>7. CASE Run \/ WriteReport \/ Return
    BY <2>7, RunFits
  <2>8. CASE UNCHANGED mainVars
    <3>1. UNCHANGED <<args, parseVars, mainStage, outcome, reports, status>>
      BY <2>8 DEF mainVars
    <3>2. ArgumentsInv'
      BY <3>1, ArgumentsStay DEF ArgumentsInv
    <3>3. ResultInv'
      BY <3>1 DEF ResultInv, FailureIsReported, Pairs, parseVars
    <3> QED
      BY <3>2, <3>3
  <2>9. CASE WriteFile \/ Exited \/ UNCHANGED vars
    BY <2>8, <2>9 DEF WriteFile, Exited, vars
  <2> QED
    BY <2>1, <2>2, <2>3, <2>4, <2>5, <2>6, <2>7, <2>9 DEF Next, MainStep
<1> QED
  BY <1>1, <1>2, PTL DEF Spec

(* The loop over argv takes a list for what it says in pairs, each option  *)
(* with the value of its last pair, and refuses every other list.          *)
THEOREM ArgumentsArePairs == Spec => []ArgumentsInPairs
<1>1. ArgumentsInv => ArgumentsInPairs
  <2> SUFFICES ASSUME ArgumentsInv PROVE ArgumentsInPairs
    OBVIOUS
  <2>1. Len(args) \in Nat /\ position \in Nat /\ position % 2 = 1 /\ args \in Seq(Words)
    BY ArgumentCount
  <2>2. ASSUME mainStage \notin {"arguments", "exited"}
        PROVE  /\ Paired
               /\ program    = LastValue("--program", "")
               /\ configPath = LastValue("--config", DefaultConfig)
               /\ statsPath  = LastValue("--stats", DefaultStats)
    <3>1. position > Len(args) /\ position <= Len(args) + 1
      BY <2>2 DEF ArgumentsInv
    <3>2. Len(args) % 2 = 0
      <4>1. position = Len(args) + 1
        BY <2>1, <3>1
      <4> QED
        BY <2>1, <4>1
    <3>3. \A k \in Pairs : args[k] \in Options
      <4>1. \A k \in Pairs : k < position
        BY <2>1, <3>1 DEF Pairs
      <4> QED
        BY <4>1 DEF ArgumentsInv
    <3> QED
      BY <2>1, <3>1, <3>2, <3>3, AllRead DEF ArgumentsInv, Paired
  <2> QED
    BY <2>2 DEF ArgumentsInPairs, ArgumentsInv
<1> QED
  BY <1>1, MainInvariant, PTL

(* The status is 0 only after usage was asked for, or when the program     *)
(* halted and its report was written: every exception ends in status 1.    *)
THEOREM FailuresAreReported == Spec => []FailureIsReported
BY MainInvariant, PTL DEF ResultInv

(* Where the process stands with its report. *)
ReportInv ==
  /\ mainStage \notin {"return", "exited"} => NewReports = {}
  /\ mainStage # "exited" => ~printed
  /\ ReportOfThisRun

LEMMA NoReportYet ==
  ASSUME ReportInv, mainStage \notin {"return", "exited"}, UNCHANGED <<reports, printed>>,
         mainStage' = "exited" => outcome' \notin ExitCodes
  PROVE  ReportInv'
<1>1. NewReports = {} /\ ~printed /\ NewReports' = NewReports /\ ~printed'
  BY DEF ReportInv, NewReports
<1> QED
  BY <1>1 DEF ReportInv, ReportOfThisRun

LEMMA ReportStep ==
  ASSUME ArgumentsInv, ResultInv, ProcessInv, ReportInv, [Next]_vars
  PROVE  ReportInv'
<1>1. NotRun \notin ExitCodes /\ Failed \notin ExitCodes
  BY MainAssumption DEF NotRun, Failed
<1>2. CASE TakeOption \/ PrintUsage \/ EndOfArguments
  <2>1. /\ mainStage = "arguments" /\ UNCHANGED <<reports, printed, outcome>>
        /\ outcome = NotRun
    BY <1>2 DEF TakeOption, PrintUsage, EndOfArguments, ResultInv
  <2> QED
    BY <1>1, <2>1, NoReportYet
<1>3. CASE Caught /\ mainStage \notin {"return", "exited"}
  BY <1>1, <1>3, NoReportYet DEF Caught
<1>4. CASE (Configure(Texts) \/ OpenProgram \/ LoadProgram \/ Run) /\ ~Caught
  <2>1. /\ mainStage \in {"config", "open", "load", "run"} /\ UNCHANGED <<reports, printed>>
        /\ mainStage' # "exited"
    BY <1>4 DEF Configure, OpenProgram, LoadProgram, Run, mainVars
  <2> QED
    BY <2>1, NoReportYet
<1>5. CASE WriteReport /\ ~Caught
  <2>1. /\ mainStage = "report" /\ mainStage' = "return"
        /\ UNCHANGED <<args, outcome, printed, loadStage>>
    BY <1>5 DEF WriteReport, StayInMemory, loadVars
  <2>2. PICK text : reports' = [reports EXCEPT ![statsPath] = text]
    BY <1>5 DEF WriteReport, Reported
  <2>3. statsPath = LastValue("--stats", DefaultStats)
    <3>1. position > Len(args)
      BY <2>1 DEF ArgumentsInv
    <3> QED
      BY <3>1, ArgumentCount, AllRead DEF ArgumentsInv
  <2>4. NewReports = {} /\ ~printed /\ outcome \in ExitCodes /\ loadStage = "loaded"
    BY <2>1 DEF ReportInv, ResultInv, ProcessInv
  <2>5. NewReports' \subseteq {statsPath}
    BY <2>2, <2>4 DEF NewReports
  <2>6. LastValue("--stats", DefaultStats)' = LastValue("--stats", DefaultStats)
    BY <2>1 DEF LastValue, Pairs
  <2> QED
    BY <2>1, <2>3, <2>4, <2>5, <2>6 DEF ReportInv, ReportOfThisRun
<1>6. CASE Return
  <2>1. /\ mainStage = "return" /\ mainStage' = "exited" /\ printed' /\ status' = Narrow(outcome)
        /\ UNCHANGED <<args, outcome, reports, loadStage>>
    BY <1>6 DEF Return, Exit, StayInMemory, loadVars
  <2>2. outcome \in ExitCodes /\ statsPath \in DOMAIN reports /\ reports[statsPath] # "before"
    BY <2>1 DEF ResultInv, ArgumentsInv
  <2>3. NewReports # {} /\ NewReports' = NewReports
    BY <2>1, <2>2 DEF NewReports
  <2>4. LastValue("--stats", DefaultStats)' = LastValue("--stats", DefaultStats)
    BY <2>1 DEF LastValue, Pairs
  <2> QED
    BY <2>1, <2>2, <2>3, <2>4 DEF ReportInv, ReportOfThisRun
<1>7. CASE UNCHANGED mainVars /\ (UNCHANGED loadStage \/ mainStage = "load")
  <2>1. UNCHANGED <<args, mainStage, outcome, reports, printed, status>>
    BY <1>7 DEF mainVars
  <2>2. /\ NewReports' = NewReports
        /\ LastValue("--stats", DefaultStats)' = LastValue("--stats", DefaultStats)
    BY <2>1 DEF NewReports, LastValue, Pairs
  <2>3. NewReports # {} => UNCHANGED loadStage
    BY <1>7 DEF ReportInv
  <2> QED
    BY <2>1, <2>2, <2>3 DEF ReportInv, ReportOfThisRun
<1>8. CASE WriteFile \/ Exited \/ UNCHANGED vars
  BY <1>7, <1>8 DEF WriteFile, Exited, vars, loadVars
<1>9. CASE MainStep(Texts)
  <2>1. CASE Caught /\ ~Return /\ ~TakeOption /\ ~PrintUsage /\ ~EndOfArguments
    BY <1>3, <1>7, <1>9, <2>1
       DEF MainStep, Configure, OpenProgram, LoadProgram, Run, WriteReport
  <2> QED
    BY <1>2, <1>4, <1>5, <1>6, <1>9, <2>1 DEF MainStep
<1> QED
  BY <1>8, <1>9 DEF Next

(* The report, the completion line and the status come from calls of their *)
(* own, any of which may not be reached; at the end they agree.            *)
THEOREM ReportsAreOfThisRun == Spec => []ReportOfThisRun
<1>1. Init => ReportInv
  <2> SUFFICES ASSUME Init PROVE ReportInv
    OBVIOUS
  <2>1. reports = [p \in Words |-> "before"] /\ ~printed /\ mainStage = "arguments"
    BY DEF Init, MainInit
  <2>2. NewReports = {}
    BY <2>1 DEF NewReports
  <2> QED
    BY <2>1, <2>2 DEF ReportInv, ReportOfThisRun
<1>2. (ArgumentsInv /\ ResultInv) /\ (LoaderInv /\ ProcessInv) /\ ReportInv /\ [Next]_vars
      => ReportInv'
  BY ReportStep
<1>3. ReportInv => ReportOfThisRun
  BY DEF ReportInv
<1> QED
  BY <1>1, <1>2, <1>3, MainInvariant, LoaderInvariant, PTL DEF Spec

-----------------------------------------------------------------------------
(* The configuration *)

(* Tokens *)

LEMMA Tokens ==
  /\ Open[1] = "{" /\ Close[1] = "}" /\ Colon[1] = ":" /\ Comma[1] = ","
  /\ Open # Close /\ Open # Colon /\ Open # Comma /\ Close # Colon /\ Close # Comma /\ Colon # Comma
  /\ {Open, Close, Colon, Comma} \subseteq Token
  /\ \A text : Quoted(text)[1] = "string" /\ Quoted(text)[2] = text
  /\ \A text \in STRING : Quoted(text) \in Value /\ Quoted(text) \in Token
<1>1. Open[1] = "{" /\ Close[1] = "}" /\ Colon[1] = ":" /\ Comma[1] = ","
  BY DEF Open, Close, Colon, Comma
<1>2. \A text : Quoted(text)[1] = "string" /\ Quoted(text)[2] = text
  BY DEF Quoted
<1>3. \A text \in STRING : Quoted(text) \in Value
  BY DEF Quoted, Value
<1> QED
  BY <1>1, <1>2, <1>3 DEF Token

Kinds == {"string", "number", "truth"}

LEMMA ValueToken ==
  ASSUME NEW v \in Value
  PROVE  v \in Token /\ v[1] \in Kinds /\ v \notin {Open, Close, Colon, Comma}
<1>1. v \in Token
  BY DEF Token
<1>2. v[1] \in Kinds
  BY DEF Value, Kinds
<1> QED
  BY <1>1, <1>2, Tokens DEF Kinds

LEMMA OfAKind ==
  ASSUME NEW key
  PROVE  KindOf(key) \in Kinds
BY DEF KindOf, Kinds

(* The first of some positions. *)
LEMMA FirstIs ==
  ASSUME NEW S \in SUBSET Nat, NEW k \in S, \A j \in S : k <= j
  PROVE  First(S) = k
<1>1. S # {}
  OBVIOUS
<1>2. First(S) = CHOOSE i \in S : \A j \in S : i <= j
  BY <1>1 DEF First
<1>3. First(S) \in S /\ \A j \in S : First(S) <= j
  BY <1>2
<1>4. First(S) <= k /\ k <= First(S) /\ First(S) \in Nat /\ k \in Nat
  BY <1>3
<1> QED
  BY <1>4

LEMMA FirstOf ==
  ASSUME NEW S \in SUBSET Nat, S # {}
  PROVE  First(S) \in S /\ \A j \in S : First(S) <= j
<1>1. Min(S) \in S /\ \A j \in S : Min(S) <= j
  BY LeastNat
<1> QED
  BY <1>1, FirstIs

LEMMA FirstOfNone == First({}) = Nowhere
BY DEF First

-----------------------------------------------------------------------------
(* Joined texts *)

LEMMA JoinedUpto ==
  ASSUME NEW parts \in Seq(Seq(Token))
  PROVE  /\ Joined(parts)[0] = << >>
         /\ \A n \in 1 .. Len(parts) : Joined(parts)[n] = Extended(Joined(parts)[n - 1], parts[n])
<1> DEFINE N == Len(parts)
           Body(g, n) == IF n = 0 THEN << >> ELSE Extended(g[n - 1], parts[n])
           Chain(g) == g = [n \in 0 .. N |-> Body(g, n)]
           Upto(g, m) == g \in [0 .. N -> Seq(Token)] /\ \A n \in 0 .. m : g[n] = Body(g, n)
           Bad == {m \in 0 .. N : ~\E g : Upto(g, m)}
<1>0. N \in Nat
  OBVIOUS
<1>1. ASSUME NEW t \in Seq(Token), NEW p \in Seq(Token)
      PROVE  Extended(t, p) \in Seq(Token)
  <2>1. Comma \in Token
    BY Tokens
  <2>2. <<Comma>> \in Seq(Token)
    BY <2>1
  <2> QED
    BY <2>2 DEF Extended
<1>2. ASSUME Bad # {} PROVE FALSE
  <2> Bad \in SUBSET Nat
    BY <1>0
  <2>1. PICK m \in Bad : \A j \in Bad : m <= j
    BY <1>2, LeastNat
  <2>2. CASE m = 0
    <3> DEFINE g == [n \in 0 .. N |-> << >>]
    <3>1. g \in [0 .. N -> Seq(Token)]
      OBVIOUS
    <3>2. Upto(g, 0)
      BY <1>0, <3>1
    <3> QED
      BY <2>1, <2>2, <3>2
  <2>3. CASE m # 0
    <3>1. m - 1 \in 0 .. N /\ ~(m <= m - 1) /\ m \in 1 .. N
      BY <1>0, <2>1, <2>3
    <3>2. PICK h : Upto(h, m - 1)
      BY <2>1, <3>1
    <3> DEFINE x == Extended(h[m - 1], parts[m])
               g == [n \in 0 .. N |-> IF n = m THEN x ELSE h[n]]
    <3>3. x \in Seq(Token)
      <4>1. h[m - 1] \in Seq(Token) /\ parts[m] \in Seq(Token)
        BY <3>1, <3>2
      <4> QED
        BY <1>1, <4>1
    <3>4. g \in [0 .. N -> Seq(Token)]
      BY <3>2, <3>3
    <3>5. ASSUME NEW n \in 0 .. m PROVE g[n] = Body(g, n)
      <4>1. CASE n = 0
        BY <1>0, <3>1, <3>2, <4>1
      <4>2. CASE n # 0
        <5>1. n - 1 \in 0 .. N /\ n - 1 # m /\ n \in 0 .. N
          BY <1>0, <3>1, <4>2
        <5>2. g[n - 1] = h[n - 1]
          BY <5>1
        <5>3. Body(g, n) = Body(h, n)
          BY <4>2, <5>2
        <5>4. CASE n = m
          BY <4>2, <5>1, <5>3, <5>4
        <5>5. CASE n # m
          <6>1. n \in 0 .. m - 1
            BY <3>1, <5>5
          <6> QED
            BY <3>2, <5>1, <5>3, <5>5, <6>1
        <5> QED
          BY <5>4, <5>5
      <4> QED
        BY <4>1, <4>2
    <3>6. Upto(g, m)
      BY <3>4, <3>5
    <3> QED
      BY <2>1, <3>6
  <2> QED
    BY <2>2, <2>3
<1>3. PICK g : Upto(g, N)
  <2>1. Bad = {} /\ N \in 0 .. N
    BY <1>0, <1>2
  <2> HIDE DEF N, Upto
  <2> QED
    BY <2>1
<1>4. Chain(g)
  BY <1>3
<1>5. Chain(Joined(parts))
  <2>1. Joined(parts) = CHOOSE t : Chain(t)
    BY DEF Joined
  <2> HIDE DEF Chain
  <2> QED
    BY <1>4, <2>1
<1> HIDE DEF N
<1>6. \A n \in 0 .. N : Joined(parts)[n] = Body(Joined(parts), n)
  BY <1>5
<1> QED
  BY <1>0, <1>6 DEF N

(* One sequence behind another. *)
LEMMA Concatenated ==
  ASSUME NEW T, NEW a \in Seq(T), NEW b \in Seq(T)
  PROVE  /\ a \o b \in Seq(T) /\ Len(a \o b) = Len(a) + Len(b)
         /\ \A i \in 1 .. Len(a) : (a \o b)[i] = a[i]
         /\ \A i \in 1 .. Len(b) : (a \o b)[Len(a) + i] = b[i]
OBVIOUS

(* One more part: what stands where. *)
Offset(t) == IF t = << >> THEN 0 ELSE Len(t) + 1

Follows(u, t, p, o) ==
  /\ u \in Seq(Token) /\ o \in Nat /\ o >= Len(t)
  /\ Len(u) = o + Len(p)
  /\ \A i \in 1 .. Len(t) : u[i] = t[i]
  /\ \A i \in 1 .. Len(p) : u[o + i] = p[i]
  /\ \A i \in Len(t) + 1 .. o : i = o /\ u[i] = Comma

LEMMA ExtendedBy ==
  ASSUME NEW t \in Seq(Token), NEW p \in Seq(Token)
  PROVE  Follows(Extended(t, p), t, p, Offset(t))
<1> DEFINE o == Offset(t)
<1> USE DEF Follows
<1>1. CASE t = << >>
  <2>1. Len(t) = 0 /\ o = 0 /\ Extended(t, p) = p
    BY <1>1 DEF Extended, Offset
  <2> HIDE DEF o
  <2>2. \A i \in 1 .. Len(p) : o + i = i
    BY <2>1
  <2>3. Follows(p, t, p, o)
    BY <2>1, <2>2
  <2> QED
    BY <2>1, <2>3 DEF o
<1>2. CASE t # << >>
  <2>1. Comma \in Token
    BY Tokens
  <2> DEFINE c == <<Comma>>
             u == t \o c
  <2>2. c \in Seq(Token) /\ Len(c) = 1 /\ c[1] = Comma
    BY <2>1
  <2> HIDE DEF c
  <2>3. /\ u \in Seq(Token) /\ Len(u) = Len(t) + 1 /\ u[Len(t) + 1] = Comma
        /\ \A i \in 1 .. Len(t) : u[i] = t[i]
    <3>1. /\ u \in Seq(Token) /\ Len(u) = Len(t) + Len(c)
          /\ \A i \in 1 .. Len(t) : u[i] = t[i]
          /\ \A i \in 1 .. Len(c) : u[Len(t) + i] = c[i]
      <4>1. c \in Seq(Token)
        BY <2>2
      <4> QED
        BY <4>1
    <3>2. 1 \in 1 .. Len(c)
      BY <2>2
    <3> HIDE DEF u
    <3> QED
      BY <2>2, <3>1, <3>2
  <2> HIDE DEF u
  <2>4. Extended(t, p) = u \o p
    BY <1>2 DEF Extended, u, c
  <2>5. /\ u \o p \in Seq(Token) /\ Len(u \o p) = Len(u) + Len(p)
        /\ \A i \in 1 .. Len(u) : (u \o p)[i] = u[i]
        /\ \A i \in 1 .. Len(p) : (u \o p)[Len(u) + i] = p[i]
    BY <2>3
  <2>6. o = Len(t) + 1 /\ Len(t) \in Nat
    BY <1>2 DEF Offset
  <2> HIDE DEF o
  <2>7. Follows(u \o p, t, p, o)
    BY <2>3, <2>5, <2>6
  <2> QED
    BY <2>4, <2>7 DEF o
<1> QED
  BY <1>1, <1>2

(* And between braces. *)
LEMMA Enclosed ==
  ASSUME NEW t \in Seq(Token), NEW o, o = <<Open>> \o t \o <<Close>>
  PROVE  /\ o \in Seq(Token) /\ Len(o) = Len(t) + 2
         /\ o[1] = Open /\ o[Len(t) + 2] = Close
         /\ \A i \in 1 .. Len(t) : o[i + 1] = t[i]
<1> DEFINE a == <<Open>>
           b == <<Close>>
           u == a \o t
<1>1. Open \in Token /\ Close \in Token
  BY Tokens
<1>2. a \in Seq(Token) /\ Len(a) = 1 /\ a[1] = Open /\ b \in Seq(Token) /\ Len(b) = 1 /\ b[1] = Close
  BY <1>1
<1>3. o = u \o b
  OBVIOUS
<1> HIDE DEF a, b
<1>4. u \in Seq(Token) /\ Len(u) = Len(t) + 1 /\ u[1] = Open /\ \A i \in 1 .. Len(t) : u[i + 1] = t[i]
  <2>1. /\ u \in Seq(Token) /\ Len(u) = Len(a) + Len(t)
        /\ \A i \in 1 .. Len(a) : u[i] = a[i]
        /\ \A i \in 1 .. Len(t) : u[Len(a) + i] = t[i]
    <3>1. a \in Seq(Token)
      BY <1>2
    <3> QED
      BY <3>1
  <2>2. 1 \in 1 .. Len(a) /\ Len(t) \in Nat /\ \A i \in 1 .. Len(t) : Len(a) + i = i + 1
    BY <1>2
  <2> HIDE DEF u
  <2> QED
    BY <1>2, <2>1, <2>2
<1> HIDE DEF u
<1>5. /\ o \in Seq(Token) /\ Len(o) = Len(u) + 1
      /\ \A i \in 1 .. Len(u) : o[i] = u[i]
      /\ o[Len(u) + 1] = Close
  BY <1>2, <1>3, <1>4
<1> QED
  BY <1>4, <1>5

-----------------------------------------------------------------------------
(* A text cut off *)

LEMMA FirstCut ==
  ASSUME NEW S \in SUBSET Nat, NEW n \in Nat, NEW R, R = {k \in S : k <= n}, R # {}
  PROVE  First(R) = First(S) /\ First(S) \in R
<1>1. S # {}
  OBVIOUS
<1>2. First(S) \in S /\ \A j \in S : First(S) <= j
  BY <1>1, FirstOf
<1>3. PICK r \in R : TRUE
  OBVIOUS
<1>4. First(S) <= r /\ r <= n /\ r \in Nat /\ First(S) \in Nat
  BY <1>2, <1>3
<1>5. First(S) \in R
  BY <1>2, <1>4
<1>6. \A j \in R : First(S) <= j
  BY <1>2
<1> QED
  BY <1>5, <1>6, FirstIs

(* The object of a section in the first n tokens is the whole text's, or   *)
(* there is none; otherwise the text is malformed.                         *)
LEMMA CutShort ==
  ASSUME NEW T, NEW json \in Seq(T), NEW n \in 0 .. Len(json), NEW s,
         NEW part, part = SubSeq(json, 1, n), ~Malformed(part, s)
  PROVE  objectFor(part, s) \in {objectFor(json, s), << >>}
<1> DEFINE Keys(j) == {k \in DOMAIN j : j[k] = Quoted(s)}
<1>1. /\ Len(json) \in Nat /\ n \in Nat /\ n <= Len(json) /\ DOMAIN json = 1 .. Len(json)
      /\ part \in Seq(T) /\ Len(part) = n /\ DOMAIN part = 1 .. n
      /\ \A k \in 1 .. n : part[k] = json[k]
  OBVIOUS
<1> HIDE DEF Keys
<1> SUFFICES ASSUME HasObject(part, s)
             PROVE  objectFor(part, s) = objectFor(json, s)
  BY DEF objectFor
<1> DEFINE a == keyAt(json, s)
<1>2. keyAt(part, s) = a /\ a \in 1 .. n
  <2>1. Keys(json) \in SUBSET Nat /\ Keys(part) = {k \in Keys(json) : k <= n}
    BY <1>1 DEF Keys
  <2>2. keyAt(part, s) = First(Keys(part)) /\ a = First(Keys(json))
    BY DEF keyAt, Keys
  <2>3. Keys(part) # {}
    BY <2>2, FirstOfNone DEF HasObject
  <2>4. First(Keys(part)) = First(Keys(json)) /\ First(Keys(json)) \in Keys(part)
    BY <1>1, <2>1, <2>3, FirstCut
  <2> QED
    BY <1>1, <2>2, <2>4 DEF Keys
<1> DEFINE b == braceAt(json, s)
           Opens(j) == {k \in a + 1 .. Len(j) : j[k] = Open}
<1> HIDE DEF a
<1>3. braceAt(part, s) = b /\ b \in a + 1 .. n
  <2>1. Opens(json) \in SUBSET Nat /\ Opens(part) = {k \in Opens(json) : k <= n}
    BY <1>1, <1>2
  <2>2. braceAt(part, s) = First(Opens(part)) /\ b = First(Opens(json))
    BY <1>2 DEF braceAt, a
  <2>3. Opens(part) # {}
    BY <2>2, FirstOfNone DEF HasObject
  <2> HIDE DEF Opens
  <2>4. First(Opens(part)) = First(Opens(json)) /\ First(Opens(json)) \in Opens(part)
    BY <1>1, <2>1, <2>3, FirstCut
  <2> QED
    BY <1>1, <2>2, <2>4 DEF Opens
<1> DEFINE c == closeOf(json, s)
           Ends(j) == {k \in b .. Len(j) : j[k] = Close /\ depth(j, b, k) = 0}
<1> HIDE DEF b
<1>4. closeOf(part, s) = c /\ c \in b .. n
  <2>1. \A k \in b .. n : depth(part, b, k) = depth(json, b, k)
    <3> SUFFICES ASSUME NEW k \in b .. n PROVE depth(part, b, k) = depth(json, b, k)
      OBVIOUS
    <3>1. \A i \in b .. k : part[i] = json[i]
      BY <1>1, <1>2, <1>3
    <3>2. /\ {i \in b .. k : part[i] = Open} = {i \in b .. k : json[i] = Open}
          /\ {i \in b .. k : part[i] = Close} = {i \in b .. k : json[i] = Close}
      BY <3>1
    <3> QED
      BY <3>2 DEF depth
  <2>2. \A k \in b .. n : part[k] = json[k]
    BY <1>1, <1>2, <1>3
  <2>3. Ends(json) \in SUBSET Nat /\ Ends(part) = {k \in Ends(json) : k <= n}
    BY <1>1, <1>2, <1>3, <2>1, <2>2
  <2>4. closeOf(part, s) = First(Ends(part)) /\ c = First(Ends(json))
    BY <1>3 DEF closeOf, b
  <2>5. closeOf(part, s) # Nowhere
    BY DEF Malformed
  <2>6. Ends(part) # {}
    BY <2>4, <2>5, FirstOfNone
  <2> HIDE DEF Ends
  <2>7. First(Ends(part)) = First(Ends(json)) /\ First(Ends(json)) \in Ends(part)
    BY <1>1, <2>3, <2>6, FirstCut
  <2> QED
    BY <1>1, <2>4, <2>7 DEF Ends
<1> HIDE DEF c
<1>5. SubSeq(part, b, c) = SubSeq(json, b, c)
  BY <1>1, <1>2, <1>3, <1>4
<1>6. c # Nowhere /\ HasObject(json, s)
  BY <1>2, <1>3, <1>4 DEF HasObject, Nowhere, a, b
<1> QED
  BY <1>3, <1>4, <1>5, <1>6 DEF objectFor, b, c

LEMMA NothingParsed ==
  ASSUME NEW s \in Names
  PROVE  parse(<< >>, SimulatorConfig[s]) = SimulatorConfig[s]
<1>1. \A key : getValue(<< >>, key, SimulatorConfig[s][key]) = SimulatorConfig[s][key]
  <2>1. 1 .. Len(<< >>) - 2 = {}
    OBVIOUS
  <2> QED
    BY <2>1, FirstOfNone DEF getValue
<1>2. /\ CoreConfig = [key \in DOMAIN CoreConfig |-> CoreConfig[key]]
      /\ CacheLevelDefaults = [key \in DOMAIN CacheLevelDefaults |-> CacheLevelDefaults[key]]
      /\ BranchPredictorConfig = [key \in DOMAIN BranchPredictorConfig |-> BranchPredictorConfig[key]]
  BY SMT DEF CoreConfig, CacheLevelDefaults, BranchPredictorConfig
<1>3. s # "l2" => \/ SimulatorConfig[s] = CoreConfig
                  \/ SimulatorConfig[s] = BranchPredictorConfig
                  \/ SimulatorConfig[s] = CacheLevelDefaults
  BY SMT DEF SimulatorConfig, Names
<1> DEFINE c1 == [CacheLevelDefaults EXCEPT !.sizeBytes = 262144]
           c2 == [c1 EXCEPT !.associativity = 8]
           l2 == [c2 EXCEPT !.latency = 12]
<1>4. SimulatorConfig["l2"] = l2
  BY DEF SimulatorConfig
<1> HIDE DEF c2
<1>5. l2 = [key \in DOMAIN l2 |-> l2[key]]
  BY SMT
<1> HIDE DEF l2
<1>6. SimulatorConfig[s] = [key \in DOMAIN SimulatorConfig[s] |-> SimulatorConfig[s][key]]
  BY <1>2, <1>3, <1>4, <1>5
<1> QED
  BY <1>1, <1>6 DEF parse
-----------------------------------------------------------------------------
(* The configuration is that of the file, which no longer changes. *)
ConfigRead == mainStage = "open" /\ configPath = UserFile => config = load(Text) /\ ~LoadFails(Text)

LEMMA ConfigReadStays ==
  ASSUME ConfigRead, Next \/ UNCHANGED vars
  PROVE  ConfigRead'
<1> USE DEF ConfigRead
<1>1. ASSUME UNCHANGED <<mainStage, configPath, config, document>>
      PROVE  ConfigRead'
  BY <1>1 DEF Text, SectionText
<1>2. ASSUME mainStage' # "open"
      PROVE  ConfigRead'
  BY <1>2
<1>3. CASE UNCHANGED vars
  BY <1>1, <1>3 DEF vars, mainVars, parseVars
<1>4. CASE WriteFile
  BY <1>2, <1>4 DEF WriteFile, mainVars
<1>5. CASE MainStep(Texts) /\ UNCHANGED document
  <2>1. CASE TakeOption
    BY <1>2, <2>1 DEF TakeOption
  <2>2. CASE PrintUsage
    BY <1>2, <2>2 DEF PrintUsage, Exit
  <2>3. CASE EndOfArguments
    BY <1>2, <2>3 DEF EndOfArguments, Exit
  <2>4. CASE Configure(Texts)
    <3>1. CASE Caught
      BY <1>2, <3>1 DEF Caught, Exit
    <3>2. CASE ~Caught
      <4>1. /\ config' = load(Texts[configPath]) /\ configPath' = configPath
            /\ ~LoadFails(Texts[configPath])
        BY <2>4, <3>2 DEF Configure, parseVars
      <4>2. configPath = UserFile => Texts[configPath] = Text
        BY DEF Texts
      <4>3. Text' = Text
        BY <1>5 DEF Text, SectionText
      <4> QED
        BY <4>1, <4>2, <4>3
    <3> QED
      BY <3>1, <3>2
  <2>5. CASE OpenProgram
    BY <1>2, <2>5 DEF OpenProgram, Caught, Exit
  <2>6. CASE LoadProgram
    <3>1. CASE LoadStep /\ UNCHANGED mainVars
      BY <1>1, <1>5, <3>1 DEF mainVars, parseVars
    <3>2. CASE ~(LoadStep /\ UNCHANGED mainVars)
      BY <1>2, <2>6, <3>2 DEF LoadProgram, Caught, Exit
    <3> QED
      BY <3>1, <3>2
  <2>7. CASE Run \/ WriteReport \/ Return
    BY <1>2, <2>7 DEF Run, WriteReport, Return, Caught, Exit
  <2> QED
    BY <1>5, <2>1, <2>2, <2>3, <2>4, <2>5, <2>6, <2>7 DEF MainStep
<1>6. CASE Exited
  BY <1>1, <1>6 DEF Exited, vars, mainVars, parseVars
<1> QED
  BY <1>3, <1>4, <1>5, <1>6 DEF Next

-----------------------------------------------------------------------------
(* What holds of 0, and of each number when of the one before. *)
LEMMA Climb ==
  ASSUME NEW N \in Nat, NEW G \in SUBSET (0 .. N), 0 \in G,
         \A n \in 1 .. N : n - 1 \in G => n \in G
  PROVE  G = 0 .. N
<1> DEFINE Bad == (0 .. N) \ G
<1> SUFFICES ASSUME Bad # {} PROVE FALSE
  OBVIOUS
<1>1. PICK m \in Bad : \A j \in Bad : m <= j
  <2>1. Bad \in SUBSET Nat
    OBVIOUS
  <2> QED
    BY <2>1, LeastNat
<1>2. m \in 1 .. N /\ m - 1 \in 0 .. N /\ ~(m <= m - 1)
  BY <1>1
<1> QED
  BY <1>1, <1>2

LEMMA JoinedTyped ==
  ASSUME NEW ps \in Seq(Seq(Token))
  PROVE  /\ \A n \in 0 .. Len(ps) : Joined(ps)[n] \in Seq(Token)
         /\ Separated(ps) \in Seq(Token)
<1> DEFINE G == {n \in 0 .. Len(ps) : Joined(ps)[n] \in Seq(Token)}
<1>1. 0 \in G
  <2>1. Joined(ps)[0] = << >>
    BY JoinedUpto
  <2> QED
    <3>1. 0 \in 0 .. Len(ps) /\ << >> \in Seq(Token)
      OBVIOUS
    <3> QED
      BY <2>1, <3>1
<1>2. ASSUME NEW n \in 1 .. Len(ps), n - 1 \in G PROVE n \in G
  <2>1. ps[n] \in Seq(Token) /\ Joined(ps)[n - 1] \in Seq(Token)
    BY <1>2
  <2>2. Joined(ps)[n] = Extended(Joined(ps)[n - 1], ps[n])
    BY JoinedUpto
  <2> QED
    <3>1. \A t \in Seq(Token) : \A p \in Seq(Token) : Extended(t, p) \in Seq(Token)
      BY ExtendedBy DEF Follows
    <3> QED
      BY <2>1, <2>2, <3>1
<1>3. Len(ps) \in Nat
  OBVIOUS
<1>4. G = 0 .. Len(ps)
  <2> HIDE DEF G
  <2>1. G \in SUBSET (0 .. Len(ps))
    BY DEF G
  <2> QED
    BY <1>1, <1>2, <1>3, <2>1, Climb
<1> QED
  BY <1>3, <1>4 DEF Separated

-----------------------------------------------------------------------------
(* Depths *)

Turn(x) == IF x = Open THEN 1 ELSE IF x = Close THEN -1 ELSE 0

LEMMA DepthStep ==
  ASSUME NEW t, NEW a \in Nat, NEW n \in Nat, a <= n + 1
  PROVE  /\ depth(t, a, n) \in Int
         /\ depth(t, a, n + 1) = depth(t, a, n) + Turn(t[n + 1])
<1> DEFINE Of(x, m) == {k \in a .. m : t[k] = x}
<1>1. ASSUME NEW x
      PROVE  /\ IsFiniteSet(Of(x, n)) /\ Cardinality(Of(x, n)) \in Nat
             /\ Cardinality(Of(x, n + 1)) =
                  Cardinality(Of(x, n)) + (IF t[n + 1] = x THEN 1 ELSE 0)
  <2>1. IsFiniteSet(a .. n)
    BY FS_Interval
  <2>2. IsFiniteSet(Of(x, n)) /\ Cardinality(Of(x, n)) \in Nat
    BY <2>1, FS_Subset, FS_CardinalityType
  <2>3. n + 1 \notin Of(x, n)
    OBVIOUS
  <2>4. CASE t[n + 1] = x
    <3>1. Of(x, n + 1) = Of(x, n) \cup {n + 1}
      BY <2>4
    <3> QED
      BY <2>2, <2>3, <2>4, <3>1, FS_AddElement
  <2>5. CASE t[n + 1] # x
    <3>1. Of(x, n + 1) = Of(x, n)
      BY <2>5
    <3> QED
      BY <2>2, <2>5, <3>1
  <2> QED
    BY <2>2, <2>4, <2>5
<1>2. \A m : depth(t, a, m) = Cardinality(Of(Open, m)) - Cardinality(Of(Close, m))
  BY DEF depth
<1>3. /\ Cardinality(Of(Open, n)) \in Nat /\ Cardinality(Of(Close, n)) \in Nat
      /\ Cardinality(Of(Open, n + 1)) =
           Cardinality(Of(Open, n)) + (IF t[n + 1] = Open THEN 1 ELSE 0)
      /\ Cardinality(Of(Close, n + 1)) =
           Cardinality(Of(Close, n)) + (IF t[n + 1] = Close THEN 1 ELSE 0)
  BY <1>1
<1> HIDE DEF Of
<1>4. /\ depth(t, a, n) = Cardinality(Of(Open, n)) - Cardinality(Of(Close, n))
      /\ depth(t, a, n + 1) = Cardinality(Of(Open, n + 1)) - Cardinality(Of(Close, n + 1))
  BY <1>2
<1>5. /\ Turn(t[n + 1]) = (IF t[n + 1] = Open THEN 1 ELSE 0) - (IF t[n + 1] = Close THEN 1 ELSE 0)
      /\ (IF t[n + 1] = Open THEN 1 ELSE 0) \in Int /\ (IF t[n + 1] = Close THEN 1 ELSE 0) \in Int
  <2>1. Open # Close
    BY Tokens
  <2> QED
    BY <2>1 DEF Turn
<1> QED
  BY <1>3, <1>4, <1>5

LEMMA DepthFromOne ==
  ASSUME NEW t, NEW n \in Nat
  PROVE  /\ depth(t, 1, n) \in Int
         /\ depth(t, 1, n + 1) = depth(t, 1, n) + Turn(t[n + 1])
<1>1. 1 \in Nat /\ 1 <= n + 1
  OBVIOUS
<1> QED
  BY <1>1, DepthStep

LEMMA NoDepth ==
  ASSUME NEW t, NEW a \in Nat, NEW n \in Int, n < a
  PROVE  depth(t, a, n) = 0
<1>1. a .. n = {}
  OBVIOUS
<1> QED
  BY <1>1, FS_EmptySet DEF depth

(* The same tokens, elsewhere. *)
Stands(t, u, o) == \A i \in 1 .. Len(t) : u[o + i] = t[i]

LEMMA DepthMoved ==
  ASSUME NEW t \in Seq(Token), NEW u, NEW o \in Nat, Stands(t, u, o)
  PROVE  \A n \in 0 .. Len(t) : depth(u, o + 1, o + n) = depth(t, 1, n)
<1> DEFINE L == Len(t)
<1>0. L \in Nat /\ \A i \in 1 .. L : u[o + i] = t[i]
  BY DEF Stands
<1> HIDE DEF L
<1> DEFINE G == {n \in 0 .. L : depth(u, o + 1, o + n) = depth(t, 1, n)}
<1>1. 0 \in G
  <2>1. depth(t, 1, 0) = 0 /\ depth(u, o + 1, o) = 0
    BY NoDepth
  <2> QED
    BY <1>0, <2>1
<1>2. ASSUME NEW n \in 1 .. L, n - 1 \in G PROVE n \in G
  <2>1. n - 1 \in Nat /\ o + (n - 1) \in Nat /\ o + 1 \in Nat /\ (n - 1) + 1 = n
        /\ (o + (n - 1)) + 1 = o + n /\ 1 <= (n - 1) + 1 /\ o + 1 <= (o + (n - 1)) + 1
    BY <1>0
  <2>2. depth(t, 1, n) = depth(t, 1, n - 1) + Turn(t[n])
    BY <2>1, DepthStep
  <2>3. depth(u, o + 1, o + n) = depth(u, o + 1, o + (n - 1)) + Turn(u[o + n])
    BY <2>1, DepthStep
  <2> QED
    BY <1>0, <1>2, <2>2, <2>3
<1>3. G = 0 .. L
  <2>1. G \in SUBSET (0 .. L)
    OBVIOUS
  <2> HIDE DEF G
  <2> QED
    BY <1>0, <1>1, <1>2, <2>1, Climb
<1> QED
  BY <1>3 DEF L

LEMMA DepthSplit ==
  ASSUME NEW t, NEW o \in Nat, NEW L \in Nat
  PROVE  /\ depth(t, 1, o) \in Int
         /\ \A n \in 0 .. L : /\ depth(t, o + 1, o + n) \in Int
                              /\ depth(t, 1, o + n) = depth(t, 1, o) + depth(t, o + 1, o + n)
<1> DEFINE G == {n \in 0 .. L : depth(t, 1, o + n) = depth(t, 1, o) + depth(t, o + 1, o + n)}
<1>0. /\ depth(t, 1, o) \in Int
      /\ \A n \in 0 .. L : depth(t, o + 1, o + n) \in Int
  <2>1. depth(t, 1, o) \in Int
    <3>1. 1 <= o + 1 /\ 1 \in Nat
      OBVIOUS
    <3> QED
      BY <3>1, DepthStep
  <2>2. ASSUME NEW n \in 0 .. L PROVE depth(t, o + 1, o + n) \in Int
    <3>1. o + 1 \in Nat /\ o + n \in Nat /\ o + 1 <= (o + n) + 1
      OBVIOUS
    <3> QED
      BY <3>1, DepthStep
  <2> QED
    BY <2>1, <2>2
<1>1. 0 \in G
  <2>1. depth(t, o + 1, o) = 0 /\ o + 0 = o
    BY NoDepth
  <2> QED
    BY <1>0, <2>1
<1>2. ASSUME NEW n \in 1 .. L, n - 1 \in G PROVE n \in G
  <2>1. o + (n - 1) \in Nat /\ o + 1 \in Nat
        /\ (o + (n - 1)) + 1 = o + n /\ 1 <= (o + (n - 1)) + 1 /\ o + 1 <= (o + (n - 1)) + 1
    OBVIOUS
  <2>2. depth(t, 1, o + n) = depth(t, 1, o + (n - 1)) + Turn(t[o + n])
    BY <2>1, DepthStep
  <2>3. depth(t, o + 1, o + n) = depth(t, o + 1, o + (n - 1)) + Turn(t[o + n])
    BY <2>1, DepthStep
  <2>4. Turn(t[o + n]) \in Int /\ n - 1 \in 0 .. L
    BY DEF Turn
  <2> QED
    BY <1>0, <1>2, <2>2, <2>3, <2>4
<1>3. G = 0 .. L
  <2>1. G \in SUBSET (0 .. L)
    OBVIOUS
  <2> HIDE DEF G
  <2> QED
    BY <1>1, <1>2, <2>1, Climb
<1> QED
  BY <1>0, <1>3

(* Braces in pairs. *)
Balanced(t) ==
  /\ \A n \in 0 .. Len(t) : depth(t, 1, n) >= 0
  /\ depth(t, 1, Len(t)) = 0

LEMMA BalancedExtended ==
  ASSUME NEW t \in Seq(Token), NEW p \in Seq(Token), Balanced(t), Balanced(p)
  PROVE  Balanced(Extended(t, p))
<1> DEFINE u == Extended(t, p)
           o == Offset(t)
<1>0. Follows(u, t, p, o)
  BY ExtendedBy
<1> HIDE DEF u, o
<1>1. /\ u \in Seq(Token) /\ o \in Nat /\ o >= Len(t) /\ Len(u) = o + Len(p)
      /\ \A i \in 1 .. Len(t) : u[i] = t[i]
      /\ \A i \in 1 .. Len(p) : u[o + i] = p[i]
      /\ \A i \in Len(t) + 1 .. o : i = o /\ u[i] = Comma
  BY <1>0 DEF Follows
<1>2. Len(t) \in Nat /\ Len(p) \in Nat
  OBVIOUS
<1>3. \A n \in 0 .. Len(t) : depth(u, 1, n) = depth(t, 1, n)
  <2>1. \A n \in 0 .. Len(t) : depth(u, 0 + 1, 0 + n) = depth(t, 1, n)
    <3>1. Stands(t, u, 0)
      BY <1>1, <1>2 DEF Stands
    <3>2. 0 \in Nat
      OBVIOUS
    <3> QED
      BY <3>1, <3>2, DepthMoved
  <2> QED
    BY <1>2, <2>1
<1>4. depth(u, 1, o) = 0
  <2>1. CASE o = Len(t)
    BY <1>2, <1>3, <2>1 DEF Balanced
  <2>2. CASE o # Len(t)
    <3>1. o = Len(t) + 1 /\ u[Len(t) + 1] = Comma
      BY <1>1, <1>2, <2>2
    <3>2. depth(u, 1, Len(t) + 1) = depth(u, 1, Len(t)) + Turn(u[Len(t) + 1])
      BY <1>2, DepthStep
    <3>3. Turn(Comma) = 0
      BY Tokens DEF Turn
    <3>4. depth(u, 1, Len(t)) = 0
      BY <1>2, <1>3 DEF Balanced
    <3> QED
      BY <3>1, <3>2, <3>3, <3>4
  <2> QED
    BY <2>1, <2>2
<1>5. \A n \in 0 .. Len(p) : depth(u, 1, o + n) = depth(p, 1, n)
  <2>1. \A n \in 0 .. Len(p) : depth(u, o + 1, o + n) = depth(p, 1, n)
    <3>1. Stands(p, u, o)
      BY <1>1 DEF Stands
    <3> QED
      BY <1>1, <3>1, DepthMoved
  <2>2. \A n \in 0 .. Len(p) : /\ depth(u, o + 1, o + n) \in Int
                               /\ depth(u, 1, o + n) = depth(u, 1, o) + depth(u, o + 1, o + n)
    BY <1>1, <1>2, DepthSplit
  <2> QED
    BY <1>4, <2>1, <2>2
<1>6. ASSUME NEW n \in 0 .. Len(u) PROVE depth(u, 1, n) >= 0
  <2>1. CASE n <= Len(t)
    BY <1>2, <1>3, <2>1 DEF Balanced
  <2>2. CASE n > Len(t)
    <3>1. n >= o /\ n - o \in 0 .. Len(p) /\ o + (n - o) = n
      <4>1. n >= o
        <5> SUFFICES ASSUME n < o PROVE FALSE
          BY <1>1
        <5>1. o \in Len(t) + 1 .. o /\ n \in Len(t) + 1 .. o
          BY <1>1, <1>2, <2>2
        <5> QED
          BY <1>1, <5>1
      <4> QED
        BY <4>1, <1>1, <1>2, <2>2
    <3>2. depth(u, 1, n) = depth(p, 1, n - o)
      BY <1>5, <3>1
    <3> QED
      BY <3>1, <3>2 DEF Balanced
  <2> QED
    BY <1>2, <2>1, <2>2
<1>7. depth(u, 1, Len(u)) = 0
  BY <1>1, <1>2, <1>5 DEF Balanced
<1> QED
  BY <1>6, <1>7 DEF Balanced, u

LEMMA BalancedJoined ==
  ASSUME NEW ps \in Seq(Seq(Token)), \A k \in DOMAIN ps : Balanced(ps[k])
  PROVE  Balanced(Separated(ps))
<1> DEFINE G == {n \in 0 .. Len(ps) : Balanced(Joined(ps)[n])}
<1>1. 0 \in G
  <2>1. Joined(ps)[0] = << >>
    BY JoinedUpto
  <2>2. depth(<< >>, 1, 0) = 0
    BY NoDepth
  <2>3. Len(<< >>) = 0 /\ \A n \in 0 .. 0 : n = 0
    OBVIOUS
  <2> QED
    BY <2>1, <2>2, <2>3 DEF Balanced
<1>2. ASSUME NEW n \in 1 .. Len(ps), n - 1 \in G PROVE n \in G
  <2>1. ps[n] \in Seq(Token) /\ Balanced(ps[n]) /\ n - 1 \in 0 .. Len(ps)
    OBVIOUS
  <2>2. Joined(ps)[n] = Extended(Joined(ps)[n - 1], ps[n]) /\ Joined(ps)[n - 1] \in Seq(Token)
    BY <2>1, JoinedUpto, JoinedTyped
  <2> QED
    BY <1>2, <2>1, <2>2, BalancedExtended
<1>3. Len(ps) \in Nat /\ G \in SUBSET (0 .. Len(ps))
  OBVIOUS
<1>4. G = 0 .. Len(ps)
  <2> HIDE DEF G
  <2> QED
    BY <1>1, <1>2, <1>3, Climb
<1> QED
  BY <1>3, <1>4 DEF Separated

-----------------------------------------------------------------------------
(* Objects *)

LEMMA ObjectIs ==
  ASSUME NEW ps \in Seq(Seq(Token))
  PROVE  /\ Separated(ps) \in Seq(Token) /\ Len(Separated(ps)) \in Nat
         /\ Object(ps) \in Seq(Token) /\ Len(Object(ps)) = Len(Separated(ps)) + 2
         /\ Object(ps)[1] = Open /\ Object(ps)[Len(Separated(ps)) + 2] = Close
         /\ \A i \in 1 .. Len(Separated(ps)) : Object(ps)[i + 1] = Separated(ps)[i]
<1>1. Separated(ps) \in Seq(Token)
  BY JoinedTyped
<1>2. Len(Separated(ps)) \in Nat
  BY <1>1
<1>3. /\ Object(ps) \in Seq(Token) /\ Len(Object(ps)) = Len(Separated(ps)) + 2
      /\ Object(ps)[1] = Open /\ Object(ps)[Len(Separated(ps)) + 2] = Close
      /\ \A i \in 1 .. Len(Separated(ps)) : Object(ps)[i + 1] = Separated(ps)[i]
  BY <1>1, Enclosed DEF Object
<1> QED
  BY <1>1, <1>2, <1>3

(* An object ends where its first brace is closed. *)
LEMMA ObjectEnds ==
  ASSUME NEW ps \in Seq(Seq(Token)), \A k \in DOMAIN ps : Balanced(ps[k])
  PROVE  LET o == Object(ps) IN
         /\ \A n \in 1 .. Len(o) - 1 : depth(o, 1, n) >= 1
         /\ depth(o, 1, Len(o)) = 0
<1> DEFINE t == Separated(ps)
           o == Object(ps)
<1>1. /\ t \in Seq(Token) /\ Len(t) \in Nat /\ o \in Seq(Token) /\ Len(o) = Len(t) + 2
      /\ o[1] = Open /\ o[Len(t) + 2] = Close
      /\ \A i \in 1 .. Len(t) : o[i + 1] = t[i]
  BY ObjectIs
<1>2. Balanced(t)
  BY BalancedJoined
<1> HIDE DEF t, o
<1>3. depth(o, 1, 0) = 0
  BY NoDepth
<1>4. depth(o, 1, 1) = 1
  <2>1. depth(o, 1, 0 + 1) = depth(o, 1, 0) + Turn(o[0 + 1])
    BY DepthFromOne
  <2>2. Turn(o[1]) = 1
    BY <1>1 DEF Turn
  <2> QED
    BY <1>3, <2>1, <2>2
<1>5. \A n \in 0 .. Len(t) : depth(o, 1, 1 + n) = 1 + depth(t, 1, n)
  <2>1. Stands(t, o, 1)
    BY <1>1 DEF Stands
  <2>2. \A n \in 0 .. Len(t) : depth(o, 1 + 1, 1 + n) = depth(t, 1, n)
    BY <1>1, <2>1, DepthMoved
  <2>3. \A n \in 0 .. Len(t) : /\ depth(o, 1 + 1, 1 + n) \in Int
                               /\ depth(o, 1, 1 + n) = depth(o, 1, 1) + depth(o, 1 + 1, 1 + n)
    <3>1. 1 \in Nat /\ Len(t) \in Nat
      BY <1>1
    <3> QED
      BY <3>1, DepthSplit
  <2> QED
    BY <1>4, <2>2, <2>3
<1>6. ASSUME NEW n \in 1 .. Len(o) - 1 PROVE depth(o, 1, n) >= 1
  <2>1. n - 1 \in 0 .. Len(t) /\ 1 + (n - 1) = n
    BY <1>1
  <2>2. depth(o, 1, n) = 1 + depth(t, 1, n - 1) /\ depth(t, 1, n - 1) >= 0
    BY <1>2, <1>5, <2>1 DEF Balanced
  <2>3. depth(t, 1, n - 1) \in Int
    <3>1. n - 1 \in Nat
      BY <1>1, <2>1
    <3> QED
      BY <3>1, DepthFromOne
  <2> QED
    BY <2>2, <2>3
<1>7. depth(o, 1, Len(o)) = 0
  <2>1. depth(o, 1, Len(t) + 1) = 1
    BY <1>1, <1>2, <1>5 DEF Balanced
  <2>2. depth(o, 1, (Len(t) + 1) + 1) = depth(o, 1, Len(t) + 1) + Turn(o[(Len(t) + 1) + 1])
    <3>1. Len(t) + 1 \in Nat
      BY <1>1
    <3> QED
      BY <3>1, DepthFromOne
  <2>3. Turn(o[Len(t) + 2]) = -1
    BY <1>1, Tokens DEF Turn
  <2>4. (Len(t) + 1) + 1 = Len(t) + 2
    BY <1>1
  <2> QED
    BY <1>1, <2>1, <2>2, <2>3, <2>4
<1> QED
  BY <1>6, <1>7 DEF o

-----------------------------------------------------------------------------
(* Entries *)

IsEntry(e) ==
  /\ e.key \in STRING \ Names /\ e.value \in Seq(Token)
  /\ GivesValue(e.value) \/ GivesObject(e.value)
  /\ \A k \in DOMAIN e.value : \A s \in Names : e.value[k] # Quoted(s)

LEMMA EntryIs ==
  ASSUME NEW e, IsEntry(e)
  PROVE  /\ EntryText(e) \in Seq(Token) /\ Len(EntryText(e)) = Len(e.value) + 2
         /\ EntryText(e)[1] = Quoted(e.key) /\ EntryText(e)[2] = Colon
         /\ \A i \in 1 .. Len(e.value) : EntryText(e)[i + 2] = e.value[i]
<1> DEFINE a == <<Quoted(e.key), Colon>>
           v == e.value
           u == a \o v
<1>1. Quoted(e.key) \in Token /\ Colon \in Token /\ v \in Seq(Token)
  BY Tokens DEF IsEntry
<1>2. a \in Seq(Token) /\ Len(a) = 2 /\ a[1] = Quoted(e.key) /\ a[2] = Colon
  BY <1>1
<1> HIDE DEF a, v
<1>3. /\ u \in Seq(Token) /\ Len(u) = Len(a) + Len(v)
      /\ \A i \in 1 .. Len(a) : u[i] = a[i]
      /\ \A i \in 1 .. Len(v) : u[Len(a) + i] = v[i]
  <2>1. a \in Seq(Token)
    BY <1>2
  <2> QED
    BY <1>1, <2>1
<1> HIDE DEF u
<1>4. Len(v) \in Nat /\ 1 \in 1 .. Len(a) /\ 2 \in 1 .. Len(a)
  BY <1>1, <1>2
<1>5. /\ u \in Seq(Token) /\ Len(u) = Len(v) + 2 /\ u[1] = Quoted(e.key) /\ u[2] = Colon
      /\ \A i \in 1 .. Len(v) : u[i + 2] = v[i]
  BY <1>2, <1>3, <1>4
<1> QED
  BY <1>5 DEF EntryText, a, v, u

LEMMA BalancedEntry ==
  ASSUME NEW e, IsEntry(e)
  PROVE  Balanced(EntryText(e))
<1> DEFINE t == EntryText(e)
           v == e.value
<1>1. /\ t \in Seq(Token) /\ Len(t) = Len(v) + 2 /\ t[1] = Quoted(e.key) /\ t[2] = Colon
      /\ \A i \in 1 .. Len(v) : t[i + 2] = v[i]
      /\ v \in Seq(Token)
  BY EntryIs DEF IsEntry
<1> HIDE DEF t
<1>2. \A n \in Nat : depth(t, 1, n + 1) = depth(t, 1, n) + Turn(t[n + 1])
  BY DepthFromOne
<1>3. depth(t, 1, 0) = 0
  BY NoDepth
<1>4. ASSUME NEW x \in Value PROVE Turn(x) = 0
  BY ValueToken DEF Turn
<1>5. Turn(Colon) = 0 /\ Turn(Open) = 1 /\ Turn(Close) = -1
  BY Tokens DEF Turn
<1>6. Turn(t[1]) = 0 /\ Turn(t[2]) = 0
  <2>1. Quoted(e.key) \in Value
    BY Tokens DEF IsEntry
  <2> QED
    BY <1>1, <1>4, <1>5, <2>1
<1>7. depth(t, 1, 1) = 0 /\ depth(t, 1, 2) = 0
  <2>1. depth(t, 1, 0 + 1) = depth(t, 1, 0) + Turn(t[0 + 1])
    BY <1>2
  <2>2. depth(t, 1, 1 + 1) = depth(t, 1, 1) + Turn(t[1 + 1])
    BY <1>2
  <2> QED
    BY <1>3, <1>6, <2>1, <2>2
<1>8. ASSUME GivesValue(v) PROVE Balanced(t)
  <2>1. Len(t) = 3 /\ Turn(t[3]) = 0
    <3>1. Len(v) = 1 /\ v[1] \in Value
      BY <1>8 DEF GivesValue
    <3>2. t[1 + 2] = v[1]
      BY <1>1, <3>1
    <3> QED
      BY <1>1, <1>4, <3>1, <3>2
  <2>2. depth(t, 1, 3) = 0
    <3>1. depth(t, 1, 2 + 1) = depth(t, 1, 2) + Turn(t[2 + 1])
      BY <1>2
    <3> QED
      BY <1>7, <2>1, <3>1
  <2>3. \A n \in 0 .. 3 : n = 0 \/ n = 1 \/ n = 2 \/ n = 3
    OBVIOUS
  <2> QED
    <3>1. Len(t) = 3 /\ \A n \in 0 .. 3 : depth(t, 1, n) >= 0
      BY <1>3, <1>7, <2>1, <2>2, <2>3
    <3> QED
      BY <2>2, <3>1 DEF Balanced
<1>9. ASSUME GivesObject(v) PROVE Balanced(t)
  <2>1. /\ Len(t) = 7 /\ t[3] = Open /\ t[4] \in Value /\ t[5] = Colon /\ t[6] \in Value
        /\ t[7] = Close
    <3>1. /\ Len(v) = 5 /\ v[1] = Open /\ v[3] = Colon /\ v[5] = Close
          /\ v[2] \in Value /\ v[4] \in Value
      BY <1>9 DEF GivesObject, Value
    <3>2. t[1 + 2] = v[1] /\ t[2 + 2] = v[2] /\ t[3 + 2] = v[3] /\ t[4 + 2] = v[4] /\ t[5 + 2] = v[5]
      BY <1>1, <3>1
    <3> QED
      BY <1>1, <3>1, <3>2
  <2>2. Turn(t[3]) = 1 /\ Turn(t[4]) = 0 /\ Turn(t[5]) = 0 /\ Turn(t[6]) = 0 /\ Turn(t[7]) = -1
    BY <1>4, <1>5, <2>1
  <2>3. /\ depth(t, 1, 3) = 1 /\ depth(t, 1, 4) = 1 /\ depth(t, 1, 5) = 1 /\ depth(t, 1, 6) = 1
        /\ depth(t, 1, 7) = 0
    <3>1. /\ depth(t, 1, 2 + 1) = depth(t, 1, 2) + Turn(t[2 + 1])
          /\ depth(t, 1, 3 + 1) = depth(t, 1, 3) + Turn(t[3 + 1])
          /\ depth(t, 1, 4 + 1) = depth(t, 1, 4) + Turn(t[4 + 1])
          /\ depth(t, 1, 5 + 1) = depth(t, 1, 5) + Turn(t[5 + 1])
          /\ depth(t, 1, 6 + 1) = depth(t, 1, 6) + Turn(t[6 + 1])
      BY <1>2
    <3> QED
      BY <1>7, <2>2, <3>1
  <2>4. \A n \in 0 .. 7 : n = 0 \/ n = 1 \/ n = 2 \/ n = 3 \/ n = 4 \/ n = 5 \/ n = 6 \/ n = 7
    OBVIOUS
  <2> QED
    <3>1. Len(t) = 7 /\ \A n \in 0 .. 7 : depth(t, 1, n) >= 0
      BY <1>3, <1>7, <2>1, <2>3, <2>4
    <3> QED
      BY <2>3, <3>1 DEF Balanced
<1> QED
  BY <1>8, <1>9 DEF IsEntry, t

-----------------------------------------------------------------------------
(* Where a part stands *)

Lacks(t, x) == \A i \in 1 .. Len(t) : t[i] # x

LEMMA LacksExtended ==
  ASSUME NEW t \in Seq(Token), NEW p \in Seq(Token), NEW x, x # Comma, Lacks(t, x), Lacks(p, x)
  PROVE  Lacks(Extended(t, p), x)
<1> DEFINE u == Extended(t, p)
           o == Offset(t)
<1>1. Follows(u, t, p, o)
  BY ExtendedBy
<1>2. Len(t) \in Nat /\ Len(p) \in Nat
  OBVIOUS
<1> HIDE DEF u, o
<1>3. ASSUME NEW i \in 1 .. Len(u) PROVE u[i] # x
  <2>1. CASE i <= Len(t)
    BY <1>1, <1>2, <2>1 DEF Follows, Lacks
  <2>2. CASE i > Len(t) /\ i <= o
    BY <1>1, <1>2, <2>2 DEF Follows
  <2>3. CASE i > o
    <3>1. i - o \in 1 .. Len(p) /\ o + (i - o) = i
      BY <1>1, <1>2, <2>3 DEF Follows
    <3> QED
      BY <1>1, <3>1 DEF Follows, Lacks
  <2> QED
    BY <1>1, <1>2, <2>1, <2>2, <2>3 DEF Follows
<1> QED
  BY <1>3 DEF Lacks, u

LEMMA LacksJoined ==
  ASSUME NEW ps \in Seq(Seq(Token)), NEW x, x # Comma, NEW m \in 0 .. Len(ps),
         \A k \in 1 .. m : Lacks(ps[k], x)
  PROVE  Lacks(Joined(ps)[m], x)
<1> DEFINE G == {n \in 0 .. m : Lacks(Joined(ps)[n], x)}
<1>0. Len(ps) \in Nat /\ m \in Nat /\ m <= Len(ps)
  OBVIOUS
<1>1. 0 \in G
  <2>1. Joined(ps)[0] = << >>
    BY JoinedUpto
  <2>2. Lacks(<< >>, x)
    BY DEF Lacks
  <2> QED
    BY <1>0, <2>1, <2>2
<1>2. ASSUME NEW n \in 1 .. m, n - 1 \in G PROVE n \in G
  <2>1. n \in 1 .. Len(ps) /\ n - 1 \in 0 .. Len(ps)
    BY <1>0
  <2>2. ps[n] \in Seq(Token) /\ Lacks(ps[n], x)
    BY <2>1
  <2>3. Joined(ps)[n] = Extended(Joined(ps)[n - 1], ps[n]) /\ Joined(ps)[n - 1] \in Seq(Token)
    BY <2>1, JoinedUpto, JoinedTyped
  <2> QED
    BY <1>2, <2>2, <2>3, LacksExtended
<1>3. G \in SUBSET (0 .. m)
  OBVIOUS
<1>4. G = 0 .. m
  <2> HIDE DEF G
  <2> QED
    BY <1>0, <1>1, <1>2, <1>3, Climb
<1> QED
  BY <1>0, <1>4

(* What is joined once stays in its place. *)
Begins(t, u) == Len(t) <= Len(u) /\ Stands(t, u, 0)

LEMMA BeginsJoined ==
  ASSUME NEW ps \in Seq(Seq(Token)), NEW m \in 0 .. Len(ps)
  PROVE  \A n \in m .. Len(ps) : Begins(Joined(ps)[m], Joined(ps)[n])
<1> DEFINE N == Len(ps) - m
           t == Joined(ps)[m]
           G == {n \in 0 .. N : Begins(t, Joined(ps)[m + n])}
<1>0. /\ Len(ps) \in Nat /\ m \in Nat /\ N \in Nat
      /\ \A n \in 0 .. N : m + n \in 0 .. Len(ps)
      /\ \A n \in 1 .. N : m + n \in 1 .. Len(ps) /\ (m + n) - 1 = m + (n - 1) /\ n - 1 \in 0 .. N
      /\ \A n \in m .. Len(ps) : n - m \in 0 .. N /\ m + (n - m) = n
  OBVIOUS
<1> HIDE DEF N
<1>1. \A n \in 0 .. N : Joined(ps)[m + n] \in Seq(Token) /\ Len(Joined(ps)[m + n]) \in Nat
  <2>1. \A u \in Seq(Token) : Len(u) \in Nat
    OBVIOUS
  <2> QED
    BY <1>0, <2>1, JoinedTyped
<1>2. t \in Seq(Token) /\ Len(t) \in Nat
  <2>1. \A u \in Seq(Token) : Len(u) \in Nat
    OBVIOUS
  <2> QED
    BY <2>1, JoinedTyped
<1>3. 0 \in G
  <2>1. m + 0 = m /\ 0 \in 0 .. N
    BY <1>0
  <2>2. Begins(t, t)
    <3> HIDE DEF t
    <3> QED
      BY <1>2 DEF Begins, Stands
  <2> QED
    BY <2>1, <2>2
<1> HIDE DEF t
<1>4. ASSUME NEW n \in 1 .. N, n - 1 \in G PROVE n \in G
  <2> DEFINE u == Joined(ps)[m + (n - 1)]
             v == Joined(ps)[m + n]
             p == ps[m + n]
  <2>1. v = Extended(u, p)
    <3>1. m + n \in 1 .. Len(ps) /\ (m + n) - 1 = m + (n - 1)
      BY <1>0
    <3>2. Joined(ps)[m + n] = Extended(Joined(ps)[(m + n) - 1], ps[m + n])
      BY <3>1, JoinedUpto
    <3> QED
      BY <3>1, <3>2
  <2>2. p \in Seq(Token) /\ u \in Seq(Token) /\ v \in Seq(Token) /\ Begins(t, u)
    <3>1. n - 1 \in 0 .. N /\ n \in 0 .. N /\ m + n \in 1 .. Len(ps)
      BY <1>0
    <3>2. u \in Seq(Token) /\ v \in Seq(Token)
      BY <1>1, <3>1
    <3>3. ps[m + n] \in Seq(Token)
      BY <3>1
    <3> QED
      BY <1>4, <3>2, <3>3
  <2> HIDE DEF u, p
  <2>3. Follows(v, u, p, Offset(u))
    BY <2>1, <2>2, ExtendedBy
  <2> HIDE DEF v
  <2>4. Begins(t, v)
    <3>1. Len(u) \in Nat /\ Len(p) \in Nat
      BY <2>2
    <3>2. Len(u) <= Len(v) /\ Len(v) \in Nat /\ \A i \in 1 .. Len(u) : v[i] = u[i]
      BY <2>2, <2>3, <3>1 DEF Follows
    <3>3. Len(t) <= Len(u) /\ \A i \in 1 .. Len(t) : u[i] = t[i]
      BY <1>2, <2>2 DEF Begins, Stands
    <3>4. Len(t) <= Len(v) /\ \A i \in 1 .. Len(t) : v[0 + i] = t[i]
      BY <1>2, <3>1, <3>2, <3>3
    <3> QED
      BY <3>4 DEF Begins, Stands
  <2> QED
    BY <1>0, <2>4 DEF v
<1>5. G = 0 .. N
  <2>1. G \in SUBSET (0 .. N)
    OBVIOUS
  <2> HIDE DEF G
  <2> QED
    BY <1>0, <1>3, <1>4, <2>1, Climb
<1> QED
  BY <1>0, <1>5 DEF t

AbsentBefore(ps, k, x) == \A j \in 1 .. k - 1 : Lacks(ps[j], x)

LEMMA PartPlaced ==
  ASSUME NEW ps \in Seq(Seq(Token)), NEW k \in 1 .. Len(ps), NEW x, x # Comma,
         AbsentBefore(ps, k, x)
  PROVE  \E o \in Nat : /\ o + Len(ps[k]) <= Len(Separated(ps))
                        /\ Stands(ps[k], Separated(ps), o)
                        /\ \A j \in 1 .. o : Separated(ps)[j] # x
<1> DEFINE t == Joined(ps)[k - 1]
           u == Joined(ps)[k]
           v == Separated(ps)
           p == ps[k]
           o == Offset(t)
<1>0. Len(ps) \in Nat /\ k - 1 \in 0 .. Len(ps) /\ k \in 0 .. Len(ps) /\ k <= Len(ps) /\ Len(ps) \in k .. Len(ps)
  OBVIOUS
<1>1. t \in Seq(Token) /\ u \in Seq(Token) /\ v \in Seq(Token) /\ p \in Seq(Token)
  BY <1>0, JoinedTyped
<1>2. Follows(u, t, p, o)
  <2>1. u = Extended(t, p)
    BY JoinedUpto
  <2> HIDE DEF t, u, p
  <2> QED
    BY <1>1, <2>1, ExtendedBy
<1>3. Begins(u, v)
  BY <1>0, BeginsJoined DEF Separated
<1>4. Lacks(t, x)
  BY <1>0, LacksJoined DEF AbsentBefore
<1> HIDE DEF t, u, v, p, o
<1>5. /\ Len(t) \in Nat /\ Len(u) \in Nat /\ Len(v) \in Nat /\ Len(p) \in Nat
      /\ Len(u) <= Len(v) /\ \A i \in 1 .. Len(u) : v[i] = u[i]
  BY <1>1, <1>3 DEF Begins, Stands
<1>6. /\ o \in Nat /\ o >= Len(t) /\ Len(u) = o + Len(p)
      /\ \A i \in 1 .. Len(t) : u[i] = t[i]
      /\ \A i \in 1 .. Len(p) : u[o + i] = p[i]
      /\ \A i \in Len(t) + 1 .. o : i = o /\ u[i] = Comma
  BY <1>2 DEF Follows
<1>7. o + Len(p) <= Len(v) /\ Stands(p, v, o)
  <2>1. \A i \in 1 .. Len(p) : o + i \in 1 .. Len(u)
    BY <1>5, <1>6
  <2> QED
    BY <1>5, <1>6, <2>1 DEF Stands
<1>8. ASSUME NEW j \in 1 .. o PROVE v[j] # x
  <2>1. v[j] = u[j]
    BY <1>5, <1>6
  <2>2. CASE j <= Len(t)
    <3>1. j \in 1 .. Len(t)
      BY <1>5, <1>6, <2>2
    <3>2. t[j] # x
      BY <1>4, <3>1 DEF Lacks
    <3> QED
      BY <1>6, <2>1, <3>1, <3>2
  <2>3. CASE j > Len(t)
    BY <1>5, <1>6, <2>1, <2>3
  <2> QED
    BY <1>5, <1>6, <2>2, <2>3
<1> QED
  BY <1>6, <1>7, <1>8 DEF p, v

-----------------------------------------------------------------------------
(* The object of a section *)

Section == [name : Sections, entries : Seq(Entries)]

EntryTexts(s) == [k \in DOMAIN s.entries |-> EntryText(s.entries[k])]

LEMMA EntriesAre ==
  ASSUME NEW s \in Section
  PROVE  /\ \A k \in DOMAIN s.entries : IsEntry(s.entries[k])
         /\ EntryTexts(s) \in Seq(Seq(Token)) /\ Len(EntryTexts(s)) = Len(s.entries)
         /\ \A k \in DOMAIN EntryTexts(s) : Balanced(EntryTexts(s)[k])
<1>1. \A k \in DOMAIN s.entries : IsEntry(s.entries[k])
  BY DocumentsAssumption DEF Section, IsEntry
<1>2. s.entries \in Seq(Entries)
  BY DEF Section
<1>3. /\ EntryTexts(s) \in Seq(Seq(Token)) /\ Len(EntryTexts(s)) = Len(s.entries)
  <2> DEFINE es == s.entries
  <2>1. \A k \in DOMAIN es : EntryText(es[k]) \in Seq(Token)
    BY <1>1, EntryIs
  <2>2. es \in Seq(Entries)
    BY <1>2
  <2> HIDE DEF es
  <2>3. /\ [k \in DOMAIN es |-> EntryText(es[k])] \in Seq(Seq(Token))
        /\ Len([k \in DOMAIN es |-> EntryText(es[k])]) = Len(es)
    BY <2>1, <2>2
  <2> QED
    BY <2>3 DEF EntryTexts, es
<1>4. \A k \in DOMAIN EntryTexts(s) : Balanced(EntryTexts(s)[k])
  BY <1>1, BalancedEntry DEF EntryTexts
<1> QED
  BY <1>1, <1>3, <1>4

LEMMA SectionIs ==
  ASSUME NEW s \in Section
  PROVE  LET o == Object(EntryTexts(s)) IN
         /\ SectionText(s) \in Seq(Token) /\ Len(SectionText(s)) = Len(o) + 2
         /\ SectionText(s)[1] = Quoted(s.name) /\ SectionText(s)[2] = Colon
         /\ \A i \in 1 .. Len(o) : SectionText(s)[i + 2] = o[i]
<1> DEFINE a == <<Quoted(s.name), Colon>>
           o == Object(EntryTexts(s))
           u == a \o o
<1>1. Quoted(s.name) \in Token /\ Colon \in Token /\ o \in Seq(Token)
  BY Tokens, EntriesAre, ObjectIs, DocumentsAssumption DEF Section
<1>2. a \in Seq(Token) /\ Len(a) = 2 /\ a[1] = Quoted(s.name) /\ a[2] = Colon
  BY <1>1
<1> HIDE DEF a, o
<1>3. /\ u \in Seq(Token) /\ Len(u) = Len(a) + Len(o)
      /\ \A i \in 1 .. Len(a) : u[i] = a[i]
      /\ \A i \in 1 .. Len(o) : u[Len(a) + i] = o[i]
  <2>1. a \in Seq(Token)
    BY <1>2
  <2> QED
    BY <1>1, <2>1
<1> HIDE DEF u
<1>4. Len(o) \in Nat /\ 1 \in 1 .. Len(a) /\ 2 \in 1 .. Len(a)
  BY <1>1, <1>2
<1>5. /\ u \in Seq(Token) /\ Len(u) = Len(o) + 2 /\ u[1] = Quoted(s.name) /\ u[2] = Colon
      /\ \A i \in 1 .. Len(o) : u[i + 2] = o[i]
  BY <1>2, <1>3, <1>4
<1> QED
  BY <1>5 DEF SectionText, EntryTexts, a, o, u

(* Only a section of that name has the name for a token. *)
LEMMA SectionLacks ==
  ASSUME NEW sec \in Section, NEW s \in Names, s # sec.name
  PROVE  Lacks(SectionText(sec), Quoted(s))
<1> DEFINE qs == EntryTexts(sec)
           t == Separated(qs)
           o == Object(qs)
           x == Quoted(s)
<1>1. \A n : Quoted(n) = x => n = s
  <2>1. x[2] = s /\ \A n : Quoted(n)[2] = n
    BY Tokens
  <2> HIDE DEF x
  <2> QED
    BY <2>1
<1>2. x # Comma /\ x # Colon /\ x # Open /\ x # Close
  <2>1. x[1] = "string"
    BY Tokens
  <2> QED
    BY <2>1, Tokens
<1>3. qs \in Seq(Seq(Token)) /\ Len(qs) = Len(sec.entries) /\ Len(qs) \in Nat
  BY EntriesAre
<1>4. ASSUME NEW k \in 1 .. Len(qs) PROVE Lacks(qs[k], x)
  <2> DEFINE e == sec.entries[k]
  <2>1. IsEntry(e) /\ qs[k] = EntryText(e)
    <3>1. k \in DOMAIN sec.entries
      BY <1>3 DEF Section
    <3> QED
      BY <3>1, EntriesAre DEF EntryTexts
  <2> HIDE DEF e
  <2> DEFINE p == EntryText(e)
             v == e.value
  <2>2. /\ Len(p) = Len(v) + 2 /\ p[1] = Quoted(e.key) /\ p[2] = Colon
        /\ \A i \in 1 .. Len(v) : p[i + 2] = v[i]
    BY <2>1, EntryIs
  <2>3. /\ v \in Seq(Token) /\ e.key # s /\ \A i \in 1 .. Len(v) : v[i] # x
    BY <2>1 DEF IsEntry
  <2> HIDE DEF p, v, x
  <2>4. ASSUME NEW i \in 1 .. Len(p) PROVE p[i] # x
    <3>1. CASE i = 1
      BY <1>1, <2>2, <2>3, <3>1
    <3>2. CASE i = 2
      BY <1>2, <2>2, <3>2
    <3>3. CASE i > 2
      <4>1. i - 2 \in 1 .. Len(v) /\ (i - 2) + 2 = i
        BY <2>2, <2>3, <3>3
      <4> QED
        BY <2>2, <2>3, <4>1
    <3> QED
      BY <3>1, <3>2, <3>3
  <2> QED
    BY <2>1, <2>4 DEF Lacks, p
<1>5. Lacks(t, x)
  <2>1. Len(qs) \in 0 .. Len(qs)
    BY <1>3
  <2> HIDE DEF x, qs
  <2>2. Lacks(Joined(qs)[Len(qs)], x)
    BY <1>2, <1>3, <1>4, <2>1, LacksJoined
  <2> QED
    BY <2>2 DEF Separated
<1>6. /\ Len(t) \in Nat /\ Len(o) = Len(t) + 2 /\ o[1] = Open /\ o[Len(t) + 2] = Close
      /\ \A i \in 1 .. Len(t) : o[i + 1] = t[i]
  BY <1>3, ObjectIs
<1> DEFINE u == SectionText(sec)
<1>7. /\ Len(u) = Len(o) + 2 /\ u[1] = Quoted(sec.name) /\ u[2] = Colon
      /\ \A i \in 1 .. Len(o) : u[i + 2] = o[i]
  BY SectionIs
<1> HIDE DEF t, o, x, u
<1>8. ASSUME NEW i \in 1 .. Len(u) PROVE u[i] # x
  <2>1. CASE i = 1
    BY <1>1, <1>7, <2>1
  <2>2. CASE i = 2
    BY <1>2, <1>7, <2>2
  <2>3. CASE i > 2
    <3>1. i - 2 \in 1 .. Len(t) + 2 /\ (i - 2) + 2 = i
      BY <1>6, <1>7, <2>3
    <3>2. u[i] = o[i - 2]
      BY <1>6, <1>7, <3>1
    <3>3. CASE i - 2 = 1 \/ i - 2 = Len(t) + 2
      BY <1>2, <1>6, <3>2, <3>3
    <3>4. CASE i - 2 # 1 /\ i - 2 # Len(t) + 2
      <4>1. i - 3 \in 1 .. Len(t) /\ (i - 3) + 1 = i - 2
        BY <1>6, <3>1, <3>4
      <4>2. o[i - 2] = t[i - 3]
        BY <1>6, <4>1
      <4> QED
        BY <1>5, <3>2, <4>1, <4>2 DEF Lacks
    <3> QED
      BY <3>3, <3>4
  <2> QED
    BY <2>1, <2>2, <2>3
<1> QED
  BY <1>8 DEF Lacks, u, x

IsObject(o) ==
  /\ o \in Seq(Token) /\ Len(o) \in Nat /\ Len(o) >= 2
  /\ o[1] = Open /\ o[Len(o)] = Close
  /\ \A n \in 1 .. Len(o) - 1 : depth(o, 1, n) >= 1
  /\ depth(o, 1, Len(o)) = 0

IsSection(p, s, o) ==
  /\ p \in Seq(Token) /\ Len(p) = Len(o) + 2
  /\ p[1] = Quoted(s) /\ p[2] = Colon
  /\ \A i \in 1 .. Len(o) : p[i + 2] = o[i]

LEMMA ObjectFound ==
  ASSUME NEW ps \in Seq(Seq(Token)), NEW k \in 1 .. Len(ps), NEW s,
         NEW obj, IsObject(obj), IsSection(ps[k], s, obj), AbsentBefore(ps, k, Quoted(s))
  PROVE  objectFor(Object(ps), s) = obj
<1> DEFINE x == Quoted(s)
           v == Separated(ps)
           p == ps[k]
           L == Len(obj)
           json == Object(ps)
<1>1. x # Comma /\ x # Open
  <2>1. x[1] = "string"
    BY Tokens
  <2> QED
    BY <2>1, Tokens
<1>2. PICK o \in Nat : /\ o + Len(p) <= Len(v) /\ Stands(p, v, o)
                       /\ \A j \in 1 .. o : v[j] # x
  <2>1. AbsentBefore(ps, k, x)
    OBVIOUS
  <2> HIDE DEF x
  <2> QED
    BY <1>1, <2>1, PartPlaced
<1>3. /\ v \in Seq(Token) /\ Len(v) \in Nat /\ json \in Seq(Token) /\ Len(json) = Len(v) + 2
      /\ json[1] = Open /\ \A i \in 1 .. Len(v) : json[i + 1] = v[i]
  BY ObjectIs
<1>4. L \in Nat /\ L >= 2 /\ Len(p) = L + 2
  BY DEF IsObject, IsSection
<1>5. /\ p[1] = x /\ p[2] = Colon /\ \A i \in 1 .. L : p[i + 2] = obj[i]
      /\ obj[1] = Open /\ obj[L] = Close
      /\ \A n \in 1 .. L - 1 : depth(obj, 1, n) >= 1
      /\ depth(obj, 1, L) = 0
  BY DEF IsObject, IsSection
<1>6. \A i \in 1 .. Len(p) : v[o + i] = p[i]
  BY <1>2 DEF Stands
<1> HIDE DEF x, v, p, L, json
<1>7. \A i \in 1 .. L + 2 : json[o + i + 1] = p[i] /\ o + i + 1 \in DOMAIN json
  <2> SUFFICES ASSUME NEW i \in 1 .. L + 2
               PROVE  json[o + i + 1] = p[i] /\ o + i + 1 \in DOMAIN json
    OBVIOUS
  <2>1. o + i \in 1 .. Len(v) /\ i \in 1 .. Len(p)
    BY <1>2, <1>3, <1>4
  <2>2. json[(o + i) + 1] = v[o + i] /\ v[o + i] = p[i]
    BY <1>3, <1>6, <2>1
  <2>3. o + i + 1 \in 1 .. Len(json)
    BY <1>3, <2>1
  <2> QED
    BY <1>3, <2>2, <2>3
<1>8. json[o + 2] = x /\ json[o + 3] = Colon /\ json[o + 4] = Open /\ o + 4 \in DOMAIN json
  <2>1. /\ 1 \in 1 .. L + 2 /\ 2 \in 1 .. L + 2 /\ 3 \in 1 .. L + 2
        /\ o + 1 + 1 = o + 2 /\ o + 2 + 1 = o + 3 /\ o + 3 + 1 = o + 4
    BY <1>4
  <2>2. json[o + 2] = p[1] /\ json[o + 3] = p[2] /\ json[o + 4] = p[3] /\ o + 4 \in DOMAIN json
    BY <1>7, <2>1
  <2>3. p[3] = obj[1]
    <3>1. 1 \in 1 .. L /\ 1 + 2 = 3 /\ \A i \in 1 .. L : p[i + 2] = obj[i]
      BY <1>4, <1>5
    <3> QED
      BY <3>1
  <2> QED
    BY <1>5, <2>2, <2>3
<1>9. Stands(obj, json, o + 3)
  <2>1. ASSUME NEW i \in 1 .. L PROVE json[o + 3 + i] = obj[i]
    <3>1. i + 2 \in 1 .. L + 2 /\ o + (i + 2) + 1 = o + 3 + i
      BY <1>4
    <3>2. json[o + (i + 2) + 1] = p[i + 2]
      BY <1>7, <3>1
    <3> QED
      BY <1>5, <3>1, <3>2
  <2> QED
    BY <2>1 DEF Stands, L
<1>10. DOMAIN json = 1 .. Len(json) /\ o + 3 + L <= Len(json)
  BY <1>2, <1>3, <1>4
<1>11. keyAt(json, s) = o + 2
  <2> DEFINE S == {k_ \in DOMAIN json : json[k_] = Quoted(s)}
  <2>1. S \in SUBSET Nat /\ o + 2 \in S
    <3>1. o + 2 \in DOMAIN json /\ DOMAIN json \subseteq Nat
      BY <1>8, <1>10
    <3> QED
      BY <1>8, <3>1 DEF x
  <2>2. ASSUME NEW j \in S PROVE o + 2 <= j
    <3> SUFFICES ASSUME j < o + 2 PROVE FALSE
      BY <1>10
    <3>1. json[j] = x
      BY DEF x
    <3>2. CASE j = 1
      BY <1>1, <1>3, <3>1, <3>2
    <3>3. CASE j # 1
      <4>1. j - 1 \in 1 .. o /\ j - 1 \in 1 .. Len(v) /\ (j - 1) + 1 = j
        <5>1. j \in Nat /\ j # 0
          BY <1>10
        <5>2. o <= Len(v) /\ Len(v) \in Nat
          BY <1>2, <1>3, <1>4
        <5> HIDE DEF S
        <5> QED
          BY <3>3, <5>1, <5>2
      <4>2. json[j] = v[j - 1] /\ v[j - 1] # x
        BY <1>2, <1>3, <4>1
      <4> QED
        BY <3>1, <4>2
    <3> QED
      BY <3>2, <3>3
  <2> HIDE DEF S
  <2>3. First(S) = o + 2
    BY <2>1, <2>2, FirstIs
  <2> QED
    BY <2>3 DEF keyAt, S
<1>12. braceAt(json, s) = o + 4
  <2> DEFINE S == {k_ \in (o + 2) + 1 .. Len(json) : json[k_] = Open}
  <2>1. S \in SUBSET Nat /\ o + 4 \in S
    BY <1>8, <1>10
  <2>2. ASSUME NEW j \in S PROVE o + 4 <= j
    <3>1. j # o + 3
      BY <1>8, Tokens
    <3> QED
      BY <3>1
  <2> HIDE DEF S
  <2>3. First(S) = o + 4
    BY <2>1, <2>2, FirstIs
  <2> QED
    BY <1>11, <2>3 DEF braceAt, S
<1>13. closeOf(json, s) = o + 3 + L
  <2> DEFINE S == {k_ \in o + 4 .. Len(json) : json[k_] = Close /\ depth(json, o + 4, k_) = 0}
  <2>1. \A n \in 0 .. L : depth(json, (o + 3) + 1, (o + 3) + n) = depth(obj, 1, n)
    <3>1. o + 3 \in Nat
      OBVIOUS
    <3> QED
      BY <1>9, <3>1, DepthMoved DEF L, IsObject
  <2>2. \A n \in 0 .. L : depth(json, o + 4, o + 3 + n) = depth(obj, 1, n)
    <3>1. (o + 3) + 1 = o + 4
      OBVIOUS
    <3> QED
      BY <2>1, <3>1
  <2>3. S \in SUBSET Nat
    OBVIOUS
  <2>4. o + 3 + L \in S
    <3>1. json[o + 3 + L] = obj[L]
      <4>1. \A i \in 1 .. L : json[o + 3 + i] = obj[i]
        BY <1>9 DEF Stands, L
      <4> QED
        BY <1>4, <4>1
    <3>2. depth(json, o + 4, o + 3 + L) = depth(obj, 1, L)
      BY <1>4, <2>2
    <3>3. o + 3 + L \in o + 4 .. Len(json)
      BY <1>4, <1>10
    <3> QED
      BY <1>5, <3>1, <3>2, <3>3
  <2>5. ASSUME NEW j \in S PROVE o + 3 + L <= j
    <3> SUFFICES ASSUME j < o + 3 + L PROVE FALSE
      BY <1>4
    <3>1. j - (o + 3) \in 1 .. L - 1 /\ o + 3 + (j - (o + 3)) = j
      BY <1>4
    <3>2. depth(json, o + 4, j) = depth(obj, 1, j - (o + 3))
      BY <1>4, <2>2, <3>1
    <3> QED
      BY <1>5, <3>1, <3>2
  <2> HIDE DEF S
  <2>6. First(S) = o + 3 + L
    BY <2>3, <2>4, <2>5, FirstIs
  <2> QED
    BY <1>12, <2>6 DEF closeOf, S
<1>14. SubSeq(json, o + 4, o + 3 + L) = obj
  <2>1. \A i \in 1 .. L : json[o + 3 + i] = obj[i]
    BY <1>9 DEF Stands, L
  <2>2. /\ SubSeq(json, o + 4, o + 3 + L) \in Seq(Token)
        /\ Len(SubSeq(json, o + 4, o + 3 + L)) = L
        /\ \A i \in 1 .. L : SubSeq(json, o + 4, o + 3 + L)[i] = json[o + 3 + i]
    BY <1>3, <1>4, <1>10
  <2>3. obj \in Seq(Token) /\ Len(obj) = L
    BY DEF L, IsObject
  <2> DEFINE q == SubSeq(json, o + 4, o + 3 + L)
  <2>4. q \in Seq(Token) /\ Len(q) = L /\ \A i \in 1 .. L : q[i] = obj[i]
    BY <2>1, <2>2
  <2> HIDE DEF q
  <2>5. q = obj
    BY <2>3, <2>4
  <2> QED
    BY <2>5 DEF q
<1>15. keyAt(json, s) # Nowhere /\ braceAt(json, s) # Nowhere /\ o + 3 + L # Nowhere
  BY <1>4, <1>11, <1>12 DEF Nowhere
<1> QED
  BY <1>12, <1>13, <1>14, <1>15 DEF objectFor, HasObject, json

LEMMA NoObject ==
  ASSUME NEW ps \in Seq(Seq(Token)), NEW s,
         \A k \in 1 .. Len(ps) : Lacks(ps[k], Quoted(s))
  PROVE  objectFor(Object(ps), s) = << >>
<1> DEFINE x == Quoted(s)
           v == Separated(ps)
           json == Object(ps)
<1>1. x # Comma /\ x # Open /\ x # Close
  <2>1. x[1] = "string"
    BY Tokens
  <2> QED
    BY <2>1, Tokens
<1>2. Lacks(v, x)
  <2>1. Len(ps) \in 0 .. Len(ps)
    OBVIOUS
  <2> HIDE DEF x
  <2>2. Lacks(Joined(ps)[Len(ps)], x)
    BY <1>1, <2>1, LacksJoined DEF x
  <2> QED
    BY <2>2 DEF Separated
<1>3. /\ Len(v) \in Nat /\ json \in Seq(Token) /\ Len(json) = Len(v) + 2
      /\ json[1] = Open /\ json[Len(v) + 2] = Close
      /\ \A i \in 1 .. Len(v) : json[i + 1] = v[i]
  BY ObjectIs
<1> HIDE DEF v, json, x
<1>4. \A j \in DOMAIN json : json[j] # x
  <2> SUFFICES ASSUME NEW j \in DOMAIN json PROVE json[j] # x
    OBVIOUS
  <2>0. j \in 1 .. Len(v) + 2
    BY <1>3
  <2>1. CASE j = 1 \/ j = Len(v) + 2
    BY <1>1, <1>3, <2>1
  <2>2. CASE j # 1 /\ j # Len(v) + 2
    <3>1. j - 1 \in 1 .. Len(v) /\ (j - 1) + 1 = j
      BY <1>3, <2>0, <2>2
    <3> QED
      BY <1>2, <1>3, <3>1 DEF Lacks
  <2> QED
    BY <2>1, <2>2
<1>5. keyAt(json, s) = Nowhere
  <2>1. {k \in DOMAIN json : json[k] = Quoted(s)} = {}
    BY <1>4 DEF x
  <2> QED
    BY <2>1, FirstOfNone DEF keyAt
<1> QED
  BY <1>5 DEF objectFor, HasObject, json

-----------------------------------------------------------------------------
(* The value of a key *)

(* Where getValue finds the key. *)
Hits(t, key) ==
  {k \in 1 .. Len(t) - 2 : t[k] = Quoted(key) /\ t[k + 1] = Colon /\ t[k + 2][1] = KindOf(key)}

Fits(e, key) == e.key = key /\ e.value[1][1] = KindOf(key)

LEMMA HitsOfEntry ==
  ASSUME NEW e, IsEntry(e), NEW key
  PROVE  \E c \in 1 .. Len(EntryText(e)) - 2 :
           /\ EntryText(e)[c + 2] = Plainly(e).value[1]
           /\ Hits(EntryText(e), key) = IF Fits(Plainly(e), key) THEN {c} ELSE {}
<1> DEFINE p == EntryText(e)
           v == e.value
           q == Plainly(e)
           Q(x) == Quoted(x)
           K == KindOf(key)
           At(k) == p[k] = Q(key) /\ p[k + 1] = Colon /\ p[k + 2][1] = K
<1>1. /\ p \in Seq(Token) /\ Len(p) = Len(v) + 2 /\ p[1] = Q(e.key) /\ p[2] = Colon
      /\ \A i \in 1 .. Len(v) : p[i + 2] = v[i]
  BY EntryIs
<1>2. /\ K # "{" /\ K # "}" /\ K # ":" /\ K # ","
      /\ Open[1] = "{" /\ Close[1] = "}" /\ Colon[1] = ":" /\ Comma[1] = ","
  BY OfAKind, Tokens DEF Kinds
<1>3. /\ \A x, y : Q(x) = Q(y) <=> x = y
      /\ \A x : Q(x) # Open /\ Q(x) # Close /\ Q(x) # Colon /\ Q(x) # Comma
  <2>1. \A x : Q(x)[1] = "string" /\ Q(x)[2] = x
    BY Tokens
  <2>2. Open[1] # "string" /\ Close[1] # "string" /\ Colon[1] # "string" /\ Comma[1] # "string"
    BY Tokens
  <2> HIDE DEF Q
  <2>3. \A x, y : Q(x) = Q(y) <=> x = y
    BY <2>1
  <2>4. \A x : Q(x) # Open /\ Q(x) # Close /\ Q(x) # Colon /\ Q(x) # Comma
    BY <2>1, <2>2
  <2> QED
    BY <2>3, <2>4
<1>4. Hits(p, key) = {k \in 1 .. Len(p) - 2 : At(k)}
  BY DEF Hits
<1> HIDE DEF p, Q, K
<1>5. ASSUME GivesValue(v)
      PROVE  \E c \in 1 .. Len(p) - 2 :
               p[c + 2] = q.value[1] /\ Hits(p, key) = IF Fits(q, key) THEN {c} ELSE {}
  <2>1. Len(v) = 1 /\ Len(p) = 3 /\ q = e
    BY <1>1, <1>5 DEF GivesValue, Plainly
  <2>2. p[3] = v[1]
    <3>1. 1 \in 1 .. Len(v) /\ 1 + 2 = 3
      BY <2>1
    <3> QED
      BY <1>1, <3>1
  <2>3. 1 .. Len(p) - 2 = {1}
    BY <2>1
  <2>4. At(1) <=> Fits(q, key)
    <3>1. 1 + 1 = 2 /\ 1 + 2 = 3
      OBVIOUS
    <3> QED
      BY <1>1, <1>3, <2>1, <2>2, <3>1 DEF Fits, K
  <2>5. Hits(p, key) = IF Fits(q, key) THEN {1} ELSE {}
    <3> HIDE DEF At, q
    <3> QED
      BY <1>4, <2>3, <2>4
  <2>6. p[1 + 2] = q.value[1] /\ 1 \in 1 .. Len(p) - 2
    BY <2>1, <2>2
  <2> HIDE DEF q
  <2> QED
    BY <2>5, <2>6
<1>6. ASSUME GivesObject(v)
      PROVE  \E c \in 1 .. Len(p) - 2 :
               p[c + 2] = q.value[1] /\ Hits(p, key) = IF Fits(q, key) THEN {c} ELSE {}
  <2>1. /\ Len(v) = 5 /\ v[1] = Open /\ v[3] = Colon /\ v[5] = Close
        /\ v[2] \in {"string"} \X STRING
    BY <1>6 DEF GivesObject
  <2>2. q.key = v[2][2] /\ q.value[1] = v[4]
    BY <2>1 DEF Plainly
  <2>3. v[2] = Q(q.key)
    BY <2>1, <2>2 DEF Q, Quoted
  <2>4. Len(p) = 7 /\ p[3] = Open /\ p[4] = Q(q.key) /\ p[5] = Colon /\ p[6] = v[4] /\ p[7] = Close
    <3>1. p[1 + 2] = v[1] /\ p[2 + 2] = v[2] /\ p[3 + 2] = v[3] /\ p[4 + 2] = v[4] /\ p[5 + 2] = v[5]
      BY <1>1, <2>1
    <3> QED
      BY <1>1, <2>1, <2>3, <3>1
  <2>5. 1 .. Len(p) - 2 = {1, 2, 3, 4, 5}
    BY <2>4
  <2>6. ~At(1) /\ ~At(2) /\ ~At(3) /\ ~At(5)
    <3>1. p[1 + 2][1] # K
      <4>1. Open[1] # K
        BY <1>2
      <4>2. p[3] = Open
        BY <2>4
      <4>3. 1 + 2 = 3
        OBVIOUS
      <4> QED
        BY <4>1, <4>2, <4>3
    <3>2. p[2] # Q(key) /\ p[3] # Q(key) /\ p[5] # Q(key)
      BY <1>1, <1>3, <2>4
    <3> QED
      BY <3>1, <3>2
  <2>7. At(4) <=> Fits(q, key)
    <3>1. 4 + 1 = 5 /\ 4 + 2 = 6
      OBVIOUS
    <3> QED
      BY <1>3, <2>2, <2>4, <3>1 DEF Fits, K
  <2>8. Hits(p, key) = IF Fits(q, key) THEN {4} ELSE {}
    <3> HIDE DEF At, q
    <3> QED
      BY <1>4, <2>5, <2>6, <2>7
  <2>9. p[4 + 2] = q.value[1] /\ 4 \in 1 .. Len(p) - 2
    BY <2>2, <2>4
  <2> HIDE DEF q
  <2> QED
    BY <2>8, <2>9
<1> QED
  BY <1>5, <1>6 DEF IsEntry, p

(* The comma keeps the parts apart. *)
LEMMA HitsExtended ==
  ASSUME NEW t \in Seq(Token), NEW p \in Seq(Token), NEW key
  PROVE  Hits(Extended(t, p), key) = Hits(t, key) \cup {Offset(t) + k : k \in Hits(p, key)}
<1> DEFINE u == Extended(t, p)
           o == Offset(t)
           x == Quoted(key)
           K == KindOf(key)
           At(w, k) == w[k] = x /\ w[k + 1] = Colon /\ w[k + 2][1] = K
<1>1. Follows(u, t, p, o)
  BY ExtendedBy
<1>2. Len(t) \in Nat /\ Len(p) \in Nat
  OBVIOUS
<1>3. K # "," /\ Comma[1] = "," /\ x # Comma /\ Comma # Colon
  <2>1. K # ","
    BY OfAKind DEF Kinds
  <2>2. x[1] = "string" /\ Comma[1] = "," /\ Comma # Colon
    BY Tokens
  <2> HIDE DEF x, K
  <2> QED
    BY <2>1, <2>2
<1>4. /\ Hits(u, key) = {k \in 1 .. Len(u) - 2 : At(u, k)}
      /\ Hits(t, key) = {k \in 1 .. Len(t) - 2 : At(t, k)}
      /\ Hits(p, key) = {k \in 1 .. Len(p) - 2 : At(p, k)}
  BY DEF Hits
<1> HIDE DEF u, o, x, K
<1>5. /\ o \in Nat /\ o >= Len(t) /\ Len(u) = o + Len(p)
      /\ \A i \in 1 .. Len(t) : u[i] = t[i]
      /\ \A i \in 1 .. Len(p) : u[o + i] = p[i]
      /\ \A i \in Len(t) + 1 .. o : i = o /\ u[i] = Comma
  BY <1>1 DEF Follows
<1>6. \A k \in 1 .. Len(t) - 2 : At(u, k) <=> At(t, k)
  <2> SUFFICES ASSUME NEW k \in 1 .. Len(t) - 2 PROVE At(u, k) <=> At(t, k)
    OBVIOUS
  <2>1. k \in 1 .. Len(t) /\ k + 1 \in 1 .. Len(t) /\ k + 2 \in 1 .. Len(t)
    BY <1>2
  <2> QED
    BY <1>5, <2>1
<1>7. \A k \in 1 .. Len(p) - 2 : At(u, o + k) <=> At(p, k)
  <2> SUFFICES ASSUME NEW k \in 1 .. Len(p) - 2 PROVE At(u, o + k) <=> At(p, k)
    OBVIOUS
  <2>1. /\ k \in 1 .. Len(p) /\ k + 1 \in 1 .. Len(p) /\ k + 2 \in 1 .. Len(p)
        /\ o + (k + 1) = (o + k) + 1 /\ o + (k + 2) = (o + k) + 2
    BY <1>2, <1>5
  <2>2. u[o + k] = p[k] /\ u[o + (k + 1)] = p[k + 1] /\ u[o + (k + 2)] = p[k + 2]
    BY <1>5, <2>1
  <2> QED
    BY <2>1, <2>2
<1>8. ASSUME NEW k \in 1 .. Len(u) - 2, k > Len(t) - 2, k <= o, At(u, k)
      PROVE  FALSE
  <2>1. k \in Nat /\ Len(u) \in Nat
    BY <1>2, <1>5
  <2>2. o > Len(t) /\ u[o] = Comma /\ o = Len(t) + 1
    <3>1. CASE o = Len(t)
      <4>1. t = << >>
        BY <1>2, <3>1 DEF o, Offset
      <4> QED
        BY <1>2, <1>8, <2>1, <3>1, <4>1
    <3>2. CASE o # Len(t)
      <4>1. o \in Len(t) + 1 .. o /\ Len(t) + 1 \in Len(t) + 1 .. o
        BY <1>2, <1>5, <3>2
      <4> QED
        BY <1>2, <1>5, <4>1
    <3> QED
      BY <3>1, <3>2
  <2>3. k = o \/ k + 1 = o \/ k + 2 = o
    <3>1. k > Len(t) - 2 /\ k <= Len(t) + 1 /\ o = Len(t) + 1
      BY <1>8, <2>2
    <3> HIDE DEF At
    <3> QED
      BY <1>2, <2>1, <3>1
  <2> QED
    BY <1>3, <1>8, <2>2, <2>3
<1>9. 1 .. Len(t) - 2 \subseteq 1 .. Len(u) - 2 /\ \A k \in 1 .. Len(p) - 2 : o + k \in 1 .. Len(u) - 2
  BY <1>2, <1>5
<1>10. \A k \in 1 .. Len(u) - 2 : k > o => k - o \in 1 .. Len(p) - 2 /\ o + (k - o) = k
  BY <1>2, <1>5
<1>11. \A k \in 1 .. Len(u) - 2 : k \in 1 .. Len(t) - 2 \/ (k > Len(t) - 2 /\ k <= o) \/ k > o
  BY <1>2, <1>5
<1> HIDE DEF At
<1>12. ASSUME NEW k \in Hits(u, key)
       PROVE  k \in Hits(t, key) \cup {o + j : j \in Hits(p, key)}
  <2>1. k \in 1 .. Len(u) - 2 /\ At(u, k)
    BY <1>4
  <2>2. CASE k \in 1 .. Len(t) - 2
    BY <1>4, <1>6, <2>1, <2>2
  <2>3. CASE k > o
    <3>1. k - o \in 1 .. Len(p) - 2 /\ o + (k - o) = k
      BY <1>10, <2>1, <2>3
    <3>2. k - o \in Hits(p, key)
      BY <1>4, <1>7, <2>1, <3>1
    <3> QED
      BY <3>1, <3>2
  <2> QED
    BY <1>8, <1>11, <2>1, <2>2, <2>3
<1>13. ASSUME NEW k \in Hits(t, key) PROVE k \in Hits(u, key)
  BY <1>4, <1>6, <1>9
<1>14. ASSUME NEW k \in Hits(p, key) PROVE o + k \in Hits(u, key)
  BY <1>4, <1>7, <1>9
<1> QED
  BY <1>12, <1>13, <1>14 DEF u, o

LEMMA HitsOfObject ==
  ASSUME NEW ps \in Seq(Seq(Token)), NEW key
  PROVE  Hits(Object(ps), key) = {1 + k : k \in Hits(Separated(ps), key)}
<1> DEFINE t == Separated(ps)
           u == Object(ps)
           x == Quoted(key)
           K == KindOf(key)
           At(w, k) == w[k] = x /\ w[k + 1] = Colon /\ w[k + 2][1] = K
<1>1. /\ Len(t) \in Nat /\ Len(u) = Len(t) + 2 /\ u[1] = Open /\ u[Len(t) + 2] = Close
      /\ \A i \in 1 .. Len(t) : u[i + 1] = t[i]
  BY ObjectIs
<1>2. K # "}" /\ Close[1] = "}" /\ x # Open
  <2>1. K # "}"
    BY OfAKind DEF Kinds
  <2>2. x[1] = "string" /\ Close[1] = "}" /\ Open[1] = "{"
    BY Tokens
  <2> HIDE DEF x, K
  <2> QED
    BY <2>1, <2>2
<1>3. /\ Hits(u, key) = {k \in 1 .. Len(u) - 2 : At(u, k)}
      /\ Hits(t, key) = {k \in 1 .. Len(t) - 2 : At(t, k)}
  BY DEF Hits
<1> HIDE DEF t, u, x, K
<1>4. \A k \in 1 .. Len(t) - 2 : At(u, 1 + k) <=> At(t, k)
  <2> SUFFICES ASSUME NEW k \in 1 .. Len(t) - 2 PROVE At(u, 1 + k) <=> At(t, k)
    OBVIOUS
  <2>1. /\ k \in 1 .. Len(t) /\ k + 1 \in 1 .. Len(t) /\ k + 2 \in 1 .. Len(t)
        /\ k + 1 = 1 + k /\ (k + 1) + 1 = (1 + k) + 1 /\ (k + 2) + 1 = (1 + k) + 2
    BY <1>1
  <2>2. u[k + 1] = t[k] /\ u[(k + 1) + 1] = t[k + 1] /\ u[(k + 2) + 1] = t[k + 2]
    BY <1>1, <2>1
  <2> QED
    BY <2>1, <2>2
<1>5. ~At(u, 1)
  BY <1>1, <1>2
<1>6. Len(t) # 0 => ~At(u, Len(t))
  BY <1>1, <1>2
<1>7. \A k \in 1 .. Len(t) - 2 : 1 + k \in 1 .. Len(u) - 2
  BY <1>1
<1>8. \A k \in 1 .. Len(u) - 2 : k = 1 \/ k = Len(t) \/ (k - 1 \in 1 .. Len(t) - 2 /\ 1 + (k - 1) = k)
  BY <1>1
<1> HIDE DEF At
<1>9. ASSUME NEW k \in Hits(u, key) PROVE k \in {1 + j : j \in Hits(t, key)}
  <2>1. k \in 1 .. Len(u) - 2 /\ At(u, k) /\ k # 1 /\ k # Len(t)
    BY <1>1, <1>3, <1>5, <1>6
  <2>2. k - 1 \in 1 .. Len(t) - 2 /\ 1 + (k - 1) = k
    BY <1>8, <2>1
  <2>3. k - 1 \in Hits(t, key)
    BY <1>3, <1>4, <2>1, <2>2
  <2> QED
    BY <2>2, <2>3
<1>10. ASSUME NEW k \in Hits(t, key) PROVE 1 + k \in Hits(u, key)
  BY <1>3, <1>4, <1>7
<1> QED
  BY <1>9, <1>10 DEF t, u

(* The first hit in a text is the value of the first of the entries, of    *)
(* which f gives the first n, that fits.                                   *)
Fitting(f, key, n) == {k \in 1 .. n : Fits(f[k], key)}

ReadsFirst(t, key, f, n) ==
  IF Fitting(f, key, n) = {} THEN Hits(t, key) = {}
  ELSE /\ Hits(t, key) # {}
       /\ t[First(Hits(t, key)) + 2] = f[First(Fitting(f, key, n))].value[1]

LEMMA ReadsExtended ==
  ASSUME NEW t \in Seq(Token), NEW e, IsEntry(e), NEW key, NEW n \in Nat, NEW f,
         f[n + 1] = Plainly(e), ReadsFirst(t, key, f, n)
  PROVE  ReadsFirst(Extended(t, EntryText(e)), key, f, n + 1)
<1> DEFINE p == EntryText(e)
           u == Extended(t, p)
           o == Offset(t)
           H == Hits(t, key)
           J == Hits(p, key)
           I == Hits(u, key)
           S == Fitting(f, key, n)
           R == Fitting(f, key, n + 1)
           x == f[n + 1]
<1>1. PICK c \in 1 .. Len(p) - 2 :
        p[c + 2] = x.value[1] /\ J = IF Fits(x, key) THEN {c} ELSE {}
  BY HitsOfEntry
<1>2. p \in Seq(Token)
  BY EntryIs
<1>3. I = H \cup {o + k : k \in J}
  BY <1>2, HitsExtended
<1>4. Follows(u, t, p, o)
  BY <1>2, ExtendedBy
<1>5. Len(t) \in Nat /\ Len(p) \in Nat
  BY <1>2
<1>6. H \in SUBSET Nat /\ \A k \in H : k + 2 \in 1 .. Len(t)
  <2>1. \A k \in H : k \in 1 .. Len(t) - 2
    BY DEF Hits
  <2> HIDE DEF H
  <2> QED
    BY <1>5, <2>1
<1>7. /\ R = S \cup (IF Fits(x, key) THEN {n + 1} ELSE {})
      /\ S \in SUBSET (1 .. n) /\ S \in SUBSET Nat
  <2>1. \A k : k \in 1 .. n + 1 <=> (k \in 1 .. n \/ k = n + 1)
    OBVIOUS
  <2> QED
    BY <2>1 DEF Fitting
<1>8. IF S = {} THEN H = {} ELSE H # {} /\ t[First(H) + 2] = f[First(S)].value[1]
  BY DEF ReadsFirst
<1> HIDE DEF p, u, o, H, J, I, S, R, x
<1>9. /\ o \in Nat /\ o >= Len(t)
      /\ \A i \in 1 .. Len(t) : u[i] = t[i]
      /\ \A i \in 1 .. Len(p) : u[o + i] = p[i]
  BY <1>4 DEF Follows
<1>10. IF R = {} THEN I = {} ELSE I # {} /\ u[First(I) + 2] = f[First(R)].value[1]
  <2>1. CASE S # {}
    <3>1. H # {} /\ H \in SUBSET Nat /\ S \in SUBSET Nat
      BY <1>6, <1>7, <1>8, <2>1
    <3>2. First(H) \in H /\ \A j \in H : First(H) <= j
      BY <3>1, FirstOf
    <3>3. First(S) \in S /\ \A j \in S : First(S) <= j
      BY <2>1, <3>1, FirstOf
    <3>4. First(I) = First(H)
      <4>1. I \in SUBSET Nat /\ First(H) \in I
        <5>1. \A i \in J : o + i \in Nat
          BY <1>1, <1>9
        <5> QED
          BY <1>3, <3>1, <3>2, <5>1
      <4>2. \A j \in I : First(H) <= j
        <5> SUFFICES ASSUME NEW j \in I PROVE First(H) <= j
          OBVIOUS
        <5>1. CASE j \in H
          BY <3>2, <5>1
        <5>2. CASE j \notin H
          <6>1. j = o + c
            BY <1>1, <1>3, <5>2
          <6>2. First(H) \in Nat /\ First(H) + 2 \in 1 .. Len(t)
            BY <1>6, <3>2
          <6> QED
            BY <1>1, <1>5, <1>9, <6>1, <6>2
        <5> QED
          BY <5>1, <5>2
      <4> QED
        BY <4>1, <4>2, FirstIs
    <3>5. First(R) = First(S)
      <4>1. R \in SUBSET Nat /\ First(S) \in R
        BY <1>7, <3>1, <3>3
      <4>2. \A j \in R : First(S) <= j
        <5> SUFFICES ASSUME NEW j \in R PROVE First(S) <= j
          OBVIOUS
        <5>1. j \in S \/ j = n + 1
          BY <1>7
        <5>2. First(S) \in 1 .. n
          BY <1>7, <3>3
        <5> QED
          BY <3>3, <5>1, <5>2
      <4> QED
        BY <4>1, <4>2, FirstIs
    <3>6. u[First(H) + 2] = t[First(H) + 2]
      <4>1. First(H) + 2 \in 1 .. Len(t)
        BY <1>6, <3>2
      <4> QED
        BY <1>9, <4>1
    <3>7. R # {} /\ I # {}
      BY <1>3, <1>7, <2>1, <3>1
    <3> QED
      BY <1>8, <2>1, <3>4, <3>5, <3>6, <3>7
  <2>2. CASE S = {} /\ Fits(x, key)
    <3>1. I = {o + c} /\ R = {n + 1}
      BY <1>1, <1>3, <1>7, <1>8, <2>2
    <3>2. o + c \in Nat /\ n + 1 \in Nat
      BY <1>1, <1>5, <1>9
    <3>3. First(I) = o + c
      <4>1. I \in SUBSET Nat /\ o + c \in I /\ \A j \in I : o + c <= j
        BY <3>1, <3>2
      <4> QED
        BY <4>1, FirstIs
    <3>4. First(R) = n + 1
      <4>1. R \in SUBSET Nat /\ n + 1 \in R /\ \A j \in R : n + 1 <= j
        BY <3>1, <3>2
      <4> QED
        BY <4>1, FirstIs
    <3>5. u[(o + c) + 2] = p[c + 2]
      <4>1. c + 2 \in 1 .. Len(p) /\ o + (c + 2) = (o + c) + 2
        BY <1>1, <1>5, <1>9
      <4> QED
        BY <1>9, <4>1
    <3> QED
      BY <1>1, <3>1, <3>3, <3>4, <3>5 DEF x
  <2>3. CASE S = {} /\ ~Fits(x, key)
    BY <1>1, <1>3, <1>7, <1>8, <2>3
  <2> QED
    BY <2>1, <2>2, <2>3
<1> QED
  BY <1>10 DEF ReadsFirst, p, u, I, R

PlainEntries(s) == [k \in DOMAIN s.entries |-> Plainly(s.entries[k])]

(* What the first of the entries that fits gives. *)
FirstGiven(f, key, fallback) ==
  LET S == {k \in DOMAIN f : Fits(f[k], key)} IN
  IF S = {} THEN fallback ELSE f[First(S)].value[1][2]

LEMMA SectionRead ==
  ASSUME NEW s \in Section, NEW key, NEW fallback
  PROVE  getValue(Object(EntryTexts(s)), key, fallback) = FirstGiven(PlainEntries(s), key, fallback)
<1> DEFINE f == PlainEntries(s)
           S == {k \in DOMAIN f : Fits(f[k], key)}
           qs == EntryTexts(s)
           N == Len(qs)
           G == {n \in 0 .. N : ReadsFirst(Joined(qs)[n], key, f, n)}
           t == Separated(qs)
           u == Object(qs)
<1>1. /\ qs \in Seq(Seq(Token)) /\ N \in Nat /\ DOMAIN s.entries = 1 .. N
      /\ DOMAIN f = 1 .. N
      /\ \A k \in 1 .. N : IsEntry(s.entries[k]) /\ qs[k] = EntryText(s.entries[k])
                           /\ f[k] = Plainly(s.entries[k])
  <2>1. s.entries \in Seq(Entries)
    BY DEF Section
  <2>2. qs \in Seq(Seq(Token)) /\ N = Len(s.entries) /\ \A k \in DOMAIN s.entries : IsEntry(s.entries[k])
    BY EntriesAre
  <2>3. N \in Nat /\ DOMAIN s.entries = 1 .. N
    BY <2>1, <2>2
  <2> QED
    BY <2>2, <2>3 DEF EntryTexts, PlainEntries
<1>2. S = Fitting(f, key, N)
  BY <1>1 DEF Fitting
<1> HIDE DEF qs, N, f, S
<1>3. 0 \in G
  <2>1. Joined(qs)[0] = << >>
    BY <1>1, JoinedUpto
  <2>2. Fitting(f, key, 0) = {}
    BY DEF Fitting
  <2>3. Hits(<< >>, key) = {}
    BY DEF Hits
  <2> QED
    BY <1>1, <2>1, <2>2, <2>3 DEF ReadsFirst
<1>4. ASSUME NEW n \in 1 .. N, n - 1 \in G PROVE n \in G
  <2>1. n - 1 \in Nat /\ (n - 1) + 1 = n /\ n - 1 \in 0 .. Len(qs) /\ n \in 1 .. Len(qs)
    BY <1>1 DEF N
  <2>2. /\ Joined(qs)[n] = Extended(Joined(qs)[n - 1], EntryText(s.entries[n]))
        /\ Joined(qs)[n - 1] \in Seq(Token)
    BY <1>1, <2>1, JoinedUpto, JoinedTyped
  <2>3. IsEntry(s.entries[n]) /\ f[(n - 1) + 1] = Plainly(s.entries[n])
    BY <1>1, <2>1
  <2>4. ReadsFirst(Joined(qs)[n], key, f, (n - 1) + 1)
    BY <1>4, <2>1, <2>2, <2>3, ReadsExtended
  <2> QED
    BY <1>1, <2>1, <2>4
<1>5. ReadsFirst(t, key, f, N)
  <2>1. G \in SUBSET (0 .. N)
    OBVIOUS
  <2>2. G = 0 .. N
    <3> HIDE DEF G
    <3> QED
      BY <1>1, <1>3, <1>4, <2>1, Climb
  <2>3. N \in G
    <3>1. N \in 0 .. N
      BY <1>1
    <3> HIDE DEF G
    <3> QED
      BY <2>2, <3>1
  <2>4. ReadsFirst(Joined(qs)[N], key, f, N)
    BY <2>3
  <2> QED
    BY <2>4 DEF Separated, N
<1>6. Hits(u, key) = {1 + k : k \in Hits(t, key)}
  BY <1>1, HitsOfObject
<1>7. /\ Len(t) \in Nat /\ \A i \in 1 .. Len(t) : u[i + 1] = t[i]
  BY <1>1, ObjectIs
<1>8. Hits(t, key) \in SUBSET Nat /\ \A k \in Hits(t, key) : k \in 1 .. Len(t) - 2
  BY DEF Hits
<1> DEFINE H == Hits(t, key)
           I == Hits(u, key)
<1>9. getValue(u, key, fallback) = IF First(I) = Nowhere THEN fallback ELSE u[First(I) + 2][2]
  BY DEF getValue, Hits
<1> HIDE DEF t, u, H, I
<1>10. ASSUME S = {} PROVE getValue(u, key, fallback) = fallback
  <2>1. I = {}
    BY <1>2, <1>5, <1>6, <1>10 DEF ReadsFirst, H, I
  <2> QED
    BY <1>9, <1>10, <2>1, FirstOfNone
<1>11. ASSUME S # {} PROVE getValue(u, key, fallback) = f[First(S)].value[1][2]
  <2>1. H # {} /\ H \in SUBSET Nat /\ t[First(H) + 2] = f[First(S)].value[1]
    <3>1. H \in SUBSET Nat
      BY <1>8 DEF H
    <3>2. H # {} /\ t[First(H) + 2] = f[First(Fitting(f, key, N))].value[1]
      BY <1>2, <1>5, <1>11 DEF ReadsFirst, H
    <3> QED
      BY <1>2, <3>1, <3>2
  <2>2. First(H) \in H /\ \A j \in H : First(H) <= j
    BY <2>1, FirstOf
  <2>3. First(H) \in 1 .. Len(t) - 2
    BY <1>8, <2>2 DEF H
  <2>4. First(I) = 1 + First(H)
    <3>1. I = {1 + k : k \in H}
      BY <1>6 DEF H, I
    <3>2. I \in SUBSET Nat /\ 1 + First(H) \in I /\ \A j \in I : 1 + First(H) <= j
      <4>1. \A k \in H : k \in Nat /\ 1 + k \in Nat /\ First(H) <= k
        BY <2>1, <2>2
      <4>2. First(H) \in Nat
        BY <2>2, <4>1
      <4>3. 1 + First(H) \in I /\ I \in SUBSET Nat
        BY <2>2, <3>1, <4>1
      <4> QED
        BY <3>1, <4>1, <4>2, <4>3
    <3> QED
      BY <3>2, FirstIs
  <2>5. u[First(I) + 2] = t[First(H) + 2]
    <3>1. First(H) + 2 \in 1 .. Len(t) /\ (First(H) + 2) + 1 = First(I) + 2
      BY <1>7, <2>3, <2>4
    <3> QED
      BY <1>7, <3>1
  <2>6. First(I) # Nowhere
    BY <1>7, <2>3, <2>4 DEF Nowhere
  <2> QED
    BY <1>9, <1>11, <2>1, <2>5, <2>6 
<1>12. FirstGiven(f, key, fallback) = IF S = {} THEN fallback ELSE f[First(S)].value[1][2]
  BY DEF FirstGiven, S
<1>13. getValue(u, key, fallback) = IF S = {} THEN fallback ELSE f[First(S)].value[1][2]
  BY <1>10, <1>11
<1> QED
  BY <1>12, <1>13 DEF u, qs, f

-----------------------------------------------------------------------------
(* The document *)

DocumentInv ==
  /\ document \in Seq(Section)
  /\ \A j, k \in DOMAIN document : document[j].name = document[k].name => j = k

LEMMA DocumentStays ==
  ASSUME DocumentInv, Next \/ UNCHANGED vars
  PROVE  DocumentInv'
<1>1. CASE UNCHANGED document
  BY <1>1 DEF DocumentInv
<1>2. CASE AddSection
  <2>1. PICK s \in Sections :
          /\ \A k \in DOMAIN document : document[k].name # s
          /\ document' = Append(document, [name |-> s, entries |-> << >>])
    BY <1>2 DEF AddSection
  <2> DEFINE d == document
             x == [name |-> s, entries |-> << >>]
  <2>2. x \in Section /\ x.name = s
    BY DEF Section
  <2> HIDE DEF x
  <2>3. /\ document' \in Seq(Section) /\ DOMAIN document' = 1 .. Len(d) + 1
        /\ \A k \in 1 .. Len(d) : document'[k] = d[k]
        /\ document'[Len(d) + 1] = x
        /\ DOMAIN d = 1 .. Len(d) /\ Len(d) \in Nat
    BY <2>1, <2>2 DEF DocumentInv, x
  <2>4. ASSUME NEW j \in DOMAIN document', NEW k \in DOMAIN document',
               document'[j].name = document'[k].name
        PROVE  j = k
    <3>1. (j \in 1 .. Len(d) \/ j = Len(d) + 1) /\ (k \in 1 .. Len(d) \/ k = Len(d) + 1)
      BY <2>3
    <3>2. \A i \in 1 .. Len(d) : document'[i].name = d[i].name /\ d[i].name # s
      BY <2>1, <2>3
    <3>3. document'[Len(d) + 1].name = s
      BY <2>2, <2>3
    <3>4. \A a, b \in 1 .. Len(d) : d[a].name = d[b].name => a = b
      BY <2>3 DEF DocumentInv
    <3> QED
      BY <2>4, <3>1, <3>2, <3>3, <3>4
  <2> QED
    BY <2>3, <2>4 DEF DocumentInv
<1>3. CASE AddEntry
  <2> DEFINE n == Len(document)
             d == document
  <2>1. PICK e \in Entries : n # 0 /\ document' = [document EXCEPT ![n].entries = Append(@, e)]
    BY <1>3 DEF AddEntry
  <2>2. d \in Seq(Section) /\ n \in 1 .. n /\ DOMAIN d = 1 .. n /\ n \in Nat
    BY <2>1 DEF DocumentInv
  <2> DEFINE x == [d[n] EXCEPT !.entries = Append(@, e)]
  <2>3. x \in Section /\ x.name = d[n].name
    <3>1. d[n] \in Section /\ d[n].entries \in Seq(Entries)
      <4>1. d[n] \in Section
        <5> HIDE DEF d, n
        <5> QED
          BY <2>2
      <4> HIDE DEF d, n
      <4> QED
        BY <4>1 DEF Section
    <3>2. Append(d[n].entries, e) \in Seq(Entries)
      BY <3>1
    <3> QED
      BY <3>1, <3>2 DEF Section
  <2>4. document' = [d EXCEPT ![n] = x]
    BY <2>1
  <2> HIDE DEF x, n
  <2>5. /\ document' \in Seq(Section) /\ DOMAIN document' = DOMAIN d
        /\ \A k \in DOMAIN d : document'[k].name = d[k].name
    BY <2>2, <2>3, <2>4
  <2> QED
    BY <2>5 DEF DocumentInv
<1> QED
  BY <1>1, <1>2, <1>3 DEF Next, WriteFile, Exited, vars

(* What the search finds in the text of the document. *)
LEMMA DocumentRead ==
  ASSUME DocumentInv, NEW s \in Names, NEW key \in DOMAIN SimulatorConfig[s]
  PROVE  load(Text)[s][key] = Given(s, key)
<1> DEFINE ps == [k \in DOMAIN document |-> SectionText(document[k])]
           N == Len(document)
           d == SimulatorConfig[s][key]
           owners == {k \in DOMAIN document : document[k].name = s}
<1>1. /\ document \in Seq(Section) /\ N \in Nat /\ DOMAIN document = 1 .. N
      /\ \A k \in 1 .. N : document[k] \in Section
      /\ \A j, k \in 1 .. N : document[j].name = document[k].name => j = k
  BY DEF DocumentInv
<1>2. ps \in Seq(Seq(Token)) /\ Len(ps) = N /\ \A k \in 1 .. N : ps[k] = SectionText(document[k])
  <2>1. \A k \in DOMAIN document : SectionText(document[k]) \in Seq(Token)
    BY <1>1, SectionIs
  <2> QED
    BY <1>1, <2>1
<1>4. load(Text)[s][key] = getValue(objectFor(Object(ps), s), key, d)
  BY DEF load, parse, Names, Text
<1> DEFINE written == IF owners = {} THEN << >> ELSE document[CHOOSE k \in owners : TRUE].entries
           f == [k \in DOMAIN written |-> Plainly(written[k])]
           S == {k \in DOMAIN f : Fits(f[k], key)}
<1>5. Given(s, key) = FirstGiven(f, key, d)
  <2>1. Given(s, key) = IF S = {} THEN d ELSE f[CHOOSE k \in S : \A j \in S : k <= j].value[1][2]
    BY DEF Given, Fits
  <2>2. FirstGiven(f, key, d) = IF S = {} THEN d ELSE f[First(S)].value[1][2]
    BY DEF FirstGiven
  <2> HIDE DEF S, f
  <2> QED
    BY <2>1, <2>2 DEF First
<1> HIDE DEF ps, N, d
<1>6. CASE owners = {}
  <2>1. FirstGiven(f, key, d) = d
    <3>1. DOMAIN << >> = {}
      OBVIOUS
    <3>2. DOMAIN f = {}
      BY <1>6, <3>1
    <3> HIDE DEF f
    <3> QED
      BY <3>2 DEF FirstGiven
  <2>2. ASSUME NEW k \in 1 .. Len(ps) PROVE Lacks(ps[k], Quoted(s))
    <3>1. k \in 1 .. N /\ ps[k] = SectionText(document[k])
      BY <1>2
    <3>2. document[k] \in Section /\ document[k].name # s
      BY <1>1, <1>6, <3>1
    <3> QED
      BY <3>1, <3>2, SectionLacks
  <2>3. objectFor(Object(ps), s) = << >>
    BY <1>2, <2>2, NoObject
  <2>4. getValue(<< >>, key, d) = d
    <3>1. 1 .. Len(<< >>) - 2 = {}
      OBVIOUS
    <3> QED
      BY <3>1, FirstOfNone DEF getValue
  <2> HIDE DEF f
  <2> QED
    BY <1>4, <1>5, <2>1, <2>3, <2>4
<1>7. CASE owners # {}
  <2> DEFINE k == CHOOSE j \in owners : TRUE
             sec == document[k]
             obj == Object(EntryTexts(sec))
  <2>1. k \in 1 .. N /\ sec.name = s /\ sec \in Section /\ written = sec.entries
    BY <1>1, <1>7
  <2> HIDE DEF k, owners, written
  <2>2. IsSection(ps[k], s, obj)
    <3>1. ps[k] = SectionText(sec)
      BY <1>2, <2>1
    <3> QED
      BY <2>1, <3>1, SectionIs DEF IsSection
  <2>3. IsObject(obj)
    <3>1. /\ EntryTexts(sec) \in Seq(Seq(Token))
          /\ \A j \in DOMAIN EntryTexts(sec) : Balanced(EntryTexts(sec)[j])
      BY <2>1, EntriesAre
    <3>2. /\ Len(Separated(EntryTexts(sec))) \in Nat
          /\ obj \in Seq(Token) /\ Len(obj) = Len(Separated(EntryTexts(sec))) + 2
          /\ obj[1] = Open /\ obj[Len(Separated(EntryTexts(sec))) + 2] = Close
      BY <3>1, ObjectIs
    <3>3. /\ \A n \in 1 .. Len(obj) - 1 : depth(obj, 1, n) >= 1
          /\ depth(obj, 1, Len(obj)) = 0
      BY <3>1, ObjectEnds
    <3> HIDE DEF obj
    <3> QED
      BY <3>2, <3>3 DEF IsObject
  <2>4. AbsentBefore(ps, k, Quoted(s))
    <3> SUFFICES ASSUME NEW j \in 1 .. k - 1 PROVE Lacks(ps[j], Quoted(s))
      BY DEF AbsentBefore
    <3>1. j \in 1 .. N /\ j # k
      BY <1>1, <2>1
    <3>2. document[j] \in Section /\ document[j].name # s
      BY <1>1, <2>1, <3>1
    <3>3. ps[j] = SectionText(document[j])
      BY <1>2, <3>1
    <3> QED
      BY <3>2, <3>3, SectionLacks
  <2>5. objectFor(Object(ps), s) = obj
    <3> HIDE DEF obj
    <3> QED
      BY <1>2, <2>1, <2>2, <2>3, <2>4, ObjectFound
  <2>6. getValue(obj, key, d) = FirstGiven(f, key, d)
    <3>1. f = PlainEntries(sec)
      BY <2>1 DEF PlainEntries
    <3> HIDE DEF f, sec
    <3>2. getValue(Object(EntryTexts(sec)), key, d) = FirstGiven(PlainEntries(sec), key, d)
      BY <2>1, SectionRead
    <3> QED
      BY <3>1, <3>2
  <2> HIDE DEF f, obj
  <2> QED
    BY <1>4, <1>5, <2>5, <2>6
<1> QED
  BY <1>6, <1>7

-----------------------------------------------------------------------------
LEMMA ConfigInvariant == Spec => [](ConfigRead /\ DocumentInv)
<1>1. Init => ConfigRead /\ DocumentInv
  <2>1. ASSUME Init PROVE ConfigRead
    BY <2>1 DEF Init, MainInit, ConfigRead
  <2>2. ASSUME document = << >> PROVE DocumentInv
    <3>1. << >> \in Seq(Section) /\ DOMAIN << >> = {}
      OBVIOUS
    <3> QED
      BY <2>2, <3>1 DEF DocumentInv
  <2> QED
    BY <2>1, <2>2 DEF Init, DocumentInit
<1>2. ConfigRead /\ DocumentInv /\ [Next]_vars => (ConfigRead /\ DocumentInv)'
  BY ConfigReadStays, DocumentStays
<1> QED
  BY <1>1, <1>2, PTL DEF Spec

(* Whatever sections a file has, in whatever order and with whatever       *)
(* entries, the search in its text gives each setting the value that the   *)
(* file gives in the setting's own section, and else the default.          *)
THEOREM ConfigurationIsAsGiven == Spec => []LoadsWhatIsGiven
<1>1. ConfigRead /\ DocumentInv => LoadsWhatIsGiven
  BY DocumentRead DEF ConfigRead, LoadsWhatIsGiven, Names
<1> QED
  BY <1>1, ConfigInvariant, PTL

(* Wherever a file is cut off, it is refused, or each of its sections is   *)
(* read as from the whole file or left at its defaults.                    *)
THEOREM SectionsAreReadWhole == Spec => []NoSectionHalfRead
<1>1. ASSUME ConfigRead, DocumentInv PROVE NoSectionHalfRead
  <2> SUFFICES ASSUME mainStage = "open", configPath = UserFile,
                      NEW n \in 0 .. Len(Text), ~LoadFails(SubSeq(Text, 1, n)), NEW s \in Names
               PROVE  load(SubSeq(Text, 1, n))[s] \in {config[s], SimulatorConfig[s]}
    BY DEF NoSectionHalfRead, Names
  <2> DEFINE part == SubSeq(Text, 1, n)
  <2>1. Text \in Seq(Token)
    <3>1. \A k \in DOMAIN document : SectionText(document[k]) \in Seq(Token)
      BY <1>1, SectionIs DEF DocumentInv
    <3>2. [k \in DOMAIN document |-> SectionText(document[k])] \in Seq(Seq(Token))
      BY <1>1, <3>1 DEF DocumentInv
    <3> QED
      BY <3>2, ObjectIs DEF Text
  <2>2. config = load(Text)
    BY <1>1 DEF ConfigRead
  <2>3. ~Malformed(part, s)
    BY DEF LoadFails, Names
  <2> HIDE DEF part
  <2>4. objectFor(part, s) \in {objectFor(Text, s), << >>}
    BY <2>1, <2>3, CutShort DEF part
  <2>5. \A json : load(json)[s] = parse(objectFor(json, s), SimulatorConfig[s])
    BY DEF load, Names
  <2>6. parse(<< >>, SimulatorConfig[s]) = SimulatorConfig[s]
    BY NothingParsed
  <2> QED
    BY <2>2, <2>4, <2>5, <2>6 DEF part
<1> QED
  BY <1>1, ConfigInvariant, PTL

=============================================================================
