------------------------------ MODULE ElfImage ------------------------------
(***************************************************************************)
(* What a loaded program is: the image its file describes, whatever order  *)
(* the segments come in, against the loop of module ElfLoader.             *)
(***************************************************************************)
EXTENDS ElfLoader

Indices == 0 .. file.phnum - 1

(* The loadable segments of the file, by index; only meaningful when every *)
(* program header lies in the file.                                        *)
LoadSegments ==
  {i \in Indices : /\ headerOffset(i) \in DOMAIN file.headers
                   /\ file.headers[headerOffset(i)].type = PtLoad}

SegmentAt(i) == file.headers[headerOffset(i)]

Length(p) == IF p.memsz > p.filesz THEN p.memsz ELSE p.filesz

(* The segments that cover an address; addresses wrap. *)
Covering(x) == {i \in LoadSegments : (x - SegmentAt(i).vaddr) % WordMod < Length(SegmentAt(i))}

(* A later segment overlays an earlier one; the rest of memory reads as 0. *)
ImageByte(x) ==
  IF Covering(x) = {} THEN 0
  ELSE LET i == CHOOSE k \in Covering(x) : \A j \in Covering(x) : j <= k
           p == SegmentAt(i)
           j == (x - p.vaddr) % WordMod
       IN  IF j < p.filesz THEN file.bytes[p.offset + j] ELSE 0

(* What a file must be: every part it names is in it. *)
WellFormed ==
  /\ file.size >= HeaderSize
  /\ file.magic /\ file.elf32le /\ file.type = 2 /\ file.machine = 243
  /\ \A i \in Indices :
       \A k \in 0 .. SegmentEntry - 1 : headerOffset(i) + k \in DOMAIN file.bytes
  /\ \A i \in LoadSegments :
       /\ SegmentAt(i).offset \in 0 .. file.size    \* also of an empty one
       /\ \A j \in 0 .. SegmentAt(i).filesz - 1 : SegmentAt(i).offset + j \in DOMAIN file.bytes

-----------------------------------------------------------------------------
(* A program is loaded only from a file that holds all the file claims to. *)
LoadsWellFormedFiles == loadStage = "loaded" => WellFormed /\ LoadSegments # {}

(* And every such file is, unless its headers have an unknown size or its  *)
(* segments all start at the last address, which is also the mark for no   *)
(* segment.                                                                *)
GoodFilesLoad ==
  loadStage = "failed" =>
    ~(/\ WellFormed /\ file.phentsize >= SegmentEntry
      /\ \E i \in LoadSegments : SegmentAt(i).vaddr # WordMod - 1)

(* Memory then is the image: overlapping segments in file order, the space *)
(* between p_filesz and p_memsz zero even where something was loaded       *)
(* before, addresses wrapping at the end of memory, nothing else touched.  *)
ImageLoaded ==
  loadStage = "loaded" =>
    /\ \A x \in Word : read8(memory, x) = ImageByte(x)
    /\ \A x \in DOMAIN memory : Covering(x) # {}
=============================================================================
