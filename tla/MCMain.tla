------------------------------- MODULE MCMain -------------------------------
(***************************************************************************)
(* Argument lists, configuration entries and program files.                *)
(***************************************************************************)
EXTENDS MainProperties

(* exit(2) keeps the low byte of the status. *)
LowByte(code) == code % 256

MainPaths ==
  {DefaultConfig, DefaultStats, UserFile, "prog.elf", "bad.elf", "any.elf", "absent"}

ShortLists ==
  UNION {[1 .. n -> {"--program", "--stats", "--help", "prog.elf"}] : n \in 0 .. 4}

LongLists ==
  [1 .. 6 -> {"--program", "--stats", "bad.elf"}]
    \cup {<<"--program", "absent", "--stats", "bad.elf">>,
          <<"--program", "bad.elf", "--stats", "absent">>,
          <<"--config", "absent", "--program", "prog.elf">>,
          <<"--program", "bad.elf", "--config", "--stats", "--program", "prog.elf">>,
          <<"--config", UserFile, "--program", "absent">>,
          <<"--program", "any.elf">>}

AllLists == ShortLists \cup LongLists

-----------------------------------------------------------------------------
Entry(key, value) == [key |-> key, value |-> value]

(* Keys that several sections have, each kind of value, a value of the     *)
(* wrong kind, a size that is rejected, an object with braces of its own.  *)
FileEntries ==
  {Entry("latency", <<Number(7)>>), Entry("replacement", <<Quoted("PLRU")>>),
   Entry("latency", <<Quoted("7")>>), Entry("trace", <<Truth(FALSE)>>),
   Entry("associativity", <<Number(0)>>),
   Entry("note", <<Open, Quoted("latency"), Colon, Number(3), Close>>)}

-----------------------------------------------------------------------------
(* A file with its program headers behind its header, then other bytes.    *)
File(headers, entsize, phnum, size) ==
  [size |-> size, bytes |-> [k \in 0 .. size - 1 |-> k % ByteMod],
   magic |-> TRUE, elf32le |-> TRUE, type |-> 2, machine |-> 243,
   entry |-> 8, phoff |-> 52, phentsize |-> entsize, phnum |-> phnum,
   headers |-> [off \in {52 + (k - 1) * entsize : k \in DOMAIN headers} |->
                  headers[(off - 52) \div entsize + 1]]]

Segment(type, offset, vaddr, filesz, memsz) ==
  [type |-> type, offset |-> offset, vaddr |-> vaddr, filesz |-> filesz, memsz |-> memsz]

(* Two headers of 32 bytes end at 116, the file at 120; 255 + 2 wraps.     *)
Segments ==
  {Segment(t, o, v, f, m) : t \in {1, 2}, o \in {116, 119, 250}, v \in {8, 10, 254},
                            f \in {0, 3, 10}, m \in {0, 2, 5}}

Plain == File(<<Segment(1, 116, 8, 3, 5), Segment(1, 116, 10, 3, 3)>>, 32, 2, 120)

BadHeaders ==
  {[Plain EXCEPT !.magic = FALSE], [Plain EXCEPT !.elf32le = FALSE], [Plain EXCEPT !.type = 3],
   [Plain EXCEPT !.machine = 62], [Plain EXCEPT !.phentsize = 28], [Plain EXCEPT !.phnum = 0],
   [Plain EXCEPT !.phnum = 3],
   [Plain EXCEPT !.phnum = 3, !.headers = Put(@, 116, Segment(1, 0, 0, 4, 4))],
   File(<<Segment(1, 0, 0, 4, 4)>>, 32, 1, 51),
   [File(<< >>, 32, 1, 51) EXCEPT !.phoff = 0, !.headers = Put(@, 0, Segment(1, 0, 0, 4, 4))]}

Truncated == [Plain EXCEPT !.size = 86, !.bytes = [k \in 0 .. 85 |-> k % ByteMod]]

TruncatedTables ==
  {[Plain EXCEPT !.size = n, !.bytes = [k \in 0 .. n - 1 |-> k % ByteMod]] : n \in {83, 84, 115, 116}}

(* A segment that ends with the file; one at the last address. *)
Edges ==
  {File(<<Segment(1, 116, 8, 3, 5), Segment(1, 117, 10, 2, 3)>>, 32, 2, 119),
   File(<<Segment(1, 84, WordMod - 1, 1, 1)>>, 32, 1, 120)}

ElfFiles ==
  {File(<<s, t>>, 32, 2, 120) : s \in Segments, t \in {u \in Segments : u.vaddr # 10}}
    \cup BadHeaders \cup TruncatedTables \cup Edges \cup {Plain, Truncated}

Programs ==
  [p \in {"prog.elf", "bad.elf", "any.elf"} |->
     CASE p = "prog.elf" -> {Plain} [] p = "bad.elf" -> {Truncated} [] OTHER -> ElfFiles]
=============================================================================
