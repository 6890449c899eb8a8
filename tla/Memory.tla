------------------------------- MODULE Memory -------------------------------
(***************************************************************************)
(* Memory.cpp: a sparse byte memory.  A byte never written reads as 0, and *)
(* halfwords and words are little-endian; byte addresses wrap at WordMod.  *)
(***************************************************************************)
EXTENDS Common

VARIABLE memory      \* bytes_: partial function from addresses to bytes

MemoryInit == memory = NoEntries

read8(m, address) == IF address \in DOMAIN m THEN m[address] ELSE 0

read16(m, address) == read8(m, address) + ByteMod * read8(m, WordAdd(address, 1))

read32(m, address) ==
  (read16(m, address) + ByteMod * (ByteMod * read16(m, WordAdd(address, 2)))) % WordMod

(* static_cast to a signed type of 'modulus' values and back to u32. *)
signExtend(v, modulus) ==
  IF v >= modulus \div 2 THEN (v + WordMod - modulus) % WordMod ELSE v % WordMod

loadValue(m, address, op) ==
  CASE op = "Lb"  -> signExtend(read8(m, address), ByteMod)
    [] op = "Lh"  -> signExtend(read16(m, address), ByteMod * ByteMod)
    [] op = "Lw"  -> read32(m, address)
    [] op = "Lbu" -> read8(m, address) % WordMod
    [] op = "Lhu" -> read16(m, address) % WordMod

(* Byte k of a word, least significant first. *)
ByteOf(value, k) ==
  CASE k = 0 -> value % ByteMod
    [] k = 1 -> (value \div ByteMod) % ByteMod
    [] k = 2 -> ((value \div ByteMod) \div ByteMod) % ByteMod
    [] OTHER -> (((value \div ByteMod) \div ByteMod) \div ByteMod) % ByteMod

(* write8, write16 and write32: 'size' bytes from 'address' upwards. *)
Written(m, address, value, size) ==
  LET touched == {WordAdd(address, k) : k \in 0 .. size - 1}
  IN  [x \in DOMAIN m \cup touched |->
         IF x \in touched THEN ByteOf(value, (x - address) % WordMod) ELSE m[x]]

storeValue(address, value, size) == memory' = Written(memory, address, value, size)
=============================================================================
