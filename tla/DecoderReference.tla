-------------------------- MODULE DecoderReference --------------------------
(***************************************************************************)
(* The RV32I encoding, read from an instruction to its bits, against the   *)
(* decoder, which reads it from the bits to the instruction.  Words are    *)
(* reached from a few sample words by changing one bit at a time.          *)
(***************************************************************************)
EXTENDS Decoder, Sequences

CONSTANT WordSets     \* the words looked at: sets of [samples, varying]

ASSUME WordSetsAssumption ==
  \A w \in WordSets : w.samples \subseteq Raw /\ w.varying \subseteq 0 .. 31

VARIABLES
  raw,         \* the instruction word
  varying      \* the positions of its bits that change

Row(op, opc, f3, f7) == [op |-> op, opc |-> opc, f3 |-> f3, f7 |-> f7]

Rows(ops, opc, f3s, f7) == {Row(ops[k], opc, f3s[k], f7) : k \in DOMAIN ops}

Free == -1    \* a field the instruction uses for something else

(* The opcode tables of RV32I, without EBREAK. *)
Table ==
  {Row("Lui", 55, Free, Free), Row("Auipc", 23, Free, Free), Row("Jal", 111, Free, Free),
   Row("Jalr", 103, 0, Free), Row("Fence", 15, 0, Free), Row("Ecall", 115, 0, 0)}
  \cup Rows(<<"Beq", "Bne", "Blt", "Bge", "Bltu", "Bgeu">>, 99, <<0, 1, 4, 5, 6, 7>>, Free)
  \cup Rows(<<"Lb", "Lh", "Lw", "Lbu", "Lhu">>, 3, <<0, 1, 2, 4, 5>>, Free)
  \cup Rows(<<"Sb", "Sh", "Sw">>, 35, <<0, 1, 2>>, Free)
  \cup Rows(<<"Addi", "Slti", "Sltiu", "Xori", "Ori", "Andi">>, 19, <<0, 2, 3, 4, 6, 7>>, Free)
  \cup Rows(<<"Slli", "Srli">>, 19, <<1, 5>>, 0) \cup {Row("Srai", 19, 5, 32)}
  \cup Rows(<<"Add", "Sll", "Slt", "Sltu", "Xor", "Srl", "Or", "And">>, 51,
            <<0, 1, 2, 3, 4, 5, 6, 7>>, 0)
  \cup {Row("Sub", 51, 0, 32), Row("Sra", 51, 5, 32)}

(* 'value' stands in the bits of w from lo upwards. *)
Holds(w, value, lo, width) ==
  value = Free \/ \A k \in 0 .. width - 1 : w[lo + k] = (value \div 2^k) % 2

Encodes(row, w) ==
  /\ Holds(w, row.opc, 0, 7) /\ Holds(w, row.f3, 12, 3) /\ Holds(w, row.f7, 25, 7)
  /\ row.op = "Ecall" => \A k \in 7 .. 24 : w[k] = 0

(* The bit of the immediate that each bit of the word holds. *)
Places(op) ==
  CASE op \in UpperOps -> [k \in 12 .. 31 |-> k]
    [] op = "Jal"      -> [k \in 12 .. 31 |-> CASE k <= 19 -> k [] k = 20 -> 11
                                                [] k = 31 -> 20 [] OTHER -> k - 20]
    [] op \in Branches -> [k \in 7 .. 11 \cup 25 .. 31 |->
                             CASE k = 7 -> 11 [] k \in 8 .. 11 -> k - 7
                               [] k = 31 -> 12 [] OTHER -> k - 20]
    [] op \in Stores   -> [k \in 7 .. 11 \cup 25 .. 31 |-> IF k <= 11 THEN k - 7 ELSE k - 20]
    [] op \in Shifts   -> [k \in 20 .. 24 |-> k - 20]
    [] op \in Loads \cup (ImmOps \ Shifts) \cup {"Jalr"} -> [k \in 20 .. 31 |-> k - 20]
    [] OTHER           -> [k \in {} |-> k]

(* Bit k of a signed number (2^31 is beyond what TLC computes with). *)
BitOf(n, k) == ((n \div 2^(k \div 2)) \div 2^(k - k \div 2)) % 2

(* The range of the immediate: all but shift amounts are signed. *)
Within(imm, half) == - half <= imm /\ imm < half

InRange(op, imm) ==
  /\ imm \in Int
  /\ op \in UpperOps => imm % 4096 = 0
  /\ op = "Jal" => imm % 2 = 0 /\ Within(imm, 1048576)
  /\ op \in Branches => imm % 2 = 0 /\ Within(imm, 4096)
  /\ op \in Shifts => 0 <= imm /\ imm < 32
  /\ op \in Loads \cup Stores \cup (ImmOps \ Shifts) \cup {"Jalr"} => Within(imm, 2048)
  /\ op \in RegOps \cup {"Fence", "Ecall"} => imm = 0

-----------------------------------------------------------------------------
WordInit == \E w \in WordSets : raw \in w.samples /\ varying = w.varying

FlipBit == varying' = varying /\ \E k \in varying : raw' = [raw EXCEPT ![k] = 1 - @]

(* A word that is decoded carries exactly what its instruction's format    *)
(* says: opcode and function fields, every register it has, and each bit   *)
(* of the immediate at its place, with the sign.                           *)
DecodesItsEncoding ==
  LET d == decode(raw) IN
  d.op # "Illegal" =>
    /\ \E row \in Table : row.op = d.op /\ Encodes(row, raw)
    /\ writesRegister(d.op) => Holds(raw, d.rd, 7, 5)
    /\ HasRs1(d.op) => Holds(raw, d.rs1, 15, 5)
    /\ HasRs2(d.op) => Holds(raw, d.rs2, 20, 5)
    /\ \A k \in DOMAIN Places(d.op) : raw[k] = BitOf(d.imm, Places(d.op)[k])
    /\ InRange(d.op, d.imm)

(* Nothing but the words of the table is executed, and none of them is     *)
(* rejected: an illegal instruction stops the program when it commits.     *)
RejectsTheRest ==
  decode(raw).op = "Illegal" <=> ~\E row \in Table : Encodes(row, raw)
=============================================================================
