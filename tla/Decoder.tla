------------------------------ MODULE Decoder -------------------------------
(***************************************************************************)
(* Decoder.cpp: from the bits of an instruction word to a decoded          *)
(* instruction.  A raw word is a function from bit positions to bits; an   *)
(* immediate is a signed number, as it is in DecodedInstruction.           *)
(***************************************************************************)
EXTENDS Common, FiniteSetsExt

Raw == [0 .. 31 -> {0, 1}]

bitRange(raw, hi, lo) == SumFunction([k \in lo .. hi |-> raw[k] * 2^(k - lo)])

(* Mutant: the sign bit is taken one place too low. *)
signExtendEarly(value, bits) ==
  IF value >= 2^(bits - 2) THEN value - 2^bits ELSE value

(* signExtend, with the cast to i32: (value ^ mask) - mask. *)
signExtend(value, bits) ==
  IF value >= 2^(bits - 1) THEN value - 2^bits ELSE value

opcode(raw) == bitRange(raw, 6, 0)
funct3(raw) == bitRange(raw, 14, 12)
funct7(raw) == bitRange(raw, 31, 25)

immI(raw) == signExtend(bitRange(raw, 31, 20), 12)
immS(raw) == signExtend(32 * bitRange(raw, 31, 25) + bitRange(raw, 11, 7), 12)
immB(raw) == signExtend(4096 * raw[31] + 2048 * raw[7] + 32 * bitRange(raw, 30, 25)
                          + 2 * bitRange(raw, 11, 8), 13)
immJ(raw) == signExtend(1048576 * raw[31] + 4096 * bitRange(raw, 19, 12)
                          + 2048 * raw[20] + 2 * bitRange(raw, 30, 21), 21)
immU(raw) == 4096 * signExtend(bitRange(raw, 31, 12), 20)

-----------------------------------------------------------------------------
(* The inner switches: an opcode name, or "Illegal" for what they break at. *)

branchOf(f3) ==
  CASE f3 = 0 -> "Beq" [] f3 = 1 -> "Bne"  [] f3 = 4 -> "Blt"
    [] f3 = 5 -> "Bge" [] f3 = 6 -> "Bltu" [] f3 = 7 -> "Bgeu" [] OTHER -> "Illegal"

loadOf(f3) ==
  CASE f3 = 0 -> "Lb"  [] f3 = 1 -> "Lh" [] f3 = 2 -> "Lw"
    [] f3 = 4 -> "Lbu" [] f3 = 5 -> "Lhu" [] OTHER -> "Illegal"

storeOf(f3) ==
  CASE f3 = 0 -> "Sb" [] f3 = 1 -> "Sh" [] f3 = 2 -> "Sw" [] OTHER -> "Illegal"

(* Mutant: the upper bits of an immediate shift are not looked at. *)
anyShiftOf(f3, f7) ==
  CASE f3 = 0 -> "Addi" [] f3 = 2 -> "Slti" [] f3 = 3 -> "Sltiu"
    [] f3 = 4 -> "Xori" [] f3 = 6 -> "Ori"  [] f3 = 7 -> "Andi"
    [] f3 = 1 -> "Slli"
    [] f3 = 5 -> IF f7 = 0 THEN "Srli" ELSE "Srai"

immediateOf(f3, f7) ==
  CASE f3 = 0 -> "Addi" [] f3 = 2 -> "Slti" [] f3 = 3 -> "Sltiu"
    [] f3 = 4 -> "Xori" [] f3 = 6 -> "Ori"  [] f3 = 7 -> "Andi"
    [] f3 = 1 /\ f7 = 0  -> "Slli"
    [] f3 = 5 /\ f7 = 0  -> "Srli"
    [] f3 = 5 /\ f7 = 32 -> "Srai"
    [] OTHER -> "Illegal"

registerOf(f3, f7) ==
  CASE f7 = 0 -> <<"Add", "Sll", "Slt", "Sltu", "Xor", "Srl", "Or", "And">>[f3 + 1]
    [] f7 = 32 /\ f3 = 0 -> "Sub"
    [] f7 = 32 /\ f3 = 5 -> "Sra"
    [] OTHER -> "Illegal"

opcodeOf(raw) ==
  LET opc == opcode(raw)
      f3  == funct3(raw)
      f7  == funct7(raw)
  IN  CASE opc = 55  -> "Lui"
        [] opc = 23  -> "Auipc"
        [] opc = 111 -> "Jal"
        [] opc = 103 /\ f3 = 0 -> "Jalr"
        [] opc = 99  -> branchOf(f3)
        [] opc = 3   -> loadOf(f3)
        [] opc = 35  -> storeOf(f3)
        [] opc = 19  -> immediateOf(f3, f7)
        [] opc = 51  -> registerOf(f3, f7)
        [] opc = 15 /\ f3 = 0 -> "Fence"
        [] opc = 115 /\ \A k \in 7 .. 31 : raw[k] = 0 -> "Ecall"
        [] OTHER -> "Illegal"

(* The fields that make() is given for the opcode; the others are 0. *)
Shifts == {"Slli", "Srli", "Srai"}

Immediate(op, raw) ==
  CASE op \in UpperOps -> immU(raw)
    [] op = "Jal"      -> immJ(raw)
    [] op \in Branches -> immB(raw)
    [] op \in Stores   -> immS(raw)
    [] op \in Shifts   -> bitRange(raw, 24, 20)
    [] op \in Loads \cup (ImmOps \ Shifts) \cup {"Jalr"} -> immI(raw)
    [] OTHER           -> 0

HasRs1(op) == op \in {"Jalr"} \cup Branches \cup MemoryOps \cup ImmOps \cup RegOps
HasRs2(op) == op \in Branches \cup Stores \cup RegOps

decode(raw) ==
  LET op == opcodeOf(raw) IN
  [op  |-> op,
   rd  |-> IF writesRegister(op) THEN bitRange(raw, 11, 7) ELSE 0,
   rs1 |-> IF HasRs1(op) THEN bitRange(raw, 19, 15) ELSE 0,
   rs2 |-> IF HasRs2(op) THEN bitRange(raw, 24, 20) ELSE 0,
   imm |-> Immediate(op, raw)]
=============================================================================
