------------------------------- MODULE Common -------------------------------
(***************************************************************************)
(* Vocabulary shared by every component: machine words, registers, decoded *)
(* instructions and the opcode classifications of include/Common.h.        *)
(*                                                                         *)
(* Words are u32 in the code and 0..WordMod-1 here, with arithmetic modulo *)
(* WordMod; a byte is 0..ByteMod-1.  Program counters and data addresses   *)
(* are byte addresses, as in the code.                                     *)
(***************************************************************************)
EXTENDS Integers

CONSTANTS
  NArch,      \* number of architectural registers (kArchRegs, 32)
  WordMod,    \* 2^32 in the code
  ByteMod     \* 2^8 in the code

ASSUME WordAssumption ==
  /\ NArch \in Nat \ {0}
  /\ ByteMod \in Nat \ {0, 1}
  /\ WordMod \in Nat \ {0, 1}

Arch == 0 .. NArch - 1
Word == 0 .. WordMod - 1
Byte == 0 .. ByteMod - 1

WordAdd(a, b) == (a + b) % WordMod

-----------------------------------------------------------------------------
(* Opcodes and their classes, as Decoder.cpp pairs them. *)

Branches == {"Beq", "Bne", "Blt", "Bge", "Bltu", "Bgeu"}
Jumps    == {"Jal", "Jalr"}
Loads    == {"Lb", "Lh", "Lw", "Lbu", "Lhu"}
Stores   == {"Sb", "Sh", "Sw"}
ImmOps   == {"Addi", "Slti", "Sltiu", "Xori", "Ori", "Andi",
             "Slli", "Srli", "Srai"}
RegOps   == {"Add", "Sub", "Sll", "Slt", "Sltu", "Xor", "Srl", "Sra",
             "Or", "And"}
UpperOps == {"Lui", "Auipc"}
Opcode   == Branches \cup Jumps \cup Loads \cup Stores \cup ImmOps \cup RegOps
              \cup UpperOps \cup {"Fence", "Ecall", "Illegal"}

writesRegister(op) == op \in UpperOps \cup Jumps \cup Loads \cup ImmOps \cup RegOps

ControlOps == Branches \cup Jumps      \* OpClass Branch or Jump
MemoryOps  == Loads \cup Stores        \* OpClass Load or Store
ExitOps    == {"Ecall", "Illegal"}     \* rename stops the front end at these

memorySizeBytes(op) ==
  CASE op \in {"Lb", "Lbu", "Sb"} -> 1
    [] op \in {"Lh", "Lhu", "Sh"} -> 2
    [] op \in {"Lw", "Sw"}        -> 4
    [] OTHER                      -> 0

(* issueStage's alignment test on an address about to be accessed. *)
Misaligned(address, op) ==
  \/ memorySizeBytes(op) = 2 /\ address % 2 # 0
  \/ memorySizeBytes(op) = 4 /\ address % 4 # 0

-----------------------------------------------------------------------------
(* The fields of DecodedInstruction that the pipeline reads.  A decoded    *)
(* instruction has no pc and no prediction until it is fetched.            *)

Decoded == [op : Opcode, rd : Arch, rs1 : Arch, rs2 : Arch, imm : Word]

Fetched == [op : Opcode, rd : Arch, rs1 : Arch, rs2 : Arch, imm : Word,
            pc : Word, predictedTaken : BOOLEAN, predictedTarget : Word]

IllegalInst == [op |-> "Illegal", rd |-> 0, rs1 |-> 0, rs2 |-> 0, imm |-> 0]

hasDest(i) == writesRegister(i.op) /\ i.rd # 0

-----------------------------------------------------------------------------
(* Partial functions: deques and maps keyed by sequence number or address. *)

IsPartial(f, S, T) == DOMAIN f \subseteq S /\ f \in [DOMAIN f -> T]

Put(f, k, v) == [x \in DOMAIN f \cup {k} |-> IF x = k THEN v ELSE f[x]]

Only(f, S) == [x \in DOMAIN f \cap S |-> f[x]]

NoEntries == [x \in {} |-> x]
=============================================================================
