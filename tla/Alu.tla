-------------------------------- MODULE Alu ---------------------------------
(***************************************************************************)
(* The arithmetic of Simulator::executeInstruction: the values of the      *)
(* register-immediate and register-register opcodes and the conditions of  *)
(* the branches, on words of WordBits bits (32 in the code; the shift mask *)
(* 0x1f is WordBits - 1).  Immediates arrive as words.                     *)
(***************************************************************************)
EXTENDS Common

CONSTANTS
  WordBits,
  WordXor(_, _), WordOr(_, _), WordAnd(_, _)    \* ^, | and & on u32

ASSUME WordBitsAssumption == WordBits \in 1 .. 32 /\ WordMod = 2^WordBits

(* Mutant: the cast to a signed type is missing. *)
unsigned(a) == a

(* static_cast<i32> *)
signed(a) == IF a >= WordMod \div 2 THEN a - WordMod ELSE a

asBool(v) == IF v THEN 1 ELSE 0

signedLess(a, b) == signed(a) < signed(b)

signedGreaterEqual(a, b) == signed(a) >= signed(b)

(* Mutant: the mask is one bit too wide. *)
wideShiftFactor(b) == 2^(b % (2 * WordBits))

(* The shift amount is b & 0x1f. *)
shiftFactor(b) == 2^(b % WordBits)

(* >> on an i32 rounds towards minus infinity. *)
AluValue(op, a, b) ==
  LET shift == shiftFactor(b) IN
  CASE op \in {"Add", "Addi"}   -> WordAdd(a, b)
    [] op = "Sub"               -> (a - b) % WordMod
    [] op \in {"Slt", "Slti"}   -> asBool(signedLess(a, b))
    [] op \in {"Sltu", "Sltiu"} -> asBool(a < b)
    [] op \in {"Xor", "Xori"}   -> WordXor(a, b)
    [] op \in {"Or", "Ori"}     -> WordOr(a, b)
    [] op \in {"And", "Andi"}   -> WordAnd(a, b)
    [] op \in {"Sll", "Slli"}   -> (a * shift) % WordMod
    [] op \in {"Srl", "Srli"}   -> a \div shift
    [] op \in {"Sra", "Srai"}   -> (signed(a) \div shift) % WordMod

Condition(op, a, b) ==
  CASE op = "Beq"  -> a = b
    [] op = "Bne"  -> a # b
    [] op = "Blt"  -> signedLess(a, b)
    [] op = "Bge"  -> signedGreaterEqual(a, b)
    [] op = "Bltu" -> a < b
    [] op = "Bgeu" -> a >= b
=============================================================================
