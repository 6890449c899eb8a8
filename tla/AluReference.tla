---------------------------- MODULE AluReference ----------------------------
(***************************************************************************)
(* The arithmetic of module Alu against the gates of an RV32I data path:   *)
(* an adder with a carry chain, shifters that move bits, comparisons from  *)
(* the carry, sign and overflow of a difference.  The two operands are     *)
(* shift registers that take in any bits, and so reach every pair of words. *)
(***************************************************************************)
EXTENDS Alu

VARIABLES a, b     \* the two source operands

Positions == 0 .. WordBits - 1

Bit(x, k) == (x \div 2^k) % 2

(* What ^, | and & do in C++, bit by bit. *)
ASSUME BitwiseAssumption ==
  \A x, y \in Word :
    /\ {WordXor(x, y), WordOr(x, y), WordAnd(x, y)} \subseteq Word
    /\ \A k \in Positions :
         /\ Bit(WordXor(x, y), k) = (Bit(x, k) + Bit(y, k)) % 2
         /\ Bit(WordOr(x, y), k) = IF Bit(x, k) + Bit(y, k) > 0 THEN 1 ELSE 0
         /\ Bit(WordAnd(x, y), k) = Bit(x, k) * Bit(y, k)

(* The carries into each position of x + y + carryIn. *)
Carry(x, y, carryIn) ==
  LET c[k \in 0 .. WordBits] ==
        IF k = 0 THEN carryIn
        ELSE (Bit(x, k - 1) + Bit(y, k - 1) + c[k - 1]) \div 2
  IN  c

Complement(x) == WordMod - 1 - x

(* x - y is x + ~y + 1; it borrows when no carry leaves the top, and its   *)
(* sign is wrong when the top two carries differ.                          *)
Borrow(x, y) == Carry(x, Complement(y), 1)

SumBit(x, y, c, k) == (Bit(x, k) + Bit(y, k) + c[k]) % 2

LessUnsigned(x, y) == Borrow(x, y)[WordBits] = 0

LessSigned(x, y) ==
  LET c == Borrow(x, y)
      negative == SumBit(x, Complement(y), c, WordBits - 1) = 1
      overflow == c[WordBits] # c[WordBits - 1]
  IN  negative # overflow

(* The bits of the result, by the wiring of the unit. *)
ResultBits(op, x, y) ==
  LET shift  == y % WordBits
      carry  == Carry(x, y, 0)
      borrow == Borrow(x, y)
      less   == IF op \in {"Slt", "Slti"} THEN LessSigned(x, y) ELSE LessUnsigned(x, y)
  IN  [k \in Positions |->
         CASE op \in {"Add", "Addi"} -> SumBit(x, y, carry, k)
           [] op = "Sub"             -> SumBit(x, Complement(y), borrow, k)
           [] op \in {"Slt", "Slti", "Sltu", "Sltiu"} -> IF k = 0 /\ less THEN 1 ELSE 0
           [] op \in {"Xor", "Xori"} -> (Bit(x, k) + Bit(y, k)) % 2
           [] op \in {"Or", "Ori"}   -> IF Bit(x, k) + Bit(y, k) > 0 THEN 1 ELSE 0
           [] op \in {"And", "Andi"} -> Bit(x, k) * Bit(y, k)
           [] op \in {"Sll", "Slli"} -> IF k >= shift THEN Bit(x, k - shift) ELSE 0
           [] op \in {"Srl", "Srli"} -> IF k + shift < WordBits THEN Bit(x, k + shift) ELSE 0
           [] op \in {"Sra", "Srai"} -> IF k + shift < WordBits THEN Bit(x, k + shift)
                                        ELSE Bit(x, WordBits - 1)]

Less(op, x, y) ==
  CASE op \in {"Blt", "Bge"}   -> LessSigned(x, y)
    [] op \in {"Bltu", "Bgeu"} -> LessUnsigned(x, y)
    [] OTHER                   -> \E k \in Positions : Bit(x, k) # Bit(y, k)

-----------------------------------------------------------------------------
OperandsInit == a = 0 /\ b = 0

ShiftIn ==
  \E bit \in {0, 1} :
    \/ a' = WordAdd(2 * a, bit) /\ b' = b
    \/ b' = WordAdd(2 * b, bit) /\ a' = a

(* Every value the simulator computes has the bits the data path gives it: *)
(* carries that leave the word, shift amounts beyond its width, arithmetic *)
(* shifts of negative words, signed comparisons of words of either sign.   *)
AluIsBitwise ==
  \A op \in ImmOps \cup RegOps :
    LET v == AluValue(op, a, b) IN
    v \in Word /\ [k \in Positions |-> Bit(v, k)] = ResultBits(op, a, b)

(* A branch is taken when the difference of its operands says so. *)
ConditionsAreBitwise ==
  \A op \in Branches :
    Condition(op, a, b) = (Less(op, a, b) = (op \in {"Bne", "Blt", "Bltu"}))
=============================================================================
