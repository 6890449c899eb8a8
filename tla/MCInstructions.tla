--------------------------- MODULE MCInstructions ---------------------------
(***************************************************************************)
(* Two benches: one for the decoder, whose words change bit by bit, and    *)
(* one for the arithmetic, whose operands do.                              *)
(***************************************************************************)
EXTENDS AluReference, DecoderReference, Bitwise

(* The operators of the community modules. *)
XorOp(x, y) == x ^^ y
OrOp(x, y)  == x | y
AndOp(x, y) == x & y

vars == <<raw, varying, a, b>>

Init == WordInit /\ OperandsInit

(* The operands are shifted in while no bit of the word can change. *)
Next ==
  \/ FlipBit /\ UNCHANGED <<a, b>>
  \/ varying = {} /\ ShiftIn /\ UNCHANGED <<raw, varying>>

Spec == Init /\ [][Next]_vars

(* The bits of a word given as four bytes, the highest first. *)
Bits(b3, b2, b1, b0) ==
  [k \in 0 .. 31 |-> (<<b0, b1, b2, b3>>[k \div 8 + 1] \div 2^(k % 8)) % 2]

(* Every opcode and funct3 around an ADDI, and the bits of funct7 but two; *)
(* around ECALL, whose other bits are 0, only some of them.                *)
OpcodeWords ==
  [samples |-> {Bits(0, 80, 128, 147)}, varying |-> 0 .. 6 \cup 12 .. 14 \cup {25, 26, 29, 30, 31}]

SystemWords ==
  [samples |-> {Bits(0, 0, 0, 115)}, varying |-> 0 .. 8 \cup {14, 19, 20, 25, 30}]

(* LUI, AUIPC, JAL, JALR, BEQ, LW, SW, ADDI, SRAI, SUB, ECALL; the bits at *)
(* the ends and seams of the fields.                                       *)
FieldWords ==
  [samples |-> {Bits(0, 0, 0, 55), Bits(0, 0, 0, 23), Bits(0, 0, 0, 111), Bits(0, 0, 0, 103),
                Bits(0, 32, 132, 99), Bits(0, 0, 32, 3), Bits(0, 32, 32, 35),
                Bits(0, 80, 0, 147), Bits(64, 0, 80, 19), Bits(64, 0, 0, 51),
                Bits(0, 0, 0, 115)},
   varying |-> {7, 8, 11, 12, 15, 19, 20, 21, 24, 25, 30, 31}]

AnyWord == [samples |-> {Bits(0, 0, 0, 51)}, varying |-> {}]

AllWords == {OpcodeWords, SystemWords, FieldWords, AnyWord}
=============================================================================
