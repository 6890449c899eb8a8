------------------------------ MODULE Execute -------------------------------
(***************************************************************************)
(* What one instruction computes: the switch of                            *)
(* Simulator::executeInstruction without its side effects.  The arithmetic *)
(* of the ALU opcodes and the branch conditions are constant operators, so *)
(* that the pipeline's theorems hold for whatever they compute; module Alu *)
(* gives their definitions.                                                *)
(***************************************************************************)
EXTENDS Common, Sequences

CONSTANTS
  AluOp(_, _, _),        \* value of an ImmOps or RegOps opcode on two words
  BranchTaken(_, _, _),  \* condition of a Branches opcode on two words
  Programs,              \* the programs considered: sequences of Decoded
  EntryPc                \* program_.entry

ASSUME ExecuteAssumption ==
  /\ \A op \in ImmOps \cup RegOps, a \in Word, b \in Word : AluOp(op, a, b) \in Word
  /\ \A op \in Branches, a \in Word, b \in Word : BranchTaken(op, a, b) \in BOOLEAN

ASSUME ProgramAssumption ==
  /\ Programs \subseteq Seq(Decoded)
  /\ EntryPc \in Word

(* decode(read32(pc)): memory outside the program reads as zero, which     *)
(* decodes as an illegal instruction.                                      *)
InstrAt(prog, pc) ==
  LET n == (pc - EntryPc) \div 4 + 1
  IN  IF n \in 1 .. Len(prog) /\ (pc - EntryPc) % 4 = 0 THEN prog[n] ELSE IllegalInst

(* The result written to the destination register (loads excepted).        *)
Value(i, a, b) ==
  CASE i.op = "Lui"     -> i.imm
    [] i.op = "Auipc"   -> WordAdd(i.pc, i.imm)
    [] i.op \in Jumps   -> WordAdd(i.pc, 4)
    [] i.op \in ImmOps  -> AluOp(i.op, a, i.imm)
    [] i.op \in RegOps  -> AluOp(i.op, a, b)
    [] OTHER            -> 0

Taken(i, a, b) ==
  \/ i.op \in Jumps
  \/ i.op \in Branches /\ BranchTaken(i.op, a, b)

(* actualTarget: a Jalr target has its lowest bit cleared. *)
Target(i, a, b) ==
  IF ~Taken(i, a, b) THEN WordAdd(i.pc, 4)
  ELSE IF i.op = "Jalr" THEN 2 * (WordAdd(a, i.imm) \div 2)
  ELSE WordAdd(i.pc, i.imm)
=============================================================================
