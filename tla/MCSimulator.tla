---------------------------- MODULE MCSimulator -----------------------------
(***************************************************************************)
(* Programs and parameters for checking the pipeline on small machines:    *)
(* words of 8 bits (4 bytes of 2 bits), 4 architectural registers.         *)
(***************************************************************************)
EXTENDS SimulatorRefinesIsa, Alu, Bitwise

(* The operators of the community modules. *)
XorOp(x, y) == x ^^ y
OrOp(x, y)  == x | y
AndOp(x, y) == x & y

I(op, rd, rs1, rs2, imm) ==
  [op |-> op, rd |-> rd, rs1 |-> rs1, rs2 |-> rs2, imm |-> imm]

Exit == I("Ecall", 0, 0, 0, 0)
Nop  == I("Addi", 0, 0, 0, 0)

(* Every sequence of n instructions of S, then 'tail'. *)
Sequences(n, S, tail) == {f \o tail : f \in [1 .. n -> S]}

(* One instruction per hazard of the pipeline: a producer that is its own  *)
(* consumer, a reader of two registers, a store and a load through a base  *)
(* register at an address that wraps, a branch on a computed value, an     *)
(* indirect jump to the exit and an access that is misaligned.  Branches   *)
(* and jumps go forward only, so that every program ends.                  *)
Mix == { I("Addi", 1, 1, 0, 1),
         I("Add",  2, 1, 2, 0),
         I("Sb",   0, 2, 1, 128),
         I("Lb",   1, 2, 0, 128),
         I("Beq",  0, 1, 0, 8),
         I("Jalr", 1, 3, 0, 16),
         I("Lh",   1, 0, 0, 129) }

MixPrograms == Sequences(4, Mix, <<Exit>>)

(* Programs whose loads never read what one of their stores wrote, with    *)
(* the remaining instruction classes, faults, and an ecall that is not the *)
(* exit call when x3 was written.                                          *)
Apart == { I("Addi",  1, 1, 0, 3),
           I("Sub",   2, 2, 1, 0),
           I("Sw",    0, 0, 2, 136),
           I("Lw",    1, 0, 0, 132),
           I("Bne",   0, 1, 2, 8),
           I("Jal",   1, 0, 0, 8),
           I("Auipc", 3, 0, 0, 0) }

FaultPrograms ==
  {<<I("Addi", 1, 0, 0, 5), i, Exit>> :
     i \in {IllegalInst, Exit, I("Sh", 0, 1, 1, 0), I("Lhu", 2, 1, 0, 1),
            I("Fence", 0, 0, 0, 0), I("Lui", 3, 0, 0, 16)}}

(* Two turns of a loop that counts x1 down, padded with 'pad' instructions *)
(* that keep the exit out of reach of its wrong paths.                     *)
Loop(pad) ==
  <<I("Addi", 1, 0, 0, 2),
    I("Addi", 1, 1, 0, 255),
    I("Add",  2, 2, 1, 0),
    I("Bne",  0, 1, 0, 248)>> \o [k \in 1 .. pad |-> Nop] \o <<Exit>>

(* A function called from two places: its return is predicted from the     *)
(* wrong one.                                                              *)
CallTwice == <<I("Jal", 1, 0, 0, 12), I("Jal", 1, 0, 0, 8), Exit, I("Jalr", 0, 1, 0, 0)>>

(* A load of what a store wrote: the store waits for its data until it is  *)
(* the oldest, so it commits in the cycle after it is executed, before the *)
(* load that waited for it reads the memory.                               *)
StoreWaits == <<I("Addi", 1, 1, 0, 7), I("Addi", 1, 1, 0, 7), I("Sw", 0, 0, 1, 136),
                I("Lw", 1, 0, 0, 136), Exit>>

IsaPrograms ==
  Sequences(3, Apart, <<Exit>>) \cup FaultPrograms
    \cup {Loop(0), Loop(4), CallTwice, StoreWaits}

(* The exit lies further behind every branch than the reorder buffer       *)
(* reaches, so no wrong path gets to it.                                   *)
EndingPrograms ==
  Sequences(3, Apart, [k \in 1 .. 4 |-> Nop] \o <<Exit>>) \cup {Loop(4)}
    \cup FaultPrograms

(* A single program each, for the runs that show a defect.                 *)
ExitBehindLoop   == {Loop(0)}
TwoResults       == {<<I("Addi", 1, 0, 0, 5), I("Addi", 2, 0, 0, 6), Exit>>}
LeakingLoop      == {<<I("Addi", 1, 0, 0, 3), I("Addi", 1, 1, 0, 255),
                       I("Lw", 2, 0, 0, 132), I("Bne", 0, 1, 2, 248)>>
                       \o [k \in 1 .. 4 |-> Nop] \o <<Exit>>}
StoreThenLoad    == {<<I("Addi", 1, 1, 0, 1), I("Addi", 1, 1, 0, 1), I("Addi", 1, 1, 0, 1),
                       I("Sw", 0, 0, 2, 136), I("Lw", 1, 0, 0, 136), Exit>>}
=============================================================================
