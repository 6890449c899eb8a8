------------------------ MODULE PhysicalRegisterFile ------------------------
(***************************************************************************)
(* PhysicalRegisterFile.cpp: a value and a ready bit per physical register.*)
(* Register 0 is the constant zero: writes to it are ignored and it is     *)
(* always ready.                                                           *)
(***************************************************************************)
EXTENDS RenameUnit

CONSTANTS
  SpReg,     \* register 2, which the Simulator constructor initialises
  InitSp     \* 0x80000000

ASSUME StackPointerAssumption == SpReg \in Arch /\ InitSp \in Word

VARIABLES
  values,    \* values_
  readyBits  \* ready_

prfVars == <<values, readyBits>>

PrfInit ==
  /\ values = [p \in Phys |-> IF p = SpReg /\ p # 0 THEN InitSp ELSE 0]
  /\ readyBits = [p \in Phys |-> TRUE]

read(p) == values[p]

PrfReady(p) == p = 0 \/ readyBits[p]

(* Mutant: the value arrives, and nobody is woken up. *)
writeSilently(p, v) ==
  /\ values' = IF p = 0 THEN values ELSE [values EXCEPT ![p] = v]
  /\ UNCHANGED readyBits

(* write(p, v) and markNotReady(p), for p # 0 and otherwise without effect. *)
write(p, v) ==
  /\ values'    = IF p = 0 THEN values    ELSE [values    EXCEPT ![p] = v]
  /\ readyBits' = IF p = 0 THEN readyBits ELSE [readyBits EXCEPT ![p] = TRUE]

(* Mutant: a register just allocated keeps its ready bit. *)
leaveReady(p) == UNCHANGED <<readyBits, values>>

markNotReady(p) ==
  /\ readyBits' = IF p = 0 THEN readyBits ELSE [readyBits EXCEPT ![p] = FALSE]
  /\ UNCHANGED values

PrfTypeOK ==
  /\ values \in [Phys -> Word]
  /\ readyBits \in [Phys -> BOOLEAN]
=============================================================================
