------------------------ MODULE SimulatorRefinesIsa ------------------------
(***************************************************************************)
(* The pipeline as an implementation of the in-order machine: the          *)
(* architectural state is what the committed instructions have left.       *)
(***************************************************************************)
EXTENDS SimulatorProperties

(* The register that held 'x' before the oldest in-flight write of it.     *)
CommittedPhys(x) ==
  LET W == {s \in Writers(InFlight) : rob[s].inst.rd = x}
  IN  IF W = {} THEN physForArch(x)
      ELSE rob[CHOOSE s \in W : \A t \in W : s <= t].oldDestPhys

CommittedRegs == [x \in Arch |-> read(CommittedPhys(x))]

Status == IF stage = "error" THEN "error" ELSE IF halted THEN "done" ELSE "running"

(* The oldest instruction that has not committed, fetched or to be fetched.*)
CommittedPc ==
  IF Status # "running" THEN EntryPc
  ELSE IF InFlight # {} THEN rob[CHOOSE s \in InFlight : IsHead(s)].inst.pc
  ELSE IF fetchQueue # << >> THEN Head(fetchQueue).pc
  ELSE pc

Arch1 == INSTANCE Isa WITH pc <- CommittedPc, regs <- CommittedRegs, status <- Status

(* Every commit is one step of the in-order machine, whatever was fetched, *)
(* predicted, reordered or flushed on the way; nothing else changes the    *)
(* committed registers, the memory or the exit code.                       *)
ImplementsIsa == Arch1!Spec

=============================================================================
