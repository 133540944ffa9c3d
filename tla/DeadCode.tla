------------------------------ MODULE DeadCode ------------------------------
(***************************************************************************)
(* MyPass (lib/Mypass.cpp): one scan over the instructions of a function,  *)
(* then a worklist of the operands that lost their last user.              *)
(*                                                                         *)
(* Use lists are not stored: the users of i are the alive j with i among   *)
(* their operands.  The elements of nextdelinstructs are pointers; one     *)
(* that is not alive dangles.                                              *)
(***************************************************************************)
EXTENDS TriviallyDead

VARIABLES nextdelinstructs,   \* the worklist
          pos,                \* the iterator of the scan, already advanced
          changed

vars == <<program, alive, preserved, nextdelinstructs, pos, changed>>

Init ==
  /\ Start
  /\ nextdelinstructs = {} /\ pos = 1 /\ changed = FALSE

-----------------------------------------------------------------------------
(* Variant: the use that i itself still has counts, so nothing is queued. *)
LosesLastUserEarly(i) ==
  {o \in program.ops[i] :
     /\ o \in program.removable
     /\ \A j \in alive : o \notin program.ops[j]}

(* The operands of i that have no user left once i's operands are null *)
LosesLastUser(i) ==
  {o \in program.ops[i] \ {i} :
     /\ o \in program.removable
     /\ \A j \in alive \ {i} : o \notin program.ops[j]}

(* Variant: changed is assigned, not accumulated. *)
MakeInstructionDeadAssigns(i, rest) ==
  IF Dead(i)
    THEN /\ nextdelinstructs' = rest \cup LosesLastUser(i)
         /\ alive' = alive \ {i} /\ changed' = TRUE
    ELSE nextdelinstructs' = rest /\ changed' = FALSE /\ UNCHANGED alive

(* changed |= make_instruction_dead(i, nextdelinstructs, info), the worklist *)
(* being rest when it is called                                              *)
MakeInstructionDead(i, rest) ==
  IF Dead(i)
    THEN /\ nextdelinstructs' = rest \cup LosesLastUser(i)
         /\ alive' = alive \ {i} /\ changed' = TRUE
    ELSE nextdelinstructs' = rest /\ UNCHANGED <<alive, changed>>

(* Variant: the scan runs past the last instruction. *)
ScanTooFar ==
  /\ preserved = "running" /\ pos <= N + 1
  /\ pos' = pos + 1
  /\ \/ pos \in nextdelinstructs /\ UNCHANGED <<alive, nextdelinstructs, changed>>
     \/ pos \notin nextdelinstructs /\ MakeInstructionDead(pos, nextdelinstructs)
  /\ UNCHANGED <<program, preserved>>

(* Variant: the scan does not look whether the instruction is queued. *)
ScanQueuedToo ==
  /\ preserved = "running" /\ pos <= N
  /\ pos' = pos + 1
  /\ MakeInstructionDead(pos, nextdelinstructs)
  /\ UNCHANGED <<program, preserved>>

(* One step of the loops over BB and instr *)
Scan ==
  /\ preserved = "running" /\ pos <= N
  /\ pos' = pos + 1
  /\ \/ pos \in nextdelinstructs /\ UNCHANGED <<alive, nextdelinstructs, changed>>
     \/ pos \notin nextdelinstructs /\ MakeInstructionDead(pos, nextdelinstructs)
  /\ UNCHANGED <<program, preserved>>

(* Variant: the element is not taken out of the set. *)
DrainForEver ==
  /\ preserved = "running" /\ pos > N
  /\ \E i \in nextdelinstructs : MakeInstructionDead(i, nextdelinstructs)
  /\ UNCHANGED <<program, preserved, pos>>

(* while (!nextdelinstructs.empty()): begin() is the lowest address, which *)
(* says nothing about the instruction                                      *)
Drain ==
  /\ preserved = "running" /\ pos > N
  /\ \E i \in nextdelinstructs : MakeInstructionDead(i, nextdelinstructs \ {i})
  /\ UNCHANGED <<program, preserved, pos>>

(* run() returns *)
Return ==
  /\ preserved = "running" /\ pos > N /\ nextdelinstructs = {}
  /\ preserved' = IF changed THEN "none" ELSE "all"
  /\ UNCHANGED <<program, alive, nextdelinstructs, pos, changed>>

Next == Scan \/ Drain \/ Return

Spec == Init /\ [][Next]_vars

(* The pass manager calls run() and waits for it. *)
FairSpec == Spec /\ WF_vars(Next)

-----------------------------------------------------------------------------
TypeOK ==
  /\ program \in [ops : [Instr -> SUBSET Instr], removable : SUBSET Instr]
  /\ alive \subseteq Instr /\ nextdelinstructs \subseteq Instr
  /\ pos \in 1..N + 1 /\ changed \in BOOLEAN
  /\ preserved \in {"running", "none", "all"}

(* No pointer that is used later points to an erased instruction: not those in *)
(* the worklist, not the scan's iterator, not an operand of what is left.      *)
NoDangling ==
  /\ nextdelinstructs \subseteq alive
  /\ pos..N \subseteq alive
  /\ \A i \in alive : program.ops[i] \subseteq alive

(* One scan and the worklist are enough: whatever became dead is found, so the *)
(* pass removes what removing in any order would.                              *)
Removal == RemoveSpec

(* run() returns. *)
Terminates == <>(preserved # "running")
=============================================================================
