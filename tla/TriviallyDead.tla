--------------------------- MODULE TriviallyDead ---------------------------
(***************************************************************************)
(* What dead code elimination promises: instructions that nothing needs    *)
(* are removed one at a time, in any order, until none is left, and run()  *)
(* reports whether it removed any.                                         *)
(***************************************************************************)
EXTENDS Integers

CONSTANTS N,            \* the function has the instructions 1..N, in order
          Programs      \* the functions considered

Instr == 1..N

(* ops[i]: the instructions among i's operands.  removable: those without  *)
(* side effects that are not terminators, which isInstructionTriviallyDead *)
(* accepts once their use list is empty.                                   *)
ASSUME ProgramsAssumption ==
  /\ N \in Nat
  /\ Programs \subseteq [ops : [Instr -> SUBSET Instr], removable : SUBSET Instr]

VARIABLES program, alive, preserved

absvars == <<program, alive, preserved>>

(* isInstructionTriviallyDead() *)
Dead(i) ==
  /\ i \in program.removable
  /\ \A j \in alive : i \notin program.ops[j]

Start ==
  /\ program \in Programs
  /\ alive = Instr
  /\ preserved = "running"

Remove ==
  /\ preserved = "running"
  /\ \E i \in alive : Dead(i) /\ alive' = alive \ {i}
  /\ UNCHANGED <<program, preserved>>

Report ==
  /\ preserved = "running"
  /\ \A i \in alive : ~Dead(i)
  /\ preserved' = IF alive = Instr THEN "all" ELSE "none"
  /\ UNCHANGED <<program, alive>>

RemoveSpec == Start /\ [][Remove \/ Report]_absvars

-----------------------------------------------------------------------------
(* The instructions that have to stay: the largest set in which every one   *)
(* without side effects has a user.  (Two phis that only use each other are *)
(* in it: the pass is no aggressive elimination.)                           *)
Supported(S) ==
  \A i \in S \cap program.removable : \E j \in S : i \in program.ops[j]
Kept == UNION {S \in SUBSET Instr : Supported(S)}

(* However the pass orders its work, it is the same instructions that are left, *)
(* although the worklist is a std::set ordered by the addresses of instructions.*)
KeepsExactly == preserved # "running" => alive = Kept
=============================================================================
