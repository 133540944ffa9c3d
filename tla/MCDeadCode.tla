---------------------------- MODULE MCDeadCode ----------------------------
(***************************************************************************)
(* Every function of N instructions with at most Operands operands each,   *)
(* uses before definitions, cycles and self-uses included.                 *)
(***************************************************************************)
EXTENDS DeadCode, FiniteSets

CONSTANT Operands

MCPrograms ==
  [ops       : [1..N -> {S \in SUBSET (1..N) : Cardinality(S) <= Operands}],
   removable : SUBSET (1..N)]
=============================================================================
