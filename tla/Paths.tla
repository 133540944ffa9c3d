------------------------------- MODULE Paths -------------------------------
(***************************************************************************)
(* What simplifying the control flow promises: the only edges a function   *)
(* loses are those that a branch on a constant never takes, and it loses   *)
(* all of them.  Code that is moved from block to block does not show.     *)
(***************************************************************************)
EXTENDS Cfg

VARIABLES
  function,       \* as it was before
  edges,          \* which code may follow which, code being named by its first block
  preserved       \* the answer of run()

pathVars == <<function, edges, preserved>>

PathsInit ==
  /\ function \in Function
  /\ edges = EdgesOf(function)
  /\ preserved = "running"

Prune ==
  /\ preserved = "running"
  /\ \E e \in edges \cap Never(function) : edges' = edges \ {e}
  /\ UNCHANGED <<function, preserved>>

Report ==
  /\ preserved = "running"
  /\ edges = EdgesOf(function) \ Never(function)
  /\ preserved' \in {"all", "none"}
  /\ preserved' = "all" => edges = EdgesOf(function)
  /\ UNCHANGED <<function, edges>>

PathsSpec == PathsInit /\ [][Prune \/ Report]_pathVars
=============================================================================
