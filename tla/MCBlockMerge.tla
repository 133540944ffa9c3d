---------------------------- MODULE MCBlockMerge ----------------------------
(***************************************************************************)
(* Every control-flow graph of N blocks, with a phi wherever control comes *)
(* together: either its values are all different, or they are those of two *)
(* variables' worth of paths, one from the entry and one from elsewhere.   *)
(***************************************************************************)
EXTENDS BlockMerge

(* Nothing branches to the entry.  The targets of a branch are told apart by *)
(* their order, its kind being any.                                          *)
NotEntry == 2..N
Terminators ==
  {t \in Terminator : Succ(t) \subseteq NotEntry /\ (t.no # 0 => t.yes < t.no)}

(* The value that comes from p *)
From == {[p \in Block |-> p], [p \in Block |-> IF p = 1 THEN 1 ELSE 2]}

Phis(terms, from) ==
  [b \in Block |-> [p \in Block |->
     IF p \in Preds(terms, b) /\ Preds(terms, b) # {p} THEN from[p] ELSE 0]]

MCFunctions ==
  {[term |-> t, phi |-> Phis(t, v)] : t \in [Block -> Terminators], v \in From}
=============================================================================
