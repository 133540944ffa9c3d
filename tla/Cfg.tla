-------------------------------- MODULE Cfg --------------------------------
(***************************************************************************)
(* Control-flow graphs as the function passes get them: the blocks 1..N in *)
(* the order of the function, the first being its entry, a terminator for  *)
(* each, and at most one phi.  (All phis of a block name the same incoming *)
(* blocks, so one stands for all.)                                         *)
(***************************************************************************)
EXTENDS Integers

CONSTANTS N,            \* the number of blocks
          Functions     \* the functions considered

Block == 1..N

(* "true" and "false" are conditional branches on a constant.  A function that *)
(* falls off its end has a block whose terminator is "none".                   *)
Terminator ==
  [kind : {"none", "ret"}, yes : {0}, no : {0}]
    \cup [kind : {"br"}, yes : Block, no : {0}]
    \cup {t \in [kind : {"cond", "true", "false"}, yes : Block, no : Block] : t.yes # t.no}

None == [kind |-> "none", yes |-> 0, no |-> 0]
Br(target) == [kind |-> "br", yes |-> target, no |-> 0]

Succ(t)     == {t.yes, t.no} \ {0}
Constant(t) == t.kind \in {"true", "false"}

(* ConstCond->isOne() ? BI->getSuccessor(0) : BI->getSuccessor(1) *)
TargetBB(t) == IF t.kind = "true" THEN t.yes ELSE t.no
DeadBB(t)   == IF t.kind = "true" THEN t.no ELSE t.yes

(* Which block may follow which, and what a constant condition rules out *)
EdgesOf(f) == {e \in Block \X Block : e[2] \in Succ(f.term[e[1]])}
Never(f)   == {e \in Block \X Block :
                 Constant(f.term[e[1]]) /\ e[2] = DeadBB(f.term[e[1]])}

(* phi[b][p] is the value that b's phi has when control comes from p, 0 if it *)
(* has no entry for p                                                         *)
Entries(phi) == {p \in Block : phi[p] # 0}

Preds(term, b) == {p \in Block : b \in Succ(term[p])}

Function == [term : [Block -> Terminator], phi : [Block -> [Block -> Nat]]]

(* What verifyFunction() demands and the code generator keeps to: nothing      *)
(* branches to the entry, and a phi has an entry for each predecessor.  Mem2reg*)
(* makes phis only where control comes together.                               *)
WellFormed(f) ==
  /\ Preds(f.term, 1) = {}
  /\ \A b \in Block : Entries(f.phi[b]) # {} =>
       /\ Entries(f.phi[b]) = Preds(f.term, b)
       /\ \A p \in Block : Entries(f.phi[b]) # {p}

ASSUME FunctionsAssumption ==
  /\ N \in Nat \ {0}
  /\ Functions \subseteq Function
  /\ \A f \in Functions : WellFormed(f)
=============================================================================
