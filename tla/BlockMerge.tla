----------------------------- MODULE BlockMerge -----------------------------
(***************************************************************************)
(* MyPassBBmerge (lib/MyPassBBmerge.cpp): a loop that turns branches on a  *)
(* constant into unconditional ones, a loop that moves a block's code into *)
(* its only predecessor, and the deletion of what was emptied.             *)
(*                                                                         *)
(* The code of a block, and its phi, keep the name of the block that they  *)
(* were in at first.                                                       *)
(***************************************************************************)
EXTENDS Cfg, Sequences

VARIABLES
  function,       \* the function as run() gets it
  term,           \* the terminator of each block
  body,           \* the code in each block
  phi,            \* the entries of the phis, by the blocks that they name
  folded,         \* the value that has replaced a phi, or 0
  blocks,         \* the blocks that are not erased
  blocksneed2del,
  stage,          \* the loop that run() is in
  pos,            \* the block it is at
  changed

vars == <<function, term, body, phi, folded, blocks, blocksneed2del, stage, pos, changed>>

Init ==
  /\ function \in Functions
  /\ term = function.term /\ phi = function.phi
  /\ body = [b \in Block |-> <<b>>]
  /\ folded = [b \in Block |-> 0]
  /\ blocks = Block /\ blocksneed2del = {}
  /\ stage = "constants" /\ pos = 1 /\ changed = FALSE

-----------------------------------------------------------------------------
(* Variant: the first loop leaves its iterator at the end. *)
AdvanceTooFar(next) ==
  /\ pos' = pos + 1
  /\ stage' = IF pos = N THEN next ELSE stage

(* On to the next block; stage next follows the last one *)
Advance(next) ==
  /\ pos' = IF pos = N THEN 1 ELSE pos + 1
  /\ stage' = IF pos = N THEN next ELSE stage

(* Variant: a phi is replaced as soon as one of its values occurs twice. *)
RemovePredecessorSome(b, p) ==
  LET left == [phi[b] EXCEPT ![p] = 0]
  IN  \/ \E q \in Entries(left) :
           /\ \A r \in Entries(left) : q <= r
           /\ folded' = [folded EXCEPT ![b] = left[q]]
           /\ phi' = [phi EXCEPT ![b] = [r \in Block |-> 0]]
      \/ Entries(left) = {} /\ UNCHANGED <<phi, folded>>

(* b->removePredecessor(p): a phi whose entries come to one value is replaced *)
(* by it                                                                      *)
RemovePredecessor(b, p) ==
  LET left   == [phi[b] EXCEPT ![p] = 0]
      values == {left[q] : q \in Entries(left)}
  IN  \/ \E v \in values :
           /\ values = {v}
           /\ folded' = [folded EXCEPT ![b] = v]
           /\ phi' = [phi EXCEPT ![b] = [q \in Block |-> 0]]
      \/ /\ \A v \in values : values # {v}
         /\ phi' = [phi EXCEPT ![b] = left]
         /\ UNCHANGED folded

(* One step of the loop over constant conditions *)
Simplify ==
  /\ stage = "constants" /\ Advance("merging")
  /\ \/ /\ Constant(term[pos])
        /\ term' = [term EXCEPT ![pos] = Br(TargetBB(@))]
        /\ RemovePredecessor(DeadBB(term[pos]), pos)
        /\ changed' = TRUE
     \/ /\ ~Constant(term[pos])
        /\ UNCHANGED <<term, phi, folded, changed>>
  /\ UNCHANGED <<function, body, blocks, blocksneed2del>>

-----------------------------------------------------------------------------
(* Variant: a block is merged with one that comes after it only. *)
MergesForward(b) ==
  /\ term[b].kind = "br" /\ term[b].yes > b
  /\ Preds(term, term[b].yes) = {b}

(* Variant: the other predecessors are not looked at. *)
MergesShared(b) == term[b].kind = "br" /\ term[b].yes # b

(* The branch is unconditional, to another block that is reached in no other way *)
Merges(b) ==
  /\ term[b].kind = "br" /\ term[b].yes # b
  /\ Preds(term, term[b].yes) = {b}

(* The instructions of s go before b's branch, s's terminator being the last; then *)
(* the branch is erased                                                            *)
MoveInto(b, s) ==
  /\ body' = [body EXCEPT ![b] = @ \o body[s], ![s] = <<>>]
  /\ term' = [term EXCEPT ![b] = term[s], ![s] = None]

(* Variant: the emptied block is erased at once. *)
MergeErases ==
  /\ stage = "merging" /\ Advance("deleting")
  /\ \/ /\ Merges(pos)
        /\ MoveInto(pos, term[pos].yes)
        /\ blocks' = blocks \ {term[pos].yes} /\ UNCHANGED blocksneed2del
        /\ changed' = TRUE
     \/ /\ ~Merges(pos)
        /\ UNCHANGED <<term, body, blocks, blocksneed2del, changed>>
  /\ UNCHANGED <<function, phi, folded>>

(* Variant: merging is not reported. *)
MergeSilently ==
  /\ stage = "merging" /\ Advance("deleting")
  /\ \/ /\ Merges(pos)
        /\ MoveInto(pos, term[pos].yes)
        /\ blocksneed2del' = blocksneed2del \cup {term[pos].yes}
     \/ /\ ~Merges(pos)
        /\ UNCHANGED <<term, body, blocksneed2del>>
  /\ UNCHANGED <<function, phi, folded, blocks, changed>>

(* One step of the merging loop.  It is early-incremented: the iterator is past *)
(* pos already, perhaps at the block that is emptied.                           *)
Merge ==
  /\ stage = "merging" /\ Advance("deleting")
  /\ \/ /\ Merges(pos)
        /\ MoveInto(pos, term[pos].yes)
        /\ blocksneed2del' = blocksneed2del \cup {term[pos].yes}
        /\ changed' = TRUE
     \/ /\ ~Merges(pos)
        /\ UNCHANGED <<term, body, blocksneed2del, changed>>
  /\ UNCHANGED <<function, phi, folded, blocks>>

-----------------------------------------------------------------------------
Erase ==
  /\ stage = "deleting"
  /\ \E b \in blocksneed2del :
       blocksneed2del' = blocksneed2del \ {b} /\ blocks' = blocks \ {b}
  /\ UNCHANGED <<function, term, body, phi, folded, stage, pos, changed>>

Return ==
  /\ stage = "deleting" /\ blocksneed2del = {}
  /\ stage' = "returned"
  /\ UNCHANGED <<function, term, body, phi, folded, blocks, blocksneed2del, pos, changed>>

Next == Simplify \/ Merge \/ Erase \/ Return

Spec == Init /\ [][Next]_vars

-----------------------------------------------------------------------------
Stages == {"constants", "merging", "deleting", "returned"}

(* Type invariant of the pass. *)
TypeOK ==
  /\ function \in Function
  /\ term \in [Block -> Terminator]
  /\ body \in [Block -> Seq(Block)]
  /\ phi \in [Block -> [Block -> Nat]] /\ folded \in [Block -> Nat]
  /\ blocks \subseteq Block /\ blocksneed2del \subseteq Block
  /\ stage \in Stages /\ pos \in Block /\ changed \in BOOLEAN

(* No pointer to an erased block is used: the loop's iterator is at none, no    *)
(* branch goes to one, and what will be erased has lost its code and the        *)
(* branches to it.  Phis are the exception: they may go on naming an erased     *)
(* block (PhisNamePredecessors).                                                *)
NoDangling ==
  /\ stage \in {"constants", "merging"} => pos..N \subseteq blocks
  /\ \A b \in Block : Succ(term[b]) \subseteq blocks \ blocksneed2del
  /\ \A b \in blocksneed2del : b \in blocks /\ body[b] = <<>>

-----------------------------------------------------------------------------
(* y comes right behind x: within the block b, or by its branch to the block of y *)
Within(b, x, y) ==
  \E i \in 1..Len(body[b]) - 1 : x = body[b][i] /\ y = body[b][i + 1]
Across(b, x, y) ==
  /\ body[b] # <<>> /\ x = body[b][Len(body[b])]
  /\ \E s \in Succ(term[b]) : s \in blocks /\ body[s] # <<>> /\ y = body[s][1]

Follows(x, y) == \E b \in Block : Within(b, x, y) \/ Across(b, x, y)

Flow == {e \in Block \X Block : Follows(e[1], e[2])}

Answer == CASE stage # "returned"            -> "running"
            [] stage = "returned" /\ changed  -> "none"
            [] stage = "returned" /\ ~changed -> "all"

P == INSTANCE Paths WITH edges <- Flow, preserved <- Answer

(* The paths through the code are the same as before, but for the edges that a *)
(* constant condition rules out: merging cannot be seen, and no block that is  *)
(* still the target of a branch is emptied.                                    *)
KeepsPaths == P!PathsSpec

(* PreservedAnalyses::all() is the answer only if the function is untouched. *)
HonestAnswer ==
  Answer = "all" =>
    /\ term = function.term /\ phi = function.phi
    /\ blocks = Block /\ \A b \in Block : body[b] = <<b>>

(* Wherever control comes from, a phi has the value that it had for this code  *)
(* before, or has been replaced by it; it has no entry for code that no longer *)
(* leads there, and it stands at the head of a block.  Entries go by the code  *)
(* they came from: what merging does to their names is PhisNamePredecessors.   *)
PhisKept ==
  \A b, p \in Block :
    /\ <<p, b>> \in Flow /\ function.phi[b][p] # 0 =>
         function.phi[b][p] = IF folded[b] # 0 THEN folded[b] ELSE phi[b][p]
    /\ phi[b][p] # 0 => <<p, b>> \in Flow /\ body[b] # <<>>

(* One round of the loop is enough for all but chains: a branch that merging *)
(* could remove is left only in a block that has already been merged.        *)
MergesEnough ==
  stage = "returned" =>
    \A b \in Block : \A s \in Block \ {b} :
      Succ(term[b]) = {s} /\ Preds(term, s) = {b} => Len(body[b]) > 1

(* Merging leaves a function that can be verified: each phi has an entry for *)
(* each block that branches to it, and names no other block.                 *)
PhisNamePredecessors ==
  \A b \in blocks : Entries(phi[b]) # {} => Entries(phi[b]) = Preds(term, b)
=============================================================================
