-------------------------- MODULE BlockMergeProofs --------------------------
(***************************************************************************)
(* Proofs about BlockMerge, for functions with any number of blocks.       *)
(***************************************************************************)
EXTENDS BlockMerge, SequenceTheorems, TLAPS

(* What the terminators of a function are. *)
LEMMA TerminatorFacts ==
  /\ \A t \in Terminator :
       /\ Succ(t) \subseteq Block
       /\ t.kind = "br" => t.yes \in Block /\ Succ(t) = {t.yes} /\ ~Constant(t)
       /\ \A s : Succ(t) = {s} => t.kind = "br" /\ t.yes = s
       /\ Constant(t) => /\ TargetBB(t) \in Block /\ DeadBB(t) \in Block
                         /\ TargetBB(t) # DeadBB(t)
                         /\ Succ(t) = {TargetBB(t), DeadBB(t)}
  /\ \A b \in Block : Br(b) \in Terminator /\ Succ(Br(b)) = {b} /\ ~Constant(Br(b))
  /\ None \in Terminator /\ Succ(None) = {} /\ ~Constant(None) /\ None.kind # "br"
<1>1. \A t \in Terminator :
       /\ Succ(t) \subseteq Block
       /\ t.kind = "br" => t.yes \in Block /\ Succ(t) = {t.yes} /\ ~Constant(t)
       /\ \A s : Succ(t) = {s} => t.kind = "br" /\ t.yes = s
       /\ Constant(t) => /\ TargetBB(t) \in Block /\ DeadBB(t) \in Block
                         /\ TargetBB(t) # DeadBB(t)
                         /\ Succ(t) = {TargetBB(t), DeadBB(t)}
  BY FunctionsAssumption DEF Terminator, Succ, Constant, TargetBB, DeadBB, Block
<1>2. \A b \in Block : Br(b) \in Terminator /\ Succ(Br(b)) = {b} /\ ~Constant(Br(b))
  BY FunctionsAssumption DEF Terminator, Succ, Constant, Br, Block
<1>3. None \in Terminator /\ Succ(None) = {} /\ ~Constant(None) /\ None.kind # "br"
  BY DEF Terminator, Succ, Constant, None
<1> QED
  BY <1>1, <1>2, <1>3

(* Both loops stay within the function, whatever follows them. *)
LEMMA AdvanceType ==
  ASSUME NEW next \in Stages, pos \in Block, stage \in Stages, Advance(next)
  PROVE  pos' \in Block /\ stage' \in Stages
BY FunctionsAssumption DEF Advance, Block

(* removePredecessor() leaves phis and what replaced them well-typed. *)
LEMMA RemovePredecessorType ==
  ASSUME TypeOK, NEW b \in Block, NEW p \in Block, RemovePredecessor(b, p)
  PROVE  phi' \in [Block -> [Block -> Nat]] /\ folded' \in [Block -> Nat]
<1> DEFINE left == [phi[b] EXCEPT ![p] = 0]
<1>1. left \in [Block -> Nat]
  BY DEF TypeOK
<1>2. \A q \in Entries(left) : left[q] \in Nat
  BY <1>1 DEF Entries
<1>3. [q \in Block |-> 0] \in [Block -> Nat]
  OBVIOUS
<1> HIDE DEF left
<1>4. \/ \E v \in {left[q] : q \in Entries(left)} :
           /\ folded' = [folded EXCEPT ![b] = v]
           /\ phi' = [phi EXCEPT ![b] = [q \in Block |-> 0]]
      \/ phi' = [phi EXCEPT ![b] = left] /\ folded' = folded
  BY Zenon DEF RemovePredecessor, left
<1> QED
  BY <1>1, <1>2, <1>3, <1>4 DEF TypeOK

(* The types of the pass are an invariant. *)
LEMMA TypeStep == TypeOK /\ [Next]_vars => TypeOK'
<1> SUFFICES ASSUME TypeOK, [Next]_vars PROVE TypeOK'
  OBVIOUS
<1> USE TerminatorFacts
<1>1. CASE Simplify
  <2>1. pos' \in Block /\ stage' \in Stages
    BY <1>1, AdvanceType DEF Simplify, TypeOK, Stages
  <2>2. CASE Constant(term[pos])
    <3>1. TargetBB(term[pos]) \in Block /\ DeadBB(term[pos]) \in Block
      BY <2>2 DEF TypeOK
    <3>2. term' = [term EXCEPT ![pos] = Br(TargetBB(term[pos]))]
      BY <1>1, <2>2 DEF Simplify
    <3>3. term' \in [Block -> Terminator]
      BY <3>1, <3>2 DEF TypeOK
    <3>4. phi' \in [Block -> [Block -> Nat]] /\ folded' \in [Block -> Nat]
      <4>1. RemovePredecessor(DeadBB(term[pos]), pos)
        BY <1>1, <2>2 DEF Simplify
      <4> QED BY <4>1, <3>1, RemovePredecessorType DEF TypeOK
    <3>5. changed' \in BOOLEAN
      BY <1>1, <2>2 DEF Simplify
    <3> QED BY <1>1, <2>1, <3>3, <3>4, <3>5 DEF Simplify, TypeOK
  <2>3. CASE ~Constant(term[pos])
    BY <1>1, <2>1, <2>3 DEF Simplify, TypeOK
  <2> QED BY <2>2, <2>3
<1>2. CASE Merge
  <2>1. pos' \in Block /\ stage' \in Stages
    BY <1>2, AdvanceType DEF Merge, TypeOK, Stages
  <2>2. CASE Merges(pos)
    <3> DEFINE s == term[pos].yes
    <3>1. s \in Block /\ pos \in Block
      BY <2>2 DEF Merges, TypeOK
    <3>2. body' = [body EXCEPT ![pos] = body[pos] \o body[s], ![s] = <<>>]
          /\ term' = [term EXCEPT ![pos] = term[s], ![s] = None]
      BY <1>2, <2>2 DEF Merge, MoveInto
    <3>3. body[pos] \o body[s] \in Seq(Block) /\ <<>> \in Seq(Block)
      BY <3>1 DEF TypeOK
    <3>4. body' \in [Block -> Seq(Block)]
      BY <3>1, <3>2, <3>3 DEF TypeOK
    <3>5. term' \in [Block -> Terminator]
      BY <3>1, <3>2 DEF TypeOK
    <3> QED BY <1>2, <2>1, <2>2, <3>1, <3>4, <3>5 DEF Merge, TypeOK
  <2>3. CASE ~Merges(pos)
    BY <1>2, <2>1, <2>3 DEF Merge, TypeOK
  <2> QED BY <2>2, <2>3
<1>3. CASE Erase
  BY <1>3 DEF Erase, TypeOK
<1>4. CASE Return
  BY <1>4 DEF Return, TypeOK, Stages
<1>5. CASE UNCHANGED vars
  BY <1>5 DEF vars, TypeOK
<1> QED
  BY <1>1, <1>2, <1>3, <1>4, <1>5 DEF Next

LEMMA TypeInit == Init => TypeOK
<1> SUFFICES ASSUME Init PROVE TypeOK
  OBVIOUS
<1>1. function \in Function
  BY FunctionsAssumption DEF Init
<1>2. function.term \in [Block -> Terminator] /\ function.phi \in [Block -> [Block -> Nat]]
  BY <1>1 DEF Function
<1>3. \A b \in Block : <<b>> \in Seq(Block)
  OBVIOUS
<1>4. 1 \in Block
  BY FunctionsAssumption DEF Block
<1> QED
  BY <1>1, <1>2, <1>3, <1>4 DEF Init, TypeOK, Stages

(* The fields of the pass stay within their types. *)
THEOREM TypeCorrect == Spec => []TypeOK
BY TypeInit, TypeStep, PTL DEF Spec

-----------------------------------------------------------------------------
(* How the blocks look while the pass runs: the code of a block begins with its *)
(* own, what was moved behind that has left its block empty, an empty block     *)
(* branches nowhere and nothing branches to it, and only empty ones are erased. *)
Heads == \A b \in Block : body[b] # <<>> => body[b][1] = b

Moved == \A b \in Block : \A i \in 2..Len(body[b]) : body[body[b][i]] = <<>>

Targets ==
  \A b \in Block :
    /\ body[b] = <<>> => term[b] = None
    /\ \A s \in Succ(term[b]) : body[s] # <<>>

Erasable ==
  /\ blocksneed2del \subseteq blocks
  /\ \A b \in Block : b \notin blocks \ blocksneed2del => body[b] = <<>>
  /\ stage \in {"constants", "merging"} => blocks = Block
  /\ stage = "constants" => body = [b \in Block |-> <<b>>]

Shape == Heads /\ Moved /\ Targets /\ Erasable

(* The code that was moved is that of blocks. *)
LEMMA MovedCode ==
  ASSUME TypeOK, Shape, NEW b \in Block, NEW i \in 2..Len(body[b])
  PROVE  body[b][i] \in Block /\ body[body[b][i]] = <<>>
<1>1. body[b] \in Seq(Block)
  BY DEF TypeOK
<1>2. Len(body[b]) \in Nat
  BY <1>1
<1>3. i \in 1..Len(body[b])
  BY <1>2
<1>4. body[b][i] \in Block
  BY <1>1, <1>3, ElementOfSeq
<1> QED BY <1>4 DEF Shape, Moved

(* What one merge does to the two blocks, and that the emptied one is the target *)
(* of no branch.                                                                 *)
LEMMA MergeFacts ==
  ASSUME TypeOK, Shape, Merge, Merges(pos)
  PROVE  LET s == term[pos].yes IN
         /\ s \in Block /\ s # pos /\ body[pos] # <<>> /\ body[s] # <<>>
         /\ Len(body'[pos]) = Len(body[pos]) + Len(body[s])
         /\ \A i \in 1..Len(body[pos]) + Len(body[s]) :
              body'[pos][i] = IF i <= Len(body[pos]) THEN body[pos][i]
                              ELSE body[s][i - Len(body[pos])]
         /\ body'[s] = <<>>
         /\ \A b \in Block \ {pos, s} : body'[b] = body[b] /\ term'[b] = term[b]
         /\ term'[pos] = term[s] /\ term'[s] = None
         /\ Succ(term[pos]) = {s}
         /\ \A p \in Block : s \in Succ(term[p]) <=> p = pos
         /\ blocksneed2del' = blocksneed2del \cup {s}
<1> DEFINE s == term[pos].yes
<1>1. pos \in Block /\ s \in Block /\ s # pos /\ term[pos].kind = "br" /\ Preds(term, s) = {pos}
  BY TerminatorFacts DEF Merges, TypeOK
<1>2. Succ(term[pos]) = {s}
  BY <1>1, TerminatorFacts DEF TypeOK
<1>3. \A p \in Block : s \in Succ(term[p]) <=> p = pos
  BY <1>1 DEF Preds
<1>4. body[pos] # <<>> /\ body[s] # <<>>
  BY <1>1, <1>2, TerminatorFacts DEF Shape, Targets
<1>5. /\ body' = [body EXCEPT ![pos] = body[pos] \o body[s], ![s] = <<>>]
      /\ term' = [term EXCEPT ![pos] = term[s], ![s] = None]
      /\ blocksneed2del' = blocksneed2del \cup {s}
  BY DEF Merge, MoveInto
<1>6. body'[pos] = body[pos] \o body[s] /\ body'[s] = <<>> /\ term'[pos] = term[s] /\ term'[s] = None
  BY <1>1, <1>5 DEF TypeOK
<1>7. \A b \in Block \ {pos, s} : body'[b] = body[b] /\ term'[b] = term[b]
  BY <1>1, <1>5 DEF TypeOK
<1>8. body[pos] \in Seq(Block) /\ body[s] \in Seq(Block)
  BY <1>1 DEF TypeOK
<1>9. /\ Len(body'[pos]) = Len(body[pos]) + Len(body[s])
      /\ \A i \in 1..Len(body[pos]) + Len(body[s]) :
              body'[pos][i] = IF i <= Len(body[pos]) THEN body[pos][i]
                              ELSE body[s][i - Len(body[pos])]
  <2> DEFINE p == body[pos]  q == body[s]
  <2>1. p \in Seq(Block) /\ q \in Seq(Block) /\ body'[pos] = p \o q
    BY <1>6, <1>8
  <2> HIDE DEF p, q
  <2>2. /\ Len(p \o q) = Len(p) + Len(q)
        /\ \A i \in 1..Len(p) + Len(q) :
             (p \o q)[i] = IF i <= Len(p) THEN p[i] ELSE q[i - Len(p)]
    BY <2>1, ConcatProperties
  <2> QED BY <2>1, <2>2 DEF p, q
<1> QED
  BY <1>1, <1>2, <1>3, <1>4, <1>5, <1>6, <1>7, <1>9

(* The shape of the blocks is an invariant. *)
LEMMA ShapeInit == Init => Shape
<1> SUFFICES ASSUME Init PROVE Shape
  OBVIOUS
<1>1. body = [b \in Block |-> <<b>>] /\ TypeOK
  BY TypeInit DEF Init
<1>2. \A b \in Block : body[b] # <<>> /\ Len(body[b]) = 1 /\ body[b][1] = b
  BY <1>1
<1>3. Heads /\ Moved
  BY <1>2 DEF Heads, Moved
<1>4. Targets
  BY <1>1, <1>2, TerminatorFacts DEF Targets, TypeOK
<1>5. Erasable
  BY <1>1, <1>2 DEF Init, Erasable
<1> QED BY <1>3, <1>4, <1>5 DEF Shape

LEMMA ShapeStep == TypeOK /\ Shape /\ [Next]_vars => Shape'
<1> SUFFICES ASSUME TypeOK, Shape, [Next]_vars PROVE Shape'
  OBVIOUS
<1>0. TypeOK'
  BY TypeStep
<1>1. CASE Simplify
  <2>1. body' = [b \in Block |-> <<b>>] /\ body' = body /\ stage = "constants"
        /\ blocks' = blocks /\ blocks = Block /\ blocksneed2del' = blocksneed2del
    BY <1>1 DEF Simplify, Shape, Erasable
  <2>2. \A b \in Block : body'[b] # <<>>
    BY <2>1
  <2>3. Targets'
    BY <1>0, <2>2, TerminatorFacts DEF Targets, TypeOK
  <2>4. Erasable'
    BY <2>1 DEF Erasable, Shape
  <2>5. Heads' /\ Moved'
    BY <2>1 DEF Heads, Moved, Shape
  <2> QED BY <2>3, <2>4, <2>5 DEF Shape
<1>2. CASE Merge
  <2>1. CASE Merges(pos)
    <3> DEFINE s == term[pos].yes
               m == Len(body[pos])
               n == Len(body[s])
    <3>1. /\ s \in Block /\ s # pos /\ body[pos] # <<>> /\ body[s] # <<>>
          /\ body'[s] = <<>>
          /\ \A b \in Block \ {pos, s} : body'[b] = body[b] /\ term'[b] = term[b]
          /\ term'[pos] = term[s] /\ term'[s] = None
          /\ \A p \in Block : s \in Succ(term[p]) <=> p = pos
          /\ blocksneed2del' = blocksneed2del \cup {s}
      BY <1>2, <2>1, MergeFacts
    <3>2. /\ Len(body'[pos]) = m + n
          /\ \A i \in 1..m + n : body'[pos][i] = IF i <= m THEN body[pos][i] ELSE body[s][i - m]
      BY <1>2, <2>1, MergeFacts
    <3>3. m \in Nat \ {0} /\ n \in Nat \ {0} /\ pos \in Block
      <4>1. body[pos] \in Seq(Block) /\ body[s] \in Seq(Block) /\ pos \in Block
        BY <3>1 DEF TypeOK
      <4> QED BY <4>1, <3>1, EmptySeq
    <3> HIDE DEF s, m, n
    <3>4. body'[pos] # <<>>
      <4>1. Len(body'[pos]) # 0
        BY <3>2, <3>3
      <4> QED BY <4>1
    <3>5. Heads'
      <4> SUFFICES ASSUME NEW b \in Block, body'[b] # <<>> PROVE body'[b][1] = b
        BY DEF Heads
      <4>1. CASE b = pos
        BY <4>1, <3>1, <3>2, <3>3 DEF Shape, Heads
      <4>2. CASE b # pos
        BY <4>2, <3>1 DEF Shape, Heads
      <4> QED BY <4>1, <4>2
    <3>6. \A b \in Block : b # pos /\ body[b] = <<>> => body'[b] = <<>>
      BY <3>1
    <3>7. Moved'
      <4> SUFFICES ASSUME NEW b \in Block, NEW i \in 2..Len(body'[b])
                   PROVE  body'[body'[b][i]] = <<>>
        BY DEF Moved
      <4>1. CASE b = pos
        <5>1. CASE i <= m
          <6>1. body'[b][i] = body[pos][i] /\ i \in 2..m
            BY <4>1, <5>1, <3>2, <3>3
          <6>2. body[pos][i] \in Block /\ body[body[pos][i]] = <<>>
            BY <6>1, <3>3, MovedCode DEF m
          <6> QED BY <6>1, <6>2, <3>1, <3>6
        <5>2. CASE i = m + 1
          <6>1. body'[b][i] = body[s][1]
            BY <4>1, <5>2, <3>2, <3>3
          <6>2. body[s][1] = s
            BY <3>1 DEF Shape, Heads
          <6> QED BY <6>1, <6>2, <3>1
        <5>3. CASE i > m + 1
          <6> DEFINE j == i - m
          <6>1. body'[b][i] = body[s][j] /\ j \in 2..n
            BY <4>1, <5>3, <3>2, <3>3
          <6>2. body[s][j] \in Block /\ body[body[s][j]] = <<>>
            BY <6>1, <3>1, MovedCode DEF n
          <6> QED BY <6>1, <6>2, <3>1, <3>6
        <5> QED BY <5>1, <5>2, <5>3, <3>2, <3>3, <4>1
      <4>2. CASE b = s
        BY <4>2, <3>1
      <4>3. CASE b \notin {pos, s}
        <5>1. body'[b] = body[b] /\ i \in 2..Len(body[b])
          BY <4>3, <3>1
        <5>2. body[b][i] \in Block /\ body[body[b][i]] = <<>>
          BY <5>1, MovedCode
        <5> QED BY <5>1, <5>2, <3>1, <3>6
      <4> QED BY <4>1, <4>2, <4>3
    <3>8. Targets'
      <4> SUFFICES ASSUME NEW b \in Block
                   PROVE  /\ body'[b] = <<>> => term'[b] = None
                          /\ \A t \in Succ(term'[b]) : body'[t] # <<>>
        BY DEF Targets
      <4>1. \A t \in Block : t # s /\ body[t] # <<>> => body'[t] # <<>>
        BY <3>1, <3>4
      <4>2. CASE b = pos
        <5>1. \A t \in Succ(term[s]) : t \in Block /\ t # s /\ body[t] # <<>>
          BY <3>1, TerminatorFacts DEF Shape, Targets, TypeOK
        <5> QED BY <5>1, <4>1, <4>2, <3>1, <3>4
      <4>3. CASE b = s
        BY <4>3, <3>1, TerminatorFacts
      <4>4. CASE b \notin {pos, s}
        <5>1. \A t \in Succ(term[b]) : t \in Block /\ t # s /\ body[t] # <<>>
          BY <4>4, <3>1, TerminatorFacts DEF Shape, Targets, TypeOK
        <5>2. body[b] = <<>> => term[b] = None
          BY DEF Shape, Targets
        <5> QED BY <5>1, <5>2, <4>1, <4>4, <3>1
      <4> QED BY <4>2, <4>3, <4>4
    <3>9. Erasable'
      <4>1. stage = "merging" /\ stage' # "constants" /\ blocks' = blocks /\ blocks = Block
        BY <1>2 DEF Merge, Advance, Shape, Erasable
      <4>2. \A b \in Block : b \notin blocks' \ blocksneed2del' => body'[b] = <<>>
        BY <4>1, <3>1, <3>6 DEF Shape, Erasable
      <4> QED BY <4>1, <4>2, <3>1 DEF Shape, Erasable
    <3> QED BY <3>5, <3>7, <3>8, <3>9 DEF Shape
  <2>2. CASE ~Merges(pos)
    <3>1. body' = body /\ term' = term /\ blocks' = blocks /\ blocksneed2del' = blocksneed2del
      BY <1>2, <2>2 DEF Merge
    <3>2. stage = "merging" /\ stage' # "constants"
      BY <1>2 DEF Merge, Advance
    <3> QED BY <3>1, <3>2 DEF Shape, Heads, Moved, Targets, Erasable
  <2> QED BY <2>1, <2>2
<1>3. CASE Erase
  <2>1. PICK b \in blocksneed2del :
          blocksneed2del' = blocksneed2del \ {b} /\ blocks' = blocks \ {b}
    BY <1>3 DEF Erase
  <2>2. body' = body /\ term' = term /\ stage' = stage /\ stage = "deleting"
    BY <1>3 DEF Erase
  <2> QED BY <2>1, <2>2 DEF Shape, Heads, Moved, Targets, Erasable
<1>4. CASE Return
  BY <1>4 DEF Return, Shape, Heads, Moved, Targets, Erasable
<1>5. CASE UNCHANGED vars
  BY <1>5 DEF vars, Shape, Heads, Moved, Targets, Erasable
<1> QED
  BY <1>1, <1>2, <1>3, <1>4, <1>5 DEF Next

LEMMA ShapeCorrect == Spec => [](TypeOK /\ Shape)
BY TypeInit, TypeStep, ShapeInit, ShapeStep, PTL DEF Spec

(* The loop's iterator is at no erased block, no branch goes to one, and what is *)
(* erased has lost its code.  (Phis may name one: PhisNamePredecessors fails.)   *)
THEOREM NoDanglingCorrect == Spec => []NoDangling
<1>1. TypeOK /\ Shape => NoDangling
  <2> SUFFICES ASSUME TypeOK, Shape PROVE NoDangling
    OBVIOUS
  <2>1. stage \in {"constants", "merging"} => pos..N \subseteq blocks
    BY FunctionsAssumption DEF TypeOK, Shape, Erasable, Block
  <2>2. \A b \in Block : Succ(term[b]) \subseteq blocks \ blocksneed2del
    BY TerminatorFacts DEF TypeOK, Shape, Erasable, Targets
  <2>3. \A b \in blocksneed2del : b \in blocks /\ body[b] = <<>>
    BY DEF TypeOK, Shape, Erasable
  <2> QED BY <2>1, <2>2, <2>3 DEF NoDangling
<1> QED BY <1>1, ShapeCorrect, PTL

-----------------------------------------------------------------------------
(* As long as changed is FALSE, the function is untouched. *)
Untouched ==
  ~changed => /\ term = function.term /\ phi = function.phi
              /\ blocks = Block /\ blocksneed2del = {}
              /\ body = [b \in Block |-> <<b>>]

LEMMA UntouchedCorrect == Spec => []Untouched
<1>1. Init => Untouched
  BY DEF Init, Untouched
<1>2. Untouched /\ [Next]_vars => Untouched'
  <2> SUFFICES ASSUME Untouched, [Next]_vars PROVE Untouched'
    OBVIOUS
  <2>1. CASE Simplify
    BY <2>1 DEF Simplify, Untouched
  <2>2. CASE Merge
    BY <2>2 DEF Merge, Untouched
  <2>3. CASE Erase
    BY <2>3 DEF Erase, Untouched
  <2>4. CASE Return
    BY <2>4 DEF Return, Untouched
  <2>5. CASE UNCHANGED vars
    BY <2>5 DEF vars, Untouched
  <2> QED
    BY <2>1, <2>2, <2>3, <2>4, <2>5 DEF Next
<1> QED
  BY <1>1, <1>2, PTL DEF Spec

(* PreservedAnalyses::all() is the answer for an untouched function only. *)
THEOREM HonestAnswerCorrect == Spec => []HonestAnswer
<1>1. TypeOK /\ Untouched => HonestAnswer
  BY DEF TypeOK, Stages, Untouched, HonestAnswer, Answer
<1> QED
  BY <1>1, ShapeCorrect, UntouchedCorrect, PTL

-----------------------------------------------------------------------------
(* What the first loop makes of a terminator. *)
Simplified(t) == IF Constant(t) THEN Br(TargetBB(t)) ELSE t

LEMMA SimplifiedFacts ==
  \A t \in Terminator :
    /\ Simplified(t) \in Terminator
    /\ ~Constant(Simplified(t))
    /\ Succ(Simplified(t)) = Succ(t) \ (IF Constant(t) THEN {DeadBB(t)} ELSE {})
BY TerminatorFacts DEF Simplified

(* In the first loop the code is as it was, and follows the terminators. *)
LEMMA FlowOfTerminators ==
  TypeOK /\ body = [b \in Block |-> <<b>>] /\ blocks = Block =>
    \A x, y \in Block : Follows(x, y) <=> y \in Succ(term[x])
<1> SUFFICES ASSUME TypeOK, body = [b \in Block |-> <<b>>], blocks = Block,
                    NEW x \in Block, NEW y \in Block
             PROVE  Follows(x, y) <=> y \in Succ(term[x])
  OBVIOUS
<1>1. \A b \in Block : body[b] # <<>> /\ Len(body[b]) = 1 /\ body[b][1] = b
  OBVIOUS
<1>2. \A b \in Block : ~Within(b, x, y)
  BY <1>1 DEF Within
<1>3. \A b \in Block : Across(b, x, y) <=> b = x /\ y \in Succ(term[b])
  <2> TAKE b \in Block
  <2>1. Succ(term[b]) \subseteq Block
    BY TerminatorFacts DEF TypeOK
  <2>2. Across(b, x, y) <=> x = b /\ \E s \in Succ(term[b]) : y = s
    BY <1>1, <2>1 DEF Across
  <2> QED BY <2>2
<1> QED
  BY <1>2, <1>3 DEF Follows

LEMMA FlowOfTerminatorsNext ==
  TypeOK' /\ (body = [b \in Block |-> <<b>>])' /\ (blocks = Block)' =>
    (\A x, y \in Block : Follows(x, y) <=> y \in Succ(term[x]))'
BY FlowOfTerminators, PTL

(* The blocks before pos have been simplified, those from pos on have not; when *)
(* the loop is over, just the edges that are never taken are gone.              *)
FlowInv ==
  IF stage = "constants"
    THEN \A b \in Block : term[b] = IF b < pos THEN Simplified(function.term[b])
                                               ELSE function.term[b]
    ELSE Flow = EdgesOf(function) \ Never(function)

(* Merging moves code to where control came from: what follows what stays. *)
LEMMA MergeFlow ==
  ASSUME TypeOK, Shape, Merge
  PROVE  Flow' = Flow
<1>1. CASE Merges(pos)
  <2>a. pos \in Block /\ term[pos].yes \in Block
    BY <1>1, MergeFacts DEF TypeOK
  <2>b. PICK p \in Block : p = pos
    BY <2>a
  <2>c. PICK s \in Block : s = term[p].yes
    BY <2>a, <2>b
  <2> DEFINE m == Len(body[p])
             n == Len(body[s])
  <2>1. /\ s # p /\ body[p] # <<>> /\ body[s] # <<>>
        /\ body'[s] = <<>>
        /\ \A b \in Block \ {p, s} : body'[b] = body[b] /\ term'[b] = term[b]
        /\ term'[p] = term[s] /\ term'[s] = None
        /\ Succ(term[p]) = {s}
        /\ \A b \in Block : s \in Succ(term[b]) <=> b = p
    BY <1>1, <2>b, <2>c, MergeFacts
  <2>2. /\ Len(body'[p]) = m + n
        /\ \A i \in 1..m + n : body'[p][i] = IF i <= m THEN body[p][i] ELSE body[s][i - m]
    BY <1>1, <2>b, <2>c, MergeFacts
  <2>3. m \in Nat \ {0} /\ n \in Nat \ {0}
    <3>1. body[p] \in Seq(Block) /\ body[s] \in Seq(Block)
      BY DEF TypeOK
    <3> QED BY <3>1, <2>1, EmptySeq
  <2>4. blocks' = Block /\ blocks = Block
    BY DEF Merge, Shape, Erasable
  <2>5. \A b \in Block : Succ(term[b]) \subseteq Block
    BY TerminatorFacts DEF TypeOK
  <2> HIDE DEF m, n
  <2>6. body'[p] # <<>> /\ body'[p][1] = body[p][1]
    <3>1. Len(body'[p]) # 0
      BY <2>2, <2>3
    <3> QED BY <3>1, <2>2, <2>3
  <2>7. \A t \in Block : t # s => (body'[t] # <<>> <=> body[t] # <<>>)
                                  /\ (body[t] # <<>> => body'[t][1] = body[t][1])
    BY <2>1, <2>3, <2>6
  <2>8. SUFFICES ASSUME NEW x \in Block, NEW y \in Block
                 PROVE  Follows(x, y)' <=> Follows(x, y)
    BY DEF Flow
  <2>9. \A b \in Block \ {p, s} :
          (Within(b, x, y)' <=> Within(b, x, y)) /\ (Across(b, x, y)' <=> Across(b, x, y))
    <3> TAKE b \in Block \ {p, s}
    <3>1. body'[b] = body[b] /\ term'[b] = term[b] /\ s \notin Succ(term[b])
      BY <2>1
    <3>2. Within(b, x, y)' <=> Within(b, x, y)
      BY <3>1 DEF Within
    <3>3. Across(b, x, y)' <=> Across(b, x, y)
      BY <3>1, <2>4, <2>5, <2>7 DEF Across
    <3> QED BY <3>2, <3>3
  <2>10. ~Within(s, x, y)' /\ ~Across(s, x, y)'
    BY <2>1 DEF Within, Across
  <2>11. Across(p, x, y)' <=> Across(s, x, y)
    <3>1. body'[p][m + n] = body[s][n] /\ Len(body'[p]) = m + n
      BY <2>2, <2>3
    <3>2. s \notin Succ(term[s])
      BY <2>1
    <3> QED BY <3>1, <3>2, <2>1, <2>4, <2>5, <2>6, <2>7 DEF Across, n
  <2>12. Across(p, x, y) <=> x = body[p][m] /\ y = body[s][1]
    BY <2>1, <2>4 DEF Across, m
  <2>13. Within(p, x, y)' <=>
           \E i \in 1..m + n - 1 : x = body'[p][i] /\ y = body'[p][i + 1]
    <3>1. Len(body'[p]) - 1 = m + n - 1
      BY <2>2, <2>3
    <3>2. Within(p, x, y)' <=>
            \E i \in 1..Len(body'[p]) - 1 : x = body'[p][i] /\ y = body'[p][i + 1]
      BY DEF Within
    <3> QED BY <3>1, <3>2
  <2>14. Within(p, x, y)' <=> Within(p, x, y) \/ Across(p, x, y) \/ Within(s, x, y)
    <3>1. ASSUME NEW i \in 1..m + n - 1
          PROVE  /\ i < m => body'[p][i] = body[p][i] /\ body'[p][i + 1] = body[p][i + 1]
                 /\ i = m => body'[p][i] = body[p][m] /\ body'[p][i + 1] = body[s][1]
                 /\ i > m => /\ body'[p][i] = body[s][i - m]
                             /\ body'[p][i + 1] = body[s][i - m + 1]
      BY <2>2, <2>3
    <3>2. ASSUME Within(p, x, y)'
          PROVE  Within(p, x, y) \/ Across(p, x, y) \/ Within(s, x, y)
      <4>1. PICK i \in 1..m + n - 1 : x = body'[p][i] /\ y = body'[p][i + 1]
        BY <3>2, <2>13
      <4>2. CASE i < m
        <5>1. i \in 1..m - 1
          BY <4>2, <2>3
        <5> QED BY <4>1, <4>2, <5>1, <3>1 DEF Within, m
      <4>3. CASE i = m
        BY <4>1, <4>3, <3>1, <2>12
      <4>4. CASE i > m
        <5>1. i - m \in 1..n - 1
          BY <4>4, <2>3
        <5> QED BY <4>1, <4>4, <5>1, <3>1 DEF Within, n
      <4> QED BY <4>2, <4>3, <4>4, <2>3
    <3>3. ASSUME Within(p, x, y) PROVE Within(p, x, y)'
      <4>1. PICK i \in 1..m - 1 : x = body[p][i] /\ y = body[p][i + 1]
        BY <3>3 DEF Within, m
      <4>2. i \in 1..m + n - 1 /\ i < m
        BY <2>3
      <4> QED BY <4>1, <4>2, <3>1, <2>13
    <3>4. ASSUME Across(p, x, y) PROVE Within(p, x, y)'
      <4>1. m \in 1..m + n - 1
        BY <2>3
      <4> QED BY <3>4, <4>1, <3>1, <2>12, <2>13
    <3>5. ASSUME Within(s, x, y) PROVE Within(p, x, y)'
      <4>1. PICK i \in 1..n - 1 : x = body[s][i] /\ y = body[s][i + 1]
        BY <3>5 DEF Within, n
      <4> DEFINE k == i + m
      <4>2. k \in 1..m + n - 1 /\ k > m /\ k - m = i
        BY <2>3
      <4>3. x = body'[p][k] /\ y = body'[p][k + 1]
        BY <4>1, <4>2, <3>1
      <4> HIDE DEF k
      <4> QED BY <4>2, <4>3, <2>13
    <3> QED BY <3>2, <3>3, <3>4, <3>5
  <2> QED
    BY <2>1, <2>3, <2>9, <2>10, <2>11, <2>14 DEF Follows
<1>2. CASE ~Merges(pos)
  BY <1>2 DEF Merge, Flow, Follows, Within, Across
<1> QED BY <1>1, <1>2

-----------------------------------------------------------------------------
(* The first loop takes away one edge, or none. *)
LEMMA SimplifyFlow ==
  ASSUME TypeOK, Shape, FlowInv, Simplify
  PROVE  /\ FlowInv'
         /\ Constant(term[pos]) =>
              LET e == <<pos, DeadBB(term[pos])>>
              IN  e \in Flow \cap Never(function) /\ Flow' = Flow \ {e}
         /\ ~Constant(term[pos]) => Flow' = Flow
<1>1. /\ stage = "constants" /\ blocks = Block /\ blocks' = Block
      /\ body = [b \in Block |-> <<b>>] /\ body' = [b \in Block |-> <<b>>]
      /\ function' = function /\ pos \in Block
  BY DEF Simplify, Shape, Erasable, TypeOK
<1>2. TypeOK'
  BY TypeStep DEF Next
<1>3. \A x, y \in Block : Follows(x, y) <=> y \in Succ(term[x])
  BY <1>1, FlowOfTerminators
<1>4. \A x, y \in Block : Follows(x, y)' <=> y \in Succ(term'[x])
  BY <1>1, <1>2, FlowOfTerminatorsNext
<1>5. \A b \in Block : /\ function.term[b] \in Terminator /\ b \in Int
                       /\ term[b] = IF b < pos THEN Simplified(function.term[b])
                                               ELSE function.term[b]
  <2>1. \A b \in Block : term[b] = IF b < pos THEN Simplified(function.term[b])
                                               ELSE function.term[b]
    BY <1>1 DEF FlowInv
  <2>2. \A b \in Block : function.term[b] \in Terminator
    BY DEF TypeOK, Function
  <2>3. \A b \in Block : b \in Int
    BY DEF Block
  <2> QED BY <2>1, <2>2, <2>3
<1>6. term[pos] = function.term[pos]
  BY <1>1, <1>5
<1>7. \A b \in Block : term'[b] = IF b = pos THEN Simplified(term[b]) ELSE term[b]
  BY DEF Simplify, Simplified, TypeOK
<1>8. \A b \in Block : term'[b] = IF b <= pos THEN Simplified(function.term[b])
                                              ELSE function.term[b]
  BY <1>1, <1>5, <1>6, <1>7
<1>9. FlowInv'
  <2>1. CASE pos = N
    <3>1. stage' = "merging"
      BY <2>1 DEF Simplify, Advance
    <3>2. \A b \in Block : term'[b] = Simplified(function.term[b])
      BY <1>8, <2>1, FunctionsAssumption DEF Block
    <3>3. ASSUME NEW x \in Block, NEW y \in Block
          PROVE  Follows(x, y)' <=> <<x, y>> \in EdgesOf(function) \ Never(function)
      BY <1>4, <1>5, <3>2, SimplifiedFacts DEF EdgesOf, Never
    <3>4. Flow' = EdgesOf(function) \ Never(function)
      BY <3>3 DEF Flow, EdgesOf
    <3> QED BY <3>1, <3>4, <1>1 DEF FlowInv
  <2>2. CASE pos # N
    <3>1. stage' = "constants" /\ pos' = pos + 1
      BY <1>1, <2>2 DEF Simplify, Advance
    <3>2. \A b \in Block : b < pos' <=> b <= pos
      BY <3>1, <1>1, <1>5
    <3> QED BY <1>1, <1>8, <3>1, <3>2 DEF FlowInv
  <2> QED BY <2>1, <2>2
<1>10. ASSUME Constant(term[pos])
       PROVE  LET e == <<pos, DeadBB(term[pos])>>
              IN  e \in Flow \cap Never(function) /\ Flow' = Flow \ {e}
  <2> DEFINE d == DeadBB(term[pos])
  <2>1. term[pos] \in Terminator
    BY <1>1 DEF TypeOK
  <2>2. d \in Block /\ d \in Succ(term[pos]) /\ Succ(term'[pos]) = Succ(term[pos]) \ {d}
    BY <1>1, <1>7, <1>10, <2>1, TerminatorFacts, SimplifiedFacts
  <2>3. <<pos, d>> \in Never(function)
    BY <1>1, <1>6, <1>10, <2>2 DEF Never
  <2> HIDE DEF d
  <2>4. <<pos, d>> \in Flow
    BY <1>1, <1>3, <2>2 DEF Flow
  <2>5. \A x, y \in Block : Follows(x, y)' <=> Follows(x, y) /\ <<x, y>> # <<pos, d>>
    BY <1>1, <1>3, <1>4, <1>7, <2>2
  <2>6. Flow' = Flow \ {<<pos, d>>}
    BY <2>5 DEF Flow
  <2> QED BY <2>3, <2>4, <2>6 DEF d
<1>11. ~Constant(term[pos]) => Flow' = Flow
  BY <1>3, <1>4, <1>7 DEF Simplified, Flow
<1> QED BY <1>9, <1>10, <1>11

LEMMA EraseFlow == TypeOK /\ Shape /\ Erase => Flow' = Flow
<1> SUFFICES ASSUME TypeOK, Shape, Erase PROVE Flow' = Flow
  OBVIOUS
<1>1. PICK e \in blocksneed2del : blocks' = blocks \ {e}
  BY DEF Erase
<1>2. body' = body /\ term' = term /\ body[e] = <<>>
  BY DEF Erase, Shape, Erasable, TypeOK
<1>3. ASSUME NEW b \in Block, NEW x \in Block, NEW y \in Block
      PROVE  (Within(b, x, y)' <=> Within(b, x, y)) /\ (Across(b, x, y)' <=> Across(b, x, y))
  BY <1>1, <1>2 DEF Within, Across
<1> QED BY <1>3 DEF Flow, Follows

(* Outside the first loop, what follows what does not change any more. *)
LEMMA FlowStep ==
  ASSUME TypeOK, Shape, FlowInv, [Next]_vars
  PROVE  FlowInv' /\ (~Simplify => Flow' = Flow)
<1>1. CASE Simplify
  BY <1>1, SimplifyFlow
<1>2. CASE ~Simplify
  <2>1. CASE Merge
    <3>1. Flow' = Flow
      BY <2>1, MergeFlow
    <3>2. stage # "constants" /\ stage' # "constants" /\ function' = function
      BY <2>1 DEF Merge, Advance
    <3> QED BY <3>1, <3>2 DEF FlowInv, EdgesOf, Never
  <2>2. CASE Erase
    <3>1. Flow' = Flow
      BY <2>2, EraseFlow
    <3>2. stage # "constants" /\ stage' = stage /\ function' = function
      BY <2>2 DEF Erase
    <3> QED BY <3>1, <3>2 DEF FlowInv, EdgesOf, Never
  <2>3. CASE Return
    <3>1. Flow' = Flow
      BY <2>3 DEF Return, Flow, Follows, Within, Across
    <3>2. stage # "constants" /\ stage' # "constants" /\ function' = function
      BY <2>3 DEF Return
    <3> QED BY <3>1, <3>2 DEF FlowInv, EdgesOf, Never
  <2>4. CASE UNCHANGED vars
    <3>1. Flow' = Flow
      BY <2>4 DEF vars, Flow, Follows, Within, Across
    <3> QED BY <2>4, <3>1 DEF vars, FlowInv, EdgesOf, Never
  <2> QED BY <1>2, <2>1, <2>2, <2>3, <2>4 DEF Next
<1> QED BY <1>1, <1>2

LEMMA FlowInit == Init => FlowInv /\ Flow = EdgesOf(function)
<1> SUFFICES ASSUME Init PROVE FlowInv /\ Flow = EdgesOf(function)
  OBVIOUS
<1>1. TypeOK
  BY TypeInit
<1>2. \A x, y \in Block : Follows(x, y) <=> y \in Succ(term[x])
  BY <1>1, FlowOfTerminators DEF Init
<1>3. Flow = EdgesOf(function)
  BY <1>2 DEF Flow, EdgesOf, Init
<1>4. \A b \in Block : b \in Int /\ ~(b < 1)
  BY DEF Block
<1> QED BY <1>3, <1>4 DEF Init, FlowInv

LEMMA FlowCorrect == Spec => []FlowInv
<1>1. TypeOK /\ Shape /\ FlowInv /\ [Next]_vars => FlowInv'
  BY FlowStep
<1> QED BY <1>1, FlowInit, ShapeCorrect, PTL DEF Spec

(* The pass implements Paths: each step prunes one edge that is never taken, *)
(* reports the end, or cannot be seen in the paths.                          *)
THEOREM KeepsPathsCorrect == Spec => KeepsPaths
<1>1. Init => P!PathsInit
  <2> SUFFICES ASSUME Init PROVE P!PathsInit
    OBVIOUS
  <2>1. function \in Function /\ Flow = EdgesOf(function)
    BY FlowInit, TypeInit DEF TypeOK
  <2>2. Answer = "running"
    BY DEF Init, Answer
  <2> QED BY <2>1, <2>2 DEF P!PathsInit, P!Function, Function, P!EdgesOf, EdgesOf,
       P!Block, Block, P!Terminator, Terminator, P!Succ, Succ
<1>2. TypeOK /\ Shape /\ FlowInv /\ Untouched /\ [Next]_vars => [P!Prune \/ P!Report]_(P!pathVars)
  <2> SUFFICES ASSUME TypeOK, Shape, FlowInv, Untouched, [Next]_vars
               PROVE  [P!Prune \/ P!Report]_(P!pathVars)
    OBVIOUS
  <2>1. CASE Simplify
    <3>1. Answer = "running" /\ Answer' = "running" /\ function' = function
      BY <2>1 DEF Simplify, Advance, Answer
    <3>2. CASE Constant(term[pos])
      <4>1. PICK e \in Flow \cap Never(function) : Flow' = Flow \ {e}
        BY <2>1, <3>2, SimplifyFlow
      <4> QED BY <3>1, <4>1 DEF P!Prune, P!Never, Never, P!Constant, Constant,
                P!DeadBB, DeadBB, P!Block, Block
    <3>3. CASE ~Constant(term[pos])
      BY <2>1, <3>1, <3>3, SimplifyFlow DEF P!pathVars
    <3> QED BY <3>2, <3>3
  <2>2. CASE Return
    <3>1. Flow' = Flow /\ function' = function /\ Flow = EdgesOf(function) \ Never(function)
      BY <2>2, FlowStep DEF Return, FlowInv, Simplify
    <3>2. Answer = "running" /\ Answer' = IF changed THEN "none" ELSE "all"
      BY <2>2 DEF Return, Answer, TypeOK
    <3>3. ~changed => Flow = EdgesOf(function)
      <4> SUFFICES ASSUME ~changed PROVE Flow = EdgesOf(function)
        OBVIOUS
      <4>1. \A x, y \in Block : Follows(x, y) <=> y \in Succ(function.term[x])
        BY FlowOfTerminators DEF Untouched
      <4> QED BY <4>1 DEF Flow, EdgesOf
    <3>4. P!Report
      BY <3>1, <3>2, <3>3 DEF P!Report, P!EdgesOf, EdgesOf, P!Never, Never, P!Constant,
         Constant, P!DeadBB, DeadBB, P!Block, Block, P!Succ, Succ
    <3> QED BY <3>4
  <2>3. CASE Merge \/ Erase \/ UNCHANGED vars
    <3>1. ~Simplify \/ Flow' = Flow
      BY <2>3 DEF Simplify, Merge, Erase, vars, Flow, Follows, Within, Across
    <3>2. Flow' = Flow
      BY <3>1, FlowStep
    <3>3. Answer' = Answer /\ function' = function
      BY <2>3 DEF Merge, Advance, Erase, vars, Answer
    <3> QED BY <3>2, <3>3 DEF P!pathVars
  <2> QED BY <2>1, <2>2, <2>3 DEF Next
<1> QED
  BY <1>1, <1>2, ShapeCorrect, FlowCorrect, UntouchedCorrect, PTL
     DEF Spec, KeepsPaths, P!PathsSpec

-----------------------------------------------------------------------------
(* PhisKept, with what it needs: a phi that was replaced has no entries left, and *)
(* one that was not has two at least, so that its block is never emptied.         *)
PhiValues ==
  \A b, p \in Block :
    <<p, b>> \in Flow /\ function.phi[b][p] # 0 =>
      function.phi[b][p] = IF folded[b] # 0 THEN folded[b] ELSE phi[b][p]

PhiEntries ==
  \A b, p \in Block : phi[b][p] # 0 =>
    <<p, b>> \in Flow /\ folded[b] = 0 /\ \E q \in Block : q # p /\ phi[b][q] # 0

PhiBlocks == \A b, p \in Block : phi[b][p] # 0 => body[b] # <<>>

PhiInv == PhiValues /\ PhiEntries /\ PhiBlocks

LEMMA PhiInit == Init => PhiInv
<1> SUFFICES ASSUME Init PROVE PhiInv
  OBVIOUS
<1>1. /\ phi = function.phi /\ folded = [b \in Block |-> 0]
      /\ body = [b \in Block |-> <<b>>] /\ WellFormed(function)
      /\ function \in Function
  BY FunctionsAssumption DEF Init
<1>2. Flow = EdgesOf(function)
  BY FlowInit
<1>3. PhiValues
  BY <1>1 DEF PhiValues
<1>4. ASSUME NEW b \in Block, NEW p \in Block, phi[b][p] # 0
      PROVE  <<p, b>> \in Flow /\ \E q \in Block : q # p /\ phi[b][q] # 0
  <2>1. p \in Entries(phi[b])
    BY <1>4 DEF Entries
  <2>2. Entries(phi[b]) = Preds(function.term, b) /\ Entries(phi[b]) # {p}
    BY <1>1, <2>1 DEF WellFormed
  <2>3. <<p, b>> \in Flow
    BY <1>2, <2>1, <2>2 DEF Preds, EdgesOf
  <2>4. PICK q \in Entries(phi[b]) : q # p
    BY <2>1, <2>2
  <2> QED BY <2>3, <2>4 DEF Entries
<1>5. PhiEntries /\ PhiBlocks
  BY <1>1, <1>4 DEF PhiEntries, PhiBlocks
<1> QED BY <1>3, <1>5 DEF PhiInv

(* A branch that is folded takes its entry from the phi of the dead block. *)
LEMMA PhiSimplify ==
  ASSUME TypeOK, Shape, FlowInv, PhiInv, Simplify
  PROVE  PhiInv'
<1>1. function' = function /\ body' = body /\ pos \in Block
  BY DEF Simplify, TypeOK
<1>2. CASE ~Constant(term[pos])
  <2>1. Flow' = Flow /\ phi' = phi /\ folded' = folded
    BY <1>2, SimplifyFlow DEF Simplify
  <2> QED BY <1>1, <2>1 DEF PhiInv, PhiValues, PhiEntries, PhiBlocks
<1>3. CASE Constant(term[pos])
  <2>1. PICK d \in Block : d = DeadBB(term[pos])
    BY <1>1, <1>3, TerminatorFacts DEF TypeOK
  <2>2. Flow' = Flow \ {<<pos, d>>}
    BY <1>3, <2>1, SimplifyFlow
  <2>3. RemovePredecessor(d, pos)
    BY <1>3, <2>1 DEF Simplify
  <2> DEFINE left == [phi[d] EXCEPT ![pos] = 0]
  <2>4. \A p \in Block : left[p] = IF p = pos THEN 0 ELSE phi[d][p]
    BY DEF TypeOK
  <2>5. \/ \E v : /\ \E q \in Block : left[q] = v /\ left[q] # 0
                  /\ \A q \in Block : left[q] # 0 => left[q] = v
                  /\ folded' = [folded EXCEPT ![d] = v]
                  /\ phi' = [phi EXCEPT ![d] = [q \in Block |-> 0]]
        \/ /\ \A q \in Block : left[q] # 0 => \E r \in Block : left[r] # 0 /\ left[r] # left[q]
           /\ phi' = [phi EXCEPT ![d] = left] /\ folded' = folded
    <3> HIDE DEF left
    <3> DEFINE values == {left[q] : q \in Entries(left)}
    <3>1. \/ \E v \in values : /\ values = {v}
                               /\ folded' = [folded EXCEPT ![d] = v]
                               /\ phi' = [phi EXCEPT ![d] = [q \in Block |-> 0]]
          \/ /\ \A v \in values : values # {v}
             /\ phi' = [phi EXCEPT ![d] = left] /\ folded' = folded
      BY <2>3, Zenon DEF RemovePredecessor, left
    <3>2. \A q \in Block : left[q] # 0 => left[q] \in values
      BY DEF Entries
    <3>3. \A v \in values : \E q \in Block : left[q] = v /\ left[q] # 0
      BY DEF Entries
    <3>4. CASE \E v \in values : /\ values = {v}
                                 /\ folded' = [folded EXCEPT ![d] = v]
                                 /\ phi' = [phi EXCEPT ![d] = [q \in Block |-> 0]]
      <4> HIDE DEF values
      <4> QED BY <3>2, <3>3, <3>4
    <3>5. CASE /\ \A v \in values : values # {v}
               /\ phi' = [phi EXCEPT ![d] = left] /\ folded' = folded
      <4> HIDE DEF values
      <4>1. ASSUME NEW q \in Block, left[q] # 0
            PROVE  \E r \in Block : left[r] # 0 /\ left[r] # left[q]
        <5>1. left[q] \in values /\ values # {left[q]}
          BY <4>1, <3>2, <3>5
        <5>2. PICK v \in values : v # left[q]
          BY <5>1
        <5> QED BY <5>2, <3>3
      <4> QED BY <4>1, <3>5
    <3> QED BY <3>1, <3>4, <3>5
  <2> HIDE DEF left
  <2>6. \A b \in Block : b # d => phi'[b] = phi[b] /\ folded'[b] = folded[b]
    BY <2>5 DEF TypeOK
  <2>7. \A b, p \in Block : b # d => (<<p, b>> \in Flow' <=> <<p, b>> \in Flow)
    BY <2>2
  <2>8. \A p \in Block : p # pos => (<<p, d>> \in Flow' <=> <<p, d>> \in Flow)
    BY <2>2
  <2>9. <<pos, d>> \notin Flow'
    BY <2>2
  <2>10. \A b \in Block : b # d => \A p \in Block :
           /\ (<<p, b>> \in Flow' /\ function'.phi[b][p] # 0 =>
                 function'.phi[b][p] = IF folded'[b] # 0 THEN folded'[b] ELSE phi'[b][p])
           /\ (phi'[b][p] # 0 =>
                 <<p, b>> \in Flow' /\ folded'[b] = 0 /\ \E q \in Block : q # p /\ phi'[b][q] # 0)
    BY <1>1, <2>6, <2>7 DEF PhiInv, PhiValues, PhiEntries
  <2>11. CASE \E v : /\ \E q \in Block : left[q] = v /\ left[q] # 0
                     /\ \A q \in Block : left[q] # 0 => left[q] = v
                     /\ folded' = [folded EXCEPT ![d] = v]
                     /\ phi' = [phi EXCEPT ![d] = [q \in Block |-> 0]]
    <3>1. PICK v : /\ \E q \in Block : left[q] = v /\ left[q] # 0
                   /\ \A q \in Block : left[q] # 0 => left[q] = v
                   /\ folded' = [folded EXCEPT ![d] = v]
                   /\ phi' = [phi EXCEPT ![d] = [q \in Block |-> 0]]
      BY <2>11
    <3>2. folded'[d] = v /\ v # 0 /\ \A p \in Block : phi'[d][p] = 0
      BY <3>1 DEF TypeOK
    <3>3. folded[d] = 0
      BY <3>1, <2>4 DEF PhiInv, PhiEntries
    <3>4. ASSUME NEW p \in Block, <<p, d>> \in Flow', function.phi[d][p] # 0
          PROVE  function.phi[d][p] = v
      <4>1. p # pos /\ <<p, d>> \in Flow
        BY <3>4, <2>8, <2>9
      <4>2. function.phi[d][p] = phi[d][p]
        BY <3>3, <3>4, <4>1 DEF PhiInv, PhiValues
      <4> QED BY <4>1, <4>2, <3>1, <3>4, <2>4
    <3>5. PhiValues' /\ PhiEntries'
      BY <1>1, <2>10, <3>2, <3>4 DEF PhiValues, PhiEntries
    <3>6. PhiBlocks'
      BY <1>1, <2>6, <3>2 DEF PhiInv, PhiBlocks
    <3> QED BY <3>5, <3>6 DEF PhiInv
  <2>12. CASE /\ \A q \in Block : left[q] # 0 => \E r \in Block : left[r] # 0 /\ left[r] # left[q]
              /\ phi' = [phi EXCEPT ![d] = left] /\ folded' = folded
    <3>1. \A p \in Block : phi'[d][p] = IF p = pos THEN 0 ELSE phi[d][p]
      BY <2>12, <2>4 DEF TypeOK
    <3>2. \A p \in Block : phi'[d][p] # 0 => \E q \in Block : q # p /\ phi'[d][q] # 0
      BY <2>12, <2>4, <3>1
    <3>3. ASSUME NEW p \in Block, <<p, d>> \in Flow', function.phi[d][p] # 0
          PROVE  function.phi[d][p] = IF folded'[d] # 0 THEN folded'[d] ELSE phi'[d][p]
      <4>1. p # pos /\ <<p, d>> \in Flow
        BY <3>3, <2>8, <2>9
      <4> QED BY <3>1, <3>3, <4>1, <2>12 DEF PhiInv, PhiValues
    <3>4. ASSUME NEW p \in Block, phi'[d][p] # 0
          PROVE  <<p, d>> \in Flow' /\ folded'[d] = 0
      <4>1. p # pos /\ phi[d][p] # 0
        BY <3>1, <3>4
      <4> QED BY <4>1, <2>8, <2>12 DEF PhiInv, PhiEntries
    <3>5. PhiValues' /\ PhiEntries'
      BY <1>1, <2>10, <3>2, <3>3, <3>4 DEF PhiValues, PhiEntries
    <3>6. PhiBlocks'
      BY <1>1, <2>6, <3>1 DEF PhiInv, PhiBlocks
    <3> QED BY <3>5, <3>6 DEF PhiInv
  <2> QED BY <2>5, <2>11, <2>12
<1> QED BY <1>2, <1>3

(* A block with a phi has two predecessors in the paths, so it is not emptied. *)
LEMMA PhiMerge ==
  ASSUME TypeOK, Shape, FlowInv, PhiInv, Merge
  PROVE  PhiInv'
<1>1. Flow' = Flow /\ phi' = phi /\ folded' = folded /\ function' = function
  BY MergeFlow DEF Merge
<1>2. PhiValues' /\ PhiEntries'
  BY <1>1 DEF PhiInv, PhiValues, PhiEntries
<1>3. CASE Merges(pos)
  <2> DEFINE s == term[pos].yes
  <2>1. /\ s \in Block /\ s # pos /\ pos \in Block /\ body[s] # <<>>
        /\ \A b \in Block \ {pos, s} : body'[b] = body[b]
        /\ \A p \in Block : s \in Succ(term[p]) <=> p = pos
    BY <1>3, MergeFacts DEF TypeOK
  <2> HIDE DEF s
  <2>2. body'[pos] # <<>>
    <3>1. body[pos] \in Seq(Block) /\ Len(body[pos]) \in Nat
      BY <2>1 DEF TypeOK
    <3>2. body[term[pos].yes] \in Seq(Block) /\ Len(body[term[pos].yes]) \in Nat
      BY <2>1 DEF TypeOK, s
    <3>3. Len(body[pos]) # 0
      BY <1>3, <3>1, MergeFacts, EmptySeq
    <3>4. Len(body'[pos]) = Len(body[pos]) + Len(body[term[pos].yes])
      BY <1>3, MergeFacts
    <3>5. Len(body'[pos]) # 0
      <4> DEFINE m == Len(body[pos])
                 n == Len(body[term[pos].yes])
      <4>1. m \in Nat /\ n \in Nat /\ m # 0 /\ Len(body'[pos]) = m + n
        BY <3>1, <3>2, <3>3, <3>4
      <4> HIDE DEF m, n
      <4> QED BY <4>1
    <3> QED BY <3>5
  <2>3. ASSUME NEW p \in Block, <<p, s>> \in Flow PROVE p = body[pos][Len(body[pos])]
    <3>1. PICK b \in Block : Within(b, p, s) \/ Across(b, p, s)
      BY <2>3 DEF Flow, Follows
    <3>2. ~Within(b, p, s)
      <4> SUFFICES ASSUME NEW i \in 1..Len(body[b]) - 1, s = body[b][i + 1] PROVE FALSE
        BY DEF Within
      <4>1. Len(body[b]) \in Nat
        BY DEF TypeOK
      <4>2. i + 1 \in 2..Len(body[b])
        BY <4>1
      <4>3. body[body[b][i + 1]] = <<>>
        BY <4>2, MovedCode
      <4> QED BY <4>3, <2>1
    <3>3. PICK t \in Succ(term[b]) : body[t] # <<>> /\ s = body[t][1]
      BY <3>1, <3>2 DEF Across
    <3>4. t \in Block
      BY TerminatorFacts DEF TypeOK
    <3>5. t = s
      BY <3>3, <3>4 DEF Shape, Heads
    <3>6. b = pos
      BY <3>3, <3>5, <2>1
    <3> QED BY <3>1, <3>2, <3>6 DEF Across
  <2>4. \A p \in Block : phi[s][p] = 0
    <3> SUFFICES ASSUME NEW p \in Block, phi[s][p] # 0 PROVE FALSE
      OBVIOUS
    <3>1. PICK q \in Block : q # p /\ phi[s][q] # 0
      BY <2>1 DEF PhiInv, PhiEntries
    <3>2. <<p, s>> \in Flow /\ <<q, s>> \in Flow
      BY <2>1, <3>1 DEF PhiInv, PhiEntries
    <3> QED BY <2>3, <3>1, <3>2
  <2>5. PhiBlocks'
    BY <1>1, <2>1, <2>2, <2>4 DEF PhiInv, PhiBlocks
  <2> QED BY <1>2, <2>5 DEF PhiInv
<1>4. CASE ~Merges(pos)
  <2>1. body' = body
    BY <1>4 DEF Merge
  <2> QED BY <1>1, <1>2, <2>1 DEF PhiInv, PhiBlocks
<1> QED BY <1>3, <1>4

(* Wherever control comes from, a phi has the value it had for this code, or has *)
(* been replaced by it; its entries are for code that leads there, and it is in  *)
(* a block that is not empty.                                                    *)
THEOREM PhisKeptCorrect == Spec => []PhisKept
<1>1. TypeOK /\ Shape /\ FlowInv /\ PhiInv /\ [Next]_vars => PhiInv'
  <2> SUFFICES ASSUME TypeOK, Shape, FlowInv, PhiInv, [Next]_vars PROVE PhiInv'
    OBVIOUS
  <2>1. CASE Simplify
    BY <2>1, PhiSimplify
  <2>2. CASE Merge
    BY <2>2, PhiMerge
  <2>3. CASE Erase \/ Return \/ UNCHANGED vars
    <3>1. ~Simplify \/ Flow' = Flow
      BY <2>3 DEF Simplify, Erase, Return, vars, Flow, Follows, Within, Across
    <3>2. Flow' = Flow
      BY <3>1, FlowStep
    <3>3. phi' = phi /\ folded' = folded /\ function' = function /\ body' = body
      BY <2>3 DEF Erase, Return, vars
    <3> QED BY <3>2, <3>3 DEF PhiInv, PhiValues, PhiEntries, PhiBlocks
  <2> QED BY <2>1, <2>2, <2>3 DEF Next
<1>2. PhiInv => PhisKept
  BY DEF PhiInv, PhiValues, PhiEntries, PhiBlocks, PhisKept
<1> QED
  BY <1>1, <1>2, PhiInit, ShapeCorrect, FlowCorrect, PTL DEF Spec

-----------------------------------------------------------------------------
(* A branch that could be removed is left only where something was merged. *)
Left(b) ==
  \E s \in Block \ {b} : Succ(term[b]) = {s} /\ Preds(term, s) = {b} /\ Len(body[b]) <= 1

LeftInv ==
  stage # "constants" =>
    \A b \in Block : (stage = "merging" /\ b >= pos) \/ ~Left(b)

(* A turn of the merging loop leaves no such branch where there was none. *)
LEMMA LeftMerge ==
  ASSUME TypeOK, Shape, Merge, NEW p \in Block, p = pos
  PROVE  ~Left(p)' /\ \A b \in Block : ~Left(b) => ~Left(b)'
<1>1. CASE Merges(pos)
  <2>1. PICK s \in Block : s = term[p].yes
    BY <1>1, MergeFacts
  <2> DEFINE m == Len(body[p])
             n == Len(body[s])
  <2>2. /\ s # p /\ body[p] # <<>> /\ body[s] # <<>>
        /\ \A b \in Block \ {p, s} : body'[b] = body[b] /\ term'[b] = term[b]
        /\ term'[p] = term[s] /\ term'[s] = None
        /\ Succ(term[p]) = {s}
        /\ \A b \in Block : s \in Succ(term[b]) <=> b = p
    BY <1>1, <2>1, MergeFacts
  <2>3. Len(body'[p]) = m + n
    BY <1>1, <2>1, MergeFacts
  <2>4. m \in Nat \ {0} /\ n \in Nat \ {0}
    <3>1. body[p] \in Seq(Block) /\ body[s] \in Seq(Block)
      BY DEF TypeOK
    <3> QED BY <3>1, <2>2, EmptySeq
  <2> HIDE DEF m, n
  <2>5. ~(Len(body'[p]) <= 1)
    BY <2>3, <2>4
  <2>6. ~Left(p)'
    BY <2>5 DEF Left
  <2>7. ~Left(s)'
    BY <2>2, TerminatorFacts DEF Left
  <2>8. ASSUME NEW b \in Block \ {p, s}, Left(b)' PROVE Left(b)
    <3>1. PICK t \in Block \ {b} :
            Succ(term'[b]) = {t} /\ Preds(term', t) = {b} /\ Len(body'[b]) <= 1
      BY <2>8 DEF Left
    <3>2. Succ(term[b]) = {t} /\ Len(body[b]) <= 1
      BY <2>2, <3>1
    <3>3. \A q \in Block : t \in Succ(term'[q]) <=> q = b
      BY <3>1 DEF Preds
    <3>4. t \notin Succ(term[p]) /\ t \notin Succ(term[s])
      BY <2>2, <3>2, <3>3
    <3>5. \A q \in Block : t \in Succ(term[q]) <=> q = b
      BY <2>2, <3>2, <3>3, <3>4
    <3>6. Preds(term, t) = {b}
      BY <3>5 DEF Preds
    <3> QED BY <3>2, <3>6 DEF Left
  <2> QED BY <2>6, <2>7, <2>8
<1>2. CASE ~Merges(pos)
  <2>1. term' = term /\ body' = body
    BY <1>2 DEF Merge
  <2>2. ~Left(p)
    <3> SUFFICES ASSUME NEW s \in Block \ {p}, Succ(term[p]) = {s}, Preds(term, s) = {p}
                 PROVE  FALSE
      BY DEF Left
    <3>1. term[p].kind = "br" /\ term[p].yes = s
      BY TerminatorFacts DEF TypeOK
    <3> QED BY <1>2, <3>1 DEF Merges
  <2> QED BY <2>1, <2>2 DEF Left
<1> QED BY <1>1, <1>2

(* When the pass returns, a branch that it could remove is left only in a block *)
(* that something has been merged into.                                         *)
THEOREM MergesEnoughCorrect == Spec => []MergesEnough
<1>1. Init => LeftInv
  BY DEF Init, LeftInv
<1>2. TypeOK /\ Shape /\ LeftInv /\ [Next]_vars => LeftInv'
  <2> SUFFICES ASSUME TypeOK, Shape, LeftInv, [Next]_vars PROVE LeftInv'
    OBVIOUS
  <2>0. pos \in Block /\ N \in Nat /\ \A b \in Block : b \in 1..N
    BY FunctionsAssumption DEF TypeOK, Block
  <2>1. CASE Simplify
    <3>1. stage' = "constants" \/ (stage' = "merging" /\ pos' = 1)
      <4>1. stage = "constants" /\ Advance("merging")
        BY <2>1 DEF Simplify
      <4>2. CASE pos = N
        BY <4>1, <4>2 DEF Advance
      <4>3. CASE pos # N
        BY <4>1, <4>3 DEF Advance
      <4> QED BY <4>2, <4>3
    <3>2. \A b \in Block : b >= 1
      BY <2>0
    <3> QED BY <3>1, <3>2 DEF LeftInv
  <2>2. CASE Merge
    <3>1. PICK p \in Block : p = pos
      BY <2>0
    <3>2. ~Left(p)' /\ \A b \in Block : ~Left(b) => ~Left(b)'
      BY <2>2, <3>1, LeftMerge
    <3>3. \A b \in Block : b >= p \/ ~Left(b)
      BY <2>2, <3>1 DEF Merge, LeftInv
    <3>4. \A b \in Block : b > p \/ ~Left(b)'
      <4> TAKE b \in Block
      <4>1. CASE b = p
        BY <4>1, <3>2
      <4>2. CASE b # p
        <5>1. b \in Int /\ p \in Int
          BY DEF Block
        <5> QED BY <4>2, <5>1, <3>2, <3>3
      <4> QED BY <4>1, <4>2
    <3>5. CASE p = N
      <4>1. \A b \in Block : ~(b > p)
        BY <3>5, <2>0
      <4> QED BY <3>4, <4>1 DEF LeftInv
    <3>6. CASE p # N
      <4>1. stage' = "merging" /\ pos' = p + 1
        BY <2>2, <3>1, <3>6 DEF Merge, Advance
      <4>2. \A b \in Block : b > p => b >= pos'
        <5>1. \A b \in Block : b \in Int /\ p \in Int
          BY DEF Block
        <5> QED BY <4>1, <5>1
      <4> QED BY <3>4, <4>1, <4>2 DEF LeftInv
    <3> QED BY <3>5, <3>6
  <2>3. CASE Erase \/ Return
    BY <2>3 DEF Erase, Return, LeftInv, Left
  <2>4. CASE UNCHANGED vars
    BY <2>4 DEF vars, LeftInv, Left
  <2> QED BY <2>1, <2>2, <2>3, <2>4 DEF Next
<1>3. TypeOK /\ LeftInv => MergesEnough
  <2> SUFFICES ASSUME TypeOK, LeftInv, stage = "returned",
                      NEW b \in Block, NEW s \in Block \ {b},
                      Succ(term[b]) = {s}, Preds(term, s) = {b}
               PROVE  Len(body[b]) > 1
    BY DEF MergesEnough
  <2>1. Len(body[b]) \in Nat
    BY DEF TypeOK
  <2>2. ~(Len(body[b]) <= 1)
    BY DEF LeftInv, Left
  <2> QED BY <2>1, <2>2
<1> QED
  BY <1>1, <1>2, <1>3, ShapeCorrect, PTL DEF Spec
=============================================================================
