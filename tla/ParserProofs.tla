---------------------------- MODULE ParserProofs ----------------------------
(***************************************************************************)
(* Proofs about the parser, for token streams of any length: its calls     *)
(* always fit together, every action lowers the work that is left, without *)
(* an error every token is kept and every operator has the operands that   *)
(* precedence and brackets give it, and there is an error for just those   *)
(* token streams that the grammar does not derive.                         *)
(***************************************************************************)
EXTENDS ParserProps, CommonFacts

-----------------------------------------------------------------------------
Frames  == [at : Labels, node : Nodes, op : 0..Len(tokens), prec : 0..Len(tokens) + 21]
Results == [is : {"none", "node", "null"}, node : Nodes]

(* The calls that a call makes, or goes on as *)
Expressions == {"Expr", "Lhs", "Assign", "Binary", "Rhs", "Tighter"}
Primaries   == {"Primary", "Paren", "Args"}
Statements  == {"Stmt", "Return", "ExprStmt", "Declared", "Initializer", "BadStmt",
                "Condition", "Then", "Else"}
Callees(at) ==
  CASE at = "Program" -> {"Function", "Params", "Body"}
    [] at = "Block"   -> Statements
    [] at \in {"Body", "Then", "Else"} -> {"Block"}
    [] at \in {"Return", "ExprStmt", "Initializer", "Condition", "Assign", "Paren", "Args"} ->
         Expressions
    [] at \in {"Lhs", "Rhs"} -> Primaries
    [] at = "Tighter" -> {"Binary", "Rhs", "Tighter"}
    [] OTHER -> {}

Starters == {"Program", "Function", "Params", "Block", "Stmt", "Declared", "BadStmt",
             "Expr", "Binary", "Primary", "Args"}

(* Where the callee of f begins, or began, if that is start *)
Follows(f, start) ==
  /\ f.at = "Lhs" => start = f.node.first
  /\ f.at = "Paren" => start = f.node.first + 1
  /\ f.at \in {"Rhs", "Tighter"} => f.op # 0 /\ start = f.op + 1
  /\ f.at = "Args" => f.prec < start /\ f.op = f.node.first
  /\ IF f.at \in {"Lhs", "ExprStmt"} THEN f.node.first <= start ELSE f.node.first < start

(* f waits for g *)
Waits(f, g) ==
  /\ g.at \in Callees(f.at)
  /\ f.at # "Program" => f.node.first # 0
  /\ Follows(f, g.node.first)
  /\ f.at = "Tighter" => g.prec = Precedence(Kind(f.op)) + 1

Waiting == {fg \in Frames \X Frames : Waits(fg[1], fg[2])}

(* The innermost call f when the last one returned r and tokens[p] is next *)
Innermost(f, r, p) ==
  /\ f.at # "Program" => f.node.first # 0
  /\ r.is = "none" =>
       /\ f.at \in Starters
       /\ IF f.at \in {"Function", "Stmt", "Expr", "Primary"} THEN f.node.first = p
                                                              ELSE f.node.first < p
       /\ f.at = "Function" => Kind(p) = "func"
       /\ f.at = "Args" => f.op = f.node.first /\ f.prec < p
  /\ r.is = "node" =>
       /\ Callees(f.at) # {} /\ r.node.first # 0 /\ r.node.first < p
       /\ Follows(f, r.node.first)
  /\ r.is = "null" =>
       /\ Callees(f.at) # {}
       /\ IF f.at \in {"Lhs", "ExprStmt"} THEN f.node.first <= p ELSE f.node.first < p
       /\ f.at = "Args" => f.op = f.node.first /\ f.prec < p

(* The calls under way fit together. *)
Shape ==
  /\ tokens \in Seq(Kinds) /\ pos \in Places
  /\ stack \in Seq(Frames) /\ ret \in Results
  /\ Linked(stack, Waiting)
  /\ stack # <<>> => stack[1].at = "Program" /\ Innermost(Top, ret, pos)

-----------------------------------------------------------------------------
(* What the innermost call may do *)
Advances == UNCHANGED tokens /\ pos' \in pos..Len(tokens) + 1

LEMMA InnerFacts ==
  ASSUME Shape, stack # <<>>
  PROVE  /\ Top \in Frames
         /\ Front(stack) \in Seq(Frames) /\ Linked(Front(stack), Waiting)
         /\ Top.at # "Program" =>
              /\ Front(stack) # <<>> /\ Last(Front(stack)) \in Frames
              /\ Waits(Last(Front(stack)), Top)
              /\ Front(stack)[1] = stack[1]
         /\ Top.at = "Program" => Len(stack) = 1
<1>1. /\ Top \in Frames /\ Top = stack[Len(stack)]
      /\ Front(stack) \in Seq(Frames) /\ Len(stack) \in Nat \ {0}
      /\ Front(stack) = <<>> <=> Len(stack) = 1
      /\ \A i \in 1..Len(stack) - 1 : Front(stack)[i] = stack[i]
  BY FrontFacts DEF Shape, Top
<1>2. /\ Linked(Front(stack), Waiting)
      /\ Front(stack) # <<>> => <<Last(Front(stack)), Top>> \in Waiting
  BY LinkedFront DEF Shape, Top
<1>3. ASSUME Top.at # "Program" PROVE Front(stack) # <<>>
  BY <1>1, <1>3 DEF Shape
<1>4. ASSUME Front(stack) # <<>> PROVE Top.at # "Program"
  BY <1>2, <1>4 DEF Waiting, Waits, Callees, Expressions, Primaries, Statements
<1>5. ASSUME Top.at # "Program" PROVE Front(stack)[1] = stack[1]
  <2>1. Len(stack) \in Nat \ {0} /\ Len(stack) # 1
    BY <1>1, <1>3, <1>5, Zenon
  <2>2. \A n \in Nat \ {0} : n # 1 => 1 \in 1..n - 1
    OBVIOUS
  <2>3. 1 \in 1..Len(stack) - 1
    BY <2>1, <2>2, Zenon
  <2> QED
    BY <1>1, <2>3, Zenon
<1>6. ASSUME Front(stack) # <<>>
      PROVE  Last(Front(stack)) \in Frames /\ Waits(Last(Front(stack)), Top)
  BY <1>1, <1>2, <1>6, FrontFacts DEF Waiting
<1>7. ASSUME Top.at = "Program" PROVE Len(stack) = 1
  BY <1>1, <1>4, <1>7
<1> QED
  BY <1>1, <1>2, <1>3, <1>4, <1>5, <1>6, <1>7

LEMMA Unprimed ==
  ASSUME UNCHANGED tokens
  PROVE  /\ Waiting' = Waiting /\ Frames' = Frames /\ Results' = Results /\ Places' = Places
         /\ Innermost(Top, ret, pos)' <=> Innermost(Top', ret', pos')
<1>1. Frames' = Frames /\ Results' = Results /\ Places' = Places
  BY DEF Frames, Results, Nodes, Places
<1>2. ASSUME NEW f, NEW g PROVE Waits(f, g)' <=> Waits(f, g)
  BY DEF Waits, Follows, Kind
<1>3. Waiting' = Waiting
  BY <1>1, <1>2 DEF Waiting
<1>4. Innermost(Top, ret, pos)' <=> Innermost(Top', ret', pos')
  BY DEF Innermost, Follows, Kind
<1> QED
  BY <1>1, <1>3, <1>4

LEMMA Pushed ==
  ASSUME Shape, Advances, ret' \in Results,
         stack' \in Seq(Frames), Linked(stack', Waiting),
         stack' # <<>> => stack'[1].at = "Program" /\ Innermost(Last(stack'), ret', pos')
  PROVE  Shape'
<1>1. /\ Waiting' = Waiting /\ Frames' = Frames /\ Results' = Results /\ Places' = Places
      /\ stack' # <<>> => Innermost(Top, ret, pos)'
  BY Unprimed DEF Advances, Top
<1>2. pos' \in Places' /\ tokens' \in Seq(Kinds)
  BY <1>1 DEF Advances, Shape, Places
<1>3. Linked(stack, Waiting)'
  BY <1>1 DEF Linked
<1> QED
  BY <1>1, <1>2, <1>3 DEF Shape

LEMMA NothingFacts == ASSUME Shape PROVE Nothing \in Results /\ Nothing.is = "none"
BY DEF Nothing, Returned, Node, Results, Nodes, Shape

LEMMA BecomeShape ==
  ASSUME Shape, stack # <<>>, Top.at # "Program", Advances,
         NEW f \in Frames, Become(f),
         \A u \in Frames : Waits(u, Top) => Waits(u, f),
         Innermost(f, Nothing, pos')
  PROVE  Shape'
<1>1. /\ Front(stack) \in Seq(Frames) /\ Linked(Front(stack), Waiting)
      /\ Front(stack) # <<>> /\ <<Last(Front(stack)), f>> \in Waiting
      /\ Front(stack)[1].at = "Program"
  BY InnerFacts DEF Waiting, Shape
<1>2. stack' = Append(Front(stack), f) /\ ret' = Nothing
  BY DEF Become
<1>3. /\ stack' \in Seq(Frames) /\ Last(stack') = f /\ stack'[1].at = "Program"
      /\ Linked(stack', Waiting)
  <2>1. Len(Front(stack)) \in Nat \ {0}
    BY <1>1, EmptySeq, LenProperties
  <2> QED
    BY <1>1, <1>2, <2>1, PushFacts, LinkedPush
<1> QED
  BY <1>1, <1>2, <1>3, NothingFacts, Pushed

LEMMA CallIs ==
  ASSUME Shape, stack # <<>>, NEW f, NEW g, Call(f, g)
  PROVE  stack' = Append(Append(Front(stack), f), g) /\ ret' = Nothing
<1> DEFINE S == Frames \cup {f, g}
           below == Append(Front(stack), f)
<1>1. /\ f \in S /\ g \in S /\ Frames \subseteq S
  OBVIOUS
<1>2. Front(stack) \in Seq(Frames)
  BY FrontFacts DEF Shape
<1> HIDE DEF S
<1>3. Front(stack) \in Seq(S)
  BY <1>1, <1>2, SeqMonotonic
<1>4. below \in Seq(S)
  BY <1>1, <1>3, PushFacts
<1>5. /\ <<f, g>> = Append(<<f>>, g) /\ <<f>> \in Seq(S)
      /\ Front(stack) \o <<f>> = below
  BY <1>1, <1>3, AppendIsConcat
<1>6. Append(below, g) = below \o <<g>> /\ <<g>> \in Seq(S)
  BY <1>1, <1>4, AppendIsConcat
<1>7. (Front(stack) \o <<f>>) \o <<g>> = Front(stack) \o (<<f>> \o <<g>>)
  BY <1>3, <1>5, <1>6, ConcatAssociative
<1>8. <<f>> \o <<g>> = <<f, g>>
  BY <1>1, <1>5, AppendIsConcat
<1> QED
  BY <1>5, <1>6, <1>7, <1>8, Zenon DEF Call

LEMMA CallShape ==
  ASSUME Shape, stack # <<>>, Top.at # "Program", Advances,
         NEW f \in Frames, NEW g \in Frames, Call(f, g),
         \A u \in Frames : Waits(u, Top) => Waits(u, f),
         Waits(f, g), Innermost(g, Nothing, pos')
  PROVE  Shape'
<1> DEFINE below == Append(Front(stack), f)
<1>1. /\ Front(stack) \in Seq(Frames) /\ Linked(Front(stack), Waiting)
      /\ Front(stack) # <<>> /\ <<Last(Front(stack)), f>> \in Waiting
      /\ Front(stack)[1].at = "Program"
  BY InnerFacts DEF Waiting, Shape
<1>2. /\ below \in Seq(Frames) /\ below # <<>> /\ Last(below) = f
      /\ below[1].at = "Program" /\ Linked(below, Waiting)
  <2>1. Len(Front(stack)) \in Nat \ {0}
    BY <1>1, EmptySeq, LenProperties
  <2> QED
    BY <1>1, <2>1, PushFacts, LinkedPush
<1>3. stack' = Append(below, g) /\ ret' = Nothing
  BY CallIs
<1>4. <<f, g>> \in Waiting
  BY DEF Waiting
<1> HIDE DEF below
<1>5. /\ stack' \in Seq(Frames) /\ Last(stack') = g /\ stack'[1].at = "Program"
      /\ Linked(stack', Waiting)
  <2>1. Len(below) \in Nat \ {0}
    BY <1>2, EmptySeq, LenProperties
  <2> QED
    BY <1>2, <1>3, <1>4, <2>1, PushFacts, LinkedPush
<1> QED
  BY <1>3, <1>5, NothingFacts, Pushed

LEMMA ReturnShape ==
  ASSUME Shape, stack # <<>>, Top.at # "Program", Advances,
         stack' = Front(stack), NEW r \in Results, ret' = r,
         \A u \in Frames : Waits(u, Top) => Innermost(u, r, pos')
  PROVE  Shape'
<1>1. /\ stack' \in Seq(Frames) /\ Linked(stack', Waiting)
      /\ stack' # <<>> /\ Innermost(Last(stack'), r, pos') /\ stack'[1].at = "Program"
  BY InnerFacts DEF Shape
<1> QED
  BY <1>1, Pushed

-----------------------------------------------------------------------------
(* Tokens *)
LEMMA KindFacts ==
  ASSUME Shape
  PROVE  /\ Len(tokens) \in Nat
         /\ \A p \in 1..Len(tokens) : tokens[p] \in Kinds /\ Kind(p) = tokens[p]
         /\ \A p \in Nat \ {0} : Kind(p) # "eof" => p \in 1..Len(tokens)
<1>1. Len(tokens) \in Nat /\ \A p \in 1..Len(tokens) : tokens[p] \in Kinds
  BY LenProperties, ElementOfSeq DEF Shape
<1> QED
  BY <1>1 DEF Kind

LEMMA UntilFacts ==
  ASSUME Shape, NEW p \in Nat \ {0}, p <= Len(tokens) + 1, NEW kinds
  PROVE  /\ Until(p, kinds) \in p..Len(tokens) + 1
         /\ Until(p, kinds) <= Len(tokens) => tokens[Until(p, kinds)] \in kinds
<1> DEFINE T == {q \in p..Len(tokens) : tokens[q] \in kinds} \cup {Len(tokens) + 1}
<1>1. T \in SUBSET Nat /\ T # {} /\ T \subseteq p..Len(tokens) + 1
  BY KindFacts
<1>2. Min(T) \in T
  BY <1>1, MinFacts
<1>3. Min(T) \in p..Len(tokens) + 1
  BY <1>1, <1>2
<1>4. Min(T) <= Len(tokens) => tokens[Min(T)] \in kinds
  BY <1>2, KindFacts
<1> QED
  BY <1>3, <1>4 DEF Until

LEMMA MatchedFacts ==
  ASSUME NEW p \in Nat, NEW expected, Len(expected) \in Nat
  PROVE  /\ Matched(p, expected) \in 0..Len(expected)
         /\ \A i \in 1..Matched(p, expected) : Kind(p + i - 1) \in expected[i]
         /\ \A n \in 0..Len(expected) :
              (\A i \in 1..n : Kind(p + i - 1) \in expected[i]) => n <= Matched(p, expected)
<1> DEFINE T == {n \in 0..Len(expected) : \A i \in 1..n : Kind(p + i - 1) \in expected[i]}
<1>1. T \in SUBSET Nat /\ 0 \in T /\ \A n \in T : n <= Len(expected)
  OBVIOUS
<1>2. Max(T) \in T /\ \A n \in T : n <= Max(T)
  BY <1>1, MaxFacts
<1>3. Matched(p, expected) = Max(T)
  BY DEF Matched
<1> QED
  BY <1>2, <1>3

(* A signature's parts, as far as they match *)
LEMMA Match3 ==
  ASSUME Shape, NEW p \in Places,
         NEW E \in {Function, Parameter, Signature}
  PROVE  /\ Matched(p, E) \in 0..3 /\ p + Matched(p, E) \in Places
         /\ Matched(p, E) >= 1 => Kind(p) \in E[1] /\ p <= Len(tokens)
         /\ Matched(p, E) >= 2 => Kind(p + 1) \in E[2]
         /\ Matched(p, E) >= 3 => Kind(p + 2) \in E[3]
         /\ Kind(p) \in E[1] => Matched(p, E) >= 1
<1> DEFINE n == Matched(p, E)
<1>1. Len(E) = 3 /\ E[1] \subseteq Kinds /\ E[2] \subseteq Kinds /\ E[3] \subseteq Kinds
  BY DEF Function, Parameter, Signature, Kinds, TypeName, Keyword, Brackets
<1>2. p \in Nat \ {0} /\ p <= Len(tokens) + 1 /\ "eof" \notin Kinds
  BY KindFacts DEF Places, Kinds, Atoms, TypeName, Keyword, Operator, Brackets
<1>3. /\ n \in 0..3 /\ \A i \in 1..n : Kind(p + i - 1) \in E[i]
      /\ (\A i \in 1..1 : Kind(p + i - 1) \in E[i]) => 1 <= n
  <2>1. p \in Nat /\ Len(E) \in Nat
    BY <1>1, <1>2
  <2>2. /\ n \in 0..Len(E) /\ \A i \in 1..n : Kind(p + i - 1) \in E[i]
        /\ \A m \in 0..Len(E) : (\A i \in 1..m : Kind(p + i - 1) \in E[i]) => m <= n
    BY <2>1, MatchedFacts, Zenon
  <2> HIDE DEF n
  <2>3. 1 \in 0..Len(E)
    BY <1>1
  <2>4. (\A i \in 1..1 : Kind(p + i - 1) \in E[i]) => 1 <= n
    BY <2>2, <2>3, Zenon
  <2> QED
    BY <1>1, <2>2, <2>4
<1> HIDE DEF n
<1>4. /\ n >= 1 => Kind(p) \in E[1]
      /\ n >= 2 => Kind(p + 1) \in E[2]
      /\ n >= 3 => Kind(p + 2) \in E[3]
  <2>1. n >= 1 => Kind(p + 1 - 1) \in E[1]
    BY <1>3
  <2>2. n >= 2 => Kind(p + 2 - 1) \in E[2]
    BY <1>3
  <2>3. n >= 3 => Kind(p + 3 - 1) \in E[3]
    BY <1>3
  <2>4. p + 1 - 1 = p /\ p + 2 - 1 = p + 1 /\ p + 3 - 1 = p + 2
    BY <1>2
  <2> QED
    BY <2>1, <2>2, <2>3, <2>4
<1>5. Kind(p) \in E[1] => n >= 1
  <2>1. \A i \in 1..1 : i = 1 /\ p + i - 1 = p
    BY <1>2
  <2> QED
    BY <1>3, <2>1
<1>6. p + n <= Len(tokens) + 1 /\ (n >= 1 => p <= Len(tokens))
  <2>1. /\ n >= 1 => p <= Len(tokens)
        /\ n >= 2 => p + 1 <= Len(tokens)
        /\ n >= 3 => p + 2 <= Len(tokens)
    BY <1>1, <1>2, <1>4, KindFacts
  <2> QED
    BY <1>2, <1>3, <2>1, KindFacts
<1> QED
  BY <1>2, <1>3, <1>4, <1>5, <1>6, KindFacts DEF n, Places

Opening == << {"rpar"}, {"lbrace"} >>

LEMMA Match2 ==
  ASSUME Shape, NEW p \in Places
  PROVE  /\ Matched(p, Opening) \in 0..2 /\ p + Matched(p, Opening) \in Places
         /\ Matched(p, Opening) >= 1 => Kind(p) = "rpar" /\ p <= Len(tokens)
         /\ Matched(p, Opening) >= 2 => Kind(p + 1) = "lbrace" /\ p + 1 <= Len(tokens)
<1> DEFINE n == Matched(p, Opening)
<1>1. p \in Nat \ {0} /\ p <= Len(tokens) + 1
  BY KindFacts DEF Places
<1>2. n \in 0..2 /\ \A i \in 1..n : Kind(p + i - 1) \in Opening[i]
  <2>1. p \in Nat /\ Len(Opening) = 2 /\ Len(Opening) \in Nat
    BY <1>1 DEF Opening
  <2>2. n \in 0..Len(Opening) /\ \A i \in 1..n : Kind(p + i - 1) \in Opening[i]
    BY <2>1, MatchedFacts, Zenon
  <2> HIDE DEF n
  <2> QED
    BY <2>1, <2>2
<1> HIDE DEF n
<1>3. n >= 1 => Kind(p + 1 - 1) \in Opening[1]
  BY <1>2
<1>4. n >= 2 => Kind(p + 2 - 1) \in Opening[2]
  BY <1>2
<1>5. p + 1 - 1 = p /\ p + 2 - 1 = p + 1 /\ Opening[1] = {"rpar"} /\ Opening[2] = {"lbrace"}
  BY <1>1 DEF Opening
<1>6. (n >= 1 => Kind(p) = "rpar") /\ (n >= 2 => Kind(p + 1) = "lbrace")
  BY <1>3, <1>4, <1>5
<1>7. (n >= 1 => p <= Len(tokens)) /\ (n >= 2 => p + 1 <= Len(tokens))
  BY <1>1, <1>6, KindFacts
<1> QED
  BY <1>1, <1>2, <1>6, <1>7, KindFacts DEF n, Places

-----------------------------------------------------------------------------
(* What every action is made of *)
LEMMA PlaceFacts ==
  ASSUME Shape
  PROVE  /\ pos \in Nat \ {0} /\ Len(tokens) \in Nat /\ pos <= Len(tokens) + 1
         /\ \A f \in Frames : /\ f.at \in Labels /\ f.node \in Nodes /\ f.op \in 0..Len(tokens)
                              /\ f.prec \in Nat /\ f.node.first \in 0..Len(tokens) + 1
                              /\ f.node.keeps \subseteq 1..Len(tokens)
         /\ ret.node \in Nodes /\ ret.is \in {"none", "node", "null"}
         /\ ret.node.first \in 0..Len(tokens) + 1 /\ ret.node.keeps \subseteq 1..Len(tokens)
BY KindFacts DEF Shape, Places, Frames, Results, Nodes

LEMMA NodeFacts ==
  ASSUME NEW first \in 0..Len(tokens) + 1, NEW ref \in BOOLEAN, NEW keeps,
         keeps \subseteq 1..Len(tokens)
  PROVE  /\ Node(first, ref, keeps) \in Nodes
         /\ Node(first, ref, keeps).first = first /\ Node(first, ref, keeps).keeps = keeps
BY DEF Node, Nodes

LEMMA KeepsFacts ==
  ASSUME NEW n \in Nodes, NEW more, more \subseteq 1..Len(tokens)
  PROVE  /\ Keeps(n, more) \in Nodes /\ Keeps(n, more).first = n.first
         /\ Keeps(n, more).keeps = n.keeps \cup more
BY DEF Keeps, Node, Nodes

LEMMA FrameFacts ==
  ASSUME NEW at, NEW node, NEW op, NEW prec
  PROVE  /\ Frame(at, node, op, prec).at = at /\ Frame(at, node, op, prec).node = node
         /\ Frame(at, node, op, prec).op = op /\ Frame(at, node, op, prec).prec = prec
         /\ Plain(at, node).at = at /\ Plain(at, node).node = node
         /\ Plain(at, node).op = 0 /\ Plain(at, node).prec = 0
         /\ at \in Labels /\ node \in Nodes /\ Len(tokens) \in Nat => Plain(at, node) \in Frames
         /\ at \in Labels /\ node \in Nodes /\ op \in 0..Len(tokens)
              /\ prec \in 0..Len(tokens) + 21 => Frame(at, node, op, prec) \in Frames
BY DEF Frame, Plain, Frames

LEMMA CallsFacts ==
  ASSUME Shape, NEW at \in Labels, NEW p \in Places
  PROVE  /\ Calls(at, p) \in Frames /\ Calls(at, p).at = at /\ Calls(at, p).node.first = p
         /\ Calls(at, p).op = 0 /\ Calls(at, p).prec = 0 /\ Calls(at, p).node.keeps = {}
<1> DEFINE n == Node(p, FALSE, {})
<1>1. p \in 0..Len(tokens) + 1 /\ Len(tokens) \in Nat
  BY PlaceFacts DEF Places
<1>2. n \in Nodes /\ n.first = p /\ n.keeps = {}
  BY <1>1 DEF Node, Nodes
<1> HIDE DEF n
<1>3. /\ Plain(at, n) \in Frames /\ Plain(at, n).at = at /\ Plain(at, n).node = n
      /\ Plain(at, n).op = 0 /\ Plain(at, n).prec = 0
  BY <1>1, <1>2, FrameFacts
<1>4. Calls(at, p) = Plain(at, n)
  BY DEF Calls, n
<1> QED
  BY <1>2, <1>3, <1>4

LEMMA Grown ==
  ASSUME Shape, NEW at \in Labels, NEW n \in Nodes, NEW more, more \subseteq 1..Len(tokens)
  PROVE  LET f == Plain(at, Keeps(n, more))
         IN  /\ f \in Frames /\ f.at = at /\ f.node.first = n.first
             /\ f.node.keeps = n.keeps \cup more /\ f.op = 0 /\ f.prec = 0
<1> DEFINE k == Keeps(n, more)
<1>1. k \in Nodes /\ k.first = n.first /\ k.keeps = n.keeps \cup more
  BY KeepsFacts
<1> HIDE DEF k
<1>2. /\ Plain(at, k) \in Frames /\ Plain(at, k).at = at /\ Plain(at, k).node = k
      /\ Plain(at, k).op = 0 /\ Plain(at, k).prec = 0
  BY <1>1, PlaceFacts DEF Plain, Frame, Frames
<1> QED
  BY <1>1, <1>2 DEF k

LEMMA ToFacts ==
  ASSUME Shape, UNCHANGED tokens, NEW p \in Int, pos <= p, To(p)
  PROVE  /\ Advances /\ pos' \in Nat \ {0} /\ pos <= pos' /\ pos' <= Len(tokens) + 1
         /\ p <= Len(tokens) + 1 => pos' = p
BY PlaceFacts DEF To, Advances

(* f takes the place of the innermost call *)
Replaces(f) ==
  /\ f \in Frames /\ f.node.first = Top.node.first
  /\ \A at \in Labels : Top.at \in Callees(at) => f.at \in Callees(at)
  /\ Top.at \in {"Binary", "Rhs", "Tighter"} => f.prec = Top.prec

LEMMA Replaced ==
  ASSUME Shape, NEW f, Replaces(f), NEW u \in Frames, Waits(u, Top)
  PROVE  Waits(u, f)
<1>1. f.at \in Callees(u.at) /\ f.node.first = Top.node.first /\ u.at \in Labels
  BY PlaceFacts DEF Replaces, Waits
<1>2. u.at = "Tighter" => f.prec = Top.prec
  BY DEF Replaces, Waits, Callees
<1> QED
  BY <1>1, <1>2 DEF Waits

LEMMA Becomes ==
  ASSUME Shape, stack # <<>>, Top.at # "Program", Advances, NEW f, Replaces(f), Become(f),
         Innermost(f, Nothing, pos')
  PROVE  Shape'
BY Replaced, BecomeShape DEF Replaces

LEMMA CallsOn ==
  ASSUME Shape, stack # <<>>, Top.at # "Program", Advances, NEW f, Replaces(f),
         NEW g \in Frames, Call(f, g), Waits(f, g), Innermost(g, Nothing, pos')
  PROVE  Shape'
BY Replaced, CallShape DEF Replaces

(* What the innermost call is known to be at *)
LEMMA TopFacts ==
  ASSUME Shape, stack # <<>>
  PROVE  /\ Top \in Frames /\ Innermost(Top, ret, pos) /\ Top.node.first <= pos
         /\ Top.node \in Nodes /\ Top.at \in Labels /\ Top.op \in 0..Len(tokens) /\ Top.prec \in Nat
         /\ Top.node.first \in 0..Len(tokens) + 1 /\ Top.node.keeps \subseteq 1..Len(tokens)
         /\ Top.at # "Program" => Top.node.first # 0
         /\ Top.at \notin {"Function", "Stmt", "Expr", "Primary", "Lhs", "ExprStmt"} =>
              Top.node.first < pos
<1>1. Top \in Frames /\ Innermost(Top, ret, pos)
  BY InnerFacts DEF Shape
<1>2. /\ Top.node \in Nodes /\ Top.at \in Labels /\ Top.op \in 0..Len(tokens) /\ Top.prec \in Nat
      /\ Top.node.first \in 0..Len(tokens) + 1 /\ Top.node.keeps \subseteq 1..Len(tokens)
      /\ pos \in Nat \ {0} /\ ret.node.first \in Nat /\ ret.is \in {"none", "node", "null"}
      /\ Len(tokens) \in Nat
  BY <1>1, PlaceFacts
<1>3. /\ Top.node.first <= pos
      /\ Top.at \notin {"Function", "Stmt", "Expr", "Primary", "Lhs", "ExprStmt"} =>
           Top.node.first < pos
  BY <1>1, <1>2 DEF Innermost, Follows
<1> QED
  BY <1>1, <1>2, <1>3 DEF Innermost

LEMMA Nulls ==
  ASSUME Shape, stack # <<>>, Top.at # "Program", Advances, Null
  PROVE  Shape'
<1> DEFINE r == Returned("null", Nothing.node)
<1>1. r \in Results /\ r.is = "null"
  BY NothingFacts DEF Results, Returned
<1> HIDE DEF r
<1>2. ASSUME NEW u \in Frames, Waits(u, Top) PROVE Innermost(u, r, pos')
  <2>1. /\ u.node.first \in Nat /\ u.prec \in Nat /\ Top.node.first \in Nat
        /\ Top.node.first <= pos' /\ pos' \in Nat
    BY PlaceFacts, TopFacts DEF Advances
  <2> QED
    BY <1>1, <1>2, <2>1 DEF Waits, Innermost, Follows
<1> QED
  BY <1>1, <1>2, ReturnShape DEF Null, r

LEMMA Returns ==
  ASSUME Shape, stack # <<>>, Top.at # "Program", Advances, NEW node \in Nodes, Return(node),
         node.first < pos',
         \/ node.first = Top.node.first
         \/ Top.at \in Statements /\ Top.node.first <= node.first
  PROVE  Shape'
<1> DEFINE r == Returned("node", node)
<1>1. r \in Results /\ r.is = "node" /\ r.node = node
  BY DEF Results, Returned
<1> HIDE DEF r
<1>2. ASSUME NEW u \in Frames, Waits(u, Top) PROVE Innermost(u, r, pos')
  <2>1. /\ u.node.first \in Nat /\ u.prec \in Nat /\ Top.node.first \in Nat /\ node.first \in Nat
        /\ Top.node.first # 0
    BY PlaceFacts, TopFacts DEF Nodes
  <2>2. CASE node.first = Top.node.first
    BY <1>1, <1>2, <2>1, <2>2 DEF Waits, Innermost
  <2>3. CASE Top.at \in Statements /\ Top.node.first <= node.first
    <3>1. u.at = "Block"
      BY <1>2, <2>3 DEF Waits, Callees, Statements, Expressions, Primaries
    <3> QED
      BY <1>1, <1>2, <2>1, <2>3, <3>1 DEF Waits, Innermost, Follows, Callees, Statements
  <2> QED
    BY <2>2, <2>3
<1> QED
  BY <1>1, <1>2, ReturnShape DEF Return, r

-----------------------------------------------------------------------------
(* Shape is preserved: one lemma for each action of the parser. *)
LEMMA ProgramShape == ASSUME Shape, Program PROVE Shape'
<1>1. CASE In("Program") /\ Kind(pos) = "eof" /\ stack' = <<>> /\ UNCHANGED <<pos, ret>> /\ Tree
  <2>1. Advances /\ Linked(<<>>, Waiting) /\ <<>> \in Seq(Frames) /\ ret' \in Results
    BY <1>1, PlaceFacts DEF Tree, Advances, Linked, Shape
  <2> QED
    BY <1>1, <2>1, Pushed
<1>2. ASSUME stack # <<>>, Top.at = "Program", Advances, UNCHANGED stack,
             ret' \in Results, ret'.is = "none"
      PROVE  Shape'
  <2>1. Top.node.first \in Nat /\ Top.node.first < pos
    BY <1>2, TopFacts
  <2>2. Innermost(Top, ret', pos')
    BY <1>2, <2>1, PlaceFacts DEF Innermost, Advances, Starters
  <2> QED
    BY <1>2, <2>2, Pushed DEF Shape, Top
<1>3. CASE /\ In("Program") /\ Kind(pos) \notin {"eof", "func"} /\ Error(pos, Until(pos, {"func"}))
           /\ UNCHANGED <<stack, ret>> /\ Tree
  <2>1. Until(pos, {"func"}) \in pos..Len(tokens) + 1
    BY UntilFacts, PlaceFacts
  <2>2. /\ Advances /\ stack # <<>> /\ Top.at = "Program"
        /\ UNCHANGED stack /\ ret' \in Results /\ ret'.is = "none"
    BY <1>3, <2>1, ToFacts, PlaceFacts DEF In, Error, Tree, Shape
  <2> QED
    BY <1>2, <2>2
<1>4. CASE /\ In("Program") /\ Kind(pos) = "func"
           /\ stack' = Append(stack, Calls("Function", pos)) /\ UNCHANGED ret /\ Skip(pos) /\ Tree
  <2> DEFINE g == Calls("Function", pos)
  <2>1. Advances /\ pos' = pos
    BY <1>4, ToFacts, PlaceFacts DEF Skip, Tree
  <2>2. /\ g \in Frames /\ g.at = "Function" /\ g.node.first = pos
    BY CallsFacts DEF Labels, Shape
  <2> HIDE DEF g
  <2>3. Top \in Frames /\ Innermost(Top, ret, pos) /\ Top.at = "Program" /\ ret.is = "none"
    BY <1>4, TopFacts DEF In
  <2>4. Waits(Top, g)
    BY <2>2, <2>3 DEF Waits, Callees, Follows, Innermost
  <2>5. Innermost(g, ret', pos')
    BY <1>4, <2>1, <2>2, <2>3, PlaceFacts DEF Innermost, Starters
  <2>6. /\ stack' \in Seq(Frames) /\ Last(stack') = g /\ stack'[1] = stack[1]
        /\ Linked(stack', Waiting)
    <3>1. Len(stack) \in Nat \ {0} /\ stack \in Seq(Frames) /\ stack' = Append(stack, g)
      BY <1>4, EmptySeq, LenProperties DEF In, Shape, g
    <3>2. <<Last(stack), g>> \in Waiting
      BY <2>2, <2>3, <2>4 DEF Waiting, Top
    <3> QED
      BY <2>2, <3>1, <3>2, PushFacts, LinkedPush DEF Shape
  <2> QED
    BY <1>4, <2>1, <2>5, <2>6, Pushed DEF Shape, In
<1>5. CASE Got("Program") /\ ret' = Nothing /\ UNCHANGED <<tokens, pos, stack>>
  <2>1. /\ Advances /\ stack # <<>> /\ Top.at = "Program"
        /\ UNCHANGED stack /\ ret' \in Results /\ ret'.is = "none"
    BY <1>5, PlaceFacts, NothingFacts DEF Got, Advances
  <2> QED
    BY <1>2, <2>1, Zenon
<1>6. CASE GotNull("Program") /\ ret' = Nothing /\ Skip(Until(pos, {"func"})) /\ UNCHANGED stack /\ Tree
  <2>1. Until(pos, {"func"}) \in pos..Len(tokens) + 1
    BY UntilFacts, PlaceFacts
  <2>2. /\ Advances /\ stack # <<>> /\ Top.at = "Program"
        /\ UNCHANGED stack /\ ret' \in Results /\ ret'.is = "none"
    BY <1>6, <2>1, ToFacts, PlaceFacts, NothingFacts DEF GotNull, Skip, Tree
  <2> QED
    BY <1>2, <2>2, Zenon
<1> QED
  BY <1>1, <1>3, <1>4, <1>5, <1>6 DEF Program

LEMMA FunctionNameShape == ASSUME Shape, FunctionName PROVE Shape'
<1> DEFINE n == Matched(pos, Function)
           f == Plain("Params", Keeps(Top.node, {pos, pos + 1}))
<1>1. /\ stack # <<>> /\ Top.at = "Function" /\ Top \in Frames /\ ret.is = "none"
      /\ Top.node.first = pos /\ pos \in Places /\ UNCHANGED tokens
  BY TopFacts DEF FunctionName, In, Innermost, Tree, Shape
<1>2. n \in 0..3 /\ pos + n \in Places /\ pos + n >= pos
  BY <1>1, Match3, PlaceFacts
<1>3. CASE n < 3
  <2>1. To(pos + n) /\ Null
    BY <1>3 DEF FunctionName, Error
  <2> QED
    BY <1>1, <1>2, <2>1, ToFacts, Nulls, PlaceFacts
<1>4. CASE n = 3
  <2>1. To(pos + 3) /\ Become(f)
    BY <1>4 DEF FunctionName, Skip
  <2>2. pos + 3 \in Places /\ Advances /\ pos' = pos + 3
    BY <1>1, <1>2, <1>4, <2>1, ToFacts, PlaceFacts DEF Places
  <2>3. f \in Frames /\ f.at = "Params" /\ f.node.first = pos
    <3>1. {pos, pos + 1} \subseteq 1..Len(tokens)
      BY <2>2, PlaceFacts DEF Places
    <3> QED
      BY <1>1, <3>1, Grown, TopFacts DEF Labels
  <2> HIDE DEF f
  <2>4. Replaces(f) /\ Innermost(f, Nothing, pos')
    BY <1>1, <2>2, <2>3, NothingFacts, PlaceFacts
       DEF Replaces, Innermost, Callees, Starters, Statements, Expressions, Primaries
  <2> QED
    BY <1>1, <2>1, <2>2, <2>4, Becomes
<1> QED
  BY <1>2, <1>3, <1>4

(* A call that finds tokens[p] next, or just behind it *)
LEMMA Called ==
  ASSUME Shape, NEW at \in {"Block", "Stmt", "Expr", "Primary"}, NEW p \in Places,
         pos' \in Nat, IF at = "Block" THEN p < pos' ELSE p = pos'
  PROVE  /\ Calls(at, p) \in Frames /\ Calls(at, p).at = at /\ Calls(at, p).node.first = p
         /\ Innermost(Calls(at, p), Nothing, pos')
<1> DEFINE g == Calls(at, p)
<1>1. g \in Frames /\ g.at = at /\ g.node.first = p /\ p # 0 /\ p \in Nat
  BY CallsFacts DEF Labels, Places
<1> HIDE DEF g
<1>2. Innermost(g, Nothing, pos')
  BY <1>1, NothingFacts DEF Innermost, Starters
<1> QED
  BY <1>1, <1>2 DEF g

LEMMA ParamsShape == ASSUME Shape, Params PROVE Shape'
<1> DEFINE n == Matched(pos, Parameter)
           f == Plain("Params", Keeps(Top.node, {pos, pos + 2}))
<1>1. /\ stack # <<>> /\ Top.at = "Params" /\ Top \in Frames /\ ret.is = "none"
      /\ Top.node.first < pos /\ Top.node.first # 0 /\ pos \in Places /\ UNCHANGED tokens
      /\ Innermost(Top, ret, pos)
  BY TopFacts DEF Params, In, Tree, Shape
<1>2. n \in 0..3 /\ pos + n \in Places /\ pos + n >= pos
  BY <1>1, Match3, PlaceFacts
<1> DEFINE q == IF n = 3 THEN pos + 3 ELSE Until(pos + n, {"comma", "rpar"})
<1>3. PastComma(q) \in Int /\ pos <= PastComma(q)
  <2>1. q \in pos..Len(tokens) + 1
    BY <1>2, UntilFacts, PlaceFacts DEF Places
  <2> HIDE DEF q
  <2> QED
    BY <2>1, PlaceFacts DEF PastComma
<1> HIDE DEF q
<1>4. To(PastComma(q))
  BY DEF Params, Skip, Error, q
<1>5. Advances /\ pos' \in Nat /\ pos <= pos'
  BY <1>1, <1>3, <1>4, ToFacts
<1>6. CASE n = 3
  <2>1. Become(f)
    BY <1>6 DEF Params
  <2>2. f \in Frames /\ f.at = "Params" /\ f.node.first = Top.node.first
    <3>1. {pos, pos + 2} \subseteq 1..Len(tokens)
      BY <1>2, <1>6, PlaceFacts DEF Places
    <3> QED
      BY <1>1, <3>1, Grown, TopFacts DEF Labels
  <2> HIDE DEF f
  <2>3. Replaces(f) /\ Innermost(f, Nothing, pos')
    BY <1>1, <1>5, <2>2, NothingFacts, TopFacts, PlaceFacts DEF Replaces, Innermost, Starters
  <2> QED
    BY <1>1, <2>1, <1>5, <2>3, Becomes
<1>7. CASE n < 3
  <2>1. UNCHANGED <<stack, ret>>
    BY <1>7 DEF Params
  <2>2. Innermost(Top, ret', pos')
    BY <1>1, <1>5, <2>1, TopFacts, PlaceFacts DEF Innermost
  <2> QED
    BY <1>1, <1>5, <2>1, <2>2, Pushed DEF Shape, Top
<1> QED
  BY <1>2, <1>6, <1>7

LEMMA BodyShape == ASSUME Shape, Body PROVE Shape'
<1>1. CASE /\ In("Params") /\ Kind(pos) \in {"rpar", "eof"} /\ Tree
           /\ LET p == IF Kind(pos) = "rpar" THEN pos + 1 ELSE pos
                  n == Matched(p, Signature)
              IN  IF n < 3 THEN Error(p + n, p + n) /\ Null
                  ELSE /\ Skip(p + 3)
                       /\ Call(Plain("Body", Keeps(Top.node, {p + 1})), Calls("Block", p + 2))
  <2> DEFINE p == IF Kind(pos) = "rpar" THEN pos + 1 ELSE pos
             n == Matched(p, Signature)
             f == Plain("Body", Keeps(Top.node, {p + 1}))
             g == Calls("Block", p + 2)
  <2>1. /\ stack # <<>> /\ Top.at = "Params" /\ ret.is = "none"
        /\ Top.node.first < pos /\ Top.node.first # 0 /\ UNCHANGED tokens
    BY <1>1, TopFacts DEF In, Tree
  <2>2. p \in Places /\ pos <= p
    BY KindFacts, PlaceFacts DEF Places
  <2>3. IF n < 3 THEN To(p + n) /\ Null ELSE To(p + 3) /\ Call(f, g)
    BY <1>1 DEF Error, Skip
  <2> HIDE DEF p
  <2>4. n \in 0..3 /\ p + n \in Places /\ p + n >= pos
    BY <2>2, Match3, PlaceFacts DEF Places
  <2>5. CASE n < 3
    <3>1. To(p + n) /\ Null /\ p + n \in Int
      BY <2>3, <2>4, <2>5 DEF Places
    <3>2. Advances
      BY <2>1, <2>4, <3>1, ToFacts
    <3> QED
      BY <2>1, <3>1, <3>2, Nulls
  <2>6. CASE n = 3
    <3>1. Advances /\ pos' = p + 3 /\ p + 3 <= Len(tokens) + 1
      BY <2>1, <2>3, <2>4, <2>6, ToFacts, PlaceFacts DEF Places
    <3>2. f \in Frames /\ f.at = "Body" /\ f.node.first = Top.node.first
      <4>1. {p + 1} \subseteq 1..Len(tokens)
        BY <3>1, <2>2, PlaceFacts DEF Places
      <4> QED
        BY <4>1, Grown, TopFacts, <2>1 DEF Labels
    <3>3. g \in Frames /\ g.at = "Block" /\ g.node.first = p + 2 /\ Innermost(g, Nothing, pos')
      <4>1. p + 2 \in Places /\ pos' \in Nat /\ p + 2 < pos'
        BY <3>1, <2>2, PlaceFacts DEF Places
      <4> QED
        BY <4>1, Called
    <3> HIDE DEF f, g
    <3>4. Replaces(f)
      BY <2>1, <3>2 DEF Replaces, Callees, Statements, Expressions, Primaries
    <3>5. Waits(f, g)
      BY <2>1, <2>2, <3>2, <3>3, TopFacts, PlaceFacts DEF Waits, Callees, Follows, Places
    <3> QED
      BY <2>1, <2>3, <2>6, <3>1, <3>3, <3>4, <3>5, CallsOn
  <2> QED
    BY <2>4, <2>5, <2>6
<1>2. CASE Got("Body") /\ Return(Keeps(Top.node, ret.node.keeps)) /\ Skip(pos) /\ Tree
  <2> DEFINE node == Keeps(Top.node, ret.node.keeps)
  <2>1. stack # <<>> /\ Top.at = "Body" /\ Top.node.first < pos /\ Advances /\ pos' = pos
    BY <1>2, TopFacts, ToFacts, PlaceFacts DEF Got, Skip, Tree
  <2>2. node \in Nodes /\ node.first = Top.node.first
    BY <2>1, KeepsFacts, TopFacts, PlaceFacts
  <2> QED
    BY <1>2, <2>1, <2>2, Returns
<1>3. CASE GotNull("Body") /\ Null /\ Skip(pos) /\ Tree
  BY <1>3, ToFacts, PlaceFacts, Nulls DEF GotNull, Skip, Tree
<1> QED
  BY <1>1, <1>2, <1>3 DEF Body

LEMMA BlockShape == ASSUME Shape, Block PROVE Shape'
<1>1. CASE In("Block") /\ Kind(pos) = "rbrace" /\ Return(Top.node) /\ Skip(pos + 1) /\ Tree
  <2>1. /\ stack # <<>> /\ Top.at = "Block" /\ Advances /\ Top.node.first < pos'
        /\ Top.node \in Nodes
    BY <1>1, TopFacts, ToFacts, PlaceFacts DEF In, Skip, Tree
  <2> QED
    BY <1>1, <2>1, Returns
<1>2. CASE In("Block") /\ Null /\ Error(Top.node.first, pos) /\ Tree
  BY <1>2, ToFacts, PlaceFacts, Nulls DEF In, Error, Tree
<1>3. CASE /\ In("Block") /\ Call(Top, Calls("Stmt", pos)) /\ Skip(pos) /\ Tree
  <2> DEFINE g == Calls("Stmt", pos)
  <2>1. /\ stack # <<>> /\ Top.at = "Block" /\ Advances /\ pos' = pos /\ Top \in Frames
        /\ Top.node.first < pos /\ Top.node.first # 0
    BY <1>3, TopFacts, ToFacts, PlaceFacts DEF In, Skip, Tree
  <2>2. g \in Frames /\ g.at = "Stmt" /\ g.node.first = pos /\ Innermost(g, Nothing, pos')
    BY <2>1, Called, PlaceFacts DEF Shape
  <2>3. Call(Top, g)
    BY <1>3
  <2> HIDE DEF g
  <2>4. Waits(Top, g)
    BY <2>1, <2>2 DEF Waits, Callees, Follows, Statements
  <2>5. Replaces(Top)
    BY <2>1 DEF Replaces
  <2> QED
    BY <2>1, <2>2, <2>3, <2>4, <2>5, CallsOn
<1>4. ASSUME stack # <<>>, Top.at = "Block", Advances, NEW f \in Frames, Become(f),
             f.at = "Block", f.node.first = Top.node.first
      PROVE  Shape'
  <2>1. Replaces(f) /\ Top.node.first < pos /\ Top.node.first # 0 /\ Top.node.first \in Nat
    BY <1>4, TopFacts DEF Replaces
  <2>2. Innermost(f, Nothing, pos')
    BY <1>4, <2>1, NothingFacts, PlaceFacts DEF Innermost, Starters, Advances
  <2> QED
    BY <1>4, <2>1, <2>2, Becomes
<1>5. CASE Got("Block") /\ Become(Plain("Block", Keeps(Top.node, ret.node.keeps))) /\ Skip(pos) /\ Tree
  <2> DEFINE f == Plain("Block", Keeps(Top.node, ret.node.keeps))
  <2>1. stack # <<>> /\ Top.at = "Block" /\ Advances /\ Become(f)
    BY <1>5, ToFacts, PlaceFacts DEF Got, Skip, Tree
  <2>2. f \in Frames /\ f.at = "Block" /\ f.node.first = Top.node.first
    BY <2>1, Grown, TopFacts, PlaceFacts DEF Labels
  <2> HIDE DEF f
  <2> QED
    BY <1>4, <2>1, <2>2
<1>6. CASE /\ GotNull("Block") /\ Become(Top) /\ Tree
           /\ Skip(IF Kind(pos) = "rbrace" THEN pos ELSE pos + 1)
  <2>1. stack # <<>> /\ Top.at = "Block" /\ Advances /\ Top \in Frames
    BY <1>6, ToFacts, TopFacts, PlaceFacts DEF GotNull, Skip, Tree
  <2> QED
    BY <1>4, <1>6, <2>1
<1> QED
  BY <1>1, <1>2, <1>3, <1>5, <1>6 DEF Block

(* The calls that the innermost one makes on its way *)
LEMMA Asks ==
  ASSUME Shape, stack # <<>>, Top.at # "Program", Advances, NEW f, Replaces(f),
         NEW at \in {"Block", "Stmt", "Expr", "Primary"}, NEW p \in Places,
         IF at = "Block" THEN p < pos' ELSE p = pos',
         Call(f, Calls(at, p)), at \in Callees(f.at), f.at # "Tighter", Follows(f, p)
  PROVE  Shape'
<1> DEFINE g == Calls(at, p)
<1>1. /\ g \in Frames /\ g.at = at /\ g.node.first = p /\ Innermost(g, Nothing, pos')
      /\ Top.node.first # 0 /\ f.node.first = Top.node.first
  BY Called, TopFacts, PlaceFacts DEF Replaces, Advances
<1>2. Call(f, g)
  OBVIOUS
<1> HIDE DEF g
<1>3. Waits(f, g)
  BY <1>1 DEF Waits
<1> QED
  BY <1>1, <1>2, <1>3, CallsOn

(* Another call of the same kind takes the place of a statement. *)
LEMMA OnStatement ==
  ASSUME Shape, Top.at \in Statements, NEW f \in Frames, f.at \in Statements,
         f.node.first = Top.node.first
  PROVE  Replaces(f)
BY DEF Replaces, Callees, Statements, Expressions, Primaries

LEMMA StmtShape == ASSUME Shape, Stmt PROVE Shape'
<1>1. /\ stack # <<>> /\ Top.at = "Stmt" /\ ret.is = "none" /\ Top.node.first = pos
      /\ UNCHANGED tokens /\ Top.at \in Statements
  BY TopFacts DEF Stmt, In, Tree, Innermost, Statements
<1>2. /\ pos \in Nat \ {0} /\ Len(tokens) \in Nat /\ pos <= Len(tokens) + 1
      /\ \A p \in Nat \ {0} : Kind(p) # "eof" => p \in 1..Len(tokens)
  BY PlaceFacts, KindFacts
<1>3. ASSUME pos \in 1..Len(tokens)
      PROVE  Token \in Nodes /\ Token.first = pos /\ Token.keeps = {pos}
  BY <1>2, <1>3 DEF Token, Node, Nodes
<1>4. CASE Kind(pos) = "cf_return"
  <2>1. pos \in 1..Len(tokens)
    BY <1>2, <1>4
  <2>2. CASE Kind(pos + 1) = "semi" /\ Return(Token) /\ Skip(pos + 2)
    <3>1. Advances /\ pos < pos'
      BY <1>1, <1>2, <2>1, <2>2, ToFacts DEF Skip, To
    <3> QED
      BY <1>1, <1>3, <2>1, <2>2, <3>1, Returns
  <2>3. CASE Skip(pos + 1) /\ Call(Plain("Return", Token), Calls("Expr", pos + 1))
    <3> DEFINE f == Plain("Return", Token)
    <3>1. Advances /\ pos' = pos + 1 /\ pos + 1 \in Places
      BY <1>1, <1>2, <2>1, <2>3, ToFacts DEF Skip, Places
    <3>2. f \in Frames /\ f.at = "Return" /\ f.node.first = pos
      BY <1>2, <1>3, <2>1 DEF Plain, Frame, Frames, Labels
    <3>3. Call(f, Calls("Expr", pos + 1))
      BY <2>3
    <3> HIDE DEF f
    <3>4. Replaces(f)
      BY <1>1, <3>2, OnStatement DEF Statements
    <3>5. "Expr" \in Callees(f.at) /\ Follows(f, pos + 1)
      BY <1>2, <3>2 DEF Callees, Expressions, Follows
    <3> QED
      BY <1>1, <3>1, <3>2, <3>3, <3>4, <3>5, Asks
  <2> QED
    BY <1>4, <2>2, <2>3 DEF Stmt
<1>5. CASE Kind(pos) \in {"cf_if", "cf_while"}
  <2>1. pos \in 1..Len(tokens)
    BY <1>2, <1>5
  <2>2. CASE Error(pos + 1, pos + 1) /\ Null
    <3>1. Advances
      BY <1>1, <1>2, <2>2, ToFacts DEF Error
    <3> QED
      BY <1>1, <2>2, <3>1, Nulls
  <2>3. CASE Kind(pos + 1) = "lpar" /\ Skip(pos + 2)
             /\ Call(Frame("Condition", Token, pos, 0), Calls("Expr", pos + 2))
    <3> DEFINE f == Frame("Condition", Token, pos, 0)
    <3>1. Advances /\ pos' = pos + 2 /\ pos + 2 \in Places
      BY <1>1, <1>2, <2>1, <2>3, ToFacts DEF Skip, Places
    <3>2. f \in Frames /\ f.at = "Condition" /\ f.node.first = pos
      BY <1>2, <1>3, <2>1 DEF Frame, Frames, Labels
    <3>3. Call(f, Calls("Expr", pos + 2))
      BY <2>3
    <3> HIDE DEF f
    <3>4. Replaces(f)
      BY <1>1, <3>2, OnStatement DEF Statements
    <3>5. "Expr" \in Callees(f.at) /\ Follows(f, pos + 2)
      BY <1>2, <3>2 DEF Callees, Expressions, Follows
    <3> QED
      BY <1>1, <3>1, <3>2, <3>3, <3>4, <3>5, Asks
  <2> QED
    BY <1>5, <2>2, <2>3 DEF Stmt
<1>6. ASSUME pos \in 1..Len(tokens), NEW f \in Frames, f.at \in {"BadStmt", "Declared"},
             f.node.first = pos, Become(f), Advances, pos < pos'
      PROVE  Shape'
  <2>1. Replaces(f)
    BY <1>1, <1>6, OnStatement DEF Statements
  <2>2. Innermost(f, Nothing, pos')
    BY <1>2, <1>6, NothingFacts DEF Innermost, Starters
  <2> QED
    BY <1>1, <1>6, <2>1, <2>2, Becomes
<1>7. CASE Kind(pos) \in {"cf_int", "cf_float"}
  <2>1. pos \in 1..Len(tokens)
    BY <1>2, <1>7
  <2>2. CASE Become(Plain("BadStmt", Token)) /\ Error(pos + 1, pos + 1)
    <3> DEFINE f == Plain("BadStmt", Token)
    <3>1. Advances /\ pos < pos'
      BY <1>1, <1>2, <2>1, <2>2, ToFacts DEF Error
    <3>2. f \in Frames /\ f.at = "BadStmt" /\ f.node.first = pos
      BY <1>2, <1>3, <2>1 DEF Plain, Frame, Frames, Labels
    <3>3. Become(f)
      BY <2>2
    <3> HIDE DEF f
    <3> QED
      BY <1>6, <2>1, <3>1, <3>2, <3>3
  <2> DEFINE decl == Keeps(Token, {pos + 1})
  <2>3. ASSUME Kind(pos + 1) = "identifier"
        PROVE  /\ pos + 1 \in 1..Len(tokens) /\ decl \in Nodes /\ decl.first = pos
    <3>1. pos + 1 \in 1..Len(tokens)
      BY <1>2, <2>3
    <3> QED
      BY <1>3, <2>1, <3>1, KeepsFacts
  <2>4. CASE /\ Kind(pos + 1) = "identifier" /\ Kind(pos + 2) = "equal" /\ Skip(pos + 3)
             /\ Call(Plain("Initializer", Keeps(decl, {pos + 2})), Calls("Expr", pos + 3))
    <3> DEFINE f == Plain("Initializer", Keeps(decl, {pos + 2}))
    <3>1. pos + 2 \in 1..Len(tokens)
      BY <1>2, <2>4
    <3>2. Advances /\ pos' = pos + 3 /\ pos + 3 \in Places
      BY <1>1, <1>2, <3>1, <2>4, ToFacts DEF Skip, Places
    <3>3. f \in Frames /\ f.at = "Initializer" /\ f.node.first = pos
      <4> HIDE DEF decl
      <4> QED
        BY <2>3, <2>4, <3>1, Grown DEF Labels
    <3>4. Call(f, Calls("Expr", pos + 3))
      BY <2>4
    <3> HIDE DEF f
    <3>5. Replaces(f)
      BY <1>1, <3>3, OnStatement DEF Statements
    <3>6. "Expr" \in Callees(f.at) /\ Follows(f, pos + 3)
      BY <1>2, <3>3 DEF Callees, Expressions, Follows
    <3> QED
      BY <1>1, <3>2, <3>3, <3>4, <3>5, <3>6, Asks
  <2>5. CASE Kind(pos + 1) = "identifier" /\ Become(Plain("Declared", decl)) /\ Skip(pos + 2)
    <3> DEFINE f == Plain("Declared", decl)
    <3>1. Advances /\ pos < pos'
      BY <1>1, <1>2, <2>3, <2>5, ToFacts DEF Skip
    <3>2. f \in Frames /\ f.at = "Declared" /\ f.node.first = pos
      <4> HIDE DEF decl
      <4> QED
        BY <1>2, <2>3, <2>5 DEF Plain, Frame, Frames, Labels
    <3>3. Become(f)
      BY <2>5
    <3> HIDE DEF f
    <3> QED
      BY <1>6, <2>1, <3>1, <3>2, <3>3
  <2> QED
    BY <1>7, <2>2, <2>4, <2>5 DEF Stmt
<1>8. CASE Skip(pos) /\ Call(Calls("ExprStmt", pos), Calls("Expr", pos))
  <2> DEFINE f == Calls("ExprStmt", pos)
  <2>1. Advances /\ pos' = pos /\ pos \in Places
    BY <1>1, <1>2, <1>8, ToFacts DEF Skip, Places
  <2>2. f \in Frames /\ f.at = "ExprStmt" /\ f.node.first = pos
    BY <2>1, CallsFacts DEF Labels
  <2>3. Call(f, Calls("Expr", pos))
    BY <1>8
  <2> HIDE DEF f
  <2>4. Replaces(f)
    BY <1>1, <2>2, OnStatement DEF Statements
  <2>5. "Expr" \in Callees(f.at) /\ Follows(f, pos)
    BY <1>2, <2>2 DEF Callees, Expressions, Follows
  <2> QED
    BY <1>1, <2>1, <2>2, <2>3, <2>4, <2>5, Asks
<1> QED
  BY <1>4, <1>5, <1>7, <1>8 DEF Stmt

(* What follows a call that has returned: its caller returns a node, or fails. *)
LEMMA Completes ==
  ASSUME Shape, stack # <<>>, Top.at # "Program", UNCHANGED tokens, ret.is = "node",
         NEW p \in Int, pos <= p, To(p), Return(Keeps(Top.node, ret.node.keeps))
  PROVE  Shape'
<1> DEFINE node == Keeps(Top.node, ret.node.keeps)
<1>1. node \in Nodes /\ node.first = Top.node.first
  BY TopFacts, PlaceFacts, KeepsFacts
<1>2. Advances /\ Top.node.first < pos'
  <2>1. Top.node.first < pos /\ Top.node.first \in Nat
    BY TopFacts, PlaceFacts DEF Innermost, Follows
  <2> QED
    BY <2>1, ToFacts, PlaceFacts
<1> QED
  BY <1>1, <1>2, Returns

LEMMA Fails ==
  ASSUME Shape, stack # <<>>, Top.at # "Program", UNCHANGED tokens,
         NEW p \in Int, pos <= p, To(p), Null
  PROVE  Shape'
BY ToFacts, Nulls

LEMMA ReturnStmtShape == ASSUME Shape, ReturnStmt PROVE Shape'
<1>1. /\ stack # <<>> /\ Top.at = "Return" /\ UNCHANGED tokens
      /\ pos \in Int /\ pos + 1 \in Int /\ pos <= pos /\ pos <= pos + 1
  BY PlaceFacts DEF ReturnStmt, Got, GotNull, Tree
<1>2. \/ ret.is = "node" /\ To(pos + 1) /\ Return(Keeps(Top.node, ret.node.keeps))
      \/ To(pos) /\ Null
  BY DEF ReturnStmt, Got, Skip, Error
<1> QED
  BY <1>1, <1>2, Completes, Fails

LEMMA AfterBadStmtFacts ==
  ASSUME Shape PROVE AfterBadStmt \in pos..Len(tokens) + 1
<1> DEFINE q == Until(pos, {"semi", "rbrace"})
<1>1. q \in pos..Len(tokens) + 1
  BY UntilFacts, PlaceFacts
<1> HIDE DEF q
<1>2. Kind(q) = "semi" => q <= Len(tokens)
  BY <1>1, KindFacts, PlaceFacts
<1>3. AfterBadStmt = IF Kind(q) = "semi" THEN q + 1 ELSE q
  BY DEF AfterBadStmt, q
<1> QED
  BY <1>1, <1>2, <1>3, PlaceFacts

LEMMA SemicolonCases ==
  ASSUME NEW node, Semicolon(node)
  PROVE  \/ Kind(pos) = "semi" /\ Return(node) /\ To(pos + 1) /\ UNCHANGED diagnostics
         \/ Kind(pos) # "semi" /\ Null /\ To(pos + 1) /\ diagnostics' = diagnostics \cup {pos}
BY DEF Semicolon, Skip, Error

LEMMA ExprStmtShape == ASSUME Shape, ExprStmt PROVE Shape'
<1>1. /\ stack # <<>> /\ Top.at = "ExprStmt" /\ UNCHANGED tokens
      /\ pos \in Int /\ pos + 1 \in Int /\ pos <= pos + 1
  BY PlaceFacts DEF ExprStmt, Got, GotNull, Tree
<1>2. CASE GotNull("ExprStmt") /\ Null /\ Skip(AfterBadStmt)
  BY <1>1, <1>2, AfterBadStmtFacts, PlaceFacts, Fails DEF Skip
<1>3. CASE Got("ExprStmt") /\ Semicolon(ret.node)
  <2>1. CASE Return(ret.node) /\ To(pos + 1)
    <3>1. /\ ret.node \in Nodes /\ ret.node.first \in Nat /\ ret.node.first < pos
          /\ Top.node.first <= ret.node.first /\ Top.at \in Statements
      BY <1>1, <1>3, TopFacts, PlaceFacts DEF Innermost, Follows, Got, Statements
    <3>2. Advances /\ ret.node.first < pos'
      BY <1>1, <2>1, <3>1, ToFacts
    <3> QED
      BY <1>1, <2>1, <3>1, <3>2, Returns
  <2>2. CASE Null /\ To(pos + 1)
    BY <1>1, <2>2, Fails
  <2> QED
    BY <1>3, <2>1, <2>2, SemicolonCases
<1> QED
  BY <1>2, <1>3 DEF ExprStmt

LEMMA VariableDeclShape == ASSUME Shape, VariableDecl PROVE Shape'
<1>1. /\ stack # <<>> /\ Top.at \in {"Declared", "Initializer", "BadStmt"} /\ UNCHANGED tokens
      /\ pos \in Int /\ pos + 1 \in Int /\ pos <= pos /\ pos <= pos + 1
      /\ Top.at \in Statements /\ Top.at # "Program"
      /\ Top.node \in Nodes /\ Top.node.first \in Nat /\ Top.node.first < pos
  BY PlaceFacts, TopFacts DEF VariableDecl, In, Got, GotNull, Tree, Statements
<1>2. CASE In("Declared") /\ Semicolon(Top.node)
  <2>1. CASE Return(Top.node) /\ To(pos + 1)
    <3>1. Advances /\ Top.node.first < pos'
      BY <1>1, <2>1, ToFacts
    <3> QED
      BY <1>1, <2>1, <3>1, Returns
  <2>2. CASE Null /\ To(pos + 1)
    BY <1>1, <2>2, Fails
  <2> QED
    BY <1>2, <2>1, <2>2, SemicolonCases
<1>3. CASE Got("Initializer") /\ Semicolon(Keeps(Top.node, ret.node.keeps))
  <2>1. ret.is = "node"
    BY <1>3 DEF Got
  <2> QED
    BY <1>1, <1>3, <2>1, SemicolonCases, Completes, Fails
<1>4. CASE GotNull("Initializer") /\ Become(Plain("BadStmt", Top.node)) /\ Error(pos, pos)
  <2> DEFINE f == Plain("BadStmt", Top.node)
  <2>1. Advances /\ Top.node.first < pos'
    BY <1>1, <1>4, ToFacts DEF Error
  <2>2. f \in Frames /\ f.at = "BadStmt" /\ f.node.first = Top.node.first
    BY <1>1, PlaceFacts DEF Plain, Frame, Frames, Labels
  <2>3. Become(f)
    BY <1>4
  <2> HIDE DEF f
  <2>4. Replaces(f)
    BY <1>1, <2>2, OnStatement DEF Statements
  <2>5. Innermost(f, Nothing, pos')
    BY <1>1, <2>1, <2>2, TopFacts, NothingFacts DEF Innermost, Starters
  <2> QED
    BY <1>1, <2>1, <2>3, <2>4, <2>5, Becomes
<1>5. CASE In("BadStmt") /\ Null /\ Skip(AfterBadStmt)
  BY <1>1, <1>5, AfterBadStmtFacts, PlaceFacts, Fails DEF Skip
<1> QED
  BY <1>2, <1>3, <1>4, <1>5 DEF VariableDecl

LEMMA ConditionShape == ASSUME Shape, Condition PROVE Shape'
<1> DEFINE n == Matched(pos, Opening)
           f == Frame("Then", Keeps(Top.node, ret.node.keeps), Top.op, 0)
<1>1. /\ stack # <<>> /\ Top.at = "Condition" /\ UNCHANGED tokens
      /\ pos \in Int /\ pos <= pos /\ pos \in Places
      /\ Top.node \in Nodes /\ Top.node.first \in Nat /\ Top.node.first < pos
      /\ Top.op \in 0..Len(tokens)
  BY PlaceFacts, TopFacts DEF Condition, Got, GotNull, Tree, Shape
<1>2. n \in 0..2 /\ pos + n \in Int /\ pos <= pos + n /\ pos + n \in Places
  BY <1>1, Match2
<1>3. CASE To(pos + n) /\ Null
  BY <1>1, <1>2, <1>3, Fails
<1>4. CASE To(pos) /\ Null
  BY <1>1, <1>4, Fails
<1>5. CASE n = 2 /\ To(pos + 2) /\ Call(f, Calls("Block", pos + 1))
  <2>1. pos + 2 <= Len(tokens) + 1
    BY <1>2, <1>5, PlaceFacts DEF Places
  <2>2. Advances /\ pos' = pos + 2 /\ pos + 1 \in Places
    BY <1>1, <1>5, <2>1, ToFacts, PlaceFacts DEF Places
  <2>3. f \in Frames /\ f.at = "Then" /\ f.node.first = Top.node.first
    <3>1. Keeps(Top.node, ret.node.keeps) \in Nodes
          /\ Keeps(Top.node, ret.node.keeps).first = Top.node.first
      BY <1>1, PlaceFacts, KeepsFacts
    <3> QED
      BY <1>1, <3>1, PlaceFacts DEF Frame, Frames, Labels
  <2> HIDE DEF f, n
  <2>4. Replaces(f)
    BY <1>1, <2>3, OnStatement DEF Statements
  <2>5. "Block" \in Callees(f.at) /\ Follows(f, pos + 1)
    BY <1>1, <2>3, PlaceFacts DEF Callees, Follows
  <2>6. pos + 1 < pos'
    BY <2>2, PlaceFacts
  <2> QED
    BY <1>1, <1>5, <2>2, <2>3, <2>4, <2>5, <2>6, Asks
<1> QED
  BY <1>2, <1>3, <1>4, <1>5 DEF Condition, Skip, Error, Opening

LEMMA BranchesShape == ASSUME Shape, Branches PROVE Shape'
<1> DEFINE node == Keeps(Top.node, ret.node.keeps)
           f == Plain("Else", Keeps(node, {pos}))
<1>1. /\ stack # <<>> /\ Top.at \in {"Then", "Else"} /\ UNCHANGED tokens /\ Top.at # "Program"
      /\ pos \in Int /\ pos + 1 \in Int /\ pos <= pos /\ pos <= pos + 1 /\ Top.at \in Statements
      /\ Top.node \in Nodes /\ Top.node.first \in Nat /\ Top.node.first < pos
  BY PlaceFacts, TopFacts DEF Branches, Got, GotNull, Tree, Shape, Statements
<1>2. CASE ret.is = "node" /\ Return(node) /\ To(pos)
  BY <1>1, <1>2, Completes
<1>3. CASE Null /\ (To(pos) \/ To(pos + 1))
  BY <1>1, <1>3, Fails
<1>4. CASE /\ Kind(pos) = "cf_else" /\ Kind(pos + 1) = "lbrace" /\ To(pos + 2)
           /\ Call(f, Calls("Block", pos + 1))
  <2>1. pos + 1 \in 1..Len(tokens) /\ pos \in 1..Len(tokens) /\ pos + 2 <= Len(tokens) + 1
    BY <1>4, KindFacts, PlaceFacts
  <2>2. Advances /\ pos' = pos + 2 /\ pos + 1 \in Places
    BY <1>1, <1>4, <2>1, ToFacts, PlaceFacts DEF Places
  <2>3. f \in Frames /\ f.at = "Else" /\ f.node.first = Top.node.first
    <3>1. node \in Nodes /\ node.first = Top.node.first /\ {pos} \subseteq 1..Len(tokens)
      BY <1>1, <2>1, PlaceFacts, KeepsFacts
    <3> HIDE DEF node
    <3> QED
      BY <3>1, Grown DEF Labels
  <2>4. Call(f, Calls("Block", pos + 1))
    BY <1>4
  <2> HIDE DEF f
  <2>5. Replaces(f)
    BY <1>1, <2>3, OnStatement DEF Statements
  <2>6. "Block" \in Callees(f.at) /\ Follows(f, pos + 1)
    BY <1>1, <2>3, PlaceFacts DEF Callees, Follows
  <2>7. pos + 1 < pos'
    BY <2>2, PlaceFacts
  <2> QED
    BY <1>1, <2>2, <2>3, <2>4, <2>5, <2>6, <2>7, Asks
<1> QED
  BY <1>2, <1>3, <1>4 DEF Branches, Skip, Error, Got

LEMMA ExprShape == ASSUME Shape, Expr PROVE Shape'
<1>1. /\ stack # <<>> /\ Top.at \in {"Expr", "Lhs", "Assign"} /\ Top.at # "Program"
      /\ UNCHANGED tokens
      /\ pos \in Int /\ pos + 1 \in Int /\ pos <= pos /\ pos <= pos + 1 /\ pos \in Nat \ {0}
      /\ Top.node \in Nodes /\ Top.node.first \in Nat /\ Top.node.first # 0
  BY PlaceFacts, TopFacts DEF Expr, In, Got, GotNull, Tree
<1>2. CASE In("Expr") /\ Call(Plain("Lhs", Top.node), Plain("Primary", Top.node)) /\ To(pos)
  <2> DEFINE f == Plain("Lhs", Top.node)
             g == Plain("Primary", Top.node)
  <2>1. Advances /\ pos' = pos /\ Top.node.first = pos
    BY <1>1, <1>2, ToFacts, TopFacts, PlaceFacts DEF Innermost, In
  <2>2. /\ f \in Frames /\ f.at = "Lhs" /\ f.node.first = Top.node.first
        /\ g \in Frames /\ g.at = "Primary" /\ g.node.first = Top.node.first
    BY <1>1, PlaceFacts DEF Plain, Frame, Frames, Labels
  <2>3. Call(f, g) /\ Top.at = "Expr"
    BY <1>2 DEF In
  <2> HIDE DEF f, g
  <2>4. Replaces(f)
    BY <2>2, <2>3 DEF Replaces, Callees, Expressions, Primaries, Statements
  <2>5. Waits(f, g)
    BY <1>1, <2>2 DEF Waits, Callees, Primaries, Follows
  <2>6. Innermost(g, Nothing, pos')
    BY <1>1, <2>1, <2>2, NothingFacts DEF Innermost, Starters
  <2> QED
    BY <1>1, <2>1, <2>2, <2>3, <2>4, <2>5, <2>6, CallsOn
<1>3. ASSUME Got("Lhs")
      PROVE  /\ Top.at = "Lhs" /\ ret.node \in Nodes /\ ret.node.first = Top.node.first
             /\ ret.node.first < pos
  BY <1>1, <1>3, TopFacts, PlaceFacts DEF Got, Innermost, Follows
<1>4. CASE /\ Got("Lhs") /\ Kind(pos) = "equal" /\ To(pos + 1)
           /\ Call(Plain("Assign", Keeps(ret.node, {pos})), Calls("Expr", pos + 1))
  <2> DEFINE f == Plain("Assign", Keeps(ret.node, {pos}))
  <2>1. pos \in 1..Len(tokens)
    BY <1>4, KindFacts, PlaceFacts
  <2>2. Advances /\ pos' = pos + 1 /\ pos + 1 \in Places
    BY <1>1, <1>4, <2>1, ToFacts, PlaceFacts DEF Places
  <2>3. f \in Frames /\ f.at = "Assign" /\ f.node.first = Top.node.first
    BY <1>3, <1>4, <2>1, Grown DEF Labels
  <2>4. Call(f, Calls("Expr", pos + 1))
    BY <1>4
  <2> HIDE DEF f
  <2>5. Replaces(f)
    BY <1>3, <1>4, <2>3 DEF Replaces, Callees, Expressions, Primaries, Statements
  <2>6. "Expr" \in Callees(f.at) /\ Follows(f, pos + 1)
    BY <1>1, <1>3, <1>4, <2>3 DEF Callees, Expressions, Follows
  <2> QED
    BY <1>1, <2>2, <2>3, <2>4, <2>5, <2>6, Asks
<1>5. CASE Got("Lhs") /\ Become(Frame("Binary", ret.node, 0, 0)) /\ To(pos)
  <2> DEFINE f == Frame("Binary", ret.node, 0, 0)
  <2>1. Advances /\ pos' = pos
    BY <1>1, <1>5, ToFacts, PlaceFacts
  <2>2. f \in Frames /\ f.at = "Binary" /\ f.node.first = Top.node.first
    BY <1>3, <1>5, PlaceFacts DEF Frame, Frames, Labels
  <2>3. Become(f)
    BY <1>5
  <2> HIDE DEF f
  <2>4. Replaces(f)
    BY <1>3, <1>5, <2>2 DEF Replaces, Callees, Expressions, Primaries, Statements
  <2>5. Innermost(f, Nothing, pos')
    BY <1>1, <1>3, <1>5, <2>1, <2>2, NothingFacts DEF Innermost, Starters
  <2> QED
    BY <1>1, <2>1, <2>3, <2>4, <2>5, Becomes
<1>6. CASE Null /\ To(pos)
  BY <1>1, <1>6, Fails
<1>7. CASE Got("Assign") /\ Return(Keeps(Top.node, ret.node.keeps)) /\ To(pos)
  BY <1>1, <1>7, Completes DEF Got
<1> QED
  BY <1>2, <1>4, <1>5, <1>6, <1>7 DEF Expr, Skip, Error

LEMMA PrecedenceFacts ==
  ASSUME NEW kind
  PROVE  /\ Precedence(kind) \in -1..20
         /\ Precedence(kind) >= 0 <=> kind \in Operator
BY DEF Precedence, Operator

LEMMA BinaryShape == ASSUME Shape, Binary PROVE Shape'
<1>1. /\ stack # <<>> /\ Top.at \in {"Binary", "Rhs", "Tighter"} /\ Top.at # "Program"
      /\ UNCHANGED tokens
      /\ pos \in Int /\ pos + 1 \in Int /\ pos <= pos /\ pos <= pos + 1 /\ pos \in Nat \ {0}
      /\ Top \in Frames /\ Top.node \in Nodes /\ Top.node.first \in Nat /\ Top.node.first # 0
      /\ Top.node.first < pos /\ Top.op \in 0..Len(tokens) /\ Top.prec \in 0..Len(tokens) + 21
      /\ Len(tokens) \in Nat
  BY PlaceFacts, TopFacts DEF Binary, In, Got, GotNull, Tree, Frames
<1>2. ASSUME NEW f \in Frames, f.at \in {"Binary", "Rhs", "Tighter"},
             f.node.first = Top.node.first, f.prec = Top.prec
      PROVE  Replaces(f)
  BY <1>1, <1>2 DEF Replaces, Callees, Expressions, Primaries, Statements
<1>3. CASE Return(Top.node) /\ To(pos)
  <2>1. Advances /\ Top.node.first < pos'
    BY <1>1, <1>3, ToFacts, PlaceFacts
  <2> QED
    BY <1>1, <1>3, <2>1, Returns
<1>4. CASE /\ Precedence(Kind(pos)) >= Top.prec /\ To(pos + 1)
           /\ Call(Frame("Rhs", Top.node, pos, Top.prec), Calls("Primary", pos + 1))
  <2> DEFINE f == Frame("Rhs", Top.node, pos, Top.prec)
  <2>1. pos \in 1..Len(tokens)
    <3>1. Kind(pos) \in Operator
      <4> DEFINE l == Precedence(Kind(pos))
      <4>1. l \in -1..20 /\ (l >= 0 <=> Kind(pos) \in Operator)
        BY PrecedenceFacts, Zenon
      <4>2. l >= Top.prec
        BY <1>4
      <4> HIDE DEF l
      <4> QED
        BY <1>1, <4>1, <4>2
    <3> QED
      BY <1>1, <3>1, KindFacts DEF Operator
  <2>2. Advances /\ pos' = pos + 1 /\ pos + 1 \in Places
    BY <1>1, <1>4, <2>1, ToFacts, PlaceFacts DEF Places
  <2>3. /\ f \in Frames /\ f.at = "Rhs" /\ f.node.first = Top.node.first
        /\ f.op = pos /\ f.prec = Top.prec
    BY <1>1, <2>1 DEF Frame, Frames, Labels
  <2>4. Call(f, Calls("Primary", pos + 1))
    BY <1>4
  <2> HIDE DEF f
  <2>5. Replaces(f)
    BY <1>2, <2>3
  <2>6. "Primary" \in Callees(f.at) /\ Follows(f, pos + 1)
    BY <1>1, <2>3 DEF Callees, Primaries, Follows
  <2> QED
    BY <1>1, <2>2, <2>3, <2>4, <2>5, <2>6, Asks
<1>5. ASSUME Got("Rhs") \/ Got("Tighter")
      PROVE  /\ ret.node \in Nodes /\ ret.node.first \in Nat \ {0} /\ ret.node.first < pos
             /\ Top.op \in 1..Len(tokens) /\ ret.node.first = Top.op + 1
             /\ ret.node.keeps \subseteq 1..Len(tokens) /\ Top.node.first < ret.node.first
  BY <1>1, <1>5, TopFacts, PlaceFacts DEF Got, Innermost, Follows
<1>6. CASE /\ Got("Rhs") /\ To(pos)
           /\ Call(Frame("Tighter", Top.node, Top.op, Top.prec),
                   Frame("Binary", ret.node, 0, LevelAbove(Precedence(Kind(Top.op)))))
  <2> DEFINE f == Frame("Tighter", Top.node, Top.op, Top.prec)
             g == Frame("Binary", ret.node, 0, LevelAbove(Precedence(Kind(Top.op))))
  <2>1. Advances /\ pos' = pos
    BY <1>1, <1>6, ToFacts, PlaceFacts
  <2>2. /\ f \in Frames /\ f.at = "Tighter" /\ f.node.first = Top.node.first
        /\ f.op = Top.op /\ f.prec = Top.prec
    BY <1>1 DEF Frame, Frames, Labels
  <2>3. LevelAbove(Precedence(Kind(Top.op))) \in 0..Len(tokens) + 21
    BY <1>1, PrecedenceFacts DEF LevelAbove
  <2>4. /\ g \in Frames /\ g.at = "Binary" /\ g.node.first = ret.node.first
        /\ g.prec = Precedence(Kind(Top.op)) + 1
    BY <1>1, <1>5, <1>6, <2>3 DEF Frame, Frames, Labels, LevelAbove
  <2>5. Call(f, g)
    BY <1>6
  <2> HIDE DEF f, g
  <2>6. Replaces(f)
    BY <1>2, <2>2
  <2>7. Waits(f, g)
    BY <1>1, <1>5, <1>6, <2>2, <2>4 DEF Waits, Callees, Follows
  <2>8. Innermost(g, Nothing, pos')
    BY <1>5, <1>6, <2>1, <2>4, NothingFacts DEF Innermost, Starters
  <2> QED
    BY <1>1, <2>1, <2>4, <2>5, <2>6, <2>7, <2>8, CallsOn
<1>7. CASE /\ Got("Rhs") \/ Got("Tighter")
           /\ Become(Frame("Binary", Combined(Top.node, Top.op, ret.node), 0, Top.prec)) /\ To(pos)
  <2> DEFINE node == Combined(Top.node, Top.op, ret.node)
             f == Frame("Binary", node, 0, Top.prec)
  <2>1. Advances /\ pos' = pos
    BY <1>1, <1>7, ToFacts, PlaceFacts
  <2>2. node \in Nodes /\ node.first = Top.node.first
    BY <1>1, <1>5, <1>7, KeepsFacts DEF Combined
  <2> HIDE DEF node
  <2>3. /\ f \in Frames /\ f.at = "Binary" /\ f.node.first = Top.node.first /\ f.prec = Top.prec
    BY <1>1, <2>2 DEF Frame, Frames, Labels
  <2>4. Become(f)
    BY <1>7 DEF node
  <2> HIDE DEF f
  <2>5. Replaces(f)
    BY <1>2, <2>3
  <2>6. Innermost(f, Nothing, pos')
    BY <1>1, <2>1, <2>3, NothingFacts DEF Innermost, Starters
  <2> QED
    BY <1>1, <2>1, <2>4, <2>5, <2>6, Becomes
<1>8. CASE Null /\ To(pos)
  BY <1>1, <1>8, Fails
<1> QED
  BY <1>3, <1>4, <1>6, <1>7, <1>8 DEF Binary, Skip

LEMMA PrimaryShape == ASSUME Shape, Primary PROVE Shape'
<1>1. /\ stack # <<>> /\ Top.at = "Primary" /\ ret.is = "none" /\ Top.node.first = pos
      /\ UNCHANGED tokens /\ pos \in Nat \ {0} /\ Len(tokens) \in Nat /\ pos <= Len(tokens) + 1
  BY TopFacts, PlaceFacts DEF Primary, In, Tree, Innermost
<1>2. ASSUME NEW f \in Frames, f.at \in {"Paren", "Args"}, f.node.first = pos
      PROVE  Replaces(f)
  BY <1>1, <1>2 DEF Replaces, Callees, Expressions, Primaries, Statements
<1>3. ASSUME pos \in 1..Len(tokens), NEW ref \in BOOLEAN
      PROVE  /\ Node(pos, ref, {pos}) \in Nodes /\ Node(pos, ref, {pos}).first = pos
  BY <1>3, <1>1 DEF Node, Nodes
<1>4. CASE /\ Kind(pos) \in Atoms \cup {"identifier"} /\ To(pos + 1)
           /\ Return(Token) \/ Return(Node(pos, TRUE, {pos}))
  <2>1. pos \in 1..Len(tokens)
    BY <1>1, <1>4, KindFacts DEF Atoms
  <2>2. PICK ref \in BOOLEAN : Return(Node(pos, ref, {pos}))
    BY <1>4 DEF Token
  <2>3. Advances /\ pos < pos'
    BY <1>1, <1>4, <2>1, ToFacts
  <2> DEFINE node == Node(pos, ref, {pos})
  <2>4. node \in Nodes /\ node.first = pos
    BY <2>1, <1>3
  <2> HIDE DEF node
  <2>5. Return(node)
    BY <2>2 DEF node
  <2> QED
    BY <1>1, <2>3, <2>4, <2>5, Returns
<1>5. CASE Kind(pos) = "lpar" /\ To(pos + 1) /\ Call(Calls("Paren", pos), Calls("Expr", pos + 1))
  <2> DEFINE f == Calls("Paren", pos)
  <2>1. pos \in 1..Len(tokens)
    BY <1>1, <1>5, KindFacts
  <2>2. Advances /\ pos' = pos + 1 /\ pos + 1 \in Places /\ pos \in Places
    BY <1>1, <1>5, <2>1, ToFacts DEF Places
  <2>3. f \in Frames /\ f.at = "Paren" /\ f.node.first = pos
    BY <2>2, CallsFacts DEF Labels
  <2>4. Call(f, Calls("Expr", pos + 1))
    BY <1>5
  <2> HIDE DEF f
  <2>5. Replaces(f)
    BY <1>2, <2>3
  <2>6. "Expr" \in Callees(f.at) /\ Follows(f, pos + 1)
    BY <1>1, <2>3 DEF Callees, Expressions, Follows
  <2> QED
    BY <1>1, <2>2, <2>3, <2>4, <2>5, <2>6, Asks
<1>6. CASE /\ Kind(pos) \in {"identifier", "print"} /\ To(pos + 2)
           /\ Become(Frame("Args", Token, pos, 0))
  <2> DEFINE f == Frame("Args", Token, pos, 0)
  <2>1. pos \in 1..Len(tokens)
    BY <1>1, <1>6, KindFacts
  <2>2. Advances /\ pos < pos' /\ pos' \in Nat
    BY <1>1, <1>6, <2>1, ToFacts DEF To
  <2>3. /\ f \in Frames /\ f.at = "Args" /\ f.node.first = pos /\ f.op = pos /\ f.prec = 0
    <3>1. Token \in Nodes /\ Token.first = pos
      BY <1>3, <2>1 DEF Token
    <3> QED
      BY <1>1, <2>1, <3>1 DEF Frame, Frames, Labels
  <2>4. Become(f)
    BY <1>6
  <2> HIDE DEF f
  <2>5. Replaces(f)
    BY <1>2, <2>3
  <2>6. Innermost(f, Nothing, pos')
    BY <1>1, <2>2, <2>3, NothingFacts DEF Innermost, Starters
  <2> QED
    BY <1>1, <2>2, <2>4, <2>5, <2>6, Becomes
<1>7. CASE Null /\ To(pos + 1)
  BY <1>1, <1>7, Fails
<1> QED
  BY <1>4, <1>5, <1>6, <1>7 DEF Primary, Skip, Error

LEMMA ParenShape == ASSUME Shape, Paren PROVE Shape'
<1>1. /\ stack # <<>> /\ Top.at = "Paren" /\ UNCHANGED tokens
      /\ pos \in Int /\ pos + 1 \in Int /\ pos <= pos /\ pos <= pos + 1
      /\ Top.node.first \in 0..Len(tokens) + 1 /\ Top.node.first < pos /\ ret.node \in Nodes
  BY PlaceFacts, TopFacts DEF Paren, Got, GotNull, Tree
<1>2. CASE Null /\ To(pos)
  BY <1>1, <1>2, Fails
<1>3. CASE Return([ret.node EXCEPT !.first = Top.node.first]) /\ To(pos + 1)
  <2> DEFINE node == [ret.node EXCEPT !.first = Top.node.first]
  <2>1. node \in Nodes /\ node.first = Top.node.first
    BY <1>1 DEF Nodes
  <2>2. Advances /\ Top.node.first < pos'
    BY <1>1, <1>3, ToFacts, PlaceFacts
  <2>3. Return(node)
    BY <1>3
  <2> HIDE DEF node
  <2> QED
    BY <1>1, <2>1, <2>2, <2>3, Returns
<1> QED
  BY <1>2, <1>3 DEF Paren, Skip, Error

LEMMA PastCommaFacts ==
  ASSUME Shape, NEW p \in Places
  PROVE  PastComma(p) \in Places /\ p <= PastComma(p)
BY KindFacts, PlaceFacts DEF PastComma, Places

LEMMA ArgsShape == ASSUME Shape, Args PROVE Shape'
<1>1. /\ stack # <<>> /\ Top.at = "Args" /\ UNCHANGED tokens /\ pos \in Places
      /\ pos \in Nat \ {0} /\ Len(tokens) \in Nat /\ pos <= Len(tokens) + 1
      /\ Top \in Frames /\ Top.node \in Nodes /\ Top.node.first \in Nat \ {0} /\ Top.node.first < pos
      /\ Top.op \in 0..Len(tokens) /\ Top.prec \in Nat
      /\ Top.op = Top.node.first /\ Top.prec < pos
  <2>1. stack # <<>> /\ Top.at = "Args" /\ UNCHANGED tokens
    BY DEF Args, In, Got, GotNull, Tree
  <2>2. ret.node.first \in Nat /\ ret.is \in {"none", "node", "null"} /\ pos \in Nat
    BY PlaceFacts
  <2> QED
    BY <2>1, <2>2, PlaceFacts, TopFacts DEF Innermost, Follows, Shape
<1>2. ASSUME NEW f \in Frames, f.at = "Args", f.node.first = Top.node.first
      PROVE  Replaces(f)
  BY <1>1, <1>2 DEF Replaces
<1>3. CASE Call(Top, Calls("Expr", pos)) /\ To(pos)
  <2>1. Advances /\ pos' = pos
    BY <1>1, <1>3, ToFacts
  <2>2. Replaces(Top) /\ "Expr" \in Callees(Top.at) /\ Follows(Top, pos)
    BY <1>1, <1>2 DEF Callees, Expressions, Follows
  <2> QED
    BY <1>1, <1>3, <2>1, <2>2, Asks
<1>4. CASE /\ Got("Args") /\ (To(PastComma(pos)) \/ To(pos + 1))
           /\ Become(Frame("Args", Keeps(Top.node, ret.node.keeps), Top.op, Top.prec + 1))
  <2> DEFINE f == Frame("Args", Keeps(Top.node, ret.node.keeps), Top.op, Top.prec + 1)
  <2>1. Advances /\ pos <= pos' /\ pos' \in Nat
    BY <1>1, <1>4, ToFacts, PastCommaFacts DEF Places
  <2>2. Top.prec + 1 < pos
    BY <1>1, <1>4, TopFacts, PlaceFacts DEF Got, Innermost, Follows
  <2>3. /\ f \in Frames /\ f.at = "Args" /\ f.node.first = Top.node.first /\ f.op = Top.op
        /\ f.prec = Top.prec + 1
    <3>1. Keeps(Top.node, ret.node.keeps) \in Nodes
          /\ Keeps(Top.node, ret.node.keeps).first = Top.node.first
      BY <1>1, PlaceFacts, KeepsFacts
    <3> QED
      BY <1>1, <2>2, <3>1 DEF Frame, Frames, Labels
  <2>4. Become(f)
    BY <1>4
  <2> HIDE DEF f
  <2>5. Replaces(f)
    BY <1>2, <2>3
  <2>6. Innermost(f, Nothing, pos')
    BY <1>1, <2>1, <2>2, <2>3, NothingFacts DEF Innermost, Starters
  <2> QED
    BY <1>1, <2>1, <2>4, <2>5, <2>6, Becomes
<1>5. CASE Become(Top) /\ To(PastComma(Until(pos, {"comma", "rpar"})))
  <2>1. Advances /\ pos <= pos' /\ pos' \in Nat
    <3>1. Until(pos, {"comma", "rpar"}) \in pos..Len(tokens) + 1
      BY <1>1, UntilFacts
    <3> QED
      BY <1>1, <1>5, <3>1, ToFacts, PastCommaFacts DEF Places
  <2>2. Replaces(Top)
    BY <1>1, <1>2
  <2>3. Innermost(Top, Nothing, pos')
    BY <1>1, <2>1, NothingFacts DEF Innermost, Starters
  <2> QED
    BY <1>1, <1>5, <2>1, <2>2, <2>3, Becomes
<1> QED
  BY <1>3, <1>4, <1>5 DEF Args, Skip, Error

LEMMA ArgumentsShape == ASSUME Shape, Arguments PROVE Shape'
<1>1. /\ stack # <<>> /\ Top.at = "Args" /\ UNCHANGED tokens
      /\ pos \in Int /\ pos + 1 \in Int /\ pos <= pos + 1
      /\ Top.node \in Nodes /\ Top.node.first \in Nat /\ Top.node.first < pos
  BY PlaceFacts, TopFacts DEF Arguments, In, Tree
<1>2. CASE Null /\ To(pos + 1)
  BY <1>1, <1>2, Fails
<1>3. CASE Return(Top.node) /\ To(pos + 1)
  <2>1. Advances /\ Top.node.first < pos'
    BY <1>1, <1>3, ToFacts, PlaceFacts
  <2> QED
    BY <1>1, <1>3, <2>1, Returns
<1> QED
  BY <1>2, <1>3 DEF Arguments

LEMMA InitShape == ASSUME Init PROVE Shape
<1>1. tokens \in Seq(Kinds) /\ Len(tokens) \in Nat
  BY SourcesAssumption, LenProperties DEF Init
<1> DEFINE f == Plain("Program", Nothing.node)
<1>2. f \in Frames /\ f.at = "Program" /\ Nothing \in Results /\ Nothing.is = "none"
      /\ f.node.first = 0
  BY <1>1 DEF Plain, Frame, Frames, Labels, Nothing, Returned, Node, Nodes, Results
<1>3. stack = <<f>> /\ ret = Nothing /\ pos = 1
  BY DEF Init
<1> HIDE DEF f
<1>4. /\ stack \in Seq(Frames) /\ Linked(stack, Waiting) /\ stack[1] = f /\ Top = f
      /\ ret \in Results /\ pos \in Places
  BY <1>1, <1>2, <1>3 DEF Linked, Top, Last, Places
<1>5. Innermost(f, ret, pos)
  BY <1>2, <1>3 DEF Innermost, Starters
<1> QED
  BY <1>1, <1>2, <1>4, <1>5 DEF Shape

LEMMA StepShape == ASSUME Shape, [Next]_vars PROVE Shape'
<1>1. ASSUME UNCHANGED vars PROVE Shape'
  <2>1. Advances /\ UNCHANGED <<stack, ret, pos>>
    BY <1>1, PlaceFacts DEF vars, Advances
  <2> QED
    BY <2>1, Pushed DEF Shape, Top
<1> QED
  BY <1>1, ProgramShape, FunctionNameShape, ParamsShape, BodyShape, BlockShape, StmtShape,
     ReturnStmtShape, ExprStmtShape, VariableDeclShape, ConditionShape, BranchesShape, ExprShape,
     BinaryShape, PrimaryShape, ParenShape, ArgsShape, ArgumentsShape DEF Next

(* The calls under way always fit together: each is one that the call below it makes, begins *)
(* where that call has got to, and is at a point where it can go on.                          *)
THEOREM CallsFit == Spec => []Shape
BY InitShape, StepShape, PTL DEF Spec

-----------------------------------------------------------------------------
(* What is recorded besides *)
Recorded ==
  /\ diagnostics \subseteq Places
  /\ functions \subseteq 1..Len(tokens)
  /\ built \subseteq [op : 1..Len(tokens), first : 1..Len(tokens), last : 1..Len(tokens)]

(* Errors are reported at places of the stream, and stay reported. *)
Reports == diagnostics' = diagnostics \/ \E p \in Places : diagnostics' = diagnostics \cup {p}

LEMMA StepReports == ASSUME Shape, Next PROVE Reports
<1>1. /\ pos \in Places /\ \A p \in Places : Kind(p) # "eof" => p + 1 \in Places
      /\ pos \in Nat
  BY KindFacts, PlaceFacts DEF Places, Shape
<1>2. ASSUME NEW p \in Places, NEW q, Error(p, q) PROVE Reports
  BY <1>2 DEF Error, Reports
<1>3. ASSUME NEW q, Skip(q) PROVE Reports
  BY <1>3 DEF Skip, Reports
<1>4. CASE Program
  BY <1>1, <1>2, <1>3, <1>4 DEF Program, Reports
<1>5. CASE FunctionName
  BY <1>1, <1>2, <1>3, <1>5, Match3 DEF FunctionName
<1>6. CASE Params
  BY <1>1, <1>2, <1>3, <1>6, Match3 DEF Params
<1>7. CASE Body
  <2> DEFINE p == IF Kind(pos) = "rpar" THEN pos + 1 ELSE pos
  <2>1. p \in Places
    BY <1>1
  <2>2. p + Matched(p, Signature) \in Places
    BY <2>1, Match3
  <2>3. CASE Error(p + Matched(p, Signature), p + Matched(p, Signature)) \/ Skip(p + 3)
    BY <1>2, <1>3, <2>2, <2>3, Zenon
  <2>4. CASE Skip(pos)
    BY <1>3, <2>4
  <2> QED
    BY <1>7, <2>3, <2>4, Zenon DEF Body
<1>8. CASE Block
  BY <1>1, <1>2, <1>3, <1>8, TopFacts, PlaceFacts DEF Block, In, Places
<1>9. CASE Stmt
  BY <1>1, <1>2, <1>3, <1>9 DEF Stmt
<1>10. CASE ReturnStmt
  BY <1>1, <1>2, <1>3, <1>10 DEF ReturnStmt
<1>11. ASSUME NEW node, Semicolon(node) PROVE Reports
  BY <1>1, <1>11, SemicolonCases DEF Reports
<1>12. CASE ExprStmt
  BY <1>3, <1>11, <1>12 DEF ExprStmt
<1>13. CASE VariableDecl
  BY <1>1, <1>2, <1>3, <1>11, <1>13 DEF VariableDecl
<1>14. CASE Condition
  BY <1>1, <1>2, <1>3, <1>14, Match2 DEF Condition, Opening
<1>15. CASE Branches
  BY <1>1, <1>2, <1>3, <1>15 DEF Branches
<1>16. CASE Expr
  BY <1>1, <1>2, <1>3, <1>16 DEF Expr
<1>17. CASE Binary
  BY <1>3, <1>17 DEF Binary
<1>18. CASE Primary
  BY <1>1, <1>2, <1>3, <1>18 DEF Primary
<1>19. CASE Paren
  BY <1>1, <1>2, <1>3, <1>19 DEF Paren
<1>20. CASE Args
  BY <1>1, <1>2, <1>3, <1>20 DEF Args
<1>21. CASE Arguments
  <2>1. Top.op \in Places
    BY <1>21, TopFacts, PlaceFacts DEF Arguments, In, Innermost, Places
  <2> QED
    BY <1>21, <2>1 DEF Arguments, Reports
<1> QED
  BY <1>4, <1>5, <1>6, <1>7, <1>8, <1>9, <1>10, <1>12, <1>13, <1>14, <1>15, <1>16, <1>17, <1>18,
     <1>19, <1>20, <1>21 DEF Next

(* The actions but two leave the tree of the program alone. *)
Collects == /\ stack # <<>> /\ Top.at = "Program" /\ ret.is = "node"
            /\ functions' = functions \cup ret.node.keeps /\ ret' = Nothing
            /\ UNCHANGED <<tokens, pos, stack, diagnostics, built>>
Combines ==
  /\ stack # <<>> /\ ret.is = "node"
  /\ \/ Top.at = "Rhs" /\ ~BindsTighter(Precedence(Kind(Top.op)), Precedence(Kind(pos)))
     \/ Top.at = "Tighter"
  /\ built' = built \cup {[op |-> Top.op, first |-> Top.node.first, last |-> pos - 1]}
  /\ Become(Frame("Binary", Combined(Top.node, Top.op, ret.node), 0, Top.prec))
  /\ To(pos) /\ UNCHANGED <<tokens, functions, diagnostics>>

LEMMA StepTree ==
  ASSUME Next
  PROVE  UNCHANGED tokens /\ (Tree \/ Collects \/ Combines)
<1>1. CASE Program
  BY <1>1 DEF Program, Tree, Collects, Got
<1>2. CASE Binary
  BY <1>2 DEF Binary, Tree, Combines, Got, Skip
<1>3. CASE ~ Program /\ ~ Binary
  BY <1>3 DEF Next, FunctionName, Params, Body, Block, Stmt, ReturnStmt, ExprStmt, VariableDecl,
              Condition, Branches, Expr, Primary, Paren, Args, Arguments, Tree
<1> QED
  BY <1>1, <1>2, <1>3 DEF Tree

LEMMA CombineFacts ==
  ASSUME Shape, Combines
  PROVE  /\ Top.op \in 1..Len(tokens) /\ ret.node.first = Top.op + 1 /\ Top.op + 1 < pos
         /\ Top.node.first \in Nat \ {0} /\ Top.node.first <= Top.op
<1>1. stack # <<>> /\ Top.at \in {"Rhs", "Tighter"} /\ ret.is = "node"
  BY DEF Combines
<1>2. /\ Top.op # 0 /\ ret.node.first = Top.op + 1 /\ ret.node.first < pos
      /\ Top.node.first < ret.node.first
  BY <1>1, TopFacts DEF Innermost, Follows
<1>3. /\ Top.op \in 0..Len(tokens) /\ Top.node.first \in Nat /\ Top.node.first # 0
      /\ Len(tokens) \in Nat
  BY <1>1, TopFacts, PlaceFacts
<1> QED
  BY <1>1, <1>2, <1>3, PlaceFacts

LEMMA StepRecorded == ASSUME Shape, Recorded, Next PROVE Recorded'
<1>1. UNCHANGED <<tokens>> /\ Places' = Places
  BY StepTree DEF Places
<1>2. diagnostics' \subseteq Places
  BY StepReports DEF Reports, Recorded
<1>3. CASE Tree
  BY <1>1, <1>2, <1>3 DEF Recorded, Tree
<1>4. CASE Collects
  BY <1>1, <1>2, <1>4, PlaceFacts DEF Recorded, Collects
<1>5. CASE Combines
  <2>1. [op |-> Top.op, first |-> Top.node.first, last |-> pos - 1] \in
          [op : 1..Len(tokens), first : 1..Len(tokens), last : 1..Len(tokens)]
    BY <1>5, CombineFacts, PlaceFacts
  <2> QED
    BY <1>1, <1>2, <1>5, <2>1 DEF Recorded, Combines
<1> QED
  BY <1>3, <1>4, <1>5, StepTree

LEMMA ShapeTypes == ASSUME Shape, Recorded PROVE TypeOK
<1>1. DOMAIN stack = 1..Len(stack) /\ \A i \in 1..Len(stack) : stack[i] \in Frames
  BY LenProperties, ElementOfSeq DEF Shape
<1> QED
  BY <1>1, PlaceFacts DEF Shape, Recorded, TypeOK, Frames, Results

(* The type invariant *)
THEOREM TypeCorrect == Spec => []TypeOK
<1>1. Init => Shape /\ Recorded
  BY InitShape DEF Init, Recorded
<1>2. Shape /\ Recorded /\ [Next]_vars => (Shape /\ Recorded)'
  <2> SUFFICES ASSUME Shape, Recorded, [Next]_vars PROVE Shape' /\ Recorded'
    OBVIOUS
  <2>1. Shape'
    BY StepShape
  <2>2. CASE UNCHANGED vars
    BY <2>1, <2>2 DEF vars, Recorded, Places
  <2> QED
    BY <2>1, <2>2, StepRecorded
<1> QED
  BY <1>1, <1>2, ShapeTypes, PTL DEF Spec

-----------------------------------------------------------------------------
(* What an action costs *)
LEMMA WeightFacts ==
  ASSUME NEW at, NEW next
  PROVE  /\ Starting(at, next) \in 0..15 /\ Returning(at) \in 0..16 /\ Failing(at) \in 0..6
BY DEF Starting, Returning, Failing

LEMMA CallerWeights ==
  ASSUME NEW u, NEW at, at \in Callees(u)
  PROVE  /\ at \in {"Function", "Params", "Body"} => Returning(u) = 6 /\ Failing(u) = 6
         /\ at \in Statements => Returning(u) = 16 /\ Failing(u) = 1
         /\ at = "Block" => Returning(u) <= 13 /\ Failing(u) <= 3
         /\ at \in Expressions => Returning(u) <= 3 /\ Failing(u) <= 3
         /\ at \in Primaries => Returning(u) <= 5 /\ Failing(u) = 0
BY DEF Returning, Failing, Callees, Statements, Expressions, Primaries

(* What is left apart from the tokens and the calls *)
Pending ==
  CASE ret.is = "none" -> Starting(Top.at, Kind(pos))
    [] ret.is = "node" -> Returning(Top.at)
    [] ret.is = "null" -> Failing(Top.at)

LEMMA CostNow ==
  ASSUME Shape, stack # <<>>
  PROVE  /\ Len(stack) \in Nat \ {0} /\ Pending \in 0..16
         /\ StepsLeft = 21 * (Len(tokens) + 1 - pos) + 4 * Len(stack) + Pending
<1>1. Len(stack) \in Nat \ {0}
  BY EmptySeq, LenProperties DEF Shape
<1>2. Pending \in 0..16
  BY WeightFacts, PlaceFacts DEF Pending
<1> QED
  BY <1>1, <1>2 DEF StepsLeft, Cost, Pending

LEMMA CostThen ==
  ASSUME UNCHANGED tokens, stack' # <<>>
  PROVE  StepsLeft' = Cost(pos', Len(stack'), Last(stack').at, ret'.is)
BY DEF StepsLeft, Cost, Top, Kind, Starting, Returning, Failing

LEMMA BecomeCost ==
  ASSUME Shape, stack # <<>>, UNCHANGED tokens, NEW f, Become(f)
  PROVE  StepsLeft' = 21 * (Len(tokens) + 1 - pos') + 4 * Len(stack) + Starting(f.at, Kind(pos'))
<1>1. IsSeq(Front(stack)) /\ Len(Front(stack)) = Len(stack) - 1 /\ Len(stack) \in Nat
  BY FrontFacts DEF Shape, IsSeq
<1>2. Last(stack') = f /\ Len(stack') = Len(stack) /\ stack' # <<>> /\ ret'.is = "none"
  BY <1>1, Appended, NothingFacts DEF Become, Last
<1> QED
  BY <1>2, CostThen DEF Cost

LEMMA CallCost ==
  ASSUME Shape, stack # <<>>, UNCHANGED tokens, NEW f, NEW g, Call(f, g)
  PROVE  StepsLeft' = 21 * (Len(tokens) + 1 - pos') + 4 * (Len(stack) + 1) + Starting(g.at, Kind(pos'))
<1> DEFINE below == Append(Front(stack), f)
<1>1. /\ IsSeq(Front(stack)) /\ Len(Front(stack)) = Len(stack) - 1 /\ Len(stack) \in Nat
      /\ stack' = Append(below, g) /\ ret' = Nothing
  BY FrontFacts, CallIs DEF Shape, IsSeq
<1>2. IsSeq(below) /\ Len(below) = Len(stack)
  BY <1>1, Appended
<1> HIDE DEF below
<1>3. Last(stack') = g /\ Len(stack') = Len(stack) + 1 /\ stack' # <<>> /\ ret'.is = "none"
  BY <1>1, <1>2, Appended, NothingFacts DEF Last
<1> QED
  BY <1>3, CostThen DEF Cost

LEMMA PopCost ==
  ASSUME Shape, stack # <<>>, Top.at # "Program", UNCHANGED tokens, stack' = Front(stack)
  PROVE  \E u \in Labels :
           /\ Top.at \in Callees(u)
           /\ ret'.is = "node" =>
                StepsLeft' = 21 * (Len(tokens) + 1 - pos') + 4 * (Len(stack) - 1) + Returning(u)
           /\ ret'.is = "null" =>
                StepsLeft' = 21 * (Len(tokens) + 1 - pos') + 4 * (Len(stack) - 1) + Failing(u)
<1>1. /\ stack' # <<>> /\ Last(stack').at \in Labels /\ Top.at \in Callees(Last(stack').at)
  BY InnerFacts, PlaceFacts DEF Waits
<1>2. Len(stack') = Len(stack) - 1
  BY FrontFacts DEF Shape
<1> QED
  BY <1>1, <1>2, CostThen DEF Cost

Cheaper == StepsLeft' < StepsLeft

LEMMA Moved ==
  ASSUME Shape, UNCHANGED tokens, NEW p \in Int, pos < p, Kind(pos) # "eof", To(p)
  PROVE  pos < pos' /\ pos' \in Nat
BY KindFacts, PlaceFacts DEF To

LEMMA Balance ==
  ASSUME NEW l \in Nat, NEW p \in Int, NEW q \in Int, NEW n \in Int, NEW m \in Int,
         NEW v \in 0..16, NEW w \in 0..16, p <= q, m <= n + 1,
         p < q \/ 4 * m + w < 4 * n + v
  PROVE  21 * (l + 1 - q) + 4 * m + w < 21 * (l + 1 - p) + 4 * n + v
OBVIOUS

(* One action, by the calls and the pending work it leaves *)
LEMMA Cheap ==
  ASSUME Shape, stack # <<>>, Advances, NEW m \in Int, NEW w \in 0..16, m <= Len(stack) + 1,
         StepsLeft' = 21 * (Len(tokens) + 1 - pos') + 4 * m + w,
         pos < pos' \/ 4 * m + w < 4 * Len(stack) + Pending
  PROVE  Cheaper
<1>1. /\ Len(tokens) \in Nat /\ pos \in Int
  BY PlaceFacts
<1>2. pos' \in Int /\ pos <= pos'
  BY <1>1 DEF Advances
<1>3. /\ Len(stack) \in Int /\ Pending \in 0..16
      /\ StepsLeft = 21 * (Len(tokens) + 1 - pos) + 4 * Len(stack) + Pending
  <2>1. \A n \in Nat \ {0} : n \in Int
    OBVIOUS
  <2> QED
    BY <2>1, CostNow, Zenon
<1>4. 21 * (Len(tokens) + 1 - pos') + 4 * m + w < 21 * (Len(tokens) + 1 - pos) + 4 * Len(stack) + Pending
  BY <1>1, <1>2, <1>3, Balance, Zenon
<1> QED
  BY <1>3, <1>4, Zenon DEF Cheaper

LEMMA BecomeCheaper ==
  ASSUME Shape, stack # <<>>, Advances, NEW f, Become(f),
         pos < pos' \/ Starting(f.at, Kind(pos')) < Pending
  PROVE  Cheaper
<1> DEFINE w == Starting(f.at, Kind(pos'))
<1>1. StepsLeft' = 21 * (Len(tokens) + 1 - pos') + 4 * Len(stack) + w
  BY BecomeCost DEF Advances
<1>2. w \in 0..16 /\ Len(stack) \in Int /\ Pending \in Int /\ Len(stack) <= Len(stack) + 1
  BY WeightFacts, CostNow
<1>3. pos < pos' \/ w < Pending
  OBVIOUS
<1> HIDE DEF w
<1>4. pos < pos' \/ 4 * Len(stack) + w < 4 * Len(stack) + Pending
  BY <1>2, <1>3
<1> QED
  BY <1>1, <1>2, <1>4, Cheap, Zenon

LEMMA CallCheaper ==
  ASSUME Shape, stack # <<>>, Advances, NEW f, NEW g, Call(f, g),
         pos < pos' \/ Starting(g.at, Kind(pos')) + 4 < Pending
  PROVE  Cheaper
<1> DEFINE w == Starting(g.at, Kind(pos'))
<1>1. StepsLeft' = 21 * (Len(tokens) + 1 - pos') + 4 * (Len(stack) + 1) + w
  BY CallCost DEF Advances
<1>2. /\ w \in 0..16 /\ Len(stack) \in Int /\ Len(stack) + 1 \in Int /\ Pending \in Int
      /\ Len(stack) + 1 <= Len(stack) + 1
  BY WeightFacts, CostNow
<1>3. pos < pos' \/ w + 4 < Pending
  OBVIOUS
<1> HIDE DEF w
<1>4. pos < pos' \/ 4 * (Len(stack) + 1) + w < 4 * Len(stack) + Pending
  BY <1>2, <1>3
<1> QED
  BY <1>1, <1>2, <1>4, Cheap, Zenon

LEMMA PopCheaper ==
  ASSUME Shape, stack # <<>>, Advances, NEW w \in 0..16,
         StepsLeft' = 21 * (Len(tokens) + 1 - pos') + 4 * (Len(stack) - 1) + w,
         pos < pos' \/ w < Pending + 4
  PROVE  Cheaper
<1>1. Len(stack) \in Int /\ Len(stack) - 1 \in Int /\ Pending \in Int /\ Len(stack) - 1 <= Len(stack) + 1
  BY CostNow
<1>2. pos < pos' \/ 4 * (Len(stack) - 1) + w < 4 * Len(stack) + Pending
  BY <1>1
<1> QED
  BY <1>1, <1>2, Cheap, Zenon

LEMMA NullCheaper ==
  ASSUME Shape, stack # <<>>, Top.at # "Program", UNCHANGED tokens,
         NEW p \in Int, pos <= p, To(p), Null,
         Top.at \in {"Function", "Params", "Body"} => pos < pos' \/ 3 <= Pending
  PROVE  Cheaper
<1>1. Advances /\ stack' = Front(stack) /\ ret'.is = "null"
  BY ToFacts DEF Null, Returned
<1>2. PICK u \in Labels :
        /\ Top.at \in Callees(u)
        /\ StepsLeft' = 21 * (Len(tokens) + 1 - pos') + 4 * (Len(stack) - 1) + Failing(u)
  BY <1>1, PopCost
<1> DEFINE w == Failing(u)
<1>3. w \in 0..6 /\ (Top.at \in {"Function", "Params", "Body"} \/ w <= 3)
  <2>1. Failing(u) \in 0..6
    BY WeightFacts
  <2>2. Top.at \in {"Function", "Params", "Body", "Block"} \cup Statements \cup Expressions \cup Primaries
    BY <1>2 DEF Callees, Statements, Expressions, Primaries
  <2> QED
    BY <1>2, <2>1, <2>2, CallerWeights
<1>4. StepsLeft' = 21 * (Len(tokens) + 1 - pos') + 4 * (Len(stack) - 1) + w
  BY <1>2
<1> HIDE DEF w
<1>5. Pending \in 0..16
  BY CostNow
<1>6. w \in 0..16 /\ (pos < pos' \/ w < Pending + 4)
  BY <1>3, <1>5
<1> QED
  BY <1>1, <1>4, <1>6, PopCheaper, Zenon

LEMMA ReturnCheaper ==
  ASSUME Shape, stack # <<>>, Top.at # "Program", UNCHANGED tokens,
         NEW p \in Int, pos <= p, To(p), NEW node, Return(node),
         \/ pos < pos'
         \/ Top.at \in Expressions
         \/ Top.at \in Primaries /\ 2 <= Pending
         \/ Top.at = "Body" /\ 3 <= Pending
         \/ Top.at \in Statements /\ 13 <= Pending
  PROVE  Cheaper
<1>1. Advances /\ stack' = Front(stack) /\ ret'.is = "node"
  BY ToFacts DEF Return, Returned
<1>2. PICK u \in Labels :
        /\ Top.at \in Callees(u)
        /\ StepsLeft' = 21 * (Len(tokens) + 1 - pos') + 4 * (Len(stack) - 1) + Returning(u)
  BY <1>1, PopCost
<1> DEFINE w == Returning(u)
<1>3. /\ w \in 0..16
      /\ Top.at \in Expressions => w <= 3
      /\ Top.at \in Primaries => w <= 5
      /\ Top.at = "Body" => w = 6
  BY <1>2, WeightFacts, CallerWeights
<1>4. StepsLeft' = 21 * (Len(tokens) + 1 - pos') + 4 * (Len(stack) - 1) + w
  BY <1>2
<1> HIDE DEF w
<1>5. Pending \in 0..16
  BY CostNow
<1>6. pos < pos' \/ w < Pending + 4
  BY <1>3, <1>5
<1> QED
  BY <1>1, <1>3, <1>4, <1>6, PopCheaper, Zenon

(* An action that consumes a token *)
LEMMA MovesOn ==
  ASSUME Shape, stack # <<>>, Top.at # "Program", UNCHANGED tokens,
         NEW p \in Int, pos < p, Kind(pos) # "eof", To(p),
         \/ \E f : Become(f)
         \/ \E f, g : Call(f, g)
         \/ \E node : Return(node)
         \/ Null
  PROVE  Cheaper
<1>1. pos < pos' /\ Advances /\ pos <= p
  BY Moved, ToFacts, PlaceFacts
<1> QED
  BY <1>1, BecomeCheaper, CallCheaper, ReturnCheaper, NullCheaper

LEMMA ProgramCost == ASSUME Shape, Program PROVE Cheaper
<1>1. /\ stack # <<>> /\ Top.at = "Program" /\ UNCHANGED tokens /\ Len(stack) \in Nat \ {0}
      /\ Len(tokens) \in Nat /\ pos \in Nat /\ pos <= Len(tokens) + 1
  BY CostNow, PlaceFacts DEF Program, In, Got, GotNull, Tree
<1>2. CASE In("Program") /\ stack' = <<>> /\ UNCHANGED pos
  <2>1. StepsLeft' = 0
    BY <1>2 DEF StepsLeft
  <2>2. /\ Pending \in 0..16
        /\ StepsLeft = 21 * (Len(tokens) + 1 - pos) + 4 * Len(stack) + Pending
    BY <1>1, CostNow
  <2> QED
    BY <1>1, <2>1, <2>2 DEF Cheaper
<1>3. ASSUME UNCHANGED stack, ret'.is = "none", Advances, pos < pos' \/ 5 < Pending
      PROVE  Cheaper
  <2>1. StepsLeft' = 21 * (Len(tokens) + 1 - pos') + 4 * Len(stack) + 5
    BY <1>1, <1>3, CostThen DEF Cost, Starting, Top
  <2>2. /\ Len(stack) \in Int /\ Len(stack) <= Len(stack) + 1 /\ Pending \in Int
        /\ 5 \in 0..16
    BY <1>1, CostNow
  <2>3. pos < pos' \/ 4 * Len(stack) + 5 < 4 * Len(stack) + Pending
    BY <1>3, <2>2
  <2> QED
    BY <1>1, <1>3, <2>1, <2>2, <2>3, Cheap, Zenon
<1>4. CASE /\ In("Program") /\ Kind(pos) \notin {"eof", "func"} /\ To(Until(pos, {"func"}))
           /\ UNCHANGED <<stack, ret>>
  <2> DEFINE q == Until(pos, {"func"})
  <2>1. q \in pos..Len(tokens) + 1 /\ (q <= Len(tokens) => tokens[q] \in {"func"})
    BY UntilFacts, PlaceFacts
  <2> HIDE DEF q
  <2>2. q # pos
    BY <1>4, <2>1, KindFacts, PlaceFacts
  <2>3. Advances /\ pos < pos'
    BY <1>1, <1>4, <2>1, <2>2, ToFacts DEF q
  <2> QED
    BY <1>3, <1>4, <2>3 DEF In
<1>5. CASE /\ In("Program") /\ stack' = Append(stack, Calls("Function", pos)) /\ UNCHANGED ret
           /\ To(pos)
  <2> DEFINE g == Calls("Function", pos)
  <2>1. Advances /\ pos' = pos
    BY <1>1, <1>5, ToFacts
  <2>2. Last(stack') = g /\ Len(stack') = Len(stack) + 1 /\ stack' # <<>>
    BY <1>5, Appended DEF Shape, IsSeq, Last
  <2>3. g.at = "Function"
    BY CallsFacts DEF Labels, Shape
  <2> HIDE DEF g
  <2>4. StepsLeft' = 21 * (Len(tokens) + 1 - pos') + 4 * (Len(stack) + 1) + 0
    BY <1>1, <1>5, <2>2, <2>3, CostThen DEF Cost, Starting, In
  <2>5. Pending = 5
    BY <1>1, <1>5 DEF Pending, Starting, In
  <2>6. /\ Len(stack) + 1 \in Int /\ Len(stack) + 1 <= Len(stack) + 1
        /\ 4 * (Len(stack) + 1) + 0 < 4 * Len(stack) + Pending /\ 0 \in 0..16
    BY <1>1, <2>5
  <2> QED
    BY <1>1, <2>1, <2>4, <2>6, Cheap, Zenon
<1>6. CASE Got("Program") /\ ret' = Nothing /\ UNCHANGED <<pos, stack>>
  <2>1. Advances /\ Pending = 6 /\ UNCHANGED stack /\ ret'.is = "none"
    BY <1>1, <1>6, NothingFacts DEF Advances, Pending, Returning, Got
  <2> QED
    BY <1>3, <2>1
<1>7. CASE GotNull("Program") /\ ret' = Nothing /\ To(Until(pos, {"func"})) /\ UNCHANGED stack
  <2>1. Until(pos, {"func"}) \in pos..Len(tokens) + 1
    BY UntilFacts, PlaceFacts
  <2>2. Advances /\ Pending = 6 /\ ret'.is = "none"
    BY <1>1, <1>7, <2>1, ToFacts, NothingFacts DEF Pending, Failing, GotNull
  <2> QED
    BY <1>3, <1>7, <2>2
<1> QED
  BY <1>2, <1>4, <1>5, <1>6, <1>7 DEF Program, Error, Skip

LEMMA FunctionNameCost == ASSUME Shape, FunctionName PROVE Cheaper
<1> DEFINE n == Matched(pos, Function)
<1>1. /\ stack # <<>> /\ Top.at = "Function" /\ UNCHANGED tokens /\ pos \in Places
      /\ Kind(pos) = "func"
  BY TopFacts DEF FunctionName, In, Innermost, Tree, Shape
<1>2. n \in 1..3
  BY <1>1, Match3 DEF Function
<1>3. CASE To(pos + n) /\ Null
  <2> HIDE DEF n
  <2>1. pos + n \in Int /\ pos < pos + n
    BY <1>2, PlaceFacts
  <2> QED
    BY <1>1, <1>3, <2>1, MovesOn
<1>4. CASE To(pos + 3) /\ \E f : Become(f)
  <2>1. pos + 3 \in Int /\ pos < pos + 3
    BY PlaceFacts
  <2> QED
    BY <1>1, <1>4, <2>1, MovesOn
<1> QED
  BY <1>2, <1>3, <1>4 DEF FunctionName, Error, Skip

LEMMA ParamsCost == ASSUME Shape, Params PROVE Cheaper
<1> DEFINE n == Matched(pos, Parameter)
<1>1. /\ stack # <<>> /\ Top.at = "Params" /\ ret.is = "none" /\ UNCHANGED tokens
      /\ pos \in Places /\ Kind(pos) \notin {"rpar", "eof"}
  BY DEF Params, In, Tree, Shape
<1>2. n \in 0..3 /\ pos + n \in Places
  BY <1>1, Match3
<1>3. CASE n = 3 /\ To(PastComma(pos + 3)) /\ \E f : Become(f)
  <2>1. PastComma(pos + 3) \in Int /\ pos < PastComma(pos + 3)
    BY PlaceFacts DEF PastComma
  <2> QED
    BY <1>1, <1>3, <2>1, MovesOn
<1>4. CASE n < 3 /\ To(PastComma(Until(pos + n, {"comma", "rpar"}))) /\ UNCHANGED <<stack, ret>>
  <2> DEFINE q == Until(pos + n, {"comma", "rpar"})
  <2>1. q \in pos + n..Len(tokens) + 1 /\ (q <= Len(tokens) => tokens[q] \in {"comma", "rpar"})
    BY <1>2, UntilFacts, PlaceFacts DEF Places
  <2> HIDE DEF q, n
  <2>2. q # pos \/ Kind(q) = "comma"
    BY <1>1, <2>1, KindFacts, PlaceFacts
  <2>3. PastComma(q) \in Int /\ pos < PastComma(q)
    BY <1>2, <2>1, <2>2, PlaceFacts DEF PastComma
  <2>4. pos < pos' /\ Advances
    BY <1>1, <1>4, <2>3, Moved, ToFacts, PlaceFacts DEF q
  <2>5. StepsLeft' = 21 * (Len(tokens) + 1 - pos') + 4 * Len(stack) + 3
    BY <1>1, <1>4, CostThen DEF Cost, Starting, Top
  <2>6. Len(stack) \in Int /\ Len(stack) <= Len(stack) + 1 /\ 3 \in 0..16
    BY <1>1, CostNow
  <2> QED
    BY <1>1, <2>4, <2>5, <2>6, Cheap, Zenon
<1> QED
  BY <1>2, <1>3, <1>4 DEF Params, Error, Skip

LEMMA BodyCost == ASSUME Shape, Body PROVE Cheaper
<1>1. /\ stack # <<>> /\ Top.at \in {"Params", "Body"} /\ Top.at # "Program" /\ UNCHANGED tokens
      /\ pos \in Int /\ pos <= pos
  BY PlaceFacts DEF Body, In, Got, GotNull, Tree
<1>2. CASE /\ In("Params") /\ Kind(pos) \in {"rpar", "eof"} /\ Tree
           /\ LET p == IF Kind(pos) = "rpar" THEN pos + 1 ELSE pos
                  n == Matched(p, Signature)
              IN  IF n < 3 THEN Error(p + n, p + n) /\ Null
                  ELSE /\ Skip(p + 3)
                       /\ Call(Plain("Body", Keeps(Top.node, {p + 1})), Calls("Block", p + 2))
  <2> DEFINE p == IF Kind(pos) = "rpar" THEN pos + 1 ELSE pos
             n == Matched(p, Signature)
  <2>1. p \in Places /\ pos <= p /\ Pending = 3
    BY <1>2, KindFacts, PlaceFacts DEF Places, Pending, Starting, In
  <2>2. IF n < 3 THEN To(p + n) /\ Null ELSE To(p + 3) /\ \E f, g : Call(f, g)
    BY <1>2 DEF Error, Skip
  <2>3. Kind(pos) = "eof" => p = pos
    BY DEF p
  <2> HIDE DEF p
  <2>4. /\ n \in 0..3 /\ p + n \in Places
        /\ n = 3 => Kind(p) = "colon" /\ p \in Nat
    <3>1. n \in 0..3 /\ p + n \in Places /\ (n >= 1 => Kind(p) \in Signature[1])
      BY <2>1, Match3
    <3>2. Signature[1] = {"colon"} /\ p \in Nat
      BY <2>1, PlaceFacts DEF Signature, Places
    <3> HIDE DEF n
    <3> QED
      BY <3>1, <3>2
  <2> HIDE DEF n
  <2>5. CASE n < 3
    <3>1. p + n \in Int /\ pos <= p + n /\ To(p + n) /\ Null
      BY <2>1, <2>2, <2>4, <2>5, PlaceFacts DEF Places
    <3> QED
      BY <1>1, <2>1, <3>1, NullCheaper
  <2>6. CASE n = 3
    <3>1. Kind(pos) # "eof"
      BY <2>3, <2>4, <2>6
    <3>2. p + 3 \in Int /\ pos < p + 3 /\ To(p + 3) /\ \E f, g : Call(f, g)
      BY <2>1, <2>2, <2>4, <2>6, PlaceFacts
    <3> QED
      BY <1>1, <3>1, <3>2, MovesOn
  <2> QED
    BY <2>4, <2>5, <2>6
<1>3. CASE Got("Body") /\ Return(Keeps(Top.node, ret.node.keeps)) /\ To(pos)
  <2>1. Pending = 3 /\ Top.at = "Body"
    BY <1>3 DEF Got, Pending, Returning
  <2> QED
    BY <1>1, <1>3, <2>1, ReturnCheaper
<1>4. CASE GotNull("Body") /\ Null /\ To(pos)
  <2>1. Pending = 3
    BY <1>4 DEF GotNull, Pending, Failing
  <2> QED
    BY <1>1, <1>4, <2>1, NullCheaper
<1> QED
  BY <1>2, <1>3, <1>4 DEF Body, Skip

LEMMA BlockCost == ASSUME Shape, Block PROVE Cheaper
<1>1. /\ stack # <<>> /\ Top.at = "Block" /\ Top.at # "Program" /\ UNCHANGED tokens
      /\ pos \in Int /\ pos + 1 \in Int /\ pos <= pos /\ pos < pos + 1 /\ pos <= pos + 1
  BY PlaceFacts DEF Block, In, Got, GotNull, Tree
<1>2. CASE Kind(pos) = "rbrace" /\ Return(Top.node) /\ To(pos + 1)
  BY <1>1, <1>2, MovesOn
<1>3. CASE Null /\ To(pos)
  BY <1>1, <1>3, NullCheaper
<1>4. CASE In("Block") /\ Kind(pos) \notin {"rbrace", "eof"} /\ Call(Top, Calls("Stmt", pos)) /\ To(pos)
  <2>1. Pending = 15 /\ Advances
    BY <1>1, <1>4, ToFacts DEF In, Pending, Starting
  <2>2. Starting(Calls("Stmt", pos).at, Kind(pos')) = 10
    BY DEF Calls, Plain, Frame, Starting
  <2> QED
    BY <1>1, <1>4, <2>1, <2>2, CallCheaper
<1>5. CASE Got("Block") /\ Become(Plain("Block", Keeps(Top.node, ret.node.keeps))) /\ To(pos)
  <2>1. Pending = 16 /\ Advances
    BY <1>1, <1>5, ToFacts DEF Got, Pending, Returning
  <2> DEFINE w == Starting(Plain("Block", Keeps(Top.node, ret.node.keeps)).at, Kind(pos'))
  <2>2. w \in 0..15
    BY WeightFacts
  <2>3. w < Pending
    BY <2>1, <2>2
  <2> QED
    BY <1>1, <1>5, <2>1, <2>3, BecomeCheaper
<1>6. CASE GotNull("Block") /\ Become(Top) /\ To(IF Kind(pos) = "rbrace" THEN pos ELSE pos + 1)
  <2>1. CASE Kind(pos) \in {"rbrace", "eof"}
    <3>1. Advances /\ Kind(pos') = Kind(pos)
      <4>1. CASE Kind(pos) = "rbrace"
        BY <1>1, <1>6, <4>1, PlaceFacts, ToFacts
      <4>2. CASE Kind(pos) = "eof"
        <5>1. "eof" \notin Kinds
          BY DEF Kinds, Atoms, TypeName, Keyword, Operator, Brackets
        <5>2. pos = Len(tokens) + 1 /\ To(pos + 1)
          BY <1>6, <4>2, <5>1, KindFacts, PlaceFacts
        <5>3. Advances /\ pos' = pos
          BY <1>1, <5>2, PlaceFacts DEF To, Advances
        <5> QED
          BY <5>3
      <4> QED
        BY <2>1, <4>1, <4>2
    <3>2. Pending = 1 /\ Starting(Top.at, Kind(pos')) = 0
      BY <1>6, <2>1, <3>1 DEF GotNull, Pending, Failing, Starting
    <3> QED
      BY <1>1, <1>6, <3>1, <3>2, BecomeCheaper
  <2>2. CASE Kind(pos) \notin {"rbrace", "eof"}
    BY <1>1, <1>6, <2>2, MovesOn
  <2> QED
    BY <2>1, <2>2
<1> QED
  BY <1>2, <1>3, <1>4, <1>5, <1>6 DEF Block, Error, Skip

LEMMA StmtCost == ASSUME Shape, Stmt PROVE Cheaper
<1>1. /\ stack # <<>> /\ Top.at = "Stmt" /\ ret.is = "none" /\ UNCHANGED tokens
      /\ Top.at # "Program" /\ Top.at \notin {"Function", "Params", "Body"}
      /\ pos \in Int /\ pos <= pos /\ pos <= pos + 1
      /\ \A n \in {1, 2, 3} : pos + n \in Int /\ pos < pos + n
  BY PlaceFacts DEF Stmt, In, Tree
<1>2. CASE To(pos + 1) /\ Null
  BY <1>1, <1>2, NullCheaper
<1>3. CASE /\ Kind(pos) # "eof" /\ \E n \in {1, 2, 3} : To(pos + n)
           /\ (\E f : Become(f)) \/ (\E f, g : Call(f, g)) \/ (\E node : Return(node))
  <2>1. PICK n \in {1, 2, 3} : To(pos + n)
    BY <1>3
  <2> QED
    BY <1>1, <1>3, <2>1, MovesOn, Zenon
<1>4. CASE To(pos) /\ Call(Calls("ExprStmt", pos), Calls("Expr", pos))
  <2>1. Pending = 10 /\ Advances
    BY <1>1, <1>4, ToFacts DEF Pending, Starting
  <2>2. Starting(Calls("Expr", pos).at, Kind(pos')) = 5
    BY DEF Calls, Plain, Frame, Starting
  <2> QED
    BY <1>1, <1>4, <2>1, <2>2, CallCheaper
<1>5. CASE Kind(pos) = "cf_return"
  <2>1. \/ To(pos + 2) /\ \E node : Return(node)
        \/ To(pos + 1) /\ \E f, g : Call(f, g)
    BY <1>5, Zenon DEF Stmt, Skip
  <2> QED
    BY <1>3, <1>5, <2>1
<1>6. CASE Kind(pos) \in {"cf_if", "cf_while"}
  <2>1. \/ To(pos + 1) /\ Null
        \/ To(pos + 2) /\ \E f, g : Call(f, g)
    BY <1>6 DEF Stmt, Skip, Error
  <2> QED
    BY <1>2, <1>3, <1>6, <2>1
<1>7. CASE Kind(pos) \in {"cf_int", "cf_float"}
  <2>1. \/ To(pos + 1) /\ \E f : Become(f)
        \/ To(pos + 3) /\ \E f, g : Call(f, g)
        \/ To(pos + 2) /\ \E f : Become(f)
    BY <1>7 DEF Stmt, Skip, Error
  <2> QED
    BY <1>3, <1>7, <2>1
<1>8. CASE Kind(pos) \notin {"cf_return", "cf_if", "cf_while", "cf_int", "cf_float"}
  BY <1>4, <1>8 DEF Stmt, Skip
<1> QED
  BY <1>5, <1>6, <1>7, <1>8

LEMMA ReturnStmtCost == ASSUME Shape, ReturnStmt PROVE Cheaper
<1>1. /\ stack # <<>> /\ Top.at = "Return" /\ UNCHANGED tokens
      /\ pos \in Int /\ pos + 1 \in Int /\ pos <= pos /\ pos < pos + 1
  BY PlaceFacts DEF ReturnStmt, Got, GotNull, Tree
<1>2. CASE Null /\ To(pos)
  BY <1>1, <1>2, NullCheaper
<1>3. CASE Kind(pos) = "semi" /\ Return(Keeps(Top.node, ret.node.keeps)) /\ To(pos + 1)
  BY <1>1, <1>3, MovesOn
<1> QED
  BY <1>2, <1>3 DEF ReturnStmt, Skip, Error

LEMMA SemicolonCost ==
  ASSUME Shape, stack # <<>>, Top.at \in Statements, UNCHANGED tokens, NEW node, Semicolon(node)
  PROVE  Cheaper
<1>1. /\ Top.at \notin {"Program", "Function", "Params", "Body"}
      /\ pos \in Int /\ pos + 1 \in Int /\ pos < pos + 1 /\ pos <= pos + 1
  BY PlaceFacts DEF Statements
<1>2. CASE Kind(pos) = "semi" /\ Return(node) /\ To(pos + 1)
  BY <1>1, <1>2, MovesOn
<1>3. CASE Null /\ To(pos + 1)
  BY <1>1, <1>3, NullCheaper
<1> QED
  BY <1>2, <1>3, SemicolonCases

LEMMA ExprStmtCost == ASSUME Shape, ExprStmt PROVE Cheaper
<1>1. /\ stack # <<>> /\ Top.at = "ExprStmt" /\ Top.at \in Statements /\ UNCHANGED tokens
  BY DEF ExprStmt, Got, GotNull, Tree, Statements
<1>2. CASE Null /\ To(AfterBadStmt)
  <2>1. AfterBadStmt \in Int /\ pos <= AfterBadStmt
    BY AfterBadStmtFacts, PlaceFacts
  <2> QED
    BY <1>1, <1>2, <2>1, NullCheaper
<1> QED
  BY <1>1, <1>2, SemicolonCost DEF ExprStmt, Skip

LEMMA VariableDeclCost == ASSUME Shape, VariableDecl PROVE Cheaper
<1>1. /\ stack # <<>> /\ Top.at \in {"Declared", "Initializer", "BadStmt"} /\ Top.at \in Statements
      /\ UNCHANGED tokens /\ pos \in Int /\ pos <= pos
  BY PlaceFacts DEF VariableDecl, In, Got, GotNull, Tree, Statements
<1>2. CASE Null /\ To(AfterBadStmt)
  <2>1. AfterBadStmt \in Int /\ pos <= AfterBadStmt
    BY AfterBadStmtFacts, PlaceFacts
  <2> QED
    BY <1>1, <1>2, <2>1, NullCheaper
<1>3. CASE GotNull("Initializer") /\ Become(Plain("BadStmt", Top.node)) /\ To(pos)
  <2>1. Pending = 1 /\ Advances
    BY <1>1, <1>3, ToFacts DEF GotNull, Pending, Failing
  <2>2. Starting(Plain("BadStmt", Top.node).at, Kind(pos')) = 0
    BY DEF Plain, Frame, Starting
  <2> QED
    BY <1>1, <1>3, <2>1, <2>2, BecomeCheaper
<1> QED
  BY <1>1, <1>2, <1>3, SemicolonCost DEF VariableDecl, Skip, Error

LEMMA ConditionCost == ASSUME Shape, Condition PROVE Cheaper
<1> DEFINE n == Matched(pos, Opening)
<1>1. /\ stack # <<>> /\ Top.at = "Condition" /\ UNCHANGED tokens
      /\ pos \in Int /\ pos <= pos /\ pos \in Places /\ pos + 2 \in Int /\ pos < pos + 2
  BY PlaceFacts DEF Condition, Got, GotNull, Tree, Shape
<1>2. /\ n \in 0..2 /\ pos + n \in Int /\ pos <= pos + n
      /\ n = 2 => Kind(pos) = "rpar"
  BY <1>1, Match2
<1>3. CASE Null /\ (To(pos) \/ To(pos + n))
  BY <1>1, <1>2, <1>3, NullCheaper
<1>4. CASE n = 2 /\ To(pos + 2) /\ \E f, g : Call(f, g)
  <2> HIDE DEF n
  <2> QED
    BY <1>1, <1>2, <1>4, MovesOn
<1> QED
  BY <1>2, <1>3, <1>4 DEF Condition, Skip, Error, Opening

LEMMA BranchesCost == ASSUME Shape, Branches PROVE Cheaper
<1>1. /\ stack # <<>> /\ Top.at \in {"Then", "Else"} /\ UNCHANGED tokens /\ Top.at # "Program"
      /\ Top.at \in Statements /\ pos \in Int /\ pos + 1 \in Int /\ pos <= pos /\ pos <= pos + 1
      /\ pos + 2 \in Int /\ pos < pos + 2
  BY PlaceFacts DEF Branches, Got, GotNull, Tree, Statements
<1>2. CASE Null /\ (To(pos) \/ To(pos + 1))
  BY <1>1, <1>2, NullCheaper
<1>3. CASE ret.is = "node" /\ Return(Keeps(Top.node, ret.node.keeps)) /\ To(pos)
  <2>1. Pending = 13
    BY <1>1, <1>3 DEF Pending, Returning
  <2> QED
    BY <1>1, <1>3, <2>1, ReturnCheaper
<1>4. CASE Kind(pos) = "cf_else" /\ To(pos + 2) /\ \E f, g : Call(f, g)
  BY <1>1, <1>4, MovesOn
<1> QED
  BY <1>2, <1>3, <1>4 DEF Branches, Skip, Error, Got

LEMMA ExprCost == ASSUME Shape, Expr PROVE Cheaper
<1>1. /\ stack # <<>> /\ Top.at \in {"Expr", "Lhs", "Assign"} /\ UNCHANGED tokens
      /\ Top.at \in Expressions /\ Top.at \notin {"Program", "Function", "Params", "Body"}
      /\ pos \in Int /\ pos + 1 \in Int /\ pos <= pos /\ pos < pos + 1
  BY PlaceFacts DEF Expr, In, Got, GotNull, Tree, Expressions
<1>2. CASE In("Expr") /\ Call(Plain("Lhs", Top.node), Plain("Primary", Top.node)) /\ To(pos)
  <2>1. Pending = 5 /\ Advances
    BY <1>1, <1>2, ToFacts DEF In, Pending, Starting
  <2>2. Starting(Plain("Primary", Top.node).at, Kind(pos')) = 0
    BY DEF Plain, Frame, Starting
  <2> QED
    BY <1>1, <1>2, <2>1, <2>2, CallCheaper
<1>3. CASE Kind(pos) = "equal" /\ To(pos + 1) /\ \E f, g : Call(f, g)
  BY <1>1, <1>3, MovesOn
<1>4. CASE Got("Lhs") /\ Become(Frame("Binary", ret.node, 0, 0)) /\ To(pos)
  <2>1. Pending = 1 /\ Advances
    BY <1>1, <1>4, ToFacts DEF Got, Pending, Returning
  <2>2. Starting(Frame("Binary", ret.node, 0, 0).at, Kind(pos')) = 0
    BY DEF Frame, Starting
  <2> QED
    BY <1>1, <1>4, <2>1, <2>2, BecomeCheaper
<1>5. CASE Null /\ To(pos)
  BY <1>1, <1>5, NullCheaper
<1>6. CASE Return(Keeps(Top.node, ret.node.keeps)) /\ To(pos)
  BY <1>1, <1>6, ReturnCheaper
<1> QED
  BY <1>2, <1>3, <1>4, <1>5, <1>6 DEF Expr, Skip, Error

LEMMA BinaryCost == ASSUME Shape, Binary PROVE Cheaper
<1>1. /\ stack # <<>> /\ Top.at \in {"Binary", "Rhs", "Tighter"} /\ UNCHANGED tokens
      /\ Top.at \in Expressions /\ Top.at \notin {"Program", "Function", "Params", "Body"}
      /\ pos \in Int /\ pos + 1 \in Int /\ pos <= pos /\ pos < pos + 1
  BY PlaceFacts DEF Binary, In, Got, GotNull, Tree, Expressions
<1>2. CASE Return(Top.node) /\ To(pos)
  BY <1>1, <1>2, ReturnCheaper
<1>3. CASE Precedence(Kind(pos)) >= Top.prec /\ To(pos + 1) /\ \E f, g : Call(f, g)
  <2> DEFINE l == Precedence(Kind(pos))
  <2>1. l \in -1..20 /\ (l >= 0 <=> Kind(pos) \in Operator)
    BY PrecedenceFacts, Zenon
  <2>2. l >= Top.prec
    BY <1>3
  <2>3. Top.prec \in Nat
    BY <1>1, TopFacts
  <2> HIDE DEF l
  <2>4. Kind(pos) # "eof"
    BY <2>1, <2>2, <2>3 DEF Operator
  <2> QED
    BY <1>1, <1>3, <2>4, MovesOn
<1>4. CASE /\ Got("Rhs") /\ To(pos)
           /\ Call(Frame("Tighter", Top.node, Top.op, Top.prec),
                   Frame("Binary", ret.node, 0, LevelAbove(Precedence(Kind(Top.op)))))
  <2>1. Pending = 5 /\ Advances
    BY <1>1, <1>4, ToFacts DEF Got, Pending, Returning
  <2>2. Starting(Frame("Binary", ret.node, 0, LevelAbove(Precedence(Kind(Top.op)))).at, Kind(pos')) = 0
    BY DEF Frame, Starting
  <2> QED
    BY <1>1, <1>4, <2>1, <2>2, CallCheaper
<1>5. CASE /\ Got("Rhs") \/ Got("Tighter")
           /\ Become(Frame("Binary", Combined(Top.node, Top.op, ret.node), 0, Top.prec)) /\ To(pos)
  <2>1. Pending \in {1, 5} /\ Advances
    BY <1>1, <1>5, ToFacts DEF Got, Pending, Returning
  <2>2. Starting(Frame("Binary", Combined(Top.node, Top.op, ret.node), 0, Top.prec).at, Kind(pos')) = 0
    BY DEF Frame, Starting
  <2> QED
    BY <1>1, <1>5, <2>1, <2>2, BecomeCheaper
<1>6. CASE Null /\ To(pos)
  BY <1>1, <1>6, NullCheaper
<1> QED
  BY <1>2, <1>3, <1>4, <1>5, <1>6 DEF Binary, Skip

LEMMA PrimaryCost == ASSUME Shape, Primary PROVE Cheaper
<1>1. /\ stack # <<>> /\ Top.at = "Primary" /\ UNCHANGED tokens /\ Top.at # "Program"
      /\ pos \in Int /\ pos + 1 \in Int /\ pos + 2 \in Int /\ pos < pos + 1 /\ pos < pos + 2
      /\ pos <= pos + 1
  BY PlaceFacts DEF Primary, In, Tree
<1>2. CASE Null /\ To(pos + 1)
  BY <1>1, <1>2, NullCheaper
<1>3. CASE /\ Kind(pos) \in Atoms \cup {"lpar", "identifier", "print"}
           /\ To(pos + 1) \/ To(pos + 2)
           /\ (\E f : Become(f)) \/ (\E f, g : Call(f, g)) \/ (\E node : Return(node))
  <2>1. Kind(pos) # "eof"
    BY <1>3 DEF Atoms
  <2> QED
    BY <1>1, <1>3, <2>1, MovesOn, Zenon
<1>4. CASE Kind(pos) \in Atoms
  <2>1. Return(Token) /\ To(pos + 1)
    BY <1>4 DEF Primary, Skip, Atoms
  <2> QED
    BY <1>3, <1>4, <2>1
<1>5. CASE Kind(pos) = "lpar"
  BY <1>3, <1>5 DEF Primary, Skip, Atoms
<1>6. CASE Kind(pos) = "identifier"
  BY <1>3, <1>6 DEF Primary, Skip, Atoms
<1>7. CASE Kind(pos) = "print"
  BY <1>2, <1>3, <1>7 DEF Primary, Skip, Error, Atoms
<1>8. CASE Kind(pos) \notin Atoms \cup {"lpar", "identifier", "print"}
  BY <1>2, <1>8 DEF Primary, Error
<1> QED
  BY <1>4, <1>5, <1>6, <1>7, <1>8

LEMMA ParenCost == ASSUME Shape, Paren PROVE Cheaper
<1>1. /\ stack # <<>> /\ Top.at = "Paren" /\ UNCHANGED tokens
      /\ pos \in Int /\ pos + 1 \in Int /\ pos <= pos /\ pos < pos + 1
  BY PlaceFacts DEF Paren, Got, GotNull, Tree
<1>2. CASE Null /\ To(pos)
  BY <1>1, <1>2, NullCheaper
<1>3. CASE Kind(pos) = "rpar" /\ To(pos + 1) /\ \E node : Return(node)
  BY <1>1, <1>3, MovesOn
<1> QED
  BY <1>2, <1>3 DEF Paren, Skip, Error

LEMMA AtEnd ==
  ASSUME Shape, Kind(pos) = "eof" PROVE pos = Len(tokens) + 1
<1>1. "eof" \notin Kinds
  BY DEF Kinds, Atoms, TypeName, Keyword, Operator, Brackets
<1> QED
  BY <1>1, KindFacts, PlaceFacts

LEMMA ArgsCost == ASSUME Shape, Args PROVE Cheaper
<1>1. /\ stack # <<>> /\ Top.at = "Args" /\ UNCHANGED tokens /\ Top.at # "Program"
      /\ pos \in Int /\ pos + 1 \in Int /\ pos <= pos /\ pos < pos + 1 /\ pos \in Places
  BY PlaceFacts DEF Args, In, Got, GotNull, Tree, Shape
<1>2. CASE /\ In("Args") /\ Kind(pos) \notin {"rpar", "eof"} /\ Call(Top, Calls("Expr", pos))
           /\ To(pos)
  <2>1. Pending = 10 /\ Advances
    BY <1>1, <1>2, ToFacts DEF In, Pending, Starting
  <2>2. Starting(Calls("Expr", pos).at, Kind(pos')) = 5
    BY DEF Calls, Plain, Frame, Starting
  <2> QED
    BY <1>1, <1>2, <2>1, <2>2, CallCheaper
<1>3. ASSUME NEW f, Become(f), f.at = "Args", Advances, Kind(pos') \in {"rpar", "eof"}, Pending = 3
      PROVE  Cheaper
  <2>1. Starting(f.at, Kind(pos')) = 2
    BY <1>3 DEF Starting
  <2> QED
    BY <1>1, <1>3, <2>1, BecomeCheaper
<1>4. CASE /\ Got("Args")
           /\ Become(Frame("Args", Keeps(Top.node, ret.node.keeps), Top.op, Top.prec + 1))
           /\ IF Kind(pos) \in {"comma", "rpar"} THEN To(PastComma(pos)) ELSE To(pos + 1)
  <2> DEFINE f == Frame("Args", Keeps(Top.node, ret.node.keeps), Top.op, Top.prec + 1)
  <2>1. f.at = "Args" /\ Pending = 3 /\ Become(f)
    BY <1>1, <1>4 DEF Frame, Got, Pending, Returning
  <2> HIDE DEF f
  <2>2. CASE Kind(pos) = "rpar"
    <3>1. Advances /\ pos' = pos
      BY <1>1, <1>4, <2>2, ToFacts, PlaceFacts DEF PastComma
    <3> QED
      BY <1>3, <2>1, <2>2, <3>1
  <2>3. CASE Kind(pos) = "eof"
    <3>1. Advances /\ pos' = pos
      BY <1>1, <1>4, <2>3, AtEnd, PlaceFacts DEF To, Advances
    <3> QED
      BY <1>3, <2>1, <2>3, <3>1
  <2>4. CASE Kind(pos) \notin {"rpar", "eof"}
    <3>1. To(pos + 1)
      BY <1>4, <2>4 DEF PastComma
    <3> QED
      BY <1>1, <2>1, <2>4, <3>1, MovesOn
  <2> QED
    BY <2>2, <2>3, <2>4
<1>5. CASE GotNull("Args") /\ Become(Top) /\ To(PastComma(Until(pos, {"comma", "rpar"})))
  <2> DEFINE q == Until(pos, {"comma", "rpar"})
  <2>1. q \in pos..Len(tokens) + 1 /\ (q <= Len(tokens) => tokens[q] \in {"comma", "rpar"})
    BY <1>1, UntilFacts, PlaceFacts
  <2> HIDE DEF q
  <2>2. Kind(q) \in {"comma", "rpar", "eof"} /\ PastComma(q) = (IF Kind(q) = "comma" THEN q + 1 ELSE q)
    BY <2>1, PlaceFacts DEF Kind, PastComma
  <2>3. Pending = 3 /\ To(PastComma(q))
    BY <1>1, <1>5 DEF GotNull, Pending, Failing, q
  <2>4. q \in Places /\ PastComma(q) \in Places /\ pos <= PastComma(q)
    <3>1. q \in Places
      BY <2>1, PlaceFacts DEF Places
    <3> QED
      BY <2>1, <3>1, PastCommaFacts, PlaceFacts DEF Places
  <2>5. Advances /\ pos' = PastComma(q)
    BY <1>1, <2>3, <2>4, ToFacts DEF Places
  <2>6. CASE Kind(q) = "comma"
    <3>1. pos < pos'
      BY <2>1, <2>2, <2>5, <2>6, PlaceFacts
    <3> QED
      BY <1>1, <1>5, <2>5, <3>1, BecomeCheaper
  <2>7. CASE Kind(q) # "comma"
    BY <1>1, <1>3, <1>5, <2>2, <2>3, <2>5, <2>7
  <2> QED
    BY <2>6, <2>7
<1> QED
  BY <1>2, <1>4, <1>5 DEF Args, Skip, Error

LEMMA ArgumentsCost == ASSUME Shape, Arguments PROVE Cheaper
<1>1. /\ stack # <<>> /\ Top.at = "Args" /\ Top.at \in Primaries /\ UNCHANGED tokens
      /\ ret.is = "none" /\ Kind(pos) \in {"rpar", "eof"}
      /\ pos \in Int /\ pos + 1 \in Int /\ pos <= pos + 1 /\ pos < pos + 1
  BY PlaceFacts DEF Arguments, In, Tree, Primaries
<1>2. Pending = 2
  BY <1>1 DEF Pending, Starting
<1>3. CASE Null /\ To(pos + 1)
  BY <1>1, <1>3, NullCheaper
<1>4. CASE Return(Top.node) /\ To(pos + 1)
  BY <1>1, <1>2, <1>4, ReturnCheaper
<1> QED
  BY <1>3, <1>4 DEF Arguments

(* Every action brings the parser nearer to its end, whatever the tokens are: no way round *)
(* a loop, no recovery comes back without a token less.                                    *)
THEOREM ParsingIsLinear == Spec => LinearTime
<1>1. Shape /\ [Next]_vars => [StepsLeft' < StepsLeft]_vars
  BY ProgramCost, FunctionNameCost, ParamsCost, BodyCost, BlockCost, StmtCost, ReturnStmtCost,
     ExprStmtCost, VariableDeclCost, ConditionCost, BranchesCost, ExprCost, BinaryCost,
     PrimaryCost, ParenCost, ArgsCost, ArgumentsCost DEF Next, Cheaper
<1> QED
  BY <1>1, CallsFit, PTL DEF Spec, LinearTime

-----------------------------------------------------------------------------
(* What the calls under way have kept *)
Held(f)     == f.node.keeps \cup (IF f.at \in {"Rhs", "Tighter"} THEN {f.op} ELSE {})
HeldBy(s)   == UNION {Held(s[i]) : i \in 1..Len(s)}
Punctuation == Brackets \cup {"colon", "semi", "comma"}
Worth(p)    == {q \in 1..p - 1 : tokens[q] \notin Punctuation}

(* A declaration that is given up has been diagnosed; the calls that have not built a *)
(* node yet keep nothing.                                                             *)
Empty      == {"Program", "Function", "Stmt", "ExprStmt", "Expr", "Lhs", "Primary", "Paren"}
Keeper(f)  == f.at # "BadStmt" /\ (f.at \in Empty => f.node.keeps = {})
Keepers(s) == \A i \in 1..Len(s) : Keeper(s[i])

(* As long as no error was reported, each token up to here that is worth something is *)
(* kept by a function parsed already, a call under way or what has just been returned. *)
Keeping ==
  diagnostics = {} =>
    /\ Keepers(stack)
    /\ ret.is # "null" /\ (ret.is = "none" => ret.node.keeps = {})
    /\ stack = <<>> => ret.is = "none" /\ pos = Len(tokens) + 1
    /\ Worth(pos) = functions \cup ret.node.keeps \cup HeldBy(stack)

LEMMA HeldLast ==
  ASSUME NEW S, NEW s \in Seq(S), s # <<>>
  PROVE  /\ HeldBy(s) = HeldBy(Front(s)) \cup Held(Last(s))
         /\ Keepers(s) => Keepers(Front(s)) /\ Keeper(Last(s))
<1>1. /\ Len(Front(s)) = Len(s) - 1 /\ Len(s) \in Nat \ {0} /\ Last(s) = s[Len(s)]
      /\ \A i \in 1..Len(s) - 1 : Front(s)[i] = s[i]
  BY FrontFacts
<1>2. 1..Len(s) = 1..(Len(s) - 1) \cup {Len(s)}
  BY <1>1
<1> QED
  BY <1>1, <1>2 DEF HeldBy, Keepers

LEMMA HeldMore ==
  ASSUME NEW s, IsSeq(s), NEW f
  PROVE  /\ HeldBy(Append(s, f)) = HeldBy(s) \cup Held(f)
         /\ Keepers(s) /\ Keeper(f) => Keepers(Append(s, f))
<1>1. /\ Len(Append(s, f)) = Len(s) + 1 /\ Len(s) \in Nat /\ Append(s, f)[Len(s) + 1] = f
      /\ \A i \in 1..Len(s) : Append(s, f)[i] = s[i]
  BY Appended, SeqFacts
<1>2. 1..Len(s) + 1 = 1..Len(s) \cup {Len(s) + 1}
  BY <1>1
<1> QED
  BY <1>1, <1>2 DEF HeldBy, Keepers

(* Before an action that reports no error *)
Clean == diagnostics' = {} /\ diagnostics = {}

LEMMA KeepNow ==
  ASSUME Shape, Keeping, stack # <<>>, diagnostics = {}
  PROVE  /\ Worth(pos) = functions \cup ret.node.keeps \cup HeldBy(Front(stack)) \cup Held(Top)
         /\ Keepers(Front(stack)) /\ Keeper(Top)
         /\ ret.is # "null" /\ (ret.is = "none" => ret.node.keeps = {})
         /\ IsSeq(Front(stack))
<1>1. /\ HeldBy(stack) = HeldBy(Front(stack)) \cup Held(Top)
      /\ Keepers(Front(stack)) /\ Keeper(Top)
  BY HeldLast DEF Shape, Keeping, Top
<1>2. IsSeq(Front(stack))
  BY FrontFacts DEF Shape, IsSeq
<1> QED
  BY <1>1, <1>2 DEF Keeping

LEMMA KeepThen ==
  ASSUME UNCHANGED <<tokens, functions>>, Keepers(stack'), ret'.is # "null",
         ret'.is = "none" => ret'.node.keeps = {}, stack' # <<>>,
         Worth(pos') = functions \cup ret'.node.keeps \cup HeldBy(stack')
  PROVE  Keeping'
<1>1. /\ Keepers(stack)' <=> Keepers(stack')
      /\ HeldBy(stack)' = HeldBy(stack') /\ Worth(pos)' = Worth(pos')
  BY DEF Keepers, Keeper, HeldBy, Held, Worth
<1> QED
  BY <1>1 DEF Keeping

LEMMA KeepBecome ==
  ASSUME Shape, Keeping, stack # <<>>, Clean, UNCHANGED <<tokens, functions>>,
         NEW X, Worth(pos') = Worth(pos) \cup X,
         NEW f, Become(f), Keeper(f), Held(f) = Held(Top) \cup ret.node.keeps \cup X
  PROVE  Keeping'
<1>1. /\ Keepers(stack') /\ HeldBy(stack') = HeldBy(Front(stack)) \cup Held(f)
      /\ ret'.is = "none" /\ ret'.node.keeps = {}
  BY KeepNow, HeldMore DEF Become, Nothing, Returned, Node, Clean
<1>2. stack' # <<>>
  BY KeepNow, Appended, SeqFacts DEF Become, Clean
<1>3. Worth(pos') = functions \cup ret'.node.keeps \cup HeldBy(stack')
  BY <1>1, KeepNow DEF Clean
<1> QED
  BY <1>1, <1>2, <1>3, KeepThen

LEMMA KeepCall ==
  ASSUME Shape, Keeping, stack # <<>>, Clean, UNCHANGED <<tokens, functions>>,
         NEW X, Worth(pos') = Worth(pos) \cup X,
         NEW f, NEW g, Call(f, g), Keeper(f), Keeper(g),
         Held(f) \cup Held(g) = Held(Top) \cup ret.node.keeps \cup X
  PROVE  Keeping'
<1> DEFINE below == Append(Front(stack), f)
<1>1. stack' = Append(below, g) /\ ret' = Nothing
  BY CallIs
<1>2. IsSeq(below) /\ Keepers(below) /\ HeldBy(below) = HeldBy(Front(stack)) \cup Held(f)
  BY KeepNow, HeldMore, Appended DEF Clean
<1> HIDE DEF below
<1>3. /\ Keepers(stack') /\ HeldBy(stack') = HeldBy(below) \cup Held(g)
      /\ ret'.is = "none" /\ ret'.node.keeps = {}
  BY <1>1, <1>2, HeldMore DEF Nothing, Returned, Node
<1>4. stack' # <<>>
  BY <1>1, <1>2, Appended, SeqFacts
<1>5. Worth(pos') = functions \cup ret'.node.keeps \cup HeldBy(stack')
  BY <1>2, <1>3, KeepNow DEF Clean
<1> QED
  BY <1>3, <1>4, <1>5, KeepThen

LEMMA KeepReturn ==
  ASSUME Shape, Keeping, stack # <<>>, Top.at # "Program", Clean, UNCHANGED <<tokens, functions>>,
         NEW X, Worth(pos') = Worth(pos) \cup X,
         NEW node, Return(node), node.keeps = Held(Top) \cup ret.node.keeps \cup X
  PROVE  Keeping'
<1>1. /\ stack' = Front(stack) /\ Keepers(stack') /\ ret'.is = "node" /\ ret'.node = node
      /\ stack' # <<>>
  BY KeepNow, InnerFacts DEF Return, Returned, Clean
<1>2. Worth(pos') = functions \cup ret'.node.keeps \cup HeldBy(stack')
  BY <1>1, KeepNow DEF Clean
<1> QED
  BY <1>1, <1>2, KeepThen

LEMMA WorthNext ==
  ASSUME Shape, NEW p \in Nat \ {0}
  PROVE  /\ Kind(p) \in Punctuation => Worth(p + 1) = Worth(p)
         /\ Kind(p) \notin Punctuation \cup {"eof"} => Worth(p + 1) = Worth(p) \cup {p}
<1>1. 1..(p + 1) - 1 = 1..p - 1 \cup {p}
  OBVIOUS
<1>2. Kind(p) # "eof" => Kind(p) = tokens[p]
  BY KindFacts
<1>3. "eof" \notin Punctuation
  BY DEF Punctuation, Brackets
<1> QED
  BY <1>1, <1>2, <1>3 DEF Worth

LEMMA Consumed ==
  ASSUME Shape, NEW p \in Nat \ {0}, Kind(p) # "eof", To(p + 1)
  PROVE  pos' = p + 1
BY KindFacts DEF To

LEMMA Stands == ASSUME Shape, To(pos) PROVE pos' = pos /\ Worth(pos') = Worth(pos) \cup {}
BY PlaceFacts DEF To

LEMMA Whole3 ==
  ASSUME Shape, NEW p \in Places, NEW E \in {Function, Parameter, Signature},
         ~ (Matched(p, E) < 3)
  PROVE  /\ Matched(p, E) = 3
         /\ Kind(p) \in E[1] /\ Kind(p + 1) \in E[2] /\ Kind(p + 2) \in E[3]
<1> DEFINE n == Matched(p, E)
<1>1. /\ n \in 0..3 /\ ~ (n < 3)
      /\ n >= 1 => Kind(p) \in E[1]
      /\ n >= 2 => Kind(p + 1) \in E[2]
      /\ n >= 3 => Kind(p + 2) \in E[3]
  BY Match3, Zenon
<1> HIDE DEF n
<1>2. n = 3 /\ Kind(p) \in E[1] /\ Kind(p + 1) \in E[2] /\ Kind(p + 2) \in E[3]
  BY <1>1
<1> QED
  BY <1>2 DEF n

LEMMA NoError == ASSUME Clean, NEW p, NEW q PROVE ~ Error(p, q)
BY DEF Clean, Error

LEMMA ProgramKeeps == ASSUME Shape, Keeping, Clean, Program PROVE Keeping'
<1>1. /\ stack # <<>> /\ Top.at = "Program" /\ UNCHANGED tokens /\ Len(stack) = 1
      /\ Held(Top) = {} /\ HeldBy(Front(stack)) = {}
      /\ Worth(pos) = functions \cup ret.node.keeps
      /\ ret.is # "null" /\ (ret.is = "none" => ret.node.keeps = {}) /\ Keepers(stack)
  <2>1. stack # <<>> /\ Top.at = "Program" /\ UNCHANGED tokens
    BY DEF Program, In, Got, GotNull, Tree
  <2>2. Len(Front(stack)) = 0 /\ Len(stack) = 1
    BY <2>1, InnerFacts, FrontFacts DEF Shape
  <2>3. HeldBy(Front(stack)) = {}
    BY <2>2 DEF HeldBy
  <2>4. Held(Top) = {}
    BY <2>1, KeepNow DEF Keeper, Held, Empty, Clean
  <2> QED
    BY <2>1, <2>2, <2>3, <2>4, KeepNow DEF Clean, Keeping
<1>2. CASE In("Program") /\ Kind(pos) = "eof" /\ stack' = <<>> /\ UNCHANGED <<pos, ret>> /\ Tree
  <2>1. HeldBy(stack') = {} /\ Keepers(stack')
    BY <1>2 DEF HeldBy, Keepers
  <2>2. Worth(pos') = functions \cup ret'.node.keeps \cup HeldBy(stack')
    BY <1>1, <1>2, <2>1
  <2>3. /\ Keepers(stack)' <=> Keepers(stack')
        /\ HeldBy(stack)' = HeldBy(stack') /\ Worth(pos)' = Worth(pos')
    BY <1>1 DEF Keepers, Keeper, HeldBy, Held, Worth
  <2> QED
    BY <1>1, <1>2, <2>1, <2>2, <2>3, AtEnd DEF Keeping, In, Tree
<1>3. CASE In("Program") /\ stack' = Append(stack, Calls("Function", pos)) /\ UNCHANGED ret /\ To(pos) /\ Tree
  <2> DEFINE g == Calls("Function", pos)
  <2>1. Held(g) = {} /\ Keeper(g)
    BY DEF Calls, Plain, Frame, Node, Held, Keeper
  <2> HIDE DEF g
  <2>2. stack' = Append(stack, g) /\ IsSeq(stack)
    BY <1>3 DEF g, Shape, IsSeq
  <2>3. HeldBy(stack') = HeldBy(stack) \cup Held(g) /\ Keepers(stack') /\ stack' # <<>>
    <3>1. HeldBy(stack') = HeldBy(stack) \cup Held(g) /\ Keepers(stack')
      BY <1>1, <2>1, <2>2, HeldMore, Zenon
    <3>2. stack' # <<>>
      BY <2>2, Appended, SeqFacts
    <3> QED
      BY <3>1, <3>2
  <2>4. Worth(pos') = functions \cup ret'.node.keeps \cup HeldBy(stack')
    BY <1>1, <1>3, <2>1, <2>3, Stands DEF Keeping, Clean
  <2> QED
    BY <1>1, <1>3, <2>3, <2>4, KeepThen DEF In, Tree
<1>4. CASE /\ Got("Program") /\ functions' = functions \cup ret.node.keeps /\ ret' = Nothing
           /\ UNCHANGED <<tokens, pos, stack>>
  <2>1. /\ Keepers(stack)' <=> Keepers(stack)
        /\ HeldBy(stack)' = HeldBy(stack) /\ Worth(pos)' = Worth(pos)
    BY <1>4 DEF Keepers, Keeper, HeldBy, Held, Worth
  <2>2. ret'.is = "none" /\ ret'.node.keeps = {}
    BY <1>4 DEF Nothing, Returned, Node
  <2>3. functions \subseteq functions' /\ stack' = stack /\ pos' = pos
    BY <1>4
  <2>4. Worth(pos)' = functions' \cup ret'.node.keeps \cup HeldBy(stack)'
    BY <1>4, <2>1, <2>2 DEF Keeping, Clean
  <2> QED
    BY <1>1, <2>1, <2>2, <2>3, <2>4 DEF Keeping
<1> QED
  BY <1>1, <1>2, <1>3, <1>4, NoError DEF Program, Skip, GotNull

LEMMA FunctionNameKeeps == ASSUME Shape, Keeping, Clean, FunctionName PROVE Keeping'
<1> DEFINE n == Matched(pos, Function)
           f == Plain("Params", Keeps(Top.node, {pos, pos + 1}))
<1>1. stack # <<>> /\ Top.at = "Function" /\ ret.is = "none" /\ UNCHANGED <<tokens, functions>>
  BY DEF FunctionName, In, Tree
<1>2. n \in 0..3 /\ n >= 3 /\ To(pos + 3) /\ Become(f)
  BY NoError, Match3 DEF FunctionName, Skip, Shape
<1>3. Kind(pos) = "func" /\ Kind(pos + 1) = "identifier" /\ Kind(pos + 2) = "lpar"
  BY <1>2, Match3 DEF Function, Shape
<1>4. /\ pos \in Nat \ {0} /\ pos + 1 \in Nat \ {0} /\ pos + 2 \in Nat \ {0}
      /\ pos + 1 + 1 = pos + 2 /\ pos + 2 + 1 = pos + 3
  BY PlaceFacts
<1>5. pos' = pos + 3
  BY <1>2, <1>3, <1>4, Consumed
<1>6. /\ Worth(pos + 1) = Worth(pos) \cup {pos}
      /\ Worth(pos + 1 + 1) = Worth(pos + 1) \cup {pos + 1}
      /\ Worth(pos + 2 + 1) = Worth(pos + 2)
  BY <1>3, <1>4, WorthNext DEF Punctuation, Brackets
<1>7. Worth(pos') = Worth(pos) \cup {pos, pos + 1}
  BY <1>4, <1>5, <1>6
<1>8. Keeper(f) /\ Held(f) = Held(Top) \cup ret.node.keeps \cup {pos, pos + 1}
  BY <1>1, KeepNow DEF Keeper, Held, Plain, Frame, Keeps, Node, Clean, Empty
<1> HIDE DEF f
<1> QED
  BY <1>1, <1>2, <1>7, <1>8, KeepBecome

LEMMA ParamsKeeps == ASSUME Shape, Keeping, Clean, Params PROVE Keeping'
<1> DEFINE n == Matched(pos, Parameter)
           f == Plain("Params", Keeps(Top.node, {pos, pos + 2}))
<1>1. stack # <<>> /\ Top.at = "Params" /\ ret.is = "none" /\ UNCHANGED <<tokens, functions>>
  BY DEF Params, In, Tree
<1>2. n = 3 /\ To(PastComma(pos + 3)) /\ Become(f)
  BY NoError DEF Params, Skip
<1>3. Kind(pos) = "identifier" /\ Kind(pos + 1) = "colon" /\ Kind(pos + 2) \in TypeName
  <2>1. ~ (Matched(pos, Parameter) < 3) /\ pos \in Places
    BY <1>2 DEF Shape
  <2>2. Kind(pos) \in Parameter[1] /\ Kind(pos + 1) \in Parameter[2] /\ Kind(pos + 2) \in Parameter[3]
    BY <2>1, Whole3
  <2> QED
    BY <2>2 DEF Parameter
<1>4. /\ pos \in Nat \ {0} /\ pos + 1 \in Nat \ {0} /\ pos + 2 \in Nat \ {0} /\ pos + 3 \in Nat \ {0}
      /\ pos + 1 + 1 = pos + 2 /\ pos + 2 + 1 = pos + 3
  BY PlaceFacts
<1>5. /\ Worth(pos + 1) = Worth(pos) \cup {pos}
      /\ Worth(pos + 1 + 1) = Worth(pos + 1)
      /\ Worth(pos + 2 + 1) = Worth(pos + 2) \cup {pos + 2}
  BY <1>3, <1>4, WorthNext DEF Punctuation, Brackets, TypeName
<1>6. Worth(pos') = Worth(pos + 3)
  <2>1. CASE Kind(pos + 3) = "comma"
    <3>1. To(pos + 3 + 1)
      BY <1>2, <2>1 DEF PastComma
    <3>2. pos' = pos + 3 + 1
      BY <1>4, <2>1, <3>1, Consumed
    <3>3. Worth(pos + 3 + 1) = Worth(pos + 3)
      BY <1>4, <2>1, WorthNext DEF Punctuation
    <3> QED
      BY <3>2, <3>3
  <2>2. CASE Kind(pos + 3) # "comma"
    <3>1. To(pos + 2 + 1) /\ Kind(pos + 2) # "eof"
      BY <1>2, <1>3, <1>4, <2>2 DEF PastComma, TypeName
    <3>2. pos' = pos + 2 + 1
      BY <1>4, <3>1, Consumed
    <3> QED
      BY <1>4, <3>2
  <2> QED
    BY <2>1, <2>2
<1>7. Worth(pos') = Worth(pos) \cup {pos, pos + 2}
  BY <1>4, <1>5, <1>6
<1>8. Keeper(f) /\ Held(f) = Held(Top) \cup ret.node.keeps \cup {pos, pos + 2}
  BY <1>1, KeepNow DEF Keeper, Held, Plain, Frame, Keeps, Node, Clean, Empty
<1> HIDE DEF f
<1> QED
  BY <1>1, <1>2, <1>7, <1>8, KeepBecome

LEMMA BodyKeeps == ASSUME Shape, Keeping, Clean, Body PROVE Keeping'
<1>1. stack # <<>> /\ Top.at \in {"Params", "Body"} /\ UNCHANGED <<tokens, functions>>
  BY DEF Body, In, Got, GotNull, Tree
<1>2. CASE /\ In("Params")
           /\ LET p == IF Kind(pos) = "rpar" THEN pos + 1 ELSE pos
                  n == Matched(p, Signature)
              IN  IF n < 3 THEN Error(p + n, p + n) /\ Null
                  ELSE /\ Skip(p + 3)
                       /\ Call(Plain("Body", Keeps(Top.node, {p + 1})), Calls("Block", p + 2))
  <2> DEFINE p == IF Kind(pos) = "rpar" THEN pos + 1 ELSE pos
             n == Matched(p, Signature)
             f == Plain("Body", Keeps(Top.node, {p + 1}))
             g == Calls("Block", p + 2)
  <2>1. p \in Places /\ p \in Nat \ {0} /\ Worth(p) = Worth(pos)
    BY KindFacts, PlaceFacts, WorthNext DEF Places, Punctuation, Brackets
  <2>2. ~ (n < 3) /\ To(p + 3) /\ Call(f, g)
    <3>1. IF n < 3 THEN Error(p + n, p + n) ELSE To(p + 3) /\ Call(f, g)
      BY <1>2 DEF Skip
    <3> QED
      BY <3>1, NoError, Zenon
  <2> HIDE DEF p
  <2>3. Kind(p) = "colon" /\ Kind(p + 1) \in TypeName /\ Kind(p + 2) = "lbrace"
    <3>1. Kind(p) \in Signature[1] /\ Kind(p + 1) \in Signature[2] /\ Kind(p + 2) \in Signature[3]
      BY <2>1, <2>2, Whole3
    <3> QED
      BY <3>1 DEF Signature
  <2>4. /\ p + 1 \in Nat \ {0} /\ p + 2 \in Nat \ {0} /\ p + 1 + 1 = p + 2 /\ p + 2 + 1 = p + 3
    BY <2>1
  <2>5. pos' = p + 3
    BY <2>2, <2>3, <2>4, Consumed
  <2>6. /\ Worth(p + 1) = Worth(p) /\ Worth(p + 1 + 1) = Worth(p + 1) \cup {p + 1}
        /\ Worth(p + 2 + 1) = Worth(p + 2)
    BY <2>1, <2>3, <2>4, WorthNext DEF Punctuation, Brackets, TypeName
  <2>7. Worth(pos') = Worth(pos) \cup {p + 1}
    BY <2>1, <2>4, <2>5, <2>6
  <2>8. /\ Keeper(f) /\ Keeper(g)
        /\ Held(f) \cup Held(g) = Held(Top) \cup ret.node.keeps \cup {p + 1}
    BY <1>1, <1>2, KeepNow DEF Keeper, Held, Calls, Plain, Frame, Keeps, Node, Clean, Empty, In
  <2> HIDE DEF f, g
  <2> QED
    BY <1>1, <2>2, <2>7, <2>8, KeepCall
<1>3. CASE Got("Body") /\ Return(Keeps(Top.node, ret.node.keeps)) /\ To(pos)
  <2>1. Keeps(Top.node, ret.node.keeps).keeps = Held(Top) \cup ret.node.keeps \cup {}
    BY <1>3 DEF Keeps, Node, Held, Got
  <2> QED
    BY <1>1, <1>3, <2>1, Stands, KeepReturn
<1> QED
  BY <1>1, <1>2, <1>3, KeepNow DEF Body, Skip, GotNull, Clean

LEMMA BlockKeeps == ASSUME Shape, Keeping, Clean, Block PROVE Keeping'
<1>1. stack # <<>> /\ Top.at = "Block" /\ UNCHANGED <<tokens, functions>> /\ Held(Top) = Top.node.keeps
  BY DEF Block, In, Got, GotNull, Tree, Held
<1>2. CASE In("Block") /\ Kind(pos) = "rbrace" /\ Return(Top.node) /\ To(pos + 1)
  <2>1. Worth(pos') = Worth(pos) \cup {}
    BY <1>2, Consumed, WorthNext, PlaceFacts DEF Punctuation, Brackets
  <2>2. Top.node.keeps = Held(Top) \cup ret.node.keeps \cup {}
    BY <1>1, <1>2, KeepNow DEF In, Clean
  <2> QED
    BY <1>1, <1>2, <2>1, <2>2, KeepReturn
<1>3. CASE In("Block") /\ Call(Top, Calls("Stmt", pos)) /\ To(pos)
  <2> DEFINE g == Calls("Stmt", pos)
  <2>1. /\ Keeper(g) /\ Keeper(Top) /\ Held(Top) \cup Held(g) = Held(Top) \cup ret.node.keeps \cup {}
    BY <1>1, <1>3, KeepNow DEF Keeper, Held, Calls, Plain, Frame, Node, In, Clean
  <2>2. Call(Top, g)
    BY <1>3
  <2> HIDE DEF g
  <2> QED
    BY <1>1, <1>3, <2>1, <2>2, Stands, KeepCall
<1>4. CASE Got("Block") /\ Become(Plain("Block", Keeps(Top.node, ret.node.keeps))) /\ To(pos)
  <2> DEFINE f == Plain("Block", Keeps(Top.node, ret.node.keeps))
  <2>1. Keeper(f) /\ Held(f) = Held(Top) \cup ret.node.keeps \cup {}
    BY <1>1 DEF Keeper, Held, Plain, Frame, Keeps, Node, Empty
  <2>2. Become(f)
    BY <1>4
  <2> HIDE DEF f
  <2> QED
    BY <1>1, <1>4, <2>1, <2>2, Stands, KeepBecome
<1> QED
  BY <1>2, <1>3, <1>4, KeepNow, NoError DEF Block, Skip, GotNull, Clean

(* One token is consumed, or two. *)
LEMMA One ==
  ASSUME Shape, To(pos + 1)
  PROVE  /\ Kind(pos) \in Punctuation => Worth(pos') = Worth(pos) \cup {}
         /\ Kind(pos) \notin Punctuation \cup {"eof"} => Worth(pos') = Worth(pos) \cup {pos}
<1>1. "eof" \notin Punctuation /\ pos \in Nat \ {0}
  BY PlaceFacts DEF Punctuation, Brackets
<1> QED
  BY <1>1, Consumed, WorthNext

LEMMA Two ==
  ASSUME Shape, To(pos + 2), Kind(pos) \notin {"eof"}, Kind(pos + 1) \in Punctuation
  PROVE  /\ Kind(pos) \in Punctuation => Worth(pos') = Worth(pos) \cup {}
         /\ Kind(pos) \notin Punctuation \cup {"eof"} => Worth(pos') = Worth(pos) \cup {pos}
<1>1. /\ "eof" \notin Punctuation /\ pos \in Nat \ {0} /\ pos + 1 \in Nat \ {0} /\ pos + 1 + 1 = pos + 2
  BY PlaceFacts DEF Punctuation, Brackets
<1>2. pos' = pos + 1 + 1
  BY <1>1, Consumed
<1>3. Worth(pos + 1 + 1) = Worth(pos + 1)
  BY <1>1, WorthNext
<1> QED
  BY <1>1, <1>2, <1>3, WorthNext

LEMMA PunctuationIs ==
  Punctuation = {"lpar", "rpar", "lbrace", "rbrace", "colon", "semi", "comma"}
BY DEF Punctuation, Brackets

LEMMA StmtKeeps == ASSUME Shape, Keeping, Clean, Stmt PROVE Keeping'
<1>1. /\ stack # <<>> /\ Top.at = "Stmt" /\ UNCHANGED <<tokens, functions>>
      /\ Held(Top) = {} /\ ret.node.keeps = {} /\ Token.keeps = {pos}
  BY KeepNow DEF Stmt, In, Tree, Held, Keeper, Empty, Clean, Token, Node
<1>2. \A p \in Places : Keeper(Calls("Expr", p)) /\ Held(Calls("Expr", p)) = {}
  BY DEF Calls, Plain, Frame, Node, Keeper, Held
<1>3. CASE Kind(pos) = "cf_return"
  <2>1. CASE Kind(pos + 1) = "semi" /\ Return(Token) /\ To(pos + 2)
    <3>1. Worth(pos') = Worth(pos) \cup {pos}
      BY <1>3, <2>1, Two, PunctuationIs
    <3>2. Token.keeps = Held(Top) \cup ret.node.keeps \cup {pos}
      BY <1>1
    <3> QED
      BY <1>1, <2>1, <3>1, <3>2, KeepReturn
  <2>2. CASE To(pos + 1) /\ Call(Plain("Return", Token), Calls("Expr", pos + 1))
    <3> DEFINE f == Plain("Return", Token)
               g == Calls("Expr", pos + 1)
    <3>1. Worth(pos') = Worth(pos) \cup {pos}
      BY <1>3, <2>2, One, PunctuationIs
    <3>2. Keeper(f) /\ Keeper(g) /\ Held(f) \cup Held(g) = Held(Top) \cup ret.node.keeps \cup {pos}
      BY <1>1 DEF Calls, Plain, Frame, Node, Keeper, Held, Empty
    <3>3. Call(f, g)
      BY <2>2
    <3> HIDE DEF f, g
    <3> QED
      BY <1>1, <3>1, <3>2, <3>3, KeepCall
  <2> QED
    BY <1>3, <2>1, <2>2 DEF Stmt, Skip
<1>4. CASE Kind(pos) \in {"cf_if", "cf_while"}
  <2> DEFINE f == Frame("Condition", Token, pos, 0)
             g == Calls("Expr", pos + 2)
  <2>1. Kind(pos + 1) = "lpar" /\ To(pos + 2) /\ Call(f, g)
    BY <1>4, NoError DEF Stmt, Skip
  <2>2. Worth(pos') = Worth(pos) \cup {pos}
    BY <1>4, <2>1, Two, PunctuationIs
  <2>3. Keeper(f) /\ Keeper(g) /\ Held(f) \cup Held(g) = Held(Top) \cup ret.node.keeps \cup {pos}
    BY <1>1 DEF Calls, Plain, Frame, Node, Keeper, Held, Empty
  <2> HIDE DEF f, g
  <2> QED
    BY <1>1, <2>1, <2>2, <2>3, KeepCall
<1>5. CASE Kind(pos) \in {"cf_int", "cf_float"}
  <2> DEFINE decl == Keeps(Token, {pos + 1})
  <2>1. Kind(pos + 1) = "identifier"
    BY <1>5, NoError DEF Stmt, Skip
  <2>2. /\ pos \in Nat \ {0} /\ pos + 1 \in Nat \ {0} /\ pos + 2 \in Nat \ {0}
        /\ pos + 1 + 1 = pos + 2 /\ pos + 2 + 1 = pos + 3
    BY PlaceFacts
  <2>3. Worth(pos + 1) = Worth(pos) \cup {pos} /\ Worth(pos + 1 + 1) = Worth(pos + 1) \cup {pos + 1}
    BY <1>5, <2>1, <2>2, WorthNext, PunctuationIs
  <2>4. CASE /\ Kind(pos + 2) = "equal" /\ To(pos + 3)
             /\ Call(Plain("Initializer", Keeps(decl, {pos + 2})), Calls("Expr", pos + 3))
    <3> DEFINE f == Plain("Initializer", Keeps(decl, {pos + 2}))
               g == Calls("Expr", pos + 3)
    <3>1. pos' = pos + 2 + 1 /\ Worth(pos + 2 + 1) = Worth(pos + 2) \cup {pos + 2}
      BY <2>2, <2>4, Consumed, WorthNext, PunctuationIs
    <3>2. Worth(pos') = Worth(pos) \cup {pos, pos + 1, pos + 2}
      BY <2>2, <2>3, <3>1
    <3>3. /\ Keeper(f) /\ Keeper(g)
          /\ Held(f) \cup Held(g) = Held(Top) \cup ret.node.keeps \cup {pos, pos + 1, pos + 2}
      BY <1>1 DEF Calls, Plain, Frame, Node, Keeper, Held, Empty, Keeps
    <3>4. Call(f, g)
      BY <2>4
    <3> HIDE DEF f, g
    <3> QED
      BY <1>1, <3>2, <3>3, <3>4, KeepCall
  <2>5. CASE Become(Plain("Declared", decl)) /\ To(pos + 2)
    <3> DEFINE f == Plain("Declared", decl)
    <3>1. pos' = pos + 1 + 1
      BY <2>1, <2>2, <2>5, Consumed
    <3>2. Worth(pos') = Worth(pos) \cup {pos, pos + 1}
      BY <2>2, <2>3, <3>1
    <3>3. Keeper(f) /\ Held(f) = Held(Top) \cup ret.node.keeps \cup {pos, pos + 1}
      BY <1>1 DEF Plain, Frame, Node, Keeper, Held, Empty, Keeps
    <3>4. Become(f)
      BY <2>5
    <3> HIDE DEF f
    <3> QED
      BY <1>1, <3>2, <3>3, <3>4, KeepBecome
  <2> QED
    BY <1>5, <2>1, <2>4, <2>5 DEF Stmt, Skip
<1>6. CASE To(pos) /\ Call(Calls("ExprStmt", pos), Calls("Expr", pos))
  <2> DEFINE f == Calls("ExprStmt", pos)
             g == Calls("Expr", pos)
  <2>1. Keeper(f) /\ Keeper(g) /\ Held(f) \cup Held(g) = Held(Top) \cup ret.node.keeps \cup {}
    BY <1>1 DEF Calls, Plain, Frame, Node, Keeper, Held, Empty
  <2>2. Call(f, g)
    BY <1>6
  <2> HIDE DEF f, g
  <2> QED
    BY <1>1, <1>6, <2>1, <2>2, Stands, KeepCall
<1> QED
  BY <1>3, <1>4, <1>5, <1>6 DEF Stmt, Skip

LEMMA ReturnStmtKeeps == ASSUME Shape, Keeping, Clean, ReturnStmt PROVE Keeping'
<1>1. /\ stack # <<>> /\ Top.at = "Return" /\ UNCHANGED <<tokens, functions>>
  BY DEF ReturnStmt, Got, GotNull, Tree
<1>2. Kind(pos) = "semi" /\ Return(Keeps(Top.node, ret.node.keeps)) /\ To(pos + 1)
  BY NoError DEF ReturnStmt, Skip
<1>3. Keeps(Top.node, ret.node.keeps).keeps = Held(Top) \cup ret.node.keeps \cup {}
  BY <1>1 DEF Keeps, Node, Held
<1> QED
  BY <1>1, <1>2, <1>3, One, PunctuationIs, KeepReturn

LEMMA SemicolonKeeps ==
  ASSUME Shape, Keeping, Clean, stack # <<>>, Top.at # "Program", UNCHANGED <<tokens, functions>>,
         NEW node, Semicolon(node), node.keeps = Held(Top) \cup ret.node.keeps
  PROVE  Keeping'
<1>1. Kind(pos) = "semi" /\ Return(node) /\ To(pos + 1)
  BY NoError DEF Semicolon, Skip
<1>2. Worth(pos') = Worth(pos) \cup {} /\ node.keeps = Held(Top) \cup ret.node.keeps \cup {}
  BY <1>1, One, PunctuationIs
<1> QED
  BY <1>1, <1>2, KeepReturn

LEMMA ExprStmtKeeps == ASSUME Shape, Keeping, Clean, ExprStmt PROVE Keeping'
<1>1. /\ stack # <<>> /\ Top.at = "ExprStmt" /\ UNCHANGED <<tokens, functions>>
      /\ ret.is # "null" /\ Held(Top) = {}
  BY KeepNow DEF ExprStmt, Got, GotNull, Tree, Clean, Keeper, Held, Empty
<1> QED
  BY <1>1, SemicolonKeeps DEF ExprStmt, GotNull

LEMMA VariableDeclKeeps == ASSUME Shape, Keeping, Clean, VariableDecl PROVE Keeping'
<1>1. /\ stack # <<>> /\ Top.at \in {"Declared", "Initializer"} /\ UNCHANGED <<tokens, functions>>
      /\ ret.is # "null" /\ Held(Top) = Top.node.keeps
      /\ ret.is = "none" => ret.node.keeps = {}
  BY KeepNow DEF VariableDecl, In, Got, GotNull, Tree, Clean, Keeper, Held
<1>2. Keeps(Top.node, ret.node.keeps).keeps = Held(Top) \cup ret.node.keeps
  BY <1>1 DEF Keeps, Node
<1>3. CASE In("Declared") /\ Semicolon(Top.node)
  BY <1>1, <1>3, SemicolonKeeps DEF In
<1>4. CASE Semicolon(Keeps(Top.node, ret.node.keeps))
  BY <1>1, <1>2, <1>4, SemicolonKeeps
<1> QED
  BY <1>1, <1>3, <1>4 DEF VariableDecl, In, GotNull

LEMMA ConditionKeeps == ASSUME Shape, Keeping, Clean, Condition PROVE Keeping'
<1> DEFINE n == Matched(pos, Opening)
           f == Frame("Then", Keeps(Top.node, ret.node.keeps), Top.op, 0)
           g == Calls("Block", pos + 1)
<1>1. /\ stack # <<>> /\ Top.at = "Condition" /\ UNCHANGED <<tokens, functions>> /\ pos \in Places
  BY DEF Condition, Got, GotNull, Tree, Shape
<1>2. ~ (n < 2) /\ To(pos + 2) /\ Call(f, g)
  BY NoError DEF Condition, Skip, Opening
<1>3. Kind(pos) = "rpar" /\ Kind(pos + 1) = "lbrace"
  <2>1. n \in 0..2 /\ (n >= 1 => Kind(pos) = "rpar") /\ (n >= 2 => Kind(pos + 1) = "lbrace")
    BY <1>1, Match2, Zenon
  <2> HIDE DEF n
  <2> QED
    BY <1>2, <2>1
<1>4. Worth(pos') = Worth(pos) \cup {}
  BY <1>2, <1>3, Two, PunctuationIs
<1>5. Keeper(f) /\ Keeper(g) /\ Held(f) \cup Held(g) = Held(Top) \cup ret.node.keeps \cup {}
  BY <1>1 DEF Calls, Plain, Frame, Keeps, Node, Keeper, Held, Empty
<1> HIDE DEF f, g
<1> QED
  BY <1>1, <1>2, <1>4, <1>5, KeepCall

LEMMA BranchesKeeps == ASSUME Shape, Keeping, Clean, Branches PROVE Keeping'
<1> DEFINE node == Keeps(Top.node, ret.node.keeps)
           f == Plain("Else", Keeps(node, {pos}))
           g == Calls("Block", pos + 1)
<1>1. /\ stack # <<>> /\ Top.at \in {"Then", "Else"} /\ UNCHANGED <<tokens, functions>>
      /\ ret.is # "null" /\ Held(Top) = Top.node.keeps
  BY KeepNow DEF Branches, Got, GotNull, Tree, Clean, Held
<1>2. CASE Return(node) /\ To(pos)
  <2>1. node.keeps = Held(Top) \cup ret.node.keeps \cup {}
    BY <1>1 DEF Keeps, Node
  <2> QED
    BY <1>1, <1>2, <2>1, Stands, KeepReturn
<1>3. CASE Kind(pos) = "cf_else" /\ Kind(pos + 1) = "lbrace" /\ To(pos + 2) /\ Call(f, g)
  <2>1. Worth(pos') = Worth(pos) \cup {pos}
    BY <1>3, Two, PunctuationIs
  <2>2. Keeper(f) /\ Keeper(g) /\ Held(f) \cup Held(g) = Held(Top) \cup ret.node.keeps \cup {pos}
    BY <1>1 DEF Calls, Plain, Frame, Keeps, Node, Keeper, Held, Empty
  <2> HIDE DEF f, g
  <2> QED
    BY <1>1, <1>3, <2>1, <2>2, KeepCall
<1> QED
  BY <1>1, <1>2, <1>3, NoError DEF Branches, Skip, GotNull

LEMMA ExprKeeps == ASSUME Shape, Keeping, Clean, Expr PROVE Keeping'
<1>1. /\ stack # <<>> /\ Top.at \in {"Expr", "Lhs", "Assign"} /\ UNCHANGED <<tokens, functions>>
      /\ ret.is # "null" /\ Held(Top) = Top.node.keeps
      /\ Top.at \in {"Expr", "Lhs"} => Top.node.keeps = {}
      /\ ret.is = "none" => ret.node.keeps = {}
  BY KeepNow DEF Expr, In, Got, GotNull, Tree, Clean, Held, Keeper, Empty
<1>2. CASE In("Expr") /\ Call(Plain("Lhs", Top.node), Plain("Primary", Top.node)) /\ To(pos)
  <2> DEFINE f == Plain("Lhs", Top.node)
             g == Plain("Primary", Top.node)
  <2>1. Keeper(f) /\ Keeper(g) /\ Held(f) \cup Held(g) = Held(Top) \cup ret.node.keeps \cup {}
    BY <1>1, <1>2 DEF Plain, Frame, Keeper, Held, Empty, In
  <2>2. Call(f, g)
    BY <1>2
  <2> HIDE DEF f, g
  <2> QED
    BY <1>1, <1>2, <2>1, <2>2, Stands, KeepCall
<1>3. CASE /\ Got("Lhs") /\ Kind(pos) = "equal" /\ To(pos + 1)
           /\ Call(Plain("Assign", Keeps(ret.node, {pos})), Calls("Expr", pos + 1))
  <2> DEFINE f == Plain("Assign", Keeps(ret.node, {pos}))
             g == Calls("Expr", pos + 1)
  <2>1. Keeper(f) /\ Keeper(g) /\ Held(f) \cup Held(g) = Held(Top) \cup ret.node.keeps \cup {pos}
    BY <1>1, <1>3 DEF Calls, Plain, Frame, Keeps, Node, Keeper, Held, Empty, Got
  <2>2. Worth(pos') = Worth(pos) \cup {pos} /\ Call(f, g)
    BY <1>3, One, PunctuationIs
  <2> HIDE DEF f, g
  <2> QED
    BY <1>1, <2>1, <2>2, KeepCall
<1>4. CASE Got("Lhs") /\ Become(Frame("Binary", ret.node, 0, 0)) /\ To(pos)
  <2> DEFINE f == Frame("Binary", ret.node, 0, 0)
  <2>1. Keeper(f) /\ Held(f) = Held(Top) \cup ret.node.keeps \cup {}
    BY <1>1, <1>4 DEF Frame, Keeper, Held, Empty, Got
  <2>2. Become(f)
    BY <1>4
  <2> HIDE DEF f
  <2> QED
    BY <1>1, <1>4, <2>1, <2>2, Stands, KeepBecome
<1>5. CASE Got("Assign") /\ Return(Keeps(Top.node, ret.node.keeps)) /\ To(pos)
  <2>1. Keeps(Top.node, ret.node.keeps).keeps = Held(Top) \cup ret.node.keeps \cup {}
    BY <1>1 DEF Keeps, Node
  <2> QED
    BY <1>1, <1>5, <2>1, Stands, KeepReturn
<1> QED
  BY <1>1, <1>2, <1>3, <1>4, <1>5 DEF Expr, Skip, GotNull

LEMMA BinaryKeeps == ASSUME Shape, Keeping, Clean, Binary PROVE Keeping'
<1>1. /\ stack # <<>> /\ Top.at \in {"Binary", "Rhs", "Tighter"} /\ UNCHANGED <<tokens, functions>>
      /\ ret.is # "null"
      /\ ret.is = "none" => ret.node.keeps = {}
  BY KeepNow DEF Binary, In, Got, GotNull, Tree, Clean
<1>2. CASE In("Binary") /\ Return(Top.node) /\ To(pos)
  <2>1. Top.node.keeps = Held(Top) \cup ret.node.keeps \cup {}
    BY <1>1, <1>2 DEF Held, In
  <2> QED
    BY <1>1, <1>2, <2>1, Stands, KeepReturn
<1>3. CASE /\ In("Binary") /\ Precedence(Kind(pos)) >= Top.prec /\ To(pos + 1)
           /\ Call(Frame("Rhs", Top.node, pos, Top.prec), Calls("Primary", pos + 1))
  <2> DEFINE f == Frame("Rhs", Top.node, pos, Top.prec)
             g == Calls("Primary", pos + 1)
             l == Precedence(Kind(pos))
  <2>1. l \in -1..20 /\ (l >= 0 <=> Kind(pos) \in Operator)
    BY PrecedenceFacts, Zenon
  <2>2. l >= Top.prec /\ Top.prec \in Nat
    BY <1>1, <1>3, TopFacts
  <2> HIDE DEF l
  <2>3. Kind(pos) \notin Punctuation \cup {"eof"}
    BY <2>1, <2>2, PunctuationIs DEF Operator
  <2>4. Keeper(f) /\ Keeper(g) /\ Held(f) \cup Held(g) = Held(Top) \cup ret.node.keeps \cup {pos}
    BY <1>1, <1>3 DEF Calls, Plain, Frame, Node, Keeper, Held, Empty, In
  <2>5. Worth(pos') = Worth(pos) \cup {pos} /\ Call(f, g)
    BY <1>3, <2>3, One
  <2> HIDE DEF f, g
  <2> QED
    BY <1>1, <2>4, <2>5, KeepCall
<1>4. CASE /\ Got("Rhs") /\ To(pos)
           /\ Call(Frame("Tighter", Top.node, Top.op, Top.prec),
                   Frame("Binary", ret.node, 0, LevelAbove(Precedence(Kind(Top.op)))))
  <2> DEFINE f == Frame("Tighter", Top.node, Top.op, Top.prec)
             g == Frame("Binary", ret.node, 0, LevelAbove(Precedence(Kind(Top.op))))
  <2>1. Keeper(f) /\ Keeper(g) /\ Held(f) \cup Held(g) = Held(Top) \cup ret.node.keeps \cup {}
    BY <1>1, <1>4 DEF Frame, Keeper, Held, Empty, Got
  <2>2. Call(f, g)
    BY <1>4
  <2> HIDE DEF f, g
  <2> QED
    BY <1>1, <1>4, <2>1, <2>2, Stands, KeepCall
<1>5. CASE /\ Got("Rhs") \/ Got("Tighter")
           /\ Become(Frame("Binary", Combined(Top.node, Top.op, ret.node), 0, Top.prec)) /\ To(pos)
  <2> DEFINE f == Frame("Binary", Combined(Top.node, Top.op, ret.node), 0, Top.prec)
  <2>1. Keeper(f) /\ Held(f) = Held(Top) \cup ret.node.keeps \cup {}
    BY <1>1, <1>5 DEF Frame, Keeper, Held, Empty, Got, Combined, Keeps, Node
  <2>2. Become(f)
    BY <1>5
  <2> HIDE DEF f
  <2> QED
    BY <1>1, <1>5, <2>1, <2>2, Stands, KeepBecome
<1> QED
  BY <1>1, <1>2, <1>3, <1>4, <1>5 DEF Binary, Skip, GotNull

LEMMA PrimaryKeeps == ASSUME Shape, Keeping, Clean, Primary PROVE Keeping'
<1>1. /\ stack # <<>> /\ Top.at = "Primary" /\ UNCHANGED <<tokens, functions>>
      /\ Held(Top) = {} /\ ret.node.keeps = {} /\ Token.keeps = {pos}
      /\ Node(pos, TRUE, {pos}).keeps = {pos}
  BY KeepNow DEF Primary, In, Tree, Held, Keeper, Empty, Clean, Token, Node
<1>2. ASSUME NEW node, node.keeps = {pos}, Return(node), To(pos + 1),
             Kind(pos) \in Atoms \cup {"identifier"}
      PROVE  Keeping'
  <2>1. Worth(pos') = Worth(pos) \cup {pos}
    BY <1>2, One, PunctuationIs DEF Atoms
  <2>2. node.keeps = Held(Top) \cup ret.node.keeps \cup {pos}
    BY <1>1, <1>2
  <2> QED
    BY <1>1, <1>2, <2>1, <2>2, KeepReturn
<1>3. CASE Kind(pos) = "lpar" /\ To(pos + 1) /\ Call(Calls("Paren", pos), Calls("Expr", pos + 1))
  <2> DEFINE f == Calls("Paren", pos)
             g == Calls("Expr", pos + 1)
  <2>1. Keeper(f) /\ Keeper(g) /\ Held(f) \cup Held(g) = Held(Top) \cup ret.node.keeps \cup {}
    BY <1>1 DEF Calls, Plain, Frame, Node, Keeper, Held, Empty
  <2>2. Worth(pos') = Worth(pos) \cup {} /\ Call(f, g)
    BY <1>3, One, PunctuationIs
  <2> HIDE DEF f, g
  <2> QED
    BY <1>1, <2>1, <2>2, KeepCall
<1>4. CASE /\ Kind(pos) \in {"identifier", "print"} /\ Kind(pos + 1) = "lpar" /\ To(pos + 2)
           /\ Become(Frame("Args", Token, pos, 0))
  <2> DEFINE f == Frame("Args", Token, pos, 0)
  <2>1. Keeper(f) /\ Held(f) = Held(Top) \cup ret.node.keeps \cup {pos}
    BY <1>1 DEF Frame, Keeper, Held, Empty
  <2>2. Worth(pos') = Worth(pos) \cup {pos} /\ Become(f)
    BY <1>4, Two, PunctuationIs
  <2> HIDE DEF f
  <2> QED
    BY <1>1, <2>1, <2>2, KeepBecome
<1> QED
  BY <1>1, <1>2, <1>3, <1>4, NoError DEF Primary, Skip, Atoms

LEMMA ParenKeeps == ASSUME Shape, Keeping, Clean, Paren PROVE Keeping'
<1> DEFINE node == [ret.node EXCEPT !.first = Top.node.first]
<1>1. /\ stack # <<>> /\ Top.at = "Paren" /\ UNCHANGED <<tokens, functions>>
      /\ ret.is # "null" /\ Held(Top) = {}
  BY KeepNow DEF Paren, Got, GotNull, Tree, Clean, Held, Keeper, Empty
<1>2. Kind(pos) = "rpar" /\ Return(node) /\ To(pos + 1)
  BY <1>1, NoError DEF Paren, Skip, GotNull
<1>3. node.keeps = Held(Top) \cup ret.node.keeps \cup {}
  BY <1>1, PlaceFacts DEF Nodes
<1>4. Worth(pos') = Worth(pos) \cup {}
  BY <1>2, One, PunctuationIs
<1> HIDE DEF node
<1> QED
  BY <1>1, <1>2, <1>3, <1>4, KeepReturn

LEMMA ArgsKeeps == ASSUME Shape, Keeping, Clean, Args PROVE Keeping'
<1>1. /\ stack # <<>> /\ Top.at = "Args" /\ UNCHANGED <<tokens, functions>>
      /\ ret.is # "null" /\ Held(Top) = Top.node.keeps /\ Keeper(Top)
      /\ ret.is = "none" => ret.node.keeps = {}
  BY KeepNow DEF Args, In, Got, GotNull, Tree, Clean, Held
<1>2. CASE In("Args") /\ Call(Top, Calls("Expr", pos)) /\ To(pos)
  <2> DEFINE g == Calls("Expr", pos)
  <2>1. Keeper(g) /\ Held(Top) \cup Held(g) = Held(Top) \cup ret.node.keeps \cup {}
    BY <1>1, <1>2 DEF Calls, Plain, Frame, Node, Keeper, Held, In
  <2>2. Call(Top, g)
    BY <1>2
  <2> HIDE DEF g
  <2> QED
    BY <1>1, <1>2, <2>1, <2>2, Stands, KeepCall
<1>3. CASE /\ Kind(pos) \in {"comma", "rpar"} /\ To(PastComma(pos))
           /\ Become(Frame("Args", Keeps(Top.node, ret.node.keeps), Top.op, Top.prec + 1))
  <2> DEFINE f == Frame("Args", Keeps(Top.node, ret.node.keeps), Top.op, Top.prec + 1)
  <2>1. Keeper(f) /\ Held(f) = Held(Top) \cup ret.node.keeps \cup {}
    BY <1>1 DEF Frame, Keeps, Node, Keeper, Held, Empty
  <2>2. Worth(pos') = Worth(pos) \cup {}
    BY <1>3, One, Stands, PunctuationIs DEF PastComma
  <2>3. Become(f)
    BY <1>3
  <2> HIDE DEF f
  <2> QED
    BY <1>1, <2>1, <2>2, <2>3, KeepBecome
<1> QED
  BY <1>1, <1>2, <1>3, NoError DEF Args, Skip, GotNull

LEMMA ArgumentsKeeps == ASSUME Shape, Keeping, Clean, Arguments PROVE Keeping'
<1>1. /\ stack # <<>> /\ Top.at = "Args" /\ UNCHANGED <<tokens, functions>>
      /\ Held(Top) = Top.node.keeps /\ ret.node.keeps = {}
  BY KeepNow DEF Arguments, In, Tree, Clean, Held
<1>2. Kind(pos) = "rpar" /\ Return(Top.node) /\ To(pos + 1)
  BY DEF Arguments, Clean
<1>3. Top.node.keeps = Held(Top) \cup ret.node.keeps \cup {}
  BY <1>1
<1>4. Worth(pos') = Worth(pos) \cup {}
  BY <1>2, One, PunctuationIs
<1> QED
  BY <1>1, <1>2, <1>3, <1>4, KeepReturn

LEMMA InitKeeping == ASSUME Init PROVE Keeping
<1> DEFINE f == Plain("Program", Nothing.node)
<1>1. f.node.keeps = {} /\ f.at = "Program" /\ ret.is = "none" /\ ret.node.keeps = {}
  BY DEF Plain, Frame, Nothing, Returned, Node, Init
<1>2. stack = <<f>> /\ pos = 1 /\ functions = {}
  BY DEF Init
<1> HIDE DEF f
<1>3. HeldBy(stack) = {} /\ Keepers(stack) /\ Worth(pos) = {} /\ stack # <<>>
  BY <1>1, <1>2 DEF HeldBy, Held, Keepers, Keeper, Empty, Worth
<1> QED
  BY <1>1, <1>2, <1>3 DEF Keeping

LEMMA StepKeeping == ASSUME Shape, Keeping, [Next]_vars PROVE Keeping'
<1>1. CASE UNCHANGED vars
  BY <1>1 DEF vars, Keeping, Keepers, Keeper, HeldBy, Held, Worth
<1>2. CASE Next /\ diagnostics' # {}
  BY <1>2 DEF Keeping
<1>3. CASE Next /\ diagnostics' = {}
  <2>1. Clean
    BY <1>3, StepReports DEF Reports, Clean
  <2> QED
    BY <1>3, <2>1, ProgramKeeps, FunctionNameKeeps, ParamsKeeps, BodyKeeps, BlockKeeps, StmtKeeps,
       ReturnStmtKeeps, ExprStmtKeeps, VariableDeclKeeps, ConditionKeeps, BranchesKeeps, ExprKeeps,
       BinaryKeeps, PrimaryKeeps, ParenKeeps, ArgsKeeps, ArgumentsKeeps DEF Next
<1> QED
  BY <1>1, <1>2, <1>3

(* What is parsed without an error is parsed without a loss: the functions stand for every *)
(* token that is not punctuation.                                                          *)
THEOREM NothingIsDropped == Spec => []NothingDropped
<1>1. Init => Keeping
  BY InitKeeping
<1>2. Shape /\ Keeping /\ [Next]_vars => Keeping'
  BY StepKeeping
<1>3. Shape /\ Keeping => NothingDropped
  <2> SUFFICES ASSUME Shape, Keeping, Finished, diagnostics = {}
               PROVE  functions = {p \in 1..Len(tokens) : tokens[p] \notin Punctuation}
    BY DEF NothingDropped, Punctuation
  <2>1. HeldBy(stack) = {}
    BY DEF Finished, HeldBy
  <2>2. Worth(pos) = functions /\ pos = Len(tokens) + 1
    BY <2>1 DEF Keeping, Finished
  <2>3. 1..pos - 1 = 1..Len(tokens)
    BY <2>2, PlaceFacts
  <2> QED
    BY <2>2, <2>3 DEF Worth
<1> QED
  BY <1>1, <1>2, <1>3, CallsFit, PTL DEF Spec

-----------------------------------------------------------------------------
(* How many brackets are open behind q *)
Open(q) ==
  Cardinality({i \in 1..q : tokens[i] = "lpar"}) - Cardinality({i \in 1..q : tokens[i] = "rpar"})

(* No bracket in p..q has its partner elsewhere, or only the first one has. *)
Closed(p, q) == Open(q) = Open(p - 1) /\ \A r \in p..q : Open(r) >= Open(p - 1)
Opened(p, q) == Open(q) = Open(p - 1) + 1 /\ \A r \in p..q : Open(r) > Open(p - 1)

(* The operators in p..q outside brackets, and whether all of them have a level l at least *)
Outside(p, q)  == {r \in p..q : tokens[r] \in Operator /\ Open(r) = Open(p - 1)}
Binds(p, q, l) == \A r \in Outside(p, q) : l <= Precedence(tokens[r])

(* The tokens of f up to last, as long as it waits for an operand behind them *)
Begun(f, last) ==
  /\ f.at = "Paren" => Opened(f.node.first, last)
  /\ f.at = "Args" =>
       tokens[f.node.first] \in {"identifier", "print"} /\ Opened(f.node.first + 1, last)
  /\ f.at = "Assign" => Closed(f.node.first, last)
  /\ f.at \in {"Rhs", "Tighter"} =>
       /\ Closed(f.node.first, f.op - 1) /\ Kind(f.op) \in Operator
       /\ f.prec <= Precedence(Kind(f.op))
       /\ Binds(f.node.first, f.op - 1, Precedence(Kind(f.op)))

Begins == {fg \in Frames \X Frames : Begun(fg[1], fg[2].node.first - 1)}

(* The tokens up to the next one, p, that belong to the innermost call f and to what was *)
(* just returned to it                                                                   *)
Extends(f, r, p) ==
  /\ r.is = "none" =>
       /\ f.at = "Args" => Begun(f, p - 1)
       /\ f.at = "Binary" => /\ Closed(f.node.first, p - 1)
                             /\ Binds(f.node.first, p - 1, f.prec)
                             /\ Binds(f.node.first, p - 1, Precedence(Kind(p)))
  /\ r.is = "node" =>
       /\ Begun(f, r.node.first - 1)
       /\ f.at \in {"Lhs", "Rhs", "Tighter", "Assign", "Paren", "Args"} => Closed(r.node.first, p - 1)
       /\ f.at \in {"Lhs", "Rhs"} => Outside(r.node.first, p - 1) = {}
       /\ f.at = "Tighter" => /\ Binds(r.node.first, p - 1, Precedence(Kind(f.op)) + 1)
                              /\ Precedence(Kind(p)) <= Precedence(Kind(f.op))

(* As long as no error was reported, brackets and operators are where they should be. *)
Text ==
  diagnostics = {} =>
    /\ Linked(stack, Begins)
    /\ stack # <<>> => Extends(Top, ret, pos)

(* The operator of b is the last of the weakest in its extent. *)
Weakest(b) ==
  /\ b.first <= b.op /\ tokens[b.op] \in Operator /\ Open(b.op) = Open(b.first - 1)
  /\ \A q \in Outside(b.first, b.last) :
       /\ Precedence(tokens[b.op]) <= Precedence(tokens[q])
       /\ q > b.op => Precedence(tokens[b.op]) < Precedence(tokens[q])

AllWeakest == diagnostics = {} => \A b \in built : Weakest(b)

-----------------------------------------------------------------------------
(* How many tokens up to q are of a kind *)
LEMMA CountNext ==
  ASSUME NEW kind, NEW q \in Nat
  PROVE  LET C(p) == {i \in 1..p : tokens[i] = kind}
         IN  /\ IsFiniteSet(C(q)) /\ Cardinality(C(q)) \in Nat
             /\ Cardinality(C(q + 1)) = Cardinality(C(q)) + IF tokens[q + 1] = kind THEN 1 ELSE 0
<1> DEFINE C(p) == {i \in 1..p : tokens[i] = kind}
<1>1. IsFiniteSet(1..q) /\ C(q) \subseteq 1..q
  BY FS_Interval
<1>2. IsFiniteSet(C(q)) /\ Cardinality(C(q)) \in Nat
  BY <1>1, FS_Subset, FS_CardinalityType
<1>3. 1..q + 1 = 1..q \cup {q + 1} /\ q + 1 \notin 1..q
  OBVIOUS
<1>4. CASE tokens[q + 1] = kind
  <2>1. C(q + 1) = C(q) \cup {q + 1} /\ q + 1 \notin C(q)
    BY <1>3, <1>4
  <2> HIDE DEF C
  <2>2. Cardinality(C(q) \cup {q + 1}) = Cardinality(C(q)) + 1
    BY <1>2, <2>1, FS_AddElement
  <2> QED
    BY <1>2, <1>4, <2>1, <2>2 DEF C
<1>5. CASE tokens[q + 1] # kind
  <2>1. C(q + 1) = C(q)
    BY <1>3, <1>5
  <2> HIDE DEF C
  <2> QED
    BY <1>2, <1>5, <2>1 DEF C
<1> QED
  BY <1>4, <1>5

LEMMA OpenNext ==
  ASSUME NEW q \in Nat
  PROVE  /\ Open(q) \in Int
         /\ Open(q + 1) = CASE tokens[q + 1] = "lpar" -> Open(q) + 1
                            [] tokens[q + 1] = "rpar" -> Open(q) - 1
                            [] OTHER -> Open(q)
<1> DEFINE L(p) == Cardinality({i \in 1..p : tokens[i] = "lpar"})
           R(p) == Cardinality({i \in 1..p : tokens[i] = "rpar"})
<1>1. L(q) \in Nat /\ L(q + 1) = L(q) + IF tokens[q + 1] = "lpar" THEN 1 ELSE 0
  BY CountNext
<1>2. R(q) \in Nat /\ R(q + 1) = R(q) + IF tokens[q + 1] = "rpar" THEN 1 ELSE 0
  BY CountNext
<1>3. Open(q) = L(q) - R(q) /\ Open(q + 1) = L(q + 1) - R(q + 1)
  BY DEF Open
<1> HIDE DEF L, R
<1> QED
  BY <1>1, <1>2, <1>3

LEMMA OpenAt ==
  ASSUME NEW p \in Nat \ {0}
  PROVE  /\ Open(p) \in Int /\ Open(p - 1) \in Int
         /\ tokens[p] = "lpar" => Open(p) = Open(p - 1) + 1
         /\ tokens[p] = "rpar" => Open(p) = Open(p - 1) - 1
         /\ tokens[p] \notin {"lpar", "rpar"} => Open(p) = Open(p - 1)
<1>1. PICK q \in Nat : p = q + 1 /\ p - 1 = q
  OBVIOUS
<1>2. Open(q) \in Int /\ Open(q + 1) \in Int
  BY <1>1, OpenNext
<1> QED
  BY <1>1, <1>2, OpenNext

(* One token *)
LEMMA Single ==
  ASSUME NEW p \in Nat \ {0}
  PROVE  /\ tokens[p] \notin {"lpar", "rpar"} => Closed(p, p)
         /\ tokens[p] \notin Operator => Outside(p, p) = {}
         /\ tokens[p] \in Operator => Closed(p, p) /\ Outside(p, p) = {p}
         /\ tokens[p] = "lpar" => Opened(p, p)
<1>1. p..p = {p}
  OBVIOUS
<1>2. tokens[p] \in Operator => tokens[p] \notin {"lpar", "rpar"}
  BY DEF Operator
<1> QED
  BY <1>1, <1>2, OpenAt DEF Closed, Opened, Outside

(* Two parts, one behind the other *)
LEMMA Joined ==
  ASSUME NEW p \in Nat \ {0}, NEW m \in Nat \ {0}, NEW q \in Nat, p <= m, m <= q + 1
  PROVE  /\ Closed(p, m - 1) /\ Closed(m, q) =>
              Closed(p, q) /\ Outside(p, q) = Outside(p, m - 1) \cup Outside(m, q)
         /\ Opened(p, m - 1) /\ Closed(m, q) => Opened(p, q)
<1>1. p..q = p..(m - 1) \cup m..q
  OBVIOUS
<1>2. /\ \A r \in p..q : r \in Nat /\ Open(r) \in Int
      /\ Open(p - 1) \in Int /\ Open(m - 1) \in Int /\ Open(q) \in Int
  BY OpenNext
<1>3. ASSUME Closed(p, m - 1), Closed(m, q)
      PROVE  Closed(p, q) /\ Outside(p, q) = Outside(p, m - 1) \cup Outside(m, q)
  BY <1>1, <1>2, <1>3 DEF Closed, Outside
<1>4. ASSUME Opened(p, m - 1), Closed(m, q) PROVE Opened(p, q)
  BY <1>1, <1>2, <1>4 DEF Opened, Closed
<1> QED
  BY <1>3, <1>4

(* The closing bracket *)
LEMMA ClosedUp ==
  ASSUME NEW p \in Nat \ {0}, NEW q \in Nat \ {0}, p < q, Opened(p, q - 1), tokens[q] = "rpar"
  PROVE  Closed(p, q) /\ Outside(p, q) = {}
<1>1. p..q = p..(q - 1) \cup {q} /\ q - 1 \in Nat
  OBVIOUS
<1>2. \A r \in p..q : r \in Nat /\ Open(r) \in Int
  BY OpenNext
<1>3. Open(p - 1) \in Int /\ Open(q) = Open(p - 1) /\ tokens[q] \notin Operator
  BY OpenAt DEF Opened, Operator
<1>4. \A r \in p..(q - 1) : Open(r) > Open(p - 1)
  BY DEF Opened
<1> QED
  BY <1>1, <1>2, <1>3, <1>4 DEF Closed, Outside

-----------------------------------------------------------------------------
LEMMA TextNow ==
  ASSUME Shape, Text, stack # <<>>, diagnostics = {}
  PROVE  /\ Extends(Top, ret, pos)
         /\ Linked(Front(stack), Begins)
         /\ Top.at # "Program" => Begun(Last(Front(stack)), Top.node.first - 1)
<1>1. /\ Linked(Front(stack), Begins)
      /\ Front(stack) # <<>> => <<Last(Front(stack)), Top>> \in Begins
  BY LinkedFront DEF Shape, Text, Top
<1>2. ASSUME Top.at # "Program" PROVE Begun(Last(Front(stack)), Top.node.first - 1)
  BY <1>1, <1>2, InnerFacts DEF Begins
<1> QED
  BY <1>1, <1>2 DEF Text

LEMMA TextThen ==
  ASSUME UNCHANGED tokens, Linked(stack', Begins), Extends(Last(stack'), ret', pos')
  PROVE  Text'
<1>1. /\ \A p, q : (Closed(p, q)' <=> Closed(p, q)) /\ (Opened(p, q)' <=> Opened(p, q))
      /\ \A p, q : Outside(p, q)' = Outside(p, q)
      /\ \A p : Kind(p)' = Kind(p)
  BY DEF Closed, Opened, Open, Outside, Kind
<1>2. /\ \A p, q, l : Binds(p, q, l)' <=> Binds(p, q, l)
  BY <1>1 DEF Binds
<1>3. \A f, p : Begun(f, p)' <=> Begun(f, p)
  BY <1>1, <1>2 DEF Begun
<1>4. Begins' = Begins
  BY <1>3 DEF Begins, Frames, Nodes
<1>5. Linked(stack, Begins)' <=> Linked(stack', Begins)
  BY <1>4 DEF Linked
<1>6. Extends(Top, ret, pos)' <=> Extends(Last(stack'), ret', pos')
  BY <1>1, <1>2, <1>3 DEF Extends, Top
<1> QED
  BY <1>5, <1>6 DEF Text

LEMMA NewFrames ==
  ASSUME Shape, Shape', stack # <<>>, UNCHANGED tokens
  PROVE  /\ \A f : Become(f) => f \in Frames
         /\ \A f, g : Call(f, g) => f \in Frames /\ g \in Frames
<1>1. stack' \in Seq(Frames) /\ IsSeq(Front(stack))
  <2>1. Frames' = Frames
    BY DEF Frames, Nodes
  <2>2. Front(stack) \in Seq(Frames)
    BY InnerFacts
  <2> QED
    BY <2>1, <2>2 DEF Shape, IsSeq
<1>2. ASSUME NEW s, IsSeq(s), NEW f, Append(s, f) \in Seq(Frames)
      PROVE  f \in Frames /\ \A i \in 1..Len(s) : s[i] \in Frames
  BY <1>2, Appended, SeqFacts, ElementOfSeq
<1>3. ASSUME NEW f, Become(f) PROVE f \in Frames
  BY <1>1, <1>2, <1>3 DEF Become
<1>4. ASSUME NEW f, NEW g, Call(f, g) PROVE f \in Frames /\ g \in Frames
  <2> DEFINE s == Append(Front(stack), f)
  <2>1. stack' = Append(s, g) /\ IsSeq(s) /\ Len(s) \in Nat \ {0} /\ s[Len(s)] = f
    BY <1>1, <1>4, CallIs, Appended, SeqFacts
  <2> HIDE DEF s
  <2> QED
    BY <1>1, <1>2, <2>1
<1> QED
  BY <1>3, <1>4

(* Who waits for a statement, a block or a function is at no place in an expression. *)
LEMMA NewCaller ==
  ASSUME Shape, Text, stack # <<>>, Top.at # "Program", Clean, NEW first,
         first = Top.node.first \/ Top.at \notin Expressions \cup Primaries
  PROVE  Begun(Last(Front(stack)), first - 1)
<1> DEFINE u == Last(Front(stack))
<1>1. Begun(u, Top.node.first - 1) /\ Top.at \in Callees(u.at)
  BY TextNow, InnerFacts DEF Clean, Waits
<1> HIDE DEF u
<1>2. ASSUME Top.at \notin Expressions \cup Primaries PROVE Begun(u, first - 1)
  BY <1>1, <1>2 DEF Callees, Begun
<1>3. Begun(u, first - 1)
  BY <1>1, <1>2
<1> QED
  BY <1>3 DEF u

LEMMA TextBecome ==
  ASSUME Shape, Shape', Text, stack # <<>>, Top.at # "Program", Clean, UNCHANGED tokens,
         NEW f, Become(f), Extends(f, Nothing, pos'),
         f.node.first = Top.node.first \/ Top.at \notin Expressions \cup Primaries
  PROVE  Text'
<1>1. stack' = Append(Front(stack), f) /\ ret' = Nothing /\ f \in Frames
  BY NewFrames DEF Become
<1>2. Front(stack) # <<>> => <<Last(Front(stack)), f>> \in Begins
  BY <1>1, NewCaller, InnerFacts DEF Begins
<1>3. Linked(stack', Begins) /\ Last(stack') = f
  BY <1>1, <1>2, TextNow, InnerFacts, LinkedPush, PushFacts DEF Clean
<1> QED
  BY <1>1, <1>3, TextThen

LEMMA TextCall ==
  ASSUME Shape, Shape', Text, stack # <<>>, Top.at # "Program", Clean, UNCHANGED tokens,
         NEW f, NEW g, Call(f, g), Begun(f, g.node.first - 1), Extends(g, Nothing, pos'),
         f.node.first = Top.node.first \/ Top.at \notin Expressions \cup Primaries
  PROVE  Text'
<1> DEFINE below == Append(Front(stack), f)
<1>1. stack' = Append(below, g) /\ ret' = Nothing /\ f \in Frames /\ g \in Frames
  BY CallIs, NewFrames
<1>2. Front(stack) # <<>> => <<Last(Front(stack)), f>> \in Begins
  BY <1>1, NewCaller, InnerFacts DEF Begins
<1>3. Linked(below, Begins) /\ Last(below) = f /\ below \in Seq(Frames)
  BY <1>1, <1>2, TextNow, InnerFacts, LinkedPush, PushFacts DEF Clean
<1>4. <<Last(below), g>> \in Begins
  BY <1>1, <1>3 DEF Begins
<1> HIDE DEF below
<1>5. Linked(stack', Begins) /\ Last(stack') = g
  BY <1>1, <1>3, <1>4, LinkedPush, PushFacts
<1> QED
  BY <1>1, <1>5, TextThen

(* What a call returns is what its caller may expect. *)
Answers(node, p) ==
  /\ Top.at \in Expressions \cup Primaries =>
       node.first = Top.node.first /\ Closed(node.first, p - 1)
  /\ Top.at \in Primaries => Outside(node.first, p - 1) = {}
  /\ Top.at \in {"Binary", "Rhs", "Tighter"} =>
       Binds(node.first, p - 1, Top.prec) /\ Precedence(Kind(p)) < Top.prec

LEMMA TextReturn ==
  ASSUME Shape, Text, stack # <<>>, Top.at # "Program", Clean, UNCHANGED tokens,
         NEW node, Return(node), Answers(node, pos')
  PROVE  Text'
<1> DEFINE f == Last(Front(stack))
           r == Returned("node", node)
<1>1. stack' = Front(stack) /\ ret' = r /\ r.is = "node" /\ r.node = node
  BY DEF Return, Returned
<1>2. /\ Linked(Front(stack), Begins) /\ Begun(f, Top.node.first - 1)
      /\ f \in Frames /\ Waits(f, Top)
  BY TextNow, InnerFacts DEF Clean
<1> HIDE DEF f, r
<1>3. Top.at \in Callees(f.at)
  BY <1>2 DEF Waits
<1>4. ASSUME f.at \in {"Lhs", "Rhs"} PROVE Extends(f, r, pos')
  <2>1. Top.at \in Primaries
    BY <1>3, <1>4 DEF Callees
  <2> QED
    BY <1>1, <1>2, <1>4, <2>1 DEF Answers, Extends
<1>5. ASSUME f.at = "Tighter" PROVE Extends(f, r, pos')
  <2>1. Top.at \in {"Binary", "Rhs", "Tighter"} /\ Top.prec = Precedence(Kind(f.op)) + 1
    BY <1>2, <1>3, <1>5 DEF Callees, Waits
  <2> DEFINE l == Precedence(Kind(f.op))
             k == Precedence(Kind(pos'))
  <2>2. l \in -1..20 /\ k \in -1..20
    BY PrecedenceFacts, Zenon
  <2>3. k < l + 1
    BY <2>1 DEF Answers
  <2>4. k <= l
    <3> HIDE DEF k, l
    <3> QED
      BY <2>2, <2>3
  <2>5. /\ node.first = Top.node.first /\ Closed(node.first, pos' - 1)
        /\ Binds(node.first, pos' - 1, l + 1)
    BY <2>1 DEF Answers, Expressions
  <2> HIDE DEF k, l
  <2>6. Begun(f, node.first - 1) /\ f.at \notin {"Lhs", "Rhs", "Args", "Binary"}
    BY <1>2, <1>5, <2>5
  <2> QED
    BY <1>1, <1>5, <2>4, <2>5, <2>6 DEF Extends, k, l
<1>6. ASSUME f.at \in {"Assign", "Paren", "Args"} PROVE Extends(f, r, pos')
  <2>1. Top.at \in Expressions
    BY <1>3, <1>6 DEF Callees
  <2> QED
    BY <1>1, <1>2, <1>6, <2>1 DEF Answers, Extends
<1>7. ASSUME f.at \notin {"Lhs", "Rhs", "Tighter", "Assign", "Paren", "Args"} PROVE Extends(f, r, pos')
  BY <1>1, <1>7 DEF Extends, Begun
<1>8. Extends(f, r, pos')
  BY <1>4, <1>5, <1>6, <1>7
<1> QED
  BY <1>1, <1>2, <1>8, TextThen DEF f

-----------------------------------------------------------------------------
(* Calls that are not within an expression *)
Quiet(f) == f.at \notin {"Lhs", "Binary", "Rhs", "Tighter", "Assign", "Paren", "Args"}

LEMMA NotNull == ASSUME Keeping', Clean PROVE ~ Null
<1>1. ret'.is # "null"
  BY DEF Keeping, Clean
<1> QED
  BY <1>1 DEF Null, Returned

LEMMA QuietText ==
  ASSUME Shape, Shape', Keeping', Text, stack # <<>>, Top.at # "Program",
         Top.at \notin Expressions \cup Primaries, Clean, UNCHANGED tokens,
         \/ \E f : Become(f) /\ Quiet(f)
         \/ \E f, g : Call(f, g) /\ Quiet(f) /\ Quiet(g)
         \/ \E node : Return(node)
         \/ Null
  PROVE  Text'
<1>1. ASSUME NEW f, Quiet(f) PROVE Extends(f, Nothing, pos') /\ \A p : Begun(f, p)
  BY <1>1 DEF Quiet, Extends, Begun, Nothing, Returned
<1>2. ASSUME NEW f, Become(f), Quiet(f) PROVE Text'
  BY <1>1, <1>2, TextBecome
<1>3. ASSUME NEW f, NEW g, Call(f, g), Quiet(f), Quiet(g) PROVE Text'
  BY <1>1, <1>3, TextCall
<1>4. ASSUME NEW node, Return(node) PROVE Text'
  <2>1. Answers(node, pos')
    BY DEF Answers, Expressions
  <2> QED
    BY <1>4, <2>1, TextReturn
<1> QED
  BY <1>2, <1>3, <1>4, NotNull

LEMMA ProgramText == ASSUME Shape, Shape', Keeping, Text, Clean, Program PROVE Text'
<1>1. stack # <<>> /\ Top.at = "Program" /\ UNCHANGED tokens /\ Linked(stack, Begins)
  BY DEF Program, In, Got, GotNull, Tree, Text, Clean
<1>2. Nothing.is = "none"
  BY DEF Nothing, Returned
<1>3. CASE stack' = <<>>
  <2>1. Len(stack') = 0
    BY <1>3
  <2> QED
    BY <1>3, <2>1 DEF Text, Linked
<1>4. CASE stack' = Append(stack, Calls("Function", pos)) /\ ret' = ret /\ ret.is = "none"
  <2> DEFINE g == Calls("Function", pos)
  <2>1. g.at = "Function" /\ g \in Frames
    BY CallsFacts DEF Shape, Labels
  <2>2. stack' = Append(stack, g)
    BY <1>4
  <2> HIDE DEF g
  <2>3. <<Last(stack), g>> \in Begins
    BY <1>1, <2>1, InnerFacts DEF Begins, Begun, Top
  <2>4. Linked(stack', Begins) /\ Last(stack') = g
    BY <1>1, <2>1, <2>2, <2>3, LinkedPush, PushFacts DEF Shape
  <2>5. Extends(g, ret', pos')
    BY <1>4, <2>1 DEF Extends
  <2> QED
    BY <1>1, <2>4, <2>5, TextThen
<1>5. CASE stack' = stack /\ ret' = Nothing
  <2>1. Last(stack') = Top /\ Extends(Top, ret', pos') /\ Linked(stack', Begins)
    BY <1>1, <1>2, <1>5 DEF Extends, Top
  <2> QED
    BY <1>1, <2>1, TextThen
<1> QED
  BY <1>3, <1>4, <1>5, NoError DEF Program, In

LEMMA StatementText ==
  ASSUME Shape, Shape', Keeping', Text, Clean,
         \/ FunctionName \/ Params \/ Body \/ Block \/ Stmt \/ ReturnStmt
         \/ ExprStmt \/ VariableDecl \/ Condition \/ Branches
  PROVE  Text'
<1>1. /\ stack # <<>> /\ UNCHANGED tokens
      /\ Top.at \in {"Function", "Params", "Body", "Block"} \cup Statements
  BY DEF FunctionName, Params, Body, Block, Stmt, ReturnStmt, ExprStmt, VariableDecl, Condition,
         Branches, In, Got, GotNull, Tree, Statements
<1>2. Top.at # "Program" /\ Top.at \notin Expressions \cup Primaries
  BY <1>1 DEF Statements, Expressions, Primaries
<1>3. /\ \A at, node : Quiet(Plain(at, node)) <=> Quiet([at |-> at])
      /\ \A at, node, op, prec : Quiet(Frame(at, node, op, prec)) <=> Quiet([at |-> at])
      /\ \A at, p : Quiet(Calls(at, p)) <=> Quiet([at |-> at])
  BY DEF Quiet, Plain, Frame, Calls
<1>4. /\ \A at \in {"Function", "Params", "Body", "Block", "Expr"} \cup Statements : Quiet([at |-> at])
      /\ Quiet(Top)
  BY <1>1 DEF Quiet, Statements
<1>5. ASSUME NEW f, Become(f), Quiet(f) PROVE Text'
  BY <1>1, <1>2, <1>5, QuietText
<1>6. ASSUME NEW f, NEW g, Call(f, g), Quiet(f), Quiet(g) PROVE Text'
  BY <1>1, <1>2, <1>6, QuietText
<1>7. ASSUME \/ Null \/ \E node : Return(node) PROVE Text'
  BY <1>1, <1>2, <1>7, QuietText
<1>8. CASE FunctionName
  BY <1>3, <1>4, <1>5, <1>7, <1>8, NoError DEF FunctionName
<1>9. CASE Params
  BY <1>3, <1>4, <1>5, <1>7, <1>9, NoError DEF Params
<1>10. CASE Body
  BY <1>3, <1>4, <1>6, <1>7, <1>10 DEF Body
<1>11. CASE Block
  BY <1>3, <1>4, <1>5, <1>6, <1>7, <1>11 DEF Block, Statements
<1>12. CASE Stmt
  BY <1>3, <1>4, <1>5, <1>6, <1>7, <1>12, NoError DEF Stmt, Statements
<1>13. CASE ReturnStmt
  BY <1>7, <1>13 DEF ReturnStmt
<1>14. ASSUME NEW node, Semicolon(node) PROVE Text'
  BY <1>7, <1>14 DEF Semicolon
<1>15. CASE ExprStmt
  BY <1>7, <1>14, <1>15 DEF ExprStmt
<1>16. CASE VariableDecl
  <2>1. \/ Semicolon(Top.node) \/ Semicolon(Keeps(Top.node, ret.node.keeps)) \/ Null
    BY <1>16, NoError DEF VariableDecl
  <2> QED
    BY <1>7, <1>14, <2>1
<1>17. CASE Condition
  BY <1>3, <1>4, <1>6, <1>7, <1>17, NoError DEF Condition, Statements
<1>18. CASE Branches
  BY <1>3, <1>4, <1>6, <1>7, <1>18, NoError DEF Branches, Statements
<1> QED
  BY <1>8, <1>9, <1>10, <1>11, <1>12, <1>13, <1>15, <1>16, <1>17, <1>18

LEMMA ExprText == ASSUME Shape, Shape', Keeping', Text, Clean, Expr PROVE Text'
<1>1. /\ stack # <<>> /\ Top.at \in {"Expr", "Lhs", "Assign"} /\ Top.at # "Program"
      /\ UNCHANGED tokens /\ pos \in Nat \ {0} /\ Nothing.is = "none"
      /\ Extends(Top, ret, pos) /\ Innermost(Top, ret, pos)
      /\ Top.node.first \in Nat \ {0} /\ ret.node.first \in Nat
  BY PlaceFacts, TopFacts, TextNow DEF Expr, In, Got, GotNull, Tree, Nothing, Returned, Clean
<1>2. CASE /\ In("Expr") /\ Call(Plain("Lhs", Top.node), Plain("Primary", Top.node))
  <2> DEFINE f == Plain("Lhs", Top.node)
             g == Plain("Primary", Top.node)
  <2>1. /\ f.node.first = Top.node.first /\ Begun(f, g.node.first - 1)
        /\ Extends(g, Nothing, pos') /\ Call(f, g)
    BY <1>1, <1>2 DEF Plain, Frame, Begun, Extends
  <2> HIDE DEF f, g
  <2> QED
    BY <1>1, <2>1, TextCall
<1>3. ASSUME Got("Lhs")
      PROVE  /\ ret.node.first = Top.node.first /\ Top.node.first < pos
             /\ Closed(Top.node.first, pos - 1) /\ Outside(Top.node.first, pos - 1) = {}
  BY <1>1, <1>3 DEF Got, Extends, Innermost, Follows
<1>4. CASE /\ Got("Lhs") /\ Kind(pos) = "equal"
           /\ Call(Plain("Assign", Keeps(ret.node, {pos})), Calls("Expr", pos + 1))
  <2> DEFINE f == Plain("Assign", Keeps(ret.node, {pos}))
             g == Calls("Expr", pos + 1)
  <2>1. Closed(Top.node.first, pos)
    <3>1. tokens[pos] = "equal"
      BY <1>1, <1>4, KindFacts
    <3>2. Closed(pos, pos)
      BY <1>1, <3>1, Single
    <3> QED
      BY <1>1, <1>3, <1>4, <3>2, Joined
  <2>2. /\ f.node.first = Top.node.first /\ f.at = "Assign"
        /\ g.node.first = pos + 1 /\ g.at = "Expr" /\ Call(f, g)
    BY <1>3, <1>4 DEF Plain, Frame, Keeps, Calls, Node
  <2> HIDE DEF f, g
  <2>3. Begun(f, g.node.first - 1) /\ Extends(g, Nothing, pos')
    BY <1>1, <2>1, <2>2 DEF Begun, Extends
  <2> QED
    BY <1>1, <2>2, <2>3, TextCall
<1>5. CASE Got("Lhs") /\ Become(Frame("Binary", ret.node, 0, 0)) /\ To(pos)
  <2> DEFINE f == Frame("Binary", ret.node, 0, 0)
  <2>1. f.node.first = Top.node.first /\ f.at = "Binary" /\ Become(f)
    BY <1>3, <1>5 DEF Frame
  <2> HIDE DEF f
  <2>2. Extends(f, Nothing, pos')
    BY <1>1, <1>3, <1>5, <2>1, Stands DEF Extends, Binds
  <2> QED
    BY <1>1, <2>1, <2>2, TextBecome
<1>6. CASE Got("Assign") /\ Return(Keeps(Top.node, ret.node.keeps)) /\ To(pos)
  <2> DEFINE node == Keeps(Top.node, ret.node.keeps)
  <2>1. node.first = Top.node.first /\ Return(node)
    BY <1>6 DEF Keeps, Node
  <2> HIDE DEF node
  <2>2. /\ Closed(Top.node.first, ret.node.first - 1) /\ Closed(ret.node.first, pos - 1)
        /\ Top.node.first < ret.node.first /\ ret.node.first < pos
    BY <1>1, <1>6 DEF Got, Extends, Begun, Innermost, Follows
  <2>3. Closed(Top.node.first, pos - 1)
    BY <1>1, <2>2, Joined
  <2>4. Answers(node, pos')
    BY <1>1, <1>6, <2>1, <2>3, Stands DEF Answers, Got, Primaries
  <2> QED
    BY <1>1, <2>1, <2>4, TextReturn
<1> QED
  BY <1>2, <1>4, <1>5, <1>6, NotNull DEF Expr, Skip

LEMMA ParenText == ASSUME Shape, Shape', Keeping', Text, Clean, Paren PROVE Text'
<1> DEFINE node == [ret.node EXCEPT !.first = Top.node.first]
<1>1. /\ Got("Paren") /\ stack # <<>> /\ Top.at = "Paren" /\ UNCHANGED tokens
      /\ Kind(pos) = "rpar" /\ Return(node) /\ To(pos + 1)
  BY NotNull DEF Paren, Got, GotNull, Tree, Skip
<1>2. /\ pos \in Nat \ {0} /\ Extends(Top, ret, pos) /\ Innermost(Top, ret, pos)
      /\ Top.node.first \in Nat \ {0} /\ ret.node.first \in Nat
  BY <1>1, PlaceFacts, TopFacts, TextNow DEF Clean
<1>3. node.first = Top.node.first
  BY PlaceFacts DEF Nodes
<1> HIDE DEF node
<1>4. /\ Opened(Top.node.first, ret.node.first - 1) /\ Closed(ret.node.first, pos - 1)
      /\ Top.node.first < ret.node.first /\ ret.node.first < pos
  BY <1>1, <1>2 DEF Got, Extends, Begun, Innermost, Follows
<1>5. Opened(Top.node.first, pos - 1)
  BY <1>2, <1>4, Joined
<1>6. pos' = pos + 1 /\ tokens[pos] = "rpar"
  BY <1>1, <1>2, Consumed, KindFacts
<1>7. Closed(Top.node.first, pos) /\ Outside(Top.node.first, pos) = {}
  BY <1>2, <1>4, <1>5, <1>6, ClosedUp
<1>8. Answers(node, pos')
  BY <1>1, <1>2, <1>3, <1>6, <1>7 DEF Answers, Expressions
<1> QED
  BY <1>1, <1>8, TextReturn

LEMMA PrimaryText == ASSUME Shape, Shape', Keeping', Text, Clean, Primary PROVE Text'
<1>1. /\ stack # <<>> /\ Top.at = "Primary" /\ UNCHANGED tokens /\ Nothing.is = "none"
      /\ pos \in Nat \ {0} /\ Top.node.first = pos
  BY PlaceFacts, TopFacts DEF Primary, In, Tree, Nothing, Returned, Innermost
<1>2. ASSUME NEW node, node.first = pos, Return(node), To(pos + 1),
             Kind(pos) \in Atoms \cup {"identifier"}
      PROVE  Text'
  <2>1. pos' = pos + 1 /\ tokens[pos] \in Atoms \cup {"identifier"}
    BY <1>1, <1>2, Consumed, KindFacts DEF Atoms
  <2>2. Closed(pos, pos) /\ Outside(pos, pos) = {}
    BY <1>1, <2>1, Single DEF Atoms, Operator
  <2>3. Answers(node, pos')
    BY <1>1, <1>2, <2>1, <2>2 DEF Answers, Expressions
  <2> QED
    BY <1>1, <1>2, <2>3, TextReturn
<1>3. CASE Kind(pos) = "lpar" /\ Call(Calls("Paren", pos), Calls("Expr", pos + 1))
  <2> DEFINE f == Calls("Paren", pos)
             g == Calls("Expr", pos + 1)
  <2>1. /\ f.at = "Paren" /\ f.node.first = pos /\ g.at = "Expr" /\ g.node.first = pos + 1
        /\ Call(f, g)
    BY <1>3 DEF Calls, Plain, Frame, Node
  <2> HIDE DEF f, g
  <2>2. Opened(pos, pos)
    BY <1>1, <1>3, KindFacts, Single
  <2>3. Begun(f, g.node.first - 1) /\ Extends(g, Nothing, pos')
    BY <1>1, <2>1, <2>2 DEF Begun, Extends
  <2> QED
    BY <1>1, <2>1, <2>3, TextCall
<1>4. CASE /\ Kind(pos) \in {"identifier", "print"} /\ Kind(pos + 1) = "lpar" /\ To(pos + 2)
           /\ Become(Frame("Args", Token, pos, 0))
  <2> DEFINE f == Frame("Args", Token, pos, 0)
  <2>1. f.at = "Args" /\ f.node.first = pos /\ Become(f)
    BY <1>4 DEF Frame, Token, Node
  <2> HIDE DEF f
  <2>2. /\ pos + 1 \in Nat \ {0} /\ pos' = pos + 2 /\ tokens[pos + 1] = "lpar"
        /\ tokens[pos] \in {"identifier", "print"}
    BY <1>1, <1>4, KindFacts DEF To
  <2>3. Opened(pos + 1, pos + 1) /\ pos' - 1 = pos + 1
    BY <1>1, <2>2, Single
  <2>4. Extends(f, Nothing, pos')
    BY <1>1, <2>1, <2>2, <2>3 DEF Extends, Begun
  <2> QED
    BY <1>1, <2>1, <2>4, TextBecome
<1>5. Token.first = pos /\ Node(pos, TRUE, {pos}).first = pos
  BY DEF Token, Node
<1> QED
  BY <1>2, <1>3, <1>4, <1>5, NotNull DEF Primary, Skip, Atoms

LEMMA ArgsText == ASSUME Shape, Shape', Keeping', Text, Clean, Args, ret.is # "null" PROVE Text'
<1>1. /\ stack # <<>> /\ Top.at = "Args" /\ UNCHANGED tokens /\ Nothing.is = "none"
      /\ pos \in Nat \ {0} /\ Extends(Top, ret, pos) /\ Innermost(Top, ret, pos)
      /\ Top.node.first \in Nat \ {0} /\ ret.node.first \in Nat
  BY PlaceFacts, TopFacts, TextNow DEF Args, In, Got, GotNull, Tree, Nothing, Returned, Clean
<1>2. CASE In("Args") /\ Call(Top, Calls("Expr", pos)) /\ To(pos)
  <2> DEFINE g == Calls("Expr", pos)
  <2>1. g.at = "Expr" /\ g.node.first = pos /\ Call(Top, g)
    BY <1>2 DEF Calls, Plain, Frame, Node
  <2> HIDE DEF g
  <2>2. Begun(Top, g.node.first - 1) /\ Extends(g, Nothing, pos')
    BY <1>1, <1>2, <2>1 DEF Extends, In
  <2> QED
    BY <1>1, <2>1, <2>2, TextCall
<1>3. CASE /\ Got("Args") /\ Kind(pos) \in {"comma", "rpar"} /\ To(PastComma(pos))
           /\ Become(Frame("Args", Keeps(Top.node, ret.node.keeps), Top.op, Top.prec + 1))
  <2> DEFINE f == Frame("Args", Keeps(Top.node, ret.node.keeps), Top.op, Top.prec + 1)
  <2>1. f.at = "Args" /\ f.node.first = Top.node.first /\ Become(f)
    BY <1>3 DEF Frame, Keeps, Node
  <2> HIDE DEF f
  <2>2. /\ tokens[Top.node.first] \in {"identifier", "print"}
        /\ Opened(Top.node.first + 1, ret.node.first - 1) /\ Closed(ret.node.first, pos - 1)
        /\ Top.node.first < ret.node.first /\ ret.node.first < pos
    BY <1>1, <1>3 DEF Got, Extends, Begun, Innermost, Follows
  <2>3. Opened(Top.node.first + 1, pos - 1)
    BY <1>1, <2>2, Joined
  <2>4. CASE Kind(pos) = "comma"
    <3>1. pos' = pos + 1 /\ tokens[pos] = "comma"
      BY <1>1, <1>3, <2>4, Consumed, KindFacts DEF PastComma
    <3>2. Closed(pos, pos)
      BY <1>1, <3>1, Single
    <3>3. Opened(Top.node.first + 1, pos)
      BY <1>1, <2>2, <2>3, <3>2, Joined
    <3>4. Extends(f, Nothing, pos')
      BY <1>1, <2>1, <2>2, <3>1, <3>3 DEF Extends, Begun
    <3> QED
      BY <1>1, <2>1, <3>4, TextBecome
  <2>5. CASE Kind(pos) = "rpar"
    <3>1. pos' = pos
      BY <1>1, <1>3, <2>5, Stands DEF PastComma
    <3>2. Extends(f, Nothing, pos')
      BY <1>1, <2>1, <2>2, <2>3, <3>1 DEF Extends, Begun
    <3> QED
      BY <1>1, <2>1, <3>2, TextBecome
  <2> QED
    BY <1>3, <2>4, <2>5
<1> QED
  BY <1>2, <1>3, NoError DEF Args, Skip, GotNull

LEMMA ArgumentsText == ASSUME Shape, Shape', Keeping', Text, Clean, Arguments PROVE Text'
<1>1. /\ stack # <<>> /\ Top.at = "Args" /\ UNCHANGED tokens /\ ret.is = "none"
      /\ pos \in Nat \ {0} /\ Extends(Top, ret, pos) /\ Innermost(Top, ret, pos)
      /\ Top.node.first \in Nat \ {0}
  BY PlaceFacts, TopFacts, TextNow DEF Arguments, In, Tree, Clean
<1>2. Kind(pos) = "rpar" /\ Return(Top.node) /\ To(pos + 1)
  BY DEF Arguments, Clean
<1> DEFINE p == Top.node.first
<1>3. pos' = pos + 1 /\ tokens[pos] = "rpar"
  BY <1>1, <1>2, Consumed, KindFacts
<1>4. tokens[p] \in {"identifier", "print"} /\ Opened(p + 1, pos - 1) /\ p < pos
  BY <1>1 DEF Extends, Begun, Innermost
<1>5. p + 1 < pos
  <2>1. CASE p + 1 = pos
    <3>1. Opened(p + 1, p)
      BY <1>1, <1>4, <2>1
    <3>2. Open(p) \in Int
      BY <1>1, OpenNext
    <3> QED
      BY <1>1, <3>1, <3>2 DEF Opened
  <2> QED
    BY <1>1, <1>4, <2>1
<1>6. Closed(p, p) /\ Outside(p, p) = {}
  BY <1>1, <1>4, Single DEF Operator
<1>7. Closed(p + 1, pos) /\ Outside(p + 1, pos) = {}
  BY <1>1, <1>3, <1>4, <1>5, ClosedUp
<1>8. Closed(p, pos) /\ Outside(p, pos) = {}
  BY <1>1, <1>5, <1>6, <1>7, Joined
<1>9. Answers(Top.node, pos')
  BY <1>1, <1>3, <1>8 DEF Answers, Expressions
<1> QED
  BY <1>1, <1>2, <1>9, TextReturn

(* The two operands of an operator, and what becomes of them *)
LEMMA Operands ==
  ASSUME Shape, Text, Clean, stack # <<>>, Top.at \in {"Rhs", "Tighter"}, ret.is = "node",
         Top.at = "Rhs" => ~ BindsTighter(Precedence(Kind(Top.op)), Precedence(Kind(pos)))
  PROVE  LET first == Top.node.first
             op    == Top.op
         IN  /\ tokens[op] \in Operator /\ op \in Nat \ {0} /\ first \in Nat \ {0} /\ first <= op
             /\ op + 1 < pos /\ Kind(op) = tokens[op]
             /\ Closed(first, pos - 1) /\ Open(op) = Open(first - 1)
             /\ Outside(first, pos - 1) = Outside(first, op - 1) \cup {op} \cup Outside(op + 1, pos - 1)
             /\ Binds(first, op - 1, Precedence(Kind(op)))
             /\ Binds(op + 1, pos - 1, Precedence(Kind(op)) + 1)
             /\ Precedence(Kind(pos)) <= Precedence(Kind(op))
             /\ Top.prec <= Precedence(Kind(op))
<1> DEFINE first == Top.node.first
           op == Top.op
           l == Precedence(Kind(op))
           k == Precedence(Kind(pos))
<1>1. /\ Extends(Top, ret, pos) /\ Innermost(Top, ret, pos) /\ pos \in Nat \ {0}
      /\ Len(tokens) \in Nat /\ op \in 0..Len(tokens) /\ first \in Nat \ {0}
      /\ ret.node.first \in Nat
  BY TopFacts, TextNow, PlaceFacts DEF Clean
<1>2. /\ op # 0 /\ ret.node.first = op + 1 /\ op + 1 < pos /\ first < op + 1
  BY <1>1 DEF Innermost, Follows
<1>3. op \in Nat \ {0} /\ first <= op /\ Kind(op) = tokens[op]
  BY <1>1, <1>2, KindFacts
<1>4. /\ Closed(first, op - 1) /\ tokens[op] \in Operator /\ Top.prec <= l /\ Binds(first, op - 1, l)
  <2>1. Begun(Top, ret.node.first - 1)
    BY <1>1 DEF Extends
  <2> QED
    BY <1>3, <2>1 DEF Begun
<1>5. /\ Closed(op + 1, pos - 1)
      /\ Top.at = "Rhs" => Outside(op + 1, pos - 1) = {}
      /\ Top.at = "Tighter" => Binds(op + 1, pos - 1, l + 1) /\ k <= l
  BY <1>1, <1>2 DEF Extends
<1>6. Binds(op + 1, pos - 1, l + 1) /\ k <= l
  <2>1. CASE Top.at = "Tighter"
    BY <1>5, <2>1
  <2>2. CASE Top.at = "Rhs"
    <3>1. l \in -1..20 /\ k \in -1..20
      BY PrecedenceFacts, Zenon
    <3>2. ~ (l < k)
      BY <2>2 DEF BindsTighter
    <3>3. k <= l
      <4> HIDE DEF k, l
      <4> QED
        BY <3>1, <3>2
    <3> QED
      BY <1>5, <2>2, <3>3 DEF Binds
  <2> QED
    BY <2>1, <2>2
<1> HIDE DEF first, op, l, k
<1>7. /\ Closed(op, op) /\ Outside(op, op) = {op}
  BY <1>3, <1>4, Single
<1>8. /\ Closed(first, op) /\ Outside(first, op) = Outside(first, op - 1) \cup {op}
  BY <1>1, <1>3, <1>4, <1>7, Joined
<1>9. /\ Closed(first, pos - 1)
      /\ Outside(first, pos - 1) = Outside(first, op - 1) \cup {op} \cup Outside(op + 1, pos - 1)
  <2>1. op + 1 \in Nat \ {0} /\ op + 1 - 1 = op /\ pos - 1 \in Nat /\ first <= op + 1 /\ op + 1 <= pos - 1 + 1
    BY <1>1, <1>2, <1>3
  <2> QED
    BY <1>1, <1>5, <1>8, <2>1, Joined
<1>10. Open(op) = Open(first - 1)
  BY <1>8 DEF Closed
<1> QED
  BY <1>1, <1>2, <1>3, <1>4, <1>6, <1>9, <1>10 DEF first, op, l, k

LEMMA BinaryText == ASSUME Shape, Shape', Keeping', Text, Clean, Binary PROVE Text'
<1>1. /\ stack # <<>> /\ Top.at \in {"Binary", "Rhs", "Tighter"} /\ Top.at # "Program"
      /\ UNCHANGED tokens /\ pos \in Nat \ {0} /\ Nothing.is = "none"
      /\ Extends(Top, ret, pos) /\ Innermost(Top, ret, pos)
      /\ Top.node.first \in Nat \ {0} /\ ret.node.first \in Nat
  BY PlaceFacts, TopFacts, TextNow DEF Binary, In, Got, GotNull, Tree, Nothing, Returned, Clean
<1>2. ASSUME In("Binary")
      PROVE  /\ Closed(Top.node.first, pos - 1) /\ Binds(Top.node.first, pos - 1, Top.prec)
             /\ Binds(Top.node.first, pos - 1, Precedence(Kind(pos)))
  BY <1>1, <1>2 DEF In, Extends
<1>3. CASE In("Binary") /\ Precedence(Kind(pos)) < Top.prec /\ Return(Top.node) /\ To(pos)
  <2>1. pos' = pos /\ Kind(pos') = Kind(pos)
    BY <1>3, Stands
  <2>2. Answers(Top.node, pos')
    BY <1>2, <1>3, <2>1 DEF Answers, In, Primaries
  <2> QED
    BY <1>1, <1>3, <2>2, TextReturn
<1>4. CASE /\ In("Binary") /\ Precedence(Kind(pos)) >= Top.prec
           /\ Call(Frame("Rhs", Top.node, pos, Top.prec), Calls("Primary", pos + 1))
  <2> DEFINE f == Frame("Rhs", Top.node, pos, Top.prec)
             g == Calls("Primary", pos + 1)
             l == Precedence(Kind(pos))
  <2>1. l \in -1..20 /\ (l >= 0 <=> Kind(pos) \in Operator)
    BY PrecedenceFacts, Zenon
  <2>2. l >= Top.prec /\ Top.prec \in Nat
    BY <1>1, <1>4, TopFacts
  <2>3. Kind(pos) \in Operator /\ Top.prec <= l
    <3> HIDE DEF l
    <3> QED
      BY <2>1, <2>2
  <2>4. /\ f.at = "Rhs" /\ f.node.first = Top.node.first /\ f.op = pos /\ f.prec = Top.prec
        /\ g.at = "Primary" /\ g.node.first = pos + 1 /\ Call(f, g)
    BY <1>4 DEF Frame, Calls, Plain, Node
  <2> HIDE DEF f, g
  <2>5. Begun(f, g.node.first - 1) /\ Extends(g, Nothing, pos')
    BY <1>1, <1>2, <1>4, <2>3, <2>4 DEF Begun, Extends
  <2> QED
    BY <1>1, <2>4, <2>5, TextCall
<1>5. CASE /\ Got("Rhs") /\ BindsTighter(Precedence(Kind(Top.op)), Precedence(Kind(pos))) /\ To(pos)
           /\ Call(Frame("Tighter", Top.node, Top.op, Top.prec),
                   Frame("Binary", ret.node, 0, LevelAbove(Precedence(Kind(Top.op)))))
  <2> DEFINE f == Frame("Tighter", Top.node, Top.op, Top.prec)
             g == Frame("Binary", ret.node, 0, LevelAbove(Precedence(Kind(Top.op))))
  <2>1. /\ f.at = "Tighter" /\ f.node.first = Top.node.first /\ f.op = Top.op /\ f.prec = Top.prec
        /\ g.at = "Binary" /\ g.node.first = ret.node.first /\ Call(f, g)
    BY <1>5 DEF Frame
  <2> HIDE DEF f, g
  <2>2. /\ Begun(Top, ret.node.first - 1) /\ Top.at = "Rhs"
        /\ Closed(ret.node.first, pos - 1) /\ Outside(ret.node.first, pos - 1) = {}
    BY <1>1, <1>5 DEF Got, Extends
  <2>3. Begun(f, g.node.first - 1)
    BY <2>1, <2>2 DEF Begun
  <2>4. Extends(g, Nothing, pos')
    BY <1>1, <1>5, <2>1, <2>2, Stands DEF Extends, Binds
  <2> QED
    BY <1>1, <2>1, <2>3, <2>4, TextCall
<1>6. CASE /\ \/ Got("Rhs") /\ ~ BindsTighter(Precedence(Kind(Top.op)), Precedence(Kind(pos)))
              \/ Got("Tighter")
           /\ Become(Frame("Binary", Combined(Top.node, Top.op, ret.node), 0, Top.prec)) /\ To(pos)
  <2> DEFINE f == Frame("Binary", Combined(Top.node, Top.op, ret.node), 0, Top.prec)
             first == Top.node.first
             op == Top.op
             l == Precedence(Kind(op))
             k == Precedence(Kind(pos))
  <2>1. /\ f.at = "Binary" /\ f.node.first = first /\ f.prec = Top.prec /\ Become(f)
    BY <1>6 DEF Frame, Combined, Keeps, Node
  <2> HIDE DEF f
  <2>2. /\ Top.at \in {"Rhs", "Tighter"} /\ ret.is = "node"
        /\ Top.at = "Rhs" => ~ BindsTighter(Precedence(Kind(Top.op)), Precedence(Kind(pos)))
    BY <1>6 DEF Got
  <2>3. /\ Closed(first, pos - 1) /\ Kind(op) = tokens[op]
        /\ Outside(first, pos - 1) = Outside(first, op - 1) \cup {op} \cup Outside(op + 1, pos - 1)
        /\ Binds(first, op - 1, l) /\ Binds(op + 1, pos - 1, l + 1)
        /\ k <= l /\ Top.prec <= l
    BY <1>1, <2>2, Operands
  <2>4. \A q \in Outside(first, pos - 1) : l <= Precedence(tokens[q])
    <3>1. \A q \in Outside(first, op - 1) : l <= Precedence(tokens[q])
      BY <2>3 DEF Binds
    <3>2. \A q \in Outside(op + 1, pos - 1) : l + 1 <= Precedence(tokens[q])
      BY <2>3 DEF Binds
    <3>3. l \in -1..20 /\ \A q : Precedence(tokens[q]) \in -1..20
      BY PrecedenceFacts, Zenon
    <3>4. Precedence(tokens[op]) = l
      BY <2>3
    <3> HIDE DEF l, op
    <3> QED
      BY <2>3, <3>1, <3>2, <3>3, <3>4
  <2>5. \A q : Precedence(tokens[q]) \in -1..20
    BY PrecedenceFacts, Zenon
  <2>6. l \in -1..20 /\ k \in -1..20 /\ Top.prec \in Nat
    <3>1. l \in -1..20 /\ k \in -1..20
      BY PrecedenceFacts, Zenon
    <3> QED
      BY <1>1, <3>1, TopFacts, Zenon
  <2>7. Binds(first, pos - 1, Top.prec) /\ Binds(first, pos - 1, k)
    <3> HIDE DEF l, k, op
    <3> QED
      BY <2>3, <2>4, <2>5, <2>6 DEF Binds
  <2>8. Extends(f, Nothing, pos')
    BY <1>1, <1>6, <2>1, <2>3, <2>7, Stands DEF Extends
  <2> QED
    BY <1>1, <2>1, <2>8, TextBecome
<1> QED
  BY <1>3, <1>4, <1>5, <1>6, NotNull DEF Binary, Skip

LEMMA InitText == ASSUME Init PROVE Text /\ AllWeakest
<1> DEFINE f == Plain("Program", Nothing.node)
<1>1. f.at = "Program" /\ ret.is = "none" /\ built = {}
  BY DEF Plain, Frame, Nothing, Returned, Init
<1>2. stack = <<f>>
  BY DEF Init
<1> HIDE DEF f
<1>3. Linked(stack, Begins) /\ stack # <<>> /\ Top = f
  BY <1>2 DEF Linked, Top, Last
<1> QED
  BY <1>1, <1>3 DEF Text, AllWeakest, Extends

LEMMA StepText ==
  ASSUME Shape, Shape', Keeping, Keeping', Text, AllWeakest, [Next]_vars
  PROVE  Text' /\ AllWeakest'
<1>1. CASE UNCHANGED vars
  <2>1. \A p : Kind(p)' = Kind(p) /\ Open(p)' = Open(p)
    BY <1>1 DEF vars, Kind, Open
  <2>2. \A p, q : /\ Closed(p, q)' <=> Closed(p, q)
                  /\ Opened(p, q)' <=> Opened(p, q)
                  /\ Outside(p, q)' = Outside(p, q)
    BY <1>1, <2>1 DEF Closed, Opened, Outside, vars
  <2>3. Begins' = Begins /\ (Extends(Top, ret, pos)' <=> Extends(Top, ret, pos))
    BY <1>1, <2>1, <2>2 DEF vars, Begins, Begun, Binds, Frames, Nodes, Extends, Top
  <2>4. \A b : Weakest(b)' <=> Weakest(b)
    BY <1>1, <2>1, <2>2 DEF vars, Weakest
  <2> QED
    BY <1>1, <2>3, <2>4 DEF vars, Text, Linked, AllWeakest
<1>2. CASE Next /\ diagnostics' # {}
  BY <1>2 DEF Text, AllWeakest
<1>3. CASE Next /\ diagnostics' = {}
  <2>1. Clean
    BY <1>3, StepReports DEF Reports, Clean
  <2>2. ret.is # "null"
    BY <2>1 DEF Keeping, Clean
  <2>3. Text'
    BY <1>3, <2>1, <2>2, ProgramText, StatementText, ExprText, BinaryText, PrimaryText, ParenText,
       ArgsText, ArgumentsText DEF Next
  <2>4. UNCHANGED tokens
    BY <1>3, StepTree
  <2>5. \A b : Weakest(b)' <=> Weakest(b)
    BY <2>4 DEF Weakest, Outside, Open
  <2>6. ASSUME NEW b \in built' PROVE Weakest(b)
    <3>1. CASE built' = built
      BY <2>1, <2>6, <3>1 DEF AllWeakest, Clean
    <3>2. CASE Combines /\ b \notin built
      <4> DEFINE first == Top.node.first
                 op == Top.op
                 l == Precedence(Kind(op))
      <4>1. b.op = op /\ b.first = first /\ b.last = pos - 1
        BY <2>6, <3>2 DEF Combines
      <4>2. /\ first <= op
            /\ tokens[op] \in Operator /\ op \in Nat \ {0} /\ pos \in Nat \ {0} /\ first \in Nat \ {0}
            /\ Kind(op) = tokens[op] /\ Open(op) = Open(first - 1)
            /\ Outside(first, pos - 1) = Outside(first, op - 1) \cup {op} \cup Outside(op + 1, pos - 1)
            /\ Binds(first, op - 1, l) /\ Binds(op + 1, pos - 1, l + 1)
        BY <2>1, <3>2, Operands, PlaceFacts DEF Combines
      <4>3. l \in -1..20 /\ \A q : Precedence(tokens[q]) \in -1..20
        BY PrecedenceFacts, Zenon
      <4>4. Precedence(tokens[op]) = l
        BY <4>2
      <4> HIDE DEF l, op, first
      <4>5. ASSUME NEW q \in Outside(first, pos - 1)
            PROVE  l <= Precedence(tokens[q]) /\ (q > op => l < Precedence(tokens[q]))
        <5>1. CASE q \in Outside(first, op - 1)
          <6>1. l <= Precedence(tokens[q]) /\ q \in first..op - 1
            BY <4>2, <5>1 DEF Binds, Outside
          <6> QED
            BY <4>2, <4>3, <6>1
        <5>2. CASE q = op
          BY <4>2, <4>3, <4>4, <5>2
        <5>3. CASE q \in Outside(op + 1, pos - 1)
          <6>1. l + 1 <= Precedence(tokens[q])
            BY <4>2, <5>3 DEF Binds
          <6> QED
            BY <4>3, <6>1
        <5> QED
          BY <4>2, <4>5, <5>1, <5>2, <5>3
      <4> QED
        BY <4>1, <4>2, <4>4, <4>5 DEF Weakest
    <3> QED
      BY <1>3, <2>1, <2>6, <3>1, <3>2, StepTree DEF Tree, Collects, AllWeakest, Clean, Combines
  <2> QED
    BY <2>3, <2>5, <2>6 DEF AllWeakest
<1> QED
  BY <1>1, <1>2, <1>3

-----------------------------------------------------------------------------
(* Brackets counted from p on *)
LEMMA CountFrom ==
  ASSUME NEW kind, NEW p \in Nat \ {0}, NEW q \in Nat, p <= q + 1
  PROVE  LET C(n) == {i \in 1..n : tokens[i] = kind}
         IN  Cardinality({i \in p..q : tokens[i] = kind}) = Cardinality(C(q)) - Cardinality(C(p - 1))
<1> DEFINE C(n) == {i \in 1..n : tokens[i] = kind}
           D == {i \in p..q : tokens[i] = kind}
<1>1. C(q) = C(p - 1) \cup D /\ C(p - 1) \cap D = {}
  OBVIOUS
<1>2. IsFiniteSet(C(p - 1)) /\ p - 1 \in Nat
  <2>1. p - 1 \in Nat
    OBVIOUS
  <2> QED
    BY <2>1, CountNext, Zenon
<1>3. IsFiniteSet(D) /\ D \subseteq p..q
  <2>1. IsFiniteSet(p..q) /\ D \subseteq p..q
    BY FS_Interval
  <2> QED
    BY <2>1, FS_Subset
<1> HIDE DEF C, D
<1>4. Cardinality(C(q)) = Cardinality(C(p - 1)) + Cardinality(D) - Cardinality(C(p - 1) \cap D)
  BY <1>1, <1>2, <1>3, FS_Union
<1>5. Cardinality(C(p - 1) \cap D) = 0
  BY <1>1, FS_EmptySet
<1>6. Cardinality(C(p - 1)) \in Nat /\ Cardinality(D) \in Nat
  BY <1>2, <1>3, FS_CardinalityType
<1>7. Cardinality(D) = Cardinality(C(q)) - Cardinality(C(p - 1))
  BY <1>4, <1>5, <1>6
<1> QED
  BY <1>7 DEF C, D

LEMMA DepthIs ==
  ASSUME NEW p \in Nat \ {0}, NEW q \in Nat, p <= q, tokens[q] # "lpar"
  PROVE  Depth(p, q) = Open(q) - Open(p - 1)
<1> DEFINE L(n) == Cardinality({i \in 1..n : tokens[i] = "lpar"})
           R(n) == Cardinality({i \in 1..n : tokens[i] = "rpar"})
<1>1. q - 1 \in Nat /\ p <= q - 1 + 1 /\ p <= q + 1 /\ q - 1 + 1 = q /\ p - 1 \in Nat
  OBVIOUS
<1>2. Cardinality({i \in p..q - 1 : tokens[i] = "lpar"}) = L(q - 1) - L(p - 1)
  BY <1>1, CountFrom
<1>3. Cardinality({i \in p..q : tokens[i] = "rpar"}) = R(q) - R(p - 1)
  BY <1>1, CountFrom
<1>4. \A n \in Nat : L(n) \in Nat /\ R(n) \in Nat
  BY CountNext
<1>5. L(q) = L(q - 1)
  <2>1. q \notin {i \in 1..q : tokens[i] = "lpar"}
    OBVIOUS
  <2>2. {i \in 1..q : tokens[i] = "lpar"} = {i \in 1..q - 1 : tokens[i] = "lpar"}
    BY <2>1
  <2> QED
    BY <2>2
<1>6. Open(q) = L(q) - R(q) /\ Open(p - 1) = L(p - 1) - R(p - 1)
  BY DEF Open
<1>7. Depth(p, q) = (L(q - 1) - L(p - 1)) - (R(q) - R(p - 1))
  BY <1>2, <1>3 DEF Depth
<1> HIDE DEF L, R
<1> QED
  BY <1>1, <1>4, <1>5, <1>6, <1>7

LEMMA WeakestIs == ASSUME Shape, Recorded, AllWeakest PROVE PrecedenceOK
<1> SUFFICES ASSUME diagnostics = {}, NEW b \in built
             PROVE  /\ Depth(b.first, b.op) = 0
                    /\ \A q \in b.first..b.last :
                         tokens[q] \in Operator /\ Depth(b.first, q) = 0 =>
                           /\ Precedence(tokens[q]) >= Precedence(tokens[b.op])
                           /\ q > b.op => Precedence(tokens[q]) > Precedence(tokens[b.op])
  BY DEF PrecedenceOK
<1>1. Weakest(b) /\ b \in [op : 1..Len(tokens), first : 1..Len(tokens), last : 1..Len(tokens)]
  BY DEF AllWeakest, Recorded
<1>2. /\ b.first \in Nat \ {0} /\ b.op \in Nat \ {0} /\ b.last \in Nat /\ b.first <= b.op
      /\ tokens[b.op] \in Operator /\ Open(b.op) = Open(b.first - 1)
      /\ Open(b.op) \in Int /\ "lpar" \notin Operator
  <2>1. /\ b.first \in Nat \ {0} /\ b.op \in Nat \ {0} /\ b.last \in Nat
    BY <1>1, PlaceFacts
  <2> QED
    BY <1>1, <2>1, OpenNext DEF Weakest, Operator
<1>3. Depth(b.first, b.op) = 0
  BY <1>2, DepthIs
<1>4. ASSUME NEW q \in b.first..b.last, tokens[q] \in Operator, Depth(b.first, q) = 0
      PROVE  q \in Outside(b.first, b.last)
  <2>1. q \in Nat /\ b.first <= q /\ tokens[q] # "lpar"
    BY <1>2, <1>4
  <2>2. Open(q) \in Int /\ Open(b.first - 1) \in Int /\ Depth(b.first, q) = Open(q) - Open(b.first - 1)
    BY <1>2, <2>1, DepthIs, OpenNext, OpenAt
  <2> QED
    BY <1>4, <2>2 DEF Outside
<1>5. \A q : Precedence(tokens[q]) \in -1..20
  BY PrecedenceFacts, Zenon
<1>6. ASSUME NEW q \in b.first..b.last, tokens[q] \in Operator, Depth(b.first, q) = 0
      PROVE  /\ Precedence(tokens[q]) >= Precedence(tokens[b.op])
             /\ q > b.op => Precedence(tokens[q]) > Precedence(tokens[b.op])
  <2>1. /\ Precedence(tokens[b.op]) <= Precedence(tokens[q])
        /\ q > b.op => Precedence(tokens[b.op]) < Precedence(tokens[q])
    BY <1>1, <1>4, <1>6 DEF Weakest
  <2> QED
    BY <1>5, <2>1
<1> QED
  BY <1>3, <1>6

(* Operators bind by precedence and to the left, however long and however nested the *)
(* expression: the climbing of parseBinaryExpr() gives each BinaryExpr just the      *)
(* operands that the levels of the operators call for.                               *)
THEOREM PrecedenceIsRight == Spec => []PrecedenceOK
<1>1. Init => Recorded /\ Keeping /\ Text /\ AllWeakest
  BY InitKeeping, InitText DEF Init, Recorded
<1>2. Shape /\ Recorded /\ [Next]_vars => Recorded'
  <2>1. UNCHANGED vars /\ Recorded => Recorded'
    BY DEF vars, Recorded, Places
  <2> QED
    BY <2>1, StepRecorded
<1>3. Shape /\ Keeping /\ [Next]_vars => Keeping'
  BY StepKeeping
<1>4. Shape /\ Shape' /\ Keeping /\ Keeping' /\ Text /\ AllWeakest /\ [Next]_vars
        => Text' /\ AllWeakest'
  BY StepText
<1>5. Shape /\ Recorded /\ AllWeakest => PrecedenceOK
  BY WeakestIs
<1> QED
  BY <1>1, <1>2, <1>3, <1>4, <1>5, CallsFit, PTL DEF Spec

-----------------------------------------------------------------------------
(* What follows the places of S: a token of these kinds, a phrase by g or of the grammar *)
Eat(S, kinds)       == {p + 1 : p \in {q \in S : Kind(q) \in kinds}}
After(g, S, symbol) == UNION {g[<<symbol, p>>] : p \in S}
Then(S, symbol)     == After(ends, S, symbol)
Before(S, kinds)    == {p \in S : Kind(p) \in kinds}

(* The rules of the grammar, over what g takes the phrases that are part of others for *)
FunctionHead(i)  == Eat(Eat(Eat({i}, {"func"}), {"identifier"}), {"lpar"})
Header(g, S)     == Eat(Eat(Eat(After(g, S, "params"), {"rpar"}), {"colon"}), TypeName)
Param(i)         == Eat(Eat(Eat({i}, {"identifier"}), {"colon"}), TypeName)
Test(g, i, kind) == Eat(After(g, Eat(Eat({i}, {kind}), {"lpar"}), "expr"), {"rpar"})
Decl(i)          == Eat(Eat({i}, {"cf_int", "cf_float"}), {"identifier"})
IfStmt(g, i)     == After(g, Test(g, i, "cf_if"), "block")
Call1(i, kind)   == Eat(Eat({i}, {kind}), {"lpar"})

Rule(g, s, i) ==
  CASE s = "program"  ->
         IF i > Len(tokens) THEN {i} ELSE After(g, g[<<"function", i>>], "program")
    [] s = "function" -> After(g, Header(g, FunctionHead(i)), "block")
    [] s = "params"   -> {i} \cup After(g, Param(i) \cup Eat(Param(i), {"comma"}), "params")
    [] s = "block"    -> Eat(After(g, Eat({i}, {"lbrace"}), "stmts"), {"rbrace"})
    [] s = "stmts"    -> {i} \cup After(g, g[<<"stmt", i>>], "stmts")
    [] s = "stmt"     ->
         Eat(g[<<"expr", i>>] \cup Eat({i}, {"cf_return"}) \cup After(g, Eat({i}, {"cf_return"}), "expr")
               \cup Decl(i) \cup After(g, Eat(Decl(i), {"equal"}), "expr"), {"semi"})
           \cup IfStmt(g, i)
           \cup After(g, Eat(IfStmt(g, i), {"cf_else"}) \cup Test(g, i, "cf_while"), "block")
    [] s = "expr"     -> After(g, Eat(g[<<"target", i>>], {"equal"}), "expr") \cup g[<<"chain", i>>]
    [] s = "target"   ->
         Eat({i}, {"identifier"}) \cup Eat(After(g, Eat({i}, {"lpar"}), "target"), {"rpar"})
    [] s = "chain"    -> g[<<"primary", i>>] \cup After(g, Eat(g[<<"primary", i>>], Operator), "chain")
    [] s = "primary"  ->
         Eat({i}, Atoms \cup {"identifier"})
           \cup Eat(Call1(i, "identifier")
                      \cup After(g, Call1(i, "identifier") \cup Call1(i, "print"), "args")
                      \cup After(g, Eat({i}, {"lpar"}), "expr"), {"rpar"})
    [] s = "args"     ->
         g[<<"expr", i>>] \cup Eat(g[<<"expr", i>>], {"comma"})
           \cup After(g, Eat(g[<<"expr", i>>], {"comma"}), "args")

Phrases == Symbols \X Places

(* A phrase depends on phrases that begin later, and on those of a lower rank here. *)
Rank(s) ==
  CASE s = "stmts" -> 4 [] s \in {"stmt", "args"} -> 3 [] s = "expr" -> 2
    [] s \in {"chain", "program"} -> 1 [] OTHER -> 0
Reach(e) == 5 * (Len(tokens) + 1 - e[2]) + Rank(e[1])

(* Where a phrase may end: these three may be empty. *)
Later(m)  == m..Len(tokens) + 1
Beyond(e) == IF e[1] \in {"program", "params", "stmts"} THEN Later(e[2]) ELSE Later(e[2] + 1)

Agree(g, h, e) ==
  \A x \in Phrases : Reach(x) < Reach(e) => g[x] = h[x] /\ g[x] \subseteq Beyond(x)

LEMMA LaterFacts ==
  ASSUME Shape
  PROVE  /\ "eof" \notin Kinds
         /\ \A m \in Int : Later(m + 1) \subseteq Later(m)
         /\ \A s \in Symbols : Rank(s) \in 0..4
         /\ \A e \in Phrases : Beyond(e) \subseteq Later(e[2]) /\ Reach(e) \in Nat
<1>1. \A m \in Int : Later(m + 1) \subseteq Later(m)
  BY PlaceFacts DEF Later
<1>2. ASSUME NEW s \in Symbols PROVE Rank(s) \in 0..4
  BY DEF Rank, Symbols
<1>3. ASSUME NEW e \in Phrases PROVE Beyond(e) \subseteq Later(e[2]) /\ Reach(e) \in Nat
  <2>1. e[1] \in Symbols /\ e[2] \in 1..Len(tokens) + 1 /\ Len(tokens) \in Nat
    BY PlaceFacts DEF Phrases, Places
  <2>2. Rank(e[1]) \in 0..4 /\ Later(e[2] + 1) \subseteq Later(e[2])
    BY <1>1, <1>2, <2>1
  <2> QED
    BY <2>1, <2>2 DEF Beyond, Reach
<1> QED
  BY <1>1, <1>2, <1>3 DEF Kinds, Atoms, TypeName, Keyword, Operator, Brackets

LEMMA EatLater ==
  ASSUME Shape, NEW m \in Nat, NEW S, S \subseteq Later(m), NEW kinds, kinds \subseteq Kinds
  PROVE  Eat(S, kinds) \subseteq Later(m + 1)
<1> SUFFICES ASSUME NEW q \in S, Kind(q) \in kinds PROVE q + 1 \in Later(m + 1)
  BY DEF Eat
<1>1. q \in m..Len(tokens) + 1 /\ Len(tokens) \in Nat /\ Kind(q) # "eof"
  BY LaterFacts, PlaceFacts DEF Later
<1> QED
  BY <1>1 DEF Kind, Later

LEMMA AfterLater ==
  ASSUME Shape, NEW s \in Symbols, NEW i \in Places, NEW g, NEW h, Agree(g, h, <<s, i>>),
         NEW m \in Nat, i < m, NEW S, S \subseteq Later(m), NEW t \in Symbols
  PROVE  /\ After(g, S, t) = After(h, S, t)
         /\ After(g, S, t) \subseteq Later(m)
<1>1. ASSUME NEW p \in S PROVE g[<<t, p>>] = h[<<t, p>>] /\ g[<<t, p>>] \subseteq Later(m)
  <2> DEFINE x == <<t, p>>
             e == <<s, i>>
  <2>1. /\ x \in Phrases /\ e \in Phrases /\ x[1] = t /\ x[2] = p /\ e[1] = s /\ e[2] = i
        /\ i < p /\ m <= p /\ i \in Nat /\ p \in Nat /\ Len(tokens) \in Nat /\ p <= Len(tokens) + 1
    BY PlaceFacts DEF Phrases, Later, Places
  <2> HIDE DEF x, e
  <2>2. Rank(t) \in 0..4 /\ Rank(s) \in 0..4
    BY LaterFacts
  <2>3. Reach(x) < Reach(e)
    BY <2>1, <2>2 DEF Reach
  <2>4. g[x] = h[x] /\ g[x] \subseteq Beyond(x)
    BY <2>1, <2>3 DEF Agree, e
  <2>5. Beyond(x) \subseteq Later(p) /\ Later(p) \subseteq Later(m)
    BY <2>1, LaterFacts DEF Later
  <2> QED
    BY <2>4, <2>5 DEF x
<1> QED
  BY <1>1 DEF After

LEMMA HereLater ==
  ASSUME Shape, NEW s \in Symbols, NEW i \in Places, NEW g, NEW h, Agree(g, h, <<s, i>>),
         NEW t \in Symbols, Rank(t) < Rank(s), t \notin {"program", "params", "stmts"}
  PROVE  /\ g[<<t, i>>] = h[<<t, i>>]
         /\ g[<<t, i>>] \subseteq Later(i + 1)
<1> DEFINE x == <<t, i>>
           e == <<s, i>>
<1>1. /\ x \in Phrases /\ e \in Phrases /\ x[1] = t /\ x[2] = i /\ e[1] = s /\ e[2] = i
      /\ i \in Nat /\ Len(tokens) \in Nat /\ i <= Len(tokens) + 1
  BY PlaceFacts DEF Phrases, Places
<1> HIDE DEF x, e
<1>2. Rank(t) \in 0..4 /\ Rank(s) \in 0..4
  BY LaterFacts
<1>3. Reach(x) < Reach(e)
  BY <1>1, <1>2 DEF Reach
<1>4. g[x] = h[x] /\ g[x] \subseteq Beyond(x)
  BY <1>1, <1>3 DEF Agree, e
<1> QED
  BY <1>1, <1>4 DEF x, Beyond

(* A rule yields places behind its own, from phrases of which that is true. *)
LEMMA RuleLater ==
  ASSUME Shape, NEW s \in Symbols, NEW i \in Places, NEW g, NEW h, Agree(g, h, <<s, i>>)
  PROVE  Rule(g, s, i) = Rule(h, s, i) /\ Rule(g, s, i) \subseteq Beyond(<<s, i>>)
<1>1. /\ i \in Nat /\ i + 1 \in Nat /\ i + 2 \in Nat /\ i + 3 \in Nat /\ i + 4 \in Nat
      /\ i < i + 1 /\ i < i + 2 /\ i < i + 3 /\ i < i + 4
      /\ i + 1 + 1 = i + 2 /\ i + 2 + 1 = i + 3 /\ i + 3 + 1 = i + 4 /\ i + 4 + 1 = i + 5
      /\ {i} \subseteq Later(i) /\ Len(tokens) \in Nat
  BY PlaceFacts DEF Places, Later
<1>2. /\ Later(i + 1) \subseteq Later(i) /\ Later(i + 2) \subseteq Later(i + 1)
      /\ Later(i + 3) \subseteq Later(i + 2) /\ Later(i + 4) \subseteq Later(i + 3)
      /\ Later(i + 5) \subseteq Later(i + 4)
  BY <1>1, LaterFacts
<1>3. ASSUME NEW m \in {i, i + 1, i + 2, i + 3, i + 4}, NEW S, S \subseteq Later(m),
             NEW kinds, kinds \subseteq Kinds
      PROVE  Eat(S, kinds) \subseteq Later(m + 1)
  BY <1>1, <1>3, EatLater
<1>4. ASSUME NEW m \in {i + 1, i + 2, i + 3, i + 4}, NEW S, S \subseteq Later(m), NEW t \in Symbols
      PROVE  After(g, S, t) = After(h, S, t) /\ After(g, S, t) \subseteq Later(m)
  <2>1. m \in Nat /\ i < m
    BY <1>1
  <2> QED
    BY <1>4, <2>1, AfterLater
<1>5. ASSUME NEW t \in Symbols, Rank(t) < Rank(s), t \notin {"program", "params", "stmts"}
      PROVE  g[<<t, i>>] = h[<<t, i>>] /\ g[<<t, i>>] \subseteq Later(i + 1)
  BY <1>5, HereLater
<1>6. /\ {"function", "params", "block", "stmts", "stmt", "expr", "target", "chain", "primary",
          "args", "program"} \subseteq Symbols
      /\ Operator \subseteq Kinds /\ TypeName \subseteq Kinds /\ Atoms \cup {"identifier"} \subseteq Kinds
      /\ {"func", "identifier", "lpar", "rpar", "lbrace", "rbrace", "colon", "semi", "comma",
          "equal", "cf_if", "cf_while", "cf_else", "cf_return", "cf_int", "cf_float", "print"}
           \subseteq Kinds
  BY DEF Symbols, Kinds, Atoms, TypeName, Keyword, Operator, Brackets
<1>7. \A k \in Kinds : {k} \subseteq Kinds /\ Eat({i}, {k}) \subseteq Later(i + 1)
  BY <1>1, <1>3
<1>8. ASSUME NEW kind \in Kinds
      PROVE  /\ Test(g, i, kind) = Test(h, i, kind) /\ Test(g, i, kind) \subseteq Later(i + 3)
             /\ Call1(i, kind) \subseteq Later(i + 2)
  <2>1. Eat({i}, {kind}) \subseteq Later(i + 1)
    BY <1>7
  <2>2. Call1(i, kind) \subseteq Later(i + 2)
    BY <1>1, <1>3, <1>6, <1>7, <2>1 DEF Call1
  <2> DEFINE A == After(g, Call1(i, kind), "expr")
  <2>3. A = After(h, Call1(i, kind), "expr") /\ A \subseteq Later(i + 2)
    BY <1>4, <1>6, <2>2
  <2>4. Test(g, i, kind) = Eat(A, {"rpar"}) /\ Test(h, i, kind) = Eat(A, {"rpar"})
    BY <2>3, Zenon DEF Test, Call1
  <2> HIDE DEF A
  <2> QED
    BY <1>1, <1>3, <1>6, <1>7, <2>2, <2>3, <2>4
<1>9. IfStmt(g, i) = IfStmt(h, i) /\ IfStmt(g, i) \subseteq Later(i + 3)
  BY <1>4, <1>6, <1>8 DEF IfStmt
<1> DEFINE e == <<s, i>>
<1>10. e[1] = s /\ e[2] = i
  OBVIOUS
<1> HIDE DEF e
<1>11. CASE s = "program"
  <2>1. Rank("function") < Rank(s)
    BY <1>11 DEF Rank
  <2>2. g[<<"function", i>>] = h[<<"function", i>>] /\ g[<<"function", i>>] \subseteq Later(i + 1)
    BY <1>5, <1>6, <2>1
  <2>3. /\ After(g, g[<<"function", i>>], "program") = After(h, h[<<"function", i>>], "program")
        /\ After(g, g[<<"function", i>>], "program") \subseteq Later(i + 1)
    BY <1>4, <1>6, <2>2
  <2>4. Rule(g, s, i) = Rule(h, s, i) /\ Rule(g, s, i) \subseteq Later(i)
    BY <1>1, <1>2, <1>11, <2>3 DEF Rule
  <2> QED
    BY <1>10, <1>11, <2>4 DEF Beyond, e
<1>12. CASE s = "function"
  <2>1. FunctionHead(i) \subseteq Later(i + 3)
    BY <1>1, <1>3, <1>6, <1>7 DEF FunctionHead
  <2> DEFINE P == After(g, FunctionHead(i), "params")
  <2>2. P = After(h, FunctionHead(i), "params") /\ P \subseteq Later(i + 3)
    BY <1>4, <1>6, <2>1
  <2>3. Header(g, FunctionHead(i)) = Eat(Eat(Eat(P, {"rpar"}), {"colon"}), TypeName)
    BY Zenon DEF Header
  <2>4. Header(h, FunctionHead(i)) = Eat(Eat(Eat(P, {"rpar"}), {"colon"}), TypeName)
    BY <2>2, Zenon DEF Header
  <2> HIDE DEF P
  <2>5. Eat(P, {"rpar"}) \subseteq Later(i + 4)
    BY <1>1, <1>3, <1>6, <1>7, <2>2
  <2>6. Eat(Eat(P, {"rpar"}), {"colon"}) \subseteq Later(i + 4)
    BY <1>1, <1>2, <1>3, <1>6, <1>7, <2>5
  <2>7. Header(g, FunctionHead(i)) \subseteq Later(i + 4)
    BY <1>1, <1>2, <1>3, <1>6, <2>3, <2>6
  <2>8. /\ After(g, Header(g, FunctionHead(i)), "block") = After(h, Header(h, FunctionHead(i)), "block")
        /\ After(g, Header(g, FunctionHead(i)), "block") \subseteq Later(i + 1)
    BY <1>2, <1>4, <1>6, <2>3, <2>4, <2>7
  <2> QED
    BY <1>10, <1>12, <2>8 DEF Rule, Beyond, e
<1>13. CASE s = "params"
  <2>1. Param(i) \subseteq Later(i + 3)
    BY <1>1, <1>3, <1>6, <1>7 DEF Param
  <2> DEFINE P == Param(i) \cup Eat(Param(i), {"comma"})
  <2>2. P \subseteq Later(i + 3)
    BY <1>1, <1>2, <1>3, <1>6, <1>7, <2>1
  <2>3. Rule(g, s, i) = {i} \cup After(g, P, "params") /\ Rule(h, s, i) = {i} \cup After(h, P, "params")
    BY <1>13 DEF Rule
  <2> HIDE DEF P
  <2>4. After(g, P, "params") = After(h, P, "params") /\ After(g, P, "params") \subseteq Later(i)
    BY <1>2, <1>4, <1>6, <2>2
  <2> QED
    BY <1>1, <1>10, <1>13, <2>3, <2>4 DEF Beyond, e
<1>14. CASE s = "block"
  <2> DEFINE P == Eat({i}, {"lbrace"})
  <2>1. P \subseteq Later(i + 1)
    BY <1>6, <1>7
  <2>2. After(g, P, "stmts") = After(h, P, "stmts") /\ After(g, P, "stmts") \subseteq Later(i + 1)
    BY <1>4, <1>6, <2>1
  <2>3. Eat(After(g, P, "stmts"), {"rbrace"}) \subseteq Later(i + 1)
    BY <1>1, <1>2, <1>3, <1>6, <1>7, <2>2
  <2> QED
    BY <1>10, <1>14, <2>2, <2>3 DEF Rule, Beyond, e
<1>15. CASE s = "stmts"
  <2>1. Rank("stmt") < Rank(s)
    BY <1>15 DEF Rank
  <2>2. g[<<"stmt", i>>] = h[<<"stmt", i>>] /\ g[<<"stmt", i>>] \subseteq Later(i + 1)
    BY <1>5, <1>6, <2>1
  <2>3. /\ After(g, g[<<"stmt", i>>], "stmts") = After(h, h[<<"stmt", i>>], "stmts")
        /\ After(g, g[<<"stmt", i>>], "stmts") \subseteq Later(i + 1)
    BY <1>4, <1>6, <2>2
  <2>4. Rule(g, s, i) = Rule(h, s, i) /\ Rule(g, s, i) \subseteq Later(i)
    BY <1>1, <1>2, <1>15, <2>3 DEF Rule
  <2> QED
    BY <1>10, <1>15, <2>4 DEF Beyond, e
<1>16. CASE s = "stmt"
  <2>1. Rank("expr") < Rank(s)
    BY <1>16 DEF Rank
  <2>2. g[<<"expr", i>>] = h[<<"expr", i>>] /\ g[<<"expr", i>>] \subseteq Later(i + 1)
    BY <1>5, <1>6, <2>1
  <2> DEFINE R == Eat({i}, {"cf_return"})
             D == Decl(i)
             I == IfStmt(g, i)
             W == Test(g, i, "cf_while")
             V == After(g, R, "expr")
             N == After(g, Eat(D, {"equal"}), "expr")
  <2>3. R \subseteq Later(i + 1) /\ V = After(h, R, "expr") /\ V \subseteq Later(i + 1)
    BY <1>4, <1>6, <1>7
  <2>4. D \subseteq Later(i + 2)
    <3>1. {"cf_int", "cf_float"} \subseteq Kinds
      BY <1>6
    <3>2. Eat({i}, {"cf_int", "cf_float"}) \subseteq Later(i + 1)
      BY <1>1, <1>3, <3>1
    <3> QED
      BY <1>1, <1>3, <1>6, <1>7, <3>2 DEF Decl
  <2>5. N = After(h, Eat(D, {"equal"}), "expr") /\ N \subseteq Later(i + 3)
    <3>1. Eat(D, {"equal"}) \subseteq Later(i + 3)
      BY <1>1, <1>3, <1>6, <1>7, <2>4
    <3> QED
      BY <1>4, <1>6, <3>1
  <2>6. I = IfStmt(h, i) /\ W = Test(h, i, "cf_while") /\ I \subseteq Later(i + 3) /\ W \subseteq Later(i + 3)
    BY <1>6, <1>8, <1>9
  <2> DEFINE A == g[<<"expr", i>>] \cup R \cup V \cup D \cup N
             B == Eat(I, {"cf_else"}) \cup W
  <2>7. /\ Rule(g, s, i) = Eat(A, {"semi"}) \cup I \cup After(g, B, "block")
        /\ Rule(h, s, i) = Eat(A, {"semi"}) \cup I \cup After(h, B, "block")
    BY <1>16, <2>2, <2>3, <2>5, <2>6 DEF Rule
  <2>8. A \subseteq Later(i + 1)
    BY <1>2, <2>2, <2>3, <2>4, <2>5
  <2>9. B \subseteq Later(i + 3)
    <3>1. Eat(I, {"cf_else"}) \subseteq Later(i + 4)
      BY <1>1, <1>3, <1>6, <1>7, <2>6
    <3> QED
      BY <1>2, <2>6, <3>1
  <2> HIDE DEF A, B, I
  <2>10. /\ Eat(A, {"semi"}) \subseteq Later(i + 1) /\ I \subseteq Later(i + 1)
         /\ After(g, B, "block") = After(h, B, "block") /\ After(g, B, "block") \subseteq Later(i + 1)
    <3>1. Eat(A, {"semi"}) \subseteq Later(i + 2)
      BY <1>1, <1>3, <1>6, <1>7, <2>8
    <3>2. After(g, B, "block") = After(h, B, "block") /\ After(g, B, "block") \subseteq Later(i + 3)
      BY <1>4, <1>6, <2>9
    <3> QED
      BY <1>2, <2>6, <3>1, <3>2
  <2> QED
    BY <1>10, <1>16, <2>7, <2>10 DEF Beyond, e
<1>17. CASE s = "expr"
  <2>1. Rank("target") < Rank(s) /\ Rank("chain") < Rank(s)
    BY <1>17 DEF Rank
  <2>2. /\ g[<<"target", i>>] = h[<<"target", i>>] /\ g[<<"target", i>>] \subseteq Later(i + 1)
        /\ g[<<"chain", i>>] = h[<<"chain", i>>] /\ g[<<"chain", i>>] \subseteq Later(i + 1)
    BY <1>5, <1>6, <2>1
  <2> DEFINE P == Eat(g[<<"target", i>>], {"equal"})
  <2>3. P \subseteq Later(i + 2)
    BY <1>1, <1>3, <1>6, <1>7, <2>2
  <2>4. After(g, P, "expr") = After(h, P, "expr") /\ After(g, P, "expr") \subseteq Later(i + 1)
    BY <1>2, <1>4, <1>6, <2>3
  <2>5. /\ Rule(g, s, i) = After(g, P, "expr") \cup g[<<"chain", i>>]
        /\ Rule(h, s, i) = After(h, P, "expr") \cup g[<<"chain", i>>]
    BY <1>17, <2>2 DEF Rule
  <2> QED
    BY <1>10, <1>17, <2>2, <2>4, <2>5 DEF Beyond, e
<1>18. CASE s = "target"
  <2> DEFINE P == Eat({i}, {"lpar"})
             Q == After(g, P, "target")
  <2>1. P \subseteq Later(i + 1) /\ Eat({i}, {"identifier"}) \subseteq Later(i + 1)
    BY <1>6, <1>7
  <2>2. Q = After(h, P, "target") /\ Q \subseteq Later(i + 1)
    BY <1>4, <1>6, <2>1
  <2>3. Eat(Q, {"rpar"}) \subseteq Later(i + 1)
    BY <1>1, <1>2, <1>3, <1>6, <1>7, <2>2
  <2>4. /\ Rule(g, s, i) = Eat({i}, {"identifier"}) \cup Eat(Q, {"rpar"})
        /\ Rule(h, s, i) = Eat({i}, {"identifier"}) \cup Eat(Q, {"rpar"})
    BY <1>18, <2>2 DEF Rule
  <2> QED
    BY <1>10, <1>18, <2>1, <2>3, <2>4 DEF Beyond, e
<1>19. CASE s = "chain"
  <2>1. Rank("primary") < Rank(s)
    BY <1>19 DEF Rank
  <2> DEFINE P == g[<<"primary", i>>]
             Q == Eat(P, Operator)
  <2>2. P = h[<<"primary", i>>] /\ P \subseteq Later(i + 1)
    BY <1>5, <1>6, <2>1
  <2>3. Q \subseteq Later(i + 2)
    BY <1>1, <1>3, <1>6, <2>2
  <2>4. After(g, Q, "chain") = After(h, Q, "chain") /\ After(g, Q, "chain") \subseteq Later(i + 1)
    BY <1>2, <1>4, <1>6, <2>3
  <2>5. Rule(g, s, i) = P \cup After(g, Q, "chain") /\ Rule(h, s, i) = P \cup After(h, Q, "chain")
    BY <1>19, <2>2 DEF Rule
  <2> QED
    BY <1>10, <1>19, <2>2, <2>4, <2>5 DEF Beyond, e
<1>20. CASE s = "primary"
  <2> DEFINE C == Call1(i, "identifier")
             P == Call1(i, "print")
             L == Eat({i}, {"lpar"})
             A == After(g, C \cup P, "args")
             X == After(g, L, "expr")
  <2>1. C \subseteq Later(i + 2) /\ P \subseteq Later(i + 2) /\ L \subseteq Later(i + 1)
    BY <1>6, <1>7, <1>8
  <2>2. /\ A = After(h, C \cup P, "args") /\ A \subseteq Later(i + 2)
        /\ X = After(h, L, "expr") /\ X \subseteq Later(i + 1)
    <3>1. C \cup P \subseteq Later(i + 2)
      BY <2>1
    <3> QED
      BY <1>4, <1>6, <2>1, <3>1
  <2> DEFINE B == C \cup A \cup X
  <2>3. /\ Rule(g, s, i) = Eat({i}, Atoms \cup {"identifier"}) \cup Eat(B, {"rpar"})
        /\ Rule(h, s, i) = Eat({i}, Atoms \cup {"identifier"}) \cup Eat(B, {"rpar"})
    BY <1>20, <2>2 DEF Rule
  <2>4. B \subseteq Later(i + 1)
    BY <1>2, <2>1, <2>2
  <2> HIDE DEF B
  <2>5. Eat(B, {"rpar"}) \subseteq Later(i + 1) /\ Eat({i}, Atoms \cup {"identifier"}) \subseteq Later(i + 1)
    <3>1. Eat(B, {"rpar"}) \subseteq Later(i + 2)
      BY <1>1, <1>3, <1>6, <1>7, <2>4
    <3>2. Eat({i}, Atoms \cup {"identifier"}) \subseteq Later(i + 1)
      BY <1>1, <1>3, <1>6
    <3> QED
      BY <1>2, <3>1, <3>2
  <2> QED
    BY <1>10, <1>20, <2>3, <2>5 DEF Beyond, e
<1>21. CASE s = "args"
  <2>1. Rank("expr") < Rank(s)
    BY <1>21 DEF Rank
  <2> DEFINE P == g[<<"expr", i>>]
             Q == Eat(P, {"comma"})
  <2>2. P = h[<<"expr", i>>] /\ P \subseteq Later(i + 1)
    BY <1>5, <1>6, <2>1
  <2>3. Q \subseteq Later(i + 2)
    BY <1>1, <1>3, <1>6, <1>7, <2>2
  <2>4. After(g, Q, "args") = After(h, Q, "args") /\ After(g, Q, "args") \subseteq Later(i + 1)
    BY <1>2, <1>4, <1>6, <2>3
  <2>5. Rule(g, s, i) = P \cup Q \cup After(g, Q, "args") /\ Rule(h, s, i) = P \cup Q \cup After(h, Q, "args")
    BY <1>21, <2>2 DEF Rule
  <2> QED
    BY <1>2, <1>10, <1>21, <2>2, <2>3, <2>4, <2>5 DEF Beyond, e
<1> QED
  BY <1>11, <1>12, <1>13, <1>14, <1>15, <1>16, <1>17, <1>18, <1>19, <1>20, <1>21 DEF Symbols

-----------------------------------------------------------------------------
(* The grammar defines a function, and it never looks at a place before its own. *)
LEMMA GrammarIs ==
  ASSUME Shape
  PROVE  ends = [e \in Phrases |-> Rule(ends, e[1], e[2])]
<1> DEFINE trim(f, e) == [x \in Phrases |-> IF Reach(x) < Reach(e) THEN f[x] ELSE {}]
           V      == SUBSET Places
           height == [e \in Phrases |-> Reach(e)]
           parts  == [e \in Phrases |-> {x \in Phrases : Reach(x) < Reach(e)}]
           step   == [f \in [Phrases -> V] |->
                        [e \in Phrases |-> Rule(trim(f, e), e[1], e[2]) \cap Places]]
<1>1. \A e \in Phrases : Reach(e) \in Nat /\ e[1] \in Symbols /\ e[2] \in Places /\ e = <<e[1], e[2]>>
  BY LaterFacts DEF Phrases
<1>2. ByParts(Phrases, V, height, parts, step)
  <2>1. height \in [Phrases -> Nat] /\ parts \in [Phrases -> SUBSET Phrases]
    BY <1>1
  <2>2. \A e \in Phrases : \A x \in parts[e] : height[x] < height[e]
    OBVIOUS
  <2>3. step \in [[Phrases -> V] -> [Phrases -> V]]
    <3>1. ASSUME NEW f \in [Phrases -> V], NEW e \in Phrases
          PROVE  Rule(trim(f, e), e[1], e[2]) \cap Places \in V
      OBVIOUS
    <3> HIDE DEF trim
    <3> QED
      BY <3>1
  <2>4. ASSUME NEW f \in [Phrases -> V], NEW g \in [Phrases -> V], NEW e \in Phrases,
               \A x \in parts[e] : f[x] = g[x]
        PROVE  step[f][e] = step[g][e]
    <3>1. trim(f, e) = trim(g, e)
      BY <2>4
    <3>2. /\ step[f][e] = Rule(trim(f, e), e[1], e[2]) \cap Places
          /\ step[g][e] = Rule(trim(g, e), e[1], e[2]) \cap Places
      <4> HIDE DEF trim
      <4> QED
        OBVIOUS
    <3> QED
      BY <3>1, <3>2, Zenon
  <2> HIDE DEF height, parts, step, V
  <2> QED
    BY <2>1, <2>2, <2>3, <2>4 DEF ByParts
<1>3. PICK F \in [Phrases -> V] : F = step[F]
  <2>1. V # {}
    OBVIOUS
  <2> HIDE DEF height, parts, step, V
  <2> QED
    BY <1>2, <2>1, TreeRecursion
<1>4. ASSUME NEW e \in Phrases PROVE F[e] = Rule(trim(F, e), e[1], e[2]) \cap Places
  <2>1. step[F] = [x \in Phrases |-> Rule(trim(F, x), x[1], x[2]) \cap Places]
    <3> HIDE DEF trim
    <3> QED
      BY Zenon
  <2>2. F[e] = step[F][e]
    BY <1>3
  <2> HIDE DEF step, trim
  <2> QED
    BY <2>1, <2>2
<1> HIDE DEF height, parts, step, V
<1>5. ASSUME NEW e \in Phrases,
             \A x \in Phrases : Reach(x) < Reach(e) => F[x] \subseteq Beyond(x)
      PROVE  F[e] = Rule(F, e[1], e[2]) /\ F[e] \subseteq Beyond(e)
  <2> DEFINE t == trim(F, e)
  <2>1. Agree(t, F, <<e[1], e[2]>>)
    BY <1>1, <1>5 DEF Agree
  <2> HIDE DEF t
  <2>2. Rule(t, e[1], e[2]) = Rule(F, e[1], e[2]) /\ Rule(t, e[1], e[2]) \subseteq Beyond(e)
    BY <1>1, <2>1, RuleLater
  <2>3. Beyond(e) \subseteq Places
    <3>1. e[2] \in 1..Len(tokens) + 1 /\ Len(tokens) \in Nat
      BY <1>1, PlaceFacts DEF Places
    <3> QED
      BY <3>1 DEF Beyond, Later, Places
  <2>4. F[e] = Rule(t, e[1], e[2]) \cap Places
    BY <1>4 DEF t
  <2> QED
    BY <2>2, <2>3, <2>4
<1> HIDE DEF trim
<1>6. \A e \in Phrases : F[e] \subseteq Beyond(e)
  <2> DEFINE T == {Reach(e) : e \in {e \in Phrases : ~ (F[e] \subseteq Beyond(e))}}
  <2> SUFFICES ASSUME T # {} PROVE FALSE
    OBVIOUS
  <2>1. T \in SUBSET Nat
    BY <1>1
  <2>2. PICK m \in T : \A n \in T : m <= n
    <3> HIDE DEF T
    <3> QED
      BY <2>1, Smallest
  <2>3. PICK e \in Phrases : Reach(e) = m /\ ~ (F[e] \subseteq Beyond(e))
    BY <2>2
  <2>4. \A x \in Phrases : Reach(x) < Reach(e) => F[x] \subseteq Beyond(x)
    BY <1>1, <2>2, <2>3
  <2> QED
    BY <1>5, <2>3, <2>4
<1>7. F = [e \in Phrases |-> Rule(F, e[1], e[2])]
  <2>1. \A e \in Phrases : F[e] = Rule(F, e[1], e[2])
    BY <1>5, <1>6
  <2>2. F = [e \in Phrases |-> F[e]]
    OBVIOUS
  <2> QED
    BY <2>1, <2>2
<1>8. ends = CHOOSE g : g = [e \in Phrases |-> Rule(g, e[1], e[2])]
  BY Zenon DEF ends, Phrases, Rule, After, Eat, FunctionHead, Header, Param, Test, Decl, IfStmt, Call1
<1> QED
  BY <1>7, <1>8

LEMMA EndsFacts ==
  ASSUME Shape, NEW s \in Symbols, NEW i \in Places
  PROVE  /\ ends[<<s, i>>] = Rule(ends, s, i)
         /\ ends[<<s, i>>] \subseteq Places
<1>1. \A e \in Phrases : Reach(e) \in Nat /\ e[1] \in Symbols /\ e[2] \in Places /\ e = <<e[1], e[2]>>
  BY LaterFacts DEF Phrases
<1>2. \A e \in Phrases : ends[e] = Rule(ends, e[1], e[2])
  BY GrammarIs
<1>3. ASSUME NEW e \in Phrases,
             \A x \in Phrases : Reach(x) < Reach(e) => ends[x] \subseteq Beyond(x)
      PROVE  ends[e] \subseteq Beyond(e)
  <2>1. Agree(ends, ends, <<e[1], e[2]>>)
    BY <1>1, <1>3 DEF Agree
  <2> QED
    BY <1>1, <1>2, <2>1, RuleLater
<1>4. \A e \in Phrases : ends[e] \subseteq Beyond(e)
  <2> DEFINE T == {Reach(e) : e \in {e \in Phrases : ~ (ends[e] \subseteq Beyond(e))}}
  <2> SUFFICES ASSUME T # {} PROVE FALSE
    OBVIOUS
  <2>1. T \in SUBSET Nat
    BY <1>1
  <2>2. PICK m \in T : \A n \in T : m <= n
    <3> HIDE DEF T
    <3> QED
      BY <2>1, Smallest
  <2>3. PICK e \in Phrases : Reach(e) = m /\ ~ (ends[e] \subseteq Beyond(e))
    BY <2>2
  <2>4. \A x \in Phrases : Reach(x) < Reach(e) => ends[x] \subseteq Beyond(x)
    BY <1>1, <2>2, <2>3
  <2> QED
    BY <1>3, <2>3, <2>4
<1> DEFINE e == <<s, i>>
<1>5. e \in Phrases /\ e[1] = s /\ e[2] = i /\ i \in 1..Len(tokens) + 1 /\ Len(tokens) \in Nat
  BY PlaceFacts DEF Phrases, Places
<1> HIDE DEF e
<1>6. Beyond(e) \subseteq Places
  BY <1>5 DEF Beyond, Later, Places
<1> QED
  BY <1>2, <1>4, <1>5, <1>6 DEF e

LEMMA Nones ==
  /\ \A kinds : Eat({}, kinds) = {} /\ Before({}, kinds) = {}
  /\ \A symbol : Then({}, symbol) = {}
BY DEF Eat, Before, Then, After

LEMMA EatOne == \A p, kinds : Eat({p}, kinds) = IF Kind(p) \in kinds THEN {p + 1} ELSE {}
BY DEF Eat

LEMMA ThenOne == \A p, symbol : Then({p}, symbol) = ends[<<symbol, p>>]
BY DEF Then, After

LEMMA BeforeOne == \A p, kinds : Before({p}, kinds) = IF Kind(p) \in kinds THEN {p} ELSE {}
BY DEF Before

LEMMA EatBoth == \A S, T, kinds : Eat(S \cup T, kinds) = Eat(S, kinds) \cup Eat(T, kinds)
BY DEF Eat

LEMMA BeforeBoth ==
  \A S, T, kinds : Before(S \cup T, kinds) = Before(S, kinds) \cup Before(T, kinds)
BY DEF Before

LEMMA ThenBoth == \A S, T, symbol : Then(S \cup T, symbol) = Then(S, symbol) \cup Then(T, symbol)
BY DEF Then, After

LEMMA Narrowed ==
  ASSUME NEW S, NEW more, NEW kinds \in SUBSET more
  PROVE  Eat(Before(S, more), kinds) = Eat(S, kinds) /\ Before(Before(S, more), kinds) = Before(S, kinds)
BY DEF Eat, Before

LEMMA EatInTurn ==
  ASSUME NEW i \in Nat, NEW A, NEW B, NEW C
  PROVE  /\ Eat(Eat({i}, A), B) = IF Kind(i) \in A /\ Kind(i + 1) \in B THEN {i + 2} ELSE {}
         /\ Eat(Eat(Eat({i}, A), B), C) =
              IF Kind(i) \in A /\ Kind(i + 1) \in B /\ Kind(i + 2) \in C THEN {i + 3} ELSE {}
<1>1. i + 1 + 1 = i + 2 /\ i + 2 + 1 = i + 3
  OBVIOUS
<1>2. Eat(Eat({i}, A), B) = IF Kind(i) \in A /\ Kind(i + 1) \in B THEN {i + 2} ELSE {}
  <2>1. Eat({i}, A) = IF Kind(i) \in A THEN {i + 1} ELSE {}
    BY EatOne
  <2>2. Eat({i + 1}, B) = IF Kind(i + 1) \in B THEN {i + 2} ELSE {}
    BY <1>1, EatOne
  <2> QED
    BY <2>1, <2>2, Nones
<1>3. Eat({i + 2}, C) = IF Kind(i + 2) \in C THEN {i + 3} ELSE {}
  BY <1>1, EatOne
<1> QED
  BY <1>2, <1>3, Nones
(* What begins at a place, by the kinds of the tokens there *)
LEMMA PrimaryEnds ==
  ASSUME Shape, NEW i \in Places
  PROVE  LET e == ends[<<"primary", i>>]
         IN  /\ Kind(i) \in Atoms => e = {i + 1}
             /\ Kind(i) = "lpar" => e = Eat(ends[<<"expr", i + 1>>], {"rpar"})
             /\ Kind(i) = "identifier" =>
                  e = {i + 1} \cup IF Kind(i + 1) = "lpar"
                                     THEN Eat({i + 2} \cup ends[<<"args", i + 2>>], {"rpar"}) ELSE {}
             /\ Kind(i) = "print" =>
                  e = IF Kind(i + 1) = "lpar" THEN Eat(ends[<<"args", i + 2>>], {"rpar"}) ELSE {}
             /\ Kind(i) \notin Atoms \cup {"lpar", "identifier", "print"} => e = {}
<1> DEFINE e == ends[<<"primary", i>>]
           C == Call1(i, "identifier")
           P == Call1(i, "print")
           X == Then(Eat({i}, {"lpar"}), "expr")
<1>1. e = Eat({i}, Atoms \cup {"identifier"}) \cup Eat(C \cup Then(C \cup P, "args") \cup X, {"rpar"})
  BY EndsFacts DEF Rule, Symbols, Then
<1>2. i \in Nat /\ i + 1 + 1 = i + 2
  BY PlaceFacts DEF Places
<1>3. /\ Kind(i) = "identifier" => C = IF Kind(i + 1) = "lpar" THEN {i + 2} ELSE {}
      /\ Kind(i) # "identifier" => C = {}
      /\ Kind(i) = "print" => P = IF Kind(i + 1) = "lpar" THEN {i + 2} ELSE {}
      /\ Kind(i) # "print" => P = {}
  BY <1>2, EatOne, Nones DEF Call1
<1>4. /\ Kind(i) = "lpar" => X = ends[<<"expr", i + 1>>]
      /\ Kind(i) # "lpar" => X = {}
  BY EatOne, ThenOne, Nones
<1>5. /\ Kind(i) \in Atoms \cup {"identifier"} => Eat({i}, Atoms \cup {"identifier"}) = {i + 1}
      /\ Kind(i) \notin Atoms \cup {"identifier"} => Eat({i}, Atoms \cup {"identifier"}) = {}
  BY EatOne, Nones
<1>6. "lpar" \notin Atoms /\ "identifier" \notin Atoms /\ "print" \notin Atoms
  BY DEF Atoms
<1> HIDE DEF e, C, P, X
<1>7. C = {} /\ P = {} => Then(C \cup P, "args") = {}
  BY ThenOne, Nones
<1>8. ASSUME Kind(i) \in Atoms PROVE e = {i + 1}
  BY <1>1, <1>3, <1>4, <1>5, <1>6, <1>7, <1>8, EatOne, Nones
<1>9. ASSUME Kind(i) = "lpar" PROVE e = Eat(ends[<<"expr", i + 1>>], {"rpar"})
  BY <1>1, <1>3, <1>4, <1>5, <1>6, <1>7, <1>9
<1>10. ASSUME Kind(i) = "identifier"
       PROVE  e = {i + 1} \cup IF Kind(i + 1) = "lpar"
                                 THEN Eat({i + 2} \cup ends[<<"args", i + 2>>], {"rpar"}) ELSE {}
  <2>1. P = {} /\ X = {} /\ C \cup P = C
    BY <1>3, <1>4, <1>10
  <2>2. ASSUME Kind(i + 1) = "lpar" PROVE C = {i + 2} /\ Then(C, "args") = ends[<<"args", i + 2>>]
    BY <1>3, <1>10, <2>2, ThenOne, Nones
  <2>3. ASSUME Kind(i + 1) # "lpar" PROVE C = {} /\ Then(C, "args") = {}
    BY <1>3, <1>10, <2>3, ThenOne, Nones
  <2>4. e = {i + 1} \cup Eat(C \cup Then(C, "args"), {"rpar"})
    BY <1>1, <1>5, <1>10, <2>1
  <2> QED
    BY <2>2, <2>3, <2>4, EatOne, Nones
<1>11. ASSUME Kind(i) = "print"
       PROVE  e = IF Kind(i + 1) = "lpar" THEN Eat(ends[<<"args", i + 2>>], {"rpar"}) ELSE {}
  <2>1. C = {} /\ X = {} /\ C \cup P = P
    BY <1>3, <1>4, <1>11
  <2>2. ASSUME Kind(i + 1) = "lpar" PROVE Then(P, "args") = ends[<<"args", i + 2>>]
    BY <1>3, <1>11, <2>2, ThenOne, Nones
  <2>3. ASSUME Kind(i + 1) # "lpar" PROVE Then(P, "args") = {}
    BY <1>3, <1>11, <2>3, ThenOne, Nones
  <2>4. e = Eat(Then(P, "args"), {"rpar"})
    BY <1>1, <1>5, <1>6, <1>11, <2>1
  <2> QED
    BY <2>2, <2>3, <2>4, EatOne, Nones
<1>12. ASSUME Kind(i) \notin Atoms \cup {"lpar", "identifier", "print"} PROVE e = {}
  BY <1>1, <1>3, <1>4, <1>5, <1>7, <1>12, EatOne, Nones
<1> QED
  BY <1>8, <1>9, <1>10, <1>11, <1>12 DEF e

LEMMA TargetEnds ==
  ASSUME Shape, NEW i \in Places
  PROVE  LET e == ends[<<"target", i>>]
         IN  /\ Kind(i) = "identifier" => e = {i + 1}
             /\ Kind(i) = "lpar" => e = Eat(ends[<<"target", i + 1>>], {"rpar"})
             /\ Kind(i) \notin {"lpar", "identifier"} => e = {}
<1>1. ends[<<"target", i>>] =
        Eat({i}, {"identifier"}) \cup Eat(Then(Eat({i}, {"lpar"}), "target"), {"rpar"})
  BY EndsFacts DEF Rule, Symbols, Then
<1>2. /\ Kind(i) = "lpar" => Then(Eat({i}, {"lpar"}), "target") = ends[<<"target", i + 1>>]
      /\ Kind(i) # "lpar" => Then(Eat({i}, {"lpar"}), "target") = {}
  BY EatOne, ThenOne, Nones
<1> QED
  BY <1>1, <1>2, EatOne, Nones

LEMMA ExprEnds ==
  ASSUME Shape, NEW i \in Places
  PROVE  /\ ends[<<"expr", i>>] =
              Then(Eat(ends[<<"target", i>>], {"equal"}), "expr") \cup ends[<<"chain", i>>]
         /\ ends[<<"chain", i>>] =
              ends[<<"primary", i>>] \cup Then(Eat(ends[<<"primary", i>>], Operator), "chain")
         /\ ends[<<"args", i>>] =
              ends[<<"expr", i>>] \cup Eat(ends[<<"expr", i>>], {"comma"})
                \cup Then(Eat(ends[<<"expr", i>>], {"comma"}), "args")
<1>1. ends[<<"expr", i>>] =
        Then(Eat(ends[<<"target", i>>], {"equal"}), "expr") \cup ends[<<"chain", i>>]
  BY EndsFacts DEF Rule, Symbols, Then
<1>2. ends[<<"chain", i>>] =
        ends[<<"primary", i>>] \cup Then(Eat(ends[<<"primary", i>>], Operator), "chain")
  BY EndsFacts DEF Rule, Symbols, Then
<1>3. ends[<<"args", i>>] =
        ends[<<"expr", i>>] \cup Eat(ends[<<"expr", i>>], {"comma"})
          \cup Then(Eat(ends[<<"expr", i>>], {"comma"}), "args")
  BY EndsFacts DEF Rule, Symbols, Then
<1> QED
  BY <1>1, <1>2, <1>3

(* Tokens that no expression begins with *)
LEMMA NoExpr ==
  ASSUME Shape, NEW i \in Places, Kind(i) \notin Atoms \cup {"lpar", "identifier", "print"}
  PROVE  /\ ends[<<"primary", i>>] = {} /\ ends[<<"target", i>>] = {} /\ ends[<<"chain", i>>] = {}
         /\ ends[<<"expr", i>>] = {} /\ ends[<<"args", i>>] = {}
<1>1. ends[<<"primary", i>>] = {} /\ ends[<<"target", i>>] = {}
  BY PrimaryEnds, TargetEnds
<1>2. ends[<<"chain", i>>] = {}
  BY <1>1, ExprEnds, Nones
<1>3. ends[<<"expr", i>>] = {}
  BY <1>1, <1>2, ExprEnds, Nones
<1>4. ends[<<"args", i>>] = {}
  BY <1>3, ExprEnds, Nones
<1> QED
  BY <1>1, <1>2, <1>3, <1>4

(* What can be assigned to is a primary expression. *)
LEMMA TargetIsPrimary ==
  ASSUME Shape, NEW i \in Places
  PROVE  ends[<<"target", i>>] \subseteq ends[<<"primary", i>>]
<1> DEFINE Bad == {j \in Places : ~ (ends[<<"target", j>>] \subseteq ends[<<"primary", j>>])}
<1> SUFFICES ASSUME Bad # {} PROVE FALSE
  OBVIOUS
<1>1. Places = 1..Len(tokens) + 1 /\ Len(tokens) \in Nat
  BY PlaceFacts DEF Places
<1>2. PICK j \in Bad : \A k \in Bad : k <= j
  <2>1. Bad \in SUBSET Nat /\ \A k \in Bad : k <= Len(tokens) + 1
    BY <1>1
  <2>2. Len(tokens) + 1 \in Nat
    BY <1>1
  <2> HIDE DEF Bad
  <2> QED
    BY <2>1, <2>2, Greatest, Zenon
<1>3. j \in Places /\ ~ (ends[<<"target", j>>] \subseteq ends[<<"primary", j>>])
  OBVIOUS
<1>4. Kind(j) = "lpar"
  <2>1. ASSUME Kind(j) = "identifier" PROVE FALSE
    <3>1. ends[<<"target", j>>] = {j + 1}
      BY <1>3, <2>1, TargetEnds
    <3>2. \E more : ends[<<"primary", j>>] = {j + 1} \cup more
      BY <1>3, <2>1, PrimaryEnds, Zenon
    <3> QED
      BY <1>3, <3>1, <3>2
  <2>2. ends[<<"target", j>>] # {}
    BY <1>3
  <2> QED
    BY <1>3, <2>1, <2>2, TargetEnds
<1>5. j + 1 \in Places /\ j + 1 \notin Bad
  BY <1>1, <1>2, <1>3, <1>4 DEF Kind
<1>6. ends[<<"target", j + 1>>] \subseteq ends[<<"expr", j + 1>>]
  BY <1>5, ExprEnds
<1>7. Eat(ends[<<"target", j + 1>>], {"rpar"}) \subseteq Eat(ends[<<"expr", j + 1>>], {"rpar"})
  BY <1>6 DEF Eat
<1>8. /\ ends[<<"target", j>>] = Eat(ends[<<"target", j + 1>>], {"rpar"})
      /\ ends[<<"primary", j>>] = Eat(ends[<<"expr", j + 1>>], {"rpar"})
  BY <1>3, <1>4, TargetEnds, PrimaryEnds
<1> QED
  BY <1>3, <1>7, <1>8

(* What goes on behind the block of the if or the while at op, and the condition and block *)
AfterIf(op, S) == IF Kind(op) = "cf_while" THEN S ELSE S \cup Then(Eat(S, {"cf_else"}), "block")
Tested(i)      == Then(Eat(ends[<<"expr", i + 2>>], {"rpar"}), "block")

LEMMA StmtEnds ==
  ASSUME Shape, NEW i \in Places
  PROVE  LET e == ends[<<"stmt", i>>]
         IN  /\ Kind(i) = "cf_return" => e = Eat({i + 1} \cup ends[<<"expr", i + 1>>], {"semi"})
             /\ Kind(i) \in {"cf_if", "cf_while"} =>
                  e = IF Kind(i + 1) = "lpar" THEN AfterIf(i, Tested(i)) ELSE {}
             /\ Kind(i) \in {"cf_int", "cf_float"} =>
                  e = IF Kind(i + 1) = "identifier"
                        THEN Eat({i + 2} \cup IF Kind(i + 2) = "equal" THEN ends[<<"expr", i + 3>>]
                                                                    ELSE {}, {"semi"})
                        ELSE {}
             /\ Kind(i) \notin {"cf_return", "cf_if", "cf_while", "cf_int", "cf_float"} =>
                  e = Eat(ends[<<"expr", i>>], {"semi"})
<1> DEFINE e == ends[<<"stmt", i>>]
           X == ends[<<"expr", i>>]
           R == Eat({i}, {"cf_return"})
           D == Decl(i)
           N == Then(Eat(D, {"equal"}), "expr")
           I == IfStmt(ends, i)
           W == Test(ends, i, "cf_while")
<1>1. e = Eat(X \cup R \cup Then(R, "expr") \cup D \cup N, {"semi"}) \cup I
            \cup Then(Eat(I, {"cf_else"}) \cup W, "block")
  BY EndsFacts DEF Rule, Symbols, Then
<1>2. i \in Nat /\ i + 1 + 1 = i + 2 /\ i + 2 + 1 = i + 3
  BY PlaceFacts DEF Places
<1>3. /\ Kind(i) = "cf_return" => R = {i + 1}
      /\ Kind(i) # "cf_return" => R = {} /\ Then(R, "expr") = {}
  BY EatOne, Nones
<1>4. /\ Kind(i) \in {"cf_int", "cf_float"} => D = IF Kind(i + 1) = "identifier" THEN {i + 2} ELSE {}
      /\ Kind(i) \notin {"cf_int", "cf_float"} => D = {}
  BY <1>2, EatOne, Nones DEF Decl
<1>5. D = {} => N = {}
  BY Nones
<1>6. D = {i + 2} => N = IF Kind(i + 2) = "equal" THEN ends[<<"expr", i + 3>>] ELSE {}
  <2>1. Eat({i + 2}, {"equal"}) = IF Kind(i + 2) = "equal" THEN {i + 3} ELSE {}
    BY <1>2, EatOne
  <2> HIDE DEF D
  <2> QED
    BY <2>1, ThenOne, Nones
<1>7. \A kind : Test(ends, i, kind) = Eat(Then(Eat(Eat({i}, {kind}), {"lpar"}), "expr"), {"rpar"})
  BY Zenon DEF Test, Then
<1>8. ASSUME NEW kind
      PROVE  /\ Kind(i) = kind => Test(ends, i, kind) = IF Kind(i + 1) = "lpar"
                                                          THEN Eat(ends[<<"expr", i + 2>>], {"rpar"})
                                                          ELSE {}
             /\ Kind(i) # kind => Test(ends, i, kind) = {}
  <2> DEFINE T == Eat(Eat({i}, {kind}), {"lpar"})
  <2>1. Kind(i) = kind => T = IF Kind(i + 1) = "lpar" THEN {i + 2} ELSE {}
    BY <1>2, EatOne, Nones
  <2>2. Kind(i) # kind => T = {}
    BY EatOne, Nones
  <2>3. Test(ends, i, kind) = Eat(Then(T, "expr"), {"rpar"})
    BY <1>7
  <2> HIDE DEF T
  <2> QED
    BY <2>1, <2>2, <2>3, ThenOne, Nones
<1>9. I = Then(Test(ends, i, "cf_if"), "block")
  BY Zenon DEF IfStmt, Then
<1>10. /\ Kind(i) = "cf_if" => I = IF Kind(i + 1) = "lpar" THEN Tested(i) ELSE {}
       /\ Kind(i) # "cf_if" => I = {}
       /\ Kind(i) = "cf_while" => Then(W, "block") = IF Kind(i + 1) = "lpar" THEN Tested(i) ELSE {}
       /\ Kind(i) # "cf_while" => W = {}
  <2> HIDE DEF I
  <2> QED
    BY <1>8, <1>9, Nones DEF Tested
<1>11. Kind(i) \in {"cf_return", "cf_if", "cf_while", "cf_int", "cf_float"} => X = {}
  BY NoExpr DEF Atoms
<1> HIDE DEF e, X, R, D, N, I, W
<1>12. I = {} => Eat(I, {"cf_else"}) = {}
  BY Nones
<1>13. Then({}, "block") = {} /\ Eat({}, {"semi"}) = {}
  BY Nones
<1>14. ASSUME Kind(i) = "cf_return" PROVE e = Eat({i + 1} \cup ends[<<"expr", i + 1>>], {"semi"})
  <2>1. I = {} /\ W = {} /\ D = {} /\ N = {} /\ X = {} /\ R = {i + 1}
    BY <1>3, <1>4, <1>5, <1>10, <1>11, <1>14
  <2>2. Then(R, "expr") = ends[<<"expr", i + 1>>]
    BY <2>1, ThenOne
  <2> QED
    BY <1>1, <1>12, <1>13, <2>1, <2>2
<1>15. ASSUME Kind(i) \in {"cf_if", "cf_while"}
       PROVE  e = IF Kind(i + 1) = "lpar" THEN AfterIf(i, Tested(i)) ELSE {}
  <2>1. D = {} /\ N = {} /\ X = {} /\ R = {} /\ Then(R, "expr") = {}
    BY <1>3, <1>4, <1>5, <1>11, <1>15
  <2>2. e = I \cup Then(Eat(I, {"cf_else"}) \cup W, "block")
    BY <1>1, <1>13, <2>1
  <2>3. ASSUME Kind(i) = "cf_if" PROVE e = I \cup Then(Eat(I, {"cf_else"}), "block")
    BY <1>10, <2>2, <2>3
  <2>4. ASSUME Kind(i) = "cf_while" PROVE e = Then(W, "block")
    BY <1>10, <1>12, <2>2, <2>4
  <2> QED
    BY <1>10, <1>12, <1>13, <1>15, <2>3, <2>4 DEF AfterIf
<1>16. ASSUME Kind(i) \in {"cf_int", "cf_float"}
       PROVE  e = IF Kind(i + 1) = "identifier"
                    THEN Eat({i + 2} \cup IF Kind(i + 2) = "equal" THEN ends[<<"expr", i + 3>>]
                                                                ELSE {}, {"semi"})
                    ELSE {}
  <2>1. I = {} /\ W = {} /\ X = {} /\ R = {} /\ Then(R, "expr") = {}
    BY <1>3, <1>10, <1>11, <1>16
  <2>2. e = Eat(D \cup N, {"semi"})
    BY <1>1, <1>12, <1>13, <2>1
  <2> QED
    BY <1>4, <1>5, <1>6, <1>13, <1>16, <2>2
<1>17. ASSUME Kind(i) \notin {"cf_return", "cf_if", "cf_while", "cf_int", "cf_float"}
       PROVE  e = Eat(X, {"semi"})
  <2>1. I = {} /\ W = {} /\ R = {} /\ Then(R, "expr") = {} /\ D = {} /\ N = {}
    BY <1>3, <1>4, <1>5, <1>10, <1>17
  <2> QED
    BY <1>1, <1>12, <1>13, <2>1
<1> QED
  BY <1>14, <1>15, <1>16, <1>17 DEF e, X

LEMMA BlockEnds ==
  ASSUME Shape, NEW i \in Places
  PROVE  /\ Kind(i) = "lbrace" => ends[<<"block", i>>] = Eat(ends[<<"stmts", i + 1>>], {"rbrace"})
         /\ Kind(i) # "lbrace" => ends[<<"block", i>>] = {}
         /\ ends[<<"stmts", i>>] = {i} \cup Then(ends[<<"stmt", i>>], "stmts")
         /\ Kind(i) \in {"rbrace", "eof", "cf_else"} => ends[<<"stmts", i>>] = {i}
<1>1. /\ ends[<<"block", i>>] = Eat(Then(Eat({i}, {"lbrace"}), "stmts"), {"rbrace"})
      /\ ends[<<"stmts", i>>] = {i} \cup Then(ends[<<"stmt", i>>], "stmts")
  BY EndsFacts DEF Rule, Symbols, Then
<1>2. Kind(i) = "lbrace" => Then(Eat({i}, {"lbrace"}), "stmts") = ends[<<"stmts", i + 1>>]
  BY EatOne, ThenOne
<1>3. Kind(i) # "lbrace" => ends[<<"block", i>>] = {}
  BY <1>1, EatOne, Nones
<1>4. ASSUME Kind(i) \in {"rbrace", "eof", "cf_else"} PROVE ends[<<"stmts", i>>] = {i}
  <2>1. ends[<<"expr", i>>] = {}
    BY <1>4, NoExpr DEF Atoms
  <2>2. ends[<<"stmt", i>>] = {}
    BY <1>4, <2>1, StmtEnds, Nones
  <2> QED
    BY <1>1, <2>2, Nones
<1> QED
  BY <1>1, <1>2, <1>3, <1>4

LEMMA FunctionEnds ==
  ASSUME Shape, NEW i \in Places
  PROVE  /\ ends[<<"function", i>>] =
              IF Kind(i) = "func" /\ Kind(i + 1) = "identifier" /\ Kind(i + 2) = "lpar"
                THEN Then(Header(ends, {i + 3}), "block") ELSE {}
         /\ ends[<<"params", i>>] =
              {i} \cup IF Kind(i) = "identifier" /\ Kind(i + 1) = "colon" /\ Kind(i + 2) \in TypeName
                         THEN ends[<<"params", i + 3>>]
                                \cup IF Kind(i + 3) = "comma" THEN ends[<<"params", i + 4>>] ELSE {}
                         ELSE {}
<1> DEFINE P == Param(i)
           Q == Eat(P, {"comma"})
<1>1. /\ ends[<<"function", i>>] = Then(Header(ends, FunctionHead(i)), "block")
      /\ ends[<<"params", i>>] = {i} \cup Then(P \cup Q, "params")
  BY EndsFacts DEF Rule, Symbols, Then
<1>2. i \in Nat /\ i + 1 + 1 = i + 2 /\ i + 2 + 1 = i + 3 /\ i + 3 + 1 = i + 4
  BY PlaceFacts DEF Places
<1>3. FunctionHead(i) = IF Kind(i) = "func" /\ Kind(i + 1) = "identifier" /\ Kind(i + 2) = "lpar"
                          THEN {i + 3} ELSE {}
  <2>1. FunctionHead(i) = IF Kind(i) \in {"func"} /\ Kind(i + 1) \in {"identifier"}
                                /\ Kind(i + 2) \in {"lpar"} THEN {i + 3} ELSE {}
    BY <1>2, EatInTurn, Zenon DEF FunctionHead
  <2> QED
    BY <2>1
<1>4. P = IF Kind(i) = "identifier" /\ Kind(i + 1) = "colon" /\ Kind(i + 2) \in TypeName
            THEN {i + 3} ELSE {}
  <2>1. P = IF Kind(i) \in {"identifier"} /\ Kind(i + 1) \in {"colon"} /\ Kind(i + 2) \in TypeName
              THEN {i + 3} ELSE {}
    BY <1>2, EatInTurn, Zenon DEF Param
  <2> QED
    BY <2>1
<1> HIDE DEF P
<1>5. Then(Header(ends, {}), "block") = {}
  BY Nones DEF Header, Then
<1>6. P = {} => Then(P \cup Q, "params") = {}
  BY Nones
<1>7. ASSUME P = {i + 3}
      PROVE  Then(P \cup Q, "params") =
               ends[<<"params", i + 3>>]
                 \cup IF Kind(i + 3) = "comma" THEN ends[<<"params", i + 4>>] ELSE {}
  <2>1. Then(P \cup Q, "params") = Then(P, "params") \cup Then(Q, "params")
    BY ThenBoth
  <2>2. Then(P, "params") = ends[<<"params", i + 3>>]
    BY <1>7, ThenOne
  <2>3. Q = IF Kind(i + 3) = "comma" THEN {i + 4} ELSE {}
    BY <1>2, <1>7, EatOne
  <2>4. Then(Q, "params") = IF Kind(i + 3) = "comma" THEN ends[<<"params", i + 4>>] ELSE {}
    BY <2>3, ThenOne, Nones
  <2> QED
    BY <2>1, <2>2, <2>4
<1> QED
  BY <1>1, <1>3, <1>4, <1>5, <1>6, <1>7

LEMMA ProgramEnds ==
  ASSUME Shape, NEW i \in Places
  PROVE  /\ Kind(i) = "eof" => ends[<<"program", i>>] = {i}
         /\ Kind(i) # "eof" => ends[<<"program", i>>] = Then(ends[<<"function", i>>], "program")
<1>1. ends[<<"program", i>>] =
        IF i > Len(tokens) THEN {i} ELSE Then(ends[<<"function", i>>], "program")
  BY EndsFacts DEF Rule, Symbols, Then
<1>2. i \in Nat \ {0} /\ Len(tokens) \in Nat /\ "eof" \notin Kinds
  BY LaterFacts, PlaceFacts DEF Places
<1>3. Kind(i) = "eof" <=> i > Len(tokens)
  BY <1>2, KindFacts DEF Kind
<1> QED
  BY <1>1, <1>3

-----------------------------------------------------------------------------
(* What the calls under way have to do with the grammar.  Of the places where a phrase may *)
(* end, those before a token that may stand behind it in a program are told apart.         *)
Behind == {"semi", "rpar", "comma"}
Beside == Behind \cup {"equal"} \cup Operator

Fit(symbol, S) ==
  CASE symbol = "program" -> Before(S, {"eof"})
    [] symbol = "stmt"    -> S \ Before(S, {"cf_else"})
    [] symbol \in {"expr", "chain"} -> Before(S, Behind)
    [] symbol = "primary" -> Before(S, Beside)
    [] OTHER -> S

More(S) == S \cup Then(Eat(S, Operator), "chain")

(* What a call parses, and what those that it makes do *)
Symbol(f) ==
  CASE f.at = "Program" -> "program"
    [] f.at \in {"Function", "Params", "Body"} -> "function"
    [] f.at = "Block" -> "block"
    [] f.at \in Statements -> "stmt"
    [] f.at \in {"Binary", "Rhs", "Tighter"} -> IF f.prec = 0 THEN "expr" ELSE "chain"
    [] f.at \in Primaries -> "primary"
    [] OTHER -> "expr"
Part(at) ==
  CASE at = "Program" -> "function"
    [] at \in {"Body", "Then", "Else"} -> "block"
    [] at = "Block" -> "stmt"
    [] at \in {"Lhs", "Rhs"} -> "primary"
    [] at = "Tighter" -> "chain"
    [] OTHER -> "expr"

(* Where a call may be over, by the grammar *)
Start(f) == IF f.at = "Program" THEN 1 ELSE f.node.first
Goal(f)  == Fit(Symbol(f), ends[<<Symbol(f), Start(f)>>])

(* Where f may be over if what it has called, or its loop, goes on from S *)
Rest(f, S) ==
  CASE f.at = "Program" -> Then(S, "program")
    [] f.at = "Params"  -> Then(Header(ends, S), "block")
    [] f.at = "Block"   -> Eat(Then(S, "stmts"), {"rbrace"})
    [] f.at \in {"Return", "ExprStmt", "Declared", "Initializer"} -> Eat(S, {"semi"})
    [] f.at = "Condition" -> AfterIf(f.op, Then(Eat(S, {"rpar"}), "block"))
    [] f.at = "Then"    -> AfterIf(f.op, S)
    [] f.at = "Lhs"     ->
         More(S) \cup Then(Eat(S \cap ends[<<"target", f.node.first>>], {"equal"}), "expr")
    [] f.at \in {"Binary", "Rhs"} -> More(S)
    [] f.at = "Paren"   -> Eat(S, {"rpar"})
    [] f.at = "Args"    ->
         Eat(S \cup Eat(S, {"comma"}) \cup Then(Eat(S, {"comma"}), "args"), {"rpar"})
    [] OTHER -> S

(* A DeclRefExpr, brackets around it or not, is what can be assigned to. *)
Refers(node, p, kinds) ==
  Before(ends[<<"target", node.first>>], kinds) = IF node.ref THEN Before({p}, kinds) ELSE {}

Mark(f) ==
  /\ f.at = "Paren" => Kind(f.node.first) = "lpar"
  /\ f.at \in {"Assign", "Rhs", "Tighter"} => Before(ends[<<"target", f.node.first>>], {"rpar"}) = {}
  /\ f.at = "Args" => ~ f.node.ref /\ Before(ends[<<"target", f.node.first>>], Beside) = {}

(* f waits for g: where f may be over depends on where g may. *)
Continues(f, g) ==
  /\ Symbol(g) = Part(f.at) /\ Mark(f)
  /\ Goal(f) = Fit(Symbol(f), Rest(f, Goal(g)))

Continuing == {fg \in Frames \X Frames : Continues(fg[1], fg[2])}

(* What the grammar says of what is left to the innermost call f when the last one *)
(* returned r and tokens[p] is next                                                *)
Came(at, p) == IF at = "Tighter" THEN Fit("chain", More({p})) ELSE Fit(Part(at), {p})

Ahead(f, r, p) ==
  /\ Mark(f)
  /\ r.is = "none" =>
       /\ f.at = "Binary" => Refers(f.node, p, {"rpar"})
       /\ f.at \in {"Program", "Params", "Block", "Declared", "Binary"} =>
            Goal(f) = Fit(Symbol(f), Rest(f, {p}))
       /\ f.at = "Args" =>
            LET none == IF Kind(f.op) = "print" /\ f.prec = 0 THEN {} ELSE {p}
            IN  Goal(f) = Fit("primary", Eat(none \cup ends[<<"args", p>>], {"rpar"}))
  /\ r.is = "node" =>
       /\ Goal(f) = Fit(Symbol(f), Rest(f, Came(f.at, p)))
       /\ f.at \in {"Lhs", "Rhs"} => Refers(r.node, p, Beside)
       /\ f.at = "Rhs" => Fit("primary", ends[<<"primary", r.node.first>>]) = Fit("primary", {p})
       /\ Part(f.at) = "expr" => Refers(r.node, p, {"rpar"})

Accepted == Len(tokens) + 1 \in ends[<<"program", 1>>]

(* As long as no error was reported, the grammar allows what is under way to go on in the *)
(* ways the calls do; and there is an error only in what is not in the language.          *)
Accepting ==
  IF diagnostics = {}
    THEN /\ Linked(stack, Continuing)
         /\ IF stack = <<>> THEN Accepted ELSE Ahead(Top, ret, pos)
    ELSE ~ Accepted

LEMMA GrammarStays ==
  ASSUME UNCHANGED tokens
  PROVE  /\ ends' = ends /\ Continuing' = Continuing /\ (Accepted' <=> Accepted)
         /\ \A f, r, p : Ahead(f, r, p)' <=> Ahead(f, r, p)
<1>1. ends' = ends
  BY DEF ends, Kind, Places
<1>2. \A S, K : Eat(S, K)' = Eat(S, K) /\ Before(S, K)' = Before(S, K)
  BY DEF Eat, Before, Kind
<1>3. \A S, t : Then(S, t)' = Then(S, t)
  BY <1>1 DEF Then, After
<1>4. \A s, S : Fit(s, S)' = Fit(s, S)
  BY <1>2 DEF Fit
<1>5. \A S : Header(ends, S)' = Header(ends, S)
  BY <1>1, <1>2 DEF Header, After
<1>6. \A op, S : AfterIf(op, S)' = AfterIf(op, S)
  BY <1>2, <1>3 DEF AfterIf, Kind
<1>7. \A S : More(S)' = More(S)
  BY <1>2, <1>3 DEF More
<1>8. \A f, S : Rest(f, S)' = Rest(f, S)
  BY <1>1, <1>2, <1>3, <1>5, <1>6, <1>7 DEF Rest
<1>9. \A f : Goal(f)' = Goal(f)
  BY <1>1, <1>4 DEF Goal
<1>10. \A f : Mark(f)' <=> Mark(f)
  BY <1>1, <1>2 DEF Mark, Kind
<1>11. \A n, p, K : Refers(n, p, K)' <=> Refers(n, p, K)
  BY <1>1, <1>2 DEF Refers
<1>12. \A f, g : Continues(f, g)' <=> Continues(f, g)
  BY <1>4, <1>8, <1>9, <1>10 DEF Continues
<1>13. Continuing' = Continuing
  BY <1>12 DEF Continuing, Frames, Nodes
<1>14. \A at, p : Came(at, p)' = Came(at, p)
  BY <1>4, <1>7 DEF Came
<1>15. \A f, r, p : Ahead(f, r, p)' <=> Ahead(f, r, p)
  BY <1>1, <1>2, <1>4, <1>8, <1>9, <1>10, <1>11, <1>14 DEF Ahead, Kind
<1> QED
  BY <1>1, <1>13, <1>15 DEF Accepted

LEMMA AheadNow ==
  ASSUME Shape, Accepting, Keeping, stack # <<>>, diagnostics = {}
  PROVE  /\ Ahead(Top, ret, pos) /\ Mark(Top) /\ Innermost(Top, ret, pos)
         /\ Linked(Front(stack), Continuing)
         /\ Top.at # "Program" => Continues(Last(Front(stack)), Top) /\ Top.node.first \in Places
         /\ ret.is # "null" /\ Keeper(Top) /\ Top \in Frames
         /\ pos \in Places /\ pos \in Nat /\ Len(tokens) \in Nat
         /\ \A p \in Places : p \in Nat /\ p # 0 /\ (Kind(p) # "eof" => p + 1 \in Places)
         /\ ret.is = "node" => ret.node.first \in Places
<1>1. /\ Linked(Front(stack), Continuing)
      /\ Front(stack) # <<>> => <<Last(Front(stack)), Top>> \in Continuing
  BY LinkedFront DEF Shape, Accepting, Top
<1>2. ASSUME Top.at # "Program" PROVE Continues(Last(Front(stack)), Top)
  BY <1>1, <1>2, InnerFacts DEF Continuing
<1>3. /\ Len(tokens) \in Nat /\ pos \in Nat /\ pos \in Places
      /\ \A p \in Places : p \in Nat /\ p # 0 /\ (Kind(p) # "eof" => p + 1 \in Places)
  BY KindFacts, PlaceFacts DEF Places, Shape
<1>4. Top.at # "Program" => Top.node.first \in Places
  BY <1>3, TopFacts DEF Places
<1>5. ret.is = "node" => ret.node.first \in Places
  BY <1>3, TopFacts, PlaceFacts DEF Places, Innermost
<1> QED
  BY <1>1, <1>2, <1>3, <1>4, <1>5, KeepNow, TopFacts DEF Accepting, Ahead

LEMMA AheadThen ==
  ASSUME UNCHANGED tokens, diagnostics' = {}, stack' # <<>>,
         Linked(stack', Continuing), Ahead(Last(stack'), ret', pos')
  PROVE  Accepting'
<1>1. Continuing' = Continuing /\ \A f, r, p : Ahead(f, r, p)' <=> Ahead(f, r, p)
  BY GrammarStays
<1>2. Linked(stack, Continuing)'
  BY <1>1 DEF Linked
<1>3. Ahead(Top, ret, pos)' <=> Ahead(Last(stack'), ret', pos')
  <2>1. Top' = Last(stack')
    BY DEF Top
  <2> QED
    BY <1>1, <2>1 DEF Ahead
<1> QED
  BY <1>2, <1>3 DEF Accepting

LEMMA RestOfNone ==
  ASSUME NEW f, f.at \in Labels
  PROVE  Rest(f, {}) = {} /\ \A s : Fit(s, {}) = {}
<1>1. \A s : Fit(s, {}) = {}
  BY Nones DEF Fit
<1>2. More({}) = {} /\ \A op : AfterIf(op, {}) = {}
  BY Nones DEF More, AfterIf
<1>3. Then(Header(ends, {}), "block") = {}
  BY Nones DEF Header, Then
<1>4. {} \cap ends[<<"target", f.node.first>>] = {}
  OBVIOUS
<1>5. \A t : Then({}, t) = {} /\ \A K : Eat({}, K) = {}
  BY Nones
<1>6. Eat({} \cup Eat({}, {"comma"}) \cup Then(Eat({}, {"comma"}), "args"), {"rpar"}) = {}
  BY <1>5
<1>7. Then(Eat({}, {"rpar"}), "block") = {} /\ Eat(Then({}, "stmts"), {"rbrace"}) = {}
  BY <1>5
<1>8. Then(Eat({}, {"equal"}), "expr") = {}
  BY <1>5
<1> QED
  BY <1>1, <1>2, <1>3, <1>4, <1>5, <1>6, <1>7, <1>8 DEF Rest

(* Where the grammar leaves the innermost call no place to be over, the tokens are no program. *)
LEMMA NoGoal ==
  ASSUME Shape, Accepting, stack # <<>>, diagnostics = {}, Goal(Top) = {}
  PROVE  ~ Accepted
<1> DEFINE T == {i \in 1..Len(stack) : Goal(stack[i]) = {}}
<1>1. /\ Len(stack) \in Nat \ {0} /\ Top = stack[Len(stack)]
      /\ \A i \in 1..Len(stack) : stack[i] \in Frames
  BY FrontFacts DEF Shape, Top
<1>2. T \in SUBSET Nat /\ Len(stack) \in T
  BY <1>1
<1>3. PICK m \in T : \A n \in T : m <= n
  <2> HIDE DEF T
  <2> QED
    BY <1>2, Smallest
<1>4. m = 1
  <2> SUFFICES ASSUME m # 1 PROVE FALSE
    OBVIOUS
  <2> DEFINE f == stack[m - 1]
             g == stack[m]
  <2>1. m - 1 \in 1..Len(stack) - 1 /\ m - 1 \in 1..Len(stack) /\ m - 1 + 1 = m
    BY <1>1
  <2>2. <<f, g>> \in Continuing
    BY <2>1 DEF Accepting, Linked
  <2>3. Goal(f) = Fit(Symbol(f), Rest(f, Goal(g))) /\ f \in Frames
    BY <2>2 DEF Continuing, Continues
  <2>4. Goal(g) = {} /\ f.at \in Labels
    BY <2>3, PlaceFacts
  <2> HIDE DEF f, g
  <2>5. Goal(f) = {}
    BY <2>3, <2>4, RestOfNone
  <2>6. m - 1 \in T
    BY <2>1, <2>5 DEF f
  <2> QED
    BY <1>1, <1>3, <2>6
<1>5. Goal(stack[1]) = Before(ends[<<"program", 1>>], {"eof"})
  <2>1. stack[1].at = "Program"
    BY DEF Shape
  <2>2. Symbol(stack[1]) = "program" /\ Start(stack[1]) = 1
    BY <2>1 DEF Symbol, Start, Statements, Primaries
  <2>3. \A S : Fit("program", S) = Before(S, {"eof"})
    BY DEF Fit
  <2> QED
    BY <2>2, <2>3 DEF Goal
<1>6. Before(ends[<<"program", 1>>], {"eof"}) = {}
  BY <1>4, <1>5
<1>7. Kind(Len(tokens) + 1) = "eof"
  BY PlaceFacts DEF Kind
<1> QED
  BY <1>6, <1>7 DEF Before, Accepted

LEMMA FailsRightly ==
  ASSUME Shape, Accepting, stack # <<>>, diagnostics = {}, UNCHANGED tokens,
         NEW p, NEW q, Error(p, q), Goal(Top) = {}
  PROVE  Accepting'
BY NoGoal, GrammarStays DEF Accepting, Error

LEMMA SameGoal ==
  ASSUME Shape, stack # <<>>, Top.at # "Program", NEW f, Symbol(f) = Symbol(Top),
         f.node.first = Top.node.first, f.at \in Labels
  PROVE  Goal(f) = Goal(Top) /\ f.at # "Program"
<1>1. Top.at \in Labels
  BY TopFacts
<1>2. Symbol(Top) # "program"
  BY <1>1 DEF Symbol, Statements, Primaries
<1>3. f.at # "Program"
  <2>1. f.at = "Program" => Symbol(f) = "program"
    BY DEF Symbol, Statements, Primaries
  <2> QED
    BY <1>2, <2>1
<1> QED
  BY <1>3 DEF Goal, Start

LEMMA AcceptsBecome ==
  ASSUME Shape, Shape', Accepting, Keeping, stack # <<>>, Top.at # "Program", Clean,
         UNCHANGED tokens, NEW f, Become(f), Symbol(f) = Symbol(Top),
         f.node.first = Top.node.first, Ahead(f, Nothing, pos')
  PROVE  Accepting'
<1> DEFINE u == Last(Front(stack))
<1>1. stack' = Append(Front(stack), f) /\ ret' = Nothing /\ f \in Frames
  BY NewFrames DEF Become
<1>2. Goal(f) = Goal(Top)
  BY <1>1, PlaceFacts, SameGoal
<1>3. Continues(u, Top) /\ Linked(Front(stack), Continuing)
  BY AheadNow DEF Clean
<1> HIDE DEF u
<1>4. Continues(u, f)
  BY <1>2, <1>3 DEF Continues
<1>5. Front(stack) # <<>> /\ <<u, f>> \in Continuing
  BY <1>1, <1>4, InnerFacts DEF Continuing, u
<1>6. Linked(stack', Continuing) /\ Last(stack') = f /\ stack' # <<>>
  BY <1>1, <1>3, <1>5, InnerFacts, LinkedPush, PushFacts DEF u
<1> QED
  BY <1>1, <1>6, AheadThen DEF Clean

LEMMA AcceptsCall ==
  ASSUME Shape, Shape', Accepting, Keeping, stack # <<>>, Top.at # "Program", Clean,
         UNCHANGED tokens, NEW f, NEW g, Call(f, g), Symbol(f) = Symbol(Top),
         f.node.first = Top.node.first, Continues(f, g), Ahead(g, Nothing, pos')
  PROVE  Accepting'
<1> DEFINE u == Last(Front(stack))
           below == Append(Front(stack), f)
<1>1. stack' = Append(below, g) /\ ret' = Nothing /\ f \in Frames /\ g \in Frames
  BY CallIs, NewFrames
<1>2. Goal(f) = Goal(Top)
  BY <1>1, PlaceFacts, SameGoal
<1>3. Continues(u, Top) /\ Linked(Front(stack), Continuing)
  BY AheadNow DEF Clean
<1> HIDE DEF u
<1>4. Continues(u, f)
  BY <1>2, <1>3 DEF Continues
<1>5. Front(stack) # <<>> /\ <<u, f>> \in Continuing
  BY <1>1, <1>4, InnerFacts DEF Continuing, u
<1>6. Linked(below, Continuing) /\ Last(below) = f /\ below \in Seq(Frames)
  BY <1>1, <1>3, <1>5, InnerFacts, LinkedPush, PushFacts DEF u
<1>7. <<Last(below), g>> \in Continuing
  BY <1>1, <1>6 DEF Continuing
<1> HIDE DEF below
<1>8. Linked(stack', Continuing) /\ Last(stack') = g /\ stack' # <<>>
  BY <1>1, <1>6, <1>7, LinkedPush, PushFacts
<1> QED
  BY <1>1, <1>8, AheadThen DEF Clean

LEMMA AcceptsReturn ==
  ASSUME Shape, Accepting, Keeping, stack # <<>>, Top.at # "Program", Clean, UNCHANGED tokens,
         NEW node, Return(node),
         Goal(Top) = IF Symbol(Top) = "chain" THEN Fit("chain", More({pos'}))
                                              ELSE Fit(Symbol(Top), {pos'}),
         Symbol(Top) = "primary" => node.first = Top.node.first /\ Refers(node, pos', Beside),
         Symbol(Top) = "expr" => Refers(node, pos', {"rpar"})
  PROVE  Accepting'
<1> DEFINE u == Last(Front(stack))
           r == Returned("node", node)
<1>1. stack' = Front(stack) /\ ret' = r /\ r.is = "node" /\ r.node = node
  BY DEF Return, Returned
<1>2. Continues(u, Top) /\ Linked(Front(stack), Continuing) /\ Front(stack) # <<>>
  BY AheadNow, InnerFacts DEF Clean
<1> HIDE DEF u, r
<1>3. Symbol(Top) = Part(u.at) /\ Mark(u) /\ Goal(u) = Fit(Symbol(u), Rest(u, Goal(Top)))
  BY <1>2 DEF Continues
<1>4. Symbol(Top) = "chain" <=> u.at = "Tighter"
  BY <1>3 DEF Part
<1>5. Goal(Top) = Came(u.at, pos')
  BY <1>3, <1>4 DEF Came
<1>6. u.at \in {"Lhs", "Rhs"} => Refers(node, pos', Beside)
  BY <1>3 DEF Part
<1>7. ASSUME u.at = "Rhs" PROVE Fit("primary", ends[<<"primary", node.first>>]) = Fit("primary", {pos'})
  <2>1. Symbol(Top) = "primary"
    BY <1>3, <1>7 DEF Part
  <2>2. Goal(Top) = Fit("primary", ends[<<"primary", node.first>>])
    BY <2>1 DEF Goal, Start
  <2> QED
    BY <2>1, <2>2
<1>8. Part(u.at) = "expr" => Refers(node, pos', {"rpar"})
  BY <1>3
<1>9. Ahead(u, r, pos')
  BY <1>1, <1>3, <1>5, <1>6, <1>7, <1>8 DEF Ahead
<1> QED
  BY <1>1, <1>2, <1>9, AheadThen DEF u, Clean

-----------------------------------------------------------------------------
(* What Symbol, Fit, Part and Came are *)
LEMMA SymbolIs ==
  ASSUME NEW f
  PROVE  /\ f.at = "Program" => Symbol(f) = "program"
         /\ f.at \in {"Function", "Params", "Body"} => Symbol(f) = "function"
         /\ f.at = "Block" => Symbol(f) = "block"
         /\ f.at \in Statements => Symbol(f) = "stmt"
         /\ f.at \in {"Expr", "Lhs", "Assign"} => Symbol(f) = "expr"
         /\ f.at \in {"Binary", "Rhs", "Tighter"} =>
              Symbol(f) = IF f.prec = 0 THEN "expr" ELSE "chain"
         /\ f.at \in Primaries => Symbol(f) = "primary"
BY DEF Symbol, Statements, Primaries

LEMMA FitIs ==
  ASSUME NEW S
  PROVE  /\ Fit("program", S) = Before(S, {"eof"})
         /\ Fit("function", S) = S /\ Fit("block", S) = S
         /\ Fit("stmt", S) = S \ Before(S, {"cf_else"})
         /\ Fit("expr", S) = Before(S, Behind) /\ Fit("chain", S) = Before(S, Behind)
         /\ Fit("primary", S) = Before(S, Beside)
BY DEF Fit

LEMMA CallsAre ==
  ASSUME NEW at, NEW p, NEW node, NEW op, NEW prec
  PROVE  /\ Calls(at, p).at = at /\ Calls(at, p).node.first = p /\ Calls(at, p).prec = 0
         /\ Plain(at, node).at = at /\ Plain(at, node).node = node /\ Plain(at, node).prec = 0
         /\ Frame(at, node, op, prec).at = at /\ Frame(at, node, op, prec).node = node
         /\ Frame(at, node, op, prec).op = op /\ Frame(at, node, op, prec).prec = prec
BY DEF Calls, Plain, Frame, Node

(* Before an action of a parse without errors *)
Onward == Shape /\ Shape' /\ Keeping /\ Keeping' /\ Text /\ Accepting /\ diagnostics = {}

LEMMA ProgramAccepts == ASSUME Onward, Program PROVE Accepting'
<1> USE DEF Onward
<1>1. /\ stack # <<>> /\ Top.at = "Program" /\ UNCHANGED tokens /\ Top \in Frames
      /\ Ahead(Top, ret, pos) /\ ret.is # "null" /\ pos \in Places /\ Linked(stack, Continuing)
      /\ Len(tokens) \in Nat /\ pos \in Nat
  BY AheadNow DEF Program, In, Got, GotNull, Tree, Accepting
<1>2. Goal(Top) = Before(ends[<<"program", 1>>], {"eof"})
  BY <1>1, SymbolIs, FitIs DEF Goal, Start
<1>3. \A S : Fit(Symbol(Top), Rest(Top, S)) = Before(Then(S, "program"), {"eof"})
  BY <1>1, SymbolIs, FitIs DEF Rest
<1>4. ret.is = "none" => Goal(Top) = Before(ends[<<"program", pos>>], {"eof"})
  BY <1>1, <1>3, ThenOne DEF Ahead
<1>5. CASE In("Program") /\ Kind(pos) = "eof" /\ stack' = <<>> /\ UNCHANGED diagnostics
  <2>1. pos = Len(tokens) + 1
    BY <1>1, <1>5, KindFacts DEF Places, Kinds, Atoms, TypeName, Keyword, Operator, Brackets
  <2>2. ends[<<"program", pos>>] = {pos}
    BY <1>1, <1>5, ProgramEnds
  <2>3. pos \in Goal(Top)
    BY <1>4, <1>5, <2>2, BeforeOne DEF In
  <2>4. Accepted
    BY <1>2, <2>1, <2>3 DEF Before, Accepted
  <2>5. Accepted' /\ Linked(stack, Continuing)'
    BY <1>1, <1>5, <2>4, GrammarStays DEF Linked
  <2> QED
    BY <1>5, <2>5 DEF Accepting
<1>6. CASE In("Program") /\ Kind(pos) \notin {"eof", "func"} /\ Error(pos, Until(pos, {"func"}))
  <2>1. ends[<<"function", pos>>] = {}
    BY <1>1, <1>6, FunctionEnds
  <2>2. ends[<<"program", pos>>] = {}
    BY <1>1, <1>6, <2>1, ProgramEnds, Nones
  <2>3. Goal(Top) = {}
    BY <1>4, <1>6, <2>2, Nones DEF In
  <2> QED
    BY <1>1, <1>6, <2>3, FailsRightly
<1>7. CASE /\ In("Program") /\ Kind(pos) = "func" /\ UNCHANGED <<ret, diagnostics>>
           /\ stack' = Append(stack, Calls("Function", pos))
  <2> DEFINE g == Calls("Function", pos)
  <2>1. g.at = "Function" /\ g \in Frames /\ g.node.first = pos /\ Symbol(g) = "function"
    BY <1>1, CallsFacts, SymbolIs DEF Labels
  <2>2. stack' = Append(stack, g)
    BY <1>7
  <2> HIDE DEF g
  <2>3. Goal(g) = ends[<<"function", pos>>]
    BY <2>1, FitIs DEF Goal, Start
  <2>4. ends[<<"program", pos>>] = Then(ends[<<"function", pos>>], "program")
    BY <1>1, <1>7, ProgramEnds
  <2>5. Goal(Top) = Fit(Symbol(Top), Rest(Top, Goal(g)))
    BY <1>3, <1>4, <1>7, <2>3, <2>4 DEF In
  <2>6. Continues(Top, g)
    BY <1>1, <2>1, <2>5 DEF Continues, Part, Ahead
  <2>7. <<Last(stack), g>> \in Continuing
    BY <1>1, <2>1, <2>6 DEF Continuing, Top
  <2>8. Linked(stack', Continuing) /\ Last(stack') = g /\ stack' # <<>>
    BY <1>1, <2>1, <2>2, <2>7, LinkedPush, PushFacts DEF Shape
  <2>9. Ahead(g, ret', pos')
    BY <1>7, <2>1 DEF Ahead, Mark, In
  <2> QED
    BY <1>1, <1>7, <2>8, <2>9, AheadThen
<1>8. CASE Got("Program") /\ ret' = Nothing /\ UNCHANGED <<pos, stack, diagnostics>>
  <2>1. Came("Program", pos) = {pos}
    BY FitIs DEF Came, Part
  <2>2. Ahead(Top, ret', pos')
    BY <1>1, <1>8, <2>1, NothingFacts DEF Ahead, Got
  <2>3. Last(stack') = Top
    BY <1>8 DEF Top
  <2> QED
    BY <1>1, <1>8, <2>2, <2>3, AheadThen
<1> QED
  BY <1>1, <1>5, <1>6, <1>7, <1>8 DEF Program, Skip, GotNull

(* The signature of a function *)
LEMMA AllMatch ==
  ASSUME Shape, NEW p \in Places, NEW E \in {Function, Parameter, Signature},
         Kind(p) \in E[1], Kind(p + 1) \in E[2], Kind(p + 2) \in E[3]
  PROVE  Matched(p, E) = 3
<1>1. Len(E) = 3 /\ p \in Nat
  BY PlaceFacts DEF Function, Parameter, Signature, Places
<1> DEFINE n == Matched(p, E)
<1>2. /\ n \in 0..Len(E)
      /\ \A m \in 0..Len(E) : (\A i \in 1..m : Kind(p + i - 1) \in E[i]) => m <= n
  <2>1. Len(E) \in Nat
    BY <1>1
  <2> QED
    BY <1>1, <2>1, MatchedFacts, Zenon
<1> HIDE DEF n
<1>3. p + 1 - 1 = p /\ p + 2 - 1 = p + 1 /\ p + 3 - 1 = p + 2
  BY <1>1
<1>4. \A i \in 1..3 : Kind(p + i - 1) \in E[i]
  BY <1>3
<1>5. 3 <= n
  BY <1>1, <1>2, <1>4
<1> QED
  BY <1>1, <1>2, <1>5 DEF n

LEMMA HeaderIs ==
  ASSUME NEW p
  PROVE  Header(ends, {p}) = Eat(Eat(Eat(ends[<<"params", p>>], {"rpar"}), {"colon"}), TypeName)
<1>1. Then({p}, "params") = ends[<<"params", p>>]
  BY ThenOne
<1> QED
  BY <1>1 DEF Header, Then

LEMMA FunctionNameAccepts == ASSUME Onward, FunctionName PROVE Accepting'
<1> USE DEF Onward
<1> DEFINE n == Matched(pos, Function)
           f == Plain("Params", Keeps(Top.node, {pos, pos + 1}))
<1>1. /\ stack # <<>> /\ Top.at = "Function" /\ UNCHANGED tokens /\ pos \in Places /\ pos \in Nat
      /\ Top.node.first = pos
  BY AheadNow DEF FunctionName, In, Tree, Innermost
<1>2. Goal(Top) = ends[<<"function", pos>>]
  BY <1>1, SymbolIs, FitIs DEF Goal, Start
<1>3. CASE n < 3 /\ Error(pos + n, pos + n)
  <2>1. ~ (Kind(pos) = "func" /\ Kind(pos + 1) = "identifier" /\ Kind(pos + 2) = "lpar")
    BY <1>1, <1>3, AllMatch DEF Function
  <2>2. Goal(Top) = {}
    BY <1>1, <1>2, <2>1, FunctionEnds
  <2> QED
    BY <1>1, <1>3, <2>2, FailsRightly
<1>4. CASE ~ (n < 3) /\ To(pos + 3) /\ UNCHANGED diagnostics /\ Become(f)
  <2>1. Kind(pos) = "func" /\ Kind(pos + 1) = "identifier" /\ Kind(pos + 2) = "lpar"
    BY <1>1, <1>4, Whole3 DEF Function
  <2>2. pos' = pos + 3
    BY <1>1, <1>4, <2>1, KindFacts DEF To
  <2>3. Goal(Top) = Then(Header(ends, {pos + 3}), "block")
    BY <1>1, <1>2, <2>1, FunctionEnds
  <2>4. f.at = "Params" /\ f.node.first = Top.node.first /\ Symbol(f) = Symbol(Top)
    BY <1>1, CallsAre, SymbolIs DEF Keeps, Node
  <2> HIDE DEF f
  <2>5. Goal(f) = Goal(Top)
    BY <1>1, <2>4, SameGoal DEF Labels
  <2>6. Ahead(f, Nothing, pos')
    BY <2>2, <2>3, <2>4, <2>5, NothingFacts, FitIs, SymbolIs DEF Ahead, Mark, Rest
  <2> QED
    BY <1>1, <1>4, <2>4, <2>6, AcceptsBecome DEF Clean
<1> QED
  BY <1>3, <1>4 DEF FunctionName, Skip

LEMMA ParamsAccepts == ASSUME Onward, Params PROVE Accepting'
<1> USE DEF Onward
<1> DEFINE n == Matched(pos, Parameter)
           f == Plain("Params", Keeps(Top.node, {pos, pos + 2}))
           closed(p) == Eat(ends[<<"params", p>>], {"rpar"})
<1>1. /\ stack # <<>> /\ Top.at = "Params" /\ UNCHANGED tokens /\ pos \in Places /\ pos \in Nat
      /\ Ahead(Top, ret, pos) /\ ret.is = "none" /\ Kind(pos) # "rpar"
  BY AheadNow DEF Params, In, Tree
<1>2. \A p : Then(Header(ends, {p}), "block") = Then(Eat(Eat(closed(p), {"colon"}), TypeName), "block")
  BY HeaderIs
<1>3. Goal(Top) = Then(Header(ends, {pos}), "block")
  BY <1>1, SymbolIs, FitIs DEF Ahead, Rest
<1>4. ASSUME NEW q, n # 3, Error(pos + n, q) PROVE Accepting'
  <2>1. ~ (Kind(pos) = "identifier" /\ Kind(pos + 1) = "colon" /\ Kind(pos + 2) \in TypeName)
    BY <1>1, <1>4, AllMatch DEF Parameter
  <2>2. ends[<<"params", pos>>] = {pos}
    BY <1>1, <2>1, FunctionEnds
  <2>3. closed(pos) = {}
    BY <1>1, <2>2, EatOne
  <2>4. Goal(Top) = {}
    BY <1>2, <1>3, <2>3, Nones
  <2> QED
    BY <1>1, <1>4, <2>4, FailsRightly
<1>5. CASE n = 3 /\ To(PastComma(pos + 3)) /\ UNCHANGED diagnostics /\ Become(f)
  <2>1. Kind(pos) = "identifier" /\ Kind(pos + 1) = "colon" /\ Kind(pos + 2) \in TypeName
    <3>1. Kind(pos) \in Parameter[1] /\ Kind(pos + 1) \in Parameter[2] /\ Kind(pos + 2) \in Parameter[3]
      BY <1>1, <1>5, Whole3
    <3> QED
      BY <3>1 DEF Parameter
  <2>2. pos + 3 \in Places /\ Len(tokens) \in Nat
    BY <1>1, <1>5, Match3, PlaceFacts
  <2>3. pos' = IF Kind(pos + 3) = "comma" THEN pos + 4 ELSE pos + 3
    BY <1>1, <1>5, <2>2, KindFacts DEF To, PastComma, Places
  <2>4. ends[<<"params", pos>>] = {pos} \cup ends[<<"params", pos + 3>>]
                                    \cup IF Kind(pos + 3) = "comma" THEN ends[<<"params", pos + 4>>] ELSE {}
    BY <1>1, <2>1, FunctionEnds
  <2>5. Eat({pos}, {"rpar"}) = {}
    BY <1>1, EatOne
  <2>6. closed(pos) = closed(pos')
    <3>1. CASE Kind(pos + 3) = "comma"
      <4>1. ends[<<"params", pos + 3>>] = {pos + 3}
        BY <2>2, <3>1, FunctionEnds
      <4>2. Eat({pos + 3}, {"rpar"}) = {}
        BY <3>1, EatOne
      <4>3. ends[<<"params", pos>>] = ({pos} \cup {pos + 3}) \cup ends[<<"params", pos'>>]
        BY <2>3, <2>4, <3>1, <4>1
      <4>4. closed(pos) = Eat({pos} \cup {pos + 3}, {"rpar"}) \cup closed(pos')
        <5> DEFINE S == {pos} \cup {pos + 3}
                   T == ends[<<"params", pos'>>]
        <5> HIDE DEF S, T
        <5>1. Eat(S \cup T, {"rpar"}) = Eat(S, {"rpar"}) \cup Eat(T, {"rpar"})
          BY EatBoth
        <5>2. closed(pos) = Eat(S \cup T, {"rpar"})
          BY <4>3 DEF S, T
        <5> QED
          BY <5>1, <5>2 DEF S, T
      <4>5. Eat({pos} \cup {pos + 3}, {"rpar"}) = {}
        BY <2>5, <4>2, EatBoth
      <4> QED
        BY <4>4, <4>5
    <3>2. CASE Kind(pos + 3) # "comma"
      <4>1. ends[<<"params", pos>>] = {pos} \cup ends[<<"params", pos'>>]
        BY <2>3, <2>4, <3>2
      <4>2. closed(pos) = Eat({pos}, {"rpar"}) \cup closed(pos')
        <5> DEFINE T == ends[<<"params", pos'>>]
        <5> HIDE DEF T
        <5>1. Eat({pos} \cup T, {"rpar"}) = Eat({pos}, {"rpar"}) \cup Eat(T, {"rpar"})
          BY EatBoth
        <5>2. closed(pos) = Eat({pos} \cup T, {"rpar"})
          BY <4>1 DEF T
        <5> QED
          BY <5>1, <5>2 DEF T
      <4> QED
        BY <2>5, <4>2
    <3> QED
      BY <3>1, <3>2
  <2>7. Goal(Top) = Then(Header(ends, {pos'}), "block")
    BY <1>2, <1>3, <2>6
  <2>8. f.at = "Params" /\ f.node.first = Top.node.first /\ Symbol(f) = Symbol(Top)
    BY <1>1, CallsAre, SymbolIs DEF Keeps, Node
  <2> HIDE DEF f, closed
  <2>9. Goal(f) = Goal(Top)
    BY <1>1, <2>8, SameGoal DEF Labels
  <2>10. Ahead(f, Nothing, pos')
    BY <2>7, <2>8, <2>9, NothingFacts, FitIs, SymbolIs DEF Ahead, Mark, Rest
  <2> QED
    BY <1>1, <1>5, <2>8, <2>10, AcceptsBecome DEF Clean
<1> QED
  BY <1>4, <1>5 DEF Params, Skip

(* A call that has just been made *)
LEMMA Calling ==
  ASSUME Shape, NEW p \in Places
  PROVE  /\ \A at \in {"Block", "Stmt", "Expr", "Primary"} : Calls(at, p).node.first = p
         /\ Symbol(Calls("Block", p)) = "block" /\ Goal(Calls("Block", p)) = ends[<<"block", p>>]
         /\ Symbol(Calls("Stmt", p)) = "stmt" /\ Goal(Calls("Stmt", p)) = Fit("stmt", ends[<<"stmt", p>>])
         /\ Symbol(Calls("Expr", p)) = "expr" /\ Goal(Calls("Expr", p)) = Fit("expr", ends[<<"expr", p>>])
         /\ Symbol(Calls("Primary", p)) = "primary"
         /\ Goal(Calls("Primary", p)) = Fit("primary", ends[<<"primary", p>>])
         /\ Kind(p) = "lbrace" => Ahead(Calls("Block", p), Nothing, p + 1)
         /\ \A q : \A at \in {"Stmt", "Expr", "Primary"} : Ahead(Calls(at, p), Nothing, q)
<1>1. ASSUME NEW at \in {"Block", "Stmt", "Expr", "Primary"}
      PROVE  Calls(at, p).at = at /\ Calls(at, p).node.first = p
  BY CallsAre
<1>2. ASSUME NEW f, f.at \in {"Stmt", "Expr", "Primary"}, NEW q PROVE Ahead(f, Nothing, q)
  BY <1>2, NothingFacts DEF Ahead, Mark
<1>3. ASSUME NEW f, f.at = "Block", f.node.first = p
      PROVE  /\ Symbol(f) = "block" /\ Goal(f) = ends[<<"block", p>>]
             /\ Kind(p) = "lbrace" => Ahead(f, Nothing, p + 1)
  <2>1. Symbol(f) = "block" /\ Goal(f) = ends[<<"block", p>>]
    BY <1>3, SymbolIs, FitIs DEF Goal, Start
  <2>2. Fit(Symbol(f), Rest(f, {p + 1})) = Eat(ends[<<"stmts", p + 1>>], {"rbrace"})
    <3>1. \A S : Rest(f, S) = Eat(Then(S, "stmts"), {"rbrace"})
      BY <1>3 DEF Rest
    <3>2. \A S : Fit(Symbol(f), S) = S
      BY <2>1, FitIs
    <3> QED
      BY <3>1, <3>2, ThenOne
  <2>3. Kind(p) = "lbrace" => Goal(f) = Fit(Symbol(f), Rest(f, {p + 1}))
    BY <2>1, <2>2, BlockEnds
  <2> QED
    BY <1>3, <2>1, <2>3, NothingFacts DEF Ahead, Mark
<1>4. ASSUME NEW f, f.node.first = p
      PROVE  /\ f.at = "Stmt" => Symbol(f) = "stmt" /\ Goal(f) = Fit("stmt", ends[<<"stmt", p>>])
             /\ f.at = "Expr" => Symbol(f) = "expr" /\ Goal(f) = Fit("expr", ends[<<"expr", p>>])
             /\ f.at = "Primary" =>
                  Symbol(f) = "primary" /\ Goal(f) = Fit("primary", ends[<<"primary", p>>])
  <2>1. /\ f.at = "Stmt" => Symbol(f) = "stmt"
        /\ f.at = "Expr" => Symbol(f) = "expr"
        /\ f.at = "Primary" => Symbol(f) = "primary"
    BY SymbolIs DEF Statements, Primaries
  <2> QED
    BY <1>4, <2>1 DEF Goal, Start
<1> QED
  BY <1>1, <1>2, <1>3, <1>4

LEMMA BodyAccepts == ASSUME Onward, Body PROVE Accepting'
<1> USE DEF Onward
<1>1. /\ stack # <<>> /\ Top.at \in {"Params", "Body"} /\ UNCHANGED tokens /\ pos \in Places /\ pos \in Nat
      /\ Ahead(Top, ret, pos) /\ ret.is # "null"
  BY AheadNow DEF Body, In, Got, GotNull, Tree
<1>2. Symbol(Top) = "function"
  BY <1>1, SymbolIs
<1>3. CASE /\ In("Params") /\ Kind(pos) \in {"rpar", "eof"}
           /\ LET p == IF Kind(pos) = "rpar" THEN pos + 1 ELSE pos
                  n == Matched(p, Signature)
              IN  IF n < 3 THEN Error(p + n, p + n)
                  ELSE /\ Skip(p + 3)
                       /\ Call(Plain("Body", Keeps(Top.node, {p + 1})), Calls("Block", p + 2))
  <2> DEFINE p == IF Kind(pos) = "rpar" THEN pos + 1 ELSE pos
             n == Matched(p, Signature)
             f == Plain("Body", Keeps(Top.node, {p + 1}))
             g == Calls("Block", p + 2)
  <2>1. Goal(Top) = Then(Header(ends, {pos}), "block")
    BY <1>1, <1>2, <1>3, FitIs DEF Ahead, Rest, In
  <2>2. ends[<<"params", pos>>] = {pos}
    BY <1>1, <1>3, FunctionEnds
  <2>3. Header(ends, {pos}) = Eat(Eat(Eat({pos}, {"rpar"}), {"colon"}), TypeName)
    BY <2>2, HeaderIs
  <2>4. Kind(pos) = "eof" => Goal(Top) = {}
    <3>1. Kind(pos) = "eof" => Eat({pos}, {"rpar"}) = {}
      BY EatOne
    <3> QED
      BY <2>1, <2>3, <3>1, Nones
  <2>5. p \in Places /\ p \in Nat /\ p + 1 + 1 = p + 2
    BY <1>1, <1>3, AheadNow
  <2>6. ASSUME Kind(pos) = "rpar"
        PROVE  Goal(Top) = IF Kind(p) = "colon" /\ Kind(p + 1) \in TypeName
                             THEN ends[<<"block", p + 2>>] ELSE {}
    <3>1. Eat({pos}, {"rpar"}) = {p}
      BY <2>6, EatOne
    <3>2. Eat(Eat({p}, {"colon"}), TypeName) = IF Kind(p) \in {"colon"} /\ Kind(p + 1) \in TypeName
                                                 THEN {p + 2} ELSE {}
      <4> HIDE DEF p
      <4> QED
        BY <2>5, EatInTurn
    <3> HIDE DEF p
    <3> QED
      BY <2>1, <2>3, <3>1, <3>2, ThenOne, Nones
  <2>7. CASE n < 3 /\ Error(p + n, p + n)
    <3>1. ~ (Kind(p) = "colon" /\ Kind(p + 1) \in TypeName /\ Kind(p + 2) = "lbrace")
      <4> HIDE DEF p
      <4>1. Kind(p) \in Signature[1] /\ Kind(p + 1) \in Signature[2] /\ Kind(p + 2) \in Signature[3] => n = 3
        BY <2>5, AllMatch
      <4> QED
        BY <2>7, <4>1 DEF Signature
    <3>2. Kind(p) = "colon" /\ Kind(p + 1) \in TypeName => p + 2 \in Places
      <4> HIDE DEF p
      <4>1. "eof" \notin TypeName
        BY DEF TypeName
      <4>2. Kind(p) = "colon" => p + 1 \in Places
        BY <1>1, <2>5, AheadNow
      <4> QED
        BY <1>1, <2>5, <4>1, <4>2, AheadNow
    <3>3. Goal(Top) = {}
      <4> HIDE DEF p
      <4> QED
        BY <1>3, <2>4, <2>6, <3>1, <3>2, BlockEnds
    <3> QED
      BY <1>1, <2>7, <3>3, FailsRightly
  <2>8. CASE ~ (n < 3) /\ Skip(p + 3) /\ Call(f, g)
    <3> HIDE DEF p
    <3>1. Kind(p) \in Signature[1] /\ Kind(p + 1) \in Signature[2] /\ Kind(p + 2) \in Signature[3]
      BY <2>5, <2>8, Whole3
    <3>2. Kind(p) = "colon" /\ Kind(p + 1) \in TypeName /\ Kind(p + 2) = "lbrace" /\ "eof" \notin TypeName
      BY <3>1 DEF Signature, TypeName
    <3>3. p + 1 \in Places /\ p + 2 \in Places
      BY <1>1, <2>5, <3>2, AheadNow
    <3>4. pos' = p + 2 + 1
      <4>1. p + 2 + 1 = p + 3 /\ p + 2 \in Nat \ {0}
        BY <2>5
      <4> QED
        BY <2>8, <3>2, <4>1, Consumed DEF Skip
    <3>5. Kind(pos) = "rpar"
      BY <1>3, <3>2 DEF p
    <3>6. Goal(Top) = ends[<<"block", p + 2>>]
      BY <2>6, <3>2, <3>5
    <3>7. f.at = "Body" /\ f.node.first = Top.node.first /\ Symbol(f) = "function"
      BY CallsAre, SymbolIs DEF Keeps, Node
    <3>8. Symbol(g) = "block" /\ Goal(g) = ends[<<"block", p + 2>>] /\ Ahead(g, Nothing, pos')
      BY <3>2, <3>3, <3>4, Calling
    <3> HIDE DEF f, g
    <3>9. Goal(f) = Goal(Top)
      BY <1>1, <1>2, <3>7, SameGoal DEF Labels
    <3>10. Continues(f, g)
      BY <3>6, <3>7, <3>8, <3>9, FitIs DEF Continues, Part, Mark, Rest
    <3> QED
      BY <1>1, <1>2, <2>8, <3>7, <3>8, <3>10, AcceptsCall DEF Clean, Skip
  <2> QED
    BY <1>3, <2>7, <2>8
<1>4. CASE Got("Body") /\ Return(Keeps(Top.node, ret.node.keeps)) /\ Skip(pos)
  <2>1. Goal(Top) = {pos'}
    <3>1. pos' = pos
      BY <1>4, Stands DEF Skip
    <3>2. Came("Body", pos) = {pos}
      BY FitIs DEF Came, Part
    <3> QED
      BY <1>1, <1>2, <1>4, <3>1, <3>2, FitIs DEF Ahead, Rest, Got
  <2> QED
    BY <1>1, <1>2, <1>4, <2>1, FitIs, AcceptsReturn DEF Clean, Skip
<1> QED
  BY <1>1, <1>3, <1>4 DEF Body, GotNull

(* Statements, one after the other: a statement is over where a branch cannot go on. *)
LEMMA StatementsEnd ==
  ASSUME Shape, NEW S, S \subseteq Places
  PROVE  Eat(Then(Fit("stmt", S), "stmts"), {"rbrace"}) = Eat(Then(S, "stmts"), {"rbrace"})
<1> DEFINE T == Before(S, {"cf_else"})
           R == S \ T
<1>1. Then(S, "stmts") = Then(R, "stmts") \cup Then(T, "stmts")
  <2>1. S = R \cup T
    BY DEF Before
  <2> HIDE DEF R, T
  <2> QED
    BY <2>1, ThenBoth
<1>2. Then(T, "stmts") = T
  <2>1. \A p \in T : ends[<<"stmts", p>>] = {p}
    BY BlockEnds DEF Before
  <2> QED
    BY <2>1 DEF Then, After
<1>3. Eat(T, {"rbrace"}) = {}
  BY DEF Eat, Before
<1>4. Eat(Then(S, "stmts"), {"rbrace"}) = Eat(Then(R, "stmts"), {"rbrace"}) \cup Eat(T, {"rbrace"})
  <2> HIDE DEF R, T
  <2> QED
    BY <1>1, <1>2, EatBoth
<1>5. Fit("stmt", S) = R
  BY FitIs
<1> HIDE DEF R, T
<1> QED
  BY <1>3, <1>4, <1>5

LEMMA BlockAccepts == ASSUME Onward, Block PROVE Accepting'
<1> USE DEF Onward
<1>1. /\ stack # <<>> /\ Top.at = "Block" /\ UNCHANGED tokens /\ pos \in Places /\ pos \in Nat \ {0}
      /\ Ahead(Top, ret, pos) /\ ret.is # "null" /\ Top.at # "Program"
  BY AheadNow, PlaceFacts DEF Block, In, Got, GotNull, Tree
<1>2. Symbol(Top) = "block"
  BY <1>1, SymbolIs
<1>3. \A f, S : f.at = "Block" => Rest(f, S) = Eat(Then(S, "stmts"), {"rbrace"})
  BY DEF Rest
<1>4. \A S : Fit("block", S) = S
  BY FitIs
<1>5. ret.is = "none" => Goal(Top) = Eat(ends[<<"stmts", pos>>], {"rbrace"})
  <2>1. ret.is = "none" => Goal(Top) = Rest(Top, {pos})
    BY <1>1, <1>2, <1>4 DEF Ahead
  <2> QED
    BY <1>1, <1>3, <2>1, ThenOne
<1>6. CASE In("Block") /\ Kind(pos) = "rbrace" /\ Return(Top.node) /\ Skip(pos + 1)
  <2>1. ends[<<"stmts", pos>>] = {pos}
    BY <1>1, <1>6, BlockEnds
  <2>2. Goal(Top) = {pos + 1}
    BY <1>5, <1>6, <2>1, EatOne DEF In
  <2>3. pos' = pos + 1
    BY <1>1, <1>6, Consumed DEF Skip
  <2> QED
    BY <1>1, <1>2, <1>4, <1>6, <2>2, <2>3, AcceptsReturn DEF Clean, Skip
<1>7. CASE In("Block") /\ Kind(pos) = "eof" /\ Error(Top.node.first, pos)
  <2>1. ends[<<"stmts", pos>>] = {pos}
    BY <1>1, <1>7, BlockEnds
  <2>2. Goal(Top) = {}
    BY <1>5, <1>7, <2>1, EatOne DEF In
  <2> QED
    BY <1>1, <1>7, <2>2, FailsRightly
<1>8. CASE /\ In("Block") /\ Kind(pos) \notin {"rbrace", "eof"}
           /\ Call(Top, Calls("Stmt", pos)) /\ Skip(pos)
  <2> DEFINE g == Calls("Stmt", pos)
  <2>1. Symbol(g) = "stmt" /\ Goal(g) = Fit("stmt", ends[<<"stmt", pos>>]) /\ Ahead(g, Nothing, pos')
    BY <1>1, Calling
  <2> HIDE DEF g
  <2>2. Eat({pos}, {"rbrace"}) = {}
    BY <1>8, EatOne
  <2>3. ends[<<"stmt", pos>>] \subseteq Places
    BY <1>1, EndsFacts DEF Symbols
  <2>4. Eat(ends[<<"stmts", pos>>], {"rbrace"}) = Eat(Then(ends[<<"stmt", pos>>], "stmts"), {"rbrace"})
    <3>1. ends[<<"stmts", pos>>] = {pos} \cup Then(ends[<<"stmt", pos>>], "stmts")
      BY <1>1, BlockEnds
    <3> DEFINE X == Then(ends[<<"stmt", pos>>], "stmts")
    <3>2. ends[<<"stmts", pos>>] = {pos} \cup X
      BY <3>1
    <3> HIDE DEF X
    <3>3. Eat({pos} \cup X, {"rbrace"}) = Eat({pos}, {"rbrace"}) \cup Eat(X, {"rbrace"})
      BY EatBoth
    <3> QED
      BY <2>2, <3>2, <3>3 DEF X
  <2>5. Goal(Top) = Rest(Top, Goal(g))
    BY <1>1, <1>3, <1>5, <1>8, <2>1, <2>3, <2>4, StatementsEnd DEF In
  <2>6. Continues(Top, g)
    BY <1>1, <1>2, <1>4, <2>1, <2>5 DEF Continues, Part, Mark
  <2> QED
    BY <1>1, <1>8, <2>1, <2>6, TopFacts, AcceptsCall DEF Clean, Skip, g
<1>9. CASE Got("Block") /\ Become(Plain("Block", Keeps(Top.node, ret.node.keeps))) /\ Skip(pos)
  <2> DEFINE f == Plain("Block", Keeps(Top.node, ret.node.keeps))
  <2>1. f.at = "Block" /\ f.node.first = Top.node.first /\ Symbol(f) = "block"
    BY CallsAre, SymbolIs DEF Keeps, Node
  <2>2. pos' = pos
    BY <1>9, Stands DEF Skip
  <2> HIDE DEF f
  <2>3. Goal(f) = Goal(Top)
    BY <1>1, <1>2, <2>1, SameGoal DEF Labels
  <2>4. Goal(Top) = Rest(Top, Fit("stmt", {pos}))
    BY <1>1, <1>2, <1>4, <1>9 DEF Ahead, Came, Part, Got
  <2>5. Goal(f) = Rest(f, {pos})
    <3>1. Eat(Then(Fit("stmt", {pos}), "stmts"), {"rbrace"}) = Eat(Then({pos}, "stmts"), {"rbrace"})
      BY <1>1, StatementsEnd
    <3> QED
      BY <1>1, <1>3, <2>1, <2>3, <2>4, <3>1
  <2>6. Ahead(f, Nothing, pos')
    BY <1>4, <2>1, <2>2, <2>5, NothingFacts DEF Ahead, Mark
  <2> QED
    BY <1>1, <1>2, <1>9, <2>1, <2>6, AcceptsBecome DEF Clean, Skip, f
<1> QED
  BY <1>1, <1>6, <1>7, <1>8, <1>9 DEF Block, GotNull

-----------------------------------------------------------------------------
(* A call that waits for an expression needs only the ends of it that something that may *)
(* stand behind an expression follows.                                                   *)
ForExpr == {"Return", "ExprStmt", "Initializer", "Condition", "Assign", "Paren", "Args"}

LEMMA RestNarrowed ==
  ASSUME NEW f, f.at \in ForExpr, NEW S
  PROVE  /\ Fit(Symbol(f), Rest(f, Before(S, Behind))) = Fit(Symbol(f), Rest(f, S))
         /\ Part(f.at) = "expr"
<1> DEFINE B == Before(S, Behind)
<1> SUFFICES Fit(Symbol(f), Rest(f, B)) = Fit(Symbol(f), Rest(f, S))
  BY DEF Part, ForExpr
<1>1. \A kinds \in {{"semi"}, {"rpar"}, {"comma"}} : Eat(B, kinds) = Eat(S, kinds)
  BY Narrowed DEF Behind
<1>2. Before(B, Behind) = Before(S, Behind)
  BY Narrowed
<1> HIDE DEF B
<1>3. CASE f.at \in {"Return", "ExprStmt", "Initializer"}
  <2>1. Rest(f, B) = Eat(B, {"semi"}) /\ Rest(f, S) = Eat(S, {"semi"})
    BY <1>3 DEF Rest
  <2> QED
    BY <1>1, <2>1
<1>4. CASE f.at = "Condition"
  <2>1. /\ Rest(f, B) = AfterIf(f.op, Then(Eat(B, {"rpar"}), "block"))
        /\ Rest(f, S) = AfterIf(f.op, Then(Eat(S, {"rpar"}), "block"))
    BY <1>4 DEF Rest
  <2> QED
    BY <1>1, <2>1
<1>5. CASE f.at = "Paren"
  <2>1. Rest(f, B) = Eat(B, {"rpar"}) /\ Rest(f, S) = Eat(S, {"rpar"})
    BY <1>5 DEF Rest
  <2> QED
    BY <1>1, <2>1
<1>6. CASE f.at = "Assign"
  <2>1. Rest(f, B) = B /\ Rest(f, S) = S /\ Symbol(f) = "expr"
    BY <1>6, SymbolIs DEF Rest
  <2> QED
    BY <1>2, <2>1, FitIs
<1>7. CASE f.at = "Args"
  <2> DEFINE C(T) == Eat(T, {"comma"}) \cup Then(Eat(T, {"comma"}), "args")
  <2>1. \A T : Rest(f, T) = Eat(T \cup C(T), {"rpar"})
    BY <1>7 DEF Rest
  <2>2. C(B) = C(S)
    BY <1>1
  <2> HIDE DEF C
  <2>3. /\ Eat(B \cup C(B), {"rpar"}) = Eat(B, {"rpar"}) \cup Eat(C(B), {"rpar"})
        /\ Eat(S \cup C(S), {"rpar"}) = Eat(S, {"rpar"}) \cup Eat(C(S), {"rpar"})
    BY EatBoth
  <2> QED
    BY <1>1, <2>1, <2>2, <2>3
<1> QED
  BY <1>3, <1>4, <1>5, <1>6, <1>7 DEF ForExpr

LEMMA AsksExpr ==
  ASSUME Onward, stack # <<>>, Top.at # "Program", Clean, UNCHANGED tokens,
         NEW f, NEW p \in Places, Call(f, Calls("Expr", p)), f.at \in ForExpr, Mark(f),
         Symbol(f) = Symbol(Top), f.node.first = Top.node.first,
         Goal(Top) = Fit(Symbol(Top), Rest(f, ends[<<"expr", p>>]))
  PROVE  Accepting'
<1> USE DEF Onward
<1> DEFINE g == Calls("Expr", p)
<1>1. /\ Symbol(g) = "expr" /\ Goal(g) = Before(ends[<<"expr", p>>], Behind)
      /\ Ahead(g, Nothing, pos')
  BY Calling, FitIs
<1> HIDE DEF g
<1>2. Goal(f) = Goal(Top)
  BY SameGoal DEF ForExpr, Labels
<1>3. Continues(f, g)
  BY <1>1, <1>2, RestNarrowed DEF Continues
<1> QED
  BY <1>1, <1>3, AcceptsCall DEF g

LEMMA ExprCame ==
  ASSUME Onward, stack # <<>>, Top.at \in ForExpr, ret.is = "node"
  PROVE  /\ Goal(Top) = Fit(Symbol(Top), Rest(Top, {pos}))
         /\ Refers(ret.node, pos, {"rpar"})
<1>1. Ahead(Top, ret, pos)
  BY AheadNow DEF Onward
<1>2. Came(Top.at, pos) = Before({pos}, Behind) /\ Part(Top.at) = "expr"
  <2>1. Part(Top.at) = "expr" /\ Top.at # "Tighter"
    BY DEF Part, ForExpr
  <2> QED
    BY <2>1, FitIs DEF Came
<1> QED
  BY <1>1, <1>2, RestNarrowed DEF Ahead

LEMMA StmtAccepts == ASSUME Onward, Stmt PROVE Accepting'
<1> USE DEF Onward
<1> DEFINE E == ends[<<"stmt", pos>>]
<1>1. /\ stack # <<>> /\ Top.at = "Stmt" /\ UNCHANGED tokens /\ pos \in Places /\ pos \in Nat \ {0}
      /\ Top.node.first = pos /\ Top.at # "Program" /\ Len(tokens) \in Nat
      /\ pos + 1 + 1 = pos + 2 /\ pos + 2 + 1 = pos + 3
  BY AheadNow, PlaceFacts DEF Stmt, In, Tree, Innermost
<1>2. Symbol(Top) = "stmt" /\ \A f : f.at \in Statements => Symbol(f) = "stmt"
  BY <1>1, SymbolIs DEF Statements
<1>3. Goal(Top) = Fit("stmt", E)
  BY <1>1, <1>2 DEF Goal, Start
<1>4. E = {} => Goal(Top) = {}
  BY <1>3, FitIs
<1>5. \A p \in Places : Kind(p) # "eof" => p + 1 \in Places
  BY <1>1, AheadNow
<1>6. \A f : f.at \in Statements => Mark(f)
  BY DEF Statements, Mark
<1>7. \A f, S : /\ f.at \in {"Return", "ExprStmt", "Declared", "Initializer"} => Rest(f, S) = Eat(S, {"semi"})
                /\ f.at = "Condition" => Rest(f, S) = AfterIf(f.op, Then(Eat(S, {"rpar"}), "block"))
  BY DEF Rest
<1> HIDE DEF E
<1>8. ASSUME Kind(pos) = "cf_return", Kind(pos + 1) = "semi", Return(Token), Skip(pos + 2)
      PROVE  Accepting'
  <2>1. pos + 1 \in Places
    BY <1>1, <1>5, <1>8
  <2>2. ends[<<"expr", pos + 1>>] = {}
    BY <1>8, <2>1, NoExpr DEF Atoms
  <2>3. E = {pos + 2}
    <3>1. E = Eat({pos + 1} \cup {}, {"semi"})
      BY <1>1, <1>8, <2>2, StmtEnds DEF E
    <3>2. E = Eat({pos + 1}, {"semi"})
      BY <3>1
    <3> QED
      BY <1>1, <1>8, <3>2, EatOne
  <2>4. pos' = pos + 2
    BY <1>1, <1>8, Consumed DEF Skip
  <2> QED
    BY <1>1, <1>2, <1>3, <1>8, <2>3, <2>4, AcceptsReturn DEF Clean, Skip
<1>9. ASSUME Kind(pos) = "cf_return", Kind(pos + 1) # "semi",
             Skip(pos + 1), Call(Plain("Return", Token), Calls("Expr", pos + 1))
      PROVE  Accepting'
  <2> DEFINE f == Plain("Return", Token)
             X == ends[<<"expr", pos + 1>>]
  <2>1. pos + 1 \in Places
    BY <1>1, <1>5, <1>9
  <2>2. f.at = "Return" /\ f.node.first = Top.node.first
    BY <1>1, CallsAre DEF Token, Node
  <2>3. Eat({pos + 1}, {"semi"}) = {}
    BY <1>9, EatOne
  <2>4. E = Eat({pos + 1} \cup X, {"semi"})
    BY <1>1, <1>9, StmtEnds DEF E
  <2> HIDE DEF f, X
  <2>5. E = Eat(X, {"semi"})
    <3>1. Eat({pos + 1} \cup X, {"semi"}) = Eat({pos + 1}, {"semi"}) \cup Eat(X, {"semi"})
      BY EatBoth
    <3> QED
      BY <2>3, <2>4, <3>1
  <2>6. Goal(Top) = Fit("stmt", Rest(f, X)) /\ Symbol(f) = "stmt" /\ Mark(f) /\ f.at \in ForExpr
    BY <1>2, <1>3, <1>6, <1>7, <2>2, <2>5 DEF Statements, ForExpr
  <2> QED
    BY <1>1, <1>2, <1>9, <2>1, <2>2, <2>6, AsksExpr DEF Clean, Skip, f, X
<1>10. ASSUME Kind(pos) \in {"cf_if", "cf_while"}, Kind(pos + 1) # "lpar", Error(pos + 1, pos + 1)
       PROVE  Accepting'
  <2>1. E = {}
    BY <1>1, <1>10, StmtEnds DEF E
  <2> QED
    BY <1>1, <1>4, <1>10, <2>1, FailsRightly
<1>11. ASSUME Kind(pos) \in {"cf_if", "cf_while"}, Kind(pos + 1) = "lpar", Skip(pos + 2),
              Call(Frame("Condition", Token, pos, 0), Calls("Expr", pos + 2))
       PROVE  Accepting'
  <2> DEFINE f == Frame("Condition", Token, pos, 0)
             X == ends[<<"expr", pos + 2>>]
  <2>1. pos + 1 \in Places /\ pos + 2 \in Places
    <3>1. pos + 1 \in Places
      BY <1>1, <1>5, <1>11
    <3> QED
      BY <1>1, <1>5, <1>11, <3>1
  <2>2. f.at = "Condition" /\ f.node.first = Top.node.first /\ f.op = pos
    BY <1>1, CallsAre DEF Token, Node
  <2>3. E = AfterIf(pos, Then(Eat(X, {"rpar"}), "block"))
    BY <1>1, <1>11, StmtEnds DEF E, Tested
  <2> HIDE DEF f, X
  <2>4. Goal(Top) = Fit("stmt", Rest(f, X)) /\ Symbol(f) = "stmt" /\ Mark(f) /\ f.at \in ForExpr
    BY <1>2, <1>3, <1>6, <1>7, <2>2, <2>3 DEF Statements, ForExpr
  <2> QED
    BY <1>1, <1>2, <1>11, <2>1, <2>2, <2>4, AsksExpr DEF Clean, Skip, f, X
<1>12. ASSUME Kind(pos) \in {"cf_int", "cf_float"}, Kind(pos + 1) # "identifier",
              Error(pos + 1, pos + 1)
       PROVE  Accepting'
  <2>1. E = {}
    BY <1>1, <1>12, StmtEnds DEF E
  <2> QED
    BY <1>1, <1>4, <1>12, <2>1, FailsRightly
<1>13. ASSUME Kind(pos) \in {"cf_int", "cf_float"}, Kind(pos + 1) = "identifier",
              Kind(pos + 2) = "equal", Skip(pos + 3),
              Call(Plain("Initializer", Keeps(Keeps(Token, {pos + 1}), {pos + 2})),
                   Calls("Expr", pos + 3))
       PROVE  Accepting'
  <2> DEFINE f == Plain("Initializer", Keeps(Keeps(Token, {pos + 1}), {pos + 2}))
             X == ends[<<"expr", pos + 3>>]
  <2>1. pos + 3 \in Places
    <3>1. pos + 1 \in Places
      BY <1>1, <1>5, <1>13
    <3>2. pos + 2 \in Places
      BY <1>1, <1>5, <1>13, <3>1
    <3> QED
      BY <1>1, <1>5, <1>13, <3>2
  <2>2. f.at = "Initializer" /\ f.node.first = Top.node.first
    BY <1>1, CallsAre DEF Token, Node, Keeps
  <2>3. Eat({pos + 2}, {"semi"}) = {}
    BY <1>13, EatOne
  <2>4. E = Eat({pos + 2} \cup X, {"semi"})
    BY <1>1, <1>13, StmtEnds DEF E
  <2> HIDE DEF f, X
  <2>5. E = Eat(X, {"semi"})
    <3>1. Eat({pos + 2} \cup X, {"semi"}) = Eat({pos + 2}, {"semi"}) \cup Eat(X, {"semi"})
      BY EatBoth
    <3> QED
      BY <2>3, <2>4, <3>1
  <2>6. Goal(Top) = Fit("stmt", Rest(f, X)) /\ Symbol(f) = "stmt" /\ Mark(f) /\ f.at \in ForExpr
    BY <1>2, <1>3, <1>6, <1>7, <2>2, <2>5 DEF Statements, ForExpr
  <2> QED
    BY <1>1, <1>2, <1>13, <2>1, <2>2, <2>6, AsksExpr DEF Clean, Skip, f, X
<1>14. ASSUME Kind(pos) \in {"cf_int", "cf_float"}, Kind(pos + 1) = "identifier",
              Kind(pos + 2) # "equal", Skip(pos + 2),
              Become(Plain("Declared", Keeps(Token, {pos + 1})))
       PROVE  Accepting'
  <2> DEFINE f == Plain("Declared", Keeps(Token, {pos + 1}))
  <2>1. pos' = pos + 2
    BY <1>1, <1>14, Consumed DEF Skip
  <2>2. f.at = "Declared" /\ f.node.first = Top.node.first
    BY <1>1, CallsAre DEF Token, Node, Keeps
  <2> HIDE DEF f
  <2>3. E = Eat({pos'}, {"semi"})
    <3>1. E = Eat({pos + 2} \cup {}, {"semi"})
      BY <1>1, <1>14, StmtEnds DEF E
    <3>2. {pos + 2} \cup {} = {pos'}
      BY <2>1
    <3> QED
      BY <3>1, <3>2
  <2>4. Goal(f) = Goal(Top) /\ Symbol(f) = "stmt" /\ Mark(f)
    BY <1>1, <1>2, <1>6, <2>2, SameGoal DEF Labels, Statements
  <2>5. Ahead(f, Nothing, pos')
    BY <1>3, <1>7, <2>2, <2>3, <2>4, NothingFacts DEF Ahead
  <2> QED
    BY <1>1, <1>2, <1>14, <2>2, <2>4, <2>5, AcceptsBecome DEF Clean, Skip, f
<1>15. ASSUME Kind(pos) \notin {"cf_return", "cf_if", "cf_while", "cf_int", "cf_float"}, Skip(pos),
              Call(Calls("ExprStmt", pos), Calls("Expr", pos))
       PROVE  Accepting'
  <2> DEFINE f == Calls("ExprStmt", pos)
  <2>1. f.at = "ExprStmt" /\ f.node.first = Top.node.first
    BY <1>1, CallsAre
  <2> HIDE DEF f
  <2>2. E = Eat(ends[<<"expr", pos>>], {"semi"})
    BY <1>1, <1>15, StmtEnds DEF E
  <2>3. /\ Goal(Top) = Fit("stmt", Rest(f, ends[<<"expr", pos>>]))
        /\ Symbol(f) = "stmt" /\ Mark(f) /\ f.at \in ForExpr
    BY <1>2, <1>3, <1>6, <1>7, <2>1, <2>2 DEF Statements, ForExpr
  <2> QED
    BY <1>1, <1>2, <1>15, <2>1, <2>3, AsksExpr DEF Clean, Skip, f
<1>16. CASE Kind(pos) = "cf_return"
  BY <1>8, <1>9, <1>16 DEF Stmt
<1>17. CASE Kind(pos) \in {"cf_if", "cf_while"}
  BY <1>10, <1>11, <1>17 DEF Stmt
<1>18. CASE Kind(pos) \in {"cf_int", "cf_float"}
  BY <1>12, <1>13, <1>14, <1>18 DEF Stmt
<1>19. CASE Kind(pos) \notin {"cf_return", "cf_if", "cf_while", "cf_int", "cf_float"}
  BY <1>15, <1>19 DEF Stmt
<1> QED
  BY <1>16, <1>17, <1>18, <1>19

LEMMA EndsStmt ==
  ASSUME Onward, stack # <<>>, Top.at \in {"Return", "ExprStmt", "Declared", "Initializer"},
         UNCHANGED tokens, Goal(Top) = Fit("stmt", Rest(Top, {pos})), NEW node, NEW q,
         \/ Kind(pos) = "semi" /\ Return(node) /\ Skip(pos + 1)
         \/ Kind(pos) # "semi" /\ Error(pos, q)
  PROVE  Accepting'
<1> USE DEF Onward
<1>1. Symbol(Top) = "stmt" /\ pos \in Nat \ {0} /\ Top.at # "Program"
  BY SymbolIs, PlaceFacts DEF Statements
<1>2. Goal(Top) = Fit("stmt", Eat({pos}, {"semi"}))
  BY DEF Rest
<1>3. ASSUME Kind(pos) = "semi", Return(node), Skip(pos + 1) PROVE Accepting'
  <2>1. pos' = pos + 1
    BY <1>1, <1>3, Consumed DEF Skip
  <2>2. Goal(Top) = Fit("stmt", {pos'})
    BY <1>2, <1>3, <2>1, EatOne
  <2> QED
    BY <1>1, <1>3, <2>2, AcceptsReturn DEF Clean, Skip
<1>4. ASSUME Kind(pos) # "semi", Error(pos, q) PROVE Accepting'
  <2>1. Goal(Top) = {}
    <3>1. Eat({pos}, {"semi"}) = {}
      BY <1>4, EatOne
    <3> QED
      BY <1>2, <3>1, FitIs
  <2> QED
    BY <1>4, <2>1, FailsRightly
<1> QED
  BY <1>3, <1>4

LEMMA ReturnStmtAccepts == ASSUME Onward, ReturnStmt PROVE Accepting'
<1>1. stack # <<>> /\ Top.at = "Return" /\ UNCHANGED tokens /\ ret.is = "node"
  BY AheadNow DEF Onward, ReturnStmt, Got, GotNull, Tree
<1>2. Goal(Top) = Fit("stmt", Rest(Top, {pos}))
  BY <1>1, ExprCame, SymbolIs DEF ForExpr, Statements
<1> QED
  BY <1>1, <1>2, EndsStmt DEF ReturnStmt, GotNull

LEMMA ExprStmtAccepts == ASSUME Onward, ExprStmt PROVE Accepting'
<1>1. stack # <<>> /\ Top.at = "ExprStmt" /\ UNCHANGED tokens /\ ret.is = "node"
  BY AheadNow DEF Onward, ExprStmt, Got, GotNull, Tree
<1>2. Goal(Top) = Fit("stmt", Rest(Top, {pos}))
  BY <1>1, ExprCame, SymbolIs DEF ForExpr, Statements
<1> QED
  BY <1>1, <1>2, EndsStmt DEF ExprStmt, GotNull, Semicolon

LEMMA VariableDeclAccepts == ASSUME Onward, VariableDecl PROVE Accepting'
<1>1. /\ stack # <<>> /\ UNCHANGED tokens /\ ret.is # "null" /\ Top.at # "BadStmt"
      /\ Ahead(Top, ret, pos)
  BY AheadNow DEF Onward, VariableDecl, In, Got, GotNull, Tree, Keeper
<1>2. CASE In("Declared") /\ Semicolon(Top.node)
  <2>1. Goal(Top) = Fit("stmt", Rest(Top, {pos}))
    BY <1>1, <1>2, SymbolIs DEF Ahead, Statements, In
  <2> QED
    BY <1>1, <1>2, <2>1, EndsStmt DEF Semicolon, In
<1>3. CASE Got("Initializer") /\ Semicolon(Keeps(Top.node, ret.node.keeps))
  <2>1. Goal(Top) = Fit("stmt", Rest(Top, {pos}))
    BY <1>1, <1>3, ExprCame, SymbolIs DEF ForExpr, Statements, Got
  <2> QED
    BY <1>1, <1>3, <2>1, EndsStmt DEF Semicolon, Got
<1> QED
  BY <1>1, <1>2, <1>3 DEF VariableDecl, GotNull, In

LEMMA AllMatch2 ==
  ASSUME Shape, NEW p \in Places, Kind(p) = "rpar", Kind(p + 1) = "lbrace"
  PROVE  Matched(p, Opening) = 2
<1>1. Len(Opening) = 2 /\ p \in Nat
  BY PlaceFacts DEF Opening, Places
<1> DEFINE n == Matched(p, Opening)
<1>2. /\ n \in 0..Len(Opening)
      /\ \A m \in 0..Len(Opening) : (\A i \in 1..m : Kind(p + i - 1) \in Opening[i]) => m <= n
  <2>1. Len(Opening) \in Nat
    BY <1>1
  <2> QED
    BY <1>1, <2>1, MatchedFacts, Zenon
<1> HIDE DEF n
<1>3. \A i \in 1..2 : Kind(p + i - 1) \in Opening[i]
  <2>1. p + 1 - 1 = p /\ p + 2 - 1 = p + 1 /\ Opening[1] = {"rpar"} /\ Opening[2] = {"lbrace"}
    BY <1>1 DEF Opening
  <2> QED
    BY <2>1
<1>4. 2 <= n
  BY <1>1, <1>2, <1>3
<1> QED
  BY <1>1, <1>2, <1>4 DEF n

LEMMA ConditionAccepts == ASSUME Onward, Condition PROVE Accepting'
<1> USE DEF Onward
<1> DEFINE n == Matched(pos, Opening)
           node == Keeps(Top.node, ret.node.keeps)
           f == Frame("Then", node, Top.op, 0)
           g == Calls("Block", pos + 1)
           B == ends[<<"block", pos + 1>>]
<1>1. /\ stack # <<>> /\ Top.at = "Condition" /\ UNCHANGED tokens /\ ret.is = "node"
      /\ pos \in Places /\ pos \in Nat \ {0} /\ Top.at # "Program"
  BY AheadNow, PlaceFacts DEF Condition, Got, GotNull, Tree
<1>2. Symbol(Top) = "stmt"
  BY <1>1, SymbolIs DEF Statements
<1>3. Goal(Top) = Fit("stmt", AfterIf(Top.op, Then(Eat({pos}, {"rpar"}), "block")))
  <2>1. \A S : Rest(Top, S) = AfterIf(Top.op, Then(Eat(S, {"rpar"}), "block"))
    BY <1>1 DEF Rest
  <2> QED
    BY <1>1, <1>2, <2>1, ExprCame DEF ForExpr
<1>4. Goal(Top) = IF Kind(pos) = "rpar" THEN Fit("stmt", AfterIf(Top.op, B)) ELSE {}
  <2>1. Kind(pos) = "rpar" => Then(Eat({pos}, {"rpar"}), "block") = B
    BY EatOne, ThenOne
  <2>2. Kind(pos) # "rpar" => Then(Eat({pos}, {"rpar"}), "block") = {}
    BY EatOne, Nones
  <2>3. Fit("stmt", AfterIf(Top.op, {})) = {}
    BY Nones, FitIs DEF AfterIf
  <2> HIDE DEF B
  <2> QED
    BY <1>3, <2>1, <2>2, <2>3
<1>5. CASE n < 2 /\ Error(pos + n, pos + n)
  <2>1. ~ (Kind(pos) = "rpar" /\ Kind(pos + 1) = "lbrace")
    BY <1>1, <1>5, AllMatch2
  <2>2. Kind(pos) = "rpar" => pos + 1 \in Places
    BY <1>1, AheadNow
  <2>3. Kind(pos) = "rpar" => B = {}
    BY <2>1, <2>2, BlockEnds
  <2>4. Fit("stmt", AfterIf(Top.op, {})) = {}
    BY Nones, FitIs DEF AfterIf
  <2>5. Goal(Top) = {}
    <3> HIDE DEF B
    <3> QED
      BY <1>4, <2>3, <2>4
  <2> QED
    BY <1>1, <1>5, <2>5, FailsRightly
<1>6. CASE ~ (n < 2) /\ Skip(pos + 2) /\ Call(f, g)
  <2>1. Kind(pos) = "rpar" /\ Kind(pos + 1) = "lbrace"
    <3>1. n \in 0..2
      BY <1>1, Match2
    <3>2. n >= 2 /\ n >= 1
      <4> HIDE DEF n
      <4> QED
        BY <1>6, <3>1
    <3> QED
      BY <1>1, <3>2, Match2
  <2>2. pos + 1 \in Places
    BY <1>1, <2>1, AheadNow
  <2>3. pos' = pos + 1 + 1
    <3>1. pos + 1 + 1 = pos + 2 /\ pos + 1 \in Nat \ {0}
      BY <1>1
    <3> QED
      BY <1>6, <2>1, <3>1, Consumed DEF Skip
  <2>4. f.at = "Then" /\ f.node.first = Top.node.first /\ f.op = Top.op
    BY CallsAre DEF Keeps, Node
  <2>5. Symbol(g) = "block" /\ Goal(g) = B /\ Ahead(g, Nothing, pos')
    BY <2>1, <2>2, <2>3, Calling
  <2> HIDE DEF f, g, B
  <2>6. Symbol(f) = "stmt"
    BY <2>4, SymbolIs DEF Statements
  <2>7. Goal(f) = Goal(Top)
    BY <1>1, <1>2, <2>4, <2>6, SameGoal DEF Labels
  <2>8. Rest(f, B) = AfterIf(Top.op, B)
    BY <2>4 DEF Rest
  <2>9. Continues(f, g)
    BY <1>4, <2>1, <2>4, <2>5, <2>6, <2>7, <2>8 DEF Continues, Part, Mark
  <2> QED
    BY <1>1, <1>2, <1>6, <2>4, <2>5, <2>6, <2>9, AcceptsCall DEF Clean, Skip
<1>7. \/ n < 2 /\ Error(pos + n, pos + n)
      \/ ~ (n < 2) /\ Skip(pos + 2) /\ Call(f, g)
  BY <1>1 DEF Condition, GotNull, Opening
<1> QED
  BY <1>5, <1>6, <1>7

LEMMA BranchesAccepts == ASSUME Onward, Branches PROVE Accepting'
<1> USE DEF Onward
<1>1. /\ stack # <<>> /\ Top.at \in {"Then", "Else"} /\ UNCHANGED tokens /\ ret.is = "node"
      /\ pos \in Places /\ pos \in Nat \ {0} /\ Top.at # "Program" /\ Ahead(Top, ret, pos)
  BY AheadNow, PlaceFacts DEF Branches, Got, GotNull, Tree
<1>2. Symbol(Top) = "stmt"
  BY <1>1, SymbolIs DEF Statements
<1>3. Goal(Top) = Fit("stmt", Rest(Top, {pos}))
  <2>1. Came(Top.at, pos) = {pos}
    BY <1>1, FitIs DEF Came, Part
  <2> QED
    BY <1>1, <1>2, <2>1 DEF Ahead
<1>4. ASSUME NEW node, Return(node), Skip(pos), Rest(Top, {pos}) = {pos} PROVE Accepting'
  <2>1. pos' = pos
    BY <1>4, Stands DEF Skip
  <2> QED
    BY <1>1, <1>2, <1>3, <1>4, <2>1, AcceptsReturn DEF Clean, Skip
<1> DEFINE B == ends[<<"block", pos + 1>>]
<1>5. /\ Top.at = "Else" => Rest(Top, {pos}) = {pos}
      /\ Top.at = "Then" => Rest(Top, {pos}) = IF Kind(Top.op) # "cf_while" /\ Kind(pos) = "cf_else"
                                                THEN {pos} \cup B ELSE {pos}
  <2>1. Top.at = "Else" => Rest(Top, {pos}) = {pos}
    BY DEF Rest
  <2>2. Top.at = "Then" => Rest(Top, {pos}) = AfterIf(Top.op, {pos})
    BY DEF Rest
  <2>3. Kind(pos) = "cf_else" => Then(Eat({pos}, {"cf_else"}), "block") = B
    BY EatOne, ThenOne
  <2>4. Kind(pos) # "cf_else" => Then(Eat({pos}, {"cf_else"}), "block") = {}
    BY EatOne, Nones
  <2> HIDE DEF B
  <2> QED
    BY <2>1, <2>2, <2>3, <2>4 DEF AfterIf
<1>6. Kind(pos) = "cf_else" => pos + 1 \in Places /\ \A S : Fit("stmt", {pos} \cup S) = Fit("stmt", S)
  <2>1. Kind(pos) = "cf_else" => pos + 1 \in Places
    BY <1>1, AheadNow
  <2>2. ASSUME Kind(pos) = "cf_else", NEW S PROVE Fit("stmt", {pos} \cup S) = Fit("stmt", S)
    BY <2>2, FitIs DEF Before
  <2> QED
    BY <2>1, <2>2
<1>7. CASE /\ Top.at = "Then" /\ ~ (Kind(Top.op) = "cf_while" \/ Kind(pos) # "cf_else")
           /\ Kind(pos + 1) # "lbrace" /\ Error(pos + 1, pos + 1)
  <2>1. B = {}
    BY <1>6, <1>7, BlockEnds
  <2>2. Goal(Top) = Fit("stmt", {})
    <3>1. Rest(Top, {pos}) = {pos} \cup {}
      BY <1>5, <1>7, <2>1
    <3> QED
      BY <1>3, <1>6, <1>7, <3>1
  <2>3. Goal(Top) = {}
    BY <2>2, FitIs
  <2> QED
    BY <1>1, <1>7, <2>3, FailsRightly
<1>8. CASE /\ Top.at = "Then" /\ ~ (Kind(Top.op) = "cf_while" \/ Kind(pos) # "cf_else")
           /\ Kind(pos + 1) = "lbrace" /\ Skip(pos + 2)
           /\ \E node : Call(Plain("Else", Keeps(Keeps(Top.node, node), {pos})), Calls("Block", pos + 1))
  <2> DEFINE f(node) == Plain("Else", Keeps(Keeps(Top.node, node), {pos}))
  <2>1. PICK node : Call(f(node), Calls("Block", pos + 1))
    BY <1>8
  <2> DEFINE e == f(node)
             g == Calls("Block", pos + 1)
  <2>2. pos' = pos + 1 + 1
    <3>1. pos + 1 + 1 = pos + 2 /\ pos + 1 \in Nat \ {0}
      BY <1>1
    <3> QED
      BY <1>8, <3>1, Consumed DEF Skip
  <2>3. e.at = "Else" /\ e.node.first = Top.node.first
    BY CallsAre DEF Keeps, Node
  <2>4. Symbol(g) = "block" /\ Goal(g) = B /\ Ahead(g, Nothing, pos')
    BY <1>6, <1>8, <2>2, Calling
  <2>5. Call(e, g)
    BY <2>1
  <2> HIDE DEF e, g, f, B
  <2>6. Symbol(e) = "stmt"
    BY <2>3, SymbolIs DEF Statements
  <2>7. Goal(e) = Goal(Top)
    BY <1>1, <1>2, <2>3, <2>6, SameGoal DEF Labels
  <2>8. Goal(Top) = Fit("stmt", B)
    BY <1>3, <1>5, <1>6, <1>8
  <2>9. Rest(e, B) = B
    BY <2>3 DEF Rest
  <2>10. Continues(e, g)
    BY <2>3, <2>4, <2>6, <2>7, <2>8, <2>9 DEF Continues, Part, Mark
  <2> QED
    BY <1>1, <1>2, <1>8, <2>3, <2>4, <2>5, <2>6, <2>10, AcceptsCall DEF Clean, Skip
<1> HIDE DEF B
<1>9. CASE Got("Then")
  <2>1. CASE Kind(Top.op) = "cf_while" \/ Kind(pos) # "cf_else"
    <3>1. Rest(Top, {pos}) = {pos}
      BY <1>5, <1>9, <2>1 DEF Got
    <3> QED
      BY <1>1, <1>4, <1>9, <2>1, <3>1 DEF Branches, Got, GotNull
  <2>2. CASE ~ (Kind(Top.op) = "cf_while" \/ Kind(pos) # "cf_else")
    BY <1>1, <1>7, <1>8, <1>9, <2>2 DEF Branches, Got, GotNull
  <2> QED
    BY <2>1, <2>2
<1>10. CASE Got("Else")
  BY <1>1, <1>4, <1>5, <1>10 DEF Branches, Got, GotNull
<1> QED
  BY <1>1, <1>9, <1>10 DEF Got

-----------------------------------------------------------------------------
(* Expressions.  What ends a primary expression early does not matter to the one it begins. *)
LEMMA FirstNarrowed ==
  ASSUME NEW S, NEW Y
  PROVE  /\ Before(More(Before(S, Beside)), Behind) = Before(More(S), Behind)
         /\ Before(More(Before(S, Beside)) \cup Y, Behind) = Before(More(S) \cup Y, Behind)
<1> DEFINE B == Before(S, Beside)
           X == Then(Eat(S, Operator), "chain")
<1>1. Eat(B, Operator) = Eat(S, Operator) /\ Before(B, Behind) = Before(S, Behind)
  BY Narrowed DEF Beside
<1> HIDE DEF B
<1>2. More(B) = B \cup X /\ More(S) = S \cup X
  BY <1>1 DEF More
<1> HIDE DEF X
<1>3. /\ Before(B \cup X, Behind) = Before(B, Behind) \cup Before(X, Behind)
      /\ Before(S \cup X, Behind) = Before(S, Behind) \cup Before(X, Behind)
  BY BeforeBoth
<1>4. Before(More(B), Behind) = Before(More(S), Behind)
  BY <1>1, <1>2, <1>3
<1>5. /\ Before(More(B) \cup Y, Behind) = Before(More(B), Behind) \cup Before(Y, Behind)
      /\ Before(More(S) \cup Y, Behind) = Before(More(S), Behind) \cup Before(Y, Behind)
  BY BeforeBoth
<1> QED
  BY <1>4, <1>5 DEF B

(* A single token, and what follows it *)
LEMMA OneMore ==
  ASSUME NEW p
  PROVE  /\ Kind(p) \notin Operator => More({p}) = {p}
         /\ Kind(p) \in Operator => Before(More({p}), Behind) = Before(ends[<<"chain", p + 1>>], Behind)
         /\ \A S : Kind(p) \notin Behind => Before({p} \cup S, Behind) = Before(S, Behind)
<1>1. ASSUME NEW S, Kind(p) \notin Behind PROVE Before({p} \cup S, Behind) = Before(S, Behind)
  BY <1>1 DEF Before
<1>2. ASSUME Kind(p) \notin Operator PROVE More({p}) = {p}
  BY <1>2, EatOne, Nones DEF More
<1>3. ASSUME Kind(p) \in Operator
      PROVE  Before(More({p}), Behind) = Before(ends[<<"chain", p + 1>>], Behind)
  <2>1. More({p}) = {p} \cup ends[<<"chain", p + 1>>]
    BY <1>3, EatOne, ThenOne DEF More
  <2>2. Kind(p) \notin Behind
    BY <1>3 DEF Operator, Behind
  <2> QED
    BY <1>1, <2>1, <2>2
<1> QED
  BY <1>1, <1>2, <1>3

(* What is known with respect to some kinds holds for less of them. *)
LEMMA RefersLess ==
  ASSUME NEW node, NEW p, NEW more, NEW kinds \in SUBSET more, Refers(node, p, more)
  PROVE  Refers(node, p, kinds)
<1> DEFINE T == ends[<<"target", node.first>>]
<1>1. Before(T, more) = IF node.ref THEN Before({p}, more) ELSE {}
  BY DEF Refers
<1>2. /\ Before(Before(T, more), kinds) = Before(T, kinds)
      /\ Before(Before({p}, more), kinds) = Before({p}, kinds)
  BY Narrowed
<1>3. Before({}, kinds) = {}
  BY Nones
<1> HIDE DEF T
<1>4. Before(T, kinds) = IF node.ref THEN Before({p}, kinds) ELSE {}
  BY <1>1, <1>2, <1>3
<1> QED
  BY <1>4 DEF Refers, T

LEMMA ExprAccepts == ASSUME Onward, Expr PROVE Accepting'
<1> USE DEF Onward
<1> DEFINE i == Top.node.first
           T == ends[<<"target", i>>]
<1>1. /\ stack # <<>> /\ Top.at \in {"Expr", "Lhs", "Assign"} /\ UNCHANGED tokens /\ ret.is # "null"
      /\ pos \in Places /\ pos \in Nat \ {0} /\ Top.at # "Program" /\ Ahead(Top, ret, pos)
      /\ Innermost(Top, ret, pos) /\ i \in Places /\ Mark(Top)
  BY AheadNow, PlaceFacts DEF Expr, In, Got, GotNull, Tree
<1>2. Symbol(Top) = "expr"
  BY <1>1, SymbolIs
<1>3. \A f : f.at = "Lhs" => /\ Mark(f) /\ Symbol(f) = "expr" /\ Part(f.at) = "primary"
                             /\ f.node.first = i =>
                                  \A S : Rest(f, S) = More(S) \cup Then(Eat(S \cap T, {"equal"}), "expr")
  BY SymbolIs DEF Mark, Part, Rest
<1>4. CASE In("Expr") /\ Call(Plain("Lhs", Top.node), Plain("Primary", Top.node)) /\ Skip(pos)
  <2> DEFINE f == Plain("Lhs", Top.node)
             g == Plain("Primary", Top.node)
             P == ends[<<"primary", i>>]
             Y == Then(Eat(T, {"equal"}), "expr")
  <2>1. f.at = "Lhs" /\ f.node.first = i /\ g.at = "Primary" /\ g.node.first = i
    BY CallsAre
  <2> HIDE DEF f, g
  <2>2. /\ Symbol(g) = "primary" /\ Goal(g) = Before(P, Beside) /\ Ahead(g, Nothing, pos')
    <3>1. Symbol(g) = "primary"
      BY <2>1, SymbolIs DEF Primaries
    <3>2. Goal(g) = Fit("primary", P)
      BY <2>1, <3>1 DEF Goal, Start
    <3>3. Ahead(g, Nothing, pos')
      BY <2>1, NothingFacts DEF Ahead, Mark
    <3> QED
      BY <3>1, <3>2, <3>3, FitIs
  <2>3. Goal(Top) = Before(Y \cup More(P), Behind)
    <3>1. Goal(Top) = Fit("expr", ends[<<"expr", i>>])
      BY <1>1, <1>2 DEF Goal, Start
    <3>2. ends[<<"chain", i>>] = More(P)
      BY <1>1, ExprEnds DEF More
    <3>3. ends[<<"expr", i>>] = Y \cup ends[<<"chain", i>>]
      BY <1>1, ExprEnds
    <3> QED
      BY <3>1, <3>2, <3>3, FitIs
  <2>4. Rest(f, Goal(g)) = More(Before(P, Beside)) \cup Y
    <3>1. Rest(f, Goal(g)) = More(Goal(g)) \cup Then(Eat(Goal(g) \cap T, {"equal"}), "expr")
      BY <1>3, <2>1
    <3>2. Before(P, Beside) \cap T = Before(T, Beside)
      BY <1>1, TargetIsPrimary DEF Before
    <3>3. Eat(Before(T, Beside), {"equal"}) = Eat(T, {"equal"})
      BY Narrowed DEF Beside
    <3> QED
      BY <2>2, <3>1, <3>2, <3>3
  <2>5. Before(More(Before(P, Beside)) \cup Y, Behind) = Before(More(P) \cup Y, Behind)
    BY FirstNarrowed
  <2> HIDE DEF P, Y
  <2>6. Goal(f) = Goal(Top) /\ Mark(f) /\ Symbol(f) = "expr" /\ Part(f.at) = "primary"
    BY <1>1, <1>2, <1>3, <2>1, SameGoal DEF Labels
  <2>7. Y \cup More(P) = More(P) \cup Y
    OBVIOUS
  <2>8. Goal(f) = Fit(Symbol(f), Rest(f, Goal(g)))
    BY <2>3, <2>4, <2>5, <2>6, <2>7, FitIs
  <2>9. Continues(f, g)
    BY <2>2, <2>6, <2>8 DEF Continues
  <2> QED
    BY <1>1, <1>2, <1>4, <2>1, <2>2, <2>6, <2>9, AcceptsCall DEF Clean, Skip, f, g
<1>5. ASSUME Got("Lhs")
      PROVE  /\ LET C == Before({pos}, Beside)
                IN  Goal(Top) = Before(More(C) \cup Then(Eat(C \cap T, {"equal"}), "expr"), Behind)
             /\ Refers(ret.node, pos, Beside) /\ ret.node.first = i
             /\ Before(T, Beside) = IF ret.node.ref THEN Before({pos}, Beside) ELSE {}
  <2>1. Top.at = "Lhs" /\ ret.is = "node"
    BY <1>5 DEF Got
  <2>2. ret.node.first = i
    BY <1>1, <2>1 DEF Innermost, Follows
  <2>3. Came("Lhs", pos) = Before({pos}, Beside)
    BY FitIs DEF Came, Part
  <2>4. Goal(Top) = Fit("expr", Rest(Top, Before({pos}, Beside)))
    BY <1>1, <1>2, <2>1, <2>3 DEF Ahead
  <2>5. Refers(ret.node, pos, Beside)
    BY <1>1, <2>1 DEF Ahead
  <2>6. \A S : Rest(Top, S) = More(S) \cup Then(Eat(S \cap T, {"equal"}), "expr")
    BY <1>3, <2>1
  <2> QED
    BY <2>2, <2>4, <2>5, <2>6, FitIs DEF Refers
<1>6. CASE /\ Got("Lhs") /\ ret.node.ref /\ Kind(pos) = "equal" /\ Skip(pos + 1)
           /\ Call(Plain("Assign", Keeps(ret.node, {pos})), Calls("Expr", pos + 1))
  <2> DEFINE f == Plain("Assign", Keeps(ret.node, {pos}))
             X == ends[<<"expr", pos + 1>>]
  <2>1. f.at = "Assign" /\ f.node.first = i
    BY <1>5, <1>6, CallsAre DEF Keeps, Node
  <2>2. Before({pos}, Beside) = {pos} /\ "equal" \notin Behind /\ "equal" \notin Operator
    BY <1>6, BeforeOne DEF Beside, Behind, Operator
  <2>3. {pos} \cap T = {pos}
    BY <1>5, <1>6, <2>2 DEF Before
  <2>4. More({pos}) = {pos}
    BY <1>6, <2>2, OneMore
  <2>5. Then(Eat({pos}, {"equal"}), "expr") = X
    BY <1>6, EatOne, ThenOne
  <2> HIDE DEF f, X
  <2>6. Goal(Top) = Before({pos} \cup X, Behind)
    BY <1>5, <1>6, <2>2, <2>3, <2>4, <2>5
  <2>7. Goal(Top) = Fit("expr", X)
    <3>1. Kind(pos) \notin Behind
      BY <1>6, <2>2
    <3>2. Before({pos} \cup X, Behind) = Before(X, Behind)
      BY <3>1, OneMore
    <3> QED
      BY <2>6, <3>2, FitIs
  <2>8. Rest(f, X) = X /\ Symbol(f) = "expr" /\ f.at \in ForExpr
    BY <2>1, SymbolIs DEF Rest, ForExpr
  <2>9. Mark(f)
    <3>1. Before(T, {"rpar"}) = Before(Before(T, Beside), {"rpar"})
      BY Narrowed DEF Beside, Behind
    <3>2. Before(T, Beside) = {pos}
      BY <1>5, <1>6, <2>2
    <3>3. Before(T, {"rpar"}) = {}
      BY <1>6, <3>1, <3>2, BeforeOne
    <3> QED
      BY <2>1, <3>3 DEF Mark
  <2>10. pos + 1 \in Places
    BY <1>1, <1>6, AheadNow
  <2> QED
    BY <1>1, <1>2, <1>6, <2>1, <2>7, <2>8, <2>9, <2>10, AsksExpr DEF Clean, Skip, f, X
<1>7. CASE /\ Got("Lhs") /\ ~ (ret.node.ref /\ Kind(pos) = "equal") /\ Skip(pos)
           /\ Become(Frame("Binary", ret.node, 0, 0))
  <2> DEFINE f == Frame("Binary", ret.node, 0, 0)
             C == Before({pos}, Beside)
  <2>1. f.at = "Binary" /\ f.node = ret.node /\ f.prec = 0 /\ Symbol(f) = "expr"
    BY CallsAre, SymbolIs
  <2>2. pos' = pos
    BY <1>7, Stands DEF Skip
  <2>3. Eat(C \cap T, {"equal"}) = {}
    <3>1. CASE Kind(pos) # "equal"
      BY <3>1 DEF Eat, Before
    <3>2. CASE Kind(pos) = "equal"
      <4>1. Before(T, Beside) = {}
        BY <1>5, <1>7, <3>2
      <4>2. C \cap T = {}
        BY <4>1 DEF Before
      <4> QED
        BY <4>2, Nones
    <3> QED
      BY <3>1, <3>2
  <2>4. Then(Eat(C \cap T, {"equal"}), "expr") = {}
    BY <2>3, Nones
  <2>5. Before(More(C), Behind) = Before(More({pos}), Behind)
    BY FirstNarrowed
  <2>6. Goal(Top) = Before(More(C) \cup Then(Eat(C \cap T, {"equal"}), "expr"), Behind)
    BY <1>5, <1>7
  <2> HIDE DEF f, C
  <2>7. Goal(Top) = Fit("expr", More({pos}))
    <3>1. Goal(Top) = Before(More(C) \cup {}, Behind)
      BY <2>4, <2>6
    <3>2. More(C) \cup {} = More(C)
      OBVIOUS
    <3> QED
      BY <2>5, <3>1, <3>2, FitIs
  <2>8. Goal(f) = Goal(Top)
    BY <1>1, <1>2, <1>5, <1>7, <2>1, SameGoal DEF Labels
  <2>9. Refers(f.node, pos', {"rpar"})
    BY <1>5, <1>7, <2>1, <2>2, RefersLess DEF Beside, Behind
  <2>10. Goal(f) = Fit(Symbol(f), Rest(f, {pos'}))
    BY <2>1, <2>2, <2>7, <2>8 DEF Rest
  <2>11. Ahead(f, Nothing, pos')
    BY <2>1, <2>9, <2>10, NothingFacts DEF Ahead, Mark
  <2> QED
    BY <1>1, <1>2, <1>5, <1>7, <2>1, <2>11, AcceptsBecome DEF Clean, Skip, f
<1>8. CASE Got("Assign") /\ Return(Keeps(Top.node, ret.node.keeps)) /\ Skip(pos)
  <2> DEFINE node == Keeps(Top.node, ret.node.keeps)
  <2>1. node.first = i /\ ~ node.ref
    BY DEF Keeps, Node
  <2>2. pos' = pos
    BY <1>8, Stands DEF Skip
  <2>3. Goal(Top) = Fit("expr", {pos})
    <3>1. Rest(Top, {pos}) = {pos}
      BY <1>8 DEF Rest, Got
    <3> QED
      BY <1>1, <1>2, <1>8, <3>1, ExprCame DEF ForExpr, Got
  <2> HIDE DEF node
  <2>4. Refers(node, pos', {"rpar"})
    BY <1>1, <1>8, <2>1 DEF Refers, Mark, Got
  <2> QED
    BY <1>1, <1>2, <1>8, <2>2, <2>3, <2>4, AcceptsReturn DEF Clean, Skip, node
<1> QED
  BY <1>1, <1>4, <1>6, <1>7, <1>8 DEF Expr, GotNull

LEMMA BinaryAccepts == ASSUME Onward, Binary PROVE Accepting'
<1> USE DEF Onward
<1> DEFINE M == Before(More({pos}), Behind)
           s == Symbol(Top)
<1>1. /\ stack # <<>> /\ Top.at \in {"Binary", "Rhs", "Tighter"} /\ UNCHANGED tokens /\ ret.is # "null"
      /\ pos \in Places /\ pos \in Nat \ {0} /\ Top.at # "Program" /\ Ahead(Top, ret, pos)
      /\ Innermost(Top, ret, pos) /\ Top.node.first \in Places /\ Mark(Top) /\ Top.prec \in Nat
      /\ ret.is = "node" => ret.node.first \in Places
  BY AheadNow, PlaceFacts, TopFacts DEF Binary, In, Got, GotNull, Tree
<1>2. /\ s \in {"expr", "chain"} /\ (s = "expr" <=> Top.prec = 0)
      /\ \A f : f.at \in {"Binary", "Rhs", "Tighter"} /\ f.prec = Top.prec => Symbol(f) = s
      /\ \A S : Fit(s, S) = Before(S, Behind)
      /\ \A S : Before(Before(S, Behind), Behind) = Before(S, Behind)
  <2>1. \A f : f.at \in {"Binary", "Rhs", "Tighter"} => Symbol(f) = IF f.prec = 0 THEN "expr" ELSE "chain"
    BY SymbolIs
  <2>2. \A S : Before(Before(S, Behind), Behind) = Before(S, Behind)
    BY Narrowed
  <2> QED
    BY <1>1, <2>1, <2>2, FitIs
<1>3. \A f, S : /\ f.at \in {"Binary", "Rhs"} => Rest(f, S) = More(S)
                /\ f.at = "Tighter" => Rest(f, S) = S
  BY DEF Rest
<1>4. Before(More(Before({pos}, Beside)), Behind) = M
  BY FirstNarrowed
<1>5. Goal(Top) = M
  <2>1. CASE Top.at = "Binary" /\ ret.is = "none"
    BY <1>1, <1>2, <1>3, <2>1 DEF Ahead
  <2>2. CASE Top.at = "Rhs" /\ ret.is = "node"
    <3>1. Came("Rhs", pos) = Before({pos}, Beside)
      BY FitIs DEF Came, Part
    <3>2. Goal(Top) = Fit(s, More(Before({pos}, Beside)))
      BY <1>1, <1>3, <2>2, <3>1 DEF Ahead
    <3> QED
      BY <1>2, <1>4, <3>2
  <2>3. CASE Top.at = "Tighter" /\ ret.is = "node"
    <3>1. Came("Tighter", pos) = M
      BY FitIs DEF Came
    <3>2. Goal(Top) = Fit(s, M)
      BY <1>1, <1>3, <2>3, <3>1 DEF Ahead
    <3> QED
      BY <1>2, <3>2
  <2> QED
    BY <1>1, <2>1, <2>2, <2>3 DEF Binary, In, Got, GotNull
<1> HIDE DEF s, M
<1>6. CASE In("Binary") /\ Precedence(Kind(pos)) < Top.prec /\ Return(Top.node) /\ Skip(pos)
  <2>1. pos' = pos
    BY <1>6, Stands DEF Skip
  <2>2. s = "chain" => Goal(Top) = Fit("chain", More({pos'}))
    BY <1>5, <2>1, FitIs DEF M
  <2>3. ASSUME s = "expr" PROVE Goal(Top) = Fit("expr", {pos'})
    <3>1. Kind(pos) \notin Operator
      <4>1. Top.prec = 0
        BY <1>2, <2>3
      <4>2. ~ (Precedence(Kind(pos)) >= 0)
        <5> DEFINE k == Precedence(Kind(pos))
        <5>1. k \in -1..20 /\ k < 0
          BY <1>6, <4>1, PrecedenceFacts
        <5> HIDE DEF k
        <5>2. ~ (k >= 0)
          BY <5>1
        <5> QED
          BY <5>2 DEF k
      <4> QED
        BY <4>2, PrecedenceFacts
    <3>2. More({pos}) = {pos}
      BY <3>1, OneMore
    <3> QED
      BY <1>5, <2>1, <3>2, FitIs DEF M
  <2>4. Refers(Top.node, pos', {"rpar"})
    BY <1>1, <1>6, <2>1 DEF Ahead, In
  <2>5. Symbol(Top) \in {"expr", "chain"}
    BY <1>2 DEF s
  <2> QED
    BY <1>1, <1>6, <2>2, <2>3, <2>4, <2>5, AcceptsReturn DEF Clean, Skip, s
<1>7. CASE /\ In("Binary") /\ Precedence(Kind(pos)) >= Top.prec /\ Skip(pos + 1)
           /\ Call(Frame("Rhs", Top.node, pos, Top.prec), Calls("Primary", pos + 1))
  <2> DEFINE f == Frame("Rhs", Top.node, pos, Top.prec)
             g == Calls("Primary", pos + 1)
             P == ends[<<"primary", pos + 1>>]
  <2>1. Kind(pos) \in Operator
    <3> DEFINE k == Precedence(Kind(pos))
    <3>1. k \in -1..20 /\ k >= Top.prec
      BY <1>7, PrecedenceFacts
    <3> HIDE DEF k
    <3>2. k >= 0
      BY <1>1, <3>1
    <3> QED
      BY <3>2, PrecedenceFacts DEF k
  <2>2. pos + 1 \in Places /\ Kind(pos) \notin {"rpar", "eof"}
    <3>1. Kind(pos) \notin {"rpar", "eof"}
      BY <2>1 DEF Operator
    <3> QED
      BY <1>1, <3>1, AheadNow
  <2>3. f.at = "Rhs" /\ f.node = Top.node /\ f.prec = Top.prec
    BY CallsAre
  <2>4. Symbol(g) = "primary" /\ Goal(g) = Before(P, Beside) /\ Ahead(g, Nothing, pos')
    BY <2>2, Calling, FitIs
  <2>5. M = Before(More(P), Behind)
    <3>1. ends[<<"chain", pos + 1>>] = More(P)
      BY <2>2, ExprEnds DEF More
    <3> QED
      BY <2>1, <3>1, OneMore DEF M
  <2>6. Before(More(Before(P, Beside)), Behind) = Before(More(P), Behind)
    BY FirstNarrowed
  <2> HIDE DEF f, g, P
  <2>7. Symbol(f) = s
    BY <1>2, <2>3
  <2>8. Goal(f) = Goal(Top)
    BY <1>1, <2>3, <2>7, SameGoal DEF Labels, s
  <2>9. Goal(f) = Fit(s, Rest(f, Goal(g)))
    BY <1>2, <1>3, <1>5, <2>3, <2>4, <2>5, <2>6, <2>8
  <2>10. Mark(f)
    <3>1. Refers(Top.node, pos, {"rpar"})
      BY <1>1, <1>7 DEF Ahead, In
    <3>2. Before({pos}, {"rpar"}) = {}
      BY <2>2, BeforeOne
    <3>3. Before(ends[<<"target", Top.node.first>>], {"rpar"}) = {}
      BY <3>1, <3>2 DEF Refers
    <3> QED
      BY <2>3, <3>3 DEF Mark
  <2>11. Continues(f, g)
    BY <2>3, <2>4, <2>7, <2>9, <2>10 DEF Continues, Part
  <2> QED
    BY <1>1, <1>7, <2>3, <2>4, <2>7, <2>11, AcceptsCall DEF Clean, Skip, f, g, s
<1>8. CASE /\ Got("Rhs") /\ Skip(pos)
           /\ Call(Frame("Tighter", Top.node, Top.op, Top.prec),
                   Frame("Binary", ret.node, 0, LevelAbove(Precedence(Kind(Top.op)))))
  <2> DEFINE f == Frame("Tighter", Top.node, Top.op, Top.prec)
             g == Frame("Binary", ret.node, 0, LevelAbove(Precedence(Kind(Top.op))))
             P == ends[<<"primary", ret.node.first>>]
  <2>1. Top.at = "Rhs" /\ ret.is = "node" /\ pos' = pos
    BY <1>8, Stands DEF Got, Skip
  <2>2. LevelAbove(Precedence(Kind(Top.op))) # 0
    <3> DEFINE k == Precedence(Kind(Top.op))
    <3>1. Kind(Top.op) \in Operator
      BY <1>1, <2>1, TextNow DEF Extends, Begun
    <3>2. k \in -1..20 /\ k >= 0
      BY <3>1, PrecedenceFacts
    <3> HIDE DEF k
    <3>3. k + 1 # 0
      BY <3>2
    <3> QED
      BY <3>3 DEF k, LevelAbove
  <2>3. f.at = "Tighter" /\ f.node = Top.node /\ f.prec = Top.prec
    BY CallsAre
  <2>4. g.at = "Binary" /\ g.node = ret.node /\ g.prec # 0
    BY <2>2, CallsAre
  <2> HIDE DEF f, g
  <2>5. Symbol(f) = s /\ Symbol(g) = "chain"
    BY <1>2, <2>3, <2>4, SymbolIs
  <2>6. Goal(g) = M
    <3>1. Goal(g) = Fit("chain", ends[<<"chain", ret.node.first>>])
      BY <2>4, <2>5 DEF Goal, Start
    <3>2. ends[<<"chain", ret.node.first>>] = More(P)
      BY <1>1, <2>1, ExprEnds DEF More
    <3>3. Before(P, Beside) = Before({pos}, Beside)
      BY <1>1, <2>1, FitIs DEF Ahead
    <3> HIDE DEF P
    <3>4. Before(More(P), Behind) = Before(More(Before({pos}, Beside)), Behind)
      BY <3>3, FirstNarrowed
    <3> QED
      BY <1>4, <3>1, <3>2, <3>4, FitIs
  <2>7. Goal(f) = Goal(Top)
    BY <1>1, <2>3, <2>5, SameGoal DEF Labels, s
  <2>8. Goal(f) = Fit(Symbol(f), Rest(f, Goal(g)))
    <3>1. Before(M, Behind) = M
      BY <1>2 DEF M
    <3> QED
      BY <1>2, <1>3, <1>5, <2>3, <2>5, <2>6, <2>7, <3>1
  <2>9. Continues(f, g)
    BY <1>1, <2>1, <2>3, <2>5, <2>8 DEF Continues, Part, Mark
  <2>10. Ahead(g, Nothing, pos')
    <3>1. Refers(g.node, pos', {"rpar"})
      BY <1>1, <2>1, <2>4, RefersLess DEF Ahead, Beside, Behind
    <3>2. Goal(g) = Fit(Symbol(g), Rest(g, {pos'}))
      BY <1>3, <2>1, <2>4, <2>5, <2>6, FitIs DEF M
    <3> QED
      BY <2>4, <3>1, <3>2, NothingFacts DEF Ahead, Mark
  <2> QED
    BY <1>1, <1>8, <2>3, <2>5, <2>9, <2>10, AcceptsCall DEF Clean, Skip, f, g, s
<1>9. CASE /\ Got("Rhs") \/ Got("Tighter")
           /\ Become(Frame("Binary", Combined(Top.node, Top.op, ret.node), 0, Top.prec)) /\ Skip(pos)
  <2> DEFINE f == Frame("Binary", Combined(Top.node, Top.op, ret.node), 0, Top.prec)
  <2>1. Top.at \in {"Rhs", "Tighter"} /\ ret.is = "node" /\ pos' = pos
    BY <1>9, Stands DEF Got, Skip
  <2>2. f.at = "Binary" /\ f.node.first = Top.node.first /\ ~ f.node.ref /\ f.prec = Top.prec
    BY CallsAre DEF Combined, Keeps, Node
  <2> HIDE DEF f
  <2>3. Symbol(f) = s
    BY <1>2, <2>2
  <2>4. Goal(f) = Goal(Top)
    BY <1>1, <2>2, <2>3, SameGoal DEF Labels, s
  <2>5. Refers(f.node, pos', {"rpar"})
    BY <1>1, <2>1, <2>2 DEF Refers, Mark
  <2>6. Goal(f) = Fit(Symbol(f), Rest(f, {pos'}))
    BY <1>2, <1>3, <1>5, <2>1, <2>2, <2>3, <2>4 DEF M
  <2>7. Ahead(f, Nothing, pos')
    BY <2>2, <2>5, <2>6, NothingFacts DEF Ahead, Mark
  <2> QED
    BY <1>1, <1>9, <2>2, <2>3, <2>7, AcceptsBecome DEF Clean, Skip, f, s
<1> QED
  BY <1>1, <1>6, <1>7, <1>8, <1>9 DEF Binary, GotNull

LEMMA PrimaryAccepts == ASSUME Onward, Primary PROVE Accepting'
<1> USE DEF Onward
<1> DEFINE P == ends[<<"primary", pos>>]
           T == ends[<<"target", pos>>]
<1>1. /\ stack # <<>> /\ Top.at = "Primary" /\ UNCHANGED tokens /\ pos \in Places /\ pos \in Nat \ {0}
      /\ Top.node.first = pos /\ Top.at # "Program" /\ pos + 1 + 1 = pos + 2
  BY AheadNow, PlaceFacts DEF Primary, In, Tree, Innermost
<1>2. Symbol(Top) = "primary"
  BY <1>1, SymbolIs DEF Primaries
<1>3. Goal(Top) = Before(P, Beside)
  <2>1. Goal(Top) = Fit("primary", P)
    BY <1>1, <1>2 DEF Goal, Start
  <2> QED
    BY <2>1, FitIs
<1>4. P = {} => Goal(Top) = {}
  BY <1>3, Nones
<1>5. \A p \in Places : Kind(p) # "eof" => p + 1 \in Places
  BY <1>1, AheadNow
<1>6. \A S : Fit("primary", S) = Before(S, Beside)
  BY FitIs
<1>7. "identifier" \notin Atoms /\ "lpar" \notin Atoms /\ "eof" \notin Atoms /\ "print" \notin Atoms
  BY DEF Atoms
<1>8. /\ Kind(pos) \in Atoms => P = {pos + 1}
      /\ Kind(pos) = "lpar" => P = Eat(ends[<<"expr", pos + 1>>], {"rpar"})
      /\ Kind(pos) = "identifier" =>
           P = {pos + 1} \cup IF Kind(pos + 1) = "lpar"
                                THEN Eat({pos + 2} \cup ends[<<"args", pos + 2>>], {"rpar"}) ELSE {}
      /\ Kind(pos) = "print" =>
           P = IF Kind(pos + 1) = "lpar" THEN Eat(ends[<<"args", pos + 2>>], {"rpar"}) ELSE {}
      /\ Kind(pos) \notin Atoms \cup {"lpar", "identifier", "print"} => P = {}
  BY <1>1, PrimaryEnds, Zenon
<1>9. /\ Kind(pos) = "identifier" => T = {pos + 1}
      /\ Kind(pos) \notin {"lpar", "identifier"} => T = {}
  BY <1>1, TargetEnds
<1> HIDE DEF P, T
<1>10. ASSUME NEW node, node.first = pos, Return(node), Skip(pos + 1), Kind(pos) # "eof",
              P = {pos + 1},
              T = IF node.ref THEN {pos + 1} ELSE {}
       PROVE  Accepting'
  <2>1. pos' = pos + 1
    BY <1>1, <1>10, Consumed DEF Skip
  <2>2. Goal(Top) = Fit("primary", {pos'})
    BY <1>3, <1>6, <1>10, <2>1
  <2>3. Refers(node, pos', Beside)
    <3>1. Before({}, Beside) = {}
      BY Nones
    <3>2. Before(T, Beside) = IF node.ref THEN Before({pos'}, Beside) ELSE {}
      BY <1>10, <2>1, <3>1
    <3> QED
      BY <1>10, <3>2 DEF Refers, T
  <2> QED
    BY <1>1, <1>2, <1>10, <2>2, <2>3, AcceptsReturn DEF Clean, Skip
<1>11. ASSUME NEW p, NEW q, Error(p, q), P = {} PROVE Accepting'
  BY <1>1, <1>4, <1>11, FailsRightly
<1>12. CASE Kind(pos) \in Atoms
  <2>1. Token.first = pos /\ ~ Token.ref
    BY DEF Token, Node
  <2>2. P = {pos + 1} /\ T = {} /\ Kind(pos) # "eof"
    BY <1>7, <1>8, <1>9, <1>12
  <2>3. Return(Token) /\ Skip(pos + 1)
    BY <1>7, <1>12 DEF Primary
  <2> QED
    BY <1>10, <2>1, <2>2, <2>3
<1>13. CASE Kind(pos) = "lpar"
  <2> DEFINE f == Calls("Paren", pos)
             X == ends[<<"expr", pos + 1>>]
  <2>1. Call(f, Calls("Expr", pos + 1)) /\ Skip(pos + 1)
    BY <1>7, <1>13 DEF Primary
  <2>2. f.at = "Paren" /\ f.node.first = pos
    BY CallsAre
  <2>3. pos + 1 \in Places
    BY <1>1, <1>5, <1>13
  <2>4. P = Eat(X, {"rpar"})
    BY <1>8, <1>13
  <2> HIDE DEF f, X
  <2>5. Rest(f, X) = Eat(X, {"rpar"}) /\ Symbol(f) = "primary" /\ f.at \in ForExpr
    BY <2>2, SymbolIs DEF Rest, Primaries, ForExpr
  <2>6. Mark(f)
    BY <1>13, <2>2 DEF Mark
  <2>7. Goal(Top) = Fit("primary", Rest(f, X))
    BY <1>3, <1>6, <2>4, <2>5
  <2> QED
    BY <1>1, <1>2, <2>1, <2>2, <2>3, <2>5, <2>6, <2>7, AsksExpr DEF Clean, Skip, f, X
<1>14. ASSUME Kind(pos) \in {"identifier", "print"}, Kind(pos + 1) = "lpar",
              Become(Frame("Args", Token, pos, 0)), Skip(pos + 2)
       PROVE  Accepting'
  <2> DEFINE f == Frame("Args", Token, pos, 0)
             A == ends[<<"args", pos + 2>>]
             none == IF Kind(pos) = "print" THEN {} ELSE {pos + 2}
  <2>1. pos' = pos + 2
    <3>1. pos + 1 \in Nat \ {0} /\ Kind(pos + 1) # "eof"
      BY <1>1, <1>14
    <3> QED
      BY <1>1, <1>14, <3>1, Consumed DEF Skip
  <2>2. f.at = "Args" /\ f.node.first = pos /\ ~ f.node.ref /\ f.op = pos /\ f.prec = 0
    BY CallsAre DEF Token, Node
  <2> HIDE DEF f
  <2>3. Symbol(f) = "primary" /\ Goal(f) = Goal(Top)
    <3>1. Symbol(f) = "primary"
      BY <2>2, SymbolIs DEF Primaries
    <3> QED
      BY <1>1, <1>2, <2>2, <3>1, SameGoal DEF Labels
  <2>4. Before({pos + 1}, Beside) = {}
    <3>1. "lpar" \notin Beside
      BY DEF Beside, Behind, Operator
    <3> QED
      BY <1>14, <3>1, BeforeOne
  <2>5. Mark(f)
    <3>1. Before(T, Beside) = {}
      BY <1>9, <1>14, <2>4, Nones
    <3> QED
      BY <2>2, <3>1 DEF Mark, T
  <2>6. Goal(Top) = Fit("primary", Eat(none \cup A, {"rpar"}))
    <3>1. CASE Kind(pos) = "identifier"
      <4> DEFINE E == Eat({pos + 2} \cup A, {"rpar"})
      <4>1. P = {pos + 1} \cup E
        BY <1>8, <1>14, <3>1
      <4> HIDE DEF E
      <4>2. Before({pos + 1} \cup E, Beside) = Before({pos + 1}, Beside) \cup Before(E, Beside)
        BY BeforeBoth
      <4>3. Goal(Top) = Before(E, Beside)
        BY <1>3, <2>4, <4>1, <4>2
      <4> QED
        BY <1>6, <3>1, <4>3 DEF E
    <3>2. CASE Kind(pos) = "print"
      <4>1. P = Eat(A, {"rpar"}) /\ none \cup A = A
        BY <1>8, <1>14, <3>2
      <4> QED
        BY <1>3, <1>6, <4>1
    <3> QED
      BY <1>14, <3>1, <3>2
  <2>7. Ahead(f, Nothing, pos')
    BY <2>1, <2>2, <2>3, <2>5, <2>6, NothingFacts DEF Ahead
  <2> QED
    BY <1>1, <1>2, <1>14, <2>2, <2>3, <2>7, AcceptsBecome DEF Clean, Skip, f
<1>15. CASE Kind(pos) = "identifier"
  <2>1. CASE Kind(pos + 1) = "lpar"
    BY <1>7, <1>14, <1>15, <2>1 DEF Primary
  <2>2. CASE Kind(pos + 1) # "lpar"
    <3> DEFINE node == Node(pos, TRUE, {pos})
    <3>1. Return(node) /\ Skip(pos + 1)
      BY <1>7, <1>15, <2>2 DEF Primary
    <3>2. node.first = pos /\ node.ref
      BY DEF Node
    <3>3. P = {pos + 1} /\ T = {pos + 1}
      BY <1>8, <1>9, <1>15, <2>2
    <3> HIDE DEF node
    <3> QED
      BY <1>10, <1>15, <3>1, <3>2, <3>3
  <2> QED
    BY <2>1, <2>2
<1>16. CASE Kind(pos) = "print"
  BY <1>7, <1>8, <1>11, <1>14, <1>16 DEF Primary
<1>17. CASE Kind(pos) \notin Atoms \cup {"lpar", "identifier", "print"}
  BY <1>8, <1>11, <1>17 DEF Primary
<1> QED
  BY <1>12, <1>13, <1>15, <1>16, <1>17

LEMMA ParenAccepts == ASSUME Onward, Paren PROVE Accepting'
<1> USE DEF Onward
<1> DEFINE i == Top.node.first
           r == ret.node
           node == [r EXCEPT !.first = i]
<1>1. /\ stack # <<>> /\ Top.at = "Paren" /\ UNCHANGED tokens /\ ret.is = "node"
      /\ pos \in Places /\ pos \in Nat \ {0} /\ Top.at # "Program" /\ i \in Places
      /\ r.first = i + 1 /\ i + 1 \in Places /\ Kind(i) = "lpar"
  BY AheadNow, PlaceFacts DEF Paren, Got, GotNull, Tree, Innermost, Follows, Mark
<1>2. Symbol(Top) = "primary"
  BY <1>1, SymbolIs DEF Primaries
<1>3. Goal(Top) = Fit("primary", Eat({pos}, {"rpar"})) /\ Refers(r, pos, {"rpar"})
  <2>1. Rest(Top, {pos}) = Eat({pos}, {"rpar"})
    BY <1>1 DEF Rest
  <2> QED
    BY <1>1, <1>2, <2>1, ExprCame DEF ForExpr
<1>4. CASE Kind(pos) = "rpar" /\ Return(node) /\ Skip(pos + 1)
  <2>1. pos' = pos + 1
    BY <1>1, <1>4, Consumed DEF Skip
  <2>2. Goal(Top) = Fit("primary", {pos'})
    BY <1>3, <1>4, <2>1, EatOne
  <2>3. node.first = i /\ node.ref = r.ref
    BY PlaceFacts DEF Nodes
  <2> HIDE DEF node
  <2>4. Refers(node, pos', Beside)
    <3> DEFINE T == ends[<<"target", i>>]
               U == ends[<<"target", i + 1>>]
    <3>1. T = Eat(U, {"rpar"})
      BY <1>1, TargetEnds
    <3>2. Before(U, {"rpar"}) = IF r.ref THEN {pos} ELSE {}
      <4>1. Before({pos}, {"rpar"}) = {pos}
        BY <1>4, BeforeOne
      <4> QED
        BY <1>1, <1>3, <4>1 DEF Refers
    <3>3. Eat(Before(U, {"rpar"}), {"rpar"}) = Eat(U, {"rpar"})
      BY Narrowed
    <3> HIDE DEF T, U
    <3>4. T = IF r.ref THEN {pos'} ELSE {}
      <4>1. Eat({pos}, {"rpar"}) = {pos'} /\ Eat({}, {"rpar"}) = {}
        BY <1>4, <2>1, EatOne, Nones
      <4> QED
        BY <3>1, <3>2, <3>3, <4>1
    <3>5. Before({}, Beside) = {}
      BY Nones
    <3>6. Before(T, Beside) = IF node.ref THEN Before({pos'}, Beside) ELSE {}
      BY <2>3, <3>4, <3>5
    <3> QED
      BY <2>3, <3>6 DEF Refers, T
  <2> QED
    BY <1>1, <1>2, <1>4, <2>2, <2>3, <2>4, AcceptsReturn DEF Clean, Skip
<1>5. CASE Kind(pos) # "rpar" /\ Error(pos, pos)
  <2>1. Goal(Top) = {}
    <3>1. Eat({pos}, {"rpar"}) = {}
      BY <1>5, EatOne
    <3> QED
      BY <1>3, <3>1, FitIs, Nones
  <2> QED
    BY <1>1, <1>5, <2>1, FailsRightly
<1> QED
  BY <1>1, <1>4, <1>5 DEF Paren, GotNull

LEMMA ArgsAccepts == ASSUME Onward, Args PROVE Accepting'
<1> USE DEF Onward
<1> DEFINE R(S) == Eat(S \cup Eat(S, {"comma"}) \cup Then(Eat(S, {"comma"}), "args"), {"rpar"})
<1>1. /\ stack # <<>> /\ Top.at = "Args" /\ UNCHANGED tokens /\ ret.is # "null"
      /\ pos \in Places /\ pos \in Nat \ {0} /\ Top.at # "Program" /\ Ahead(Top, ret, pos)
      /\ Mark(Top) /\ Top \in Frames /\ Top.prec \in Nat
  BY AheadNow, PlaceFacts DEF Args, In, Got, GotNull, Tree
<1>2. Symbol(Top) = "primary"
  BY <1>1, SymbolIs DEF Primaries
<1>3. \A f, S : f.at = "Args" => Rest(f, S) = R(S)
  BY DEF Rest
<1>4. CASE In("Args") /\ Kind(pos) \notin {"rpar", "eof"} /\ Call(Top, Calls("Expr", pos)) /\ Skip(pos)
  <2> DEFINE none == IF Kind(Top.op) = "print" /\ Top.prec = 0 THEN {} ELSE {pos}
             A == ends[<<"args", pos>>]
             X == ends[<<"expr", pos>>]
  <2>1. Goal(Top) = Fit("primary", Eat(none \cup A, {"rpar"}))
    BY <1>1, <1>4 DEF Ahead, In
  <2>2. Eat(none, {"rpar"}) = {}
    <3>1. Eat({pos}, {"rpar"}) = {} /\ Eat({}, {"rpar"}) = {}
      BY <1>4, EatOne, Nones
    <3> QED
      BY <3>1
  <2>3. A = X \cup Eat(X, {"comma"}) \cup Then(Eat(X, {"comma"}), "args")
    BY <1>1, ExprEnds
  <2>4. R(X) = Eat(A, {"rpar"})
    BY <2>3
  <2> HIDE DEF none, A, X, R
  <2>5. Eat(none \cup A, {"rpar"}) = Eat(none, {"rpar"}) \cup Eat(A, {"rpar"})
    BY EatBoth
  <2>6. Goal(Top) = Fit("primary", Rest(Top, X))
    BY <1>1, <1>3, <2>1, <2>2, <2>4, <2>5
  <2> QED
    BY <1>1, <1>2, <1>4, <2>6, AsksExpr DEF Clean, Skip, ForExpr, X
<1>5. ASSUME Got("Args") PROVE Goal(Top) = Fit("primary", R({pos}))
  BY <1>1, <1>2, <1>3, <1>5, ExprCame DEF ForExpr, Got
<1>6. CASE /\ Got("Args") /\ Kind(pos) \in {"comma", "rpar"} /\ Skip(PastComma(pos))
           /\ Become(Frame("Args", Keeps(Top.node, ret.node.keeps), Top.op, Top.prec + 1))
  <2> DEFINE f == Frame("Args", Keeps(Top.node, ret.node.keeps), Top.op, Top.prec + 1)
             A == ends[<<"args", pos'>>]
  <2>1. pos' = IF Kind(pos) = "comma" THEN pos + 1 ELSE pos
    <3>1. CASE Kind(pos) = "comma"
      <4>1. PastComma(pos) = pos + 1
        BY <3>1 DEF PastComma
      <4> QED
        BY <1>1, <1>6, <3>1, <4>1, Consumed DEF Skip
    <3>2. CASE Kind(pos) # "comma"
      <4>1. PastComma(pos) = pos
        BY <3>2 DEF PastComma
      <4> QED
        BY <1>6, <3>2, <4>1, Stands DEF Skip
    <3> QED
      BY <3>1, <3>2
  <2>2. /\ f.at = "Args" /\ f.node.first = Top.node.first /\ ~ f.node.ref /\ f.op = Top.op
        /\ f.prec # 0
    <3>1. Top.prec + 1 # 0
      BY <1>1
    <3> QED
      BY <3>1, CallsAre DEF Keeps, Node
  <2> HIDE DEF f
  <2>3. R({pos}) = Eat({pos'} \cup A, {"rpar"})
    <3>1. CASE Kind(pos) = "comma"
      <4>1. Eat({pos}, {"comma"}) = {pos'} /\ Eat({pos}, {"rpar"}) = {}
        BY <2>1, <3>1, EatOne
      <4>2. Then({pos'}, "args") = A
        BY ThenOne
      <4>3. R({pos}) = Eat({pos} \cup {pos'} \cup A, {"rpar"})
        BY <4>1, <4>2
      <4> DEFINE V == {pos'} \cup A
      <4>4. {pos} \cup {pos'} \cup A = {pos} \cup V
        OBVIOUS
      <4> HIDE DEF V
      <4>5. Eat({pos} \cup V, {"rpar"}) = Eat({pos}, {"rpar"}) \cup Eat(V, {"rpar"})
        BY EatBoth
      <4> HIDE DEF R, A
      <4> QED
        BY <4>1, <4>3, <4>4, <4>5 DEF V
    <3>2. CASE Kind(pos) = "rpar"
      <4>1. Eat({pos}, {"comma"}) = {}
        BY <3>2, EatOne
      <4>2. Then({}, "args") = {}
        BY Nones
      <4>3. A = {}
        BY <1>1, <2>1, <3>2, NoExpr DEF Atoms
      <4>4. R({pos}) = Eat({pos} \cup {} \cup {}, {"rpar"})
        BY <4>1, <4>2
      <4>5. {pos} \cup {} \cup {} = {pos'} \cup A
        BY <2>1, <3>2, <4>3
      <4> HIDE DEF R, A
      <4> QED
        BY <4>4, <4>5
    <3> QED
      BY <1>6, <3>1, <3>2
  <2>4. Symbol(f) = "primary" /\ Goal(f) = Goal(Top)
    <3>1. Symbol(f) = "primary"
      BY <2>2, SymbolIs DEF Primaries
    <3> QED
      BY <1>1, <1>2, <2>2, <3>1, SameGoal DEF Labels
  <2>5. Mark(f)
    BY <1>1, <2>2 DEF Mark
  <2> HIDE DEF R
  <2>6. Goal(f) = Fit("primary", Eat({pos'} \cup A, {"rpar"}))
    BY <1>5, <1>6, <2>3, <2>4
  <2>7. Ahead(f, Nothing, pos')
    BY <2>2, <2>5, <2>6, NothingFacts DEF Ahead
  <2> QED
    BY <1>1, <1>2, <1>6, <2>2, <2>4, <2>7, AcceptsBecome DEF Clean, Skip, f
<1>7. CASE Got("Args") /\ Kind(pos) \notin {"comma", "rpar"} /\ Error(pos, pos + 1)
  <2>1. Eat({pos}, {"comma"}) = {} /\ Eat({pos}, {"rpar"}) = {} /\ Then({}, "args") = {}
    BY <1>7, EatOne, Nones
  <2>2. R({pos}) = Eat({pos} \cup {} \cup {}, {"rpar"})
    BY <2>1
  <2>3. {pos} \cup {} \cup {} = {pos}
    OBVIOUS
  <2>4. R({pos}) = {}
    <3> HIDE DEF R
    <3> QED
      BY <2>1, <2>2, <2>3
  <2> HIDE DEF R
  <2>5. Goal(Top) = {}
    BY <1>5, <1>7, <2>4, FitIs, Nones
  <2> QED
    BY <1>1, <1>7, <2>5, FailsRightly
<1> HIDE DEF R
<1> QED
  BY <1>1, <1>4, <1>6, <1>7 DEF Args, GotNull

LEMMA ArgumentsAccepts == ASSUME Onward, Arguments PROVE Accepting'
<1> USE DEF Onward
<1> DEFINE none == Kind(Top.op) = "print" /\ Top.prec = 0
<1>1. /\ stack # <<>> /\ Top.at = "Args" /\ UNCHANGED tokens /\ ret.is = "none"
      /\ pos \in Places /\ pos \in Nat \ {0} /\ Top.at # "Program" /\ Ahead(Top, ret, pos)
      /\ Mark(Top) /\ Kind(pos) \in {"rpar", "eof"} /\ To(pos + 1)
      /\ IF none THEN Null ELSE Return(Top.node)
      /\ diagnostics' = IF none \/ Kind(pos) = "eof" THEN diagnostics \cup {Top.op} ELSE diagnostics
  BY AheadNow, PlaceFacts DEF Arguments, In, Tree
<1>2. Symbol(Top) = "primary"
  BY <1>1, SymbolIs DEF Primaries
<1>3. Goal(Top) = Fit("primary", IF none THEN {} ELSE Eat({pos}, {"rpar"}))
  <2> DEFINE E == IF none THEN {} ELSE {pos}
             A == ends[<<"args", pos>>]
  <2>1. Goal(Top) = Fit("primary", Eat(E \cup A, {"rpar"}))
    BY <1>1 DEF Ahead
  <2>2. A = {}
    BY <1>1, NoExpr DEF Atoms
  <2>3. Eat({}, {"rpar"}) = {}
    BY Nones
  <2> HIDE DEF A
  <2>4. E \cup A = E
    BY <2>2
  <2> QED
    BY <2>1, <2>3, <2>4
<1> HIDE DEF none
<1>4. CASE none \/ Kind(pos) = "eof"
  <2>1. Goal(Top) = {}
    <3>1. Kind(pos) = "eof" => Eat({pos}, {"rpar"}) = {}
      BY EatOne
    <3>2. Fit("primary", {}) = {}
      BY FitIs, Nones
    <3> QED
      BY <1>3, <1>4, <3>1, <3>2
  <2>2. ~ Accepted
    BY <1>1, <2>1, NoGoal
  <2>3. diagnostics' # {}
    BY <1>1, <1>4
  <2>4. ~ Accepted'
    BY <1>1, <2>2, GrammarStays
  <2> QED
    BY <2>3, <2>4 DEF Accepting
<1>5. CASE ~ none /\ Kind(pos) # "eof"
  <2>1. pos' = pos + 1 /\ Kind(pos) = "rpar" /\ diagnostics' = {} /\ Return(Top.node)
    BY <1>1, <1>5, Consumed
  <2>2. Goal(Top) = Fit("primary", {pos'})
    BY <1>3, <1>5, <2>1, EatOne
  <2>3. Refers(Top.node, pos', Beside)
    BY <1>1 DEF Mark, Refers
  <2> QED
    BY <1>1, <1>2, <2>1, <2>2, <2>3, AcceptsReturn DEF Clean
<1> QED
  BY <1>4, <1>5

-----------------------------------------------------------------------------
LEMMA InitAccepting == ASSUME Init PROVE Accepting
<1> DEFINE f == Plain("Program", Nothing.node)
           G == ends[<<"program", 1>>]
<1>1. f.at = "Program"
  BY CallsAre
<1>2. stack = <<f>> /\ ret = Nothing /\ pos = 1 /\ diagnostics = {}
  BY DEF Init
<1> HIDE DEF f
<1>3. Linked(stack, Continuing) /\ stack # <<>> /\ Top = f
  BY <1>2 DEF Linked, Top, Last
<1>4. Symbol(f) = "program" /\ Start(f) = 1
  BY <1>1, SymbolIs DEF Start
<1>5. Rest(f, {1}) = G
  <2>1. Rest(f, {1}) = Then({1}, "program")
    BY <1>1 DEF Rest
  <2> QED
    BY <2>1, ThenOne
<1>6. Goal(f) = Fit(Symbol(f), Rest(f, {1}))
  BY <1>4, <1>5 DEF Goal
<1>7. ret.is = "none"
  BY <1>2 DEF Nothing, Returned
<1>8. Ahead(f, ret, 1)
  BY <1>1, <1>6, <1>7 DEF Ahead, Mark
<1> QED
  BY <1>2, <1>3, <1>8 DEF Accepting

LEMMA StepAccepting ==
  ASSUME Shape, Shape', Keeping, Keeping', Text, Accepting, [Next]_vars
  PROVE  Accepting'
<1>1. CASE UNCHANGED vars
  <2>1. /\ Continuing' = Continuing /\ (Accepted' <=> Accepted)
    BY <1>1, GrammarStays DEF vars
  <2>2. Linked(stack, Continuing)' <=> Linked(stack, Continuing)
    BY <1>1, <2>1 DEF Linked, vars
  <2>3. Ahead(Top, ret, pos)' <=> Ahead(Top, ret, pos)
    <3>1. Top' = Top /\ ret' = ret /\ pos' = pos
      BY <1>1 DEF vars, Top
    <3>2. \A f, r, p : Ahead(f, r, p)' <=> Ahead(f, r, p)
      BY <1>1, GrammarStays DEF vars
    <3>3. Ahead(Top, ret, pos)' <=> Ahead(Top', ret', pos')
      BY <3>2 DEF Ahead
    <3> QED
      BY <3>1, <3>3
  <2>4. stack' = stack /\ diagnostics' = diagnostics
    BY <1>1 DEF vars
  <2> QED
    BY <2>1, <2>2, <2>3, <2>4 DEF Accepting
<1>2. CASE Next /\ diagnostics # {}
  <2>1. diagnostics' # {}
    BY <1>2, StepReports DEF Reports
  <2>2. Accepted' <=> Accepted
    BY <1>2, StepTree, GrammarStays
  <2> QED
    BY <1>2, <2>1, <2>2 DEF Accepting
<1>3. CASE Next /\ diagnostics = {}
  <2>1. Onward
    BY <1>3 DEF Onward
  <2> QED
    BY <1>3, <2>1, ProgramAccepts, FunctionNameAccepts, ParamsAccepts, BodyAccepts, BlockAccepts,
       StmtAccepts, ReturnStmtAccepts, ExprStmtAccepts, VariableDeclAccepts, ConditionAccepts,
       BranchesAccepts, ExprAccepts, BinaryAccepts, PrimaryAccepts, ParenAccepts, ArgsAccepts,
       ArgumentsAccepts DEF Next
<1> QED
  BY <1>1, <1>2, <1>3

(* For streams of any length, the parser reports an error for what the grammar does not  *)
(* derive and for nothing else: look-ahead by one token, precedence climbing, recovery   *)
(* and the loops over parameters, statements and arguments let through just the language.*)
THEOREM LanguageIsAccepted == Spec => []Language
<1>1. Init => Keeping /\ Text /\ AllWeakest /\ Accepting
  BY InitKeeping, InitText, InitAccepting
<1>2. Shape /\ Keeping /\ [Next]_vars => Keeping'
  BY StepKeeping
<1>3. Shape /\ Shape' /\ Keeping /\ Keeping' /\ Text /\ AllWeakest /\ [Next]_vars
        => Text' /\ AllWeakest'
  BY StepText
<1>4. Shape /\ Shape' /\ Keeping /\ Keeping' /\ Text /\ Accepting /\ [Next]_vars => Accepting'
  BY StepAccepting
<1>5. Accepting => Language
  BY DEF Accepting, Accepted, Language, Finished
<1> QED
  BY <1>1, <1>2, <1>3, <1>4, <1>5, CallsFit, PTL DEF Spec
=============================================================================
