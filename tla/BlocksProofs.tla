---------------------------- MODULE BlocksProofs ----------------------------
(***************************************************************************)
(* Proofs about code generation and main(): the basic blocks of a function *)
(* are well formed, both passes are well typed, and the exit status says   *)
(* what has become of the program.                                         *)
(***************************************************************************)
EXTENDS Driver, FrontendProofs

-----------------------------------------------------------------------------
(* How many blocks are open before and after a statement *)
Before(q) == IF code[q].op \in {"else", "end"} THEN code[q].depth + 1 ELSE code[q].depth

After(q) ==
  IF q = 0 THEN 0
  ELSE IF code[q].op \in {"if", "while", "else"} THEN code[q].depth + 1 ELSE code[q].depth

(* A function begins and ends with no block open. *)
LevelsMeet ==
  /\ Len(nest) = After(Len(code))
  /\ \A q \in 1..Len(code) : Before(q) = After(q - 1)
  /\ \A q \in 1..Len(code) - 1 : After(q) # 0 => code[q + 1].fn = code[q].fn
  /\ nest # <<>> => code[Len(code)].fn = fn

(* A while that has no end yet has no else, and an else no second one. *)
OpenKinds ==
  \A q \in 1..Len(code) :
    code[q].op \in {"while", "else"} /\ (\A s \in q + 1..Len(code) : ~Ends(s, q)) =>
      Len(nest) > code[q].depth /\ nest[code[q].depth + 1] = code[q].op

OneElse ==
  \A q, r \in 1..Len(code) :
    q < r /\ code[q].op \in {"while", "else"} /\ code[r].op = "else"
      /\ code[r].depth = code[q].depth => \E s \in q + 1..r - 1 : Ends(s, q)

Levels == phase # "rejected" => LevelsMeet /\ OpenKinds /\ OneElse

LEMMA LevelsInit == ASSUME Init PROVE Levels
<1>1. code = <<>> /\ Len(code) = 0 /\ nest = <<>>
  BY EmptySeq DEF Init, SemaInit
<1> QED
  BY <1>1 DEF Levels, LevelsMeet, OpenKinds, OneElse, After

LEMMA LevelsStep == ASSUME SemaType, Levels, [Next]_vars PROVE Levels'
<1> SUFFICES ASSUME phase' # "rejected" PROVE Levels'
  BY DEF Levels
<1>1. phase # "rejected"
  <2>1. Step
    BY Steps
  <2> QED
    BY <2>1 DEF Step, PlainStep, VarStep, ConditionStep, ElseStep, EndStep, Appends, InBody,
         ResolveSignature, SignaturesResolved, EnterBody, LeaveBody, Accept, LaterStep
<1>2. LevelsMeet /\ OpenKinds /\ OneElse
  BY <1>1 DEF Levels
<1>3. CASE UNCHANGED <<functions, code, nest>> /\ (fn' = fn \/ nest = <<>>)
  BY <1>2, <1>3 DEF Levels, LevelsMeet, OpenKinds, OneElse, Before, After, Ends
<1>4. ASSUME NEW op, NEW depth, NEW name, NEW spec, StatementStep(op, depth, name, spec)
      PROVE  Levels'
  <2> DEFINE c == Len(code)
             k == Len(nest)
  <2>1. /\ InBody /\ depth \in Nat /\ fn' = fn
        /\ Len(code') = c + 1 /\ \A q \in 1..c : code'[q] = code[q]
        /\ code'[c + 1].op = op /\ code'[c + 1].fn = fn /\ code'[c + 1].depth = depth
    BY <1>4 DEF StatementStep, Appends
  <2>2. /\ c \in Nat /\ k \in Nat /\ (nest = <<>> <=> k = 0) /\ Len(nest') \in Nat
        /\ \A q \in 1..c : code[q].depth \in Nat
    <3>1. c \in Nat /\ k \in Nat /\ (nest = <<>> <=> k = 0)
      BY SeqFacts, LenProperties, EmptySeq DEF SemaType
    <3>2. Len(nest') \in Nat
      BY SemaTypeStep, LenProperties DEF SemaType
    <3> QED
      BY <3>1, <3>2 DEF SemaType, StatementOK
  <2>3. Nesting(op, depth)
    BY <1>4 DEF StatementStep
  <2>4. c = Len(code) /\ k = Len(nest)
    OBVIOUS
  <2> HIDE DEF c, k
  <2>5. \A q \in 1..c + 1 : q \in 1..c \/ q = c + 1
    BY <2>2
  <2>6. \A q \in 0..c : After(q)' = After(q)
    BY <2>1, <2>2 DEF After
  <2>7. \A q : q = c + 1 => After(q)' = Len(nest') /\ Before(q)' = k
    BY <2>1, <2>2, <2>3, <2>4 DEF After, Before, Nesting
  <2>8. LevelsMeet'
    <3>1. k = After(c) /\ c \in 0..c
      BY <1>2, <2>2, <2>4 DEF LevelsMeet
    <3>2. ASSUME NEW q \in 1..c + 1
          PROVE  Before(q)' = After(q - 1)'
      <4>1. CASE q \in 1..c
        <5>1. q - 1 \in 0..c /\ Before(q) = After(q - 1) /\ Before(q)' = Before(q)
          BY <1>2, <2>1, <2>2, <2>4, <4>1 DEF LevelsMeet, Before
        <5>2. \A p : p = q - 1 => After(p)' = After(p)
          BY <2>6, <5>1
        <5> QED
          BY <5>1, <5>2
      <4>2. CASE q = c + 1
        <5>1. q - 1 = c /\ After(c) = k
          BY <2>2, <3>1, <4>2
        <5>2. \A p : p = c => After(p)' = After(p)
          BY <2>6, <3>1
        <5>3. Before(q)' = k
          BY <2>7, <4>2
        <5> QED
          BY <5>1, <5>2, <5>3
      <4> QED
        BY <2>5, <4>1, <4>2
    <3>3. ASSUME NEW q \in 1..c, After(q)' # 0
          PROVE  code'[q + 1].fn = code'[q].fn
      <4>1. After(q) # 0
        BY <2>6, <3>3
      <4>2. CASE q \in 1..c - 1
        <5>1. q + 1 \in 1..c
          BY <2>2, <4>2
        <5> QED
          BY <1>2, <2>1, <2>4, <4>1, <4>2, <5>1 DEF LevelsMeet
      <4>3. CASE q = c
        <5>1. nest # <<>>
          BY <2>2, <3>1, <4>1, <4>3
        <5>2. code[q].fn = fn /\ code'[q] = code[q]
          BY <1>2, <2>1, <2>4, <4>3, <5>1 DEF LevelsMeet
        <5> QED
          BY <2>1, <4>3, <5>2
      <4> QED
        BY <2>2, <4>2, <4>3
    <3>4. ASSUME NEW z, z = c + 1
          PROVE  Len(nest') = After(z)' /\ code'[z].fn = fn
      BY <2>1, <2>7, <3>4
    <3>5. Len(code') - 1 = c
      BY <2>1, <2>2
    <3> QED
      BY <2>1, <3>2, <3>3, <3>4, <3>5 DEF LevelsMeet
  \* what is open now was open before, and its entry is still there
  <2>9. ASSUME NEW q \in 1..c, code[q].op \in {"while", "else"}, \A s \in q + 1..c : ~Ends(s, q)'
         PROVE  k > code[q].depth /\ nest[code[q].depth + 1] = code[q].op
    <3>1. \A s \in q + 1..c : s \in 1..c
      BY <2>2
    <3>2. \A s \in q + 1..c : ~Ends(s, q)
      BY <2>1, <2>9, <3>1 DEF Ends
    <3> QED
      BY <1>2, <2>4, <2>9, <3>2 DEF OpenKinds
  <2>10. OneElse'
    <3>1. ASSUME NEW q \in 1..c + 1, NEW r \in 1..c + 1, q < r,
                 code'[q].op \in {"while", "else"}, code'[r].op = "else",
                 code'[r].depth = code'[q].depth, \A s \in q + 1..r - 1 : ~Ends(s, q)'
          PROVE  FALSE
      <4>1. q \in 1..c /\ code'[q] = code[q]
        BY <2>1, <2>2, <3>1
      <4>2. CASE r \in 1..c
        <5>1. \A s \in q + 1..r - 1 : s \in 1..c
          BY <2>2, <4>1, <4>2
        <5>2. \A s \in q + 1..r - 1 : ~Ends(s, q)
          BY <2>1, <3>1, <4>1, <5>1 DEF Ends
        <5> QED
          BY <1>2, <2>1, <2>4, <3>1, <4>1, <4>2, <5>2 DEF OneElse
      <4>3. CASE r = c + 1
        <5>1. q + 1..r - 1 = q + 1..c
          BY <2>2, <4>3
        <5>2. nest[code[q].depth + 1] = code[q].op
          BY <2>9, <3>1, <4>1, <5>1
        <5>3. nest[depth + 1] = "if" /\ depth = code[q].depth
          BY <2>1, <2>3, <3>1, <4>1, <4>3 DEF Nesting
        <5> QED
          BY <3>1, <4>1, <5>2, <5>3
      <4> QED
        BY <2>5, <4>2, <4>3
    <3> QED
      BY <2>1, <3>1 DEF OneElse
  <2>11. OpenKinds'
    <3>1. ASSUME NEW q \in 1..c + 1, code'[q].op \in {"while", "else"},
                 \A s \in q + 1..c + 1 : ~Ends(s, q)'
          PROVE  Len(nest') > code'[q].depth /\ nest'[code'[q].depth + 1] = code'[q].op
      <4>1. CASE q = c + 1
        BY <2>1, <2>3, <3>1, <4>1 DEF Nesting
      <4>2. CASE q \in 1..c
        <5>1. /\ \A s \in q + 1..c : s \in q + 1..c + 1
              /\ c + 1 \in q + 1..c + 1 /\ code'[q] = code[q] /\ code[q].depth \in Nat
          BY <2>1, <2>2, <4>2
        <5>2. k > code[q].depth /\ nest[code[q].depth + 1] = code[q].op
          BY <2>9, <3>1, <4>2, <5>1
        <5>3. \A s : s = c + 1 => ~Ends(s, q)'
          BY <3>1, <5>1
        <5>4. op = "end" => depth # code[q].depth
          BY <2>1, <5>1, <5>3 DEF Ends
        <5>5. op = "else" => depth # code[q].depth
          BY <2>3, <3>1, <5>1, <5>2 DEF Nesting
        <5>6. Len(nest') > code[q].depth /\ code[q].depth + 1 \in 1..depth
          BY <2>1, <2>2, <2>3, <2>4, <5>1, <5>2, <5>4, <5>5 DEF Nesting
        <5>7. nest'[code[q].depth + 1] = nest[code[q].depth + 1]
          BY <2>3, <5>6 DEF Nesting
        <5> QED
          BY <5>1, <5>2, <5>6, <5>7
      <4> QED
        BY <2>5, <4>1, <4>2
    <3> QED
      BY <2>1, <3>1 DEF OpenKinds
  <2> QED
    BY <2>8, <2>10, <2>11 DEF Levels
<1> QED
  BY <1>1, <1>3, <1>4, Statements
-----------------------------------------------------------------------------
(* What the builder does to the blocks *)
Items == [op : {"instr", "ret", "br"}, to : SUBSET Nat]
Bodies == Seq(Items)
Straight(bs, b) == \A i \in 1..Len(bs[b]) - 1 : bs[b][i].op = "instr"
Targets(bs, m) == \A b \in 1..Len(bs) : \A i \in 1..Len(bs[b]) : bs[b][i].to \subseteq 1..m

(* Only the block b is another one. *)
Changed(bs, cs, b) ==
  /\ cs \in Seq(Bodies) /\ Len(cs) = Len(bs)
  /\ \A a \in 1..Len(bs) : a # b => cs[a] = bs[a]

LEMMA PutFacts ==
  ASSUME NEW bs \in Seq(Bodies), NEW b \in 1..Len(bs), NEW item \in Items
  PROVE  /\ Changed(bs, Put(bs, b, item), b)
         /\ Put(bs, b, item)[b] # <<>> /\ Last(Put(bs, b, item)[b]).op = item.op
         /\ Straight(bs, b) /\ ~Terminated(bs, b) => Straight(Put(bs, b, item), b)
         /\ \A m : Targets(bs, m) /\ item.to \subseteq 1..m => Targets(Put(bs, b, item), m)
<1> DEFINE cs == Put(bs, b, item)
           s == bs[b]
           l == Len(s)
<1>1. s \in Seq(Items) /\ l \in Nat /\ l = Len(s) /\ Len(bs) \in Nat
  BY ElementOfSeq, LenProperties DEF Bodies
<1>2. CASE item = Instr /\ s # <<>> /\ Last(s) = Instr
  <2>1. cs = bs
    BY <1>2 DEF Put
  <2> QED
    BY <1>2, <2>1 DEF Changed
<1>3. CASE ~(item = Instr /\ s # <<>> /\ Last(s) = Instr)
  <2>1. cs = [bs EXCEPT ![b] = Append(s, item)]
    BY <1>3 DEF Put
  <2>2. /\ Append(s, item) \in Seq(Items) /\ Len(Append(s, item)) = l + 1
        /\ \A i \in 1..l : Append(s, item)[i] = s[i]
        /\ Append(s, item)[l + 1] = item
    BY <1>1, AppendProperties
  <2>3. /\ cs \in Seq(Bodies) /\ Len(cs) = Len(bs)
        /\ \A a \in 1..Len(bs) : cs[a] = IF a = b THEN Append(s, item) ELSE bs[a]
    BY <2>1, <2>2, ExceptSeq DEF Bodies
  <2> HIDE DEF cs, s, l
  <2>4. cs[b] = Append(s, item)
    BY <2>3
  <2>5. cs[b] # <<>> /\ Last(cs[b]).op = item.op
    BY <1>1, <2>2, <2>4, EmptySeq DEF Last
  <2>6. ASSUME Straight(bs, b), ~Terminated(bs, b)
        PROVE  Straight(cs, b)
    <3>1. \A i \in 1..l : s[i].op = "instr"
      <4>1. \A i \in 1..l - 1 : s[i].op = "instr"
        BY <2>6 DEF Straight, s, l
      <4>2. l > 0 => s # <<>> /\ s[l] \in Items
        BY <1>1, EmptySeq, ElementOfSeq
      <4>3. l > 0 => s[l].op \notin {"ret", "br"}
        BY <2>6, <4>2 DEF Terminated, Last, s, l
      <4>4. l > 0 => s[l].op = "instr"
        BY <4>2, <4>3 DEF Items
      <4>5. \A i \in 1..l : i \in 1..l - 1 \/ (i = l /\ l > 0)
        BY <1>1
      <4> QED
        BY <4>1, <4>4, <4>5
    <3>2. Len(cs[b]) - 1 = l
      BY <1>1, <2>2, <2>4
    <3> QED
      BY <2>2, <2>4, <3>1, <3>2 DEF Straight
  <2>7. ASSUME NEW m, Targets(bs, m), item.to \subseteq 1..m
        PROVE  Targets(cs, m)
    <3>1. ASSUME NEW a \in 1..Len(bs), NEW i \in 1..Len(cs[a])
          PROVE  cs[a][i].to \subseteq 1..m
      <4>1. CASE a # b
        BY <2>3, <2>7, <3>1, <4>1 DEF Targets
      <4>2. CASE a = b
        <5>1. i \in 1..l \/ i = l + 1
          BY <1>1, <2>2, <2>4, <3>1, <4>2
        <5>2. \A j \in 1..l : s[j].to \subseteq 1..m
          BY <2>7 DEF Targets, s, l
        <5> QED
          BY <2>2, <2>4, <2>7, <4>2, <5>1, <5>2
      <4> QED
        BY <4>1, <4>2
    <3> QED
      BY <2>3, <3>1 DEF Targets
  <2>8. Changed(bs, cs, b)
    BY <2>3 DEF Changed
  <2> QED
    BY <2>5, <2>6, <2>7, <2>8 DEF cs
<1> QED
  BY <1>2, <1>3

(* Instructions, if there are any *)
LEMMA InstrFacts ==
  ASSUME NEW bs \in Seq(Bodies), NEW b \in 1..Len(bs), NEW cond
  PROVE  /\ Changed(bs, PutIf(cond, bs, b, Instr), b)
         /\ ~Terminated(bs, b) => ~Terminated(PutIf(cond, bs, b, Instr), b)
         /\ Straight(bs, b) /\ ~Terminated(bs, b) => Straight(PutIf(cond, bs, b, Instr), b)
         /\ \A m : Targets(bs, m) => Targets(PutIf(cond, bs, b, Instr), m)
<1>1. Instr \in Items /\ Instr.op = "instr" /\ Instr.to = {}
  BY DEF Instr, Items
<1>2. CASE PutIf(cond, bs, b, Instr) = bs
  BY <1>2 DEF Changed
<1>3. CASE PutIf(cond, bs, b, Instr) = Put(bs, b, Instr)
  <2>1. ~Terminated(Put(bs, b, Instr), b)
    BY <1>1, PutFacts DEF Terminated
  <2> QED
    BY <1>1, <1>3, <2>1, PutFacts
<1> QED
  BY <1>2, <1>3 DEF PutIf

(* Instructions, if there are any, and then a terminator *)
LEMMA TerminatorFacts ==
  ASSUME NEW bs \in Seq(Bodies), NEW b \in 1..Len(bs), NEW cond,
         NEW item \in Items, item.op \in {"ret", "br"}
  PROVE  LET cs == Put(PutIf(cond, bs, b, Instr), b, item)
         IN  /\ Changed(bs, cs, b) /\ Terminated(cs, b)
             /\ Straight(bs, b) /\ ~Terminated(bs, b) => Straight(cs, b)
             /\ \A m : Targets(bs, m) /\ item.to \subseteq 1..m => Targets(cs, m)
<1> DEFINE ms == PutIf(cond, bs, b, Instr)
           cs == Put(ms, b, item)
<1>1. /\ Changed(bs, ms, b) /\ (~Terminated(bs, b) => ~Terminated(ms, b))
      /\ Straight(bs, b) /\ ~Terminated(bs, b) => Straight(ms, b)
      /\ \A m : Targets(bs, m) => Targets(ms, m)
  BY InstrFacts
<1>2. ms \in Seq(Bodies) /\ Len(ms) = Len(bs)
  BY <1>1 DEF Changed
<1> HIDE DEF ms
<1>3. /\ Changed(ms, cs, b) /\ cs[b] # <<>> /\ Last(cs[b]).op = item.op
      /\ Straight(ms, b) /\ ~Terminated(ms, b) => Straight(cs, b)
      /\ \A m : Targets(ms, m) /\ item.to \subseteq 1..m => Targets(cs, m)
  BY <1>2, PutFacts
<1> HIDE DEF cs
<1>4. Changed(bs, cs, b)
  BY <1>1, <1>3 DEF Changed
<1>5. Terminated(cs, b)
  BY <1>3 DEF Terminated
<1> QED
  BY <1>1, <1>3, <1>4, <1>5 DEF cs, ms

(* A branch, unless there is a terminator *)
LEMMA BranchFacts ==
  ASSUME NEW bs \in Seq(Bodies), NEW b \in 1..Len(bs), NEW target \in Nat
  PROVE  LET cs == Branch(bs, b, target)
         IN  /\ Changed(bs, cs, b) /\ Terminated(cs, b)
             /\ Straight(bs, b) => Straight(cs, b)
             /\ \A m : Targets(bs, m) /\ target \in 1..m => Targets(cs, m)
<1>1. Br({target}) \in Items /\ Br({target}).op = "br" /\ Br({target}).to = {target}
  BY DEF Br, Items
<1>2. CASE Terminated(bs, b)
  <2>1. Branch(bs, b, target) = bs
    BY <1>2 DEF Branch, PutIf
  <2> QED
    BY <1>2, <2>1 DEF Changed
<1>3. CASE ~Terminated(bs, b)
  <2>1. Branch(bs, b, target) = Put(bs, b, Br({target}))
    BY <1>3 DEF Branch, PutIf
  <2>2. Terminated(Put(bs, b, Br({target})), b)
    BY <1>1, PutFacts DEF Terminated
  <2>3. /\ Changed(bs, Put(bs, b, Br({target})), b)
        /\ Straight(bs, b) => Straight(Put(bs, b, Br({target})), b)
    BY <1>1, <1>3, PutFacts
  <2>4. ASSUME NEW m, Targets(bs, m), target \in 1..m
        PROVE  Targets(Put(bs, b, Br({target})), m)
    <3>1. Br({target}).to \subseteq 1..m
      BY <1>1, <2>4
    <3> QED
      BY <1>1, <2>4, <3>1, PutFacts
  <2> QED
    BY <2>1, <2>2, <2>3, <2>4
<1> QED
  BY <1>2, <1>3

(* Blocks that are still empty join the function. *)
LEMMA NewBlocksFacts ==
  ASSUME NEW bs \in Seq(Bodies), NEW k \in Nat
  PROVE  /\ bs \o NewBlocks(k) \in Seq(Bodies)
         /\ Len(bs \o NewBlocks(k)) = Len(bs) + k
         /\ \A b \in 1..Len(bs) : (bs \o NewBlocks(k))[b] = bs[b]
         /\ \A b \in Len(bs) + 1..Len(bs) + k : (bs \o NewBlocks(k))[b] = <<>>
         /\ \A m : Targets(bs, m) => Targets(bs \o NewBlocks(k), m)
<1> DEFINE fresh == NewBlocks(k)
           cs == bs \o fresh
           n == Len(bs)
<1>1. fresh \in Seq(Bodies) /\ Len(fresh) = k /\ \A i \in 1..k : fresh[i] = <<>>
  <2>1. <<>> \in Bodies
    BY EmptySeq DEF Bodies
  <2> QED
    BY <2>1 DEF NewBlocks
<1>2. n \in Nat /\ n = Len(bs)
  BY LenProperties
<1> HIDE DEF fresh, n
<1>3. /\ cs \in Seq(Bodies) /\ Len(cs) = n + k
      /\ \A i \in 1..n + k : cs[i] = IF i <= n THEN bs[i] ELSE fresh[i - n]
  BY <1>1, <1>2, ConcatProperties
<1> HIDE DEF cs
<1>4. \A b \in 1..n : cs[b] = bs[b]
  BY <1>2, <1>3
<1>5. ASSUME NEW b \in n + 1..n + k
      PROVE  cs[b] = <<>>
  <2>1. b \in 1..n + k /\ ~(b <= n) /\ b - n \in 1..k
    BY <1>2
  <2> QED
    BY <1>1, <1>3, <2>1
<1>6. ASSUME NEW m, Targets(bs, m)
      PROVE  Targets(cs, m)
  <2>1. ASSUME NEW b \in 1..n + k, NEW i \in 1..Len(cs[b])
        PROVE  cs[b][i].to \subseteq 1..m
    <3>1. CASE b \in 1..n
      BY <1>2, <1>4, <1>6, <2>1, <3>1 DEF Targets
    <3>2. CASE b \in n + 1..n + k
      <4>1. Len(cs[b]) = 0
        BY <1>5, <3>2, EmptySeq
      <4> QED
        BY <2>1, <4>1
    <3> QED
      BY <1>2, <3>1, <3>2
  <2> QED
    BY <1>3, <2>1 DEF Targets
<1> QED
  BY <1>2, <1>3, <1>4, <1>5, <1>6 DEF cs, fresh
-----------------------------------------------------------------------------
(* No block is open where a function ends. *)
LEMMA Boundary ==
  ASSUME SemaType, Levels, phase = "codegen", NEW p \in 0..Len(code),
         p \in 1..Len(code) - 1 => code[p + 1].fn # code[p].fn
  PROVE  After(p) = 0
<1>1. Len(code) \in Nat
  BY SeqFacts DEF SemaType
<1>2. LevelsMeet
  BY DEF Levels
<1>3. CASE p = 0
  BY <1>3 DEF After
<1>4. CASE p \in 1..Len(code) - 1
  BY <1>2, <1>4 DEF LevelsMeet
<1>5. CASE p = Len(code)
  <2>1. nest = <<>> /\ Len(nest) = 0
    BY EmptySeq DEF SemaType, InBody
  <2> QED
    BY <1>2, <1>5, <2>1 DEF LevelsMeet
<1> QED
  BY <1>1, <1>3, <1>4, <1>5

(* The else of an if whose block at level d is open, before statement a is visited *)
PendingElse(a, d) ==
  \E r \in a..Len(code) :
    /\ code[r].op = "else" /\ code[r].depth = d
    /\ \A s \in a..r - 1 : ~(code[s].op = "end" /\ code[s].depth = d)

LEMMA PendingNext ==
  ASSUME SemaType, NEW a \in 1..Len(code), NEW d \in Nat,
         ~(code[a].op \in {"else", "end"} /\ code[a].depth = d)
  PROVE  PendingElse(a + 1, d) <=> PendingElse(a, d)
<1> DEFINE c == Len(code)
<1>1. c \in Nat /\ a \in Nat /\ c = Len(code)
  BY SeqFacts DEF SemaType
<1> HIDE DEF c
<1>2. ASSUME PendingElse(a + 1, d)
      PROVE  PendingElse(a, d)
  <2>1. PICK r \in a + 1..c :
          /\ code[r].op = "else" /\ code[r].depth = d
          /\ \A s \in a + 1..r - 1 : ~(code[s].op = "end" /\ code[s].depth = d)
    BY <1>1, <1>2 DEF PendingElse
  <2>2. r \in a..c /\ \A s \in a..r - 1 : s = a \/ s \in a + 1..r - 1
    BY <1>1
  <2> QED
    BY <1>1, <2>1, <2>2 DEF PendingElse
<1>3. ASSUME PendingElse(a, d)
      PROVE  PendingElse(a + 1, d)
  <2>1. PICK r \in a..c :
          /\ code[r].op = "else" /\ code[r].depth = d
          /\ \A s \in a..r - 1 : ~(code[s].op = "end" /\ code[s].depth = d)
    BY <1>1, <1>3 DEF PendingElse
  <2>2. r # a
    BY <2>1
  <2>3. r \in a + 1..c /\ \A s \in a + 1..r - 1 : s \in a..r - 1
    BY <1>1, <2>2
  <2> QED
    BY <1>1, <2>1, <2>3 DEF PendingElse
<1> QED
  BY <1>2, <1>3

LEMMA PendingHere ==
  ASSUME SemaType, Levels, phase = "codegen", NEW a \in 1..Len(code)
  PROVE  /\ code[a].op = "end" => ~PendingElse(a, code[a].depth)
         /\ code[a].op = "else" => PendingElse(a, code[a].depth)
         /\ code[a].op \in {"while", "else"} => ~PendingElse(a + 1, code[a].depth)
<1> DEFINE c == Len(code)
<1>1. c \in Nat /\ a \in Nat /\ c = Len(code)
  BY SeqFacts DEF SemaType
<1> HIDE DEF c
<1>2. ASSUME code[a].op = "end", PendingElse(a, code[a].depth)
      PROVE  FALSE
  <2>1. PICK r \in a..c :
          /\ code[r].op = "else"
          /\ \A s \in a..r - 1 : ~(code[s].op = "end" /\ code[s].depth = code[a].depth)
    BY <1>1, <1>2 DEF PendingElse
  <2>2. r # a
    BY <1>2, <2>1
  <2>3. a \in a..r - 1
    BY <1>1, <2>2
  <2> QED
    BY <1>2, <2>1, <2>3
<1>3. ASSUME code[a].op = "else"
      PROVE  PendingElse(a, code[a].depth)
  <2>1. a \in a..c /\ a..a - 1 = {}
    BY <1>1
  <2> QED
    BY <1>1, <1>3, <2>1 DEF PendingElse
<1>4. ASSUME code[a].op \in {"while", "else"}, PendingElse(a + 1, code[a].depth)
      PROVE  FALSE
  <2>1. PICK r \in a + 1..c :
          /\ code[r].op = "else" /\ code[r].depth = code[a].depth
          /\ \A s \in a + 1..r - 1 : ~(code[s].op = "end" /\ code[s].depth = code[a].depth)
    BY <1>1, <1>4 DEF PendingElse
  <2>2. r \in 1..c /\ a < r
    BY <1>1
  <2>3. OneElse
    BY DEF Levels
  <2> QED
    BY <1>1, <1>4, <2>1, <2>2, <2>3 DEF OneElse, Ends
<1> QED
  BY <1>2, <1>3, <1>4

(* An if or a while that is not generated is left out with all its blocks. *)
LEMMA PendingSkip ==
  ASSUME SemaType, Tree, phase = "codegen", NEW a \in 1..Len(code), Conditional(a),
         NEW d \in Nat, d < code[a].depth
  PROVE  PendingElse(Match(a) + 1, d) <=> PendingElse(a, d)
<1> DEFINE c == Len(code)
           e == Match(a)
<1>1. c \in Nat /\ a \in Nat /\ c = Len(code) /\ \A q \in 1..c : code[q].depth \in Nat
  BY SeqFacts DEF SemaType, StatementOK
<1>2. /\ e \in a + 1..Len(code) /\ Ends(e, a)
      /\ \A r \in a + 1..e - 1 : code[r].depth >= code[a].depth
  BY MatchFacts
<1> HIDE DEF c, e
<1>3. \A r \in a..e : r \in 1..c /\ code[r].depth # d
  <2>1. \A r \in a..e : r = a \/ r = e \/ r \in a + 1..e - 1
    BY <1>1, <1>2
  <2>2. \A r \in a..e : r \in 1..c
    BY <1>1, <1>2
  <2>3. \A r \in a..e : code[r].depth >= code[a].depth
    BY <1>1, <1>2, <2>1, <2>2 DEF Ends
  <2> QED
    BY <1>1, <2>2, <2>3
<1>4. ASSUME PendingElse(e + 1, d)
      PROVE  PendingElse(a, d)
  <2>1. PICK r \in e + 1..c :
          /\ code[r].op = "else" /\ code[r].depth = d
          /\ \A s \in e + 1..r - 1 : ~(code[s].op = "end" /\ code[s].depth = d)
    BY <1>1, <1>4 DEF PendingElse
  <2>2. r \in a..c /\ \A s \in a..r - 1 : s \in a..e \/ s \in e + 1..r - 1
    BY <1>1, <1>2
  <2> QED
    BY <1>1, <1>3, <2>1, <2>2 DEF PendingElse
<1>5. ASSUME PendingElse(a, d)
      PROVE  PendingElse(e + 1, d)
  <2>1. PICK r \in a..c :
          /\ code[r].op = "else" /\ code[r].depth = d
          /\ \A s \in a..r - 1 : ~(code[s].op = "end" /\ code[s].depth = d)
    BY <1>1, <1>5 DEF PendingElse
  <2>2. r \notin a..e
    BY <1>3, <2>1
  <2>3. r \in e + 1..c /\ \A s \in e + 1..r - 1 : s \in a..r - 1
    BY <1>1, <1>2, <2>2
  <2> QED
    BY <1>1, <2>1, <2>3 DEF PendingElse
<1> QED
  BY <1>4, <1>5 DEF e

LEMMA PendingIf ==
  ASSUME SemaType, Tree, phase = "codegen", NEW a \in 1..Len(code), Conditional(a)
  PROVE  PendingElse(a + 1, code[a].depth) <=> Elses(a) # {}
<1> DEFINE c == Len(code)
           e == Match(a)
<1>1. c \in Nat /\ a \in Nat /\ c = Len(code)
  BY SeqFacts DEF SemaType
<1>2. /\ e \in a + 1..Len(code) /\ Ends(e, a)
      /\ \A r \in a + 1..e - 1 : ~Ends(r, a)
  BY MatchFacts
<1>3. Elses(a) = {r \in a + 1..e : code[r].op = "else" /\ code[r].depth = code[a].depth}
  BY DEF Elses
<1> HIDE DEF c, e
<1>4. ASSUME PendingElse(a + 1, code[a].depth)
      PROVE  Elses(a) # {}
  <2>1. PICK r \in a + 1..c :
          /\ code[r].op = "else" /\ code[r].depth = code[a].depth
          /\ \A s \in a + 1..r - 1 : ~(code[s].op = "end" /\ code[s].depth = code[a].depth)
    BY <1>1, <1>4 DEF PendingElse
  <2>2. e \notin a + 1..r - 1
    BY <1>2, <2>1 DEF Ends
  <2>3. r \in a + 1..e
    BY <1>1, <1>2, <2>2
  <2> QED
    BY <1>3, <2>1, <2>3
<1>5. ASSUME Elses(a) # {}
      PROVE  PendingElse(a + 1, code[a].depth)
  <2>1. PICK r \in a + 1..e : code[r].op = "else" /\ code[r].depth = code[a].depth
    BY <1>3, <1>5
  <2>2. r \in a + 1..c /\ \A s \in a + 1..r - 1 : s \in a + 1..e - 1
    BY <1>1, <1>2
  <2> QED
    BY <1>1, <1>2, <2>1, <2>2 DEF PendingElse, Ends
<1> QED
  BY <1>4, <1>5
-----------------------------------------------------------------------------
(* Every block but the one of the insertion point ends with a terminator or  *)
(* waits, empty, for one visit of an if or while; w tells which for which.   *)
Fine(bs, ins, w) ==
  /\ bs \in Seq(Bodies) /\ Targets(bs, Len(bs)) /\ ins \in 1..Len(bs)
  /\ \A i \in DOMAIN w : \A b \in w[i] : b \in 1..Len(bs) /\ bs[b] = <<>> /\ b # ins
  /\ \A i, j \in DOMAIN w : i # j => w[i] \cap w[j] = {}
  /\ \A b \in 1..Len(bs) : b = ins \/ Terminated(bs, b) \/ \E i \in DOMAIN w : b \in w[i]

AllStraight(bs) == \A b \in 1..Len(bs) : Straight(bs, b)

(* The insertion point stays. *)
LEMMA FineStays ==
  ASSUME NEW bs, NEW ins, NEW w, Fine(bs, ins, w),
         NEW cs, Changed(bs, cs, ins), Targets(cs, Len(bs))
  PROVE  Fine(cs, ins, w)
<1>1. cs \in Seq(Bodies) /\ Len(cs) = Len(bs) /\ Targets(cs, Len(cs)) /\ ins \in 1..Len(cs)
  BY DEF Fine, Changed
<1>2. \A i \in DOMAIN w : \A b \in w[i] : b \in 1..Len(cs) /\ cs[b] = <<>> /\ b # ins
  BY <1>1 DEF Fine, Changed
<1>3. \A b \in 1..Len(cs) : b = ins \/ Terminated(cs, b) \/ \E i \in DOMAIN w : b \in w[i]
  BY <1>1 DEF Fine, Changed, Terminated
<1> QED
  BY <1>1, <1>2, <1>3 DEF Fine

(* New blocks; the insertion point moves to one of them, W of them wait for z. *)
LEMMA FineOpens ==
  ASSUME NEW bs, NEW ins, NEW w, Fine(bs, ins, w),
         NEW cs \in Seq(Bodies), Targets(cs, Len(cs)), Len(bs) <= Len(cs),
         \A b \in 1..Len(bs) : b # ins => cs[b] = bs[b],
         Terminated(cs, ins),
         NEW new \in Len(bs) + 1..Len(cs),
         NEW W \in SUBSET (Len(bs) + 1..Len(cs)), new \notin W,
         \A b \in W : cs[b] = <<>>,
         \A b \in Len(bs) + 1..Len(cs) : b = new \/ b \in W \/ Terminated(cs, b),
         NEW v, NEW z, z \notin DOMAIN w, DOMAIN w \subseteq DOMAIN v,
         \A i \in DOMAIN v : (i \in DOMAIN w /\ v[i] = w[i]) \/ (i = z /\ v[i] = W),
         W # {} => z \in DOMAIN v
  PROVE  Fine(cs, new, v)
<1> DEFINE n == Len(bs)
           m == Len(cs)
<1>1. n \in Nat /\ m \in Nat /\ n <= m /\ n = Len(bs) /\ m = Len(cs)
  BY LenProperties DEF Fine
<1> HIDE DEF n, m
<1>2. \A i \in DOMAIN w : \A b \in w[i] : b \in 1..n /\ bs[b] = <<>> /\ b # ins
  BY <1>1 DEF Fine
<1>3. \A i \in DOMAIN v : \A b \in v[i] : b \in 1..m /\ cs[b] = <<>> /\ b # new
  <2>1. ASSUME NEW i \in DOMAIN w, NEW b \in w[i]
        PROVE  b \in 1..m /\ cs[b] = <<>> /\ b # new
    BY <1>1, <1>2
  <2>2. ASSUME NEW b \in W
        PROVE  b \in 1..m /\ cs[b] = <<>> /\ b # new
    BY <1>1
  <2> QED
    BY <2>1, <2>2
<1>4. ASSUME NEW i \in DOMAIN v, NEW j \in DOMAIN v, i # j
      PROVE  v[i] \cap v[j] = {}
  <2>1. \A k \in DOMAIN w : w[k] \cap W = {}
    BY <1>1, <1>2
  <2>2. \A k, l \in DOMAIN w : k # l => w[k] \cap w[l] = {}
    BY DEF Fine
  <2> QED
    BY <1>4, <2>1, <2>2
<1>5. ASSUME NEW b \in 1..m
      PROVE  b = new \/ Terminated(cs, b) \/ \E i \in DOMAIN v : b \in v[i]
  <2>1. CASE b \in 1..n
    <3>1. CASE b = ins
      BY <3>1
    <3>2. CASE b # ins /\ Terminated(bs, b)
      <4>1. cs[b] = bs[b]
        BY <1>1, <2>1, <3>2
      <4> QED
        BY <3>2, <4>1 DEF Terminated
    <3>3. CASE \E i \in DOMAIN w : b \in w[i]
      <4>1. PICK i \in DOMAIN w : b \in w[i]
        BY <3>3
      <4>2. i \in DOMAIN v /\ v[i] = w[i]
        BY <4>1
      <4> QED
        BY <4>1, <4>2
    <3> QED
      BY <1>1, <2>1, <3>1, <3>2, <3>3 DEF Fine
  <2>2. CASE b \in n + 1..m
    BY <1>1, <2>2
  <2> QED
    BY <1>1, <2>1, <2>2
<1>6. new \in 1..m
  BY <1>1
<1> QED
  BY <1>1, <1>3, <1>4, <1>5, <1>6 DEF Fine

(* The insertion point moves on to a block that waited for k. *)
LEMMA FineResumes ==
  ASSUME NEW bs, NEW ins, NEW w, Fine(bs, ins, w),
         NEW cs, Changed(bs, cs, ins), Targets(cs, Len(bs)), Terminated(cs, ins),
         NEW k \in DOMAIN w, NEW new \in w[k],
         NEW v, DOMAIN v \subseteq DOMAIN w,
         \A i \in DOMAIN w : i # k => i \in DOMAIN v /\ v[i] = w[i],
         IF k \in DOMAIN v THEN v[k] = w[k] \ {new} ELSE w[k] = {new}
  PROVE  Fine(cs, new, v)
<1>1. /\ cs \in Seq(Bodies) /\ Len(cs) = Len(bs) /\ Targets(cs, Len(cs)) /\ new \in 1..Len(cs)
      /\ \A a \in 1..Len(cs) : a # ins => cs[a] = bs[a]
  BY DEF Fine, Changed
<1>2. \A i \in DOMAIN v : v[i] \subseteq w[i] /\ new \notin v[i]
  <2>1. \A i \in DOMAIN w : i # k => new \notin w[i]
    BY DEF Fine
  <2> QED
    BY <2>1
<1>3. \A i \in DOMAIN v : \A b \in v[i] : b \in 1..Len(cs) /\ cs[b] = <<>> /\ b # new
  BY <1>1, <1>2 DEF Fine
<1>4. \A i, j \in DOMAIN v : i # j => v[i] \cap v[j] = {}
  <2>1. \A i, j \in DOMAIN w : i # j => w[i] \cap w[j] = {}
    BY DEF Fine
  <2> QED
    BY <1>2, <2>1
<1>5. ASSUME NEW b \in 1..Len(cs), b # new, ~Terminated(cs, b)
      PROVE  \E i \in DOMAIN v : b \in v[i]
  <2>1. b # ins /\ ~Terminated(bs, b)
    BY <1>1, <1>5 DEF Terminated
  <2>2. PICK i \in DOMAIN w : b \in w[i]
    BY <1>1, <1>5, <2>1 DEF Fine
  <2> QED
    BY <1>5, <2>2
<1> QED
  BY <1>1, <1>3, <1>4, <1>5 DEF Fine
-----------------------------------------------------------------------------
(* The state of a function's generation, before the statement a is visited *)
Entry == [els : Nat, next : Nat, back : Nat]

Waiting(a, es) ==
  [d \in 0..Len(es) - 1 |->
     IF PendingElse(a, d) THEN {es[d + 1].els, es[d + 1].next} ELSE {es[d + 1].next}]

(* Between the statement p and the next one, both of g if they are of one function *)
Located(es, a, g) ==
  \E p \in 0..Len(code) :
    /\ a = p + 1 /\ Len(es) = After(p)
    /\ p # 0 => code[p].fn <= g
    /\ a <= Len(code) => code[a].fn >= g

Entries(bs, es, a) ==
  \A d \in 0..Len(es) - 1 :
    /\ es[d + 1].back \in 1..Len(bs)
    /\ PendingElse(a, d) => es[d + 1].els # es[d + 1].next

(* Only else and end are visited with a terminated block, if the code is disciplined. *)
Filled(bs, ins, a, g) ==
  /\ Disciplined(g) =>
       /\ AllStraight(bs)
       /\ a <= Len(code) /\ code[a].fn = g /\ code[a].op \notin {"else", "end"} =>
            ~Terminated(bs, ins)
  /\ \A p \in 1..Len(code) :
       a = p + 1 /\ code[p].fn = g /\ code[p].op = "return" => Terminated(bs, ins)

Placed(bs, ins, es, a, g) ==
  /\ es \in Seq(Entry) /\ Located(es, a, g) /\ Entries(bs, es, a)
  /\ Fine(bs, ins, Waiting(a, es)) /\ Filled(bs, ins, a, g)

Here(bs, ins, es, a, g) ==
  /\ SemaType /\ Tree /\ Levels /\ phase = "codegen"
  /\ Placed(bs, ins, es, a, g)
  /\ a \in 1..Len(code) /\ code[a].fn = g

LEMMA HereFacts ==
  ASSUME NEW bs, NEW ins, NEW es, NEW a, NEW g, Here(bs, ins, es, a, g)
  PROVE  /\ Len(code) \in Nat /\ a \in Nat /\ code[a].depth \in Nat /\ g \in Nat
         /\ Len(es) \in Nat /\ Len(es) = Before(a) /\ code[a].op \in Ops
         /\ \A d \in 0..Len(es) - 1 : es[d + 1] \in Entry
         /\ bs \in Seq(Bodies) /\ Len(bs) \in Nat /\ ins \in 1..Len(bs)
         /\ Targets(bs, Len(bs)) /\ DOMAIN Waiting(a, es) = 0..Len(es) - 1
<1>1. Len(code) \in Nat /\ a \in Nat
  BY SeqFacts DEF Here, SemaType
<1>2. StatementOK(code[a])
  BY DEF Here, SemaType
<1>3. code[a].depth \in Nat /\ code[a].op \in Ops /\ g \in Nat
  <2>1. fn \in Nat /\ code[a].fn \in 1..fn
    <3>1. Len(functions) \in Nat
      BY FunctionFacts DEF Here, SemaType
    <3> QED
      BY <1>2, <3>1 DEF StatementOK, Here, SemaType
  <2> QED
    BY <1>2, <2>1 DEF StatementOK, Here
<1>4. es \in Seq(Entry) /\ Len(es) \in Nat
  BY LenProperties DEF Here, Placed
<1>5. \A d \in 0..Len(es) - 1 : es[d + 1] \in Entry
  <2>1. ASSUME NEW d \in 0..Len(es) - 1
        PROVE  es[d + 1] \in Entry
    <3>1. d + 1 \in 1..Len(es)
      BY <1>4
    <3> QED
      BY <1>4, <3>1, ElementOfSeq
  <2> QED
    BY <2>1
<1>6. bs \in Seq(Bodies) /\ Len(bs) \in Nat /\ ins \in 1..Len(bs) /\ Targets(bs, Len(bs))
  BY LenProperties DEF Here, Placed, Fine
<1>7. Len(es) = Before(a)
  <2>1. PICK p \in 0..Len(code) : a = p + 1 /\ Len(es) = After(p)
    BY DEF Here, Placed, Located
  <2>2. p = a - 1
    BY <1>1, <2>1
  <2>3. Before(a) = After(a - 1)
    BY DEF Here, Levels, LevelsMeet
  <2> QED
    BY <2>1, <2>2, <2>3
<1> QED
  BY <1>1, <1>3, <1>4, <1>5, <1>6, <1>7 DEF Waiting

(* What has to be shown of a visit that ends behind the statement p *)
LEMMA Arrives ==
  ASSUME NEW bs, NEW ins, NEW es, NEW a, NEW g, Here(bs, ins, es, a, g),
         NEW p \in a..Len(code), code[p].fn = g,
         NEW cs, NEW new, NEW fs \in Seq(Entry), Len(fs) = After(p),
         NEW b, b = p + 1,
         Entries(cs, fs, b), Fine(cs, new, Waiting(b, fs)),
         Disciplined(g) => AllStraight(cs),
         Disciplined(g) /\ code[p].op # "return" => ~Terminated(cs, new),
         code[p].op = "return" => Terminated(cs, new)
  PROVE  Placed(cs, new, fs, b, g)
<1> DEFINE c == Len(code)
<1>1. /\ c \in Nat /\ a \in Nat /\ a >= 1 /\ g \in Nat /\ p \in 1..c
      /\ \A q \in 1..c : code[q].fn \in Nat
  <2>1. Len(code) \in Nat /\ a \in Nat /\ a >= 1 /\ g \in Nat
    <3>1. Len(code) \in Nat /\ a \in Nat /\ g \in Nat
      BY HereFacts
    <3>2. a \in 1..Len(code)
      BY DEF Here
    <3> QED
      BY <3>1, <3>2
  <2>2. \A q \in 1..c : code[q].fn \in Nat
    <3>1. \A q \in 1..c : code[q].fn \in 1..fn
      BY DEF Here, SemaType, StatementOK
    <3> QED
      BY <3>1
  <2> QED
    BY <2>1, <2>2
<1>2. c = Len(code) /\ DOMAIN code = 1..c
  BY SeqFacts DEF Here, SemaType
<1> HIDE DEF c
<1>3. Located(fs, b, g)
  <2>1. b <= c => code[b].fn >= g
    <3>1. SUFFICES ASSUME b <= c PROVE code[b].fn >= g
      OBVIOUS
    <3>2. b \in 1..c /\ p < b
      BY <1>1, <3>1
    <3>3. Sorted
      BY DEF Here, Tree
    <3> QED
      BY <1>1, <1>2, <3>2, <3>3 DEF Sorted
  <2>2. p \in 0..c
    BY <1>1
  <2>3. code[p].fn <= g
    BY <1>1
  <2> QED
    BY <1>2, <2>1, <2>2, <2>3 DEF Located
<1>4. Filled(cs, new, b, g)
  <2>1. \A q \in 1..c : b = q + 1 => q = p
    BY <1>1
  <2>2. ASSUME Disciplined(g), b <= c, code[b].fn = g, code[b].op \notin {"else", "end"}
        PROVE  code[p].op # "return"
    <3>1. b \in DOMAIN code /\ p \in DOMAIN code
      BY <1>1, <1>2, <2>2
    <3> QED
      BY <2>2, <3>1 DEF Disciplined
  <2> QED
    BY <1>2, <2>1, <2>2 DEF Filled
<1> QED
  BY <1>3, <1>4 DEF Placed

LEMMA WaitingSame ==
  ASSUME NEW es, NEW a, NEW b,
         \A d \in 0..Len(es) - 1 : PendingElse(b, d) <=> PendingElse(a, d)
  PROVE  Waiting(b, es) = Waiting(a, es)
BY DEF Waiting

LEMMA OthersStraight ==
  ASSUME NEW bs, NEW cs, NEW b, Changed(bs, cs, b), AllStraight(bs), Straight(cs, b)
  PROVE  AllStraight(cs)
<1>1. \A a \in 1..Len(cs) : a # b => Straight(cs, a)
  BY DEF Changed, AllStraight, Straight
<1> QED
  BY <1>1 DEF AllStraight

(* Statements that put something into the current block, and ifs that are dropped *)
LEMMA VisitStays ==
  ASSUME NEW bs, NEW ins, NEW es, NEW a, NEW g, Here(bs, ins, es, a, g),
         code[a].op \notin {"else", "end"},
         NEW p \in a..Len(code), code[p].fn = g, After(p) = Len(es), NEW b, b = p + 1,
         \A d \in 0..Len(es) - 1 : PendingElse(b, d) <=> PendingElse(a, d),
         NEW cs, Changed(bs, cs, ins), Targets(cs, Len(bs)),
         Straight(bs, ins) /\ ~Terminated(bs, ins) => Straight(cs, ins),
         code[p].op # "return" /\ ~Terminated(bs, ins) => ~Terminated(cs, ins),
         code[p].op = "return" => Terminated(cs, ins)
  PROVE  Placed(cs, ins, es, b, g)
<1>1. Placed(bs, ins, es, a, g)
  BY DEF Here
<1>2. Disciplined(g) => AllStraight(bs) /\ ~Terminated(bs, ins)
  <2>1. a <= Len(code) /\ code[a].fn = g
    <3>1. Len(code) \in Nat
      BY HereFacts
    <3> QED
      BY <3>1 DEF Here
  <2> QED
    BY <1>1, <2>1 DEF Placed, Filled
<1>3. Waiting(b, es) = Waiting(a, es)
  BY WaitingSame
<1>4. Fine(cs, ins, Waiting(b, es))
  BY <1>1, <1>3, FineStays DEF Placed
<1>5. Entries(cs, es, b)
  <2>1. Entries(bs, es, a)
    BY <1>1 DEF Placed
  <2> QED
    BY <2>1 DEF Entries, Changed
<1>6. Disciplined(g) => AllStraight(cs)
  <2>1. AllStraight(bs) => Straight(bs, ins)
    BY HereFacts DEF AllStraight
  <2> QED
    BY <1>2, <2>1, OthersStraight
<1>7. es \in Seq(Entry) /\ Len(es) = After(p)
  BY <1>1 DEF Placed
<1>8. Disciplined(g) /\ code[p].op # "return" => ~Terminated(cs, ins)
  BY <1>2
<1> QED
  BY <1>4, <1>5, <1>6, <1>7, <1>8, Arrives

(* New blocks; the insertion point moves to one of them, W of them wait *)
Moves(bs, ins, cs, new, W) ==
  /\ cs \in Seq(Bodies) /\ Targets(cs, Len(cs)) /\ Len(bs) <= Len(cs)
  /\ \A x \in 1..Len(bs) : x # ins => cs[x] = bs[x]
  /\ Terminated(cs, ins)
  /\ Straight(bs, ins) /\ ~Terminated(bs, ins) => Straight(cs, ins)
  /\ new \in Len(bs) + 1..Len(cs) /\ ~Terminated(cs, new)
  /\ W \in SUBSET (Len(bs) + 1..Len(cs)) /\ new \notin W
  /\ \A x \in W : cs[x] = <<>>
  /\ \A x \in Len(bs) + 1..Len(cs) : (x = new \/ x \in W \/ Terminated(cs, x)) /\ Straight(cs, x)

(* The entries fs behind the statement p, where the blocks W wait for what is new *)
Opens(es, a, fs, p, b, g, m, W) ==
  /\ p \in a..Len(code) /\ code[p].fn = g /\ code[p].op # "return" /\ b = p + 1
  /\ \A d \in 0..Len(es) - 1 : PendingElse(b, d) <=> PendingElse(a, d)
  /\ fs \in Seq(Entry) /\ Len(fs) = After(p) /\ Len(es) <= Len(fs) /\ Len(fs) <= Len(es) + 1
  /\ \A i \in 1..Len(es) : fs[i] = es[i]
  /\ \A d : d = Len(es) =>
       IF Len(fs) = Len(es) THEN W = {}
       ELSE /\ Waiting(b, fs)[d] = W
            /\ fs[d + 1].back \in 1..m
            /\ PendingElse(b, d) => fs[d + 1].els # fs[d + 1].next

(* Statements that move the insertion point into a new block *)
LEMMA VisitOpens ==
  ASSUME NEW bs, NEW ins, NEW es, NEW a, NEW g, Here(bs, ins, es, a, g),
         code[a].op \notin {"else", "end"},
         NEW cs, NEW new, NEW W, Moves(bs, ins, cs, new, W),
         NEW fs, NEW p, NEW b, Opens(es, a, fs, p, b, g, Len(cs), W)
  PROVE  Placed(cs, new, fs, b, g)
<1>a. /\ cs \in Seq(Bodies) /\ Targets(cs, Len(cs)) /\ Len(bs) <= Len(cs)
      /\ \A x \in 1..Len(bs) : x # ins => cs[x] = bs[x]
      /\ Terminated(cs, ins)
      /\ Straight(bs, ins) /\ ~Terminated(bs, ins) => Straight(cs, ins)
      /\ new \in Len(bs) + 1..Len(cs) /\ ~Terminated(cs, new)
      /\ W \in SUBSET (Len(bs) + 1..Len(cs)) /\ new \notin W
      /\ \A x \in W : cs[x] = <<>>
      /\ \A x \in Len(bs) + 1..Len(cs) : (x = new \/ x \in W \/ Terminated(cs, x)) /\ Straight(cs, x)
  BY DEF Moves
<1>b. /\ p \in a..Len(code) /\ code[p].fn = g /\ code[p].op # "return" /\ b = p + 1
      /\ \A d \in 0..Len(es) - 1 : PendingElse(b, d) <=> PendingElse(a, d)
      /\ fs \in Seq(Entry) /\ Len(fs) = After(p) /\ Len(es) <= Len(fs) /\ Len(fs) <= Len(es) + 1
      /\ \A i \in 1..Len(es) : fs[i] = es[i]
      /\ \A d : d = Len(es) =>
           IF Len(fs) = Len(es) THEN W = {}
           ELSE /\ Waiting(b, fs)[d] = W
                /\ fs[d + 1].back \in 1..Len(cs)
                /\ PendingElse(b, d) => fs[d + 1].els # fs[d + 1].next
  BY DEF Opens
<1> USE <1>a, <1>b
<1> DEFINE k == Len(es)
           l == Len(fs)
           n == Len(bs)
           m == Len(cs)
           w == Waiting(a, es)
           v == Waiting(b, fs)
<1>1. /\ k \in Nat /\ l \in Nat /\ n \in Nat /\ m \in Nat /\ ins \in 1..n
      /\ DOMAIN w = 0..k - 1 /\ DOMAIN v = 0..l - 1
  <2>1. l \in Nat /\ m \in Nat
    BY LenProperties
  <2>2. DOMAIN v = 0..l - 1
    BY DEF Waiting
  <2> QED
    BY <2>1, <2>2, HereFacts
<1>2. Placed(bs, ins, es, a, g)
  BY DEF Here
<1>3. Disciplined(g) => AllStraight(bs) /\ ~Terminated(bs, ins)
  <2>1. a <= Len(code) /\ code[a].fn = g
    <3>1. Len(code) \in Nat
      BY HereFacts
    <3> QED
      BY <3>1 DEF Here
  <2> QED
    BY <1>2, <2>1 DEF Placed, Filled
<1>4. k = Len(es) /\ l = Len(fs) /\ n = Len(bs) /\ m = Len(cs)
  OBVIOUS
<1>5. \A d \in 0..k - 1 : fs[d + 1] = es[d + 1]
  BY <1>1
<1>6. \A d \in 0..k - 1 : d \in 0..l - 1 /\ v[d] = w[d]
  <2>1. \A d \in 0..k - 1 : d \in 0..l - 1
    BY <1>1
  <2>2. /\ \A d \in 0..k - 1 : w[d] = IF PendingElse(a, d) THEN {es[d + 1].els, es[d + 1].next}
                                       ELSE {es[d + 1].next}
        /\ \A d \in 0..l - 1 : v[d] = IF PendingElse(b, d) THEN {fs[d + 1].els, fs[d + 1].next}
                                       ELSE {fs[d + 1].next}
    BY DEF Waiting
  <2> QED
    BY <1>5, <2>1, <2>2
<1>7. \A d \in 0..l - 1 : d \in 0..k - 1 \/ (d = k /\ l # k)
  BY <1>1
<1> HIDE DEF k, l, n, m, w, v
<1>8. Fine(cs, new, v)
  <2>1. Fine(bs, ins, w)
    BY <1>2 DEF Placed, w
  <2>2. k \notin DOMAIN w /\ DOMAIN w \subseteq DOMAIN v
    BY <1>1, <1>6
  <2>3. \A i \in DOMAIN v : (i \in DOMAIN w /\ v[i] = w[i]) \/ (i = k /\ v[i] = W)
    BY <1>1, <1>4, <1>6, <1>7 DEF v
  <2>4. W # {} => k \in DOMAIN v
    <3>1. W # {} => l # k
      BY <1>4
    <3> QED
      BY <1>1, <1>4, <3>1
  <2>5. \A x \in Len(bs) + 1..Len(cs) : x = new \/ x \in W \/ Terminated(cs, x)
    OBVIOUS
  <2> QED
    BY <2>1, <2>2, <2>3, <2>4, <2>5, FineOpens
<1>9. Entries(cs, fs, b)
  <2>1. Entries(bs, es, a)
    BY <1>2 DEF Placed
  <2>2. ASSUME NEW d \in 0..l - 1
        PROVE  /\ fs[d + 1].back \in 1..m
               /\ PendingElse(b, d) => fs[d + 1].els # fs[d + 1].next
    <3>1. CASE d \in 0..k - 1
      <4>1. es[d + 1].back \in 1..n /\ (PendingElse(a, d) => es[d + 1].els # es[d + 1].next)
        BY <1>4, <2>1, <3>1 DEF Entries
      <4> QED
        BY <1>1, <1>4, <1>5, <3>1, <4>1
    <3>2. CASE d = k /\ l # k
      BY <1>4, <3>2
    <3> QED
      BY <1>7, <3>1, <3>2
  <2> QED
    BY <1>4, <2>2 DEF Entries
<1>10. Disciplined(g) => AllStraight(cs)
  <2>1. SUFFICES ASSUME Disciplined(g), NEW x \in 1..m PROVE Straight(cs, x)
    BY <1>4 DEF AllStraight
  <2>2. x \in 1..n \/ x \in n + 1..m
    BY <1>1
  <2>3. CASE x \in 1..n
    <3>1. Straight(bs, x) /\ (x = ins => ~Terminated(bs, ins))
      BY <1>3, <1>4, <2>1, <2>3 DEF AllStraight
    <3>2. CASE x = ins
      BY <3>1, <3>2
    <3>3. CASE x # ins
      BY <1>4, <2>3, <3>1, <3>3 DEF Straight
    <3> QED
      BY <3>2, <3>3
  <2> QED
    BY <1>4, <2>2, <2>3
<1> QED
  BY <1>8, <1>9, <1>10, Arrives DEF v

(* The entries fs after a statement behind which the block new is continued *)
Resumes(es, a, fs, b, top, new) ==
  /\ code[a].op \in {"else", "end"} /\ code[a].depth = top /\ b = a + 1
  /\ top \in Nat /\ Len(es) = top + 1 /\ new \in Waiting(a, es)[top]
  /\ fs \in Seq(Entry) /\ Len(fs) = After(a) /\ (Len(fs) = top \/ Len(fs) = top + 1)
  /\ \A i \in 1..Len(fs) : fs[i] = es[i]
  /\ IF Len(fs) = top THEN Waiting(a, es)[top] = {new}
     ELSE Waiting(b, fs)[top] = Waiting(a, es)[top] \ {new} /\ ~PendingElse(b, top)

(* Statements that leave a block for one that waited *)
LEMMA VisitResumes ==
  ASSUME NEW bs, NEW ins, NEW es, NEW a, NEW g, Here(bs, ins, es, a, g),
         NEW cs, Changed(bs, cs, ins), Terminated(cs, ins), Targets(cs, Len(bs)),
         Straight(bs, ins) => Straight(cs, ins),
         NEW fs, NEW b, NEW top, NEW new, Resumes(es, a, fs, b, top, new)
  PROVE  Placed(cs, new, fs, b, g)
<1>0. /\ code[a].op \in {"else", "end"} /\ code[a].depth = top /\ b = a + 1
      /\ top \in Nat /\ Len(es) = top + 1 /\ new \in Waiting(a, es)[top]
      /\ fs \in Seq(Entry) /\ Len(fs) = After(a) /\ (Len(fs) = top \/ Len(fs) = top + 1)
      /\ \A i \in 1..Len(fs) : fs[i] = es[i]
      /\ IF Len(fs) = top THEN Waiting(a, es)[top] = {new}
         ELSE Waiting(b, fs)[top] = Waiting(a, es)[top] \ {new} /\ ~PendingElse(b, top)
  BY DEF Resumes
<1> USE <1>0
<1> DEFINE l == Len(fs)
           w == Waiting(a, es)
           v == Waiting(b, fs)
<1>1. /\ a \in Nat /\ a \in 1..Len(code) /\ Len(code) \in Nat
      /\ l \in Nat /\ (l = top \/ l = top + 1) /\ l = Len(fs)
      /\ DOMAIN w = 0..top /\ DOMAIN v = 0..l - 1 /\ code[a].fn = g
  <2>1. DOMAIN w = 0..Len(es) - 1 /\ a \in Nat /\ Len(code) \in Nat
    BY HereFacts
  <2>2. DOMAIN v = 0..l - 1 /\ l \in Nat
    BY LenProperties DEF Waiting
  <2>3. a \in 1..Len(code) /\ code[a].fn = g
    BY DEF Here
  <2> QED
    BY <2>1, <2>2, <2>3
<1>2. Placed(bs, ins, es, a, g)
  BY DEF Here
<1> HIDE DEF l
<1>3. ASSUME NEW d \in 0..l - 1, d # top
      PROVE  PendingElse(b, d) <=> PendingElse(a, d)
  <2>1. PendingElse(a + 1, d) <=> PendingElse(a, d)
    BY <1>1, <1>3, PendingNext DEF Here
  <2> QED
    BY <2>1
<1>4. \A d \in 0..l - 1 : d # top => d \in 0..top /\ v[d] = w[d]
  <2>1. \A d \in 0..l - 1 : d \in 0..top /\ fs[d + 1] = es[d + 1]
    BY <1>1
  <2>2. /\ \A d \in 0..top : w[d] = IF PendingElse(a, d) THEN {es[d + 1].els, es[d + 1].next}
                                     ELSE {es[d + 1].next}
        /\ \A d \in 0..l - 1 : v[d] = IF PendingElse(b, d) THEN {fs[d + 1].els, fs[d + 1].next}
                                       ELSE {fs[d + 1].next}
    BY <1>1 DEF Waiting
  <2> HIDE DEF w, v
  <2> QED
    BY <1>3, <2>1, <2>2
<1>5. \A d \in 0..top : d # top => d \in 0..l - 1
  BY <1>1
<1>6. top \in DOMAIN v <=> l # top
  BY <1>1
<1>7. IF top \in DOMAIN v THEN v[top] = w[top] \ {new} ELSE w[top] = {new}
  BY <1>1, <1>6
<1>8. Fine(bs, ins, w)
  BY <1>2 DEF Placed
<1>9. new \in w[top] /\ top \in DOMAIN w
  BY <1>1
<1> HIDE DEF w, v
<1>10. Fine(cs, new, v)
  <2>1. DOMAIN v \subseteq DOMAIN w
    BY <1>1
  <2>2. \A i \in DOMAIN w : i # top => i \in DOMAIN v /\ v[i] = w[i]
    BY <1>1, <1>4, <1>5
  <2> QED
    BY <1>7, <1>8, <1>9, <2>1, <2>2, FineResumes
<1>11. new \in 1..Len(bs) /\ new # ins /\ bs[new] = <<>>
  BY <1>8, <1>9 DEF Fine
<1>12. ~Terminated(cs, new)
  BY <1>11 DEF Changed, Terminated
<1>13. Entries(cs, fs, b)
  <2>1. Entries(bs, es, a) /\ Len(cs) = Len(bs)
    BY <1>2 DEF Placed, Changed
  <2>2. \A d \in 0..l - 1 : d \in 0..Len(es) - 1 /\ fs[d + 1] = es[d + 1]
    BY <1>1
  <2>3. \A d \in 0..l - 1 : PendingElse(b, d) => PendingElse(a, d)
    BY <1>1, <1>3
  <2> QED
    BY <1>1, <2>1, <2>2, <2>3 DEF Entries
<1>14. Disciplined(g) => AllStraight(cs)
  <2>1. Disciplined(g) => AllStraight(bs)
    BY <1>2 DEF Placed, Filled
  <2>2. AllStraight(bs) => Straight(bs, ins)
    BY <1>8 DEF Fine, AllStraight
  <2> QED
    BY <2>1, <2>2, OthersStraight
<1>15. a \in a..Len(code) /\ code[a].op # "return"
  BY <1>1
<1> QED
  BY <1>1, <1>10, <1>12, <1>13, <1>14, <1>15, Arrives DEF v

-----------------------------------------------------------------------------
(* The visits *)
LEMMA VisitPlain ==
  ASSUME Here(blocks, insert, open, at, gen),
         VisitExprStmt \/ VisitVariableDecl \/ VisitReturnStmt
  PROVE  Placed(blocks', insert', open', at', gen)
<1>1. /\ code[at].op \in {"expr", "var", "return"} /\ at \in 1..Len(code) /\ code[at].fn = gen
      /\ insert' = insert /\ open' = open /\ at' = at + 1
  BY DEF Here, VisitExprStmt, VisitVariableDecl, VisitReturnStmt, Visiting
<1>2. /\ Len(code) \in Nat /\ at \in Nat /\ code[at].depth \in Nat
      /\ Len(open) = Before(at) /\ blocks \in Seq(Bodies) /\ insert \in 1..Len(blocks)
      /\ Targets(blocks, Len(blocks))
  BY HereFacts
<1>3. at \in at..Len(code) /\ After(at) = Len(open)
  BY <1>1, <1>2 DEF After, Before
<1>4. \A d \in 0..Len(open) - 1 : PendingElse(at + 1, d) <=> PendingElse(at, d)
  <2>1. ASSUME NEW d \in 0..Len(open) - 1
        PROVE  d \in Nat
    OBVIOUS
  <2> QED
    BY <1>1, <2>1, PendingNext DEF Here
<1>5. Instr \in Items /\ Ret \in Items /\ Instr.op = "instr" /\ Ret.op = "ret" /\ Ret.to = {} /\ Instr.to = {}
  BY DEF Instr, Ret, Items
<1>6. /\ Changed(blocks, blocks', insert) /\ Targets(blocks', Len(blocks))
      /\ Straight(blocks, insert) /\ ~Terminated(blocks, insert) => Straight(blocks', insert)
      /\ code[at].op # "return" /\ ~Terminated(blocks, insert) => ~Terminated(blocks', insert)
      /\ code[at].op = "return" => Terminated(blocks', insert)
  <2>1. CASE VisitExprStmt
    <3>1. blocks' = PutIf(value[code[at].expr].emits, blocks, insert, Instr) /\ code[at].op # "return"
      BY <2>1 DEF VisitExprStmt, Visiting
    <3> QED
      BY <1>2, <3>1, InstrFacts
  <2>2. CASE VisitVariableDecl
    <3>1. blocks' = PutIf(TRUE, blocks, insert, Instr) /\ code[at].op # "return"
      BY <2>2 DEF VisitVariableDecl, Visiting, PutIf
    <3> QED
      BY <1>2, <3>1, InstrFacts
  <2>3. CASE VisitReturnStmt
    <3>1. /\ blocks' = Put(PutIf(Generated(code[at].expr).emits, blocks, insert, Instr), insert, Ret)
          /\ code[at].op = "return"
      BY <2>3 DEF VisitReturnStmt, Visiting
    <3> QED
      BY <1>2, <1>5, <3>1, TerminatorFacts
  <2> QED
    BY <2>1, <2>2, <2>3
<1>7. code[at].op \notin {"else", "end"}
  BY <1>1
<1>8. \A y : y = at + 1 => Placed(blocks', insert, open, y, gen)
  BY <1>1, <1>3, <1>4, <1>6, <1>7, VisitStays
<1> QED
  BY <1>1, <1>8

LEMMA VisitElseKept ==
  ASSUME Here(blocks, insert, open, at, gen), VisitElse
  PROVE  Placed(blocks', insert', open', at', gen)
<1> DEFINE k == Len(open)
<1>1. /\ code[at].op = "else" /\ at \in 1..Len(code) /\ code[at].fn = gen
      /\ blocks' = Branch(blocks, insert, Last(open).next)
      /\ insert' = Last(open).els /\ open' = open /\ at' = at + 1
  BY DEF Here, VisitElse, Visiting
<1>2. /\ Len(code) \in Nat /\ at \in Nat /\ code[at].depth \in Nat
      /\ k = Before(at) /\ blocks \in Seq(Bodies) /\ insert \in 1..Len(blocks)
      /\ Targets(blocks, Len(blocks)) /\ \A d \in 0..k - 1 : open[d + 1] \in Entry
  BY HereFacts
<1>3. k = code[at].depth + 1 /\ After(at) = k /\ k = Len(open)
  BY <1>1, <1>2 DEF After, Before
<1>4. /\ SemaType /\ Levels /\ phase = "codegen" /\ open \in Seq(Entry)
      /\ Entries(blocks, open, at) /\ Fine(blocks, insert, Waiting(at, open))
  BY DEF Here, Placed
<1> HIDE DEF k
<1>5. PendingElse(at, code[at].depth) /\ \A y : y = at + 1 => ~PendingElse(y, code[at].depth)
  BY <1>1, <1>4, PendingHere
<1>6. ASSUME NEW top, top = code[at].depth, NEW b, b = at + 1
      PROVE  Placed(blocks', Last(open).els, open, b, gen)
  <2>1. /\ top \in Nat /\ k = top + 1 /\ Last(open) = open[top + 1]
        /\ top \in 0..k - 1 /\ open[top + 1] \in Entry
    BY <1>2, <1>3, <1>6 DEF Last
  <2>2. PendingElse(at, top) /\ ~PendingElse(b, top)
    BY <1>5, <1>6
  <2>3. Waiting(at, open)[top] = {open[top + 1].els, open[top + 1].next}
    BY <1>3, <2>1, <2>2 DEF Waiting
  <2>4. Waiting(b, open)[top] = {open[top + 1].next}
    BY <1>3, <2>1, <2>2 DEF Waiting
  <2>5. open[top + 1].els # open[top + 1].next
    BY <1>3, <1>4, <2>1, <2>2 DEF Entries
  <2>6. open[top + 1].next \in 1..Len(blocks)
    <3>1. top \in DOMAIN Waiting(at, open)
      BY <1>3, <2>1 DEF Waiting
    <3> QED
      BY <1>4, <2>3, <3>1 DEF Fine
  <2>7. open[top + 1].next \in Nat
    BY <2>1 DEF Entry
  <2>8. /\ Changed(blocks, blocks', insert) /\ Terminated(blocks', insert)
        /\ Straight(blocks, insert) => Straight(blocks', insert)
        /\ Targets(blocks', Len(blocks))
    BY <1>1, <1>2, <2>1, <2>6, <2>7, BranchFacts
  <2>9. /\ Last(open).els \in Waiting(at, open)[top]
        /\ Waiting(b, open)[top] = Waiting(at, open)[top] \ {Last(open).els}
    BY <2>1, <2>3, <2>4, <2>5
  <2>10. Len(open) = After(at) /\ Len(open) = top + 1 /\ Len(open) # top
    BY <1>3, <2>1
  <2>11. Resumes(open, at, open, b, top, Last(open).els)
    BY <1>1, <1>4, <1>6, <2>1, <2>2, <2>9, <2>10 DEF Resumes
  <2> QED
    BY <2>8, <2>11, VisitResumes
<1> QED
  BY <1>1, <1>6

LEMMA VisitEndKept ==
  ASSUME Here(blocks, insert, open, at, gen), VisitEnd
  PROVE  Placed(blocks', insert', open', at', gen)
<1> DEFINE k == Len(open)
<1>1. /\ code[at].op = "end" /\ at \in 1..Len(code) /\ code[at].fn = gen
      /\ blocks' = Branch(blocks, insert, Last(open).back)
      /\ insert' = Last(open).next /\ open' = Front(open) /\ at' = at + 1
  BY DEF Here, VisitEnd, Visiting
<1>2. /\ Len(code) \in Nat /\ at \in Nat /\ code[at].depth \in Nat
      /\ k = Before(at) /\ blocks \in Seq(Bodies) /\ insert \in 1..Len(blocks)
      /\ Targets(blocks, Len(blocks)) /\ \A d \in 0..k - 1 : open[d + 1] \in Entry
  BY HereFacts
<1>3. k = code[at].depth + 1 /\ After(at) = code[at].depth /\ k = Len(open)
  BY <1>1, <1>2 DEF After, Before
<1>4. /\ SemaType /\ Levels /\ phase = "codegen" /\ open \in Seq(Entry)
      /\ Entries(blocks, open, at) /\ Fine(blocks, insert, Waiting(at, open))
  BY DEF Here, Placed
<1>5. /\ Front(open) \in Seq(Entry) /\ Len(Front(open)) = k - 1
      /\ \A i \in 1..k - 1 : Front(open)[i] = open[i]
  <2>1. open # <<>>
    BY <1>2, <1>3, EmptySeq
  <2> QED
    BY <1>4, <2>1, Popped DEF Front
<1> HIDE DEF k
<1>6. ~PendingElse(at, code[at].depth)
  BY <1>1, <1>4, PendingHere
<1>7. ASSUME NEW top, top = code[at].depth, NEW b, b = at + 1
      PROVE  Placed(blocks', Last(open).next, Front(open), b, gen)
  <2>1. /\ top \in Nat /\ k = top + 1 /\ Last(open) = open[top + 1]
        /\ top \in 0..k - 1 /\ open[top + 1] \in Entry
    BY <1>2, <1>3, <1>7 DEF Last
  <2>2. ~PendingElse(at, top)
    BY <1>6, <1>7
  <2>3. Waiting(at, open)[top] = {open[top + 1].next}
    BY <1>3, <2>1, <2>2 DEF Waiting
  <2>4. open[top + 1].back \in 1..Len(blocks) /\ open[top + 1].back \in Nat
    BY <1>3, <1>4, <2>1 DEF Entries, Entry
  <2>5. /\ Changed(blocks, blocks', insert) /\ Terminated(blocks', insert)
        /\ Straight(blocks, insert) => Straight(blocks', insert)
        /\ Targets(blocks', Len(blocks))
    BY <1>1, <1>2, <2>1, <2>4, BranchFacts
  <2>6. /\ Last(open).next \in Waiting(at, open)[top]
        /\ Waiting(at, open)[top] = {Last(open).next}
    BY <2>1, <2>3
  <2>7. Len(open) = top + 1 /\ Len(Front(open)) = After(at) /\ Len(Front(open)) = top
    BY <1>2, <1>3, <1>5, <1>7
  <2>8. \A i \in 1..Len(Front(open)) : Front(open)[i] = open[i]
    BY <1>2, <1>3, <1>5, <1>7, <2>7
  <2>9. Resumes(open, at, Front(open), b, top, Last(open).next)
    BY <1>1, <1>5, <1>7, <2>1, <2>6, <2>7, <2>8 DEF Resumes
  <2> QED
    BY <2>5, <2>9, VisitResumes
<1> QED
  BY <1>1, <1>7

(* A condition, and the branch on it *)
LEMMA BranchOnFacts ==
  ASSUME NEW bs \in Seq(Bodies), NEW b \in 1..Len(bs), NEW emits, NEW some,
         NEW item \in Items, item.op \in {"ret", "br"}
  PROVE  LET cs == Put(PutIf(some, PutIf(emits, bs, b, Instr), b, Instr), b, item)
         IN  /\ Changed(bs, cs, b) /\ Terminated(cs, b)
             /\ Straight(bs, b) /\ ~Terminated(bs, b) => Straight(cs, b)
             /\ \A m : Targets(bs, m) /\ item.to \subseteq 1..m => Targets(cs, m)
<1> DEFINE ms == PutIf(emits, bs, b, Instr)
           cs == Put(PutIf(some, ms, b, Instr), b, item)
<1>1. /\ Changed(bs, ms, b) /\ (~Terminated(bs, b) => ~Terminated(ms, b))
      /\ Straight(bs, b) /\ ~Terminated(bs, b) => Straight(ms, b)
      /\ \A m : Targets(bs, m) => Targets(ms, m)
  BY InstrFacts
<1>2. ms \in Seq(Bodies) /\ b \in 1..Len(ms)
  BY <1>1 DEF Changed
<1> HIDE DEF ms
<1>3. /\ Changed(ms, cs, b) /\ Terminated(cs, b)
      /\ Straight(ms, b) /\ ~Terminated(ms, b) => Straight(cs, b)
      /\ \A m : Targets(ms, m) /\ item.to \subseteq 1..m => Targets(cs, m)
  BY <1>2, TerminatorFacts
<1>4. Changed(bs, cs, b)
  BY <1>1, <1>3 DEF Changed
<1> QED
  BY <1>1, <1>3, <1>4 DEF ms

LEMMA TargetsMore ==
  ASSUME NEW bs, NEW m \in Nat, NEW n \in Nat, Targets(bs, m), m <= n
  PROVE  Targets(bs, n)
<1>1. 1..m \subseteq 1..n
  OBVIOUS
<1> QED
  BY <1>1 DEF Targets

(* An if or a while that is dropped ends at its end. *)
LEMMA SkipFacts ==
  ASSUME NEW bs, NEW ins, NEW es, NEW a, NEW g, Here(bs, ins, es, a, g), Conditional(a)
  PROVE  /\ Match(a) \in a..Len(code) /\ code[Match(a)].fn = g /\ code[Match(a)].op = "end"
         /\ After(Match(a)) = Len(es)
         /\ \A d \in 0..Len(es) - 1 : PendingElse(Match(a) + 1, d) <=> PendingElse(a, d)
<1> DEFINE e == Match(a)
<1>1. /\ Len(code) \in Nat /\ a \in Nat /\ code[a].depth \in Nat
      /\ Len(es) \in Nat /\ Len(es) = Before(a)
  BY HereFacts
<1>2. SemaType /\ Tree /\ Levels /\ phase = "codegen" /\ a \in 1..Len(code) /\ code[a].fn = g
  BY DEF Here
<1>3. /\ e \in a + 1..Len(code) /\ Ends(e, a)
      /\ \A r \in a + 1..e - 1 : ~Ends(r, a)
  BY <1>2, MatchFacts
<1> HIDE DEF e
<1>4. e \in 1..Len(code) /\ a < e /\ e # 0
  BY <1>1, <1>3
<1>5. code[e].fn = g
  BY <1>2, <1>3, <1>4 DEF Tree, Nested
<1>6. Len(es) = code[a].depth
  BY <1>1 DEF Before, Conditional
<1>7. After(e) = Len(es)
  BY <1>3, <1>4, <1>6 DEF After, Ends
<1>8. \A d \in 0..Len(es) - 1 : d \in Nat /\ d < code[a].depth
  BY <1>1, <1>6
<1>9. \A d \in 0..Len(es) - 1 : PendingElse(Match(a) + 1, d) <=> PendingElse(a, d)
  BY <1>2, <1>8, PendingSkip
<1>10. e \in a..Len(code) /\ code[e].op = "end"
  BY <1>1, <1>3 DEF Ends
<1> QED
  BY <1>5, <1>7, <1>9, <1>10 DEF e

LEMMA VisitIfKept ==
  ASSUME Here(blocks, insert, open, at, gen), VisitIfStmt
  PROVE  Placed(blocks', insert', open', at', gen)
<1> DEFINE n     == Len(blocks)
           cond  == value[code[at].expr]
           merge == IF Elses(at) = {} THEN n + 2 ELSE n + 3
           entry == [els |-> n + 2, next |-> merge, back |-> merge]
           cs    == Put(PutIf(~cond.const, PutIf(cond.emits, blocks, insert, Instr), insert, Instr),
                        insert, Br({n + 1, n + 2}))
<1>1. /\ code[at].op = "if" /\ Conditional(at) /\ at \in 1..Len(code) /\ code[at].fn = gen
  BY DEF Here, VisitIfStmt, Visiting, Conditional
<1>2. /\ Len(code) \in Nat /\ at \in Nat /\ code[at].depth \in Nat
      /\ Len(open) \in Nat /\ Len(open) = Before(at)
      /\ blocks \in Seq(Bodies) /\ n \in Nat /\ insert \in 1..n /\ n = Len(blocks)
      /\ Targets(blocks, n)
  BY HereFacts
<1>3. CASE ~Usable(cond)
  <2>1. /\ blocks' = PutIf(cond.emits, blocks, insert, Instr)
        /\ insert' = insert /\ open' = open /\ at' = Match(at) + 1
    BY <1>3 DEF VisitIfStmt
  <2>2. /\ Changed(blocks, blocks', insert) /\ Targets(blocks', Len(blocks))
        /\ ~Terminated(blocks, insert) => ~Terminated(blocks', insert)
        /\ Straight(blocks, insert) /\ ~Terminated(blocks, insert) => Straight(blocks', insert)
    BY <1>2, <2>1, InstrFacts
  <2>3. ASSUME NEW p, p = Match(at), NEW b, b = p + 1
        PROVE  Placed(blocks', insert, open, b, gen)
    <3>1. /\ p \in at..Len(code) /\ code[p].fn = gen /\ code[p].op = "end" /\ After(p) = Len(open)
          /\ \A d \in 0..Len(open) - 1 : PendingElse(b, d) <=> PendingElse(at, d)
      BY <1>1, <2>3, SkipFacts
    <3>2. code[at].op \notin {"else", "end"}
      BY <1>1
    <3> QED
      BY <2>2, <2>3, <3>1, <3>2, VisitStays
  <2> QED
    BY <2>1, <2>3
<1>4. CASE Usable(cond)
  <2>1. /\ insert' = n + 1 /\ open' = Append(open, entry) /\ at' = at + 1
        /\ blocks' = cs \o NewBlocks(merge - n)
    <3>1. n + 2 + 1 = n + 3
      BY <1>2
    <3> QED
      BY <1>2, <1>4, <3>1 DEF VisitIfStmt
  <2>2. Br({n + 1, n + 2}) \in Items /\ Br({n + 1, n + 2}).op = "br" /\ Br({n + 1, n + 2}).to = {n + 1, n + 2}
    BY <1>2 DEF Br, Items
  <2>3. /\ Changed(blocks, cs, insert) /\ Terminated(cs, insert)
        /\ Straight(blocks, insert) /\ ~Terminated(blocks, insert) => Straight(cs, insert)
        /\ \A m : Targets(blocks, m) /\ Br({n + 1, n + 2}).to \subseteq 1..m => Targets(cs, m)
    <3>1. cs = Put(PutIf(~cond.const, PutIf(cond.emits, blocks, insert, Instr), insert, Instr),
                   insert, Br({n + 1, n + 2}))
      OBVIOUS
    <3>2. Br({n + 1, n + 2}).op \in {"ret", "br"} /\ insert \in 1..Len(blocks)
      BY <1>2, <2>2
    <3> HIDE DEF cs, n, cond
    <3> QED
      BY <1>2, <2>2, <3>1, <3>2, BranchOnFacts
  <2>4. cs \in Seq(Bodies) /\ Len(cs) = n
    BY <2>3 DEF Changed
  <2>5. /\ merge \in Nat /\ (merge = n + 2 \/ merge = n + 3)
        /\ merge = IF Elses(at) = {} THEN n + 2 ELSE n + 3
    BY <1>2
  <2>6. entry \in Entry /\ entry.els = n + 2 /\ entry.next = merge /\ entry.back = merge
    BY <1>2, <2>5 DEF Entry
  <2> HIDE DEF cs, entry, merge, n
  <2>7. merge - n \in Nat /\ n + (merge - n) = merge
    BY <1>2, <2>5
  <2>8. /\ blocks' \in Seq(Bodies) /\ Len(blocks') = merge
        /\ \A b \in 1..n : blocks'[b] = cs[b]
        /\ \A b \in n + 1..merge : blocks'[b] = <<>>
        /\ \A m : Targets(cs, m) => Targets(blocks', m)
    BY <2>1, <2>4, <2>7, NewBlocksFacts
  <2>9. Targets(blocks', Len(blocks'))
    <3>1. Targets(blocks, merge)
      BY <1>2, <2>5, TargetsMore
    <3>2. {n + 1, n + 2} \subseteq 1..merge
      BY <1>2, <2>5
    <3> QED
      BY <2>2, <2>3, <2>8, <3>1, <3>2
  <2>10. ASSUME NEW b \in n + 1..merge
         PROVE  ~Terminated(blocks', b) /\ Straight(blocks', b)
    <3>1. blocks'[b] = <<>> /\ Len(blocks'[b]) = 0
      BY <2>8, EmptySeq
    <3> QED
      BY <3>1 DEF Terminated, Straight
  <2>11. Moves(blocks, insert, blocks', n + 1, {n + 2, merge})
    <3>1. \A b \in 1..n : b # insert => blocks'[b] = blocks[b]
      BY <1>2, <2>3, <2>8 DEF Changed
    <3>2. /\ Terminated(blocks', insert)
          /\ Straight(blocks, insert) /\ ~Terminated(blocks, insert) => Straight(blocks', insert)
      BY <1>2, <2>3, <2>8 DEF Terminated, Straight
    <3>3. /\ n <= merge /\ n + 1 \in n + 1..merge /\ {n + 2, merge} \in SUBSET (n + 1..merge)
          /\ n + 1 \notin {n + 2, merge}
          /\ \A b \in n + 1..merge : b = n + 1 \/ b \in {n + 2, merge}
      BY <1>2, <2>5
    <3> QED
      BY <1>2, <2>8, <2>9, <2>10, <3>1, <3>2, <3>3 DEF Moves
  <2>12. /\ Len(open') = Len(open) + 1 /\ open' \in Seq(Entry)
         /\ \A i \in 1..Len(open) : open'[i] = open[i]
         /\ open'[Len(open) + 1] = entry
    <3>1. open \in Seq(Entry)
      BY DEF Here, Placed
    <3> QED
      BY <2>1, <2>6, <3>1, AppendProperties
  <2>13. Len(open) = code[at].depth /\ After(at) = Len(open) + 1
    BY <1>1, <1>2 DEF Before, After
  <2>14. ASSUME NEW b, b = at + 1, NEW k, k = Len(open)
         PROVE  Opens(open, at, open', at, b, gen, merge, {n + 2, merge})
    <3>1. PendingElse(b, k) <=> Elses(at) # {}
      <4>1. PendingElse(b, code[at].depth) <=> Elses(at) # {}
        BY <1>1, <2>14, PendingIf DEF Here
      <4> QED
        BY <2>13, <2>14, <4>1
    <3>2. k \in 0..Len(open') - 1 /\ open'[k + 1] = entry
      BY <1>2, <2>12, <2>14
    <3>3. Waiting(b, open')[k] = IF PendingElse(b, k) THEN {entry.els, entry.next} ELSE {entry.next}
      BY <3>2 DEF Waiting
    <3>4. Waiting(b, open')[k] = {n + 2, merge}
      BY <2>5, <2>6, <3>1, <3>3
    <3>5. PendingElse(b, k) => entry.els # entry.next
      BY <1>2, <2>5, <2>6, <3>1
    <3>6. entry.back \in 1..merge
      BY <1>2, <2>5, <2>6
    <3>7. \A d \in 0..Len(open) - 1 : PendingElse(b, d) <=> PendingElse(at, d)
      <4>1. \A d \in 0..Len(open) - 1 : d \in Nat
        BY <1>2
      <4>2. SemaType /\ ~(code[at].op \in {"else", "end"})
        BY <1>1 DEF Here
      <4> QED
        BY <1>1, <2>14, <4>1, <4>2, PendingNext
    <3>8. at \in at..Len(code) /\ code[at].op # "return"
      BY <1>1, <1>2
    <3>9. Len(open') # Len(open) /\ Len(open) <= Len(open') /\ Len(open') <= Len(open) + 1
      BY <1>2, <2>12
    <3> QED
      BY <1>1, <2>12, <2>13, <2>14, <3>2, <3>4, <3>5, <3>6, <3>7, <3>8, <3>9 DEF Opens
  <2>15. code[at].op \notin {"else", "end"}
    BY <1>1
  <2>16. \A b : b = at + 1 => Placed(blocks', n + 1, open', b, gen)
    BY <2>8, <2>11, <2>14, <2>15, VisitOpens
  <2> QED
    BY <2>1, <2>16
<1> QED
  BY <1>3, <1>4

LEMMA VisitWhileKept ==
  ASSUME Here(blocks, insert, open, at, gen), VisitWhileStmt
  PROVE  Placed(blocks', insert', open', at', gen)
<1> DEFINE n     == Len(blocks)
           head  == n + 1
           cond  == value[code[at].expr]
           left  == Put(blocks, insert, Br({head}))
           enter == Append(left, <<>>)
           after == PutIf(cond.emits, enter, head, Instr)
           entry == [els |-> 0, next |-> n + 3, back |-> head]
           cs    == Put(PutIf(~cond.const, PutIf(cond.emits, enter, head, Instr), head, Instr),
                        head, Br({n + 2, n + 3}))
<1>1. /\ code[at].op = "while" /\ Conditional(at) /\ at \in 1..Len(code) /\ code[at].fn = gen
      /\ code[at].op \notin {"else", "end"}
  BY DEF Here, VisitWhileStmt, Visiting, Conditional
<1>2. /\ Len(code) \in Nat /\ at \in Nat /\ code[at].depth \in Nat
      /\ Len(open) \in Nat /\ Len(open) = Before(at)
      /\ blocks \in Seq(Bodies) /\ n \in Nat /\ insert \in 1..n /\ n = Len(blocks)
      /\ Targets(blocks, n) /\ open \in Seq(Entry)
  <2>1. open \in Seq(Entry)
    BY DEF Here, Placed
  <2> QED
    BY <2>1, HereFacts
<1>3. /\ head = n + 1 /\ head + 1 = n + 2 /\ head + 2 = n + 3
  BY <1>2
<1>4. IF Usable(cond)
        THEN /\ blocks' = cs \o NewBlocks(2) /\ insert' = n + 2
             /\ open' = Append(open, entry) /\ at' = at + 1
        ELSE blocks' = after /\ insert' = head /\ at' = Match(at) + 1 /\ open' = open
  BY <1>3 DEF VisitWhileStmt
<1> HIDE DEF n, head, cond
\* the branch into the condition's block
<1>5. Br({head}) \in Items /\ Br({head}).op = "br" /\ Br({head}).to = {head}
  BY <1>2, <1>3 DEF Br, Items
<1>6. /\ Changed(blocks, left, insert) /\ left[insert] # <<>> /\ Last(left[insert]).op = "br"
      /\ Straight(blocks, insert) /\ ~Terminated(blocks, insert) => Straight(left, insert)
      /\ \A m : Targets(blocks, m) /\ Br({head}).to \subseteq 1..m => Targets(left, m)
  <2>1. insert \in 1..Len(blocks)
    BY <1>2
  <2> QED
    BY <1>2, <1>5, <2>1, PutFacts
<1>7. left \in Seq(Bodies) /\ Len(left) = n /\ Terminated(left, insert)
  BY <1>2, <1>6 DEF Changed, Terminated
<1> HIDE DEF left
<1>8. /\ enter \in Seq(Bodies) /\ Len(enter) = n + 1
      /\ \A b \in 1..n : enter[b] = left[b]
      /\ enter[n + 1] = <<>> /\ Len(enter[n + 1]) = 0
  <2>1. <<>> \in Bodies
    BY EmptySeq DEF Bodies
  <2> QED
    BY <1>7, <2>1, AppendProperties, EmptySeq
<1>9. ~Terminated(enter, head) /\ Straight(enter, head) /\ head \in 1..Len(enter)
  BY <1>2, <1>3, <1>8 DEF Terminated, Straight
<1>10. \A m : Targets(left, m) => Targets(enter, m)
  <2> HIDE DEF enter
  <2>1. ASSUME NEW m, Targets(left, m), NEW b \in 1..n + 1, NEW i \in 1..Len(enter[b])
        PROVE  enter[b][i].to \subseteq 1..m
    <3>1. CASE b \in 1..n
      BY <1>7, <1>8, <2>1, <3>1 DEF Targets
    <3>2. CASE b = n + 1
      <4>1. Len(enter[b]) = 0
        BY <1>8, <3>2
      <4> QED
        BY <2>1, <4>1
    <3> QED
      BY <1>2, <3>1, <3>2
  <2> QED
    BY <1>8, <2>1 DEF Targets
<1>11. ASSUME NEW m \in Nat, n + 1 <= m
       PROVE  Targets(enter, m)
  <2>1. n <= m /\ Br({head}).to \subseteq 1..m
    <3>1. n <= m /\ head \in 1..m
      BY <1>2, <1>3, <1>11
    <3>2. {head} \subseteq 1..m
      BY <3>1
    <3> QED
      BY <1>5, <3>1, <3>2
  <2>2. Targets(blocks, m)
    BY <1>2, <1>11, <2>1, TargetsMore
  <2>3. Targets(left, m)
    BY <1>6, <2>1, <2>2
  <2> QED
    BY <1>10, <2>3
<1>12. /\ \A b \in 1..n : b # insert => left[b] = blocks[b]
       /\ Terminated(enter, insert)
       /\ Straight(blocks, insert) /\ ~Terminated(blocks, insert) => Straight(enter, insert)
  BY <1>2, <1>6, <1>7, <1>8 DEF Changed, Terminated, Straight
<1> HIDE DEF enter
<1>13. CASE ~Usable(cond)
  <2>1. /\ Changed(enter, after, head) /\ ~Terminated(after, head) /\ Straight(after, head)
        /\ \A m : Targets(enter, m) => Targets(after, m)
    BY <1>8, <1>9, InstrFacts
  <2>2. after \in Seq(Bodies) /\ Len(after) = n + 1 /\ \A b \in 1..n : after[b] = enter[b]
    BY <1>2, <1>3, <1>8, <2>1 DEF Changed
  <2> HIDE DEF after
  <2>3. Targets(after, n + 1)
    BY <1>2, <1>11, <2>1
  <2>4. Moves(blocks, insert, after, head, {})
    <3>1. \A b \in 1..n : b # insert => after[b] = blocks[b]
      BY <1>8, <1>12, <2>2
    <3>2. /\ Terminated(after, insert)
          /\ Straight(blocks, insert) /\ ~Terminated(blocks, insert) => Straight(after, insert)
      BY <1>2, <1>12, <2>2 DEF Terminated, Straight
    <3>3. n <= n + 1 /\ head \in n + 1..n + 1 /\ \A b \in n + 1..n + 1 : b = head
      BY <1>2, <1>3
    <3> QED
      BY <1>2, <2>1, <2>2, <2>3, <3>1, <3>2, <3>3 DEF Moves
  <2>5. ASSUME NEW p, p = Match(at), NEW b, b = p + 1
        PROVE  Placed(after, head, open, b, gen)
    <3>1. /\ p \in at..Len(code) /\ code[p].fn = gen /\ code[p].op = "end" /\ After(p) = Len(open)
          /\ \A d \in 0..Len(open) - 1 : PendingElse(b, d) <=> PendingElse(at, d)
      BY <1>1, <2>5, SkipFacts
    <3>2. Opens(open, at, open, p, b, gen, Len(after), {})
      BY <1>2, <2>5, <3>1 DEF Opens
    <3> QED
      BY <1>1, <2>4, <3>2, VisitOpens
  <2> QED
    BY <1>4, <1>13, <2>5
<1>14. CASE Usable(cond)
  <2>1. /\ Br({n + 2, n + 3}) \in Items /\ Br({n + 2, n + 3}).op \in {"ret", "br"}
        /\ Br({n + 2, n + 3}).to = {n + 2, n + 3}
    BY <1>2 DEF Br, Items
  <2>2. /\ Changed(enter, cs, head) /\ Terminated(cs, head) /\ Straight(cs, head)
        /\ \A m : Targets(enter, m) /\ Br({n + 2, n + 3}).to \subseteq 1..m => Targets(cs, m)
    BY <1>8, <1>9, <2>1, BranchOnFacts
  <2>3. cs \in Seq(Bodies) /\ Len(cs) = n + 1 /\ \A b \in 1..n : cs[b] = enter[b]
    <3>1. \A b \in 1..n : b \in 1..n + 1 /\ b # head
      BY <1>2, <1>3
    <3> HIDE DEF cs
    <3> QED
      BY <1>8, <2>2, <3>1 DEF Changed
  <2> HIDE DEF cs
  <2>4. entry \in Entry /\ entry.next = n + 3 /\ entry.back = n + 1
    BY <1>2, <1>3 DEF Entry
  <2> HIDE DEF entry
  <2>5. /\ blocks' \in Seq(Bodies) /\ Len(blocks') = n + 3
        /\ \A b \in 1..n + 1 : blocks'[b] = cs[b]
        /\ \A b \in n + 2..n + 3 : blocks'[b] = <<>>
        /\ \A m : Targets(cs, m) => Targets(blocks', m)
    <3>1. n + 1 + 2 = n + 3 /\ n + 1 + 1 = n + 2
      BY <1>2
    <3>2. blocks' = cs \o NewBlocks(2)
      BY <1>4, <1>14
    <3>3. /\ blocks' \in Seq(Bodies) /\ Len(blocks') = Len(cs) + 2
          /\ \A b \in 1..Len(cs) : blocks'[b] = cs[b]
          /\ \A b \in Len(cs) + 1..Len(cs) + 2 : blocks'[b] = <<>>
          /\ \A m : Targets(cs, m) => Targets(blocks', m)
      BY <2>3, <3>2, NewBlocksFacts
    <3> QED
      BY <2>3, <3>1, <3>3
  <2>6. Targets(blocks', n + 3)
    <3>1. n + 3 \in Nat /\ n + 1 <= n + 3 /\ {n + 2, n + 3} \subseteq 1..n + 3
      BY <1>2
    <3>2. Targets(enter, n + 3)
      BY <1>11, <3>1
    <3> QED
      BY <2>1, <2>2, <2>5, <3>1, <3>2
  <2>7. ASSUME NEW b \in n + 2..n + 3
        PROVE  ~Terminated(blocks', b) /\ Straight(blocks', b)
    <3>1. blocks'[b] = <<>> /\ Len(blocks'[b]) = 0
      BY <2>5, EmptySeq
    <3> QED
      BY <3>1 DEF Terminated, Straight
  <2>8. Moves(blocks, insert, blocks', n + 2, {n + 3})
    <3>1. \A b \in 1..n : b \in 1..n + 1 /\ blocks'[b] = enter[b]
      BY <1>2, <2>3, <2>5
    <3>2. \A b \in 1..n : b # insert => blocks'[b] = blocks[b]
      BY <1>8, <1>12, <3>1
    <3>3. /\ Terminated(blocks', insert)
          /\ Straight(blocks, insert) /\ ~Terminated(blocks, insert) => Straight(blocks', insert)
      BY <1>2, <1>12, <3>1 DEF Terminated, Straight
    <3>4. Terminated(blocks', n + 1) /\ Straight(blocks', n + 1)
      <4>1. n + 1 \in 1..n + 1 /\ head = n + 1
        BY <1>2, <1>3
      <4>2. blocks'[n + 1] = cs[head]
        BY <2>5, <4>1
      <4> QED
        BY <2>2, <4>1, <4>2 DEF Terminated, Straight
    <3>5. /\ n <= n + 3 /\ n + 2 \in n + 1..n + 3 /\ {n + 3} \in SUBSET (n + 1..n + 3)
          /\ n + 2 \notin {n + 3} /\ n + 2 \in n + 2..n + 3 /\ n + 3 \in n + 2..n + 3
          /\ \A b \in n + 1..n + 3 : b = n + 1 \/ b = n + 2 \/ b = n + 3
      BY <1>2
    <3>6. \A b \in n + 1..n + 3 :
            (b = n + 2 \/ b \in {n + 3} \/ Terminated(blocks', b)) /\ Straight(blocks', b)
      BY <2>7, <3>4, <3>5
    <3>7. \A b \in {n + 3} : blocks'[b] = <<>>
      BY <2>5, <3>5
    <3> QED
      BY <1>2, <2>5, <2>6, <2>7, <3>2, <3>3, <3>5, <3>6, <3>7 DEF Moves
  <2>9. /\ Len(open') = Len(open) + 1 /\ open' \in Seq(Entry)
        /\ \A i \in 1..Len(open) : open'[i] = open[i]
        /\ open'[Len(open) + 1] = entry
    <3>1. open' = Append(open, entry)
      BY <1>4, <1>14
    <3> QED
      BY <1>2, <2>4, <3>1, AppendProperties
  <2>10. Len(open) = code[at].depth /\ After(at) = Len(open) + 1
    BY <1>1, <1>2 DEF Before, After
  <2>11. ASSUME NEW b, b = at + 1, NEW k, k = Len(open), NEW m, m = Len(blocks')
         PROVE  Opens(open, at, open', at, b, gen, m, {n + 3})
    <3>1. ~PendingElse(b, k)
      <4>1. ~PendingElse(b, code[at].depth)
        BY <1>1, <2>11, PendingHere DEF Here
      <4> QED
        BY <2>10, <2>11, <4>1
    <3>2. k \in 0..Len(open') - 1 /\ open'[k + 1] = entry
      BY <1>2, <2>9, <2>11
    <3>3. Waiting(b, open')[k] = IF PendingElse(b, k) THEN {entry.els, entry.next} ELSE {entry.next}
      BY <3>2, <2>11 DEF Waiting
    <3>4. Waiting(b, open')[k] = {n + 3}
      BY <2>4, <3>1, <3>3
    <3>5. entry.back \in 1..m
      BY <1>2, <2>4, <2>5, <2>11
    <3>6. \A d \in 0..Len(open) - 1 : PendingElse(b, d) <=> PendingElse(at, d)
      <4>1. \A d \in 0..Len(open) - 1 : d \in Nat
        BY <1>2
      <4>2. SemaType /\ ~(code[at].op \in {"else", "end"})
        BY <1>1 DEF Here
      <4> QED
        BY <1>1, <2>11, <4>1, <4>2, PendingNext
    <3>7. at \in at..Len(code) /\ code[at].op # "return"
      BY <1>1, <1>2
    <3>8. Len(open') # Len(open) /\ Len(open) <= Len(open') /\ Len(open') <= Len(open) + 1
      BY <1>2, <2>9
    <3> QED
      BY <1>1, <2>9, <2>10, <2>11, <3>1, <3>2, <3>4, <3>5, <3>6, <3>7, <3>8 DEF Opens
  <2>12. \A b : b = at + 1 => Placed(blocks', n + 2, open', b, gen)
    BY <1>1, <2>8, <2>11, VisitOpens
  <2> QED
    BY <1>4, <1>14, <2>12
<1> QED
  BY <1>13, <1>14

-----------------------------------------------------------------------------
(* What a function leaves behind *)
Left(bs, ins, es, g) ==
  /\ es = <<>> /\ bs \in Seq(Bodies) /\ Targets(bs, Len(bs)) /\ ins \in 1..Len(bs)
  /\ \A b \in 1..Len(bs) : b = ins \/ Terminated(bs, b)
  /\ Disciplined(g) => \A b \in 1..Len(bs) : WellFormed(bs[b])

Building ==
  /\ at = 0 /\ gen = 1 => blocks = <<>> /\ insert = 0 /\ open = <<>>
  /\ at = 0 => \A g \in Nat \ {0} : gen = g + 1 => Left(blocks, insert, open, g)
  /\ at # 0 => Placed(blocks, insert, open, at, gen)

LEMMA BuildingInit == ASSUME Init PROVE Building
BY DEF Init, CodegenInit, Building

LEMMA WellFormedIs ==
  ASSUME NEW bs \in Seq(Bodies), NEW b \in 1..Len(bs), Straight(bs, b), Terminated(bs, b)
  PROVE  WellFormed(bs[b])
<1> DEFINE s == bs[b]
           l == Len(s)
<1>1. s \in Seq(Items) /\ s # <<>>
  BY ElementOfSeq DEF Bodies, Terminated
<1>2. l \in Nat \ {0} /\ DOMAIN s = 1..l
  BY <1>1, EmptySeq, LenProperties
<1>3. s[l].op \in {"ret", "br"} /\ \A i \in 1..l - 1 : s[i].op = "instr"
  BY DEF Straight, Terminated, Last
<1> HIDE DEF l, s
<1>4. \A i \in 1..l : s[i].op \in {"ret", "br"} <=> i = l
  <2>1. \A i \in 1..l : i = l \/ i \in 1..l - 1
    BY <1>2
  <2> QED
    BY <1>2, <1>3, <2>1
<1> QED
  BY <1>1, <1>2, <1>4 DEF WellFormed, s, l

LEMMA Starts ==
  ASSUME SemaType, Tree, Levels, Generation, StartFunction
  PROVE  Placed(blocks', insert', open', at', gen)
<1> DEFINE c == Len(code)
           one == << <<>> >>
<1>1. /\ blocks' = one /\ insert' = 1 /\ open' = <<>> /\ phase = "codegen"
      /\ at' = Cardinality({q \in DOMAIN code : code[q].fn < gen}) + 1
  BY DEF StartFunction
<1>2. c \in Nat /\ gen \in Nat /\ Sorted /\ c = Len(code) /\ \A q \in 1..c : code[q].fn \in Nat
  <2>1. \A q \in 1..c : code[q].fn \in 1..fn
    BY DEF SemaType, StatementOK
  <2>2. Len(functions) \in Nat
    BY FunctionFacts DEF SemaType
  <2> QED
    BY <1>1, <2>1, <2>2, SeqFacts DEF SemaType, Tree, Generation
<1>3. at' \in 1..c + 1 /\ \A q \in 1..c : q < at' <=> code[q].fn < gen
  BY <1>1, <1>2, FirstStatement
<1>4. one \in Seq(Bodies) /\ Len(one) = 1 /\ one[1] = <<>> /\ Len(one[1]) = 0
  <2>1. <<>> \in Seq(Items) /\ Len(<<>>) = 0
    BY EmptySeq
  <2> QED
    BY <2>1 DEF Bodies
<1>5. <<>> \in Seq(Entry) /\ Len(<<>>) = 0
  BY EmptySeq
<1> HIDE DEF c, one
<1>6. ASSUME NEW a, a = at'
      PROVE  Placed(one, 1, <<>>, a, gen)
  <2>1. a \in 1..c + 1 /\ \A q \in 1..c : q < a <=> code[q].fn < gen
    BY <1>3, <1>6
  <2>2. PICK p \in 0..c : a = p + 1
    <3>1. a - 1 \in 0..c /\ a = (a - 1) + 1
      BY <1>2, <2>1
    <3> QED
      BY <3>1
  <2>3. p # 0 => code[p].fn < gen
    BY <1>2, <2>1, <2>2
  <2>4. a <= c => code[a].fn >= gen
    <3>1. a <= c => a \in 1..c /\ ~(a < a)
      BY <1>2, <2>1
    <3> QED
      BY <1>2, <2>1, <3>1
  <2>5. After(p) = 0
    <3>1. p \in 1..c - 1 => code[p + 1].fn # code[p].fn
      <4>1. SUFFICES ASSUME p \in 1..c - 1 PROVE code[p + 1].fn # code[p].fn
        OBVIOUS
      <4>2. p # 0 /\ a <= c /\ p \in 1..c /\ a \in 1..c
        BY <1>2, <2>2, <4>1
      <4> QED
        BY <1>2, <2>2, <2>3, <2>4, <4>2
    <3> QED
      BY <1>1, <1>2, <2>2, <3>1, Boundary
  <2>6. Located(<<>>, a, gen)
    <3>1. p # 0 => code[p].fn <= gen
      <4>1. p # 0 => p \in 1..c
        BY <1>2
      <4> QED
        BY <1>2, <2>3, <4>1
    <3> QED
      BY <1>2, <1>5, <2>2, <2>4, <2>5, <3>1 DEF Located
  <2>7. Entries(one, <<>>, a)
    BY <1>5 DEF Entries
  <2>8. Fine(one, 1, Waiting(a, <<>>))
    <3>1. DOMAIN Waiting(a, <<>>) = {}
      BY <1>5 DEF Waiting
    <3>2. Targets(one, Len(one))
      BY <1>4 DEF Targets
    <3>3. \A b \in 1..Len(one) : b = 1
      BY <1>4
    <3> QED
      BY <1>4, <3>1, <3>2, <3>3 DEF Fine
  <2>9. Filled(one, 1, a, gen)
    <3>1. AllStraight(one) /\ ~Terminated(one, 1)
      BY <1>4 DEF AllStraight, Straight, Terminated
    <3>2. \A q \in 1..c : a = q + 1 => code[q].fn # gen
      <4>1. \A q \in 1..c : a = q + 1 => q < a
        BY <1>2
      <4> QED
        BY <1>2, <2>1, <4>1
    <3> QED
      BY <1>2, <3>1, <3>2 DEF Filled
  <2> QED
    BY <1>5, <2>6, <2>7, <2>8, <2>9 DEF Placed
<1> QED
  BY <1>1, <1>6

LEMMA Finishes ==
  ASSUME SemaType, Tree, Levels, Generation, Building, FinishFunction
  PROVE  Left(blocks', insert', open', gen)
<1> DEFINE c == Len(code)
           n == Len(blocks)
<1>1. /\ phase = "codegen" /\ at # 0 /\ (at \in DOMAIN code => code[at].fn # gen)
      /\ blocks' = PutIf(functions[gen].spec = "void" /\ ~Terminated(blocks, insert),
                         blocks, insert, Ret)
      /\ insert' = insert /\ open' = open
  BY DEF FinishFunction
<1>2. /\ c \in Nat /\ DOMAIN code = 1..c /\ gen \in Nat /\ Sorted
      /\ \A q \in 1..c : code[q].fn \in Nat
  <2>1. \A q \in 1..c : code[q].fn \in 1..fn
    BY DEF SemaType, StatementOK
  <2>2. Len(functions) \in Nat
    BY FunctionFacts DEF SemaType
  <2> QED
    BY <1>1, <2>1, <2>2, SeqFacts DEF SemaType, Tree, Generation
<1>3. Placed(blocks, insert, open, at, gen)
  BY <1>1 DEF Building
<1>4. Fine(blocks, insert, Waiting(at, open)) /\ Filled(blocks, insert, at, gen) /\ open \in Seq(Entry)
  BY <1>3 DEF Placed
<1>5. /\ blocks \in Seq(Bodies) /\ n \in Nat /\ insert \in 1..n /\ Targets(blocks, n)
  BY <1>4, LenProperties DEF Fine
<1>6. c = Len(code) /\ n = Len(blocks)
  OBVIOUS
<1> HIDE DEF c, n
<1>7. PICK p \in 0..c : /\ at = p + 1 /\ Len(open) = After(p)
                        /\ p # 0 => code[p].fn <= gen
                        /\ at <= c => code[at].fn >= gen
  BY <1>3, <1>6 DEF Placed, Located
<1>8. at <= c => at \in 1..c /\ code[at].fn > gen
  BY <1>1, <1>2, <1>7
<1>9. open = <<>>
  <2>1. p \in 1..c - 1 => code[p + 1].fn # code[p].fn
    <3>1. SUFFICES ASSUME p \in 1..c - 1 PROVE code[p + 1].fn # code[p].fn
      OBVIOUS
    <3>2. p # 0 /\ at <= c /\ p \in 1..c /\ at \in 1..c
      BY <1>2, <1>7, <3>1
    <3> QED
      BY <1>2, <1>7, <1>8, <3>2
  <2>2. Len(open) = 0
    BY <1>1, <1>6, <1>7, <2>1, Boundary
  <2> QED
    BY <1>4, <2>2, EmptySeq
<1>10. \A b \in 1..n : b = insert \/ Terminated(blocks, b)
  <2>1. DOMAIN Waiting(at, open) = {}
    <3>1. Len(open) = 0
      BY <1>9, EmptySeq
    <3> QED
      BY <3>1 DEF Waiting
  <2> QED
    BY <1>4, <1>6, <2>1 DEF Fine
<1>11. /\ Changed(blocks, blocks', insert) /\ Targets(blocks', n)
       /\ Straight(blocks, insert) => Straight(blocks', insert)
       /\ functions[gen].spec = "void" \/ Terminated(blocks, insert) => Terminated(blocks', insert)
  <2>1. CASE functions[gen].spec = "void" /\ ~Terminated(blocks, insert)
    <3>1. blocks' = Put(blocks, insert, Ret) /\ Ret \in Items /\ Ret.op = "ret" /\ Ret.to = {}
      BY <1>1, <2>1 DEF PutIf, Ret, Items
    <3>2. insert \in 1..Len(blocks) /\ Ret.to \subseteq 1..n
      BY <1>5, <1>6, <3>1
    <3>3. /\ Changed(blocks, blocks', insert) /\ blocks'[insert] # <<>>
          /\ Last(blocks'[insert]).op = "ret"
          /\ Straight(blocks, insert) /\ ~Terminated(blocks, insert) => Straight(blocks', insert)
          /\ Targets(blocks', n)
      BY <1>5, <3>1, <3>2, PutFacts
    <3> QED
      BY <2>1, <3>3 DEF Terminated
  <2>2. CASE ~(functions[gen].spec = "void" /\ ~Terminated(blocks, insert))
    <3>1. blocks' = blocks
      BY <1>1, <2>2 DEF PutIf
    <3> QED
      BY <1>5, <2>2, <3>1 DEF Changed
  <2> QED
    BY <2>1, <2>2
<1>12. blocks' \in Seq(Bodies) /\ Len(blocks') = n /\ \A b \in 1..n : b # insert => blocks'[b] = blocks[b]
  BY <1>6, <1>11 DEF Changed
<1>13. \A b \in 1..n : b = insert \/ Terminated(blocks', b)
  BY <1>10, <1>12 DEF Terminated
\* the body of a function that is not void ends with a return
<1>14. ASSUME Disciplined(gen)
       PROVE  Terminated(blocks', insert)
  <2> DEFINE body == {q \in DOMAIN code : code[q].fn = gen}
  <2>1. CASE functions[gen].spec = "void"
    BY <1>11, <2>1
  <2>2. CASE functions[gen].spec # "void"
    <3>1. body # {} /\ code[Max(body)].op = "return"
      BY <1>14, <2>2 DEF Disciplined
    <3>2. \A q \in body : q \in 1..c /\ code[q].fn = gen /\ q <= p
      <4>1. SUFFICES ASSUME NEW q \in 1..c, code[q].fn = gen, ~(q <= p) PROVE FALSE
        BY <1>2
      <4>2. at <= c /\ at \in 1..c /\ (at = q \/ at < q)
        BY <1>2, <1>7, <4>1
      <4>3. code[at].fn <= code[q].fn
        BY <1>2, <1>6, <4>1, <4>2 DEF Sorted
      <4> QED
        BY <1>2, <1>8, <4>1, <4>2, <4>3
    <3>3. body \in SUBSET Nat /\ p \in Nat
      BY <1>2, <3>2
    <3>4. p \in body
      <4>1. PICK q \in body : TRUE
        BY <3>1
      <4>2. p \in 1..c /\ q \in 1..c /\ (q = p \/ q < p)
        BY <1>2, <3>2, <4>1
      <4>3. code[q].fn <= code[p].fn /\ code[p].fn <= gen
        BY <1>2, <1>6, <1>7, <4>2 DEF Sorted
      <4> QED
        BY <1>2, <3>2, <4>2, <4>3
    <3> HIDE DEF body
    <3>5. Max(body) = p
      BY <3>2, <3>3, <3>4, MaxIs
    <3>6. p \in 1..c /\ code[p].fn = gen /\ code[p].op = "return"
      BY <3>1, <3>2, <3>4, <3>5
    <3>7. Terminated(blocks, insert)
      BY <1>4, <1>6, <1>7, <3>6 DEF Filled
    <3> QED
      BY <1>11, <3>7
  <2> QED
    BY <2>1, <2>2
<1>15. ASSUME Disciplined(gen), NEW b \in 1..n
       PROVE  WellFormed(blocks'[b])
  <2>1. AllStraight(blocks)
    BY <1>4, <1>15 DEF Filled
  <2>2. Straight(blocks', b)
    BY <1>5, <1>6, <1>11, <1>12, <2>1 DEF AllStraight, Straight
  <2>3. Terminated(blocks', b)
    BY <1>13, <1>14, <1>15
  <2> QED
    BY <1>12, <2>2, <2>3, WellFormedIs
<1> QED
  BY <1>1, <1>5, <1>9, <1>11, <1>12, <1>13, <1>15 DEF Left

(* What is said of blocks depends on the tree alone. *)
LEMMA SameTree ==
  ASSUME UNCHANGED <<functions, code>>
  PROVE  /\ \A bs, ins, es, a, g : Placed(bs, ins, es, a, g)' <=> Placed(bs, ins, es, a, g)
         /\ \A bs, ins, es, g : Left(bs, ins, es, g)' <=> Left(bs, ins, es, g)
<1>1. \A g : Disciplined(g)' <=> Disciplined(g)
  BY DEF Disciplined
<1>2. \A a, d : PendingElse(a, d)' <=> PendingElse(a, d)
  BY DEF PendingElse
<1>3. \A a, es : Waiting(a, es)' = Waiting(a, es)
  BY <1>2 DEF Waiting
<1>4. \A p : After(p)' = After(p)
  BY DEF After
<1>5. \A es, a, g : Located(es, a, g)' <=> Located(es, a, g)
  BY <1>4 DEF Located
<1>6. \A bs, es, a : Entries(bs, es, a)' <=> Entries(bs, es, a)
  BY <1>2 DEF Entries
<1>7. \A bs, ins, a, g : Filled(bs, ins, a, g)' <=> Filled(bs, ins, a, g)
  BY <1>1 DEF Filled
<1> QED
  BY <1>1, <1>3, <1>5, <1>6, <1>7 DEF Placed, Left

LEMMA BuildingStep ==
  ASSUME SemaType, Tree, Levels, Generation, Building, [Next]_vars
  PROVE  Building'
<1>1. gen \in Nat /\ gen # 0
  <2>1. Len(functions) \in Nat
    BY FunctionFacts DEF SemaType
  <2> QED
    BY <2>1 DEF Generation
<1>2. CASE SemaNext /\ UNCHANGED codegenVars
  <2>1. phase \notin {"codegen", "aborted", "generated"}
    BY <1>2 DEF SemaNext, ResolveSignature, SignaturesResolved, EnterBody, ResolveExprStmt,
         ResolveVariableDecl, ResolveReturnStmt, ResolveCondition, ResolveElse, ResolveEnd,
         LeaveBody, Accept, Resolve, InBody
  <2>2. at = 0 /\ gen = 1 /\ at' = 0 /\ gen' = 1 /\ UNCHANGED <<blocks, insert, open>>
    BY <1>2, <2>1 DEF Generation, codegenVars
  <2>3. \A g \in Nat \ {0} : gen' # g + 1
    BY <2>2
  <2> QED
    BY <2>2, <2>3 DEF Building
<1>3. CASE UNCHANGED <<functions, code, codegenVars>>
  BY <1>3, SameTree DEF Building, codegenVars
<1>4. CASE StartFunction
  <2>1. UNCHANGED <<functions, code, gen>> /\ phase = "codegen"
    BY <1>4 DEF StartFunction
  <2>2. \A a : a = at' => Placed(blocks', insert', open', a, gen)
    BY <1>4, Starts
  <2>3. at' # 0
    <3>1. Sorted /\ gen \in Nat
      BY <1>1, <2>1 DEF Tree
    <3>2. at' \in 1..Len(code) + 1
      BY <1>4, <3>1, FirstStatement DEF StartFunction
    <3>3. Len(code) \in Nat
      BY SeqFacts DEF SemaType
    <3> QED
      BY <3>2, <3>3
  <2> QED
    BY <2>1, <2>2, <2>3, SameTree DEF Building
<1>5. CASE VisitExprStmt \/ VisitVariableDecl \/ VisitReturnStmt \/ VisitIfStmt \/ VisitElse
             \/ VisitWhileStmt \/ VisitEnd
  <2>1. /\ UNCHANGED <<functions, code, gen>> /\ phase = "codegen"
        /\ at \in DOMAIN code /\ code[at].fn = gen
    BY <1>5 DEF VisitExprStmt, VisitVariableDecl, VisitReturnStmt, VisitIfStmt, VisitElse,
         VisitWhileStmt, VisitEnd, Visiting
  <2>2. at \in 1..Len(code) /\ Len(code) \in Nat /\ DOMAIN code = 1..Len(code)
    BY <2>1, SeqFacts DEF SemaType
  <2>3. Here(blocks, insert, open, at, gen)
    <3>1. at # 0
      BY <2>2
    <3> QED
      BY <2>1, <2>2, <3>1 DEF Here, Building
  <2>4. Placed(blocks', insert', open', at', gen)
    BY <1>5, <2>3, VisitPlain, VisitIfKept, VisitElseKept, VisitWhileKept, VisitEndKept
  <2>5. at' # 0
    <3>1. Conditional(at) => Match(at) \in Nat
      <4>1. Conditional(at) => Match(at) \in at + 1..Len(code)
        BY <2>1, <2>2, MatchFacts
      <4> QED
        BY <2>2, <4>1
    <3>2. at' = at + 1 \/ (Conditional(at) /\ at' = Match(at) + 1)
      BY <1>5 DEF VisitExprStmt, VisitVariableDecl, VisitReturnStmt, VisitIfStmt, VisitElse,
           VisitWhileStmt, VisitEnd, Visiting, Conditional
    <3> QED
      BY <2>2, <3>1, <3>2
  <2> QED
    BY <2>1, <2>4, <2>5, SameTree DEF Building
<1>6. CASE FinishFunction
  <2>1. UNCHANGED <<functions, code>> /\ gen' = gen + 1 /\ at' = 0
    BY <1>6 DEF FinishFunction
  <2>2. Left(blocks', insert', open', gen)
    BY <1>6, Finishes
  <2>3. \A g \in Nat \ {0} : gen' = g + 1 => g = gen
    BY <1>1, <2>1
  <2>4. gen' # 1
    BY <1>1, <2>1
  <2> QED
    BY <2>1, <2>2, <2>3, <2>4, SameTree DEF Building
<1> QED
  BY <1>2, <1>3, <1>4, <1>5, <1>6
     DEF Next, CodegenNext, AssertFunctionType, Generate, vars, semaVars, codegenVars

-----------------------------------------------------------------------------
BlocksInv == FrontendInv /\ Levels /\ Building /\ Tables

LEMMA BlocksInvCorrect == Spec => []BlocksInv
<1>1. Init => BlocksInv
  BY FrontendInvInit, LevelsInit, BuildingInit, TablesInit DEF BlocksInv
<1>2. BlocksInv /\ [Next]_vars => BlocksInv'
  BY FrontendInvStep, LevelsStep, BuildingStep, TablesStep DEF BlocksInv, FrontendInv
<1> QED
  BY <1>1, <1>2, PTL DEF Spec

(* At any time the state of code generation is one of these. *)
LEMMA BuildingCases ==
  ASSUME BlocksInv
  PROVE  \/ at = 0 /\ gen = 1 /\ blocks = <<>> /\ insert = 0 /\ open = <<>>
         \/ at = 0 /\ \E g \in Nat \ {0} : gen = g + 1 /\ Left(blocks, insert, open, g)
         \/ at # 0 /\ Placed(blocks, insert, open, at, gen)
<1>1. gen \in Nat \ {0}
  <2>1. Len(functions) \in Nat
    BY FunctionFacts DEF BlocksInv, FrontendInv, SemaType
  <2> QED
    BY <2>1 DEF BlocksInv, FrontendInv, Generation
<1>2. CASE gen = 1
  BY <1>2 DEF BlocksInv, Building
<1>3. CASE gen # 1
  <2>1. gen - 1 \in Nat \ {0} /\ gen = (gen - 1) + 1
    BY <1>1, <1>3
  <2>2. PICK g \in Nat \ {0} : gen = g + 1
    BY <2>1
  <2> QED
    BY <2>2 DEF BlocksInv, Building
<1> QED
  BY <1>2, <1>3

(* Whatever stands behind a return, the builder never leaves a block of a       *)
(* function without a terminator, but for the one it is at and those that an if *)
(* or a while under way has still to fill (codegen.cpp, visit(IfStmt) and       *)
(* visit(WhileStmt)).                                                           *)
THEOREM BlocksClosedCorrect == Spec => []BlocksClosed
<1>1. ASSUME BlocksInv, NEW b \in DOMAIN blocks
      PROVE  \/ b = insert \/ Terminated(blocks, b)
             \/ blocks[b] = <<>> /\ \E i \in DOMAIN open : b \in {open[i].els, open[i].next}
  <2>1. CASE blocks = <<>>
    <3>1. Len(<<>>) = 0 /\ DOMAIN <<>> = 1..Len(<<>>)
      BY EmptySeq, LenProperties
    <3> QED
      BY <1>1, <2>1, <3>1
  <2>2. CASE \E g : Left(blocks, insert, open, g)
    <3>1. DOMAIN blocks = 1..Len(blocks)
      BY <2>2, LenProperties DEF Left
    <3> QED
      BY <1>1, <2>2, <3>1 DEF Left
  <2>3. CASE Placed(blocks, insert, open, at, gen)
    <3>1. /\ Fine(blocks, insert, Waiting(at, open)) /\ open \in Seq(Entry)
          /\ DOMAIN blocks = 1..Len(blocks) /\ DOMAIN open = 1..Len(open) /\ Len(open) \in Nat
      BY <2>3, LenProperties DEF Placed, Fine
    <3>2. CASE \E d \in DOMAIN Waiting(at, open) : b \in Waiting(at, open)[d]
      <4>1. PICK d \in DOMAIN Waiting(at, open) : b \in Waiting(at, open)[d]
        BY <3>2
      <4>2. d \in 0..Len(open) - 1 /\ b \in {open[d + 1].els, open[d + 1].next}
        BY <4>1 DEF Waiting
      <4>3. d + 1 \in DOMAIN open
        BY <3>1, <4>2
      <4>4. blocks[b] = <<>>
        BY <3>1, <4>1 DEF Fine
      <4> QED
        BY <4>2, <4>3, <4>4
    <3> QED
      BY <1>1, <3>1, <3>2 DEF Fine
  <2> QED
    BY <1>1, <2>1, <2>2, <2>3, BuildingCases
<1>2. BlocksInv => BlocksClosed
  BY <1>1 DEF BlocksClosed
<1> QED
  BY <1>2, BlocksInvCorrect, PTL

(* A function whose statements stop at each return, and which ends with one if  *)
(* it has to, is made of blocks with exactly one terminator each, at their end  *)
(* (codegen.cpp, visit(FunctionDecl)).                                          *)
THEOREM BlocksWellFormedCorrect == Spec => []BlocksWellFormed
<1>1. ASSUME BlocksInv, JustFinished, NEW g, g = gen - 1, Disciplined(g), NEW b \in DOMAIN blocks
      PROVE  WellFormed(blocks[b])
  <2>1. PICK h \in Nat \ {0} : gen = h + 1 /\ Left(blocks, insert, open, h)
    BY <1>1, BuildingCases DEF JustFinished
  <2>2. h = g /\ DOMAIN blocks = 1..Len(blocks)
    BY <1>1, <2>1, LenProperties DEF Left
  <2> QED
    BY <1>1, <2>1, <2>2 DEF Left
<1>2. BlocksInv => BlocksWellFormed
  BY <1>1 DEF BlocksWellFormed
<1> QED
  BY <1>2, BlocksInvCorrect, PTL

(* Both tables hold declarations and functions of the program, the insertion    *)
(* point is in the function, and no branch leads to a block that was not        *)
(* inserted into it.                                                            *)
THEOREM FrontendTypeCorrect == Spec => []TypeOK
<1>1. ASSUME BlocksInv
      PROVE  TypeOK
  <2>1. /\ SemaType /\ Generation /\ Tables
        /\ functions \in Programs /\ Len(functions) \in Nat
    BY <1>1, FunctionFacts DEF BlocksInv, FrontendInv, SemaType
  <2>2. /\ IsSeq(code) /\ Len(code) \in Nat /\ Len(blocks) \in Nat
        /\ blocks \in Seq(Bodies) /\ Targets(blocks, Len(blocks))
        /\ insert \in 0..Len(blocks) /\ at \in 0..Len(code) + 1
    <3>1. Len(code) \in Nat
      BY <2>1, SeqFacts DEF SemaType
    <3>2. CASE at = 0 /\ blocks = <<>> /\ insert = 0
      <4>1. <<>> \in Seq(Bodies) /\ Len(<<>>) = 0
        BY EmptySeq
      <4> QED
        BY <2>1, <3>1, <3>2, <4>1 DEF SemaType, Targets
    <3>3. CASE at = 0 /\ \E g : Left(blocks, insert, open, g)
      <4>1. Len(blocks) \in Nat
        BY <3>3, LenProperties DEF Left
      <4> QED
        BY <2>1, <3>1, <3>3, <4>1 DEF SemaType, Left
    <3>4. CASE Placed(blocks, insert, open, at, gen)
      <4>1. Len(blocks) \in Nat
        BY <3>4, LenProperties DEF Placed, Fine
      <4>2. PICK p \in 0..Len(code) : at = p + 1
        BY <3>4 DEF Placed, Located
      <4> QED
        BY <2>1, <3>1, <3>4, <4>1, <4>2 DEF SemaType, Placed, Fine
    <3> QED
      BY <1>1, <3>2, <3>3, <3>4, BuildingCases
  <2>3. DOMAIN blocks = 1..Len(blocks) /\ \A b \in 1..Len(blocks) : blocks[b] \in Seq(Items)
    BY <2>2, LenProperties, ElementOfSeq DEF Bodies
  <2>4. ASSUME NEW b \in DOMAIN blocks, NEW i \in DOMAIN blocks[b]
        PROVE  blocks[b][i].op \in {"instr", "ret", "br"} /\ blocks[b][i].to \subseteq DOMAIN blocks
    <3>1. i \in 1..Len(blocks[b]) /\ blocks[b][i] \in Items
      BY <2>3, <2>4, LenProperties, ElementOfSeq
    <3> QED
      BY <2>2, <2>3, <2>4, <3>1 DEF Targets, Items
  <2>5. /\ phase \in {"signatures", "bodies", "rejected", "codegen", "aborted", "generated"}
        /\ scopes \in Seq([Names -> Decls]) /\ fn \in 1..Len(functions) + 1
        /\ nest \in Seq({"if", "else", "while"})
    BY <2>1 DEF SemaType, Phases, Nests, Scope
  <2>6. gen \in 1..Len(functions) + 1
    BY <2>1 DEF Generation
  <2> QED
    BY <2>1, <2>2, <2>4, <2>5, <2>6 DEF TypeOK, Tables
<1> QED
  BY <1>1, BlocksInvCorrect, PTL

-----------------------------------------------------------------------------
(* What main() is at, and what has become of the files. *)
MainInv ==
  /\ FrontendInv /\ Typed
  /\ phase = "generated" => gen = Len(functions) + 1
  /\ status \in {"printed", "targeted", "opened", "success"} => phase = "generated"
  /\ phase \in {"rejected", "aborted"} =>
       status \in {"compiling", "failure"} /\ ir = "old" /\ object = "old"
  /\ status \in {"reading", "compiling"} => ir = "old" /\ object = "old"
  /\ status = "reading" => phase = "signatures"
  /\ object = "new" <=> status = "success"

LEMMA MainInvInit == ASSUME MainInit PROVE MainInv
<1>1. FrontendInv /\ Typed
  BY FrontendInvInit, TypedInit DEF MainInit
<1> QED
  BY <1>1 DEF MainInit, Init, SemaInit, CodegenInit, MainInv

LEMMA MainInvStep == ASSUME MainInv, [MainNext]_mainVars PROVE MainInv'
<1>1. FrontendInv' /\ Typed'
  <2>1. [Next]_vars
    BY DEF MainNext, ReadInput, Compile, Reject, Abort, PrintModule, FindTarget, OpenObject,
         EmitObject, Goto, mainVars
  <2> QED
    BY <2>1, FrontendInvStep, TypedStep DEF MainInv, FrontendInv
<1>2. Len(functions) \in Nat /\ gen \in 1..Len(functions) + 1
  BY FunctionFacts DEF MainInv, FrontendInv, SemaType, Generation
<1>3. CASE Compile
  <2>1. phase' = "generated" => gen' = Len(functions') + 1
    <3>1. CASE SemaNext /\ UNCHANGED codegenVars
      BY <1>2, <3>1 DEF MainInv, codegenVars, SemaNext, ResolveSignature, SignaturesResolved,
           EnterBody, ResolveExprStmt, ResolveVariableDecl, ResolveReturnStmt, ResolveCondition,
           ResolveElse, ResolveEnd, LeaveBody, Accept, Resolve, InBody
    <3>2. CASE FinishFunction
      BY <1>2, <3>2 DEF FinishFunction
    <3>3. CASE Generate \/ AssertFunctionType
      BY <1>2, <3>3 DEF Generate, AssertFunctionType, codegenVars
    <3>4. CASE StartFunction \/ VisitExprStmt \/ VisitVariableDecl \/ VisitReturnStmt
                 \/ VisitIfStmt \/ VisitElse \/ VisitWhileStmt \/ VisitEnd
      BY <1>2, <3>4 DEF StartFunction, VisitExprStmt, VisitVariableDecl, VisitReturnStmt,
           VisitIfStmt, VisitElse, VisitWhileStmt, VisitEnd, Visiting
    <3> QED
      BY <1>3, <3>1, <3>2, <3>3, <3>4 DEF Compile, Next, CodegenNext
  <2> QED
    BY <1>1, <1>3, <2>1 DEF Compile, MainInv, files
<1>4. CASE ReadInput \/ Reject \/ Abort \/ PrintModule \/ FindTarget \/ OpenObject \/ EmitObject
  <2>1. UNCHANGED <<functions, phase, code, gen>>
    BY <1>4 DEF ReadInput, Reject, Abort, PrintModule, FindTarget, OpenObject, EmitObject, Goto,
         vars, semaVars, codegenVars
  <2> QED
    BY <1>1, <1>4, <2>1 DEF ReadInput, Reject, Abort, PrintModule, FindTarget, OpenObject,
         EmitObject, Goto, files, MainInv
<1>5. CASE UNCHANGED mainVars
  BY <1>1, <1>5 DEF mainVars, vars, semaVars, codegenVars, files, MainInv
<1> QED
  BY <1>3, <1>4, <1>5 DEF MainNext

(* The exit status of main() (compiler.cpp) is 0 exactly when a whole object was *)
(* written, for a program of which every statement has a type and every function *)
(* was generated; a program that is rejected, or that an assertion of LLVM ends  *)
(* the process for, leaves the files of an earlier run alone.                    *)
THEOREM ExitStatusCorrect == MainSpec => []ExitStatus
<1>1. MainInit => MainInv
  BY MainInvInit
<1>2. MainInv /\ [MainNext]_mainVars => MainInv'
  BY MainInvStep
<1>3. MainInv => ExitStatus
  <2>1. SUFFICES ASSUME MainInv PROVE ExitStatus
    OBVIOUS
  <2>2. DOMAIN code = 1..Len(code)
    BY <2>1, SeqFacts DEF MainInv, FrontendInv, SemaType
  <2> QED
    BY <2>1, <2>2 DEF MainInv, ExitStatus, Typed
<1> QED
  BY <1>1, <1>2, <1>3, PTL DEF MainSpec
=============================================================================
