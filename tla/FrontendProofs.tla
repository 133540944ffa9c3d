--------------------------- MODULE FrontendProofs ---------------------------
(***************************************************************************)
(* Proofs about the analysis and the code generation together: a name and  *)
(* a call mean the same to both, and the type of an expression is that of  *)
(* its value.                                                              *)
(***************************************************************************)
EXTENDS SemaProofs

-----------------------------------------------------------------------------
(* A statement joins the tree, and the blocks around what follows change. *)
Nesting(op, depth) ==
  /\ \A i \in 1..depth : nest'[i] = nest[i]
  /\ \/ op \in {"expr", "var", "return"} /\ depth = Len(nest) /\ Len(nest') = depth
     \/ /\ op \in {"if", "while"} /\ depth = Len(nest) /\ Len(nest') = depth + 1
        /\ nest'[depth + 1] = op
     \/ /\ op = "else" /\ depth + 1 = Len(nest) /\ Len(nest') = depth + 1
        /\ nest[depth + 1] = "if" /\ nest'[depth + 1] = "else"
     \/ op = "end" /\ depth + 1 = Len(nest) /\ Len(nest') = depth

StatementStep(op, depth, name, spec) ==
  /\ depth \in Nat
  /\ Appends(op, depth, name, spec)
  /\ Nesting(op, depth)
  /\ op = "var" /\ phase' # "rejected" => name \in Names /\ Lookup(name) = NoDecl

LEMMA Statements ==
  ASSUME SemaType, [Next]_vars
  PROVE  \/ \E op, depth, name, spec : StatementStep(op, depth, name, spec)
         \/ /\ UNCHANGED <<functions, code, nest>>
            /\ phase # "rejected" => fn' = fn \/ nest = <<>>
<1> DEFINE k == Len(nest)
<1>1. Step /\ nest \in Seq(Nests) /\ k \in Nat
  BY Steps, LenProperties DEF SemaType
<1>2. k = Len(nest)
  OBVIOUS
<1> HIDE DEF k
<1>3. CASE PlainStep
  <2>1. PICK op \in {"expr", "return"} : Appends(op, k, "", "")
    BY <1>2, <1>3 DEF PlainStep
  <2>2. nest' = nest
    BY <1>3 DEF PlainStep
  <2>3. StatementStep(op, k, "", "")
    BY <1>1, <1>2, <2>1, <2>2 DEF StatementStep, Nesting
  <2> QED
    BY <2>3
<1>4. CASE VarStep
  <2>1. PICK x \in Names, spec \in {"int", "float"} :
          /\ Appends("var", k, x, spec)
          /\ phase' # "rejected" => Lookup(x) = NoDecl
          /\ UNCHANGED nest
    BY <1>2, <1>4 DEF VarStep
  <2>2. nest' = nest
    BY <2>1
  <2>3. StatementStep("var", k, x, spec)
    BY <1>1, <1>2, <2>1, <2>2 DEF StatementStep, Nesting
  <2> QED
    BY <2>3
<1>5. CASE ConditionStep
  <2>1. PICK op \in {"if", "while"} : Appends(op, k, "", "") /\ nest' = Append(nest, op)
    BY <1>2, <1>5 DEF ConditionStep
  <2>2. /\ Len(nest') = k + 1 /\ nest'[k + 1] = op
        /\ \A i \in 1..k : nest'[i] = nest[i]
    <3>1. IsSeq(nest)
      BY <1>1 DEF IsSeq
    <3> QED
      BY <1>2, <2>1, <3>1, Appended
  <2>3. StatementStep(op, k, "", "")
    BY <1>1, <1>2, <2>1, <2>2 DEF StatementStep, Nesting
  <2> QED
    BY <2>3
<1>6. CASE ElseStep
  <2>1. /\ nest # <<>> /\ nest' = [nest EXCEPT ![k] = "else"] /\ nest[k] = "if"
    BY <1>2, <1>6 DEF ElseStep
  <2>2. k \in Nat \ {0}
    BY <1>1, <1>2, <2>1, EmptySeq
  <2>3. /\ Len(nest') = k /\ nest'[k] = "else"
        /\ \A i \in 1..k - 1 : nest'[i] = nest[i]
    <3>1. k \in 1..Len(nest) /\ "else" \in Nests
      BY <1>2, <2>2 DEF Nests
    <3>2. /\ Len(nest') = Len(nest)
          /\ \A i \in 1..Len(nest) : nest'[i] = IF i = k THEN "else" ELSE nest[i]
      BY <1>1, <2>1, <3>1, ExceptSeq
    <3>3. \A i \in 1..k - 1 : i \in 1..k /\ i # k
      BY <1>1
    <3> QED
      BY <1>2, <3>1, <3>2, <3>3
  <2>4. ASSUME NEW d, d = k - 1
        PROVE  StatementStep("else", d, "", "")
    <3>1. Appends("else", d, "", "")
      BY <1>2, <1>6, <2>4 DEF ElseStep
    <3>2. d \in Nat /\ d + 1 = k
      BY <2>2, <2>4
    <3>3. Nesting("else", d)
      <4>1. \A i \in 1..d : nest'[i] = nest[i]
        BY <2>3, <2>4
      <4> QED
        BY <1>2, <2>1, <2>3, <3>2, <4>1 DEF Nesting
    <3> QED
      BY <3>1, <3>2, <3>3 DEF StatementStep
  <2> QED
    BY <2>4
<1>7. CASE EndStep
  <2>1. /\ nest # <<>> /\ nest' = SubSeq(nest, 1, k - 1)
    BY <1>2, <1>7 DEF EndStep
  <2>2. k \in Nat \ {0}
    BY <1>1, <1>2, <2>1, EmptySeq
  <2>3. Len(nest') = k - 1 /\ \A i \in 1..k - 1 : nest'[i] = nest[i]
    BY <1>1, <1>2, <2>1, Popped
  <2>4. ASSUME NEW d, d = k - 1
        PROVE  StatementStep("end", d, "", "")
    <3>1. Appends("end", d, "", "")
      BY <1>2, <1>7, <2>4 DEF EndStep
    <3>2. d \in Nat /\ d + 1 = k
      BY <2>2, <2>4
    <3>3. Nesting("end", d)
      BY <1>2, <2>3, <2>4, <3>2 DEF Nesting
    <3> QED
      BY <3>1, <3>2, <3>3 DEF StatementStep
  <2> QED
    BY <2>4
<1>8. CASE \/ ResolveSignature \/ SignaturesResolved \/ EnterBody \/ LeaveBody \/ Accept
           \/ LaterStep
  <2>1. phase = "signatures" => phase # "rejected" /\ nest = <<>>
    BY DEF SemaType, InBody
  <2> QED
    BY <1>8, <2>1 DEF ResolveSignature, SignaturesResolved, EnterBody, LeaveBody, Accept, LaterStep
<1> QED
  BY <1>1, <1>3, <1>4, <1>5, <1>6, <1>7, <1>8 DEF Step

-----------------------------------------------------------------------------
(* The tree that the analysis accepts, as code generation walks it. *)
Conditional(q) == code[q].op \in {"if", "while"}
Ends(r, q)     == code[r].op = "end" /\ code[r].depth = code[q].depth
Closes(r, p)   == code[r].op \in {"else", "end"} /\ code[r].depth < code[p].depth
SameVar(p, r)  == code[p].op = "var" /\ code[r].op = "var" /\ code[p].fn = code[r].fn
                    /\ code[p].name = code[r].name

(* The functions one after the other *)
Sorted == \A p, q \in 1..Len(code) : p < q => code[p].fn <= code[q].fn

(* Up to its end, what follows an if or a while is deeper, but for its else *)
Nested ==
  \A q, r \in 1..Len(code) :
    Conditional(q) /\ q < r /\ (\A s \in q + 1..r - 1 : ~Ends(s, q)) =>
      /\ code[r].fn = code[q].fn /\ code[r].depth >= code[q].depth
      /\ code[r].depth > code[q].depth \/ code[r].op = "else" \/ Ends(r, q)

(* An if or a while that has no end yet is around the next statement *)
Closed ==
  \A q \in 1..Len(code) :
    Conditional(q) /\ (\A s \in q + 1..Len(code) : ~Ends(s, q)) =>
      Len(nest) > code[q].depth /\ code[q].fn = fn

(* No variable has the name of a parameter, or of one whose block is open *)
Declared ==
  \A q \in 1..Len(code) : code[q].op = "var" => ParamsOf(code[q].fn, code[q].name) = {}

Redeclared ==
  \A p, r \in 1..Len(code) :
    p < r /\ SameVar(p, r) => \E s \in p + 1..r - 1 : Closes(s, p)

(* What a statement's names mean *)
ResolvedVar(q, x) ==
  \E p \in 1..q - 1 :
    /\ code[q].res[x] = Var(p) /\ code[p].op = "var"
    /\ code[p].name = x /\ code[p].fn = code[q].fn
    /\ \A s \in p + 1..q - 1 : ~Closes(s, p)

ResolvedName(q, x) ==
  LET d == code[q].res[x]
  IN  /\ d.kind = "fn" => Named(x) # {} /\ d.fn = Min(Named(x))
      /\ d.kind = "param" => /\ ParamsOf(code[q].fn, x) # {}
                             /\ d = Param(code[q].fn, Min(ParamsOf(code[q].fn, x)))
      /\ d.kind = "var" => ResolvedVar(q, x)

Tree ==
  phase # "rejected" =>
    /\ Sorted /\ Nested /\ Closed /\ Declared /\ Redeclared
    /\ \A q \in 1..Len(code), x \in Names : ResolvedName(q, x)

LEMMA TreeInit == ASSUME Init PROVE Tree
<1>1. code = <<>> /\ Len(code) = 0
  BY EmptySeq DEF Init, SemaInit
<1> QED
  BY <1>1 DEF Tree, Sorted, Nested, Closed, Declared, Redeclared

LEMMA TreeStep == ASSUME SemaType, ScopesMean, Tree, [Next]_vars PROVE Tree'
<1> SUFFICES ASSUME phase' # "rejected" PROVE Tree'
  BY DEF Tree
<1>1. phase # "rejected"
  <2>1. Step
    BY Steps
  <2> QED
    BY <2>1 DEF Step, PlainStep, VarStep, ConditionStep, ElseStep, EndStep, Appends, InBody,
         ResolveSignature, SignaturesResolved, EnterBody, LeaveBody, Accept, LaterStep
<1>2. /\ Sorted /\ Nested /\ Closed /\ Declared /\ Redeclared
      /\ \A q \in 1..Len(code), x \in Names : ResolvedName(q, x)
  BY <1>1 DEF Tree
<1>3. CASE UNCHANGED <<functions, code, nest>> /\ (fn' = fn \/ nest = <<>>)
  <2>1. /\ \A f, x : ParamsOf(f, x)' = ParamsOf(f, x)
        /\ \A x : Named(x)' = Named(x)
        /\ \A f, i : Param(f, i)' = Param(f, i)
        /\ \A p : Var(p)' = Var(p)
    BY <1>3, SameFunctions DEF Var, Declaration
  <2>2. ASSUME NEW q \in 1..Len(code), NEW x \in Names
        PROVE  ResolvedName(q, x)'
    BY <1>2, <1>3, <2>1 DEF ResolvedName, ResolvedVar, Closes
  <2>3. (Sorted /\ Nested)'
    BY <1>2, <1>3 DEF Sorted, Nested, Conditional, Ends
  <2>5. Closed'
    <3>1. nest = <<>> => ~\E q \in 1..Len(code) : Len(nest) > code[q].depth
      <4>1. \A q \in 1..Len(code) : code[q].depth \in Nat
        BY DEF SemaType, StatementOK
      <4>2. nest = <<>> => Len(nest) = 0
        BY EmptySeq
      <4> QED
        BY <4>1, <4>2
    <3> QED
      BY <1>2, <1>3, <3>1 DEF Closed, Conditional, Ends
  <2>4. (Declared /\ Redeclared)'
    BY <1>2, <1>3, <2>1 DEF Declared, Redeclared, SameVar, Closes
  <2> QED
    BY <1>3, <2>2, <2>3, <2>4, <2>5 DEF Tree
<1>4. ASSUME NEW op, NEW depth, NEW name, NEW spec, StatementStep(op, depth, name, spec)
      PROVE  Tree'
  <2> DEFINE c == Len(code)
  <2>1. /\ InBody /\ depth \in Nat /\ functions' = functions /\ fn' = fn
        /\ Len(code') = c + 1 /\ \A q \in 1..c : code'[q] = code[q]
        /\ code'[c + 1].op = op /\ code'[c + 1].fn = fn /\ code'[c + 1].depth = depth
        /\ code'[c + 1].name = name
        /\ code'[c + 1].res = [x \in Names |-> Lookup(x)]
    BY <1>4 DEF StatementStep, Appends
  <2>2. /\ c \in Nat /\ Len(nest) \in Nat /\ fn \in Nat
        /\ \A q \in 1..c : /\ code[q].fn \in 1..fn /\ code[q].depth \in Nat
                           /\ code[q].op = "var" => code[q].name \in Names
    <3>1. c \in Nat /\ Len(nest) \in Nat /\ Len(functions) \in Nat
      BY SeqFacts, LenProperties, FunctionFacts DEF SemaType
    <3>2. fn \in 1..Len(functions) + 1 /\ \A q \in 1..c : StatementOK(code[q])
      BY DEF SemaType
    <3> QED
      BY <3>1, <3>2 DEF StatementOK
  <2>3. /\ op = "var" => name \in Names /\ Lookup(name) = NoDecl
        /\ Nesting(op, depth) /\ Appends(op, depth, name, spec)
    BY <1>4 DEF StatementStep
  <2>4. c = Len(code)
    OBVIOUS
  <2> HIDE DEF c
  <2>5. \A q \in 1..c + 1 : q \in 1..c \/ q = c + 1
    BY <2>2
  <2>6. /\ \A f, x : ParamsOf(f, x)' = ParamsOf(f, x)
        /\ \A x : Named(x)' = Named(x)
        /\ \A f, i : Param(f, i)' = Param(f, i)
    BY <2>1, SameFunctions
  <2>7. Sorted'
    <3>1. ASSUME NEW p \in 1..c + 1, NEW q \in 1..c + 1, p < q
          PROVE  code'[p].fn <= code'[q].fn
      <4>1. p \in 1..c
        BY <2>2, <3>1
      <4>2. CASE q \in 1..c
        BY <1>2, <2>1, <2>4, <3>1, <4>1, <4>2 DEF Sorted
      <4>3. CASE q = c + 1
        <5>1. code[p].fn \in 1..fn /\ code'[p] = code[p] /\ code'[q].fn = fn
          BY <2>1, <2>2, <4>1, <4>3
        <5> QED
          BY <2>2, <5>1
      <4> QED
        BY <2>5, <4>2, <4>3
    <3> QED
      BY <2>1, <3>1 DEF Sorted
  \* an if or a while that stays open was around the statement
  <2>14. ASSUME NEW q \in 1..c, Conditional(q), \A s \in q + 1..c : ~Ends(s, q)'
         PROVE  Len(nest) > code[q].depth /\ code[q].depth \in Nat /\ code[q].fn = fn
    <3>1. \A s \in q + 1..c : s \in 1..c
      BY <2>2
    <3>2. \A s \in q + 1..c : ~Ends(s, q)
      BY <2>1, <2>14, <3>1 DEF Ends
    <3> QED
      BY <1>2, <2>2, <2>4, <2>14, <3>2 DEF Closed
  <2>8. Nested'
    <3>1. ASSUME NEW q \in 1..c + 1, NEW r \in 1..c + 1, Conditional(q)', q < r,
                 \A s \in q + 1..r - 1 : ~Ends(s, q)'
          PROVE  /\ code'[r].fn = code'[q].fn /\ code'[r].depth >= code'[q].depth
                 /\ code'[r].depth > code'[q].depth \/ code'[r].op = "else" \/ Ends(r, q)'
      <4>1. q \in 1..c
        BY <2>2, <3>1
      <4>2. Conditional(q) /\ code'[q] = code[q]
        BY <2>1, <3>1, <4>1 DEF Conditional
      <4>3. CASE r \in 1..c
        <5>1. \A s \in q + 1..r - 1 : s \in 1..c
          BY <4>1, <4>3, <2>2
        <5>2. \A s \in q + 1..r - 1 : ~Ends(s, q)
          BY <2>1, <3>1, <4>2, <5>1 DEF Ends
        <5>3. Ends(r, q) => Ends(r, q)'
          BY <2>1, <4>2, <4>3 DEF Ends
        <5> QED
          BY <1>2, <2>1, <2>4, <3>1, <4>1, <4>2, <4>3, <5>2, <5>3 DEF Nested
      <4>4. CASE r = c + 1
        <5>1. q + 1..r - 1 = q + 1..c
          BY <2>2, <4>4
        <5>2. Len(nest) > code[q].depth /\ code[q].depth \in Nat /\ code[q].fn = fn
          BY <2>14, <3>1, <4>1, <4>2, <5>1
        <5>3. /\ depth >= code[q].depth
              /\ op \in {"else", "end"} \/ depth > code[q].depth
          BY <2>1, <2>2, <2>3, <5>2 DEF Nesting
        <5>4. op = "end" /\ depth = code[q].depth => Ends(r, q)'
          BY <2>1, <4>2, <4>4 DEF Ends
        <5>5. /\ code'[r].fn = fn /\ code'[r].depth = depth /\ code'[r].op = op
              /\ code'[q].fn = code[q].fn /\ code'[q].depth = code[q].depth
          BY <2>1, <4>2, <4>4
        <5> QED
          BY <2>1, <5>2, <5>3, <5>4, <5>5
      <4> QED
        BY <2>5, <4>3, <4>4
    <3> QED
      BY <2>1, <3>1 DEF Nested
  <2>9. Closed'
    <3>1. ASSUME NEW q \in 1..c + 1, Conditional(q)', \A s \in q + 1..c + 1 : ~Ends(s, q)'
          PROVE  Len(nest') > code'[q].depth /\ code'[q].fn = fn
      <4>1. CASE q = c + 1
        <5>1. op \in {"if", "while"}
          BY <2>1, <3>1, <4>1 DEF Conditional
        <5>2. Len(nest') = depth + 1 /\ code'[q].depth = depth /\ code'[q].fn = fn
          BY <2>1, <2>3, <4>1, <5>1 DEF Nesting
        <5> QED
          BY <2>1, <5>2
      <4>2. CASE q \in 1..c
        <5>1. Conditional(q) /\ code'[q] = code[q]
          BY <2>1, <3>1, <4>2 DEF Conditional
        <5>2. /\ \A s \in q + 1..c : s \in q + 1..c + 1
              /\ c + 1 \in q + 1..c + 1
          BY <2>2, <4>2
        <5>3. Len(nest) > code[q].depth /\ code[q].depth \in Nat /\ code[q].fn = fn
          BY <2>14, <3>1, <4>2, <5>1, <5>2
        <5>4. \A s : s = c + 1 => ~Ends(s, q)'
          BY <3>1, <5>2
        <5>5. op = "end" => depth # code[q].depth
          BY <2>1, <5>1, <5>4 DEF Ends
        <5>6. Len(nest') > code[q].depth
          BY <2>1, <2>2, <2>3, <5>3, <5>5 DEF Nesting
        <5> QED
          BY <5>1, <5>3, <5>6
      <4> QED
        BY <2>5, <4>1, <4>2
    <3> QED
      BY <2>1, <3>1 DEF Closed
  <2>10. Declared'
    <3>1. ASSUME op = "var"
          PROVE  ParamsOf(fn, name) = {}
      BY <2>1, <2>3, <3>1, LookupMeans
    <3>2. ASSUME NEW q \in 1..c + 1, code'[q].op = "var"
          PROVE  ParamsOf(code'[q].fn, code'[q].name) = {}
      BY <1>2, <2>1, <2>4, <2>5, <3>1, <3>2 DEF Declared
    <3> QED
      BY <2>1, <2>6, <3>2 DEF Declared
  <2>11. Redeclared'
    <3>1. ASSUME NEW p \in 1..c + 1, NEW r \in 1..c + 1, p < r, SameVar(p, r)'
          PROVE  \E s \in p + 1..r - 1 : Closes(s, p)'
      <4>1. p \in 1..c /\ code'[p] = code[p]
        BY <2>1, <2>2, <3>1
      <4>2. CASE r \in 1..c
        <5>1. SameVar(p, r)
          BY <2>1, <3>1, <4>1, <4>2 DEF SameVar
        <5>2. PICK s \in p + 1..r - 1 : Closes(s, p)
          BY <1>2, <2>4, <3>1, <4>1, <4>2, <5>1 DEF Redeclared
        <5>3. s \in 1..c
          BY <2>2, <4>1, <4>2, <5>2
        <5> QED
          BY <2>1, <4>1, <5>2, <5>3 DEF Closes
      <4>3. CASE r = c + 1
        <5>1. op = "var" /\ code[p].op = "var" /\ code[p].fn = fn /\ code[p].name = name
          BY <2>1, <3>1, <4>1, <4>3 DEF SameVar
        <5>2. OpenVars(name) = {}
          BY <2>1, <2>3, <5>1, LookupMeans
        <5>3. DOMAIN code = 1..c
          BY <2>4, SeqFacts DEF SemaType
        <5>4. PICK s \in p + 1..c : code[s].op \in {"else", "end"} /\ ~(code[s].depth >= code[p].depth)
          BY <2>4, <4>1, <5>1, <5>2, <5>3 DEF OpenVars
        <5>5. s \in 1..c /\ s \in p + 1..r - 1
          BY <2>2, <4>1, <4>3, <5>4
        <5>6. code[s].depth < code[p].depth
          BY <2>2, <4>1, <5>4, <5>5
        <5> QED
          BY <2>1, <4>1, <5>4, <5>5, <5>6 DEF Closes
      <4> QED
        BY <2>5, <4>2, <4>3
    <3> QED
      BY <2>1, <3>1 DEF Redeclared
  <2>12. ASSUME NEW q \in 1..c, NEW x \in Names
         PROVE  ResolvedName(q, x)'
    <3>1. ResolvedName(q, x) /\ code'[q] = code[q]
      BY <1>2, <2>1, <2>4
    <3>2. ASSUME ResolvedVar(q, x)
          PROVE  ResolvedVar(q, x)'
      <4>1. PICK p \in 1..q - 1 :
              /\ code[q].res[x] = Var(p) /\ code[p].op = "var"
              /\ code[p].name = x /\ code[p].fn = code[q].fn
              /\ \A s \in p + 1..q - 1 : ~Closes(s, p)
        BY <3>2 DEF ResolvedVar
      <4>2. p \in 1..c /\ \A s \in p + 1..q - 1 : s \in 1..c
        BY <2>2, <4>1
      <4>3. code'[p] = code[p] /\ Var(p)' = Var(p)
        BY <2>1, <4>2 DEF Var, Declaration
      <4>4. \A s \in p + 1..q - 1 : ~Closes(s, p)'
        BY <2>1, <4>1, <4>2, <4>3 DEF Closes
      <4> QED
        BY <3>1, <4>1, <4>3, <4>4 DEF ResolvedVar
    <3> QED
      BY <2>6, <3>1, <3>2 DEF ResolvedName
  <2>13. ASSUME NEW x \in Names, NEW q, q = c + 1
         PROVE  ResolvedName(q, x)'
    <3>1. code'[q].res[x] = Meaning(x) /\ code'[q].fn = fn
      BY <2>1, <2>13, LookupMeans
    <3>2. /\ Meaning(x).kind = "fn" => Named(x) # {} /\ Meaning(x).fn = Min(Named(x))
          /\ Meaning(x).kind = "param" =>
               ParamsOf(fn, x) # {} /\ Meaning(x) = Param(fn, Min(ParamsOf(fn, x)))
          /\ Meaning(x).kind = "var" => OpenVars(x) # {} /\ Meaning(x) = Var(Max(OpenVars(x)))
      BY DEF Meaning, Function, Param, Var, NoDecl, Declaration
    <3>3. ASSUME OpenVars(x) # {}
          PROVE  Max(OpenVars(x)) \in 1..c /\ Max(OpenVars(x)) \in OpenVars(x)
      <4>1. \A p \in OpenVars(x) : p \in 1..c
        BY <2>4, OpenVarsType
      <4>2. OpenVars(x) \in SUBSET Nat /\ c \in Nat /\ \A p \in OpenVars(x) : p <= c
        BY <2>2, <4>1
      <4>3. Max(OpenVars(x)) \in OpenVars(x)
        BY <3>3, <4>2, MaxFacts
      <4> QED
        BY <4>1, <4>3
    <3>4. ASSUME OpenVars(x) # {}, NEW p, p = Max(OpenVars(x)), Meaning(x) = Var(p)
          PROVE  ResolvedVar(q, x)'
      <4>1. p \in 1..c /\ p \in OpenVars(x)
        BY <3>3, <3>4
      <4>2. p \in 1..q - 1 /\ q - 1 = c
        BY <2>2, <2>13, <4>1
      <4>3. /\ code[p].op = "var" /\ code[p].fn = fn /\ code[p].name = x
            /\ \A s \in p + 1..c : code[s].op \in {"else", "end"} => code[s].depth >= code[p].depth
        BY <2>4, <4>1 DEF OpenVars
      <4>4. \A s \in p + 1..c : s \in 1..c
        BY <2>2, <4>1
      <4>5. code'[p] = code[p] /\ Var(p)' = Var(p)
        BY <2>1, <4>1 DEF Var, Declaration
      <4>6. \A s \in p + 1..q - 1 : ~Closes(s, p)'
        <5>1. ASSUME NEW s \in p + 1..c
              PROVE  ~Closes(s, p)'
          <6>1. s \in 1..c /\ code'[s] = code[s] /\ code[s].depth \in Nat /\ code[p].depth \in Nat
            BY <2>1, <2>2, <4>1, <4>4
          <6> QED
            BY <4>3, <4>5, <6>1 DEF Closes
        <5> QED
          BY <4>2, <5>1
      <4>7. code'[q].res[x] = Var(p)
        BY <3>1, <3>4
      <4> QED
        BY <3>1, <4>2, <4>3, <4>5, <4>6, <4>7 DEF ResolvedVar
    <3> QED
      BY <2>6, <3>1, <3>2, <3>4 DEF ResolvedName
  <2> QED
    BY <2>1, <2>5, <2>7, <2>8, <2>9, <2>10, <2>11, <2>12, <2>13 DEF Tree
<1> QED
  BY <1>1, <1>3, <1>4, Statements

-----------------------------------------------------------------------------
(* Every if and while of an accepted program has its end, and what is before *)
(* that is deeper.                                                           *)
LEMMA MatchFacts ==
  ASSUME SemaType, Tree, phase = "codegen", NEW q \in 1..Len(code), Conditional(q)
  PROVE  /\ Match(q) \in q + 1..Len(code) /\ Ends(Match(q), q) /\ code[Match(q)].fn = code[q].fn
         /\ \A r \in q + 1..Match(q) - 1 :
              /\ code[r].depth >= code[q].depth /\ ~Ends(r, q)
              /\ code[r].depth > code[q].depth \/ code[r].op = "else"
<1> DEFINE c == Len(code)
           E == {r \in q + 1..c : Ends(r, q)}
<1>1. c \in Nat /\ code[q].depth \in Nat /\ \A r \in 1..c : code[r].depth \in Nat
  BY SeqFacts DEF SemaType, StatementOK
<1>2. E # {}
  <2>1. nest = <<>> /\ Len(nest) = 0
    BY EmptySeq DEF SemaType, InBody
  <2> QED
    BY <1>1, <2>1 DEF Tree, Closed
<1>3. PICK r \in E : \A s \in E : r <= s
  <2>1. E \in SUBSET Nat
    BY <1>1
  <2> HIDE DEF E
  <2> QED
    BY <1>2, <2>1, Smallest
<1>4. \A s \in q + 1..r - 1 : ~Ends(s, q)
  BY <1>1, <1>3
<1>5. /\ Match(q) \in q + 1..c /\ Ends(Match(q), q)
      /\ \A s \in q + 1..Match(q) - 1 : ~Ends(s, q)
  <2>1. \E t \in q + 1..c :
          /\ code[t].op = "end" /\ code[t].depth = code[q].depth
          /\ \A s \in q + 1..t - 1 : code[s].depth = code[q].depth => code[s].op # "end"
    BY <1>3, <1>4 DEF Ends
  <2> QED
    BY <2>1, Zenon DEF Match, Ends
<1>6. ASSUME NEW s \in q + 1..Match(q) - 1
      PROVE  /\ code[s].depth >= code[q].depth /\ ~Ends(s, q)
             /\ code[s].depth > code[q].depth \/ code[s].op = "else"
  <2>1. s \in 1..c /\ q < s /\ \A t \in q + 1..s - 1 : t \in q + 1..Match(q) - 1
    BY <1>1, <1>5
  <2> QED
    BY <1>5, <2>1 DEF Tree, Nested
<1>7. code[Match(q)].fn = code[q].fn
  <2>1. Match(q) \in 1..c /\ q < Match(q)
    BY <1>1, <1>5
  <2> QED
    BY <1>5, <2>1 DEF Tree, Nested
<1> QED
  BY <1>5, <1>6, <1>7

-----------------------------------------------------------------------------
(* The tables of code generation *)
Callable(n) ==
  \A x \in Names :
    LET before == {f \in Named(x) : f < n}
    IN  module[x] # Taken => module[x] = IF before = {} THEN 0 ELSE Min(before)

Arguments ==
  \A x \in Names : ParamsOf(gen, x) # {} => namedValues[x] = Param(gen, Max(ParamsOf(gen, x)))

(* A variable that a statement still to come uses has been visited, and is the *)
(* last of its name.                                                           *)
Visited ==
  \A x \in Names, q \in 1..Len(code) :
    LET d == code[q].res[x]
    IN  q >= at /\ code[q].fn = gen /\ d.kind = "var" /\ d.pos < at => namedValues[x] = d

Generation ==
  /\ gen \in 1..Len(functions) + 1 /\ at \in Nat
  /\ DOMAIN namedValues = Names /\ DOMAIN module = Names
  /\ phase \notin {"codegen", "aborted", "generated"} => at = 0 /\ gen = 1
  /\ at # 0 => phase = "codegen" /\ gen <= Len(functions) /\ Arguments /\ Visited
  /\ Callable(IF at = 0 THEN gen ELSE gen + 1)

LEMMA GenerationInit == ASSUME Init PROVE Generation
<1>1. /\ functions \in Programs /\ phase = "signatures" /\ at = 0 /\ gen = 1
      /\ namedValues = [x \in Names |-> NoDecl] /\ module = [x \in Names |-> 0]
  BY DEF Init, SemaInit, CodegenInit
<1>2. \A x : {f \in Named(x) : f < 1} = {}
  <2>1. ASSUME NEW x, NEW f \in Named(x)
        PROVE  ~(f < 1)
    BY <1>1, <2>1, FunctionFacts DEF Named
  <2> QED
    BY <2>1
<1>3. Callable(1)
  BY <1>1, <1>2 DEF Callable, Taken
<1> QED
  BY <1>1, <1>3, FunctionFacts DEF Generation

(* What the visit of a statement does to the tables *)
VisitStep ==
  /\ phase = "codegen" /\ at \in 1..Len(code) /\ code[at].fn = gen
  /\ module' = [x \in Names |-> IF module[x] = 0 /\ x \in Asked(code[at].expr)
                                 THEN Taken ELSE module[x]]
  /\ UNCHANGED <<functions, phase, code, gen>>
  /\ \/ /\ code[at].op = "var" /\ at' = at + 1
        /\ namedValues' = [namedValues EXCEPT ![code[at].name] = Var(at)]
     \/ code[at].op # "var" /\ at' = at + 1 /\ UNCHANGED namedValues
     \/ Conditional(at) /\ at' = Match(at) + 1 /\ UNCHANGED namedValues

LEMMA Visits ==
  ASSUME SemaType, [Next]_vars
  PROVE  \/ SemaNext /\ UNCHANGED codegenVars
         \/ StartFunction \/ VisitStep \/ FinishFunction
         \/ /\ UNCHANGED <<functions, code, namedValues, module, gen, at>>
            /\ \/ phase' = phase
               \/ at = 0 /\ phase = "codegen" /\ phase' \in {"aborted", "generated"}
<1>1. DOMAIN code = 1..Len(code)
  BY SeqFacts DEF SemaType
<1>2. CASE VisitExprStmt \/ VisitVariableDecl \/ VisitReturnStmt \/ VisitIfStmt \/ VisitElse
             \/ VisitWhileStmt \/ VisitEnd
  BY <1>1, <1>2 DEF VisitStep, VisitExprStmt, VisitVariableDecl, VisitReturnStmt, VisitIfStmt,
       VisitElse, VisitWhileStmt, VisitEnd, Visiting, Conditional
<1>3. CASE Generate \/ AssertFunctionType
  BY <1>3 DEF Generate, AssertFunctionType, codegenVars
<1>4. CASE UNCHANGED vars
  BY <1>4 DEF vars, semaVars, codegenVars
<1> QED
  BY <1>2, <1>3, <1>4 DEF Next, CodegenNext

(* Where the statements of a function begin *)
LEMMA FirstStatement ==
  ASSUME SemaType, Sorted, NEW g \in Nat
  PROVE  LET a == Cardinality({q \in DOMAIN code : code[q].fn < g}) + 1
         IN  /\ a \in 1..Len(code) + 1
             /\ \A q \in 1..Len(code) : q < a <=> code[q].fn < g
<1> DEFINE c == Len(code)
           B == {q \in 1..c : code[q].fn < g}
           a == Cardinality(B) + 1
<1>1. c \in Nat /\ DOMAIN code = 1..c /\ c = Len(code)
  BY SeqFacts DEF SemaType
<1>2. \A q \in 1..c : code[q].fn \in Nat
  <2>1. \A q \in 1..c : code[q].fn \in 1..fn
    BY DEF SemaType, StatementOK
  <2> QED
    BY <2>1
<1>3. a = Cardinality({q \in DOMAIN code : code[q].fn < g}) + 1
  BY <1>1
<1>4. \A q \in 1..c : q \in B <=> code[q].fn < g
  OBVIOUS
<1>5. B \in SUBSET Nat /\ \A q \in B : q \in 1..c
  BY <1>1
<1>0. a = Cardinality(B) + 1
  OBVIOUS
<1>9. \A q, r \in 1..c : q < r => code[q].fn <= code[r].fn
  BY <1>1 DEF Sorted
<1> HIDE DEF a, B, c
<1>6. ASSUME B = {}
      PROVE  a \in 1..c + 1 /\ \A q \in 1..c : q < a <=> q \in B
  <2>1. Cardinality(B) = 0
    BY <1>6, FS_EmptySet
  <2>2. a = 1
    BY <2>1, <1>0
  <2> QED
    BY <1>1, <1>6, <2>2
<1>7. ASSUME B # {}
      PROVE  a \in 1..c + 1 /\ \A q \in 1..c : q < a <=> q \in B
  <2>0. c \in Nat /\ \A q \in B : q <= c
    BY <1>1, <1>5
  <2>1. PICK j \in B : \A q \in B : q <= j
    BY <2>0, <1>5, <1>7, Greatest
  <2>2. ASSUME NEW q \in 1..j
        PROVE  q \in B
    <3>1. q \in 1..c /\ (q < j \/ q = j) /\ j \in 1..c
      BY <1>1, <1>5, <2>1
    <3>2. code[q].fn <= code[j].fn
      BY <1>2, <1>9, <3>1
    <3>3. code[j].fn < g
      BY <1>4, <2>1, <3>1
    <3> QED
      BY <1>2, <1>4, <3>1, <3>2, <3>3
  <2>3. B = 1..j /\ j \in 1..c
    <3>1. j \in 1..c /\ \A q \in B : q \in 1..j
      BY <1>1, <1>5, <2>1
    <3> QED
      BY <2>2, <3>1
  <2>4. Cardinality(B) = j
    <3>1. Cardinality(1..j) = IF 1 > j THEN 0 ELSE j - 1 + 1
      BY <2>3, FS_Interval
    <3> QED
      BY <1>1, <2>3, <3>1
  <2>5. a = j + 1
    BY <2>4, <1>0
  <2> QED
    BY <1>1, <2>3, <2>5
<1>8. a \in 1..c + 1 /\ \A q \in 1..c : q < a <=> q \in B
  BY <1>6, <1>7
<1>10. a \in 1..c + 1 /\ \A q \in 1..c : q < a <=> code[q].fn < g
  BY <1>4, <1>8
<1> QED
  BY <1>1, <1>3, <1>10

LEMMA GenerationStep ==
  ASSUME SemaType, Tree, Generation, [Next]_vars
  PROVE  Generation'
<1> DEFINE m == Len(functions)
           c == Len(code)
<1>1. /\ functions \in Programs /\ m \in Nat /\ c \in Nat /\ DOMAIN code = 1..c
      /\ gen \in 1..m + 1 /\ gen \in Nat /\ at \in Nat
  <2>1. functions \in Programs /\ c \in Nat /\ DOMAIN code = 1..c
    BY SeqFacts DEF SemaType
  <2>2. m \in Nat
    BY <2>1, FunctionFacts
  <2> QED
    BY <2>1, <2>2 DEF Generation
<1>2. m = Len(functions) /\ c = Len(code)
  OBVIOUS
<1> HIDE DEF m, c
<1>3. ASSUME functions' = functions
      PROVE  /\ \A x : Named(x)' = Named(x)
             /\ \A f, x : ParamsOf(f, x)' = ParamsOf(f, x)
             /\ \A f, i : Param(f, i)' = Param(f, i)
  BY <1>3, SameFunctions
<1>4. ASSUME functions' = functions, module' = module, NEW z, Callable(z)
      PROVE  Callable(z)'
  BY <1>3, <1>4 DEF Callable
<1>5. CASE SemaNext /\ UNCHANGED codegenVars
  <2>1. phase \notin {"codegen", "aborted", "generated"} /\ functions' = functions
    BY <1>5 DEF SemaNext, ResolveSignature, SignaturesResolved, EnterBody, ResolveExprStmt,
         ResolveVariableDecl, ResolveReturnStmt, ResolveCondition, ResolveElse, ResolveEnd,
         LeaveBody, Accept, Resolve, InBody
  <2>2. UNCHANGED <<namedValues, module, gen, at>>
    BY <1>5 DEF codegenVars
  <2>3. at = 0 /\ gen = 1 /\ Callable(1)
    BY <2>1 DEF Generation
  <2>4. \A z : z = 1 => Callable(z)'
    BY <1>4, <2>1, <2>2, <2>3
  <2> QED
    BY <1>1, <1>2, <2>1, <2>2, <2>3, <2>4 DEF Generation
<1>6. CASE /\ UNCHANGED <<functions, code, namedValues, module, gen, at>>
           /\ \/ phase' = phase
              \/ at = 0 /\ phase = "codegen" /\ phase' \in {"aborted", "generated"}
  <2>1. \A z : Callable(z) => Callable(z)'
    BY <1>4, <1>6
  <2>2. (Arguments => Arguments') /\ (Visited => Visited')
    <3>1. /\ \A f, x : ParamsOf(f, x)' = ParamsOf(f, x)
          /\ \A f, i : Param(f, i)' = Param(f, i)
      BY <1>3, <1>6
    <3>2. \A x : Max(ParamsOf(gen, x))' = Max(ParamsOf(gen, x))
      BY <1>6 DEF ParamsOf
    <3>3. \A x : Param(gen, Max(ParamsOf(gen, x)))' = Param(gen, Max(ParamsOf(gen, x)))
      BY <1>6 DEF ParamsOf, Param, Declaration
    <3> QED
      BY <1>6, <3>1, <3>2, <3>3 DEF Arguments, Visited
  <2> QED
    BY <1>6, <2>1, <2>2 DEF Generation
<1>7. CASE FinishFunction
  <2>1. /\ UNCHANGED <<functions, phase, code, namedValues, module>>
        /\ phase = "codegen" /\ at # 0 /\ gen' = gen + 1 /\ at' = 0
    BY <1>7 DEF FinishFunction
  <2>2. gen <= m /\ Callable(gen + 1)
    BY <1>2, <2>1 DEF Generation
  <2>3. gen' \in 1..m + 1 /\ gen' \in Nat
    BY <1>1, <2>1, <2>2
  <2>4. Callable(gen)'
    BY <1>4, <2>1, <2>2
  <2> QED
    BY <1>2, <2>1, <2>3, <2>4 DEF Generation
<1>8. CASE VisitStep
  <2>1. /\ phase = "codegen" /\ at \in 1..c /\ code[at].fn = gen /\ at # 0
        /\ \A x \in Names : module'[x] \in {module[x], Taken}
        /\ DOMAIN module' = Names
        /\ UNCHANGED <<functions, phase, code, gen>>
    BY <1>1, <1>2, <1>8 DEF VisitStep
  <2>2. gen <= m /\ Arguments /\ Visited /\ Callable(gen + 1) /\ DOMAIN namedValues = Names
    BY <1>2, <2>1 DEF Generation
  <2>3. /\ Declared /\ Redeclared
        /\ \A q \in 1..c, x \in Names : ResolvedName(q, x)
    BY <1>2, <2>1 DEF Tree
  <2>4. StatementOK(code[at])
    BY <1>2, <2>1 DEF SemaType
  <2>5. Conditional(at) => /\ Match(at) \in at + 1..c /\ Ends(Match(at), at)
                           /\ \A r \in at + 1..Match(at) - 1 :
                                code[r].depth > code[at].depth \/ code[r].op = "else"
    BY <1>2, <2>1, MatchFacts
  <2>6. at' \in Nat /\ at' > at
    BY <1>1, <1>8, <2>1, <2>5 DEF VisitStep
  \* the variable that a name means was visited before, or just now
  <2>7. ASSUME NEW x \in Names, NEW q \in 1..c, q >= at', code[q].fn = gen,
               code[q].res[x].kind = "var", code[q].res[x].pos < at'
        PROVE  namedValues'[x] = code[q].res[x]
    <3>1. PICK p \in 1..q - 1 :
            /\ code[q].res[x] = Var(p) /\ code[p].op = "var"
            /\ code[p].name = x /\ code[p].fn = gen
            /\ \A s \in p + 1..q - 1 : ~Closes(s, p)
      BY <2>3, <2>7 DEF ResolvedName, ResolvedVar
    <3>2. code[q].res[x].pos = p /\ p < at' /\ p \in 1..c /\ q > at
      BY <1>1, <2>6, <2>7, <3>1 DEF Var, Declaration
    <3>3. CASE p < at
      <4>1. namedValues[x] = code[q].res[x]
        <5>1. q \in 1..Len(code) /\ q >= at
          BY <1>1, <1>2, <2>7, <3>2
        <5> QED
          BY <2>2, <2>7, <3>2, <3>3, <5>1 DEF Visited
      <4>2. code[at].op = "var" => code[at].name # x
        <5>1. SUFFICES ASSUME code[at].op = "var", code[at].name = x
                       PROVE  FALSE
          OBVIOUS
        <5>2. SameVar(p, at)
          BY <2>1, <3>1, <5>1 DEF SameVar
        <5>3. PICK s \in p + 1..at - 1 : Closes(s, p)
          BY <1>2, <2>1, <2>3, <3>2, <3>3, <5>2 DEF Redeclared
        <5>4. s \in p + 1..q - 1
          BY <1>1, <2>1, <3>2, <5>3
        <5> QED
          BY <3>1, <5>3, <5>4
      <4> QED
        BY <1>8, <2>2, <2>7, <4>1, <4>2 DEF VisitStep, Conditional
    <3>4. CASE p = at
      <4>1. code[at].op = "var" /\ code[at].name = x /\ ~Conditional(at)
        BY <3>1, <3>4 DEF Conditional
      <4>2. namedValues' = [namedValues EXCEPT ![x] = Var(p)]
        BY <1>8, <3>4, <4>1 DEF VisitStep
      <4> QED
        BY <2>2, <3>1, <4>2
    <3>5. CASE p > at
      <4>1. Conditional(at) /\ at' = Match(at) + 1
        BY <1>1, <1>8, <3>2, <3>5 DEF VisitStep
      <4>2. /\ Match(at) \in at + 1..c
            /\ code[Match(at)].op = "end" /\ code[Match(at)].depth = code[at].depth
        BY <2>5, <4>1 DEF Ends
      <4>3. p # Match(at)
        BY <3>1, <4>2
      <4>4. p \in at + 1..Match(at) - 1 /\ Match(at) \in p + 1..q - 1
        BY <1>1, <2>1, <2>7, <3>2, <3>5, <4>1, <4>2, <4>3
      <4>5. code[p].depth > code[at].depth
        BY <2>5, <3>1, <4>1, <4>4
      <4>6. code[p].depth \in Nat /\ code[at].depth \in Nat
        BY <1>2, <2>4, <3>2 DEF SemaType, StatementOK
      <4>7. Closes(Match(at), p)
        BY <4>2, <4>5, <4>6 DEF Closes
      <4> QED
        BY <3>1, <4>4, <4>7
    <3> QED
      BY <1>1, <3>2, <3>3, <3>4, <3>5
  <2>8. Visited'
    BY <1>2, <2>1, <2>7 DEF Visited
  <2>9. Arguments'
    <3>1. ASSUME NEW x \in Names, ParamsOf(gen, x) # {}
          PROVE  namedValues'[x] = namedValues[x]
      <4>1. code[at].op = "var" => code[at].name # x
        BY <1>2, <2>1, <2>3, <3>1 DEF Declared
      <4> QED
        BY <1>8, <2>2, <4>1 DEF VisitStep, Conditional
    <3>2. ASSUME NEW x
          PROVE  /\ ParamsOf(gen, x)' = ParamsOf(gen, x)
                 /\ Param(gen, Max(ParamsOf(gen, x)))' = Param(gen, Max(ParamsOf(gen, x)))
      BY <2>1 DEF ParamsOf, Param, Declaration
    <3> QED
      BY <2>2, <3>1, <3>2 DEF Arguments
  <2>10. \A z : z = gen + 1 => Callable(z)'
    BY <1>3, <2>1, <2>2 DEF Callable
  <2>11. DOMAIN namedValues' = Names
    BY <1>8, <2>2 DEF VisitStep
  <2>12. at' # 0 /\ gen' \in 1..Len(functions') + 1 /\ gen' <= Len(functions') /\ DOMAIN module' = Names
    BY <1>1, <1>2, <2>1, <2>2, <2>6 DEF Generation
  <2> QED
    BY <2>1, <2>6, <2>8, <2>9, <2>10, <2>11, <2>12 DEF Generation
<1>9. CASE StartFunction
  <2>1. /\ phase = "codegen" /\ at = 0 /\ gen <= m
        /\ UNCHANGED <<functions, phase, code, gen>>
        /\ at' = Cardinality({q \in DOMAIN code : code[q].fn < gen}) + 1
        /\ module' = Created(functions[gen].name)
        /\ namedValues' = [x \in Names |->
             LET named == {i \in DOMAIN functions[gen].params : functions[gen].params[i].name = x}
             IN  IF named = {} THEN NoDecl
                 ELSE Param(gen, CHOOSE i \in named : \A j \in named : j <= i)]
    BY <1>2, <1>9 DEF StartFunction
  <2>2. /\ Callable(gen) /\ DOMAIN module = Names /\ Sorted
        /\ \A q \in 1..c, x \in Names : ResolvedName(q, x)
        /\ gen \in 1..m
    BY <1>1, <1>2, <2>1 DEF Generation, Tree
  <2>3. /\ at' \in Nat \ {0}
        /\ \A q \in 1..c : code[q].fn = gen => q >= at'
    <3>1. /\ at' \in 1..c + 1
          /\ \A q \in 1..c : q < at' <=> code[q].fn < gen
      BY <1>1, <1>2, <2>1, <2>2, FirstStatement
    <3> QED
      BY <1>1, <3>1
  <2>4. Visited'
    <3>1. ASSUME NEW x \in Names, NEW q \in 1..c, code[q].fn = gen, code[q].res[x].kind = "var"
          PROVE  ~(code[q].res[x].pos < at')
      <4>1. PICK p \in 1..q - 1 : code[q].res[x] = Var(p) /\ code[p].fn = gen
        BY <2>2, <3>1 DEF ResolvedName, ResolvedVar
      <4>2. p \in 1..c /\ code[q].res[x].pos = p
        BY <1>1, <4>1 DEF Var, Declaration
      <4> QED
        BY <2>3, <4>1, <4>2
    <3> QED
      BY <1>2, <2>1, <3>1 DEF Visited
  <2>5. Arguments'
    <3>1. ASSUME NEW x \in Names, ParamsOf(gen, x) # {}
          PROVE  namedValues'[x] = Param(gen, Max(ParamsOf(gen, x)))
      <4> DEFINE named == ParamsOf(gen, x)
                 last == CHOOSE i \in named : \A j \in named : j <= i
      <4>1. namedValues'[x] = Param(gen, last)
        BY <2>1, <3>1 DEF ParamsOf
      <4>2. Len(functions[gen].params) \in Nat /\ named \in SUBSET Nat
            /\ \A i \in named : i <= Len(functions[gen].params)
        BY <1>1, <1>2, <2>2, FunctionFacts DEF ParamsOf
      <4> HIDE DEF named
      <4>3. \E i \in named : \A j \in named : j <= i
        BY <3>1, <4>2, Greatest DEF named
      <4>4. last \in named /\ \A j \in named : j <= last
        BY <4>3, Zenon
      <4>5. Max(named) = last
        BY <4>2, <4>4, MaxIs
      <4> QED
        BY <4>1, <4>5 DEF named
    <3>2. ASSUME NEW x
          PROVE  /\ ParamsOf(gen, x)' = ParamsOf(gen, x)
                 /\ Param(gen, Max(ParamsOf(gen, x)))' = Param(gen, Max(ParamsOf(gen, x)))
      BY <2>1 DEF ParamsOf, Param, Declaration
    <3> QED
      BY <3>1, <3>2 DEF Arguments
  <2>6. ASSUME NEW z, z = gen + 1
        PROVE  Callable(z)'
    <3> DEFINE y == functions[gen].name
    <3>1. y \in Names
      BY <1>1, <1>2, <2>2, FunctionFacts
    <3>4. /\ module[y] = 0 => module' = [module EXCEPT ![y] = gen]
          /\ module[y] # 0 => module' = module
      BY <2>1 DEF Created
    <3>2. ASSUME NEW x \in Names, module'[x] # Taken
          PROVE  LET after == {f \in Named(x) : f < z}
                 IN  module'[x] = IF after = {} THEN 0 ELSE Min(after)
      <4> DEFINE before == {f \in Named(x) : f < gen}
                 after  == {f \in Named(x) : f < z}
      <4>0. module[x] # Taken
        BY <2>2, <3>2, <3>4 DEF Taken
      <4>1. module[x] = IF before = {} THEN 0 ELSE Min(before)
        BY <2>2, <4>0 DEF Callable
      <4>2. Named(x) \in SUBSET (Nat \ {0}) /\ (gen \in Named(x) <=> x = y)
        BY <1>1, <1>2, <2>2, FunctionFacts DEF Named
      <4>3. after = before \cup (IF x = y THEN {gen} ELSE {})
        <5>1. \A f \in Named(x) : f < z <=> (f < gen \/ f = gen)
          BY <1>1, <2>6, <4>2
        <5> QED
          BY <4>2, <5>1
      <4>4. before \in SUBSET Nat /\ after \in SUBSET Nat /\ \A f \in before : f < gen
        BY <4>2
      <4>5. CASE x # y
        <5>1. module'[x] = module[x]
          BY <2>2, <3>4, <4>5
        <5> QED
          BY <4>1, <4>3, <4>5, <5>1
      <4>6. CASE x = y /\ before = {}
        <5>1. module'[x] = gen
          BY <2>2, <3>1, <3>4, <4>1, <4>6
        <5>2. Min(after) = gen
          BY <1>1, <4>3, <4>6, MinIs
        <5> QED
          BY <4>3, <4>6, <5>1, <5>2
      <4>7. CASE x = y /\ before # {}
        <5>1. Min(before) # 0
          <6>1. Min(before) \in before
            BY <4>4, <4>7, MinFacts
          <6> QED
            BY <4>2, <6>1
        <5> HIDE DEF before, after
        <5>2. Min(before) \in before /\ \A f \in before : Min(before) <= f
          BY <4>4, <4>7, MinFacts
        <5>3. Min(before) \in after /\ Min(before) \in Nat
          BY <4>3, <4>4, <5>2
        <5>4. \A f \in after : Min(before) <= f
          BY <1>1, <4>3, <4>4, <5>2, <5>3
        <5>5. Min(after) = Min(before)
          BY <4>4, <5>3, <5>4, MinIs
        <5>6. module'[x] = module[x]
          BY <3>4, <4>1, <4>7, <5>1 DEF before
        <5>7. after # {}
          BY <5>3
        <5> QED
          BY <4>1, <4>7, <5>5, <5>6, <5>7 DEF after
      <4> QED
        BY <4>5, <4>6, <4>7
    <3>3. \A x : Named(x)' = Named(x)
      BY <1>3, <2>1
    <3> QED
      BY <3>2, <3>3, <2>6 DEF Callable
  <2>7. DOMAIN namedValues' = Names /\ DOMAIN module' = Names
    BY <2>1, <2>2 DEF Created
  <2>8. gen' \in 1..Len(functions') + 1 /\ gen' <= Len(functions')
    BY <1>1, <1>2, <2>1
  <2> QED
    BY <2>1, <2>3, <2>4, <2>5, <2>6, <2>7, <2>8 DEF Generation
<1> QED
  BY <1>5, <1>6, <1>7, <1>8, <1>9, Visits

-----------------------------------------------------------------------------
FrontendInv == SemaType /\ ScopesMean /\ Tree /\ Generation

LEMMA FrontendInvInit == ASSUME Init PROVE FrontendInv
BY SemaTypeInit, ScopesMeanInit, TreeInit, GenerationInit DEF FrontendInv

LEMMA FrontendInvStep == ASSUME FrontendInv, [Next]_vars PROVE FrontendInv'
BY SemaTypeStep, ScopesMeanStep, TreeStep, GenerationStep DEF FrontendInv

LEMMA FrontendInvCorrect == Spec => []FrontendInv
<1>1. Init => FrontendInv
  BY FrontendInvInit
<1>2. FrontendInv /\ [Next]_vars => FrontendInv'
  BY FrontendInvStep
<1> QED
  BY <1>1, <1>2, PTL DEF Spec

(* The statement at hand is one of the tree, and what its names mean is known. *)
LEMMA AtFacts ==
  ASSUME FrontendInv, AtExpr, NEW x \in Names
  PROVE  /\ at \in 1..Len(code) /\ code[at].fn = gen /\ at # 0 /\ gen \in 1..Len(functions)
         /\ functions \in Programs
         /\ ResolvedName(at, x) /\ Callable(gen + 1) /\ Arguments /\ Visited
<1>1. phase = "codegen" /\ at \in DOMAIN code /\ code[at].fn = gen
  BY DEF AtExpr
<1>2. at \in 1..Len(code) /\ Len(code) \in Nat /\ at # 0
  BY <1>1, SeqFacts DEF FrontendInv, SemaType
<1>3. Len(functions) \in Nat /\ functions \in Programs
  BY FunctionFacts DEF FrontendInv, SemaType
<1> QED
  BY <1>1, <1>2, <1>3 DEF FrontendInv, Generation, Tree

(* getFunction() (codegen.cpp) and lookupDecl() (sema.h) both find the first *)
(* function of a name, although the one knows only those before the caller.  *)
LEMMA CalleeIs ==
  ASSUME FrontendInv, AtExpr, NEW x \in Names, code[at].res[x].kind = "fn", module[x] # Taken
  PROVE  /\ code[at].res[x].fn \in Named(x) /\ code[at].res[x].fn \in Nat
         /\ module[x] = IF code[at].res[x].fn > gen THEN 0 ELSE code[at].res[x].fn
<1> DEFINE before == {f \in Named(x) : f < gen + 1}
           first  == code[at].res[x].fn
<1>1. first = Min(Named(x)) /\ Named(x) # {}
  BY AtFacts DEF ResolvedName
<1>2. module[x] = IF before = {} THEN 0 ELSE Min(before)
  BY AtFacts DEF Callable
<1>3. Named(x) \in SUBSET Nat /\ before \in SUBSET Nat /\ gen \in Nat
  BY AtFacts, FunctionFacts DEF Named
<1>4. first \in Named(x) /\ \A f \in Named(x) : first <= f
  BY <1>1, <1>3, MinFacts
<1>5. CASE first > gen
  <2>1. before = {}
    BY <1>3, <1>4, <1>5
  <2> QED
    BY <1>2, <1>3, <1>4, <1>5, <2>1
<1>6. CASE ~(first > gen)
  <2>1. first \in before /\ \A f \in before : first <= f
    BY <1>3, <1>4, <1>6
  <2> HIDE DEF before
  <2>2. Min(before) = first
    BY <1>3, <2>1, MinIs
  <2> QED
    BY <1>2, <1>3, <1>4, <1>6, <2>1, <2>2
<1> QED
  BY <1>5, <1>6

LEMMA NamesAgreeInv == FrontendInv => NamesAgree
<1>1. ASSUME FrontendInv, AtExpr, NEW x \in Names, code[at].res[x].kind = "var"
      PROVE  namedValues[x] = code[at].res[x]
  <2>1. PICK p \in 1..at - 1 : code[at].res[x] = Var(p)
    BY <1>1, AtFacts DEF ResolvedName, ResolvedVar
  <2>2. Visited /\ at \in 1..Len(code) /\ code[at].fn = gen
    BY <1>1, AtFacts
  <2>3. at \in Nat /\ at >= at
    BY <2>2
  <2>4. code[at].res[x].pos < at
    BY <2>1, <2>3 DEF Var, Declaration
  <2> QED
    BY <1>1, <2>2, <2>3, <2>4 DEF Visited
<1>2. ASSUME FrontendInv, AtExpr, NEW x \in Names, code[at].res[x].kind = "param"
      PROVE  /\ code[at].res[x] = Param(gen, Min(ParamsOf(gen, x)))
             /\ namedValues[x] = Param(gen, Max(ParamsOf(gen, x)))
  BY <1>2, AtFacts DEF ResolvedName, Arguments
<1> QED
  BY <1>1, <1>2 DEF NamesAgree

(* NamedValues (codegen.cpp) is one table without scopes, from which nothing is *)
(* erased before the next function.  All the same it yields, for every name of  *)
(* every statement that is generated, the variable the analysis resolved it to, *)
(* also behind blocks that were left, or never generated.                       *)
THEOREM NamesAgreeCorrect == Spec => []NamesAgree
BY NamesAgreeInv, FrontendInvCorrect, PTL

-----------------------------------------------------------------------------
(* The types of the tables *)
Tables ==
  /\ namedValues \in [Names -> Decls]
  /\ module \in [Names -> {Taken} \cup 0..Len(functions)]

LEMMA TablesInit == ASSUME Init PROVE Tables
<1>1. functions \in Programs
  BY DEF Init, SemaInit
<1>2. NoDecl \in Decls /\ 0 \in 0..Len(functions)
  BY <1>1, DeclFacts, FunctionFacts
<1> QED
  BY <1>2 DEF Init, CodegenInit, Tables

LEMMA TablesStep ==
  ASSUME SemaType, Generation, Tables, [Next]_vars
  PROVE  Tables'
<1>1. functions \in Programs /\ Len(functions) \in Nat
  BY FunctionFacts DEF SemaType
<1>2. CASE UNCHANGED <<functions, namedValues, module>>
  BY <1>2 DEF Tables
<1>3. CASE StartFunction
  <2>1. functions' = functions /\ gen \in 1..Len(functions)
    BY <1>1, <1>3 DEF StartFunction, Generation
  <2>2. functions[gen].name \in Names /\ gen \in 0..Len(functions)
    BY <1>1, <2>1, FunctionFacts
  <2>3. module' \in [Names -> {Taken} \cup 0..Len(functions)]
    BY <1>3, <2>2 DEF StartFunction, Created, Tables
  <2>4. ASSUME NEW x \in Names,
               NEW named, named = {i \in DOMAIN functions[gen].params :
                                     functions[gen].params[i].name = x}
        PROVE  named # {} => Param(gen, CHOOSE i \in named : \A j \in named : j <= i) \in Decls
    <3>1. SUFFICES ASSUME named # {}
                   PROVE  Param(gen, CHOOSE i \in named : \A j \in named : j <= i) \in Decls
      OBVIOUS
    <3>2. /\ Len(functions[gen].params) \in Nat
          /\ named \in SUBSET (1..Len(functions[gen].params))
      BY <1>1, <2>1, <2>4, FunctionFacts
    <3>3. named \in SUBSET Nat /\ \A j \in named : j <= Len(functions[gen].params)
      BY <3>2
    <3>4. \E i \in named : \A j \in named : j <= i
      BY <3>1, <3>2, <3>3, Greatest
    <3>5. (CHOOSE i \in named : \A j \in named : j <= i) \in named
      BY <3>4
    <3>6. \A i \in named : Param(gen, i) \in Decls
      BY <1>1, <2>1, <3>2, DeclFacts
    <3> QED
      BY <3>5, <3>6
  <2>5. namedValues' \in [Names -> Decls]
    <3>1. NoDecl \in Decls
      BY <1>1, DeclFacts
    <3> QED
      BY <1>3, <2>4, <3>1 DEF StartFunction
  <2> QED
    BY <2>1, <2>3, <2>5 DEF Tables
<1>4. CASE VisitStep
  <2>1. functions' = functions /\ module' \in [Names -> {Taken} \cup 0..Len(functions)]
    BY <1>4 DEF VisitStep, Tables
  <2>2. CASE namedValues' = namedValues
    BY <2>1, <2>2 DEF Tables
  <2>3. CASE code[at].op = "var" /\ namedValues' = [namedValues EXCEPT ![code[at].name] = Var(at)]
    <3>1. StatementOK(code[at]) /\ fn \in Nat /\ at \in Nat
      BY <1>1, <1>4 DEF VisitStep, SemaType, Generation
    <3>2. Var(at) \in Decls
      <4>1. code[at].fn \in Nat /\ code[at].name \in Names /\ code[at].spec \in Specs
        BY <2>3, <3>1 DEF StatementOK
      <4> QED
        BY <3>1, <4>1 DEF Var, Declaration, Decls
    <3> QED
      BY <2>1, <2>3, <3>2 DEF Tables
  <2> QED
    BY <1>4, <2>2, <2>3 DEF VisitStep
<1> QED
  <2>1. SemaNext => functions' = functions
    BY DEF SemaNext, ResolveSignature, SignaturesResolved, EnterBody, ResolveExprStmt,
         ResolveVariableDecl, ResolveReturnStmt, ResolveCondition, ResolveElse, ResolveEnd,
         LeaveBody, Accept, Resolve
  <2>2. FinishFunction => UNCHANGED <<functions, namedValues, module>>
    BY DEF FinishFunction
  <2> QED
    BY <1>2, <1>3, <1>4, <2>1, <2>2, Visits DEF codegenVars

-----------------------------------------------------------------------------
(* Everything that the analysis went past has a type. *)
HasTypes(f) ==
  /\ ResolveType(functions[f].spec) # "error"
  /\ \A i \in DOMAIN functions[f].params : ResolveType(functions[f].params[i].spec) # "error"

Typed ==
  phase # "rejected" =>
    /\ \A f \in 1..(IF phase = "signatures" THEN fn - 1 ELSE Len(functions)) : HasTypes(f)
    /\ \A q \in 1..Len(code) : code[q].type # "error"

LEMMA TypedInit == ASSUME Init PROVE Typed
<1>1. phase = "signatures" /\ fn = 1 /\ Len(code) = 0
  BY EmptySeq DEF Init, SemaInit
<1> QED
  BY <1>1 DEF Typed

LEMMA TypedStep == ASSUME SemaType, Typed, [Next]_vars PROVE Typed'
<1> SUFFICES ASSUME phase' # "rejected" PROVE Typed'
  BY DEF Typed
<1> DEFINE m == Len(functions)
           c == Len(code)
<1>1. m \in Nat /\ c \in Nat /\ fn \in 1..m + 1 /\ IsSeq(code)
  BY FunctionFacts, SeqFacts DEF SemaType
<1>2. m = Len(functions) /\ c = Len(code)
  OBVIOUS
<1> HIDE DEF m, c
<1>3. ASSUME UNCHANGED <<functions, code>>, phase # "rejected",
             phase = "signatures" <=> phase' = "signatures", phase = "signatures" => fn' = fn
      PROVE  Typed'
  BY <1>2, <1>3 DEF Typed, HasTypes
\* a statement that has a type joins the others
<1>4. ASSUME NEW s, code' = Append(code, s), s.type # "error", UNCHANGED <<functions, fn>>,
             phase = "bodies", phase' = "bodies"
      PROVE  Typed'
  <2>1. /\ Len(code') = c + 1 /\ code'[c + 1] = s
        /\ \A q \in 1..c : code'[q] = code[q]
    BY <1>1, <1>2, <1>4, Appended
  <2>2. \A q \in 1..c + 1 : code'[q].type # "error"
    <3>1. \A q \in 1..c : code[q].type # "error"
      BY <1>2, <1>4 DEF Typed
    <3>2. \A q \in 1..c + 1 : q \in 1..c \/ q = c + 1
      BY <1>1
    <3> QED
      BY <1>4, <2>1, <3>1, <3>2
  <2>3. \A f \in 1..m : HasTypes(f)'
    BY <1>2, <1>4 DEF Typed, HasTypes
  <2> QED
    BY <1>2, <1>4, <2>1, <2>2, <2>3 DEF Typed
<1>5. ASSUME NEW op, NEW name, NEW spec, NEW e, NEW ok, Resolve(op, name, spec, e, ok),
             ok => e = NoExpr \/ resolvedType[e] # "error"
      PROVE  Typed'
  <2>1. /\ code' = Append(code, Statement(op, name, spec, e)) /\ UNCHANGED <<functions, fn>>
        /\ phase = "bodies" /\ phase' = "bodies" /\ ok
    BY <1>5 DEF Resolve, InBody
  <2>2. Statement(op, name, spec, e).type # "error"
    BY <1>5, <2>1 DEF Statement
  <2> QED
    BY <1>4, <2>1, <2>2
<1>6. CASE ResolveExprStmt
  BY <1>5, <1>6 DEF ResolveExprStmt
<1>7. CASE ResolveVariableDecl
  <2>1. PICK x \in Names, spec \in VarSpecs, e \in Exprs \cup {NoExpr} :
          LET ok == Lookup(x) = NoDecl /\ (e # NoExpr => resolvedType[e] = ResolveType(spec))
          IN  Resolve("var", x, spec, e, ok)
    BY <1>7 DEF ResolveVariableDecl
  <2>2. ResolveType(spec) # "error"
    BY NamesAssumption DEF ResolveType
  <2> QED
    BY <1>5, <2>1, <2>2
<1>8. CASE ResolveReturnStmt
  <2>1. PICK e \in Exprs \cup {NoExpr} :
          Resolve("return", "", "", e,
               LET type == ResolveType(functions[fn].spec)
               IN  IF e = NoExpr THEN type = "VOID"
                                 ELSE type # "VOID" /\ resolvedType[e] = type)
    BY <1>8 DEF ResolveReturnStmt
  <2>2. ResolveType(functions[fn].spec) # "error"
    <3>1. phase = "bodies" /\ fn \in 1..m
      <4>1. InBody
        BY <2>1 DEF Resolve
      <4> QED
        BY <1>1, <1>2, <4>1 DEF SemaType, InBody
    <3> QED
      BY <1>2, <3>1 DEF Typed, HasTypes
  <2> QED
    BY <1>5, <2>1, <2>2
<1>9. CASE ResolveCondition
  BY <1>5, <1>9 DEF ResolveCondition
<1>10. CASE ResolveElse \/ ResolveEnd
  <2>1. PICK op \in {"else", "end"} :
          code' = Append(code, [Statement(op, "", "", NoExpr) EXCEPT !.depth = @ - 1])
    BY <1>10 DEF ResolveElse, ResolveEnd
  <2>2. phase = "bodies" /\ phase' = "bodies" /\ UNCHANGED <<functions, fn>>
    BY <1>10 DEF ResolveElse, ResolveEnd, InBody
  <2>3. [Statement(op, "", "", NoExpr) EXCEPT !.depth = @ - 1].type # "error"
    BY DEF Statement
  <2> QED
    BY <1>4, <2>1, <2>2, <2>3
<1>11. CASE ResolveSignature
  <2>1. /\ phase = "signatures" /\ phase' = "signatures" /\ fn <= m /\ fn' = fn + 1
        /\ HasTypes(fn) /\ UNCHANGED <<functions, code>>
    BY <1>2, <1>11 DEF ResolveSignature, ParamOK, HasTypes
  <2>2. \A f \in 1..fn' - 1 : f \in 1..fn - 1 \/ f = fn
    BY <1>1, <2>1
  <2> QED
    BY <1>2, <2>1, <2>2 DEF Typed, HasTypes
<1>12. CASE SignaturesResolved
  <2>1. phase = "signatures" /\ phase' = "bodies" /\ fn > m /\ UNCHANGED <<functions, code>>
    BY <1>2, <1>12 DEF SignaturesResolved
  <2>2. \A f \in 1..m : f \in 1..fn - 1
    BY <1>1, <2>1
  <2> QED
    BY <1>2, <2>1, <2>2 DEF Typed, HasTypes
<1>13. CASE EnterBody \/ LeaveBody \/ Accept
  BY <1>3, <1>13 DEF EnterBody, LeaveBody, Accept, InBody
<1>14. CASE UNCHANGED vars
  BY <1>3, <1>14 DEF vars, semaVars
<1>15. CASE CodegenNext /\ UNCHANGED <<scopes, fn, nest>>
  BY <1>3, <1>15 DEF CodegenNext, AssertFunctionType, StartFunction, VisitExprStmt, VisitVariableDecl,
       VisitReturnStmt, VisitIfStmt, VisitElse, VisitWhileStmt, VisitEnd, FinishFunction,
       Generate, Visiting
<1> QED
  BY <1>6, <1>7, <1>8, <1>9, <1>10, <1>11, <1>12, <1>13, <1>14, <1>15 DEF Next, SemaNext

-----------------------------------------------------------------------------
(* The fields of an expression *)
LEMMA ExprFacts ==
  ASSUME NEW e \in Exprs
  PROVE  /\ e.op \in {"literal", "ref", "print", "call", "binary", "assign"}
         /\ e.op = "literal" => e.type \in {"INT", "FLOAT", "STRING"}
         /\ e.op \in {"ref", "call", "assign"} => e.name \in Names
         /\ e.op \in {"print", "call"} =>
              /\ e.args \in Seq(Exprs) /\ DOMAIN e.args = 1..Len(e.args) /\ Len(e.args) \in Nat
              /\ \A i \in DOMAIN e.args : e.args[i] \in Parts(e)
         /\ e.op = "binary" =>
              /\ e.by \in Arithmetic \cup Comparison \cup Logical
              /\ e.left \in Parts(e) /\ e.right \in Parts(e)
         /\ e.op = "assign" => e.value \in Parts(e)
         /\ Parts(e) \in SUBSET Exprs
         /\ e # NoExpr
<1>1. e \in Forms(Exprs)
  BY ExprsAssumption
<1>2. CASE e \in [op : {"literal"}, type : {"INT", "FLOAT", "STRING"}] \cup [op : {"ref"}, name : Names]
  BY <1>2 DEF Parts, NoExpr
<1>3. CASE e \in [op : {"print"}, args : Seq(Exprs)] \cup [op : {"call"}, name : Names, args : Seq(Exprs)]
  <2>1. /\ e.op \in {"print", "call"} /\ e.args \in Seq(Exprs)
        /\ e.op = "call" => e.name \in Names
    BY <1>3
  <2>2. DOMAIN e.args = 1..Len(e.args) /\ Len(e.args) \in Nat
    BY <2>1, LenProperties
  <2>3. \A i \in DOMAIN e.args : e.args[i] \in Exprs
    BY <2>1, <2>2, ElementOfSeq
  <2>4. Parts(e) = {e.args[i] : i \in DOMAIN e.args}
    BY <2>1 DEF Parts
  <2> QED
    BY <2>1, <2>2, <2>3, <2>4 DEF NoExpr
<1>4. CASE e \in [op : {"binary"}, by : Arithmetic \cup Comparison \cup Logical,
                  left : Exprs, right : Exprs]
  <2>1. e.op = "binary" /\ e.by \in Arithmetic \cup Comparison \cup Logical
        /\ e.left \in Exprs /\ e.right \in Exprs
    BY <1>4
  <2>2. Parts(e) = {e.left, e.right}
    BY <2>1 DEF Parts
  <2> QED
    BY <2>1, <2>2 DEF NoExpr
<1>5. CASE e \in [op : {"assign"}, name : Names, value : Exprs]
  <2>1. e.op = "assign" /\ e.name \in Names /\ e.value \in Exprs
    BY <1>5
  <2>2. Parts(e) = {e.value}
    BY <2>1 DEF Parts
  <2> QED
    BY <2>1, <2>2 DEF NoExpr
<1> QED
  BY <1>1, <1>2, <1>3, <1>4, <1>5 DEF Forms

(* A function over the expressions *)
LEMMA ExprRecursion ==
  ASSUME NEW V, NEW v0 \in V, NEW step \in [[Exprs -> V] -> [Exprs -> V]],
         \A f, g \in [Exprs -> V] : \A e \in Exprs :
           (\A s \in Parts(e) : f[s] = g[s]) => step[f][e] = step[g][e]
  PROVE  \E f \in [Exprs -> V] : f = step[f]
<1> DEFINE parts == [e \in Exprs |-> Parts(e)]
<1>1. parts \in [Exprs -> SUBSET Exprs] /\ \A e \in Exprs : parts[e] = Parts(e)
  BY ExprFacts
<1>2. Height \in [Exprs -> Nat] /\ \A e \in Exprs : \A s \in parts[e] : Height[s] < Height[e]
  BY ExprsAssumption
<1>3. \A f, g \in [Exprs -> V] : \A e \in Exprs :
        (\A s \in parts[e] : f[s] = g[s]) => step[f][e] = step[g][e]
  BY <1>1
<1>4. ByParts(Exprs, V, Height, parts, step)
  <2> HIDE DEF parts
  <2> QED
    BY <1>1, <1>2, <1>3 DEF ByParts
<1> QED
  BY <1>4, TreeRecursion

(* What a statement's expression and its parts are, in the analysis *)
Typing(means, t) == \A e \in Exprs : t[e] = TypeBy(means, t, e)

LEMMA ResolvedTypeIs ==
  ASSUME SemaType
  PROVE  Typing(Means, resolvedType)
<1> DEFINE V == Types \cup {"error"}
           step == [f \in [Exprs -> V] |-> [e \in Exprs |-> TypeBy(Means, f, e)]]
<1>1. Means \in [Names -> Decls]
  BY LookupType DEF SemaType, Means
<1>2. \A d \in Decls : ResolveType(d.spec) \in V
  <2>1. \A spec \in Specs : ResolveType(spec) \in V
    BY DEF ResolveType, Specs, Types
  <2> QED
    BY <2>1 DEF Decls
<1>3. ASSUME NEW f \in [Exprs -> V], NEW e \in Exprs
      PROVE  TypeBy(Means, f, e) \in V
  <2>1. CASE e.op = "literal"
    BY <2>1, ExprFacts DEF TypeBy, Types
  <2>2. CASE e.op = "ref"
    <3>1. Means[e.name] \in Decls
      BY <1>1, <2>2, ExprFacts
    <3> QED
      BY <1>2, <2>2, <3>1 DEF TypeBy
  <2>3. CASE e.op = "print"
    BY <2>3 DEF TypeBy, Types
  <2>4. CASE e.op \in {"call", "assign"}
    <3>1. Means[e.name] \in Decls
      BY <1>1, <2>4, ExprFacts
    <3> QED
      BY <1>2, <2>4, <3>1 DEF TypeBy
  <2>5. CASE e.op = "binary"
    BY <2>5 DEF TypeBy, BinaryType, Types
  <2> QED
    BY <2>1, <2>2, <2>3, <2>4, <2>5, ExprFacts
<1>4. ASSUME NEW f \in [Exprs -> V], NEW g \in [Exprs -> V], NEW e \in Exprs,
             \A s \in Parts(e) : f[s] = g[s]
      PROVE  TypeBy(Means, f, e) = TypeBy(Means, g, e)
  <2>1. CASE e.op \in {"literal", "ref"}
    BY <2>1 DEF TypeBy
  <2>2. CASE e.op \in {"print", "call"}
    <3>1. [i \in DOMAIN e.args |-> f[e.args[i]]] = [i \in DOMAIN e.args |-> g[e.args[i]]]
      BY <1>4, <2>2, ExprFacts
    <3> QED
      BY <2>2, <3>1 DEF TypeBy
  <2>3. CASE e.op = "binary"
    <3>1. f[e.left] = g[e.left] /\ f[e.right] = g[e.right]
      BY <1>4, <2>3, ExprFacts
    <3> QED
      BY <2>3, <3>1 DEF TypeBy
  <2>4. CASE e.op = "assign"
    <3>1. f[e.value] = g[e.value]
      BY <1>4, <2>4, ExprFacts
    <3> QED
      BY <2>4, <3>1 DEF TypeBy
  <2> QED
    BY <2>1, <2>2, <2>3, <2>4, ExprFacts
<1>5. \E f \in [Exprs -> V] : f = step[f]
  <2>1. step \in [[Exprs -> V] -> [Exprs -> V]]
    <3> HIDE DEF V
    <3> QED
      BY <1>3
  <2>2. \A f, g \in [Exprs -> V] : \A e \in Exprs :
          (\A s \in Parts(e) : f[s] = g[s]) => step[f][e] = step[g][e]
    <3> HIDE DEF V
    <3> QED
      BY <1>4
  <2>3. "error" \in V
    OBVIOUS
  <2> HIDE DEF step, V
  <2> QED
    BY <2>1, <2>2, <2>3, ExprRecursion
<1>6. \E f : f = [e \in Exprs |-> TypeBy(Means, f, e)]
  <2> HIDE DEF V
  <2> QED
    BY <1>5
<1>7. resolvedType = [e \in Exprs |-> TypeBy(Means, resolvedType, e)]
  BY <1>6, Zenon DEF resolvedType
<1> QED
  BY <1>7, Zenon DEF Typing

-----------------------------------------------------------------------------
(* What an expression and its parts are in code generation *)
LlvmTypes == {"i32", "double", "ptr", "void", "null"} \cup {GenerateType(spec) : spec \in Specs}
Values == [type : LlvmTypes, const : BOOLEAN, emits : BOOLEAN, bad : BOOLEAN]

LEMMA ValueType ==
  ASSUME NEW type \in LlvmTypes, NEW const \in BOOLEAN, NEW emits \in BOOLEAN, NEW bad \in BOOLEAN
  PROVE  Value(type, const, emits, bad) \in Values
BY Zenon DEF Value, Values

LEMMA BinaryValueType ==
  ASSUME NEW by \in Arithmetic \cup Comparison \cup Logical, NEW l \in Values, NEW r \in Values
  PROVE  BinaryValue(by, l, r) \in Values
<1> DEFINE double == "double" \in {l.type, r.type}
           emits  == l.emits \/ r.emits \/ ~(l.const /\ r.const)
           const  == l.const /\ r.const
           bad    == l.bad \/ r.bad
<1>1. /\ emits \in BOOLEAN /\ const \in BOOLEAN /\ bad \in BOOLEAN
      /\ (bad \/ (by = "<" /\ double)) \in BOOLEAN /\ (l.emits \/ r.emits) \in BOOLEAN
  BY Zenon
<1>2. {"i32", "double", "null"} \subseteq LlvmTypes /\ FALSE \in BOOLEAN
  BY DEF LlvmTypes
<1>3. (IF double THEN "double" ELSE "i32") \in LlvmTypes
  BY <1>2
<1>4. \/ BinaryValue(by, l, r) = Value("null", FALSE, l.emits \/ r.emits, bad)
      \/ BinaryValue(by, l, r) = Value(IF double THEN "double" ELSE "i32", const, emits, bad)
      \/ BinaryValue(by, l, r) = Value("i32", const, emits, bad \/ (by = "<" /\ double))
  BY DEF BinaryValue
<1> HIDE DEF double, emits, const, bad
<1>5. /\ Value("null", FALSE, l.emits \/ r.emits, bad) \in Values
      /\ Value(IF double THEN "double" ELSE "i32", const, emits, bad) \in Values
      /\ Value("i32", const, emits, bad \/ (by = "<" /\ double)) \in Values
  <2>1. "null" \in LlvmTypes /\ "i32" \in LlvmTypes
    BY <1>2
  <2> QED
    BY <1>1, <1>2, <1>3, <2>1, ValueType, Zenon
<1> QED
  BY <1>4, <1>5, Zenon

(* Induction over the expressions *)
LEMMA ExprInduction ==
  ASSUME NEW S, \A e \in Exprs : Parts(e) \subseteq S => e \in S
  PROVE  Exprs \subseteq S
<1> DEFINE T == {Height[e] : e \in Exprs \ S}
<1>1. SUFFICES ASSUME T # {} PROVE FALSE
  BY <1>1
<1>2. Height \in [Exprs -> Nat] /\ \A e \in Exprs : \A s \in Parts(e) : Height[s] < Height[e]
  BY ExprsAssumption
<1>3. PICK m \in T : \A n \in T : m <= n
  <2>1. T \in SUBSET Nat
    BY <1>2
  <2> HIDE DEF T
  <2> QED
    BY <1>1, <2>1, Smallest
<1>4. PICK e \in Exprs \ S : Height[e] = m
  BY <1>3
<1>5. PICK s \in Parts(e) : s \notin S
  OBVIOUS
<1>6. s \in Exprs /\ Height[s] < Height[e] /\ Height[s] \in T
  BY <1>2, <1>5, ExprFacts
<1>7. m \in Nat /\ Height[s] \in Nat
  BY <1>2, <1>4, <1>6
<1> QED
  BY <1>3, <1>4, <1>6, <1>7

(* The names that code generation asks for while it visits an expression *)
Own == {"fmt", "printf", "str"}

LEMMA DeclaresFacts ==
  ASSUME NEW f, NEW printf
  PROVE  /\ \A S : Declares(f, S, printf) \in BOOLEAN
         /\ \A g, S : (\A s \in S : f[s] = g[s]) => Declares(f, S, printf) = Declares(g, S, printf)
<1>1. ASSUME NEW S
      PROVE  Declares(f, S, printf) \in BOOLEAN
  BY Zenon DEF Declares
<1>2. ASSUME NEW g, NEW S, \A s \in S : f[s] = g[s]
      PROVE  Declares(f, S, printf) = Declares(g, S, printf)
  BY <1>2 DEF Declares
<1> QED
  BY <1>1, <1>2

LEMMA SoonerFacts ==
  ASSUME NEW e \in Exprs, e.op \in {"print", "call"}, NEW i \in DOMAIN e.args
  PROVE  Sooner(e.args, i) \subseteq Parts(e)
<1>1. \A j \in 1..i - 1 : j \in DOMAIN e.args
  BY ExprFacts
<1> QED
  BY <1>1, ExprFacts DEF Sooner

LEMMA AsksByType ==
  ASSUME NEW f, NEW e \in Exprs, \A s \in Parts(e) : f[s] \in [BOOLEAN -> SUBSET Own],
         NEW printf \in BOOLEAN
  PROVE  AsksBy(f, e, printf) \in SUBSET Own
<1>1. \A s \in Parts(e) : \A p \in BOOLEAN : f[s][p] \in SUBSET Own
  OBVIOUS
<1>2. \A S : Declares(f, S, printf) \in BOOLEAN
  BY DeclaresFacts
<1>3. CASE e.op \in {"literal", "ref"}
  BY <1>3 DEF AsksBy, Own
<1>4. CASE e.op \in {"print", "call"}
  <2> DEFINE args == UNION {f[e.args[i]][Declares(f, Sooner(e.args, i), printf)] :
                              i \in DOMAIN e.args}
  <2>1. args \in SUBSET Own
    BY <1>1, <1>2, <1>4, ExprFacts
  <2>2. AsksBy(f, e, printf) \in {args, {}, args \cup {"fmt", "printf"}}
    BY <1>4 DEF AsksBy
  <2> HIDE DEF args
  <2> QED
    BY <2>1, <2>2 DEF Own
<1>5. CASE e.op = "binary"
  <2>1. /\ f[e.left][printf] \in SUBSET Own
        /\ f[e.right][Declares(f, {e.left}, printf)] \in SUBSET Own
    BY <1>1, <1>2, <1>5, ExprFacts
  <2> QED
    BY <1>5, <2>1 DEF AsksBy
<1>6. CASE e.op = "assign"
  <2>1. f[e.value][printf] \in SUBSET Own
    BY <1>1, <1>6, ExprFacts
  <2> QED
    BY <1>6, <2>1 DEF AsksBy
<1> QED
  BY <1>3, <1>4, <1>5, <1>6, ExprFacts

LEMMA AsksIs ==
  \A e \in Exprs : \A printf \in BOOLEAN : asks[e][printf] = AsksBy(asks, e, printf)
<1> DEFINE V == [BOOLEAN -> SUBSET Own]
           row(f, e) == [printf \in BOOLEAN |-> AsksBy(f, e, printf)]
           step == [f \in [Exprs -> V] |-> [e \in Exprs |-> row(f, e)]]
<1>1. ASSUME NEW f \in [Exprs -> V], NEW e \in Exprs
      PROVE  row(f, e) \in V
  BY AsksByType, ExprFacts
<1>2. ASSUME NEW f \in [Exprs -> V], NEW g \in [Exprs -> V], NEW e \in Exprs,
             \A s \in Parts(e) : f[s] = g[s], NEW printf \in BOOLEAN
      PROVE  AsksBy(f, e, printf) = AsksBy(g, e, printf)
  <2>1. \A S : S \subseteq Parts(e) => Declares(f, S, printf) = Declares(g, S, printf)
    BY <1>2, DeclaresFacts
  <2>2. CASE e.op \in {"literal", "ref"}
    BY <2>2 DEF AsksBy
  <2>3. CASE e.op \in {"print", "call"}
    <3>1. \A i \in DOMAIN e.args :
            f[e.args[i]][Declares(f, Sooner(e.args, i), printf)]
              = g[e.args[i]][Declares(g, Sooner(e.args, i), printf)]
      BY <1>2, <2>1, <2>3, ExprFacts, SoonerFacts
    <3>2. {f[e.args[i]][Declares(f, Sooner(e.args, i), printf)] : i \in DOMAIN e.args}
            = {g[e.args[i]][Declares(g, Sooner(e.args, i), printf)] : i \in DOMAIN e.args}
      BY <3>1
    <3>3. CASE e.op = "print"
      BY <3>2, <3>3 DEF AsksBy
    <3>4. CASE e.op = "call"
      BY <3>2, <3>4 DEF AsksBy
    <3> QED
      BY <2>3, <3>3, <3>4
  <2>4. CASE e.op = "binary"
    <3>1. /\ f[e.left] = g[e.left] /\ f[e.right] = g[e.right]
          /\ Declares(f, {e.left}, printf) = Declares(g, {e.left}, printf)
      BY <1>2, <2>1, <2>4, ExprFacts
    <3> QED
      BY <2>4, <3>1 DEF AsksBy
  <2>5. CASE e.op = "assign"
    <3>1. f[e.value] = g[e.value]
      BY <1>2, <2>5, ExprFacts
    <3> QED
      BY <2>5, <3>1 DEF AsksBy
  <2> QED
    BY <2>2, <2>3, <2>4, <2>5, ExprFacts
<1>3. \E f \in [Exprs -> V] : f = step[f]
  <2>1. step \in [[Exprs -> V] -> [Exprs -> V]]
    <3> HIDE DEF V, row
    <3> QED
      BY <1>1
  <2>2. ASSUME NEW f \in [Exprs -> V], NEW g \in [Exprs -> V], NEW e \in Exprs,
               \A s \in Parts(e) : f[s] = g[s]
        PROVE  step[f][e] = step[g][e]
    <3>1. row(f, e) = row(g, e)
      BY <1>2, <2>2
    <3> HIDE DEF V, row
    <3> QED
      BY <3>1
  <2>3. [p \in BOOLEAN |-> {}] \in V
    OBVIOUS
  <2> HIDE DEF step, V
  <2> QED
    BY <2>1, <2>2, <2>3, ExprRecursion
<1>4. \E f : f = [e \in Exprs |-> [printf \in BOOLEAN |-> AsksBy(f, e, printf)]]
  <2> HIDE DEF V
  <2> QED
    BY <1>3
<1>5. asks = [e \in Exprs |-> [printf \in BOOLEAN |-> AsksBy(asks, e, printf)]]
  BY <1>4, Zenon DEF asks
<1>6. \A e \in Exprs : asks[e] = [printf \in BOOLEAN |-> AsksBy(asks, e, printf)]
  BY <1>5, Zenon
<1> QED
  BY <1>6

(* The functions that getFunction() can give *)
LEMMA CalleeFacts ==
  ASSUME Tables, functions \in Programs, NEW x \in Names, NEW printf
  PROVE  /\ Callee(x, printf) \in {0, Taken} \cup 1..Len(functions)
         /\ Result(Callee(x, printf)) \in LlvmTypes \/ Callee(x, printf) = 0
         /\ module[x] \notin {0, Taken} => Callee(x, printf) = module[x] /\ module[x] # 0
<1>1. Len(functions) \in Nat /\ module[x] \in {Taken} \cup 0..Len(functions)
  BY FunctionFacts DEF Tables
<1>2. /\ Callee(x, printf) \in {0, Taken} \cup 1..Len(functions)
      /\ module[x] \notin {0, Taken} => Callee(x, printf) = module[x] /\ module[x] # 0
  BY <1>1 DEF Callee, Taken
<1>3. \A g \in 1..Len(functions) : GenerateType(functions[g].spec) \in LlvmTypes
  BY FunctionFacts DEF LlvmTypes
<1>4. Result(Callee(x, printf)) \in LlvmTypes \/ Callee(x, printf) = 0
  BY <1>2, <1>3 DEF Result, LlvmTypes
<1> QED
  BY <1>2, <1>4

LEMMA ValueByType ==
  ASSUME Tables, functions \in Programs, NEW f, NEW e \in Exprs,
         \A s \in Parts(e) : f[s] \in [BOOLEAN -> Values], NEW printf \in BOOLEAN
  PROVE  ValueBy(f, e, printf) \in Values
<1>1. /\ {"i32", "double", "ptr", "null", "void"} \subseteq LlvmTypes
      /\ \A spec \in Specs : GenerateType(spec) \in LlvmTypes
      /\ TRUE \in BOOLEAN /\ FALSE \in BOOLEAN
  BY DEF LlvmTypes
<1>2. \A x \in Names : namedValues[x] \in Decls /\ namedValues[x].spec \in Specs
  BY DEF Tables, Decls
<1>3. /\ \A s \in Parts(e) : \A p \in BOOLEAN : f[s][p] \in Values
      /\ \A S : Declares(asks, S, printf) \in BOOLEAN
  BY DeclaresFacts
<1>4. CASE e.op = "literal"
  <2>1. LlvmType(e.type) \in LlvmTypes
    BY <1>1, <1>4, ExprFacts DEF LlvmType
  <2>2. ValueBy(f, e, printf) = Value(LlvmType(e.type), TRUE, FALSE, FALSE)
    BY <1>4, Zenon DEF ValueBy
  <2> QED
    BY <1>1, <2>1, <2>2, ValueType, Zenon
<1>5. CASE e.op = "ref"
  <2>1. /\ GenerateType(namedValues[e.name].spec) \in LlvmTypes
        /\ "null" \in LlvmTypes
    BY <1>1, <1>2, <1>5, ExprFacts
  <2>2. (namedValues[e.name].kind = "var") \in BOOLEAN
    BY Zenon
  <2>3. ValueBy(f, e, printf) =
          IF namedValues[e.name] = NoDecl THEN Value("null", FALSE, FALSE, FALSE)
          ELSE Value(GenerateType(namedValues[e.name].spec), FALSE,
                     namedValues[e.name].kind = "var", FALSE)
    BY <1>5, "literal" # "ref" DEF ValueBy
  <2> QED
    BY <1>1, <2>1, <2>2, <2>3, ValueType, Zenon
<1>6. CASE e.op = "print"
  <2>1. \E b \in BOOLEAN : ValueBy(f, e, printf) = Value("null", FALSE, TRUE, b)
    <3> DEFINE arg == [i \in DOMAIN e.args |-> f[e.args[i]][Declares(asks, Sooner(e.args, i), printf)]]
               types == [i \in DOMAIN e.args |-> arg[i].type]
               b == \/ UsersPrintf \/ \E i \in DOMAIN e.args : arg[i].bad
                    \/ \E i \in DOMAIN e.args : types[i] = "void"
    <3>1. ValueBy(f, e, printf) = Value("null", FALSE, TRUE, b)
      BY <1>6 DEF ValueBy
    <3>2. b \in BOOLEAN
      BY Zenon
    <3> HIDE DEF b
    <3> QED
      BY <3>1, <3>2
  <2>2. "null" \in LlvmTypes
    BY <1>1
  <2> QED
    BY <1>1, <2>1, <2>2, ValueType, Zenon
<1>7. CASE e.op = "call"
  <2> DEFINE g == Callee(e.name, printf)
             arg == [i \in DOMAIN e.args |-> f[e.args[i]][Declares(asks, Sooner(e.args, i), printf)]]
             types == [i \in DOMAIN e.args |-> arg[i].type]
             b == (\E i \in DOMAIN e.args : arg[i].bad) \/ types # Formals(g)
  <2>1. ValueBy(f, e, printf) = IF Reaches(e, printf) THEN Value(Result(g), FALSE, TRUE, b)
                                ELSE Value("null", FALSE, FALSE, FALSE)
    BY <1>7 DEF ValueBy
  <2>2. b \in BOOLEAN /\ "null" \in LlvmTypes
    BY <1>1
  <2>3. Reaches(e, printf) => Result(g) \in LlvmTypes
    BY <1>7, ExprFacts, CalleeFacts DEF Reaches
  <2> HIDE DEF b, g
  <2> QED
    BY <1>1, <2>1, <2>2, <2>3, ValueType, Zenon
<1>8. CASE e.op = "binary"
  <2>1. /\ f[e.left][printf] \in Values /\ f[e.right][Declares(asks, {e.left}, printf)] \in Values
        /\ e.by \in Arithmetic \cup Comparison \cup Logical
    BY <1>3, <1>8, ExprFacts
  <2>2. ValueBy(f, e, printf) =
          BinaryValue(e.by, f[e.left][printf], f[e.right][Declares(asks, {e.left}, printf)])
    BY <1>8 DEF ValueBy
  <2> QED
    BY <2>1, <2>2, BinaryValueType
<1>9. CASE e.op = "assign"
  <2> DEFINE rhs == f[e.value][printf]
             named == namedValues[e.name]
             emits == rhs.emits \/ rhs.type = GenerateType(named.spec)
  <2>1. rhs \in Values
    BY <1>3, <1>9, ExprFacts
  <2>2. emits \in BOOLEAN /\ "null" \in LlvmTypes
    BY <1>1
  <2>3. ValueBy(f, e, printf) =
          IF named = NoDecl THEN Value("null", FALSE, FALSE, FALSE)
          ELSE IF rhs.type = "null" THEN Value("null", FALSE, rhs.emits, rhs.bad)
          ELSE IF named.kind = "var" THEN [rhs EXCEPT !.emits = emits]
          ELSE Value(rhs.type, rhs.const, TRUE, TRUE)
    BY <1>9 DEF ValueBy
  <2>4. /\ Value("null", FALSE, FALSE, FALSE) \in Values
        /\ Value("null", FALSE, rhs.emits, rhs.bad) \in Values
        /\ Value(rhs.type, rhs.const, TRUE, TRUE) \in Values
    <3>1. rhs.emits \in BOOLEAN /\ rhs.bad \in BOOLEAN /\ rhs.type \in LlvmTypes /\ rhs.const \in BOOLEAN
      BY <2>1, Zenon DEF Values
    <3> HIDE DEF rhs
    <3> QED
      BY <1>1, <2>2, <3>1, ValueType, Zenon
  <2> HIDE DEF emits, rhs, named
  <2>5. [rhs EXCEPT !.emits = emits] \in Values
    BY <2>1, <2>2 DEF Values
  <2> QED
    BY <2>3, <2>4, <2>5, Zenon
<1> QED
  BY <1>4, <1>5, <1>6, <1>7, <1>8, <1>9, ExprFacts

LEMMA BuiltIs ==
  ASSUME Tables, functions \in Programs
  PROVE  /\ \A e \in Exprs : \A printf \in BOOLEAN :
              built[e][printf] = ValueBy(built, e, printf) /\ built[e][printf] \in Values
         /\ \A e \in Exprs : value[e] = built[e][FALSE]
<1> DEFINE V == [BOOLEAN -> Values]
           row(f, e) == [printf \in BOOLEAN |-> ValueBy(f, e, printf)]
           step == [f \in [Exprs -> V] |-> [e \in Exprs |-> row(f, e)]]
<1>1. ASSUME NEW f \in [Exprs -> V], NEW g \in [Exprs -> V], NEW e \in Exprs,
             \A s \in Parts(e) : f[s] = g[s], NEW printf \in BOOLEAN
      PROVE  ValueBy(f, e, printf) = ValueBy(g, e, printf)
  <2>1. CASE e.op \in {"literal", "ref"}
    BY <2>1 DEF ValueBy
  <2>2. CASE e.op \in {"print", "call"}
    <3> DEFINE arg(h) == [i \in DOMAIN e.args |->
                            h[e.args[i]][Declares(asks, Sooner(e.args, i), printf)]]
               types(h) == [i \in DOMAIN e.args |-> arg(h)[i].type]
               badArg(h) == \E i \in DOMAIN e.args : arg(h)[i].bad
    <3>1. \A i \in DOMAIN e.args : f[e.args[i]] = g[e.args[i]]
      BY <1>1, <2>2, ExprFacts
    <3>2. arg(f) = arg(g)
      BY <3>1
    <3>3. CASE e.op = "print"
      <4>1. \A h : ValueBy(h, e, printf) =
              Value("null", FALSE, TRUE, UsersPrintf \/ badArg(h) \/
                                           \E i \in DOMAIN e.args : types(h)[i] = "void")
        BY <3>3 DEF ValueBy
      <4> HIDE DEF arg
      <4> QED
        BY <3>2, <4>1
    <3>4. CASE e.op = "call"
      <4>1. \A h : ValueBy(h, e, printf) =
              IF Reaches(e, printf)
                THEN Value(Result(Callee(e.name, printf)), FALSE, TRUE,
                           badArg(h) \/ types(h) # Formals(Callee(e.name, printf)))
                ELSE Value("null", FALSE, FALSE, FALSE)
        BY <3>4 DEF ValueBy
      <4> HIDE DEF arg
      <4> QED
        BY <3>2, <4>1
    <3> QED
      BY <2>2, <3>3, <3>4
  <2>3. CASE e.op = "binary"
    <3>1. f[e.left] = g[e.left] /\ f[e.right] = g[e.right]
      BY <1>1, <2>3, ExprFacts
    <3> QED
      BY <2>3, <3>1 DEF ValueBy
  <2>4. CASE e.op = "assign"
    <3>1. f[e.value] = g[e.value]
      BY <1>1, <2>4, ExprFacts
    <3> QED
      BY <2>4, <3>1 DEF ValueBy
  <2> QED
    BY <2>1, <2>2, <2>3, <2>4, ExprFacts
<1>2. \E f \in [Exprs -> V] : f = step[f]
  <2>0. ASSUME NEW f \in [Exprs -> V], NEW e \in Exprs
        PROVE  row(f, e) \in V
    BY ValueByType, ExprFacts
  <2>1. step \in [[Exprs -> V] -> [Exprs -> V]]
    <3> HIDE DEF V, row
    <3> QED
      BY <2>0
  <2>2. ASSUME NEW f \in [Exprs -> V], NEW g \in [Exprs -> V], NEW e \in Exprs,
               \A s \in Parts(e) : f[s] = g[s]
        PROVE  step[f][e] = step[g][e]
    <3>1. row(f, e) = row(g, e)
      BY <1>1, <2>2
    <3> HIDE DEF V, row
    <3> QED
      BY <3>1
  <2>3. [p \in BOOLEAN |-> Value("null", FALSE, FALSE, FALSE)] \in V
    <3>1. Value("null", FALSE, FALSE, FALSE) \in Values
      BY ValueType DEF LlvmTypes
    <3> QED
      BY <3>1
  <2> HIDE DEF step, V
  <2> QED
    BY <2>1, <2>2, <2>3, ExprRecursion
<1>3. \E f : f = [e \in Exprs |-> [printf \in BOOLEAN |-> ValueBy(f, e, printf)]]
  <2> HIDE DEF V
  <2> QED
    BY <1>2
<1>4. built = [e \in Exprs |-> [printf \in BOOLEAN |-> ValueBy(built, e, printf)]]
  BY <1>3, Zenon DEF built
<1>5. \A e \in Exprs : built[e] = [printf \in BOOLEAN |-> ValueBy(built, e, printf)]
  BY <1>4, Zenon
<1>6. Exprs \subseteq {e \in Exprs : built[e] \in V}
  <2>1. ASSUME NEW e \in Exprs, \A s \in Parts(e) : built[s] \in V
        PROVE  built[e] \in V
    <3>1. \A printf \in BOOLEAN : ValueBy(built, e, printf) \in Values
      BY <2>1, ValueByType
    <3>2. built[e] = [printf \in BOOLEAN |-> ValueBy(built, e, printf)]
      BY <1>5
    <3> HIDE DEF row, step
    <3> QED
      BY <3>1, <3>2
  <2>2. \A e \in Exprs : Parts(e) \subseteq {r \in Exprs : built[r] \in V}
                            => e \in {r \in Exprs : built[r] \in V}
    <3> HIDE DEF V
    <3> QED
      BY <2>1
  <2> HIDE DEF V
  <2> QED
    BY <2>2, ExprInduction
<1>7. \A e \in Exprs : value[e] = built[e][FALSE]
  <2>1. value = [e \in Exprs |-> built[e][FALSE]]
    BY Zenon DEF value
  <2> QED
    BY <2>1
<1>8. ASSUME NEW e \in Exprs, NEW printf \in BOOLEAN
      PROVE  built[e][printf] = ValueBy(built, e, printf) /\ built[e][printf] \in Values
  <2>1. built[e] = [p \in BOOLEAN |-> ValueBy(built, e, p)] /\ built[e] \in [BOOLEAN -> Values]
    BY <1>5, <1>6
  <2> HIDE DEF row, step, V
  <2> QED
    BY <2>1
<1> QED
  BY <1>7, <1>8

-----------------------------------------------------------------------------
(* What the analysis leaves in the tree: declarations, and the type of every *)
(* expression from those of its parts.                                       *)
MeaningOK(d) ==
  /\ d.kind \in {"none", "fn", "param", "var"}
  /\ d.kind = "none" => d = NoDecl
  /\ d.kind = "fn" => d.fn \in 1..Len(functions) /\ d = Function(d.fn)

Annotated(s) ==
  /\ s.op = "var" => s.spec \in {"int", "float"}
  /\ \A x \in Names : MeaningOK(s.res[x])
  /\ s.expr # NoExpr =>
       s.expr \in Exprs /\ \E t : Typing(s.res, t) /\ s.type = t[s.expr]

Annotations == \A q \in 1..Len(code) : Annotated(code[q])

LEMMA AnnotationsInit == ASSUME Init PROVE Annotations
<1>1. Len(code) = 0
  BY EmptySeq DEF Init, SemaInit
<1> QED
  BY <1>1 DEF Annotations

LEMMA AnnotationsStep ==
  ASSUME SemaType, ScopesMean, Annotations, [Next]_vars
  PROVE  Annotations'
<1> DEFINE c == Len(code)
<1>1. c \in Nat /\ IsSeq(code) /\ functions \in Programs /\ c = Len(code)
  BY SeqFacts DEF SemaType
<1> HIDE DEF c
\* what was annotated stays so
<1>2. ASSUME functions' = functions, NEW s, Annotated(s)
      PROVE  Annotated(s)'
  <2>1. \A means, t : \A e \in Exprs : TypeBy(means, t, e)' = TypeBy(means, t, e)
    BY <1>2 DEF TypeBy
  <2>2. \A means, t : Typing(means, t) => Typing(means, t)'
    BY <2>1 DEF Typing
  <2>3. \A d : MeaningOK(d) => MeaningOK(d)'
    BY <1>2 DEF MeaningOK, Function, Declaration
  <2> QED
    BY <1>2, <2>2, <2>3 DEF Annotated
<1>3. ASSUME functions' = functions, NEW s, code' = Append(code, s), Annotated(s)
      PROVE  Annotations'
  <2>1. /\ Len(code') = c + 1 /\ code'[c + 1] = s
        /\ \A q \in 1..c : code'[q] = code[q]
    BY <1>1, <1>3, Appended
  <2>2. ASSUME NEW q \in 1..c + 1
        PROVE  Annotated(code'[q])
    <3>1. q \in 1..c \/ q = c + 1
      BY <1>1
    <3> QED
      BY <1>1, <1>3, <2>1, <3>1 DEF Annotations
  <2>3. ASSUME NEW q \in 1..c + 1
        PROVE  Annotated(code[q])'
    <3>1. \A r : r = code'[q] => Annotated(r)'
      BY <1>2, <1>3, <2>2
    <3> QED
      BY <3>1 DEF Annotated
  <2> QED
    BY <2>1, <2>3 DEF Annotations
<1>4. CASE UNCHANGED <<functions, code>>
  <2>1. ASSUME NEW q \in 1..Len(code)
        PROVE  Annotated(code[q])'
    BY <1>2, <1>4 DEF Annotations, Annotated
  <2> QED
    BY <1>4, <2>1 DEF Annotations
\* the declarations that names mean in a body
<1>5. ASSUME InBody, NEW x \in Names
      PROVE  MeaningOK(Means[x])
  <2>1. Lookup(x) = Meaning(x)
    BY <1>5, LookupMeans
  <2>2. Named(x) # {} => Min(Named(x)) \in 1..Len(functions)
    <3>1. Named(x) \in SUBSET Nat /\ \A f \in Named(x) : f \in 1..Len(functions)
      BY <1>1, FunctionFacts DEF Named
    <3> QED
      BY <3>1, MinFacts
  <2>3. /\ MeaningOK(NoDecl) /\ \A p : MeaningOK(Var(p)) /\ \A f, i : MeaningOK(Param(f, i))
        /\ \A f \in 1..Len(functions) : MeaningOK(Function(f))
    BY DEF MeaningOK, Var, Param, Function, NoDecl, Declaration
  <2>4. MeaningOK(Meaning(x))
    <3>1. CASE OpenVars(x) # {}
      BY <2>3, <3>1 DEF Meaning
    <3>2. CASE OpenVars(x) = {} /\ ParamsOf(fn, x) # {}
      BY <2>3, <3>2 DEF Meaning
    <3>3. CASE OpenVars(x) \cup ParamsOf(fn, x) = {} /\ Named(x) # {}
      BY <2>2, <2>3, <3>3 DEF Meaning
    <3>4. CASE OpenVars(x) \cup ParamsOf(fn, x) \cup Named(x) = {}
      <4>1. Meaning(x) = NoDecl
        BY <3>4, Zenon DEF Meaning
      <4> QED
        BY <2>3, <4>1
    <3> QED
      BY <3>1, <3>2, <3>3, <3>4
  <2> QED
    BY <2>1, <2>4 DEF Means
<1>6. ASSUME InBody, NEW op, NEW name, NEW spec, NEW e, e = NoExpr \/ e \in Exprs,
             op = "var" => spec \in {"int", "float"}
      PROVE  /\ Annotated(Statement(op, name, spec, e))
             /\ Annotated([Statement(op, name, spec, e) EXCEPT !.depth = @ - 1])
  <2> DEFINE s == Statement(op, name, spec, e)
  <2>1. /\ s.op = op /\ s.spec = spec /\ s.expr = e /\ s.res = Means
        /\ e # NoExpr => s.type = resolvedType[e]
    BY DEF Statement
  <2>2. LET z == [s EXCEPT !.depth = @ - 1]
        IN  z.op = s.op /\ z.spec = s.spec /\ z.expr = s.expr /\ z.res = s.res /\ z.type = s.type
    BY DEF Statement
  <2>3. Typing(Means, resolvedType)
    BY ResolvedTypeIs
  <2> HIDE DEF s
  <2>4. Annotated(s)
    BY <1>5, <1>6, <2>1, <2>3 DEF Annotated
  <2>5. Annotated([s EXCEPT !.depth = @ - 1])
    BY <2>2, <2>4 DEF Annotated
  <2> QED
    BY <2>4, <2>5 DEF s
<1>7. ASSUME NEW op, NEW name, NEW spec, NEW e, NEW ok, Resolve(op, name, spec, e, ok),
             e = NoExpr \/ e \in Exprs, op = "var" => spec \in {"int", "float"}
      PROVE  Annotations'
  <2>1. /\ InBody /\ functions' = functions
        /\ code' = Append(code, Statement(op, name, spec, e))
    BY <1>7 DEF Resolve
  <2>2. Annotated(Statement(op, name, spec, e))
    BY <1>6, <1>7, <2>1
  <2> QED
    BY <1>3, <2>1, <2>2
<1>8. CASE ResolveExprStmt
  BY <1>7, <1>8 DEF ResolveExprStmt
<1>9. CASE ResolveVariableDecl
  BY <1>7, <1>9, NamesAssumption DEF ResolveVariableDecl
<1>10. CASE ResolveReturnStmt
  BY <1>7, <1>10 DEF ResolveReturnStmt
<1>11. CASE ResolveCondition
  BY <1>7, <1>11 DEF ResolveCondition
<1>12. CASE ResolveElse \/ ResolveEnd
  <2>1. PICK op \in {"else", "end"} :
          code' = Append(code, [Statement(op, "", "", NoExpr) EXCEPT !.depth = @ - 1])
    BY <1>12 DEF ResolveElse, ResolveEnd
  <2>2. InBody /\ functions' = functions
    BY <1>12 DEF ResolveElse, ResolveEnd
  <2>3. Annotated([Statement(op, "", "", NoExpr) EXCEPT !.depth = @ - 1])
    BY <1>6, <2>1, <2>2
  <2> QED
    BY <1>3, <2>1, <2>2, <2>3
<1>13. CASE ResolveSignature \/ SignaturesResolved \/ EnterBody \/ LeaveBody \/ Accept
  BY <1>4, <1>13 DEF ResolveSignature, SignaturesResolved, EnterBody, LeaveBody, Accept
<1>14. CASE UNCHANGED vars
  BY <1>4, <1>14 DEF vars, semaVars
<1>15. CASE CodegenNext /\ UNCHANGED <<scopes, fn, nest>>
  BY <1>4, <1>15 DEF CodegenNext, AssertFunctionType, StartFunction, VisitExprStmt, VisitVariableDecl,
       VisitReturnStmt, VisitIfStmt, VisitElse, VisitWhileStmt, VisitEnd, FinishFunction,
       Generate, Visiting
<1> QED
  BY <1>8, <1>9, <1>10, <1>11, <1>12, <1>13, <1>14, <1>15 DEF Next, SemaNext

-----------------------------------------------------------------------------
LEMMA WithinIs ==
  ASSUME NEW e \in Exprs
  PROVE  Within[e] = {e} \cup UNION {Within[s] : s \in Parts(e)}
<1> DEFINE V == SUBSET Exprs
           step == [f \in [Exprs -> V] |-> [r \in Exprs |-> {r} \cup UNION {f[s] : s \in Parts(r)}]]
<1>1. \A r \in Exprs : Parts(r) \subseteq Exprs
  BY ExprFacts
<1>2. \E f \in [Exprs -> V] : f = step[f]
  <2>1. step \in [[Exprs -> V] -> [Exprs -> V]]
    BY <1>1
  <2>2. ASSUME NEW f \in [Exprs -> V], NEW g \in [Exprs -> V], NEW r \in Exprs,
               \A s \in Parts(r) : f[s] = g[s]
        PROVE  step[f][r] = step[g][r]
    <3>1. {f[s] : s \in Parts(r)} = {g[s] : s \in Parts(r)}
      BY <2>2
    <3> QED
      BY <3>1
  <2>3. {} \in V
    OBVIOUS
  <2> HIDE DEF step, V
  <2> QED
    BY <2>1, <2>2, <2>3, ExprRecursion
<1>3. \E f : f = [r \in Exprs |-> {r} \cup UNION {f[s] : s \in Parts(r)}]
  BY <1>2
<1>4. Within = [r \in Exprs |-> {r} \cup UNION {Within[s] : s \in Parts(r)}]
  BY <1>3, Zenon DEF Within
<1> QED
  BY <1>4, Zenon

(* What a visit asks for, a print or a string within the expression took. *)
LEMMA AsksTake ==
  \A e \in Exprs : \A printf \in BOOLEAN : \A x \in asks[e][printf] :
    \E s \in Within[e] : Takes(s, x)
<1> DEFINE Good == {e \in Exprs : \A printf \in BOOLEAN : \A x \in asks[e][printf] :
                                    \E s \in Within[e] : Takes(s, x)}
<1>1. ASSUME NEW e \in Exprs, Parts(e) \subseteq Good
      PROVE  e \in Good
  <2>1. SUFFICES ASSUME NEW printf \in BOOLEAN, NEW x \in AsksBy(asks, e, printf)
                 PROVE  \E s \in Within[e] : Takes(s, x)
    BY AsksIs
  <2>2. e \in Within[e] /\ \A p \in Parts(e) : Within[p] \subseteq Within[e]
    BY WithinIs
  <2>3. ASSUME NEW p \in Parts(e), NEW known \in BOOLEAN, x \in asks[p][known]
        PROVE  \E s \in Within[e] : Takes(s, x)
    BY <1>1, <2>2, <2>3
  <2>4. \A S : Declares(asks, S, printf) \in BOOLEAN
    BY DeclaresFacts
  <2> DEFINE args == UNION {asks[e.args[i]][Declares(asks, Sooner(e.args, i), printf)] :
                              i \in DOMAIN e.args}
  <2>5. ASSUME e.op \in {"print", "call"}, x \in args
        PROVE  \E s \in Within[e] : Takes(s, x)
    <3>1. PICK i \in DOMAIN e.args :
            x \in asks[e.args[i]][Declares(asks, Sooner(e.args, i), printf)]
      BY <2>5
    <3> QED
      BY <2>3, <2>4, <2>5, <3>1, ExprFacts
  <2>6. CASE e.op \in {"literal", "ref"}
    BY <2>1, <2>2, <2>6 DEF AsksBy, Takes
  <2>7. CASE e.op = "print"
    <3>1. x \in args \/ x \in {"fmt", "printf"}
      BY <2>1, <2>7 DEF AsksBy
    <3> HIDE DEF args
    <3> QED
      BY <2>2, <2>5, <2>7, <3>1 DEF Takes
  <2>8. CASE e.op = "call"
    <3>1. x \in args
      BY <2>1, <2>8 DEF AsksBy
    <3> QED
      BY <2>5, <2>8, <3>1
  <2>9. CASE e.op = "binary"
    <3>1. \/ x \in asks[e.left][printf]
          \/ x \in asks[e.right][Declares(asks, {e.left}, printf)]
      BY <2>1, <2>9 DEF AsksBy
    <3> QED
      BY <2>3, <2>4, <2>9, <3>1, ExprFacts
  <2>10. CASE e.op = "assign"
    <3>1. x \in asks[e.value][printf]
      BY <2>1, <2>10 DEF AsksBy
    <3> QED
      BY <2>3, <2>10, <3>1, ExprFacts
  <2> QED
    BY <2>6, <2>7, <2>8, <2>9, <2>10, ExprFacts
<1>2. Exprs \subseteq Good
  <2> HIDE DEF Good
  <2> QED
    BY <1>1, ExprInduction
<1> QED
  BY <1>2

(* The statement q was visited before the current one. *)
Earlier(q) == code[q].fn < gen \/ (at # 0 /\ code[q].fn = gen /\ q < at)

(* A statement visited ahead of all functions of the name took it. *)
TookBefore ==
  \A x \in Names : module[x] = Taken =>
    \E q \in 1..Len(code) :
      /\ Earlier(q) /\ code[q].expr # NoExpr
      /\ \E s \in Within[code[q].expr] : Takes(s, x)
      /\ \A f \in Named(x) : code[q].fn < f

LEMMA TookBeforeInit == ASSUME Init PROVE TookBefore
BY DEF Init, CodegenInit, TookBefore, Taken

LEMMA TookBeforeStep ==
  ASSUME SemaType, Tree, Generation, Annotations, TookBefore, [Next]_vars
  PROVE  TookBefore'
<1>1. /\ functions \in Programs /\ DOMAIN module = Names /\ gen \in Nat /\ gen >= 1 /\ at \in Nat
      /\ \A q \in 1..Len(code) : code[q].fn \in Nat /\ code[q].fn >= 1
  <2>1. functions \in Programs /\ Len(functions) \in Nat
    BY FunctionFacts DEF SemaType
  <2>2. \A q \in 1..Len(code) : code[q].fn \in 1..fn
    BY DEF SemaType, StatementOK
  <2> QED
    BY <2>1, <2>2 DEF Generation
<1>2. ASSUME UNCHANGED <<functions, code>>, \A q \in 1..Len(code) : Earlier(q) => Earlier(q)',
             NEW x \in Names, module[x] = Taken
      PROVE  \E q \in 1..Len(code)' :
               /\ Earlier(q)' /\ code'[q].expr # NoExpr
               /\ \E s \in Within[code'[q].expr] : Takes(s, x)
               /\ \A f \in Named(x)' : code'[q].fn < f
  <2>1. PICK q \in 1..Len(code) :
          /\ Earlier(q) /\ code[q].expr # NoExpr
          /\ \E s \in Within[code[q].expr] : Takes(s, x)
          /\ \A f \in Named(x) : code[q].fn < f
    BY <1>2 DEF TookBefore
  <2>2. Earlier(q)' /\ q \in 1..Len(code)' /\ Named(x)' = Named(x)
    BY <1>2, <2>1, SameFunctions
  <2> QED
    BY <1>2, <2>1, <2>2
<1>3. CASE SemaNext /\ UNCHANGED codegenVars
  <2>1. phase \notin {"codegen", "aborted", "generated"}
    BY <1>3 DEF SemaNext, ResolveSignature, SignaturesResolved, EnterBody, ResolveExprStmt,
         ResolveVariableDecl, ResolveReturnStmt, ResolveCondition, ResolveElse, ResolveEnd,
         LeaveBody, Accept, Resolve, InBody
  <2>2. at = 0 /\ gen = 1
    BY <2>1 DEF Generation
  <2>3. \A q \in 1..Len(code) : ~Earlier(q)
    BY <1>1, <2>2 DEF Earlier
  <2>4. \A x \in Names : module'[x] # Taken
    BY <1>3, <2>3 DEF TookBefore, codegenVars
  <2> QED
    BY <2>4 DEF TookBefore
<1>4. CASE UNCHANGED <<functions, code, namedValues, module, gen, at>>
  <2>1. \A q \in 1..Len(code) : Earlier(q) => Earlier(q)'
    BY <1>4 DEF Earlier
  <2> QED
    BY <1>2, <1>4, <2>1 DEF TookBefore
<1>5. CASE StartFunction
  <2>1. UNCHANGED <<functions, code, gen>> /\ at = 0
    BY <1>5 DEF StartFunction
  <2>2. \A q \in 1..Len(code) : Earlier(q) => Earlier(q)'
    BY <2>1 DEF Earlier
  <2>3. \A x \in Names : module'[x] = Taken => module[x] = Taken
    BY <1>1, <1>5 DEF StartFunction, Created, Taken
  <2> QED
    BY <1>2, <2>1, <2>2, <2>3 DEF TookBefore
<1>6. CASE FinishFunction
  <2>1. UNCHANGED <<functions, code, module>> /\ gen' = gen + 1
    BY <1>6 DEF FinishFunction
  <2>2. \A q \in 1..Len(code) : Earlier(q) => Earlier(q)'
    BY <1>1, <2>1 DEF Earlier
  <2> QED
    BY <1>2, <2>1, <2>2 DEF TookBefore
<1>7. CASE VisitStep
  <2>1. /\ UNCHANGED <<functions, code, gen>> /\ phase = "codegen"
        /\ at \in 1..Len(code) /\ code[at].fn = gen
        /\ module' = [x \in Names |-> IF module[x] = 0 /\ x \in Asked(code[at].expr)
                                       THEN Taken ELSE module[x]]
    BY <1>7 DEF VisitStep
  <2>2. at' \in Nat /\ at < at'
    <3>1. CASE at' = at + 1
      BY <1>1, <3>1
    <3>2. CASE Conditional(at) /\ at' = Match(at) + 1
      <4>1. Match(at) \in at + 1..Len(code) /\ Len(code) \in Nat
        BY <2>1, <3>2, MatchFacts, SeqFacts DEF SemaType
      <4> QED
        BY <1>1, <3>2, <4>1
    <3> QED
      BY <1>7, <3>1, <3>2 DEF VisitStep
  <2>3. \A q \in 1..Len(code) : Earlier(q) => Earlier(q)'
    BY <1>1, <2>1, <2>2 DEF Earlier
  <2>4. ASSUME NEW x \in Names, module[x] # Taken, module'[x] = Taken
        PROVE  \E q \in 1..Len(code)' :
                 /\ Earlier(q)' /\ code'[q].expr # NoExpr
                 /\ \E s \in Within[code'[q].expr] : Takes(s, x)
                 /\ \A f \in Named(x)' : code'[q].fn < f
    <3>1. module[x] = 0 /\ x \in Asked(code[at].expr)
      BY <2>1, <2>4
    <3>2. code[at].expr # NoExpr /\ x \in asks[code[at].expr][FALSE]
      BY <3>1 DEF Asked
    <3>3. code[at].expr \in Exprs
      BY <2>1, <3>2 DEF Annotations, Annotated
    <3>4. \E s \in Within[code[at].expr] : Takes(s, x)
      BY <3>2, <3>3, AsksTake
    <3>5. ASSUME NEW f \in Named(x)
          PROVE  gen < f
      <4> DEFINE before == {g \in Named(x) : g < gen + 1}
      <4>1. Named(x) \in SUBSET Nat /\ \A g \in Named(x) : g >= 1
        BY <1>1, FunctionFacts DEF Named
      <4>2. 0 = IF before = {} THEN 0 ELSE Min(before)
        BY <1>1, <2>1, <2>4, <3>1 DEF Generation, Callable
      <4>3. before \in SUBSET Nat
        BY <4>1
      <4>4. before = {}
        <5> SUFFICES ASSUME before # {} PROVE FALSE
          OBVIOUS
        <5>1. Min(before) \in before
          <6> HIDE DEF before
          <6> QED
            BY <4>3, MinFacts
        <5>2. Min(before) >= 1
          BY <4>1, <5>1
        <5> HIDE DEF before
        <5> QED
          BY <4>2, <5>2
      <4> QED
        BY <1>1, <4>1, <4>4
    <3>6. PICK q \in 1..Len(code) : q = at
      BY <2>1
    <3>7. Named(x)' = Named(x)
      BY <2>1, SameFunctions
    <3>8. Earlier(q)'
      BY <1>1, <2>1, <2>2, <3>6 DEF Earlier
    <3>9. /\ q \in 1..Len(code)' /\ code'[q] = code[at]
          /\ \A f \in Named(x)' : code[at].fn < f
      BY <2>1, <3>5, <3>6, <3>7
    <3> QED
      BY <3>2, <3>4, <3>8, <3>9
  <2> QED
    BY <1>2, <2>1, <2>3, <2>4 DEF TookBefore
<1> QED
  BY <1>3, <1>4, <1>5, <1>6, <1>7, Visits

(* What a name means, and what code generation takes it for *)
LEMMA NameFacts ==
  ASSUME FrontendInv, Annotations, AtExpr, NEW x \in Names, Cardinality(ParamsOf(gen, x)) <= 1,
         NEW d, d = code[at].res[x]
  PROVE  /\ MeaningOK(d)
         /\ d.kind \in {"param", "var"} => namedValues[x] = d
         /\ d.kind = "var" => d.spec \in {"int", "float"}
         /\ d.kind = "fn" /\ module[x] \notin {0, Taken} => module[x] = d.fn
<1>1. at \in 1..Len(code) /\ gen \in 1..Len(functions) /\ functions \in Programs
  BY AtFacts
<1>2. Annotated(code[at]) /\ \A p \in 1..Len(code) : Annotated(code[p])
  BY <1>1 DEF Annotations
<1>3. MeaningOK(d)
  BY <1>2 DEF Annotated
<1>4. ASSUME d.kind = "var"
      PROVE  namedValues[x] = d /\ d.spec \in {"int", "float"}
  <2>1. namedValues[x] = d
    BY <1>4, NamesAgreeInv DEF NamesAgree
  <2>2. ResolvedVar(at, x)
    BY <1>4, AtFacts DEF ResolvedName
  <2>3. PICK p \in 1..at - 1 : d = Var(p) /\ code[p].op = "var"
    BY <2>2 DEF ResolvedVar
  <2>4. p \in 1..Len(code)
    <3>1. Len(code) \in Nat
      BY SeqFacts DEF FrontendInv, SemaType
    <3> QED
      BY <1>1, <3>1
  <2> QED
    BY <1>2, <2>1, <2>3, <2>4 DEF Annotated, Var, Declaration
<1>5. ASSUME d.kind = "param"
      PROVE  namedValues[x] = d
  <2> DEFINE P == ParamsOf(gen, x)
             n == Len(functions[gen].params)
  <2>1. d = Param(gen, Min(P)) /\ namedValues[x] = Param(gen, Max(P))
    BY <1>5, NamesAgreeInv DEF NamesAgree
  <2>2. P # {}
    BY <1>1, <1>5, AtFacts DEF ResolvedName
  <2>3. n \in Nat /\ P \subseteq 1..n
    BY <1>1, FunctionFacts DEF ParamsOf
  <2>4. IsFiniteSet(P) /\ Cardinality(P) \in Nat
    <3>1. IsFiniteSet(1..n)
      BY <2>3, FS_Interval
    <3> QED
      BY <2>3, <3>1, FS_Subset, FS_CardinalityType
  <2>5. PICK i : P = {i}
    <3>1. Cardinality(P) # 0
      BY <2>2, <2>4, FS_EmptySet
    <3>2. Cardinality(P) = 1
      BY <2>4, <3>1
    <3> QED
      BY <2>4, <3>2, FS_Singleton
  <2>6. i \in Nat /\ P \in SUBSET Nat /\ i \in P
    BY <2>3, <2>5
  <2>7. Min(P) = i /\ Max(P) = i
    BY <2>5, <2>6, MinIs, MaxIs
  <2> QED
    BY <2>1, <2>7
<1>6. d.kind = "fn" /\ module[x] \notin {0, Taken} => module[x] = d.fn
  BY CalleeIs
<1> QED
  BY <1>3, <1>4, <1>5, <1>6

-----------------------------------------------------------------------------
(* The types of the analysis and those of LLVM *)
LEMMA TypeFacts ==
  ASSUME NEW spec \in Specs
  PROVE  /\ ResolveType(spec) # "error" => LlvmType(ResolveType(spec)) = GenerateType(spec)
         /\ ResolveType(spec) = "error" <=> spec = "other"
         /\ spec \in {"int", "float"} => ResolveType(spec) \in {"INT", "FLOAT"}
BY DEF Specs, ResolveType, LlvmType, GenerateType

(* What an expression must have a value for, and the value *)
Supported(s) ==
  ~ (\/ LogicalOp(s) \/ LessOnFloat(s) \/ EarlyCall(s) \/ LostCall(s) \/ LosesPrintf(s)
     \/ Assigns(s, "param") \/ FunctionAsValue(s) \/ VoidArgument(s) \/ VoidParameter(s))

ValueOK(t, s) ==
  t[s] # "error" => \A printf \in BOOLEAN :
    /\ ~built[s][printf].bad
    /\ built[s][printf].type = IF s.op = "print" THEN "null" ELSE LlvmType(t[s])

LEMMA ValueStep ==
  ASSUME FrontendInv, Tables, Typed, Annotations, AtExpr,
         \A x \in Names : Cardinality(ParamsOf(gen, x)) <= 1,
         NEW t, Typing(code[at].res, t), NEW s \in Exprs, Supported(s),
         \A p \in Parts(s) : ValueOK(t, p)
  PROVE  ValueOK(t, s)
<1> DEFINE means == code[at].res
           d == means[s.name]
<1>1. SUFFICES ASSUME t[s] # "error", NEW printf \in BOOLEAN
               PROVE  /\ ~built[s][printf].bad
                      /\ built[s][printf].type = IF s.op = "print" THEN "null" ELSE LlvmType(t[s])
  BY DEF ValueOK
<1> DEFINE v == built[s][printf]
           flag(i) == Declares(asks, Sooner(s.args, i), printf)
           arg == [i \in DOMAIN s.args |-> built[s.args[i]][flag(i)]]
<1>2. t[s] = TypeBy(means, t, s) /\ \A p \in Parts(s) : t[p] = TypeBy(means, t, p)
  BY ExprFacts DEF Typing
<1>3. /\ functions \in Programs
      /\ phase = "codegen"
      /\ \A f \in 1..Len(functions) : HasTypes(f)
  BY DEF FrontendInv, SemaType, AtExpr, Typed
<1>4. /\ v = ValueBy(built, s, printf) /\ v \in Values
      /\ \A p \in Parts(s) : value[p] = built[p][FALSE]
      /\ \A p \in Parts(s) : \A b \in BOOLEAN : built[p][b] \in Values
      /\ \A S : Declares(asks, S, printf) \in BOOLEAN
  BY <1>3, BuiltIs, DeclaresFacts, ExprFacts
\* print has no other type than void
<1>5. ASSUME NEW p \in Parts(s), t[p] \in {"INT", "FLOAT"}
      PROVE  /\ LlvmType(t[p]) \in {"i32", "double"}
             /\ \A b \in BOOLEAN : ~built[p][b].bad /\ built[p][b].type = LlvmType(t[p])
  <2>1. p.op # "print"
    BY <1>2, <1>5 DEF TypeBy
  <2> QED
    BY <1>5, <2>1 DEF ValueOK, LlvmType
<1>6. ASSUME s.op \in {"ref", "call", "assign"}
      PROVE  /\ MeaningOK(d)
             /\ d.kind \in {"param", "var"} => namedValues[s.name] = d /\ d \in Decls
             /\ d.kind = "var" => d.spec \in {"int", "float"}
             /\ d.kind = "fn" /\ module[s.name] \notin {0, Taken} => module[s.name] = d.fn
  <2>1. s.name \in Names
    BY <1>6, ExprFacts
  <2>2. namedValues[s.name] \in Decls
    BY <2>1 DEF Tables
  <2> QED
    BY <2>1, <2>2, NameFacts
<1>7. ASSUME s.op \in {"ref", "call", "assign"}, d.kind \in {"param", "var"}
      PROVE  d # NoDecl /\ d.spec \in Specs /\ namedValues[s.name] = d
  <2>1. NoDecl.kind = "none"
    BY DEF NoDecl, Declaration
  <2>2. \A z \in Decls : z.spec \in Specs
    BY DEF Decls
  <2> HIDE DEF d
  <2> QED
    BY <1>6, <1>7, <2>1, <2>2
\* an argument has the value that it would have by itself
<1>14. ASSUME s.op \in {"print", "call"}, NEW i \in DOMAIN s.args, t[s.args[i]] # "error"
       PROVE  /\ ~arg[i].bad /\ arg[i].type \notin {"void", "null"}
              /\ arg[i].type = LlvmType(t[s.args[i]])
  <2>1. /\ s.args[i] \in Parts(s) /\ flag(i) \in BOOLEAN /\ FALSE \in BOOLEAN
        /\ arg[i] = built[s.args[i]][flag(i)]
    BY <1>4, <1>14, ExprFacts
  <2>2. built[s.args[i]][FALSE].type \notin {"void", "null"}
    BY <1>4, <1>14, <2>1 DEF Supported, VoidArgument
  <2> HIDE DEF flag, arg
  <2> QED
    BY <1>14, <2>1, <2>2 DEF ValueOK
<1> HIDE DEF d, v
<1>8. CASE s.op = "literal"
  <2>1. t[s] = s.type
    BY <1>2, <1>8 DEF TypeBy
  <2>2. v = Value(LlvmType(s.type), TRUE, FALSE, FALSE)
    BY <1>4, <1>8, Zenon DEF ValueBy
  <2> QED
    BY <1>8, <2>1, <2>2 DEF Value, v
<1>9. CASE s.op = "ref"
  <2>1. t[s] = ResolveType(d.spec)
    BY <1>2, <1>9 DEF TypeBy, d
  <2>2. d.kind \in {"param", "var"}
    <3>1. d.kind # "fn"
      BY <1>9 DEF Supported, FunctionAsValue, d
    <3>2. d.kind # "none"
      <4>1. NoDecl.spec = "other" /\ ResolveType("other") = "error"
        BY TypeFacts DEF NoDecl, Declaration, Specs
      <4> QED
        BY <1>1, <1>6, <1>9, <2>1, <4>1 DEF MeaningOK
    <3> QED
      BY <1>6, <1>9, <3>1, <3>2 DEF MeaningOK
  <2>3. v = Value(GenerateType(d.spec), FALSE, d.kind = "var", FALSE)
    <3>1. namedValues[s.name] = d /\ d # NoDecl
      BY <1>7, <1>9, <2>2
    <3> QED
      BY <1>4, <1>9, <3>1 DEF ValueBy
  <2>4. LlvmType(t[s]) = GenerateType(d.spec)
    BY <1>1, <1>7, <1>9, <2>1, <2>2, TypeFacts
  <2> QED
    BY <1>9, <2>3, <2>4 DEF Value, v
<1>10. CASE s.op = "print"
  <2> DEFINE types == [i \in DOMAIN s.args |-> arg[i].type]
             b == \/ UsersPrintf \/ \E i \in DOMAIN s.args : arg[i].bad
                  \/ \E i \in DOMAIN s.args : types[i] = "void"
  <2>1. v = Value("null", FALSE, TRUE, b)
    BY <1>4, <1>10 DEF ValueBy
  <2>2. ~b
    <3>1. \A i \in DOMAIN s.args : t[s.args[i]] # "error"
      BY <1>1, <1>2, <1>10 DEF TypeBy
    <3>2. \A i \in DOMAIN s.args : ~arg[i].bad /\ arg[i].type # "void"
      BY <1>10, <1>14, <3>1
    <3>3. ~UsersPrintf
      BY <1>10 DEF Supported, LosesPrintf
    <3> HIDE DEF arg
    <3> QED
      BY <3>2, <3>3
  <2> HIDE DEF b
  <2> QED
    BY <1>10, <2>1, <2>2 DEF Value, v
<1>11. CASE s.op = "call"
  <2> DEFINE g == Callee(s.name, printf)
             types == [i \in DOMAIN s.args |-> arg[i].type]
             b == (\E i \in DOMAIN s.args : arg[i].bad) \/ types # Formals(g)
             params == functions[d.fn].params
  <2>1. /\ d.kind = "fn" /\ t[s] = ResolveType(d.spec)
        /\ [i \in DOMAIN s.args |-> t[s.args[i]]] = [i \in DOMAIN params |-> ResolveType(params[i].spec)]
    BY <1>1, <1>2, <1>11 DEF TypeBy, d
  <2>2. module[s.name] \notin {0, Taken}
    BY <1>11 DEF Supported, EarlyCall, LostCall
  <2>3. /\ d.fn \in 1..Len(functions) /\ d.spec = functions[d.fn].spec
        /\ g = d.fn /\ g # 0 /\ g # Taken
    <3>1. g = module[s.name] /\ g # 0
      BY <1>3, <1>11, <2>2, ExprFacts, CalleeFacts
    <3> QED
      BY <1>6, <1>11, <2>1, <2>2, <3>1 DEF MeaningOK, Function, Declaration
  <2>4. /\ DOMAIN params = 1..Len(params) /\ Len(params) \in Nat
        /\ \A i \in DOMAIN params : params[i].spec \in Specs /\ ResolveType(params[i].spec) # "error"
        /\ functions[d.fn].spec \in Specs
    BY <1>3, <2>3, FunctionFacts DEF HasTypes
  <2>5. /\ DOMAIN s.args = 1..Len(s.args) /\ Len(s.args) \in Nat
        /\ \A i \in DOMAIN s.args : s.args[i] \in Parts(s)
    BY <1>11, ExprFacts
  <2>6. DOMAIN s.args = DOMAIN params /\ \A i \in DOMAIN params : t[s.args[i]] = ResolveType(params[i].spec)
    <3>1. \A f, h : f = h => DOMAIN f = DOMAIN h /\ \A i \in DOMAIN f : f[i] = h[i]
      OBVIOUS
    <3> HIDE DEF params
    <3> QED
      BY <2>1
  <2>7. Len(s.args) = Len(params)
    BY <2>4, <2>5, <2>6
  <2>8. ASSUME NEW i \in DOMAIN params
        PROVE  ~arg[i].bad /\ arg[i].type = GenerateType(params[i].spec)
    <3>1. LlvmType(t[s.args[i]]) = GenerateType(params[i].spec) /\ t[s.args[i]] # "error"
      BY <2>4, <2>6, TypeFacts
    <3> QED
      BY <1>11, <1>14, <2>6, <3>1
  <2>9. ~b
    <3>1. Formals(g) = [i \in DOMAIN params |-> GenerateType(params[i].spec)]
      BY <2>3 DEF Formals, ParamTypes
    <3> HIDE DEF g, arg, params
    <3> QED
      BY <2>6, <2>8, <3>1
  <2>10. v = Value(GenerateType(functions[g].spec), FALSE, TRUE, b)
    <3>1. Reaches(s, printf) /\ Result(g) = GenerateType(functions[g].spec)
      BY <2>3, <2>7 DEF Reaches, Arity, Result
    <3>2. v = IF Reaches(s, printf) THEN Value(Result(g), FALSE, TRUE, b)
              ELSE Value("null", FALSE, FALSE, FALSE)
      BY <1>4, <1>11 DEF ValueBy
    <3> HIDE DEF b
    <3> QED
      BY <3>1, <3>2
  <2>11. LlvmType(t[s]) = GenerateType(functions[g].spec)
    BY <1>1, <2>1, <2>3, <2>4, TypeFacts
  <2> HIDE DEF b, g
  <2> QED
    BY <1>11, <2>9, <2>10, <2>11 DEF Value, v
<1>12. CASE s.op = "binary"
  <2> DEFINE l == s.left
             r == s.right
             vl == built[l][printf]
             vr == built[r][Declares(asks, {l}, printf)]
  <2>1. /\ l \in Parts(s) /\ r \in Parts(s)
        /\ s.by \in Arithmetic \cup Comparison /\ s.by \notin Logical
    BY <1>12, ExprFacts DEF Supported, LogicalOp
  <2>2. t[s] = BinaryType(s.by, t[l], t[r])
    BY <1>2, <1>12 DEF TypeBy
  <2>3. t[l] \in {"INT", "FLOAT"} /\ t[r] \in {"INT", "FLOAT"}
    BY <1>1, <2>1, <2>2, Zenon DEF BinaryType
  <2>4. v = BinaryValue(s.by, vl, vr)
    BY <1>4, <1>12 DEF ValueBy
  <2>5. /\ ~vl.bad /\ ~vr.bad
        /\ vl.type = LlvmType(t[l]) /\ vr.type = LlvmType(t[r])
    BY <1>4, <1>5, <2>1, <2>3
  <2>6. ~(s.by = "<" /\ "double" \in {vl.type, vr.type})
    <3>1. /\ value[l] = built[l][FALSE] /\ value[r] = built[r][FALSE] /\ FALSE \in BOOLEAN
          /\ value[l].type = LlvmType(t[l]) /\ value[r].type = LlvmType(t[r])
      BY <1>4, <1>5, <2>1, <2>3
    <3> QED
      BY <1>12, <2>5, <3>1 DEF Supported, LessOnFloat
  <2>7. ~v.bad
    <3>1. \A type, const, emits, bad : Value(type, const, emits, bad).bad = bad
      BY Zenon DEF Value
    <3>2. ~("null" \in {vl.type, vr.type} \/ s.by \in Logical)
      BY <2>1, <2>3, <2>5 DEF LlvmType
    <3>3. \E type, const, emits :
            \/ v = Value(type, const, emits, vl.bad \/ vr.bad)
            \/ v = Value(type, const, emits, (vl.bad \/ vr.bad) \/
                                 (s.by = "<" /\ "double" \in {vl.type, vr.type}))
      <4> HIDE DEF l, r, vl, vr
      <4>1. CASE s.by \in Arithmetic
        BY <2>4, <3>2, <4>1, Zenon DEF BinaryValue
      <4>2. CASE s.by \notin Arithmetic
        BY <2>4, <3>2, <4>2, Zenon DEF BinaryValue
      <4> QED
        BY <4>1, <4>2
    <3> DEFINE bad  == vl.bad \/ vr.bad
               less == bad \/ (s.by = "<" /\ "double" \in {vl.type, vr.type})
    <3>4. bad = FALSE /\ less = FALSE
      BY <2>5, <2>6, Zenon
    <3>5. \E type, const, emits : \/ v = Value(type, const, emits, bad)
                                  \/ v = Value(type, const, emits, less)
      BY <3>3, Zenon
    <3> HIDE DEF bad, less
    <3>6. PICK type, const, emits : v = Value(type, const, emits, FALSE)
      BY <3>4, <3>5
    <3>7. Value(type, const, emits, FALSE).bad = FALSE
      BY DEF Value
    <3> QED
      BY <3>6, <3>7
  <2>8. v.type = LlvmType(t[s])
    <3>1. \A type, const, emits, bad : Value(type, const, emits, bad).type = type
      BY Zenon DEF Value
    <3>2. ~("null" \in {vl.type, vr.type} \/ s.by \in Logical)
      BY <2>1, <2>3, <2>5 DEF LlvmType
    <3>3. ("double" \in {vl.type, vr.type}) <=> (t[l] = "FLOAT" \/ t[r] = "FLOAT")
      BY <2>3, <2>5 DEF LlvmType
    <3>4. CASE s.by \in Arithmetic
      <4>1. t[s] = IF t[l] = "FLOAT" \/ t[r] = "FLOAT" THEN "FLOAT" ELSE "INT"
        <5> HIDE DEF l, r, vl, vr
        <5>1. s.by \notin Comparison /\ s.by \notin Logical /\ {t[l], t[r]} \subseteq {"INT", "FLOAT"}
          BY <2>3, <3>4 DEF Arithmetic, Comparison, Logical
        <5>2. t[s] = IF "FLOAT" \in {t[l], t[r]} THEN "FLOAT" ELSE "INT"
          BY <2>2, <3>4, <5>1, Zenon DEF BinaryType
        <5> QED
          BY <5>2
      <4> DEFINE type == IF "double" \in {vl.type, vr.type} THEN "double" ELSE "i32"
      <4>2. \E const, emits, bad : v = Value(type, const, emits, bad)
        BY <2>4, <3>2, <3>4, Zenon DEF BinaryValue
      <4> HIDE DEF type, l, r, vl, vr
      <4>3. PICK const, emits, bad : v = Value(type, const, emits, bad)
        BY <4>2, Zenon
      <4>4. v.type = type
        BY <4>3 DEF Value
      <4> QED
        BY <3>3, <4>1, <4>4 DEF type, LlvmType
    <3>5. CASE s.by \notin Arithmetic
      <4>1. t[s] = "INT"
        BY <2>1, <2>2, <2>3, <3>5 DEF BinaryType, Arithmetic, Comparison
      <4>2. \E const, emits, bad : v = Value("i32", const, emits, bad)
        BY <2>4, <3>2, <3>5, Zenon DEF BinaryValue
      <4> HIDE DEF l, r, vl, vr
      <4> QED
        BY <3>1, <4>1, <4>2 DEF LlvmType
    <3> QED
      BY <3>4, <3>5
  <2> QED
    BY <1>12, <2>7, <2>8 DEF v
<1>13. CASE s.op = "assign"
  <2> DEFINE rhs == built[s.value][printf]
             emits == rhs.emits \/ rhs.type = GenerateType(d.spec)
  <2>1. d # NoDecl /\ t[s.value] = ResolveType(d.spec) /\ t[s] = ResolveType(d.spec)
    BY <1>1, <1>2, <1>13 DEF TypeBy, d
  <2>2. d.kind = "var"
    <3>1. d.kind \notin {"fn", "param"}
      BY <1>13 DEF Supported, FunctionAsValue, Assigns, d
    <3> QED
      BY <1>6, <1>13, <2>1, <3>1 DEF MeaningOK
  <2>3. d.spec \in {"int", "float"} /\ namedValues[s.name] = d
    BY <1>6, <1>13, <2>2
  <2>4. t[s.value] \in {"INT", "FLOAT"} /\ t[s] = t[s.value]
    BY <2>1, <2>3 DEF ResolveType
  <2>5. s.value \in Parts(s)
    BY <1>13, ExprFacts
  <2>6. ~rhs.bad /\ rhs.type = LlvmType(t[s]) /\ rhs.type # "null" /\ rhs \in Values
    BY <1>4, <1>5, <2>4, <2>5
  <2>7. v = [rhs EXCEPT !.emits = emits]
    <3>1. v = IF d = NoDecl THEN Value("null", FALSE, FALSE, FALSE)
                     ELSE IF rhs.type = "null" THEN Value("null", FALSE, rhs.emits, rhs.bad)
                     ELSE IF d.kind = "var" THEN [rhs EXCEPT !.emits = emits]
                     ELSE Value(rhs.type, rhs.const, TRUE, TRUE)
      BY <1>4, <1>13, <2>3 DEF ValueBy
    <3> HIDE DEF emits, rhs
    <3> QED
      BY <2>1, <2>2, <2>6, <3>1, Zenon
  <2> HIDE DEF emits, rhs
  <2> QED
    BY <1>13, <2>6, <2>7 DEF Values, v
<1> QED
  BY <1>8, <1>9, <1>10, <1>11, <1>12, <1>13, ExprFacts

-----------------------------------------------------------------------------
AgreementInv == FrontendInv /\ Tables /\ Typed /\ Annotations /\ TookBefore

LEMMA AgreementInvCorrect == Spec => []AgreementInv
<1>1. Init => AgreementInv
  BY FrontendInvInit, TablesInit, TypedInit, AnnotationsInit, TookBeforeInit DEF AgreementInv
<1>2. AgreementInv /\ [Next]_vars => AgreementInv'
  BY FrontendInvStep, TablesStep, TypedStep, AnnotationsStep, TookBeforeStep
     DEF AgreementInv, FrontendInv
<1> QED
  BY <1>1, <1>2, PTL DEF Spec

(* The module's symbol table (codegen.cpp) holds the names of functions and those   *)
(* that print and string literals take; the first to come has a name.  A call       *)
(* reaches the function that the analysis resolved it to, unless that one is        *)
(* generated later, or a print or a string of an earlier statement, ahead of the    *)
(* function, took the name: for all names, "fmt", "str" and "printf" included.      *)
THEOREM CalleesAgreeCorrect == Spec => []CalleesAgree
<1>1. ASSUME AgreementInv, AtExpr, NEW x \in Names, code[at].res[x].kind = "fn"
      PROVE  LET d == code[at].res[x]
             IN  \/ module[x] = d.fn
                 \/ module[x] = 0 /\ d.fn > gen
                 \/ /\ module[x] = Taken
                    /\ \E q \in 1..at - 1 :
                         /\ code[q].fn < d.fn /\ code[q].expr # NoExpr
                         /\ \E s \in Within[code[q].expr] : Takes(s, x)
  <2> DEFINE d == code[at].res[x]
  <2>1. FrontendInv /\ TookBefore
    BY <1>1 DEF AgreementInv
  <2>2. CASE module[x] # Taken
    <3>1. d.fn \in Nat /\ module[x] = IF d.fn > gen THEN 0 ELSE d.fn
      BY <1>1, <2>1, <2>2, CalleeIs
    <3> QED
      BY <3>1
  <2>3. CASE module[x] = Taken
    <3>1. PICK q \in 1..Len(code) :
            /\ Earlier(q) /\ code[q].expr # NoExpr
            /\ \E s \in Within[code[q].expr] : Takes(s, x)
            /\ \A f \in Named(x) : code[q].fn < f
      BY <2>1, <2>3 DEF TookBefore
    <3>2. d.fn \in Named(x)
      <4>1. d.fn = Min(Named(x)) /\ Named(x) # {}
        BY <1>1, <2>1, AtFacts DEF ResolvedName
      <4>2. Named(x) \in SUBSET Nat
        BY <1>1, <2>1, AtFacts, FunctionFacts DEF Named
      <4> QED
        BY <4>1, <4>2, MinFacts
    <3>3. q \in 1..at - 1
      <4>1. /\ at \in 1..Len(code) /\ code[at].fn = gen /\ gen \in Nat /\ Len(code) \in Nat
            /\ code[q].fn \in Nat
        <5>1. code[q].fn \in 1..fn /\ Len(code) \in Nat
          BY <2>1, SeqFacts DEF FrontendInv, SemaType, StatementOK
        <5> QED
          BY <1>1, <2>1, <5>1, AtFacts
      <4>2. Sorted
        BY <1>1, <2>1 DEF AtExpr, FrontendInv, Tree
      <4>3. q < at
        <5> SUFFICES ASSUME ~(q < at) PROVE FALSE
          OBVIOUS
        <5>1. code[q].fn < gen
          BY <3>1 DEF Earlier
        <5>2. at < q
          BY <4>1, <5>1
        <5>3. code[at].fn <= code[q].fn
          BY <4>1, <4>2, <5>2 DEF Sorted
        <5> QED
          BY <4>1, <5>1, <5>3
      <4> QED
        BY <4>1, <4>3
    <3> QED
      BY <2>3, <3>1, <3>2, <3>3
  <2> QED
    BY <2>2, <2>3
<1>2. AgreementInv => CalleesAgree
  BY <1>1 DEF CalleesAgree
<1> QED
  BY <1>2, AgreementInvCorrect, PTL

(* resolveExpr() (sema.h) decides the type of an expression, the visitors of      *)
(* codegen.cpp build its value, and neither looks at the other.  Outside the      *)
(* cases that Unsupported lists (calls of a function without its name in the      *)
(* module and void parameters among them), every expression of every program all  *)
(* the same gets a value of the LLVM type that corresponds to its resolved type,  *)
(* built from well-typed operands, so that no visitor drops the statement that    *)
(* uses it.                                                                       *)
THEOREM ValuesAgreeCorrect == Spec => []ValuesAgree
<1>1. ASSUME AgreementInv, AtExpr, \A x \in Names : Cardinality(ParamsOf(gen, x)) <= 1,
             ~Unsupported(code[at].expr)
      PROVE  LET e == code[at].expr
             IN  /\ ~value[e].bad
                 /\ value[e].type = IF e.op = "print" THEN "null" ELSE LlvmType(code[at].type)
  <2> DEFINE e == code[at].expr
             Good(t) == {s \in Exprs : (\A r \in Within[s] : Supported(r)) => ValueOK(t, s)}
  <2>1. FrontendInv /\ Tables /\ Typed /\ Annotations
    BY <1>1 DEF AgreementInv
  <2>2. at \in 1..Len(code) /\ e # NoExpr
    <3>1. DOMAIN code = 1..Len(code)
      BY <2>1, SeqFacts DEF FrontendInv, SemaType
    <3> QED
      BY <1>1, <3>1 DEF AtExpr
  <2>3. e \in Exprs /\ \E t : Typing(code[at].res, t) /\ code[at].type = t[e]
    BY <2>1, <2>2 DEF Annotations, Annotated
  <2>4. PICK t : Typing(code[at].res, t) /\ code[at].type = t[e]
    BY <2>3
  <2>5. code[at].type # "error"
    BY <1>1, <2>1, <2>2 DEF Typed, AtExpr
  <2>6. ASSUME NEW s \in Exprs, Parts(s) \subseteq Good(t), \A r \in Within[s] : Supported(r)
        PROVE  ValueOK(t, s)
    <3>1. Supported(s) /\ \A p \in Parts(s) : \A r \in Within[p] : Supported(r)
      BY <2>6, WithinIs
    <3>2. \A p \in Parts(s) : ValueOK(t, p)
      BY <2>6, <3>1
    <3> QED
      BY <1>1, <2>1, <2>4, <3>1, <3>2, ValueStep
  <2>7. Exprs \subseteq Good(t)
    <3>1. \A s \in Exprs : Parts(s) \subseteq Good(t) => s \in Good(t)
      BY <2>6
    <3> HIDE DEF Good
    <3> QED
      BY <3>1, ExprInduction
  <2>8. \A r \in Within[e] : Supported(r)
    BY <1>1 DEF Unsupported, Supported
  <2>9. ValueOK(t, e)
    BY <2>3, <2>7, <2>8
  <2>10. value[e] = built[e][FALSE]
    <3>1. functions \in Programs
      BY <2>1 DEF FrontendInv, SemaType
    <3> QED
      BY <2>1, <2>3, <3>1, BuiltIs
  <2>11. /\ ~built[e][FALSE].bad
         /\ built[e][FALSE].type = IF e.op = "print" THEN "null" ELSE LlvmType(t[e])
    <3>1. FALSE \in BOOLEAN
      OBVIOUS
    <3> QED
      BY <2>4, <2>5, <2>9, <3>1, Zenon DEF ValueOK
  <2> QED
    <3>1. ~value[e].bad
      BY <2>10, <2>11, Zenon
    <3>2. value[e].type = IF e.op = "print" THEN "null" ELSE LlvmType(code[at].type)
      BY <2>4, <2>10, <2>11
    <3> QED
      BY <3>1, <3>2
<1>2. AgreementInv => ValuesAgree
  BY <1>1 DEF ValuesAgree
<1> QED
  BY <1>2, AgreementInvCorrect, PTL
=============================================================================
