----------------------------- MODULE SemaProofs -----------------------------
(***************************************************************************)
(* Proofs about the analysis: names have lexical scope.                    *)
(***************************************************************************)
EXTENDS Frontend, CommonFacts

-----------------------------------------------------------------------------
(* Functions and declarations are what the syntax tree has them to be. *)
Phases == {"signatures", "bodies", "rejected", "codegen", "aborted", "generated"}
Ops    == {"expr", "var", "return", "if", "while", "else", "end"}
Nests  == {"if", "else", "while"}
Scope  == [Names -> Decls]

LEMMA FunctionFacts ==
  ASSUME functions \in Programs
  PROVE  /\ Len(functions) \in Nat /\ DOMAIN functions = 1..Len(functions)
         /\ \A f \in 1..Len(functions) :
              /\ functions[f].name \in Names /\ functions[f].spec \in Specs
              /\ Len(functions[f].params) \in Nat
              /\ DOMAIN functions[f].params = 1..Len(functions[f].params)
              /\ \A i \in 1..Len(functions[f].params) :
                   /\ functions[f].params[i].name \in Names
                   /\ functions[f].params[i].spec \in Specs
<1> DEFINE R == [name : Names, spec : Specs]
           F == [name : Names, spec : Specs, params : Seq(R)]
<1>1. functions \in Seq(F)
  BY NamesAssumption
<1>2. Len(functions) \in Nat /\ DOMAIN functions = 1..Len(functions)
  <2> HIDE DEF F
  <2> QED
    BY <1>1, LenProperties
<1>3. ASSUME NEW f \in 1..Len(functions)
      PROVE  /\ functions[f].name \in Names /\ functions[f].spec \in Specs
             /\ functions[f].params \in Seq(R)
  <2>1. functions[f] \in F
    <3> HIDE DEF F
    <3> QED
      BY <1>1, ElementOfSeq
  <2> QED
    BY <2>1
<1>4. ASSUME NEW f \in 1..Len(functions)
      PROVE  /\ Len(functions[f].params) \in Nat
             /\ DOMAIN functions[f].params = 1..Len(functions[f].params)
             /\ \A i \in 1..Len(functions[f].params) : functions[f].params[i] \in R
  <2> HIDE DEF R
  <2> QED
    BY <1>3, LenProperties, ElementOfSeq
<1> QED
  BY <1>2, <1>3, <1>4

LEMMA DeclFacts ==
  ASSUME functions \in Programs
  PROVE  /\ NoDecl \in Decls /\ NoNames \in Scope
         /\ \A f \in 1..Len(functions) :
              /\ Function(f) \in Decls /\ Function(f) # NoDecl
              /\ Function(f).kind = "fn" /\ Function(f).fn = f
              /\ Function(f).name = functions[f].name
              /\ \A i \in 1..Len(functions[f].params) :
                   /\ Param(f, i) \in Decls /\ Param(f, i) # NoDecl
                   /\ Param(f, i).kind = "param"
                   /\ Param(f, i).name = functions[f].params[i].name
<1>1. NoDecl \in Decls
  BY DEF NoDecl, Declaration, Decls, Specs
<1>2. NoNames \in Scope
  BY <1>1 DEF NoNames, Scope
<1>3. ASSUME NEW f \in 1..Len(functions)
      PROVE  /\ Function(f) \in Decls /\ Function(f) # NoDecl
             /\ Function(f).kind = "fn" /\ Function(f).fn = f
             /\ Function(f).name = functions[f].name
  <2>1. functions[f].name \in Names /\ functions[f].spec \in Specs /\ f \in Nat
    BY FunctionFacts
  <2> QED
    BY <2>1 DEF Function, NoDecl, Declaration, Decls
<1>4. ASSUME NEW f \in 1..Len(functions), NEW i \in 1..Len(functions[f].params)
      PROVE  /\ Param(f, i) \in Decls /\ Param(f, i) # NoDecl
             /\ Param(f, i).kind = "param"
             /\ Param(f, i).name = functions[f].params[i].name
  <2>1. /\ functions[f].params[i].name \in Names
        /\ functions[f].params[i].spec \in Specs
        /\ i \in Nat /\ f \in Nat
    BY FunctionFacts
  <2> QED
    BY <2>1 DEF Param, NoDecl, Declaration, Decls
<1> QED
  BY <1>1, <1>2, <1>3, <1>4

-----------------------------------------------------------------------------
(* The scope of the parameters, without recursion: the first of a name. *)
LEMMA ParamScopeFacts ==
  ASSUME functions \in Programs, NEW f \in 1..Len(functions)
  PROVE  /\ ParamScope(f) \in Scope
         /\ \A x \in Names : ParamScope(f)[x] =
              IF ParamsOf(f, x) = {} THEN NoDecl ELSE Param(f, Min(ParamsOf(f, x)))
<1> DEFINE n == Len(functions[f].params)
           up(x, i) == {j \in ParamsOf(f, x) : j <= i}
           first(x, i) == IF up(x, i) = {} THEN NoDecl ELSE Param(f, Min(up(x, i)))
           step(g, i) == IF i = 0 THEN NoNames ELSE Add(g[i - 1], Param(f, i))
           G == [i \in 0..n |-> [x \in Names |-> first(x, i)]]
<1>1. n \in Nat /\ \A x \in Names : \A j \in ParamsOf(f, x) : j \in 1..n
  BY FunctionFacts DEF ParamsOf
<1> HIDE DEF n
<1>2. ASSUME NEW i \in 1..n
      PROVE  [x \in Names |-> first(x, i)] = Add([x \in Names |-> first(x, i - 1)], Param(f, i))
  <2> USE DEF n
  <2> DEFINE y == Param(f, i).name
             before == [x \in Names |-> first(x, i - 1)]
  <2>1. y \in Names /\ y = functions[f].params[i].name
    BY FunctionFacts, DeclFacts
  <2>2. ASSUME NEW x \in Names, x # y
        PROVE  first(x, i) = first(x, i - 1)
    <3>1. up(x, i) = up(x, i - 1)
      BY <1>1, <2>1, <2>2 DEF ParamsOf
    <3> QED
      BY <3>1
  <2>3. CASE up(y, i - 1) = {}
    <3>1. up(y, i) = {i}
      BY <1>1, <2>1, <2>3, FunctionFacts DEF ParamsOf
    <3>2. Min(up(y, i)) = i
      BY <3>1, MinIs
    <3>3. first(y, i) = Param(f, i) /\ before[y] = NoDecl
      BY <3>1, <3>2, <2>3, <2>1
    <3>4. Add(before, Param(f, i)) = [before EXCEPT ![y] = Param(f, i)]
      BY <3>3 DEF Add
    <3> QED
      BY <3>3, <3>4, <2>2
  <2>4. CASE up(y, i - 1) # {}
    <3> DEFINE m == Min(up(y, i - 1))
    <3>1. up(y, i - 1) \in SUBSET Nat
      BY <1>1, <2>1
    <3>2. m \in up(y, i - 1) /\ \A j \in up(y, i - 1) : m <= j
      BY <2>4, <3>1, MinFacts
    <3>3. up(y, i) = up(y, i - 1) \cup {i}
      BY <1>1, <2>1, FunctionFacts DEF ParamsOf
    <3>4. up(y, i) \in SUBSET Nat /\ m \in up(y, i) /\ \A j \in up(y, i) : m <= j
      <4> HIDE DEF m
      <4> QED
        BY <3>1, <3>2, <3>3
    <3>5. Min(up(y, i)) = m
      <4> HIDE DEF m, up
      <4> QED
        BY <3>4, MinIs
    <3>6. m \in 1..n
      BY <1>1, <2>1, <3>2
    <3>7. first(y, i) = first(y, i - 1) /\ first(y, i - 1) # NoDecl
      BY <3>3, <3>5, <3>6, <2>4, DeclFacts
    <3>8. Add(before, Param(f, i)) = before
      BY <3>7, <2>1 DEF Add
    <3> QED
      BY <3>7, <3>8, <2>2
  <2> QED
    BY <2>3, <2>4
<1>3. G = [i \in 0..n |-> step(G, i)]
  <2>1. ASSUME NEW x \in Names
        PROVE  up(x, 0) = {}
    <3>1. \A j \in ParamsOf(f, x) : ~ (j <= 0)
      BY <1>1
    <3> QED
      BY <3>1
  <2>2. 0 \in 0..n /\ G[0] = NoNames
    BY <1>1, <2>1 DEF NoNames
  <2>3. ASSUME NEW i \in 1..n
        PROVE  G[i] = Add(G[i - 1], Param(f, i))
    <3>1. i \in 0..n /\ i - 1 \in 0..n
      BY <1>1
    <3>2. /\ G[i] = [x \in Names |-> first(x, i)]
          /\ G[i - 1] = [x \in Names |-> first(x, i - 1)]
      <4> HIDE DEF first
      <4> QED
        BY <3>1
    <3> QED
      <4> HIDE DEF first
      <4> QED
        BY <3>2, <1>2 DEF n
  <2>4. \A i \in 0..n : G[i] = step(G, i)
    <3> HIDE DEF G
    <3> QED
      BY <2>2, <2>3, <1>1
  <2> QED
    <3> HIDE DEF step, first
    <3>1. G = [i \in 0..n |-> G[i]]
      OBVIOUS
    <3> HIDE DEF G
    <3> QED
      BY <2>4, <3>1
<1>4. ASSUME NEW g, g = [i \in 0..n |-> step(g, i)]
      PROVE  g = G
  <2> HIDE DEF G
  <2> DEFINE wrong == {i \in 0..n : g[i] # G[i]}
  <2>1. CASE wrong = {}
    BY <2>1, <1>4, <1>3
  <2>2. CASE wrong # {}
    <3>1. PICK i \in wrong : \A j \in wrong : i <= j
      <4>1. wrong \in SUBSET Nat
        BY <1>1
      <4> HIDE DEF wrong
      <4> QED
        BY <4>1, <2>2, Smallest
    <3>2. i # 0
      BY <1>1, <1>3, <1>4, <3>1
    <3>3. g[i - 1] = G[i - 1]
      BY <1>1, <3>1, <3>2
    <3>4. g[i] = Add(g[i - 1], Param(f, i)) /\ G[i] = Add(G[i - 1], Param(f, i))
      BY <1>3, <1>4, <3>1, <3>2
    <3> QED
      BY <3>1, <3>3, <3>4
  <2> QED
    BY <2>1, <2>2
<1>5. ParamScope(f) = G[n]
  <2> DEFINE add == CHOOSE g : g = [i \in 0..n |-> step(g, i)]
  <2>1. add = [i \in 0..n |-> step(add, i)]
    <3> HIDE DEF G, step
    <3> QED
      BY <1>3, Zenon
  <2>2. add = G
    <3> HIDE DEF add
    <3> QED
      BY <2>1, <1>4
  <2>3. ParamScope(f) = add[n]
    BY Zenon DEF ParamScope, n
  <2> QED
    BY <2>2, <2>3
<1>6. ASSUME NEW x \in Names
      PROVE  up(x, n) = ParamsOf(f, x)
  <2>1. \A j \in ParamsOf(f, x) : j <= n
    BY <1>1
  <2> QED
    BY <2>1
<1>7. ASSUME NEW x \in Names
      PROVE  first(x, n) \in Decls
  <2>1. CASE up(x, n) = {}
    BY <2>1, DeclFacts
  <2>2. CASE up(x, n) # {}
    <3>1. Min(up(x, n)) \in 1..n
      <4>1. up(x, n) \in SUBSET Nat
        BY <1>1
      <4> HIDE DEF up
      <4>2. Min(up(x, n)) \in up(x, n)
        BY <4>1, <2>2, MinFacts
      <4> QED
        BY <4>2, <1>1 DEF up
    <3> QED
      BY <3>1, <2>2, DeclFacts DEF n
  <2> QED
    BY <2>1, <2>2
<1> QED
  BY <1>1, <1>5, <1>6, <1>7 DEF Scope

-----------------------------------------------------------------------------
(* The declaration that is found is in the innermost scope that has one. *)
Innermost(x, l) ==
  /\ l \in 1..Len(scopes) /\ scopes[l][x] # NoDecl
  /\ \A k \in l + 1..Len(scopes) : scopes[k][x] = NoDecl

LEMMA LookupFacts ==
  ASSUME scopes \in Seq(Scope), NEW x \in Names
  PROVE  /\ (\A l \in 1..Len(scopes) : scopes[l][x] = NoDecl) => Lookup(x) = NoDecl
         /\ \A l : Innermost(x, l) => Lookup(x) = scopes[l][x]
         /\ (\E l \in 1..Len(scopes) : scopes[l][x] # NoDecl) => \E l : Innermost(x, l)
<1> DEFINE having == {l \in DOMAIN scopes : scopes[l][x] # NoDecl}
           n == Len(scopes)
<1>1. n \in Nat /\ DOMAIN scopes = 1..n
  BY LenProperties
<1>2. having = {l \in 1..n : scopes[l][x] # NoDecl}
  BY <1>1
<1>3. Lookup(x) = IF having = {} THEN NoDecl ELSE scopes[Max(having)][x]
  BY DEF Lookup
<1> HIDE DEF n
<1>4. having \in SUBSET Nat /\ \A l \in having : l <= n
  BY <1>1, <1>2
<1>5. ASSUME \A l \in 1..n : scopes[l][x] = NoDecl
      PROVE  Lookup(x) = NoDecl
  <2>1. having = {}
    BY <1>2, <1>5
  <2> QED
    BY <1>3, <2>1
<1>6. ASSUME NEW l, Innermost(x, l)
      PROVE  Lookup(x) = scopes[l][x]
  <2>1. l \in 1..n /\ scopes[l][x] # NoDecl /\ \A k \in l + 1..n : scopes[k][x] = NoDecl
    BY <1>6 DEF Innermost, n
  <2>2. l \in having
    BY <1>2, <2>1
  <2>3. \A k \in having : k <= l
    BY <1>1, <1>2, <2>1
  <2>4. Max(having) = l
    <3> HIDE DEF having
    <3> QED
      BY <1>4, <2>2, <2>3, MaxIs
  <2> QED
    <3> HIDE DEF having
    <3> QED
      BY <1>3, <2>2, <2>4
<1>7. ASSUME NEW l \in 1..n, scopes[l][x] # NoDecl
      PROVE  \E m : Innermost(x, m)
  <2>1. having # {}
    BY <1>2, <1>7
  <2>2. PICK m \in having : \A k \in having : k <= m
    <3> HIDE DEF having
    <3> QED
      BY <1>1, <1>4, <2>1, Greatest
  <2>3. \A k \in m + 1..n : scopes[k][x] = NoDecl
    BY <1>1, <1>2, <2>2
  <2> QED
    BY <1>2, <2>2, <2>3 DEF Innermost, n
<1> QED
  BY <1>5, <1>6, <1>7 DEF n

LEMMA LookupType ==
  ASSUME scopes \in Seq(Scope), NEW x \in Names, functions \in Programs
  PROVE  Lookup(x) \in Decls
<1>1. CASE \A l \in 1..Len(scopes) : scopes[l][x] = NoDecl
  BY <1>1, LookupFacts, DeclFacts
<1>2. CASE \E l \in 1..Len(scopes) : scopes[l][x] # NoDecl
  <2>1. PICK l : Innermost(x, l)
    BY <1>2, LookupFacts
  <2>2. l \in 1..Len(scopes) /\ Lookup(x) = scopes[l][x]
    BY <2>1, LookupFacts DEF Innermost
  <2>3. scopes[l] \in Scope
    BY <2>2, ElementOfSeq
  <2> QED
    BY <2>2, <2>3 DEF Scope
<1> QED
  BY <1>1, <1>2

-----------------------------------------------------------------------------
(* The state of the analysis is well typed. *)
StatementOK(s) ==
  /\ s.op \in Ops /\ s.fn \in 1..fn /\ s.fn <= Len(functions) /\ s.depth \in Nat
  /\ s.op = "var" => s.name \in Names /\ s.spec \in Specs

SemaType ==
  /\ functions \in Programs /\ phase \in Phases
  /\ scopes \in Seq(Scope) /\ scopes # <<>>
  /\ nest \in Seq(Nests)
  /\ fn \in 1..Len(functions) + 1
  /\ IsSeq(code) /\ \A q \in 1..Len(code) : StatementOK(code[q])
  /\ phase = "signatures" => code = <<>>
  /\ phase # "rejected" =>
       IF InBody THEN fn <= Len(functions) /\ Len(scopes) = Len(nest) + 2
                 ELSE nest = <<>> /\ Len(scopes) = 1

(* What a step does to the tree: it adds a statement. *)
Appends(op, depth, name, spec) ==
  /\ InBody
  /\ IsSeq(code') /\ Len(code') = Len(code) + 1
  /\ \A q \in 1..Len(code) : code'[q] = code[q]
  /\ LET s == code'[Len(code) + 1]
     IN  /\ s.op = op /\ s.fn = fn /\ s.depth = depth /\ s.name = name /\ s.spec = spec
         /\ s.res = [x \in Names |-> Lookup(x)]
  /\ UNCHANGED <<functions, fn>>

PlainStep ==
  /\ \E op \in {"expr", "return"} : Appends(op, Len(nest), "", "")
  /\ phase' \in {"bodies", "rejected"}
  /\ UNCHANGED <<scopes, nest>>

VarStep ==
  \E x \in Names, spec \in {"int", "float"} :
    /\ Appends("var", Len(nest), x, spec)
    /\ \/ /\ Lookup(x) = NoDecl
          /\ phase' = "bodies"
          /\ scopes' = AddTop(Declaration("var", fn, Len(code) + 1, x, spec))
       \/ /\ phase' = "rejected"
          /\ UNCHANGED scopes
    /\ UNCHANGED nest

ConditionStep ==
  \E op \in {"if", "while"} :
    /\ Appends(op, Len(nest), "", "")
    /\ nest' = Append(nest, op)
    /\ phase' \in {"bodies", "rejected"}
    /\ Push

ElseStep ==
  /\ nest # <<>> /\ nest[Len(nest)] = "if"
  /\ Appends("else", Len(nest) - 1, "", "")
  /\ nest' = [nest EXCEPT ![Len(nest)] = "else"]
  /\ Replace /\ UNCHANGED phase

EndStep ==
  /\ nest # <<>>
  /\ Appends("end", Len(nest) - 1, "", "")
  /\ nest' = SubSeq(nest, 1, Len(nest) - 1)
  /\ Pop /\ UNCHANGED phase

LaterStep ==
  /\ UNCHANGED <<functions, code, scopes, fn, nest>>
  /\ \/ phase' = phase
     \/ (phase = "codegen" /\ phase' \in {"aborted", "generated"})

Step ==
  \/ PlainStep \/ VarStep \/ ConditionStep \/ ElseStep \/ EndStep
  \/ ResolveSignature \/ SignaturesResolved \/ EnterBody \/ LeaveBody \/ Accept
  \/ LaterStep

LEMMA Steps == ASSUME SemaType, [Next]_vars PROVE Step
<1>1. ASSUME NEW op, NEW name, NEW spec, NEW e, NEW ok, Resolve(op, name, spec, e, ok)
      PROVE  /\ Appends(op, Len(nest), name, spec)
             /\ ok => phase' = "bodies"
             /\ phase' \in {"bodies", "rejected"}
             /\ ~ok => phase' = "rejected"
  <2>1. code' = Append(code, Statement(op, name, spec, e)) /\ InBody
    BY <1>1 DEF Resolve
  <2>2. IsSeq(code)
    BY DEF SemaType
  <2> QED
    BY <1>1, <2>1, <2>2, Appended DEF Resolve, Appends, Statement, Means
<1>2. ASSUME NEW op,
             InBody, code' = Append(code, [Statement(op, "", "", NoExpr) EXCEPT !.depth = @ - 1]),
             UNCHANGED <<functions, fn>>
      PROVE  Appends(op, Len(nest) - 1, "", "")
  <2> DEFINE new == [Statement(op, "", "", NoExpr) EXCEPT !.depth = @ - 1]
  <2>1. /\ new.op = op /\ new.fn = fn /\ new.depth = Len(nest) - 1 /\ new.name = "" /\ new.spec = ""
        /\ new.res = [x \in Names |-> Lookup(x)]
    BY DEF Statement, Means
  <2>2. IsSeq(code)
    BY DEF SemaType
  <2>3. code' = Append(code, new)
    BY <1>2
  <2> HIDE DEF new
  <2>4. /\ IsSeq(code') /\ Len(code') = Len(code) + 1
        /\ \A q \in 1..Len(code) : code'[q] = code[q]
        /\ code'[Len(code) + 1] = new
    BY <2>2, <2>3, Appended
  <2> QED
    BY <1>2, <2>1, <2>4 DEF Appends
<1>3. CASE ResolveExprStmt
  BY <1>3, <1>1 DEF ResolveExprStmt, Step, PlainStep
<1>4. CASE ResolveReturnStmt
  BY <1>4, <1>1 DEF ResolveReturnStmt, Step, PlainStep
<1>5. CASE ResolveVariableDecl
  BY <1>5, <1>1, NamesAssumption DEF ResolveVariableDecl, Step, VarStep
<1>6. CASE ResolveCondition
  BY <1>6, <1>1 DEF ResolveCondition, Step, ConditionStep
<1>7. CASE ResolveElse
  BY <1>7, <1>2 DEF ResolveElse, Step, ElseStep
<1>8. CASE ResolveEnd
  BY <1>8, <1>2 DEF ResolveEnd, Step, EndStep
<1>9. CASE CodegenNext /\ UNCHANGED <<scopes, fn, nest>>
  BY <1>9 DEF CodegenNext, AssertFunctionType, StartFunction, VisitExprStmt, VisitVariableDecl,
       VisitReturnStmt, VisitIfStmt, VisitElse, VisitWhileStmt, VisitEnd, FinishFunction,
       Generate, Visiting, Step, LaterStep
<1>10. CASE UNCHANGED vars
  BY <1>10 DEF vars, semaVars, Step, LaterStep
<1> QED
  BY <1>3, <1>4, <1>5, <1>6, <1>7, <1>8, <1>9, <1>10 DEF Next, SemaNext, Step

LEMMA SemaTypeInit == ASSUME Init PROVE SemaType
<1>1. functions \in Programs /\ <<NoNames>> \in Seq(Scope) /\ <<>> \in Seq(Nests)
  BY DeclFacts, EmptySeq DEF Init, SemaInit
<1>2. IsSeq(<<>>) /\ Len(<<>>) = 0
  BY EmptySeq DEF IsSeq
<1> QED
  BY <1>1, <1>2, FunctionFacts DEF Init, SemaInit, SemaType, Phases, InBody

LEMMA AddType ==
  ASSUME NEW s \in Scope, NEW d \in Decls, d.name \in Names
  PROVE  Add(s, d) \in Scope
BY DEF Add, Scope

LEMMA SemaTypeStep == ASSUME SemaType, [Next]_vars PROVE SemaType'
<1> DEFINE n == Len(scopes)
           k == Len(nest)
           c == Len(code)
           m == Len(functions)
<1>1. Step
  BY Steps
<1>2. /\ n \in Nat \ {0} /\ DOMAIN scopes = 1..n /\ scopes[n] \in Scope
      /\ k \in Nat /\ (nest # <<>> => k \in Nat \ {0})
      /\ c \in Nat /\ m \in Nat
  BY EmptySeq, LenProperties, ElementOfSeq, SeqFacts, FunctionFacts DEF SemaType
<1>3. n = Len(scopes) /\ k = Len(nest) /\ c = Len(code) /\ m = Len(functions)
  OBVIOUS
<1> HIDE DEF n, k, c, m
<1>4. /\ functions \in Programs /\ phase \in Phases /\ fn \in 1..m + 1
      /\ IsSeq(code) /\ (InBody => fn <= m /\ n = k + 2)
      /\ scopes \in Seq(Scope) /\ scopes # <<>> /\ nest \in Seq(Nests) /\ NoNames \in Scope
      /\ (phase = "signatures" => code = <<>>)
      /\ (phase # "rejected" /\ ~InBody => nest = <<>> /\ n = 1)
  BY <1>3, DeclFacts DEF SemaType, InBody
<1>21. fn \in 1..m + 1 /\ m \in Nat /\ fn \in Nat
  <2>1. fn \in 1..m + 1
    BY <1>3 DEF SemaType
  <2>2. m \in Nat
    BY <1>2
  <2> QED
    BY <2>1, <2>2
<1>5. \A q \in 1..c : StatementOK(code[q])
  BY <1>3 DEF SemaType
<1>6. ASSUME NEW op \in Ops, NEW depth \in Nat, NEW name, NEW spec,
             Appends(op, depth, name, spec), phase' \in {"bodies", "rejected"},
             op = "var" => name \in Names /\ spec \in Specs,
             nest' \in Seq(Nests), scopes' \in Seq(Scope), scopes' # <<>>,
             Len(scopes') = Len(nest') + 2
      PROVE  SemaType'
  <2>1. fn \in 1..m /\ fn' = fn /\ functions' = functions
    BY <1>2, <1>4, <1>6 DEF Appends
  <2>2. ASSUME NEW q \in 1..c
        PROVE  StatementOK(code[q])'
    BY <1>3, <1>5, <1>6, <2>1, <2>2 DEF Appends, StatementOK
  <2> DEFINE s == code'[c + 1]
  <2>3. /\ s.op \in Ops /\ s.fn \in 1..fn' /\ s.fn <= Len(functions') /\ s.depth \in Nat
        /\ s.op = "var" => s.name \in Names /\ s.spec \in Specs
    <3>1. /\ code'[c + 1].op = op /\ code'[c + 1].fn = fn /\ code'[c + 1].depth = depth
          /\ code'[c + 1].name = name /\ code'[c + 1].spec = spec
      BY <1>3, <1>6 DEF Appends
    <3>2. /\ fn' \in 1..fn' /\ fn' <= Len(functions')
      BY <1>3, <2>1, <1>2
    <3>3. code'[c + 1].op = "var" => code'[c + 1].name \in Names /\ code'[c + 1].spec \in Specs
      BY <1>6, <3>1
    <3> QED
      BY <1>6, <2>1, <3>1, <3>2, <3>3
  <2>4. ASSUME NEW q \in 1..Len(code')
        PROVE  StatementOK(code[q])'
    <3>1. Len(code') = c + 1
      BY <1>3, <1>6 DEF Appends
    <3>2. CASE q = c + 1
      BY <3>2, <2>3 DEF StatementOK
    <3>3. CASE q # c + 1
      BY <1>2, <2>2, <3>1, <3>3
    <3> QED
      BY <3>2, <3>3
  <2> QED
    BY <1>2, <1>3, <1>4, <1>6, <2>1, <2>4 DEF Appends, SemaType, Phases, InBody
<1>7. ASSUME NEW d \in Decls, d.name \in Names
      PROVE  AddTop(d) \in Seq(Scope) /\ Len(AddTop(d)) = n /\ AddTop(d) # <<>>
  <2>1. Add(scopes[n], d) \in Scope
    BY <1>2, <1>7, AddType
  <2>2. AddTop(d) = [scopes EXCEPT ![n] = Add(scopes[n], d)]
    BY <1>3 DEF AddTop
  <2>3. AddTop(d) \in Seq(Scope) /\ Len(AddTop(d)) = n
    <3>1. scopes \in Seq(Scope) /\ n \in 1..Len(scopes) /\ Len(scopes) = n
      <4>1. n \in 1..Len(scopes) /\ Len(scopes) = n
        BY <1>2, <1>3
      <4> QED
        BY <1>4, <4>1
    <3> QED
      BY <2>1, <2>2, <3>1, ExceptSeq
  <2> QED
    BY <1>2, <2>3, EmptySeq
<1>19. ASSUME NEW op, NEW depth, NEW name, NEW spec, Appends(op, depth, name, spec)
       PROVE  n = k + 2
  BY <1>4, <1>19 DEF Appends
<1>8. CASE PlainStep
  <2>1. PICK op \in {"expr", "return"} : Appends(op, k, "", "")
    BY <1>3, <1>8 DEF PlainStep
  <2>2. phase' \in {"bodies", "rejected"} /\ scopes' = scopes /\ nest' = nest
    BY <1>8 DEF PlainStep
  <2>3. op \in Ops /\ op # "var"
    BY <2>1 DEF Ops
  <2> QED
    BY <1>2, <1>3, <1>4, <1>6, <2>1, <2>2, <2>3, <1>19
<1>9. CASE VarStep
  <2>1. PICK x \in Names, spec \in {"int", "float"} :
          /\ Appends("var", k, x, spec) /\ nest' = nest /\ phase' \in {"bodies", "rejected"}
          /\ \/ scopes' = scopes
             \/ scopes' = AddTop(Declaration("var", fn, Len(code) + 1, x, spec))
    BY <1>3, <1>9 DEF VarStep
  <2> DEFINE d == Declaration("var", fn, Len(code) + 1, x, spec)
  <2>2. fn \in Nat /\ Len(code) + 1 \in Nat /\ spec \in Specs /\ "var" \in Ops
    <3>1. fn \in Nat /\ Len(code) + 1 \in Nat
      BY <1>2, <1>3, <1>21
    <3>2. spec \in Specs /\ "var" \in Ops
      BY DEF Specs, Ops
    <3> QED
      BY <3>1, <3>2
  <2>3. d \in Decls /\ d.name = x
    BY <2>2 DEF Declaration, Decls
  <2>4. scopes' \in Seq(Scope) /\ scopes' # <<>> /\ Len(scopes') = n
    <3> HIDE DEF d
    <3>1. AddTop(d) \in Seq(Scope) /\ AddTop(d) # <<>> /\ Len(AddTop(d)) = n
      BY <1>7, <2>3
    <3> QED
      BY <1>3, <1>4, <2>1, <3>1 DEF d
  <2> QED
    BY <1>2, <1>3, <1>4, <1>6, <2>1, <2>2, <2>4, <1>19
<1>10. CASE ConditionStep
  <2>1. PICK op \in {"if", "while"} :
          Appends(op, k, "", "") /\ nest' = Append(nest, op) /\ phase' \in {"bodies", "rejected"}
    BY <1>3, <1>10 DEF ConditionStep
  <2>2. nest' \in Seq(Nests) /\ Len(nest') = k + 1
    <3>1. op \in Nests
      BY <2>1 DEF Nests
    <3> QED
      BY <1>3, <2>1, <3>1, <1>4, AppendProperties
  <2>3. scopes' \in Seq(Scope) /\ scopes' # <<>> /\ Len(scopes') = n + 1
    <3>1. scopes' = Append(scopes, NoNames)
      BY <1>10 DEF ConditionStep, Push
    <3> QED
      BY <1>3, <1>4, <3>1, AppendProperties
  <2>4. op \in Ops /\ op # "var"
    BY <2>1 DEF Ops
  <2> QED
    <3>1. n = k + 2
      BY <2>1, <1>19
    <3>2. Len(scopes') = Len(nest') + 2
      BY <1>2, <2>2, <2>3, <3>1
    <3> QED
      BY <1>2, <1>6, <2>1, <2>2, <2>3, <2>4, <3>2
<1>11. CASE ElseStep
  <2>1. /\ nest' = [nest EXCEPT ![k] = "else"]
        /\ phase' = phase /\ k \in Nat \ {0} /\ scopes' = [scopes EXCEPT ![n] = NoNames]
    BY <1>2, <1>3, <1>11 DEF ElseStep, Replace
  <2>2. nest' \in Seq(Nests) /\ Len(nest') = k
    <3>1. k \in 1..Len(nest)
      BY <1>3, <2>1
    <3>2. "else" \in Nests
      BY DEF Nests
    <3> QED
      BY <1>3, <2>1, <3>1, <3>2, <1>4, ExceptSeq
  <2>3. scopes' \in Seq(Scope) /\ Len(scopes') = n
    <3>1. n \in 1..Len(scopes) /\ Len(scopes) = n
      BY <1>2, <1>3
    <3> QED
      BY <2>1, <3>1, <1>4, ExceptSeq
  <2>4. scopes' # <<>>
    BY <2>3, <1>2, EmptySeq
  <2>5. "else" \in Ops
    BY DEF Ops
  <2>6. Len(nest) - 1 \in Nat
    BY <2>1, <1>3
  <2>7. Appends("else", Len(nest) - 1, "", "")
    BY <1>11 DEF ElseStep
  <2>8. InBody
    BY <2>7 DEF Appends
  <2>9. phase' = "bodies" /\ Len(scopes') = Len(nest') + 2
    BY <1>4, <2>1, <2>2, <2>3, <2>8 DEF InBody
  <2> QED
    BY <1>6, <2>2, <2>3, <2>4, <2>5, <2>6, <2>7, <2>9
<1>12. CASE EndStep
  <2>1. /\ nest' = SubSeq(nest, 1, Len(nest) - 1) /\ nest # <<>>
        /\ phase' = phase /\ k \in Nat \ {0} /\ scopes' = SubSeq(scopes, 1, Len(scopes) - 1)
    BY <1>2, <1>3, <1>12 DEF EndStep, Pop
  <2>2. nest' \in Seq(Nests) /\ Len(nest') = k - 1
    BY <1>3, <1>4, <2>1, Popped
  <2>7. Appends("end", Len(nest) - 1, "", "")
    BY <1>12 DEF EndStep
  <2>8. InBody
    BY <2>7 DEF Appends
  <2>3. n > 1 /\ phase = "bodies"
    BY <1>3, <2>8 DEF InBody
  <2>4. scopes' \in Seq(Scope) /\ Len(scopes') = n - 1
    BY <1>3, <1>4, <2>1, Popped
  <2>5. scopes' # <<>>
    BY <2>3, <2>4, <1>2, EmptySeq
  <2>6. "end" \in Ops
    BY DEF Ops
  <2>9. Len(nest) - 1 \in Nat /\ phase' = "bodies" /\ Len(scopes') = Len(nest') + 2
    BY <1>2, <1>3, <1>4, <2>1, <2>2, <2>3, <2>4, <2>8
  <2> QED
    BY <1>6, <2>2, <2>4, <2>5, <2>6, <2>7, <2>9
<1>13. CASE ResolveSignature
  <2>1. /\ functions' = functions /\ code' = code /\ nest' = nest
        /\ phase' \in {"signatures", "rejected"}
        /\ phase = "signatures" /\ fn \in 1..m
        /\ \/ scopes' = AddTop(Function(fn)) /\ fn' = fn + 1
           \/ scopes' = scopes /\ fn' = fn
    <3>1. fn \in 1..m
      <4>1. fn <= Len(functions)
        BY <1>13, Zenon DEF ResolveSignature
      <4> QED
        BY <4>1, <1>3, <1>21
    <3> QED
      BY <3>1, <1>13 DEF ResolveSignature
  <2>2. Function(fn) \in Decls /\ Function(fn).name \in Names
    BY <1>3, <1>4, <2>1, DeclFacts, FunctionFacts
  <2>3. scopes' \in Seq(Scope) /\ scopes' # <<>> /\ Len(scopes') = n
    BY <1>3, <1>4, <1>7, <2>1, <2>2
  <2>4. fn' \in 1..m + 1
    BY <1>2, <2>1
  <2>5. c = 0
    BY <1>3, <1>4, <2>1, EmptySeq
  <2> QED
    BY <1>3, <1>4, <2>1, <2>3, <2>4, <2>5 DEF SemaType, Phases, InBody
<1>14. CASE SignaturesResolved
  <2>1. /\ functions' = functions /\ code' = code /\ nest' = nest /\ scopes' = scopes
        /\ phase' = "bodies" /\ fn' = 1 /\ phase = "signatures"
    BY <1>14 DEF SignaturesResolved
  <2>2. c = 0 /\ Len(scopes') = 1
    BY <1>3, <1>4, <2>1, EmptySeq DEF InBody
  <2> QED
    BY <1>2, <1>3, <1>4, <2>1, <2>2 DEF SemaType, Phases, InBody
<1>15. ASSUME UNCHANGED <<functions, code, nest>>, scopes' \in Seq(Scope), scopes' # <<>>,
              phase' \in Phases \ {"signatures"}, fn' \in fn..m + 1,
              phase' # "rejected" => IF InBody' THEN fn' <= m /\ Len(scopes') = k + 2
                                                ELSE nest = <<>> /\ Len(scopes') = 1
       PROVE  SemaType'
  <2>1. ASSUME NEW q \in 1..c
        PROVE  StatementOK(code[q])'
    BY <1>3, <1>4, <1>5, <1>15, <2>1 DEF StatementOK
  <2>2. \A q \in 1..Len(code') : StatementOK(code[q])'
    BY <1>3, <1>15, <2>1
  <2>3. fn' \in 1..m + 1
    BY <1>2, <1>4, <1>15
  <2> QED
    BY <1>3, <1>4, <1>15, <2>2, <2>3 DEF SemaType
<1>16. CASE EnterBody
  <2>1. scopes' \in Seq(Scope) /\ scopes' # <<>> /\ Len(scopes') = n + 1
    <3>1. fn \in 1..Len(functions) /\ scopes' = Append(scopes, ParamScope(fn))
      BY <1>2, <1>3, <1>4, <1>16 DEF EnterBody
    <3>2. ParamScope(fn) \in Scope
      BY <1>4, <3>1, ParamScopeFacts
    <3> QED
      BY <1>3, <1>4, <3>1, <3>2, AppendProperties
  <2>2. phase = "bodies" /\ phase' = phase /\ ~InBody /\ fn' = fn /\ fn <= m
    BY <1>3, <1>16 DEF EnterBody
  <2>3. n = 1 /\ k = 0
    BY <1>3, <1>4, <2>2, EmptySeq
  <2>4. InBody' /\ Len(scopes') = k + 2
    BY <2>1, <2>2, <2>3 DEF InBody
  <2> QED
    BY <1>2, <1>3, <1>4, <1>15, <1>16, <2>1, <2>2, <2>4 DEF EnterBody, Phases
<1>17. CASE LeaveBody
  <2>1. /\ scopes' = SubSeq(scopes, 1, Len(scopes) - 1) /\ phase' = phase /\ phase = "bodies"
        /\ fn' = fn + 1 /\ n > 1 /\ InBody /\ nest = <<>> /\ UNCHANGED <<functions, code, nest>>
    BY <1>3, <1>17 DEF LeaveBody, Pop, InBody
  <2>2. scopes' \in Seq(Scope) /\ Len(scopes') = n - 1
    BY <1>3, <1>4, <2>1, Popped
  <2>3. n = 2
    BY <1>3, <1>4, <2>1, EmptySeq
  <2>4. scopes' # <<>> /\ ~InBody' /\ Len(scopes') = 1
    BY <2>2, <2>3, EmptySeq DEF InBody
  <2> QED
    BY <1>2, <1>4, <1>15, <2>1, <2>2, <2>4 DEF Phases
<1>18. CASE Accept
  <2>1. UNCHANGED <<functions, code, scopes, fn, nest>> /\ phase' = "codegen"
        /\ phase = "bodies" /\ fn > m
    BY <1>3, <1>18 DEF Accept
  <2>2. ~InBody /\ ~InBody'
    BY <1>2, <1>4, <2>1 DEF InBody
  <2> QED
    BY <1>2, <1>3, <1>4, <1>15, <2>1, <2>2 DEF Phases
<1>20. CASE LaterStep
  <2>1. UNCHANGED <<functions, code, scopes, fn, nest>>
    BY <1>20 DEF LaterStep
  <2>2. CASE phase' = phase
    BY <2>1, <2>2 DEF SemaType, InBody, StatementOK
  <2>3. CASE phase = "codegen" /\ phase' \in {"aborted", "generated"}
    <3>1. phase' \in Phases \ {"signatures"} /\ ~InBody /\ ~InBody'
      BY <2>3 DEF Phases, InBody
    <3>2. nest = <<>> /\ Len(scopes) = 1
      BY <1>2, <1>4, <2>3, <3>1
    <3>3. fn \in fn..m + 1
      BY <1>2, <1>4
    <3> QED
      BY <1>4, <1>15, <2>1, <3>1, <3>2, <3>3
  <2> QED
    BY <1>20, <2>2, <2>3 DEF LaterStep
<1> QED
  BY <1>1, <1>8, <1>9, <1>10, <1>11, <1>12, <1>13, <1>14, <1>16, <1>17, <1>18, <1>20 DEF Step

(* The scopes and the statements of the analysis are well typed, and there are  *)
(* as many scopes as blocks are open: every push_back() of resolve...() in      *)
(* sema.h has its pop_back().                                                   *)
THEOREM SemaTypeCorrect == Spec => []SemaType
<1>1. Init => SemaType
  BY SemaTypeInit
<1>2. SemaType /\ [Next]_vars => SemaType'
  BY SemaTypeStep
<1> QED
  BY <1>1, <1>2, PTL DEF Spec

-----------------------------------------------------------------------------
(* What the scopes hold: the first function of a name in the global one, the *)
(* first parameter of a name in the next, and a variable in the scope of its *)
(* block, for as long as that is open.                                       *)
Globals(n) ==
  \A x \in Names :
    LET before == {f \in Named(x) : f < n}
    IN  scopes[1][x] = IF before = {} THEN NoDecl ELSE Function(Min(before))

BodyNames(x) ==
  /\ \A p \in OpenVars(x) :
       /\ code[p].depth <= Len(nest) /\ scopes[code[p].depth + 2][x] = Var(p)
       /\ ParamsOf(fn, x) = {} /\ Named(x) = {}
  /\ \A p, r \in OpenVars(x) : p = r
  /\ ParamsOf(fn, x) # {} => scopes[2][x] = Param(fn, Min(ParamsOf(fn, x)))
  /\ \A l \in 2..Len(scopes) : scopes[l][x] # NoDecl =>
       \/ (l = 2 /\ ParamsOf(fn, x) # {})
       \/ \E p \in OpenVars(x) : code[p].depth = l - 2

ScopesMean ==
  phase # "rejected" =>
    /\ Globals(IF phase = "signatures" THEN fn ELSE Len(functions) + 1)
    /\ IF InBody THEN \A x \in Names : BodyNames(x)
                 ELSE \A q \in 1..Len(code) : code[q].fn < fn

(* What a name means then. *)
Meaning(x) ==
  CASE OpenVars(x) # {} -> Var(Max(OpenVars(x)))
    [] OpenVars(x) = {} /\ ParamsOf(fn, x) # {} -> Param(fn, Min(ParamsOf(fn, x)))
    [] OpenVars(x) \cup ParamsOf(fn, x) = {} /\ Named(x) # {} -> Function(Min(Named(x)))
    [] OTHER -> NoDecl

LEMMA OpenVarsType ==
  ASSUME SemaType, NEW x, NEW p \in OpenVars(x)
  PROVE  /\ p \in 1..Len(code) /\ StatementOK(code[p]) /\ code[p].op = "var" /\ code[p].name = x
         /\ Var(p) # NoDecl /\ code[p].depth \in Nat
<1>1. DOMAIN code = 1..Len(code) /\ \A q \in 1..Len(code) : StatementOK(code[q])
  BY SeqFacts DEF SemaType
<1>2. p \in 1..Len(code) /\ code[p].op = "var" /\ code[p].name = x
  BY <1>1 DEF OpenVars
<1>3. Var(p) # NoDecl
  BY DEF Var, NoDecl, Declaration
<1>4. StatementOK(code[p])
  BY <1>1, <1>2
<1> QED
  BY <1>2, <1>3, <1>4 DEF StatementOK

LEMMA LookupMeans ==
  ASSUME SemaType, ScopesMean, InBody, NEW x \in Names
  PROVE  /\ Lookup(x) = Meaning(x)
         /\ Lookup(x) = NoDecl => OpenVars(x) = {} /\ ParamsOf(fn, x) = {} /\ Named(x) = {}
<1> DEFINE n == Len(scopes)
<1>1. /\ scopes \in Seq(Scope) /\ n \in Nat /\ n = Len(nest) + 2 /\ Len(nest) \in Nat
      /\ functions \in Programs /\ phase = "bodies" /\ fn \in 1..Len(functions)
  <2>1. n \in Nat /\ Len(nest) \in Nat
    BY LenProperties DEF SemaType
  <2>2. Len(functions) \in Nat
    BY FunctionFacts DEF SemaType
  <2> QED
    BY <2>1, <2>2 DEF SemaType, InBody
<1>2. Globals(Len(functions) + 1) /\ BodyNames(x)
  BY <1>1 DEF ScopesMean
<1>3. Named(x) \in SUBSET Nat /\ \A f \in Named(x) : f \in 1..Len(functions)
  BY <1>1, FunctionFacts DEF Named
<1>4. scopes[1][x] = IF Named(x) = {} THEN NoDecl ELSE Function(Min(Named(x)))
  <2>1. {f \in Named(x) : f < Len(functions) + 1} = Named(x)
    BY <1>1, <1>3
  <2> QED
    BY <1>2, <2>1 DEF Globals
<1>5. ParamsOf(fn, x) \in SUBSET Nat /\ \A i \in ParamsOf(fn, x) : i \in 1..Len(functions[fn].params)
  BY <1>1, FunctionFacts DEF ParamsOf
<1>6. ParamsOf(fn, x) # {} => Param(fn, Min(ParamsOf(fn, x))) # NoDecl
  BY <1>1, <1>5, MinFacts, DeclFacts
<1>7. Named(x) # {} => Function(Min(Named(x))) # NoDecl
  BY <1>1, <1>3, MinFacts, DeclFacts
<1> HIDE DEF n
<1>8. CASE OpenVars(x) # {}
  <2>1. PICK p : p \in OpenVars(x)
    BY <1>8
  <2> DEFINE l == code[p].depth + 2
  <2>2. /\ code[p].depth \in Nat /\ code[p].depth <= Len(nest) /\ scopes[l][x] = Var(p)
        /\ Var(p) # NoDecl /\ ParamsOf(fn, x) = {} /\ p \in Nat
    BY <1>2, <2>1, OpenVarsType DEF BodyNames
  <2>3. OpenVars(x) = {p}
    BY <1>2, <2>1 DEF BodyNames
  <2>4. Max(OpenVars(x)) = p
    BY <2>2, <2>3, MaxIs
  <2>5. ASSUME NEW k \in l + 1..n, scopes[k][x] # NoDecl
        PROVE  FALSE
    <3>1. k \in 2..n
      BY <1>1, <2>2
    <3>2. PICK r \in OpenVars(x) : code[r].depth = k - 2
      BY <1>2, <2>2, <2>5, <3>1 DEF BodyNames, n
    <3>3. r = p
      BY <2>3
    <3> QED
      BY <2>2, <2>5, <3>2, <3>3, <1>1
  <2>6. Innermost(x, l)
    BY <1>1, <2>2, <2>5 DEF Innermost, n
  <2>7. Lookup(x) = Var(p)
    BY <1>1, <2>2, <2>6, LookupFacts
  <2> QED
    BY <1>8, <2>2, <2>4, <2>7 DEF Meaning
<1>9. CASE OpenVars(x) = {} /\ ParamsOf(fn, x) # {}
  <2>1. scopes[2][x] = Param(fn, Min(ParamsOf(fn, x)))
    BY <1>2, <1>9 DEF BodyNames
  <2>2. \A k \in 3..n : scopes[k][x] = NoDecl
    BY <1>1, <1>2, <1>9 DEF BodyNames, n
  <2>3. Innermost(x, 2)
    BY <1>1, <1>6, <1>9, <2>1, <2>2 DEF Innermost, n
  <2>4. Lookup(x) = Param(fn, Min(ParamsOf(fn, x)))
    BY <1>1, <2>1, <2>3, LookupFacts
  <2> QED
    BY <1>6, <1>9, <2>4 DEF Meaning
<1>10. CASE OpenVars(x) = {} /\ ParamsOf(fn, x) = {}
  <2>1. \A k \in 2..n : scopes[k][x] = NoDecl
    BY <1>2, <1>10 DEF BodyNames, n
  <2>2. CASE Named(x) # {}
    <3>1. Innermost(x, 1)
      BY <1>1, <1>4, <1>7, <2>1, <2>2 DEF Innermost, n
    <3>2. Lookup(x) = Function(Min(Named(x)))
      BY <1>1, <1>4, <2>2, <3>1, LookupFacts
    <3> QED
      BY <1>7, <1>10, <2>2, <3>2 DEF Meaning
  <2>3. CASE Named(x) = {}
    <3>1. \A k \in 1..n : scopes[k][x] = NoDecl
      BY <1>1, <1>4, <2>1, <2>3
    <3>2. Lookup(x) = NoDecl
      BY <1>1, <3>1, LookupFacts DEF n
    <3> QED
      BY <1>10, <2>3, <3>2 DEF Meaning
  <2> QED
    BY <2>2, <2>3
<1> QED
  BY <1>8, <1>9, <1>10

-----------------------------------------------------------------------------
(* A statement closes the blocks that are deeper, if it is an else or an end, *)
(* and opens a variable, if it declares one.                                  *)
Stays(q, op, depth) == op \in {"else", "end"} => depth >= code[q].depth

LEMMA OpenAppended ==
  ASSUME SemaType, NEW op, NEW depth \in Int, NEW name, NEW spec,
         Appends(op, depth, name, spec), NEW x
  PROVE  OpenVars(x)' =
           {q \in OpenVars(x) : Stays(q, op, depth)}
             \cup (IF op = "var" /\ name = x THEN {Len(code) + 1} ELSE {})
<1> DEFINE c == Len(code)
<1>1. c \in Nat /\ DOMAIN code = 1..c /\ Len(code') = c + 1 /\ DOMAIN code' = 1..c + 1
  BY SeqFacts DEF SemaType, Appends
<1>2. /\ \A q \in 1..c : code'[q] = code[q]
      /\ code'[c + 1].op = op /\ code'[c + 1].fn = fn /\ code'[c + 1].depth = depth
      /\ code'[c + 1].name = name /\ fn' = fn
  BY DEF Appends
<1>3. OpenVars(x)' = {q \in 1..c + 1 :
        /\ code'[q].op = "var" /\ code'[q].fn = fn /\ code'[q].name = x
        /\ \A r \in q + 1..c + 1 :
             code'[r].op \in {"else", "end"} => code'[r].depth >= code'[q].depth}
  BY <1>1, <1>2 DEF OpenVars
<1>4. OpenVars(x) = {q \in 1..c :
        /\ code[q].op = "var" /\ code[q].fn = fn /\ code[q].name = x
        /\ \A r \in q + 1..c :
             code[r].op \in {"else", "end"} => code[r].depth >= code[q].depth}
  BY <1>1 DEF OpenVars
<1> HIDE DEF c
<1>5. ASSUME NEW q \in 1..c
      PROVE  q \in OpenVars(x)' <=> q \in OpenVars(x) /\ Stays(q, op, depth)
  <2>1. \A r \in q + 1..c : code'[r] = code[r]
    BY <1>1, <1>2
  <2>2. q \in 1..c + 1 /\ c + 1 \in q + 1..c + 1 /\ \A r \in q + 1..c : r \in q + 1..c + 1
    BY <1>1
  <2>3. \A r \in q + 1..c + 1 : r \in q + 1..c \/ r = c + 1
    BY <1>1
  <2>4. q \in OpenVars(x)' <=>
          /\ code[q].op = "var" /\ code[q].fn = fn /\ code[q].name = x
          /\ \A r \in q + 1..c + 1 :
               code'[r].op \in {"else", "end"} => code'[r].depth >= code[q].depth
    BY <1>2, <1>3, <2>2
  <2>5. (\A r \in q + 1..c + 1 :
               code'[r].op \in {"else", "end"} => code'[r].depth >= code[q].depth)
        <=> /\ \A r \in q + 1..c :
                 code[r].op \in {"else", "end"} => code[r].depth >= code[q].depth
            /\ Stays(q, op, depth)
    BY <1>2, <2>1, <2>2, <2>3 DEF Stays
  <2> QED
    BY <1>4, <2>4, <2>5
<1>6. c + 1 \in OpenVars(x)' <=> op = "var" /\ name = x
  BY <1>1, <1>2, <1>3
<1>7. c + 1 \notin OpenVars(x) /\ \A q \in OpenVars(x) : q \in 1..c
  BY <1>1, <1>4
<1>8. \A q \in OpenVars(x)' : q \in 1..c \/ q = c + 1
  BY <1>1, <1>3
<1> QED
  BY <1>5, <1>6, <1>7, <1>8 DEF c

LEMMA VarAppended ==
  ASSUME SemaType, NEW op, NEW depth, NEW name, NEW spec,
         Appends(op, depth, name, spec)
  PROVE  /\ \A q \in 1..Len(code) : code'[q] = code[q] /\ Var(q)' = Var(q)
         /\ \A q : q = Len(code) + 1 => Var(q)' = Declaration("var", fn, q, name, spec)
BY DEF Appends, Var, Declaration

(* The signatures stay what they are. *)
LEMMA SameFunctions ==
  ASSUME functions' = functions
  PROVE  /\ \A x : Named(x)' = Named(x)
         /\ \A f, x : ParamsOf(f, x)' = ParamsOf(f, x)
         /\ \A f : Function(f)' = Function(f)
         /\ \A f, i : Param(f, i)' = Param(f, i)
BY DEF Named, ParamsOf, Function, Param, Declaration

(* What is found for a name changes only with the variables that go out of scope. *)
LEMMA BodyNamesKept ==
  ASSUME SemaType, NEW x \in Names, BodyNames(x),
         NEW op, NEW depth \in Int, NEW name, NEW spec,
         Appends(op, depth, name, spec), ~(op = "var" /\ name = x),
         \A p \in OpenVars(x) : Stays(p, op, depth) =>
           /\ code[p].depth <= Len(nest')
           /\ scopes'[code[p].depth + 2][x] = scopes[code[p].depth + 2][x],
         ParamsOf(fn, x) # {} => scopes'[2][x] = scopes[2][x],
         \A l \in 2..Len(scopes') : scopes'[l][x] # NoDecl =>
           /\ l \in 2..Len(scopes) /\ scopes[l][x] # NoDecl
           /\ \A p \in OpenVars(x) : code[p].depth = l - 2 => Stays(p, op, depth)
  PROVE  BodyNames(x)'
<1>1. OpenVars(x)' = {q \in OpenVars(x) : Stays(q, op, depth)}
  BY OpenAppended
<1>2. functions' = functions /\ fn' = fn
  BY DEF Appends
<1>3. \A p \in OpenVars(x) : code'[p] = code[p] /\ Var(p)' = Var(p)
  BY OpenVarsType, VarAppended
<1>4. /\ \A f, y : ParamsOf(f, y)' = ParamsOf(f, y)
      /\ Named(x)' = Named(x)
      /\ \A f, i : Param(f, i)' = Param(f, i)
      /\ NoDecl' = NoDecl
  BY <1>2, SameFunctions
<1>5. \A p \in OpenVars(x)' :
       /\ code'[p].depth <= Len(nest') /\ scopes'[code'[p].depth + 2][x] = Var(p)'
       /\ ParamsOf(fn, x) = {} /\ Named(x) = {}
  BY <1>1, <1>3 DEF BodyNames
<1>6. \A p, r \in OpenVars(x)' : p = r
  BY <1>1 DEF BodyNames
<1>7. ParamsOf(fn, x) # {} => scopes'[2][x] = Param(fn, Min(ParamsOf(fn, x)))
  BY DEF BodyNames
<1>8. ASSUME NEW l \in 2..Len(scopes'), scopes'[l][x] # NoDecl
      PROVE  \/ (l = 2 /\ ParamsOf(fn, x) # {})
             \/ \E p \in OpenVars(x)' : code'[p].depth = l - 2
  <2>1. /\ l \in 2..Len(scopes) /\ scopes[l][x] # NoDecl
        /\ \A p \in OpenVars(x) : code[p].depth = l - 2 => Stays(p, op, depth)
    BY <1>8
  <2>2. CASE ~(l = 2 /\ ParamsOf(fn, x) # {})
    <3>1. PICK p \in OpenVars(x) : code[p].depth = l - 2
      BY <2>1, <2>2 DEF BodyNames
    <3> QED
      BY <1>1, <1>3, <2>1, <3>1
  <2> QED
    BY <2>2
<1>9. /\ ParamsOf(fn, x)' = ParamsOf(fn, x)
      /\ Min(ParamsOf(fn, x))' = Min(ParamsOf(fn, x))
      /\ Param(fn, Min(ParamsOf(fn, x)))' = Param(fn, Min(ParamsOf(fn, x)))
  BY <1>2, SameFunctions DEF ParamsOf, Param, Declaration
<1> QED
  BY <1>4, <1>5, <1>6, <1>7, <1>8, <1>9 DEF BodyNames

LEMMA ScopesMeanInit == ASSUME Init PROVE ScopesMean
<1>1. phase = "signatures" /\ fn = 1 /\ scopes[1] = NoNames /\ functions \in Programs /\ code = <<>>
  BY DEF Init, SemaInit
<1>2. \A x : {f \in Named(x) : f < 1} = {}
  BY <1>1, FunctionFacts DEF Named
<1>3. Globals(1)
  BY <1>1, <1>2 DEF Globals, NoNames
<1> QED
  BY <1>1, <1>3, EmptySeq DEF ScopesMean, InBody

LEMMA ScopesMeanStep == ASSUME SemaType, ScopesMean, [Next]_vars PROVE ScopesMean'
<1> DEFINE n == Len(scopes)
           k == Len(nest)
           c == Len(code)
           m == Len(functions)
<1>1. Step /\ SemaType'
  BY Steps, SemaTypeStep
<1>2. /\ n \in Nat \ {0} /\ k \in Nat /\ c \in Nat /\ m \in Nat
      /\ DOMAIN scopes = 1..n
  BY EmptySeq, LenProperties, SeqFacts, FunctionFacts DEF SemaType
<1>3. n = Len(scopes) /\ k = Len(nest) /\ c = Len(code) /\ m = Len(functions)
  OBVIOUS
<1> HIDE DEF n, k, c, m
<1>4. functions \in Programs /\ scopes \in Seq(Scope) /\ nest \in Seq(Nests) /\ fn \in 1..m + 1
  BY <1>3 DEF SemaType
<1>5. ASSUME InBody
      PROVE  /\ n = k + 2 /\ Globals(m + 1) /\ \A x \in Names : BodyNames(x)
             /\ phase = "bodies" /\ fn \in 1..m
  <2>1. phase = "bodies" /\ phase # "rejected" /\ phase # "signatures"
    BY <1>5 DEF InBody
  <2>2. n = k + 2 /\ fn <= m
    BY <1>3, <1>5, <2>1 DEF SemaType
  <2>3. Globals(m + 1) /\ \A x \in Names : BodyNames(x)
    BY <1>3, <1>5, <2>1 DEF ScopesMean
  <2> QED
    BY <1>2, <1>4, <2>1, <2>2, <2>3
\* a statement that leaves the scopes of the function and the program alone
<1>6. ASSUME NEW op, NEW depth \in Nat, NEW name, NEW spec,
             Appends(op, depth, name, spec), phase' = "bodies",
             scopes'[1] = scopes[1], Len(scopes') > 1,
             \A x \in Names : BodyNames(x)'
      PROVE  ScopesMean'
  <2>1. Globals(m + 1) /\ functions' = functions
    BY <1>5, <1>6 DEF Appends
  <2>2. ASSUME NEW y, y = m + 1
        PROVE  Globals(y)'
    <3>1. Globals(y)
      BY <2>1, <2>2
    <3> QED
      BY <1>6, <2>1, <3>1, SameFunctions DEF Globals
  <2>3. InBody'
    BY <1>6 DEF InBody
  <2> QED
    BY <1>1, <1>3, <1>6, <2>1, <2>2, <2>3 DEF ScopesMean
<1>7. CASE PlainStep
  <2>1. PICK op \in {"expr", "return"} : Appends(op, Len(nest), "", "")
    BY <1>7 DEF PlainStep
  <2>2. scopes' = scopes /\ nest' = nest /\ phase' \in {"bodies", "rejected"} /\ InBody
    BY <1>7, <2>1 DEF PlainStep, Appends
  <2>3. n = k + 2 /\ \A x \in Names : BodyNames(x)
    BY <1>5, <2>2
  <2>4. ASSUME NEW x \in Names
        PROVE  BodyNames(x)'
    <3>1. \A p \in OpenVars(x) : code[p].depth <= Len(nest') /\ Stays(p, op, Len(nest))
      BY <2>1, <2>2, <2>3 DEF BodyNames, Stays
    <3>2. /\ op # "var" /\ Len(nest) \in Int /\ Len(scopes') = Len(scopes)
          /\ \A l : scopes'[l] = scopes[l]
      BY <1>2, <1>3, <2>2
    <3>3. Appends(op, Len(nest), "", "") /\ BodyNames(x)
      BY <2>1, <2>3
    <3> QED
      BY <3>1, <3>2, <3>3, BodyNamesKept
  <2>5. Len(scopes') > 1
    BY <1>2, <1>3, <2>2, <2>3
  <2>6. Len(nest) \in Nat
    BY <1>2, <1>3
  <2>7. CASE phase' = "bodies"
    BY <1>6, <2>1, <2>2, <2>4, <2>5, <2>6, <2>7
  <2> QED
    BY <2>2, <2>7 DEF ScopesMean
<1>8. CASE ConditionStep
  <2>1. PICK op \in {"if", "while"} :
          /\ Appends(op, Len(nest), "", "") /\ nest' = Append(nest, op)
          /\ phase' \in {"bodies", "rejected"} /\ scopes' = Append(scopes, NoNames)
    BY <1>8 DEF ConditionStep, Push
  <2>2. n = k + 2 /\ (\A x \in Names : BodyNames(x)) /\ InBody
    BY <1>5, <2>1 DEF Appends
  <2>3. /\ Len(scopes') = n + 1 /\ \A l \in 1..n : scopes'[l] = scopes[l]
        /\ scopes'[n + 1] = NoNames
    <3>1. IsSeq(scopes) /\ scopes' = Append(scopes, NoNames)
      BY <1>4, <2>1 DEF IsSeq
    <3> QED
      BY <1>3, <3>1, Appended
  <2>4. Len(nest') = k + 1
    BY <1>3, <1>4, <2>1, Appended DEF IsSeq
  <2>5. ASSUME NEW x \in Names
        PROVE  BodyNames(x)'
    <3>1. \A p \in OpenVars(x) :
            /\ Stays(p, op, Len(nest)) /\ code[p].depth \in Nat /\ code[p].depth <= k
      BY <1>3, <2>1, <2>2, OpenVarsType DEF BodyNames, Stays
    <3>2. \A p \in OpenVars(x) :
            /\ code[p].depth <= Len(nest')
            /\ scopes'[code[p].depth + 2][x] = scopes[code[p].depth + 2][x]
      <4>1. \A p \in OpenVars(x) : code[p].depth + 2 \in 1..n /\ code[p].depth <= Len(nest')
        BY <1>2, <2>2, <2>4, <3>1
      <4> QED
        BY <2>3, <4>1
    <3>3. scopes'[2][x] = scopes[2][x]
      BY <1>2, <2>2, <2>3
    <3>4. \A l \in 2..Len(scopes') : scopes'[l][x] # NoDecl =>
            l \in 2..Len(scopes) /\ scopes[l][x] # NoDecl
      <4>1. \A l \in 2..n + 1 : l \in 2..n \/ l = n + 1
        BY <1>2
      <4>2. scopes'[n + 1][x] = NoDecl
        BY <2>3 DEF NoNames
      <4>3. \A l \in 2..n : scopes'[l] = scopes[l]
        BY <1>2, <2>3
      <4> QED
        BY <1>3, <2>3, <4>1, <4>2, <4>3
    <3>5. Len(nest) \in Int /\ op # "var"
      BY <1>2, <1>3
    <3> QED
      BY <2>1, <2>2, <3>1, <3>2, <3>3, <3>4, <3>5, BodyNamesKept
  <2>6. Len(scopes') > 1 /\ scopes'[1] = scopes[1] /\ Len(nest) \in Nat
    BY <1>2, <1>3, <2>2, <2>3
  <2>7. CASE phase' = "bodies"
    BY <1>6, <2>1, <2>5, <2>6, <2>7
  <2> QED
    BY <2>1, <2>7 DEF ScopesMean
\* an else or an end: the blocks from depth d on are closed
<1>9. ASSUME NEW op \in {"else", "end"}, NEW d \in Nat, d = k - 1,
             Appends(op, d, "", ""), Len(nest') >= d, phase' = phase,
             Len(scopes') \in {n - 1, n}, k > 0,
             \A l \in 1..n - 1 : scopes'[l] = scopes[l],
             Len(scopes') = n => scopes'[n] = NoNames
      PROVE  ScopesMean'
  <2>1. n = k + 2 /\ (\A x \in Names : BodyNames(x)) /\ phase = "bodies" /\ n \in Nat
    BY <1>2, <1>5, <1>9 DEF Appends
  <2>2. n = d + 3 /\ d \in Nat /\ n \in Nat /\ Len(nest') >= d
    <3>1. d = k - 1 /\ d \in Nat /\ Len(nest') >= d
      BY <1>9
    <3> QED
      BY <1>2, <2>1, <3>1
  <2>3. Len(scopes') \in {n - 1, n} /\ Len(nest') \in Nat
    BY <1>1, <1>9, LenProperties DEF SemaType
  <2>4. \A l \in 1..n - 1 : scopes'[l] = scopes[l]
    BY <1>9
  <2>5. ASSUME NEW x \in Names
        PROVE  BodyNames(x)'
    <3>1. \A p \in OpenVars(x) :
            /\ code[p].depth \in Nat
            /\ Stays(p, op, d) <=> d >= code[p].depth
      BY OpenVarsType DEF Stays
    <3>2. ASSUME NEW p \in OpenVars(x), Stays(p, op, d)
          PROVE  /\ code[p].depth <= Len(nest')
                 /\ scopes'[code[p].depth + 2][x] = scopes[code[p].depth + 2][x]
      <4>1. code[p].depth <= d /\ code[p].depth \in Nat
        BY <3>1, <3>2
      <4>2. code[p].depth + 2 \in 1..n - 1 /\ code[p].depth <= Len(nest')
        BY <2>2, <2>3, <4>1
      <4> QED
        BY <2>4, <4>2
    <3>3. scopes'[2][x] = scopes[2][x]
      <4>1. 2 \in 1..n - 1
        BY <2>2
      <4> QED
        BY <2>4, <4>1
    <3>4. \A l \in 2..Len(scopes') : scopes'[l][x] # NoDecl =>
            /\ l \in 2..n /\ scopes[l][x] # NoDecl
            /\ \A p \in OpenVars(x) : code[p].depth = l - 2 => Stays(p, op, d)
      <4>1. \A l \in 2..Len(scopes') : l \in 2..n - 1 \/ (l = n /\ Len(scopes') = n)
        BY <2>2, <2>3
      <4>2. Len(scopes') = n => scopes'[n][x] = NoDecl
        BY <1>9 DEF NoNames
      <4>3. \A l \in 2..n - 1 : l \in 2..n /\ l \in 1..n - 1 /\ l - 2 <= d
        BY <2>2
      <4> QED
        BY <2>4, <3>1, <4>1, <4>2, <4>3
    <3>5. op # "var" /\ d \in Int /\ n = Len(scopes)
      BY <1>3
    <3> QED
      BY <1>9, <2>1, <3>2, <3>3, <3>4, <3>5, BodyNamesKept
  <2>6. Len(scopes') > 1 /\ scopes'[1] = scopes[1]
    BY <2>2, <2>3, <2>4
  <2> QED
    BY <1>6, <1>9, <2>1, <2>5, <2>6
<1>10. CASE ElseStep
  <2>1. /\ Appends("else", k - 1, "", "") /\ phase' = phase /\ nest # <<>>
        /\ scopes' = [scopes EXCEPT ![n] = NoNames]
        /\ nest' = [nest EXCEPT ![k] = "else"]
    BY <1>3, <1>10 DEF ElseStep, Replace
  <2>2. k \in Nat \ {0} /\ n \in 1..n
    <3>1. k \in Nat \ {0}
      BY <1>2, <1>3, <1>4, <2>1, EmptySeq
    <3> QED
      BY <1>2, <3>1
  <2>3. NoNames \in Scope /\ "else" \in Nests
    BY <1>4, DeclFacts DEF Nests
  <2>4. /\ Len(scopes') = n /\ scopes'[n] = NoNames
        /\ \A l \in 1..n - 1 : scopes'[l] = scopes[l]
    <3>1. \A l \in 1..n - 1 : l \in 1..n /\ l # n
      BY <1>2
    <3>2. scopes' = [scopes EXCEPT ![n] = NoNames]
      BY <2>1
    <3>3. n \in 1..Len(scopes) /\ n = Len(scopes)
      BY <1>3, <2>2
    <3> QED
      BY <1>4, <2>3, <3>1, <3>2, <3>3, ExceptSeq
  <2>5. Len(nest') = k
    <3>1. k \in 1..Len(nest)
      BY <1>3, <2>2
    <3>2. nest' = [nest EXCEPT ![k] = "else"]
      BY <2>1
    <3> QED
      BY <1>3, <1>4, <2>3, <3>1, <3>2, ExceptSeq
  <2>6. k - 1 \in Nat /\ k >= k - 1 /\ k > 0
    BY <2>2
  <2>7. ASSUME NEW d, d = k - 1
        PROVE  ScopesMean'
    <3>1. d \in Nat /\ Len(nest') >= d /\ Appends("else", d, "", "")
      BY <2>1, <2>5, <2>6, <2>7
    <3> QED
      BY <1>9, <2>1, <2>4, <2>6, <2>7, <3>1
  <2> QED
    BY <2>7
<1>11. CASE EndStep
  <2>1. /\ Appends("end", k - 1, "", "") /\ phase' = phase /\ nest # <<>>
        /\ scopes' = SubSeq(scopes, 1, n - 1)
        /\ nest' = SubSeq(nest, 1, k - 1)
    BY <1>3, <1>11 DEF EndStep, Pop
  <2>2. k \in Nat \ {0}
    BY <1>2, <1>3, <1>4, <2>1, EmptySeq
  <2>3. scopes # <<>>
    BY DEF SemaType
  <2>4. Len(scopes') = n - 1 /\ \A l \in 1..n - 1 : scopes'[l] = scopes[l]
    BY <1>3, <1>4, <2>1, <2>3, Popped
  <2>5. Len(nest') = k - 1
    BY <1>3, <1>4, <2>1, Popped
  <2>6. k - 1 \in Nat /\ k > 0 /\ n - 1 # n
    BY <1>2, <2>2
  <2>7. ASSUME NEW d, d = k - 1
        PROVE  ScopesMean'
    <3>1. d \in Nat /\ Len(nest') >= d
      BY <2>5, <2>6, <2>7
    <3>2. Appends("end", d, "", "")
      BY <2>1, <2>7
    <3> QED
      BY <1>9, <2>1, <2>4, <2>6, <2>7, <3>1, <3>2
  <2> QED
    BY <2>7
<1>12. CASE VarStep
  <2>1. PICK y \in Names, spec \in {"int", "float"} :
          /\ Appends("var", Len(nest), y, spec)
          /\ \/ /\ Lookup(y) = NoDecl
                /\ phase' = "bodies"
                /\ scopes' = AddTop(Declaration("var", fn, Len(code) + 1, y, spec))
             \/ /\ phase' = "rejected"
                /\ UNCHANGED scopes
          /\ UNCHANGED nest
    BY <1>12 DEF VarStep
  <2>2. n = k + 2 /\ (\A x \in Names : BodyNames(x)) /\ InBody
    BY <1>5, <2>1 DEF Appends
  <2>3. CASE phase' = "rejected"
    BY <2>3 DEF ScopesMean
  <2>4. CASE /\ Lookup(y) = NoDecl
             /\ phase' = "bodies"
             /\ scopes' = AddTop(Declaration("var", fn, Len(code) + 1, y, spec))
    <3> DEFINE d == Declaration("var", fn, Len(code) + 1, y, spec)
    <3>1. d # NoDecl /\ d.name = y
      BY DEF NoDecl, Declaration
    <3>2. OpenVars(y) = {} /\ ParamsOf(fn, y) = {} /\ Named(y) = {}
      BY <2>2, <2>4, LookupMeans
    <3>3. \A l \in 2..n : scopes[l][y] = NoDecl
      BY <1>3, <2>2, <3>2 DEF BodyNames
    <3>4. n \in 2..n /\ n \in 1..n /\ scopes[n] \in Scope
      BY <1>2, <1>3, <1>4, <2>2, ElementOfSeq
    <3>5. scopes' = [scopes EXCEPT ![n] = Add(@, d)]
      BY <1>3, <2>4 DEF AddTop
    <3> HIDE DEF d
    <3>6. Add(scopes[n], d) = [scopes[n] EXCEPT ![y] = d]
      BY <3>1, <3>3, <3>4 DEF Add
    <3>7. scopes' = [scopes EXCEPT ![n] = [scopes[n] EXCEPT ![y] = d]]
      BY <3>5, <3>6
    <3>8. /\ Len(scopes') = n
          /\ \A l \in 1..n : l # n => scopes'[l] = scopes[l]
          /\ scopes'[n] = [scopes[n] EXCEPT ![y] = d]
      <4>1. Len(scopes') = n
        BY <1>3, <1>4, <3>7
      <4> QED
        BY <1>2, <3>4, <3>7, <4>1
    <3>9. scopes'[n][y] = d /\ \A x \in Names : x # y => scopes'[n][x] = scopes[n][x]
      BY <3>4, <3>8 DEF Scope
    <3>10. \A l \in 1..n : \A x \in Names : x # y => scopes'[l][x] = scopes[l][x]
      BY <3>8, <3>9
    <3>11. ASSUME NEW x \in Names, x # y
           PROVE  BodyNames(x)'
      <4>1. \A p \in OpenVars(x) :
              /\ code[p].depth \in Nat /\ code[p].depth <= k
              /\ Stays(p, "var", Len(nest))
        BY <1>3, <2>2, OpenVarsType DEF BodyNames, Stays
      <4>2. \A p \in OpenVars(x) : code[p].depth + 2 \in 1..n
        BY <1>2, <2>2, <4>1
      <4>3. \A p \in OpenVars(x) :
              /\ code[p].depth <= Len(nest')
              /\ scopes'[code[p].depth + 2][x] = scopes[code[p].depth + 2][x]
        BY <1>3, <2>1, <3>10, <3>11, <4>1, <4>2
      <4>4. scopes'[2][x] = scopes[2][x]
        BY <1>2, <2>2, <3>10, <3>11
      <4>5. \A l \in 2..Len(scopes') : l \in 2..Len(scopes) /\ scopes'[l][x] = scopes[l][x]
        <5>1. \A l \in 2..n : l \in 1..n
          BY <1>2
        <5> QED
          BY <1>3, <3>8, <3>10, <3>11, <5>1
      <4>6. Len(nest) \in Int /\ BodyNames(x) /\ Appends("var", Len(nest), y, spec)
        BY <1>2, <1>3, <2>1, <2>2
      <4> QED
        BY <3>11, <4>1, <4>3, <4>4, <4>5, <4>6, BodyNamesKept
    <3>12. BodyNames(y)'
      <4>1. OpenVars(y)' = {c + 1}
        BY <1>2, <1>3, <2>1, <3>2, OpenAppended
      <4>2. /\ ParamsOf(fn, y)' = {} /\ Named(y)' = {}
        BY <2>1, <3>2 DEF Appends, ParamsOf, Named
      <4>3. \A q : q = c + 1 => Var(q)' = d
        BY <1>3, <2>1, VarAppended DEF d
      <4>4. code'[c + 1].depth = k /\ nest' = nest
        BY <1>3, <2>1 DEF Appends
      <4>5. \A l \in 2..n : scopes'[l][y] # NoDecl => l = n
        BY <1>2, <3>3, <3>8
      <4>6. ASSUME NEW p \in OpenVars(y)'
            PROVE  /\ code'[p].depth <= Len(nest')
                   /\ scopes'[code'[p].depth + 2][y] = Var(p)'
                   /\ \A r \in OpenVars(y)' : p = r
        <5>1. p = c + 1
          BY <4>1, <4>6
        <5>2. code'[p].depth = k /\ k + 2 = n /\ Len(nest') = k
          BY <1>3, <2>2, <4>4, <5>1
        <5>3. Var(p)' = d
          BY <4>3, <5>1
        <5> QED
          BY <1>2, <3>9, <4>1, <5>1, <5>2, <5>3
      <4>7. ASSUME NEW l \in 2..Len(scopes'), scopes'[l][y] # NoDecl'
            PROVE  \E p \in OpenVars(y)' : code'[p].depth = l - 2
        <5>1. l = n
          BY <3>8, <4>5, <4>7 DEF NoDecl, Declaration
        <5> QED
          BY <1>2, <2>2, <4>1, <4>4, <5>1
      <4> QED
        BY <4>2, <4>6, <4>7 DEF BodyNames
    <3>13. Len(scopes') > 1 /\ scopes'[1] = scopes[1] /\ Len(nest) \in Nat
      BY <1>2, <1>3, <2>2, <3>8
    <3>14. \A x \in Names : BodyNames(x)'
      BY <3>11, <3>12
    <3> QED
      BY <1>6, <2>1, <2>4, <3>13, <3>14
  <2> QED
    BY <2>1, <2>3, <2>4
<1>13. ASSUME ~InBody, phase # "rejected"
       PROVE  /\ nest = <<>> /\ n = 1
              /\ Globals(IF phase = "signatures" THEN fn ELSE m + 1)
              /\ \A q \in 1..c : code[q].fn < fn
  BY <1>3, <1>13 DEF SemaType, ScopesMean
<1>14. CASE ResolveSignature
  <2>1. phase = "signatures" /\ fn \in 1..m /\ fn \in Nat /\ code = <<>>
    <3>1. phase = "signatures" /\ fn <= m /\ fn \in 1..m + 1
      BY <1>3, <1>4, <1>14 DEF ResolveSignature
    <3>2. code = <<>>
      BY <3>1 DEF SemaType
    <3> QED
      BY <1>2, <3>1, <3>2
  <2>2. ~InBody
    BY <2>1 DEF InBody
  <2>3. UNCHANGED <<functions, code, nest>>
    BY <1>14 DEF ResolveSignature
  <2>4. CASE phase' = "rejected"
    BY <2>4 DEF ScopesMean
  <2>5. CASE scopes' = AddTop(Function(fn)) /\ fn' = fn + 1 /\ phase' = phase
    <3> DEFINE y == functions[fn].name
    <3>1. y \in Names /\ Function(fn) # NoDecl /\ Function(fn).name = y
      BY <1>3, <1>4, <2>1, FunctionFacts, DeclFacts
    <3>2. n = 1 /\ Globals(fn)
      BY <1>13, <2>1, <2>2
    <3>3. scopes[1] \in Scope
      <4>1. 1 \in 1..Len(scopes)
        BY <1>3, <3>2
      <4> QED
        BY <1>4, <4>1, ElementOfSeq
    <3>4. scopes'[1] = Add(scopes[1], Function(fn))
      BY <1>2, <1>3, <2>5, <3>2 DEF AddTop
    <3>5. ASSUME NEW x \in Names
          PROVE  /\ Named(x) \in SUBSET Nat
                 /\ fn \in Named(x) <=> x = y
                 /\ \A f \in Named(x) : Function(f) # NoDecl
      BY <1>3, <1>4, <2>1, FunctionFacts, DeclFacts DEF Named
    <3>6. ASSUME NEW x \in Names, NEW z, z = fn + 1
          PROVE  LET after == {f \in Named(x) : f < z}
                 IN  scopes'[1][x] = IF after = {} THEN NoDecl ELSE Function(Min(after))
      <4> DEFINE before == {f \in Named(x) : f < fn}
                 after  == {f \in Named(x) : f < z}
      <4>1. scopes[1][x] = IF before = {} THEN NoDecl ELSE Function(Min(before))
        BY <3>2 DEF Globals
      <4>2. after = before \cup (IF x = y THEN {fn} ELSE {})
        <5>1. \A f \in Named(x) : f < z <=> (f < fn \/ f = fn)
          BY <2>1, <3>5, <3>6
        <5> QED
          BY <3>5, <5>1
      <4>3. before \in SUBSET Nat /\ after \in SUBSET Nat /\ \A f \in before : f < fn
        BY <3>5
      <4>4. CASE x # y
        <5>1. scopes'[1][x] = scopes[1][x]
          BY <3>1, <3>3, <3>4, <4>4 DEF Add, Scope
        <5> QED
          BY <4>1, <4>2, <4>4, <5>1
      <4>5. CASE x = y /\ before = {}
        <5>1. scopes'[1][x] = Function(fn)
          BY <3>1, <3>3, <3>4, <4>1, <4>5 DEF Add, Scope
        <5>2. Min(after) = fn
          BY <2>1, <4>2, <4>5, MinIs
        <5> QED
          BY <4>2, <4>5, <5>1, <5>2
      <4>6. CASE x = y /\ before # {}
        <5> HIDE DEF before, after
        <5>1. Min(before) \in before /\ \A f \in before : Min(before) <= f
          BY <4>3, <4>6, MinFacts
        <5>2. Min(before) \in after /\ Min(before) \in Nat
          BY <4>2, <4>3, <5>1
        <5>3. \A f \in after : Min(before) <= f
          BY <2>1, <4>2, <4>3, <5>1, <5>2
        <5>4. Min(after) = Min(before)
          BY <4>3, <5>2, <5>3, MinIs
        <5>5. Function(Min(before)) # NoDecl
          BY <3>5, <5>1 DEF before
        <5>6. scopes'[1][x] = scopes[1][x]
          BY <3>1, <3>3, <3>4, <4>1, <4>6, <5>5 DEF Add, Scope
        <5>7. after # {}
          BY <5>2
        <5> QED
          BY <4>1, <4>6, <5>4, <5>6, <5>7 DEF after
      <4> QED
        BY <4>4, <4>5, <4>6
    <3>7. NoDecl' = NoDecl /\ (\A x : Named(x)' = Named(x)) /\ \A f : Function(f)' = Function(f)
      BY <2>3, SameFunctions DEF NoDecl, Declaration
    <3>8. ASSUME NEW z, z = fn + 1
          PROVE  Globals(z)'
      BY <3>6, <3>7, <3>8 DEF Globals
    <3>9. phase' = "signatures" /\ Len(code') = 0 /\ ~InBody'
      BY <2>1, <2>3, <2>5, EmptySeq DEF InBody
    <3> QED
      BY <2>5, <3>8, <3>9 DEF ScopesMean
  <2> QED
    BY <1>14, <2>4, <2>5 DEF ResolveSignature
\* the steps that leave the global scope
<1>15. ASSUME functions' = functions, scopes'[1] = scopes[1], NEW z, Globals(z)
       PROVE  Globals(z)'
  BY <1>15, SameFunctions DEF Globals
<1>16. CASE SignaturesResolved
  <2>1. /\ phase = "signatures" /\ fn > m /\ phase' = "bodies" /\ fn' = 1
        /\ UNCHANGED <<functions, code, scopes, nest>> /\ code = <<>>
    BY <1>3, <1>16 DEF SignaturesResolved, SemaType
  <2>2. fn = m + 1
    BY <1>2, <1>4, <2>1
  <2>3. ~InBody
    BY <2>1 DEF InBody
  <2>4. n = 1 /\ Globals(fn)
    BY <1>13, <2>1, <2>3
  <2>5. ~InBody'
    BY <1>3, <2>1, <2>4 DEF InBody
  <2>6. \A z : z = m + 1 => Globals(z)'
    BY <1>15, <2>1, <2>2, <2>4
  <2> QED
    BY <1>3, <2>1, <2>5, <2>6, EmptySeq DEF ScopesMean
<1>17. CASE EnterBody
  <2>1. /\ phase = "bodies" /\ fn \in 1..m /\ ~InBody /\ scopes' = Append(scopes, ParamScope(fn))
        /\ UNCHANGED <<functions, phase, code, fn, nest>>
    BY <1>2, <1>3, <1>4, <1>17 DEF EnterBody
  <2>2. nest = <<>> /\ n = 1 /\ Globals(m + 1) /\ \A q \in 1..c : code[q].fn < fn
    BY <1>13, <2>1
  <2>3. Len(scopes') = 2 /\ scopes'[1] = scopes[1] /\ scopes'[2] = ParamScope(fn)
    <3>1. IsSeq(scopes)
      BY <1>4 DEF IsSeq
    <3>2. Len(scopes) = 1 /\ 1 \in 1..1
      BY <1>3, <2>2
    <3>3. /\ Len(Append(scopes, ParamScope(fn))) = 1 + 1
          /\ \A i \in 1..1 : Append(scopes, ParamScope(fn))[i] = scopes[i]
          /\ Append(scopes, ParamScope(fn))[1 + 1] = ParamScope(fn)
      <4>1. ASSUME NEW e
            PROVE  /\ Len(Append(scopes, e)) = Len(scopes) + 1
                   /\ \A i \in 1..Len(scopes) : Append(scopes, e)[i] = scopes[i]
                   /\ Append(scopes, e)[Len(scopes) + 1] = e
        BY <3>1, Appended
      <4> QED
        BY <3>2, <4>1
    <3> QED
      BY <2>1, <3>2, <3>3
  <2>4. ASSUME NEW x \in Names
        PROVE  BodyNames(x)'
    <3>1. OpenVars(x)' = {}
      <4>1. OpenVars(x)' = OpenVars(x)
        BY <2>1 DEF OpenVars
      <4>2. DOMAIN code = 1..c
        BY <1>3, SeqFacts DEF SemaType
      <4>3. \A q \in 1..c : code[q].fn # fn
        BY <2>1, <2>2, <1>2
      <4> QED
        BY <4>1, <4>2, <4>3 DEF OpenVars
    <3>2. ParamScope(fn)[x] =
            IF ParamsOf(fn, x) = {} THEN NoDecl ELSE Param(fn, Min(ParamsOf(fn, x)))
      BY <1>3, <1>4, <2>1, ParamScopeFacts
    <3>3. /\ ParamsOf(fn, x)' = ParamsOf(fn, x)
          /\ Param(fn, Min(ParamsOf(fn, x)))' = Param(fn, Min(ParamsOf(fn, x)))
          /\ NoDecl' = NoDecl
      BY <2>1 DEF ParamsOf, Param, Declaration, NoDecl
    <3>4. \A l \in 2..Len(scopes') : l = 2
      BY <2>3
    <3> QED
      BY <2>3, <3>1, <3>2, <3>3, <3>4 DEF BodyNames
  <2>5. \A z : z = m + 1 => Globals(z)'
    BY <1>15, <2>1, <2>2, <2>3
  <2>6. InBody' /\ phase' = "bodies"
    BY <2>1, <2>3 DEF InBody
  <2> QED
    BY <1>3, <2>1, <2>4, <2>5, <2>6 DEF ScopesMean
<1>18. CASE LeaveBody
  <2>1. /\ InBody /\ nest = <<>> /\ scopes' = SubSeq(scopes, 1, n - 1) /\ fn' = fn + 1
        /\ UNCHANGED <<functions, phase, code, nest>>
    BY <1>3, <1>18 DEF LeaveBody, Pop
  <2>2. n = 2 /\ Globals(m + 1) /\ phase = "bodies" /\ fn \in 1..m
    <3>1. n = k + 2 /\ Globals(m + 1) /\ phase = "bodies" /\ fn \in 1..m
      BY <1>5, <2>1
    <3>2. k = 0
      BY <1>3, <2>1, EmptySeq
    <3> QED
      BY <3>1, <3>2
  <2>3. Len(scopes') = 1 /\ scopes'[1] = scopes[1]
    <3>1. scopes # <<>>
      BY DEF SemaType
    <3>2. /\ Len(SubSeq(scopes, 1, Len(scopes) - 1)) = Len(scopes) - 1
          /\ \A i \in 1..Len(scopes) - 1 : SubSeq(scopes, 1, Len(scopes) - 1)[i] = scopes[i]
      BY <1>4, <3>1, Popped
    <3> QED
      BY <1>3, <2>1, <2>2, <3>2
  <2>4. \A q \in 1..c : code[q].fn < fn + 1
    <3>1. \A q \in 1..c : code[q].fn \in 1..fn
      BY <1>3 DEF SemaType, StatementOK
    <3> QED
      BY <2>2, <1>2, <3>1
  <2>5. \A z : z = m + 1 => Globals(z)'
    BY <1>15, <2>1, <2>2, <2>3
  <2>6. ~InBody' /\ phase' = "bodies"
    BY <2>1, <2>2, <2>3 DEF InBody
  <2> QED
    BY <1>3, <2>1, <2>4, <2>5, <2>6 DEF ScopesMean
<1>19. CASE Accept \/ LaterStep
  <2>1. /\ UNCHANGED <<functions, code, scopes, fn, nest>>
        /\ \/ phase' = phase
           \/ /\ ~InBody /\ phase \in {"bodies", "codegen"}
              /\ phase' \in {"codegen", "aborted", "generated"}
    <3>1. CASE Accept
      <4>1. fn > m /\ phase = "bodies" /\ phase' = "codegen"
            /\ UNCHANGED <<functions, code, scopes, fn, nest>>
        BY <1>3, <3>1 DEF Accept
      <4>2. ~InBody
        BY <1>2, <1>5, <4>1
      <4> QED
        BY <4>1, <4>2
    <3>2. CASE LaterStep
      BY <3>2 DEF LaterStep, InBody
    <3> QED
      BY <1>19, <3>1, <3>2
  <2>2. CASE phase' = phase
    <3>1. ASSUME NEW x, BodyNames(x)
          PROVE  BodyNames(x)'
      <4>1. /\ OpenVars(x)' = OpenVars(x) /\ ParamsOf(fn, x)' = ParamsOf(fn, x)
            /\ Named(x)' = Named(x) /\ NoDecl' = NoDecl
            /\ Param(fn, Min(ParamsOf(fn, x)))' = Param(fn, Min(ParamsOf(fn, x)))
        BY <2>1 DEF OpenVars, ParamsOf, Named, Param, Declaration, NoDecl
      <4>2. \A p : Var(p)' = Var(p)
        BY <2>1 DEF Var, Declaration
      <4> QED
        BY <2>1, <3>1, <4>1, <4>2 DEF BodyNames
    <3>2. \A z : Globals(z) => Globals(z)'
      BY <1>15, <2>1
    <3>3. InBody' = InBody
      BY <2>1, <2>2 DEF InBody
    <3> QED
      BY <2>1, <2>2, <3>1, <3>2, <3>3 DEF ScopesMean
  <2>3. CASE /\ ~InBody /\ phase \in {"bodies", "codegen"}
             /\ phase' \in {"codegen", "aborted", "generated"}
    <3>1. Globals(m + 1) /\ \A q \in 1..c : code[q].fn < fn
      BY <1>13, <2>3
    <3>2. \A z : z = m + 1 => Globals(z)'
      BY <1>15, <2>1, <3>1
    <3>3. ~InBody'
      BY <2>3 DEF InBody
    <3> QED
      BY <1>3, <2>1, <2>3, <3>1, <3>2, <3>3 DEF ScopesMean
  <2> QED
    BY <2>1, <2>2, <2>3
<1> QED
  BY <1>1, <1>7, <1>8, <1>10, <1>11, <1>12, <1>14, <1>16, <1>17, <1>18, <1>19 DEF Step

(* Names have lexical scope in the analysis of every program, however its blocks *)
(* nest: the stack of vectors that lookupDecl() searches from the back (sema.h)  *)
(* holds, for a name, the one variable whose block is open, or the first         *)
(* parameter, or the first function, and nothing else.                           *)
THEOREM LexicalScopingCorrect == Spec => []LexicalScoping
<1>1. Init => SemaType /\ ScopesMean
  BY SemaTypeInit, ScopesMeanInit
<1>2. SemaType /\ ScopesMean /\ [Next]_vars => (SemaType /\ ScopesMean)'
  BY SemaTypeStep, ScopesMeanStep
<1>3. ASSUME SemaType, ScopesMean, InBody
      PROVE  LexicalScoping
  <2>1. fn \in DOMAIN functions
    <3>1. Len(functions) \in Nat /\ DOMAIN functions = 1..Len(functions)
      BY <1>3, FunctionFacts DEF SemaType
    <3> QED
      BY <1>3, <3>1 DEF SemaType, InBody
  <2>2. ASSUME NEW x \in Names
        PROVE  /\ Cardinality(OpenVars(x)) <= 1
               /\ OpenVars(x) # {} => ParamsOf(fn, x) = {} /\ Named(x) = {}
    <3>1. BodyNames(x)
      BY <1>3 DEF ScopesMean, InBody
    <3>2. CASE OpenVars(x) = {}
      BY <3>2, FS_EmptySet
    <3>3. CASE OpenVars(x) # {}
      <4>1. PICK p : OpenVars(x) = {p}
        BY <3>1, <3>3 DEF BodyNames
      <4>2. Cardinality(OpenVars(x)) = 1
        BY <4>1, FS_Singleton
      <4> QED
        BY <3>1, <3>3, <4>2 DEF BodyNames
    <3> QED
      BY <3>2, <3>3
  <2>3. \A x \in Names : Lookup(x) = Meaning(x)
    BY <1>3, LookupMeans
  <2> QED
    BY <2>1, <2>2, <2>3 DEF LexicalScoping, Meaning
<1>4. SemaType /\ ScopesMean => LexicalScoping
  BY <1>3 DEF LexicalScoping
<1> QED
  BY <1>1, <1>2, <1>4, PTL DEF Spec
=============================================================================
