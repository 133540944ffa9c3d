-------------------------------- MODULE Sema --------------------------------
(***************************************************************************)
(* SemanticAnalysis (include/sema.h): signatures first, then bodies, with  *)
(* a stack of scopes.                                                      *)
(*                                                                         *)
(* The tree is revealed as the analysis walks it: an action chooses the    *)
(* statement it resolves and appends it to code, so that every tree whose  *)
(* resolution gets that far is covered.                                    *)
(***************************************************************************)
EXTENDS Ast, FiniteSetsExt

VARIABLES
  scopes,      \* from the outermost in: in each, the declaration found for a name
  fn,          \* the function resolved next, or currentFunction
  nest         \* the if and while statements around the current statement

semaVars == <<functions, phase, code, scopes, fn, nest>>

NoNames == [x \in Names |-> NoDecl]

(* resolveType() *)
ResolveType(spec) ==
  CASE spec = "int"                 -> "INT"
    [] spec \in {"float", "number"} -> "FLOAT"
    [] spec = "string"              -> "STRING"
    [] spec = "void"                -> "VOID"
    [] spec = "other"               -> "error"

(* lookupDecl(): the innermost scope that has the name *)
Lookup(x) ==
  LET having == {l \in DOMAIN scopes : scopes[l][x] # NoDecl}
  IN  IF having = {} THEN NoDecl ELSE scopes[Max(having)][x]

(* emplace_back(): within a scope the first declaration of a name is found *)
Add(scope, d) ==
  IF scope[d.name] = NoDecl THEN [scope EXCEPT ![d.name] = d] ELSE scope

AddTop(d) == [scopes EXCEPT ![Len(scopes)] = Add(@, d)]

-----------------------------------------------------------------------------
(* resolveBinaryExpr() *)
BinaryType(by, l, r) ==
  CASE by \in Arithmetic /\ {l, r} \subseteq {"INT", "FLOAT"} ->
         IF "FLOAT" \in {l, r} THEN "FLOAT" ELSE "INT"
    [] by \in Comparison /\ {l, r} \subseteq {"INT", "FLOAT"} -> "INT"
    [] by \in Logical /\ {l, r} = {"INT"} -> "INT"
    [] OTHER -> "error"

(* What all names mean to the statement that is resolved *)
Means == [x \in Names |-> Lookup(x)]

(* resolveExpr(): resolvedType, or "error" when it returns false.  The types *)
(* of the parts are those of type.                                           *)
TypeBy(means, type, e) ==
  LET d    == means[e.name]
      args == [i \in DOMAIN e.args |-> type[e.args[i]]]
  IN  CASE e.op = "literal" -> e.type
        [] e.op = "ref"     -> ResolveType(d.spec)
        [] e.op = "print"   -> IF args # <<>> /\ \A i \in DOMAIN args : args[i] # "error"
                                 THEN "VOID" ELSE "error"
        [] e.op = "call"    ->
             IF /\ d.kind = "fn"
                /\ args = [i \in DOMAIN functions[d.fn].params |->
                             ResolveType(functions[d.fn].params[i].spec)]
               THEN ResolveType(d.spec) ELSE "error"
        [] e.op = "binary"  ->
             BinaryType(e.by, type[e.left], type[e.right])
        [] e.op = "assign"  ->
             IF d # NoDecl /\ type[e.value] = ResolveType(d.spec)
               THEN ResolveType(d.spec) ELSE "error"

resolvedType[e \in Exprs] == TypeBy(Means, resolvedType, e)

-----------------------------------------------------------------------------
SemaInit ==
  /\ functions \in Programs
  /\ phase = "signatures" /\ code = <<>>
  /\ scopes = <<NoNames>> /\ fn = 1 /\ nest = <<>>

(* resolveParamDecl(), which does not add the parameter to any scope *)
ParamOK(p) == ResolveType(p.spec) # "error" /\ Lookup(p.name) = NoDecl

(* resolveFunctionSignature(), then the function joins the global scope *)
ResolveSignature ==
  /\ phase = "signatures" /\ fn <= Len(functions)
  /\ IF /\ ResolveType(functions[fn].spec) # "error"
        /\ \A i \in DOMAIN functions[fn].params : ParamOK(functions[fn].params[i])
       THEN scopes' = AddTop(Function(fn)) /\ fn' = fn + 1 /\ UNCHANGED phase
       ELSE phase' = "rejected" /\ UNCHANGED <<scopes, fn>>
  /\ UNCHANGED <<functions, code, nest>>

SignaturesResolved ==
  /\ phase = "signatures" /\ fn > Len(functions)
  /\ phase' = "bodies" /\ fn' = 1
  /\ UNCHANGED <<functions, code, scopes, nest>>

(* A function's scope, with its parameters *)
ParamScope(f) ==
  LET add[i \in 0..Len(functions[f].params)] ==
        IF i = 0 THEN NoNames ELSE Add(add[i - 1], Param(f, i))
  IN  add[Len(functions[f].params)]

InBody == phase = "bodies" /\ Len(scopes) > 1

EnterBody ==
  /\ phase = "bodies" /\ fn <= Len(functions) /\ ~InBody
  /\ scopes' = Append(scopes, ParamScope(fn))
  /\ UNCHANGED <<functions, phase, code, fn, nest>>

-----------------------------------------------------------------------------
Statement(op, name, spec, e) ==
  [op |-> op, fn |-> fn, depth |-> Len(nest), name |-> name, spec |-> spec,
   expr |-> e, type |-> IF e = NoExpr THEN "VOID" ELSE resolvedType[e],
   res |-> Means]

(* "else" and "end" come with their statement and do not count *)
More == Cardinality({q \in DOMAIN code : code[q].op \notin {"else", "end"}}) < MaxStmts

(* Resolve a statement; a false return goes all the way up to resolve() *)
Resolve(op, name, spec, e, ok) ==
  /\ InBody /\ More
  /\ code' = Append(code, Statement(op, name, spec, e))
  /\ phase' = IF ok THEN "bodies" ELSE "rejected"
  /\ UNCHANGED <<functions, fn>>

(* Push a scope for a block, or put a fresh one in the place of the last *)
Push   == scopes' = Append(scopes, NoNames)
Pop    == scopes' = SubSeq(scopes, 1, Len(scopes) - 1)
Replace == scopes' = [scopes EXCEPT ![Len(scopes)] = NoNames]

ResolveExprStmt ==
  /\ \E e \in Exprs : Resolve("expr", "", "", e, resolvedType[e] # "error")
  /\ UNCHANGED <<scopes, nest>>

(* Variant: only the innermost scope is searched for the name. *)
ResolveVariableDeclHere ==
  /\ \E x \in Names, spec \in VarSpecs, e \in Exprs \cup {NoExpr} :
       LET ok == /\ scopes[Len(scopes)][x] = NoDecl
                 /\ e # NoExpr => resolvedType[e] = ResolveType(spec)
       IN  /\ Resolve("var", x, spec, e, ok)
           /\ scopes' = IF ok THEN AddTop(Declaration("var", fn, Len(code) + 1, x, spec))
                              ELSE scopes
  /\ UNCHANGED nest

ResolveVariableDecl ==
  /\ \E x \in Names, spec \in VarSpecs, e \in Exprs \cup {NoExpr} :
       LET ok == /\ Lookup(x) = NoDecl
                 /\ e # NoExpr => resolvedType[e] = ResolveType(spec)
       IN  /\ Resolve("var", x, spec, e, ok)
           /\ scopes' = IF ok THEN AddTop(Declaration("var", fn, Len(code) + 1, x, spec))
                              ELSE scopes
  /\ UNCHANGED nest

ResolveReturnStmt ==
  /\ \E e \in Exprs \cup {NoExpr} :
       Resolve("return", "", "", e,
               LET type == ResolveType(functions[fn].spec)
               IN  IF e = NoExpr THEN type = "VOID"
                                 ELSE type # "VOID" /\ resolvedType[e] = type)
  /\ UNCHANGED <<scopes, nest>>

(* resolveIfStmt() and resolveWhileStmt(), up to the call of resolveBody() *)
ResolveCondition ==
  /\ \E op \in {"if", "while"}, e \in Exprs :
       /\ Resolve(op, "", "", e, resolvedType[e] = "INT")
       /\ nest' = Append(nest, op)
  /\ Push

(* resolveIfStmt(), between the two blocks *)
ResolveElse ==
  /\ InBody /\ nest # <<>> /\ nest[Len(nest)] = "if"
  /\ nest' = [nest EXCEPT ![Len(nest)] = "else"]
  /\ code' = Append(code, [Statement("else", "", "", NoExpr) EXCEPT !.depth = @ - 1])
  /\ Replace
  /\ UNCHANGED <<functions, phase, fn>>

(* Variant: the scope of the block is not popped. *)
ResolveEndKeeps ==
  /\ InBody /\ nest # <<>>
  /\ nest' = SubSeq(nest, 1, Len(nest) - 1)
  /\ code' = Append(code, [Statement("end", "", "", NoExpr) EXCEPT !.depth = @ - 1])
  /\ UNCHANGED <<functions, phase, fn, scopes>>

ResolveEnd ==
  /\ InBody /\ nest # <<>>
  /\ nest' = SubSeq(nest, 1, Len(nest) - 1)
  /\ code' = Append(code, [Statement("end", "", "", NoExpr) EXCEPT !.depth = @ - 1])
  /\ Pop
  /\ UNCHANGED <<functions, phase, fn>>

LeaveBody ==
  /\ InBody /\ nest = <<>>
  /\ Pop /\ fn' = fn + 1
  /\ UNCHANGED <<functions, phase, code, nest>>

(* resolve() returns true *)
Accept ==
  /\ phase = "bodies" /\ fn > Len(functions)
  /\ phase' = "codegen"
  /\ UNCHANGED <<functions, code, scopes, fn, nest>>

SemaNext ==
  \/ ResolveSignature \/ SignaturesResolved \/ EnterBody
  \/ ResolveExprStmt \/ ResolveVariableDecl \/ ResolveReturnStmt
  \/ ResolveCondition \/ ResolveElse \/ ResolveEnd \/ LeaveBody \/ Accept
=============================================================================
