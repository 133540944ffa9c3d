------------------------------ MODULE Frontend ------------------------------
(***************************************************************************)
(* Semantic analysis and code generation one after the other, as main()    *)
(* runs them (lib/compiler.cpp), and what they have to agree on: which     *)
(* declaration a name means, which type an expression has, which function  *)
(* a call reaches.  Each keeps its own table, and nothing compares them.   *)
(***************************************************************************)
EXTENDS Sema, Codegen

vars == <<semaVars, codegenVars>>

Init == SemaInit /\ CodegenInit

Next ==
  \/ SemaNext /\ UNCHANGED codegenVars
  \/ CodegenNext /\ UNCHANGED <<scopes, fn, nest>>

Spec == Init /\ [][Next]_vars

-----------------------------------------------------------------------------
Decls == [kind : {"none", "fn", "param", "var"}, fn : Nat, pos : Nat,
          name : Names \cup {""}, spec : Specs]

(* Type invariant of both passes. *)
TypeOK ==
  /\ functions \in Programs
  /\ phase \in {"signatures", "bodies", "rejected", "codegen", "aborted", "generated"}
  /\ scopes \in Seq([Names -> Decls])
  /\ fn \in 1..Len(functions) + 1 /\ gen \in 1..Len(functions) + 1
  /\ nest \in Seq({"if", "else", "while"})
  /\ namedValues \in [Names -> Decls]
  /\ module \in [Names -> {Taken} \cup 0..Len(functions)]
  /\ insert \in 0..Len(blocks)
  /\ \A b \in DOMAIN blocks : \A i \in DOMAIN blocks[b] :
       blocks[b][i].op \in {"instr", "ret", "br"} /\ blocks[b][i].to \subseteq DOMAIN blocks
  /\ at \in 0..Len(code) + 1

-----------------------------------------------------------------------------
(* The variables of the current function named x whose block is still open *)
OpenVars(x) ==
  {q \in DOMAIN code :
     /\ code[q].op = "var" /\ code[q].fn = fn /\ code[q].name = x
     /\ \A r \in q + 1..Len(code) :
          code[r].op \in {"else", "end"} => code[r].depth >= code[q].depth}
ParamsOf(f, x) == {i \in DOMAIN functions[f].params : functions[f].params[i].name = x}
Named(x)       == {f \in DOMAIN functions : functions[f].name = x}

(* Names have lexical scope: inside a body the analysis finds the one variable  *)
(* of that name whose block is open, or else a parameter, or else a function.   *)
(* The blocks of an if do not see each other's variables, nothing outlives its  *)
(* block or function, and no variable hides another name.                       *)
LexicalScoping ==
  InBody =>
    /\ fn \in DOMAIN functions
    /\ \A x \in Names :
         /\ Cardinality(OpenVars(x)) <= 1
         /\ OpenVars(x) # {} => ParamsOf(fn, x) = {} /\ Named(x) = {}
         /\ Lookup(x) = CASE OpenVars(x) # {} -> Var(Max(OpenVars(x)))
                          [] OpenVars(x) = {} /\ ParamsOf(fn, x) # {} ->
                               Param(fn, Min(ParamsOf(fn, x)))
                          [] OpenVars(x) \cup ParamsOf(fn, x) = {} /\ Named(x) # {} ->
                               Function(Min(Named(x)))
                          [] OTHER -> NoDecl

-----------------------------------------------------------------------------
(* The statement that code generation visits now, if it has an expression *)
AtExpr ==
  /\ phase = "codegen" /\ at \in DOMAIN code /\ code[at].fn = gen
  /\ code[at].expr # NoExpr

(* Code generation uses, for every name that means a variable or a parameter, *)
(* the declaration that the analysis resolved it to, although its own table   *)
(* has no scopes and keeps the variables of blocks that are closed.  Only of  *)
(* parameters that share a name one takes the first, the other the last.      *)
NamesAgree ==
  AtExpr =>
    \A x \in Names :
      LET d == code[at].res[x]
      IN  /\ d.kind = "var" => namedValues[x] = d
          /\ d.kind = "param" => /\ d = Param(gen, Min(ParamsOf(gen, x)))
                                /\ namedValues[x] = Param(gen, Max(ParamsOf(gen, x)))

(* The expressions within e, itself included *)
Within[e \in Exprs] == {e} \cup UNION {Within[s] : s \in Parts(e)}

(* Code generation has names of its own. *)
Takes(s, x) ==
  \/ s.op = "print" /\ x \in {"fmt", "printf"}
  \/ s.op = "literal" /\ s.type = "STRING" /\ x = "str"

(* A call reaches the function that the analysis checked its arguments against, *)
(* also when functions share a name.  It fails to only if that function is      *)
(* generated later, or if an earlier statement, ahead of the function, has a    *)
(* print or a string in it that took the name.                                  *)
CalleesAgree ==
  AtExpr => \A x \in Names :
    LET d == code[at].res[x]
    IN  d.kind = "fn" =>
          \/ module[x] = d.fn
          \/ module[x] = 0 /\ d.fn > gen
          \/ /\ module[x] = Taken
             /\ \E q \in 1..at - 1 :
                  /\ code[q].fn < d.fn /\ code[q].expr # NoExpr
                  /\ \E s \in Within[code[q].expr] : Takes(s, x)

-----------------------------------------------------------------------------

LogicalOp(s) == s.op = "binary" /\ s.by \in Logical
LessOnFloat(s) ==
  s.op = "binary" /\ s.by = "<" /\ "double" \in {value[s.left].type, value[s.right].type}
EarlyCall(s) == s.op = "call" /\ module[s.name] = 0
LostCall(s)  == s.op = "call" /\ module[s.name] = Taken
Assigns(s, kind) == s.op = "assign" /\ code[at].res[s.name].kind = kind
FunctionAsValue(s) ==
  s.op \in {"ref", "assign"} /\ code[at].res[s.name].kind = "fn"
VoidArgument(s) ==
  s.op \in {"print", "call"} /\ \E i \in DOMAIN s.args : value[s.args[i]].type \in {"void", "null"}

VoidParameter(s) ==
  s.op = "ref" /\ LET d == code[at].res[s.name] IN d.kind = "param" /\ d.spec = "void"
LosesPrintf(s) == s.op = "print" /\ UsersPrintf

(* What the analysis accepts and code generation has no right answer to *)
Unsupported(e) ==
  \E s \in Within[e] :
    \/ LogicalOp(s) \/ LessOnFloat(s) \/ EarlyCall(s) \/ LostCall(s) \/ LosesPrintf(s)
    \/ Assigns(s, "param") \/ FunctionAsValue(s) \/ VoidArgument(s) \/ VoidParameter(s)

(* Outside the cases that Unsupported lists, every expression gets a value of *)
(* the LLVM type that corresponds to its resolved type (print has none), from *)
(* well-typed operands: no statement that uses one is dropped, no return      *)
(* value is replaced by zero or undef, no store is left out.                  *)
ValuesAgree ==
  AtExpr /\ (\A x \in Names : Cardinality(ParamsOf(gen, x)) <= 1) /\ ~Unsupported(code[at].expr) =>
    LET e == code[at].expr
    IN  /\ ~value[e].bad
        /\ value[e].type = IF e.op = "print" THEN "null" ELSE LlvmType(code[at].type)

-----------------------------------------------------------------------------
WellFormed(block) ==
  /\ block # <<>>
  /\ \A i \in DOMAIN block : block[i].op \in {"ret", "br"} <=> i = Len(block)

(* Nothing follows a return in its block, and the body of a function that is  *)
(* not void ends with one.                                                    *)
Disciplined(f) ==
  LET body == {q \in DOMAIN code : code[q].fn = f}
  IN  /\ \A q \in body : code[q].op = "return" /\ q + 1 \in body =>
                           code[q + 1].op \in {"else", "end"}
      /\ functions[f].spec # "void" =>
           body # {} /\ code[Max(body)].op = "return" /\ code[Max(body)].depth = 0

JustFinished == phase \in {"codegen", "generated"} /\ at = 0 /\ gen > 1

(* Every basic block of a disciplined function has exactly one terminator, at *)
(* its end, however ifs, whiles and returns nest and whichever conditions are *)
(* dropped: each insertion point that is left behind was closed.              *)
BlocksWellFormed ==
  JustFinished /\ Disciplined(gen - 1) => \A b \in DOMAIN blocks : WellFormed(blocks[b])

(* Statements after a return included, the insertion point leaves no block open: *)
(* any other block ends with a terminator, or waits empty for the end of the if  *)
(* or while that made it.                                                        *)
BlocksClosed ==
  \A b \in DOMAIN blocks :
    \/ b = insert \/ Terminated(blocks, b)
    \/ blocks[b] = <<>> /\ \E i \in DOMAIN open : b \in {open[i].els, open[i].next}

-----------------------------------------------------------------------------
(* Any function may call any other: the first pass resolves all signatures. *)
CallsReach == AtExpr => \A s \in Within[code[at].expr] : ~EarlyCall(s)

(* "Undefined function call" is said of functions that are undefined: a call of one *)
(* that is in the module by now, like a recursive one, reaches it.                  *)
DefinedCallsReach ==
  AtExpr => \A s \in Within[code[at].expr] :
    s.op = "call" /\ code[at].res[s.name].kind = "fn" /\ code[at].res[s.name].fn <= gen =>
      module[s.name] = code[at].res[s.name].fn
=============================================================================
