---------------------------- MODULE MCPrograms ----------------------------
(***************************************************************************)
(* Programs and expressions for model checking analysis, code generation   *)
(* and the driver.                                                         *)
(***************************************************************************)
EXTENDS Ast, FiniteSetsExt

CONSTANTS MaxFunctions, MaxParams, FunctionNames, FunctionSpecs, ParamNames, ParamSpecs

MCParams ==
  UNION {[1..n -> [name : ParamNames, spec : ParamSpecs]] : n \in 0..MaxParams}

(* Parameters that share a name are tried in programs of one function *)
MCPrograms ==
  {p \in UNION {[1..n -> [name : FunctionNames, spec : FunctionSpecs, params : MCParams]] :
                   n \in 1..MaxFunctions} :
     Len(p) > 1 => \A f \in DOMAIN p : Len(p[f].params) <= 1}

Lit(t)  == [op |-> "literal", type |-> t]
IntLit     == Lit("INT")
FloatLit   == Lit("FLOAT")
StrLit     == Lit("STRING")
Ref(x)  == [op |-> "ref", name |-> x]
Refs    == {Ref("a"), Ref("f")}
Call(x, args) == [op |-> "call", name |-> x, args |-> args]
Pr(e)   == [op |-> "print", args |-> <<e>>]
Bin(by, l, r) == [op |-> "binary", by |-> by, left |-> l, right |-> r]
Assign(x, e) == [op |-> "assign", name |-> x, value |-> e]

Leaves  == {IntLit, FloatLit, StrLit} \cup Refs
Calls   == {Call("f", <<>>)} \cup {Call("f", <<e>>) : e \in {IntLit, FloatLit, Ref("a")}}
Simple  == Leaves \cup Calls
MCHeight ==
  [e \in Exprs |->
     LET height[s \in Exprs] ==
           IF Parts(s) = {} THEN 0 ELSE 1 + Max({height[p] : p \in Parts(s)})
     IN  height[e]]

Operands == Leaves \cup {Call("f", <<>>), Call("f", <<Ref("a")>>)}
Sums    == {Bin("+", l, FloatLit) : l \in Operands} \cup {Bin("+", IntLit, r) : r \in Operands}
Tests   == {Bin(by, l, r) : by \in {"<", ">"}, l \in {IntLit, FloatLit, Ref("a")},
                            r \in {IntLit, FloatLit}}
Mixed   == {Bin("+", FloatLit, Bin(">", l, FloatLit)) : l \in {IntLit, FloatLit, Ref("a")}}

(* For the questions about names: what a name means is asked of every name at *)
(* every expression, so that the expression need not refer to one             *)
NameExprs == {IntLit}

(* For the questions about values: each construct, with what differs in it *)
ValueExprs ==
  Simple \cup Sums \cup Tests \cup Mixed \cup {Bin("&&", Ref("a"), IntLit)}
  \cup {Pr(e) : e \in Operands \cup Mixed}
  \cup {Assign("a", e) : e \in Operands \cup Mixed}

(* For the questions about callees: functions with the names that code generation *)
(* has itself, alike or not; and what puts these names into the module, by itself, *)
(* in an argument of a call, or just ahead of it in the same expression            *)
CalleeNames == {"f", "fmt", "str", "printf"}
CalleePrograms ==
  LET text == <<[name |-> "a", spec |-> "string"]>>
  IN  UNION {[1..n -> [name : CalleeNames, spec : {"int"}, params : {<<>>}]
                      \cup [name : {"f", "printf"}, spec : {"int"}, params : {text}]] : n \in 1..2}
CalleeExprs ==
  {IntLit, StrLit, Pr(IntLit), Pr(Call("f", <<StrLit>>)),
   [op |-> "print", args |-> <<Pr(IntLit), Call("printf", <<StrLit>>)>>]}
  \cup {Call(x, args) : x \in CalleeNames, args \in {<<>>, <<StrLit>>}}

(* Both in one run: each program has the statements of its own question, where *)
(* values depend on what stands ahead, and callees on the expression only     *)
ValueAndCalleePrograms == MCPrograms \cup CalleePrograms
ValueAndCalleeExprs    == ValueExprs \cup CalleeExprs
OwnQuestion ==
  \A q \in DOMAIN code : code[q].op \notin {"else", "end"} =>
    IF functions \in MCPrograms
      THEN /\ code[q].expr \in ValueExprs \cup {NoExpr} /\ code[q].name \in {"a", "f", ""}
           /\ q > 1 => code[1].op \in {"var", "expr"}
      ELSE code[q].expr \in CalleeExprs /\ code[q].op = "expr"

(* For the questions about blocks: a constant, a condition that needs an *)
(* instruction, and one that gets no value                               *)
BlockExprs == {IntLit, Call("f", <<>>), Bin("&&", IntLit, IntLit)}

(* For what a comment says of one construct *)
CallExprs    == {Call(x, <<>>) : x \in Names}
TakenExprs   == CallExprs \cup {StrLit, Pr(StrLit)}
=============================================================================
