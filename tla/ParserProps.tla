---------------------------- MODULE ParserProps ----------------------------
(***************************************************************************)
(* What parseProgram() promises: the language it accepts, as a grammar     *)
(* that is read off none of its control, the shape of expressions, that    *)
(* nothing is dropped without a diagnostic, and that it comes to an end.   *)
(***************************************************************************)
EXTENDS Parser, FiniteSets

Labels == {"Program", "Function", "Params", "Body", "Block", "Stmt", "Return", "ExprStmt",
           "Declared", "Initializer", "BadStmt", "Condition", "Then", "Else", "Expr", "Lhs",
           "Assign", "Binary", "Rhs", "Tighter", "Primary", "Paren", "Args"}
Places == 1..Len(tokens) + 1
Nodes  == [first : 0..Len(tokens) + 1, ref : BOOLEAN, keeps : SUBSET (1..Len(tokens))]

(* Type invariant of the parser. *)
TypeOK ==
  /\ tokens \in Seq(Kinds) /\ pos \in Places
  /\ \A i \in DOMAIN stack :
       /\ stack[i].at \in Labels /\ stack[i].node \in Nodes
       /\ stack[i].op \in 0..Len(tokens) /\ stack[i].prec \in 0..Len(tokens) + 21
  /\ ret.is \in {"none", "null", "node"} /\ ret.node \in Nodes
  /\ diagnostics \subseteq Places
  /\ functions \subseteq 1..Len(tokens)
  /\ built \subseteq [op : 1..Len(tokens), first : 1..Len(tokens), last : 1..Len(tokens)]

Finished == stack = <<>>

-----------------------------------------------------------------------------
Symbols == {"program", "function", "params", "block", "stmts", "stmt", "expr", "target",
            "chain", "primary", "args"}

(* Where a phrase of the grammar that begins at i may end: *)
(*   program  = { function } <end>                         *)
(*   function = "func" identifier "(" params ")" ":" type block   *)
(*   params   = { identifier ":" type [ "," ] }            *)
(*   block    = "{" { stmt } "}"                           *)
(*   stmt     = expr ";" | "return" [ expr ] ";"           *)
(*            | ( "int" | "float" ) identifier [ "=" expr ] ";"   *)
(*            | "if" "(" expr ")" block [ "else" block ]   *)
(*            | "while" "(" expr ")" block                 *)
(*   expr     = target "=" expr | chain                    *)
(*   target   = identifier | "(" target ")"                *)
(*   chain    = primary { operator primary }               *)
(*   primary  = atom | identifier [ "(" [ args ] ")" ]     *)
(*            | "print" "(" args ")" | "(" expr ")"        *)
(*   args     = expr { "," expr } [ "," ]                  *)
ends[phrase \in Symbols \X Places] ==
  LET s == phrase[1]
      i == phrase[2]
      eat(S, kinds) == {p + 1 : p \in {q \in S : Kind(q) \in kinds}}
      seen(kinds)   == eat({i}, kinds)
      then(S, t)    == UNION {ends[<<t, p>>] : p \in S}
      here(t)       == ends[<<t, i>>]
      test(keyword) == eat(then(eat(seen({keyword}), {"lpar"}), "expr"), {"rpar"})
  IN CASE s = "program"  -> IF i > Len(tokens) THEN {i} ELSE then(here("function"), "program")
       [] s = "function" ->
            LET head == eat(eat(seen({"func"}), {"identifier"}), {"lpar"})
            IN  then(eat(eat(eat(then(head, "params"), {"rpar"}), {"colon"}), TypeName), "block")
       [] s = "params"   ->
            LET param == eat(eat(seen({"identifier"}), {"colon"}), TypeName)
            IN  {i} \cup then(param \cup eat(param, {"comma"}), "params")
       [] s = "block"    -> eat(then(seen({"lbrace"}), "stmts"), {"rbrace"})
       [] s = "stmts"    -> {i} \cup then(here("stmt"), "stmts")
       [] s = "stmt"     ->
            LET return == seen({"cf_return"})
                decl   == eat(seen({"cf_int", "cf_float"}), {"identifier"})
                if     == then(test("cf_if"), "block")
            IN  eat(here("expr") \cup return \cup then(return, "expr")
                      \cup decl \cup then(eat(decl, {"equal"}), "expr"), {"semi"})
                \cup if \cup then(eat(if, {"cf_else"}) \cup test("cf_while"), "block")
       [] s = "expr"     -> then(eat(here("target"), {"equal"}), "expr") \cup here("chain")
       [] s = "target"   -> seen({"identifier"})
                              \cup eat(then(seen({"lpar"}), "target"), {"rpar"})
       [] s = "chain"    -> LET first == here("primary")
                            IN  first \cup then(eat(first, Operator), "chain")
       [] s = "primary"  ->
            LET call  == eat(seen({"identifier"}), {"lpar"})
                print == eat(seen({"print"}), {"lpar"})
            IN  seen(Atoms \cup {"identifier"})
                \cup eat(call \cup then(call \cup print, "args")
                           \cup then(seen({"lpar"}), "expr"), {"rpar"})
       [] s = "args"     ->
            LET first == here("expr")
                comma == eat(first, {"comma"})
            IN  first \cup comma \cup then(comma, "args")

(* The parser accepts exactly the language of the grammar: it reports an error *)
(* for every stream outside it and none for a stream in it.  Look-ahead by one *)
(* token, recovery and the loops over lists must not let anything else through.*)
Language ==
  Finished => (diagnostics = {} <=> Len(tokens) + 1 \in ends[<<"program", 1>>])

(* What has no diagnostic has no loss either: every token that is not mere *)
(* punctuation stands in the tree of some function.                        *)
NothingDropped ==
  Finished /\ diagnostics = {} =>
    functions = {p \in 1..Len(tokens) :
                   tokens[p] \notin Brackets \cup {"colon", "semi", "comma"}}

-----------------------------------------------------------------------------
(* The brackets that are open at q, of those from p on *)
Depth(p, q) ==
  Cardinality({i \in p..q - 1 : tokens[i] = "lpar"})
    - Cardinality({i \in p..q : tokens[i] = "rpar"})

(* Operators bind by precedence and to the left: the operator of a BinaryExpr *)
(* is the last among the weakest in its extent that are outside brackets.     *)
PrecedenceOK ==
  diagnostics = {} =>
    \A b \in built :
      /\ Depth(b.first, b.op) = 0
      /\ \A q \in b.first..b.last :
           tokens[q] \in Operator /\ Depth(b.first, q) = 0 =>
             /\ Precedence(tokens[q]) >= Precedence(tokens[b.op])
             /\ q > b.op => Precedence(tokens[q]) > Precedence(tokens[b.op])

(* How many actions may be left: so many for each token, for each call under *)
(* way, and for what the innermost call does before it needs another token.   *)
Starting(at, next) ==
  CASE at = "Block" -> IF next \in {"rbrace", "eof"} THEN 0 ELSE 15
    [] at = "Args"  -> IF next \in {"rpar", "eof"} THEN 2 ELSE 10
    [] at = "Stmt"  -> 10
    [] at \in {"Expr", "Program"} -> 5
    [] at = "Params" -> 3
    [] OTHER -> 0
Returning(at) ==
  CASE at = "Block" -> 16
    [] at \in {"Then", "Else"} -> 13
    [] at = "Program" -> 6
    [] at = "Rhs" -> 5
    [] at \in {"Body", "Args"} -> 3
    [] at \in {"Lhs", "Tighter"} -> 1
    [] OTHER -> 0
Failing(at) ==
  CASE at = "Program" -> 6
    [] at \in {"Body", "Args"} -> 3
    [] at \in {"Block", "Initializer"} -> 1
    [] OTHER -> 0

Cost(p, depth, at, is) ==
  21 * (Len(tokens) + 1 - p) + 4 * depth
    + CASE is = "none" -> Starting(at, Kind(p))
        [] is = "node" -> Returning(at)
        [] is = "null" -> Failing(at)

StepsLeft == IF stack = <<>> THEN 0 ELSE Cost(pos, Len(stack), Top.at, ret.is)

(* No way round a loop of the parser, those of the recovery included, comes back  *)
(* without a token less: the work that is left shrinks with every action, and     *)
(* what a parse costs is linear in the number of tokens, errors or not.           *)
LinearTime == [][StepsLeft' < StepsLeft]_vars

(* parseProgram() returns, whatever the tokens are: every way round each of its *)
(* loops, those of the recovery included, consumes a token.                     *)
Terminates == <>Finished
=============================================================================
