------------------------------- MODULE Parser -------------------------------
(***************************************************************************)
(* Parser (include/parser.h, lib/parser.cpp): recursive descent over the   *)
(* kinds of the tokens, with one token of look-ahead and its recovery from *)
(* errors.                                                                 *)
(*                                                                         *)
(* The stack holds the parse...() calls under way; an action is the part   *)
(* of one of them between two calls.  Of a node it is kept which tokens    *)
(* stand in the tree for it, where it begins and whether it is a           *)
(* DeclRefExpr: what is dropped on an error is then missing in keeps.      *)
(***************************************************************************)
EXTENDS Integers, SequencesExt, FiniteSetsExt

CONSTANT Sources          \* token streams, without their eof

Atoms    == {"number", "string_literal", "cf_true", "cf_false"}
TypeName == {"identifier", "cf_int", "cf_float", "cf_void"}
Keyword  == {"func", "print", "cf_return", "cf_if", "cf_else", "cf_while"}
Operator == {"plus", "mul", "lessthan", "amp_amp", "pipe_pipe"}
Brackets == {"lpar", "rpar", "lbrace", "rbrace"}
Kinds    == Atoms \cup TypeName \cup Keyword \cup Operator \cup Brackets
              \cup {"colon", "semi", "comma", "equal", "unk"}

ASSUME SourcesAssumption == Sources \subseteq Seq(Kinds)

VARIABLES
  tokens,                 \* what the lexer will return
  pos,                    \* nextToken is tokens[pos], or eof
  stack,                  \* the calls under way, the innermost last
  ret,                    \* what the last of them returned
  diagnostics,            \* where errors were reported
  functions,              \* the tokens that the functions parsed so far stand for
  built                   \* the BinaryExprs created: operator and extent

vars == <<tokens, pos, stack, ret, diagnostics, functions, built>>

Kind(p) == IF p <= Len(tokens) THEN tokens[p] ELSE "eof"

(* getTokPrecedence() *)
Precedence(kind) ==
  CASE kind = "plus"      -> 10
    [] kind = "mul"       -> 20
    [] kind = "lessthan"  -> 5
    [] kind = "amp_amp"   -> 3
    [] kind = "pipe_pipe" -> 2
    [] OTHER              -> -1

-----------------------------------------------------------------------------
Node(first, ref, keeps) == [first |-> first, ref |-> ref, keeps |-> keeps]
Token  == Node(pos, FALSE, {pos})
Keeps(n, more) == Node(n.first, FALSE, n.keeps \cup more)

Frame(at, node, op, prec) == [at |-> at, node |-> node, op |-> op, prec |-> prec]
Plain(at, node) == Frame(at, node, 0, 0)

Returned(is, node) == [is |-> is, node |-> node]
Nothing == Returned("none", Node(0, FALSE, {}))

Top       == Last(stack)
In(at)    == stack # <<>> /\ Top.at = at /\ ret.is = "none"
Got(at)   == stack # <<>> /\ Top.at = at /\ ret.is = "node"
GotNull(at) == stack # <<>> /\ Top.at = at /\ ret.is = "null"

Become(frame)      == stack' = Append(Front(stack), frame) /\ ret' = Nothing
Call(frame, callee) == stack' = Front(stack) \o <<frame, callee>> /\ ret' = Nothing
Return(node)       == stack' = Front(stack) /\ ret' = Returned("node", node)
Null               == stack' = Front(stack) /\ ret' = Returned("null", Nothing.node)

(* Variant: the stream ends behind eof. *)
ToBeyond(p) == pos' = p

(* skipToken() until tokens[p] is next; behind eof there is only eof *)
To(p)     == pos' = IF p > Len(tokens) THEN Len(tokens) + 1 ELSE p
Skip(p)   == To(p) /\ UNCHANGED diagnostics
Error(p, q) == diagnostics' = diagnostics \cup {p} /\ To(q)

Tree == UNCHANGED <<tokens, functions, built>>

(* skipUntil() *)
Until(p, kinds) == Min({q \in p..Len(tokens) : tokens[q] \in kinds} \cup {Len(tokens) + 1})

(* Variant: the comma is not skipped. *)
PastCommaStands(p) == p

PastComma(p) == IF Kind(p) = "comma" THEN p + 1 ELSE p

(* How many of the expected tokens follow: a sequence of tests that each *)
(* report an error or skip their token                                   *)
Matched(p, expected) ==
  Max({n \in 0..Len(expected) : \A i \in 1..n : Kind(p + i - 1) \in expected[i]})

(* The call of a function that finds tokens[p] next, or just behind it *)
Calls(at, p) == Plain(at, Node(p, FALSE, {}))

Init ==
  /\ tokens \in Sources /\ pos = 1
  /\ stack = << Plain("Program", Nothing.node) >> /\ ret = Nothing
  /\ diagnostics = {} /\ functions = {} /\ built = {}

-----------------------------------------------------------------------------
Function  == << {"func"}, {"identifier"}, {"lpar"} >>
Parameter == << {"identifier"}, {"colon"}, TypeName >>
Signature == << {"colon"}, TypeName, {"lbrace"} >>

(* parseProgram() *)
Program ==
  \/ /\ In("Program") /\ Kind(pos) = "eof"
     /\ stack' = <<>> /\ UNCHANGED <<pos, ret, diagnostics>> /\ Tree
  \/ /\ In("Program") /\ Kind(pos) \notin {"eof", "func"}
     /\ Error(pos, Until(pos, {"func"}))
     /\ UNCHANGED <<stack, ret>> /\ Tree
  \/ /\ In("Program") /\ Kind(pos) = "func"
     /\ stack' = Append(stack, Calls("Function", pos)) /\ UNCHANGED ret
     /\ Skip(pos) /\ Tree
  \/ /\ Got("Program")
     /\ functions' = functions \cup ret.node.keeps
     /\ ret' = Nothing /\ UNCHANGED <<tokens, pos, stack, diagnostics, built>>
  \/ /\ GotNull("Program")
     /\ ret' = Nothing /\ Skip(Until(pos, {"func"}))
     /\ UNCHANGED stack /\ Tree

(* parseFunction(), up to the parameters *)
FunctionName ==
  /\ In("Function") /\ Tree
  /\ LET n == Matched(pos, Function)
     IN  IF n < 3 THEN Error(pos + n, pos + n) /\ Null
         ELSE Skip(pos + 3) /\ Become(Plain("Params", Keeps(Top.node, {pos, pos + 1})))

(* Its loop: a comma may follow each parameter, and need not *)
Params ==
  /\ In("Params") /\ Kind(pos) \notin {"rpar", "eof"} /\ Tree
  /\ LET n     == Matched(pos, Parameter)
         after == PastComma(IF n = 3 THEN pos + 3 ELSE Until(pos + n, {"comma", "rpar"}))
     IN  IF n = 3
           THEN Skip(after) /\ Become(Plain("Params", Keeps(Top.node, {pos, pos + 2})))
           ELSE Error(pos + n, after) /\ UNCHANGED <<stack, ret>>

(* The rest of it *)
Body ==
  \/ /\ In("Params") /\ Kind(pos) \in {"rpar", "eof"} /\ Tree
     /\ LET p == IF Kind(pos) = "rpar" THEN pos + 1 ELSE pos
            n == Matched(p, Signature)
        IN  IF n < 3 THEN Error(p + n, p + n) /\ Null
            ELSE /\ Skip(p + 3)
                 /\ Call(Plain("Body", Keeps(Top.node, {p + 1})),
                         Calls("Block", p + 2))
  \/ Got("Body") /\ Return(Keeps(Top.node, ret.node.keeps)) /\ Skip(pos) /\ Tree
  \/ GotNull("Body") /\ Null /\ Skip(pos) /\ Tree

(* parseBlock(), whose caller has seen the '{' *)
Block ==
  \/ In("Block") /\ Kind(pos) = "rbrace" /\ Return(Top.node) /\ Skip(pos + 1) /\ Tree
  \/ In("Block") /\ Kind(pos) = "eof" /\ Null /\ Error(Top.node.first, pos) /\ Tree
  \/ /\ In("Block") /\ Kind(pos) \notin {"rbrace", "eof"}
     /\ Call(Top, Calls("Stmt", pos)) /\ Skip(pos) /\ Tree
  \/ /\ Got("Block") /\ Become(Plain("Block", Keeps(Top.node, ret.node.keeps)))
     /\ Skip(pos) /\ Tree
  \/ /\ GotNull("Block") /\ Become(Top)
     /\ Skip(IF Kind(pos) = "rbrace" THEN pos ELSE pos + 1) /\ Tree

-----------------------------------------------------------------------------
(* Recovery of parseStmt(): on to the next ';' and over it, or to the next '}' *)
AfterBadStmt == LET q == Until(pos, {"semi", "rbrace"})
                IN  IF Kind(q) = "semi" THEN q + 1 ELSE q

(* Variant: a missing semicolon does not matter. *)
SemicolonOptional(node) ==
  IF Kind(pos) = "semi" THEN Return(node) /\ Skip(pos + 1)
                        ELSE Return(node) /\ Skip(pos)

(* The end of an expression statement or a declaration: whatever stands in *)
(* the place of the ';' is skipped                                         *)
Semicolon(node) ==
  IF Kind(pos) = "semi" THEN Return(node) /\ Skip(pos + 1)
                        ELSE Null /\ Error(pos, pos + 1)

(* parseStmt(), parseReturnStmt(), and parseVariableDecl() up to its '=' *)
Stmt ==
  /\ In("Stmt") /\ Tree
  /\ CASE Kind(pos) = "cf_return" ->
            IF Kind(pos + 1) = "semi" THEN Return(Token) /\ Skip(pos + 2)
            ELSE Skip(pos + 1) /\ Call(Plain("Return", Token), Calls("Expr", pos + 1))
       [] Kind(pos) \in {"cf_if", "cf_while"} ->
            IF Kind(pos + 1) # "lpar" THEN Error(pos + 1, pos + 1) /\ Null
            ELSE /\ Skip(pos + 2)
                 /\ Call(Frame("Condition", Token, pos, 0), Calls("Expr", pos + 2))
       [] Kind(pos) \in {"cf_int", "cf_float"} ->
            IF Kind(pos + 1) # "identifier" THEN Become(Plain("BadStmt", Token)) /\ Error(pos + 1, pos + 1)
            ELSE LET decl == Keeps(Token, {pos + 1})
                 IN  IF Kind(pos + 2) = "equal"
                       THEN /\ Skip(pos + 3)
                            /\ Call(Plain("Initializer", Keeps(decl, {pos + 2})),
                                    Calls("Expr", pos + 3))
                       ELSE Become(Plain("Declared", decl)) /\ Skip(pos + 2)
       [] OTHER -> Skip(pos) /\ Call(Calls("ExprStmt", pos), Calls("Expr", pos))

ReturnStmt ==
  \/ /\ Got("Return") /\ Tree
     /\ IF Kind(pos) = "semi" THEN Return(Keeps(Top.node, ret.node.keeps)) /\ Skip(pos + 1)
                              ELSE Null /\ Error(pos, pos)
  \/ GotNull("Return") /\ Null /\ Error(pos, pos) /\ Tree

ExprStmt ==
  \/ Got("ExprStmt") /\ Semicolon(ret.node) /\ Tree
  \/ GotNull("ExprStmt") /\ Null /\ Skip(AfterBadStmt) /\ Tree

VariableDecl ==
  \/ In("Declared") /\ Semicolon(Top.node) /\ Tree
  \/ Got("Initializer") /\ Semicolon(Keeps(Top.node, ret.node.keeps)) /\ Tree
  \/ GotNull("Initializer") /\ Become(Plain("BadStmt", Top.node)) /\ Error(pos, pos) /\ Tree
  \/ In("BadStmt") /\ Null /\ Skip(AfterBadStmt) /\ Tree

(* parseIfStmt() and parseWhileStmt(), after the condition *)
Condition ==
  \/ /\ Got("Condition") /\ Tree
     /\ LET n == Matched(pos, << {"rpar"}, {"lbrace"} >>)
            node == Keeps(Top.node, ret.node.keeps)
        IN  IF n < 2 THEN Error(pos + n, pos + n) /\ Null
            ELSE /\ Skip(pos + 2)
                 /\ Call(Frame("Then", node, Top.op, 0), Calls("Block", pos + 1))
  \/ GotNull("Condition") /\ Null /\ Error(pos, pos) /\ Tree

Branches ==
  \/ /\ Got("Then") /\ Tree
     /\ LET node == Keeps(Top.node, ret.node.keeps)
        IN  IF Kind(Top.op) = "cf_while" \/ Kind(pos) # "cf_else" THEN Return(node) /\ Skip(pos)
            ELSE IF Kind(pos + 1) # "lbrace" THEN Null /\ Error(pos + 1, pos + 1)
            ELSE /\ Skip(pos + 2)
                 /\ Call(Plain("Else", Keeps(node, {pos})), Calls("Block", pos + 1))
  \/ Got("Else") /\ Return(Keeps(Top.node, ret.node.keeps)) /\ Skip(pos) /\ Tree
  \/ (GotNull("Then") \/ GotNull("Else")) /\ Null /\ Skip(pos) /\ Tree

-----------------------------------------------------------------------------
(* parseExpr() *)
Expr ==
  \/ In("Expr") /\ Call(Plain("Lhs", Top.node), Plain("Primary", Top.node)) /\ Skip(pos) /\ Tree
  \/ /\ Got("Lhs") /\ Tree
     /\ IF ret.node.ref /\ Kind(pos) = "equal"
          THEN /\ Skip(pos + 1)
               /\ Call(Plain("Assign", Keeps(ret.node, {pos})), Calls("Expr", pos + 1))
          ELSE Become(Frame("Binary", ret.node, 0, 0)) /\ Skip(pos)
  \/ GotNull("Lhs") /\ Null /\ Skip(pos) /\ Tree
  \/ Got("Assign") /\ Return(Keeps(Top.node, ret.node.keeps)) /\ Skip(pos) /\ Tree
  \/ GotNull("Assign") /\ Null /\ Error(pos, pos) /\ Tree

(* Variant: the left operand is lost. *)
CombinedLosesLeft(lhs, op, rhs) == Keeps(rhs, {op})

(* The BinaryExpr of the operator at op *)
Combined(lhs, op, rhs) == Keeps(lhs, rhs.keeps \cup {op})

BindsTighter(prec, next) == prec < next

(* Variant: the right operand goes on with operators of the same level. *)
LevelItself(prec) == prec

(* tokPrec + 1: the level from which operators belong to the right operand *)
LevelAbove(prec) == prec + 1

(* parseBinaryExpr(prec, node) *)
Binary ==
  \/ /\ In("Binary") /\ Precedence(Kind(pos)) < Top.prec
     /\ Return(Top.node) /\ Skip(pos) /\ Tree
  \/ /\ In("Binary") /\ Precedence(Kind(pos)) >= Top.prec /\ Tree
     /\ Skip(pos + 1)
     /\ Call(Frame("Rhs", Top.node, pos, Top.prec), Calls("Primary", pos + 1))
  \/ /\ Got("Rhs") /\ BindsTighter(Precedence(Kind(Top.op)), Precedence(Kind(pos)))
     /\ Call(Frame("Tighter", Top.node, Top.op, Top.prec),
             Frame("Binary", ret.node, 0, LevelAbove(Precedence(Kind(Top.op)))))
     /\ Skip(pos) /\ Tree
  \/ /\ \/ Got("Rhs") /\ ~BindsTighter(Precedence(Kind(Top.op)), Precedence(Kind(pos)))
        \/ Got("Tighter")
     /\ built' = built \cup {[op |-> Top.op, first |-> Top.node.first, last |-> pos - 1]}
     /\ Become(Frame("Binary", Combined(Top.node, Top.op, ret.node), 0, Top.prec))
     /\ Skip(pos) /\ UNCHANGED <<tokens, functions>>
  \/ (GotNull("Rhs") \/ GotNull("Tighter")) /\ Null /\ Skip(pos) /\ Tree

(* parsePrimaryExpr(), and the other functions up to their first call *)
Primary ==
  /\ In("Primary") /\ Tree
  /\ CASE Kind(pos) \in Atoms -> Return(Token) /\ Skip(pos + 1)
       [] Kind(pos) = "lpar" ->
            Call(Calls("Paren", pos), Calls("Expr", pos + 1)) /\ Skip(pos + 1)
       [] Kind(pos) = "identifier" ->
            IF Kind(pos + 1) = "lpar" THEN Become(Frame("Args", Token, pos, 0)) /\ Skip(pos + 2)
            ELSE Return(Node(pos, TRUE, {pos})) /\ Skip(pos + 1)
       [] Kind(pos) = "print" ->
            IF Kind(pos + 1) = "lpar" THEN Become(Frame("Args", Token, pos, 0)) /\ Skip(pos + 2)
            ELSE Null /\ Error(pos + 1, pos + 1)
       [] OTHER -> Null /\ Error(pos, pos + 1)

(* parseParenExpr() *)
Paren ==
  \/ /\ Got("Paren") /\ Tree
     /\ IF Kind(pos) = "rpar" THEN Return([ret.node EXCEPT !.first = Top.node.first]) /\ Skip(pos + 1)
                              ELSE Null /\ Error(pos, pos)
  \/ GotNull("Paren") /\ Null /\ Skip(pos) /\ Tree

(* The loops of parseIdentifierExpr() and parsePrintExpr(); prec counts the arguments *)
Args ==
  \/ /\ In("Args") /\ Kind(pos) \notin {"rpar", "eof"}
     /\ Call(Top, Calls("Expr", pos)) /\ Skip(pos) /\ Tree
  \/ /\ Got("Args") /\ Tree
     /\ Become(Frame("Args", Keeps(Top.node, ret.node.keeps), Top.op, Top.prec + 1))
     /\ IF Kind(pos) \in {"comma", "rpar"} THEN Skip(PastComma(pos)) ELSE Error(pos, pos + 1)
  \/ /\ GotNull("Args") /\ Become(Top) /\ Tree
     /\ Skip(PastComma(Until(pos, {"comma", "rpar"})))

(* Their ends; print needs an argument *)
Arguments ==
  /\ In("Args") /\ Kind(pos) \in {"rpar", "eof"} /\ Tree
  /\ LET none == Kind(Top.op) = "print" /\ Top.prec = 0
     IN  /\ IF none THEN Null ELSE Return(Top.node)
         /\ To(pos + 1)
         /\ diagnostics' = IF none \/ Kind(pos) = "eof" THEN diagnostics \cup {Top.op}
                                                        ELSE diagnostics

Next ==
  \/ Program \/ FunctionName \/ Params \/ Body \/ Block \/ Stmt \/ ReturnStmt
  \/ ExprStmt \/ VariableDecl \/ Condition \/ Branches \/ Expr \/ Binary
  \/ Primary \/ Paren \/ Args \/ Arguments

Spec == Init /\ [][Next]_vars

(* parseProgram() is a plain call. *)
FairSpec == Spec /\ WF_vars(Next)
=============================================================================
