----------------------------- MODULE MCParser -----------------------------
(***************************************************************************)
(* Token streams for model checking the parser: everything short, in each  *)
(* of the places where the parser is in another mood.                      *)
(***************************************************************************)
EXTENDS ParserProps

CONSTANTS MaxTop,     \* tokens before, between and behind functions
          MaxParams,  \* tokens in a parameter list
          MaxBody,    \* tokens in a body
          MaxBlock,   \* tokens in and behind a nested block
          MaxExpr,    \* tokens in an expression
          MaxArgs,    \* tokens in an argument list
          MaxChain    \* operators between operands

Upto(n, kinds) == UNION {[1..m -> kinds] : m \in 0..n}

Name   == <<"func", "identifier", "lpar">>
Result == <<"rpar", "colon", "cf_int", "lbrace">>
Header == Name \o Result
Close  == <<"rbrace">>

TopKinds   == {"func", "identifier", "lbrace", "rbrace", "semi"}
ParamKinds == {"identifier", "colon", "comma", "cf_int", "rpar", "number"}
BodyKinds  == {"identifier", "lpar", "rpar", "semi", "equal", "plus", "print",
               "cf_return", "cf_int", "cf_if", "rbrace", "unk"}
BlockKinds == {"identifier", "semi", "lbrace", "rbrace", "cf_else", "cf_if"}
ExprKinds  == {"identifier", "plus", "mul", "amp_amp", "lpar", "rpar", "equal"}
ArgKinds   == {"identifier", "comma", "rpar", "semi", "unk"}

Test(keyword) == <<keyword, "lpar", "number", "rpar", "lbrace">>

Chain(ops) == <<"number">> \o FlattenSeq([i \in DOMAIN ops |-> <<ops[i], "number">>])

MCSources ==
  {t \o Header \o Close \o u : t \in Upto(MaxTop, TopKinds), u \in Upto(MaxTop, TopKinds)}
  \cup {Name \o t \o Result \o Close : t \in Upto(MaxParams, ParamKinds)}
  \cup {Header \o t \o u \o Close :
          t \in Upto(MaxBody, BodyKinds), u \in {<<>>, <<"semi">>}}
  \cup {Header \o Test(k) \o t \o Close :
          k \in {"cf_if", "cf_while"}, t \in Upto(MaxBlock, BlockKinds)}
  \cup {Header \o t \o <<"semi">> \o Close : t \in Upto(MaxExpr, ExprKinds)}
  \cup {Header \o <<f, "lpar">> \o t \o <<"rpar", "semi">> \o Close :
          f \in {"print", "identifier"}, t \in Upto(MaxArgs, ArgKinds)}
  \cup {Header \o Chain(t) \o <<"semi">> \o Close : t \in Upto(MaxChain, Operator)}
=============================================================================
