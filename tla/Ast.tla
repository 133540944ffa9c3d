-------------------------------- MODULE Ast --------------------------------
(***************************************************************************)
(* The syntax tree (include/ast.h) that semantic analysis annotates and    *)
(* code generation visits.                                                 *)
(*                                                                         *)
(* An expression is a record of the set Exprs, in one of the Forms below.  *)
(* Statements stand in code in the order in which both passes visit them;  *)
(* "else" and "end" delimit the blocks of "if" and "while".                *)
(***************************************************************************)
EXTENDS Integers, Sequences

CONSTANTS
  Names,       \* identifiers
  Exprs,       \* the expressions that programs are built from
  Height,      \* of the tree of an expression
  Programs,    \* what the functions of a program look like, without bodies
  VarSpecs,    \* types of local variables
  MaxStmts     \* bound: a program has at most so many statements

VARIABLES
  functions,   \* TopLevel: a sequence of [name, spec, params]
  phase,       \* how far main() has come with the program
  code         \* the statements of all bodies, with what the analysis found:
               \* the type of their expression and, per name, its declaration

Types == {"INT", "FLOAT", "STRING", "VOID"}
Specs == {"int", "float", "number", "string", "void", "other"}

Arithmetic == {"+"}
Comparison == {"<", ">"}
Logical    == {"&&"}

NoExpr == [op |-> "none"]

(* The expressions whose parts are taken from E *)
Forms(E) ==
  [op : {"literal"}, type : {"INT", "FLOAT", "STRING"}]
  \cup [op : {"ref"}, name : Names]
  \cup [op : {"print"}, args : Seq(E)]
  \cup [op : {"call"}, name : Names, args : Seq(E)]
  \cup [op : {"binary"}, by : Arithmetic \cup Comparison \cup Logical, left : E, right : E]
  \cup [op : {"assign"}, name : Names, value : E]

Parts(e) ==
  CASE e.op \in {"print", "call"} -> {e.args[i] : i \in DOMAIN e.args}
    [] e.op = "binary" -> {e.left, e.right}
    [] e.op = "assign" -> {e.value}
    [] OTHER -> {}

(* Each node owns its parts, so that the trees are finite *)
ASSUME ExprsAssumption ==
  /\ Exprs \subseteq Forms(Exprs)
  /\ Height \in [Exprs -> Nat]
  /\ \A e \in Exprs : \A s \in Parts(e) : Height[s] < Height[e]

ASSUME NamesAssumption ==
  /\ MaxStmts \in Nat
  /\ VarSpecs \subseteq {"int", "float"}     \* the parser allows no others
  /\ Programs \subseteq Seq([name : Names, spec : Specs,
                             params : Seq([name : Names, spec : Specs])])

-----------------------------------------------------------------------------
(* A declaration, identified by where it stands: function fn, its parameter  *)
(* pos, or the variable declared by the statement code[pos].                 *)
Declaration(kind, f, i, name, spec) ==
  [kind |-> kind, fn |-> f, pos |-> i, name |-> name, spec |-> spec]

NoDecl == Declaration("none", 0, 0, "", "other")

Function(f) == Declaration("fn", f, 0, functions[f].name, functions[f].spec)
Param(f, i) == Declaration("param", f, i, functions[f].params[i].name,
                           functions[f].params[i].spec)
Var(q)      == Declaration("var", code[q].fn, q, code[q].name, code[q].spec)

(* The end of the if or while that begins at code[q] *)
Match(q) ==
  CHOOSE r \in q + 1..Len(code) :
    /\ code[r].op = "end" /\ code[r].depth = code[q].depth
    /\ \A s \in q + 1..r - 1 : code[s].depth = code[q].depth => code[s].op # "end"

Elses(q) == {r \in q + 1..Match(q) : code[r].op = "else" /\ code[r].depth = code[q].depth}
=============================================================================
