------------------------------ MODULE Codegen ------------------------------
(***************************************************************************)
(* Codegen (lib/codegen.cpp): one visit of the tree that builds LLVM IR,   *)
(* with a table of the named values that is cleared per function and knows *)
(* no scopes.                                                              *)
(*                                                                         *)
(* Of a value the type is kept, of a basic block the order of ordinary     *)
(* instructions and terminators.  What IRBuilder folds is kept, because a  *)
(* constant puts no instruction into a block.  The module has one symbol   *)
(* table for the program's functions, the strings that print and literals  *)
(* put there ("fmt", "str"), and the C library's printf.                   *)
(***************************************************************************)
EXTENDS Ast, SequencesExt

VARIABLES
  namedValues, \* NamedValues: per name, the argument or alloca, as its declaration
  module,      \* getNamedValue(): per name, the function that has it, Taken, or 0
  blocks,      \* the basic blocks of the current function
  insert,      \* the block of the insertion point
  open,        \* the visits of if and while under way, with the blocks they will need
  gen,         \* the function generated next, or the current one
  at           \* the statement visited next; 0 between functions

codegenVars == <<namedValues, module, blocks, insert, open, gen, at>>

(* GenerateType() *)
GenerateType(spec) ==
  CASE spec = "int"                 -> "i32"
    [] spec \in {"float", "number"} -> "double"
    [] spec = "string"              -> "ptr"
    [] spec = "void"                -> "void"

LlvmType(type) ==
  CASE type = "INT"    -> "i32"
    [] type = "FLOAT"  -> "double"
    [] type = "STRING" -> "ptr"
    [] type = "VOID"   -> "void"

ParamTypes(f) == [i \in DOMAIN functions[f].params |-> GenerateType(functions[f].params[i].spec)]

-----------------------------------------------------------------------------
(* lastValue after a visit: its type, "null" when it is nullptr; whether it   *)
(* is a constant; whether the visit put instructions into the block; whether  *)
(* one of them was built from operands, or calls a function, it must not.     *)
Value(type, const, emits, bad) ==
  [type |-> type, const |-> const, emits |-> emits, bad |-> bad]

(* In the module: a string, or under "printf" the C library's function *)
Taken == -1

(* getFunction() while an expression is visited; printf says whether a print *)
(* in it has declared printf by now, if that was not in the module before    *)
Callee(x, printf) ==
  CASE module[x] > 0 -> module[x]
    [] x = "printf" /\ module[x] <= 0 /\ (printf \/ module[x] = Taken) -> Taken
    [] OTHER -> 0

Arity(g)   == IF g = Taken THEN 1 ELSE Len(functions[g].params)
Formals(g) == IF g = Taken THEN <<"ptr">> ELSE ParamTypes(g)
Result(g)  == IF g = Taken THEN "i32" ELSE GenerateType(functions[g].spec)

(* visit(CallExpr) goes on to the arguments *)
Reaches(e, printf) ==
  LET g == Callee(e.name, printf) IN g # 0 /\ Len(e.args) = Arity(g)

(* Whether printf is declared when the parts in S have been visited: the first *)
(* of them that declares it is visited without it.                             *)
Declares(ask, S, printf) == printf \/ \E s \in S : "printf" \in ask[s][printf]

(* What has been visited before an argument *)
Sooner(args, i) == {args[j] : j \in 1..i - 1}

(* The names of its own that a visit of e puts into the module if they are free: *)
(* those of CreateGlobalString() and getOrInsertFunction()                       *)
AsksBy(ask, e, printf) ==
  LET args == UNION {ask[e.args[i]][Declares(ask, Sooner(e.args, i), printf)] :
                       i \in DOMAIN e.args}
  IN  CASE e.op = "literal" -> IF e.type = "STRING" THEN {"str"} ELSE {}
        [] e.op = "ref"     -> {}
        [] e.op = "print"   -> args \cup {"fmt", "printf"}
        [] e.op = "call"    -> IF Reaches(e, printf) THEN args ELSE {}
        [] e.op = "binary"  ->
             ask[e.left][printf] \cup ask[e.right][Declares(ask, {e.left}, printf)]
        [] e.op = "assign"  ->
             IF namedValues[e.name] = NoDecl THEN {} ELSE ask[e.value][printf]

asks[e \in Exprs] == [printf \in BOOLEAN |-> AsksBy(asks, e, printf)]

(* Variant: a float compared with an int is compared as it is. *)
BinaryValueNoCast(by, l, r) ==
  LET emits == l.emits \/ r.emits \/ ~(l.const /\ r.const)
      const == l.const /\ r.const
      bad   == l.bad \/ r.bad
  IN  IF "null" \in {l.type, r.type} \/ by \in Logical
        THEN Value("null", FALSE, l.emits \/ r.emits, bad)
      ELSE IF by \in Arithmetic THEN Value(l.type, const, emits, bad)
      ELSE Value("i32", const, emits, bad \/ (by = "<" /\ l.type = "double"))

(* visit(BinaryExpr): operands are made double if one is.  The result of "<" *)
(* on doubles is converted to double and then zero-extended, as if it were   *)
(* still an i1.  There is no case for the logical operators.                 *)
BinaryValue(by, l, r) ==
  LET double == "double" \in {l.type, r.type}
      emits  == l.emits \/ r.emits \/ ~(l.const /\ r.const)
      const  == l.const /\ r.const
      bad    == l.bad \/ r.bad
  IN  IF "null" \in {l.type, r.type} \/ by \in Logical
        THEN Value("null", FALSE, l.emits \/ r.emits, bad)
      ELSE IF by \in Arithmetic
        THEN Value(IF double THEN "double" ELSE "i32", const, emits, bad)
      ELSE Value("i32", const, emits, bad \/ (by = "<" /\ double))

(* print calls whatever function has the name printf, as if it were the library's. *)
UsersPrintf == "printf" \in Names /\ module["printf"] > 0

(* accept(), for every kind of expression, with the values val of its parts. *)
(* An argument without a value is not passed, and the call one short.        *)
ValueBy(val, e, printf) ==
  LET named == namedValues[e.name]
      g     == Callee(e.name, printf)
      arg   == [i \in DOMAIN e.args |->
                  val[e.args[i]][Declares(asks, Sooner(e.args, i), printf)]]
      types == [i \in DOMAIN e.args |-> arg[i].type]
      badArg == \E i \in DOMAIN e.args : arg[i].bad
      rhs   == val[e.value][printf]
      null(emits, bad) == Value("null", FALSE, emits, bad)
  IN  CASE e.op = "literal" -> Value(LlvmType(e.type), TRUE, FALSE, FALSE)
        [] e.op = "ref" ->
             IF named = NoDecl THEN null(FALSE, FALSE)
             ELSE Value(GenerateType(named.spec), FALSE, named.kind = "var", FALSE)
        [] e.op = "print" ->
             null(TRUE, UsersPrintf \/ badArg \/ \E i \in DOMAIN e.args : types[i] = "void")
        [] e.op = "call" ->
             IF Reaches(e, printf)
               THEN Value(Result(g), FALSE, TRUE, badArg \/ types # Formals(g))
               ELSE null(FALSE, FALSE)
        [] e.op = "binary" ->
             BinaryValue(e.by, val[e.left][printf],
                         val[e.right][Declares(asks, {e.left}, printf)])
        [] e.op = "assign" ->
             IF named = NoDecl THEN null(FALSE, FALSE)
             ELSE IF rhs.type = "null" THEN null(rhs.emits, rhs.bad)
             ELSE IF named.kind = "var"
               THEN [rhs EXCEPT !.emits = @ \/ rhs.type = GenerateType(named.spec)]
             ELSE Value(rhs.type, rhs.const, TRUE, TRUE)  \* cast<AllocaInst> of an argument

built[e \in Exprs] == [printf \in BOOLEAN |-> ValueBy(built, e, printf)]

(* The value of a statement's expression *)
value[e \in Exprs] == built[e][FALSE]

-----------------------------------------------------------------------------
Instr       == [op |-> "instr", to |-> {}]
Ret         == [op |-> "ret", to |-> {}]
Br(targets) == [op |-> "br", to |-> targets]

(* Append an item to the block b of bs; runs of instructions count once *)
Put(bs, b, item) ==
  IF item = Instr /\ bs[b] # <<>> /\ Last(bs[b]) = Instr THEN bs
  ELSE [bs EXCEPT ![b] = Append(@, item)]

PutIf(cond, bs, b, item) == IF cond THEN Put(bs, b, item) ELSE bs

(* getTerminator(): the last instruction, if it is a terminator *)
Terminated(bs, b) == bs[b] # <<>> /\ Last(bs[b]).op \in {"ret", "br"}

(* Variant: the branch is created whether or not the block is terminated. *)
BranchAlways(bs, b, target) == Put(bs, b, Br({target}))

(* if (!Builder->GetInsertBlock()->getTerminator()) Builder->CreateBr(target) *)
Branch(bs, b, target) == PutIf(~Terminated(bs, b), bs, b, Br({target}))

(* Variant: the last block is created, but not inserted into the function. *)
NewBlocksOneShort(n) == [i \in 1..n - 1 |-> <<>>]

(* BasicBlock::Create(), and insert() into the function *)
NewBlocks(n) == [i \in 1..n |-> <<>>]

-----------------------------------------------------------------------------
CodegenInit ==
  /\ namedValues = [x \in Names |-> NoDecl]
  /\ module = [x \in Names |-> 0]
  /\ blocks = <<>> /\ insert = 0 /\ open = <<>>
  /\ gen = 1 /\ at = 0

InvalidType == \E i \in DOMAIN functions[gen].params : functions[gen].params[i].spec = "void"

(* FunctionType::get() asserts that no parameter is void.  A build of LLVM     *)
(* without assertions goes on with the type that must not be.                  *)
AssertFunctionType ==
  /\ phase = "codegen" /\ at = 0 /\ gen <= Len(functions) /\ InvalidType
  /\ phase' = "aborted"
  /\ UNCHANGED <<functions, code, codegenVars>>

(* Variant: the name passes to the later of two functions. *)
CreatedLater(x) == [module EXCEPT ![x] = gen]

(* Function::Create() renames a function whose name the module has. *)
Created(x) == IF module[x] = 0 THEN [module EXCEPT ![x] = gen] ELSE module

(* visit(FunctionDecl), up to the body; of two parameters with one name the  *)
(* later stays.                                                              *)
StartFunction ==
  /\ phase = "codegen" /\ at = 0 /\ gen <= Len(functions)
  /\ at' = Cardinality({q \in DOMAIN code : code[q].fn < gen}) + 1
  /\ module' = Created(functions[gen].name)
  /\ namedValues' = [x \in Names |->
       LET named == {i \in DOMAIN functions[gen].params :
                       functions[gen].params[i].name = x}
       IN  IF named = {} THEN NoDecl
           ELSE Param(gen, CHOOSE i \in named : \A j \in named : j <= i)]
  /\ blocks' = << <<>> >> /\ insert' = 1 /\ open' = <<>>
  /\ UNCHANGED <<functions, phase, code, gen>>

Asked(e) == IF e = NoExpr THEN {} ELSE asks[e][FALSE]

(* The statement visited now, if the current function has one left, and what *)
(* its expression puts into the module; a string is renamed, not the name    *)
(* taken from a function, and getOrInsertFunction() takes what is there.     *)
Visiting(op) ==
  /\ phase = "codegen" /\ at \in DOMAIN code /\ code[at].fn = gen
  /\ code[at].op = op
  /\ module' = [x \in Names |-> IF module[x] = 0 /\ x \in Asked(code[at].expr)
                                 THEN Taken ELSE module[x]]
  /\ UNCHANGED <<functions, phase, code, gen>>

Generated(e) == IF e = NoExpr THEN Value("null", FALSE, FALSE, FALSE) ELSE value[e]

VisitExprStmt ==
  /\ Visiting("expr")
  /\ blocks' = PutIf(value[code[at].expr].emits, blocks, insert, Instr)
  /\ at' = at + 1 /\ UNCHANGED <<namedValues, insert, open>>

(* The alloca is an instruction; the initializer is visited after the name is known *)
VisitVariableDecl ==
  /\ Visiting("var")
  /\ namedValues' = [namedValues EXCEPT ![code[at].name] = Var(at)]
  /\ blocks' = Put(blocks, insert, Instr)
  /\ at' = at + 1 /\ UNCHANGED <<insert, open>>

(* A value that is missing is replaced by zero, one of a wrong type by undef *)
VisitReturnStmt ==
  /\ Visiting("return")
  /\ blocks' = Put(PutIf(Generated(code[at].expr).emits, blocks, insert, Instr),
                   insert, Ret)
  /\ at' = at + 1 /\ UNCHANGED <<namedValues, insert, open>>

Usable(v) == v.type \in {"i32", "double"}

(* visit(IfStmt): without a usable condition the blocks are not visited at all *)
VisitIfStmt ==
  /\ Visiting("if")
  /\ LET cond  == value[code[at].expr]
         after == PutIf(cond.emits, blocks, insert, Instr)
         then  == Len(blocks) + 1
         els   == Len(blocks) + 2
         merge == IF Elses(at) = {} THEN els ELSE els + 1
     IN  IF Usable(cond)
           THEN /\ blocks' = Put(PutIf(~cond.const, after, insert, Instr), insert,
                                 Br({then, els})) \o NewBlocks(merge - Len(blocks))
                /\ insert' = then
                /\ open' = Append(open, [els |-> els, next |-> merge, back |-> merge])
                /\ at' = at + 1
           ELSE /\ blocks' = after /\ at' = Match(at) + 1
                /\ UNCHANGED <<insert, open>>
  /\ UNCHANGED namedValues

(* Variant: the block before the else is not branched out of. *)
VisitElseOpen ==
  /\ Visiting("else")
  /\ insert' = Last(open).els
  /\ at' = at + 1 /\ UNCHANGED <<namedValues, open, blocks>>

VisitElse ==
  /\ Visiting("else")
  /\ blocks' = Branch(blocks, insert, Last(open).next)
  /\ insert' = Last(open).els
  /\ at' = at + 1 /\ UNCHANGED <<namedValues, open>>

(* visit(WhileStmt): without a usable condition the loop is left half built, *)
(* with the insertion point in its condition block                           *)
VisitWhileStmt ==
  /\ Visiting("while")
  /\ LET head  == Len(blocks) + 1
         enter == Append(Put(blocks, insert, Br({head})), <<>>)
         cond  == value[code[at].expr]
         after == PutIf(cond.emits, enter, head, Instr)
     IN  IF Usable(cond)
           THEN /\ blocks' = Put(PutIf(~cond.const, after, head, Instr), head,
                                 Br({head + 1, head + 2})) \o NewBlocks(2)
                /\ insert' = head + 1
                /\ open' = Append(open, [els |-> 0, next |-> head + 2, back |-> head])
                /\ at' = at + 1
           ELSE /\ blocks' = after /\ insert' = head
                /\ at' = Match(at) + 1 /\ UNCHANGED open
  /\ UNCHANGED namedValues

(* The end of an if branches on to its merge block, that of a while back *)
VisitEnd ==
  /\ Visiting("end")
  /\ blocks' = Branch(blocks, insert, Last(open).back)
  /\ insert' = Last(open).next
  /\ open' = Front(open)
  /\ at' = at + 1 /\ UNCHANGED namedValues

(* visit(FunctionDecl) after the body: the result of verifyFunction() is not *)
(* looked at; TheFPM->run() is not part of this module                       *)
FinishFunction ==
  /\ phase = "codegen" /\ at # 0
  /\ at \in DOMAIN code => code[at].fn # gen
  /\ blocks' = PutIf(functions[gen].spec = "void" /\ ~Terminated(blocks, insert),
                     blocks, insert, Ret)
  /\ gen' = gen + 1 /\ at' = 0
  /\ UNCHANGED <<functions, phase, code, namedValues, module, insert, open>>

Generate ==
  /\ phase = "codegen" /\ at = 0 /\ gen > Len(functions)
  /\ phase' = "generated"
  /\ UNCHANGED <<functions, code, codegenVars>>

CodegenNext ==
  \/ AssertFunctionType \/ StartFunction \/ VisitExprStmt \/ VisitVariableDecl \/ VisitReturnStmt
  \/ VisitIfStmt \/ VisitElse \/ VisitWhileStmt \/ VisitEnd
  \/ FinishFunction \/ Generate
=============================================================================
