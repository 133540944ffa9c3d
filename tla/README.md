# A verification development for compile_language

The repository is a small ahead-of-time compiler in C++ on top of LLVM: `main()`
(`lib/compiler.cpp`) reads a file, parses it, analyses the tree, generates LLVM IR,
runs three function passes over each function and writes an object file. Everything is
sequential and in memory. What is hard in it is not concurrency but *protocols between
stages and between calls*: a lexer whose only link between two calls is one character, an
error-recovering parser, two passes over the tree that keep separate tables and must agree,
a visitor whose results travel through one field, and optimisation passes that delete
what they walk over.

## Inventory

| Component | State it keeps | Operations | What makes it correct |
|---|---|---|---|
| Lexer (`lexer.h`, `lexer.cpp`) | buffer, `idx`, `line`, `column`, `lastChar` | `getNextToken`, `debugPrintAllTokens` | no character lost or lexed twice, maximal munch, true positions, the stream ends |
| Parser (`parser.h`, `parser.cpp`) | lexer, one token of look-ahead, diagnostics | one `parse...` function per construct, `skipUntil` | terminates on every token stream, precedence and associativity, nothing dropped without a diagnostic |
| Syntax tree (`ast.h`) | nodes with optional resolved types | `accept`, `dump` | - |
| Semantic analysis (`sema.h`) | a stack of scopes, the current function | `resolve` and one function per node | lexical scope, one declaration per name, the types code generation relies on |
| Code generation (`codegen.h`, `codegen.cpp`) | module, insertion point, `NamedValues`, `lastValue` | one `visit` per node | values of the right type, the declarations the analysis meant, well-formed basic blocks |
| MyPass (`Mypass.cpp`) | worklist of pointers | `elim_dead_code`, `make_instruction_dead` | no dangling pointer, all and only dead instructions removed, terminates, honest report |
| MyPassBBmerge (`MyPassBBmerge.cpp`) | blocks to delete | `run` | only impossible paths are lost, phis keep their values, no pointer to a deleted block, honest report |
| SEPass (`SEPass.cpp`) | - | `run` | `x * 2^k = x << k` at the machine's width; not in the pipeline (`codegen.cpp:50`) |
| Driver (`compiler.cpp`, `codegen.cpp:116-132`, `:53-110`) | `Output.ll`, `output.o` | `main`, `generate`, `GenerateObjectFile` | stages in order, the exit status tells whether a whole object was written |

The stages interact by plain calls. The parser pulls tokens from the lexer one at a
time; the analysis walks the finished tree and leaves resolved types and declarations in it;
code generation walks it again, reads the types of literals only, and looks everything
else up by name in tables of its own; it runs the passes on each function as soon as
that is generated.

## Modules

```
Lexer  <- LexerProps <- MCLexer            TriviallyDead <- DeadCode <- MCDeadCode
                     <- LexerProofs                                  <- DeadCodeProofs
Ast <- Sema    <-\                         Cfg <- Paths
                  Frontend <- Driver           <- BlockMerge <- MCBlockMerge
    <- Codegen <-/                                           <- BlockMergeProofs
Frontend, MCPrograms <- MCFrontend         Parser <- ParserProps <- MCParser
Driver,   MCPrograms <- MCDriver                                 <- ParserProofs
Frontend <- SemaProofs <- FrontendProofs
Driver, FrontendProofs <- BlocksProofs
CommonFacts <- LexerProofs, ParserProofs, SemaProofs
```

`DeadCode` implements `TriviallyDead` and `BlockMerge` implements `Paths` by instantiation; everything else in the
picture is EXTENDS.

A definition whose comment begins "Variant:" is no part of a model. It is a slip of the
kind that could be made in the code, kept beside the definition it varies: substituting
it there must make the property it was written for fail.

### Lexer, LexerProps

`Lexer` is `getNextToken()` at the granularity of its reads. The fields are the record
`cur`; the local `c` is a variable of its own, because the code's loops test `c`, which is
mostly a copy of the field `lastChar`, and `getNextChar()` does not change `lastChar`
at the end of the buffer. `pc` says which loop the call is in; `start` is where `loc` was
taken; `tok` is the last token returned. A character is a string that stands for
its class ("a" and "_" for letters, "space" and "newline" for blanks, and so on); `EOF` is the byte 0xFF, which
is what `EOF` becomes as a `char`. The model assumes that `char` is signed, as on the
platforms the project builds for. A token's text is its extent in the buffer;
keywords are names here.

`LexerProps` states what the calls promise over the buffer alone: `PositionOK` counts
lines and columns from scratch; `NextLexeme` finds the next lexeme with an independent
recursive scan; `MaximalMunch` gives each token's extent by its class; `NoCharTwice` needs no
reference. `ReachesEof` is the liveness property.

Two oddities of the code are part of these statements. A 0xFF byte is the end of the file wherever the code compares a character with
`EOF`, so that it ends a comment, a literal or the file in the middle of the text (`CommentEnd`, `StringEnd`). And
`debugPrintAllTokens()` rewinds `idx`, `line` and `column` but not `lastChar`: when the first stream ended
at a 0xFF, the next call returns `eof` at once and the whole file is hidden. `NextLexeme` allows for exactly that (`stale`).
The call is commented out in `compiler.cpp:43`.

### TriviallyDead, DeadCode

`TriviallyDead` is the abstract specification of dead code elimination: an instruction
without side effects and without users may be removed, one at a time and in any order, and when none
is left the pass reports whether it removed any. `DeadCode` is `MyPass`: the scan with its
early-advanced iterator, the worklist, `make_instruction_dead()`. The functions are arbitrary
graphs of operands, with cycles (phis) and uses before definitions. `Drain` takes any element,
because `begin()` of a set of pointers is the lowest address. `Removal` says that `DeadCode` implements
`TriviallyDead`; the refinement mapping is the identity on `program`, `alive` and
`preserved`. `KeepsExactly` says what is left, as a greatest fixed point.

### Cfg, Paths, BlockMerge

`Cfg` is a function's control-flow graph as the passes get it: blocks in order, a terminator
for each, and one phi per block, which stands for all, because they name the same incoming blocks. `Paths` is the abstract
specification of simplification: code may only lose edges that a branch on a constant never takes, and loses all
of them before it reports. `BlockMerge` is `MyPassBBmerge::run()`: one action per turn of the loop over constant
conditions, of the merging loop and of the deletion. `removePredecessor()` is LLVM's: it drops an entry
and replaces a phi whose entries come to one value. The branch is still there when it is called, which is what makes the case of
two folded branches into one block interesting. Code keeps the name of the block it was in at first, so that the
refinement mapping reads the edges of `Paths` off `body` and `term` (`Flow`): moving code is a stutter, and
`KeepsPaths` says that nothing else happens than pruning. `PhisKept` is the same for values. `HonestAnswer` is the contract
of `PreservedAnalyses::all()`. `MergesEnough` says what one round achieves; it is deliberately not "no
mergeable branch is left", because in a chain a later block that has been merged itself may be left with one.
The content of `PhisKept` is in the folding loop: entries go by the code they came from, so that merging leaves them alone by their values, and
what it does to the block names in them is the subject of `merged_phi`; that is also the exception to `NoDangling`.

### Parser, ParserProps

`Parser` is a pushdown machine over the kinds of the tokens: `stack` holds the `parse...` calls under way, and
an action is the part of a function from one call of another to the next, so that guards are
the tests of the code between the two, and `pos` moves with each `skipToken()`. `ret` is what the
last call returned: `nullptr` or a node. `In`, `Got` and `GotNull` say where the innermost call is: at its
start or loop, or behind a call that returned a node or null. Calls whose result is returned
unchanged are replaced by the callee. `AfterBadStmt`, `PastComma` and the skips in `Block` and `Semicolon` are the recovery
as the code has it, with its mistakes: a missing ';' costs one token in `parseStmt()` and another in `parseBlock()`,
whatever they are, a '}' included.

Of a node the model keeps which tokens it stands for, where it begins, and whether it is a `DeclRefExpr`, which
decides about assignment. "plus", "mul" and "lessthan" stand for the operators of their precedence, "unk" for all
kinds that the parser has no place for.

`ParserProps` has the grammar, as a function from a symbol and a place to the places where such a phrase may end:
it knows nothing of look-ahead, precedence or recovery. It shows what the code accepts beyond the
obvious: a comma behind the last argument, parameters without commas between them, and `(x) = 1`.
`NothingDropped` and `PrecedenceOK` look at the nodes; `LinearTime` says that each action lowers `StepsLeft`, a measure of
the tokens that are left, the calls under way and the place of the innermost one.

### Ast, Sema, Codegen, Frontend

`Ast` is the tree between the two passes, as a sequence of statements in visiting order with
"else" and "end" as delimiters, each with what the analysis found: the
type of its expression and, per name, the declaration. Expressions are trees: `Forms` are their kinds, `Parts` their operands and arguments.
`TypeBy` and `ValueBy` are one visit of an expression by either pass, given what the visits of its parts have come to. `Sema` *reveals* the tree while it resolves
it: an action chooses a statement and appends it to `code`, so that every tree is covered whose resolution
gets that far, and a failed resolution ends the run as it ends the program. `Codegen`
then visits `code`. Of an LLVM value it keeps the type, whether it is a constant
(IRBuilder folds those and emits nothing), whether the visit emitted instructions
and whether one was built from unsuitable operands; of a basic block, the order of
instructions and terminators. `Frontend` composes them in the order of `main()`.

`module` is LLVM's symbol table of the module, as far as the program can ask for its names: per name, the function
that has it, `Taken`, or 0. Not only functions are in it. `print` puts its format string there as "fmt" and
declares "printf", a string literal is there as "str" (`codegen.cpp:242`, `:252`, `:309`). Whoever comes first has a
name: `Function::Create()` renames a later function (`Created`), `CreateGlobalString()` renames a later string, and
`getOrInsertFunction()` takes what it finds, a function of the program included. `asks` is what a visit of an
expression asks for, and `Visiting` enters it. Within one expression only a declaration of printf can change what
`getFunction()` finds (a string is no function either way), so that `built` is the value of an expression with
and without such a declaration ahead of it, and `value` that at the start of a statement. None of these names is excluded by an assumption.

A parameter of type void passes the parser and the analysis, and `FunctionType::get()` must not be given one. LLVM
built with assertions ends the process there (`AssertFunctionType`, phase "aborted"); built without, it goes on with an
invalid type, and so does `StartFunction`. Both are behaviours of the model; a reference to such a parameter is in `Unsupported`.

"+" stands for all arithmetic operators, ">" for all comparisons but "<", which the code
treats differently, and "&&" for both logical operators.

`Driver` puts `main()` around `Frontend`: reading the input, the analysis and its rejection, printing the module, looking up the target, opening and
emitting the object. Whether a file can be opened or written and whether LLVM knows the target is arbitrary. `ir` and `object` say what the two
files hold: what was there before, nothing, a part or the whole. `ExitStatus` relates the exit status to the object and to
the program; a program that is rejected or ends the process (`Abort`) leaves both files alone. `Output.ll` is not part of it, as `generate()` returns nothing when the file cannot be opened (`codegen.cpp:122`).

The properties of `Frontend` relate the two passes. `LexicalScoping`: the stack of scopes means what
lexical scope means. `NamesAgree`: a table without scopes comes to the same variable or parameter. `CalleesAgree`: so does the
module's symbol table for a function, and if not, either the function is generated later or an
earlier statement has a print or a string in it that took the name. `resolveParamDecl()` (`sema.h:391`) adds no parameter to a scope, so that two of one name
are accepted; `NamesAgree` says what comes of that: the analysis takes the first of them, code generation the last, and
every other name agrees. `ValuesAgree`: the types of the two passes coincide, except for
the cases that `Unsupported` lists; those are listed below. `BlocksWellFormed`: one terminator per block, for functions that keep to the
discipline that nothing follows a return in its block and the body of a
function with a result ends with one. `BlocksClosed` holds for all functions at every moment: whatever is emitted behind a
return, the insertion point leaves no block open.

## Runs

| Run | Checks | Bounds | Shows |
|---|---|---|---|
| `tokens` | `TypeOK PositionOK MaximalMunch NextLexeme NoCharTwice ReachesEof` | all buffers of up to 4 characters from 16, 0xFF included, and of 5 characters of comments and of literals, then a newline | tokens, literals and comments are delimited and placed right, and the stream of tokens ends |
| `dead_code` | `TypeOK NoDangling KeepsExactly Removal Terminates` | all functions of 4 instructions, at most 2 operands each, every set of side effects | the pass is safe, complete, ends and refines its abstract specification |
| `parser` | `TypeOK Language NothingDropped PrecedenceOK Terminates LinearTime` | every short run of tokens in each of seven contexts: up to 2 before and behind a function, 4 in a parameter list, 4 in a body, 4 in and behind a nested block, 5 in an expression, 4 in an argument list, 5 operators in a row | the parser ends, in a time linear in the tokens, accepts its grammar and nothing else without a report, loses nothing, and nests operators right |
| `merge` | `TypeOK NoDangling HonestAnswer PhisKept MergesEnough KeepsPaths` | every control-flow graph of 4 blocks, with a phi wherever control comes together, its values all different or two | but for phis, which may name an erased block (`merged_phi`), the pass is safe; it keeps paths and values, reports honestly and implements its abstract specification |
| `names` | `TypeOK LexicalScoping NamesAgree` | 2 names, two functions with up to 1 parameter or one function with up to 2, 4 statements in all | scopes and tables agree |
| `values` | `ValuesAgree CalleesAgree ExitStatus` | two families of programs, 2 statements each (`OwnQuestion` is the constraint that keeps them apart). One recursive function, with a parameter of type float or void or none, every kind of expression with every leaf in each place where types matter, in every kind of statement, which may follow a declaration or an expression. Up to two functions named f, fmt, str or printf, alike or not, f and printf also with a string parameter: strings, prints and calls by themselves, in an argument, and a print ahead of a call in one expression, as expression statements. Every stage and file may fail | types agree; a call reaches the function it was checked against, or one of the two reasons holds; the exit status is true |
| `blocks` | `BlocksWellFormed BlocksClosed` | one function, 4 statements, three kinds of condition | blocks are closed once |

Why these bounds are enough. The lexer's decisions look at no more than two characters and one
level of loop; four characters from all classes have every pair of neighbours within three tokens, and five hold an opened and closed comment with a
character inside or behind it, or a literal with an escape (the proofs below remove the bound for all but `ReachesEof`). The parser tests one token at a
time, and every error path of every function starts and is left within its context; five operators in a row have
every order of three levels twice, and in five tokens of an expression there are brackets on either side of an operator (proofs remove the bound for all but
`Terminates`). Four instructions hold a cycle with something that hangs on it, a chain that only the
worklist finishes, and an instruction queued ahead of and behind the scan. Four blocks hold a chain in either order of the list, a
diamond, a loop with an entry and an exit, two folded branches into one block, and code that cannot be reached (proofs remove this bound for all of
the properties of the two passes but termination). Four statements ("else" and "end" do
not count) hold two sibling blocks that declare one name and a use after them, a loop within
a branch, and a return on each side. One function with itself as callee has every relation between a
call and its callee but the order of definition, which the second family of `values`, and `early_call`, have; two functions and two statements
are enough for a name that is taken before, within or behind the function that has it, and for a print ahead of a call of
printf in one expression. Proofs remove these bounds for everything that `names`, `blocks` and `values` check.

Violations. Each of these runs checks one sentence that the code, a comment or a test
says, and TLC finds a behaviour of the code that breaks it.

| Run | Sentence | What the code does |
|---|---|---|
| `unterminated_literal` | `lexer.cpp:87`, "unterminated string literal" | the loop before the message does not end |
| `no_final_newline` | `parser.cpp:574`, loop until `eof`; `main.al` | without a final newline the last token is returned for ever |
| `early_call` | `sema.h:424`, first pass over signatures | calls of functions defined further down are dropped |
| `taken_name` | `codegen.cpp:261`, "Undefined function call" | a function whose name a string or a print took is renamed (`codegen.cpp:142`), and calls of it, its own included, are dropped as undefined |
| `merged_phi` | `MyPassBBmerge.cpp:33`, "Merge blocks connected by unconditional branches"; `:23` keeps phis in step | the phis behind a merged block go on naming it after it is erased |

What the passing runs of `Frontend` leave out, because the two passes really differ there:

* `Unsupported` lists what the analysis accepts and code generation has no right answer to:
  `&&` and `||` (`LogicalOp`: `sema.h:162` says that they work on integers, but `visit(BinaryExpr)` has no case for
  them, and their value is nullptr), calls of functions that are generated later (`EarlyCall`), a call of a function whose
  name a print or a string took (`LostCall`; with the name printf it calls the C library's), a print
  when the program has a function printf that was generated first (`LosesPrintf`, it calls that one), a
  reference to a parameter of type void (`VoidParameter`), "<" with a float operand (`codegen.cpp:379-381` makes the result a double and zero-extends
  that), assignment to a parameter (`codegen.cpp:474` casts the argument to an alloca), a function's name used
  as a variable, and an argument without a value (a void call or `print`).
* `ValuesAgree` speaks of functions whose parameters have different names; `NamesAgree` says what happens in the others.
* `Disciplined`: statements after a return are emitted behind the terminator of the same block (`codegen.cpp:163`;
  `test_dce.al` has such a function), and a function with a result may end without a return
  (`codegen.cpp:155` adds one to void functions only).

Deadlock is not checked in the runs of `Parser`, `DeadCode`, `BlockMerge`, `Frontend` and `Driver`: a parser or a pass that has
returned and a compiler that has finished or rejected the program do stop. The lexer can always be called again.

## Fairness

`FairSpec` of `Lexer`: `WF(Lex)`, as a call of `getNextToken()` runs to its
end with nothing else in between, and `WF(Call)` until `eof` was returned, as `parseProgram()` and
`debugPrintAllTokens()` loop until then. `FairSpec` of `Parser` and of `DeadCode`: `WF(Next)`, as
`parseProgram()` and `run()` are plain calls, and the token stream of the parser does come to `eof` (when it does not is the
subject of `tokens` and `no_final_newline`). `BlockMerge` (three loops over a finite list), `Frontend` and `Driver` have only safety properties.

## Proofs

TLAPS checks the following for every value of the constants: buffers, functions, control-flow graphs and programs of
any size. The only assumptions are those stated in the modules: `SourcesAssumption` (in `Lexer`, buffers are sequences of
characters; in `Parser`, token streams are sequences of kinds), `ProgramsAssumption` (operands are instructions of the function), `FunctionsAssumption` (a function is a
control-flow graph as LLVM's verifier wants it) and `NamesAssumption` (functions, parameters and types come from their
sets; a variable is declared `int` or `float`, as the parser allows nothing else) and `ExprsAssumption` (an expression
has one of the forms of `ast.h`, its parts are expressions, and it is a finite tree, because each node owns its parts by `unique_ptr`: `Height` is its
height).

`LexerProofs`

* `TypeCorrect`: `TypeOK` is inductive as it stands.
* `PositionCorrect`: the position of the cursor is preserved by one `Advance`
  (lemmas about counting newlines in a prefix that grows by one), and every action moves the cursor by
  none, one or two of them. The strengthening is that `start` has a true position as well, as a token takes its position from there.
* `NoCharTwiceCorrect`, for buffers that end in a blank: the strengthening relates the last
  token's end to the cursor, to `start` and to `lastChar` in each loop. Without the assumption it
  is false, which is the run `no_final_newline`.
* `MaximalMunchCorrect`, for such buffers as well: `Inside` says what each loop has gone past. In a literal that is: no quote or 0xFF
  that counts, where a place counts if an even number of backslashes precedes it (`Plain`); `PlainNext`
  relates that parity to the one or two characters that a turn of the loop takes.
* `NextLexemeCorrect`, for such buffers: `Seeking` says that the reference scan comes to the same lexeme from behind the last token as from the
  cursor or, in a comment or a token, from where that began, and what has been seen of a comment. The scan is a recursive function;
  that it exists follows from `GoesOnToEnd`, as `Skip` only goes forward. The special case is a cursor with nothing read, where
  an empty buffer and a 0xFF left by the rewind give `eof`.

`ParserProofs`

* `CallsFit`: `Shape` says which call may be made by which (`Waits`), where each began relative to its caller, and
  what the innermost one may find in `ret`. It is inductive by itself, and `TypeCorrect` follows.
* `ParsingIsLinear`: with `Shape`, each action lowers `StepsLeft`: a skipped token pays 21, enough for all the calls that
  are made and all the returns that are taken before the next is skipped. As a number cannot fall for ever, this is
  termination without a bound on the tokens; that step itself (fairness) is TLC's `Terminates`.
* `NothingIsDropped`, from `Keeping`: as long as there is no diagnostic, what the calls under way, the last result and the
  finished functions stand for are together the tokens already passed, punctuation apart.
* `PrecedenceIsRight`: `Open(q)` is the depth of brackets at q, counted from the start. `Text` says of each call and of the last result which of the
  operators at its depth lie in it and how strongly they bind, and that what a call has begun begins and ends at the same depth; `AllWeakest` says that every BinaryExpr
  built so far has as its operator the last of the weakest. The climbing in `parseBinaryExpr()`
  is right because a call at a level takes all operators of that level or above, and `Rhs` stops at a weaker or equal one.
* `LanguageIsAccepted`, from `Accepting` (with `Shape`, `Keeping` and `Text`), in both directions: no error for a program, and an error for
  everything else. The `Goal` of a call is the set of places where, by the grammar, what the call parses may be over; `Fit` leaves only those before a token
  that may stand behind it there. `Continues` says of a call that waits that its goal is what can be reached (`Rest`)
  from the goal of the call it waits for, and `Ahead` the same of the innermost call, from the next token. A
  token that one of the tests in the code takes leaves the goal as it is. Where the code reports an error the goal is empty, and then, through the calls that wait, so is
  that of the program (`NoGoal`); after that, recovery can do what it likes. `Refers` and `Mark` carry that an assignable thing is what the
  code has as a `DeclRefExpr`, brackets around it or not. There is one lemma (`...Accepts`) for each action. They rest on `GrammarIs`, that the function `ends` exists and
  satisfies its equations, as each phrase depends only on phrases that begin later or have a lower `Rank`, and on
  lemmas (`...Ends`) about what can begin with which kind of token: this is where one token of look-ahead is shown to be enough.

`CommonFacts` holds what several of these need: smallest and greatest elements, `Min` and `Max`, sequences and stacks, and that
functions defined by recursion exist: along a sequence (`GoesOnToEnd`) and over trees (`TreeRecursion`).

`DeadCodeProofs`

* `TypeCorrect`.
* `NoDanglingCorrect`: with the invariant that what is queued has no user
  left and is removable, so that nothing else can erase it or point to it.
* `KeepsExactlyCorrect`: nothing that must stay is ever dead, and when the
  worklist is empty and the scan is over what is left supports itself.
* `RemovalCorrect`: initial states map to initial states, each step to `Remove`, `Report`
  or a stutter. The invariant above is needed to show that at `Return` no dead instruction is left.

`BlockMergeProofs`

* `TypeCorrect`.
* `NoDanglingCorrect`, from `Shape`: a block that is not empty starts with its own code (`Heads`), code that has moved
  left its block empty (`Moved`), branches lead to blocks that are not empty (`Targets`), and what is to be
  erased is empty (`Erasable`). It is inductive only as a whole, because a merge moves code, targets and the mark at once.
* `HonestAnswerCorrect`, from `Untouched`: as long as nothing was reported, code and terminators are the function's.
* `KeepsPathsCorrect`: the refinement of `Paths`. `FlowInv` says that the first loop has folded the blocks it has passed and left the others alone, and that later just
  the edges that a constant rules out are gone; `MergeFlow` and `EraseFlow` show that merging and erasing leave the edges of `Paths` alone, and
  `SimplifyFlow` that folding takes away just the edge that the constant rules out.
* `PhisKeptCorrect`, from `PhiInv`: the values a phi still has are those it began with (`PhiValues`), it has entries only
  for edges that are left, and never a single one (`PhiEntries`), and only blocks with code have phis (`PhiBlocks`).
* `MergesEnoughCorrect`, from `LeftInv`: a pair that the merging loop has gone past and left has a first block that
  was merged itself.

`SemaProofs`, about the analysis as a part of `Frontend`

* `SemaTypeCorrect`: the types of everything that the analysis changes.
* `LexicalScopingCorrect`, from `ScopesMean`: the outermost scope holds the functions met so far, each name its
  first (`Globals`), and each further scope holds just the declarations of one block that is open, at
  that block's depth (`BodyNames`). It needs that a name is never declared in two open scopes, which is
  what the check in `resolveDeclStmt()` gives.

`FrontendProofs`, which relates the two passes

* The invariant `Tree` is about the finished tree: functions one after the other (`Sorted`), blocks nested (`Nested`, `Closed`), no
  variable with the name of a parameter or of an open variable (`Declared`, `Redeclared`), and
  each name resolved to a declaration that is still open (`ResolvedName`).
* The invariant `Generation` is about the tables: functions by name, unless the name was taken (`Callable`), arguments (`Arguments`), and for a variable that is still
  to be used its last visited declaration (`Visited`). That `NamedValues` has no scopes does no harm because,
  by `Redeclared`, the block of an earlier variable of the name was left before.
* `NamesAgreeCorrect` follows.
* `CalleesAgreeCorrect` needs `TookBefore` besides: for each taken name there is a statement, visited already and ahead of all functions
  of the name, with a print or a string in it that takes the name. It is preserved because a visit takes only free
  names, which by `Callable` means that no function of the name has been met, and because what a visit asks for comes from a print or a string within the
  expression (`AsksTake`).
* `ValuesAgreeCorrect`: `Typed` says that an analysis that was not rejected has given each function, parameter and expression
  a type. `Annotations` says what the declarations in the tree are, and that the type of a statement's expression is that of some typing
  of all expressions by their parts under those declarations (`Typing`): the analysis that made it is over when code
  generation reads it. `ValueStep` is the comparison of the two passes, one kind of expression after the other; `ExprInduction`,
  which is induction over the height of expressions for a given set of them, carries it to the whole expression. It is shown with and
  without printf declared ahead of the expression, as an argument is visited after those before it. `ResolvedTypeIs`, `AsksIs`, `BuiltIs` and
  `WithinIs` say that the four recursive functions involved satisfy their equations.

`BlocksProofs`

* `Levels`: the statements of a function open and close their blocks in balance, and an if has at most one else.
* `Building`: between functions, every block of the last one is closed; within one, every block is closed but the insertion point's and
  those that wait for an else or an end, each of which has its entry in `open`, at the place
  that belongs to its depth; all branches lead to blocks. The lemmas `Visit...Kept` show it for each kind
  of statement, on top of three cases: the insertion point stays (`VisitStays`), moves into a new block (`VisitOpens`) or
  comes back to a waiting one (`VisitResumes`).
* `BlocksClosedCorrect` is that invariant; `BlocksWellFormedCorrect` adds that a function under the discipline has emitted nothing behind a terminator;
  `FrontendTypeCorrect` needs `Tables` besides.
* `ExitStatusCorrect`: `MainInv` relates the status to the phase of the compilation and to the two files; `Typed` says why a program that was not rejected
  is one the analysis could give types to.

Every invariant and every action property of the passing runs is a theorem, as are the refinements of the two passes' abstract
specifications. Only model-checked: liveness (`ReachesEof`, `Terminates`), which is beyond the prover.

## Not modelled

Messages, dumps, token printing and token texts; numeric values of literals; the format strings of `print`;
what LLVM puts into the two files; LLVM's own passes and `verifyFunction()`, whose result the code ignores.
`SEPass` is not in the pipeline (`codegen.cpp:50` is a comment), and what it rewrites is one identity of machine
arithmetic rather than a behaviour with states. The parser and the passes behind it are not composed: `parseProgram()` always
returns a tree, and `Sema` covers all trees that the parser can build and more.

## Plan

Done, in this order: `Lexer` with proofs; `DeadCode` and its abstract specification, with proofs; `Sema`, `Codegen`
and `Frontend`; `Parser`; `BlockMerge` and its abstract specification, with proofs; `Driver`; proofs about both
passes over the tree, the basic blocks and the exit status; proofs about `Parser`, about which tokens the lexer finds, and about the types of values; the language that the parser accepts.

What is left, in the order of importance:

1. `Lexer` and `Parser` composed token by token, so that a lexer that never reaches `eof` shows in the parser as well.
2. `SEPass` over integers of a small width, if it enters the pipeline.
