----------------------------- MODULE LexerProps -----------------------------
(***************************************************************************)
(* What getNextToken() promises, stated over the buffer alone: where the   *)
(* next lexeme begins, where it ends, where it is reported to be, and that *)
(* every call comes back.                                                  *)
(***************************************************************************)
EXTENDS Lexer, FiniteSets, FiniteSetsExt

Cursor == [idx : 0..Len(buffer), line : Nat, column : Nat, lastChar : Chars]

(* Type invariant of the lexer's fields and of getNextToken()'s locals. *)
TypeOK ==
  /\ buffer \in Seq(Chars)
  /\ cur \in Cursor /\ start \in Cursor
  /\ pc \in {"idle", "skip", "line", "block", "dquote", "squote", "word", "number"}
  /\ c \in Chars
  /\ tok \in [kind : Kinds, line : Nat, column : Nat, first : Nat, last : Int]

-----------------------------------------------------------------------------
(* The line and the column of every token, which all diagnostics print, are *)
(* those of its first character: line counts the newlines before it from 0, *)
(* column its place on that line from 1, whatever comments, escapes and     *)
(* two-character look-ahead were consumed on the way and after a Reset.     *)
Position(text, idx, line, column) ==
  /\ line = Cardinality({i \in 1..idx : text[i] = "newline"})
  /\ \E s \in 0..idx :
       /\ column = idx - s
       /\ s = 0 \/ text[s] = "newline"
       /\ \A i \in s + 1..idx : text[i] # "newline"

PositionOK ==
  /\ Position(buffer, cur.idx, cur.line, cur.column)
  /\ tok.kind \notin {"none", "eof"} =>
       Position(buffer, tok.first, tok.line, tok.column)

-----------------------------------------------------------------------------
Starts(text, i, what) ==
  /\ i + Len(what) - 1 <= Len(text)
  /\ \A k \in 1..Len(what) : text[i + k - 1] = what[k]

IsLineComment(text, i)  == Starts(text, i, <<"#">>) \/ Starts(text, i, <<"/", "/">>)
IsBlockComment(text, i) == Starts(text, i, <<"/", "*">>)

(* The last character of a comment that starts at i: it ends before a 0xFF byte, *)
(* and at the end of the text                                                    *)
Ends(text, i, j) ==
  \/ j = Len(text)
  \/ j < Len(text) /\ text[j + 1] = EOF
  \/ IF IsBlockComment(text, i) THEN i + 3 <= j /\ Starts(text, j - 1, <<"*", "/">>)
                                ELSE text[j] = "newline"
CommentEnd(text, i) == Min({j \in i..Len(text) : Ends(text, i, j)})

(* Where to go on from i: behind a blank, behind a comment, or not at all *)
Skip(text, i) ==
  CASE i > Len(text) -> i
    [] i <= Len(text) /\ text[i] \in Whitespace -> i + 1
    [] IsLineComment(text, i) \/ IsBlockComment(text, i) -> CommentEnd(text, i) + 1
    [] OTHER -> i

(* The first character at or after i that is neither blank nor comment *)
NextSolid(text, i) ==
  LET f[k \in 1..Len(text) + 1] == IF Skip(text, k) = k THEN k ELSE f[Skip(text, k)]
  IN  f[i]

(* No character is lexed twice and none is lost: the next token begins at the *)
(* first character after the last one that is neither blank nor in a comment, *)
(* and eof is returned exactly when no such character is left or it is 0xFF - *)
(* or when Reset has left a 0xFF in lastChar, which hides the whole file.     *)
NextLexeme ==
  [][tok' # tok /\ tok'.kind # "none" =>
       LET n     == NextSolid(buffer, tok.last + 1)
           end   == n > Len(buffer) \/ buffer[n] = EOF
           stale == cur.idx = 0 /\ cur.lastChar = EOF
       IN  IF tok'.kind = "eof" THEN end \/ stale ELSE ~end /\ tok'.first = n]_vars

(* The same without the reference scan: tokens are not empty and a token lies *)
(* wholly after the one before it.  A lexer that stands still breaks it.      *)
NoCharTwice ==
  [][tok' # tok /\ tok'.kind \notin {"none", "eof"} =>
       tok.last < tok'.first /\ tok'.first <= tok'.last]_vars

(* The longest stretch from i within the given characters *)
Run(text, i, chars) ==
  Max({j \in i..Len(text) : \A k \in i..j : text[k] \in chars})

(* Where the "..." literal that begins at i ends: at the first quote that an *)
(* even number of backslashes precedes, or before a 0xFF byte of that kind.  *)
Escapes(text, i, j) == {k \in i + 1..j - 1 : \A n \in k..j - 1 : text[n] = "backslash"}
Plain(text, i, j)   == text[i] = "dquote" => Cardinality(Escapes(text, i, j)) % 2 = 0
StringEnd(text, i) ==
  LET plain == {j \in i + 1..Len(text) : Plain(text, i, j)}
  IN  Min({j \in plain : text[j] = text[i]}
            \cup {j - 1 : j \in {k \in plain : text[k] = EOF}}
            \cup {Len(text) + 1})

Pair(text, i) == IF i < Len(text) THEN <<text[i], text[i + 1]>> ELSE <<text[i]>>

LastOf(text, kind, i) ==
  CASE kind = "word"   -> Run(text, i, Alphanum)
    [] kind = "number" -> Run(text, i, Digit \cup {"."})
    [] kind = "string" -> StringEnd(text, i)
    [] kind = "op"     -> IF Pair(text, i) \in Double THEN i + 1 ELSE i
    [] kind = "unk"    -> i

(* Maximal munch: each token extends exactly as far as its lexical class allows; *)
(* a look-ahead of one character decides between one- and two-character symbols, *)
(* and a quote that an escape covers does not end a literal.                     *)
MaximalMunch ==
  tok.kind \notin {"none", "eof"} => tok.last = LastOf(buffer, tok.kind, tok.first)

-----------------------------------------------------------------------------
(* The token stream ends: every sequence of calls reaches eof, or a call is *)
(* stuck for ever in the loop over a string literal that nothing closes.    *)
ReachesEof == <>(tok.kind = "eof") \/ <>[](pc \in {"dquote", "squote"})

(* A literal that nothing closes is reported and returned: the loop tests   *)
(* c != EOF and the code after it prints "unterminated string literal".     *)
UnterminatedReported == pc \in {"dquote", "squote"} ~> pc = "idle"

(* Any source file comes to its eof token. *)
AlwaysEof == <>(tok.kind = "eof")
=============================================================================
