------------------------------- MODULE Lexer -------------------------------
(***************************************************************************)
(* TheLexer (include/lexer.h, lib/lexer.cpp): one getNextToken() call after*)
(* another over a source buffer, at the granularity of the reads the code  *)
(* makes, so that its loops can be seen not to end.                        *)
(*                                                                         *)
(* The point that is easy to miss: every loop of getNextToken() looks at   *)
(* the local c, which is usually copied from the field lastChar, and       *)
(* getNextChar() leaves lastChar alone once the buffer is used up.         *)
(*                                                                         *)
(* A character is a string, one representative per class that the code     *)
(* distinguishes.  The text a token carries is its extent first..last in   *)
(* the buffer; a word is not split into keyword and name.                  *)
(*                                                                         *)
(* A definition whose comment begins "Variant:" is no part of the model:   *)
(* it is a slip of the kind the properties have to notice.                 *)
(***************************************************************************)
EXTENDS Integers, Sequences

(* (char)EOF is the byte 0xFF: such a byte in the file is taken for the end *)
EOF == "xFF"

Whitespace == {"space", "newline"}
Alpha      == {"a", "_"}
Digit      == {"0", "1"}
Alphanum   == Alpha \cup Digit
Single     == {"(", ")", "{", "}", ":", ";", ",", "=", "+", "-", "*", "/", "%",
               "<", ">", "!"}
Double     == {<<"=", "=">>, <<"+", "+">>, <<"+", "=">>, <<"-", "-">>,
               <<"-", "=">>, <<"*", "=">>, <<"<", "=">>, <<">", "=">>,
               <<"!", "=">>, <<"amp", "amp">>, <<"pipe", "pipe">>}
Chars      == Whitespace \cup Alphanum \cup Single
                \cup {EOF, ".", "#", "dquote", "squote", "backslash", "amp", "pipe", "@"}

CONSTANT Sources          \* the buffers a SourceFile may hold

ASSUME SourcesAssumption == Sources \subseteq Seq(Chars)

VARIABLES
  buffer,                 \* sourceFile->buffer
  cur,                    \* the fields idx, line, column, lastChar
  pc,                     \* where getNextToken() is; "idle" between calls
  c,                      \* its local c
  start,                  \* cur when loc was taken, at the token's first char
  tok                     \* the last token returned

vars == <<buffer, cur, pc, c, start, tok>>

Kinds   == {"none", "eof", "unk", "string", "number", "word", "op"}
NoToken == [kind |-> "none", line |-> 0, column |-> 0, first |-> 0, last |-> 0]

-----------------------------------------------------------------------------
(* peekNextChar(); also the value that getNextChar() would return *)
Peek(k) == IF k.idx >= Len(buffer) THEN EOF ELSE buffer[k.idx + 1]

(* Variant: the column of the first character on a line is 0. *)
AdvanceFromMinusOne(k) ==
  IF k.idx >= Len(buffer) THEN k
  ELSE LET ch == buffer[k.idx + 1]
       IN  [idx      |-> k.idx + 1,
            line     |-> IF ch = "newline" THEN k.line + 1 ELSE k.line,
            column   |-> IF ch = "newline" THEN -1 ELSE k.column + 1,
            lastChar |-> ch]

(* Variant: the column is not reset at a newline. *)
AdvanceSameColumn(k) ==
  IF k.idx >= Len(buffer) THEN k
  ELSE LET ch == buffer[k.idx + 1]
       IN  [idx      |-> k.idx + 1,
            line     |-> IF ch = "newline" THEN k.line + 1 ELSE k.line,
            column   |-> k.column + 1,
            lastChar |-> ch]

(* getNextChar(): at the end of the buffer no field changes *)
Advance(k) ==
  IF k.idx >= Len(buffer) THEN k
  ELSE LET ch == buffer[k.idx + 1]
       IN  [idx      |-> k.idx + 1,
            line     |-> IF ch = "newline" THEN k.line + 1 ELSE k.line,
            column   |-> IF ch = "newline" THEN 0 ELSE k.column + 1,
            lastChar |-> ch]

Init ==
  /\ buffer \in Sources
  /\ cur = [idx |-> 0, line |-> 0, column |-> 0, lastChar |-> "space"]
  /\ pc = "idle" /\ c = "space" /\ start = cur /\ tok = NoToken

(* Enter getNextToken() with the cursor at k: a call of the parser's, or one *)
(* of the recursive calls that end a comment.                                *)
Enter(k) == pc' = "skip" /\ cur' = k /\ c' = k.lastChar

(* return Token{...}: everything before the new lastChar has been consumed *)
Return(s, kind, k) ==
  /\ tok' = [kind |-> kind, line |-> s.line, column |-> s.column,
             first |-> s.idx, last |-> k.idx - 1]
  /\ cur' = k /\ pc' = "idle" /\ UNCHANGED c

(* Go on in the loop at label with c copied from lastChar *)
Loop(label, k) == pc' = label /\ cur' = k /\ c' = k.lastChar

-----------------------------------------------------------------------------
Call ==
  /\ pc = "idle" /\ Enter(cur)
  /\ UNCHANGED <<buffer, start, tok>>

(* The end of debugPrintAllTokens(): lastChar keeps its value *)
Reset ==
  /\ pc = "idle" /\ tok.kind = "eof"
  /\ cur' = [idx |-> 0, line |-> 0, column |-> 0, lastChar |-> cur.lastChar]
  /\ tok' = NoToken
  /\ UNCHANGED <<buffer, pc, c, start>>

SkipWhitespace ==
  /\ pc = "skip" /\ c \in Whitespace
  /\ c' = Peek(cur) /\ cur' = Advance(cur)
  /\ UNCHANGED <<buffer, pc, start, tok>>

(* c is the first character of something; loc is taken here *)
At(chars) ==
  /\ pc = "skip" /\ c \in chars
  /\ start' = cur /\ UNCHANGED buffer

StartsLineComment  == c = "#" \/ (c = "/" /\ Peek(cur) = "/")
StartsBlockComment == c = "/" /\ Peek(cur) = "*"

EndOfFile == At({EOF}) /\ Return(cur, "eof", cur)

LineComment ==
  /\ At({"#", "/"}) /\ StartsLineComment
  /\ pc' = "line" /\ UNCHANGED <<cur, c, tok>>

(* Variant: only the slash is eaten, so that the star may close the comment. *)
BlockCommentEatsSlash ==
  /\ At({"/"}) /\ StartsBlockComment
  /\ Loop("block", Advance(cur)) /\ UNCHANGED tok

BlockComment ==
  /\ At({"/"}) /\ StartsBlockComment
  /\ Loop("block", Advance(Advance(cur))) /\ UNCHANGED tok

Quote == At({"dquote", "squote"}) /\ Loop(c, Advance(cur)) /\ UNCHANGED tok

Word == At(Alpha) /\ Loop("word", Advance(cur)) /\ UNCHANGED tok

Number ==
  /\ At(Digit \cup {"."}) /\ (c = "." => Peek(cur) \in Digit)
  /\ Loop("number", Advance(cur)) /\ UNCHANGED tok

DoubleOp ==
  /\ At(Chars) /\ <<c, Peek(cur)>> \in Double
  /\ Return(cur, "op", Advance(Advance(cur)))

(* Variant: the symbol is returned but not eaten. *)
SingleOpStands ==
  /\ At(Single) /\ <<c, Peek(cur)>> \notin Double
  /\ ~StartsLineComment /\ ~StartsBlockComment
  /\ Return(cur, "op", cur)

SingleOp ==
  /\ At(Single) /\ <<c, Peek(cur)>> \notin Double
  /\ ~StartsLineComment /\ ~StartsBlockComment
  /\ Return(cur, "op", Advance(cur))

Unknown ==
  /\ pc = "skip"
  /\ c \notin Whitespace \cup Alphanum \cup Single \cup {EOF, "#", "dquote", "squote"}
  /\ <<c, Peek(cur)>> \notin Double /\ ~(c = "." /\ Peek(cur) \in Digit)
  /\ start' = cur /\ Return(cur, "unk", Advance(cur))
  /\ UNCHANGED buffer

-----------------------------------------------------------------------------
(* do { c = getNextChar(); } while (c != EOF && c != '\n'); return getNextToken(); *)
InLineComment ==
  /\ pc = "line"
  /\ IF Peek(cur) \in {EOF, "newline"}
       THEN Enter(Advance(cur))
       ELSE c' = Peek(cur) /\ cur' = Advance(cur) /\ UNCHANGED pc
  /\ UNCHANGED <<buffer, start, tok>>

(* Variant: the loop does not test for the end of the file. *)
InBlockCommentForEver ==
  /\ pc = "block"
  /\ \/ /\ c = "*" /\ Peek(cur) = "/"
        /\ Enter(Advance(Advance(cur)))
     \/ /\ ~(c = "*" /\ Peek(cur) = "/")
        /\ c' = Peek(cur) /\ cur' = Advance(cur) /\ UNCHANGED pc
  /\ UNCHANGED <<buffer, start, tok>>

InBlockComment ==
  /\ pc = "block"
  /\ \/ /\ c = EOF
        /\ Enter(cur)
     \/ /\ c = "*" /\ Peek(cur) = "/"
        /\ Enter(Advance(Advance(cur)))
     \/ /\ c # EOF /\ ~(c = "*" /\ Peek(cur) = "/")
        /\ c' = Peek(cur) /\ cur' = Advance(cur) /\ UNCHANGED pc
  /\ UNCHANGED <<buffer, start, tok>>

(* Variant: a backslash does not protect the character after it. *)
InStringNoEscape ==
  /\ pc \in {"dquote", "squote"}
  /\ \/ c = pc /\ Return(start, "string", Advance(cur))
     \/ c = EOF /\ Return(start, "string", cur)
     \/ c \notin {pc, EOF} /\ UNCHANGED tok /\ Loop(pc, Advance(cur))
  /\ UNCHANGED <<buffer, start>>

(* The loops over "..." and '...'; only "..." knows escapes.  c == EOF, the *)
(* unterminated literal of the error message, needs a 0xFF byte.            *)
InString ==
  /\ pc \in {"dquote", "squote"}
  /\ \/ c = pc /\ Return(start, "string", Advance(cur))
     \/ c = EOF /\ Return(start, "string", cur)
     \/ /\ c \notin {pc, EOF} /\ UNCHANGED tok
        /\ Loop(pc, IF pc = "dquote" /\ c = "backslash" THEN Advance(Advance(cur))
                                             ELSE Advance(cur))
  /\ UNCHANGED <<buffer, start>>

InWord ==
  /\ pc = "word"
  /\ \/ c \in Alphanum /\ Loop("word", Advance(cur)) /\ UNCHANGED tok
     \/ c \notin Alphanum /\ Return(start, "word", cur)
  /\ UNCHANGED <<buffer, start>>

InNumber ==
  /\ pc = "number"
  /\ \/ c \in Digit \cup {"."} /\ Loop("number", Advance(cur)) /\ UNCHANGED tok
     \/ c \notin Digit \cup {"."} /\ Return(start, "number", cur)
  /\ UNCHANGED <<buffer, start>>

Lex ==
  \/ SkipWhitespace \/ EndOfFile \/ LineComment \/ BlockComment \/ Quote
  \/ Word \/ Number \/ DoubleOp \/ SingleOp \/ Unknown
  \/ InLineComment \/ InBlockComment \/ InString \/ InWord \/ InNumber

Next == Call \/ Reset \/ Lex

Spec == Init /\ [][Next]_vars

(* The parser asks for tokens until it has seen eof, and getNextToken() runs *)
(* without giving way to anything else.                                      *)
Fairness == WF_vars(Lex) /\ WF_vars(Call /\ tok.kind # "eof")

FairSpec == Spec /\ Fairness
=============================================================================
