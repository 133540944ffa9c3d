---------------------------- MODULE LexerProofs ----------------------------
(***************************************************************************)
(* Proofs about TheLexer for every set of source buffers: its types, true  *)
(* positions, no character lexed twice, how far each token extends, and    *)
(* that every token is the next lexeme, with no character lost.            *)
(***************************************************************************)
EXTENDS LexerProps, CommonFacts

LEMMA EndIsChar == EOF \in Chars /\ Whitespace \subseteq Chars
BY Zenon DEF Chars

(* getNextChar() keeps the cursor inside the buffer and moves it by one *)
(* unless the buffer is used up.                                        *)
LEMMA AdvanceType ==
  ASSUME buffer \in Seq(Chars), NEW k \in Cursor
  PROVE  /\ Advance(k) \in Cursor
         /\ Peek(k) \in Chars
         /\ k.idx < Len(buffer) =>
              /\ Advance(k).idx = k.idx + 1
              /\ Advance(k).lastChar = buffer[k.idx + 1]
              /\ Peek(k) = buffer[k.idx + 1]
         /\ k.idx >= Len(buffer) => Advance(k) = k /\ Peek(k) = EOF
<1>1. CASE k.idx >= Len(buffer)
  BY <1>1, EndIsChar DEF Advance, Peek, Cursor
<1>2. CASE k.idx < Len(buffer)
  <2>1. buffer[k.idx + 1] \in Chars
    BY <1>2 DEF Cursor
  <2>. QED
    BY <1>2, <2>1 DEF Advance, Peek, Cursor
<1>. QED
  BY <1>1, <1>2 DEF Cursor

(* TypeOK holds of every state of every behaviour of the lexer. *)
THEOREM TypeCorrect == Spec => []TypeOK
<1>1. Init => TypeOK
  <2>1. "space" \in Chars
    BY EndIsChar DEF Whitespace
  <2>2. NoToken \in [kind : Kinds, line : Nat, column : Nat, first : Nat, last : Int]
    BY DEF NoToken, Kinds
  <2>3. ASSUME Init PROVE buffer \in Seq(Chars) /\ Len(buffer) \in Nat
    <3>1. buffer \in Sources
      BY <2>3 DEF Init
    <3>2. buffer \in Seq(Chars)
      BY Zenon, <3>1, SourcesAssumption
    <3>. QED
      BY <3>2
  <2>4. ASSUME Init PROVE cur \in Cursor
    <3>1. cur = [idx |-> 0, line |-> 0, column |-> 0, lastChar |-> "space"]
      BY <2>4 DEF Init
    <3>2. 0 \in 0..Len(buffer)
      BY <2>3, <2>4
    <3>. QED
      BY <2>1, <3>1, <3>2 DEF Cursor
  <2>. QED
    BY <2>1, <2>2, <2>3, <2>4 DEF Init, TypeOK
<1>2. TypeOK /\ [Next]_vars => TypeOK'
  <2>. SUFFICES ASSUME TypeOK, [Next]_vars PROVE TypeOK'
    OBVIOUS
  <2>a. buffer \in Seq(Chars) /\ cur \in Cursor /\ start \in Cursor
    BY DEF TypeOK
  <2>b. buffer' = buffer => Cursor' = Cursor
    BY DEF Cursor
  <2>c. /\ Advance(cur) \in Cursor /\ Peek(cur) \in Chars
        /\ Advance(Advance(cur)) \in Cursor
    BY <2>a, AdvanceType
  <2>d. \A k \in Cursor : k.idx \in Nat /\ k.line \in Nat /\ k.column \in Nat
                          /\ k.lastChar \in Chars /\ k.idx - 1 \in Int
    BY <2>a DEF Cursor
  <2>e. ASSUME NEW s \in Cursor, NEW kind \in Kinds, NEW k \in Cursor,
               Return(s, kind, k), UNCHANGED buffer, start' \in Cursor
        PROVE  TypeOK'
    BY <2>e, <2>a, <2>b, <2>d DEF Return, TypeOK
  <2>f. ASSUME NEW k \in Cursor, UNCHANGED <<buffer, tok>>, start' \in Cursor,
               cur' = k, c' \in Chars,
               pc' \in {"idle", "skip", "line", "block", "dquote", "squote", "word", "number"}
        PROVE  TypeOK'
    BY <2>f, <2>b DEF TypeOK
  <2>1. CASE Call
    BY <2>1, <2>a, <2>d, <2>f DEF Call, Enter
  <2>2. CASE Reset
    <3>1. cur' \in Cursor
      <4>. Len(buffer) \in Nat
        BY <2>a
      <4>. QED
        BY <2>2, <2>a, <2>d DEF Reset, Cursor
    <3>2. NoToken \in [kind : Kinds, line : Nat, column : Nat, first : Nat, last : Int]
      BY DEF NoToken, Kinds
    <3>. QED
      BY <2>2, <2>b, <3>1, <3>2 DEF Reset, TypeOK
  <2>3. CASE SkipWhitespace
    BY <2>3, <2>a, <2>c, <2>f DEF SkipWhitespace
  <2>4. CASE EndOfFile
    BY <2>4, <2>a, <2>e DEF EndOfFile, At, Kinds
  <2>5. CASE LineComment
    BY <2>5, <2>a, <2>f DEF LineComment, At, TypeOK
  <2>6. CASE BlockComment
    BY <2>6, <2>a, <2>c, <2>d, <2>f DEF BlockComment, At, Loop
  <2>7. CASE Quote
    BY <2>7, <2>a, <2>c, <2>d, <2>f DEF Quote, At, Loop
  <2>8. CASE Word
    BY <2>8, <2>a, <2>c, <2>d, <2>f DEF Word, At, Loop
  <2>9. CASE Number
    BY <2>9, <2>a, <2>c, <2>d, <2>f DEF Number, At, Loop
  <2>10. CASE DoubleOp
    BY <2>10, <2>a, <2>c, <2>e DEF DoubleOp, At, Kinds
  <2>11. CASE SingleOp
    BY <2>11, <2>a, <2>c, <2>e DEF SingleOp, At, Kinds
  <2>12. CASE Unknown
    BY <2>12, <2>a, <2>c, <2>e DEF Unknown, Kinds
  <2>13. CASE InLineComment
    BY <2>13, <2>a, <2>c, <2>d, <2>f DEF InLineComment, Enter
  <2>14. CASE InBlockComment
    BY <2>14, <2>a, <2>c, <2>d, <2>f DEF InBlockComment, Enter
  <2>15. CASE InString
    BY <2>15, <2>a, <2>c, <2>d, <2>e, <2>f DEF InString, Loop, Kinds
  <2>16. CASE InWord
    BY <2>16, <2>a, <2>c, <2>d, <2>e, <2>f DEF InWord, Loop, Kinds
  <2>17. CASE InNumber
    BY <2>17, <2>a, <2>c, <2>d, <2>e, <2>f DEF InNumber, Loop, Kinds
  <2>18. CASE UNCHANGED vars
    BY <2>18, <2>b DEF vars, TypeOK
  <2>. QED
    BY <2>1, <2>2, <2>3, <2>4, <2>5, <2>6, <2>7, <2>8, <2>9, <2>10, <2>11, <2>12,
       <2>13, <2>14, <2>15, <2>16, <2>17, <2>18 DEF Next, Lex
<1>. QED
  BY <1>1, <1>2, PTL DEF Spec

-----------------------------------------------------------------------------
LEMMA StartPosition == Position(buffer, 0, 0, 0)
<1>1. {i \in 1..0 : buffer[i] = "newline"} = {}
  <2>1. 1..0 = {}
    BY SMT
  <2>. QED
    BY <2>1
<1>2. Cardinality({}) = 0
  BY FS_EmptySet
<1>3. 0 \in 0..0 /\ 0 = 0 - 0 /\ 0 + 1 = 1 /\ 1..0 = {}
  BY SMT
<1>4. \E s \in 0..0 : /\ 0 = 0 - s
                      /\ s = 0 \/ buffer[s] = "newline"
                      /\ \A i \in s + 1..0 : buffer[i] # "newline"
  BY <1>3
<1>. QED
  BY <1>1, <1>2, <1>4 DEF Position

(* getNextChar() keeps line and column those of the character it moves to. *)
LEMMA AdvancePosition ==
  ASSUME buffer \in Seq(Chars), NEW k \in Cursor,
         Position(buffer, k.idx, k.line, k.column)
  PROVE  Position(buffer, Advance(k).idx, Advance(k).line, Advance(k).column)
<1>1. CASE k.idx >= Len(buffer)
  BY <1>1, AdvanceType
<1>2. CASE k.idx < Len(buffer)
  <2>. DEFINE n    == k.idx + 1
              S(m) == {i \in 1..m : buffer[i] = "newline"}
  <2>1. k.idx \in Nat /\ k.line \in Nat /\ k.column \in Nat /\ n \in Nat
    BY DEF Cursor
  <2>2. IsFiniteSet(1..k.idx)
    <3>1. 1 \in Int /\ k.idx \in Int
      BY <2>1
    <3>. QED
      BY <3>1, FS_Interval
  <2>3. IsFiniteSet(S(k.idx))
    <3>1. S(k.idx) \subseteq 1..k.idx
      OBVIOUS
    <3>. QED
      BY <2>2, <3>1, FS_Subset
  <2>4. k.line = Cardinality(S(k.idx))
    BY DEF Position
  <2>5. PICK s \in 0..k.idx : /\ k.column = k.idx - s
                              /\ s = 0 \/ buffer[s] = "newline"
                              /\ \A i \in s + 1..k.idx : buffer[i] # "newline"
    BY DEF Position
  <2>6. CASE buffer[n] = "newline"
    <3>1. S(n) = S(k.idx) \cup {n} /\ n \notin S(k.idx)
      BY <2>1, <2>6
    <3>2. Cardinality(S(n)) = k.line + 1
      BY <3>1, <2>3, <2>4, FS_AddElement
    <3>3. /\ Advance(k).idx = n /\ Advance(k).line = k.line + 1
          /\ Advance(k).column = 0
      BY <1>2, <2>1, <2>6 DEF Advance
    <3>4. n \in 0..n /\ 0 = n - n /\ \A i \in n + 1..n : buffer[i] # "newline"
      BY <2>1
    <3>5. Position(buffer, n, k.line + 1, 0)
      BY <3>2, <3>4, <2>6 DEF Position
    <3>. QED
      BY <3>3, <3>5
  <2>7. CASE buffer[n] # "newline"
    <3>1. S(n) = S(k.idx)
      BY <2>1, <2>7
    <3>2. /\ Advance(k).idx = n /\ Advance(k).line = k.line
          /\ Advance(k).column = k.column + 1
      BY <1>2, <2>1, <2>7 DEF Advance
    <3>3. /\ s \in 0..n /\ k.column + 1 = n - s
          /\ \A i \in s + 1..n : buffer[i] # "newline"
      BY <2>1, <2>5, <2>7
    <3>4. Position(buffer, n, k.line, k.column + 1)
      BY <3>1, <3>3, <2>4, <2>5 DEF Position
    <3>. QED
      BY <3>2, <3>4
  <2>. QED
    BY <2>6, <2>7
<1>. QED
  BY <1>1, <1>2 DEF Cursor

At0(k) == Position(buffer, k.idx, k.line, k.column)

(* PositionOK becomes inductive once the position saved in loc is included. *)
PositionInv == PositionOK /\ At0(start)

(* Every token of every source file is reported where it begins. *)
THEOREM PositionCorrect == Spec => []PositionOK
<1>1. Init => PositionInv
  <2>1. ASSUME Init PROVE cur.idx = 0 /\ cur.line = 0 /\ cur.column = 0
    BY <2>1 DEF Init
  <2>3. ASSUME Init PROVE start = cur /\ tok.kind = "none"
    BY <2>3 DEF Init, NoToken
  <2>. QED
    BY <2>1, <2>3, StartPosition DEF PositionInv, PositionOK, At0
<1>2. TypeOK /\ PositionInv /\ [Next]_vars => PositionInv'
  <2>. SUFFICES ASSUME TypeOK, PositionInv, [Next]_vars PROVE PositionInv'
    OBVIOUS
  <2>a. buffer \in Seq(Chars) /\ cur \in Cursor /\ start \in Cursor
    BY DEF TypeOK
  <2>b. At0(cur) /\ At0(start)
    BY DEF PositionInv, PositionOK, At0
  <2>c. At0(Advance(cur)) /\ At0(Advance(Advance(cur)))
    BY <2>a, <2>b, AdvanceType, AdvancePosition DEF At0
  <2>e. ASSUME NEW s, NEW kind, NEW k, Return(s, kind, k), UNCHANGED buffer,
               At0(s), At0(k), start' \in {start, cur}
        PROVE  PositionInv'
    BY <2>e, <2>b DEF Return, PositionInv, PositionOK, At0
  <2>f. ASSUME NEW k, UNCHANGED <<buffer, tok>>, cur' = k, At0(k),
               start' \in {start, cur}
        PROVE  PositionInv'
    BY <2>f, <2>b DEF PositionInv, PositionOK, At0
  <2>1. CASE Call
    BY <2>1, <2>b, <2>f DEF Call, Enter
  <2>2. CASE Reset
    BY <2>2, <2>b, StartPosition DEF Reset, PositionInv, PositionOK, At0, NoToken
  <2>3. CASE SkipWhitespace
    BY <2>3, <2>c, <2>f DEF SkipWhitespace
  <2>4. CASE EndOfFile
    BY <2>4, <2>b, <2>e DEF EndOfFile, At
  <2>5. CASE LineComment
    BY <2>5, <2>b, <2>f DEF LineComment, At
  <2>6. CASE BlockComment \/ Quote \/ Word \/ Number
    BY <2>6, <2>c, <2>f DEF BlockComment, Quote, Word, Number, At, Loop
  <2>7. CASE DoubleOp \/ SingleOp \/ Unknown
    BY <2>7, <2>b, <2>c, <2>e DEF DoubleOp, SingleOp, Unknown, At
  <2>8. CASE InLineComment
    BY <2>8, <2>c, <2>f DEF InLineComment, Enter
  <2>9. CASE InBlockComment
    BY <2>9, <2>b, <2>c, <2>f DEF InBlockComment, Enter
  <2>10. CASE InString
    BY <2>10, <2>b, <2>c, <2>e, <2>f DEF InString, Loop
  <2>11. CASE InWord \/ InNumber
    BY <2>11, <2>b, <2>c, <2>e, <2>f DEF InWord, InNumber, Loop
  <2>12. CASE UNCHANGED vars
    BY <2>12 DEF vars, PositionInv, PositionOK, At0
  <2>. QED
    BY <2>1, <2>2, <2>3, <2>4, <2>5, <2>6, <2>7, <2>8, <2>9, <2>10, <2>11, <2>12
       DEF Next, Lex
<1>3. PositionInv => PositionOK
  BY DEF PositionInv
<1>. QED
  BY <1>1, <1>2, <1>3, TypeCorrect, PTL DEF Spec

-----------------------------------------------------------------------------
(* What lastChar is, and where the token lies, in the states of the lexer. *)
(* Without it the calls of getNextChar() at the end of the buffer, which   *)
(* change nothing, could hand out one character twice.                     *)
Blank == Whitespace \cup {EOF}

CharInv ==
  /\ cur.idx > 0 => cur.lastChar = buffer[cur.idx]
  /\ cur.idx = 0 => cur.lastChar \in Blank
  /\ pc = "skip" => c = cur.lastChar \/ (c = EOF /\ cur.lastChar \in Whitespace)
  /\ pc = "idle" /\ tok.kind = "eof" => cur.lastChar \in Blank

TokenInv ==
  /\ tok = NoToken \/ tok.last < cur.idx
  /\ pc \in {"dquote", "squote", "word", "number"} =>
       tok.last < start.idx /\ 0 < start.idx /\ start.idx < cur.idx

(* A source file ends with a blank or a newline. *)
EndsBlank == \A b \in Sources : b # <<>> => b[Len(b)] \in Whitespace
BlankEnd  == buffer # <<>> => buffer[Len(buffer)] \in Whitespace

LastCharInv == CharInv /\ BlankEnd

LEMMA Disjoint ==
  /\ EOF \notin Whitespace
  /\ \A ch \in Alphanum \cup Single \cup {".", "#", "dquote", "squote", "amp", "pipe", "@"} :
       ch \notin Blank
BY DEF EOF, Whitespace, Blank, Alphanum, Alpha, Digit, Single

(* A lexer that looks at something other than a blank has read it from the *)
(* buffer and is not at its end.                                           *)
LEMMA SolidInside ==
  ASSUME TypeOK, CharInv, BlankEnd, pc = "skip", c \notin Blank
  PROVE  0 < cur.idx /\ cur.idx < Len(buffer)
<1>1. cur.idx \in 0..Len(buffer) /\ Len(buffer) \in Nat
  BY DEF TypeOK, Cursor
<1>2. c = cur.lastChar
  BY DEF CharInv, Blank
<1>3. cur.idx # 0
  BY <1>2 DEF CharInv
<1>4. cur.idx # Len(buffer)
  <2>1. SUFFICES ASSUME cur.idx = Len(buffer) PROVE FALSE
    OBVIOUS
  <2>2. buffer # <<>>
    BY <1>1, <1>3, <2>1
  <2>3. c = buffer[Len(buffer)]
    BY <1>1, <1>2, <1>3, <2>1 DEF CharInv
  <2>. QED
    BY <2>2, <2>3 DEF BlankEnd, Blank
<1>. QED
  BY <1>1, <1>3, <1>4

(* CharInv survives getNextChar(). *)
LEMMA AdvanceChar ==
  ASSUME buffer \in Seq(Chars), NEW k \in Cursor,
         k.idx > 0 => k.lastChar = buffer[k.idx], k.idx = 0 => k.lastChar \in Blank
  PROVE  /\ Advance(k).idx > 0 => Advance(k).lastChar = buffer[Advance(k).idx]
         /\ Advance(k).idx = 0 => Advance(k).lastChar \in Blank
<1>1. k.idx \in Nat /\ Len(buffer) \in Nat
  BY DEF Cursor
<1>2. CASE k.idx >= Len(buffer)
  BY <1>2, AdvanceType
<1>3. CASE k.idx < Len(buffer)
  <2>1. Advance(k).idx = k.idx + 1 /\ Advance(k).lastChar = buffer[k.idx + 1]
    BY <1>3, AdvanceType
  <2>. QED
    BY <1>1, <2>1
<1>. QED
  BY <1>1, <1>2, <1>3

(* lastChar is the character before idx, in every state. *)
LEMMA CharCorrect == EndsBlank /\ Spec => [](TypeOK /\ LastCharInv)
<1>1. EndsBlank /\ Init => LastCharInv
  <2>. SUFFICES ASSUME EndsBlank, Init PROVE LastCharInv
    OBVIOUS
  <2>1. cur.idx = 0 /\ cur.lastChar = "space" /\ pc = "idle" /\ tok.kind = "none"
    BY DEF Init, NoToken
  <2>2. "space" \in Blank
    BY DEF Blank, Whitespace
  <2>3. BlankEnd
    <3>1. buffer \in Sources
      BY DEF Init
    <3>. QED
      BY <3>1 DEF EndsBlank, BlankEnd
  <2>4. cur.idx = 0 /\ cur.lastChar \in Blank /\ pc = "idle" /\ tok.kind = "none"
    BY Zenon, <2>1, <2>2
  <2>. QED
    BY <2>3, <2>4 DEF LastCharInv, CharInv
<1>2. TypeOK /\ TypeOK' /\ LastCharInv /\ [Next]_vars => LastCharInv'
  <2>. SUFFICES ASSUME TypeOK, TypeOK', LastCharInv, [Next]_vars PROVE LastCharInv'
    OBVIOUS
  <2>a. buffer \in Seq(Chars) /\ cur \in Cursor
    BY DEF TypeOK
  <2>g. Advance(cur) \in Cursor
    BY <2>a, AdvanceType
  <2>. DEFINE Good(k) == /\ k.idx > 0 => k.lastChar = buffer[k.idx]
                         /\ k.idx = 0 => k.lastChar \in Blank
  <2>b. Good(cur) /\ Good(Advance(cur)) /\ Good(Advance(Advance(cur)))
    BY <2>a, <2>g, AdvanceChar DEF LastCharInv, CharInv
  <2>c. buffer' = buffer
    BY DEF Next, Lex, vars, Call, Reset, SkipWhitespace, EndOfFile, LineComment,
           BlockComment, Quote, Word, Number, DoubleOp, SingleOp, Unknown,
           InLineComment, InBlockComment, InString, InWord, InNumber, At
  <2>d. BlankEnd'
    BY <2>c DEF LastCharInv, BlankEnd
  <2>e. ASSUME Good(cur'), pc' # "idle" \/ tok'.kind # "eof",
               pc' # "skip" \/ c' = cur'.lastChar
        PROVE  LastCharInv'
    BY <2>c, <2>d, <2>e DEF LastCharInv, CharInv
  <2>f. ASSUME NEW s, NEW kind, NEW k, Return(s, kind, k), kind # "eof", Good(k)
        PROVE  LastCharInv'
    BY <2>e, <2>f DEF Return
  <2>. HIDE DEF Good
  <2>1. CASE Call
    BY <2>1, <2>b, <2>e DEF Call, Enter
  <2>2. CASE Reset
    <3>1. cur.lastChar \in Blank
      BY <2>2 DEF Reset, LastCharInv, CharInv
    <3>2. Good(cur')
      BY <2>2, <3>1 DEF Reset, Good
    <3>. QED
      BY <2>2, <2>e, <3>2 DEF Reset, NoToken
  <2>3. CASE SkipWhitespace
    <3>1. cur.lastChar = c /\ c \in Whitespace
      BY <2>3, Disjoint DEF SkipWhitespace, LastCharInv, CharInv
    <3>2. Good(cur') /\ pc' = "skip"
      BY <2>3, <2>b DEF SkipWhitespace
    <3>3. c' = cur'.lastChar \/ (c' = EOF /\ cur'.lastChar \in Whitespace)
      <4>1. c' = Peek(cur) /\ cur' = Advance(cur)
        BY <2>3 DEF SkipWhitespace
      <4>2. Peek(cur) = Advance(cur).lastChar \/ (Peek(cur) = EOF /\ Advance(cur) = cur)
        BY DEF Peek, Advance
      <4>. QED
        BY <3>1, <4>1, <4>2
    <3>. QED
      BY <2>c, <2>d, <3>2, <3>3 DEF LastCharInv, CharInv, Good
  <2>4. CASE EndOfFile
    <3>1. cur.lastChar \in Blank /\ cur' = cur /\ pc' = "idle"
      BY <2>4 DEF EndOfFile, At, Return, LastCharInv, CharInv, Blank
    <3>. QED
      BY <2>b, <2>c, <2>d, <3>1 DEF LastCharInv, CharInv, Good
  <2>5. CASE LineComment
    BY <2>5, <2>b, <2>e DEF LineComment, At
  <2>6. CASE BlockComment \/ Quote \/ Word \/ Number
    BY <2>6, <2>b, <2>e
       DEF BlockComment, Quote, Word, Number, At, Loop
  <2>7. CASE DoubleOp \/ SingleOp \/ Unknown
    BY <2>7, <2>b, <2>f DEF DoubleOp, SingleOp, Unknown
  <2>8. CASE InLineComment
    BY <2>8, <2>b, <2>e DEF InLineComment, Enter
  <2>9. CASE InBlockComment
    BY <2>9, <2>b, <2>e DEF InBlockComment, Enter
  <2>10. CASE InString
    BY <2>10, <2>b, <2>e, <2>f DEF InString, Loop
  <2>11. CASE InWord \/ InNumber
    BY <2>11, <2>b, <2>e, <2>f DEF InWord, InNumber, Loop
  <2>12. CASE UNCHANGED vars
    BY <2>12 DEF vars, LastCharInv, CharInv, BlankEnd
  <2>. QED
    BY <2>1, <2>2, <2>3, <2>4, <2>5, <2>6, <2>7, <2>8, <2>9, <2>10, <2>11, <2>12
       DEF Next, Lex
<1>. QED
  BY <1>1, <1>2, TypeCorrect, PTL DEF Spec

LEMMA TokenStart == ASSUME Init PROVE TokenInv
<1>1. tok = NoToken /\ pc = "idle"
  BY DEF Init
<1>. QED
  BY <1>1 DEF TokenInv

(* A token that is returned lies wholly behind the one before it. *)
Later == tok' # tok /\ tok'.kind \notin {"none", "eof"} =>
           tok.last < tok'.first /\ tok'.first <= tok'.last

LEMMA TokenStep ==
  ASSUME TypeOK, LastCharInv, TokenInv, TypeOK', [Next]_vars
  PROVE  TokenInv' /\ [Later]_vars
<1>. DEFINE After == [Later]_vars
<1>. USE DEF Later
<1>. DEFINE A1 == Advance(cur)
            A2 == Advance(Advance(cur))
<1>a. /\ buffer \in Seq(Chars) /\ cur \in Cursor /\ start \in Cursor
      /\ A1 \in Cursor /\ A2 \in Cursor
  <2>1. buffer \in Seq(Chars) /\ cur \in Cursor /\ start \in Cursor
    BY DEF TypeOK
  <2>2. A1 \in Cursor
    BY <2>1, AdvanceType
  <2>. QED
    BY <2>1, <2>2, AdvanceType
<1>b. /\ cur.idx \in Nat /\ start.idx \in Nat /\ A1.idx \in Nat /\ A2.idx \in Nat
      /\ tok.last \in Int
  BY <1>a DEF Cursor, TypeOK
<1>c. cur.idx <= A1.idx /\ A1.idx <= A2.idx
  <2>. HIDE DEF A1, A2
  <2>1. ASSUME NEW k \in Cursor PROVE k.idx <= Advance(k).idx
    <3>1. k.idx \in Nat /\ Len(buffer) \in Nat
      BY <1>a DEF Cursor
    <3>2. CASE k.idx < Len(buffer)
      BY <1>a, <3>1, <3>2, AdvanceType
    <3>3. CASE k.idx >= Len(buffer)
      BY <1>a, <3>1, <3>3, AdvanceType
    <3>. QED
      BY <3>1, <3>2, <3>3
  <2>. QED
    BY <1>a, <2>1 DEF A1, A2
<1>d. ASSUME pc = "skip", c \notin Blank
      PROVE  /\ 0 < cur.idx /\ cur.idx < A1.idx
             /\ tok.last < cur.idx
  <2>1. 0 < cur.idx /\ cur.idx < Len(buffer)
    BY <1>d, SolidInside DEF LastCharInv
  <2>2. A1.idx = cur.idx + 1
    BY <1>a, <2>1, AdvanceType
  <2>3. tok.last < cur.idx
    BY <2>1 DEF TokenInv, NoToken
  <2>. QED
    BY <1>b, <2>1, <2>2, <2>3
<1>. HIDE DEF A1, A2
<1>e. ASSUME NEW s \in Cursor, NEW kind, NEW k \in Cursor, Return(s, kind, k),
             kind # "eof" => tok.last < s.idx /\ s.idx < k.idx
      PROVE  TokenInv' /\ After
  <2>1. k.idx \in Nat /\ s.idx \in Nat
    BY DEF Cursor
  <2>2. /\ tok'.kind = kind /\ tok'.first = s.idx /\ tok'.last = k.idx - 1
        /\ cur' = k /\ pc' = "idle"
    BY <1>e DEF Return
  <2>3. TokenInv'
    BY <2>1, <2>2 DEF TokenInv
  <2>4. CASE kind = "eof"
    BY <2>2, <2>3, <2>4
  <2>5. CASE kind # "eof"
    <3>1. tok.last < s.idx /\ s.idx <= k.idx - 1
      BY <1>e, <1>b, <2>1, <2>5
    <3>. QED
      BY <2>2, <2>3, <3>1
  <2>. QED
    BY <2>4, <2>5
<1>f. ASSUME UNCHANGED <<tok, start>>, pc' = pc \/ pc' \in {"idle", "skip", "line", "block"},
             cur.idx <= cur'.idx, cur'.idx \in Nat
      PROVE  TokenInv' /\ After
  <2>1. TokenInv'
    BY <1>b, <1>f DEF TokenInv
  <2>. QED
    BY <1>f, <2>1
<1>g. ASSUME UNCHANGED tok, start' = cur,
             \/ pc' \in {"line", "block"} /\ cur.idx <= cur'.idx
             \/ tok.last < cur.idx /\ 0 < cur.idx /\ cur.idx < cur'.idx,
             cur'.idx \in Nat
      PROVE  TokenInv' /\ After
  <2>1. TokenInv'
    BY <1>b, <1>g DEF TokenInv
  <2>. QED
    BY <1>g, <2>1
<1>1. CASE Call
  BY <1>1, <1>b, <1>f DEF Call, Enter
<1>2. CASE Reset
  BY <1>2 DEF Reset, TokenInv, NoToken
<1>3. CASE SkipWhitespace
  BY <1>3, <1>b, <1>c, <1>f DEF SkipWhitespace, A1
<1>4. CASE EndOfFile
  BY <1>4, <1>a, <1>e DEF EndOfFile, At
<1>5. CASE LineComment
  BY <1>5, <1>b, <1>g DEF LineComment, At
<1>6. CASE BlockComment
  BY <1>6, <1>b, <1>c, <1>g DEF BlockComment, At, Loop, A1, A2
<1>7. CASE Quote \/ Word \/ Number
  <2>1. pc = "skip" /\ c \notin Blank
    BY <1>7, Disjoint DEF Quote, Word, Number, At, Alphanum
  <2>2. cur' = A1 /\ start' = cur /\ UNCHANGED tok
    BY <1>7 DEF Quote, Word, Number, At, Loop, A1
  <2>. QED
    BY <1>b, <1>d, <1>g, <2>1, <2>2
<1>8. CASE DoubleOp
  <2>1. pc = "skip" /\ c \notin Blank
    <3>1. pc = "skip" /\ <<c, Peek(cur)>> \in Double
      BY <1>8 DEF DoubleOp, At
    <3>2. c \in Single \cup {"amp", "pipe"}
      BY <3>1 DEF Double, Single
    <3>. QED
      BY <3>1, <3>2, Disjoint
  <2>2. Return(cur, "op", A2)
    BY <1>8 DEF DoubleOp, A2
  <2>. QED
    BY <1>a, <1>b, <1>c, <1>d, <1>e, <2>1, <2>2
<1>9. CASE SingleOp
  <2>1. pc = "skip" /\ c \notin Blank /\ Return(cur, "op", A1)
    BY <1>9, Disjoint DEF SingleOp, At, A1
  <2>. QED
    BY <1>a, <1>b, <1>c, <1>d, <1>e, <2>1
<1>10. CASE Unknown
  <2>1. pc = "skip" /\ c \notin Blank /\ Return(cur, "unk", A1)
    BY <1>10 DEF Unknown, A1, Blank
  <2>. QED
    BY <1>a, <1>b, <1>c, <1>d, <1>e, <2>1
<1>11. CASE InLineComment
  BY <1>11, <1>b, <1>c, <1>f DEF InLineComment, Enter, A1
<1>12. CASE InBlockComment
  BY <1>12, <1>b, <1>c, <1>f DEF InBlockComment, Enter, A1, A2
<1>13. CASE InString
  <2>1. tok.last < start.idx /\ start.idx < cur.idx /\ start.idx < A1.idx
    <3>1. tok.last < start.idx /\ start.idx < cur.idx
      BY <1>13 DEF InString, TokenInv
    <3>. QED
      BY <3>1, <1>b, <1>c
  <2>2. \/ \E k \in {cur, A1} : Return(start, "string", k)
        \/ cur' \in {A1, A2} /\ UNCHANGED <<tok, start, pc>>
    BY <1>13 DEF InString, Loop, A1, A2
  <2>. QED
    BY <1>a, <1>b, <1>c, <1>e, <1>f, <2>1, <2>2
<1>14. CASE InWord \/ InNumber
  <2>1. tok.last < start.idx /\ start.idx < cur.idx
    BY <1>14 DEF InWord, InNumber, TokenInv
  <2>2. \/ \E kind \in {"word", "number"} : Return(start, kind, cur)
        \/ cur' = A1 /\ UNCHANGED <<tok, start, pc>>
    BY <1>14 DEF InWord, InNumber, Loop, A1
  <2>. QED
    BY <1>a, <1>b, <1>c, <1>e, <1>f, <2>1, <2>2
<1>15. CASE UNCHANGED vars
  BY <1>15 DEF vars, TokenInv
<1>. QED
  BY <1>1, <1>2, <1>3, <1>4, <1>5, <1>6, <1>7, <1>8, <1>9, <1>10, <1>11, <1>12,
     <1>13, <1>14, <1>15 DEF Next, Lex

(* Each token lies after the one before it, and a file that ends with a blank *)
(* or a newline, whatever else it holds, is never lexed twice at any place.   *)
THEOREM NoCharTwiceCorrect == EndsBlank /\ Spec => NoCharTwice
<1>1. /\ TypeOK /\ LastCharInv /\ TokenInv /\ TypeOK' /\ [Next]_vars
      => TokenInv' /\ [Later]_vars
  BY TokenStep
<1>. QED
  BY <1>1, TokenStart, CharCorrect, PTL DEF Spec, NoCharTwice, Later

-----------------------------------------------------------------------------
(* What the loops over words, numbers and literals have gone past: c is the  *)
(* character at the cursor, those before it belong to the token, and in a    *)
(* literal no quote or 0xFF byte that counts was among them.  (At the end of *)
(* the buffer the cursor may stand behind a backslash, and stays there.)     *)
Inside ==
  /\ pc \in {"word", "number", "dquote", "squote"} => c = cur.lastChar
  /\ pc = "word" => \A k \in start.idx..cur.idx - 1 : buffer[k] \in Alphanum
  /\ pc = "number" => \A k \in start.idx..cur.idx - 1 : buffer[k] \in Digit \cup {"."}
  /\ pc \in {"dquote", "squote"} =>
       /\ buffer[start.idx] = pc
       /\ cur.idx < Len(buffer) => Plain(buffer, start.idx, cur.idx)
       /\ \A j \in start.idx + 1..cur.idx - 1 :
            Plain(buffer, start.idx, j) => buffer[j] \notin {pc, EOF}

LEMMA EscapesFinite ==
  ASSUME NEW i \in Nat, NEW j \in Nat
  PROVE  IsFiniteSet(Escapes(buffer, i, j)) /\ Cardinality(Escapes(buffer, i, j)) \in Nat
<1>1. IsFiniteSet(i + 1..j - 1)
  <2>1. i + 1 \in Int /\ j - 1 \in Int
    OBVIOUS
  <2> QED
    BY <2>1, FS_Interval
<1>2. Escapes(buffer, i, j) \subseteq i + 1..j - 1
  BY DEF Escapes
<1> QED
  BY <1>1, <1>2, FS_Subset, FS_CardinalityType

(* A backslash is one more of those before the next character, anything else ends them. *)
LEMMA EscapesNext ==
  ASSUME NEW i \in Nat, NEW j \in Nat, i < j
  PROVE  /\ buffer[j] = "backslash" => Cardinality(Escapes(buffer, i, j + 1)) = Cardinality(Escapes(buffer, i, j)) + 1
         /\ buffer[j] # "backslash" => Cardinality(Escapes(buffer, i, j + 1)) = 0
<1>1. CASE buffer[j] = "backslash"
  <2>1. Escapes(buffer, i, j + 1) = Escapes(buffer, i, j) \cup {j} /\ j \notin Escapes(buffer, i, j)
    BY <1>1 DEF Escapes
  <2> QED
    BY <1>1, <2>1, EscapesFinite, FS_AddElement
<1>2. CASE buffer[j] # "backslash"
  <2>1. Escapes(buffer, i, j + 1) = {}
    BY <1>2 DEF Escapes
  <2> QED
    BY <1>2, <2>1, FS_EmptySet
<1> QED
  BY <1>1, <1>2

(* A quote that counts is followed by a place that counts, unless it is a backslash *)
(* that covers it; then the place after that one counts.                            *)
LEMMA PlainNext ==
  ASSUME NEW i \in Nat, NEW j \in Nat, i < j, Plain(buffer, i, j)
  PROVE  /\ buffer[i] # "dquote" \/ buffer[j] # "backslash" => Plain(buffer, i, j + 1)
         /\ buffer[i] = "dquote" /\ buffer[j] = "backslash" =>
              ~Plain(buffer, i, j + 1) /\ Plain(buffer, i, j + 2)
<1>1. /\ Cardinality(Escapes(buffer, i, j)) \in Nat
      /\ Cardinality(Escapes(buffer, i, j + 1)) \in Nat
  <2>1. j + 1 \in Nat
    OBVIOUS
  <2> QED
    BY <2>1, EscapesFinite
<1>2. /\ buffer[j] = "backslash" => Cardinality(Escapes(buffer, i, j + 1)) = Cardinality(Escapes(buffer, i, j)) + 1
      /\ buffer[j] # "backslash" => Cardinality(Escapes(buffer, i, j + 1)) = 0
  BY EscapesNext
<1>3. \/ Cardinality(Escapes(buffer, i, j + 2)) = Cardinality(Escapes(buffer, i, j + 1)) + 1
      \/ Cardinality(Escapes(buffer, i, j + 2)) = 0
  <2>1. j + 1 \in Nat /\ i < j + 1 /\ j + 1 + 1 = j + 2
    OBVIOUS
  <2> QED
    BY <2>1, EscapesNext
<1>4. \A n \in Nat : n % 2 = 0 => (n + 1) % 2 = 1 /\ (n + 1 + 1) % 2 = 0
  OBVIOUS
<1>5. 0 % 2 = 0
  OBVIOUS
<1> QED
  BY <1>1, <1>2, <1>3, <1>4, <1>5 DEF Plain

(* A run of characters of a class ends before the first that is not of it. *)
LEMMA RunIs ==
  ASSUME buffer \in Seq(Chars), NEW chars, NEW i \in Nat, NEW n \in 0..Len(buffer), i < n,
         \A k \in i..n - 1 : buffer[k] \in chars, buffer[n] \notin chars
  PROVE  Run(buffer, i, chars) = n - 1
<1> DEFINE T == {j \in i..Len(buffer) : \A k \in i..j : buffer[k] \in chars}
<1>1. Len(buffer) \in Nat
  OBVIOUS
<1>2. T \in SUBSET Nat
  BY <1>1
<1>3. n - 1 \in T
  BY <1>1
<1>4. ASSUME NEW j \in T PROVE j <= n - 1
  BY <1>1
<1> HIDE DEF T
<1>5. Max(T) = n - 1
  BY <1>2, <1>3, <1>4, MaxIs
<1> QED
  BY <1>5 DEF Run, T

(* A literal ends at its first quote that counts, or before the first 0xFF that does. *)
LEMMA StringEndIs ==
  ASSUME buffer \in Seq(Chars), NEW i \in Nat, NEW n \in 0..Len(buffer), i < n,
         Plain(buffer, i, n), buffer[i] # EOF,
         \A j \in i + 1..n - 1 : Plain(buffer, i, j) => buffer[j] \notin {buffer[i], EOF}
  PROVE  /\ buffer[n] = buffer[i] => StringEnd(buffer, i) = n
         /\ buffer[n] = EOF => StringEnd(buffer, i) = n - 1
<1> DEFINE plain  == {j \in i + 1..Len(buffer) : Plain(buffer, i, j)}
           quotes == {j \in plain : buffer[j] = buffer[i]}
           cuts   == {j - 1 : j \in {k \in plain : buffer[k] = EOF}}
           T      == quotes \cup cuts \cup {Len(buffer) + 1}
<1>1. Len(buffer) \in Nat /\ n \in plain
  OBVIOUS
<1>2. T \in SUBSET Nat
  BY <1>1
<1>3. ASSUME NEW j \in plain, buffer[j] \in {buffer[i], EOF} PROVE n <= j
  BY <1>1, <1>3
<1>4. CASE buffer[n] = buffer[i]
  <2>1. n \in T
    BY <1>1, <1>4
  <2>2. ASSUME NEW m \in T PROVE n <= m
    <3>1. CASE m \in quotes
      BY <1>3, <3>1
    <3>2. CASE m \in cuts
      <4>1. PICK j \in plain : buffer[j] = EOF /\ m = j - 1
        BY <3>2
      <4>2. n <= j /\ j # n
        BY <1>3, <1>4, <4>1
      <4> QED
        BY <1>1, <4>1, <4>2
    <3>3. CASE m = Len(buffer) + 1
      BY <1>1, <3>3
    <3> QED
      BY <3>1, <3>2, <3>3
  <2> HIDE DEF T
  <2>3. Min(T) = n
    BY <1>2, <2>1, <2>2, MinIs
  <2> QED
    BY <1>4, <2>3 DEF StringEnd, T
<1>5. CASE buffer[n] = EOF
  <2>1. n - 1 \in T
    BY <1>1, <1>5
  <2>2. ASSUME NEW m \in T PROVE n - 1 <= m
    <3>1. CASE m \in quotes
      BY <1>1, <1>3, <3>1
    <3>2. CASE m \in cuts
      <4>1. PICK j \in plain : buffer[j] = EOF /\ m = j - 1
        BY <3>2
      <4>2. n <= j
        BY <1>3, <4>1
      <4> QED
        BY <1>1, <4>1, <4>2
    <3>3. CASE m = Len(buffer) + 1
      BY <1>1, <3>3
    <3> QED
      BY <3>1, <3>2, <3>3
  <2> HIDE DEF T
  <2>3. Min(T) = n - 1
    BY <1>2, <2>1, <2>2, MinIs
  <2> QED
    BY <1>5, <2>3 DEF StringEnd, T
<1> QED
  BY <1>4, <1>5

(* Where a token of its kind ends depends on the buffer alone. *)
LEMMA SameText ==
  ASSUME buffer' = buffer, tok' = tok, MaximalMunch
  PROVE  MaximalMunch'
BY DEF MaximalMunch

LEMMA Returned ==
  ASSUME NEW s, NEW kind, NEW k, Return(s, kind, k), buffer' = buffer,
         kind # "eof" => k.idx - 1 = LastOf(buffer, kind, s.idx)
  PROVE  Inside' /\ MaximalMunch'
<1>1. Inside'
  BY DEF Return, Inside
<1>2. tok'.kind = kind /\ tok'.first = s.idx /\ tok'.last = k.idx - 1
  BY DEF Return
<1>3. kind # "eof" => tok'.last = LastOf(buffer, tok'.kind, tok'.first)
  BY <1>2
<1>4. MaximalMunch'
  BY <1>2, <1>3 DEF MaximalMunch
<1> QED
  BY <1>1, <1>4

(* A step into a place where no token is under way *)
LEMMA Outside ==
  ASSUME buffer' = buffer, tok' = tok, pc' \in {"idle", "skip", "line", "block"}, MaximalMunch
  PROVE  Inside' /\ MaximalMunch'
<1>1. Inside'
  BY DEF Inside
<1> QED
  BY <1>1, SameText

(* A step into, or on in, the loop over a word or a number, and over a literal *)
LEMMA GoesOn ==
  ASSUME buffer' = buffer, tok' = tok, MaximalMunch, c' = cur'.lastChar,
         \/ /\ pc' = "word"
            /\ \A k \in start'.idx..cur'.idx - 1 : buffer[k] \in Alphanum
         \/ /\ pc' = "number"
            /\ \A k \in start'.idx..cur'.idx - 1 : buffer[k] \in Digit \cup {"."}
  PROVE  Inside' /\ MaximalMunch'
<1>1. Inside'
  BY DEF Inside
<1> QED
  BY <1>1, SameText

LEMMA GoesOnQuoted ==
  ASSUME buffer' = buffer, tok' = tok, MaximalMunch, c' = cur'.lastChar,
         pc' \in {"dquote", "squote"}, buffer[start'.idx] = pc',
         cur'.idx < Len(buffer) => Plain(buffer, start'.idx, cur'.idx),
         \A j \in start'.idx + 1..cur'.idx - 1 :
           Plain(buffer, start'.idx, j) => buffer[j] \notin {pc', EOF}
  PROVE  Inside' /\ MaximalMunch'
<1>1. Inside'
  BY DEF Inside
<1> QED
  BY <1>1, SameText

LEMMA MunchStep ==
  ASSUME TypeOK, LastCharInv, TokenInv, Inside, MaximalMunch, [Next]_vars
  PROVE  Inside' /\ MaximalMunch'
<1>. DEFINE A1 == Advance(cur)
            A2 == Advance(Advance(cur))
            i  == start.idx
            n  == cur.idx
<1>a. /\ buffer \in Seq(Chars) /\ cur \in Cursor /\ start \in Cursor /\ A1 \in Cursor
      /\ Len(buffer) \in Nat /\ n \in 0..Len(buffer) /\ i \in Nat /\ n \in Nat
  <2>1. buffer \in Seq(Chars) /\ cur \in Cursor /\ start \in Cursor
    BY DEF TypeOK
  <2>2. Len(buffer) \in Nat
    BY <2>1
  <2>. QED
    BY <2>1, <2>2, AdvanceType DEF Cursor
<1>b. CharInv /\ BlankEnd
  BY DEF LastCharInv
<1>c. ASSUME n < Len(buffer) PROVE A1.idx = n + 1 /\ A1.lastChar = buffer[n + 1]
  BY <1>a, <1>c, AdvanceType
<1>d. ASSUME pc = "skip", c \notin Blank
      PROVE  0 < n /\ n < Len(buffer) /\ c = buffer[n]
  <2>1. 0 < n /\ n < Len(buffer)
    BY <1>b, <1>d, SolidInside
  <2>. QED
    BY <1>b, <1>d, <2>1 DEF CharInv, Blank
<1>e. ASSUME pc \in {"word", "number", "dquote", "squote"}
      PROVE  /\ i < n /\ c = buffer[n] /\ c = cur.lastChar
             /\ c \notin Whitespace => n < Len(buffer)
  <2>1. i < n /\ 0 < n
    BY <1>a, <1>e DEF TokenInv
  <2>2. c = buffer[n] /\ c = cur.lastChar
    BY <1>b, <1>e, <2>1 DEF CharInv, Inside
  <2>3. c \notin Whitespace => n # Len(buffer)
    <3>1. buffer # <<>>
      BY <1>a, <2>1
    <3>. QED
      BY <1>b, <2>2, <3>1, Zenon DEF BlankEnd
  <2>. QED
    BY <1>a, <2>1, <2>2, <2>3
<1>f. EOF \notin Whitespace /\ "dquote" \notin Whitespace /\ "squote" \notin Whitespace
      /\ "backslash" \notin Whitespace /\ "dquote" # EOF /\ "squote" # EOF
      /\ "backslash" # EOF
  BY DEF EOF, Whitespace
<1>. HIDE DEF A1, A2, i, n
<1>1. CASE Call
  BY <1>1, Outside DEF Call, Enter
<1>2. CASE Reset
  BY <1>2 DEF Reset, Inside, MaximalMunch, NoToken
<1>3. CASE SkipWhitespace
  BY <1>3, Outside DEF SkipWhitespace
<1>4. CASE EndOfFile
  BY <1>4, Returned DEF EndOfFile, At
<1>5. CASE LineComment
  BY <1>5, Outside DEF LineComment, At
<1>6. CASE BlockComment
  BY <1>6, Outside DEF BlockComment, At, Loop
<1>7. CASE Quote
  <2>1. pc = "skip" /\ c \in {"dquote", "squote"} /\ c \notin Blank
    BY <1>7, Disjoint DEF Quote, At
  <2>2. pc' = c /\ start' = cur /\ cur' = A1 /\ c' = A1.lastChar /\ UNCHANGED <<buffer, tok>>
    BY <1>7 DEF Quote, At, Loop, A1
  <2>3. cur'.idx = n + 1 /\ start'.idx = n /\ buffer[n] = c
    BY <1>c, <1>d, <2>1, <2>2 DEF n
  <2>4. Plain(buffer, n, n + 1)
    <3>1. Escapes(buffer, n, n + 1) = {}
      BY <1>a DEF Escapes
    <3>2. 0 % 2 = 0
      OBVIOUS
    <3>3. Cardinality(Escapes(buffer, n, n + 1)) = 0
      BY <3>1, FS_EmptySet
    <3>. QED
      BY <3>2, <3>3 DEF Plain
  <2>5. \A j \in n + 1..n + 1 - 1 : Plain(buffer, n, j) => buffer[j] \notin {c, EOF}
    BY <1>a
  <2>. QED
    BY <1>a, <2>1, <2>2, <2>3, <2>4, <2>5, GoesOnQuoted
<1>8. CASE Word \/ Number
  <2>1. pc = "skip" /\ c \notin Blank
    BY <1>8, Disjoint DEF Word, Number, At, Alphanum
  <2>2. /\ \/ pc' = "word" /\ c \in Alphanum
           \/ pc' = "number" /\ c \in Digit \cup {"."}
        /\ start' = cur /\ cur' = A1 /\ c' = A1.lastChar /\ UNCHANGED <<buffer, tok>>
    <3>1. CASE Word
      BY <3>1 DEF Word, At, Loop, A1, Alphanum
    <3>2. CASE Number
      BY <3>2 DEF Number, At, Loop, A1
    <3>. QED
      BY <1>8, <3>1, <3>2
  <2>3. cur'.idx = n + 1 /\ start'.idx = n /\ buffer[n] = c
    BY <1>c, <1>d, <2>1, <2>2 DEF n
  <2>4. \A k \in n..n + 1 - 1 : buffer[k] = c
    BY <1>a, <2>3
  <2>5. CASE pc' = "word" /\ c \in Alphanum
    BY <1>a, <2>2, <2>3, <2>4, <2>5, GoesOn
  <2>6. CASE pc' = "number" /\ c \in Digit \cup {"."}
    BY <1>a, <2>2, <2>3, <2>4, <2>6, GoesOn
  <2>. QED
    BY <2>2, <2>5, <2>6
<1>9. CASE DoubleOp
  <2>1. pc = "skip" /\ c \notin Blank /\ <<c, Peek(cur)>> \in Double
    <3>1. pc = "skip" /\ <<c, Peek(cur)>> \in Double
      BY <1>9 DEF DoubleOp, At
    <3>2. c \in Single \cup {"amp", "pipe"}
      BY <3>1 DEF Double, Single
    <3>. QED
      BY <3>1, <3>2, Disjoint
  <2>2. n < Len(buffer) /\ c = buffer[n] /\ Peek(cur) = buffer[n + 1]
    BY <1>a, <1>d, <2>1 DEF Peek, n
  <2>3. buffer[n + 1] \notin Whitespace
    BY <2>1, <2>2 DEF Double, Whitespace
  <2>4. n + 1 < Len(buffer)
    BY <1>a, <1>b, <2>2, <2>3 DEF BlankEnd
  <2>5. A2.idx = n + 2
    BY <1>a, <1>c, <2>2, <2>4, AdvanceType DEF A1, A2
  <2>6. LastOf(buffer, "op", n) = n + 1
    BY <2>1, <2>2 DEF LastOf, Pair
  <2>7. A2.idx - 1 = n + 1
    BY <1>a, <2>5
  <2>. QED
    BY <1>9, <2>6, <2>7, Returned DEF DoubleOp, At, A2, n
<1>10. CASE SingleOp
  <2>1. pc = "skip" /\ c \notin Blank /\ <<c, Peek(cur)>> \notin Double
    BY <1>10, Disjoint DEF SingleOp, At
  <2>2. n < Len(buffer) /\ c = buffer[n] /\ Peek(cur) = buffer[n + 1]
    BY <1>a, <1>d, <2>1 DEF Peek, n
  <2>3. LastOf(buffer, "op", n) = n
    BY <2>1, <2>2 DEF LastOf, Pair
  <2>4. A1.idx - 1 = n
    BY <1>a, <1>c, <2>2
  <2>. QED
    BY <1>10, <2>3, <2>4, Returned DEF SingleOp, At, A1, n
<1>11. CASE Unknown
  <2>1. pc = "skip" /\ c \notin Blank
    BY <1>11 DEF Unknown, Blank
  <2>2. A1.idx - 1 = n
    BY <1>a, <1>c, <1>d, <2>1
  <2>3. LastOf(buffer, "unk", n) = n
    BY DEF LastOf
  <2>. QED
    BY <1>11, <2>2, <2>3, Returned DEF Unknown, A1, n
<1>12. CASE InLineComment
  <2>1. pc' \in {"skip", "line"} /\ UNCHANGED <<buffer, tok>>
    BY <1>12 DEF InLineComment, Enter
  <2>. QED
    BY <2>1, Outside
<1>13. CASE InBlockComment
  <2>1. pc' \in {"skip", "block"} /\ UNCHANGED <<buffer, tok>>
    BY <1>13 DEF InBlockComment, Enter
  <2>. QED
    BY <2>1, Outside
<1>14. CASE InString
  <2>1. /\ pc \in {"dquote", "squote"} /\ UNCHANGED <<buffer, start>>
        /\ i < n /\ c = buffer[n] /\ c = cur.lastChar
        /\ c \notin Whitespace => n < Len(buffer)
    BY <1>14, <1>e DEF InString
  <2>2. /\ buffer[i] = pc /\ buffer[i] # EOF
        /\ n < Len(buffer) => Plain(buffer, i, n)
        /\ \A j \in i + 1..n - 1 : Plain(buffer, i, j) => buffer[j] \notin {buffer[i], EOF}
    BY <1>f, <2>1 DEF Inside, i, n
  <2>3. CASE c = pc /\ Return(start, "string", A1)
    <3>1. n < Len(buffer)
      BY <1>f, <2>1, <2>3
    <3>2. StringEnd(buffer, i) = n
      BY <1>a, <2>1, <2>2, <2>3, <3>1, StringEndIs
    <3>3. A1.idx - 1 = LastOf(buffer, "string", i)
      BY <1>a, <1>c, <3>1, <3>2 DEF LastOf
    <3>. QED
      BY <2>1, <2>3, <3>3, Returned DEF i
  <2>4. CASE c = EOF /\ Return(start, "string", cur)
    <3>1. n < Len(buffer)
      BY <1>f, <2>1, <2>4
    <3>2. StringEnd(buffer, i) = n - 1
      BY <1>a, <2>1, <2>2, <2>4, <3>1, StringEndIs
    <3>3. cur.idx - 1 = LastOf(buffer, "string", i)
      BY <3>2 DEF LastOf, n
    <3>. QED
      BY <2>1, <2>4, <3>3, Returned DEF i
  <2>5. CASE /\ c \notin {pc, EOF} /\ UNCHANGED tok
             /\ Loop(pc, IF pc = "dquote" /\ c = "backslash" THEN A2 ELSE A1)
    <3>1. /\ pc' = pc /\ start'.idx = i /\ c' = cur'.lastChar
          /\ cur' = IF pc = "dquote" /\ c = "backslash" THEN A2 ELSE A1
      BY <2>1, <2>5 DEF Loop, i
    <3>2. /\ cur'.idx < Len(buffer) => Plain(buffer, i, cur'.idx)
          /\ \A j \in i + 1..cur'.idx - 1 : Plain(buffer, i, j) => buffer[j] \notin {pc, EOF}
      <4>1. CASE n = Len(buffer)
        <5>1. c \in Whitespace /\ c # "backslash"
          BY <1>a, <1>f, <2>1, <4>1
        <5>2. cur' = A1 /\ A1 = cur
          BY <1>a, <3>1, <4>1, <5>1, AdvanceType DEF A1, n
        <5>. QED
          BY <1>a, <2>2, <4>1, <5>2 DEF n
      <4>2. CASE n < Len(buffer) /\ ~(pc = "dquote" /\ c = "backslash")
        <5>1. cur'.idx = n + 1
          BY <1>c, <3>1, <4>2
        <5>2. Plain(buffer, i, n + 1)
          <6>1. Plain(buffer, i, n) /\ (buffer[i] # "dquote" \/ buffer[n] # "backslash")
            BY <2>1, <2>2, <4>2
          <6>. QED
            BY <1>a, <2>1, <6>1, PlainNext
        <5>3. ASSUME NEW j \in i + 1..cur'.idx - 1, Plain(buffer, i, j)
              PROVE  buffer[j] \notin {pc, EOF}
          <6>1. j \in i + 1..n - 1 \/ j = n
            BY <1>a, <5>1
          <6>2. CASE j = n
            BY <2>1, <2>5, <6>2
          <6>3. CASE j \in i + 1..n - 1
            BY <2>1, <2>2, <5>3, <6>3
          <6>. QED
            BY <6>1, <6>2, <6>3
        <5>. QED
          BY <5>1, <5>2, <5>3
      <4>3. CASE n < Len(buffer) /\ pc = "dquote" /\ c = "backslash"
        <5>1. ~Plain(buffer, i, n + 1) /\ Plain(buffer, i, n + 2)
          <6>1. Plain(buffer, i, n) /\ buffer[i] = "dquote" /\ buffer[n] = "backslash"
            BY <2>1, <2>2, <4>3
          <6>. QED
            BY <1>a, <2>1, <6>1, PlainNext
        <5>2. A1.idx = n + 1 /\ cur' = A2
          BY <1>c, <3>1, <4>3
        <5>3. cur'.idx \in {n + 1, n + 2} /\ (cur'.idx = n + 1 => n + 1 = Len(buffer))
          <6>1. CASE n + 1 < Len(buffer)
            BY <1>a, <5>2, <6>1, AdvanceType DEF A1, A2
          <6>2. CASE n + 1 = Len(buffer)
            BY <1>a, <5>2, <6>2, AdvanceType DEF A1, A2
          <6>. QED
            BY <1>a, <4>3, <6>1, <6>2
        <5>4. \A j \in i + 1..cur'.idx - 1 : j \in i + 1..n - 1 \/ j = n \/ j = n + 1
          BY <1>a, <5>3
        <5>5. ASSUME NEW j \in i + 1..cur'.idx - 1, Plain(buffer, i, j)
              PROVE  buffer[j] \notin {pc, EOF}
          BY <2>1, <2>2, <2>5, <5>1, <5>4, <5>5
        <5>6. cur'.idx < Len(buffer) => Plain(buffer, i, cur'.idx)
          BY <1>a, <5>1, <5>3
        <5>. QED
          BY <5>5, <5>6, Zenon
      <4>. QED
        BY <1>a, <4>1, <4>2, <4>3
    <3>. QED
      BY <2>1, <2>2, <2>5, <3>1, <3>2, GoesOnQuoted
  <2>. QED
    BY <1>14, <2>3, <2>4, <2>5 DEF InString, A1, A2
<1>15. CASE InWord
  <2>1. pc = "word" /\ UNCHANGED <<buffer, start>> /\ i < n /\ c = buffer[n]
        /\ \A k \in i..n - 1 : buffer[k] \in Alphanum
    BY <1>15, <1>e DEF InWord, Inside, i, n
  <2>2. CASE c \in Alphanum /\ Loop("word", A1) /\ UNCHANGED tok
    <3>1. n < Len(buffer)
      BY <1>e, <2>1, <2>2, Disjoint DEF Blank
    <3>2. cur'.idx = n + 1 /\ pc' = "word" /\ c' = cur'.lastChar /\ start'.idx = i
      BY <1>c, <2>1, <2>2, <3>1 DEF Loop, i
    <3>3. \A k \in i..n + 1 - 1 : buffer[k] \in Alphanum
      <4>1. \A k \in i..n + 1 - 1 : k \in i..n - 1 \/ k = n
        BY <1>a
      <4>. QED
        BY <2>1, <2>2, <4>1
    <3>. QED
      BY <1>a, <2>1, <2>2, <3>2, <3>3, GoesOn
  <2>3. CASE c \notin Alphanum /\ Return(start, "word", cur)
    <3>1. cur.idx - 1 = LastOf(buffer, "word", i)
      BY <1>a, <2>1, <2>3, RunIs DEF LastOf, n
    <3>. QED
      BY <2>1, <2>3, <3>1, Returned DEF i
  <2>. QED
    BY <1>15, <2>2, <2>3 DEF InWord, A1
<1>16. CASE InNumber
  <2>1. pc = "number" /\ UNCHANGED <<buffer, start>> /\ i < n /\ c = buffer[n]
        /\ \A k \in i..n - 1 : buffer[k] \in Digit \cup {"."}
    BY <1>16, <1>e DEF InNumber, Inside, i, n
  <2>2. CASE c \in Digit \cup {"."} /\ Loop("number", A1) /\ UNCHANGED tok
    <3>1. n < Len(buffer)
      BY <1>e, <2>1, <2>2, Disjoint DEF Blank, Alphanum
    <3>2. cur'.idx = n + 1 /\ pc' = "number" /\ c' = cur'.lastChar /\ start'.idx = i
      BY <1>c, <2>1, <2>2, <3>1 DEF Loop, i
    <3>3. \A k \in i..n + 1 - 1 : buffer[k] \in Digit \cup {"."}
      <4>1. \A k \in i..n + 1 - 1 : k \in i..n - 1 \/ k = n
        BY <1>a
      <4>. QED
        BY <2>1, <2>2, <4>1
    <3>. QED
      BY <1>a, <2>1, <2>2, <3>2, <3>3, GoesOn
  <2>3. CASE c \notin Digit \cup {"."} /\ Return(start, "number", cur)
    <3>1. cur.idx - 1 = LastOf(buffer, "number", i)
      BY <1>a, <2>1, <2>3, RunIs DEF LastOf, n
    <3>. QED
      BY <2>1, <2>3, <3>1, Returned DEF i
  <2>. QED
    BY <1>16, <2>2, <2>3 DEF InNumber, A1
<1>17. CASE UNCHANGED vars
  <2>1. Inside'
    BY <1>17 DEF vars, Inside
  <2>. QED
    BY <1>17, <2>1, SameText DEF vars
<1>. QED
  BY <1>1, <1>2, <1>3, <1>4, <1>5, <1>6, <1>7, <1>8, <1>9, <1>10, <1>11, <1>12,
     <1>13, <1>14, <1>15, <1>16, <1>17 DEF Next, Lex

(* In a file that ends with a blank or a newline every token extends as far as its *)
(* class allows, escapes and 0xFF bytes within literals included.                  *)
THEOREM MaximalMunchCorrect == EndsBlank /\ Spec => []MaximalMunch
<1>1. Init => Inside /\ MaximalMunch
  BY DEF Init, NoToken, Inside, MaximalMunch
<1>2. /\ TypeOK /\ LastCharInv /\ TokenInv /\ Inside /\ MaximalMunch
      /\ TypeOK' /\ [Next]_vars
      => TokenInv' /\ Inside' /\ MaximalMunch'
  BY MunchStep, TokenStep
<1>. QED
  BY <1>1, <1>2, TokenStart, CharCorrect, PTL DEF Spec

-----------------------------------------------------------------------------
(* The reference scan: it is defined at every place of the text. *)
LEMMA CommentEndInside ==
  ASSUME NEW text \in Seq(Chars), NEW i \in 1..Len(text)
  PROVE  CommentEnd(text, i) \in i..Len(text)
<1> DEFINE T == {j \in i..Len(text) : Ends(text, i, j)}
<1>1. Len(text) \in Nat
  OBVIOUS
<1>2. T \in SUBSET Nat
  BY <1>1
<1>3. Len(text) \in T
  BY <1>1 DEF Ends
<1>4. Min(T) \in T
  <2> HIDE DEF T
  <2> QED
    BY <1>2, <1>3, MinFacts
<1> QED
  BY <1>4 DEF CommentEnd

LEMMA CommentEndIs ==
  ASSUME NEW text \in Seq(Chars), NEW i \in 1..Len(text), NEW e \in i..Len(text),
         Ends(text, i, e), \A m \in i..e - 1 : ~Ends(text, i, m)
  PROVE  CommentEnd(text, i) = e
<1> DEFINE T == {j \in i..Len(text) : Ends(text, i, j)}
<1>1. Len(text) \in Nat
  OBVIOUS
<1>2. T \in SUBSET Nat /\ e \in T
  BY <1>1
<1>3. ASSUME NEW m \in T PROVE e <= m
  BY <1>1
<1>4. Min(T) = e
  <2> HIDE DEF T
  <2> QED
    BY <1>2, <1>3, MinIs
<1> QED
  BY <1>4 DEF CommentEnd

LEMMA SkipAtEnd ==
  ASSUME NEW text \in Seq(Chars)
  PROVE  Skip(text, Len(text) + 1) = Len(text) + 1
<1> DEFINE i == Len(text) + 1
<1>1. Len(text) \in Nat
  OBVIOUS
<1>2. i > Len(text) /\ ~(i <= Len(text))
  BY <1>1
<1>3. ~IsLineComment(text, i) /\ ~IsBlockComment(text, i)
  BY <1>1 DEF IsLineComment, IsBlockComment, Starts
<1> HIDE DEF i
<1>4. Skip(text, i) = i
  BY <1>2, <1>3 DEF Skip
<1> QED
  BY <1>4 DEF i

LEMMA SkipForward ==
  ASSUME NEW text \in Seq(Chars), NEW i \in 1..Len(text) + 1
  PROVE  Skip(text, i) \in i..Len(text) + 1
<1>1. Len(text) \in Nat
  OBVIOUS
<1>2. CASE i = Len(text) + 1
  BY <1>1, <1>2, SkipAtEnd
<1>3. CASE i <= Len(text)
  <2>1. CommentEnd(text, i) \in i..Len(text)
    BY <1>1, <1>3, CommentEndInside
  <2>2. Skip(text, i) \in {i, i + 1, CommentEnd(text, i) + 1}
    BY <1>1, <1>3 DEF Skip
  <2> QED
    BY <1>1, <1>3, <2>1, <2>2
<1> QED
  BY <1>1, <1>2, <1>3

LEMMA NextSolidIs ==
  ASSUME NEW text \in Seq(Chars), NEW i \in 1..Len(text) + 1
  PROVE  NextSolid(text, i) = IF Skip(text, i) = i THEN i ELSE NextSolid(text, Skip(text, i))
<1> DEFINE N == Len(text) + 1
           s == [k \in 1..N |-> Skip(text, k)]
           f[k \in 1..Len(text) + 1] == IF Skip(text, k) = k THEN k ELSE f[Skip(text, k)]
<1>1. N \in Nat \ {0}
  OBVIOUS
<1>2. s \in [1..N -> 1..N] /\ \A k \in 1..N : k <= s[k]
  <2>1. ASSUME NEW k \in 1..N PROVE Skip(text, k) \in k..N
    BY <2>1, SkipForward
  <2> HIDE DEF N
  <2> QED
    BY <1>1, <2>1
<1>3. PICK g : g = [k \in 1..N |-> IF s[k] = k THEN k ELSE g[s[k]]]
  <2> HIDE DEF N, s, f
  <2> QED
    BY <1>1, <1>2, GoesOnToEnd
<1>4. [k \in 1..N |-> IF s[k] = k THEN k ELSE g[s[k]]]
        = [k \in 1..N |-> IF Skip(text, k) = k THEN k ELSE g[Skip(text, k)]]
  OBVIOUS
<1>5. \E h : h = [k \in 1..Len(text) + 1 |-> IF Skip(text, k) = k THEN k ELSE h[Skip(text, k)]]
  <2> HIDE DEF f
  <2> QED
    BY <1>3, <1>4, Zenon
<1>6. f = [k \in 1..Len(text) + 1 |-> IF Skip(text, k) = k THEN k ELSE f[Skip(text, k)]]
  BY <1>5, Zenon
<1>7. \A k : NextSolid(text, k) = f[k]
  BY Zenon DEF NextSolid
<1> HIDE DEF f
<1> QED
  BY <1>6, <1>7, Zenon

LEMMA NextSolidFacts ==
  ASSUME NEW text \in Seq(Chars), NEW i \in 1..Len(text)
  PROVE  /\ text[i] \in Whitespace => NextSolid(text, i) = NextSolid(text, i + 1)
         /\ IsLineComment(text, i) \/ IsBlockComment(text, i) =>
              NextSolid(text, i) = NextSolid(text, CommentEnd(text, i) + 1)
         /\ text[i] \notin Whitespace /\ ~IsLineComment(text, i) /\ ~IsBlockComment(text, i) =>
              NextSolid(text, i) = i
         /\ NextSolid(text, Len(text) + 1) = Len(text) + 1
<1>1. Len(text) \in Nat /\ i \in 1..Len(text) + 1 /\ i <= Len(text) /\ ~(i > Len(text)) /\ i # i + 1
  OBVIOUS
<1>2. IsLineComment(text, i) \/ IsBlockComment(text, i) => text[i] \notin Whitespace
  BY <1>1 DEF IsLineComment, IsBlockComment, Starts, Whitespace
<1>3. text[i] \in Whitespace => Skip(text, i) = i + 1
  BY <1>1, <1>2 DEF Skip
<1>4. IsLineComment(text, i) \/ IsBlockComment(text, i) =>
        Skip(text, i) = CommentEnd(text, i) + 1 /\ CommentEnd(text, i) + 1 # i
  <2>1. CommentEnd(text, i) + 1 # i
    BY CommentEndInside
  <2> QED
    BY <1>1, <1>2, <2>1 DEF Skip
<1>5. text[i] \notin Whitespace /\ ~IsLineComment(text, i) /\ ~IsBlockComment(text, i) =>
        Skip(text, i) = i
  BY <1>1 DEF Skip
<1>6. NextSolid(text, i) = IF Skip(text, i) = i THEN i ELSE NextSolid(text, Skip(text, i))
  BY <1>1, NextSolidIs
<1>7. NextSolid(text, Len(text) + 1) = Len(text) + 1
  <2>1. Len(text) + 1 \in 1..Len(text) + 1
    BY <1>1
  <2> QED
    BY <2>1, SkipAtEnd, NextSolidIs
<1> QED
  BY <1>1, <1>3, <1>4, <1>5, <1>6, <1>7

LEMMA NextSolidAtEnd ==
  ASSUME NEW text \in Seq(Chars)
  PROVE  NextSolid(text, Len(text) + 1) = Len(text) + 1
<1>1. Len(text) + 1 \in 1..Len(text) + 1
  OBVIOUS
<1> QED
  BY <1>1, SkipAtEnd, NextSolidIs

(* What is between the last token and place n is blank or comment.  At place 0, with    *)
(* nothing read, no token was returned, or the buffer is empty and eof was returned, or *)
(* Reset has left a 0xFF.                                                               *)
EmptyEof == [kind |-> "eof", line |-> cur.line, column |-> cur.column, first |-> 0, last |-> -1]

Reached(n) ==
  IF n = 0 THEN \/ tok.last = 0
                \/ cur.lastChar = EOF
                \/ Len(buffer) = 0 /\ tok = EmptyEof
           ELSE NextSolid(buffer, tok.last + 1) = NextSolid(buffer, n)

(* Where the lexer is in its search for the next lexeme, and what it has seen of a comment *)
Seeking ==
  /\ pc \in {"idle", "skip"} => Reached(cur.idx)
  /\ pc = "skip" /\ c # cur.lastChar => cur.idx = Len(buffer)
  /\ pc \notin {"idle", "skip"} =>
       /\ start.idx \in 1..Len(buffer)
       /\ NextSolid(buffer, tok.last + 1) = NextSolid(buffer, start.idx)
  /\ pc = "line" =>
       /\ IsLineComment(buffer, start.idx) /\ start.idx <= cur.idx
       /\ \A m \in start.idx..cur.idx : buffer[m] \notin {"newline", EOF}
  /\ pc = "block" =>
       /\ IsBlockComment(buffer, start.idx) /\ start.idx + 2 <= cur.idx
       /\ c = cur.lastChar \/ (c = EOF /\ cur.idx = Len(buffer))
       /\ \A m \in start.idx..cur.idx - 1 : buffer[m] # EOF
       /\ \A m \in start.idx + 3..cur.idx : ~Starts(buffer, m - 1, <<"*", "/">>)
  /\ pc \in {"word", "number", "dquote", "squote"} =>
       buffer[start.idx] # EOF /\ NextSolid(buffer, start.idx) = start.idx

(* How a comment begins *)
LEMMA CommentStarts ==
  ASSUME NEW text \in Seq(Chars), NEW i \in 1..Len(text), i < Len(text)
  PROVE  /\ IsLineComment(text, i) <=> text[i] = "#" \/ (text[i] = "/" /\ text[i + 1] = "/")
         /\ IsBlockComment(text, i) <=> text[i] = "/" /\ text[i + 1] = "*"
<1>1. Len(text) \in Nat /\ i + 1 <= Len(text)
  OBVIOUS
<1>2. Starts(text, i, <<"#">>) <=> text[i] = "#"
  BY <1>1 DEF Starts
<1>3. ASSUME NEW a, NEW b PROVE Starts(text, i, <<a, b>>) <=> text[i] = a /\ text[i + 1] = b
  <2>1. Len(<<a, b>>) = 2 /\ <<a, b>>[1] = a /\ <<a, b>>[2] = b
    OBVIOUS
  <2>2. 1..2 = {1, 2} /\ i + 1 - 1 = i /\ i + 2 - 1 = i + 1
    BY <1>1
  <2> QED
    BY <1>1, <2>1, <2>2 DEF Starts
<1> QED
  BY <1>2, <1>3 DEF IsLineComment, IsBlockComment

(* What tok' is when it is not the token that was there *)
Found ==
  tok' # tok /\ tok'.kind # "none" =>
    LET n     == NextSolid(buffer, tok.last + 1)
        end   == n > Len(buffer) \/ buffer[n] = EOF
        stale == cur.idx = 0 /\ cur.lastChar = EOF
    IN  IF tok'.kind = "eof" THEN end \/ stale ELSE ~end /\ tok'.first = n

LEMMA FindsEof ==
  ASSUME TypeOK, LastCharInv, Seeking, EndOfFile
  PROVE  Seeking' /\ Found
<1> DEFINE n == cur.idx
<1>1. /\ buffer \in Seq(Chars) /\ Len(buffer) \in Nat /\ n \in 0..Len(buffer) /\ n \in Nat
      /\ cur \in Cursor
  <2>1. buffer \in Seq(Chars) /\ cur \in Cursor
    BY DEF TypeOK
  <2>2. Len(buffer) \in Nat
    BY <2>1
  <2> QED
    BY <2>1, <2>2 DEF Cursor
<1>2. /\ pc = "skip" /\ c = EOF /\ UNCHANGED buffer /\ cur' = cur /\ pc' = "idle"
      /\ tok' = [kind |-> "eof", line |-> cur.line, column |-> cur.column,
                 first |-> n, last |-> n - 1]
  BY DEF EndOfFile, At, Return
<1>3. CharInv /\ BlankEnd
  BY DEF LastCharInv
<1>4. /\ Reached(n)
      /\ c # cur.lastChar => n = Len(buffer) /\ cur.lastChar \in Whitespace
  BY <1>2, <1>3 DEF Seeking, CharInv
<1>5. EOF \notin Whitespace /\ EOF # "#" /\ EOF # "/"
  BY DEF EOF, Whitespace
<1> HIDE DEF n
<1>6. CASE n = 0
  <2>1. tok' = EmptyEof
    BY <1>2, <1>6 DEF EmptyEof
  <2>2. EmptyEof' = EmptyEof
    BY <1>2 DEF EmptyEof
  <2>3. cur.lastChar # EOF => Len(buffer) = 0
    BY <1>2, <1>4, <1>6
  <2>4. Seeking'
    BY <1>2, <1>6, <2>1, <2>2, <2>3 DEF Seeking, Reached, n
  <2>5. CASE cur.lastChar = EOF
    BY <1>2, <1>6, <2>4, <2>5 DEF Found, n
  <2>6. CASE cur.lastChar # EOF /\ tok = EmptyEof
    BY <2>1, <2>4, <2>6 DEF Found
  <2>7. CASE cur.lastChar # EOF /\ tok.last = 0
    <3>1. tok.last + 1 = Len(buffer) + 1 /\ Len(buffer) + 1 > Len(buffer)
      BY <1>1, <2>3, <2>7
    <3>2. NextSolid(buffer, tok.last + 1) > Len(buffer)
      BY <1>1, <3>1, NextSolidAtEnd
    <3> QED
      BY <1>2, <2>4, <3>2 DEF Found
  <2> QED
    BY <1>4, <1>6, <2>5, <2>6, <2>7 DEF Reached
<1>7. CASE n # 0
  <2>1. n \in 1..Len(buffer) /\ n - 1 + 1 = n
    BY <1>1, <1>7
  <2>2. tok'.last + 1 = n
    BY <1>2, <2>1
  <2>3. Seeking'
    BY <1>2, <1>7, <2>2 DEF Seeking, Reached, n
  <2>4. NextSolid(buffer, tok.last + 1) = NextSolid(buffer, n)
    BY <1>4, <1>7 DEF Reached
  <2>5. cur.lastChar = buffer[n]
    BY <1>1, <1>3, <1>7 DEF CharInv, n
  <2>6. CASE c = cur.lastChar
    <3>1. n < Len(buffer)
      <4>1. n # Len(buffer)
        <5>1. buffer # <<>>
          BY <1>1, <2>1
        <5> QED
          BY <1>2, <1>3, <1>5, <2>5, <2>6, <5>1 DEF BlankEnd
      <4> QED
        BY <2>1, <4>1
    <3>2. NextSolid(buffer, n) = n
      <4>1. ~IsLineComment(buffer, n) /\ ~IsBlockComment(buffer, n)
        BY <1>1, <1>2, <1>5, <2>1, <2>5, <2>6, <3>1, CommentStarts
      <4> QED
        BY <1>1, <1>2, <1>5, <2>1, <2>5, <2>6, <4>1, NextSolidFacts
    <3> QED
      BY <1>2, <2>3, <2>4, <2>5, <2>6, <3>2 DEF Found
  <2>7. CASE c # cur.lastChar
    <3>1. n = Len(buffer) /\ buffer[n] \in Whitespace
      BY <1>4, <2>5, <2>7
    <3>2. NextSolid(buffer, n) = Len(buffer) + 1
      BY <1>1, <2>1, <3>1, NextSolidFacts
    <3>3. Len(buffer) + 1 > Len(buffer)
      BY <1>1
    <3> QED
      BY <1>2, <2>3, <2>4, <3>2, <3>3 DEF Found
  <2> QED
    BY <2>6, <2>7
<1> QED
  BY <1>6, <1>7

(* Where a token was found *)
LEMMA FindsToken ==
  ASSUME TypeOK, NEW s, NEW kind, NEW k \in Cursor, Return(s, kind, k), buffer' = buffer,
         kind # "eof", k.idx # 0, s.idx \in 1..Len(buffer), buffer[s.idx] # EOF,
         NextSolid(buffer, tok.last + 1) = s.idx
  PROVE  Seeking' /\ Found
<1>1. /\ tok'.kind = kind /\ tok'.first = s.idx /\ tok'.last = k.idx - 1
      /\ cur' = k /\ pc' = "idle"
  BY DEF Return
<1>2. Len(buffer) \in Nat /\ k.idx \in Nat /\ k.idx - 1 + 1 = k.idx
  <2>1. Len(buffer) \in Nat
    BY DEF TypeOK
  <2> QED
    BY <2>1 DEF Cursor
<1>3. tok'.last + 1 = k.idx
  BY <1>1, <1>2
<1>4. Seeking'
  BY <1>1, <1>3 DEF Seeking, Reached
<1>5. ~(s.idx > Len(buffer))
  BY <1>2
<1> QED
  BY <1>1, <1>4, <1>5 DEF Found

(* On to another place with nothing found *)
LEMMA SeeksOn ==
  ASSUME tok' = tok, buffer' = buffer, pc' = "skip", cur'.idx # 0,
         NextSolid(buffer, tok.last + 1) = NextSolid(buffer, cur'.idx),
         c' = cur'.lastChar \/ cur'.idx = Len(buffer)
  PROVE  Seeking' /\ Found
BY DEF Seeking, Reached, Found

(* What stands at a place that is no blank *)
LEMMA AtSolid ==
  ASSUME TypeOK, LastCharInv, Seeking, pc = "skip", c \notin Blank
  PROVE  /\ buffer \in Seq(Chars) /\ Len(buffer) \in Nat
         /\ cur.idx \in 1..Len(buffer) /\ cur.idx < Len(buffer) /\ cur.idx # 0
         /\ c = buffer[cur.idx] /\ Peek(cur) = buffer[cur.idx + 1]
         /\ buffer[cur.idx] # EOF
         /\ NextSolid(buffer, tok.last + 1) = NextSolid(buffer, cur.idx)
         /\ Advance(cur) \in Cursor /\ Advance(cur).idx = cur.idx + 1
         /\ Advance(cur).lastChar = buffer[cur.idx + 1]
<1>1. buffer \in Seq(Chars) /\ cur \in Cursor
  BY DEF TypeOK
<1>2. Len(buffer) \in Nat /\ cur.idx \in 0..Len(buffer)
  BY <1>1 DEF Cursor
<1>3. 0 < cur.idx /\ cur.idx < Len(buffer)
  BY SolidInside DEF LastCharInv
<1>4. c = buffer[cur.idx]
  BY <1>3 DEF LastCharInv, CharInv, Blank
<1>5. Peek(cur) = buffer[cur.idx + 1]
  BY <1>1, <1>3, AdvanceType
<1>6. /\ Advance(cur) \in Cursor /\ Advance(cur).idx = cur.idx + 1
      /\ Advance(cur).lastChar = buffer[cur.idx + 1]
  BY <1>1, <1>3, AdvanceType
<1>7. NextSolid(buffer, tok.last + 1) = NextSolid(buffer, cur.idx)
  BY <1>3 DEF Seeking, Reached
<1> QED
  BY <1>1, <1>2, <1>3, <1>4, <1>5, <1>6, <1>7 DEF Blank

(* It is the next lexeme unless a comment begins there. *)
LEMMA AtLexeme ==
  ASSUME TypeOK, LastCharInv, Seeking, pc = "skip", c \notin Blank,
         ~StartsLineComment, ~StartsBlockComment
  PROVE  /\ NextSolid(buffer, cur.idx) = cur.idx
         /\ NextSolid(buffer, tok.last + 1) = cur.idx
<1> DEFINE n == cur.idx
<1>1. /\ buffer \in Seq(Chars) /\ n \in 1..Len(buffer) /\ n < Len(buffer)
      /\ c = buffer[n] /\ Peek(cur) = buffer[n + 1]
      /\ NextSolid(buffer, tok.last + 1) = NextSolid(buffer, n)
  BY AtSolid
<1> HIDE DEF n
<1>2. ~IsLineComment(buffer, n) /\ ~IsBlockComment(buffer, n)
  BY <1>1, CommentStarts DEF StartsLineComment, StartsBlockComment
<1>3. buffer[n] \notin Whitespace
  BY <1>1 DEF Blank
<1>4. NextSolid(buffer, n) = n
  BY <1>1, <1>2, <1>3, NextSolidFacts
<1> QED
  BY <1>1, <1>4 DEF n

(* A comment that begins at i and reaches to e *)
LEMMA Comment ==
  ASSUME NEW text \in Seq(Chars), NEW i \in 1..Len(text), NEW e \in i..Len(text),
         IsLineComment(text, i) \/ IsBlockComment(text, i),
         Ends(text, i, e), \A m \in i..e - 1 : ~Ends(text, i, m)
  PROVE  NextSolid(text, i) = NextSolid(text, e + 1)
BY CommentEndIs, NextSolidFacts

LEMMA LineCommentSeeks ==
  ASSUME TypeOK, LastCharInv, Seeking, InLineComment
  PROVE  Seeking' /\ Found
<1> DEFINE n == cur.idx
           i == start.idx
<1>1. /\ buffer \in Seq(Chars) /\ Len(buffer) \in Nat /\ n \in 0..Len(buffer)
      /\ cur \in Cursor
  <2>1. buffer \in Seq(Chars) /\ cur \in Cursor
    BY DEF TypeOK
  <2>2. Len(buffer) \in Nat
    BY <2>1
  <2> QED
    BY <2>1, <2>2 DEF Cursor
<1>2. /\ i \in 1..Len(buffer) /\ i <= n /\ IsLineComment(buffer, i)
      /\ NextSolid(buffer, tok.last + 1) = NextSolid(buffer, i)
      /\ \A m \in i..n : buffer[m] \notin {"newline", EOF}
      /\ UNCHANGED <<buffer, start, tok>>
  BY DEF InLineComment, Seeking
<1>3. ~IsBlockComment(buffer, i)
  <2>1. 1 \in 1..2 /\ 2 \in 1..2 /\ 1 \in 1..1
    OBVIOUS
  <2>2. IsBlockComment(buffer, i) => buffer[i + 1 - 1] = "/" /\ buffer[i + 2 - 1] = "*"
    BY <2>1 DEF IsBlockComment, Starts
  <2>3. \/ buffer[i + 1 - 1] = "#"
        \/ buffer[i + 1 - 1] = "/" /\ buffer[i + 2 - 1] = "/"
    BY <1>2, <2>1 DEF IsLineComment, Starts
  <2> QED
    BY <2>2, <2>3
<1>4. /\ cur.lastChar = buffer[n]
      /\ buffer # <<>> => buffer[Len(buffer)] \in Whitespace
  BY <1>1, <1>2 DEF LastCharInv, CharInv, BlankEnd
<1> HIDE DEF n, i
<1>5. ASSUME NEW m \in i..n, m # Len(buffer), m < n \/ buffer[n + 1] # EOF
      PROVE  ~Ends(buffer, i, m)
  <2>1. m \in Nat /\ buffer[m] # "newline"
    BY <1>1, <1>2
  <2>2. buffer[m + 1] # EOF
    <3>1. CASE m < n
      <4>1. m + 1 \in i..n
        BY <1>1, <1>2, <3>1
      <4> QED
        BY <1>2, <4>1
    <3>2. CASE m = n
      BY <1>5, <3>2, <1>1, <1>2
    <3> QED
      BY <1>1, <1>2, <3>1, <3>2
  <2> QED
    BY <1>3, <1>5, <2>1, <2>2 DEF Ends
<1>6. CASE n = Len(buffer)
  <2>1. Advance(cur) = cur /\ Peek(cur) = EOF
    BY <1>1, <1>6, AdvanceType DEF n
  <2>2. cur' = cur /\ pc' = "skip" /\ c' = cur'.lastChar
    BY <2>1 DEF InLineComment, Enter
  <2>3. NextSolid(buffer, i) = NextSolid(buffer, n + 1)
    <3>1. Ends(buffer, i, n)
      BY <1>6 DEF Ends
    <3>2. n \in i..Len(buffer) /\ \A m \in i..n - 1 : m \in i..n /\ m # Len(buffer) /\ m < n
      BY <1>1, <1>2, <1>6
    <3>3. \A m \in i..n - 1 : ~Ends(buffer, i, m)
      BY <1>5, <3>2
    <3> QED
      BY <1>1, <1>2, <3>1, <3>2, <3>3, Comment
  <2>4. NextSolid(buffer, n) = NextSolid(buffer, n + 1)
    <3>1. n \in 1..Len(buffer) /\ buffer # <<>>
      BY <1>1, <1>2, <1>6
    <3> QED
      BY <1>1, <1>4, <1>6, <3>1, NextSolidFacts
  <2>5. n # 0
    BY <1>1, <1>2
  <2> QED
    BY <1>2, <2>2, <2>3, <2>4, <2>5, SeeksOn DEF n
<1>7. CASE n < Len(buffer)
  <2>1. /\ Advance(cur).idx = n + 1 /\ Advance(cur).lastChar = buffer[n + 1]
        /\ Peek(cur) = buffer[n + 1]
    BY <1>1, <1>7, AdvanceType DEF n
  <2>2. n + 1 # 0 /\ n + 1 \in 1..Len(buffer) /\ n \in i..Len(buffer)
        /\ n + 1 \in i..Len(buffer) /\ n # Len(buffer)
    BY <1>1, <1>2, <1>7
  <2>3. CASE buffer[n + 1] \in {EOF, "newline"}
    <3>1. cur' = Advance(cur) /\ pc' = "skip" /\ c' = cur'.lastChar
      BY <2>1, <2>3 DEF InLineComment, Enter
    <3>2. NextSolid(buffer, i) = NextSolid(buffer, n + 1)
      <4>1. CASE buffer[n + 1] = EOF
        <5>1. Ends(buffer, i, n)
          BY <1>7, <4>1 DEF Ends
        <5>2. \A m \in i..n - 1 : m \in i..n /\ m # Len(buffer) /\ m < n
          BY <1>1, <1>2, <1>7
        <5>3. \A m \in i..n - 1 : ~Ends(buffer, i, m)
          BY <1>5, <5>2
        <5> QED
          BY <1>1, <1>2, <2>2, <5>1, <5>3, Comment
      <4>2. CASE buffer[n + 1] = "newline"
        <5>1. Ends(buffer, i, n + 1)
          BY <1>3, <4>2 DEF Ends
        <5>2. \A m \in i..n + 1 - 1 : m \in i..n /\ m # Len(buffer)
          BY <1>1, <1>2, <1>7
        <5>3. \A m \in i..n + 1 - 1 : ~Ends(buffer, i, m)
          <6>1. buffer[n + 1] # EOF
            BY <4>2 DEF EOF
          <6> QED
            BY <1>5, <5>2, <6>1
        <5>4. NextSolid(buffer, i) = NextSolid(buffer, n + 1 + 1)
          BY <1>1, <1>2, <2>2, <5>1, <5>3, Comment
        <5>5. NextSolid(buffer, n + 1) = NextSolid(buffer, n + 1 + 1)
          BY <1>1, <2>2, <4>2, NextSolidFacts DEF Whitespace
        <5> QED
          BY <5>4, <5>5
      <4> QED
        BY <2>3, <4>1, <4>2
    <3>3. cur'.idx = n + 1
      BY <2>1, <3>1
    <3> QED
      BY <1>2, <2>2, <3>1, <3>2, <3>3, SeeksOn
  <2>4. CASE buffer[n + 1] \notin {EOF, "newline"}
    <3>1. cur'.idx = n + 1 /\ pc' = "line" /\ UNCHANGED <<buffer, start, tok>>
      BY <2>1, <2>4 DEF InLineComment
    <3>2. i <= n + 1 /\ \A m \in i..n + 1 : m \in i..n \/ m = n + 1
      BY <1>1, <1>2
    <3>3. \A m \in i..n + 1 : buffer[m] \notin {"newline", EOF}
      BY <1>2, <2>4, <3>2
    <3> QED
      BY <1>1, <1>2, <3>1, <3>2, <3>3 DEF Seeking, Found, i
  <2> QED
    BY <2>3, <2>4
<1> QED
  BY <1>1, <1>6, <1>7

LEMMA StarSlashEnds ==
  ASSUME NEW text, NEW i \in Nat, NEW n \in Nat, IsBlockComment(text, i), i + 3 <= n + 1,
         Starts(text, n, <<"*", "/">>)
  PROVE  Ends(text, i, n + 1)
<1>1. n + 1 - 1 = n
  OBVIOUS
<1> QED
  BY <1>1 DEF Ends

LEMMA BlockCommentSeeks ==
  ASSUME TypeOK, LastCharInv, Seeking, InBlockComment
  PROVE  Seeking' /\ Found
<1> DEFINE n == cur.idx
           i == start.idx
<1>1. /\ buffer \in Seq(Chars) /\ Len(buffer) \in Nat /\ n \in 0..Len(buffer)
      /\ cur \in Cursor
  <2>1. buffer \in Seq(Chars) /\ cur \in Cursor
    BY DEF TypeOK
  <2>2. Len(buffer) \in Nat
    BY <2>1
  <2> QED
    BY <2>1, <2>2 DEF Cursor
<1>2. /\ i \in 1..Len(buffer) /\ i + 2 <= n /\ IsBlockComment(buffer, i)
      /\ NextSolid(buffer, tok.last + 1) = NextSolid(buffer, i)
      /\ c = cur.lastChar \/ (c = EOF /\ n = Len(buffer))
      /\ \A m \in i..n - 1 : buffer[m] # EOF
      /\ \A m \in i + 3..n : ~Starts(buffer, m - 1, <<"*", "/">>)
      /\ UNCHANGED <<buffer, start, tok>> /\ pc = "block"
  BY DEF InBlockComment, Seeking
<1>3. n # 0 /\ n \in 1..Len(buffer) /\ n \in Nat /\ i \in Nat
  BY <1>1, <1>2
<1>4. /\ cur.lastChar = buffer[n]
      /\ buffer[Len(buffer)] \in Whitespace
  <2>1. buffer # <<>>
    BY <1>1, <1>3
  <2> QED
    BY <1>1, <1>3, <2>1 DEF LastCharInv, CharInv, BlankEnd
<1>5. EOF \notin Whitespace /\ "*" \notin Whitespace /\ "/" \notin Whitespace
      /\ EOF # "*" /\ EOF # "/"
  BY DEF EOF, Whitespace
<1> HIDE DEF n, i
<1>6. ASSUME NEW m \in i..n, m < Len(buffer), buffer[m + 1] # EOF PROVE ~Ends(buffer, i, m)
  <2>1. m \in Nat /\ m # Len(buffer) /\ (i + 3 <= m => m \in i + 3..n)
    BY <1>1, <1>3, <1>6
  <2> QED
    BY <1>2, <1>6, <2>1 DEF Ends
<1>7. CASE c = EOF
  <2>1. cur' = cur /\ pc' = "skip" /\ c' = cur'.lastChar
    BY <1>5, <1>7 DEF InBlockComment, Enter
  <2>2. NextSolid(buffer, i) = NextSolid(buffer, n)
    <3>1. CASE n < Len(buffer) \/ buffer[n] = EOF
      <4>1. buffer[n] = EOF
        BY <1>2, <1>4, <1>7, <3>1, <1>1
      <4>2. n # Len(buffer)
        BY <1>4, <1>5, <4>1
      <4>3. n - 1 \in i..Len(buffer) /\ n - 1 + 1 = n /\ n - 1 < Len(buffer)
        BY <1>1, <1>2, <1>3, <4>2
      <4>4. Ends(buffer, i, n - 1)
        BY <4>1, <4>3 DEF Ends
      <4>5. ASSUME NEW m \in i..n - 1 - 1 PROVE ~Ends(buffer, i, m)
        <5>1. m \in i..n /\ m < Len(buffer) /\ m + 1 \in i..n - 1
          BY <1>1, <1>3
        <5> QED
          BY <1>2, <1>6, <5>1
      <4> QED
        BY <1>1, <1>2, <4>3, <4>4, <4>5, Comment
    <3>2. CASE n = Len(buffer) /\ buffer[n] # EOF
      <4>1. Ends(buffer, i, n) /\ n \in i..Len(buffer)
        BY <1>1, <1>2, <1>3, <3>2 DEF Ends
      <4>2. ASSUME NEW m \in i..n - 1 PROVE ~Ends(buffer, i, m)
        <5>1. m \in i..n /\ m < Len(buffer) /\ (m + 1 \in i..n - 1 \/ m + 1 = n)
          BY <1>1, <1>3, <3>2
        <5> QED
          BY <1>2, <1>6, <3>2, <5>1
      <4>3. NextSolid(buffer, i) = NextSolid(buffer, n + 1)
        BY <1>1, <1>2, <4>1, <4>2, Comment
      <4> QED
        BY <1>1, <1>3, <1>4, <3>2, <4>3, NextSolidFacts
    <3> QED
      BY <1>1, <1>3, <3>1, <3>2
  <2> QED
    BY <1>2, <1>3, <2>1, <2>2, SeeksOn DEF n
<1>8. CASE c = "*" /\ Peek(cur) = "/"
  <2>1. n < Len(buffer) /\ buffer[n] = "*"
    BY <1>1, <1>2, <1>3, <1>4, <1>5, <1>8 DEF Peek, n
  <2>2. /\ Advance(cur) \in Cursor /\ Advance(cur).idx = n + 1 /\ buffer[n + 1] = "/"
    BY <1>1, <1>8, <2>1, AdvanceType DEF n
  <2>3. n + 1 < Len(buffer)
    <3>1. n + 1 # Len(buffer)
      BY <1>4, <1>5, <2>2
    <3> QED
      BY <1>1, <1>3, <2>1, <3>1
  <2>4. Advance(Advance(cur)).idx = n + 2
    BY <1>1, <1>3, <2>2, <2>3, AdvanceType
  <2>5. /\ pc' = "skip" /\ cur'.idx = n + 2 /\ c' = cur'.lastChar
    BY <1>5, <1>8, <2>4 DEF InBlockComment, Enter
  <2>6. NextSolid(buffer, i) = NextSolid(buffer, n + 1 + 1)
    <3>1. n + 1 \in i..Len(buffer) /\ i + 3 <= n + 1 /\ n + 1 - 1 = n
      BY <1>1, <1>2, <1>3, <2>3
    <3>2. Ends(buffer, i, n + 1)
      <4>1. Starts(buffer, n, <<"*", "/">>)
        <5>1. 1..2 = {1, 2} /\ n + 1 - 1 = n /\ n + 2 - 1 = n + 1 /\ n + 1 <= Len(buffer)
          BY <1>1, <1>3, <2>3
        <5>2. Len(<<"*", "/">>) = 2 /\ <<"*", "/">>[1] = "*" /\ <<"*", "/">>[2] = "/"
          OBVIOUS
        <5> QED
          BY <2>1, <2>2, <5>1, <5>2 DEF Starts
      <4> QED
        BY <1>2, <1>3, <3>1, <4>1, StarSlashEnds
    <3>3. ASSUME NEW m \in i..n + 1 - 1 PROVE ~Ends(buffer, i, m)
      <4>1. m \in i..n /\ m < Len(buffer) /\ (m + 1 \in i..n - 1 \/ m + 1 = n \/ m + 1 = n + 1)
        BY <1>1, <1>3, <2>1
      <4> QED
        BY <1>2, <1>5, <1>6, <2>1, <2>2, <4>1
    <3> QED
      BY <1>1, <1>2, <3>1, <3>2, <3>3, Comment
  <2>7. n + 1 + 1 = n + 2 /\ n + 2 # 0
    BY <1>3
  <2> QED
    BY <1>2, <2>5, <2>6, <2>7, SeeksOn
<1>9. CASE c # EOF /\ ~(c = "*" /\ Peek(cur) = "/")
  <2>1. c = buffer[n] /\ c' = Peek(cur) /\ cur' = Advance(cur) /\ pc' = "block"
    BY <1>2, <1>4, <1>9 DEF InBlockComment
  <2>2. CASE n = Len(buffer)
    <3>1. Peek(cur) = EOF /\ Advance(cur) = cur
      BY <1>1, <2>2, AdvanceType DEF n
    <3> QED
      BY <1>2, <2>1, <2>2, <3>1 DEF Seeking, Found, n, i
  <2>3. CASE n < Len(buffer)
    <3>1. /\ Peek(cur) = buffer[n + 1] /\ cur'.idx = n + 1
          /\ c' = cur'.lastChar
      BY <1>1, <2>1, <2>3, AdvanceType DEF n
    <3>2. /\ i + 2 <= n + 1
          /\ \A m \in i..n + 1 - 1 : m \in i..n - 1 \/ m = n
          /\ \A m \in i + 3..n + 1 : m \in i + 3..n \/ m = n + 1
      BY <1>1, <1>2, <1>3
    <3>3. \A m \in i..n + 1 - 1 : buffer[m] # EOF
      BY <1>2, <1>9, <2>1, <3>2
    <3>4. ~Starts(buffer, n + 1 - 1, <<"*", "/">>)
      <4>1. 1 \in 1..2 /\ 2 \in 1..2 /\ n + 1 - 1 + 1 - 1 = n /\ n + 1 - 1 + 2 - 1 = n + 1
        BY <1>3
      <4>2. Starts(buffer, n + 1 - 1, <<"*", "/">>) => buffer[n] = "*" /\ buffer[n + 1] = "/"
        BY <4>1 DEF Starts
      <4> QED
        BY <1>9, <2>1, <3>1, <4>2
    <3>5. ASSUME NEW m \in i + 3..n + 1 PROVE ~Starts(buffer, m - 1, <<"*", "/">>)
      <4>1. CASE m \in i + 3..n
        BY <1>2, <4>1
      <4>2. CASE m = n + 1
        <5>1. m - 1 = n + 1 - 1
          BY <1>3, <4>2
        <5> QED
          BY <3>4, <5>1, Zenon
      <4> QED
        BY <3>2, <4>1, <4>2
    <3> QED
      BY <1>1, <1>2, <2>1, <3>1, <3>2, <3>3, <3>5 DEF Seeking, Found, i
  <2> QED
    BY <1>1, <2>2, <2>3
<1> QED
  BY <1>7, <1>8, <1>9 DEF InBlockComment

(* Blanks that are skipped, the one before the text (idx 0) included *)
LEMMA BlankSeeks ==
  ASSUME TypeOK, LastCharInv, Seeking, SkipWhitespace
  PROVE  Seeking' /\ Found
<1> DEFINE n == cur.idx
<1>1. /\ buffer \in Seq(Chars) /\ Len(buffer) \in Nat /\ n \in 0..Len(buffer)
      /\ n \in Nat /\ cur \in Cursor
  <2>1. buffer \in Seq(Chars) /\ cur \in Cursor
    BY DEF TypeOK
  <2>2. Len(buffer) \in Nat
    BY <2>1
  <2> QED
    BY <2>1, <2>2 DEF Cursor
<1>2. /\ pc = "skip" /\ pc' = "skip" /\ c' = Peek(cur) /\ cur' = Advance(cur)
      /\ UNCHANGED <<buffer, start, tok>>
  BY DEF SkipWhitespace
<1>3. /\ c \in Whitespace /\ c = cur.lastChar /\ cur.lastChar # EOF
      /\ n # 0 => buffer[n] \in Whitespace
      /\ Reached(n)
  BY <1>1, Disjoint DEF SkipWhitespace, LastCharInv, CharInv, Seeking
<1> HIDE DEF n
<1>4. CASE n = Len(buffer)
  <2>1. cur' = cur
    BY <1>1, <1>2, <1>4, AdvanceType DEF n
  <2>2. EmptyEof' = EmptyEof
    BY <2>1 DEF EmptyEof
  <2> QED
    BY <1>2, <1>3, <1>4, <2>1, <2>2 DEF Seeking, Reached, Found, n
<1>5. CASE n < Len(buffer)
  <2>1. cur'.idx = n + 1 /\ c' = cur'.lastChar /\ n + 1 # 0 /\ Len(buffer) # 0
    BY <1>1, <1>2, <1>5, AdvanceType DEF n
  <2>2. NextSolid(buffer, tok.last + 1) = NextSolid(buffer, n + 1)
    <3>1. CASE n = 0
      <4>1. tok.last = n
        BY <1>3, <2>1, <3>1 DEF Reached
      <4> QED
        BY <4>1
    <3>2. CASE n # 0
      <4>1. n \in 1..Len(buffer)
        BY <1>1, <3>2
      <4> QED
        BY <1>1, <1>3, <3>2, <4>1, NextSolidFacts DEF Reached
    <3> QED
      BY <3>1, <3>2
  <2> QED
    BY <1>2, <2>1, <2>2, SeeksOn
<1> QED
  BY <1>1, <1>4, <1>5

(* The two ways into a comment *)
LEMMA EntersComment ==
  ASSUME TypeOK, LastCharInv, Seeking, LineComment \/ BlockComment
  PROVE  Seeking' /\ Found
<1> DEFINE n == cur.idx
<1>1. /\ pc = "skip" /\ start' = cur /\ UNCHANGED <<buffer, tok>> /\ c \in {"#", "/"}
  BY DEF LineComment, BlockComment, At, Loop, StartsBlockComment
<1>2. c \notin Blank
  BY <1>1, Disjoint DEF Single
<1>3. /\ buffer \in Seq(Chars) /\ Len(buffer) \in Nat
      /\ n \in 1..Len(buffer) /\ n < Len(buffer) /\ n \in Nat
      /\ c = buffer[n] /\ Peek(cur) = buffer[n + 1] /\ buffer[n] # EOF
      /\ NextSolid(buffer, tok.last + 1) = NextSolid(buffer, n)
      /\ Advance(cur) \in Cursor /\ Advance(cur).idx = n + 1
  <2>1. /\ Len(buffer) \in Nat /\ n \in 1..Len(buffer)
    BY <1>1, <1>2, AtSolid
  <2>2. n \in Nat
    BY <2>1
  <2> QED
    BY <1>1, <1>2, <2>2, AtSolid
<1>4. cur'.idx = n \/ BlockComment
  BY DEF LineComment
<1> HIDE DEF n
<1>5. CASE LineComment
  <2>1. cur' = cur /\ pc' = "line" /\ StartsLineComment
    BY <1>5 DEF LineComment
  <2>2. IsLineComment(buffer, n)
    BY <1>3, <2>1, CommentStarts DEF StartsLineComment
  <2>3. ASSUME NEW m \in n..n PROVE buffer[m] \notin {"newline", EOF}
    <3>1. m = n
      BY <1>3
    <3> QED
      BY <1>1, <1>2, <1>3, <3>1 DEF Blank, Whitespace
  <2>4. n <= n
    BY <1>3
  <2> QED
    BY <1>1, <1>3, <2>1, <2>2, <2>3, <2>4 DEF Seeking, Found, n
<1>6. CASE BlockComment
  <2>1. /\ cur' = Advance(Advance(cur)) /\ c' = cur'.lastChar /\ pc' = "block"
        /\ c = "/" /\ Peek(cur) = "*"
    BY <1>6 DEF BlockComment, Loop, StartsBlockComment
  <2>2. buffer[n + 1] = "*" /\ buffer[n + 1] # EOF /\ IsBlockComment(buffer, n)
    BY <1>3, <2>1, CommentStarts DEF EOF
  <2>3. n + 1 < Len(buffer)
    <3>1. n + 1 # Len(buffer)
      <4>1. buffer # <<>> /\ "*" \notin Whitespace
        BY <1>3 DEF Whitespace
      <4> QED
        BY <2>2, <4>1 DEF LastCharInv, BlankEnd
    <3> QED
      BY <1>3, <3>1
  <2>4. cur'.idx = n + 2
    BY <1>3, <2>1, <2>3, AdvanceType
  <2>5. n + 2 <= n + 2
    BY <1>3
  <2>6. ASSUME NEW m \in n..n + 2 - 1 PROVE buffer[m] # EOF
    <3>1. m = n \/ m = n + 1
      BY <1>3
    <3> QED
      BY <1>3, <2>2, <3>1
  <2>7. ASSUME NEW m \in n + 3..n + 2 PROVE FALSE
    BY <1>3
  <2> QED
    BY <1>1, <1>3, <2>1, <2>2, <2>4, <2>5, <2>6, <2>7 DEF Seeking, Found, n
<1> QED
  BY <1>5, <1>6

(* A word, a number or a literal begins at the next lexeme. *)
LEMMA EntersToken ==
  ASSUME TypeOK, LastCharInv, Seeking, Quote \/ Word \/ Number
  PROVE  Seeking' /\ Found
<1>1. /\ pc = "skip" /\ start' = cur /\ UNCHANGED <<buffer, tok>>
      /\ pc' \in {"dquote", "squote", "word", "number"}
      /\ c \in {"dquote", "squote", "."} \cup Alpha \cup Digit
  BY DEF Quote, Word, Number, At, Loop
<1>2. c \notin Blank /\ c \notin {"#", "/"}
  <2>1. c \notin {"#", "/"}
    BY <1>1 DEF Alpha, Digit
  <2> QED
    BY <1>1, <2>1, Disjoint DEF Alphanum
<1>3. /\ cur.idx \in 1..Len(buffer) /\ buffer[cur.idx] # EOF
      /\ NextSolid(buffer, cur.idx) = cur.idx
      /\ NextSolid(buffer, tok.last + 1) = cur.idx
  <2>1. ~StartsLineComment /\ ~StartsBlockComment
    BY <1>2 DEF StartsLineComment, StartsBlockComment
  <2> QED
    BY <1>1, <1>2, <2>1, AtSolid, AtLexeme
<1> QED
  BY <1>1, <1>3 DEF Seeking, Found

(* Symbols are returned where they are found. *)
LEMMA FindsSymbol ==
  ASSUME TypeOK, LastCharInv, Seeking, DoubleOp \/ SingleOp \/ Unknown
  PROVE  Seeking' /\ Found
<1> DEFINE A1 == Advance(cur)
           A2 == Advance(Advance(cur))
<1>1. /\ pc = "skip" /\ UNCHANGED buffer
      /\ \E kind \in {"op", "unk"}, k \in {A1, A2} : Return(cur, kind, k)
  BY DEF DoubleOp, SingleOp, Unknown, At
<1>2. c \notin Blank /\ ~StartsLineComment /\ ~StartsBlockComment
  <2>1. CASE DoubleOp
    <3>1. <<c, Peek(cur)>> \in Double
      BY <2>1 DEF DoubleOp
    <3>2. c \in {"=", "+", "-", "*", "<", ">", "!", "amp", "pipe"}
      BY <3>1 DEF Double
    <3>3. c \notin {"#", "/"}
      BY <3>2
    <3> QED
      BY <3>2, <3>3, Disjoint DEF Single, StartsLineComment, StartsBlockComment
  <2>2. CASE SingleOp
    BY <2>2, Disjoint DEF SingleOp, At
  <2>3. CASE Unknown
    <3>1. c \notin Blank /\ c \notin {"#", "/"}
      BY <2>3 DEF Unknown, Blank, Single
    <3> QED
      BY <3>1 DEF StartsLineComment, StartsBlockComment
  <2> QED
    BY <2>1, <2>2, <2>3
<1>3. /\ cur.idx \in 1..Len(buffer) /\ buffer[cur.idx] # EOF
      /\ NextSolid(buffer, tok.last + 1) = cur.idx
  BY <1>1, <1>2, AtSolid, AtLexeme
<1>4. A1 \in Cursor /\ A2 \in Cursor /\ A1.idx # 0 /\ A2.idx # 0
  <2>1. /\ buffer \in Seq(Chars) /\ Len(buffer) \in Nat /\ cur.idx \in 1..Len(buffer)
        /\ A1 \in Cursor /\ A1.idx = cur.idx + 1
    BY <1>1, <1>2, AtSolid
  <2>2. A1.idx \in Nat /\ A1.idx # 0
    BY <2>1
  <2>3. A2 \in Cursor /\ A2.idx \in {A1.idx, A1.idx + 1}
    <3> HIDE DEF A1
    <3>1. CASE A1.idx < Len(buffer)
      BY <2>1, <3>1, AdvanceType DEF A1
    <3>2. CASE A1.idx >= Len(buffer)
      BY <2>1, <3>2, AdvanceType DEF A1
    <3> QED
      BY <2>1, <2>2, <3>1, <3>2
  <2> QED
    BY <2>1, <2>2, <2>3
<1> HIDE DEF A1, A2
<1> QED
  BY <1>1, <1>3, <1>4, FindsToken

(* In a word, a number or a literal: on, or back to the caller *)
LEMMA InTokenSeeks ==
  ASSUME TypeOK, TokenInv, Seeking, InString \/ InWord \/ InNumber
  PROVE  Seeking' /\ Found
<1> DEFINE A1 == Advance(cur)
<1>1. /\ pc \in {"dquote", "squote", "word", "number"} /\ UNCHANGED <<buffer, start>>
      /\ \/ pc' = pc /\ UNCHANGED tok
         \/ \E kind \in {"string", "word", "number"}, k \in {cur, A1} : Return(start, kind, k)
  BY DEF InString, InWord, InNumber, Loop
<1>2. /\ start.idx \in 1..Len(buffer) /\ buffer[start.idx] # EOF
      /\ NextSolid(buffer, start.idx) = start.idx
      /\ NextSolid(buffer, tok.last + 1) = start.idx
  BY <1>1 DEF Seeking
<1>3. cur \in Cursor /\ A1 \in Cursor /\ cur.idx # 0 /\ A1.idx # 0
  <2>1. buffer \in Seq(Chars) /\ cur \in Cursor /\ start \in Cursor
    BY DEF TypeOK
  <2>2. cur.idx \in Nat /\ start.idx \in Nat /\ Len(buffer) \in Nat
    BY <2>1 DEF Cursor
  <2>3. cur.idx # 0
    BY <1>1, <2>2 DEF TokenInv
  <2>4. A1 \in Cursor /\ A1.idx \in {cur.idx, cur.idx + 1}
    <3>1. CASE cur.idx < Len(buffer)
      BY <2>1, <3>1, AdvanceType
    <3>2. CASE cur.idx >= Len(buffer)
      BY <2>1, <3>2, AdvanceType
    <3> QED
      BY <2>2, <3>1, <3>2
  <2> QED
    BY <2>1, <2>2, <2>3, <2>4
<1> HIDE DEF A1
<1>4. CASE pc' = pc /\ UNCHANGED tok
  BY <1>1, <1>2, <1>4 DEF Seeking, Found
<1>5. CASE \E kind \in {"string", "word", "number"}, k \in {cur, A1} : Return(start, kind, k)
  BY <1>1, <1>2, <1>3, <1>5, FindsToken
<1> QED
  BY <1>1, <1>4, <1>5

LEMMA SeekStep ==
  ASSUME TypeOK, LastCharInv, TokenInv, Seeking, [Next]_vars
  PROVE  Seeking' /\ [Found]_vars
<1>1. CASE Call
  <2>1. /\ pc = "idle" /\ pc' = "skip" /\ cur' = cur /\ c' = cur'.lastChar
        /\ UNCHANGED <<buffer, start, tok>>
    BY <1>1 DEF Call, Enter
  <2>2. Reached(cur.idx) /\ EmptyEof' = EmptyEof
    BY <2>1 DEF Seeking, EmptyEof
  <2> QED
    BY <2>1, <2>2 DEF Seeking, Reached, Found
<1>2. CASE Reset
  BY <1>2 DEF Reset, Seeking, Reached, Found, NoToken
<1>3. CASE InLineComment \/ InBlockComment
  BY <1>3, LineCommentSeeks, BlockCommentSeeks
<1>4. CASE UNCHANGED vars
  <2>1. EmptyEof' = EmptyEof
    BY <1>4 DEF vars, EmptyEof
  <2> QED
    BY <1>4, <2>1 DEF vars, Seeking, Reached
<1> QED
  BY <1>1, <1>2, <1>3, <1>4, BlankSeeks, FindsEof, EntersComment, EntersToken,
     FindsSymbol, InTokenSeeks DEF Next, Lex

(* Every token is the next lexeme: between two tokens there is nothing but blanks  *)
(* and comments, no character of the text is lost and none is lexed twice, and eof *)
(* is returned only where nothing else is left, whatever a file that ends with a   *)
(* blank or a newline holds - 0xFF bytes and comments that nothing closes included.*)
THEOREM NextLexemeCorrect == EndsBlank /\ Spec => NextLexeme
<1>1. Init => Seeking
  BY DEF Init, Seeking, Reached, NoToken
<1>2. /\ TypeOK /\ LastCharInv /\ TokenInv /\ TypeOK' /\ [Next]_vars
      => TokenInv'
  BY TokenStep
<1>3. /\ TypeOK /\ LastCharInv /\ TokenInv /\ Seeking /\ [Next]_vars
      => Seeking' /\ [Found]_vars
  BY SeekStep
<1> QED
  BY <1>1, <1>2, <1>3, TokenStart, CharCorrect, PTL DEF Spec, NextLexeme, Found
=============================================================================
