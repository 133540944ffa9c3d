------------------------------ MODULE MCLexer ------------------------------
(***************************************************************************)
(* Source buffers for model checking the lexer.                            *)
(***************************************************************************)
EXTENDS LexerProps

CONSTANTS Letters,   \* the characters of the free part of a buffer
          MaxLen,    \* its length
          Ending     \* what the buffer ends with

(* What separates tokens, what comments and literals are made of, and the byte *)
(* 0xFF, which getNextToken() takes for the end of the file                    *)
AllLetters == {"a", "1", ".", "space", "newline", "/", "*", "=", "+", "amp", "@",
               "dquote", "squote", "backslash", "#", "xFF"}

(* A literal, and what may be in it *)
LiteralLetters == {"a", "newline", "dquote", "squote"}

(* Nothing but names, calls and blanks *)
CallLetters == {"a", "(", ")", ";", "space"}

ClosingBrace == <<"}">>
Newline == <<"newline">>

Texts(letters, length) == UNION {[1..n -> letters] : n \in 0..length}

MCSources == {t \o Ending : t \in Texts(Letters, MaxLen)}

(* Longer ones: what is in a comment, what is in a literal, and what follows them *)
CommentTexts == {<<"/", "*">> \o t : t \in Texts({"*", "/", "a", "newline", "xFF"}, 5)}
LiteralTexts == {<<"dquote">> \o t : t \in Texts({"dquote", "backslash", "a", "newline", "xFF"}, 5)}

LongSources == MCSources \cup {t \o Ending : t \in CommentTexts \cup LiteralTexts}
=============================================================================
