------------------------------ MODULE MCLexer ------------------------------
(***************************************************************************)
(* The lexer on every short text over four repertoires: comments, strings, *)
(* all kinds of tokens, and lines that include files.                      *)
(***************************************************************************)
EXTENDS Includes

CONSTANTS MaxComment, MaxString, MaxTokens, MaxLines

Singly(chars, n) == {[f \in {Main} |-> s] : s \in BoundedSeq({<<c>> : c \in chars}, n)}

CommentChars == {"-", "*", NL, "a", NUL}
StringChars == {Quote, "'", Backslash, "n", NL, EOF}
TokenChars == {"(", "1", "a", "fn", "_", "!", "=", "-", "*", "&", ":", ".", "@", "include", " "}

Directive2(f) == <<"-", "include", " ", f, NL>>
Line(s) == s \o <<NL>>
MainLines == {Directive2("f"), Directive2("g"), Line(<<"a", "=">>), Line(<<"-", "include">>),
              Line(<<"-", "include", Quote, "f", Backslash, "0", Quote>>), Line(<<"-", "-", "a">>)}
FileLines == {Directive2("f"), Directive2("g"), Line(<<"1">>), Line(<<"-", "-", "a">>)}

Programs == [m : BoundedSeq(MainLines, MaxLines), f : BoundedSeq(FileLines, 2),
             g : BoundedSeq({Line(<<"(">>), Directive2("f")}, 1)]

MCSources == Singly(CommentChars, MaxComment) \cup Singly(StringChars, MaxString)
             \cup Singly(TokenChars, MaxTokens) \cup Programs
MCTexts == {TextOf(source) : source \in MCSources}
=============================================================================
