------------------------------ MODULE Includes ------------------------------
(***************************************************************************)
(* Lexical analysis of a program in several files next to that of the same *)
(* program in one: including a file should be pasting it.  A source is a   *)
(* sequence of lines for each file.                                        *)
(***************************************************************************)
EXTENDS Lexer, SequencesExt

CONSTANTS Sources, DirectiveOf(_)  \* the line that includes a file

VARIABLES pasted, pframes, ptokens, pstatus  \* the program in one file

pvars == <<pasted, pframes, ptokens, pstatus>>

OneFile == INSTANCE Lexer WITH text <- pasted, frames <- pframes, tokens <- ptokens, status <- pstatus

TextOf(source) == [f \in DOMAIN source |-> FlattenSeq(source[f])]

\* The lines of a file with those of the files it includes, n levels deep.
Paste(source, f, n) ==
  LET lines[k \in 0..n, g \in DOMAIN source] ==
        IF k = 0 THEN source[g]
        ELSE FlattenSeq([i \in DOMAIN source[g] |->
               LET named == {h \in DOMAIN source : DirectiveOf(h) = source[g][i]} IN
               IF named = {} THEN <<source[g][i]>>
               ELSE lines[k - 1, CHOOSE h \in named : TRUE]])
  IN  FlattenSeq(lines[n, f])

BothInit == \E source \in Sources :
  /\ InitWith(TextOf(source))
  /\ OneFile!InitWith([f \in {Main} |-> Paste(source, Main, MaxIncludes)])

BothNext ==
  \/ lexer_tokenize /\ UNCHANGED pvars
  \/ status # "lexing" /\ DOMAIN text # {Main} /\ OneFile!lexer_tokenize /\ UNCHANGED lvars
  \/ status # "lexing" /\ (DOMAIN text = {Main} \/ pstatus # "lexing") /\ UNCHANGED <<lvars, pvars>>

BothSpec == BothInit /\ [][BothNext]_<<lvars, pvars>> /\ WF_<<lvars, pvars>>(lexer_tokenize /\ UNCHANGED pvars)

----------------------------------------------------------------------------
(* Properties.                                                             *)

Says(toks) == [i \in 1..Count(toks) |-> <<toks.items[i].kind, toks.items[i].str>>]

\* Including is pasting: a program that the lexer reads without an invalid
\* token has the tokens of the one file in which every directive is replaced
\* by the text it names, if those texts end their last line, no string runs
\* over a line and no block comment is opened.
IncludeIsPaste ==
  /\ status = "done" /\ pstatus = "done"
  /\ \A f \in DOMAIN text : CommentsEnd(text[f]) /\ EOF \notin Range(text[f])
  /\ \A i \in 1..Count(tokens) : /\ tokens.items[i].kind # "INVALID"
                                 /\ NL \notin Range(tokens.items[i].str)
  => Says(tokens) = Says(ptokens)
=============================================================================
