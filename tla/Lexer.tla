------------------------------- MODULE Lexer -------------------------------
(***************************************************************************)
(* Lexical analysis (src/sclc/src/lexer.c): lexer_tokenize scans a file    *)
(* into one array of tokens, and calls itself for every file included.     *)
(*                                                                         *)
(* A text is a sequence of characters.  A character here may also be a     *)
(* whole word of which only the spelling matters: a keyword, or "include". *)
(* read_pos is always pos + 1, and past the end the position stays, for    *)
(* all that is read there is EOF.  EOF is a char of value -1, which the    *)
(* byte 0xFF in a text is as well.                                         *)
(***************************************************************************)
EXTENDS DynamicArray, FiniteSets

CONSTANTS Main,        \* the file that main tokenizes
          Texts,       \* for each choice of files, what each of them holds
          Names,       \* letters, and words that are not reserved
          MaxIncludes  \* calls of lexer_tokenize the C stack has room for

NL == "\n"
NUL == "\\0"
EOF == "0xFF"
Quote == "\""
Backslash == "\\"
Blanks == {" ", "\t", "\r", NL}
Digits == {"0", "1"}
Keywords == {"int", "char", "if", "else", "then", "match", "goto", "loop", "while", "dowhile",
             "in", "for", "continue", "break", "fn", "return"}
Letters == Names \cup Keywords \cup {"include"}
WordChars == Letters \cup Digits \cup {"_"}
OneChar == {"(", ")", "{", "}", "[", "]", ",", "_", "+", "/", "%"}
TwoChar == {<<"!", "=">>, <<"<", "=">>, <<">", "=">>, <<"=", "=">>, <<"=", ">">>}

\* What begins another token than a name, and the end of a line and of a text.
Reserved == Digits \cup Keywords \cup OneChar \cup
  {NL, NUL, EOF, "'", Quote, Backslash, "!", "<", ">", "=", "-", "*", "&", ":", "."}

ASSUME LexerAssumption ==
  /\ Reserved \cap Names = {}
  /\ \A t \in Texts : /\ Main \in DOMAIN t /\ IsFiniteSet(DOMAIN t)
                      /\ \A f \in DOMAIN t : t[f] \in Seq(STRING)
  /\ MaxIncludes \in Nat \ {0}

VARIABLES text,    \* what each file holds
          frames,  \* the calls of lexer_tokenize in progress, innermost last
          tokens,  \* the tokens of all files
          status   \* "lexing", then "done", "exit" after an error, or "crash"

lvars == <<text, frames, tokens, status>>

\* A frame is one lexer: where it is, the line it counts, what it is in the
\* middle of, where that began, and the characters of a string so far.
\* operand: the token being read says which file to include.
Frame(file, pos, line, state, from, str, operand) ==
  [file |-> file, pos |-> pos, line |-> line, state |-> state, from |-> from,
   str |-> str, operand |-> operand]

lexer_init(file) == Frame(file, 1, 1, "next", 1, <<>>, FALSE)

Top == frames[Len(frames)]
Replace(f) == [frames EXCEPT ![Len(frames)] = f]

CharAt(file, i) == IF i <= Len(text[file]) THEN text[file][i] ELSE EOF
Ahead(n) == CharAt(Top.file, Top.pos + n)
Char == Ahead(0)                                   \* l->ch

\* How many characters of S there are from i on.
RunOf(file, i, S) ==
  CHOOSE n \in 0..(Len(text[file]) + 1) :
    /\ CharAt(file, i + n) \notin S
    /\ \A k \in 0..(n - 1) : CharAt(file, i + k) \in S

Run(n, S) == RunOf(Top.file, Top.pos + n, S)
Spelled(from, n) == SubSeq(text[Top.file], from, from + n - 1)

Newlines(file, from, to) == Cardinality({k \in from..to : CharAt(file, k) = NL})

\* Mutant of LinesAfter: the line is counted on reading its newline.
LinesEarly(f, n) == f.line + Newlines(f.file, f.pos + 1, f.pos + n)

\* A line ends when its newline is left behind.
LinesAfter(f, n) == f.line + Newlines(f.file, f.pos, f.pos + n - 1)

\* Frame f after n times lexer_read_char.
Read(f, n, state, from, str) ==
  LET past == Len(text[f.file]) + 1 IN
  Frame(f.file, IF f.pos + n < past THEN f.pos + n ELSE past, LinesAfter(f, n),
        state, from, str, f.operand)

ReadOn(n, state) == frames' = Replace(Read(Top, n, state, Top.from, Top.str))

----------------------------------------------------------------------------
(* What lexer_tokenize does with the token lexer_next_token returns.       *)

\* owned: value.str is a string of its own.  file, from and to say where the
\* token was read, and are not in the program.
Token(f, kind, owned) ==
  [kind |-> kind, line |-> f.line, owned |-> owned, str |-> f.str,
   file |-> f.file, from |-> f.from, to |-> f.pos]

\* The string as C reads it.
Path(tok) == SubSeq(tok.str, 1,
  CHOOSE n \in 0..Len(tok.str) : /\ \A k \in 1..n : tok.str[k] # NUL
                                 /\ n < Len(tok.str) => tok.str[n + 1] = NUL)

\* The token is kept.
Keep(f, tok) ==
  /\ ~f.operand /\ tok.kind \notin {"END", "include"}
  /\ tokens' = dynamic_array_append(tokens, tok)
  /\ frames' = Replace(f)
  /\ UNCHANGED status

\* The next token says which file.
Directive(f, tok) ==
  /\ ~f.operand /\ tok.kind = "include"
  /\ frames' = Replace(Frame(f.file, f.pos, f.line, "next", f.from, <<>>, TRUE))
  /\ UNCHANGED <<tokens, status>>

\* Mutant of Return: only the outermost call appends END.
ReturnWithoutEnd(f, tok) ==
  /\ ~f.operand /\ tok.kind = "END"
  /\ tokens' = IF Len(frames) = 1 THEN dynamic_array_append(tokens, tok) ELSE tokens
  /\ frames' = SubSeq(frames, 1, Len(frames) - 1)
  /\ status' = IF Len(frames) = 1 THEN "done" ELSE status

\* The text ends: the call returns.
Return(f, tok) ==
  /\ ~f.operand /\ tok.kind = "END"
  /\ tokens' = dynamic_array_append(tokens, tok)
  /\ frames' = SubSeq(frames, 1, Len(frames) - 1)
  /\ status' = IF Len(frames) = 1 THEN "done" ELSE status

\* strlen of what is not a string.
NoFileName(f, tok) ==
  /\ f.operand /\ ~tok.owned
  /\ status' = "crash" /\ frames' = Replace(f) /\ UNCHANGED tokens

\* scu_read_file exits.
NoSuchFile(f, tok) ==
  /\ f.operand /\ tok.owned /\ Path(tok) \notin {<<g>> : g \in DOMAIN text}
  /\ status' = "exit" /\ frames' = Replace(f) /\ UNCHANGED tokens

\* Mutant of Include: the next token is still taken for a file name.
IncludeStill(f, tok) ==
  /\ f.operand /\ tok.owned /\ Path(tok) \in {<<g>> : g \in DOMAIN text}
  /\ frames' = IF Len(frames) = MaxIncludes THEN frames ELSE
       Append(Replace(Frame(f.file, f.pos, f.line, "included", f.from, <<>>, TRUE)),
              lexer_init(Path(tok)[1]))
  /\ status' = IF Len(frames) = MaxIncludes THEN "crash" ELSE status
  /\ UNCHANGED tokens

Include(f, tok) ==
  /\ f.operand /\ tok.owned /\ Path(tok) \in {<<g>> : g \in DOMAIN text}
  /\ frames' = IF Len(frames) = MaxIncludes THEN frames ELSE
       Append(Replace(Frame(f.file, f.pos, f.line, "included", f.from, <<>>, FALSE)),
              lexer_init(Path(tok)[1]))
  /\ status' = IF Len(frames) = MaxIncludes THEN "crash" ELSE status
  /\ UNCHANGED tokens

Take(f, tok) == Keep(f, tok) \/ Directive(f, tok) \/ Return(f, tok)
                \/ NoFileName(f, tok) \/ NoSuchFile(f, tok) \/ Include(f, tok)

\* The next n characters are a token.
Yield(n, kind) == LET f == Read(Top, n, "next", Top.pos, <<>>) IN Take(f, Token(f, kind, FALSE))
YieldStr(n, kind, str) == LET f == Read(Top, n, "next", Top.pos, str) IN Take(f, Token(f, kind, TRUE))

\* Mutant of RemoveEnd: remove counts from one.
RemoveNothing ==
  /\ Top.state = "included"
  /\ tokens' = dynamic_array_remove(tokens, Count(tokens))
  /\ ReadOn(0, "next")
  /\ UNCHANGED status

\* Back from the call for an included file, whose END goes.
RemoveEnd ==
  /\ Top.state = "included"
  /\ tokens' = dynamic_array_remove(tokens, Count(tokens) - 1)
  /\ ReadOn(0, "next")
  /\ UNCHANGED status

----------------------------------------------------------------------------
(* lexer_next_token.                                                       *)

skip_whitespaces == Char \in Blanks /\ ReadOn(1, "next") /\ UNCHANGED <<tokens, status>>

End == Char = EOF /\ Yield(1, "END")

Number == Char \in Digits /\ Yield(Run(0, Digits), "INT_LITERAL")

Escapes(quote) == {"n", "t", "r", "0", Backslash, quote}
Unescaped(c) ==
  CASE c = "n" -> NL [] c = "t" -> "\t" [] c = "r" -> "\r" [] c = "0" -> NUL [] OTHER -> c

\* On an error what was read so far is dropped, and the rest scanned again.
CharLiteral ==
  /\ Char = "'"
  /\ LET size == IF Ahead(1) = Backslash THEN 3 ELSE 2 IN
     IF size = 3 /\ Ahead(2) \notin Escapes("'") THEN Yield(2, "INVALID")
     ELSE IF Ahead(size) = "'" THEN Yield(size + 1, "CHAR_LITERAL")
     ELSE Yield(size, "INVALID")

OpenString ==
  /\ Char = Quote
  /\ frames' = Replace(Read(Top, 1, "string", Top.pos, <<>>))
  /\ UNCHANGED <<tokens, status>>

\* A newline is counted here, and again when it is left.
StringChar ==
  /\ Char \notin {Quote, NUL, EOF, Backslash}
  /\ LET f == Read(Top, 1, "string", Top.from, Append(Top.str, Char)) IN
     frames' = Replace(IF Char # NL THEN f
                       ELSE Frame(f.file, f.pos, f.line + 1, f.state, f.from, f.str, f.operand))
  /\ UNCHANGED <<tokens, status>>

StringEscape ==
  /\ Char = Backslash /\ Ahead(1) \in Escapes(Quote)
  /\ frames' = Replace(Read(Top, 2, "string", Top.from, Append(Top.str, Unescaped(Ahead(1)))))
  /\ UNCHANGED <<tokens, status>>

\* What ends a string: its quote, a bad escape, or the end of the text.
StringEnd(n, kind, owned) ==
  LET f == Read(Top, n, "next", Top.from, IF owned THEN Top.str ELSE <<>>) IN
  Take(f, Token(f, kind, owned))

StringLiteral ==
  \/ StringChar
  \/ StringEscape
  \/ Char = Quote /\ StringEnd(1, "STRING_LITERAL", TRUE)
  \/ Char = Backslash /\ Ahead(1) \notin Escapes(Quote) /\ StringEnd(1, "INVALID", FALSE)
  \/ Char \in {NUL, EOF} /\ StringEnd(0, "INVALID", FALSE)

Delimiter == Char \in OneChar /\ Yield(1, Char)

\* Mutant of Comparison: the second character goes in any case.
ComparisonGreedy ==
  /\ Char \in {"!", "<", ">", "="}
  /\ Yield(2, IF <<Char, Ahead(1)>> \in TwoChar THEN "COMPARISON"
              ELSE IF Char = "!" THEN "INVALID" ELSE Char)

Comparison ==
  /\ Char \in {"!", "<", ">", "="}
  /\ IF <<Char, Ahead(1)>> \in TwoChar THEN Yield(2, "COMPARISON")
     ELSE Yield(1, IF Char = "!" THEN "INVALID" ELSE Char)

\* The second character is not passed: it is the first the loop looks at.
OpenComment ==
  /\ Char = "-" /\ Ahead(1) \in {"-", "*"}
  /\ frames' = Replace(Read(Top, 1, Ahead(1), Top.pos, <<>>))
  /\ UNCHANGED <<tokens, status>>

\* Mutant of LineComment: it goes on to the end of the text.
LongComment ==
  /\ IF Char = NUL THEN ReadOn(0, "next") ELSE ReadOn(1, "-")
  /\ UNCHANGED <<tokens, status>>

LineComment ==
  /\ IF Char = NL THEN ReadOn(0, "next") ELSE ReadOn(1, "-")
  /\ UNCHANGED <<tokens, status>>

BlockComment ==
  \/ /\ Char # NUL
     /\ IF Char = "*" /\ Ahead(1) = "-" THEN ReadOn(2, "next") ELSE ReadOn(1, "*")
     /\ UNCHANGED <<tokens, status>>
  \/ /\ Char = NUL
     /\ LET f == Read(Top, 0, "next", Top.from, <<>>) IN Take(f, Token(f, "-", FALSE))

\* A word right after a minus that is not a directive goes with it.
Minus ==
  /\ Char = "-" /\ Ahead(1) \notin {"-", "*"}
  /\ IF Ahead(1) \in Digits THEN Yield(1 + Run(1, Digits), "INT_LITERAL")
     ELSE IF Ahead(1) \in Letters
       THEN LET n == Run(1, WordChars) IN
            Yield(1 + n, IF Spelled(Top.pos + 1, n) = <<"include">> THEN "include" ELSE "-")
     ELSE Yield(1, "-")

\* '*', '&' and ':', that take the word which follows.
Prefix ==
  /\ Char \in {"*", "&", ":"}
  /\ LET n == Run(1, WordChars)
         str == Spelled(Top.pos + 1, n)
     IN  \/ Char = "&" /\ YieldStr(1 + n, "ADDRESS_OF", str)
         \/ Char = "*" /\ n > 0 /\ YieldStr(1 + n, "POINTER", str)
         \/ Char = ":" /\ n > 0 /\ YieldStr(1 + n, "LABEL", str)
         \/ Char # "&" /\ n = 0 /\ Yield(1, Char)

Dots ==
  /\ Char = "."
  /\ IF Ahead(1) # "." THEN Yield(1, "INVALID")
     ELSE IF Ahead(2) # "." THEN Yield(2, "INVALID")
     ELSE Yield(3, "ELLIPSIS")

Word ==
  /\ Char \in Letters
  /\ LET n == Run(0, WordChars)
         str == Spelled(Top.pos, n)
     IN  IF n = 1 /\ Char \in Keywords THEN Yield(1, Char) ELSE YieldStr(n, "IDENTIFIER", str)

Known == Blanks \cup Digits \cup Letters \cup OneChar
         \cup {EOF, "'", Quote, "!", "<", ">", "=", "-", "*", "&", ":", "."}

Unknown == Char \notin Known /\ YieldStr(1, "INVALID", <<Char>>)

lexer_next_token ==
  \/ skip_whitespaces \/ End \/ Number \/ CharLiteral \/ OpenString \/ Delimiter
  \/ Comparison \/ OpenComment \/ Minus \/ Prefix \/ Dots \/ Word \/ Unknown

Step ==
  \/ Top.state = "next" /\ lexer_next_token
  \/ Top.state = "string" /\ StringLiteral
  \/ Top.state = "-" /\ LineComment
  \/ Top.state = "*" /\ BlockComment
  \/ RemoveEnd

lexer_tokenize == status = "lexing" /\ Step /\ UNCHANGED text

InitWith(t) ==
  /\ text = t
  /\ frames = <<lexer_init(Main)>>
  /\ tokens = dynamic_array_init(1)
  /\ status = "lexing"

Init == \E t \in Texts : InitWith(t)

Finished == status # "lexing" /\ UNCHANGED lvars

Next == lexer_tokenize \/ Finished

Spec == Init /\ [][Next]_lvars /\ WF_lvars(lexer_tokenize)

----------------------------------------------------------------------------
(* Properties.                                                             *)

Kinds == {"END", "INVALID", "INT_LITERAL", "CHAR_LITERAL", "STRING_LITERAL", "COMPARISON",
          "ADDRESS_OF", "POINTER", "LABEL", "ELLIPSIS", "IDENTIFIER", "include",
          "-", "*", ":", "<", ">", "="} \cup Keywords \cup OneChar

\* Every frame is within its file and the tokens within the memory of their
\* array: lexer_tokenize and the array it grows.
TypeOK ==
  /\ status \in {"lexing", "done", "exit", "crash"}
  /\ Len(frames) <= MaxIncludes
  /\ \A i \in 1..Len(frames) :
       /\ frames[i].file \in DOMAIN text
       /\ frames[i].pos \in 1..(Len(text[frames[i].file]) + 1)
       /\ frames[i].line \in Nat \ {0}
       /\ frames[i].state \in {"next", "string", "-", "*", "included"}
  /\ \A i \in 1..Count(tokens) : tokens.items[i].kind \in Kinds
  /\ WithinCapacity(tokens)

\* The parser goes by one END: there is one, it is the last token, and until
\* then an END is only there between the return of the call for an included
\* file and its removal.
OneEnd ==
  LET ends == {i \in 1..Count(tokens) : tokens.items[i].kind = "END"} IN
  /\ ends \subseteq {Count(tokens)}
  /\ status = "done" => ends # {}
  /\ status = "lexing" /\ Top.state # "included" => ends = {}

\* Tokens are only ever appended, and the one that is removed is an END: the
\* removal by position in lexer_tokenize never hits a token of the program.
OnlyAnEndIsRemoved ==
  [][ /\ \A i \in 1..Count(tokens') : i <= Count(tokens) => tokens'.items[i] = tokens.items[i]
      /\ Count(tokens') >= Count(tokens)
         \/ /\ Count(tokens') = Count(tokens) - 1
            /\ tokens.items[Count(tokens)].kind = "END" ]_lvars

\* A token's line is the one its last character is on (token.h: where the
\* token is placed), whatever comments and files are between: true as long as
\* no string literal runs over a line, for those newlines count twice.
LinesTrue ==
  \A i \in 1..Count(tokens) :
    LET tok == tokens.items[i] IN
    Quote \notin {text[tok.file][k] : k \in 1..Len(text[tok.file])}
    => tok.line = 1 + Newlines(tok.file, 1, tok.to - 1)

\* The kind or the string of a token shows the word c.
Shows(tok, c) ==
  tok.kind \in {c, "INVALID", "CHAR_LITERAL"} \/ \E k \in 1..Len(tok.str) : tok.str[k] = c

\* Nothing is skipped in silence: what the lexer has passed of a file is in
\* one token, and words in one that shows them, unless a minus stands before
\* (a comment, a directive, or the word the minus takes along).
NothingDropped ==
  status \in {"lexing", "done"} =>
  \A k \in 1..Len(text[Main]) :
    \/ status = "lexing" /\ frames[1].pos <= k
    \/ status = "lexing" /\ Len(frames) = 1 /\ frames[1].from <= k
    \/ text[Main][k] \in Blanks
    \/ \E j \in 1..k : text[Main][j] \in {"-", EOF}
    \/ \E i \in 1..Count(tokens) :
         LET tok == tokens.items[i] IN
         /\ tok.file = Main /\ tok.from <= k /\ k < tok.to
         /\ text[Main][k] \in Letters => \/ Shows(tok, text[Main][k])
                                        \/ text[Main][k - 1] = Backslash

\* The lexer crashes on the token after a directive that is no name, and on
\* files that include each other (each is on the C stack once, if it has room
\* for as many calls as there are files): on no other text does lexer_tokenize fail
\* without a message.
CrashOnlyWhenExpected ==
  status = "crash" /\ Cardinality(DOMAIN text) < MaxIncludes =>
  \/ \E i, j \in 1..Len(frames) : i # j /\ frames[i].file = frames[j].file
  \/ LET s == text[Top.file] IN
     \E k \in 2..(Top.from - 1) :
       /\ s[k - 1] = "-" /\ s[k] = "include"
       /\ \A j \in (k + 1)..(Top.from - 1) : s[j] \in Blanks \/ \E i \in (k + 1)..j : s[i] = "-"
       /\ Top.from <= Len(s) => s[Top.from] \notin Names \cup {"&"}

\* Every text whose line comments end and that opens no block comment is read
\* to its end, or to an error: no loop of the scanner goes on for ever.
CommentsEnd(s) ==
  /\ \A k \in 1..(Len(s) - 1) : s[k] = "-" => s[k + 1] # "*"
  /\ s # <<>> => s[Len(s)] = NL
ReadsToTheEnd == (\A f \in DOMAIN text : CommentsEnd(text[f])) => <>(status # "lexing")
=============================================================================
