----------------------------- MODULE LexerProofs -----------------------------
(***************************************************************************)
(* The lexer on files of any number, length and content: its positions     *)
(* stay within the files, END tokens are where the parser needs them, and  *)
(* each says the truth about its file.                                     *)
(*                                                                         *)
(* A step of the lexer moves within a token, or reads one and deals with   *)
(* it, or comes back from a file included (LEMMA Steps): the invariant is  *)
(* proved for these, not for each kind of token.  A second invariant says  *)
(* what has become of each character passed (PassInv), for which LEMMA     *)
(* ScanSteps says of each kind of token which characters it takes.         *)
(***************************************************************************)
EXTENDS Lexer, ContainerProofs, FiniteSetTheorems

Scanning == {"next", "string", "-", "*"}

NoString(file) == Quote \notin {text[file][k] : k \in 1..Len(text[file])}

\* The line of what ends before pos.
LineIs(file, pos, line) == NoString(file) => line = 1 + Newlines(file, 1, pos - 1)

\* A lexer within its file, with the line it is on.
IsFrame(f) ==
  /\ f.file \in DOMAIN text
  /\ f.pos \in 1..(Len(text[f.file]) + 1)
  /\ f.line \in Nat \ {0}
  /\ f.state \in Scanning \cup {"included"}
  /\ f.state = "string" => ~NoString(f.file)
  /\ LineIs(f.file, f.pos, f.line)

\* The text of tok's file ends where tok was read.
AtTheEnd(tok) ==
  /\ tok.file \in DOMAIN text
  /\ \/ tok.from > Len(text[tok.file])
     \/ text[tok.file][tok.from] = EOF

IsToken(tok) ==
  /\ tok.kind \in Kinds
  /\ tok.kind = "END" => AtTheEnd(tok)
  /\ LineIs(tok.file, tok.to, tok.line)

Last == tokens.items[Count(tokens)]

TypeInv ==
  /\ text \in Texts
  /\ status \in {"lexing", "done", "exit", "crash"}
  /\ IsSequence(frames) /\ Len(frames) <= MaxIncludes
  /\ \A i \in 1..Len(frames) : IsFrame(frames[i])
  /\ IsArray(tokens) /\ tokens.item_size = 1 /\ WithinCapacity(tokens)
  /\ \A i \in 1..Count(tokens) : IsToken(tokens.items[i])

\* All calls but the innermost wait for the file they include.
Waiting ==
  /\ status = "lexing" => Len(frames) # 0
  /\ \A i \in 1..(Len(frames) - 1) : frames[i].state = "included"

\* An END is the last token, and is there when the text is read, or when the
\* call for an included file has returned.
EndIsLast ==
  /\ \A i \in 1..(Count(tokens) - 1) : tokens.items[i].kind # "END"
  /\ status = "done" => Count(tokens) # 0 /\ Last.kind = "END"
  /\ status = "lexing" =>
       (Top.state = "included" <=> Count(tokens) # 0 /\ Last.kind = "END")

Inv == TypeInv /\ Waiting /\ EndIsLast

----------------------------------------------------------------------------
(* Reading characters.                                                     *)

LEMMA TextsAreSequences ==
  ASSUME TypeInv
  PROVE  /\ Main \in DOMAIN text
         /\ \A f \in DOMAIN text : text[f] \in Seq(STRING) /\ Len(text[f]) \in Nat
BY LexerAssumption DEF TypeInv

LEMMA NewlinesCount ==
  ASSUME NEW file, NEW from \in Int, NEW to \in Int
  PROVE  Newlines(file, from, to) \in Nat
<1> DEFINE lines == {k \in from..to : CharAt(file, k) = NL}
<1>1. IsFiniteSet(from..to)
  BY FS_Interval
<1>2. IsFiniteSet(lines)
  BY <1>1, FS_Subset
<1> QED BY <1>2, FS_CardinalityType DEF Newlines

\* The newlines before one place and those from it on to another.
LEMMA NewlinesAdd ==
  ASSUME NEW file, NEW p \in Nat \ {0}, NEW q \in Nat, p <= q + 1
  PROVE  Newlines(file, 1, q) = Newlines(file, 1, p - 1) + Newlines(file, p, q)
<1> DEFINE first == {k \in 1..(p - 1) : CharAt(file, k) = NL}
           then == {k \in p..q : CharAt(file, k) = NL}
<1>1. IsFiniteSet(first) /\ IsFiniteSet(then)
  <2>1. IsFiniteSet(1..(p - 1)) /\ IsFiniteSet(p..q)
    BY FS_Interval
  <2> QED BY <2>1, FS_Subset
<1>2. first \cap then = {}
  OBVIOUS
<1>3. {k \in 1..q : CharAt(file, k) = NL} = first \cup then
  OBVIOUS
<1> HIDE DEF first, then
<1>4. Cardinality(first \cup then) = Cardinality(first) + Cardinality(then) - 0
  <2>1. Cardinality(first \cup then)
        = Cardinality(first) + Cardinality(then) - Cardinality(first \cap then)
    BY <1>1, FS_Union, Zenon
  <2>2. Cardinality(first \cap then) = 0
    BY <1>2, FS_EmptySet, Zenon
  <2> QED BY <2>1, <2>2, Zenon
<1>5. Cardinality(first) \in Nat /\ Cardinality(then) \in Nat
  BY <1>1, FS_CardinalityType
<1>6. Newlines(file, 1, q) = Cardinality(first \cup then)
  BY <1>3 DEF Newlines
<1>7. Newlines(file, 1, p - 1) = Cardinality(first) /\ Newlines(file, p, q) = Cardinality(then)
  BY DEF Newlines, first, then
<1> QED BY <1>4, <1>5, <1>6, <1>7

LEMMA NoNewlinesAtFirst == \A file : Newlines(file, 1, 0) = 0
<1> TAKE file
<1>1. {k \in 1..0 : CharAt(file, k) = NL} = {}
  OBVIOUS
<1> QED BY <1>1, FS_EmptySet DEF Newlines

\* There is none past the end of the text.
LEMMA NoNewlinesPastTheEnd ==
  ASSUME TypeInv, NEW file \in DOMAIN text, NEW p \in Nat, NEW q \in Nat,
         Len(text[file]) < p
  PROVE  Newlines(file, p, q) = 0
<1>1. Len(text[file]) \in Nat
  BY TextsAreSequences
<1>2. \A k \in p..q : CharAt(file, k) = EOF
  BY <1>1 DEF CharAt
<1>3. {k \in p..q : CharAt(file, k) = NL} = {}
  BY <1>2 DEF EOF, NL
<1> QED BY <1>3, FS_EmptySet DEF Newlines

\* A run of characters ends: the end of the text is in none.
LEMMA RunsEnd ==
  ASSUME TypeInv, NEW file \in DOMAIN text, NEW i \in Nat, i # 0, NEW S, EOF \notin S
  PROVE  /\ RunOf(file, i, S) \in Nat
         /\ \A k \in 0..(RunOf(file, i, S) - 1) : CharAt(file, i + k) \in S
<1> DEFINE n == Len(text[file]) + 1
           ends == {k \in 0..n : CharAt(file, i + k) \notin S}
<1>1. Len(text[file]) \in Nat
  BY TextsAreSequences
<1>2. n \in ends
  BY <1>1 DEF CharAt
<1>3. PICK m \in ends : \A k \in ends : m <= k
  <2>1. ends \in SUBSET Nat /\ ends # {}
    BY <1>1, <1>2
  <2> HIDE DEF ends
  <2> QED BY <2>1, SmallestElement
<1>4. m \in 0..n /\ CharAt(file, i + m) \notin S /\ \A k \in 0..(m - 1) : CharAt(file, i + k) \in S
  <2>1. m \in 0..n /\ CharAt(file, i + m) \notin S
    OBVIOUS
  <2>2. ASSUME NEW k \in 0..(m - 1)
        PROVE  CharAt(file, i + k) \in S
    <3>1. k \in 0..n /\ ~(m <= k)
      BY <1>1, <2>1
    <3> QED BY <1>3, <3>1
  <2> QED BY <2>1, <2>2
<1>5. /\ RunOf(file, i, S) \in 0..n
      /\ \A k \in 0..(RunOf(file, i, S) - 1) : CharAt(file, i + k) \in S
  BY <1>4, Zenon DEF RunOf
<1> QED BY <1>1, <1>5

LEMMA NoRunHoldsTheEnd == EOF \notin Digits /\ EOF \notin WordChars /\ EOF \notin Letters
BY LexerAssumption DEF Reserved, Digits, WordChars, Letters, Keywords, EOF

LEMMA Runs ==
  ASSUME TypeInv, Len(frames) # 0, NEW n \in Nat
  PROVE  Run(n, Digits) \in Nat /\ Run(n, WordChars) \in Nat
<1>1. IsFrame(Top) /\ Len(text[Top.file]) \in Nat
  BY TextsAreSequences, SequenceLength DEF TypeInv, Top, IsFrame
<1>2. Top.file \in DOMAIN text /\ Top.pos + n \in Nat /\ Top.pos + n # 0
  BY <1>1 DEF IsFrame
<1> QED BY <1>2, RunsEnd, NoRunHoldsTheEnd DEF Run

\* Reading on leaves the lexer within its file.
LEMMA ReadStays ==
  ASSUME TypeInv, Len(frames) # 0, NEW n \in Nat, NEW state \in Scanning, NEW from, NEW str,
         state = "string" => ~NoString(Top.file)
  PROVE  LET f == Read(Top, n, state, from, str) IN
         IsFrame(f) /\ f.state = state /\ f.file = Top.file /\ f.from = from
<1> DEFINE f == Read(Top, n, state, from, str)
<1>1. IsFrame(Top) /\ Len(text[Top.file]) \in Nat
  BY TextsAreSequences, SequenceLength DEF TypeInv, Top, IsFrame
<1>2. f.file = Top.file /\ f.state = state /\ f.from = from
  BY DEF Read, Frame
<1>3. f.pos = IF Top.pos + n < Len(text[Top.file]) + 1 THEN Top.pos + n ELSE Len(text[Top.file]) + 1
  BY DEF Read, Frame
<1>4. f.line = LinesAfter(Top, n)
  BY DEF Read, Frame
<1> HIDE DEF f
<1>5. f.line \in Nat \ {0}
  <2>1. Newlines(Top.file, Top.pos, Top.pos + n - 1) \in Nat
    BY <1>1, NewlinesCount DEF IsFrame
  <2>2. Top.line \in Nat \ {0}
    BY <1>1 DEF IsFrame
  <2> QED BY <1>4, <2>1, <2>2 DEF LinesAfter
<1>6. f.pos \in 1..(Len(text[f.file]) + 1)
  BY <1>1, <1>2, <1>3 DEF IsFrame
<1>7. f.file \in DOMAIN text
  BY <1>1, <1>2 DEF IsFrame
<1>8. LineIs(f.file, f.pos, f.line)
  <2> SUFFICES ASSUME NoString(Top.file)
               PROVE  f.line = 1 + Newlines(Top.file, 1, f.pos - 1)
    BY <1>2 DEF LineIs
  <2> DEFINE p == Top.pos
             past == Len(text[Top.file]) + 1
             L(a, b) == Newlines(Top.file, a, b)
  <2>1. p \in 1..past /\ past \in Nat \ {0} /\ p \in Nat \ {0} /\ Top.file \in DOMAIN text
    BY <1>1 DEF IsFrame
  <2>2. f.line = 1 + L(1, p - 1) + L(p, p + n - 1)
    BY <1>1, <1>4 DEF LinesAfter, IsFrame, LineIs
  <2>3. p - 1 \in Int /\ p + n - 1 \in Nat /\ p <= (p + n - 1) + 1
    BY <2>1
  <2>4. L(1, p + n - 1) = L(1, p - 1) + L(p, p + n - 1)
    BY <2>1, <2>3, NewlinesAdd
  <2>5. L(1, p - 1) \in Nat /\ L(p, p + n - 1) \in Nat
    BY <2>1, <2>3, NewlinesCount
  <2>6. CASE p + n < past
    <3>1. f.pos = p + n
      BY <1>3, <2>6
    <3> HIDE DEF L
    <3>2. f.line = 1 + L(1, p + n - 1)
      BY <2>2, <2>4, <2>5
    <3>3. f.pos - 1 = p + n - 1
      BY <2>1, <3>1
    <3> QED BY <3>2, <3>3 DEF L
  <2>7. CASE ~(p + n < past)
    <3>1. f.pos = past
      BY <1>3, <2>7
    <3>2. past <= (p + n - 1) + 1 /\ Len(text[Top.file]) < past
      BY <1>1, <2>1, <2>7
    <3>3. L(1, p + n - 1) = L(1, past - 1) + L(past, p + n - 1)
      BY <2>1, <2>3, <3>2, NewlinesAdd
    <3>4. L(past, p + n - 1) = 0
      BY <2>1, <2>3, <3>2, NoNewlinesPastTheEnd
    <3>5. L(1, past - 1) \in Nat
      BY <2>1, NewlinesCount
    <3> HIDE DEF L, past
    <3>6. f.line = 1 + L(1, past - 1)
      BY <2>2, <2>4, <2>5, <3>3, <3>4, <3>5
    <3> QED BY <3>1, <3>6 DEF L
  <2> QED BY <2>6, <2>7
<1> QED BY <1>2, <1>5, <1>6, <1>7, <1>8 DEF IsFrame, f

----------------------------------------------------------------------------
(* What a step does: each definition of the scanner is one of these.       *)

\* It moves within a token, or past white space or a comment.
Moves ==
  \E f : /\ IsFrame(f) /\ f.state \in Scanning
         /\ frames' = Replace(f)
         /\ UNCHANGED <<tokens, status>>

\* It ends a token, with which lexer_tokenize does something.
Takes ==
  \E f, tok : /\ IsFrame(f) /\ f.state = "next"
              /\ IsToken(tok)
              /\ Take(f, tok)

LEMMA YieldTakes ==
  ASSUME TypeInv, Len(frames) # 0, NEW n \in Nat, NEW kind \in Kinds \ {"END"}, Yield(n, kind)
  PROVE  Takes
<1>1. PICK f : f = Read(Top, n, "next", Top.pos, <<>>)
  OBVIOUS
<1>2. IsFrame(f) /\ f.state = "next"
  BY <1>1, ReadStays DEF Scanning
<1>3. IsToken(Token(f, kind, FALSE))
  BY <1>2 DEF IsToken, Token, IsFrame
<1>4. Take(f, Token(f, kind, FALSE))
  BY <1>1 DEF Yield
<1> QED BY <1>2, <1>3, <1>4 DEF Takes

LEMMA YieldStrTakes ==
  ASSUME TypeInv, Len(frames) # 0, NEW n \in Nat, NEW kind \in Kinds \ {"END"}, NEW str,
         YieldStr(n, kind, str)
  PROVE  Takes
<1>1. PICK f : f = Read(Top, n, "next", Top.pos, str)
  OBVIOUS
<1>2. IsFrame(f) /\ f.state = "next"
  BY <1>1, ReadStays DEF Scanning
<1>3. IsToken(Token(f, kind, TRUE))
  BY <1>2 DEF IsToken, Token, IsFrame
<1>4. Take(f, Token(f, kind, TRUE))
  BY <1>1 DEF YieldStr
<1> QED BY <1>2, <1>3, <1>4 DEF Takes

LEMMA StringEndTakes ==
  ASSUME TypeInv, Len(frames) # 0, NEW n \in Nat, NEW kind \in Kinds \ {"END"},
         NEW owned \in BOOLEAN, StringEnd(n, kind, owned)
  PROVE  Takes
<1>1. PICK f : f = Read(Top, n, "next", Top.from, IF owned THEN Top.str ELSE <<>>)
  OBVIOUS
<1>2. IsFrame(f) /\ f.state = "next"
  BY <1>1, ReadStays DEF Scanning
<1>3. IsToken(Token(f, kind, owned))
  BY <1>2 DEF IsToken, Token, IsFrame
<1>4. Take(f, Token(f, kind, owned))
  BY <1>1 DEF StringEnd
<1> QED BY <1>2, <1>3, <1>4 DEF Takes

LEMMA ReadMoves ==
  ASSUME TypeInv, Len(frames) # 0, NEW n \in Nat, NEW state \in Scanning, NEW from, NEW str,
         state = "string" => ~NoString(Top.file),
         frames' = Replace(Read(Top, n, state, from, str)), UNCHANGED <<tokens, status>>
  PROVE  Moves
<1>1. IsFrame(Read(Top, n, state, from, str)) /\ Read(Top, n, state, from, str).state = state
  BY ReadStays
<1> QED BY <1>1 DEF Moves

LEMMA ReadOnMoves ==
  ASSUME TypeInv, Len(frames) # 0, NEW n \in Nat, NEW state \in Scanning \ {"string"},
         ReadOn(n, state), UNCHANGED <<tokens, status>>
  PROVE  Moves
BY ReadMoves DEF ReadOn

\* The END of a text is where the text ends.
LEMMA EndTakes ==
  ASSUME TypeInv, Len(frames) # 0, End
  PROVE  Takes
<1>1. PICK f : f = Read(Top, 1, "next", Top.pos, <<>>)
  OBVIOUS
<1>2. IsFrame(f) /\ f.state = "next" /\ f.file = Top.file /\ f.from = Top.pos
  BY <1>1, ReadStays DEF Scanning
<1>3. IsFrame(Top) /\ Len(text[Top.file]) \in Nat
  BY TextsAreSequences, SequenceLength DEF TypeInv, Top, IsFrame
<1>4. CharAt(Top.file, Top.pos) = EOF
  BY <1>3 DEF End, Char, Ahead, IsFrame
<1>5. Top.pos > Len(text[Top.file]) \/ text[Top.file][Top.pos] = EOF
  BY <1>3, <1>4 DEF CharAt, IsFrame
<1>6. IsToken(Token(f, "END", FALSE))
  BY <1>2, <1>3, <1>5 DEF IsToken, Token, AtTheEnd, Kinds, IsFrame
<1>7. Take(f, Token(f, "END", FALSE))
  BY <1>1 DEF End, Yield
<1> QED BY <1>2, <1>6, <1>7 DEF Takes

LEMMA KindsHold ==
  /\ \A kind \in OneChar \cup Keywords \cup {"<", ">", "=", "*", ":", "-"} : kind \in Kinds \ {"END"}
  /\ \A kind \in {"INVALID", "INT_LITERAL", "CHAR_LITERAL", "STRING_LITERAL", "COMPARISON",
                  "ADDRESS_OF", "POINTER", "LABEL", "ELLIPSIS", "IDENTIFIER", "include"} :
       kind \in Kinds \ {"END"}
BY DEF Kinds, OneChar, Keywords

LEMMA NumberTakes ==
  ASSUME TypeInv, Len(frames) # 0, Number \/ CharLiteral \/ Delimiter \/ Dots
  PROVE  Takes
<1>1. CASE Number
  <2>1. Run(0, Digits) \in Nat
    BY Runs
  <2> QED BY <1>1, <2>1, KindsHold, YieldTakes DEF Number
<1>2. CASE CharLiteral
  <2>1. \E n \in Nat, kind \in {"INVALID", "CHAR_LITERAL"} : Yield(n, kind)
    BY <1>2 DEF CharLiteral
  <2> QED BY <2>1, KindsHold, YieldTakes
<1>3. CASE Delimiter
  BY <1>3, KindsHold, YieldTakes DEF Delimiter
<1>4. CASE Dots
  BY <1>4, KindsHold, YieldTakes DEF Dots
<1> QED BY <1>1, <1>2, <1>3, <1>4

LEMMA ComparisonTakes ==
  ASSUME TypeInv, Len(frames) # 0, Comparison
  PROVE  Takes
<1>1. CASE <<Char, Ahead(1)>> \in TwoChar
  <2>1. Yield(2, "COMPARISON")
    BY <1>1 DEF Comparison
  <2> QED BY <2>1, KindsHold, YieldTakes
<1>2. CASE <<Char, Ahead(1)>> \notin TwoChar /\ Char = "!"
  <2>1. Yield(1, "INVALID")
    BY <1>2 DEF Comparison
  <2> QED BY <2>1, KindsHold, YieldTakes
<1>3. CASE <<Char, Ahead(1)>> \notin TwoChar /\ Char # "!"
  <2>1. Char \in {"<", ">", "="} /\ Yield(1, Char)
    BY <1>3 DEF Comparison
  <2> QED BY <2>1, KindsHold, YieldTakes
<1> QED BY <1>1, <1>2, <1>3

LEMMA MinusTakes ==
  ASSUME TypeInv, Len(frames) # 0, Minus
  PROVE  Takes
<1>1. Run(1, Digits) \in Nat /\ Run(1, WordChars) \in Nat
  BY Runs
<1>2. \E n \in Nat, kind \in {"INT_LITERAL", "include", "-"} : Yield(n, kind)
  <2>1. CASE Ahead(1) \in Digits
    <3>1. 1 + Run(1, Digits) \in Nat
      BY <1>1
    <3> QED BY <2>1, <3>1 DEF Minus
  <2>2. CASE Ahead(1) \notin Digits /\ Ahead(1) \in Letters
    <3> DEFINE n == Run(1, WordChars)
    <3>1. Yield(1 + n, IF Spelled(Top.pos + 1, n) = <<"include">> THEN "include" ELSE "-")
      BY <2>2 DEF Minus
    <3>2. 1 + n \in Nat
      BY <1>1
    <3> QED BY <3>1, <3>2
  <2>3. CASE Ahead(1) \notin Digits /\ Ahead(1) \notin Letters
    BY <2>3 DEF Minus
  <2> QED BY <2>1, <2>2, <2>3
<1> QED BY <1>2, KindsHold, YieldTakes

LEMMA PrefixTakes ==
  ASSUME TypeInv, Len(frames) # 0, Prefix
  PROVE  Takes
<1> DEFINE n == Run(1, WordChars)
           str == Spelled(Top.pos + 1, n)
<1>1. 1 + n \in Nat
  <2>1. n \in Nat
    BY Runs
  <2> QED BY <2>1
<1>2. Char \in {"*", "&", ":"}
  BY DEF Prefix
<1>3. \/ Char = "&" /\ YieldStr(1 + n, "ADDRESS_OF", str)
      \/ Char = "*" /\ n > 0 /\ YieldStr(1 + n, "POINTER", str)
      \/ Char = ":" /\ n > 0 /\ YieldStr(1 + n, "LABEL", str)
      \/ Char # "&" /\ n = 0 /\ Yield(1, Char)
  BY Zenon DEF Prefix
<1> HIDE DEF n, str
<1>4. CASE \E kind \in {"ADDRESS_OF", "POINTER", "LABEL"} : YieldStr(1 + n, kind, str)
  BY <1>1, <1>4, KindsHold, YieldStrTakes
<1>5. CASE Char \in {"*", ":"} /\ Yield(1, Char)
  BY <1>5, KindsHold, YieldTakes
<1> QED BY <1>2, <1>3, <1>4, <1>5

LEMMA WordTakes ==
  ASSUME TypeInv, Len(frames) # 0, Word \/ Unknown
  PROVE  Takes
<1>1. CASE Word
  <2> DEFINE n == Run(0, WordChars)
             str == Spelled(Top.pos, n)
  <2>1. n \in Nat
    BY Runs
  <2>2. IF n = 1 /\ Char \in Keywords THEN Yield(1, Char) ELSE YieldStr(n, "IDENTIFIER", str)
    BY <1>1, Zenon DEF Word
  <2> HIDE DEF n, str
  <2>3. CASE Char \in Keywords /\ Yield(1, Char)
    BY <2>3, KindsHold, YieldTakes
  <2>4. CASE YieldStr(n, "IDENTIFIER", str)
    BY <2>1, <2>4, KindsHold, YieldStrTakes
  <2> QED BY <2>2, <2>3, <2>4
<1>2. CASE Unknown
  BY <1>2, KindsHold, YieldStrTakes DEF Unknown
<1> QED BY <1>1, <1>2

LEMMA StringSteps ==
  ASSUME TypeInv, Len(frames) # 0, Top.state = "string", StringLiteral
  PROVE  Moves \/ Takes
<1>0. IsFrame(Top) /\ ~NoString(Top.file)
  BY SequenceLength DEF TypeInv, Top, IsFrame
<1>1. CASE StringChar
  <2>1. PICK f : f = Read(Top, 1, "string", Top.from, Append(Top.str, Char))
    OBVIOUS
  <2>2. IsFrame(f) /\ f.state = "string" /\ ~NoString(f.file)
    BY <1>0, <2>1, ReadStays DEF Scanning
  <2> DEFINE g == Frame(f.file, f.pos, f.line + 1, f.state, f.from, f.str, f.operand)
  <2>3. IsFrame(g) /\ g.state = "string"
    BY <2>2 DEF IsFrame, Frame, Scanning, LineIs
  <2>4. frames' = Replace(IF Char # NL THEN f ELSE g) /\ UNCHANGED <<tokens, status>>
    BY <1>1, <2>1 DEF StringChar
  <2> HIDE DEF g
  <2> QED BY <2>2, <2>3, <2>4 DEF Moves, Scanning
<1>2. CASE StringEscape
  BY <1>0, <1>2, ReadMoves DEF StringEscape, Scanning
<1>3. CASE Char = Quote /\ StringEnd(1, "STRING_LITERAL", TRUE)
  BY <1>3, KindsHold, StringEndTakes
<1>4. CASE Char = Backslash /\ Ahead(1) \notin Escapes(Quote) /\ StringEnd(1, "INVALID", FALSE)
  BY <1>4, KindsHold, StringEndTakes
<1>5. CASE Char \in {NUL, EOF} /\ StringEnd(0, "INVALID", FALSE)
  BY <1>5, KindsHold, StringEndTakes
<1> QED BY <1>1, <1>2, <1>3, <1>4, <1>5, Zenon DEF StringLiteral

LEMMA CommentSteps ==
  ASSUME TypeInv, Len(frames) # 0,
         skip_whitespaces \/ OpenString \/ OpenComment \/ LineComment \/ BlockComment
  PROVE  Moves \/ Takes
<1>1. CASE skip_whitespaces
  BY <1>1, ReadOnMoves DEF skip_whitespaces, Scanning
<1>2. CASE OpenString
  <2>1. IsFrame(Top) /\ Len(text[Top.file]) \in Nat
    BY TextsAreSequences, SequenceLength DEF TypeInv, Top, IsFrame
  <2>2. ~NoString(Top.file)
    <3>1. CharAt(Top.file, Top.pos) = Quote
      BY <1>2, <2>1 DEF OpenString, Char, Ahead, IsFrame
    <3>2. EOF # Quote
      BY DEF EOF, Quote
    <3>3. Top.pos \in 1..Len(text[Top.file]) /\ text[Top.file][Top.pos] = Quote
      BY <2>1, <3>1, <3>2 DEF CharAt, IsFrame
    <3> QED BY <3>3 DEF NoString
  <2> QED BY <1>2, <2>2, ReadMoves DEF OpenString, Scanning
<1>3. CASE OpenComment
  <2>1. Ahead(1) \in Scanning
    BY <1>3 DEF OpenComment, Scanning
  <2> QED BY <1>3, <2>1, ReadMoves DEF OpenComment
<1>4. CASE LineComment
  BY <1>4, ReadOnMoves DEF LineComment, Scanning
<1>5. CASE BlockComment
  <2>1. CASE Char # NUL
    BY <1>5, <2>1, ReadOnMoves DEF BlockComment, Scanning
  <2>2. CASE Char = NUL
    <3>1. PICK f : f = Read(Top, 0, "next", Top.from, <<>>)
      OBVIOUS
    <3>2. IsFrame(f) /\ f.state = "next"
      BY <3>1, ReadStays DEF Scanning
    <3>3. IsToken(Token(f, "-", FALSE))
      BY <3>2, KindsHold DEF IsToken, Token, IsFrame
    <3>4. Take(f, Token(f, "-", FALSE))
      BY <1>5, <2>2, <3>1 DEF BlockComment
    <3> QED BY <3>2, <3>3, <3>4 DEF Takes
  <2> QED BY <2>1, <2>2
<1> QED BY <1>1, <1>2, <1>3, <1>4, <1>5

LEMMA Steps ==
  ASSUME TypeInv, Len(frames) # 0, Step
  PROVE  (Top.state # "included" /\ (Moves \/ Takes)) \/ RemoveEnd
<1>1. CASE Top.state = "next" /\ lexer_next_token
  BY <1>1, EndTakes, NumberTakes, ComparisonTakes, MinusTakes, PrefixTakes, WordTakes,
     CommentSteps, Zenon DEF lexer_next_token
<1>2. CASE Top.state = "string" /\ StringLiteral
  BY <1>2, StringSteps
<1>3. CASE Top.state \in {"-", "*"} /\ (LineComment \/ BlockComment)
  BY <1>3, CommentSteps
<1> QED BY <1>1, <1>2, <1>3 DEF Step

----------------------------------------------------------------------------
(* The frames and the tokens after a step.                                 *)

FramesOK == IsSequence(frames) /\ Len(frames) <= MaxIncludes /\ \A i \in 1..Len(frames) : IsFrame(frames[i])
TokensOK == /\ IsArray(tokens) /\ tokens.item_size = 1 /\ WithinCapacity(tokens)
            /\ \A i \in 1..Count(tokens) : IsToken(tokens.items[i])

LEMMA TypeParts ==
  /\ TypeInv <=> /\ text \in Texts /\ status \in {"lexing", "done", "exit", "crash"}
                 /\ FramesOK /\ TokensOK
  /\ TypeInv' <=> /\ text' \in Texts /\ status' \in {"lexing", "done", "exit", "crash"}
                  /\ FramesOK' /\ TokensOK'
BY Zenon DEF TypeInv, FramesOK, TokensOK

\* The innermost lexer has moved.
LEMMA Replaced ==
  ASSUME TypeInv, Waiting, Len(frames) # 0, UNCHANGED text, NEW f, IsFrame(f), frames' = Replace(f)
  PROVE  FramesOK' /\ Waiting' /\ Len(frames') = Len(frames) /\ Top' = f
<1> DEFINE new == Replace(f)
<1>0. /\ IsSequence(new) /\ Len(new) = Len(frames)
      /\ \A i \in 1..(Len(frames) - 1) : new[i] = frames[i]
      /\ new[Len(frames)] = f
  BY ReplaceLast DEF TypeInv, Replace
<1> HIDE DEF new
<1>1. /\ IsSequence(frames') /\ Len(frames') = Len(frames)
      /\ \A i \in 1..(Len(frames) - 1) : frames'[i] = frames[i]
      /\ frames'[Len(frames)] = f
  BY <1>0 DEF new
<1>2. Len(frames) \in Nat
  BY SequenceLength DEF TypeInv
<1>3. Top' = f
  BY <1>1 DEF Top
<1>4. \A i \in 1..Len(frames) : IsFrame(frames[i])'
  <2> TAKE i \in 1..Len(frames)
  <2>1. frames'[i] = f \/ (i \in 1..(Len(frames) - 1) /\ frames'[i] = frames[i])
    BY <1>1, <1>2
  <2>2. IsFrame(frames'[i])
    BY <1>2, <2>1 DEF TypeInv
  <2> QED BY <2>2 DEF IsFrame, LineIs, NoString, Newlines, CharAt
<1>5. \A i \in 1..(Len(frames) - 1) : frames'[i].state = "included"
  BY <1>1 DEF Waiting
<1> QED BY <1>1, <1>3, <1>4, <1>5 DEF FramesOK, Waiting, TypeInv

\* A call for a file included has begun.
LEMMA Called ==
  ASSUME TypeInv, Waiting, Len(frames) # 0, UNCHANGED text, NEW f, IsFrame(f),
         f.state = "included", NEW g, IsFrame(g), Len(frames) # MaxIncludes,
         frames' = Append(Replace(f), g)
  PROVE  FramesOK' /\ Waiting' /\ Len(frames') = Len(frames) + 1 /\ Top' = g
<1> DEFINE outer == Replace(f)
<1>1. /\ IsSequence(outer) /\ Len(outer) = Len(frames)
      /\ \A i \in 1..(Len(frames) - 1) : outer[i] = frames[i]
      /\ outer[Len(frames)] = f
  BY ReplaceLast DEF TypeInv, Replace
<1>2. Len(frames) \in Nat /\ Len(frames) <= MaxIncludes /\ MaxIncludes \in Nat
  BY SequenceLength, LexerAssumption DEF TypeInv
<1> HIDE DEF outer
<1>3. /\ IsSequence(frames') /\ Len(frames') = Len(frames) + 1
      /\ \A i \in 1..Len(frames) : frames'[i] = outer[i]
      /\ frames'[Len(frames) + 1] = g
  BY <1>1, AppendSequence DEF outer
<1>4. Top' = g
  BY <1>3 DEF Top
<1>5. \A i \in 1..Len(frames') : IsFrame(frames[i])'
  <2> TAKE i \in 1..Len(frames')
  <2>1. \/ frames'[i] = g
        \/ frames'[i] = f
        \/ i \in 1..(Len(frames) - 1) /\ frames'[i] = frames[i]
    BY <1>1, <1>2, <1>3
  <2>2. IsFrame(frames'[i])
    BY <1>2, <2>1 DEF TypeInv
  <2> QED BY <2>2 DEF IsFrame, LineIs, NoString, Newlines, CharAt
<1>6. \A i \in 1..Len(frames) : frames'[i].state = "included"
  <2> TAKE i \in 1..Len(frames)
  <2>1. frames'[i] = f \/ (i \in 1..(Len(frames) - 1) /\ frames'[i] = frames[i])
    BY <1>1, <1>2, <1>3
  <2> QED BY <2>1 DEF Waiting
<1>7. Len(frames') <= MaxIncludes /\ Len(frames') # 0 /\ Len(frames') - 1 = Len(frames)
  BY <1>2, <1>3
<1> QED BY <1>3, <1>4, <1>5, <1>6, <1>7 DEF FramesOK, Waiting

\* The innermost call has returned.
LEMMA Returned ==
  ASSUME TypeInv, Waiting, Len(frames) # 0, UNCHANGED text,
         frames' = SubSeq(frames, 1, Len(frames) - 1)
  PROVE  /\ FramesOK' /\ Len(frames') = Len(frames) - 1
         /\ Len(frames) # 1 => Waiting' /\ Top'.state = "included"
<1>1. Len(frames) \in Nat /\ Len(frames) - 1 \in Nat /\ Len(frames) <= MaxIncludes
      /\ MaxIncludes \in Nat
  BY SequenceLength, LexerAssumption DEF TypeInv
<1>2. /\ IsSequence(frames') /\ Len(frames') = Len(frames) - 1
      /\ \A i \in 1..(Len(frames) - 1) : frames'[i] = frames[i]
  <2>1. PICK n \in Nat : n = Len(frames) - 1 /\ n <= Len(frames)
    BY <1>1
  <2>2. /\ IsSequence(SubSeq(frames, 1, n))
        /\ Len(SubSeq(frames, 1, n)) = n
        /\ \A i \in 1..n : SubSeq(frames, 1, n)[i] = frames[i]
    BY <2>1, FrontSequence DEF TypeInv
  <2> QED BY <2>1, <2>2
<1>3. \A i \in 1..(Len(frames) - 1) : IsFrame(frames[i])'
  <2> TAKE i \in 1..(Len(frames) - 1)
  <2>1. IsFrame(frames'[i])
    BY <1>1, <1>2 DEF TypeInv
  <2> QED BY <2>1 DEF IsFrame, LineIs, NoString, Newlines, CharAt
<1>4. FramesOK'
  BY <1>1, <1>2, <1>3 DEF FramesOK
<1>5. ASSUME Len(frames) # 1
      PROVE  Waiting' /\ Top'.state = "included"
  <2>1. Len(frames') \in 1..(Len(frames) - 1)
    BY <1>1, <1>2, <1>5
  <2>2. \A i \in 1..Len(frames') : frames'[i].state = "included"
    BY <1>1, <1>2 DEF Waiting
  <2>3. \A i \in 1..(Len(frames') - 1) : frames'[i].state = "included"
    BY <1>1, <2>1, <2>2
  <2>4. Len(frames') \in 1..Len(frames') /\ Len(frames') # 0
    BY <1>1, <2>1
  <2>5. frames'[Len(frames')].state = "included"
    BY <2>2, <2>4, Zenon
  <2> QED BY <2>3, <2>4, <2>5, Zenon DEF Waiting, Top
<1> QED BY <1>2, <1>4, <1>5

\* A token is added.
LEMMA Appended ==
  ASSUME TypeInv, UNCHANGED text, NEW tok, IsToken(tok),
         tokens' = dynamic_array_append(tokens, tok)
  PROVE  /\ TokensOK'
         /\ Count(tokens') = Count(tokens) + 1 /\ Count(tokens) \in Nat
         /\ \A i \in 1..Count(tokens) : tokens'.items[i] = tokens.items[i]
         /\ Last' = tok
<1>1. IsArray(tokens) /\ tokens.item_size = 1 /\ WithinCapacity(tokens)
  BY DEF TypeInv
<1>2. /\ IsArray(tokens') /\ tokens'.item_size = 1
      /\ Count(tokens') = Count(tokens) + 1
      /\ \A i \in 1..Count(tokens) : tokens'.items[i] = tokens.items[i]
      /\ tokens'.items[Count(tokens')] = tok
  BY <1>1, AppendItems
<1>3. WithinCapacity(tokens')
  BY <1>1, AppendWithinCapacity
<1>4. Count(tokens) \in Nat
  BY <1>1, SequenceLength DEF IsArray, Count
<1>5. \A i \in 1..Count(tokens') : IsToken(tokens.items[i])'
  <2> TAKE i \in 1..Count(tokens')
  <2>1. tokens'.items[i] = tok \/ (i \in 1..Count(tokens) /\ tokens'.items[i] = tokens.items[i])
    BY <1>2, <1>4
  <2>2. IsToken(tokens'.items[i])
    BY <2>1 DEF TypeInv
  <2> QED BY <2>2 DEF IsToken, AtTheEnd, LineIs, NoString, Newlines, CharAt
<1> QED BY <1>2, <1>3, <1>4, <1>5 DEF TokensOK, Last

\* The last token is removed.
LEMMA Removed ==
  ASSUME TypeInv, UNCHANGED text, Count(tokens) # 0,
         tokens' = dynamic_array_remove(tokens, Count(tokens) - 1)
  PROVE  /\ TokensOK'
         /\ Count(tokens') = Count(tokens) - 1 /\ Count(tokens) \in Nat
         /\ \A i \in 1..Count(tokens') : tokens'.items[i] = tokens.items[i]
<1>1. IsArray(tokens) /\ tokens.item_size = 1 /\ WithinCapacity(tokens)
  BY DEF TypeInv
<1>2. /\ IsArray(tokens') /\ tokens'.item_size = 1
      /\ Count(tokens') = Count(tokens) - 1
      /\ \A i \in 1..Count(tokens') : tokens'.items[i] = tokens.items[i]
  BY <1>1, RemoveLast
<1>3. Count(tokens) \in Nat /\ tokens.capacity \in Nat
  BY <1>1, SequenceLength DEF IsArray, Count
<1>4. tokens'.capacity = tokens.capacity
  BY DEF dynamic_array_remove
<1>5. WithinCapacity(tokens')
  BY <1>1, <1>2, <1>3, <1>4 DEF WithinCapacity
<1>6. \A i \in 1..Count(tokens') : IsToken(tokens.items[i])'
  <2> TAKE i \in 1..Count(tokens')
  <2>1. IsToken(tokens'.items[i])
    BY <1>2, <1>3 DEF TypeInv
  <2> QED BY <2>1 DEF IsToken, AtTheEnd, LineIs, NoString, Newlines, CharAt
<1> QED BY <1>2, <1>3, <1>5, <1>6 DEF TokensOK

----------------------------------------------------------------------------
(* The invariant.                                                          *)

\* What EndIsLast says of the tokens.
Ended == Count(tokens) # 0 /\ Last.kind = "END"
NoneBefore == \A i \in 1..(Count(tokens) - 1) : tokens.items[i].kind # "END"

\* The action property, of one step.
OnlyAnEndGoes ==
  /\ \A i \in 1..Count(tokens') : i <= Count(tokens) => tokens'.items[i] = tokens.items[i]
  /\ \/ Count(tokens') >= Count(tokens)
     \/ /\ Count(tokens') = Count(tokens) - 1
        /\ tokens.items[Count(tokens)].kind = "END"

LEMMA EndIsLastParts ==
  /\ EndIsLast <=> /\ NoneBefore
                   /\ status = "done" => Ended
                   /\ status = "lexing" => (Top.state = "included" <=> Ended)
  /\ EndIsLast' <=> /\ NoneBefore'
                    /\ status' = "done" => Ended'
                    /\ status' = "lexing" => (Top'.state = "included" <=> Ended')
BY Zenon DEF EndIsLast, NoneBefore, Ended

LEMMA SameTokens ==
  ASSUME TypeInv, UNCHANGED <<tokens, text>>
  PROVE  TokensOK' /\ OnlyAnEndGoes /\ (NoneBefore => NoneBefore') /\ (Ended' <=> Ended)
<1>1. Count(tokens') = Count(tokens) /\ Count(tokens) \in Nat
  BY SequenceLength DEF TypeInv, IsArray, Count
<1>2. TokensOK'
  <2>1. \A i \in 1..Count(tokens) : IsToken(tokens.items[i])'
    <3> TAKE i \in 1..Count(tokens)
    <3>1. IsToken(tokens.items[i])
      BY DEF TypeInv
    <3> QED BY <3>1 DEF IsToken, AtTheEnd, LineIs, NoString, Newlines, CharAt
  <2> QED BY <1>1, <2>1 DEF TypeInv, TokensOK
<1> QED BY <1>1, <1>2 DEF OnlyAnEndGoes, NoneBefore, Ended, Last

LEMMA MoreTokens ==
  ASSUME TypeInv, UNCHANGED text, NEW tok, IsToken(tok), NoneBefore, ~Ended,
         tokens' = dynamic_array_append(tokens, tok)
  PROVE  TokensOK' /\ OnlyAnEndGoes /\ NoneBefore' /\ (Ended' <=> tok.kind = "END")
<1>1. /\ TokensOK'
      /\ Count(tokens') = Count(tokens) + 1 /\ Count(tokens) \in Nat
      /\ \A i \in 1..Count(tokens) : tokens'.items[i] = tokens.items[i]
      /\ Last' = tok
  BY Appended
<1>2. \A i \in 1..Count(tokens) : tokens.items[i].kind # "END"
  BY <1>1 DEF NoneBefore, Ended, Last
<1>3. NoneBefore'
  BY <1>1, <1>2 DEF NoneBefore
<1>4. OnlyAnEndGoes
  BY <1>1 DEF OnlyAnEndGoes
<1> QED BY <1>1, <1>3, <1>4 DEF Ended

LEMMA FewerTokens ==
  ASSUME TypeInv, UNCHANGED text, NoneBefore, Ended,
         tokens' = dynamic_array_remove(tokens, Count(tokens) - 1)
  PROVE  TokensOK' /\ OnlyAnEndGoes /\ NoneBefore' /\ ~Ended'
<1>1. /\ TokensOK'
      /\ Count(tokens') = Count(tokens) - 1 /\ Count(tokens) \in Nat
      /\ \A i \in 1..Count(tokens') : tokens'.items[i] = tokens.items[i]
  BY Removed DEF Ended
<1>2. \A i \in 1..Count(tokens') : tokens'.items[i].kind # "END"
  BY <1>1 DEF NoneBefore
<1>3. NoneBefore'
  BY <1>1, <1>2 DEF NoneBefore
<1>4. ~Ended'
  BY <1>1, <1>2 DEF Ended, Last
<1>5. OnlyAnEndGoes
  BY <1>1 DEF OnlyAnEndGoes, Ended, Last
<1> QED BY <1>1, <1>3, <1>4, <1>5

\* A step from a good state leads to one, and removes nothing but an END.
Good == Inv' /\ OnlyAnEndGoes

LEMMA MovesAreGood ==
  ASSUME Inv, status = "lexing", UNCHANGED text, Top.state # "included", Moves
  PROVE  Good
<1>1. Len(frames) # 0 /\ NoneBefore /\ ~Ended /\ TypeInv
  BY EndIsLastParts DEF Inv, Waiting
<1>2. PICK f : /\ IsFrame(f) /\ f.state \in Scanning
               /\ frames' = Replace(f) /\ UNCHANGED <<tokens, status>>
  BY DEF Moves
<1>3. FramesOK' /\ Waiting' /\ Top' = f
  BY <1>1, <1>2, Replaced DEF Inv
<1>4. TokensOK' /\ OnlyAnEndGoes /\ NoneBefore' /\ ~Ended'
  BY <1>1, <1>2, SameTokens
<1>5. TypeInv'
  BY <1>1, <1>2, <1>3, <1>4, TypeParts
<1>6. EndIsLast'
  BY <1>2, <1>3, <1>4, EndIsLastParts DEF Scanning
<1> QED BY <1>3, <1>4, <1>5, <1>6 DEF Good, Inv

LEMMA RemoveEndIsGood ==
  ASSUME Inv, status = "lexing", UNCHANGED text, RemoveEnd
  PROVE  Good
<1>1. Len(frames) # 0 /\ NoneBefore /\ Ended /\ TypeInv /\ Waiting
  BY EndIsLastParts DEF Inv, Waiting, RemoveEnd
<1>2. PICK f : f = Read(Top, 0, "next", Top.from, Top.str)
  OBVIOUS
<1>3. IsFrame(f) /\ f.state = "next" /\ frames' = Replace(f)
  <2>1. IsFrame(f) /\ f.state = "next"
    BY <1>1, <1>2, ReadStays DEF Scanning
  <2> QED BY <1>2, <2>1 DEF RemoveEnd, ReadOn
<1>4. FramesOK' /\ Waiting' /\ Top' = f
  BY <1>1, <1>3, Replaced
<1>5. TokensOK' /\ OnlyAnEndGoes /\ NoneBefore' /\ ~Ended'
  BY <1>1, FewerTokens DEF RemoveEnd
<1>6. status' = status
  BY DEF RemoveEnd
<1>7. TypeInv'
  BY <1>1, <1>4, <1>5, <1>6, TypeParts
<1>8. EndIsLast'
  BY <1>3, <1>4, <1>5, <1>6, EndIsLastParts
<1> QED BY <1>4, <1>5, <1>7, <1>8 DEF Good, Inv

LEMMA TakesAreGood ==
  ASSUME Inv, status = "lexing", UNCHANGED text, Top.state # "included", Takes
  PROVE  Good
<1>1. Len(frames) # 0 /\ NoneBefore /\ ~Ended /\ TypeInv /\ Waiting
  BY EndIsLastParts DEF Inv, Waiting
<1>2. PICK f, tok : /\ IsFrame(f) /\ f.state = "next"
                    /\ IsToken(tok) /\ Take(f, tok)
  BY DEF Takes
\* The frame with another state or operand is as good.
<1>3. ASSUME NEW state \in {"next", "included"}, NEW operand
      PROVE  LET g == Frame(f.file, f.pos, f.line, state, f.from, <<>>, operand) IN
             IsFrame(g) /\ g.state = state
  BY <1>2 DEF IsFrame, Frame, Scanning
<1>4. CASE Keep(f, tok)
  <2>1. tok.kind # "END" /\ status' = status /\ frames' = Replace(f)
        /\ tokens' = dynamic_array_append(tokens, tok)
    BY <1>4 DEF Keep
  <2>2. FramesOK' /\ Waiting' /\ Top' = f
    BY <1>1, <1>2, <2>1, Replaced
  <2>3. TokensOK' /\ OnlyAnEndGoes /\ NoneBefore' /\ ~Ended'
    BY <1>1, <1>2, <2>1, MoreTokens
  <2>4. TypeInv'
    BY <1>1, <2>1, <2>2, <2>3, TypeParts
  <2>5. EndIsLast'
    BY <1>2, <2>1, <2>2, <2>3, EndIsLastParts
  <2> QED BY <2>2, <2>3, <2>4, <2>5 DEF Good, Inv
<1>5. CASE Directive(f, tok) \/ NoFileName(f, tok) \/ NoSuchFile(f, tok)
  <2>1. PICK g : /\ IsFrame(g) /\ g.state = "next" /\ frames' = Replace(g)
                 /\ tokens' = tokens /\ status' \in {"lexing", "crash", "exit"}
    <3>1. CASE Directive(f, tok)
      BY <1>3, <3>1 DEF Directive, Scanning
    <3>2. CASE NoFileName(f, tok) \/ NoSuchFile(f, tok)
      BY <1>2, <3>2 DEF NoFileName, NoSuchFile
    <3> QED BY <1>5, <3>1, <3>2
  <2>2. FramesOK' /\ Waiting' /\ Top' = g
    BY <1>1, <2>1, Replaced
  <2>3. TokensOK' /\ OnlyAnEndGoes /\ NoneBefore' /\ ~Ended'
    BY <1>1, <2>1, SameTokens
  <2>4. TypeInv'
    BY <1>1, <2>1, <2>2, <2>3, TypeParts
  <2>5. EndIsLast'
    BY <2>1, <2>2, <2>3, EndIsLastParts
  <2> QED BY <2>2, <2>3, <2>4, <2>5 DEF Good, Inv
<1>6. CASE Return(f, tok)
  <2>1. /\ tok.kind = "END" /\ tokens' = dynamic_array_append(tokens, tok)
        /\ frames' = SubSeq(frames, 1, Len(frames) - 1)
        /\ status' = IF Len(frames) = 1 THEN "done" ELSE "lexing"
    BY <1>6 DEF Return
  <2>2. TokensOK' /\ OnlyAnEndGoes /\ NoneBefore' /\ Ended'
    BY <1>1, <1>2, <2>1, MoreTokens
  <2>3. /\ FramesOK' /\ Len(frames') = Len(frames) - 1
        /\ Len(frames) # 1 => Waiting' /\ Top'.state = "included"
    BY <1>1, <2>1, Returned
  <2>4. Waiting'
    <3>1. CASE Len(frames) = 1
      BY <2>1, <2>3, <3>1 DEF Waiting
    <3> QED BY <2>3, <3>1
  <2>5. TypeInv'
    BY <1>1, <2>1, <2>2, <2>3, TypeParts
  <2>6. EndIsLast'
    BY <2>1, <2>2, <2>3, EndIsLastParts
  <2> QED BY <2>2, <2>4, <2>5, <2>6 DEF Good, Inv
<1>7. CASE Include(f, tok) /\ Len(frames) = MaxIncludes
  <2>1. frames' = frames /\ tokens' = tokens /\ status' = "crash"
    BY <1>7 DEF Include
  <2>2. TokensOK' /\ OnlyAnEndGoes /\ NoneBefore' /\ ~Ended'
    BY <1>1, <2>1, SameTokens
  <2>3. FramesOK' /\ Waiting'
    BY <1>1, <2>1 DEF TypeInv, FramesOK, Waiting, IsFrame, LineIs, NoString, Newlines, CharAt
  <2>4. TypeInv'
    BY <1>1, <2>1, <2>2, <2>3, TypeParts
  <2>5. EndIsLast'
    BY <2>1, <2>2, EndIsLastParts
  <2> QED BY <2>2, <2>3, <2>4, <2>5 DEF Good, Inv
<1>8. CASE Include(f, tok) /\ Len(frames) # MaxIncludes
  <2> DEFINE outer == Frame(f.file, f.pos, f.line, "included", f.from, <<>>, FALSE)
             inner == lexer_init(Path(tok)[1])
  <2>1. /\ frames' = Append(Replace(outer), inner)
        /\ tokens' = tokens /\ status' = "lexing"
    BY <1>8 DEF Include
  <2>2. IsFrame(outer) /\ outer.state = "included"
    BY <1>3
  <2>3. IsFrame(inner) /\ inner.state = "next"
    <3>1. PICK g \in DOMAIN text : Path(tok) = <<g>>
      BY <1>8 DEF Include
    <3>2. Len(text[g]) \in Nat
      BY <1>1, TextsAreSequences
    <3>3. inner = Frame(g, 1, 1, "next", 1, <<>>, FALSE)
      BY <3>1 DEF lexer_init
    <3>4. Newlines(g, 1, 0) = 0
      BY NoNewlinesAtFirst
    <3> HIDE DEF inner
    <3> QED BY <3>2, <3>3, <3>4 DEF IsFrame, Frame, Scanning, LineIs
  <2> HIDE DEF outer, inner
  <2>4. FramesOK' /\ Waiting' /\ Top' = inner
    BY <1>1, <1>8, <2>1, <2>2, <2>3, Called
  <2>5. TokensOK' /\ OnlyAnEndGoes /\ NoneBefore' /\ ~Ended'
    BY <1>1, <2>1, SameTokens
  <2>6. TypeInv'
    BY <1>1, <2>1, <2>4, <2>5, TypeParts
  <2>7. EndIsLast'
    BY <2>1, <2>3, <2>4, <2>5, EndIsLastParts
  <2> QED BY <2>4, <2>5, <2>6, <2>7 DEF Good, Inv
<1> QED BY <1>2, <1>4, <1>5, <1>6, <1>7, <1>8, Zenon DEF Take

LEMMA InitInv == Init => Inv
<1> SUFFICES ASSUME Init PROVE Inv
  OBVIOUS
<1>1. PICK t \in Texts : InitWith(t)
  BY DEF Init
<1>2. Main \in DOMAIN t /\ Len(t[Main]) \in Nat /\ MaxIncludes \in Nat \ {0}
  BY LexerAssumption
<1>3. frames = <<lexer_init(Main)>> /\ IsFrame(lexer_init(Main)) /\ lexer_init(Main).state = "next"
  <2>1. Newlines(Main, 1, 0) = 0
    BY NoNewlinesAtFirst
  <2> QED BY <1>1, <1>2, <2>1 DEF InitWith, lexer_init, IsFrame, Frame, Scanning, LineIs
<1>4. IsSequence(frames) /\ Len(frames) = 1 /\ frames[1] = lexer_init(Main)
  <2>1. frames \in Seq({lexer_init(Main)})
    BY <1>3
  <2> QED BY <1>3, <2>1 DEF IsSequence
<1>5. IsArray(tokens) /\ tokens.item_size = 1 /\ tokens.items = <<>> /\ Count(tokens) = 0
  <2>1. <<>> \in Seq({})
    OBVIOUS
  <2>2. IsSequence(<<>>)
    BY <2>1 DEF IsSequence
  <2> QED BY <1>1, <2>2 DEF InitWith, dynamic_array_init, IsArray, Count
<1>6. WithinCapacity(tokens)
  BY <1>5 DEF WithinCapacity, IsArray
<1>7. TypeInv
  BY <1>1, <1>2, <1>3, <1>4, <1>5, <1>6 DEF TypeInv, InitWith
<1>8. Waiting
  BY <1>4 DEF Waiting
<1>9. EndIsLast
  BY <1>1, <1>3, <1>4, <1>5 DEF EndIsLast, InitWith, Top
<1> QED BY <1>7, <1>8, <1>9 DEF Inv

LEMMA StepIsGood ==
  ASSUME Inv, [Next]_lvars
  PROVE  Good
<1>1. CASE lexer_tokenize
  <2>1. status = "lexing" /\ Step /\ UNCHANGED text /\ Len(frames) # 0 /\ TypeInv
    BY <1>1 DEF lexer_tokenize, Inv, Waiting
  <2> QED BY <2>1, Steps, MovesAreGood, TakesAreGood, RemoveEndIsGood
<1>2. CASE UNCHANGED lvars
  <2>1. /\ text' = text /\ frames' = frames /\ tokens' = tokens /\ status' = status
    BY <1>2 DEF lvars
  <2>2. OnlyAnEndGoes
    BY <2>1, SameTokens DEF Inv
  <2>3. TypeInv'
    <3>1. TokensOK'
      BY <2>1, SameTokens DEF Inv
    <3>2. \A i \in 1..Len(frames) : IsFrame(frames[i])'
      <4> TAKE i \in 1..Len(frames)
      <4>1. IsFrame(frames[i])
        BY DEF Inv, TypeInv
      <4> QED BY <2>1, <4>1 DEF IsFrame, LineIs, NoString, Newlines, CharAt
    <3>3. FramesOK'
      BY <2>1, <3>2 DEF Inv, TypeInv, FramesOK
    <3> QED BY <2>1, <3>1, <3>3, TypeParts DEF Inv
  <2>4. Waiting' /\ EndIsLast'
    BY <2>1 DEF Inv, Waiting, EndIsLast, Last, Top
  <2> QED BY <2>2, <2>3, <2>4 DEF Good, Inv
<1> QED BY <1>1, <1>2 DEF Next, Finished

----------------------------------------------------------------------------
(* What is passed, and what is expected.                                   *)

\* A directive whose file name is still to come, with nothing but white space
\* and comments between it and end.
PendingAt(file, end) ==
  \E k \in 2..(end - 1) :
    /\ text[file][k - 1] = "-" /\ text[file][k] = "include"
    /\ \A j \in (k + 1)..(end - 1) :
         text[file][j] \in Blanks \/ \E i \in (k + 1)..j : text[file][i] = "-"

\* Where what a lexer is in the middle of began.
Start(f) == IF f.state \in {"next", "included"} THEN f.pos ELSE f.from

\* A word c of the text, in the characters str of a string.
InStr(str, c) == \E m \in 1..Len(str) : str[m] = c

\* A lexer in the middle of a string or a comment is past its first character,
\* and has all the words of a string.
Opened(f) ==
  f.state \in {"string", "-", "*"} =>
    /\ f.from \in 1..(f.pos - 1)
    /\ text[f.file][f.from] = IF f.state = "string" THEN Quote ELSE "-"
HasWords(f) ==
  f.state = "string" =>
    /\ IsSequence(f.str)
    /\ \A k \in f.from..(f.pos - 1) :
         text[f.file][k] \in Letters =>
           InStr(f.str, text[f.file][k]) \/ text[f.file][k - 1] = Backslash
Expects(f) == f.operand => f.state # "included" /\ PendingAt(f.file, Start(f))

FrameInv(f) == Opened(f) /\ HasWords(f) /\ Expects(f)

\* What is said of a character of the main file when it has been passed.
Covers(tok, k) ==
  /\ tok.file = Main /\ tok.from \in 1..k /\ k < tok.to
  /\ text[Main][k] \in Letters => \/ Shows(tok, text[Main][k])
                                 \/ text[Main][k - 1] = Backslash
Accounted(k) ==
  \/ text[Main][k] \in Blanks
  \/ \E j \in 1..k : text[Main][j] \in {"-", EOF}
  \/ \E i \in 1..Count(tokens) : Covers(tokens.items[i], k)

MainInv ==
  /\ status = "lexing" =>
       frames[1].file = Main /\ \A k \in 1..(Start(frames[1]) - 1) : Accounted(k)
  /\ status = "done" => \A k \in 1..Len(text[Main]) : Accounted(k)

PassInv ==
  /\ status = "lexing" => \A i \in 1..Len(frames) : FrameInv(frames[i])
  /\ MainInv
  /\ CrashOnlyWhenExpected

----------------------------------------------------------------------------
(* What a step passes.                                                     *)

\* The innermost lexer has become f, in the middle of something.
Moved(f) ==
  /\ f.file = Top.file /\ f.operand = Top.operand /\ f.state \in Scanning
  /\ Opened(f) /\ HasWords(f)
  /\ Start(f) \in Nat /\ Start(Top) <= Start(f)
  /\ \A k \in Start(Top)..(Start(f) - 1) :
       text[Top.file][k] \in Blanks \/ text[Top.file][Start(Top)] = "-"

\* The innermost lexer, become f, has read the token tok.
Scanned(f, tok) ==
  LET s == text[Top.file] IN
  /\ f.file = Top.file /\ f.operand = Top.operand /\ f.state = "next"
  /\ f.from = Start(Top) /\ f.pos \in f.from..(Len(s) + 1)
  /\ tok.file = f.file /\ tok.from = f.from /\ tok.to = f.pos
  /\ ~tok.owned /\ f.from <= Len(s) => s[f.from] \notin Names \cup {"&"}
  /\ tok.kind = "include" => f.pos = f.from + 2 /\ s[f.from] = "-" /\ s[f.from + 1] = "include"
  /\ tok.kind = "END" => f.from > Len(s) \/ s[f.from] = EOF
  /\ \A k \in f.from..(f.pos - 1) :
       s[k] \in Letters => s[f.from] = "-" \/ Shows(tok, s[k]) \/ s[k - 1] = Backslash

StepMoves == \E f : Moved(f) /\ frames' = Replace(f) /\ UNCHANGED <<tokens, status>>
StepTakes == \E f, tok : Scanned(f, tok) /\ Take(f, tok)

LEMMA Here ==
  ASSUME TypeInv, Len(frames) # 0
  PROVE  /\ IsFrame(Top) /\ Top.file \in DOMAIN text /\ Top.pos \in Nat \ {0}
         /\ text[Top.file] \in Seq(STRING) /\ Len(text[Top.file]) \in Nat
         /\ Top.pos <= Len(text[Top.file]) + 1
         /\ \A n \in Nat : Ahead(n) # EOF => /\ Top.pos + n <= Len(text[Top.file])
                                            /\ Ahead(n) = text[Top.file][Top.pos + n]
         /\ Char = Ahead(0)
         /\ Top.pos <= Len(text[Top.file]) => Char = text[Top.file][Top.pos]
<1>1. IsFrame(Top)
  BY SequenceLength DEF TypeInv, Top
<1>2. Top.file \in DOMAIN text /\ Top.pos \in 1..(Len(text[Top.file]) + 1)
  BY <1>1 DEF IsFrame
<1>3. text[Top.file] \in Seq(STRING) /\ Len(text[Top.file]) \in Nat
  BY <1>2, TextsAreSequences
<1> QED BY <1>1, <1>2, <1>3 DEF Char, Ahead, CharAt

\* A lexer that has read on.
LEMMA ReadFields ==
  ASSUME TypeInv, Len(frames) # 0, NEW n \in Nat, NEW state, NEW from, NEW str
  PROVE  LET f == Read(Top, n, state, from, str) IN
         /\ f.file = Top.file /\ f.operand = Top.operand /\ f.state = state
         /\ f.from = from /\ f.str = str
         /\ f.pos \in Top.pos..(Len(text[Top.file]) + 1) /\ f.pos <= Top.pos + n
         /\ Top.pos + n <= Len(text[Top.file]) + 1 => f.pos = Top.pos + n
<1> DEFINE f == Read(Top, n, state, from, str)
<1>1. /\ f.file = Top.file /\ f.operand = Top.operand /\ f.state = state
      /\ f.from = from /\ f.str = str
      /\ f.pos = IF Top.pos + n < Len(text[Top.file]) + 1 THEN Top.pos + n
                 ELSE Len(text[Top.file]) + 1
  BY DEF Read, Frame
<1>2. Top.pos \in Nat /\ Len(text[Top.file]) \in Nat /\ Top.pos <= Len(text[Top.file]) + 1
  BY Here
<1> HIDE DEF f
<1>3. /\ f.pos \in Top.pos..(Len(text[Top.file]) + 1) /\ f.pos <= Top.pos + n
      /\ Top.pos + n <= Len(text[Top.file]) + 1 => f.pos = Top.pos + n
  BY <1>1, <1>2
<1> QED BY <1>1, <1>3 DEF f

\* The marks that begin tokens are neither names nor letters of words.
LEMMA MarksAreNoNames ==
  /\ \A c \in Reserved : c \notin Names
  /\ \A c \in Reserved \ (Keywords \cup OneChar) : c \notin Letters
  /\ Digits \cup Keywords \cup OneChar \subseteq Reserved
<1>1. \A c \in Reserved : c \notin Names
  BY LexerAssumption
<1>2. "include" \notin Reserved
  BY DEF Reserved, Digits, Keywords, OneChar, NL, NUL, EOF, Quote, Backslash
<1> QED BY <1>1, <1>2 DEF Reserved, Letters

\* A word, from the character after the first n.
LEMMA WordRead ==
  ASSUME TypeInv, Len(frames) # 0, NEW n \in Nat, Top.pos + n <= Len(text[Top.file]) + 1
  PROVE  LET size == Run(n, WordChars)
             str == Spelled(Top.pos + n, size)
         IN  /\ size \in Nat /\ Top.pos + n + size <= Len(text[Top.file]) + 1
             /\ IsSequence(str) /\ Len(str) = size
             /\ \A i \in 1..size : str[i] = text[Top.file][Top.pos + n + i - 1]
<1> DEFINE size == Run(n, WordChars)
           s == text[Top.file]
           p == Top.pos + n
<1>1. s \in Seq(STRING) /\ Len(s) \in Nat /\ Top.pos \in Nat \ {0} /\ p \in Nat \ {0} /\ p <= Len(s) + 1
      /\ Top.file \in DOMAIN text
  BY Here
<1>2. size \in Nat /\ \A k \in 0..(size - 1) : CharAt(Top.file, p + k) \in WordChars
  BY <1>1, RunsEnd, NoRunHoldsTheEnd DEF Run
<1>3. p + size <= Len(s) + 1
  <2>1. CASE size = 0
    BY <1>1, <2>1
  <2>2. CASE size # 0
    <3>1. size - 1 \in 0..(size - 1)
      BY <1>2, <2>2
    <3>2. CharAt(Top.file, p + (size - 1)) # EOF
      BY <1>2, <3>1, NoRunHoldsTheEnd
    <3>3. p + (size - 1) <= Len(s)
      BY <3>2 DEF CharAt
    <3>4. \A a, b, c \in Nat : a + (b - 1) <= c => a + b <= c + 1
      OBVIOUS
    <3> QED BY ONLY <1>1, <1>2, <3>3, <3>4
  <2> QED BY <2>1, <2>2
<1> HIDE DEF size, p
<1> DEFINE last == p + size - 1
<1>4. p \in 1..(Len(s) + 1) /\ last \in (p - 1)..Len(s) /\ last - p + 1 = size
  BY <1>1, <1>2, <1>3
<1>5. /\ SubSeq(s, p, last) \in Seq(STRING) /\ Len(SubSeq(s, p, last)) = last - p + 1
      /\ \A i \in 1..(last - p + 1) : SubSeq(s, p, last)[i] = s[p + i - 1]
  <2> HIDE DEF last, s
  <2> QED BY <1>1, <1>4, SubSeqProperties
<1> QED BY <1>2, <1>3, <1>4, <1>5 DEF Spelled, IsSequence, size, p

\* A token of characters that are no letters, or that it shows.
LEMMA YieldScans ==
  ASSUME TypeInv, Len(frames) # 0, Top.state = "next", NEW n \in Nat, NEW kind, Yield(n, kind),
         Char \notin Names \cup {"&"},
         kind = "include" => /\ Top.pos + 2 <= Len(text[Top.file]) + 1 /\ n = 2
                             /\ Char = "-" /\ text[Top.file][Top.pos + 1] = "include",
         kind = "END" => Char = EOF,
         \A k \in Top.pos..(Top.pos + n - 1) :
           k <= Len(text[Top.file]) /\ text[Top.file][k] \in Letters =>
             Char = "-" \/ kind \in {text[Top.file][k], "INVALID", "CHAR_LITERAL"}
  PROVE  StepTakes
<1> DEFINE s == text[Top.file]
           f == Read(Top, n, "next", Top.pos, <<>>)
           tok == Token(f, kind, FALSE)
<1>1. /\ f.file = Top.file /\ f.operand = Top.operand /\ f.state = "next" /\ f.from = Top.pos
      /\ f.pos \in Top.pos..(Len(s) + 1) /\ f.pos <= Top.pos + n
      /\ Top.pos + n <= Len(s) + 1 => f.pos = Top.pos + n
  BY ReadFields
<1>2. Len(s) \in Nat /\ Top.pos \in Nat \ {0} /\ (Top.pos <= Len(s) => Char = s[Top.pos])
  BY Here
<1>3. Take(f, tok)
  BY DEF Yield
<1>4. tok.kind = kind /\ ~tok.owned /\ tok.file = f.file /\ tok.from = f.from /\ tok.to = f.pos
  BY DEF Token
<1>5. Start(Top) = Top.pos
  BY DEF Start
<1> HIDE DEF f, tok
<1>6. kind = "include" => f.pos = f.from + 2 /\ s[f.from] = "-" /\ s[f.from + 1] = "include"
  BY <1>1, <1>2
<1>7. kind = "END" => f.from > Len(s) \/ s[f.from] = EOF
  BY <1>1, <1>2
<1>8. ASSUME NEW k \in f.from..(f.pos - 1), s[k] \in Letters
      PROVE  s[f.from] = "-" \/ Shows(tok, s[k])
  <2>1. k \in Top.pos..(Top.pos + n - 1) /\ k <= Len(s) /\ f.from <= Len(s)
    BY <1>1, <1>2, <1>8
  <2>2. Char = "-" \/ kind \in {s[k], "INVALID", "CHAR_LITERAL"}
    BY <1>8, <2>1
  <2> QED BY <1>1, <1>2, <1>4, <2>1, <2>2 DEF Shows
<1>9. f.from <= Len(s) => s[f.from] \notin Names \cup {"&"}
  BY <1>1, <1>2
<1> HIDE DEF s
<1>10. Scanned(f, tok)
  BY <1>1, <1>4, <1>5, <1>6, <1>7, <1>8, <1>9 DEF Scanned, s
<1> QED BY <1>3, <1>10 DEF StepTakes

\* A token with a string of its own: a word after a characters, which are no
\* letters.
LEMMA YieldStrScans ==
  ASSUME TypeInv, Len(frames) # 0, Top.state = "next", NEW n \in Nat, NEW kind, NEW str,
         YieldStr(n, kind, str), kind \notin {"include", "END"},
         \A k \in Top.pos..(Top.pos + n - 1) :
           k <= Len(text[Top.file]) /\ text[Top.file][k] \in Letters =>
             kind = "INVALID" \/ InStr(str, text[Top.file][k])
  PROVE  StepTakes
<1> DEFINE s == text[Top.file]
           f == Read(Top, n, "next", Top.pos, str)
           tok == Token(f, kind, TRUE)
<1>1. /\ f.file = Top.file /\ f.operand = Top.operand /\ f.state = "next" /\ f.from = Top.pos
      /\ f.pos \in Top.pos..(Len(s) + 1) /\ f.pos <= Top.pos + n /\ f.str = str
  BY ReadFields
<1>2. Len(s) \in Nat /\ Top.pos \in Nat \ {0}
  BY Here
<1>3. Take(f, tok)
  BY DEF YieldStr
<1>4. tok.kind = kind /\ tok.owned /\ tok.file = f.file /\ tok.from = f.from /\ tok.to = f.pos
      /\ tok.str = str
  BY <1>1 DEF Token
<1>5. Start(Top) = Top.pos
  BY DEF Start
<1> HIDE DEF f, tok
<1>6. ASSUME NEW k \in f.from..(f.pos - 1), s[k] \in Letters
      PROVE  Shows(tok, s[k])
  <2>1. k \in Top.pos..(Top.pos + n - 1) /\ k <= Len(s)
    BY <1>1, <1>2, <1>6
  <2>2. kind = "INVALID" \/ InStr(str, s[k])
    BY <1>6, <2>1
  <2> QED BY <1>4, <2>2 DEF Shows, InStr
<1> HIDE DEF s
<1>7. Scanned(f, tok)
  BY <1>1, <1>4, <1>5, <1>6 DEF Scanned, s
<1> QED BY <1>3, <1>7 DEF StepTakes

\* The end of a string.
LEMMA StringEndScans ==
  ASSUME TypeInv, Len(frames) # 0, Top.state = "string", Opened(Top), HasWords(Top),
         NEW n \in {0, 1}, NEW kind, NEW owned \in BOOLEAN, StringEnd(n, kind, owned),
         \/ n = 1 /\ kind = "STRING_LITERAL" /\ owned /\ Char = Quote
         \/ kind = "INVALID"
  PROVE  StepTakes
<1> DEFINE s == text[Top.file]
           f == Read(Top, n, "next", Top.from, IF owned THEN Top.str ELSE <<>>)
           tok == Token(f, kind, owned)
<1>1. /\ f.file = Top.file /\ f.operand = Top.operand /\ f.state = "next" /\ f.from = Top.from
      /\ f.pos \in Top.pos..(Len(s) + 1) /\ f.pos <= Top.pos + n
      /\ owned => f.str = Top.str
  <2>1. PICK str : str = IF owned THEN Top.str ELSE <<>>
    OBVIOUS
  <2>2. PICK g : g = Read(Top, n, "next", Top.from, str)
    OBVIOUS
  <2>3. /\ g.file = Top.file /\ g.operand = Top.operand /\ g.state = "next" /\ g.from = Top.from
        /\ g.pos \in Top.pos..(Len(s) + 1) /\ g.pos <= Top.pos + n /\ g.str = str
    BY <2>2, ReadFields
  <2> QED BY <2>1, <2>2, <2>3
<1>2. /\ Len(s) \in Nat /\ Top.pos \in Nat \ {0} /\ Top.pos <= Len(s) + 1
      /\ (Top.pos <= Len(s) => Char = s[Top.pos])
  BY Here
<1>3. Take(f, tok)
  BY DEF StringEnd
<1>4. tok.kind = kind /\ tok.owned = owned /\ tok.file = f.file /\ tok.from = f.from /\ tok.to = f.pos
      /\ tok.str = f.str
  BY <1>1 DEF Token
<1>5. Start(Top) = Top.from /\ Top.from \in 1..(Top.pos - 1) /\ s[Top.from] = Quote
  BY DEF Start, Opened
<1>6. Quote \notin Letters /\ Quote \notin Names \cup {"&"}
  BY MarksAreNoNames DEF Reserved, Quote, Keywords, OneChar
<1> HIDE DEF f, tok
<1>7. ASSUME NEW k \in f.from..(f.pos - 1), s[k] \in Letters
      PROVE  Shows(tok, s[k]) \/ s[k - 1] = Backslash
  <2>1. CASE kind = "INVALID"
    BY <1>4, <2>1 DEF Shows
  <2>2. CASE kind = "STRING_LITERAL" /\ owned /\ Char = Quote /\ n = 1
    <3>1. k \in Top.from..(Top.pos - 1) \/ (k = Top.pos /\ k <= Len(s))
      BY <1>1, <1>2, <1>5, <2>2
    <3>2. k # Top.pos \/ ~(k <= Len(s))
      BY <1>2, <1>6, <1>7, <2>2
    <3>3. InStr(Top.str, s[k]) \/ s[k - 1] = Backslash
      BY <1>7, <3>1, <3>2 DEF HasWords
    <3> QED BY <1>1, <1>4, <2>2, <3>3 DEF Shows, InStr
  <2> QED BY <2>1, <2>2
<1>8. f.pos \in f.from..(Len(s) + 1)
  BY <1>1, <1>2, <1>5
<1> HIDE DEF s
<1>9. kind \notin {"include", "END"} /\ s[f.from] \notin Names \cup {"&"}
  BY <1>1, <1>5, <1>6
<1>10. Scanned(f, tok)
  BY <1>1, <1>4, <1>5, <1>7, <1>8, <1>9 DEF Scanned, s
<1> QED BY <1>3, <1>10 DEF StepTakes

\* The characters of a run are in the set.
LEMMA DigitRun ==
  ASSUME TypeInv, Len(frames) # 0, NEW n \in Nat
  PROVE  /\ Run(n, Digits) \in Nat
         /\ \A k \in (Top.pos + n)..(Top.pos + n + Run(n, Digits) - 1) :
              k <= Len(text[Top.file]) => text[Top.file][k] \notin Letters
<1> DEFINE size == Run(n, Digits)
<1>1. Len(text[Top.file]) \in Nat /\ Top.pos \in Nat \ {0} /\ Top.file \in DOMAIN text
      /\ Top.pos + n \in Nat /\ Top.pos + n # 0
  BY Here
<1>2. size \in Nat /\ \A k \in 0..(size - 1) : CharAt(Top.file, (Top.pos + n) + k) \in Digits
  BY <1>1, RunsEnd, NoRunHoldsTheEnd DEF Run
<1>3. \A c \in Digits : c \notin Letters
  BY MarksAreNoNames DEF Digits, Keywords, OneChar
<1> HIDE DEF size
<1>4. ASSUME NEW k \in (Top.pos + n)..(Top.pos + n + size - 1), k <= Len(text[Top.file])
      PROVE  text[Top.file][k] \notin Letters
  <2>1. k - (Top.pos + n) \in 0..(size - 1) /\ (Top.pos + n) + (k - (Top.pos + n)) = k
    BY <1>1, <1>2
  <2>2. CharAt(Top.file, k) \in Digits
    BY <1>2, <2>1
  <2> QED BY <1>3, <1>4, <2>2 DEF CharAt
<1> QED BY <1>2, <1>4 DEF size

LEMMA PlainScans ==
  ASSUME TypeInv, Len(frames) # 0, Top.state = "next",
         End \/ Number \/ CharLiteral \/ Delimiter \/ Dots \/ Comparison
  PROVE  StepTakes
<1> DEFINE s == text[Top.file]
<1>1. /\ Len(s) \in Nat /\ Top.pos \in Nat \ {0}
      /\ (Top.pos <= Len(s) => Char = s[Top.pos])
      /\ \A n \in Nat : Ahead(n) # EOF => Top.pos + n <= Len(s) /\ Ahead(n) = s[Top.pos + n]
  BY Here
<1> HIDE DEF s
<1>2. CASE End
  <2>1. Char = EOF /\ Yield(1, "END") /\ Char \notin Names \cup {"&"} /\ Char \notin Letters
    BY <1>2, MarksAreNoNames DEF End, Reserved, EOF, Keywords, OneChar
  <2>2. \A k \in Top.pos..(Top.pos + 1 - 1) : k <= Len(s) => s[k] \notin Letters
    BY <1>1, <2>1
  <2> QED BY <2>1, <2>2, YieldScans DEF s
<1>3. CASE Number
  <2> DEFINE n == Run(0, Digits)
  <2>1. n \in Nat /\ \A k \in (Top.pos + 0)..(Top.pos + 0 + n - 1) : k <= Len(s) => s[k] \notin Letters
    BY DigitRun DEF s
  <2>2. Char \notin Names \cup {"&"} /\ Yield(n, "INT_LITERAL")
    BY <1>3, MarksAreNoNames DEF Number, Digits
  <2> HIDE DEF n
  <2>3. \A k \in Top.pos..(Top.pos + n - 1) : k <= Len(s) => s[k] \notin Letters
    BY <1>1, <2>1
  <2> QED BY <2>1, <2>2, <2>3, YieldScans DEF s
<1>4. CASE CharLiteral
  <2>1. PICK n \in Nat, kind \in {"INVALID", "CHAR_LITERAL"} : Yield(n, kind)
    BY <1>4 DEF CharLiteral
  <2>2. Char \notin Names \cup {"&"}
    BY <1>4, MarksAreNoNames DEF CharLiteral, Reserved
  <2> QED BY <2>1, <2>2, YieldScans
<1>5. CASE Delimiter
  <2>1. Char \in OneChar /\ Yield(1, Char) /\ Char \notin Names \cup {"&"}
    BY <1>5, MarksAreNoNames DEF Delimiter, OneChar
  <2>2. Char \notin {"include", "END"}
    BY <2>1 DEF OneChar
  <2>3. \A k \in Top.pos..(Top.pos + 1 - 1) : k <= Len(s) => Char = s[k]
    BY <1>1
  <2> QED BY <2>1, <2>2, <2>3, YieldScans DEF s
<1>6. CASE Dots
  <2>1. Char = "." /\ Char \notin Names \cup {"&"} /\ "." \notin Letters
    BY <1>6, MarksAreNoNames DEF Dots, Reserved, Keywords, OneChar
  <2>2. CASE \E n \in {1, 2} : Yield(n, "INVALID")
    BY <2>1, <2>2, YieldScans
  <2>3. CASE Ahead(1) = "." /\ Ahead(2) = "." /\ Yield(3, "ELLIPSIS")
    <3>1. s[Top.pos + 1] = "." /\ s[Top.pos + 2] = "."
      BY <1>1, <2>3 DEF EOF
    <3>2. \A k \in Top.pos..(Top.pos + 3 - 1) : k <= Len(s) => s[k] \notin Letters
      BY <1>1, <2>1, <3>1
    <3> QED BY <2>1, <2>3, <3>2, YieldScans DEF s
  <2> QED BY <1>6, <2>2, <2>3 DEF Dots
<1>7. CASE Comparison
  <2>1. Char \in {"!", "<", ">", "="} /\ Char \notin Names \cup {"&"} /\ Char \notin Letters
    <3>1. {"!", "<", ">", "="} \subseteq Reserved \ (Keywords \cup OneChar)
      BY DEF Reserved, Keywords, OneChar
    <3>2. Char \in {"!", "<", ">", "="}
      BY <1>7 DEF Comparison
    <3> QED BY <3>1, <3>2, MarksAreNoNames
  <2>2. CASE <<Char, Ahead(1)>> \in TwoChar
    <3>1. Yield(2, "COMPARISON") /\ Ahead(1) \in {"=", ">"}
      BY <1>7, <2>2 DEF Comparison, TwoChar
    <3>2. s[Top.pos + 1] \in {"=", ">"}
      BY <1>1, <3>1 DEF EOF
    <3>3. {"=", ">"} \cap Letters = {}
      BY MarksAreNoNames DEF Reserved, Keywords, OneChar
    <3>4. \A k \in Top.pos..(Top.pos + 2 - 1) : k <= Len(s) => s[k] \notin Letters
      BY <1>1, <2>1, <3>2, <3>3
    <3> QED BY <2>1, <3>1, <3>4, YieldScans DEF s
  <2>3. CASE <<Char, Ahead(1)>> \notin TwoChar
    <3>1. PICK kind \in {"INVALID", Char} : Yield(1, kind)
      BY <1>7, <2>3 DEF Comparison
    <3>2. \A k \in Top.pos..(Top.pos + 1 - 1) : k <= Len(s) => s[k] \notin Letters
      BY <1>1, <2>1
    <3>3. kind \notin {"include", "END"}
      BY <2>1
    <3> QED BY <2>1, <3>1, <3>2, <3>3, YieldScans DEF s
  <2> QED BY <2>2, <2>3
<1> QED BY <1>2, <1>3, <1>4, <1>5, <1>6, <1>7

LEMMA MinusScans ==
  ASSUME TypeInv, Len(frames) # 0, Top.state = "next", Minus
  PROVE  StepTakes
<1>1. Char = "-" /\ Char \notin Names \cup {"&"}
  BY MarksAreNoNames DEF Minus, Reserved
<1>2. Top.pos + 1 <= Len(text[Top.file]) + 1 /\ Top.pos \in Nat /\ Len(text[Top.file]) \in Nat
  <2>1. Ahead(0) # EOF
    BY <1>1 DEF Char, EOF
  <2>2. Top.pos + 0 <= Len(text[Top.file])
    BY <2>1, Here
  <2> QED BY <2>2, Here
<1>3. ASSUME NEW n \in Nat, NEW kind \in {"INT_LITERAL", "-"}, Yield(n, kind)
      PROVE  StepTakes
  BY <1>1, <1>3, YieldScans
<1>4. CASE Ahead(1) \in Digits
  <2>1. Run(1, Digits) \in Nat /\ Yield(1 + Run(1, Digits), "INT_LITERAL")
    BY <1>4, Runs DEF Minus
  <2>2. 1 + Run(1, Digits) \in Nat
    BY <2>1
  <2> QED BY <1>3, <2>1, <2>2
<1>5. CASE Ahead(1) \notin Digits /\ Ahead(1) \in Letters
  <2> DEFINE n == Run(1, WordChars)
             word == Spelled(Top.pos + 1, n)
  <2>1. /\ n \in Nat /\ Top.pos + 1 + n <= Len(text[Top.file]) + 1 /\ Len(word) = n
        /\ \A i \in 1..n : word[i] = text[Top.file][Top.pos + 1 + i - 1]
    BY <1>2, WordRead
  <2>2. Yield(1 + n, IF word = <<"include">> THEN "include" ELSE "-")
    BY <1>5 DEF Minus
  <2>3. 1 + n \in Nat
    BY <2>1
  <2>4. CASE word = <<"include">>
    <3>1. n = 1 /\ word[1] = "include"
      BY <2>1, <2>4
    <3>2. text[Top.file][Top.pos + 1] = "include" /\ 1 + n = 2 /\ Top.pos + 2 <= Len(text[Top.file]) + 1
      <4>1. Top.pos + 1 + 1 - 1 = Top.pos + 1 /\ Top.pos + 1 + 1 = Top.pos + 2 /\ 1 \in 1..1
        BY <1>2
      <4> QED BY <2>1, <3>1, <4>1
    <3>3. Yield(1 + n, "include")
      BY <2>2, <2>4
    <3> HIDE DEF n
    <3> QED BY <1>1, <2>3, <3>2, <3>3, YieldScans
  <2>5. CASE word # <<"include">>
    <3>1. Yield(1 + n, "-")
      BY <2>2, <2>5
    <3> HIDE DEF n
    <3> QED BY <1>3, <2>3, <3>1
  <2> QED BY <2>4, <2>5
<1>6. CASE Ahead(1) \notin Digits /\ Ahead(1) \notin Letters
  BY <1>3, <1>6 DEF Minus
<1> QED BY <1>4, <1>5, <1>6

LEMMA Offset ==
  ASSUME NEW p \in Nat, NEW n \in Nat, NEW k \in p..(p + n - 1)
  PROVE  \E i \in 1..n : p + i - 1 = k
<1>1. k - p + 1 \in 1..n /\ p + (k - p + 1) - 1 = k
  OBVIOUS
<1> QED BY <1>1

LEMMA OffsetAfter ==
  ASSUME NEW p \in Nat, NEW n \in Nat, NEW k \in p..(p + (1 + n) - 1), k # p
  PROVE  \E i \in 1..n : p + i = k
<1>1. k - p \in 1..n /\ p + (k - p) = k
  OBVIOUS
<1> QED BY <1>1

LEMMA WordScans ==
  ASSUME TypeInv, Len(frames) # 0, Top.state = "next", Prefix \/ Word \/ Unknown
  PROVE  StepTakes
<1> DEFINE s == text[Top.file]
<1>1. /\ Len(s) \in Nat /\ Top.pos \in Nat \ {0} /\ Top.pos <= Len(s) + 1
      /\ (Top.pos <= Len(s) => Char = s[Top.pos])
  BY Here
<1>2. CASE Prefix
  <2> DEFINE n == Run(1, WordChars)
             str == Spelled(Top.pos + 1, n)
  <2>1. Char \in {"*", "&", ":"} /\ {"*", "&", ":"} \cap Letters = {} /\ {"*", ":"} \cap Names = {}
    BY <1>2, MarksAreNoNames DEF Prefix, Reserved, Keywords, OneChar
  <2>2. Top.pos + 1 <= Len(s) + 1
    <3>1. Ahead(0) # EOF
      BY <2>1 DEF Char, EOF
    <3>2. Top.pos + 0 <= Len(text[Top.file])
      BY <3>1, Here
    <3> QED BY <1>1, <3>2
  <2>3. /\ n \in Nat /\ Top.pos + 1 + n <= Len(s) + 1 /\ Len(str) = n
        /\ \A i \in 1..n : str[i] = s[Top.pos + 1 + i - 1]
    BY <2>2, WordRead
  <2>4. \/ \E kind \in {"ADDRESS_OF", "POINTER", "LABEL"} : YieldStr(1 + n, kind, str)
        \/ Char \in {"*", ":"} /\ Yield(1, Char)
    BY <1>2, <2>1, Zenon DEF Prefix
  <2> HIDE DEF n, str, s
  <2>5. ASSUME NEW k \in Top.pos..(Top.pos + (1 + n) - 1), k <= Len(s), s[k] \in Letters
        PROVE  InStr(str, s[k])
    <3>1. k # Top.pos
      BY <1>1, <2>1, <2>5
    <3>2. PICK i \in 1..n : Top.pos + i = k
      <4>1. Top.pos \in Nat /\ n \in Nat /\ k \in Top.pos..(Top.pos + (1 + n) - 1)
        BY <1>1, <2>3
      <4> QED BY <3>1, <4>1, OffsetAfter
    <3>3. str[i] = s[k]
      <4>1. Top.pos + 1 + i - 1 = Top.pos + i
        BY <1>1
      <4> QED BY <2>3, <3>2, <4>1
    <3> QED BY <2>3, <3>2, <3>3 DEF InStr
  <2>6. CASE \E kind \in {"ADDRESS_OF", "POINTER", "LABEL"} : YieldStr(1 + n, kind, str)
    <3>1. 1 + n \in Nat
      BY <2>3
    <3> QED BY <2>5, <2>6, <3>1, YieldStrScans DEF s
  <2>7. CASE Char \in {"*", ":"} /\ Yield(1, Char)
    <3>1. \A k \in Top.pos..(Top.pos + 1 - 1) : k <= Len(s) => s[k] = Char
      BY <1>1
    <3>2. Char \notin {"include", "END"} /\ Char \notin Names \cup {"&"}
      BY <2>1, <2>7
    <3> QED BY <2>7, <3>1, <3>2, YieldScans DEF s
  <2> QED BY <2>4, <2>6, <2>7
<1>3. CASE Word
  <2> DEFINE n == Run(0, WordChars)
             str == Spelled(Top.pos, n)
  <2>1. /\ n \in Nat /\ Top.pos + n <= Len(s) + 1 /\ Len(str) = n
        /\ \A i \in 1..n : str[i] = s[Top.pos + i - 1]
    <3>1. Top.pos + 0 = Top.pos /\ Top.pos + 0 <= Len(text[Top.file]) + 1 /\ 0 \in Nat
      BY <1>1
    <3>2. LET size == Run(0, WordChars)
              word == Spelled(Top.pos + 0, size)
          IN  /\ size \in Nat /\ Top.pos + 0 + size <= Len(text[Top.file]) + 1
              /\ Len(word) = size
              /\ \A i \in 1..size : word[i] = text[Top.file][Top.pos + 0 + i - 1]
      BY <3>1, WordRead
    <3> QED BY <3>1, <3>2
  <2>2. IF n = 1 /\ Char \in Keywords THEN Yield(1, Char) ELSE YieldStr(n, "IDENTIFIER", str)
    BY <1>3, Zenon DEF Word
  <2> HIDE DEF n, str, s
  <2>3. CASE Char \in Keywords /\ Yield(1, Char)
    <3>1. \A k \in Top.pos..(Top.pos + 1 - 1) : k <= Len(s) => s[k] = Char
      BY <1>1
    <3>2. Char \notin {"include", "END"} /\ Char \notin Names \cup {"&"}
      BY <2>3, MarksAreNoNames DEF Keywords
    <3> QED BY <2>3, <3>1, <3>2, YieldScans DEF s
  <2>4. CASE YieldStr(n, "IDENTIFIER", str)
    <3>1. ASSUME NEW k \in Top.pos..(Top.pos + n - 1)
          PROVE  InStr(str, s[k])
      <4>1. PICK i \in 1..n : Top.pos + i - 1 = k
        <5>1. PICK p \in Nat : p = Top.pos
          BY <1>1
        <5>2. n \in Nat /\ k \in p..(p + n - 1)
          BY <2>1, <5>1
        <5>3. \E i \in 1..n : p + i - 1 = k
          BY ONLY <5>2, p \in Nat, Offset
        <5> QED BY <5>1, <5>3
      <4>2. str[i] = s[k]
        BY <2>1, <4>1
      <4> QED BY <2>1, <4>1, <4>2 DEF InStr
    <3> QED BY <2>1, <2>4, <3>1, YieldStrScans DEF s
  <2> QED BY <2>2, <2>3, <2>4
<1>4. CASE Unknown
  BY <1>4, YieldStrScans DEF Unknown
<1> QED BY <1>2, <1>3, <1>4

\* White space, and the beginnings of strings and comments.
LEMMA OpeningMoves ==
  ASSUME TypeInv, Len(frames) # 0, Top.state = "next", skip_whitespaces \/ OpenString \/ OpenComment
  PROVE  StepMoves
<1> DEFINE s == text[Top.file]
<1>1. /\ Len(s) \in Nat /\ Top.pos \in Nat \ {0} /\ Top.pos <= Len(s) + 1
      /\ Start(Top) = Top.pos
  BY Here DEF Start
<1>2. Char # EOF => Top.pos + 1 <= Len(s) + 1 /\ Char = s[Top.pos]
  <2>1. Char # EOF => Top.pos + 0 <= Len(s) /\ Char = s[Top.pos + 0]
    BY Here
  <2> QED BY <1>1, <2>1
<1> HIDE DEF s
<1>3. CASE skip_whitespaces
  <2> DEFINE f == Read(Top, 1, "next", Top.from, Top.str)
  <2>1. f.file = Top.file /\ f.operand = Top.operand /\ f.state = "next"
        /\ (Top.pos + 1 <= Len(s) + 1 => f.pos = Top.pos + 1)
    BY ReadFields DEF s
  <2>2. frames' = Replace(f) /\ UNCHANGED <<tokens, status>> /\ Char \in Blanks /\ Char # EOF
    BY <1>3 DEF skip_whitespaces, ReadOn, Blanks, EOF, NL
  <2> HIDE DEF f
  <2>3. Start(f) = Top.pos + 1 /\ Opened(f) /\ HasWords(f)
    BY <1>2, <2>1, <2>2 DEF Start, Opened, HasWords
  <2>4. \A k \in Start(Top)..(Start(f) - 1) : s[k] \in Blanks
    BY <1>1, <1>2, <2>2, <2>3
  <2>5. Start(f) \in Nat /\ Start(Top) <= Start(f)
    BY <1>1, <2>3
  <2>6. Moved(f)
    BY <2>1, <2>3, <2>4, <2>5 DEF Moved, Scanning, s
  <2> QED BY <2>2, <2>6 DEF StepMoves
<1>4. ASSUME NEW state \in {"string", "-", "*"}, Char = IF state = "string" THEN Quote ELSE "-",
             frames' = Replace(Read(Top, 1, state, Top.pos, <<>>)), UNCHANGED <<tokens, status>>
      PROVE  StepMoves
  <2> DEFINE f == Read(Top, 1, state, Top.pos, <<>>)
  <2>1. f.file = Top.file /\ f.operand = Top.operand /\ f.state = state /\ f.from = Top.pos
        /\ f.str = <<>> /\ (Top.pos + 1 <= Len(s) + 1 => f.pos = Top.pos + 1)
    BY ReadFields DEF s
  <2>2. Char # EOF /\ Char \notin Letters
    <3>1. Char \in {Quote, "-"}
      BY <1>4
    <3>2. Quote \notin Letters /\ "-" \notin Letters
      BY MarksAreNoNames DEF Reserved, Quote, Keywords, OneChar
    <3> QED BY <3>1, <3>2 DEF Quote, EOF
  <2> HIDE DEF f
  <2>3. f.pos = Top.pos + 1 /\ Opened(f) /\ Start(f) = Top.pos
    BY <1>1, <1>2, <1>4, <2>1, <2>2 DEF Opened, Start, s
  <2>4. HasWords(f)
    <3>1. \A k \in f.from..(f.pos - 1) : s[k] \notin Letters
      BY <1>1, <1>2, <2>1, <2>2, <2>3
    <3>2. IsSequence(f.str)
      <4>1. <<>> \in Seq({})
        OBVIOUS
      <4> QED BY <2>1, <4>1 DEF IsSequence
    <3> QED BY <2>1, <3>1, <3>2 DEF HasWords, s
  <2>5. Start(f) \in Nat /\ Start(Top) <= Start(f) /\ Start(Top)..(Start(f) - 1) = {}
    BY <1>1, <2>3
  <2>6. Moved(f)
    BY <2>1, <2>3, <2>4, <2>5 DEF Moved, Scanning
  <2> QED BY <1>4, <2>6 DEF StepMoves, f
<1>5. CASE OpenString
  BY <1>4, <1>5 DEF OpenString
<1>6. CASE OpenComment
  BY <1>4, <1>6 DEF OpenComment
<1> QED BY <1>3, <1>5, <1>6

\* In a comment.
LEMMA CommentScans ==
  ASSUME TypeInv, Len(frames) # 0, Top.state \in {"-", "*"}, Opened(Top), LineComment \/ BlockComment
  PROVE  StepMoves \/ StepTakes
<1> DEFINE s == text[Top.file]
<1>1. /\ Len(s) \in Nat /\ Top.pos \in Nat \ {0} /\ Start(Top) = Top.from
      /\ Top.from \in 1..(Top.pos - 1) /\ s[Top.from] = "-"
  BY Here DEF Start, Opened
<1> HIDE DEF s
<1>2. ASSUME NEW n \in Nat, NEW state \in {"next", "-", "*"}, ReadOn(n, state), UNCHANGED <<tokens, status>>
      PROVE  StepMoves
  <2> PICK f : f = Read(Top, n, state, Top.from, Top.str)
    OBVIOUS
  <2>1. f.file = Top.file /\ f.operand = Top.operand /\ f.state = state /\ f.from = Top.from
        /\ f.pos \in Top.pos..(Len(s) + 1)
    BY ReadFields DEF s
  <2>2. frames' = Replace(f)
    BY <1>2 DEF ReadOn
  <2>3. Opened(f) /\ HasWords(f)
    <3>1. f.from \in 1..(f.pos - 1)
      BY <1>1, <2>1
    <3> QED BY <1>1, <2>1, <3>1 DEF Opened, HasWords, s
  <2>4. Start(f) \in {Top.from, f.pos}
    BY <2>1 DEF Start
  <2>5. Start(f) \in Nat /\ Start(Top) <= Start(f)
    BY <1>1, <2>1, <2>4
  <2>6. Moved(f)
    BY <1>1, <2>1, <2>3, <2>5 DEF Moved, Scanning, s
  <2> QED BY <1>2, <2>2, <2>6 DEF StepMoves
<1>3. CASE LineComment
  BY <1>2, <1>3 DEF LineComment
<1>4. CASE BlockComment /\ Char # NUL
  BY <1>2, <1>4 DEF BlockComment
<1>5. CASE BlockComment /\ Char = NUL
  <2> DEFINE f == Read(Top, 0, "next", Top.from, <<>>)
             tok == Token(f, "-", FALSE)
  <2>1. f.file = Top.file /\ f.operand = Top.operand /\ f.state = "next" /\ f.from = Top.from
        /\ f.pos \in Top.pos..(Len(s) + 1)
    BY ReadFields DEF s
  <2>2. Take(f, tok)
    BY <1>5 DEF BlockComment
  <2>3. tok.kind = "-" /\ tok.file = f.file /\ tok.from = f.from /\ tok.to = f.pos
    BY DEF Token
  <2> HIDE DEF f, tok, s
  <2>4. f.pos \in f.from..(Len(s) + 1)
    BY <1>1, <2>1
  <2>5. "-" \notin Names \cup {"&"}
    BY MarksAreNoNames DEF Reserved
  <2>6. Scanned(f, tok)
    BY <1>1, <2>1, <2>3, <2>4, <2>5 DEF Scanned, s
  <2> QED BY <2>2, <2>6 DEF StepTakes
<1> QED BY <1>3, <1>4, <1>5

LEMMA StringRead ==
  ASSUME TypeInv, Len(frames) # 0, NEW n \in Nat, NEW str
  PROVE  LET f == Read(Top, n, "string", Top.from, str) IN
         /\ f.file = Top.file /\ f.operand = Top.operand /\ f.state = "string"
         /\ f.from = Top.from /\ f.str = str
         /\ f.pos \in Top.pos..(Len(text[Top.file]) + 1) /\ f.pos <= Top.pos + n
BY ReadFields

\* In a string.
LEMMA StringScans ==
  ASSUME TypeInv, Len(frames) # 0, Top.state = "string", Opened(Top), HasWords(Top), StringLiteral
  PROVE  StepMoves \/ StepTakes
<1> DEFINE s == text[Top.file]
<1>1. /\ Len(s) \in Nat /\ Top.pos \in Nat \ {0} /\ Start(Top) = Top.from /\ Top.pos <= Len(s) + 1
      /\ Top.from \in 1..(Top.pos - 1) /\ s[Top.from] = Quote
      /\ \A n \in Nat : Ahead(n) # EOF => Top.pos + n <= Len(s) /\ Ahead(n) = s[Top.pos + n]
      /\ Char = Ahead(0)
  BY Here DEF Start, Opened
<1> HIDE DEF s
<1>2. ASSUME NEW f, f.file = Top.file, f.operand = Top.operand, f.state = "string", f.from = Top.from,
             f.pos >= Top.pos, f.pos \in Nat, NEW c, f.str = Append(Top.str, c),
             \A k \in Top.pos..(f.pos - 1) : s[k] \in Letters => s[k] = c \/ s[k - 1] = Backslash,
             frames' = Replace(f), UNCHANGED <<tokens, status>>
      PROVE  StepMoves
  <2>1. Opened(f)
    <3>1. f.from \in 1..(f.pos - 1)
      BY <1>1, <1>2
    <3> QED BY <1>1, <1>2, <3>1 DEF Opened
  <2>2. /\ IsSequence(f.str) /\ Len(f.str) = Len(Top.str) + 1 /\ Len(Top.str) \in Nat
        /\ f.str[Len(Top.str) + 1] = c
        /\ \A m \in 1..Len(Top.str) : f.str[m] = Top.str[m]
    BY <1>2, AppendSequence, SequenceLength DEF HasWords
  <2>3. \A x : x = c \/ InStr(Top.str, x) => InStr(f.str, x)
    <3>1. Len(Top.str) + 1 \in 1..Len(f.str) /\ \A m \in 1..Len(Top.str) : m \in 1..Len(f.str)
      BY <2>2
    <3> QED BY <2>2, <3>1 DEF InStr
  <2>4. HasWords(f)
    <3>1. \A k \in f.from..(f.pos - 1) : k \in Top.from..(Top.pos - 1) \/ k \in Top.pos..(f.pos - 1)
      BY <1>1, <1>2
    <3>2. ASSUME NEW k \in f.from..(f.pos - 1), s[k] \in Letters
          PROVE  InStr(f.str, s[k]) \/ s[k - 1] = Backslash
      <4>1. CASE k \in Top.from..(Top.pos - 1)
        <5>1. InStr(Top.str, s[k]) \/ s[k - 1] = Backslash
          BY <3>2, <4>1 DEF HasWords, s
        <5> QED BY <2>3, <5>1
      <4>2. CASE k \in Top.pos..(f.pos - 1)
        BY <1>2, <2>3, <3>2, <4>2
      <4> QED BY <3>1, <4>1, <4>2
    <3> HIDE DEF s
    <3> QED BY <1>2, <2>2, <3>2 DEF HasWords, s
  <2>5. Start(f) = Top.from /\ Start(f) \in Nat /\ Start(Top) <= Start(f) /\ Start(Top)..(Start(f) - 1) = {}
    BY <1>1, <1>2 DEF Start
  <2>6. Moved(f)
    BY <1>2, <2>1, <2>4, <2>5 DEF Moved, Scanning
  <2> QED BY <1>2, <2>6 DEF StepMoves
<1>3. CASE StringChar
  <2> PICK str : str = Append(Top.str, Char)
    OBVIOUS
  <2> PICK f : f = Read(Top, 1, "string", Top.from, str)
    OBVIOUS
  <2> DEFINE twice == Frame(f.file, f.pos, f.line + 1, f.state, f.from, f.str, f.operand)
  <2>1. /\ f.file = Top.file /\ f.operand = Top.operand /\ f.state = "string" /\ f.from = Top.from
        /\ f.pos \in Top.pos..(Len(s) + 1) /\ f.pos <= Top.pos + 1 /\ f.str = Append(Top.str, Char)
    <3>1. PICK n \in Nat : n = 1
      OBVIOUS
    <3>2. PICK g : g = Read(Top, n, "string", Top.from, str)
      OBVIOUS
    <3>3. /\ g.file = Top.file /\ g.operand = Top.operand /\ g.state = "string" /\ g.from = Top.from
          /\ g.pos \in Top.pos..(Len(text[Top.file]) + 1) /\ g.pos <= Top.pos + n /\ g.str = str
      BY ONLY <3>2, TypeInv, Len(frames) # 0, n \in Nat, StringRead
    <3> QED BY <3>1, <3>2, <3>3 DEF s
  <2>2. /\ twice.file = f.file /\ twice.operand = f.operand /\ twice.state = f.state /\ twice.from = f.from
        /\ twice.pos = f.pos /\ twice.str = f.str
    BY DEF Frame
  <2>3. PICK h \in {f, twice} : frames' = Replace(h)
    BY <1>3 DEF StringChar
  <2>4. UNCHANGED <<tokens, status>> /\ Ahead(0) # EOF
    BY <1>1, <1>3 DEF StringChar
  <2> HIDE DEF twice
  <2>5. h.pos >= Top.pos /\ h.pos \in Nat /\ \A k \in Top.pos..(h.pos - 1) : k = Top.pos + 0
    BY <1>1, <2>1, <2>2, <2>3
  <2>6. \A k \in Top.pos..(h.pos - 1) : s[k] = Char
    BY <1>1, <2>4, <2>5
  <2>7. /\ h.file = Top.file /\ h.operand = Top.operand /\ h.state = "string" /\ h.from = Top.from
        /\ h.pos >= Top.pos /\ h.pos \in Nat /\ h.str = Append(Top.str, Char)
        /\ frames' = Replace(h) /\ UNCHANGED <<tokens, status>>
    BY <2>1, <2>2, <2>3, <2>4, <2>5
  <2>8. \A k \in Top.pos..(h.pos - 1) : s[k] \in Letters => s[k] = Char \/ s[k - 1] = Backslash
    BY ONLY <2>6
  <2> QED BY ONLY <1>2, <2>7, <2>8
<1>4. CASE StringEscape
  <2> DEFINE c == Unescaped(Ahead(1))
  <2> PICK str : str = Append(Top.str, c)
    OBVIOUS
  <2> PICK f : f = Read(Top, 2, "string", Top.from, str)
    OBVIOUS
  <2>1. /\ f.file = Top.file /\ f.operand = Top.operand /\ f.state = "string" /\ f.from = Top.from
        /\ f.pos \in Top.pos..(Len(s) + 1) /\ f.pos <= Top.pos + 2 /\ f.str = Append(Top.str, c)
    <3>1. PICK n \in Nat : n = 2
      OBVIOUS
    <3>2. PICK g : g = Read(Top, n, "string", Top.from, str)
      OBVIOUS
    <3>3. /\ g.file = Top.file /\ g.operand = Top.operand /\ g.state = "string" /\ g.from = Top.from
          /\ g.pos \in Top.pos..(Len(text[Top.file]) + 1) /\ g.pos <= Top.pos + n /\ g.str = str
      BY ONLY <3>2, TypeInv, Len(frames) # 0, n \in Nat, StringRead
    <3> QED BY <3>1, <3>2, <3>3 DEF s
  <2>2. frames' = Replace(f) /\ UNCHANGED <<tokens, status>> /\ Char = Backslash
    BY <1>4 DEF StringEscape
  <2>3. Backslash \notin Letters /\ Backslash # EOF
    BY MarksAreNoNames DEF Reserved, Backslash, EOF, Keywords, OneChar
  <2> HIDE DEF c
  <2>4. s[Top.pos] = Backslash
    <3>1. s[Top.pos + 0] = Backslash /\ Top.pos + 0 = Top.pos
      BY <1>1, <2>2, <2>3
    <3> QED BY <3>1
  <2>5. f.pos >= Top.pos /\ f.pos \in Nat /\ \A k \in Top.pos..(f.pos - 1) : k = Top.pos \/ k - 1 = Top.pos
    <3>1. PICK x, y, m : x = Top.pos /\ y = f.pos /\ m = Len(s)
      OBVIOUS
    <3>2. x \in Nat /\ m \in Nat /\ y \in x..(m + 1) /\ y <= x + 2
      BY <1>1, <2>1, <3>1
    <3>3. y >= x /\ y \in Nat /\ \A k \in x..(y - 1) : k = x \/ k - 1 = x
      BY ONLY <3>2
    <3> QED BY <3>1, <3>3
  <2>6. \A k \in Top.pos..(f.pos - 1) : s[k] \in Letters => s[k - 1] = Backslash
    BY <2>3, <2>4, <2>5
  <2> QED BY <1>2, <2>1, <2>2, <2>5, <2>6
<1>5. CASE Char = Quote /\ StringEnd(1, "STRING_LITERAL", TRUE)
  BY <1>5, StringEndScans
<1>6. CASE StringEnd(1, "INVALID", FALSE) \/ StringEnd(0, "INVALID", FALSE)
  BY <1>6, StringEndScans
<1> QED BY <1>3, <1>4, <1>5, <1>6, Zenon DEF StringLiteral

\* Every step of a lexer, but the return from a file included.
LEMMA ScanSteps ==
  ASSUME TypeInv, Len(frames) # 0, Opened(Top), HasWords(Top), Step
  PROVE  (Top.state # "included" /\ (StepMoves \/ StepTakes)) \/ RemoveEnd
<1>1. CASE Top.state = "next" /\ lexer_next_token
  BY <1>1, PlainScans, MinusScans, WordScans, OpeningMoves, Zenon DEF lexer_next_token
<1>2. CASE Top.state = "string" /\ StringLiteral
  BY <1>2, StringScans
<1>3. CASE Top.state \in {"-", "*"} /\ (LineComment \/ BlockComment)
  BY <1>3, CommentScans
<1> QED BY <1>1, <1>2, <1>3 DEF Step

----------------------------------------------------------------------------
(* What has been passed stays accounted for.                               *)

LEMMA PendingStays ==
  ASSUME NEW file, NEW a \in Nat, NEW b \in Nat, PendingAt(file, a),
         \A k \in a..(b - 1) : text[file][k] \in Blanks \/ text[file][a] = "-"
  PROVE  a <= b => PendingAt(file, b)
<1> SUFFICES ASSUME a <= b PROVE PendingAt(file, b)
  OBVIOUS
<1> DEFINE s == text[file]
<1>1. PICK k \in 2..(a - 1) :
        /\ s[k - 1] = "-" /\ s[k] = "include"
        /\ \A j \in (k + 1)..(a - 1) : s[j] \in Blanks \/ \E i \in (k + 1)..j : s[i] = "-"
  BY DEF PendingAt
<1>2. k \in 2..(b - 1)
  OBVIOUS
<1>3. ASSUME NEW j \in (k + 1)..(b - 1)
      PROVE  s[j] \in Blanks \/ \E i \in (k + 1)..j : s[i] = "-"
  <2>1. CASE j \in (k + 1)..(a - 1)
    BY <1>1, <2>1
  <2>2. CASE j \in a..(b - 1)
    <3>1. a \in (k + 1)..j
      BY <2>2
    <3> QED BY <2>2, <3>1
  <2> QED BY <2>1, <2>2
<1> QED BY <1>1, <1>2, <1>3 DEF PendingAt

\* No step makes the lexer forget a token of the text, but for an END.
LEMMA AccountStays ==
  ASSUME TypeInv, UNCHANGED text, OnlyAnEndGoes, Count(tokens') \in Nat,
         NEW k \in 1..Len(text[Main]), Accounted(k)
  PROVE  Accounted(k)'
<1>1. Count(tokens) \in Nat /\ \A i \in 1..Count(tokens) : IsToken(tokens.items[i])
  BY SequenceLength DEF TypeInv, IsArray, Count
<1>2. CASE text[Main][k] \in Blanks \/ \E j \in 1..k : text[Main][j] \in {"-", EOF}
  BY <1>2 DEF Accounted
<1>3. ASSUME NEW i \in 1..Count(tokens), Covers(tokens.items[i], k)
      PROVE  Accounted(k)'
  <2>1. CASE i \in 1..Count(tokens')
    <3>1. tokens'.items[i] = tokens.items[i]
      BY <1>1, <2>1 DEF OnlyAnEndGoes
    <3> QED BY <1>3, <2>1, <3>1 DEF Accounted, Covers
  <2>2. CASE i \notin 1..Count(tokens')
    <3>1. tokens.items[i].kind = "END"
      <4>1. ~(Count(tokens') >= Count(tokens))
        BY <1>1, <2>2
      <4>2. Count(tokens') = Count(tokens) - 1 /\ tokens.items[Count(tokens)].kind = "END"
        BY <4>1 DEF OnlyAnEndGoes
      <4>3. i = Count(tokens)
        BY <1>1, <2>2, <4>2
      <4> QED BY <4>2, <4>3
    <3>2. AtTheEnd(tokens.items[i])
      BY <1>1, <3>1 DEF IsToken
    <3>3. tokens.items[i].file = Main /\ tokens.items[i].from \in 1..k
      BY <1>3 DEF Covers
    <3>4. text[Main][tokens.items[i].from] = EOF
      BY <3>2, <3>3 DEF AtTheEnd
    <3> QED BY <3>3, <3>4 DEF Accounted
  <2> QED BY <2>1, <2>2
<1> QED BY <1>2, <1>3 DEF Accounted

LEMMA FirstOfMore ==
  ASSUME NEW n \in Nat \ {0}, n # 1
  PROVE  1 \in 1..(n - 1)
OBVIOUS

\* What a step needs to know of where it starts.
Ready == Inv /\ PassInv /\ status = "lexing" /\ UNCHANGED text /\ Good

LEMMA ReadyFacts ==
  ASSUME Ready
  PROVE  /\ TypeInv /\ Waiting /\ Len(frames) \in Nat \ {0} /\ IsSequence(frames)
         /\ \A i \in 1..Len(frames) : IsFrame(frames[i]) /\ FrameInv(frames[i])
         /\ frames[1].file = Main
         /\ IsFrame(Top) /\ FrameInv(Top)
         /\ (Len(frames) = 1 => Top = frames[1])
<1>1. TypeInv /\ Waiting /\ Len(frames) \in Nat \ {0} /\ IsSequence(frames)
  BY SequenceLength DEF Ready, Inv, TypeInv, Waiting
<1>2. \A i \in 1..Len(frames) : IsFrame(frames[i]) /\ FrameInv(frames[i])
  BY DEF Ready, PassInv, Inv, TypeInv
<1>3. frames[1].file = Main
  BY DEF Ready, PassInv, MainInv
<1>4. IsFrame(Top) /\ FrameInv(Top)
  BY <1>1, <1>2 DEF Top
<1> QED BY <1>1, <1>2, <1>3, <1>4 DEF Top

\* What a lexer is in the middle of began within its text.
LEMMA StartIn ==
  ASSUME TypeInv, NEW f, IsFrame(f), Opened(f)
  PROVE  Start(f) \in 1..(Len(text[f.file]) + 1) /\ Start(f) <= f.pos
<1>1. f.pos \in 1..(Len(text[f.file]) + 1) /\ Len(text[f.file]) \in Nat
      /\ f.state \in Scanning \cup {"included"}
  BY TextsAreSequences DEF IsFrame
<1>2. CASE f.state \in {"next", "included"}
  BY <1>1, <1>2 DEF Start
<1>3. CASE f.state \in {"string", "-", "*"}
  BY <1>1, <1>3 DEF Start, Opened
<1> QED BY <1>1, <1>2, <1>3 DEF Scanning

LEMMA SameFrame ==
  ASSUME UNCHANGED text
  PROVE  \A f : FrameInv(f) => FrameInv(f)'
<1> TAKE f
<1> QED BY DEF FrameInv, Opened, HasWords, Expects, PendingAt

\* What the outermost lexer has passed stays accounted for.
LEMMA PassedStays ==
  ASSUME Ready, NEW k \in 1..(Start(frames[1]) - 1)
  PROVE  Accounted(k)'
<1>1. TypeInv /\ IsFrame(frames[1]) /\ Opened(frames[1]) /\ frames[1].file = Main
  BY ReadyFacts DEF FrameInv
<1>2. Len(text[Main]) \in Nat /\ Start(frames[1]) \in 1..(Len(text[Main]) + 1)
  BY <1>1, StartIn, TextsAreSequences DEF IsFrame
<1>3. k \in 1..Len(text[Main]) /\ Accounted(k)
  BY <1>2 DEF Ready, PassInv, MainInv
<1>4. Count(tokens') \in Nat
  BY SequenceLength DEF Ready, Good, Inv, TypeInv, IsArray, Count
<1> QED BY <1>1, <1>3, <1>4, AccountStays DEF Ready, Good

\* The calls for files included, after a step of the innermost.
LEMMA OutermostStays ==
  ASSUME Ready, status' = "lexing", NEW f, frames'[1] = f, f.file = Main, Start(f) \in Nat,
         \A k \in Start(frames[1])..(Start(f) - 1) : Accounted(k)'
  PROVE  MainInv'
<1>1. TypeInv /\ IsFrame(frames[1]) /\ Opened(frames[1]) /\ frames[1].file = Main
  BY ReadyFacts DEF FrameInv
<1>2. Start(frames[1]) \in Nat
  BY <1>1, StartIn
<1>3. ASSUME NEW k \in 1..(Start(f) - 1)
      PROVE  Accounted(k)'
  <2>1. k \in 1..(Start(frames[1]) - 1) \/ k \in Start(frames[1])..(Start(f) - 1)
    BY <1>2
  <2> QED BY <1>3, <2>1, PassedStays
<1>4. Start(frames'[1]) = Start(f)
  OBVIOUS
<1> QED BY <1>3, <1>4 DEF MainInv, Start

\* The innermost lexer goes on as f.
LEMMA GoesOn ==
  ASSUME Ready, status' = "lexing", NEW f, frames' = Replace(f), FrameInv(f), f.file = Top.file,
         Start(f) \in Nat,
         Len(frames) = 1 => \A k \in Start(Top)..(Start(f) - 1) : Accounted(k)'
  PROVE  PassInv'
<1>1. /\ Len(frames) \in Nat \ {0} /\ IsSequence(frames)
      /\ \A i \in 1..Len(frames) : FrameInv(frames[i])
      /\ frames[1].file = Main /\ (Len(frames) = 1 => Top = frames[1])
  BY ReadyFacts
<1>2. /\ Len(frames') = Len(frames)
      /\ \A i \in 1..(Len(frames) - 1) : frames'[i] = frames[i]
      /\ frames'[Len(frames)] = f
  BY <1>1, ReplaceLast DEF Replace
<1>3. ASSUME NEW i \in 1..Len(frames')
      PROVE  FrameInv(frames[i])'
  <2>1. frames'[i] = f \/ (i \in 1..Len(frames) /\ frames'[i] = frames[i])
    BY <1>1, <1>2
  <2>2. FrameInv(frames'[i])
    BY <1>1, <2>1
  <2> QED BY <2>2, SameFrame DEF Ready, FrameInv, Opened, HasWords, Expects, PendingAt
<1>4. MainInv'
  <2>1. CASE Len(frames) = 1
    BY <1>1, <1>2, <2>1, OutermostStays
  <2>2. CASE Len(frames) # 1
    <3>1. frames'[1] = frames[1]
      BY <1>1, <1>2, <2>2
    <3>2. Start(frames[1]) \in Nat
      BY <1>1, ReadyFacts, StartIn DEF FrameInv
    <3>3. Start(frames[1])..(Start(frames[1]) - 1) = {}
      BY <3>2
    <3> QED BY <1>1, <3>1, <3>2, <3>3, OutermostStays
  <2> QED BY <2>1, <2>2
<1>5. CrashOnlyWhenExpected'
  BY DEF CrashOnlyWhenExpected
<1> QED BY <1>3, <1>4, <1>5 DEF PassInv

LEMMA MovesPass ==
  ASSUME Ready, StepMoves, Top.state # "included"
  PROVE  PassInv'
<1>1. PICK f : Moved(f) /\ frames' = Replace(f) /\ UNCHANGED <<tokens, status>>
  BY DEF StepMoves
<1>2. IsFrame(Top) /\ FrameInv(Top) /\ TypeInv /\ (Len(frames) = 1 => Top.file = Main)
  BY ReadyFacts
<1>3. Start(Top) \in Nat \ {0}
  BY <1>2, StartIn DEF FrameInv
<1>4. Expects(f)
  <2> SUFFICES ASSUME f.operand PROVE PendingAt(f.file, Start(f)) /\ f.state # "included"
    BY DEF Expects
  <2>1. PendingAt(Top.file, Start(Top))
    BY <1>1, <1>2 DEF Moved, FrameInv, Expects
  <2>2. PendingAt(Top.file, Start(f))
    BY <1>1, <1>3, <2>1, PendingStays DEF Moved
  <2> QED BY <1>1, <2>2 DEF Moved, Scanning
<1>5. ASSUME Len(frames) = 1, NEW k \in Start(Top)..(Start(f) - 1)
      PROVE  Accounted(k)'
  <2>1. text[Main][k] \in Blanks \/ text[Main][Start(Top)] = "-"
    BY <1>1, <1>2, <1>5 DEF Moved
  <2>2. Start(Top) \in 1..k
    BY <1>1, <1>3 DEF Moved
  <2> QED BY <2>1, <2>2 DEF Accounted, Ready
<1> QED BY <1>1, <1>4, <1>5, GoesOn DEF Moved, FrameInv, Ready

LEMMA RemoveEndPasses ==
  ASSUME Ready, RemoveEnd
  PROVE  PassInv'
<1>1. IsFrame(Top) /\ FrameInv(Top) /\ TypeInv /\ Len(frames) # 0
  BY ReadyFacts
<1>2. PICK f : f = Read(Top, 0, "next", Top.from, Top.str)
  OBVIOUS
<1>3. Top.pos \in Nat /\ Len(text[Top.file]) \in Nat /\ Top.pos <= Len(text[Top.file]) + 1
  BY <1>1, Here
<1>4. /\ f.file = Top.file /\ f.operand = Top.operand /\ f.state = "next" /\ f.pos = Top.pos
  <2>1. PICK n \in Nat : n = 0
    OBVIOUS
  <2>2. PICK g : g = Read(Top, n, "next", Top.from, Top.str)
    OBVIOUS
  <2>3. /\ g.file = Top.file /\ g.operand = Top.operand /\ g.state = "next"
        /\ Top.pos + n <= Len(text[Top.file]) + 1 => g.pos = Top.pos + n
    BY ONLY <1>1, <2>2, n \in Nat, ReadFields
  <2> QED BY <1>2, <1>3, <2>1, <2>2, <2>3
<1>5. Top.state = "included" /\ status' = status /\ frames' = Replace(f)
  BY <1>2 DEF RemoveEnd, ReadOn
<1>6. FrameInv(f)
  BY <1>1, <1>4, <1>5 DEF FrameInv, Opened, HasWords, Expects
<1>7. Start(f) = Top.pos /\ Start(Top) = Top.pos /\ Top.pos..(Top.pos - 1) = {}
  BY <1>3, <1>4, <1>5 DEF Start
<1> QED BY <1>3, <1>4, <1>5, <1>6, <1>7, GoesOn DEF Ready

\* What a token does for a lexer that has just read it.
LEMMA KeepPasses ==
  ASSUME Ready, NEW f, NEW tok, Scanned(f, tok), Keep(f, tok)
  PROVE  PassInv'
<1>1. TypeInv /\ IsFrame(Top) /\ FrameInv(Top) /\ (Len(frames) = 1 => Top.file = Main)
  BY ReadyFacts
<1>2. Start(Top) \in Nat \ {0} /\ Len(text[Top.file]) \in Nat
  BY <1>1, StartIn, TextsAreSequences DEF FrameInv, IsFrame
<1>3. /\ f.file = Top.file /\ f.state = "next" /\ f.from = Start(Top) /\ f.pos \in f.from..(Len(text[Top.file]) + 1)
      /\ tok.file = f.file /\ tok.from = f.from /\ tok.to = f.pos
  BY DEF Scanned
<1>4. ~f.operand /\ tokens' = dynamic_array_append(tokens, tok) /\ frames' = Replace(f) /\ status' = status
  BY DEF Keep
<1>5. FrameInv(f) /\ Start(f) = f.pos
  BY <1>3, <1>4 DEF FrameInv, Opened, HasWords, Expects, Start
<1>6. IsArray(tokens) /\ tokens.item_size = 1 /\ Count(tokens) \in Nat
  BY <1>1, SequenceLength DEF TypeInv, IsArray, Count
<1>7. Count(tokens') = Count(tokens) + 1 /\ tokens'.items[Count(tokens')] = tok
  BY <1>4, <1>6, AppendItems
<1>8. ASSUME Len(frames) = 1, NEW k \in Start(Top)..(Start(f) - 1)
      PROVE  Accounted(k)'
  <2>1. k \in f.from..(f.pos - 1) /\ f.from \in 1..k /\ tok.from \in 1..k /\ k < tok.to /\ tok.file = Main
    BY <1>1, <1>2, <1>3, <1>5, <1>8
  <2>2. text[Main][k] \in Letters =>
          text[Main][f.from] = "-" \/ Shows(tok, text[Main][k]) \/ text[Main][k - 1] = Backslash
    BY <1>1, <1>8, <2>1 DEF Scanned
  <2>3. CASE text[Main][f.from] = "-"
    BY <2>1, <2>3 DEF Accounted, Ready
  <2>4. CASE text[Main][f.from] # "-"
    <3>1. Covers(tok, k)
      BY <2>1, <2>2, <2>4 DEF Covers
    <3>2. Covers(tok, k)'
      BY <3>1 DEF Covers, Ready
    <3>3. Count(tokens') \in 1..Count(tokens')
      BY <1>6, <1>7
    <3>4. Covers(tokens.items[Count(tokens)], k)'
      BY <1>7, <3>2 DEF Covers
    <3> QED BY <3>3, <3>4 DEF Accounted
  <2> QED BY <2>3, <2>4
<1> QED BY <1>2, <1>3, <1>4, <1>5, <1>8, GoesOn DEF Ready

LEMMA DirectivePasses ==
  ASSUME Ready, NEW f, NEW tok, Scanned(f, tok), Directive(f, tok)
  PROVE  PassInv'
<1>1. TypeInv /\ IsFrame(Top) /\ FrameInv(Top) /\ (Len(frames) = 1 => Top.file = Main)
  BY ReadyFacts
<1>2. Start(Top) \in Nat \ {0}
  BY <1>1, StartIn DEF FrameInv
<1>3. /\ f.file = Top.file /\ f.from = Start(Top) /\ f.pos = f.from + 2
      /\ text[Top.file][f.from] = "-" /\ text[Top.file][f.from + 1] = "include"
  BY DEF Scanned, Directive
<1>4. PICK g : g = Frame(f.file, f.pos, f.line, "next", f.from, <<>>, TRUE)
  OBVIOUS
<1>5. frames' = Replace(g) /\ status' = status /\ g.file = Top.file /\ g.pos = f.pos /\ g.state = "next"
  BY <1>3, <1>4 DEF Directive, Frame
<1>6. PendingAt(Top.file, g.pos)
  <2>1. f.from + 1 \in 2..(g.pos - 1) /\ (f.from + 1) - 1 = f.from /\ ((f.from + 1) + 1)..(g.pos - 1) = {}
    BY <1>2, <1>3, <1>5
  <2> QED BY <1>3, <2>1 DEF PendingAt
<1>7. FrameInv(g) /\ Start(g) = g.pos
  BY <1>5, <1>6 DEF FrameInv, Opened, HasWords, Expects, Start
<1>8. ASSUME Len(frames) = 1, NEW k \in Start(Top)..(Start(g) - 1)
      PROVE  Accounted(k)'
  <2>1. f.from \in 1..k /\ text[Main][f.from] = "-"
    BY <1>1, <1>2, <1>3, <1>5, <1>7, <1>8
  <2> QED BY <2>1 DEF Accounted, Ready
<1>9. Start(g) \in Nat
  BY <1>2, <1>3, <1>5, <1>7
<1> QED BY <1>5, <1>7, <1>8, <1>9, GoesOn DEF Ready

LEMMA ReturnPasses ==
  ASSUME Ready, NEW f, NEW tok, Scanned(f, tok), Return(f, tok)
  PROVE  PassInv'
<1>1. /\ TypeInv /\ IsFrame(Top) /\ FrameInv(Top) /\ Len(frames) \in Nat \ {0} /\ IsSequence(frames)
      /\ \A i \in 1..Len(frames) : IsFrame(frames[i]) /\ FrameInv(frames[i])
      /\ frames[1].file = Main /\ (Len(frames) = 1 => Top = frames[1])
  BY ReadyFacts
<1>2. /\ tok.kind = "END" /\ frames' = SubSeq(frames, 1, Len(frames) - 1)
      /\ status' = IF Len(frames) = 1 THEN "done" ELSE "lexing"
  BY DEF Return, Ready
<1>3. CASE Len(frames) = 1
  <2>1. Start(Top) \in Nat \ {0} /\ Len(text[Main]) \in Nat /\ Top.file = Main
    BY <1>1, <1>3, StartIn, TextsAreSequences DEF FrameInv, IsFrame
  <2>2. f.from = Start(Top) /\ (f.from > Len(text[Main]) \/ text[Main][f.from] = EOF)
    BY <1>2, <2>1 DEF Scanned
  <2>3. ASSUME NEW k \in 1..Len(text[Main])
        PROVE  Accounted(k)'
    <3>1. CASE k < Start(Top)
      <4>1. k \in 1..(Start(frames[1]) - 1)
        BY <1>1, <1>3, <2>1, <3>1
      <4> QED BY <4>1, PassedStays
    <3>2. CASE ~(k < Start(Top))
      <4>1. Start(Top) \in 1..k /\ text[Main][Start(Top)] = EOF
        BY <2>1, <2>2, <3>2
      <4> QED BY <4>1 DEF Accounted, Ready
    <3> QED BY <3>1, <3>2
  <2>4. status' = "done" /\ text' = text
    BY <1>2, <1>3 DEF Ready
  <2> QED BY <2>3, <2>4 DEF PassInv, MainInv, CrashOnlyWhenExpected
<1>4. CASE Len(frames) # 1
  <2>0. Len(frames) - 1 \in Nat \ {0} /\ Len(frames) - 1 <= Len(frames)
    BY <1>1, <1>4
  <2>1. PICK n \in Nat \ {0} : n = Len(frames) - 1 /\ n <= Len(frames)
    BY <2>0
  <2>2. Len(frames') = n /\ \A i \in 1..n : frames'[i] = frames[i]
    BY <1>1, <1>2, <2>1, FrontSequence
  <2>3. ASSUME NEW i \in 1..Len(frames')
        PROVE  FrameInv(frames[i])'
    <3>1. frames'[i] = frames[i] /\ i \in 1..Len(frames)
      BY <1>1, <2>1, <2>2
    <3>2. FrameInv(frames'[i])
      BY <1>1, <3>1
    <3> QED BY <3>2 DEF Ready, FrameInv, Opened, HasWords, Expects, PendingAt
  <2>4. status' = "lexing" /\ frames'[1] = frames[1]
    BY <1>2, <1>4, <2>1, <2>2
  <2>5. Start(frames[1]) \in Nat
    BY <1>1, StartIn DEF FrameInv
  <2>6. Start(frames[1])..(Start(frames[1]) - 1) = {}
    BY <2>5
  <2>7. MainInv'
    BY <1>1, <2>4, <2>5, <2>6, OutermostStays
  <2> QED BY <2>3, <2>4, <2>7 DEF PassInv, CrashOnlyWhenExpected
<1> QED BY <1>3, <1>4

\* The errors after a directive.
LEMMA NoFilePasses ==
  ASSUME Ready, NEW f, NEW tok, Scanned(f, tok), NoFileName(f, tok) \/ NoSuchFile(f, tok)
  PROVE  PassInv'
<1>1. TypeInv /\ IsFrame(Top) /\ FrameInv(Top) /\ Len(frames) # 0 /\ IsSequence(frames) /\ Waiting
  BY ReadyFacts
<1>2. f.operand /\ frames' = Replace(f) /\ status' \in {"crash", "exit"} /\ (status' = "crash" => ~tok.owned)
  BY DEF NoFileName, NoSuchFile
<1>3. CASE status' = "exit"
  BY <1>3 DEF PassInv, MainInv, CrashOnlyWhenExpected
<1>4. CASE status' = "crash"
  <2>1. f.file = Top.file /\ f.from = Start(Top) /\ f.operand = Top.operand
        /\ (f.from <= Len(text[Top.file]) => text[Top.file][f.from] \notin Names \cup {"&"})
    BY <1>2, <1>4 DEF Scanned
  <2>2. PendingAt(f.file, f.from)
    BY <1>1, <1>2, <2>1 DEF FrameInv, Expects
  <2>3. Top' = f /\ text' = text
    <3>1. Len(Replace(f)) = Len(frames) /\ Replace(f)[Len(frames)] = f
      BY <1>1, ReplaceLast DEF Replace
    <3> QED BY <1>2, <3>1 DEF Ready, Top
  <2>4. LET s == text'[Top'.file] IN
        \E k \in 2..(Top'.from - 1) :
          /\ s[k - 1] = "-" /\ s[k] = "include"
          /\ \A j \in (k + 1)..(Top'.from - 1) : s[j] \in Blanks \/ \E i \in (k + 1)..j : s[i] = "-"
          /\ Top'.from <= Len(s) => s[Top'.from] \notin Names \cup {"&"}
    BY <2>1, <2>2, <2>3 DEF PendingAt
  <2>5. CrashOnlyWhenExpected'
    BY <2>4 DEF CrashOnlyWhenExpected
  <2> QED BY <1>4, <2>5 DEF PassInv, MainInv
<1> QED BY <1>2, <1>3, <1>4

\* With room for a call for each file, a full C stack holds a file twice.
LEMMA FullHoldsAFileTwice ==
  ASSUME TypeInv, Len(frames) = MaxIncludes, Cardinality(DOMAIN text) < MaxIncludes
  PROVE  \E i, j \in 1..Len(frames) : i # j /\ frames[i].file = frames[j].file
<1> DEFINE open == [i \in 1..Len(frames) |-> frames[i].file]
<1>1. Len(frames) \in Nat /\ IsFiniteSet(DOMAIN text)
  BY SequenceLength, LexerAssumption DEF TypeInv
<1>2. IsFiniteSet(1..Len(frames)) /\ Cardinality(1..Len(frames)) = Len(frames)
  <2>1. 1 \in Int /\ Len(frames) \in Int
    BY <1>1
  <2>2. IsFiniteSet(1..Len(frames))
    BY <2>1, FS_Interval
  <2>3. Cardinality(1..Len(frames)) = IF 1 > Len(frames) THEN 0 ELSE Len(frames) - 1 + 1
    BY <2>1, FS_Interval
  <2> QED BY <1>1, <2>2, <2>3
<1>3. open \in [1..Len(frames) -> DOMAIN text]
  BY DEF TypeInv, IsFrame
<1> HIDE DEF open
<1>4. PICK i, j \in 1..Len(frames) : i # j /\ open[i] = open[j]
  BY <1>1, <1>2, <1>3, FS_PigeonHole
<1> QED BY <1>4 DEF open

LEMMA IncludePasses ==
  ASSUME Ready, NEW f, NEW tok, Scanned(f, tok), Top.state # "included", Include(f, tok)
  PROVE  PassInv'
<1>1. /\ TypeInv /\ IsFrame(Top) /\ FrameInv(Top) /\ Len(frames) \in Nat \ {0} /\ IsSequence(frames)
      /\ \A i \in 1..Len(frames) : IsFrame(frames[i]) /\ FrameInv(frames[i])
      /\ frames[1].file = Main /\ (Len(frames) = 1 => Top = frames[1])
  BY ReadyFacts
<1>2. CASE Len(frames) = MaxIncludes
  <2>1. frames' = frames /\ status' = "crash" /\ text' = text
    BY <1>2 DEF Include, Ready
  <2>2. Cardinality(DOMAIN text) < MaxIncludes =>
          \E i, j \in 1..Len(frames) : i # j /\ frames[i].file = frames[j].file
    BY <1>1, <1>2, FullHoldsAFileTwice
  <2>3. CrashOnlyWhenExpected'
    BY <2>1, <2>2 DEF CrashOnlyWhenExpected
  <2> QED BY <2>1, <2>3 DEF PassInv, MainInv
<1>3. CASE Len(frames) # MaxIncludes
  <2>1. PICK outer : outer = Frame(f.file, f.pos, f.line, "included", f.from, <<>>, FALSE)
    OBVIOUS
  <2>2. PICK inner : inner = lexer_init(Path(tok)[1])
    OBVIOUS
  <2>3. frames' = Append(Replace(outer), inner) /\ status' = "lexing" /\ f.operand
    BY <1>3, <2>1, <2>2 DEF Include, Ready
  <2>4. /\ f.file = Top.file /\ f.from = Start(Top) /\ f.operand = Top.operand /\ f.pos \in Nat
        /\ f.from <= f.pos
    <3>1. Len(text[Top.file]) \in Nat /\ Start(Top) \in Nat
      BY <1>1, TextsAreSequences, StartIn DEF FrameInv, IsFrame
    <3> QED BY <3>1 DEF Scanned
  <2>5. outer.file = Top.file /\ outer.state = "included" /\ Start(outer) = f.pos /\ FrameInv(outer)
    BY <2>1, <2>4 DEF Frame, FrameInv, Start, Opened, HasWords, Expects
  <2>6. FrameInv(inner)
    BY <2>2 DEF lexer_init, Frame, FrameInv, Opened, HasWords, Expects
  <2>7. /\ Len(frames') = Len(frames) + 1
        /\ \A i \in 1..(Len(frames) - 1) : frames'[i] = frames[i]
        /\ frames'[Len(frames)] = outer /\ frames'[Len(frames) + 1] = inner
    <3> DEFINE kept == Replace(outer)
    <3>1. Len(frames) # 0
      BY <1>1
    <3>2. /\ IsSequence(kept) /\ Len(kept) = Len(frames)
          /\ \A i \in 1..(Len(frames) - 1) : kept[i] = frames[i]
          /\ kept[Len(frames)] = outer
      BY <1>1, <3>1, ReplaceLast DEF Replace
    <3> HIDE DEF kept
    <3>3. /\ Len(frames') = Len(kept) + 1 /\ frames'[Len(kept) + 1] = inner
          /\ \A i \in 1..Len(kept) : frames'[i] = kept[i]
      BY <2>3, <3>2, AppendSequence DEF kept
    <3> QED BY <1>1, <3>2, <3>3
  <2>8. ASSUME NEW i \in 1..Len(frames')
        PROVE  FrameInv(frames[i])'
    <3>1. frames'[i] \in {inner, outer} \/ (i \in 1..Len(frames) /\ frames'[i] = frames[i])
      BY <1>1, <2>7
    <3>2. FrameInv(frames'[i])
      BY <1>1, <2>5, <2>6, <3>1
    <3> QED BY <3>2 DEF Ready, FrameInv, Opened, HasWords, Expects, PendingAt
  <2>9. MainInv'
    <3>1. CASE Len(frames) = 1
      <4>1. PICK k \in 2..(Start(Top) - 1) : text[Main][k - 1] = "-"
        BY <1>1, <2>3, <2>4, <3>1 DEF FrameInv, Expects, PendingAt
      <4>2. ASSUME NEW j \in Start(Top)..(Start(outer) - 1)
            PROVE  Accounted(j)'
        <5>1. k - 1 \in 1..j
          BY <1>1, <4>1, StartIn DEF FrameInv
        <5> QED BY <4>1, <5>1 DEF Accounted, Ready
      <4>3. frames'[1] = outer /\ outer.file = Main /\ Start(outer) \in Nat
        BY <1>1, <2>4, <2>5, <2>7, <3>1
      <4> QED BY <1>1, <2>3, <3>1, <4>2, <4>3, OutermostStays
    <3>2. CASE Len(frames) # 1
      <4>1. frames'[1] = frames[1]
        <5>1. 1 \in 1..(Len(frames) - 1)
          BY <1>1, <3>2, FirstOfMore
        <5> QED BY <2>7, <5>1
      <4>2. Start(frames[1]) \in Nat
        BY <1>1, StartIn DEF FrameInv
      <4>3. Start(frames[1])..(Start(frames[1]) - 1) = {}
        BY <4>2
      <4> QED BY <1>1, <2>3, <4>1, <4>2, <4>3, OutermostStays
    <3> QED BY <3>1, <3>2
  <2> QED BY <2>3, <2>8, <2>9 DEF PassInv, CrashOnlyWhenExpected
<1> QED BY <1>2, <1>3

LEMMA InitPasses == Init => PassInv
<1> SUFFICES ASSUME Init PROVE PassInv
  OBVIOUS
<1>1. frames = <<lexer_init(Main)>> /\ status = "lexing"
  BY DEF Init, InitWith
<1>2. PICK f : f = lexer_init(Main)
  OBVIOUS
<1>3. f.file = Main /\ Start(f) = 1 /\ FrameInv(f)
  BY <1>2 DEF lexer_init, Frame, Start, FrameInv, Opened, HasWords, Expects
<1>4. Len(frames) = 1 /\ frames[1] = f
  BY <1>1, <1>2
<1>5. \A i \in 1..Len(frames) : frames[i] = f
  BY <1>4
<1>6. 1..(1 - 1) = {}
  OBVIOUS
<1> QED BY <1>1, <1>3, <1>4, <1>5, <1>6 DEF PassInv, MainInv, CrashOnlyWhenExpected

LEMMA StepPasses ==
  ASSUME Inv, PassInv, [Next]_lvars
  PROVE  Inv' /\ PassInv'
<1>1. Good
  BY StepIsGood
<1> SUFFICES PassInv'
  BY <1>1 DEF Good
<1>2. CASE lexer_tokenize
  <2>1. Ready /\ Step
    BY <1>1, <1>2 DEF Ready, lexer_tokenize
  <2>2. TypeInv /\ Len(frames) # 0 /\ Opened(Top) /\ HasWords(Top)
    BY <2>1, ReadyFacts DEF FrameInv
  <2>3. CASE Top.state # "included" /\ StepMoves
    BY <2>1, <2>3, MovesPass
  <2>4. CASE Top.state # "included" /\ StepTakes
    <3>1. PICK f, tok : Scanned(f, tok) /\ Take(f, tok)
      BY <2>4 DEF StepTakes
    <3> QED BY <2>1, <2>4, <3>1, KeepPasses, DirectivePasses, ReturnPasses, NoFilePasses, IncludePasses,
              Zenon DEF Take
  <2>5. CASE RemoveEnd
    BY <2>1, <2>5, RemoveEndPasses
  <2> QED BY <2>1, <2>2, <2>3, <2>4, <2>5, ScanSteps
<1>3. CASE UNCHANGED lvars
  <2>1. text' = text /\ frames' = frames /\ tokens' = tokens /\ status' = status
    BY <1>3 DEF lvars
  <2> QED BY <2>1 DEF PassInv, FrameInv, Opened, HasWords, Expects, PendingAt, MainInv, Start,
                      Accounted, Covers, CrashOnlyWhenExpected, Top
<1> QED BY <1>2, <1>3 DEF Next, Finished

----------------------------------------------------------------------------
(* Theorems.                                                               *)

\* The inductive invariant of what follows.
THEOREM Invariance == Spec => []Inv
<1>1. Inv /\ [Next]_lvars => Inv'
  BY StepIsGood DEF Good
<1> QED BY InitInv, <1>1, PTL DEF Spec

\* lexer_tokenize never reads outside of a file nor writes outside of the
\* array of tokens, whatever the files hold and however they include.
THEOREM TypesCorrect == Spec => []TypeOK
<1>1. Inv => TypeOK
  BY DEF Inv, TypeInv, TypeOK, IsFrame, IsToken, Scanning
<1> QED BY Invariance, <1>1, PTL

\* The tokens of every program end in the one END that the parser goes by.
THEOREM OneEndTheorem == Spec => []OneEnd
<1>1. Inv => OneEnd
  <2> SUFFICES ASSUME Inv PROVE OneEnd
    OBVIOUS
  <2>1. Count(tokens) \in Nat /\ NoneBefore
    BY SequenceLength, EndIsLastParts DEF Inv, TypeInv, IsArray, Count
  <2>2. \A i \in 1..Count(tokens) : tokens.items[i].kind = "END" => i = Count(tokens) /\ Ended
    BY <2>1 DEF NoneBefore, Ended, Last
  <2>3. Ended => Count(tokens) \in 1..Count(tokens) /\ tokens.items[Count(tokens)].kind = "END"
    BY <2>1 DEF Ended, Last
  <2>4. (status = "done" => Ended) /\ (status = "lexing" /\ Top.state # "included" => ~Ended)
    BY EndIsLastParts DEF Inv
  <2> QED BY <2>2, <2>3, <2>4 DEF OneEnd
<1> QED BY Invariance, <1>1, PTL

\* The lines in the messages of the compiler are true, with comments and
\* included files of any number, for every file without a string.
THEOREM LinesTheorem == Spec => []LinesTrue
<1>1. Inv => LinesTrue
  BY DEF Inv, TypeInv, IsToken, LineIs, NoString, LinesTrue
<1> QED BY Invariance, <1>1, PTL

\* The removal by position in lexer_tokenize hits an END in every run.
THEOREM RemovalTheorem == Spec => OnlyAnEndIsRemoved
<1>1. Inv /\ [Next]_lvars => [OnlyAnEndGoes]_lvars
  BY StepIsGood DEF Good
<1> QED BY Invariance, <1>1, PTL DEF Spec, OnlyAnEndIsRemoved, OnlyAnEndGoes

\* What follows rests on both invariants.
LEMMA PassInvariance == Spec => [](Inv /\ PassInv)
<1>1. Inv /\ PassInv /\ [Next]_lvars => (Inv /\ PassInv)'
  BY StepPasses
<1> QED BY InitInv, InitPasses, <1>1, PTL DEF Spec

\* The lexer crashes on the token after a directive that is no file name, and
\* on files that include each other: lexer_tokenize fails on no other text
\* without a message, whatever files there are.
THEOREM CrashTheorem == Spec => []CrashOnlyWhenExpected
<1>1. PassInv => CrashOnlyWhenExpected
  BY DEF PassInv
<1> QED BY PassInvariance, <1>1, PTL

\* Every character of a text is in a token, or white space, or behind a minus:
\* lexer_next_token loses no word of any program in silence.
THEOREM NothingDroppedTheorem == Spec => []NothingDropped
<1>1. Inv /\ PassInv => NothingDropped
  <2> SUFFICES ASSUME Inv, PassInv, status \in {"lexing", "done"}, NEW k \in 1..Len(text[Main]),
                      ~(status = "lexing" /\ frames[1].pos <= k),
                      ~(status = "lexing" /\ Len(frames) = 1 /\ frames[1].from <= k)
               PROVE  Accounted(k)
    BY DEF NothingDropped, Accounted, Covers
  <2>1. CASE status = "done"
    BY <2>1 DEF PassInv, MainInv
  <2>2. CASE status = "lexing"
    <3>1. /\ Len(frames) \in Nat \ {0} /\ TypeInv /\ IsFrame(frames[1]) /\ Opened(frames[1])
          /\ \A i \in 1..(Len(frames) - 1) : frames[i].state = "included"
          /\ frames[1].file = Main
      BY <2>2, SequenceLength DEF Inv, TypeInv, Waiting, PassInv, FrameInv, MainInv
    <3>2. Start(frames[1]) \in Nat /\ frames[1].pos \in Nat
      <4>1. Start(frames[1]) \in 1..(Len(text[frames[1].file]) + 1)
        BY <3>1, StartIn
      <4>2. Len(text[frames[1].file]) \in Nat /\ frames[1].pos \in Nat
        BY <3>1, TextsAreSequences DEF IsFrame
      <4> QED BY ONLY <4>1, <4>2
    <3>3. k < Start(frames[1])
      <4>1. CASE frames[1].state \in {"next", "included"}
        BY <2>2, <3>2, <4>1 DEF Start
      <4>2. CASE frames[1].state \notin {"next", "included"}
        <5>1. 1 \notin 1..(Len(frames) - 1)
          BY <3>1, <4>2
        <5>2. Len(frames) = 1
          BY <3>1, <5>1, FirstOfMore
        <5> QED BY <2>2, <3>2, <4>2, <5>2 DEF Start
      <4> QED BY <4>1, <4>2
    <3>4. k \in 1..(Start(frames[1]) - 1)
      BY <3>2, <3>3
    <3> QED BY <2>2, <3>4 DEF PassInv, MainInv
  <2> QED BY <2>1, <2>2
<1> QED BY PassInvariance, <1>1, PTL
=============================================================================
