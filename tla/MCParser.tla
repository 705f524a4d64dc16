------------------------------ MODULE MCParser ------------------------------
(***************************************************************************)
(* The parser on every source put together from a repertoire of pieces, as *)
(* far as the parser reads it.                                             *)
(***************************************************************************)
EXTENDS Parser

CONSTANTS MaxLong, MaxShort, MaxWrong

If == <<"if", "id", "rel", "lit">>
Arms == {If, <<"{">>, <<"}">>, <<"else">>, <<"id", "=", "lit">>, <<"fn", "id", "(", ")", "{">>}
LoopPieces == {<<"loop", "{">>, <<"}">>, <<"for", "id", "in", "lit", "...", "lit", "{">>, <<"while">>,
               <<"id", "rel", "lit">>, <<"dowhile", "{">>, <<"break">>}
Cases == {<<"match", "id", "{">>, <<"lit">>, <<"lit", "=>">>, <<"_", "=>">>, <<"break">>, <<"{">>, <<"}">>,
          <<"lit", ",">>, <<"lit", "...">>}
Single(kinds) == {<<k>> : k \in kinds}
Expressions == Single({"id", "lit", "(", ")", "[", "]", ",", "=", "mulop", "addop"})
Signatures == Single({")", "type", "ptr", ",", "...", ":", "{", "}", "bad"})
              \cup {<<"fn", "id", "(">>, <<"type", "id">>}
Heads == Single({"while", "id", "[", "lit", "{", "}", "..."}) \cup {<<"fn", "id", "(">>}
Declarations == Single({"type", "id", "=", "[", "]", "{", "}", "lit", "bad", ","})
Others == Single({"return", "goto", "label", "match", "for", "while", "if", "rel", "in", "...",
                  "lit", "id", "=>", "{", "}", "bad"})

Vocabulary(pieces, max, wrong) == [pieces |-> pieces, max |-> max, wrong |-> wrong]
AllVocabularies ==
  {Vocabulary(Arms, MaxLong, MaxWrong), Vocabulary(Cases, MaxLong - 3, MaxWrong),
   Vocabulary(LoopPieces, MaxLong \div 2, MaxWrong), Vocabulary(Signatures, MaxLong \div 2, MaxWrong - 2),
   Vocabulary(Expressions, MaxShort + 1, MaxWrong - 1), Vocabulary(Declarations, MaxShort, MaxWrong - 2),
   Vocabulary(Others, MaxShort, MaxWrong - 3), Vocabulary(Heads, MaxShort, MaxWrong)}
=============================================================================
