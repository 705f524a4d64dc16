------------------------------- MODULE Source -------------------------------
(***************************************************************************)
(* What a program of the language means: its control flow, instruction by  *)
(* instruction, as in C.  The compiler has no such definition; it is what  *)
(* the code it generates is compared with.                                 *)
(*                                                                         *)
(* A position is a stage and a line: "at" an instruction, at the "test" of *)
(* a condition, at the "step" of a for loop, or at the "end" of a body.    *)
(***************************************************************************)
EXTENDS Ast

LOCAL At(i) == <<"at", i>>

Enter(p, i) ==
  IF i < Len(p) /\ p[i + 1].depth > p[i].depth THEN At(i + 1) ELSE <<"end", i>>

\* After the whole instruction that line i is, or is a part of.
Follow(p, i) ==
  LET j == AfterAll(p, i)
  IN  IF j <= Len(p) /\ p[j].depth = p[i].depth THEN At(j) ELSE <<"end", Parent(p, i)>>

NextTest(p, i) == IF NextPart(p, i) = 0 THEN Follow(p, i) ELSE <<"test", NextPart(p, i)>>

\* What can be seen of a run: uses of variables, conditions, the start and the
\* step of a for loop, and returns.
Event(p, pos) ==
  LET kind == p[pos[2]].kind IN
  CASE pos[1] = "at" /\ kind = "use"      -> <<"use", pos[2]>>
    [] pos[1] = "at" /\ kind = "for"      -> <<"init", pos[2]>>
    [] pos[1] = "at" /\ kind = "return"   -> <<"ret", pos[2]>>
    [] pos[1] = "end" /\ kind = "fn"      -> <<"ret", pos[2]>>
    [] pos[1] = "step"                    -> <<"step", pos[2]>>
    [] pos[1] = "test" /\ kind \notin {"else", "default"} -> <<"test", pos[2]>>
    [] OTHER                              -> <<"none", 0>>

Silent(p, pos) == Event(p, pos)[1] = "none"

Move(p, pos) ==
  LET i == pos[2]
      kind == p[i].kind
  IN  CASE pos[1] = "at" /\ kind \in {"label", "declare"}   -> Follow(p, i)
        [] pos[1] = "at" /\ kind = "goto"     -> At(CHOOSE j \in LabelLines(p, i) : TRUE)
        [] pos[1] = "at" /\ kind = "break"    -> Follow(p, LoopOf(p, i))
        [] pos[1] = "at" /\ kind = "continue" -> <<"end", LoopOf(p, i)>>
        [] pos[1] = "at" /\ kind \in {"if", "while"}       -> <<"test", i>>
        [] pos[1] = "at" /\ kind = "match"                 -> NextTest(p, i)
        [] pos[1] = "at" /\ kind \in {"loop", "dowhile"}   -> Enter(p, i)
        [] pos[1] = "test"                                 -> Enter(p, i)
        [] pos[1] = "end" /\ kind = "loop"                 -> Enter(p, i)
        [] pos[1] = "end" /\ kind \in {"while", "dowhile"} -> <<"test", i>>
        [] pos[1] = "end" /\ kind = "for"                  -> <<"step", i>>
        [] OTHER                                           -> Follow(p, i)

\* The position after the event at pos; yes is the outcome of a test.
After(p, pos, yes) ==
  LET i == pos[2] IN
  CASE pos[1] = "at" -> IF p[i].kind = "use" THEN Follow(p, i) ELSE <<"test", i>>
    [] pos[1] = "step" -> <<"test", i>>
    [] OTHER -> IF yes THEN Enter(p, i)
                ELSE IF p[i].kind \in Loops THEN Follow(p, i)
                ELSE NextTest(p, i)

\* The first position from pos on that has an event; one with none when there
\* is no such position, because the program loops without any.
Pass(p, pos) == IF Silent(p, pos) THEN Move(p, pos) ELSE pos

Settle(p, pos) ==
  LET settled[n \in 0..(3 * Len(p))] == IF n = 0 THEN pos ELSE Pass(p, settled[n - 1])
  IN  settled[3 * Len(p)]
=============================================================================
