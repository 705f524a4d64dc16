----------------------------- MODULE MCSemantic -----------------------------
(***************************************************************************)
(* Semantic on every program, up to a number of lines, that is written     *)
(* with one of a few repertoires of instructions: names in functions and   *)
(* loops, names in the arms of an if, labels on the top level, and names   *)
(* that are read through places and calls.                                 *)
(***************************************************************************)
EXTENDS Semantic

CONSTANT MaxDepth

LineOf(kind, names, least) ==
  {[kind |-> kind, name |-> n, depth |-> d, read |-> "name"] : n \in names, d \in least..MaxDepth}
Anywhere(kind, names) == LineOf(kind, names, 0)
Inside(kind, names) == LineOf(kind, names, 1)
Through(read, kinds) ==
  {[kind |-> k, name |-> "y", depth |-> d, read |-> read] : k \in kinds, d \in 1..MaxDepth}
Function == {[kind |-> "fn", name |-> "x", depth |-> 0, read |-> "name"]}

ScopeLines == LineOf("fn", {"x"}, 0) \cup Anywhere("declare", {"y"}) \cup Inside("use", {"x", "y"})
              \cup Inside("for", {"y"}) \cup Inside("dowhile", {"y"}) \cup Inside("loop", {NoName})
              \cup Inside("return", {"y", NoName})
ArmLines == Function \cup Inside("declare", {"y"})
            \cup Inside("use", {"y"}) \cup Inside("if", {"x", "y"}) \cup Inside("elif", {"x", "y"})
            \cup Inside("else", {NoName}) \cup Inside("match", {"y"}) \cup Inside("case", {NoName})
            \cup Inside("while", {"y"})
TopLevelLines == Anywhere("label", {"L"}) \cup Anywhere("goto", {"L"}) \cup Anywhere("if", {"x"})
               \cup Anywhere("else", {NoName}) \cup Anywhere("declare", {"x"})
               \cup Function

PlaceLines == Function \cup Inside("declare", {"y"}) \cup Inside("else", {NoName})
              \cup Inside("case", {NoName}) \cup Through("argument", {"use", "if"})
              \cup Through("place", {"if", "elif", "match", "while", "return"})

AllVocabularies == {ScopeLines, ArmLines, TopLevelLines, PlaceLines}
=============================================================================
