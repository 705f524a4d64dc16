----------------------------- MODULE MCFrontEnd -----------------------------
(***************************************************************************)
(* FrontEnd on programs written with one of three repertoires: names in    *)
(* functions and loops, names in the arms of ifs and matches, and names    *)
(* that conditions read through places and calls.                          *)
(***************************************************************************)
EXTENDS FrontEnd, FiniteSets

CONSTANT MaxDepth

Inside(kind, names) ==
  {[kind |-> kind, name |-> n, depth |-> d, read |-> "name"] : n \in names, d \in 1..MaxDepth}
Through(read, kinds) ==
  {[kind |-> k, name |-> "y", depth |-> d, read |-> read] : k \in kinds, d \in 1..MaxDepth}
Function == {[kind |-> "fn", name |-> "x", depth |-> 0, read |-> "name"]}

LoopNames == Function \cup Inside("declare", {"y"}) \cup Inside("use", {"x", "y"})
             \cup Inside("for", {"y"}) \cup Inside("dowhile", {"y"}) \cup Inside("loop", {NoName})
             \cup Inside("return", {"y", NoName}) \cup Inside("break", {NoName})
ArmNames == Function \cup Inside("declare", {"y"}) \cup Inside("use", {"y"})
            \cup Inside("if", {"x", "y"}) \cup Inside("elif", {"x", "y"}) \cup Inside("else", {NoName})
            \cup Inside("match", {"y"}) \cup Inside("case", {NoName}) \cup Inside("while", {"y"})

PlaceNames == Function \cup Inside("declare", {"y"}) \cup Inside("else", {NoName})
              \cup Through("place", {"if", "elif", "while", "dowhile"})
              \cup Through("argument", {"use", "if"})

AllVocabularies == {LoopNames, ArmNames, PlaceNames}
=============================================================================
