----------------------------- MODULE MCCompile -----------------------------
(***************************************************************************)
(* Compile on every program, up to a number of lines, that is written with *)
(* one of a few repertoires of instructions.  The parameter of a function  *)
(* is x, the iterators are x and y, the label is L.                        *)
(***************************************************************************)
EXTENDS Compile, FiniteSets

CONSTANT MaxDepth

LineOf(kind, name) == {[kind |-> kind, name |-> name, depth |-> d, read |-> "name"] : d \in 1..MaxDepth}
Plain(kinds) == UNION {LineOf(k, NoName) : k \in kinds}
Tests(kinds) == UNION {LineOf(k, "x") : k \in kinds}

UseX == LineOf("use", "x")
ForY == LineOf("for", "y")
Function == {[kind |-> "fn", name |-> "x", depth |-> 0, read |-> "name"]}

LoopLines == Function \cup UseX \cup ForY \cup Tests({"while", "dowhile", "if"}) \cup Plain({"loop", "break", "continue"})
JumpLines == Function \cup UseX \cup LineOf("label", "L") \cup LineOf("goto", "L") \cup ForY
             \cup Tests({"if"}) \cup Plain({"else", "return", "loop"})
MatchLines == Function \cup UseX \cup Tests({"match", "while"}) \cup Plain({"case", "default", "break", "return"})
NameLines == Function \cup UseX \cup LineOf("use", "y") \cup ForY \cup LineOf("for", "x")
             \cup LineOf("declare", "y") \cup LineOf("if", "x") \cup LineOf("elif", "y")
             \cup LineOf("dowhile", "y") \cup LineOf("while", "y") \cup LineOf("return", "y")
ModuleLines == UseX \cup Function \cup LineOf("label", "L") \cup LineOf("goto", "L") \cup Tests({"if"})

AllVocabularies == {LoopLines, JumpLines, MatchLines, NameLines, ModuleLines}
=============================================================================
