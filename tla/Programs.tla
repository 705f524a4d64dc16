------------------------------ MODULE Programs ------------------------------
(***************************************************************************)
(* What a well-formed program is, said of the whole program at once.  The  *)
(* compiler has no such definitions: its walks are compared with them.     *)
(***************************************************************************)
EXTENDS Ast

LabelsDeclared(p) == \A i \in 1..Len(p) :
  p[i].kind = "goto" => LabelLines(p, i) # {}

LabelsUnique(p) == \A i \in 1..Len(p) :
  p[i].kind = "label" => LabelLines(p, i) = {i}

NothingAfterJump(p) == \A i \in 1..Len(p) :
  p[i].kind \in Jumps /\ i < Len(p) => p[i + 1].depth < p[i].depth

LoopJumpsInLoops(p) == \A i \in 1..Len(p) :
  p[i].kind \in {"break", "continue"} => LoopOf(p, i) # 0

NoJumpIntoFor(p) == \A i, j, k \in 1..Len(p) :
  p[i].kind = "goto" /\ j \in LabelLines(p, i) /\ p[k].kind = "for" /\ Encloses(p, k, j) =>
    Encloses(p, k, i)

NoEmptyMatch(p) == \A i \in 1..Len(p) : p[i].kind = "match" => NextPart(p, i) # 0

\* The names line i can use at line n: a variable is in scope after its
\* declaration, in the function, or the loop, that it is declared in.  The
\* name of a "fn" line is that of its parameter.
VisibleAt(p, i, n) ==
  {p[j].name : j \in {FnOf(p, i)} \ {0}}
  \cup {p[j].name : j \in {j \in 1..i : p[j].kind = "for" /\ Encloses(p, j, i)}}
  \cup {p[j].name : j \in {j \in 1..(n - 1) :
          /\ p[j].kind = "declare" /\ FnOf(p, j) = FnOf(p, i)
          /\ LoopOf(p, j) # 0 => Encloses(p, LoopOf(p, j), i)}}

Visible(p, i) == VisibleAt(p, i, i)

ReadsName(p, i) ==
  \/ p[i].kind \in {"use", "if", "elif", "match", "while", "dowhile"}
  \/ p[i].kind = "return" /\ p[i].name # NoName

NamesDeclared(p) == \A i \in 1..Len(p) : ReadsName(p, i) => p[i].name \in Visible(p, i)

NoShadowing(p) == \A i \in 1..Len(p) : p[i].kind = "for" => p[i].name \notin Visible(p, i)

\* The jumps and loops of a program are such that its blocks can be closed.
WellStructured(p) ==
  /\ LabelsDeclared(p) /\ LabelsUnique(p) /\ NothingAfterJump(p) /\ LoopJumpsInLoops(p)
  /\ NoJumpIntoFor(p) /\ NoEmptyMatch(p)

Clean(p) == WellStructured(p) /\ NamesDeclared(p) /\ NoShadowing(p)
=============================================================================
