-------------------------------- MODULE Ast --------------------------------
(***************************************************************************)
(* The syntax tree of a source file (src/sclc/include/ast.h) as the list   *)
(* of its instructions in source order, each with its nesting depth.  A    *)
(* compound instruction is followed by the instructions of its body, one   *)
(* deeper; the later arms of an if, and the cases of a match, are lines of *)
(* their own at the depth of the if or the match.                          *)
(*                                                                         *)
(* Data is abstract: every instruction that only computes and stores, or   *)
(* calls a function, is a "use" of one variable, and every condition is a  *)
(* test of one variable.                                                   *)
(***************************************************************************)
EXTENDS Naturals, Sequences

Loops == {"loop", "while", "dowhile", "for"}
IfParts == {"elif", "else"}
Cases == {"case", "default"}
Parts == IfParts \cup Cases
Heads == {"fn", "if"} \cup Parts \cup Loops      \* the lines that have a body
Jumps == {"goto", "break", "continue", "return"}

NoName == "-"      \* of a line that needs none, or a return without a value

\* How a line reads its name: as a plain variable or the argument a parameter
\* takes; through a dereference, an address or an array element; or as an
\* argument beyond the parameters, or of a call statement in a body.
Reads == {"name", "place", "argument"}

IsLine(line) ==
  /\ line = [kind |-> line.kind, name |-> line.name, depth |-> line.depth, read |-> line.read]
  /\ line.depth \in Nat /\ line.read \in Reads

\* The first line after i that satisfies Q, or the one after the last line.
FirstAfter(p, i, Q(_)) ==
  CHOOSE j \in (i + 1)..(Len(p) + 1) :
    /\ j <= Len(p) => Q(j)
    /\ \A k \in (i + 1)..(j - 1) : ~Q(k)

EndOf(p, i) == FirstAfter(p, i, LAMBDA j : p[j].depth <= p[i].depth)

Encloses(p, i, j) == i < j /\ j < EndOf(p, i)

\* The line after the instruction that line i begins or is a part of.
AfterAll(p, i) == FirstAfter(p, i, LAMBDA j :
  \/ p[j].depth < p[i].depth
  \/ p[j].depth = p[i].depth /\ p[j].kind \notin Parts)

\* The line whose body line i is in.
Parent(p, i) == CHOOSE j \in 1..(i - 1) :
  Encloses(p, j, i) /\ p[i].depth = p[j].depth + 1

\* The next arm of the if, or case of the match, that line i is a part of.
NextPart(p, i) ==
  LET j == EndOf(p, i) IN
  IF j <= Len(p) /\ p[j].depth = p[i].depth /\ p[j].kind \in Parts THEN j ELSE 0

LoopOf(p, i) ==
  LET around == {j \in 1..(i - 1) : Encloses(p, j, i) /\ p[j].kind \in Loops} IN
  IF around = {} THEN 0 ELSE CHOOSE j \in around : \A k \in around : k <= j

\* 0 outside of functions.
FnOf(p, i) ==
  LET around == {j \in 1..i : p[j].kind = "fn" /\ (j = i \/ Encloses(p, j, i))} IN
  IF around = {} THEN 0 ELSE CHOOSE j \in around : \A k \in around : k <= j

LabelLines(p, i) ==
  {j \in 1..Len(p) : p[j].kind = "label" /\ p[j].name = p[i].name /\ FnOf(p, j) = FnOf(p, i)}

\* What the parser builds: this line may follow the lines p.
Fits(p, line) ==
  LET deepest == IF p = <<>> THEN 0
                 ELSE IF p[Len(p)].kind \in Heads THEN p[Len(p)].depth + 1 ELSE p[Len(p)].depth
      \* the last line at this depth, with nothing shallower after it
      peers == {j \in 1..Len(p) : /\ p[j].depth = line.depth
                                  /\ \A k \in j..Len(p) : p[k].depth >= line.depth}
      peer == CHOOSE j \in peers : \A k \in peers : k <= j
  IN  /\ line.depth <= deepest
      /\ line.kind \in IfParts => peers # {} /\ p[peer].kind \in {"if", "elif"}
      /\ line.kind \in Cases => peers # {} /\ p[peer].kind \in {"match"} \cup Cases
=============================================================================
