--------------------------- MODULE SemanticProofs ---------------------------
(***************************************************************************)
(* Tables that are copied into loops and dropped after them amount to      *)
(* lexical scoping, for every tree that the parser can build.              *)
(*                                                                         *)
(* The invariant follows the walk through the tree: the constructs that    *)
(* are open are the lines around the next line, the table of each holds    *)
(* the names of its scope up to that line, and an error has been reported  *)
(* exactly if a name was missing from the table it was looked up in.       *)
(* Conditions that are typechecked only stay pending until their if or     *)
(* match is closed.                                                        *)
(***************************************************************************)
EXTENDS Semantic, ContainerProofs, FiniteSetTheorems

----------------------------------------------------------------------------
(* Scopes.                                                                 *)

\* The function and the loops that line i is in.
Scope(p, i) == {j \in 1..Len(p) : In(p, j, i) /\ p[j].kind \in OwnTable}

\* The same of the first k constructs of s, and the table the last has got.
OwnerPlaces(p, s, k) == {l \in 1..k : p[s[l]].kind \in OwnTable}
Owners(p, s, k) == {s[l] : l \in OwnerPlaces(p, s, k)}
Level(p, s, k) == 1 + Cardinality(OwnerPlaces(p, s, k))

\* The names that the instructions of a scope find before line n.
Names(p, n, scope) ==
  {p[j].name : j \in {j \in scope : p[j].kind \in {"fn", "for"}}}
  \cup {p[j].name : j \in {j \in 1..(n - 1) :
          /\ p[j].kind = "declare" /\ ~Overlooked(p, j)
          /\ Scope(p, j) \subseteq scope
          /\ \A f \in scope : p[f].kind = "fn" => f \in Scope(p, j)}}

LEMMA OverlookedIs ==
  ASSUME NEW p, HasDepths(p), NEW i \in 1..Len(p)
  PROVE  Overlooked(p, i) <=>
           \/ \E j \in 1..Len(p) : In(p, j, i) /\ p[j].kind = "elif"
           \/ \E j \in 1..Len(p) : (j = i \/ In(p, j, i)) /\ p[j].kind = "fn" /\ p[j].depth > 0
<1>1. \A j \in 1..Len(p) : j \in Within(p, i) <=> In(p, j, i)
  BY EnclosesIs DEF Within
<1>2. Within(p, i) \subseteq 1..Len(p)
  BY DEF Within
<1> QED BY <1>1, <1>2, Zenon DEF Overlooked

LEMMA SeenIs ==
  ASSUME NEW p, IsTree(p)
  PROVE  /\ HasDepths(Seen(p)) /\ Len(Seen(p)) = Len(p)
         /\ \A i \in 1..Len(p) :
              /\ Seen(p)[i].name = p[i].name
              /\ Seen(p)[i].kind = IF p[i].kind = "declare" /\ Overlooked(p, i) THEN "label" ELSE p[i].kind
         /\ \A i, j \in 1..Len(p) : In(Seen(p), i, j) <=> In(p, i, j)
<1>1. Len(p) \in Nat /\ \A i \in 1..Len(p) : IsLine(p[i])
  BY DEF IsTree, HasDepths
<1>2. PICK q : q = Seen(p)
  OBVIOUS
<1>3. Len(q) = Len(p)
  BY <1>1, <1>2 DEF Seen
<1>4. ASSUME NEW i \in 1..Len(p)
      PROVE  /\ q[i].name = p[i].name /\ q[i].depth = p[i].depth /\ q[i].depth \in Nat
             /\ q[i].kind = IF p[i].kind = "declare" /\ Overlooked(p, i) THEN "label" ELSE p[i].kind
  <2>1. PICK line : line = p[i]
    OBVIOUS
  <2>2. /\ line = [kind |-> line.kind, name |-> line.name, depth |-> line.depth, read |-> line.read]
        /\ line.depth \in Nat
    BY <1>1, <2>1 DEF IsLine
  <2>3. q[i] = IF line.kind = "declare" /\ Overlooked(p, i) THEN [line EXCEPT !.kind = "label"] ELSE line
    BY <1>2, <2>1, Zenon DEF Seen
  <2>4. PICK changed : changed = [line EXCEPT !.kind = "label"]
    OBVIOUS
  <2>5. changed.kind = "label" /\ changed.name = line.name /\ changed.depth = line.depth
    BY <2>2, <2>4
  <2> QED BY <2>1, <2>2, <2>3, <2>4, <2>5
<1>5. HasDepths(q)
  BY <1>1, <1>3, <1>4 DEF HasDepths
<1>6. ASSUME NEW i \in 1..Len(p), NEW j \in 1..Len(p)
      PROVE  In(q, i, j) <=> In(p, i, j)
  <2>1. \A k \in (i + 1)..j : k \in 1..Len(p)
    BY <1>1
  <2> QED BY <1>4, <2>1 DEF In
<1> QED BY <1>2, <1>3, <1>4, <1>5, <1>6

\* VisibleAt, of the program without what is overlooked, in terms of scopes.
LEMMA VisibleIsNames ==
  ASSUME NEW p, IsTree(p), NEW i \in 1..Len(p), ~Overlooked(p, i), p[i].kind # "fn",
         NEW n \in 1..(Len(p) + 1)
  PROVE  VisibleAt(Seen(p), i, n) = Names(p, n, Scope(p, i))
<1>1. PICK q : q = Seen(p)
  OBVIOUS
<1>2. /\ HasDepths(p) /\ HasDepths(q) /\ Len(q) = Len(p) /\ Len(p) \in Nat
      /\ \A j \in 1..Len(p) :
           /\ q[j].name = p[j].name
           /\ q[j].kind = IF p[j].kind = "declare" /\ Overlooked(p, j) THEN "label" ELSE p[j].kind
      /\ \A j, k \in 1..Len(p) : In(q, j, k) <=> In(p, j, k)
  BY <1>1, SeenIs DEF IsTree, HasDepths
<1>3. \A j \in 1..Len(p) :
        /\ q[j].kind = "fn" <=> p[j].kind = "fn"
        /\ q[j].kind = "for" <=> p[j].kind = "for"
        /\ q[j].kind \in Loops <=> p[j].kind \in Loops
        /\ q[j].kind = "declare" <=> p[j].kind = "declare" /\ ~Overlooked(p, j)
  BY <1>2 DEF Loops
<1>4. ASSUME NEW j \in 1..Len(p), ~Overlooked(p, j), p[j].kind # "fn"
      PROVE  \/ FnOf(q, j) = 0 /\ \A f \in Scope(p, j) : p[f].kind # "fn"
             \/ /\ FnOf(q, j) \in Scope(p, j) /\ p[FnOf(q, j)].kind = "fn"
                /\ \A f \in Scope(p, j) : p[f].kind = "fn" => f = FnOf(q, j)
  <2>1. PICK f : f = FnOf(q, j)
    OBVIOUS
  <2>2. \/ f = 0 /\ \A k \in 1..Len(p) : In(p, k, j) => p[k].kind # "fn"
        \/ f \in 1..Len(p) /\ In(p, f, j) /\ p[f].kind = "fn"
    <3>1. q[j].kind # "fn"
      BY <1>3, <1>4
    <3>2. \/ FnOf(q, j) = 0 /\ \A k \in 1..Len(q) : In(q, k, j) => q[k].kind # "fn"
          \/ FnOf(q, j) \in 1..Len(q) /\ In(q, FnOf(q, j), j) /\ q[FnOf(q, j)].kind = "fn"
      BY <1>2, <3>1, FnOfIs
    <3> QED BY <1>2, <1>3, <2>1, <3>2
  <2>3. \A k \in 1..Len(p) : In(p, k, j) /\ p[k].kind = "fn" => p[k].depth = 0
    <3> TAKE k \in 1..Len(p)
    <3>1. In(p, k, j) /\ p[k].kind = "fn" => ~(p[k].depth > 0)
      BY <1>2, <1>4, OverlookedIs
    <3>2. p[k].depth \in Nat
      BY <1>2 DEF HasDepths
    <3> QED BY <3>1, <3>2
  <2>4. ASSUME NEW k \in 1..Len(p), In(p, k, j), p[k].kind = "fn", f \in 1..Len(p), In(p, f, j), p[f].kind = "fn"
        PROVE  k = f
    <3>1. p[k].depth = 0 /\ p[f].depth = 0
      BY <2>3, <2>4
    <3>2. k = f \/ In(p, k, f) \/ In(p, f, k)
      BY <1>2, <2>4, InNested
    <3>3. k \in Nat /\ f \in Nat
      BY <1>2, <2>4
    <3>4. ~In(p, k, f) /\ ~In(p, f, k)
      BY <3>1, <3>3, InDeeper
    <3> QED BY <3>2, <3>4
  <2>5. \A k \in Scope(p, j) : k \in 1..Len(p) /\ In(p, k, j)
    BY DEF Scope
  <2>6. f \in 1..Len(p) /\ In(p, f, j) /\ p[f].kind = "fn" => f \in Scope(p, j)
    BY DEF Scope, OwnTable
  <2> QED BY <2>1, <2>2, <2>4, <2>5, <2>6
<1>5. ASSUME NEW j \in 1..Len(p)
      PROVE  (LoopOf(q, j) # 0 => Encloses(q, LoopOf(q, j), i))
             <=> \A l \in Scope(p, j) : p[l].kind \in Loops => l \in Scope(p, i)
  <2>1. PICK l : l = LoopOf(q, j)
    OBVIOUS
  <2>2. \/ l = 0 /\ \A k \in 1..Len(p) : In(p, k, j) => p[k].kind \notin Loops
        \/ /\ l \in 1..Len(p) /\ In(p, l, j) /\ p[l].kind \in Loops
           /\ \A k \in 1..Len(p) : In(p, k, j) /\ p[k].kind \in Loops => k <= l
    <3>1. \/ LoopOf(q, j) = 0 /\ \A k \in 1..Len(q) : In(q, k, j) => q[k].kind \notin Loops
          \/ /\ LoopOf(q, j) \in 1..Len(q) /\ In(q, LoopOf(q, j), j) /\ q[LoopOf(q, j)].kind \in Loops
             /\ \A k \in 1..Len(q) : In(q, k, j) /\ q[k].kind \in Loops => k <= LoopOf(q, j)
      BY <1>2, LoopOfIs
    <3> QED BY <1>2, <1>3, <2>1, <3>1
  <2>3. \A k \in Scope(p, j) : k \in 1..Len(p) /\ In(p, k, j)
    BY DEF Scope
  <2>4. CASE l = 0
    <3>1. l \notin 1..Len(p)
      BY <2>4
    <3> QED BY <2>1, <2>2, <2>3, <2>4, <3>1
  <2>5. CASE l # 0
    <3>1. /\ l \in 1..Len(p) /\ In(p, l, j) /\ p[l].kind \in Loops
          /\ \A k \in 1..Len(p) : In(p, k, j) /\ p[k].kind \in Loops => k <= l
      BY <2>2, <2>5
    <3>2. l \in Scope(p, j)
      BY <3>1 DEF Scope, OwnTable
    <3>3. Encloses(q, l, i) <=> In(p, l, i)
      BY <1>2, <3>1, EnclosesIs
    <3>4. ASSUME In(p, l, i), NEW k \in Scope(p, j), p[k].kind \in Loops PROVE k \in Scope(p, i)
      <4>1. k \in 1..Len(p) /\ In(p, k, j) /\ k <= l
        BY <2>3, <3>1, <3>4
      <4>2. k = l \/ In(p, k, l) \/ In(p, l, k)
        BY <1>2, <3>1, <4>1, InNested
      <4>3. ~In(p, l, k)
        BY <1>2, <3>1, <4>1 DEF In
      <4>4. In(p, k, i)
        BY <1>2, <3>1, <3>4, <4>1, <4>2, <4>3, InTransitive
      <4> QED BY <3>4, <4>1, <4>4 DEF Scope, OwnTable
    <3>5. In(p, l, i) <=> l \in Scope(p, i)
      BY <3>1 DEF Scope, OwnTable
    <3> QED BY <2>1, <2>5, <3>1, <3>2, <3>3, <3>4, <3>5
  <2> QED BY <2>4, <2>5
<1>6. {q[j].name : j \in {FnOf(q, i)} \ {0}} = {p[j].name : j \in {j \in Scope(p, i) : p[j].kind = "fn"}}
  <2>1. {FnOf(q, i)} \ {0} = {j \in Scope(p, i) : p[j].kind = "fn"}
    <3>1. \A f \in Scope(p, i) : f # 0
      BY DEF Scope
    <3> QED BY <1>4, <3>1, Zenon
  <2>2. \A j \in {j \in Scope(p, i) : p[j].kind = "fn"} : q[j].name = p[j].name
    BY <1>2 DEF Scope
  <2> QED BY <2>1, <2>2, Zenon
<1>7. {q[j].name : j \in {j \in 1..i : q[j].kind = "for" /\ Encloses(q, j, i)}}
      = {p[j].name : j \in {j \in Scope(p, i) : p[j].kind = "for"}}
  <2>1. ASSUME NEW j PROVE (j \in 1..i /\ q[j].kind = "for" /\ Encloses(q, j, i))
                           <=> (j \in Scope(p, i) /\ p[j].kind = "for")
    <3>1. j \in 1..i => j \in 1..Len(p)
      BY <1>2
    <3>2. j \in Scope(p, i) => j \in 1..Len(p) /\ j \in 1..i /\ In(p, j, i)
      BY <1>2 DEF Scope, In
    <3>3. j \in 1..Len(p) => (Encloses(q, j, i) <=> In(p, j, i))
      BY <1>2, EnclosesIs
    <3>4. j \in 1..Len(p) /\ In(p, j, i) /\ p[j].kind = "for" => j \in Scope(p, i)
      BY DEF Scope, OwnTable, Loops
    <3> QED BY <1>3, <3>1, <3>2, <3>3, <3>4, Zenon
  <2>2. {j \in 1..i : q[j].kind = "for" /\ Encloses(q, j, i)} = {j \in Scope(p, i) : p[j].kind = "for"}
    BY <2>1, Zenon
  <2>3. \A j \in {j \in Scope(p, i) : p[j].kind = "for"} : q[j].name = p[j].name
    BY <1>2 DEF Scope
  <2> QED BY <2>2, <2>3, Zenon
<1>8. {j \in 1..(n - 1) : /\ q[j].kind = "declare" /\ FnOf(q, j) = FnOf(q, i)
                          /\ LoopOf(q, j) # 0 => Encloses(q, LoopOf(q, j), i)}
      = {j \in 1..(n - 1) : /\ p[j].kind = "declare" /\ ~Overlooked(p, j)
                            /\ Scope(p, j) \subseteq Scope(p, i)
                            /\ \A f \in Scope(p, i) : p[f].kind = "fn" => f \in Scope(p, j)}
  <2>1. ASSUME NEW j \in 1..(n - 1), p[j].kind = "declare", ~Overlooked(p, j)
        PROVE  (FnOf(q, j) = FnOf(q, i) /\ (LoopOf(q, j) # 0 => Encloses(q, LoopOf(q, j), i)))
               <=> (/\ Scope(p, j) \subseteq Scope(p, i)
                    /\ \A f \in Scope(p, i) : p[f].kind = "fn" => f \in Scope(p, j))
    <3>1. j \in 1..Len(p) /\ p[j].kind # "fn"
      BY <1>2, <2>1
    <3>2. PICK fj : fj = FnOf(q, j)
      OBVIOUS
    <3>3. PICK fi : fi = FnOf(q, i)
      OBVIOUS
    <3>4. \/ fj = 0 /\ \A f \in Scope(p, j) : p[f].kind # "fn"
          \/ fj \in Scope(p, j) /\ p[fj].kind = "fn" /\ \A f \in Scope(p, j) : p[f].kind = "fn" => f = fj
      BY <1>4, <2>1, <3>1, <3>2
    <3>5. \/ fi = 0 /\ \A f \in Scope(p, i) : p[f].kind # "fn"
          \/ fi \in Scope(p, i) /\ p[fi].kind = "fn" /\ \A f \in Scope(p, i) : p[f].kind = "fn" => f = fi
      BY <1>4, <3>3
    <3>6. \A k \in Scope(p, j) \cup Scope(p, i) : k # 0
      BY DEF Scope
    <3>7. fj = fi <=> /\ \A f \in Scope(p, j) : p[f].kind = "fn" => f \in Scope(p, i)
                      /\ \A f \in Scope(p, i) : p[f].kind = "fn" => f \in Scope(p, j)
      BY <3>4, <3>5, <3>6
    <3>8. \A k \in Scope(p, j) : p[k].kind \in Loops \/ p[k].kind = "fn"
      BY DEF Scope, OwnTable
    <3> QED BY <1>5, <3>1, <3>2, <3>3, <3>7, <3>8, Zenon
  <2>2. \A j \in 1..(n - 1) : q[j].kind = "declare" <=> p[j].kind = "declare" /\ ~Overlooked(p, j)
    <3>1. \A j \in 1..(n - 1) : j \in 1..Len(p)
      BY <1>2
    <3> QED BY <1>3, <3>1
  <2> QED BY <2>1, <2>2, Zenon
<1>9. ASSUME NEW S, S \subseteq 1..(n - 1)
      PROVE  {q[j].name : j \in S} = {p[j].name : j \in S}
  <2>1. \A j \in S : q[j].name = p[j].name
    BY <1>2, <1>9
  <2> QED BY <2>1, Zenon
<1> QED
  <2> DEFINE D == {j \in 1..(n - 1) : /\ p[j].kind = "declare" /\ ~Overlooked(p, j)
                                      /\ Scope(p, j) \subseteq Scope(p, i)
                                      /\ \A f \in Scope(p, i) : p[f].kind = "fn" => f \in Scope(p, j)}
             E == {j \in 1..(n - 1) : /\ q[j].kind = "declare" /\ FnOf(q, j) = FnOf(q, i)
                                      /\ LoopOf(q, j) # 0 => Encloses(q, LoopOf(q, j), i)}
             F == {p[j].name : j \in {j \in Scope(p, i) : p[j].kind = "fn"}}
             R == {p[j].name : j \in {j \in Scope(p, i) : p[j].kind = "for"}}
  <2>1. VisibleAt(q, i, n) = F \cup R \cup {q[j].name : j \in E}
    BY <1>6, <1>7, Zenon DEF VisibleAt
  <2>2. {q[j].name : j \in E} = {p[j].name : j \in D}
    <3>1. E = D /\ D \subseteq 1..(n - 1)
      BY <1>8
    <3> HIDE DEF D, E
    <3> QED BY <1>9, <3>1
  <2>3. {p[j].name : j \in {j \in Scope(p, i) : p[j].kind \in {"fn", "for"}}} = F \cup R
    OBVIOUS
  <2>4. Names(p, n, Scope(p, i)) = {p[j].name : j \in {j \in Scope(p, i) : p[j].kind \in {"fn", "for"}}}
                                  \cup {p[j].name : j \in D}
    BY Zenon DEF Names
  <2> HIDE DEF D, E, F, R
  <2> QED BY <1>1, <2>1, <2>2, <2>3, <2>4, Zenon

----------------------------------------------------------------------------
(* The inductive invariant.                                                *)

\* Line j is in a body of the construct that line i begins, or begins one.
BelongsTo(p, i, j) ==
  \/ p[j].depth > p[i].depth
  \/ /\ p[j].depth = p[i].depth
     /\ \/ p[i].kind = "if" /\ p[j].kind \in IfParts
        \/ p[i].kind = "match" /\ p[j].kind \in Cases

\* The constructs s are open at line n.
OpenAt(p, s, n) ==
  /\ IsSequence(s)
  /\ \A k \in 1..Len(s) :
       /\ s[k] \in 1..(n - 1) /\ ~Overlooked(p, s[k])
       /\ p[s[k]].kind \in OwnTable \cup {"if", "match"}
       /\ p[s[k]].kind = "fn" => k = 1 /\ p[s[k]].depth = 0
       /\ Scope(p, s[k]) = Owners(p, s, k - 1)
       /\ \A l \in 1..(k - 1) : s[l] < s[k] /\ p[s[l]].depth < p[s[k]].depth
       /\ \A j \in (s[k] + 1)..(n - 1) : BelongsTo(p, s[k], j)

\* What is not looked at has been left: the lines around line n are open, or
\* are parts of what is.
Around(p, s, n) == n <= Len(p) =>
  \A j \in 1..(n - 1) : In(p, j, n) =>
    \/ \E k \in 1..Len(s) : s[k] = j
    \/ /\ p[j].kind \in {"else", "case", "default"}
       /\ \E k \in 1..Len(s) : p[s[k]].depth = p[j].depth

WalkAt(p, s, n) == IsTree(p) /\ n \in 1..(Len(p) + 1) /\ OpenAt(p, s, n) /\ Around(p, s, n)

\* The tables t hold the names of the scopes that are open at line n.
TablesAt(p, s, n, t) ==
  /\ IsSequence(t) /\ Len(t) = Level(p, s, Len(s))
  /\ \A k \in 0..Len(s) : t[Level(p, s, k)] = Names(p, n, Owners(p, s, k))
  /\ \A k \in 3..Len(t) : t[k - 1] \subseteq t[k]

\* A condition that is typechecked at the end of an if or match that is open.
Pending(p, s, i) ==
  TypecheckedOnly(p[i]) /\ \E k \in 1..Len(s) : s[k] <= i /\ p[s[k]].depth = p[i].depth

\* The lines before line n whose name was not visible when it was looked at.
Misses(p, i) == Deadline(p, i) # 0 /\ p[i].name \notin VisibleAt(Seen(p), i, Deadline(p, i))
Wrong(p, s, n) == \E i \in 1..(n - 1) : Misses(p, i) /\ ~Pending(p, s, i)

StageInv ==
  /\ stage \in {"parse", "variables", "checked"} /\ reported \in BOOLEAN
  /\ stage = "parse" => looking = 1 /\ inside = <<>> /\ tables = <<{}>> /\ reported = FALSE

ScopeInv ==
  /\ WalkAt(prog, inside, looking) /\ TablesAt(prog, inside, looking, tables) /\ StageInv
  /\ stage = "variables" => (reported <=> Wrong(prog, inside, looking))

----------------------------------------------------------------------------
(* Places among the open constructs.                                       *)

LEMMA Levels ==
  ASSUME NEW p, NEW s, NEW k \in Nat, NEW m \in Nat, k <= m
  PROVE  /\ Level(p, s, k) \in Nat \ {0} /\ Level(p, s, k) <= Level(p, s, m)
         /\ Level(p, s, k) = Level(p, s, m) => Owners(p, s, k) = Owners(p, s, m)
         /\ Owners(p, s, k) \subseteq Owners(p, s, m)
<1> DEFINE A == OwnerPlaces(p, s, k)
           B == OwnerPlaces(p, s, m)
<1>1. A \subseteq B
  BY DEF OwnerPlaces
<1>2. IsFiniteSet(B)
  <2>1. IsFiniteSet(1..m) /\ B \subseteq 1..m
    BY FS_Interval DEF OwnerPlaces
  <2> QED BY <2>1, FS_Subset
<1>3. /\ Cardinality(A) \in Nat /\ Cardinality(B) \in Nat /\ Cardinality(A) <= Cardinality(B)
      /\ Cardinality(A) = Cardinality(B) => A = B
  <2> HIDE DEF A, B
  <2>1. IsFiniteSet(A) /\ Cardinality(A) <= Cardinality(B) /\ (Cardinality(A) = Cardinality(B) => A = B)
    BY <1>1, <1>2, FS_Subset
  <2> QED BY <1>2, <2>1, FS_CardinalityType
<1>4. Level(p, s, k) = 1 + Cardinality(A) /\ Level(p, s, m) = 1 + Cardinality(B)
  BY DEF Level
<1>5. Owners(p, s, k) = {s[l] : l \in A} /\ Owners(p, s, m) = {s[l] : l \in B}
  BY DEF Owners
<1> HIDE DEF A, B
<1>6. Level(p, s, k) = Level(p, s, m) => A = B
  BY <1>3, <1>4
<1> QED BY <1>1, <1>3, <1>4, <1>5, <1>6

LEMMA NextLevel ==
  ASSUME NEW p, NEW s, NEW k \in Nat
  PROVE  /\ Level(p, s, 0) = 1 /\ Owners(p, s, 0) = {}
         /\ p[s[k + 1]].kind \notin OwnTable => /\ Level(p, s, k + 1) = Level(p, s, k)
                                               /\ Owners(p, s, k + 1) = Owners(p, s, k)
         /\ p[s[k + 1]].kind \in OwnTable => /\ Level(p, s, k + 1) = Level(p, s, k) + 1
                                            /\ Owners(p, s, k + 1) = Owners(p, s, k) \cup {s[k + 1]}
<1> DEFINE A == OwnerPlaces(p, s, k)
           B == OwnerPlaces(p, s, k + 1)
<1>1. OwnerPlaces(p, s, 0) = {}
  BY DEF OwnerPlaces
<1>2. Level(p, s, 0) = 1 /\ Owners(p, s, 0) = {}
  BY <1>1, FS_EmptySet DEF Level, Owners
<1>3. p[s[k + 1]].kind \notin OwnTable => B = A
  BY DEF OwnerPlaces
<1>4. p[s[k + 1]].kind \in OwnTable => B = A \cup {k + 1}
  BY DEF OwnerPlaces
<1>5. k + 1 \notin A
  BY DEF OwnerPlaces
<1>6. IsFiniteSet(A)
  <2>1. IsFiniteSet(1..k) /\ A \subseteq 1..k
    BY FS_Interval DEF OwnerPlaces
  <2> QED BY <2>1, FS_Subset
<1>7. Level(p, s, k) = 1 + Cardinality(A) /\ Level(p, s, k + 1) = 1 + Cardinality(B)
  BY DEF Level
<1>8. Owners(p, s, k) = {s[l] : l \in A} /\ Owners(p, s, k + 1) = {s[l] : l \in B}
  BY DEF Owners
<1> HIDE DEF A, B
<1>9. Cardinality(A \cup {k + 1}) = Cardinality(A) + 1 /\ Cardinality(A) \in Nat
  BY <1>5, <1>6, FS_AddElement, FS_CardinalityType
<1>10. p[s[k + 1]].kind \in OwnTable => Level(p, s, k + 1) = Level(p, s, k) + 1
  <2>1. p[s[k + 1]].kind \in OwnTable => Cardinality(B) = Cardinality(A) + 1
    BY <1>4, <1>9, Zenon
  <2> QED BY <1>7, <1>9, <2>1
<1>11. p[s[k + 1]].kind \in OwnTable => Owners(p, s, k + 1) = Owners(p, s, k) \cup {s[k + 1]}
  BY <1>4, <1>8
<1> QED BY <1>2, <1>3, <1>7, <1>8, <1>10, <1>11

\* Levels and owners are said of the constructs that are counted.
LEMMA SamePlaces ==
  ASSUME NEW p, NEW s, NEW t, NEW k \in Nat, \A l \in 1..k : t[l] = s[l]
  PROVE  \A l \in 0..k : Level(p, t, l) = Level(p, s, l) /\ Owners(p, t, l) = Owners(p, s, l)
<1> TAKE l \in 0..k
<1>1. \A m \in 1..l : t[m] = s[m]
  OBVIOUS
<1>2. OwnerPlaces(p, t, l) = OwnerPlaces(p, s, l)
  BY <1>1 DEF OwnerPlaces
<1>3. \A m \in OwnerPlaces(p, s, l) : t[m] = s[m]
  BY <1>1 DEF OwnerPlaces
<1> QED BY <1>2, <1>3, Zenon DEF Level, Owners

----------------------------------------------------------------------------
(* Steps of the walk.                                                      *)

\* Line n is in the body of the last of the constructs that are open.
BodyAt(p, s, n) ==
  /\ IsTree(p) /\ n \in 1..Len(p) /\ OpenAt(p, s, n) /\ Around(p, s, n)
  /\ Len(s) # 0 => p[n].depth > p[s[Len(s)]].depth

LEMMA OpenIs ==
  ASSUME NEW p, IsTree(p), NEW n \in 1..(Len(p) + 1), NEW s, OpenAt(p, s, n)
  PROVE  /\ Len(s) \in Nat /\ Len(p) \in Nat /\ n \in Nat
         /\ \A k \in 1..Len(s) : /\ s[k] \in 1..Len(p) /\ s[k] \in 1..(n - 1)
                                 /\ p[s[k]].depth \in Nat
                                 /\ \A j \in s[k]..(n - 1) : j \in 1..Len(p) /\ p[j].depth \in Nat
<1>1. Len(s) \in Nat /\ Len(p) \in Nat
  BY SequenceLength DEF OpenAt, IsTree, HasDepths
<1> QED BY <1>1 DEF OpenAt, IsTree, HasDepths

LEMMA BodyIs ==
  ASSUME NEW p, NEW s, NEW n, BodyAt(p, s, n)
  PROVE  /\ \A k \in 1..Len(s) : p[n].depth > p[s[k]].depth
         /\ s = <<>> => p[n].depth = 0
         /\ Scope(p, n) = Owners(p, s, Len(s))
         /\ (p[n].kind = "fn" => s = <<>>) => ~Overlooked(p, n)
<1>1. /\ Len(s) \in Nat /\ Len(p) \in Nat /\ n \in Nat /\ n \in 1..Len(p) /\ p[n].depth \in Nat
      /\ \A k \in 1..Len(s) : /\ s[k] \in 1..Len(p) /\ s[k] \in 1..(n - 1)
                              /\ p[s[k]].depth \in Nat
                              /\ \A j \in s[k]..(n - 1) : j \in 1..Len(p) /\ p[j].depth \in Nat
  <2>1. Len(p) \in Nat /\ n \in 1..Len(p) /\ p[n].depth \in Nat /\ IsTree(p) /\ OpenAt(p, s, n)
    BY DEF BodyAt, IsTree, HasDepths
  <2>2. n \in 1..(Len(p) + 1)
    BY <2>1
  <2> QED BY <2>1, <2>2, OpenIs
<1>2. ASSUME NEW k \in 1..Len(s) PROVE p[n].depth > p[s[k]].depth
  <2>1. Len(s) \in 1..Len(s) /\ p[n].depth > p[s[Len(s)]].depth
    BY <1>1 DEF BodyAt
  <2>2. k = Len(s) \/ p[s[k]].depth < p[s[Len(s)]].depth
    <3>1. k = Len(s) \/ k \in 1..(Len(s) - 1)
      BY <1>1
    <3>2. \A l \in 1..(Len(s) - 1) : p[s[l]].depth < p[s[Len(s)]].depth
      BY <2>1, Zenon DEF BodyAt, OpenAt
    <3> QED BY <3>1, <3>2
  <2>3. p[s[k]].depth \in Nat /\ p[s[Len(s)]].depth \in Nat /\ p[n].depth \in Nat
    BY <1>1, <2>1
  <2> QED BY ONLY <2>1, <2>2, <2>3
<1>3. ASSUME NEW j \in 1..Len(p), In(p, j, n)
      PROVE  \/ \E k \in 1..Len(s) : s[k] = j
             \/ /\ p[j].kind \in {"else", "case", "default"}
                /\ \E k \in 1..Len(s) : p[s[k]].depth = p[j].depth
  <2>1. j \in 1..(n - 1) /\ n <= Len(p)
    BY <1>1, <1>3 DEF In
  <2> QED BY <1>3, <2>1 DEF BodyAt, Around
<1>4. s = <<>> => p[n].depth = 0
  <2> SUFFICES ASSUME s = <<>>, p[n].depth # 0 PROVE FALSE
    OBVIOUS
  <2>1. Len(s) = 0
    OBVIOUS
  <2>2. PICK j \in 1..Len(p) : In(p, j, n)
    BY <1>1, HasParent DEF BodyAt
  <2> QED BY <1>3, <2>1, <2>2
<1>5. ASSUME NEW k \in 1..Len(s), p[s[k]].kind \in OwnTable PROVE In(p, s[k], n)
  <2>1. \A j \in (s[k] + 1)..(n - 1) : p[j].depth > p[s[k]].depth
    <3>1. p[s[k]].kind \notin {"if", "match"}
      BY <1>5 DEF OwnTable, Loops
    <3> QED BY <3>1 DEF BodyAt, OpenAt, BelongsTo
  <2>2. \A j \in (s[k] + 1)..n : j = n \/ j \in (s[k] + 1)..(n - 1)
    BY <1>1
  <2>3. s[k] < n
    BY <1>1
  <2> QED BY <1>2, <2>1, <2>2, <2>3 DEF In
<1>6. Scope(p, n) = Owners(p, s, Len(s))
  <2>1. ASSUME NEW j \in Scope(p, n) PROVE j \in Owners(p, s, Len(s))
    <3>1. j \in 1..Len(p) /\ In(p, j, n) /\ p[j].kind \in OwnTable
      BY DEF Scope
    <3>2. p[j].kind \notin {"else", "case", "default"}
      BY <3>1 DEF OwnTable, Loops
    <3>3. PICK k \in 1..Len(s) : s[k] = j
      BY <1>3, <3>1, <3>2
    <3> QED BY <3>1, <3>3 DEF Owners, OwnerPlaces
  <2>2. ASSUME NEW j \in Owners(p, s, Len(s)) PROVE j \in Scope(p, n)
    <3>1. PICK k \in 1..Len(s) : s[k] = j /\ p[s[k]].kind \in OwnTable
      BY DEF Owners, OwnerPlaces
    <3> QED BY <1>1, <1>5, <3>1 DEF Scope
  <2> QED BY <2>1, <2>2
<1>7. ASSUME p[n].kind = "fn" => s = <<>>, Overlooked(p, n) PROVE FALSE
  <2>1. HasDepths(p)
    BY DEF BodyAt, IsTree
  <2>2. \A k \in 1..Len(s) : p[s[k]].kind # "elif" /\ (p[s[k]].kind = "fn" => p[s[k]].depth = 0)
    BY DEF BodyAt, OpenAt, OwnTable, Loops
  <2>3. CASE \E j \in 1..Len(p) : In(p, j, n) /\ p[j].kind = "elif"
    BY <1>3, <2>2, <2>3
  <2>4. CASE \E j \in 1..Len(p) : (j = n \/ In(p, j, n)) /\ p[j].kind = "fn" /\ p[j].depth > 0
    <3>1. PICK j \in 1..Len(p) : (j = n \/ In(p, j, n)) /\ p[j].kind = "fn" /\ p[j].depth > 0
      BY <2>4
    <3>2. ~(p[j].depth = 0)
      BY <3>1
    <3>3. CASE j = n
      BY <1>4, <1>7, <3>1, <3>2, <3>3
    <3>4. CASE In(p, j, n)
      BY <1>3, <2>2, <3>1, <3>2, <3>4
    <3> QED BY <3>1, <3>3, <3>4
  <2> QED BY <1>1, <1>7, <2>1, <2>3, <2>4, OverlookedIs
<1> QED BY <1>2, <1>4, <1>6, <1>7

\* The walk goes on at line m, having looked at or skipped those before it.
LEMMA Onward ==
  ASSUME NEW p, IsTree(p), NEW s, NEW n \in 1..Len(p), NEW m \in (n + 1)..(Len(p) + 1),
         OpenAt(p, s, n), Around(p, s, n),
         \A k \in 1..Len(s) : \A j \in n..(m - 1) : BelongsTo(p, s[k], j),
         m <= Len(p) => \A j \in n..(m - 1) : In(p, j, m) =>
           p[j].kind \in {"else", "case", "default"} /\ \E k \in 1..Len(s) : p[s[k]].depth = p[j].depth
  PROVE  OpenAt(p, s, m) /\ Around(p, s, m)
<1>1. /\ Len(s) \in Nat /\ Len(p) \in Nat /\ n \in Nat /\ m \in Nat
      /\ \A k \in 1..Len(s) : s[k] \in 1..(n - 1)
  <2>1. n \in 1..(Len(p) + 1)
    OBVIOUS
  <2> QED BY <2>1, OpenIs
<1>2. OpenAt(p, s, m)
  <2>1. \A k \in 1..Len(s) : s[k] \in 1..(m - 1) /\ \A j \in (s[k] + 1)..(m - 1) : BelongsTo(p, s[k], j)
    <3> TAKE k \in 1..Len(s)
    <3>1. \A j \in (s[k] + 1)..(m - 1) : j \in (s[k] + 1)..(n - 1) \/ j \in n..(m - 1)
      BY <1>1
    <3>2. \A j \in (s[k] + 1)..(n - 1) : BelongsTo(p, s[k], j)
      BY DEF OpenAt
    <3>3. s[k] \in 1..(m - 1)
      BY <1>1
    <3> QED BY <3>1, <3>2, <3>3
  <2> QED BY <2>1, Zenon DEF OpenAt
<1>3. Around(p, s, m)
  <2> SUFFICES ASSUME m <= Len(p), NEW j \in 1..(m - 1), In(p, j, m)
               PROVE  \/ \E k \in 1..Len(s) : s[k] = j
                      \/ /\ p[j].kind \in {"else", "case", "default"}
                         /\ \E k \in 1..Len(s) : p[s[k]].depth = p[j].depth
    BY Zenon DEF Around
  <2>1. CASE j \in n..(m - 1)
    BY <2>1
  <2>2. CASE j \in 1..(n - 1)
    <3>1. In(p, j, n)
      BY <1>1, <2>2, InBetween
    <3> QED BY <1>1, <2>2, <3>1 DEF Around
  <2> QED BY <1>1, <2>1, <2>2
<1> QED BY <1>2, <1>3

\* After a line without a body.
LEMMA OnwardByOne ==
  ASSUME NEW p, NEW s, NEW n, BodyAt(p, s, n), p[n].kind \notin Heads
  PROVE  OpenAt(p, s, n + 1) /\ Around(p, s, n + 1)
<1>1. IsTree(p) /\ HasDepths(p) /\ Len(p) \in Nat /\ n \in 1..Len(p) /\ OpenAt(p, s, n) /\ Around(p, s, n)
  BY DEF BodyAt, IsTree, HasDepths
<1>2. PICK m : m = n + 1
  OBVIOUS
<1>3. m \in (n + 1)..(Len(p) + 1) /\ \A j \in n..(m - 1) : j = n
  BY <1>1, <1>2
<1>4. \A k \in 1..Len(s) : BelongsTo(p, s[k], n)
  BY BodyIs DEF BelongsTo
<1>5. m <= Len(p) => ~In(p, n, m)
  <2> SUFFICES ASSUME m <= Len(p), In(p, n, m) PROVE FALSE
    OBVIOUS
  <2>1. m \in 1..Len(p) /\ m # 1 /\ m - 1 = n
    BY <1>1, <1>2, <1>3
  <2>2. p[m].depth <= p[n].depth
    <3>1. p[m].depth <= IF p[m - 1].kind \in Heads THEN p[m - 1].depth + 1 ELSE p[m - 1].depth
      BY <1>1, <2>1 DEF IsTree
    <3> QED BY <2>1, <3>1
  <2>3. p[m].depth > p[n].depth
    BY <1>1, <2>1, InDeeper
  <2>4. p[m].depth \in Nat /\ p[n].depth \in Nat
    BY <1>1, <2>1 DEF HasDepths
  <2> QED BY <2>2, <2>3, <2>4
<1>6. OpenAt(p, s, m) /\ Around(p, s, m)
  <2>1. \A k \in 1..Len(s) : \A j \in n..(m - 1) : BelongsTo(p, s[k], j)
    BY <1>3, <1>4
  <2>2. m <= Len(p) => \A j \in n..(m - 1) : ~In(p, j, m)
    BY <1>3, <1>5
  <2> QED BY <1>1, <1>3, <2>1, <2>2, Onward
<1> QED BY <1>2, <1>6

\* After a body that is skipped.
LEMMA OnwardToEnd ==
  ASSUME NEW p, IsTree(p), NEW s, NEW n \in 1..Len(p), OpenAt(p, s, n), Around(p, s, n),
         \A k \in 1..Len(s) : p[n].depth >= p[s[k]].depth /\ BelongsTo(p, s[k], n)
  PROVE  OpenAt(p, s, EndOf(p, n)) /\ Around(p, s, EndOf(p, n))
<1>1. /\ HasDepths(p) /\ Len(p) \in Nat /\ n \in 1..(Len(p) + 1)
      /\ \A j \in 1..Len(p) : p[j].depth \in Nat
  BY DEF IsTree, HasDepths
<1>2. PICK m : m = EndOf(p, n)
  OBVIOUS
<1>3. /\ m \in (n + 1)..(Len(p) + 1)
      /\ m <= Len(p) => p[m].depth <= p[n].depth
      /\ \A j \in (n + 1)..(m - 1) : p[j].depth > p[n].depth
  BY <1>1, <1>2, EndIs
<1>4. \A j \in n..(m - 1) : j \in 1..Len(p) /\ (j = n \/ j \in (n + 1)..(m - 1))
  BY <1>1, <1>3
<1>5. ASSUME NEW k \in 1..Len(s), NEW j \in n..(m - 1) PROVE BelongsTo(p, s[k], j)
  <2>1. CASE j = n
    BY <2>1
  <2>2. CASE j \in (n + 1)..(m - 1)
    <3>1. p[s[k]].depth \in Nat /\ p[n].depth \in Nat /\ p[j].depth \in Nat
      BY <1>1, <1>4, OpenIs
    <3>2. p[j].depth > p[n].depth /\ p[n].depth >= p[s[k]].depth
      BY <1>3, <2>2
    <3> QED BY <3>1, <3>2 DEF BelongsTo
  <2> QED BY <1>4, <2>1, <2>2
<1>6. ASSUME m <= Len(p), NEW j \in n..(m - 1) PROVE ~In(p, j, m)
  <2>1. m \in 1..Len(p) /\ j \in 1..Len(p)
    BY <1>1, <1>3, <1>4, <1>6
  <2>2. p[m].depth \in Nat /\ p[n].depth \in Nat /\ p[j].depth \in Nat
    BY <1>1, <2>1
  <2>3. p[j].depth >= p[n].depth
    BY <1>3, <1>4, <2>2
  <2>4. p[m].depth <= p[n].depth
    BY <1>3, <1>6
  <2>5. ~(p[m].depth > p[j].depth)
    BY <2>2, <2>3, <2>4
  <2> QED BY <2>1, <2>5, InDeeper
<1>7. OpenAt(p, s, m) /\ Around(p, s, m)
  BY <1>3, <1>5, <1>6, Onward
<1> QED BY <1>2, <1>7

\* A construct is opened.
LEMMA OpenedIs ==
  ASSUME NEW p, NEW s, NEW n, BodyAt(p, s, n),
         p[n].kind \in OwnTable \cup {"if", "match"}, p[n].kind = "fn" => s = <<>>
  PROVE  OpenAt(p, Append(s, n), n + 1) /\ Around(p, Append(s, n), n + 1)
<1>1. IsTree(p) /\ Len(p) \in Nat /\ n \in 1..Len(p) /\ n \in Nat /\ OpenAt(p, s, n) /\ Around(p, s, n)
  BY DEF BodyAt, IsTree, HasDepths
<1>2. Len(s) \in Nat /\ IsSequence(s) /\ \A k \in 1..Len(s) : s[k] \in 1..(n - 1)
  BY <1>1, OpenIs DEF OpenAt
<1>3. PICK t : t = Append(s, n)
  OBVIOUS
<1>4. IsSequence(t) /\ Len(t) = Len(s) + 1 /\ (\A k \in 1..Len(s) : t[k] = s[k]) /\ t[Len(s) + 1] = n
  BY <1>2, <1>3, AppendSequence
<1>5. ASSUME NEW k \in 1..Len(t)
      PROVE  /\ t[k] \in 1..((n + 1) - 1) /\ ~Overlooked(p, t[k])
             /\ p[t[k]].kind \in OwnTable \cup {"if", "match"}
             /\ p[t[k]].kind = "fn" => k = 1 /\ p[t[k]].depth = 0
             /\ Scope(p, t[k]) = Owners(p, t, k - 1)
             /\ \A l \in 1..(k - 1) : t[l] < t[k] /\ p[t[l]].depth < p[t[k]].depth
             /\ \A j \in (t[k] + 1)..((n + 1) - 1) : BelongsTo(p, t[k], j)
  <2>1. \A l \in 0..Len(s) : Owners(p, t, l) = Owners(p, s, l)
    BY <1>2, <1>4, SamePlaces
  <2>2. CASE k = Len(s) + 1
    <3>1. t[k] = n /\ k - 1 = Len(s)
      BY <1>2, <1>4, <2>2
    <3>2. ~Overlooked(p, n)
      BY BodyIs
    <3>3. p[n].kind = "fn" => k = 1 /\ p[n].depth = 0
      <4>1. s = <<>> => Len(s) = 0
        OBVIOUS
      <4> QED BY <2>2, <4>1, BodyIs
    <3>4. Scope(p, n) = Owners(p, t, k - 1)
      <4>1. Len(s) \in 0..Len(s)
        BY <1>2
      <4> QED BY <2>1, <3>1, <4>1, BodyIs
    <3>5. \A l \in 1..(k - 1) : t[l] < n /\ p[t[l]].depth < p[n].depth
      <4> TAKE l \in 1..(k - 1)
      <4>1. l \in 1..Len(s) /\ t[l] = s[l] /\ s[l] < n
        BY <1>1, <1>2, <1>4, <3>1
      <4>2. p[n].depth > p[s[l]].depth
        BY <4>1, BodyIs
      <4>3. p[n].depth \in Nat /\ p[s[l]].depth \in Nat
        BY <1>1, <1>2, <4>1 DEF IsTree, HasDepths
      <4> QED BY <4>1, <4>2, <4>3
    <3>6. \A j \in (n + 1)..((n + 1) - 1) : BelongsTo(p, n, j)
      BY <1>1
    <3>7. n \in 1..((n + 1) - 1)
      BY <1>1
    <3> QED BY <3>1, <3>2, <3>3, <3>4, <3>5, <3>6, <3>7
  <2>3. CASE k \in 1..Len(s)
    <3>1. t[k] = s[k] /\ \A l \in 1..(k - 1) : t[l] = s[l]
      BY <1>2, <1>4, <2>3
    <3>2. /\ s[k] \in 1..(n - 1) /\ ~Overlooked(p, s[k])
          /\ p[s[k]].kind \in OwnTable \cup {"if", "match"}
          /\ p[s[k]].kind = "fn" => k = 1 /\ p[s[k]].depth = 0
          /\ Scope(p, s[k]) = Owners(p, s, k - 1)
          /\ \A l \in 1..(k - 1) : s[l] < s[k] /\ p[s[l]].depth < p[s[k]].depth
          /\ \A j \in (s[k] + 1)..(n - 1) : BelongsTo(p, s[k], j)
      BY <1>1, <2>3, Zenon DEF OpenAt
    <3>3. k - 1 \in 0..Len(s) /\ s[k] \in 1..((n + 1) - 1)
      BY <1>1, <1>2, <2>3, <3>2
    <3>4. \A j \in (s[k] + 1)..((n + 1) - 1) : BelongsTo(p, s[k], j)
      <4>1. \A j \in (s[k] + 1)..((n + 1) - 1) : j = n \/ j \in (s[k] + 1)..(n - 1)
        BY <1>1, <3>2
      <4>2. BelongsTo(p, s[k], n)
        BY <2>3, BodyIs DEF BelongsTo
      <4> QED BY <3>2, <4>1, <4>2
    <3> QED BY <2>1, <3>1, <3>2, <3>3, <3>4
  <2> QED BY <1>2, <1>4, <2>2, <2>3
<1>6. OpenAt(p, t, n + 1)
  BY <1>4, <1>5, Zenon DEF OpenAt
<1>7. ASSUME NEW j \in 1..((n + 1) - 1), In(p, j, n + 1), n + 1 <= Len(p)
      PROVE  \/ \E k \in 1..Len(t) : t[k] = j
             \/ /\ p[j].kind \in {"else", "case", "default"}
                /\ \E k \in 1..Len(t) : p[t[k]].depth = p[j].depth
  <2>1. CASE j = n
    <3>1. Len(s) + 1 \in 1..Len(t)
      BY <1>2, <1>4
    <3> QED BY <1>4, <2>1, <3>1
  <2>2. CASE j # n
    <3>1. j \in 1..(n - 1) /\ j \in Nat /\ n + 1 \in Nat /\ j < n /\ n <= n + 1 /\ n <= Len(p)
      BY <1>1, <2>2
    <3>2. In(p, j, n)
      BY <1>1, <1>7, <3>1, InBetween
    <3>3. \/ \E k \in 1..Len(s) : s[k] = j
          \/ /\ p[j].kind \in {"else", "case", "default"}
             /\ \E k \in 1..Len(s) : p[s[k]].depth = p[j].depth
      BY <1>1, <3>1, <3>2 DEF Around
    <3>4. \A k \in 1..Len(s) : k \in 1..Len(t) /\ t[k] = s[k]
      BY <1>2, <1>4
    <3> QED BY <3>3, <3>4, Zenon
  <2> QED BY <2>1, <2>2
<1>8. Around(p, t, n + 1)
  BY <1>7, Zenon DEF Around
<1> QED BY <1>3, <1>6, <1>8

\* A construct is closed.
LEMMA ClosedIs ==
  ASSUME NEW p, IsTree(p), NEW s, NEW n \in 1..(Len(p) + 1), OpenAt(p, s, n), Around(p, s, n), s # <<>>,
         n <= Len(p) => p[n].depth <= p[s[Len(s)]].depth
  PROVE  OpenAt(p, AllButLast(s), n) /\ Around(p, AllButLast(s), n)
<1>1. /\ Len(p) \in Nat /\ n \in Nat /\ Len(s) \in Nat \ {0} /\ IsSequence(s)
      /\ \A k \in 1..Len(s) : s[k] \in 1..Len(p) /\ s[k] \in 1..(n - 1) /\ p[s[k]].depth \in Nat
  BY OpenIs, SequenceLength DEF OpenAt
<1>2. PICK t : t = AllButLast(s)
  OBVIOUS
<1>3. IsSequence(t) /\ Len(t) = Len(s) - 1 /\ \A k \in 1..(Len(s) - 1) : t[k] = s[k]
  <2>1. Len(s) - 1 \in Nat /\ Len(s) - 1 <= Len(s)
    BY <1>1
  <2> QED BY <1>1, <1>2, <2>1, FrontSequence DEF AllButLast
<1>4. \A l \in 0..(Len(s) - 1) : Owners(p, t, l) = Owners(p, s, l)
  <2>1. Len(s) - 1 \in Nat
    BY <1>1
  <2> QED BY <1>3, <2>1, SamePlaces
<1>5. ASSUME NEW k \in 1..Len(t)
      PROVE  /\ t[k] \in 1..(n - 1) /\ ~Overlooked(p, t[k])
             /\ p[t[k]].kind \in OwnTable \cup {"if", "match"}
             /\ p[t[k]].kind = "fn" => k = 1 /\ p[t[k]].depth = 0
             /\ Scope(p, t[k]) = Owners(p, t, k - 1)
             /\ \A l \in 1..(k - 1) : t[l] < t[k] /\ p[t[l]].depth < p[t[k]].depth
             /\ \A j \in (t[k] + 1)..(n - 1) : BelongsTo(p, t[k], j)
  <2>1. /\ k \in 1..Len(s) /\ t[k] = s[k] /\ (\A l \in 1..(k - 1) : t[l] = s[l])
        /\ k - 1 \in 0..(Len(s) - 1)
    BY <1>1, <1>3
  <2>2. /\ s[k] \in 1..(n - 1) /\ ~Overlooked(p, s[k])
        /\ p[s[k]].kind \in OwnTable \cup {"if", "match"}
        /\ p[s[k]].kind = "fn" => k = 1 /\ p[s[k]].depth = 0
        /\ Scope(p, s[k]) = Owners(p, s, k - 1)
        /\ \A l \in 1..(k - 1) : s[l] < s[k] /\ p[s[l]].depth < p[s[k]].depth
        /\ \A j \in (s[k] + 1)..(n - 1) : BelongsTo(p, s[k], j)
    BY <2>1, Zenon DEF OpenAt
  <2> QED BY <1>4, <2>1, <2>2
<1>6. OpenAt(p, t, n)
  BY <1>3, <1>5, Zenon DEF OpenAt
<1>7. ASSUME n <= Len(p), NEW j \in 1..(n - 1), In(p, j, n)
      PROVE  \/ \E k \in 1..Len(t) : t[k] = j
             \/ /\ p[j].kind \in {"else", "case", "default"}
                /\ \E k \in 1..Len(t) : p[t[k]].depth = p[j].depth
  <2>1. p[n].depth > p[j].depth /\ p[n].depth \in Nat /\ p[j].depth \in Nat
    <3>1. n \in 1..Len(p) /\ j \in 1..Len(p) /\ j \in Nat
      BY <1>1, <1>7
    <3> QED BY <1>1, <1>7, <3>1, InDeeper DEF IsTree, HasDepths
  <2>2. Len(s) \in 1..Len(s)
    BY <1>1
  <2>3. p[s[Len(s)]].depth # p[j].depth
    BY <1>1, <1>7, <2>1, <2>2
  <2>4. \/ \E k \in 1..Len(s) : s[k] = j
        \/ /\ p[j].kind \in {"else", "case", "default"}
           /\ \E k \in 1..Len(s) : p[s[k]].depth = p[j].depth
    BY <1>7 DEF Around
  <2>5. ASSUME NEW k \in 1..Len(s), p[s[k]].depth = p[j].depth PROVE k \in 1..Len(t) /\ t[k] = s[k]
    <3>1. k # Len(s)
      BY <2>3, <2>5
    <3>2. k \in 1..(Len(s) - 1)
      BY <1>1, <3>1
    <3> QED BY <1>3, <3>2
  <2> QED BY <2>4, <2>5
<1>8. Around(p, t, n)
  BY <1>7, Zenon DEF Around
<1> QED BY <1>2, <1>6, <1>8

\* A part is one of the if or match that is open.
LEMMA PartBelongs ==
  ASSUME NEW p, IsTree(p), NEW s, NEW n \in 1..Len(p), OpenAt(p, s, n), s # <<>>,
         p[n].kind \in Parts, p[n].depth = p[s[Len(s)]].depth
  PROVE  /\ BelongsTo(p, s[Len(s)], n)
         /\ \A k \in 1..Len(s) : BelongsTo(p, s[k], n) /\ p[n].depth >= p[s[k]].depth
<1>1. /\ Len(p) \in Nat /\ n \in Nat /\ Len(s) \in Nat \ {0} /\ Len(s) \in 1..Len(s)
      /\ \A k \in 1..Len(s) : s[k] \in 1..Len(p) /\ s[k] \in 1..(n - 1) /\ p[s[k]].depth \in Nat
  <2>1. n \in 1..(Len(p) + 1) /\ IsSequence(s)
    BY DEF OpenAt, IsTree, HasDepths
  <2>2. Len(s) \in Nat \ {0}
    BY <2>1, SequenceLength
  <2> QED BY <2>1, <2>2, OpenIs
<1>2. PICK top : top = s[Len(s)]
  OBVIOUS
<1>3. top \in 1..(n - 1) /\ p[top].depth = p[n].depth /\ p[top].depth \in Nat
  BY <1>1, <1>2
<1>4. \A j \in (top + 1)..(n - 1) : BelongsTo(p, top, j)
  BY <1>1, <1>2 DEF OpenAt
<1>5. ASSUME NEW j \in 1..(n - 1), Peer(p, j, n)
      PROVE  j = top \/ (j \in (top + 1)..(n - 1) /\ p[j].depth = p[top].depth)
  <2>1. p[j].depth = p[n].depth /\ \A k \in (j + 1)..(n - 1) : p[k].depth > p[n].depth
    BY <1>5 DEF Peer
  <2>2. CASE j < top
    <3>1. top \in (j + 1)..(n - 1)
      BY <1>3, <2>2
    <3>2. p[top].depth > p[n].depth
      BY <2>1, <3>1
    <3> QED BY <1>3, <3>2
  <2>3. CASE ~(j < top)
    BY <1>3, <2>1, <2>3
  <2> QED BY <2>2, <2>3
<1>6. \A j \in (top + 1)..(n - 1) : p[j].depth = p[top].depth =>
        \/ p[top].kind = "if" /\ p[j].kind \in IfParts
        \/ p[top].kind = "match" /\ p[j].kind \in Cases
  <2> TAKE j \in (top + 1)..(n - 1)
  <2>1. p[j].depth = p[top].depth => ~(p[j].depth > p[top].depth)
    BY <1>3
  <2> QED BY <1>4, <2>1 DEF BelongsTo
<1>7. BelongsTo(p, top, n)
  <2>1. CASE p[n].kind \in IfParts
    <3>1. PICK j \in 1..(n - 1) : Peer(p, j, n) /\ p[j].kind \in {"if", "elif"}
      BY <2>1 DEF IsTree
    <3>2. CASE j = top
      <4>1. p[top].kind = "if" \/ p[top].kind = "elif"
        BY <3>1, <3>2
      <4>2. p[top].kind # "elif"
        BY <1>1, <1>2 DEF OpenAt, OwnTable, Loops
      <4> QED BY <1>3, <2>1, <4>1, <4>2 DEF BelongsTo
    <3>3. CASE j # top
      <4>1. p[top].kind = "if"
        BY <1>5, <1>6, <3>1, <3>3 DEF IfParts, Cases
      <4> QED BY <1>3, <2>1, <4>1 DEF BelongsTo
    <3> QED BY <3>2, <3>3
  <2>2. CASE p[n].kind \in Cases
    <3>1. PICK j \in 1..(n - 1) : Peer(p, j, n) /\ p[j].kind \in {"match"} \cup Cases
      BY <2>2 DEF IsTree
    <3>2. CASE j = top
      <4>1. p[top].kind = "match" \/ p[top].kind \in Cases
        BY <3>1, <3>2
      <4>2. p[top].kind \notin Cases
        BY <1>1, <1>2 DEF OpenAt, OwnTable, Loops, Cases
      <4> QED BY <1>3, <2>2, <4>1, <4>2 DEF BelongsTo
    <3>3. CASE j # top
      <4>1. p[top].kind = "match"
        BY <1>5, <1>6, <3>1, <3>3 DEF IfParts, Cases
      <4> QED BY <1>3, <2>2, <4>1 DEF BelongsTo
    <3> QED BY <3>2, <3>3
  <2> QED BY <2>1, <2>2 DEF Parts
<1>8. ASSUME NEW k \in 1..Len(s) PROVE BelongsTo(p, s[k], n) /\ p[n].depth >= p[s[k]].depth
  <2>1. CASE k = Len(s)
    BY <1>1, <1>2, <1>3, <1>7, <2>1
  <2>2. CASE k # Len(s)
    <3>1. k \in 1..(Len(s) - 1)
      BY <1>1, <2>2
    <3>2. p[s[k]].depth < p[top].depth
      BY <1>1, <1>2, <3>1 DEF OpenAt
    <3>3. p[s[k]].depth \in Nat
      BY <1>1
    <3>4. p[n].depth > p[s[k]].depth /\ p[n].depth >= p[s[k]].depth
      BY ONLY <1>3, <3>2, <3>3
    <3> QED BY <3>4 DEF BelongsTo
  <2> QED BY <2>1, <2>2
<1> QED BY <1>2, <1>7, <1>8

----------------------------------------------------------------------------
(* Tables.                                                                 *)

\* No declaration that is looked at, no new name.
LEMMA NamesOnward ==
  ASSUME NEW p, NEW n \in Nat, NEW m \in Nat, n <= m, NEW scope,
         \A j \in n..(m - 1) : p[j].kind # "declare" \/ Overlooked(p, j)
  PROVE  Names(p, m, scope) = Names(p, n, scope)
<1> DEFINE Looked(j) == /\ p[j].kind = "declare" /\ ~Overlooked(p, j)
                        /\ Scope(p, j) \subseteq scope
                        /\ \A f \in scope : p[f].kind = "fn" => f \in Scope(p, j)
<1>1. \A j \in 1..(m - 1) : Looked(j) => j \in 1..(n - 1)
  <2> TAKE j \in 1..(m - 1)
  <2>1. j \in n..(m - 1) \/ j \in 1..(n - 1)
    OBVIOUS
  <2> QED BY <2>1
<1>2. \A j \in 1..(n - 1) : j \in 1..(m - 1)
  OBVIOUS
<1>3. {j \in 1..(m - 1) : Looked(j)} = {j \in 1..(n - 1) : Looked(j)}
  <2> HIDE DEF Looked
  <2> QED BY <1>1, <1>2
<1> QED BY <1>3, Zenon DEF Names

\* A declaration is seen in the scopes that it is in itself.
LEMMA NamesAfterDeclare ==
  ASSUME NEW p, NEW n \in Nat \ {0}, p[n].kind = "declare", ~Overlooked(p, n), NEW scope
  PROVE  /\ scope = Scope(p, n) => Names(p, n + 1, scope) = Names(p, n, scope) \cup {p[n].name}
         /\ ~(Scope(p, n) \subseteq scope) => Names(p, n + 1, scope) = Names(p, n, scope)
<1> DEFINE Looked(j) == /\ p[j].kind = "declare" /\ ~Overlooked(p, j)
                        /\ Scope(p, j) \subseteq scope
                        /\ \A f \in scope : p[f].kind = "fn" => f \in Scope(p, j)
           D == {j \in 1..(n - 1) : Looked(j)}
           E == {j \in 1..((n + 1) - 1) : Looked(j)}
           F == {p[j].name : j \in {j \in scope : p[j].kind \in {"fn", "for"}}}
<1>1. Names(p, n, scope) = F \cup {p[j].name : j \in D} /\ Names(p, n + 1, scope) = F \cup {p[j].name : j \in E}
  BY Zenon DEF Names
<1>2. scope = Scope(p, n) => Looked(n)
  OBVIOUS
<1>3. ~(Scope(p, n) \subseteq scope) => ~Looked(n)
  OBVIOUS
<1>4. \A j : j \in 1..((n + 1) - 1) <=> j = n \/ j \in 1..(n - 1)
  OBVIOUS
<1>5. Looked(n) => E = D \cup {n}
  <2> HIDE DEF Looked
  <2> QED BY <1>4
<1>6. ~Looked(n) => E = D
  <2> HIDE DEF Looked
  <2> QED BY <1>4
<1> HIDE DEF D, E, F, Looked
<1>7. ASSUME E = D \cup {n} PROVE Names(p, n + 1, scope) = Names(p, n, scope) \cup {p[n].name}
  BY <1>1, <1>7
<1> QED BY <1>1, <1>2, <1>3, <1>5, <1>6, <1>7, Zenon

LEMMA NamesOfFunction ==
  ASSUME NEW p, NEW n \in Nat \ {0}, p[n].kind = "fn"
  PROVE  Names(p, n + 1, {n}) = {p[n].name}
<1>1. ASSUME NEW j \in 1..((n + 1) - 1) PROVE n \notin Scope(p, j)
  BY DEF Scope, In
<1>2. {j \in 1..((n + 1) - 1) : /\ p[j].kind = "declare" /\ ~Overlooked(p, j)
                                /\ Scope(p, j) \subseteq {n}
                                /\ \A f \in {n} : p[f].kind = "fn" => f \in Scope(p, j)} = {}
  BY <1>1, Zenon
<1>3. {j \in {n} : p[j].kind \in {"fn", "for"}} = {n}
  OBVIOUS
<1>4. Names(p, n + 1, {n}) = {p[j].name : j \in {n}} \cup {p[j].name : j \in {}}
  BY <1>2, <1>3, Zenon DEF Names
<1> QED BY <1>4

LEMMA NamesOfLoop ==
  ASSUME NEW p, NEW n \in Nat \ {0}, p[n].kind \in Loops, NEW scope
  PROVE  Names(p, n + 1, scope \cup {n})
         = Names(p, n, scope) \cup (IF p[n].kind = "for" THEN {p[n].name} ELSE {})
<1> DEFINE Looked(j, o) == /\ p[j].kind = "declare" /\ ~Overlooked(p, j)
                           /\ Scope(p, j) \subseteq o
                           /\ \A f \in o : p[f].kind = "fn" => f \in Scope(p, j)
           D == {j \in 1..(n - 1) : Looked(j, scope)}
           E == {j \in 1..((n + 1) - 1) : Looked(j, scope \cup {n})}
           F(o) == {j \in o : p[j].kind \in {"fn", "for"}}
<1>1. /\ Names(p, n, scope) = {p[j].name : j \in F(scope)} \cup {p[j].name : j \in D}
      /\ Names(p, n + 1, scope \cup {n}) = {p[j].name : j \in F(scope \cup {n})} \cup {p[j].name : j \in E}
  BY Zenon DEF Names
<1>2. p[n].kind # "fn" /\ p[n].kind # "declare"
  BY DEF Loops
<1>3. ASSUME NEW j \in 1..((n + 1) - 1) PROVE n \notin Scope(p, j)
  BY DEF Scope, In
<1>4. \A j : j \in 1..((n + 1) - 1) <=> j = n \/ j \in 1..(n - 1)
  OBVIOUS
<1>5. ASSUME NEW j \in 1..((n + 1) - 1) PROVE Looked(j, scope \cup {n}) <=> Looked(j, scope)
  BY <1>2, <1>3
<1>6. ~Looked(n, scope)
  BY <1>2
<1>7. E = D
  <2> HIDE DEF Looked
  <2> QED BY <1>4, <1>5, <1>6
<1>8. F(scope \cup {n}) = F(scope) \cup (IF p[n].kind = "for" THEN {n} ELSE {})
  BY <1>2
<1> HIDE DEF D, E, F
<1>9. {p[j].name : j \in F(scope \cup {n})}
      = {p[j].name : j \in F(scope)} \cup (IF p[n].kind = "for" THEN {p[n].name} ELSE {})
  BY <1>8
<1> QED BY <1>1, <1>7, <1>9

LEMMA TablesIs ==
  ASSUME NEW p, NEW s, IsSequence(s), NEW n, NEW t, TablesAt(p, s, n, t)
  PROVE  /\ Len(s) \in Nat /\ Len(t) \in Nat \ {0} /\ Len(t) = Level(p, s, Len(s)) /\ IsSequence(t)
         /\ t[Len(t)] = Names(p, n, Owners(p, s, Len(s)))
         /\ \A k \in 0..Len(s) : Level(p, s, k) \in 1..Len(t)
<1>1. Len(s) \in Nat
  BY SequenceLength
<1>2. Len(s) \in 0..Len(s)
  BY <1>1
<1>3. \A k \in 0..Len(s) : /\ Level(p, s, k) \in Nat \ {0}
                            /\ Level(p, s, k) <= Level(p, s, Len(s))
                            /\ Level(p, s, Len(s)) \in Nat \ {0}
  <2> TAKE k \in 0..Len(s)
  <2>1. k \in Nat /\ k <= Len(s) /\ Len(s) <= Len(s)
    BY <1>1
  <2> QED BY <1>1, <2>1, Levels
<1> QED BY <1>1, <1>2, <1>3 DEF TablesAt

\* At first there is the empty table of fst.
LEMMA FirstTable ==
  ASSUME NEW p
  PROVE  TablesAt(p, <<>>, 1, <<{}>>)
<1>1. PICK s : s = <<>>
  OBVIOUS
<1>2. Len(s) = 0 /\ 1..(1 - 1) = {} /\ \A k \in 0..0 : k = 0
  BY <1>1
<1>3. Level(p, s, 0) = 1 /\ Owners(p, s, 0) = {}
  BY NextLevel
<1>4. Names(p, 1, {}) = {}
  BY <1>2 DEF Names
<1>5. PICK t : t = <<{}>>
  OBVIOUS
<1>6. IsSequence(t) /\ Len(t) = 1 /\ t[1] = {} /\ 3..1 = {}
  <2>1. t \in Seq({{}}) /\ Len(t) = 1 /\ t[1] = {}
    BY <1>5
  <2>2. 3..1 = {}
    OBVIOUS
  <2> QED BY <2>1, <2>2, Zenon DEF IsSequence
<1>7. \A k \in 0..Len(s) : t[Level(p, s, k)] = Names(p, 1, Owners(p, s, k))
  BY <1>2, <1>3, <1>4, <1>6
<1>8. Len(t) = Level(p, s, Len(s)) /\ \A k \in 3..Len(t) : t[k - 1] \subseteq t[k]
  BY <1>2, <1>3, <1>6
<1>9. TablesAt(p, s, 1, t)
  BY <1>6, <1>7, <1>8, Zenon DEF TablesAt
<1> QED BY <1>1, <1>5, <1>9

LEMMA TablesOnward ==
  ASSUME NEW p, NEW s, NEW n \in Nat, NEW m \in Nat, n <= m, NEW t, TablesAt(p, s, n, t),
         \A j \in n..(m - 1) : p[j].kind # "declare" \/ Overlooked(p, j)
  PROVE  TablesAt(p, s, m, t)
<1>1. \A k \in 0..Len(s) : Names(p, m, Owners(p, s, k)) = Names(p, n, Owners(p, s, k))
  BY NamesOnward
<1> QED BY <1>1, Zenon DEF TablesAt

WithLast(s, x) == [s EXCEPT ![Len(s)] = x]

LEMMA WithLastIs ==
  ASSUME NEW s, IsSequence(s), Len(s) # 0, NEW x
  PROVE  /\ IsSequence(WithLast(s, x)) /\ Len(WithLast(s, x)) = Len(s)
         /\ \A i \in 1..(Len(s) - 1) : WithLast(s, x)[i] = s[i]
         /\ WithLast(s, x)[Len(s)] = x
BY ReplaceLast, Zenon DEF WithLast

\* A name goes to the table of the scope of its declaration, and to no other.
LEMMA TablesDeclare ==
  ASSUME NEW p, NEW s, NEW n, BodyAt(p, s, n), p[n].kind = "declare", NEW t, TablesAt(p, s, n, t)
  PROVE  TablesAt(p, s, n + 1, [t EXCEPT ![Len(t)] = @ \cup {p[n].name}])
<1>1. /\ IsSequence(s) /\ n \in Nat \ {0} /\ OpenAt(p, s, n)
      /\ \A k, l \in 1..Len(s) : l < k => s[l] < s[k] /\ s[l] \in Nat /\ s[k] \in Nat
  <2>1. IsTree(p) /\ n \in 1..Len(p) /\ OpenAt(p, s, n) /\ n \in 1..(Len(p) + 1)
    BY DEF BodyAt, IsTree, HasDepths
  <2>2. n \in Nat \ {0} /\ IsSequence(s) /\ \A k \in 1..Len(s) : s[k] \in 1..(n - 1)
    BY <2>1, OpenIs DEF OpenAt
  <2>3. Len(s) \in Nat
    BY <2>2, SequenceLength
  <2>4. ASSUME NEW k \in 1..Len(s), NEW l \in 1..Len(s), l < k
        PROVE  s[l] < s[k] /\ s[l] \in Nat /\ s[k] \in Nat
    <3>1. l \in 1..(k - 1)
      BY <2>3, <2>4
    <3> QED BY <2>1, <2>2, <3>1 DEF OpenAt
  <2> QED BY <2>1, <2>2, <2>4
<1>2. /\ Len(s) \in Nat /\ Len(t) \in Nat \ {0} /\ Len(t) = Level(p, s, Len(s)) /\ IsSequence(t)
      /\ t[Len(t)] = Names(p, n, Owners(p, s, Len(s)))
      /\ \A k \in 0..Len(s) : Level(p, s, k) \in 1..Len(t)
  BY <1>1, TablesIs
<1>3. Scope(p, n) = Owners(p, s, Len(s)) /\ ~Overlooked(p, n)
  BY BodyIs
<1>4. PICK new : new = [t EXCEPT ![Len(t)] = @ \cup {p[n].name}]
  OBVIOUS
<1>0. PICK table : table = t[Len(t)] \cup {p[n].name}
  OBVIOUS
<1>5. new = WithLast(t, table)
  BY <1>0, <1>4, Zenon DEF WithLast
<1>6. /\ IsSequence(new) /\ Len(new) = Len(t)
      /\ \A i \in 1..(Len(t) - 1) : new[i] = t[i]
      /\ new[Len(t)] = t[Len(t)] \cup {p[n].name}
  <2>1. IsSequence(t) /\ Len(t) # 0
    BY <1>2
  <2>2. /\ IsSequence(new) /\ Len(new) = Len(t)
        /\ \A i \in 1..(Len(t) - 1) : new[i] = t[i]
        /\ new[Len(t)] = table
    BY <1>5, <2>1, WithLastIs
  <2> QED BY <1>0, <2>2
<1>7. ASSUME NEW k \in 0..Len(s) PROVE new[Level(p, s, k)] = Names(p, n + 1, Owners(p, s, k))
  <2>0. k \in Nat /\ k <= Len(s)
    BY <1>2
  <2>1. CASE Level(p, s, k) = Len(t)
    <3>1. Owners(p, s, k) = Scope(p, n)
      BY <1>2, <1>3, <2>0, <2>1, Levels
    <3>2. Names(p, n + 1, Owners(p, s, k)) = Names(p, n, Owners(p, s, k)) \cup {p[n].name}
      BY <1>1, <1>3, <3>1, NamesAfterDeclare
    <3> QED BY <1>2, <1>3, <1>6, <2>1, <3>1, <3>2
  <2>2. CASE Level(p, s, k) # Len(t)
    <3>1. OwnerPlaces(p, s, k) # OwnerPlaces(p, s, Len(s))
      BY <1>2, <2>2, Zenon DEF Level
    <3>2. PICK l \in 1..Len(s) : l \notin 1..k /\ p[s[l]].kind \in OwnTable
      BY <1>2, <2>0, <3>1 DEF OwnerPlaces
    <3>3. s[l] \in Owners(p, s, Len(s))
      BY <3>2 DEF Owners, OwnerPlaces
    <3>4. \A m \in 1..k : m \in 1..Len(s) /\ m < l /\ s[m] # s[l]
      <4> TAKE m \in 1..k
      <4>1. m \in 1..Len(s) /\ m < l
        BY <1>2, <2>0, <3>2
      <4> QED BY <1>1, <4>1
    <3>5. s[l] \notin Owners(p, s, k)
      BY <3>4 DEF Owners, OwnerPlaces
    <3>6. Names(p, n + 1, Owners(p, s, k)) = Names(p, n, Owners(p, s, k))
      BY <1>1, <1>3, <3>3, <3>5, NamesAfterDeclare
    <3>7. Level(p, s, k) \in 1..(Len(t) - 1)
      BY <1>2, <2>2
    <3> QED BY <1>6, <3>6, <3>7 DEF TablesAt
  <2> QED BY <2>1, <2>2
<1>8. ASSUME NEW k \in 3..Len(new) PROVE new[k - 1] \subseteq new[k]
  <2>1. k - 1 \in 1..(Len(t) - 1) /\ t[k - 1] \subseteq t[k] /\ (k = Len(t) \/ k \in 1..(Len(t) - 1))
    BY <1>2, <1>6 DEF TablesAt
  <2> QED BY <1>6, <2>1
<1>9. TablesAt(p, s, n + 1, new)
  BY <1>2, <1>6, <1>7, <1>8 DEF TablesAt
<1> QED BY <1>4, <1>9

\* A function or a loop gets a table.
LEMMA TablesPushed ==
  ASSUME NEW p, NEW s, NEW n, BodyAt(p, s, n), p[n].kind \in OwnTable, NEW t, TablesAt(p, s, n, t),
         NEW table, table = Names(p, n + 1, Owners(p, s, Len(s)) \cup {n}),
         s = <<>> \/ t[Len(t)] \subseteq table
  PROVE  TablesAt(p, Append(s, n), n + 1, Append(t, table))
<1>1. IsSequence(s) /\ n \in Nat
  BY DEF BodyAt, OpenAt, IsTree, HasDepths
<1>2. /\ Len(s) \in Nat /\ Len(t) \in Nat \ {0} /\ Len(t) = Level(p, s, Len(s)) /\ IsSequence(t)
      /\ \A k \in 0..Len(s) : Level(p, s, k) \in 1..Len(t)
  BY <1>1, TablesIs
<1>3. PICK r : r = Append(s, n)
  OBVIOUS
<1>4. IsSequence(r) /\ Len(r) = Len(s) + 1 /\ (\A k \in 1..Len(s) : r[k] = s[k]) /\ r[Len(s) + 1] = n
  BY <1>1, <1>3, AppendSequence
<1>5. PICK u : u = Append(t, table)
  OBVIOUS
<1>6. IsSequence(u) /\ Len(u) = Len(t) + 1 /\ (\A k \in 1..Len(t) : u[k] = t[k]) /\ u[Len(t) + 1] = table
  <2>1. IsSequence(t)
    BY <1>2
  <2> QED BY <1>5, <2>1, AppendSequence
<1>7. \A k \in 0..Len(s) : Level(p, r, k) = Level(p, s, k) /\ Owners(p, r, k) = Owners(p, s, k)
  <2>1. Len(s) \in Nat /\ \A k \in 1..Len(s) : r[k] = s[k]
    BY <1>2, <1>4
  <2> QED BY <2>1, SamePlaces
<1>8. /\ Level(p, r, Len(s) + 1) = Level(p, r, Len(s)) + 1
      /\ Owners(p, r, Len(s) + 1) = Owners(p, r, Len(s)) \cup {n}
  BY <1>2, <1>4, NextLevel
<1>9. Len(s) \in 0..Len(s)
  BY <1>2
<1>10. Len(u) = Level(p, r, Len(r))
  BY <1>2, <1>4, <1>6, <1>7, <1>8, <1>9
<1>11. p[n].kind # "declare"
  BY DEF OwnTable, Loops
<1>12. ASSUME NEW k \in 0..Len(r) PROVE u[Level(p, r, k)] = Names(p, n + 1, Owners(p, r, k))
  <2>1. CASE k = Len(s) + 1
    BY <1>2, <1>4, <1>6, <1>7, <1>8, <1>9, <2>1
  <2>2. CASE k \in 0..Len(s)
    <3>1. Names(p, n + 1, Owners(p, s, k)) = Names(p, n, Owners(p, s, k))
      <4>1. n + 1 \in Nat /\ n <= n + 1 /\ \A j \in n..((n + 1) - 1) : j = n
        BY <1>1
      <4> QED BY <1>1, <1>11, <4>1, NamesOnward
    <3>2. t[Level(p, s, k)] = Names(p, n, Owners(p, s, k))
      BY <2>2 DEF TablesAt
    <3> QED BY <1>2, <1>6, <1>7, <2>2, <3>1, <3>2
  <2> QED BY <1>2, <1>4, <2>1, <2>2
<1>13. s = <<>> => Len(t) = 1
  <2>1. s = <<>> => Len(s) = 0
    OBVIOUS
  <2> QED BY <1>2, <2>1, NextLevel
<1>14. ASSUME NEW k \in 3..Len(u) PROVE u[k - 1] \subseteq u[k]
  <2>1. k = Len(t) + 1 \/ k \in 3..Len(t)
    BY <1>2, <1>6
  <2>2. CASE k = Len(t) + 1
    <3>1. k - 1 = Len(t) /\ Len(t) \in 1..Len(t) /\ Len(t) # 1
      BY <1>2, <2>2
    <3>2. t[Len(t)] \subseteq table
      BY <1>13, <3>1, Zenon
    <3> QED BY <1>6, <2>2, <3>1, <3>2
  <2>3. CASE k \in 3..Len(t)
    <3>1. k \in 1..Len(t) /\ k - 1 \in 1..Len(t) /\ t[k - 1] \subseteq t[k]
      BY <1>2, <2>3 DEF TablesAt
    <3> QED BY <1>6, <3>1
  <2> QED BY <2>1, <2>2, <2>3
<1>15. TablesAt(p, r, n + 1, u)
  BY <1>6, <1>10, <1>12, <1>14 DEF TablesAt
<1> QED BY <1>3, <1>5, <1>15

\* An if or a match does not.
LEMMA TablesShared ==
  ASSUME NEW p, NEW s, NEW n, BodyAt(p, s, n), p[n].kind \in {"if", "match"}, NEW t, TablesAt(p, s, n, t)
  PROVE  TablesAt(p, Append(s, n), n + 1, t)
<1>1. IsSequence(s) /\ n \in Nat /\ Len(s) \in Nat
  BY SequenceLength DEF BodyAt, OpenAt, IsTree, HasDepths
<1>2. PICK r : r = Append(s, n)
  OBVIOUS
<1>3. IsSequence(r) /\ Len(r) = Len(s) + 1 /\ (\A k \in 1..Len(s) : r[k] = s[k]) /\ r[Len(s) + 1] = n
  BY <1>1, <1>2, AppendSequence
<1>4. \A k \in 0..Len(s) : Level(p, r, k) = Level(p, s, k) /\ Owners(p, r, k) = Owners(p, s, k)
  BY <1>1, <1>3, SamePlaces
<1>5. p[n].kind \notin OwnTable /\ p[n].kind # "declare"
  BY DEF OwnTable, Loops
<1>6. /\ Level(p, r, Len(s) + 1) = Level(p, r, Len(s))
      /\ Owners(p, r, Len(s) + 1) = Owners(p, r, Len(s))
  BY <1>1, <1>3, <1>5, NextLevel
<1>7. TablesAt(p, s, n + 1, t)
  <2>1. n + 1 \in Nat /\ n <= n + 1 /\ \A j \in n..((n + 1) - 1) : j = n
    BY <1>1
  <2> QED BY <1>1, <1>5, <2>1, TablesOnward
<1>8. \A k \in 0..Len(r) : t[Level(p, r, k)] = Names(p, n + 1, Owners(p, r, k))
  <2> TAKE k \in 0..Len(r)
  <2>1. k = Len(s) + 1 \/ k \in 0..Len(s)
    BY <1>1, <1>3
  <2>2. Len(s) \in 0..Len(s)
    BY <1>1
  <2>3. \A l \in 0..Len(s) : t[Level(p, r, l)] = Names(p, n + 1, Owners(p, r, l))
    BY <1>4, <1>7, Zenon DEF TablesAt
  <2> QED BY <1>6, <2>1, <2>2, <2>3
<1>9. Len(s) \in 0..Len(s)
  BY <1>1
<1>10. Level(p, r, Len(r)) = Level(p, s, Len(s))
  BY <1>3, <1>4, <1>6, <1>9
<1>11. TablesAt(p, r, n + 1, t)
  BY <1>7, <1>8, <1>10, Zenon DEF TablesAt
<1> QED BY <1>2, <1>11

\* The end of a function or a loop takes its table away.
LEMMA TablesPopped ==
  ASSUME NEW p, NEW s, IsSequence(s), s # <<>>, NEW n, NEW t, TablesAt(p, s, n, t)
  PROVE  TablesAt(p, AllButLast(s), n, IF p[s[Len(s)]].kind \in OwnTable THEN AllButLast(t) ELSE t)
<1>1. /\ Len(s) \in Nat \ {0} /\ Len(t) \in Nat \ {0} /\ Len(t) = Level(p, s, Len(s)) /\ IsSequence(t)
      /\ \A k \in 0..Len(s) : Level(p, s, k) \in 1..Len(t)
  BY TablesIs, SequenceLength
<1>2. PICK m : m = Len(s) - 1
  OBVIOUS
<1>3. m \in Nat /\ Len(s) = m + 1 /\ m \in 0..Len(s) /\ m <= Len(s)
  BY <1>1, <1>2
<1>4. PICK r : r = AllButLast(s)
  OBVIOUS
<1>5. IsSequence(r) /\ Len(r) = m /\ \A k \in 1..m : r[k] = s[k]
  BY <1>2, <1>3, <1>4, FrontSequence DEF AllButLast
<1>6. \A k \in 0..m : Level(p, r, k) = Level(p, s, k) /\ Owners(p, r, k) = Owners(p, s, k)
  BY <1>3, <1>5, SamePlaces
<1>7. m \in 0..m /\ \A k \in 0..m : k \in 0..Len(s) /\ k \in Nat /\ k <= m
  BY <1>3
<1>8. CASE p[s[Len(s)]].kind \in OwnTable
  <2>1. Len(t) = Level(p, s, m) + 1 /\ Level(p, s, m) \in Nat \ {0}
    <3>1. Level(p, s, m + 1) = Level(p, s, m) + 1
      BY <1>3, <1>8, NextLevel
    <3> QED BY <1>1, <1>3, <3>1
  <2>2. PICK u : u = AllButLast(t)
    OBVIOUS
  <2>3. IsSequence(u) /\ Len(u) = Level(p, s, m) /\ \A k \in 1..Len(u) : u[k] = t[k]
    <3>1. Len(t) - 1 = Level(p, s, m) /\ Level(p, s, m) <= Len(t)
      BY <1>1, <2>1
    <3>2. u = SubSeq(t, 1, Level(p, s, m))
      BY <2>2, <3>1 DEF AllButLast
    <3> QED BY <1>1, <2>1, <3>1, <3>2, FrontSequence
  <2>4. ASSUME NEW k \in 0..m PROVE u[Level(p, r, k)] = Names(p, n, Owners(p, r, k))
    <3>1. Level(p, s, k) \in Nat \ {0} /\ Level(p, s, k) <= Level(p, s, m)
      BY <1>3, <1>7, Levels
    <3>2. Level(p, s, k) \in 1..Len(u)
      BY <2>1, <2>3, <3>1
    <3>3. t[Level(p, s, k)] = Names(p, n, Owners(p, s, k))
      BY <1>7 DEF TablesAt
    <3> QED BY <1>6, <2>3, <3>2, <3>3
  <2>5. ASSUME NEW k \in 3..Len(u) PROVE u[k - 1] \subseteq u[k]
    <3>1. k \in 3..Len(t) /\ k \in 1..Len(u) /\ k - 1 \in 1..Len(u)
      BY <2>1, <2>3
    <3>2. t[k - 1] \subseteq t[k]
      BY <3>1 DEF TablesAt
    <3> QED BY <2>3, <3>1, <3>2
  <2>6. TablesAt(p, r, n, u)
    BY <1>5, <1>6, <1>7, <2>3, <2>4, <2>5 DEF TablesAt
  <2> QED BY <1>4, <1>8, <2>2, <2>6
<1>9. CASE p[s[Len(s)]].kind \notin OwnTable
  <2>1. Len(t) = Level(p, s, m)
    BY <1>1, <1>3, <1>9, NextLevel
  <2>2. \A k \in 0..m : t[Level(p, r, k)] = Names(p, n, Owners(p, r, k))
    BY <1>6, <1>7 DEF TablesAt
  <2>3. TablesAt(p, r, n, t)
    BY <1>5, <1>6, <1>7, <2>1, <2>2, Zenon DEF TablesAt
  <2> QED BY <1>4, <1>9, <2>3
<1> QED BY <1>8, <1>9

----------------------------------------------------------------------------
(* Errors.                                                                 *)

LEMMA NotLookedAt ==
  ASSUME NEW p, NEW i,
         \/ Overlooked(p, i) \/ ~ReadsName(p, i) \/ p[i].read = "argument"
         \/ p[i].kind \in {"while", "dowhile"} /\ p[i].read # "name"
  PROVE  ~Misses(p, i)
<1>1. CASE Overlooked(p, i) \/ ~ReadsName(p, i) \/ p[i].read = "argument"
  <2>1. Deadline(p, i) = 0
    BY <1>1 DEF Deadline
  <2> QED BY <2>1 DEF Misses
<1>2. CASE /\ ~(Overlooked(p, i) \/ ~ReadsName(p, i) \/ p[i].read = "argument")
           /\ p[i].kind \in {"while", "dowhile"} /\ p[i].read # "name"
  <2>1. p[i].kind # "return" /\ ~TypecheckedOnly(p[i])
    BY <1>2 DEF TypecheckedOnly
  <2>2. Deadline(p, i) = 0
    BY <1>2, <2>1 DEF Deadline
  <2> QED BY <2>2 DEF Misses
<1> QED BY <1>1, <1>2

LEMMA BodyTable ==
  ASSUME NEW p, NEW s, NEW n, BodyAt(p, s, n), NEW t, TablesAt(p, s, n, t), p[n].kind # "fn"
  PROVE  /\ t[Len(t)] = VisibleAt(Seen(p), n, n)
         /\ ~Overlooked(p, n) /\ n # 0
<1>1. IsTree(p) /\ n \in 1..Len(p) /\ Len(p) \in Nat /\ IsSequence(s)
  BY DEF BodyAt, OpenAt, IsTree, HasDepths
<1>2. n \in 1..(Len(p) + 1) /\ n # 0
  BY <1>1
<1>3. ~Overlooked(p, n) /\ Scope(p, n) = Owners(p, s, Len(s))
  BY BodyIs
<1>4. VisibleAt(Seen(p), n, n) = Names(p, n, Scope(p, n))
  BY <1>1, <1>2, <1>3, VisibleIsNames
<1>5. t[Len(t)] = Names(p, n, Owners(p, s, Len(s)))
  BY <1>1, TablesIs
<1> QED BY <1>2, <1>3, <1>4, <1>5

\* The table of the construct that is open holds the names that are visible.
LEMMA MissesHere ==
  ASSUME NEW p, NEW s, NEW n, BodyAt(p, s, n), NEW t, TablesAt(p, s, n, t),
         \/ p[n].kind = "use" /\ p[n].read # "argument"
         \/ p[n].kind \in {"if", "match", "while", "dowhile"} /\ p[n].read = "name"
  PROVE  Misses(p, n) <=> p[n].name \notin t[Len(t)]
<1>1. t[Len(t)] = VisibleAt(Seen(p), n, n) /\ ~Overlooked(p, n) /\ n # 0
  BY BodyTable
<1>2. /\ ReadsName(p, n) /\ p[n].kind # "return" /\ ~TypecheckedOnly(p[n]) /\ p[n].read # "argument"
      /\ p[n].kind \in {"while", "dowhile"} => p[n].read = "name"
  BY DEF ReadsName, TypecheckedOnly
<1>3. Deadline(p, n) = n
  BY <1>1, <1>2 DEF Deadline
<1> QED BY <1>1, <1>3 DEF Misses

LEMMA MissesReturn ==
  ASSUME NEW p, NEW s, NEW n, BodyAt(p, s, n), NEW t, TablesAt(p, s, n, t), p[n].kind = "return"
  PROVE  Misses(p, n) <=> /\ s # <<>> /\ p[s[Len(s)]].kind = "fn"
                          /\ p[n].name # NoName /\ p[n].read # "argument" /\ p[n].name \notin t[Len(t)]
<1>1. t[Len(t)] = VisibleAt(Seen(p), n, n) /\ ~Overlooked(p, n) /\ n # 0
  BY BodyTable
<1>2. ReadsName(p, n) <=> p[n].name # NoName
  BY DEF ReadsName
<1>3. /\ IsTree(p) /\ HasDepths(p) /\ n \in 1..Len(p) /\ Len(p) \in Nat /\ OpenAt(p, s, n) /\ Around(p, s, n)
      /\ \A j \in 1..Len(p) : p[j].depth \in Nat
  BY DEF BodyAt, IsTree, HasDepths
<1>4. /\ Len(s) \in Nat /\ (Len(s) = 0 => s = <<>>)
      /\ \A k \in 1..Len(s) : s[k] \in 1..Len(p) /\ p[s[k]].depth \in Nat
  <2>1. n \in 1..(Len(p) + 1) /\ IsSequence(s)
    BY <1>3 DEF OpenAt
  <2> QED BY <1>3, <2>1, OpenIs, SequenceLength
<1>5. ASSUME s # <<>>, p[s[Len(s)]].kind = "fn" PROVE p[n].depth = 1 /\ FnOf(p, n) # 0
  <2>1. Len(s) \in 1..Len(s)
    BY <1>4, <1>5
  <2>2. Len(s) = 1 /\ p[s[1]].depth = 0 /\ p[s[1]].kind = "fn"
    BY <1>3, <1>5, <2>1 DEF OpenAt
  <2>3. s[1] \in Scope(p, n)
    <3>1. s[1] \in Owners(p, s, Len(s))
      BY <2>1, <2>2 DEF Owners, OwnerPlaces, OwnTable
    <3> QED BY <3>1, BodyIs
  <2>4. In(p, s[1], n) /\ s[1] \in 1..Len(p)
    BY <2>3 DEF Scope
  <2>5. FnOf(p, n) # 0
    <3>1. p[n].kind # "fn"
      OBVIOUS
    <3>2. FnOf(p, n) = 0 => p[s[1]].kind # "fn"
      <4>1. 0 \notin 1..Len(p)
        OBVIOUS
      <4> QED BY <1>3, <2>4, <3>1, <4>1, FnOfIs
    <3> QED BY <2>2, <3>2
  <2>6. p[n].depth # 0
    <3>1. p[n].depth > p[s[1]].depth
      BY <1>3, <1>4, <2>1, <2>2, BodyIs
    <3> QED BY <1>3, <2>2, <3>1
  <2>7. PICK j \in 1..Len(p) : In(p, j, n) /\ p[j].depth + 1 = p[n].depth
    BY <1>3, <2>6, HasParent
  <2>8. \E k \in 1..Len(s) : p[s[k]].depth = p[j].depth
    <3>1. j \in 1..(n - 1) /\ n <= Len(p)
      BY <1>3, <2>7 DEF In
    <3> QED BY <1>3, <2>7, <3>1 DEF Around
  <2>9. p[j].depth = 0
    BY <1>4, <2>2, <2>8
  <2> QED BY <2>5, <2>7, <2>9
<1>6. ASSUME p[n].depth = 1, FnOf(p, n) # 0 PROVE s # <<>> /\ p[s[Len(s)]].kind = "fn"
  <2>1. PICK f : f = FnOf(p, n)
    OBVIOUS
  <2>2. f \in 1..Len(p) /\ In(p, f, n) /\ p[f].kind = "fn"
    BY <1>3, <1>6, <2>1, FnOfIs
  <2>3. f \in Scope(p, n)
    BY <2>2 DEF Scope, OwnTable
  <2>4. PICK k \in 1..Len(s) : s[k] = f
    <3>1. f \in Owners(p, s, Len(s))
      BY <2>3, BodyIs
    <3> QED BY <3>1 DEF Owners, OwnerPlaces
  <2>5. k = 1 /\ p[s[k]].depth = 0
    BY <1>3, <2>2, <2>4 DEF OpenAt
  <2>6. CASE Len(s) = 1
    <3>1. s = <<>> => Len(s) = 0
      OBVIOUS
    <3> QED BY <2>2, <2>4, <2>5, <2>6, <3>1
  <2>7. CASE Len(s) # 1
    <3>0. PICK m : m = Len(s)
      OBVIOUS
    <3>1. Len(s) \in 1..Len(s) /\ 1 \in 1..(Len(s) - 1)
      <4>1. m \in Nat /\ k \in 1..m /\ m # 1
        BY <1>4, <2>7, <3>0
      <4> QED BY <3>0, <4>1
    <3>2. p[s[1]].depth < p[s[Len(s)]].depth
      BY <1>3, <3>1 DEF OpenAt
    <3>3. p[n].depth > p[s[Len(s)]].depth
      BY <3>1, BodyIs
    <3>4. p[s[Len(s)]].depth \in Nat
      BY <1>4, <3>1
    <3> QED BY <1>6, <2>5, <3>2, <3>3, <3>4
  <2> QED BY <2>6, <2>7
<1>7. CASE p[n].name = NoName \/ p[n].read = "argument"
  BY <1>2, <1>7, NotLookedAt
<1>8. CASE p[n].name # NoName /\ p[n].read # "argument"
  <2>0. p[n].kind = "return" /\ p[n].kind \notin {"while", "dowhile"} /\ ~TypecheckedOnly(p[n])
    BY DEF TypecheckedOnly
  <2>1. Deadline(p, n) = IF p[n].depth = 1 /\ FnOf(p, n) # 0 THEN n ELSE 0
    BY <1>1, <1>2, <1>8, <2>0 DEF Deadline
  <2>2. Deadline(p, n) = IF s # <<>> /\ p[s[Len(s)]].kind = "fn" THEN n ELSE 0
    BY <1>5, <1>6, <2>1
  <2> QED BY <1>1, <1>8, <2>2 DEF Misses
<1> QED BY <1>7, <1>8

\* The conditions of the else-if arms, at the end of their if.
LEMMA MissesElseIf ==
  ASSUME NEW p, IsTree(p), NEW s, NEW n \in 1..(Len(p) + 1), OpenAt(p, s, n), NEW k \in 1..Len(s),
         n <= Len(p) => p[n].depth < p[s[k]].depth \/ (p[n].depth = p[s[k]].depth /\ p[n].kind \notin Parts),
         NEW i \in (s[k] + 1)..(n - 1), p[i].depth = p[s[k]].depth, p[i].kind = "elif"
  PROVE  Misses(p, i) <=> p[i].read # "argument" /\ p[i].name \notin Names(p, n, Owners(p, s, k - 1))
<1>1. /\ Len(p) \in Nat /\ n \in Nat /\ s[k] \in 1..Len(p) /\ s[k] \in 1..(n - 1)
      /\ i \in 1..Len(p) /\ HasDepths(p) /\ \A j \in 1..Len(p) : p[j].depth \in Nat
  <2>1. i \in s[k]..(n - 1)
    BY OpenIs
  <2> QED BY <2>1, OpenIs DEF IsTree, HasDepths
<1>2. PICK top : top = s[k]
  OBVIOUS
<1>3. /\ top \in 1..Len(p) /\ top < i /\ i < n /\ p[i].depth = p[top].depth /\ p[top].depth \in Nat
      /\ ~Overlooked(p, top) /\ Scope(p, top) = Owners(p, s, k - 1)
      /\ \A j \in (top + 1)..(n - 1) : BelongsTo(p, top, j)
  <2>1. top \in 1..Len(p) /\ top < i /\ i < n /\ p[i].depth = p[top].depth /\ p[top].depth \in Nat
    BY <1>1, <1>2
  <2>2. /\ ~Overlooked(p, top) /\ Scope(p, top) = Owners(p, s, k - 1)
        /\ \A j \in (top + 1)..(n - 1) : BelongsTo(p, top, j)
    BY <1>2, Zenon DEF OpenAt
  <2> QED BY <2>1, <2>2
<1>4. AfterAll(p, i) = n
  <2>1. \A j \in (i + 1)..(n - 1) : p[j].depth > p[i].depth \/ (p[j].depth = p[i].depth /\ p[j].kind \in Parts)
    <3> TAKE j \in (i + 1)..(n - 1)
    <3>1. j \in (top + 1)..(n - 1)
      BY <1>1, <1>3
    <3>2. BelongsTo(p, top, j)
      BY <1>3, <3>1
    <3> QED BY <1>3, <3>2 DEF BelongsTo, Parts
  <2>2. n \in (i + 1)..(Len(p) + 1)
    BY <1>1, <1>3
  <2>3. n <= Len(p) => p[n].depth < p[i].depth \/ (p[n].depth = p[i].depth /\ p[n].kind \notin Parts)
    BY <1>2, <1>3
  <2> QED BY <1>1, <2>1, <2>2, <2>3, AfterAllIs
<1>5. \A j \in (top + 1)..(n - 1) : p[j].depth >= p[top].depth
  <2> TAKE j \in (top + 1)..(n - 1)
  <2>1. j \in 1..Len(p)
    BY <1>1, <1>3
  <2>2. BelongsTo(p, top, j)
    BY <1>3
  <2>3. p[j].depth \in Nat /\ p[top].depth \in Nat
    BY <1>1, <1>3, <2>1
  <2>4. p[j].depth > p[top].depth \/ p[j].depth = p[top].depth
    BY <2>2 DEF BelongsTo
  <2> QED BY ONLY <2>3, <2>4
<1>6. ASSUME NEW j \in 1..Len(p) PROVE In(p, j, i) <=> In(p, j, top)
  <2>0. j \in Nat /\ top \in Nat /\ i \in Nat /\ p[j].depth \in Nat /\ p[top].depth \in Nat
    <3>1. Len(p) \in Nat /\ i \in 1..Len(p) /\ top \in 1..Len(p)
      BY <1>1, <1>3, Zenon
    <3>2. j \in Nat /\ top \in Nat /\ i \in Nat
      BY ONLY <3>1, j \in 1..Len(p)
    <3>3. p[j].depth \in Nat /\ p[top].depth \in Nat
      BY <1>1, <3>1, Zenon
    <3> QED BY <3>2, <3>3, Zenon
  <2>1. ASSUME In(p, j, top) PROVE In(p, j, i)
    <3>1. j < top /\ p[top].depth > p[j].depth /\ p[j].depth \in Nat /\ p[top].depth \in Nat
      BY ONLY <2>0, <2>1, InDeeper
    <3>2. ASSUME NEW l \in (j + 1)..i PROVE p[l].depth > p[j].depth
      <4>1. l \in (j + 1)..top \/ l \in (top + 1)..(n - 1)
        BY <1>1, <1>3
      <4>2. l \in 1..Len(p)
        BY <1>1
      <4>3. p[l].depth \in Nat
        BY <1>1, <4>2
      <4>4. CASE l \in (j + 1)..top
        BY <2>1, <4>4 DEF In
      <4>5. CASE l \in (top + 1)..(n - 1)
        <5>1. p[l].depth >= p[top].depth
          BY <1>5, <4>5
        <5>2. PICK x, y, z : x = p[l].depth /\ y = p[top].depth /\ z = p[j].depth
          OBVIOUS
        <5>3. x \in Nat /\ y \in Nat /\ z \in Nat /\ y > z /\ x >= y
          BY <3>1, <4>3, <5>1, <5>2
        <5>4. x > z
          BY ONLY <5>3
        <5> QED BY <5>2, <5>4
      <4> QED BY <4>1, <4>4, <4>5
    <3>3. j < i
      BY <1>1, <1>3, <3>1
    <3> QED BY <3>2, <3>3 DEF In
  <2>2. ASSUME In(p, j, i) PROVE In(p, j, top)
    <3>1. j < i /\ p[i].depth > p[j].depth /\ p[j].depth \in Nat
      BY ONLY <2>0, <2>2, InDeeper
    <3>2. ~(p[j].depth >= p[top].depth)
      <4>1. p[i].depth = p[top].depth
        BY <1>3
      <4> QED BY ONLY <2>0, <3>1, <4>1
    <3>3. j < top
      <4>1. j # top
        BY <1>3, <3>2
      <4>2. j \notin (top + 1)..(n - 1)
        BY <1>5, <3>2
      <4> QED BY <1>1, <1>3, <3>1, <4>1, <4>2
    <3>4. j \in Nat /\ top \in Nat /\ i \in Nat /\ top <= i
      BY <1>1, <1>3
    <3> QED BY <2>2, <3>3, <3>4, InBetween
  <2> QED BY <2>1, <2>2
<1>7. Scope(p, i) = Scope(p, top)
  BY <1>6 DEF Scope
<1>8. ~Overlooked(p, i)
  <2>1. \A j \in 1..Len(p) : In(p, j, top) => p[j].kind # "elif" /\ (p[j].kind = "fn" => ~(p[j].depth > 0))
    BY <1>1, <1>3, OverlookedIs
  <2>2. \A j \in 1..Len(p) : In(p, j, i) => p[j].kind # "elif" /\ (p[j].kind = "fn" => ~(p[j].depth > 0))
    BY <1>6, <2>1
  <2>3. p[i].kind # "fn"
    OBVIOUS
  <2> QED BY <1>1, <2>2, <2>3, OverlookedIs
<1>9. p[i].read # "argument" => Deadline(p, i) = n
  <2>1. /\ ReadsName(p, i) /\ p[i].kind # "return" /\ p[i].kind \notin {"while", "dowhile"}
        /\ p[i].read # "argument" => TypecheckedOnly(p[i])
    BY DEF ReadsName, TypecheckedOnly
  <2> QED BY <1>4, <1>8, <2>1 DEF Deadline
<1>10. VisibleAt(Seen(p), i, n) = Names(p, n, Scope(p, i))
  <2>1. p[i].kind # "fn"
    OBVIOUS
  <2> QED BY <1>1, <1>8, <2>1, VisibleIsNames
<1>11. p[i].read = "argument" => ~Misses(p, i)
  BY NotLookedAt
<1> QED BY <1>1, <1>3, <1>7, <1>9, <1>10, <1>11 DEF Misses

\* The condition of an if or a match that is read through a place, at its end.
LEMMA MissesAtEnd ==
  ASSUME NEW p, IsTree(p), NEW s, NEW n \in 1..(Len(p) + 1), OpenAt(p, s, n), NEW k \in 1..Len(s),
         AfterAll(p, s[k]) = n, p[s[k]].kind \in {"if", "match"}, p[s[k]].read = "place"
  PROVE  Misses(p, s[k]) <=> p[s[k]].name \notin Names(p, n, Owners(p, s, k - 1))
<1>1. PICK top : top = s[k]
  OBVIOUS
<1>2. top \in 1..Len(p) /\ ~Overlooked(p, top) /\ Scope(p, top) = Owners(p, s, k - 1)
  <2>1. top \in 1..Len(p)
    BY <1>1, OpenIs
  <2> QED BY <1>1, <2>1, Zenon DEF OpenAt
<1>3. Deadline(p, top) = n /\ n # 0
  <2>1. ReadsName(p, top) /\ TypecheckedOnly(p[top])
        /\ p[top].kind \notin {"return", "while", "dowhile"} /\ p[top].read # "argument"
    BY <1>1 DEF ReadsName, TypecheckedOnly
  <2> QED BY <1>1, <1>2, <2>1 DEF Deadline
<1>4. VisibleAt(Seen(p), top, n) = Names(p, n, Scope(p, top))
  BY <1>1, <1>2, VisibleIsNames
<1> QED BY <1>1, <1>2, <1>3, <1>4 DEF Misses

LEMMA WrongOnward ==
  ASSUME NEW p, NEW s, NEW n \in Nat, NEW m \in Nat, n <= m,
         \A j \in n..(m - 1) : ~Misses(p, j) \/ Pending(p, s, j)
  PROVE  Wrong(p, s, m) <=> Wrong(p, s, n)
<1>1. \A j \in 1..(m - 1) : j \in n..(m - 1) \/ j \in 1..(n - 1)
  OBVIOUS
<1>2. \A j \in 1..(n - 1) : j \in 1..(m - 1)
  OBVIOUS
<1> QED BY <1>1, <1>2, Zenon DEF Wrong

LEMMA WrongNext ==
  ASSUME NEW p, NEW s, NEW n \in Nat \ {0}, ~TypecheckedOnly(p[n])
  PROVE  Wrong(p, s, n + 1) <=> Wrong(p, s, n) \/ Misses(p, n)
<1>1. \A j : j \in 1..((n + 1) - 1) <=> j = n \/ j \in 1..(n - 1)
  OBVIOUS
<1>2. ~Pending(p, s, n)
  BY DEF Pending
<1> QED BY <1>1, <1>2, Zenon DEF Wrong

\* What is opened has no arms yet, and its own condition may be pending.
LEMMA WrongOpened ==
  ASSUME NEW p, NEW s, IsSequence(s), NEW n \in Nat \ {0}
  PROVE  Wrong(p, Append(s, n), n + 1) <=> Wrong(p, s, n) \/ (Misses(p, n) /\ ~TypecheckedOnly(p[n]))
<1>1. PICK r : r = Append(s, n)
  OBVIOUS
<1>2. /\ Len(s) \in Nat /\ Len(r) = Len(s) + 1
      /\ (\A k \in 1..Len(s) : r[k] = s[k]) /\ r[Len(s) + 1] = n
  BY <1>1, AppendSequence, SequenceLength
<1>3. /\ \A k \in 1..Len(r) : k \in 1..Len(s) \/ k = Len(s) + 1
      /\ \A k \in 1..Len(s) : k \in 1..Len(r)
      /\ Len(s) + 1 \in 1..Len(r)
  BY <1>2
<1>4. ASSUME NEW i \in 1..(n - 1) PROVE Pending(p, r, i) <=> Pending(p, s, i)
  <2>1. ~(n <= i)
    OBVIOUS
  <2> QED BY <1>2, <1>3, <2>1, Zenon DEF Pending
<1>5. Pending(p, r, n) <=> TypecheckedOnly(p[n])
  <2>1. n <= n
    OBVIOUS
  <2> QED BY <1>2, <1>3, <2>1, Zenon DEF Pending
<1>6. \A j : j \in 1..((n + 1) - 1) <=> j = n \/ j \in 1..(n - 1)
  OBVIOUS
<1>7. Wrong(p, r, n + 1) <=> Wrong(p, s, n) \/ (Misses(p, n) /\ ~TypecheckedOnly(p[n]))
  BY <1>4, <1>5, <1>6, Zenon DEF Wrong
<1> QED BY <1>1, <1>7

\* What is closed has all its conditions looked at.
LEMMA WrongClosed ==
  ASSUME NEW p, IsTree(p), NEW s, NEW n \in 1..(Len(p) + 1), OpenAt(p, s, n), s # <<>>
  PROVE  Wrong(p, AllButLast(s), n) <=>
           \/ Wrong(p, s, n)
           \/ \E i \in s[Len(s)]..(n - 1) :
                TypecheckedOnly(p[i]) /\ p[i].depth = p[s[Len(s)]].depth /\ Misses(p, i)
<1>1. /\ Len(p) \in Nat /\ n \in Nat /\ Len(s) \in Nat \ {0} /\ IsSequence(s)
      /\ Len(s) \in 1..Len(s)
      /\ \A k \in 1..Len(s) : s[k] \in 1..(n - 1) /\ p[s[k]].depth \in Nat
  <2>1. IsSequence(s)
    BY DEF OpenAt
  <2>2. Len(s) \in Nat \ {0}
    BY <2>1, SequenceLength
  <2> QED BY <2>1, <2>2, OpenIs
<1>2. PICK r : r = AllButLast(s)
  OBVIOUS
<1>3. Len(r) = Len(s) - 1 /\ \A k \in 1..(Len(s) - 1) : r[k] = s[k]
  <2>1. Len(s) - 1 \in Nat /\ Len(s) - 1 <= Len(s)
    BY <1>1
  <2> QED BY <1>1, <1>2, <2>1, FrontSequence DEF AllButLast
<1>4. PICK top : top = s[Len(s)]
  OBVIOUS
<1>5. \A k \in 1..(Len(s) - 1) : p[s[k]].depth < p[top].depth /\ p[s[k]].depth \in Nat /\ p[top].depth \in Nat
  BY <1>1, <1>4 DEF OpenAt
<1>6. ASSUME NEW i \in 1..(n - 1)
      PROVE  Pending(p, s, i) <=> \/ Pending(p, r, i)
                                  \/ TypecheckedOnly(p[i]) /\ top <= i /\ p[i].depth = p[top].depth
  <2>1. \A k \in 1..Len(s) : k = Len(s) \/ k \in 1..(Len(s) - 1)
    BY <1>1
  <2>2. \A k \in 1..(Len(s) - 1) : k \in 1..Len(s) /\ k \in 1..Len(r)
    BY <1>1, <1>3
  <2>3. \A k \in 1..Len(r) : k \in 1..(Len(s) - 1)
    BY <1>3
  <2> QED BY <1>1, <1>3, <1>4, <2>1, <2>2, <2>3, Zenon DEF Pending
<1>7. ASSUME NEW i \in 1..(n - 1), p[i].depth = p[top].depth PROVE ~Pending(p, r, i)
  <2>1. ASSUME NEW k \in 1..Len(r), p[r[k]].depth = p[i].depth PROVE FALSE
    <3>1. k \in 1..(Len(s) - 1) /\ r[k] = s[k]
      BY <1>3
    <3> QED BY <1>5, <1>7, <2>1, <3>1
  <2> QED BY <2>1 DEF Pending
<1>8. \A i : i \in top..(n - 1) <=> i \in 1..(n - 1) /\ top <= i
  BY <1>1, <1>4
<1>9. Wrong(p, r, n) <=> \/ Wrong(p, s, n)
                         \/ \E i \in top..(n - 1) :
                              TypecheckedOnly(p[i]) /\ p[i].depth = p[top].depth /\ Misses(p, i)
  BY <1>6, <1>7, <1>8, Zenon DEF Wrong
<1> QED BY <1>2, <1>4, <1>9

----------------------------------------------------------------------------
(* The actions keep the invariant.                                         *)

LEMMA BodyGoesOnIs ==
  ASSUME ScopeInv, BodyGoesOn
  PROVE  /\ BodyAt(prog, inside, looking) /\ TablesAt(prog, inside, looking, tables)
         /\ stage = "variables" /\ reported \in BOOLEAN /\ (reported <=> Wrong(prog, inside, looking))
         /\ looking \in Nat \ {0} /\ looking + 1 \in 1..(Len(prog) + 1) /\ IsSequence(inside)
         /\ looking + 1 \in Nat /\ looking <= looking + 1 /\ \A j \in looking..((looking + 1) - 1) : j = looking
<1>1. IsTree(prog) /\ Len(prog) \in Nat /\ looking \in 1..(Len(prog) + 1) /\ OpenAt(prog, inside, looking)
      /\ Around(prog, inside, looking) /\ IsSequence(inside)
  BY DEF ScopeInv, WalkAt, IsTree, HasDepths, OpenAt
<1>2. stage = "variables" /\ looking <= Len(prog) /\ (inside # <<>> => LookedAt.depth > prog[Inmost].depth)
  BY DEF BodyGoesOn
<1>3. looking \in 1..Len(prog)
  BY <1>1, <1>2
<1>4. Len(inside) # 0 => inside # <<>>
  BY <1>1
<1>5. BodyAt(prog, inside, looking)
  BY <1>1, <1>2, <1>3, <1>4 DEF BodyAt, LookedAt, Inmost
<1>6. /\ looking \in Nat \ {0} /\ looking + 1 \in 1..(Len(prog) + 1)
      /\ looking + 1 \in Nat /\ looking <= looking + 1 /\ \A j \in looking..((looking + 1) - 1) : j = looking
  BY <1>1, <1>3
<1> QED BY <1>1, <1>2, <1>5, <1>6 DEF ScopeInv, StageInv

LEMMA GoesOn ==
  ASSUME ScopeInv, stage = "variables", stage' = "variables", prog' = prog, reported' \in BOOLEAN,
         WalkAt(prog, inside', looking'), TablesAt(prog, inside', looking', tables'),
         reported' <=> Wrong(prog, inside', looking')
  PROVE  ScopeInv'
<1>1. StageInv'
  BY DEF StageInv
<1>2. WalkAt(prog', inside', looking') /\ TablesAt(prog', inside', looking', tables') /\ Wrong(prog', inside', looking') = Wrong(prog, inside', looking')
  OBVIOUS
<1> QED BY <1>1, <1>2 DEF ScopeInv

\* An instruction without a body, or a declaration.
LEMMA Passes ==
  ASSUME ScopeInv, BodyGoesOn, LookedAt.kind \notin Heads \cup {"match"}, prog' = prog, inside' = inside, stage' = stage, looking' = looking + 1,
         (tables' = tables /\ LookedAt.kind # "declare") \/ declare_variables,
         NEW wrong \in BOOLEAN, wrong <=> Misses(prog, looking), reported' = (reported \/ wrong)
  PROVE  ScopeInv'
<1>1. /\ BodyAt(prog, inside, looking) /\ TablesAt(prog, inside, looking, tables)
      /\ stage = "variables" /\ reported \in BOOLEAN /\ (reported <=> Wrong(prog, inside, looking))
      /\ looking \in Nat \ {0} /\ looking + 1 \in 1..(Len(prog) + 1)
      /\ looking + 1 \in Nat /\ looking <= looking + 1 /\ \A j \in looking..((looking + 1) - 1) : j = looking
  BY BodyGoesOnIs
<1>2. WalkAt(prog, inside, looking + 1)
  BY <1>1, OnwardByOne DEF WalkAt, LookedAt, BodyAt
<1>3. TablesAt(prog, inside, looking + 1, tables')
  <2>1. CASE tables' = tables /\ LookedAt.kind # "declare"
    <3>1. TablesAt(prog, inside, looking + 1, tables)
      BY <1>1, <2>1, TablesOnward DEF LookedAt
    <3> QED BY <2>1, <3>1
  <2>2. CASE declare_variables
    <3>1. prog[looking].kind = "declare" /\ tables' = [tables EXCEPT ![Len(tables)] = @ \cup {prog[looking].name}]
      BY <2>2 DEF declare_variables, Checking, LookedAt
    <3>2. TablesAt(prog, inside, looking + 1, [tables EXCEPT ![Len(tables)] = @ \cup {prog[looking].name}])
      BY <1>1, <3>1, TablesDeclare
    <3> QED BY <3>1, <3>2
  <2> QED BY <2>1, <2>2
<1>4. Wrong(prog, inside, looking + 1) <=> Wrong(prog, inside, looking) \/ Misses(prog, looking)
  <2>1. ~TypecheckedOnly(prog[looking])
    <3>1. LookedAt.kind \notin {"if", "elif", "match"}
      BY DEF Heads, Parts, IfParts
    <3> QED BY <3>1 DEF LookedAt, TypecheckedOnly
  <2> QED BY <1>1, <2>1, WrongNext
<1>5. reported' \in BOOLEAN /\ (reported' <=> Wrong(prog, inside, looking + 1))
  BY <1>1, <1>4
<1> QED BY <1>1, <1>2, <1>3, <1>5, GoesOn

\* A construct with a body.
LEMMA Opens ==
  ASSUME ScopeInv, BodyGoesOn, LookedAt.kind \in OwnTable \cup {"if", "match"}, LookedAt.kind = "fn" => inside = <<>>,
         prog' = prog, inside' = Append(inside, looking), stage' = stage, looking' = looking + 1,
         TablesAt(prog, Append(inside, looking), looking + 1, tables'),
         NEW wrong \in BOOLEAN, wrong <=> Misses(prog, looking) /\ ~TypecheckedOnly(prog[looking]),
         reported' = (reported \/ wrong)
  PROVE  ScopeInv'
<1>1. /\ BodyAt(prog, inside, looking)
      /\ stage = "variables" /\ reported \in BOOLEAN /\ (reported <=> Wrong(prog, inside, looking))
      /\ looking \in Nat \ {0} /\ looking + 1 \in 1..(Len(prog) + 1) /\ IsSequence(inside)
  BY BodyGoesOnIs
<1>2. WalkAt(prog, Append(inside, looking), looking + 1)
  BY <1>1, OpenedIs DEF WalkAt, LookedAt, BodyAt
<1>3. Wrong(prog, Append(inside, looking), looking + 1)
        <=> Wrong(prog, inside, looking) \/ (Misses(prog, looking) /\ ~TypecheckedOnly(prog[looking]))
  BY <1>1, WrongOpened
<1>4. reported' \in BOOLEAN /\ (reported' <=> Wrong(prog, Append(inside, looking), looking + 1))
  BY <1>1, <1>3
<1>5. WalkAt(prog, inside', looking') /\ TablesAt(prog, inside', looking', tables') /\ (reported' <=> Wrong(prog, inside', looking'))
  BY <1>2, <1>4
<1> QED BY <1>1, <1>4, <1>5, GoesOn

LEMMA FunctionKeepsInv ==
  ASSUME ScopeInv, check_function_body
  PROVE  ScopeInv'
<1>1. /\ BodyGoesOn /\ LookedAt.kind = "fn" /\ inside = <<>> /\ tables' = Append(tables, {prog[looking].name})
      /\ inside' = <<looking>> /\ looking' = looking + 1 /\ prog' = prog /\ stage' = stage /\ reported' = reported
  BY DEF check_function_body, Checking, LookedAt
<1>2. BodyAt(prog, inside, looking) /\ TablesAt(prog, inside, looking, tables) /\ looking \in Nat \ {0} /\ reported \in BOOLEAN
  BY <1>1, BodyGoesOnIs
<1>3. PICK s : s = inside
  OBVIOUS
<1>4. TablesAt(prog, Append(s, looking), looking + 1, Append(tables, {prog[looking].name}))
  <2>1. Owners(prog, s, Len(s)) \cup {looking} = {looking}
    <3>1. Len(s) = 0
      BY <1>1, <1>3
    <3> QED BY <3>1, NextLevel
  <2>2. {prog[looking].name} = Names(prog, looking + 1, Owners(prog, s, Len(s)) \cup {looking})
    BY <1>1, <1>2, <2>1, NamesOfFunction DEF LookedAt
  <2>3. PICK table : table = {prog[looking].name}
    OBVIOUS
  <2>4. prog[looking].kind \in OwnTable /\ s = <<>>
    BY <1>1, <1>3 DEF LookedAt, OwnTable
  <2>5. TablesAt(prog, Append(s, looking), looking + 1, Append(tables, table))
    BY <1>2, <1>3, <2>2, <2>3, <2>4, TablesPushed
  <2> QED BY <2>3, <2>5
<1>5. inside' = Append(inside, looking)
  BY <1>1
<1>6. ~Misses(prog, looking)
  BY <1>1, NotLookedAt DEF ReadsName, LookedAt
<1>7. reported' = (reported \/ FALSE)
  BY <1>1, <1>2
<1>8. LookedAt.kind \in OwnTable \cup {"if", "match"}
  BY <1>1 DEF OwnTable
<1> QED BY <1>1, <1>3, <1>4, <1>5, <1>6, <1>7, <1>8, Opens

LEMMA LoopKeepsInv ==
  ASSUME ScopeInv, check_loop
  PROVE  ScopeInv'
<1> DEFINE added == IF prog[looking].kind = "for" THEN {prog[looking].name} ELSE {}
           wrong == LookedAt.kind \in {"while", "dowhile"} /\ VariablesLookedUp /\ Undeclared(LookedAt.name)
<1>1. /\ BodyGoesOn /\ LookedAt.kind \in Loops /\ tables' = Append(tables, tables[Len(tables)] \cup added)
      /\ inside' = Append(inside, looking) /\ looking' = looking + 1 /\ prog' = prog /\ stage' = stage
      /\ reported' = (reported \/ wrong)
  BY DEF check_loop, Checking, LookedAt, Table, Report
<1>2. /\ BodyAt(prog, inside, looking) /\ TablesAt(prog, inside, looking, tables) /\ looking \in Nat \ {0}
      /\ IsSequence(inside)
  BY <1>1, BodyGoesOnIs
<1>3. TablesAt(prog, Append(inside, looking), looking + 1, tables')
  <2>1. PICK table : table = tables[Len(tables)] \cup added
    OBVIOUS
  <2>2. tables[Len(tables)] = Names(prog, looking, Owners(prog, inside, Len(inside)))
    BY <1>2, TablesIs
  <2>3. table = Names(prog, looking + 1, Owners(prog, inside, Len(inside)) \cup {looking})
    <3>1. PICK scope : scope = Owners(prog, inside, Len(inside))
      OBVIOUS
    <3>2. prog[looking].kind \in Loops
      BY <1>1 DEF LookedAt
    <3>3. Names(prog, looking + 1, scope \cup {looking}) = Names(prog, looking, scope) \cup added
      BY <1>2, <3>2, NamesOfLoop
    <3> HIDE DEF added
    <3> QED BY <2>1, <2>2, <3>1, <3>3
  <2>4. tables[Len(tables)] \subseteq table
    BY <2>1
  <2>5. prog[looking].kind \in OwnTable
    BY <1>1 DEF LookedAt, OwnTable
  <2>6. TablesAt(prog, Append(inside, looking), looking + 1, Append(tables, table))
    BY <1>2, <2>3, <2>4, <2>5, TablesPushed
  <2> QED BY <1>1, <2>1, <2>6
<1>4. wrong <=> Misses(prog, looking) /\ ~TypecheckedOnly(prog[looking])
  <2>1. ~TypecheckedOnly(prog[looking])
    BY <1>1 DEF TypecheckedOnly, LookedAt, Loops
  <2>2. CASE LookedAt.kind \in {"while", "dowhile"} /\ LookedAt.read = "name"
    <3>1. Misses(prog, looking) <=> prog[looking].name \notin tables[Len(tables)]
      BY <1>2, <2>2, MissesHere DEF LookedAt
    <3> QED BY <2>1, <2>2, <3>1 DEF VariablesLookedUp, Undeclared, Table, LookedAt
  <2>3. CASE LookedAt.kind \in {"while", "dowhile"} /\ LookedAt.read # "name"
    <3>1. ~Misses(prog, looking)
      BY <2>3, NotLookedAt DEF LookedAt
    <3> QED BY <2>3, <3>1 DEF VariablesLookedUp
  <2>4. CASE LookedAt.kind \notin {"while", "dowhile"}
    <3>1. ~ReadsName(prog, looking)
      BY <1>1, <2>4 DEF ReadsName, LookedAt, Loops
    <3> QED BY <2>4, <3>1, NotLookedAt
  <2> QED BY <2>2, <2>3, <2>4
<1>5. LookedAt.kind \in OwnTable \cup {"if", "match"} /\ LookedAt.kind # "fn"
  BY <1>1 DEF OwnTable, Loops
<1>6. wrong \in BOOLEAN
  OBVIOUS
<1> HIDE DEF wrong
<1> QED BY <1>1, <1>3, <1>4, <1>5, <1>6, Opens

LEMMA IfOrMatchKeepsInv ==
  ASSUME ScopeInv, IfOrMatch
  PROVE  ScopeInv'
<1> DEFINE wrong == VariablesLookedUp /\ Undeclared(LookedAt.name)
<1>1. /\ BodyGoesOn /\ LookedAt.kind \in {"if", "match"} /\ tables' = tables
      /\ inside' = Append(inside, looking) /\ looking' = looking + 1 /\ prog' = prog /\ stage' = stage
      /\ reported' = (reported \/ wrong)
  BY DEF IfOrMatch, Checking, Report
<1>2. BodyAt(prog, inside, looking) /\ TablesAt(prog, inside, looking, tables)
  BY <1>1, BodyGoesOnIs
<1>3. TablesAt(prog, Append(inside, looking), looking + 1, tables')
  <2>1. TablesAt(prog, Append(inside, looking), looking + 1, tables)
    BY <1>1, <1>2, TablesShared DEF LookedAt
  <2> QED BY <1>1, <2>1
<1>4. wrong <=> Misses(prog, looking) /\ ~TypecheckedOnly(prog[looking])
  <2>1. CASE LookedAt.read = "name"
    <3>1. Misses(prog, looking) <=> prog[looking].name \notin tables[Len(tables)]
      BY <1>1, <1>2, <2>1, MissesHere DEF LookedAt
    <3>2. ~TypecheckedOnly(prog[looking])
      BY <1>1, <2>1 DEF TypecheckedOnly, LookedAt
    <3> QED BY <2>1, <3>1, <3>2 DEF VariablesLookedUp, Undeclared, Table, LookedAt
  <2>2. CASE LookedAt.read = "place"
    BY <1>1, <2>2 DEF TypecheckedOnly, VariablesLookedUp, LookedAt
  <2>3. CASE LookedAt.read = "argument"
    <3>1. ~Misses(prog, looking)
      BY <2>3, NotLookedAt DEF LookedAt
    <3> QED BY <2>3, <3>1 DEF VariablesLookedUp
  <2>4. LookedAt.read \in Reads
    BY <1>2 DEF BodyAt, IsTree, IsLine, LookedAt
  <2> QED BY <2>1, <2>2, <2>3, <2>4 DEF Reads
<1>5. LookedAt.kind \in OwnTable \cup {"if", "match"} /\ LookedAt.kind # "fn"
  BY <1>1
<1>6. wrong \in BOOLEAN
  OBVIOUS
<1> HIDE DEF wrong
<1> QED BY <1>1, <1>3, <1>4, <1>5, <1>6, Opens

LEMMA TypecheckedIs ==
  ASSUME BodyAt(prog, inside, looking)
  PROVE  Typechecked <=> prog[looking].read # "argument"
<1>1. prog[looking].read \in Reads
  BY DEF BodyAt, IsTree, IsLine
<1> QED BY <1>1 DEF Typechecked, LookedAt, Reads

LEMMA SimpleKeepsInv ==
  ASSUME ScopeInv, check_return_statement \/ declare_variables \/ UseVariable \/ Jump
  PROVE  ScopeInv'
<1>1. CASE check_return_statement
  <2> DEFINE checked == inside # <<>> /\ prog[Inmost].kind = "fn"
             wrong == checked /\ LookedAt.name # NoName /\ Typechecked /\ Undeclared(LookedAt.name)
  <2>1. /\ BodyGoesOn /\ LookedAt.kind = "return" /\ tables' = tables /\ inside' = inside /\ looking' = looking + 1
        /\ prog' = prog /\ stage' = stage /\ reported' = (reported \/ wrong)
    BY <1>1 DEF check_return_statement, Checking, Report
  <2>2. BodyAt(prog, inside, looking) /\ TablesAt(prog, inside, looking, tables)
    BY <2>1, BodyGoesOnIs
  <2>3. wrong <=> Misses(prog, looking)
    <3>1. Misses(prog, looking) <=> /\ inside # <<>> /\ prog[inside[Len(inside)]].kind = "fn"
                              /\ prog[looking].name # NoName /\ prog[looking].read # "argument"
                              /\ prog[looking].name \notin tables[Len(tables)]
      BY <2>1, <2>2, MissesReturn DEF LookedAt
    <3>2. Typechecked <=> prog[looking].read # "argument"
      BY <2>2, TypecheckedIs
    <3> QED BY <3>1, <3>2 DEF Undeclared, Table, LookedAt, Inmost
  <2>4. wrong \in BOOLEAN
    OBVIOUS
  <2>5. LookedAt.kind \notin Heads \cup {"match"} /\ LookedAt.kind # "declare"
    BY <2>1 DEF Heads, Parts, IfParts, Cases, Loops
  <2> HIDE DEF wrong
  <2> QED BY <2>1, <2>3, <2>4, <2>5, Passes
<1>2. CASE declare_variables
  <2>1. /\ BodyGoesOn /\ LookedAt.kind = "declare" /\ inside' = inside /\ looking' = looking + 1
        /\ prog' = prog /\ stage' = stage /\ reported' = reported
    BY <1>2 DEF declare_variables, Checking
  <2>2. reported \in BOOLEAN
    BY <2>1, BodyGoesOnIs
  <2>3. reported' = (reported \/ FALSE)
    BY <2>1, <2>2
  <2>4. ~Misses(prog, looking)
    BY <2>1, NotLookedAt DEF ReadsName, LookedAt
  <2>5. LookedAt.kind \notin Heads \cup {"match"}
    BY <2>1 DEF Heads, Parts, IfParts, Cases, Loops
  <2> QED BY <1>2, <2>1, <2>3, <2>4, <2>5, Passes
<1>3. CASE UseVariable
  <2> DEFINE wrong == Typechecked /\ Undeclared(LookedAt.name)
  <2>1. /\ BodyGoesOn /\ LookedAt.kind = "use" /\ tables' = tables /\ inside' = inside /\ looking' = looking + 1
        /\ prog' = prog /\ stage' = stage /\ reported' = (reported \/ wrong)
    BY <1>3 DEF UseVariable, Checking, Report
  <2>2. BodyAt(prog, inside, looking) /\ TablesAt(prog, inside, looking, tables)
    BY <2>1, BodyGoesOnIs
  <2>3. wrong <=> Misses(prog, looking)
    <3>1. Typechecked <=> prog[looking].read # "argument"
      BY <2>2, TypecheckedIs
    <3>2. CASE prog[looking].read = "argument"
      BY <3>1, <3>2, NotLookedAt
    <3>3. CASE prog[looking].read # "argument"
      <4>1. Misses(prog, looking) <=> prog[looking].name \notin tables[Len(tables)]
        BY <2>1, <2>2, <3>3, MissesHere DEF LookedAt
      <4> QED BY <3>1, <3>3, <4>1 DEF Undeclared, Table, LookedAt
    <3> QED BY <3>2, <3>3
  <2>4. wrong \in BOOLEAN
    OBVIOUS
  <2>5. LookedAt.kind \notin Heads \cup {"match"} /\ LookedAt.kind # "declare"
    BY <2>1 DEF Heads, Parts, IfParts, Cases, Loops
  <2> HIDE DEF wrong
  <2> QED BY <2>1, <2>3, <2>4, <2>5, Passes
<1>4. CASE Jump
  <2>1. /\ BodyGoesOn /\ LookedAt.kind \in {"goto", "label", "break", "continue"} /\ tables' = tables
        /\ inside' = inside /\ looking' = looking + 1 /\ prog' = prog /\ stage' = stage /\ reported' = reported
    BY <1>4 DEF Jump, Checking
  <2>2. reported \in BOOLEAN
    BY <2>1, BodyGoesOnIs
  <2>3. reported' = (reported \/ FALSE)
    BY <2>1, <2>2
  <2>4. ~Misses(prog, looking)
    BY <2>1, NotLookedAt DEF ReadsName, LookedAt
  <2>5. LookedAt.kind \notin Heads \cup {"match"} /\ LookedAt.kind # "declare"
    BY <2>1 DEF Heads, Parts, IfParts, Cases, Loops
  <2> QED BY <2>1, <2>3, <2>4, <2>5, Passes
<1> QED BY <1>1, <1>2, <1>3, <1>4

LEMMA PartFollowsIs ==
  ASSUME ScopeInv, PartFollows
  PROVE  /\ IsTree(prog) /\ looking \in 1..Len(prog) /\ Len(prog) \in Nat /\ OpenAt(prog, inside, looking)
         /\ Around(prog, inside, looking) /\ IsSequence(inside)
         /\ inside # <<>> /\ Len(inside) \in 1..Len(inside)
         /\ prog[looking].kind \in Parts /\ prog[looking].depth = prog[inside[Len(inside)]].depth
         /\ TablesAt(prog, inside, looking, tables)
         /\ stage = "variables" /\ reported \in BOOLEAN /\ (reported <=> Wrong(prog, inside, looking))
         /\ inside[Len(inside)] \in 1..(looking - 1)
<1>1. IsTree(prog) /\ Len(prog) \in Nat /\ looking \in 1..(Len(prog) + 1) /\ OpenAt(prog, inside, looking)
      /\ Around(prog, inside, looking) /\ IsSequence(inside)
  BY DEF ScopeInv, WalkAt, IsTree, HasDepths, OpenAt
<1>2. /\ stage = "variables" /\ looking <= Len(prog) /\ inside # <<>>
      /\ prog[looking].kind \in Parts /\ prog[looking].depth = prog[inside[Len(inside)]].depth
  BY DEF PartFollows, LookedAt, Inmost
<1>3. Len(inside) \in 1..Len(inside)
  <2>1. Len(inside) \in Nat /\ Len(inside) # 0
    BY <1>1, <1>2, SequenceLength
  <2> QED BY <2>1
<1>4. inside[Len(inside)] \in 1..(looking - 1)
  BY <1>1, <1>3 DEF OpenAt
<1>5. looking \in 1..Len(prog)
  BY <1>1, <1>2
<1> QED BY <1>1, <1>2, <1>3, <1>4, <1>5 DEF ScopeInv, StageInv

\* A body that is skipped declares nothing, and nobody reads its names.
LEMMA Skips ==
  ASSUME ScopeInv, stage = "variables", looking \in 1..Len(prog),
         \A k \in 1..Len(inside) : prog[looking].depth >= prog[inside[k]].depth /\ BelongsTo(prog, inside[k], looking),
         prog[looking].kind = "elif" \/ (prog[looking].kind = "fn" /\ prog[looking].depth > 0),
         ~Misses(prog, looking) \/ Pending(prog, inside, looking),
         looking' = EndOf(prog, looking), prog' = prog, inside' = inside, tables' = tables, stage' = stage, reported' = reported
  PROVE  ScopeInv'
<1>1. IsTree(prog) /\ HasDepths(prog) /\ Len(prog) \in Nat /\ OpenAt(prog, inside, looking) /\ Around(prog, inside, looking)
  BY DEF ScopeInv, WalkAt, IsTree, HasDepths
<1>2. PICK e : e = EndOf(prog, looking)
  OBVIOUS
<1>3. /\ e \in (looking + 1)..(Len(prog) + 1)
      /\ \A k \in (looking + 1)..(e - 1) : prog[k].depth > prog[looking].depth
  BY <1>1, <1>2, EndIs
<1>4. WalkAt(prog, inside, e)
  <2>1. e \in 1..(Len(prog) + 1)
    BY <1>1, <1>3
  <2> QED BY <1>1, <1>2, <2>1, OnwardToEnd DEF WalkAt
<1>5. \A j \in looking..(e - 1) : j = looking \/ (j \in 1..Len(prog) /\ Overlooked(prog, j))
  <2> TAKE j \in looking..(e - 1)
  <2>1. CASE j = looking
    BY <2>1
  <2>2. CASE j # looking
    <3>1. j \in 1..Len(prog) /\ looking < j /\ \A k \in (looking + 1)..j : k \in (looking + 1)..(e - 1)
      BY <1>1, <1>3, <2>2
    <3>2. In(prog, looking, j)
      BY <1>3, <3>1 DEF In
    <3> QED BY <1>1, <3>1, <3>2, OverlookedIs
  <2> QED BY <2>1, <2>2
<1>6. looking \in Nat /\ e \in Nat /\ looking <= e
  BY <1>1, <1>3
<1>7. TablesAt(prog, inside, e, tables)
  <2>1. prog[looking].kind # "declare"
    OBVIOUS
  <2>2. \A j \in looking..(e - 1) : prog[j].kind # "declare" \/ Overlooked(prog, j)
    BY <1>5, <2>1
  <2>3. TablesAt(prog, inside, looking, tables)
    BY DEF ScopeInv
  <2> QED BY <1>6, <2>2, <2>3, TablesOnward
<1>8. Wrong(prog, inside, e) <=> Wrong(prog, inside, looking)
  <2>1. \A j \in looking..(e - 1) : ~Misses(prog, j) \/ Pending(prog, inside, j)
    BY <1>5, NotLookedAt
  <2> QED BY <1>6, <2>1, WrongOnward
<1>9. reported' \in BOOLEAN /\ (reported' <=> Wrong(prog, inside, e))
  BY <1>8 DEF ScopeInv, StageInv
<1>10. WalkAt(prog, inside', looking') /\ TablesAt(prog, inside', looking', tables') /\ (reported' <=> Wrong(prog, inside', looking'))
  BY <1>2, <1>4, <1>7, <1>9
<1> QED BY <1>9, <1>10, GoesOn

LEMMA SkipKeepsInv ==
  ASSUME ScopeInv, SkipFunction \/ SkipElseIf
  PROVE  ScopeInv'
<1>1. CASE SkipFunction
  <2>1. /\ BodyGoesOn /\ prog[looking].kind = "fn" /\ inside # <<>> /\ looking' = EndOf(prog, looking)
        /\ prog' = prog /\ inside' = inside /\ tables' = tables /\ stage' = stage /\ reported' = reported
    BY <1>1 DEF SkipFunction, Checking, LookedAt
  <2>2. BodyAt(prog, inside, looking) /\ stage = "variables" /\ IsSequence(inside)
    BY <2>1, BodyGoesOnIs
  <2>3. /\ IsTree(prog) /\ looking \in 1..Len(prog) /\ looking \in 1..(Len(prog) + 1) /\ OpenAt(prog, inside, looking)
        /\ prog[looking].depth \in Nat /\ \A k \in 1..Len(inside) : prog[looking].depth > prog[inside[k]].depth
    <3>1. IsTree(prog) /\ looking \in 1..Len(prog) /\ OpenAt(prog, inside, looking) /\ Len(prog) \in Nat /\ prog[looking].depth \in Nat
      BY <2>2 DEF BodyAt, IsTree, HasDepths
    <3>2. \A k \in 1..Len(inside) : prog[looking].depth > prog[inside[k]].depth
      BY <2>2, BodyIs
    <3>3. looking \in 1..(Len(prog) + 1)
      BY <3>1
    <3> QED BY <3>1, <3>2, <3>3
  <2>4. \A k \in 1..Len(inside) : prog[inside[k]].depth \in Nat
    BY <2>3, OpenIs
  <2>5. \A k \in 1..Len(inside) : prog[looking].depth >= prog[inside[k]].depth /\ BelongsTo(prog, inside[k], looking)
    BY <2>3, <2>4 DEF BelongsTo
  <2>6. prog[looking].depth > 0
    <3>1. 1 \in 1..Len(inside)
      <4>1. Len(inside) \in Nat /\ Len(inside) # 0
        BY <2>1, <2>2, SequenceLength
      <4> QED BY <4>1
    <3>2. prog[looking].depth > prog[inside[1]].depth /\ prog[inside[1]].depth \in Nat
      BY <2>3, <2>4, <3>1
    <3> QED BY <2>3, <3>2
  <2>7. ~Misses(prog, looking)
    BY <2>1, NotLookedAt DEF ReadsName
  <2> QED BY <2>1, <2>2, <2>3, <2>5, <2>6, <2>7, Skips
<1>2. CASE SkipElseIf
  <2>1. /\ PartFollows /\ prog[looking].kind = "elif" /\ looking' = EndOf(prog, looking)
        /\ prog' = prog /\ inside' = inside /\ tables' = tables /\ stage' = stage /\ reported' = reported
    BY <1>2 DEF SkipElseIf, LookedAt
  <2>2. /\ IsTree(prog) /\ looking \in 1..Len(prog) /\ OpenAt(prog, inside, looking) /\ inside # <<>>
        /\ Len(inside) \in 1..Len(inside) /\ Len(prog) \in Nat
        /\ prog[looking].kind \in Parts /\ prog[looking].depth = prog[inside[Len(inside)]].depth
        /\ stage = "variables" /\ inside[Len(inside)] \in 1..(looking - 1)
    BY <2>1, PartFollowsIs
  <2>3. \A k \in 1..Len(inside) : prog[looking].depth >= prog[inside[k]].depth /\ BelongsTo(prog, inside[k], looking)
    BY <2>2, PartBelongs
  <2>4. inside[Len(inside)] < looking
    BY <2>2
  <2>5. ~Misses(prog, looking) \/ Pending(prog, inside, looking)
    <3>1. CASE prog[looking].read = "argument"
      BY <3>1, NotLookedAt
    <3>2. CASE prog[looking].read # "argument"
      <4>1. inside[Len(inside)] <= looking /\ TypecheckedOnly(prog[looking])
        BY <2>1, <2>2, <2>4, <3>2 DEF TypecheckedOnly
      <4> QED BY <2>2, <4>1 DEF Pending
    <3> QED BY <3>1, <3>2
  <2> QED BY <2>1, <2>2, <2>3, <2>5, Skips
<1> QED BY <1>1, <1>2

LEMMA NextArmKeepsInv ==
  ASSUME ScopeInv, NextArm
  PROVE  ScopeInv'
<1>1. /\ PartFollows /\ prog[looking].kind # "elif" /\ looking' = looking + 1
      /\ prog' = prog /\ inside' = inside /\ tables' = tables /\ stage' = stage /\ reported' = reported
  BY DEF NextArm, LookedAt
<1>2. /\ IsTree(prog) /\ looking \in 1..Len(prog) /\ OpenAt(prog, inside, looking) /\ Around(prog, inside, looking) /\ inside # <<>>
      /\ Len(inside) \in 1..Len(inside) /\ Len(prog) \in Nat
      /\ prog[looking].kind \in Parts /\ prog[looking].depth = prog[inside[Len(inside)]].depth
      /\ TablesAt(prog, inside, looking, tables)
      /\ stage = "variables" /\ reported \in BOOLEAN /\ (reported <=> Wrong(prog, inside, looking))
  BY <1>1, PartFollowsIs
<1>3. PICK m : m = looking + 1
  OBVIOUS
<1>4. /\ looking \in Nat \ {0} /\ m \in Nat /\ looking <= m /\ m \in (looking + 1)..(Len(prog) + 1) /\ m \in 1..(Len(prog) + 1)
      /\ \A j \in looking..(m - 1) : j = looking
  BY <1>2, <1>3
<1>5. prog[looking].kind \in {"else", "case", "default"}
  BY <1>1, <1>2 DEF Parts, IfParts, Cases
<1>6. WalkAt(prog, inside, m)
  <2>1. \A k \in 1..Len(inside) : BelongsTo(prog, inside[k], looking)
    BY <1>2, PartBelongs
  <2>2. \A k \in 1..Len(inside) : \A j \in looking..(m - 1) : BelongsTo(prog, inside[k], j)
    BY <1>4, <2>1
  <2>3. \A j \in looking..(m - 1) : prog[j].kind \in {"else", "case", "default"}
                              /\ \E k \in 1..Len(inside) : prog[inside[k]].depth = prog[j].depth
    BY <1>2, <1>4, <1>5
  <2>4. OpenAt(prog, inside, m) /\ Around(prog, inside, m)
    BY <1>2, <1>4, <2>2, <2>3, Onward
  <2> QED BY <1>2, <1>4, <2>4 DEF WalkAt
<1>7. TablesAt(prog, inside, m, tables)
  <2>1. \A j \in looking..(m - 1) : prog[j].kind # "declare"
    BY <1>4, <1>5
  <2> QED BY <1>2, <1>4, <2>1, TablesOnward
<1>8. Wrong(prog, inside, m) <=> Wrong(prog, inside, looking)
  <2>1. ~Misses(prog, looking)
    BY <1>5, NotLookedAt DEF ReadsName
  <2> QED BY <1>4, <2>1, WrongOnward
<1>9. WalkAt(prog, inside', looking') /\ TablesAt(prog, inside', looking', tables') /\ (reported' <=> Wrong(prog, inside', looking'))
      /\ reported' \in BOOLEAN
  BY <1>1, <1>2, <1>3, <1>6, <1>7, <1>8
<1> QED BY <1>1, <1>2, <1>9, GoesOn

LEMMA CloseKeepsInv ==
  ASSUME ScopeInv, Close
  PROVE  ScopeInv'
<1> DEFINE wrong == /\ prog[Inmost].kind \in {"if", "match"}
                    /\ \E j \in Conditions(prog, Inmost) : Undeclared(prog[j].name)
<1>1. /\ stage = "variables" /\ inside # <<>> /\ ~BodyGoesOn /\ ~PartFollows
      /\ tables' = IF prog[inside[Len(inside)]].kind \in OwnTable THEN AllButLast(tables) ELSE tables
      /\ reported' = (reported \/ wrong) /\ inside' = AllButLast(inside)
      /\ prog' = prog /\ looking' = looking /\ stage' = stage
  BY DEF Close, Report, Inmost
<1>2. /\ IsTree(prog) /\ HasDepths(prog) /\ Len(prog) \in Nat /\ looking \in 1..(Len(prog) + 1) /\ OpenAt(prog, inside, looking)
      /\ Around(prog, inside, looking) /\ IsSequence(inside) /\ TablesAt(prog, inside, looking, tables)
      /\ reported \in BOOLEAN /\ (reported <=> Wrong(prog, inside, looking))
  BY <1>1 DEF ScopeInv, WalkAt, IsTree, HasDepths, OpenAt, StageInv
<1>3. PICK n : n = Len(inside)
  OBVIOUS
<1>4. n \in 1..Len(inside) /\ n \in Nat \ {0}
  <2>1. Len(inside) \in Nat /\ Len(inside) # 0
    BY <1>1, <1>2, SequenceLength
  <2> QED BY <1>3, <2>1
<1>5. PICK top : top = inside[n]
  OBVIOUS
<1>6. /\ top \in 1..Len(prog) /\ top \in 1..(looking - 1) /\ prog[top].depth \in Nat /\ Inmost = top
      /\ \A j \in (top + 1)..(looking - 1) : BelongsTo(prog, top, j)
  BY <1>2, <1>3, <1>4, <1>5, OpenIs DEF Inmost, OpenAt
<1>7. looking <= Len(prog) => \/ prog[looking].depth < prog[top].depth
                              \/ prog[looking].depth = prog[top].depth /\ prog[looking].kind \notin Parts
  <2> HAVE looking <= Len(prog)
  <2>1. ~(prog[looking].depth > prog[top].depth)
    BY <1>1, <1>6 DEF BodyGoesOn, LookedAt
  <2>2. prog[looking].depth = prog[top].depth => prog[looking].kind \notin Parts
    BY <1>1, <1>6 DEF PartFollows, LookedAt
  <2>3. prog[looking].depth \in Nat
    <3>1. looking \in 1..Len(prog)
      BY <1>2
    <3> QED BY <1>2, <3>1 DEF HasDepths
  <2> QED BY <1>6, <2>1, <2>2, <2>3
<1>8. WalkAt(prog, AllButLast(inside), looking)
  <2>1. looking <= Len(prog) => prog[looking].depth <= prog[inside[Len(inside)]].depth
    <3>1. looking <= Len(prog) => prog[looking].depth \in Nat
      <4>1. looking <= Len(prog) => looking \in 1..Len(prog)
        BY <1>2
      <4> QED BY <1>2, <4>1 DEF HasDepths
    <3> QED BY <1>3, <1>5, <1>6, <1>7, <3>1
  <2> QED BY <1>1, <1>2, <2>1, ClosedIs DEF WalkAt
<1>9. TablesAt(prog, AllButLast(inside), looking, tables')
  BY <1>1, <1>2, TablesPopped
<1>10. \A i \in top..(looking - 1) : TypecheckedOnly(prog[i]) /\ prog[i].depth = prog[top].depth =>
         /\ prog[top].kind \in {"if", "match"}
         /\ \/ i = top /\ prog[top].read = "place"
            \/ i \in (top + 1)..(looking - 1) /\ prog[i].kind = "elif" /\ prog[i].read # "argument"
  <2> SUFFICES ASSUME NEW i \in top..(looking - 1), TypecheckedOnly(prog[i]), prog[i].depth = prog[top].depth
               PROVE  /\ prog[top].kind \in {"if", "match"}
                      /\ \/ i = top /\ prog[top].read = "place"
                         \/ i \in (top + 1)..(looking - 1) /\ prog[i].kind = "elif" /\ prog[i].read # "argument"
    OBVIOUS
  <2>1. i = top \/ i \in (top + 1)..(looking - 1)
    BY <1>6
  <2>2. CASE i = top
    <3>1. prog[top].kind # "elif"
      <4>1. prog[top].kind \in OwnTable \cup {"if", "match"}
        BY <1>2, <1>4, <1>5, <1>3 DEF OpenAt
      <4> QED BY <4>1 DEF OwnTable, Loops
    <3> QED BY <2>2, <3>1 DEF TypecheckedOnly
  <2>3. CASE i \in (top + 1)..(looking - 1)
    <3>1. ~(prog[i].depth > prog[top].depth)
      BY <1>6
    <3>2. prog[i].kind \in Parts /\ (prog[i].kind = "elif" => prog[top].kind = "if")
      BY <1>6, <2>3, <3>1 DEF BelongsTo, Parts, IfParts, Cases
    <3>3. prog[i].kind = "elif" /\ prog[i].read # "argument"
      BY <3>2 DEF TypecheckedOnly, Parts, IfParts, Cases
    <3> QED BY <2>3, <3>2, <3>3
  <2> QED BY <2>1, <2>2, <2>3
<1>11. AfterAll(prog, top) = looking
  <2>1. \A j \in (top + 1)..(looking - 1) :
          prog[j].depth > prog[top].depth \/ (prog[j].depth = prog[top].depth /\ prog[j].kind \in Parts)
    BY <1>6 DEF BelongsTo, Parts
  <2>2. looking \in (top + 1)..(Len(prog) + 1)
    BY <1>2, <1>6
  <2> QED BY <1>2, <1>6, <1>7, <2>1, <2>2, AfterAllIs
<1>12. prog[top].kind \in {"if", "match"} => tables[Len(tables)] = Names(prog, looking, Owners(prog, inside, n - 1))
  <2>1. tables[Len(tables)] = Names(prog, looking, Owners(prog, inside, n))
    BY <1>2, <1>3, TablesIs
  <2>2. n - 1 \in Nat /\ (n - 1) + 1 = n
    BY <1>4
  <2>3. prog[inside[n]].kind \notin OwnTable => Owners(prog, inside, n) = Owners(prog, inside, n - 1)
    BY <2>2, NextLevel
  <2>4. prog[top].kind \in {"if", "match"} => prog[inside[n]].kind \notin OwnTable
    BY <1>5 DEF OwnTable, Loops
  <2> QED BY <2>1, <2>3, <2>4
<1>13. wrong <=> \E i \in top..(looking - 1) :
                 TypecheckedOnly(prog[i]) /\ prog[i].depth = prog[top].depth /\ Misses(prog, i)
  <2>1. Conditions(prog, Inmost) = {j \in top..(looking - 1) : prog[j].depth = prog[top].depth /\ TypecheckedOnly(prog[j])}
    BY <1>6, <1>11 DEF Conditions
  <2>2. ASSUME NEW i \in top..(looking - 1), TypecheckedOnly(prog[i]), prog[i].depth = prog[top].depth
        PROVE  prog[top].kind \in {"if", "match"} /\ (Misses(prog, i) <=> Undeclared(prog[i].name))
    <3>1. prog[top].kind \in {"if", "match"}
      BY <1>10, <2>2
    <3>2. tables[Len(tables)] = Names(prog, looking, Owners(prog, inside, n - 1))
      BY <1>12, <3>1
    <3>3. CASE i = top /\ prog[top].read = "place"
      <4>1. Misses(prog, top) <=> prog[top].name \notin Names(prog, looking, Owners(prog, inside, n - 1))
        BY <1>2, <1>4, <1>5, <1>11, <3>1, <3>3, MissesAtEnd
      <4> QED BY <3>1, <3>2, <3>3, <4>1 DEF Undeclared, Table
    <3>4. CASE i \in (top + 1)..(looking - 1) /\ prog[i].kind = "elif" /\ prog[i].read # "argument"
      <4>1. Misses(prog, i) <=> /\ prog[i].read # "argument"
                                /\ prog[i].name \notin Names(prog, looking, Owners(prog, inside, n - 1))
        BY <1>2, <1>4, <1>5, <1>7, <2>2, <3>4, MissesElseIf
      <4> QED BY <3>1, <3>2, <3>4, <4>1 DEF Undeclared, Table
    <3> QED BY <1>10, <2>2, <3>3, <3>4
  <2> QED BY <1>6, <2>1, <2>2
<1>14. Wrong(prog, AllButLast(inside), looking) <=>
         \/ Wrong(prog, inside, looking)
         \/ \E i \in top..(looking - 1) :
              TypecheckedOnly(prog[i]) /\ prog[i].depth = prog[top].depth /\ Misses(prog, i)
  BY <1>1, <1>2, <1>3, <1>5, WrongClosed
<1>15. wrong \in BOOLEAN
  OBVIOUS
<1> HIDE DEF wrong
<1>16. reported' \in BOOLEAN /\ (reported' <=> Wrong(prog, AllButLast(inside), looking))
  BY <1>1, <1>2, <1>13, <1>14, <1>15
<1>17. WalkAt(prog, inside', looking') /\ TablesAt(prog, inside', looking', tables') /\ (reported' <=> Wrong(prog, inside', looking'))
  BY <1>1, <1>8, <1>9, <1>16
<1> QED BY <1>1, <1>16, <1>17, GoesOn

LEMMA ParseKeepsInv ==
  ASSUME ScopeInv, ParseLine
  PROVE  ScopeInv'
<1>1. PICK vocabulary \in Vocabularies : \E line \in vocabulary : Fits(prog, line) /\ prog' = Append(prog, line)
  BY DEF ParseLine
<1>2. PICK line \in vocabulary : Fits(prog, line) /\ prog' = Append(prog, line)
  BY <1>1
<1>3. /\ stage = "parse" /\ looking = 1 /\ inside = <<>> /\ tables = <<{}>> /\ reported = FALSE /\ IsTree(prog)
      /\ looking' = looking /\ inside' = inside /\ tables' = tables /\ stage' = stage /\ reported' = reported
  BY DEF ParseLine, ScopeInv, StageInv, WalkAt
<1>4. IsTree(prog')
  <2>1. IsLine(line)
    BY <1>2, VocabulariesAssumption
  <2> QED BY <1>2, <1>3, <2>1, FitsBuildsTrees
<1>5. OpenAt(prog', <<>>, 1) /\ Around(prog', <<>>, 1)
  <2>1. IsSequence(<<>>)
    <3>1. <<>> \in Seq({})
      OBVIOUS
    <3> QED BY <3>1 DEF IsSequence
  <2>2. Len(<<>>) = 0 /\ 1..0 = {} /\ 1..(1 - 1) = {}
    OBVIOUS
  <2> QED BY <2>1, <2>2 DEF OpenAt, Around
<1>6. WalkAt(prog', inside', looking')
  <2>1. 1 \in 1..(Len(prog') + 1)
    BY <1>4 DEF IsTree, HasDepths
  <2> QED BY <1>3, <1>4, <1>5, <2>1 DEF WalkAt
<1>7. TablesAt(prog', inside', looking', tables')
  BY <1>3, FirstTable
<1>8. StageInv'
  BY <1>3 DEF StageInv
<1> QED BY <1>3, <1>6, <1>7, <1>8 DEF ScopeInv

LEMMA InitMakesInv ==
  ASSUME SemanticInit
  PROVE  ScopeInv
<1>1. prog = <<>> /\ looking = 1 /\ inside = <<>> /\ tables = <<{}>> /\ stage = "parse" /\ reported = FALSE
  BY DEF SemanticInit
<1>2. PICK p : p = <<>>
  OBVIOUS
<1>3. IsSequence(p) /\ Len(p) = 0 /\ 1..0 = {}
  <2>1. p \in Seq({})
    BY <1>2
  <2> QED BY <1>2, <2>1 DEF IsSequence
<1>4. IsTree(p)
  BY <1>3 DEF IsTree, HasDepths
<1>5. OpenAt(p, p, 1) /\ Around(p, p, 1) /\ 1 \in 1..(Len(p) + 1)
  BY <1>3 DEF OpenAt, Around
<1>6. StageInv
  BY <1>1 DEF StageInv
<1>7. WalkAt(prog, inside, looking)
  BY <1>1, <1>2, <1>4, <1>5 DEF WalkAt
<1>8. TablesAt(prog, inside, looking, tables)
  BY <1>1, FirstTable
<1> QED BY <1>1, <1>6, <1>7, <1>8 DEF ScopeInv

LEMMA StartKeepsInv ==
  ASSUME ScopeInv, Start
  PROVE  ScopeInv'
<1>1. /\ prog' = prog /\ looking' = looking /\ inside' = inside /\ tables' = tables /\ stage' = "variables" /\ reported' = reported
      /\ looking = 1 /\ reported = FALSE
  BY DEF Start, ScopeInv, StageInv
<1>2. ~Wrong(prog, inside, 1)
  <2>1. 1..(1 - 1) = {}
    OBVIOUS
  <2> QED BY <2>1 DEF Wrong
<1>3. WalkAt(prog', inside', looking') /\ TablesAt(prog', inside', looking', tables') /\ ~Wrong(prog', inside', looking')
  BY <1>1, <1>2 DEF ScopeInv
<1>4. StageInv'
  BY <1>1 DEF StageInv
<1> QED BY <1>1, <1>3, <1>4 DEF ScopeInv

LEMMA LabelsKeepInv ==
  ASSUME ScopeInv, instrs_check_labels
  PROVE  ScopeInv'
<1>1. /\ prog' = prog /\ looking' = looking /\ inside' = inside /\ tables' = tables /\ stage' = "checked"
      /\ reported' \in BOOLEAN
  BY DEF instrs_check_labels, Report
<1>2. WalkAt(prog', inside', looking') /\ TablesAt(prog', inside', looking', tables')
  BY <1>1 DEF ScopeInv
<1>3. StageInv'
  BY <1>1 DEF StageInv
<1> QED BY <1>1, <1>2, <1>3 DEF ScopeInv

LEMMA ScopesStep ==
  ASSUME ScopeInv, [SemanticNext]_<<prog, sem>>
  PROVE  ScopeInv'
<1>1. CASE ParseLine
  BY <1>1, ParseKeepsInv
<1>2. CASE Start
  BY <1>2, StartKeepsInv
<1>3. CASE check_function_body
  BY <1>3, FunctionKeepsInv
<1>4. CASE SkipFunction \/ SkipElseIf
  BY <1>4, SkipKeepsInv
<1>5. CASE check_return_statement \/ declare_variables \/ UseVariable \/ Jump
  BY <1>5, SimpleKeepsInv
<1>6. CASE IfOrMatch
  BY <1>6, IfOrMatchKeepsInv
<1>7. CASE check_loop
  BY <1>7, LoopKeepsInv
<1>8. CASE NextArm
  BY <1>8, NextArmKeepsInv
<1>9. CASE Close
  BY <1>9, CloseKeepsInv
<1>10. CASE instrs_check_labels
  BY <1>10, LabelsKeepInv
<1>11. CASE UNCHANGED <<prog, sem>>
  <2>1. /\ prog' = prog /\ looking' = looking /\ inside' = inside /\ tables' = tables /\ stage' = stage
        /\ reported' = reported
    BY <1>11 DEF sem
  <2> QED BY <2>1 DEF ScopeInv, StageInv
<1> QED BY <1>1, <1>2, <1>3, <1>4, <1>5, <1>6, <1>7, <1>8, <1>9, <1>10, <1>11, Zenon DEF SemanticNext, Check

\* The tables are those of the scopes that the walk is in, with the names they
\* should have, and an error has been reported exactly if a name was not there.
THEOREM Invariance == SemanticSpec => []ScopeInv
<1>1. SemanticInit => ScopeInv
  BY InitMakesInv
<1>2. ScopeInv /\ [SemanticNext]_<<prog, sem>> => ScopeInv'
  BY ScopesStep
<1> QED BY <1>1, <1>2, PTL DEF SemanticSpec

\* The table in use is that of the innermost function or loop, for every tree.
THEOREM TypesTheorem == SemanticSpec => []TablesOK
<1>1. ScopeInv => TablesOK
  <2> SUFFICES ASSUME ScopeInv PROVE TablesOK
    OBVIOUS
  <2>1. /\ looking \in 1..(Len(prog) + 1) /\ stage \in {"parse", "variables", "checked"} /\ reported \in BOOLEAN
        /\ \A k \in 3..Len(tables) : tables[k - 1] \subseteq tables[k]
    BY DEF ScopeInv, WalkAt, TablesAt, StageInv
  <2>2. \A k \in 1..Len(inside) : inside[k] \in 1..(looking - 1)
    BY DEF ScopeInv, WalkAt, OpenAt
  <2>3. Len(tables) = 1 + Cardinality({k \in 1..Len(inside) : prog[inside[k]].kind \in OwnTable})
    BY DEF ScopeInv, TablesAt, Level, OwnerPlaces
  <2> QED BY <2>1, <2>2, <2>3 DEF TablesOK
<1> QED BY <1>1, Invariance, PTL

\* When the variables have been checked, nothing that was looked at is pending.
LEMMA AllLookedAt ==
  ASSUME ScopeInv, VariablesChecked
  PROVE  reported <=> \E i \in 1..Len(prog) : Misses(prog, i)
<1>1. /\ stage = "variables" /\ inside = <<>> /\ looking > Len(prog) /\ looking \in 1..(Len(prog) + 1) /\ Len(prog) \in Nat
      /\ (reported <=> Wrong(prog, inside, looking))
  BY DEF ScopeInv, VariablesChecked, WalkAt, IsTree, HasDepths
<1>2. looking - 1 = Len(prog)
  BY <1>1
<1>3. \A i : ~Pending(prog, inside, i)
  <2>1. Len(inside) = 0 /\ 1..0 = {}
    BY <1>1
  <2> QED BY <2>1 DEF Pending
<1>4. Wrong(prog, inside, looking) <=> \E i \in 1..Len(prog) : Misses(prog, i)
  BY <1>2, <1>3, Zenon DEF Wrong
<1> QED BY <1>1, <1>4, Zenon

\* Copying a table into a loop, and dropping it afterwards, amounts to lexical
\* scoping: the walk reports an error exactly if a name that it looks at is
\* not visible where it is read, for every tree that the parser can build.
THEOREM ScopesTheorem == SemanticSpec => []NamesAsDeclared
<1>1. ScopeInv => NamesAsDeclared
  BY AllLookedAt, Zenon DEF NamesAsDeclared, Misses
<1> QED BY <1>1, Invariance, PTL
=============================================================================
