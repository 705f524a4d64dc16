--------------------------- MODULE ContainerProofs ---------------------------
(***************************************************************************)
(* What the growing array and the bump allocator promise their callers,    *)
(* for every item, index, size and capacity; and facts about sequences,    *)
(* and about the lines of a syntax tree and what encloses what.            *)
(***************************************************************************)
EXTENDS Ast, DynamicArray, Arena, SequenceTheorems, WellFoundedInduction, TLAPS

----------------------------------------------------------------------------
(* Sequences of items of any kind.                                         *)

IsSequence(s) == \E S : s \in Seq(S)

LEMMA SequenceLength ==
  ASSUME NEW s, IsSequence(s)
  PROVE  Len(s) \in Nat /\ (Len(s) = 0 => s = <<>>)
BY DEF IsSequence

LEMMA SequenceOf ==
  ASSUME NEW s, IsSequence(s), NEW x
  PROVE  \E S : s \in Seq(S) /\ x \in S
<1>1. PICK S : s \in Seq(S)
  BY DEF IsSequence
<1>2. s \in Seq(S \cup {x})
  BY <1>1
<1> QED BY <1>2

LEMMA AppendSequence ==
  ASSUME NEW s, IsSequence(s), NEW x
  PROVE  /\ IsSequence(Append(s, x))
         /\ Len(Append(s, x)) = Len(s) + 1
         /\ \A i \in 1..Len(s) : Append(s, x)[i] = s[i]
         /\ Append(s, x)[Len(s) + 1] = x
<1>1. PICK S : s \in Seq(S) /\ x \in S
  BY SequenceOf
<1> QED BY <1>1, AppendProperties DEF IsSequence

LEMMA ReplaceLast ==
  ASSUME NEW s, IsSequence(s), Len(s) # 0, NEW x
  PROVE  LET new == [s EXCEPT ![Len(s)] = x] IN
         /\ IsSequence(new)
         /\ Len(new) = Len(s)
         /\ \A i \in 1..(Len(s) - 1) : new[i] = s[i]
         /\ new[Len(s)] = x
<1>1. PICK S : s \in Seq(S) /\ x \in S
  BY SequenceOf
<1>2. [s EXCEPT ![Len(s)] = x] \in Seq(S)
  BY <1>1
<1> QED BY <1>1, <1>2 DEF IsSequence

LEMMA FrontSequence ==
  ASSUME NEW s, IsSequence(s), NEW n \in Nat, n <= Len(s)
  PROVE  /\ IsSequence(SubSeq(s, 1, n))
         /\ Len(SubSeq(s, 1, n)) = n
         /\ \A i \in 1..n : SubSeq(s, 1, n)[i] = s[i]
<1>1. PICK S : s \in Seq(S)
  BY DEF IsSequence
<1>2. SubSeq(s, 1, n) \in Seq(S)
  BY <1>1
<1> QED BY <1>1, <1>2 DEF IsSequence

LEMMA JoinedSequence ==
  ASSUME NEW s, NEW t, IsSequence(s), IsSequence(t)
  PROVE  /\ IsSequence(s \o t)
         /\ Len(s \o t) = Len(s) + Len(t)
         /\ \A i \in 1..Len(s) : (s \o t)[i] = s[i]
         /\ \A i \in 1..Len(t) : (s \o t)[Len(s) + i] = t[i]
<1>1. PICK S : s \in Seq(S)
  BY DEF IsSequence
<1>2. PICK T : t \in Seq(T)
  BY DEF IsSequence
<1>3. s \in Seq(S \cup T) /\ t \in Seq(S \cup T)
  BY <1>1, <1>2
<1>4. /\ s \o t \in Seq(S \cup T)
      /\ Len(s \o t) = Len(s) + Len(t)
      /\ \A i \in 1..Len(s) + Len(t) : (s \o t)[i] = IF i <= Len(s) THEN s[i] ELSE t[i - Len(s)]
  BY <1>3, ConcatProperties, Zenon
<1>5. Len(s) \in Nat /\ Len(t) \in Nat
  BY <1>1, <1>2
<1>6. \A i \in 1..Len(s) : (s \o t)[i] = s[i]
  BY <1>4, <1>5
<1>7. \A i \in 1..Len(t) : (s \o t)[Len(s) + i] = t[i]
  BY <1>4, <1>5
<1> QED BY <1>4, <1>6, <1>7 DEF IsSequence

\* The least of a set of numbers.
LEMMA SmallestElement ==
  ASSUME NEW T \in SUBSET Nat, T # {}
  PROVE  \E m \in T : \A k \in T : m <= k
<1> DEFINE R == OpToRel(<, Nat)
<1>1. R = {ss \in Nat \X Nat : ss[1] < ss[2]}
  BY Zenon DEF OpToRel
<1>2. IsWellFoundedOn(R, Nat)
  BY NatLessThanWellFounded, Zenon
<1> HIDE DEF R
<1>3. \E x \in T : \A y \in T : ~(<<y, x>> \in R)
  BY <1>2, WFMin, Zenon
<1>4. ASSUME NEW x \in Nat, NEW y \in Nat, ~(<<y, x>> \in R)
      PROVE  x <= y
  <2>1. <<y, x>> \in Nat \X Nat /\ <<y, x>>[1] = y /\ <<y, x>>[2] = x
    OBVIOUS
  <2>2. ~(y < x)
    BY <1>1, <1>4, <2>1
  <2> QED BY <2>2
<1> QED BY <1>3, <1>4

\* The greatest of a set of numbers up to n.
LEMMA LargestElement ==
  ASSUME NEW n \in Nat, NEW S \in SUBSET (1..n), S # {}
  PROVE  \E m \in S : \A k \in S : k <= m
<1> DEFINE T == {n - s : s \in S}
<1>1. T \in SUBSET Nat /\ T # {}
  <2>1. \A s \in S : n - s \in Nat
    OBVIOUS
  <2>2. PICK s \in S : TRUE
    OBVIOUS
  <2>3. n - s \in T
    OBVIOUS
  <2> QED BY <2>1, <2>3, Zenon
<1>2. PICK t \in T : \A k \in T : t <= k
  <2> HIDE DEF T
  <2> QED BY <1>1, SmallestElement
<1>3. PICK m \in S : t = n - m
  OBVIOUS
<1>4. ASSUME NEW k \in S PROVE k <= m
  <2>1. n - m <= n - k
    BY <1>2, <1>3
  <2>2. n \in Int /\ m \in Int /\ k \in Int
    OBVIOUS
  <2> QED BY <2>1, <2>2
<1> QED BY <1>4

\* The first number after i that is in a set, or the one after n.
LEMMA FirstIs ==
  ASSUME NEW i \in Nat, NEW n \in Nat, i <= n, NEW S
  PROVE  \E j \in (i + 1)..(n + 1) : /\ j <= n => j \in S
                                    /\ \A k \in (i + 1)..(j - 1) : k \notin S
<1> DEFINE T == {j \in (i + 1)..(n + 1) : j <= n => j \in S}
<1>1. T \in SUBSET Nat /\ n + 1 \in T
  OBVIOUS
<1>2. PICK m \in T : \A k \in T : m <= k
  BY <1>1, SmallestElement
<1>3. \A k \in (i + 1)..(m - 1) : k \notin S
  <2> SUFFICES ASSUME NEW k \in (i + 1)..(m - 1), k \in S PROVE FALSE
    OBVIOUS
  <2>1. k \in T /\ ~(m <= k)
    BY <1>2
  <2> QED BY <1>2, <2>1
<1> QED BY <1>2, <1>3

\* A set of numbers with zero, and with the next of each up to a bound.
LEMMA UpToAll ==
  ASSUME NEW n \in Nat, NEW T, 0 \in T, \A i \in 0..n : i \in T /\ i < n => i + 1 \in T
  PROVE  \A i \in 0..n : i \in T
<1> SUFFICES ASSUME ~ \A i \in 0..n : i \in T PROVE FALSE
  OBVIOUS
<1>1. PICK missing : missing = {i \in 0..n : i \notin T}
  OBVIOUS
<1>2. missing \in SUBSET Nat /\ missing # {}
  BY <1>1
<1>3. PICK m \in missing : \A k \in missing : m <= k
  BY <1>2, SmallestElement
<1>4. m \in 0..n /\ m \notin T /\ m # 0
  BY <1>1, <1>3
<1>5. m - 1 \in 0..n /\ m - 1 < n /\ (m - 1) + 1 = m /\ ~(m <= m - 1)
  BY <1>4
<1>6. m - 1 \in T
  BY <1>1, <1>3, <1>5
<1> QED BY <1>4, <1>5, <1>6

----------------------------------------------------------------------------
(* dynamic_array.c.                                                        *)

\* An array as the operations leave it.
IsArray(da) ==
  /\ da = [items |-> da.items, capacity |-> da.capacity, item_size |-> da.item_size]
  /\ IsSequence(da.items) /\ da.capacity \in Nat /\ da.item_size \in Nat

LEMMA AppendItems ==
  ASSUME NEW da, IsArray(da), da.item_size # 0, NEW item
  PROVE  LET new == dynamic_array_append(da, item) IN
         /\ IsArray(new)
         /\ new.item_size = da.item_size
         /\ Count(new) = Count(da) + 1
         /\ \A i \in 1..Count(da) : new.items[i] = da.items[i]
         /\ new.items[Count(new)] = item
<1>1. Grown(da) \in Nat
  BY DEF IsArray, Grown, Doubled
<1>2. ASSUME NEW new,
             new = [items |-> Append(da.items, item), capacity |-> Grown(da),
                    item_size |-> da.item_size]
      PROVE  /\ IsArray(new)
             /\ new.item_size = da.item_size
             /\ Count(new) = Count(da) + 1
             /\ \A i \in 1..Count(da) : new.items[i] = da.items[i]
             /\ new.items[Count(new)] = item
  BY <1>1, <1>2, AppendSequence DEF IsArray, Count
<1> QED BY <1>2 DEF dynamic_array_append

\* Removing the last item takes it away and nothing else: what lexer_tokenize
\* does with the END of an included file.
THEOREM RemoveLast ==
  ASSUME NEW da, IsArray(da), da.item_size # 0, Count(da) # 0
  PROVE  LET removed == dynamic_array_remove(da, Count(da) - 1) IN
         /\ IsArray(removed)
         /\ removed.item_size = da.item_size
         /\ Count(removed) = Count(da) - 1
         /\ \A i \in 1..Count(removed) : removed.items[i] = da.items[i]
<1> DEFINE n == Count(da)
           kept == SubSeq(da.items, 1, n - 1)
           rest == SubSeq(da.items, n + 1, n)
<1>1. n \in Nat \ {0} /\ n = Len(da.items) /\ IsSequence(da.items)
  BY SequenceLength DEF IsArray, Count
<1>2. IsSequence(kept) /\ Len(kept) = n - 1 /\ \A i \in 1..(n - 1) : kept[i] = da.items[i]
  BY <1>1, FrontSequence
<1>3. rest = <<>>
  BY <1>1, SubSeqEmpty
<1>4. kept \o rest = kept
  BY <1>2, <1>3, ConcatEmptySeq DEF IsSequence
<1>5. dynamic_array_remove(da, n - 1)
      = [items |-> kept, capacity |-> da.capacity, item_size |-> da.item_size]
  <2>1. InRange(da, n - 1)
    BY <1>1 DEF InRange
  <2>2. (n - 1) + 2 = n + 1
    BY <1>1
  <2> QED BY <1>4, <2>1, <2>2 DEF dynamic_array_remove
<1>6. da.capacity \in Nat /\ da.item_size \in Nat
  BY DEF IsArray
<1> HIDE DEF kept, rest, n
<1>7. ASSUME NEW removed,
             removed = [items |-> kept, capacity |-> da.capacity, item_size |-> da.item_size]
      PROVE  /\ IsArray(removed) /\ removed.item_size = da.item_size
             /\ Count(removed) = n - 1
             /\ \A i \in 1..Count(removed) : removed.items[i] = da.items[i]
  BY <1>2, <1>6, <1>7 DEF IsArray, Count
<1> QED BY <1>5, <1>7 DEF n

\* An append always writes within the memory of the array.
THEOREM AppendWithinCapacity ==
  ASSUME NEW da, IsArray(da), WithinCapacity(da), NEW item
  PROVE  WithinCapacity(dynamic_array_append(da, item))
<1>1. Count(da) \in Nat /\ da.capacity \in Nat /\ Count(da) <= da.capacity
  BY SequenceLength DEF IsArray, Count, WithinCapacity
<1>2. CASE da.item_size = 0
  BY <1>2 DEF dynamic_array_append
<1>3. CASE da.item_size # 0
  <2>1. Count(dynamic_array_append(da, item)) = Count(da) + 1
    BY <1>3, AppendItems
  <2>2. dynamic_array_append(da, item).capacity = Grown(da)
    BY <1>3 DEF dynamic_array_append
  <2> QED BY <1>1, <2>1, <2>2 DEF Grown, Doubled, WithinCapacity
<1> QED BY <1>2, <1>3

\* An insert does so unless the array has no memory yet: it doubles the
\* capacity, and twice nothing is nothing.  No caller in the compiler inserts.
THEOREM InsertWithinCapacity ==
  ASSUME NEW da, IsArray(da), WithinCapacity(da), NEW item, NEW index \in Nat,
         da.item_size # 0, index <= Count(da)
  PROVE  WithinCapacity(dynamic_array_insert(da, index, item)) <=> da.capacity # 0
<1> DEFINE head == SubSeq(da.items, 1, index)
           tail == SubSeq(da.items, index + 1, Count(da))
<1>1. /\ Count(da) \in Nat /\ Count(da) = Len(da.items) /\ IsSequence(da.items)
      /\ da.capacity \in Nat /\ Count(da) <= da.capacity
  BY SequenceLength DEF IsArray, Count, WithinCapacity
<1>2. IsSequence(head) /\ Len(head) = index
  BY <1>1, FrontSequence
<1>3. PICK S : da.items \in Seq(S)
  BY <1>1 DEF IsSequence
<1>4. tail \in Seq(S) /\ Len(tail) = Count(da) - index
  BY <1>1, <1>3
<1> HIDE DEF head, tail
<1>5. IsSequence(<<item>>) /\ Len(<<item>>) = 1
  <2>1. <<item>> \in Seq({item})
    OBVIOUS
  <2> QED BY <2>1 DEF IsSequence
<1>6. IsSequence(tail)
  BY <1>4 DEF IsSequence
<1>7. IsSequence(head \o <<item>>) /\ Len(head \o <<item>>) = Len(head) + 1
  BY <1>2, <1>5, JoinedSequence
<1>8. Len(head \o <<item>> \o tail) = Len(head \o <<item>>) + Len(tail)
  BY <1>6, <1>7, JoinedSequence, Zenon
<1>9. Len(head \o <<item>> \o tail) = Count(da) + 1
  <2>1. Len(head \o <<item>> \o tail) = (index + 1) + (Count(da) - index)
    BY <1>2, <1>4, <1>7, <1>8, Zenon
  <2>2. Count(da) \in Nat => (index + 1) + (Count(da) - index) = Count(da) + 1
    BY ONLY index \in Nat
  <2> QED BY <1>1, <2>1, <2>2, Zenon
<1>10. dynamic_array_insert(da, index, item)
       = [items |-> head \o <<item>> \o tail, capacity |-> Doubled(da), item_size |-> da.item_size]
  BY <1>1 DEF dynamic_array_insert, head, tail
<1> QED BY <1>1, <1>9, <1>10 DEF WithinCapacity, Count, Doubled

----------------------------------------------------------------------------
(* arena.c.                                                                *)

IsArena(arena) ==
  /\ arena = [pos |-> arena.pos, capacity |-> arena.capacity]
  /\ arena.pos \in Nat /\ arena.capacity \in Nat
  /\ arena.pos <= arena.capacity

\* The aligned position is the first multiple of the alignment from n on.
THEOREM Alignment ==
  ASSUME NEW n \in Nat
  PROVE  /\ AlignUp(n) \in Nat
         /\ AlignUp(n) % ARENA_ALIGN = 0
         /\ n <= AlignUp(n) /\ AlignUp(n) < n + ARENA_ALIGN
BY Z3 DEF AlignUp, ARENA_ALIGN

LEMMA InitArena ==
  ASSUME NEW capacity \in Nat
  PROVE  IsArena(arena_init(capacity))
BY DEF IsArena, arena_init

\* Whatever is asked for, the position stays within the buffer.
THEOREM PushInside ==
  ASSUME NEW arena, IsArena(arena), NEW size \in Nat
  PROVE  IsArena(arena_push(arena, size)) /\ arena_push(arena, size).capacity = arena.capacity
<1>1. AlignUp(arena.pos) \in Nat
  BY Alignment DEF IsArena
<1> QED BY <1>1 DEF IsArena, arena_push, HasRoom

\* Two pushes hand out memory that is aligned, within the buffer and apart.
THEOREM RegionsApart ==
  ASSUME NEW arena, IsArena(arena), NEW first \in Nat, NEW second \in Nat,
         HasRoom(arena, first), HasRoom(arena_push(arena, first), second)
  PROVE  LET then == arena_push(arena, first) IN
         /\ Region(arena, first) \cap Region(then, second) = {}
         /\ Region(then, second) \subseteq 0..(arena.capacity - 1)
         /\ AlignUp(then.pos) % ARENA_ALIGN = 0
<1> DEFINE then == arena_push(arena, first)
<1>1. IsArena(then) /\ then.capacity = arena.capacity
  BY PushInside
<1>2. then.pos = AlignUp(arena.pos) + first
  BY DEF arena_push
<1>3. /\ AlignUp(arena.pos) \in Nat /\ AlignUp(then.pos) \in Nat /\ then.pos \in Nat
      /\ then.pos <= AlignUp(then.pos) /\ AlignUp(then.pos) % ARENA_ALIGN = 0
  BY <1>1, Alignment DEF IsArena
<1>4. AlignUp(then.pos) + second <= arena.capacity /\ arena.capacity \in Nat
  BY <1>1 DEF HasRoom, IsArena
<1> HIDE DEF then
<1>5. Region(arena, first) \cap Region(then, second) = {}
  BY <1>2, <1>3 DEF Region
<1>6. Region(then, second) \subseteq 0..(arena.capacity - 1)
  BY <1>3, <1>4 DEF Region
<1> QED BY <1>3, <1>5, <1>6 DEF then

\* Taking memory back never leaves the buffer, however much is asked for.
THEOREM PopInside ==
  ASSUME NEW arena, IsArena(arena), NEW n \in Nat
  PROVE  /\ IsArena(arena_pop(arena, n)) /\ arena_pop(arena, n).pos <= arena.pos
         /\ IsArena(arena_pop_to(arena, n)) /\ arena_pop_to(arena, n).pos <= arena.pos
         /\ IsArena(arena_clear(arena)) /\ arena_clear(arena).pos = 0
BY DEF IsArena, arena_pop, arena_pop_to, arena_clear, arena_init

----------------------------------------------------------------------------
(* Trees.                                                                  *)

HasDepths(p) == Len(p) \in Nat /\ \A i \in 1..Len(p) : p[i].depth \in Nat

\* Line j is in the body of line i.
In(p, i, j) == i < j /\ \A k \in (i + 1)..j : p[k].depth > p[i].depth

\* The part before a part.
Peer(p, j, i) == p[j].depth = p[i].depth /\ \A k \in (j + 1)..(i - 1) : p[k].depth > p[i].depth

\* The lines that Fits lets the parser build.
IsTree(p) ==
  /\ IsSequence(p) /\ HasDepths(p) /\ \A i \in 1..Len(p) : IsLine(p[i])
  /\ \A i \in 1..Len(p) :
       /\ i = 1 => p[i].depth = 0
       /\ i # 1 => p[i].depth <= IF p[i - 1].kind \in Heads THEN p[i - 1].depth + 1 ELSE p[i - 1].depth
       /\ p[i].kind \in IfParts => \E j \in 1..(i - 1) : Peer(p, j, i) /\ p[j].kind \in {"if", "elif"}
       /\ p[i].kind \in Cases => \E j \in 1..(i - 1) : Peer(p, j, i) /\ p[j].kind \in {"match"} \cup Cases

LEMMA EndIs ==
  ASSUME NEW p, HasDepths(p), NEW i \in 1..Len(p)
  PROVE  /\ EndOf(p, i) \in (i + 1)..(Len(p) + 1)
         /\ EndOf(p, i) <= Len(p) => p[EndOf(p, i)].depth <= p[i].depth
         /\ \A k \in (i + 1)..(EndOf(p, i) - 1) : p[k].depth > p[i].depth
<1> DEFINE Q(j) == p[j].depth <= p[i].depth
<1>1. Len(p) \in Nat /\ i \in Nat /\ i <= Len(p)
  BY DEF HasDepths
<1>2. \E j \in (i + 1)..(Len(p) + 1) : /\ j <= Len(p) => Q(j)
                                       /\ \A k \in (i + 1)..(j - 1) : ~Q(k)
  <2> DEFINE S == {j \in Nat : Q(j)}
  <2>1. PICK j \in (i + 1)..(Len(p) + 1) : /\ j <= Len(p) => j \in S
                                          /\ \A k \in (i + 1)..(j - 1) : k \notin S
    BY <1>1, FirstIs
  <2>2. \A k \in (i + 1)..(j - 1) : k \in Nat
    BY <1>1
  <2> QED BY <1>1, <2>1, <2>2
<1>3. PICK e : e = EndOf(p, i)
  OBVIOUS
<1>4. e \in (i + 1)..(Len(p) + 1) /\ (e <= Len(p) => Q(e)) /\ \A k \in (i + 1)..(e - 1) : ~Q(k)
  BY <1>2, <1>3, Zenon DEF EndOf, FirstAfter
<1>5. \A k \in (i + 1)..(e - 1) : p[k].depth > p[i].depth
  <2> TAKE k \in (i + 1)..(e - 1)
  <2>1. p[k].depth \in Nat /\ p[i].depth \in Nat /\ ~(p[k].depth <= p[i].depth)
    BY <1>1, <1>4 DEF HasDepths
  <2> QED BY <2>1
<1> QED BY <1>3, <1>4, <1>5

LEMMA EnclosesIs ==
  ASSUME NEW p, HasDepths(p), NEW i \in 1..Len(p), NEW j \in 1..Len(p)
  PROVE  Encloses(p, i, j) <=> In(p, i, j)
<1>1. PICK e : e = EndOf(p, i)
  OBVIOUS
<1>2. /\ e \in (i + 1)..(Len(p) + 1)
      /\ e <= Len(p) => p[e].depth <= p[i].depth
      /\ \A k \in (i + 1)..(e - 1) : p[k].depth > p[i].depth
      /\ Len(p) \in Nat
  BY <1>1, EndIs DEF HasDepths
<1>3. ASSUME i < j, j < e PROVE In(p, i, j)
  BY <1>2, <1>3 DEF In
<1>4. ASSUME In(p, i, j) PROVE i < j /\ j < e
  <2>1. i < j /\ \A k \in (i + 1)..j : p[k].depth > p[i].depth
    BY <1>4 DEF In
  <2>2. CASE e <= j
    <3>1. e \in (i + 1)..j /\ e \in 1..Len(p)
      BY <1>2, <2>2
    <3>2. p[e].depth > p[i].depth /\ p[e].depth <= p[i].depth
      BY <1>2, <2>1, <3>1
    <3>3. p[e].depth \in Nat /\ p[i].depth \in Nat
      BY <3>1 DEF HasDepths
    <3> QED BY <3>2, <3>3
  <2> QED BY <1>2, <2>1, <2>2
<1> QED BY <1>1, <1>3, <1>4 DEF Encloses

LEMMA AfterAllIs ==
  ASSUME NEW p, HasDepths(p), NEW i \in 1..Len(p), NEW n \in (i + 1)..(Len(p) + 1),
         \A k \in (i + 1)..(n - 1) : p[k].depth > p[i].depth \/ (p[k].depth = p[i].depth /\ p[k].kind \in Parts),
         n <= Len(p) => p[n].depth < p[i].depth \/ (p[n].depth = p[i].depth /\ p[n].kind \notin Parts)
  PROVE  AfterAll(p, i) = n
<1> DEFINE R(j) == \/ p[j].depth < p[i].depth
                   \/ p[j].depth = p[i].depth /\ p[j].kind \notin Parts
<1>1. Len(p) \in Nat /\ i \in Nat /\ i <= Len(p) /\ \A k \in 1..Len(p) : p[k].depth \in Nat
  BY DEF HasDepths
<1>2. \A k \in (i + 1)..(n - 1) : ~R(k)
  <2> TAKE k \in (i + 1)..(n - 1)
  <2>1. p[k].depth \in Nat /\ p[i].depth \in Nat
    BY <1>1
  <2> QED BY <2>1
<1>3. n \in (i + 1)..(Len(p) + 1) /\ (n <= Len(p) => R(n))
  OBVIOUS
<1>4. PICK a : a = AfterAll(p, i)
  OBVIOUS
<1>5. a \in (i + 1)..(Len(p) + 1) /\ (a <= Len(p) => R(a)) /\ \A k \in (i + 1)..(a - 1) : ~R(k)
  <2> HIDE DEF R
  <2>1. \E j \in (i + 1)..(Len(p) + 1) : /\ j <= Len(p) => R(j)
                                         /\ \A k \in (i + 1)..(j - 1) : ~R(k)
    BY <1>2, <1>3
  <2> QED BY <2>1, <1>4, Zenon DEF AfterAll, FirstAfter, R
<1> HIDE DEF R
<1>6. CASE a < n
  <2>1. a \in (i + 1)..(n - 1) /\ a <= Len(p)
    BY <1>1, <1>5, <1>6
  <2> QED BY <1>2, <1>5, <2>1
<1>7. CASE n < a
  <2>1. n \in (i + 1)..(a - 1) /\ n <= Len(p)
    BY <1>1, <1>5, <1>7
  <2> QED BY <1>3, <1>5, <2>1
<1>8. CASE a = n
  BY <1>4, <1>8
<1> QED BY <1>1, <1>5, <1>6, <1>7, <1>8

\* A line that is not on the top level is in the body of a line one less deep.
LEMMA HasParent ==
  ASSUME NEW p, IsTree(p), NEW i \in 1..Len(p), p[i].depth # 0
  PROVE  \E j \in 1..Len(p) : In(p, j, i) /\ p[j].depth + 1 = p[i].depth
<1>1. Len(p) \in Nat /\ \A k \in 1..Len(p) : p[k].depth \in Nat
  BY DEF IsTree, HasDepths
<1> DEFINE S == {j \in 1..i : p[j].depth < p[i].depth}
<1>2. 1 \in S /\ i \in Nat
  BY <1>1 DEF IsTree
<1>3. PICK j \in S : \A k \in S : k <= j
  <2>1. S \in SUBSET (1..i) /\ S # {}
    BY <1>2
  <2> HIDE DEF S
  <2> QED BY <1>2, <2>1, LargestElement
<1>4. j \in 1..i /\ j # i /\ p[j].depth < p[i].depth
  BY <1>1
<1>5. \A k \in (j + 1)..i : p[k].depth >= p[i].depth
  <2> TAKE k \in (j + 1)..i
  <2>1. k \notin S
    BY <1>3, <1>4
  <2>2. k \in 1..i /\ k \in 1..Len(p)
    BY <1>4
  <2> QED BY <1>1, <2>1, <2>2
<1>6. j + 1 \in (j + 1)..i /\ j + 1 \in 1..Len(p) /\ j + 1 # 1 /\ j \in 1..Len(p) /\ (j + 1) - 1 = j
  BY <1>1, <1>4
<1>7. p[j + 1].depth <= p[j].depth + 1
  <2>1. PICK i1 : i1 = j + 1
    OBVIOUS
  <2>2. p[i1].depth <= IF p[i1 - 1].kind \in Heads THEN p[i1 - 1].depth + 1 ELSE p[i1 - 1].depth
    <3>1. i1 \in 1..Len(p) /\ i1 # 1
      BY <1>6, <2>1
    <3> QED BY <3>1 DEF IsTree
  <2>3. i1 - 1 = j /\ p[j].depth \in Nat /\ p[i1].depth \in Nat
    BY <1>1, <1>6, <2>1
  <2> QED BY <2>1, <2>2, <2>3
<1>8. p[j + 1].depth >= p[i].depth
  BY <1>5, <1>6
<1>9. p[j].depth + 1 = p[i].depth
  BY <1>1, <1>4, <1>6, <1>7, <1>8
<1>10. In(p, j, i)
  <2>1. \A k \in (j + 1)..i : p[k].depth > p[j].depth
    <3> TAKE k \in (j + 1)..i
    <3>1. k \in 1..Len(p)
      BY <1>4
    <3> QED BY <1>1, <1>4, <1>5, <1>6, <3>1
  <2> QED BY <1>4, <2>1 DEF In
<1> QED BY <1>6, <1>9, <1>10

LEMMA FitsBuildsTrees ==
  ASSUME NEW p, IsTree(p), NEW line, IsLine(line), Fits(p, line)
  PROVE  IsTree(Append(p, line))
<1> DEFINE q == Append(p, line)
           n == Len(p)
           peers == {j \in 1..Len(p) : /\ p[j].depth = line.depth
                                       /\ \A k \in j..Len(p) : p[k].depth >= line.depth}
           peer == CHOOSE j \in peers : \A k \in peers : k <= j
<1>1. n \in Nat /\ (\A k \in 1..n : p[k].depth \in Nat) /\ line.depth \in Nat
  BY DEF IsTree, HasDepths, IsLine
<1>2. IsSequence(q) /\ Len(q) = n + 1 /\ q[n + 1] = line /\ \A k \in 1..n : q[k] = p[k]
  BY AppendSequence DEF IsTree
<1>3. ASSUME peers # {}
      PROVE  peer \in 1..n /\ p[peer].depth = line.depth /\ \A k \in (peer + 1)..n : p[k].depth > line.depth
  <2>1. \E m \in peers : \A k \in peers : k <= m
    <3>1. peers \in SUBSET (1..n)
      OBVIOUS
    <3> HIDE DEF peers
    <3> QED BY <1>1, <1>3, <3>1, LargestElement
  <2>2. peer \in peers /\ \A k \in peers : k <= peer
    <3> HIDE DEF peers
    <3> QED BY <2>1, Zenon
  <2> HIDE DEF peer
  <2>3. ASSUME NEW k \in (peer + 1)..n PROVE p[k].depth > line.depth
    <3>1. p[k].depth >= line.depth /\ \A l \in k..n : p[l].depth >= line.depth
      BY <1>1, <2>2
    <3>2. k \in 1..n /\ ~(k <= peer)
      BY <1>1, <2>2
    <3>3. p[k].depth # line.depth
      BY <2>2, <3>1, <3>2
    <3> QED BY <1>1, <3>1, <3>2, <3>3
  <2> QED BY <2>2, <2>3
<1>4. /\ line.depth <= IF p = <<>> THEN 0
                       ELSE IF p[n].kind \in Heads THEN p[n].depth + 1 ELSE p[n].depth
      /\ line.kind \in IfParts => peers # {} /\ p[peer].kind \in {"if", "elif"}
      /\ line.kind \in Cases => peers # {} /\ p[peer].kind \in {"match"} \cup Cases
  BY Zenon DEF Fits
<1> HIDE DEF peers, peer, q
<1>5. HasDepths(q)
  BY <1>1, <1>2 DEF HasDepths
<1>6. ASSUME NEW i \in 1..(n + 1)
      PROVE  /\ i = 1 => q[i].depth = 0
             /\ i # 1 => q[i].depth <= IF q[i - 1].kind \in Heads THEN q[i - 1].depth + 1 ELSE q[i - 1].depth
             /\ q[i].kind \in IfParts => \E j \in 1..(i - 1) : Peer(q, j, i) /\ q[j].kind \in {"if", "elif"}
             /\ q[i].kind \in Cases => \E j \in 1..(i - 1) : Peer(q, j, i) /\ q[j].kind \in {"match"} \cup Cases
  <2>1. CASE i = n + 1
    <3>1. n = 0 <=> p = <<>>
      BY SequenceLength DEF IsTree
    <3>2. i = 1 => q[i].depth = 0
      BY <1>1, <1>2, <1>4, <2>1, <3>1
    <3>3. i # 1 => q[i].depth <= IF q[i - 1].kind \in Heads THEN q[i - 1].depth + 1 ELSE q[i - 1].depth
      <4>1. i # 1 => i - 1 = n /\ n \in 1..n /\ p # <<>>
        BY <1>1, <2>1, <3>1
      <4> QED BY <1>2, <1>4, <2>1, <4>1
    <3>4. peers # {} => peer \in 1..(i - 1) /\ Peer(q, peer, i) /\ q[peer] = p[peer]
      <4> SUFFICES ASSUME peers # {} PROVE peer \in 1..(i - 1) /\ Peer(q, peer, i) /\ q[peer] = p[peer]
        OBVIOUS
      <4>1. i - 1 = n /\ peer \in 1..n
        BY <1>1, <1>3, <2>1
      <4>2. \A k \in (peer + 1)..n : k \in 1..n
        BY <4>1
      <4> QED BY <1>2, <1>3, <2>1, <4>1, <4>2 DEF Peer
    <3> QED BY <1>2, <1>4, <2>1, <3>2, <3>3, <3>4
  <2>2. CASE i \in 1..n
    <3>1. q[i] = p[i] /\ (i # 1 => q[i - 1] = p[i - 1])
      BY <1>1, <1>2, <2>2
    <3>2. \A j \in 1..(i - 1) : q[j] = p[j] /\ (Peer(p, j, i) => Peer(q, j, i))
      <4> TAKE j \in 1..(i - 1)
      <4>1. \A k \in (j + 1)..(i - 1) : q[k] = p[k]
        BY <1>1, <1>2, <2>2
      <4>2. q[j] = p[j]
        BY <1>1, <1>2, <2>2
      <4> QED BY <3>1, <4>1, <4>2 DEF Peer
    <3> QED BY <2>2, <3>1, <3>2 DEF IsTree
  <2> QED BY <1>1, <2>1, <2>2
<1>7. \A i \in 1..Len(q) : IsLine(q[i])
  <2> TAKE i \in 1..Len(q)
  <2>1. i = n + 1 \/ i \in 1..n
    BY <1>1, <1>2
  <2> QED BY <1>2, <2>1 DEF IsTree
<1>8. IsTree(q)
  BY <1>2, <1>5, <1>6, <1>7 DEF IsTree
<1> QED BY <1>8 DEF q

LEMMA InTransitive ==
  ASSUME NEW p, HasDepths(p), NEW i \in 1..Len(p), NEW j \in 1..Len(p), NEW k \in 1..Len(p),
         In(p, i, j), In(p, j, k)
  PROVE  In(p, i, k)
<1>1. Len(p) \in Nat /\ i < j /\ j < k
  BY DEF HasDepths, In
<1>2. ASSUME NEW l \in (i + 1)..k PROVE p[l].depth > p[i].depth
  <2>1. l \in 1..Len(p) /\ j \in (i + 1)..j
    BY <1>1
  <2>2. p[l].depth \in Nat /\ p[i].depth \in Nat /\ p[j].depth \in Nat
    BY <2>1 DEF HasDepths
  <2>3. p[j].depth > p[i].depth
    BY <2>1 DEF In
  <2>4. l \in (i + 1)..j \/ l \in (j + 1)..k
    BY <1>1
  <2>5. CASE l \in (i + 1)..j
    BY <2>5 DEF In
  <2>6. CASE l \in (j + 1)..k
    <3>1. p[l].depth > p[j].depth
      BY <2>6 DEF In
    <3> QED BY <2>2, <2>3, <3>1
  <2> QED BY <2>4, <2>5, <2>6
<1> QED BY <1>1, <1>2 DEF In

LEMMA InBetween ==
  ASSUME NEW p, NEW i \in Nat, NEW j \in Nat, NEW k \in Nat, In(p, i, k), i < j, j <= k
  PROVE  In(p, i, j)
BY DEF In

LEMMA InDeeper ==
  ASSUME NEW p, NEW i \in Nat, NEW j \in Nat, In(p, i, j)
  PROVE  i < j /\ p[j].depth > p[i].depth
<1>1. i < j /\ j \in (i + 1)..j
  BY DEF In
<1> QED BY <1>1 DEF In

\* Of two lines around a third the later is in the earlier.
LEMMA InNested ==
  ASSUME NEW p, HasDepths(p), NEW i \in 1..Len(p), NEW j \in 1..Len(p), NEW k \in 1..Len(p),
         In(p, i, k), In(p, j, k)
  PROVE  i = j \/ In(p, i, j) \/ In(p, j, i)
<1>1. i \in Nat /\ j \in Nat /\ k \in Nat /\ i < k /\ j < k
  BY InDeeper DEF HasDepths
<1>2. i < j => In(p, i, j)
  BY <1>1, InBetween
<1>3. j < i => In(p, j, i)
  BY <1>1, InBetween
<1> QED BY <1>1, <1>2, <1>3

\* The fn lines around a line are on the top level when they are looked at.
LEMMA FnOfIs ==
  ASSUME NEW p, HasDepths(p), NEW i \in 1..Len(p), p[i].kind # "fn"
  PROVE  \/ FnOf(p, i) = 0 /\ \A j \in 1..Len(p) : In(p, j, i) => p[j].kind # "fn"
         \/ FnOf(p, i) \in 1..Len(p) /\ In(p, FnOf(p, i), i) /\ p[FnOf(p, i)].kind = "fn"
<1> DEFINE around == {j \in 1..i : p[j].kind = "fn" /\ (j = i \/ Encloses(p, j, i))}
<1>1. Len(p) \in Nat /\ i \in Nat
  BY DEF HasDepths
<1>2. \A j \in 1..Len(p) : j \in around <=> p[j].kind = "fn" /\ In(p, j, i)
  <2> TAKE j \in 1..Len(p)
  <2>1. In(p, j, i) => j \in 1..i
    BY <1>1 DEF In
  <2> QED BY <2>1, EnclosesIs
<1>3. around \in SUBSET (1..i) /\ around \subseteq 1..Len(p)
  BY <1>1
<1>4. FnOf(p, i) = IF around = {} THEN 0 ELSE CHOOSE j \in around : \A k \in around : k <= j
  BY DEF FnOf
<1> HIDE DEF around
<1>5. around # {} => \E m \in around : \A k \in around : k <= m
  BY <1>1, <1>3, LargestElement
<1>6. around # {} => FnOf(p, i) \in around
  BY <1>4, <1>5, Zenon
<1> QED BY <1>2, <1>3, <1>4, <1>6

LEMMA LoopOfIs ==
  ASSUME NEW p, HasDepths(p), NEW i \in 1..Len(p)
  PROVE  \/ LoopOf(p, i) = 0 /\ \A j \in 1..Len(p) : In(p, j, i) => p[j].kind \notin Loops
         \/ /\ LoopOf(p, i) \in 1..Len(p) /\ In(p, LoopOf(p, i), i) /\ p[LoopOf(p, i)].kind \in Loops
            /\ \A j \in 1..Len(p) : In(p, j, i) /\ p[j].kind \in Loops => j <= LoopOf(p, i)
<1> DEFINE around == {j \in 1..(i - 1) : Encloses(p, j, i) /\ p[j].kind \in Loops}
<1>1. Len(p) \in Nat /\ i \in Nat /\ i - 1 \in Nat
  BY DEF HasDepths
<1>2. \A j \in 1..Len(p) : j \in around <=> p[j].kind \in Loops /\ In(p, j, i)
  <2> TAKE j \in 1..Len(p)
  <2>1. In(p, j, i) => j \in 1..(i - 1)
    BY <1>1 DEF In
  <2> QED BY <2>1, EnclosesIs
<1>3. around \in SUBSET (1..(i - 1)) /\ around \subseteq 1..Len(p)
  BY <1>1
<1>4. LoopOf(p, i) = IF around = {} THEN 0 ELSE CHOOSE j \in around : \A k \in around : k <= j
  BY DEF LoopOf
<1> HIDE DEF around
<1>5. around # {} => \E m \in around : \A k \in around : k <= m
  BY <1>1, <1>3, LargestElement
<1>6. around # {} => LoopOf(p, i) \in around /\ \A k \in around : k <= LoopOf(p, i)
  BY <1>4, <1>5, Zenon
<1> QED BY <1>2, <1>3, <1>4, <1>6
=============================================================================
