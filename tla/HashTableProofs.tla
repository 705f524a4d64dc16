-------------------------- MODULE HashTableProofs --------------------------
(***************************************************************************)
(* The hash table keeps every item findable, and counts them, for every    *)
(* set of keys, every hash, every smallest capacity and every sequence of  *)
(* calls.  The inductive invariant FrameInv is about one table of the call *)
(* stack and what the call working on it has learnt by probing; the steps  *)
(* of a client and those of a running ht_resize are then the same proof.   *)
(* From it follow that the table implements a map (MapInv) and that, where *)
(* nothing is deleted, no table ever fills up (RoomInv).                   *)
(***************************************************************************)
EXTENDS HashTable, TLAPS, SequenceTheorems, FiniteSetTheorems

\* % stays within its modulus.
LEMMA ModRange ==
  ASSUME NEW x \in Nat, NEW m \in Nat, m > 0
  PROVE  x % m \in 0..(m - 1)
OBVIOUS

\* % does not go up.
LEMMA ModBelow ==
  ASSUME NEW x \in Nat, NEW m \in Nat, m > 0
  PROVE  x % m \in 0..x
<1>1. CASE x < m
  BY <1>1
<1>2. CASE x >= m
  BY <1>2, ModRange
<1> QED BY <1>1, <1>2

\* A call stack that is not deeper has one table, the client's.
LEMMA OneOrMore ==
  ASSUME NEW n \in Nat, n >= 1
  PROVE  n = 1 \/ n > 1
OBVIOUS

\* A table has as many slots as its capacity.
LEMMA SlotsOf ==
  ASSUME NEW m \in Nat
  PROVE  Cardinality(0..(m - 1)) = m
<1>1. 0 \in Int /\ m - 1 \in Int
  OBVIOUS
<1>2. Cardinality(0..(m - 1)) = IF 0 > m - 1 THEN 0 ELSE (m - 1) - 0 + 1
  BY <1>1, FS_Interval
<1> QED BY <1>2

\* ht_get_hash returns an index into the table, also where the u32 wraps.
LEMMA SlotInRange ==
  ASSUME NEW k \in Keys, NEW m \in Nat, m > 0, NEW a \in Nat
  PROVE  Slot(k, m, a) \in 0..(m - 1)
<1>1. HashA[k] % m \in Nat /\ HashB[k] % m \in Nat
  BY HashAssumption, ModRange
<1>2. a * ((HashB[k] % m) + 1) \in Nat
  BY <1>1
<1>3. ((HashA[k] % m) + a * ((HashB[k] % m) + 1)) % Width \in Nat
  BY <1>1, <1>2, WidthAssumption, ModRange
<1> QED BY <1>3, ModRange DEF Slot

\* The capacity of a table is at least its base, and below twice the base.
LEMMA NextPrimeRange ==
  ASSUME NEW x \in Nat, x >= 2
  PROVE  NextPrime(x) \in x..(2 * x - 1)
BY DEF NextPrime

\* What a call of ht_resize does to the stack of calls.
LEMMA PushFrame ==
  ASSUME NEW st, NEW S, st \in Seq(S), NEW t, NEW u, Len(st) >= 1
  PROVE  LET st2 == Append([st EXCEPT ![Len(st)] = t], u) IN
         /\ Len(st2) = Len(st) + 1
         /\ \A i \in 1..Len(st2) : st2[i] = IF i = Len(st2) THEN u ELSE IF i = Len(st) THEN t ELSE st[i]
         /\ st2 \in Seq(S \cup {t, u})
OBVIOUS

\* What a step of the running call does to the stack of calls.
LEMMA SetFrame ==
  ASSUME NEW st, NEW S, st \in Seq(S), NEW t, NEW n \in 1..Len(st)
  PROVE  LET st2 == [st EXCEPT ![n] = t] IN
         /\ Len(st2) = Len(st)
         /\ \A i \in 1..Len(st2) : st2[i] = IF i = n THEN t ELSE st[i]
         /\ st2 \in Seq(S \cup {t})
OBVIOUS

LEMMA SetBelow ==
  ASSUME NEW st, st \in Seq({st[i] : i \in 1..Len(st)}), Len(st) - 1 \in 1..Len(st), NEW t
  PROVE  LET st2 == [st EXCEPT ![Len(st) - 1] = t] IN
         /\ Len(st2) = Len(st)
         /\ \A i \in 1..Len(st2) : st2[i] = IF i = Len(st) - 1 THEN t ELSE st[i]
         /\ st2 \in Seq({st[i] : i \in 1..Len(st)} \cup {t})
         /\ Len(st) \in Nat
<1>1. PICK S : S = {st[i] : i \in 1..Len(st)}
  OBVIOUS
<1>2. PICK n \in 1..Len(st) : n = Len(st) - 1
  OBVIOUS
<1>3. st \in Seq(S)
  BY ONLY <1>1, st \in Seq({st[i] : i \in 1..Len(st)})
<1>4. LET st2 == [st EXCEPT ![n] = t] IN
      /\ Len(st2) = Len(st)
      /\ \A i \in 1..Len(st2) : st2[i] = IF i = n THEN t ELSE st[i]
      /\ st2 \in Seq(S \cup {t})
  BY ONLY <1>3, SetFrame
<1>5. Len(st) \in Nat
  BY ONLY <1>3
<1> QED BY ONLY <1>1, <1>2, <1>4, <1>5

\* What the return of ht_resize does to the stack of calls.
LEMMA PopFrame ==
  ASSUME NEW st, NEW S, st \in Seq(S), NEW t, Len(st) >= 2
  PROVE  LET st2 == [SubSeq(st, 1, Len(st)-1) EXCEPT ![Len(st)-1] = t] IN
         /\ Len(st2) = Len(st) - 1
         /\ \A i \in 1..Len(st2) : st2[i] = IF i = Len(st2) THEN t ELSE st[i]
         /\ st2 \in Seq(S \cup {t})
<1> DEFINE front == SubSeq(st, 1, Len(st) - 1)
<1>1. /\ front \in Seq(S)
      /\ Len(front) = Len(st) - 1
      /\ \A i \in 1..Len(front) : front[i] = st[i]
  BY SubSeqProperties
<1>2. Len(st) - 1 \in 1..Len(front)
  BY <1>1
<1> HIDE DEF front
<1>3. LET st2 == [front EXCEPT ![Len(st) - 1] = t] IN
      /\ Len(st2) = Len(front)
      /\ \A i \in 1..Len(st2) : st2[i] = IF i = Len(st) - 1 THEN t ELSE front[i]
      /\ st2 \in Seq(S \cup {t})
  BY <1>1, <1>2, SetFrame
<1>4. LET st2 == [front EXCEPT ![Len(st) - 1] = t] IN
      /\ Len(st2) = Len(st) - 1
      /\ \A i \in 1..Len(st2) : st2[i] = IF i = Len(st2) THEN t ELSE st[i]
      /\ st2 \in Seq(S \cup {t})
  BY <1>1, <1>3
<1> QED BY <1>4 DEF front

\* A sequence is one over its own elements.
LEMMA SeqOfElements ==
  ASSUME NEW st, NEW S, st \in Seq(S)
  PROVE  st \in Seq({st[i] : i \in 1..Len(st)})
OBVIOUS

----------------------------------------------------------------------------
(* The inductive invariant, frame by frame.                                *)

Waiting == {"grow", "retry", "shrink"}

\* While ht_insert probes, the slots it has left behind are taken, by other
\* keys or by deleted items: that is what makes the slot it takes reachable.
Probed(t) ==
  t.job.pc = "probe" =>
    \A b \in 0..(t.job.attempt - 1) :
      LET x == t.items[Slot(t.job.key, t.capacity, b)] IN
      x # NULL /\ ~Holds(x, t.job.key)

FrameInv(t) ==
  /\ TableOK(t)
  /\ \A s \in Live(t) : Reachable(t, s)
  /\ t.count = Cardinality(Live(t))
  /\ Probed(t)

StackOK(st) ==
  /\ st \in Seq({st[i] : i \in 1..Len(st)})
  /\ Len(st) >= 1
  /\ \A i \in 1..Len(st) :
       /\ FrameInv(st[i])
       /\ st[i].job.pc \in Waiting <=> i < Len(st)

StackInv == StackOK(stack)

\* A table has finitely many items, so that they can be counted.
LEMMA LiveFinite ==
  ASSUME NEW t, TableOK(t)
  PROVE  IsFiniteSet(Live(t)) /\ Cardinality(Live(t)) \in Nat
<1>1. Live(t) \subseteq 0..(t.capacity - 1) /\ t.capacity \in Nat
  BY DEF TableOK, Live
<1>2. IsFiniteSet(0..(t.capacity - 1))
  BY <1>1, FS_Interval
<1> QED BY <1>1, <1>2, FS_Subset, FS_CardinalityType

\* A step that only moves the locals of the call keeps the invariant of its table.
LEMMA JobChange ==
  ASSUME NEW t, FrameInv(t), NEW j \in Jobs, NEW c \in 0..t.capacity,
         j.pc \in {"insert", "probe", "grow", "retry"} => j.key \in Keys /\ j.value \in Values,
         j.pc \in {"search", "delete"} => j.key \in Keys,
         Probed([t EXCEPT !.job = j, !.cursor = c])
  PROVE  FrameInv([t EXCEPT !.job = j, !.cursor = c])
<1> DEFINE u == [t EXCEPT !.job = j, !.cursor = c]
<1>0. t \in [base : Nat, capacity : Nat, count : Nat, items : {t.items},
             cursor : 0..t.capacity, job : Jobs]
  BY DEF FrameInv, TableOK
<1>1. /\ u.items = t.items /\ u.capacity = t.capacity /\ u.base = t.base
      /\ u.count = t.count /\ u.job = j /\ u.cursor = c
      /\ u \in [base : Nat, capacity : Nat, count : Nat, items : {t.items},
                cursor : 0..t.capacity, job : Jobs]
  BY <1>0
<1> HIDE DEF u
<1>2. TableOK(u)
  BY <1>1 DEF FrameInv, TableOK
<1>3. \A s \in Live(u) : Reachable(u, s)
  BY <1>1 DEF FrameInv, Live, Reachable
<1>4. u.count = Cardinality(Live(u))
  BY <1>1 DEF FrameInv, Live
<1> QED BY <1>2, <1>3, <1>4 DEF FrameInv, u

\* Between calls nothing has been probed.
LEMMA IdleFrame ==
  ASSUME NEW t, FrameInv(t)
  PROVE  FrameInv([t EXCEPT !.job = Idle]) /\ [t EXCEPT !.job = Idle].job = Idle
<1> DEFINE u == [t EXCEPT !.job = Idle, !.cursor = t.cursor]
<1>1. t \in [base : Nat, capacity : Nat, count : Nat, items : {t.items},
             cursor : 0..t.capacity, job : Jobs]
  BY DEF FrameInv, TableOK
<1>2. [t EXCEPT !.job = Idle] = u /\ u.job = Idle /\ t.cursor \in 0..t.capacity
  BY <1>1
<1>3. Idle \in Jobs /\ Idle.pc = "idle"
  BY DEF Idle, Jobs
<1> HIDE DEF u
<1>4. Probed(u)
  BY <1>2, <1>3 DEF Probed
<1>5. FrameInv(u)
  BY <1>2, <1>3, <1>4, JobChange DEF u
<1> QED BY <1>2, <1>5

\* ht_new_sized returns an empty table, which has the invariant.
LEMMA NewFrame ==
  ASSUME NEW b \in Nat, b >= MinBase
  PROVE  FrameInv(ht_new_sized(b)) /\ ht_new_sized(b).job = Idle
<1> DEFINE u == ht_new_sized(b)
<1>1. NextPrime(b) \in Nat /\ NextPrime(b) >= b
  BY MinBaseAssumption, NextPrimeRange
<1>2. /\ u.base = b /\ u.capacity = NextPrime(b) /\ u.count = 0 /\ u.cursor = 0
      /\ u.items = [s \in 0..(NextPrime(b) - 1) |-> NULL] /\ u.job = Idle
  BY DEF ht_new_sized
<1> HIDE DEF u
<1>3. TableOK(u)
  BY <1>1, MinBaseAssumption DEF TableOK, Idle, Jobs, ht_new_sized, u
<1>4. Live(u) = {}
  BY <1>2 DEF Live
<1>5. Probed(u)
  BY <1>2 DEF Probed, Idle
<1>6. u.count = Cardinality(Live(u))
  BY <1>2, <1>4, FS_EmptySet
<1> QED BY <1>2, <1>3, <1>4, <1>5, <1>6 DEF FrameInv, u

\* An item put where the probe sequence of its key first meets an empty slot,
\* or the key itself, leaves every item reachable.
LEMMA PutKeepsReachable ==
  ASSUME NEW t, FrameInv(t), NEW u, TableOK(u), u.capacity = t.capacity,
         NEW item \in Item, NEW a \in 0..(t.capacity - 1),
         NEW s, s = Slot(item.key, t.capacity, a),
         u.items = [t.items EXCEPT ![s] = item],
         t.items[s] = NULL \/ Holds(t.items[s], item.key),
         \A b \in 0..(a - 1) :
           LET x == t.items[Slot(item.key, t.capacity, b)] IN
           x # NULL /\ ~Holds(x, item.key)
  PROVE  \A r \in Live(u) : Reachable(u, r)
<1>1. /\ t.capacity \in Nat /\ t.capacity > 0
      /\ t.items \in [0..(t.capacity - 1) -> Item \cup {NULL, TOMBSTONE}]
  BY MinBaseAssumption DEF FrameInv, TableOK
<1>2. item.key \in Keys /\ item \notin {NULL, TOMBSTONE}
  BY SlotAssumption DEF Item
<1>3. s \in 0..(t.capacity - 1)
  BY <1>1, <1>2, SlotInRange
<1>4. SUFFICES ASSUME NEW r \in Live(u) PROVE Reachable(u, r)
  OBVIOUS
<1>5. CASE r = s
  <2>1. u.items[r] = item
    BY <1>1, <1>3, <1>5
  <2>2. ASSUME NEW b \in 0..(a - 1)
        PROVE  LET x == u.items[Slot(item.key, u.capacity, b)] IN
               x # NULL /\ ~Holds(x, item.key)
    <3>1. Slot(item.key, t.capacity, b) \in 0..(t.capacity - 1)
      <4>1. b \in Nat
        OBVIOUS
      <4> QED BY ONLY <1>1, <1>2, <4>1, SlotInRange
    <3>2. Slot(item.key, t.capacity, b) # s
      OBVIOUS
    <3> QED BY <1>1, <3>1, <3>2
  <2> QED BY <1>5, <2>1, <2>2 DEF Reachable
<1>6. CASE r # s
  <2>1. r \in Live(t) /\ u.items[r] = t.items[r]
    BY <1>1, <1>6 DEF Live
  <2> DEFINE k == t.items[r].key
  <2>2. k \in Keys
    BY <1>1, <2>1 DEF Live, Item
  <2>3. PICK c \in 0..(t.capacity - 1) :
          /\ Slot(k, t.capacity, c) = r
          /\ \A b \in 0..(c - 1) :
               t.items[Slot(k, t.capacity, b)] # NULL /\ ~Holds(t.items[Slot(k, t.capacity, b)], k)
    BY <2>1 DEF FrameInv, Reachable
  <2>4. ASSUME NEW b \in 0..(c - 1)
        PROVE  u.items[Slot(k, t.capacity, b)] # NULL /\ ~Holds(u.items[Slot(k, t.capacity, b)], k)
    <3> DEFINE z == Slot(k, t.capacity, b)
    <3>1. z \in 0..(t.capacity - 1)
      <4>1. b \in Nat
        OBVIOUS
      <4> QED BY <1>1, <2>2, <4>1, SlotInRange
    <3>2. CASE z # s
      BY <1>1, <2>3, <3>1, <3>2
    <3>3. CASE z = s
      <4>1. t.items[s] # NULL /\ ~Holds(t.items[s], k)
        BY <2>3, <3>3
      <4>2. item.key # k
        BY <4>1 DEF Holds
      <4>3. u.items[z] = item
        BY <1>1, <1>3, <3>3
      <4> QED BY <1>2, <4>2, <4>3 DEF Holds
    <3> QED BY <3>2, <3>3
  <2> HIDE DEF k
  <2>5. u.items[r].key = k
    BY <2>1 DEF k
  <2> QED BY <2>3, <2>4, <2>5 DEF Reachable
<1> QED BY <1>5, <1>6

\* A deleted item still takes its slot, so every other item stays reachable.
LEMMA DeleteKeepsReachable ==
  ASSUME NEW t, FrameInv(t), NEW u, TableOK(u), u.capacity = t.capacity,
         NEW s \in 0..(t.capacity - 1), u.items = [t.items EXCEPT ![s] = TOMBSTONE]
  PROVE  \A r \in Live(u) : Reachable(u, r)
<1>1. /\ t.capacity \in Nat /\ t.capacity > 0
      /\ t.items \in [0..(t.capacity - 1) -> Item \cup {NULL, TOMBSTONE}]
  BY MinBaseAssumption DEF FrameInv, TableOK
<1>2. SUFFICES ASSUME NEW r \in Live(u) PROVE Reachable(u, r)
  OBVIOUS
<1>3. r \in Live(t) /\ r # s /\ u.items[r] = t.items[r]
  BY <1>1 DEF Live
<1> DEFINE k == t.items[r].key
<1>4. k \in Keys
  BY <1>1, <1>3 DEF Live, Item
<1>5. PICK c \in 0..(t.capacity - 1) :
        /\ Slot(k, t.capacity, c) = r
        /\ \A b \in 0..(c - 1) :
             t.items[Slot(k, t.capacity, b)] # NULL /\ ~Holds(t.items[Slot(k, t.capacity, b)], k)
  BY <1>3 DEF FrameInv, Reachable
<1>6. ASSUME NEW b \in 0..(c - 1)
      PROVE  u.items[Slot(k, t.capacity, b)] # NULL /\ ~Holds(u.items[Slot(k, t.capacity, b)], k)
  <2>1. Slot(k, t.capacity, b) \in 0..(t.capacity - 1)
    <3>1. b \in Nat
      OBVIOUS
    <3> HIDE DEF k
    <3> QED BY ONLY <1>1, <1>4, <3>1, SlotInRange
  <2> DEFINE p == Slot(k, t.capacity, b)
  <2>2. t.items[p] # NULL /\ ~Holds(t.items[p], k)
    BY <1>5
  <2> HIDE DEF p, k
  <2>3. p = s \/ u.items[p] = t.items[p]
    BY <1>1, <2>1
  <2>4. p = s => u.items[p] = TOMBSTONE
    BY <1>1, <2>1
  <2>5. TOMBSTONE # NULL /\ ~Holds(TOMBSTONE, k)
    BY SlotAssumption DEF Holds
  <2>6. u.items[p] # NULL /\ ~Holds(u.items[p], k)
    BY ONLY <2>2, <2>3, <2>4, <2>5
  <2> QED BY ONLY <2>6 DEF p
<1> HIDE DEF k
<1>7. u.items[r].key = k
  BY <1>3 DEF k
<1> QED BY <1>5, <1>6, <1>7 DEF Reachable

----------------------------------------------------------------------------
(* The three ways a step changes the call stack keep StackInv.             *)

\* The running call replaces its own table.
LEMMA SetTopInv ==
  ASSUME NEW st, StackOK(st), NEW t, FrameInv(t), t.job.pc \notin Waiting
  PROVE  StackOK([st EXCEPT ![Len(st)] = t])
<1> DEFINE st2 == [st EXCEPT ![Len(st)] = t]
<1>1. /\ Len(st2) = Len(st)
      /\ \A i \in 1..Len(st2) : st2[i] = IF i = Len(st) THEN t ELSE st[i]
      /\ st2 \in Seq({st[i] : i \in 1..Len(st)} \cup {t})
  BY SetFrame DEF StackOK
<1> HIDE DEF st2
<1>2. st2 \in Seq({st2[i] : i \in 1..Len(st2)})
  BY <1>1, SeqOfElements
<1>3. Len(st) \in Nat
  BY DEF StackOK
<1>4. ASSUME NEW i \in 1..Len(st2)
      PROVE  FrameInv(st2[i]) /\ (st2[i].job.pc \in Waiting <=> i < Len(st2))
  BY <1>1, <1>3 DEF StackOK
<1>5. Len(st2) >= 1
  BY <1>1, <1>3 DEF StackOK
<1>6. StackOK(st2)
  BY <1>2, <1>4, <1>5 DEF StackOK
<1> QED BY <1>6 DEF st2

\* The running call starts to wait in ht_resize for a new table.
LEMMA PushInv ==
  ASSUME NEW st, StackOK(st), NEW t, FrameInv(t), t.job.pc \in Waiting,
         NEW u, FrameInv(u), u.job.pc \notin Waiting
  PROVE  StackOK(Append([st EXCEPT ![Len(st)] = t], u))
<1> DEFINE st2 == Append([st EXCEPT ![Len(st)] = t], u)
<1>1. /\ Len(st2) = Len(st) + 1
      /\ \A i \in 1..Len(st2) :
           st2[i] = IF i = Len(st2) THEN u ELSE IF i = Len(st) THEN t ELSE st[i]
      /\ st2 \in Seq({st[i] : i \in 1..Len(st)} \cup {t, u})
  BY PushFrame DEF StackOK
<1> HIDE DEF st2
<1>2. st2 \in Seq({st2[i] : i \in 1..Len(st2)})
  BY <1>1, SeqOfElements
<1>3. Len(st) \in Nat
  BY DEF StackOK
<1>4. ASSUME NEW i \in 1..Len(st2)
      PROVE  FrameInv(st2[i]) /\ (st2[i].job.pc \in Waiting <=> i < Len(st2))
  BY <1>1, <1>3 DEF StackOK
<1>5. Len(st2) >= 1
  BY <1>1, <1>3 DEF StackOK
<1>6. StackOK(st2)
  BY <1>2, <1>4, <1>5 DEF StackOK
<1> QED BY <1>6 DEF st2

\* ht_resize returns: the table it has filled replaces the one below.
LEMMA PopInv ==
  ASSUME NEW st, StackOK(st), Len(st) >= 2, NEW t, FrameInv(t), t.job.pc \notin Waiting
  PROVE  StackOK([SubSeq(st, 1, Len(st) - 1) EXCEPT ![Len(st) - 1] = t])
<1> DEFINE st2 == [SubSeq(st, 1, Len(st) - 1) EXCEPT ![Len(st) - 1] = t]
<1>1. /\ Len(st2) = Len(st) - 1
      /\ \A i \in 1..Len(st2) : st2[i] = IF i = Len(st2) THEN t ELSE st[i]
      /\ st2 \in Seq({st[i] : i \in 1..Len(st)} \cup {t})
  BY PopFrame DEF StackOK
<1> HIDE DEF st2
<1>2. st2 \in Seq({st2[i] : i \in 1..Len(st2)})
  BY <1>1, SeqOfElements
<1>3. Len(st) \in Nat
  BY DEF StackOK
<1>4. ASSUME NEW i \in 1..Len(st2)
      PROVE  FrameInv(st2[i]) /\ (st2[i].job.pc \in Waiting <=> i < Len(st2))
  BY <1>1, <1>3 DEF StackOK
<1>5. Len(st2) >= 1
  BY <1>1, <1>3 DEF StackOK
<1>6. StackOK(st2)
  BY <1>2, <1>4, <1>5 DEF StackOK
<1> QED BY <1>6 DEF st2

\* The copying loop moves on, and its insertion starts.
LEMMA CopyInv ==
  ASSUME NEW st, StackOK(st), Len(st) >= 2,
         NEW t, FrameInv(t), t.job.pc \in Waiting,
         NEW u, FrameInv(u), u.job.pc \notin Waiting
  PROVE  StackOK([st EXCEPT ![Len(st) - 1] = t, ![Len(st)] = u])
<1> DEFINE st1 == [st EXCEPT ![Len(st) - 1] = t]
           st2 == [st1 EXCEPT ![Len(st)] = u]
<1>1. /\ Len(st1) = Len(st)
      /\ \A i \in 1..Len(st1) : st1[i] = IF i = Len(st) - 1 THEN t ELSE st[i]
      /\ st1 \in Seq({st[i] : i \in 1..Len(st)} \cup {t})
  <2>1. st \in Seq({st[i] : i \in 1..Len(st)}) /\ Len(st) \in Nat /\ Len(st) - 1 \in 1..Len(st)
    BY DEF StackOK
  <2> QED BY ONLY <2>1, SetBelow
<1> HIDE DEF st1
<1>2. /\ Len(st2) = Len(st)
      /\ \A i \in 1..Len(st2) :
           st2[i] = IF i = Len(st) THEN u ELSE IF i = Len(st) - 1 THEN t ELSE st[i]
      /\ st2 \in Seq({st[i] : i \in 1..Len(st)} \cup {t} \cup {u})
  BY <1>1, SetFrame DEF StackOK
<1> HIDE DEF st2
<1>3. st2 \in Seq({st2[i] : i \in 1..Len(st2)})
  BY <1>2, SeqOfElements
<1>4. Len(st) \in Nat
  BY DEF StackOK
<1>5. ASSUME NEW i \in 1..Len(st2)
      PROVE  FrameInv(st2[i]) /\ (st2[i].job.pc \in Waiting <=> i < Len(st2))
  <2>1. CASE i = Len(st)
    BY <1>2, <1>4, <2>1
  <2>2. CASE i = Len(st) - 1
    BY <1>2, <1>4, <2>2
  <2>3. CASE i < Len(st) - 1
    <3>1. i \in 1..Len(st) /\ st2[i] = st[i] /\ i < Len(st)
      BY <1>2, <1>4, <2>3
    <3>2. FrameInv(st[i]) /\ (st[i].job.pc \in Waiting <=> i < Len(st))
      BY <3>1 DEF StackOK
    <3> QED BY <1>2, <3>1, <3>2
  <2> QED BY <1>2, <1>4, <2>1, <2>2, <2>3
<1>6. StackOK(st2)
  BY <1>2, <1>3, <1>5 DEF StackOK
<1> QED BY <1>6 DEF st1, st2

\* The running call has the invariant, and does not wait.
LEMMA TopInv ==
  ASSUME StackInv
  PROVE  /\ Len(stack) \in 1..Len(stack)
         /\ FrameInv(Top)
         /\ Top.job.pc \notin Waiting
BY DEF StackInv, StackOK, Top

\* ht_resize begins, from whichever of its three callers.
LEMMA StartResizeInv ==
  ASSUME StackInv, NEW t, FrameInv(t), t.job.key \in Keys,
         NEW b \in Nat, b >= MinBase, NEW pc \in Waiting,
         pc # "shrink" => t.job.value \in Values,
         StartResize(t, b, pc)
  PROVE  StackInv'
<1> DEFINE j == [t.job EXCEPT !.pc = pc]
           u == [t EXCEPT !.job = j, !.cursor = 0]
<1>1. t.job \in Jobs /\ t.capacity \in Nat /\ t.cursor \in 0..t.capacity
  BY DEF FrameInv, TableOK
<1>2. j \in Jobs /\ j.pc = pc /\ j.key = t.job.key /\ j.value = t.job.value
  BY <1>1 DEF Jobs, Waiting
<1>3. t \in [base : Nat, capacity : Nat, count : Nat, items : {t.items},
             cursor : 0..t.capacity, job : Jobs]
  BY DEF FrameInv, TableOK
<1>4. [t EXCEPT !.job.pc = pc, !.cursor = 0] = u /\ u.job = j
  BY <1>3
<1> HIDE DEF j
<1>5. Probed(u)
  BY <1>2, <1>4 DEF Probed, Waiting
<1>6. FrameInv(u)
  <2>1. 0 \in 0..t.capacity
    BY <1>1
  <2>2. /\ j.pc \in {"insert", "probe", "grow", "retry"} => j.key \in Keys /\ j.value \in Values
        /\ j.pc \in {"search", "delete"} => j.key \in Keys
    BY <1>2 DEF Waiting
  <2> QED BY <1>2, <1>5, <2>1, <2>2, JobChange
<1>7. FrameInv(ht_new_sized(b)) /\ ht_new_sized(b).job.pc \notin Waiting
  BY NewFrame DEF Idle, Waiting
<1>8. StackOK(Append([stack EXCEPT ![Len(stack)] = u], ht_new_sized(b)))
  BY <1>2, <1>4, <1>6, <1>7, PushInv DEF StackInv
<1> QED BY <1>4, <1>8 DEF StartResize, StackInv

\* A step that only replaces the topmost job by one that does not wait.
LEMMA NewJobInv ==
  ASSUME StackInv, NEW j \in Jobs, j.pc \notin Waiting,
         j.pc \in {"insert", "probe"} => j.key \in Keys /\ j.value \in Values,
         j.pc \in {"search", "delete"} => j.key \in Keys,
         j.pc = "probe" => Probed([Top EXCEPT !.job = j]),
         SetTop([Top EXCEPT !.job = j])
  PROVE  StackInv'
<1> DEFINE u == [Top EXCEPT !.job = j]
<1>1. FrameInv(Top)
  BY TopInv
<1>2. Top \in [base : Nat, capacity : Nat, count : Nat, items : {Top.items},
               cursor : 0..Top.capacity, job : Jobs]
  BY <1>1 DEF FrameInv, TableOK
<1>3. u = [Top EXCEPT !.job = j, !.cursor = Top.cursor] /\ u.job = j
      /\ Top.cursor \in 0..Top.capacity
  BY <1>2
<1>4. Probed([Top EXCEPT !.job = j, !.cursor = Top.cursor])
  BY <1>3 DEF Probed
<1>5. FrameInv([Top EXCEPT !.job = j, !.cursor = Top.cursor])
  BY <1>1, <1>3, <1>4, JobChange DEF Waiting
<1>6. StackOK([stack EXCEPT ![Len(stack)] = u])
  BY <1>3, <1>5, SetTopInv DEF StackInv
<1> QED BY <1>6 DEF SetTop, StackInv

\* The table of a fresh ht_create has the invariant.
LEMMA InitInv == Init => StackInv
<1> SUFFICES ASSUME Init PROVE StackInv
  OBVIOUS
<1>1. FrameInv(ht_new_sized(MinBase)) /\ ht_new_sized(MinBase).job.pc \notin Waiting
  BY NewFrame, MinBaseAssumption DEF Idle, Waiting
<1>2. stack = <<ht_new_sized(MinBase)>>
  BY DEF Init
<1> QED BY <1>1, <1>2 DEF StackInv, StackOK

\* A client makes a call.
LEMMA CallInv ==
  ASSUME StackInv, NEW pc \in {"insert", "search", "delete"}, NEW k \in Keys,
         NEW v \in Values \cup {NULL}, pc = "insert" => v \in Values, Call(pc, k, v)
  PROVE  StackInv'
<1> DEFINE j == [pc |-> pc, key |-> k, value |-> v, attempt |-> 0]
<1>1. j \in Jobs /\ j.pc = pc /\ j.key = k /\ j.value = v
  BY DEF Jobs
<1>2. SetTop([Top EXCEPT !.job = j])
  BY DEF Call
<1> HIDE DEF j
<1> QED BY <1>1, <1>2, NewJobInv DEF Waiting

\* The steps of ht_insert: the load check, the probing, the two ways to store.
LEMMA InsertInv == ASSUME StackInv, Insert PROVE StackInv'
<1> DEFINE t == Top
           k == Top.job.key
           a == Top.job.attempt
<1>1. FrameInv(t) /\ t.job.pc \notin Waiting /\ TableOK(t)
  BY TopInv DEF FrameInv
<1>2. /\ t \in [base : Nat, capacity : Nat, count : Nat,
                items : [0..(t.capacity - 1) -> Item \cup {NULL, TOMBSTONE}],
                cursor : 0..t.capacity, job : Jobs]
      /\ t.capacity > 0 /\ t.base >= MinBase /\ a \in Nat
      /\ 2 * t.base \in Nat /\ 2 * t.base >= MinBase
  BY <1>1, MinBaseAssumption DEF TableOK, Jobs
<1>3. Probe("insert") \/ Probe("probe")
  BY DEF Insert, InsertLoadCheck, InsertProbe, InsertOverwrite, InsertPlace, InsertGiveUp
<1>4. k \in Keys /\ t.job.value \in Values
  BY <1>1, <1>3 DEF TableOK, Probe
<1>5. CASE InsertLoadCheck
  <2>1. CASE StartResize(t, 2 * t.base, "grow")
    BY <1>1, <1>2, <1>4, <2>1, StartResizeInv DEF Waiting
  <2>2. CASE SetTop([t EXCEPT !.job.pc = "probe", !.job.attempt = 0])
    <3> DEFINE j == [t.job EXCEPT !.pc = "probe", !.attempt = 0]
    <3>1. j \in Jobs /\ j.pc = "probe" /\ j.attempt = 0 /\ j.key = k /\ j.value = t.job.value
      BY <1>2 DEF Jobs
    <3>2. [t EXCEPT !.job.pc = "probe", !.job.attempt = 0] = [t EXCEPT !.job = j]
      BY <1>2
    <3>3. [t EXCEPT !.job = j].job = j
      BY <1>2
    <3> HIDE DEF j, k, t
    <3>4. Probed([t EXCEPT !.job = j])
      BY <3>1, <3>3 DEF Probed
    <3> QED BY <1>4, <2>2, <3>1, <3>2, <3>4, NewJobInv DEF Waiting, t, k
  <2> QED BY <1>5, <2>1, <2>2 DEF InsertLoadCheck
<1>6. CASE InsertGiveUp
  <2>1. StartResize(t, 2 * t.base, "retry")
    BY <1>2, <1>6 DEF InsertGiveUp
  <2> QED BY <1>1, <1>2, <1>4, <2>1, StartResizeInv DEF Waiting
<1>7. TopSlot \in 0..(t.capacity - 1) /\ Current = t.items[TopSlot]
  BY <1>2, <1>4, SlotInRange DEF TopSlot, Current
<1>8. CASE InsertProbe
  <2> DEFINE j == [t.job EXCEPT !.attempt = a + 1]
  <2>1. /\ j \in Jobs /\ j.pc = "probe" /\ j.attempt = a + 1
        /\ j.key = k /\ j.value = t.job.value
    <3>1. t.job.pc = "probe" /\ t.job \in Jobs /\ a + 1 \in Nat
      BY <1>2, <1>8 DEF InsertProbe, Probe
    <3> QED BY <3>1 DEF Jobs
  <2>2. [t EXCEPT !.job.attempt = @ + 1] = [t EXCEPT !.job = j]
    BY <1>2
  <2>3. LET u == [t EXCEPT !.job = j] IN
        u.job = j /\ u.items = t.items /\ u.capacity = t.capacity
    BY <1>2
  <2>4. Current # NULL /\ ~Holds(Current, k)
    BY <1>8 DEF InsertProbe
  <2>5. \A b \in 0..(a - 1) :
          t.items[Slot(k, t.capacity, b)] # NULL /\ ~Holds(t.items[Slot(k, t.capacity, b)], k)
    BY <1>1, <1>8 DEF FrameInv, Probed, InsertProbe, Probe
  <2>6. \A b \in 0..a :
          t.items[Slot(k, t.capacity, b)] # NULL /\ ~Holds(t.items[Slot(k, t.capacity, b)], k)
    <3> SUFFICES ASSUME NEW b \in 0..a
                 PROVE  t.items[Slot(k, t.capacity, b)] # NULL
                        /\ ~Holds(t.items[Slot(k, t.capacity, b)], k)
      OBVIOUS
    <3>1. CASE b = a
      BY <1>7, <2>4, <3>1 DEF TopSlot
    <3>2. CASE b # a
      <4>1. b \in 0..(a - 1)
        BY <1>2, <3>2
      <4> QED BY <2>5, <4>1
    <3> QED BY <3>1, <3>2
  <2> HIDE DEF j
  <2>7. Probed([t EXCEPT !.job = j])
    BY <1>2, <2>1, <2>3, <2>6 DEF Probed
  <2>8. SetTop([Top EXCEPT !.job = j])
    BY <1>8, <2>2 DEF InsertProbe
  <2> QED BY <1>4, <2>1, <2>7, <2>8, NewJobInv DEF Waiting
<1>9. CASE InsertOverwrite \/ InsertPlace
  <2> DEFINE s == TopSlot
             item == [key |-> k, value |-> t.job.value]
  <2>1. /\ Probe("probe") /\ a \in 0..(t.capacity - 1)
        /\ t.items[s] = NULL \/ Holds(t.items[s], k)
    BY <1>2, <1>7, <1>9 DEF InsertOverwrite, InsertPlace
  <2>2. PICK n \in Nat : /\ SetTop([Put(t, s) EXCEPT !.count = n])
                         /\ n = IF t.items[s] = NULL THEN t.count + 1 ELSE t.count
    <3>1. Put(t, s).count = t.count /\ t.count \in Nat
      BY <1>2 DEF Put
    <3>2. Put(t, s) = [Put(t, s) EXCEPT !.count = t.count]
      BY <1>2 DEF Put
    <3>3. CASE InsertOverwrite
      BY <1>7, <3>1, <3>2, <3>3 DEF InsertOverwrite, Holds
    <3>4. CASE InsertPlace
      <4>1. SetTop([Put(t, s) EXCEPT !.count = t.count + 1]) /\ t.items[s] = NULL
        BY <1>7, <3>1, <3>4 DEF InsertPlace
      <4>2. t.count + 1 \in Nat
        BY <3>1
      <4> QED BY ONLY <4>1, <4>2
    <3> QED BY <1>9, <3>3, <3>4
  <2> DEFINE u == [Put(t, s) EXCEPT !.count = n]
  <2>3. item \in Item /\ item.key = k
    BY <1>4 DEF Item
  <2>4. /\ u.items = [t.items EXCEPT ![s] = item] /\ u.job = Idle
        /\ u.capacity = t.capacity /\ u.base = t.base /\ u.count = n
    BY <1>2 DEF Put
  <2>5. u \in [base : Nat, capacity : Nat, count : Nat, items : {u.items},
               cursor : 0..t.capacity, job : Jobs]
    <3>1. Idle \in Jobs
      BY DEF Idle, Jobs
    <3>2. u = [[[t EXCEPT !.items[s] = item] EXCEPT !.job = Idle] EXCEPT !.count = n]
      BY <1>2 DEF Put
    <3> QED BY ONLY <1>2, <2>2, <3>1, <3>2
  <2> HIDE DEF u, item
  <2>6. u.items \in [0..(t.capacity - 1) -> Item \cup {NULL, TOMBSTONE}]
    <3>1. t.items \in [0..(t.capacity - 1) -> Item \cup {NULL, TOMBSTONE}]
      BY ONLY <1>2
    <3> QED BY ONLY <2>3, <2>4, <3>1
  <2>7. TableOK(u)
    <3>1. u.capacity >= u.base /\ u.base >= MinBase
      BY <1>1, <2>4 DEF TableOK
    <3>2. u \in [base : Nat, capacity : Nat, count : Nat,
                items : [0..(u.capacity - 1) -> Item \cup {NULL, TOMBSTONE}],
                cursor : 0..u.capacity, job : Jobs]
      BY ONLY <2>4, <2>5, <2>6
    <3> QED BY ONLY <2>4, <3>1, <3>2 DEF TableOK, Idle
  <2>8. \A b \in 0..(a - 1) :
          t.items[Slot(k, t.capacity, b)] # NULL /\ ~Holds(t.items[Slot(k, t.capacity, b)], k)
    BY <1>1, <2>1 DEF FrameInv, Probed, Probe
  <2>9. \A r \in Live(u) : Reachable(u, r)
    <3>1. s = Slot(item.key, t.capacity, a)
      BY <2>3 DEF TopSlot
    <3> HIDE DEF item, s, t, a
    <3> QED BY <1>1, <2>1, <2>3, <2>4, <2>7, <2>8, <3>1, PutKeepsReachable
  <2>10. u.count = Cardinality(Live(u))
    <3>1. item \notin {NULL, TOMBSTONE}
      BY <2>3, SlotAssumption
    <3> HIDE DEF item, s
    <3>2. CASE t.items[s] = NULL
      <4>1. Live(u) = Live(t) \cup {s} /\ s \notin Live(t)
        BY <1>2, <1>7, <2>4, <3>1, <3>2 DEF Live, s
      <4> QED BY <1>1, <2>2, <2>4, <3>2, <4>1, LiveFinite, FS_AddElement DEF FrameInv
    <3>3. CASE Holds(t.items[s], k)
      <4>1. Live(u) = Live(t)
        BY <1>2, <1>7, <2>4, <3>1, <3>3 DEF Live, Holds, s
      <4> QED BY <1>1, <2>2, <2>4, <3>3, <4>1 DEF FrameInv, Holds
    <3> QED BY <2>1, <3>2, <3>3
  <2>11. FrameInv(u) /\ u.job.pc \notin Waiting
    BY <2>4, <2>7, <2>9, <2>10 DEF FrameInv, Probed, Idle, Waiting
  <2> QED BY <2>2, <2>11, SetTopInv DEF u, SetTop, StackInv
<1> QED BY <1>5, <1>6, <1>8, <1>9 DEF Insert

\* The steps of ht_search, and the probing of ht_delete.
LEMMA SearchInv == ASSUME StackInv, Search PROVE StackInv'
<1> DEFINE t == Top
<1>1. FrameInv(t) /\ TableOK(t)
  BY TopInv DEF FrameInv
<1>2. t \in [base : Nat, capacity : Nat, count : Nat, items : {t.items},
             cursor : 0..t.capacity, job : Jobs]
  BY <1>1 DEF TableOK
<1>3. CASE SearchReturn
  BY <1>3, NewJobInv DEF SearchReturn, Idle, Jobs, Waiting
<1>4. CASE ProbeOn
  <2> DEFINE j == [t.job EXCEPT !.attempt = (@ + 1) % Width]
  <2>1. (t.job.attempt + 1) % Width \in Nat
    BY <1>2, WidthAssumption, ModRange DEF Jobs
  <2>2. j \in Jobs /\ j.pc = t.job.pc /\ j.key = t.job.key
    BY <1>2, <2>1 DEF Jobs
  <2>3. SetTop([Top EXCEPT !.job = j])
    BY <1>2, <1>4 DEF ProbeOn
  <2>4. t.job.pc \in {"search", "delete"} /\ t.job.key \in Keys
    BY <1>1, <1>4 DEF ProbeOn, Probe, TableOK
  <2> HIDE DEF j
  <2> QED BY <2>2, <2>3, <2>4, NewJobInv DEF Waiting
<1> QED BY <1>3, <1>4 DEF Search

\* A tombstone in the place of an item keeps the invariant of the table.
Buried(t, s, u) ==
  /\ FrameInv(u)
  /\ u.items = [t.items EXCEPT ![s] = TOMBSTONE]
  /\ u.capacity = t.capacity /\ u.base = t.base /\ u.job = t.job

\* What ht_delete leaves behind is such a table.
LEMMA TombstoneFrame ==
  ASSUME NEW t, FrameInv(t), NEW s \in Live(t), t.job.pc = "delete"
  PROVE  Buried(t, s, [t EXCEPT !.items[s] = TOMBSTONE, !.count = @ - 1])
<1> DEFINE u == [t EXCEPT !.items[s] = TOMBSTONE, !.count = @ - 1]
<1>1. TableOK(t)
  BY DEF FrameInv
<1>2. /\ t \in [base : Nat, capacity : Nat, count : Nat,
                items : [0..(t.capacity - 1) -> Item \cup {NULL, TOMBSTONE}],
                cursor : 0..t.capacity, job : Jobs]
      /\ t.capacity > 0 /\ t.base >= MinBase
  BY <1>1, MinBaseAssumption DEF TableOK
<1>3. s \in 0..(t.capacity - 1) /\ t.items[s] \notin {NULL, TOMBSTONE}
  BY <1>2 DEF Live
<1>4. /\ Live(u) = Live(t) \ {s}
      /\ u.items = [t.items EXCEPT ![s] = TOMBSTONE]
      /\ u.capacity = t.capacity /\ u.base = t.base /\ u.job = t.job
      /\ u.cursor = t.cursor /\ u.count = t.count - 1
  BY <1>2, <1>3 DEF Live
<1>5. u.count \in Nat /\ u.count = Cardinality(Live(u))
  <2>1. IsFiniteSet(Live(t)) /\ t.count = Cardinality(Live(t))
    BY <1>1, LiveFinite DEF FrameInv
  <2>2. IsFiniteSet(Live(u)) /\ Cardinality(Live(u)) = t.count - 1
    BY <1>4, <2>1, FS_RemoveElement
  <2>3. Cardinality(Live(u)) \in Nat
    BY ONLY <2>2, FS_CardinalityType
  <2> QED BY ONLY <1>4, <2>2, <2>3
<1>6. u \in [base : Nat, capacity : Nat, count : {u.count}, items : {u.items},
             cursor : 0..t.capacity, job : Jobs]
  BY ONLY <1>2
<1>7. u.items \in [0..(t.capacity - 1) -> Item \cup {NULL, TOMBSTONE}]
  BY <1>2, <1>4
<1> HIDE DEF u
<1>8. TableOK(u)
  <2>1. u \in [base : Nat, capacity : Nat, count : Nat,
               items : [0..(u.capacity - 1) -> Item \cup {NULL, TOMBSTONE}],
               cursor : 0..u.capacity, job : Jobs]
    BY ONLY <1>4, <1>5, <1>6, <1>7
  <2> QED BY <1>1, <1>4, <2>1 DEF TableOK
<1>9. \A r \in Live(u) : Reachable(u, r)
  BY <1>3, <1>4, <1>8, DeleteKeepsReachable
<1>10. FrameInv(u)
  BY <1>4, <1>5, <1>8, <1>9 DEF FrameInv, Probed
<1> QED BY <1>4, <1>10 DEF u, Buried

\* The steps of ht_delete: a tombstone keeps the items behind it reachable.
LEMMA DeleteInv == ASSUME StackInv, Delete PROVE StackInv'
<1> DEFINE t == Top
<1>1. FrameInv(t) /\ TableOK(t)
  BY TopInv DEF FrameInv
<1>2. CASE DeleteMiss
  BY <1>2, NewJobInv DEF DeleteMiss, Idle, Jobs, Waiting
<1>3. CASE DeleteHit
  <2> DEFINE s == TopSlot
             u == [t EXCEPT !.items[s] = TOMBSTONE, !.count = @ - 1]
  <2>1. t.job.pc = "delete" /\ t.job.key \in Keys
    BY <1>1, <1>3 DEF DeleteHit, Probe, TableOK
  <2>2. s \in Live(t)
    <3>1. /\ t.job.attempt \in Nat /\ t.capacity \in Nat /\ t.capacity > 0
          /\ DOMAIN t.items = 0..(t.capacity - 1)
      BY <1>1, MinBaseAssumption DEF TableOK, Jobs
    <3> QED BY <1>3, <2>1, <3>1, SlotInRange DEF DeleteHit, TopSlot, Current, Holds, Live
  <2>3. Buried(t, s, [t EXCEPT !.items[s] = TOMBSTONE, !.count = @ - 1])
    BY <1>1, <2>1, <2>2, TombstoneFrame
  <2>4. FrameInv(u) /\ u.base = t.base /\ u.job = t.job
    BY <2>3 DEF Buried
  <2> HIDE DEF u
  <2>5. CASE StartResize(u, u.base \div 2, "shrink") /\ u.base \div 2 >= MinBase
    <3>1. u.base \div 2 \in Nat
      BY <1>1, <2>4 DEF TableOK
    <3> QED BY <2>1, <2>4, <2>5, <3>1, StartResizeInv DEF Waiting
  <2>6. CASE SetTop([u EXCEPT !.job = Idle])
    <3> DEFINE w == [u EXCEPT !.job = Idle]
    <3>1. FrameInv(w) /\ w.job = Idle
      BY <2>4, IdleFrame
    <3> HIDE DEF w
    <3>2. StackOK([stack EXCEPT ![Len(stack)] = w])
      BY <3>1, SetTopInv DEF StackInv, Idle, Waiting
    <3> QED BY <2>6, <3>2 DEF SetTop, StackInv, w
  <2> QED BY <1>3, <2>5, <2>6 DEF DeleteHit, u
<1> QED BY <1>2, <1>3 DEF Delete

\* The steps of ht_resize: the copying of a slot, and the swap of the tables.
LEMMA ResizeInv == ASSUME StackInv, Resize PROVE StackInv'
<1> DEFINE t == Top
           n == Len(stack)
<1>1. n \in Nat /\ n >= 2 /\ Probe("idle")
  BY DEF StackInv, StackOK, Resize, ResizeCopy, ResizeSwap
<1>2. FrameInv(t) /\ TableOK(t)
  BY TopInv DEF FrameInv
<1>3. FrameInv(Below) /\ TableOK(Below) /\ Below.job.pc \in Waiting
  <2>1. n - 1 \in 1..n /\ n - 1 < n
    BY <1>1
  <2> QED BY <2>1 DEF StackInv, StackOK, Below, FrameInv
<1>4. /\ t \in [base : Nat, capacity : Nat, count : Nat, items : {t.items},
                cursor : 0..t.capacity, job : Jobs]
      /\ Below \in [base : Nat, capacity : Nat, count : Nat,
                    items : [0..(Below.capacity - 1) -> Item \cup {NULL, TOMBSTONE}],
                    cursor : 0..Below.capacity, job : Jobs]
  BY <1>2, <1>3 DEF TableOK
<1>5. CASE ResizeCopy
  <2> DEFINE item == Below.items[Below.cursor]
             j == IF item \in {NULL, TOMBSTONE} THEN Idle
                  ELSE [pc |-> "insert", key |-> item.key, value |-> item.value, attempt |-> 0]
             b == [Below EXCEPT !.cursor = @ + 1]
             u == [t EXCEPT !.job = j]
  <2>1. Below.cursor + 1 \in 0..Below.capacity /\ Below.cursor \in 0..(Below.capacity - 1)
    <3>1. Below.cursor < Below.capacity
      BY <1>5 DEF ResizeCopy
    <3>2. Below.capacity \in Nat /\ Below.cursor \in 0..Below.capacity
      BY ONLY <1>4
    <3> QED BY ONLY <3>1, <3>2
  <2>2. item \in Item \cup {NULL, TOMBSTONE}
    <3>1. Below.items \in [0..(Below.capacity - 1) -> Item \cup {NULL, TOMBSTONE}]
      BY ONLY <1>4
    <3> QED BY ONLY <2>1, <3>1
  <2>3. /\ j \in Jobs /\ j.pc \in {"idle", "insert"}
        /\ j.pc = "insert" => j.key \in Keys /\ j.value \in Values
    BY <2>2 DEF Idle, Jobs, Item
  <2> HIDE DEF j
  <2>4. u = [t EXCEPT !.job = j, !.cursor = t.cursor] /\ u.job = j /\ t.cursor \in 0..t.capacity
    BY <1>4
  <2>5. b = [Below EXCEPT !.job = Below.job, !.cursor = Below.cursor + 1]
        /\ b.job = Below.job /\ b.items = Below.items /\ b.capacity = Below.capacity
    BY <1>4
  <2>6. FrameInv(u)
    <3>1. Probed(u)
      BY <2>3, <2>4 DEF Probed
    <3>2. /\ j.pc \in {"insert", "probe", "grow", "retry"} => j.key \in Keys /\ j.value \in Values
          /\ j.pc \in {"search", "delete"} => j.key \in Keys
      BY <2>3
    <3> HIDE DEF u, t
    <3>3. FrameInv([t EXCEPT !.job = j, !.cursor = t.cursor])
      BY <1>2, <2>3, <2>4, <3>1, <3>2, JobChange
    <3> QED BY <2>4, <3>3
  <2>7. FrameInv(b)
    <3>1. Probed(b)
      BY <1>3, <2>5 DEF Probed, FrameInv
    <3>2. /\ Below.job \in Jobs
          /\ Below.job.pc \in {"insert", "probe", "grow", "retry"} =>
               Below.job.key \in Keys /\ Below.job.value \in Values
          /\ Below.job.pc \in {"search", "delete"} => Below.job.key \in Keys
      BY <1>3 DEF TableOK
    <3> HIDE DEF b
    <3>3. FrameInv([Below EXCEPT !.job = Below.job, !.cursor = Below.cursor + 1])
      BY <1>3, <2>1, <2>5, <3>1, <3>2, JobChange
    <3> QED BY <2>5, <3>3
  <2>8. StackOK([stack EXCEPT ![n - 1] = b, ![n] = u])
    BY <1>1, <1>3, <2>3, <2>4, <2>5, <2>6, <2>7, CopyInv DEF StackInv, Waiting
  <2>9. stack' = [stack EXCEPT ![n - 1] = b, ![n] = u]
    BY <1>1, <1>5 DEF ResizeCopy, Below, Top, j
  <2> QED BY <2>8, <2>9 DEF StackInv
<1>6. CASE ResizeSwap
  <2> DEFINE j == Resume(Below.job)
             u == [t EXCEPT !.job = j]
  <2>1. /\ j \in Jobs /\ j.pc \in {"probe", "insert", "idle"}
        /\ j.pc = "probe" => j.attempt = 0
        /\ j.pc # "idle" => j.key \in Keys /\ j.value \in Values
    <3>1. /\ Below.job \in Jobs
          /\ Below.job.pc \in {"grow", "retry"} =>
               Below.job.key \in Keys /\ Below.job.value \in Values
      BY <1>3 DEF TableOK
    <3>2. CASE Below.job.pc = "grow"
      BY <3>1, <3>2 DEF Resume, Jobs
    <3>3. CASE Below.job.pc = "retry"
      BY <3>1, <3>3 DEF Resume, Jobs
    <3>4. CASE Below.job.pc = "shrink"
      BY <3>4 DEF Resume, Jobs, Idle
    <3> QED BY <1>3, <3>2, <3>3, <3>4 DEF Waiting
  <2> HIDE DEF j
  <2>2. u = [t EXCEPT !.job = j, !.cursor = t.cursor] /\ u.job = j /\ t.cursor \in 0..t.capacity
    BY <1>4
  <2>3. Probed(u)
    BY <2>1, <2>2 DEF Probed
  <2>4. /\ j.pc \in {"insert", "probe", "grow", "retry"} => j.key \in Keys /\ j.value \in Values
        /\ j.pc \in {"search", "delete"} => j.key \in Keys
    BY <2>1
  <2> HIDE DEF u, t
  <2>5. FrameInv([t EXCEPT !.job = j, !.cursor = t.cursor])
    BY <1>2, <2>1, <2>2, <2>3, <2>4, JobChange
  <2>6. FrameInv(u) /\ u.job.pc \notin Waiting
    BY <2>1, <2>2, <2>5 DEF Waiting
  <2>7. StackOK([SubSeq(stack, 1, n - 1) EXCEPT ![n - 1] = u])
    BY <1>1, <2>6, PopInv DEF StackInv
  <2> QED BY <1>6, <2>7 DEF ResizeSwap, StackInv, u, j, t
<1> QED BY <1>5, <1>6 DEF Resize

\* Every step, or none.
LEMMA StackInvStep == ASSUME StackInv, [Next]_vars PROVE StackInv'
<1>1. CASE CallInsert
  BY <1>1, CallInv DEF CallInsert
<1>2. CASE CallSearch
  BY <1>2, CallInv DEF CallSearch
<1>3. CASE CallDelete
  BY <1>3, CallInv DEF CallDelete
<1>4. CASE Step
  BY <1>4, InsertInv, SearchInv, DeleteInv, ResizeInv DEF Step
<1>5. CASE UNCHANGED vars
  BY <1>5 DEF vars, StackInv
<1> QED BY <1>1, <1>2, <1>3, <1>4, <1>5 DEF Next

\* Whatever the keys, the hashes and the sequence of calls, every item is found
\* by a search for its key, in the table of the client and in every table that
\* ht_resize is filling.
THEOREM ItemsFindable == Spec => []EveryItemFindable
<1>1. StackInv => EveryItemFindable
  BY DEF StackInv, StackOK, FrameInv, EveryItemFindable
<1> QED BY <1>1, InitInv, StackInvStep, PTL DEF Spec

\* count, on which every resize is decided, is the number of live items.
THEOREM CountCorrect == Spec => []CountIsLive
<1>1. StackInv => CountIsLive
  BY DEF StackInv, StackOK, FrameInv, CountIsLive
<1> QED BY <1>1, InitInv, StackInvStep, PTL DEF Spec

ReplyOK == reply \in Values \cup {NULL}

\* What ht_search returns is a stored value, or null.
LEMMA ReplyStep == ASSUME StackInv, ReplyOK, [Next]_vars PROVE ReplyOK'
<1> USE DEF ReplyOK
<1>1. CASE SearchReturn
  <2>1. TableOK(Top) /\ Top.job.pc = "search" /\ Top.job.key \in Keys
    BY <1>1, TopInv DEF FrameInv, TableOK, SearchReturn, Probe
  <2>2. Top.job.attempt \in Nat /\ Top.capacity \in Nat /\ Top.capacity > 0
    BY <2>1, MinBaseAssumption DEF TableOK, Jobs
  <2>3. Current \in Item \cup {NULL, TOMBSTONE}
    BY <2>1, <2>2, SlotInRange DEF TableOK, Current, TopSlot
  <2> QED BY <1>1, <2>3 DEF SearchReturn, Holds, Item
<1>2. CASE ~SearchReturn /\ Next
  <2>1. reply' = reply
    BY <1>2 DEF Next, CallInsert, CallSearch, CallDelete, Call, Step, Insert, Search, Delete,
       Resize, InsertLoadCheck, InsertProbe, InsertOverwrite, InsertPlace, InsertGiveUp,
       ProbeOn, DeleteMiss, DeleteHit, ResizeCopy, ResizeSwap
  <2> QED BY <2>1
<1>3. CASE UNCHANGED vars
  BY <1>3 DEF vars
<1> QED BY <1>1, <1>2, <1>3

\* The stack of calls keeps its shape: every table on it is a struct ht, and
\* only the topmost call runs.
THEOREM TypesCorrect == Spec => []TypeOK
<1>1. StackInv /\ ReplyOK => TypeOK
  BY DEF ReplyOK, StackInv, StackOK, FrameInv, TypeOK, Waiting
<1>2. Init => ReplyOK
  BY DEF Init, ReplyOK
<1> QED BY <1>1, <1>2, InitInv, StackInvStep, ReplyStep, PTL DEF Spec

----------------------------------------------------------------------------
(* The table implements a map.  The items of a table are taken as a set:   *)
(* what ht_resize moves from slot to slot is then the same, and what the   *)
(* new table holds, with the item on its way into it, is what the loop has *)
(* passed of the old one.                                                  *)

Items(t) == {t.items[s] : s \in Live(t)}

Storing == {"insert", "probe", "grow", "retry"}
Pending(t) ==
  IF t.job.pc \in Storing THEN {[key |-> t.job.key, value |-> t.job.value]} ELSE {}

Copied(old, new) ==
  Items(new) \cup Pending(new) = {old.items[s] : s \in {r \in Live(old) : r < old.cursor}}

\* ht_search and ht_delete have not met their key so far, nor an empty slot.
Sought(t) ==
  t.job.pc \in {"search", "delete"} =>
    \A b \in 0..(t.job.attempt - 1) :
      LET x == t.items[Slot(t.job.key, t.capacity, b)] IN
      x # NULL /\ ~Holds(x, t.job.key)

MapOK(st) ==
  /\ \A i \in 1..(Len(st) - 1) : Copied(st[i], st[i + 1])
  /\ \A i \in 2..Len(st) : st[i].job.pc \notin {"search", "delete"}
  /\ Sought(st[1])

MapInv == MapOK(stack)

\* A key has one slot at most: of two, the probe sequence would meet one
\* before the other.
LEMMA OneSlot ==
  ASSUME NEW t, FrameInv(t), NEW r \in Live(t), NEW s \in Live(t),
         t.items[r].key = t.items[s].key
  PROVE  r = s
<1> DEFINE k == t.items[r].key
<1>1. t.capacity \in Nat /\ t.items[r] \notin {NULL, TOMBSTONE} /\ t.items[s] \notin {NULL, TOMBSTONE}
  BY DEF FrameInv, TableOK, Live
<1>2. PICK a \in 0..(t.capacity - 1) :
        /\ Slot(k, t.capacity, a) = r
        /\ \A b \in 0..(a - 1) : ~Holds(t.items[Slot(k, t.capacity, b)], k)
  BY DEF FrameInv, Reachable
<1>3. PICK c \in 0..(t.capacity - 1) :
        /\ Slot(k, t.capacity, c) = s
        /\ \A b \in 0..(c - 1) : ~Holds(t.items[Slot(k, t.capacity, b)], k)
  BY DEF FrameInv, Reachable
<1>4. Holds(t.items[r], k) /\ Holds(t.items[s], k)
  BY <1>1 DEF Holds
<1> HIDE DEF k
<1>5. ~(a \in 0..(c - 1)) /\ ~(c \in 0..(a - 1))
  BY <1>2, <1>3, <1>4
<1>6. a = c
  BY <1>1, <1>5
<1> QED BY <1>2, <1>3, <1>6

\* So a key has one item at most.
LEMMA OneItem ==
  ASSUME NEW t, FrameInv(t), NEW x \in Items(t), NEW y \in Items(t), x.key = y.key
  PROVE  x = y
BY OneSlot DEF Items

\* What the set of items holds.
LEMMA ItemsAreItems ==
  ASSUME NEW t, TableOK(t)
  PROVE  Items(t) \subseteq Item
BY DEF Items, Live, TableOK

\* The abstract map has the value of the item of a key.
LEMMA ContentsOf ==
  ASSUME NEW t, FrameInv(t)
  PROVE  /\ Contents(t) = [k \in Keys |-> Contents(t)[k]]
         /\ \A x \in Items(t) : Contents(t)[x.key] = x.value
         /\ \A k \in Keys : (\A x \in Items(t) : x.key # k) => Contents(t)[k] = NULL
<1>1. Contents(t) = [k \in Keys |-> Contents(t)[k]]
  BY DEF Contents
<1>2. ASSUME NEW x \in Items(t) PROVE Contents(t)[x.key] = x.value
  <2>1. PICK r \in Live(t) : x = t.items[r]
    BY DEF Items
  <2>2. x.key \in Keys
    BY ItemsAreItems DEF FrameInv, Item
  <2> DEFINE s == CHOOSE s \in Live(t) : t.items[s].key = x.key
  <2>3. s \in Live(t) /\ t.items[s].key = x.key
    BY <2>1
  <2>4. s = r
    BY <2>1, <2>3, OneSlot
  <2>5. Contents(t)[x.key] = t.items[s].value
    BY <2>1, <2>2 DEF Contents
  <2> QED BY <2>1, <2>4, <2>5
<1>3. ASSUME NEW k \in Keys, \A x \in Items(t) : x.key # k
      PROVE  Contents(t)[k] = NULL
  BY <1>3 DEF Contents, Items
<1> QED BY <1>1, <1>2, <1>3

\* Tables with the same items hold the same map.
LEMMA SameContents ==
  ASSUME NEW t, FrameInv(t), NEW u, FrameInv(u), Items(u) = Items(t)
  PROVE  Contents(u) = Contents(t)
<1>1. ASSUME NEW k \in Keys PROVE Contents(u)[k] = Contents(t)[k]
  <2>1. CASE \E x \in Items(t) : x.key = k
    BY <2>1, ContentsOf
  <2>2. CASE \A x \in Items(t) : x.key # k
    BY <2>2, ContentsOf
  <2> QED BY <2>1, <2>2
<1> QED BY <1>1, ContentsOf

\* Storing an item where its key is, or in an empty slot, replaces what the key had.
LEMMA PutItems ==
  ASSUME NEW t, FrameInv(t), NEW u, FrameInv(u), NEW item \in Item,
         NEW s \in DOMAIN t.items, u.items = [t.items EXCEPT ![s] = item],
         t.items[s] = NULL \/ Holds(t.items[s], item.key)
  PROVE  /\ Items(u) = {x \in Items(t) : x.key # item.key} \cup {item}
         /\ Contents(u) = [Contents(t) EXCEPT ![item.key] = item.value]
<1>1. item \notin {NULL, TOMBSTONE} /\ item.key \in Keys
  BY SlotAssumption DEF Item
<1>2. s \in Live(u) /\ u.items[s] = item
  BY <1>1 DEF Live
<1>3. ASSUME NEW r \in Live(t), t.items[r].key # item.key
      PROVE  r \in Live(u) /\ u.items[r] = t.items[r]
  <2>1. r # s
    BY <1>3 DEF Holds, Live
  <2> QED BY <2>1 DEF Live
<1>4. ASSUME NEW r \in Live(u), r # s
      PROVE  r \in Live(t) /\ u.items[r] = t.items[r] /\ t.items[r].key # item.key
  <2>1. r \in Live(t) /\ u.items[r] = t.items[r]
    BY <1>4 DEF Live
  <2>2. FrameInv(u) /\ r \in Live(u) /\ s \in Live(u) /\ r # s
    BY <1>2, <1>4
  <2>3. u.items[r].key # u.items[s].key
    BY ONLY <2>2, OneSlot
  <2> QED BY <1>2, <2>1, <2>3
<1>5. Items(u) = {x \in Items(t) : x.key # item.key} \cup {item}
  BY <1>2, <1>3, <1>4 DEF Items
<1>6. ASSUME NEW k \in Keys
      PROVE  Contents(u)[k] = [Contents(t) EXCEPT ![item.key] = item.value][k]
  <2>1. CASE k = item.key
    BY <1>1, <1>5, <2>1, ContentsOf
  <2>2. CASE k # item.key /\ \E x \in Items(t) : x.key = k
    <3>1. PICK x \in Items(t) : x.key = k
      BY <2>2
    <3>2. x \in Items(u)
      BY <1>5, <2>2, <3>1
    <3> QED BY <2>2, <3>1, <3>2, ContentsOf
  <2>3. CASE k # item.key /\ \A x \in Items(t) : x.key # k
    <3>1. \A x \in Items(u) : x.key # k
      BY <1>5, <2>3
    <3> QED BY <2>3, <3>1, ContentsOf
  <2> QED BY <2>1, <2>2, <2>3
<1>7. Contents(u) = [Contents(t) EXCEPT ![item.key] = item.value]
  BY <1>6, ContentsOf
<1> QED BY <1>5, <1>7

\* A tombstone takes away the item of its key.
LEMMA DeleteItems ==
  ASSUME NEW t, FrameInv(t), NEW u, FrameInv(u), NEW k \in Keys,
         NEW s \in DOMAIN t.items, u.items = [t.items EXCEPT ![s] = TOMBSTONE],
         Holds(t.items[s], k)
  PROVE  Contents(u) = [Contents(t) EXCEPT ![k] = NULL]
<1>1. s \in Live(t) /\ t.items[s].key = k
  BY DEF Live, Holds
<1>2. ASSUME NEW r
      PROVE  r \in Live(u) <=> r \in Live(t) /\ r # s
  BY DEF Live
<1>3. \A r \in Live(u) : u.items[r] = t.items[r]
  BY <1>2 DEF Live
<1>4. Items(u) = {x \in Items(t) : x.key # k}
  BY <1>1, <1>2, <1>3, OneSlot DEF Items
<1>5. ASSUME NEW c \in Keys
      PROVE  Contents(u)[c] = [Contents(t) EXCEPT ![k] = NULL][c]
  <2>1. CASE c = k
    BY <1>4, <2>1, ContentsOf
  <2>2. CASE c # k /\ \E x \in Items(t) : x.key = c
    <3>1. PICK x \in Items(t) : x.key = c
      BY <2>2
    <3>2. x \in Items(u)
      BY <1>4, <2>2, <3>1
    <3> QED BY <2>2, <3>1, <3>2, ContentsOf
  <2>3. CASE c # k /\ \A x \in Items(t) : x.key # c
    <3>1. \A x \in Items(u) : x.key # c
      BY <1>4, <2>3
    <3> QED BY <2>3, <3>1, ContentsOf
  <2> QED BY <2>1, <2>2, <2>3
<1> QED BY <1>5, ContentsOf

\* The four ways in which a step changes the call stack, for MapOK.  First
\* the running call replaces its own table.
LEMMA SetTopMap ==
  ASSUME NEW st, StackOK(st), MapOK(st), NEW t, t.job.pc \notin Waiting,
         Len(st) = 1 => Sought(t),
         Len(st) > 1 => /\ Items(t) \cup Pending(t) = Items(st[Len(st)]) \cup Pending(st[Len(st)])
                        /\ t.job.pc \notin {"search", "delete"}
  PROVE  MapOK([st EXCEPT ![Len(st)] = t])
<1> DEFINE st2 == [st EXCEPT ![Len(st)] = t]
<1>1. /\ Len(st2) = Len(st)
      /\ \A i \in 1..Len(st2) : st2[i] = IF i = Len(st) THEN t ELSE st[i]
      /\ Len(st) \in Nat /\ Len(st) >= 1
  BY SetFrame DEF StackOK
<1> HIDE DEF st2
<1>2. ASSUME NEW i \in 1..(Len(st2) - 1) PROVE Copied(st2[i], st2[i + 1])
  <2>1. Copied(st[i], st[i + 1]) /\ st2[i] = st[i] /\ i + 1 \in 1..Len(st2)
    BY <1>1 DEF MapOK
  <2>2. CASE i + 1 = Len(st)
    BY <1>1, <2>1, <2>2 DEF Copied
  <2>3. CASE i + 1 # Len(st)
    BY <1>1, <2>1, <2>3
  <2> QED BY <2>2, <2>3
<1>3. ASSUME NEW i \in 2..Len(st2) PROVE st2[i].job.pc \notin {"search", "delete"}
  BY <1>1 DEF MapOK
<1>4. Sought(st2[1])
  BY <1>1 DEF MapOK
<1>5. MapOK(st2)
  BY <1>2, <1>3, <1>4 DEF MapOK
<1> QED BY <1>5 DEF st2

\* The running call starts to wait in ht_resize for a new table.
LEMMA PushMap ==
  ASSUME NEW st, StackOK(st), MapOK(st), NEW t, t.job.pc \in Waiting, t.cursor = 0,
         Len(st) > 1 => Items(t) \cup Pending(t) = Items(st[Len(st)]) \cup Pending(st[Len(st)]),
         Live(t) \subseteq Nat,
         NEW u, Items(u) = {}, u.job.pc = "idle"
  PROVE  MapOK(Append([st EXCEPT ![Len(st)] = t], u))
<1> DEFINE st2 == Append([st EXCEPT ![Len(st)] = t], u)
<1>1. /\ Len(st2) = Len(st) + 1
      /\ \A i \in 1..Len(st2) :
           st2[i] = IF i = Len(st2) THEN u ELSE IF i = Len(st) THEN t ELSE st[i]
      /\ Len(st) \in Nat /\ Len(st) >= 1
  BY PushFrame DEF StackOK
<1> HIDE DEF st2
<1>2. Pending(u) = {} /\ {s \in Live(t) : s < t.cursor} = {}
  <2>1. \A s \in Live(t) : s < 0 => FALSE
    OBVIOUS
  <2> QED BY <2>1 DEF Pending, Storing
<1>3. Copied(t, u)
  BY <1>2 DEF Copied
<1>4. ASSUME NEW i \in 1..(Len(st2) - 1) PROVE Copied(st2[i], st2[i + 1])
  <2>1. i + 1 \in 1..Len(st2)
    BY <1>1
  <2>2. CASE i = Len(st)
    BY <1>1, <1>3, <2>1, <2>2
  <2>3. CASE i # Len(st)
    <3>1. Copied(st[i], st[i + 1]) /\ st2[i] = st[i]
      BY <1>1, <2>3 DEF MapOK
    <3>2. CASE i + 1 = Len(st)
      BY <1>1, <2>1, <3>1, <3>2 DEF Copied
    <3>3. CASE i + 1 # Len(st)
      BY <1>1, <2>1, <2>3, <3>1, <3>3
    <3> QED BY <3>2, <3>3
  <2> QED BY <2>2, <2>3
<1>5. ASSUME NEW i \in 2..Len(st2) PROVE st2[i].job.pc \notin {"search", "delete"}
  BY <1>1 DEF MapOK, Waiting
<1>6. Sought(st2[1])
  BY <1>1 DEF MapOK, Sought, Waiting
<1>7. MapOK(st2)
  BY <1>4, <1>5, <1>6 DEF MapOK
<1> QED BY <1>7 DEF st2

\* ht_resize returns.
LEMMA PopMap ==
  ASSUME NEW st, StackOK(st), MapOK(st), Len(st) >= 2, NEW t,
         Items(t) \cup Pending(t) = Items(st[Len(st) - 1]) \cup Pending(st[Len(st) - 1]),
         t.job.pc \notin {"search", "delete"}
  PROVE  MapOK([SubSeq(st, 1, Len(st) - 1) EXCEPT ![Len(st) - 1] = t])
<1> DEFINE st2 == [SubSeq(st, 1, Len(st) - 1) EXCEPT ![Len(st) - 1] = t]
<1>1. /\ Len(st2) = Len(st) - 1
      /\ \A i \in 1..Len(st2) : st2[i] = IF i = Len(st2) THEN t ELSE st[i]
      /\ st2 \in Seq({st[i] : i \in 1..Len(st)} \cup {t})
  BY PopFrame DEF StackOK
<1> HIDE DEF st2
<1>0. Len(st) \in Nat
  BY DEF StackOK
<1>2. ASSUME NEW i \in 1..(Len(st2) - 1) PROVE Copied(st2[i], st2[i + 1])
  <2>0. i \in 1..(Len(st) - 1) /\ i \in 1..Len(st2) /\ i # Len(st2) /\ i + 1 \in 1..Len(st2)
    BY <1>0, <1>1
  <2>1. Copied(st[i], st[i + 1]) /\ st2[i] = st[i] /\ i + 1 \in 1..Len(st2)
    BY <1>1, <2>0 DEF MapOK
  <2>2. CASE i + 1 = Len(st2)
    BY <1>0, <1>1, <2>1, <2>2 DEF Copied
  <2>3. CASE i + 1 # Len(st2)
    BY <1>0, <1>1, <2>1, <2>3
  <2> QED BY <2>2, <2>3
<1>3. ASSUME NEW i \in 1..Len(st2) PROVE st2[i].job.pc \notin {"search", "delete"}
  <2>1. CASE i = Len(st2)
    BY <1>1, <2>1
  <2>2. CASE i # Len(st2)
    <3>1. i \in 1..Len(st) /\ i < Len(st) /\ st2[i] = st[i]
      BY <1>0, <1>1, <2>2
    <3> QED BY <3>1 DEF StackOK, Waiting
  <2> QED BY <2>1, <2>2
<1>4. Sought(st2[1])
  BY <1>0, <1>1, <1>3 DEF Sought
<1>5. MapOK(st2)
  BY <1>2, <1>3, <1>4 DEF MapOK
<1> QED BY <1>5 DEF st2

\* The copying loop moves on, and its insertion starts.
LEMMA CopyMap ==
  ASSUME NEW st, StackOK(st), MapOK(st), Len(st) >= 2,
         NEW t, NEW u, Copied(t, u), t.job.pc \in Waiting,
         Items(t) \cup Pending(t) = Items(st[Len(st) - 1]) \cup Pending(st[Len(st) - 1]),
         u.job.pc \notin {"search", "delete"}
  PROVE  MapOK([st EXCEPT ![Len(st) - 1] = t, ![Len(st)] = u])
<1> DEFINE st1 == [st EXCEPT ![Len(st) - 1] = t]
           st2 == [st1 EXCEPT ![Len(st)] = u]
<1>1. /\ Len(st1) = Len(st)
      /\ \A i \in 1..Len(st1) : st1[i] = IF i = Len(st) - 1 THEN t ELSE st[i]
      /\ st1 \in Seq({st[i] : i \in 1..Len(st)} \cup {t})
      /\ Len(st) \in Nat
  <2>1. st \in Seq({st[i] : i \in 1..Len(st)}) /\ Len(st) \in Nat /\ Len(st) - 1 \in 1..Len(st)
    BY DEF StackOK
  <2> QED BY ONLY <2>1, SetBelow
<1> HIDE DEF st1
<1>2. /\ Len(st2) = Len(st)
      /\ \A i \in 1..Len(st2) :
           st2[i] = IF i = Len(st) THEN u ELSE IF i = Len(st) - 1 THEN t ELSE st[i]
  BY <1>1, SetFrame DEF StackOK
<1> HIDE DEF st2
<1>3. ASSUME NEW i \in 1..(Len(st2) - 1) PROVE Copied(st2[i], st2[i + 1])
  <2>1. i + 1 \in 1..Len(st2) /\ Copied(st[i], st[i + 1])
    BY <1>1, <1>2 DEF MapOK
  <2>2. CASE i = Len(st) - 1
    BY <1>1, <1>2, <2>1, <2>2
  <2>3. CASE i + 1 = Len(st) - 1
    <3>1. st2[i] = st[i] /\ st2[i + 1] = t /\ st[i + 1] = st[Len(st) - 1]
      BY <1>1, <1>2, <2>1, <2>3
    <3> QED BY <2>1, <3>1 DEF Copied
  <2>4. CASE i + 1 < Len(st) - 1
    BY <1>1, <1>2, <2>1, <2>4
  <2> QED BY <1>1, <1>2, <2>2, <2>3, <2>4
<1>4. ASSUME NEW i \in 2..Len(st2) PROVE st2[i].job.pc \notin {"search", "delete"}
  BY <1>1, <1>2 DEF MapOK, Waiting
<1>5. Sought(st2[1])
  BY <1>1, <1>2 DEF MapOK, Sought, Waiting
<1>6. MapOK(st2)
  BY <1>3, <1>4, <1>5 DEF MapOK
<1> QED BY <1>6 DEF st1, st2

----------------------------------------------------------------------------
(* The client's view of the call stack, and the steps of the map.          *)

CallOf(job) ==
  CASE job.pc \in Storing -> [op |-> "insert", key |-> job.key, value |-> job.value]
    [] job.pc \in {"search", "delete"} -> [op |-> job.pc, key |-> job.key, value |-> job.value]
    [] OTHER -> Map!NoCall

\* The refinement mapping, before a step and after it.
LEMMA ClientView ==
  /\ ClientCall = CallOf(stack[1].job)
  /\ ClientCall' = CallOf(stack'[1].job)
  /\ Contents(stack[1])' = Contents(stack'[1])
<1>1. ClientCall = CallOf(stack[1].job)
  BY DEF ClientCall, CallOf, Storing, Map!NoCall
<1>2. ClientCall' = CallOf(stack'[1].job)
  BY DEF ClientCall, CallOf, Storing, Map!NoCall
<1>3. Contents(stack[1])' = Contents(stack'[1])
  BY DEF Contents, Live
<1> QED BY <1>1, <1>2, <1>3

\* A step between the return of one call and the next, or inside a call,
\* leaves the map alone.
LEMMA Quiet ==
  ASSUME StackInv, StackInv', reply' = reply,
         Items(stack'[1]) = Items(stack[1]),
         CallOf(stack'[1].job) = CallOf(stack[1].job)
  PROVE  UNCHANGED Map!vars
<1>1. FrameInv(stack[1])
  BY DEF StackInv, StackOK
<1>2. FrameInv(stack'[1])
  BY DEF StackInv, StackOK
<1>3. Contents(stack'[1]) = Contents(stack[1])
  BY <1>1, <1>2, SameContents
<1> QED BY <1>3, ClientView DEF Map!vars

\* What a table is, for the equalities of records.
LEMMA Shape ==
  ASSUME NEW t, TableOK(t)
  PROVE  /\ t \in [base : Nat, capacity : Nat, count : Nat, items : {t.items},
                   cursor : 0..t.capacity, job : Jobs]
         /\ t.items \in [0..(t.capacity - 1) -> Item \cup {NULL, TOMBSTONE}]
         /\ t.capacity \in Nat /\ t.capacity > 0
BY MinBaseAssumption DEF TableOK

\* Only the locals of the call change, to job j.
LocalStep(t, u, j) ==
  /\ u.items = t.items /\ u.capacity = t.capacity /\ u.job = j
  /\ Live(u) = Live(t) /\ Items(u) = Items(t)

\* [t EXCEPT !.job = j, !.cursor = c] is such a step.
LEMMA JobOnly ==
  ASSUME NEW t, TableOK(t), NEW j, NEW c
  PROVE  LocalStep(t, [t EXCEPT !.job = j, !.cursor = c], j)
<1> DEFINE u == [t EXCEPT !.job = j, !.cursor = c]
<1>1. t \in [base : Nat, capacity : Nat, count : Nat, items : {t.items},
              cursor : 0..t.capacity, job : Jobs]
  BY Shape
<1>2. u.items = t.items /\ u.capacity = t.capacity /\ u.job = j
  BY ONLY <1>1
<1> HIDE DEF u
<1>3. Live(u) = Live(t) /\ Items(u) = Items(t)
  BY <1>2 DEF Live, Items
<1> QED BY <1>2, <1>3 DEF u, LocalStep

\* The first table, the client's, after a step of the running call.
LEMMA SetTopStep ==
  ASSUME StackInv, MapInv, NEW t, SetTop(t), t.job.pc \notin Waiting,
         Len(stack) = 1 => Sought(t),
         Len(stack) > 1 => /\ Items(t) \cup Pending(t) = Items(Top) \cup Pending(Top)
                           /\ t.job.pc \notin {"search", "delete"}
  PROVE  MapInv' /\ stack'[1] = IF Len(stack) = 1 THEN t ELSE stack[1]
<1> DEFINE st2 == [stack EXCEPT ![Len(stack)] = t]
<1>1. StackOK(stack) /\ MapOK(stack)
  BY DEF StackInv, MapInv
<1>2. MapOK(st2)
  BY <1>1, SetTopMap DEF Top
<1>3. Len(stack) \in 1..Len(stack) /\ stack \in Seq({stack[i] : i \in 1..Len(stack)})
  BY <1>1 DEF StackOK
<1>4. stack' = st2
  BY DEF SetTop
<1>5. Len(st2) = Len(stack) /\ \A i \in 1..Len(st2) : st2[i] = IF i = Len(stack) THEN t ELSE stack[i]
  BY <1>3, SetFrame
<1> HIDE DEF st2
<1>6. MapInv'
  BY <1>2, <1>4 DEF MapInv
<1>7. 1 \in 1..Len(st2) /\ (1 = Len(stack) <=> Len(stack) = 1)
  BY <1>3, <1>5
<1> QED BY <1>4, <1>5, <1>6, <1>7

\* The same when the running call starts to wait in ht_resize.
LEMMA PushStep ==
  ASSUME StackInv, MapInv, NEW t, TableOK(t), NEW b \in Nat, b >= MinBase,
         NEW pc \in Waiting, StartResize(t, b, pc),
         Len(stack) > 1 => /\ Items(t) = Items(Top) /\ pc # "shrink"
                           /\ Top.job.pc \in Storing
                           /\ t.job = Top.job
  PROVE  /\ MapInv'
         /\ Len(stack) > 1 => stack'[1] = stack[1]
         /\ Len(stack) = 1 => /\ Items(stack'[1]) = Items(t)
                              /\ Contents(stack'[1]) = Contents(t)
                              /\ stack'[1].job = [t.job EXCEPT !.pc = pc]
<1> DEFINE u == [t EXCEPT !.job.pc = pc, !.cursor = 0]
           new == ht_new_sized(b)
           st2 == Append([stack EXCEPT ![Len(stack)] = u], new)
           j == [t.job EXCEPT !.pc = pc]
<1>1. StackOK(stack) /\ MapOK(stack)
  BY DEF StackInv, MapInv
<1>2. u = [t EXCEPT !.job = j, !.cursor = 0] /\ u.cursor = 0
  BY Shape
<1> HIDE DEF u, j
<1>3. u.items = t.items /\ u.job = j /\ Live(u) = Live(t) /\ Items(u) = Items(t)
  <2>1. u = [t EXCEPT !.job = j, !.cursor = 0]
    BY <1>2
  <2>2. LocalStep(t, [t EXCEPT !.job = j, !.cursor = 0], j)
    BY JobOnly
  <2> QED BY <2>1, <2>2 DEF LocalStep
<1>4. j.pc = pc /\ j.key = t.job.key /\ j.value = t.job.value
  BY Shape DEF Jobs, j
<1>5. Items(new) = {} /\ new.job.pc = "idle"
  <2>1. new.items = [s \in 0..(NextPrime(b) - 1) |-> NULL] /\ new.job = Idle
    BY DEF ht_new_sized
  <2> HIDE DEF new
  <2> QED BY <2>1 DEF Items, Live, Idle
<1>6. Live(u) \subseteq Nat
  BY <1>3, Shape DEF Live
<1>7. Len(stack) > 1 => Pending(u) = Pending(Top)
  BY <1>3, <1>4 DEF Pending, Storing, Waiting
<1> HIDE DEF new
<1>8. Contents(u) = Contents(t)
  BY <1>3 DEF Contents
<1>9. MapOK(st2)
  BY <1>1, <1>2, <1>3, <1>4, <1>5, <1>6, <1>7, PushMap DEF Top
<1>10. stack' = st2
  BY DEF StartResize, u, new
<1>11. Len(stack) \in 1..Len(stack) /\ stack \in Seq({stack[i] : i \in 1..Len(stack)})
  BY <1>1 DEF StackOK
<1>0. Len(stack) \in Nat /\ Len(stack) >= 1
  BY <1>11
<1>12. /\ Len(st2) = Len(stack) + 1
       /\ \A i \in 1..Len(st2) :
            st2[i] = IF i = Len(st2) THEN new ELSE IF i = Len(stack) THEN u ELSE stack[i]
  BY <1>11, PushFrame
<1> HIDE DEF st2
<1>13. MapInv'
  BY <1>9, <1>10 DEF MapInv
<1>14. 1 \in 1..Len(st2) /\ 1 # Len(st2) /\ (1 = Len(stack) <=> ~(Len(stack) > 1))
  <2>1. 1 \in 1..Len(st2) /\ 1 # Len(st2)
    BY ONLY <1>0, <1>12
  <2>2. 1 = Len(stack) <=> ~(Len(stack) > 1)
    BY ONLY <1>0
  <2> QED BY <2>1, <2>2
<1>15. stack'[1] = IF Len(stack) > 1 THEN stack[1] ELSE u
  BY <1>10, <1>12, <1>14
<1> QED BY <1>3, <1>8, <1>13, <1>14, <1>15 DEF j

\* The same when only the locals of the running call change.
LEMMA NewJobStep ==
  ASSUME StackInv, MapInv, NEW j, j.pc \notin Waiting, SetTop([Top EXCEPT !.job = j]),
         Len(stack) = 1 => Sought([Top EXCEPT !.job = j]),
         Len(stack) > 1 => /\ j.pc \in Storing /\ Top.job.pc \in Storing
                           /\ j.key = Top.job.key /\ j.value = Top.job.value
  PROVE  /\ MapInv'
         /\ Items(stack'[1]) = Items(stack[1])
         /\ Contents(stack'[1]) = Contents(stack[1])
         /\ stack'[1].job = IF Len(stack) = 1 THEN j ELSE stack[1].job
<1> DEFINE u == [Top EXCEPT !.job = j]
<1>1. TableOK(Top)
  BY TopInv DEF FrameInv
<1>2. LocalStep(Top, [Top EXCEPT !.job = j, !.cursor = Top.cursor], j)
  BY <1>1, JobOnly
<1>3. u = [Top EXCEPT !.job = j, !.cursor = Top.cursor]
  <2>1. Top \in [base : Nat, capacity : Nat, count : Nat, items : {Top.items},
                 cursor : 0..Top.capacity, job : Jobs]
    BY <1>1, Shape
  <2> QED BY ONLY <2>1
<1>4. LocalStep(Top, u, j)
  BY <1>2, <1>3
<1>5. SetTop(u) /\ (Len(stack) = 1 => Sought(u))
  OBVIOUS
<1> HIDE DEF u
<1>6. Len(stack) > 1 => /\ Items(u) \cup Pending(u) = Items(Top) \cup Pending(Top)
                        /\ u.job.pc \notin {"search", "delete"}
  BY <1>4 DEF LocalStep, Pending, Storing
<1>7. MapInv' /\ stack'[1] = IF Len(stack) = 1 THEN u ELSE stack[1]
  BY <1>4, <1>5, <1>6, SetTopStep DEF LocalStep
<1>8. Contents(u) = Contents(Top)
  BY <1>4 DEF LocalStep, Contents
<1>9. Len(stack) = 1 => Top = stack[1]
  BY DEF Top
<1> QED BY <1>4, <1>7, <1>8, <1>9 DEF LocalStep

\* A step inside a call of ht_insert.
LEMMA InsertJobStep ==
  ASSUME StackInv, StackInv', MapInv, NEW j, j.pc \in {"insert", "probe"}, reply' = reply,
         SetTop([Top EXCEPT !.job = j]), Top.job.pc \in Storing,
         j.key = Top.job.key, j.value = Top.job.value
  PROVE  MapInv' /\ UNCHANGED Map!vars
<1>1. Sought([Top EXCEPT !.job = j])
  <2>1. LocalStep(Top, [Top EXCEPT !.job = j, !.cursor = Top.cursor], j)
    BY TopInv, JobOnly DEF FrameInv
  <2>2. Top \in [base : Nat, capacity : Nat, count : Nat, items : {Top.items},
                 cursor : 0..Top.capacity, job : Jobs]
    BY TopInv, Shape DEF FrameInv
  <2>3. [Top EXCEPT !.job = j].job = j
    BY ONLY <2>2
  <2> QED BY <2>3 DEF Sought
<1>2. /\ MapInv'
      /\ Items(stack'[1]) = Items(stack[1])
      /\ stack'[1].job = IF Len(stack) = 1 THEN j ELSE stack[1].job
  BY <1>1, NewJobStep DEF Waiting, Storing
<1>3. Len(stack) = 1 => CallOf(j) = CallOf(stack[1].job)
  BY DEF CallOf, Top, Storing
<1> QED BY <1>2, <1>3, Quiet

\* A client makes a call.
LEMMA CallMap ==
  ASSUME StackInv, MapInv, NEW pc \in {"insert", "search", "delete"}, NEW k, NEW v, Call(pc, k, v)
  PROVE  MapInv' /\ Map!Request(pc, k, v)
<1> DEFINE j == [pc |-> pc, key |-> k, value |-> v, attempt |-> 0]
<1>1. /\ Len(stack) = 1 /\ Top = stack[1] /\ Top.job.pc = "idle" /\ reply' = reply
      /\ SetTop([Top EXCEPT !.job = j])
  BY DEF Call, Probe, Top
<1>2. j.attempt = 0 /\ j.pc = pc /\ j.key = k /\ j.value = v
  OBVIOUS
<1> HIDE DEF j
<1>3. Sought([Top EXCEPT !.job = j])
  <2>1. Top \in [base : Nat, capacity : Nat, count : Nat, items : {Top.items},
                 cursor : 0..Top.capacity, job : Jobs]
    BY TopInv, Shape DEF FrameInv
  <2>2. [Top EXCEPT !.job = j].job = j
    BY ONLY <2>1
  <2> QED BY <1>2, <2>2 DEF Sought
<1>4. /\ MapInv'
      /\ Contents(stack'[1]) = Contents(stack[1])
      /\ stack'[1].job = j
  BY <1>1, <1>2, <1>3, NewJobStep DEF Waiting
<1>5. CallOf(stack[1].job) = Map!NoCall
  BY <1>1 DEF CallOf, Storing
<1>6. CallOf(j) = [op |-> pc, key |-> k, value |-> v]
  BY <1>2 DEF CallOf, Storing
<1> QED BY <1>1, <1>4, <1>5, <1>6, ClientView DEF Map!Request

\* An item is stored: in the client's table this is the insertion of the map;
\* in a table ht_resize fills, the item joins those already moved.
LEMMA StoreMap ==
  ASSUME StackInv, StackInv', MapInv, InsertOverwrite \/ InsertPlace
  PROVE  MapInv' /\ (Map!Insert \/ UNCHANGED Map!vars)
<1> DEFINE t == Top
           s == TopSlot
           item == [key |-> t.job.key, value |-> t.job.value]
           n == Len(stack)
<1>1. /\ FrameInv(t) /\ TableOK(t) /\ t.job.pc = "probe"
      /\ t.job.key \in Keys /\ t.job.value \in Values
  BY TopInv DEF FrameInv, TableOK, InsertOverwrite, InsertPlace, Probe
<1>2. t.job.attempt \in Nat
  BY <1>1, Shape DEF Jobs
<1>3. s \in DOMAIN t.items /\ (t.items[s] = NULL \/ Holds(t.items[s], item.key))
  <2>1. s \in 0..(t.capacity - 1)
    BY <1>1, <1>2, Shape, SlotInRange DEF TopSlot
  <2>2. DOMAIN t.items = 0..(t.capacity - 1)
    BY <1>1, Shape
  <2> QED BY <2>1, <2>2 DEF InsertOverwrite, InsertPlace, Current
<1>4. PICK u : /\ SetTop(u) /\ u.items = [t.items EXCEPT ![s] = item] /\ u.job = Idle
  <2>1. Put(t, s).items = [t.items EXCEPT ![s] = item] /\ Put(t, s).job = Idle
    BY <1>1, Shape DEF Put
  <2>2. LET w == [Put(t, s) EXCEPT !.count = @ + 1] IN
        w.items = [t.items EXCEPT ![s] = item] /\ w.job = Idle
    BY <1>1, Shape DEF Put
  <2> QED BY <2>1, <2>2 DEF InsertOverwrite, InsertPlace
<1>5. item \in Item /\ item.key = t.job.key /\ item.value = t.job.value
  BY <1>1 DEF Item
<1>6. FrameInv(u)
  <2>1. stack'[Len(stack')] = u
    <3>1. n \in 1..n /\ stack \in Seq({stack[i] : i \in 1..n})
      BY DEF StackInv, StackOK
    <3>2. stack' = [stack EXCEPT ![n] = u]
      BY <1>4 DEF SetTop
    <3>3. DOMAIN stack = 1..n
      BY <3>1
    <3>4. Len(stack') = n
      BY ONLY <3>1, <3>2
    <3>5. stack'[n] = u
      BY ONLY <3>1, <3>2, <3>3
    <3> QED BY <3>4, <3>5
  <2>2. Len(stack') >= 1 /\ Len(stack') \in Nat /\ \A i \in 1..Len(stack') : FrameInv(stack'[i])
    BY DEF StackInv, StackOK
  <2>3. Len(stack') \in 1..Len(stack')
    BY ONLY <2>2
  <2> QED BY <2>1, <2>2, <2>3
<1> HIDE DEF item, s
<1>7. /\ Items(u) = {x \in Items(t) : x.key # item.key} \cup {item}
      /\ Contents(u) = [Contents(t) EXCEPT ![item.key] = item.value]
  BY <1>1, <1>3, <1>4, <1>5, <1>6, PutItems
<1>8. Pending(u) = {} /\ Pending(t) = {item}
  BY <1>1, <1>4 DEF Pending, Storing, Idle, item
<1>9. n > 1 => Items(u) \cup Pending(u) = Items(t) \cup Pending(t)
  <2> SUFFICES ASSUME n > 1 PROVE Items(u) = Items(t) \cup {item}
    BY <1>8
  <2>1. Copied(stack[n - 1], t) /\ FrameInv(stack[n - 1])
    <3>1. n \in Nat /\ n - 1 \in 1..(n - 1) /\ n - 1 \in 1..n /\ (n - 1) + 1 = n
      BY DEF StackInv, StackOK
    <3> QED BY <3>1 DEF StackInv, StackOK, MapInv, MapOK, Top
  <2>2. Items(t) \cup {item} \subseteq Items(stack[n - 1])
    BY <1>8, <2>1 DEF Copied, Items
  <2>3. \A x \in Items(t) : x.key = item.key => x = item
    BY <2>1, <2>2, OneItem
  <2> QED BY <1>7, <2>3
<1>10. MapInv' /\ stack'[1] = IF n = 1 THEN u ELSE stack[1]
  BY <1>4, <1>9, SetTopStep DEF Idle, Waiting, Sought
<1>11. reply' = reply
  BY DEF InsertOverwrite, InsertPlace
<1>12. CASE n = 1
  <2>1. CallOf(stack[1].job) = [op |-> "insert", key |-> item.key, value |-> item.value]
    BY <1>1, <1>5, <1>12 DEF CallOf, Storing, Top
  <2>2. CallOf(stack'[1].job) = Map!NoCall
    BY <1>4, <1>10, <1>12 DEF CallOf, Storing, Idle
  <2>3. Contents(stack'[1]) = [Contents(stack[1]) EXCEPT ![item.key] = item.value]
    BY <1>7, <1>10, <1>12 DEF Top
  <2>4. Map!Insert
    BY <1>11, <2>1, <2>2, <2>3, ClientView DEF Map!Insert, Map!Serve
  <2> QED BY <1>10, <2>4
<1>13. CASE n # 1
  BY <1>10, <1>11, <1>13, Quiet
<1> QED BY <1>12, <1>13

\* The steps of ht_insert.
LEMMA InsertMap ==
  ASSUME StackInv, StackInv', MapInv, Insert
  PROVE  MapInv' /\ (Map!Insert \/ UNCHANGED Map!vars)
<1> DEFINE t == Top
<1>1. FrameInv(t) /\ TableOK(t)
  BY TopInv DEF FrameInv
<1>2. /\ t \in [base : Nat, capacity : Nat, count : Nat, items : {t.items},
                cursor : 0..t.capacity, job : Jobs]
      /\ 2 * t.base \in Nat /\ 2 * t.base >= MinBase
  BY <1>1, MinBaseAssumption DEF TableOK
<1>3. /\ t.job.pc \in {"insert", "probe"} /\ t.job \in Jobs
      /\ reply' = reply
  BY <1>2 DEF Insert, InsertLoadCheck, InsertProbe, InsertOverwrite, InsertPlace, InsertGiveUp, Probe
<1>4. ASSUME NEW pc \in {"grow", "retry"}, StartResize(t, 2 * t.base, pc)
      PROVE  MapInv' /\ UNCHANGED Map!vars
  <2>1. /\ MapInv'
        /\ Len(stack) > 1 => stack'[1] = stack[1]
        /\ Len(stack) = 1 => /\ Items(stack'[1]) = Items(t)
                             /\ stack'[1].job = [t.job EXCEPT !.pc = pc]
    <3> DEFINE b == 2 * t.base
    <3>1. b \in Nat /\ b >= MinBase /\ StartResize(t, b, pc) /\ pc \in Waiting /\ pc # "shrink"
      BY <1>2, <1>4 DEF Waiting
    <3>2. t.job.pc \in Storing
      BY <1>3 DEF Storing
    <3> HIDE DEF b
    <3> QED BY <1>1, <3>1, <3>2, PushStep
  <2>2. Len(stack) = 1 \/ Len(stack) > 1
    <3>1. Len(stack) \in Nat /\ Len(stack) >= 1
      BY DEF StackInv, StackOK
    <3> QED BY ONLY <3>1, OneOrMore
  <2>3. CallOf([t.job EXCEPT !.pc = pc]) = CallOf(t.job)
    <3>1. LET j == [t.job EXCEPT !.pc = pc] IN
          j.pc = pc /\ j.key = t.job.key /\ j.value = t.job.value
      BY <1>3 DEF Jobs
    <3> QED BY <1>3, <3>1 DEF CallOf, Storing
  <2>4. Items(stack'[1]) = Items(stack[1]) /\ CallOf(stack'[1].job) = CallOf(stack[1].job)
    BY <2>1, <2>2, <2>3 DEF Top
  <2> QED BY <1>3, <2>1, <2>4, Quiet
<1>5. CASE InsertLoadCheck
  <2>1. CASE StartResize(t, 2 * t.base, "grow")
    BY <1>4, <2>1
  <2>2. CASE SetTop([t EXCEPT !.job.pc = "probe", !.job.attempt = 0])
    <3> DEFINE j == [t.job EXCEPT !.pc = "probe", !.attempt = 0]
    <3>1. j.pc = "probe" /\ j.key = t.job.key /\ j.value = t.job.value
      BY <1>3 DEF Jobs
    <3>2. [t EXCEPT !.job.pc = "probe", !.job.attempt = 0] = [t EXCEPT !.job = j]
      BY <1>2
    <3> HIDE DEF j
    <3> QED BY <1>3, <2>2, <3>1, <3>2, InsertJobStep DEF Storing
  <2> QED BY <1>5, <2>1, <2>2 DEF InsertLoadCheck
<1>6. CASE InsertProbe
  <2> DEFINE j == [t.job EXCEPT !.attempt = @ + 1]
  <2>1. j.pc = "probe" /\ j.key = t.job.key /\ j.value = t.job.value
    BY <1>3, <1>6 DEF Jobs, InsertProbe, Probe
  <2>2. [t EXCEPT !.job.attempt = @ + 1] = [t EXCEPT !.job = j]
    BY <1>2
  <2>3. SetTop([t EXCEPT !.job.attempt = @ + 1])
    BY <1>6 DEF InsertProbe
  <2> HIDE DEF j
  <2> QED BY <1>3, <2>1, <2>2, <2>3, InsertJobStep DEF Storing
<1>7. CASE InsertOverwrite \/ InsertPlace
  BY <1>7, StoreMap
<1>8. CASE InsertGiveUp
  BY <1>2, <1>4, <1>8 DEF InsertGiveUp
<1> QED BY <1>5, <1>6, <1>7, <1>8 DEF Insert

\* An empty slot met by ht_search or ht_delete says that the key is absent.
LEMMA NotThere ==
  ASSUME NEW t, FrameInv(t), Sought(t), t.job.pc \in {"search", "delete"},
         t.items[Slot(t.job.key, t.capacity, t.job.attempt)] = NULL
  PROVE  Contents(t)[t.job.key] = NULL
<1> DEFINE k == t.job.key
           a == t.job.attempt
<1>1. k \in Keys /\ a \in Nat /\ t.capacity \in Nat
  BY DEF FrameInv, TableOK, Jobs
<1>2. ASSUME NEW r \in Live(t), t.items[r].key = k PROVE FALSE
  <2>1. PICK c \in 0..(t.capacity - 1) :
          /\ Slot(k, t.capacity, c) = r
          /\ \A b \in 0..(c - 1) : t.items[Slot(k, t.capacity, b)] # NULL
    BY <1>2 DEF FrameInv, Reachable
  <2>2. t.items[r] # NULL /\ Holds(t.items[r], k)
    BY <1>2 DEF Live, Holds
  <2>3. \A b \in 0..(a - 1) : ~Holds(t.items[Slot(k, t.capacity, b)], k)
    BY DEF Sought
  <2> HIDE DEF k, a
  <2>4. a # c
    BY <2>1, <2>2 DEF k, a
  <2>5. ~(a \in 0..(c - 1))
    BY <2>1 DEF k, a
  <2>6. ~(c \in 0..(a - 1))
    BY <2>1, <2>2, <2>3
  <2>7. c \in Nat
    BY <1>1
  <2> QED BY ONLY <1>1, <2>4, <2>5, <2>6, <2>7
<1> HIDE DEF k
<1>3. \A x \in Items(t) : x.key # k
  BY <1>2 DEF Items
<1> QED BY <1>1, <1>3, ContentsOf DEF k

\* Only the client's own call searches or deletes.
LEMMA SeekerIsClient ==
  ASSUME StackInv, MapInv, Top.job.pc \in {"search", "delete"}
  PROVE  /\ Len(stack) = 1 /\ Top = stack[1] /\ Sought(Top) /\ FrameInv(Top)
         /\ Top.job.key \in Keys /\ Top.job.attempt \in Nat
         /\ TopSlot \in DOMAIN Top.items
         /\ CallOf(stack[1].job) = [op |-> Top.job.pc, key |-> Top.job.key, value |-> Top.job.value]
<1>1. Len(stack) = 1 /\ Top = stack[1]
  <2>1. Len(stack) \in Nat /\ Len(stack) >= 1
    BY DEF StackInv, StackOK
  <2>2. Len(stack) > 1 => Len(stack) \in 2..Len(stack)
    BY <2>1
  <2>3. ~(Len(stack) > 1)
    BY <2>2 DEF MapInv, MapOK, Top
  <2>4. Len(stack) = 1
    BY ONLY <2>1, <2>3, OneOrMore
  <2> QED BY <2>4 DEF Top
<1>2. FrameInv(Top) /\ TableOK(Top)
  BY TopInv DEF FrameInv
<1>3. Top.job.key \in Keys /\ Top.job.attempt \in Nat
  BY <1>2 DEF TableOK, Jobs
<1>4. TopSlot \in 0..(Top.capacity - 1)
  BY <1>2, <1>3, Shape, SlotInRange DEF TopSlot
<1>5. TopSlot \in DOMAIN Top.items
  BY <1>2, <1>4, Shape
<1>6. CallOf(Top.job) = [op |-> Top.job.pc, key |-> Top.job.key, value |-> Top.job.value]
  BY DEF CallOf, Storing
<1> QED BY <1>1, <1>2, <1>3, <1>5, <1>6 DEF MapInv, MapOK

\* The steps of ht_search, and the probing of ht_delete.
LEMMA SearchMap ==
  ASSUME StackInv, StackInv', MapInv, Search
  PROVE  MapInv' /\ (Map!Search \/ UNCHANGED Map!vars)
<1> DEFINE t == Top
           k == Top.job.key
           a == Top.job.attempt
<1>1. t.job.pc \in {"search", "delete"}
  BY DEF Search, SearchReturn, ProbeOn, Probe
<1>2. /\ Len(stack) = 1 /\ t = stack[1] /\ Sought(t) /\ FrameInv(t)
      /\ k \in Keys /\ a \in Nat /\ TopSlot \in DOMAIN t.items
      /\ CallOf(stack[1].job) = [op |-> t.job.pc, key |-> k, value |-> t.job.value]
  BY <1>1, SeekerIsClient
<1>3. t \in [base : Nat, capacity : Nat, count : Nat, items : {t.items},
             cursor : 0..t.capacity, job : Jobs]
  BY <1>2, Shape DEF FrameInv
<1>4. CASE SearchReturn
  <2>1. Sought([Top EXCEPT !.job = Idle])
    <3>1. [Top EXCEPT !.job = Idle].job = Idle
      BY ONLY <1>3
    <3> QED BY <3>1 DEF Sought, Idle
  <2>2. /\ MapInv'
        /\ Contents(stack'[1]) = Contents(stack[1])
        /\ stack'[1].job = Idle
    BY <1>2, <1>4, <2>1, NewJobStep DEF SearchReturn, Idle, Waiting
  <2>3. CallOf(Idle) = Map!NoCall
    BY DEF CallOf, Storing, Idle
  <2>4. reply' = Contents(t)[k]
    <3>1. CASE Current = NULL
      <4>1. Contents(t)[k] = NULL
        BY <1>1, <1>2, <3>1, NotThere DEF Current, TopSlot
      <4> QED BY <1>4, <3>1, <4>1 DEF SearchReturn
    <3>2. CASE Current # NULL
      <4>1. Holds(Current, k) /\ reply' = Current.value
        BY <1>4, <3>2 DEF SearchReturn
      <4>2. Current \in Items(t) /\ Current.key = k
        BY <1>2, <4>1 DEF Holds, Current, Items, Live
      <4>3. Contents(t)[k] = Current.value
        BY <1>2, <4>2, ContentsOf
      <4> QED BY <4>1, <4>3
    <3> QED BY <3>1, <3>2
  <2>5. t.job.pc = "search"
    BY <1>4 DEF SearchReturn, Probe
  <2>6. Map!Search
    BY <1>2, <2>2, <2>3, <2>4, <2>5, ClientView DEF Map!Search, Map!Serve
  <2> QED BY <2>2, <2>6
<1>5. CASE ProbeOn
  <2> DEFINE j == [t.job EXCEPT !.attempt = (@ + 1) % Width]
             u == [t EXCEPT !.job = j]
  <2>1. j.pc = t.job.pc /\ j.key = k /\ j.value = t.job.value /\ j.attempt = (a + 1) % Width
    BY <1>3 DEF Jobs
  <2>2. [t EXCEPT !.job.attempt = (@ + 1) % Width] = [t EXCEPT !.job = j]
    BY <1>3
  <2>3. u.job = j /\ u.items = t.items /\ u.capacity = t.capacity
    BY ONLY <1>3
  <2> HIDE DEF j, u
  <2>4. (a + 1) % Width \in 0..(a + 1)
    BY <1>2, WidthAssumption, ModBelow
  <2>5. ASSUME NEW b \in 0..(((a + 1) % Width) - 1)
        PROVE  LET x == t.items[Slot(k, t.capacity, b)] IN x # NULL /\ ~Holds(x, k)
    <3>1. b = a \/ b \in 0..(a - 1)
      BY <1>2, <2>4
    <3>2. CASE b = a
      BY <1>5, <3>2 DEF ProbeOn, Current, TopSlot
    <3>3. CASE b \in 0..(a - 1)
      BY <1>1, <1>2, <3>3 DEF Sought
    <3> QED BY <3>1, <3>2, <3>3
  <2>6. Sought(u)
    BY <2>1, <2>3, <2>5 DEF Sought
  <2>7. SetTop([Top EXCEPT !.job = j]) /\ reply' = reply /\ Sought([Top EXCEPT !.job = j])
    BY <1>5, <2>2, <2>6 DEF ProbeOn, u
  <2>8. /\ MapInv'
        /\ Items(stack'[1]) = Items(stack[1])
        /\ stack'[1].job = j
    BY <1>1, <1>2, <2>1, <2>7, NewJobStep DEF Waiting
  <2>9. CallOf(j) = CallOf(t.job)
    BY <2>1 DEF CallOf, Storing
  <2> QED BY <1>2, <2>7, <2>8, <2>9, Quiet
<1> QED BY <1>4, <1>5 DEF Search

\* The steps of ht_delete.
LEMMA DeleteMap ==
  ASSUME StackInv, StackInv', MapInv, Delete
  PROVE  MapInv' /\ Map!Delete
<1> DEFINE t == Top
           k == Top.job.key
<1>1. t.job.pc = "delete" /\ reply' = reply
  BY DEF Delete, DeleteMiss, DeleteHit, Probe
<1>2. /\ Len(stack) = 1 /\ t = stack[1] /\ Sought(t) /\ FrameInv(t)
      /\ k \in Keys /\ TopSlot \in DOMAIN t.items
      /\ CallOf(stack[1].job) = [op |-> "delete", key |-> k, value |-> t.job.value]
  BY <1>1, SeekerIsClient
<1>3. FrameInv(stack'[1])
  BY DEF StackInv, StackOK
<1>4. SUFFICES /\ MapInv'
               /\ Contents(stack'[1]) = [Contents(t) EXCEPT ![k] = NULL]
               /\ CallOf(stack'[1].job) = Map!NoCall
  BY <1>1, <1>2, ClientView DEF Map!Delete, Map!Serve
<1>5. CallOf(Idle) = Map!NoCall
  BY DEF CallOf, Storing, Idle
<1>6. CASE DeleteMiss
  <2>1. t \in [base : Nat, capacity : Nat, count : Nat, items : {t.items},
               cursor : 0..t.capacity, job : Jobs]
    BY <1>2, Shape DEF FrameInv
  <2>2. [Top EXCEPT !.job = Idle].job = Idle
    BY ONLY <2>1
  <2>3. Sought([Top EXCEPT !.job = Idle])
    BY <2>2 DEF Sought, Idle
  <2>4. /\ MapInv'
        /\ Contents(stack'[1]) = Contents(t)
        /\ stack'[1].job = Idle
    BY <1>2, <1>6, <2>3, NewJobStep DEF DeleteMiss, Idle, Waiting
  <2>5. Contents(t)[k] = NULL
    BY <1>1, <1>2, <1>6, NotThere DEF DeleteMiss, Current, TopSlot
  <2>6. Contents(t) = [Contents(t) EXCEPT ![k] = NULL]
    BY <1>2, <2>5, ContentsOf
  <2> QED BY <1>5, <2>4, <2>6
<1>7. CASE DeleteHit
  <2> DEFINE s == TopSlot
             u == [t EXCEPT !.items[s] = TOMBSTONE, !.count = @ - 1]
  <2>1. s \in Live(t) /\ Holds(t.items[s], k)
    BY <1>2, <1>7 DEF DeleteHit, Current, Holds, Live
  <2>2. /\ FrameInv(u) /\ u.items = [t.items EXCEPT ![s] = TOMBSTONE]
        /\ u.job = t.job
    <3>1. Buried(t, s, [t EXCEPT !.items[s] = TOMBSTONE, !.count = @ - 1])
      BY <1>1, <1>2, <2>1, TombstoneFrame
    <3> QED BY <3>1 DEF Buried
  <2> HIDE DEF u
  <2>3. Contents(u) = [Contents(t) EXCEPT ![k] = NULL]
    BY <1>2, <2>1, <2>2, DeleteItems
  <2>4. u \in [base : Nat, capacity : Nat, count : Nat, items : {u.items},
               cursor : 0..u.capacity, job : Jobs] /\ TableOK(u)
    BY <2>2, Shape DEF FrameInv
  <2>5. CASE StartResize(u, u.base \div 2, "shrink") /\ u.base \div 2 >= MinBase
    <3> DEFINE b == u.base \div 2
    <3>1. b \in Nat /\ b >= MinBase /\ StartResize(u, b, "shrink")
      BY <2>4, <2>5
    <3> HIDE DEF b
    <3>2. ~(Len(stack) > 1) /\ "shrink" \in Waiting
      BY <1>2 DEF Waiting
    <3>3. /\ MapInv'
          /\ Contents(stack'[1]) = Contents(u)
          /\ stack'[1].job = [u.job EXCEPT !.pc = "shrink"]
      BY <1>2, <2>4, <3>1, <3>2, PushStep
    <3>4. [u.job EXCEPT !.pc = "shrink"].pc = "shrink"
      BY <2>4 DEF Jobs
    <3>5. CallOf([u.job EXCEPT !.pc = "shrink"]) = Map!NoCall
      BY <3>4 DEF CallOf, Storing
    <3> QED BY <2>3, <3>3, <3>5
  <2>6. CASE SetTop([u EXCEPT !.job = Idle])
    <3> DEFINE w == [u EXCEPT !.job = Idle]
    <3>0. SetTop(w)
      BY <2>6
    <3>1. w.job = Idle /\ w.items = u.items
      BY ONLY <2>4
    <3> HIDE DEF w
    <3>2. MapInv' /\ stack'[1] = w
      BY <1>2, <3>0, <3>1, SetTopStep DEF Idle, Waiting, Sought
    <3>3. Contents(w) = Contents(u)
      BY <3>1 DEF Contents, Live
    <3> QED BY <1>5, <2>3, <3>1, <3>2, <3>3
  <2> QED BY <1>7, <2>5, <2>6 DEF DeleteHit, u
<1> QED BY <1>6, <1>7 DEF Delete

\* The copying of a slot: the item is on its way from the old table to the new.
LEMMA CopySlotMap ==
  ASSUME StackInv, StackInv', MapInv, ResizeCopy
  PROVE  MapInv' /\ UNCHANGED Map!vars
<1> DEFINE t == Top
           n == Len(stack)
           c == Below.cursor
           item == Below.items[c]
           j == IF item \in {NULL, TOMBSTONE} THEN Idle
                ELSE [pc |-> "insert", key |-> item.key, value |-> item.value, attempt |-> 0]
           b == [Below EXCEPT !.cursor = c + 1]
           u == [t EXCEPT !.job = j]
<1>1. /\ n \in Nat /\ n >= 2 /\ n - 1 \in 1..(n - 1) /\ n - 1 \in 1..n /\ (n - 1) + 1 = n
      /\ t.job.pc = "idle" /\ reply' = reply /\ c < Below.capacity
  <2>1. n \in Nat
    BY DEF StackInv, StackOK
  <2>2. n > 1 /\ t.job.pc = "idle" /\ reply' = reply /\ c < Below.capacity
    BY DEF ResizeCopy, Probe
  <2> QED BY <2>1, <2>2
<1>2. FrameInv(t) /\ FrameInv(Below) /\ TableOK(t) /\ TableOK(Below) /\ Below.job.pc \in Waiting
  <2>1. n - 1 \in 1..n /\ n - 1 < n
    BY <1>1
  <2>2. FrameInv(Below) /\ Below.job.pc \in Waiting
    BY <2>1 DEF StackInv, StackOK, Below
  <2> QED BY <2>2, TopInv DEF FrameInv
<1>3. Copied(Below, t)
  BY <1>1 DEF MapInv, MapOK, Below, Top
<1>4. c \in 0..(Below.capacity - 1) /\ item \in Item \cup {NULL, TOMBSTONE}
  <2>1. Below.capacity \in Nat /\ Below.cursor \in 0..Below.capacity
    BY <1>2 DEF TableOK
  <2>2. c \in 0..(Below.capacity - 1)
    BY ONLY <1>1, <2>1
  <2> QED BY <1>2, <2>2, Shape
<1>5. /\ j.pc \in {"idle", "insert"}
      /\ item \in {NULL, TOMBSTONE} => j.pc = "idle"
      /\ item \notin {NULL, TOMBSTONE} =>
           j.pc = "insert" /\ [key |-> j.key, value |-> j.value] = item
  BY <1>4 DEF Idle, Item
<1> HIDE DEF j
<1>6. u.items = t.items /\ u.job = j /\ Items(u) = Items(t)
  <2>1. t \in [base : Nat, capacity : Nat, count : Nat, items : {t.items},
               cursor : 0..t.capacity, job : Jobs]
    BY <1>2, Shape
  <2>2. u.items = t.items /\ u.job = j
    BY ONLY <2>1
  <2> HIDE DEF u
  <2> QED BY <2>2 DEF Items, Live
<1>7. b.items = Below.items /\ b.job = Below.job /\ b.cursor = c + 1 /\ Live(b) = Live(Below)
  <2>1. Below \in [base : Nat, capacity : Nat, count : Nat, items : {Below.items},
               cursor : 0..Below.capacity, job : Jobs]
    BY <1>2, Shape
  <2>2. b.items = Below.items /\ b.job = Below.job /\ b.cursor = c + 1
    BY ONLY <2>1
  <2> HIDE DEF b
  <2> QED BY <2>2 DEF Live
<1>8. stack' = [stack EXCEPT ![n - 1] = b, ![n] = u]
  BY <1>1 DEF ResizeCopy, Below, Top, j
<1> HIDE DEF b, u
<1>9. Copied(b, u)
  <2>1. Items(t) = {Below.items[s] : s \in {r \in Live(Below) : r < c}}
    BY <1>1, <1>3 DEF Copied, Pending, Storing
  <2>2. Live(Below) \subseteq Nat /\ c \in Nat
    BY <1>2, <1>4, Shape DEF Live
  <2>3. CASE item \in {NULL, TOMBSTONE}
    <3>1. c \notin Live(Below)
      BY <2>3 DEF Live
    <3>2. {r \in Live(Below) : r < c + 1} = {r \in Live(Below) : r < c}
      BY <2>2, <3>1
    <3>3. Pending(u) = {}
      BY <1>5, <1>6, <2>3 DEF Pending, Storing
    <3> QED BY <1>6, <1>7, <2>1, <3>2, <3>3 DEF Copied
  <2>4. CASE item \notin {NULL, TOMBSTONE}
    <3>1. c \in Live(Below)
      BY <1>2, <1>4, <2>4, Shape DEF Live
    <3>2. {r \in Live(Below) : r < c + 1} = {r \in Live(Below) : r < c} \cup {c}
      BY <2>2, <3>1
    <3>3. Pending(u) = {item}
      BY <1>5, <1>6, <2>4 DEF Pending, Storing
    <3> QED BY <1>6, <1>7, <2>1, <3>2, <3>3 DEF Copied
  <2> QED BY <2>3, <2>4
<1>10. Items(b) \cup Pending(b) = Items(Below) \cup Pending(Below)
  BY <1>7 DEF Items, Pending
<1>11. MapInv'
  BY <1>1, <1>2, <1>5, <1>6, <1>7, <1>8, <1>9, <1>10, CopyMap DEF MapInv, StackInv, Below
<1>12. stack'[1] = IF n = 2 THEN b ELSE stack[1]
  <2> DEFINE st1 == [stack EXCEPT ![n - 1] = b]
  <2>1. stack \in Seq({stack[i] : i \in 1..n}) /\ n - 1 \in 1..n
    BY <1>1 DEF StackInv, StackOK
  <2>2. /\ Len(st1) = n /\ \A i \in 1..n : st1[i] = IF i = n - 1 THEN b ELSE stack[i]
        /\ st1 \in Seq({stack[i] : i \in 1..n} \cup {b})
    BY <2>1, SetFrame
  <2> HIDE DEF st1
  <2>3. \A i \in 1..n : [st1 EXCEPT ![n] = u][i] = IF i = n THEN u ELSE st1[i]
    <3>1. n \in 1..Len(st1) /\ Len(st1) = n
      <4>1. n \in 1..n
        BY ONLY <1>1
      <4> QED BY <2>2, <4>1
    <3>2. LET st2 == [st1 EXCEPT ![n] = u] IN
          Len(st2) = Len(st1) /\ \A i \in 1..Len(st2) : st2[i] = IF i = n THEN u ELSE st1[i]
      BY <2>2, <3>1, SetFrame
    <3> QED BY <3>1, <3>2
  <2>4. stack' = [st1 EXCEPT ![n] = u]
    BY <1>8 DEF st1
  <2>5. 1 \in 1..n /\ 1 # n /\ (1 = n - 1 <=> n = 2)
    BY ONLY <1>1
  <2> QED BY <2>2, <2>3, <2>4, <2>5
<1>13. n = 2 => Below = stack[1]
  BY DEF Below
<1>14. Items(stack'[1]) = Items(stack[1]) /\ stack'[1].job = stack[1].job
  BY <1>7, <1>12, <1>13 DEF Items
<1> QED BY <1>1, <1>11, <1>14, Quiet

\* The swap: by then the new table holds all that the old one held.
LEMMA SwapMap ==
  ASSUME StackInv, StackInv', MapInv, ResizeSwap
  PROVE  MapInv' /\ UNCHANGED Map!vars
<1> DEFINE t == Top
           n == Len(stack)
           j == Resume(Below.job)
           u == [t EXCEPT !.job = j]
<1>1. /\ n \in Nat /\ n >= 2 /\ n - 1 \in 1..(n - 1) /\ n - 1 \in 1..n /\ (n - 1) + 1 = n
      /\ t.job.pc = "idle" /\ reply' = reply /\ Below.cursor = Below.capacity
  BY DEF StackInv, StackOK, ResizeSwap, Probe
<1>2. FrameInv(t) /\ FrameInv(Below) /\ TableOK(t) /\ TableOK(Below) /\ Below.job.pc \in Waiting
  <2>1. n - 1 \in 1..n /\ n - 1 < n
    BY <1>1
  <2>2. FrameInv(Below) /\ Below.job.pc \in Waiting
    BY <2>1 DEF StackInv, StackOK, Below
  <2> QED BY <2>2, TopInv DEF FrameInv
<1>3. Copied(Below, t)
  BY <1>1 DEF MapInv, MapOK, Below, Top
<1>4. Items(t) = Items(Below)
  <2>1. \A s \in Live(Below) : s < Below.cursor
    BY <1>1, <1>2, Shape DEF Live
  <2>2. {r \in Live(Below) : r < Below.cursor} = Live(Below)
    BY <2>1
  <2> QED BY <1>1, <1>3, <2>2 DEF Copied, Pending, Storing, Items
<1>5. /\ j.pc \in {"probe", "insert", "idle"}
      /\ j.pc \in Storing <=> Below.job.pc \in Storing
      /\ j.pc \in Storing => j.key = Below.job.key /\ j.value = Below.job.value
  <2>1. Below.job \in Jobs
    BY <1>2 DEF TableOK
  <2>2. CASE Below.job.pc = "grow"
    BY <2>1, <2>2 DEF Resume, Jobs, Storing
  <2>3. CASE Below.job.pc = "retry"
    BY <2>1, <2>3 DEF Resume, Jobs, Storing
  <2>4. CASE Below.job.pc = "shrink"
    BY <2>4 DEF Resume, Idle, Storing
  <2> QED BY <1>2, <2>2, <2>3, <2>4 DEF Waiting
<1>6. CallOf(j) = CallOf(Below.job)
  BY <1>2, <1>5 DEF CallOf, Storing, Waiting
<1>7. stack' = [SubSeq(stack, 1, n - 1) EXCEPT ![n - 1] = u]
  BY DEF ResizeSwap
<1> HIDE DEF j
<1>8. u.items = t.items /\ u.job = j /\ Items(u) = Items(t)
  <2>1. t \in [base : Nat, capacity : Nat, count : Nat, items : {t.items},
               cursor : 0..t.capacity, job : Jobs]
    BY <1>2, Shape
  <2>2. u.items = t.items /\ u.job = j
    BY ONLY <2>1
  <2> HIDE DEF u
  <2> QED BY <2>2 DEF Items, Live
<1> HIDE DEF u
<1>9. Items(u) \cup Pending(u) = Items(Below) \cup Pending(Below)
  BY <1>4, <1>5, <1>8 DEF Pending
<1>10. MapInv'
  BY <1>1, <1>5, <1>7, <1>8, <1>9, PopMap DEF MapInv, StackInv, Below
<1>11. stack'[1] = IF n = 2 THEN u ELSE stack[1]
  <2>1. stack \in Seq({stack[i] : i \in 1..n})
    BY DEF StackInv, StackOK
  <2> DEFINE st2 == [SubSeq(stack, 1, n - 1) EXCEPT ![n - 1] = u]
  <2>2. Len(st2) = n - 1 /\ \A i \in 1..Len(st2) : st2[i] = IF i = Len(st2) THEN u ELSE stack[i]
    <3>1. PICK S : stack \in Seq(S)
      BY <2>1
    <3>2. Len(stack) >= 2
      BY <1>1
    <3>3. LET st == [SubSeq(stack, 1, Len(stack) - 1) EXCEPT ![Len(stack) - 1] = u] IN
          Len(st) = Len(stack) - 1 /\ \A i \in 1..Len(st) : st[i] = IF i = Len(st) THEN u ELSE stack[i]
      BY ONLY <3>1, <3>2, PopFrame
    <3> QED BY <3>3
  <2> HIDE DEF st2
  <2>4. stack' = st2
    BY <1>7 DEF st2
  <2>3. 1 \in 1..(n - 1) /\ (1 = n - 1 <=> n = 2)
    BY ONLY <1>1
  <2> QED BY <2>2, <2>3, <2>4
<1>12. n = 2 => Below = stack[1]
  BY DEF Below
<1>13. Items(stack'[1]) = Items(stack[1]) /\ CallOf(stack'[1].job) = CallOf(stack[1].job)
  BY <1>4, <1>6, <1>8, <1>11, <1>12
<1> QED BY <1>1, <1>10, <1>13, Quiet

\* Every step, or none, keeps MapInv and is one of the map, or leaves it alone.
LEMMA MapStep ==
  ASSUME StackInv, StackInv', MapInv, [Next]_vars
  PROVE  MapInv' /\ [Map!Next]_(Map!vars)
<1>1. CASE CallInsert
  BY <1>1, CallMap DEF CallInsert, Map!Next
<1>2. CASE CallSearch
  BY <1>2, CallMap DEF CallSearch, Map!Next
<1>3. CASE CallDelete
  BY <1>3, CallMap DEF CallDelete, Map!Next
<1>4. CASE Insert
  BY <1>4, InsertMap DEF Map!Next
<1>5. CASE Search
  BY <1>5, SearchMap DEF Map!Next
<1>6. CASE Delete
  BY <1>6, DeleteMap DEF Map!Next
<1>7. CASE Resize
  BY <1>7, CopySlotMap, SwapMap DEF Resize
<1>8. CASE UNCHANGED vars
  <2>1. stack' = stack /\ reply' = reply
    BY <1>8 DEF vars
  <2>2. MapInv'
    BY <2>1 DEF MapInv
  <2> QED BY <2>1, <2>2, Quiet
<1> QED BY <1>1, <1>2, <1>3, <1>4, <1>5, <1>6, <1>7, <1>8 DEF Next, Step

\* A fresh table is the empty map.
LEMMA MapInit == Init => MapInv /\ Map!Init
<1> SUFFICES ASSUME Init PROVE MapInv /\ Map!Init
  OBVIOUS
<1> DEFINE t == ht_new_sized(MinBase)
<1>1. stack = <<t>> /\ reply = NULL
  BY DEF Init
<1>2. t.job = Idle /\ t.items = [s \in 0..(NextPrime(MinBase) - 1) |-> NULL]
  BY DEF ht_new_sized
<1> HIDE DEF t
<1>3. Contents(t) = [k \in Keys |-> NULL]
  BY <1>2 DEF Contents, Live
<1>4. CallOf(Idle) = Map!NoCall
  BY DEF CallOf, Storing, Idle
<1>5. Sought(t)
  BY <1>2 DEF Sought, Idle
<1>6. MapInv
  BY <1>1, <1>5 DEF MapInv, MapOK
<1>7. Map!Init
  BY <1>1, <1>2, <1>3, <1>4, ClientView DEF Map!Init
<1> QED BY <1>6, <1>7

\* The hash table implements the map: every step of the probing, the copying
\* and the swap is a step of the map or changes nothing a client can see.
THEOREM Implementation == Spec => ImplementsMap
<1>1. StackInv /\ MapInv /\ [Next]_vars => StackInv' /\ MapInv' /\ [Map!Next]_(Map!vars)
  BY StackInvStep, MapStep
<1> QED BY <1>1, InitInv, MapInit, PTL DEF Spec, ImplementsMap, Map!Spec

----------------------------------------------------------------------------
(* Without ht_delete a table keeps an empty slot.  The load check lets an  *)
(* insertion into an unresized table only where two slots are free; a new  *)
(* table is at least twice the old one, and is sent no more items than the *)
(* loop of ht_resize has passed, so it has room for the item that made the *)
(* old one grow as well.                                                   *)

\* The items the loop of ht_resize has passed, and those on their way.
Passed(t) == {s \in Live(t) : s < t.cursor}
Owed(t) == IF t.job.pc \in Storing THEN 1 ELSE 0

Roomy(t) ==
  /\ t.capacity < 2 * t.base
  /\ \A s \in DOMAIN t.items : t.items[s] # TOMBSTONE
  /\ t.count < t.capacity
  /\ t.job.pc = "probe" => t.count + 1 < t.capacity
  /\ t.job.pc \notin {"delete", "shrink"}

Outgrows(old, new) ==
  /\ new.base >= 2 * old.base
  /\ new.count + Owed(new) <= Cardinality(Passed(old))

RoomOK(st) ==
  /\ \A i \in 1..Len(st) : Roomy(st[i])
  /\ \A i \in 1..(Len(st) - 1) : Outgrows(st[i], st[i + 1])
  /\ \A i \in 2..Len(st) : st[i].job.pc # "search"

RoomInv == RoomOK(stack)

\* Table t can take the place of table s in a table that ht_resize fills.
Replaces(t, s) ==
  /\ t.base \in Nat /\ t.count \in Nat /\ t.base >= s.base
  /\ t.count + Owed(t) <= s.count + Owed(s)
  /\ t.job.pc # "search"

\* The loop has passed no more items than the table counts.
LEMMA PassedFinite ==
  ASSUME NEW t, FrameInv(t)
  PROVE  /\ IsFiniteSet(Passed(t)) /\ Cardinality(Passed(t)) \in Nat
         /\ Cardinality(Passed(t)) <= t.count
<1>1. IsFiniteSet(Live(t)) /\ t.count = Cardinality(Live(t))
  BY LiveFinite DEF FrameInv
<1>2. Passed(t) \subseteq Live(t)
  BY DEF Passed
<1> QED BY <1>1, <1>2, FS_Subset, FS_CardinalityType

\* A table that has not grown fuller still outgrows the one below.
LEMMA ReplacesOutgrows ==
  ASSUME NEW old, FrameInv(old), NEW s, FrameInv(s), NEW t, Outgrows(old, s), Replaces(t, s)
  PROVE  Outgrows(old, t)
<1>1. Cardinality(Passed(old)) \in Nat /\ old.base \in Nat
  BY PassedFinite DEF FrameInv, TableOK
<1>2. s.base \in Nat /\ s.count \in Nat
  BY DEF FrameInv, TableOK
<1>3. Owed(s) \in Nat /\ Owed(t) \in Nat
  BY DEF Owed
<1> QED BY <1>1, <1>2, <1>3 DEF Outgrows, Replaces

\* The running call replaces its own table; the other three ways to change
\* the call stack follow.
LEMMA SetTopRoom ==
  ASSUME NEW st, StackOK(st), RoomOK(st), NEW t, Roomy(t),
         Len(st) > 1 => Replaces(t, st[Len(st)])
  PROVE  RoomOK([st EXCEPT ![Len(st)] = t])
<1> DEFINE st2 == [st EXCEPT ![Len(st)] = t]
<1>1. /\ Len(st2) = Len(st)
      /\ \A i \in 1..Len(st2) : st2[i] = IF i = Len(st) THEN t ELSE st[i]
      /\ Len(st) \in Nat /\ Len(st) >= 1
  BY SetFrame DEF StackOK
<1> HIDE DEF st2
<1>2. ASSUME NEW i \in 1..Len(st2) PROVE Roomy(st2[i])
  BY <1>1 DEF RoomOK
<1>3. ASSUME NEW i \in 1..(Len(st2) - 1) PROVE Outgrows(st2[i], st2[i + 1])
  <2>1. Outgrows(st[i], st[i + 1]) /\ st2[i] = st[i] /\ i + 1 \in 1..Len(st2)
    BY <1>1 DEF RoomOK
  <2>2. CASE i + 1 = Len(st)
    <3>1. FrameInv(st[i]) /\ FrameInv(st[i + 1]) /\ Replaces(t, st[i + 1])
      BY <1>1, <2>1, <2>2 DEF StackOK
    <3>2. Outgrows(st[i], t)
      BY <2>1, <3>1, ReplacesOutgrows
    <3> QED BY <1>1, <2>1, <2>2, <3>2
  <2>3. CASE i + 1 # Len(st)
    BY <1>1, <2>1, <2>3
  <2> QED BY <2>2, <2>3
<1>4. ASSUME NEW i \in 2..Len(st2) PROVE st2[i].job.pc # "search"
  BY <1>1 DEF RoomOK, Replaces
<1>5. RoomOK(st2)
  BY <1>2, <1>3, <1>4 DEF RoomOK
<1> QED BY <1>5 DEF st2

\* The running call starts to wait in ht_resize for a new table.
LEMMA PushRoom ==
  ASSUME NEW st, StackOK(st), RoomOK(st), NEW t, FrameInv(t), Roomy(t),
         Len(st) > 1 => Replaces(t, st[Len(st)]),
         NEW u, Roomy(u), u.base >= 2 * t.base, u.count = 0, u.job.pc = "idle"
  PROVE  RoomOK(Append([st EXCEPT ![Len(st)] = t], u))
<1> DEFINE st2 == Append([st EXCEPT ![Len(st)] = t], u)
<1>1. /\ Len(st2) = Len(st) + 1
      /\ \A i \in 1..Len(st2) :
           st2[i] = IF i = Len(st2) THEN u ELSE IF i = Len(st) THEN t ELSE st[i]
      /\ Len(st) \in Nat /\ Len(st) >= 1
  BY PushFrame DEF StackOK
<1> HIDE DEF st2
<1>2. Outgrows(t, u)
  BY PassedFinite DEF Outgrows, Owed, Storing
<1>3. ASSUME NEW i \in 1..Len(st2) PROVE Roomy(st2[i])
  BY <1>1 DEF RoomOK
<1>4. ASSUME NEW i \in 1..(Len(st2) - 1) PROVE Outgrows(st2[i], st2[i + 1])
  <2>1. i + 1 \in 1..Len(st2)
    BY <1>1
  <2>2. CASE i = Len(st)
    BY <1>1, <1>2, <2>1, <2>2
  <2>3. CASE i # Len(st)
    <3>1. Outgrows(st[i], st[i + 1]) /\ st2[i] = st[i]
      BY <1>1, <2>3 DEF RoomOK
    <3>2. CASE i + 1 = Len(st)
      <4>1. FrameInv(st[i]) /\ FrameInv(st[i + 1]) /\ Replaces(t, st[i + 1])
        BY <1>1, <3>1, <3>2 DEF StackOK
      <4>2. Outgrows(st[i], t)
        BY <3>1, <4>1, ReplacesOutgrows
      <4> QED BY <1>1, <2>1, <3>1, <3>2, <4>2
    <3>3. CASE i + 1 # Len(st)
      BY <1>1, <2>1, <2>3, <3>1, <3>3
    <3> QED BY <3>2, <3>3
  <2> QED BY <2>2, <2>3
<1>5. ASSUME NEW i \in 2..Len(st2) PROVE st2[i].job.pc # "search"
  BY <1>1 DEF RoomOK, Replaces
<1>6. RoomOK(st2)
  BY <1>3, <1>4, <1>5 DEF RoomOK
<1> QED BY <1>6 DEF st2

\* ht_resize returns.
LEMMA PopRoom ==
  ASSUME NEW st, StackOK(st), RoomOK(st), Len(st) >= 2, NEW t, Roomy(t),
         Replaces(t, st[Len(st) - 1])
  PROVE  RoomOK([SubSeq(st, 1, Len(st) - 1) EXCEPT ![Len(st) - 1] = t])
<1> DEFINE st2 == [SubSeq(st, 1, Len(st) - 1) EXCEPT ![Len(st) - 1] = t]
<1>1. /\ Len(st2) = Len(st) - 1
      /\ \A i \in 1..Len(st2) : st2[i] = IF i = Len(st2) THEN t ELSE st[i]
      /\ st2 \in Seq({st[i] : i \in 1..Len(st)} \cup {t})
  BY PopFrame DEF StackOK
<1> HIDE DEF st2
<1>2. Len(st) \in Nat
  BY DEF StackOK
<1>3. ASSUME NEW i \in 1..Len(st2) PROVE Roomy(st2[i])
  BY <1>1, <1>2 DEF RoomOK
<1>4. ASSUME NEW i \in 1..(Len(st2) - 1) PROVE Outgrows(st2[i], st2[i + 1])
  <2>1. i \in 1..(Len(st) - 1) /\ i \in 1..Len(st2) /\ i # Len(st2) /\ i + 1 \in 1..Len(st2)
    BY <1>1, <1>2
  <2>2. Outgrows(st[i], st[i + 1]) /\ st2[i] = st[i]
    BY <1>1, <2>1 DEF RoomOK
  <2>3. CASE i + 1 = Len(st2)
    <3>1. FrameInv(st[i]) /\ FrameInv(st[i + 1]) /\ Replaces(t, st[i + 1])
      BY <1>1, <1>2, <2>1, <2>3 DEF StackOK
    <3>2. Outgrows(st[i], t)
      BY <2>2, <3>1, ReplacesOutgrows
    <3> QED BY <1>1, <2>1, <2>2, <2>3, <3>2
  <2>4. CASE i + 1 # Len(st2)
    BY <1>1, <2>1, <2>2, <2>4
  <2> QED BY <2>3, <2>4
<1>5. ASSUME NEW i \in 2..Len(st2) PROVE st2[i].job.pc # "search"
  <2>1. i \in 2..Len(st) /\ i \in 1..Len(st2) /\ (st2[i] = t \/ st2[i] = st[i])
    BY <1>1, <1>2
  <2> QED BY <2>1 DEF RoomOK, Replaces
<1>6. RoomOK(st2)
  BY <1>3, <1>4, <1>5 DEF RoomOK
<1> QED BY <1>6 DEF st2

\* The copying loop moves on, and its insertion starts.
LEMMA CopyRoom ==
  ASSUME NEW st, StackOK(st), RoomOK(st), Len(st) >= 2,
         NEW t, Roomy(t), Replaces(t, st[Len(st) - 1]),
         NEW u, Roomy(u), Outgrows(t, u), u.job.pc # "search"
  PROVE  RoomOK([st EXCEPT ![Len(st) - 1] = t, ![Len(st)] = u])
<1> DEFINE st1 == [st EXCEPT ![Len(st) - 1] = t]
           st2 == [st1 EXCEPT ![Len(st)] = u]
<1>1. /\ Len(st1) = Len(st)
      /\ \A i \in 1..Len(st1) : st1[i] = IF i = Len(st) - 1 THEN t ELSE st[i]
      /\ st1 \in Seq({st[i] : i \in 1..Len(st)} \cup {t})
      /\ Len(st) \in Nat
  <2>1. st \in Seq({st[i] : i \in 1..Len(st)}) /\ Len(st) \in Nat /\ Len(st) - 1 \in 1..Len(st)
    BY DEF StackOK
  <2> QED BY ONLY <2>1, SetBelow
<1> HIDE DEF st1
<1>2. /\ Len(st2) = Len(st)
      /\ \A i \in 1..Len(st2) :
           st2[i] = IF i = Len(st) THEN u ELSE IF i = Len(st) - 1 THEN t ELSE st[i]
  BY <1>1, SetFrame DEF StackOK
<1> HIDE DEF st2
<1>3. ASSUME NEW i \in 1..Len(st2) PROVE Roomy(st2[i])
  BY <1>1, <1>2 DEF RoomOK
<1>4. ASSUME NEW i \in 1..(Len(st2) - 1) PROVE Outgrows(st2[i], st2[i + 1])
  <2>1. i + 1 \in 1..Len(st2) /\ Outgrows(st[i], st[i + 1])
    BY <1>1, <1>2 DEF RoomOK
  <2>2. CASE i = Len(st) - 1
    BY <1>1, <1>2, <2>1, <2>2
  <2>3. CASE i + 1 = Len(st) - 1
    <3>1. st2[i] = st[i] /\ st2[i + 1] = t /\ st[i + 1] = st[Len(st) - 1]
      BY <1>1, <1>2, <2>1, <2>3
    <3>2. FrameInv(st[i]) /\ FrameInv(st[i + 1])
      BY <1>1, <1>2, <2>1 DEF StackOK
    <3>3. Outgrows(st[i], t)
      BY <2>1, <3>1, <3>2, ReplacesOutgrows
    <3> QED BY <3>1, <3>3
  <2>4. CASE i + 1 < Len(st) - 1
    BY <1>1, <1>2, <2>1, <2>4
  <2> QED BY <1>1, <1>2, <2>2, <2>3, <2>4
<1>5. ASSUME NEW i \in 2..Len(st2) PROVE st2[i].job.pc # "search"
  BY <1>1, <1>2 DEF RoomOK, Replaces
<1>6. RoomOK(st2)
  BY <1>3, <1>4, <1>5 DEF RoomOK
<1> QED BY <1>6 DEF st1, st2

\* The load check: up to 70 % there is room for two more items.
LEMMA LoadLeavesRoom ==
  ASSUME NEW c \in Nat, NEW m \in Nat, m >= 5, (c * 100) \div m <= 70
  PROVE  c + 1 < m
<1> DEFINE x == c * 100
           q == x \div m
<1>1. x \in Nat /\ q \in Nat /\ x % m \in 0..(m - 1)
  BY ModRange
<1>2. x = m * q + (x % m)
  BY <1>1
<1>3. m * q <= m * 70
  BY <1>1
<1> HIDE DEF q
<1>4. x < m * 70 + m
  BY ONLY <1>1, <1>2, <1>3, m \in Nat, m * q \in Nat
<1> QED BY <1>4

\* Steps that only change the locals of the running call.
LEMMA JobRoom ==
  ASSUME StackInv, RoomInv, NEW j, SetTop([Top EXCEPT !.job = j]),
         j.pc \notin {"delete", "shrink"},
         j.pc = "probe" => Top.count + 1 < Top.capacity,
         Len(stack) > 1 => (j.pc \in Storing => Top.job.pc \in Storing) /\ j.pc # "search"
  PROVE  RoomInv'
<1> DEFINE u == [Top EXCEPT !.job = j]
           n == Len(stack)
<1>1. TableOK(Top) /\ FrameInv(Top) /\ n \in 1..n
  BY TopInv DEF FrameInv
<1>2. Roomy(Top)
  BY <1>1 DEF RoomInv, RoomOK, Top
<1>3. Top \in [base : Nat, capacity : Nat, count : Nat, items : {Top.items},
               cursor : 0..Top.capacity, job : Jobs]
  BY <1>1, Shape
<1>4. /\ u.base = Top.base /\ u.capacity = Top.capacity /\ u.count = Top.count
      /\ u.items = Top.items /\ u.job = j
      /\ Top.base \in Nat /\ Top.count \in Nat
  BY ONLY <1>3
<1>5. stack' = [stack EXCEPT ![n] = u]
  BY DEF SetTop
<1> HIDE DEF u
<1>6. Roomy(u)
  BY <1>2, <1>4 DEF Roomy
<1>7. n > 1 => Replaces(u, stack[n])
  BY <1>4 DEF Replaces, Owed, Top
<1> QED BY <1>5, <1>6, <1>7, SetTopRoom DEF StackInv, RoomInv

\* ht_resize begins, to twice the base.
LEMMA GrowRoom ==
  ASSUME StackInv, RoomInv, NEW pc \in {"grow", "retry"}, Top.job.pc \in Storing,
         Top.job.key \in Keys, Top.job.value \in Values,
         StartResize(Top, 2 * Top.base, pc)
  PROVE  RoomInv'
<1> DEFINE t == Top
           n == Len(stack)
           b == 2 * t.base
           j == [t.job EXCEPT !.pc = pc]
           u == [t EXCEPT !.job = j, !.cursor = 0]
           new == ht_new_sized(b)
<1>1. TableOK(t) /\ FrameInv(t) /\ n \in 1..n
  BY TopInv DEF FrameInv
<1>2. Roomy(t)
  BY <1>1 DEF RoomInv, RoomOK, Top
<1>3. t \in [base : Nat, capacity : Nat, count : Nat, items : {t.items},
             cursor : 0..t.capacity, job : Jobs]
  BY <1>1, Shape
<1>4. j \in Jobs /\ j.pc = pc /\ j.key = t.job.key /\ j.value = t.job.value
  BY <1>3 DEF Jobs
<1>5. [t EXCEPT !.job.pc = pc, !.cursor = 0] = u
  BY <1>3
<1> HIDE DEF j
<1>6. /\ u.base = t.base /\ u.capacity = t.capacity /\ u.count = t.count
      /\ u.items = t.items /\ u.job = j
      /\ t.base \in Nat /\ t.count \in Nat /\ t.capacity \in Nat
  BY ONLY <1>3
<1>7. FrameInv(u)
  <2>1. Probed(u)
    BY <1>4, <1>6 DEF Probed
  <2>2. 0 \in 0..t.capacity
    BY <1>6
  <2>3. /\ j.pc \in {"insert", "probe", "grow", "retry"} => j.key \in Keys /\ j.value \in Values
        /\ j.pc \in {"search", "delete"} => j.key \in Keys
    BY <1>4
  <2> QED BY <1>1, <1>4, <2>1, <2>2, <2>3, JobChange
<1>8. stack' = Append([stack EXCEPT ![n] = u], new)
  BY <1>5 DEF StartResize
<1> HIDE DEF u
<1>9. Roomy(u)
  BY <1>2, <1>4, <1>6 DEF Roomy
<1>10. n > 1 => Replaces(u, stack[n])
  BY <1>4, <1>6 DEF Replaces, Owed, Top, Storing
<1>11. Roomy(new) /\ new.base >= 2 * u.base /\ new.count = 0 /\ new.job.pc = "idle"
  <2>1. /\ new.base = b /\ new.capacity = NextPrime(b) /\ new.count = 0 /\ new.job = Idle
        /\ new.items = [s \in 0..(NextPrime(b) - 1) |-> NULL]
    BY DEF ht_new_sized
  <2>2. b \in Nat /\ b >= 2
    BY <1>1, <1>6, MinBaseAssumption DEF TableOK
  <2> HIDE DEF b, new
  <2>3. NextPrime(b) \in b..(2 * b - 1)
    BY ONLY <2>2, NextPrimeRange
  <2>4. Roomy(new)
    BY <2>1, <2>2, <2>3, SlotAssumption DEF Roomy, Idle
  <2> QED BY <1>6, <2>1, <2>2, <2>4 DEF Idle, b
<1> QED BY <1>7, <1>8, <1>9, <1>10, <1>11, PushRoom DEF StackInv, RoomInv

\* The steps of ht_insert.
LEMMA InsertRoom == ASSUME StackInv, RoomInv, Insert PROVE RoomInv'
<1> DEFINE t == Top
           n == Len(stack)
<1>1. TableOK(t) /\ FrameInv(t) /\ n \in 1..n
  BY TopInv DEF FrameInv
<1>2. Roomy(t)
  BY <1>1 DEF RoomInv, RoomOK, Top
<1>3. /\ t \in [base : Nat, capacity : Nat, count : Nat, items : {t.items},
                cursor : 0..t.capacity, job : Jobs]
      /\ 2 * t.base \in Nat /\ 2 * t.base >= MinBase /\ t.capacity >= 5
  BY <1>1, MinBaseAssumption DEF TableOK
<1>4. /\ t.job.pc \in {"insert", "probe"} /\ t.job \in Jobs /\ t.job.pc \in Storing
      /\ t.job.key \in Keys /\ t.job.value \in Values
  BY <1>1, <1>3 DEF Insert, InsertLoadCheck, InsertProbe, InsertOverwrite, InsertPlace,
     InsertGiveUp, Probe, TableOK, Storing
<1>5. CASE InsertLoadCheck
  <2>1. CASE StartResize(t, 2 * t.base, "grow")
    BY <1>4, <2>1, GrowRoom
  <2>2. CASE ~(Load(t) > 70) /\ SetTop([t EXCEPT !.job.pc = "probe", !.job.attempt = 0])
    <3> DEFINE j == [t.job EXCEPT !.pc = "probe", !.attempt = 0]
    <3>1. j.pc = "probe"
      BY <1>4 DEF Jobs
    <3>2. [t EXCEPT !.job.pc = "probe", !.job.attempt = 0] = [t EXCEPT !.job = j]
      BY <1>3
    <3>3. t.count + 1 < t.capacity
      <4>1. t.count \in Nat /\ t.capacity \in Nat /\ t.count * 100 \in Nat
        BY <1>3
      <4>2. (t.count * 100) \div t.capacity <= 70
        BY <1>3, <2>2, <4>1 DEF Load
      <4> QED BY <1>3, <4>1, <4>2, LoadLeavesRoom
    <3> HIDE DEF j
    <3> QED BY <1>4, <2>2, <3>1, <3>2, <3>3, JobRoom
  <2> QED BY <1>3, <1>5, <2>1, <2>2 DEF InsertLoadCheck
<1>6. CASE InsertProbe
  <2> DEFINE j == [t.job EXCEPT !.attempt = @ + 1]
  <2>1. j.pc = "probe" /\ t.job.pc = "probe"
    BY <1>4, <1>6 DEF Jobs, InsertProbe, Probe
  <2>2. [t EXCEPT !.job.attempt = @ + 1] = [t EXCEPT !.job = j]
    BY <1>3
  <2>3. SetTop([t EXCEPT !.job.attempt = @ + 1])
    BY <1>6 DEF InsertProbe
  <2> HIDE DEF j
  <2>4. t.count + 1 < t.capacity
    BY <1>2, <2>1 DEF Roomy
  <2> QED BY <1>4, <2>1, <2>2, <2>3, <2>4, JobRoom
<1>7. CASE InsertOverwrite \/ InsertPlace
  <2> DEFINE s == TopSlot
             item == [key |-> t.job.key, value |-> t.job.value]
  <2>1. PICK u :
          /\ stack' = [stack EXCEPT ![n] = u]
          /\ u.items = [t.items EXCEPT ![s] = item] /\ u.job = Idle
          /\ u.count \in {t.count, t.count + 1} /\ u.base = t.base /\ u.capacity = t.capacity
    <3>1. LET w == Put(t, s) IN
          /\ w.items = [t.items EXCEPT ![s] = item] /\ w.job = Idle
          /\ w.count = t.count /\ w.base = t.base /\ w.capacity = t.capacity
      BY <1>3 DEF Put
    <3>2. LET w == [Put(t, s) EXCEPT !.count = @ + 1] IN
          /\ w.items = [t.items EXCEPT ![s] = item] /\ w.job = Idle
          /\ w.count = t.count + 1 /\ w.base = t.base /\ w.capacity = t.capacity
      BY <1>3 DEF Put
    <3>3. CASE InsertOverwrite
      BY <3>1, <3>3 DEF InsertOverwrite, SetTop
    <3>4. CASE InsertPlace
      BY <3>2, <3>4 DEF InsertPlace, SetTop
    <3> QED BY <1>7, <3>3, <3>4
  <2>2. t.job.pc = "probe"
    BY <1>7 DEF InsertOverwrite, InsertPlace, Probe
  <2>3. item \in Item
    BY <1>4 DEF Item
  <2>4. item # TOMBSTONE
    BY <2>3, SlotAssumption
  <2> HIDE DEF item, s
  <2>5. \A r \in DOMAIN u.items : u.items[r] # TOMBSTONE
    BY <1>2, <2>1, <2>4 DEF Roomy
  <2>6. t.count \in Nat /\ t.base \in Nat /\ t.capacity \in Nat
    BY <1>3
  <2>7. u.count < u.capacity
    BY <1>2, <2>1, <2>2, <2>6 DEF Roomy
  <2>8. Roomy(u)
    BY <1>2, <2>1, <2>5, <2>7 DEF Roomy, Idle
  <2>9. Replaces(u, t)
    BY <1>4, <2>1, <2>6 DEF Replaces, Owed, Idle, Storing
  <2> QED BY <2>1, <2>8, <2>9, SetTopRoom DEF StackInv, RoomInv, Top
<1>8. CASE InsertGiveUp
  BY <1>3, <1>4, <1>8, GrowRoom DEF InsertGiveUp
<1> QED BY <1>5, <1>6, <1>7, <1>8 DEF Insert

\* The steps of ht_search; ht_delete is not running.
LEMMA SearchRoom == ASSUME StackInv, RoomInv, Search \/ Delete PROVE RoomInv'
<1>1. Roomy(Top) /\ TableOK(Top)
  <2>1. Len(stack) \in 1..Len(stack) /\ TableOK(Top)
    BY TopInv DEF FrameInv
  <2> QED BY <2>1 DEF RoomInv, RoomOK, Top
<1>2. Search /\ Top.job.pc = "search"
  BY <1>1 DEF Roomy, Search, Delete, SearchReturn, ProbeOn, DeleteMiss, DeleteHit, Probe
<1>3. ~(Len(stack) > 1)
  <2>1. Len(stack) \in Nat
    BY TopInv DEF StackInv, StackOK
  <2>2. Len(stack) > 1 => Len(stack) \in 2..Len(stack)
    BY <2>1
  <2> QED BY <1>2, <2>2 DEF RoomInv, RoomOK, Top
<1>4. CASE SearchReturn
  BY <1>3, <1>4, JobRoom DEF SearchReturn, Idle
<1>5. CASE ProbeOn
  <2> DEFINE j == [Top.job EXCEPT !.attempt = (@ + 1) % Width]
  <2>1. Top \in [base : Nat, capacity : Nat, count : Nat, items : {Top.items},
                 cursor : 0..Top.capacity, job : Jobs]
    BY <1>1, Shape
  <2>2. j.pc = "search"
    BY <1>2, <2>1 DEF Jobs
  <2>3. [Top EXCEPT !.job.attempt = (@ + 1) % Width] = [Top EXCEPT !.job = j]
    BY <2>1
  <2>4. SetTop([Top EXCEPT !.job.attempt = (@ + 1) % Width])
    BY <1>5 DEF ProbeOn
  <2> HIDE DEF j
  <2> QED BY <1>3, <2>2, <2>3, <2>4, JobRoom
<1> QED BY <1>2, <1>4, <1>5 DEF Search

\* The copying of a slot: the new table is owed an item when the loop passes one.
LEMMA CopySlotRoom == ASSUME StackInv, RoomInv, ResizeCopy PROVE RoomInv'
<1> DEFINE t == Top
           n == Len(stack)
           c == Below.cursor
           item == Below.items[c]
           j == IF item \in {NULL, TOMBSTONE} THEN Idle
                ELSE [pc |-> "insert", key |-> item.key, value |-> item.value, attempt |-> 0]
           b == [Below EXCEPT !.cursor = c + 1]
           u == [t EXCEPT !.job = j]
<1>1. /\ n \in Nat /\ n >= 2 /\ n - 1 \in 1..(n - 1) /\ n - 1 \in 1..n /\ n \in 1..n
      /\ (n - 1) + 1 = n /\ n - 1 < n /\ n \in 2..n
      /\ t.job.pc = "idle" /\ c < Below.capacity
  BY DEF StackInv, StackOK, ResizeCopy, Probe
<1>2. FrameInv(t) /\ FrameInv(Below) /\ TableOK(t) /\ TableOK(Below) /\ Below.job.pc \in Waiting
  <2>1. FrameInv(Below) /\ Below.job.pc \in Waiting
    BY <1>1 DEF StackInv, StackOK, Below
  <2> QED BY <2>1, TopInv DEF FrameInv
<1>3. Outgrows(Below, t) /\ Roomy(Below) /\ Roomy(t)
  BY <1>1 DEF RoomInv, RoomOK, Below, Top
<1>4. c \in 0..(Below.capacity - 1)
  <2>1. Below.capacity \in Nat /\ Below.cursor \in 0..Below.capacity
    BY <1>2 DEF TableOK
  <2> QED BY ONLY <1>1, <2>1
<1>5. j.pc = IF item \in {NULL, TOMBSTONE} THEN "idle" ELSE "insert"
  BY DEF Idle
<1>6. stack' = [stack EXCEPT ![n - 1] = b, ![n] = u]
  BY <1>1 DEF ResizeCopy, Below, Top
<1> HIDE DEF j
<1>7. /\ u.items = t.items /\ u.job = j /\ u.count = t.count
      /\ u.base = t.base /\ u.capacity = t.capacity /\ t.count \in Nat
  <2>1. t \in [base : Nat, capacity : Nat, count : Nat, items : {t.items},
               cursor : 0..t.capacity, job : Jobs]
    BY <1>2, Shape
  <2> QED BY ONLY <2>1
<1>8. /\ b.items = Below.items /\ b.job = Below.job /\ b.cursor = c + 1 /\ b.count = Below.count
      /\ b.base = Below.base /\ b.capacity = Below.capacity
      /\ Below.count \in Nat /\ Below.base \in Nat
  <2>1. Below \in [base : Nat, capacity : Nat, count : Nat, items : {Below.items},
               cursor : 0..Below.capacity, job : Jobs]
    BY <1>2, Shape
  <2> QED BY ONLY <2>1
<1> HIDE DEF b, u
<1>9. Roomy(b) /\ Roomy(u)
  BY <1>3, <1>5, <1>7, <1>8 DEF Roomy
<1>10. Replaces(b, Below)
  <2>1. Owed(b) = Owed(Below) /\ Owed(Below) \in Nat
    BY <1>8 DEF Owed
  <2> QED BY <1>2, <1>8, <2>1 DEF Replaces, Waiting
<1>11. Outgrows(b, u)
  <2>1. Live(b) = Live(Below) /\ Live(Below) \subseteq Nat /\ c \in Nat
    BY <1>2, <1>4, <1>8, Shape DEF Live
  <2>2. IsFiniteSet(Passed(Below)) /\ Cardinality(Passed(Below)) \in Nat
    BY <1>2, PassedFinite
  <2>3. t.count <= Cardinality(Passed(Below))
    BY <1>1, <1>3, <1>7, <2>2 DEF Outgrows, Owed, Storing
  <2>4. CASE item \in {NULL, TOMBSTONE}
    <3>1. c \notin Live(Below)
      BY <2>4 DEF Live
    <3>2. Passed(b) = Passed(Below)
      BY <1>8, <2>1, <3>1 DEF Passed
    <3>3. Owed(u) = 0
      BY <1>5, <1>7, <2>4 DEF Owed, Storing
    <3> QED BY <1>3, <1>7, <1>8, <2>3, <3>2, <3>3 DEF Outgrows
  <2>5. CASE item \notin {NULL, TOMBSTONE}
    <3>1. c \in Live(Below)
      BY <1>2, <1>4, <2>5, Shape DEF Live
    <3>2. Passed(b) = Passed(Below) \cup {c} /\ c \notin Passed(Below)
      BY <1>8, <2>1, <3>1 DEF Passed
    <3>3. Cardinality(Passed(b)) = Cardinality(Passed(Below)) + 1
      BY <2>2, <3>2, FS_AddElement
    <3>4. Owed(u) = 1
      BY <1>5, <1>7, <2>5 DEF Owed, Storing
    <3>5. u.count + Owed(u) <= Cardinality(Passed(b))
      BY <1>7, <2>2, <2>3, <3>3, <3>4
    <3> QED BY <1>3, <1>7, <1>8, <3>5 DEF Outgrows
  <2> QED BY <2>4, <2>5
<1> QED BY <1>1, <1>5, <1>6, <1>7, <1>9, <1>10, <1>11, CopyRoom DEF StackInv, RoomInv, Below

\* The swap: the new table is less than full by two slots.
LEMMA SwapRoom == ASSUME StackInv, RoomInv, ResizeSwap PROVE RoomInv'
<1> DEFINE t == Top
           n == Len(stack)
           j == Resume(Below.job)
           u == [t EXCEPT !.job = j]
<1>1. /\ n \in Nat /\ n >= 2 /\ n - 1 \in 1..(n - 1) /\ n - 1 \in 1..n /\ n \in 1..n
      /\ (n - 1) + 1 = n /\ n - 1 < n
      /\ t.job.pc = "idle"
  BY DEF StackInv, StackOK, ResizeSwap, Probe
<1>2. FrameInv(t) /\ FrameInv(Below) /\ TableOK(t) /\ TableOK(Below) /\ Below.job.pc \in Waiting
  <2>1. FrameInv(Below) /\ Below.job.pc \in Waiting
    BY <1>1 DEF StackInv, StackOK, Below
  <2> QED BY <2>1, TopInv DEF FrameInv
<1>3. Outgrows(Below, t) /\ Roomy(Below) /\ Roomy(t)
  BY <1>1 DEF RoomInv, RoomOK, Below, Top
<1>4. j.pc \in {"probe", "insert"} /\ Below.job.pc \in Storing
  <2>1. Below.job \in Jobs /\ Below.job.pc \in {"grow", "retry"}
    BY <1>2, <1>3 DEF TableOK, Roomy, Waiting
  <2> QED BY <2>1 DEF Resume, Jobs, Storing
<1>5. stack' = [SubSeq(stack, 1, n - 1) EXCEPT ![n - 1] = u]
  BY DEF ResizeSwap
<1> HIDE DEF j
<1>6. /\ u.items = t.items /\ u.job = j /\ u.count = t.count /\ u.base = t.base
      /\ u.capacity = t.capacity /\ t.count \in Nat /\ t.base \in Nat /\ t.capacity \in Nat
  <2>1. t \in [base : Nat, capacity : Nat, count : Nat, items : {t.items},
               cursor : 0..t.capacity, job : Jobs]
    BY <1>2, Shape
  <2> QED BY ONLY <2>1
<1> HIDE DEF u
<1>7. /\ Below.count \in Nat /\ Below.base \in Nat /\ Below.capacity \in Nat
      /\ t.capacity >= t.base
  BY <1>2 DEF TableOK
<1>8. t.count <= Below.count /\ t.base >= 2 * Below.base
  <2>1. /\ Cardinality(Passed(Below)) \in Nat
        /\ Cardinality(Passed(Below)) <= Below.count
    BY <1>2, PassedFinite
  <2>2. t.count <= Cardinality(Passed(Below))
    BY <1>1, <1>3, <1>6 DEF Outgrows, Owed, Storing
  <2> QED BY <1>3, <1>6, <1>7, <2>1, <2>2 DEF Outgrows
<1>9. t.count + 1 < t.capacity
  <2>1. Below.count < Below.capacity /\ Below.capacity < 2 * Below.base
    BY <1>3 DEF Roomy
  <2> QED BY <1>6, <1>7, <1>8, <2>1
<1>10. Roomy(u)
  BY <1>3, <1>4, <1>6, <1>9 DEF Roomy
<1>11. Replaces(u, Below)
  <2>1. Owed(u) = 1 /\ Owed(Below) = 1
    BY <1>4, <1>6 DEF Owed, Storing
  <2> QED BY <1>4, <1>6, <1>7, <1>8, <2>1 DEF Replaces
<1> QED BY <1>1, <1>5, <1>10, <1>11, PopRoom DEF StackInv, RoomInv, Below

\* Every step of the compiler's use, or none.
LEMMA RoomStep ==
  ASSUME StackInv, RoomInv, [CompilerNext]_vars
  PROVE  StackInv' /\ RoomInv'
<1>1. StackInv'
  <2>1. [Next]_vars
    BY DEF CompilerNext, Next
  <2> QED BY <2>1, StackInvStep
<1> SUFFICES RoomInv'
  BY <1>1
<1>2. ASSUME NEW pc \in {"insert", "search"}, NEW k, NEW v, Call(pc, k, v) PROVE RoomInv'
  <2> DEFINE j == [pc |-> pc, key |-> k, value |-> v, attempt |-> 0]
  <2>1. SetTop([Top EXCEPT !.job = j]) /\ ~(Len(stack) > 1)
    BY <1>2 DEF Call
  <2>2. j.pc \in {"insert", "search"}
    OBVIOUS
  <2> HIDE DEF j
  <2> QED BY <2>1, <2>2, JobRoom
<1>3. CASE CallInsert \/ CallSearch
  BY <1>2, <1>3 DEF CallInsert, CallSearch
<1>4. CASE Step
  BY <1>4, InsertRoom, SearchRoom, CopySlotRoom, SwapRoom DEF Step, Resize
<1>5. CASE UNCHANGED vars
  BY <1>5 DEF vars, RoomInv
<1> QED BY <1>3, <1>4, <1>5 DEF CompilerNext

\* A fresh table has room.
LEMMA RoomInit == Init => RoomInv
<1> SUFFICES ASSUME Init PROVE RoomInv
  OBVIOUS
<1> DEFINE t == ht_new_sized(MinBase)
<1>1. stack = <<t>>
  BY DEF Init
<1>2. /\ t.base = MinBase /\ t.capacity = NextPrime(MinBase) /\ t.count = 0 /\ t.job = Idle
      /\ t.items = [s \in 0..(NextPrime(MinBase) - 1) |-> NULL]
  BY DEF ht_new_sized
<1> HIDE DEF t
<1>3. NextPrime(MinBase) \in MinBase..(2 * MinBase - 1)
  BY MinBaseAssumption, NextPrimeRange
<1>4. Roomy(t)
  BY <1>2, <1>3, MinBaseAssumption, SlotAssumption DEF Roomy, Idle
<1> QED BY <1>1, <1>4 DEF RoomInv, RoomOK

\* As long as nothing is deleted, a table has an empty slot, which is what ends
\* a search for an absent key; the new tables that ht_resize fills included.
THEOREM NeverFull == CompilerSpec => []AlwaysAnEmptySlot
<1>1. StackInv /\ RoomInv => AlwaysAnEmptySlot
  <2> SUFFICES ASSUME StackInv, RoomInv, NEW i \in 1..Len(stack),
                      \A s \in DOMAIN stack[i].items : stack[i].items[s] # NULL
               PROVE  FALSE
    BY DEF AlwaysAnEmptySlot
  <2> DEFINE t == stack[i]
  <2>1. FrameInv(t) /\ Roomy(t)
    BY DEF StackInv, StackOK, RoomInv, RoomOK
  <2>2. DOMAIN t.items = 0..(t.capacity - 1) /\ t.capacity \in Nat
    BY <2>1, Shape DEF FrameInv
  <2>3. Live(t) = 0..(t.capacity - 1)
    BY <2>1, <2>2 DEF Live, Roomy
  <2>4. Cardinality(0..(t.capacity - 1)) = t.capacity
    BY <2>2, SlotsOf
  <2> QED BY <2>1, <2>2, <2>3, <2>4 DEF FrameInv, Roomy
<1> QED BY <1>1, InitInv, RoomInit, RoomStep, PTL DEF CompilerSpec
=============================================================================
