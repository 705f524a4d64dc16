----------------------------- MODULE HashTable -----------------------------
(***************************************************************************)
(* The open-addressing hash table behind every symbol table of the         *)
(* compiler (src/sclc/src/ds/ht.c): double hashing, tombstones, and        *)
(* resizing that re-inserts every item into a table of another capacity.   *)
(*                                                                         *)
(* One step is one turn of a loop of the code: a probe, or one slot of the *)
(* copying loop of ht_resize.  ht_insert calls ht_resize, which calls      *)
(* ht_insert on the new table, which may resize that one in turn: stack    *)
(* is that chain of calls.  stack[1] is the client's table and every later *)
(* element the new table being filled from the one below it.               *)
(***************************************************************************)
EXTENDS Naturals, Sequences, FiniteSets

CONSTANTS Keys, Values,
          HashA, HashB,    \* the two polynomial hashes of a key, before % m
          MinBase,         \* smallest base capacity, 53 in ht.c
          Width,           \* values of a u32, 2^32
          NULL, TOMBSTONE  \* an empty slot, and &HT_DELETED_ITEM

Item == [key : Keys, value : Values]

ASSUME MinBaseAssumption == MinBase \in Nat /\ MinBase >= 5
ASSUME WidthAssumption == Width \in Nat \ {0}
ASSUME HashAssumption == HashA \in [Keys -> Nat] /\ HashB \in [Keys -> Nat]
ASSUME SlotAssumption ==
  /\ NULL # TOMBSTONE
  /\ {NULL, TOMBSTONE} \cap (Item \cup Keys \cup Values) = {}

VARIABLES stack,   \* the tables the running calls work on, the client's first
          reply    \* what the last ht_search returned

vars == <<stack, reply>>

----------------------------------------------------------------------------
(* Capacities and probe sequences.                                         *)

IsPrime(x) == x >= 2 /\ \A d \in 2..(x - 1) : x % d # 0

IsNextPrime(x, p) == IsPrime(p) /\ \A q \in x..(p - 1) : ~IsPrime(q)

\* Mutant of NextPrime: the search goes down.
PreviousPrime(x) == CHOOSE p \in 2..x : IsPrime(p) /\ \A q \in (p + 1)..x : ~IsPrime(q)

\* A prime is always found below 2 * x (Bertrand), so the ELSE is never taken.
NextPrime(x) ==
  IF \E p \in x..(2 * x - 1) : IsNextPrime(x, p)
  THEN CHOOSE p \in x..(2 * x - 1) : IsNextPrime(x, p)
  ELSE x

\* ht_get_hash: the arithmetic is that of a u32.
Slot(k, m, attempt) ==
  (((HashA[k] % m) + attempt * ((HashB[k] % m) + 1)) % Width) % m

----------------------------------------------------------------------------
(* A frame is a struct ht with what the call working on it keeps in its    *)
(* locals: the arguments and the attempt of the probing loop (job), and    *)
(* the index of the copying loop of ht_resize (cursor).                    *)

Idle == [pc |-> "idle", key |-> NULL, value |-> NULL, attempt |-> 0]

ht_new_sized(b) ==
  LET m == NextPrime(b) IN
  [base |-> b, capacity |-> m, count |-> 0,
   items |-> [s \in 0..(m - 1) |-> NULL], cursor |-> 0, job |-> Idle]

Top == stack[Len(stack)]

TopSlot == Slot(Top.job.key, Top.capacity, Top.job.attempt)
Current == Top.items[TopSlot]

Holds(x, k) == x \notin {NULL, TOMBSTONE} /\ x.key = k

Live(t) == {s \in DOMAIN t.items : t.items[s] \notin {NULL, TOMBSTONE}}

Load(t) == (t.count * 100) \div t.capacity

SetTop(t) == stack' = [stack EXCEPT ![Len(stack)] = t]

\* ht_resize of table t, whose caller goes on at pc when the copy is done.
\* The size check of ht_resize comes first: below MinBase it does nothing.
StartResize(t, base, pc) ==
  stack' = Append([stack EXCEPT ![Len(stack)] =
                     [t EXCEPT !.job.pc = pc, !.cursor = 0]],
                  ht_new_sized(base))

Probe(pc) == Top.job.pc = pc

----------------------------------------------------------------------------
(* The client's calls.                                                     *)

Call(pc, k, v) ==
  /\ Len(stack) = 1
  /\ Probe("idle")
  /\ SetTop([Top EXCEPT !.job = [pc |-> pc, key |-> k, value |-> v, attempt |-> 0]])
  /\ UNCHANGED reply

CallInsert == \E k \in Keys, v \in Values : Call("insert", k, v)
CallSearch == \E k \in Keys : Call("search", k, NULL)
CallDelete == \E k \in Keys : Call("delete", k, NULL)

----------------------------------------------------------------------------
(* ht_insert.                                                              *)

\* Mutant of InsertLoadCheck: only a table that is already full grows.
LoadCheckWhenFull ==
  /\ Probe("insert")
  /\ IF Load(Top) >= 100 /\ 2 * Top.base >= MinBase
     THEN StartResize(Top, 2 * Top.base, "grow")
     ELSE SetTop([Top EXCEPT !.job.pc = "probe", !.job.attempt = 0])
  /\ UNCHANGED reply

InsertLoadCheck ==
  /\ Probe("insert")
  /\ IF Load(Top) > 70 /\ 2 * Top.base >= MinBase
     THEN StartResize(Top, 2 * Top.base, "grow")
     ELSE SetTop([Top EXCEPT !.job.pc = "probe", !.job.attempt = 0])
  /\ UNCHANGED reply

InsertProbe ==
  /\ Probe("probe")
  /\ Top.job.attempt < Top.capacity
  /\ Current # NULL
  /\ ~Holds(Current, Top.job.key)
  /\ SetTop([Top EXCEPT !.job.attempt = @ + 1])
  /\ UNCHANGED reply

Put(t, s) ==
  [t EXCEPT !.items[s] = [key |-> t.job.key, value |-> t.job.value], !.job = Idle]

\* Mutant of InsertOverwrite: an item put in the place of another is counted.
OverwriteCounts ==
  /\ Probe("probe")
  /\ Top.job.attempt < Top.capacity
  /\ Holds(Current, Top.job.key)
  /\ SetTop([Put(Top, TopSlot) EXCEPT !.count = @ + 1])
  /\ UNCHANGED reply

InsertOverwrite ==
  /\ Probe("probe")
  /\ Top.job.attempt < Top.capacity
  /\ Holds(Current, Top.job.key)
  /\ SetTop(Put(Top, TopSlot))
  /\ UNCHANGED reply

\* Mutant of InsertPlace: the slot of a deleted item is used again at once.
PlaceInTombstone ==
  /\ Probe("probe")
  /\ Top.job.attempt < Top.capacity
  /\ Current \in {NULL, TOMBSTONE}
  /\ SetTop([Put(Top, TopSlot) EXCEPT !.count = @ + 1])
  /\ UNCHANGED reply

InsertPlace ==
  /\ Probe("probe")
  /\ Top.job.attempt < Top.capacity
  /\ Current = NULL
  /\ SetTop([Put(Top, TopSlot) EXCEPT !.count = @ + 1])
  /\ UNCHANGED reply

\* Mutant of InsertGiveUp: insert again without growing first.
GiveUpAndRetry ==
  /\ Probe("probe")
  /\ Top.job.attempt >= Top.capacity
  /\ SetTop([Top EXCEPT !.job.pc = "insert"])
  /\ UNCHANGED reply

\* max_probes reached: grow, then insert again from the load check.
InsertGiveUp ==
  /\ Probe("probe")
  /\ Top.job.attempt >= Top.capacity
  /\ IF 2 * Top.base >= MinBase
     THEN StartResize(Top, 2 * Top.base, "retry")
     ELSE SetTop([Top EXCEPT !.job.pc = "insert"])
  /\ UNCHANGED reply

----------------------------------------------------------------------------
(* ht_search and ht_delete: the probing has no bound but the wrapping of   *)
(* the attempt, which ht_get_hash takes as a u32.                          *)

ProbeOn ==
  /\ Probe("search") \/ Probe("delete")
  /\ Current # NULL
  /\ ~Holds(Current, Top.job.key)
  /\ SetTop([Top EXCEPT !.job.attempt = (@ + 1) % Width])
  /\ UNCHANGED reply

\* Mutant of SearchReturn: a deleted item ends the search like an empty slot.
ReturnAtTombstone ==
  /\ Probe("search")
  /\ Current \in {NULL, TOMBSTONE} \/ Holds(Current, Top.job.key)
  /\ reply' = IF Current \in {NULL, TOMBSTONE} THEN NULL ELSE Current.value
  /\ SetTop([Top EXCEPT !.job = Idle])

SearchReturn ==
  /\ Probe("search")
  /\ Current = NULL \/ Holds(Current, Top.job.key)
  /\ reply' = IF Current = NULL THEN NULL ELSE Current.value
  /\ SetTop([Top EXCEPT !.job = Idle])

DeleteMiss ==
  /\ Probe("delete")
  /\ Current = NULL
  /\ SetTop([Top EXCEPT !.job = Idle])
  /\ UNCHANGED reply

DeleteHit ==
  /\ Probe("delete")
  /\ Holds(Current, Top.job.key)
  /\ LET t == [Top EXCEPT !.items[TopSlot] = TOMBSTONE, !.count = @ - 1] IN
     IF Load(t) < 10 /\ t.base \div 2 >= MinBase
     THEN StartResize(t, t.base \div 2, "shrink")
     ELSE SetTop([t EXCEPT !.job = Idle])
  /\ UNCHANGED reply

----------------------------------------------------------------------------
(* ht_resize: the copying loop, one slot of the old table a step.  The     *)
(* insertions it makes run as those of a client on the new table.          *)

Below == stack[Len(stack) - 1]

ResizeCopy ==
  /\ Len(stack) > 1
  /\ Probe("idle")
  /\ Below.cursor < Below.capacity
  /\ LET item == Below.items[Below.cursor]
         job == IF item \in {NULL, TOMBSTONE} THEN Idle
                ELSE [pc |-> "insert", key |-> item.key, value |-> item.value, attempt |-> 0]
     IN stack' = [stack EXCEPT ![Len(stack) - 1] = [Below EXCEPT !.cursor = @ + 1],
                               ![Len(stack)] = [Top EXCEPT !.job = job]]
  /\ UNCHANGED reply

\* Where the caller of ht_resize goes on.
Resume(job) ==
  CASE job.pc = "grow"   -> [job EXCEPT !.pc = "probe", !.attempt = 0]
    [] job.pc = "retry"  -> [job EXCEPT !.pc = "insert"]
    [] job.pc = "shrink" -> Idle

ResizeSwap ==
  /\ Len(stack) > 1
  /\ Probe("idle")
  /\ Below.cursor = Below.capacity
  /\ stack' = [SubSeq(stack, 1, Len(stack) - 1) EXCEPT ![Len(stack) - 1] =
                 [Top EXCEPT !.job = Resume(Below.job)]]
  /\ UNCHANGED reply

----------------------------------------------------------------------------
Init == stack = <<ht_new_sized(MinBase)>> /\ reply = NULL

Insert == InsertLoadCheck \/ InsertProbe \/ InsertOverwrite \/ InsertPlace \/ InsertGiveUp
Search == SearchReturn \/ ProbeOn
Delete == DeleteMiss \/ DeleteHit
Resize == ResizeCopy \/ ResizeSwap

Step == Insert \/ Search \/ Delete \/ Resize

Next == CallInsert \/ CallSearch \/ CallDelete \/ Step

Spec == Init /\ [][Next]_vars

\* The compiler's own use: its symbol tables only insert and search.
CompilerNext == CallInsert \/ CallSearch \/ Step

CompilerSpec == Init /\ [][CompilerNext]_vars /\ WF_vars(Step)

----------------------------------------------------------------------------
(* Properties.                                                             *)

Jobs == [pc : {"idle", "insert", "probe", "search", "delete", "grow", "retry", "shrink"},
         key : Keys \cup {NULL}, value : Values \cup {NULL}, attempt : Nat]

TableOK(t) ==
  /\ t \in [base : Nat, capacity : Nat, count : Nat,
            items : [0..(t.capacity - 1) -> Item \cup {NULL, TOMBSTONE}],
            cursor : 0..t.capacity, job : Jobs]
  /\ t.base >= MinBase
  /\ t.capacity >= t.base
  /\ t.job.pc \in {"insert", "probe", "grow", "retry"} =>
       t.job.key \in Keys /\ t.job.value \in Values
  /\ t.job.pc \in {"search", "delete"} => t.job.key \in Keys

\* Types of the variables: every table on the call stack is a struct ht with
\* an item, NULL or &HT_DELETED_ITEM in every slot, only the topmost call runs
\* and all below it wait in ht_resize.
TypeOK ==
  /\ stack \in Seq({stack[i] : i \in 1..Len(stack)})
  /\ Len(stack) >= 1
  /\ \A i \in 1..Len(stack) :
       /\ TableOK(stack[i])
       /\ stack[i].job.pc \in {"grow", "retry", "shrink"} <=> i < Len(stack)
  /\ reply \in Values \cup {NULL}

\* An item can be reached when every slot its key probes before it is neither
\* empty, which would end ht_search early, nor holds the key itself.
Reachable(t, s) ==
  \E a \in 0..(t.capacity - 1) :
    /\ Slot(t.items[s].key, t.capacity, a) = s
    /\ \A b \in 0..(a - 1) :
         LET x == t.items[Slot(t.items[s].key, t.capacity, b)] IN
         x # NULL /\ ~Holds(x, t.items[s].key)

\* Every item of every table, the ones being filled by ht_resize included, is
\* the one that ht_search and ht_delete find for its key, whatever was
\* deleted, overwritten or moved to another capacity before.  So no key has
\* two items, and no old value resurfaces when the new one is deleted.
EveryItemFindable ==
  \A i \in 1..Len(stack) : \A s \in Live(stack[i]) : Reachable(stack[i], s)

\* count, which decides every resize, is the number of items in the table,
\* through overwriting, deletion and the hand-over of ht_resize.
CountIsLive ==
  \A i \in 1..Len(stack) : stack[i].count = Cardinality(Live(stack[i]))

\* Without ht_delete, as the compiler uses the table, a table always keeps an
\* empty slot: the load check of ht_insert runs before the item is added, yet
\* the table cannot fill up, which ht_search relies on to end at all.
AlwaysAnEmptySlot ==
  \A i \in 1..Len(stack) : \E s \in DOMAIN stack[i].items : stack[i].items[s] = NULL

ClientIdle == Len(stack) = 1 /\ Probe("idle")

\* Every call of the compiler returns: the probing of ht_search, which has no
\* bound of its own, and the insertions that resize while resizing, all end.
EveryCallReturns == []<>ClientIdle

----------------------------------------------------------------------------
(* The table implements a map.  The client's view is stack[1]: a delete    *)
(* has taken effect, and is over, when it goes on to shrink the table.     *)

Contents(t) ==
  LET live == Live(t)
      At(k) == CHOOSE s \in live : t.items[s].key = k
  IN  [k \in Keys |-> IF \E s \in live : t.items[s].key = k THEN t.items[At(k)].value ELSE NULL]

ClientCall ==
  LET job == stack[1].job
      op == CASE job.pc \in {"insert", "probe", "grow", "retry"} -> "insert"
              [] job.pc \in {"search", "delete"} -> job.pc
              [] OTHER -> "none"
  IN  IF op = "none"
      THEN [op |-> "none", key |-> NULL, value |-> NULL]
      ELSE [op |-> op, key |-> job.key, value |-> job.value]

Map == INSTANCE AbstractMap WITH contents <- Contents(stack[1]), call <- ClientCall

\* ht_insert, ht_search and ht_delete behave as the operations of a map: what
\* a search returns is the last value inserted for the key and not deleted
\* since, and a resize in between, nested ones included, changes nothing.
ImplementsMap == Map!Spec
=============================================================================
