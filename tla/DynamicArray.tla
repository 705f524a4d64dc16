---------------------------- MODULE DynamicArray ----------------------------
(***************************************************************************)
(* The growing array of src/sclc/src/ds/dynamic_array.c, as operators on   *)
(* its record: the count first items as a sequence, the capacity, and the  *)
(* size of an item, of which only zero or not matters.  Indices count from *)
(* zero, as in the code.  A call that the code refuses counts an error     *)
(* there and leaves the array as it is.                                    *)
(***************************************************************************)
EXTENDS Naturals, Sequences

dynamic_array_init(size) == [items |-> <<>>, capacity |-> 0, item_size |-> size]

dynamic_array_free(da) == dynamic_array_init(0)

Count(da) == Len(da.items)

InRange(da, index) == index < Count(da)

\* What the caller's item holds after a get: past the end, what it held before.
dynamic_array_get(da, index, item) ==
  IF InRange(da, index) THEN da.items[index + 1] ELSE item

dynamic_array_set(da, index, item) ==
  IF InRange(da, index) /\ da.item_size # 0
  THEN [da EXCEPT !.items = [@ EXCEPT ![index + 1] = item]] ELSE da

Doubled(da) == IF Count(da) = da.capacity THEN da.capacity * 2 ELSE da.capacity

\* Mutant of Grown: the array grows one item too late.
GrownLate(da) ==
  IF da.capacity = 0 THEN 4 ELSE IF Count(da) > da.capacity THEN da.capacity * 2 ELSE da.capacity

\* The capacity for one more item, by append.
Grown(da) == IF da.capacity = 0 THEN 4 ELSE Doubled(da)

dynamic_array_append(da, item) ==
  IF da.item_size = 0 THEN da
  ELSE [items |-> Append(da.items, item), capacity |-> Grown(da), item_size |-> da.item_size]

\* insert doubles even a capacity of zero, for which there is no room.
dynamic_array_insert(da, index, item) ==
  IF da.item_size = 0 \/ index > Count(da) THEN da
  ELSE [items |-> SubSeq(da.items, 1, index) \o <<item>> \o SubSeq(da.items, index + 1, Count(da)),
        capacity |-> Doubled(da), item_size |-> da.item_size]

dynamic_array_remove(da, index) ==
  IF da.item_size = 0 \/ ~InRange(da, index) THEN da
  ELSE [items |-> SubSeq(da.items, 1, index) \o SubSeq(da.items, index + 2, Count(da)),
        capacity |-> da.capacity, item_size |-> da.item_size]

\* The items are within the memory that the array owns.
WithinCapacity(da) == Count(da) <= da.capacity
=============================================================================
