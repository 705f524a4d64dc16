------------------------------- MODULE Arena -------------------------------
(***************************************************************************)
(* The bump allocator of src/sclc/src/ds/arena.c: a capacity and the       *)
(* position of the first free byte.  Sizes are those of the program's      *)
(* types, so that the sums of the code stay far below 2^64.                *)
(***************************************************************************)
EXTENDS Naturals

ARENA_ALIGN == 8

arena_init(capacity) == [pos |-> 0, capacity |-> capacity]

\* The first aligned position that is not before n.
AlignUp(n) == ((n + (ARENA_ALIGN - 1)) \div ARENA_ALIGN) * ARENA_ALIGN

\* Mutant of HasRoom: the size is forgotten.
HasStart(arena, size) == AlignUp(arena.pos) < arena.capacity

HasRoom(arena, size) == AlignUp(arena.pos) + size <= arena.capacity

\* Without room the caller gets NULL, an error is counted and the arena stays.
arena_push(arena, size) ==
  IF HasRoom(arena, size)
  THEN [pos |-> AlignUp(arena.pos) + size, capacity |-> arena.capacity] ELSE arena

\* The bytes that a push with room hands out.
Region(arena, size) == AlignUp(arena.pos)..(AlignUp(arena.pos) + size - 1)

arena_pop(arena, size) ==
  [pos |-> IF size > arena.pos THEN 0 ELSE arena.pos - size, capacity |-> arena.capacity]

arena_pop_to(arena, pos) ==
  [pos |-> IF pos <= arena.pos THEN pos ELSE arena.pos, capacity |-> arena.capacity]

arena_clear(arena) == arena_init(arena.capacity)
=============================================================================
