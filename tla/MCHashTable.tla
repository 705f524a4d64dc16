---------------------------- MODULE MCHashTable ----------------------------
(***************************************************************************)
(* Instances of HashTable.  The capacities are 5, 11 and 23 for 53, 107    *)
(* and 223, and a u32 has Width values, more than a probe of ht_insert     *)
(* computes at these capacities, as in the code: only the attempts of an   *)
(* endless search make it wrap.  The hashes make keys collide.             *)
(***************************************************************************)
EXTENDS HashTable, TLC

CONSTANTS k1, k2, k3, k4, k5

\* At capacity 5, k1 and k2 probe the same slots, k3 crosses them, and every probe
\* of k3 hits one slot: its second hash is 4, so its step is a multiple of 5,
\* as the step of the name "i" is a multiple of 53 in the compiler.
MixedHashA == k1 :> 0 @@ k2 :> 5 @@ k3 :> 1
MixedHashB == k1 :> 0 @@ k2 :> 5 @@ k3 :> 4

\* k4 and k5 start in one slot at capacity 11 and probe only that slot there,
\* so copying them into a table of that capacity resizes it during the copy.
DenseHashA == k1 :> 0 @@ k2 :> 1 @@ k3 :> 1 @@ k4 :> 3 @@ k5 :> 14
DenseHashB == k1 :> 0 @@ k2 :> 4 @@ k3 :> 2 @@ k4 :> 10 @@ k5 :> 21

ValueSymmetry == Permutations(Values)
=============================================================================
