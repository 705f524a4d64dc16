------------------------------ MODULE MCDriver ------------------------------
(***************************************************************************)
(* Driver on command lines of up to three arguments over two source files  *)
(* and every option; two fstates fit in the file arena, as in the program. *)
(***************************************************************************)
EXTENDS Driver

SourceFiles == {"a.scl", "b.scl"}
SourceNames == {"a", "b"}
Extraction == [f \in SourceFiles |-> IF f = "a.scl" THEN "a" ELSE "b"]
=============================================================================
