------------------------------- MODULE Trees -------------------------------
(***************************************************************************)
(* The syntax tree that the parser hands over, which semantic analysis and *)
(* code generation walk: both read prog, and neither changes it.           *)
(***************************************************************************)
EXTENDS Ast

CONSTANTS Vocabularies,  \* sets of lines: a program is written with one of them
          MaxLines       \* bound on the length of a program

ASSUME VocabulariesAssumption ==
  /\ MaxLines \in Nat
  /\ \A vocabulary \in Vocabularies : \A line \in vocabulary : IsLine(line)

VARIABLE prog  \* the syntax tree
=============================================================================
