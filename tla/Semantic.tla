------------------------------ MODULE Semantic ------------------------------
(***************************************************************************)
(* Semantic analysis: the walk of check_semantics over the syntax tree     *)
(* (src/sclc/src/semantic.c).                                              *)
(*                                                                         *)
(* A step is one instruction, or the end of a body.  A loop gets a copy of *)
(* the table of variables around it, a function a table of its own, and    *)
(* every other body works on the table of what it is in.  Errors are       *)
(* counted, and looked at when the walk is over.                           *)
(***************************************************************************)
EXTENDS Trees, Programs, FiniteSets

VARIABLES
  looking,  \* the line of the next instruction
  inside,   \* the lines of the constructs whose bodies are being checked
  tables,   \* names in the tables of variables: fst.variables, then those of
            \* the functions and loops among inside
  stage,    \* "parse", "variables", or "checked" when all has been looked at
  reported  \* scu_perror was called

sem == <<looking, inside, tables, stage, reported>>

LookedAt == prog[looking]
Inmost == inside[Len(inside)]
Table == tables[Len(tables)]
AllButLast(s) == SubSeq(s, 1, Len(s) - 1)

OwnTable == Loops \cup {"fn"}

Undeclared(name) == name \notin Table

\* term_check_variables looks a plain variable up, and those of arguments it
\* has a parameter for; term_type also what is read through a place.
VariablesLookedUp == LookedAt.read = "name"
Typechecked == LookedAt.read \in {"name", "place"}

\* scu_perror, for which a condition must hold.
Report(wrong) == reported' = (reported \/ wrong)

----------------------------------------------------------------------------
ParseLine ==
  /\ stage = "parse" /\ Len(prog) < MaxLines
  /\ \E vocabulary \in Vocabularies : \E line \in vocabulary :
       /\ \A i \in 1..Len(prog) : prog[i] \in vocabulary
       /\ Fits(prog, line)
       /\ prog' = Append(prog, line)
  /\ UNCHANGED <<looking, inside, tables, stage, reported>>

Start ==
  /\ stage = "parse" /\ stage' = "variables"
  /\ UNCHANGED <<prog, looking, inside, tables, reported>>

BodyGoesOn ==
  /\ stage = "variables" /\ looking <= Len(prog)
  /\ inside # <<>> => LookedAt.depth > prog[Inmost].depth

PartFollows ==
  /\ stage = "variables" /\ looking <= Len(prog) /\ inside # <<>>
  /\ LookedAt.depth = prog[Inmost].depth /\ LookedAt.kind \in Parts

Checking(kinds) == BodyGoesOn /\ LookedAt.kind \in kinds

----------------------------------------------------------------------------
(* Functions.  One that is not on the top level is not looked at.          *)

check_function_body ==
  /\ Checking({"fn"}) /\ inside = <<>>
  /\ tables' = Append(tables, {LookedAt.name})
  /\ inside' = <<looking>> /\ looking' = looking + 1
  /\ UNCHANGED <<prog, stage, reported>>

SkipFunction ==
  /\ Checking({"fn"}) /\ inside # <<>>
  /\ looking' = EndOf(prog, looking)
  /\ UNCHANGED <<prog, inside, tables, stage, reported>>

\* check_return_statement is called for the instructions of a function, and
\* not for those in the bodies of its instructions.
check_return_statement ==
  /\ Checking({"return"})
  /\ LET checked == inside # <<>> /\ prog[Inmost].kind = "fn" IN
     Report(checked /\ LookedAt.name # NoName /\ Typechecked /\ Undeclared(LookedAt.name))
  /\ looking' = looking + 1
  /\ UNCHANGED <<prog, inside, tables, stage>>

----------------------------------------------------------------------------
(* instr_check_variables and instr_typecheck of one instruction.           *)

declare_variables ==
  /\ Checking({"declare"})
  /\ tables' = [tables EXCEPT ![Len(tables)] = @ \cup {LookedAt.name}]
  /\ looking' = looking + 1
  /\ UNCHANGED <<prog, inside, stage, reported>>

UseVariable ==
  /\ Checking({"use"})
  /\ Report(Typechecked /\ Undeclared(LookedAt.name))
  /\ looking' = looking + 1
  /\ UNCHANGED <<prog, inside, tables, stage>>

\* Labels and jumps have no variables.
Jump ==
  /\ Checking({"goto", "label", "break", "continue"})
  /\ looking' = looking + 1
  /\ UNCHANGED <<prog, inside, tables, stage, reported>>

\* The condition is typechecked after the bodies.
IfOrMatch ==
  /\ Checking({"if", "match"})
  /\ Report(VariablesLookedUp /\ Undeclared(LookedAt.name))
  /\ inside' = Append(inside, looking) /\ looking' = looking + 1
  /\ UNCHANGED <<prog, tables, stage>>

\* Mutant of check_loop: the loop starts without the names around it.
LoopStartsEmpty ==
  /\ Checking(Loops)
  /\ tables' = Append(tables, IF LookedAt.kind = "for" THEN {LookedAt.name} ELSE {})
  /\ Report(/\ LookedAt.kind \in {"while", "dowhile"}
            /\ VariablesLookedUp /\ Undeclared(LookedAt.name))
  /\ inside' = Append(inside, looking) /\ looking' = looking + 1
  /\ UNCHANGED <<prog, stage>>

\* The condition is checked before the body, also that of a do-while, and it is
\* not typechecked.
check_loop ==
  /\ Checking(Loops)
  /\ tables' = Append(tables, Table \cup (IF LookedAt.kind = "for" THEN {LookedAt.name} ELSE {}))
  /\ Report(/\ LookedAt.kind \in {"while", "dowhile"}
            /\ VariablesLookedUp /\ Undeclared(LookedAt.name))
  /\ inside' = Append(inside, looking) /\ looking' = looking + 1
  /\ UNCHANGED <<prog, stage>>

\* The bodies of else-if arms are not looked at.
SkipElseIf ==
  /\ PartFollows /\ LookedAt.kind = "elif"
  /\ looking' = EndOf(prog, looking)
  /\ UNCHANGED <<prog, inside, tables, stage, reported>>

NextArm ==
  /\ PartFollows /\ LookedAt.kind # "elif"
  /\ looking' = looking + 1
  /\ UNCHANGED <<prog, inside, tables, stage, reported>>

\* Conditions that instr_typecheck is the first to look at.
TypecheckedOnly(line) ==
  \/ line.kind = "elif" /\ line.read # "argument"
  \/ line.kind \in {"if", "match"} /\ line.read = "place"

\* Those of the if or the match at line i: its own, and of the else-if arms.
Conditions(p, i) == {j \in i..(AfterAll(p, i) - 1) :
  p[j].depth = p[i].depth /\ TypecheckedOnly(p[j])}

\* Mutant of Close: the loop has worked on the table around it.
CloseKeepsNames ==
  /\ stage = "variables" /\ inside # <<>> /\ ~BodyGoesOn /\ ~PartFollows
  /\ tables' = CASE prog[Inmost].kind = "fn" -> AllButLast(tables)
                 [] prog[Inmost].kind \in Loops -> Append(AllButLast(AllButLast(tables)), Table)
                 [] OTHER -> tables
  /\ Report(/\ prog[Inmost].kind \in {"if", "match"}
            /\ \E j \in Conditions(prog, Inmost) : Undeclared(prog[j].name))
  /\ inside' = AllButLast(inside)
  /\ UNCHANGED <<prog, looking, stage>>

\* instr_typecheck of an if or a match comes after its bodies.
Close ==
  /\ stage = "variables" /\ inside # <<>> /\ ~BodyGoesOn /\ ~PartFollows
  /\ tables' = IF prog[Inmost].kind \in OwnTable THEN AllButLast(tables) ELSE tables
  /\ Report(/\ prog[Inmost].kind \in {"if", "match"}
            /\ \E j \in Conditions(prog, Inmost) : Undeclared(prog[j].name))
  /\ inside' = AllButLast(inside)
  /\ UNCHANGED <<prog, looking, stage>>

----------------------------------------------------------------------------
(* instrs_check_labels, of the instructions of the top level.              *)

\* An if that is the one instruction of an arm without braces.
Single(p, i) ==
  /\ p[i].kind = "if" /\ p[i].depth > 0 /\ p[i - 1].depth < p[i].depth
  /\ AfterAll(p, i) <= Len(p) => p[AfterAll(p, i)].depth < p[i].depth

Within(p, i) == {j \in 1..Len(p) : Encloses(p, j, i)}

\* Labels and gotos looked at: on the top level, and in the if and else arms
\* there.  Whether an if without braces is among them (single) is undefined: it
\* is read through an array whose item size is not set.
LabelsAndGotos(p, single) ==
  {i \in 1..Len(p) :
     /\ p[i].kind \in {"label", "goto"}
     /\ \A j \in Within(p, i) : p[j].kind \in {"if", "else"}
     /\ ~single => ~\E k \in 1..(i - 1) : Single(p, k) /\ i < AfterAll(p, k)}

\* The labels of the top level come first, then its gotos, then the ifs.
LabelErrors(p, single) ==
  LET looked == LabelsAndGotos(p, single)
      SeenBefore(k, i) ==
        IF p[k].depth = 0 THEN p[i].depth = 0 /\ p[i].kind = "label" => k < i
        ELSE p[i].depth > 0 /\ k < i
      Known(i) == \E k \in looked : p[k].kind = "label" /\ p[k].name = p[i].name /\ SeenBefore(k, i)
  IN  \E i \in looked : IF p[i].kind = "label" THEN Known(i) ELSE ~Known(i)

VariablesChecked == stage = "variables" /\ inside = <<>> /\ looking > Len(prog)

\* The walk reads an instruction from memory that is not set.
ReadsUnset(p) == \E i \in 2..Len(p) :
  Single(p, i) /\ \A j \in Within(p, i) : p[j].kind \in {"if", "else"}

instrs_check_labels ==
  /\ VariablesChecked
  /\ \E single, spurious \in BOOLEAN :
       /\ spurious => ReadsUnset(prog)
       /\ Report(spurious \/ LabelErrors(prog, single))
  /\ stage' = "checked"
  /\ UNCHANGED <<prog, looking, inside, tables>>

----------------------------------------------------------------------------
SemanticInit ==
  /\ prog = <<>> /\ looking = 1 /\ inside = <<>> /\ tables = <<{}>>
  /\ stage = "parse" /\ reported = FALSE

Check ==
  \/ Start
  \/ check_function_body \/ SkipFunction \/ check_return_statement
  \/ declare_variables \/ UseVariable \/ Jump \/ IfOrMatch \/ check_loop
  \/ SkipElseIf \/ NextArm \/ Close
  \/ instrs_check_labels

SemanticNext == ParseLine \/ Check

SemanticSpec == SemanticInit /\ [][SemanticNext]_<<prog, sem>>

\* scu_check_errors does not end the run.
Accepted == stage = "checked" /\ ~reported

----------------------------------------------------------------------------
(* Properties.                                                             *)

\* The tables are those of fst and of the functions and loops open, and inside
\* a function a loop knows every name that is known around it.
TablesOK ==
  /\ looking \in 1..(Len(prog) + 1)
  /\ \A k \in 1..Len(inside) : inside[k] \in 1..(looking - 1)
  /\ Len(tables) = 1 + Cardinality({k \in 1..Len(inside) : prog[inside[k]].kind \in OwnTable})
  /\ \A k \in 3..Len(tables) : tables[k - 1] \subseteq tables[k]
  /\ stage \in {"parse", "variables", "checked"} /\ reported \in BOOLEAN

\* Bodies that are not looked at: of else-if arms, and of nested functions.
Overlooked(p, i) ==
  \/ \E j \in Within(p, i) : p[j].kind = "elif"
  \/ \E j \in Within(p, i) \cup {i} : p[j].kind = "fn" /\ p[j].depth > 0

\* The line by which the name that line i reads must have been declared, 0
\* when nobody looks at it, as in a loop's condition that reads it through a
\* dereference, an address or an array element.  Such a condition of an if or a
\* match, and any of an else-if, is looked at where the if or match ends.
Deadline(p, i) ==
  IF Overlooked(p, i) \/ ~ReadsName(p, i) \/ p[i].read = "argument" THEN 0
  ELSE CASE p[i].kind = "return" -> IF p[i].depth = 1 /\ FnOf(p, i) # 0 THEN i ELSE 0
         [] p[i].kind \in {"while", "dowhile"} -> IF p[i].read = "name" THEN i ELSE 0
         [] TypecheckedOnly(p[i]) -> AfterAll(p, i)
         [] OTHER -> i

\* The same program with the declarations that are not looked at left out.
Seen(p) == [i \in 1..Len(p) |->
  IF p[i].kind = "declare" /\ Overlooked(p, i) THEN [p[i] EXCEPT !.kind = "label"] ELSE p[i]]

\* Tables that are copied into loops and dropped after them amount to lexical
\* scoping: an error is reported for the variables exactly if a name that is
\* looked at is not visible where it is looked at, which Deadline says.
NamesAsDeclared ==
  VariablesChecked =>
    (reported <=> \E i \in 1..Len(prog) :
       Deadline(prog, i) # 0 /\ prog[i].name \notin VisibleAt(Seen(prog), i, Deadline(prog, i)))

\* semantic.h:26-27 has check_semantics go through all the variables and labels
\* of the tree: in a program it accepts every name is in scope where it is read,
\* and every goto of a function has its one label.
TreeIsChecked == Accepted => NamesDeclared(prog) /\ LabelsDeclared(prog) /\ LabelsUnique(prog)
=============================================================================
