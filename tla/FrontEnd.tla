------------------------------ MODULE FrontEnd ------------------------------
(***************************************************************************)
(* The compiler from the syntax tree to the verified module: main checks   *)
(* the tree with Semantic, and generates code for it if no error was       *)
(* counted.  Errors of the generator come too late: nothing stops then.    *)
(***************************************************************************)
EXTENDS Semantic, Compile

FrontInit == CompileInit /\ SemanticInit

ParseProgram == stage = "parse" /\ Parse /\ UNCHANGED <<run, sem>>

check_semantics == Check /\ UNCHANGED <<at, open, code, block, entry, labels, loop, named, errors, run>>

\* Mutant of GenerateAccepted: the counter is not looked at.
GenerateAnyway == stage = "checked" /\ Walk /\ UNCHANGED <<run, sem>>

\* main goes on after scu_check_errors.
GenerateAccepted == Accepted /\ Walk /\ UNCHANGED <<run, sem>>

FrontNext == ParseProgram \/ check_semantics \/ GenerateAccepted

FrontSpec == FrontInit /\ [][FrontNext]_<<vars, run, sem>>

----------------------------------------------------------------------------
(* Properties.                                                             *)

\* Semantic analysis keeps its own tables of names, code generation one map
\* for a whole function; the names for which the two disagree are the late
\* errors.  There are none, and the module passes verification, if the names
\* that semantic analysis overlooks are in scope, no iterator shadows a
\* variable, and jumps and labels, which it does not check, are in order.
AcceptedVerifies ==
  Generated /\ NoShadowing(prog) /\ WellStructured(prog)
  /\ (\A i \in 1..Len(prog) :
        ReadsName(prog, i) /\ Deadline(prog, i) # i => prog[i].name \in Visible(prog, i))
  => ~errors /\ verifyModule

\* What is known where: while code is generated, a name that semantic analysis
\* has in scope at a line has its alloca.
NamesHaveAllocas ==
  at <= Len(prog) /\ open # <<>> /\ ~errors /\ InBody /\ ~StopsAtTerminator
  /\ NoShadowing(prog) /\ NothingAfterJump(prog)
  => VisibleAt(Seen(prog), at, at) \subseteq named
=============================================================================
