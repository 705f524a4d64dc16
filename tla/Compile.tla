------------------------------ MODULE Compile ------------------------------
(***************************************************************************)
(* Code generation followed by a run: the IR of a program is verified, and *)
(* then executed side by side with the program itself.  Conditions have    *)
(* any outcome, the same one for both.                                     *)
(***************************************************************************)
EXTENDS IRGen, Programs

Src == INSTANCE Source

VARIABLES src,  \* the position in the program, <<>> before the run
          ir    \* the position in the code: a block and an index into it

run == <<src, ir>>

----------------------------------------------------------------------------
(* llvm::verifyModule, as far as the walk can get it wrong: every block    *)
(* ends with its only terminator, and the alloca of a for loop dominates   *)
(* the uses of it in the header and the back edge.                         *)

BlockOK(b) ==
  /\ Terminated(code, b)
  /\ \A i \in 1..(Len(code[b]) - 1) : ~IsTerminator(code[b][i])

Targets(b) == LET to == code[b][Len(code[b])].to IN {to[i] : i \in 1..Len(to)}

\* The blocks reachable from the entry blocks on paths that avoid block a.
ReachableAvoiding(a) ==
  LET Grow(s) == (s \cup UNION {Targets(b) : b \in s}) \ {a}
      reach[n \in 0..Len(code)] ==
        IF n = 0 THEN {entry[i] : i \in DOMAIN entry} \ {a} ELSE Grow(reach[n - 1])
  IN  reach[Len(code)]

Has(b, op, line) == \E i \in 1..Len(code[b]) : code[b][i].op = op /\ code[b][i].line = line

IteratorsDominate ==
  \A line \in 1..Len(prog) : \A a \in 1..Len(code) :
    Has(a, "init", line) =>
      \A b \in ReachableAvoiding(a) : ~Has(b, "step", line) /\ ~Has(b, "test", line)

verifyModule == (\A b \in 1..Len(code) : BlockOK(b)) /\ IteratorsDominate

----------------------------------------------------------------------------
(* Running the IR.                                                         *)

IRInstr(pos) == code[pos[1]][pos[2]]

IREvent(pos) == IF IRInstr(pos).op = "br" THEN <<"none", 0>>
                ELSE <<IRInstr(pos).op, IRInstr(pos).line>>

IRMove(pos) == IF IREvent(pos)[1] = "none" THEN <<IRInstr(pos).to[1], 1>> ELSE pos

IRSettle(pos) ==
  LET settled[n \in 0..Len(code)] == IF n = 0 THEN pos ELSE IRMove(settled[n - 1])
  IN  settled[Len(code)]

IRAfter(pos, yes) ==
  IF IRInstr(pos).op = "test" THEN <<IRInstr(pos).to[IF yes THEN 1 ELSE 2], 1>>
  ELSE <<pos[1], pos[2] + 1>>

\* A program in which an error was reported has no meaning to compare with.
Run ==
  /\ Generated /\ src = <<>> /\ ~errors /\ verifyModule
  /\ \E f \in DOMAIN entry :
       /\ src' = Src!Settle(prog, Src!Enter(prog, f))
       /\ ir' = IRSettle(<<entry[f], 1>>)
  /\ UNCHANGED vars

Observe ==
  /\ src # <<>>
  /\ Src!Event(prog, src) = IREvent(ir)
  /\ IREvent(ir)[1] \in {"use", "init", "step", "test"}
  /\ \E yes \in IF IREvent(ir)[1] = "test" THEN BOOLEAN ELSE {TRUE} :
       /\ src' = Src!Settle(prog, Src!After(prog, src, yes))
       /\ ir' = IRSettle(IRAfter(ir, yes))
  /\ UNCHANGED vars

CompileInit == Init /\ src = <<>> /\ ir = <<>>

CompileNext == (Generate /\ UNCHANGED run) \/ Run \/ Observe

CompileSpec == CompileInit /\ [][CompileNext]_<<vars, run>>

----------------------------------------------------------------------------
(* Properties.                                                             *)

\* continue goes to the header, which in these loops has the next condition.
ContinueRetests(p) == \A i \in 1..Len(p) :
  p[i].kind = "continue" /\ LoopOf(p, i) # 0 => p[LoopOf(p, i)].kind \in {"loop", "while"}

\* A program without jumps into, out of or past what they may not, and with
\* its names in scope, is generated without an error that comes too late to
\* stop the compiler, into a module that passes verification.
CleanProgramsVerify ==
  Generated /\ src = <<>> /\ Clean(prog) => ~errors /\ verifyModule

\* Code that passes verification does what the program says, in the same
\* order, on every path: also after jumps, in nested loops, and where the walk
\* stopped at a terminator.  Where labels are not unique, or continue leaves
\* out the step or the condition of its loop, it does not.
RunsAsWritten ==
  src # <<>> /\ LabelsUnique(prog) /\ ContinueRetests(prog) =>
    Src!Event(prog, src) = IREvent(ir)
=============================================================================
