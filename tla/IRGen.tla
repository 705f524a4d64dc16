------------------------------- MODULE IRGen -------------------------------
(***************************************************************************)
(* Code generation: the walk of llvm_irgen.cpp over the syntax tree, which *)
(* appends IR to basic blocks (src/sclc/src/backend/llvm/llvm_irgen.cpp).  *)
(*                                                                         *)
(* The walk is recursive in the code.  Here a step is one instruction, or  *)
(* the end of a body, and open is the stack of the calls in progress: each *)
(* element holds the locals of the llvm_irgen_instr_* call it stands for.  *)
(*                                                                         *)
(* A block is the sequence of what was appended to it, right or wrong: as  *)
(* in LLVM nothing stops an instruction after a terminator.  Blocks are    *)
(* numbered as they are created.                                           *)
(***************************************************************************)
EXTENDS Trees

CONSTANT Labels

ASSUME LabelsAssumption ==
  \A vocabulary \in Vocabularies : \A line \in vocabulary :
    line.kind \in {"goto", "label"} => line.name \in Labels

VARIABLES
  at,      \* the line of the next instruction, past the last one at the end
  open,    \* the constructs whose bodies are being generated, outermost first
  code,    \* the blocks
  block,   \* the insertion point of the builder: the number of a block
  entry,   \* the functions defined: the entry block of each "fn" line
  labels,  \* label_blocks: the block of each label, 0 if it has none yet
  header, exit,  \* current_loop_header and current_loop_exit, 0 for nullptr
  named,   \* named_values: the names with an alloca
  errors   \* scu_perror was called

vars == <<prog, at, open, code, block, entry, labels, header, exit, named, errors>>
loop == <<header, exit>>

Line == prog[at]
Top == open[Len(open)]
Pop == SubSeq(open, 1, Len(open) - 1)

----------------------------------------------------------------------------
(* IR.  An instruction names the line it comes from, and its targets.      *)

Instr(op, line, to) == [op |-> op, line |-> line, to |-> to]
Br(b) == Instr("br", 0, <<b>>)
CondBr(line, yes, no) == Instr("test", line, <<yes, no>>)

IsTerminator(i) == i.op \in {"br", "test", "ret"}

\* BasicBlock::getTerminator: only the last instruction counts.
Terminated(c, b) == c[b] # <<>> /\ IsTerminator(c[b][Len(c[b])])

Emit(c, b, i) == [c EXCEPT ![b] = Append(@, i)]

EmitUnlessTerminated(c, b, i) == IF Terminated(c, b) THEN c ELSE Emit(c, b, i)

NewBlocks(c, n) == c \o [b \in 1..n |-> <<>>]
Fresh(n) == Len(code) + n     \* the n-th block created in a step

----------------------------------------------------------------------------
(* Where the walk is.                                                      *)

Walking == at <= Len(prog) \/ open # <<>>

InBody ==
  open # <<>> /\ at <= Len(prog) /\ Line.depth > prog[Top.line].depth

AtPart(construct) ==
  /\ open # <<>> /\ at <= Len(prog)
  /\ prog[Top.line].kind = construct
  /\ Line.depth = prog[Top.line].depth /\ Line.kind \in Parts

\* The loops over the body of a function and of a loop stop at a terminator;
\* those over the arms of an if and the cases of a match do not.
StopsAtTerminator ==
  /\ prog[Top.line].kind \in Loops \cup {"fn"}
  /\ at > Top.line + 1 /\ Terminated(code, block)

Ready(kind) ==
  /\ Walking /\ InBody /\ ~StopsAtTerminator
  /\ Line.kind = kind

StopBody ==
  /\ Walking /\ InBody /\ StopsAtTerminator
  /\ at' = EndOf(prog, Top.line)
  /\ UNCHANGED <<prog, open, code, block, entry, labels, loop, named, errors>>

Next1 == at' = at + 1
Known == Line.name \in named

\* scu_perror, and a return that leaves the rest of the construct out.
Fail == errors' = TRUE
Ungenerated == at' = AfterAll(prog, at)

\* What an llvm_irgen_instr_* call in progress keeps: part is the arm being
\* generated, next the block of the arm after it, dflt default_bb of a match,
\* and header and exit what they were before a loop.
Frame(merge, next) ==
  [line |-> at, part |-> at, merge |-> merge, next |-> next, dflt |-> merge,
   header |-> header, exit |-> exit]

\* The call in progress, at the arm or the case at line at.
AtArm(next, dflt) ==
  [line |-> Top.line, part |-> at, merge |-> Top.merge, next |-> next, dflt |-> dflt,
   header |-> Top.header, exit |-> Top.exit]

----------------------------------------------------------------------------
\* What the parser hands over, one instruction after the other: any tree with
\* nothing but functions on its top level, and functions nowhere else.
Parse ==
  /\ at = 1 /\ open = <<>> /\ Len(prog) < MaxLines
  /\ \E vocabulary \in Vocabularies : \E line \in vocabulary :
       /\ \A i \in 1..Len(prog) : prog[i] \in vocabulary
       /\ Fits(prog, line) /\ (line.depth = 0 <=> line.kind = "fn")
       /\ prog' = Append(prog, line)
  /\ UNCHANGED <<at, open, code, block, entry, labels, loop, named, errors>>

----------------------------------------------------------------------------
(* Functions.                                                              *)

FnDefine ==
  /\ Walking /\ open = <<>> /\ Line.kind = "fn"
  /\ named' = {Line.name}
  /\ labels' = [l \in Labels |-> 0]
  /\ code' = NewBlocks(code, 1) /\ block' = Fresh(1)
  /\ entry' = [i \in DOMAIN entry \cup {at} |-> IF i = at THEN Fresh(1) ELSE entry[i]]
  /\ open' = <<Frame(0, 0)>>
  /\ Next1
  /\ UNCHANGED <<prog, loop, errors>>

EndFn ==
  /\ Walking /\ open # <<>> /\ ~InBody /\ prog[Top.line].kind = "fn"
  /\ code' = EmitUnlessTerminated(code, block, Instr("ret", Top.line, <<>>))
  /\ open' = Pop
  /\ UNCHANGED <<prog, at, block, entry, labels, loop, named, errors>>

\* Without the value it was to return, the function still returns.
Return ==
  /\ Ready("return")
  /\ code' = Emit(code, block, Instr("ret", at, <<>>))
  /\ IF Line.name = NoName \/ Known THEN UNCHANGED errors ELSE Fail
  /\ Next1
  /\ UNCHANGED <<prog, open, block, entry, labels, loop, named>>

----------------------------------------------------------------------------
(* Instructions without control.                                           *)

Declare ==
  /\ Ready("declare")
  /\ named' = named \cup {Line.name}
  /\ Next1
  /\ UNCHANGED <<prog, open, code, block, entry, labels, loop, errors>>

Use ==
  /\ Ready("use")
  /\ IF Known
     THEN code' = Emit(code, block, Instr("use", at, <<>>)) /\ UNCHANGED errors
     ELSE Fail /\ UNCHANGED code
  /\ Next1
  /\ UNCHANGED <<prog, open, block, entry, labels, loop, named>>

----------------------------------------------------------------------------
(* Jumps.                                                                  *)

\* Mutant of LabelBlock: the next number, whether a block is created or not.
LabelBlockFresh == Fresh(1)

\* The block of a label, created by the first goto or label that names it.
LabelBlock == IF labels[Line.name] = 0 THEN Fresh(1) ELSE labels[Line.name]
LabelCode == IF labels[Line.name] = 0 THEN NewBlocks(code, 1) ELSE code

GotoLabel ==
  /\ Ready("goto")
  /\ labels' = [labels EXCEPT ![Line.name] = LabelBlock]
  /\ code' = Emit(LabelCode, block, Br(LabelBlock))
  /\ Next1
  /\ UNCHANGED <<prog, open, block, entry, loop, named, errors>>

Label ==
  /\ Ready("label")
  /\ labels' = [labels EXCEPT ![Line.name] = LabelBlock]
  /\ code' = EmitUnlessTerminated(LabelCode, block, Br(LabelBlock))
  /\ block' = LabelBlock
  /\ Next1
  /\ UNCHANGED <<prog, open, entry, loop, named, errors>>

LoopJump(kind, target) ==
  /\ Ready(kind)
  /\ IF target = 0 THEN Fail /\ UNCHANGED code
     ELSE code' = Emit(code, block, Br(target)) /\ UNCHANGED errors
  /\ Next1
  /\ UNCHANGED <<prog, open, block, entry, labels, loop, named>>

Break == LoopJump("break", exit)
Continue == LoopJump("continue", header)

----------------------------------------------------------------------------
(* Loops.                                                                  *)

\* The range of a for loop is a constant.  The other conditions are of one
\* variable; a while whose condition fails leaves the header without a branch.
Loop ==
  \E kind \in Loops :
    LET head == Fresh(1) body == Fresh(2) out == Fresh(3)
        before == IF kind = "for" THEN Emit(code, block, Instr("init", at, <<>>)) ELSE code
        entered == Emit(NewBlocks(before, 3), block, Br(head))
    IN  /\ Ready(kind)
        /\ IF kind = "while" /\ ~Known
           THEN /\ code' = entered /\ block' = head
                /\ Fail /\ Ungenerated
                /\ UNCHANGED <<open, loop, named>>
           ELSE /\ code' = Emit(entered, head,
                                IF kind \in {"while", "for"} THEN CondBr(at, body, out)
                                ELSE Br(body))
                /\ block' = body
                /\ header' = head /\ exit' = out
                /\ named' = IF kind = "for" THEN named \cup {Line.name} ELSE named
                /\ open' = Append(open, Frame(out, head))
                /\ Next1
                /\ UNCHANGED errors
        /\ UNCHANGED <<prog, entry, labels>>

\* Mutant of BackEdge: a for loop goes back to its header without the step.
BackEdgeOnly(kind, name) ==
  IF kind = "dowhile" /\ name \in named THEN Emit(code, block, CondBr(Top.line, header, exit))
  ELSE Emit(code, block, Br(header))

\* The back edge, unless the body ended with a jump of its own.
BackEdge(kind, name) ==
  CASE kind = "for" ->
         Emit(Emit(code, block, Instr("step", Top.line, <<>>)), block, Br(header))
    [] kind = "dowhile" ->
         Emit(code, block, IF name \in named THEN CondBr(Top.line, header, exit) ELSE Br(exit))
    [] OTHER -> Emit(code, block, Br(header))

\* Mutant of Remaining: every loop erases the name on its line.
RemainingOthers(kind, name) == named \ {name}

\* The names known after a loop: that of the iterator is erased.
Remaining(kind, name) == IF kind = "for" THEN named \ {name} ELSE named

\* Mutant of EndLoop: break and continue stay those of the inner loop.
EndLoopForgets ==
  /\ Walking /\ open # <<>> /\ ~InBody
  /\ LET kind == prog[Top.line].kind
         name == prog[Top.line].name
     IN  /\ kind \in Loops
         /\ IF Terminated(code, block) THEN UNCHANGED <<code, errors>>
            ELSE /\ code' = BackEdge(kind, name)
                 /\ errors' = (errors \/ (kind = "dowhile" /\ name \notin named))
         /\ named' = Remaining(kind, name)
  /\ block' = exit
  /\ open' = Pop
  /\ UNCHANGED <<prog, at, entry, labels, loop>>

EndLoop ==
  /\ Walking /\ open # <<>> /\ ~InBody
  /\ LET kind == prog[Top.line].kind
         name == prog[Top.line].name
     IN  /\ kind \in Loops
         /\ IF Terminated(code, block) THEN UNCHANGED <<code, errors>>
            ELSE /\ code' = BackEdge(kind, name)
                 /\ errors' = (errors \/ (kind = "dowhile" /\ name \notin named))
         /\ named' = Remaining(kind, name)
  /\ block' = exit
  /\ header' = Top.header /\ exit' = Top.exit
  /\ open' = Pop
  /\ UNCHANGED <<prog, at, entry, labels>>

----------------------------------------------------------------------------
(* if and its arms.                                                        *)

\* The condition at the insertion point b, the block of the arm at line at,
\* and the block control goes to when the condition does not hold.
Arm(c, b, merge) ==
  LET then == Len(c) + 1
      last == NextPart(prog, at) = 0
      else == IF last THEN merge ELSE Len(c) + 2
  IN  [code |-> Emit(NewBlocks(c, IF last THEN 1 ELSE 2), b, CondBr(at, then, else)),
       then |-> then, else |-> else]

If ==
  /\ Ready("if")
  /\ LET merge == Fresh(1)
         arm == Arm(NewBlocks(code, 1), block, merge)
     IN IF Known
        THEN /\ code' = arm.code /\ block' = arm.then
             /\ open' = Append(open, Frame(merge, arm.else))
             /\ Next1
             /\ UNCHANGED errors
        ELSE /\ code' = NewBlocks(code, 1)
             /\ Fail /\ Ungenerated
             /\ UNCHANGED <<block, open>>
  /\ UNCHANGED <<prog, entry, labels, loop, named>>

\* Mutant of Joined: an arm that jumped away is joined to the end as well.
JoinedAnyway == Emit(code, block, Br(Top.merge))

Joined == EmitUnlessTerminated(code, block, Br(Top.merge))

\* The next arm of Top: the one before it is joined to the end.
ElseIf ==
  /\ Walking /\ AtPart("if") /\ Line.kind = "elif"
  /\ LET arm == Arm(Joined, Top.next, Top.merge) IN
     IF Known
     THEN /\ code' = arm.code /\ block' = arm.then
          /\ open' = [open EXCEPT ![Len(open)] = AtArm(arm.else, Top.dflt)]
          /\ Next1
          /\ UNCHANGED errors
     ELSE /\ code' = Joined /\ block' = Top.next
          /\ open' = Pop
          /\ Fail /\ Ungenerated
  /\ UNCHANGED <<prog, entry, labels, loop, named>>

Else ==
  /\ Walking /\ AtPart("if") /\ Line.kind = "else"
  /\ code' = Joined /\ block' = Top.next
  /\ open' = [open EXCEPT ![Len(open)] = AtArm(Top.next, Top.dflt)]
  /\ Next1
  /\ UNCHANGED <<prog, entry, labels, loop, named, errors>>

----------------------------------------------------------------------------
(* match and its cases, which are constants.                               *)

Match ==
  /\ Ready("match")
  /\ IF Known
     THEN /\ code' = NewBlocks(code, 1)
          /\ open' = Append(open, Frame(Fresh(1), block))
          /\ Next1
          /\ UNCHANGED errors
     ELSE Fail /\ Ungenerated /\ UNCHANGED <<code, open>>
  /\ UNCHANGED <<prog, block, entry, labels, loop, named>>

\* The body of the case before is joined to the end, and the check of this one
\* is made in its next_case_bb.  default_bb changes at the default case.
Case ==
  /\ Walking /\ AtPart("match") /\ Line.kind \in Cases
  /\ LET first == Top.part = Top.line
         joined == IF first THEN code ELSE Joined
         body == Fresh(1)
         last == NextPart(prog, at) = 0
         next == IF last THEN Top.dflt ELSE Fresh(2)
         branch == IF Line.kind = "default" THEN Br(body) ELSE CondBr(at, body, next)
     IN  /\ code' = Emit(NewBlocks(joined, IF last THEN 1 ELSE 2), Top.next, branch)
         /\ block' = body
         /\ open' = [open EXCEPT ![Len(open)] =
                       AtArm(next, IF Line.kind = "default" THEN body ELSE Top.dflt)]
  /\ Next1
  /\ UNCHANGED <<prog, entry, labels, loop, named, errors>>

\* A match without cases has no body to join, and gets no branch to its end.
EndArms ==
  /\ Walking /\ open # <<>> /\ ~InBody
  /\ \E construct \in {"if", "match"} :
       prog[Top.line].kind = construct /\ ~AtPart(construct)
  /\ code' = IF prog[Top.line].kind = "match" /\ Top.part = Top.line THEN code ELSE Joined
  /\ block' = Top.merge
  /\ open' = Pop
  /\ UNCHANGED <<prog, at, entry, labels, loop, named, errors>>

----------------------------------------------------------------------------
Init ==
  /\ prog = <<>>
  /\ at = 1 /\ open = <<>> /\ code = <<>> /\ block = 0
  /\ entry = [i \in {} |-> 0]
  /\ labels = [l \in Labels |-> 0]
  /\ header = 0 /\ exit = 0
  /\ named = {} /\ errors = FALSE

Walk ==
  \/ FnDefine \/ EndFn \/ StopBody
  \/ Declare \/ Use \/ Return \/ GotoLabel \/ Label \/ Break \/ Continue
  \/ Loop \/ EndLoop
  \/ If \/ ElseIf \/ Else \/ Match \/ Case \/ EndArms

Generate == Parse \/ Walk

Spec == Init /\ [][Generate]_vars

Generated == at > Len(prog) /\ open = <<>> /\ code # <<>>

----------------------------------------------------------------------------
(* Properties.                                                             *)

Blocks == 1..Len(code)

\* Types of the variables: the walk only ever names blocks it has created, as
\* insertion point, branch target, label or in the locals of an open call.
TypeOK ==
  /\ at \in 1..(Len(prog) + 1)
  /\ block \in Blocks \cup {0}
  /\ open # <<>> => block \in Blocks
  /\ \A b \in Blocks : \A i \in 1..Len(code[b]) :
       \A n \in 1..Len(code[b][i].to) : code[b][i].to[n] \in Blocks
  /\ \A i \in DOMAIN entry : entry[i] \in Blocks
  /\ labels \in [Labels -> Blocks \cup {0}]
  /\ header \in Blocks \cup {0} /\ exit \in Blocks \cup {0}
  /\ \A k \in 1..Len(open) :
       /\ {open[k].merge, open[k].next, open[k].dflt} \subseteq Blocks \cup {0}
       /\ open[k].line \in 1..(at - 1)
  /\ errors \in BOOLEAN

\* h and e are the targets of continue and break within the first n of the
\* calls calls: the header and exit of the innermost loop, null without one.
InForce(p, calls, n, h, e) ==
  LET IsLoop(k) == p[calls[k].line].kind \in Loops IN
  \/ h = 0 /\ e = 0 /\ \A k \in 1..n : ~IsLoop(k)
  \/ \E k \in 1..n :
       /\ IsLoop(k) /\ \A j \in (k + 1)..n : ~IsLoop(j)
       /\ h = calls[k].next /\ e = calls[k].merge

\* The two static variables that break and continue go by are those of the
\* innermost loop being generated, whatever was nested in it and has ended.
LoopTargets == InForce(prog, open, Len(open), header, exit)
=============================================================================
