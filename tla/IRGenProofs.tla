---------------------------- MODULE IRGenProofs ----------------------------
(***************************************************************************)
(* break and continue always mean the innermost loop: header and exit, the *)
(* two static variables of llvm_irgen.cpp, agree with the stack of calls.  *)
(*                                                                         *)
(* And every block that the walk names has been created: the builder never *)
(* gets a null block, and a branch never goes to one.  The first fact is   *)
(* needed for the second: at the end of a loop the builder is put in exit, *)
(* which is a block because it is the exit of the loop that ends.          *)
(*                                                                         *)
(* And as long as no error is counted, the calls in progress are those of  *)
(* the lines around the next line, and named_values, the one map for a     *)
(* whole function, has every name that is in scope there.                  *)
(*                                                                         *)
(* And while code is generated for a program without jumps to where they   *)
(* may not go, each block that is not closed by a terminator, but for the  *)
(* one the builder is in, is one that a call in progress or a label yet to *)
(* come will fill, and each of these will fill another one.  And each      *)
(* block can be given the for loops whose allocas are passed on every path *)
(* to it: those of the calls in progress for the block the builder is in.  *)
(*                                                                         *)
(* And the tree is one in which semantic analysis has missed no name that  *)
(* it has looked at.                                                       *)
(***************************************************************************)
EXTENDS FrontEnd, SemanticProofs

IsFrame(f) ==
  f = [line |-> f.line, part |-> f.part, merge |-> f.merge, next |-> f.next,
       dflt |-> f.dflt, header |-> f.header, exit |-> f.exit]

Frames(calls) ==
  /\ calls \in Seq({calls[k] : k \in 1..Len(calls)})
  /\ \A k \in 1..Len(calls) : IsFrame(calls[k])

\* Every call in progress has saved what was in force when it was made: that
\* is what makes restoring it right when the innermost loop has ended.
Saved(p, calls) ==
  \A k \in 1..Len(calls) : InForce(p, calls, k - 1, calls[k].header, calls[k].exit)

WalkInv == Frames(open) /\ LoopTargets /\ Saved(prog, open)

\* The two stacks have the same loops, as far as break and continue go, in
\* their first n calls.
SameLoops(p, calls, calls2, n) ==
  \A k \in 1..n :
    /\ calls2[k].line = calls[k].line
    /\ p[calls[k].line].kind \in Loops =>
         calls2[k].next = calls[k].next /\ calls2[k].merge = calls[k].merge

\* A call is the last one or one before it.
LEMMA LastOrBefore ==
  ASSUME NEW n \in Nat \ {0}, NEW k \in 1..n
  PROVE  (k = n \/ k \in 1..(n - 1)) /\ k - 1 \in Nat /\ k - 1 \in 0..n
OBVIOUS

\* The targets in force depend on nothing else.
LEMMA InForceSame ==
  ASSUME NEW p, NEW calls, NEW calls2, NEW n \in Nat, NEW h, NEW e,
         SameLoops(p, calls, calls2, n), InForce(p, calls, n, h, e)
  PROVE  InForce(p, calls2, n, h, e)
<1> DEFINE IsLoop(k) == p[calls[k].line].kind \in Loops
           IsLoop2(k) == p[calls2[k].line].kind \in Loops
<1>1. \A k \in 1..n : IsLoop2(k) <=> IsLoop(k)
  BY DEF SameLoops
<1>2. CASE h = 0 /\ e = 0 /\ \A k \in 1..n : ~IsLoop(k)
  BY <1>1, <1>2 DEF InForce
<1>3. CASE \E k \in 1..n :
             /\ IsLoop(k) /\ \A j \in (k + 1)..n : ~IsLoop(j)
             /\ h = calls[k].next /\ e = calls[k].merge
  <2> PICK k \in 1..n : /\ IsLoop(k) /\ \A j \in (k + 1)..n : ~IsLoop(j)
                        /\ h = calls[k].next /\ e = calls[k].merge
    BY <1>3
  <2>1. IsLoop2(k) /\ \A j \in (k + 1)..n : ~IsLoop2(j)
    BY <1>1
  <2>2. h = calls2[k].next /\ e = calls2[k].merge
    BY DEF SameLoops
  <2> QED BY <2>1, <2>2 DEF InForce
<1> QED BY <1>2, <1>3 DEF InForce

\* A construct that is not a loop does not change what is in force.
LEMMA InForceInner ==
  ASSUME NEW p, NEW calls, NEW n \in Nat, NEW m \in Nat, n = m + 1, NEW h, NEW e,
         p[calls[n].line].kind \notin Loops
  PROVE  InForce(p, calls, n, h, e) <=> InForce(p, calls, m, h, e)
<1> DEFINE IsLoop(k) == p[calls[k].line].kind \in Loops
<1>1. 1..n = (1..m) \cup {n}
  OBVIOUS
<1>2. ASSUME InForce(p, calls, n, h, e) PROVE InForce(p, calls, m, h, e)
  <2>1. CASE \A k \in 1..n : ~IsLoop(k)
    BY <1>1, <1>2, <2>1 DEF InForce
  <2>2. CASE \E k \in 1..n : IsLoop(k)
    <3> PICK k \in 1..n : /\ IsLoop(k) /\ \A j \in (k + 1)..n : ~IsLoop(j)
                          /\ h = calls[k].next /\ e = calls[k].merge
      BY <1>2, <2>2 DEF InForce
    <3>1. k \in 1..m /\ (k + 1)..(m) \subseteq (k + 1)..n
      BY <1>1
    <3> QED BY <3>1 DEF InForce
  <2> QED BY <2>1, <2>2
<1>3. ASSUME InForce(p, calls, m, h, e) PROVE InForce(p, calls, n, h, e)
  <2>1. CASE \A k \in 1..m : ~IsLoop(k)
    BY <1>1, <1>3, <2>1 DEF InForce
  <2>2. CASE \E k \in 1..m : IsLoop(k)
    <3> PICK k \in 1..m : /\ IsLoop(k) /\ \A j \in (k + 1)..m : ~IsLoop(j)
                        /\ h = calls[k].next /\ e = calls[k].merge
      BY <1>3, <2>2 DEF InForce
    <3>1. k \in 1..n /\ (k + 1)..n = ((k + 1)..m) \cup {n}
      OBVIOUS
    <3> QED BY <3>1 DEF InForce
  <2> QED BY <2>1, <2>2
<1> QED BY <1>2, <1>3

WithTop(calls, f) == [calls EXCEPT ![Len(calls)] = f]

\* What Append, EXCEPT of the last element and dropping it do to a stack.
LEMMA PushFrame ==
  ASSUME NEW calls, Frames(calls), NEW f, IsFrame(f)
  PROVE  /\ Frames(Append(calls, f))
         /\ Len(Append(calls, f)) = Len(calls) + 1
         /\ Append(calls, f)[Len(calls) + 1] = f
         /\ \A k \in 1..Len(calls) : Append(calls, f)[k] = calls[k]
BY DEF Frames

\* The last call goes on to another arm.
LEMMA SetFrame ==
  ASSUME NEW calls, Frames(calls), calls # <<>>, NEW f, IsFrame(f)
  PROVE  /\ Frames(WithTop(calls, f))
         /\ Len(WithTop(calls, f)) = Len(calls)
         /\ WithTop(calls, f)[Len(calls)] = f
         /\ \A k \in 1..(Len(calls) - 1) : WithTop(calls, f)[k] = calls[k]
<1> DEFINE S == {calls[k] : k \in 1..Len(calls)}
           set == WithTop(calls, f)
<1>1. calls \in Seq(S) /\ Len(calls) \in Nat \ {0}
  BY DEF Frames
<1> HIDE DEF S
<1>2. set \in Seq(S \cup {f}) /\ Len(set) = Len(calls) /\ set[Len(calls)] = f
      /\ \A k \in 1..(Len(calls) - 1) : set[k] = calls[k]
  BY <1>1 DEF WithTop
<1> HIDE DEF set
<1>3. set \in Seq({set[k] : k \in 1..Len(set)})
  BY ONLY <1>2
<1>4. \A k \in 1..Len(set) : IsFrame(set[k])
  BY <1>1, <1>2 DEF Frames
<1> QED BY <1>2, <1>3, <1>4 DEF Frames, set

\* The last call returns.
LEMMA PopFrame ==
  ASSUME NEW calls, Frames(calls), calls # <<>>
  PROVE  LET rest == SubSeq(calls, 1, Len(calls) - 1) IN
         /\ Frames(rest)
         /\ Len(rest) = Len(calls) - 1
         /\ \A k \in 1..(Len(calls) - 1) : rest[k] = calls[k]
<1> DEFINE S == {calls[k] : k \in 1..Len(calls)}
           rest == SubSeq(calls, 1, Len(calls) - 1)
<1>1. calls \in Seq(S) /\ Len(calls) \in Nat \ {0}
  BY DEF Frames
<1> HIDE DEF S
<1>2. rest \in Seq(S) /\ Len(rest) = Len(calls) - 1
      /\ \A k \in 1..(Len(calls) - 1) : rest[k] = calls[k]
  <2>1. 1 \in 1..(Len(calls) + 1) /\ Len(calls) - 1 \in (1 - 1)..Len(calls)
    BY <1>1
  <2>2. (Len(calls) - 1) - 1 + 1 = Len(calls) - 1
    BY <1>1
  <2>3. \A k \in 1..(Len(calls) - 1) : 1 + k - 1 = k
    BY <1>1
  <2> QED BY <1>1, <2>1, <2>2, <2>3, SubSeqProperties
<1> HIDE DEF rest
<1>3. rest \in Seq({rest[k] : k \in 1..Len(rest)})
  BY <1>2
<1>4. \A k \in 1..Len(rest) : IsFrame(rest[k])
  BY <1>1, <1>2 DEF Frames
<1> QED BY <1>2, <1>3, <1>4 DEF Frames, rest

\* Opening a construct: the new call saves what is in force.
LEMMA PushInv ==
  ASSUME WalkInv, prog' = prog, NEW f, IsFrame(f), open' = Append(open, f),
         f.header = header, f.exit = exit,
         \/ prog[f.line].kind \notin Loops /\ header' = header /\ exit' = exit
         \/ prog[f.line].kind \in Loops /\ header' = f.next /\ exit' = f.merge
  PROVE  WalkInv'
<1> DEFINE n == Len(open)
<1>1. /\ n \in Nat /\ Frames(open') /\ Len(open') = n + 1 /\ open'[n + 1] = f
      /\ \A k \in 1..n : open'[k] = open[k]
  BY PushFrame DEF WalkInv, Frames
<1>2. \A k \in 0..n : SameLoops(prog, open, open', k)
  BY <1>1 DEF SameLoops
<1>3. InForce(prog, open', n, header, exit)
  BY <1>1, <1>2, InForceSame DEF WalkInv, LoopTargets
<1>4. ASSUME NEW k \in 1..(n + 1)
      PROVE  InForce(prog, open', k - 1, open'[k].header, open'[k].exit)
  <2>1. CASE k = n + 1
    BY <1>1, <1>3, <2>1
  <2>2. CASE k \in 1..n
    <3>1. InForce(prog, open, k - 1, open[k].header, open[k].exit) /\ k - 1 \in 0..n
      BY <1>1, <2>2 DEF WalkInv, Saved
    <3>2. open'[k] = open[k] /\ k - 1 \in Nat /\ SameLoops(prog, open, open', k - 1)
      BY <1>1, <1>2, <2>2
    <3> HIDE DEF n
    <3> QED BY <3>1, <3>2, InForceSame
  <2> QED BY <1>1, <2>1, <2>2
<1>5. Saved(prog', open')
  BY <1>1, <1>4 DEF Saved
<1>6. InForce(prog, open', n + 1, header', exit')
  <2>1. CASE prog[f.line].kind \notin Loops /\ header' = header /\ exit' = exit
    <3> HIDE DEF n
    <3>1. n \in Nat /\ n + 1 \in Nat
      BY <1>1
    <3>2. prog[open'[n + 1].line].kind \notin Loops
      BY <1>1, <2>1
    <3>3. InForce(prog, open', n + 1, header, exit)
      BY <1>3, <3>1, <3>2, InForceInner
    <3> QED BY <2>1, <3>3
  <2>2. CASE prog[f.line].kind \in Loops /\ header' = f.next /\ exit' = f.merge
    BY <1>1, <2>2 DEF InForce
  <2> QED BY <2>1, <2>2
<1> QED BY <1>1, <1>5, <1>6 DEF WalkInv, LoopTargets

\* The next arm of an if or a match.
LEMMA SetInv ==
  ASSUME WalkInv, open # <<>>, prog' = prog, NEW f, IsFrame(f),
         open' = [open EXCEPT ![Len(open)] = f], UNCHANGED loop,
         f.line = Top.line, f.header = Top.header, f.exit = Top.exit,
         prog[Top.line].kind \notin Loops
  PROVE  WalkInv'
<1> DEFINE n == Len(open)
<1>1. /\ n \in Nat \ {0} /\ Frames(open') /\ Len(open') = n /\ open'[n] = f
      /\ \A k \in 1..(n - 1) : open'[k] = open[k]
  <2>1. Frames(open) /\ n \in Nat \ {0}
    BY DEF WalkInv, Frames
  <2> HIDE DEF n
  <2>2. /\ Frames(open') /\ Len(open') = Len(open) /\ open'[Len(open)] = f
        /\ \A k \in 1..(Len(open) - 1) : open'[k] = open[k]
    <3>1. open' = WithTop(open, f)
      BY DEF WithTop
    <3>2. open # <<>> /\ IsFrame(f)
      OBVIOUS
    <3>3. /\ Frames(WithTop(open, f)) /\ Len(WithTop(open, f)) = Len(open)
          /\ WithTop(open, f)[Len(open)] = f
          /\ \A k \in 1..(Len(open) - 1) : WithTop(open, f)[k] = open[k]
      BY ONLY <2>1, <3>2, SetFrame
    <3> QED BY ONLY <3>1, <3>3
  <2> QED BY ONLY <2>1, <2>2 DEF n
<1>2. ASSUME NEW k \in 0..n PROVE SameLoops(prog, open, open', k)
  <2>1. ASSUME NEW j \in 1..k
        PROVE  /\ open'[j].line = open[j].line
               /\ prog[open[j].line].kind \in Loops =>
                    open'[j].next = open[j].next /\ open'[j].merge = open[j].merge
    <3>1. CASE j = n
      BY <1>1, <3>1 DEF Top
    <3>2. CASE j \in 1..(n - 1)
      BY <1>1, <3>2
    <3>3. n \in Nat \ {0} /\ j \in 1..n
      BY ONLY <1>1
    <3>4. j = n \/ j \in 1..(n - 1)
      BY ONLY <3>3, LastOrBefore
    <3> QED BY ONLY <3>1, <3>2, <3>4
  <2> QED BY ONLY <2>1 DEF SameLoops
<1>3. InForce(prog, open', n, header, exit)
  <2>1. InForce(prog, open, n, header, exit) /\ n \in 0..n /\ n \in Nat
    BY <1>1 DEF WalkInv, LoopTargets
  <2> HIDE DEF n
  <2> QED BY <1>2, <2>1, InForceSame
<1>4. ASSUME NEW k \in 1..n
      PROVE  InForce(prog, open', k - 1, open'[k].header, open'[k].exit)
  <2>1. InForce(prog, open, k - 1, open[k].header, open[k].exit) /\ k - 1 \in 0..n
    BY <1>1 DEF WalkInv, Saved
  <2>2. open'[k].header = open[k].header /\ open'[k].exit = open[k].exit
    <3>1. CASE k = n
      BY <1>1, <3>1 DEF Top
    <3>2. CASE k \in 1..(n - 1)
      BY <1>1, <3>2
    <3>3. k = n \/ k \in 1..(n - 1)
      BY ONLY <1>1, LastOrBefore
    <3> QED BY ONLY <3>1, <3>2, <3>3
  <2>3. k - 1 \in Nat /\ SameLoops(prog, open, open', k - 1)
    BY ONLY <1>1, <1>2, LastOrBefore
  <2> HIDE DEF n
  <2> QED BY <2>1, <2>2, <2>3, InForceSame
<1> QED BY <1>1, <1>3, <1>4 DEF WalkInv, LoopTargets, Saved, loop

\* The end of a construct: a loop restores what it has saved.
LEMMA PopInv ==
  ASSUME WalkInv, open # <<>>, prog' = prog, open' = Pop,
         \/ prog[Top.line].kind \notin Loops /\ header' = header /\ exit' = exit
         \/ header' = Top.header /\ exit' = Top.exit
  PROVE  WalkInv'
<1> DEFINE n == Len(open)
<1>1. /\ n \in Nat \ {0} /\ Frames(open') /\ Len(open') = n - 1
      /\ \A k \in 1..(n - 1) : open'[k] = open[k]
  <2>1. Frames(open) /\ n \in Nat \ {0}
    BY DEF WalkInv, Frames
  <2> QED BY <2>1, PopFrame DEF Pop
<1>2. \A k \in 0..(n - 1) : SameLoops(prog, open, open', k)
  BY <1>1 DEF SameLoops
<1>3. InForce(prog, open, n - 1, header', exit')
  <2>1. CASE prog[Top.line].kind \notin Loops /\ header' = header /\ exit' = exit
    <3>1. InForce(prog, open, n, header', exit')
      BY <2>1 DEF WalkInv, LoopTargets
    <3>2. prog[open[n].line].kind \notin Loops
      BY <2>1 DEF Top
    <3>3. n \in Nat /\ n - 1 \in Nat /\ n = (n - 1) + 1
      BY <1>1
    <3> HIDE DEF n
    <3> QED BY <3>1, <3>2, <3>3, InForceInner
  <2>2. CASE header' = Top.header /\ exit' = Top.exit
    BY <1>1, <2>2 DEF WalkInv, Saved, Top
  <2> QED BY <2>1, <2>2
<1>4. InForce(prog, open', n - 1, header', exit')
  <2>1. n - 1 \in Nat /\ n - 1 \in 0..(n - 1)
    BY <1>1
  <2> HIDE DEF n
  <2> QED BY <1>2, <1>3, <2>1, InForceSame
<1>5. ASSUME NEW k \in 1..(n - 1)
      PROVE  InForce(prog, open', k - 1, open'[k].header, open'[k].exit)
  <2>1. InForce(prog, open, k - 1, open[k].header, open[k].exit) /\ k - 1 \in 0..(n - 1)
    BY <1>1 DEF WalkInv, Saved
  <2> HIDE DEF n
  <2> QED BY <1>1, <1>2, <2>1, InForceSame
<1> QED BY <1>1, <1>4, <1>5 DEF WalkInv, LoopTargets, Saved

----------------------------------------------------------------------------
\* Nothing is open, and nothing in force, when the walk begins.
LEMMA InitWalk == Init => WalkInv
<1> SUFFICES ASSUME Init PROVE WalkInv
  OBVIOUS
<1>1. open = <<>> /\ Len(open) = 0 /\ header = 0 /\ exit = 0
  BY DEF Init
<1>2. Frames(open) /\ Saved(prog, open)
  BY <1>1 DEF Frames, Saved
<1>3. LoopTargets
  BY <1>1 DEF LoopTargets, InForce
<1> QED BY <1>2, <1>3 DEF WalkInv

\* What most actions leave alone.
LEMMA QuietInv ==
  ASSUME WalkInv, UNCHANGED <<prog, open, loop>>
  PROVE  WalkInv'
BY DEF WalkInv, LoopTargets, loop

\* The tree grows only while no call is in progress.
LEMMA ParseWalk == ASSUME WalkInv, Parse PROVE WalkInv'
<1>1. open = <<>> /\ open' = open /\ UNCHANGED loop
  BY DEF Parse
<1>2. Frames(open')
  BY <1>1 DEF WalkInv
<1>3. Len(open) = 0
  BY <1>1
<1>4. Saved(prog', open') /\ LoopTargets'
  BY <1>1, <1>3 DEF WalkInv, Saved, LoopTargets, InForce, loop
<1> QED BY <1>2, <1>4 DEF WalkInv

\* A function is not a loop, and its body has none in force.
LEMMA FnWalk == ASSUME WalkInv, FnDefine \/ EndFn PROVE WalkInv'
<1>1. CASE FnDefine
  <2> DEFINE f == Frame(0, 0)
  <2>1. /\ open' = Append(open, f) /\ prog' = prog /\ UNCHANGED loop
        /\ prog[f.line].kind = "fn"
    BY <1>1 DEF FnDefine, Frame, Line
  <2>2. IsFrame(f) /\ f.header = header /\ f.exit = exit
    BY DEF IsFrame, Frame
  <2> HIDE DEF f
  <2>3. prog[f.line].kind \notin Loops
    BY <2>1 DEF Loops
  <2> QED BY <2>1, <2>2, <2>3, PushInv DEF loop
<1>2. CASE EndFn
  <2>1. open # <<>> /\ open' = Pop /\ prog' = prog /\ UNCHANGED loop
        /\ prog[Top.line].kind = "fn"
    BY <1>2 DEF EndFn
  <2> QED BY <2>1, PopInv DEF Loops, loop
<1> QED BY <1>1, <1>2

\* A loop saves the two variables before it sets them, and restores them.
LEMMA LoopWalk == ASSUME WalkInv, Loop \/ EndLoop PROVE WalkInv'
<1>1. CASE Loop
  <2> PICK kind \in Loops :
        /\ Ready(kind) /\ prog' = prog
        /\ \/ UNCHANGED <<open, loop>>
           \/ /\ header' = Fresh(1) /\ exit' = Fresh(3)
              /\ open' = Append(open, Frame(Fresh(3), Fresh(1)))
    BY <1>1 DEF Loop
  <2>1. CASE UNCHANGED <<open, loop>>
    BY <2>1, QuietInv
  <2>2. CASE /\ header' = Fresh(1) /\ exit' = Fresh(3)
             /\ open' = Append(open, Frame(Fresh(3), Fresh(1)))
    <3> DEFINE f == Frame(Fresh(3), Fresh(1))
    <3>1. /\ IsFrame(f) /\ f.header = header /\ f.exit = exit
          /\ f.next = Fresh(1) /\ f.merge = Fresh(3) /\ f.line = at
      BY DEF IsFrame, Frame
    <3> HIDE DEF f
    <3>2. prog[f.line].kind \in Loops
      BY <3>1 DEF Ready, Line
    <3> QED BY <2>2, <3>1, <3>2, PushInv DEF f
  <2> QED BY <2>1, <2>2
<1>2. CASE EndLoop
  <2>1. open # <<>> /\ open' = Pop /\ prog' = prog
        /\ header' = Top.header /\ exit' = Top.exit
    BY <1>2 DEF EndLoop
  <2> QED BY <2>1, PopInv
<1> QED BY <1>1, <1>2

\* Opening an if or a match.
LEMMA OpenArmsWalk == ASSUME WalkInv, If \/ Match PROVE WalkInv'
<1>1. PICK merge, next :
        /\ prog' = prog /\ UNCHANGED loop
        /\ prog[at].kind \in {"if", "match"}
        /\ open' = open \/ open' = Append(open, Frame(merge, next))
  BY DEF If, Match, Ready, Line
<1>2. CASE open' = open
  BY <1>1, <1>2, QuietInv
<1>3. CASE open' = Append(open, Frame(merge, next))
  <2> DEFINE f == Frame(merge, next)
  <2>1. IsFrame(f) /\ f.header = header /\ f.exit = exit /\ f.line = at
    BY DEF IsFrame, Frame
  <2> HIDE DEF f
  <2>2. prog[f.line].kind \notin Loops
    BY <1>1, <2>1 DEF Loops
  <2> QED BY <1>1, <1>3, <2>1, <2>2, PushInv DEF loop, f
<1> QED BY <1>1, <1>2, <1>3

\* The later arms, and the end.
LEMMA ArmsWalk == ASSUME WalkInv, ElseIf \/ Else \/ Case \/ EndArms PROVE WalkInv'
<1>1. /\ open # <<>> /\ prog' = prog /\ UNCHANGED loop
      /\ prog[Top.line].kind \in {"if", "match"}
  BY DEF ElseIf, Else, Case, EndArms, AtPart
<1>2. prog[Top.line].kind \notin Loops
  BY <1>1 DEF Loops
<1>3. CASE open' = Pop
  BY <1>1, <1>2, <1>3, PopInv DEF loop
<1>4. ASSUME NEW next, NEW dflt, open' = [open EXCEPT ![Len(open)] = AtArm(next, dflt)]
      PROVE  WalkInv'
  <2> DEFINE f == AtArm(next, dflt)
  <2>1. IsFrame(f) /\ f.line = Top.line /\ f.header = Top.header /\ f.exit = Top.exit
    BY DEF IsFrame, AtArm
  <2> HIDE DEF f
  <2> QED BY <1>1, <1>2, <1>4, <2>1, SetInv DEF f
<1>5. CASE ElseIf
  BY <1>3, <1>4, <1>5 DEF ElseIf
<1>6. CASE Else
  BY <1>4, <1>6 DEF Else
<1>7. CASE Case
  BY <1>4, <1>7 DEF Case
<1>8. CASE EndArms
  BY <1>3, <1>8 DEF EndArms
<1> QED BY <1>5, <1>6, <1>7, <1>8

\* Every step of the walk, or none.
LEMMA StepWalk == ASSUME WalkInv, [Generate]_vars PROVE WalkInv'
<1>1. CASE StopBody \/ Declare \/ Use \/ Return \/ GotoLabel \/ Label \/ Break \/ Continue
  <2>1. UNCHANGED <<prog, open, loop>>
    BY <1>1 DEF StopBody, Declare, Use, Return, GotoLabel, Label, Break, Continue, LoopJump
  <2> QED BY <2>1, QuietInv
<1>2. CASE UNCHANGED vars
  BY <1>2, QuietInv DEF vars, loop
<1> QED BY <1>1, <1>2, ParseWalk, FnWalk, LoopWalk, OpenArmsWalk, ArmsWalk DEF Generate, Walk

\* Whatever the program, its size and its nesting: where a break or a continue
\* is generated, the two static variables are those of its innermost loop.
THEOREM LoopTargetsTheorem == Spec => []LoopTargets
<1>1. WalkInv => LoopTargets
  BY DEF WalkInv
<1> QED BY <1>1, InitWalk, StepWalk, PTL DEF Spec

----------------------------------------------------------------------------
(* The blocks.                                                             *)

TargetsIn(i, n) == \A k \in 1..Len(i.to) : i.to[k] \in 1..n
BlocksOK(c, n) ==
  /\ IsSequence(c)
  /\ \A b \in 1..Len(c) : IsSequence(c[b]) /\ \A i \in 1..Len(c[b]) : TargetsIn(c[b][i], n)

\* A call in progress keeps blocks that exist, but that of a function none.
FrameOK(p, f, last, n) ==
  /\ f.line \in 1..last
  /\ f.header \in 0..n /\ f.exit \in 0..n
  /\ {f.merge, f.next, f.dflt} \subseteq 0..n
  /\ p[f.line].kind # "fn" => {f.merge, f.next, f.dflt} \subseteq 1..n

\* The calls in progress are those of lines before the walk, the outer first.
CallsOK(p, calls, last, n) ==
  \A k \in 1..Len(calls) :
    /\ FrameOK(p, calls[k], last, n)
    /\ \A j \in 1..k : calls[j].line <= calls[k].line

Program == prog \in Seq(UNION Vocabularies) /\ at \in 1..(Len(prog) + 1)

BlocksInv ==
  /\ Program
  /\ BlocksOK(code, Len(code))
  /\ block \in 0..Len(code) /\ (open # <<>> => block \in 1..Len(code))
  /\ \A i \in DOMAIN entry : entry[i] \in 1..Len(code)
  /\ labels \in [Labels -> 0..Len(code)]
  /\ header \in 0..Len(code) /\ exit \in 0..Len(code)
  /\ CallsOK(prog, open, at - 1, Len(code))
  /\ errors \in BOOLEAN

TypeInv == WalkInv /\ BlocksInv

LEMMA BlocksType == TypeInv => TypeOK
<1> SUFFICES ASSUME TypeInv PROVE TypeOK
  OBVIOUS
<1>1. Len(code) \in Nat
  BY SequenceLength DEF TypeInv, BlocksInv, BlocksOK
<1>2. Blocks \cup {0} = 0..Len(code)
  BY <1>1 DEF Blocks
<1> QED BY <1>1, <1>2 DEF TypeInv, BlocksInv, Program, BlocksOK, TargetsIn, CallsOK, FrameOK, TypeOK, Blocks

----------------------------------------------------------------------------
(* What is appended to the blocks.                                         *)

LEMMA BlocksGrow ==
  ASSUME NEW c, NEW n \in Nat, NEW m \in Nat, n <= m, BlocksOK(c, n)
  PROVE  BlocksOK(c, m)
<1>1. ASSUME NEW i, TargetsIn(i, n) PROVE TargetsIn(i, m)
  BY <1>1 DEF TargetsIn
<1> QED BY <1>1 DEF BlocksOK

LEMMA EmitOK ==
  ASSUME NEW c, NEW n \in Nat, BlocksOK(c, n), NEW b, NEW i, TargetsIn(i, n)
  PROVE  BlocksOK(Emit(c, b, i), n) /\ Len(Emit(c, b, i)) = Len(c)
<1>1. PICK S : c \in Seq(S)
  BY DEF BlocksOK, IsSequence
<1>2. Len(c) \in Nat /\ DOMAIN c = 1..Len(c)
  BY <1>1
<1>3. CASE b \in 1..Len(c)
  <2> DEFINE new == Append(c[b], i)
  <2>1. /\ IsSequence(new) /\ Len(new) = Len(c[b]) + 1 /\ new[Len(c[b]) + 1] = i
        /\ \A k \in 1..Len(c[b]) : new[k] = c[b][k]
        /\ Len(c[b]) \in Nat
    BY <1>3, AppendSequence, SequenceLength DEF BlocksOK
  <2>2. \A k \in 1..Len(new) : TargetsIn(new[k], n)
    <3> TAKE k \in 1..Len(new)
    <3>1. k \in 1..Len(c[b]) \/ k = Len(c[b]) + 1
      BY <2>1
    <3> QED BY <1>3, <2>1, <3>1 DEF BlocksOK
  <2>3. Emit(c, b, i) = [c EXCEPT ![b] = new]
    BY DEF Emit
  <2> HIDE DEF new
  <2>4. c \in Seq(S \cup {new})
    BY <1>1
  <2>5. Emit(c, b, i) \in Seq(S \cup {new}) /\ Len(Emit(c, b, i)) = Len(c)
    BY <1>2, <1>3, <2>3, <2>4
  <2>6. \A a \in 1..Len(c) : Emit(c, b, i)[a] = IF a = b THEN new ELSE c[a]
    BY <1>2, <2>3
  <2>7. \A a \in 1..Len(c) : IsSequence(c[a]) /\ \A k \in 1..Len(c[a]) : TargetsIn(c[a][k], n)
    BY DEF BlocksOK
  <2> QED BY <2>1, <2>2, <2>5, <2>6, <2>7 DEF BlocksOK, IsSequence
<1>4. CASE b \notin 1..Len(c)
  <2>1. Emit(c, b, i) = c
    BY <1>1, <1>2, <1>4 DEF Emit
  <2> QED BY <2>1
<1> QED BY <1>3, <1>4

LEMMA EmitUnlessOK ==
  ASSUME NEW c, NEW n \in Nat, BlocksOK(c, n), NEW b, NEW i, TargetsIn(i, n)
  PROVE  /\ BlocksOK(EmitUnlessTerminated(c, b, i), n)
         /\ Len(EmitUnlessTerminated(c, b, i)) = Len(c)
BY EmitOK DEF EmitUnlessTerminated

LEMMA NewBlocksOK ==
  ASSUME NEW c, NEW n \in Nat, BlocksOK(c, n), NEW k \in Nat
  PROVE  /\ BlocksOK(NewBlocks(c, k), n)
         /\ Len(NewBlocks(c, k)) = Len(c) + k /\ Len(c) \in Nat
<1> DEFINE new == [b \in 1..k |-> <<>>]
<1>1. new \in Seq({<<>>}) /\ Len(new) = k /\ \A b \in 1..k : new[b] = <<>>
  OBVIOUS
<1>2. IsSequence(c) /\ IsSequence(new)
  BY <1>1 DEF BlocksOK, IsSequence
<1>3. NewBlocks(c, k) = c \o new
  BY DEF NewBlocks
<1> HIDE DEF new
<1>4. /\ IsSequence(c \o new) /\ Len(c \o new) = Len(c) + k /\ Len(c) \in Nat
      /\ \A b \in 1..Len(c) : (c \o new)[b] = c[b]
      /\ \A b \in 1..k : (c \o new)[Len(c) + b] = new[b]
  BY <1>1, <1>2, JoinedSequence, SequenceLength
<1>5. ASSUME NEW b \in 1..(Len(c) + k)
      PROVE  /\ IsSequence((c \o new)[b])
             /\ \A i \in 1..Len((c \o new)[b]) : TargetsIn((c \o new)[b][i], n)
  <2>1. CASE b \in 1..Len(c)
    BY <1>4, <2>1 DEF BlocksOK
  <2>2. CASE b \notin 1..Len(c)
    <3>1. b - Len(c) \in 1..k /\ b = Len(c) + (b - Len(c))
      BY <1>4, <2>2
    <3>2. (c \o new)[b] = <<>>
      BY <1>1, <1>4, <3>1
    <3>3. <<>> \in Seq({}) /\ Len(<<>>) = 0
      OBVIOUS
    <3> QED BY <3>2, <3>3 DEF IsSequence
  <2> QED BY <2>1, <2>2
<1> QED BY <1>3, <1>4, <1>5 DEF BlocksOK

LEMMA Branches ==
  ASSUME NEW n \in Nat
  PROVE  /\ \A b \in 1..n : TargetsIn(Br(b), n)
         /\ \A line : \A yes, no \in 1..n : TargetsIn(CondBr(line, yes, no), n)
         /\ \A op, line : TargetsIn(Instr(op, line, <<>>), n)
<1>1. \A b : Len(<<b>>) = 1 /\ <<b>>[1] = b
  OBVIOUS
<1>2. \A a, b : Len(<<a, b>>) = 2 /\ <<a, b>>[1] = a /\ <<a, b>>[2] = b
  OBVIOUS
<1>3. Len(<<>>) = 0
  OBVIOUS
<1>4. (\A i \in 1..1 : i = 1) /\ (\A i \in 1..2 : i = 1 \/ i = 2)
  OBVIOUS
<1>5. \A op, line, to : Instr(op, line, to).to = to
  BY DEF Instr
<1>6. \A b \in 1..n : TargetsIn(Br(b), n)
  BY <1>1, <1>4, <1>5 DEF Br, TargetsIn
<1>7. \A line : \A yes, no \in 1..n : TargetsIn(CondBr(line, yes, no), n)
  BY <1>2, <1>4, <1>5 DEF CondBr, TargetsIn
<1>8. \A op, line : TargetsIn(Instr(op, line, <<>>), n)
  BY <1>3, <1>5 DEF TargetsIn
<1> QED BY <1>6, <1>7, <1>8

----------------------------------------------------------------------------
(* The lines the walk goes on with.                                        *)

\* The walk never goes back.
LEMMA LinesAhead ==
  ASSUME Program, NEW i \in 1..Len(prog)
  PROVE  /\ EndOf(prog, i) \in (i + 1)..(Len(prog) + 1)
         /\ AfterAll(prog, i) \in (i + 1)..(Len(prog) + 1)
<1>1. Len(prog) \in Nat /\ i \in Nat /\ i <= Len(prog)
  BY DEF Program
<1> DEFINE Q(j) == prog[j].depth <= prog[i].depth
           R(j) == \/ prog[j].depth < prog[i].depth
                   \/ prog[j].depth = prog[i].depth /\ prog[j].kind \notin Parts
<1>2. \E j \in (i + 1)..(Len(prog) + 1) : /\ j <= Len(prog) => Q(j)
                                          /\ \A k \in (i + 1)..(j - 1) : ~Q(k)
  <2> DEFINE S == {j \in Nat : Q(j)}
  <2>1. PICK j \in (i + 1)..(Len(prog) + 1) : /\ j <= Len(prog) => j \in S
                                             /\ \A k \in (i + 1)..(j - 1) : k \notin S
    BY <1>1, FirstIs
  <2>2. \A k \in (i + 1)..(j - 1) : k \in Nat
    BY <1>1
  <2> QED BY <1>1, <2>1, <2>2
<1>3. \E j \in (i + 1)..(Len(prog) + 1) : /\ j <= Len(prog) => R(j)
                                          /\ \A k \in (i + 1)..(j - 1) : ~R(k)
  <2> DEFINE S == {j \in Nat : R(j)}
  <2>1. PICK j \in (i + 1)..(Len(prog) + 1) : /\ j <= Len(prog) => j \in S
                                             /\ \A k \in (i + 1)..(j - 1) : k \notin S
    BY <1>1, FirstIs
  <2>2. \A k \in (i + 1)..(j - 1) : k \in Nat
    BY <1>1
  <2> QED BY <1>1, <2>1, <2>2
<1>4. EndOf(prog, i) \in (i + 1)..(Len(prog) + 1)
  BY <1>2, Zenon DEF EndOf, FirstAfter
<1>5. AfterAll(prog, i) \in (i + 1)..(Len(prog) + 1)
  BY <1>3, Zenon DEF AfterAll, FirstAfter
<1> QED BY <1>4, <1>5

----------------------------------------------------------------------------
(* The calls in progress.                                                  *)

LEMMA CallsGrow ==
  ASSUME NEW p, NEW calls, NEW last \in Int, NEW n \in Nat, CallsOK(p, calls, last, n),
         NEW later \in Int, last <= later, NEW m \in Nat, n <= m
  PROVE  CallsOK(p, calls, later, m)
<1>1. 0..n \subseteq 0..m /\ 1..n \subseteq 1..m /\ 1..last \subseteq 1..later
  OBVIOUS
<1>2. \A f : FrameOK(p, f, last, n) => FrameOK(p, f, later, m)
  BY <1>1, Zenon DEF FrameOK
<1> QED BY <1>2 DEF CallsOK

LEMMA CallsPush ==
  ASSUME NEW p, NEW calls, Frames(calls), NEW last \in Nat, NEW n \in Nat,
         CallsOK(p, calls, last - 1, n),
         NEW f, IsFrame(f), FrameOK(p, f, last, n), f.line = last
  PROVE  CallsOK(p, Append(calls, f), last, n)
<1>1. /\ Len(Append(calls, f)) = Len(calls) + 1 /\ Append(calls, f)[Len(calls) + 1] = f
      /\ \A k \in 1..Len(calls) : Append(calls, f)[k] = calls[k]
      /\ Len(calls) \in Nat
  BY PushFrame DEF Frames
<1>2. CallsOK(p, calls, last, n) /\ \A k \in 1..Len(calls) : calls[k].line <= last
  <2>1. CallsOK(p, calls, last, n)
    BY CallsGrow
  <2> QED BY <2>1 DEF CallsOK, FrameOK
<1>3. \A k \in 1..(Len(calls) + 1) : k \in 1..Len(calls) \/ k = Len(calls) + 1
  BY <1>1
<1>4. \A k \in 1..Len(calls) : \A j \in 1..k : j \in 1..Len(calls)
  BY <1>1
<1>5. \A k \in 1..(Len(calls) + 1) : FrameOK(p, Append(calls, f)[k], last, n)
  BY <1>1, <1>2, <1>3 DEF CallsOK
<1>6. ASSUME NEW k \in 1..(Len(calls) + 1), NEW j \in 1..k
      PROVE  Append(calls, f)[j].line <= Append(calls, f)[k].line
  <2>1. CASE k \in 1..Len(calls)
    BY <1>1, <1>2, <1>4, <2>1 DEF CallsOK
  <2>2. CASE k = Len(calls) + 1
    <3>1. j \in 1..Len(calls) \/ j = k
      BY <1>1, <2>2
    <3> QED BY <1>1, <1>2, <2>2, <3>1
  <2> QED BY <1>3, <2>1, <2>2
<1> QED BY <1>1, <1>5, <1>6 DEF CallsOK

LEMMA CallsSet ==
  ASSUME NEW p, NEW calls, Frames(calls), calls # <<>>, NEW last \in Int, NEW n \in Nat,
         CallsOK(p, calls, last, n),
         NEW f, IsFrame(f), FrameOK(p, f, last, n), f.line = calls[Len(calls)].line
  PROVE  CallsOK(p, WithTop(calls, f), last, n)
<1>1. /\ Len(WithTop(calls, f)) = Len(calls) /\ WithTop(calls, f)[Len(calls)] = f
      /\ \A k \in 1..(Len(calls) - 1) : WithTop(calls, f)[k] = calls[k]
      /\ Len(calls) \in Nat
  <2>1. Len(calls) \in Nat
    BY DEF Frames
  <2> QED BY <2>1, SetFrame
<1>2. \A k \in 1..Len(calls) : k \in 1..(Len(calls) - 1) \/ k = Len(calls)
  BY <1>1
<1>3. \A k \in 1..Len(calls) : WithTop(calls, f)[k].line = calls[k].line
  BY <1>1, <1>2
<1>4. \A k \in 1..Len(calls) : FrameOK(p, WithTop(calls, f)[k], last, n)
  BY <1>1, <1>2 DEF CallsOK
<1>5. \A k \in 1..Len(calls) : \A j \in 1..k : j \in 1..Len(calls)
  BY <1>1
<1> QED BY <1>1, <1>3, <1>4, <1>5 DEF CallsOK

LEMMA CallsPop ==
  ASSUME NEW p, NEW calls, Frames(calls), calls # <<>>, NEW last, NEW n, CallsOK(p, calls, last, n)
  PROVE  CallsOK(p, SubSeq(calls, 1, Len(calls) - 1), last, n)
<1>1. LET rest == SubSeq(calls, 1, Len(calls) - 1) IN
      Len(rest) = Len(calls) - 1 /\ \A k \in 1..(Len(calls) - 1) : rest[k] = calls[k]
  BY PopFrame
<1>2. Len(calls) \in Nat
  BY DEF Frames
<1>3. \A k \in 1..(Len(calls) - 1) : k \in 1..Len(calls) /\ \A j \in 1..k : j \in 1..(Len(calls) - 1)
  BY <1>2
<1> QED BY <1>1, <1>3 DEF CallsOK

----------------------------------------------------------------------------
(* The parts of a step.                                                    *)

LEMMA Counts ==
  ASSUME TypeInv
  PROVE  /\ Len(code) \in Nat /\ at \in Nat \ {0} /\ Len(prog) \in Nat /\ at <= Len(prog) + 1
         /\ BlocksOK(code, Len(code)) /\ Frames(open) /\ Program
BY SequenceLength DEF TypeInv, WalkInv, BlocksInv, BlocksOK, Program

\* What a step leaves alone stays right as blocks are created.
LEMMA Unmoved ==
  ASSUME TypeInv, NEW m \in Nat, Len(code) <= m
  PROVE  /\ header \in 0..m /\ exit \in 0..m /\ labels \in [Labels -> 0..m]
         /\ block \in 0..m /\ (open # <<>> => block \in 1..m)
         /\ \A i \in DOMAIN entry : entry[i] \in 1..m
         /\ \A last \in Nat : at - 1 <= last => CallsOK(prog, open, last, m)
         /\ errors \in BOOLEAN
<1>1. Len(code) \in Nat /\ at - 1 \in Int
  BY Counts
<1>2. 0..Len(code) \subseteq 0..m /\ 1..Len(code) \subseteq 1..m
  BY <1>1
<1>3. \A last \in Nat : at - 1 <= last => CallsOK(prog, open, last, m)
  BY <1>1, CallsGrow DEF TypeInv, BlocksInv
<1>4. labels \in [Labels -> 0..m]
  BY <1>2 DEF TypeInv, BlocksInv
<1> QED BY <1>2, <1>3, <1>4 DEF TypeInv, BlocksInv

\* The innermost call in progress.
LEMMA Innermost ==
  ASSUME TypeInv, open # <<>>
  PROVE  /\ FrameOK(prog, Top, at - 1, Len(code)) /\ IsFrame(Top)
         /\ Top.line \in 1..Len(prog) /\ Top.line < at
         /\ prog[Top.line].kind \in Loops => header = Top.next /\ exit = Top.merge
<1>1. Len(open) \in Nat \ {0} /\ IsFrame(Top)
  BY Counts DEF Frames, Top
<1>2. FrameOK(prog, Top, at - 1, Len(code))
  BY <1>1 DEF TypeInv, BlocksInv, CallsOK, Top
<1>3. Top.line \in 1..Len(prog) /\ Top.line < at
  BY <1>2, Counts DEF FrameOK
<1>4. prog[Top.line].kind \in Loops => header = Top.next /\ exit = Top.merge
  BY <1>1 DEF TypeInv, WalkInv, LoopTargets, InForce, Top
<1> QED BY <1>1, <1>2, <1>3, <1>4

\* Within a construct that is not a function.
LEMMA InnermostBlocks ==
  ASSUME TypeInv, open # <<>>, prog[Top.line].kind # "fn"
  PROVE  /\ Top.merge \in 1..Len(code) /\ Top.next \in 1..Len(code) /\ Top.dflt \in 1..Len(code)
         /\ prog[Top.line].kind \in Loops => header \in 1..Len(code) /\ exit \in 1..Len(code)
BY Innermost DEF FrameOK

LEMMA StepOK ==
  ASSUME prog' = prog, Program, NEW m \in Nat, Len(code') = m, BlocksOK(code', m),
         at' \in 1..(Len(prog) + 1), block' \in 0..m, open' # <<>> => block' \in 1..m,
         \A i \in DOMAIN entry' : entry'[i] \in 1..m, labels' \in [Labels -> 0..m],
         header' \in 0..m, exit' \in 0..m, CallsOK(prog, open', at' - 1, m), errors' \in BOOLEAN
  PROVE  BlocksInv'
BY DEF BlocksInv, Program

\* The next line, and the line after a construct that is left out.
LEMMA Ahead ==
  ASSUME TypeInv, at <= Len(prog)
  PROVE  /\ Next1 => at' = at + 1 /\ at' \in 1..(Len(prog) + 1)
         /\ Ungenerated => at' \in (at + 1)..(Len(prog) + 1)
<1>1. at \in 1..Len(prog)
  BY Counts
<1> QED BY <1>1, Counts, LinesAhead DEF Next1, Ungenerated

LEMMA Later ==
  ASSUME NEW a \in Nat \ {0}, NEW n \in Nat, NEW b \in (a + 1)..(n + 1)
  PROVE  b - 1 \in Nat /\ a - 1 <= b - 1 /\ a <= b - 1 /\ b \in 1..(n + 1)
OBVIOUS

----------------------------------------------------------------------------
(* The actions.                                                            *)

\* A body is left for the line after it, which is past all calls in progress.
LEMMA StopTypes == ASSUME TypeInv, StopBody PROVE BlocksInv'
<1> DEFINE m == Len(code)
           last == EndOf(prog, Top.line) - 1
<1>1. m \in Nat /\ BlocksOK(code, m) /\ Program /\ open # <<>> /\ Len(open) \in Nat \ {0} /\ prog' = prog
  BY Counts DEF StopBody, InBody, Frames
<1>2. at' \in 1..(Len(prog) + 1) /\ last = at' - 1 /\ last \in Nat /\ Top.line <= last
  <2>1. EndOf(prog, Top.line) \in (Top.line + 1)..(Len(prog) + 1) /\ Top.line \in 1..Len(prog)
    BY <1>1, Innermost, LinesAhead
  <2> QED BY <2>1, Counts DEF StopBody
<1>3. CallsOK(prog, open, last, m)
  <2>1. CallsOK(prog, open, at - 1, m)
    BY DEF TypeInv, BlocksInv
  <2>2. \A k \in 1..Len(open) : open[k].line <= Top.line
    BY <1>1, <2>1 DEF CallsOK, Top
  <2>3. ASSUME NEW k \in 1..Len(open) PROVE FrameOK(prog, open[k], last, m)
    <3>1. open[k].line \in 1..last
      <4>1. open[k].line \in 1..(at - 1) /\ open[k].line <= Top.line /\ Top.line \in Nat
        BY <1>1, <2>1, <2>2, Innermost DEF CallsOK, FrameOK
      <4>2. PICK x, y, z : x = open[k].line /\ y = Top.line /\ z = last
        OBVIOUS
      <4> HIDE DEF last
      <4>3. at \in Nat /\ x \in 1..(at - 1) /\ x <= y /\ y \in Nat /\ y <= z /\ z \in Nat
        BY <1>2, <4>1, <4>2, Counts
      <4>4. x \in 1..z
        BY ONLY <4>3
      <4> QED BY <4>2, <4>4
    <3> QED BY <2>1, <3>1 DEF CallsOK, FrameOK
  <2> QED BY <2>1, <2>3 DEF CallsOK
<1>4. UNCHANGED <<open, code, block, entry, labels, header, exit, errors>>
  BY DEF StopBody, loop
<1> HIDE DEF m, last
<1>5. CallsOK(prog, open', at' - 1, m) /\ Len(code') = m /\ BlocksOK(code', m)
  BY <1>1, <1>2, <1>3, <1>4 DEF m
<1>6. m <= m
  BY <1>1
<1> QED BY <1>1, <1>2, <1>4, <1>5, <1>6, Unmoved, StepOK DEF m

\* Instructions without control, and jumps out of loops.
LEMMA PlainTypes ==
  ASSUME TypeInv, Return \/ Declare \/ Use \/ Break \/ Continue
  PROVE  BlocksInv'
<1> DEFINE m == Len(code)
<1>1. m \in Nat /\ BlocksOK(code, m) /\ Program /\ open # <<>> /\ prog' = prog
  BY Counts DEF Return, Declare, Use, Break, Continue, LoopJump, Ready, InBody
<1>2. at' = at + 1 /\ at' \in 1..(Len(prog) + 1) /\ at \in Nat
  BY Ahead, Counts DEF Return, Declare, Use, Break, Continue, LoopJump, Ready, InBody
<1>3. UNCHANGED <<open, block, entry, labels, header, exit>>
  BY DEF Return, Declare, Use, Break, Continue, LoopJump, loop
<1>4. errors' \in BOOLEAN
  <2>1. errors \in BOOLEAN
    BY DEF TypeInv, BlocksInv
  <2> QED BY <2>1 DEF Return, Declare, Use, Break, Continue, LoopJump, Fail
<1>5. \/ code' = code
      \/ \E i : TargetsIn(i, m) /\ code' = Emit(code, block, i)
  <2>1. CASE Return
    BY <1>1, <2>1, Branches DEF Return
  <2>2. CASE Declare
    BY <2>2 DEF Declare
  <2>3. CASE Use
    BY <1>1, <2>3, Branches DEF Use
  <2>4. ASSUME NEW kind, NEW target \in 0..m, LoopJump(kind, target)
        PROVE  code' = code \/ \E i : TargetsIn(i, m) /\ code' = Emit(code, block, i)
    <3>1. CASE target = 0
      BY <2>4, <3>1 DEF LoopJump
    <3>2. CASE target # 0
      <4>1. target \in 1..m
        BY <1>1, <3>2
      <4> QED BY <1>1, <2>4, <3>2, <4>1, Branches DEF LoopJump
    <3> QED BY <3>1, <3>2
  <2>5. header \in 0..m /\ exit \in 0..m
    BY DEF TypeInv, BlocksInv
  <2> QED BY <2>1, <2>2, <2>3, <2>4, <2>5 DEF Break, Continue
<1>6. Len(code') = m /\ BlocksOK(code', m)
  BY <1>1, <1>5, EmitOK
<1>7. m <= m /\ at' - 1 \in Nat /\ at - 1 <= at' - 1
  BY <1>1, <1>2
<1>8. CallsOK(prog, open', at' - 1, m)
  BY <1>1, <1>3, <1>7, Unmoved
<1>9. /\ block' \in 0..m /\ block' \in 1..m
      /\ \A i \in DOMAIN entry' : entry'[i] \in 1..m
      /\ labels' \in [Labels -> 0..m] /\ header' \in 0..m /\ exit' \in 0..m
  BY <1>1, <1>3, <1>7, Unmoved
<1> HIDE DEF m
<1> QED BY <1>1, <1>2, <1>4, <1>6, <1>8, <1>9, StepOK

\* The block of a label is there before anything goes to it.
LEMMA LabelTypes == ASSUME TypeInv, GotoLabel \/ Label PROVE BlocksInv'
<1> DEFINE n == Len(code)
           m == Len(LabelCode)
<1>1. n \in Nat /\ BlocksOK(code, n) /\ Program /\ open # <<>> /\ prog' = prog /\ at <= Len(prog)
  BY Counts DEF GotoLabel, Label, Ready, InBody
<1>2. at' = at + 1 /\ at' \in 1..(Len(prog) + 1) /\ at \in Nat
  BY <1>1, Ahead, Counts DEF GotoLabel, Label
<1>3. UNCHANGED <<open, entry, header, exit, errors>>
  BY DEF GotoLabel, Label, loop
<1>4. Line.name \in Labels
  <2>1. Line \in UNION Vocabularies
    BY <1>1, Counts DEF Program, Line
  <2>2. Line.kind \in {"goto", "label"}
    BY DEF GotoLabel, Label, Ready
  <2> QED BY <2>1, <2>2, LabelsAssumption
<1>5. labels \in [Labels -> 0..n] /\ labels[Line.name] \in 0..n
  BY <1>4 DEF TypeInv, BlocksInv
<1>6. BlocksOK(LabelCode, n) /\ m \in Nat /\ n <= m /\ LabelBlock \in 1..m
  <2>1. CASE labels[Line.name] = 0
    <3>1. LabelCode = NewBlocks(code, 1) /\ LabelBlock = n + 1
      BY <2>1 DEF LabelCode, LabelBlock, Fresh
    <3> HIDE DEF m, n
    <3>2. BlocksOK(LabelCode, n) /\ m = n + 1
      BY <1>1, <3>1, NewBlocksOK DEF m, n
    <3> QED BY <1>1, <3>1, <3>2
  <2>2. CASE labels[Line.name] # 0
    BY <1>1, <1>5, <2>2 DEF LabelCode, LabelBlock
  <2> QED BY <2>1, <2>2
<1> HIDE DEF m
<1>7. BlocksOK(LabelCode, m)
  BY <1>1, <1>6, BlocksGrow
<1>8. Len(code') = m /\ BlocksOK(code', m)
  <2>1. TargetsIn(Br(LabelBlock), m)
    BY <1>6, Branches
  <2> QED BY <1>6, <1>7, <2>1, EmitOK, EmitUnlessOK DEF GotoLabel, Label, m
<1>9. labels' \in [Labels -> 0..m]
  <2>1. labels \in [Labels -> 0..m] /\ LabelBlock \in 0..m
    BY <1>6, Unmoved
  <2>2. labels' = [labels EXCEPT ![Line.name] = LabelBlock]
    BY DEF GotoLabel, Label
  <2> QED BY <2>1, <2>2
<1>10. at' - 1 \in Nat /\ at - 1 <= at' - 1
  BY <1>2
<1>11. CallsOK(prog, open', at' - 1, m)
  BY <1>3, <1>6, <1>10, Unmoved
<1>12. block' \in 1..m /\ block' \in 0..m
  <2>1. block' = block \/ block' = LabelBlock
    BY DEF GotoLabel, Label
  <2> QED BY <1>1, <1>6, <2>1, Unmoved
<1>13. /\ \A i \in DOMAIN entry' : entry'[i] \in 1..m
       /\ header' \in 0..m /\ exit' \in 0..m /\ errors' \in BOOLEAN
  BY <1>3, <1>6, Unmoved
<1> QED BY <1>1, <1>2, <1>6, <1>8, <1>9, <1>11, <1>12, <1>13, StepOK

\* A function has a block of its own, the first.
LEMMA FnTypes == ASSUME TypeInv, FnDefine PROVE BlocksInv'
<1> DEFINE n == Len(code)
           m == Len(code) + 1
           f == Frame(0, 0)
<1>1. n \in Nat /\ m \in Nat /\ n <= m /\ m \in 1..m /\ BlocksOK(code, n) /\ Program /\ prog' = prog
  BY Counts DEF FnDefine
<1>2. at <= Len(prog) /\ at \in Nat \ {0} /\ open = <<>> /\ Len(prog) \in Nat
  BY Counts DEF FnDefine, Walking
<1>3. at' = at + 1 /\ at' \in 1..(Len(prog) + 1) /\ at' - 1 = at
  BY <1>2 DEF FnDefine, Next1
<1>4. Len(code') = m /\ BlocksOK(code', m)
  <2>1. code' = NewBlocks(code, 1)
    BY DEF FnDefine
  <2>2. BlocksOK(code', n) /\ Len(code') = m
    BY <1>1, <2>1, NewBlocksOK
  <2> HIDE DEF n, m
  <2> QED BY <1>1, <2>2, BlocksGrow
<1>5. block' = m /\ UNCHANGED <<header, exit, errors>>
  BY DEF FnDefine, Fresh, loop
<1>6. \A i \in DOMAIN entry' : entry'[i] \in 1..m
  <2>1. \A i \in DOMAIN entry : entry[i] \in 1..m
    BY <1>1, Unmoved
  <2>2. entry' = [i \in DOMAIN entry \cup {at} |-> IF i = at THEN m ELSE entry[i]]
    BY DEF FnDefine, Fresh
  <2> HIDE DEF m
  <2> QED BY <1>1, <2>1, <2>2
<1>7. labels' \in [Labels -> 0..m]
  BY <1>1 DEF FnDefine
<1>8. header' \in 0..m /\ exit' \in 0..m /\ errors' \in BOOLEAN
  BY <1>1, <1>5, Unmoved
<1>9. CallsOK(prog, open', at' - 1, m)
  <2>1. IsFrame(f) /\ f.line = at /\ {f.merge, f.next, f.dflt} \subseteq {0}
        /\ f.header = header /\ f.exit = exit
    BY DEF Frame, IsFrame
  <2>2. prog[at].kind = "fn" /\ open' = Append(open, f)
    BY <1>2 DEF FnDefine, Line
  <2> HIDE DEF f
  <2>3. {f.merge, f.next, f.dflt} \subseteq 0..m /\ f.line \in 1..at
    BY <1>1, <1>2, <2>1
  <2>4. header \in 0..m /\ exit \in 0..m
    BY <1>1, Unmoved
  <2>5. FrameOK(prog, f, at, m)
    BY <2>1, <2>2, <2>3, <2>4 DEF FrameOK
  <2>6. CallsOK(prog, open, at - 1, m)
    BY <1>2 DEF CallsOK
  <2> QED BY <1>1, <1>2, <1>3, <2>1, <2>2, <2>5, <2>6, CallsPush, Counts
<1>10. block' \in 1..m /\ block' \in 0..m
  BY <1>1, <1>5
<1> HIDE DEF m
<1> QED BY <1>1, <1>3, <1>4, <1>6, <1>7, <1>8, <1>9, <1>10, StepOK

\* The end of a construct: what comes next goes where its call says.
LEMMA EndTypes == ASSUME TypeInv, EndFn \/ EndLoop \/ EndArms PROVE BlocksInv'
<1> DEFINE m == Len(code)
<1>1. m \in Nat /\ m <= m /\ BlocksOK(code, m) /\ Program /\ open # <<>> /\ prog' = prog
  BY Counts DEF EndFn, EndLoop, EndArms
<1>2. at' = at /\ at \in 1..(Len(prog) + 1) /\ at - 1 \in Nat /\ UNCHANGED <<entry, labels>> /\ open' = Pop
  BY Counts DEF EndFn, EndLoop, EndArms
<1>3. block \in 1..m
  BY <1>1, Unmoved
<1>4. /\ prog[Top.line].kind \in Loops => exit \in 1..m /\ header \in 1..m
      /\ prog[Top.line].kind \in {"if", "match"} => Top.merge \in 1..m
      /\ Top.header \in 0..m /\ Top.exit \in 0..m
  <2>1. "fn" \notin Loops
    BY DEF Loops
  <2> QED BY <1>1, <2>1, Innermost, InnermostBlocks DEF FrameOK
<1>5. Len(code') = m /\ BlocksOK(code', m)
  <2>1. CASE EndFn
    BY <1>1, <2>1, Branches, EmitUnlessOK DEF EndFn
  <2>2. CASE EndArms
    <3>1. TargetsIn(Br(Top.merge), m)
      BY <1>1, <1>4, <2>2, Branches DEF EndArms
    <3>2. code' = code \/ code' = Joined
      BY <2>2 DEF EndArms
    <3> QED BY <1>1, <3>1, <3>2, EmitUnlessOK DEF Joined
  <2>3. CASE EndLoop
    <3>1. prog[Top.line].kind \in Loops
      BY <2>3 DEF EndLoop
    <3>2. /\ TargetsIn(Br(header), m) /\ TargetsIn(Br(exit), m)
          /\ \A line : TargetsIn(CondBr(line, header, exit), m)
          /\ \A op, line : TargetsIn(Instr(op, line, <<>>), m)
      BY <1>1, <1>4, <3>1, Branches
    <3>3. PICK kind, name : code' = code \/ code' = BackEdge(kind, name)
      BY <2>3 DEF EndLoop
    <3>4. Len(BackEdge(kind, name)) = m /\ BlocksOK(BackEdge(kind, name), m)
      <4>1. CASE kind = "for"
        <5> DEFINE c == Emit(code, block, Instr("step", Top.line, <<>>))
        <5>1. BlocksOK(c, m) /\ Len(c) = m
          BY <1>1, <3>2, EmitOK
        <5>2. BackEdge(kind, name) = Emit(c, block, Br(header))
          BY <4>1 DEF BackEdge
        <5> HIDE DEF c
        <5> QED BY <1>1, <3>2, <5>1, <5>2, EmitOK
      <4>2. CASE kind = "dowhile"
        <5>1. PICK i : TargetsIn(i, m) /\ BackEdge(kind, name) = Emit(code, block, i)
          BY <3>2, <4>2 DEF BackEdge
        <5> QED BY <1>1, <5>1, EmitOK
      <4>3. CASE kind \notin {"for", "dowhile"}
        <5>1. BackEdge(kind, name) = Emit(code, block, Br(header))
          BY <4>3 DEF BackEdge
        <5> QED BY <1>1, <3>2, <5>1, EmitOK
      <4> QED BY <4>1, <4>2, <4>3
    <3> QED BY <1>1, <3>3, <3>4
  <2> QED BY <2>1, <2>2, <2>3
<1>6. block' \in 1..m
  <2>1. \/ block' = block
        \/ prog[Top.line].kind \in Loops /\ block' = exit
        \/ prog[Top.line].kind \in {"if", "match"} /\ block' = Top.merge
    BY DEF EndFn, EndLoop, EndArms
  <2> QED BY <1>3, <1>4, <2>1
<1>7. header' \in 0..m /\ exit' \in 0..m
  <2>1. CASE EndLoop
    BY <1>4, <2>1 DEF EndLoop
  <2>2. CASE EndFn \/ EndArms
    <3>1. header' = header /\ exit' = exit
      BY <2>2 DEF EndFn, EndArms, loop
    <3> QED BY <1>1, <3>1, Unmoved
  <2> QED BY <2>1, <2>2
<1>8. errors' \in BOOLEAN
  <2>1. errors \in BOOLEAN
    BY DEF TypeInv, BlocksInv
  <2> QED BY <2>1 DEF EndFn, EndLoop, EndArms
<1>9. CallsOK(prog, open', at' - 1, m)
  <2>1. CallsOK(prog, open, at - 1, m)
    BY DEF TypeInv, BlocksInv
  <2> QED BY <1>1, <1>2, <2>1, Counts, CallsPop DEF Pop
<1>10. labels' \in [Labels -> 0..m] /\ \A i \in DOMAIN entry' : entry'[i] \in 1..m
  BY <1>1, <1>2, Unmoved
<1>11. block' \in 0..m /\ at' \in 1..(Len(prog) + 1)
  BY <1>1, <1>2, <1>6
<1> HIDE DEF m
<1> QED BY <1>1, <1>5, <1>6, <1>7, <1>8, <1>9, <1>10, <1>11, StepOK

\* The program as it is handed over.
LEMMA ParseTypes == ASSUME TypeInv, Parse PROVE BlocksInv'
<1>1. PICK line \in UNION Vocabularies : prog' = Append(prog, line)
  BY DEF Parse
<1>2. Program' /\ at' = at
  <2>1. prog \in Seq(UNION Vocabularies) /\ at \in 1..(Len(prog) + 1) /\ at' = at
    BY DEF TypeInv, BlocksInv, Program, Parse
  <2> QED BY <1>1, <2>1 DEF Program
<1>3. open = <<>> /\ UNCHANGED <<open, code, block, entry, labels, header, exit, errors>>
  BY DEF Parse, loop
<1>4. CallsOK(prog', open', at' - 1, Len(code)')
  BY <1>3 DEF CallsOK
<1> QED BY <1>2, <1>3, <1>4 DEF TypeInv, BlocksInv

LEMMA InitTypes == Init => BlocksInv
<1> SUFFICES ASSUME Init PROVE BlocksInv
  OBVIOUS
<1>1. /\ prog = <<>> /\ at = 1 /\ open = <<>> /\ code = <<>> /\ block = 0
      /\ entry = [i \in {} |-> 0] /\ labels = [l \in Labels |-> 0] /\ header = 0 /\ exit = 0
      /\ errors = FALSE
  BY DEF Init
<1>2. Program
  BY <1>1 DEF Program
<1>3. IsSequence(code) /\ Len(code) = 0
  <2>1. <<>> \in Seq({}) /\ Len(<<>>) = 0
    OBVIOUS
  <2> QED BY <1>1, <2>1 DEF IsSequence
<1>4. BlocksOK(code, Len(code)) /\ CallsOK(prog, open, at - 1, Len(code))
  BY <1>1, <1>3 DEF BlocksOK, CallsOK
<1>5. labels \in [Labels -> 0..Len(code)] /\ DOMAIN entry = {}
  BY <1>1, <1>3
<1>6. block \in 0..Len(code) /\ header \in 0..Len(code) /\ exit \in 0..Len(code)
  BY <1>1, <1>3
<1>7. errors \in BOOLEAN
  BY <1>1
<1> QED BY <1>1, <1>2, <1>4, <1>5, <1>6, <1>7 DEF BlocksInv

\* A loop has a header, a body and an exit, in this order.
LEMMA LoopTypes == ASSUME TypeInv, Loop PROVE BlocksInv'
<1>1. PICK kind \in Loops :
        LET head == Fresh(1) body == Fresh(2) out == Fresh(3)
            before == IF kind = "for" THEN Emit(code, block, Instr("init", at, <<>>)) ELSE code
            entered == Emit(NewBlocks(before, 3), block, Br(head))
        IN  /\ Ready(kind)
            /\ \/ /\ code' = entered /\ block' = head
                  /\ Fail /\ Ungenerated
                  /\ UNCHANGED <<open, loop>>
               \/ /\ \E i \in {CondBr(at, body, out), Br(body)} : code' = Emit(entered, head, i)
                  /\ block' = body
                  /\ header' = head /\ exit' = out
                  /\ open' = Append(open, Frame(out, head))
                  /\ Next1
                  /\ UNCHANGED errors
            /\ UNCHANGED <<prog, entry, labels>>
  BY DEF Loop
<1> DEFINE n == Len(code)
           m == Len(code) + 3
           before == IF kind = "for" THEN Emit(code, block, Instr("init", at, <<>>)) ELSE code
           entered == Emit(NewBlocks(before, 3), block, Br(Fresh(1)))
           f == Frame(Fresh(3), Fresh(1))
<1>2. n \in Nat /\ m \in Nat /\ n <= m /\ BlocksOK(code, n) /\ Program /\ open # <<>> /\ prog' = prog
      /\ at <= Len(prog) /\ at \in Nat \ {0} /\ Len(prog) \in Nat
  BY <1>1, Counts DEF Ready, InBody
<1>3. Fresh(1) \in 1..m /\ Fresh(2) \in 1..m /\ Fresh(3) \in 1..m
  BY <1>2 DEF Fresh
<1>4. BlocksOK(entered, m) /\ Len(entered) = m
  <2>1. BlocksOK(before, n) /\ Len(before) = n
    <3>1. TargetsIn(Instr("init", at, <<>>), n)
      BY <1>2, Branches
    <3> QED BY <1>2, <3>1, EmitOK
  <2> HIDE DEF before
  <2>2. BlocksOK(NewBlocks(before, 3), n) /\ Len(NewBlocks(before, 3)) = m
    BY <1>2, <2>1, NewBlocksOK
  <2>3. BlocksOK(NewBlocks(before, 3), m)
    BY <1>2, <2>2, BlocksGrow
  <2>4. TargetsIn(Br(Fresh(1)), m)
    BY <1>2, <1>3, Branches
  <2> QED BY <1>2, <2>2, <2>3, <2>4, EmitOK
<1>5. labels' \in [Labels -> 0..m] /\ \A i \in DOMAIN entry' : entry'[i] \in 1..m
  BY <1>1, <1>2, Unmoved
<1>6. CASE /\ code' = entered /\ block' = Fresh(1)
           /\ Fail /\ Ungenerated
           /\ UNCHANGED <<open, loop>>
  <2>1. at' \in (at + 1)..(Len(prog) + 1)
    BY <1>2, <1>6, Ahead
  <2>2. at' - 1 \in Nat /\ at - 1 <= at' - 1 /\ at' \in 1..(Len(prog) + 1)
    BY <1>2, <2>1, Later
  <2>3. CallsOK(prog, open', at' - 1, m)
    BY <1>2, <1>6, <2>2, Unmoved
  <2>4. header' \in 0..m /\ exit' \in 0..m
    BY <1>2, <1>6, Unmoved DEF loop
  <2>5. block' \in 0..m /\ block' \in 1..m /\ Len(code') = m /\ BlocksOK(code', m) /\ errors' \in BOOLEAN
    BY <1>2, <1>3, <1>4, <1>6 DEF Fail
  <2> HIDE DEF m
  <2> QED BY <1>2, <1>5, <2>2, <2>3, <2>4, <2>5, StepOK
<1>7. CASE /\ \E i \in {CondBr(at, Fresh(2), Fresh(3)), Br(Fresh(2))} : code' = Emit(entered, Fresh(1), i)
           /\ block' = Fresh(2)
           /\ header' = Fresh(1) /\ exit' = Fresh(3)
           /\ open' = Append(open, f)
           /\ Next1
           /\ UNCHANGED errors
  <2>1. at' = at + 1 /\ at' \in 1..(Len(prog) + 1) /\ at' - 1 = at
    BY <1>2, <1>7, Ahead
  <2>2. Len(code') = m /\ BlocksOK(code', m)
    <3>1. PICK i \in {CondBr(at, Fresh(2), Fresh(3)), Br(Fresh(2))} : code' = Emit(entered, Fresh(1), i)
      BY <1>7
    <3>2. TargetsIn(i, m)
      BY <1>2, <1>3, <3>1, Branches
    <3> HIDE DEF m, entered
    <3> QED BY <1>2, <1>4, <3>1, <3>2, EmitOK
  <2>3. block' \in 0..m /\ block' \in 1..m /\ header' \in 0..m /\ exit' \in 0..m
    BY <1>2, <1>3, <1>7
  <2>4. errors' \in BOOLEAN
    BY <1>7 DEF TypeInv, BlocksInv
  <2>5. CallsOK(prog, open', at' - 1, m)
    <3>1. IsFrame(f) /\ f.line = at /\ f.merge = Fresh(3) /\ f.next = Fresh(1) /\ f.dflt = Fresh(3)
          /\ f.header = header /\ f.exit = exit
      BY DEF Frame, IsFrame
    <3> HIDE DEF f
    <3>2. header \in 0..m /\ exit \in 0..m
      BY <1>2, Unmoved
    <3>3. {f.merge, f.next, f.dflt} \subseteq 1..m /\ {f.merge, f.next, f.dflt} \subseteq 0..m
      BY <1>2, <1>3, <3>1
    <3>4. FrameOK(prog, f, at, m)
      BY <1>2, <3>1, <3>2, <3>3 DEF FrameOK
    <3>5. CallsOK(prog, open, at - 1, m)
      <4>1. at - 1 \in Nat /\ at - 1 <= at - 1
        BY <1>2
      <4> QED BY <1>2, <4>1, Unmoved
    <3> QED BY <1>2, <1>7, <2>1, <3>1, <3>4, <3>5, CallsPush, Counts
  <2> HIDE DEF m
  <2> QED BY <1>2, <1>5, <2>1, <2>2, <2>3, <2>4, <2>5, StepOK
<1> QED BY <1>1, <1>6, <1>7

\* The blocks of an arm: its own, and that of the condition after it, if there
\* is one.
LEMMA ArmOK ==
  ASSUME NEW c, NEW n \in Nat, BlocksOK(c, n), Len(c) = n, NEW b, NEW merge \in 1..n
  PROVE  LET arm == Arm(c, b, merge)
             m == Len(arm.code)
         IN  /\ BlocksOK(arm.code, m) /\ m \in Nat /\ n <= m
             /\ arm.then \in 1..m /\ arm.else \in 1..m
<1> DEFINE last == NextPart(prog, at) = 0
           k == IF last THEN 1 ELSE 2
           m == n + k
           then == n + 1
           else == IF last THEN merge ELSE n + 2
           new == Emit(NewBlocks(c, k), b, CondBr(at, then, else))
<1>1. Arm(c, b, merge) = [code |-> new, then |-> then, else |-> else]
  BY DEF Arm
<1>2. k \in {1, 2} /\ m \in Nat /\ n <= m /\ then \in 1..m /\ else \in 1..m
  OBVIOUS
<1>3. BlocksOK(new, m) /\ Len(new) = m
  <2>1. BlocksOK(NewBlocks(c, k), n) /\ Len(NewBlocks(c, k)) = m
    BY <1>2, NewBlocksOK
  <2>2. BlocksOK(NewBlocks(c, k), m)
    BY <1>2, <2>1, BlocksGrow
  <2>3. TargetsIn(CondBr(at, then, else), m)
    BY <1>2, Branches
  <2> HIDE DEF k, then, else, m
  <2> QED BY <1>2, <2>1, <2>2, <2>3, EmitOK
<1> HIDE DEF k, then, else, m, new
<1>4. /\ Arm(c, b, merge).code = new /\ Arm(c, b, merge).then = then
      /\ Arm(c, b, merge).else = else
  BY <1>1
<1> QED BY <1>2, <1>3, <1>4

\* An arm ends where the construct does.
LEMMA JoinedOK ==
  ASSUME TypeInv, open # <<>>, prog[Top.line].kind # "fn"
  PROVE  BlocksOK(Joined, Len(code)) /\ Len(Joined) = Len(code)
<1>1. TargetsIn(Br(Top.merge), Len(code))
  BY InnermostBlocks, Counts, Branches
<1> QED BY <1>1, Counts, EmitUnlessOK DEF Joined

\* A call for an if or a match, new or at its next arm.
LEMMA ArmCalls ==
  ASSUME TypeInv, NEW m \in Nat, Len(code) <= m, at <= Len(prog), open # <<>>,
         NEW f, IsFrame(f), {f.merge, f.next, f.dflt} \subseteq 1..m
  PROVE  /\ f.line = at /\ f.header = header /\ f.exit = exit =>
              CallsOK(prog, Append(open, f), at, m)
         /\ f.line = Top.line /\ f.header = Top.header /\ f.exit = Top.exit =>
              CallsOK(prog, WithTop(open, f), at, m)
<1>1. at \in Nat \ {0} /\ at - 1 \in Nat /\ at - 1 <= at /\ at - 1 <= at - 1 /\ Frames(open)
  BY Counts
<1>2. CallsOK(prog, open, at - 1, m) /\ CallsOK(prog, open, at, m)
  BY <1>1, Unmoved
<1>3. {f.merge, f.next, f.dflt} \subseteq 0..m
  OBVIOUS
<1>4. ASSUME f.line = at, f.header = header, f.exit = exit
      PROVE  CallsOK(prog, Append(open, f), at, m)
  <2>1. header \in 0..m /\ exit \in 0..m /\ at \in 1..at
    BY <1>1, Unmoved
  <2>2. FrameOK(prog, f, at, m)
    BY <1>3, <1>4, <2>1 DEF FrameOK
  <2> QED BY <1>1, <1>2, <1>4, <2>2, CallsPush
<1>5. ASSUME f.line = Top.line, f.header = Top.header, f.exit = Top.exit
      PROVE  CallsOK(prog, WithTop(open, f), at, m)
  <2>1. FrameOK(prog, Top, at, m)
    <3>1. Len(open) \in 1..Len(open)
      BY <1>1 DEF Frames
    <3> QED BY <1>2, <3>1 DEF CallsOK, Top
  <2>2. FrameOK(prog, f, at, m)
    BY <1>3, <1>5, <2>1 DEF FrameOK
  <2> QED BY <1>1, <1>2, <1>5, <2>2, CallsSet DEF Top
<1> QED BY <1>4, <1>5

\* What the actions of if and match have in common.
LEMMA ArmStep ==
  ASSUME TypeInv, prog' = prog, NEW m \in Nat, Len(code) <= m, Len(code') = m, BlocksOK(code', m),
         at' \in (at + 1)..(Len(prog) + 1), block' \in 1..m, UNCHANGED <<entry, labels, loop>>,
         CallsOK(prog, open', at' - 1, m), errors' \in BOOLEAN
  PROVE  BlocksInv'
<1>1. Program /\ at \in Nat /\ Len(prog) \in Nat
  BY Counts
<1>2. at' \in 1..(Len(prog) + 1) /\ block' \in 0..m
  BY <1>1
<1>3. /\ \A i \in DOMAIN entry' : entry'[i] \in 1..m
      /\ labels' \in [Labels -> 0..m] /\ header' \in 0..m /\ exit' \in 0..m
  BY Unmoved DEF loop
<1> QED BY <1>1, <1>2, <1>3, StepOK

\* if, with its first arm, and match.
LEMMA OpenArmsTypes == ASSUME TypeInv, If \/ Match PROVE BlocksInv'
<1>1. /\ Len(code) \in Nat /\ BlocksOK(code, Len(code)) /\ open # <<>> /\ prog' = prog
      /\ at <= Len(prog) /\ at \in Nat \ {0} /\ Len(prog) \in Nat
      /\ UNCHANGED <<entry, labels, loop>>
  BY Counts DEF If, Match, Ready, InBody
<1>2. block \in 1..Len(code) /\ errors \in BOOLEAN
  BY <1>1 DEF TypeInv, BlocksInv
<1> DEFINE merge == Fresh(1)
           n == Len(code) + 1
           new == NewBlocks(code, 1)
           arm == Arm(new, block, merge)
<1>3. /\ n \in Nat /\ Len(code) <= n /\ Len(new) = n /\ BlocksOK(new, n)
      /\ merge \in 1..n /\ block \in 1..n
  <2>1. Len(new) = Len(code) + 1 /\ BlocksOK(new, Len(code))
    BY <1>1, NewBlocksOK
  <2>2. n \in Nat /\ Len(code) <= n /\ merge \in 1..n /\ block \in 1..n
    BY <1>1, <1>2 DEF Fresh
  <2> QED BY <1>1, <2>1, <2>2, BlocksGrow
<1>4. Next1 => at' \in (at + 1)..(Len(prog) + 1) /\ at' - 1 = at
  BY <1>1, Ahead
<1>5. Ungenerated => /\ at' \in (at + 1)..(Len(prog) + 1)
                     /\ at' - 1 \in Nat /\ at - 1 <= at' - 1
  BY <1>1, Ahead, Later
<1>6. CASE code' = new /\ block' = block /\ open' = open /\ Fail /\ Ungenerated
  <2>1. CallsOK(prog, open', at' - 1, n) /\ errors' \in BOOLEAN
    BY <1>3, <1>5, <1>6, Unmoved DEF Fail
  <2> HIDE DEF n, new
  <2> QED BY <1>1, <1>3, <1>5, <1>6, <2>1, ArmStep
<1>7. CASE UNCHANGED <<code, block, open>> /\ Fail /\ Ungenerated
  <2>1. Len(code) <= Len(code)
    BY <1>1
  <2>2. CallsOK(prog, open', at' - 1, Len(code)) /\ errors' \in BOOLEAN
    BY <1>1, <1>5, <1>7, <2>1, Unmoved DEF Fail
  <2> QED BY <1>1, <1>2, <1>5, <1>7, <2>1, <2>2, ArmStep
<1>8. ASSUME NEW m \in Nat, n <= m, Len(code') = m, BlocksOK(code', m), block' \in 1..m,
             NEW next \in 1..m, open' = Append(open, Frame(merge, next)), Next1,
             errors' = errors
      PROVE  BlocksInv'
  <2>1. Len(code) <= m /\ merge \in 1..m
    BY <1>1, <1>3, <1>8
  <2> DEFINE f == Frame(merge, next)
  <2>2. /\ IsFrame(f) /\ f.line = at /\ f.header = header /\ f.exit = exit
        /\ f.merge = merge /\ f.dflt = merge /\ f.next = next
    BY DEF Frame, IsFrame
  <2> HIDE DEF f, merge
  <2>3. {f.merge, f.next, f.dflt} \subseteq 1..m
    BY <2>1, <2>2
  <2>4. CallsOK(prog, Append(open, f), at, m)
    BY <1>1, <2>1, <2>2, <2>3, ArmCalls
  <2>5. CallsOK(prog, open', at' - 1, m)
    BY <1>4, <1>8, <2>4 DEF f
  <2>6. errors' \in BOOLEAN
    BY <1>2, <1>8
  <2> QED BY <1>1, <1>4, <1>8, <2>1, <2>5, <2>6, ArmStep
<1>9. CASE If
  <2>1. CASE ~Known
    BY <1>6, <1>9, <2>1 DEF If
  <2>2. CASE Known
    <3>1. /\ code' = arm.code /\ block' = arm.then /\ Next1 /\ errors' = errors
          /\ open' = Append(open, Frame(merge, arm.else))
      BY <1>9, <2>2 DEF If
    <3> DEFINE m == Len(arm.code)
    <3>2. /\ BlocksOK(arm.code, m) /\ m \in Nat /\ n <= m
          /\ arm.then \in 1..m /\ arm.else \in 1..m
      <4> HIDE DEF n, new, merge
      <4> QED BY <1>3, ArmOK
    <3> HIDE DEF arm, merge, n
    <3> QED BY <1>8, <3>1, <3>2
  <2> QED BY <2>1, <2>2
<1>10. CASE Match
  <2>1. CASE ~Known
    BY <1>7, <1>10, <2>1 DEF Match
  <2>2. CASE Known
    <3>1. /\ code' = new /\ block' = block /\ Next1 /\ errors' = errors
          /\ open' = Append(open, Frame(merge, block))
      BY <1>10, <2>2 DEF Match
    <3>2. n <= n
      BY <1>3
    <3> HIDE DEF new, merge, n
    <3> QED BY <1>3, <1>8, <3>1, <3>2
  <2> QED BY <2>1, <2>2
<1> QED BY <1>9, <1>10

\* The later arms of an if and the cases of a match.
LEMMA ArmsTypes == ASSUME TypeInv, ElseIf \/ Else \/ Case PROVE BlocksInv'
<1>1. /\ open # <<>> /\ prog' = prog /\ at <= Len(prog) /\ UNCHANGED <<entry, labels, loop>>
      /\ prog[Top.line].kind # "fn"
  BY DEF ElseIf, Else, Case, AtPart
<1> DEFINE n == Len(code)
<1>2. /\ n \in Nat /\ n <= n /\ BlocksOK(code, n) /\ at \in Nat \ {0} /\ Len(prog) \in Nat
      /\ Frames(open) /\ errors \in BOOLEAN
  BY Counts DEF TypeInv, BlocksInv
<1>3. /\ Top.merge \in 1..n /\ Top.next \in 1..n /\ Top.dflt \in 1..n
      /\ BlocksOK(Joined, n) /\ Len(Joined) = n
  BY <1>1, InnermostBlocks, JoinedOK
<1>4. Next1 => at' \in (at + 1)..(Len(prog) + 1) /\ at' - 1 = at
  BY <1>1, <1>2, Ahead
<1>5. ASSUME NEW m \in Nat, n <= m, Len(code') = m, BlocksOK(code', m), block' \in 1..m,
             NEW next \in 1..m, NEW dflt \in 1..m,
             open' = [open EXCEPT ![Len(open)] = AtArm(next, dflt)], Next1, errors' = errors
      PROVE  BlocksInv'
  <2> DEFINE f == AtArm(next, dflt)
  <2>1. /\ IsFrame(f) /\ f.line = Top.line /\ f.header = Top.header /\ f.exit = Top.exit
        /\ f.merge = Top.merge /\ f.next = next /\ f.dflt = dflt
    BY DEF AtArm, IsFrame
  <2>2. open' = WithTop(open, f)
    BY <1>5 DEF WithTop
  <2> HIDE DEF f
  <2>3. {f.merge, f.next, f.dflt} \subseteq 1..m
    BY <1>2, <1>3, <1>5, <2>1
  <2>4. CallsOK(prog, WithTop(open, f), at, m)
    BY <1>1, <1>5, <2>1, <2>3, ArmCalls
  <2>5. CallsOK(prog, open', at' - 1, m) /\ errors' \in BOOLEAN
    BY <1>2, <1>4, <1>5, <2>2, <2>4
  <2> QED BY <1>1, <1>4, <1>5, <2>5, ArmStep
<1>6. CASE ElseIf
  <2> DEFINE arm == Arm(Joined, Top.next, Top.merge)
             m == Len(arm.code)
  <2>1. CASE Known
    <3>1. /\ code' = arm.code /\ block' = arm.then /\ Next1 /\ errors' = errors
          /\ open' = [open EXCEPT ![Len(open)] = AtArm(arm.else, Top.dflt)]
      BY <1>6, <2>1 DEF ElseIf
    <3>2. /\ BlocksOK(arm.code, m) /\ m \in Nat /\ n <= m
          /\ arm.then \in 1..m /\ arm.else \in 1..m
      BY <1>2, <1>3, ArmOK
    <3>3. Top.dflt \in 1..m
      BY <1>2, <1>3, <3>2
    <3> HIDE DEF arm, n
    <3> QED BY <1>5, <3>1, <3>2, <3>3
  <2>2. CASE ~Known
    <3>1. code' = Joined /\ block' = Top.next /\ open' = Pop /\ Fail /\ Ungenerated
      BY <1>6, <2>2 DEF ElseIf
    <3>2. at' \in (at + 1)..(Len(prog) + 1) /\ at' - 1 \in Nat /\ at - 1 <= at' - 1
      BY <1>1, <1>2, <3>1, Ahead, Later
    <3>3. CallsOK(prog, open, at' - 1, n)
      BY <1>2, <3>2, Unmoved
    <3>4. CallsOK(prog, open', at' - 1, n) /\ errors' \in BOOLEAN
      BY <1>1, <1>2, <3>1, <3>3, CallsPop DEF Pop, Fail
    <3> QED BY <1>1, <1>2, <1>3, <3>1, <3>2, <3>4, ArmStep
  <2> QED BY <2>1, <2>2
<1>7. CASE Else
  <2>1. /\ code' = Joined /\ block' = Top.next /\ Next1 /\ errors' = errors
        /\ open' = [open EXCEPT ![Len(open)] = AtArm(Top.next, Top.dflt)]
    BY <1>7 DEF Else
  <2> QED BY <1>2, <1>3, <1>5, <2>1
<1>8. CASE Case
  <2> DEFINE joined == IF Top.part = Top.line THEN code ELSE Joined
             last == NextPart(prog, at) = 0
             k == IF last THEN 1 ELSE 2
             m == n + k
             body == Fresh(1)
             next == IF last THEN Top.dflt ELSE Fresh(2)
             branch == IF Line.kind = "default" THEN Br(body) ELSE CondBr(at, body, next)
             dflt == IF Line.kind = "default" THEN body ELSE Top.dflt
  <2>1. /\ code' = Emit(NewBlocks(joined, k), Top.next, branch) /\ block' = body
        /\ open' = [open EXCEPT ![Len(open)] = AtArm(next, dflt)]
        /\ Next1 /\ errors' = errors
    BY <1>8 DEF Case
  <2>2. k \in Nat /\ m \in Nat /\ n <= m /\ body \in 1..m /\ next \in 1..m /\ dflt \in 1..m
    BY <1>2, <1>3 DEF Fresh
  <2>3. BlocksOK(joined, n) /\ Len(joined) = n
    BY <1>2, <1>3
  <2>4. TargetsIn(branch, m)
    <3> HIDE DEF body, next, m
    <3> QED BY <2>2, Branches
  <2> HIDE DEF joined, k, body, next, branch, dflt
  <2>5. BlocksOK(NewBlocks(joined, k), m) /\ Len(NewBlocks(joined, k)) = m
    <3>1. BlocksOK(NewBlocks(joined, k), n) /\ Len(NewBlocks(joined, k)) = m
      BY <1>2, <2>2, <2>3, NewBlocksOK
    <3> QED BY <1>2, <2>2, <3>1, BlocksGrow
  <2>6. BlocksOK(code', m) /\ Len(code') = m
    BY <2>1, <2>2, <2>4, <2>5, EmitOK
  <2> HIDE DEF m, n
  <2> QED BY <1>5, <2>1, <2>2, <2>6
<1> QED BY <1>6, <1>7, <1>8

LEMMA StepTypes == ASSUME TypeInv, [Generate]_vars PROVE TypeInv'
<1>1. WalkInv'
  BY StepWalk DEF TypeInv
<1>2. ASSUME UNCHANGED vars PROVE BlocksInv'
  BY <1>2 DEF vars, loop, TypeInv, BlocksInv, Program
<1>3. BlocksInv'
  BY <1>2, ParseTypes, FnTypes, StopTypes, PlainTypes, LabelTypes, EndTypes, LoopTypes,
     OpenArmsTypes, ArmsTypes DEF Generate, Walk
<1> QED BY <1>1, <1>3 DEF TypeInv

\* Whatever the program: the walk never names a block that does not exist, as
\* insertion point, as target of a branch or in what a call keeps, and there is
\* always one to insert into while a function is being generated.
THEOREM BlocksTheorem == Spec => []TypeOK
<1>1. Init => TypeInv
  BY InitWalk, InitTypes DEF TypeInv
<1> QED BY <1>1, StepTypes, BlocksType, PTL DEF Spec

----------------------------------------------------------------------------
(* Where the walk is in the tree.                                          *)

\* The tree that Parse builds: its functions are the lines on the top level.
Rooted(p) == IsTree(p) /\ \A i \in 1..Len(p) : p[i].kind = "fn" <=> p[i].depth = 0

\* The call f is the k-th in progress at line n, in the arm that line f.part
\* begins.
FrameAt(p, f, k, n) ==
  /\ f.line \in 1..(n - 1) /\ f.part \in f.line..(n - 1)
  /\ p[f.line].kind \in Loops \cup {"fn", "if", "match"}
  /\ p[f.line].depth = k - 1 /\ p[f.part].depth = k - 1
  /\ f.part # f.line => \/ p[f.line].kind = "if" /\ p[f.part].kind \in IfParts
                        \/ p[f.line].kind = "match" /\ p[f.part].kind \in Cases
  /\ \A j \in (f.part + 1)..(n - 1) : p[j].depth >= k

\* The lines around line n are those of the calls s, and of their arms.
Walked(p, s, n) ==
  /\ Rooted(p) /\ n \in 1..(Len(p) + 1) /\ Len(s) \in Nat
  /\ \A k \in 1..Len(s) : FrameAt(p, s[k], k, n)
  /\ \A k \in 1..Len(s) : \A l \in 1..(k - 1) : s[l].part < s[k].line
  /\ n <= Len(p) => \A j \in 1..(n - 1) : In(p, j, n) =>
       \E k \in 1..Len(s) : j = s[k].line \/ j = s[k].part

LEMMA TreeFacts ==
  ASSUME NEW p, Rooted(p)
  PROVE  /\ HasDepths(p) /\ Len(p) \in Nat
         /\ \A i \in 1..Len(p) : i \in Nat /\ p[i].depth \in Nat
         /\ \A i \in 1..Len(p) : i + 1 <= Len(p) /\ p[i].kind \notin Heads => p[i + 1].depth <= p[i].depth
<1>1. HasDepths(p) /\ Len(p) \in Nat /\ \A i \in 1..Len(p) : i \in Nat /\ p[i].depth \in Nat
  BY DEF Rooted, IsTree, HasDepths
<1>2. ASSUME NEW i \in 1..Len(p), i + 1 <= Len(p), p[i].kind \notin Heads
      PROVE  p[i + 1].depth <= p[i].depth
  <2>1. i + 1 \in 1..Len(p) /\ i + 1 # 1 /\ (i + 1) - 1 = i
    BY <1>1, <1>2
  <2>2. p[i + 1].depth <= IF p[(i + 1) - 1].kind \in Heads THEN p[(i + 1) - 1].depth + 1 ELSE p[(i + 1) - 1].depth
    BY <2>1 DEF Rooted, IsTree
  <2> QED BY <1>2, <2>1, <2>2
<1> QED BY <1>1, <1>2

\* The next line is at most one deeper than the innermost call.
LEMMA Deepest ==
  ASSUME NEW p, NEW s, NEW n, Walked(p, s, n), n <= Len(p)
  PROVE  p[n].depth \in Nat /\ p[n].depth <= Len(s)
<1>1. Rooted(p) /\ n \in 1..Len(p) /\ Len(s) \in Nat
  BY TreeFacts DEF Walked
<1>2. p[n].depth \in Nat
  BY <1>1, TreeFacts
<1>3. CASE p[n].depth # 0
  <2>1. PICK j \in 1..Len(p) : In(p, j, n) /\ p[j].depth + 1 = p[n].depth
    BY <1>1, <1>3, HasParent DEF Rooted
  <2>2. j \in 1..(n - 1) /\ p[j].depth \in Nat
    BY <1>1, <2>1, TreeFacts DEF In
  <2>3. PICK k \in 1..Len(s) : j = s[k].line \/ j = s[k].part
    BY <1>1, <2>1, <2>2 DEF Walked
  <2>4. p[j].depth = k - 1
    BY <2>3 DEF Walked, FrameAt
  <2> QED BY <1>1, <2>1, <2>2, <2>3, <2>4
<1> QED BY <1>1, <1>2, <1>3

\* An instruction without a body.
LEMMA WalkOn ==
  ASSUME NEW p, NEW s, NEW n, Walked(p, s, n), n <= Len(p), p[n].depth >= Len(s), p[n].kind \notin Heads
  PROVE  Walked(p, s, n + 1)
<1>1. Rooted(p) /\ n \in 1..Len(p) /\ Len(s) \in Nat /\ n \in Nat /\ Len(p) \in Nat /\ n + 1 \in 1..(Len(p) + 1)
  BY TreeFacts DEF Walked
<1>2. ASSUME NEW k \in 1..Len(s) PROVE FrameAt(p, s[k], k, n + 1)
  <2>1. FrameAt(p, s[k], k, n) /\ k \in Nat /\ k <= Len(s)
    BY <1>1 DEF Walked
  <2>2. \A j \in (s[k].part + 1)..((n + 1) - 1) : j \in (s[k].part + 1)..(n - 1) \/ j = n
    BY <1>1, <2>1 DEF FrameAt
  <2>3. p[n].depth >= k
    BY <1>1, <2>1, TreeFacts
  <2>4. s[k].line \in 1..((n + 1) - 1) /\ s[k].part \in s[k].line..((n + 1) - 1)
    BY <1>1, <2>1 DEF FrameAt
  <2> QED BY <2>1, <2>2, <2>3, <2>4 DEF FrameAt
<1>3. ASSUME n + 1 <= Len(p), NEW j \in 1..((n + 1) - 1), In(p, j, n + 1)
      PROVE  \E k \in 1..Len(s) : j = s[k].line \/ j = s[k].part
  <2>1. j # n
    <3>1. p[n + 1].depth <= p[n].depth /\ p[n + 1].depth \in Nat /\ p[n].depth \in Nat
      BY <1>1, <1>3, TreeFacts
    <3>2. SUFFICES ASSUME j = n PROVE FALSE
      OBVIOUS
    <3> QED BY <1>1, <1>3, <3>1, <3>2, InDeeper
  <2>2. j \in 1..(n - 1) /\ In(p, j, n)
    BY <1>1, <1>3, <2>1, InBetween
  <2> QED BY <1>1, <2>2 DEF Walked
<1> QED BY <1>1, <1>2, <1>3 DEF Walked

\* The frames are the same ones but for the n-th.
SameFrames(s, t, n) == \A k \in 1..n : t[k].line = s[k].line /\ t[k].part = s[k].part

\* An instruction with bodies is opened.
LEMMA WalkIn ==
  ASSUME NEW p, NEW s, NEW n, Walked(p, s, n), n <= Len(p), p[n].depth >= Len(s),
         p[n].kind \in Loops \cup {"fn", "if", "match"},
         NEW t, Len(t) = Len(s) + 1, SameFrames(s, t, Len(s)), t[Len(s) + 1].line = n, t[Len(s) + 1].part = n
  PROVE  Walked(p, t, n + 1)
<1>1. Rooted(p) /\ n \in 1..Len(p) /\ Len(s) \in Nat /\ n \in Nat /\ Len(p) \in Nat /\ n + 1 \in 1..(Len(p) + 1)
  BY TreeFacts DEF Walked
<1> DEFINE m == Len(s)
<1>2. p[n].depth = m /\ m \in Nat /\ Len(t) = m + 1
  BY <1>1, Deepest
<1> HIDE DEF m
<1>3. ASSUME NEW k \in 1..m PROVE FrameAt(p, t[k], k, n + 1)
  <2>1. FrameAt(p, s[k], k, n) /\ k \in Nat /\ k <= m /\ t[k].line = s[k].line /\ t[k].part = s[k].part
    BY <1>2 DEF Walked, SameFrames, m
  <2>2. \A j \in (s[k].part + 1)..((n + 1) - 1) : j \in (s[k].part + 1)..(n - 1) \/ j = n
    BY <1>1, <2>1 DEF FrameAt
  <2>3. p[n].depth >= k
    BY <1>2, <2>1
  <2>4. s[k].line \in 1..((n + 1) - 1) /\ s[k].part \in s[k].line..((n + 1) - 1)
    BY <1>1, <2>1 DEF FrameAt
  <2> QED BY <2>1, <2>2, <2>3, <2>4 DEF FrameAt
<1>4. FrameAt(p, t[m + 1], m + 1, n + 1)
  <2>1. t[m + 1].line = n /\ t[m + 1].part = n
    BY DEF m
  <2>2. n \in 1..((n + 1) - 1) /\ n \in n..((n + 1) - 1) /\ (m + 1) - 1 = m
    BY <1>1, <1>2
  <2>3. \A j \in (n + 1)..((n + 1) - 1) : p[j].depth >= m + 1
    BY <1>1
  <2> QED BY <1>2, <2>1, <2>2, <2>3 DEF FrameAt
<1>5. \A k \in 1..(m + 1) : k \in 1..m \/ k = m + 1
  BY <1>2
<1>6. ASSUME NEW k \in 1..(m + 1), NEW l \in 1..(k - 1) PROVE t[l].part < t[k].line
  <2>1. l \in 1..m /\ t[l].part = s[l].part
    BY <1>2, <1>5 DEF SameFrames, m
  <2>2. CASE k \in 1..m
    BY <2>1, <2>2 DEF Walked, SameFrames, m
  <2>3. CASE k = m + 1
    <3>1. FrameAt(p, s[l], l, n)
      BY <2>1 DEF Walked, m
    <3>2. s[l].part < n
      BY <1>1, <3>1 DEF FrameAt
    <3> QED BY <2>1, <2>3, <3>2 DEF m
  <2> QED BY <1>5, <2>2, <2>3
<1>7. ASSUME n + 1 <= Len(p), NEW j \in 1..((n + 1) - 1), In(p, j, n + 1)
      PROVE  \E k \in 1..(m + 1) : j = t[k].line \/ j = t[k].part
  <2>1. CASE j = n
    BY <1>2, <2>1 DEF m
  <2>2. CASE j # n
    <3>1. j \in 1..(n - 1) /\ In(p, j, n)
      BY <1>1, <1>7, <2>2, InBetween
    <3>2. PICK k \in 1..m : j = s[k].line \/ j = s[k].part
      BY <1>1, <3>1 DEF Walked, m
    <3>3. k \in 1..(m + 1) /\ t[k].line = s[k].line /\ t[k].part = s[k].part
      BY <1>2, <3>2 DEF SameFrames, m
    <3> QED BY <3>2, <3>3
  <2> QED BY <2>1, <2>2
<1>8. Len(t) \in Nat /\ 1..Len(t) = 1..(m + 1)
  BY <1>2
<1> QED BY <1>1, <1>3, <1>4, <1>5, <1>6, <1>7, <1>8 DEF Walked

\* The next arm of the innermost call.
LEMMA WalkPart ==
  ASSUME NEW p, NEW s, NEW n, Walked(p, s, n), n <= Len(p), Len(s) # 0, p[n].depth = Len(s) - 1,
         \/ p[s[Len(s)].line].kind = "if" /\ p[n].kind \in IfParts
         \/ p[s[Len(s)].line].kind = "match" /\ p[n].kind \in Cases,
         NEW t, Len(t) = Len(s), SameFrames(s, t, Len(s) - 1),
         t[Len(s)].line = s[Len(s)].line, t[Len(s)].part = n
  PROVE  Walked(p, t, n + 1)
<1>1. Rooted(p) /\ n \in 1..Len(p) /\ Len(s) \in Nat /\ n \in Nat /\ Len(p) \in Nat /\ n + 1 \in 1..(Len(p) + 1)
  BY TreeFacts DEF Walked
<1> DEFINE m == Len(s)
<1>2. p[n].depth = m - 1 /\ m \in Nat \ {0} /\ Len(t) = m
  BY <1>1
<1> HIDE DEF m
<1>3. ASSUME NEW k \in 1..(m - 1) PROVE FrameAt(p, t[k], k, n + 1)
  <2>1. FrameAt(p, s[k], k, n) /\ k \in Nat /\ k <= m - 1 /\ t[k].line = s[k].line /\ t[k].part = s[k].part
    BY <1>2 DEF Walked, SameFrames, m
  <2>2. \A j \in (s[k].part + 1)..((n + 1) - 1) : j \in (s[k].part + 1)..(n - 1) \/ j = n
    BY <1>1, <2>1 DEF FrameAt
  <2>3. p[n].depth >= k
    BY <1>2, <2>1
  <2>4. s[k].line \in 1..((n + 1) - 1) /\ s[k].part \in s[k].line..((n + 1) - 1)
    BY <1>1, <2>1 DEF FrameAt
  <2> QED BY <2>1, <2>2, <2>3, <2>4 DEF FrameAt
<1>4. FrameAt(p, t[m], m, n + 1)
  <2>1. t[m].line = s[m].line /\ t[m].part = n /\ FrameAt(p, s[m], m, n) /\ m \in 1..m
    BY <1>2 DEF m, Walked
  <2>2. s[m].line \in 1..((n + 1) - 1) /\ n \in s[m].line..((n + 1) - 1)
    BY <1>1, <2>1 DEF FrameAt
  <2>3. \A j \in (n + 1)..((n + 1) - 1) : p[j].depth >= m
    BY <1>1
  <2>4. \/ p[s[m].line].kind = "if" /\ p[n].kind \in IfParts
        \/ p[s[m].line].kind = "match" /\ p[n].kind \in Cases
    BY DEF m
  <2> QED BY <1>2, <2>1, <2>2, <2>3, <2>4 DEF FrameAt
<1>5. \A k \in 1..m : k \in 1..(m - 1) \/ k = m
  BY <1>2
<1>6. ASSUME NEW k \in 1..m, NEW l \in 1..(k - 1) PROVE t[l].part < t[k].line
  <2>1. l \in 1..(m - 1) /\ t[l].part = s[l].part
    BY <1>2, <1>5 DEF SameFrames, m
  <2>2. t[k].line = s[k].line
    BY <1>5 DEF SameFrames, m
  <2> QED BY <2>1, <2>2 DEF Walked, m
<1>7. ASSUME n + 1 <= Len(p), NEW j \in 1..((n + 1) - 1), In(p, j, n + 1)
      PROVE  \E k \in 1..m : j = t[k].line \/ j = t[k].part
  <2>1. CASE j = n
    BY <1>2, <2>1 DEF m
  <2>2. CASE j # n
    <3>1. j \in 1..(n - 1) /\ In(p, j, n)
      BY <1>1, <1>7, <2>2, InBetween
    <3>2. PICK k \in 1..m : j = s[k].line \/ j = s[k].part
      BY <1>1, <3>1 DEF Walked, m
    <3>3. k # m
      <4>1. p[s[k].line].depth = k - 1 /\ p[s[k].part].depth = k - 1
        BY <3>2 DEF Walked, FrameAt, m
      <4>2. j \in Nat /\ n \in Nat /\ In(p, j, n)
        BY <1>1, <3>1
      <4>3. p[n].depth > p[j].depth
        BY ONLY <4>2, InDeeper
      <4> QED BY <1>2, <3>2, <4>1, <4>3
    <3>4. t[k].line = s[k].line /\ t[k].part = s[k].part
      BY <1>5, <3>2, <3>3 DEF SameFrames, m
    <3> QED BY <3>2, <3>4
  <2> QED BY <2>1, <2>2
<1>8. Len(t) \in Nat /\ 1..Len(t) = 1..m
  BY <1>2
<1> QED BY <1>1, <1>3, <1>4, <1>5, <1>6, <1>7, <1>8 DEF Walked

\* The innermost call returns.
LEMMA WalkOut ==
  ASSUME NEW p, NEW s, NEW n, Walked(p, s, n), Len(s) # 0, n <= Len(p) => p[n].depth < Len(s),
         NEW t, Len(t) = Len(s) - 1, SameFrames(s, t, Len(s) - 1)
  PROVE  Walked(p, t, n)
<1>1. Rooted(p) /\ Len(s) \in Nat /\ n \in Nat /\ Len(p) \in Nat /\ n \in 1..(Len(p) + 1)
  BY TreeFacts DEF Walked
<1> DEFINE m == Len(s)
<1>2. m \in Nat \ {0} /\ Len(t) = m - 1 /\ Len(t) \in Nat
  BY <1>1
<1> HIDE DEF m
<1>3. \A k \in 1..(m - 1) : k \in 1..m /\ t[k].line = s[k].line /\ t[k].part = s[k].part
  BY <1>2 DEF SameFrames, m
<1>4. \A k \in 1..(m - 1) : FrameAt(p, t[k], k, n)
  BY <1>3 DEF Walked, FrameAt, m
<1>5. ASSUME NEW k \in 1..(m - 1), NEW l \in 1..(k - 1) PROVE t[l].part < t[k].line
  <2>1. l \in 1..(m - 1) /\ k \in 1..m
    BY <1>2
  <2> QED BY <1>3, <2>1 DEF Walked, m
<1>6. ASSUME n <= Len(p), NEW j \in 1..(n - 1), In(p, j, n)
      PROVE  \E k \in 1..(m - 1) : j = t[k].line \/ j = t[k].part
  <2>1. PICK k \in 1..m : j = s[k].line \/ j = s[k].part
    BY <1>6 DEF Walked, m
  <2>2. k # m
    <3>1. p[s[k].line].depth = k - 1 /\ p[s[k].part].depth = k - 1
      BY <2>1 DEF Walked, FrameAt, m
    <3>2. j \in Nat /\ n \in Nat /\ In(p, j, n) /\ n \in 1..Len(p)
      BY <1>1, <1>6
    <3>3. p[n].depth > p[j].depth
      BY ONLY <3>2, InDeeper
    <3>4. p[n].depth < m /\ p[n].depth \in Nat
      BY <1>1, <1>6, <3>2, TreeFacts DEF m
    <3> QED BY <1>2, <2>1, <3>1, <3>3, <3>4
  <2>3. k \in 1..(m - 1)
    BY <1>2, <2>2
  <2> QED BY <1>3, <2>1, <2>3
<1>7. 1..Len(t) = 1..(m - 1)
  BY <1>2
<1> QED BY <1>1, <1>2, <1>4, <1>5, <1>6, <1>7 DEF Walked

\* The rest of a body is left out.
LEMMA WalkEnd ==
  ASSUME NEW p, NEW s, NEW n, Walked(p, s, n), n <= Len(p), Len(s) # 0, p[n].depth >= Len(s),
         s[Len(s)].part = s[Len(s)].line
  PROVE  /\ Walked(p, s, EndOf(p, s[Len(s)].line)) /\ n < EndOf(p, s[Len(s)].line)
         /\ \A j \in n..(EndOf(p, s[Len(s)].line) - 1) : In(p, s[Len(s)].line, j)
         /\ EndOf(p, s[Len(s)].line) <= Len(p) => p[EndOf(p, s[Len(s)].line)].depth < Len(s)
<1>1. Rooted(p) /\ n \in 1..Len(p) /\ Len(s) \in Nat /\ n \in Nat /\ Len(p) \in Nat
  BY TreeFacts DEF Walked
<1>2. PICK m : m = Len(s)
  OBVIOUS
<1>3. PICK i : i = s[m].line
  OBVIOUS
<1>4. /\ m \in Nat \ {0} /\ FrameAt(p, s[m], m, n) /\ i \in 1..(n - 1) /\ i \in 1..Len(p)
      /\ p[i].depth = m - 1 /\ s[m].part = i
  BY <1>1, <1>2, <1>3 DEF Walked, FrameAt
<1>5. PICK e : e = EndOf(p, i)
  OBVIOUS
<1>6. /\ e \in (i + 1)..(Len(p) + 1)
      /\ e <= Len(p) => p[e].depth <= p[i].depth
      /\ \A k \in (i + 1)..(e - 1) : p[k].depth > p[i].depth
  BY <1>1, <1>4, <1>5, EndIs, TreeFacts
<1>7. n < e
  <2>1. \A k \in (i + 1)..n : p[k].depth >= m
    <3>1. \A k \in (i + 1)..(n - 1) : p[k].depth >= m
      BY <1>4 DEF FrameAt
    <3>2. \A k \in (i + 1)..n : k \in (i + 1)..(n - 1) \/ k = n
      BY <1>1, <1>4
    <3> QED BY <1>2, <3>1, <3>2
  <2>2. SUFFICES ASSUME e <= n PROVE FALSE
    BY <1>1, <1>6
  <2>3. e \in (i + 1)..n /\ e <= Len(p) /\ e \in 1..Len(p)
    BY <1>1, <1>4, <1>6, <2>2
  <2>4. p[e].depth >= m /\ p[e].depth <= m - 1 /\ p[e].depth \in Nat
    BY <1>1, <1>4, <1>6, <2>1, <2>3, TreeFacts
  <2> QED BY <1>4, <2>4
<1>8. e \in Nat /\ e \in 1..(Len(p) + 1)
  BY <1>1, <1>4, <1>6
<1>9. \A j \in (i + 1)..(e - 1) : p[j].depth >= m /\ p[j].depth \in Nat
  <2> TAKE j \in (i + 1)..(e - 1)
  <2>1. j \in 1..Len(p) /\ p[j].depth > m - 1
    BY <1>1, <1>4, <1>6
  <2> QED BY <1>1, <1>4, <2>1, TreeFacts
<1>10. ASSUME NEW k \in 1..m PROVE FrameAt(p, s[k], k, e)
  <2>1. FrameAt(p, s[k], k, n) /\ k \in Nat /\ k <= m
    BY <1>2, <1>4 DEF Walked
  <2>a. PICK x, y : x = s[k].line /\ y = s[k].part
    OBVIOUS
  <2>b. /\ x \in 1..(n - 1) /\ y \in x..(n - 1) /\ n \in Nat /\ e \in Nat /\ n < e
        /\ i \in Nat /\ i < n
    BY <1>1, <1>4, <1>7, <1>8, <2>1, <2>a DEF FrameAt
  <2>2. s[k].line \in 1..(e - 1) /\ s[k].part \in s[k].line..(e - 1)
    <3>1. x \in 1..(e - 1) /\ y \in x..(e - 1)
      BY ONLY <2>b
    <3> QED BY <2>a, <3>1
  <2>3. ASSUME NEW j \in (s[k].part + 1)..(e - 1) PROVE p[j].depth >= k
    <3>1. j \in (s[k].part + 1)..(n - 1) \/ j \in (i + 1)..(e - 1)
      <4>1. j \in (y + 1)..(e - 1)
        BY <2>a
      <4>2. j \in (y + 1)..(n - 1) \/ j \in (i + 1)..(e - 1)
        BY ONLY <2>b, <4>1
      <4> QED BY <2>a, <4>2
    <3>2. CASE j \in (s[k].part + 1)..(n - 1)
      BY <2>1, <3>2 DEF FrameAt
    <3>3. CASE j \in (i + 1)..(e - 1)
      <4>1. p[j].depth >= m /\ p[j].depth \in Nat
        BY <1>9, <3>3
      <4>2. m \in Nat /\ k \in Nat /\ k <= m
        BY <1>4, <2>1
      <4> QED BY ONLY <4>1, <4>2
    <3> QED BY <3>1, <3>2, <3>3
  <2> QED BY <2>1, <2>2, <2>3 DEF FrameAt
<1>11. ASSUME e <= Len(p), NEW j \in 1..(e - 1), In(p, j, e)
       PROVE  \E k \in 1..m : j = s[k].line \/ j = s[k].part
  <2>1. p[e].depth > p[j].depth /\ p[e].depth <= m - 1 /\ p[e].depth \in Nat /\ p[j].depth \in Nat
    <3>1. e \in 1..Len(p) /\ j \in 1..Len(p)
      BY <1>1, <1>8, <1>11
    <3> QED BY <1>1, <1>4, <1>6, <1>8, <1>11, <3>1, InDeeper, TreeFacts
  <2>2. j < i
    <3>1. j # i
      BY <1>4, <2>1
    <3>2. ~(j \in (i + 1)..(e - 1))
      BY <1>4, <1>9, <2>1
    <3> QED BY <1>4, <1>8, <3>1, <3>2
  <2>3. j \in 1..(n - 1) /\ In(p, j, n)
    BY <1>1, <1>4, <1>7, <1>8, <1>11, <2>2, InBetween
  <2> QED BY <1>1, <1>2, <2>3 DEF Walked
<1>12. \A j \in n..(e - 1) : In(p, i, j)
  <2> TAKE j \in n..(e - 1)
  <2>1. i < j /\ \A k \in (i + 1)..j : k \in (i + 1)..(e - 1)
    BY <1>1, <1>4, <1>8
  <2> QED BY <1>6, <2>1 DEF In
<1>13. e <= Len(p) => p[e].depth < m
  <2> HAVE e <= Len(p)
  <2>1. e \in 1..Len(p)
    BY <1>1, <1>8
  <2> QED BY <1>1, <1>4, <1>6, <2>1, TreeFacts
<1> QED BY <1>1, <1>2, <1>3, <1>5, <1>7, <1>8, <1>10, <1>11, <1>12, <1>13 DEF Walked

----------------------------------------------------------------------------
(* Names in scope.                                                         *)

\* Line j brings its name into the scope of line n, if it comes before it.
InScope(p, n, j) ==
  \/ p[j].kind \in {"fn", "for"} /\ In(p, j, n)
  \/ /\ p[j].kind = "declare"
     /\ \A l \in 1..Len(p) : In(p, l, j) /\ p[l].kind \in Loops \cup {"fn"} => In(p, l, n)

NamesAt(p, n) == {p[j].name : j \in {j \in 1..(n - 1) : InScope(p, n, j)}}

\* A line that is not on the top level is in one function.
LEMMA InOneFn ==
  ASSUME NEW p, Rooted(p), NEW i \in 1..Len(p), p[i].depth # 0
  PROVE  /\ FnOf(p, i) \in 1..Len(p) /\ In(p, FnOf(p, i), i) /\ p[FnOf(p, i)].kind = "fn"
         /\ \A j \in 1..Len(p) : In(p, j, i) /\ p[j].kind = "fn" => j = FnOf(p, i)
<1>1. HasDepths(p) /\ Len(p) \in Nat /\ i \in Nat /\ p[i].kind # "fn" /\ IsTree(p)
  BY TreeFacts DEF Rooted
<1>2. \E f \in 1..Len(p) : In(p, f, i) /\ p[f].depth = 0
  <2> DEFINE S == {j \in 1..(i - 1) : p[j].depth = 0}
  <2>1. 1 \in S
    <3>1. 1 \in 1..Len(p) /\ p[1].depth = 0
      BY <1>1 DEF IsTree
    <3>2. i # 1
      BY <3>1
    <3> QED BY <1>1, <3>1, <3>2
  <2>2. S \in SUBSET (1..(i - 1)) /\ S # {} /\ i - 1 \in Nat
    BY <1>1, <2>1
  <2> HIDE DEF S
  <2>3. PICK f \in S : \A k \in S : k <= f
    BY <2>2, LargestElement
  <2>4. f \in 1..(i - 1) /\ p[f].depth = 0
    BY <2>3 DEF S
  <2>5. \A k \in (f + 1)..i : p[k].depth > 0
    <3> TAKE k \in (f + 1)..i
    <3>1. k \in 1..Len(p) /\ k \notin S
      BY <1>1, <2>3, <2>4
    <3>2. p[k].depth # 0
      BY <1>1, <2>4, <3>1 DEF S
    <3> QED BY <3>1, <3>2, TreeFacts
  <2> QED BY <1>1, <2>4, <2>5 DEF In
<1>3. PICK f \in 1..Len(p) : In(p, f, i) /\ p[f].kind = "fn"
  BY <1>2 DEF Rooted
<1>4. /\ FnOf(p, i) \in 1..Len(p) /\ In(p, FnOf(p, i), i) /\ p[FnOf(p, i)].kind = "fn"
  BY <1>1, <1>3, FnOfIs
<1>5. ASSUME NEW j \in 1..Len(p), NEW k \in 1..Len(p), In(p, j, i), In(p, k, i),
             p[j].kind = "fn", p[k].kind = "fn"
      PROVE  j = k
  <2>1. p[j].depth = 0 /\ p[k].depth = 0 /\ j \in Nat /\ k \in Nat
    BY <1>1, <1>5 DEF Rooted
  <2>2. ~In(p, j, k) /\ ~In(p, k, j)
    BY <2>1, InDeeper
  <2> QED BY <1>1, <1>5, <2>2, InNested
<1> QED BY <1>4, <1>5

\* A loop around a line is the innermost one or around that.
LEMMA InLoopsOf ==
  ASSUME NEW p, Rooted(p), NEW i \in 1..Len(p), NEW n \in 1..Len(p)
  PROVE  (LoopOf(p, i) # 0 => Encloses(p, LoopOf(p, i), n))
         <=> \A l \in 1..Len(p) : In(p, l, i) /\ p[l].kind \in Loops => In(p, l, n)
<1>1. HasDepths(p) /\ Len(p) \in Nat
  BY TreeFacts
<1>2. PICK m : m = LoopOf(p, i)
  OBVIOUS
<1>3. CASE m = 0 /\ \A j \in 1..Len(p) : In(p, j, i) => p[j].kind \notin Loops
  BY <1>2, <1>3
<1>4. CASE /\ m \in 1..Len(p) /\ In(p, m, i) /\ p[m].kind \in Loops
           /\ \A j \in 1..Len(p) : In(p, j, i) /\ p[j].kind \in Loops => j <= m
  <2>1. m # 0 /\ (Encloses(p, m, n) <=> In(p, m, n))
    BY <1>1, <1>4, EnclosesIs
  <2>2. ASSUME In(p, m, n), NEW l \in 1..Len(p), In(p, l, i), p[l].kind \in Loops PROVE In(p, l, n)
    <3>1. l <= m
      BY <1>4, <2>2
    <3>2. CASE l = m
      BY <2>2, <3>2
    <3>3. CASE l < m
      <4>1. l \in Nat /\ m \in Nat /\ i \in Nat /\ m <= i
        BY <1>1, <1>4, InDeeper
      <4>2. In(p, l, m)
        BY <2>2, <3>3, <4>1, InBetween
      <4> QED BY <1>1, <1>4, <2>2, <4>2, InTransitive
    <3> QED BY <1>1, <1>4, <3>1, <3>2, <3>3
  <2> QED BY <1>2, <1>4, <2>1, <2>2
<1> QED BY <1>1, <1>2, <1>3, <1>4, LoopOfIs

LEMMA VisibleNames ==
  ASSUME NEW p, Rooted(p), NEW n \in 1..Len(p), p[n].depth # 0
  PROVE  Visible(p, n) = NamesAt(p, n)
<1>1. HasDepths(p) /\ Len(p) \in Nat /\ n \in Nat /\ n - 1 \in Nat
  BY TreeFacts
<1> DEFINE A == {FnOf(p, n)} \ {0}
           B == {j \in 1..n : p[j].kind = "for" /\ Encloses(p, j, n)}
           C == {j \in 1..(n - 1) :
                   /\ p[j].kind = "declare" /\ FnOf(p, j) = FnOf(p, n)
                   /\ LoopOf(p, j) # 0 => Encloses(p, LoopOf(p, j), n)}
           D == {j \in 1..(n - 1) : InScope(p, n, j)}
<1>2. \A j \in 1..(n - 1) : j \in 1..Len(p)
  BY <1>1
<1>3. \A j \in 1..Len(p) : j \in A <=> j \in 1..(n - 1) /\ p[j].kind = "fn" /\ In(p, j, n)
  <2>1. FnOf(p, n) \in 1..(n - 1) /\ In(p, FnOf(p, n), n) /\ p[FnOf(p, n)].kind = "fn"
    <3>1. FnOf(p, n) \in Nat /\ In(p, FnOf(p, n), n) /\ p[FnOf(p, n)].kind = "fn" /\ FnOf(p, n) # 0
      BY <1>1, InOneFn
    <3> QED BY <1>1, <3>1, InDeeper
  <2> QED BY <2>1, InOneFn
<1>4. \A j \in 1..Len(p) : j \in B <=> j \in 1..(n - 1) /\ p[j].kind = "for" /\ In(p, j, n)
  <2> TAKE j \in 1..Len(p)
  <2>1. Encloses(p, j, n) <=> In(p, j, n)
    BY <1>1, EnclosesIs
  <2>2. In(p, j, n) => j \in 1..(n - 1)
    BY <1>1 DEF In
  <2> QED BY <1>1, <2>1, <2>2
<1>5. ASSUME NEW j \in 1..(n - 1), p[j].kind = "declare"
      PROVE  j \in C <=> InScope(p, n, j)
  <2>1. j \in 1..Len(p) /\ p[j].depth # 0
    BY <1>2, <1>5 DEF Rooted
  <2>2. FnOf(p, j) = FnOf(p, n) <=> \A l \in 1..Len(p) : In(p, l, j) /\ p[l].kind = "fn" => In(p, l, n)
    BY <2>1, InOneFn
  <2>3. (LoopOf(p, j) # 0 => Encloses(p, LoopOf(p, j), n))
        <=> \A l \in 1..Len(p) : In(p, l, j) /\ p[l].kind \in Loops => In(p, l, n)
    BY <2>1, InLoopsOf
  <2>4. j \in C <=> /\ FnOf(p, j) = FnOf(p, n)
                    /\ LoopOf(p, j) # 0 => Encloses(p, LoopOf(p, j), n)
    BY <1>5
  <2>5. InScope(p, n, j) <=>
          \A l \in 1..Len(p) : In(p, l, j) /\ p[l].kind \in Loops \cup {"fn"} => In(p, l, n)
    BY <1>5 DEF InScope
  <2> HIDE DEF C
  <2> QED BY <2>2, <2>3, <2>4, <2>5
<1>6. \A j \in 1..(n - 1) : j \in D <=> j \in A \/ j \in B \/ j \in C
  <2> TAKE j \in 1..(n - 1)
  <2>1. CASE p[j].kind = "declare"
    <3>1. j \notin A /\ j \notin B
      BY <1>2, <1>3, <1>4, <2>1
    <3> QED BY <1>5, <2>1, <3>1
  <2>2. CASE p[j].kind # "declare"
    <3>1. j \notin C
      BY <2>2
    <3>2. InScope(p, n, j) <=> p[j].kind \in {"fn", "for"} /\ In(p, j, n)
      BY <2>2 DEF InScope
    <3> HIDE DEF A, B, C
    <3> QED BY <1>2, <1>3, <1>4, <3>1, <3>2
  <2> QED BY <2>1, <2>2
<1>7. A \subseteq 1..(n - 1) /\ B \subseteq 1..(n - 1) /\ C \subseteq 1..(n - 1) /\ D \subseteq 1..(n - 1)
  <2>1. FnOf(p, n) \in 1..Len(p)
    BY InOneFn
  <2>2. A \subseteq 1..Len(p) /\ B \subseteq 1..Len(p)
    BY <1>1, <2>1
  <2> HIDE DEF A, B
  <2> QED BY <1>3, <1>4, <2>2
<1>8. Visible(p, n) = {p[j].name : j \in A} \cup {p[j].name : j \in B} \cup {p[j].name : j \in C}
  BY Zenon DEF Visible, VisibleAt
<1>9. NamesAt(p, n) = {p[j].name : j \in D}
  BY DEF NamesAt
<1> HIDE DEF A, B, C, D
<1>10. D = A \cup B \cup C
  BY <1>6, <1>7
<1> QED BY <1>8, <1>9, <1>10

\* What was in scope of an earlier line, of those before it.
LEMMA ScopeEarlier ==
  ASSUME NEW p, NEW n \in Nat, NEW m \in Nat, n <= m, NEW j \in 1..(n - 1), InScope(p, m, j),
         Len(p) \in Nat
  PROVE  InScope(p, n, j)
<1>1. j \in Nat /\ j < n
  OBVIOUS
<1>2. In(p, j, m) => In(p, j, n)
  BY <1>1, InBetween
<1>3. ASSUME NEW l \in 1..Len(p), In(p, l, j), In(p, l, m) PROVE In(p, l, n)
  <2>1. l < j /\ l \in Nat
    BY <1>1, <1>3 DEF In
  <2> QED BY <1>1, <1>3, <2>1, InBetween
<1> QED BY <1>2, <1>3 DEF InScope

\* The names in scope of a line are those of an earlier line, and those that
\* lines between bring into scope.
LEMMA NamesLater ==
  ASSUME NEW p, Len(p) \in Nat, NEW n \in Nat, NEW m \in Nat, n <= m, NEW N, NamesAt(p, n) \subseteq N,
         \A j \in n..(m - 1) : InScope(p, m, j) => p[j].name \in N
  PROVE  NamesAt(p, m) \subseteq N
<1>1. ASSUME NEW j \in 1..(m - 1), InScope(p, m, j) PROVE p[j].name \in N
  <2>1. CASE j \in 1..(n - 1)
    BY <1>1, <2>1, ScopeEarlier DEF NamesAt
  <2>2. CASE j \in n..(m - 1)
    BY <1>1, <2>2
  <2>3. j \in 1..(n - 1) \/ j \in n..(m - 1)
    OBVIOUS
  <2> QED BY <2>1, <2>2, <2>3
<1> QED BY <1>1 DEF NamesAt

\* Nothing in a loop is in scope behind it.
LEMMA ScopeOfLoop ==
  ASSUME NEW p, Rooted(p), NEW i \in 1..Len(p), p[i].kind \in Loops, NEW n \in 1..Len(p),
         i < n, p[n].depth <= p[i].depth,
         NEW j \in i..(n - 1), j # i => In(p, i, j)
  PROVE  ~InScope(p, n, j)
<1>1. HasDepths(p) /\ Len(p) \in Nat /\ i \in Nat /\ n \in Nat /\ j \in Nat /\ j \in 1..Len(p)
      /\ p[n].depth \in Nat /\ p[i].depth \in Nat /\ p[j].depth \in Nat
  BY TreeFacts
<1>2. ~In(p, i, n)
  BY <1>1, InDeeper
<1>3. ~In(p, j, n)
  <2>1. p[j].depth >= p[i].depth
    BY <1>1, InDeeper
  <2> QED BY <1>1, <2>1, InDeeper
<1>4. p[i].kind # "declare"
  BY DEF Loops
<1>5. CASE j = i
  BY <1>2, <1>4, <1>5 DEF InScope
<1>6. CASE j # i
  <2>1. In(p, i, j) /\ p[i].kind \in Loops \cup {"fn"}
    BY <1>6
  <2> QED BY <1>2, <1>3, <2>1 DEF InScope
<1> QED BY <1>5, <1>6

\* The names N are all those in scope of line n, and of the lines of the calls.
NamedAt(p, s, n, N) ==
  /\ n <= Len(p) /\ Len(s) # 0 /\ p[n].depth # 0 => NamesAt(p, n) \subseteq N
  /\ \A k \in 2..Len(s) : NamesAt(p, s[k].line) \subseteq N

\* One line on, which may bring its name into scope.
LEMMA NamedOn ==
  ASSUME NEW p, NEW s, NEW n \in 1..Len(p), Rooted(p), NEW N, NamedAt(p, s, n, N), Len(s) # 0, p[n].depth # 0,
         NEW N2, N \subseteq N2, p[n].kind \in {"declare", "for"} => p[n].name \in N2
  PROVE  NamesAt(p, n) \subseteq N2 /\ NamesAt(p, n + 1) \subseteq N2
<1>1. Len(p) \in Nat /\ n \in Nat /\ n + 1 \in Nat /\ n <= n + 1 /\ n <= Len(p)
  BY TreeFacts
<1>2. NamesAt(p, n) \subseteq N2
  BY <1>1 DEF NamedAt
<1>3. ASSUME NEW j \in n..((n + 1) - 1), InScope(p, n + 1, j) PROVE p[j].name \in N2
  <2>1. j = n
    BY <1>1
  <2>2. p[n].kind # "fn"
    BY DEF Rooted
  <2> QED BY <1>3, <2>1, <2>2 DEF InScope
<1> QED BY <1>1, <1>2, <1>3, NamesLater

\* The first line of a function.
LEMMA NamedInFn ==
  ASSUME NEW p, NEW n \in 1..Len(p), Rooted(p), p[n].kind = "fn"
  PROVE  NamesAt(p, n + 1) \subseteq {p[n].name}
<1>1. HasDepths(p) /\ Len(p) \in Nat /\ n \in Nat /\ p[n].depth = 0
  BY TreeFacts DEF Rooted
<1>2. ASSUME NEW j \in 1..(n - 1), In(p, j, n + 1) PROVE FALSE
  <2>1. In(p, j, n) /\ j \in Nat /\ j \in 1..Len(p)
    BY <1>1, <1>2, InBetween
  <2>2. p[j].depth \in Nat /\ p[n].depth > p[j].depth
    BY <1>1, <2>1, InDeeper, TreeFacts
  <2> QED BY <1>1, <2>2
<1>3. ASSUME NEW j \in 1..((n + 1) - 1), InScope(p, n + 1, j) PROVE p[j].name = p[n].name
  <2>1. SUFFICES ASSUME j # n PROVE FALSE
    OBVIOUS
  <2>2. j \in 1..(n - 1) /\ j \in 1..Len(p) /\ j \in Nat
    BY <1>1, <2>1
  <2>3. p[j].kind = "declare"
    BY <1>2, <1>3, <2>2 DEF InScope
  <2>4. PICK f \in 1..Len(p) : In(p, f, j) /\ p[f].kind = "fn"
    <3>1. p[j].depth # 0
      BY <2>2, <2>3 DEF Rooted
    <3> QED BY <2>2, <3>1, InOneFn
  <2>5. In(p, f, n + 1)
    BY <1>3, <2>3, <2>4 DEF InScope
  <2>6. f \in 1..(n - 1)
    BY <1>1, <2>2, <2>4 DEF In
  <2> QED BY <1>2, <2>5, <2>6
<1> QED BY <1>3 DEF NamesAt

----------------------------------------------------------------------------
(* Names with an alloca.                                                   *)

\* The tree, and where the walk is in it as long as no error was counted.
PlaceInv ==
  /\ TypeInv /\ Rooted(prog)
  /\ ~errors => Walked(prog, open, at)
  /\ at = 1 => ~errors /\ open = <<>> /\ header = 0 /\ exit = 0

NamesInv ==
  /\ PlaceInv
  /\ ~errors /\ NoShadowing(prog) => NamedAt(prog, open, at, named)

\* The innermost call, and the line that is next.
LEMMA TopFacts ==
  ASSUME PlaceInv, ~errors, open # <<>>
  PROVE  /\ Len(open) \in Nat \ {0} /\ Len(open) \in 1..Len(open) /\ at \in Nat /\ Len(prog) \in Nat
         /\ FrameAt(prog, Top, Len(open), at) /\ Walked(prog, open, at) /\ Rooted(prog)
         /\ Top.line \in 1..Len(prog) /\ Top.line < at /\ prog[Top.line].depth = Len(open) - 1
         /\ Top = open[Len(open)]
         /\ InBody <=> at <= Len(prog) /\ Line.depth >= Len(open)
         /\ at <= Len(prog) => at \in 1..Len(prog) /\ Line.depth \in Nat /\ Line = prog[at]
         /\ prog[Top.line].kind = "fn" <=> Len(open) = 1
<1>1. Walked(prog, open, at) /\ Rooted(prog) /\ Len(open) \in Nat \ {0} /\ at \in Nat /\ Len(prog) \in Nat
  BY Counts, TreeFacts DEF PlaceInv, Frames
<1>2. Len(open) \in 1..Len(open)
  BY <1>1
<1>3. FrameAt(prog, Top, Len(open), at)
  BY <1>1, <1>2 DEF Walked, Top
<1>4. Top.line \in 1..Len(prog) /\ Top.line < at /\ prog[Top.line].depth = Len(open) - 1
  BY <1>1, <1>3 DEF FrameAt, Walked
<1>5. at <= Len(prog) => at \in 1..Len(prog) /\ Line.depth \in Nat /\ Line = prog[at]
  BY <1>1, TreeFacts DEF Walked, Line
<1>6. InBody <=> at <= Len(prog) /\ Line.depth >= Len(open)
  BY <1>1, <1>4, <1>5 DEF InBody
<1>7. prog[Top.line].kind = "fn" <=> Len(open) = 1
  <2>1. prog[Top.line].kind = "fn" <=> prog[Top.line].depth = 0
    BY <1>1, <1>4 DEF Rooted
  <2> QED BY <1>1, <1>4, <2>1
<1> QED BY <1>1, <1>2, <1>3, <1>4, <1>5, <1>6, <1>7 DEF Top

\* What is left of a step when its types are right.
LEMMA NamesStep ==
  ASSUME NamesInv, [Generate]_vars, prog' = prog, at' # 1,
         ~errors' => Walked(prog, open', at') /\ (NoShadowing(prog) => NamedAt(prog, open', at', named'))
  PROVE  NamesInv'
<1>1. TypeInv'
  BY StepTypes DEF NamesInv, PlaceInv
<1> QED BY <1>1 DEF NamesInv, PlaceInv

\* Instructions without a body.
LEMMA PlainNames ==
  ASSUME NamesInv, Return \/ Declare \/ Use \/ Break \/ Continue \/ GotoLabel \/ Label
  PROVE  NamesInv'
<1>1. /\ open # <<>> /\ InBody /\ prog' = prog /\ at' = at + 1 /\ UNCHANGED open
      /\ Line.kind \in {"return", "declare", "use", "break", "continue", "goto", "label"}
      /\ ~errors' => ~errors
  BY DEF Return, Declare, Use, Break, Continue, LoopJump, GotoLabel, Label, Ready, Next1, InBody, Fail
<1>2. named \subseteq named' /\ (Line.kind = "declare" => Line.name \in named')
  BY DEF Return, Declare, Use, Break, Continue, LoopJump, GotoLabel, Label, Ready
<1>3. [Generate]_vars /\ at' # 1
  BY <1>1, Counts DEF Generate, Walk, NamesInv, PlaceInv
<1>4. ASSUME ~errors'
      PROVE  Walked(prog, open', at') /\ (NoShadowing(prog) => NamedAt(prog, open', at', named'))
  <2>1. ~errors /\ PlaceInv
    BY <1>1, <1>4 DEF NamesInv
  <2>2. /\ at \in 1..Len(prog) /\ Line = prog[at] /\ prog[at].depth >= Len(open) /\ Len(open) \in Nat \ {0}
        /\ Walked(prog, open, at) /\ Rooted(prog) /\ prog[at].depth \in Nat /\ at <= Len(prog)
    BY <1>1, <2>1, TopFacts
  <2>3. prog[at].kind \notin Heads
    BY <1>1, <2>2 DEF Heads, Parts, IfParts, Cases, Loops
  <2>4. Walked(prog, open', at')
    BY <1>1, <2>2, <2>3, WalkOn
  <2>5. ASSUME NoShadowing(prog) PROVE NamedAt(prog, open', at', named')
    <3>1. NamedAt(prog, open, at, named)
      BY <2>1, <2>5 DEF NamesInv
    <3>2. prog[at].depth # 0 /\ Len(open) # 0
      BY <2>2
    <3>3. prog[at].kind \in {"declare", "for"} => prog[at].name \in named'
      BY <1>1, <1>2, <2>2
    <3>4. NamesAt(prog, at + 1) \subseteq named'
      BY <1>2, <2>2, <3>1, <3>2, <3>3, NamedOn
    <3>5. \A k \in 2..Len(open) : NamesAt(prog, open[k].line) \subseteq named'
      BY <1>2, <3>1 DEF NamedAt
    <3> QED BY <1>1, <3>4, <3>5 DEF NamedAt
  <2> QED BY <2>4, <2>5
<1> QED BY <1>1, <1>3, <1>4, NamesStep

\* A call is made for an instruction with bodies.
LEMMA OpensNames ==
  ASSUME NamesInv, ~errors, InBody, open # <<>>, Line.kind \in Loops \cup {"if", "match"},
         NEW f, IsFrame(f), f.line = at, f.part = at, NEW N, named \subseteq N,
         Line.kind = "for" => Line.name \in N
  PROVE  /\ Walked(prog, Append(open, f), at + 1)
         /\ NoShadowing(prog) => NamedAt(prog, Append(open, f), at + 1, N)
<1>1. PlaceInv
  BY DEF NamesInv
<1>2. /\ at \in 1..Len(prog) /\ Line = prog[at] /\ prog[at].depth >= Len(open) /\ Len(open) \in Nat \ {0}
      /\ Walked(prog, open, at) /\ Rooted(prog) /\ prog[at].depth \in Nat /\ at <= Len(prog)
  BY <1>1, TopFacts
<1>3. PICK t : t = Append(open, f)
  OBVIOUS
<1>4. PICK m : m = Len(open)
  OBVIOUS
<1>5. Len(t) = m + 1 /\ t[m + 1] = f /\ (\A k \in 1..m : t[k] = open[k]) /\ m \in Nat \ {0}
  BY <1>1, <1>2, <1>3, <1>4, Counts, PushFrame DEF PlaceInv
<1>6. Walked(prog, t, at + 1)
  <2>1. SameFrames(open, t, m)
    BY <1>5 DEF SameFrames
  <2> QED BY <1>2, <1>4, <1>5, <2>1, WalkIn
<1>7. ASSUME NoShadowing(prog) PROVE NamedAt(prog, t, at + 1, N)
  <2>1. NamedAt(prog, open, at, named)
    BY <1>7 DEF NamesInv
  <2>2. prog[at].depth # 0 /\ Len(open) # 0
    BY <1>2
  <2>3. prog[at].kind \in {"declare", "for"} => prog[at].name \in N
    BY <1>2 DEF Loops
  <2>4. NamesAt(prog, at) \subseteq N /\ NamesAt(prog, at + 1) \subseteq N
    BY <1>2, <2>1, <2>2, <2>3, NamedOn
  <2>5. \A k \in 2..m : NamesAt(prog, open[k].line) \subseteq N
    BY <1>4, <2>1 DEF NamedAt
  <2>6. ASSUME NEW k \in 2..(m + 1) PROVE NamesAt(prog, t[k].line) \subseteq N
    <3>1. CASE k = m + 1
      BY <1>5, <2>4, <3>1
    <3>2. CASE k \in 2..m
      BY <1>5, <2>5, <3>2
    <3> QED BY <1>5, <3>1, <3>2
  <2> QED BY <1>5, <2>4, <2>6 DEF NamedAt
<1> QED BY <1>3, <1>6, <1>7

LEMMA LoopNames ==
  ASSUME NamesInv, Loop
  PROVE  NamesInv'
<1>1. PICK kind \in Loops :
        /\ Ready(kind) /\ prog' = prog
        /\ errors' \/ /\ named' = (IF kind = "for" THEN named \cup {Line.name} ELSE named)
                      /\ open' = Append(open, Frame(Fresh(3), Fresh(1)))
                      /\ at' = at + 1 /\ errors' = errors
        /\ at' = at + 1 \/ at' = AfterAll(prog, at)
  BY DEF Loop, Next1, Fail, Ungenerated
<1>2. InBody /\ open # <<>> /\ Line.kind = kind /\ at <= Len(prog)
  BY <1>1 DEF Ready, InBody
<1>3. [Generate]_vars /\ at' # 1
  <2>1. at' > at
    <3>1. at \in 1..Len(prog) /\ Program /\ Len(prog) \in Nat
      BY <1>2, Counts DEF NamesInv, PlaceInv
    <3> QED BY <1>1, <3>1, LinesAhead
  <2> QED BY <2>1, Counts DEF Generate, Walk, NamesInv, PlaceInv
<1>4. ASSUME ~errors'
      PROVE  Walked(prog, open', at') /\ (NoShadowing(prog) => NamedAt(prog, open', at', named'))
  <2>1. PICK f : f = Frame(Fresh(3), Fresh(1))
    OBVIOUS
  <2>2. IsFrame(f) /\ f.line = at /\ f.part = at
    BY <2>1 DEF Frame, IsFrame
  <2>3. ~errors /\ open' = Append(open, f) /\ at' = at + 1 /\ named \subseteq named'
        /\ (Line.kind = "for" => Line.name \in named')
    BY <1>1, <1>2, <1>4, <2>1
  <2> QED BY <1>2, <2>2, <2>3, OpensNames
<1> QED BY <1>1, <1>3, <1>4, NamesStep

LEMMA OpenArmsNames ==
  ASSUME NamesInv, If \/ Match
  PROVE  NamesInv'
<1>1. PICK merge, next :
        /\ InBody /\ open # <<>> /\ Line.kind \in {"if", "match"} /\ prog' = prog
        /\ errors' \/ /\ open' = Append(open, Frame(merge, next))
                      /\ at' = at + 1 /\ errors' = errors
        /\ at' = at + 1 \/ at' = AfterAll(prog, at)
        /\ named' = named
  BY DEF If, Match, Next1, Fail, Ungenerated, Ready, InBody
<1>2. at <= Len(prog)
  BY <1>1 DEF InBody
<1>3. [Generate]_vars /\ at' # 1
  <2>1. at' > at
    <3>1. at \in 1..Len(prog) /\ Program /\ Len(prog) \in Nat
      BY <1>2, Counts DEF NamesInv, PlaceInv
    <3> QED BY <1>1, <3>1, LinesAhead
  <2> QED BY <2>1, Counts DEF Generate, Walk, NamesInv, PlaceInv
<1>4. ASSUME ~errors'
      PROVE  Walked(prog, open', at') /\ (NoShadowing(prog) => NamedAt(prog, open', at', named'))
  <2>1. PICK f : f = Frame(merge, next)
    OBVIOUS
  <2>2. IsFrame(f) /\ f.line = at /\ f.part = at
    BY <2>1 DEF Frame, IsFrame
  <2>3. ~errors /\ open' = Append(open, f) /\ at' = at + 1 /\ named \subseteq named'
        /\ Line.kind \in Loops \cup {"if", "match"} /\ Line.kind # "for"
    BY <1>1, <1>4, <2>1
  <2> QED BY <1>1, <2>2, <2>3, OpensNames
<1> QED BY <1>1, <1>3, <1>4, NamesStep

\* What is in scope before a loop is all that is in scope behind it.
LEMMA NamesBehindLoop ==
  ASSUME NEW p, Rooted(p), NEW i \in 1..Len(p), p[i].kind \in Loops, NEW n \in 1..Len(p),
         i < n, p[n].depth <= p[i].depth, \A k \in (i + 1)..(n - 1) : p[k].depth > p[i].depth
  PROVE  NamesAt(p, n) \subseteq NamesAt(p, i)
<1>1. Len(p) \in Nat /\ i \in Nat /\ n \in Nat /\ i <= n
  BY TreeFacts
<1>2. ASSUME NEW j \in i..(n - 1) PROVE j # i => In(p, i, j)
  <2>1. \A k \in (i + 1)..j : k \in (i + 1)..(n - 1)
    BY <1>1
  <2>2. j # i => i < j
    BY <1>1
  <2> QED BY <2>1, <2>2 DEF In
<1>3. \A j \in i..(n - 1) : ~InScope(p, n, j)
  BY <1>2, ScopeOfLoop
<1> QED BY <1>1, <1>3, NamesLater

\* What is in scope stays so where nothing is less deep.
LEMMA NamesWithin ==
  ASSUME NEW p, Rooted(p), NEW i \in 1..Len(p), NEW n \in 1..Len(p), i <= n,
         \A k \in (i + 1)..n : p[k].depth >= p[i].depth
  PROVE  NamesAt(p, i) \subseteq NamesAt(p, n)
<1>1. HasDepths(p) /\ Len(p) \in Nat /\ i \in Nat /\ n \in Nat /\ p[i].depth \in Nat
  BY TreeFacts
<1>2. ASSUME NEW j \in 1..Len(p), In(p, j, i) PROVE In(p, j, n)
  <2>1. j \in Nat /\ j < i /\ p[i].depth > p[j].depth /\ p[j].depth \in Nat
    BY <1>1, <1>2, InDeeper, TreeFacts
  <2>2. ASSUME NEW k \in (j + 1)..n PROVE p[k].depth > p[j].depth
    <3>1. CASE k \in (j + 1)..i
      BY <1>2, <3>1 DEF In
    <3>2. CASE k \in (i + 1)..n
      <4>1. k \in 1..Len(p) /\ p[k].depth >= p[i].depth
        BY <1>1, <3>2
      <4>2. p[k].depth \in Nat
        BY <4>1, TreeFacts
      <4> QED BY <1>1, <2>1, <4>1, <4>2
    <3> QED BY <1>1, <2>1, <3>1, <3>2
  <2> QED BY <1>1, <2>1, <2>2 DEF In
<1>3. ASSUME NEW j \in 1..(i - 1), InScope(p, i, j) PROVE j \in 1..(n - 1) /\ InScope(p, n, j)
  <2>1. j \in 1..Len(p) /\ j \in 1..(n - 1)
    BY <1>1
  <2> QED BY <1>2, <1>3, <2>1 DEF InScope
<1> QED BY <1>3 DEF NamesAt

\* The next arm of an if, or case of a match.
LEMMA ArmNames ==
  ASSUME NamesInv, ElseIf \/ Else \/ Case
  PROVE  NamesInv'
<1>1. PICK next, dflt :
        /\ open # <<>> /\ at <= Len(prog) /\ prog' = prog /\ named' = named
        /\ Line.depth = prog[Top.line].depth
        /\ \/ prog[Top.line].kind = "if" /\ Line.kind \in IfParts
           \/ prog[Top.line].kind = "match" /\ Line.kind \in Cases
        /\ errors' \/ /\ open' = [open EXCEPT ![Len(open)] = AtArm(next, dflt)]
                      /\ at' = at + 1 /\ errors' = errors
        /\ at' = at + 1 \/ at' = AfterAll(prog, at)
  <2>1. CASE ElseIf
    <3>1. "elif" \in IfParts
      BY DEF IfParts
    <3>2. AtPart("if") /\ Line.kind = "elif" /\ prog' = prog /\ named' = named
      BY <2>1, Zenon DEF ElseIf
    <3>3. \/ errors' /\ Ungenerated
          \/ /\ open' = [open EXCEPT ![Len(open)] =
                          AtArm(Arm(Joined, Top.next, Top.merge).else, Top.dflt)]
             /\ Next1 /\ errors' = errors
      BY <2>1, Zenon DEF ElseIf, Fail
    <3> QED BY <3>1, <3>2, <3>3, Zenon DEF AtPart, Next1, Ungenerated
  <2>2. CASE Else
    <3>1. "else" \in IfParts
      BY DEF IfParts
    <3> QED BY <2>2, <3>1, Zenon DEF Else, AtPart, Next1
  <2>3. CASE Case
    BY <2>3, Zenon DEF Case, AtPart, Next1
  <2> QED BY <2>1, <2>2, <2>3
<1>2. [Generate]_vars /\ at' # 1
  <2>1. at' > at
    <3>1. at \in 1..Len(prog) /\ Program /\ Len(prog) \in Nat
      BY <1>1, Counts DEF NamesInv, PlaceInv
    <3> QED BY <1>1, <3>1, LinesAhead
  <2> QED BY <2>1, Counts DEF Generate, Walk, NamesInv, PlaceInv
<1>3. ASSUME ~errors'
      PROVE  Walked(prog, open', at') /\ (NoShadowing(prog) => NamedAt(prog, open', at', named'))
  <2>1. PlaceInv /\ ~errors
    BY <1>1, <1>3 DEF NamesInv
  <2>2. PICK f : f = AtArm(next, dflt)
    OBVIOUS
  <2>3. IsFrame(f) /\ f.line = Top.line /\ f.part = at
    BY <2>2 DEF AtArm, IsFrame
  <2>4. PICK t : t = WithTop(open, f)
    OBVIOUS
  <2>5. open' = t /\ at' = at + 1 /\ named' = named
    BY <1>1, <1>3, <2>2, <2>4 DEF WithTop
  <2>6. PICK m : m = Len(open)
    OBVIOUS
  <2>7. /\ m \in Nat \ {0} /\ at \in 1..Len(prog) /\ Line = prog[at] /\ at \in Nat
        /\ Walked(prog, open, at) /\ Rooted(prog) /\ Top = open[m] /\ prog[Top.line].depth = m - 1
        /\ prog[Top.line].kind = "fn" <=> m = 1
    BY <1>1, <2>1, <2>6, TopFacts
  <2>8. Len(t) = m /\ t[m] = f /\ \A k \in 1..(m - 1) : t[k] = open[k]
    BY <1>1, <2>1, <2>3, <2>4, <2>6, Counts, SetFrame DEF PlaceInv
  <2>9. Walked(prog, t, at + 1)
    <3>1. SameFrames(open, t, m - 1)
      BY <2>8 DEF SameFrames
    <3>2. \/ prog[open[m].line].kind = "if" /\ prog[at].kind \in IfParts
          \/ prog[open[m].line].kind = "match" /\ prog[at].kind \in Cases
      BY <1>1, <2>7
    <3>3. prog[at].depth = m - 1 /\ t[m].line = open[m].line /\ t[m].part = at
      BY <1>1, <2>3, <2>7, <2>8
    <3> QED BY ONLY <2>6, <2>7, <2>8, <3>1, <3>2, <3>3, WalkPart
  <2>10. ASSUME NoShadowing(prog) PROVE NamedAt(prog, t, at + 1, named)
    <3>1. NamedAt(prog, open, at, named)
      BY <2>1, <2>10 DEF NamesInv
    <3>2. prog[at].depth # 0 /\ Len(open) # 0
      BY <1>1, <2>6, <2>7
    <3>3. prog[at].kind \notin {"declare", "for"}
      BY <1>1, <2>7 DEF IfParts, Cases
    <3>4. NamesAt(prog, at + 1) \subseteq named
      BY <2>7, <3>1, <3>2, <3>3, NamedOn
    <3>5. ASSUME NEW k \in 2..m PROVE NamesAt(prog, t[k].line) \subseteq named
      <4>1. t[k].line = open[k].line
        <5>1. CASE k = m
          BY <2>3, <2>7, <2>8, <5>1
        <5>2. CASE k \in 1..(m - 1)
          BY <2>8, <5>2
        <5> QED BY <2>7, <5>1, <5>2
      <4> QED BY <2>6, <3>1, <4>1 DEF NamedAt
    <3> QED BY <2>8, <3>4, <3>5 DEF NamedAt
  <2> QED BY <2>5, <2>9, <2>10
<1> QED BY <1>1, <1>2, <1>3, NamesStep

\* The rest of a body is left out.
LEMMA StopNames == ASSUME NamesInv, StopBody PROVE NamesInv'
<1>1. /\ open # <<>> /\ InBody /\ prog[Top.line].kind \in Loops \cup {"fn"}
      /\ at' = EndOf(prog, Top.line) /\ prog' = prog
      /\ UNCHANGED <<open, named, errors>>
  BY DEF StopBody, StopsAtTerminator, InBody
<1>2. [Generate]_vars /\ at' # 1
  <2>1. Top.line \in 1..Len(prog) /\ Program /\ Len(prog) \in Nat
    BY <1>1, Counts, Innermost DEF NamesInv, PlaceInv
  <2>2. at' > Top.line
    BY <1>1, <2>1, LinesAhead
  <2> QED BY <2>1, <2>2 DEF Generate, Walk
<1>3. ASSUME ~errors'
      PROVE  Walked(prog, open', at') /\ (NoShadowing(prog) => NamedAt(prog, open', at', named'))
  <2>1. PlaceInv /\ ~errors
    BY <1>1, <1>3 DEF NamesInv
  <2>2. PICK m : m = Len(open)
    OBVIOUS
  <2>3. /\ m \in Nat \ {0} /\ at \in 1..Len(prog) /\ Line = prog[at] /\ at \in Nat /\ prog[at].depth >= m
        /\ Walked(prog, open, at) /\ Rooted(prog) /\ Top = open[m] /\ prog[Top.line].depth = m - 1
        /\ prog[Top.line].kind = "fn" <=> m = 1
        /\ FrameAt(prog, Top, m, at) /\ at <= Len(prog) /\ Len(prog) \in Nat
    BY <1>1, <2>1, <2>2, TopFacts
  <2>4. PICK i : i = Top.line
    OBVIOUS
  <2>5. Top.part = i /\ i \in 1..Len(prog) /\ i \in Nat
    BY <1>1, <2>3, <2>4 DEF FrameAt, Loops
  <2>6. PICK e : e = EndOf(prog, i)
    OBVIOUS
  <2>7. Walked(prog, open, e) /\ (e <= Len(prog) => prog[e].depth < m)
    BY <2>2, <2>3, <2>4, <2>5, <2>6, WalkEnd
  <2>8. /\ e \in (i + 1)..(Len(prog) + 1)
        /\ \A k \in (i + 1)..(e - 1) : prog[k].depth > prog[i].depth
    BY <2>3, <2>5, <2>6, EndIs, TreeFacts
  <2>9. ASSUME NoShadowing(prog) PROVE NamedAt(prog, open, e, named)
    <3>1. NamedAt(prog, open, at, named)
      BY <2>1, <2>9 DEF NamesInv
    <3>2. ASSUME e <= Len(prog), prog[e].depth # 0 PROVE NamesAt(prog, e) \subseteq named
      <4>1. e \in 1..Len(prog) /\ i < e /\ prog[e].depth \in Nat /\ prog[e].depth < m
        BY <2>3, <2>5, <2>7, <2>8, <3>2, TreeFacts
      <4>2. m # 1
        BY <2>3, <3>2, <4>1
      <4>3. prog[i].kind \in Loops /\ prog[e].depth <= prog[i].depth
        BY <1>1, <2>3, <2>4, <4>1, <4>2
      <4>4. NamesAt(prog, e) \subseteq NamesAt(prog, i)
        BY <2>3, <2>5, <2>8, <4>1, <4>3, NamesBehindLoop
      <4>5. NamesAt(prog, i) \subseteq named
        BY <2>2, <2>3, <2>4, <3>1, <4>2 DEF NamedAt
      <4> QED BY <4>4, <4>5
    <3> QED BY <3>1, <3>2 DEF NamedAt
  <2> QED BY <1>1, <2>4, <2>6, <2>7, <2>9
<1> QED BY <1>1, <1>2, <1>3, NamesStep

\* The names that stay known at the end of an instruction with bodies.
LEMMA PopNames ==
  ASSUME NamesInv, ~errors, open # <<>>, ~InBody,
         NEW N, \/ prog[Top.line].kind = "for" /\ N = named \ {prog[Top.line].name}
                \/ prog[Top.line].kind # "for" /\ N = named
  PROVE  Walked(prog, Pop, at) /\ (NoShadowing(prog) => NamedAt(prog, Pop, at, N))
<1>1. PlaceInv
  BY DEF NamesInv
<1>2. PICK m : m = Len(open)
  OBVIOUS
<1>3. /\ m \in Nat \ {0} /\ at \in Nat /\ Len(prog) \in Nat
      /\ Walked(prog, open, at) /\ Rooted(prog) /\ Top = open[m] /\ prog[Top.line].depth = m - 1
      /\ prog[Top.line].kind = "fn" <=> m = 1
      /\ FrameAt(prog, Top, m, at)
      /\ at <= Len(prog) => prog[at].depth < m /\ at \in 1..Len(prog) /\ prog[at].depth \in Nat
  BY <1>1, <1>2, TopFacts DEF Line
<1>4. PICK t : t = Pop
  OBVIOUS
<1>5. Len(t) = m - 1 /\ \A k \in 1..(m - 1) : t[k] = open[k]
  <2>1. Len(Pop) = Len(open) - 1 /\ \A k \in 1..(Len(open) - 1) : Pop[k] = open[k]
    BY <1>1, Counts, PopFrame DEF PlaceInv, Pop
  <2> QED BY <1>2, <1>4, <2>1
<1>6. Walked(prog, t, at)
  <2>1. SameFrames(open, t, m - 1)
    BY <1>5 DEF SameFrames
  <2> QED BY <1>2, <1>3, <1>5, <2>1, WalkOut
<1>7. ASSUME NoShadowing(prog) PROVE NamedAt(prog, t, at, N)
  <2>1. NamedAt(prog, open, at, named)
    BY <1>7 DEF NamesInv
  <2>2. \A k \in 2..(m - 1) : NamesAt(prog, open[k].line) \subseteq named
    BY <1>2, <2>1, <1>3 DEF NamedAt
  <2>3. CASE prog[Top.line].kind # "for"
    <3>1. N = named /\ Len(open) # 0
      BY <1>2, <1>3, <2>3
    <3>2. at <= Len(prog) /\ prog[at].depth # 0 => NamesAt(prog, at) \subseteq named
      BY <2>1, <3>1 DEF NamedAt
    <3> QED BY <1>5, <2>2, <3>1, <3>2 DEF NamedAt
  <2>4. CASE prog[Top.line].kind = "for"
    <3>1. PICK i : i = Top.line
      OBVIOUS
    <3>2. /\ i \in 1..Len(prog) /\ i \in Nat /\ i < at /\ m # 1 /\ prog[i].depth = m - 1 /\ prog[i].kind \in Loops
          /\ i = open[m].line
      BY <1>3, <2>4, <3>1 DEF FrameAt, Walked, Loops
    <3>3. \A k \in (i + 1)..(at - 1) : prog[k].depth > prog[i].depth
      <4>1. Top.part = i
        BY <1>3, <2>4, <3>1 DEF FrameAt
      <4> TAKE k \in (i + 1)..(at - 1)
      <4>2. prog[k].depth >= m /\ k \in 1..Len(prog)
        BY <1>3, <3>2, <4>1 DEF FrameAt, Walked
      <4>3. prog[k].depth \in Nat
        BY <1>3, <4>2, TreeFacts
      <4> QED BY <1>3, <3>2, <4>2, <4>3
    <3>4. NamesAt(prog, i) \subseteq N
      <4>1. NamesAt(prog, i) \subseteq named
        BY <1>2, <1>3, <2>1, <3>2 DEF NamedAt
      <4>2. prog[i].depth # 0
        BY <1>3, <3>2
      <4>3. Visible(prog, i) = NamesAt(prog, i)
        BY <1>3, <3>2, <4>2, VisibleNames
      <4>4. prog[i].name \notin NamesAt(prog, i)
        BY <1>7, <2>4, <3>1, <3>2, <4>3 DEF NoShadowing
      <4> QED BY <2>4, <3>1, <4>1, <4>4
    <3>5. at <= Len(prog) => NamesAt(prog, at) \subseteq N
      <4> HAVE at <= Len(prog)
      <4>1. at \in 1..Len(prog) /\ prog[at].depth <= prog[i].depth
        BY <1>3, <3>2
      <4>2. NamesAt(prog, at) \subseteq NamesAt(prog, i)
        BY <1>3, <3>2, <3>3, <4>1, NamesBehindLoop
      <4> QED BY <3>4, <4>2
    <3>6. ASSUME NEW k \in 2..(m - 1) PROVE NamesAt(prog, t[k].line) \subseteq N
      <4>1. PICK l : l = open[k].line
        OBVIOUS
      <4>2. PICK f : f = open[k - 1].part
        OBVIOUS
      <4>3. k \in 1..m /\ k - 1 \in 1..m /\ m \in 1..m /\ k \in 1..(m - 1) /\ k - 1 \in 1..(k - 1)
        BY <1>3
      <4>4. FrameAt(prog, open[k], k, at) /\ FrameAt(prog, open[k - 1], k - 1, at)
        BY <1>2, <1>3, <4>3 DEF Walked
      <4>5. f < l
        BY <1>2, <1>3, <4>1, <4>2, <4>3 DEF Walked
      <4>6. open[k].part < i
        BY <1>2, <1>3, <3>2, <4>3 DEF Walked
      <4>7. /\ l \in Nat /\ f \in Nat /\ l < i /\ l \in 1..Len(prog) /\ prog[l].depth = k - 1
            /\ \A j \in (f + 1)..(at - 1) : prog[j].depth >= k - 1
        <5>1. /\ open[k].line \in 1..(at - 1) /\ open[k].part \in open[k].line..(at - 1)
              /\ prog[open[k].line].depth = k - 1
          BY <4>4 DEF FrameAt
        <5>2. /\ open[k - 1].line \in 1..(at - 1) /\ open[k - 1].part \in open[k - 1].line..(at - 1)
              /\ \A j \in (f + 1)..(at - 1) : prog[j].depth >= k - 1
          BY <4>2, <4>4 DEF FrameAt
        <5>3. l \in Nat /\ f \in Nat
          <6>1. at \in Nat /\ l \in 1..(at - 1)
            BY <1>3, <4>1, <5>1
          <6>2. PICK q : q = open[k - 1].line
            OBVIOUS
          <6>3. q \in 1..(at - 1) /\ f \in q..(at - 1)
            BY <4>2, <5>2, <6>2
          <6> QED BY ONLY <6>1, <6>3
        <5>4. l < i /\ l \in 1..Len(prog)
          <6>1. PICK q : q = open[k].part
            OBVIOUS
          <6>2. at \in Nat /\ Len(prog) \in Nat /\ i \in 1..Len(prog) /\ q < i
                /\ l \in 1..(at - 1) /\ q \in l..(at - 1)
            BY <1>3, <3>2, <4>1, <4>6, <5>1, <6>1
          <6> QED BY ONLY <6>2
        <5> QED BY <4>1, <5>1, <5>2, <5>3, <5>4
      <4>8. \A j \in (l + 1)..i : prog[j].depth >= prog[l].depth
        BY <1>3, <3>2, <4>5, <4>7
      <4>9. NamesAt(prog, l) \subseteq NamesAt(prog, i)
        <5>1. Rooted(prog) /\ l \in 1..Len(prog) /\ i \in 1..Len(prog) /\ l <= i
          BY <1>3, <3>2, <4>7
        <5> QED BY <4>8, <5>1, NamesWithin
      <4> QED BY <1>5, <3>4, <4>1, <4>3, <4>9
    <3> QED BY <1>5, <3>5, <3>6 DEF NamedAt
  <2> QED BY <2>3, <2>4
<1> QED BY <1>4, <1>6, <1>7

LEMMA EndNames == ASSUME NamesInv, EndFn \/ EndLoop \/ EndArms PROVE NamesInv'
<1>1. /\ open # <<>> /\ ~InBody /\ prog' = prog /\ at' = at /\ open' = Pop
      /\ ~errors' => ~errors
      /\ \/ prog[Top.line].kind = "for" /\ named' = named \ {prog[Top.line].name}
         \/ prog[Top.line].kind # "for" /\ named' = named
  <2>1. CASE EndFn \/ EndArms
    BY <2>1 DEF EndFn, EndArms
  <2>2. CASE EndLoop
    BY <2>2 DEF EndLoop, Remaining
  <2> QED BY <2>1, <2>2
<1>2. [Generate]_vars /\ at' # 1
  BY <1>1 DEF Generate, Walk, NamesInv, PlaceInv
<1>3. PICK N : N = named'
  OBVIOUS
<1>4. ASSUME ~errors'
      PROVE  Walked(prog, open', at') /\ (NoShadowing(prog) => NamedAt(prog, open', at', named'))
  <2>1. ~errors
    BY <1>1, <1>4
  <2>2. Walked(prog, Pop, at) /\ (NoShadowing(prog) => NamedAt(prog, Pop, at, N))
    BY <1>1, <1>3, <2>1, PopNames
  <2> QED BY <1>1, <1>3, <2>2
<1> QED BY <1>1, <1>2, <1>4, NamesStep

LEMMA FnNames == ASSUME NamesInv, FnDefine PROVE NamesInv'
<1>1. /\ at <= Len(prog) /\ open = <<>> /\ Line.kind = "fn" /\ named' = {Line.name}
      /\ open' = <<Frame(0, 0)>> /\ at' = at + 1 /\ prog' = prog /\ errors' = errors
  BY DEF FnDefine, Walking, Next1
<1>2. at \in 1..Len(prog) /\ at \in Nat /\ Line = prog[at] /\ Len(prog) \in Nat
  BY <1>1, Counts DEF NamesInv, PlaceInv, Line
<1>3. [Generate]_vars /\ at' # 1
  BY <1>1, <1>2 DEF Generate, Walk
<1>4. ASSUME ~errors'
      PROVE  Walked(prog, open', at') /\ (NoShadowing(prog) => NamedAt(prog, open', at', named'))
  <2>1. Walked(prog, open, at) /\ Rooted(prog)
    BY <1>1, <1>4 DEF NamesInv, PlaceInv
  <2>2. PICK f : f = Frame(0, 0)
    OBVIOUS
  <2>3. f.line = at /\ f.part = at
    BY <2>2 DEF Frame
  <2>4. PICK t : t = <<f>>
    OBVIOUS
  <2>5. Len(t) = 1 /\ t[1] = f /\ Len(open) = 0 /\ open' = t
    BY <1>1, <2>2, <2>4
  <2>6. prog[at].depth = 0 /\ prog[at].kind \in Loops \cup {"fn", "if", "match"} /\ prog[at].kind = "fn"
    BY <1>1, <1>2, <2>1 DEF Rooted
  <2>7. Walked(prog, t, at + 1)
    <3>1. SameFrames(open, t, Len(open))
      BY <2>5 DEF SameFrames
    <3>2. Len(t) = Len(open) + 1 /\ prog[at].depth >= Len(open)
          /\ t[Len(open) + 1].line = at /\ t[Len(open) + 1].part = at
      BY <2>3, <2>5, <2>6
    <3> QED BY <1>1, <2>1, <2>6, <3>1, <3>2, WalkIn
  <2>8. NamedAt(prog, t, at + 1, named')
    <3>1. NamesAt(prog, at + 1) \subseteq named'
      BY <1>1, <1>2, <2>1, <2>6, NamedInFn
    <3> QED BY <2>5, <3>1 DEF NamedAt
  <2> QED BY <1>1, <2>5, <2>7, <2>8
<1> QED BY <1>1, <1>3, <1>4, NamesStep

LEMMA ParseNames == ASSUME NamesInv, Parse PROVE NamesInv'
<1>1. PICK vocabulary \in Vocabularies : \E line \in vocabulary :
        /\ Fits(prog, line) /\ (line.depth = 0 <=> line.kind = "fn")
        /\ prog' = Append(prog, line)
  BY DEF Parse
<1>2. PICK line \in vocabulary : /\ Fits(prog, line) /\ (line.depth = 0 <=> line.kind = "fn")
                                 /\ prog' = Append(prog, line)
  BY <1>1
<1>3. at = 1 /\ open = <<>> /\ UNCHANGED <<at, open, header, exit, errors>>
  BY DEF Parse, loop
<1>4. TypeInv'
  BY StepTypes DEF NamesInv, PlaceInv, Generate
<1>5. IsLine(line)
  BY VocabulariesAssumption
<1>6. PICK q : q = Append(prog, line)
  OBVIOUS
<1>7. IsTree(prog) /\ IsSequence(prog) /\ \A i \in 1..Len(prog) : prog[i].kind = "fn" <=> prog[i].depth = 0
  BY DEF NamesInv, PlaceInv, Rooted, IsTree
<1>8. Rooted(q)
  <2>1. IsTree(q)
    BY <1>2, <1>5, <1>6, <1>7, FitsBuildsTrees
  <2>2. Len(q) = Len(prog) + 1 /\ (\A i \in 1..Len(prog) : q[i] = prog[i]) /\ q[Len(prog) + 1] = line
    BY <1>6, <1>7, AppendSequence
  <2>3. Len(prog) \in Nat
    BY <1>7, SequenceLength
  <2>4. ASSUME NEW i \in 1..Len(q) PROVE q[i].kind = "fn" <=> q[i].depth = 0
    <3>1. i \in 1..Len(prog) \/ i = Len(prog) + 1
      BY <2>2, <2>3
    <3> QED BY <1>2, <1>7, <2>2, <3>1
  <2> QED BY <2>1, <2>4 DEF Rooted
<1>9. Walked(q, <<>>, 1)
  <2>1. Len(q) \in Nat
    BY <1>8, TreeFacts
  <2>2. \A j \in 1..(1 - 1) : FALSE
    OBVIOUS
  <2> QED BY <1>8, <2>1, <2>2 DEF Walked
<1>10. NamedAt(q, <<>>, 1, named')
  BY DEF NamedAt
<1>11. ~errors /\ header = 0 /\ exit = 0
  BY <1>3 DEF NamesInv, PlaceInv
<1> QED BY <1>2, <1>3, <1>4, <1>6, <1>8, <1>9, <1>10, <1>11 DEF NamesInv, PlaceInv

LEMMA InitNames == Init => NamesInv
<1> SUFFICES ASSUME Init PROVE NamesInv
  OBVIOUS
<1>1. TypeInv
  BY InitWalk, InitTypes DEF TypeInv
<1>2. prog = <<>> /\ at = 1 /\ open = <<>> /\ header = 0 /\ exit = 0 /\ errors = FALSE
  BY DEF Init
<1>3. Len(prog) = 0 /\ IsSequence(prog)
  <2>1. prog \in Seq({}) /\ Len(prog) = 0
    BY <1>2
  <2> QED BY <2>1 DEF IsSequence
<1>4. Rooted(prog)
  BY <1>3 DEF Rooted, IsTree, HasDepths
<1>5. Walked(prog, <<>>, 1)
  BY <1>3, <1>4 DEF Walked
<1>6. NamedAt(prog, <<>>, 1, named)
  BY DEF NamedAt
<1> QED BY <1>1, <1>2, <1>4, <1>5, <1>6 DEF NamesInv, PlaceInv

LEMMA StepNames == ASSUME NamesInv, [Generate]_vars PROVE NamesInv'
<1>1. CASE Parse
  BY <1>1, ParseNames
<1>2. CASE Return \/ Declare \/ Use \/ Break \/ Continue \/ GotoLabel \/ Label
  BY <1>2, PlainNames
<1>3. CASE If \/ Match
  BY <1>3, OpenArmsNames
<1>4. CASE Loop
  BY <1>4, LoopNames
<1>5. CASE ElseIf \/ Else \/ Case
  BY <1>5, ArmNames
<1>6. CASE StopBody
  BY <1>6, StopNames
<1>7. CASE EndFn \/ EndLoop \/ EndArms
  BY <1>7, EndNames
<1>8. CASE FnDefine
  BY <1>8, FnNames
<1>9. CASE UNCHANGED vars
  <2>1. TypeInv'
    BY <1>9, StepTypes DEF NamesInv, PlaceInv
  <2> QED BY <1>9, <2>1 DEF vars, NamesInv, PlaceInv
<1> QED BY <1>1, <1>2, <1>3, <1>4, <1>5, <1>6, <1>7, <1>8, <1>9 DEF Generate, Walk

----------------------------------------------------------------------------
(* Behind semantic analysis.                                               *)

LEMMA FrontStep == ASSUME [FrontNext]_<<vars, run, sem>> PROVE [Generate]_vars
<1>1. CASE ParseProgram
  BY <1>1 DEF ParseProgram, Generate
<1>2. CASE check_semantics
  <2>1. prog' = prog
    BY <1>2 DEF check_semantics, Check, Start, check_function_body, SkipFunction,
                check_return_statement, declare_variables, UseVariable, Jump, IfOrMatch,
                check_loop, SkipElseIf, NextArm, Close, instrs_check_labels
  <2> QED BY <1>2, <2>1 DEF check_semantics, vars, loop
<1>3. CASE GenerateAccepted
  BY <1>3 DEF GenerateAccepted, Generate
<1>4. CASE UNCHANGED <<vars, run, sem>>
  BY <1>4
<1> QED BY <1>1, <1>2, <1>3, <1>4 DEF FrontNext

LEMMA SameRange ==
  ASSUME NEW n \in Nat, NEW m \in Nat, 1..n = 1..m
  PROVE  n = m
<1>1. n # 0 => n \in 1..n
  OBVIOUS
<1>2. m # 0 => m \in 1..m
  OBVIOUS
<1>3. n # 0 => n \in 1..m
  BY ONLY <1>1, 1..n = 1..m
<1>4. m # 0 => m \in 1..n
  BY ONLY <1>2, 1..n = 1..m
<1>5. n # 0 => n <= m
  BY ONLY <1>3, n \in Nat, m \in Nat
<1>6. m # 0 => m <= n
  BY ONLY <1>4, n \in Nat, m \in Nat
<1> QED BY ONLY <1>5, <1>6, n \in Nat, m \in Nat

\* What is overlooked brings no other names into scope.
LEMMA SeenNames ==
  ASSUME NEW p, Rooted(p), NEW n \in 1..Len(p), p[n].depth # 0
  PROVE  VisibleAt(Seen(p), n, n) \subseteq NamesAt(p, n)
<1>1. PICK q : q = Seen(p)
  OBVIOUS
<1>2. IsTree(p) /\ Len(p) \in Nat /\ n \in Nat /\ \A i \in 1..Len(p) : IsLine(p[i])
  BY TreeFacts DEF Rooted, IsTree
<1>3. /\ Len(q) = Len(p) /\ IsSequence(q)
      /\ \A i \in 1..Len(p) : \/ q[i] = p[i]
                              \/ p[i].kind = "declare" /\ q[i] = [p[i] EXCEPT !.kind = "label"]
  <2>1. q = [i \in 1..Len(p) |->
              IF p[i].kind = "declare" /\ Overlooked(p, i) THEN [p[i] EXCEPT !.kind = "label"] ELSE p[i]]
    BY <1>1, Zenon DEF Seen
  <2>2. PICK e : e = [i \in 1..Len(p) |->
               IF p[i].kind = "declare" /\ Overlooked(p, i) THEN [p[i] EXCEPT !.kind = "label"] ELSE p[i]]
    OBVIOUS
  <2>3. PICK m : m = Len(p) /\ m \in Nat
    BY <1>2
  <2>4. q \in [1..m -> {e[i] : i \in 1..m}]
    BY <2>1, <2>2, <2>3
  <2>5. PICK S : q \in [1..m -> S]
    BY <2>4
  <2>6. q \in Seq(S)
    BY ONLY <2>3, <2>5, SeqDef
  <2>7. Len(q) = m
    <3>1. Len(q) \in Nat /\ DOMAIN q = 1..Len(q)
      BY ONLY <2>6, LenProperties, Zenon
    <3>2. DOMAIN q = 1..m
      BY ONLY <2>5, Zenon
    <3>3. PICK k : k = Len(q)
      OBVIOUS
    <3>4. k \in Nat /\ 1..k = 1..m
      BY ONLY <3>1, <3>2, <3>3
    <3>5. k = m
      BY ONLY <2>3, <3>4, SameRange, Zenon
    <3> QED BY <3>3, <3>5
  <2> QED BY <2>1, <2>3, <2>6, <2>7 DEF IsSequence
<1>4. ASSUME NEW i \in 1..Len(p)
      PROVE  /\ q[i].name = p[i].name /\ q[i].depth = p[i].depth /\ IsLine(q[i])
             /\ \/ q[i].kind = p[i].kind
                \/ p[i].kind = "declare" /\ q[i].kind = "label"
  <2>1. PICK line : line = p[i]
    OBVIOUS
  <2>2. /\ line = [kind |-> line.kind, name |-> line.name, depth |-> line.depth, read |-> line.read]
        /\ line.depth \in Nat /\ line.read \in Reads
    BY <1>2, <2>1 DEF IsLine
  <2>3. PICK changed : changed = [line EXCEPT !.kind = "label"]
    OBVIOUS
  <2>4. changed = [kind |-> "label", name |-> line.name, depth |-> line.depth, read |-> line.read]
    BY <2>2, <2>3
  <2>5. changed.kind = "label" /\ changed.name = line.name /\ changed.depth = line.depth /\ changed.read = line.read
    BY <2>4
  <2>6. IsLine(changed)
    BY <2>2, <2>4, <2>5 DEF IsLine
  <2>7. \/ q[i] = line
        \/ line.kind = "declare" /\ q[i] = changed
    BY <1>3, <2>1, <2>3
  <2> QED BY <1>2, <2>1, <2>5, <2>6, <2>7
<1>5. ASSUME NEW i \in 1..Len(p)
      PROVE  /\ q[i].kind \in Heads <=> p[i].kind \in Heads
             /\ q[i].kind \in Loops \cup {"fn"} <=> p[i].kind \in Loops \cup {"fn"}
             /\ q[i].kind \in IfParts <=> p[i].kind \in IfParts
             /\ q[i].kind \in Cases <=> p[i].kind \in Cases
             /\ q[i].kind \in {"if", "elif"} <=> p[i].kind \in {"if", "elif"}
             /\ q[i].kind \in {"match"} \cup Cases <=> p[i].kind \in {"match"} \cup Cases
             /\ q[i].kind = "fn" <=> p[i].kind = "fn"
             /\ q[i].kind \in {"fn", "for"} <=> p[i].kind \in {"fn", "for"}
             /\ q[i].kind = "declare" => p[i].kind = "declare"
  <2>1. \/ q[i].kind = p[i].kind
        \/ p[i].kind = "declare" /\ q[i].kind = "label"
    BY <1>4
  <2> QED BY <2>1 DEF Heads, Parts, IfParts, Cases, Loops
<1>6. \A i, j \in 1..Len(p) : In(q, i, j) <=> In(p, i, j)
  <2> TAKE i, j \in 1..Len(p)
  <2>1. \A k \in (i + 1)..j : k \in 1..Len(p)
    BY <1>2
  <2> QED BY <1>4, <2>1 DEF In
<1>7. Rooted(q)
  <2>1. HasDepths(q)
    BY <1>3, <1>4, TreeFacts DEF HasDepths
  <2>2. ASSUME NEW i \in 1..Len(p)
        PROVE  /\ i = 1 => q[i].depth = 0
               /\ i # 1 => q[i].depth <= IF q[i - 1].kind \in Heads THEN q[i - 1].depth + 1 ELSE q[i - 1].depth
               /\ q[i].kind \in IfParts => \E j \in 1..(i - 1) : Peer(q, j, i) /\ q[j].kind \in {"if", "elif"}
               /\ q[i].kind \in Cases => \E j \in 1..(i - 1) : Peer(q, j, i) /\ q[j].kind \in {"match"} \cup Cases
    <3>1. \A j \in 1..(i - 1) : j \in 1..Len(p) /\ (Peer(p, j, i) => Peer(q, j, i))
      <4> TAKE j \in 1..(i - 1)
      <4>1. j \in 1..Len(p) /\ \A k \in (j + 1)..(i - 1) : k \in 1..Len(p)
        BY <1>2
      <4> QED BY <1>4, <4>1 DEF Peer
    <3>2. i = 1 => q[i].depth = 0
      BY <1>2, <1>4 DEF IsTree
    <3>3. i # 1 => q[i].depth <= IF q[i - 1].kind \in Heads THEN q[i - 1].depth + 1 ELSE q[i - 1].depth
      <4> HAVE i # 1
      <4>1. i - 1 \in 1..Len(p)
        BY <1>2
      <4>2. p[i].depth <= IF p[i - 1].kind \in Heads THEN p[i - 1].depth + 1 ELSE p[i - 1].depth
        BY <1>2 DEF IsTree
      <4>3. q[i].depth = p[i].depth /\ q[i - 1].depth = p[i - 1].depth
            /\ (q[i - 1].kind \in Heads <=> p[i - 1].kind \in Heads)
        BY <1>4, <1>5, <4>1
      <4> QED BY <4>2, <4>3
    <3>4. q[i].kind \in IfParts => \E j \in 1..(i - 1) : Peer(q, j, i) /\ q[j].kind \in {"if", "elif"}
      <4> HAVE q[i].kind \in IfParts
      <4>1. PICK j \in 1..(i - 1) : Peer(p, j, i) /\ p[j].kind \in {"if", "elif"}
        BY <1>2, <1>5 DEF IsTree
      <4> QED BY <1>5, <3>1, <4>1
    <3>5. q[i].kind \in Cases => \E j \in 1..(i - 1) : Peer(q, j, i) /\ q[j].kind \in {"match"} \cup Cases
      <4> HAVE q[i].kind \in Cases
      <4>1. PICK j \in 1..(i - 1) : Peer(p, j, i) /\ p[j].kind \in {"match"} \cup Cases
        BY <1>2, <1>5 DEF IsTree
      <4> QED BY <1>5, <3>1, <4>1
    <3> QED BY <3>2, <3>3, <3>4, <3>5
  <2>3. IsTree(q)
    BY <1>3, <1>4, <2>1, <2>2 DEF IsTree
  <2>4. \A i \in 1..Len(q) : q[i].kind = "fn" <=> q[i].depth = 0
    BY <1>3, <1>4, <1>5 DEF Rooted
  <2> QED BY <2>3, <2>4 DEF Rooted
<1>8. Visible(q, n) = NamesAt(q, n)
  BY <1>3, <1>4, <1>7, VisibleNames
<1>9. NamesAt(q, n) \subseteq NamesAt(p, n)
  <2>1. ASSUME NEW j \in 1..(n - 1), InScope(q, n, j)
        PROVE  q[j].name = p[j].name /\ InScope(p, n, j)
    <3>1. j \in 1..Len(p)
      BY <1>2
    <3>2. CASE q[j].kind \in {"fn", "for"} /\ In(q, j, n)
      BY <1>4, <1>5, <1>6, <3>1, <3>2 DEF InScope
    <3>3. CASE /\ q[j].kind = "declare"
               /\ \A l \in 1..Len(q) : In(q, l, j) /\ q[l].kind \in Loops \cup {"fn"} => In(q, l, n)
      <4>1. p[j].kind = "declare"
        BY <1>5, <3>1, <3>3
      <4>2. \A l \in 1..Len(p) : In(p, l, j) /\ p[l].kind \in Loops \cup {"fn"} => In(p, l, n)
        BY <1>3, <1>5, <1>6, <3>1, <3>3
      <4> QED BY <1>4, <3>1, <4>1, <4>2 DEF InScope
    <3> QED BY <2>1, <3>2, <3>3 DEF InScope
  <2> QED BY <2>1 DEF NamesAt
<1> QED BY <1>1, <1>8, <1>9 DEF Visible

\* The invariant that the runs check.
LEMMA NamesAreAllocas == NamesInv => NamesHaveAllocas
<1> SUFFICES ASSUME NamesInv, open # <<>>, ~errors, InBody, NoShadowing(prog)
             PROVE  VisibleAt(Seen(prog), at, at) \subseteq named
  BY DEF NamesHaveAllocas
<1>1. PlaceInv
  BY DEF NamesInv
<1>2. /\ at \in 1..Len(prog) /\ at <= Len(prog) /\ prog[at].depth >= Len(open) /\ Len(open) \in Nat \ {0}
      /\ Rooted(prog) /\ prog[at].depth \in Nat
  BY <1>1, TopFacts DEF Line
<1>3. prog[at].depth # 0 /\ Len(open) # 0
  BY <1>2
<1>4. NamesAt(prog, at) \subseteq named
  BY <1>2, <1>3 DEF NamesInv, NamedAt
<1>5. VisibleAt(Seen(prog), at, at) \subseteq NamesAt(prog, at)
  BY <1>2, <1>3, SeenNames
<1> QED BY <1>4, <1>5

\* NamesHaveAllocas: while code is generated, every name that semantic analysis
\* has in scope at a line has its alloca in named_values, as long as no for loop
\* takes a name that is in use around it.  At the end of such a loop its name is
\* all that is erased, although the map is one for the whole function.
THEOREM AllocasTheorem == FrontSpec => []NamesHaveAllocas
<1>1. FrontInit => NamesInv
  BY InitNames DEF FrontInit, CompileInit
<1>2. NamesInv /\ [FrontNext]_<<vars, run, sem>> => NamesInv'
  BY FrontStep, StepNames
<1> QED BY <1>1, <1>2, NamesAreAllocas, PTL DEF FrontSpec

----------------------------------------------------------------------------
(* Errors that come too late.                                              *)

\* The names are in scope where they are read, and break and continue in loops.
InOrder(p) == NamesDeclared(p) /\ NoShadowing(p) /\ LoopJumpsInLoops(p)

LateInv == NamesInv /\ (InOrder(prog) => ~errors)

\* A name that is read has its alloca.
LEMMA KnownNames ==
  ASSUME NamesInv, InOrder(prog), ~errors, open # <<>>, at <= Len(prog), ReadsName(prog, at),
         InBody \/ prog[at].kind = "elif"
  PROVE  Known
<1>1. PlaceInv /\ NamedAt(prog, open, at, named)
  BY DEF NamesInv, InOrder
<1>2. at \in 1..Len(prog) /\ Rooted(prog) /\ Len(open) \in Nat \ {0} /\ Line = prog[at] /\ Len(open) # 0
      /\ prog[at].depth \in Nat /\ (InBody => prog[at].depth >= Len(open))
  BY <1>1, TopFacts
<1>3. prog[at].depth # 0
  <2>1. prog[at].kind # "fn"
    BY DEF ReadsName
  <2> QED BY <1>2, <2>1 DEF Rooted
<1>4. prog[at].name \in Visible(prog, at)
  BY <1>2 DEF InOrder, NamesDeclared
<1>5. NamesAt(prog, at) \subseteq named
  BY <1>1, <1>2, <1>3 DEF NamedAt
<1> QED BY <1>2, <1>3, <1>4, <1>5, VisibleNames DEF Known

\* And so it has at the end of its do-while.
LEMMA KnownAtEnd ==
  ASSUME NamesInv, InOrder(prog), ~errors, open # <<>>, prog[Top.line].kind = "dowhile"
  PROVE  prog[Top.line].name \in named
<1>1. PlaceInv /\ NamedAt(prog, open, at, named)
  BY DEF NamesInv, InOrder
<1>2. PICK m : m = Len(open)
  OBVIOUS
<1>3. PICK i : i = Top.line
  OBVIOUS
<1>4. /\ i \in 1..Len(prog) /\ Rooted(prog) /\ m \in Nat \ {0} /\ Top = open[m] /\ prog[i].depth = m - 1
      /\ prog[i].kind = "fn" <=> m = 1
  BY <1>1, <1>2, <1>3, TopFacts
<1>5. m \in 2..m /\ prog[i].depth # 0
  BY <1>3, <1>4
<1>6. NamesAt(prog, i) \subseteq named
  BY <1>1, <1>2, <1>3, <1>4, <1>5 DEF NamedAt
<1>7. prog[i].name \in Visible(prog, i)
  BY <1>3, <1>4 DEF InOrder, NamesDeclared, ReadsName
<1> QED BY <1>3, <1>4, <1>5, <1>6, <1>7, VisibleNames

\* break and continue find the blocks of a loop.
LEMMA JumpTargets ==
  ASSUME NamesInv, InOrder(prog), ~errors, open # <<>>, InBody, Line.kind \in {"break", "continue"}
  PROVE  exit # 0 /\ header # 0
<1>1. PlaceInv
  BY DEF NamesInv
<1>2. at \in 1..Len(prog) /\ Rooted(prog) /\ Walked(prog, open, at) /\ Line = prog[at] /\ at <= Len(prog)
      /\ Len(open) \in Nat /\ at \in Nat
  BY <1>1, TopFacts
<1>3. PICK l : l = LoopOf(prog, at)
  OBVIOUS
<1>4. l # 0
  BY <1>2, <1>3 DEF InOrder, LoopJumpsInLoops
<1>5. l \in 1..Len(prog) /\ In(prog, l, at) /\ prog[l].kind \in Loops
  BY <1>2, <1>3, <1>4, LoopOfIs, TreeFacts
<1>6. l \in 1..(at - 1)
  BY <1>2, <1>5 DEF In
<1>7. PICK k \in 1..Len(open) : l = open[k].line \/ l = open[k].part
  BY <1>2, <1>5, <1>6 DEF Walked
<1>8. l = open[k].line
  <2>1. FrameAt(prog, open[k], k, at)
    BY <1>2 DEF Walked
  <2> QED BY <1>5, <1>7, <2>1 DEF FrameAt, Loops, IfParts, Cases
<1>9. PICK j \in 1..Len(open) : /\ prog[open[j].line].kind \in Loops
                                /\ header = open[j].next /\ exit = open[j].merge
  BY <1>1, <1>5, <1>8, Zenon DEF PlaceInv, TypeInv, WalkInv, LoopTargets, InForce
<1>10. FrameOK(prog, open[j], at - 1, Len(code))
  BY <1>1 DEF PlaceInv, TypeInv, BlocksInv, CallsOK
<1>11. prog[open[j].line].kind # "fn"
  BY <1>9 DEF Loops
<1>12. open[j].next \in 1..Len(code) /\ open[j].merge \in 1..Len(code)
  BY <1>10, <1>11 DEF FrameOK
<1> QED BY <1>9, <1>12

LEMMA StepErrors ==
  ASSUME NamesInv, ~errors, InOrder(prog), Walk
  PROVE  ~errors'
<1>1. Ready("return") \/ Ready("use") \/ Ready("if") \/ Ready("match") \/ Ready("while") =>
        (Line.kind = "return" /\ Line.name = NoName) \/ Known
  <2> SUFFICES ASSUME InBody, Line.kind \in {"return", "use", "if", "match", "while"},
                      ~(Line.kind = "return" /\ Line.name = NoName)
               PROVE  Known
    BY DEF Ready
  <2>1. open # <<>> /\ at <= Len(prog) /\ ReadsName(prog, at)
    BY DEF InBody, ReadsName, Line
  <2> QED BY <2>1, KnownNames
<1>2. CASE Return \/ Use \/ If \/ Match
  BY <1>1, <1>2 DEF Return, Use, If, Match, Ready
<1>3. CASE Break \/ Continue
  <2>1. InBody /\ open # <<>> /\ Line.kind \in {"break", "continue"}
    BY <1>3 DEF Break, Continue, LoopJump, Ready, InBody
  <2> QED BY <1>3, <2>1, JumpTargets DEF Break, Continue, LoopJump
<1>4. CASE Loop
  BY <1>1, <1>4 DEF Loop, Ready
<1>5. CASE ElseIf
  <2>1. open # <<>> /\ at <= Len(prog) /\ prog[at].kind = "elif" /\ ReadsName(prog, at)
    BY <1>5 DEF ElseIf, AtPart, Line, ReadsName
  <2>2. Known
    BY <2>1, KnownNames
  <2> QED BY <1>5, <2>2 DEF ElseIf
<1>6. CASE EndLoop
  <2>1. open # <<>>
    BY <1>6 DEF EndLoop
  <2> QED BY <1>6, <2>1, KnownAtEnd DEF EndLoop
<1>7. CASE FnDefine \/ EndFn \/ StopBody \/ Declare \/ GotoLabel \/ Label \/ Else \/ Case \/ EndArms
  BY <1>7 DEF FnDefine, EndFn, StopBody, Declare, GotoLabel, Label, Else, Case, EndArms
<1> QED BY <1>2, <1>3, <1>4, <1>5, <1>6, <1>7 DEF Walk

LEMMA StepLate == ASSUME LateInv, [Generate]_vars PROVE LateInv'
<1>1. NamesInv'
  BY StepNames DEF LateInv
<1>2. CASE Parse
  <2>1. at = 1 /\ errors' = errors
    BY <1>2 DEF Parse
  <2>2. ~errors
    BY <2>1 DEF LateInv, NamesInv, PlaceInv
  <2> QED BY <1>1, <2>1, <2>2 DEF LateInv
<1>3. CASE Walk
  <2>1. prog' = prog
    BY <1>3 DEF Walk, FnDefine, EndFn, StopBody, Declare, Use, Return, GotoLabel, Label, Break, Continue,
                LoopJump, Loop, EndLoop, If, ElseIf, Else, Match, Case, EndArms
  <2>2. InOrder(prog) => ~errors'
    BY <1>3, StepErrors DEF LateInv
  <2> QED BY <1>1, <2>1, <2>2 DEF LateInv
<1>4. CASE UNCHANGED vars
  BY <1>1, <1>4 DEF LateInv, vars
<1> QED BY <1>2, <1>3, <1>4 DEF Generate

LEMMA CompileStep == ASSUME [CompileNext]_<<vars, run>> PROVE [Generate]_vars
BY DEF CompileNext, Run, Observe

\* No error comes too late: scu_check_errors has been called by then.  In a
\* program whose names are in scope where they are read, whose iterators have
\* names of their own and whose break and continue are in loops, none is found
\* while code is generated.
THEOREM LateErrorsTheorem ==
  CompileSpec => [](NamesDeclared(prog) /\ NoShadowing(prog) /\ LoopJumpsInLoops(prog) => ~errors)
<1>1. CompileInit => LateInv
  BY InitNames DEF CompileInit, Init, LateInv
<1>2. LateInv /\ [CompileNext]_<<vars, run>> => LateInv'
  BY CompileStep, StepLate
<1>3. LateInv => (NamesDeclared(prog) /\ NoShadowing(prog) /\ LoopJumpsInLoops(prog) => ~errors)
  BY DEF LateInv, InOrder
<1> QED BY <1>1, <1>2, <1>3, PTL DEF CompileSpec

----------------------------------------------------------------------------
(* Blocks that are closed.                                                 *)

IsCode(c) == IsSequence(c) /\ \A b \in 1..Len(c) : IsSequence(c[b])

Straight(c, b) == \A i \in 1..Len(c[b]) : ~IsTerminator(c[b][i])

\* BlockOK, of any code.
Closed(c, b) == Terminated(c, b) /\ \A i \in 1..(Len(c[b]) - 1) : ~IsTerminator(c[b][i])

\* The blocks W are still to be filled, and all others are closed, but for the
\* one that the builder is in.
Tidy(c, W, cur) ==
  /\ IsCode(c) /\ W \subseteq 1..Len(c) /\ cur \in (1..Len(c)) \ W
  /\ \A b \in W : c[b] = <<>>
  /\ \A b \in (1..Len(c)) \ W : Closed(c, b) \/ (b = cur /\ Straight(c, b))

LEMMA EmitBlock ==
  ASSUME NEW c, IsCode(c), NEW b \in 1..Len(c), NEW i
  PROVE  /\ IsCode(Emit(c, b, i)) /\ Len(Emit(c, b, i)) = Len(c)
         /\ Emit(c, b, i)[b] = Append(c[b], i)
         /\ \A a \in 1..Len(c) : a # b => Emit(c, b, i)[a] = c[a]
<1> DEFINE new == Append(c[b], i)
<1>1. PICK S : c \in Seq(S)
  BY DEF IsCode, IsSequence
<1>2. IsSequence(new)
  BY AppendSequence DEF IsCode
<1>3. Emit(c, b, i) = [c EXCEPT ![b] = new]
  BY DEF Emit
<1> HIDE DEF new
<1>4. c \in Seq(S \cup {new}) /\ Len(c) \in Nat /\ DOMAIN c = 1..Len(c)
  BY <1>1
<1>5. Emit(c, b, i) \in Seq(S \cup {new}) /\ Len(Emit(c, b, i)) = Len(c)
  BY <1>3, <1>4
<1>6. \A a \in 1..Len(c) : Emit(c, b, i)[a] = IF a = b THEN new ELSE c[a]
  BY <1>3, <1>4
<1>7. IsCode(Emit(c, b, i))
  BY <1>2, <1>5, <1>6 DEF IsCode, IsSequence
<1> QED BY <1>5, <1>6, <1>7 DEF new

LEMMA MoreBlocks ==
  ASSUME NEW c, IsCode(c), NEW k \in Nat
  PROVE  /\ IsCode(NewBlocks(c, k)) /\ Len(NewBlocks(c, k)) = Len(c) + k /\ Len(c) \in Nat
         /\ \A b \in 1..Len(c) : NewBlocks(c, k)[b] = c[b]
         /\ \A b \in (Len(c) + 1)..(Len(c) + k) : NewBlocks(c, k)[b] = <<>>
<1> DEFINE new == [b \in 1..k |-> <<>>]
<1>1. new \in Seq({<<>>}) /\ Len(new) = k /\ \A b \in 1..k : new[b] = <<>>
  OBVIOUS
<1>2. IsSequence(c) /\ IsSequence(new)
  BY <1>1 DEF IsCode, IsSequence
<1>3. NewBlocks(c, k) = c \o new
  BY DEF NewBlocks
<1> HIDE DEF new
<1>4. /\ IsSequence(c \o new) /\ Len(c \o new) = Len(c) + k /\ Len(c) \in Nat
      /\ \A b \in 1..Len(c) : (c \o new)[b] = c[b]
      /\ \A b \in 1..k : (c \o new)[Len(c) + b] = new[b]
  BY <1>1, <1>2, JoinedSequence, SequenceLength
<1>5. ASSUME NEW b \in (Len(c) + 1)..(Len(c) + k) PROVE (c \o new)[b] = <<>>
  <2>1. b - Len(c) \in 1..k /\ b = Len(c) + (b - Len(c))
    BY <1>4
  <2> QED BY <1>1, <1>4, <2>1
<1>6. ASSUME NEW b \in 1..(Len(c) + k) PROVE IsSequence((c \o new)[b])
  <2>1. <<>> \in Seq({})
    OBVIOUS
  <2>2. b \in 1..Len(c) \/ b \in (Len(c) + 1)..(Len(c) + k)
    BY <1>4
  <2> QED BY <1>4, <1>5, <2>1, <2>2 DEF IsCode, IsSequence
<1> QED BY <1>3, <1>4, <1>5, <1>6 DEF IsCode

\* What a block is depends on its own instructions only.
LEMMA SameBlock ==
  ASSUME NEW c, NEW d, NEW b, d[b] = c[b]
  PROVE  /\ Straight(d, b) <=> Straight(c, b)
         /\ Terminated(d, b) <=> Terminated(c, b)
         /\ Closed(d, b) <=> Closed(c, b)
BY DEF Straight, Terminated, Closed

LEMMA EmptyBlock ==
  ASSUME NEW c, NEW b, c[b] = <<>>
  PROVE  Straight(c, b) /\ ~Terminated(c, b) /\ ~Closed(c, b)
BY DEF Straight, Terminated, Closed

LEMMA OpenBlock ==
  ASSUME NEW c, NEW b, IsSequence(c[b])
  PROVE  /\ Straight(c, b) => ~Terminated(c, b)
         /\ Closed(c, b) => Terminated(c, b)
<1>1. Len(c[b]) \in Nat /\ (Len(c[b]) = 0 => c[b] = <<>>)
  BY SequenceLength
<1>2. c[b] # <<>> => Len(c[b]) \in 1..Len(c[b])
  BY <1>1
<1> QED BY <1>2 DEF Straight, Terminated, Closed

\* One instruction more.
LEMMA LongerBlock ==
  ASSUME NEW c, NEW d, NEW b, IsSequence(c[b]), NEW i, d[b] = Append(c[b], i), Straight(c, b)
  PROVE  /\ IsTerminator(i) => Closed(d, b)
         /\ ~IsTerminator(i) => Straight(d, b)
<1>1. PICK n : n = Len(c[b]) /\ n \in Nat
  BY SequenceLength
<1>2. Len(d[b]) = n + 1 /\ d[b][n + 1] = i /\ \A k \in 1..n : d[b][k] = c[b][k]
  BY <1>1, AppendSequence
<1>3. d[b] # <<>>
  BY <1>1, <1>2
<1>4. \A k \in 1..n : ~IsTerminator(d[b][k])
  BY <1>1, <1>2 DEF Straight
<1>5. ASSUME IsTerminator(i) PROVE Closed(d, b)
  <2>1. (n + 1) - 1 = n
    BY <1>1
  <2> QED BY <1>2, <1>3, <1>4, <1>5, <2>1 DEF Closed, Terminated
<1>6. ASSUME ~IsTerminator(i) PROVE Straight(d, b)
  <2>1. \A k \in 1..(n + 1) : k \in 1..n \/ k = n + 1
    BY <1>1
  <2> QED BY <1>2, <1>4, <1>6, <2>1 DEF Straight
<1> QED BY <1>5, <1>6

----------------------------------------------------------------------------
(* What the walk does to them.                                             *)

\* An instruction is appended where the builder is.
LEMMA TidyEmit ==
  ASSUME NEW c, NEW W, NEW cur, Tidy(c, W, cur), ~Terminated(c, cur), NEW i
  PROVE  /\ Tidy(Emit(c, cur, i), W, cur) /\ Len(Emit(c, cur, i)) = Len(c)
         /\ IsTerminator(i) => Closed(Emit(c, cur, i), cur)
         /\ ~IsTerminator(i) => ~Terminated(Emit(c, cur, i), cur)
<1>1. cur \in 1..Len(c) /\ IsCode(c) /\ IsSequence(c[cur])
  BY DEF Tidy, IsCode
<1>2. PICK d : d = Emit(c, cur, i)
  OBVIOUS
<1>3. IsCode(d) /\ Len(d) = Len(c) /\ d[cur] = Append(c[cur], i)
      /\ \A a \in 1..Len(c) : a # cur => d[a] = c[a]
  BY <1>1, <1>2, EmitBlock
<1>4. Straight(c, cur)
  BY <1>1 DEF Tidy, Closed
<1>5. /\ IsTerminator(i) => Closed(d, cur)
      /\ ~IsTerminator(i) => Straight(d, cur)
  BY <1>1, <1>3, <1>4, LongerBlock
<1>6. ~IsTerminator(i) => ~Terminated(d, cur)
  BY <1>1, <1>3, <1>5, OpenBlock DEF IsCode
<1>7. \A b \in W : d[b] = <<>>
  BY <1>3 DEF Tidy
<1>8. ASSUME NEW b \in (1..Len(c)) \ W PROVE Closed(d, b) \/ (b = cur /\ Straight(d, b))
  <2>1. CASE b = cur
    BY <1>5, <2>1
  <2>2. CASE b # cur
    BY <1>3, <2>2, SameBlock DEF Tidy
  <2> QED BY <2>1, <2>2
<1>9. Tidy(d, W, cur)
  BY <1>3, <1>7, <1>8 DEF Tidy
<1> QED BY <1>2, <1>3, <1>5, <1>6, <1>9

\* The block the builder is in is closed, if it is not.
LEMMA TidyJoin ==
  ASSUME NEW c, NEW W, NEW cur, Tidy(c, W, cur), NEW i, IsTerminator(i)
  PROVE  /\ Tidy(EmitUnlessTerminated(c, cur, i), W, cur)
         /\ Len(EmitUnlessTerminated(c, cur, i)) = Len(c)
         /\ Closed(EmitUnlessTerminated(c, cur, i), cur)
<1>1. CASE Terminated(c, cur)
  <2>1. EmitUnlessTerminated(c, cur, i) = c
    BY <1>1 DEF EmitUnlessTerminated
  <2>2. IsSequence(c[cur]) /\ (Closed(c, cur) \/ Straight(c, cur))
    BY DEF Tidy, IsCode
  <2> QED BY <1>1, <2>1, <2>2, OpenBlock
<1>2. CASE ~Terminated(c, cur)
  BY <1>2, TidyEmit DEF EmitUnlessTerminated
<1> QED BY <1>1, <1>2

\* New blocks are still to be filled.
LEMMA TidyMore ==
  ASSUME NEW c, NEW W, NEW cur, Tidy(c, W, cur), NEW k \in Nat
  PROVE  /\ Tidy(NewBlocks(c, k), W \cup (Len(c) + 1)..(Len(c) + k), cur)
         /\ Len(NewBlocks(c, k)) = Len(c) + k /\ Len(c) \in Nat
         /\ NewBlocks(c, k)[cur] = c[cur]
<1>1. cur \in 1..Len(c) /\ IsCode(c)
  BY DEF Tidy
<1>2. PICK d : d = NewBlocks(c, k)
  OBVIOUS
<1>3. PICK n : n = Len(c)
  OBVIOUS
<1>4. /\ IsCode(d) /\ Len(d) = n + k /\ n \in Nat
      /\ \A b \in 1..n : d[b] = c[b]
      /\ \A b \in (n + 1)..(n + k) : d[b] = <<>>
  BY <1>1, <1>2, <1>3, MoreBlocks
<1>5. PICK V : V = W \cup (n + 1)..(n + k)
  OBVIOUS
<1>6. V \subseteq 1..(n + k) /\ cur \in (1..(n + k)) \ V
  <2>1. W \subseteq 1..n /\ cur \in 1..n /\ cur \notin W
    BY <1>3 DEF Tidy
  <2>2. n \in Nat /\ k \in Nat
    BY <1>4
  <2>3. cur \in 1..(n + k) /\ cur \notin (n + 1)..(n + k)
    BY ONLY <2>1, <2>2
  <2>4. (n + 1)..(n + k) \subseteq 1..(n + k) /\ 1..n \subseteq 1..(n + k)
    BY ONLY <2>2
  <2> QED BY <1>5, <2>1, <2>3, <2>4
<1>7. \A b \in V : d[b] = <<>>
  BY <1>3, <1>4, <1>5 DEF Tidy
<1>8. ASSUME NEW b \in (1..(n + k)) \ V PROVE Closed(d, b) \/ (b = cur /\ Straight(d, b))
  <2>1. b \in (1..n) \ W
    BY <1>4, <1>5
  <2> QED BY <1>3, <1>4, <2>1, SameBlock DEF Tidy
<1>9. Tidy(d, V, cur)
  BY <1>4, <1>6, <1>7, <1>8 DEF Tidy
<1> QED BY <1>1, <1>2, <1>3, <1>4, <1>5, <1>9

\* The builder goes on in a block that was still to be filled.
LEMMA TidyGo ==
  ASSUME NEW c, NEW W, NEW cur, Tidy(c, W, cur), Closed(c, cur), NEW x \in W
  PROVE  Tidy(c, W \ {x}, x) /\ ~Terminated(c, x)
<1>1. Straight(c, x) /\ ~Terminated(c, x)
  BY EmptyBlock DEF Tidy
<1>2. PICK V : V = W \ {x}
  OBVIOUS
<1>3. ASSUME NEW b \in (1..Len(c)) \ V PROVE Closed(c, b) \/ (b = x /\ Straight(c, b))
  BY <1>1, <1>2 DEF Tidy
<1>4. (\A b \in V : c[b] = <<>>) /\ V \subseteq 1..Len(c) /\ x \in (1..Len(c)) \ V /\ IsCode(c)
  BY <1>2 DEF Tidy
<1> QED BY <1>1, <1>2, <1>3, <1>4 DEF Tidy

----------------------------------------------------------------------------
(* The blocks that are still to be filled, each with what will fill it.    *)

BlocksOf(S) == {w[3] : w \in S}
OneToOne(S) == \A v, w \in S : v[3] = w[3] => v = w

Owing(c, S, cur) == OneToOne(S) /\ Tidy(c, BlocksOf(S), cur)

LEMMA OweEmit ==
  ASSUME NEW c, NEW S, NEW cur, Owing(c, S, cur), ~Terminated(c, cur), NEW i
  PROVE  /\ Owing(Emit(c, cur, i), S, cur) /\ Len(Emit(c, cur, i)) = Len(c)
         /\ IsTerminator(i) => Closed(Emit(c, cur, i), cur)
         /\ ~IsTerminator(i) => ~Terminated(Emit(c, cur, i), cur)
BY TidyEmit DEF Owing

LEMMA OweJoin ==
  ASSUME NEW c, NEW S, NEW cur, Owing(c, S, cur), NEW i, IsTerminator(i)
  PROVE  /\ Owing(EmitUnlessTerminated(c, cur, i), S, cur)
         /\ Len(EmitUnlessTerminated(c, cur, i)) = Len(c)
         /\ Closed(EmitUnlessTerminated(c, cur, i), cur)
BY TidyJoin DEF Owing

LEMMA OweMore ==
  ASSUME NEW c, NEW S, NEW cur, Owing(c, S, cur), NEW k \in Nat,
         NEW T, OneToOne(T), BlocksOf(T) = (Len(c) + 1)..(Len(c) + k)
  PROVE  /\ Owing(NewBlocks(c, k), S \cup T, cur) /\ Len(c) \in Nat
         /\ Len(NewBlocks(c, k)) = Len(c) + k
         /\ Terminated(NewBlocks(c, k), cur) <=> Terminated(c, cur)
<1>1. PICK d : d = NewBlocks(c, k)
  OBVIOUS
<1>2. PICK W : W = BlocksOf(S)
  OBVIOUS
<1>3. /\ Tidy(d, W \cup (Len(c) + 1)..(Len(c) + k), cur)
      /\ Len(d) = Len(c) + k /\ Len(c) \in Nat /\ d[cur] = c[cur]
  BY <1>1, <1>2, TidyMore DEF Owing
<1>4. BlocksOf(S \cup T) = W \cup (Len(c) + 1)..(Len(c) + k)
  BY <1>2 DEF BlocksOf
<1>5. W \subseteq 1..Len(c)
  BY <1>2 DEF Owing, Tidy
<1>6. \A v \in S, w \in T : v[3] # w[3]
  <2> TAKE v \in S, w \in T
  <2>1. v[3] \in 1..Len(c)
    BY <1>2, <1>5 DEF BlocksOf
  <2>2. w[3] \in (Len(c) + 1)..(Len(c) + k)
    BY DEF BlocksOf
  <2> QED BY <1>3, <2>1, <2>2
<1>7. OneToOne(S \cup T)
  BY <1>6 DEF OneToOne, Owing
<1>8. Terminated(d, cur) <=> Terminated(c, cur)
  BY <1>3, SameBlock
<1> QED BY <1>1, <1>3, <1>4, <1>7, <1>8 DEF Owing

LEMMA OweGo ==
  ASSUME NEW c, NEW S, NEW cur, Owing(c, S, cur), Closed(c, cur), NEW w \in S
  PROVE  Owing(c, S \ {w}, w[3]) /\ ~Terminated(c, w[3])
<1>1. PICK W : W = BlocksOf(S)
  OBVIOUS
<1>2. PICK x : x = w[3]
  OBVIOUS
<1>3. x \in W
  BY <1>1, <1>2 DEF BlocksOf
<1>4. Tidy(c, W \ {x}, x) /\ ~Terminated(c, x)
  BY <1>1, <1>3, TidyGo DEF Owing
<1>5. BlocksOf(S \ {w}) = W \ {x}
  BY <1>1, <1>2 DEF BlocksOf, Owing, OneToOne
<1>6. OneToOne(S \ {w})
  BY DEF Owing, OneToOne
<1> QED BY <1>2, <1>4, <1>5, <1>6 DEF Owing

\* A match before its first case.
NoCaseYet(p, f) == p[f.line].kind = "match" /\ f.part = f.line

HasNext(p, f) == p[f.line].kind \in {"if", "match"} /\ ~NoCaseYet(p, f) /\ NextPart(p, f.part) # 0

Placed(p, i, n, l) == \E j \in i..(n - 1) : p[j].kind = "label" /\ p[j].name = l

Merges(p, s) == {<<"merge", k, s[k].merge>> : k \in {k \in 1..Len(s) : p[s[k].line].kind # "fn"}}
Nexts(p, s) == {<<"next", k, s[k].next>> : k \in {k \in 1..Len(s) : HasNext(p, s[k])}}
Unplaced(p, i, n, t) == {<<"label", l, t[l]>> : l \in {l \in Labels : t[l] # 0 /\ ~Placed(p, i, n, l)}}

\* The functions's labels are met from line i, of the function, on.
LabelsMet(p, i, n, t) == \A l \in Labels :
  /\ t[l] # 0 => \E j \in i..(n - 1) : p[j].kind \in {"goto", "label"} /\ p[j].name = l
  /\ Placed(p, i, n, l) => t[l] # 0

Promises(p, s, n, t) == Merges(p, s) \cup Nexts(p, s) \cup Unplaced(p, s[1].line, n, t)

\* Inside of a function, with the builder in block cur.
Formed(p, s, n, t, c, cur) ==
  /\ Owing(c, Promises(p, s, n, t), cur)
  /\ NoCaseYet(p, s[Len(s)]) => s[Len(s)].next = cur /\ ~Terminated(c, cur)
  /\ LabelsMet(p, s[1].line, n, t)
  /\ n <= Len(p) /\ p[n].depth >= Len(s) => ~Terminated(c, cur)

AllClosed(c) == IsCode(c) /\ \A b \in 1..Len(c) : Closed(c, b)

CloseInv ==
  /\ LateInv /\ (at = 1 => code = <<>>)
  /\ Clean(prog) => IF open = <<>> THEN AllClosed(code)
                    ELSE Formed(prog, open, at, labels, code, block)

NextOf(p, k, f) == IF HasNext(p, f) THEN {<<"next", k, f.next>>} ELSE {}

Shorter(s, t, m) == m \in Nat /\ Len(s) = m + 1 /\ Len(t) = m /\ \A k \in 1..m : t[k] = s[k]

\* A call more.
LEMMA PushMerges ==
  ASSUME NEW p, NEW s, NEW t, NEW m, Shorter(t, s, m), p[t[m + 1].line].kind # "fn"
  PROVE  Merges(p, t) = Merges(p, s) \cup {<<"merge", m + 1, t[m + 1].merge>>}
<1>1. \A k \in 1..(m + 1) : k \in 1..m \/ k = m + 1
  BY DEF Shorter
<1>2. m + 1 \in 1..(m + 1) /\ \A k \in 1..m : k \in 1..(m + 1)
  BY DEF Shorter
<1> QED BY <1>1, <1>2 DEF Merges, Shorter

LEMMA PushNexts ==
  ASSUME NEW p, NEW s, NEW t, NEW m, Shorter(t, s, m)
  PROVE  Nexts(p, t) = Nexts(p, s) \cup NextOf(p, m + 1, t[m + 1])
<1>1. \A k \in 1..(m + 1) : k \in 1..m \/ k = m + 1
  BY DEF Shorter
<1>2. m + 1 \in 1..(m + 1) /\ \A k \in 1..m : k \in 1..(m + 1)
  BY DEF Shorter
<1> QED BY <1>1, <1>2 DEF Nexts, Shorter, NextOf

\* The last call returns.
LEMMA PopMerges ==
  ASSUME NEW p, NEW s, NEW t, NEW m, Shorter(s, t, m)
  PROVE  Merges(p, t) = Merges(p, s) \ {<<"merge", m + 1, s[m + 1].merge>>}
<1>1. \A k \in 1..(m + 1) : k \in 1..m \/ k = m + 1
  BY DEF Shorter
<1>2. \A k \in 1..m : k \in 1..(m + 1) /\ k # m + 1
  BY DEF Shorter
<1> QED BY <1>1, <1>2 DEF Merges, Shorter

LEMMA PopNexts ==
  ASSUME NEW p, NEW s, NEW t, NEW m, Shorter(s, t, m)
  PROVE  Nexts(p, t) = Nexts(p, s) \ {<<"next", m + 1, s[m + 1].next>>}
<1>1. \A k \in 1..(m + 1) : k \in 1..m \/ k = m + 1
  BY DEF Shorter
<1>2. \A k \in 1..m : k \in 1..(m + 1) /\ k # m + 1
  BY DEF Shorter
<1> QED BY <1>1, <1>2 DEF Nexts, Shorter

\* The last call goes on with its next arm.
NextIn(s, t, m) ==
  /\ m \in Nat \ {0} /\ Len(s) = m /\ Len(t) = m /\ \A k \in 1..(m - 1) : t[k] = s[k]
  /\ t[m].line = s[m].line /\ t[m].merge = s[m].merge

LEMMA PartMerges ==
  ASSUME NEW p, NEW s, NEW t, NEW m, NextIn(s, t, m)
  PROVE  Merges(p, t) = Merges(p, s)
<1>1. \A k \in 1..m : k \in 1..(m - 1) \/ k = m
  BY DEF NextIn
<1>2. m \in 1..m /\ \A k \in 1..(m - 1) : k \in 1..m /\ k # m
  BY DEF NextIn
<1> QED BY <1>1, <1>2 DEF Merges, NextIn

LEMMA PartNexts ==
  ASSUME NEW p, NEW s, NEW t, NEW m, NextIn(s, t, m)
  PROVE  Nexts(p, t) = (Nexts(p, s) \ {<<"next", m, s[m].next>>}) \cup NextOf(p, m, t[m])
<1>1. \A k \in 1..m : k \in 1..(m - 1) \/ k = m
  BY DEF NextIn
<1>2. m \in 1..m /\ \A k \in 1..(m - 1) : k \in 1..m /\ k # m
  BY DEF NextIn
<1> QED BY <1>1, <1>2 DEF Nexts, NextIn, NextOf

\* A line that is not a label.
LEMMA NoLabelHere ==
  ASSUME NEW p, NEW i \in Nat, NEW n \in Nat, i <= n, p[n].kind # "label", NEW t
  PROVE  /\ Unplaced(p, i, n + 1, t) = Unplaced(p, i, n, t)
         /\ LabelsMet(p, i, n, t) => LabelsMet(p, i, n + 1, t)
<1>1. \A l : Placed(p, i, n + 1, l) <=> Placed(p, i, n, l)
  <2>1. \A j \in i..((n + 1) - 1) : j \in i..(n - 1) \/ j = n
    OBVIOUS
  <2>2. \A j \in i..(n - 1) : j \in i..((n + 1) - 1)
    OBVIOUS
  <2> QED BY <2>1, <2>2 DEF Placed
<1>2. \A j \in i..(n - 1) : j \in i..((n + 1) - 1)
  OBVIOUS
<1> QED BY <1>1, <1>2 DEF Unplaced, LabelsMet

----------------------------------------------------------------------------
(* Where in the tree that is.                                              *)

\* No line is in the body of a match that has no case yet.
LEMMA NoCaseOnTop ==
  ASSUME NEW p, NEW s, NEW n, Walked(p, s, n), NEW k \in 1..Len(s), NoCaseYet(p, s[k])
  PROVE  k = Len(s) /\ n = s[k].line + 1 /\ (n <= Len(p) => p[n].depth < Len(s))
<1>1. PICK i : i = s[k].line
  OBVIOUS
<1>2. /\ Rooted(p) /\ n \in Nat /\ Len(p) \in Nat /\ n \in 1..(Len(p) + 1) /\ Len(s) \in Nat /\ k \in Nat
      /\ i \in 1..(n - 1) /\ i \in 1..Len(p) /\ p[i].kind = "match" /\ p[i].depth = k - 1
      /\ \A j \in (i + 1)..(n - 1) : p[j].depth >= k
  <2>1. FrameAt(p, s[k], k, n) /\ Rooted(p) /\ n \in 1..(Len(p) + 1) /\ Len(s) \in Nat
    BY DEF Walked
  <2>2. i \in 1..(n - 1) /\ p[i].kind = "match" /\ p[i].depth = k - 1
        /\ \A j \in (i + 1)..(n - 1) : p[j].depth >= k
    BY <1>1, <2>1 DEF FrameAt, NoCaseYet
  <2> QED BY <2>1, <2>2, TreeFacts
<1>3. i + 1 <= Len(p) => p[i + 1].depth \in Nat /\ p[i + 1].depth <= k - 1
  <2>1. "match" \notin Heads
    BY DEF Heads, Parts, IfParts, Cases, Loops
  <2>2. i + 1 <= Len(p) => i + 1 \in 1..Len(p)
    BY <1>2
  <2> QED BY <1>2, <2>1, <2>2, TreeFacts
<1>4. n = i + 1
  <2>1. SUFFICES ASSUME n # i + 1 PROVE FALSE
    OBVIOUS
  <2>2. i + 1 \in (i + 1)..(n - 1) /\ i + 1 <= Len(p)
    BY <1>2, <2>1
  <2>3. p[i + 1].depth >= k
    BY <1>2, <2>2
  <2> QED BY <1>2, <1>3, <2>2, <2>3
<1>5. k = Len(s)
  <2>1. SUFFICES ASSUME k # Len(s) PROVE FALSE
    OBVIOUS
  <2>2. k + 1 \in 1..Len(s) /\ k \in 1..((k + 1) - 1)
    BY <1>2, <2>1
  <2>3. s[k].part < s[k + 1].line
    BY <2>2 DEF Walked
  <2>4. s[k + 1].line \in 1..(n - 1)
    BY <2>2 DEF Walked, FrameAt
  <2>5. s[k].part = i
    BY <1>1 DEF NoCaseYet
  <2>6. PICK x : x = s[k + 1].line
    OBVIOUS
  <2>7. i < x /\ x \in 1..(n - 1) /\ n = i + 1 /\ i \in Nat
    BY <1>2, <1>4, <2>3, <2>4, <2>5, <2>6
  <2> QED BY ONLY <2>7
<1> QED BY <1>1, <1>2, <1>3, <1>4, <1>5

\* The part that follows the one that the innermost call is at.
LEMMA NextIs ==
  ASSUME NEW p, NEW s, NEW n, Walked(p, s, n), Len(s) # 0, n <= Len(p) => p[n].depth < Len(s)
  PROVE  NextPart(p, s[Len(s)].part) =
           IF n <= Len(p) /\ p[n].depth = Len(s) - 1 /\ p[n].kind \in Parts THEN n ELSE 0
<1>1. PICK m : m = Len(s)
  OBVIOUS
<1>2. PICK i : i = s[m].part
  OBVIOUS
<1>3. /\ Rooted(p) /\ n \in Nat /\ Len(p) \in Nat /\ n \in 1..(Len(p) + 1) /\ m \in Nat \ {0}
      /\ i \in 1..(n - 1) /\ i \in 1..Len(p) /\ p[i].depth = m - 1
      /\ \A j \in (i + 1)..(n - 1) : p[j].depth >= m
  <2>1. FrameAt(p, s[m], m, n) /\ Rooted(p) /\ n \in 1..(Len(p) + 1) /\ m \in Nat \ {0}
    BY <1>1 DEF Walked
  <2>2. n \in Nat /\ Len(p) \in Nat
    BY <2>1, TreeFacts
  <2>3. s[m].line \in 1..(n - 1) /\ i \in s[m].line..(n - 1) /\ p[i].depth = m - 1
        /\ \A j \in (i + 1)..(n - 1) : p[j].depth >= m
    BY <1>2, <2>1 DEF FrameAt
  <2> QED BY <2>1, <2>2, <2>3
<1>4. PICK e : e = EndOf(p, i)
  OBVIOUS
<1>5. /\ e \in (i + 1)..(Len(p) + 1)
      /\ e <= Len(p) => p[e].depth <= p[i].depth
      /\ \A k \in (i + 1)..(e - 1) : p[k].depth > p[i].depth
  BY <1>3, <1>4, EndIs, TreeFacts
<1>6. e = n
  <2>1. CASE e < n
    <3>1. e \in (i + 1)..(n - 1) /\ e <= Len(p) /\ e \in 1..Len(p)
      BY <1>3, <1>5, <2>1
    <3>2. p[e].depth >= m /\ p[e].depth \in Nat /\ p[e].depth <= m - 1
      BY <1>3, <1>5, <3>1, TreeFacts
    <3> QED BY <1>3, <3>2
  <2>2. CASE n < e
    <3>1. n \in (i + 1)..(e - 1) /\ n <= Len(p) /\ n \in 1..Len(p)
      BY <1>3, <1>5, <2>2
    <3>2. p[n].depth > m - 1 /\ p[n].depth \in Nat /\ p[n].depth < m
      BY <1>1, <1>3, <1>5, <3>1, TreeFacts
    <3> QED BY <1>3, <3>2
  <2> QED BY <1>3, <1>5, <2>1, <2>2
<1>7. NextPart(p, i) = IF e <= Len(p) /\ p[e].depth = p[i].depth /\ p[e].kind \in Parts THEN e ELSE 0
  BY <1>4 DEF NextPart
<1> QED BY <1>1, <1>2, <1>3, <1>6, <1>7

\* An else is the last arm.
LEMMA ElseIsLast ==
  ASSUME NEW p, Rooted(p), NEW n \in 1..Len(p), p[n].kind = "else"
  PROVE  NextPart(p, n) = 0
<1>1. HasDepths(p) /\ Len(p) \in Nat /\ n \in Nat /\ IsTree(p) /\ p[n].depth \in Nat
  BY TreeFacts DEF Rooted
<1>2. PICK i : i = EndOf(p, n)
  OBVIOUS
<1>3. SUFFICES ASSUME i <= Len(p), p[i].depth = p[n].depth, p[i].kind \in Parts PROVE FALSE
  BY <1>2 DEF NextPart
<1>4. n < i /\ i \in 1..Len(p) /\ i \in Nat /\ \A k \in (n + 1)..(i - 1) : p[k].depth > p[n].depth
  BY <1>1, <1>2, <1>3, EndIs
<1>5. PICK j \in 1..(i - 1) : Peer(p, j, i) /\ p[j].kind # "else"
  <2>1. CASE p[i].kind \in IfParts
    <3>1. PICK j \in 1..(i - 1) : Peer(p, j, i) /\ p[j].kind \in {"if", "elif"}
      BY <1>1, <1>4, <2>1 DEF IsTree
    <3> QED BY <3>1
  <2>2. CASE p[i].kind \in Cases
    <3>1. PICK j \in 1..(i - 1) : Peer(p, j, i) /\ p[j].kind \in {"match"} \cup Cases
      BY <1>1, <1>4, <2>2 DEF IsTree
    <3> QED BY <3>1 DEF Cases
  <2> QED BY <1>3, <2>1, <2>2 DEF Parts
<1>6. p[j].depth = p[i].depth /\ \A k \in (j + 1)..(i - 1) : p[k].depth > p[i].depth
  BY <1>5 DEF Peer
<1>7. CASE j = n
  BY <1>5, <1>7
<1>8. CASE j < n
  <2>1. n \in (j + 1)..(i - 1)
    BY <1>1, <1>4, <1>5, <1>8
  <2> QED BY <1>1, <1>3, <1>6, <2>1
<1>9. CASE n < j
  <2>1. j \in (n + 1)..(i - 1)
    BY <1>1, <1>4, <1>5, <1>9
  <2> QED BY <1>1, <1>3, <1>4, <1>6, <2>1
<1> QED BY <1>1, <1>4, <1>5, <1>7, <1>8, <1>9

\* The lines of the function that the walk is in.
LEMMA InTheFn ==
  ASSUME NEW p, NEW s, NEW n, Walked(p, s, n), Len(s) # 0,
         NEW j \in 1..Len(p), s[1].line < j, j <= n, j = n => p[n].depth # 0
  PROVE  FnOf(p, j) = s[1].line
<1>1. PICK i : i = s[1].line
  OBVIOUS
<1>2. /\ Rooted(p) /\ n \in Nat /\ Len(p) \in Nat /\ Len(s) \in Nat \ {0}
      /\ i \in 1..(n - 1) /\ i \in 1..Len(p) /\ p[i].depth = 0 /\ p[i].kind = "fn"
      /\ \A k \in (i + 1)..(n - 1) : p[k].depth >= 1
  <2>1. FrameAt(p, s[1], 1, n) /\ Rooted(p) /\ n \in 1..(Len(p) + 1) /\ Len(s) \in Nat \ {0}
    <3>1. Len(s) \in Nat \ {0}
      BY DEF Walked
    <3>2. 1 \in 1..Len(s)
      BY <3>1
    <3> QED BY <3>1, <3>2 DEF Walked
  <2>2. n \in Nat /\ Len(p) \in Nat
    BY <2>1, TreeFacts
  <2>3. i \in 1..(n - 1) /\ p[i].depth = 0
    BY <1>1, <2>1 DEF FrameAt
  <2>4. i \in 1..Len(p)
    BY <2>1, <2>2, <2>3
  <2>5. p[i].kind = "fn"
    BY <2>1, <2>3, <2>4 DEF Rooted
  <2>6. s[1].part = i
    BY <1>1, <2>1, <2>5 DEF FrameAt
  <2>7. \A k \in (i + 1)..(n - 1) : p[k].depth >= 1
    BY <2>1, <2>6 DEF FrameAt
  <2> QED BY <2>1, <2>2, <2>3, <2>4, <2>5, <2>7
<1>3. In(p, i, j)
  <2>1. ASSUME NEW k \in (i + 1)..j PROVE p[k].depth > 0
    <3>1. k \in 1..Len(p) /\ (k \in (i + 1)..(n - 1) \/ (k = n /\ j = n))
      BY <1>2
    <3>2. p[k].depth \in Nat
      BY <1>2, <3>1, TreeFacts
    <3>3. p[k].depth # 0
      BY <1>2, <3>1, <3>2
    <3> QED BY <3>2, <3>3
  <2> QED BY <1>1, <1>2, <2>1 DEF In
<1>4. p[j].depth # 0
  <2>1. j \in Nat /\ i \in Nat
    BY <1>2
  <2>2. p[j].depth > 0 /\ p[j].depth \in Nat
    BY <1>2, <1>3, <2>1, InDeeper, TreeFacts
  <2> QED BY <2>2
<1> QED BY <1>1, <1>2, <1>3, <1>4, InOneFn

\* A label is met once.
LEMMA LabelIsNew ==
  ASSUME NEW p, NEW s, NEW n, Walked(p, s, n), Len(s) # 0, n <= Len(p), p[n].depth # 0,
         p[n].kind = "label", LabelsUnique(p)
  PROVE  ~Placed(p, s[1].line, n, p[n].name)
<1>1. SUFFICES ASSUME NEW j \in s[1].line..(n - 1), p[j].kind = "label", p[j].name = p[n].name PROVE FALSE
  BY DEF Placed
<1>2. /\ Rooted(p) /\ n \in 1..Len(p) /\ Len(p) \in Nat /\ 1 \in 1..Len(s)
      /\ s[1].line \in 1..(n - 1) /\ p[s[1].line].depth = 0
  <2>1. Rooted(p) /\ n \in 1..(Len(p) + 1) /\ Len(s) \in Nat \ {0}
    BY DEF Walked
  <2>2. 1 \in 1..Len(s)
    BY <2>1
  <2>3. FrameAt(p, s[1], 1, n)
    BY <2>2 DEF Walked
  <2> QED BY <2>1, <2>2, <2>3, TreeFacts DEF FrameAt
<1>3. p[s[1].line].kind = "fn"
  BY <1>2 DEF Rooted
<1>4. j \in 1..Len(p) /\ s[1].line < j /\ j <= n /\ j # n /\ s[1].line < n /\ n <= n
  <2>1. j # s[1].line
    BY <1>1, <1>3
  <2> QED BY <1>2, <2>1
<1>5. FnOf(p, j) = s[1].line /\ FnOf(p, n) = s[1].line
  BY <1>2, <1>4, InTheFn
<1>6. j \in LabelLines(p, n)
  BY <1>1, <1>4, <1>5 DEF LabelLines
<1> QED BY <1>2, <1>4, <1>6 DEF LabelsUnique

\* At the end of a function all the labels named in it have been met.
LEMMA AllPlaced ==
  ASSUME NEW p, NEW s, NEW n, Walked(p, s, n), Len(s) # 0, n <= Len(p) => p[n].depth = 0,
         LabelsDeclared(p), NEW t, LabelsMet(p, s[1].line, n, t)
  PROVE  Unplaced(p, s[1].line, n, t) = {}
<1>1. SUFFICES ASSUME NEW l \in Labels, t[l] # 0 PROVE Placed(p, s[1].line, n, l)
  BY DEF Unplaced
<1>2. PICK i : i = s[1].line
  OBVIOUS
<1>3. /\ Rooted(p) /\ n \in Nat /\ n \in 1..(Len(p) + 1) /\ Len(p) \in Nat
      /\ i \in 1..(n - 1) /\ i \in 1..Len(p) /\ p[i].depth = 0 /\ p[i].kind = "fn"
  <2>1. Rooted(p) /\ n \in 1..(Len(p) + 1) /\ Len(s) \in Nat \ {0}
    BY DEF Walked
  <2>2. 1 \in 1..Len(s)
    BY <2>1
  <2>3. FrameAt(p, s[1], 1, n)
    BY <2>2 DEF Walked
  <2>4. Len(p) \in Nat /\ n \in Nat /\ i \in 1..(n - 1) /\ p[i].depth = 0
    BY <1>2, <2>1, <2>3, TreeFacts DEF FrameAt
  <2>5. i \in 1..Len(p)
    BY <2>1, <2>4
  <2> QED BY <2>1, <2>4, <2>5 DEF Rooted
<1>4. PICK j \in i..(n - 1) : p[j].kind \in {"goto", "label"} /\ p[j].name = l
  BY <1>1, <1>2 DEF LabelsMet
<1>5. j \in 1..Len(p) /\ i < j /\ j <= n /\ j # n
  <2>1. j # i
    BY <1>3, <1>4
  <2> QED BY <1>3, <2>1
<1>6. FnOf(p, j) = i
  BY <1>2, <1>5, InTheFn
<1>7. CASE p[j].kind = "label"
  BY <1>2, <1>4, <1>7 DEF Placed
<1>8. CASE p[j].kind = "goto"
  <2>1. PICK k \in 1..Len(p) : p[k].kind = "label" /\ p[k].name = l /\ FnOf(p, k) = i
    BY <1>4, <1>5, <1>6, <1>8 DEF LabelsDeclared, LabelLines
  <2>2. p[k].depth # 0
    BY <1>3, <2>1 DEF Rooted
  <2>3. In(p, i, k)
    BY <1>3, <2>1, <2>2, InOneFn
  <2>4. i < k /\ \A x \in (i + 1)..k : p[x].depth > 0
    BY <1>3, <2>3 DEF In
  <2>5. k < n
    <3>1. SUFFICES ASSUME n <= k PROVE FALSE
      BY <1>3
    <3>2. n \in (i + 1)..k /\ n <= Len(p)
      BY <1>3, <3>1
    <3> QED BY <2>4, <3>2
  <2>6. k \in i..(n - 1)
    BY <1>3, <2>4, <2>5
  <2> QED BY <1>2, <2>1, <2>6 DEF Placed
<1> QED BY <1>4, <1>7, <1>8

----------------------------------------------------------------------------
(* The parts of a step.                                                    *)

\* The block of a label, which is created for the first goto or the label.
LabelMade(c, t, x, d, y, u) ==
  /\ d = IF t[x] = 0 THEN NewBlocks(c, 1) ELSE c
  /\ y = IF t[x] = 0 THEN Len(c) + 1 ELSE t[x]
  /\ u = [t EXCEPT ![x] = y]

LEMMA OweLabel ==
  ASSUME NEW c, NEW M, NEW p, NEW i, NEW n, NEW t, NEW N, t \in [Labels -> N], NEW cur,
         Owing(c, M \cup Unplaced(p, i, n, t), cur), LabelsMet(p, i, n, t), NEW x \in Labels,
         NEW d, NEW y, NEW u, LabelMade(c, t, x, d, y, u)
  PROVE  /\ Owing(d, M \cup Unplaced(p, i, n, u), cur)
         /\ Terminated(d, cur) <=> Terminated(c, cur)
<1>1. /\ d = (IF t[x] = 0 THEN NewBlocks(c, 1) ELSE c)
      /\ y = (IF t[x] = 0 THEN Len(c) + 1 ELSE t[x])
      /\ u = [t EXCEPT ![x] = y]
  BY DEF LabelMade
<1>2. u[x] = y /\ \A l \in Labels : l # x => u[l] = t[l]
  BY <1>1
<1>3. CASE t[x] # 0
  <2>1. d = c /\ u = t
    <3>1. d = c /\ y = t[x]
      BY <1>1, <1>3
    <3> QED BY <1>1, <3>1
  <2> QED BY <1>1, <1>3, <2>1
<1>4. CASE t[x] = 0
  <2>1. PICK w : w = <<"label", x, y>>
    OBVIOUS
  <2>2. w[3] = Len(c) + 1 /\ w[2] = x
    BY <1>1, <1>4, <2>1
  <2>3. OneToOne({w}) /\ BlocksOf({w}) = {Len(c) + 1}
    BY <2>2 DEF OneToOne, BlocksOf
  <2>4. PICK S : S = M \cup Unplaced(p, i, n, t)
    OBVIOUS
  <2>5. IsCode(c)
    BY DEF Owing, Tidy
  <2>6. Len(c) \in Nat
    BY <2>5, SequenceLength DEF IsCode
  <2>7. {Len(c) + 1} = (Len(c) + 1)..(Len(c) + 1)
    BY <2>6
  <2>8. Owing(d, S \cup {w}, cur) /\ (Terminated(d, cur) <=> Terminated(c, cur))
    BY <1>1, <1>4, <2>3, <2>4, <2>7, OweMore
  <2>9. ~Placed(p, i, n, x)
    BY <1>4 DEF LabelsMet
  <2>10. y # 0
    BY <1>1, <1>4, <2>6
  <2>11. Unplaced(p, i, n, u) = Unplaced(p, i, n, t) \cup {w}
    <3>1. ASSUME NEW l \in Labels
          PROVE  u[l] # 0 /\ ~Placed(p, i, n, l) <=> (t[l] # 0 /\ ~Placed(p, i, n, l)) \/ l = x
      BY <1>2, <1>4, <2>9, <2>10
    <3>2. \A l \in Labels : t[l] # 0 => l # x /\ u[l] = t[l]
      BY <1>2, <1>4
    <3> QED BY <1>2, <2>1, <3>1, <3>2 DEF Unplaced
  <2> QED BY <1>1, <2>4, <2>8, <2>10, <2>11
<1> QED BY <1>3, <1>4

\* A label is met.
LEMMA LabelHere ==
  ASSUME NEW p, NEW i \in Nat, NEW n \in Nat, i <= n, p[n].kind = "label", NEW t, NEW x, x = p[n].name,
         ~Placed(p, i, n, x), x \in Labels
  PROVE  Unplaced(p, i, n + 1, t) = Unplaced(p, i, n, t) \ {<<"label", x, t[x]>>}
<1>1. \A l : Placed(p, i, n + 1, l) <=> Placed(p, i, n, l) \/ l = x
  <2>1. \A j \in i..((n + 1) - 1) : j \in i..(n - 1) \/ j = n
    OBVIOUS
  <2>2. n \in i..((n + 1) - 1) /\ \A j \in i..(n - 1) : j \in i..((n + 1) - 1)
    OBVIOUS
  <2> QED BY <2>1, <2>2 DEF Placed
<1> QED BY <1>1 DEF Unplaced

\* The labels after a goto or a label.
LEMMA LabelsOn ==
  ASSUME NEW p, NEW i \in Nat, NEW n \in Nat, i <= n, p[n].kind \in {"goto", "label"}, NEW t, NEW u,
         NEW x, x = p[n].name, LabelsMet(p, i, n, t), u[x] # 0, \A l \in Labels : l # x => u[l] = t[l]
  PROVE  LabelsMet(p, i, n + 1, u)
<1>1. \A j \in i..((n + 1) - 1) : j \in i..(n - 1) \/ j = n
  OBVIOUS
<1>2. n \in i..((n + 1) - 1) /\ \A j \in i..(n - 1) : j \in i..((n + 1) - 1)
  OBVIOUS
<1>3. ASSUME NEW l \in Labels, u[l] # 0
      PROVE  \E j \in i..((n + 1) - 1) : p[j].kind \in {"goto", "label"} /\ p[j].name = l
  BY <1>2, <1>3 DEF LabelsMet
<1>4. ASSUME NEW l \in Labels, Placed(p, i, n + 1, l) PROVE u[l] # 0
  <2>1. l = x \/ Placed(p, i, n, l)
    BY <1>1, <1>4 DEF Placed
  <2> QED BY <2>1 DEF LabelsMet
<1> QED BY <1>3, <1>4 DEF LabelsMet

\* The branch to the body of an arm and to the next one, which is to be filled.
LEMMA OweArm ==
  ASSUME NEW c, NEW S, NEW cur, Owing(c, S, cur), ~Terminated(c, cur), NEW i, IsTerminator(i), NEW K,
         \A w \in S : w[1] # "then", NEW k \in {1, 2},
         NEW d, d = Emit(NewBlocks(c, k), cur, i)
  PROVE  /\ Owing(d, S \cup (IF k = 1 THEN {} ELSE {<<"next", K, Len(c) + 2>>}), Len(c) + 1)
         /\ ~Terminated(d, Len(c) + 1)
<1>1. PICK n : n = Len(c)
  OBVIOUS
<1>2. n \in Nat
  <2>1. IsCode(c)
    BY DEF Owing, Tidy
  <2> QED BY <1>1, <2>1, SequenceLength DEF IsCode
<1>3. PICK w : w = <<"then", 0, n + 1>>
  OBVIOUS
<1>4. PICK v : v = <<"next", K, n + 2>>
  OBVIOUS
<1>5. PICK V : V = IF k = 1 THEN {} ELSE {v}
  OBVIOUS
<1>6. w[1] = "then" /\ w[3] = n + 1 /\ v[1] = "next" /\ v[3] = n + 2 /\ w # v
  BY <1>3, <1>4
<1>7. OneToOne({w} \cup V)
  <2>1. \A a \in {w} \cup V : a = w \/ a = v
    BY <1>5
  <2>2. w[3] # v[3]
    BY <1>2, <1>6
  <2> QED BY <2>1, <2>2 DEF OneToOne
<1>8. BlocksOf({w} \cup V) = (n + 1)..(n + k)
  <2>1. CASE k = 1
    <3>1. BlocksOf({w} \cup V) = {n + 1}
      BY <1>5, <1>6, <2>1 DEF BlocksOf
    <3> QED BY <1>2, <2>1, <3>1
  <2>2. CASE k = 2
    <3>1. BlocksOf({w} \cup V) = {n + 1, n + 2}
      BY <1>5, <1>6, <2>2 DEF BlocksOf
    <3>2. {n + 1, n + 2} = (n + 1)..(n + 2)
      BY <1>2
    <3> QED BY <2>2, <3>1, <3>2
  <2> QED BY <2>1, <2>2
<1>9. PICK e : e = NewBlocks(c, k)
  OBVIOUS
<1>10. Owing(e, S \cup ({w} \cup V), cur) /\ ~Terminated(e, cur)
  BY <1>1, <1>7, <1>8, <1>9, OweMore
<1>11. Owing(d, S \cup ({w} \cup V), cur) /\ Closed(d, cur)
  BY <1>9, <1>10, OweEmit
<1>12. w \in S \cup ({w} \cup V)
  OBVIOUS
<1>13. Owing(d, (S \cup ({w} \cup V)) \ {w}, w[3]) /\ ~Terminated(d, w[3])
  BY ONLY <1>11, <1>12, OweGo
<1>14. (S \cup ({w} \cup V)) \ {w} = S \cup V
  BY <1>5, <1>6
<1> QED BY <1>1, <1>4, <1>5, <1>6, <1>13, <1>14

LEMMA Tags ==
  ASSUME NEW p, NEW s, NEW n, NEW t, NEW w \in Promises(p, s, n, t)
  PROVE  w[1] \in {"merge", "next", "label"}
BY DEF Promises, Merges, Nexts, Unplaced

----------------------------------------------------------------------------
(* The steps of the walk over a clean program.                             *)

LEMMA CloseHere ==
  ASSUME CloseInv, Clean(prog), open # <<>>
  PROVE  /\ NamesInv /\ PlaceInv /\ InOrder(prog) /\ ~errors /\ Formed(prog, open, at, labels, code, block)
         /\ Owing(code, Promises(prog, open, at, labels), block)
         /\ LabelsMet(prog, open[1].line, at, labels)
         /\ open[1].line \in Nat /\ open[1].line <= at /\ open[1].line \in 1..Len(prog)
         /\ open[1].line < at /\ prog[open[1].line].depth = 0
<1>1. InOrder(prog) /\ NamesInv /\ ~errors /\ PlaceInv
  BY DEF CloseInv, LateInv, Clean, WellStructured, InOrder, NamesInv
<1>2. Formed(prog, open, at, labels, code, block)
  BY DEF CloseInv
<1>3. Len(open) \in Nat \ {0} /\ Walked(prog, open, at) /\ Rooted(prog) /\ at \in Nat /\ Len(prog) \in Nat
  BY <1>1, TopFacts
<1>4. FrameAt(prog, open[1], 1, at) /\ at \in 1..(Len(prog) + 1)
  <2>1. 1 \in 1..Len(open)
    BY <1>3
  <2> QED BY <1>3, <2>1 DEF Walked
<1>5. PICK i : i = open[1].line
  OBVIOUS
<1>6. i \in 1..(at - 1) /\ prog[i].depth = 1 - 1
  BY <1>4, <1>5 DEF FrameAt
<1>7. i \in Nat /\ i <= at /\ i \in 1..Len(prog) /\ i < at
  BY <1>3, <1>4, <1>6
<1> QED BY <1>1, <1>2, <1>5, <1>6, <1>7 DEF Formed

\* In the body of the innermost call.
LEMMA CloseInside ==
  ASSUME CloseInv, Clean(prog), open # <<>>, InBody
  PROVE  /\ at \in 1..Len(prog) /\ Line = prog[at] /\ prog[at].depth = Len(open) /\ Len(open) \in Nat \ {0}
         /\ ~Terminated(code, block) /\ ~NoCaseYet(prog, Top)
<1>1. PlaceInv /\ ~errors /\ Formed(prog, open, at, labels, code, block)
  BY CloseHere
<1>2. /\ at \in 1..Len(prog) /\ Line = prog[at] /\ prog[at].depth >= Len(open) /\ Len(open) \in Nat \ {0}
      /\ at <= Len(prog) /\ Walked(prog, open, at) /\ prog[at].depth \in Nat /\ Len(open) \in 1..Len(open)
      /\ Top = open[Len(open)]
  BY <1>1, TopFacts
<1>3. prog[at].depth <= Len(open)
  BY <1>2, Deepest
<1>4. ~Terminated(code, block)
  BY <1>1, <1>2 DEF Formed
<1>5. ~NoCaseYet(prog, Top)
  <2>1. SUFFICES ASSUME NoCaseYet(prog, Top) PROVE FALSE
    OBVIOUS
  <2>2. prog[at].depth < Len(open)
    BY <1>2, <2>1, NoCaseOnTop
  <2> QED BY <1>2, <2>2
<1> QED BY <1>2, <1>3, <1>4, <1>5

LEMMA NoStop == ASSUME CloseInv, Clean(prog), StopBody PROVE FALSE
<1>1. open # <<>> /\ InBody /\ Terminated(code, block)
  BY DEF StopBody, StopsAtTerminator, InBody
<1> QED BY <1>1, CloseInside

\* An instruction without a body, that is not a label.
LEMMA ClosePlain ==
  ASSUME CloseInv, Clean(prog), open # <<>>, InBody,
         prog[at].kind \in {"declare", "use", "return", "break", "continue"},
         NEW c, c = code \/ \E i : c = Emit(code, block, i) /\ (IsTerminator(i) => prog[at].kind \in Jumps)
  PROVE  Formed(prog, open, at + 1, labels, c, block)
<1>1. /\ Owing(code, Promises(prog, open, at, labels), block)
      /\ LabelsMet(prog, open[1].line, at, labels)
      /\ open[1].line \in Nat /\ open[1].line <= at
  BY CloseHere
<1>2. /\ at \in 1..Len(prog) /\ prog[at].depth = Len(open) /\ at \in Nat
      /\ ~Terminated(code, block) /\ ~NoCaseYet(prog, open[Len(open)])
  BY CloseInside DEF Top
<1>3. prog[at].kind # "label"
  OBVIOUS
<1>4. /\ Unplaced(prog, open[1].line, at + 1, labels) = Unplaced(prog, open[1].line, at, labels)
      /\ LabelsMet(prog, open[1].line, at + 1, labels)
  BY <1>1, <1>2, <1>3, NoLabelHere
<1>5. PICK S : S = Promises(prog, open, at, labels)
  OBVIOUS
<1>6. Promises(prog, open, at + 1, labels) = S
  BY <1>4, <1>5 DEF Promises
<1>7. Owing(c, S, block) /\ (Terminated(c, block) => prog[at].kind \in Jumps)
  <2>1. CASE c = code
    BY <1>1, <1>2, <1>5, <2>1
  <2>2. CASE \E i : c = Emit(code, block, i) /\ (IsTerminator(i) => prog[at].kind \in Jumps)
    <3>1. PICK i : c = Emit(code, block, i) /\ (IsTerminator(i) => prog[at].kind \in Jumps)
      BY <2>2
    <3> QED BY <1>1, <1>2, <1>5, <3>1, OweEmit
  <2> QED BY <2>1, <2>2
<1>8. ASSUME at + 1 <= Len(prog), prog[at + 1].depth >= Len(open), prog[at].kind \in Jumps PROVE FALSE
  <2>1. NothingAfterJump(prog) /\ Len(prog) \in Nat /\ Rooted(prog) /\ Len(open) \in Nat
    BY CloseHere, TopFacts DEF Clean, WellStructured
  <2>2. at < Len(prog) /\ at + 1 \in 1..Len(prog)
    BY <1>2, <1>8, <2>1
  <2>3. prog[at + 1].depth < Len(open) /\ prog[at + 1].depth \in Nat
    BY <1>2, <1>8, <2>1, <2>2, TreeFacts DEF NothingAfterJump
  <2> QED BY <1>8, <2>1, <2>3
<1> QED BY <1>2, <1>4, <1>6, <1>7, <1>8 DEF Formed

LEMMA LabelNames ==
  ASSUME TypeInv, GotoLabel \/ Label
  PROVE  Line.name \in Labels /\ labels \in [Labels -> 0..Len(code)]
<1>1. Program /\ at <= Len(prog) /\ at \in Nat \ {0}
  BY Counts DEF GotoLabel, Label, Ready, InBody
<1>2. Line \in UNION Vocabularies
  BY <1>1 DEF Program, Line
<1>3. Line.kind \in {"goto", "label"}
  BY DEF GotoLabel, Label, Ready
<1> QED BY <1>2, <1>3, LabelsAssumption DEF TypeInv, BlocksInv

LEMMA CloseLabels ==
  ASSUME CloseInv, Clean(prog), GotoLabel \/ Label
  PROVE  Formed(prog, open, at + 1, labels', code', block')
<1>1. open # <<>> /\ InBody /\ Line.kind \in {"goto", "label"}
  BY DEF GotoLabel, Label, Ready, InBody
<1>2. PICK i : i = open[1].line
  OBVIOUS
<1>3. PICK M : M = Merges(prog, open) \cup Nexts(prog, open)
  OBVIOUS
<1>4. /\ Owing(code, M \cup Unplaced(prog, i, at, labels), block)
      /\ LabelsMet(prog, i, at, labels)
      /\ i \in Nat /\ i <= at /\ TypeInv /\ PlaceInv /\ ~errors
  BY <1>1, <1>2, <1>3, CloseHere DEF Promises, PlaceInv
<1>5. /\ at \in 1..Len(prog) /\ prog[at].depth = Len(open) /\ at \in Nat /\ Line = prog[at]
      /\ ~Terminated(code, block) /\ ~NoCaseYet(prog, open[Len(open)]) /\ Len(open) \in Nat \ {0}
  BY <1>1, CloseInside DEF Top
<1>6. PICK x : x = Line.name
  OBVIOUS
<1>7. x \in Labels /\ labels \in [Labels -> 0..Len(code)]
  BY <1>4, <1>6, LabelNames
<1>8. PICK y : y = LabelBlock
  OBVIOUS
<1>9. PICK d : d = LabelCode
  OBVIOUS
<1>10. PICK u : u = [labels EXCEPT ![x] = y]
  OBVIOUS
<1>11. u[x] = y /\ \A l \in Labels : l # x => u[l] = labels[l]
  BY <1>7, <1>10
<1>12. labels' = u
  BY <1>6, <1>8, <1>10 DEF GotoLabel, Label
<1>13. /\ Owing(d, M \cup Unplaced(prog, i, at, u), block)
       /\ Terminated(d, block) <=> Terminated(code, block)
  <2>1. y = IF labels[x] = 0 THEN Len(code) + 1 ELSE labels[x]
    BY <1>6, <1>8 DEF LabelBlock, Fresh
  <2>2. d = IF labels[x] = 0 THEN NewBlocks(code, 1) ELSE code
    BY <1>6, <1>9 DEF LabelCode
  <2>3. LabelMade(code, labels, x, d, y, u)
    BY <1>10, <2>1, <2>2 DEF LabelMade
  <2> QED BY <1>4, <1>7, <2>3, OweLabel
<1>14. y # 0
  BY <1>4, <1>6, <1>8, Counts DEF LabelBlock, Fresh
<1>15. LabelsMet(prog, i, at + 1, u)
  BY <1>1, <1>4, <1>5, <1>6, <1>11, <1>14, LabelsOn
<1>16. CASE GotoLabel
  <2>1. prog[at].kind = "goto" /\ code' = Emit(d, block, Br(y)) /\ block' = block
    BY <1>5, <1>8, <1>9, <1>16 DEF GotoLabel, Ready
  <2>2. Owing(code', M \cup Unplaced(prog, i, at, u), block)
    BY <1>5, <1>13, <2>1, OweEmit
  <2>3. Unplaced(prog, i, at + 1, u) = Unplaced(prog, i, at, u)
    BY <1>4, <1>5, <2>1, NoLabelHere
  <2>4. Owing(code', Promises(prog, open, at + 1, u), block)
    BY <1>2, <1>3, <2>2, <2>3 DEF Promises
  <2>5. ASSUME at + 1 <= Len(prog), prog[at + 1].depth >= Len(open) PROVE FALSE
    <3>1. NothingAfterJump(prog) /\ Len(prog) \in Nat /\ Rooted(prog)
      BY <1>1, <1>4, TopFacts DEF Clean, WellStructured
    <3>2. at < Len(prog) /\ at + 1 \in 1..Len(prog)
      BY <1>5, <2>5, <3>1
    <3>3. prog[at + 1].depth < Len(open) /\ prog[at + 1].depth \in Nat
      BY <1>5, <2>1, <3>1, <3>2, TreeFacts DEF NothingAfterJump, Jumps
    <3> QED BY <1>5, <2>5, <3>3
  <2> QED BY <1>2, <1>5, <1>12, <1>15, <2>1, <2>4, <2>5 DEF Formed
<1>17. CASE Label
  <2>1. prog[at].kind = "label" /\ code' = EmitUnlessTerminated(d, block, Br(y)) /\ block' = y
    BY <1>5, <1>8, <1>9, <1>17 DEF Label, Ready
  <2>2. IsTerminator(Br(y))
    BY DEF IsTerminator, Br, Instr
  <2>3. PICK c : c = code'
    OBVIOUS
  <2>4. PICK S : S = M \cup Unplaced(prog, i, at, u)
    OBVIOUS
  <2>5. Owing(c, S, block) /\ Closed(c, block)
    BY <1>13, <2>1, <2>2, <2>3, <2>4, OweJoin
  <2>6. ~Placed(prog, i, at, x)
    <3>1. Walked(prog, open, at) /\ Len(open) # 0 /\ at <= Len(prog) /\ prog[at].depth # 0
      BY <1>1, <1>4, <1>5, TopFacts
    <3>2. LabelsUnique(prog)
      BY DEF Clean, WellStructured
    <3> QED BY <1>2, <1>5, <1>6, <2>1, <3>1, <3>2, LabelIsNew
  <2>7. PICK w : w = <<"label", x, y>>
    OBVIOUS
  <2>8. w \in S /\ w[3] = y /\ w[1] = "label"
    BY <1>7, <1>11, <1>14, <2>4, <2>6, <2>7 DEF Unplaced
  <2>9. Owing(c, S \ {w}, y) /\ ~Terminated(c, y)
    BY <2>5, <2>8, OweGo
  <2>10. Unplaced(prog, i, at + 1, u) = Unplaced(prog, i, at, u) \ {w}
    BY <1>4, <1>5, <1>6, <1>7, <1>11, <2>1, <2>6, <2>7, LabelHere
  <2>11. w \notin M
    BY <1>3, <2>8 DEF Merges, Nexts
  <2>12. S \ {w} = Promises(prog, open, at + 1, u)
    BY <1>2, <1>3, <2>4, <2>10, <2>11 DEF Promises
  <2> QED BY <1>2, <1>5, <1>12, <1>15, <2>1, <2>3, <2>9, <2>12 DEF Formed
<1> QED BY <1>16, <1>17

----------------------------------------------------------------------------
\* A function begins.
LEMMA CloseFn ==
  ASSUME CloseInv, Clean(prog), FnDefine
  PROVE  Formed(prog, open', at + 1, labels', code', block')
<1>1. /\ at <= Len(prog) /\ open = <<>> /\ Line.kind = "fn"
      /\ labels' = [l \in Labels |-> 0] /\ code' = NewBlocks(code, 1) /\ block' = Fresh(1)
      /\ open' = <<Frame(0, 0)>>
  BY DEF FnDefine, Walking
<1>2. at \in 1..Len(prog) /\ at \in Nat /\ Line = prog[at]
  BY <1>1, Counts DEF CloseInv, LateInv, NamesInv, PlaceInv, Line
<1>3. AllClosed(code)
  BY <1>1 DEF CloseInv
<1>4. PICK n : n = Len(code)
  OBVIOUS
<1>5. PICK c : c = code'
  OBVIOUS
<1>6. /\ IsCode(c) /\ Len(c) = n + 1 /\ n \in Nat
      /\ \A b \in 1..n : c[b] = code[b]
      /\ c[n + 1] = <<>>
  <2>1. IsCode(code) /\ c = NewBlocks(code, 1)
    BY <1>1, <1>3, <1>5 DEF AllClosed
  <2>2. /\ IsCode(NewBlocks(code, 1)) /\ Len(NewBlocks(code, 1)) = Len(code) + 1 /\ Len(code) \in Nat
        /\ \A b \in 1..Len(code) : NewBlocks(code, 1)[b] = code[b]
        /\ \A b \in (Len(code) + 1)..(Len(code) + 1) : NewBlocks(code, 1)[b] = <<>>
    <3>1. 1 \in Nat /\ IsCode(code)
      BY <2>1
    <3> QED BY ONLY <3>1, MoreBlocks
  <2>3. /\ IsCode(c) /\ Len(c) = n + 1 /\ n \in Nat
        /\ \A b \in 1..n : c[b] = code[b]
        /\ \A b \in (n + 1)..(n + 1) : c[b] = <<>>
    BY ONLY <1>4, <2>1, <2>2
  <2> QED BY ONLY <2>3
<1>7. Straight(c, n + 1) /\ ~Terminated(c, n + 1)
  BY <1>6, EmptyBlock
<1>8. ASSUME NEW b \in 1..(n + 1) PROVE Closed(c, b) \/ (b = n + 1 /\ Straight(c, b))
  <2>1. b \in 1..n \/ b = n + 1
    BY <1>6
  <2>2. b \in 1..n => Closed(c, b)
    BY <1>3, <1>4, <1>6, SameBlock DEF AllClosed
  <2> QED BY <1>7, <2>1, <2>2
<1>9. Owing(c, {}, n + 1)
  <2>1. BlocksOf({}) = {} /\ OneToOne({})
    BY DEF BlocksOf, OneToOne
  <2>2. n + 1 \in (1..Len(c)) \ {}
    BY <1>6
  <2>3. Tidy(c, {}, n + 1)
    BY <1>6, <1>8, <2>2 DEF Tidy
  <2> QED BY <2>1, <2>3 DEF Owing
<1>10. PICK s : s = open'
  OBVIOUS
<1>11. Len(s) = 1 /\ s[1].line = at /\ prog[s[1].line].kind = "fn"
  BY <1>1, <1>2, <1>10 DEF Frame
<1>12. PICK t : t = labels'
  OBVIOUS
<1>13. \A l \in Labels : t[l] = 0
  BY <1>1, <1>12
<1>14. Promises(prog, s, at + 1, t) = {}
  <2>1. \A k \in 1..Len(s) : k = 1
    BY <1>11
  <2>2. Merges(prog, s) = {} /\ Nexts(prog, s) = {}
    BY <1>11, <2>1 DEF Merges, Nexts, HasNext
  <2>3. Unplaced(prog, s[1].line, at + 1, t) = {}
    BY <1>13 DEF Unplaced
  <2> QED BY <2>2, <2>3 DEF Promises
<1>15. LabelsMet(prog, s[1].line, at + 1, t)
  <2>1. ASSUME NEW l \in Labels, Placed(prog, at, at + 1, l) PROVE FALSE
    <3>1. PICK j \in at..((at + 1) - 1) : prog[j].kind = "label"
      BY <2>1 DEF Placed
    <3>2. j = at
      BY <1>2
    <3> QED BY <1>1, <1>2, <3>1, <3>2
  <2> QED BY <1>11, <1>13, <2>1 DEF LabelsMet
<1>16. ~NoCaseYet(prog, s[Len(s)])
  BY <1>11 DEF NoCaseYet
<1>17. block' = n + 1
  BY <1>1, <1>4 DEF Fresh
<1> QED BY <1>5, <1>7, <1>9, <1>10, <1>12, <1>14, <1>15, <1>16, <1>17 DEF Formed

\* A function ends.
LEMMA CloseEndFn ==
  ASSUME CloseInv, Clean(prog), EndFn
  PROVE  open' = <<>> /\ AllClosed(code')
<1>1. /\ open # <<>> /\ ~InBody /\ prog[Top.line].kind = "fn" /\ open' = Pop
      /\ code' = EmitUnlessTerminated(code, block, Instr("ret", Top.line, <<>>))
  BY DEF EndFn
<1>2. /\ PlaceInv /\ ~errors /\ Owing(code, Promises(prog, open, at, labels), block)
      /\ LabelsMet(prog, open[1].line, at, labels)
  BY <1>1, CloseHere
<1>3. Len(open) = 1 /\ Walked(prog, open, at) /\ (at <= Len(prog) => prog[at].depth = 0) /\ Top = open[1]
  <2>1. Len(open) = 1 /\ Walked(prog, open, at) /\ Top = open[Len(open)]
    BY <1>1, <1>2, TopFacts
  <2>2. at <= Len(prog) => prog[at].depth = 0
    <3> HAVE at <= Len(prog)
    <3>1. ~(prog[at].depth >= 1) /\ prog[at].depth \in Nat
      BY <1>1, <1>2, <2>1, TopFacts
    <3> QED BY <3>1
  <2> QED BY <2>1, <2>2
<1>4. Unplaced(prog, open[1].line, at, labels) = {}
  <2>1. LabelsDeclared(prog)
    BY DEF Clean, WellStructured
  <2>2. Walked(prog, open, at) /\ Len(open) # 0 /\ (at <= Len(prog) => prog[at].depth = 0)
        /\ LabelsMet(prog, open[1].line, at, labels)
    BY <1>2, <1>3
  <2> QED BY ONLY <2>1, <2>2, AllPlaced
<1>5. Promises(prog, open, at, labels) = {}
  <2>1. \A k \in 1..Len(open) : k = 1
    BY <1>3
  <2>2. Merges(prog, open) = {} /\ Nexts(prog, open) = {}
    BY <1>1, <1>3, <2>1 DEF Merges, Nexts, HasNext
  <2> QED BY <1>4, <2>2 DEF Promises
<1>6. IsTerminator(Instr("ret", Top.line, <<>>))
  BY DEF IsTerminator, Instr
<1>7. PICK c : c = code'
  OBVIOUS
<1>8. Owing(c, {}, block) /\ Closed(c, block)
  BY <1>1, <1>2, <1>5, <1>6, <1>7, OweJoin
<1>9. AllClosed(c)
  <2>1. BlocksOf({}) = {}
    BY DEF BlocksOf
  <2> QED BY <1>8, <2>1 DEF Owing, Tidy, AllClosed
<1>10. Pop = <<>>
  <2>1. Frames(open)
    BY <1>2, Counts DEF PlaceInv
  <2>2. Frames(Pop) /\ Len(Pop) = Len(open) - 1
    BY <1>1, <2>1, PopFrame DEF Pop
  <2>3. Len(Pop) = 0
    BY <1>3, <2>2
  <2> QED BY <2>2, <2>3 DEF Frames
<1> QED BY <1>1, <1>7, <1>9, <1>10

\* A call is made, with the block where it ends still to be filled.
LEMMA Pushed ==
  ASSUME CloseInv, Clean(prog), open # <<>>, InBody, prog[at].kind \in Loops \cup {"if", "match"},
         NEW f, IsFrame(f), f.line = at, NEW c, NEW b,
         Owing(c, Promises(prog, open, at, labels)
                  \cup ({<<"merge", Len(open) + 1, f.merge>>} \cup NextOf(prog, Len(open) + 1, f)), b),
         ~Terminated(c, b), NoCaseYet(prog, f) => f.next = b
  PROVE  Formed(prog, Append(open, f), at + 1, labels, c, b)
<1>1. PICK m : m = Len(open)
  OBVIOUS
<1>2. PICK i : i = open[1].line
  OBVIOUS
<1>3. LabelsMet(prog, i, at, labels) /\ i \in Nat /\ i <= at /\ PlaceInv
  BY <1>2, CloseHere
<1>4. at \in 1..Len(prog) /\ at \in Nat /\ m \in Nat \ {0}
  BY <1>1, CloseInside
<1>5. PICK s : s = Append(open, f)
  OBVIOUS
<1>6. Len(s) = m + 1 /\ s[m + 1] = f /\ \A k \in 1..m : s[k] = open[k]
  BY <1>1, <1>3, <1>5, Counts, PushFrame DEF PlaceInv
<1>7. Shorter(s, open, m)
  BY <1>1, <1>4, <1>6 DEF Shorter
<1>8. Merges(prog, s) = Merges(prog, open) \cup {<<"merge", m + 1, f.merge>>}
  <2>1. prog[s[m + 1].line].kind # "fn"
    <3>1. prog[at].kind # "fn"
      BY DEF Loops
    <3>2. s[m + 1].line = at
      BY <1>6
    <3> QED BY ONLY <3>1, <3>2
  <2>2. Merges(prog, s) = Merges(prog, open) \cup {<<"merge", m + 1, s[m + 1].merge>>}
    BY ONLY <1>7, <2>1, PushMerges
  <2> QED BY <1>6, <2>2
<1>9. Nexts(prog, s) = Nexts(prog, open) \cup NextOf(prog, m + 1, f)
  <2>1. Nexts(prog, s) = Nexts(prog, open) \cup NextOf(prog, m + 1, s[m + 1])
    BY <1>7, PushNexts
  <2> QED BY <1>6, <2>1
<1>10. /\ Unplaced(prog, i, at + 1, labels) = Unplaced(prog, i, at, labels)
       /\ LabelsMet(prog, i, at + 1, labels)
  <2>1. prog[at].kind # "label"
    BY DEF Loops
  <2> QED BY <1>3, <1>4, <2>1, NoLabelHere
<1>11. s[1] = open[1]
  BY <1>4, <1>6
<1>12. Promises(prog, s, at + 1, labels)
         = Promises(prog, open, at, labels) \cup ({<<"merge", m + 1, f.merge>>} \cup NextOf(prog, m + 1, f))
  BY <1>2, <1>8, <1>9, <1>10, <1>11 DEF Promises
<1>13. Owing(c, Promises(prog, s, at + 1, labels), b)
  BY <1>1, <1>12
<1> QED BY <1>2, <1>5, <1>6, <1>10, <1>11, <1>13 DEF Formed

\* The innermost call goes on to another arm.
LEMMA Armed ==
  ASSUME CloseInv, Clean(prog), open # <<>>, at <= Len(prog), prog[at].kind \in Parts,
         NEW f, IsFrame(f), f.line = Top.line, f.part = at, f.merge = Top.merge, NEW c, NEW b,
         Owing(c, (Promises(prog, open, at, labels) \ {<<"next", Len(open), Top.next>>})
                  \cup NextOf(prog, Len(open), f), b),
         ~Terminated(c, b)
  PROVE  Formed(prog, WithTop(open, f), at + 1, labels, c, b)
<1>1. PICK m : m = Len(open)
  OBVIOUS
<1>2. PICK i : i = open[1].line
  OBVIOUS
<1>3. LabelsMet(prog, i, at, labels) /\ i \in Nat /\ i <= at /\ PlaceInv /\ ~errors
  BY <1>2, CloseHere
<1>4. at \in 1..Len(prog) /\ at \in Nat /\ m \in Nat \ {0} /\ Top = open[m] /\ Top.line < at /\ Top.line \in Nat
  BY <1>1, <1>3, TopFacts
<1>5. PICK s : s = WithTop(open, f)
  OBVIOUS
<1>6. Len(s) = m /\ s[m] = f /\ \A k \in 1..(m - 1) : s[k] = open[k]
  BY <1>1, <1>3, <1>5, Counts, SetFrame DEF PlaceInv
<1>7. NextIn(open, s, m)
  <2>1. s[m].line = open[m].line /\ s[m].merge = open[m].merge
    BY <1>4, <1>6
  <2> QED BY <1>1, <1>4, <1>6, <2>1 DEF NextIn
<1>8. /\ Merges(prog, s) = Merges(prog, open)
      /\ Nexts(prog, s) = (Nexts(prog, open) \ {<<"next", m, Top.next>>}) \cup NextOf(prog, m, f)
  <2>1. Merges(prog, s) = Merges(prog, open)
    BY <1>7, PartMerges
  <2>2. Nexts(prog, s) = (Nexts(prog, open) \ {<<"next", m, open[m].next>>}) \cup NextOf(prog, m, s[m])
    BY <1>7, PartNexts
  <2> QED BY <1>4, <1>6, <2>1, <2>2
<1>9. /\ Unplaced(prog, i, at + 1, labels) = Unplaced(prog, i, at, labels)
      /\ LabelsMet(prog, i, at + 1, labels)
  <2>1. prog[at].kind # "label"
    BY DEF Parts, IfParts, Cases
  <2> QED BY <1>3, <1>4, <2>1, NoLabelHere
<1>10. s[1].line = i
  <2>1. CASE m = 1
    BY <1>2, <1>4, <1>6, <2>1
  <2>2. CASE m # 1
    <3>1. 1 \in 1..(m - 1)
      BY <1>4, <2>2
    <3> QED BY <1>2, <1>6, <3>1
  <2> QED BY <2>1, <2>2
<1>11. <<"next", m, Top.next>> \notin Merges(prog, open) \cup Unplaced(prog, i, at, labels)
  BY DEF Merges, Unplaced
<1>12. Promises(prog, s, at + 1, labels)
         = (Promises(prog, open, at, labels) \ {<<"next", m, Top.next>>}) \cup NextOf(prog, m, f)
  BY <1>2, <1>8, <1>9, <1>10, <1>11 DEF Promises
<1>13. Owing(c, Promises(prog, s, at + 1, labels), b)
  BY <1>1, <1>12
<1>14. ~NoCaseYet(prog, f)
  BY <1>4 DEF NoCaseYet
<1> QED BY <1>5, <1>6, <1>9, <1>10, <1>13, <1>14 DEF Formed

\* The innermost call returns, and the walk goes on in the block where it ends.
LEMMA Popped ==
  ASSUME CloseInv, Clean(prog), open # <<>>, ~InBody, prog[Top.line].kind # "fn", ~HasNext(prog, Top),
         NEW c, Owing(c, Promises(prog, open, at, labels), block), Closed(c, block)
  PROVE  Pop # <<>> /\ Formed(prog, Pop, at, labels, c, Top.merge)
<1>1. PICK m : m = Len(open)
  OBVIOUS
<1>2. PICK i : i = open[1].line
  OBVIOUS
<1>3. LabelsMet(prog, i, at, labels) /\ PlaceInv /\ ~errors
  BY <1>2, CloseHere
<1>4. m \in Nat \ {0} /\ m # 1 /\ Top = open[m] /\ Walked(prog, open, at) /\ at \in Nat
  BY <1>1, <1>3, TopFacts
<1>5. PICK s : s = Pop
  OBVIOUS
<1>6. Len(s) = m - 1 /\ \A k \in 1..(m - 1) : s[k] = open[k]
  <2>1. Len(Pop) = Len(open) - 1 /\ \A k \in 1..(Len(open) - 1) : Pop[k] = open[k]
    BY <1>3, Counts, PopFrame DEF PlaceInv, Pop
  <2> QED BY <1>1, <1>5, <2>1
<1>7. PICK l : l = m - 1
  OBVIOUS
<1>8. l \in Nat /\ m = l + 1 /\ l # 0 /\ l \in 1..m /\ 1 \in 1..l /\ l \in 1..l
  BY <1>4, <1>7
<1>9. /\ Merges(prog, s) = Merges(prog, open) \ {<<"merge", m, Top.merge>>}
      /\ Nexts(prog, s) = Nexts(prog, open) \ {<<"next", m, Top.next>>}
  <2>1. Len(open) = l + 1 /\ Len(s) = l /\ \A k \in 1..l : s[k] = open[k]
    BY <1>1, <1>6, <1>7, <1>8
  <2>2. Shorter(open, s, l)
    BY <1>8, <2>1 DEF Shorter
  <2>3. Merges(prog, s) = Merges(prog, open) \ {<<"merge", l + 1, open[l + 1].merge>>}
    BY <2>2, PopMerges
  <2>4. Nexts(prog, s) = Nexts(prog, open) \ {<<"next", l + 1, open[l + 1].next>>}
    BY <2>2, PopNexts
  <2> QED BY <1>4, <1>8, <2>3, <2>4
<1>10. PICK w : w = <<"merge", m, Top.merge>>
  OBVIOUS
<1>11. w \in Merges(prog, open) /\ w[1] = "merge" /\ w[3] = Top.merge
  <2>1. m \in 1..Len(open) /\ prog[open[m].line].kind # "fn"
    BY <1>1, <1>4
  <2> QED BY <1>4, <1>10, <2>1 DEF Merges
<1>12. <<"next", m, Top.next>> \notin Nexts(prog, open)
  <2>1. SUFFICES ASSUME NEW k \in 1..Len(open), HasNext(prog, open[k]), k = m PROVE FALSE
    BY DEF Nexts
  <2> QED BY <1>4, <2>1
<1>13. s[1].line = i
  BY <1>2, <1>6, <1>7, <1>8
<1>14. PICK S : S = Promises(prog, open, at, labels)
  OBVIOUS
<1>15. Promises(prog, s, at, labels) = S \ {w}
  <2>1. w \notin Nexts(prog, open) \cup Unplaced(prog, i, at, labels)
    BY <1>11 DEF Nexts, Unplaced
  <2> QED BY <1>2, <1>9, <1>10, <1>12, <1>13, <1>14, <2>1 DEF Promises
<1>16. Owing(c, S \ {w}, Top.merge) /\ ~Terminated(c, Top.merge)
  <2>1. w \in S /\ Owing(c, S, block)
    BY <1>11, <1>14 DEF Promises
  <2> QED BY <1>11, <2>1, OweGo
<1>17. ~NoCaseYet(prog, s[Len(s)])
  <2>1. SUFFICES ASSUME NoCaseYet(prog, s[Len(s)]) PROVE FALSE
    OBVIOUS
  <2>2. NoCaseYet(prog, open[l]) /\ l \in 1..Len(open)
    BY <1>1, <1>6, <1>7, <1>8, <2>1
  <2>3. l = Len(open)
    BY <1>4, <2>2, NoCaseOnTop
  <2> QED BY <1>1, <1>8, <2>3
<1>18. s # <<>>
  BY <1>6, <1>7, <1>8
<1> QED BY <1>3, <1>5, <1>13, <1>15, <1>16, <1>17, <1>18 DEF Formed

----------------------------------------------------------------------------
\* Loops.
LEMMA CloseLoop ==
  ASSUME CloseInv, Clean(prog), Loop
  PROVE  open' # <<>> /\ at' = at + 1 /\ Formed(prog, open', at + 1, labels, code', block')
<1>1. PICK kind, before, i :
        /\ kind \in Loops /\ Ready(kind)
        /\ before = code \/ before = Emit(code, block, Instr("init", at, <<>>))
        /\ kind = "while" => Known
        /\ code' = Emit(Emit(NewBlocks(before, 3), block, Br(Fresh(1))), Fresh(1), i)
        /\ IsTerminator(i) /\ block' = Fresh(2)
        /\ open' = Append(open, Frame(Fresh(3), Fresh(1))) /\ at' = at + 1
  <2>1. PICK kind \in Loops :
          /\ Ready(kind)
          /\ IF kind = "while" /\ ~Known THEN TRUE
             ELSE /\ code' = Emit(Emit(NewBlocks(IF kind = "for" THEN Emit(code, block, Instr("init", at, <<>>)) ELSE code, 3),
                                       block, Br(Fresh(1))), Fresh(1),
                                  IF kind \in {"while", "for"} THEN CondBr(at, Fresh(2), Fresh(3)) ELSE Br(Fresh(2)))
                  /\ block' = Fresh(2)
                  /\ open' = Append(open, Frame(Fresh(3), Fresh(1)))
                  /\ at' = at + 1
    BY DEF Loop, Next1
  <2>2. open # <<>> /\ InBody /\ Line.kind = kind /\ at <= Len(prog)
    BY <2>1 DEF Ready, InBody
  <2>3. kind = "while" => Known
    <3> HAVE kind = "while"
    <3>1. NamesInv /\ InOrder(prog) /\ ~errors /\ ReadsName(prog, at)
      BY <2>2, CloseHere DEF ReadsName, Line
    <3> QED BY <2>2, <3>1, KnownNames
  <2>4. PICK before : before = IF kind = "for" THEN Emit(code, block, Instr("init", at, <<>>)) ELSE code
    OBVIOUS
  <2>5. PICK i : i = IF kind \in {"while", "for"} THEN CondBr(at, Fresh(2), Fresh(3)) ELSE Br(Fresh(2))
    OBVIOUS
  <2>6. IsTerminator(i)
    BY <2>5 DEF IsTerminator, CondBr, Br, Instr
  <2>7. ~(kind = "while" /\ ~Known)
    BY <2>3
  <2>8. /\ code' = Emit(Emit(NewBlocks(before, 3), block, Br(Fresh(1))), Fresh(1), i)
        /\ block' = Fresh(2)
        /\ open' = Append(open, Frame(Fresh(3), Fresh(1)))
        /\ at' = at + 1
    BY <2>1, <2>4, <2>5, <2>7
  <2>9. before = code \/ before = Emit(code, block, Instr("init", at, <<>>))
    BY <2>4
  <2> QED BY <2>1, <2>3, <2>6, <2>8, <2>9
<1>2. InBody /\ open # <<>> /\ Line.kind = kind
  BY <1>1 DEF Ready, InBody
<1>3. PICK m : m = Len(open)
  OBVIOUS
<1>4. PICK S : S = Promises(prog, open, at, labels)
  OBVIOUS
<1>5. PICK n : n = Len(code)
  OBVIOUS
<1>6. Owing(code, S, block) /\ ~Terminated(code, block) /\ prog[at].kind = kind /\ n \in Nat
  BY <1>2, <1>4, <1>5, CloseHere, CloseInside, Counts DEF PlaceInv
<1>7. Owing(before, S, block) /\ ~Terminated(before, block) /\ Len(before) = n
  <2>1. ~IsTerminator(Instr("init", at, <<>>))
    BY DEF IsTerminator, Instr
  <2> QED BY <1>1, <1>5, <1>6, <2>1, OweEmit
<1>8. PICK u, v, w : u = <<"head", 0, n + 1>> /\ v = <<"body", 0, n + 2>> /\ w = <<"merge", m + 1, n + 3>>
  OBVIOUS
<1>9. /\ u[1] = "head" /\ u[3] = n + 1 /\ v[1] = "body" /\ v[3] = n + 2
      /\ w[1] = "merge" /\ w[3] = n + 3
  BY <1>8
<1>10. PICK T : T = {u, v, w}
  OBVIOUS
<1>11. OneToOne(T) /\ BlocksOf(T) = (n + 1)..(n + 3)
  <2>1. \A a, b \in T : a[3] = b[3] => a = b
    BY <1>6, <1>9, <1>10
  <2>2. BlocksOf(T) = {n + 1, n + 2, n + 3}
    BY <1>9, <1>10 DEF BlocksOf
  <2>3. {n + 1, n + 2, n + 3} = (n + 1)..(n + 3)
    BY <1>6
  <2> QED BY <2>1, <2>2, <2>3 DEF OneToOne
<1>12. PICK c : c = NewBlocks(before, 3)
  OBVIOUS
<1>13. Owing(c, S \cup T, block) /\ ~Terminated(c, block)
  BY <1>7, <1>11, <1>12, OweMore
<1>14. PICK d : d = Emit(c, block, Br(Fresh(1)))
  OBVIOUS
<1>15. Owing(d, S \cup T, block) /\ Closed(d, block)
  <2>1. IsTerminator(Br(Fresh(1)))
    BY DEF IsTerminator, Br, Instr
  <2> QED BY <1>13, <1>14, <2>1, OweEmit
<1>16. Owing(d, (S \cup T) \ {u}, n + 1) /\ ~Terminated(d, n + 1)
  <2>1. u \in S \cup T
    BY <1>10
  <2>2. Owing(d, (S \cup T) \ {u}, u[3]) /\ ~Terminated(d, u[3])
    BY ONLY <1>15, <2>1, OweGo
  <2> QED BY <1>9, <2>2
<1>17. PICK e : e = Emit(d, n + 1, i)
  OBVIOUS
<1>18. Owing(e, (S \cup T) \ {u}, n + 1) /\ Closed(e, n + 1)
  BY <1>1, <1>16, <1>17, OweEmit
<1>19. Owing(e, ((S \cup T) \ {u}) \ {v}, n + 2) /\ ~Terminated(e, n + 2)
  <2>1. v \in (S \cup T) \ {u}
    BY <1>9, <1>10
  <2>2. Owing(e, ((S \cup T) \ {u}) \ {v}, v[3]) /\ ~Terminated(e, v[3])
    BY ONLY <1>18, <2>1, OweGo
  <2> QED BY <1>9, <2>2
<1>20. ((S \cup T) \ {u}) \ {v} = S \cup {w}
  <2>1. u \notin S /\ v \notin S
    BY <1>4, <1>9, Tags
  <2> QED BY <1>9, <1>10, <2>1
<1>21. e = code' /\ block' = n + 2
  BY <1>1, <1>5, <1>12, <1>14, <1>17 DEF Fresh
<1>22. PICK f : f = Frame(Fresh(3), Fresh(1))
  OBVIOUS
<1>23. IsFrame(f) /\ f.line = at /\ f.merge = n + 3
  BY <1>5, <1>22 DEF Frame, IsFrame, Fresh
<1>24. ~NoCaseYet(prog, f) /\ NextOf(prog, m + 1, f) = {}
  <2>1. prog[f.line].kind \notin {"if", "match"}
    BY <1>1, <1>6, <1>23 DEF Loops
  <2>2. ~NoCaseYet(prog, f) /\ ~HasNext(prog, f)
    BY <2>1 DEF NoCaseYet, HasNext
  <2> QED BY <2>2 DEF NextOf
<1>25. Owing(e, S \cup ({<<"merge", m + 1, f.merge>>} \cup NextOf(prog, m + 1, f)), n + 2)
  <2>1. w = <<"merge", m + 1, f.merge>>
    BY <1>8, <1>23
  <2>2. S \cup ({w} \cup NextOf(prog, m + 1, f)) = S \cup {w}
    BY <1>24
  <2> QED BY <1>19, <1>20, <2>1, <2>2
<1>26. prog[at].kind \in Loops \cup {"if", "match"}
  BY <1>1, <1>6
<1>27. Formed(prog, Append(open, f), at + 1, labels, e, n + 2)
  BY <1>2, <1>3, <1>4, <1>19, <1>23, <1>24, <1>25, <1>26, Pushed
<1>28. Append(open, f) # <<>>
  BY <1>2, <1>23, CloseHere, Counts, PushFrame DEF PlaceInv, Frames
<1> QED BY <1>1, <1>21, <1>22, <1>27, <1>28

LEMMA CloseEndLoop ==
  ASSUME CloseInv, Clean(prog), EndLoop
  PROVE  open' # <<>> /\ Formed(prog, open', at, labels, code', block')
<1>1. /\ open # <<>> /\ ~InBody /\ prog[Top.line].kind \in Loops
      /\ IF Terminated(code, block) THEN code' = code
         ELSE code' = BackEdge(prog[Top.line].kind, prog[Top.line].name)
      /\ block' = exit /\ open' = Pop
  BY DEF EndLoop
<1>2. Owing(code, Promises(prog, open, at, labels), block) /\ TypeInv
  BY <1>1, CloseHere DEF PlaceInv
<1>3. PICK S : S = Promises(prog, open, at, labels)
  OBVIOUS
<1>4. PICK c : c = code'
  OBVIOUS
<1>5. \A b : IsTerminator(Br(b))
  BY DEF IsTerminator, Br, Instr
<1>6. \A l, y, x : IsTerminator(CondBr(l, y, x))
  BY DEF IsTerminator, CondBr, Instr
<1>7. Owing(c, S, block) /\ Closed(c, block)
  <2>1. CASE Terminated(code, block)
    <3>1. IsSequence(code[block]) /\ (Closed(code, block) \/ Straight(code, block))
      BY <1>2 DEF Owing, Tidy, IsCode
    <3> QED BY <1>1, <1>2, <1>3, <1>4, <2>1, <3>1, OpenBlock
  <2>2. CASE ~Terminated(code, block)
    <3>1. \/ \E i : c = Emit(code, block, i) /\ IsTerminator(i)
          \/ c = Emit(Emit(code, block, Instr("step", Top.line, <<>>)), block, Br(header))
      BY <1>1, <1>4, <1>5, <1>6, <2>2 DEF BackEdge
    <3>2. CASE \E i : c = Emit(code, block, i) /\ IsTerminator(i)
      BY <1>2, <1>3, <2>2, <3>2, OweEmit
    <3>3. CASE c = Emit(Emit(code, block, Instr("step", Top.line, <<>>)), block, Br(header))
      <4>1. PICK d : d = Emit(code, block, Instr("step", Top.line, <<>>))
        OBVIOUS
      <4>2. ~IsTerminator(Instr("step", Top.line, <<>>))
        BY DEF IsTerminator, Instr
      <4>3. Owing(d, S, block) /\ ~Terminated(d, block)
        BY <1>2, <1>3, <2>2, <4>1, <4>2, OweEmit
      <4> QED BY <1>5, <3>3, <4>1, <4>3, OweEmit
    <3> QED BY <3>1, <3>2, <3>3
  <2> QED BY <2>1, <2>2
<1>8. exit = Top.merge
  BY <1>1, <1>2, Innermost
<1>9. prog[Top.line].kind # "fn" /\ ~HasNext(prog, Top)
  BY <1>1 DEF Loops, HasNext
<1>10. Pop # <<>> /\ Formed(prog, Pop, at, labels, c, Top.merge)
  BY <1>1, <1>3, <1>7, <1>9, Popped
<1> QED BY <1>1, <1>4, <1>8, <1>10

----------------------------------------------------------------------------
(* if, match and their arms.                                               *)

\* The number of blocks of an arm: its own, and the next one's if there is one.
ArmBlocks == IF NextPart(prog, at) = 0 THEN 1 ELSE 2

LEMMA ArmIs ==
  ASSUME NEW c, NEW b, NEW merge
  PROVE  /\ Arm(c, b, merge).then = Len(c) + 1
         /\ NextPart(prog, at) # 0 => Arm(c, b, merge).else = Len(c) + 2
         /\ \E i : IsTerminator(i) /\ Arm(c, b, merge).code = Emit(NewBlocks(c, ArmBlocks), b, i)
<1>1. PICK e : e = IF NextPart(prog, at) = 0 THEN merge ELSE Len(c) + 2
  OBVIOUS
<1>2. PICK i : i = CondBr(at, Len(c) + 1, e)
  OBVIOUS
<1>3. Arm(c, b, merge) = [code |-> Emit(NewBlocks(c, ArmBlocks), b, i), then |-> Len(c) + 1, else |-> e]
  BY <1>1, <1>2 DEF Arm, ArmBlocks
<1>4. IsTerminator(i)
  BY <1>2 DEF IsTerminator, CondBr, Instr
<1> QED BY <1>1, <1>3, <1>4

LEMMA CloseIf ==
  ASSUME CloseInv, Clean(prog), If
  PROVE  open' # <<>> /\ at' = at + 1 /\ Formed(prog, open', at + 1, labels, code', block')
<1>1. InBody /\ open # <<>> /\ Line.kind = "if" /\ at <= Len(prog)
  BY DEF If, Ready, InBody
<1>2. Known
  <2>1. NamesInv /\ InOrder(prog) /\ ~errors /\ ReadsName(prog, at)
    BY <1>1, CloseHere DEF ReadsName, Line
  <2> QED BY <1>1, <2>1, KnownNames
<1>3. PICK n : n = Len(code)
  OBVIOUS
<1>4. PICK c : c = NewBlocks(code, 1)
  OBVIOUS
<1>5. PICK arm : arm = Arm(c, block, n + 1)
  OBVIOUS
<1>6. /\ code' = arm.code /\ block' = arm.then /\ at' = at + 1
      /\ open' = Append(open, Frame(n + 1, arm.else))
  BY <1>2, <1>3, <1>4, <1>5 DEF If, Fresh, Next1
<1>7. PICK m : m = Len(open)
  OBVIOUS
<1>8. PICK S : S = Promises(prog, open, at, labels)
  OBVIOUS
<1>9. Owing(code, S, block) /\ ~Terminated(code, block) /\ prog[at].kind = "if" /\ n \in Nat
  BY <1>1, <1>3, <1>8, CloseHere, CloseInside, Counts DEF PlaceInv
<1>10. PICK w : w = <<"merge", m + 1, n + 1>>
  OBVIOUS
<1>11. w[1] = "merge" /\ w[3] = n + 1
  BY <1>10
<1>12. PICK T : T = S \cup {w}
  OBVIOUS
<1>13. Owing(c, T, block) /\ ~Terminated(c, block) /\ Len(c) = n + 1
  <2>1. OneToOne({w}) /\ BlocksOf({w}) = {n + 1}
    BY <1>11 DEF OneToOne, BlocksOf
  <2>2. {n + 1} = (n + 1)..(n + 1)
    BY <1>9
  <2> QED BY <1>3, <1>4, <1>9, <1>12, <2>1, <2>2, OweMore
<1>14. PICK k : k = ArmBlocks
  OBVIOUS
<1>15. k \in {1, 2} /\ (k = 1 <=> NextPart(prog, at) = 0)
  BY <1>14 DEF ArmBlocks
<1>16. PICK d : d = code'
  OBVIOUS
<1>17. PICK i : IsTerminator(i) /\ d = Emit(NewBlocks(c, k), block, i)
  BY <1>5, <1>6, <1>14, <1>16, ArmIs
<1>18. \A v \in T : v[1] # "then"
  BY <1>8, <1>11, <1>12, Tags
<1>19. PICK V : V = IF k = 1 THEN {} ELSE {<<"next", m + 1, Len(c) + 2>>}
  OBVIOUS
<1>20. Owing(d, T \cup V, Len(c) + 1) /\ ~Terminated(d, Len(c) + 1)
  BY ONLY <1>13, <1>15, <1>17, <1>18, <1>19, OweArm
<1>21. PICK f : f = Frame(n + 1, arm.else)
  OBVIOUS
<1>22. IsFrame(f) /\ f.line = at /\ f.part = at /\ f.merge = n + 1 /\ f.next = arm.else
  BY <1>21 DEF Frame, IsFrame
<1>23. ~NoCaseYet(prog, f) /\ (HasNext(prog, f) <=> k # 1)
  BY <1>9, <1>15, <1>22 DEF NoCaseYet, HasNext
<1>24. NextOf(prog, m + 1, f) = V
  <2>1. k # 1 => f.next = Len(c) + 2
    BY <1>5, <1>15, <1>22, ArmIs
  <2> QED BY <1>19, <1>23, <2>1 DEF NextOf
<1>25. Owing(d, S \cup ({<<"merge", m + 1, f.merge>>} \cup NextOf(prog, m + 1, f)), Len(c) + 1)
  <2>1. S \cup ({w} \cup V) = T \cup V
    BY <1>12
  <2> QED BY <1>10, <1>20, <1>22, <1>24, <2>1
<1>26. Formed(prog, Append(open, f), at + 1, labels, d, Len(c) + 1)
  BY <1>1, <1>7, <1>8, <1>9, <1>20, <1>22, <1>23, <1>25, Pushed
<1>27. arm.then = Len(c) + 1
  BY <1>5, ArmIs
<1>28. Append(open, f) # <<>>
  BY <1>1, <1>22, CloseHere, Counts, PushFrame DEF PlaceInv, Frames
<1> QED BY <1>6, <1>16, <1>21, <1>26, <1>27, <1>28

LEMMA CloseMatch ==
  ASSUME CloseInv, Clean(prog), Match
  PROVE  open' # <<>> /\ at' = at + 1 /\ Formed(prog, open', at + 1, labels, code', block')
<1>1. InBody /\ open # <<>> /\ Line.kind = "match" /\ at <= Len(prog)
  BY DEF Match, Ready, InBody
<1>2. Known
  <2>1. NamesInv /\ InOrder(prog) /\ ~errors /\ ReadsName(prog, at)
    BY <1>1, CloseHere DEF ReadsName, Line
  <2> QED BY <1>1, <2>1, KnownNames
<1>3. PICK n : n = Len(code)
  OBVIOUS
<1>4. /\ code' = NewBlocks(code, 1) /\ block' = block /\ at' = at + 1
      /\ open' = Append(open, Frame(n + 1, block))
  BY <1>2, <1>3 DEF Match, Fresh, Next1
<1>5. PICK m : m = Len(open)
  OBVIOUS
<1>6. PICK S : S = Promises(prog, open, at, labels)
  OBVIOUS
<1>7. Owing(code, S, block) /\ ~Terminated(code, block) /\ prog[at].kind = "match" /\ n \in Nat
  BY <1>1, <1>3, <1>6, CloseHere, CloseInside, Counts DEF PlaceInv
<1>8. PICK w : w = <<"merge", m + 1, n + 1>>
  OBVIOUS
<1>9. w[3] = n + 1
  BY <1>8
<1>10. PICK c : c = code'
  OBVIOUS
<1>11. Owing(c, S \cup {w}, block) /\ ~Terminated(c, block)
  <2>1. OneToOne({w}) /\ BlocksOf({w}) = {n + 1}
    BY <1>9 DEF OneToOne, BlocksOf
  <2>2. {n + 1} = (n + 1)..(n + 1)
    BY <1>7
  <2> QED BY <1>3, <1>4, <1>7, <1>10, <2>1, <2>2, OweMore
<1>12. PICK f : f = Frame(n + 1, block)
  OBVIOUS
<1>13. IsFrame(f) /\ f.line = at /\ f.part = at /\ f.merge = n + 1 /\ f.next = block
  BY <1>12 DEF Frame, IsFrame
<1>14. NextOf(prog, m + 1, f) = {}
  BY <1>7, <1>13 DEF NoCaseYet, HasNext, NextOf
<1>15. Owing(c, S \cup ({<<"merge", m + 1, f.merge>>} \cup NextOf(prog, m + 1, f)), block)
  BY <1>8, <1>11, <1>13, <1>14
<1>16. Formed(prog, Append(open, f), at + 1, labels, c, block)
  BY <1>1, <1>5, <1>6, <1>7, <1>11, <1>13, <1>15, Pushed
<1>17. Append(open, f) # <<>>
  BY <1>1, <1>13, CloseHere, Counts, PushFrame DEF PlaceInv, Frames
<1> QED BY <1>4, <1>10, <1>12, <1>16, <1>17

\* The arm before line at is joined to the end, and the walk goes on with the
\* block of the next one.
LEMMA NextArmOwes ==
  ASSUME CloseInv, Clean(prog), open # <<>>, at <= Len(prog),
         Line.depth = prog[Top.line].depth, Line.kind \in Parts,
         prog[Top.line].kind \in {"if", "match"}, ~NoCaseYet(prog, Top)
  PROVE  /\ Owing(Joined, Promises(prog, open, at, labels) \ {<<"next", Len(open), Top.next>>}, Top.next)
         /\ ~Terminated(Joined, Top.next)
<1>1. PICK m : m = Len(open)
  OBVIOUS
<1>2. PICK S : S = Promises(prog, open, at, labels)
  OBVIOUS
<1>3. Owing(code, S, block) /\ PlaceInv /\ ~errors
  BY <1>2, CloseHere
<1>4. /\ m \in Nat \ {0} /\ Top = open[m] /\ Walked(prog, open, at) /\ at \in Nat /\ Line = prog[at]
      /\ prog[Top.line].depth = m - 1 /\ at # 0
  BY <1>1, <1>3, TopFacts
<1>5. NextPart(prog, Top.part) = at
  BY <1>1, <1>4, NextIs
<1>6. HasNext(prog, Top)
  BY <1>4, <1>5 DEF HasNext
<1>7. PICK w : w = <<"next", m, Top.next>>
  OBVIOUS
<1>8. w \in S /\ w[3] = Top.next
  <2>1. m \in 1..Len(open)
    BY <1>1, <1>4
  <2> QED BY <1>2, <1>4, <1>6, <1>7, <2>1 DEF Promises, Nexts
<1>9. IsTerminator(Br(Top.merge))
  BY DEF IsTerminator, Br, Instr
<1>10. PICK c : c = Joined
  OBVIOUS
<1>11. Owing(c, S, block) /\ Closed(c, block)
  BY <1>3, <1>9, <1>10, OweJoin DEF Joined
<1>12. Owing(c, S \ {w}, w[3]) /\ ~Terminated(c, w[3])
  BY ONLY <1>8, <1>11, OweGo
<1> QED BY <1>1, <1>2, <1>7, <1>8, <1>10, <1>12

LEMMA StillOpen ==
  ASSUME CloseInv, Clean(prog), open # <<>>, NEW f, IsFrame(f)
  PROVE  WithTop(open, f) # <<>>
<1>1. Frames(open)
  <2>1. TypeInv
    BY CloseHere DEF PlaceInv
  <2> QED BY <2>1, Counts
<1>2. Len(WithTop(open, f)) = Len(open)
  BY <1>1, SetFrame
<1>3. Len(open) # 0
  BY <1>1 DEF Frames
<1> QED BY <1>2, <1>3

LEMMA CloseElseIf ==
  ASSUME CloseInv, Clean(prog), ElseIf
  PROVE  open' # <<>> /\ at' = at + 1 /\ Formed(prog, open', at + 1, labels, code', block')
<1>1. /\ open # <<>> /\ at <= Len(prog) /\ prog[Top.line].kind = "if"
      /\ Line.depth = prog[Top.line].depth /\ Line.kind \in Parts /\ Line.kind = "elif" /\ Line = prog[at]
  BY DEF ElseIf, AtPart, Line
<1>2. Known
  <2>1. NamesInv /\ InOrder(prog) /\ ~errors /\ ReadsName(prog, at)
    BY <1>1, CloseHere DEF ReadsName
  <2> QED BY <1>1, <2>1, KnownNames
<1>3. PICK c : c = Joined
  OBVIOUS
<1>4. PICK b : b = Top.next
  OBVIOUS
<1>5. PICK arm : arm = Arm(c, b, Top.merge)
  OBVIOUS
<1>6. PICK f : f = AtArm(arm.else, Top.dflt)
  OBVIOUS
<1>7. code' = arm.code /\ block' = arm.then /\ at' = at + 1 /\ open' = WithTop(open, f)
  BY <1>2, <1>3, <1>4, <1>5, <1>6 DEF ElseIf, Next1, WithTop
<1>8. PICK m : m = Len(open)
  OBVIOUS
<1>9. PICK S : S = Promises(prog, open, at, labels) \ {<<"next", m, Top.next>>}
  OBVIOUS
<1>10. ~NoCaseYet(prog, Top)
  BY <1>1 DEF NoCaseYet
<1>11. Owing(c, S, b) /\ ~Terminated(c, b)
  <2>1. prog[Top.line].kind \in {"if", "match"}
    BY <1>1
  <2> QED BY <1>1, <1>3, <1>4, <1>8, <1>9, <1>10, <2>1, NextArmOwes
<1>12. PICK k : k = ArmBlocks
  OBVIOUS
<1>13. k \in {1, 2} /\ (k = 1 <=> NextPart(prog, at) = 0)
  BY <1>12 DEF ArmBlocks
<1>14. PICK d : d = code'
  OBVIOUS
<1>15. PICK i : IsTerminator(i) /\ d = Emit(NewBlocks(c, k), b, i)
  BY <1>5, <1>7, <1>12, <1>14, ArmIs
<1>16. \A v \in S : v[1] # "then"
  BY <1>9, Tags
<1>17. PICK V : V = IF k = 1 THEN {} ELSE {<<"next", m, Len(c) + 2>>}
  OBVIOUS
<1>18. Owing(d, S \cup V, Len(c) + 1) /\ ~Terminated(d, Len(c) + 1)
  BY ONLY <1>11, <1>13, <1>15, <1>16, <1>17, OweArm
<1>19. IsFrame(f) /\ f.line = Top.line /\ f.part = at /\ f.merge = Top.merge /\ f.next = arm.else
  BY <1>6 DEF AtArm, IsFrame
<1>20. HasNext(prog, f) <=> k # 1
  BY <1>1, <1>13, <1>19 DEF NoCaseYet, HasNext
<1>21. NextOf(prog, m, f) = V
  <2>1. k # 1 => f.next = Len(c) + 2
    BY <1>5, <1>13, <1>19, ArmIs
  <2> QED BY <1>17, <1>20, <2>1 DEF NextOf
<1>22. prog[at].kind \in Parts
  BY <1>1
<1>23. Formed(prog, WithTop(open, f), at + 1, labels, d, Len(c) + 1)
  BY <1>1, <1>8, <1>9, <1>18, <1>19, <1>21, <1>22, Armed
<1>24. arm.then = Len(c) + 1
  BY <1>5, ArmIs
<1>25. WithTop(open, f) # <<>>
  BY <1>1, <1>19, StillOpen
<1> QED BY <1>7, <1>14, <1>23, <1>24, <1>25

LEMMA CloseElse ==
  ASSUME CloseInv, Clean(prog), Else
  PROVE  open' # <<>> /\ at' = at + 1 /\ Formed(prog, open', at + 1, labels, code', block')
<1>1. /\ open # <<>> /\ at <= Len(prog) /\ prog[Top.line].kind = "if"
      /\ Line.depth = prog[Top.line].depth /\ Line.kind \in Parts /\ Line.kind = "else" /\ Line = prog[at]
  BY DEF Else, AtPart, Line
<1>2. PICK c : c = Joined
  OBVIOUS
<1>3. PICK b : b = Top.next
  OBVIOUS
<1>4. PICK f : f = AtArm(b, Top.dflt)
  OBVIOUS
<1>5. code' = c /\ block' = b /\ at' = at + 1 /\ open' = WithTop(open, f)
  BY <1>2, <1>3, <1>4 DEF Else, Next1, WithTop
<1>6. PICK m : m = Len(open)
  OBVIOUS
<1>7. PICK S : S = Promises(prog, open, at, labels) \ {<<"next", m, Top.next>>}
  OBVIOUS
<1>8. ~NoCaseYet(prog, Top)
  BY <1>1 DEF NoCaseYet
<1>9. Owing(c, S, b) /\ ~Terminated(c, b)
  <2>1. prog[Top.line].kind \in {"if", "match"}
    BY <1>1
  <2> QED BY <1>1, <1>2, <1>3, <1>6, <1>7, <1>8, <2>1, NextArmOwes
<1>10. IsFrame(f) /\ f.line = Top.line /\ f.part = at /\ f.merge = Top.merge
  BY <1>4 DEF AtArm, IsFrame
<1>11. NextPart(prog, at) = 0
  <2>1. Rooted(prog) /\ at \in 1..Len(prog)
    BY <1>1, CloseHere, TopFacts
  <2> QED BY <1>1, <2>1, ElseIsLast
<1>12. S \cup NextOf(prog, m, f) = S
  BY <1>10, <1>11 DEF NextOf, HasNext
<1>13. prog[at].kind \in Parts
  BY <1>1
<1>14. Formed(prog, WithTop(open, f), at + 1, labels, c, b)
  BY <1>1, <1>6, <1>7, <1>9, <1>10, <1>12, <1>13, Armed
<1>15. WithTop(open, f) # <<>>
  BY <1>1, <1>10, StillOpen
<1> QED BY <1>5, <1>14, <1>15

LEMMA CloseCase ==
  ASSUME CloseInv, Clean(prog), Case
  PROVE  open' # <<>> /\ at' = at + 1 /\ Formed(prog, open', at + 1, labels, code', block')
<1>1. /\ open # <<>> /\ at <= Len(prog) /\ prog[Top.line].kind = "match"
      /\ Line.depth = prog[Top.line].depth /\ Line.kind \in Parts /\ Line.kind \in Cases /\ Line = prog[at]
  BY DEF Case, AtPart, Line
<1>2. PICK c : c = IF Top.part = Top.line THEN code ELSE Joined
  OBVIOUS
<1>3. PICK b : b = Top.next
  OBVIOUS
<1>4. PICK n : n = Len(code)
  OBVIOUS
<1>5. PICK k : k = ArmBlocks
  OBVIOUS
<1>6. k \in {1, 2} /\ (k = 1 <=> NextPart(prog, at) = 0)
  BY <1>5 DEF ArmBlocks
<1>7. PICK next : next = IF NextPart(prog, at) = 0 THEN Top.dflt ELSE Fresh(2)
  OBVIOUS
<1>8. PICK i : i = IF Line.kind = "default" THEN Br(Fresh(1)) ELSE CondBr(at, Fresh(1), next)
  OBVIOUS
<1>9. PICK f : f = AtArm(next, IF Line.kind = "default" THEN Fresh(1) ELSE Top.dflt)
  OBVIOUS
<1>10. code' = Emit(NewBlocks(c, k), b, i)
  <2>1. k = IF NextPart(prog, at) = 0 THEN 1 ELSE 2
    BY <1>5 DEF ArmBlocks
  <2> QED BY <1>2, <1>3, <1>7, <1>8, <2>1, Zenon DEF Case
<1>11. block' = n + 1 /\ at' = at + 1
  BY <1>4 DEF Case, Fresh, Next1
<1>12. open' = WithTop(open, f)
  BY <1>7, <1>9, Zenon DEF Case, WithTop
<1>13. IsTerminator(i)
  BY <1>8 DEF IsTerminator, Br, CondBr, Instr
<1>14. PICK m : m = Len(open)
  OBVIOUS
<1>15. PICK S : S = Promises(prog, open, at, labels) \ {<<"next", m, Top.next>>}
  OBVIOUS
<1>16. Owing(c, S, b) /\ ~Terminated(c, b) /\ Len(c) = n
  <2>1. CASE Top.part = Top.line
    <3>1. NoCaseYet(prog, Top)
      BY <1>1, <2>1 DEF NoCaseYet
    <3>2. Formed(prog, open, at, labels, code, block) /\ Owing(code, Promises(prog, open, at, labels), block)
      BY <1>1, CloseHere
    <3>3. Top.next = block /\ ~Terminated(code, block)
      BY <3>1, <3>2 DEF Formed, Top
    <3>4. <<"next", m, Top.next>> \notin Promises(prog, open, at, labels)
      <4>1. SUFFICES ASSUME NEW l \in 1..Len(open), HasNext(prog, open[l]), l = m PROVE FALSE
        BY DEF Promises, Merges, Nexts, Unplaced
      <4> QED BY <1>14, <3>1, <4>1 DEF Top, HasNext
    <3>5. S = Promises(prog, open, at, labels)
      BY <1>15, <3>4
    <3> QED BY <1>2, <1>3, <1>4, <2>1, <3>2, <3>3, <3>5
  <2>2. CASE Top.part # Top.line
    <3>1. ~NoCaseYet(prog, Top) /\ prog[Top.line].kind \in {"if", "match"}
      BY <1>1, <2>2 DEF NoCaseYet
    <3>2. Owing(c, S, b) /\ ~Terminated(c, b)
      BY <1>1, <1>2, <1>3, <1>14, <1>15, <2>2, <3>1, NextArmOwes
    <3>3. TypeInv /\ prog[Top.line].kind # "fn"
      BY <1>1, CloseHere DEF PlaceInv
    <3>4. Len(c) = n
      BY <1>1, <1>2, <1>4, <2>2, <3>3, JoinedOK
    <3> QED BY <3>2, <3>4
  <2> QED BY <2>1, <2>2
<1>17. PICK d : d = code'
  OBVIOUS
<1>18. \A v \in S : v[1] # "then"
  BY <1>15, Tags
<1>19. PICK V : V = IF k = 1 THEN {} ELSE {<<"next", m, Len(c) + 2>>}
  OBVIOUS
<1>20. Owing(d, S \cup V, Len(c) + 1) /\ ~Terminated(d, Len(c) + 1)
  BY ONLY <1>6, <1>10, <1>13, <1>16, <1>17, <1>18, <1>19, OweArm
<1>21. IsFrame(f) /\ f.line = Top.line /\ f.part = at /\ f.merge = Top.merge /\ f.next = next
  BY <1>9 DEF AtArm, IsFrame
<1>22. HasNext(prog, f) <=> k # 1
  <2>1. at # Top.line
    BY <1>1, CloseHere, TopFacts
  <2> QED BY <1>1, <1>6, <1>21, <2>1 DEF NoCaseYet, HasNext
<1>23. NextOf(prog, m, f) = V
  <2>1. k # 1 => f.next = Len(c) + 2
    BY <1>4, <1>6, <1>7, <1>16, <1>21 DEF Fresh
  <2> QED BY <1>19, <1>22, <2>1 DEF NextOf
<1>24. prog[at].kind \in Parts
  BY <1>1
<1>25. Formed(prog, WithTop(open, f), at + 1, labels, d, Len(c) + 1)
  BY <1>1, <1>14, <1>15, <1>20, <1>21, <1>23, <1>24, Armed
<1>26. WithTop(open, f) # <<>>
  BY <1>1, <1>21, StillOpen
<1> QED BY <1>11, <1>12, <1>16, <1>17, <1>25, <1>26

LEMMA CloseEndArms ==
  ASSUME CloseInv, Clean(prog), EndArms
  PROVE  open' # <<>> /\ Formed(prog, open', at, labels, code', block')
<1>1. /\ open # <<>> /\ ~InBody /\ prog[Top.line].kind \in {"if", "match"}
      /\ ~(at <= Len(prog) /\ Line.depth = prog[Top.line].depth /\ Line.kind \in Parts)
      /\ code' = IF prog[Top.line].kind = "match" /\ Top.part = Top.line THEN code ELSE Joined
      /\ block' = Top.merge /\ open' = Pop
  <2>1. PICK construct \in {"if", "match"} : prog[Top.line].kind = construct /\ ~AtPart(construct)
    BY DEF EndArms
  <2>2. open # <<>>
    BY DEF EndArms
  <2>3. ~(at <= Len(prog) /\ Line.depth = prog[Top.line].depth /\ Line.kind \in Parts)
    BY <2>1, <2>2 DEF AtPart
  <2> QED BY <2>1, <2>2, <2>3 DEF EndArms
<1>2. /\ PlaceInv /\ ~errors /\ Owing(code, Promises(prog, open, at, labels), block)
  BY <1>1, CloseHere
<1>3. PICK m : m = Len(open)
  OBVIOUS
<1>4. /\ m \in Nat \ {0} /\ Top = open[m] /\ Walked(prog, open, at) /\ at \in Nat /\ Line = prog[at]
      /\ prog[Top.line].depth = m - 1 /\ at # 0 /\ Top.line \in 1..Len(prog)
      /\ InBody <=> at <= Len(prog) /\ Line.depth >= m
      /\ at <= Len(prog) => Line.depth \in Nat
  BY <1>1, <1>2, <1>3, TopFacts DEF Line
<1>5. NextPart(prog, Top.part) = 0
  <2>1. at <= Len(prog) => prog[at].depth < m
    BY <1>1, <1>4
  <2> QED BY <1>1, <1>3, <1>4, <2>1, NextIs
<1>6. ~HasNext(prog, Top)
  BY <1>5 DEF HasNext
<1>7. ~NoCaseYet(prog, Top)
  <2>1. SUFFICES ASSUME NoCaseYet(prog, Top) PROVE FALSE
    OBVIOUS
  <2> QED BY <1>4, <1>5, <2>1 DEF NoCaseYet, Clean, WellStructured, NoEmptyMatch
<1>8. code' = Joined
  BY <1>1, <1>7 DEF NoCaseYet
<1>9. PICK S : S = Promises(prog, open, at, labels)
  OBVIOUS
<1>10. PICK c : c = code'
  OBVIOUS
<1>11. IsTerminator(Br(Top.merge))
  BY DEF IsTerminator, Br, Instr
<1>12. Owing(c, S, block) /\ Closed(c, block)
  BY <1>2, <1>8, <1>9, <1>10, <1>11, OweJoin DEF Joined
<1>13. prog[Top.line].kind # "fn"
  BY <1>1
<1>14. Pop # <<>> /\ Formed(prog, Pop, at, labels, c, Top.merge)
  BY <1>1, <1>6, <1>9, <1>12, <1>13, Popped
<1> QED BY <1>1, <1>10, <1>14

----------------------------------------------------------------------------
\* The walk moves on from the first line.
LEMMA WalkMoves ==
  ASSUME NamesInv, Walk
  PROVE  at' # 1 /\ prog' = prog
<1>1. prog' = prog
  BY DEF Walk, FnDefine, EndFn, StopBody, Declare, Use, Return, GotoLabel, Label, Break, Continue,
         LoopJump, Loop, EndLoop, If, ElseIf, Else, Match, Case, EndArms
<1> SUFFICES at' # 1
  BY <1>1
<1>2. TypeInv /\ at \in Nat \ {0} /\ Len(prog) \in Nat /\ Program
  <2>1. TypeInv
    BY DEF NamesInv, PlaceInv
  <2> QED BY <2>1, Counts
<1>3. CASE at' = at /\ open # <<>>
  BY <1>3 DEF NamesInv, PlaceInv
<1>4. CASE at' = at + 1
  BY <1>2, <1>4
<1>5. CASE at' = AfterAll(prog, at) /\ at <= Len(prog)
  <2>1. at \in 1..Len(prog)
    BY <1>2, <1>5
  <2>2. at' > at
    BY <1>2, <1>5, <2>1, LinesAhead
  <2> QED BY <1>2, <2>2
<1>6. CASE StopBody
  <2>1. open # <<>> /\ at' = EndOf(prog, Top.line)
    BY <1>6 DEF StopBody, InBody
  <2>2. Top.line \in 1..Len(prog)
    BY <1>2, <2>1, Innermost
  <2>3. at' > Top.line
    BY <1>2, <2>1, <2>2, LinesAhead
  <2> QED BY <2>2, <2>3
<1>7. \/ at' = at /\ open # <<>>
      \/ at' = at + 1
      \/ at' = AfterAll(prog, at) /\ at <= Len(prog)
      \/ StopBody
  <2>1. CASE EndFn \/ EndLoop \/ EndArms
    BY <2>1 DEF EndFn, EndLoop, EndArms
  <2>2. CASE FnDefine \/ Declare \/ Use \/ Return \/ GotoLabel \/ Label \/ Break \/ Continue \/ Else \/ Case
    BY <2>2 DEF FnDefine, Declare, Use, Return, GotoLabel, Label, Break, Continue, LoopJump, Else, Case, Next1
  <2>3. CASE Loop \/ If \/ ElseIf \/ Match
    BY <2>3 DEF Loop, If, ElseIf, Match, Next1, Ungenerated, Ready, InBody, AtPart
  <2> QED BY <2>1, <2>2, <2>3 DEF Walk
<1> QED BY <1>1, <1>3, <1>4, <1>5, <1>6, <1>7

LEMMA CloseQuiet ==
  ASSUME CloseInv, Clean(prog), Declare \/ Use \/ Return \/ Break \/ Continue
  PROVE  Formed(prog, open, at + 1, labels, code', block)
<1>1. open # <<>> /\ InBody /\ Line = prog[at]
  BY DEF Declare, Use, Return, Break, Continue, LoopJump, Ready, InBody, Line
<1>2. PICK c : c = code'
  OBVIOUS
<1>3. \/ prog[at].kind \in {"declare", "use", "break", "continue"} /\ c = code
      \/ prog[at].kind = "use" /\ c = Emit(code, block, Instr("use", at, <<>>))
      \/ prog[at].kind = "return" /\ c = Emit(code, block, Instr("ret", at, <<>>))
      \/ prog[at].kind = "break" /\ c = Emit(code, block, Br(exit))
      \/ prog[at].kind = "continue" /\ c = Emit(code, block, Br(header))
  BY <1>1, <1>2 DEF Declare, Use, Return, Break, Continue, LoopJump, Ready
<1>4. ~IsTerminator(Instr("use", at, <<>>))
  BY DEF IsTerminator, Instr
<1>5. prog[at].kind \in {"declare", "use", "return", "break", "continue"}
  BY <1>3
<1>6. c = code \/ \E i : c = Emit(code, block, i) /\ (IsTerminator(i) => prog[at].kind \in Jumps)
  BY <1>3, <1>4 DEF Jumps
<1> QED BY <1>1, <1>2, <1>5, <1>6, ClosePlain

LEMMA StepClose == ASSUME CloseInv, [Generate]_vars PROVE CloseInv'
<1>1. LateInv /\ LateInv' /\ NamesInv
  BY StepLate DEF CloseInv, LateInv
<1>2. CASE Parse
  <2>1. at = 1 /\ open = <<>> /\ open' = open /\ code' = code
    BY <1>2 DEF Parse
  <2>2. code' = <<>> /\ AllClosed(code')
    <3>1. code = <<>>
      BY <2>1 DEF CloseInv
    <3>2. <<>> \in Seq({}) /\ Len(<<>>) = 0
      OBVIOUS
    <3> QED BY <2>1, <3>1, <3>2 DEF AllClosed, IsCode, IsSequence
  <2> QED BY <1>1, <2>1, <2>2 DEF CloseInv
<1>3. CASE Walk
  <2>1. at' # 1 /\ prog' = prog
    BY <1>1, <1>3, WalkMoves
  <2>2. ASSUME Clean(prog)
        PROVE  \/ open' = <<>> /\ AllClosed(code')
               \/ open' # <<>> /\ Formed(prog, open', at', labels', code', block')
    <3>1. CASE FnDefine
      <4>1. open' = <<Frame(0, 0)>> /\ at' = at + 1
        BY <3>1 DEF FnDefine, Next1
      <4>2. open' # <<>>
        BY <4>1
      <4> QED BY <2>2, <3>1, <4>1, <4>2, CloseFn
    <3>2. CASE EndFn
      BY <2>2, <3>2, CloseEndFn
    <3>3. CASE StopBody
      BY <2>2, <3>3, NoStop
    <3>4. CASE Declare \/ Use \/ Return \/ Break \/ Continue
      <4>1. UNCHANGED <<open, labels, block>> /\ at' = at + 1 /\ open # <<>>
        BY <3>4 DEF Declare, Use, Return, Break, Continue, LoopJump, Next1, Ready, InBody
      <4> QED BY <2>2, <3>4, <4>1, CloseQuiet
    <3>5. CASE GotoLabel \/ Label
      <4>1. open' = open /\ at' = at + 1 /\ open # <<>>
        BY <3>5 DEF GotoLabel, Label, Next1, Ready, InBody
      <4> QED BY <2>2, <3>5, <4>1, CloseLabels
    <3>6. CASE Loop
      <4>1. labels' = labels
        BY <3>6 DEF Loop
      <4> QED BY <2>2, <3>6, <4>1, CloseLoop
    <3>7. CASE EndLoop
      <4>1. labels' = labels /\ at' = at
        BY <3>7 DEF EndLoop
      <4> QED BY <2>2, <3>7, <4>1, CloseEndLoop
    <3>8. CASE If
      <4>1. labels' = labels
        BY <3>8 DEF If
      <4> QED BY <2>2, <3>8, <4>1, CloseIf
    <3>9. CASE ElseIf
      <4>1. labels' = labels
        BY <3>9 DEF ElseIf
      <4> QED BY <2>2, <3>9, <4>1, CloseElseIf
    <3>10. CASE Else
      <4>1. labels' = labels
        BY <3>10 DEF Else
      <4> QED BY <2>2, <3>10, <4>1, CloseElse
    <3>11. CASE Match
      <4>1. labels' = labels
        BY <3>11 DEF Match
      <4> QED BY <2>2, <3>11, <4>1, CloseMatch
    <3>12. CASE Case
      <4>1. labels' = labels
        BY <3>12 DEF Case
      <4> QED BY <2>2, <3>12, <4>1, CloseCase
    <3>13. CASE EndArms
      <4>1. labels' = labels /\ at' = at
        BY <3>13 DEF EndArms
      <4> QED BY <2>2, <3>13, <4>1, CloseEndArms
    <3> QED BY <1>3, <3>1, <3>2, <3>3, <3>4, <3>5, <3>6, <3>7, <3>8, <3>9, <3>10, <3>11, <3>12, <3>13 DEF Walk
  <2> QED BY <1>1, <2>1, <2>2 DEF CloseInv
<1>4. CASE UNCHANGED vars
  BY <1>1, <1>4 DEF CloseInv, vars
<1> QED BY <1>2, <1>3, <1>4 DEF Generate

----------------------------------------------------------------------------
(* Where the alloca of an iterator is passed.                              *)

\* Control goes on from the blocks S, not into block a.
ReachNext(a, S) == (S \cup UNION {Targets(b) : b \in S}) \ {a}
Starts(a) == {entry[i] : i \in DOMAIN entry} \ {a}
ReachesIn(a, f, n) == f = [k \in 0..n |-> IF k = 0 THEN Starts(a) ELSE ReachNext(a, f[k - 1])]

LEMMA ReachExists ==
  ASSUME NEW a, NEW n \in Nat
  PROVE  \E f : ReachesIn(a, f, n)
<1>1. PICK T : T = {k \in Nat : \E f : ReachesIn(a, f, k)}
  OBVIOUS
<1>2. 0 \in T
  <2>1. PICK f : f = [k \in 0..0 |-> Starts(a)]
    OBVIOUS
  <2>2. ReachesIn(a, f, 0)
    BY <2>1 DEF ReachesIn
  <2> QED BY <1>1, <2>2
<1>3. ASSUME NEW k \in 0..n, k \in T PROVE k + 1 \in T
  <2>1. PICK f : ReachesIn(a, f, k)
    BY <1>1, <1>3
  <2>2. PICK g : g = [j \in 0..(k + 1) |-> IF j <= k THEN f[j] ELSE ReachNext(a, f[k])]
    OBVIOUS
  <2>3. ASSUME NEW j \in 0..(k + 1) PROVE g[j] = IF j = 0 THEN Starts(a) ELSE ReachNext(a, g[j - 1])
    <3>1. CASE j = 0
      BY <2>1, <2>2, <3>1 DEF ReachesIn
    <3>2. CASE j # 0 /\ j <= k
      <4>1. j \in 0..k /\ j - 1 \in 0..k /\ j - 1 \in 0..(k + 1) /\ j - 1 <= k
        BY <3>2
      <4>2. g[j] = f[j] /\ g[j - 1] = f[j - 1]
        BY <2>2, <3>2, <4>1
      <4>3. f[j] = ReachNext(a, f[j - 1])
        BY <2>1, <3>2, <4>1 DEF ReachesIn
      <4> QED BY <3>2, <4>2, <4>3
    <3>3. CASE j = k + 1
      <4>1. j # 0 /\ ~(j <= k) /\ j - 1 = k /\ k \in 0..(k + 1) /\ k <= k
        BY <3>3
      <4>2. g[j] = ReachNext(a, f[k]) /\ g[j - 1] = f[k]
        BY <2>2, <4>1
      <4> QED BY <4>1, <4>2
    <3> QED BY <3>1, <3>2, <3>3
  <2>4. ReachesIn(a, g, k + 1)
    BY <2>2, <2>3 DEF ReachesIn
  <2> QED BY <1>1, <2>4
<1>4. n \in T
  BY <1>2, <1>3, UpToAll
<1> QED BY <1>1, <1>4

LEMMA ReachIs ==
  ASSUME NEW a, Len(code) \in Nat
  PROVE  \E f : ReachesIn(a, f, Len(code)) /\ ReachableAvoiding(a) = f[Len(code)]
<1>1. \E f : ReachesIn(a, f, Len(code))
  BY ReachExists
<1>2. PICK g : g = CHOOSE f : ReachesIn(a, f, Len(code))
  OBVIOUS
<1>3. ReachesIn(a, g, Len(code))
  BY <1>1, <1>2, Zenon
<1>4. ReachableAvoiding(a) = g[Len(code)]
  BY <1>2 DEF ReachableAvoiding, ReachesIn, ReachNext, Starts
<1> QED BY <1>3, <1>4

----------------------------------------------------------------------------
(* The iterators whose alloca is passed on every path to a block.          *)

Inits(c, b) == {c[b][k].line : k \in {k \in 1..Len(c[b]) : c[b][k].op = "init"}}

\* Instruction i, of the first n lines, in a block that is reached behind the
\* allocas of the iterators V and has those of I itself, among N blocks.
InstrOK(p, w, N, n, i, V, I) ==
  /\ \A j \in 1..Len(i.to) : i.to[j] \in 1..N /\ w[i.to[j]] \subseteq V \cup I
  /\ i.op \in {"step", "test"} /\ p[i.line].kind = "for" => i.line \in V
  /\ i.op = "init" => i.line \in 1..(n - 1) /\ p[i.line].kind = "for"

\* w has iterators for each block, and no branch of the code c goes to a block
\* with one that is not in the block it comes from, or made there.
Weighed(p, c, e, n, w) ==
  /\ IsCode(c)
  /\ \A i \in DOMAIN e : e[i] \in 1..Len(c) /\ w[e[i]] = {}
  /\ \A b \in 1..Len(c) : \A k \in 1..Len(c[b]) : InstrOK(p, w, Len(c), n, c[b][k], w[b], Inits(c, b))
  /\ \A a, b \in 1..Len(c) : a # b => Inits(c, a) \cap Inits(c, b) = {}

LEMMA InitsAppend ==
  ASSUME NEW c, NEW b, IsSequence(c[b]), NEW d, NEW i, d[b] = Append(c[b], i)
  PROVE  /\ Inits(d, b) = Inits(c, b) \cup (IF i.op = "init" THEN {i.line} ELSE {})
         /\ \A k \in 1..Len(d[b]) : d[b][k] = i \/ \E l \in 1..Len(c[b]) : d[b][k] = c[b][l]
<1>1. PICK n : n = Len(c[b])
  OBVIOUS
<1>2. /\ n \in Nat /\ Len(d[b]) = n + 1 /\ d[b][n + 1] = i
      /\ \A k \in 1..n : d[b][k] = c[b][k]
  BY <1>1, AppendSequence, SequenceLength
<1>3. (\A k \in 1..(n + 1) : k \in 1..n \/ k = n + 1) /\ n + 1 \in 1..(n + 1) /\ (\A k \in 1..n : k \in 1..(n + 1))
  BY <1>2
<1>4. \A k \in 1..Len(d[b]) : d[b][k] = i \/ \E l \in 1..Len(c[b]) : d[b][k] = c[b][l]
  BY <1>1, <1>2, <1>3
<1>5. ASSUME NEW x \in Inits(d, b) PROVE x \in Inits(c, b) \/ (i.op = "init" /\ x = i.line)
  <2>1. PICK k \in 1..(n + 1) : d[b][k].op = "init" /\ x = d[b][k].line
    BY <1>2 DEF Inits
  <2>2. CASE k \in 1..n
    BY <1>1, <1>2, <2>1, <2>2 DEF Inits
  <2>3. CASE k = n + 1
    BY <1>2, <2>1, <2>3
  <2> QED BY <1>3, <2>2, <2>3
<1>6. ASSUME NEW x \in Inits(c, b) PROVE x \in Inits(d, b)
  <2>1. PICK k \in 1..n : c[b][k].op = "init" /\ x = c[b][k].line
    BY <1>1 DEF Inits
  <2> QED BY <1>2, <1>3, <2>1 DEF Inits
<1>7. i.op = "init" => i.line \in Inits(d, b)
  BY <1>2, <1>3 DEF Inits
<1> QED BY <1>4, <1>5, <1>6, <1>7

LEMMA InitsSame ==
  ASSUME NEW c, NEW d, NEW b, d[b] = c[b]
  PROVE  Inits(d, b) = Inits(c, b)
BY DEF Inits

\* More allocas, and more lines, do no harm.
LEMMA InstrStays ==
  ASSUME NEW p, NEW w, NEW N, NEW n \in Nat, NEW i, NEW V, NEW I, InstrOK(p, w, N, n, i, V, I),
         NEW J, I \subseteq J, NEW m \in Nat, n <= m
  PROVE  InstrOK(p, w, N, m, i, V, J)
<1>1. i.line \in 1..(n - 1) => i.line \in 1..(m - 1)
  OBVIOUS
<1> QED BY <1>1 DEF InstrOK

LEMMA WeighedLater ==
  ASSUME NEW p, NEW c, NEW e, NEW n \in Nat, NEW w, Weighed(p, c, e, n, w), NEW m \in Nat, n <= m
  PROVE  Weighed(p, c, e, m, w)
<1>1. ASSUME NEW b \in 1..Len(c), NEW k \in 1..Len(c[b])
      PROVE  InstrOK(p, w, Len(c), m, c[b][k], w[b], Inits(c, b))
  <2>1. InstrOK(p, w, Len(c), n, c[b][k], w[b], Inits(c, b))
    BY DEF Weighed
  <2> QED BY <2>1, InstrStays
<1> QED BY <1>1 DEF Weighed

\* An instruction that is no alloca.
LEMMA WeighedEmit ==
  ASSUME NEW p, NEW c, NEW e, NEW n \in Nat, NEW w, Weighed(p, c, e, n, w), NEW b \in 1..Len(c),
         NEW i, i.op # "init", InstrOK(p, w, Len(c), n, i, w[b], Inits(c, b))
  PROVE  Weighed(p, Emit(c, b, i), e, n, w) /\ Len(Emit(c, b, i)) = Len(c)
<1>1. PICK d : d = Emit(c, b, i)
  OBVIOUS
<1>2. /\ IsCode(d) /\ Len(d) = Len(c) /\ d[b] = Append(c[b], i)
      /\ \A a \in 1..Len(c) : a # b => d[a] = c[a]
  BY <1>1, EmitBlock DEF Weighed
<1>3. IsSequence(c[b])
  BY DEF Weighed, IsCode
<1>4. /\ Inits(d, b) = Inits(c, b)
      /\ \A k \in 1..Len(d[b]) : d[b][k] = i \/ \E l \in 1..Len(c[b]) : d[b][k] = c[b][l]
  <2>1. d[b] = Append(c[b], i)
    BY <1>2
  <2>2. Inits(d, b) = Inits(c, b) \cup (IF i.op = "init" THEN {i.line} ELSE {})
    BY ONLY <1>3, <2>1, InitsAppend
  <2>3. \A k \in 1..Len(d[b]) : d[b][k] = i \/ \E l \in 1..Len(c[b]) : d[b][k] = c[b][l]
    BY ONLY <1>3, <2>1, InitsAppend
  <2> QED BY <2>2, <2>3
<1>5. \A a \in 1..Len(c) : Inits(d, a) = Inits(c, a)
  BY <1>2, <1>4, InitsSame
<1>6. ASSUME NEW a \in 1..Len(c), NEW k \in 1..Len(d[a])
      PROVE  InstrOK(p, w, Len(c), n, d[a][k], w[a], Inits(c, a))
  <2>1. CASE a = b
    BY <1>4, <2>1 DEF Weighed
  <2>2. CASE a # b
    BY <1>2, <2>2 DEF Weighed
  <2> QED BY <2>1, <2>2
<1>7. \A x, y \in 1..Len(c) : x # y => Inits(d, x) \cap Inits(d, y) = {}
  BY <1>5 DEF Weighed
<1>8. \A j \in DOMAIN e : e[j] \in 1..Len(c) /\ w[e[j]] = {}
  BY DEF Weighed
<1> QED BY <1>1, <1>2, <1>5, <1>6, <1>7, <1>8 DEF Weighed

LEMMA WeighedJoin ==
  ASSUME NEW p, NEW c, NEW e, NEW n \in Nat, NEW w, Weighed(p, c, e, n, w), NEW b \in 1..Len(c),
         NEW i, i.op # "init", InstrOK(p, w, Len(c), n, i, w[b], Inits(c, b))
  PROVE  /\ Weighed(p, EmitUnlessTerminated(c, b, i), e, n, w)
         /\ Len(EmitUnlessTerminated(c, b, i)) = Len(c)
<1>1. CASE Terminated(c, b)
  <2>1. EmitUnlessTerminated(c, b, i) = c
    BY <1>1 DEF EmitUnlessTerminated
  <2> QED BY <2>1
<1>2. CASE ~Terminated(c, b)
  <2>1. EmitUnlessTerminated(c, b, i) = Emit(c, b, i)
    BY <1>2 DEF EmitUnlessTerminated
  <2>2. Weighed(p, Emit(c, b, i), e, n, w) /\ Len(Emit(c, b, i)) = Len(c)
    BY WeighedEmit
  <2> QED BY <2>1, <2>2
<1> QED BY <1>1, <1>2

\* The alloca of the iterator of line n.
LEMMA WeighedInit ==
  ASSUME NEW p, NEW c, NEW e, NEW n \in Nat \ {0}, NEW w, Weighed(p, c, e, n, w), NEW b \in 1..Len(c),
         p[n].kind = "for", NEW d, d = Emit(c, b, Instr("init", n, <<>>))
  PROVE  Weighed(p, d, e, n + 1, w) /\ Len(d) = Len(c) /\ n \in Inits(d, b)
<1>1. PICK i : i = Instr("init", n, <<>>)
  OBVIOUS
<1>2. i.op = "init" /\ i.line = n /\ i.to = <<>>
  BY <1>1 DEF Instr
<1>3. /\ IsCode(d) /\ Len(d) = Len(c) /\ d[b] = Append(c[b], i)
      /\ \A a \in 1..Len(c) : a # b => d[a] = c[a]
  BY <1>1, EmitBlock DEF Weighed
<1>4. IsSequence(c[b])
  BY DEF Weighed, IsCode
<1>5. /\ Inits(d, b) = Inits(c, b) \cup {n}
      /\ \A k \in 1..Len(d[b]) : d[b][k] = i \/ \E l \in 1..Len(c[b]) : d[b][k] = c[b][l]
  <2>1. IsSequence(c[b]) /\ d[b] = Append(c[b], i)
    BY <1>3, <1>4
  <2>2. Inits(d, b) = Inits(c, b) \cup (IF i.op = "init" THEN {i.line} ELSE {})
    BY ONLY <2>1, InitsAppend
  <2>3. \A k \in 1..Len(d[b]) : d[b][k] = i \/ \E l \in 1..Len(c[b]) : d[b][k] = c[b][l]
    BY ONLY <2>1, InitsAppend
  <2> QED BY <1>2, <2>2, <2>3
<1>6. \A a \in 1..Len(c) : a # b => Inits(d, a) = Inits(c, a)
  BY <1>3, InitsSame
<1>7. InstrOK(p, w, Len(c), n + 1, i, w[b], Inits(d, b))
  <2>1. Len(i.to) = 0 /\ \A j \in 1..0 : FALSE
    BY <1>2
  <2>2. n \in 1..((n + 1) - 1)
    OBVIOUS
  <2> QED BY <1>2, <2>1, <2>2 DEF InstrOK
<1>8. ASSUME NEW a \in 1..Len(c), NEW k \in 1..Len(d[a])
      PROVE  InstrOK(p, w, Len(c), n + 1, d[a][k], w[a], Inits(d, a))
  <2>1. \A x \in 1..Len(c) : \A l \in 1..Len(c[x]) :
          InstrOK(p, w, Len(c), n, c[x][l], w[x], Inits(c, x))
    BY DEF Weighed
  <2>2. n \in Nat /\ n + 1 \in Nat /\ n <= n + 1 /\ Inits(c, a) \subseteq Inits(d, a)
    BY <1>5, <1>6
  <2>3. (d[a][k] = i /\ a = b) \/ \E l \in 1..Len(c[a]) : d[a][k] = c[a][l]
    BY <1>3, <1>5
  <2>4. CASE \E l \in 1..Len(c[a]) : d[a][k] = c[a][l]
    <3>1. InstrOK(p, w, Len(c), n, d[a][k], w[a], Inits(c, a))
      BY <2>1, <2>4
    <3> QED BY ONLY <2>2, <3>1, InstrStays
  <2> QED BY <1>7, <2>3, <2>4
<1>9. \A a \in 1..Len(c) : n \notin Inits(c, a)
  <2>1. SUFFICES ASSUME NEW a \in 1..Len(c), n \in Inits(c, a) PROVE FALSE
    OBVIOUS
  <2>2. PICK k \in 1..Len(c[a]) : c[a][k].op = "init" /\ c[a][k].line = n
    BY <2>1 DEF Inits
  <2>3. n \in 1..(n - 1)
    BY <2>2 DEF Weighed, InstrOK
  <2> QED BY <2>3
<1>10. \A x, y \in 1..Len(c) : x # y => Inits(d, x) \cap Inits(d, y) = {}
  <2>1. \A x, y \in 1..Len(c) : x # y => Inits(c, x) \cap Inits(c, y) = {}
    BY DEF Weighed
  <2> QED BY <1>5, <1>6, <1>9, <2>1
<1>11. \A j \in DOMAIN e : e[j] \in 1..Len(c) /\ w[e[j]] = {}
  BY DEF Weighed
<1> QED BY <1>3, <1>5, <1>8, <1>10, <1>11 DEF Weighed

\* The functions v and w agree on the first n blocks.
Agree(v, w, n) == \A b \in 1..n : v[b] = w[b]

LEMMA WeighedMore ==
  ASSUME NEW p, NEW c, NEW e, NEW n, NEW w, Weighed(p, c, e, n, w), NEW v, Agree(v, w, Len(c)),
         NEW k \in Nat
  PROVE  /\ Weighed(p, NewBlocks(c, k), e, n, v) /\ Len(NewBlocks(c, k)) = Len(c) + k /\ Len(c) \in Nat
         /\ \A b \in 1..Len(c) : Inits(NewBlocks(c, k), b) = Inits(c, b)
<1>1. PICK d : d = NewBlocks(c, k)
  OBVIOUS
<1>2. PICK m : m = Len(c)
  OBVIOUS
<1>3. /\ IsCode(d) /\ Len(d) = m + k /\ m \in Nat
      /\ \A b \in 1..m : d[b] = c[b]
      /\ \A b \in (m + 1)..(m + k) : d[b] = <<>>
  BY <1>1, <1>2, MoreBlocks DEF Weighed
<1>4. (\A b \in 1..(m + k) : b \in 1..m \/ b \in (m + 1)..(m + k)) /\ \A b \in 1..m : b \in 1..(m + k)
  BY <1>3
<1>5. \A b \in 1..m : Inits(d, b) = Inits(c, b)
  BY <1>3, InitsSame
<1>6. \A b \in (m + 1)..(m + k) : Len(d[b]) = 0 /\ Inits(d, b) = {}
  <2>1. Len(<<>>) = 0 /\ \A j \in 1..0 : FALSE
    OBVIOUS
  <2> QED BY <1>3, <2>1 DEF Inits
<1>7. ASSUME NEW b \in 1..(m + k), NEW j \in 1..Len(d[b])
      PROVE  InstrOK(p, v, m + k, n, d[b][j], v[b], Inits(d, b))
  <2>1. b \in 1..m
    BY <1>3, <1>4, <1>6
  <2>2. InstrOK(p, w, m, n, c[b][j], w[b], Inits(c, b))
    BY <1>2, <1>3, <2>1 DEF Weighed
  <2>3. PICK i : i = c[b][j]
    OBVIOUS
  <2>4. \A x \in 1..m : v[x] = w[x]
    BY <1>2 DEF Agree
  <2>5. \A l \in 1..Len(i.to) : i.to[l] \in 1..(m + k) /\ v[i.to[l]] \subseteq w[b] \cup Inits(c, b)
    BY <1>4, <2>2, <2>3, <2>4 DEF InstrOK
  <2>6. InstrOK(p, v, m + k, n, i, w[b], Inits(c, b))
    BY <2>2, <2>3, <2>5 DEF InstrOK
  <2> QED BY <1>3, <1>5, <2>1, <2>3, <2>4, <2>6
<1>8. \A x, y \in 1..(m + k) : x # y => Inits(d, x) \cap Inits(d, y) = {}
  <2>1. \A x, y \in 1..m : x # y => Inits(c, x) \cap Inits(c, y) = {}
    BY <1>2 DEF Weighed
  <2> QED BY <1>4, <1>5, <1>6, <2>1
<1>9. \A j \in DOMAIN e : e[j] \in 1..(m + k) /\ v[e[j]] = {}
  BY <1>2, <1>4 DEF Weighed, Agree
<1> QED BY <1>1, <1>2, <1>3, <1>5, <1>7, <1>8, <1>9 DEF Weighed

\* The instructions of the walk.
LEMMA InstrsOK ==
  ASSUME NEW p, NEW w, NEW N, NEW n, NEW V, NEW I
  PROVE  /\ \A b \in 1..N : w[b] \subseteq V \cup I => InstrOK(p, w, N, n, Br(b), V, I) /\ Br(b).op # "init"
         /\ \A l : \A a, b \in 1..N :
              w[a] \subseteq V /\ w[b] \subseteq V /\ (p[l].kind = "for" => l \in V) =>
                InstrOK(p, w, N, n, CondBr(l, a, b), V, I) /\ CondBr(l, a, b).op # "init"
         /\ \A l : \A op \in {"use", "ret"} :
              InstrOK(p, w, N, n, Instr(op, l, <<>>), V, I) /\ Instr(op, l, <<>>).op # "init"
         /\ \A l \in V : InstrOK(p, w, N, n, Instr("step", l, <<>>), V, I) /\ Instr("step", l, <<>>).op # "init"
<1>1. \A op, l, to : Instr(op, l, to).op = op /\ Instr(op, l, to).line = l /\ Instr(op, l, to).to = to
  BY DEF Instr
<1>2. Len(<<>>) = 0 /\ (\A j \in 1..0 : FALSE) /\ (\A j \in 1..1 : j = 1) /\ (\A j \in 1..2 : j = 1 \/ j = 2)
  OBVIOUS
<1>3. \A b : Len(<<b>>) = 1 /\ <<b>>[1] = b
  OBVIOUS
<1>4. \A a, b : Len(<<a, b>>) = 2 /\ <<a, b>>[1] = a /\ <<a, b>>[2] = b
  OBVIOUS
<1>5. ASSUME NEW b \in 1..N, w[b] \subseteq V \cup I PROVE InstrOK(p, w, N, n, Br(b), V, I) /\ Br(b).op # "init"
  <2>1. PICK i : i = Br(b)
    OBVIOUS
  <2>2. i.op = "br" /\ i.to = <<b>>
    BY <1>1, <2>1 DEF Br
  <2>3. \A j \in 1..Len(i.to) : i.to[j] \in 1..N /\ w[i.to[j]] \subseteq V \cup I
    BY <1>2, <1>3, <1>5, <2>2
  <2> QED BY <2>1, <2>2, <2>3 DEF InstrOK
<1>6. ASSUME NEW l, NEW a \in 1..N, NEW b \in 1..N, w[a] \subseteq V, w[b] \subseteq V, p[l].kind = "for" => l \in V
      PROVE  InstrOK(p, w, N, n, CondBr(l, a, b), V, I) /\ CondBr(l, a, b).op # "init"
  <2>1. PICK i : i = CondBr(l, a, b)
    OBVIOUS
  <2>2. i.op = "test" /\ i.to = <<a, b>> /\ i.line = l
    BY <1>1, <2>1 DEF CondBr
  <2>3. \A j \in 1..Len(i.to) : i.to[j] \in 1..N /\ w[i.to[j]] \subseteq V \cup I
    BY <1>2, <1>4, <1>6, <2>2
  <2> QED BY <1>6, <2>1, <2>2, <2>3 DEF InstrOK
<1>7. ASSUME NEW l, NEW op \in {"use", "ret"}
      PROVE  InstrOK(p, w, N, n, Instr(op, l, <<>>), V, I) /\ Instr(op, l, <<>>).op # "init"
  <2>1. PICK i : i = Instr(op, l, <<>>)
    OBVIOUS
  <2>2. i.op = op /\ i.to = <<>> /\ op # "init" /\ op \notin {"step", "test"}
    BY <1>1, <2>1
  <2>3. \A j \in 1..Len(i.to) : FALSE
    BY <1>2, <2>2
  <2> QED BY <2>1, <2>2, <2>3 DEF InstrOK
<1>8. ASSUME NEW l \in V
      PROVE  InstrOK(p, w, N, n, Instr("step", l, <<>>), V, I) /\ Instr("step", l, <<>>).op # "init"
  <2>1. PICK i : i = Instr("step", l, <<>>)
    OBVIOUS
  <2>2. i.op = "step" /\ i.to = <<>> /\ i.line = l
    BY <1>1, <2>1
  <2>3. \A j \in 1..Len(i.to) : FALSE
    BY <1>2, <2>2
  <2> QED BY <2>1, <2>2, <2>3 DEF InstrOK
<1> QED BY <1>5, <1>6, <1>7, <1>8

----------------------------------------------------------------------------
(* What the calls in progress and the labels know of them.                 *)

\* The for loops among the first n calls.
Fors(p, s, n) == {s[k].line : k \in {k \in 1..n : p[s[k].line].kind = "for"}}

\* The for loops around line n.
ForsAround(p, n) == {i \in 1..Len(p) : p[i].kind = "for" /\ In(p, i, n)}

FrameWeighed(p, s, k, w, N) ==
  /\ s[k].merge \in 1..N /\ s[k].next \in 1..N /\ s[k].dflt \in 1..N
  /\ w[s[k].merge] = Fors(p, s, k - 1) /\ w[s[k].dflt] = Fors(p, s, k - 1)
  /\ w[s[k].next] = Fors(p, s, k)

FramesWeighed(p, s, w, N) ==
  \A k \in 1..Len(s) : p[s[k].line].kind # "fn" => FrameWeighed(p, s, k, w, N)

\* The block of a label is behind the allocas of the loops around the label.
LabelsWeighed(p, f, t, w, N) ==
  \A l \in Labels : t[l] # 0 =>
    /\ t[l] \in 1..N
    /\ \A j \in 1..Len(p) : p[j].kind = "label" /\ p[j].name = l /\ FnOf(p, j) = f => w[t[l]] = ForsAround(p, j)

\* Inside of a function, with the builder in block b of N.
Held(p, s, t, b, w, N) ==
  /\ FramesWeighed(p, s, w, N) /\ LabelsWeighed(p, s[1].line, t, w, N)
  /\ b \in 1..N /\ w[b] = Fors(p, s, Len(s))

LEMMA ForsSame ==
  ASSUME NEW p, NEW s, NEW t, NEW n, \A k \in 1..n : t[k].line = s[k].line
  PROVE  Fors(p, t, n) = Fors(p, s, n)
BY DEF Fors

LEMMA ForsInner ==
  ASSUME NEW p, NEW s, NEW n \in Nat
  PROVE  Fors(p, s, n + 1) = Fors(p, s, n) \cup (IF p[s[n + 1].line].kind = "for" THEN {s[n + 1].line} ELSE {})
<1>1. \A k \in 1..(n + 1) : k \in 1..n \/ k = n + 1
  OBVIOUS
<1>2. n + 1 \in 1..(n + 1) /\ \A k \in 1..n : k \in 1..(n + 1)
  OBVIOUS
<1> QED BY <1>1, <1>2 DEF Fors

LEMMA ForsOuter ==
  ASSUME NEW p, NEW s, NEW n \in Nat, NEW k \in 0..n
  PROVE  Fors(p, s, k) \subseteq Fors(p, s, n)
<1>1. \A j \in 1..k : j \in 1..n
  OBVIOUS
<1> QED BY <1>1 DEF Fors

\* The loops around a line are those of the calls in progress there.
LEMMA AroundIs ==
  ASSUME NEW p, NEW s, NEW n, Walked(p, s, n), n <= Len(p), p[n].depth >= Len(s)
  PROVE  ForsAround(p, n) = Fors(p, s, Len(s))
<1>1. Rooted(p) /\ n \in 1..Len(p) /\ Len(s) \in Nat /\ n \in Nat /\ Len(p) \in Nat
  BY TreeFacts DEF Walked
<1>2. \A k \in 1..Len(s) : FrameAt(p, s[k], k, n)
  BY DEF Walked
<1>3. ASSUME NEW i \in ForsAround(p, n) PROVE i \in Fors(p, s, Len(s))
  <2>1. i \in 1..Len(p) /\ p[i].kind = "for" /\ In(p, i, n)
    BY DEF ForsAround
  <2>2. i \in 1..(n - 1)
    BY <1>1, <2>1 DEF In
  <2>3. PICK k \in 1..Len(s) : i = s[k].line \/ i = s[k].part
    BY <1>1, <2>1, <2>2 DEF Walked
  <2>4. i = s[k].line
    BY <1>2, <2>1, <2>3 DEF FrameAt, IfParts, Cases
  <2> QED BY <2>1, <2>4 DEF Fors
<1>4. ASSUME NEW i \in Fors(p, s, Len(s)) PROVE i \in ForsAround(p, n)
  <2>1. PICK k \in 1..Len(s) : i = s[k].line /\ p[i].kind = "for"
    BY DEF Fors
  <2>2. i \in 1..(n - 1) /\ p[i].depth = k - 1 /\ s[k].part = i /\ \A j \in (i + 1)..(n - 1) : p[j].depth >= k
    <3>1. FrameAt(p, s[k], k, n)
      BY <1>2
    <3>2. s[k].part = i
      BY <2>1, <3>1 DEF FrameAt
    <3> QED BY <2>1, <3>1, <3>2 DEF FrameAt
  <2>3. ASSUME NEW j \in (i + 1)..n PROVE p[j].depth > p[i].depth
    <3>1. j \in (i + 1)..(n - 1) \/ j = n
      BY <1>1, <2>2
    <3>2. p[j].depth >= k /\ p[j].depth \in Nat /\ k \in Nat
      <4>1. j \in 1..Len(p) /\ k \in Nat /\ k <= Len(s)
        BY <1>1, <2>2
      <4>2. p[j].depth \in Nat
        BY <1>1, <4>1, TreeFacts
      <4> QED BY <1>1, <2>2, <3>1, <4>1, <4>2
    <3> QED BY <2>2, <3>2
  <2>4. i < n /\ i \in 1..Len(p)
    BY <1>1, <2>2
  <2> QED BY <2>1, <2>3, <2>4 DEF ForsAround, In
<1> QED BY <1>3, <1>4

----------------------------------------------------------------------------
(* What a step does to that.                                               *)

\* More blocks.
LEMMA FramesKept ==
  ASSUME NEW p, NEW s, NEW w, NEW N \in Nat, FramesWeighed(p, s, w, N),
         NEW v, Agree(v, w, N), NEW M \in Nat, N <= M
  PROVE  FramesWeighed(p, s, v, M)
<1>1. \A b \in 1..N : b \in 1..M /\ v[b] = w[b]
  BY DEF Agree
<1>2. ASSUME NEW k \in 1..Len(s), FrameWeighed(p, s, k, w, N) PROVE FrameWeighed(p, s, k, v, M)
  BY <1>1, <1>2 DEF FrameWeighed
<1> QED BY <1>2 DEF FramesWeighed

LEMMA LabelsKept ==
  ASSUME NEW p, NEW f, NEW t, NEW w, NEW N \in Nat, LabelsWeighed(p, f, t, w, N),
         NEW v, Agree(v, w, N), NEW M \in Nat, N <= M
  PROVE  LabelsWeighed(p, f, t, v, M)
<1>1. \A b \in 1..N : b \in 1..M /\ v[b] = w[b]
  BY DEF Agree
<1> QED BY <1>1 DEF LabelsWeighed

LEMMA HeldMore ==
  ASSUME NEW p, NEW s, NEW t, NEW b, NEW w, NEW N \in Nat, Held(p, s, t, b, w, N),
         NEW v, Agree(v, w, N), NEW M \in Nat, N <= M
  PROVE  Held(p, s, t, b, v, M)
<1>1. FramesWeighed(p, s, v, M)
  BY FramesKept DEF Held
<1>2. LabelsWeighed(p, s[1].line, t, v, M)
  BY LabelsKept DEF Held
<1>3. b \in 1..M /\ v[b] = w[b]
  BY DEF Held, Agree
<1> QED BY <1>1, <1>2, <1>3 DEF Held

\* A frame does not depend on the ones after it, nor on what else is in those
\* before it.
LEMMA FrameSame ==
  ASSUME NEW p, NEW s, NEW t, NEW k \in Nat, NEW w, NEW N, FrameWeighed(p, s, k, w, N),
         t[k] = s[k], \A j \in 1..k : t[j].line = s[j].line
  PROVE  FrameWeighed(p, t, k, w, N)
<1>1. \A j \in 1..(k - 1) : j \in 1..k
  OBVIOUS
<1>2. Fors(p, t, k) = Fors(p, s, k) /\ Fors(p, t, k - 1) = Fors(p, s, k - 1)
  BY <1>1, ForsSame
<1> QED BY <1>2 DEF FrameWeighed

\* A call is made.
LEMMA HeldPush ==
  ASSUME NEW p, NEW s, NEW l, NEW b, NEW w, NEW N, Held(p, s, l, b, w, N),
         NEW t, NEW m, Shorter(t, s, m), m # 0, NEW h, h \in 1..N, NEW f, f = t[m + 1], f.merge \in 1..N, f.next \in 1..N,
         f.dflt = f.merge, w[f.merge] = Fors(p, s, m),
         w[f.next] = Fors(p, s, m) \cup (IF p[f.line].kind = "for" THEN {f.line} ELSE {}),
         w[h] = w[f.next]
  PROVE  Held(p, t, l, h, w, N)
<1>1. m \in Nat /\ Len(t) = m + 1 /\ Len(s) = m /\ \A k \in 1..m : t[k] = s[k]
  BY DEF Shorter
<1>2. (\A k \in 1..(m + 1) : k \in 1..m \/ k = m + 1) /\ 1 \in 1..m /\ (m + 1) - 1 = m
  BY <1>1
<1>3. Fors(p, t, m) = Fors(p, s, m)
  BY <1>1, ForsSame
<1>4. Fors(p, t, m + 1) = Fors(p, s, m) \cup (IF p[f.line].kind = "for" THEN {f.line} ELSE {})
  <2>1. Fors(p, t, m + 1) = Fors(p, t, m) \cup (IF p[t[m + 1].line].kind = "for" THEN {t[m + 1].line} ELSE {})
    BY ONLY <1>1, ForsInner
  <2> QED BY <1>3, <2>1
<1>5. FrameWeighed(p, t, m + 1, w, N)
  BY <1>2, <1>3, <1>4 DEF FrameWeighed
<1>6. ASSUME NEW k \in 1..m, p[t[k].line].kind # "fn" PROVE FrameWeighed(p, t, k, w, N)
  <2>1. FrameWeighed(p, s, k, w, N) /\ t[k] = s[k] /\ k \in Nat
    BY <1>1, <1>6 DEF Held, FramesWeighed
  <2>2. \A j \in 1..k : t[j].line = s[j].line
    <3>1. \A j \in 1..k : j \in 1..m
      BY <1>1
    <3> QED BY <1>1, <3>1
  <2> QED BY <2>1, <2>2, FrameSame
<1>7. FramesWeighed(p, t, w, N)
  BY <1>1, <1>2, <1>5, <1>6 DEF FramesWeighed
<1>8. t[1].line = s[1].line
  BY <1>1, <1>2
<1> QED BY <1>1, <1>4, <1>7, <1>8 DEF Held

\* The innermost call returns.
LEMMA HeldPop ==
  ASSUME NEW p, NEW s, NEW l, NEW b, NEW w, NEW N, Held(p, s, l, b, w, N),
         NEW t, NEW m, Shorter(s, t, m), m # 0, p[s[m + 1].line].kind # "fn"
  PROVE  Held(p, t, l, s[m + 1].merge, w, N)
<1>1. m \in Nat /\ Len(s) = m + 1 /\ Len(t) = m /\ \A k \in 1..m : t[k] = s[k]
  BY DEF Shorter
<1>2. (\A k \in 1..m : k \in 1..(m + 1)) /\ 1 \in 1..m /\ (m + 1) - 1 = m /\ m + 1 \in 1..(m + 1)
  BY <1>1
<1>3. ASSUME NEW k \in 1..m, p[t[k].line].kind # "fn" PROVE FrameWeighed(p, t, k, w, N)
  <2>1. FrameWeighed(p, s, k, w, N) /\ t[k] = s[k] /\ k \in Nat
    BY <1>1, <1>2, <1>3 DEF Held, FramesWeighed
  <2>2. \A j \in 1..k : t[j].line = s[j].line
    <3>1. \A j \in 1..k : j \in 1..m
      BY <1>1
    <3> QED BY <1>1, <3>1
  <2> QED BY <2>1, <2>2, FrameSame
<1>4. FrameWeighed(p, s, m + 1, w, N)
  BY <1>1, <1>2 DEF Held, FramesWeighed
<1>5. s[m + 1].merge \in 1..N /\ w[s[m + 1].merge] = Fors(p, s, m)
  BY <1>2, <1>4 DEF FrameWeighed
<1>6. Fors(p, t, m) = Fors(p, s, m)
  BY <1>1, ForsSame
<1>7. t[1].line = s[1].line
  BY <1>1, <1>2
<1>8. FramesWeighed(p, t, w, N)
  BY <1>1, <1>3 DEF FramesWeighed
<1> QED BY <1>1, <1>5, <1>6, <1>7, <1>8 DEF Held

\* The innermost call, which is of no for loop, goes on with another arm.
LEMMA HeldPart ==
  ASSUME NEW p, NEW s, NEW l, NEW b, NEW w, NEW N, Held(p, s, l, b, w, N),
         NEW t, NEW m, NextIn(s, t, m), p[t[m].line].kind \in {"if", "match"},
         t[m].next \in 1..N, w[t[m].next] = Fors(p, s, m), t[m].dflt \in 1..N, w[t[m].dflt] = Fors(p, s, m),
         NEW h \in 1..N, w[h] = Fors(p, s, m)
  PROVE  Held(p, t, l, h, w, N)
<1>1. /\ m \in Nat \ {0} /\ Len(s) = m /\ Len(t) = m /\ \A k \in 1..(m - 1) : t[k] = s[k]
      /\ t[m].line = s[m].line /\ t[m].merge = s[m].merge
  BY DEF NextIn
<1>2. (\A k \in 1..m : k \in 1..(m - 1) \/ k = m) /\ m \in 1..m /\ 1 \in 1..m /\ (m - 1) + 1 = m /\ m - 1 \in Nat
      /\ \A k \in 1..(m - 1) : k \in 1..m
  BY <1>1
<1>3. \A k \in 1..m : t[k].line = s[k].line
  BY <1>1, <1>2
<1>4. Fors(p, t, m) = Fors(p, s, m) /\ Fors(p, t, m - 1) = Fors(p, s, m - 1)
  BY <1>2, <1>3, ForsSame
<1>5. Fors(p, s, m) = Fors(p, s, m - 1)
  <2>1. Fors(p, s, (m - 1) + 1) = Fors(p, s, m - 1) \cup
          (IF p[s[(m - 1) + 1].line].kind = "for" THEN {s[(m - 1) + 1].line} ELSE {})
    BY <1>2, ForsInner
  <2>2. p[s[m].line].kind # "for"
    BY <1>1
  <2> QED BY <1>2, <2>1, <2>2
<1>6. FrameWeighed(p, t, m, w, N)
  <2>1. FrameWeighed(p, s, m, w, N)
    BY <1>1, <1>2 DEF Held, FramesWeighed
  <2> QED BY <1>1, <1>4, <1>5, <2>1 DEF FrameWeighed
<1>7. ASSUME NEW k \in 1..(m - 1), p[t[k].line].kind # "fn" PROVE FrameWeighed(p, t, k, w, N)
  <2>1. FrameWeighed(p, s, k, w, N) /\ t[k] = s[k] /\ k \in Nat
    BY <1>1, <1>2, <1>7 DEF Held, FramesWeighed
  <2>2. \A j \in 1..k : t[j].line = s[j].line
    <3>1. \A j \in 1..k : j \in 1..m
      BY <1>1
    <3> QED BY <1>3, <3>1
  <2> QED BY <2>1, <2>2, FrameSame
<1>8. FramesWeighed(p, t, w, N)
  BY <1>1, <1>2, <1>6, <1>7 DEF FramesWeighed
<1> QED BY <1>1, <1>2, <1>3, <1>4, <1>8 DEF Held

----------------------------------------------------------------------------
(* The steps of the walk over a clean program, inside of a function.       *)

Sound(p, c, e, n, s, t, b, w) == Weighed(p, c, e, n, w) /\ Held(p, s, t, b, w, Len(c))

LEMMA SoundHere ==
  ASSUME CloseInv, Clean(prog), open # <<>>, NEW w, Sound(prog, code, entry, at, open, labels, block, w)
  PROVE  /\ Weighed(prog, code, entry, at, w) /\ Held(prog, open, labels, block, w, Len(code))
         /\ Len(code) \in Nat /\ at \in Nat \ {0} /\ at \in Nat /\ at + 1 \in Nat /\ at <= at + 1
         /\ Len(open) \in Nat \ {0} /\ Walked(prog, open, at) /\ Rooted(prog) /\ PlaceInv /\ ~errors /\ TypeInv
         /\ block \in 1..Len(code) /\ w[block] = Fors(prog, open, Len(open))
         /\ Frames(open) /\ Top = open[Len(open)] /\ Top.line < at /\ Top.line \in 1..Len(prog)
<1>1. PlaceInv /\ ~errors
  BY CloseHere
<1>2. /\ Len(open) \in Nat \ {0} /\ Walked(prog, open, at) /\ Rooted(prog) /\ Top = open[Len(open)]
      /\ Top.line < at /\ Top.line \in 1..Len(prog)
  BY <1>1, TopFacts
<1>3. TypeInv /\ Len(code) \in Nat /\ at \in Nat \ {0} /\ Frames(open)
  BY <1>1, Counts DEF PlaceInv
<1>4. at \in Nat /\ at + 1 \in Nat /\ at <= at + 1
  BY <1>3
<1>5. block \in 1..Len(code) /\ w[block] = Fors(prog, open, Len(open))
  BY DEF Sound, Held
<1> QED BY <1>1, <1>2, <1>3, <1>4, <1>5 DEF Sound

\* The innermost call, in terms of the iterators.
LEMMA SoundTop ==
  ASSUME CloseInv, Clean(prog), open # <<>>, NEW w, Sound(prog, code, entry, at, open, labels, block, w),
         prog[Top.line].kind # "fn"
  PROVE  /\ Len(open) # 1 /\ Top.merge \in 1..Len(code) /\ Top.next \in 1..Len(code) /\ Top.dflt \in 1..Len(code)
         /\ w[Top.next] = w[block] /\ w[Top.merge] \subseteq w[block]
         /\ w[Top.merge] = Fors(prog, open, Len(open) - 1) /\ w[Top.dflt] = w[Top.merge]
         /\ prog[Top.line].kind = "for" => Top.line \in w[block]
         /\ prog[Top.line].kind # "for" => w[Top.merge] = w[block]
<1>1. PICK m : m = Len(open)
  OBVIOUS
<1>2. /\ m \in Nat \ {0} /\ Top = open[m] /\ w[block] = Fors(prog, open, m) /\ PlaceInv /\ ~errors
      /\ Held(prog, open, labels, block, w, Len(code))
  BY <1>1, SoundHere
<1>3. m \in 1..m /\ m - 1 \in 0..m /\ m - 1 \in Nat /\ (m - 1) + 1 = m
  BY <1>2
<1>4. FrameWeighed(prog, open, m, w, Len(code))
  BY <1>1, <1>2, <1>3 DEF Held, FramesWeighed
<1>5. Fors(prog, open, m - 1) \subseteq Fors(prog, open, m)
  BY <1>2, <1>3, ForsOuter
<1>6. Fors(prog, open, m) = Fors(prog, open, m - 1) \cup (IF prog[Top.line].kind = "for" THEN {Top.line} ELSE {})
  <2>1. Fors(prog, open, (m - 1) + 1) = Fors(prog, open, m - 1) \cup
          (IF prog[open[(m - 1) + 1].line].kind = "for" THEN {open[(m - 1) + 1].line} ELSE {})
    BY ONLY <1>3, ForsInner
  <2> QED BY <1>2, <1>3, <2>1
<1>7. Len(open) # 1
  BY <1>2, TopFacts
<1> QED BY <1>1, <1>2, <1>4, <1>5, <1>6, <1>7 DEF FrameWeighed

\* An instruction without a body, that is not a label or a goto.
LEMMA SoundPlain ==
  ASSUME CloseInv, Clean(prog), open # <<>>, NEW w, Sound(prog, code, entry, at, open, labels, block, w),
         NEW c, \/ c = code
                \/ \E i : /\ c = Emit(code, block, i) /\ i.op # "init"
                          /\ InstrOK(prog, w, Len(code), at, i, w[block], Inits(code, block))
  PROVE  Sound(prog, c, entry, at + 1, open, labels, block, w)
<1>1. /\ Weighed(prog, code, entry, at, w) /\ Held(prog, open, labels, block, w, Len(code))
      /\ at \in Nat /\ at + 1 \in Nat /\ at <= at + 1 /\ block \in 1..Len(code)
  BY SoundHere
<1>2. Weighed(prog, c, entry, at, w) /\ Len(c) = Len(code)
  <2>1. CASE c = code
    BY <1>1, <2>1
  <2>2. CASE c # code
    <3>1. PICK i : /\ c = Emit(code, block, i) /\ i.op # "init"
                   /\ InstrOK(prog, w, Len(code), at, i, w[block], Inits(code, block))
      BY <2>2
    <3> QED BY ONLY <1>1, <3>1, WeighedEmit
  <2> QED BY <2>1, <2>2
<1>3. Weighed(prog, c, entry, at + 1, w)
  BY <1>1, <1>2, WeighedLater
<1> QED BY <1>1, <1>2, <1>3 DEF Sound

\* The targets of break and continue.
LEMMA LoopBlocks ==
  ASSUME CloseInv, Clean(prog), open # <<>>, NEW w, Sound(prog, code, entry, at, open, labels, block, w),
         InBody, Line.kind \in {"break", "continue"}
  PROVE  /\ exit \in 1..Len(code) /\ header \in 1..Len(code)
         /\ w[exit] \subseteq w[block] /\ w[header] \subseteq w[block]
<1>1. /\ PlaceInv /\ ~errors /\ Len(open) \in Nat \ {0} /\ Held(prog, open, labels, block, w, Len(code))
      /\ w[block] = Fors(prog, open, Len(open)) /\ TypeInv
  BY SoundHere
<1>2. exit # 0 /\ header # 0
  BY CloseHere, JumpTargets
<1>3. PICK k \in 1..Len(open) : prog[open[k].line].kind \in Loops /\ header = open[k].next /\ exit = open[k].merge
  BY <1>1, <1>2, Zenon DEF TypeInv, WalkInv, LoopTargets, InForce
<1>4. FrameWeighed(prog, open, k, w, Len(code))
  <2>1. prog[open[k].line].kind # "fn"
    BY <1>3 DEF Loops
  <2> QED BY <1>1, <2>1 DEF Held, FramesWeighed
<1>5. k \in 0..Len(open) /\ k - 1 \in 0..Len(open) /\ Len(open) \in Nat
  BY <1>1
<1>6. Fors(prog, open, k) \subseteq w[block] /\ Fors(prog, open, k - 1) \subseteq w[block]
  BY <1>1, <1>5, ForsOuter
<1> QED BY <1>3, <1>4, <1>6 DEF FrameWeighed

LEMMA SoundQuiet ==
  ASSUME CloseInv, Clean(prog), NEW w, Sound(prog, code, entry, at, open, labels, block, w),
         Declare \/ Use \/ Return \/ Break \/ Continue
  PROVE  Sound(prog, code', entry', at', open', labels', block', w)
<1>1. /\ open # <<>> /\ InBody /\ at' = at + 1 /\ UNCHANGED <<entry, open, labels, block>>
  BY DEF Declare, Use, Return, Break, Continue, LoopJump, Ready, InBody, Next1
<1>2. PICK c : c = code'
  OBVIOUS
<1>3. PICK I : I = Inits(code, block)
  OBVIOUS
<1>4. \/ c = code
      \/ \E op \in {"use", "ret"} : c = Emit(code, block, Instr(op, at, <<>>))
      \/ Line.kind = "break" /\ c = Emit(code, block, Br(exit))
      \/ Line.kind = "continue" /\ c = Emit(code, block, Br(header))
  BY <1>2 DEF Declare, Use, Return, Break, Continue, LoopJump, Ready
<1>5. \/ c = code
      \/ \E i : /\ c = Emit(code, block, i) /\ i.op # "init"
                /\ InstrOK(prog, w, Len(code), at, i, w[block], I)
  <2>1. CASE \E op \in {"use", "ret"} : c = Emit(code, block, Instr(op, at, <<>>))
    BY <2>1, InstrsOK
  <2>2. CASE Line.kind = "break" /\ c = Emit(code, block, Br(exit))
    <3>1. exit \in 1..Len(code) /\ w[exit] \subseteq w[block] \cup I
      BY <1>1, <2>2, LoopBlocks
    <3>2. InstrOK(prog, w, Len(code), at, Br(exit), w[block], I) /\ Br(exit).op # "init"
      BY ONLY <3>1, InstrsOK
    <3> QED BY <2>2, <3>2
  <2>3. CASE Line.kind = "continue" /\ c = Emit(code, block, Br(header))
    <3>1. header \in 1..Len(code) /\ w[header] \subseteq w[block] \cup I
      BY <1>1, <2>3, LoopBlocks
    <3>2. InstrOK(prog, w, Len(code), at, Br(header), w[block], I) /\ Br(header).op # "init"
      BY ONLY <3>1, InstrsOK
    <3> QED BY <2>3, <3>2
  <2> QED BY <1>4, <2>1, <2>2, <2>3
<1>6. Sound(prog, c, entry, at + 1, open, labels, block, w)
  BY <1>1, <1>3, <1>5, SoundPlain
<1> QED BY <1>1, <1>2, <1>6

\* The one label that a goto or a label names.
LabelIs(p, f, x, j) ==
  \A i \in 1..Len(p) : p[i].kind = "label" /\ p[i].name = x /\ FnOf(p, i) = f => i = j

\* Line j is that label, and of function f.
LabelSpot(p, f, x, j) ==
  /\ j \in 1..Len(p) /\ LabelIs(p, f, x, j)
  /\ p[j].kind = "label" /\ p[j].name = x /\ FnOf(p, j) = f

\* The names have the blocks they had, but for x, which has y.
Labelled(c, t, x, d, y, u) ==
  LabelMade(c, t, x, d, y, u) /\ u[x] = y /\ \A l \in Labels : l # x => u[l] = t[l]

LEMMA TheLabel ==
  ASSUME CloseInv, Clean(prog), open # <<>>, InBody, Line.kind \in {"goto", "label"}
  PROVE  \E j \in 1..Len(prog) :
           /\ LabelIs(prog, open[1].line, Line.name, j)
           /\ ForsAround(prog, j) \subseteq ForsAround(prog, at)
           /\ prog[j].kind = "label" /\ prog[j].name = Line.name /\ FnOf(prog, j) = open[1].line
           /\ Line.kind = "label" => j = at
<1>1. PlaceInv /\ ~errors /\ open[1].line < at /\ open[1].line \in 1..Len(prog)
  BY CloseHere
<1>2. at \in 1..Len(prog) /\ Line = prog[at] /\ prog[at].depth = Len(open) /\ Len(open) \in Nat \ {0}
  BY CloseInside
<1>3. Walked(prog, open, at) /\ Rooted(prog) /\ at \in Nat
  BY <1>1, TopFacts
<1>4. HasDepths(prog)
  BY <1>3, TreeFacts
<1>5. FnOf(prog, at) = open[1].line
  <2>1. Walked(prog, open, at) /\ Len(open) # 0 /\ at \in 1..Len(prog) /\ open[1].line < at /\ at <= at
        /\ prog[at].depth # 0
    BY <1>1, <1>2, <1>3
  <2> QED BY ONLY <2>1, InTheFn
<1>6. \A i \in 1..Len(prog) : prog[i].kind = "label" /\ prog[i].name = Line.name /\ FnOf(prog, i) = open[1].line
        <=> i \in LabelLines(prog, at)
  BY <1>2, <1>5 DEF LabelLines
<1>7. PICK j : j \in LabelLines(prog, at) /\ (Line.kind = "label" => j = at)
  <2>1. CASE Line.kind = "label"
    <3>1. at \in LabelLines(prog, at)
      BY <1>2, <2>1 DEF LabelLines
    <3> QED BY <3>1
  <2>2. CASE Line.kind = "goto"
    BY <1>2, <2>2 DEF Clean, WellStructured, LabelsDeclared
  <2> QED BY <2>1, <2>2
<1>8. j \in 1..Len(prog) /\ prog[j].kind = "label" /\ prog[j].name = Line.name /\ FnOf(prog, j) = open[1].line
  BY <1>2, <1>5, <1>7 DEF LabelLines
<1>9. LabelIs(prog, open[1].line, Line.name, j)
  <2>1. LabelLines(prog, j) = {j}
    BY <1>8 DEF Clean, WellStructured, LabelsUnique
  <2>2. LabelLines(prog, j) = LabelLines(prog, at)
    BY <1>2, <1>5, <1>8 DEF LabelLines
  <2> QED BY <1>6, <2>1, <2>2 DEF LabelIs
<1>10. ASSUME NEW i \in ForsAround(prog, j) PROVE i \in ForsAround(prog, at)
  <2>1. i \in 1..Len(prog) /\ prog[i].kind = "for" /\ In(prog, i, j)
    BY DEF ForsAround
  <2>2. CASE Line.kind = "label"
    BY <1>7, <2>2
  <2>3. CASE Line.kind = "goto"
    <3>1. Encloses(prog, i, j)
      BY <1>4, <1>8, <2>1, EnclosesIs
    <3>2. Encloses(prog, i, at)
      BY <1>2, <1>7, <1>8, <2>1, <2>3, <3>1 DEF Clean, WellStructured, NoJumpIntoFor
    <3>3. In(prog, i, at)
      BY <1>2, <1>4, <2>1, <3>2, EnclosesIs
    <3> QED BY <2>1, <3>3 DEF ForsAround
  <2> QED BY <2>2, <2>3
<1> QED BY <1>7, <1>8, <1>9, <1>10

\* The block of a label, which may be a new one.
LEMMA LabelWeighed ==
  ASSUME NEW p, NEW c, NEW e, NEW n, NEW w, Weighed(p, c, e, n, w),
         NEW s, NEW t, NEW b, Held(p, s, t, b, w, Len(c)),
         NEW x, x \in Labels, NEW j, LabelSpot(p, s[1].line, x, j),
         NEW d, NEW y, NEW u, Labelled(c, t, x, d, y, u)
  PROVE  \E v : /\ Weighed(p, d, e, n, v) /\ Held(p, s, u, b, v, Len(d)) /\ v[b] = w[b]
                /\ y \in 1..Len(d) /\ v[y] = ForsAround(p, j)
<1>1. /\ u[x] = y /\ \A l \in Labels : l # x => u[l] = t[l]
      /\ LabelMade(c, t, x, d, y, u) /\ j \in 1..Len(p) /\ LabelIs(p, s[1].line, x, j)
      /\ p[j].kind = "label" /\ p[j].name = x /\ FnOf(p, j) = s[1].line
  BY DEF Labelled, LabelSpot
<1>2. CASE t[x] # 0
  <2>1. d = c /\ y = t[x]
    BY <1>1, <1>2 DEF LabelMade
  <2>2. y \in 1..Len(c) /\ w[y] = ForsAround(p, j)
    BY <1>1, <1>2, <2>1 DEF Held, LabelsWeighed
  <2>3. LabelsWeighed(p, s[1].line, u, w, Len(c))
    <3>1. \A l \in Labels : u[l] = t[l]
      BY <1>1, <2>1
    <3> QED BY <3>1 DEF Held, LabelsWeighed
  <2>4. Held(p, s, u, b, w, Len(c))
    BY <2>3 DEF Held
  <2> QED BY <2>1, <2>2, <2>4
<1>3. CASE t[x] = 0
  <2>1. PICK m : m = Len(c)
    OBVIOUS
  <2>2. d = NewBlocks(c, 1) /\ y = m + 1
    BY <1>1, <1>3, <2>1 DEF LabelMade
  <2>3. m \in Nat
    <3>1. IsSequence(c)
      BY DEF Weighed, IsCode
    <3> QED BY <2>1, <3>1, SequenceLength
  <2>4. PICK v : v = [a \in 1..(m + 1) |-> IF a = m + 1 THEN ForsAround(p, j) ELSE w[a]]
    OBVIOUS
  <2>5. m + 1 \in 1..(m + 1) /\ (\A a \in 1..m : a \in 1..(m + 1) /\ a # m + 1) /\ m <= m + 1 /\ m + 1 \in Nat
    BY <2>3
  <2>6. v[m + 1] = ForsAround(p, j) /\ Agree(v, w, m)
    BY <2>4, <2>5 DEF Agree
  <2>7. Weighed(p, d, e, n, v) /\ Len(d) = m + 1
    BY <2>1, <2>2, <2>6, WeighedMore
  <2>8. Held(p, s, t, b, v, m + 1)
    BY <2>1, <2>3, <2>5, <2>6, HeldMore
  <2>9. LabelsWeighed(p, s[1].line, u, v, m + 1)
    <3> SUFFICES ASSUME NEW l \in Labels, u[l] # 0
                 PROVE  /\ u[l] \in 1..(m + 1)
                        /\ \A i \in 1..Len(p) : p[i].kind = "label" /\ p[i].name = l /\ FnOf(p, i) = s[1].line =>
                             v[u[l]] = ForsAround(p, i)
      BY DEF LabelsWeighed
    <3>1. CASE l = x
      BY <1>1, <2>2, <2>5, <2>6, <3>1 DEF LabelIs
    <3>2. CASE l # x
      BY <1>1, <2>8, <3>2 DEF Held, LabelsWeighed
    <3> QED BY <3>1, <3>2
  <2>10. Held(p, s, u, b, v, m + 1)
    BY <2>8, <2>9 DEF Held
  <2>11. v[b] = w[b]
    BY <2>1, <2>6 DEF Agree, Held
  <2> QED BY <2>2, <2>5, <2>6, <2>7, <2>10, <2>11
<1> QED BY <1>2, <1>3

\* Where the builder goes among the same calls and labels does not matter to
\* them.
LEMMA HeldAt ==
  ASSUME NEW p, NEW s, NEW t, NEW b, NEW w, NEW N, Held(p, s, t, b, w, N), NEW a \in 1..N, w[a] = w[b]
  PROVE  Held(p, s, t, a, w, N)
BY DEF Held

LEMMA SoundLabels ==
  ASSUME CloseInv, Clean(prog), NEW w, Sound(prog, code, entry, at, open, labels, block, w),
         GotoLabel \/ Label
  PROVE  \E v : Sound(prog, code', entry', at', open', labels', block', v)
<1>1. /\ open # <<>> /\ InBody /\ at' = at + 1 /\ UNCHANGED <<entry, open>>
      /\ Line.kind \in {"goto", "label"}
  BY DEF GotoLabel, Label, Ready, InBody, Next1
<1>2. /\ Weighed(prog, code, entry, at, w) /\ Held(prog, open, labels, block, w, Len(code))
      /\ at \in Nat /\ at + 1 \in Nat /\ at <= at + 1 /\ TypeInv /\ block \in 1..Len(code)
      /\ Walked(prog, open, at) /\ w[block] = Fors(prog, open, Len(open))
  BY <1>1, SoundHere
<1>3. at \in 1..Len(prog) /\ Line = prog[at] /\ prog[at].depth = Len(open) /\ at <= Len(prog) /\ Len(open) \in Nat
  <2>1. at \in 1..Len(prog) /\ Line = prog[at] /\ prog[at].depth = Len(open) /\ Len(open) \in Nat
    BY <1>1, CloseInside
  <2> QED BY <1>2, <2>1, Counts
<1>4. w[block] = ForsAround(prog, at)
  <2>1. prog[at].depth >= Len(open)
    BY <1>3
  <2> QED BY <1>2, <1>3, <2>1, AroundIs
<1>5. PICK x : x = Line.name
  OBVIOUS
<1>6. x \in Labels /\ labels \in [Labels -> 0..Len(code)]
  BY <1>2, <1>5, LabelNames
<1>7. PICK j \in 1..Len(prog) :
        /\ LabelIs(prog, open[1].line, x, j) /\ ForsAround(prog, j) \subseteq ForsAround(prog, at)
        /\ prog[j].kind = "label" /\ prog[j].name = x /\ FnOf(prog, j) = open[1].line
        /\ Line.kind = "label" => j = at
  BY <1>1, <1>5, TheLabel
<1>8. PICK y : y = LabelBlock
  OBVIOUS
<1>9. PICK d : d = LabelCode
  OBVIOUS
<1>10. PICK u : u = [labels EXCEPT ![x] = y]
  OBVIOUS
<1>11. labels' = u
  BY <1>5, <1>8, <1>10 DEF GotoLabel, Label
<1>12. Labelled(code, labels, x, d, y, u)
  <2>1. y = IF labels[x] = 0 THEN Len(code) + 1 ELSE labels[x]
    BY <1>5, <1>8 DEF LabelBlock, Fresh
  <2>2. d = IF labels[x] = 0 THEN NewBlocks(code, 1) ELSE code
    BY <1>5, <1>9 DEF LabelCode
  <2>3. u[x] = y /\ \A l \in Labels : l # x => u[l] = labels[l]
    BY <1>6, <1>10
  <2> QED BY <1>10, <2>1, <2>2, <2>3 DEF Labelled, LabelMade
<1>13. PICK v : /\ Weighed(prog, d, entry, at, v) /\ Held(prog, open, u, block, v, Len(d)) /\ v[block] = w[block]
                /\ y \in 1..Len(d) /\ v[y] = ForsAround(prog, j)
  <2>1. Weighed(prog, code, entry, at, w) /\ Held(prog, open, labels, block, w, Len(code)) /\ x \in Labels
    BY <1>2, <1>6
  <2>2. LabelSpot(prog, open[1].line, x, j)
    BY <1>7 DEF LabelSpot
  <2> QED BY ONLY <1>12, <2>1, <2>2, LabelWeighed
<1>14. PICK i : i = Br(y)
  OBVIOUS
<1>15. PICK I : I = Inits(d, block)
  OBVIOUS
<1>16. block \in 1..Len(d) /\ v[y] \subseteq v[block] \cup I
  BY <1>4, <1>7, <1>13 DEF Held
<1>17. i.op # "init" /\ InstrOK(prog, v, Len(d), at, i, v[block], I)
  BY ONLY <1>13, <1>14, <1>16, InstrsOK
<1>18. PICK c : c = code'
  OBVIOUS
<1>19. CASE GotoLabel
  <2>1. c = Emit(d, block, i) /\ block' = block
    BY <1>8, <1>9, <1>14, <1>18, <1>19 DEF GotoLabel
  <2>2. Weighed(prog, c, entry, at, v) /\ Len(c) = Len(d)
    BY ONLY <1>2, <1>13, <1>15, <1>16, <1>17, <2>1, WeighedEmit
  <2>3. Weighed(prog, c, entry, at + 1, v)
    BY <1>2, <2>2, WeighedLater
  <2>4. Sound(prog, c, entry, at + 1, open, u, block, v)
    BY <1>13, <2>2, <2>3 DEF Sound
  <2> QED BY <1>1, <1>11, <1>18, <2>1, <2>4
<1>20. CASE Label
  <2>1. c = EmitUnlessTerminated(d, block, i) /\ block' = y /\ Line.kind = "label"
    BY <1>8, <1>9, <1>14, <1>18, <1>20 DEF Label, Ready
  <2>2. Weighed(prog, c, entry, at, v) /\ Len(c) = Len(d)
    BY ONLY <1>2, <1>13, <1>15, <1>16, <1>17, <2>1, WeighedJoin
  <2>3. Weighed(prog, c, entry, at + 1, v)
    BY <1>2, <2>2, WeighedLater
  <2>4. v[y] = v[block]
    BY <1>4, <1>7, <1>13, <2>1
  <2>5. Held(prog, open, u, y, v, Len(d))
    BY <1>13, <2>4, HeldAt
  <2>6. Sound(prog, c, entry, at + 1, open, u, y, v)
    BY <2>2, <2>3, <2>5 DEF Sound
  <2> QED BY <1>1, <1>11, <1>18, <2>1, <2>6
<1> QED BY <1>19, <1>20

\* A call is made.
LEMMA SoundPush ==
  ASSUME CloseInv, Clean(prog), open # <<>>, NEW w, Sound(prog, code, entry, at, open, labels, block, w),
         NEW v, Agree(v, w, Len(code)), NEW c, Len(code) <= Len(c), Weighed(prog, c, entry, at + 1, v),
         NEW f, IsFrame(f), f.line = at, f.merge \in 1..Len(c), f.next \in 1..Len(c), f.dflt = f.merge,
         v[f.merge] = w[block], v[f.next] = w[block] \cup (IF prog[at].kind = "for" THEN {at} ELSE {}),
         NEW h, h \in 1..Len(c), v[h] = v[f.next]
  PROVE  Sound(prog, c, entry, at + 1, Append(open, f), labels, h, v)
<1>1. PICK m : m = Len(open)
  OBVIOUS
<1>2. PICK s : s = Append(open, f)
  OBVIOUS
<1>3. PICK N : N = Len(c)
  OBVIOUS
<1>4. /\ Held(prog, open, labels, block, w, Len(code)) /\ Len(code) \in Nat /\ m \in Nat \ {0} /\ TypeInv
      /\ w[block] = Fors(prog, open, m) /\ Frames(open)
  BY <1>1, SoundHere
<1>5. N \in Nat
  <2>1. IsSequence(c)
    BY DEF Weighed, IsCode
  <2> QED BY <1>3, <2>1, SequenceLength
<1>6. Held(prog, open, labels, block, v, N)
  BY <1>3, <1>4, <1>5, HeldMore
<1>7. Shorter(s, open, m) /\ f = s[m + 1] /\ m # 0
  <2>1. Len(s) = Len(open) + 1 /\ s[Len(open) + 1] = f /\ \A k \in 1..Len(open) : s[k] = open[k]
    BY <1>2, <1>4, PushFrame
  <2> QED BY <1>1, <1>4, <2>1 DEF Shorter
<1>8. /\ h \in 1..N /\ f.merge \in 1..N /\ f.next \in 1..N /\ f.dflt = f.merge
      /\ v[f.merge] = Fors(prog, open, m)
      /\ v[f.next] = Fors(prog, open, m) \cup (IF prog[f.line].kind = "for" THEN {f.line} ELSE {})
      /\ v[h] = v[f.next]
  <2>1. f.line = at
    OBVIOUS
  <2> QED BY ONLY <1>3, <1>4, <2>1, h \in 1..Len(c), f.merge \in 1..Len(c), f.next \in 1..Len(c), f.dflt = f.merge,
                  v[f.merge] = w[block], v[f.next] = w[block] \cup (IF prog[at].kind = "for" THEN {at} ELSE {}),
                  v[h] = v[f.next]
<1>9. Held(prog, s, labels, h, v, N)
  BY ONLY <1>6, <1>7, <1>8, HeldPush
<1> QED BY <1>2, <1>3, <1>9 DEF Sound

\* A branch on a condition.
LEMMA CondOK ==
  ASSUME NEW p, NEW w, NEW N, NEW n, NEW V, NEW I, NEW l, NEW a, a \in 1..N, NEW b, b \in 1..N,
         w[a] \subseteq V, w[b] \subseteq V, p[l].kind = "for" => l \in V
  PROVE  InstrOK(p, w, N, n, CondBr(l, a, b), V, I) /\ CondBr(l, a, b).op # "init"
BY InstrsOK

LEMMA SoundLoop ==
  ASSUME CloseInv, Clean(prog), NEW w, Sound(prog, code, entry, at, open, labels, block, w), Loop
  PROVE  \E v : Sound(prog, code', entry', at', open', labels', block', v)
<1>1. PICK kind \in Loops :
        /\ Ready(kind) /\ UNCHANGED <<entry, labels>>
        /\ IF kind = "while" /\ ~Known THEN TRUE
           ELSE /\ code' = Emit(Emit(NewBlocks(IF kind = "for" THEN Emit(code, block, Instr("init", at, <<>>)) ELSE code, 3),
                                     block, Br(Fresh(1))), Fresh(1),
                                IF kind \in {"while", "for"} THEN CondBr(at, Fresh(2), Fresh(3)) ELSE Br(Fresh(2)))
                /\ block' = Fresh(2)
                /\ open' = Append(open, Frame(Fresh(3), Fresh(1)))
                /\ at' = at + 1
  BY DEF Loop, Next1
<1>2. open # <<>> /\ InBody /\ Line.kind = kind /\ at <= Len(prog)
  BY <1>1 DEF Ready, InBody
<1>3. kind = "while" => Known
  <2> HAVE kind = "while"
  <2>1. NamesInv /\ InOrder(prog) /\ ~errors /\ ReadsName(prog, at)
    BY <1>2, CloseHere DEF ReadsName, Line
  <2> QED BY <1>2, <2>1, KnownNames
<1>4. PICK n : n = Len(code)
  OBVIOUS
<1>5. PICK F : F = w[block]
  OBVIOUS
<1>6. PICK G : G = F \cup (IF prog[at].kind = "for" THEN {at} ELSE {})
  OBVIOUS
<1>7. /\ Weighed(prog, code, entry, at, w) /\ Held(prog, open, labels, block, w, Len(code))
      /\ n \in Nat /\ at \in Nat \ {0} /\ at + 1 \in Nat /\ at <= at + 1 /\ block \in 1..n
      /\ prog[at].kind = kind
  <2>1. prog[at].kind = kind
    BY <1>2, CloseInside
  <2> QED BY <1>2, <1>4, <2>1, SoundHere
<1>8. /\ Fresh(1) = n + 1 /\ Fresh(2) = n + 2 /\ Fresh(3) = n + 3
      /\ n + 1 \in 1..(n + 3) /\ n + 2 \in 1..(n + 3) /\ n + 3 \in 1..(n + 3) /\ block \in 1..(n + 3)
      /\ n + 3 \in Nat /\ n <= n + 3 /\ \A a \in 1..n : a \in 1..(n + 3) /\ a # n + 1 /\ a # n + 2 /\ a # n + 3
  <2>1. Fresh(1) = n + 1 /\ Fresh(2) = n + 2 /\ Fresh(3) = n + 3
    BY <1>4 DEF Fresh
  <2>2. n \in Nat /\ block \in 1..n
    BY <1>7
  <2>3. /\ n + 1 \in 1..(n + 3) /\ n + 2 \in 1..(n + 3) /\ n + 3 \in 1..(n + 3) /\ block \in 1..(n + 3)
        /\ n + 3 \in Nat /\ n <= n + 3 /\ \A a \in 1..n : a \in 1..(n + 3) /\ a # n + 1 /\ a # n + 2 /\ a # n + 3
    BY ONLY <2>2
  <2> QED BY <2>1, <2>3
<1>9. PICK before : before = IF kind = "for" THEN Emit(code, block, Instr("init", at, <<>>)) ELSE code
  OBVIOUS
<1>10. PICK i : i = IF kind \in {"while", "for"} THEN CondBr(at, n + 2, n + 3) ELSE Br(n + 2)
  OBVIOUS
<1>11. /\ Weighed(prog, before, entry, at + 1, w) /\ Len(before) = n
       /\ kind = "for" => at \in Inits(before, block)
  <2>1. CASE kind = "for"
    <3>1. before = Emit(code, block, Instr("init", at, <<>>)) /\ prog[at].kind = "for" /\ block \in 1..Len(code)
      BY <1>4, <1>7, <1>9, <2>1
    <3>2. /\ Weighed(prog, before, entry, at + 1, w) /\ Len(before) = Len(code) /\ at \in Inits(before, block)
      BY <1>7, <3>1, WeighedInit
    <3> QED BY <1>4, <3>2
  <2>2. CASE kind # "for"
    <3>1. before = code
      BY <1>9, <2>2
    <3>2. Weighed(prog, code, entry, at + 1, w)
      BY <1>7, WeighedLater
    <3> QED BY <1>4, <2>2, <3>1, <3>2
  <2> QED BY <2>1, <2>2
<1>12. PICK v : v = [a \in 1..(n + 3) |-> IF a = n + 1 \/ a = n + 2 THEN G ELSE IF a = n + 3 THEN F ELSE w[a]]
  OBVIOUS
<1>13. v[n + 1] = G /\ v[n + 2] = G /\ v[n + 3] = F /\ v[block] = F /\ Agree(v, w, n)
  <2>1. v[n + 1] = G /\ v[n + 2] = G
    BY <1>8, <1>12
  <2>2. v[n + 3] = F
    <3>1. n + 3 # n + 1 /\ n + 3 # n + 2
      BY <1>7
    <3> QED BY <1>8, <1>12, <3>1
  <2>3. \A a \in 1..n : v[a] = w[a]
    BY <1>8, <1>12
  <2> QED BY <1>5, <1>7, <2>1, <2>2, <2>3 DEF Agree
<1>14. PICK c : c = NewBlocks(before, 3)
  OBVIOUS
<1>15. /\ Weighed(prog, c, entry, at + 1, v) /\ Len(c) = n + 3
       /\ Inits(c, block) = Inits(before, block)
  <2>1. Agree(v, w, Len(before)) /\ 3 \in Nat /\ block \in 1..Len(before)
    BY <1>7, <1>11, <1>13
  <2>2. /\ Weighed(prog, NewBlocks(before, 3), entry, at + 1, v) /\ Len(NewBlocks(before, 3)) = Len(before) + 3
        /\ \A b \in 1..Len(before) : Inits(NewBlocks(before, 3), b) = Inits(before, b)
    BY ONLY <1>11, <2>1, WeighedMore
  <2> QED BY <1>11, <1>14, <2>1, <2>2
<1>16. PICK r : r = Br(n + 1)
  OBVIOUS
<1>17. r.op # "init" /\ InstrOK(prog, v, Len(c), at + 1, r, v[block], Inits(c, block))
  <2>1. v[n + 1] \subseteq v[block] \cup Inits(c, block)
    BY <1>6, <1>7, <1>11, <1>13, <1>15
  <2>2. n + 1 \in 1..Len(c)
    BY <1>8, <1>15
  <2> QED BY ONLY <1>16, <2>1, <2>2, InstrsOK
<1>18. PICK d : d = Emit(c, block, r)
  OBVIOUS
<1>19. Weighed(prog, d, entry, at + 1, v) /\ Len(d) = n + 3
  <2>1. block \in 1..Len(c) /\ at + 1 \in Nat
    BY <1>7, <1>8, <1>15
  <2> QED BY ONLY <1>15, <1>17, <1>18, <2>1, WeighedEmit
<1>20. i.op # "init" /\ InstrOK(prog, v, Len(d), at + 1, i, v[n + 1], Inits(d, n + 1))
  <2>1. CASE kind \in {"while", "for"}
    <3>1. i = CondBr(at, n + 2, n + 3)
      BY <1>10, <2>1
    <3>2. n + 2 \in 1..Len(d) /\ n + 3 \in 1..Len(d) /\ v[n + 2] \subseteq v[n + 1] /\ v[n + 3] \subseteq v[n + 1]
      BY <1>6, <1>8, <1>13, <1>19
    <3>3. prog[at].kind = "for" => at \in v[n + 1]
      BY <1>6, <1>13
    <3>4. InstrOK(prog, v, Len(d), at + 1, CondBr(at, n + 2, n + 3), v[n + 1], Inits(d, n + 1))
          /\ CondBr(at, n + 2, n + 3).op # "init"
      BY ONLY <3>2, <3>3, CondOK
    <3> QED BY <3>1, <3>4
  <2>2. CASE kind \notin {"while", "for"}
    <3>1. i = Br(n + 2)
      BY <1>10, <2>2
    <3>2. n + 2 \in 1..Len(d) /\ v[n + 2] \subseteq v[n + 1] \cup Inits(d, n + 1)
      BY <1>8, <1>13, <1>19
    <3> QED BY ONLY <3>1, <3>2, InstrsOK
  <2> QED BY <2>1, <2>2
<1>21. PICK e : e = Emit(d, n + 1, i)
  OBVIOUS
<1>22. Weighed(prog, e, entry, at + 1, v) /\ Len(e) = n + 3
  <2>1. n + 1 \in 1..Len(d) /\ at + 1 \in Nat
    BY <1>7, <1>8, <1>19
  <2> QED BY ONLY <1>19, <1>20, <1>21, <2>1, WeighedEmit
<1>23. PICK f : f = Frame(n + 3, n + 1)
  OBVIOUS
<1>24. code' = e /\ block' = n + 2 /\ open' = Append(open, f) /\ at' = at + 1
  <2>1. ~(kind = "while" /\ ~Known)
    BY <1>3
  <2> QED BY <1>1, <1>8, <1>9, <1>10, <1>14, <1>16, <1>18, <1>21, <1>23, <2>1
<1>25. IsFrame(f) /\ f.line = at /\ f.merge = n + 3 /\ f.next = n + 1 /\ f.dflt = n + 3
  BY <1>23 DEF Frame, IsFrame
<1>26. Sound(prog, e, entry, at + 1, Append(open, f), labels, n + 2, v)
  <2>1. Agree(v, w, Len(code)) /\ Len(code) <= Len(e)
    BY <1>4, <1>8, <1>13, <1>22
  <2>2. f.merge \in 1..Len(e) /\ f.next \in 1..Len(e) /\ f.dflt = f.merge /\ n + 2 \in 1..Len(e)
    BY <1>8, <1>22, <1>25
  <2>3. /\ v[f.merge] = w[block] /\ v[n + 2] = v[f.next]
        /\ v[f.next] = w[block] \cup (IF prog[at].kind = "for" THEN {at} ELSE {})
    BY <1>5, <1>6, <1>13, <1>25
  <2>4. IsFrame(f) /\ f.line = at /\ open # <<>>
    BY <1>2, <1>25
  <2> QED BY <1>22, <2>1, <2>2, <2>3, <2>4, SoundPush
<1> QED BY <1>1, <1>24, <1>26

\* The innermost call returns.
LEMMA SoundPop ==
  ASSUME CloseInv, Clean(prog), open # <<>>, NEW w, Sound(prog, code, entry, at, open, labels, block, w),
         prog[Top.line].kind # "fn", NEW c, Weighed(prog, c, entry, at, w), Len(c) = Len(code)
  PROVE  Sound(prog, c, entry, at, Pop, labels, Top.merge, w)
<1>1. PICK m : m = Len(open) - 1
  OBVIOUS
<1>2. PICK s : s = Pop
  OBVIOUS
<1>3. /\ Held(prog, open, labels, block, w, Len(code)) /\ Len(open) \in Nat \ {0} /\ Len(open) # 1
      /\ Frames(open) /\ Top = open[Len(open)]
  BY SoundHere, SoundTop
<1>4. m \in Nat /\ m # 0 /\ Len(open) = m + 1
  BY <1>1, <1>3
<1>5. Shorter(open, s, m)
  <2>1. Len(s) = Len(open) - 1 /\ \A k \in 1..(Len(open) - 1) : s[k] = open[k]
    BY <1>2, <1>3, PopFrame DEF Pop
  <2> QED BY <1>1, <1>4, <2>1 DEF Shorter
<1>6. PICK f : f = open[m + 1]
  OBVIOUS
<1>7. prog[f.line].kind # "fn" /\ f = Top
  BY <1>3, <1>4, <1>6
<1>8. Held(prog, s, labels, f.merge, w, Len(c))
  <2>1. Held(prog, open, labels, block, w, Len(c)) /\ prog[open[m + 1].line].kind # "fn" /\ m # 0
    BY <1>3, <1>4, <1>6, <1>7
  <2>2. Held(prog, s, labels, open[m + 1].merge, w, Len(c))
    BY ONLY <1>5, <2>1, HeldPop
  <2> QED BY <1>6, <2>2
<1> QED BY <1>2, <1>7, <1>8 DEF Sound

\* The innermost call goes on with another arm.
LEMMA SoundPart ==
  ASSUME CloseInv, Clean(prog), open # <<>>, NEW w, Sound(prog, code, entry, at, open, labels, block, w),
         prog[Top.line].kind \in {"if", "match"},
         NEW v, Agree(v, w, Len(code)), NEW c, Len(code) <= Len(c), Weighed(prog, c, entry, at + 1, v),
         NEW f, IsFrame(f), f.line = Top.line, f.merge = Top.merge,
         f.next \in 1..Len(c), v[f.next] = w[block], f.dflt \in 1..Len(c), v[f.dflt] = w[block],
         NEW h, h \in 1..Len(c), v[h] = w[block]
  PROVE  Sound(prog, c, entry, at + 1, WithTop(open, f), labels, h, v)
<1>1. PICK m : m = Len(open)
  OBVIOUS
<1>2. PICK s : s = WithTop(open, f)
  OBVIOUS
<1>3. PICK N : N = Len(c)
  OBVIOUS
<1>4. /\ Held(prog, open, labels, block, w, Len(code)) /\ Len(code) \in Nat /\ m \in Nat \ {0}
      /\ w[block] = Fors(prog, open, m) /\ Frames(open) /\ Top = open[m]
  BY <1>1, SoundHere
<1>5. N \in Nat
  <2>1. IsSequence(c)
    BY DEF Weighed, IsCode
  <2> QED BY <1>3, <2>1, SequenceLength
<1>6. Held(prog, open, labels, block, v, N)
  BY <1>3, <1>4, <1>5, HeldMore
<1>7. Len(s) = m /\ s[m] = f /\ \A k \in 1..(m - 1) : s[k] = open[k]
  BY <1>1, <1>2, <1>4, SetFrame
<1>8. NextIn(open, s, m)
  <2>1. s[m].line = open[m].line /\ s[m].merge = open[m].merge
    BY <1>4, <1>7
  <2> QED BY <1>1, <1>4, <1>7, <2>1 DEF NextIn
<1>9. /\ prog[s[m].line].kind \in {"if", "match"}
      /\ s[m].next \in 1..N /\ v[s[m].next] = Fors(prog, open, m)
      /\ s[m].dflt \in 1..N /\ v[s[m].dflt] = Fors(prog, open, m)
      /\ h \in 1..N /\ v[h] = Fors(prog, open, m)
  BY <1>3, <1>4, <1>7
<1>10. Held(prog, s, labels, h, v, N)
  BY ONLY <1>6, <1>8, <1>9, HeldPart
<1> QED BY <1>2, <1>3, <1>10 DEF Sound

\* The branch from block b to a new block, the first of k, or elsewhere.
ArmBranch(p, w, N, n, b, k, i) ==
  \/ i = Br(N + 1)
  \/ /\ p[n].kind # "for"
     /\ \E y : /\ i = CondBr(n, N + 1, y)
               /\ (k = 2 /\ y = N + 2) \/ (y \in 1..N /\ w[y] \subseteq w[b])

\* It is emitted, and the new blocks are behind the allocas that b is behind.
ArmMade(p, c, e, n, w, b, k, d, v) ==
  /\ Agree(v, w, Len(c)) /\ \A a \in (Len(c) + 1)..(Len(c) + k) : v[a] = w[b]
  /\ Weighed(p, d, e, n, v) /\ Len(d) = Len(c) + k

LEMMA WeighedArm ==
  ASSUME NEW p, NEW c, NEW e, NEW n, n \in Nat, NEW w, Weighed(p, c, e, n, w), NEW b, b \in 1..Len(c),
         NEW k, k = 1 \/ k = 2, NEW i, ArmBranch(p, w, Len(c), n, b, k, i)
  PROVE  \E v : ArmMade(p, c, e, n, w, b, k, Emit(NewBlocks(c, k), b, i), v)
<1>1. PICK N : N = Len(c)
  OBVIOUS
<1>2. N \in Nat
  <2>1. IsSequence(c)
    BY DEF Weighed, IsCode
  <2> QED BY <1>1, <2>1, SequenceLength
<1>3. PICK v : v = [a \in 1..(N + k) |-> IF a \in 1..N THEN w[a] ELSE w[b]]
  OBVIOUS
<1>4. k \in Nat /\ (\A a \in 1..N : a \in 1..(N + k)) /\ N + 1 \in (N + 1)..(N + k) /\ (k = 2 => N + 2 \in (N + 1)..(N + k))
      /\ \A a \in (N + 1)..(N + k) : a \in 1..(N + k) /\ a \notin 1..N
  <2>1. N \in Nat /\ k \in {1, 2}
    BY <1>2
  <2> QED BY ONLY <2>1
<1>5. (\A a \in 1..N : v[a] = w[a]) /\ \A a \in (N + 1)..(N + k) : v[a] = w[b]
  BY <1>3, <1>4
<1>6. Agree(v, w, N)
  BY <1>5 DEF Agree
<1>7. PICK d : d = NewBlocks(c, k)
  OBVIOUS
<1>8. Weighed(p, d, e, n, v) /\ Len(d) = N + k
  BY <1>1, <1>4, <1>6, <1>7, WeighedMore
<1>9. i.op # "init" /\ InstrOK(p, v, Len(d), n, i, v[b], Inits(d, b))
  <2>1. CASE i = Br(N + 1)
    <3>1. N + 1 \in 1..Len(d) /\ v[N + 1] \subseteq v[b] \cup Inits(d, b)
      BY <1>1, <1>4, <1>5, <1>8
    <3> QED BY ONLY <2>1, <3>1, InstrsOK
  <2>2. CASE i # Br(N + 1)
    <3>1. PICK y : /\ i = CondBr(n, N + 1, y)
                   /\ (k = 2 /\ y = N + 2) \/ (y \in 1..N /\ w[y] \subseteq w[b])
      BY <1>1, <2>2 DEF ArmBranch
    <3>2. N + 1 \in 1..Len(d) /\ v[N + 1] \subseteq v[b]
      BY <1>1, <1>4, <1>5, <1>8
    <3>3. y \in 1..Len(d) /\ v[y] \subseteq v[b]
      BY <1>1, <1>4, <1>5, <1>8, <3>1
    <3>4. p[n].kind = "for" => n \in v[b]
      BY <1>1, <2>2 DEF ArmBranch
    <3>5. InstrOK(p, v, Len(d), n, CondBr(n, N + 1, y), v[b], Inits(d, b)) /\ CondBr(n, N + 1, y).op # "init"
      BY ONLY <3>2, <3>3, <3>4, CondOK
    <3> QED BY <3>1, <3>5
  <2> QED BY <2>1, <2>2
<1>10. Weighed(p, Emit(d, b, i), e, n, v) /\ Len(Emit(d, b, i)) = Len(d)
  <2>1. b \in 1..Len(d) /\ n \in Nat
    BY <1>1, <1>4, <1>8
  <2> QED BY ONLY <1>8, <1>9, <2>1, WeighedEmit
<1> QED BY <1>1, <1>5, <1>6, <1>7, <1>8, <1>10 DEF ArmMade

\* The body of an arm or a case is joined to the end.
LEMMA SoundJoined ==
  ASSUME CloseInv, Clean(prog), open # <<>>, NEW w, Sound(prog, code, entry, at, open, labels, block, w),
         prog[Top.line].kind \in {"if", "match"}
  PROVE  Weighed(prog, Joined, entry, at, w) /\ Len(Joined) = Len(code)
<1>1. PICK y : y = Top.merge
  OBVIOUS
<1>2. PICK I : I = Inits(code, block)
  OBVIOUS
<1>3. y \in 1..Len(code) /\ w[y] \subseteq w[block] \cup I
  BY <1>1, SoundTop
<1>4. PICK i : i = Br(y)
  OBVIOUS
<1>5. i.op # "init" /\ InstrOK(prog, w, Len(code), at, i, w[block], I)
  BY ONLY <1>3, <1>4, InstrsOK
<1>6. Weighed(prog, code, entry, at, w) /\ at \in Nat /\ block \in 1..Len(code)
  BY SoundHere
<1>7. Joined = EmitUnlessTerminated(code, block, i)
  BY <1>1, <1>4 DEF Joined
<1> QED BY ONLY <1>2, <1>5, <1>6, <1>7, WeighedJoin

LEMMA SoundEndArms ==
  ASSUME CloseInv, Clean(prog), NEW w, Sound(prog, code, entry, at, open, labels, block, w), EndArms
  PROVE  Sound(prog, code', entry', at', open', labels', block', w)
<1>1. /\ open # <<>> /\ prog[Top.line].kind \in {"if", "match"} /\ UNCHANGED <<entry, at, labels>>
      /\ code' \in {code, Joined} /\ block' = Top.merge /\ open' = Pop
  BY DEF EndArms
<1>2. PICK c : c = code'
  OBVIOUS
<1>3. Weighed(prog, c, entry, at, w) /\ Len(c) = Len(code)
  BY <1>1, <1>2, SoundJoined, SoundHere
<1>4. prog[Top.line].kind # "fn"
  BY <1>1
<1>5. Sound(prog, c, entry, at, Pop, labels, Top.merge, w)
  BY <1>1, <1>3, <1>4, SoundPop
<1> QED BY <1>1, <1>2, <1>5

LEMMA SoundEndLoop ==
  ASSUME CloseInv, Clean(prog), NEW w, Sound(prog, code, entry, at, open, labels, block, w), EndLoop
  PROVE  Sound(prog, code', entry', at', open', labels', block', w)
<1>1. /\ open # <<>> /\ prog[Top.line].kind \in Loops /\ UNCHANGED <<entry, at, labels>>
      /\ IF Terminated(code, block) THEN code' = code
         ELSE code' = BackEdge(prog[Top.line].kind, prog[Top.line].name)
      /\ block' = exit /\ open' = Pop
  BY DEF EndLoop
<1>2. prog[Top.line].kind # "fn"
  BY <1>1 DEF Loops
<1>3. exit = Top.merge /\ header = Top.next
  <2>1. TypeInv
    BY <1>1, SoundHere
  <2> QED BY <1>1, <2>1, Innermost
<1>4. /\ Weighed(prog, code, entry, at, w) /\ at \in Nat /\ block \in 1..Len(code)
  BY <1>1, SoundHere
<1>5. /\ exit \in 1..Len(code) /\ header \in 1..Len(code)
      /\ w[header] \subseteq w[block] /\ w[exit] \subseteq w[block]
      /\ prog[Top.line].kind = "for" => Top.line \in w[block]
  BY <1>1, <1>2, <1>3, SoundTop
<1>6. PICK c : c = code'
  OBVIOUS
<1>7. PICK l : l = Top.line
  OBVIOUS
<1>8. PICK V : V = w[block]
  OBVIOUS
<1>9. PICK N : N = Len(code)
  OBVIOUS
<1>10. ASSUME NEW y \in {header, exit}, NEW I
       PROVE  InstrOK(prog, w, N, at, Br(y), V, I) /\ Br(y).op # "init"
  <2>1. y \in 1..N /\ w[y] \subseteq V \cup I
    BY <1>5, <1>8, <1>9
  <2> QED BY ONLY <2>1, InstrsOK
<1>11. Weighed(prog, c, entry, at, w) /\ Len(c) = N
  <2>1. CASE c = code
    BY <1>4, <1>9, <2>1
  <2>2. CASE \E i : /\ c = Emit(code, block, i) /\ i.op # "init"
                    /\ InstrOK(prog, w, N, at, i, V, Inits(code, block))
    <3>1. PICK i : /\ c = Emit(code, block, i) /\ i.op # "init"
                   /\ InstrOK(prog, w, N, at, i, V, Inits(code, block))
      BY <2>2
    <3>2. i.op # "init" /\ InstrOK(prog, w, Len(code), at, i, w[block], Inits(code, block))
      BY ONLY <1>8, <1>9, <3>1
    <3>3. Weighed(prog, Emit(code, block, i), entry, at, w) /\ Len(Emit(code, block, i)) = Len(code)
      BY ONLY <1>4, <3>2, WeighedEmit
    <3> QED BY ONLY <1>9, <3>1, <3>3
  <2>3. CASE /\ prog[l].kind = "for"
             /\ c = Emit(Emit(code, block, Instr("step", l, <<>>)), block, Br(header))
    <3>1. PICK i : i = Instr("step", l, <<>>)
      OBVIOUS
    <3>2. l \in V
      BY <1>5, <1>7, <1>8, <2>3
    <3>3. i.op # "init" /\ InstrOK(prog, w, N, at, i, V, Inits(code, block))
      BY ONLY <3>1, <3>2, InstrsOK
    <3>4. PICK d : d = Emit(code, block, i)
      OBVIOUS
    <3>5. Weighed(prog, d, entry, at, w) /\ Len(d) = N
      BY ONLY <1>4, <1>8, <1>9, <3>3, <3>4, WeighedEmit
    <3>6. PICK j : j = Br(header)
      OBVIOUS
    <3>7. j.op # "init" /\ InstrOK(prog, w, N, at, j, V, Inits(d, block))
      BY <1>10, <3>6
    <3>8. c = Emit(d, block, j) /\ block \in 1..Len(d)
      BY <1>4, <1>9, <2>3, <3>1, <3>4, <3>5, <3>6
    <3> QED BY ONLY <1>4, <1>8, <3>5, <3>7, <3>8, WeighedEmit
  <2>4. CASE c = Emit(code, block, CondBr(l, header, exit)) /\ prog[l].kind = "dowhile"
    <3>1. header \in 1..N /\ exit \in 1..N /\ w[header] \subseteq V /\ w[exit] \subseteq V
      BY <1>5, <1>8, <1>9
    <3>2. prog[l].kind = "for" => l \in V
      BY <2>4
    <3>3. /\ InstrOK(prog, w, N, at, CondBr(l, header, exit), V, Inits(code, block))
          /\ CondBr(l, header, exit).op # "init"
      BY ONLY <3>1, <3>2, CondOK
    <3> QED BY <2>2, <2>4, <3>3
  <2>5. CASE c = Emit(code, block, Br(exit)) \/ c = Emit(code, block, Br(header))
    <3>1. PICK y \in {header, exit} : c = Emit(code, block, Br(y))
      BY <2>5
    <3>2. InstrOK(prog, w, N, at, Br(y), V, Inits(code, block)) /\ Br(y).op # "init"
      BY <1>10
    <3> QED BY <2>2, <3>1, <3>2
  <2>6. \/ c = code
        \/ /\ prog[l].kind = "for"
           /\ c = Emit(Emit(code, block, Instr("step", l, <<>>)), block, Br(header))
        \/ c = Emit(code, block, CondBr(l, header, exit)) /\ prog[l].kind = "dowhile"
        \/ c = Emit(code, block, Br(exit)) \/ c = Emit(code, block, Br(header))
    BY <1>1, <1>6, <1>7 DEF BackEdge
  <2> QED BY <2>1, <2>3, <2>4, <2>5, <2>6
<1>12. Sound(prog, c, entry, at, Pop, labels, Top.merge, w)
  BY <1>1, <1>2, <1>9, <1>11, SoundPop
<1> QED BY <1>1, <1>3, <1>6, <1>12

\* The code of an arm, and the block where its condition leads otherwise.
LEMMA ArmCode ==
  ASSUME NEW c, NEW b, NEW merge, NEW y, y = IF NextPart(prog, at) = 0 THEN merge ELSE Len(c) + 2
  PROVE  /\ Arm(c, b, merge).then = Len(c) + 1 /\ Arm(c, b, merge).else = y
         /\ Arm(c, b, merge).code = Emit(NewBlocks(c, ArmBlocks), b, CondBr(at, Len(c) + 1, y))
<1>1. Arm(c, b, merge) = [code |-> Emit(NewBlocks(c, ArmBlocks), b, CondBr(at, Len(c) + 1, y)),
                          then |-> Len(c) + 1, else |-> y]
  BY DEF Arm, ArmBlocks
<1> QED BY <1>1

LEMMA SoundIf ==
  ASSUME CloseInv, Clean(prog), NEW w, Sound(prog, code, entry, at, open, labels, block, w), If
  PROVE  \E v : Sound(prog, code', entry', at', open', labels', block', v)
<1>1. InBody /\ open # <<>> /\ Line.kind = "if" /\ at <= Len(prog) /\ UNCHANGED <<entry, labels>>
  BY DEF If, Ready, InBody
<1>2. Known
  <2>1. NamesInv /\ InOrder(prog) /\ ~errors /\ ReadsName(prog, at)
    BY <1>1, CloseHere DEF ReadsName, Line
  <2> QED BY <1>1, <2>1, KnownNames
<1>3. PICK n : n = Len(code)
  OBVIOUS
<1>4. PICK c : c = NewBlocks(code, 1)
  OBVIOUS
<1>5. PICK arm : arm = Arm(c, block, n + 1)
  OBVIOUS
<1>6. /\ code' = arm.code /\ block' = arm.then /\ at' = at + 1
      /\ open' = Append(open, Frame(n + 1, arm.else))
  BY <1>2, <1>3, <1>4, <1>5 DEF If, Fresh, Next1
<1>7. /\ Weighed(prog, code, entry, at, w) /\ n \in Nat /\ at \in Nat /\ at + 1 \in Nat /\ at <= at + 1
      /\ block \in 1..n /\ prog[at].kind = "if"
  <2>1. prog[at].kind = "if"
    BY <1>1, CloseInside
  <2> QED BY <1>1, <1>3, <2>1, SoundHere
<1>8. PICK F : F = w[block]
  OBVIOUS
<1>9. PICK u : u = [a \in 1..(n + 1) |-> IF a = n + 1 THEN F ELSE w[a]]
  OBVIOUS
<1>10. /\ n + 1 \in 1..(n + 1) /\ block \in 1..(n + 1) /\ n + 1 \in Nat
       /\ \A a \in 1..n : a \in 1..(n + 1) /\ a # n + 1
  BY <1>7
<1>11. u[n + 1] = F /\ u[block] = F /\ Agree(u, w, n)
  BY <1>7, <1>8, <1>9, <1>10 DEF Agree
<1>12. Weighed(prog, c, entry, at, u) /\ Len(c) = n + 1
  <2>1. Agree(u, w, Len(code)) /\ 1 \in Nat
    BY <1>3, <1>11
  <2>2. Weighed(prog, NewBlocks(code, 1), entry, at, u) /\ Len(NewBlocks(code, 1)) = Len(code) + 1
    BY ONLY <1>7, <2>1, WeighedMore
  <2> QED BY <1>3, <1>4, <2>2
<1>13. PICK k : k = ArmBlocks
  OBVIOUS
<1>14. k \in {1, 2} /\ (k = 1 <=> NextPart(prog, at) = 0)
  BY <1>13 DEF ArmBlocks
<1>15. PICK y : y = IF NextPart(prog, at) = 0 THEN n + 1 ELSE Len(c) + 2
  OBVIOUS
<1>16. PICK i : i = CondBr(at, Len(c) + 1, y)
  OBVIOUS
<1>17. arm.then = n + 2 /\ arm.else = y /\ arm.code = Emit(NewBlocks(c, k), block, i)
  <2>1. /\ arm.then = Len(c) + 1 /\ arm.else = y /\ arm.code = Emit(NewBlocks(c, k), block, i)
    BY <1>5, <1>13, <1>15, <1>16, ArmCode
  <2>2. Len(c) + 1 = n + 2
    BY <1>7, <1>12
  <2> QED BY <2>1, <2>2
<1>18. ArmBranch(prog, u, Len(c), at, block, k, i)
  <2>1. CASE k = 1
    <3>1. y = n + 1 /\ y \in 1..Len(c) /\ u[y] \subseteq u[block]
      BY <1>10, <1>11, <1>12, <1>14, <1>15, <2>1
    <3> QED BY <1>7, <1>16, <3>1 DEF ArmBranch
  <2>2. CASE k = 2
    <3>1. y = Len(c) + 2
      BY <1>14, <1>15, <2>2
    <3> QED BY <1>7, <1>16, <2>2, <3>1 DEF ArmBranch
  <2> QED BY <1>14, <2>1, <2>2
<1>19. PICK d : d = Emit(NewBlocks(c, k), block, i)
  OBVIOUS
<1>20. PICK v : /\ Agree(v, u, Len(c)) /\ (\A a \in (Len(c) + 1)..(Len(c) + k) : v[a] = u[block])
                /\ Weighed(prog, d, entry, at, v) /\ Len(d) = Len(c) + k
  <2>1. block \in 1..Len(c)
    BY <1>10, <1>12
  <2>2. at \in Nat /\ Weighed(prog, c, entry, at, u) /\ (k = 1 \/ k = 2)
    BY <1>7, <1>12, <1>14
  <2>3. \E v : ArmMade(prog, c, entry, at, u, block, k, Emit(NewBlocks(c, k), block, i), v)
    BY ONLY <1>18, <2>1, <2>2, WeighedArm
  <2> QED BY <1>19, <2>3 DEF ArmMade
<1>21. Len(d) = n + 1 + k /\ n + 1 \in 1..Len(d) /\ n + 2 \in 1..Len(d) /\ y \in 1..Len(d) /\ n <= Len(d)
  <2>1. n \in Nat /\ k \in {1, 2} /\ Len(d) = (n + 1) + k /\ (k = 1 => y = n + 1) /\ (k = 2 => y = (n + 1) + 2)
    BY <1>7, <1>12, <1>14, <1>15, <1>20
  <2> QED BY ONLY <2>1
<1>22. Agree(v, w, n) /\ v[n + 1] = F /\ v[n + 2] = F /\ v[y] = F
  <2>1. \A a \in 1..(n + 1) : v[a] = u[a]
    BY <1>12, <1>20 DEF Agree
  <2>2. \A a \in 1..n : v[a] = w[a]
    BY <1>10, <1>11, <2>1 DEF Agree
  <2>3. v[n + 1] = F
    BY <1>10, <1>11, <2>1
  <2>4. \A a \in (n + 2)..(n + 1 + k) : v[a] = F
    <3>1. (n + 1) + 1 = n + 2
      BY <1>7
    <3> QED BY <1>11, <1>12, <1>20, <3>1
  <2>5. /\ n + 2 \in (n + 2)..(n + 1 + k) /\ (k = 2 => (n + 1) + 2 \in (n + 2)..(n + 1 + k))
        /\ (k = 1 => y = n + 1) /\ (k = 2 => y = (n + 1) + 2)
    <3>1. n \in Nat /\ k \in {1, 2}
      BY <1>7, <1>14
    <3>2. n + 2 \in (n + 2)..(n + 1 + k) /\ (k = 2 => (n + 1) + 2 \in (n + 2)..(n + 1 + k))
      BY ONLY <3>1
    <3> QED BY <1>12, <1>14, <1>15, <3>2
  <2> QED BY <1>14, <2>2, <2>3, <2>4, <2>5 DEF Agree
<1>23. PICK f : f = Frame(n + 1, y)
  OBVIOUS
<1>24. IsFrame(f) /\ f.line = at /\ f.merge = n + 1 /\ f.next = y /\ f.dflt = n + 1
  BY <1>23 DEF Frame, IsFrame
<1>25. Sound(prog, d, entry, at + 1, Append(open, f), labels, n + 2, v)
  <2>1. Weighed(prog, d, entry, at + 1, v)
    BY <1>7, <1>20, WeighedLater
  <2>2. Agree(v, w, Len(code)) /\ Len(code) <= Len(d)
    BY <1>3, <1>21, <1>22
  <2>3. f.merge \in 1..Len(d) /\ f.next \in 1..Len(d) /\ f.dflt = f.merge /\ n + 2 \in 1..Len(d)
    BY <1>21, <1>24
  <2>4. /\ v[f.merge] = w[block] /\ v[n + 2] = v[f.next]
        /\ v[f.next] = w[block] \cup (IF prog[at].kind = "for" THEN {at} ELSE {})
    BY <1>7, <1>8, <1>22, <1>24
  <2> QED BY <1>1, <1>24, <2>1, <2>2, <2>3, <2>4, SoundPush
<1> QED BY <1>1, <1>6, <1>17, <1>19, <1>23, <1>25

LEMMA SoundMatch ==
  ASSUME CloseInv, Clean(prog), NEW w, Sound(prog, code, entry, at, open, labels, block, w), Match
  PROVE  \E v : Sound(prog, code', entry', at', open', labels', block', v)
<1>1. InBody /\ open # <<>> /\ Line.kind = "match" /\ at <= Len(prog) /\ UNCHANGED <<entry, labels>>
  BY DEF Match, Ready, InBody
<1>2. Known
  <2>1. NamesInv /\ InOrder(prog) /\ ~errors /\ ReadsName(prog, at)
    BY <1>1, CloseHere DEF ReadsName, Line
  <2> QED BY <1>1, <2>1, KnownNames
<1>3. PICK n : n = Len(code)
  OBVIOUS
<1>4. /\ code' = NewBlocks(code, 1) /\ block' = block /\ at' = at + 1
      /\ open' = Append(open, Frame(n + 1, block))
  BY <1>2, <1>3 DEF Match, Fresh, Next1
<1>5. /\ Weighed(prog, code, entry, at, w) /\ n \in Nat /\ at \in Nat /\ at + 1 \in Nat /\ at <= at + 1
      /\ block \in 1..n /\ prog[at].kind = "match"
  <2>1. prog[at].kind = "match"
    BY <1>1, CloseInside
  <2> QED BY <1>1, <1>3, <2>1, SoundHere
<1>6. PICK F : F = w[block]
  OBVIOUS
<1>7. PICK v : v = [a \in 1..(n + 1) |-> IF a = n + 1 THEN F ELSE w[a]]
  OBVIOUS
<1>8. /\ n + 1 \in 1..(n + 1) /\ block \in 1..(n + 1) /\ n <= n + 1
      /\ \A a \in 1..n : a \in 1..(n + 1) /\ a # n + 1
  BY <1>5
<1>9. v[n + 1] = F /\ v[block] = F /\ Agree(v, w, n)
  BY <1>5, <1>6, <1>7, <1>8 DEF Agree
<1>10. PICK c : c = NewBlocks(code, 1)
  OBVIOUS
<1>11. Weighed(prog, c, entry, at + 1, v) /\ Len(c) = n + 1
  <2>1. Agree(v, w, Len(code)) /\ 1 \in Nat
    BY <1>3, <1>9
  <2>2. Weighed(prog, NewBlocks(code, 1), entry, at, v) /\ Len(NewBlocks(code, 1)) = Len(code) + 1
    BY ONLY <1>5, <2>1, WeighedMore
  <2>3. Weighed(prog, c, entry, at, v)
    BY <1>10, <2>2
  <2> QED BY <1>3, <1>5, <1>10, <2>2, <2>3, WeighedLater
<1>12. PICK f : f = Frame(n + 1, block)
  OBVIOUS
<1>13. IsFrame(f) /\ f.line = at /\ f.merge = n + 1 /\ f.next = block /\ f.dflt = n + 1
  BY <1>12 DEF Frame, IsFrame
<1>14. Sound(prog, c, entry, at + 1, Append(open, f), labels, block, v)
  <2>1. Agree(v, w, Len(code)) /\ Len(code) <= Len(c)
    BY <1>3, <1>8, <1>9, <1>11
  <2>2. f.merge \in 1..Len(c) /\ f.next \in 1..Len(c) /\ f.dflt = f.merge /\ block \in 1..Len(c)
    BY <1>8, <1>11, <1>13
  <2>3. /\ v[f.merge] = w[block] /\ v[block] = v[f.next]
        /\ v[f.next] = w[block] \cup (IF prog[at].kind = "for" THEN {at} ELSE {})
    BY <1>5, <1>6, <1>9, <1>13
  <2> QED BY <1>1, <1>11, <1>13, <2>1, <2>2, <2>3, SoundPush
<1> QED BY <1>1, <1>4, <1>10, <1>12, <1>14

LEMMA SoundElse ==
  ASSUME CloseInv, Clean(prog), NEW w, Sound(prog, code, entry, at, open, labels, block, w), Else
  PROVE  Sound(prog, code', entry', at', open', labels', block', w)
<1>1. open # <<>> /\ prog[Top.line].kind = "if" /\ UNCHANGED <<entry, labels>>
  BY DEF Else, AtPart
<1>2. PICK c : c = Joined
  OBVIOUS
<1>3. PICK b : b = Top.next
  OBVIOUS
<1>4. PICK f : f = AtArm(b, Top.dflt)
  OBVIOUS
<1>5. code' = c /\ block' = b /\ at' = at + 1 /\ open' = WithTop(open, f)
  BY <1>2, <1>3, <1>4 DEF Else, Next1, WithTop
<1>6. Weighed(prog, c, entry, at + 1, w) /\ Len(c) = Len(code) /\ Len(code) \in Nat
  <2>1. Weighed(prog, c, entry, at, w) /\ Len(c) = Len(code)
    BY <1>1, <1>2, SoundJoined
  <2>2. at \in Nat /\ at + 1 \in Nat /\ at <= at + 1 /\ Len(code) \in Nat
    BY <1>1, SoundHere
  <2> QED BY <2>1, <2>2, WeighedLater
<1>7. IsFrame(f) /\ f.line = Top.line /\ f.merge = Top.merge /\ f.next = b /\ f.dflt = Top.dflt
  BY <1>4 DEF AtArm, IsFrame
<1>8. /\ f.next \in 1..Len(c) /\ w[f.next] = w[block] /\ f.dflt \in 1..Len(c) /\ w[f.dflt] = w[block]
      /\ b \in 1..Len(c) /\ w[b] = w[block] /\ prog[Top.line].kind \in {"if", "match"}
  BY <1>1, <1>3, <1>6, <1>7, SoundTop
<1>9. Agree(w, w, Len(code)) /\ Len(code) <= Len(c)
  BY <1>6 DEF Agree
<1>10. Sound(prog, c, entry, at + 1, WithTop(open, f), labels, b, w)
  BY <1>1, <1>6, <1>7, <1>8, <1>9, SoundPart
<1> QED BY <1>1, <1>5, <1>10

\* The next arm or case of the innermost call, as a branch from its block.
LEMMA SoundArm ==
  ASSUME CloseInv, Clean(prog), open # <<>>, NEW w, Sound(prog, code, entry, at, open, labels, block, w),
         prog[Top.line].kind \in {"if", "match"}, NEW c, c \in {code, Joined},
         NEW k, k = 1 \/ k = 2, NEW i, ArmBranch(prog, w, Len(c), at, Top.next, k, i),
         NEW f, IsFrame(f), f.line = Top.line, f.merge = Top.merge,
         f.next = Top.dflt \/ f.next = Top.merge \/ (k = 2 /\ f.next = Len(c) + 2),
         f.dflt \in {Len(c) + 1, Top.dflt}
  PROVE  \E v : Sound(prog, Emit(NewBlocks(c, k), Top.next, i), entry, at + 1, WithTop(open, f), labels, Len(c) + 1, v)
<1>1. PICK b : b = Top.next
  OBVIOUS
<1>2. PICK N : N = Len(code)
  OBVIOUS
<1>3. Weighed(prog, c, entry, at, w) /\ Len(c) = N
  BY <1>2, SoundJoined, SoundHere
<1>4. at \in Nat /\ at + 1 \in Nat /\ at <= at + 1 /\ N \in Nat
  BY <1>2, SoundHere
<1>5. /\ b \in 1..N /\ Top.merge \in 1..N /\ Top.dflt \in 1..N
      /\ w[b] = w[block] /\ w[Top.merge] = w[block] /\ w[Top.dflt] = w[block]
  BY <1>1, <1>2, SoundTop
<1>6. PICK d : d = Emit(NewBlocks(c, k), b, i)
  OBVIOUS
<1>7. PICK v : ArmMade(prog, c, entry, at, w, b, k, d, v)
  <2>1. b \in 1..Len(c) /\ at \in Nat /\ Weighed(prog, c, entry, at, w) /\ (k = 1 \/ k = 2)
    BY <1>3, <1>4, <1>5
  <2>2. ArmBranch(prog, w, Len(c), at, b, k, i)
    BY <1>1
  <2>3. \E v : ArmMade(prog, c, entry, at, w, b, k, Emit(NewBlocks(c, k), b, i), v)
    BY ONLY <2>1, <2>2, WeighedArm
  <2> QED BY <1>6, <2>3
<1>8. /\ Agree(v, w, N) /\ (\A a \in (N + 1)..(N + k) : v[a] = w[block])
      /\ Weighed(prog, d, entry, at, v) /\ Len(d) = N + k
  BY <1>3, <1>5, <1>7 DEF ArmMade
<1>9. Weighed(prog, d, entry, at + 1, v)
  BY <1>4, <1>8, WeighedLater
<1>10. /\ N <= N + k /\ N + 1 \in 1..(N + k) /\ N + 1 \in (N + 1)..(N + k)
       /\ (k = 2 => N + 2 \in 1..(N + k) /\ N + 2 \in (N + 1)..(N + k)) /\ \A a \in 1..N : a \in 1..(N + k)
  <2>1. N \in Nat /\ (k = 1 \/ k = 2)
    BY <1>4
  <2> QED BY ONLY <2>1
<1>11. \A a \in 1..N : v[a] = w[a]
  BY <1>8 DEF Agree
<1>12. v[N + 1] = w[block] /\ (k = 2 => v[N + 2] = w[block])
  BY <1>8, <1>10
<1>13. f.next \in 1..Len(d) /\ v[f.next] = w[block]
  BY <1>3, <1>5, <1>8, <1>10, <1>11, <1>12
<1>14. f.dflt \in 1..Len(d) /\ v[f.dflt] = w[block]
  BY <1>3, <1>5, <1>8, <1>10, <1>11, <1>12
<1>15. N + 1 \in 1..Len(d) /\ v[N + 1] = w[block] /\ Len(code) <= Len(d) /\ Agree(v, w, Len(code))
  BY <1>2, <1>8, <1>10, <1>12
<1>16. Sound(prog, d, entry, at + 1, WithTop(open, f), labels, N + 1, v)
  BY <1>9, <1>13, <1>14, <1>15, SoundPart
<1> QED BY <1>1, <1>3, <1>6, <1>16

LEMMA SoundElseIf ==
  ASSUME CloseInv, Clean(prog), NEW w, Sound(prog, code, entry, at, open, labels, block, w), ElseIf
  PROVE  \E v : Sound(prog, code', entry', at', open', labels', block', v)
<1>1. /\ open # <<>> /\ at <= Len(prog) /\ prog[Top.line].kind = "if" /\ Line.kind = "elif" /\ Line = prog[at]
      /\ UNCHANGED <<entry, labels>>
  BY DEF ElseIf, AtPart, Line
<1>2. Known
  <2>1. NamesInv /\ InOrder(prog) /\ ~errors /\ ReadsName(prog, at)
    BY <1>1, CloseHere DEF ReadsName
  <2> QED BY <1>1, <2>1, KnownNames
<1>3. PICK c : c = Joined
  OBVIOUS
<1>4. PICK b : b = Top.next
  OBVIOUS
<1>5. PICK arm : arm = Arm(c, b, Top.merge)
  OBVIOUS
<1>6. PICK f : f = AtArm(arm.else, Top.dflt)
  OBVIOUS
<1>7. code' = arm.code /\ block' = arm.then /\ at' = at + 1 /\ open' = WithTop(open, f)
  BY <1>2, <1>3, <1>4, <1>5, <1>6 DEF ElseIf, Next1, WithTop
<1>8. PICK k : k = ArmBlocks
  OBVIOUS
<1>9. (k = 1 \/ k = 2) /\ (k = 1 <=> NextPart(prog, at) = 0)
  BY <1>8 DEF ArmBlocks
<1>10. PICK y : y = IF NextPart(prog, at) = 0 THEN Top.merge ELSE Len(c) + 2
  OBVIOUS
<1>11. PICK i : i = CondBr(at, Len(c) + 1, y)
  OBVIOUS
<1>12. arm.then = Len(c) + 1 /\ arm.else = y /\ arm.code = Emit(NewBlocks(c, k), b, i)
  BY <1>5, <1>8, <1>10, <1>11, ArmCode
<1>13. IsFrame(f) /\ f.line = Top.line /\ f.merge = Top.merge /\ f.next = y /\ f.dflt = Top.dflt
  BY <1>6, <1>12 DEF AtArm, IsFrame
<1>14. Len(c) = Len(code) /\ prog[Top.line].kind \in {"if", "match"}
  BY <1>1, <1>3, SoundJoined
<1>15. Top.merge \in 1..Len(c) /\ w[Top.merge] \subseteq w[b]
  BY <1>1, <1>4, <1>14, SoundTop
<1>16. ArmBranch(prog, w, Len(c), at, b, k, i)
  <2>1. prog[at].kind # "for"
    BY <1>1
  <2>2. (k = 2 /\ y = Len(c) + 2) \/ (y \in 1..Len(c) /\ w[y] \subseteq w[b])
    BY <1>9, <1>10, <1>15
  <2> QED BY <1>11, <2>1, <2>2 DEF ArmBranch
<1>17. c \in {code, Joined} /\ f.dflt \in {Len(c) + 1, Top.dflt}
       /\ (f.next = Top.dflt \/ f.next = Top.merge \/ (k = 2 /\ f.next = Len(c) + 2))
  BY <1>3, <1>9, <1>10, <1>13
<1>18. \E v : Sound(prog, Emit(NewBlocks(c, k), b, i), entry, at + 1, WithTop(open, f), labels, Len(c) + 1, v)
  BY <1>1, <1>4, <1>9, <1>13, <1>14, <1>16, <1>17, SoundArm
<1> QED BY <1>1, <1>7, <1>12, <1>18

LEMMA SoundCase ==
  ASSUME CloseInv, Clean(prog), NEW w, Sound(prog, code, entry, at, open, labels, block, w), Case
  PROVE  \E v : Sound(prog, code', entry', at', open', labels', block', v)
<1>1. /\ open # <<>> /\ at <= Len(prog) /\ prog[Top.line].kind = "match" /\ Line.kind \in Cases /\ Line = prog[at]
      /\ UNCHANGED <<entry, labels>>
  BY DEF Case, AtPart, Line
<1>2. PICK c : c = IF Top.part = Top.line THEN code ELSE Joined
  OBVIOUS
<1>3. PICK b : b = Top.next
  OBVIOUS
<1>4. PICK n : n = Len(code)
  OBVIOUS
<1>5. PICK k : k = ArmBlocks
  OBVIOUS
<1>6. (k = 1 \/ k = 2) /\ (k = 1 <=> NextPart(prog, at) = 0)
  BY <1>5 DEF ArmBlocks
<1>7. PICK next : next = IF NextPart(prog, at) = 0 THEN Top.dflt ELSE Fresh(2)
  OBVIOUS
<1>8. PICK i : i = IF Line.kind = "default" THEN Br(Fresh(1)) ELSE CondBr(at, Fresh(1), next)
  OBVIOUS
<1>9. PICK f : f = AtArm(next, IF Line.kind = "default" THEN Fresh(1) ELSE Top.dflt)
  OBVIOUS
<1>10. code' = Emit(NewBlocks(c, k), b, i)
  <2>1. k = IF NextPart(prog, at) = 0 THEN 1 ELSE 2
    BY <1>5 DEF ArmBlocks
  <2> QED BY <1>2, <1>3, <1>7, <1>8, <2>1, Zenon DEF Case
<1>11. block' = n + 1 /\ at' = at + 1
  BY <1>4 DEF Case, Fresh, Next1
<1>12. open' = WithTop(open, f)
  BY <1>7, <1>9, Zenon DEF Case, WithTop
<1>13. Len(c) = n /\ prog[Top.line].kind \in {"if", "match"} /\ c \in {code, Joined}
  BY <1>1, <1>2, <1>4, SoundJoined
<1>14. Fresh(1) = Len(c) + 1 /\ Fresh(2) = Len(c) + 2
  BY <1>4, <1>13 DEF Fresh
<1>15. Top.dflt \in 1..Len(c) /\ w[Top.dflt] \subseteq w[b]
  <2>1. prog[Top.line].kind # "fn" /\ prog[Top.line].kind # "for"
    BY <1>1
  <2> QED BY <1>1, <1>3, <1>4, <1>13, <2>1, SoundTop
<1>16. ArmBranch(prog, w, Len(c), at, b, k, i)
  <2>1. prog[at].kind # "for"
    BY <1>1 DEF Cases
  <2>2. (k = 2 /\ next = Len(c) + 2) \/ (next \in 1..Len(c) /\ w[next] \subseteq w[b])
    BY <1>6, <1>7, <1>14, <1>15
  <2>3. i = Br(Len(c) + 1) \/ i = CondBr(at, Len(c) + 1, next)
    BY <1>8, <1>14
  <2> QED BY <2>1, <2>2, <2>3 DEF ArmBranch
<1>17. /\ IsFrame(f) /\ f.line = Top.line /\ f.merge = Top.merge /\ f.next = next
       /\ f.dflt \in {Len(c) + 1, Top.dflt}
  BY <1>9, <1>14 DEF AtArm, IsFrame
<1>18. f.next = Top.dflt \/ f.next = Top.merge \/ (k = 2 /\ f.next = Len(c) + 2)
  BY <1>6, <1>7, <1>14, <1>17
<1>19. \E v : Sound(prog, Emit(NewBlocks(c, k), b, i), entry, at + 1, WithTop(open, f), labels, Len(c) + 1, v)
  BY <1>1, <1>3, <1>6, <1>13, <1>16, <1>17, <1>18, SoundArm
<1> QED BY <1>1, <1>10, <1>11, <1>12, <1>13, <1>19

DomInv ==
  /\ CloseInv
  /\ Clean(prog) => \E w : /\ Weighed(prog, code, entry, at, w)
                           /\ open # <<>> => Held(prog, open, labels, block, w, Len(code))

LEMMA SoundFn ==
  ASSUME CloseInv, Clean(prog), NEW w, Weighed(prog, code, entry, at, w), FnDefine
  PROVE  \E v : Sound(prog, code', entry', at', open', labels', block', v)
<1>1. /\ at <= Len(prog) /\ open = <<>> /\ Line.kind = "fn" /\ at' = at + 1
      /\ labels' = [l \in Labels |-> 0] /\ code' = NewBlocks(code, 1) /\ block' = Fresh(1)
      /\ entry' = [i \in DOMAIN entry \cup {at} |-> IF i = at THEN Fresh(1) ELSE entry[i]]
      /\ open' = <<Frame(0, 0)>>
  BY DEF FnDefine, Walking, Next1
<1>2. at \in 1..Len(prog) /\ at \in Nat /\ at + 1 \in Nat /\ at <= at + 1 /\ Line = prog[at]
  BY <1>1, Counts DEF CloseInv, LateInv, NamesInv, PlaceInv, Line
<1>3. PICK n : n = Len(code)
  OBVIOUS
<1>4. n \in Nat
  <2>1. TypeInv
    BY DEF CloseInv, LateInv, NamesInv, PlaceInv
  <2> QED BY <1>3, <2>1, Counts
<1>5. PICK v : v = [a \in 1..(n + 1) |-> IF a = n + 1 THEN {} ELSE w[a]]
  OBVIOUS
<1>6. n + 1 \in 1..(n + 1) /\ \A a \in 1..n : a \in 1..(n + 1) /\ a # n + 1
  BY <1>4
<1>7. v[n + 1] = {} /\ Agree(v, w, n)
  BY <1>5, <1>6 DEF Agree
<1>8. PICK c : c = NewBlocks(code, 1)
  OBVIOUS
<1>9. Weighed(prog, c, entry, at + 1, v) /\ Len(c) = n + 1
  <2>1. Agree(v, w, Len(code)) /\ 1 \in Nat
    BY <1>3, <1>7
  <2>2. Weighed(prog, NewBlocks(code, 1), entry, at, v) /\ Len(NewBlocks(code, 1)) = Len(code) + 1
    BY ONLY Weighed(prog, code, entry, at, w), <2>1, WeighedMore
  <2>3. Weighed(prog, c, entry, at, v)
    BY <1>8, <2>2
  <2> QED BY <1>2, <1>3, <1>8, <2>2, <2>3, WeighedLater
<1>10. PICK e : e = entry'
  OBVIOUS
<1>11. Weighed(prog, c, e, at + 1, v)
  <2>1. DOMAIN e = DOMAIN entry \cup {at} /\ \A i \in DOMAIN e : e[i] = IF i = at THEN n + 1 ELSE entry[i]
    BY <1>1, <1>3, <1>10 DEF Fresh
  <2>2. \A i \in DOMAIN entry : entry[i] \in 1..Len(c) /\ v[entry[i]] = {}
    BY <1>9 DEF Weighed
  <2>3. \A i \in DOMAIN e : e[i] \in 1..Len(c) /\ v[e[i]] = {}
    BY <1>6, <1>7, <1>9, <2>1, <2>2
  <2> QED BY <1>9, <2>3 DEF Weighed
<1>12. PICK s, t : s = open' /\ t = labels'
  OBVIOUS
<1>13. Len(s) = 1 /\ s[1].line = at /\ prog[s[1].line].kind = "fn"
  BY <1>1, <1>2, <1>12 DEF Frame
<1>14. \A l \in Labels : t[l] = 0
  BY <1>1, <1>12
<1>15. \A k \in 1..Len(s) : k = 1
  BY <1>13
<1>16. Held(prog, s, t, n + 1, v, Len(c))
  <2>1. FramesWeighed(prog, s, v, Len(c))
    BY <1>13, <1>15 DEF FramesWeighed
  <2>2. LabelsWeighed(prog, s[1].line, t, v, Len(c))
    BY <1>14 DEF LabelsWeighed
  <2>3. Fors(prog, s, Len(s)) = {}
    BY <1>13, <1>15 DEF Fors
  <2> QED BY <1>6, <1>7, <1>9, <2>1, <2>2, <2>3 DEF Held
<1>17. block' = n + 1
  BY <1>1, <1>3 DEF Fresh
<1> QED BY <1>1, <1>8, <1>10, <1>11, <1>12, <1>16, <1>17 DEF Sound

LEMMA SoundEndFn ==
  ASSUME CloseInv, Clean(prog), NEW w, Sound(prog, code, entry, at, open, labels, block, w), EndFn
  PROVE  open' = <<>> /\ Weighed(prog, code', entry', at', w)
<1>1. /\ open # <<>> /\ UNCHANGED <<at, entry>>
      /\ code' = EmitUnlessTerminated(code, block, Instr("ret", Top.line, <<>>))
  BY DEF EndFn
<1>2. open' = <<>>
  BY CloseEndFn
<1>3. Weighed(prog, code, entry, at, w) /\ at \in Nat /\ block \in 1..Len(code)
  BY <1>1, SoundHere
<1>4. PICK i, l : i = Instr("ret", l, <<>>) /\ l = Top.line
  OBVIOUS
<1>5. PICK c : c = code'
  OBVIOUS
<1>6. i.op # "init" /\ InstrOK(prog, w, Len(code), at, i, w[block], Inits(code, block))
  BY <1>4, InstrsOK
<1>7. Weighed(prog, c, entry, at, w)
  <2>1. c = EmitUnlessTerminated(code, block, i)
    BY <1>1, <1>4, <1>5
  <2> QED BY ONLY <1>3, <1>6, <2>1, WeighedJoin
<1> QED BY <1>1, <1>2, <1>5, <1>7

LEMMA StepDom == ASSUME DomInv, [Generate]_vars PROVE DomInv'
<1>1. CloseInv /\ CloseInv' /\ NamesInv /\ TypeInv
  <2>1. CloseInv /\ NamesInv /\ TypeInv
    BY DEF DomInv, CloseInv, LateInv, NamesInv, PlaceInv
  <2> QED BY <2>1, StepClose
<1>2. CASE Parse
  <2>1. at = 1 /\ open = <<>> /\ open' = open /\ code' = code /\ entry' = entry
    BY <1>2 DEF Parse
  <2>2. code' = <<>> /\ open' = <<>>
    BY <1>1, <2>1 DEF CloseInv
  <2>3. PICK c, q, e, n : c = code' /\ q = prog' /\ e = entry' /\ n = at'
    OBVIOUS
  <2>4. Len(c) = 0 /\ IsCode(c)
    <3>1. <<>> \in Seq({}) /\ Len(<<>>) = 0 /\ \A b \in 1..0 : FALSE
      OBVIOUS
    <3> QED BY <2>2, <2>3, <3>1 DEF IsCode, IsSequence
  <2>5. \A i \in DOMAIN e : FALSE
    <3>1. code = c
      BY <2>1, <2>3
    <3>2. \A i \in DOMAIN entry : entry[i] \in 1..Len(code)
      BY <1>1 DEF TypeInv, BlocksInv
    <3>3. \A b \in 1..0 : FALSE
      OBVIOUS
    <3> QED BY <2>1, <2>3, <2>4, <3>1, <3>2, <3>3
  <2>6. \A b \in 1..Len(c) : FALSE
    BY <2>4
  <2>7. Weighed(q, c, e, n, <<>>)
    BY <2>4, <2>5, <2>6 DEF Weighed
  <2> QED BY <1>1, <2>2, <2>3, <2>7 DEF DomInv
<1>3. CASE Walk
  <2>1. prog' = prog
    BY <1>1, <1>3, WalkMoves
  <2>2. ASSUME Clean(prog)
        PROVE  \/ \E v : Sound(prog, code', entry', at', open', labels', block', v)
               \/ open' = <<>> /\ \E v : Weighed(prog, code', entry', at', v)
    <3>1. PICK w : Weighed(prog, code, entry, at, w)
                   /\ (open # <<>> => Held(prog, open, labels, block, w, Len(code)))
      BY <2>2 DEF DomInv
    <3>2. CASE FnDefine
      BY <1>1, <2>2, <3>1, <3>2, SoundFn
    <3>3. CASE ~FnDefine
      <4>1. open # <<>>
        BY <1>3, <3>3 DEF Walk, EndFn, StopBody, Declare, Use, Return, GotoLabel, Label, Break, Continue,
             LoopJump, Loop, EndLoop, If, ElseIf, Else, Match, Case, EndArms, Ready, InBody, AtPart
      <4>2. Sound(prog, code, entry, at, open, labels, block, w)
        BY <3>1, <4>1 DEF Sound
      <4>3. CASE EndFn
        BY <1>1, <2>2, <4>2, <4>3, SoundEndFn
      <4>4. CASE StopBody
        BY <1>1, <2>2, <4>4, NoStop
      <4>5. CASE Declare \/ Use \/ Return \/ Break \/ Continue
        <5>1. Sound(prog, code', entry', at', open', labels', block', w)
          BY <1>1, <2>2, <4>2, <4>5, SoundQuiet
        <5> QED BY <5>1
      <4>6. CASE GotoLabel \/ Label
        BY <1>1, <2>2, <4>2, <4>6, SoundLabels
      <4>7. CASE Loop
        BY <1>1, <2>2, <4>2, <4>7, SoundLoop
      <4>8. CASE EndLoop
        <5>1. Sound(prog, code', entry', at', open', labels', block', w)
          BY <1>1, <2>2, <4>2, <4>8, SoundEndLoop
        <5> QED BY <5>1
      <4>9. CASE If
        BY <1>1, <2>2, <4>2, <4>9, SoundIf
      <4>10. CASE ElseIf
        BY <1>1, <2>2, <4>2, <4>10, SoundElseIf
      <4>11. CASE Else
        <5>1. Sound(prog, code', entry', at', open', labels', block', w)
          BY <1>1, <2>2, <4>2, <4>11, SoundElse
        <5> QED BY <5>1
      <4>12. CASE Match
        BY <1>1, <2>2, <4>2, <4>12, SoundMatch
      <4>13. CASE Case
        BY <1>1, <2>2, <4>2, <4>13, SoundCase
      <4>14. CASE EndArms
        <5>1. Sound(prog, code', entry', at', open', labels', block', w)
          BY <1>1, <2>2, <4>2, <4>14, SoundEndArms
        <5> QED BY <5>1
      <4> QED BY <1>3, <3>3, <4>3, <4>4, <4>5, <4>6, <4>7, <4>8, <4>9, <4>10, <4>11, <4>12, <4>13, <4>14 DEF Walk
    <3> QED BY <3>2, <3>3
  <2>3. Clean(prog) => \E v : /\ Weighed(prog, code', entry', at', v)
                              /\ open' # <<>> => Held(prog, open', labels', block', v, Len(code'))
    BY <2>2 DEF Sound
  <2> QED BY <1>1, <2>1, <2>3 DEF DomInv
<1>4. CASE UNCHANGED vars
  BY <1>1, <1>4 DEF DomInv, vars
<1> QED BY <1>2, <1>3, <1>4 DEF Generate

----------------------------------------------------------------------------
\* A block that is reached past no alloca of an iterator does not use it.
LEMMA AllocasDominate ==
  ASSUME NEW w, Weighed(prog, code, entry, at, w), AllClosed(code)
  PROVE  IteratorsDominate
<1> SUFFICES ASSUME NEW t \in 1..Len(prog), NEW a \in 1..Len(code), Has(a, "init", t),
                    NEW b \in ReachableAvoiding(a)
             PROVE  ~Has(b, "step", t) /\ ~Has(b, "test", t)
  BY DEF IteratorsDominate
<1>1. PICK N : N = Len(code)
  OBVIOUS
<1>2. N \in Nat
  <2>1. IsSequence(code)
    BY DEF Weighed, IsCode
  <2> QED BY <1>1, <2>1, SequenceLength
<1>3. t \in Inits(code, a) /\ prog[t].kind = "for"
  <2>1. PICK k \in 1..Len(code[a]) : code[a][k].op = "init" /\ code[a][k].line = t
    BY DEF Has
  <2>2. t \in Inits(code, a)
    BY <2>1 DEF Inits
  <2>3. InstrOK(prog, w, Len(code), at, code[a][k], w[a], Inits(code, a))
    BY <2>1 DEF Weighed
  <2> QED BY <2>1, <2>2, <2>3 DEF InstrOK
<1>4. \A x \in 1..N : x # a => t \notin Inits(code, x)
  BY <1>1, <1>3 DEF Weighed
<1>5. PICK f : ReachesIn(a, f, N) /\ ReachableAvoiding(a) = f[N]
  BY <1>1, <1>2, ReachIs
<1>6. PICK T : T = {k \in 0..N : \A x \in f[k] : x \in 1..N /\ x # a /\ t \notin w[x]}
  OBVIOUS
<1>7. 0 \in T
  <2>1. 0 \in 0..N
    BY <1>2
  <2>2. f[0] = Starts(a)
    BY <1>5, <2>1 DEF ReachesIn
  <2>3. \A i \in DOMAIN entry : entry[i] \in 1..N /\ w[entry[i]] = {}
    BY <1>1 DEF Weighed
  <2>4. \A x \in f[0] : x \in 1..N /\ x # a /\ t \notin w[x]
    BY <2>2, <2>3 DEF Starts
  <2> QED BY <1>6, <2>1, <2>4
<1>8. ASSUME NEW k \in 0..N, k \in T, k < N PROVE k + 1 \in T
  <2>1. k + 1 \in 0..N /\ (k + 1) - 1 = k /\ k + 1 # 0
    BY <1>2, <1>8
  <2>2. f[k + 1] = ReachNext(a, f[k])
    <3>1. \A j \in 0..N : f[j] = IF j = 0 THEN Starts(a) ELSE ReachNext(a, f[j - 1])
      BY <1>5 DEF ReachesIn
    <3> QED BY <2>1, <3>1
  <2>3. \A x \in f[k] : x \in 1..N /\ x # a /\ t \notin w[x]
    BY <1>6, <1>8
  <2>4. ASSUME NEW x \in f[k], NEW y \in Targets(x) PROVE y \in 1..N /\ t \notin w[y]
    <3>1. x \in 1..N /\ t \notin w[x] /\ t \notin Inits(code, x)
      BY <1>4, <2>3
    <3>2. Len(code[x]) \in 1..Len(code[x])
      <4>1. IsSequence(code[x]) /\ code[x] # <<>>
        BY <1>1, <3>1 DEF AllClosed, Closed, Terminated, IsCode
      <4>2. Len(code[x]) \in Nat /\ Len(code[x]) # 0
        BY <4>1, SequenceLength
      <4> QED BY <4>2
    <3>3. PICK i : i = code[x][Len(code[x])]
      OBVIOUS
    <3>4. InstrOK(prog, w, N, at, i, w[x], Inits(code, x))
      BY <1>1, <3>1, <3>2, <3>3 DEF Weighed
    <3>5. PICK j \in 1..Len(i.to) : y = i.to[j]
      BY <3>3 DEF Targets
    <3>6. y \in 1..N /\ w[y] \subseteq w[x] \cup Inits(code, x)
      BY <3>4, <3>5 DEF InstrOK
    <3> QED BY <3>1, <3>6
  <2>5. \A x \in f[k + 1] : x \in 1..N /\ x # a /\ t \notin w[x]
    BY <2>2, <2>3, <2>4 DEF ReachNext
  <2> QED BY <1>6, <2>1, <2>5
<1>9. N \in T
  <2>1. \A k \in 0..N : k \in T
    BY <1>2, <1>7, <1>8, UpToAll
  <2>2. N \in 0..N
    BY <1>2
  <2> QED BY <2>1, <2>2
<1>10. b \in 1..N /\ t \notin w[b]
  BY <1>5, <1>6, <1>9
<1>11. SUFFICES ASSUME NEW k \in 1..Len(code[b]), code[b][k].op \in {"step", "test"}, code[b][k].line = t
                PROVE  FALSE
  BY DEF Has
<1>12. InstrOK(prog, w, N, at, code[b][k], w[b], Inits(code, b))
  BY <1>1, <1>10 DEF Weighed
<1> QED BY <1>3, <1>10, <1>11, <1>12 DEF InstrOK

LEMMA InitDom ==
  ASSUME Init
  PROVE  DomInv
<1>1. LateInv /\ code = <<>> /\ open = <<>> /\ entry = [i \in {} |-> 0] /\ at = 1
  BY InitNames DEF Init, LateInv
<1>2. <<>> \in Seq({}) /\ Len(<<>>) = 0 /\ \A b \in 1..0 : FALSE
  OBVIOUS
<1>3. IsCode(code) /\ Len(code) = 0 /\ \A b \in 1..Len(code) : FALSE
  BY <1>1, <1>2 DEF IsCode, IsSequence
<1>4. CloseInv
  BY <1>1, <1>3 DEF AllClosed, CloseInv
<1>5. Weighed(prog, code, entry, at, <<>>)
  BY <1>1, <1>3 DEF Weighed
<1> QED BY <1>1, <1>4, <1>5 DEF DomInv

LEMMA CleanVerifies ==
  ASSUME DomInv, Generated, Clean(prog)
  PROVE  ~errors /\ verifyModule
<1>1. CloseInv /\ open = <<>> /\ AllClosed(code)
  BY DEF DomInv, CloseInv, Generated
<1>2. ~errors
  BY <1>1 DEF CloseInv, LateInv, Clean, WellStructured, InOrder
<1>3. PICK w : Weighed(prog, code, entry, at, w)
  BY DEF DomInv
<1>4. IteratorsDominate
  BY <1>1, <1>3, AllocasDominate
<1>5. \A b \in 1..Len(code) : BlockOK(b)
  BY <1>1 DEF AllClosed, Closed, BlockOK
<1> QED BY <1>2, <1>4, <1>5 DEF verifyModule

\* A clean program is generated without an error that comes too late, into a
\* module that passes verification: every block ends with its only
\* terminator, and the alloca of an iterator is passed before its uses in the
\* header and the back edge (llvm_irgen_instr_for, llvm::verifyModule).
THEOREM CleanTheorem == CompileSpec => []CleanProgramsVerify
<1>1. CompileInit => DomInv
  BY InitDom DEF CompileInit
<1>2. DomInv /\ [CompileNext]_<<vars, run>> => DomInv'
  BY CompileStep, StepDom
<1>3. DomInv => CleanProgramsVerify
  BY CleanVerifies DEF CleanProgramsVerify
<1> QED BY <1>1, <1>2, <1>3, PTL DEF CompileSpec

----------------------------------------------------------------------------
(* Programs that semantic analysis has accepted.                           *)

\* Code is generated only for a tree that has been accepted, and in one that
\* has been, no name that was looked at is missing where it is read.
AcceptedInv ==
  /\ DomInv /\ ScopeInv
  /\ at # 1 => Accepted
  /\ Accepted => ~\E i \in 1..Len(prog) : Misses(prog, i)

\* The tree is not checked again, and not changed, after it has been accepted.
LEMMA CheckedOnce == ASSUME Check PROVE stage # "checked" /\ prog' = prog
<1>1. CASE Start \/ instrs_check_labels
  BY <1>1 DEF Start, instrs_check_labels, VariablesChecked
<1>2. CASE check_function_body \/ SkipFunction \/ check_return_statement
  BY <1>2 DEF check_function_body, SkipFunction, check_return_statement, Checking, BodyGoesOn
<1>3. CASE declare_variables \/ UseVariable \/ Jump \/ IfOrMatch \/ check_loop
  BY <1>3 DEF declare_variables, UseVariable, Jump, IfOrMatch, check_loop, Checking, BodyGoesOn
<1>4. CASE SkipElseIf \/ NextArm \/ Close
  BY <1>4 DEF SkipElseIf, NextArm, Close, PartFollows
<1> QED BY <1>1, <1>2, <1>3, <1>4 DEF Check

\* instrs_check_labels is the only step to the end of the walk.
LEMMA NothingMissed ==
  ASSUME ScopeInv, Check, Accepted'
  PROVE  ~\E i \in 1..Len(prog) : Misses(prog, i)
<1>1. CASE instrs_check_labels
  <2>1. VariablesChecked /\ ~reported
    BY <1>1 DEF instrs_check_labels, Report, Accepted
  <2> QED BY <2>1, AllLookedAt
<1>2. CASE Start
  BY <1>2 DEF Start, Accepted
<1>3. CASE ~instrs_check_labels /\ ~Start
  <2>1. stage' = stage
    BY <1>3 DEF Check, check_function_body, SkipFunction, check_return_statement, declare_variables,
                UseVariable, Jump, IfOrMatch, check_loop, SkipElseIf, NextArm, Close
  <2> QED BY <2>1, CheckedOnce DEF Accepted
<1> QED BY <1>1, <1>2, <1>3

LEMMA StepAccepted ==
  ASSUME AcceptedInv, [FrontNext]_<<vars, run, sem>>
  PROVE  AcceptedInv'
<1>1. DomInv'
  BY FrontStep, StepDom DEF AcceptedInv
<1>2. CASE ParseProgram
  <2>1. at = 1 /\ at' = 1 /\ stage = "parse" /\ stage' = "parse"
    BY <1>2 DEF ParseProgram, Parse, sem
  <2>2. ParseLine
    BY <1>2 DEF ParseProgram, Parse, ParseLine, sem
  <2>3. ScopeInv'
    BY <2>2, ParseKeepsInv DEF AcceptedInv
  <2> QED BY <1>1, <2>1, <2>3 DEF AcceptedInv, Accepted
<1>3. CASE check_semantics
  <2>1. Check /\ at' = at /\ stage # "checked" /\ prog' = prog
    BY <1>3, CheckedOnce DEF check_semantics
  <2>2. ScopeInv /\ ScopeInv'
    BY <2>1, ScopesStep DEF AcceptedInv, SemanticNext
  <2>3. at' = 1
    BY <2>1 DEF AcceptedInv, Accepted
  <2>4. Accepted' => ~\E i \in 1..Len(prog) : Misses(prog, i)
    BY <2>1, <2>2, NothingMissed
  <2> QED BY <1>1, <2>1, <2>2, <2>3, <2>4 DEF AcceptedInv
<1>4. CASE GenerateAccepted \/ UNCHANGED <<vars, run, sem>>
  <2>1. UNCHANGED sem
    BY <1>4 DEF GenerateAccepted
  <2>2. prog' = prog
    BY <1>4, WalkMoves DEF AcceptedInv, DomInv, CloseInv, LateInv, GenerateAccepted, vars
  <2>3. ScopeInv'
    BY <2>1, <2>2, ScopesStep DEF AcceptedInv
  <2>4. at' # 1 => Accepted
    BY <1>4 DEF GenerateAccepted, AcceptedInv, vars
  <2>5. Accepted' = Accepted
    BY <2>1 DEF Accepted, sem
  <2> QED BY <1>1, <2>2, <2>3, <2>4, <2>5 DEF AcceptedInv
<1> QED BY <1>2, <1>3, <1>4 DEF FrontNext

\* What semantic analysis has looked at in time is in scope, and the rest by
\* assumption.
LEMMA AcceptedNames ==
  ASSUME NEW p, Rooted(p), ~\E i \in 1..Len(p) : Misses(p, i),
         \A i \in 1..Len(p) : ReadsName(p, i) /\ Deadline(p, i) # i => p[i].name \in Visible(p, i)
  PROVE  NamesDeclared(p)
<1> SUFFICES ASSUME NEW i \in 1..Len(p), ReadsName(p, i), Deadline(p, i) = i
             PROVE  p[i].name \in Visible(p, i)
  BY DEF NamesDeclared
<1>1. i # 0 /\ p[i].depth \in Nat
  BY TreeFacts DEF Rooted, IsTree, HasDepths
<1>2. p[i].name \in VisibleAt(Seen(p), i, i)
  BY <1>1 DEF Misses
<1>3. p[i].depth # 0
  <2>1. p[i].kind # "fn"
    BY DEF ReadsName
  <2> QED BY <2>1 DEF Rooted
<1> QED BY <1>2, <1>3, SeenNames, VisibleNames

\* What semantic analysis has accepted verifies, as long as the names that it
\* overlooks are in scope, no iterator shadows a variable, and jumps and labels
\* are in order: no error that the generator counts comes too late.
THEOREM AcceptedTheorem == FrontSpec => []AcceptedVerifies
<1>1. FrontInit => AcceptedInv
  <2> SUFFICES ASSUME FrontInit PROVE AcceptedInv
    OBVIOUS
  <2>1. DomInv /\ ScopeInv
    BY InitDom, InitMakesInv DEF FrontInit, CompileInit
  <2>2. at = 1 /\ stage = "parse"
    BY DEF FrontInit, CompileInit, Init, SemanticInit
  <2> QED BY <2>1, <2>2 DEF AcceptedInv, Accepted
<1>2. AcceptedInv /\ [FrontNext]_<<vars, run, sem>> => AcceptedInv'
  BY StepAccepted
<1>3. AcceptedInv => AcceptedVerifies
  <2> SUFFICES ASSUME AcceptedInv, Generated, NoShadowing(prog), WellStructured(prog),
                      \A i \in 1..Len(prog) :
                        ReadsName(prog, i) /\ Deadline(prog, i) # i => prog[i].name \in Visible(prog, i)
               PROVE  ~errors /\ verifyModule
    BY DEF AcceptedVerifies
  <2>1. DomInv /\ (at = 1 => code = <<>>) /\ Rooted(prog)
    BY DEF AcceptedInv, DomInv, CloseInv, LateInv, NamesInv, PlaceInv
  <2>2. ~\E i \in 1..Len(prog) : Misses(prog, i)
    BY <2>1 DEF AcceptedInv, Generated
  <2>3. NamesDeclared(prog)
    BY <2>1, <2>2, AcceptedNames
  <2> QED BY <2>1, <2>3, CleanVerifies DEF Clean
<1> QED BY <1>1, <1>2, <1>3, PTL DEF FrontSpec
=============================================================================
