----------------------------- MODULE ParserProofs -----------------------------
(***************************************************************************)
(* The parser on sources of any length, made of any pieces, with an arena  *)
(* and nodes of any size: it stays within its arena, never returns to      *)
(* before its own beginning, and returns only from a whole source without  *)
(* an error.                                                               *)
(*                                                                         *)
(* Each step goes on with other calls, ends the run, or returns to main    *)
(* (LEMMA Steps); the invariant is proved for these three.                 *)
(*                                                                         *)
(* And when it returns, the brackets of the source are closed in order.    *)
(* For that, every step without an error is one of four (GoesOn): it takes *)
(* no token, one that it looks at, one that it does not, or one of each,   *)
(* and the calls in progress are inside of a pair of brackets more, or     *)
(* less, exactly when the token opens or closes one (LEMMA CalmSteps).     *)
(*                                                                         *)
(* And it uses up its arena no faster than its source: every step, with or *)
(* without an error, pays for the node that it makes with the token that   *)
(* it takes, or with what a call below has paid before (LEMMA              *)
(* ThriftySteps).                                                          *)
(*                                                                         *)
(* And with an arena as large as that it crashes only where CrashOnlyWhen- *)
(* Expected says.  As long as the calls in progress are as the steps above *)
(* make them (Shape) and the parser is within the tokens, there is room    *)
(* for each node.  Behind the END only calls that return or stop go on,    *)
(* unless a bracket is open there (CrashInv).                              *)
(*                                                                         *)
(* And the nesting of the tree it returns is well formed: the head of each *)
(* call in progress, and the arm or case that the next one is to follow,   *)
(* is the last line of the tree that is not deeper (Fitting).              *)
(*                                                                         *)
(* And the tree is that of the source: the keywords taken are those of the *)
(* lines made, and one behind them that the innermost call has taken and   *)
(* not yet made a line of (Told).                                          *)
(***************************************************************************)
EXTENDS Parser, ContainerProofs, FiniteSetTheorems

IsCall(c) == c.token \in Kinds /\ c.depth \in Nat
Calls(cs) == IsSequence(cs) /\ \A i \in 1..Len(cs) : IsCall(cs[i])
IsStack(s) == Calls(s) /\ Len(s) # 0 /\ s[1].pc = "program"

TypeInv ==
  /\ vocabulary \in Vocabularies
  /\ tokens \in Seq(Kinds)
  /\ index \in Nat
  /\ IsStack(stack)
  /\ errors \in BOOLEAN
  /\ IsArena(arena)
  /\ status \in {"parsing", "done", "exit", "crash"}

\* The lexer's END is the last token.
EndIsLast == \A i \in 1..(Len(tokens) - 1) : tokens[i] # "END"

Inv == TypeInv /\ EndIsLast /\ DoneMeansClean

----------------------------------------------------------------------------
(* Stacks of calls.                                                        *)

LEMMA OneCall ==
  ASSUME NEW c, IsCall(c)
  PROVE  Calls(<<c>>)
<1>1. <<c>> \in Seq({c}) /\ Len(<<c>>) = 1 /\ <<c>>[1] = c
  OBVIOUS
<1>2. IsSequence(<<c>>)
  BY <1>1 DEF IsSequence
<1>3. \A i \in 1..1 : i = 1
  OBVIOUS
<1> QED BY <1>1, <1>2, <1>3, Zenon DEF Calls

LEMMA MoreCalls ==
  ASSUME NEW s, NEW t, Calls(s), Calls(t)
  PROVE  Calls(s \o t) /\ (IsStack(s) => IsStack(s \o t))
<1>1. /\ IsSequence(s \o t) /\ Len(s \o t) = Len(s) + Len(t)
      /\ \A i \in 1..Len(s) : (s \o t)[i] = s[i]
      /\ \A i \in 1..Len(t) : (s \o t)[Len(s) + i] = t[i]
  BY JoinedSequence DEF Calls
<1>2. Len(s) \in Nat /\ Len(t) \in Nat
  BY SequenceLength DEF Calls
<1>3. \A i \in 1..Len(s \o t) : IsCall((s \o t)[i])
  <2> TAKE i \in 1..Len(s \o t)
  <2>1. CASE i \in 1..Len(s)
    BY <1>1, <2>1 DEF Calls
  <2>2. CASE i \notin 1..Len(s)
    <3>1. PICK j \in 1..Len(t) : i = Len(s) + j
      <4>1. i - Len(s) \in 1..Len(t) /\ i = Len(s) + (i - Len(s))
        BY <1>1, <1>2, <2>2
      <4> QED BY <4>1
    <3> QED BY <1>1, <3>1 DEF Calls
  <2> QED BY <2>1, <2>2
<1>4. ASSUME IsStack(s)
      PROVE  Len(s \o t) # 0 /\ (s \o t)[1] = s[1]
  <2>1. Len(s) # 0 /\ 1 \in 1..Len(s)
    BY <1>2, <1>4 DEF IsStack
  <2> QED BY <1>1, <1>2, <2>1
<1> QED BY <1>1, <1>3, <1>4 DEF Calls, IsStack

LEMMA OneMore ==
  ASSUME NEW s, NEW c, Calls(s), IsCall(c)
  PROVE  /\ Calls(Append(s, c))
         /\ IsStack(s) => IsStack(Append(s, c))
         /\ s = <<>> /\ c.pc = "program" => IsStack(Append(s, c))
<1>1. /\ IsSequence(Append(s, c)) /\ Len(Append(s, c)) = Len(s) + 1
      /\ \A i \in 1..Len(s) : Append(s, c)[i] = s[i]
      /\ Append(s, c)[Len(s) + 1] = c
  BY AppendSequence DEF Calls
<1>2. Len(s) \in Nat
  BY SequenceLength DEF Calls
<1>3. \A i \in 1..(Len(s) + 1) : IsCall(Append(s, c)[i])
  <2> TAKE i \in 1..(Len(s) + 1)
  <2>1. i = Len(s) + 1 \/ i \in 1..Len(s)
    BY <1>2
  <2> QED BY <1>1, <2>1 DEF Calls
<1>4. Calls(Append(s, c)) /\ Len(Append(s, c)) # 0
  BY <1>1, <1>2, <1>3 DEF Calls
<1>5. ASSUME IsStack(s) PROVE Append(s, c)[1] = s[1]
  <2>1. 1 \in 1..Len(s)
    BY <1>2, <1>5 DEF IsStack
  <2> QED BY <1>1, <2>1
<1>6. ASSUME s = <<>> PROVE Append(s, c)[1] = c
  <2>1. Len(s) = 0
    BY <1>6
  <2> QED BY <1>1, <2>1
<1> QED BY <1>4, <1>5, <1>6 DEF IsStack

LEMMA TopIsCall ==
  ASSUME TypeInv
  PROVE  IsCall(Top) /\ Len(stack) \in Nat \ {0}
BY SequenceLength DEF TypeInv, IsStack, Calls, Top

\* The calls below the innermost, which is all of them but the first.
LEMMA BelowOK ==
  ASSUME TypeInv
  PROVE  /\ Calls(Below)
         /\ Top.pc # "program" => IsStack(Below)
         /\ Top.pc = "program" => IsStack(Below) \/ Below = <<>>
<1>1. Len(stack) \in Nat \ {0} /\ IsSequence(stack) /\ Calls(stack) /\ stack[1].pc = "program"
  BY TopIsCall DEF TypeInv, IsStack, Calls
<1>2. PICK n \in Nat : n = Len(stack) - 1 /\ n <= Len(stack) /\ Len(stack) = n + 1
  <2>1. \A k \in Nat \ {0} : k - 1 \in Nat /\ k - 1 <= k /\ k = (k - 1) + 1
    BY ONLY TRUE
  <2> QED BY <1>1, <2>1, Zenon
<1>3. /\ IsSequence(SubSeq(stack, 1, n)) /\ Len(SubSeq(stack, 1, n)) = n
      /\ \A i \in 1..n : SubSeq(stack, 1, n)[i] = stack[i]
  BY <1>1, <1>2, FrontSequence
<1>4. Below = SubSeq(stack, 1, n)
  BY <1>2 DEF Below
<1>5. Calls(Below) /\ Len(Below) = n
  BY <1>1, <1>2, <1>3, <1>4 DEF Calls
<1>6. n # 0 => Below[1] = stack[1]
  BY <1>3, <1>4
<1>7. n # 0 => IsStack(Below)
  BY <1>1, <1>5, <1>6 DEF IsStack
<1>8. n = 0 => Top.pc = "program" /\ Below = <<>>
  <2> HAVE n = 0
  <2>1. Len(stack) = 1
    BY <1>2
  <2>2. Top.pc = "program"
    BY <1>1, <2>1 DEF Top
  <2>3. IsSequence(Below) /\ Len(Below) = 0
    BY <1>5 DEF Calls
  <2> QED BY <2>2, <2>3, SequenceLength
<1> QED BY <1>5, <1>7, <1>8

LEMMA TokIsKind ==
  ASSUME TypeInv
  PROVE  Tok \in Kinds
<1>1. CASE Past
  BY <1>1, TopIsCall DEF Past, Tok, dynamic_array_get, IsCall
<1>2. CASE ~Past
  <2>1. index < Len(tokens) /\ Tok = tokens[index + 1]
    BY <1>2 DEF Past, Tok, dynamic_array_get, InRange, Count, Array
  <2> QED BY <2>1 DEF TypeInv
<1> QED BY <1>1, <1>2

LEMMA CallIsCall ==
  ASSUME NEW pc, NEW depth \in Nat, NEW arg
  PROVE  IsCall(Call(pc, depth, arg))
BY DEF IsCall, Call, Zero, Kinds

LEMMA AtIsCall ==
  ASSUME TypeInv, NEW pc, NEW arg
  PROVE  IsCall(At(pc, arg)) /\ At(pc, arg).pc = pc /\ Depth \in Nat
BY TokIsKind, TopIsCall DEF At, IsCall, Depth

\* Whatever a call goes on with leaves a stack.
LEMMA StacksOK ==
  ASSUME TypeInv, Top.pc # "program"
  PROVE  /\ IsStack(Return)
         /\ \A pc : IsStack(Then(pc))
         /\ \A pc, arg : IsStack(Append(Below, At(pc, arg)))
         /\ \A pc, cs : Calls(cs) => IsStack(CallThen(cs, pc))
         /\ \A cs : Calls(cs) => IsStack(Instead(cs))
<1>1. IsStack(Below) /\ Calls(Below)
  BY BelowOK
<1>2. \A pc, arg : IsStack(Append(Below, At(pc, arg))) /\ Calls(Append(Below, At(pc, arg)))
  BY <1>1, AtIsCall, OneMore
<1>3. \A pc, cs : Calls(cs) => IsStack(CallThen(cs, pc))
  BY <1>2, MoreCalls DEF CallThen
<1>4. \A cs : Calls(cs) => IsStack(Instead(cs))
  BY <1>1, MoreCalls DEF Instead
<1> QED BY <1>1, <1>2, <1>3, <1>4 DEF Return, Then

LEMMA CallsMade ==
  ASSUME TypeInv
  PROVE  /\ Calls(parse_expr) /\ Calls(parse_rel)
         /\ \A null : Calls(parse_cond_block(null))
         /\ \A depth \in Nat : \A null : Calls(parse_instr(depth, null))
         /\ \A pc, arg : Calls(<<Call(pc, Depth, arg)>>)
         /\ \A pc, arg, cs : Calls(cs) => Calls(<<Call(pc, Depth, arg)>> \o cs)
         /\ \A null : Calls(parse_cond_block(null) \o parse_rel)
         /\ Calls(<<Call("term", Depth, FALSE), Call("factor", Depth, FALSE)>>)
<1>0. Depth \in Nat
  BY AtIsCall
<1>1. \A pc, arg : Calls(<<Call(pc, Depth, arg)>>)
  BY <1>0, CallIsCall, OneCall
<1>2. \A null : Calls(parse_cond_block(null))
  BY <1>1 DEF parse_cond_block
<1>3. \A depth \in Nat : \A null : Calls(parse_instr(depth, null))
  BY CallIsCall, OneCall DEF parse_instr
<1>4. ASSUME NEW a, NEW b, IsCall(a), IsCall(b) PROVE Calls(<<a, b>>)
  <2>1. <<a, b>> \in Seq({a, b}) /\ Len(<<a, b>>) = 2 /\ <<a, b>>[1] = a /\ <<a, b>>[2] = b
    OBVIOUS
  <2>2. IsSequence(<<a, b>>)
    BY <2>1 DEF IsSequence
  <2>3. \A i \in 1..2 : i = 1 \/ i = 2
    OBVIOUS
  <2> QED BY <1>4, <2>1, <2>2, <2>3, Zenon DEF Calls
<1>5. \A pc, arg, pc2, arg2 : Calls(<<Call(pc, Depth, arg), Call(pc2, Depth, arg2)>>)
  BY <1>0, <1>4, CallIsCall
<1>6. Calls(parse_rel)
  BY <1>5 DEF parse_rel
<1>7. Calls(parse_expr)
  <2>1. ASSUME NEW a, NEW b, NEW c, IsCall(a), IsCall(b), IsCall(c) PROVE Calls(<<a, b, c>>)
    <3>1. /\ <<a, b, c>> \in Seq({a, b, c}) /\ Len(<<a, b, c>>) = 3
          /\ <<a, b, c>>[1] = a /\ <<a, b, c>>[2] = b /\ <<a, b, c>>[3] = c
      OBVIOUS
    <3>2. IsSequence(<<a, b, c>>)
      BY <3>1 DEF IsSequence
    <3>3. \A i \in 1..3 : i = 1 \/ i = 2 \/ i = 3
      OBVIOUS
    <3> QED BY <2>1, <3>1, <3>2, <3>3, Zenon DEF Calls
  <2> QED BY <1>0, <2>1, CallIsCall DEF parse_expr
<1>8. \A pc, arg, cs : Calls(cs) => Calls(<<Call(pc, Depth, arg)>> \o cs)
  BY <1>1, MoreCalls
<1>9. \A null : Calls(parse_cond_block(null) \o parse_rel)
  BY <1>2, <1>6, MoreCalls
<1> QED BY <1>1, <1>2, <1>3, <1>5, <1>6, <1>7, <1>8, <1>9

----------------------------------------------------------------------------
(* The forms of a step.                                                    *)

\* The parsing goes on, or the run is over.
Goes ==
  /\ index' \in Nat /\ IsStack(stack') /\ errors' \in BOOLEAN /\ IsArena(arena')
  /\ status' = status
Ends ==
  /\ status' \in {"exit", "crash"} /\ errors' = TRUE
  /\ UNCHANGED <<index, stack, arena>>

LEMMA MoveGoes ==
  ASSUME TypeInv, NEW n \in Nat, NEW calls, NEW err \in BOOLEAN, NEW lines, NEW passed,
         Move(n, calls, err, lines, passed), IsStack(calls), IsArena(arena')
  PROVE  Goes
<1>1. index' \in Nat
  <2>1. index \in Nat /\ Len(tokens) \in Nat
    BY DEF TypeInv
  <2> QED BY <2>1 DEF Move
<1>2. errors' \in BOOLEAN
  BY DEF Move, Errors, Past, TypeInv
<1> QED BY <1>1, <1>2 DEF Move, Goes

LEMMA ArenaKept ==
  ASSUME TypeInv
  PROVE  /\ NoNode => IsArena(arena')
         /\ \A size \in {Instr, Expr, Block} : Push(size) => IsArena(arena')
<1>1. NoNode => IsArena(arena')
  BY DEF NoNode, TypeInv
<1>2. ASSUME NEW size \in {Instr, Expr, Block}, Push(size) PROVE IsArena(arena')
  BY <1>2, PushInside, ParserAssumption DEF Push, TypeInv
<1> QED BY <1>1, <1>2

\* What the shorthands of a step come down to.
LEMMA Forms ==
  ASSUME TypeInv
  PROVE  /\ \A n \in Nat : \A calls : IsStack(calls) /\ Go(n, calls) => Goes
         /\ \A n \in Nat : \A calls : IsStack(calls) /\ Complain(n, calls) => Goes
         /\ \A n \in Nat : \A kind, calls : IsStack(calls) /\ Emit(kind, n, calls) => Goes
         /\ \A kind, calls : IsStack(calls) /\ TakeFor(kind, calls) => Goes
         /\ \A kind, calls : IsStack(calls) /\ Expect(kind, calls) => Goes
         /\ \A kind, calls : IsStack(calls) /\ Require(kind, calls) => Goes \/ Ends
         /\ Exit => Ends
         /\ Crash => Ends
<1>1. ASSUME NEW n \in Nat, NEW calls, IsStack(calls), Go(n, calls) PROVE Goes
  BY <1>1, MoveGoes, ArenaKept DEF Go
<1>2. ASSUME NEW n \in Nat, NEW calls, IsStack(calls), Complain(n, calls) PROVE Goes
  BY <1>2, MoveGoes, ArenaKept DEF Complain
<1>3. ASSUME NEW kind, NEW n \in Nat, NEW calls, IsStack(calls), Emit(kind, n, calls) PROVE Goes
  BY <1>3, MoveGoes, ArenaKept DEF Emit
<1>4. ASSUME NEW kind, NEW calls, IsStack(calls), TakeFor(kind, calls) PROVE Goes
  BY <1>4, MoveGoes, ArenaKept DEF TakeFor
<1>5. ASSUME NEW kind, NEW calls, IsStack(calls), Expect(kind, calls) PROVE Goes
  BY <1>1, <1>2, <1>5 DEF Expect
<1>6. Exit => Ends
  BY DEF Exit, Ends
<1>7. Crash => Ends
  BY DEF Crash, Ends
<1>8. ASSUME NEW kind, NEW calls, IsStack(calls), Require(kind, calls) PROVE Goes \/ Ends
  BY <1>1, <1>6, <1>8 DEF Require
<1> QED BY <1>1, <1>2, <1>3, <1>4, <1>5, <1>6, <1>7, <1>8, Zenon

----------------------------------------------------------------------------
(* The actions.                                                            *)

LEMMA FactorSteps == ASSUME TypeInv, Factor PROVE Goes \/ Ends
<1>0. Top.pc # "program"
  BY DEF Factor
<1>1. CASE /\ Push(Expr)
           /\ Move(1, IF Tok = "id" THEN Then("after id") ELSE Return, FALSE, <<>>, {})
  <2>1. IsStack(IF Tok = "id" THEN Then("after id") ELSE Return)
    BY <1>0, StacksOK
  <2> QED BY <1>1, <2>1, ArenaKept, MoveGoes
<1>2. CASE Go(1, CallThen(parse_expr, "paren"))
  BY <1>0, <1>2, StacksOK, CallsMade, Forms
<1>3. CASE Exit \/ Crash
  BY <1>3, Forms
<1> QED BY <1>1, <1>2, <1>3 DEF Factor

LEMMA AfterIdentifierSteps == ASSUME TypeInv, AfterIdentifier PROVE Goes \/ Ends
BY StacksOK, CallsMade, Forms DEF AfterIdentifier

LEMMA ClosingSteps == ASSUME TypeInv, CloseIndex \/ CloseParen PROVE Goes \/ Ends
BY StacksOK, Forms DEF CloseIndex, CloseParen

LEMMA ArgumentSteps == ASSUME TypeInv, Arguments \/ ArgumentComma PROVE Goes \/ Ends
<1>1. CASE Arguments
  BY <1>1, StacksOK, CallsMade, Forms DEF Arguments
<1>2. CASE ArgumentComma
  BY <1>2, StacksOK, CallsMade, Forms DEF ArgumentComma
<1> QED BY <1>1, <1>2

LEMMA OperatorSteps ==
  ASSUME TypeInv, NEW pc, pc # "program", NEW operator, NEW operand, Calls(operand),
         Operators(pc, operator, operand)
  PROVE  Goes \/ Ends
<1>0. Top.pc # "program"
  BY DEF Operators
<1>1. CASE Crash
  BY <1>1, Forms
<1>2. CASE (Push(Expr) \/ NoNode)
           /\ Move(1, Append(Below, Call(pc, Depth, TRUE)) \o operand, FALSE, <<>>, {})
  <2>1. IsStack(Append(Below, Call(pc, Depth, TRUE)) \o operand)
    <3>1. IsStack(Append(Below, Call(pc, Depth, TRUE)))
      BY <1>0, BelowOK, AtIsCall, CallIsCall, OneMore
    <3> QED BY <3>1, MoreCalls DEF IsStack
  <2> QED BY <1>2, <2>1, ArenaKept, MoveGoes
<1>3. CASE (Push(Expr) \/ NoNode) /\ Move(0, Return, FALSE, <<>>, {})
  BY <1>0, <1>3, StacksOK, ArenaKept, MoveGoes
<1> QED BY <1>1, <1>2, <1>3 DEF Operators

LEMMA ExpressionSteps == ASSUME TypeInv, Term \/ Expression PROVE Goes \/ Ends
<1>1. CASE Term
  BY <1>1, CallsMade, OperatorSteps DEF Term
<1>2. CASE Expression
  BY <1>2, CallsMade, OperatorSteps DEF Expression
<1> QED BY <1>1, <1>2

LEMMA RelationSteps == ASSUME TypeInv, parse_term_for_expr \/ Relation PROVE Goes \/ Ends
<1>1. CASE parse_term_for_expr
  BY <1>1, StacksOK, Forms DEF parse_term_for_expr
<1>2. CASE Relation
  BY <1>2, StacksOK, CallsMade, Forms DEF Relation
<1> QED BY <1>1, <1>2

LEMMA DeclarationSteps ==
  ASSUME TypeInv, DeclareName \/ DeclareSize \/ DeclareArray \/ parse_initialize_array
  PROVE  Goes \/ Ends
<1>1. CASE DeclareName
  BY <1>1, StacksOK, Forms DEF DeclareName
<1>2. CASE DeclareSize
  BY <1>2, StacksOK, CallsMade, Forms DEF DeclareSize
<1>3. CASE DeclareArray
  BY <1>3, StacksOK, CallsMade, Forms DEF DeclareArray
<1>4. CASE parse_initialize_array
  BY <1>4, StacksOK, CallsMade, Forms DEF parse_initialize_array
<1> QED BY <1>1, <1>2, <1>3, <1>4

LEMMA SimpleSteps ==
  ASSUME TypeInv, parse_assign \/ parse_goto \/ parse_ret
  PROVE  Goes \/ Ends
<1>1. CASE parse_assign
  BY <1>1, StacksOK, CallsMade, Forms DEF parse_assign
<1>2. CASE parse_goto
  BY <1>2, StacksOK, Forms DEF parse_goto
<1>3. CASE parse_ret
  BY <1>3, StacksOK, CallsMade, Forms DEF parse_ret
<1> QED BY <1>1, <1>2, <1>3

\* One more instruction of a body, or of the program.
LEMMA NextInstrGoes ==
  ASSUME TypeInv, NEW depth \in Nat, NEW pc, Top.pc # "program" \/ pc = "program",
         NextInstr(depth, pc)
  PROVE  Goes
<1>1. Calls(parse_instr(depth, Full(Instr)))
  BY CallsMade
<1>2. IsStack(Then(pc))
  BY BelowOK, AtIsCall, OneMore DEF Then
<1>3. IsStack(CallThen(parse_instr(depth, Full(Instr)), pc))
  BY <1>1, <1>2, MoreCalls DEF CallThen, Then, IsStack
<1>4. Full(Instr) \in BOOLEAN
  BY DEF Full
<1>5. Push(Instr) /\ Move(0, CallThen(parse_instr(depth, Full(Instr)), pc), Full(Instr), <<>>, {})
  BY DEF NextInstr
<1> QED BY <1>3, <1>4, <1>5, ArenaKept, MoveGoes

LEMMA BodyGoes ==
  ASSUME TypeInv, NEW pc, pc # "program", NEW ends, NEW depth \in Nat, NEW after, IsStack(after),
         Body(pc, ends, depth, after)
  PROVE  Goes
<1>0. Top.pc = pc
  BY DEF Body
<1>1. CASE Go(1, after)
  BY <1>1, Forms
<1>2. CASE NextInstr(depth, pc)
  BY <1>0, <1>2, NextInstrGoes
<1> QED BY <1>1, <1>2 DEF Body

LEMMA DepthBelow == ASSUME TypeInv PROVE Depth \in Nat /\ Depth + 1 \in Nat
BY AtIsCall

LEMMA CondBlockSteps == ASSUME TypeInv, CondBlock PROVE Goes \/ Ends
<1>0. Top.pc # "program"
  BY DEF CondBlock, Body
<1>1. CASE Crash
  BY <1>1, Forms
<1>2. CASE Go(1, Then("in block"))
  BY <1>0, <1>2, StacksOK, Forms
<1>3. CASE /\ Push(Instr)
           /\ Move(0, Instead(parse_instr(Depth + 1, Full(Instr))), Full(Instr), <<>>, {})
  <2>1. IsStack(Instead(parse_instr(Depth + 1, Full(Instr)))) /\ Full(Instr) \in BOOLEAN
    BY <1>0, DepthBelow, CallsMade, StacksOK DEF Full
  <2> QED BY <1>3, <2>1, ArenaKept, MoveGoes
<1>4. CASE Body("in block", {"}", "END"}, Depth + 1, Return)
  BY <1>0, <1>4, DepthBelow, StacksOK, BodyGoes
<1> QED BY <1>1, <1>2, <1>3, <1>4 DEF CondBlock

LEMMA IfSteps == ASSUME TypeInv, parse_if \/ Else PROVE Goes \/ Ends
<1>1. CASE parse_if
  BY <1>1, StacksOK, CallsMade, Forms DEF parse_if
<1>2. CASE Else
  <2>0. Top.pc # "program"
    BY <1>2 DEF Else
  <2>1. CASE Emit("elif", 1, CallThen(parse_cond_block(FALSE) \o parse_rel, "arm"))
    BY <2>0, <2>1, StacksOK, CallsMade, Forms
  <2>2. ASSUME NEW lines, Push(Block),
               Move(0, Instead(parse_cond_block(Full(Block))), Full(Block), lines, {})
        PROVE  Goes
    <3>1. IsStack(Instead(parse_cond_block(Full(Block)))) /\ Full(Block) \in BOOLEAN
      BY <2>0, CallsMade, StacksOK DEF Full
    <3> QED BY <2>2, <3>1, ArenaKept, MoveGoes
  <2> QED BY <1>2, <2>1, <2>2 DEF Else
<1> QED BY <1>1, <1>2

LEMMA WastedNodeGoes ==
  ASSUME TypeInv, Top.pc # "program", NEW n \in Nat, NEW lines, NEW pc, WastedNode(n, lines, pc)
  PROVE  Goes
<1>1. IsStack(CallThen(parse_expr, pc)) /\ Full(Expr) \in BOOLEAN
  BY StacksOK, CallsMade DEF Full
<1> QED BY <1>1, ArenaKept, MoveGoes DEF WastedNode

LEMMA MatchSteps == ASSUME TypeInv, parse_match PROVE Goes \/ Ends
<1>0. Top.pc # "program"
  BY DEF parse_match
<1>1. \A pc : IsStack(Then(pc)) /\ IsStack(CallThen(parse_cond_block(FALSE), pc)) /\ IsStack(Return)
  BY <1>0, StacksOK, CallsMade
<1>2. \A n \in Nat : \A lines, pc : WastedNode(n, lines, pc) => Goes
  BY <1>0, WastedNodeGoes
<1> QED BY <1>1, <1>2, Forms DEF parse_match

LEMMA LoopSteps == ASSUME TypeInv, parse_loop PROVE Goes \/ Ends
<1>0. Top.pc # "program"
  BY DEF parse_loop, Body
<1>1. /\ \A pc : IsStack(Then(pc)) /\ IsStack(CallThen(parse_rel, pc))
      /\ IsStack(Return) /\ IsStack(Instead(parse_rel))
  BY <1>0, StacksOK, CallsMade
<1>2. \A n \in Nat : \A lines, pc : WastedNode(n, lines, pc) => Goes
  BY <1>0, WastedNodeGoes
<1>3. CASE Body("in loop", {"}"}, Depth + 1, IF Top.arg = "dowhile" THEN Then("until") ELSE Return)
  <2>1. IsStack(IF Top.arg = "dowhile" THEN Then("until") ELSE Return)
    BY <1>1
  <2> QED BY <1>3, <2>1, DepthBelow, BodyGoes
<1>4. CASE ~Body("in loop", {"}"}, Depth + 1, IF Top.arg = "dowhile" THEN Then("until") ELSE Return)
  BY <1>1, <1>2, <1>4, Forms DEF parse_loop
<1> QED BY <1>3, <1>4

LEMMA FunctionSteps ==
  ASSUME TypeInv, Parameters \/ ReturnTypes \/ FunctionBody
  PROVE  Goes \/ Ends
<1>0. Top.pc # "program"
  BY DEF Parameters, ReturnTypes, FunctionBody, Body
<1>1. IsStack(Return) /\ \A pc : IsStack(Then(pc))
  BY <1>0, StacksOK
<1>2. ASSUME NEW pc, NEW passed, Move(2, Then(pc), FALSE, <<>>, passed), NoNode PROVE Goes
  BY <1>1, <1>2, ArenaKept, MoveGoes
<1>3. CASE Parameters
  BY <1>1, <1>2, <1>3, Forms DEF Parameters
<1>4. CASE ReturnTypes
  BY <1>1, <1>2, <1>4, Forms DEF ReturnTypes
<1>5. CASE FunctionBody
  <2>1. CASE Body("in fn", {"}", "END"}, Depth + 1, Return)
    BY <1>1, <2>1, DepthBelow, BodyGoes
  <2>2. CASE ~Body("in fn", {"}", "END"}, Depth + 1, Return)
    BY <1>1, <1>5, <2>2, Forms DEF FunctionBody
  <2> QED BY <2>1, <2>2
<1> QED BY <1>3, <1>4, <1>5

LEMMA InstructionSteps == ASSUME TypeInv, Instruction PROVE Goes \/ Ends
<1>0. Top.pc # "program"
  BY DEF Instruction
<1>1. CASE Exit \/ Crash
  BY <1>1, Forms
<1>2. CASE Emit(Tok, 1, Return)
  BY <1>0, <1>2, StacksOK, Forms
<1>3. ASSUME NEW kind, Emit(kind, 1, Append(Below, At(Point(Tok), Tok))) PROVE Goes
  BY <1>0, <1>3, StacksOK, Forms
<1>4. CASE Go(1, Append(Below, At(Point(Tok), Tok)))
  BY <1>0, <1>4, StacksOK, Forms
<1>5. CASE Emit("if", 1, Instead(<<Call("if", Depth, FALSE)>> \o parse_rel))
  BY <1>0, <1>5, StacksOK, CallsMade, Forms
<1>6. ASSUME NEW lines, Push(Expr),
             Move(1, Instead(<<Call("match", Depth, FALSE)>> \o parse_expr), Full(Expr), lines, {})
      PROVE  Goes
  <2>1. /\ IsStack(Instead(<<Call("match", Depth, FALSE)>> \o parse_expr))
        /\ Full(Expr) \in BOOLEAN
    BY <1>0, StacksOK, CallsMade DEF Full
  <2> QED BY <1>6, <2>1, ArenaKept, MoveGoes
<1> QED BY <1>1, <1>2, <1>3, <1>4, <1>5, <1>6 DEF Instruction, Unexpected

\* The one step that returns to main.
Finishes ==
  /\ Tok = "END" /\ Top.pc = "program" /\ status' = "done"
  /\ UNCHANGED <<index, stack, errors, arena, tree, unseen>>

LEMMA ProgramSteps == ASSUME TypeInv, Program PROVE Goes \/ Ends \/ Finishes
<1>1. CASE NextInstr(0, "program")
  BY <1>1, NextInstrGoes
<1>2. CASE Exit
  BY <1>2, Forms
<1> QED BY <1>1, <1>2 DEF Program, Finishes

\* main sees the end only after the look at the errors.
LEMMA Steps ==
  ASSUME TypeInv, Parse
  PROVE  /\ status = "parsing" /\ UNCHANGED <<vocabulary, tokens>>
         /\ Goes \/ Ends \/ (Finishes /\ ~Errors)
<1>1. CASE Exit
  BY <1>1, Forms DEF Parse
<1>2. ASSUME Step, ~(Gate /\ ~NoOperatorNode)
      PROVE  Goes \/ Ends \/ (Finishes /\ ~Errors)
  <2>1. CASE Program
    <3>1. Finishes => ~Errors
      BY <1>2 DEF Finishes, Gate, NoOperatorNode
    <3> QED BY <2>1, <3>1, ProgramSteps
  <2>2. CASE ~Program
    BY <1>2, <2>2, FactorSteps, AfterIdentifierSteps, ClosingSteps, ArgumentSteps, ExpressionSteps,
       RelationSteps, DeclarationSteps, SimpleSteps, CondBlockSteps, IfSteps, MatchSteps, LoopSteps,
       FunctionSteps, InstructionSteps DEF Step
  <2> QED BY <2>1, <2>2
<1> QED BY <1>1, <1>2 DEF Parse

----------------------------------------------------------------------------
(* The invariant.                                                          *)

LEMMA InitInv == Init => Inv
<1> SUFFICES ASSUME Init PROVE Inv
  OBVIOUS
<1>1. IsStack(stack)
  <2>1. Calls(stack)
    BY CallIsCall, OneCall DEF Init
  <2>2. stack = <<Call("program", 0, FALSE)>> /\ Call("program", 0, FALSE).pc = "program"
    BY DEF Init, Call
  <2>3. Len(stack) # 0 /\ stack[1] = Call("program", 0, FALSE)
    BY <2>2
  <2>4. stack[1].pc = "program"
    BY <2>2, <2>3
  <2> QED BY ONLY <2>1, <2>3, <2>4, Zenon DEF IsStack
<1>2. IsArena(arena)
  BY InitArena, ParserAssumption DEF Init
<1>3. tokens \in Seq(Kinds) /\ Len(tokens) = 0
  BY DEF Init
<1>4. TypeInv
  BY <1>1, <1>2, <1>3 DEF Init, TypeInv
<1>5. EndIsLast
  BY <1>3 DEF EndIsLast
<1> QED BY <1>4, <1>5 DEF Init, Inv, DoneMeansClean

\* The source grows, and nothing behind an END.
LEMMA SupplyStep == Inv /\ Supply => Inv'
<1> SUFFICES ASSUME Inv, Supply PROVE Inv'
  OBVIOUS
<1>1. PICK piece \in {<<"END">>} \cup More : tokens' = tokens \o piece
  BY DEF Supply
<1>2. tokens \in Seq(Kinds) /\ ~Complete /\ EndIsLast /\ TypeInv
  BY DEF Inv, TypeInv, Supply
<1>3. piece \in Seq(Kinds) /\ \A i \in 1..(Len(piece) - 1) : piece[i] # "END"
  <2>1. CASE piece = <<"END">>
    <3>1. piece \in Seq(Kinds) /\ Len(piece) = 1
      BY <2>1 DEF Kinds
    <3> QED BY <3>1
  <2>2. CASE piece \in More
    <3>1. piece \in Seq(Kinds \ {"END"})
      BY <1>2, <2>2, ParserAssumption DEF More, TypeInv
    <3> QED BY <3>1
  <2> QED BY <1>1, <2>1, <2>2
<1>4. \A i \in 1..Len(tokens) : tokens[i] # "END"
  <2> SUFFICES ASSUME NEW i \in 1..Len(tokens), tokens[i] = "END" PROVE FALSE
    OBVIOUS
  <2>1. i = Len(tokens)
    BY <1>2 DEF EndIsLast
  <2>2. tokens # <<>>
    BY <1>2
  <2> QED BY <1>2, <2>1, <2>2 DEF Complete
<1>5. /\ tokens \o piece \in Seq(Kinds) /\ Len(tokens \o piece) = Len(tokens) + Len(piece)
      /\ \A i \in 1..Len(tokens) + Len(piece) :
           (tokens \o piece)[i] = IF i <= Len(tokens) THEN tokens[i] ELSE piece[i - Len(tokens)]
  BY <1>2, <1>3, ConcatProperties, Zenon
<1>6. EndIsLast'
  <2> SUFFICES ASSUME NEW i \in 1..(Len(tokens \o piece) - 1) PROVE (tokens \o piece)[i] # "END"
    BY <1>1 DEF EndIsLast
  <2>0. Len(tokens) \in Nat /\ Len(piece) \in Nat
    BY <1>2, <1>3
  <2>1. CASE i <= Len(tokens)
    BY <1>4, <1>5, <2>0, <2>1
  <2>2. CASE ~(i <= Len(tokens))
    <3>1. i - Len(tokens) \in 1..(Len(piece) - 1)
      BY <1>5, <2>0, <2>2
    <3> QED BY <1>3, <1>5, <2>0, <2>2, <3>1
  <2> QED BY <2>1, <2>2
<1>7. TypeInv'
  BY <1>1, <1>2, <1>5 DEF Supply, TypeInv
<1>8. DoneMeansClean'
  BY DEF Supply, DoneMeansClean
<1> QED BY <1>6, <1>7, <1>8 DEF Inv

LEMMA ParseStep == Inv /\ Parse => Inv'
<1> SUFFICES ASSUME Inv, Parse PROVE Inv'
  OBVIOUS
<1>0. TypeInv /\ EndIsLast
  BY DEF Inv
<1>1. status = "parsing" /\ UNCHANGED <<vocabulary, tokens>>
  BY <1>0, Steps
<1>2. EndIsLast'
  BY <1>0, <1>1 DEF EndIsLast
<1>3. CASE Goes
  <2>1. TypeInv'
    BY <1>0, <1>1, <1>3 DEF Goes, TypeInv
  <2>2. DoneMeansClean'
    BY <1>1, <1>3 DEF Goes, DoneMeansClean
  <2> QED BY <1>2, <2>1, <2>2 DEF Inv
<1>4. CASE Ends
  <2>1. TypeInv'
    BY <1>0, <1>1, <1>4 DEF Ends, TypeInv
  <2>2. DoneMeansClean'
    BY <1>4 DEF Ends, DoneMeansClean
  <2> QED BY <1>2, <2>1, <2>2 DEF Inv
<1>5. CASE Finishes /\ ~Errors
  <2>1. TypeInv'
    BY <1>0, <1>1, <1>5 DEF Finishes, TypeInv
  <2>2. index \in Nat /\ index < Len(tokens) /\ tokens[index + 1] = "END" /\ tokens \in Seq(Kinds)
    BY <1>0, <1>5 DEF Errors, Past, Tok, dynamic_array_get, InRange, Count, Array, Finishes, TypeInv
  <2>3. index + 1 = Len(tokens)
    <3>1. ~(index + 1 \in 1..(Len(tokens) - 1))
      BY <1>0, <2>2 DEF EndIsLast
    <3> QED BY <2>2, <3>1
  <2>4. Complete /\ index = Len(tokens) - 1
    BY <2>2, <2>3 DEF Complete
  <2>5. ~errors
    BY <1>5 DEF Errors
  <2>6. DoneMeansClean'
    BY <1>1, <1>5, <2>4, <2>5 DEF Finishes, DoneMeansClean, Complete
  <2> QED BY <1>2, <2>1, <2>6 DEF Inv
<1> QED BY <1>0, <1>3, <1>4, <1>5, Steps

LEMMA Idle == Inv /\ UNCHANGED pvars => Inv'
BY DEF Inv, pvars, TypeInv, EndIsLast, DoneMeansClean, Complete

\* The invariant: the calls in progress are calls, the first of them that of
\* parser_parse_program, the arena is an arena, and what is done is clean.
THEOREM Invariance == Spec => []Inv
<1>1. Inv /\ [Next]_pvars => Inv'
  BY SupplyStep, ParseStep, Idle DEF Next, Finished
<1> QED BY InitInv, <1>1, PTL DEF Spec

\* Whatever the source, parser_parse_program returns to main only from the
\* END of it, past all of its tokens, and without an error: main does not look.
THEOREM CleanTheorem == Spec => []DoneMeansClean
<1>1. Inv => DoneMeansClean
  BY DEF Inv
<1> QED BY <1>1, Invariance, PTL

\* The arena of the tree is never overrun, and no loop or call returns to
\* before the beginning of the program.
THEOREM TypesCorrect == Spec => []TypeOK
<1>1. Inv => TypeOK
  <2> SUFFICES ASSUME Inv PROVE TypeOK
    OBVIOUS
  <2>1. TypeInv
    BY DEF Inv
  <2>2. stack # <<>>
    BY <2>1 DEF TypeInv, IsStack
  <2> QED BY <2>1, <2>2 DEF TypeInv, TypeOK, IsStack, Calls, IsCall, IsArena
<1> QED BY <1>1, Invariance, PTL

----------------------------------------------------------------------------
(* Brackets.  As long as no error is counted, every bracket that was read  *)
(* and not closed is held by a call in progress, which will read the       *)
(* closing one.                                                            *)

Opens == {"(", "[", "{"}
Close(o) == CASE o = "(" -> ")" [] o = "[" -> "]" [] o = "{" -> "}"

\* The points of a call between a bracket and the one that closes it.
Inside(mark) ==
  CASE mark = "(" -> {"paren", "arguments", "comma", "parameter", "name or pointer", "name", "parameter end"}
    [] mark = "[" -> {"index", "sized", "subscript"}
    [] mark = "{" -> {"element", "element end", "in block", "in loop", "in fn",
                      "case", "first value", "value", "=>"}
    [] mark = "program" -> {"program"}
Marks == Opens \cup {"program"}

\* How many calls of a stack are inside of a pair of brackets.
Holders(mark, s) == {i \in 1..Len(s) : s[i].pc \in Inside(mark)}
Held(mark, s) == Cardinality(Holders(mark, s))

\* The source as the parser took it, as Taken, also where a token was passed
\* before it was supplied; and how much of the first n is of a kind.
TakenFor(blind, token) == IF blind = {} THEN token ELSE (CHOOSE u \in blind : TRUE)[2]
TakenAs == [i \in Nat |-> TakenFor({u \in unseen : u[1] = i - 1}, tokens[i])]
Places(kind, n, taken) == {i \in 1..n : taken[i] = kind}
Till(kind, n, taken) == Cardinality(Places(kind, n, taken))

\* No error is counted, and none will be for want of a token.
Quiet == status = "parsing" /\ ~errors /\ ~(Complete /\ Past)

\* The first n tokens were all taken for something, no bad one among them, and
\* their brackets are closed in order, but for those that the calls hold.
Counted(n, taken, calls) ==
  /\ \A i \in 1..n : taken[i] # "bad"
  /\ \A o \in Opens :
       /\ Till(o, n, taken) = Till(Close(o), n, taken) + Held(o, calls)
       /\ \A j \in 0..n : Till(Close(o), j, taken) <= Till(o, j, taken)

Whole ==
  /\ \A u \in unseen : u[1] \in Nat /\ u[1] < index
  /\ \A i \in 1..index : i <= Len(tokens) \/ \E u \in unseen : u[1] = i - 1
  /\ Held("program", stack) = 1
  /\ Counted(index, TakenAs, stack)

BracketInv ==
  /\ Inv
  /\ Quiet => Whole
  /\ AcceptedIsBalanced /\ BadTokensAreReported

\* One of the marks changes for the innermost call: it was at its point, or had
\* gone, and is at point pc now ("none" if it is gone).
Within(mark, pc) == IF pc \in Inside(mark) THEN 1 ELSE 0
Turned(s, pc) == \A m \in Marks : Held(m, s) + Within(m, Top.pc) = Held(m, stack) + Within(m, pc)

\* Calls that are inside of nothing.
Plain(cs) == Calls(cs) /\ \A i \in 1..Len(cs) : \A m \in Marks : cs[i].pc \notin Inside(m)

\* The way of the innermost call to pc fits a token of kind k, or none.
EvenWithout(pc) == \A m \in Marks : pc \in Inside(m) <=> Top.pc \in Inside(m)
Even(pc, k) ==
  /\ pc \in Inside("program") <=> Top.pc \in Inside("program")
  /\ \A o \in Opens :
       \/ k = o /\ pc \in Inside(o) /\ Top.pc \notin Inside(o)
       \/ k = Close(o) /\ k # o /\ pc \notin Inside(o) /\ Top.pc \in Inside(o)
       \/ k \notin {o, Close(o)} /\ (pc \in Inside(o) <=> Top.pc \in Inside(o))

\* The four ways for the parsing to go on without an error: no token, one that
\* it looked at, one that it took for a k, and one of them after another token.
Stays(pc) == Turned(stack', pc) /\ EvenWithout(pc) /\ UNCHANGED <<index, unseen>>
Looks(pc) ==
  /\ Turned(stack', pc) /\ Even(pc, Tok) /\ Tok # "bad"
  /\ index' = index + 1 /\ UNCHANGED unseen
Passes(pc, k) ==
  /\ Turned(stack', pc) /\ Even(pc, k) /\ k # "bad"
  /\ index' = index + 1 /\ unseen' = unseen \cup {<<index, k>>}
Skips(pc, k) ==
  /\ Turned(stack', pc) /\ Even(pc, k) /\ k # "bad"
  /\ Tok # "bad" /\ \A o \in Opens : Tok \notin {o, Close(o)}
  /\ index' = index + 2 /\ unseen' = unseen \cup {<<index + 1, k>>}
GoesOn == ~Errors /\ \E pc : Stays(pc) \/ Looks(pc) \/ \E k : Passes(pc, k) \/ Skips(pc, k)

----------------------------------------------------------------------------
(* Counting.                                                               *)

LEMMA UpTo ==
  ASSUME NEW n \in Nat, NEW S, S \subseteq 1..n
  PROVE  /\ IsFiniteSet(S) /\ Cardinality(S) \in Nat
         /\ Cardinality(S \cup {n + 1}) = Cardinality(S) + 1
         /\ Cardinality(S) = 0 <=> S = {}
<1>1. IsFiniteSet(1..n)
  BY FS_Interval
<1>2. IsFiniteSet(S)
  BY <1>1, FS_Subset
<1>3. n + 1 \notin S
  OBVIOUS
<1> QED BY <1>2, <1>3, FS_CardinalityType, FS_AddElement, FS_EmptySet

LEMMA HeldIsNat ==
  ASSUME NEW s, Calls(s), NEW m
  PROVE  Held(m, s) \in Nat /\ (Held(m, s) = 0 <=> Holders(m, s) = {})
<1>1. Len(s) \in Nat
  BY SequenceLength DEF Calls
<1>2. Holders(m, s) \subseteq 1..Len(s)
  BY DEF Holders
<1> QED BY <1>1, <1>2, UpTo DEF Held

LEMMA HeldByOneMore ==
  ASSUME NEW s, Calls(s), NEW c, NEW m
  PROVE  Held(m, Append(s, c)) = Held(m, s) + Within(m, c.pc)
<1>1. /\ Len(Append(s, c)) = Len(s) + 1 /\ Append(s, c)[Len(s) + 1] = c
      /\ \A i \in 1..Len(s) : Append(s, c)[i] = s[i]
      /\ Len(s) \in Nat
  BY AppendSequence, SequenceLength DEF Calls
<1>2. Holders(m, s) \subseteq 1..Len(s)
  BY DEF Holders
<1>3. \A i \in 1..(Len(s) + 1) : i \in 1..Len(s) \/ i = Len(s) + 1
  BY <1>1
<1>4. CASE c.pc \in Inside(m)
  <2>1. Holders(m, Append(s, c)) = Holders(m, s) \cup {Len(s) + 1}
    BY <1>1, <1>3, <1>4 DEF Holders
  <2>2. Cardinality(Holders(m, s) \cup {Len(s) + 1}) = Cardinality(Holders(m, s)) + 1
    BY ONLY <1>1, <1>2, UpTo
  <2> QED BY <1>4, <2>1, <2>2 DEF Held, Within
<1>5. CASE c.pc \notin Inside(m)
  <2>1. Holders(m, Append(s, c)) = Holders(m, s)
    BY <1>1, <1>3, <1>5 DEF Holders
  <2> QED BY <1>5, <2>1, HeldIsNat DEF Held, Within
<1> QED BY <1>4, <1>5

LEMMA PlainHolds ==
  ASSUME NEW s, Calls(s), NEW cs, Plain(cs), NEW m \in Marks
  PROVE  Held(m, s \o cs) = Held(m, s)
<1>1. /\ Len(s \o cs) = Len(s) + Len(cs)
      /\ \A i \in 1..Len(s) : (s \o cs)[i] = s[i]
      /\ \A i \in 1..Len(cs) : (s \o cs)[Len(s) + i] = cs[i]
      /\ Len(s) \in Nat /\ Len(cs) \in Nat
  BY JoinedSequence, SequenceLength DEF Plain, Calls
<1>2. ASSUME NEW i \in 1..Len(s \o cs), i \notin 1..Len(s)
      PROVE  (s \o cs)[i].pc \notin Inside(m)
  <2>1. PICK j \in 1..Len(cs) : i = Len(s) + j
    <3>1. i - Len(s) \in 1..Len(cs) /\ i = Len(s) + (i - Len(s))
      BY <1>1, <1>2
    <3> QED BY <3>1
  <2> QED BY <1>1, <2>1 DEF Plain
<1>3. 1..Len(s) \subseteq 1..Len(s \o cs)
  BY <1>1
<1>4. Holders(m, s \o cs) = Holders(m, s)
  BY <1>1, <1>2, <1>3 DEF Holders
<1> QED BY <1>4 DEF Held

\* A stack is its innermost call on those below.
LEMMA HeldBelow ==
  ASSUME TypeInv, NEW m
  PROVE  Held(m, stack) = Held(m, Below) + Within(m, Top.pc) /\ Held(m, Below) \in Nat
<1>1. Calls(Below) /\ Len(stack) \in Nat \ {0} /\ IsSequence(stack)
  BY BelowOK, TopIsCall DEF TypeInv, IsStack, Calls
<1>2. stack = Append(Below, Top)
  <2>1. stack \in Seq({stack[i] : i \in 1..Len(stack)})
    BY <1>1 DEF IsSequence
  <2> QED BY <1>1, <2>1 DEF Below, Top
<1> QED BY <1>1, <1>2, HeldByOneMore, HeldIsNat

\* Nothing is inside of anything when it is gone.
LEMMA NoneIsOutside == \A m \in Marks : "none" \notin Inside(m)
BY DEF Marks, Opens, Inside

\* Whatever the innermost call goes on with: its mark changes, and no other.
LEMMA StacksTurn ==
  ASSUME TypeInv
  PROVE  /\ Turned(Return, "none")
         /\ \A pc : Turned(Then(pc), pc)
         /\ \A pc, arg : Turned(Append(Below, At(pc, arg)), pc)
         /\ \A pc, cs : Plain(cs) => Turned(CallThen(cs, pc), pc)
         /\ \A cs : Plain(cs) => Turned(Instead(cs), "none")
         /\ \A pc, arg, cs : Plain(cs) => Turned(Append(Below, Call(pc, Depth, arg)) \o cs, pc)
<1>1. /\ Calls(Below) /\ Depth \in Nat
      /\ \A pc, arg : IsCall(At(pc, arg)) /\ At(pc, arg).pc = pc
      /\ \A pc, arg : IsCall(Call(pc, Depth, arg)) /\ Call(pc, Depth, arg).pc = pc
  BY BelowOK, AtIsCall, CallIsCall DEF Call
<1>2. \A m : Held(m, stack) = Held(m, Below) + Within(m, Top.pc) /\ Held(m, Below) \in Nat
  BY HeldBelow
<1>3. \A m, pc : Within(m, pc) \in Nat
  BY DEF Within
<1>4. ASSUME NEW c, IsCall(c)
      PROVE  Turned(Append(Below, c), c.pc) /\ Calls(Append(Below, c))
  <2>1. \A m : Held(m, Append(Below, c)) = Held(m, Below) + Within(m, c.pc)
    BY <1>1, HeldByOneMore
  <2> QED BY <1>1, <1>2, <1>3, <1>4, <2>1, OneMore DEF Turned
<1>5. ASSUME NEW s, Calls(s), NEW pc, Turned(s, pc), NEW cs, Plain(cs)
      PROVE  Turned(s \o cs, pc)
  BY <1>5, PlainHolds DEF Turned
<1>6. Turned(Below, "none")
  BY <1>2, <1>3, NoneIsOutside DEF Turned, Within
<1>7. \A pc, arg : Turned(Append(Below, At(pc, arg)), pc) /\ Calls(Append(Below, At(pc, arg)))
  BY <1>1, <1>4
<1>8. \A pc, cs : Plain(cs) => Turned(CallThen(cs, pc), pc)
  BY <1>5, <1>7 DEF CallThen
<1>9. \A cs : Plain(cs) => Turned(Instead(cs), "none")
  BY <1>1, <1>5, <1>6 DEF Instead
<1>10. ASSUME NEW pc, NEW arg, NEW cs, Plain(cs)
       PROVE  Turned(Append(Below, Call(pc, Depth, arg)) \o cs, pc)
  BY <1>1, <1>4, <1>5, <1>10
<1> QED BY <1>6, <1>7, <1>8, <1>9, <1>10 DEF Return, Then

\* The calls that are made are inside of nothing.
LEMMA PlainCalls ==
  ASSUME TypeInv
  PROVE  /\ Plain(parse_expr) /\ Plain(parse_rel)
         /\ \A null : Plain(parse_cond_block(null))
         /\ \A depth \in Nat : \A null : Plain(parse_instr(depth, null))
         /\ \A null : Plain(parse_cond_block(null) \o parse_rel)
         /\ Plain(<<Call("elements", Depth, FALSE)>>)
         /\ Plain(<<Call("operand", Depth, FALSE)>>)
         /\ Plain(<<Call("factor", Depth, FALSE)>>)
         /\ Plain(<<Call("term", Depth, FALSE), Call("factor", Depth, FALSE)>>)
         /\ Plain(<<Call("if", Depth, FALSE)>> \o parse_rel)
         /\ Plain(<<Call("match", Depth, FALSE)>> \o parse_expr)
<1> DEFINE Outside(c) == \A m \in Marks : c.pc \notin Inside(m)
<1>1. ASSUME NEW pc \in {"expr", "term", "factor", "rel", "operand", "block", "instr", "elements", "if", "match"},
             NEW depth, NEW arg
      PROVE  Outside(Call(pc, depth, arg))
  BY <1>1 DEF Call, Marks, Opens, Inside
<1> HIDE DEF Outside
<1>2. ASSUME NEW cs, Calls(cs), \A i \in 1..Len(cs) : Outside(cs[i])  PROVE Plain(cs)
  BY <1>2 DEF Plain, Outside
<1>3. ASSUME NEW a, Outside(a), Calls(<<a>>)  PROVE Plain(<<a>>)
  <2>1. Len(<<a>>) = 1 /\ <<a>>[1] = a /\ \A i \in 1..1 : i = 1
    OBVIOUS
  <2> QED BY <1>2, <1>3, <2>1
<1>4. ASSUME NEW a, NEW b, Outside(a), Outside(b), Calls(<<a, b>>)  PROVE Plain(<<a, b>>)
  <2>1. Len(<<a, b>>) = 2 /\ <<a, b>>[1] = a /\ <<a, b>>[2] = b /\ \A i \in 1..2 : i = 1 \/ i = 2
    OBVIOUS
  <2> QED BY <1>2, <1>4, <2>1
<1>5. ASSUME NEW a, NEW b, NEW c, Outside(a), Outside(b), Outside(c), Calls(<<a, b, c>>)
      PROVE  Plain(<<a, b, c>>)
  <2>1. /\ Len(<<a, b, c>>) = 3 /\ <<a, b, c>>[1] = a /\ <<a, b, c>>[2] = b /\ <<a, b, c>>[3] = c
        /\ \A i \in 1..3 : i = 1 \/ i = 2 \/ i = 3
    OBVIOUS
  <2> QED BY <1>2, <1>5, <2>1
<1>6. ASSUME NEW s, NEW t, Plain(s), Plain(t)  PROVE Plain(s \o t)
  <2>1. Calls(s \o t)
    BY <1>6, MoreCalls DEF Plain
  <2>2. Calls(s) /\ Calls(t)
    BY <1>6 DEF Plain
  <2>3. /\ Len(s \o t) = Len(s) + Len(t)
        /\ \A i \in 1..Len(s) : (s \o t)[i] = s[i]
        /\ \A i \in 1..Len(t) : (s \o t)[Len(s) + i] = t[i]
        /\ Len(s) \in Nat /\ Len(t) \in Nat
    BY <2>2, JoinedSequence, SequenceLength DEF Calls
  <2>4. ASSUME NEW i \in 1..Len(s \o t)  PROVE Outside((s \o t)[i])
    <3>1. CASE i \in 1..Len(s)
      BY <1>6, <2>3, <3>1 DEF Plain, Outside
    <3>2. CASE i \notin 1..Len(s)
      <4>1. PICK j \in 1..Len(t) : i = Len(s) + j
        <5>1. i - Len(s) \in 1..Len(t) /\ i = Len(s) + (i - Len(s))
          BY <2>3, <3>2
        <5> QED BY <5>1
      <4> QED BY <1>6, <2>3, <4>1 DEF Plain, Outside
    <3> QED BY <3>1, <3>2
  <2> QED BY <1>2, <2>1, <2>4
<1>7. \A pc \in {"elements", "operand", "factor", "if", "match"} : Plain(<<Call(pc, Depth, FALSE)>>)
  BY <1>1, <1>3, CallsMade
<1>8. Plain(<<Call("term", Depth, FALSE), Call("factor", Depth, FALSE)>>)
  BY <1>1, <1>4, CallsMade
<1>9. Plain(parse_expr)
  BY <1>1, <1>5, CallsMade DEF parse_expr
<1>10. Plain(parse_rel)
  BY <1>1, <1>4, CallsMade DEF parse_rel
<1>11. \A null : Plain(parse_cond_block(null))
  BY <1>1, <1>3, CallsMade DEF parse_cond_block
<1>12. \A depth \in Nat : \A null : Plain(parse_instr(depth, null))
  BY <1>1, <1>3, CallsMade DEF parse_instr
<1> QED BY <1>6, <1>7, <1>8, <1>9, <1>10, <1>11, <1>12

----------------------------------------------------------------------------
(* The forms of a step, once more.                                         *)

\* A step without an error.
Calm ==
  /\ TypeInv /\ EndIsLast /\ status = "parsing" /\ (Past => Complete)
  /\ UNCHANGED tokens /\ Quiet'

LEMMA CalmStep ==
  ASSUME Calm
  PROVE  /\ ~Exit /\ ~Crash
         /\ \A n, calls, lines, passed : ~Move(n, calls, TRUE, lines, passed)
         /\ \A n, calls, err, lines, passed : Move(n, calls, err, lines, passed) => ~Errors
<1>1. ~Exit /\ ~Crash
  BY DEF Exit, Crash, Calm, Quiet
<1>2. ASSUME NEW n, NEW calls, NEW lines, NEW passed, Move(n, calls, TRUE, lines, passed)
      PROVE  FALSE
  BY <1>2 DEF Move, Calm, Quiet
<1>3. ASSUME NEW n, NEW calls, NEW err, NEW lines, NEW passed, Move(n, calls, err, lines, passed), Errors
      PROVE  FALSE
  BY <1>3 DEF Move, Calm, Quiet
<1> QED BY <1>1, <1>2, <1>3

\* What is read is not the END: behind it there are no more tokens.
LEMMA CalmRead ==
  ASSUME Calm, NEW n \in {1, 2}, NEW calls, NEW err, NEW lines, NEW passed,
         Move(n, calls, err, lines, passed), n = 2 => Tok # "END"
  PROVE  index' = index + n /\ Tok # "END" /\ Tok = tokens[index + 1] /\ index < Len(tokens)
<1>1. ~Past
  BY CalmStep DEF Errors
<1>2. index \in Nat /\ index < Len(tokens) /\ Tok = tokens[index + 1] /\ Len(tokens) \in Nat
  BY <1>1 DEF Past, Tok, dynamic_array_get, InRange, Count, Array, Calm, TypeInv
<1>3. \A i \in Nat : Past' <=> ~(index' < Len(tokens'))
  BY DEF Past, InRange, Count, Array
<1>4. ASSUME Tok = "END"  PROVE FALSE
  <2>1. index + 1 = Len(tokens)
    <3>1. ~(index + 1 \in 1..(Len(tokens) - 1))
      BY <1>2, <1>4 DEF Calm, EndIsLast
    <3> QED BY <1>2, <3>1
  <2>2. Complete /\ Complete'
    <3>1. tokens # <<>> /\ tokens' = tokens
      BY <1>2 DEF Calm
    <3> QED BY <1>2, <1>4, <2>1, <3>1 DEF Complete
  <2>3. index' = Len(tokens)
    BY <1>2, <1>4, <2>1 DEF Move
  <2> QED BY <1>2, <1>3, <2>2, <2>3 DEF Calm, Quiet
<1>5. ASSUME Complete, index + n > Len(tokens)  PROVE FALSE
  <2>1. index' = Len(tokens) /\ Complete'
    BY <1>5 DEF Move, Calm, Complete
  <2> QED BY <1>2, <1>3, <2>1 DEF Calm, Quiet
<1>6. index' = index + n
  BY <1>5 DEF Move
<1> QED BY <1>2, <1>4, <1>6

LEMMA CalmForms ==
  ASSUME Calm, NEW s, NEW pc, Turned(s, pc)
  PROVE  /\ \A err, lines : EvenWithout(pc) /\ Move(0, s, err, lines, {}) => GoesOn
         /\ \A err, lines :
              (Tok # "END" => Even(pc, Tok)) /\ Tok # "bad" /\ Move(1, s, err, lines, {}) => GoesOn
         /\ \A err, lines, k :
              Even(pc, k) /\ k # "bad" /\ Move(1, s, err, lines, {<<index, k>>}) => GoesOn
         /\ \A err, lines, k :
              /\ Even(pc, k) /\ k # "bad" /\ Tok \notin {"bad", "END"}
              /\ \A o \in Opens : Tok \notin {o, Close(o)}
              /\ Move(2, s, err, lines, {<<index + 1, k>>})
              => GoesOn
<1>1. ASSUME NEW err, NEW lines, EvenWithout(pc), Move(0, s, err, lines, {})  PROVE GoesOn
  <2>1. ~Errors /\ ~Past
    BY <1>1, CalmStep DEF Errors
  <2>2. index' = index
    BY <1>1, <2>1 DEF Move, Past, InRange, Count, Array, Calm, TypeInv
  <2>3. Stays(pc)
    BY <1>1, <2>2 DEF Stays, Move
  <2> QED BY <2>1, <2>3 DEF GoesOn
<1>2. ASSUME NEW err, NEW lines, Tok # "END" => Even(pc, Tok), Tok # "bad", Move(1, s, err, lines, {})
      PROVE  GoesOn
  <2>1. index' = index + 1 /\ Tok # "END"
    BY <1>2, CalmRead
  <2>2. ~Errors /\ Looks(pc)
    BY <1>2, <2>1, CalmStep DEF Looks, Move
  <2> QED BY <2>2 DEF GoesOn
<1>3. ASSUME NEW err, NEW lines, NEW k, Even(pc, k), k # "bad", Move(1, s, err, lines, {<<index, k>>})
      PROVE  GoesOn
  <2>1. index' = index + 1
    BY <1>3, CalmRead
  <2>2. ~Errors /\ Passes(pc, k)
    BY <1>3, <2>1, CalmStep DEF Passes, Move
  <2> QED BY <2>2 DEF GoesOn
<1>4. ASSUME NEW err, NEW lines, NEW k, Even(pc, k), k # "bad", Tok \notin {"bad", "END"},
             \A o \in Opens : Tok \notin {o, Close(o)}, Move(2, s, err, lines, {<<index + 1, k>>})
      PROVE  GoesOn
  <2>1. index' = index + 2
    BY <1>4, CalmRead
  <2>2. ~Errors /\ Skips(pc, k)
    BY <1>4, <2>1, CalmStep DEF Skips, Move
  <2> QED BY <2>2 DEF GoesOn
<1> QED BY <1>1, <1>2, <1>3, <1>4

\* The shorthands.
LEMMA CalmShorthands ==
  ASSUME Calm, NEW s, NEW pc, Turned(s, pc)
  PROVE  /\ EvenWithout(pc) /\ Go(0, s) => GoesOn
         /\ (Tok # "END" => Even(pc, Tok)) /\ Tok # "bad" /\ Go(1, s) => GoesOn
         /\ \A n : ~Complain(n, s)
         /\ \A kind : EvenWithout(pc) /\ Emit(kind, 0, s) => GoesOn
         /\ \A kind : (Tok # "END" => Even(pc, Tok)) /\ Tok # "bad" /\ Emit(kind, 1, s) => GoesOn
         /\ \A k : Even(pc, k) /\ k # "bad" /\ TakeFor(k, s) => GoesOn
         /\ \A k : Even(pc, k) /\ k # "bad" /\ Expect(k, s) => GoesOn
         /\ \A k : Even(pc, k) /\ k # "bad" /\ Require(k, s) => GoesOn
<1>1. EvenWithout(pc) /\ Go(0, s) => GoesOn
  BY CalmForms DEF Go
<1>2. (Tok # "END" => Even(pc, Tok)) /\ Tok # "bad" /\ Go(1, s) => GoesOn
  BY CalmForms DEF Go
<1>3. \A n : ~Complain(n, s)
  BY CalmStep DEF Complain
<1>4. \A kind : EvenWithout(pc) /\ Emit(kind, 0, s) => GoesOn
  BY CalmForms DEF Emit
<1>5. \A kind : (Tok # "END" => Even(pc, Tok)) /\ Tok # "bad" /\ Emit(kind, 1, s) => GoesOn
  BY CalmForms DEF Emit
<1>6. \A k : Even(pc, k) /\ k # "bad" /\ TakeFor(k, s) => GoesOn
  BY CalmForms DEF TakeFor
<1>7. \A k : Even(pc, k) /\ k # "bad" /\ Expect(k, s) => GoesOn
  BY <1>2, <1>3 DEF Expect
<1>8. \A k : Even(pc, k) /\ k # "bad" /\ Require(k, s) => GoesOn
  BY <1>2, CalmStep DEF Require
<1> QED BY <1>1, <1>2, <1>3, <1>4, <1>5, <1>6, <1>7, <1>8

Outside(pc) == \A m \in Marks : pc \notin Inside(m)
Brackets == {"(", ")", "[", "]", "{", "}"}

\* The four kinds of steps: outside, inside, in, and out.
LEMMA EvenSteps ==
  ASSUME NEW pc
  PROVE  /\ Outside(Top.pc) /\ Outside(pc) => EvenWithout(pc) /\ \A k : k \notin Brackets => Even(pc, k)
         /\ \A m \in Marks : Top.pc \in Inside(m) /\ pc \in Inside(m) =>
              EvenWithout(pc) /\ \A k : k \notin Brackets => Even(pc, k)
         /\ \A o \in Opens : Outside(Top.pc) /\ pc \in Inside(o) => Even(pc, o)
         /\ \A o \in Opens : Top.pc \in Inside(o) /\ Outside(pc) => Even(pc, Close(o))
<1>1. /\ \A o \in Opens : o \in Brackets /\ Close(o) \in Brackets /\ o \in Marks
      /\ "program" \in Marks
  BY DEF Opens, Close, Brackets, Marks
<1>2. \A m, n \in Marks : \A x : x \in Inside(m) /\ x \in Inside(n) => m = n
  <2> DEFINE A == Inside("(")
             B == Inside("[")
             C == Inside("{")
             D == Inside("program")
  <2>1. A \cap B = {} /\ A \cap C = {} /\ A \cap D = {} /\ B \cap C = {} /\ B \cap D = {} /\ C \cap D = {}
    BY DEF Inside
  <2> QED BY <2>1 DEF Marks, Opens
<1>3. \A o, q \in Opens : /\ o # Close(q)
                          /\ Close(o) = Close(q) => o = q
                          /\ o # "program"
  BY DEF Opens, Close
<1>4. ASSUME Outside(Top.pc), Outside(pc)
      PROVE  EvenWithout(pc) /\ \A k : k \notin Brackets => Even(pc, k)
  BY <1>1, <1>4 DEF Outside, EvenWithout, Even
<1>5. ASSUME NEW m \in Marks, Top.pc \in Inside(m), pc \in Inside(m)
      PROVE  EvenWithout(pc) /\ \A k : k \notin Brackets => Even(pc, k)
  BY <1>1, <1>2, <1>5 DEF EvenWithout, Even
<1>6. ASSUME NEW o \in Opens, Outside(Top.pc), pc \in Inside(o)  PROVE Even(pc, o)
  BY <1>1, <1>2, <1>3, <1>6 DEF Outside, Even
<1>7. ASSUME NEW o \in Opens, Top.pc \in Inside(o), Outside(pc)  PROVE Even(pc, Close(o))
  BY <1>1, <1>2, <1>3, <1>7 DEF Outside, Even
<1> QED BY <1>4, <1>5, <1>6, <1>7

\* Where the points are.
LEMMA Points ==
  /\ \A pc \in {"none", "factor", "after id", "term", "expr", "operand", "rel", "declare", "size", "array",
                "elements", "assign", "subscript =", "goto", "return", "returned", "block", "if", "arm",
                "else", "match", "for", "in", "from", "while", "open", "until", "fn", "fn (", "signature",
                "type", "more types", "body", "instr", "break", "continue", "label"} : Outside(pc)
  /\ \A pc \in {"paren", "arguments", "comma", "parameter", "name or pointer", "name", "parameter end"} :
       pc \in Inside("(")
  /\ \A pc \in {"index", "sized", "subscript"} : pc \in Inside("[")
  /\ \A pc \in {"element", "element end", "in block", "in loop", "in fn", "case", "first value",
                "value", "=>"} : pc \in Inside("{")
  /\ "program" \in Inside("program")
  /\ {"(", "[", "{"} = Opens /\ Close("(") = ")" /\ Close("[") = "]" /\ Close("{") = "}"
  /\ {"(", "[", "{", "program"} = Marks
BY DEF Outside, Marks, Opens, Inside, Close

----------------------------------------------------------------------------
(* The actions, once more.                                                 *)

LEMMA FactorCalm == ASSUME Calm, Factor PROVE GoesOn
<1>0. TypeInv /\ Top.pc = "factor"
  BY DEF Calm, Factor
<1>1. CASE Tok \in {"lit", "ptr", "id"}
  <2> DEFINE pc == IF Tok = "id" THEN "after id" ELSE "none"
  <2>1. PICK s : s = (IF Tok = "id" THEN Then("after id") ELSE Return) /\ Turned(s, pc)
    BY <1>0, StacksTurn
  <2>2. Even(pc, Tok) /\ Tok # "bad"
    <3>1. Outside(pc) /\ Tok \notin Brackets
      BY <1>1, Points DEF Brackets
    <3> QED BY <1>0, <1>1, <3>1, EvenSteps, Points
  <2>3. Move(1, s, FALSE, <<>>, {})
    BY <1>1, <2>1, CalmStep DEF Factor
  <2> HIDE DEF pc
  <2> QED BY <2>1, <2>2, <2>3, CalmForms
<1>2. CASE Tok = "("
  <2>1. Go(1, CallThen(parse_expr, "paren"))
    BY <1>2 DEF Factor
  <2>2. Turned(CallThen(parse_expr, "paren"), "paren")
    BY <1>0, StacksTurn, PlainCalls
  <2>3. Even("paren", "(")
    BY <1>0, EvenSteps, Points
  <2> QED BY <1>2, <2>1, <2>2, <2>3, CalmShorthands
<1> QED BY <1>1, <1>2, CalmStep DEF Factor

LEMMA AfterIdentifierCalm == ASSUME Calm, AfterIdentifier PROVE GoesOn
<1>0. TypeInv /\ Top.pc = "after id"
  BY DEF Calm, AfterIdentifier
<1>1. /\ Turned(CallThen(parse_expr, "index"), "index")
      /\ Turned(Then("arguments"), "arguments") /\ Turned(Return, "none")
  BY <1>0, StacksTurn, PlainCalls
<1>2. Even("index", "[") /\ Even("arguments", "(") /\ EvenWithout("none")
  BY <1>0, EvenSteps, Points
<1> QED BY <1>1, <1>2, CalmShorthands DEF AfterIdentifier

LEMMA ClosingCalm == ASSUME Calm, CloseIndex \/ CloseParen PROVE GoesOn
<1>1. TypeInv /\ Turned(Return, "none")
  BY StacksTurn DEF Calm
<1>2. CASE CloseIndex
  <2>1. Even("none", "]")
    BY <1>2, EvenSteps, Points DEF CloseIndex
  <2> QED BY <1>1, <1>2, <2>1, CalmShorthands DEF CloseIndex
<1>3. CASE CloseParen
  <2>1. Even("none", ")")
    BY <1>3, EvenSteps, Points DEF CloseParen
  <2> QED BY <1>1, <1>3, <2>1, CalmShorthands DEF CloseParen
<1> QED BY <1>2, <1>3

LEMMA ArgumentCalm == ASSUME Calm, Arguments \/ ArgumentComma PROVE GoesOn
<1>1. TypeInv /\ Top.pc \in {"arguments", "comma"}
  BY DEF Calm, Arguments, ArgumentComma
<1>2. /\ Turned(Return, "none") /\ Turned(CallThen(parse_expr, "comma"), "comma")
      /\ Turned(Then("arguments"), "arguments")
  BY <1>1, StacksTurn, PlainCalls
<1>3. Even("none", ")") /\ EvenWithout("comma") /\ Even("arguments", ",")
  <2>1. "," \notin Brackets
    BY DEF Brackets
  <2> QED BY <1>1, <2>1, EvenSteps, Points
<1>4. CASE Arguments
  BY <1>2, <1>3, <1>4, CalmShorthands DEF Arguments
<1>5. CASE ArgumentComma
  BY <1>2, <1>3, <1>5, CalmShorthands DEF ArgumentComma
<1> QED BY <1>4, <1>5

LEMMA OperatorCalm ==
  ASSUME Calm, NEW pc \in {"term", "expr"}, NEW operator \in {"mulop", "addop"},
         NEW operand, Plain(operand), Operators(pc, operator, operand)
  PROVE  GoesOn
<1>0. TypeInv /\ Top.pc = pc
  BY DEF Calm, Operators
<1>1. CASE Tok = operator
  <2>1. PICK s : s = Append(Below, Call(pc, Depth, TRUE)) \o operand /\ Turned(s, pc)
    BY <1>0, StacksTurn
  <2>2. Move(1, s, FALSE, <<>>, {})
    BY <1>1, <2>1, CalmStep DEF Operators
  <2>3. Even(pc, Tok) /\ Tok # "bad"
    <3>1. operator \notin Brackets /\ operator # "bad"
      BY DEF Brackets
    <3> QED BY <1>0, <1>1, <3>1, EvenSteps, Points
  <2> QED BY <2>1, <2>2, <2>3, CalmForms
<1>2. CASE Tok # operator
  <2>1. Move(0, Return, FALSE, <<>>, {})
    BY <1>2, CalmStep DEF Operators
  <2>2. Turned(Return, "none") /\ EvenWithout("none")
    BY <1>0, StacksTurn, EvenSteps, Points
  <2> QED BY <2>1, <2>2, CalmForms
<1> QED BY <1>1, <1>2

LEMMA ExpressionCalm == ASSUME Calm, Term \/ Expression PROVE GoesOn
<1>1. TypeInv
  BY DEF Calm
<1>2. CASE Term
  BY <1>1, <1>2, PlainCalls, OperatorCalm DEF Term
<1>3. CASE Expression
  BY <1>1, <1>3, PlainCalls, OperatorCalm DEF Expression
<1> QED BY <1>2, <1>3

LEMMA RelationCalm == ASSUME Calm, parse_term_for_expr \/ Relation PROVE GoesOn
<1>1. TypeInv
  BY DEF Calm
<1>2. /\ Turned(Return, "none") /\ Turned(Then("after id"), "after id")
      /\ Turned(Instead(<<Call("operand", Depth, FALSE)>>), "none")
  BY <1>1, StacksTurn, PlainCalls
<1>3. {"lit", "ptr", "id", "rel"} \cap Brackets = {} /\ "bad" \notin {"lit", "ptr", "id", "rel"}
  BY DEF Brackets
<1>4. CASE parse_term_for_expr
  <2>1. \A k \in {"lit", "ptr", "id"} : Even("none", k) /\ Even("after id", k)
    BY <1>3, <1>4, EvenSteps, Points DEF parse_term_for_expr
  <2> QED BY <1>2, <1>3, <1>4, <2>1, CalmShorthands DEF parse_term_for_expr
<1>5. CASE Relation
  <2>1. Even("none", "rel")
    BY <1>3, <1>5, EvenSteps, Points DEF Relation
  <2> QED BY <1>2, <1>3, <1>5, <2>1, CalmShorthands DEF Relation
<1> QED BY <1>4, <1>5

LEMMA DeclarationCalm == ASSUME Calm, DeclareName \/ DeclareSize \/ DeclareArray PROVE GoesOn
<1>1. TypeInv /\ Top.pc \in {"declare", "size", "sized", "array"}
  BY DEF Calm, DeclareName, DeclareSize, DeclareArray
<1>2. /\ Turned(Then("size"), "size") /\ Turned(CallThen(parse_expr, "sized"), "sized")
      /\ Turned(Instead(parse_expr), "none") /\ Turned(Return, "none")
      /\ Turned(Then("array"), "array") /\ Turned(Instead(<<Call("elements", Depth, FALSE)>>), "none")
  BY <1>1, StacksTurn, PlainCalls
<1>3. "id" \notin Brackets /\ "=" \notin Brackets
  BY DEF Brackets
<1>4. CASE DeclareName
  <2>1. Even("size", "id")
    BY <1>3, <1>4, EvenSteps, Points DEF DeclareName
  <2> QED BY <1>2, <1>4, <2>1, CalmShorthands DEF DeclareName
<1>5. CASE DeclareSize
  <2>1. Even("sized", "[") /\ Even("none", "=") /\ EvenWithout("none")
    BY <1>3, <1>5, EvenSteps, Points DEF DeclareSize
  <2> QED BY <1>2, <1>5, <2>1, CalmShorthands DEF DeclareSize
<1>6. CASE DeclareArray
  <2>1. CASE Top.pc = "sized"
    <3>1. Even("array", "]")
      BY <2>1, EvenSteps, Points
    <3> QED BY <1>2, <1>6, <2>1, <3>1, CalmShorthands DEF DeclareArray
  <2>2. CASE Top.pc = "array"
    <3>1. Even("none", "=") /\ EvenWithout("none")
      BY <1>3, <2>2, EvenSteps, Points
    <3> QED BY <1>2, <1>6, <2>2, <3>1, CalmShorthands DEF DeclareArray
  <2> QED BY <1>6, <2>1, <2>2 DEF DeclareArray
<1> QED BY <1>4, <1>5, <1>6

LEMMA InitializeCalm == ASSUME Calm, parse_initialize_array PROVE GoesOn
<1>1. TypeInv /\ Top.pc \in {"elements", "element", "element end"}
  BY DEF Calm, parse_initialize_array
<1>2. /\ Turned(Then("element"), "element") /\ Turned(Return, "none")
      /\ Turned(CallThen(parse_expr, "element end"), "element end")
  BY <1>1, StacksTurn, PlainCalls
<1>3. CASE Top.pc = "elements"
  <2>1. Even("element", "{")
    BY <1>3, EvenSteps, Points
  <2> QED BY <1>2, <1>3, <2>1, CalmShorthands DEF parse_initialize_array
<1>4. CASE Top.pc # "elements"
  <2>1. "," \notin Brackets
    BY DEF Brackets
  <2>2. Even("none", "}") /\ EvenWithout("element end") /\ Even("element", ",")
    BY <1>1, <1>4, <2>1, EvenSteps, Points
  <2> QED BY <1>1, <1>2, <1>4, <2>2, CalmShorthands DEF parse_initialize_array
<1> QED BY <1>3, <1>4

LEMMA SimpleCalm == ASSUME Calm, parse_assign \/ parse_goto \/ parse_ret PROVE GoesOn
<1>1. TypeInv
  BY DEF Calm
<1>2. /\ Turned(CallThen(parse_expr, "subscript"), "subscript") /\ Turned(Then("arguments"), "arguments")
      /\ Turned(Instead(parse_expr), "none") /\ Turned(Then("subscript ="), "subscript =")
      /\ Turned(Return, "none") /\ Turned(CallThen(parse_expr, "returned"), "returned")
      /\ Turned(Then("return"), "return")
  BY <1>1, StacksTurn, PlainCalls
<1>3. {"=", "label", ","} \cap Brackets = {}
  BY DEF Brackets
<1>4. CASE parse_assign
  <2>1. CASE Top.pc = "assign"
    <3>1. Even("subscript", "[") /\ Even("arguments", "(") /\ Even("none", "=")
      BY <1>3, <2>1, EvenSteps, Points
    <3> QED BY <1>2, <1>4, <2>1, <3>1, CalmShorthands DEF parse_assign
  <2>2. CASE Top.pc = "subscript"
    <3>1. Even("subscript =", "]")
      BY <2>2, EvenSteps, Points
    <3> QED BY <1>2, <1>4, <2>2, <3>1, CalmShorthands DEF parse_assign
  <2>3. CASE Top.pc = "subscript ="
    <3>1. Even("none", "=")
      BY <1>3, <2>3, EvenSteps, Points
    <3> QED BY <1>2, <1>4, <2>3, <3>1, CalmShorthands DEF parse_assign
  <2> QED BY <1>4, <2>1, <2>2, <2>3 DEF parse_assign
<1>5. CASE parse_goto
  <2>1. Even("none", "label")
    BY <1>3, <1>5, EvenSteps, Points DEF parse_goto
  <2> QED BY <1>2, <1>5, <2>1, CalmShorthands DEF parse_goto
<1>6. CASE parse_ret
  <2>1. EvenWithout("none") /\ EvenWithout("returned") /\ Even("return", ",")
    BY <1>3, <1>6, EvenSteps, Points DEF parse_ret
  <2> QED BY <1>2, <1>6, <2>1, CalmShorthands DEF parse_ret
<1> QED BY <1>4, <1>5, <1>6

\* One more instruction of a body.
LEMMA NextInstrCalm ==
  ASSUME Calm, NEW depth \in Nat, NEW pc, EvenWithout(pc), NextInstr(depth, pc)
  PROVE  GoesOn
<1>1. Turned(CallThen(parse_instr(depth, Full(Instr)), pc), pc)
  BY StacksTurn, PlainCalls DEF Calm
<1> QED BY <1>1, CalmForms DEF NextInstr

LEMMA BodyCalm ==
  ASSUME Calm, NEW pc \in Inside("{"), NEW ends \in {{"}"}, {"}", "END"}}, NEW depth \in Nat,
         NEW after, NEW to, Outside(to), Turned(after, to), Body(pc, ends, depth, after)
  PROVE  GoesOn
<1>0. Top.pc \in Inside("{")
  BY DEF Body
<1>1. CASE Go(1, after) /\ Tok \in ends
  <2>1. Even(to, "}")
    BY <1>0, EvenSteps, Points
  <2>2. Tok \in {"}", "END"}
    BY <1>1
  <2> QED BY <1>1, <2>1, <2>2, CalmShorthands
<1>2. CASE NextInstr(depth, pc)
  <2>1. EvenWithout(pc)
    BY <1>0, EvenSteps, Points
  <2> QED BY <1>2, <2>1, NextInstrCalm
<1> QED BY <1>1, <1>2 DEF Body

LEMMA CondBlockCalm == ASSUME Calm, CondBlock PROVE GoesOn
<1>0. TypeInv /\ Depth + 1 \in Nat
  BY DepthBelow DEF Calm
<1>1. /\ Turned(Then("in block"), "in block") /\ Turned(Return, "none")
      /\ Turned(Instead(parse_instr(Depth + 1, Full(Instr))), "none")
  BY <1>0, StacksTurn, PlainCalls
<1>2. CASE Body("in block", {"}", "END"}, Depth + 1, Return)
  BY <1>0, <1>1, <1>2, BodyCalm, Points
<1>3. CASE Top.pc = "block"
  <2>1. Even("in block", "{") /\ EvenWithout("none")
    BY <1>3, EvenSteps, Points
  <2>2. CASE Go(1, Then("in block")) /\ Tok = "{"
    BY <1>1, <2>1, <2>2, CalmShorthands
  <2>3. CASE Move(0, Instead(parse_instr(Depth + 1, Full(Instr))), Full(Instr), <<>>, {})
    BY <1>1, <2>1, <2>3, CalmForms
  <2>4. ~Body("in block", {"}", "END"}, Depth + 1, Return)
    BY <1>3 DEF Body
  <2> QED BY <1>3, <2>2, <2>3, <2>4, CalmStep DEF CondBlock
<1> QED BY <1>2, <1>3 DEF CondBlock

LEMMA IfCalm == ASSUME Calm, parse_if \/ Else PROVE GoesOn
<1>1. TypeInv
  BY DEF Calm
<1>2. /\ Turned(CallThen(parse_cond_block(FALSE), "arm"), "arm") /\ Turned(Then("else"), "else")
      /\ Turned(Return, "none") /\ Turned(CallThen(parse_cond_block(FALSE) \o parse_rel, "arm"), "arm")
      /\ Turned(Instead(parse_cond_block(Full(Block))), "none")
  BY <1>1, StacksTurn, PlainCalls
<1>3. Top.pc \in {"if", "arm", "else"}
  BY DEF parse_if, Else
<1>4. EvenWithout("arm") /\ Even("else", "else") /\ EvenWithout("none") /\ Even("arm", "if")
  <2>1. "else" \notin Brackets /\ "if" \notin Brackets
    BY DEF Brackets
  <2> QED BY <1>3, <2>1, EvenSteps, Points
<1>5. CASE parse_if
  BY <1>2, <1>4, <1>5, CalmShorthands DEF parse_if
<1>6. CASE Else
  <2>1. CASE Tok = "if"
    <3>1. Emit("elif", 1, CallThen(parse_cond_block(FALSE) \o parse_rel, "arm"))
      BY <1>6, <2>1 DEF Else
    <3> QED BY <1>2, <1>4, <2>1, <3>1, CalmShorthands
  <2>2. CASE Tok # "if"
    <3>1. PICK lines : Move(0, Instead(parse_cond_block(Full(Block))), Full(Block), lines, {})
      BY <1>6, <2>2 DEF Else
    <3> QED BY <1>2, <1>4, <3>1, CalmForms
  <2> QED BY <2>1, <2>2
<1> QED BY <1>5, <1>6

LEMMA WastedNodeCalm ==
  ASSUME Calm, NEW lines, NEW pc
  PROVE  /\ EvenWithout(pc) /\ WastedNode(0, lines, pc) => GoesOn
         /\ Even(pc, Tok) /\ Tok # "bad" /\ WastedNode(1, lines, pc) => GoesOn
<1>1. Turned(CallThen(parse_expr, pc), pc)
  BY StacksTurn, PlainCalls DEF Calm
<1> QED BY <1>1, CalmForms DEF WastedNode

LEMMA MatchCalm == ASSUME Calm, parse_match PROVE GoesOn
<1>1. TypeInv /\ Top.pc \in {"match", "case", "first value", "value", "=>"}
  BY DEF Calm, parse_match
<1>2. /\ Turned(Then("case"), "case") /\ Turned(Return, "none") /\ Turned(Then("=>"), "=>")
      /\ Turned(CallThen(parse_cond_block(FALSE), "case"), "case")
  BY <1>1, StacksTurn, PlainCalls
<1>3. CASE Top.pc = "match"
  <2>1. Even("case", "{")
    BY <1>3, EvenSteps, Points
  <2> QED BY <1>2, <1>3, <2>1, CalmShorthands DEF parse_match
<1>4. CASE Top.pc # "match"
  <2>1. {"_", "...", ",", "=>"} \cap Brackets = {}
    BY DEF Brackets
  <2>2. /\ Even("none", "}")
        /\ \A pc \in {"case", "first value", "value", "=>"} :
             EvenWithout(pc) /\ \A k \in {"_", "...", ",", "=>"} : Even(pc, k)
    BY <1>1, <1>4, <2>1, EvenSteps, Points
  <2>3. CASE Top.pc = "case"
    <3>1. CASE Tok = "}"
      BY <1>2, <2>2, <2>3, <3>1, CalmShorthands DEF parse_match
    <3>2. CASE Tok = "_"
      BY <1>2, <2>2, <2>3, <3>2, CalmShorthands DEF parse_match
    <3>3. CASE Tok \notin {"}", "END", "_"}
      BY <2>2, <2>3, <3>3, WastedNodeCalm DEF parse_match
    <3>4. Tok # "END"
      BY <2>3, CalmStep DEF parse_match
    <3> QED BY <3>1, <3>2, <3>3, <3>4
  <2>4. CASE Top.pc \in {"first value", "value"}
    <3>1. CASE Tok = "=>"
      BY <1>2, <2>2, <2>4, <3>1, CalmShorthands DEF parse_match
    <3>2. CASE Tok # "=>"
      BY <2>2, <2>4, <3>2, WastedNodeCalm, CalmStep DEF parse_match
    <3> QED BY <3>1, <3>2
  <2>5. CASE Top.pc = "=>"
    BY <1>2, <2>2, <2>5, CalmShorthands DEF parse_match
  <2> QED BY <1>1, <1>4, <2>3, <2>4, <2>5
<1> QED BY <1>3, <1>4

LEMMA LoopCalm == ASSUME Calm, parse_loop PROVE GoesOn
<1>1. TypeInv /\ Depth + 1 \in Nat
  BY DepthBelow DEF Calm
<1>2. /\ Turned(Then("in"), "in") /\ Turned(CallThen(parse_rel, "open"), "open")
      /\ Turned(Then("in loop"), "in loop") /\ Turned(Then("until"), "until") /\ Turned(Return, "none")
      /\ Turned(Instead(parse_rel), "none")
  BY <1>1, StacksTurn, PlainCalls
<1>3. CASE Body("in loop", {"}"}, Depth + 1, IF Top.arg = "dowhile" THEN Then("until") ELSE Return)
  <2>1. CASE Top.arg = "dowhile"
    <3>1. Body("in loop", {"}"}, Depth + 1, Then("until"))
      BY <1>3, <2>1
    <3> QED BY <1>1, <1>2, <3>1, BodyCalm, Points
  <2>2. CASE Top.arg # "dowhile"
    <3>1. Body("in loop", {"}"}, Depth + 1, Return)
      BY <1>3, <2>2
    <3> QED BY <1>1, <1>2, <3>1, BodyCalm, Points
  <2> QED BY <2>1, <2>2
<1>4. CASE ~Body("in loop", {"}"}, Depth + 1, IF Top.arg = "dowhile" THEN Then("until") ELSE Return)
  <2>1. Top.pc \in {"for", "in", "from", "while", "open", "until"}
    BY <1>4 DEF parse_loop
  <2>2. {"id", "in", "..."} \cap Brackets = {}
    BY DEF Brackets
  <2>3. /\ \A pc \in {"in", "from", "open", "none"} :
             EvenWithout(pc) /\ \A k \in {"id", "in", "..."} : Even(pc, k)
        /\ Even("in loop", "{")
    <3>1. Outside(Top.pc) /\ \A pc \in {"in", "from", "open", "none"} : Outside(pc)
      BY <2>1, Points
    <3>2. \A k \in {"id", "in", "..."} : k \notin Brackets
      BY <2>2
    <3>3. "in loop" \in Inside("{") /\ "{" \in Opens
      BY Points
    <3> QED BY ONLY <3>1, <3>2, <3>3, EvenSteps
  <2>4. CASE Top.pc \in {"for", "open"}
    BY <1>2, <1>4, <2>3, <2>4, CalmShorthands DEF parse_loop
  <2>5. CASE Top.pc \in {"in", "from"}
    BY <1>4, <2>3, <2>5, WastedNodeCalm, CalmStep DEF parse_loop
  <2>6. CASE Top.pc \in {"while", "until"}
    BY <1>2, <1>4, <2>3, <2>6, CalmShorthands DEF parse_loop
  <2> QED BY <2>1, <2>4, <2>5, <2>6
<1> QED BY <1>3, <1>4

LEMMA ParametersCalm == ASSUME Calm, Parameters PROVE GoesOn
<1>1. TypeInv
      /\ Top.pc \in {"fn", "fn (", "parameter", "name or pointer", "name", "parameter end"}
  BY DEF Calm, Parameters
<1>2. \A pc : Turned(Then(pc), pc)
  BY <1>1, StacksTurn
<1>3. {"id", "ptr", "type", "...", ","} \cap Brackets = {}
  BY DEF Brackets
<1>4. CASE Top.pc = "fn"
  <2>1. Even("fn (", "id")
    BY <1>3, <1>4, EvenSteps, Points
  <2> QED BY <1>2, <1>4, <2>1, CalmShorthands DEF Parameters
<1>5. CASE Top.pc = "fn ("
  <2>1. Even("parameter", "(")
    BY <1>5, EvenSteps, Points
  <2>2. ~Complain(0, Return)
    BY <1>1, StacksTurn, CalmShorthands
  <2> QED BY <1>2, <1>5, <2>1, <2>2, CalmShorthands DEF Parameters
<1>6. CASE Top.pc \in {"parameter", "name or pointer", "name", "parameter end"}
  <2>1. /\ \A pc \in {"parameter", "name or pointer", "name", "parameter end"} :
             EvenWithout(pc) /\ \A k \in {"id", "ptr", "type", "...", ","} : Even(pc, k)
        /\ Even("signature", ")")
    BY <1>3, <1>6, EvenSteps, Points
  <2>2. CASE Top.pc = "parameter"
    <3>1. CASE Tok = ")"
      BY <1>2, <2>1, <2>2, <3>1, CalmShorthands DEF Parameters
    <3>2. CASE Tok = "..."
      <4>1. Move(2, Then("signature"), FALSE, <<>>, {<<index + 1, ")">>})
        BY <2>2, <3>2 DEF Parameters
      <4>2. \A o \in Opens : Tok \notin {o, Close(o)}
        BY <3>2 DEF Opens, Close
      <4> QED BY <1>2, <2>1, <3>2, <4>1, <4>2, CalmForms
    <3>3. CASE Tok = "type"
      BY <1>2, <2>1, <2>2, <3>3, CalmShorthands DEF Parameters
    <3>4. CASE Tok \notin {")", "...", "type"}
      <4>1. Complain(0, Return)
        BY <2>2, <3>4 DEF Parameters
      <4> QED BY <1>1, <4>1, StacksTurn, CalmShorthands
    <3> QED BY <3>1, <3>2, <3>3, <3>4
  <2>3. CASE Top.pc = "name or pointer"
    BY <1>2, <2>1, <2>3, CalmShorthands DEF Parameters
  <2>4. CASE Top.pc = "name"
    BY <1>2, <2>1, <2>4, CalmShorthands DEF Parameters
  <2>5. CASE Top.pc = "parameter end"
    <3>1. CASE Tok = ","
      BY <1>2, <2>1, <2>5, <3>1, CalmShorthands DEF Parameters
    <3>2. CASE Tok # ","
      BY <1>2, <2>1, <2>5, <3>2, CalmShorthands DEF Parameters
    <3> QED BY <3>1, <3>2
  <2> QED BY <1>6, <2>2, <2>3, <2>4, <2>5
<1> QED BY <1>1, <1>4, <1>5, <1>6

LEMMA ReturnTypesCalm == ASSUME Calm, ReturnTypes PROVE GoesOn
<1>1. TypeInv /\ Top.pc \in {"signature", "type", "more types"}
  BY DEF Calm, ReturnTypes
<1>2. \A pc : Turned(Then(pc), pc)
  BY <1>1, StacksTurn
<1>3. \A pc \in {"type", "more types", "body"} :
        EvenWithout(pc) /\ \A k \in {":", "type", ","} : Even(pc, k)
  <2>1. {":", "type", ","} \cap Brackets = {}
    BY DEF Brackets
  <2> QED BY <1>1, <2>1, EvenSteps, Points
<1>4. CASE Top.pc \in {"signature", "type"}
  BY <1>2, <1>3, <1>4, CalmShorthands DEF ReturnTypes
<1>5. CASE Top.pc = "more types"
  <2>1. CASE Tok = ","
    <3>1. Move(2, Then("more types"), FALSE, <<>>, {<<index + 1, "type">>})
      BY <1>5, <2>1 DEF ReturnTypes
    <3>2. \A o \in Opens : Tok \notin {o, Close(o)}
      BY <2>1 DEF Opens, Close
    <3> QED BY <1>2, <1>3, <2>1, <3>1, <3>2, CalmForms
  <2>2. CASE Tok # ","
    BY <1>2, <1>3, <1>5, <2>2, CalmShorthands DEF ReturnTypes
  <2> QED BY <2>1, <2>2
<1> QED BY <1>1, <1>4, <1>5

LEMMA FunctionBodyCalm == ASSUME Calm, FunctionBody PROVE GoesOn
<1>1. TypeInv /\ Depth + 1 \in Nat
  BY DepthBelow DEF Calm
<1>2. Turned(Then("in fn"), "in fn") /\ Turned(Return, "none")
  BY <1>1, StacksTurn
<1>3. CASE Body("in fn", {"}", "END"}, Depth + 1, Return)
  BY <1>1, <1>2, <1>3, BodyCalm, Points
<1>4. CASE ~Body("in fn", {"}", "END"}, Depth + 1, Return)
  <2>1. Top.pc = "body"
    BY <1>4 DEF FunctionBody
  <2>2. Even("in fn", "{") /\ EvenWithout("none")
    BY <2>1, EvenSteps, Points
  <2> QED BY <1>2, <1>4, <2>1, <2>2, CalmShorthands DEF FunctionBody
<1> QED BY <1>3, <1>4

LEMMA InstructionCalm == ASSUME Calm, Instruction PROVE GoesOn
<1>1. TypeInv /\ Top.pc = "instr" /\ ~Unexpected /\ ~Crash
  <2>1. ~Exit /\ ~Crash
    BY CalmStep
  <2> QED BY <2>1 DEF Calm, Instruction, Unexpected
<1>2. Tok \in Starts
  <2>1. {"break", "continue", "label", "type", "id", "ptr", "goto", "return", "fn", "if", "match"} \subseteq Starts
    BY DEF Starts
  <2>2. Tree!Loops \subseteq Starts
    BY DEF Starts
  <2> QED BY <1>1, <2>1, <2>2 DEF Instruction
<1>3. Tok \notin Brackets /\ Tok # "bad" /\ Outside(Point(Tok))
  <2>1. ASSUME NEW k \in Starts
        PROVE  /\ k \notin Brackets /\ k # "bad"
               /\ Point(k) \in {"declare", "assign", "open", "goto", "return", "while", "for", "fn",
                               "if", "match", "break", "continue", "label"}
    BY DEF Starts, Tree!Loops, Brackets, Point
  <2> QED BY <1>2, <2>1, Points
<1>4. Even(Point(Tok), Tok) /\ Even("none", Tok)
  BY <1>1, <1>3, EvenSteps, Points
<1> DEFINE go == Append(Below, At(Point(Tok), Tok))
<1>5. /\ Turned(go, Point(Tok)) /\ Turned(Return, "none")
      /\ Turned(Instead(<<Call("if", Depth, FALSE)>> \o parse_rel), "none")
      /\ Turned(Instead(<<Call("match", Depth, FALSE)>> \o parse_expr), "none")
  BY <1>1, StacksTurn, PlainCalls
<1>6. \/ Emit(Tok, 1, Return)
      \/ Emit(LineOf(Tok), 1, go)
      \/ Go(1, go)
      \/ Emit("if", 1, Instead(<<Call("if", Depth, FALSE)>> \o parse_rel))
      \/ \E lines : Move(1, Instead(<<Call("match", Depth, FALSE)>> \o parse_expr), Full(Expr), lines, {})
  BY <1>1, <1>2 DEF Instruction
<1> HIDE DEF go
<1>7. CASE \E lines : Move(1, Instead(<<Call("match", Depth, FALSE)>> \o parse_expr), Full(Expr), lines, {})
  BY <1>3, <1>4, <1>5, <1>7, CalmForms
<1>8. CASE Emit(Tok, 1, Return) \/ Emit("if", 1, Instead(<<Call("if", Depth, FALSE)>> \o parse_rel))
  BY <1>3, <1>4, <1>5, <1>8, CalmShorthands
<1>9. CASE Emit(LineOf(Tok), 1, go) \/ Go(1, go)
  BY <1>3, <1>4, <1>5, <1>9, CalmShorthands
<1> QED BY <1>6, <1>7, <1>8, <1>9

\* A step without an error goes on in one of the four ways.
LEMMA CalmSteps == ASSUME Calm, Parse PROVE GoesOn
<1>1. Step
  BY CalmStep DEF Parse
<1>2. CASE Program
  <2>1. NextInstr(0, "program")
    BY <1>2, CalmStep DEF Program, Calm, Quiet
  <2>2. EvenWithout("program")
    BY <1>2, EvenSteps, Points DEF Program
  <2> QED BY <2>1, <2>2, NextInstrCalm
<1>3. CASE ~Program
  BY <1>1, <1>3, FactorCalm, AfterIdentifierCalm, ClosingCalm, ArgumentCalm, ExpressionCalm, RelationCalm,
     DeclarationCalm, InitializeCalm, SimpleCalm, CondBlockCalm, IfCalm, MatchCalm, LoopCalm, ParametersCalm,
     ReturnTypesCalm, FunctionBodyCalm, InstructionCalm DEF Step
<1> QED BY <1>2, <1>3

----------------------------------------------------------------------------
(* Counting brackets.                                                      *)

LEMMA TillIsNat ==
  ASSUME NEW k, NEW n \in Nat, NEW f
  PROVE  /\ Till(k, n, f) \in Nat
         /\ Till(k, n + 1, f) = Till(k, n, f) + (IF f[n + 1] = k THEN 1 ELSE 0)
<1>1. Places(k, n, f) \subseteq 1..n
  BY DEF Places
<1>2. \A i \in 1..(n + 1) : i \in 1..n \/ i = n + 1
  OBVIOUS
<1>3. Till(k, n, f) \in Nat
  BY <1>1, UpTo DEF Till
<1>4. CASE f[n + 1] = k
  <2>1. Places(k, n + 1, f) = Places(k, n, f) \cup {n + 1}
    BY <1>2, <1>4 DEF Places
  <2>2. Cardinality(Places(k, n, f) \cup {n + 1}) = Cardinality(Places(k, n, f)) + 1
    BY <1>1, UpTo
  <2> QED BY <1>3, <1>4, <2>1, <2>2 DEF Till
<1>5. CASE f[n + 1] # k
  <2>1. Places(k, n + 1, f) = Places(k, n, f)
    BY <1>2, <1>5 DEF Places
  <2>2. Till(k, n + 1, f) = Till(k, n, f)
    BY <2>1 DEF Till
  <2> QED BY <1>3, <1>5, <2>2
<1> QED BY <1>4, <1>5

LEMMA NothingYet == \A k, f : Till(k, 0, f) = 0
<1>1. \A k, f : Places(k, 0, f) = {}
  BY DEF Places
<1> QED BY <1>1, FS_EmptySet DEF Till

LEMMA SameTill ==
  ASSUME NEW n \in Nat, NEW f, NEW g, \A i \in 1..n : f[i] = g[i]
  PROVE  \A k : \A j \in 0..n : Till(k, j, f) = Till(k, j, g)
<1>1. ASSUME NEW k, NEW j \in 0..n PROVE Places(k, j, f) = Places(k, j, g)
  BY DEF Places
<1> QED BY <1>1 DEF Till

LEMMA SameCounted ==
  ASSUME NEW n \in Nat, NEW f, NEW g, \A i \in 1..n : f[i] = g[i], NEW s, Counted(n, f, s)
  PROVE  Counted(n, g, s)
<1>1. \A k : \A j \in 0..n : Till(k, j, f) = Till(k, j, g)
  BY SameTill
<1>2. n \in 0..n
  OBVIOUS
<1> QED BY <1>1, <1>2 DEF Counted

\* One token more, taken for a k, where the brackets that calls hold change.
LEMMA CountedOneMore ==
  ASSUME NEW n \in Nat, NEW f, NEW s, Calls(s), NEW t, Calls(t),
         Counted(n, f, s), NEW k, f[n + 1] = k, k # "bad",
         \A o \in Opens :
           \/ k = o /\ Held(o, t) = Held(o, s) + 1
           \/ k = Close(o) /\ k # o /\ Held(o, t) + 1 = Held(o, s)
           \/ k \notin {o, Close(o)} /\ Held(o, t) = Held(o, s)
  PROVE  Counted(n + 1, f, t)
<1>1. \A i \in 1..(n + 1) : i \in 1..n \/ i = n + 1
  OBVIOUS
<1>2. \A i \in 0..(n + 1) : i \in 0..n \/ i = n + 1
  OBVIOUS
<1>3. \A i \in 1..(n + 1) : f[i] # "bad"
  BY <1>1 DEF Counted
<1>4. ASSUME NEW o \in Opens
      PROVE  /\ Till(o, n + 1, f) = Till(Close(o), n + 1, f) + Held(o, t)
             /\ Till(Close(o), n + 1, f) <= Till(o, n + 1, f)
  <2>1. /\ Till(o, n, f) \in Nat /\ Till(Close(o), n, f) \in Nat
        /\ Till(o, n + 1, f) = Till(o, n, f) + (IF k = o THEN 1 ELSE 0)
        /\ Till(Close(o), n + 1, f) = Till(Close(o), n, f) + (IF k = Close(o) THEN 1 ELSE 0)
    BY TillIsNat
  <2>2. Held(o, s) \in Nat /\ Held(o, t) \in Nat
    BY HeldIsNat
  <2>3. Till(o, n, f) = Till(Close(o), n, f) + Held(o, s)
    BY DEF Counted
  <2>4. o # Close(o)
    BY DEF Opens, Close
  <2>5. \/ k = o /\ Held(o, t) = Held(o, s) + 1
        \/ k = Close(o) /\ k # o /\ Held(o, t) + 1 = Held(o, s)
        \/ k \notin {o, Close(o)} /\ Held(o, t) = Held(o, s)
    OBVIOUS
  <2> QED BY <2>1, <2>2, <2>3, <2>4, <2>5
<1> QED BY <1>2, <1>3, <1>4 DEF Counted

\* The way of the innermost call is what the brackets it holds change by.
LEMMA TurnedEven ==
  ASSUME TypeInv, NEW s, Calls(s), NEW pc, Turned(s, pc)
  PROVE  /\ EvenWithout(pc) => \A m \in Marks : Held(m, s) = Held(m, stack)
         /\ \A k : Even(pc, k) =>
              /\ Held("program", s) = Held("program", stack)
              /\ \A o \in Opens :
                   \/ k = o /\ Held(o, s) = Held(o, stack) + 1
                   \/ k = Close(o) /\ k # o /\ Held(o, s) + 1 = Held(o, stack)
                   \/ k \notin {o, Close(o)} /\ Held(o, s) = Held(o, stack)
<1>1. \A m : Held(m, s) \in Nat /\ Held(m, stack) \in Nat
  BY HeldIsNat DEF TypeInv, IsStack
<1>2. \A m \in Marks : /\ pc \in Inside(m) /\ Top.pc \in Inside(m) => Held(m, s) = Held(m, stack)
                       /\ pc \notin Inside(m) /\ Top.pc \notin Inside(m) => Held(m, s) = Held(m, stack)
                       /\ pc \in Inside(m) /\ Top.pc \notin Inside(m) => Held(m, s) = Held(m, stack) + 1
                       /\ pc \notin Inside(m) /\ Top.pc \in Inside(m) => Held(m, s) + 1 = Held(m, stack)
  BY <1>1 DEF Turned, Within
<1>3. Opens \subseteq Marks /\ "program" \in Marks
  BY DEF Marks
<1>4. EvenWithout(pc) => \A m \in Marks : Held(m, s) = Held(m, stack)
  BY <1>2 DEF EvenWithout
<1>5. ASSUME NEW k, Even(pc, k)
      PROVE  /\ Held("program", s) = Held("program", stack)
             /\ \A o \in Opens :
                  \/ k = o /\ Held(o, s) = Held(o, stack) + 1
                  \/ k = Close(o) /\ k # o /\ Held(o, s) + 1 = Held(o, stack)
                  \/ k \notin {o, Close(o)} /\ Held(o, s) = Held(o, stack)
  BY <1>2, <1>3, <1>5 DEF Even
<1> QED BY <1>4, <1>5

----------------------------------------------------------------------------
(* What a token was taken for stays.                                       *)

LEMMA TakenForOne == \A u, token : TakenFor({u}, token) = u[2] /\ TakenFor({}, token) = token
<1>1. ASSUME NEW u PROVE (CHOOSE v \in {u} : TRUE) = u
  OBVIOUS
<1> QED BY <1>1 DEF TakenFor

LEMMA TakenForAny ==
  ASSUME NEW blind, blind # {}, NEW s, NEW t
  PROVE  TakenFor(blind, s) = TakenFor(blind, t)
BY DEF TakenFor

\* As the source grows.
LEMMA TakenSupplied ==
  ASSUME TypeInv, Whole, UNCHANGED <<unseen, index>>, NEW n, n = index, Len(tokens') \in Nat,
         Len(tokens) <= Len(tokens'), \A i \in 1..Len(tokens) : tokens'[i] = tokens[i]
  PROVE  \A i \in 1..n : TakenAs'[i] = TakenAs[i]
<1> TAKE i \in 1..n
<1>1. n \in Nat /\ Len(tokens) \in Nat
  BY DEF TypeInv
<1> DEFINE blind == {u \in unseen : u[1] = i - 1}
<1>2. TakenAs[i] = TakenFor(blind, tokens[i]) /\ TakenAs'[i] = TakenFor(blind, tokens'[i])
  BY <1>1 DEF TakenAs
<1>3. i <= Len(tokens) \/ blind # {}
  BY DEF Whole
<1> HIDE DEF blind
<1>4. CASE i <= Len(tokens)
  <2>1. tokens'[i] = tokens[i]
    BY <1>1, <1>4
  <2> QED BY <1>2, <2>1
<1>5. CASE blind # {}
  BY <1>2, <1>5, TakenForAny
<1> QED BY <1>3, <1>4, <1>5

\* As the parsing goes on: the next tokens are as they were read.
TakenThen(n, passed) ==
  /\ n \in Nat /\ n < Len(tokens) /\ Len(tokens) \in Nat /\ Tok = tokens[n + 1] /\ tokens' = tokens
  /\ \A i \in Nat : (\A u \in passed : u[1] # i - 1) =>
       /\ i <= n => TakenAs'[i] = TakenAs[i]
       /\ i > n => TakenAs'[i] = tokens[i]
  /\ \A i \in Nat : \A k : i > n /\ passed = {<<i - 1, k>>} => TakenAs'[i] = k

LEMMA TakenOn ==
  ASSUME Calm, Whole, ~Errors, NEW n, n = index, NEW passed, unseen' = unseen \cup passed
  PROVE  TakenThen(n, passed)
<1>1. /\ n \in Nat /\ n < Len(tokens) /\ Tok = tokens[n + 1] /\ Len(tokens) \in Nat
      /\ tokens' = tokens
  BY DEF Errors, Past, Tok, dynamic_array_get, InRange, Count, Array, Calm, TypeInv
<1>2. \A u \in unseen : u[1] \in Nat /\ u[1] < n
  BY DEF Whole
<1>3. ASSUME NEW i \in Nat
      PROVE  /\ TakenAs[i] = TakenFor({u \in unseen : u[1] = i - 1}, tokens[i])
             /\ TakenAs'[i] = TakenFor({u \in unseen' : u[1] = i - 1}, tokens[i])
  BY <1>1 DEF TakenAs
<1>4. ASSUME NEW i \in Nat, \A u \in passed : u[1] # i - 1
      PROVE  /\ TakenAs'[i] = TakenAs[i]
             /\ i > n => TakenAs'[i] = tokens[i]
  <2>1. {u \in unseen' : u[1] = i - 1} = {u \in unseen : u[1] = i - 1}
    BY <1>4
  <2>2. i > n => {u \in unseen : u[1] = i - 1} = {}
    BY <1>1, <1>2
  <2> QED BY <1>3, <2>1, <2>2, TakenForOne
<1>5. ASSUME NEW i \in Nat, i > n, NEW k, passed = {<<i - 1, k>>}  PROVE TakenAs'[i] = k
  <2>1. {u \in unseen' : u[1] = i - 1} = {<<i - 1, k>>}
    BY <1>1, <1>2, <1>5
  <2>2. TakenFor({<<i - 1, k>>}, tokens[i]) = <<i - 1, k>>[2]
    BY TakenForOne
  <2> QED BY <1>3, <2>1, <2>2
<1> QED BY <1>1, <1>4, <1>5 DEF TakenThen

----------------------------------------------------------------------------
(* The invariant over brackets.                                            *)

\* The first half of Whole, about the places.
Placed(n) ==
  /\ \A u \in unseen : u[1] \in Nat /\ u[1] < n
  /\ \A i \in 1..n : i <= Len(tokens) \/ \E u \in unseen : u[1] = i - 1

LEMMA StaysWhole ==
  ASSUME Calm, Calls(stack'), Whole, ~Errors, NEW pc, Stays(pc)
  PROVE  Whole'
<1>1. TypeInv /\ Turned(stack', pc) /\ EvenWithout(pc) /\ UNCHANGED <<index, unseen, tokens>>
  BY DEF Calm, Stays
<1>2. \A m \in Marks : Held(m, stack') = Held(m, stack)
  BY <1>1, TurnedEven
<1>3. TakenAs' = TakenAs
  BY <1>1 DEF TakenAs
<1>4. Counted(index, TakenAs, stack')
  BY <1>2 DEF Whole, Counted, Marks
<1> QED BY <1>1, <1>2, <1>3, <1>4 DEF Whole, Marks

\* One token more.
LEMMA OneTokenWhole ==
  ASSUME Calm, Calls(stack'), Whole, ~Errors, NEW pc, NEW k, Turned(stack', pc), Even(pc, k), k # "bad",
         index' = index + 1,
         \/ k = Tok /\ UNCHANGED unseen
         \/ unseen' = unseen \cup {<<index, k>>}
  PROVE  Whole'
<1>1. PICK n : n = index
  OBVIOUS
<1>2. PICK passed : unseen' = unseen \cup passed /\ ((passed = {} /\ k = Tok) \/ passed = {<<n, k>>})
  <2>1. CASE k = Tok /\ UNCHANGED unseen
    <3>1. unseen' = unseen \cup {}
      BY <2>1
    <3> QED BY <2>1, <3>1
  <2>2. CASE unseen' = unseen \cup {<<index, k>>}
    BY <1>1, <2>2
  <2> QED BY <2>1, <2>2
<1>3. /\ n \in Nat /\ n < Len(tokens) /\ Len(tokens) \in Nat /\ Tok = tokens[n + 1] /\ tokens' = tokens
      /\ \A i \in Nat : (\A u \in passed : u[1] # i - 1) =>
              /\ i <= n => TakenAs'[i] = TakenAs[i]
              /\ i > n => TakenAs'[i] = tokens[i]
      /\ \A i \in Nat : \A l : i > n /\ passed = {<<i - 1, l>>} => TakenAs'[i] = l
  <2>1. TakenThen(n, passed)
    BY <1>1, <1>2, TakenOn
  <2> QED BY <2>1 DEF TakenThen
<1>4. ASSUME NEW i \in 1..n PROVE TakenAs'[i] = TakenAs[i]
  <2>1. \A u \in passed : u[1] # i - 1
    BY <1>2, <1>3
  <2> QED BY <1>3, <2>1
<1>5. TakenAs'[n + 1] = k
  <2>1. n + 1 \in Nat /\ n + 1 > n /\ (n + 1) - 1 = n
    BY <1>3
  <2>2. CASE passed = {} /\ k = Tok
    BY <1>3, <2>1, <2>2
  <2>3. CASE passed = {<<n, k>>}
    <3>1. passed = {<<(n + 1) - 1, k>>}
      BY <2>1, <2>3
    <3> QED BY <1>3, <2>1, <3>1
  <2> QED BY <1>2, <2>2, <2>3
<1>6. TypeInv /\ Calls(stack)
  BY DEF Calm, TypeInv, IsStack
<1>7. Counted(n, TakenAs', stack)
  <2>1. Counted(n, TakenAs, stack)
    BY <1>1 DEF Whole
  <2>2. \A i \in 1..n : TakenAs[i] = TakenAs'[i]
    BY <1>4
  <2> QED BY <1>3, <2>1, <2>2, SameCounted
<1>8. /\ Held("program", stack') = Held("program", stack)
      /\ \A o \in Opens :
           \/ k = o /\ Held(o, stack') = Held(o, stack) + 1
           \/ k = Close(o) /\ k # o /\ Held(o, stack') + 1 = Held(o, stack)
           \/ k \notin {o, Close(o)} /\ Held(o, stack') = Held(o, stack)
  BY <1>6, TurnedEven
<1>9. Counted(n + 1, TakenAs', stack')
  BY <1>3, <1>5, <1>6, <1>7, <1>8, CountedOneMore
<1>10. Placed(n + 1)'
  <2>1. \A u \in unseen' : u[1] \in Nat /\ u[1] < n + 1
    BY <1>1, <1>2, <1>3 DEF Whole
  <2>2. \A i \in 1..(n + 1) : i <= Len(tokens)
    BY <1>3
  <2> QED BY <1>3, <2>1, <2>2 DEF Placed
<1>11. index' = n + 1
  BY <1>1
<1> QED BY <1>8, <1>9, <1>10, <1>11 DEF Whole, Placed

\* A token that is no bracket, and one more.
LEMMA TwoTokensWhole ==
  ASSUME Calm, Calls(stack'), Whole, ~Errors, NEW pc, NEW k, Skips(pc, k)
  PROVE  Whole'
<1>1. PICK n, passed : n = index /\ passed = {<<n + 1, k>>}
  OBVIOUS
<1>2. /\ n \in Nat /\ n < Len(tokens) /\ Len(tokens) \in Nat /\ Tok = tokens[n + 1] /\ tokens' = tokens
      /\ \A i \in Nat : (\A u \in passed : u[1] # i - 1) =>
              /\ i <= n => TakenAs'[i] = TakenAs[i]
              /\ i > n => TakenAs'[i] = tokens[i]
      /\ \A i \in Nat : \A l : i > n /\ passed = {<<i - 1, l>>} => TakenAs'[i] = l
  <2>1. TakenThen(n, passed)
    BY <1>1, TakenOn DEF Skips
  <2> QED BY <2>1 DEF TakenThen
<1>3. ASSUME NEW i \in 1..n PROVE TakenAs'[i] = TakenAs[i]
  <2>1. \A u \in passed : u[1] # i - 1
    BY <1>1, <1>2
  <2> QED BY <1>2, <2>1
<1>4. n + 1 \in Nat /\ n + 2 \in Nat /\ (n + 1) + 1 = n + 2
  BY <1>2
<1>5. TakenAs'[n + 1] = Tok
  <2>1. \A u \in passed : u[1] # (n + 1) - 1
    BY <1>1, <1>2
  <2> QED BY <1>2, <1>4, <2>1
<1>6. TakenAs'[n + 2] = k
  <2>1. n + 2 > n /\ passed = {<<(n + 2) - 1, k>>}
    BY <1>1, <1>2
  <2> QED BY <1>2, <1>4, <2>1
<1>7. TypeInv /\ Calls(stack)
  BY DEF Calm, TypeInv, IsStack
<1>8. Counted(n, TakenAs', stack)
  <2>1. Counted(n, TakenAs, stack)
    BY <1>1 DEF Whole
  <2>2. \A i \in 1..n : TakenAs[i] = TakenAs'[i]
    BY <1>3
  <2> QED BY <1>2, <2>1, <2>2, SameCounted
<1>9. Counted(n + 1, TakenAs', stack)
  <2>1. Tok # "bad" /\ \A o \in Opens : Tok \notin {o, Close(o)}
    BY DEF Skips
  <2> QED BY <1>2, <1>5, <1>7, <1>8, <2>1, CountedOneMore
<1>10. /\ Held("program", stack') = Held("program", stack)
       /\ \A o \in Opens :
            \/ k = o /\ Held(o, stack') = Held(o, stack) + 1
            \/ k = Close(o) /\ k # o /\ Held(o, stack') + 1 = Held(o, stack)
            \/ k \notin {o, Close(o)} /\ Held(o, stack') = Held(o, stack)
  BY <1>7, TurnedEven DEF Skips
<1>11. Counted(n + 2, TakenAs', stack')
  <2>1. TakenAs'[(n + 1) + 1] = k /\ k # "bad"
    BY <1>4, <1>6 DEF Skips
  <2>2. Counted((n + 1) + 1, TakenAs', stack')
    BY <1>4, <1>7, <1>9, <1>10, <2>1, CountedOneMore
  <2> QED BY <1>4, <2>2
<1>12. Placed(n + 2)'
  <2>1. \A u \in unseen' : u[1] \in Nat /\ u[1] < n + 2
    BY <1>1, <1>2 DEF Whole, Skips
  <2>2. ASSUME NEW i \in 1..(n + 2)  PROVE i <= Len(tokens) \/ \E u \in unseen' : u[1] = i - 1
    <3>1. CASE i = n + 2
      <4>1. <<n + 1, k>> \in unseen' /\ <<n + 1, k>>[1] = i - 1
        BY <1>1, <1>2, <3>1 DEF Skips
      <4> QED BY <4>1
    <3>2. CASE i # n + 2
      BY <1>2, <3>2
    <3> QED BY <3>1, <3>2
  <2> QED BY <1>2, <2>1, <2>2 DEF Placed
<1>13. index' = n + 2
  BY <1>1 DEF Skips
<1> QED BY <1>10, <1>11, <1>12, <1>13 DEF Whole, Placed

LEMMA GoesOnWhole == ASSUME Calm, Calls(stack'), Whole, GoesOn PROVE Whole'
<1>0. ~Errors
  BY DEF GoesOn
<1>1. PICK pc : Stays(pc) \/ Looks(pc) \/ \E k : Passes(pc, k) \/ Skips(pc, k)
  BY DEF GoesOn
<1>2. CASE Stays(pc)
  BY <1>0, <1>2, StaysWhole
<1>3. CASE Looks(pc)
  BY <1>0, <1>3, OneTokenWhole DEF Looks
<1>4. ASSUME NEW k, Passes(pc, k) PROVE Whole'
  BY <1>0, <1>4, OneTokenWhole DEF Passes
<1>5. ASSUME NEW k, Skips(pc, k) PROVE Whole'
  BY <1>0, <1>5, TwoTokensWhole
<1> QED BY <1>1, <1>2, <1>3, <1>4, <1>5

\* With the program as the innermost call, it is the only one.
LEMMA NothingHeld ==
  ASSUME TypeInv, Held("program", stack) = 1, Top.pc = "program"
  PROVE  \A o \in Opens : Held(o, stack) = 0
<1>1. \A m : Held(m, stack) = Held(m, Below) + Within(m, "program") /\ Held(m, Below) \in Nat
  BY HeldBelow
<1>2. Within("program", "program") = 1 /\ \A o \in Opens : Within(o, "program") = 0
  BY DEF Within, Inside, Opens
<1>3. Held("program", Below) = 0 /\ Calls(Below)
  BY <1>1, <1>2, BelowOK
<1>4. Holders("program", Below) = {}
  BY <1>3, HeldIsNat
<1>5. Len(Below) \in Nat
  BY <1>3, SequenceLength DEF Calls
<1>6. Len(Below) # 0 => Below[1].pc = "program"
  BY BelowOK DEF IsStack
<1>7. 1..Len(Below) = {}
  <2>1. Len(Below) # 0 => 1 \in Holders("program", Below)
    BY <1>5, <1>6 DEF Holders, Inside
  <2> QED BY <1>4, <1>5, <2>1
<1>8. \A o : Holders(o, Below) = {}
  BY <1>7 DEF Holders
<1>9. \A o : Held(o, Below) = 0
  BY <1>3, <1>8, HeldIsNat
<1> QED BY <1>1, <1>2, <1>9

\* Taken and Number count what TakenAs and Till do.
LEMMA NumberIsTill ==
  ASSUME TypeInv
  PROVE  \A k : \A n \in 0..Len(tokens) : Number(k, n) = Till(k, n, TakenAs)
<1> TAKE k
<1> TAKE n \in 0..Len(tokens)
<1>1. Len(tokens) \in Nat
  BY DEF TypeInv
<1>2. ASSUME NEW i \in 1..n  PROVE Taken[i] = TakenAs[i]
  BY <1>1 DEF Taken, TakenAs, TakenFor
<1>3. {i \in 1..n : Taken[i] = k} = Places(k, n, TakenAs)
  BY <1>2 DEF Places
<1> QED BY <1>3 DEF Number, Till

\* The source that parser_parse_program returns from.
LEMMA WholeAtTheEnd ==
  ASSUME TypeInv, EndIsLast, Whole, Tok = "END", Top.pc = "program", ~Errors
  PROVE  /\ \A o \in Opens : \A n \in 1..Len(tokens) :
              /\ Number(Close(o), n) <= Number(o, n)
              /\ n = Len(tokens) => Number(o, n) = Number(Close(o), n)
         /\ Number("bad", Len(tokens)) = 0
<1>1. /\ index \in Nat /\ Len(tokens) \in Nat /\ index + 1 = Len(tokens)
      /\ tokens[index + 1] = "END"
  <2>1. index \in Nat /\ index < Len(tokens) /\ tokens[index + 1] = "END" /\ Len(tokens) \in Nat
    BY DEF Errors, Past, Tok, dynamic_array_get, InRange, Count, Array, TypeInv
  <2>2. ~(index + 1 \in 1..(Len(tokens) - 1))
    BY <2>1 DEF EndIsLast
  <2> QED BY <2>1, <2>2
<1>2. Counted(index, TakenAs, stack) /\ \A o \in Opens : Held(o, stack) = 0
  BY NothingHeld DEF Whole
<1>3. TakenAs[index + 1] = "END"
  <2>1. {u \in unseen : u[1] = (index + 1) - 1} = {}
    BY <1>1 DEF Whole
  <2>2. TakenAs[index + 1] = TakenFor({u \in unseen : u[1] = (index + 1) - 1}, tokens[index + 1])
    BY <1>1 DEF TakenAs
  <2> QED BY <1>1, <2>1, <2>2, TakenForOne
<1>4. ASSUME NEW k, k # "END"  PROVE Till(k, Len(tokens), TakenAs) = Till(k, index, TakenAs)
  <2>1. /\ Till(k, index, TakenAs) \in Nat
        /\ Till(k, index + 1, TakenAs)
           = Till(k, index, TakenAs) + (IF TakenAs[index + 1] = k THEN 1 ELSE 0)
    BY <1>1, TillIsNat
  <2> QED BY <1>1, <1>3, <1>4, <2>1
<1>5. \A o \in Opens : o # "END" /\ Close(o) # "END"
  BY DEF Opens, Close
<1>6. ASSUME NEW o \in Opens, NEW n \in 1..Len(tokens)
      PROVE  /\ Number(Close(o), n) <= Number(o, n)
             /\ n = Len(tokens) => Number(o, n) = Number(Close(o), n)
  <2>1. \A k : Till(k, index, TakenAs) \in Nat /\ Till(k, n, TakenAs) \in Nat
    BY <1>1, TillIsNat
  <2>2. Till(o, index, TakenAs) = Till(Close(o), index, TakenAs)
    BY <1>2, <2>1 DEF Counted
  <2>3. \A k : Number(k, n) = Till(k, n, TakenAs)
    BY <1>1, NumberIsTill
  <2>4. CASE n = Len(tokens)
    <3>1. Till(o, n, TakenAs) = Till(o, index, TakenAs)
      BY <1>4, <1>5, <2>4
    <3>2. Till(Close(o), n, TakenAs) = Till(Close(o), index, TakenAs)
      BY <1>4, <1>5, <2>4
    <3> QED BY <2>1, <2>2, <2>3, <3>1, <3>2
  <2>5. CASE n # Len(tokens)
    <3>1. n \in 0..index
      BY <1>1, <2>5
    <3> QED BY <1>2, <2>3, <2>5, <3>1 DEF Counted
  <2> QED BY <2>4, <2>5
<1>7. Number("bad", Len(tokens)) = 0
  <2>1. Places("bad", index, TakenAs) = {}
    BY <1>2 DEF Counted, Places
  <2>2. Till("bad", index, TakenAs) = 0
    BY <2>1, FS_EmptySet DEF Till
  <2>3. Till("bad", Len(tokens), TakenAs) = 0
    BY <1>4, <2>2
  <2> QED BY <1>1, <2>3, NumberIsTill
<1> QED BY <1>6, <1>7

\* The pairs of brackets.
LEMMA PairsClose == \A pair \in BracketPairs : pair[1] \in Opens /\ pair[2] = Close(pair[1])
<1>1. /\ {"(", "[", "{"} = Opens /\ Close("(") = ")" /\ Close("[") = "]" /\ Close("{") = "}"
  BY Points
<1>2. \A a, b : <<a, b>>[1] = a /\ <<a, b>>[2] = b
  OBVIOUS
<1> TAKE pair \in BracketPairs
<1>3. pair = <<"(", ")">> \/ pair = <<"{", "}">> \/ pair = <<"[", "]">>
  BY DEF BracketPairs
<1>4. CASE pair = <<"(", ")">>
  BY <1>1, <1>2, <1>4
<1>5. CASE pair = <<"{", "}">>
  BY <1>1, <1>2, <1>5
<1>6. CASE pair = <<"[", "]">>
  BY <1>1, <1>2, <1>6
<1> QED BY <1>3, <1>4, <1>5, <1>6

LEMMA FinishesClean ==
  ASSUME TypeInv, EndIsLast, Whole, Finishes, ~Errors, UNCHANGED tokens
  PROVE  AcceptedIsBalanced' /\ BadTokensAreReported'
<1>1. /\ \A o \in Opens : \A n \in 1..Len(tokens) :
           /\ Number(Close(o), n) <= Number(o, n)
           /\ n = Len(tokens) => Number(o, n) = Number(Close(o), n)
      /\ Number("bad", Len(tokens)) = 0
  BY WholeAtTheEnd DEF Finishes
<1>2. Taken' = Taken /\ tokens' = tokens
  BY DEF Finishes, Taken
<1>3. \A k, n : Number(k, n)' = Number(k, n)
  BY <1>2 DEF Number
<1>4. AcceptedIsBalanced'
  <2> SUFFICES ASSUME NEW pair \in BracketPairs, NEW n \in 1..Len(tokens)
               PROVE  /\ Number(pair[2], n)' <= Number(pair[1], n)'
                      /\ n = Len(tokens) => Number(pair[1], n)' = Number(pair[2], n)'
    BY <1>2 DEF AcceptedIsBalanced
  <2> QED BY <1>1, <1>3, PairsClose
<1>5. BadTokensAreReported'
  <2>1. \A k : Number(k, Len(tokens))' = Number(k, Len(tokens))
    BY <1>2 DEF Number
  <2> QED BY <1>1, <2>1 DEF BadTokensAreReported
<1> QED BY <1>4, <1>5

\* Without an error by now, there was none before.
LEMMA QuietBefore ==
  ASSUME Inv, Parse, Quiet', Goes
  PROVE  Calm /\ Calls(stack') /\ GoesOn /\ Quiet
<1>1. Calm
  BY DEF Inv, Parse, Calm
<1>2. GoesOn
  BY <1>1, CalmSteps
<1>3. ~errors /\ ~Past /\ status = "parsing"
  BY <1>2 DEF GoesOn, Errors, Parse
<1> QED BY <1>1, <1>2, <1>3 DEF Quiet, Goes, IsStack

LEMMA BracketsInit == Init => BracketInv
<1> SUFFICES ASSUME Init PROVE BracketInv
  OBVIOUS
<1>1. Inv
  BY InitInv
<1>2. index = 0 /\ unseen = {} /\ stack = <<Call("program", 0, FALSE)>> /\ status = "parsing"
  BY DEF Init
<1>3. Len(stack) = 1 /\ stack[1].pc = "program" /\ Calls(stack) /\ \A i \in 1..1 : i = 1
  BY <1>1, <1>2 DEF Call, Inv, TypeInv, IsStack
<1>4. Held("program", stack) = 1 /\ \A o \in Opens : Held(o, stack) = 0
  <2>1. Holders("program", stack) = {1}
    BY <1>3 DEF Holders, Inside
  <2>2. Cardinality({1}) = 1
    BY FS_Singleton
  <2>3. \A o \in Opens : Holders(o, stack) = {}
    BY <1>3 DEF Holders, Inside, Opens
  <2>4. \A o \in Opens : Held(o, stack) = 0
    BY <1>3, <2>3, HeldIsNat
  <2> QED BY <2>1, <2>2, <2>4 DEF Held
<1>5. Counted(0, TakenAs, stack)
  <2>1. \A j \in 0..0 : j = 0
    OBVIOUS
  <2> QED BY <1>4, <2>1, NothingYet DEF Counted
<1>6. Whole
  BY <1>2, <1>4, <1>5 DEF Whole
<1> QED BY <1>1, <1>2, <1>6 DEF BracketInv, AcceptedIsBalanced, BadTokensAreReported

LEMMA BracketsSupply == BracketInv /\ Supply => BracketInv'
<1> SUFFICES ASSUME BracketInv, Supply PROVE BracketInv'
  OBVIOUS
<1>1. Inv /\ Inv'
  BY SupplyStep DEF BracketInv
<1>2. /\ status = "parsing" /\ ~Complete
      /\ UNCHANGED <<index, stack, errors, unseen, status>>
  BY DEF Supply
<1>3. ASSUME Quiet' PROVE Whole'
  <2>1. Quiet /\ Whole /\ TypeInv
    BY <1>1, <1>2, <1>3 DEF Quiet, BracketInv, Inv
  <2>2. PICK piece : tokens' = tokens \o piece /\ piece \in Seq(Kinds)
    <3>1. PICK piece \in {<<"END">>} \cup More : tokens' = tokens \o piece
      BY DEF Supply
    <3>2. <<"END">> \in Seq(Kinds)
      BY DEF Kinds
    <3>3. \A p \in More : p \in Seq(Kinds)
      <4>1. \A p \in More : p \in Seq(Kinds \ {"END"})
        BY <2>1, ParserAssumption DEF More, TypeInv
      <4>2. ASSUME NEW p \in Seq(Kinds \ {"END"}) PROVE p \in Seq(Kinds)
        OBVIOUS
      <4> QED BY <4>1, <4>2
    <3> QED BY <3>1, <3>2, <3>3
  <2>3. /\ Len(tokens') \in Nat /\ Len(tokens) \in Nat /\ Len(tokens) <= Len(tokens')
        /\ \A i \in 1..Len(tokens) : tokens'[i] = tokens[i]
    BY <2>1, <2>2 DEF TypeInv
  <2>4. PICK n : n = index
    OBVIOUS
  <2>5. \A i \in 1..n : TakenAs'[i] = TakenAs[i]
    BY <1>2, <2>1, <2>3, <2>4, TakenSupplied
  <2>6. n \in Nat /\ Counted(n, TakenAs, stack)
    BY <2>1, <2>4 DEF TypeInv, Whole
  <2>7. Counted(n, TakenAs', stack)
    <3>1. \A i \in 1..n : TakenAs[i] = TakenAs'[i]
      BY <2>5
    <3> QED BY <2>6, <3>1, SameCounted
  <2>8. \A i \in 1..n : i <= Len(tokens') \/ \E u \in unseen : u[1] = i - 1
    BY <2>1, <2>3, <2>4, <2>6 DEF Whole
  <2> QED BY <1>2, <2>1, <2>4, <2>7, <2>8 DEF Whole
<1> QED BY <1>1, <1>2, <1>3 DEF BracketInv, AcceptedIsBalanced, BadTokensAreReported

LEMMA BracketsParse == BracketInv /\ Parse => BracketInv'
<1> SUFFICES ASSUME BracketInv, Parse PROVE BracketInv'
  OBVIOUS
<1>1. Inv /\ Inv' /\ TypeInv /\ EndIsLast
  BY ParseStep DEF BracketInv, Inv
<1>2. status = "parsing" /\ UNCHANGED tokens
  BY <1>1, Steps
<1>3. CASE Goes
  <2>1. ASSUME Quiet' PROVE Whole'
    <3>1. Calm /\ Calls(stack') /\ GoesOn /\ Whole
      BY <1>1, <1>3, <2>1, QuietBefore DEF BracketInv
    <3> QED BY <3>1, GoesOnWhole
  <2> QED BY <1>1, <1>2, <1>3, <2>1 DEF Goes, BracketInv, AcceptedIsBalanced, BadTokensAreReported
<1>4. CASE Ends
  BY <1>1, <1>4 DEF Ends, BracketInv, Quiet, AcceptedIsBalanced, BadTokensAreReported
<1>5. CASE Finishes /\ ~Errors
  <2>1. Quiet
    BY <1>2, <1>5 DEF Quiet, Errors
  <2>2. AcceptedIsBalanced' /\ BadTokensAreReported'
    BY <1>1, <1>2, <1>5, <2>1, FinishesClean DEF BracketInv
  <2>3. ~Quiet'
    BY <1>5 DEF Finishes, Quiet
  <2> QED BY <1>1, <2>2, <2>3 DEF BracketInv
<1> QED BY <1>1, <1>3, <1>4, <1>5, Steps

LEMMA BracketsIdle == BracketInv /\ UNCHANGED pvars => BracketInv'
<1> SUFFICES ASSUME BracketInv, UNCHANGED pvars PROVE BracketInv'
  OBVIOUS
<1>1. Inv'
  BY Idle DEF BracketInv
<1>2. UNCHANGED <<tokens, index, stack, errors, unseen, status>>
  BY DEF pvars
<1>3. Quiet' = Quiet
  BY <1>2 DEF Quiet, Complete, Past, InRange, Count, Array
<1>4. TakenAs' = TakenAs /\ Taken' = Taken
  BY <1>2 DEF TakenAs, Taken
<1>5. Whole' = Whole
  BY <1>2, <1>4 DEF Whole
<1>6. AcceptedIsBalanced' = AcceptedIsBalanced /\ BadTokensAreReported' = BadTokensAreReported
  BY <1>2, <1>4 DEF AcceptedIsBalanced, BadTokensAreReported, Number
<1> QED BY <1>1, <1>3, <1>5, <1>6 DEF BracketInv

\* The invariant over brackets: what was read of a source without an error is
\* closed in order, up to what the calls in progress hold.
THEOREM BracketsInvariance == Spec => []BracketInv
<1>1. BracketInv /\ [Next]_pvars => BracketInv'
  BY BracketsSupply, BracketsParse, BracketsIdle DEF Next, Finished
<1> QED BY BracketsInit, <1>1, PTL DEF Spec

\* Whatever the source, of any length: when parser_parse_program returns, the
\* parentheses, brackets and braces of what it took the source for are closed,
\* none before it is opened, though no loop of the parser counts them.
THEOREM BalancedTheorem == Spec => []AcceptedIsBalanced
<1>1. BracketInv => AcceptedIsBalanced
  BY DEF BracketInv
<1> QED BY <1>1, BracketsInvariance, PTL

\* Whatever the source: when parser_parse_program returns, every token that no
\* rule knows was passed where a name, a type or a parenthesis is taken without
\* a look.  There it is accepted, as in `int` and an invalid token.
THEOREM BadTokensTheorem == Spec => []BadTokensAreReported
<1>1. BracketInv => BadTokensAreReported
  BY DEF BracketInv
<1> QED BY <1>1, BracketsInvariance, PTL

----------------------------------------------------------------------------
(* The arena.                                                              *)

\* The arena is used up by tokens.  Every node is paid for by a token, at two
\* nodes a token: the node of an operator is owed by its call until its right
\* operand is parsed, and a call that has yet to take its first token may
\* spend in advance.
Operations == {"term", "expr"}
Owing(c) == c.pc \in Operations /\ c.arg
Debt(c) == IF Owing(c) THEN 1 ELSE 0
Debtors(s) == {i \in 1..Len(s) : Owing(s[i])}
Owed(s) == Cardinality(Debtors(s))
Advance(pc) == IF pc = "instr" THEN 2 ELSE IF pc \in {"block", "factor"} THEN 1 ELSE 0

Sizes == {AlignUp(Instr), AlignUp(Expr), AlignUp(Block)}
Biggest == Max(Sizes)

\* As many nodes as the tokens pay for.
Nodes(n) == AlignUp(arena.pos) <= n * Biggest /\ n + Owed(stack) <= 2 * index + Advance(Top.pc)
Budget == ~(Complete /\ Past) => \E n \in Nat : Nodes(n)

\* A step makes k nodes for m tokens.
Spends(k, m) ==
  /\ ~(Complete /\ Past)' => index' = index + m
  /\ k = 0 => arena' = arena
  /\ k = 1 => \E size \in {Instr, Expr, Block} : Push(size)
  /\ k + Owed(stack') + Advance(Top.pc) <= 2 * m + Advance(Top'.pc) + Owed(stack)
Thrifty == \E k \in {0, 1} : \E m \in Nat : Spends(k, m)

\* Calls of which none owes a node.
Free(cs) == Calls(cs) /\ \A i \in 1..Len(cs) : ~Owing(cs[i])

----------------------------------------------------------------------------
(* What the calls in progress owe.                                         *)

LEMMA OwedIsNat ==
  ASSUME NEW s, Calls(s)
  PROVE  Owed(s) \in Nat
<1>1. Len(s) \in Nat
  BY SequenceLength DEF Calls
<1>2. Debtors(s) \subseteq 1..Len(s)
  BY DEF Debtors
<1> QED BY <1>1, <1>2, UpTo DEF Owed

LEMMA OwedByOneMore ==
  ASSUME NEW s, Calls(s), NEW c
  PROVE  Owed(Append(s, c)) = Owed(s) + Debt(c)
<1>1. /\ Len(Append(s, c)) = Len(s) + 1 /\ Append(s, c)[Len(s) + 1] = c
      /\ \A i \in 1..Len(s) : Append(s, c)[i] = s[i]
      /\ Len(s) \in Nat
  BY AppendSequence, SequenceLength DEF Calls
<1>2. Debtors(s) \subseteq 1..Len(s)
  BY DEF Debtors
<1>3. \A i \in 1..(Len(s) + 1) : i \in 1..Len(s) \/ i = Len(s) + 1
  BY <1>1
<1>4. CASE Owing(c)
  <2>1. Debtors(Append(s, c)) = Debtors(s) \cup {Len(s) + 1}
    BY <1>1, <1>3, <1>4 DEF Debtors
  <2> QED BY <1>1, <1>2, <1>4, <2>1, UpTo DEF Owed, Debt
<1>5. CASE ~Owing(c)
  <2>1. Debtors(Append(s, c)) = Debtors(s)
    BY <1>1, <1>3, <1>5 DEF Debtors
  <2> QED BY <1>5, <2>1, OwedIsNat DEF Owed, Debt
<1> QED BY <1>4, <1>5

LEMMA FreeOwesNothing ==
  ASSUME NEW s, Calls(s), NEW cs, Free(cs)
  PROVE  Owed(s \o cs) = Owed(s)
<1>1. /\ Len(s \o cs) = Len(s) + Len(cs)
      /\ \A i \in 1..Len(s) : (s \o cs)[i] = s[i]
      /\ \A i \in 1..Len(cs) : (s \o cs)[Len(s) + i] = cs[i]
      /\ Len(s) \in Nat /\ Len(cs) \in Nat
  BY JoinedSequence, SequenceLength DEF Free, Calls
<1>2. ASSUME NEW i \in 1..Len(s \o cs), i \notin 1..Len(s)
      PROVE  ~Owing((s \o cs)[i])
  <2>1. PICK j \in 1..Len(cs) : i = Len(s) + j
    <3>1. i - Len(s) \in 1..Len(cs) /\ i = Len(s) + (i - Len(s))
      BY <1>1, <1>2
    <3> QED BY <3>1
  <2> QED BY <1>1, <2>1 DEF Free
<1>3. 1..Len(s) \subseteq 1..Len(s \o cs)
  BY <1>1
<1>4. Debtors(s \o cs) = Debtors(s)
  BY <1>1, <1>2, <1>3 DEF Debtors
<1> QED BY <1>4 DEF Owed

LEMMA OwedBelow ==
  ASSUME TypeInv
  PROVE  Owed(stack) = Owed(Below) + Debt(Top) /\ Owed(Below) \in Nat
<1>1. Calls(Below) /\ Len(stack) \in Nat \ {0} /\ IsSequence(stack)
  BY BelowOK, TopIsCall DEF TypeInv, IsStack, Calls
<1>2. stack = Append(Below, Top)
  <2>1. stack \in Seq({stack[i] : i \in 1..Len(stack)})
    BY <1>1 DEF IsSequence
  <2> QED BY <1>1, <2>1 DEF Below, Top
<1> QED BY <1>1, <1>2, OwedByOneMore, OwedIsNat

\* Whatever the innermost call goes on with: what it owed is forgotten, and
\* only an operator owes a node again.
LEMMA StacksOwe ==
  ASSUME TypeInv
  PROVE  /\ Owed(Return) = Owed(Below)
         /\ \A pc : pc \notin Operations => Owed(Then(pc)) = Owed(Below)
         /\ \A pc, arg : pc \notin Operations => Owed(Append(Below, At(pc, arg))) = Owed(Below)
         /\ \A pc, cs : pc \notin Operations /\ Free(cs) => Owed(CallThen(cs, pc)) = Owed(Below)
         /\ \A cs : Free(cs) => Owed(Instead(cs)) = Owed(Below)
         /\ \A pc, cs : pc \in Operations /\ Free(cs) =>
              Owed(Append(Below, Call(pc, Depth, TRUE)) \o cs) = Owed(Below) + 1
<1>1. /\ Calls(Below) /\ Depth \in Nat /\ Owed(Below) \in Nat
      /\ \A pc, arg : IsCall(At(pc, arg)) /\ At(pc, arg).pc = pc
      /\ \A pc, arg : /\ IsCall(Call(pc, Depth, arg))
                      /\ Call(pc, Depth, arg).pc = pc /\ Call(pc, Depth, arg).arg = arg
  BY BelowOK, AtIsCall, CallIsCall, OwedBelow DEF Call
<1>2. ASSUME NEW pc, NEW arg, pc \notin Operations
      PROVE  Owed(Append(Below, At(pc, arg))) = Owed(Below) /\ Calls(Append(Below, At(pc, arg)))
  <2>1. Debt(At(pc, arg)) = 0
    BY <1>1, <1>2 DEF Debt, Owing
  <2> QED BY <1>1, <2>1, OwedByOneMore, OneMore
<1>3. ASSUME NEW pc, NEW cs, pc \in Operations, Free(cs)
      PROVE  Owed(Append(Below, Call(pc, Depth, TRUE)) \o cs) = Owed(Below) + 1
  <2>1. Debt(Call(pc, Depth, TRUE)) = 1
    BY <1>1, <1>3 DEF Debt, Owing
  <2>2. Calls(Append(Below, Call(pc, Depth, TRUE)))
    BY <1>1, OneMore
  <2> QED BY <1>1, <1>3, <2>1, <2>2, OwedByOneMore, FreeOwesNothing
<1>4. \A pc, cs : pc \notin Operations /\ Free(cs) => Owed(CallThen(cs, pc)) = Owed(Below)
  BY <1>2, FreeOwesNothing DEF CallThen
<1>5. \A cs : Free(cs) => Owed(Instead(cs)) = Owed(Below)
  BY <1>1, FreeOwesNothing DEF Instead
<1> QED BY <1>2, <1>3, <1>4, <1>5 DEF Return, Then

\* The calls that are made owe nothing.
LEMMA FreeCalls ==
  ASSUME TypeInv
  PROVE  /\ Free(parse_expr) /\ Free(parse_rel)
         /\ \A null : Free(parse_cond_block(null))
         /\ \A depth \in Nat : \A null : Free(parse_instr(depth, null))
         /\ \A null : Free(parse_cond_block(null) \o parse_rel)
         /\ \A pc : Free(<<Call(pc, Depth, FALSE)>>)
         /\ Free(<<Call("term", Depth, FALSE), Call("factor", Depth, FALSE)>>)
         /\ Free(<<Call("if", Depth, FALSE)>> \o parse_rel)
         /\ Free(<<Call("match", Depth, FALSE)>> \o parse_expr)
<1>1. /\ \A pc, depth : ~Owing(Call(pc, depth, FALSE))
      /\ \A pc, depth, arg : pc \notin Operations => ~Owing(Call(pc, depth, arg))
  BY DEF Call, Owing
<1>2. ASSUME NEW cs, Calls(cs), \A i \in 1..Len(cs) : ~Owing(cs[i])  PROVE Free(cs)
  BY <1>2 DEF Free
<1>3. ASSUME NEW a, ~Owing(a), Calls(<<a>>)  PROVE Free(<<a>>)
  <2>1. Len(<<a>>) = 1 /\ <<a>>[1] = a /\ \A i \in 1..1 : i = 1
    OBVIOUS
  <2> QED BY <1>2, <1>3, <2>1
<1>4. ASSUME NEW a, NEW b, ~Owing(a), ~Owing(b), Calls(<<a, b>>)  PROVE Free(<<a, b>>)
  <2>1. Len(<<a, b>>) = 2 /\ <<a, b>>[1] = a /\ <<a, b>>[2] = b /\ \A i \in 1..2 : i = 1 \/ i = 2
    OBVIOUS
  <2> QED BY <1>2, <1>4, <2>1
<1>5. ASSUME NEW a, NEW b, NEW c, ~Owing(a), ~Owing(b), ~Owing(c), Calls(<<a, b, c>>)
      PROVE  Free(<<a, b, c>>)
  <2>1. /\ Len(<<a, b, c>>) = 3 /\ <<a, b, c>>[1] = a /\ <<a, b, c>>[2] = b /\ <<a, b, c>>[3] = c
        /\ \A i \in 1..3 : i = 1 \/ i = 2 \/ i = 3
    OBVIOUS
  <2> QED BY <1>2, <1>5, <2>1
<1>6. ASSUME NEW s, NEW t, Free(s), Free(t)  PROVE Free(s \o t)
  <2>2. Calls(s) /\ Calls(t) /\ Calls(s \o t)
    BY <1>6, MoreCalls DEF Free
  <2>3. /\ Len(s \o t) = Len(s) + Len(t)
        /\ \A i \in 1..Len(s) : (s \o t)[i] = s[i]
        /\ \A i \in 1..Len(t) : (s \o t)[Len(s) + i] = t[i]
        /\ Len(s) \in Nat /\ Len(t) \in Nat
    BY <2>2, JoinedSequence, SequenceLength DEF Calls
  <2>4. ASSUME NEW i \in 1..Len(s \o t)  PROVE ~Owing((s \o t)[i])
    <3>1. CASE i \in 1..Len(s)
      BY <1>6, <2>3, <3>1 DEF Free
    <3>2. CASE i \notin 1..Len(s)
      <4>1. PICK j \in 1..Len(t) : i = Len(s) + j
        <5>1. i - Len(s) \in 1..Len(t) /\ i = Len(s) + (i - Len(s))
          BY <2>3, <3>2
        <5> QED BY <5>1
      <4> QED BY <1>6, <2>3, <4>1 DEF Free
    <3> QED BY <3>1, <3>2
  <2> QED BY <1>2, <2>2, <2>4
<1>7. \A pc : Free(<<Call(pc, Depth, FALSE)>>)
  BY <1>1, <1>3, CallsMade
<1>8. Free(<<Call("term", Depth, FALSE), Call("factor", Depth, FALSE)>>)
  BY <1>1, <1>4, CallsMade
<1>9. Free(parse_expr)
  BY <1>1, <1>5, CallsMade DEF parse_expr
<1>10. Free(parse_rel)
  BY <1>1, <1>4, CallsMade DEF parse_rel
<1>11. \A null : Free(parse_cond_block(null))
  BY <1>1, <1>3, CallsMade DEF parse_cond_block, Operations
<1>12. \A depth \in Nat : \A null : Free(parse_instr(depth, null))
  BY <1>1, <1>3, CallsMade DEF parse_instr, Operations
<1> QED BY <1>6, <1>7, <1>8, <1>9, <1>10, <1>11, <1>12

----------------------------------------------------------------------------
(* What a step spends.                                                     *)

Advances == {"instr", "block", "factor"}

LEMMA AdvanceIsNat ==
  /\ \A pc : Advance(pc) \in 0..2
  /\ \A pc : pc \notin Advances => Advance(pc) = 0
BY DEF Advance, Advances

\* The index counts the tokens, until it is past the end.
LEMMA MoveCounts ==
  ASSUME TypeInv, UNCHANGED tokens, NEW n \in Nat, NEW calls, NEW err, NEW lines, NEW passed,
         Move(n, calls, err, lines, passed)
  PROVE  /\ ~(Complete /\ Past)' => index' = index + n
         /\ stack' = calls /\ Top' = calls[Len(calls)]
<1>1. index \in Nat /\ Len(tokens) \in Nat
  BY DEF TypeInv
<1>2. CASE Complete /\ index + n > Len(tokens)
  <2>1. index' = Len(tokens) /\ tokens' = tokens
    BY <1>2 DEF Move
  <2>2. (Complete /\ Past)'
    BY <1>1, <1>2, <2>1 DEF Complete, Past, InRange, Count, Array
  <2> QED BY <2>2 DEF Move, Top
<1>3. CASE ~(Complete /\ index + n > Len(tokens))
  BY <1>3 DEF Move, Top
<1> QED BY <1>2, <1>3

\* A step that makes no node.
LEMMA StepSpent ==
  ASSUME TypeInv, UNCHANGED tokens, NEW n \in Nat, NEW calls, NEW err, NEW lines, NEW passed,
         Move(n, calls, err, lines, passed), NoNode,
         0 + Owed(calls) + Advance(Top.pc) <= 2 * n + Advance(calls[Len(calls)].pc) + Owed(stack)
  PROVE  Thrifty
<1>1. arena' = arena
  BY DEF NoNode
<1>2. Spends(0, n)
  BY <1>1, MoveCounts DEF Spends
<1> QED BY <1>2 DEF Thrifty

\* One that makes a node.
LEMMA NodeSpent ==
  ASSUME TypeInv, UNCHANGED tokens, NEW n \in Nat, NEW calls, NEW err, NEW lines, NEW passed,
         Move(n, calls, err, lines, passed), NEW size \in {Instr, Expr, Block}, Push(size),
         1 + Owed(calls) + Advance(Top.pc) <= 2 * n + Advance(calls[Len(calls)].pc) + Owed(stack)
  PROVE  Thrifty
<1>1. Spends(1, n)
  BY MoveCounts DEF Spends
<1> QED BY <1>1 DEF Thrifty

\* When nothing is owed but what was, a token is enough, or having nothing in
\* advance.
LEMMA NoNodeSpent ==
  ASSUME TypeInv, UNCHANGED tokens, NEW n \in Nat, NEW calls, NEW err, NEW lines, NEW passed,
         Move(n, calls, err, lines, passed), NoNode, Owed(calls) = Owed(stack),
         n >= 1 \/ Top.pc \notin Advances
  PROVE  Thrifty
<1>1. Owed(stack) \in Nat
  BY OwedIsNat DEF TypeInv, IsStack
<1>2. 0 + Owed(calls) + Advance(Top.pc) <= 2 * n + Advance(calls[Len(calls)].pc) + Owed(stack)
  <2>1. Advance(calls[Len(calls)].pc) \in 0..2 /\ Advance(Top.pc) \in 0..2
    BY AdvanceIsNat
  <2>2. n >= 1 \/ Advance(Top.pc) = 0
    BY AdvanceIsNat
  <2> QED BY <1>1, <2>1, <2>2
<1> QED BY <1>2, StepSpent

\* An operator is not among them: see OperatorThrift.
Ordinary == TypeInv /\ UNCHANGED tokens /\ Top.pc \notin Operations

LEMMA OrdinaryForms ==
  ASSUME Ordinary
  PROVE  /\ \A n \in Nat : \A calls : Owed(calls) = Owed(stack) /\ (n >= 1 \/ Top.pc \notin Advances) =>
              /\ Go(n, calls) => Thrifty
              /\ Complain(n, calls) => Thrifty
              /\ \A kind : Emit(kind, n, calls) => Thrifty
         /\ \A kind, calls : Owed(calls) = Owed(stack) =>
              /\ TakeFor(kind, calls) => Thrifty
              /\ Expect(kind, calls) => Thrifty
              /\ Require(kind, calls) => Thrifty \/ Ends
         /\ Exit => Ends
         /\ Crash => Ends
<1>0. TypeInv /\ UNCHANGED tokens
  BY DEF Ordinary
<1>1. ASSUME NEW n \in Nat, NEW calls, Owed(calls) = Owed(stack), n >= 1 \/ Top.pc \notin Advances
      PROVE  /\ Go(n, calls) => Thrifty
             /\ Complain(n, calls) => Thrifty
             /\ \A kind : Emit(kind, n, calls) => Thrifty
  <2>1. Go(n, calls) => Thrifty
    BY <1>0, <1>1, NoNodeSpent DEF Go
  <2>2. Complain(n, calls) => Thrifty
    BY <1>0, <1>1, NoNodeSpent DEF Complain
  <2>3. ASSUME NEW kind, Emit(kind, n, calls) PROVE Thrifty
    <3>1. PICK line : Move(n, calls, FALSE, <<line>>, {}) /\ NoNode
      BY <2>3 DEF Emit
    <3> QED BY <1>0, <1>1, <3>1, NoNodeSpent
  <2> QED BY <2>1, <2>2, <2>3
<1>2. ASSUME NEW kind, NEW calls, Owed(calls) = Owed(stack), TakeFor(kind, calls) PROVE Thrifty
  <2>1. PICK passed : Move(1, calls, FALSE, <<>>, passed) /\ NoNode
    BY <1>2 DEF TakeFor
  <2>2. 1 \in Nat /\ 1 >= 1
    OBVIOUS
  <2> QED BY <1>0, <1>2, <2>1, <2>2, NoNodeSpent, Zenon
<1>3. ASSUME NEW kind, NEW calls, Owed(calls) = Owed(stack), Expect(kind, calls) PROVE Thrifty
  BY <1>1, <1>3 DEF Expect
<1>4. (Exit => Ends) /\ (Crash => Ends)
  BY DEF Exit, Crash, Ends
<1>5. ASSUME NEW kind, NEW calls, Owed(calls) = Owed(stack), Require(kind, calls)
      PROVE  Thrifty \/ Ends
  BY <1>1, <1>4, <1>5 DEF Require
<1> QED BY <1>1, <1>2, <1>3, <1>4, <1>5

\* What an ordinary call goes on with owes what was owed.
LEMMA OrdinaryStacks ==
  ASSUME Ordinary
  PROVE  /\ Owed(stack) \in Nat
         /\ Owed(Return) = Owed(stack)
         /\ \A pc : pc \notin Operations => Owed(Then(pc)) = Owed(stack)
         /\ \A pc, arg : pc \notin Operations => Owed(Append(Below, At(pc, arg))) = Owed(stack)
         /\ \A pc, cs : pc \notin Operations /\ Free(cs) => Owed(CallThen(cs, pc)) = Owed(stack)
         /\ \A cs : Free(cs) => Owed(Instead(cs)) = Owed(stack)
<1>1. Debt(Top) = 0
  BY DEF Ordinary, Debt, Owing
<1>2. Owed(stack) = Owed(Below) /\ Owed(stack) \in Nat
  BY <1>1, OwedBelow DEF Ordinary
<1> QED BY <1>2, StacksOwe DEF Ordinary

\* The stacks of the actions.
LEMMA OrdinaryCalls ==
  ASSUME Ordinary
  PROVE  /\ Owed(Return) = Owed(stack)
         /\ \A pc : pc \notin Operations =>
              /\ Owed(Then(pc)) = Owed(stack)
              /\ Owed(CallThen(parse_expr, pc)) = Owed(stack)
              /\ Owed(CallThen(parse_rel, pc)) = Owed(stack)
              /\ Owed(CallThen(parse_cond_block(FALSE), pc)) = Owed(stack)
              /\ Owed(CallThen(parse_cond_block(FALSE) \o parse_rel, pc)) = Owed(stack)
         /\ Owed(Instead(parse_expr)) = Owed(stack)
         /\ Owed(Instead(parse_rel)) = Owed(stack)
         /\ Owed(Instead(<<Call("operand", Depth, FALSE)>>)) = Owed(stack)
         /\ Owed(Instead(<<Call("elements", Depth, FALSE)>>)) = Owed(stack)
         /\ Owed(Instead(<<Call("if", Depth, FALSE)>> \o parse_rel)) = Owed(stack)
BY OrdinaryStacks, FreeCalls DEF Ordinary

----------------------------------------------------------------------------
(* The actions, and what they spend.                                       *)

LEMMA AfterIdentifierThrift ==
  ASSUME TypeInv, UNCHANGED tokens, AfterIdentifier PROVE Thrifty \/ Ends
<1>1. Ordinary
  BY DEF Ordinary, AfterIdentifier, Operations
<1> QED BY <1>1, OrdinaryForms, OrdinaryCalls DEF AfterIdentifier, Operations, Advances

LEMMA ClosingThrift ==
  ASSUME TypeInv, UNCHANGED tokens, CloseIndex \/ CloseParen PROVE Thrifty \/ Ends
<1>1. Ordinary
  BY DEF Ordinary, CloseIndex, CloseParen, Operations
<1> QED BY <1>1, OrdinaryForms, OrdinaryCalls DEF CloseIndex, CloseParen, Operations, Advances

LEMMA ArgumentThrift ==
  ASSUME TypeInv, UNCHANGED tokens, Arguments \/ ArgumentComma PROVE Thrifty \/ Ends
<1>1. Ordinary
  BY DEF Ordinary, Arguments, ArgumentComma, Operations
<1>2. Top.pc \notin Advances
  BY DEF Advances, Arguments, ArgumentComma
<1> QED BY <1>1, <1>2, OrdinaryForms, OrdinaryCalls DEF Arguments, ArgumentComma, Operations

LEMMA RelationThrift ==
  ASSUME TypeInv, UNCHANGED tokens, parse_term_for_expr \/ Relation PROVE Thrifty \/ Ends
<1>1. Ordinary
  BY DEF Ordinary, parse_term_for_expr, Relation, Operations
<1>2. Top.pc \notin Advances
  BY DEF Advances, parse_term_for_expr, Relation
<1> QED BY <1>1, <1>2, OrdinaryForms, OrdinaryCalls DEF parse_term_for_expr, Relation, Operations

LEMMA DeclarationThrift ==
  ASSUME TypeInv, UNCHANGED tokens, DeclareName \/ DeclareSize \/ DeclareArray PROVE Thrifty \/ Ends
<1>1. Ordinary
  BY DEF Ordinary, DeclareName, DeclareSize, DeclareArray, Operations
<1>2. Top.pc \notin Advances
  BY DEF Advances, DeclareName, DeclareSize, DeclareArray
<1> QED BY <1>1, <1>2, OrdinaryForms, OrdinaryCalls
        DEF DeclareName, DeclareSize, DeclareArray, Operations

LEMMA InitializeThrift ==
  ASSUME TypeInv, UNCHANGED tokens, parse_initialize_array PROVE Thrifty \/ Ends
<1>1. Ordinary
  BY DEF Ordinary, parse_initialize_array, Operations
<1>2. Top.pc \notin Advances
  BY DEF Advances, parse_initialize_array
<1> QED BY <1>1, <1>2, OrdinaryForms, OrdinaryCalls DEF parse_initialize_array, Operations

LEMMA SimpleThrift ==
  ASSUME TypeInv, UNCHANGED tokens, parse_assign \/ parse_goto \/ parse_ret PROVE Thrifty \/ Ends
<1>1. Ordinary
  BY DEF Ordinary, parse_assign, parse_goto, parse_ret, Operations
<1>2. Top.pc \notin Advances
  BY DEF Advances, parse_assign, parse_goto, parse_ret
<1>3. CASE parse_assign
  BY <1>1, <1>2, <1>3, OrdinaryForms, OrdinaryCalls DEF parse_assign, Operations
<1>4. CASE parse_goto
  BY <1>1, <1>2, <1>4, OrdinaryForms, OrdinaryCalls DEF parse_goto, Operations
<1>5. CASE parse_ret
  BY <1>1, <1>2, <1>5, OrdinaryForms, OrdinaryCalls DEF parse_ret, Operations
<1> QED BY <1>3, <1>4, <1>5

LEMMA FactorThrift == ASSUME TypeInv, UNCHANGED tokens, Factor PROVE Thrifty \/ Ends
<1>1. Ordinary /\ Advance(Top.pc) = 1
  BY DEF Ordinary, Factor, Operations, Advance
<1>2. CASE /\ Push(Expr)
           /\ Move(1, IF Tok = "id" THEN Then("after id") ELSE Return, FALSE, <<>>, {})
  <2> DEFINE calls == IF Tok = "id" THEN Then("after id") ELSE Return
  <2>1. Owed(calls) = Owed(stack) /\ Owed(stack) \in Nat
    BY <1>1, OrdinaryCalls, OrdinaryStacks DEF Operations
  <2>2. Push(Expr) /\ Move(1, calls, FALSE, <<>>, {})
    BY <1>2
  <2> HIDE DEF calls
  <2>3. 1 + Owed(calls) + Advance(Top.pc) <= 2 * 1 + Advance(calls[Len(calls)].pc) + Owed(stack)
    <3>1. Advance(calls[Len(calls)].pc) \in 0..2
      BY AdvanceIsNat
    <3> QED BY <1>1, <2>1, <3>1
  <2> QED BY <2>2, <2>3, NodeSpent
<1>3. CASE Go(1, CallThen(parse_expr, "paren"))
  <2>1. Owed(CallThen(parse_expr, "paren")) = Owed(stack)
    BY <1>1, OrdinaryCalls DEF Operations
  <2> QED BY <1>1, <1>3, <2>1, OrdinaryForms
<1>4. CASE Exit \/ Crash
  BY <1>1, <1>4, OrdinaryForms
<1> QED BY <1>2, <1>3, <1>4 DEF Factor

\* The node of an operator is made when its right operand is there, and that
\* is what the call has owed since it passed the operator.
LEMMA OperatorThrift ==
  ASSUME TypeInv, UNCHANGED tokens, NEW pc \in Operations, NEW operator, NEW operand, Free(operand),
         Operators(pc, operator, operand)
  PROVE  Thrifty \/ Ends
<1>0. /\ Top.pc = pc /\ Advance(Top.pc) = 0 /\ Top.pc \notin Advances
      /\ Owed(Below) \in Nat /\ Owed(stack) = Owed(Below) + Debt(Top)
  BY OwedBelow DEF Operators, Operations, Advance, Advances
<1> DEFINE on == Append(Below, Call(pc, Depth, TRUE)) \o operand
<1>1. Owed(on) = Owed(Below) + 1 /\ Owed(Return) = Owed(Below)
  BY StacksOwe
<1>2. \A cs : Advance(cs[Len(cs)].pc) \in 0..2
  BY AdvanceIsNat
<1>3. CASE Crash
  BY <1>3 DEF Crash, Ends
<1>4. CASE Top.arg /\ Push(Expr) /\ (Move(1, on, FALSE, <<>>, {}) \/ Move(0, Return, FALSE, <<>>, {}))
  <2>1. Debt(Top) = 1
    BY <1>0, <1>4 DEF Debt, Owing
  <2> HIDE DEF on
  <2>2. 1 + Owed(on) + Advance(Top.pc) <= 2 * 1 + Advance(on[Len(on)].pc) + Owed(stack)
    BY <1>0, <1>1, <1>2, <2>1
  <2>3. 1 + Owed(Return) + Advance(Top.pc) <= 2 * 0 + Advance(Return[Len(Return)].pc) + Owed(stack)
    BY <1>0, <1>1, <1>2, <2>1
  <2>4. CASE Move(1, on, FALSE, <<>>, {})
    BY <1>4, <2>2, <2>4, NodeSpent
  <2>5. CASE Move(0, Return, FALSE, <<>>, {})
    BY <1>4, <2>3, <2>5, NodeSpent
  <2> QED BY <1>4, <2>4, <2>5
<1>5. CASE ~Top.arg /\ NoNode /\ Move(0, Return, FALSE, <<>>, {})
  <2>1. Debt(Top) = 0
    BY <1>5 DEF Debt, Owing
  <2>2. Owed(Return) = Owed(stack)
    BY <1>0, <1>1, <2>1
  <2> QED BY <1>0, <1>5, <2>2, NoNodeSpent, 0 \in Nat, Zenon
<1>6. CASE ~Top.arg /\ NoNode /\ Move(1, on, FALSE, <<>>, {})
  <2>1. Debt(Top) = 0
    BY <1>6 DEF Debt, Owing
  <2> HIDE DEF on
  <2>2. 0 + Owed(on) + Advance(Top.pc) <= 2 * 1 + Advance(on[Len(on)].pc) + Owed(stack)
    BY <1>0, <1>1, <1>2, <2>1
  <2> QED BY <1>6, <2>2, StepSpent
<1> QED BY <1>3, <1>4, <1>5, <1>6 DEF Operators

LEMMA ExpressionThrift == ASSUME TypeInv, UNCHANGED tokens, Term \/ Expression PROVE Thrifty \/ Ends
<1>1. CASE Term
  BY <1>1, FreeCalls, OperatorThrift DEF Term, Operations
<1>2. CASE Expression
  BY <1>2, FreeCalls, OperatorThrift DEF Expression, Operations
<1> QED BY <1>1, <1>2

\* The call that is made last is the next to go on.
LEMMA LastOfJoined ==
  ASSUME NEW s, Calls(s), NEW t, Calls(t), Len(t) # 0
  PROVE  (s \o t)[Len(s \o t)] = t[Len(t)]
<1>1. /\ Len(s \o t) = Len(s) + Len(t) /\ Len(s) \in Nat /\ Len(t) \in Nat \ {0}
      /\ \A i \in 1..Len(t) : (s \o t)[Len(s) + i] = t[i]
  BY JoinedSequence, SequenceLength DEF Calls
<1> QED BY <1>1

LEMMA LastCalls ==
  ASSUME TypeInv
  PROVE  /\ \A s : Calls(s) => /\ (s \o parse_expr)[Len(s \o parse_expr)].pc = "factor"
                               /\ \A depth \in Nat : \A null :
                                    LET cs == s \o parse_instr(depth, null) IN cs[Len(cs)].pc = "instr"
                               /\ \A null :
                                    LET cs == s \o parse_cond_block(null) IN cs[Len(cs)].pc = "block"
         /\ LET cs == Instead(<<Call("match", Depth, FALSE)>> \o parse_expr) IN
            cs[Len(cs)].pc = "factor"
<1>1. Calls(parse_expr) /\ Len(parse_expr) = 3 /\ parse_expr[3].pc = "factor"
  BY CallsMade DEF parse_expr, Call
<1>2. ASSUME NEW depth \in Nat, NEW null
      PROVE  LET cs == parse_instr(depth, null) IN
             Calls(cs) /\ Len(cs) = 1 /\ cs[1].pc = "instr"
  BY CallsMade DEF parse_instr, Call
<1>3. ASSUME NEW null
      PROVE  LET cs == parse_cond_block(null) IN
             Calls(cs) /\ Len(cs) = 1 /\ cs[1].pc = "block"
  BY CallsMade DEF parse_cond_block, Call
<1>4. ASSUME NEW s, Calls(s)
      PROVE  (s \o parse_expr)[Len(s \o parse_expr)].pc = "factor"
  <2>1. PICK t : t = parse_expr
    OBVIOUS
  <2>2. Calls(t) /\ Len(t) = 3 /\ t[3].pc = "factor"
    BY <1>1, <2>1
  <2>3. Len(t) # 0
    BY <2>2
  <2>4. (s \o t)[Len(s \o t)] = t[Len(t)]
    BY ONLY <1>4, <2>2, <2>3, LastOfJoined
  <2> QED BY <2>1, <2>2, <2>4
<1>5. ASSUME NEW s, Calls(s), NEW depth \in Nat, NEW null
      PROVE  LET cs == s \o parse_instr(depth, null) IN cs[Len(cs)].pc = "instr"
  BY <1>2, <1>5, LastOfJoined
<1>6. ASSUME NEW s, Calls(s), NEW null
      PROVE  LET cs == s \o parse_cond_block(null) IN cs[Len(cs)].pc = "block"
  BY <1>3, <1>6, LastOfJoined
<1>7. LET cs == Instead(<<Call("match", Depth, FALSE)>> \o parse_expr) IN cs[Len(cs)].pc = "factor"
  <2> DEFINE first == <<Call("match", Depth, FALSE)>>
  <2>1. Calls(first) /\ Calls(first \o parse_expr)
    BY CallsMade
  <2>2. Len(first \o parse_expr) = Len(first) + 3 /\ Len(first) \in Nat
    <3>1. ASSUME NEW s, Calls(s)
          PROVE  Len(s \o parse_expr) = Len(s) + 3 /\ Len(s) \in Nat
      <4>1. IsSequence(s) /\ IsSequence(parse_expr)
        BY <1>1, <3>1 DEF Calls
      <4>2. Len(s \o parse_expr) = Len(s) + Len(parse_expr)
        BY <4>1, JoinedSequence
      <4> QED BY <1>1, <4>1, <4>2, SequenceLength
    <3> QED BY <2>1, <3>1
  <2> HIDE DEF first
  <2>3. LET cs == Below \o (first \o parse_expr) IN
        cs[Len(cs)] = (first \o parse_expr)[Len(first \o parse_expr)]
    BY <2>1, <2>2, BelowOK, LastOfJoined
  <2> QED BY <1>4, <2>1, <2>3 DEF Instead, first
<1> QED BY <1>4, <1>5, <1>6, <1>7

\* One more instruction is paid for by what it has in advance.
LEMMA NextInstrThrift ==
  ASSUME Ordinary, Top.pc \notin Advances, NEW depth \in Nat, NEW pc, pc \notin Operations,
         NextInstr(depth, pc)
  PROVE  Thrifty
<1>1. PICK calls : /\ calls = CallThen(parse_instr(depth, Full(Instr)), pc)
                   /\ Push(Instr) /\ Move(0, calls, Full(Instr), <<>>, {})
  BY DEF NextInstr
<1>2. Owed(calls) = Owed(stack) /\ Owed(stack) \in Nat
  BY <1>1, OrdinaryStacks, FreeCalls DEF Ordinary
<1>3. Advance(calls[Len(calls)].pc) = 2
  <2>1. Calls(Append(Below, At(pc, Top.arg)))
    BY BelowOK, AtIsCall, OneMore DEF Ordinary
  <2>2. calls[Len(calls)].pc = "instr"
    BY <1>1, <2>1, LastCalls DEF Ordinary, CallThen
  <2> QED BY <2>2 DEF Advance
<1>4. Advance(Top.pc) = 0
  BY AdvanceIsNat
<1>5. 1 + Owed(calls) + Advance(Top.pc) <= 2 * 0 + Advance(calls[Len(calls)].pc) + Owed(stack)
  BY <1>2, <1>3, <1>4
<1> QED BY <1>1, <1>5, NodeSpent DEF Ordinary

LEMMA BodyThrift ==
  ASSUME Ordinary, NEW pc, pc \notin Operations \cup Advances, NEW ends, NEW depth \in Nat,
         NEW after, Owed(after) = Owed(stack), Body(pc, ends, depth, after)
  PROVE  Thrifty
<1>0. Top.pc = pc
  BY DEF Body
<1>1. CASE Go(1, after)
  BY <1>0, <1>1, OrdinaryForms
<1>2. CASE NextInstr(depth, pc)
  BY <1>0, <1>2, NextInstrThrift
<1> QED BY <1>1, <1>2 DEF Body

LEMMA CondBlockThrift == ASSUME TypeInv, UNCHANGED tokens, CondBlock PROVE Thrifty \/ Ends
<1>0. Ordinary /\ Depth \in Nat /\ Depth + 1 \in Nat
  BY DepthBelow DEF Ordinary, CondBlock, Body, Operations
<1>1. CASE Crash
  BY <1>1 DEF Crash, Ends
<1>2. CASE Go(1, Then("in block"))
  <2>1. Owed(Then("in block")) = Owed(stack)
    BY <1>0, OrdinaryCalls DEF Operations
  <2>2. 1 \in Nat /\ 1 >= 1
    OBVIOUS
  <2> QED BY <1>0, <1>2, <2>1, <2>2, OrdinaryForms, Zenon
<1>3. CASE /\ Top.pc = "block" /\ Push(Instr)
           /\ Move(0, Instead(parse_instr(Depth + 1, Full(Instr))), Full(Instr), <<>>, {})
  <2>1. PICK calls : /\ calls = Instead(parse_instr(Depth + 1, Full(Instr)))
                     /\ Push(Instr) /\ Move(0, calls, Full(Instr), <<>>, {})
    BY <1>3
  <2>2. Owed(calls) = Owed(stack) /\ Owed(stack) \in Nat
    BY <1>0, <2>1, OrdinaryStacks, FreeCalls
  <2>3. Advance(calls[Len(calls)].pc) = 2
    <3>1. calls[Len(calls)].pc = "instr"
      BY <1>0, <2>1, BelowOK, LastCalls DEF Instead
    <3> QED BY <3>1 DEF Advance
  <2>4. Advance(Top.pc) = 1
    BY <1>3 DEF Advance
  <2>5. 1 + Owed(calls) + Advance(Top.pc) <= 2 * 0 + Advance(calls[Len(calls)].pc) + Owed(stack)
    BY <2>2, <2>3, <2>4
  <2> QED BY <2>1, <2>5, NodeSpent
<1>4. CASE Body("in block", {"}", "END"}, Depth + 1, Return)
  <2>1. Owed(Return) = Owed(stack) /\ "in block" \notin Operations \cup Advances
    BY <1>0, OrdinaryCalls DEF Operations, Advances
  <2> QED BY <1>0, <1>4, <2>1, BodyThrift
<1> QED BY <1>1, <1>2, <1>3, <1>4 DEF CondBlock

LEMMA IfThrift == ASSUME TypeInv, UNCHANGED tokens, parse_if \/ Else PROVE Thrifty \/ Ends
<1>0. Ordinary /\ Top.pc \notin Advances
  BY DEF Ordinary, parse_if, Else, Operations, Advances
<1>1. CASE parse_if
  BY <1>0, <1>1, OrdinaryForms, OrdinaryCalls DEF parse_if, Operations
<1>2. CASE Emit("elif", 1, CallThen(parse_cond_block(FALSE) \o parse_rel, "arm"))
  BY <1>0, <1>2, OrdinaryForms, OrdinaryCalls DEF Operations
<1>3. ASSUME NEW lines, Push(Block),
             Move(0, Instead(parse_cond_block(Full(Block))), Full(Block), lines, {})
      PROVE  Thrifty
  <2>1. PICK calls : /\ calls = Instead(parse_cond_block(Full(Block)))
                     /\ Push(Block) /\ Move(0, calls, Full(Block), lines, {})
    BY <1>3
  <2>2. Owed(calls) = Owed(stack) /\ Owed(stack) \in Nat
    BY <1>0, <2>1, OrdinaryStacks, FreeCalls
  <2>3. Advance(calls[Len(calls)].pc) = 1
    <3>1. calls[Len(calls)].pc = "block"
      BY <1>0, <2>1, BelowOK, LastCalls DEF Instead
    <3> QED BY <3>1 DEF Advance
  <2>4. Advance(Top.pc) = 0
    BY <1>0, AdvanceIsNat
  <2>5. 1 + Owed(calls) + Advance(Top.pc) <= 2 * 0 + Advance(calls[Len(calls)].pc) + Owed(stack)
    BY <2>2, <2>3, <2>4
  <2> QED BY <2>1, <2>5, NodeSpent
<1> QED BY <1>1, <1>2, <1>3 DEF Else

LEMMA WastedNodeThrift ==
  ASSUME Ordinary, Top.pc \notin Advances, NEW n \in Nat, NEW lines, NEW pc, pc \notin Operations,
         WastedNode(n, lines, pc)
  PROVE  Thrifty
<1>1. PICK calls : /\ calls = CallThen(parse_expr, pc)
                   /\ Push(Expr) /\ Move(n, calls, Full(Expr), lines, {})
  BY DEF WastedNode
<1>2. Owed(calls) = Owed(stack) /\ Owed(stack) \in Nat
  BY <1>1, OrdinaryStacks, FreeCalls DEF Ordinary
<1>3. Advance(calls[Len(calls)].pc) = 1
  <2>1. Calls(Append(Below, At(pc, Top.arg)))
    BY BelowOK, AtIsCall, OneMore DEF Ordinary
  <2>2. calls[Len(calls)].pc = "factor"
    BY <1>1, <2>1, LastCalls DEF Ordinary, CallThen
  <2> QED BY <2>2 DEF Advance
<1>4. Advance(Top.pc) = 0
  BY AdvanceIsNat
<1>5. 1 + Owed(calls) + Advance(Top.pc) <= 2 * n + Advance(calls[Len(calls)].pc) + Owed(stack)
  BY <1>2, <1>3, <1>4
<1> QED BY <1>1, <1>5, NodeSpent DEF Ordinary

LEMMA MatchThrift == ASSUME TypeInv, UNCHANGED tokens, parse_match PROVE Thrifty \/ Ends
<1>0. Ordinary /\ Top.pc \notin Advances
  BY DEF Ordinary, parse_match, Operations, Advances
<1>1. \A n \in Nat : \A lines : \A pc \in {"first value", "value", "=>"} :
        WastedNode(n, lines, pc) => Thrifty
  BY <1>0, WastedNodeThrift DEF Operations
<1> QED BY <1>0, <1>1, OrdinaryForms, OrdinaryCalls DEF parse_match, Operations

LEMMA LoopThrift == ASSUME TypeInv, UNCHANGED tokens, parse_loop PROVE Thrifty \/ Ends
<1>0. Ordinary /\ Top.pc \notin Advances /\ Depth \in Nat /\ Depth + 1 \in Nat
  BY DepthBelow DEF Ordinary, parse_loop, Body, Operations, Advances
<1>1. \A n \in Nat : \A lines : \A pc \in {"from", "open"} : WastedNode(n, lines, pc) => Thrifty
  BY <1>0, WastedNodeThrift DEF Operations
<1> DEFINE body == Body("in loop", {"}"}, Depth + 1, IF Top.arg = "dowhile" THEN Then("until") ELSE Return)
<1>2. CASE body
  <2>1. Owed(IF Top.arg = "dowhile" THEN Then("until") ELSE Return) = Owed(stack)
    BY <1>0, OrdinaryCalls DEF Operations
  <2>2. "in loop" \notin Operations \cup Advances
    BY DEF Operations, Advances
  <2> QED BY <1>0, <1>2, <2>1, <2>2, BodyThrift
<1> HIDE DEF body
<1>3. CASE ~body
  BY <1>0, <1>1, <1>3, OrdinaryForms, OrdinaryCalls DEF parse_loop, Operations, body
<1> QED BY <1>2, <1>3

LEMMA FunctionThrift ==
  ASSUME TypeInv, UNCHANGED tokens, Parameters \/ ReturnTypes \/ FunctionBody
  PROVE  Thrifty \/ Ends
<1>0. Ordinary /\ Top.pc \notin Advances /\ Depth \in Nat /\ Depth + 1 \in Nat
  BY DepthBelow
     DEF Ordinary, Parameters, ReturnTypes, FunctionBody, Body, Operations, Advances
<1>1. ASSUME NEW pc, pc \notin Operations, NEW passed, Move(2, Then(pc), FALSE, <<>>, passed), NoNode
      PROVE  Thrifty
  <2>1. Owed(Then(pc)) = Owed(stack)
    BY <1>0, <1>1, OrdinaryCalls
  <2> QED BY <1>0, <1>1, <2>1, NoNodeSpent DEF Ordinary
<1>2. CASE Parameters
  BY <1>0, <1>1, <1>2, OrdinaryForms, OrdinaryCalls DEF Parameters, Operations
<1>3. CASE ReturnTypes
  BY <1>0, <1>1, <1>3, OrdinaryForms, OrdinaryCalls DEF ReturnTypes, Operations
<1>4. CASE FunctionBody
  <2>1. CASE Body("in fn", {"}", "END"}, Depth + 1, Return)
    <3>1. Owed(Return) = Owed(stack) /\ "in fn" \notin Operations \cup Advances
      BY <1>0, OrdinaryCalls DEF Operations, Advances
    <3> QED BY <1>0, <2>1, <3>1, BodyThrift
  <2>2. CASE ~Body("in fn", {"}", "END"}, Depth + 1, Return)
    BY <1>0, <1>4, <2>2, OrdinaryForms, OrdinaryCalls DEF FunctionBody, Operations
  <2> QED BY <2>1, <2>2
<1> QED BY <1>2, <1>3, <1>4

\* The first token of an instruction pays back what it had in advance.
LEMMA InstructionThrift == ASSUME TypeInv, UNCHANGED tokens, Instruction PROVE Thrifty \/ Ends
<1>0. Ordinary /\ Advance(Top.pc) = 2 /\ 1 \in Nat /\ 1 >= 1
  BY DEF Ordinary, Instruction, Operations, Advance
<1> DEFINE go == Append(Below, At(Point(Tok), Tok))
<1>1. CASE Exit \/ Crash
  BY <1>0, <1>1, OrdinaryForms
<1>2. CASE Emit(Tok, 1, Return)
  <2>1. Owed(Return) = Owed(stack)
    BY <1>0, OrdinaryCalls
  <2> QED BY <1>0, <1>2, <2>1, OrdinaryForms, Zenon
<1>3. ASSUME Tok \in {"type", "id", "ptr", "goto", "return", "fn"} \cup Tree!Loops
      PROVE  Owed(go) = Owed(stack)
  <2>1. Point(Tok) \notin Operations
    BY <1>3 DEF Point, Operations, Tree!Loops
  <2> QED BY <1>0, <2>1, OrdinaryStacks
<1>4. ASSUME NEW kind, Emit(kind, 1, go),
             Tok \in {"type", "id", "ptr", "goto", "return"} \cup Tree!Loops
      PROVE  Thrifty
  <2>1. Owed(go) = Owed(stack)
    BY <1>3, <1>4
  <2> HIDE DEF go
  <2> QED BY <1>0, <1>4, <2>1, OrdinaryForms, Zenon
<1>5. CASE Tok = "fn" /\ Go(1, go)
  <2>1. Owed(go) = Owed(stack)
    BY <1>3, <1>5
  <2> HIDE DEF go
  <2> QED BY <1>0, <1>5, <2>1, OrdinaryForms, Zenon
<1>6. CASE Emit("if", 1, Instead(<<Call("if", Depth, FALSE)>> \o parse_rel))
  <2>1. Owed(Instead(<<Call("if", Depth, FALSE)>> \o parse_rel)) = Owed(stack)
    BY <1>0, OrdinaryCalls
  <2> QED BY <1>0, <1>6, <2>1, OrdinaryForms, Zenon
<1>7. ASSUME NEW lines, Push(Expr),
             Move(1, Instead(<<Call("match", Depth, FALSE)>> \o parse_expr), Full(Expr), lines, {})
      PROVE  Thrifty
  <2>1. PICK calls : /\ calls = Instead(<<Call("match", Depth, FALSE)>> \o parse_expr)
                     /\ Push(Expr) /\ Move(1, calls, Full(Expr), lines, {})
    BY <1>7
  <2>2. Owed(calls) = Owed(stack) /\ Owed(stack) \in Nat
    BY <1>0, <2>1, OrdinaryStacks, FreeCalls
  <2>3. Advance(calls[Len(calls)].pc) = 1
    <3>1. calls[Len(calls)].pc = "factor"
      BY <1>0, <2>1, LastCalls
    <3> QED BY <3>1 DEF Advance
  <2>4. 1 + Owed(calls) + Advance(Top.pc) <= 2 * 1 + Advance(calls[Len(calls)].pc) + Owed(stack)
    BY <1>0, <2>2, <2>3
  <2> QED BY <2>1, <2>4, NodeSpent
<1> HIDE DEF go
<1> QED BY <1>1, <1>2, <1>4, <1>5, <1>6, <1>7 DEF Instruction, Unexpected, go

LEMMA ProgramThrift ==
  ASSUME TypeInv, UNCHANGED tokens, Program PROVE Thrifty \/ Ends \/ Finishes
<1>0. Ordinary /\ Top.pc \notin Advances /\ "program" \notin Operations
  BY DEF Ordinary, Program, Operations, Advances
<1>1. CASE NextInstr(0, "program")
  BY <1>0, <1>1, NextInstrThrift
<1>2. CASE Exit
  BY <1>2 DEF Exit, Ends
<1> QED BY <1>1, <1>2 DEF Program, Finishes

LEMMA ThriftySteps == ASSUME TypeInv, Parse PROVE Thrifty \/ UNCHANGED <<index, stack, arena>>
<1>0. UNCHANGED tokens
  BY DEF Parse
<1>1. CASE Exit
  BY <1>1 DEF Exit
<1>2. CASE Program
  BY <1>0, <1>2, ProgramThrift DEF Ends, Finishes
<1>3. CASE Step /\ ~Program
  BY <1>0, <1>3, FactorThrift, AfterIdentifierThrift, ClosingThrift, ArgumentThrift,
     ExpressionThrift, RelationThrift, DeclarationThrift, InitializeThrift, SimpleThrift,
     CondBlockThrift, IfThrift, MatchThrift, LoopThrift, FunctionThrift, InstructionThrift
     DEF Step, Ends
<1> QED BY <1>1, <1>2, <1>3 DEF Parse

----------------------------------------------------------------------------
(* The budget.                                                             *)

LEMMA BiggestOfSizes ==
  /\ Biggest \in Nat
  /\ \A size \in {Instr, Expr, Block} : size \in Nat /\ AlignUp(size) <= Biggest
  /\ \A n : Room(n) = (2 * n + 1) * Biggest
<1>1. Instr \in Nat /\ Expr \in Nat /\ Block \in Nat
  BY ParserAssumption
<1>2. AlignUp(Instr) \in Nat /\ AlignUp(Expr) \in Nat /\ AlignUp(Block) \in Nat
  BY <1>1, Alignment
<1>3. \A a, b, c \in Nat : \E x \in {a, b, c} : \A y \in {a, b, c} : x >= y
  BY ONLY TRUE
<1>4. \E x \in Sizes : \A y \in Sizes : x >= y
  BY <1>2, <1>3 DEF Sizes
<1>5. Biggest \in Sizes /\ \A y \in Sizes : Biggest >= y
  BY <1>4 DEF Biggest, Max
<1>6. \A n : Room(n) = (2 * n + 1) * Biggest
  BY DEF Room, Biggest, Sizes
<1> QED BY <1>1, <1>2, <1>5, <1>6 DEF Sizes

\* A node is at most the biggest, with the gap before it.
LEMMA NodeFits ==
  ASSUME NEW a, IsArena(a), NEW size \in {Instr, Expr, Block}
  PROVE  AlignUp(arena_push(a, size).pos) <= AlignUp(a.pos) + Biggest
<1>1. size \in Nat /\ AlignUp(size) <= Biggest /\ Biggest \in Nat
  BY BiggestOfSizes
<1>2. a.pos \in Nat
  BY DEF IsArena
<1>3. \A m, n \in Nat : AlignUp(AlignUp(m) + n) <= AlignUp(m) + AlignUp(n)
  BY Z3 DEF AlignUp, ARENA_ALIGN
<1>4. \A m \in Nat : AlignUp(m) \in Nat
  BY Alignment
<1>5. CASE HasRoom(a, size)
  <2>1. arena_push(a, size).pos = AlignUp(a.pos) + size
    BY <1>5 DEF arena_push
  <2>2. AlignUp(AlignUp(a.pos) + size) <= AlignUp(a.pos) + AlignUp(size)
    BY <1>1, <1>2, <1>3
  <2>3. AlignUp(a.pos) \in Nat /\ AlignUp(size) \in Nat
    BY <1>1, <1>2, <1>4
  <2>4. AlignUp(AlignUp(a.pos) + size) \in Nat
    BY <1>1, <1>4, <2>3
  <2> HIDE DEF AlignUp
  <2> QED BY <1>1, <2>1, <2>2, <2>3, <2>4
<1>6. CASE ~HasRoom(a, size)
  BY <1>1, <1>2, <1>4, <1>6 DEF arena_push
<1> QED BY <1>5, <1>6

\* The parser keeps to its budget.
LEMMA BudgetInit == Init => Budget
<1> SUFFICES ASSUME Init PROVE Budget
  OBVIOUS
<1>1. index = 0 /\ arena.pos = 0 /\ stack = <<Call("program", 0, FALSE)>>
  BY DEF Init, arena_init
<1>2. AlignUp(arena.pos) = 0
  BY <1>1, Z3 DEF AlignUp, ARENA_ALIGN
<1>3. Len(stack) = 1 /\ stack[1].pc = "program"
  BY <1>1 DEF Call
<1>4. Debtors(stack) = {}
  BY <1>3 DEF Debtors, Owing, Operations
<1>5. Owed(stack) = 0
  BY <1>4, FS_EmptySet DEF Owed
<1>6. Advance(Top.pc) \in 0..2
  BY AdvanceIsNat
<1>7. Nodes(0)
  BY <1>1, <1>2, <1>5, <1>6, BiggestOfSizes DEF Nodes
<1> QED BY <1>7 DEF Budget

LEMMA BudgetKept ==
  ASSUME TypeInv, Budget, UNCHANGED <<index, stack, arena>>,
         (~(Complete /\ Past))' => ~(Complete /\ Past)
  PROVE  Budget'
<1>1. \A n : Nodes(n) => Nodes(n)'
  BY DEF Nodes, Top
<1> QED BY <1>1 DEF Budget

LEMMA BudgetThrifty ==
  ASSUME TypeInv, TypeInv', UNCHANGED tokens, Budget, ~(Complete /\ Past), Thrifty
  PROVE  Budget'
<1> SUFFICES ASSUME (~(Complete /\ Past))' PROVE \E n \in Nat : Nodes(n)'
  BY DEF Budget
<1>1. PICK k \in {0, 1}, m \in Nat : Spends(k, m)
  BY DEF Thrifty
<1>2. PICK n \in Nat : Nodes(n)
  BY DEF Budget
<1>3. Biggest \in Nat /\ IsArena(arena) /\ index \in Nat /\ index' = index + m
  BY <1>1, BiggestOfSizes DEF TypeInv, Spends
<1>4. /\ Owed(stack) \in Nat /\ Owed(stack') \in Nat
      /\ Advance(Top.pc) \in 0..2 /\ Advance(Top'.pc) \in 0..2
  BY OwedIsNat, AdvanceIsNat DEF TypeInv, IsStack
<1>5. (n + k) + Owed(stack') <= 2 * (index + m) + Advance(Top'.pc)
  BY <1>1, <1>2, <1>3, <1>4 DEF Spends, Nodes
<1>6. AlignUp(arena'.pos) <= (n + k) * Biggest
  <2>1. AlignUp(arena.pos) \in Nat /\ AlignUp(arena.pos) <= n * Biggest
    BY <1>2, <1>3, Alignment DEF Nodes, IsArena
  <2>2. \A i, b \in Nat : i * b \in Nat /\ (i + 1) * b = i * b + b /\ (i + 0) * b = i * b
    BY ONLY Z3
  <2>3. n * Biggest \in Nat /\ (n + 1) * Biggest = n * Biggest + Biggest /\ (n + 0) * Biggest = n * Biggest
    BY <1>3, <2>2
  <2>4. CASE k = 0
    BY <1>1, <2>1, <2>3, <2>4 DEF Spends
  <2>5. CASE k = 1
    <3>1. PICK size \in {Instr, Expr, Block} : arena' = arena_push(arena, size)
      BY <1>1, <2>5 DEF Spends, Push
    <3>2. AlignUp(arena'.pos) <= AlignUp(arena.pos) + Biggest
      BY <1>3, <3>1, NodeFits
    <3>3. arena'.pos \in Nat
      BY DEF TypeInv, IsArena
    <3>4. AlignUp(arena'.pos) \in Nat
      BY <3>3, Alignment
    <3>5. (n + k) * Biggest = n * Biggest + Biggest
      BY <2>3, <2>5
    <3> QED BY <1>3, <2>1, <2>3, <3>2, <3>4, <3>5
  <2> QED BY <2>4, <2>5
<1>7. n + k \in Nat
  OBVIOUS
<1>8. Nodes(n + k)'
  BY <1>3, <1>5, <1>6 DEF Nodes
<1> QED BY <1>7, <1>8

BudgetInv == Inv /\ Budget

LEMMA BudgetSupply == BudgetInv /\ Supply => Budget'
<1> SUFFICES ASSUME BudgetInv, Supply PROVE Budget'
  OBVIOUS
<1>1. UNCHANGED <<index, stack, arena>> /\ ~Complete /\ TypeInv
  BY DEF Supply, BudgetInv, Inv
<1> QED BY <1>1, BudgetKept DEF BudgetInv

\* A run that goes on has not used up all of a complete source, or it stays
\* past its end.
LEMMA BudgetParse == BudgetInv /\ Parse => Budget'
<1> SUFFICES ASSUME BudgetInv, Parse PROVE Budget'
  OBVIOUS
<1>1. TypeInv /\ TypeInv' /\ UNCHANGED tokens
  BY ParseStep DEF BudgetInv, Inv, Parse
<1>2. Thrifty \/ UNCHANGED <<index, stack, arena>>
  BY <1>1, ThriftySteps
<1>3. CASE UNCHANGED <<index, stack, arena>>
  <2>1. (Complete /\ Past)' <=> (Complete /\ Past)
    BY <1>1, <1>3 DEF Complete, Past, Array
  <2> QED BY <1>1, <1>3, <2>1, BudgetKept DEF BudgetInv
<1>4. CASE Thrifty /\ ~(Complete /\ Past)
  BY <1>1, <1>4, BudgetThrifty DEF BudgetInv
<1>5. CASE Thrifty /\ Complete /\ Past
  <2>1. PICK m \in Nat : (~(Complete /\ Past))' => index' = index + m
    BY <1>5 DEF Thrifty, Spends
  <2>2. (Complete /\ Past)'
    <3> SUFFICES ASSUME (~(Complete /\ Past))' PROVE FALSE
      OBVIOUS
    <3>1. index' = index + m /\ index \in Nat /\ Len(tokens) \in Nat
      BY <1>1, <2>1 DEF TypeInv
    <3> QED BY <1>1, <1>5, <3>1 DEF Complete, Past, InRange, Count, Array
  <2> QED BY <2>2 DEF Budget
<1> QED BY <1>2, <1>3, <1>4, <1>5

\* With more to read the budget is that of the token the parser is at.
LEMMA BudgetIsUse == BudgetInv => ArenaUse
<1> SUFFICES ASSUME BudgetInv, index < Len(tokens) PROVE arena.pos <= Room(index + 1)
  BY DEF ArenaUse
<1>1. index \in Nat /\ Len(tokens) \in Nat /\ IsArena(arena) /\ Owed(stack) \in Nat
  BY OwedIsNat DEF BudgetInv, Inv, TypeInv, IsStack
<1>2. ~Past
  BY <1>1 DEF Past, InRange, Count, Array
<1>3. PICK n \in Nat : Nodes(n)
  BY <1>2 DEF BudgetInv, Budget
<1>4. Advance(Top.pc) \in 0..2
  BY AdvanceIsNat
<1>5. n <= 2 * (index + 1) + 1
  BY <1>1, <1>3, <1>4 DEF Nodes
<1>6. Biggest \in Nat /\ Room(index + 1) = (2 * (index + 1) + 1) * Biggest
  BY BiggestOfSizes
<1>7. \A i, j, b \in Nat : i <= j => i * b <= j * b /\ i * b \in Nat /\ j * b \in Nat
  BY ONLY Z3
<1>8. n * Biggest <= Room(index + 1) /\ n * Biggest \in Nat /\ Room(index + 1) \in Nat
  <2>1. 2 * (index + 1) + 1 \in Nat
    BY <1>1
  <2> QED BY <1>5, <1>6, <1>7, <2>1
<1>9. arena.pos \in Nat /\ arena.pos <= AlignUp(arena.pos) /\ AlignUp(arena.pos) \in Nat
  BY <1>1, Alignment DEF IsArena
<1> QED BY <1>3, <1>8, <1>9 DEF Nodes

LEMMA BudgetIdle == BudgetInv /\ UNCHANGED pvars => Budget'
<1> SUFFICES ASSUME BudgetInv, UNCHANGED pvars PROVE Budget'
  OBVIOUS
<1>1. UNCHANGED <<index, stack, arena, tokens>> /\ TypeInv
  BY DEF pvars, BudgetInv, Inv
<1>2. (Complete /\ Past)' <=> (Complete /\ Past)
  BY <1>1 DEF Complete, Past, Array
<1> QED BY <1>1, <1>2, BudgetKept DEF BudgetInv

\* The inductive invariant behind the use of the arena: the nodes made so far
\* are paid for by tokens, with what the calls in progress still owe.
THEOREM BudgetInvariance == Spec => []BudgetInv
<1>1. Init => BudgetInv
  BY InitInv, BudgetInit DEF BudgetInv
<1>2. BudgetInv /\ [Next]_pvars => BudgetInv'
  <2>1. BudgetInv /\ [Next]_pvars => Inv'
    BY SupplyStep, ParseStep, Idle DEF BudgetInv, Next, Finished
  <2> QED BY <2>1, BudgetSupply, BudgetParse, BudgetIdle DEF BudgetInv, Next, Finished
<1> QED BY <1>1, <1>2, PTL DEF Spec

\* As long as tokens are read, the arena of the tree is used up by tokens, at
\* most two nodes for each and one more, whatever the sizes of the nodes.
THEOREM ArenaTheorem == Spec => []ArenaUse
<1> QED BY BudgetInvariance, BudgetIsUse, PTL

----------------------------------------------------------------------------
(* Where the parser writes through NULL.                                   *)

\* As long as no error is counted, the calls in progress are those of nested
\* bodies, then those of one instruction, and then those of one expression.
\* The calls of the last kind, those that wait for a body, and those with no
\* token of their own yet:
ExprLevel == {"expr", "term", "factor", "after id", "index", "paren", "arguments", "comma", "operand", "rel"}
Parents == {"program", "arm", "case", "in block", "in loop", "in fn"}
Fresh == {"rel", "if", "block", "instr", "factor", "goto"}

\* An arm whose block begins with a token else, at which the run ends.
ElseArm(c) == c.pc = "arm" /\ c.token = "else"

Sound(s) ==
  /\ \A j \in 1..Len(s) : s[j].pc \notin ExprLevel => \A i \in 1..(j - 1) : s[i].pc \in Parents
  /\ \A j \in 2..Len(s) : s[j].pc = "rel" => s[j - 1].pc \in Parents \cup {"if", "open", "block"}
  /\ \A j \in 1..Len(s) : s[j].pc \in Fresh => s[j].token = Zero
Firm(s) == Sound(s) /\ \A i \in 1..Len(s) : s[i].pc # "operand" /\ ~ElseArm(s[i])

\* The calls with n tokens taken: an operand stands where a relation begins,
\* or behind its operator.
ShapeAt(s, n) ==
  /\ Sound(s)
  /\ \A i \in 1..(Len(s) - 1) : s[i].pc # "operand"
  /\ \A i \in 1..Len(s) : ElseArm(s[i]) =>
       i = Len(s) - 1 /\ s[Len(s)].pc \in {"block", "instr"} /\ n < Len(tokens) /\ tokens[n + 1] = "else"
  /\ s[Len(s)].pc = "operand" =>
       \/ /\ s[Len(s) - 1].pc = "rel"
          /\ s[Len(s) - 2].pc = "open" => n < Len(tokens) /\ s[Len(s) - 2].token = tokens[n + 1]
       \/ n \in 1..Len(tokens) /\ tokens[n] = "rel"
Shape == ShapeAt(stack, index)

\* No call was made for a node that is NULL.
Tame(s) == \A i \in 1..Len(s) : s[i].pc \in {"instr", "block"} => ~s[i].arg

\* Past the end of a source without an unclosed bracket: the calls that are
\* left return one after another, or come to an END with an error counted, or
\* to a token zero that is no operand, or are a list of types without an end.
Arms(s, n) == \A i \in 1..n : s[i].pc \in {"program", "arm"} /\ ~ElseArm(s[i])
Back(n) == Arms(stack, n)
Doomed ==
  LET n == Len(stack) IN
  \/ Back(n)
  \/ /\ Back(n - 1) /\ Top.token = Zero
     /\ \/ Top.pc \in {"goto", "rel"}
        \/ Top.pc = "instr" /\ ~Top.arg
        \/ Top.pc = "if" /\ ~Full(Instr)
        \/ Top.pc = "block" /\ ~Top.arg /\ ~Full(Instr)
  \/ /\ Back(n - 2) /\ Top.pc = "rel" /\ Top.token = Zero /\ ~Full(Instr)
     /\ stack[n - 1].token = Zero
     /\ stack[n - 1].pc = "if" \/ (stack[n - 1].pc = "block" /\ ~stack[n - 1].arg)
  \/ Top.pc = "rel" /\ Top.token = Zero /\ stack[n - 1].pc = "open" /\ stack[n - 1].token = "END"
  \/ Top.token = "END" /\ Top.pc \notin Operations
  \/ Top.pc = "factor" /\ Top.token = Zero
  \/ Top.pc = "more types" /\ Top.token = ","

\* Two tokens at once may be one more than there are.
Leapt ==
  ~Complete /\ index > Len(tokens) =>
    /\ index = Len(tokens) + 1 /\ Len(tokens) # 0
    /\ tokens[Len(tokens)] = "..." \/ (Top.pc = "more types" /\ Top.token = ",")

\* What becomes of a run that has room enough.
Expected ==
  /\ status = "crash" => (Top.pc = "instr" /\ Tok \in {"lit", "bad"}) \/ (Past /\ StopsInside)
  /\ status = "parsing" =>
       /\ Leapt
       /\ IF Complete /\ Past THEN StopsInside \/ Doomed ELSE Tame(stack)

CrashInv ==
  /\ BracketInv /\ Budget
  /\ Quiet => Shape
  /\ Enough => Expected

----------------------------------------------------------------------------
(* Calls on calls.                                                         *)

LEMMA JoinedTwice ==
  ASSUME NEW s, NEW t, NEW u, IsSequence(s), IsSequence(t), IsSequence(u)
  PROVE  s \o (t \o u) = (s \o t) \o u
<1>1. PICK A, B, C : s \in Seq(A) /\ t \in Seq(B) /\ u \in Seq(C)
  BY DEF IsSequence
<1>2. s \in Seq(A \cup B \cup C) /\ t \in Seq(A \cup B \cup C) /\ u \in Seq(A \cup B \cup C)
  BY <1>1
<1> QED BY <1>2

LEMMA JoinedCalls ==
  ASSUME NEW s, Calls(s)
  PROVE  /\ \A c : s \o <<c>> = Append(s, c)
         /\ \A c, d : s \o <<c, d>> = Append(Append(s, c), d)
<1>1. PICK A : s \in Seq(A)
  BY DEF Calls, IsSequence
<1>2. ASSUME NEW c PROVE s \o <<c>> = Append(s, c)
  <2>1. s \in Seq(A \cup {c}) /\ <<c>> \in Seq(A \cup {c})
    BY <1>1
  <2> QED BY <2>1
<1>3. ASSUME NEW c, NEW d PROVE s \o <<c, d>> = Append(Append(s, c), d)
  <2>1. s \in Seq(A \cup {c, d}) /\ <<c, d>> \in Seq(A \cup {c, d})
    BY <1>1
  <2> QED BY <2>1
<1> QED BY <1>2, <1>3

LEMMA OneMoreIs ==
  ASSUME NEW s, Calls(s), NEW c
  PROVE  /\ Len(Append(s, c)) = Len(s) + 1 /\ Len(s) \in Nat
         /\ \A i \in 1..Len(s) : Append(s, c)[i] = s[i]
         /\ Append(s, c)[Len(s) + 1] = c
BY AppendSequence, SequenceLength DEF Calls

\* What a call on others must be.
Outer(s) == \A i \in 1..Len(s) : s[i].pc \in Parents
Stands(s, c) ==
  /\ c.pc \notin ExprLevel => Outer(s)
  /\ c.pc = "rel" => Len(s) # 0 /\ s[Len(s)].pc \in Parents \cup {"if", "open", "block"}
  /\ c.pc \in Fresh => c.token = Zero

LEMMA SoundOnTop ==
  ASSUME NEW s, Calls(s), Sound(s), NEW c, Stands(s, c)
  PROVE  Sound(Append(s, c))
<1>1. PICK t : t = Append(s, c)
  OBVIOUS
<1>2. /\ Len(t) = Len(s) + 1 /\ Len(s) \in Nat
      /\ \A i \in 1..Len(s) : t[i] = s[i]
      /\ t[Len(s) + 1] = c
  BY <1>1, OneMoreIs
<1>3. \A j \in 1..Len(t) : j \in 1..Len(s) \/ j = Len(s) + 1
  BY <1>2
<1>4. ASSUME NEW j \in 1..Len(t), t[j].pc \notin ExprLevel, NEW i \in 1..(j - 1)
      PROVE  t[i].pc \in Parents
  <2>1. i \in 1..Len(s)
    BY <1>2
  <2>2. CASE j \in 1..Len(s)
    BY <1>2, <1>4, <2>1, <2>2 DEF Sound
  <2>3. CASE j = Len(s) + 1
    BY <1>2, <1>4, <2>1, <2>3 DEF Stands, Outer
  <2> QED BY <1>3, <2>2, <2>3
<1>5. ASSUME NEW j \in 2..Len(t), t[j].pc = "rel"
      PROVE  t[j - 1].pc \in Parents \cup {"if", "open", "block"}
  <2>1. j - 1 \in 1..Len(s)
    BY <1>2
  <2>2. CASE j \in 1..Len(s)
    BY <1>2, <1>5, <2>1, <2>2 DEF Sound
  <2>3. CASE j = Len(s) + 1
    BY <1>2, <1>5, <2>1, <2>3 DEF Stands
  <2> QED BY <1>2, <2>2, <2>3
<1>6. ASSUME NEW j \in 1..Len(t), t[j].pc \in Fresh  PROVE t[j].token = Zero
  BY <1>2, <1>3, <1>6 DEF Sound, Stands
<1> QED BY <1>1, <1>4, <1>5, <1>6 DEF Sound

LEMMA FirmOnTop ==
  ASSUME NEW s, Calls(s), Firm(s), NEW c, Stands(s, c), c.pc # "operand", ~ElseArm(c)
  PROVE  Firm(Append(s, c))
<1>1. Sound(Append(s, c))
  BY SoundOnTop DEF Firm
<1>2. /\ Len(Append(s, c)) = Len(s) + 1 /\ Len(s) \in Nat
      /\ \A i \in 1..Len(s) : Append(s, c)[i] = s[i]
      /\ Append(s, c)[Len(s) + 1] = c
  BY OneMoreIs
<1>3. \A i \in 1..(Len(s) + 1) : i \in 1..Len(s) \/ i = Len(s) + 1
  BY <1>2
<1> QED BY <1>1, <1>2, <1>3 DEF Firm

\* Calls of an expression stand on any others.
Leaf(cs) == Calls(cs) /\ \A i \in 1..Len(cs) : cs[i].pc \in {"expr", "term", "factor"} /\ cs[i].token = Zero

LEMMA LeafOnTop ==
  ASSUME NEW s, Calls(s), Firm(s), NEW cs, Leaf(cs)
  PROVE  Firm(s \o cs)
<1>1. PICK t : t = s \o cs
  OBVIOUS
<1>2. /\ Len(t) = Len(s) + Len(cs) /\ Len(s) \in Nat /\ Len(cs) \in Nat
      /\ \A i \in 1..Len(s) : t[i] = s[i]
      /\ \A i \in 1..Len(cs) : t[Len(s) + i] = cs[i]
  BY <1>1, JoinedSequence, SequenceLength DEF Calls, Leaf
<1>3. ASSUME NEW j \in 1..Len(t), j \notin 1..Len(s)
      PROVE  t[j].pc \in {"expr", "term", "factor"} /\ t[j].token = Zero
  <2>1. PICK i \in 1..Len(cs) : j = Len(s) + i
    <3>1. j - Len(s) \in 1..Len(cs) /\ j = Len(s) + (j - Len(s))
      BY <1>2, <1>3
    <3> QED BY <3>1
  <2> QED BY <1>2, <2>1 DEF Leaf
<1>4. {"expr", "term", "factor"} \subseteq ExprLevel \ {"rel", "operand", "arm"}
  BY DEF ExprLevel
<1>5. ASSUME NEW j \in 1..Len(t), t[j].pc \notin ExprLevel, NEW i \in 1..(j - 1)
      PROVE  t[i].pc \in Parents
  <2>1. j \in 1..Len(s)
    BY <1>3, <1>4, <1>5
  <2>2. i \in 1..Len(s)
    BY <1>2, <2>1
  <2> QED BY <1>2, <1>5, <2>1, <2>2 DEF Firm, Sound
<1>6. ASSUME NEW j \in 2..Len(t), t[j].pc = "rel"
      PROVE  t[j - 1].pc \in Parents \cup {"if", "open", "block"}
  <2>1. j \in 1..Len(s)
    BY <1>2, <1>3, <1>4, <1>6
  <2>2. j - 1 \in 1..Len(s)
    BY <1>2, <2>1
  <2> QED BY <1>2, <1>6, <2>1, <2>2 DEF Firm, Sound
<1>7. ASSUME NEW j \in 1..Len(t)
      PROVE  (t[j].pc \in Fresh => t[j].token = Zero) /\ t[j].pc # "operand" /\ ~ElseArm(t[j])
  <2>1. CASE j \in 1..Len(s)
    BY <1>2, <2>1 DEF Firm, Sound
  <2>2. CASE j \notin 1..Len(s)
    BY <1>3, <1>4, <2>2 DEF ElseArm
  <2> QED BY <2>1, <2>2
<1> QED BY <1>1, <1>5, <1>6, <1>7 DEF Firm, Sound

LEMMA CallOf ==
  \A pc, depth, arg : LET c == Call(pc, depth, arg) IN c.pc = pc /\ c.token = Zero /\ c.arg = arg
BY DEF Call

LEMMA LeafCalls ==
  ASSUME TypeInv
  PROVE  /\ Leaf(parse_expr) /\ Leaf(<<Call("factor", Depth, FALSE)>>)
         /\ Leaf(<<Call("term", Depth, FALSE), Call("factor", Depth, FALSE)>>)
<1>1. ASSUME NEW cs, Calls(cs),
             \A i \in 1..Len(cs) : \E pc \in {"expr", "term", "factor"} : cs[i] = Call(pc, Depth, FALSE)
      PROVE  Leaf(cs)
  <2>1. ASSUME NEW i \in 1..Len(cs)
        PROVE  cs[i].pc \in {"expr", "term", "factor"} /\ cs[i].token = Zero
    <3>1. PICK pc \in {"expr", "term", "factor"} : cs[i] = Call(pc, Depth, FALSE)
      BY <1>1
    <3>2. Call(pc, Depth, FALSE).pc = pc /\ Call(pc, Depth, FALSE).token = Zero
      BY DEF Call
    <3> QED BY <3>1, <3>2
  <2> QED BY <1>1, <2>1 DEF Leaf
<1>2. Leaf(parse_expr)
  <2>1. /\ Len(parse_expr) = 3 /\ parse_expr[1] = Call("expr", Depth, FALSE)
        /\ parse_expr[2] = Call("term", Depth, FALSE) /\ parse_expr[3] = Call("factor", Depth, FALSE)
        /\ \A i \in 1..3 : i = 1 \/ i = 2 \/ i = 3
    BY DEF parse_expr
  <2> QED BY <1>1, <2>1, CallsMade
<1>3. Leaf(<<Call("factor", Depth, FALSE)>>)
  <2>1. PICK cs : cs = <<Call("factor", Depth, FALSE)>>
    OBVIOUS
  <2>2. Len(cs) = 1 /\ cs[1] = Call("factor", Depth, FALSE) /\ \A i \in 1..1 : i = 1
    BY <2>1
  <2> QED BY <1>1, <2>1, <2>2, CallsMade
<1>4. Leaf(<<Call("term", Depth, FALSE), Call("factor", Depth, FALSE)>>)
  <2>1. PICK cs : cs = <<Call("term", Depth, FALSE), Call("factor", Depth, FALSE)>>
    OBVIOUS
  <2>2. /\ Len(cs) = 2 /\ cs[1] = Call("term", Depth, FALSE) /\ cs[2] = Call("factor", Depth, FALSE)
        /\ \A i \in 1..2 : i = 1 \/ i = 2
    BY <2>1
  <2> QED BY <1>1, <2>1, <2>2, CallsMade
<1> QED BY <1>2, <1>3, <1>4

----------------------------------------------------------------------------
(* What a step without an error leaves of them.                            *)

Poised == TypeInv /\ Firm(Below) /\ (Top.pc \notin ExprLevel => Outer(Below))
Keeps(pc) == pc \notin Fresh \cup {"operand", "arm"} /\ (Top.pc \in ExprLevel => pc \in ExprLevel)

\* A call in place of the innermost, or on it, and those made then.
LEMMA FirmStacks ==
  ASSUME Poised
  PROVE  /\ Firm(Return)
         /\ \A pc, arg : Keeps(pc) => Firm(Append(Below, At(pc, arg)))
         /\ \A pc : Keeps(pc) => Firm(Then(pc))
         /\ \A pc, cs : Keeps(pc) /\ Leaf(cs) => Firm(CallThen(cs, pc))
         /\ \A cs : Leaf(cs) => Firm(Instead(cs))
         /\ \A pc \in Operations : \A arg, cs : Leaf(cs) => Firm(Append(Below, Call(pc, Depth, arg)) \o cs)
<1>1. Calls(Below) /\ Depth \in Nat
  BY BelowOK, AtIsCall DEF Poised
<1>2. \A pc, arg : At(pc, arg).pc = pc /\ Calls(Append(Below, At(pc, arg)))
  BY <1>1, AtIsCall, OneMore DEF Poised
<1>3. ASSUME NEW pc, NEW arg, Keeps(pc)  PROVE Firm(Append(Below, At(pc, arg)))
  <2>1. PICK c : c = At(pc, arg) /\ c.pc = pc
    BY <1>2
  <2>2. Stands(Below, c) /\ c.pc # "operand" /\ ~ElseArm(c)
    BY <1>3, <2>1 DEF Keeps, Stands, Poised, ElseArm, Fresh
  <2> QED BY <1>1, <2>1, <2>2, FirmOnTop DEF Poised
<1>4. \A pc, cs : Keeps(pc) /\ Leaf(cs) => Firm(CallThen(cs, pc))
  BY <1>2, <1>3, LeafOnTop DEF CallThen
<1>5. \A cs : Leaf(cs) => Firm(Instead(cs))
  BY <1>1, LeafOnTop DEF Poised, Instead
<1>6. ASSUME NEW pc \in Operations, NEW arg, NEW cs, Leaf(cs)
      PROVE  Firm(Append(Below, Call(pc, Depth, arg)) \o cs)
  <2>1. PICK c : c = Call(pc, Depth, arg) /\ c.pc = pc /\ IsCall(c)
    BY <1>1, CallIsCall DEF Call
  <2>2. Stands(Below, c) /\ c.pc # "operand" /\ ~ElseArm(c)
    BY <2>1 DEF Operations, Stands, ExprLevel, Fresh, ElseArm
  <2>3. Firm(Append(Below, c)) /\ Calls(Append(Below, c))
    BY <1>1, <2>1, <2>2, FirmOnTop, OneMore DEF Poised
  <2> QED BY <1>6, <2>1, <2>3, LeafOnTop
<1> QED BY <1>3, <1>4, <1>5, <1>6 DEF Return, Then, Poised

\* Calls that stand on nested bodies only.
Statements == {"block", "instr", "elements", "match"}

LEMMA FirmStatements ==
  ASSUME Poised, Top.pc \notin ExprLevel, NEW pc \in Statements, NEW depth \in Nat, NEW arg
  PROVE  /\ Firm(Instead(<<Call(pc, depth, arg)>>))
         /\ \A at \in Parents \ {"arm"} : Firm(CallThen(<<Call(pc, depth, arg)>>, at))
         /\ \A cs : Leaf(cs) => Firm(Instead(<<Call(pc, depth, arg)>> \o cs))
<1>1. Calls(Below) /\ TypeInv /\ Firm(Below) /\ Outer(Below)
  BY BelowOK DEF Poised
<1>2. PICK c : c = Call(pc, depth, arg) /\ IsCall(c) /\ c.pc = pc /\ c.token = Zero
  BY CallIsCall, CallOf
<1>3. c.pc # "operand" /\ c.pc # "rel" /\ ~ElseArm(c)
  BY <1>2 DEF Statements, ElseArm
<1>4. ASSUME NEW s, Calls(s), Firm(s), Outer(s)  PROVE Firm(s \o <<c>>) /\ Calls(s \o <<c>>)
  <2>1. Stands(s, c)
    BY <1>2, <1>3, <1>4 DEF Stands
  <2>2. s \o <<c>> = Append(s, c)
    BY <1>4, JoinedCalls
  <2> QED BY <1>2, <1>3, <1>4, <2>1, <2>2, FirmOnTop, OneMore
<1>5. ASSUME NEW at \in Parents \ {"arm"}  PROVE Firm(CallThen(<<c>>, at))
  <2>1. PICK s : s = Append(Below, At(at, Top.arg))
    OBVIOUS
  <2>2. Keeps(at)
    BY DEF Keeps, Parents, Fresh
  <2>3. Firm(s) /\ Calls(s)
    BY <1>1, <2>1, <2>2, FirmStacks, AtIsCall, OneMore
  <2>4. Outer(s)
    <3>1. /\ Len(s) = Len(Below) + 1 /\ Len(Below) \in Nat
          /\ \A i \in 1..Len(Below) : s[i] = Below[i]
          /\ s[Len(Below) + 1] = At(at, Top.arg)
      BY <1>1, <2>1, AppendSequence, SequenceLength DEF Calls
    <3>2. \A i \in 1..Len(s) : i \in 1..Len(Below) \/ i = Len(Below) + 1
      BY <3>1
    <3>3. At(at, Top.arg).pc \in Parents
      BY <1>1, AtIsCall
    <3> QED BY <1>1, <3>1, <3>2, <3>3 DEF Outer
  <2> QED BY <1>4, <2>1, <2>3, <2>4 DEF CallThen
<1>6. ASSUME NEW cs, Leaf(cs)  PROVE Firm(Instead(<<c>> \o cs))
  <2>1. PICK u : u = <<c>> /\ Calls(u)
    BY <1>2, OneCall
  <2>2. Below \o (u \o cs) = (Below \o u) \o cs
    BY <1>1, <1>6, <2>1, JoinedTwice DEF Calls, Leaf
  <2>3. Firm(Below \o u) /\ Calls(Below \o u)
    BY <1>1, <1>4, <2>1
  <2> QED BY <1>6, <2>1, <2>2, <2>3, LeafOnTop DEF Instead
<1> QED BY <1>1, <1>2, <1>4, <1>5, <1>6 DEF Instead

\* A relation, where one begins.
LEMMA RelationShape ==
  ASSUME TypeInv, NEW s, Calls(s), Firm(s), Len(s) # 0, NEW n,
         s[Len(s)].pc \in Parents \cup {"if", "open", "block"},
         s[Len(s)].pc = "open" => n < Len(tokens) /\ s[Len(s)].token = tokens[n + 1]
  PROVE  ShapeAt(s \o parse_rel, n)
<1>1. PICK r : r = Call("rel", Depth, FALSE) /\ IsCall(r) /\ r.pc = "rel" /\ r.token = Zero
  <2>1. LET c == Call("rel", Depth, FALSE) IN c.pc = "rel" /\ c.token = Zero
    BY DEF Call
  <2> QED BY <2>1, CallIsCall, DepthBelow, Zenon
<1>2. PICK o : o = Call("operand", Depth, FALSE) /\ IsCall(o) /\ o.pc = "operand" /\ o.token = Zero
  <2>1. LET c == Call("operand", Depth, FALSE) IN c.pc = "operand" /\ c.token = Zero
    BY DEF Call
  <2> QED BY <2>1, CallIsCall, DepthBelow, Zenon
<1>3. PICK t : t = Append(s, r) /\ Calls(t) /\ Firm(t)
  <2>1. Stands(s, r) /\ r.pc # "operand" /\ ~ElseArm(r)
    BY <1>1 DEF Stands, ExprLevel, ElseArm
  <2> QED BY <1>1, <2>1, FirmOnTop, OneMore
<1>4. PICK u : u = Append(t, o)
  OBVIOUS
<1>5. Sound(u)
  <2>1. Stands(t, o)
    BY <1>2 DEF Stands, ExprLevel, Fresh
  <2> QED BY <1>3, <1>4, <2>1, SoundOnTop DEF Firm
<1>6. s \o parse_rel = u
  <2>1. parse_rel = <<r, o>>
    BY <1>1, <1>2 DEF parse_rel
  <2>2. s \o <<r, o>> = Append(Append(s, r), o)
    BY JoinedCalls
  <2> QED BY <1>3, <1>4, <2>1, <2>2
<1>7. /\ Len(t) = Len(s) + 1 /\ Len(u) = Len(t) + 1 /\ Len(s) \in Nat \ {0}
      /\ t[Len(s)] = s[Len(s)] /\ t[Len(s) + 1] = r
      /\ \A i \in 1..Len(t) : u[i] = t[i]
      /\ u[Len(t) + 1] = o
  <2>1. /\ Len(t) = Len(s) + 1 /\ Len(s) \in Nat \ {0}
        /\ \A i \in 1..Len(s) : t[i] = s[i]
        /\ t[Len(s) + 1] = r
    BY <1>3, AppendSequence, SequenceLength DEF Calls
  <2>2. /\ Len(u) = Len(t) + 1
        /\ \A i \in 1..Len(t) : u[i] = t[i]
        /\ u[Len(t) + 1] = o
    BY <1>3, <1>4, AppendSequence, SequenceLength DEF Calls
  <2> QED BY <2>1, <2>2
<1>8. \A i \in 1..(Len(u) - 1) : u[i].pc # "operand" /\ ~ElseArm(u[i])
  BY <1>3, <1>7 DEF Firm
<1>9. ~ElseArm(u[Len(u)])
  BY <1>2, <1>7 DEF ElseArm
<1>10. \A i \in 1..Len(u) : ~ElseArm(u[i])
  <2>1. \A i \in 1..Len(u) : i \in 1..(Len(u) - 1) \/ i = Len(u)
    BY <1>7
  <2> QED BY <1>8, <1>9, <2>1
<1>11. u[Len(u) - 1] = r /\ u[Len(u) - 2] = s[Len(s)]
  <2>1. Len(u) - 1 = Len(s) + 1 /\ Len(u) - 2 = Len(s) /\ Len(s) \in 1..Len(t) /\ Len(s) + 1 \in 1..Len(t)
    BY <1>7
  <2> QED BY <1>7, <2>1
<1> QED BY <1>1, <1>5, <1>6, <1>8, <1>10, <1>11 DEF ShapeAt

LEMMA FirmShape ==
  ASSUME NEW s, Calls(s), Len(s) # 0, Firm(s), NEW n
  PROVE  ShapeAt(s, n)
<1>1. Len(s) \in Nat
  BY SequenceLength DEF Calls
<1>2. Len(s) \in 1..Len(s) /\ \A i \in 1..(Len(s) - 1) : i \in 1..Len(s)
  BY <1>1
<1> QED BY <1>2 DEF Firm, ShapeAt

LEMMA ShapeThen ==
  ASSUME UNCHANGED tokens, NEW s, stack' = s, NEW n, index' = n, ShapeAt(s, n)
  PROVE  Shape'
BY DEF Shape, ShapeAt

\* Calls as they always may be leave the shape, however many tokens are taken.
LEMMA FirmForms ==
  ASSUME Calm, IsStack(stack'), NEW s, Firm(s)
  PROVE  /\ \A n, err, lines, passed : Move(n, s, err, lines, passed) => Shape'
         /\ \A n : Go(n, s) => Shape'
         /\ \A n : ~Complain(n, s)
         /\ \A kind, n : Emit(kind, n, s) => Shape'
         /\ \A kind : TakeFor(kind, s) => Shape'
         /\ \A kind : Expect(kind, s) => Shape'
         /\ \A kind : Require(kind, s) => Shape'
<1>1. ASSUME stack' = s  PROVE Shape'
  <2>1. ShapeAt(s, index')
    BY <1>1, FirmShape DEF IsStack
  <2> QED BY <1>1, <2>1, ShapeThen DEF Calm
<1>2. \A n, err, lines, passed : Move(n, s, err, lines, passed) => Shape'
  BY <1>1 DEF Move
<1>3. \A n : Go(n, s) => Shape'
  BY <1>2 DEF Go
<1>4. \A n : ~Complain(n, s)
  BY CalmStep DEF Complain
<1>5. \A kind, n : Emit(kind, n, s) => Shape'
  BY <1>2 DEF Emit
<1>6. \A kind : TakeFor(kind, s) => Shape'
  BY <1>2 DEF TakeFor
<1>7. \A kind : Expect(kind, s) => Shape'
  BY <1>3, <1>4 DEF Expect
<1>8. \A kind : Require(kind, s) => Shape'
  BY <1>3, CalmStep DEF Require
<1> QED BY <1>2, <1>3, <1>4, <1>5, <1>6, <1>7, <1>8

----------------------------------------------------------------------------
(* The actions, by the calls they leave.                                   *)

LEMMA BelowIs ==
  ASSUME TypeInv
  PROVE  /\ Calls(Below) /\ Len(Below) = Len(stack) - 1 /\ Len(stack) \in Nat \ {0}
         /\ \A i \in 1..(Len(stack) - 1) : Below[i] = stack[i]
<1>1. Calls(Below) /\ IsSequence(stack) /\ Len(stack) \in Nat \ {0}
  BY BelowOK, TopIsCall DEF TypeInv, IsStack, Calls
<1>2. Len(stack) - 1 \in Nat /\ Len(stack) - 1 <= Len(stack)
  BY <1>1
<1> QED BY <1>1, <1>2, FrontSequence DEF Below

LEMMA TokIsNext ==
  ASSUME TypeInv, ~Past
  PROVE  index < Len(tokens) /\ Tok = tokens[index + 1] /\ index \in Nat /\ Len(tokens) \in Nat
BY DEF Past, Tok, dynamic_array_get, InRange, Count, Array, TypeInv

LEMMA Poises ==
  ASSUME TypeInv, Shape, ~Past, Tok # "else" \/ Top.pc \notin {"block", "instr"}
  PROVE  Poised
<1>1. PICK s, n : s = stack /\ n = Len(s) - 1 /\ ShapeAt(s, index)
  BY DEF Shape
<1>2. /\ n \in Nat /\ Len(s) = n + 1 /\ Len(Below) = n
      /\ \A i \in 1..n : Below[i] = s[i]
      /\ Top = s[n + 1]
  BY <1>1, BelowIs DEF Top
<1>3. Sound(s) /\ \A i \in 1..n : s[i].pc # "operand"
  BY <1>1 DEF ShapeAt
<1>4. \A i \in 1..n : ~ElseArm(s[i])
  BY <1>1, <1>2, TokIsNext DEF ShapeAt
<1>5. Sound(Below)
  BY <1>2, <1>3 DEF Sound
<1>6. Firm(Below)
  BY <1>2, <1>3, <1>4, <1>5 DEF Firm
<1>7. Top.pc \notin ExprLevel => Outer(Below)
  BY <1>2, <1>3 DEF Sound, Outer
<1> QED BY <1>6, <1>7 DEF Poised

Calmly == Calm /\ Poised /\ IsStack(stack')

\* The points that an innermost call may come to.
LEMMA KeepsPoints ==
  /\ \A pc \in {"after id", "index", "paren", "arguments", "comma"} : Keeps(pc)
  /\ Top.pc \notin ExprLevel =>
       /\ \A pc \in {"size", "sized", "array", "element", "element end", "subscript", "subscript =", "return",
                    "returned", "in block", "else", "case", "=>", "first value", "value"} : Keeps(pc)
       /\ \A pc \in {"in", "from", "open", "in loop", "until", "fn (", "parameter", "name or pointer", "name"} : Keeps(pc)
       /\ \A pc \in {"parameter end", "signature", "type", "more types", "body", "in fn", "declare", "assign",
                    "for", "while", "fn", "program"} : Keeps(pc)
<1>1. \A pc \in {"after id", "index", "paren", "arguments", "comma"} : Keeps(pc)
  BY DEF Keeps, Fresh, ExprLevel
<1>2. Top.pc \notin ExprLevel => \A pc : pc \notin Fresh \cup {"operand", "arm"} => Keeps(pc)
  BY DEF Keeps
<1>3. \A pc \in {"size", "sized", "array", "element", "element end", "subscript", "subscript =", "return",
                  "returned", "in block", "else", "case", "=>", "first value", "value"} :
        pc \notin Fresh \cup {"operand", "arm"}
  BY DEF Fresh
<1>4. \A pc \in {"in", "from", "open", "in loop", "until", "fn (", "parameter", "name or pointer", "name"} :
        pc \notin Fresh \cup {"operand", "arm"}
  BY DEF Fresh
<1>5. \A pc \in {"parameter end", "signature", "type", "more types", "body", "in fn", "declare", "assign",
                  "for", "while", "fn", "program"} :
        pc \notin Fresh \cup {"operand", "arm"}
  BY DEF Fresh
<1>6. Top.pc \notin ExprLevel => \A pc \in {"size", "sized", "array", "element", "element end", "subscript", "subscript =", "return",
                  "returned", "in block", "else", "case", "=>", "first value", "value"} : Keeps(pc)
  BY ONLY <1>2, <1>3, Zenon
<1>7. Top.pc \notin ExprLevel => \A pc \in {"in", "from", "open", "in loop", "until", "fn (", "parameter", "name or pointer", "name"} : Keeps(pc)
  BY ONLY <1>2, <1>4, Zenon
<1>8. Top.pc \notin ExprLevel => \A pc \in {"parameter end", "signature", "type", "more types", "body", "in fn", "declare", "assign",
                  "for", "while", "fn", "program"} : Keeps(pc)
  BY ONLY <1>2, <1>5, Zenon
<1> QED BY ONLY <1>1, <1>6, <1>7, <1>8, Zenon

LEMMA FactorShape == ASSUME Calmly, Factor PROVE Shape'
<1>0. Calm /\ IsStack(stack') /\ Poised /\ TypeInv
  BY DEF Calmly, Poised
<1>1. Firm(Then("after id")) /\ Firm(Return) /\ Firm(CallThen(parse_expr, "paren"))
  BY <1>0, FirmStacks, KeepsPoints, LeafCalls
<1>2. CASE Tok \in {"lit", "ptr", "id"}
  <2>1. PICK s : s = (IF Tok = "id" THEN Then("after id") ELSE Return) /\ Firm(s)
    BY <1>1
  <2>2. Move(1, s, FALSE, <<>>, {})
    BY <1>0, <1>2, <2>1, CalmStep DEF Factor
  <2> QED BY <1>0, <2>1, <2>2, FirmForms
<1>3. CASE Tok \notin {"lit", "ptr", "id"}
  <2>1. Go(1, CallThen(parse_expr, "paren"))
    BY <1>0, <1>3, CalmStep DEF Factor
  <2> QED BY <1>0, <1>1, <2>1, FirmForms
<1> QED BY <1>2, <1>3

LEMMA AfterIdentifierShape ==
  ASSUME Calmly, AfterIdentifier \/ CloseIndex \/ CloseParen \/ Arguments \/ ArgumentComma
  PROVE  Shape'
<1>0. Calm /\ IsStack(stack') /\ Poised /\ TypeInv
  BY DEF Calmly, Poised
<1>1. /\ Firm(CallThen(parse_expr, "index")) /\ Firm(Then("arguments")) /\ Firm(Return)
      /\ Firm(CallThen(parse_expr, "comma"))
  BY <1>0, FirmStacks, KeepsPoints, LeafCalls
<1>2. CASE AfterIdentifier
  BY <1>0, <1>1, <1>2, FirmForms DEF AfterIdentifier
<1>3. CASE CloseIndex
  BY <1>0, <1>1, <1>3, FirmForms DEF CloseIndex
<1>4. CASE CloseParen
  BY <1>0, <1>1, <1>4, FirmForms DEF CloseParen
<1>5. CASE Arguments
  BY <1>0, <1>1, <1>5, FirmForms DEF Arguments
<1>6. CASE ArgumentComma
  BY <1>0, <1>1, <1>6, FirmForms DEF ArgumentComma
<1> QED BY <1>2, <1>3, <1>4, <1>5, <1>6

LEMMA OperatorShape ==
  ASSUME Calmly, NEW pc \in Operations, NEW operator, NEW operand, Leaf(operand),
         Operators(pc, operator, operand)
  PROVE  Shape'
<1>0. Calm /\ IsStack(stack') /\ Poised /\ TypeInv
  BY DEF Calmly, Poised
<1>1. PICK s : s = Append(Below, Call(pc, Depth, TRUE)) \o operand /\ Firm(s)
  BY <1>0, FirmStacks
<1>2. Firm(Return)
  BY <1>0, FirmStacks
<1>3. Move(1, s, FALSE, <<>>, {}) \/ Move(0, Return, FALSE, <<>>, {})
  BY <1>0, <1>1, CalmStep DEF Operators
<1> QED BY <1>0, <1>1, <1>2, <1>3, FirmForms

LEMMA ExpressionShape == ASSUME Calmly, Term \/ Expression PROVE Shape'
<1>0. TypeInv
  BY DEF Calmly, Poised
<1>1. CASE Term
  BY <1>0, <1>1, LeafCalls, OperatorShape DEF Term, Operations
<1>2. CASE Expression
  BY <1>0, <1>2, LeafCalls, OperatorShape DEF Expression, Operations
<1> QED BY <1>1, <1>2

\* Behind an operator comes the other operand.
LEMMA OperandShape ==
  ASSUME TypeInv, Firm(Below), NEW n \in 1..Len(tokens), tokens[n] = "rel"
  PROVE  ShapeAt(Instead(<<Call("operand", Depth, FALSE)>>), n)
<1>1. Calls(Below) /\ Len(Below) \in Nat
  BY BelowOK, SequenceLength DEF Calls
<1>2. PICK c : c = Call("operand", Depth, FALSE) /\ c.pc = "operand" /\ c.token = Zero
  <2>1. LET c == Call("operand", Depth, FALSE) IN c.pc = "operand" /\ c.token = Zero
    BY DEF Call
  <2> QED BY <2>1, Zenon
<1>3. PICK s : s = Append(Below, c) /\ s = Instead(<<c>>)
  BY <1>1, JoinedCalls DEF Instead
<1>4. Sound(s)
  <2>1. Stands(Below, c)
    BY <1>2 DEF Stands, ExprLevel, Fresh
  <2> QED BY <1>1, <1>3, <2>1, SoundOnTop DEF Firm
<1>5. /\ Len(s) = Len(Below) + 1 /\ s[Len(Below) + 1] = c
      /\ \A i \in 1..Len(Below) : s[i] = Below[i]
  <2>1. s = Append(Below, c)
    BY <1>3
  <2> QED BY ONLY <1>1, <2>1, OneMoreIs
<1>6. \A i \in 1..(Len(s) - 1) : s[i].pc # "operand"
  BY <1>1, <1>5 DEF Firm
<1>7. \A i \in 1..Len(s) : ~ElseArm(s[i])
  <2>1. \A i \in 1..Len(s) : i \in 1..Len(Below) \/ i = Len(Below) + 1
    BY <1>1, <1>5
  <2> QED BY <1>2, <1>5, <2>1 DEF Firm, ElseArm
<1> QED BY <1>2, <1>3, <1>4, <1>6, <1>7 DEF ShapeAt

LEMMA RelationStepShape == ASSUME Calmly, parse_term_for_expr \/ Relation PROVE Shape'
<1>0. Calm /\ IsStack(stack') /\ Poised /\ TypeInv
  BY DEF Calmly, Poised
<1>1. Firm(Then("after id")) /\ Firm(Return)
  BY <1>0, FirmStacks, KeepsPoints
<1>2. CASE parse_term_for_expr
  BY <1>0, <1>1, <1>2, FirmForms DEF parse_term_for_expr
<1>3. CASE Relation
  <2>1. PICK s : s = Instead(<<Call("operand", Depth, FALSE)>>) /\ Go(1, s) /\ Tok = "rel"
    BY <1>0, <1>1, <1>3, FirmForms DEF Relation
  <2>2. index' = index + 1 /\ Tok = tokens[index + 1] /\ index < Len(tokens) /\ stack' = s
    BY <1>0, <2>1, CalmRead DEF Go, Move
  <2>3. index + 1 \in 1..Len(tokens)
    BY <1>0, <2>2 DEF TypeInv
  <2>4. ShapeAt(s, index + 1)
    BY <1>0, <2>1, <2>2, <2>3, OperandShape DEF Poised
  <2> QED BY <1>0, <2>2, <2>4, ShapeThen DEF Calm
<1> QED BY <1>2, <1>3

LEMMA DeclarationShape ==
  ASSUME Calmly, DeclareName \/ DeclareSize \/ DeclareArray \/ parse_initialize_array
  PROVE  Shape'
<1>0. Calm /\ IsStack(stack') /\ Poised /\ TypeInv /\ Top.pc \notin ExprLevel
  BY DEF Calmly, Poised, DeclareName, DeclareSize, DeclareArray, parse_initialize_array, ExprLevel
<1>1. /\ Firm(Then("size")) /\ Firm(CallThen(parse_expr, "sized")) /\ Firm(Instead(parse_expr))
      /\ Firm(Return) /\ Firm(Then("array"))
      /\ Firm(Then("element")) /\ Firm(CallThen(parse_expr, "element end"))
  BY <1>0, FirmStacks, KeepsPoints, LeafCalls
<1>2. Firm(Instead(<<Call("elements", Depth, FALSE)>>))
  BY <1>0, DepthBelow, FirmStatements DEF Statements
<1>3. CASE DeclareName
  BY <1>0, <1>1, <1>3, FirmForms DEF DeclareName
<1>4. CASE DeclareSize
  BY <1>0, <1>1, <1>4, FirmForms DEF DeclareSize
<1>5. CASE DeclareArray
  BY <1>0, <1>1, <1>2, <1>5, FirmForms DEF DeclareArray
<1>6. CASE parse_initialize_array
  BY <1>0, <1>1, <1>6, FirmForms DEF parse_initialize_array
<1> QED BY <1>3, <1>4, <1>5, <1>6

LEMMA SimpleShape == ASSUME Calmly, parse_assign \/ parse_goto \/ parse_ret PROVE Shape'
<1>0. Calm /\ IsStack(stack') /\ Poised /\ TypeInv /\ Top.pc \notin ExprLevel
  BY DEF Calmly, Poised, parse_assign, parse_goto, parse_ret, ExprLevel
<1>1. /\ Firm(CallThen(parse_expr, "subscript")) /\ Firm(Then("arguments")) /\ Firm(Instead(parse_expr))
      /\ Firm(Then("subscript =")) /\ Firm(Return)
      /\ Firm(CallThen(parse_expr, "returned")) /\ Firm(Then("return"))
  BY <1>0, FirmStacks, KeepsPoints, LeafCalls
<1>2. CASE parse_assign
  BY <1>0, <1>1, <1>2, FirmForms DEF parse_assign
<1>3. CASE parse_goto
  BY <1>0, <1>1, <1>3, FirmForms DEF parse_goto
<1>4. CASE parse_ret
  BY <1>0, <1>1, <1>4, FirmForms DEF parse_ret
<1> QED BY <1>2, <1>3, <1>4

LEMMA NextInstrShape ==
  ASSUME Calmly, Top.pc \notin ExprLevel, NEW depth \in Nat, NEW pc \in Parents \ {"arm"},
         NextInstr(depth, pc)
  PROVE  Shape'
<1>1. Firm(CallThen(parse_instr(depth, Full(Instr)), pc))
  BY FirmStatements DEF Calmly, parse_instr, Statements
<1> QED BY <1>1, FirmForms DEF Calmly, NextInstr

LEMMA BodyShape ==
  ASSUME Calmly, Top.pc \notin ExprLevel, NEW pc \in Parents \ {"arm"}, NEW ends, NEW depth \in Nat,
         NEW after, Firm(after), Body(pc, ends, depth, after)
  PROVE  Shape'
<1>1. Go(1, after) \/ NextInstr(depth, pc)
  BY DEF Body
<1>2. CASE Go(1, after)
  BY <1>2, FirmForms DEF Calmly
<1> QED BY <1>1, <1>2, NextInstrShape

\* The first token of a block is an else only if the run ends there.
LEMMA BlockShape ==
  ASSUME Calm, IsStack(stack'), Shape, ~Past, Top.pc = "block", Tok = "else", NEW err, NEW depth \in Nat,
         NEW null, Move(0, Instead(parse_instr(depth, null)), err, <<>>, {})
  PROVE  Shape'
<1>1. TypeInv /\ Calls(Below) /\ Len(Below) = Len(stack) - 1 /\ Len(stack) \in Nat \ {0}
      /\ \A i \in 1..(Len(stack) - 1) : Below[i] = stack[i]
  BY BelowIs DEF Calm
<1>2. PICK m \in Nat : m = Len(Below) /\ Len(stack) = m + 1 /\ stack[m + 1].pc = "block"
  BY <1>1 DEF Top
<1>3. PICK c : c = Call("instr", depth, null) /\ c.pc = "instr" /\ c.token = Zero
  BY CallOf
<1>4. PICK s : s = Append(Below, c) /\ stack' = s
  <2>1. Instead(parse_instr(depth, null)) = Append(Below, c)
    BY <1>1, <1>3, JoinedCalls DEF Instead, parse_instr
  <2> QED BY <2>1 DEF Move
<1>5. /\ Len(s) = m + 1 /\ s[m + 1] = c
      /\ \A i \in 1..m : s[i] = stack[i]
  BY <1>1, <1>2, <1>4, OneMoreIs
<1>6. index' = index /\ index < Len(tokens) /\ tokens[index + 1] = "else"
  <2>1. index < Len(tokens) /\ tokens[index + 1] = "else" /\ index \in Nat /\ Len(tokens) \in Nat
    BY <1>1, TokIsNext
  <2> QED BY <2>1 DEF Move
<1>7. Sound(stack) /\ \A i \in 1..m : stack[i].pc # "operand" /\ (ElseArm(stack[i]) => i = m)
  BY <1>2 DEF Shape, ShapeAt
<1>8. Sound(s)
  <2>1. Sound(Below)
    BY <1>1, <1>2, <1>7 DEF Sound
  <2>2. Outer(Below)
    <3>1. "block" \notin ExprLevel
      BY DEF ExprLevel
    <3> QED BY <1>1, <1>2, <1>7, <3>1 DEF Sound, Outer
  <2>3. Stands(Below, c)
    BY <1>3, <2>2 DEF Stands
  <2> QED BY <1>1, <1>4, <2>1, <2>3, SoundOnTop
<1>9. ASSUME NEW i \in 1..Len(s), ElseArm(s[i])
      PROVE  i = Len(s) - 1 /\ s[Len(s)].pc \in {"block", "instr"}
  <2>1. i # m + 1
    BY <1>3, <1>5, <1>9 DEF ElseArm
  <2>2. i \in 1..m
    BY <1>5, <2>1
  <2> QED BY <1>3, <1>5, <1>7, <1>9, <2>2
<1>10. ShapeAt(s, index)
  BY <1>3, <1>5, <1>6, <1>7, <1>8, <1>9 DEF ShapeAt
<1> QED BY <1>4, <1>6, <1>10, ShapeThen DEF Calm

LEMMA CondBlockShape == ASSUME Calm, IsStack(stack'), Shape, ~Past, CondBlock PROVE Shape'
<1>0. TypeInv /\ Depth + 1 \in Nat /\ Top.pc \in {"block", "in block"} /\ Top.pc \notin ExprLevel
  BY DepthBelow DEF Calm, CondBlock, Body, ExprLevel
<1>1. CASE Poised
  <2>0. Calmly
    BY <1>1 DEF Calmly
  <2>1. Firm(Then("in block")) /\ Firm(Return)
    BY <1>0, <1>1, FirmStacks, KeepsPoints
  <2>2. Firm(Instead(parse_instr(Depth + 1, Full(Instr))))
    BY <1>0, <1>1, FirmStatements DEF Statements, parse_instr
  <2>3. CASE Body("in block", {"}", "END"}, Depth + 1, Return)
    BY <1>0, <2>0, <2>1, <2>3, BodyShape DEF Parents
  <2>4. CASE ~Body("in block", {"}", "END"}, Depth + 1, Return)
    <3>1. \/ Go(1, Then("in block"))
          \/ Move(0, Instead(parse_instr(Depth + 1, Full(Instr))), Full(Instr), <<>>, {})
      BY <2>4, CalmStep DEF CondBlock
    <3> QED BY <2>1, <2>2, <3>1, FirmForms
  <2> QED BY <2>3, <2>4
<1>2. CASE ~Poised
  <2>1. Top.pc = "block" /\ Tok = "else"
    BY <1>0, <1>2, Poises
  <2>2. Move(0, Instead(parse_instr(Depth + 1, Full(Instr))), Full(Instr), <<>>, {})
    BY <2>1, CalmStep DEF CondBlock, Body
  <2> QED BY <1>0, <2>1, <2>2, BlockShape
<1> QED BY <1>1, <1>2

\* The arm of an if waits for its block.
LEMMA ArmShape ==
  ASSUME Poised, ~Past, Top.pc = "if"
  PROVE  ShapeAt(CallThen(parse_cond_block(FALSE), "arm"), index)
<1>1. Calls(Below) /\ Len(Below) \in Nat /\ Firm(Below) /\ Outer(Below)
  BY BelowOK, SequenceLength DEF Poised, Calls, ExprLevel
<1>2. PICK m : m = Len(Below) /\ m \in Nat
  BY <1>1
<1>3. PICK a : a = At("arm", Top.arg) /\ a.pc = "arm" /\ a.token = Tok /\ IsCall(a)
  <2>1. At("arm", Top.arg).token = Tok
    BY DEF At
  <2> QED BY <2>1, AtIsCall DEF Poised
<1>4. PICK b : b = Call("block", Depth, FALSE) /\ b.pc = "block" /\ b.token = Zero
  <2>1. LET c == Call("block", Depth, FALSE) IN c.pc = "block" /\ c.token = Zero
    BY DEF Call
  <2> QED BY <2>1, Zenon
<1>5. PICK t : t = Append(Below, a) /\ Calls(t)
  BY <1>1, <1>3, OneMore
<1>6. PICK s : s = Append(t, b) /\ s = CallThen(parse_cond_block(FALSE), "arm")
  BY <1>3, <1>4, <1>5, JoinedCalls DEF CallThen, parse_cond_block
<1>7. /\ Len(t) = m + 1 /\ t[m + 1] = a
      /\ \A i \in 1..m : t[i] = Below[i]
  BY ONLY <1>1, <1>2, <1>5, OneMoreIs
<1>8. /\ Len(s) = m + 2 /\ s[m + 2] = b /\ s[m + 1] = a
      /\ \A i \in 1..m : s[i] = Below[i]
  <2>1. /\ Len(s) = Len(t) + 1 /\ s[Len(t) + 1] = b
        /\ \A i \in 1..Len(t) : s[i] = t[i]
    <3>1. s = Append(t, b) /\ Calls(t)
      BY <1>5, <1>6
    <3> QED BY ONLY <3>1, OneMoreIs
  <2> QED BY <1>2, <1>7, <2>1
<1>9. Sound(s)
  <2>1. Stands(Below, a)
    BY <1>1, <1>3 DEF Stands, Fresh
  <2>2. Sound(t)
    BY <1>1, <1>5, <2>1, SoundOnTop DEF Firm
  <2>3. Outer(t)
    <3>1. \A i \in 1..(m + 1) : i \in 1..m \/ i = m + 1
      BY <1>2
    <3> QED BY <1>1, <1>2, <1>3, <1>7, <3>1 DEF Outer, Parents
  <2>4. Stands(t, b)
    BY <1>4, <2>3 DEF Stands
  <2> QED BY <1>5, <1>6, <2>2, <2>4, SoundOnTop
<1>10. \A i \in 1..Len(s) : i \in 1..m \/ i = m + 1 \/ i = m + 2
  BY <1>2, <1>8
<1>11. \A i \in 1..(Len(s) - 1) : s[i].pc # "operand"
  <2>1. \A i \in 1..(Len(s) - 1) : i \in 1..m \/ i = m + 1
    BY <1>2, <1>8
  <2> QED BY <1>1, <1>2, <1>3, <1>8, <2>1 DEF Firm
<1>12. ASSUME NEW i \in 1..Len(s), ElseArm(s[i])
       PROVE  i = Len(s) - 1 /\ index < Len(tokens) /\ tokens[index + 1] = "else"
  <2>1. i \notin 1..m /\ i # m + 2
    BY <1>1, <1>2, <1>4, <1>8, <1>12 DEF Firm, ElseArm
  <2>2. i = m + 1
    BY <1>10, <2>1
  <2>3. Tok = "else"
    BY <1>3, <1>8, <1>12, <2>2 DEF ElseArm
  <2> QED BY <1>2, <1>8, <2>2, <2>3, TokIsNext DEF Poised
<1> QED BY <1>2, <1>4, <1>6, <1>8, <1>9, <1>11, <1>12 DEF ShapeAt

LEMMA IfShape == ASSUME Calmly, ~Past, parse_if PROVE Shape'
<1>0. Calm /\ IsStack(stack') /\ Poised /\ TypeInv /\ Top.pc \notin ExprLevel
  BY DEF Calmly, Poised, parse_if, ExprLevel
<1>1. Firm(Then("else")) /\ Firm(Return)
  BY <1>0, FirmStacks, KeepsPoints
<1>2. CASE Top.pc = "if"
  <2>1. PICK s : s = CallThen(parse_cond_block(FALSE), "arm") /\ Go(0, s)
    BY <1>2 DEF parse_if
  <2>2. stack' = s /\ index' = index
    BY <1>0, <2>1, TokIsNext DEF Go, Move
  <2> QED BY <1>0, <1>2, <2>1, <2>2, ArmShape, ShapeThen DEF Calm
<1>3. CASE Top.pc # "if"
  BY <1>0, <1>1, <1>3, FirmForms DEF parse_if
<1> QED BY <1>2, <1>3

\* An else if: an arm with its block and the relation before that.
LEMMA ElseIfShape ==
  ASSUME Poised, Top.pc \notin ExprLevel, Tok = "if", NEW n
  PROVE  ShapeAt(CallThen(parse_cond_block(FALSE) \o parse_rel, "arm"), n)
<1>1. Calls(Below) /\ Len(Below) \in Nat /\ Firm(Below) /\ Outer(Below) /\ TypeInv
  BY BelowOK, SequenceLength DEF Poised, Calls
<1>2. PICK a : a = At("arm", Top.arg) /\ a.pc = "arm" /\ a.token = "if" /\ IsCall(a)
  <2>1. At("arm", Top.arg).token = Tok
    BY DEF At
  <2> QED BY <1>1, <2>1, AtIsCall
<1>3. PICK b : b = Call("block", Depth, FALSE) /\ b.pc = "block" /\ b.token = Zero /\ IsCall(b)
  <2>1. LET c == Call("block", Depth, FALSE) IN c.pc = "block" /\ c.token = Zero
    BY DEF Call
  <2> QED BY <1>1, <2>1, CallIsCall, DepthBelow, Zenon
<1>4. PICK t : t = Append(Below, a) /\ Calls(t)
  BY <1>1, <1>2, OneMore
<1>5. Firm(t) /\ Outer(t)
  <2>1. Stands(Below, a) /\ a.pc # "operand" /\ ~ElseArm(a)
    BY <1>1, <1>2 DEF Stands, Fresh, ElseArm
  <2>2. /\ Len(t) = Len(Below) + 1 /\ t[Len(Below) + 1] = a
        /\ \A i \in 1..Len(Below) : t[i] = Below[i]
    BY ONLY <1>1, <1>4, OneMoreIs
  <2>3. \A i \in 1..(Len(Below) + 1) : i \in 1..Len(Below) \/ i = Len(Below) + 1
    BY <1>1
  <2> QED BY <1>1, <1>2, <1>4, <2>1, <2>2, <2>3, FirmOnTop DEF Outer, Parents
<1>6. PICK s : s = Append(t, b) /\ Calls(s)
  BY <1>3, <1>4, OneMore
<1>7. Firm(s) /\ Len(s) # 0 /\ s[Len(s)].pc = "block"
  <2>1. Stands(t, b) /\ b.pc # "operand" /\ ~ElseArm(b)
    BY <1>3, <1>5 DEF Stands, ElseArm
  <2>2. PICK m \in Nat : Len(s) = m + 1 /\ s[m + 1] = b
    <3>1. s = Append(t, b) /\ Calls(t)
      BY ONLY <1>4, <1>6
    <3> QED BY ONLY <3>1, OneMoreIs
  <2>3. Firm(s)
    BY <1>4, <1>5, <1>6, <2>1, FirmOnTop
  <2>4. Len(s) # 0 /\ s[Len(s)] = b
    BY ONLY <2>2
  <2> QED BY <1>3, <2>3, <2>4
<1>8. CallThen(parse_cond_block(FALSE) \o parse_rel, "arm") = s \o parse_rel
  <2>1. PICK u : u = <<b>> /\ Calls(u) /\ parse_cond_block(FALSE) = u
    BY <1>3, OneCall DEF parse_cond_block
  <2>2. t \o (u \o parse_rel) = (t \o u) \o parse_rel
    <3>1. IsSequence(t) /\ IsSequence(u) /\ IsSequence(parse_rel)
      BY <1>1, <1>4, <2>1, CallsMade DEF Calls
    <3> QED BY ONLY <3>1, JoinedTwice
  <2>3. t \o u = s
    BY <1>4, <1>6, <2>1, JoinedCalls
  <2> QED BY <1>2, <1>4, <2>1, <2>2, <2>3 DEF CallThen
<1> QED BY <1>1, <1>6, <1>7, <1>8, RelationShape

LEMMA ElseShape == ASSUME Calmly, Else PROVE Shape'
<1>0. Calm /\ IsStack(stack') /\ Poised /\ TypeInv /\ Top.pc \notin ExprLevel
  BY DEF Calmly, Poised, Else, ExprLevel
<1>1. Firm(Instead(parse_cond_block(Full(Block))))
  BY <1>0, DepthBelow, FirmStatements DEF Statements, parse_cond_block
<1>2. CASE Tok = "if"
  <2>1. PICK s : s = CallThen(parse_cond_block(FALSE) \o parse_rel, "arm") /\ Emit("elif", 1, s)
    BY <1>2 DEF Else
  <2>2. stack' = s
    BY <2>1 DEF Emit, Move
  <2> QED BY <1>0, <1>2, <2>1, <2>2, ElseIfShape, ShapeThen DEF Calm
<1>3. CASE Tok # "if"
  <2>1. PICK lines : Move(0, Instead(parse_cond_block(Full(Block))), Full(Block), lines, {})
    BY <1>3 DEF Else
  <2> QED BY <1>0, <1>1, <2>1, FirmForms
<1> QED BY <1>2, <1>3

LEMMA WastedNodeShape ==
  ASSUME Calmly, NEW n, NEW lines, NEW pc, Keeps(pc), WastedNode(n, lines, pc)
  PROVE  Shape'
<1>1. Firm(CallThen(parse_expr, pc))
  BY FirmStacks, LeafCalls DEF Calmly, Poised
<1> QED BY <1>1, FirmForms DEF Calmly, WastedNode

LEMMA MatchShape == ASSUME Calmly, parse_match PROVE Shape'
<1>0. Calm /\ IsStack(stack') /\ Poised /\ TypeInv /\ Top.pc \notin ExprLevel
  BY DEF Calmly, Poised, parse_match, ExprLevel
<1>1. Firm(Then("case")) /\ Firm(Return) /\ Firm(Then("=>"))
  BY <1>0, FirmStacks, KeepsPoints
<1>2. Firm(CallThen(parse_cond_block(FALSE), "case"))
  BY <1>0, DepthBelow, FirmStatements DEF Statements, parse_cond_block, Parents
<1>3. \A n, lines : \A pc \in {"first value", "=>", "value"} : WastedNode(n, lines, pc) => Shape'
  BY <1>0, WastedNodeShape, KeepsPoints
<1>4. ~Exit
  BY <1>0, CalmStep
<1> QED BY <1>0, <1>1, <1>2, <1>3, <1>4, FirmForms DEF parse_match

LEMMA LoopShape == ASSUME Calmly, ~Past, parse_loop PROVE Shape'
<1>0. Calm /\ IsStack(stack') /\ Poised /\ TypeInv /\ Top.pc \notin ExprLevel /\ Depth + 1 \in Nat
  BY DepthBelow DEF Calmly, Poised, parse_loop, Body, ExprLevel
<1>1. Firm(Then("in")) /\ Firm(Then("in loop")) /\ Firm(Then("until")) /\ Firm(Return)
  BY <1>0, FirmStacks, KeepsPoints
<1>2. CASE Body("in loop", {"}"}, Depth + 1, IF Top.arg = "dowhile" THEN Then("until") ELSE Return)
  <2>1. PICK after : /\ after = (IF Top.arg = "dowhile" THEN Then("until") ELSE Return)
                     /\ Firm(after) /\ Body("in loop", {"}"}, Depth + 1, after)
    BY <1>1, <1>2
  <2> QED BY <1>0, <2>1, BodyShape DEF Parents
<1>3. CASE Top.pc = "while" /\ Go(0, CallThen(parse_rel, "open"))
  <2>1. PICK t : /\ t = Append(Below, At("open", Top.arg)) /\ Firm(t) /\ Calls(t)
                 /\ CallThen(parse_rel, "open") = t \o parse_rel
    <3>1. Firm(Append(Below, At("open", Top.arg)))
      BY <1>0, FirmStacks, KeepsPoints
    <3>2. Calls(Append(Below, At("open", Top.arg)))
      BY <1>0, BelowOK, AtIsCall, OneMore
    <3> QED BY <3>1, <3>2 DEF CallThen
  <2>2. Len(t) # 0 /\ t[Len(t)].pc = "open" /\ t[Len(t)].token = Tok
    <3>1. Len(t) = Len(Below) + 1 /\ Len(Below) \in Nat /\ t[Len(Below) + 1] = At("open", Top.arg)
      BY <1>0, <2>1, BelowOK, OneMoreIs
    <3>2. At("open", Top.arg).pc = "open" /\ At("open", Top.arg).token = Tok
      BY DEF At
    <3> QED BY <3>1, <3>2
  <2>3. index' = index /\ stack' = t \o parse_rel
    BY <1>0, <1>3, <2>1, TokIsNext DEF Go, Move
  <2>4. ShapeAt(t \o parse_rel, index)
    BY <1>0, <2>1, <2>2, TokIsNext, RelationShape
  <2> QED BY <1>0, <2>3, <2>4, ShapeThen DEF Calm
<1>4. CASE Top.pc = "until" /\ Go(0, Instead(parse_rel))
  <2>1. Calls(Below) /\ Len(Below) # 0 /\ Below[Len(Below)].pc \in Parents /\ Firm(Below)
    <3>1. Calls(Below) /\ Len(Below) # 0
      BY <1>0, <1>4, BelowOK DEF IsStack
    <3>2. Len(Below) \in 1..Len(Below)
      BY <3>1, SequenceLength DEF Calls
    <3> QED BY <1>0, <3>1, <3>2 DEF Poised, Outer
  <2>2. stack' = Below \o parse_rel
    BY <1>4 DEF Go, Move, Instead
  <2>3. Below[Len(Below)].pc # "open"
    BY <2>1 DEF Parents
  <2>4. ShapeAt(Below \o parse_rel, index')
    BY <1>0, <2>1, <2>3, RelationShape
  <2> QED BY <1>0, <2>2, <2>4, ShapeThen DEF Calm
<1>5. \A n, lines : \A pc \in {"from", "open"} : WastedNode(n, lines, pc) => Shape'
  BY <1>0, WastedNodeShape, KeepsPoints
<1>6. ~Exit
  BY <1>0, CalmStep
<1> QED BY <1>0, <1>1, <1>2, <1>3, <1>4, <1>5, <1>6, FirmForms DEF parse_loop

LEMMA FunctionShape ==
  ASSUME Calmly, Parameters \/ ReturnTypes \/ FunctionBody
  PROVE  Shape'
<1>0. Calm /\ IsStack(stack') /\ Poised /\ TypeInv /\ Top.pc \notin ExprLevel /\ Depth + 1 \in Nat
  BY DepthBelow DEF Calmly, Poised, Parameters, ReturnTypes, FunctionBody, Body, ExprLevel
<1>1. /\ \A pc \in {"fn (", "parameter", "name or pointer", "name", "parameter end",
                    "signature", "type", "more types", "body", "in fn"} : Firm(Then(pc))
      /\ Firm(Return)
  BY <1>0, FirmStacks, KeepsPoints
<1>2. CASE Parameters
  BY <1>0, <1>1, <1>2, FirmForms DEF Parameters
<1>3. CASE ReturnTypes
  BY <1>0, <1>1, <1>3, FirmForms DEF ReturnTypes
<1>4. CASE FunctionBody
  <2>1. CASE Body("in fn", {"}", "END"}, Depth + 1, Return)
    BY <1>0, <1>1, <2>1, BodyShape DEF Parents
  <2>2. CASE ~Body("in fn", {"}", "END"}, Depth + 1, Return)
    BY <1>0, <1>1, <1>4, <2>2, FirmForms DEF FunctionBody
  <2> QED BY <2>1, <2>2
<1> QED BY <1>2, <1>3, <1>4

LEMMA InstructionShape == ASSUME Calmly, Instruction PROVE Shape'
<1>0. Calm /\ IsStack(stack') /\ Poised /\ TypeInv /\ Top.pc = "instr" /\ Top.pc \notin ExprLevel
  BY DEF Calmly, Poised, Instruction, ExprLevel
<1>1. ~Unexpected /\ ~Crash
  <2>1. ~Exit /\ ~Crash
    BY <1>0, CalmStep
  <2> QED BY <2>1 DEF Unexpected
<1> DEFINE go == Append(Below, At(Point(Tok), Tok))
<1>2. CASE Emit(Tok, 1, Return)
  BY <1>0, <1>2, FirmStacks, FirmForms
<1>3. ASSUME Tok \in {"type", "id", "ptr", "goto", "return", "fn"} \cup Tree!Loops
      PROVE  Firm(go)
  <2>1. Point(Tok) \in {"declare", "assign", "goto", "return", "open", "while", "for", "fn"}
        /\ (Point(Tok) = "goto" => Tok = "goto")
    BY <1>3 DEF Point, Tree!Loops
  <2>2. CASE Point(Tok) # "goto"
    BY <1>0, <2>1, <2>2, FirmStacks, KeepsPoints
  <2>3. CASE Point(Tok) = "goto"
    <3>1. PICK c : c = At("goto", "goto") /\ c.pc = "goto" /\ c.token = Zero
      <4>1. At("goto", "goto").token = Zero /\ At("goto", "goto").pc = "goto"
        BY <2>1, <2>3 DEF At, Zero
      <4> QED BY <4>1
    <3>2. Stands(Below, c) /\ c.pc # "operand" /\ ~ElseArm(c)
      BY <1>0, <3>1 DEF Stands, Poised, ElseArm
    <3> QED BY <1>0, <2>1, <2>3, <3>1, <3>2, BelowOK, FirmOnTop DEF Poised
  <2> QED BY <2>2, <2>3
<1>4. ASSUME NEW kind, Emit(kind, 1, go),
             Tok \in {"type", "id", "ptr", "goto", "return"} \cup Tree!Loops
      PROVE  Shape'
  <2>1. Firm(go)
    BY <1>3, <1>4
  <2> HIDE DEF go
  <2> QED BY <1>0, <1>4, <2>1, FirmForms
<1>5. CASE Tok = "fn" /\ Go(1, go)
  <2>1. Firm(go)
    BY <1>3, <1>5
  <2> HIDE DEF go
  <2> QED BY <1>0, <1>5, <2>1, FirmForms
<1>6. CASE Emit("if", 1, Instead(<<Call("if", Depth, FALSE)>> \o parse_rel))
  <2>1. PICK c : c = Call("if", Depth, FALSE) /\ c.pc = "if" /\ c.token = Zero /\ IsCall(c)
    <3>1. LET c == Call("if", Depth, FALSE) IN c.pc = "if" /\ c.token = Zero
      BY DEF Call
    <3> QED BY <1>0, <3>1, CallIsCall, DepthBelow, Zenon
  <2>2. PICK t : t = Append(Below, c) /\ Calls(t)
    BY <1>0, <2>1, BelowOK, OneMore
  <2>3. Firm(t)
    <3>1. Stands(Below, c) /\ c.pc # "operand" /\ ~ElseArm(c)
      BY <1>0, <2>1 DEF Stands, Poised, ElseArm
    <3> QED BY <1>0, <2>2, <3>1, BelowOK, FirmOnTop DEF Poised
  <2>4. Len(t) # 0 /\ t[Len(t)].pc = "if"
    <3>1. t = Append(Below, c) /\ Calls(Below)
      BY <1>0, <2>2, BelowOK
    <3>2. PICK m \in Nat : Len(t) = m + 1 /\ t[m + 1] = c
      BY ONLY <3>1, OneMoreIs
    <3>3. Len(t) # 0 /\ t[Len(t)] = c
      BY ONLY <3>2
    <3> QED BY <2>1, <3>3
  <2>5. Instead(<<c>> \o parse_rel) = t \o parse_rel
    <3>1. PICK u : u = <<c>> /\ Calls(u)
      BY <2>1, OneCall
    <3>2. Below \o (u \o parse_rel) = (Below \o u) \o parse_rel
      BY <1>0, <3>1, BelowOK, CallsMade, JoinedTwice DEF Calls
    <3>3. Below \o u = t
      BY <1>0, <2>2, <3>1, BelowOK, JoinedCalls
    <3> QED BY <3>1, <3>2, <3>3 DEF Instead
  <2>6. stack' = t \o parse_rel
    BY <1>6, <2>1, <2>5 DEF Emit, Move
  <2>7. ShapeAt(t \o parse_rel, index')
    BY <1>0, <2>2, <2>3, <2>4, RelationShape
  <2> QED BY <1>0, <2>6, <2>7, ShapeThen DEF Calm
<1>7. ASSUME NEW lines, Move(1, Instead(<<Call("match", Depth, FALSE)>> \o parse_expr), Full(Expr), lines, {})
      PROVE  Shape'
  <2>1. PICK s : s = Instead(<<Call("match", Depth, FALSE)>> \o parse_expr) /\ Firm(s)
    BY <1>0, DepthBelow, LeafCalls, FirmStatements DEF Statements
  <2> QED BY <1>0, <1>7, <2>1, FirmForms
<1> HIDE DEF go
<1> QED BY <1>1, <1>2, <1>4, <1>5, <1>6, <1>7 DEF Instruction, go

\* A step without an error keeps the shape of the calls.
LEMMA ShapeSteps == ASSUME Calm, IsStack(stack'), Shape, ~Past, Parse PROVE Shape'
<1>1. Step /\ TypeInv
  BY CalmStep DEF Parse, Calm
<1>2. Tok # "else" \/ Top.pc \notin {"block", "instr"} => Calmly
  BY <1>1, Poises DEF Calmly
<1>3. CASE CondBlock
  BY <1>3, CondBlockShape
<1>4. CASE Instruction
  <2>1. Tok # "else"
    <3>1. ~Exit /\ ~Crash
      BY CalmStep
    <3>2. ~Unexpected
      BY <3>1 DEF Unexpected
    <3> QED BY <1>4, <3>1, <3>2 DEF Instruction, Tree!Loops
  <2> QED BY <1>2, <1>4, <2>1, InstructionShape
<1>5. CASE Program
  <2>1. Calmly /\ Top.pc \notin ExprLevel
    BY <1>2, <1>5 DEF Program, ExprLevel
  <2>2. NextInstr(0, "program")
    BY <1>5, CalmStep DEF Program, Calm, Quiet
  <2> QED BY <2>1, <2>2, NextInstrShape DEF Parents
<1>6. CASE ~CondBlock /\ ~Instruction /\ ~Program
  <2>1. Top.pc \notin {"block", "instr"} => Calmly
    BY <1>2
  <2>2. CASE Factor \/ AfterIdentifier \/ CloseIndex \/ CloseParen \/ Arguments \/ ArgumentComma
    BY <2>1, <2>2, FactorShape, AfterIdentifierShape
       DEF Factor, AfterIdentifier, CloseIndex, CloseParen, Arguments, ArgumentComma
  <2>3. CASE Term \/ Expression \/ parse_term_for_expr \/ Relation
    BY <2>1, <2>3, ExpressionShape, RelationStepShape
       DEF Term, Expression, Operators, parse_term_for_expr, Relation
  <2>4. CASE DeclareName \/ DeclareSize \/ DeclareArray \/ parse_initialize_array
    BY <2>1, <2>4, DeclarationShape DEF DeclareName, DeclareSize, DeclareArray, parse_initialize_array
  <2>5. CASE parse_assign \/ parse_goto \/ parse_ret
    BY <2>1, <2>5, SimpleShape DEF parse_assign, parse_goto, parse_ret
  <2>6. CASE parse_if \/ Else
    BY <2>1, <2>6, IfShape, ElseShape DEF parse_if, Else
  <2>7. CASE parse_match \/ parse_loop
    BY <2>1, <2>7, MatchShape, LoopShape DEF parse_match, parse_loop, Body
  <2>8. CASE Parameters \/ ReturnTypes \/ FunctionBody
    BY <2>1, <2>8, FunctionShape DEF Parameters, ReturnTypes, FunctionBody, Body
  <2> QED BY <1>1, <1>6, <2>2, <2>3, <2>4, <2>5, <2>6, <2>7, <2>8 DEF Step
<1> QED BY <1>3, <1>4, <1>5, <1>6

----------------------------------------------------------------------------
(* With tokens left to read and an arena that is large enough, there is    *)
(* room for a node, and no call without one.                               *)

LEMMA RoomIsLeft ==
  ASSUME BudgetInv, Enough, ~Past
  PROVE  \A size \in {Instr, Expr, Block} : ~Full(size)
<1>0. TypeInv
  BY DEF BudgetInv, Inv
<1>1. index \in Nat /\ Len(tokens) \in Nat /\ index < Len(tokens) /\ IsArena(arena) /\ Owed(stack) \in Nat
  BY <1>0, OwedIsNat, TokIsNext DEF TypeInv, IsStack
<1>2. PICK n \in Nat : Nodes(n)
  BY DEF BudgetInv, Budget
<1>3. Advance(Top.pc) \in 0..2
  BY AdvanceIsNat
<1>4. PICK m \in Nat : m = 2 * Len(tokens) /\ n <= m
  BY <1>1, <1>2, <1>3 DEF Nodes
<1>5. Biggest \in Nat /\ Room(Len(tokens)) = (m + 1) * Biggest
  BY <1>4, BiggestOfSizes
<1>6. \A i, j, b \in Nat : i <= j => /\ i * b <= j * b /\ i * b \in Nat /\ j * b \in Nat
                                     /\ (j + 1) * b = j * b + b
  BY ONLY Z3
<1>7. PICK k \in Nat : n * Biggest <= k /\ Room(Len(tokens)) = k + Biggest /\ n * Biggest \in Nat
  BY <1>4, <1>5, <1>6
<1>8. AlignUp(arena.pos) \in Nat /\ AlignUp(arena.pos) <= n * Biggest /\ arena.capacity \in Nat
  BY <1>1, <1>2, Alignment DEF Nodes, IsArena
<1> TAKE size \in {Instr, Expr, Block}
<1>9. size \in Nat /\ AlignUp(size) <= Biggest /\ size <= AlignUp(size) /\ AlignUp(size) \in Nat
  BY BiggestOfSizes, Alignment
<1> QED BY <1>5, <1>7, <1>8, <1>9 DEF Full, HasRoom, Enough

Ample ==
  /\ TypeInv /\ UNCHANGED tokens /\ ~Past /\ Tame(stack)
  /\ \A size \in {Instr, Expr, Block} : ~Full(size)

\* A step takes a token or none; or it takes two; or it ends the run.
Gentle == status' = status /\ Tame(stack') /\ index' <= index + 1
Leaps ==
  /\ status' = status /\ Tame(stack') /\ index' <= index + 2
  /\ Tok = "..." \/ (Tok = "," /\ Top'.pc = "more types" /\ Top'.token = ",")
Stops ==
  \/ status' \in {"exit", "done"}
  \/ /\ status' = "crash" /\ Top.pc = "instr" /\ Tok \in {"lit", "bad"}
     /\ UNCHANGED <<index, stack>>
Fares == Gentle \/ Leaps \/ Stops

\* Calls with a node each.
Mild(cs) == Calls(cs) /\ Tame(cs)
HasNode(c) == IsCall(c) /\ (c.pc \in {"instr", "block"} => ~c.arg)

LEMMA MildOnTop ==
  ASSUME NEW s, Mild(s), NEW c, HasNode(c)
  PROVE  Mild(Append(s, c))
<1>1. PICK t : t = Append(s, c) /\ Calls(t)
  BY OneMore DEF Mild, HasNode
<1>2. /\ Len(t) = Len(s) + 1 /\ Len(s) \in Nat
      /\ \A i \in 1..Len(s) : t[i] = s[i]
      /\ t[Len(s) + 1] = c
  BY <1>1, OneMoreIs DEF Mild
<1>3. \A i \in 1..Len(t) : i \in 1..Len(s) \/ i = Len(s) + 1
  BY <1>2
<1>4. Tame(t)
  BY <1>2, <1>3 DEF Mild, Tame, HasNode
<1> QED BY <1>1, <1>4 DEF Mild

LEMMA MildJoined ==
  ASSUME NEW s, NEW t, Mild(s), Mild(t)
  PROVE  Mild(s \o t)
<1>1. PICK u : u = s \o t /\ Calls(u)
  BY MoreCalls DEF Mild
<1>2. /\ Len(u) = Len(s) + Len(t) /\ Len(s) \in Nat /\ Len(t) \in Nat
      /\ \A i \in 1..Len(s) : u[i] = s[i]
      /\ \A i \in 1..Len(t) : u[Len(s) + i] = t[i]
  BY <1>1, JoinedSequence, SequenceLength DEF Mild, Calls
<1>3. ASSUME NEW i \in 1..Len(u), u[i].pc \in {"instr", "block"}  PROVE ~u[i].arg
  <2>1. CASE i \in 1..Len(s)
    BY <1>2, <1>3, <2>1 DEF Mild, Tame
  <2>2. CASE i \notin 1..Len(s)
    <3>1. i - Len(s) \in 1..Len(t) /\ i = Len(s) + (i - Len(s))
      BY <1>2, <2>2
    <3>2. PICK j \in 1..Len(t) : u[i] = t[j]
      BY <1>2, <3>1
    <3> QED BY <1>3, <3>2 DEF Mild, Tame
  <2> QED BY <2>1, <2>2
<1>4. Tame(u)
  BY <1>3 DEF Tame
<1> QED BY <1>1, <1>4 DEF Mild

LEMMA MildIf ==
  ASSUME NEW cs, Calls(cs), \A i \in 1..Len(cs) : HasNode(cs[i])
  PROVE  Mild(cs)
BY DEF Mild, Tame, HasNode

\* The calls that are made, where there is a node to be had.
LEMMA MildCalls ==
  ASSUME TypeInv
  PROVE  /\ Mild(parse_expr) /\ Mild(parse_rel)
         /\ \A null : ~null => Mild(parse_cond_block(null))
         /\ \A depth \in Nat : \A null : ~null => Mild(parse_instr(depth, null))
         /\ Mild(parse_cond_block(FALSE) \o parse_rel)
         /\ \A pc : Mild(<<Call(pc, Depth, FALSE)>>)
         /\ Mild(<<Call("term", Depth, FALSE), Call("factor", Depth, FALSE)>>)
         /\ Mild(<<Call("if", Depth, FALSE)>> \o parse_rel)
         /\ Mild(<<Call("match", Depth, FALSE)>> \o parse_expr)
<1>0. Depth \in Nat
  BY AtIsCall
<1>1. \A depth \in Nat : \A pc, arg : ~arg => HasNode(Call(pc, depth, arg))
  BY CallIsCall, CallOf DEF HasNode
<1>2. \A pc : HasNode(Call(pc, Depth, FALSE))
  BY <1>0, <1>1
<1>3. ASSUME NEW c, HasNode(c), Calls(<<c>>)  PROVE Mild(<<c>>)
  <2>1. Len(<<c>>) = 1 /\ <<c>>[1] = c /\ \A i \in 1..1 : i = 1
    OBVIOUS
  <2> QED BY <1>3, <2>1, MildIf
<1>4. ASSUME NEW c, NEW d, HasNode(c), HasNode(d), Calls(<<c, d>>)  PROVE Mild(<<c, d>>)
  <2>1. Len(<<c, d>>) = 2 /\ <<c, d>>[1] = c /\ <<c, d>>[2] = d /\ \A i \in 1..2 : i = 1 \/ i = 2
    OBVIOUS
  <2> QED BY <1>4, <2>1, MildIf
<1>5. \A pc : Mild(<<Call(pc, Depth, FALSE)>>)
  BY <1>2, <1>3, CallsMade
<1>6. Mild(<<Call("term", Depth, FALSE), Call("factor", Depth, FALSE)>>) /\ Mild(parse_rel)
  BY <1>2, <1>4, CallsMade DEF parse_rel
<1>7. Mild(parse_expr)
  <2>1. /\ Len(parse_expr) = 3 /\ parse_expr[1] = Call("expr", Depth, FALSE)
        /\ parse_expr[2] = Call("term", Depth, FALSE) /\ parse_expr[3] = Call("factor", Depth, FALSE)
        /\ \A i \in 1..3 : i = 1 \/ i = 2 \/ i = 3
    BY DEF parse_expr
  <2> QED BY <1>2, <2>1, CallsMade, MildIf
<1>8. /\ \A null : ~null => Mild(parse_cond_block(null))
      /\ \A depth \in Nat : \A null : ~null => Mild(parse_instr(depth, null))
  BY <1>0, <1>1, <1>3, CallsMade DEF parse_cond_block, parse_instr
<1>9. Mild(parse_cond_block(FALSE))
  BY <1>5 DEF parse_cond_block
<1> QED BY <1>5, <1>6, <1>7, <1>8, <1>9, MildJoined

LEMMA TameStacks ==
  ASSUME TypeInv, Tame(stack)
  PROVE  /\ Tame(Return)
         /\ \A pc, arg : pc \notin {"instr", "block"} => Tame(Append(Below, At(pc, arg)))
         /\ \A pc : pc \notin {"instr", "block"} => Tame(Then(pc))
         /\ \A pc, cs : pc \notin {"instr", "block"} /\ Mild(cs) => Tame(CallThen(cs, pc))
         /\ \A cs : Mild(cs) => Tame(Instead(cs))
         /\ \A pc \in Operations : \A arg, cs :
              Mild(cs) => Tame(Append(Below, Call(pc, Depth, arg)) \o cs)
<1>1. Mild(Below)
  BY BelowIs DEF Tame, Mild
<1>2. \A pc, arg : pc \notin {"instr", "block"} => Mild(Append(Below, At(pc, arg)))
  <2>1. \A pc, arg : pc \notin {"instr", "block"} => HasNode(At(pc, arg))
    BY AtIsCall DEF HasNode
  <2> QED BY <1>1, <2>1, MildOnTop
<1>3. \A pc \in Operations : \A arg : Mild(Append(Below, Call(pc, Depth, arg)))
  <2>1. \A pc \in Operations : \A arg : HasNode(Call(pc, Depth, arg))
    BY DepthBelow, CallIsCall, CallOf DEF HasNode, Operations
  <2> QED BY <1>1, <2>1, MildOnTop
<1>4. \A s, cs : Mild(s) /\ Mild(cs) => Tame(s \o cs)
  BY MildJoined DEF Mild
<1>5. \A pc, cs : pc \notin {"instr", "block"} /\ Mild(cs) => Tame(CallThen(cs, pc))
  BY <1>2, <1>4 DEF CallThen
<1>6. \A cs : Mild(cs) => Tame(Instead(cs))
  BY <1>1, <1>4 DEF Instead
<1> QED BY <1>1, <1>2, <1>3, <1>4, <1>5, <1>6 DEF Mild, Return, Then

LEMMA GentleForms ==
  ASSUME Ample, NEW s, Tame(s)
  PROVE  /\ \A n \in {0, 1} : \A err, lines, passed : Move(n, s, err, lines, passed) => Gentle
         /\ \A n \in {0, 1} : /\ Go(n, s) => Gentle
                              /\ Complain(n, s) => Gentle
                              /\ \A kind : Emit(kind, n, s) => Gentle
         /\ \A kind : /\ TakeFor(kind, s) => Gentle
                      /\ Expect(kind, s) => Gentle
                      /\ Require(kind, s) => Gentle \/ Stops
         /\ Exit => Stops
<1>1. index \in Nat /\ Len(tokens) \in Nat
  BY DEF Ample, TypeInv
<1>2. ASSUME NEW n \in {0, 1}, NEW err, NEW lines, NEW passed, Move(n, s, err, lines, passed)
      PROVE  Gentle
  BY <1>1, <1>2 DEF Move, Gentle
<1>3. \A n \in {0, 1} : Go(n, s) => Gentle
  BY <1>2 DEF Go
<1>4. \A n \in {0, 1} : Complain(n, s) => Gentle
  BY <1>2 DEF Complain
<1>5. \A n \in {0, 1} : \A kind : Emit(kind, n, s) => Gentle
  BY <1>2 DEF Emit
<1>6. \A kind : TakeFor(kind, s) => Gentle
  BY <1>2 DEF TakeFor
<1>7. \A kind : Expect(kind, s) => Gentle
  BY <1>3, <1>4 DEF Expect
<1>8. Exit => Stops
  BY DEF Exit, Stops
<1>9. \A kind : Require(kind, s) => Gentle \/ Stops
  BY <1>3, <1>8 DEF Require
<1> QED BY <1>2, <1>3, <1>4, <1>5, <1>6, <1>7, <1>8, <1>9

LEMMA TameCalls ==
  ASSUME Ample
  PROVE  /\ Tame(Return)
         /\ \A pc : pc \notin {"instr", "block"} =>
              /\ Tame(Then(pc)) /\ \A arg : Tame(Append(Below, At(pc, arg)))
              /\ Tame(CallThen(parse_expr, pc)) /\ Tame(CallThen(parse_rel, pc))
              /\ Tame(CallThen(parse_cond_block(FALSE), pc))
              /\ Tame(CallThen(parse_cond_block(FALSE) \o parse_rel, pc))
              /\ \A depth \in Nat : Tame(CallThen(parse_instr(depth, Full(Instr)), pc))
         /\ Tame(Instead(parse_expr)) /\ Tame(Instead(parse_rel))
         /\ \A pc : Tame(Instead(<<Call(pc, Depth, FALSE)>>))
         /\ Tame(Instead(<<Call("if", Depth, FALSE)>> \o parse_rel))
         /\ Tame(Instead(<<Call("match", Depth, FALSE)>> \o parse_expr))
         /\ Tame(Instead(parse_cond_block(Full(Block))))
         /\ Tame(Instead(parse_instr(Depth + 1, Full(Instr))))
<1>1. TypeInv /\ Tame(stack) /\ ~Full(Instr) /\ ~Full(Block)
  BY DEF Ample
<1>2. Mild(parse_cond_block(Full(Block))) /\ \A depth \in Nat : Mild(parse_instr(depth, Full(Instr)))
  BY <1>1, MildCalls
<1>3. Mild(parse_cond_block(FALSE)) /\ Mild(parse_instr(Depth + 1, Full(Instr)))
  BY <1>1, <1>2, DepthBelow, MildCalls
<1> QED BY <1>1, <1>2, <1>3, MildCalls, TameStacks

LEMMA FactorFares == ASSUME Ample, Factor PROVE Fares
<1>1. Tame(CallThen(parse_expr, "paren"))
  BY TameCalls
<1>2. PICK s : s = (IF Tok = "id" THEN Then("after id") ELSE Return) /\ Tame(s)
  BY TameCalls
<1>3. ~Full(Expr)
  BY DEF Ample
<1>4. Move(1, s, FALSE, <<>>, {}) \/ Go(1, CallThen(parse_expr, "paren")) \/ Exit
  BY <1>2, <1>3 DEF Factor
<1> QED BY <1>1, <1>2, <1>4, GentleForms DEF Fares

LEMMA AfterIdentifierFares ==
  ASSUME Ample, AfterIdentifier \/ CloseIndex \/ CloseParen \/ Arguments \/ ArgumentComma
  PROVE  Fares
<1>1. /\ Tame(Return) /\ Tame(Then("arguments")) /\ Tame(CallThen(parse_expr, "index"))
      /\ Tame(CallThen(parse_expr, "comma"))
  BY TameCalls
<1> QED BY <1>1, GentleForms
        DEF Fares, AfterIdentifier, CloseIndex, CloseParen, Arguments, ArgumentComma

LEMMA OperatorFares ==
  ASSUME Ample, NEW pc \in Operations, NEW operator, NEW operand, Mild(operand),
         Operators(pc, operator, operand)
  PROVE  Fares
<1>1. PICK s : s = Append(Below, Call(pc, Depth, TRUE)) \o operand /\ Tame(s)
  BY TameStacks DEF Ample
<1>2. Tame(Return)
  BY TameCalls
<1>3. ~NoOperatorNode
  BY DEF Ample, NoOperatorNode
<1>4. Move(1, s, FALSE, <<>>, {}) \/ Move(0, Return, FALSE, <<>>, {})
  BY <1>1, <1>3 DEF Operators
<1> QED BY <1>1, <1>2, <1>4, GentleForms DEF Fares

LEMMA ExpressionFares == ASSUME Ample, Term \/ Expression PROVE Fares
<1>0. TypeInv
  BY DEF Ample
<1>1. CASE Term
  BY <1>0, <1>1, MildCalls, OperatorFares DEF Term, Operations
<1>2. CASE Expression
  BY <1>0, <1>2, MildCalls, OperatorFares DEF Expression, Operations
<1> QED BY <1>1, <1>2

LEMMA RelationFares == ASSUME Ample, parse_term_for_expr \/ Relation PROVE Fares
<1>1. Tame(Return) /\ Tame(Then("after id")) /\ Tame(Instead(<<Call("operand", Depth, FALSE)>>))
  BY TameCalls
<1> QED BY <1>1, GentleForms DEF Fares, parse_term_for_expr, Relation

LEMMA DeclarationFares ==
  ASSUME Ample, DeclareName \/ DeclareSize \/ DeclareArray \/ parse_initialize_array
  PROVE  Fares
<1>1. /\ Tame(Then("size")) /\ Tame(CallThen(parse_expr, "sized")) /\ Tame(Instead(parse_expr))
      /\ Tame(Return) /\ Tame(Then("array")) /\ Tame(Instead(<<Call("elements", Depth, FALSE)>>))
      /\ Tame(Then("element")) /\ Tame(CallThen(parse_expr, "element end"))
  BY TameCalls
<1> QED BY <1>1, GentleForms
        DEF Fares, DeclareName, DeclareSize, DeclareArray, parse_initialize_array

LEMMA SimpleFares == ASSUME Ample, parse_assign \/ parse_goto \/ parse_ret PROVE Fares
<1>1. /\ Tame(CallThen(parse_expr, "subscript")) /\ Tame(Then("arguments")) /\ Tame(Instead(parse_expr))
      /\ Tame(Then("subscript =")) /\ Tame(Return)
      /\ Tame(CallThen(parse_expr, "returned")) /\ Tame(Then("return"))
  BY TameCalls
<1> QED BY <1>1, GentleForms DEF Fares, parse_assign, parse_goto, parse_ret

LEMMA NextInstrFares ==
  ASSUME Ample, NEW depth \in Nat, NEW pc, pc \notin {"instr", "block"}, NextInstr(depth, pc)
  PROVE  Gentle
<1>1. Tame(CallThen(parse_instr(depth, Full(Instr)), pc))
  BY TameCalls
<1> QED BY <1>1, GentleForms DEF NextInstr

LEMMA BodyFares ==
  ASSUME Ample, NEW pc, pc \notin {"instr", "block"}, NEW ends, NEW depth \in Nat, NEW after,
         Tame(after), Body(pc, ends, depth, after)
  PROVE  Gentle
<1>1. Go(1, after) \/ NextInstr(depth, pc)
  BY DEF Body
<1> QED BY <1>1, GentleForms, NextInstrFares

LEMMA CondBlockFares == ASSUME Ample, CondBlock PROVE Fares
<1>0. TypeInv /\ Depth + 1 \in Nat /\ Tame(stack)
  BY DepthBelow DEF Ample
<1>1. Tame(Return) /\ Tame(Then("in block")) /\ Tame(Instead(parse_instr(Depth + 1, Full(Instr))))
  BY TameCalls
<1>2. CASE Body("in block", {"}", "END"}, Depth + 1, Return)
  BY <1>0, <1>1, <1>2, BodyFares DEF Fares
<1>3. CASE ~Body("in block", {"}", "END"}, Depth + 1, Return)
  <2>1. Top.pc = "block" => ~Top.arg
    BY <1>0, TopIsCall DEF Tame, Top
  <2>2. \/ Go(1, Then("in block"))
        \/ Move(0, Instead(parse_instr(Depth + 1, Full(Instr))), Full(Instr), <<>>, {})
    BY <1>3, <2>1 DEF CondBlock
  <2> QED BY <1>1, <2>2, GentleForms DEF Fares
<1> QED BY <1>2, <1>3

LEMMA IfFares == ASSUME Ample, parse_if \/ Else PROVE Fares
<1>1. /\ Tame(CallThen(parse_cond_block(FALSE), "arm")) /\ Tame(Then("else")) /\ Tame(Return)
      /\ Tame(CallThen(parse_cond_block(FALSE) \o parse_rel, "arm"))
      /\ Tame(Instead(parse_cond_block(Full(Block))))
  BY TameCalls
<1> QED BY <1>1, GentleForms DEF Fares, parse_if, Else

LEMMA WastedNodeFares ==
  ASSUME Ample, NEW n \in {0, 1}, NEW lines, NEW pc, pc \notin {"instr", "block"}, WastedNode(n, lines, pc)
  PROVE  Gentle
<1>1. Tame(CallThen(parse_expr, pc))
  BY TameCalls
<1> QED BY <1>1, GentleForms DEF WastedNode

LEMMA MatchFares == ASSUME Ample, parse_match PROVE Fares
<1>1. /\ Tame(Then("case")) /\ Tame(Return) /\ Tame(Then("=>"))
      /\ Tame(CallThen(parse_cond_block(FALSE), "case"))
  BY TameCalls
<1>2. \A n \in {0, 1} : \A lines : \A pc \in {"first value", "=>", "value"} :
        WastedNode(n, lines, pc) => Gentle
  BY WastedNodeFares
<1> QED BY <1>1, <1>2, GentleForms DEF Fares, parse_match

LEMMA LoopFares == ASSUME Ample, parse_loop PROVE Fares
<1>0. Depth + 1 \in Nat
  BY DepthBelow DEF Ample
<1>1. /\ Tame(Then("in")) /\ Tame(CallThen(parse_rel, "open")) /\ Tame(Then("in loop"))
      /\ Tame(Then("until")) /\ Tame(Return) /\ Tame(Instead(parse_rel))
  BY TameCalls
<1>2. CASE Body("in loop", {"}"}, Depth + 1, IF Top.arg = "dowhile" THEN Then("until") ELSE Return)
  <2>1. PICK after : /\ after = (IF Top.arg = "dowhile" THEN Then("until") ELSE Return)
                     /\ Tame(after) /\ Body("in loop", {"}"}, Depth + 1, after)
    BY <1>1, <1>2
  <2> QED BY <1>0, <2>1, BodyFares DEF Fares
<1>3. \A n \in {0, 1} : \A lines : \A pc \in {"from", "open"} : WastedNode(n, lines, pc) => Gentle
  BY WastedNodeFares
<1> QED BY <1>1, <1>2, <1>3, GentleForms DEF Fares, parse_loop

LEMMA ThenOnTop ==
  ASSUME TypeInv, NEW pc, stack' = Then(pc)
  PROVE  Top'.pc = pc /\ Top'.token = Tok
<1>1. PICK c : c = At(pc, Top.arg) /\ c.pc = pc /\ c.token = Tok
  <2>1. At(pc, Top.arg).pc = pc /\ At(pc, Top.arg).token = Tok
    BY DEF At
  <2> QED BY <2>1
<1>2. Then(pc) = Append(Below, c) /\ Calls(Below)
  BY <1>1, BelowOK DEF Then
<1>3. PICK t : t = Append(Below, c) /\ stack' = t
  BY <1>2
<1>4. PICK m \in Nat : Len(t) = m + 1 /\ t[m + 1] = c
  BY <1>2, <1>3, OneMoreIs
<1>5. t[Len(t)] = c
  BY ONLY <1>4
<1> QED BY <1>1, <1>3, <1>5 DEF Top

LEMMA LeapFares ==
  ASSUME Ample, NEW pc, pc \notin {"instr", "block"}, NEW err, NEW lines, NEW passed,
         Move(2, Then(pc), err, lines, passed), Tok = "..." \/ (Tok = "," /\ pc = "more types")
  PROVE  Fares
<1>1. stack' = Then(pc) /\ Tame(Then(pc))
  BY TameCalls DEF Move
<1>2. index' <= index + 2 /\ status' = status
  <2>1. TypeInv
    BY DEF Ample
  <2>2. index \in Nat /\ Len(tokens) \in Nat
    BY ONLY <2>1 DEF TypeInv
  <2>3. Move(2, Then(pc), err, lines, passed)
    OBVIOUS
  <2> QED BY ONLY <2>2, <2>3 DEF Move
<1>3. Top'.pc = pc /\ Top'.token = Tok
  BY <1>1, ThenOnTop DEF Ample
<1> QED BY <1>1, <1>2, <1>3 DEF Fares, Leaps

LEMMA FunctionFares ==
  ASSUME Ample, Parameters \/ ReturnTypes \/ FunctionBody
  PROVE  Fares
<1>0. Depth + 1 \in Nat
  BY DepthBelow DEF Ample
<1>1. /\ \A pc \in {"fn (", "parameter", "name or pointer", "name", "parameter end",
                    "signature", "type", "more types", "body", "in fn"} : Tame(Then(pc))
      /\ Tame(Return)
  BY TameCalls
<1>2. CASE Parameters
  BY <1>1, <1>2, GentleForms, LeapFares DEF Fares, Parameters
<1>3. CASE ReturnTypes
  BY <1>1, <1>3, GentleForms, LeapFares DEF Fares, ReturnTypes
<1>4. CASE FunctionBody
  <2>1. CASE Body("in fn", {"}", "END"}, Depth + 1, Return)
    BY <1>0, <1>1, <2>1, BodyFares DEF Fares
  <2>2. CASE ~Body("in fn", {"}", "END"}, Depth + 1, Return)
    BY <1>1, <1>4, <2>2, GentleForms DEF Fares, FunctionBody
  <2> QED BY <2>1, <2>2
<1> QED BY <1>2, <1>3, <1>4

LEMMA InstructionFares == ASSUME Ample, Instruction PROVE Fares
<1>0. TypeInv /\ Top.pc = "instr" /\ ~Top.arg
  BY TopIsCall DEF Ample, Instruction, Tame, Top
<1> DEFINE go == Append(Below, At(Point(Tok), Tok))
<1>1. CASE Unexpected
  <2>1. Exit => Stops
    BY DEF Exit, Stops
  <2>2. Crash /\ Tok \in {"lit", "bad"} => Stops
    BY <1>0 DEF Crash, Stops
  <2> QED BY <1>1, <2>1, <2>2 DEF Unexpected, Fares
<1>2. CASE Emit(Tok, 1, Return)
  BY <1>2, TameCalls, GentleForms DEF Fares
<1>3. CASE Tok \in Starts /\ (Go(1, go) \/ \E kind : Emit(kind, 1, go))
  <2>1. Point(Tok) \notin {"instr", "block"}
    BY <1>3 DEF Point, Starts, Tree!Loops
  <2>2. Tame(go)
    BY <2>1, TameCalls
  <2> HIDE DEF go
  <2> QED BY <1>3, <2>2, GentleForms DEF Fares
<1>4. CASE Emit("if", 1, Instead(<<Call("if", Depth, FALSE)>> \o parse_rel))
  BY <1>4, TameCalls, GentleForms DEF Fares
<1>5. ASSUME NEW lines, Move(1, Instead(<<Call("match", Depth, FALSE)>> \o parse_expr), Full(Expr), lines, {})
      PROVE  Fares
  BY <1>5, TameCalls, GentleForms DEF Fares
<1> HIDE DEF go
<1> QED BY <1>0, <1>1, <1>2, <1>3, <1>4, <1>5 DEF Instruction, Starts, go

LEMMA ProgramFares == ASSUME Ample, Program PROVE Fares
<1>1. CASE NextInstr(0, "program")
  BY <1>1, NextInstrFares DEF Fares
<1>2. CASE Exit \/ status' = "done"
  BY <1>2 DEF Exit, Stops, Fares
<1> QED BY <1>1, <1>2 DEF Program

\* No step of these writes through NULL, but a report of one token that begins
\* no instruction.
LEMMA FaringSteps == ASSUME Ample, Parse PROVE Fares
<1>1. CASE Exit
  BY <1>1 DEF Exit, Stops, Fares
<1>2. CASE Step
  BY <1>2, FactorFares, AfterIdentifierFares, ExpressionFares, RelationFares, DeclarationFares,
     SimpleFares, CondBlockFares, IfFares, MatchFares, LoopFares, FunctionFares, InstructionFares,
     ProgramFares DEF Step
<1> QED BY <1>1, <1>2 DEF Parse

----------------------------------------------------------------------------
(* The step over the END.                                                  *)

\* A token that is passed without a look is the next, for a name or a type, or
\* the one after it.
Blindly ==
  \E passed : /\ unseen' = unseen \cup passed
              /\ \A u \in passed : u[1] = index + 1 \/ (u[1] = index /\ u[2] \in {"id", "type"})

LEMMA BlindForms ==
  /\ UNCHANGED unseen => Blindly
  /\ \A n, s, err, lines : Move(n, s, err, lines, {}) => Blindly
  /\ \A n, s, err, lines, k : Move(n, s, err, lines, {<<index + 1, k>>}) => Blindly
  /\ \A n, s : (Go(n, s) => Blindly) /\ (Complain(n, s) => Blindly)
  /\ \A kind, n, s : Emit(kind, n, s) => Blindly
  /\ \A s : \A k \in {"id", "type"} : TakeFor(k, s) => Blindly
  /\ \A kind, s : (Expect(kind, s) => Blindly) /\ (Require(kind, s) => Blindly)
  /\ Exit => Blindly
  /\ Crash => Blindly
<1>0. ASSUME NEW passed, unseen' = unseen \cup passed,
             \A u \in passed : u[1] = index + 1 \/ (u[1] = index /\ u[2] \in {"id", "type"})
      PROVE  Blindly
  BY <1>0 DEF Blindly
<1>1. UNCHANGED unseen => Blindly
  <2> HAVE UNCHANGED unseen
  <2>0. unseen' = unseen \cup {}
    OBVIOUS
  <2>1. PICK passed : passed = {} /\ unseen' = unseen \cup passed
    BY <2>0
  <2> QED BY <1>0, <2>1
<1>2. \A n, s, err, lines : Move(n, s, err, lines, {}) => Blindly
  <2> TAKE n, s, err, lines
  <2> HAVE Move(n, s, err, lines, {})
  <2>1. PICK passed : passed = {} /\ unseen' = unseen \cup passed
    BY DEF Move
  <2> QED BY <1>0, <2>1
<1>3. \A n, s, err, lines, k : Move(n, s, err, lines, {<<index + 1, k>>}) => Blindly
  <2> TAKE n, s, err, lines, k
  <2> HAVE Move(n, s, err, lines, {<<index + 1, k>>})
  <2>1. PICK passed : passed = {<<index + 1, k>>} /\ unseen' = unseen \cup passed
    BY DEF Move
  <2>2. \A u \in passed : u[1] = index + 1
    BY <2>1
  <2> QED BY <1>0, <2>1, <2>2
<1>4. \A n, s : (Go(n, s) => Blindly) /\ (Complain(n, s) => Blindly)
  BY <1>2 DEF Go, Complain
<1>5. \A kind, n, s : Emit(kind, n, s) => Blindly
  BY <1>2 DEF Emit
<1>6. \A s : \A k \in {"id", "type"} : TakeFor(k, s) => Blindly
  <2> TAKE s
  <2> TAKE k \in {"id", "type"}
  <2> HAVE TakeFor(k, s)
  <2>1. PICK passed : passed = {<<index, k>>} /\ unseen' = unseen \cup passed
    BY DEF TakeFor, Move
  <2>2. \A u \in passed : u[1] = index /\ u[2] \in {"id", "type"}
    BY <2>1
  <2> QED BY <1>0, <2>1, <2>2
<1>7. (Exit => Blindly) /\ (Crash => Blindly)
  BY <1>1 DEF Exit, Crash
<1>8. \A kind, s : (Expect(kind, s) => Blindly) /\ (Require(kind, s) => Blindly)
  BY <1>4, <1>7 DEF Expect, Require
<1> QED BY <1>1, <1>2, <1>3, <1>4, <1>5, <1>6, <1>7, <1>8

LEMMA BlindSteps == Parse => Blindly
<1> SUFFICES ASSUME Parse PROVE Blindly
  OBVIOUS
<1>1. \A depth, pc : NextInstr(depth, pc) => Blindly
  BY BlindForms DEF NextInstr
<1>2. \A pc, ends, depth, after : Body(pc, ends, depth, after) => Blindly
  BY <1>1, BlindForms DEF Body
<1>3. \A n, lines, pc : WastedNode(n, lines, pc) => Blindly
  BY BlindForms DEF WastedNode
<1>4. \A pc, operator, operand : Operators(pc, operator, operand) => Blindly
  BY BlindForms DEF Operators
<1>5. CASE Exit
  BY <1>5, BlindForms
<1>6. CASE Factor \/ AfterIdentifier \/ CloseIndex \/ CloseParen \/ Arguments \/ ArgumentComma
  BY <1>6, BlindForms DEF Factor, AfterIdentifier, CloseIndex, CloseParen, Arguments, ArgumentComma
<1>7. CASE Term \/ Expression \/ parse_term_for_expr \/ Relation
  BY <1>4, <1>7, BlindForms DEF Term, Expression, parse_term_for_expr, Relation
<1>8. CASE DeclareName \/ DeclareSize \/ DeclareArray \/ parse_initialize_array
  BY <1>8, BlindForms DEF DeclareName, DeclareSize, DeclareArray, parse_initialize_array
<1>9. CASE parse_assign \/ parse_goto \/ parse_ret
  BY <1>9, BlindForms DEF parse_assign, parse_goto, parse_ret
<1>10. CASE CondBlock \/ parse_if \/ Else
  BY <1>2, <1>10, BlindForms DEF CondBlock, parse_if, Else
<1>11. CASE parse_match
  BY <1>3, <1>11, BlindForms DEF parse_match
<1>12. CASE parse_loop
  BY <1>2, <1>3, <1>12, BlindForms DEF parse_loop
<1>13. CASE Parameters \/ ReturnTypes
  BY <1>13, BlindForms DEF Parameters, ReturnTypes
<1>14. CASE FunctionBody
  BY <1>2, <1>14, BlindForms DEF FunctionBody
<1>15. CASE Instruction
  BY <1>15, BlindForms DEF Instruction, Unexpected
<1>16. CASE Program
  BY <1>1, <1>16, BlindForms DEF Program
<1> QED BY <1>5, <1>6, <1>7, <1>8, <1>9, <1>10, <1>11, <1>12, <1>13, <1>14, <1>15, <1>16
        DEF Parse, Step

LEMMA NumberThen ==
  ASSUME Len(tokens') \in Nat
  PROVE  \A k : \A n \in 0..Len(tokens') : Number(k, n)' = Till(k, n, TakenAs')
<1> TAKE k
<1> TAKE n \in 0..Len(tokens')
<1>1. ASSUME NEW i \in 1..n  PROVE Taken'[i] = TakenAs'[i]
  BY DEF Taken, TakenAs, TakenFor
<1>2. {i \in 1..n : Taken'[i] = k} = Places(k, n, TakenAs')
  BY <1>1 DEF Places
<1> QED BY <1>2 DEF Number, Till

\* What is taken for its place before the END stays.
LEMMA TakenToTheEnd ==
  ASSUME TypeInv, EndIsLast, Whole, ~Past, Tok = "END", UNCHANGED tokens, Blindly
  PROVE  /\ index \in Nat /\ Len(tokens) = index + 1
         /\ \A i \in 1..index : TakenAs'[i] = TakenAs[i]
         /\ TakenAs'[index + 1] \in {"END", "id", "type"}
<1>1. /\ index \in Nat /\ Len(tokens) \in Nat /\ index + 1 = Len(tokens)
      /\ tokens[index + 1] = "END"
  <2>1. index \in Nat /\ index < Len(tokens) /\ tokens[index + 1] = "END" /\ Len(tokens) \in Nat
    BY TokIsNext
  <2>2. ~(index + 1 \in 1..(Len(tokens) - 1))
    BY <2>1 DEF EndIsLast
  <2> QED BY <2>1, <2>2
<1>2. PICK passed : /\ unseen' = unseen \cup passed
                    /\ \A u \in passed : u[1] = index + 1 \/ (u[1] = index /\ u[2] \in {"id", "type"})
  BY DEF Blindly
<1>3. \A u \in unseen : u[1] \in Nat /\ u[1] < index
  BY DEF Whole
<1>4. ASSUME NEW i \in Nat
      PROVE  /\ TakenAs[i] = TakenFor({u \in unseen : u[1] = i - 1}, tokens[i])
             /\ TakenAs'[i] = TakenFor({u \in unseen' : u[1] = i - 1}, tokens[i])
  BY DEF TakenAs
<1>5. ASSUME NEW i \in 1..index  PROVE TakenAs'[i] = TakenAs[i]
  <2>1. {u \in unseen' : u[1] = i - 1} = {u \in unseen : u[1] = i - 1}
    <3>1. \A u \in passed : u[1] # i - 1
      BY <1>1, <1>2
    <3> QED BY <1>2, <3>1
  <2>2. i \in Nat
    BY <1>1
  <2> QED BY <1>4, <2>1, <2>2, Zenon
<1>6. TakenAs'[index + 1] \in {"END", "id", "type"}
  <2>1. PICK blind : blind = {u \in unseen' : u[1] = (index + 1) - 1}
    OBVIOUS
  <2>2. \A u \in blind : u[2] \in {"id", "type"}
    BY <1>1, <1>2, <1>3, <2>1
  <2>3. TakenAs'[index + 1] = TakenFor(blind, "END")
    BY <1>1, <1>4, <2>1
  <2> QED BY <2>2, <2>3 DEF TakenFor
<1> QED BY <1>1, <1>5, <1>6

\* A bracket that a call holds is not closed any more.
LEMMA HeldUnclosed ==
  ASSUME TypeInv, EndIsLast, Whole, ~Past, Tok = "END", UNCHANGED tokens, Blindly,
         NEW o \in Opens, Held(o, stack) # 0
  PROVE  StopsInside'
<1>1. PICK n \in Nat : n = index /\ Len(tokens) = n + 1
  BY TakenToTheEnd
<1>2. PICK f : f = TakenAs'
  OBVIOUS
<1>3. /\ \A i \in 1..n : f[i] = TakenAs[i]
      /\ f[n + 1] \in {"END", "id", "type"}
  BY <1>1, <1>2, TakenToTheEnd
<1>4. ASSUME NEW k, k \notin {"END", "id", "type"}
      PROVE  Number(k, Len(tokens))' = Till(k, n, TakenAs)
  <2>1. Number(k, Len(tokens))' = Till(k, n + 1, f)
    <3>1. Len(tokens') = n + 1 /\ n + 1 \in 0..Len(tokens')
      BY <1>1
    <3>2. Number(k, Len(tokens))' = Number(k, n + 1)'
      BY <1>1 DEF Number
    <3> QED BY <1>2, <3>1, <3>2, NumberThen
  <2>2. Till(k, n + 1, f) = Till(k, n, f) /\ Till(k, n, f) \in Nat
    BY <1>3, <1>4, TillIsNat
  <2>3. Till(k, n, f) = Till(k, n, TakenAs)
    BY <1>3, SameTill
  <2> QED BY <2>1, <2>2, <2>3
<1>5. Till(o, n, TakenAs) = Till(Close(o), n, TakenAs) + Held(o, stack)
  BY <1>1 DEF Whole, Counted
<1>6. Till(Close(o), n, TakenAs) \in Nat /\ Held(o, stack) \in Nat \ {0}
  BY TillIsNat, HeldIsNat DEF TypeInv, IsStack
<1>7. o \notin {"END", "id", "type"} /\ Close(o) \notin {"END", "id", "type"}
  BY DEF Opens, Close
<1>8. Number(Close(o), Len(tokens))' < Number(o, Len(tokens))'
  BY <1>4, <1>5, <1>6, <1>7
<1>9. PICK pair \in BracketPairs : pair[1] = o /\ pair[2] = Close(o)
  <2>1. \A a, b : <<a, b>>[1] = a /\ <<a, b>>[2] = b
    OBVIOUS
  <2>2. <<o, Close(o)>> \in BracketPairs
    BY DEF Opens, Close, BracketPairs
  <2> QED BY <2>1, <2>2
<1>10. Unclosed(pair)'
  BY <1>8, <1>9 DEF Unclosed
<1> QED BY <1>10 DEF StopsInside

LEMMA HeldBy ==
  ASSUME TypeInv, NEW i \in 1..Len(stack), NEW o \in Opens, stack[i].pc \in Inside(o)
  PROVE  Held(o, stack) # 0
<1>1. i \in Holders(o, stack)
  BY DEF Holders
<1> QED BY <1>1, HeldIsNat DEF TypeInv, IsStack

\* Nested bodies that hold no bracket are arms.
LEMMA BackOrHeld ==
  ASSUME TypeInv, NEW n \in 0..Len(stack), \A i \in 1..n : stack[i].pc \in Parents /\ ~ElseArm(stack[i])
  PROVE  Back(n) \/ \E o \in Opens : Held(o, stack) # 0
<1>0. n \in Nat /\ n <= Len(stack) /\ Len(stack) \in Nat
  BY TopIsCall
<1>1. CASE \E i \in 1..n : stack[i].pc \in {"case", "in block", "in loop", "in fn"}
  <2>1. PICK i \in 1..n : stack[i].pc \in {"case", "in block", "in loop", "in fn"}
    BY <1>1
  <2>2. i \in 1..Len(stack) /\ "{" \in Opens /\ stack[i].pc \in Inside("{")
    <3>1. i \in 1..Len(stack)
      BY ONLY <1>0, i \in 1..n
    <3>2. "{" \in Opens /\ {"case", "in block", "in loop", "in fn"} \subseteq Inside("{")
      BY DEF Inside, Opens
    <3> QED BY <2>1, <3>1, <3>2
  <2> QED BY <2>2, HeldBy
<1>2. CASE \A i \in 1..n : stack[i].pc \notin {"case", "in block", "in loop", "in fn"}
  BY <1>2 DEF Back, Arms, Parents
<1> QED BY <1>1, <1>2

\* What takes the END for a token.
EndTaken ==
  \/ Top.pc \in {"index", "paren", "subscript", "in block", "in fn", "name or pointer", "name"}
  \/ Top.pc \in {"operand", "goto"} /\ stack' = Return /\ arena' = arena
  \/ \E pc \in {"size", "fn (", "in loop"} : stack' = Then(pc)
  \/ stack' = Instead(parse_expr)

LEMMA EndTakes ==
  ASSUME TypeInv, ~Past, Tok = "END", Step, index' # index
  PROVE  EndTaken
<1>0. index \in Nat /\ index < Len(tokens)
  BY TokIsNext
<1>1. \A s, err, lines, passed : ~Move(0, s, err, lines, passed)
  BY <1>0 DEF Move
<1>2. \A s : ~Go(0, s) /\ ~Complain(0, s) /\ \A kind : ~Emit(kind, 0, s)
  BY <1>1 DEF Go, Complain, Emit
<1>3. \A lines, pc : ~WastedNode(0, lines, pc)
  BY <1>1 DEF WastedNode
<1>4. \A depth, pc : ~NextInstr(depth, pc)
  BY <1>1 DEF NextInstr
<1>5. ~Exit /\ ~Crash
  BY DEF Exit, Crash
<1>6. \A n, s : (Go(n, s) \/ Complain(n, s)) => stack' = s /\ arena' = arena
  BY DEF Go, Complain, Move, NoNode
<1>7. \A kind, s : TakeFor(kind, s) => stack' = s
  BY DEF TakeFor, Move
<1>8. \A pc, ends, depth, after : Body(pc, ends, depth, after) => "END" \in ends /\ Top.pc = pc
  BY <1>4 DEF Body
<1>9. CASE Factor \/ AfterIdentifier \/ CloseIndex \/ CloseParen \/ Arguments \/ ArgumentComma
  BY <1>2, <1>5, <1>9
     DEF EndTaken, Factor, AfterIdentifier, CloseIndex, CloseParen, Arguments, ArgumentComma
<1>10. CASE Term \/ Expression
  BY <1>1, <1>5, <1>10 DEF Term, Expression, Operators
<1>11. CASE parse_term_for_expr \/ Relation
  BY <1>2, <1>6, <1>11 DEF EndTaken, parse_term_for_expr, Relation
<1>12. CASE DeclareName \/ DeclareSize \/ DeclareArray \/ parse_initialize_array
  BY <1>2, <1>7, <1>12 DEF EndTaken, DeclareName, DeclareSize, DeclareArray, parse_initialize_array
<1>13. CASE parse_assign \/ parse_goto \/ parse_ret
  BY <1>2, <1>6, <1>13 DEF EndTaken, Expect, parse_assign, parse_goto, parse_ret
<1>14. CASE CondBlock \/ parse_if \/ Else
  BY <1>1, <1>2, <1>5, <1>8, <1>14 DEF EndTaken, CondBlock, parse_if, Else
<1>15. CASE parse_match
  BY <1>2, <1>3, <1>5, <1>15 DEF EndTaken, Require, parse_match
<1>16. CASE parse_loop
  <2>1. Expect("{", Then("in loop")) => stack' = Then("in loop")
    BY <1>6 DEF Expect
  <2>2. ~Require("id", Then("in")) /\ "END" \notin {"}"}
    BY <1>5 DEF Require
  <2> QED BY <1>2, <1>5, <1>8, <1>16, <2>1, <2>2 DEF EndTaken, parse_loop
<1>17. CASE Parameters \/ ReturnTypes
  BY <1>2, <1>7, <1>17 DEF EndTaken, Parameters, ReturnTypes
<1>18. CASE FunctionBody
  BY <1>2, <1>8, <1>18 DEF EndTaken, FunctionBody
<1>19. CASE Instruction
  BY <1>5, <1>19 DEF Instruction, Unexpected, Starts, Tree!Loops
<1>20. CASE Program
  BY <1>20 DEF Program
<1> QED BY <1>9, <1>10, <1>11, <1>12, <1>13, <1>14, <1>15, <1>16, <1>17, <1>18, <1>19, <1>20 DEF Step

LEMMA ArmsBelow ==
  ASSUME TypeInv, NEW n \in 0..(Len(stack) - 1), Arms(stack, n)
  PROVE  Arms(Below, n)
BY BelowIs DEF Arms

\* The calls that are doomed, one way or another.
LEMMA Dooms ==
  ASSUME NEW s, stack' = s, NEW n, n = Len(s), NEW c, c = s[n]
  PROVE  /\ Arms(s, n) => Doomed'
         /\ /\ Arms(s, n - 1) /\ c.token = Zero
            /\ c.pc \in {"goto", "rel"} \/ (c.pc = "instr" /\ ~c.arg)
            => Doomed'
         /\ /\ Arms(s, n - 1) /\ c.token = Zero /\ ~Full(Instr)'
            /\ c.pc = "if" \/ (c.pc = "block" /\ ~c.arg)
            => Doomed'
         /\ \A d : /\ Arms(s, n - 2) /\ c.token = Zero /\ c.pc = "rel" /\ ~Full(Instr)'
                   /\ d = s[n - 1] /\ d.token = Zero
                   /\ d.pc = "if" \/ (d.pc = "block" /\ ~d.arg)
                   => Doomed'
         /\ \A d : c.pc = "rel" /\ c.token = Zero /\ d = s[n - 1] /\ d.pc = "open" /\ d.token = "END"
                   => Doomed'
         /\ c.token = "END" /\ c.pc \notin Operations => Doomed'
         /\ c.pc = "factor" /\ c.token = Zero => Doomed'
         /\ c.pc = "more types" /\ c.token = "," => Doomed'
<1>1. stack' = s /\ Len(stack') = n /\ Top' = c
  BY DEF Top
<1> QED BY <1>1 DEF Doomed, Back

\* The calls below an operand or the label of a goto.
LEMMA OperandDooms ==
  ASSUME TypeInv, Shape, ~Past, Tok = "END", Tame(stack), ~Full(Instr)', Top.pc = "operand", stack' = Return,
         UNCHANGED tokens, \A o \in Opens : Held(o, stack) = 0, EndIsLast
  PROVE  StopsInside' \/ Doomed'
<1>1. PICK m \in Nat : m = Len(stack) /\ Top = stack[m]
  BY TopIsCall DEF Top
<1>2. ShapeAt(stack, index) /\ Sound(stack)
  BY DEF Shape, ShapeAt
<1>3. index \in Nat /\ index + 1 = Len(tokens) /\ tokens[index + 1] = "END"
  <2>1. index \in Nat /\ index < Len(tokens) /\ tokens[index + 1] = "END" /\ Len(tokens) \in Nat
    BY TokIsNext
  <2>2. ~(index + 1 \in 1..(Len(tokens) - 1))
    BY <2>1 DEF EndIsLast
  <2> QED BY <2>1, <2>2
<1>4. CASE tokens[index] = "rel"
  <2>1. tokens[Len(tokens) - 1] = "rel"
    BY <1>3, <1>4
  <2> QED BY <2>1 DEF StopsInside
<1>5. CASE /\ stack[m - 1].pc = "rel"
           /\ stack[m - 2].pc = "open" => stack[m - 2].token = "END"
  <2>1. m - 1 \in 2..m
    <3>1. stack[1].pc = "program" /\ m # 0
      BY <1>1 DEF TypeInv, IsStack
    <3>2. m # 1 /\ m - 1 # 1
      BY <1>1, <1>5, <3>1
    <3> QED BY <1>1, <3>1, <3>2
  <2>2. PICK c, d : c = stack[m - 1] /\ d = stack[m - 2]
    OBVIOUS
  <2>3. c.pc = "rel" /\ c.token = Zero /\ d.pc \in Parents \cup {"if", "open", "block"}
    <3>1. m - 1 \in 1..m /\ (m - 1) - 1 = m - 2
      BY <2>1
    <3> QED BY <1>1, <1>2, <1>5, <2>1, <2>2, <3>1 DEF Sound, Fresh
  <2>4. /\ stack' = Below /\ Len(Below) = m - 1 /\ Below[m - 1] = c /\ Below[(m - 1) - 1] = d
    <3>1. m - 1 \in 1..(m - 1) /\ m - 2 \in 1..(m - 1) /\ (m - 1) - 1 = m - 2
      BY <2>1
    <3> QED BY <1>1, <2>2, <3>1, BelowIs DEF Return
  <2>5. \A i \in 1..m : ~ElseArm(stack[i])
    BY <1>1, <1>2 DEF ShapeAt
  <2>6. \A i \in 1..(m - 3) : stack[i].pc \in Parents
    <3>1. m - 2 \in 1..m /\ (m - 2) - 1 = m - 3
      BY <2>1
    <3>2. d.pc \notin ExprLevel
      BY <2>3 DEF ExprLevel, Parents
    <3> QED BY <1>1, <1>2, <2>2, <3>1, <3>2 DEF Sound
  <2>7. CASE d.pc = "open"
    BY <1>5, <2>2, <2>3, <2>4, <2>7, Dooms
  <2>8. CASE d.pc \in {"if", "block"}
    <3>1. d.token = Zero /\ (d.pc = "block" => ~d.arg)
      <4>1. m - 2 \in 1..Len(stack)
        BY <1>1, <2>1
      <4> QED BY <1>2, <2>2, <2>8, <4>1 DEF Sound, Fresh, Tame
    <3>2. Arms(Below, (m - 1) - 2)
      <4>1. m - 3 \in 0..(Len(stack) - 1) /\ m - 3 \in 0..Len(stack) /\ (m - 1) - 2 = m - 3
        BY <1>1, <2>1
      <4>2. \A i \in 1..(m - 3) : stack[i].pc \in Parents /\ ~ElseArm(stack[i])
        BY <2>1, <2>5, <2>6
      <4>3. Back(m - 3)
        BY <4>1, <4>2, BackOrHeld
      <4> QED BY <4>1, <4>3, ArmsBelow DEF Back
    <3> QED BY <2>3, <2>4, <2>8, <3>1, <3>2, Dooms
  <2>9. CASE d.pc \in Parents
    <3>1. Arms(Below, (m - 1) - 1)
      <4>1. m - 2 \in 0..(Len(stack) - 1) /\ m - 2 \in 0..Len(stack) /\ (m - 1) - 1 = m - 2
        BY <1>1, <2>1
      <4>2. \A i \in 1..(m - 2) : stack[i].pc \in Parents /\ ~ElseArm(stack[i])
        <5>1. \A i \in 1..(m - 2) : i \in 1..(m - 3) \/ i = m - 2
          BY <2>1
        <5>2. \A i \in 1..(m - 2) : i \in 1..m
          BY <2>1
        <5> QED BY <2>2, <2>5, <2>6, <2>9, <5>1, <5>2
      <4>3. Back(m - 2)
        BY <4>1, <4>2, BackOrHeld
      <4> QED BY <4>1, <4>3, ArmsBelow DEF Back
    <3> QED BY <2>3, <2>4, <3>1, Dooms
  <2> QED BY <2>3, <2>7, <2>8, <2>9
<1> QED BY <1>1, <1>2, <1>3, <1>4, <1>5 DEF ShapeAt

\* A step that takes the END leaves a bracket open, or calls that are doomed.
LEMMA EndDooms ==
  ASSUME TypeInv, EndIsLast, Whole, Shape, ~Past, Tok = "END", Tame(stack), UNCHANGED tokens,
         Blindly, EndTaken, ~Full(Instr)
  PROVE  StopsInside' \/ Doomed'
<1>1. PICK m \in Nat : m = Len(stack) /\ m # 0 /\ Top = stack[m]
  BY TopIsCall DEF Top
<1>2. CASE \E o \in Opens : Held(o, stack) # 0
  BY <1>2, HeldUnclosed
<1>3. CASE Top.pc \in {"index", "paren", "subscript", "in block", "in fn", "name or pointer", "name"}
  <2>1. PICK o \in Opens : Top.pc \in Inside(o)
    BY <1>3, Points
  <2>2. m \in 1..Len(stack)
    BY <1>1
  <2> QED BY <1>1, <1>2, <2>1, <2>2, HeldBy
<1>4. CASE \E pc \in {"size", "fn (", "in loop"} : stack' = Then(pc)
  <2>1. PICK pc \in {"size", "fn (", "in loop"} : stack' = Then(pc)
    BY <1>4
  <2>2. Top'.pc = pc /\ Top'.token = "END"
    BY <2>1, ThenOnTop
  <2>3. Top'.pc \notin Operations
    BY <2>2 DEF Operations
  <2> QED BY <2>2, <2>3 DEF Doomed
<1>5. CASE stack' = Instead(parse_expr)
  <2>1. Calls(parse_expr) /\ Len(parse_expr) = 3 /\ parse_expr[3] = Call("factor", Depth, FALSE)
    BY CallsMade DEF parse_expr
  <2>2. PICK s : s = Below \o parse_expr
    OBVIOUS
  <2>3. s[Len(s)] = Call("factor", Depth, FALSE)
    <3>1. Calls(Below) /\ Len(parse_expr) # 0
      BY <2>1, BelowIs
    <3>2. s[Len(s)] = parse_expr[Len(parse_expr)]
      BY <2>1, <2>2, <3>1, LastOfJoined
    <3> QED BY <2>1, <3>2
  <2>4. Top' = Call("factor", Depth, FALSE)
    BY <1>5, <2>2, <2>3 DEF Top, Instead
  <2>5. Top'.pc = "factor" /\ Top'.token = Zero
    BY <2>4 DEF Call
  <2> QED BY <2>5 DEF Doomed
<1>6. CASE Top.pc \in {"operand", "goto"} /\ stack' = Return /\ arena' = arena /\ \A o \in Opens : Held(o, stack) = 0
  <2>0. ~Full(Instr)'
    BY <1>6 DEF Full
  <2>1. CASE Top.pc = "operand"
    BY <1>6, <2>0, <2>1, OperandDooms
  <2>2. CASE Top.pc = "goto"
    <3>1. \A i \in 1..(m - 1) : stack[i].pc \in Parents /\ ~ElseArm(stack[i])
      <4>1. m \in 1..Len(stack) /\ \A i \in 1..(m - 1) : i \in 1..Len(stack)
        BY <1>1
      <4>2. "goto" \notin ExprLevel /\ "goto" \notin {"block", "instr"}
        BY DEF ExprLevel
      <4> QED BY <1>1, <2>2, <4>1, <4>2 DEF Shape, ShapeAt, Sound
    <3>2. m - 1 \in 0..(Len(stack) - 1) /\ m - 1 \in 0..Len(stack)
      BY <1>1
    <3>3. Arms(stack, m - 1)
      BY <1>6, <3>1, <3>2, BackOrHeld DEF Back
    <3>4. Arms(Below, m - 1) /\ Len(Below) = m - 1
      BY <1>1, <3>2, <3>3, ArmsBelow, BelowIs
    <3>5. stack' = Below
      BY <1>6 DEF Return
    <3> QED BY <3>4, <3>5, Dooms
  <2> QED BY <1>6, <2>1, <2>2
<1> QED BY <1>2, <1>3, <1>4, <1>5, <1>6 DEF EndTaken

----------------------------------------------------------------------------
(* Past the end.                                                           *)

\* What is open there stays open.
LEMMA StaysInside ==
  ASSUME TypeInv, Past, UNCHANGED tokens, Blindly, StopsInside
  PROVE  StopsInside'
<1>1. index \in Nat /\ Len(tokens) \in Nat /\ Len(tokens) <= index
  BY DEF TypeInv, Past, InRange, Count, Array
<1>2. PICK passed : /\ unseen' = unseen \cup passed
                    /\ \A u \in passed : u[1] = index + 1 \/ u[1] = index
  BY DEF Blindly
<1>3. ASSUME NEW i \in 1..Len(tokens)
      PROVE  {u \in unseen' : u[1] = i - 1} = {u \in unseen : u[1] = i - 1}
  <2>1. \A u \in passed : u[1] # i - 1
    BY <1>1, <1>2
  <2> QED BY <1>2, <2>1
<1>4. Taken' = Taken
  <2>1. Taken = [i \in 1..Len(tokens) |-> TakenFor({u \in unseen : u[1] = i - 1}, tokens[i])]
    BY Zenon DEF Taken, TakenFor
  <2>2. Taken' = [i \in 1..Len(tokens') |-> TakenFor({u \in unseen' : u[1] = i - 1}, tokens'[i])]
    BY Zenon DEF Taken, TakenFor
  <2>3. tokens' = tokens
    OBVIOUS
  <2>4. Taken' = [i \in 1..Len(tokens) |-> TakenFor({u \in unseen' : u[1] = i - 1}, tokens[i])]
    BY <2>2, <2>3, Zenon
  <2> QED BY <1>3, <2>1, <2>4, Zenon
<1>5. \A k, n : Number(k, n)' = Number(k, n)
  BY <1>4 DEF Number
<1>6. \A pair : Unclosed(pair)' <=> Unclosed(pair)
  BY <1>5 DEF Unclosed
<1> QED BY <1>6 DEF StopsInside

LEMMA StaysPast ==
  ASSUME TypeInv, TypeInv', Parse, Complete, Past
  PROVE  (Complete /\ Past)'
<1>1. Thrifty \/ UNCHANGED <<index, stack, arena>>
  BY ThriftySteps
<1>2. UNCHANGED tokens
  BY DEF Parse
<1>3. CASE UNCHANGED <<index, stack, arena>>
  BY <1>2, <1>3 DEF Complete, Past, Array
<1>4. CASE Thrifty
  <2>1. PICK m \in Nat : (~(Complete /\ Past))' => index' = index + m
    BY <1>4 DEF Thrifty, Spends
  <2> SUFFICES ASSUME (~(Complete /\ Past))' PROVE FALSE
    OBVIOUS
  <2>2. index' = index + m /\ index \in Nat /\ Len(tokens) \in Nat
    BY <2>1 DEF TypeInv
  <2> QED BY <1>2, <2>2 DEF Complete, Past, InRange, Count, Array
<1> QED BY <1>1, <1>3, <1>4

\* The arena keeps its size.
LEMMA StaysEnough ==
  ASSUME TypeInv, Parse
  PROVE  arena'.capacity = arena.capacity /\ (Enough' <=> Enough)
<1>1. UNCHANGED tokens /\ IsArena(arena)
  BY DEF Parse, TypeInv
<1>2. arena'.capacity = arena.capacity
  <2>1. CASE arena' = arena
    BY <2>1
  <2>2. CASE \E size \in {Instr, Expr, Block} : Push(size)
    <3>1. PICK size \in {Instr, Expr, Block} : arena' = arena_push(arena, size)
      BY <2>2 DEF Push
    <3> QED BY <3>1, <1>1, BiggestOfSizes, PushInside
  <2> QED BY <2>1, <2>2, ThriftySteps DEF Thrifty, Spends
<1> QED BY <1>1, <1>2 DEF Enough, Room

\* Which action a call that is doomed takes.
LEMMA Elsewhere ==
  ASSUME NEW pcs,
         pcs = {"program", "arm", "goto", "rel", "instr", "if", "block", "factor", "more types"}
  PROVE  /\ AfterIdentifier \/ CloseIndex \/ CloseParen \/ Arguments \/ ArgumentComma => Top.pc \notin pcs
         /\ Term \/ Expression \/ parse_term_for_expr => Top.pc \notin pcs
         /\ DeclareName \/ DeclareSize \/ DeclareArray \/ parse_initialize_array => Top.pc \notin pcs
         /\ parse_assign \/ parse_ret \/ Else => Top.pc \notin pcs
         /\ parse_match \/ parse_loop => Top.pc \notin pcs
         /\ Parameters \/ FunctionBody => Top.pc \notin pcs
<1>1. AfterIdentifier \/ CloseIndex \/ CloseParen \/ Arguments \/ ArgumentComma => Top.pc \notin pcs
  BY DEF AfterIdentifier, CloseIndex, CloseParen, Arguments, ArgumentComma
<1>2. Term \/ Expression \/ parse_term_for_expr => Top.pc \notin pcs
  BY DEF Term, Expression, Operators, parse_term_for_expr
<1>3. DeclareName \/ DeclareSize \/ DeclareArray \/ parse_initialize_array => Top.pc \notin pcs
  BY DEF DeclareName, DeclareSize, DeclareArray, parse_initialize_array
<1>4. parse_assign \/ parse_ret \/ Else => Top.pc \notin pcs
  BY DEF parse_assign, parse_ret, Else
<1>5. parse_match \/ parse_loop => Top.pc \notin pcs
  BY DEF parse_match, parse_loop, Body
<1>6. Parameters \/ FunctionBody => Top.pc \notin pcs
  BY DEF Parameters, FunctionBody, Body
<1> QED BY <1>1, <1>2, <1>3, <1>4, <1>5, <1>6

\* What they do with a token that is not the END.
LEMMA DoomedTake ==
  ASSUME Step, Errors, Tok # "END"
  PROVE  /\ Top.pc = "program" => Exit
         /\ Top.pc = "arm" /\ Tok # "else" => Go(0, Return)
         /\ Top.pc = "goto" /\ Tok = Zero => Complain(1, Return)
         /\ Top.pc = "rel" /\ Tok = Zero => Complain(0, Return)
         /\ Top.pc = "if" => Go(0, CallThen(parse_cond_block(FALSE), "arm"))
         /\ Top.pc = "block" /\ Tok = Zero /\ ~Top.arg =>
              Move(0, Instead(parse_instr(Depth + 1, Full(Instr))), Full(Instr), <<>>, {})
         /\ Top.pc = "factor" /\ Tok = Zero => Exit
         /\ Top.pc = "more types" /\ Tok = "," =>
              Move(2, Then("more types"), FALSE, <<>>, {<<index + 1, "type">>})
         /\ Top.pc = "instr" /\ Tok = Zero /\ ~Top.arg =>
              Emit("goto", 1, Append(Below, At("goto", Tok)))
<1>0. DEFINE pcs == {"program", "arm", "goto", "rel", "instr", "if", "block", "factor", "more types"}
<1>1. Top.pc \in pcs =>
        Program \/ parse_if \/ parse_goto \/ Relation \/ Instruction \/ CondBlock \/ Factor \/ ReturnTypes
  BY Elsewhere DEF Step
<1>2. /\ Program => Top.pc = "program" /\ Exit
      /\ parse_goto => Top.pc = "goto" /\ (Tok = Zero => Complain(1, Return))
      /\ Relation => Top.pc = "rel" /\ (Tok = Zero => Complain(0, Return))
      /\ Factor => Top.pc = "factor" /\ (Tok = Zero => Exit)
  BY DEF Program, parse_goto, Relation, Factor, Expect, Zero
<1>3. parse_if => \/ Top.pc = "if" /\ Go(0, CallThen(parse_cond_block(FALSE), "arm"))
                  \/ Top.pc = "arm" /\ (Tok # "else" => Go(0, Return))
  BY DEF parse_if
<1>4. CondBlock => \/ /\ Top.pc = "block"
                      /\ ~Top.arg /\ Tok = Zero =>
                           Move(0, Instead(parse_instr(Depth + 1, Full(Instr))), Full(Instr), <<>>, {})
                   \/ Top.pc = "in block"
  BY DEF CondBlock, Body, Zero
<1>5. ReturnTypes => \/ Top.pc \in {"signature", "type"}
                     \/ /\ Top.pc = "more types"
                        /\ Tok = "," => Move(2, Then("more types"), FALSE, <<>>, {<<index + 1, "type">>})
  BY DEF ReturnTypes
<1>6. Instruction => /\ Top.pc = "instr"
                     /\ Tok = Zero /\ ~Top.arg => Emit("goto", 1, Append(Below, At("goto", Tok)))
  <2>1. Tok = Zero => Tok \in Starts /\ Point(Tok) = "goto" /\ LineOf(Tok) = "goto"
    BY DEF Zero, Starts, Point, LineOf
  <2>2. Tok = Zero => ~Unexpected
    BY <2>1 DEF Unexpected
  <2>3. Tok = Zero => /\ Tok \notin {"break", "continue", "label"} /\ Tok # "fn" /\ Tok # "if" /\ Tok # "match"
    BY DEF Zero
  <2> QED BY <2>1, <2>2, <2>3 DEF Instruction
<1> QED BY <1>1, <1>2, <1>3, <1>4, <1>5, <1>6

LEMMA ArmsUnder ==
  ASSUME TypeInv, NEW c, NEW n \in 0..(Len(stack) - 1), Arms(stack, n)
  PROVE  /\ Arms(Append(Below, c), n)
         /\ Len(Append(Below, c)) = Len(stack) /\ Append(Below, c)[Len(stack)] = c
<1>1. Calls(Below) /\ Len(Below) = Len(stack) - 1 /\ Len(stack) \in Nat \ {0}
  BY BelowIs
<1>2. /\ Len(Append(Below, c)) = Len(Below) + 1 /\ \A i \in 1..Len(Below) : Append(Below, c)[i] = Below[i]
      /\ Append(Below, c)[Len(Below) + 1] = c
  BY <1>1, OneMoreIs
<1>3. Arms(Below, n) /\ n \in Nat /\ n <= Len(Below)
  BY <1>1, ArmsBelow
<1>4. Arms(Append(Below, c), n)
  BY <1>2, <1>3 DEF Arms
<1> QED BY <1>1, <1>2, <1>4

\* A token that is read past the end is the one the call has.
LEMMA PastReads == Past => Tok = Top.token /\ Errors
BY DEF Past, Tok, Errors, dynamic_array_get

Ended == status' = "exit" \/ (status' = status /\ Doomed')

LEMMA DoomedReturn ==
  ASSUME TypeInv, Past, Step, Top.token # "END", Doomed,
         Top.pc = "arm" \/ (Top.pc \in {"goto", "rel"} /\ Top.token = Zero)
  PROVE  Ended
<1>1. Tok = Top.token /\ Errors
  BY PastReads
<1>2. PICK n \in Nat \ {0} : n = Len(stack) /\ Top = stack[n]
  BY TopIsCall DEF Top
<1>3. Len(Below) = n - 1 /\ \A i \in 1..(n - 1) : Below[i] = stack[i]
  BY <1>2, BelowIs
<1>4. CASE Top.pc = "arm" /\ Back(n)
  <2>1. n \in 1..n /\ n - 1 \in 0..(n - 1)
    BY <1>2
  <2>2. Tok # "else" /\ Arms(stack, n - 1)
    BY <1>1, <1>2, <1>4, <2>1 DEF Back, Arms, ElseArm
  <2>3. Go(0, Return)
    BY <1>1, <1>4, <2>2, DoomedTake
  <2>4. stack' = Below /\ status' = status
    BY <2>3 DEF Go, Move, Return
  <2>5. Arms(Below, n - 1)
    BY <1>2, <2>1, <2>2, ArmsBelow
  <2> QED BY <1>3, <2>4, <2>5, Dooms DEF Ended
<1>5. ASSUME Top.pc \in {"goto", "rel"}, Top.token = Zero
      PROVE  stack' = Below /\ status' = status /\ arena' = arena /\ Full(Instr)' = Full(Instr)
  <2>1. Complain(0, Return) \/ Complain(1, Return)
    BY <1>1, <1>5, DoomedTake
  <2>2. stack' = Below /\ status' = status /\ arena' = arena
    BY <2>1 DEF Complain, Move, Return, NoNode
  <2> QED BY <2>2 DEF Full
<1>6. CASE Top.pc \in {"goto", "rel"} /\ Top.token = Zero /\ Back(n - 1)
  <2>1. n - 1 \in 0..(n - 1)
    BY <1>2
  <2>2. Arms(Below, n - 1)
    BY <1>2, <1>6, <2>1, ArmsBelow DEF Back
  <2> QED BY <1>3, <1>5, <1>6, <2>2, Dooms DEF Ended
<1>7. CASE Top.pc = "rel" /\ Top.token = Zero /\ ~Back(n - 1)
  <2>1. n - 1 \in Nat \ {0}
    <3>1. n # 1
      BY <1>2, <1>7 DEF TypeInv, IsStack
    <3> QED BY <1>2, <3>1
  <2>2. PICK c : c = stack[n - 1]
    OBVIOUS
  <2>3. Below[n - 1] = c /\ Len(Below) = n - 1
    <3>1. n - 1 \in 1..(n - 1)
      BY <2>1
    <3> QED BY <1>3, <2>2, <3>1
  <2>4. \/ /\ Arms(stack, n - 2) /\ ~Full(Instr) /\ c.token = Zero
           /\ c.pc = "if" \/ (c.pc = "block" /\ ~c.arg)
        \/ c.pc = "open" /\ c.token = "END"
    <3>1. ~Back(n)
      BY <1>2, <1>7 DEF Back, Arms
    <3> QED BY <1>2, <1>7, <2>2, <3>1 DEF Doomed, Back
  <2>5. CASE /\ Arms(stack, n - 2) /\ ~Full(Instr) /\ c.token = Zero
             /\ c.pc = "if" \/ (c.pc = "block" /\ ~c.arg)
    <3>1. n - 2 \in 0..(n - 1) /\ (n - 1) - 1 = n - 2
      BY <2>1
    <3>2. Arms(Below, (n - 1) - 1)
      BY <1>2, <2>5, <3>1, ArmsBelow
    <3> QED BY <1>5, <1>7, <2>3, <2>5, <3>2, Dooms DEF Ended
  <2>6. CASE c.pc = "open" /\ c.token = "END"
    <3>1. c.pc \notin Operations
      BY <2>6 DEF Operations
    <3> QED BY <1>5, <1>7, <2>3, <2>6, <3>1, Dooms DEF Ended
  <2> QED BY <2>4, <2>5, <2>6
<1>8. Top.pc = "arm" => Back(n)
  BY <1>2 DEF Doomed
<1>9. Top.pc = "goto" => Back(n - 1)
  <2>1. Top.pc = "goto" => ~Back(n)
    BY <1>2 DEF Back, Arms
  <2> QED BY <1>2, <2>1 DEF Doomed
<1> QED BY <1>4, <1>6, <1>7, <1>8, <1>9

LEMMA DoomedCalls ==
  ASSUME TypeInv, Past, Step, Top.token = Zero, NEW n, n = Len(stack), Arms(stack, n - 1),
         \/ Top.pc = "instr" /\ ~Top.arg
         \/ Top.pc = "if" /\ ~Full(Instr)
         \/ Top.pc = "block" /\ ~Top.arg /\ ~Full(Instr)
  PROVE  Ended
<1>1. Tok = Zero /\ Errors /\ Tok # "END"
  BY PastReads DEF Zero
<1>2. n \in Nat \ {0} /\ n - 1 \in 0..(Len(stack) - 1)
  BY TopIsCall
<1>3. \A c : Arms(Append(Below, c), n - 1) /\ Len(Append(Below, c)) = n /\ Append(Below, c)[n] = c
  BY <1>2, ArmsUnder
<1>4. CASE Top.pc = "instr" /\ ~Top.arg
  <2>1. PICK c, s : c = At("goto", Tok) /\ s = Append(Below, c)
    OBVIOUS
  <2>2. Emit("goto", 1, s)
    BY <1>1, <1>4, <2>1, DoomedTake
  <2>3. stack' = s /\ status' = status
    BY <2>2 DEF Emit, Move
  <2>4. c.pc = "goto" /\ c.token = Zero
    BY <1>1, <2>1 DEF At
  <2>5. Arms(s, n - 1) /\ n = Len(s) /\ c = s[n]
    BY <1>3, <2>1
  <2> QED BY <2>3, <2>4, <2>5, Dooms DEF Ended
<1>5. CASE Top.pc = "if" /\ ~Full(Instr)
  <2>1. PICK a, b, s : a = At("arm", Top.arg) /\ b = Call("block", Depth, FALSE) /\ s = Append(Below, a)
    OBVIOUS
  <2>2. a.pc = "arm" /\ a.token = Zero /\ b.pc = "block" /\ b.token = Zero /\ ~b.arg
    BY <1>1, <2>1 DEF At, Call
  <2>3. Arms(s, n - 1) /\ Len(s) = n /\ s[n] = a /\ Calls(s)
    BY <1>3, <2>1, BelowIs, AtIsCall, OneMore
  <2>4. Arms(s, n)
    <3>1. \A i \in 1..n : i \in 1..(n - 1) \/ i = n
      BY <1>2
    <3>2. a.token # "else"
      BY <2>2 DEF Zero
    <3> QED BY <2>2, <2>3, <3>1, <3>2 DEF Arms, ElseArm
  <2>5. PICK t : t = Append(s, b)
    OBVIOUS
  <2>6. Go(0, t)
    <3>1. CallThen(parse_cond_block(FALSE), "arm") = s \o <<b>>
      BY <2>1 DEF CallThen, parse_cond_block
    <3>2. s \o <<b>> = t
      BY <2>3, <2>5, JoinedCalls
    <3> QED BY <1>1, <1>5, <3>1, <3>2, DoomedTake
  <2>7. stack' = t /\ status' = status /\ arena' = arena
    BY <2>6 DEF Go, Move, NoNode
  <2>8. ~Full(Instr)'
    BY <1>5, <2>7 DEF Full
  <2>9. PICK m : m = n + 1 /\ Len(t) = m /\ t[m] = b /\ m - 1 = n /\ Arms(t, n)
    <3>1. Len(t) = n + 1 /\ t[n + 1] = b /\ \A i \in 1..n : t[i] = s[i]
      BY <2>3, <2>5, OneMoreIs
    <3>2. Arms(t, n)
      BY <2>4, <3>1 DEF Arms
    <3>3. (n + 1) - 1 = n
      BY <1>2
    <3> QED BY <3>1, <3>2, <3>3
  <2> QED BY <2>2, <2>7, <2>8, <2>9, Dooms DEF Ended
<1>6. CASE Top.pc = "block" /\ ~Top.arg /\ ~Full(Instr)
  <2>1. PICK c, s : c = Call("instr", Depth + 1, Full(Instr)) /\ s = Append(Below, c)
    OBVIOUS
  <2>2. Instead(parse_instr(Depth + 1, Full(Instr))) = s
    <3>1. Below \o <<c>> = s
      BY <2>1, BelowIs, JoinedCalls
    <3> QED BY <2>1, <3>1 DEF Instead, parse_instr
  <2>3. stack' = s /\ status' = status
    BY <1>1, <1>6, <2>2, DoomedTake DEF Move
  <2>4. c.pc = "instr" /\ c.token = Zero /\ ~c.arg
    BY <1>6, <2>1 DEF Call
  <2>5. Arms(s, n - 1) /\ n = Len(s) /\ c = s[n]
    BY <1>3, <2>1
  <2> QED BY <2>3, <2>4, <2>5, Dooms DEF Ended
<1> QED BY <1>4, <1>5, <1>6

\* The calls that are doomed stay so until an error is looked at.
LEMMA DoomedSteps == ASSUME TypeInv, Past, Doomed, Parse PROVE Ended
<1>1. Tok = Top.token /\ Errors
  BY PastReads
<1>2. PICK n : n = Len(stack) /\ Top = stack[n] /\ n \in Nat \ {0}
  BY TopIsCall DEF Top
<1>3. CASE Exit
  BY <1>3 DEF Exit, Ended
<1>4. CASE Step /\ Tok # "END"
  <2>1. \/ Top.pc = "program"
        \/ Top.pc = "arm" \/ (Top.pc \in {"goto", "rel"} /\ Top.token = Zero)
        \/ /\ Arms(stack, n - 1) /\ Top.token = Zero
           /\ \/ Top.pc = "instr" /\ ~Top.arg
              \/ Top.pc = "if" /\ ~Full(Instr)
              \/ Top.pc = "block" /\ ~Top.arg /\ ~Full(Instr)
        \/ Top.pc = "factor" /\ Top.token = Zero
        \/ Top.pc = "more types" /\ Top.token = ","
    <3>1. Back(n) => Top.pc \in {"program", "arm"}
      BY <1>2 DEF Back, Arms
    <3> QED BY <1>1, <1>2, <1>4, <3>1 DEF Doomed, Back
  <2>2. CASE Top.pc = "program" \/ (Top.pc = "factor" /\ Top.token = Zero)
    BY <1>1, <1>3, <1>4, <2>2, DoomedTake
  <2>3. CASE Top.pc = "arm" \/ (Top.pc \in {"goto", "rel"} /\ Top.token = Zero)
    BY <1>1, <1>4, <2>3, DoomedReturn
  <2>4. CASE /\ Arms(stack, n - 1) /\ Top.token = Zero
             /\ \/ Top.pc = "instr" /\ ~Top.arg
                \/ Top.pc = "if" /\ ~Full(Instr)
                \/ Top.pc = "block" /\ ~Top.arg /\ ~Full(Instr)
    BY <1>2, <1>4, <2>4, DoomedCalls
  <2>5. CASE Top.pc = "more types" /\ Top.token = ","
    <3>1. stack' = Then("more types") /\ status' = status
      BY <1>1, <1>4, <2>5, DoomedTake DEF Move
    <3>2. Top'.pc = "more types" /\ Top'.token = ","
      BY <1>1, <2>5, <3>1, ThenOnTop
    <3> QED BY <3>1, <3>2 DEF Doomed, Ended
  <2> QED BY <2>1, <2>2, <2>3, <2>4, <2>5
<1>5. CASE Tok = "END" /\ ~Exit
  <2>1. Top.pc \notin Operations
    <3>1. Back(n) => Top.pc \in {"program", "arm"}
      BY <1>2 DEF Back, Arms
    <3> QED BY <1>1, <1>2, <1>5, <3>1 DEF Doomed, Operations, Zero
  <2>2. Gate /\ ~NoOperatorNode
    BY <1>1, <1>5, <2>1 DEF Gate, NoOperatorNode, Operations
  <2> QED BY <1>5, <2>2 DEF Parse
<1> QED BY <1>3, <1>4, <1>5 DEF Parse

----------------------------------------------------------------------------
(* The invariant.                                                          *)

LEMMA CrashInit == Init => CrashInv
<1> SUFFICES ASSUME Init PROVE CrashInv
  OBVIOUS
<1>1. BracketInv /\ Budget
  BY BracketsInit, InitInv, BudgetInit
<1>2. PICK c : c = Call("program", 0, FALSE) /\ c.pc = "program" /\ c.token = Zero
  <2>1. Call("program", 0, FALSE).pc = "program" /\ Call("program", 0, FALSE).token = Zero
    BY DEF Call
  <2> QED BY <2>1
<1>3. Len(stack) = 1 /\ stack[1] = c /\ \A i \in 1..1 : i = 1
  BY <1>2 DEF Init
<1>4. Sound(stack) /\ Tame(stack)
  <2>1. "program" \notin Fresh \cup {"rel", "instr", "block"}
    BY DEF Fresh
  <2>2. /\ \A j \in 1..Len(stack) : stack[j].pc = "program" /\ \A i \in 1..(j - 1) : FALSE
        /\ \A j \in 2..Len(stack) : FALSE
    <3>1. (\A j \in 1..1 : \A i \in 1..(j - 1) : FALSE) /\ (\A j \in 2..1 : FALSE)
      OBVIOUS
    <3> QED BY <1>2, <1>3, <3>1
  <2> QED BY <2>1, <2>2 DEF Sound, Tame
<1>5. Shape
  <2>1. /\ \A i \in 1..(Len(stack) - 1) : FALSE
        /\ \A i \in 1..Len(stack) : stack[i].pc = "program"
        /\ stack[Len(stack)].pc = "program"
    <3>1. \A i \in 1..(1 - 1) : FALSE
      OBVIOUS
    <3> QED BY <1>2, <1>3, <3>1
  <2> QED BY <1>4, <2>1 DEF Shape, ShapeAt, ElseArm
<1>6. ~Complete /\ index = 0 /\ Len(tokens) = 0 /\ status = "parsing"
  BY DEF Init, Complete
<1>7. Leapt
  BY <1>6 DEF Leapt
<1> QED BY <1>1, <1>4, <1>5, <1>6, <1>7 DEF CrashInv, Expected

LEMMA RoomGrows ==
  ASSUME NEW m \in Nat, NEW n \in Nat, m <= n
  PROVE  Room(m) \in Nat /\ Room(n) \in Nat /\ Room(m) <= Room(n)
<1>1. Biggest \in Nat /\ Room(m) = (2 * m + 1) * Biggest /\ Room(n) = (2 * n + 1) * Biggest
  BY BiggestOfSizes
<1>2. \A i, j, b \in Nat : i <= j => i * b <= j * b /\ i * b \in Nat /\ j * b \in Nat
  BY ONLY Z3
<1>3. 2 * m + 1 \in Nat /\ 2 * n + 1 \in Nat /\ 2 * m + 1 <= 2 * n + 1
  OBVIOUS
<1> QED BY <1>1, <1>2, <1>3

LEMMA SuppliedIs ==
  ASSUME TypeInv, Supply
  PROVE  /\ Len(tokens) \in Nat /\ Len(tokens') \in Nat /\ Len(tokens) <= Len(tokens')
         /\ \A i \in 1..Len(tokens) : tokens'[i] = tokens[i]
         /\ \/ Complete' /\ Len(tokens') = Len(tokens) + 1
            \/ ~Complete' /\ (tokens' = tokens \/ Len(tokens') > Len(tokens))
<1>1. PICK piece \in {<<"END">>} \cup More : tokens' = tokens \o piece
  BY DEF Supply
<1>2. tokens \in Seq(Kinds) /\ ~Complete
  BY DEF TypeInv, Supply
<1>3. CASE piece = <<"END">>
  <2>1. /\ Len(tokens') = Len(tokens) + 1 /\ tokens'[Len(tokens) + 1] = "END" /\ Len(tokens) \in Nat
        /\ \A i \in 1..Len(tokens) : tokens'[i] = tokens[i]
    <3>1. "END" \in Kinds
      BY DEF Kinds
    <3>2. tokens' = Append(tokens, "END")
      BY <1>1, <1>2, <1>3, <3>1
    <3> QED BY <1>2, <3>1, <3>2
  <2>2. tokens' # <<>>
    BY <2>1
  <2> QED BY <2>1, <2>2 DEF Complete
<1>4. CASE piece \in More
  <2>1. piece \in Seq(Kinds \ {"END"})
    BY <1>4, ParserAssumption DEF More, TypeInv
  <2>2. piece \in Seq(Kinds) /\ \A i \in 1..Len(piece) : piece[i] # "END"
    <3>1. \A i \in 1..Len(piece) : piece[i] \in Kinds \ {"END"}
      BY <2>1
    <3>2. piece \in Seq(Kinds)
      BY <2>1
    <3> QED BY <3>1, <3>2
  <2>3. /\ Len(tokens') = Len(tokens) + Len(piece) /\ Len(tokens) \in Nat /\ Len(piece) \in Nat
        /\ \A i \in 1..Len(tokens) : tokens'[i] = tokens[i]
        /\ \A i \in 1..Len(piece) : tokens'[Len(tokens) + i] = piece[i]
    BY <1>1, <1>2, <2>2
  <2>4. CASE Len(piece) = 0
    <3>1. tokens' = tokens
      BY <1>1, <1>2, <2>2, <2>4
    <3>2. Complete' <=> Complete
      BY <3>1 DEF Complete
    <3> QED BY <1>2, <2>3, <3>1, <3>2
  <2>5. CASE Len(piece) # 0
    <3>1. PICK m : m = Len(piece) /\ m \in 1..Len(piece) /\ Len(tokens') = Len(tokens) + m
      BY <2>3, <2>5
    <3>2. tokens'[Len(tokens')] # "END"
      BY <2>2, <2>3, <3>1
    <3>3. ~Complete'
      BY <3>2 DEF Complete
    <3> QED BY <2>3, <2>5, <3>3
  <2> QED BY <2>4, <2>5
<1> QED BY <1>1, <1>3, <1>4

LEMMA CrashSupply == CrashInv /\ Supply => CrashInv'
<1> SUFFICES ASSUME CrashInv, Supply PROVE CrashInv'
  OBVIOUS
<1>1. TypeInv /\ BracketInv' /\ Budget' /\ index \in Nat
  BY BracketsSupply, BudgetSupply DEF CrashInv, BracketInv, BudgetInv, Inv, TypeInv
<1>2. /\ status = "parsing" /\ ~Complete /\ Past
      /\ UNCHANGED <<index, stack, errors, arena, status>>
  BY DEF Supply
<1>3. /\ Len(tokens) \in Nat /\ Len(tokens') \in Nat /\ Len(tokens) <= Len(tokens')
      /\ \A i \in 1..Len(tokens) : tokens'[i] = tokens[i]
      /\ \/ Complete' /\ Len(tokens') = Len(tokens) + 1
         \/ ~Complete' /\ (tokens' = tokens \/ Len(tokens') > Len(tokens))
  BY <1>1, SuppliedIs
<1>4. ASSUME Quiet' PROVE Shape'
  <2>1. Shape
    BY <1>2, <1>4 DEF Quiet, CrashInv
  <2>2. PICK n, s : n = index /\ s = stack /\ n \in Nat /\ n >= Len(tokens)
    BY <1>1, <1>2, <1>3 DEF Past, InRange, Count, Array
  <2>3. /\ Sound(s)
        /\ \A i \in 1..(Len(s) - 1) : s[i].pc # "operand"
        /\ \A i \in 1..Len(s) : ~ElseArm(s[i])
        /\ s[Len(s)].pc = "operand" =>
             \/ s[Len(s) - 1].pc = "rel" /\ s[Len(s) - 2].pc # "open"
             \/ n \in 1..Len(tokens) /\ tokens[n] = "rel"
    BY <1>3, <2>1, <2>2 DEF Shape, ShapeAt
  <2>4. n \in 1..Len(tokens) /\ tokens[n] = "rel" => n \in 1..Len(tokens') /\ tokens'[n] = "rel"
    BY <1>3
  <2>5. ShapeAt(s, n)'
    BY <2>3, <2>4 DEF ShapeAt
  <2> QED BY <1>2, <2>2, <2>5 DEF Shape
<1>5. ASSUME Enough'
      PROVE  /\ Leapt'
             /\ IF (Complete /\ Past)' THEN (StopsInside \/ Doomed)' ELSE Tame(stack)'
  <2>1. Enough
    <3>1. Room(Len(tokens)) \in Nat /\ Room(Len(tokens')) \in Nat /\ Room(Len(tokens)) <= Room(Len(tokens'))
      BY <1>3, RoomGrows
    <3>2. arena.capacity \in Nat
      BY <1>1 DEF TypeInv, IsArena
    <3>3. arena.capacity >= Room(Len(tokens'))
      BY <1>2, <1>5 DEF Enough, Room
    <3> QED BY <3>1, <3>2, <3>3 DEF Enough
  <2>2. Leapt /\ Tame(stack)
    BY <1>2, <2>1 DEF CrashInv, Expected
  <2>3. Tame(stack)'
    BY <1>2, <2>2
  <2>4. Leapt'
    <3>1. Top' = Top /\ Len(tokens) + 1 \in Nat
      BY <1>2, <1>3 DEF Top
    <3> SUFFICES ASSUME ~Complete', index > Len(tokens')
                 PROVE  /\ index = Len(tokens') + 1 /\ Len(tokens') # 0
                        /\ tokens'[Len(tokens')] = "..." \/ (Top.pc = "more types" /\ Top.token = ",")
      BY <1>2, <3>1 DEF Leapt
    <3>2. index > Len(tokens)
      BY <1>1, <1>3
    <3>3. /\ index = Len(tokens) + 1 /\ Len(tokens) # 0
          /\ tokens[Len(tokens)] = "..." \/ (Top.pc = "more types" /\ Top.token = ",")
      BY <1>2, <2>2, <3>2 DEF Leapt
    <3>4. tokens' = tokens
      <4>1. PICK a, b, i \in Nat : a = Len(tokens) /\ b = Len(tokens') /\ i = index
        BY <1>1, <1>3
      <4>2. i = a + 1 /\ i > b
        BY <3>3, <4>1
      <4>3. ~(b > a)
        BY ONLY <4>1, <4>2
      <4> QED BY <1>3, <4>1, <4>3
    <3> QED BY <3>3, <3>4
  <2>5. ASSUME (Complete /\ Past)' PROVE (StopsInside \/ Doomed)'
    <3>1. PICK n \in Nat : n \in Nat /\ n = Len(tokens) /\ Len(tokens') = n + 1 /\ index > n
      BY <1>1, <1>2, <1>3, <2>5 DEF Past, InRange, Count, Array
    <3>2. n # 0 /\ (tokens[n] = "..." \/ (Top.pc = "more types" /\ Top.token = ","))
      BY <1>2, <2>2, <3>1 DEF Leapt
    <3>3. CASE tokens[n] = "..."
      <4>1. n \in 1..Len(tokens) /\ Len(tokens') - 1 = n
        <5>1. \A k \in Nat : k # 0 => k \in 1..k /\ (k + 1) - 1 = k
          OBVIOUS
        <5>2. n \in 1..n /\ (n + 1) - 1 = n
          BY ONLY <3>1, <3>2, <5>1
        <5> QED BY <3>1, <5>2
      <4>2. tokens'[Len(tokens') - 1] = "..."
        BY <1>3, <3>3, <4>1
      <4> QED BY <4>2 DEF StopsInside
    <3>4. CASE Top.pc = "more types" /\ Top.token = ","
      <4>1. Top' = Top
        BY <1>2 DEF Top
      <4> QED BY <3>4, <4>1 DEF Doomed
    <3> QED BY <3>2, <3>3, <3>4
  <2> QED BY <2>3, <2>4, <2>5
<1> QED BY <1>1, <1>2, <1>4, <1>5 DEF CrashInv, Expected

LEMMA CrashIdle == CrashInv /\ UNCHANGED pvars => CrashInv'
<1> SUFFICES ASSUME CrashInv, UNCHANGED pvars PROVE CrashInv'
  OBVIOUS
<1>1. BracketInv' /\ Budget'
  BY BracketsIdle, BudgetIdle DEF CrashInv, BracketInv, BudgetInv
<1>2. UNCHANGED <<tokens, index, stack, errors, arena, unseen, status>>
  BY DEF pvars
<1>3. /\ (Complete <=> Complete') /\ (Past <=> Past') /\ Top' = Top /\ Tok' = Tok /\ (Quiet' <=> Quiet)
      /\ (Enough' <=> Enough) /\ (Shape' <=> Shape)
  BY <1>2 DEF Complete, Past, Array, Top, Tok, Quiet, Enough, Room, Shape, ShapeAt
<1>4. StopsInside' <=> StopsInside
  <2>1. Taken' = Taken
    BY <1>2 DEF Taken
  <2>2. \A k, n : Number(k, n)' = Number(k, n)
    BY <2>1 DEF Number
  <2>3. \A pair : Unclosed(pair)' <=> Unclosed(pair)
    BY <1>2, <2>2 DEF Unclosed
  <2> QED BY <1>2, <2>3 DEF StopsInside
<1>5. Doomed' <=> Doomed
  BY <1>2, <1>3 DEF Doomed, Back, Full
<1>6. Leapt' <=> Leapt
  BY <1>2, <1>3 DEF Leapt
<1>7. Tame(stack)' <=> Tame(stack)
  BY <1>2
<1>8. Expected' <=> Expected
  BY <1>2, <1>3, <1>4, <1>5, <1>6, <1>7 DEF Expected
<1> QED BY <1>1, <1>3, <1>8 DEF CrashInv

\* A step that takes one token at most.
LEMMA GentleCrash ==
  ASSUME BracketInv, TypeInv', Shape \/ ~Quiet, Parse, Ample, status = "parsing", Gentle
  PROVE  Expected'
<1>1. TypeInv /\ EndIsLast /\ UNCHANGED tokens /\ Blindly /\ (Quiet => Whole)
  BY BlindSteps DEF BracketInv, Inv, Parse, Ample
<1>2. status' = "parsing" /\ Tame(stack)' /\ ~Past
  BY DEF Gentle, Ample
<1>3. PICK i, j, n \in Nat : i = index /\ j = index' /\ n = Len(tokens) /\ i < n /\ j <= i + 1
  BY <1>1, <1>2, TokIsNext DEF TypeInv, Gentle
<1>4. Leapt'
  <2>1. ~(j > n)
    BY ONLY <1>3
  <2> QED BY <1>1, <1>3, <2>1 DEF Leapt
<1>5. ASSUME (Complete /\ Past)' PROVE (StopsInside \/ Doomed)'
  <2>1. j >= n /\ tokens[n] = "END"
    BY <1>1, <1>3, <1>5 DEF Complete, Past, InRange, Count, Array
  <2>2. i + 1 = n /\ i # j
    BY ONLY <1>3, <2>1
  <2>3. Tok = "END" /\ index' # index
    BY <1>1, <1>2, <1>3, <2>1, <2>2, TokIsNext
  <2>4. ~NoOperatorNode /\ ~Full(Instr)
    BY DEF Ample, NoOperatorNode
  <2>5. ~Exit
    BY <1>2 DEF Exit
  <2>6. Step /\ ~errors
    BY <2>3, <2>4, <2>5 DEF Parse, Gate, Errors
  <2>7. Quiet
    BY <1>2, <2>6 DEF Quiet
  <2>8. EndTaken
    BY <1>1, <1>2, <2>3, <2>6, EndTakes
  <2>9. Tame(stack)
    BY DEF Ample
  <2> QED BY <1>1, <1>2, <2>3, <2>4, <2>7, <2>8, <2>9, EndDooms
<1> QED BY <1>2, <1>4, <1>5 DEF Expected

\* A step that takes two.
LEMMA LeapCrash ==
  ASSUME TypeInv', Parse, Ample, EndIsLast, status = "parsing", Leaps
  PROVE  Expected'
<1>1. TypeInv /\ UNCHANGED tokens
  BY DEF Parse, Ample
<1>2. status' = "parsing" /\ Tame(stack)' /\ ~Past
  BY DEF Leaps, Ample
<1>3. PICK i, j, n \in Nat : i = index /\ j = index' /\ n = Len(tokens) /\ i < n /\ j <= i + 2
  BY <1>1, <1>2, TokIsNext DEF TypeInv, Leaps
<1>4. Tok = tokens[i + 1]
  BY <1>1, <1>2, <1>3, TokIsNext
<1>5. Tok = "..." \/ (Tok = "," /\ Top'.pc = "more types" /\ Top'.token = ",")
  BY DEF Leaps
<1>6. ASSUME j > n
      PROVE  j = n + 1 /\ n # 0 /\ i + 1 = n
  BY ONLY <1>3, <1>6
<1>7. Leapt'
  <2>1. j > n => /\ j = n + 1 /\ n # 0
                 /\ tokens[n] = "..." \/ (Top'.pc = "more types" /\ Top'.token = ",")
    BY <1>4, <1>5, <1>6
  <2> QED BY <1>1, <1>3, <2>1 DEF Leapt
<1>8. ASSUME (Complete /\ Past)' PROVE (StopsInside \/ Doomed)'
  <2>1. j >= n /\ tokens[n] = "END"
    BY <1>1, <1>3, <1>8 DEF Complete, Past, InRange, Count, Array
  <2>2. i + 1 # n
    BY <1>4, <1>5, <2>1
  <2>3. i + 1 = n - 1
    BY ONLY <1>3, <2>1, <2>2
  <2>4. CASE Tok = "..."
    <3>1. tokens'[Len(tokens') - 1] = "..."
      BY <1>1, <1>3, <1>4, <2>3, <2>4
    <3> QED BY <3>1 DEF StopsInside
  <2>5. CASE Top'.pc = "more types" /\ Top'.token = ","
    BY <2>5 DEF Doomed
  <2> QED BY <1>5, <2>4, <2>5
<1> QED BY <1>2, <1>7, <1>8 DEF Expected

LEMMA CrashParse == CrashInv /\ Parse => CrashInv'
<1> SUFFICES ASSUME CrashInv, Parse PROVE CrashInv'
  OBVIOUS
<1>1. /\ BudgetInv /\ Inv /\ TypeInv /\ EndIsLast
      /\ BracketInv' /\ Budget' /\ TypeInv'
      /\ UNCHANGED tokens /\ status = "parsing" /\ Blindly
  BY BracketsParse, BudgetParse, BlindSteps DEF CrashInv, BracketInv, BudgetInv, Inv, Parse
<1>2. ASSUME Quiet' PROVE Shape'
  <2>1. Goes
    BY <1>1, <1>2, Steps DEF Quiet, Ends, Finishes
  <2>2. Calm /\ GoesOn /\ Quiet
    BY <1>1, <1>2, <2>1, QuietBefore
  <2>3. ~Past /\ IsStack(stack') /\ Shape
    BY <2>1, <2>2 DEF GoesOn, Errors, Goes, CrashInv
  <2> QED BY <2>2, <2>3, ShapeSteps
<1>3. ASSUME Enough' PROVE Expected'
  <2>1. Enough
    BY <1>1, <1>3, StaysEnough
  <2>2. Leapt /\ IF Complete /\ Past THEN StopsInside \/ Doomed ELSE Tame(stack)
    BY <1>1, <2>1 DEF CrashInv, Expected
  <2>3. CASE ~Past
    <3>1. Ample
      BY <1>1, <2>1, <2>2, <2>3, RoomIsLeft DEF Ample
    <3>2. CASE Gentle
      BY <1>1, <3>1, <3>2, GentleCrash DEF CrashInv
    <3>3. CASE Leaps
      BY <1>1, <3>1, <3>3, LeapCrash
    <3>4. CASE status' \in {"exit", "done"}
      BY <3>4 DEF Expected
    <3>5. CASE status' = "crash" /\ Top.pc = "instr" /\ Tok \in {"lit", "bad"} /\ UNCHANGED <<index, stack>>
      <4>1. Top' = Top
        BY <3>5 DEF Top
      <4>2. Tok' = Tok
        BY <1>1, <3>5, <4>1 DEF Tok, Array
      <4> QED BY <3>5, <4>1, <4>2 DEF Expected
    <3> QED BY <3>1, <3>2, <3>3, <3>4, <3>5, FaringSteps DEF Fares, Stops
  <2>4. CASE Past
    <3>1. Complete /\ (Complete /\ Past)'
      BY <1>1, <2>4, StaysPast DEF Parse
    <3>2. Leapt'
      BY <3>1 DEF Leapt
    <3>3. CASE StopsInside
      <4>1. StopsInside'
        BY <1>1, <2>4, <3>3, StaysInside
      <4> QED BY <3>1, <3>2, <4>1 DEF Expected
    <3>4. CASE Doomed
      <4>1. Ended
        BY <1>1, <2>4, <3>4, DoomedSteps
      <4> QED BY <1>1, <3>1, <3>2, <4>1 DEF Ended, Expected
    <3> QED BY <2>2, <2>4, <3>1, <3>3, <3>4
  <2> QED BY <2>3, <2>4
<1> QED BY <1>1, <1>2, <1>3 DEF CrashInv

\* The inductive invariant behind the writes through NULL: with room for the
\* source no node is missing before its end, and behind it the calls that are
\* left stop at the END with an error counted, unless a bracket is open.
THEOREM CrashInvariance == Spec => []CrashInv
<1>1. CrashInv /\ [Next]_pvars => CrashInv'
  BY CrashSupply, CrashParse, CrashIdle DEF Next, Finished
<1> QED BY <1>1, CrashInit, PTL DEF Spec

\* The parser crashes only where it is expected to, for every source, every
\* size of the arena and of its nodes.
THEOREM CrashTheorem == Spec => []CrashOnlyWhenExpected
<1>1. CrashInv => CrashOnlyWhenExpected
  BY DEF CrashInv, Expected, CrashOnlyWhenExpected
<1> QED BY <1>1, CrashInvariance, PTL

----------------------------------------------------------------------------
(* The tree that is made.                                                  *)

\* The calls at whose point the line of their head, or of their arm or case,
\* has been made, and its body has not been left; those that may go on with
\* an arm, or with a case, of their own.
Bodied == {"if", "block", "in block", "open", "in loop", "in fn", "for", "in", "from", "while",
           "first value", "value", "=>"}
OfAnIf == {"if", "arm", "else"}
OfAMatch == {"match", "case", "first value", "value", "=>"}

\* How deep the next line of the tree may be.
Deepest(p) ==
  IF p = <<>> THEN 0
  ELSE IF p[Len(p)].kind \in Tree!Heads THEN p[Len(p)].depth + 1 ELSE p[Len(p)].depth

\* The last line that is not deeper is one of these.
PeerOf(p, depth, kinds) ==
  \E j \in 1..Len(p) : /\ p[j].depth = depth /\ p[j].kind \in kinds
                       /\ \A k \in (j + 1)..Len(p) : p[k].depth > depth

\* How deep a call needs to be able to make a line, how deep the lines of its
\* body are, and how deep its next line is at least.
Want(c) == IF c.pc = "program" THEN 0 ELSE IF c.pc \in Bodied THEN c.depth + 1 ELSE c.depth
Own(c) == IF c.pc = "program" THEN 0 ELSE c.depth + 1
Floor(c) ==
  IF c.pc = "program" THEN 0 ELSE IF c.pc \in {"block", "in block"} THEN c.depth + 1 ELSE c.depth

Settled(c, p) ==
  /\ Want(c) <= Deepest(p)
  /\ c.pc \in OfAnIf => PeerOf(p, c.depth, {"if", "elif"})
  /\ c.pc \in OfAMatch => PeerOf(p, c.depth, {"match"} \cup Tree!Cases)

\* No call makes a line that ends a body of a call below it.
Fitting(s, p) ==
  \A j \in 1..Len(s) : s[j].pc \notin ExprLevel =>
    Settled(s[j], p) /\ \A i \in 1..(j - 1) : Own(s[i]) <= Floor(s[j])

FitsAll(p) == \A i \in 1..Len(p) : Tree!Fits(SubSeq(p, 1, i - 1), p[i])
IsListing(p) == IsSequence(p) /\ \A i \in 1..Len(p) : p[i].depth \in Nat

TreeInv ==
  /\ CrashInv
  /\ Quiet => IsListing(tree) /\ FitsAll(tree) /\ Fitting(stack, tree)
  /\ TreeFits

----------------------------------------------------------------------------
(* A line more.                                                            *)

LEMMA PeerIsThere ==
  ASSUME NEW p, IsListing(p), NEW line, NEW K, PeerOf(p, line.depth, K), line.depth \in Nat
  PROVE  LET peers == {j \in 1..Len(p) : /\ p[j].depth = line.depth
                                         /\ \A k \in j..Len(p) : p[k].depth >= line.depth}
             peer == CHOOSE j \in peers : \A k \in peers : k <= j
         IN  peers # {} /\ p[peer].kind \in K
<1> DEFINE peers == {j \in 1..Len(p) : /\ p[j].depth = line.depth
                                       /\ \A k \in j..Len(p) : p[k].depth >= line.depth}
           peer == CHOOSE j \in peers : \A k \in peers : k <= j
<1>1. Len(p) \in Nat
  BY SequenceLength DEF IsListing
<1>2. PICK j \in 1..Len(p) : /\ p[j].depth = line.depth /\ p[j].kind \in K
                             /\ \A k \in (j + 1)..Len(p) : p[k].depth > line.depth
  BY DEF PeerOf
<1>3. j \in peers
  <2>1. ASSUME NEW k \in j..Len(p) PROVE p[k].depth >= line.depth
    <3>1. k = j \/ k \in (j + 1)..Len(p)
      BY <1>1, <1>2
    <3>2. k \in 1..Len(p) /\ p[k].depth \in Nat
      BY <1>1, <1>2 DEF IsListing
    <3> QED BY <1>2, <3>1, <3>2
  <2> QED BY <1>2, <2>1
<1>4. ASSUME NEW k \in peers PROVE k <= j
  <2>1. k \in 1..Len(p) /\ p[k].depth = line.depth
    OBVIOUS
  <2>2. k \notin (j + 1)..Len(p)
    BY <1>2, <2>1
  <2> QED BY <1>1, <1>2, <2>1, <2>2
<1>5. peers \subseteq Nat
  BY <1>1
<1> HIDE DEF peers
<1>6. peer \in peers /\ \A k \in peers : k <= peer
  BY <1>3, <1>4
<1>7. j <= peer /\ peer <= j /\ peer \in Nat /\ j \in Nat
  BY <1>3, <1>4, <1>5, <1>6
<1>8. peer = j
  BY <1>7
<1> HIDE DEF peer
<1>9. peers # {} /\ p[peer].kind \in K
  BY <1>2, <1>3, <1>8
<1> QED BY <1>9 DEF peers, peer

LEMMA FitsThere ==
  ASSUME NEW p, IsListing(p), NEW line, line.depth \in Nat, line.depth <= Deepest(p),
         line.kind \in Tree!IfParts => PeerOf(p, line.depth, {"if", "elif"}),
         line.kind \in Tree!Cases => PeerOf(p, line.depth, {"match"} \cup Tree!Cases)
  PROVE  Tree!Fits(p, line)
<1> DEFINE peers == {j \in 1..Len(p) : /\ p[j].depth = line.depth
                                       /\ \A k \in j..Len(p) : p[k].depth >= line.depth}
           peer == CHOOSE j \in peers : \A k \in peers : k <= j
<1>1. line.kind \in Tree!IfParts => peers # {} /\ p[peer].kind \in {"if", "elif"}
  BY PeerIsThere
<1>2. line.kind \in Tree!Cases => peers # {} /\ p[peer].kind \in {"match"} \cup Tree!Cases
  BY PeerIsThere
<1> HIDE DEF peer
<1> QED BY <1>1, <1>2 DEF Tree!Fits, Deepest, peer

\* The lines p and one more.
OneLine(p, line, q) ==
  /\ IsListing(q) /\ Len(p) \in Nat /\ Len(q) = Len(p) + 1 /\ q[Len(p) + 1] = line
  /\ \A i \in 1..Len(p) : q[i] = p[i]

LEMMA LineMore ==
  ASSUME NEW p, IsListing(p), NEW line, line.depth \in Nat
  PROVE  OneLine(p, line, Append(p, line))
<1>1. PICK q : q = Append(p, line)
  OBVIOUS
<1>2. /\ IsSequence(q) /\ Len(p) \in Nat /\ Len(q) = Len(p) + 1 /\ q[Len(p) + 1] = line
      /\ \A i \in 1..Len(p) : q[i] = p[i]
  BY <1>1, AppendSequence, SequenceLength DEF IsListing
<1>3. \A i \in 1..Len(q) : i \in 1..Len(p) \/ i = Len(p) + 1
  BY <1>2
<1> QED BY <1>1, <1>2, <1>3 DEF IsListing, OneLine

LEMMA DeepestIsNat ==
  ASSUME NEW p, IsListing(p)
  PROVE  Deepest(p) \in Nat
<1>1. Len(p) \in Nat
  BY SequenceLength DEF IsListing
<1>2. CASE p = <<>>
  BY <1>2 DEF Deepest
<1>3. CASE p # <<>>
  <2>1. Len(p) # 0
    BY <1>3 DEF IsListing, IsSequence
  <2>2. p[Len(p)].depth \in Nat
    BY <1>1, <2>1 DEF IsListing
  <2> QED BY <1>3, <2>2 DEF Deepest
<1> QED BY <1>2, <1>3

LEMMA DeepestMore ==
  ASSUME NEW p, IsListing(p), NEW line, line.depth \in Nat, NEW q, q = Append(p, line)
  PROVE  /\ Deepest(q) = (IF line.kind \in Tree!Heads THEN line.depth + 1 ELSE line.depth)
         /\ Deepest(p) \in Nat /\ Deepest(q) \in Nat
         /\ \A K : line.kind \in K => PeerOf(q, line.depth, K)
         /\ \A K : \A d \in Nat : PeerOf(p, d, K) /\ d < line.depth => PeerOf(q, d, K)
<1>1. /\ IsListing(q) /\ Len(p) \in Nat /\ Len(q) = Len(p) + 1 /\ q[Len(p) + 1] = line
      /\ \A i \in 1..Len(p) : q[i] = p[i]
  BY LineMore DEF OneLine
<1>2. Deepest(q) = (IF line.kind \in Tree!Heads THEN line.depth + 1 ELSE line.depth)
  BY <1>1 DEF Deepest
<1>3. Deepest(p) \in Nat
  BY DeepestIsNat
<1>4. ASSUME NEW K, line.kind \in K  PROVE PeerOf(q, line.depth, K)
  <2>1. PICK j \in 1..Len(q) : j = Len(p) + 1 /\ (j + 1)..Len(q) = {}
    BY <1>1
  <2> QED BY <1>1, <1>4, <2>1 DEF PeerOf
<1>5. ASSUME NEW K, NEW d \in Nat, PeerOf(p, d, K), d < line.depth  PROVE PeerOf(q, d, K)
  <2>1. PICK j \in 1..Len(p) : /\ p[j].depth = d /\ p[j].kind \in K
                               /\ \A k \in (j + 1)..Len(p) : p[k].depth > d
    BY <1>5 DEF PeerOf
  <2>2. \A k \in (j + 1)..Len(q) : k \in (j + 1)..Len(p) \/ k = Len(p) + 1
    BY <1>1, <2>1
  <2>3. \A k \in (j + 1)..Len(p) : k \in 1..Len(p)
    BY <1>1, <2>1
  <2>4. \A k \in (j + 1)..Len(q) : q[k].depth > d
    BY <1>1, <1>5, <2>1, <2>2, <2>3
  <2>5. j \in 1..Len(q) /\ q[j].depth = d /\ q[j].kind \in K
    BY <1>1, <2>1
  <2> QED BY <2>4, <2>5 DEF PeerOf
<1> QED BY <1>1, <1>2, <1>3, <1>4, <1>5

LEMMA FitsMore ==
  ASSUME NEW p, IsListing(p), FitsAll(p), NEW line, line.depth \in Nat, Tree!Fits(p, line),
         NEW q, q = Append(p, line)
  PROVE  FitsAll(q)
<1>1. /\ IsListing(q) /\ Len(p) \in Nat /\ Len(q) = Len(p) + 1 /\ q[Len(p) + 1] = line
      /\ \A i \in 1..Len(p) : q[i] = p[i]
  BY LineMore DEF OneLine
<1>2. \A i \in 1..Len(q) : i \in 1..Len(p) \/ i = Len(p) + 1
  BY <1>1
<1>3. ASSUME NEW i \in 1..(Len(p) + 1)  PROVE SubSeq(q, 1, i - 1) = SubSeq(p, 1, i - 1)
  <2>1. PICK A : p \in Seq(A)
    BY DEF IsListing, IsSequence
  <2>2. PICK B : p \in Seq(B) /\ q \in Seq(B)
    <3>1. p \in Seq(A \cup {line}) /\ Append(p, line) \in Seq(A \cup {line})
      BY <2>1
    <3> QED BY <3>1
  <2>3. i - 1 \in 0..Len(p)
    BY <1>1
  <2>4. PICK s, t : s = SubSeq(p, 1, i - 1) /\ t = SubSeq(q, 1, i - 1)
    OBVIOUS
  <2>5. s \in Seq(B) /\ t \in Seq(B) /\ Len(s) = i - 1 /\ Len(t) = i - 1
    BY <1>1, <2>2, <2>3, <2>4
  <2>6. \A k \in 1..(i - 1) : s[k] = p[k] /\ t[k] = q[k] /\ k \in 1..Len(p)
    BY <1>1, <2>2, <2>3, <2>4
  <2>7. s = t
    BY <1>1, <2>5, <2>6
  <2> QED BY <2>4, <2>7
<1>4. SubSeq(p, 1, Len(p)) = p
  <2>1. PICK A : p \in Seq(A)
    BY DEF IsListing, IsSequence
  <2> QED BY <2>1
<1>5. ASSUME NEW i \in 1..Len(q)  PROVE Tree!Fits(SubSeq(q, 1, i - 1), q[i])
  <2>1. CASE i \in 1..Len(p)
    BY <1>1, <1>3, <2>1 DEF FitsAll
  <2>2. CASE i = Len(p) + 1
    <3>1. i - 1 = Len(p) /\ i \in 1..(Len(p) + 1)
      BY <1>1, <2>2
    <3>2. SubSeq(q, 1, i - 1) = p
      BY <1>3, <1>4, <3>1
    <3> QED BY <1>1, <2>2, <3>2
  <2> QED BY <1>2, <2>1, <2>2
<1> QED BY <1>5 DEF FitsAll

----------------------------------------------------------------------------
(* Calls on calls, and the tree.                                           *)

Suits(c, s, p) ==
  c.pc \notin ExprLevel => Settled(c, p) /\ \A i \in 1..Len(s) : Own(s[i]) <= Floor(c)

LEMMA FittingOnTop ==
  ASSUME NEW s, Calls(s), NEW p, Fitting(s, p), NEW c, Suits(c, s, p)
  PROVE  Fitting(Append(s, c), p)
<1>1. PICK t : t = Append(s, c)
  OBVIOUS
<1>2. /\ Len(t) = Len(s) + 1 /\ Len(s) \in Nat
      /\ \A i \in 1..Len(s) : t[i] = s[i]
      /\ t[Len(s) + 1] = c
  BY <1>1, OneMoreIs
<1>3. ASSUME NEW j \in 1..Len(t), t[j].pc \notin ExprLevel
      PROVE  Settled(t[j], p) /\ \A i \in 1..(j - 1) : Own(t[i]) <= Floor(t[j])
  <2>1. \A i \in 1..(j - 1) : i \in 1..Len(s)
    BY <1>2
  <2>2. CASE j \in 1..Len(s)
    BY <1>2, <1>3, <2>1, <2>2 DEF Fitting
  <2>3. CASE j = Len(s) + 1
    BY <1>2, <1>3, <2>1, <2>3 DEF Suits
  <2>4. j \in 1..Len(s) \/ j = Len(s) + 1
    BY <1>2
  <2> QED BY <2>2, <2>3, <2>4
<1> QED BY <1>1, <1>3 DEF Fitting

\* Calls of expressions and relations make no lines.
Loose(cs) == Calls(cs) /\ \A i \in 1..Len(cs) : cs[i].pc \in ExprLevel

LEMMA FittingLoose ==
  ASSUME NEW s, Calls(s), NEW p, Fitting(s, p), NEW cs, Loose(cs)
  PROVE  Fitting(s \o cs, p)
<1>1. PICK t : t = s \o cs
  OBVIOUS
<1>2. /\ Len(t) = Len(s) + Len(cs) /\ Len(s) \in Nat /\ Len(cs) \in Nat
      /\ \A i \in 1..Len(s) : t[i] = s[i]
      /\ \A i \in 1..Len(cs) : t[Len(s) + i] = cs[i]
  BY <1>1, JoinedSequence, SequenceLength DEF Calls, Loose
<1>3. ASSUME NEW j \in 1..Len(t), t[j].pc \notin ExprLevel
      PROVE  Settled(t[j], p) /\ \A i \in 1..(j - 1) : Own(t[i]) <= Floor(t[j])
  <2>1. j \in 1..Len(s)
    <3>1. SUFFICES ASSUME j \notin 1..Len(s) PROVE FALSE
      OBVIOUS
    <3>2. j - Len(s) \in 1..Len(cs) /\ j = Len(s) + (j - Len(s))
      BY <1>2, <3>1
    <3> QED BY <1>2, <1>3, <3>2 DEF Loose
  <2>2. \A i \in 1..(j - 1) : i \in 1..Len(s)
    BY <1>2, <2>1
  <2> QED BY <1>2, <1>3, <2>1, <2>2 DEF Fitting
<1> QED BY <1>1, <1>3 DEF Fitting

LEMMA LooseCalls ==
  ASSUME TypeInv
  PROVE  /\ \A cs : Leaf(cs) => Loose(cs)
         /\ Loose(parse_expr) /\ Loose(parse_rel)
         /\ Loose(<<Call("factor", Depth, FALSE)>>) /\ Loose(<<Call("operand", Depth, FALSE)>>)
         /\ Loose(<<Call("term", Depth, FALSE), Call("factor", Depth, FALSE)>>)
<1>1. \A cs : Leaf(cs) => Loose(cs)
  BY DEF Leaf, Loose, ExprLevel
<1>2. PICK r, o : /\ r = Call("rel", Depth, FALSE) /\ r.pc = "rel"
                  /\ o = Call("operand", Depth, FALSE) /\ o.pc = "operand"
  <2>1. LET c == Call("rel", Depth, FALSE) IN c.pc = "rel"
    BY DEF Call
  <2>2. LET c == Call("operand", Depth, FALSE) IN c.pc = "operand"
    BY DEF Call
  <2> QED BY <2>1, <2>2, Zenon
<1>3. Loose(<<Call("operand", Depth, FALSE)>>)
  <2>1. PICK cs : cs = <<Call("operand", Depth, FALSE)>>
    OBVIOUS
  <2>2. Len(cs) = 1 /\ cs[1] = Call("operand", Depth, FALSE) /\ \A i \in 1..1 : i = 1
    BY <2>1
  <2>3. Calls(cs)
    BY <2>1, CallsMade
  <2>4. cs[1].pc \in ExprLevel
    BY <1>2, <2>2 DEF ExprLevel
  <2> QED BY <2>1, <2>2, <2>3, <2>4 DEF Loose
<1>4. Loose(parse_rel)
  <2>1. PICK cs : cs = parse_rel
    OBVIOUS
  <2>2. /\ Len(cs) = 2 /\ cs[1] = Call("rel", Depth, FALSE) /\ cs[2] = Call("operand", Depth, FALSE)
        /\ \A i \in 1..2 : i = 1 \/ i = 2
    BY <2>1 DEF parse_rel
  <2>3. Calls(cs)
    BY <2>1, CallsMade
  <2>4. cs[1].pc \in ExprLevel /\ cs[2].pc \in ExprLevel
    BY <1>2, <2>2 DEF ExprLevel
  <2> QED BY <2>1, <2>2, <2>3, <2>4 DEF Loose
<1> QED BY <1>1, <1>3, <1>4, LeafCalls

----------------------------------------------------------------------------
(* What a step without an error leaves of them.                            *)

Rooted ==
  /\ TypeInv /\ IsListing(tree) /\ FitsAll(tree)
  /\ Fitting(Below, tree) /\ Suits(Top, Below, tree)
  /\ Top.pc \notin ExprLevel => Outer(Below)

LEMMA Roots ==
  ASSUME TypeInv, Shape, IsListing(tree), FitsAll(tree), Fitting(stack, tree)
  PROVE  Rooted
<1>1. PICK s, n : s = stack /\ n = Len(s) - 1 /\ Sound(s)
  BY DEF Shape, ShapeAt
<1>2. /\ n \in Nat /\ Len(s) = n + 1 /\ Len(Below) = n
      /\ \A i \in 1..n : Below[i] = s[i]
      /\ Top = s[n + 1]
  BY <1>1, BelowIs DEF Top
<1>3. Top.pc \notin ExprLevel => Outer(Below)
  BY <1>1, <1>2 DEF Sound, Outer
<1>4. Suits(Top, Below, tree)
  BY <1>1, <1>2 DEF Fitting, Suits
<1>5. Fitting(Below, tree)
  BY <1>1, <1>2 DEF Fitting
<1> QED BY <1>3, <1>4, <1>5 DEF Rooted

\* The points that an innermost call may come to with the tree as it is.
Follows(pc) ==
  \/ pc \in ExprLevel
  \/ /\ Top.pc \notin ExprLevel
     /\ pc \in Bodied => Top.pc \in Bodied
     /\ pc \in OfAnIf => Top.pc \in OfAnIf
     /\ pc \in OfAMatch => Top.pc \in OfAMatch
     /\ Top.pc \in {"block", "in block"} => pc \in {"block", "in block"}
     /\ Top.pc = "program" <=> pc = "program"

LEMMA AtIs == \A pc, arg : LET c == At(pc, arg) IN c.pc = pc /\ c.depth = Depth
BY DEF At

LEMMA AtCall ==
  ASSUME TypeInv
  PROVE  \A pc, arg : \E c : c = At(pc, arg) /\ IsCall(c) /\ c.pc = pc /\ c.depth = Depth
<1> TAKE pc, arg
<1>1. LET c == At(pc, arg) IN IsCall(c) /\ c.pc = pc /\ c.depth = Depth
  BY AtIs, AtIsCall
<1> QED BY <1>1

LEMMA CallAt == \A pc, depth, arg : \E c : c = Call(pc, depth, arg) /\ c.pc = pc /\ c.depth = depth
<1> TAKE pc, depth, arg
<1>1. LET c == Call(pc, depth, arg) IN c.pc = pc /\ c.depth = depth
  BY DEF Call
<1> QED BY <1>1

LEMMA GoingOn ==
  ASSUME Rooted, NEW c, Follows(c.pc), c.depth = Depth
  PROVE  Suits(c, Below, tree)
<1>1. PICK pc : c.pc = pc /\ Follows(pc)
  OBVIOUS
<1>2. CASE pc \in ExprLevel
  BY <1>1, <1>2 DEF Suits
<1>3. CASE pc \notin ExprLevel
  <2>1. /\ Top.pc \notin ExprLevel /\ Settled(Top, tree)
        /\ \A i \in 1..Len(Below) : Own(Below[i]) <= Floor(Top)
    BY <1>1, <1>3 DEF Follows, Rooted, Suits
  <2>2. Depth \in Nat /\ Deepest(tree) \in Nat
    BY DepthBelow, DeepestIsNat DEF Rooted
  <2>3. Want(c) <= Deepest(tree)
    <3>1. Want(c) <= Want(Top) /\ Want(c) \in Nat /\ Want(Top) \in Nat
      <4>1. PICK d \in Nat : d = Depth /\ d = Top.depth /\ c.depth = d
        BY <1>1, <2>2 DEF Depth
      <4>2. /\ Want(c) = IF pc = "program" THEN 0 ELSE IF pc \in Bodied THEN d + 1 ELSE d
            /\ Want(Top) = IF Top.pc = "program" THEN 0 ELSE IF Top.pc \in Bodied THEN d + 1 ELSE d
        BY <1>1, <4>1 DEF Want
      <4>3. /\ Top.pc = "program" => pc = "program"
            /\ pc \in Bodied => Top.pc \in Bodied
        BY <1>1, <1>3 DEF Follows
      <4> HIDE DEF Bodied
      <4> QED BY <4>2, <4>3
    <3> QED BY <2>1, <2>2, <3>1 DEF Settled
  <2>4. Settled(c, tree)
    BY <1>1, <1>3, <2>1, <2>3 DEF Settled, Follows, Depth
  <2>5. \A i \in 1..Len(Below) : Own(Below[i]) <= Floor(c)
    <3>1. ASSUME NEW i \in 1..Len(Below) PROVE Own(Below[i]) <= Floor(c)
      <4>1. IsCall(Below[i])
        BY BelowOK DEF Calls, Rooted
      <4>2. Own(Below[i]) \in Nat
        BY <4>1 DEF Own, IsCall
      <4>3. Floor(Top) \in Nat /\ Floor(c) \in Nat /\ Floor(Top) <= Floor(c)
        <5>1. PICK d \in Nat : d = Top.depth /\ c.depth = d
          BY <1>1, <2>2 DEF Depth
        <5>2. /\ Top.pc \in {"block", "in block"} => pc \in {"block", "in block"}
              /\ Top.pc = "program" <=> pc = "program"
          BY <1>1, <1>3 DEF Follows
        <5>3. /\ Floor(c) = IF pc = "program" THEN 0 ELSE IF pc \in {"block", "in block"} THEN d + 1 ELSE d
              /\ Floor(Top) = IF Top.pc = "program" THEN 0
                              ELSE IF Top.pc \in {"block", "in block"} THEN d + 1 ELSE d
          BY <1>1, <5>1 DEF Floor
        <5>4. \/ Floor(c) = d + 1 /\ Floor(Top) \in {d, d + 1}
              \/ Floor(c) = d /\ Floor(Top) = d
              \/ Floor(c) = 0 /\ Floor(Top) = 0
          BY <5>2, <5>3, Zenon
        <5> QED BY ONLY <5>4, d \in Nat
      <4> QED BY <2>1, <4>2, <4>3
    <3> QED BY <3>1
  <2> QED BY <1>1, <2>4, <2>5 DEF Suits
<1> QED BY <1>2, <1>3

LEMMA FittingStacks ==
  ASSUME Rooted
  PROVE  /\ Fitting(Return, tree)
         /\ \A pc, arg : Follows(pc) => Fitting(Append(Below, At(pc, arg)), tree)
         /\ \A pc : Follows(pc) => Fitting(Then(pc), tree)
         /\ \A pc, cs : Follows(pc) /\ Loose(cs) => Fitting(CallThen(cs, pc), tree)
         /\ \A cs : Loose(cs) => Fitting(Instead(cs), tree)
         /\ \A pc \in Operations : \A arg, cs : Loose(cs) => Fitting(Append(Below, Call(pc, Depth, arg)) \o cs, tree)
<1>1. TypeInv /\ Calls(Below) /\ Fitting(Below, tree) /\ Depth \in Nat
  BY BelowOK, DepthBelow DEF Rooted
<1>2. ASSUME NEW pc, NEW arg, Follows(pc)
      PROVE  Fitting(Append(Below, At(pc, arg)), tree) /\ Calls(Append(Below, At(pc, arg)))
  <2>1. PICK c : c = At(pc, arg) /\ IsCall(c) /\ c.pc = pc /\ c.depth = Depth
    BY <1>1, AtIsCall, AtIs
  <2>2. Suits(c, Below, tree)
    BY <1>2, <2>1, GoingOn
  <2> QED BY <1>1, <2>1, <2>2, FittingOnTop, OneMore
<1>3. \A pc : Follows(pc) => Fitting(Then(pc), tree)
  BY <1>2 DEF Then
<1>4. \A pc, cs : Follows(pc) /\ Loose(cs) => Fitting(CallThen(cs, pc), tree)
  BY <1>2, FittingLoose DEF CallThen
<1>5. \A cs : Loose(cs) => Fitting(Instead(cs), tree)
  BY <1>1, FittingLoose DEF Instead
<1>6. ASSUME NEW pc \in Operations, NEW arg, NEW cs, Loose(cs)
      PROVE  Fitting(Append(Below, Call(pc, Depth, arg)) \o cs, tree)
  <2>1. PICK c : c = Call(pc, Depth, arg) /\ c.pc = pc /\ IsCall(c)
    BY <1>1, CallIsCall DEF Call
  <2>2. Suits(c, Below, tree)
    BY <2>1 DEF Suits, Operations, ExprLevel
  <2>3. Fitting(Append(Below, c), tree) /\ Calls(Append(Below, c))
    BY <1>1, <2>1, <2>2, FittingOnTop, OneMore
  <2> QED BY <1>6, <2>1, <2>3, FittingLoose
<1> QED BY <1>1, <1>2, <1>3, <1>4, <1>5, <1>6 DEF Return

\* A call that makes lines, in place of the innermost or on it.
LEMMA CallInstead ==
  ASSUME Rooted, NEW c, Suits(c, Below, tree)
  PROVE  Fitting(Instead(<<c>>), tree)
<1>1. Calls(Below) /\ Fitting(Below, tree)
  BY BelowOK DEF Rooted
<1>2. Below \o <<c>> = Append(Below, c)
  BY <1>1, JoinedCalls
<1> QED BY <1>1, <1>2, FittingOnTop DEF Instead

LEMMA CallAbove ==
  ASSUME Rooted, NEW c, Suits(c, Below, tree), NEW pc, Follows(pc),
         c.pc \notin ExprLevel => Own(At(pc, Top.arg)) <= Floor(c)
  PROVE  Fitting(CallThen(<<c>>, pc), tree)
<1>1. Calls(Below) /\ TypeInv
  BY BelowOK DEF Rooted
<1>2. PICK a : a = At(pc, Top.arg) /\ IsCall(a)
  BY <1>1, AtIsCall
<1>3. PICK t : t = Append(Below, a) /\ Calls(t) /\ Fitting(t, tree)
  BY <1>1, <1>2, FittingStacks, OneMore
<1>4. /\ Len(t) = Len(Below) + 1 /\ Len(Below) \in Nat
      /\ \A i \in 1..Len(Below) : t[i] = Below[i]
      /\ t[Len(Below) + 1] = a
  <2>1. t = Append(Below, a) /\ Calls(Below)
    BY <1>1, <1>3
  <2> QED BY ONLY <2>1, OneMoreIs
<1>5. Suits(c, t, tree)
  <2>1. \A i \in 1..Len(t) : i \in 1..Len(Below) \/ i = Len(Below) + 1
    BY <1>4
  <2> QED BY <1>2, <1>4, <2>1 DEF Suits
<1>6. t \o <<c>> = Append(t, c)
  BY <1>3, JoinedCalls
<1> QED BY <1>2, <1>3, <1>5, <1>6, FittingOnTop DEF CallThen

Growing == IsListing(tree) /\ FitsAll(tree) /\ Fitting(stack, tree)

\* Steps that make no line.
LEMMA FittingForms ==
  ASSUME Calm, Rooted, NEW s, Fitting(s, tree)
  PROVE  /\ \A n, err, passed : Move(n, s, err, <<>>, passed) => Growing'
         /\ \A n : Go(n, s) => Growing'
         /\ \A n : ~Complain(n, s)
         /\ \A kind : TakeFor(kind, s) => Growing'
         /\ \A kind : Expect(kind, s) => Growing'
         /\ \A kind : Require(kind, s) => Growing'
<1>1. tree \o <<>> = tree
  BY DEF Rooted, IsListing, IsSequence
<1>2. ASSUME NEW n, NEW err, NEW passed, Move(n, s, err, <<>>, passed)  PROVE Growing'
  <2>1. tree' = tree /\ stack' = s
    BY <1>1, <1>2 DEF Move
  <2> QED BY <2>1 DEF Rooted, Growing
<1>3. \A n : Go(n, s) => Growing'
  BY <1>2 DEF Go
<1>4. \A n : ~Complain(n, s)
  BY CalmStep DEF Complain
<1>5. \A kind : TakeFor(kind, s) => Growing'
  BY <1>2 DEF TakeFor
<1>6. \A kind : Expect(kind, s) => Growing'
  BY <1>3, <1>4 DEF Expect
<1>7. \A kind : Require(kind, s) => Growing'
  BY <1>3, CalmStep DEF Require
<1> QED BY <1>2, <1>3, <1>4, <1>5, <1>6, <1>7

----------------------------------------------------------------------------
(* Steps that make a line.                                                 *)

Makers == {"instr", "else", "case", "body"}
Line(kind) == [kind |-> kind, name |-> "-", depth |-> Depth]

LEMMA LineIs == \A kind : LET line == Line(kind) IN line.kind = kind /\ line.depth = Depth
BY DEF Line

LEMMA LineMade ==
  ASSUME Rooted, Top.pc \in Makers, NEW kind,
         kind \in Tree!IfParts => Top.pc = "else",
         kind \in Tree!Cases => Top.pc = "case"
  PROVE  LET p == Append(tree, Line(kind)) IN IsListing(p) /\ FitsAll(p) /\ Fitting(Below, p)
<1>1. PICK line : line = Line(kind) /\ line.kind = kind /\ line.depth = Depth
  BY LineIs
<1>2. PICK p : p = Append(tree, line)
  OBVIOUS
<1>3. TypeInv /\ IsListing(tree) /\ FitsAll(tree) /\ Depth \in Nat /\ Calls(Below) /\ Len(Below) \in Nat
  BY BelowOK, DepthBelow, SequenceLength DEF Rooted, Calls
<1>4. /\ Settled(Top, tree) /\ Outer(Below) /\ \A i \in 1..Len(Below) : Own(Below[i]) <= Depth
  BY DEF Rooted, Suits, Makers, ExprLevel, Floor, Depth
<1>5. Tree!Fits(tree, line)
  <2>1. Want(Top) = Depth
    BY DEF Want, Makers, Bodied, Depth
  <2>2. Depth <= Deepest(tree)
    BY <1>4, <2>1 DEF Settled
  <2>3. line.kind \in Tree!IfParts => PeerOf(tree, line.depth, {"if", "elif"})
    BY <1>1, <1>4 DEF Settled, OfAnIf, Depth
  <2>4. line.kind \in Tree!Cases => PeerOf(tree, line.depth, {"match"} \cup Tree!Cases)
    BY <1>1, <1>4 DEF Settled, OfAMatch, Depth
  <2> QED BY <1>1, <1>3, <2>2, <2>3, <2>4, FitsThere
<1>6. IsListing(p) /\ FitsAll(p)
  BY <1>1, <1>2, <1>3, <1>5, FitsMore, LineMore DEF OneLine
<1>7. /\ Deepest(p) \in Nat /\ Depth <= Deepest(p)
      /\ \A K : \A d \in Nat : PeerOf(tree, d, K) /\ d < Depth => PeerOf(p, d, K)
  <2>1. line.depth \in Nat
    BY <1>1, <1>3
  <2>2. /\ Deepest(p) = (IF line.kind \in Tree!Heads THEN line.depth + 1 ELSE line.depth)
        /\ Deepest(p) \in Nat
        /\ \A K : \A d \in Nat : PeerOf(tree, d, K) /\ d < line.depth => PeerOf(p, d, K)
    BY <1>2, <1>3, <2>1, DeepestMore
  <2> QED BY <1>1, <2>1, <2>2
<1>8. ASSUME NEW i \in 1..Len(Below)  PROVE Settled(Below[i], p)
  <2>1. PICK c : c = Below[i] /\ c.pc \in Parents /\ c.depth \in Nat /\ Own(c) <= Depth
    BY <1>3, <1>4 DEF Outer, Calls, IsCall
  <2>2. PICK d \in Nat : d = c.depth
    BY <2>1
  <2>3. c.pc \notin ExprLevel
    BY <2>1 DEF Parents, ExprLevel
  <2>4. Settled(c, tree)
    BY <2>1, <2>3 DEF Rooted, Fitting
  <2>5. c.pc = "program" \/ d < Depth
    <3>1. c.pc # "program" => d + 1 <= Depth
      BY <2>1, <2>2 DEF Own
    <3> QED BY <1>3, <3>1
  <2>6. Want(c) <= Depth
    <3>1. Want(c) = 0 \/ (d < Depth /\ (Want(c) = d \/ Want(c) = d + 1))
      BY <2>2, <2>5 DEF Want
    <3> QED BY ONLY <1>3, <3>1, d \in Nat
  <2>7. Want(c) <= Deepest(p)
    <3>1. Want(c) \in Nat
      BY <2>2 DEF Want
    <3> QED BY ONLY <1>3, <1>7, <2>6, <3>1
  <2>8. c.pc \in OfAnIf => PeerOf(p, c.depth, {"if", "elif"})
    <3>1. c.pc \in OfAnIf => c.pc # "program"
      BY DEF OfAnIf
    <3> QED BY <1>7, <2>2, <2>4, <2>5, <3>1 DEF Settled
  <2>9. c.pc \in OfAMatch => PeerOf(p, c.depth, {"match"} \cup Tree!Cases)
    <3>1. c.pc \in OfAMatch => c.pc # "program"
      BY DEF OfAMatch
    <3> QED BY <1>7, <2>2, <2>4, <2>5, <3>1 DEF Settled
  <2> QED BY <2>1, <2>7, <2>8, <2>9 DEF Settled
<1>9. Fitting(Below, p)
  BY <1>8 DEF Rooted, Fitting
<1> QED BY <1>1, <1>2, <1>6, <1>9

\* A call right behind the line it has made.
Ready(pc, kind) ==
  /\ pc \in Bodied => kind \in Tree!Heads
  /\ pc \in OfAnIf => kind \in {"if", "elif"}
  /\ pc \in OfAMatch => kind \in {"match"} \cup Tree!Cases

LEMMA LineCall ==
  ASSUME Rooted, Top.pc \in Makers, NEW kind, NEW c, c.depth = Depth, c.pc # "program", Ready(c.pc, kind)
  PROVE  Suits(c, Below, Append(tree, Line(kind)))
<1>1. PICK line : line = Line(kind) /\ line.kind = kind /\ line.depth = Depth
  BY LineIs
<1>2. PICK p : p = Append(tree, line)
  OBVIOUS
<1>3. IsListing(tree) /\ Depth \in Nat
  BY DepthBelow DEF Rooted
<1>4. line.depth \in Nat
  BY <1>1, <1>3
<1>5. /\ Deepest(p) = (IF kind \in Tree!Heads THEN Depth + 1 ELSE Depth)
      /\ \A K : kind \in K => PeerOf(p, Depth, K)
  <2>1. /\ Deepest(p) = (IF line.kind \in Tree!Heads THEN line.depth + 1 ELSE line.depth)
        /\ \A K : line.kind \in K => PeerOf(p, line.depth, K)
    BY <1>2, <1>3, <1>4, DeepestMore
  <2> QED BY <1>1, <2>1
<1>6. Want(c) <= Deepest(p)
  <2>1. Want(c) = Depth \/ (c.pc \in Bodied /\ Want(c) = Depth + 1)
    BY DEF Want
  <2>2. c.pc \in Bodied => Deepest(p) = Depth + 1
    BY <1>5 DEF Ready
  <2>3. Deepest(p) \in {Depth, Depth + 1}
    BY <1>5
  <2> QED BY <1>3, <2>1, <2>2, <2>3
<1>7. Settled(c, p)
  BY <1>5, <1>6 DEF Settled, Ready
<1>8. \A i \in 1..Len(Below) : Own(Below[i]) <= Floor(c)
  <2>1. ASSUME NEW i \in 1..Len(Below)  PROVE Own(Below[i]) <= Floor(c)
    <3>1. Own(Below[i]) <= Depth
      BY DEF Rooted, Suits, Makers, ExprLevel, Floor, Depth
    <3>2. Floor(c) \in {Depth, Depth + 1}
      BY DEF Floor
    <3>3. Own(Below[i]) \in Nat
      <4>1. IsCall(Below[i])
        BY BelowOK DEF Calls, Rooted
      <4> QED BY <4>1 DEF Own, IsCall
    <3> QED BY ONLY <1>3, <3>1, <3>2, <3>3
  <2> QED BY <2>1
<1> QED BY <1>1, <1>2, <1>7, <1>8 DEF Suits

LEMMA LineForms ==
  ASSUME Calm, Rooted, Top.pc \in Makers, NEW kind,
         kind \in Tree!IfParts => Top.pc = "else",
         kind \in Tree!Cases => Top.pc = "case",
         NEW s, Fitting(s, Append(tree, Line(kind)))
  PROVE  /\ \A n, err, passed : Move(n, s, err, <<Line(kind)>>, passed) => Growing'
         /\ \A n : Emit(kind, n, s) => Growing'
<1>1. PICK line : line = Line(kind)
  OBVIOUS
<1>2. PICK p : p = Append(tree, line) /\ IsListing(p) /\ FitsAll(p) /\ Fitting(s, p)
  BY <1>1, LineMade
<1>3. tree \o <<line>> = p
  <2>1. PICK A : tree \in Seq(A)
    BY DEF Rooted, IsListing, IsSequence
  <2>2. tree \in Seq(A \cup {line}) /\ <<line>> \in Seq(A \cup {line})
    BY <2>1
  <2> QED BY <1>2, <2>2
<1>4. ASSUME NEW n, NEW err, NEW passed, Move(n, s, err, <<Line(kind)>>, passed)  PROVE Growing'
  <2>1. tree' = p /\ stack' = s
    BY <1>1, <1>3, <1>4 DEF Move
  <2> QED BY <1>2, <2>1 DEF Growing
<1>5. \A n : Emit(kind, n, s) => Growing'
  BY <1>4 DEF Emit, Line
<1> QED BY <1>4, <1>5

LEMMA OwnLines ==
  ASSUME Rooted
  PROVE  /\ \A i \in 1..Len(Below) : Own(Below[i]) \in Nat
         /\ Own(Top) = (IF Top.pc = "program" THEN 0 ELSE Depth + 1) /\ Own(Top) \in Nat
         /\ \A pc, arg : Own(At(pc, arg)) = IF pc = "program" THEN 0 ELSE Depth + 1
<1>1. Calls(Below)
  BY BelowOK DEF Rooted
<1>2. \A i \in 1..Len(Below) : Own(Below[i]) \in Nat
  BY <1>1 DEF Calls, IsCall, Own
<1>3. ASSUME NEW pc, NEW arg  PROVE Own(At(pc, arg)) = IF pc = "program" THEN 0 ELSE Depth + 1
  <2>1. At(pc, arg).pc = pc /\ At(pc, arg).depth = Depth
    BY AtIs, Zenon
  <2> QED BY <2>1 DEF Own
<1>4. Own(Top) = (IF Top.pc = "program" THEN 0 ELSE Depth + 1)
  BY DEF Own, Depth
<1>5. Depth + 1 \in Nat
  BY DepthBelow DEF Rooted
<1>6. Own(Top) \in Nat
  BY ONLY <1>4, <1>5
<1> QED BY <1>2, <1>3, <1>4, <1>6

\* The calls that others make where a body begins or goes on.
LEMMA InstrSuits ==
  ASSUME Rooted, Top.pc \in {"program", "block", "in block", "in loop", "in fn"},
         NEW c, c.pc = "instr", c.depth = Own(Top)
  PROVE  Suits(c, Below, tree) /\ \A arg : Own(At(Top.pc, arg)) <= Floor(c)
<1>1. /\ Settled(Top, tree) /\ \A i \in 1..Len(Below) : Own(Below[i]) <= Floor(Top)
  BY DEF Rooted, Suits, ExprLevel
<1>2. Depth \in Nat /\ Deepest(tree) \in Nat
  BY DepthBelow, DeepestIsNat DEF Rooted
<1>3. PICK d \in Nat : d = Own(Top) /\ Want(c) = d /\ Floor(c) = d
  <2>1. Own(Top) \in Nat
    BY OwnLines
  <2>2. Want(c) = Own(Top) /\ Floor(c) = Own(Top)
    BY DEF Want, Floor, Bodied
  <2> QED BY <2>1, <2>2
<1>4. Want(Top) = d
  BY <1>3 DEF Want, Own, Bodied
<1>5. Settled(c, tree)
  BY <1>1, <1>3, <1>4 DEF Settled, OfAnIf, OfAMatch
<1>6. Floor(Top) <= d /\ Floor(Top) \in Nat
  <2>1. CASE Top.pc = "program"
    BY <1>3, <2>1 DEF Floor, Own
  <2>2. CASE Top.pc # "program"
    <3>1. d = Depth + 1 /\ Floor(Top) \in {Depth, Depth + 1}
      BY <1>3, <2>2 DEF Floor, Own, Depth
    <3> QED BY ONLY <1>2, <3>1
  <2> QED BY <2>1, <2>2
<1>7. ASSUME NEW i \in 1..Len(Below)  PROVE Own(Below[i]) <= Floor(c)
  <2>2. Own(Below[i]) \in Nat
    BY OwnLines
  <2>3. Own(Below[i]) <= Floor(Top)
    BY <1>1
  <2> QED BY ONLY <1>3, <1>6, <2>2, <2>3
<1>8. ASSUME NEW arg  PROVE Own(At(Top.pc, arg)) <= Floor(c)
  <2>1. Own(At(Top.pc, arg)) = IF Top.pc = "program" THEN 0 ELSE Depth + 1
    BY OwnLines, Zenon
  <2>2. Own(Top) = IF Top.pc = "program" THEN 0 ELSE Depth + 1
    BY OwnLines, Zenon
  <2>3. Own(At(Top.pc, arg)) = d
    BY <1>3, <2>1, <2>2, Zenon
  <2>4. Floor(c) = d
    BY <1>3
  <2> QED BY ONLY <2>3, <2>4, d \in Nat
<1> QED BY <1>5, <1>7, <1>8 DEF Suits

LEMMA BlockSuits ==
  ASSUME Rooted, Top.pc \in Bodied \ {"block", "in block"}, NEW c, c.pc = "block", c.depth = Depth
  PROVE  Suits(c, Below, tree) /\ \A pc, arg : Own(At(pc, arg)) <= Floor(c)
<1>1. /\ Settled(Top, tree) /\ \A i \in 1..Len(Below) : Own(Below[i]) <= Floor(Top)
  BY DEF Rooted, Suits, ExprLevel, Bodied
<1>2. Depth \in Nat /\ Deepest(tree) \in Nat
  BY DepthBelow, DeepestIsNat DEF Rooted
<1>3. PICK d \in Nat : d = Depth /\ Want(c) = d + 1 /\ Floor(c) = d + 1 /\ Want(Top) = d + 1 /\ Floor(Top) = d
  BY <1>2 DEF Want, Floor, Bodied, Depth
<1>4. Settled(c, tree)
  BY <1>1, <1>3 DEF Settled, OfAnIf, OfAMatch
<1>5. ASSUME NEW i \in 1..Len(Below)  PROVE Own(Below[i]) <= Floor(c)
  <2>2. Own(Below[i]) \in Nat
    BY OwnLines
  <2>3. Own(Below[i]) <= Floor(Top)
    BY <1>1
  <2> QED BY ONLY <1>3, <2>2, <2>3
<1>6. ASSUME NEW pc, NEW arg  PROVE Own(At(pc, arg)) <= Floor(c)
  <2>1. Own(At(pc, arg)) = IF pc = "program" THEN 0 ELSE Depth + 1
    BY OwnLines, Zenon
  <2>2. Own(At(pc, arg)) \in {0, d + 1}
    BY <1>3, <2>1, Zenon
  <2>3. Floor(c) = d + 1
    BY <1>3
  <2> QED BY ONLY <2>2, <2>3, d \in Nat
<1> QED BY <1>4, <1>5, <1>6 DEF Suits

\* The points that need no line.
LEMMA FollowsPoints ==
  /\ \A pc \in ExprLevel : Follows(pc)
  /\ Top.pc \notin ExprLevel \cup {"program", "block", "in block"} =>
       \A pc \in {"size", "sized", "array", "element", "element end", "subscript", "subscript =", "return",
                  "returned", "until", "fn (", "parameter", "name or pointer", "name", "parameter end",
                  "signature", "type", "more types", "body", "declare", "assign", "goto", "fn"} : Follows(pc)
<1>1. \A pc : pc \notin Bodied \cup OfAnIf \cup OfAMatch \cup {"program"}
               /\ Top.pc \notin ExprLevel \cup {"program", "block", "in block"} => Follows(pc)
  BY DEF Follows
<1>2. ({"size", "sized", "array", "element", "element end", "subscript", "subscript =", "return",
        "returned", "until", "fn (", "parameter", "name or pointer", "name", "parameter end",
        "signature", "type", "more types", "body", "declare", "assign", "goto", "fn"}
       \cap (Bodied \cup OfAnIf \cup OfAMatch \cup {"program"})) = {}
  BY DEF Bodied, OfAnIf, OfAMatch
<1>3. \A pc \in ExprLevel : Follows(pc)
  BY DEF Follows
<1> QED BY <1>1, <1>2, <1>3

----------------------------------------------------------------------------
(* The actions, by the lines they make and the calls they leave.           *)

Rootedly == Calm /\ Rooted

LEMMA FactorGrows == ASSUME Rootedly, Factor PROVE Growing'
<1>0. Calm /\ Rooted /\ TypeInv
  BY DEF Rootedly, Rooted
<1>1. Fitting(Then("after id"), tree) /\ Fitting(Return, tree) /\ Fitting(CallThen(parse_expr, "paren"), tree)
  BY <1>0, FittingStacks, FollowsPoints, LooseCalls DEF ExprLevel
<1>2. CASE Tok \in {"lit", "ptr", "id"}
  <2>1. PICK s : s = (IF Tok = "id" THEN Then("after id") ELSE Return) /\ Fitting(s, tree)
    BY <1>1
  <2>2. Move(1, s, FALSE, <<>>, {})
    BY <1>0, <1>2, <2>1, CalmStep DEF Factor
  <2> QED BY <1>0, <2>1, <2>2, FittingForms
<1>3. CASE Tok \notin {"lit", "ptr", "id"}
  <2>1. Go(1, CallThen(parse_expr, "paren"))
    BY <1>0, <1>3, CalmStep DEF Factor
  <2> QED BY <1>0, <1>1, <2>1, FittingForms
<1> QED BY <1>2, <1>3

LEMMA AfterIdentifierGrows ==
  ASSUME Rootedly, AfterIdentifier \/ CloseIndex \/ CloseParen \/ Arguments \/ ArgumentComma
  PROVE  Growing'
<1>0. Calm /\ Rooted /\ TypeInv
  BY DEF Rootedly, Rooted
<1>1. /\ Fitting(CallThen(parse_expr, "index"), tree) /\ Fitting(Then("arguments"), tree) /\ Fitting(Return, tree)
      /\ Fitting(CallThen(parse_expr, "comma"), tree)
  BY <1>0, FittingStacks, FollowsPoints, LooseCalls DEF ExprLevel
<1>2. CASE AfterIdentifier
  BY <1>0, <1>1, <1>2, FittingForms DEF AfterIdentifier
<1>3. CASE CloseIndex
  BY <1>0, <1>1, <1>3, FittingForms DEF CloseIndex
<1>4. CASE CloseParen
  BY <1>0, <1>1, <1>4, FittingForms DEF CloseParen
<1>5. CASE Arguments
  BY <1>0, <1>1, <1>5, FittingForms DEF Arguments
<1>6. CASE ArgumentComma
  BY <1>0, <1>1, <1>6, FittingForms DEF ArgumentComma
<1> QED BY <1>2, <1>3, <1>4, <1>5, <1>6

LEMMA OperatorGrows ==
  ASSUME Rootedly, NEW pc \in Operations, NEW operator, NEW operand, Loose(operand),
         Operators(pc, operator, operand)
  PROVE  Growing'
<1>0. Calm /\ Rooted
  BY DEF Rootedly
<1>1. PICK s : s = Append(Below, Call(pc, Depth, TRUE)) \o operand /\ Fitting(s, tree)
  BY <1>0, FittingStacks
<1>2. Fitting(Return, tree)
  BY <1>0, FittingStacks
<1>3. Move(1, s, FALSE, <<>>, {}) \/ Move(0, Return, FALSE, <<>>, {})
  BY <1>0, <1>1, CalmStep DEF Operators
<1> QED BY <1>0, <1>1, <1>2, <1>3, FittingForms

LEMMA ExpressionGrows ==
  ASSUME Rootedly, Term \/ Expression \/ parse_term_for_expr \/ Relation
  PROVE  Growing'
<1>0. Calm /\ Rooted /\ TypeInv
  BY DEF Rootedly, Rooted
<1>1. CASE Term
  BY <1>0, <1>1, LooseCalls, OperatorGrows DEF Term, Operations
<1>2. CASE Expression
  BY <1>0, <1>2, LooseCalls, OperatorGrows DEF Expression, Operations
<1>3. /\ Fitting(Then("after id"), tree) /\ Fitting(Return, tree)
      /\ Fitting(Instead(<<Call("operand", Depth, FALSE)>>), tree)
  BY <1>0, FittingStacks, FollowsPoints, LooseCalls DEF ExprLevel
<1>4. CASE parse_term_for_expr
  BY <1>0, <1>3, <1>4, FittingForms DEF parse_term_for_expr
<1>5. CASE Relation
  BY <1>0, <1>3, <1>5, FittingForms DEF Relation
<1> QED BY <1>1, <1>2, <1>4, <1>5

LEMMA DeclarationGrows ==
  ASSUME Rootedly, DeclareName \/ DeclareSize \/ DeclareArray \/ parse_initialize_array
  PROVE  Growing'
<1>0. Calm /\ Rooted /\ TypeInv /\ Top.pc \notin ExprLevel \cup {"program", "block", "in block"}
  BY DEF Rootedly, Rooted, DeclareName, DeclareSize, DeclareArray, parse_initialize_array, ExprLevel
<1>1. /\ Fitting(Then("size"), tree) /\ Fitting(CallThen(parse_expr, "sized"), tree)
      /\ Fitting(Instead(parse_expr), tree) /\ Fitting(Return, tree) /\ Fitting(Then("array"), tree)
      /\ Fitting(Then("element"), tree) /\ Fitting(CallThen(parse_expr, "element end"), tree)
  BY <1>0, FittingStacks, FollowsPoints, LooseCalls
<1>2. Fitting(Instead(<<Call("elements", Depth, FALSE)>>), tree)
  <2>1. PICK c : c = Call("elements", Depth, FALSE) /\ c.pc = "elements" /\ c.depth = Depth
    <3>1. LET c == Call("elements", Depth, FALSE) IN c.pc = "elements" /\ c.depth = Depth
      BY DEF Call
    <3> QED BY <3>1, Zenon
  <2>2. Follows("elements")
    BY <1>0 DEF Follows, Bodied, OfAnIf, OfAMatch
  <2>3. Suits(c, Below, tree)
    BY <1>0, <2>1, <2>2, GoingOn
  <2> QED BY <1>0, <2>1, <2>3, CallInstead
<1>3. CASE DeclareName
  BY <1>0, <1>1, <1>3, FittingForms DEF DeclareName
<1>4. CASE DeclareSize
  BY <1>0, <1>1, <1>4, FittingForms DEF DeclareSize
<1>5. CASE DeclareArray
  BY <1>0, <1>1, <1>2, <1>5, FittingForms DEF DeclareArray
<1>6. CASE parse_initialize_array
  BY <1>0, <1>1, <1>6, FittingForms DEF parse_initialize_array
<1> QED BY <1>3, <1>4, <1>5, <1>6

LEMMA SimpleGrows == ASSUME Rootedly, parse_assign \/ parse_goto \/ parse_ret PROVE Growing'
<1>0. Calm /\ Rooted /\ TypeInv /\ Top.pc \notin ExprLevel \cup {"program", "block", "in block"}
  BY DEF Rootedly, Rooted, parse_assign, parse_goto, parse_ret, ExprLevel
<1>1. /\ Fitting(CallThen(parse_expr, "subscript"), tree) /\ Fitting(Then("arguments"), tree)
      /\ Fitting(Instead(parse_expr), tree) /\ Fitting(Then("subscript ="), tree) /\ Fitting(Return, tree)
      /\ Fitting(CallThen(parse_expr, "returned"), tree) /\ Fitting(Then("return"), tree)
  BY <1>0, FittingStacks, FollowsPoints, LooseCalls DEF ExprLevel
<1>2. CASE parse_assign
  BY <1>0, <1>1, <1>2, FittingForms DEF parse_assign
<1>3. CASE parse_goto
  BY <1>0, <1>1, <1>3, FittingForms DEF parse_goto
<1>4. CASE parse_ret
  BY <1>0, <1>1, <1>4, FittingForms DEF parse_ret
<1> QED BY <1>2, <1>3, <1>4

\* Bodies: the instructions of one are as deep as its own lines.
LEMMA NextInstrGrows ==
  ASSUME Rootedly, Top.pc \in {"program", "in block", "in loop", "in fn"}, NEW depth, depth = Own(Top),
         NextInstr(depth, Top.pc)
  PROVE  Growing'
<1>0. Calm /\ Rooted
  BY DEF Rootedly
<1>1. PICK null : NextInstr(depth, Top.pc) /\ null = Full(Instr)
  OBVIOUS
<1>2. PICK c : c = Call("instr", depth, null) /\ c.pc = "instr" /\ c.depth = depth
  BY ONLY CallAt
<1>3. Suits(c, Below, tree) /\ Own(At(Top.pc, Top.arg)) <= Floor(c)
  BY <1>0, <1>2, InstrSuits
<1>4. Follows(Top.pc)
  BY DEF Follows, ExprLevel
<1>5. Fitting(CallThen(<<c>>, Top.pc), tree)
  BY <1>0, <1>3, <1>4, CallAbove
<1>6. Move(0, CallThen(<<c>>, Top.pc), null, <<>>, {})
  BY <1>1, <1>2 DEF NextInstr, parse_instr
<1> QED BY <1>0, <1>5, <1>6, FittingForms

LEMMA BodyGrows ==
  ASSUME Rootedly, NEW pc \in {"in block", "in loop", "in fn"}, NEW ends,
         NEW after, Fitting(after, tree), Body(pc, ends, Depth + 1, after)
  PROVE  Growing'
<1>1. Top.pc = pc /\ (Go(1, after) \/ NextInstr(Depth + 1, pc))
  BY DEF Body
<1>2. CASE Go(1, after)
  BY <1>2, FittingForms DEF Rootedly
<1>3. CASE NextInstr(Depth + 1, pc)
  <2>1. Depth + 1 = Own(Top)
    BY <1>1 DEF Own, Depth
  <2> QED BY <1>1, <1>3, <2>1, NextInstrGrows
<1> QED BY <1>1, <1>2, <1>3

LEMMA CondBlockGrows == ASSUME Rootedly, CondBlock PROVE Growing'
<1>0. Calm /\ Rooted /\ Top.pc \in {"block", "in block"}
  BY DEF Rootedly, CondBlock, Body
<1>1. Fitting(Return, tree) /\ Fitting(Then("in block"), tree)
  <2>1. Follows("in block")
    BY <1>0 DEF Follows, ExprLevel, Bodied, OfAnIf, OfAMatch
  <2> QED BY <1>0, <2>1, FittingStacks
<1>2. CASE Body("in block", {"}", "END"}, Depth + 1, Return)
  BY <1>1, <1>2, BodyGrows
<1>3. CASE ~Body("in block", {"}", "END"}, Depth + 1, Return)
  <2>1. \/ Go(1, Then("in block"))
        \/ Move(0, Instead(parse_instr(Depth + 1, Full(Instr))), Full(Instr), <<>>, {})
    BY <1>0, <1>3, CalmStep DEF CondBlock
  <2>2. Fitting(Instead(parse_instr(Depth + 1, Full(Instr))), tree)
    <3>1. PICK null : null = Full(Instr)
      OBVIOUS
    <3>2. PICK c : c = Call("instr", Depth + 1, null) /\ c.pc = "instr" /\ c.depth = Depth + 1
      BY ONLY CallAt
    <3>3. Depth + 1 = Own(Top)
      BY <1>0 DEF Own, Depth
    <3>4. Suits(c, Below, tree)
      BY <1>0, <3>2, <3>3, InstrSuits
    <3> QED BY <1>0, <3>1, <3>2, <3>4, CallInstead DEF parse_instr
  <2> QED BY <1>0, <1>1, <2>1, <2>2, FittingForms
<1> QED BY <1>2, <1>3

\* A block for what is on top, which waits for it at pc.
LEMMA BlockOnTop ==
  ASSUME Rooted, Top.pc \in Bodied \ {"block", "in block"}, NEW pc, Follows(pc)
  PROVE  Fitting(CallThen(parse_cond_block(FALSE), pc), tree)
<1>1. PICK c : c = Call("block", Depth, FALSE) /\ c.pc = "block" /\ c.depth = Depth
  <2>1. LET c == Call("block", Depth, FALSE) IN c.pc = "block" /\ c.depth = Depth
    BY DEF Call
  <2> QED BY <2>1, Zenon
<1>2. Suits(c, Below, tree) /\ Own(At(pc, Top.arg)) <= Floor(c)
  BY <1>1, BlockSuits
<1> QED BY <1>1, <1>2, CallAbove DEF parse_cond_block

LEMMA IfGrows == ASSUME Rootedly, parse_if PROVE Growing'
<1>0. Calm /\ Rooted /\ Top.pc \in {"if", "arm"}
  BY DEF Rootedly, parse_if
<1>1. CASE Top.pc = "if"
  <2>1. Follows("arm")
    BY <1>1 DEF Follows, ExprLevel, Bodied, OfAnIf, OfAMatch
  <2>2. Fitting(CallThen(parse_cond_block(FALSE), "arm"), tree)
    BY <1>0, <1>1, <2>1, BlockOnTop DEF Bodied
  <2> QED BY <1>0, <1>1, <2>2, FittingForms DEF parse_if
<1>2. CASE Top.pc = "arm"
  <2>1. Follows("else")
    BY <1>2 DEF Follows, ExprLevel, Bodied, OfAnIf, OfAMatch
  <2>2. Fitting(Then("else"), tree) /\ Fitting(Return, tree)
    BY <1>0, <2>1, FittingStacks
  <2> QED BY <1>0, <1>2, <2>2, FittingForms DEF parse_if
<1> QED BY <1>0, <1>1, <1>2

LEMMA LoopGrows == ASSUME Rootedly, parse_loop PROVE Growing'
<1>0. Calm /\ Rooted /\ TypeInv /\ ~Exit
      /\ Top.pc \in {"for", "in", "from", "while", "open", "in loop", "until"}
  BY CalmStep DEF Rootedly, Rooted, parse_loop, Body
<1>1. /\ Top.pc # "until" => Follows("in") /\ Follows("open") /\ Follows("in loop") /\ Follows("until")
                             /\ Follows("from")
  BY <1>0 DEF Follows, ExprLevel, Bodied, OfAnIf, OfAMatch
<1>2. /\ Fitting(Return, tree) /\ Fitting(Instead(parse_rel), tree)
      /\ Top.pc # "until" =>
           /\ Fitting(Then("in"), tree) /\ Fitting(Then("in loop"), tree) /\ Fitting(Then("until"), tree)
           /\ Fitting(CallThen(parse_rel, "open"), tree) /\ Fitting(CallThen(parse_expr, "open"), tree)
           /\ Fitting(CallThen(parse_expr, "from"), tree)
  BY <1>0, <1>1, FittingStacks, LooseCalls
<1>3. CASE Body("in loop", {"}"}, Depth + 1, IF Top.arg = "dowhile" THEN Then("until") ELSE Return)
  <2>1. PICK after : after = IF Top.arg = "dowhile" THEN Then("until") ELSE Return
    OBVIOUS
  <2>2. Top.pc = "in loop" /\ Body("in loop", {"}"}, Depth + 1, after)
    BY <1>3, <2>1 DEF Body
  <2>3. Fitting(after, tree)
    BY <1>2, <2>1, <2>2
  <2> QED BY <2>2, <2>3, BodyGrows
<1>4. CASE ~Body("in loop", {"}"}, Depth + 1, IF Top.arg = "dowhile" THEN Then("until") ELSE Return)
  <2>1. \A pc \in {"from", "open"} : Top.pc # "until" /\ WastedNode(1, <<>>, pc) => Growing'
    BY <1>0, <1>2, FittingForms DEF WastedNode
  <2> QED BY <1>0, <1>2, <1>4, <2>1, FittingForms DEF parse_loop
<1> QED BY <1>3, <1>4

LEMMA FunctionGrows == ASSUME Rootedly, Parameters \/ ReturnTypes PROVE Growing'
<1>0. Calm /\ Rooted /\ TypeInv /\ Top.pc \notin ExprLevel \cup {"program", "block", "in block"}
  BY DEF Rootedly, Rooted, Parameters, ReturnTypes, ExprLevel
<1>1. /\ \A pc \in {"fn (", "parameter", "name or pointer", "name", "parameter end",
                    "signature", "type", "more types", "body"} : Fitting(Then(pc), tree)
      /\ Fitting(Return, tree)
  BY <1>0, FittingStacks, FollowsPoints
<1>2. CASE Parameters
  BY <1>0, <1>1, <1>2, FittingForms DEF Parameters
<1>3. CASE ReturnTypes
  BY <1>0, <1>1, <1>3, FittingForms DEF ReturnTypes
<1> QED BY <1>2, <1>3

LEMMA ElseGrows == ASSUME Rootedly, Else PROVE Growing'
<1>0. Calm /\ Rooted /\ TypeInv /\ Top.pc = "else" /\ Top.pc \in Makers /\ Calls(Below) /\ Depth \in Nat
  BY BelowOK, DepthBelow DEF Rootedly, Rooted, Else, Makers
<1>1. CASE Tok = "if"
  <2>1. PICK p : p = Append(tree, Line("elif")) /\ Fitting(Below, p)
    BY <1>0, LineMade DEF Tree!IfParts, Tree!Cases
  <2>2. PICK a : a = At("arm", Top.arg) /\ IsCall(a) /\ a.pc = "arm" /\ a.depth = Depth
    <3>1. LET c == At("arm", Top.arg) IN IsCall(c) /\ c.pc = "arm" /\ c.depth = Depth
      <4>1. TypeInv
        BY <1>0
      <4> QED BY ONLY <4>1, AtIs, AtIsCall
    <3> QED BY ONLY <3>1, Zenon
  <2>3. PICK b : b = Call("block", Depth, FALSE) /\ IsCall(b) /\ b.pc = "block" /\ b.depth = Depth
    <3>1. LET c == Call("block", Depth, FALSE) IN c.pc = "block" /\ c.depth = Depth
      BY DEF Call
    <3> QED BY <1>0, <3>1, CallIsCall, Zenon
  <2>4. Suits(a, Below, p) /\ Suits(b, Below, p)
    <3>1. Ready("arm", "elif") /\ Ready("block", "elif")
      BY DEF Ready, Bodied, OfAnIf, OfAMatch, Tree!Heads, Tree!Parts, Tree!IfParts
    <3> QED BY <1>0, <2>1, <2>2, <2>3, <3>1, LineCall
  <2>5. PICK t : t = Append(Below, a) /\ Calls(t) /\ Fitting(t, p)
    BY <1>0, <2>1, <2>2, <2>4, FittingOnTop, OneMore
  <2>6. Suits(b, t, p)
    <3>1. /\ Len(t) = Len(Below) + 1 /\ Len(Below) \in Nat
          /\ \A i \in 1..Len(Below) : t[i] = Below[i]
          /\ t[Len(Below) + 1] = a
      <4>1. t = Append(Below, a) /\ Calls(Below)
        BY <1>0, <2>5
      <4> QED BY ONLY <4>1, OneMoreIs
    <3>2. \A i \in 1..Len(t) : i \in 1..Len(Below) \/ i = Len(Below) + 1
      BY <3>1
    <3>3. Own(a) = Depth + 1
      BY <2>2 DEF Own
    <3>4. Floor(b) = Depth + 1
      BY <2>3 DEF Floor
    <3>5. Depth + 1 <= Depth + 1
      BY <1>0
    <3> QED BY <2>4, <3>1, <3>2, <3>3, <3>4, <3>5 DEF Suits
  <2>7. PICK u : u = Append(t, b) /\ Calls(u) /\ Fitting(u, p)
    BY <2>3, <2>5, <2>6, FittingOnTop, OneMore
  <2>8. CallThen(parse_cond_block(FALSE) \o parse_rel, "arm") = u \o parse_rel
    <3>1. PICK v : v = <<b>> /\ Calls(v) /\ parse_cond_block(FALSE) = v
      BY <2>3, OneCall DEF parse_cond_block
    <3>2. t \o (v \o parse_rel) = (t \o v) \o parse_rel
      <4>1. IsSequence(t) /\ IsSequence(v) /\ IsSequence(parse_rel)
        BY <1>0, <2>5, <3>1, CallsMade DEF Calls
      <4> QED BY ONLY <4>1, JoinedTwice
    <3>3. t \o v = u
      BY <2>5, <2>7, <3>1, JoinedCalls
    <3> QED BY <2>2, <2>5, <3>1, <3>2, <3>3 DEF CallThen
  <2>9. PICK s : s = CallThen(parse_cond_block(FALSE) \o parse_rel, "arm") /\ Fitting(s, p)
    BY <1>0, <2>7, <2>8, LooseCalls, FittingLoose
  <2>10. Emit("elif", 1, s)
    BY <1>1, <2>9 DEF Else
  <2> QED BY <1>0, <2>1, <2>9, <2>10, LineForms DEF Tree!Cases
<1>2. CASE Tok # "if"
  <2>1. PICK p : p = Append(tree, Line("else")) /\ Fitting(Below, p)
    BY <1>0, LineMade DEF Tree!IfParts, Tree!Cases
  <2>2. PICK null : null = Full(Block)
    OBVIOUS
  <2>3. PICK c : c = Call("block", Depth, null) /\ c.pc = "block" /\ c.depth = Depth
    BY ONLY CallAt
  <2>4. Suits(c, Below, p)
    <3>1. Ready("block", "else")
      BY DEF Ready, Bodied, OfAnIf, OfAMatch, Tree!Heads, Tree!Parts, Tree!IfParts
    <3> QED BY <1>0, <2>1, <2>3, <3>1, LineCall
  <2>5. PICK s : s = Instead(<<c>>) /\ Fitting(s, p)
    <3>1. Below \o <<c>> = Append(Below, c)
      BY <1>0, JoinedCalls
    <3>2. Fitting(Append(Below, c), p)
      BY <1>0, <2>1, <2>4, FittingOnTop
    <3> QED BY <3>1, <3>2 DEF Instead
  <2>6. Move(0, s, null, <<Line("else")>>, {})
    BY <1>2, <2>2, <2>3, <2>5 DEF Else, parse_cond_block, Line
  <2> QED BY <1>0, <2>1, <2>5, <2>6, LineForms DEF Tree!Cases
<1> QED BY <1>1, <1>2

\* A line, and the call behind it.
LEMMA LineThen ==
  ASSUME Rooted, Top.pc \in Makers, NEW kind,
         kind \in Tree!IfParts => Top.pc = "else",
         kind \in Tree!Cases => Top.pc = "case",
         NEW c, IsCall(c), c.depth = Depth, c.pc # "program", Ready(c.pc, kind)
  PROVE  LET p == Append(tree, Line(kind)) IN
         /\ Fitting(Below, p) /\ Fitting(Append(Below, c), p) /\ Calls(Append(Below, c))
         /\ \A cs : Loose(cs) => Fitting(Append(Below, c) \o cs, p)
<1>1. PICK p : p = Append(tree, Line(kind)) /\ Fitting(Below, p) /\ Suits(c, Below, p)
  BY LineMade, LineCall
<1>2. Calls(Below)
  BY BelowOK DEF Rooted
<1>3. Fitting(Append(Below, c), p) /\ Calls(Append(Below, c))
  BY <1>1, <1>2, FittingOnTop, OneMore
<1> QED BY <1>1, <1>3, FittingLoose

LEMMA MatchGrows == ASSUME Rootedly, parse_match PROVE Growing'
<1>0. /\ Calm /\ Rooted /\ TypeInv /\ ~Exit /\ Depth \in Nat
      /\ Top.pc \in {"match", "case", "first value", "value", "=>"}
  BY CalmStep, DepthBelow DEF Rootedly, Rooted, parse_match
<1>1. /\ Follows("case")
      /\ Top.pc \in {"first value", "value", "=>"} => Follows("=>") /\ Follows("value")
  BY <1>0 DEF Follows, ExprLevel, Bodied, OfAnIf, OfAMatch
<1>2. /\ Fitting(Return, tree) /\ Fitting(Then("case"), tree)
      /\ Top.pc \in {"first value", "value", "=>"} =>
           Fitting(CallThen(parse_expr, "=>"), tree) /\ Fitting(CallThen(parse_expr, "value"), tree)
  BY <1>0, <1>1, FittingStacks, LooseCalls
<1>3. Top.pc \in {"first value", "value", "=>"} => Fitting(CallThen(parse_cond_block(FALSE), "case"), tree)
  BY <1>0, <1>1, BlockOnTop DEF Bodied
<1>4. CASE Top.pc # "case"
  <2>1. \A pc \in {"=>", "value"} :
          Top.pc \in {"first value", "value", "=>"} /\ WastedNode(1, <<>>, pc) => Growing'
    BY <1>0, <1>2, FittingForms DEF WastedNode
  <2> QED BY <1>0, <1>2, <1>3, <1>4, <2>1, FittingForms DEF parse_match
<1>5. CASE Top.pc = "case"
  <2>1. Top.pc \in Makers
    BY <1>5 DEF Makers
  <2>2. CASE Emit("default", 1, Then("=>"))
    <3>1. PICK a : a = At("=>", Top.arg) /\ IsCall(a) /\ a.pc = "=>" /\ a.depth = Depth
      <4>1. LET c == At("=>", Top.arg) IN IsCall(c) /\ c.pc = "=>" /\ c.depth = Depth
        <5>1. TypeInv
          BY <1>0
        <5> QED BY ONLY <5>1, AtIs, AtIsCall
      <4> QED BY ONLY <4>1, Zenon
    <3>2. Ready("=>", "default")
      BY DEF Ready, Bodied, OfAnIf, OfAMatch, Tree!Heads, Tree!Parts, Tree!Cases
    <3>3. PICK s : s = Then("=>") /\ Fitting(s, Append(tree, Line("default")))
      BY <1>0, <1>5, <2>1, <3>1, <3>2, LineThen DEF Then, Tree!IfParts
    <3> QED BY <1>0, <1>5, <2>1, <2>2, <3>3, LineForms DEF Tree!IfParts
  <2>3. CASE WastedNode(0, <<Line("case")>>, "first value")
    <3>1. PICK a : a = At("first value", Top.arg) /\ IsCall(a) /\ a.pc = "first value" /\ a.depth = Depth
      <4>1. LET c == At("first value", Top.arg) IN IsCall(c) /\ c.pc = "first value" /\ c.depth = Depth
        <5>1. TypeInv
          BY <1>0
        <5> QED BY ONLY <5>1, AtIs, AtIsCall
      <4> QED BY ONLY <4>1, Zenon
    <3>2. Ready("first value", "case")
      BY DEF Ready, Bodied, OfAnIf, OfAMatch, Tree!Heads, Tree!Parts, Tree!Cases
    <3>3. PICK s : s = CallThen(parse_expr, "first value") /\ Fitting(s, Append(tree, Line("case")))
      BY <1>0, <1>5, <2>1, <3>1, <3>2, LooseCalls, LineThen DEF CallThen, Tree!IfParts
    <3>4. PICK null : Move(0, s, null, <<Line("case")>>, {})
      BY <2>3, <3>3 DEF WastedNode
    <3> QED BY <1>0, <1>5, <2>1, <3>3, <3>4, LineForms DEF Tree!IfParts
  <2>4. \/ Go(1, Return) \/ Emit("default", 1, Then("=>"))
        \/ WastedNode(0, <<Line("case")>>, "first value")
    BY <1>0, <1>5 DEF parse_match, Line
  <2> QED BY <1>0, <1>2, <2>2, <2>3, <2>4, FittingForms
<1> QED BY <1>4, <1>5

LEMMA FunctionBodyGrows == ASSUME Rootedly, FunctionBody PROVE Growing'
<1>0. Calm /\ Rooted /\ TypeInv
  BY DEF Rootedly, Rooted
<1>1. CASE Body("in fn", {"}", "END"}, Depth + 1, Return)
  BY <1>0, <1>1, BodyGrows, FittingStacks
<1>2. CASE Top.pc = "body" /\ (Emit("fn", 1, Then("in fn")) \/ Emit("prototype", 0, Return))
  <2>1. Top.pc \in Makers
    BY <1>2 DEF Makers
  <2>2. PICK a : a = At("in fn", Top.arg) /\ IsCall(a) /\ a.pc = "in fn" /\ a.depth = Depth
    <3>1. LET c == At("in fn", Top.arg) IN IsCall(c) /\ c.pc = "in fn" /\ c.depth = Depth
      <4>1. TypeInv
        BY <1>0
      <4> QED BY ONLY <4>1, AtIs, AtIsCall
    <3> QED BY ONLY <3>1, Zenon
  <2>3. Ready("in fn", "fn")
    BY DEF Ready, Bodied, OfAnIf, OfAMatch, Tree!Heads
  <2>4. PICK s : s = Then("in fn") /\ Fitting(s, Append(tree, Line("fn")))
    BY <1>0, <2>1, <2>2, <2>3, LineThen DEF Then, Tree!IfParts, Tree!Cases
  <2>5. Fitting(Return, Append(tree, Line("prototype")))
    BY <1>0, <2>1, LineMade DEF Return, Tree!IfParts, Tree!Cases
  <2> QED BY <1>0, <1>2, <2>1, <2>4, <2>5, LineForms DEF Tree!IfParts, Tree!Cases
<1>3. \/ Body("in fn", {"}", "END"}, Depth + 1, Return)
      \/ Top.pc = "body" /\ (Emit("fn", 1, Then("in fn")) \/ Emit("prototype", 0, Return))
  BY DEF Body, FunctionBody, Rootedly
<1> QED BY <1>1, <1>2, <1>3

\* What an instruction begins with makes its line, but a function does so
\* where its signature ends.
LEMMA InstructionGrows == ASSUME Rootedly, Instruction PROVE Growing'
<1>0. Calm /\ Rooted /\ TypeInv /\ Top.pc = "instr" /\ Top.pc \in Makers /\ Calls(Below) /\ Depth \in Nat
      /\ Top.pc \notin ExprLevel \cup {"program", "block", "in block"}
  BY BelowOK, DepthBelow DEF Rootedly, Rooted, Instruction, Makers, ExprLevel
<1>1. ~Unexpected /\ ~Crash
  <2>1. ~Exit /\ ~Crash
    BY <1>0, CalmStep
  <2> QED BY <2>1 DEF Unexpected
<1>2. ASSUME NEW kind \in {"break", "continue", "label"}, Emit(kind, 1, Return)
      PROVE  Growing'
  <2>1. kind \notin Tree!IfParts /\ kind \notin Tree!Cases
    BY <1>2 DEF Tree!IfParts, Tree!Cases
  <2>2. Fitting(Return, Append(tree, Line(kind)))
    BY <1>0, <2>1, LineMade DEF Return
  <2> QED BY <1>0, <1>2, <2>1, <2>2, LineForms
<1>3. ASSUME NEW tok \in {"type", "id", "ptr", "goto", "return"} \cup Tree!Loops,
             Emit(LineOf(tok), 1, Append(Below, At(Point(tok), tok)))
      PROVE  Growing'
  <2>1. PICK kind, pc : kind = LineOf(tok) /\ pc = Point(tok)
    OBVIOUS
  <2>2. kind \notin Tree!IfParts /\ kind \notin Tree!Cases /\ pc # "program" /\ Ready(pc, kind)
    BY <1>3, <2>1 DEF LineOf, Point, Ready, Bodied, OfAnIf, OfAMatch,
                      Tree!Loops, Tree!IfParts, Tree!Cases, Tree!Heads, Tree!Parts
  <2>3. PICK a : a = At(pc, tok) /\ IsCall(a) /\ a.pc = pc /\ a.depth = Depth
    BY <1>0, AtCall
  <2>4. PICK s : s = Append(Below, a) /\ Fitting(s, Append(tree, Line(kind)))
    BY <1>0, <2>2, <2>3, LineThen
  <2>5. Emit(kind, 1, s)
    BY <1>3, <2>1, <2>3, <2>4
  <2> QED BY <1>0, <2>2, <2>4, <2>5, LineForms
<1>4. ASSUME NEW tok, tok = "fn", Go(1, Append(Below, At(Point(tok), tok)))
      PROVE  Growing'
  <2>1. Point(tok) = "fn" /\ Follows("fn")
    BY <1>0, <1>4, FollowsPoints DEF Point
  <2>2. PICK s : s = Append(Below, At(Point(tok), tok)) /\ Fitting(s, tree)
    BY <1>0, <2>1, FittingStacks
  <2> QED BY <1>0, <1>4, <2>2, FittingForms
<1>5. ASSUME NEW kind \in {"if", "match"}, NEW cs, Loose(cs)
      PROVE  Fitting(Instead(<<Call(kind, Depth, FALSE)>> \o cs), Append(tree, Line(kind)))
  <2>1. PICK c : c = Call(kind, Depth, FALSE) /\ c.pc = kind /\ c.depth = Depth /\ IsCall(c)
    <3>1. LET c == Call(kind, Depth, FALSE) IN c.pc = kind /\ c.depth = Depth
      BY DEF Call
    <3> QED BY <1>0, <3>1, CallIsCall, Zenon
  <2>2. kind \notin Tree!IfParts /\ kind \notin Tree!Cases /\ kind # "program" /\ Ready(kind, kind)
    BY <1>5 DEF Ready, Bodied, OfAnIf, OfAMatch, Tree!IfParts, Tree!Cases, Tree!Heads, Tree!Parts
  <2>3. PICK t : t = Append(Below, c) /\ Fitting(t \o cs, Append(tree, Line(kind)))
    BY <1>0, <1>5, <2>1, <2>2, LineThen
  <2>4. Instead(<<c>> \o cs) = t \o cs
    <3>1. PICK u : u = <<c>> /\ Calls(u)
      BY <2>1, OneCall
    <3>2. Below \o (u \o cs) = (Below \o u) \o cs
      BY <1>0, <1>5, <3>1, JoinedTwice DEF Calls, Loose
    <3>3. Below \o u = t
      BY <1>0, <2>3, <3>1, JoinedCalls
    <3> QED BY <3>1, <3>2, <3>3 DEF Instead
  <2> QED BY <2>1, <2>3, <2>4
<1>6. CASE Emit("if", 1, Instead(<<Call("if", Depth, FALSE)>> \o parse_rel))
  <2>1. PICK s : /\ s = Instead(<<Call("if", Depth, FALSE)>> \o parse_rel)
                 /\ Fitting(s, Append(tree, Line("if")))
    BY <1>0, <1>5, LooseCalls
  <2> QED BY <1>0, <1>6, <2>1, LineForms DEF Tree!IfParts, Tree!Cases
<1>7. CASE Move(1, Instead(<<Call("match", Depth, FALSE)>> \o parse_expr), Full(Expr), <<Line("match")>>, {})
  <2>1. PICK s : /\ s = Instead(<<Call("match", Depth, FALSE)>> \o parse_expr)
                 /\ Fitting(s, Append(tree, Line("match")))
    BY <1>0, <1>5, LooseCalls
  <2> QED BY <1>0, <1>7, <2>1, LineForms DEF Tree!IfParts, Tree!Cases
<1> QED BY <1>1, <1>2, <1>3, <1>4, <1>6, <1>7 DEF Instruction, Line

LEMMA ProgramGrows == ASSUME Rootedly, Program PROVE Growing'
<1>1. NextInstr(0, "program") /\ Top.pc = "program"
  BY CalmStep DEF Program, Rootedly, Calm, Quiet
<1>2. Own(Top) = 0
  BY <1>1 DEF Own
<1> QED BY <1>1, <1>2, NextInstrGrows

\* A step without an error keeps the tree well nested.
LEMMA TreeSteps == ASSUME Calm, Shape, Growing, Parse PROVE Growing'
<1>1. Step /\ TypeInv
  BY CalmStep DEF Parse, Calm
<1>2. Rootedly
  BY <1>1, Roots DEF Rootedly, Growing
<1>3. CASE Factor \/ AfterIdentifier \/ CloseIndex \/ CloseParen \/ Arguments \/ ArgumentComma
  BY <1>2, <1>3, FactorGrows, AfterIdentifierGrows
<1>4. CASE Term \/ Expression \/ parse_term_for_expr \/ Relation
  BY <1>2, <1>4, ExpressionGrows
<1>5. CASE DeclareName \/ DeclareSize \/ DeclareArray \/ parse_initialize_array
  BY <1>2, <1>5, DeclarationGrows
<1>6. CASE parse_assign \/ parse_goto \/ parse_ret
  BY <1>2, <1>6, SimpleGrows
<1>7. CASE CondBlock \/ parse_if \/ Else
  BY <1>2, <1>7, CondBlockGrows, IfGrows, ElseGrows
<1>8. CASE parse_match \/ parse_loop
  BY <1>2, <1>8, MatchGrows, LoopGrows
<1>9. CASE Parameters \/ ReturnTypes \/ FunctionBody
  BY <1>2, <1>9, FunctionGrows, FunctionBodyGrows
<1>10. CASE Instruction \/ Program
  BY <1>2, <1>10, InstructionGrows, ProgramGrows
<1> QED BY <1>1, <1>3, <1>4, <1>5, <1>6, <1>7, <1>8, <1>9, <1>10 DEF Step

LEMMA TreeInit == Init => TreeInv
<1> SUFFICES ASSUME Init PROVE TreeInv
  OBVIOUS
<1>1. CrashInv /\ status # "done"
  BY CrashInit DEF Init
<1>2. Len(tree) = 0 /\ IsListing(tree) /\ FitsAll(tree)
  <2>1. tree = <<>> /\ Len(tree) = 0 /\ \A i \in 1..0 : FALSE
    BY DEF Init
  <2>2. IsSequence(tree)
    <3>1. <<>> \in Seq({})
      OBVIOUS
    <3> QED BY <2>1, <3>1 DEF IsSequence
  <2> QED BY <2>1, <2>2 DEF IsListing, FitsAll
<1>3. PICK c : c = Call("program", 0, FALSE) /\ c.pc = "program"
  <2>1. LET c == Call("program", 0, FALSE) IN c.pc = "program"
    BY DEF Call
  <2> QED BY <2>1
<1>4. Len(stack) = 1 /\ stack[1] = c /\ \A i \in 1..1 : i = 1
  BY <1>3 DEF Init
<1>5. Settled(c, tree)
  <2>1. tree = <<>>
    BY DEF Init
  <2>2. Want(c) = 0 /\ Deepest(tree) = 0
    BY ONLY <1>3, <2>1 DEF Want, Deepest
  <2>3. Want(c) <= Deepest(tree)
    BY ONLY <2>2
  <2>4. c.pc \notin OfAnIf /\ c.pc \notin OfAMatch
    BY ONLY <1>3 DEF OfAnIf, OfAMatch
  <2> QED BY ONLY <2>3, <2>4 DEF Settled
<1>6. Fitting(stack, tree)
  <2>1. \A i \in 1..(1 - 1) : FALSE
    OBVIOUS
  <2> QED BY <1>4, <1>5, <2>1 DEF Fitting
<1> QED BY <1>1, <1>2, <1>6 DEF TreeInv, TreeFits

LEMMA TreeSupply == TreeInv /\ Supply => TreeInv'
<1> SUFFICES ASSUME TreeInv, Supply PROVE TreeInv'
  OBVIOUS
<1>1. CrashInv' /\ UNCHANGED <<stack, tree, errors, status>> /\ status = "parsing" /\ ~Complete
  BY CrashSupply DEF TreeInv, Supply
<1>2. Quiet' => Quiet
  BY <1>1 DEF Quiet
<1>3. Quiet => IsListing(tree)' /\ FitsAll(tree)' /\ Fitting(stack, tree)'
  BY <1>1 DEF TreeInv
<1> QED BY <1>1, <1>2, <1>3 DEF TreeInv, TreeFits

LEMMA TreeParse == TreeInv /\ Parse => TreeInv'
<1> SUFFICES ASSUME TreeInv, Parse PROVE TreeInv'
  OBVIOUS
<1>1. CrashInv' /\ CrashInv /\ Inv /\ TypeInv
  BY CrashParse DEF TreeInv, CrashInv, BracketInv, Inv
<1>2. status = "parsing" /\ UNCHANGED tokens /\ (Goes \/ Ends \/ (Finishes /\ ~Errors))
  BY <1>1, Steps
<1>3. ASSUME Quiet' PROVE Growing'
  <2>1. Goes
    BY <1>2, <1>3 DEF Quiet, Ends, Finishes
  <2>2. Calm /\ GoesOn /\ Quiet
    BY <1>1, <1>3, <2>1, QuietBefore
  <2>3. Shape /\ Growing
    BY <1>1, <2>2 DEF CrashInv, TreeInv, Growing
  <2> QED BY <2>2, <2>3, TreeSteps
<1>4. ASSUME status' = "done" PROVE FitsAll(tree')
  <2>1. Finishes /\ ~Errors
    BY <1>2, <1>4 DEF Goes, Ends
  <2>2. Quiet
    BY <1>2, <2>1 DEF Quiet, Errors
  <2>3. tree' = tree
    BY <2>1 DEF Finishes
  <2> QED BY <2>2, <2>3 DEF TreeInv
<1> QED BY <1>1, <1>3, <1>4 DEF TreeInv, TreeFits, Growing, FitsAll

LEMMA TreeIdle == TreeInv /\ UNCHANGED pvars => TreeInv'
<1> SUFFICES ASSUME TreeInv, UNCHANGED pvars PROVE TreeInv'
  OBVIOUS
<1>1. CrashInv' /\ UNCHANGED <<tokens, index, stack, errors, tree, status>>
  BY CrashIdle DEF TreeInv, pvars
<1>2. Quiet' <=> Quiet
  BY <1>1 DEF Quiet, Complete, Past, InRange, Count, Array
<1>3. /\ Quiet => IsListing(tree)' /\ FitsAll(tree)' /\ Fitting(stack, tree)'
      /\ TreeFits'
  BY <1>1 DEF TreeInv, TreeFits
<1> QED BY <1>1, <1>2, <1>3 DEF TreeInv

\* The inductive invariant behind the nesting of the tree: the head of every
\* call in progress, and the arm or case an arm or case of it goes on from, is
\* the last line of the tree that is not deeper.
THEOREM TreeInvariance == Spec => []TreeInv
<1>1. TreeInv /\ [Next]_pvars => TreeInv'
  BY TreeSupply, TreeParse, TreeIdle DEF Next, Finished
<1> QED BY <1>1, TreeInit, PTL DEF Spec

\* The nesting of an accepted tree is well formed, for every source: it is one
\* that semantic analysis and code generation are proved for.
THEOREM TreeFitsTheorem == Spec => []TreeFits
<1>1. TreeInv => TreeFits
  BY DEF TreeInv
<1> QED BY <1>1, TreeInvariance, PTL

----------------------------------------------------------------------------
(* Sequences of sequences.  What FlattenSeq computes is proved by way of   *)
(* the sequences it comes to: where two such differ, or there is none, a   *)
(* least number is where they do, and that cannot be.                      *)

IsChain(n, q, h) ==
  /\ h[0] = <<>>
  /\ \A i \in 1..n : h[i] = h[i - 1] \o q[i]

LEMMA ChainMore ==
  ASSUME NEW n \in Nat, NEW q, NEW h, IsChain(n, q, h)
  PROVE  \E g : IsChain(n + 1, q, g) /\ g[n + 1] = h[n] \o q[n + 1] /\ \A i \in 0..n : g[i] = h[i]
<1>1. PICK g : g = [i \in 0..(n + 1) |-> IF i = n + 1 THEN h[n] \o q[n + 1] ELSE h[i]]
  OBVIOUS
<1>2. /\ \A i \in 0..n : g[i] = h[i]
      /\ g[n + 1] = h[n] \o q[n + 1]
  BY <1>1
<1>3. IsChain(n + 1, q, g)
  <2>1. g[0] = <<>>
    BY <1>2 DEF IsChain
  <2>2. ASSUME NEW i \in 1..(n + 1)  PROVE g[i] = g[i - 1] \o q[i]
    <3>1. CASE i = n + 1
      <4>1. i - 1 = n /\ n \in 0..n
        BY <3>1
      <4> QED BY <1>2, <3>1, <4>1
    <3>2. CASE i # n + 1
      <4>1. i \in 1..n /\ i \in 0..n /\ i - 1 \in 0..n
        BY <3>2
      <4> QED BY <1>2, <4>1 DEF IsChain
    <3> QED BY <3>1, <3>2
  <2> QED BY <2>1, <2>2 DEF IsChain
<1> QED BY <1>2, <1>3

LEMMA ChainThere == \A q : \A n \in Nat : \E h : IsChain(n, q, h)
<1> TAKE q
<1> TAKE n \in Nat
<1>1. PICK T : T = {i \in 0..n : \E h : IsChain(i, q, h)}
  OBVIOUS
<1>2. 0 \in T
  <2>1. PICK h : h = [i \in {0} |-> <<>>]
    OBVIOUS
  <2>2. h[0] = <<>> /\ \A i \in 1..0 : FALSE
    BY <2>1
  <2>3. IsChain(0, q, h)
    BY ONLY <2>2 DEF IsChain
  <2>4. 0 \in 0..n
    OBVIOUS
  <2> QED BY <1>1, <2>3, <2>4
<1>3. ASSUME NEW i \in 0..n, i \in T, i < n  PROVE i + 1 \in T
  <2>1. PICK h : IsChain(i, q, h)
    BY <1>1, <1>3
  <2>2. i \in Nat /\ i + 1 \in 0..n
    BY <1>3
  <2>3. \E g : IsChain(i + 1, q, g)
    BY <2>1, <2>2, ChainMore
  <2> QED BY <1>1, <2>2, <2>3
<1>4. n \in T
  BY <1>2, <1>3, UpToAll
<1> QED BY <1>1, <1>4

LEMMA ChainIsOne ==
  ASSUME NEW n \in Nat, NEW q, NEW g, NEW h, IsChain(n, q, g), IsChain(n, q, h)
  PROVE  \A i \in 0..n : g[i] = h[i]
<1>1. PICK T : T = {i \in 0..n : g[i] = h[i]}
  OBVIOUS
<1>2. 0 \in T
  BY <1>1 DEF IsChain
<1>3. ASSUME NEW i \in 0..n, i \in T, i < n  PROVE i + 1 \in T
  <2>1. i + 1 \in 1..n /\ i + 1 \in 0..n /\ (i + 1) - 1 = i
    BY <1>3
  <2> QED BY <1>1, <1>3, <2>1 DEF IsChain
<1>4. \A i \in 0..n : i \in T
  BY <1>2, <1>3, UpToAll
<1> QED BY <1>1, <1>4

\* FlattenSeq begins with the first of them.
LEMMA FlattenIs ==
  ASSUME NEW n \in Nat, NEW q, Len(q) = n, \A i \in 1..n : IsSequence(q[i]), NEW h, IsChain(n, q, h),
         n = 0 => q = <<>>
  PROVE  FlattenSeq(q) = h[n]
<1>1. CASE n = 0
  BY <1>1 DEF FlattenSeq, IsChain
<1>2. CASE n # 0
  <2> DEFINE Chained(f) == [i \in 1..Len(q) |-> IF i = 1 THEN q[i] ELSE f[i - 1] \o q[i]]
  <2>1. PICK f : f = [i \in 1..n |-> h[i]]
    OBVIOUS
  <2>2. f = Chained(f)
    <3>1. ASSUME NEW i \in 1..n  PROVE f[i] = IF i = 1 THEN q[i] ELSE f[i - 1] \o q[i]
      <4>1. CASE i = 1
        <5>1. h[1] = h[0] \o q[1] /\ h[0] = <<>> /\ IsSequence(q[1])
          <6>1. 1 \in 1..n /\ 1 - 1 = 0
            BY <1>2
          <6> QED BY <6>1 DEF IsChain
        <5>2. <<>> \o q[1] = q[1]
          BY <5>1 DEF IsSequence
        <5> QED BY <2>1, <4>1, <5>1, <5>2
      <4>2. CASE i # 1
        <5>1. i - 1 \in 1..n
          BY <4>2
        <5> QED BY <2>1, <4>2, <5>1 DEF IsChain
      <4> QED BY <4>1, <4>2
    <3> QED BY <2>1, <3>1
  <2>3. PICK flatten : flatten = (CHOOSE g : g = Chained(g))
    OBVIOUS
  <2>4. flatten = Chained(flatten)
    BY <2>2, <2>3
  <2>5. FlattenSeq(q) = flatten[n]
    BY <1>2, <2>3 DEF FlattenSeq
  <2>6. PICK g : g = [i \in 0..n |-> IF i = 0 THEN <<>> ELSE flatten[i]]
    OBVIOUS
  <2>7. IsChain(n, q, g)
    <3>1. g[0] = <<>>
      BY <2>6
    <3>2. ASSUME NEW i \in 1..n  PROVE g[i] = g[i - 1] \o q[i]
      <4>1. flatten[i] = (IF i = 1 THEN q[i] ELSE flatten[i - 1] \o q[i]) /\ g[i] = flatten[i]
        <5>1. i \in 0..n /\ i # 0
          OBVIOUS
        <5> QED BY <2>4, <2>6, <5>1
      <4>2. CASE i = 1
        <5>1. i - 1 = 0 /\ IsSequence(q[i])
          BY <4>2
        <5>2. <<>> \o q[i] = q[i]
          BY <5>1 DEF IsSequence
        <5> QED BY <3>1, <4>1, <4>2, <5>1, <5>2
      <4>3. CASE i # 1
        <5>1. i - 1 \in 1..n /\ i - 1 \in 0..n /\ i - 1 # 0
          BY <4>3
        <5>2. g[i - 1] = flatten[i - 1]
          BY <2>6, <5>1
        <5> QED BY <4>1, <4>3, <5>2
      <4> QED BY <4>2, <4>3
    <3> QED BY <3>1, <3>2 DEF IsChain
  <2>8. g[n] = h[n] /\ g[n] = flatten[n]
    <3>1. n \in 0..n
      OBVIOUS
    <3>2. g[n] = h[n]
      BY <2>7, <3>1, ChainIsOne
    <3> QED BY <1>2, <2>6, <3>1, <3>2
  <2> QED BY <2>5, <2>8
<1> QED BY <1>1, <1>2

LEMMA ChainTyped ==
  ASSUME NEW n \in Nat, NEW q, NEW S, \A i \in 1..n : q[i] \in Seq(S), NEW h, IsChain(n, q, h)
  PROVE  \A i \in 0..n : h[i] \in Seq(S)
<1>1. PICK T : T = {i \in 0..n : h[i] \in Seq(S)}
  OBVIOUS
<1>2. 0 \in T
  <2>1. h[0] = <<>>
    BY DEF IsChain
  <2>2. h[0] \in Seq(S) /\ 0 \in 0..n
    BY <2>1
  <2> QED BY <1>1, <2>2
<1>3. ASSUME NEW i \in 0..n, i \in T, i < n  PROVE i + 1 \in T
  <2>1. i + 1 \in 1..n /\ i + 1 \in 0..n /\ (i + 1) - 1 = i
    BY <1>3
  <2>2. h[i + 1] = h[i] \o q[i + 1] /\ h[i] \in Seq(S) /\ q[i + 1] \in Seq(S)
    BY <1>1, <1>3, <2>1 DEF IsChain
  <2>3. h[i + 1] \in Seq(S)
    BY <2>2
  <2> QED BY <1>1, <2>1, <2>3
<1>4. \A i \in 0..n : i \in T
  BY <1>2, <1>3, UpToAll
<1> QED BY <1>1, <1>4

LEMMA FlattenTyped ==
  ASSUME NEW q, IsSequence(q), NEW S, \A i \in 1..Len(q) : q[i] \in Seq(S)
  PROVE  FlattenSeq(q) \in Seq(S)
<1>1. Len(q) \in Nat /\ (Len(q) = 0 => q = <<>>)
  BY DEF IsSequence
<1>2. PICK h : IsChain(Len(q), q, h)
  BY <1>1, ChainThere
<1>3. FlattenSeq(q) = h[Len(q)]
  <2>1. \A i \in 1..Len(q) : IsSequence(q[i])
    BY DEF IsSequence
  <2> QED BY <1>1, <1>2, <2>1, FlattenIs
<1>4. Len(q) \in 0..Len(q)
  BY <1>1
<1> QED BY <1>1, <1>2, <1>3, <1>4, ChainTyped

\* One sequence more.
LEMMA FlattenMore ==
  ASSUME NEW q, NEW p, IsSequence(q), IsSequence(p), Len(p) = Len(q) + 1,
         \A i \in 1..Len(q) : p[i] = q[i],
         \A i \in 1..Len(p) : IsSequence(p[i])
  PROVE  FlattenSeq(p) = FlattenSeq(q) \o p[Len(p)]
<1>1. PICK n \in Nat : n = Len(q) /\ Len(p) = n + 1 /\ (n = 0 => q = <<>>)
  BY DEF IsSequence
<1>2. PICK h : IsChain(n, q, h)
  BY ChainThere
<1>3. IsChain(n, p, h)
  BY <1>1, <1>2 DEF IsChain
<1>4. PICK g : IsChain(n + 1, p, g) /\ g[n + 1] = h[n] \o p[n + 1]
  BY ONLY <1>3, n \in Nat, ChainMore
<1>5. FlattenSeq(q) = h[n]
  <2>1. \A i \in 1..n : IsSequence(q[i])
    <3>1. \A i \in 1..n : i \in 1..Len(p)
      BY <1>1
    <3> QED BY <1>1, <3>1
  <2> QED BY <1>1, <1>2, <2>1, FlattenIs
<1>6. FlattenSeq(p) = g[n + 1]
  <2>1. n + 1 \in Nat /\ n + 1 # 0 /\ \A i \in 1..(n + 1) : IsSequence(p[i])
    BY <1>1
  <2> QED BY <1>1, <1>4, <2>1, FlattenIs
<1> QED BY <1>1, <1>4, <1>5, <1>6

----------------------------------------------------------------------------
(* The keywords of the source, and those of the tree.                      *)

\* The calls at whose point a keyword has been taken, and its line has not
\* been made.
Signature == {"fn", "fn (", "parameter", "name or pointer", "name", "parameter end", "signature", "type",
              "more types", "body"}
Waiting == Signature \cup {"else"}

\* The keyword that is taken where a call is at pc; of the calls, that of the
\* innermost.
Due(pc) == IF pc = "else" THEN <<"else">> ELSE IF pc \in Signature THEN <<"fn">> ELSE <<>>
Pending(s) == IF Len(s) = 0 THEN <<>> ELSE Due(s[Len(s)].pc)

\* No call waits; only the innermost does.
Moving(s) == \A i \in 1..Len(s) : s[i].pc \notin Waiting
Waits(s) == \A i \in 1..(Len(s) - 1) : s[i].pc \notin Waiting

KeptOf(n, taken) == [i \in 1..n |-> Kept(taken[i])]
WrittenOf(p) == [i \in 1..Len(p) |-> WrittenAs(p[i].kind)]
Keys(n, taken) == FlattenSeq(KeptOf(n, taken))
Written(p) == FlattenSeq(WrittenOf(p))

SourceInv ==
  /\ TreeInv
  /\ Quiet => Waits(stack) /\ Keys(index, TakenAs) = Written(tree) \o Pending(stack)
  /\ TreeIsTheSource

LEMMA Words ==
  /\ \A kind : Kept(kind) \in Seq(Keywords) /\ WrittenAs(kind) \in Seq(Keywords)
  /\ \A s : Pending(s) \in Seq(Keywords)
  /\ \A pc : Due(pc) \in Seq(Keywords)
  /\ \A kind : kind \notin Keywords => Kept(kind) = <<>>
<1>1. {"else", "if", "fn", "_"} \subseteq Keywords
  BY DEF Keywords
<1>2. ASSUME NEW a \in Keywords, NEW b \in Keywords
      PROVE  <<>> \in Seq(Keywords) /\ <<a>> \in Seq(Keywords) /\ <<a, b>> \in Seq(Keywords)
  OBVIOUS
<1>3. \A kind : Kept(kind) \in Seq(Keywords)
  BY <1>2 DEF Kept
<1>4. \A kind : WrittenAs(kind) \in {Kept(kind), <<"else", "if">>, <<"fn">>, <<"_">>}
  BY DEF WrittenAs
<1>5. <<"else">> \in Seq(Keywords) /\ <<"fn">> \in Seq(Keywords) /\ <<"_">> \in Seq(Keywords)
      /\ <<"else", "if">> \in Seq(Keywords) /\ <<>> \in Seq(Keywords)
  BY <1>1, <1>2
<1>6. \A kind : WrittenAs(kind) \in Seq(Keywords)
  BY <1>3, <1>4, <1>5
<1>7. \A s : Pending(s) \in {<<"else">>, <<"fn">>, <<>>}
  BY DEF Pending, Due
<1>8. \A pc : Due(pc) \in {<<"else">>, <<"fn">>, <<>>}
  BY DEF Due
<1> QED BY <1>3, <1>5, <1>6, <1>7, <1>8 DEF Kept

LEMMA KeysMore ==
  ASSUME NEW n \in Nat, NEW taken
  PROVE  /\ Keys(n, taken) \in Seq(Keywords)
         /\ Keys(n + 1, taken) = Keys(n, taken) \o Kept(taken[n + 1])
<1>1. PICK q, p : q = KeptOf(n, taken) /\ p = KeptOf(n + 1, taken)
  OBVIOUS
<1>2. /\ q \in Seq(Seq(Keywords)) /\ p \in Seq(Seq(Keywords)) /\ Len(q) = n /\ Len(p) = n + 1
      /\ \A i \in 1..n : p[i] = q[i]
      /\ p[n + 1] = Kept(taken[n + 1])
  BY <1>1, Words DEF KeptOf
<1>3. \A i \in 1..Len(p) : IsSequence(p[i])
  <2>1. \A i \in 1..Len(p) : p[i] \in Seq(Keywords)
    BY <1>2
  <2> QED BY <2>1 DEF IsSequence
<1>4. \A i \in 1..Len(q) : q[i] \in Seq(Keywords)
  BY <1>2
<1>5. IsSequence(q) /\ IsSequence(p)
  BY <1>2 DEF IsSequence
<1>6. FlattenSeq(q) \in Seq(Keywords)
  BY <1>4, <1>5, FlattenTyped
<1>7. FlattenSeq(p) = FlattenSeq(q) \o p[n + 1]
  BY <1>2, <1>3, <1>5, FlattenMore
<1> QED BY <1>1, <1>2, <1>6, <1>7 DEF Keys

LEMMA KeysSame ==
  ASSUME NEW n, NEW f, NEW g, \A i \in 1..n : f[i] = g[i]
  PROVE  Keys(n, f) = Keys(n, g)
<1>1. KeptOf(n, f) = KeptOf(n, g)
  BY DEF KeptOf
<1> QED BY <1>1 DEF Keys

LEMMA WrittenMore ==
  ASSUME NEW p, IsSequence(p), NEW line
  PROVE  /\ Written(p) \in Seq(Keywords)
         /\ Written(Append(p, line)) = Written(p) \o WrittenAs(line.kind)
<1>1. PICK more : /\ more = Append(p, line) /\ Len(more) = Len(p) + 1 /\ more[Len(p) + 1] = line
                  /\ \A i \in 1..Len(p) : more[i] = p[i]
  <2>1. /\ Len(Append(p, line)) = Len(p) + 1 /\ Append(p, line)[Len(p) + 1] = line
        /\ \A i \in 1..Len(p) : Append(p, line)[i] = p[i]
    BY AppendSequence
  <2> QED BY ONLY <2>1
<1>2. PICK q, r : q = WrittenOf(p) /\ r = WrittenOf(more)
  OBVIOUS
<1>3. PICK n \in Nat : n = Len(p) /\ Len(more) = n + 1
  BY <1>1, SequenceLength
<1>4. /\ q \in Seq(Seq(Keywords)) /\ r \in Seq(Seq(Keywords)) /\ Len(q) = n /\ Len(r) = n + 1
      /\ \A i \in 1..n : r[i] = q[i]
      /\ r[n + 1] = WrittenAs(line.kind)
  BY <1>1, <1>2, <1>3, Words DEF WrittenOf
<1>5. \A i \in 1..Len(r) : IsSequence(r[i])
  <2>1. \A i \in 1..Len(r) : r[i] \in Seq(Keywords)
    BY <1>4
  <2> QED BY <2>1 DEF IsSequence
<1>6. \A i \in 1..Len(q) : q[i] \in Seq(Keywords)
  BY <1>4
<1>7. IsSequence(q) /\ IsSequence(r)
  BY <1>4 DEF IsSequence
<1>8. FlattenSeq(q) \in Seq(Keywords)
  BY <1>6, <1>7, FlattenTyped
<1>9. FlattenSeq(r) = FlattenSeq(q) \o r[n + 1]
  BY <1>4, <1>5, <1>7, FlattenMore
<1> QED BY <1>1, <1>2, <1>4, <1>8, <1>9 DEF Written

----------------------------------------------------------------------------
(* What a step takes and makes.                                            *)

LEMMA KeysKept ==
  ASSUME UNCHANGED <<index, unseen, tokens>>
  PROVE  Keys(index', TakenAs') = Keys(index, TakenAs)
<1>1. TakenAs' = TakenAs /\ index' = index
  BY DEF TakenAs
<1> QED BY <1>1

LEMMA KeysOne ==
  ASSUME Calm, Whole, ~Errors, NEW k, index' = index + 1,
         \/ k = Tok /\ UNCHANGED unseen
         \/ unseen' = unseen \cup {<<index, k>>}
  PROVE  Keys(index', TakenAs') = Keys(index, TakenAs) \o Kept(k)
<1>1. PICK n, f, g : n = index /\ f = TakenAs /\ g = TakenAs' /\ index' = n + 1
  OBVIOUS
<1>2. PICK passed : unseen' = unseen \cup passed /\ ((passed = {} /\ k = Tok) \/ passed = {<<n, k>>})
  <2>1. CASE k = Tok /\ UNCHANGED unseen
    <3>1. unseen' = unseen \cup {}
      BY <2>1
    <3> QED BY <2>1, <3>1
  <2>2. CASE unseen' = unseen \cup {<<index, k>>}
    BY <1>1, <2>2
  <2> QED BY <2>1, <2>2
<1>3. /\ n \in Nat /\ Tok = tokens[n + 1]
      /\ \A i \in Nat : (\A u \in passed : u[1] # i - 1) =>
              /\ i <= n => g[i] = f[i]
              /\ i > n => g[i] = tokens[i]
      /\ \A i \in Nat : \A l : i > n /\ passed = {<<i - 1, l>>} => g[i] = l
  <2>1. TakenThen(n, passed)
    BY <1>1, <1>2, TakenOn
  <2> QED BY <1>1, <2>1 DEF TakenThen
<1>4. ASSUME NEW i \in 1..n PROVE g[i] = f[i]
  <2>1. \A u \in passed : u[1] # i - 1
    BY <1>2, <1>3
  <2> QED BY <1>3, <2>1
<1>5. g[n + 1] = k
  <2>1. n + 1 \in Nat /\ n + 1 > n /\ (n + 1) - 1 = n
    BY <1>3
  <2>2. CASE passed = {} /\ k = Tok
    BY <1>3, <2>1, <2>2
  <2>3. CASE passed = {<<n, k>>}
    <3>1. passed = {<<(n + 1) - 1, k>>}
      BY <2>1, <2>3
    <3> QED BY <1>3, <2>1, <3>1
  <2> QED BY <1>2, <2>2, <2>3
<1>6. Keys(n, g) = Keys(n, f)
  BY <1>4, KeysSame
<1>7. Keys(n + 1, g) = Keys(n, g) \o Kept(k)
  BY <1>3, <1>5, KeysMore
<1> QED BY <1>1, <1>6, <1>7

LEMMA KeysTwo ==
  ASSUME Calm, Whole, ~Errors, NEW k, index' = index + 2, unseen' = unseen \cup {<<index + 1, k>>},
         Tok \notin Keywords, k \notin Keywords
  PROVE  Keys(index', TakenAs') = Keys(index, TakenAs)
<1>1. PICK n, f, g : n = index /\ f = TakenAs /\ g = TakenAs' /\ index' = n + 2
  OBVIOUS
<1>2. PICK passed : passed = {<<n + 1, k>>}
  OBVIOUS
<1>3. /\ n \in Nat /\ Tok = tokens[n + 1]
      /\ \A i \in Nat : (\A u \in passed : u[1] # i - 1) =>
              /\ i <= n => g[i] = f[i]
              /\ i > n => g[i] = tokens[i]
      /\ \A i \in Nat : \A l : i > n /\ passed = {<<i - 1, l>>} => g[i] = l
  <2>1. TakenThen(n, passed)
    BY <1>1, <1>2, TakenOn
  <2> QED BY <1>1, <2>1 DEF TakenThen
<1>4. ASSUME NEW i \in 1..n PROVE g[i] = f[i]
  <2>1. \A u \in passed : u[1] # i - 1
    BY <1>2, <1>3
  <2> QED BY <1>3, <2>1
<1>5. n + 1 \in Nat /\ n + 2 \in Nat /\ (n + 1) + 1 = n + 2
  BY <1>3
<1>6. g[n + 1] = Tok
  <2>1. \A u \in passed : u[1] # (n + 1) - 1
    BY <1>2, <1>3
  <2>2. n + 1 > n
    BY <1>3
  <2> QED BY <1>3, <1>5, <2>1, <2>2
<1>7. g[n + 2] = k
  <2>1. n + 2 > n /\ passed = {<<(n + 2) - 1, k>>}
    BY <1>2, <1>3
  <2> QED BY <1>3, <1>5, <2>1
<1>8. Keys(n, g) = Keys(n, f) /\ Keys(n, g) \in Seq(Keywords)
  BY <1>3, <1>4, KeysSame, KeysMore
<1>9. Keys(n + 1, g) = Keys(n, g) \o Kept(Tok)
  BY <1>3, <1>6, KeysMore
<1>10. Keys((n + 1) + 1, g) = Keys(n + 1, g) \o Kept(k)
  BY <1>5, <1>7, KeysMore
<1>11. Kept(Tok) = <<>> /\ Kept(k) = <<>>
  BY DEF Kept
<1>12. Keys(n + 2, g) = Keys(n, f)
  <2>1. PICK w \in Seq(Keywords) : w = Keys(n, f) /\ w = Keys(n, g)
    BY <1>8
  <2>2. w \o <<>> = w
    OBVIOUS
  <2> QED BY <1>5, <1>9, <1>10, <1>11, <2>1, <2>2
<1> QED BY <1>1, <1>12

\* All is told: what was taken and has no line yet is due where the innermost
\* call is.
Told == Waits(stack) /\ Keys(index, TakenAs) = Written(tree) \o Pending(stack)
Telling ==
  /\ Calm /\ Whole /\ IsListing(tree) /\ Moving(Below)
  /\ Keys(index, TakenAs) = Written(tree) \o Due(Top.pc)
Holds(s, w) == Waits(s) /\ Pending(s) = w
Read(n) == IF n = 0 THEN <<>> ELSE Kept(Tok)

LEMMA KeysRead ==
  ASSUME Telling, NEW n \in {0, 1}, NEW calls, NEW err, NEW lines, Move(n, calls, err, lines, {})
  PROVE  Keys(index', TakenAs') = Keys(index, TakenAs) \o Read(n)
<1>1. Calm /\ Whole /\ ~Errors /\ unseen' = unseen /\ TypeInv /\ tokens' = tokens
  BY CalmStep DEF Telling, Move, Calm
<1>2. index \in Nat /\ Keys(index, TakenAs) \in Seq(Keywords)
  BY <1>1, KeysMore DEF TypeInv
<1>3. CASE n = 0
  <2>1. index' = index
    BY <1>1, <1>2, <1>3 DEF Move, Errors, Past, InRange, Count, Array, TypeInv
  <2>2. Keys(index', TakenAs') = Keys(index, TakenAs)
    BY <1>1, <2>1, KeysKept
  <2> QED BY <1>2, <1>3, <2>2 DEF Read
<1>4. CASE n = 1
  <2>1. index' = index + 1
    BY <1>1, <1>4, CalmRead
  <2>2. Keys(index', TakenAs') = Keys(index, TakenAs) \o Kept(Tok)
    BY <1>1, <2>1, KeysOne
  <2> QED BY <1>4, <2>2 DEF Read
<1> QED BY <1>3, <1>4

LEMMA NothingJoined == ASSUME NEW p, IsListing(p) PROVE p \o <<>> = p
BY DEF IsListing, IsSequence

LEMMA MoveTells ==
  ASSUME Telling, NEW n \in {0, 1}, NEW s, NEW err, NEW w, Holds(s, w), Move(n, s, err, <<>>, {}),
         w = Due(Top.pc) \o Read(n)
  PROVE  Told'
<1>1. Keys(index', TakenAs') = Keys(index, TakenAs) \o Read(n)
  BY KeysRead
<1>2. stack' = s /\ tree' = tree
  <2>1. tree \o <<>> = tree
    BY DEF Telling, IsListing, IsSequence
  <2> QED BY <2>1 DEF Move
<1>3. PICK a, b, c : /\ a = Written(tree) /\ b = Due(Top.pc) /\ c = Read(n)
                     /\ a \in Seq(Keywords) /\ b \in Seq(Keywords) /\ c \in Seq(Keywords)
  <2>1. Read(n) \in Seq(Keywords)
    BY Words DEF Read
  <2>2. Written(tree) \in Seq(Keywords)
    BY WrittenMore DEF Telling, IsListing
  <2> QED BY <2>1, <2>2, Words
<1>4. (a \o b) \o c = a \o (b \o c)
  <2>1. IsSequence(a) /\ IsSequence(b) /\ IsSequence(c)
    BY <1>3 DEF IsSequence
  <2> QED BY ONLY <2>1, JoinedTwice
<1> QED BY <1>1, <1>2, <1>3, <1>4 DEF Told, Holds, Telling

LEMMA LineTells ==
  ASSUME Telling, NEW n \in {0, 1}, NEW s, NEW err, NEW line, NEW w, w \in Seq(Keywords), Holds(s, w),
         Move(n, s, err, <<line>>, {}), Due(Top.pc) \o Read(n) = WrittenAs(line.kind) \o w
  PROVE  Told'
<1>1. Keys(index', TakenAs') = Keys(index, TakenAs) \o Read(n)
  BY KeysRead
<1>2. stack' = s /\ tree' = Append(tree, line)
  <2>1. tree \o <<line>> = Append(tree, line)
    BY DEF Telling, IsListing, IsSequence
  <2> QED BY <2>1 DEF Move
<1>3. PICK a, b, c, d : /\ a = Written(tree) /\ b = Due(Top.pc) /\ c = Read(n) /\ d = WrittenAs(line.kind)
                        /\ a \in Seq(Keywords) /\ b \in Seq(Keywords) /\ c \in Seq(Keywords)
                        /\ d \in Seq(Keywords)
  <2>1. Read(n) \in Seq(Keywords)
    BY Words DEF Read
  <2>2. Written(tree) \in Seq(Keywords)
    BY WrittenMore DEF Telling, IsListing
  <2> QED BY <2>1, <2>2, Words
<1>4. (a \o b) \o c = a \o (b \o c) /\ (a \o d) \o w = a \o (d \o w)
  <2>1. IsSequence(a) /\ IsSequence(b) /\ IsSequence(c) /\ IsSequence(d) /\ IsSequence(w)
    BY <1>3 DEF IsSequence
  <2>2. a \o (b \o c) = (a \o b) \o c
    BY ONLY <2>1, JoinedTwice
  <2>3. a \o (d \o w) = (a \o d) \o w
    BY ONLY <2>1, JoinedTwice
  <2> QED BY <2>2, <2>3
<1>5. Written(tree') = a \o d
  BY <1>2, <1>3, WrittenMore DEF Telling, IsListing
<1> QED BY <1>1, <1>2, <1>3, <1>4, <1>5 DEF Told, Holds, Telling

----------------------------------------------------------------------------
(* Calls that do not wait.                                                 *)

Plainly(cs) == Calls(cs) /\ Moving(cs)

LEMMA PlainlyOnTop ==
  ASSUME NEW s, Plainly(s), NEW c, IsCall(c)
  PROVE  /\ Holds(Append(s, c), Due(c.pc))
         /\ c.pc \notin Waiting => Plainly(Append(s, c))
<1>1. PICK t : t = Append(s, c) /\ Calls(t)
  BY OneMore DEF Plainly
<1>2. PICK n \in Nat : /\ n = Len(s) /\ Len(t) = n + 1 /\ t[n + 1] = c
                       /\ \A i \in 1..n : t[i] = s[i]
  BY <1>1, OneMoreIs DEF Plainly
<1>3. Waits(t)
  <2>1. 1..(Len(t) - 1) = 1..n
    BY <1>2
  <2> QED BY <1>2, <2>1 DEF Waits, Plainly, Moving
<1>4. Pending(t) = Due(c.pc)
  <2>1. Len(t) # 0 /\ t[Len(t)] = c
    BY <1>2
  <2> QED BY <2>1 DEF Pending
<1>5. c.pc \notin Waiting => Moving(t)
  <2>1. \A i \in 1..Len(t) : i \in 1..n \/ i = n + 1
    BY <1>2
  <2> QED BY <1>2, <2>1 DEF Plainly, Moving
<1> QED BY <1>1, <1>3, <1>4, <1>5 DEF Holds, Plainly

LEMMA PlainlyJoined ==
  ASSUME NEW s, NEW t, Plainly(s), Plainly(t)
  PROVE  Plainly(s \o t)
<1>1. PICK u : u = s \o t /\ Calls(u)
  BY MoreCalls DEF Plainly
<1>2. /\ Len(u) = Len(s) + Len(t) /\ Len(s) \in Nat /\ Len(t) \in Nat
      /\ \A i \in 1..Len(s) : u[i] = s[i]
      /\ \A i \in 1..Len(t) : u[Len(s) + i] = t[i]
  BY <1>1, JoinedSequence, SequenceLength DEF Plainly, Calls
<1>3. ASSUME NEW i \in 1..Len(u)  PROVE u[i].pc \notin Waiting
  <2>1. CASE i \in 1..Len(s)
    BY <1>2, <2>1 DEF Plainly, Moving
  <2>2. CASE i \notin 1..Len(s)
    <3>1. i - Len(s) \in 1..Len(t) /\ i = Len(s) + (i - Len(s))
      BY <1>2, <2>2
    <3>2. PICK j \in 1..Len(t) : u[i] = t[j]
      BY <1>2, <3>1
    <3> QED BY <3>2 DEF Plainly, Moving
  <2> QED BY <2>1, <2>2
<1> QED BY <1>1, <1>3 DEF Plainly, Moving

LEMMA PlainlyHolds ==
  ASSUME NEW s, Plainly(s)
  PROVE  Holds(s, <<>>)
<1>1. Len(s) \in Nat
  BY SequenceLength DEF Plainly, Calls
<1>2. Waits(s)
  <2>1. \A i \in 1..(Len(s) - 1) : i \in 1..Len(s)
    BY <1>1
  <2> QED BY <2>1 DEF Waits, Plainly, Moving
<1>3. Pending(s) = <<>>
  <2>1. CASE Len(s) = 0
    BY <2>1 DEF Pending
  <2>2. CASE Len(s) # 0
    <3>1. s[Len(s)].pc \notin Waiting
      BY <1>1, <2>2 DEF Plainly, Moving
    <3> QED BY <2>2, <3>1 DEF Pending, Due, Waiting
  <2> QED BY <2>1, <2>2
<1> QED BY <1>2, <1>3 DEF Holds

\* The calls that are made.
LEMMA PlainlyMade ==
  ASSUME TypeInv
  PROVE  /\ \A cs : Loose(cs) => Plainly(cs)
         /\ Plainly(parse_expr) /\ Plainly(parse_rel)
         /\ \A pc, arg : pc \notin Waiting => Plainly(<<Call(pc, Depth, arg)>>)
         /\ \A null : Plainly(parse_cond_block(null))
         /\ \A depth \in Nat : \A null : Plainly(parse_instr(depth, null))
         /\ \A null : Plainly(parse_cond_block(null) \o parse_rel)
         /\ \A pc, cs : pc \notin Waiting /\ Plainly(cs) => Plainly(<<Call(pc, Depth, FALSE)>> \o cs)
<1>1. ExprLevel \cap Waiting = {}
  BY DEF ExprLevel, Waiting, Signature
<1>2. \A cs : Loose(cs) => Plainly(cs)
  BY <1>1 DEF Loose, Plainly, Moving
<1>3. ASSUME NEW pc, NEW depth \in Nat, NEW arg, pc \notin Waiting  PROVE Plainly(<<Call(pc, depth, arg)>>)
  <2>1. PICK c : c = Call(pc, depth, arg) /\ IsCall(c) /\ c.pc = pc
    BY CallIsCall, CallOf
  <2>2. PICK cs : cs = <<c>> /\ Calls(cs)
    BY <2>1, OneCall
  <2>3. Len(cs) = 1 /\ cs[1] = c /\ \A i \in 1..1 : i = 1
    BY <2>2
  <2>4. Moving(cs)
    BY <1>3, <2>1, <2>3 DEF Moving
  <2> QED BY <2>1, <2>2, <2>4 DEF Plainly
<1>4. Depth \in Nat /\ {"block", "instr"} \cap Waiting = {}
  BY DepthBelow DEF Waiting, Signature
<1>5. \A null : Plainly(parse_cond_block(null))
  BY <1>3, <1>4 DEF parse_cond_block
<1>6. \A depth \in Nat : \A null : Plainly(parse_instr(depth, null))
  BY <1>3, <1>4 DEF parse_instr
<1>7. Plainly(parse_expr) /\ Plainly(parse_rel)
  BY <1>2, LooseCalls
<1>8. \A pc, arg : pc \notin Waiting => Plainly(<<Call(pc, Depth, arg)>>)
  BY <1>3, <1>4
<1> QED BY <1>2, <1>5, <1>6, <1>7, <1>8, PlainlyJoined

\* What is due on the stacks that a step leaves.
LEMMA StacksHold ==
  ASSUME Telling
  PROVE  /\ Holds(Return, <<>>)
         /\ \A pc, arg : Holds(Append(Below, At(pc, arg)), Due(pc))
         /\ \A pc : Holds(Then(pc), Due(pc))
         /\ \A pc, cs : pc \notin Waiting /\ Plainly(cs) => Holds(CallThen(cs, pc), <<>>)
         /\ \A cs : Plainly(cs) => Holds(Instead(cs), <<>>)
         /\ \A pc \in Operations : \A arg, cs :
              Plainly(cs) => Holds(Append(Below, Call(pc, Depth, arg)) \o cs, <<>>)
<1>1. TypeInv /\ Plainly(Below)
  BY BelowOK DEF Telling, Calm, Plainly
<1>2. Holds(Return, <<>>)
  BY <1>1, PlainlyHolds DEF Return
<1>3. \A pc, arg : /\ Holds(Append(Below, At(pc, arg)), Due(pc))
                   /\ pc \notin Waiting => Plainly(Append(Below, At(pc, arg)))
  <2> TAKE pc, arg
  <2>1. PICK c : c = At(pc, arg) /\ IsCall(c) /\ c.pc = pc
    BY <1>1, AtCall
  <2> QED BY <1>1, <2>1, PlainlyOnTop
<1>4. \A pc \in Operations : \A arg : Plainly(Append(Below, Call(pc, Depth, arg)))
  <2> TAKE pc \in Operations
  <2> TAKE arg
  <2>1. PICK c : c = Call(pc, Depth, arg) /\ IsCall(c) /\ c.pc = pc
    BY <1>1, DepthBelow, CallIsCall, CallOf
  <2>2. pc \notin Waiting
    BY DEF Operations, Waiting, Signature
  <2> QED BY <1>1, <2>1, <2>2, PlainlyOnTop
<1>5. \A s, cs : Plainly(s) /\ Plainly(cs) => Holds(s \o cs, <<>>)
  BY PlainlyJoined, PlainlyHolds
<1>6. \A pc : Holds(Then(pc), Due(pc))
  BY <1>3 DEF Then
<1>7. \A pc, cs : pc \notin Waiting /\ Plainly(cs) => Holds(CallThen(cs, pc), <<>>)
  BY <1>3, <1>5 DEF CallThen
<1>8. \A cs : Plainly(cs) => Holds(Instead(cs), <<>>)
  BY <1>1, <1>5 DEF Instead
<1> QED BY <1>2, <1>3, <1>4, <1>5, <1>6, <1>7, <1>8

\* The calls in which nothing is due, and the steps in which nothing changes.
LEMMA CallsHold ==
  ASSUME Telling
  PROVE  /\ Holds(Return, <<>>)
         /\ \A pc : pc \notin Waiting =>
              /\ Holds(Then(pc), <<>>) /\ \A arg : Holds(Append(Below, At(pc, arg)), <<>>)
              /\ Holds(CallThen(parse_expr, pc), <<>>) /\ Holds(CallThen(parse_rel, pc), <<>>)
              /\ Holds(CallThen(parse_cond_block(FALSE), pc), <<>>)
              /\ Holds(CallThen(parse_cond_block(FALSE) \o parse_rel, pc), <<>>)
              /\ \A depth \in Nat : \A null : Holds(CallThen(parse_instr(depth, null), pc), <<>>)
              /\ Holds(Instead(<<Call(pc, Depth, FALSE)>>), <<>>)
              /\ Holds(Instead(<<Call(pc, Depth, FALSE)>> \o parse_rel), <<>>)
              /\ Holds(Instead(<<Call(pc, Depth, FALSE)>> \o parse_expr), <<>>)
         /\ \A pc \in Signature : Holds(Then(pc), <<"fn">>)
         /\ Holds(Instead(parse_expr), <<>>) /\ Holds(Instead(parse_rel), <<>>)
         /\ \A null : Holds(Instead(parse_cond_block(null)), <<>>)
         /\ \A null : Holds(Instead(parse_instr(Depth + 1, null)), <<>>)
<1>1. TypeInv /\ Depth + 1 \in Nat
  BY DepthBelow DEF Telling, Calm
<1>2. /\ \A pc : pc \notin Waiting => Due(pc) = <<>>
      /\ \A pc \in Signature : Due(pc) = <<"fn">>
  BY DEF Due, Waiting, Signature
<1> QED BY <1>1, <1>2, PlainlyMade, StacksHold

----------------------------------------------------------------------------
(* The actions, by what they take and what is due behind them.             *)

LEMMA StillTells ==
  ASSUME Telling, NEW s, Holds(s, Due(Top.pc))
  PROVE  /\ \A err : Move(0, s, err, <<>>, {}) => Told'
         /\ \A err : Tok \notin Keywords /\ Move(1, s, err, <<>>, {}) => Told'
         /\ Go(0, s) => Told'
         /\ Tok \notin Keywords /\ Go(1, s) => Told'
         /\ \A n : ~Complain(n, s)
         /\ \A kind : kind \notin Keywords /\ TakeFor(kind, s) => Told'
         /\ \A kind : kind \notin Keywords /\ Expect(kind, s) => Told'
         /\ \A kind : kind \notin Keywords /\ Require(kind, s) => Told'
<1>0. Calm /\ Whole /\ TypeInv /\ index \in Nat
  BY DEF Telling, Calm, TypeInv
<1>1. PICK w \in Seq(Keywords) : w = Due(Top.pc) /\ Holds(s, w) /\ w \o <<>> = w
  <2>1. \A w \in Seq(Keywords) : w \o <<>> = w
    OBVIOUS
  <2> QED BY <2>1, Words
<1>2. ASSUME NEW n \in {0, 1}, n = 0 \/ Tok \notin Keywords, NEW err, Move(n, s, err, <<>>, {})  PROVE Told'
  <2>1. w = Due(Top.pc) \o Read(n)
    BY <1>1, <1>2 DEF Read, Kept
  <2> QED BY <1>1, <1>2, <2>1, MoveTells
<1>3. ASSUME NEW kind, kind \notin Keywords, TakeFor(kind, s)  PROVE Told'
  <2>1. Move(1, s, FALSE, <<>>, {<<index, kind>>})
    BY <1>3 DEF TakeFor
  <2>2. ~Errors /\ index' = index + 1
    <3>1. PICK passed : Move(1, s, FALSE, <<>>, passed)
      BY <2>1
    <3>2. 1 \in {1, 2} /\ 1 # 2
      OBVIOUS
    <3>3. ~Errors
      BY <1>0, <3>1, CalmStep
    <3>4. index' = index + 1
      BY ONLY <1>0, <3>1, <3>2, CalmRead
    <3> QED BY <3>3, <3>4
  <2>3. Keys(index', TakenAs') = Keys(index, TakenAs) \o Kept(kind)
    BY <1>0, <2>1, <2>2, KeysOne DEF Move
  <2>4. Keys(index', TakenAs') = Keys(index, TakenAs)
    <3>1. Keys(index, TakenAs) \in Seq(Keywords) /\ Kept(kind) = <<>>
      BY <1>0, <1>3, KeysMore DEF Kept
    <3>2. PICK k \in Seq(Keywords) : k = Keys(index, TakenAs)
      BY <3>1
    <3>3. k \o <<>> = k
      OBVIOUS
    <3> QED BY <2>3, <3>1, <3>2, <3>3
  <2>5. stack' = s /\ tree' = tree
    <3>1. tree \o <<>> = tree
      BY DEF Telling, IsListing, IsSequence
    <3> QED BY <2>1, <3>1 DEF Move
  <2> QED BY <1>1, <2>4, <2>5 DEF Told, Telling, Holds
<1>4. \A n \in {0, 1} : (n = 0 \/ Tok \notin Keywords) /\ Go(n, s) => Told'
  BY <1>2 DEF Go
<1>5. \A n : ~Complain(n, s)
  BY <1>0, CalmStep DEF Complain
<1>6. \A kind : kind \notin Keywords /\ Expect(kind, s) => Told'
  BY <1>4, <1>5 DEF Expect
<1>7. \A kind : kind \notin Keywords /\ Require(kind, s) => Told'
  BY <1>0, <1>4, CalmStep DEF Require
<1> QED BY <1>2, <1>3, <1>4, <1>5, <1>6, <1>7

LEMMA NotWaiting == \A pc : pc \notin Waiting => Due(pc) = <<>>
BY DEF Due, Waiting

LEMMA FactorTells == ASSUME Telling, Factor PROVE Told'
<1>0. Calm /\ Due(Top.pc) = <<>>
  BY DEF Telling, Factor, Due, Signature
<1>1. Holds(Then("after id"), <<>>) /\ Holds(Return, <<>>) /\ Holds(CallThen(parse_expr, "paren"), <<>>)
  BY CallsHold DEF Waiting, Signature
<1>2. CASE Tok \in {"lit", "ptr", "id"}
  <2>1. PICK s : s = (IF Tok = "id" THEN Then("after id") ELSE Return) /\ Holds(s, <<>>)
    BY <1>1
  <2>2. Move(1, s, FALSE, <<>>, {})
    BY <1>0, <1>2, <2>1, CalmStep DEF Factor
  <2>3. Tok \notin Keywords
    BY <1>2 DEF Keywords
  <2> QED BY <1>0, <2>1, <2>2, <2>3, StillTells
<1>3. CASE Tok \notin {"lit", "ptr", "id"}
  <2>1. Go(1, CallThen(parse_expr, "paren")) /\ Tok \notin Keywords
    BY <1>0, <1>3, CalmStep DEF Factor, Keywords
  <2> QED BY <1>0, <1>1, <2>1, StillTells
<1> QED BY <1>2, <1>3

LEMMA AfterIdentifierTells ==
  ASSUME Telling, AfterIdentifier \/ CloseIndex \/ CloseParen \/ Arguments \/ ArgumentComma
  PROVE  Told'
<1>0. Due(Top.pc) = <<>>
  BY DEF AfterIdentifier, CloseIndex, CloseParen, Arguments, ArgumentComma, Due, Signature
<1>1. /\ Holds(CallThen(parse_expr, "index"), <<>>) /\ Holds(Then("arguments"), <<>>) /\ Holds(Return, <<>>)
      /\ Holds(CallThen(parse_expr, "comma"), <<>>)
  BY CallsHold DEF Waiting, Signature
<1>2. {"[", "]", "(", ")", ","} \cap Keywords = {}
  BY DEF Keywords
<1>3. CASE AfterIdentifier
  BY <1>0, <1>1, <1>2, <1>3, StillTells DEF AfterIdentifier
<1>4. CASE CloseIndex
  BY <1>0, <1>1, <1>2, <1>4, StillTells DEF CloseIndex
<1>5. CASE CloseParen
  BY <1>0, <1>1, <1>2, <1>5, StillTells DEF CloseParen
<1>6. CASE Arguments
  BY <1>0, <1>1, <1>2, <1>6, StillTells DEF Arguments
<1>7. CASE ArgumentComma
  BY <1>0, <1>1, <1>2, <1>7, StillTells DEF ArgumentComma
<1> QED BY <1>3, <1>4, <1>5, <1>6, <1>7

LEMMA OperatorTells ==
  ASSUME Telling, NEW pc \in Operations, NEW operator, operator \notin Keywords, NEW operand, Loose(operand),
         Operators(pc, operator, operand)
  PROVE  Told'
<1>0. Calm /\ TypeInv
  BY DEF Telling, Calm
<1>1. PICK s : s = Append(Below, Call(pc, Depth, TRUE)) \o operand /\ Holds(s, <<>>)
  BY <1>0, PlainlyMade, StacksHold
<1>2. Holds(Return, <<>>) /\ Due(Top.pc) = <<>>
  BY StacksHold DEF Operators, Operations, Due, Signature
<1>3. (Move(1, s, FALSE, <<>>, {}) /\ Tok \notin Keywords) \/ Move(0, Return, FALSE, <<>>, {})
  BY <1>0, <1>1, CalmStep DEF Operators
<1> QED BY <1>1, <1>2, <1>3, StillTells

LEMMA ExpressionTells ==
  ASSUME Telling, Term \/ Expression \/ parse_term_for_expr \/ Relation
  PROVE  Told'
<1>0. TypeInv /\ {"mulop", "addop", "lit", "ptr", "id", "rel"} \cap Keywords = {}
  BY DEF Telling, Calm, Keywords
<1>1. CASE Term
  BY <1>0, <1>1, LooseCalls, OperatorTells DEF Term, Operations
<1>2. CASE Expression
  BY <1>0, <1>2, LooseCalls, OperatorTells DEF Expression, Operations
<1>3. /\ Holds(Then("after id"), <<>>) /\ Holds(Return, <<>>)
      /\ Holds(Instead(<<Call("operand", Depth, FALSE)>>), <<>>)
  BY CallsHold DEF Waiting, Signature
<1>4. CASE parse_term_for_expr
  <2>1. Due(Top.pc) = <<>>
    BY <1>4 DEF parse_term_for_expr, Due, Signature
  <2> QED BY <1>0, <1>3, <1>4, <2>1, StillTells DEF parse_term_for_expr
<1>5. CASE Relation
  <2>1. Due(Top.pc) = <<>>
    BY <1>5 DEF Relation, Due, Signature
  <2> QED BY <1>0, <1>3, <1>5, <2>1, StillTells DEF Relation
<1> QED BY <1>1, <1>2, <1>4, <1>5

LEMMA DeclarationTells ==
  ASSUME Telling, DeclareName \/ DeclareSize \/ DeclareArray \/ parse_initialize_array
  PROVE  Told'
<1>0. /\ Due(Top.pc) = <<>>
      /\ {"id", "[", "]", "=", "{", "}", ","} \cap Keywords = {}
  <2>1. Due(Top.pc) = <<>>
    BY DEF DeclareName, DeclareSize, DeclareArray, parse_initialize_array, Due, Signature
  <2> QED BY <2>1 DEF Keywords
<1>1. /\ Holds(Then("size"), <<>>) /\ Holds(CallThen(parse_expr, "sized"), <<>>)
      /\ Holds(Instead(parse_expr), <<>>) /\ Holds(Return, <<>>) /\ Holds(Then("array"), <<>>)
      /\ Holds(Then("element"), <<>>) /\ Holds(CallThen(parse_expr, "element end"), <<>>)
      /\ Holds(Instead(<<Call("elements", Depth, FALSE)>>), <<>>)
  BY CallsHold DEF Waiting, Signature
<1>2. CASE DeclareName
  BY <1>0, <1>1, <1>2, StillTells DEF DeclareName
<1>3. CASE DeclareSize
  BY <1>0, <1>1, <1>3, StillTells DEF DeclareSize
<1>4. CASE DeclareArray
  BY <1>0, <1>1, <1>4, StillTells DEF DeclareArray
<1>5. CASE parse_initialize_array
  BY <1>0, <1>1, <1>5, StillTells DEF parse_initialize_array
<1> QED BY <1>2, <1>3, <1>4, <1>5

LEMMA SimpleTells == ASSUME Telling, parse_assign \/ parse_goto \/ parse_ret PROVE Told'
<1>0. /\ Due(Top.pc) = <<>>
      /\ {"[", "]", "(", "=", "label", "}", ","} \cap Keywords = {}
  <2>1. Due(Top.pc) = <<>>
    BY DEF parse_assign, parse_goto, parse_ret, Due, Signature
  <2> QED BY <2>1 DEF Keywords
<1>1. /\ Holds(CallThen(parse_expr, "subscript"), <<>>) /\ Holds(Then("arguments"), <<>>)
      /\ Holds(Instead(parse_expr), <<>>) /\ Holds(Then("subscript ="), <<>>) /\ Holds(Return, <<>>)
      /\ Holds(CallThen(parse_expr, "returned"), <<>>) /\ Holds(Then("return"), <<>>)
  BY CallsHold DEF Waiting, Signature
<1>2. CASE parse_assign
  BY <1>0, <1>1, <1>2, StillTells DEF parse_assign
<1>3. CASE parse_goto
  BY <1>0, <1>1, <1>3, StillTells DEF parse_goto
<1>4. CASE parse_ret
  BY <1>0, <1>1, <1>4, StillTells DEF parse_ret
<1> QED BY <1>2, <1>3, <1>4

\* Bodies.
LEMMA NextInstrTells ==
  ASSUME Telling, NEW depth \in Nat, NEW pc, pc = Top.pc, pc \notin Waiting, NextInstr(depth, pc)
  PROVE  Told'
<1>1. PICK s, null : /\ s = CallThen(parse_instr(depth, null), pc) /\ null = Full(Instr)
                     /\ Holds(s, <<>>)
  BY CallsHold
<1>2. Move(0, s, null, <<>>, {})
  BY <1>1 DEF NextInstr
<1> QED BY <1>1, <1>2, NotWaiting, StillTells

LEMMA BodyTells ==
  ASSUME Telling, NEW pc, pc \notin Waiting, NEW ends, ends \subseteq {"}", "END"}, NEW depth \in Nat,
         NEW after, Holds(after, <<>>), Body(pc, ends, depth, after)
  PROVE  Told'
<1>1. Top.pc = pc /\ ((Tok \in ends /\ Go(1, after)) \/ NextInstr(depth, pc))
  BY DEF Body
<1>2. CASE Tok \in ends /\ Go(1, after)
  <2>1. Tok \notin Keywords
    BY <1>2 DEF Keywords
  <2>2. Due(Top.pc) = <<>>
    BY <1>1, NotWaiting
  <2> QED BY <1>2, <2>1, <2>2, StillTells
<1>3. CASE NextInstr(depth, pc)
  BY <1>1, <1>3, NextInstrTells
<1> QED BY <1>1, <1>2, <1>3

LEMMA CondBlockTells == ASSUME Telling, CondBlock PROVE Told'
<1>0. Calm /\ Depth + 1 \in Nat /\ Due(Top.pc) = <<>> /\ "{" \notin Keywords /\ "in block" \notin Waiting
  <2>1. Top.pc \in {"block", "in block"}
    BY DEF CondBlock, Body
  <2>2. Due(Top.pc) = <<>>
    BY <2>1 DEF Due, Signature
  <2>3. "{" \notin Keywords /\ "in block" \notin Waiting
    BY DEF Keywords, Waiting, Signature
  <2> QED BY <2>2, <2>3, DepthBelow DEF Telling, Calm
<1>1. /\ Holds(Return, <<>>) /\ Holds(Then("in block"), <<>>)
      /\ Holds(Instead(parse_instr(Depth + 1, Full(Instr))), <<>>)
  BY <1>0, CallsHold
<1>2. CASE Body("in block", {"}", "END"}, Depth + 1, Return)
  BY <1>0, <1>1, <1>2, BodyTells
<1>3. CASE ~Body("in block", {"}", "END"}, Depth + 1, Return)
  <2>1. \/ Tok = "{" /\ Go(1, Then("in block"))
        \/ Move(0, Instead(parse_instr(Depth + 1, Full(Instr))), Full(Instr), <<>>, {})
    BY <1>0, <1>3, CalmStep DEF CondBlock
  <2> QED BY <1>0, <1>1, <2>1, StillTells
<1> QED BY <1>2, <1>3

\* Steps that take a keyword for which the line comes later.
LEMMA TakenUp ==
  ASSUME Telling, Due(Top.pc) = <<>>, NEW s, NEW w, w = Kept(Tok), Holds(s, w), Go(1, s)
  PROVE  Told'
<1>1. Move(1, s, FALSE, <<>>, {}) /\ w \in Seq(Keywords)
  BY Words DEF Go
<1>2. w = Due(Top.pc) \o Read(1)
  <2>1. <<>> \o w = w
    BY <1>1
  <2> QED BY <2>1 DEF Read
<1> QED BY <1>1, <1>2, MoveTells

LEMMA IfTells == ASSUME Telling, parse_if PROVE Told'
<1>0. Calm /\ Top.pc \in {"if", "arm"} /\ Due(Top.pc) = <<>>
  <2>1. Top.pc \in {"if", "arm"}
    BY DEF parse_if
  <2> QED BY <2>1 DEF Telling, Due, Signature
<1>1. /\ Holds(CallThen(parse_cond_block(FALSE), "arm"), <<>>) /\ Holds(Return, <<>>)
      /\ Holds(Then("else"), <<"else">>)
  <2>1. Due("else") = <<"else">> /\ "arm" \notin Waiting
    BY DEF Due, Waiting, Signature
  <2> QED BY <2>1, CallsHold, StacksHold
<1>2. CASE Top.pc = "if"
  BY <1>0, <1>1, <1>2, StillTells DEF parse_if
<1>3. CASE Top.pc = "arm"
  <2>1. CASE Tok = "else"
    <3>1. Kept(Tok) = <<"else">>
      BY <2>1 DEF Kept, Keywords
    <3>2. Go(1, Then("else"))
      BY <1>3, <2>1 DEF parse_if
    <3> QED BY <1>0, <1>1, <3>1, <3>2, TakenUp
  <2>2. CASE Tok # "else"
    BY <1>0, <1>1, <1>3, <2>2, StillTells DEF parse_if
  <2> QED BY <2>1, <2>2
<1> QED BY <1>0, <1>2, <1>3

\* Steps that make a line.
LEMMA MadeTells ==
  ASSUME Telling, NEW kind, NEW s, Holds(s, <<>>)
  PROVE  /\ \A err : Due(Top.pc) = WrittenAs(kind) /\ Move(0, s, err, <<Line(kind)>>, {}) => Told'
         /\ \A err : /\ Due(Top.pc) \o Kept(Tok) = WrittenAs(kind)
                     /\ Move(1, s, err, <<Line(kind)>>, {})
                     => Told'
<1>1. PICK line : line = Line(kind) /\ line.kind = kind
  BY LineIs
<1>2. PICK w, v, u : /\ w = WrittenAs(kind) /\ w \in Seq(Keywords) /\ w \o <<>> = w /\ <<>> \in Seq(Keywords)
                     /\ v = Due(Top.pc) /\ v \o <<>> = v
                     /\ u = <<>>
  <2>1. \A w \in Seq(Keywords) : w \o <<>> = w
    OBVIOUS
  <2> QED BY <2>1, Words
<1>3. ASSUME NEW err, Due(Top.pc) = WrittenAs(kind), Move(0, s, err, <<line>>, {})  PROVE Told'
  <2>1. Due(Top.pc) \o Read(0) = WrittenAs(line.kind) \o u
    BY <1>1, <1>2, <1>3 DEF Read
  <2> QED BY <1>2, <1>3, <2>1, LineTells
<1>4. ASSUME NEW err, Due(Top.pc) \o Kept(Tok) = WrittenAs(kind), Move(1, s, err, <<line>>, {})  PROVE Told'
  <2>1. Due(Top.pc) \o Read(1) = WrittenAs(line.kind) \o u
    BY <1>1, <1>2, <1>4 DEF Read
  <2> QED BY <1>2, <1>4, <2>1, LineTells
<1> QED BY <1>1, <1>3, <1>4

LEMMA EmitIs == \A kind, n, s : Emit(kind, n, s) => Move(n, s, FALSE, <<Line(kind)>>, {})
BY DEF Emit, Line

\* An instruction, an arm or a case of one keyword.
LEMMA WordMade ==
  ASSUME Telling, Due(Top.pc) = <<>>, NEW kind, NEW s, Holds(s, <<>>)
  PROVE  /\ \A err : WrittenAs(kind) = <<>> /\ Move(0, s, err, <<Line(kind)>>, {}) => Told'
         /\ \A err : WrittenAs(kind) = Kept(Tok) /\ Move(1, s, err, <<Line(kind)>>, {}) => Told'
<1>1. <<>> \o Kept(Tok) = Kept(Tok)
  <2>1. \A w \in Seq(Keywords) : <<>> \o w = w
    OBVIOUS
  <2> QED BY <2>1, Words
<1> QED BY <1>1, MadeTells

LEMMA TwoWords == \A a, b : <<a>> \o <<b>> = <<a, b>>
<1> TAKE a, b
<1>1. PICK s : s = <<a>> /\ s \in Seq({a, b}) /\ Len(s) = 1 /\ s[1] = a
  <2>1. <<a>> \in Seq({a, b}) /\ Len(<<a>>) = 1 /\ <<a>>[1] = a
    OBVIOUS
  <2> QED BY <2>1
<1>2. PICK u : u = Append(s, b) /\ u \in Seq({a, b}) /\ Len(u) = 2 /\ u[1] = a /\ u[2] = b
  <2>1. b \in {a, b}
    OBVIOUS
  <2>2. Append(s, b) \in Seq({a, b}) /\ Len(Append(s, b)) = 2 /\ Append(s, b)[1] = a /\ Append(s, b)[2] = b
    BY <1>1, <2>1
  <2> QED BY <2>2
<1>3. PICK v : v = <<a, b>> /\ v \in Seq({a, b}) /\ Len(v) = 2 /\ v[1] = a /\ v[2] = b
  <2>1. <<a, b>> \in Seq({a, b}) /\ Len(<<a, b>>) = 2 /\ <<a, b>>[1] = a /\ <<a, b>>[2] = b
    OBVIOUS
  <2> QED BY <2>1
<1>4. u = v
  <2>1. \A i \in 1..2 : u[i] = v[i]
    BY <1>2, <1>3
  <2>2. u = [i \in 1..2 |-> u[i]]
    <3>1. u \in Seq({a, b}) /\ Len(u) = 2
      BY <1>2
    <3> QED BY ONLY <3>1
  <2>3. v = [i \in 1..2 |-> v[i]]
    BY ONLY <1>3
  <2>4. [i \in 1..2 |-> u[i]] = [i \in 1..2 |-> v[i]]
    BY ONLY <2>1
  <2> QED BY ONLY <2>2, <2>3, <2>4
<1>5. s \o <<b>> = Append(s, b)
  BY <1>1
<1> QED BY <1>1, <1>2, <1>3, <1>4, <1>5

LEMMA ElseTells == ASSUME Telling, Else PROVE Told'
<1>0. Calm /\ Due(Top.pc) = <<"else">>
  BY DEF Telling, Else, Due
<1>1. CASE Tok = "if"
  <2>1. PICK s : s = CallThen(parse_cond_block(FALSE) \o parse_rel, "arm") /\ Holds(s, <<>>)
    BY CallsHold DEF Waiting, Signature
  <2>2. Move(1, s, FALSE, <<Line("elif")>>, {})
    BY <1>1, <2>1, EmitIs DEF Else
  <2>3. Due(Top.pc) \o Kept(Tok) = WrittenAs("elif")
    <3>1. Kept(Tok) = <<"if">> /\ WrittenAs("elif") = <<"else", "if">>
      BY <1>1 DEF Kept, Keywords, WrittenAs
    <3>2. <<"else">> \o <<"if">> = <<"else", "if">>
      BY TwoWords
    <3> QED BY <1>0, <3>1, <3>2
  <2> QED BY <2>1, <2>2, <2>3, MadeTells
<1>2. CASE Tok # "if"
  <2>1. PICK s : s = Instead(parse_cond_block(Full(Block))) /\ Holds(s, <<>>)
    BY CallsHold
  <2>2. PICK null : Move(0, s, null, <<Line("else")>>, {})
    BY <1>2, <2>1 DEF Else, Line
  <2>3. Due(Top.pc) = WrittenAs("else")
    BY <1>0 DEF WrittenAs, Kept, Keywords
  <2> QED BY <2>1, <2>2, <2>3, MadeTells
<1> QED BY <1>1, <1>2

LEMMA MatchTells == ASSUME Telling, parse_match PROVE Told'
<1>0. /\ Calm /\ ~Exit /\ Due(Top.pc) = <<>>
      /\ Top.pc \in {"match", "case", "first value", "value", "=>"}
  <2>1. Top.pc \in {"match", "case", "first value", "value", "=>"}
    BY DEF parse_match
  <2> QED BY <2>1, CalmStep DEF Telling, Due, Signature
<1>1. /\ Holds(Return, <<>>) /\ Holds(Then("case"), <<>>) /\ Holds(Then("=>"), <<>>)
      /\ Holds(CallThen(parse_expr, "=>"), <<>>) /\ Holds(CallThen(parse_expr, "value"), <<>>)
      /\ Holds(CallThen(parse_expr, "first value"), <<>>)
      /\ Holds(CallThen(parse_cond_block(FALSE), "case"), <<>>)
  BY CallsHold DEF Waiting, Signature
<1>2. {"{", "}", "...", ",", "=>"} \cap Keywords = {}
  BY DEF Keywords
<1>3. CASE Top.pc # "case"
  <2>1. \A pc \in {"=>", "value"} : Tok \notin Keywords /\ WastedNode(1, <<>>, pc) => Told'
    BY <1>0, <1>1, StillTells DEF WastedNode
  <2> QED BY <1>0, <1>1, <1>2, <1>3, <2>1, StillTells DEF parse_match
<1>4. CASE Top.pc = "case"
  <2>1. CASE Tok = "_" /\ Emit("default", 1, Then("=>"))
    <3>1. WrittenAs("default") = Kept(Tok)
      BY <2>1 DEF WrittenAs, Kept, Keywords
    <3> QED BY <1>0, <1>1, <2>1, <3>1, EmitIs, WordMade
  <2>2. CASE WastedNode(0, <<Line("case")>>, "first value")
    <3>1. WrittenAs("case") = <<>>
      BY DEF WrittenAs, Kept, Keywords
    <3> QED BY <1>0, <1>1, <2>2, <3>1, WordMade DEF WastedNode
  <2>3. \/ Tok = "}" /\ Go(1, Return)
        \/ Tok = "_" /\ Emit("default", 1, Then("=>"))
        \/ WastedNode(0, <<Line("case")>>, "first value")
    BY <1>0, <1>4 DEF parse_match, Line
  <2> QED BY <1>0, <1>1, <1>2, <2>1, <2>2, <2>3, StillTells
<1> QED BY <1>3, <1>4

LEMMA LoopTells == ASSUME Telling, parse_loop PROVE Told'
<1>0. /\ Calm /\ ~Exit /\ Due(Top.pc) = <<>> /\ Depth + 1 \in Nat
      /\ Top.pc \in {"for", "in", "from", "while", "open", "in loop", "until"}
  <2>1. Top.pc \in {"for", "in", "from", "while", "open", "in loop", "until"}
    BY DEF parse_loop, Body
  <2> QED BY <2>1, CalmStep, DepthBelow DEF Telling, Calm, Due, Signature
<1>1. /\ Holds(Return, <<>>) /\ Holds(Instead(parse_rel), <<>>)
      /\ Holds(Then("in"), <<>>) /\ Holds(Then("in loop"), <<>>) /\ Holds(Then("until"), <<>>)
      /\ Holds(CallThen(parse_rel, "open"), <<>>) /\ Holds(CallThen(parse_expr, "open"), <<>>)
      /\ Holds(CallThen(parse_expr, "from"), <<>>)
  BY CallsHold DEF Waiting, Signature
<1>2. {"id", "{", "}", "...", "in"} \cap Keywords = {} /\ "in loop" \notin Waiting
  BY DEF Keywords, Waiting, Signature
<1>3. CASE Body("in loop", {"}"}, Depth + 1, IF Top.arg = "dowhile" THEN Then("until") ELSE Return)
  <2>1. PICK after : after = IF Top.arg = "dowhile" THEN Then("until") ELSE Return
    OBVIOUS
  <2>2. Body("in loop", {"}"}, Depth + 1, after) /\ Holds(after, <<>>)
    BY <1>1, <1>3, <2>1
  <2>3. {"}"} \subseteq {"}", "END"}
    OBVIOUS
  <2> QED BY <1>0, <1>2, <2>2, <2>3, BodyTells
<1>4. CASE ~Body("in loop", {"}"}, Depth + 1, IF Top.arg = "dowhile" THEN Then("until") ELSE Return)
  <2>1. \A pc \in {"from", "open"} : Tok \notin Keywords /\ WastedNode(1, <<>>, pc) => Told'
    BY <1>0, <1>1, StillTells DEF WastedNode
  <2> QED BY <1>0, <1>1, <1>2, <1>4, <2>1, StillTells DEF parse_loop
<1> QED BY <1>3, <1>4

LEMMA FunctionTells == ASSUME Telling, Parameters \/ ReturnTypes PROVE Told'
<1>0. /\ Calm /\ Whole /\ TypeInv /\ Due(Top.pc) = <<"fn">>
      /\ {"id", "(", ")", "type", "ptr", ",", ":", "..."} \cap Keywords = {}
  <2>1. Top.pc \in Signature
    BY DEF Parameters, ReturnTypes, Signature
  <2>2. Due(Top.pc) = <<"fn">>
    BY <2>1 DEF Due, Signature
  <2>3. {"id", "(", ")", "type", "ptr", ",", ":", "..."} \cap Keywords = {}
    BY DEF Keywords
  <2> QED BY <2>2, <2>3 DEF Telling, Calm
<1>1. \A pc \in Signature : Holds(Then(pc), <<"fn">>)
  BY CallsHold
<1>2. \A pc \in {"fn (", "parameter", "name or pointer", "name", "parameter end", "signature", "type",
                 "more types", "body"} : Holds(Then(pc), <<"fn">>)
  BY <1>1 DEF Signature
<1>3. ASSUME NEW pc \in {"signature", "more types"}, NEW k, k \notin Keywords, Tok \in {"...", ","},
             Move(2, Then(pc), FALSE, <<>>, {<<index + 1, k>>})
      PROVE  Told'
  <2>1. PICK passed : /\ Move(2, Then(pc), FALSE, <<>>, passed) /\ passed = {<<index + 1, k>>}
    BY <1>3
  <2>2. 2 \in {1, 2} /\ Tok # "END"
    BY <1>3
  <2>3. index' = index + 2
    BY ONLY <1>0, <2>1, <2>2, CalmRead
  <2>4. ~Errors /\ unseen' = unseen \cup {<<index + 1, k>>} /\ Tok \notin Keywords
    BY <1>0, <1>3, <2>1, CalmStep DEF Move
  <2>5. Keys(index', TakenAs') = Keys(index, TakenAs)
    BY <1>0, <1>3, <2>3, <2>4, KeysTwo
  <2>6. stack' = Then(pc) /\ tree' = tree
    <3>1. tree \o <<>> = tree
      BY NothingJoined DEF Telling
    <3> QED BY <2>1, <3>1 DEF Move
  <2>7. Holds(Then(pc), <<"fn">>)
    BY <1>2
  <2> QED BY <1>0, <2>5, <2>6, <2>7 DEF Told, Telling, Holds
<1>4. CASE Parameters
  <2>1. CASE Top.pc = "parameter end"
    <3>1. \/ Tok = "," /\ Go(1, Then("parameter"))
          \/ Tok # "," /\ Go(0, Then("parameter"))
      BY <1>4, <2>1 DEF Parameters
    <3> QED BY <1>0, <1>2, <3>1, StillTells
  <2>2. CASE Top.pc = "parameter"
    <3>1. \/ Tok = ")" /\ Go(1, Then("signature"))
          \/ Tok = "..." /\ Move(2, Then("signature"), FALSE, <<>>, {<<index + 1, ")">>})
          \/ Tok = "type" /\ Go(1, Then("name or pointer"))
          \/ Complain(0, Return)
      BY <1>4, <2>2 DEF Parameters
    <3>2. ~Complain(0, Return)
      BY <1>0, CalmStep DEF Complain
    <3>3. Tok = "..." /\ Move(2, Then("signature"), FALSE, <<>>, {<<index + 1, ")">>}) => Told'
      BY <1>0, <1>3
    <3> QED BY <1>0, <1>2, <3>1, <3>2, <3>3, StillTells
  <2>3. CASE Top.pc \notin {"parameter", "parameter end"}
    <3>1. ~Complain(0, Return)
      BY <1>0, CalmStep DEF Complain
    <3> QED BY <1>0, <1>2, <1>4, <2>3, <3>1, StillTells DEF Parameters
  <2> QED BY <2>1, <2>2, <2>3
<1>5. CASE ReturnTypes
  BY <1>0, <1>2, <1>3, <1>5, StillTells DEF ReturnTypes
<1> QED BY <1>4, <1>5

LEMMA FunctionBodyTells == ASSUME Telling, FunctionBody PROVE Told'
<1>0. Depth + 1 \in Nat /\ "in fn" \notin Waiting
  BY DepthBelow DEF Telling, Calm, Waiting, Signature
<1>1. Holds(Return, <<>>) /\ Holds(Then("in fn"), <<>>)
  BY <1>0, CallsHold
<1>2. CASE Body("in fn", {"}", "END"}, Depth + 1, Return)
  BY <1>0, <1>1, <1>2, BodyTells
<1>3. CASE Top.pc = "body" /\ ((Tok = "{" /\ Emit("fn", 1, Then("in fn"))) \/ Emit("prototype", 0, Return))
  <2>1. Due(Top.pc) = <<"fn">> /\ WrittenAs("fn") = <<"fn">> /\ WrittenAs("prototype") = <<"fn">>
    <3>1. Due(Top.pc) = <<"fn">>
      BY <1>3 DEF Due, Signature
    <3> QED BY <3>1 DEF WrittenAs, Kept, Keywords
  <2>2. CASE Tok = "{" /\ Emit("fn", 1, Then("in fn"))
    <3>1. Kept(Tok) = <<>>
      BY <2>2 DEF Kept, Keywords
    <3>2. Due(Top.pc) \o Kept(Tok) = WrittenAs("fn")
      <4>1. PICK w \in Seq(Keywords) : w = Due(Top.pc)
        BY Words
      <4>2. w \o <<>> = w
        OBVIOUS
      <4> QED BY <2>1, <3>1, <4>1, <4>2
    <3>3. Move(1, Then("in fn"), FALSE, <<Line("fn")>>, {})
      BY <2>2, EmitIs
    <3> QED BY <1>1, <3>2, <3>3, MadeTells
  <2>3. CASE Emit("prototype", 0, Return)
    BY <1>1, <2>1, <2>3, EmitIs, MadeTells
  <2> QED BY <1>3, <2>2, <2>3
<1>4. \/ Body("in fn", {"}", "END"}, Depth + 1, Return)
      \/ Top.pc = "body" /\ ((Tok = "{" /\ Emit("fn", 1, Then("in fn"))) \/ Emit("prototype", 0, Return))
  BY DEF FunctionBody
<1> QED BY <1>2, <1>3, <1>4

LEMMA InstructionTells == ASSUME Telling, Instruction PROVE Told'
<1>0. Calm /\ Due(Top.pc) = <<>>
  BY DEF Telling, Instruction, Due, Signature
<1>1. ~Unexpected /\ ~Crash
  <2>1. ~Exit /\ ~Crash
    BY <1>0, CalmStep
  <2> QED BY <2>1 DEF Unexpected
<1>2. CASE Tok \in {"break", "continue", "label"} /\ Emit(Tok, 1, Return)
  <2>1. PICK kind : kind = Tok /\ kind \in {"break", "continue", "label"} /\ Emit(kind, 1, Return)
    BY <1>2
  <2>2. WrittenAs(kind) = Kept(kind)
    BY <2>1 DEF WrittenAs
  <2>3. Holds(Return, <<>>) /\ Move(1, Return, FALSE, <<Line(kind)>>, {})
    BY <2>1, CallsHold, EmitIs
  <2> QED BY <1>0, <2>1, <2>2, <2>3, WordMade
<1>3. CASE /\ Tok \in {"type", "id", "ptr", "goto", "return"} \cup Tree!Loops
           /\ Emit(LineOf(Tok), 1, Append(Below, At(Point(Tok), Tok)))
  <2>1. PICK tok, kind, pc : tok = Tok /\ kind = LineOf(tok) /\ pc = Point(tok)
    OBVIOUS
  <2>2. WrittenAs(kind) = Kept(tok) /\ pc \notin Waiting
    BY <1>3, <2>1 DEF LineOf, Point, WrittenAs, Kept, Keywords, Waiting, Signature, Tree!Loops
  <2>3. PICK s : s = Append(Below, At(pc, tok)) /\ Holds(s, <<>>)
    BY <2>2, CallsHold
  <2>4. Move(1, s, FALSE, <<Line(kind)>>, {})
    BY <1>3, <2>1, <2>3, EmitIs
  <2> QED BY <1>0, <2>1, <2>2, <2>3, <2>4, WordMade
<1>4. CASE Tok = "fn" /\ Go(1, Append(Below, At(Point(Tok), Tok)))
  <2>1. PICK tok : tok = Tok /\ tok = "fn"
    BY <1>4
  <2>2. Point(tok) = "fn" /\ Due("fn") = <<"fn">> /\ Kept(tok) = <<"fn">>
    BY <2>1 DEF Point, Due, Signature, Kept, Keywords
  <2>3. PICK s : s = Append(Below, At(Point(tok), tok)) /\ Holds(s, Due("fn"))
    BY <2>2, StacksHold
  <2>4. Go(1, s)
    BY <1>4, <2>1, <2>3
  <2> QED BY <1>0, <2>1, <2>2, <2>3, <2>4, TakenUp
<1>5. {"if", "match"} \cap Waiting = {}
  BY DEF Waiting, Signature
<1>6. CASE Tok = "if" /\ Emit("if", 1, Instead(<<Call("if", Depth, FALSE)>> \o parse_rel))
  <2>1. PICK s : s = Instead(<<Call("if", Depth, FALSE)>> \o parse_rel) /\ Holds(s, <<>>)
    BY <1>5, CallsHold
  <2>2. WrittenAs("if") = Kept(Tok)
    BY <1>6 DEF WrittenAs
  <2>3. Move(1, s, FALSE, <<Line("if")>>, {})
    BY <1>6, <2>1, EmitIs
  <2> QED BY <1>0, <2>1, <2>2, <2>3, WordMade
<1>7. CASE /\ Tok = "match"
           /\ Move(1, Instead(<<Call("match", Depth, FALSE)>> \o parse_expr), Full(Expr), <<Line("match")>>, {})
  <2>1. PICK s : s = Instead(<<Call("match", Depth, FALSE)>> \o parse_expr) /\ Holds(s, <<>>)
    BY <1>5, CallsHold
  <2>2. WrittenAs("match") = Kept(Tok)
    BY <1>7 DEF WrittenAs
  <2>3. PICK null : Move(1, s, null, <<Line("match")>>, {})
    BY <1>7, <2>1
  <2> QED BY <1>0, <2>1, <2>2, <2>3, WordMade
<1> QED BY <1>1, <1>2, <1>3, <1>4, <1>6, <1>7 DEF Instruction, Line

LEMMA ProgramTells == ASSUME Telling, Program PROVE Told'
<1>1. NextInstr(0, "program") /\ Top.pc = "program"
  BY CalmStep DEF Program, Telling, Calm, Quiet
<1>2. "program" \notin Waiting
  BY DEF Waiting, Signature
<1> QED BY <1>1, <1>2, NextInstrTells

\* A step without an error tells what it takes.
LEMMA TellingSteps == ASSUME Telling, Parse PROVE Told'
<1>1. Step
  BY CalmStep DEF Parse, Telling
<1>2. CASE Factor \/ AfterIdentifier \/ CloseIndex \/ CloseParen \/ Arguments \/ ArgumentComma
  BY <1>2, FactorTells, AfterIdentifierTells
<1>3. CASE Term \/ Expression \/ parse_term_for_expr \/ Relation
  BY <1>3, ExpressionTells
<1>4. CASE DeclareName \/ DeclareSize \/ DeclareArray \/ parse_initialize_array
  BY <1>4, DeclarationTells
<1>5. CASE parse_assign \/ parse_goto \/ parse_ret
  BY <1>5, SimpleTells
<1>6. CASE CondBlock \/ parse_if \/ Else
  BY <1>6, CondBlockTells, IfTells, ElseTells
<1>7. CASE parse_match \/ parse_loop
  BY <1>7, MatchTells, LoopTells
<1>8. CASE Parameters \/ ReturnTypes \/ FunctionBody
  BY <1>8, FunctionTells, FunctionBodyTells
<1>9. CASE Instruction \/ Program
  BY <1>9, InstructionTells, ProgramTells
<1> QED BY <1>1, <1>2, <1>3, <1>4, <1>5, <1>6, <1>7, <1>8, <1>9 DEF Step

----------------------------------------------------------------------------
(* The invariant over keywords.                                            *)

LEMMA SourceInit == Init => SourceInv
<1> SUFFICES ASSUME Init PROVE SourceInv
  OBVIOUS
<1>1. TreeInv /\ status # "done" /\ index = 0 /\ tree = <<>>
  BY TreeInit DEF Init
<1>2. PICK c : c = Call("program", 0, FALSE) /\ c.pc = "program"
  <2>1. LET c == Call("program", 0, FALSE) IN c.pc = "program"
    BY DEF Call
  <2> QED BY <2>1
<1>3. Len(stack) = 1 /\ stack[1] = c
  BY <1>2 DEF Init
<1>4. Waits(stack) /\ Pending(stack) = <<>>
  <2>1. 1..(1 - 1) = {}
    OBVIOUS
  <2>2. Due("program") = <<>>
    BY DEF Due, Signature
  <2> QED BY <1>2, <1>3, <2>1, <2>2 DEF Waits, Pending
<1>5. Keys(index, TakenAs) = <<>> /\ Written(tree) = <<>>
  <2>1. PICK f : f = TakenAs
    OBVIOUS
  <2>2. KeptOf(0, f) = <<>> /\ WrittenOf(<<>>) = <<>>
    BY DEF KeptOf, WrittenOf
  <2>3. FlattenSeq(<<>>) = <<>>
    BY DEF FlattenSeq
  <2> QED BY <1>1, <2>1, <2>2, <2>3 DEF Keys, Written
<1>6. Keys(index, TakenAs) = Written(tree) \o Pending(stack)
  <2>1. <<>> \o <<>> = <<>>
    OBVIOUS
  <2> QED BY <1>4, <1>5, <2>1
<1> QED BY <1>1, <1>4, <1>6 DEF SourceInv, TreeIsTheSource

LEMMA SourceSupply == SourceInv /\ Supply => SourceInv'
<1> SUFFICES ASSUME SourceInv, Supply PROVE SourceInv'
  OBVIOUS
<1>1. /\ TreeInv' /\ UNCHANGED <<stack, tree, errors, status, index, unseen>> /\ status = "parsing" /\ ~Complete
  BY TreeSupply DEF SourceInv, Supply
<1>2. Quiet' => Quiet
  BY <1>1 DEF Quiet
<1>3. BracketInv /\ Inv /\ TypeInv
  BY DEF SourceInv, TreeInv, CrashInv, BracketInv, Inv
<1>4. ASSUME Quiet PROVE Keys(index', TakenAs') = Keys(index, TakenAs)
  <2>1. Whole
    BY <1>3, <1>4 DEF BracketInv
  <2>2. PICK piece : tokens' = tokens \o piece /\ IsSequence(piece) /\ IsSequence(tokens)
    <3>1. PICK piece \in {<<"END">>} \cup More : tokens' = tokens \o piece
      BY DEF Supply
    <3>2. IsSequence(piece)
      <4>1. CASE piece = <<"END">>
        <5>1. <<"END">> \in Seq({"END"})
          OBVIOUS
        <5> QED BY <4>1, <5>1 DEF IsSequence
      <4>2. CASE piece \in More
        <5>1. piece \in Seq(Kinds \ {"END"})
          BY <1>3, <4>2, ParserAssumption DEF More, TypeInv
        <5> QED BY <5>1 DEF IsSequence
      <4> QED BY <4>1, <4>2
    <3>3. IsSequence(tokens)
      BY <1>3 DEF TypeInv, IsSequence
    <3> QED BY <3>1, <3>2, <3>3
  <2>3. /\ Len(tokens') \in Nat /\ Len(tokens) <= Len(tokens')
        /\ \A i \in 1..Len(tokens) : tokens'[i] = tokens[i]
    BY <2>2, JoinedSequence, SequenceLength
  <2>4. PICK n, f, g : n = index /\ f = TakenAs /\ g = TakenAs'
    OBVIOUS
  <2>5. \A i \in 1..n : g[i] = f[i]
    BY <1>1, <1>3, <2>1, <2>3, <2>4, TakenSupplied
  <2>6. Keys(n, g) = Keys(n, f)
    BY <2>5, KeysSame
  <2> QED BY <1>1, <2>4, <2>6
<1> QED BY <1>1, <1>2, <1>4 DEF SourceInv, TreeIsTheSource

\* The END is no keyword: where the program ends, nothing is due.
LEMMA KeysAtTheEnd ==
  ASSUME TypeInv, EndIsLast, Whole, IsListing(tree), Told, Tok = "END", Top.pc = "program", ~Errors
  PROVE  Written(tree) = FlattenSeq([i \in 1..Len(tokens) |-> Kept(Taken[i])])
<1>1. /\ index \in Nat /\ Len(tokens) \in Nat /\ index + 1 = Len(tokens)
      /\ tokens[index + 1] = "END"
  <2>1. index \in Nat /\ index < Len(tokens) /\ tokens[index + 1] = "END" /\ Len(tokens) \in Nat
    BY DEF Errors, Past, Tok, dynamic_array_get, InRange, Count, Array, TypeInv
  <2>2. ~(index + 1 \in 1..(Len(tokens) - 1))
    BY <2>1 DEF EndIsLast
  <2> QED BY <2>1, <2>2
<1>2. PICK n, f : n = index /\ f = TakenAs
  OBVIOUS
<1>3. f[n + 1] = "END"
  <2>1. {u \in unseen : u[1] = (index + 1) - 1} = {}
    BY <1>1 DEF Whole
  <2>2. TakenAs[index + 1] = TakenFor({u \in unseen : u[1] = (index + 1) - 1}, tokens[index + 1])
    BY <1>1 DEF TakenAs
  <2> QED BY <1>1, <1>2, <2>1, <2>2, TakenForOne
<1>4. Keys(n + 1, f) = Keys(n, f) \o <<>> /\ Keys(n, f) \in Seq(Keywords)
  <2>1. Kept("END") = <<>>
    BY DEF Kept, Keywords
  <2> QED BY <1>1, <1>2, <1>3, <2>1, KeysMore
<1>5. Keys(n + 1, f) = Keys(n, f)
  <2>1. PICK k \in Seq(Keywords) : k = Keys(n, f)
    BY <1>4
  <2>2. k \o <<>> = k
    OBVIOUS
  <2> QED BY <1>4, <2>1, <2>2
<1>6. Pending(stack) = <<>>
  <2>1. Due("program") = <<>>
    BY DEF Due, Signature
  <2> QED BY <2>1, TopIsCall DEF Pending, Top
<1>7. Keys(n, f) = Written(tree) \o <<>>
  BY <1>2, <1>6 DEF Told
<1>8. IsSequence(tree) => Keys(n, f) = Written(tree)
  <2> SUFFICES ASSUME IsSequence(tree) PROVE Keys(n, f) = Written(tree)
    OBVIOUS
  <2>1. PICK k \in Seq(Keywords) : k = Written(tree)
    BY WrittenMore
  <2>2. k \o <<>> = k
    OBVIOUS
  <2> QED BY <1>7, <2>1, <2>2
<1>9. KeptOf(n + 1, f) = [i \in 1..Len(tokens) |-> Kept(Taken[i])]
  <2>1. \A i \in 1..Len(tokens) : Taken[i] = f[i]
    BY <1>1, <1>2 DEF Taken, TakenAs, TakenFor
  <2> QED BY <1>1, <1>2, <2>1 DEF KeptOf
<1>10. IsSequence(tree)
  BY DEF IsListing
<1> QED BY <1>5, <1>8, <1>9, <1>10 DEF Keys

LEMMA SourceParse == SourceInv /\ Parse => SourceInv'
<1> SUFFICES ASSUME SourceInv, Parse PROVE SourceInv'
  OBVIOUS
<1>1. TreeInv' /\ TreeInv /\ CrashInv /\ BracketInv /\ Inv /\ TypeInv /\ EndIsLast
  BY TreeParse DEF SourceInv, TreeInv, CrashInv, BracketInv, Inv
<1>2. status = "parsing" /\ UNCHANGED tokens /\ (Goes \/ Ends \/ (Finishes /\ ~Errors))
  BY <1>1, Steps
<1>3. Quiet => Whole /\ IsListing(tree) /\ Told
  BY <1>1 DEF BracketInv, TreeInv, SourceInv, Told
<1>4. ASSUME Quiet' PROVE Told'
  <2>1. Goes
    BY <1>2, <1>4 DEF Quiet, Ends, Finishes
  <2>2. Calm /\ GoesOn /\ Quiet
    BY <1>1, <1>4, <2>1, QuietBefore
  <2>3. Moving(Below) /\ Pending(stack) = Due(Top.pc)
    <3>1. /\ Len(Below) = Len(stack) - 1 /\ Len(stack) \in Nat \ {0}
          /\ \A i \in 1..(Len(stack) - 1) : Below[i] = stack[i]
      BY <1>1, BelowIs
    <3>2. Waits(stack)
      BY <1>3, <2>2 DEF Told
    <3> QED BY <3>1, <3>2 DEF Moving, Waits, Pending, Top
  <2>4. Telling
    BY <1>3, <2>2, <2>3 DEF Telling, Told
  <2> QED BY <2>4, TellingSteps
<1>5. ASSUME status' = "done" PROVE TreeIsTheSource'
  <2>1. Finishes /\ ~Errors
    BY <1>2, <1>5 DEF Goes, Ends
  <2>2. Quiet
    BY <1>2, <2>1 DEF Quiet, Errors
  <2>3. Written(tree) = FlattenSeq([i \in 1..Len(tokens) |-> Kept(Taken[i])])
    BY <1>1, <1>3, <2>1, <2>2, KeysAtTheEnd DEF Finishes
  <2>4. tree' = tree /\ tokens' = tokens /\ Taken' = Taken
    BY <1>2, <2>1 DEF Finishes, Taken
  <2> QED BY <2>3, <2>4 DEF TreeIsTheSource, Written, WrittenOf
<1> QED BY <1>1, <1>4, <1>5 DEF SourceInv, Told, TreeIsTheSource

LEMMA SourceIdle == SourceInv /\ UNCHANGED pvars => SourceInv'
<1> SUFFICES ASSUME SourceInv, UNCHANGED pvars PROVE SourceInv'
  OBVIOUS
<1>1. TreeInv' /\ UNCHANGED <<tokens, index, stack, errors, tree, unseen, status>>
  BY TreeIdle DEF SourceInv, pvars
<1>2. Quiet' <=> Quiet
  BY <1>1 DEF Quiet, Complete, Past, InRange, Count, Array
<1>3. Keys(index', TakenAs') = Keys(index, TakenAs)
  BY <1>1, KeysKept
<1>4. TreeIsTheSource'
  <2>1. Taken' = Taken
    BY <1>1 DEF Taken
  <2> QED BY <1>1, <2>1 DEF SourceInv, TreeIsTheSource
<1> QED BY <1>1, <1>2, <1>3, <1>4 DEF SourceInv

\* The inductive invariant behind the faithful tree: until an error is counted,
\* the keywords taken from the source are those of the tree, in their order,
\* and the one behind them that the innermost call has taken and not yet made
\* a line of.
THEOREM SourceInvariance == Spec => []SourceInv
<1>1. SourceInv /\ [Next]_pvars => SourceInv'
  BY SourceSupply, SourceParse, SourceIdle DEF Next, Finished
<1> QED BY <1>1, SourceInit, PTL DEF Spec

\* The tree has an instruction, or an arm, for every keyword of an accepted
\* source and for no other, in the order of the source, whatever the source.
THEOREM SourceTheorem == Spec => []TreeIsTheSource
<1>1. SourceInv => TreeIsTheSource
  BY DEF SourceInv
<1> QED BY <1>1, SourceInvariance, PTL
=============================================================================
