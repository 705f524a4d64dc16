---------------------------- MODULE CallsProofs ----------------------------
(***************************************************************************)
(* What semantic analysis establishes about the calls whose values are     *)
(* used, for every program: they agree with every line that declares or    *)
(* defines their function; what the generator makes of a function that is  *)
(* defined before it is declared: one body; and what semantic analysis     *)
(* leaves open, which is exactly what the verifier may then refuse.        *)
(* ContainerProofs has the minimum and the maximum principle.              *)
(***************************************************************************)
EXTENDS Calls, ContainerProofs

\* The lines before n go together with what is registered under their names.
Consistent(n) == \A j \in 1..Len(prog) :
  j < n /\ prog[j].kind \in HeadLines =>
    Known(prog[j].fn) /\ ~Mismatch(Registered(prog[j].fn), prog[j])

\* The calls before n whose value is used go together with what is registered.
Checked(n) == \A i \in 1..Len(prog) :
  i < n /\ prog[i].kind \in {"value", "while"} =>
    Known(prog[i].fn) /\ CountFits(Registered(prog[i].fn), prog[i])

\* A name is registered with a line for it.
TableInv == \A n \in DOMAIN functions : functions[n] \in LinesOf(prog, n)

ProgramInv ==
  /\ prog \in Seq(Lines)
  /\ \A i \in 1..Len(prog) : prog[i].kind \in HeadLines => prog[i].depth = 0
  /\ at \in Nat \ {0}

\* The first pass fills the table, the second relies on all of it, and neither
\* goes wrong without an error.
Inv ==
  /\ ProgramInv
  /\ TableInv
  /\ stage = "parse" => at = 1
  /\ stage = "register" => (~errors => Consistent(at))
  /\ stage = "validate" => (~errors => Consistent(Len(prog) + 1) /\ Checked(at))
  /\ Accepted => Consistent(Len(prog) + 1) /\ Checked(Len(prog) + 1)

----------------------------------------------------------------------------
LEMMA LengthsAreNumbers ==
  ASSUME ProgramInv
  PROVE  /\ Len(prog) \in Nat
         /\ \A i \in 1..Len(prog) : prog[i] \in Lines
BY DEF ProgramInv

\* The end of a body: all up to there is in it.
LEMMA EndOfBodySkipsTheBody ==
  ASSUME ProgramInv, NEW i \in 1..Len(prog)
  PROVE  /\ EndOfBody(prog, i) \in (i + 1)..(Len(prog) + 1)
         /\ \A k \in (i + 1)..(EndOfBody(prog, i) - 1) : prog[k].depth > 0
         /\ EndOfBody(prog, i) <= Len(prog) => prog[EndOfBody(prog, i)].depth = 0
<1> DEFINE S == {j \in (i + 1)..(Len(prog) + 1) : j <= Len(prog) => prog[j].depth = 0}
           IsEnd(j) == /\ j <= Len(prog) => prog[j].depth = 0
                       /\ \A k \in (i + 1)..(j - 1) : prog[k].depth > 0
<1>1. Len(prog) \in Nat /\ i \in Nat
  BY LengthsAreNumbers
<1>2. PICK m \in S : \A j \in S : m <= j
  <2>1. S \subseteq Nat /\ Len(prog) + 1 \in S
    BY <1>1
  <2> HIDE DEF S
  <2>2. S # {}
    BY <2>1
  <2> QED BY <2>1, <2>2, SmallestElement
<1>3. m \in (i + 1)..(Len(prog) + 1) /\ IsEnd(m)
  <2>1. ASSUME NEW k \in (i + 1)..(m - 1)  PROVE prog[k].depth > 0
    <3>1. k \in (i + 1)..Len(prog) /\ k \notin S
      BY <1>1, <1>2
    <3>2. prog[k].depth # 0
      BY <1>1, <3>1
    <3>3. prog[k].depth \in {0, 1}
      BY <1>1, <3>1, LengthsAreNumbers DEF Lines
    <3> QED BY <3>2, <3>3
  <2> QED BY <1>1, <1>2, <2>1
<1>4. EndOfBody(prog, i) = CHOOSE j \in (i + 1)..(Len(prog) + 1) : IsEnd(j)
  BY DEF EndOfBody
<1> HIDE DEF IsEnd
<1>5. EndOfBody(prog, i) \in (i + 1)..(Len(prog) + 1) /\ IsEnd(EndOfBody(prog, i))
  BY <1>3, <1>4
<1> QED BY <1>5 DEF IsEnd

\* What the walks of the top level step over registers nothing.
LEMMA OnlyBodiesAreSkipped ==
  ASSUME ProgramInv, NEW i \in 1..Len(prog)
  PROVE  \A j \in 1..Len(prog) : j < EndOfBody(prog, i) /\ prog[j].kind \in HeadLines => j <= i
<1>1. /\ EndOfBody(prog, i) \in (i + 1)..(Len(prog) + 1)
      /\ \A k \in (i + 1)..(EndOfBody(prog, i) - 1) : prog[k].depth > 0
  BY EndOfBodySkipsTheBody
<1>2. SUFFICES ASSUME NEW j \in 1..Len(prog), j < EndOfBody(prog, i), j > i, prog[j].kind \in HeadLines
               PROVE  FALSE
  BY LengthsAreNumbers
<1>3. j \in (i + 1)..(EndOfBody(prog, i) - 1)
  <2>1. i \in Int /\ EndOfBody(prog, i) \in Int /\ j \in Int
    BY <1>1, LengthsAreNumbers
  <2>2. \A a, b, c \in Int : b < c /\ b > a => b \in (a + 1)..(c - 1)
    OBVIOUS
  <2> QED BY <1>2, <2>1, <2>2
<1>4. prog[j].depth > 0 /\ prog[j].depth = 0
  BY <1>1, <1>2, <1>3 DEF ProgramInv
<1> QED BY <1>4

\* One line registers, the others come along.
LEMMA RegisterKeeps ==
  ASSUME Inv, Register
  PROVE  Inv'
<1>1. /\ at \in 1..Len(prog) /\ prog' = prog /\ stage = "register" /\ stage' = "register"
      /\ Len(prog) \in Nat /\ Line = prog[at]
  BY LengthsAreNumbers DEF Register, Inv, ProgramInv, Line
<1>2. at' = EndOfBody(prog, at)
  BY DEF Register
<1>3. at' \in (at + 1)..(Len(prog) + 1) /\ \A k \in (at + 1)..(at' - 1) : prog[k].depth > 0
  BY <1>1, <1>2, EndOfBodySkipsTheBody DEF Inv
<1>4. ProgramInv'
  BY <1>1, <1>3 DEF Inv, ProgramInv
<1>5. \A j \in 1..Len(prog) : j < at' /\ prog[j].kind \in HeadLines => j <= at
  BY <1>1, <1>2, OnlyBodiesAreSkipped DEF Inv
<1>6. TableInv' /\ (~errors' => Consistent(at)')
  <2>1. CASE Line.kind = "call" /\ Report(WrongCall(Line)) /\ UNCHANGED functions
    <3>1. Line.kind \notin HeadLines
      BY <2>1 DEF HeadLines
    <3>2. TableInv'
      BY <1>1, <2>1 DEF Inv, TableInv
    <3>3. ASSUME ~errors'  PROVE Consistent(at)'
      <4>1. Consistent(at)
        BY <1>1, <2>1, <3>3 DEF Inv, Report
      <4>2. \A j \in 1..Len(prog) : j < at' /\ prog[j].kind \in HeadLines => j < at
        BY <1>1, <1>5, <3>1
      <4> QED BY <1>1, <2>1, <4>1, <4>2 DEF Consistent, Known, Registered
    <3> QED BY <3>2, <3>3
  <2>2. CASE Line.kind \in HeadLines /\ Known(Line.fn) /\ UNCHANGED functions
             /\ Report(\/ Mismatch(Registered(Line.fn), Line)
                       \/ Registered(Line.fn).kind = "define" /\ Line.kind = "define")
    <3>1. TableInv'
      BY <1>1, <2>2 DEF Inv, TableInv
    <3>2. ASSUME ~errors'  PROVE Consistent(at)'
      <4>1. ~errors /\ ~Mismatch(Registered(Line.fn), Line)
        BY <2>2, <3>2 DEF Report
      <4>2. Consistent(at)
        BY <1>1, <4>1 DEF Inv
      <4>3. \A j \in 1..Len(prog) : j < at' /\ prog[j].kind \in HeadLines => j < at \/ j = at
        BY <1>1, <1>5
      <4> QED BY <1>1, <2>2, <4>1, <4>2, <4>3 DEF Consistent, Known, Registered
    <3> QED BY <3>1, <3>2
  <2>3. CASE /\ Line.kind \in HeadLines /\ ~Known(Line.fn) /\ UNCHANGED errors
             /\ functions' = [n \in DOMAIN functions \cup {Line.fn} |->
                                IF n = Line.fn THEN at ELSE functions[n]]
    <3>1. /\ DOMAIN functions' = DOMAIN functions \cup {Line.fn}
          /\ functions'[Line.fn] = at
          /\ \A n \in DOMAIN functions : functions'[n] = functions[n]
      BY <2>3 DEF Known
    <3>2. TableInv'
      BY <1>1, <2>3, <3>1 DEF Inv, TableInv, LinesOf
    <3>3. ASSUME ~errors'  PROVE Consistent(at)'
      <4>1. Consistent(at)
        BY <1>1, <2>3, <3>3 DEF Inv
      <4>2. ASSUME NEW j \in 1..Len(prog), j < at', prog[j].kind \in HeadLines
            PROVE  /\ prog[j].fn \in DOMAIN functions'
                   /\ ~Mismatch(prog[functions'[prog[j].fn]], prog[j])
        <5>1. CASE j < at
          BY <3>1, <4>1, <4>2, <5>1 DEF Consistent, Known, Registered
        <5>2. CASE j = at
          BY <1>1, <3>1, <5>2 DEF Mismatch
        <5> QED BY <1>1, <1>5, <4>2, <5>1, <5>2
      <4> QED BY <1>1, <4>2 DEF Consistent, Known, Registered
    <3> QED BY <3>2, <3>3
  <2> QED BY <2>1, <2>2, <2>3 DEF Register, register_function
<1> QED BY <1>1, <1>4, <1>6 DEF Inv, Accepted

\* A line of the second pass.
LEMMA ValidateKeeps ==
  ASSUME Inv, Validate
  PROVE  Inv'
<1>1. /\ at \in 1..Len(prog) /\ prog' = prog /\ stage = "validate" /\ stage' = "validate"
      /\ functions' = functions /\ at' = at + 1 /\ Len(prog) \in Nat /\ Line = prog[at]
  BY LengthsAreNumbers DEF Validate, Inv, ProgramInv, Line
<1>2. ProgramInv' /\ TableInv'
  BY <1>1 DEF Inv, ProgramInv, TableInv
<1>3. ASSUME ~errors'
      PROVE  Consistent(Len(prog) + 1)' /\ Checked(at)'
  <2>1. ~errors /\ (Line.kind \in {"value", "while"} => ~WrongCall(Line))
    <3>1. CASE check_value
      BY <1>3, <3>1, Zenon DEF check_value, Report
    <3>2. CASE check_condition
      BY <1>3, <3>2, Zenon DEF check_condition, Report
    <3>3. CASE check_return_statement
      <4>1. ~errors
        BY <1>3, <3>3, Zenon DEF check_return_statement, Report
      <4>2. Line.kind = "return"
        BY <3>3, Zenon DEF check_return_statement
      <4> QED BY <4>1, <4>2
    <3>4. CASE Line.kind \in HeadLines \cup {"call"} /\ UNCHANGED errors
      BY <1>3, <3>4 DEF HeadLines
    <3> QED BY <3>1, <3>2, <3>3, <3>4 DEF Validate
  <2>2. Consistent(Len(prog) + 1) /\ Checked(at)
    BY <1>1, <2>1 DEF Inv
  <2>3. Consistent(Len(prog) + 1)'
    BY <1>1, <2>2 DEF Consistent, Known, Registered
  <2>4. Line.kind \in {"value", "while"} => Known(Line.fn) /\ CountFits(Registered(Line.fn), Line)
    BY <2>1 DEF WrongCall
  <2>5. \A i \in 1..Len(prog) : i < at' => i < at \/ i = at
    BY <1>1
  <2> QED BY <1>1, <2>2, <2>3, <2>4, <2>5 DEF Checked, Known, Registered
<1> QED BY <1>1, <1>2, <1>3 DEF Inv, Accepted

\* The passes follow one another; with an error counted the last one does not.
LEMMA NextPassKeeps ==
  ASSUME Inv, NextPass
  PROVE  Inv'
<1>1. prog' = prog /\ functions' = functions /\ errors' = errors /\ at' = 1 /\ Len(prog) \in Nat
  BY LengthsAreNumbers DEF NextPass, Inv
<1>2. ProgramInv' /\ TableInv'
  BY <1>1 DEF Inv, ProgramInv, TableInv
<1>3. stage # "parse" => \A i \in 1..Len(prog) : i < at
  BY <1>1 DEF NextPass, Inv, ProgramInv
<1>4. CASE stage = "parse"
  <2>1. stage' = "register"
    BY <1>4 DEF NextPass
  <2>2. Consistent(at)'
    BY <1>1 DEF Consistent
  <2> QED BY <1>1, <1>2, <2>1, <2>2 DEF Inv, Accepted
<1>5. CASE stage = "register"
  <2>1. stage' = "validate"
    BY <1>5 DEF NextPass
  <2>2. ASSUME ~errors'  PROVE Consistent(Len(prog) + 1)' /\ Checked(at)'
    <3>1. Consistent(at)
      BY <1>1, <1>5, <2>2 DEF Inv
    <3> QED BY <1>1, <1>3, <1>5, <3>1 DEF Consistent, Checked, Known, Registered
  <2> QED BY <1>2, <2>1, <2>2 DEF Inv, Accepted
<1>6. CASE stage = "validate"
  <2>1. stage' = IF errors THEN "rejected" ELSE "generate"
    BY <1>6 DEF NextPass
  <2>2. ASSUME ~errors  PROVE Consistent(Len(prog) + 1)' /\ Checked(Len(prog) + 1)'
    <3>1. Consistent(Len(prog) + 1) /\ Checked(at)
      BY <1>6, <2>2 DEF Inv
    <3> QED BY <1>1, <1>3, <1>6, <3>1 DEF Consistent, Checked, Known, Registered
  <2> QED BY <1>2, <2>1, <2>2 DEF Inv, Accepted
<1>7. CASE stage = "generate"
  <2>1. stage' = "generated"
    BY <1>7 DEF NextPass
  <2>2. Consistent(Len(prog) + 1)' /\ Checked(Len(prog) + 1)'
    BY <1>1, <1>7 DEF Inv, Accepted, Consistent, Checked, Known, Registered
  <2> QED BY <1>2, <2>1, <2>2 DEF Inv, Accepted
<1> QED BY <1>4, <1>5, <1>6, <1>7 DEF NextPass

\* A line more, of those the parser makes.
LEMMA ParseKeeps ==
  ASSUME Inv, Parse
  PROVE  Inv'
<1>1. PICK line \in Lines : prog' = Append(prog, line) /\ (line.kind \in HeadLines => line.depth = 0)
  BY CallsAssumption DEF Parse
<1>2. at' = at /\ functions' = functions /\ stage = "parse" /\ stage' = "parse"
  BY DEF Parse
<1>3. prog \in Seq(Lines) /\ Len(prog) \in Nat
  BY LengthsAreNumbers DEF Inv, ProgramInv
<1>4. /\ prog' \in Seq(Lines) /\ Len(prog') = Len(prog) + 1
      /\ prog'[Len(prog) + 1] = line
      /\ \A i \in 1..Len(prog) : prog'[i] = prog[i]
  BY <1>1, <1>3
<1>5. ProgramInv'
  BY <1>1, <1>2, <1>3, <1>4 DEF Inv, ProgramInv
<1>6. TableInv'
  BY <1>2, <1>3, <1>4 DEF Inv, TableInv, LinesOf
<1> QED BY <1>2, <1>5, <1>6 DEF Inv, Accepted

\* Generation does not touch what the passes have left.
LEMMA GenerationKeeps ==
  ASSUME Inv, fn_declare \/ fn_define \/ EndFn \/ fn_call \/ fn_return
  PROVE  Inv'
<1>1. /\ prog' = prog /\ functions' = functions /\ errors' = errors
      /\ stage = "generate" /\ stage' = "generate"
  BY DEF fn_declare, fn_define, EndFn, fn_call, fn_return, Generating
<1>2. at' \in Nat \ {0}
  <2>1. CASE EndFn
    BY <2>1 DEF EndFn, Inv, ProgramInv
  <2>2. CASE fn_return
    <3>1. at \in 1..Len(prog) /\ Len(prog) \in Nat
      BY <2>2, LengthsAreNumbers DEF fn_return, Generating, Inv, ProgramInv
    <3>2. at' = EndOfBody(prog, at)
      BY <2>2 DEF fn_return
    <3>3. at' \in (at + 1)..(Len(prog) + 1)
      BY <3>1, <3>2, EndOfBodySkipsTheBody DEF Inv
    <3> QED BY <3>1, <3>3
  <2>3. CASE fn_declare \/ fn_define \/ fn_call
    BY <2>3 DEF fn_declare, fn_define, fn_call, Inv, ProgramInv
  <2> QED BY <2>1, <2>2, <2>3
<1>3. ProgramInv' /\ TableInv'
  BY <1>1, <1>2 DEF Inv, ProgramInv, TableInv
<1>4. Consistent(Len(prog) + 1)' /\ Checked(Len(prog) + 1)'
  BY <1>1 DEF Inv, Accepted, Consistent, Checked, Known, Registered
<1> QED BY <1>1, <1>3, <1>4 DEF Inv

\* The invariant holds throughout: the passes of check_semantics and the walk of
\* the generator keep it.
THEOREM Invariance == Spec => []Inv
<1>1. Init => Inv
  BY DEF Init, Inv, ProgramInv, TableInv, Accepted
<1>2. Inv /\ [Next]_cvars => Inv'
  <2>1. SUFFICES ASSUME Inv, [Next]_cvars  PROVE Inv'
    OBVIOUS
  <2>2. CASE UNCHANGED cvars
    BY <2>1, <2>2 DEF Inv, ProgramInv, TableInv, Accepted, Consistent, Checked, Known, Registered, cvars
  <2> QED BY <2>1, <2>2, ParseKeeps, NextPassKeeps, RegisterKeeps, ValidateKeeps, GenerationKeeps DEF Next
<1> QED BY <1>1, <1>2, PTL DEF Spec

\* The two passes of check_semantics over functions and bodies together: in an
\* accepted program a call whose value is used has the number of arguments of
\* every line that declares or defines its function, before it or after it.
THEOREM CallsAgreeTheorem == Spec => []CallsAgree
<1>1. Inv => CallsAgree
  <2>1. SUFFICES ASSUME Inv, Accepted, NEW i \in 1..Len(prog), prog[i].kind \in {"value", "while"}
                 PROVE  /\ LinesOf(prog, prog[i].fn) # {}
                        /\ \A j \in LinesOf(prog, prog[i].fn) : CountFits(prog[j], prog[i])
    BY DEF CallsAgree
  <2>2. Len(prog) \in Nat /\ Consistent(Len(prog) + 1) /\ Checked(Len(prog) + 1)
    BY <2>1, LengthsAreNumbers DEF Inv
  <2>3. Known(prog[i].fn) /\ CountFits(Registered(prog[i].fn), prog[i])
    BY <2>1, <2>2 DEF Checked
  <2>4. LinesOf(prog, prog[i].fn) # {}
    BY <2>1, <2>3 DEF Inv, TableInv, Known
  <2>5. ASSUME NEW j \in LinesOf(prog, prog[i].fn)  PROVE CountFits(prog[j], prog[i])
    <3>1. j \in 1..Len(prog) /\ prog[j].kind \in HeadLines /\ prog[j].fn = prog[i].fn
      BY DEF LinesOf
    <3>2. ~Mismatch(Registered(prog[i].fn), prog[j])
      BY <2>2, <3>1 DEF Consistent
    <3> QED BY <2>3, <3>2 DEF CountFits, Mismatch
  <2> QED BY <2>4, <2>5
<1> QED BY <1>1, Invariance, PTL
----------------------------------------------------------------------------
(* One body.                                                               *)

\* The words of the module: those of the program, and the generator's own.  (They
\* are strings like any other, which the provers do not know of a literal.)
Words == STRING \cup {"void", "int", "renamed"}
Instrs == [op : {"call", "compare", "ret"}, callee : Nat, types : Seq(Words)]
Bodies == [of : 1..Len(prog), code : Seq(Instrs)]
MFunctions == [name : Words, types : Seq(Words), result : Words, variadic : BOOLEAN, bodies : Seq(Bodies)]

\* The builder stands in the last of the bodies of a function of the module.
ModuleInv ==
  /\ module \in Seq(MFunctions)
  /\ here \in 0..Len(module)
  /\ here > 0 => module[here].bodies # <<>>

\* A name is registered with its first line;
Firsts == \A n \in DOMAIN functions : \A j \in LinesOf(prog, n) : functions[n] <= j

\* the names of the lines before n are registered;
AllKnown(n) == \A j \in 1..Len(prog) : j < n /\ prog[j].kind \in HeadLines => Known(prog[j].fn)

\* of the lines before n none is a definition that follows a definition registered.
OneDefinition(n) == \A j \in 1..Len(prog) :
  j < n /\ prog[j].kind = "define" /\ Known(prog[j].fn) /\ Registered(prog[j].fn).kind = "define" =>
    functions[prog[j].fn] = j

\* A function of the module is of a line that was reached, and a definition
\* reached has its function;
Generated(n) ==
  /\ \A i \in 1..Len(module) : module[i].name # "renamed" =>
       \E j \in LinesOf(prog, module[i].name) : j < n
  /\ \A j \in 1..Len(prog) : j < n /\ prog[j].kind = "define" => InModule(prog[j].fn) # {}

\* and if its first line is a definition it has one body.
OneBodyEach == \A i \in 1..Len(module) :
  module[i].name # "renamed" =>
    /\ Known(module[i].name)
    /\ Registered(module[i].name).kind = "define" => Len(module[i].bodies) = 1

BodiesInv ==
  /\ Inv
  /\ ModuleInv
  /\ Firsts
  /\ stage = "parse" => DOMAIN functions = {}
  /\ stage = "register" => AllKnown(at) /\ (~errors => OneDefinition(at))
  /\ stage = "validate" => AllKnown(Len(prog) + 1) /\ (~errors => OneDefinition(Len(prog) + 1))
  /\ stage \in {"parse", "register", "validate"} => module = <<>> /\ here = 0
  /\ Accepted => AllKnown(Len(prog) + 1) /\ OneDefinition(Len(prog) + 1) /\ OneBodyEach
  /\ stage = "generate" => Generated(at)

\* A function registered with a line has it as the first one.
LEMMA RegisteredIsFirst ==
  ASSUME ProgramInv, TableInv, Firsts, NEW n \in DOMAIN functions
  PROVE  functions[n] = First(prog, n)
<1> DEFINE IsFirst(j) == \A k \in LinesOf(prog, n) : j <= k
<1>1. functions[n] \in LinesOf(prog, n) /\ IsFirst(functions[n])
  BY DEF TableInv, Firsts
<1>2. LinesOf(prog, n) \subseteq Nat
  BY LengthsAreNumbers DEF LinesOf
<1>3. \A j, k \in LinesOf(prog, n) : IsFirst(j) /\ IsFirst(k) => j = k
  BY <1>2
<1>4. First(prog, n) = CHOOSE j \in LinesOf(prog, n) : IsFirst(j)
  BY DEF First
<1> HIDE DEF IsFirst
<1> QED BY <1>1, <1>3, <1>4

\* The first pass meets the lines of a name in order.
LEMMA RegisterBodies ==
  ASSUME BodiesInv, Register
  PROVE  BodiesInv'
<1>1. /\ at \in 1..Len(prog) /\ prog' = prog /\ stage = "register" /\ stage' = "register"
      /\ Len(prog) \in Nat /\ Line = prog[at] /\ at' = EndOfBody(prog, at)
      /\ module' = module /\ here' = here /\ prog \in Seq(Lines)
  BY LengthsAreNumbers DEF Register, BodiesInv, Inv, ProgramInv, Line
<1>2. Inv'
  BY RegisterKeeps DEF BodiesInv
<1>3. \A j \in 1..Len(prog) : j < at' /\ prog[j].kind \in HeadLines => j < at \/ j = at
  BY <1>1, OnlyBodiesAreSkipped DEF BodiesInv, Inv
<1>4. "define" \in HeadLines
  BY DEF HeadLines
<1>5. Firsts /\ AllKnown(at) /\ (~errors => OneDefinition(at)) /\ module = <<>> /\ here = 0
  BY <1>1 DEF BodiesInv
<1>6. Firsts' /\ AllKnown(at)' /\ (~errors' => OneDefinition(at)')
  <2>1. CASE Line.kind = "call" /\ Report(WrongCall(Line)) /\ UNCHANGED functions
    <3>1. \A j \in 1..Len(prog) : j < at' /\ prog[j].kind \in HeadLines => j < at
      BY <1>1, <1>3, <2>1 DEF HeadLines
    <3>2. Firsts' /\ AllKnown(at)'
      BY <1>1, <1>5, <2>1, <3>1 DEF Firsts, AllKnown, Known
    <3>3. ASSUME ~errors'  PROVE OneDefinition(at)'
      <4>1. OneDefinition(at)
        BY <1>5, <2>1, <3>3 DEF Report
      <4> QED BY <1>1, <1>4, <2>1, <3>1, <4>1 DEF OneDefinition, Known, Registered
    <3> QED BY <3>2, <3>3
  <2>2. CASE Line.kind \in HeadLines /\ Known(Line.fn) /\ UNCHANGED functions
             /\ Report(\/ Mismatch(Registered(Line.fn), Line)
                       \/ Registered(Line.fn).kind = "define" /\ Line.kind = "define")
    <3>1. Firsts' /\ AllKnown(at)'
      BY <1>1, <1>3, <1>5, <2>2 DEF Firsts, AllKnown, Known
    <3>2. ASSUME ~errors'  PROVE OneDefinition(at)'
      <4>1. OneDefinition(at) /\ ~(Registered(Line.fn).kind = "define" /\ Line.kind = "define")
        BY <1>5, <2>2, <3>2 DEF Report
      <4> QED BY <1>1, <1>3, <1>4, <2>2, <4>1 DEF OneDefinition, Known, Registered
    <3> QED BY <3>1, <3>2
  <2>3. CASE /\ Line.kind \in HeadLines /\ ~Known(Line.fn) /\ UNCHANGED errors
             /\ functions' = [n \in DOMAIN functions \cup {Line.fn} |->
                                IF n = Line.fn THEN at ELSE functions[n]]
    <3>1. /\ DOMAIN functions' = DOMAIN functions \cup {Line.fn}
          /\ functions'[Line.fn] = at
          /\ \A n \in DOMAIN functions : functions'[n] = functions[n] /\ n # Line.fn
      BY <2>3 DEF Known
    <3>2. \A j \in LinesOf(prog, Line.fn) : at <= j
      <4>1. ASSUME NEW j \in LinesOf(prog, Line.fn), j < at  PROVE FALSE
        BY <1>1, <1>5, <2>3, <4>1 DEF AllKnown, LinesOf
      <4>2. at \in Int /\ LinesOf(prog, Line.fn) \subseteq Int
        BY <1>1 DEF LinesOf
      <4> QED BY <4>1, <4>2
    <3>3. Firsts'
      BY <1>1, <1>5, <3>1, <3>2 DEF Firsts
    <3>4. AllKnown(at)'
      BY <1>1, <1>3, <1>5, <3>1 DEF AllKnown, Known
    <3>5. ASSUME ~errors'  PROVE OneDefinition(at)'
      <4>1. OneDefinition(at)
        BY <1>5, <2>3, <3>5
      <4>2. \A j \in 1..Len(prog) : j < at /\ prog[j].kind \in HeadLines =>
              prog[j].fn \in DOMAIN functions /\ functions'[prog[j].fn] = functions[prog[j].fn]
        BY <1>5, <3>1 DEF AllKnown, Known
      <4> QED BY <1>1, <1>3, <1>4, <3>1, <4>1, <4>2 DEF OneDefinition, Known, Registered
    <3> QED BY <3>3, <3>4, <3>5
  <2> QED BY <2>1, <2>2, <2>3 DEF Register, register_function
<1>7. ModuleInv'
  BY <1>1 DEF BodiesInv, ModuleInv
<1> QED BY <1>1, <1>2, <1>5, <1>6, <1>7 DEF BodiesInv, Accepted

\* The second pass registers nothing, and no more do the ends of the passes.
LEMMA PassesBodies ==
  ASSUME BodiesInv, Validate \/ NextPass
  PROVE  BodiesInv'
<1>1. /\ prog' = prog /\ functions' = functions /\ module' = module /\ here' = here
      /\ Len(prog) \in Nat /\ prog \in Seq(Lines) /\ at \in Nat
      /\ ~errors' => ~errors
  <2>1. Len(prog) \in Nat /\ prog \in Seq(Lines) /\ at \in Nat
    BY LengthsAreNumbers DEF BodiesInv, Inv, ProgramInv
  <2>2. CASE Validate
    <3>1. prog' = prog /\ functions' = functions /\ module' = module /\ here' = here
      BY <2>2 DEF Validate
    <3>2. ~errors' => ~errors
      BY <2>2, Zenon DEF Validate, Report, check_value, check_condition, check_return_statement
    <3> QED BY <2>1, <3>1, <3>2
  <2>3. CASE NextPass
    BY <2>1, <2>3 DEF NextPass
  <2> QED BY <2>2, <2>3
<1>2. Inv'
  BY ValidateKeeps, NextPassKeeps DEF BodiesInv
<1>3. ModuleInv' /\ Firsts'
  <2>1. MFunctions' = MFunctions
    BY <1>1 DEF MFunctions, Bodies
  <2> QED BY <1>1, <2>1 DEF BodiesInv, ModuleInv, Firsts
<1>4. \A n : /\ AllKnown(n) => AllKnown(n)'
             /\ OneDefinition(n) => OneDefinition(n)'
  BY <1>1 DEF AllKnown, OneDefinition, Known, Registered
<1>5. CASE Validate
  <2>1. stage = "validate" /\ stage' = "validate"
    BY <1>5 DEF Validate
  <2> QED BY <1>1, <1>2, <1>3, <1>4, <2>1 DEF BodiesInv, Accepted
<1>6. CASE NextPass
  <2>1. at' = 1 /\ (stage # "parse" => \A j \in 1..Len(prog) : j < at)
    BY <1>1, <1>6 DEF NextPass
  <2>2. CASE stage = "parse"
    <3>1. stage' = "register"
      BY <1>6, <2>2 DEF NextPass
    <3>2. AllKnown(at)' /\ OneDefinition(at)'
      BY <1>1, <2>1 DEF AllKnown, OneDefinition
    <3> QED BY <1>1, <1>2, <1>3, <2>2, <3>1, <3>2 DEF BodiesInv, Accepted
  <2>3. CASE stage = "register"
    <3>1. stage' = "validate"
      BY <1>6, <2>3 DEF NextPass
    <3>2. AllKnown(at) => AllKnown(Len(prog) + 1)'
      BY <1>1, <2>1, <2>3 DEF AllKnown, Known
    <3>3. OneDefinition(at) => OneDefinition(Len(prog) + 1)'
      BY <1>1, <2>1, <2>3 DEF OneDefinition, Known, Registered
    <3> QED BY <1>1, <1>2, <1>3, <2>3, <3>1, <3>2, <3>3 DEF BodiesInv, Accepted
  <2>4. CASE stage = "validate"
    <3>1. stage' = IF errors THEN "rejected" ELSE "generate"
      BY <1>6, <2>4 DEF NextPass
    <3>2. module = <<>> /\ here = 0
      BY <2>4 DEF BodiesInv
    <3>3. OneBodyEach' /\ Generated(at)'
      BY <1>1, <2>1, <3>2 DEF OneBodyEach, Generated
    <3> QED BY <1>1, <1>2, <1>3, <1>4, <2>4, <3>1, <3>3 DEF BodiesInv, Accepted
  <2>5. CASE stage = "generate"
    <3>1. stage' = "generated"
      BY <1>6, <2>5 DEF NextPass
    <3>2. OneBodyEach'
      BY <1>1, <2>5 DEF BodiesInv, Accepted, OneBodyEach, Known, Registered
    <3> QED BY <1>1, <1>2, <1>3, <1>4, <2>5, <3>1, <3>2 DEF BodiesInv, Accepted
  <2> QED BY <1>6, <2>2, <2>3, <2>4, <2>5 DEF NextPass
<1> QED BY <1>5, <1>6

LEMMA ParseBodies ==
  ASSUME BodiesInv, Parse
  PROVE  BodiesInv'
<1>1. /\ stage = "parse" /\ stage' = "parse" /\ functions' = functions
      /\ module' = module /\ here' = here
  BY DEF Parse
<1>2. DOMAIN functions = {} /\ module = <<>> /\ here = 0
  BY <1>1 DEF BodiesInv
<1>3. Firsts' /\ ModuleInv'
  BY <1>1, <1>2 DEF Firsts, ModuleInv, BodiesInv
<1> QED BY <1>1, <1>2, <1>3, ParseKeeps DEF BodiesInv, Accepted

\* The words of a line, and the type of a function or of a return.
LEMMA LineWords ==
  ASSUME NEW line \in Lines
  PROVE  /\ line.fn \in Words
         /\ line.types \in Seq(Words) /\ Void(line.types) \in Words
         /\ line.result \in Seq(Words) /\ Void(line.result) \in Words
         /\ line.variadic \in BOOLEAN
<1>1. ASSUME NEW S, NEW T, S \subseteq T, NEW s \in Seq(S)
      PROVE  s \in Seq(T) /\ (s # <<>> => s[1] \in T)
  BY <1>1
<1>2. line.types \in Seq(STRING) /\ line.result \in Seq(STRING) /\ line.variadic \in BOOLEAN
  BY DEF Lines
<1>3. line.fn \in STRING
  BY DEF Lines
<1>4. STRING \subseteq Words /\ "void" \in Words
  BY Zenon DEF Words
<1>5. line.types \in Seq(Words) /\ (line.types # <<>> => line.types[1] \in Words)
  BY <1>1, <1>2, <1>4, Zenon
<1>6. line.result \in Seq(Words) /\ (line.result # <<>> => line.result[1] \in Words)
  BY <1>1, <1>2, <1>4, Zenon
<1>7. Void(line.types) \in Words /\ Void(line.result) \in Words
  BY <1>4, <1>5, <1>6 DEF Void
<1>8. line.fn \in Words
  BY <1>3, <1>4, Zenon
<1> QED BY <1>2, <1>5, <1>6, <1>7, <1>8

\* A function of the module, and one with other bodies.
LEMMA FunctionOf ==
  ASSUME NEW f \in MFunctions, NEW bodies \in Seq(Bodies)
  PROVE  /\ f.bodies \in Seq(Bodies) /\ f.name \in Words /\ f.result \in Words
         /\ [f EXCEPT !.bodies = bodies] \in MFunctions
         /\ [f EXCEPT !.bodies = bodies].name = f.name
         /\ [f EXCEPT !.bodies = bodies].bodies = bodies
BY DEF MFunctions

\* A function created for a line has its name, if that is free.
LEMMA CreateNames ==
  ASSUME NEW line \in Lines
  PROVE  /\ Create(line) \in MFunctions
         /\ Create(line).name = IF InModule(line.fn) = {} THEN line.fn ELSE "renamed"
<1> DEFINE name == IF \E i \in 1..Len(module) : module[i].name = line.fn THEN "renamed" ELSE line.fn
<1>1. ASSUME NEW n \in Words, NEW ts \in Seq(Words), NEW r \in Words, NEW v \in BOOLEAN, NEW bs \in Seq(Bodies)
      PROVE  [name |-> n, types |-> ts, result |-> r, variadic |-> v, bodies |-> bs] \in MFunctions
  BY <1>1 DEF MFunctions
<1>2. "renamed" \in Words
  BY DEF Words
<1>3. name \in Words
  BY <1>2, LineWords
<1>4. Create(line) = [name |-> name, types |-> line.types, result |-> Void(line.result),
                      variadic |-> line.variadic, bodies |-> <<>>]
  BY DEF Create
<1>5. name = IF InModule(line.fn) = {} THEN line.fn ELSE "renamed"
  BY DEF InModule
<1>6. <<>> \in Seq(Bodies)
  OBVIOUS
<1> HIDE DEF name
<1>7. Create(line) \in MFunctions
  <2>1. line.types \in Seq(Words) /\ Void(line.result) \in Words /\ line.variadic \in BOOLEAN
    BY LineWords
  <2> QED BY <1>1, <1>3, <1>4, <1>6, <2>1
<1>8. Create(line).name = name
  BY <1>4
<1> QED BY <1>5, <1>7, <1>8

\* An instruction more changes neither names nor the number of bodies.
LEMMA EmittedKeeps ==
  ASSUME ModuleInv, NEW instrs \in Seq(Instrs)
  PROVE  /\ Emitted(instrs) \in Seq(MFunctions)
         /\ Len(Emitted(instrs)) = Len(module)
         /\ \A i \in 1..Len(module) :
              /\ Emitted(instrs)[i].name = module[i].name
              /\ Len(Emitted(instrs)[i].bodies) = Len(module[i].bodies)
<1>1. module \in Seq(MFunctions) /\ Len(module) \in Nat /\ here \in 0..Len(module)
  BY DEF ModuleInv
<1>2. CASE here = 0
  BY <1>1, <1>2 DEF Emitted
<1>3. CASE here # 0
  <2> DEFINE f == module[here]
             n == Len(f.bodies)
             body == [f.bodies[n] EXCEPT !.code = @ \o instrs]
             g == [f EXCEPT !.bodies = [@ EXCEPT ![n] = body]]
  <2>1. here \in 1..Len(module) /\ f \in MFunctions /\ f.bodies # <<>>
    BY <1>1, <1>3 DEF ModuleInv
  <2>2. f.bodies \in Seq(Bodies) /\ n \in Nat /\ n \in 1..n
    BY <2>1 DEF MFunctions
  <2>3. body \in Bodies
    <3>1. f.bodies[n] \in Bodies
      BY <2>2
    <3>2. ASSUME NEW b \in Bodies  PROVE [b EXCEPT !.code = @ \o instrs] \in Bodies
      <4>1. b.code \in Seq(Instrs)
        BY <3>2 DEF Bodies
      <4>2. b.code \o instrs \in Seq(Instrs)
        BY <4>1
      <4> QED BY <3>2, <4>2 DEF Bodies
    <3> QED BY <3>1, <3>2
  <2>4. [f.bodies EXCEPT ![n] = body] \in Seq(Bodies) /\ Len([f.bodies EXCEPT ![n] = body]) = n
    <3> HIDE DEF body
    <3> QED BY <2>2, <2>3
  <2>5. g \in MFunctions /\ g.name = f.name /\ Len(g.bodies) = n
    <3> DEFINE bodies == [f.bodies EXCEPT ![n] = body]
    <3>1. bodies \in Seq(Bodies) /\ Len(bodies) = n
      BY <2>4
    <3>2. g = [f EXCEPT !.bodies = bodies]
      OBVIOUS
    <3> HIDE DEF bodies, f, g
    <3> QED BY <2>1, <3>1, <3>2, FunctionOf
  <2>6. Emitted(instrs) = [module EXCEPT ![here] = g]
    BY <1>3, Zenon DEF Emitted
  <2> HIDE DEF g
  <2> QED BY <1>1, <2>1, <2>5, <2>6
<1> QED BY <1>2, <1>3

\* What the steps of the generator that define nothing leave as it is.
LEMMA EmittingBodies ==
  ASSUME BodiesInv, stage = "generate", stage' = "generate", Inv', NEW instrs \in Seq(Instrs),
         module' \in {module, Emitted(instrs)}, UNCHANGED <<prog, functions, errors, here>>,
         at' >= at, \A j \in 1..Len(prog) : j < at' /\ prog[j].kind \in HeadLines => j < at
  PROVE  BodiesInv'
<1>1. /\ ModuleInv /\ Firsts /\ AllKnown(Len(prog) + 1) /\ OneDefinition(Len(prog) + 1)
      /\ OneBodyEach /\ Generated(at) /\ at \in Nat /\ at' \in Nat /\ Len(prog) \in Nat
  BY LengthsAreNumbers DEF BodiesInv, Accepted, Inv, ProgramInv
<1>2. /\ module' \in Seq(MFunctions)
      /\ Len(module') = Len(module)
      /\ \A i \in 1..Len(module) :
           module'[i].name = module[i].name /\ Len(module'[i].bodies) = Len(module[i].bodies)
  <2>1. CASE module' = module
    BY <1>1, <2>1 DEF ModuleInv
  <2>2. CASE module' = Emitted(instrs)
    BY <1>1, <2>2, EmittedKeeps
  <2> QED BY <2>1, <2>2
<1>3. ModuleInv'
  <2>1. here > 0 => here \in 1..Len(module)
    BY <1>1 DEF ModuleInv
  <2>2. here > 0 => module'[here].bodies # <<>>
    <3>1. SUFFICES ASSUME here > 0  PROVE module'[here].bodies # <<>>
      OBVIOUS
    <3>2. /\ module[here].bodies \in Seq(Bodies) /\ module[here].bodies # <<>>
          /\ module'[here].bodies \in Seq(Bodies)
      <4>1. module[here] \in MFunctions /\ module'[here] \in MFunctions
        BY <1>1, <1>2, <2>1, <3>1 DEF ModuleInv
      <4>2. \A f \in MFunctions : f.bodies \in Seq(Bodies)
        BY DEF MFunctions
      <4>3. module[here].bodies # <<>>
        BY <1>1, <3>1 DEF ModuleInv
      <4> QED BY <4>1, <4>2, <4>3
    <3>3. Len(module'[here].bodies) = Len(module[here].bodies)
      BY <1>2, <2>1, <3>1
    <3>4. \A s \in Seq(Bodies) : s # <<>> <=> Len(s) # 0
      OBVIOUS
    <3> QED BY <3>2, <3>3, <3>4
  <2>3. MFunctions' = MFunctions
    BY DEF MFunctions, Bodies
  <2> QED BY <1>1, <1>2, <2>2, <2>3 DEF ModuleInv
<1>4. Firsts' /\ AllKnown(Len(prog) + 1)' /\ OneDefinition(Len(prog) + 1)'
  BY <1>1 DEF Firsts, AllKnown, OneDefinition, Known, Registered
<1>5. OneBodyEach'
  BY <1>1, <1>2 DEF OneBodyEach, Known, Registered
<1>6. Generated(at)'
  <2>1. "define" \in HeadLines
    BY DEF HeadLines
  <2>2. \A n : InModule(n)' = InModule(n)
    BY <1>2 DEF InModule
  <2>3. \A j \in Nat : j < at => j < at'
    BY <1>1
  <2>4. \A n : LinesOf(prog, n) \subseteq Nat
    BY DEF LinesOf
  <2>5. \A i \in 1..Len(module)' : module'[i].name # "renamed" =>
          \E j \in LinesOf(prog, module'[i].name) : j < at'
    BY <1>1, <1>2, <2>3, <2>4 DEF Generated
  <2>6. \A j \in 1..Len(prog) : j < at' /\ prog[j].kind = "define" => InModule(prog[j].fn)' # {}
    BY <1>1, <2>1, <2>2 DEF Generated
  <2> QED BY <2>5, <2>6 DEF Generated
<1> QED BY <1>3, <1>4, <1>5, <1>6 DEF BodiesInv, Accepted

\* Calls and returns, and the return at the end of a body.
LEMMA InstructionBodies ==
  ASSUME BodiesInv, EndFn \/ fn_call \/ fn_return
  PROVE  BodiesInv'
<1>1. /\ stage = "generate" /\ stage' = "generate" /\ UNCHANGED <<prog, functions, errors, here>>
      /\ ModuleInv /\ prog \in Seq(Lines) /\ Len(prog) \in Nat /\ at \in Nat \ {0}
  BY LengthsAreNumbers DEF EndFn, fn_call, fn_return, Generating, BodiesInv, Inv, ProgramInv
<1>2. Inv'
  BY GenerationKeeps DEF BodiesInv
<1>3. "int" \in Words
  BY DEF Words
<1>4. at' >= at /\ \A j \in 1..Len(prog) : j < at' /\ prog[j].kind \in HeadLines => j < at
  <2>1. CASE EndFn
    BY <1>1, <2>1 DEF EndFn
  <2>2. CASE fn_call
    <3>1. at' = at + 1 /\ prog[at].kind \notin HeadLines
      BY <2>2 DEF fn_call, Line, HeadLines
    <3> QED BY <1>1, <3>1
  <2>3. CASE fn_return
    <3>1. at \in 1..Len(prog) /\ at' = EndOfBody(prog, at) /\ prog[at].kind \notin HeadLines
      BY <1>1, <2>3 DEF fn_return, Generating, Line, HeadLines
    <3>2. at' \in (at + 1)..(Len(prog) + 1)
      BY <3>1, EndOfBodySkipsTheBody DEF BodiesInv, Inv
    <3>3. \A j \in 1..Len(prog) : j < at' /\ prog[j].kind \in HeadLines => j <= at
      BY <3>1, OnlyBodiesAreSkipped DEF BodiesInv, Inv
    <3> QED BY <1>1, <3>1, <3>2, <3>3
  <2> QED BY <2>1, <2>2, <2>3
<1>5. PICK instrs \in Seq(Instrs) : module' \in {module, Emitted(instrs)}
  <2>1. CASE EndFn
    <3>1. here \in 1..Len(module) /\ module[here].bodies # <<>>
      BY <1>1, <2>1 DEF EndFn, Between, ModuleInv
    <3>2. module[here].bodies \in Seq(Bodies)
      <4>1. module[here] \in MFunctions
        BY <1>1, <3>1 DEF ModuleInv
      <4> QED BY <4>1 DEF MFunctions
    <3>3. Body(module[here]) \in Bodies
      BY <3>1, <3>2 DEF Body
    <3>4. Void(prog[Body(module[here]).of].result) \in Words
      BY <1>1, <3>3, LineWords DEF Bodies
    <3> DEFINE ret == Instr("ret", 0, <<Void(prog[Body(module[here]).of].result)>>)
    <3>5. ret \in Instrs
      BY <3>4 DEF Instr, Instrs
    <3>6. module' = Emitted(<<ret>>)
      BY <2>1 DEF EndFn
    <3> HIDE DEF ret
    <3>7. <<ret>> \in Seq(Instrs)
      BY <3>5
    <3> QED BY <3>6, <3>7
  <2>2. CASE fn_return
    <3> DEFINE ret == Instr("ret", 0, <<Void(Line.types)>>)
    <3>1. Void(Line.types) \in Words
      BY <1>1, <2>2, LineWords DEF fn_return, Generating, Line
    <3>2. ret \in Instrs
      BY <3>1 DEF Instr, Instrs
    <3>3. module' = Emitted(<<ret>>)
      BY <2>2 DEF fn_return
    <3> HIDE DEF ret
    <3>4. <<ret>> \in Seq(Instrs)
      BY <3>2
    <3> QED BY <3>3, <3>4
  <2>3. CASE fn_call /\ InModule(Line.fn) = {}
    <3>1. module' = module
      BY <2>3 DEF fn_call
    <3>2. <<>> \in Seq(Instrs)
      OBVIOUS
    <3> QED BY <3>1, <3>2
  <2>4. CASE fn_call /\ InModule(Line.fn) # {}
    <3>1. PICK callee \in InModule(Line.fn) : callee = CHOOSE i \in InModule(Line.fn) : TRUE
      BY <2>4
    <3> DEFINE call == Instr("call", callee, Line.types)
               compare == Instr("compare", 0, <<module[callee].result, "int">>)
    <3>2. callee \in 1..Len(module) /\ callee \in Nat
      BY <1>1, <3>1 DEF InModule, ModuleInv
    <3>3. Line.types \in Seq(Words)
      BY <1>1, <2>4, LineWords DEF fn_call, Generating, Line
    <3>4. module[callee] \in MFunctions
      BY <1>1, <3>2 DEF ModuleInv
    <3>5. <<module[callee].result, "int">> \in Seq(Words)
      BY <1>3, <3>4 DEF MFunctions
    <3>6. call \in Instrs
      BY <3>2, <3>3 DEF Instr, Instrs
    <3>7. compare \in Instrs
      BY <3>5 DEF Instr, Instrs
    <3>8. module' = Emitted(<<call>> \o (IF Line.kind = "while" THEN <<compare>> ELSE <<>>))
      BY <2>4, <3>1, Zenon DEF fn_call
    <3> HIDE DEF call, compare
    <3>9. <<call>> \o (IF Line.kind = "while" THEN <<compare>> ELSE <<>>) \in Seq(Instrs)
      BY <3>6, <3>7
    <3> QED BY <3>8, <3>9
  <2> QED BY <2>1, <2>2, <2>3, <2>4
<1> QED BY <1>1, <1>2, <1>4, <1>5, EmittingBodies

\* A prototype of a name that is taken is renamed: where a definition was the
\* first line for the name it is.
LEMMA DeclareBodies ==
  ASSUME BodiesInv, fn_declare
  PROVE  BodiesInv'
<1>1. /\ stage = "generate" /\ stage' = "generate" /\ UNCHANGED <<prog, functions, errors, here>>
      /\ at' = at + 1 /\ at \in 1..Len(prog) /\ Len(prog) \in Nat /\ prog \in Seq(Lines)
      /\ ModuleInv /\ Firsts /\ AllKnown(Len(prog) + 1) /\ OneDefinition(Len(prog) + 1)
      /\ OneBodyEach /\ Generated(at) /\ ProgramInv /\ TableInv
  BY LengthsAreNumbers DEF fn_declare, Generating, BodiesInv, Accepted, Inv, ProgramInv
<1>2. Inv'
  BY GenerationKeeps DEF BodiesInv
<1> DEFINE f == Create(Line)
           n == Len(module) + 1
<1>3. Line \in Lines /\ Line.kind = "prototype" /\ Line = prog[at] /\ Line.kind \in HeadLines
  BY <1>1 DEF fn_declare, Line, HeadLines
<1>4. f \in MFunctions /\ f.name \in {"renamed", Line.fn} /\ (InModule(Line.fn) # {} => f.name = "renamed")
  BY <1>3, CreateNames
<1>5. /\ module' \in Seq(MFunctions) /\ Len(module') = n /\ module'[n] = f
      /\ \A i \in 1..Len(module) : module'[i] = module[i]
      /\ Len(module) \in Nat
  <2>1. module' = Append(module, f)
    BY DEF fn_declare
  <2> HIDE DEF f
  <2> QED BY <1>1, <1>4, <2>1 DEF ModuleInv
<1> HIDE DEF f
<1>6. ModuleInv'
  <2>1. MFunctions' = MFunctions
    BY <1>1 DEF MFunctions, Bodies
  <2>2. here' = here /\ here \in 0..Len(module) /\ (here > 0 => module[here].bodies # <<>>)
    BY <1>1 DEF ModuleInv
  <2> QED BY <1>5, <2>1, <2>2 DEF ModuleInv
<1>7. Firsts' /\ AllKnown(Len(prog) + 1)' /\ OneDefinition(Len(prog) + 1)'
  BY <1>1 DEF Firsts, AllKnown, OneDefinition, Known, Registered
<1>8. OneBodyEach'
  <2>1. ASSUME f.name # "renamed", Registered(f.name).kind = "define", Known(f.name)  PROVE FALSE
    <3>1. f.name = Line.fn /\ InModule(Line.fn) = {}
      BY <1>4, <2>1
    <3>2. functions[Line.fn] \in LinesOf(prog, Line.fn) /\ functions[Line.fn] <= at
      BY <1>1, <1>3, <2>1, <3>1 DEF TableInv, Firsts, Known, LinesOf
    <3>3. functions[Line.fn] \in 1..Len(prog) /\ prog[functions[Line.fn]].kind = "define"
          /\ prog[functions[Line.fn]].fn = Line.fn
      BY <2>1, <3>1, <3>2 DEF LinesOf, Registered
    <3>4. functions[Line.fn] < at
      BY <1>1, <1>3, <3>2, <3>3
    <3> QED BY <1>1, <3>1, <3>3, <3>4 DEF Generated
  <2>2. Known(Line.fn)
    BY <1>1, <1>3 DEF AllKnown
  <2>3. OneBodyEach
    BY <1>1
  <2>4. ASSUME NEW i \in 1..Len(module'), module'[i].name # "renamed"
        PROVE  /\ Known(module'[i].name)
               /\ Registered(module'[i].name).kind = "define" => Len(module'[i].bodies) = 1
    <3>1. CASE i \in 1..Len(module)
      BY <1>5, <2>3, <2>4, <3>1 DEF OneBodyEach
    <3>2. CASE i = n
      BY <1>4, <1>5, <2>1, <2>2, <2>4, <3>2
    <3> QED BY <1>5, <3>1, <3>2
  <2> QED BY <1>1, <2>4 DEF OneBodyEach, Known, Registered
<1>9. Generated(at)'
  <2>1. ASSUME NEW i \in 1..Len(module'), module'[i].name # "renamed"
        PROVE  \E j \in LinesOf(prog, module'[i].name) : j < at'
    <3>1. CASE i \in 1..Len(module)
      <4>1. PICK j \in LinesOf(prog, module[i].name) : j < at
        BY <1>1, <1>5, <2>1, <3>1 DEF Generated
      <4> QED BY <1>1, <1>5, <3>1, <4>1 DEF LinesOf
    <3>2. CASE i = n
      BY <1>1, <1>3, <1>4, <1>5, <2>1, <3>2 DEF LinesOf
    <3> QED BY <1>5, <2>1, <3>1, <3>2
  <2>2. \A m : InModule(m) \subseteq InModule(m)'
    BY <1>5 DEF InModule
  <2>3. \A j \in 1..Len(prog) : j < at' /\ prog[j].kind = "define" => j < at
    BY <1>1, <1>3
  <2> QED BY <1>1, <2>1, <2>2, <2>3 DEF Generated
<1> QED BY <1>1, <1>2, <1>6, <1>7, <1>8, <1>9 DEF BodiesInv, Accepted

\* A definition whose name is taken adds a body to that function: but then the
\* first line for the name is not a definition.
LEMMA DefineBodies ==
  ASSUME BodiesInv, fn_define
  PROVE  BodiesInv'
<1>1. /\ stage = "generate" /\ stage' = "generate" /\ UNCHANGED <<prog, functions, errors>>
      /\ at' = at + 1 /\ at \in 1..Len(prog) /\ Len(prog) \in Nat /\ prog \in Seq(Lines)
      /\ ModuleInv /\ Firsts /\ AllKnown(Len(prog) + 1) /\ OneDefinition(Len(prog) + 1)
      /\ OneBodyEach /\ Generated(at) /\ ProgramInv /\ TableInv
  BY LengthsAreNumbers DEF fn_define, Generating, BodiesInv, Accepted, Inv, ProgramInv
<1>2. Inv'
  BY GenerationKeeps DEF BodiesInv
<1> DEFINE body == [of |-> at, code |-> <<>>]
<1>3. Line \in Lines /\ Line.kind = "define" /\ Line = prog[at] /\ Line.kind \in HeadLines
  BY <1>1 DEF fn_define, Line, HeadLines
<1>4. body \in Bodies
  BY <1>1 DEF Bodies
<1>5. Firsts' /\ AllKnown(Len(prog) + 1)' /\ OneDefinition(Len(prog) + 1)' /\ Bodies' = Bodies
  BY <1>1 DEF Firsts, AllKnown, OneDefinition, Known, Registered, Bodies
<1>6. MFunctions' = MFunctions /\ Len(module) \in Nat /\ module \in Seq(MFunctions)
  BY <1>1, <1>5 DEF MFunctions, ModuleInv
<1>7. CASE InModule(Line.fn) = {}
  <2> DEFINE f == [Create(Line) EXCEPT !.bodies = <<body>>]
             n == Len(module) + 1
  <2>1. f \in MFunctions /\ f.name = Line.fn /\ f.bodies = <<body>>
    <3>1. <<body>> \in Seq(Bodies)
      BY <1>4
    <3>2. Create(Line) \in MFunctions /\ Create(Line).name = Line.fn
      BY <1>3, <1>7, CreateNames
    <3> HIDE DEF body
    <3> QED BY <3>1, <3>2, FunctionOf
  <2>2. here' = n /\ module' = Append(module, f)
    BY <1>7, Zenon DEF fn_define
  <2>3. Len(f.bodies) = 1 /\ f.bodies # <<>>
    <3> HIDE DEF body
    <3> QED BY <2>1
  <2> HIDE DEF f
  <2>4. /\ module' \in Seq(MFunctions) /\ Len(module') = n /\ module'[n] = f
        /\ \A i \in 1..Len(module) : module'[i] = module[i]
    BY <1>6, <2>1, <2>2
  <2>5. ModuleInv'
    BY <1>6, <2>2, <2>3, <2>4 DEF ModuleInv
  <2>6. OneBodyEach'
    <3>1. Known(Line.fn)
      BY <1>1, <1>3 DEF AllKnown
    <3>2. OneBodyEach
      BY <1>1
    <3>3. ASSUME NEW i \in 1..Len(module'), module'[i].name # "renamed"
          PROVE  /\ Known(module'[i].name)
                 /\ Registered(module'[i].name).kind = "define" => Len(module'[i].bodies) = 1
      <4>1. CASE i \in 1..Len(module)
        BY <2>4, <3>2, <3>3, <4>1 DEF OneBodyEach
      <4>2. CASE i = n
        BY <2>1, <2>3, <2>4, <3>1, <4>2
      <4> QED BY <1>6, <2>4, <3>3, <4>1, <4>2
    <3> QED BY <1>1, <3>3 DEF OneBodyEach, Known, Registered
  <2>7. Generated(at)'
    <3>1. ASSUME NEW i \in 1..Len(module'), module'[i].name # "renamed"
          PROVE  \E j \in LinesOf(prog, module'[i].name) : j < at'
      <4>1. CASE i \in 1..Len(module)
        <5>1. PICK j \in LinesOf(prog, module[i].name) : j < at
          BY <1>1, <2>4, <3>1, <4>1 DEF Generated
        <5>2. j \in Nat /\ at \in Nat /\ at' = at + 1 /\ module'[i] = module[i]
          BY <1>1, <2>4, <4>1, <5>1 DEF LinesOf
        <5>3. j < at'
          BY ONLY <5>1, <5>2
        <5> QED BY <5>1, <5>2, <5>3
      <4>2. CASE i = n
        BY <1>1, <1>3, <2>1, <2>4, <4>2 DEF LinesOf
      <4> QED BY <1>6, <2>4, <3>1, <4>1, <4>2
    <3>2. \A m : InModule(m) \subseteq InModule(m)'
      BY <1>6, <2>4 DEF InModule
    <3>3. \A m : m = prog[at].fn => InModule(m)' # {}
      BY <1>3, <1>6, <2>1, <2>4 DEF InModule
    <3>4. \A j \in 1..Len(prog) : j < at' => j < at \/ j = at
      BY <1>1
    <3> QED BY <1>1, <3>1, <3>2, <3>3, <3>4 DEF Generated
  <2> QED BY <1>1, <1>2, <1>5, <2>5, <2>6, <2>7 DEF BodiesInv, Accepted
<1>8. CASE InModule(Line.fn) # {}
  <2> DEFINE f == module[here']
             g == [f EXCEPT !.bodies = Append(@, body)]
  <2>1. here' \in 1..Len(module) /\ f.name = Line.fn /\ f \in MFunctions
    <3>1. here' = CHOOSE i \in InModule(Line.fn) : TRUE
      BY <1>8, Zenon DEF fn_define
    <3> QED BY <1>6, <1>8, <3>1 DEF InModule
  <2>2. module' = [module EXCEPT ![here'] = g]
    BY <1>8, Zenon DEF fn_define
  <2>3. g \in MFunctions /\ g.name = Line.fn /\ g.bodies # <<>>
    <3>1. f.bodies \in Seq(Bodies)
      BY <2>1 DEF MFunctions
    <3>2. Append(f.bodies, body) \in Seq(Bodies) /\ Append(f.bodies, body) # <<>>
      <4> HIDE DEF body
      <4> QED BY <1>4, <3>1
    <3> DEFINE bodies == Append(f.bodies, body)
    <3>3. g = [f EXCEPT !.bodies = bodies] /\ bodies \in Seq(Bodies) /\ bodies # <<>>
      BY <3>2
    <3> HIDE DEF body, bodies, f, g
    <3> QED BY <2>1, <3>3, FunctionOf
  <2> HIDE DEF g
  <2>4. /\ module' \in Seq(MFunctions) /\ Len(module') = Len(module) /\ module'[here'] = g
        /\ \A i \in 1..Len(module) : module'[i].name = module[i].name
        /\ \A i \in 1..Len(module) : i # here' => module'[i] = module[i]
    BY <1>6, <2>1, <2>2, <2>3
  <2>5. ModuleInv'
    BY <1>6, <2>1, <2>3, <2>4 DEF ModuleInv
  <2>6. ASSUME Line.fn # "renamed", Known(Line.fn), Registered(Line.fn).kind = "define"  PROVE FALSE
    <3>1. PICK j \in LinesOf(prog, Line.fn) : j < at
      BY <1>1, <2>1, <2>6 DEF Generated
    <3>2. functions[Line.fn] = at
      BY <1>1, <1>3, <2>6 DEF OneDefinition
    <3>3. functions[Line.fn] <= j
      BY <1>1, <2>6 DEF Firsts, Known
    <3> QED BY <1>1, <3>1, <3>2, <3>3 DEF LinesOf
  <2>7. OneBodyEach'
    BY <1>1, <2>1, <2>4, <2>6 DEF OneBodyEach, Known, Registered
  <2>8. Generated(at)'
    <3>1. ASSUME NEW i \in 1..Len(module'), module'[i].name # "renamed"
          PROVE  \E j \in LinesOf(prog, module'[i].name) : j < at'
      <4>1. PICK j \in LinesOf(prog, module[i].name) : j < at
        BY <1>1, <2>4, <3>1 DEF Generated
      <4> QED BY <1>1, <2>4, <3>1, <4>1 DEF LinesOf
    <3>2. \A m : InModule(m) = InModule(m)'
      BY <2>4 DEF InModule
    <3>3. \A j \in 1..Len(prog) : j < at' => j < at \/ j = at
      BY <1>1
    <3> QED BY <1>1, <1>3, <1>8, <3>1, <3>2, <3>3 DEF Generated
  <2> QED BY <1>1, <1>2, <1>5, <2>5, <2>7, <2>8 DEF BodiesInv, Accepted
<1> QED BY <1>7, <1>8

\* The invariant holds throughout: both passes and all of the generator keep it.
THEOREM BodiesInvariance == Spec => []BodiesInv
<1>1. Init => BodiesInv
  <2>1. Init => Inv
    BY DEF Init, Inv, ProgramInv, TableInv, Accepted
  <2> QED BY <2>1 DEF Init, BodiesInv, ModuleInv, Firsts, Accepted
<1>2. BodiesInv /\ [Next]_cvars => BodiesInv'
  <2>1. SUFFICES ASSUME BodiesInv, [Next]_cvars  PROVE BodiesInv'
    OBVIOUS
  <2>2. CASE UNCHANGED cvars
    <3>1. Inv'
      BY <2>1, <2>2 DEF BodiesInv, Inv, ProgramInv, TableInv, Accepted, Consistent, Checked, Known, Registered, cvars
    <3> QED BY <2>1, <2>2, <3>1
        DEF BodiesInv, ModuleInv, MFunctions, Bodies, Firsts, AllKnown, OneDefinition, Generated, OneBodyEach,
            Accepted, Known, Registered, InModule, cvars
  <2> QED BY <2>1, <2>2, ParseBodies, PassesBodies, RegisterBodies, InstructionBodies,
             DeclareBodies, DefineBodies DEF Next
<1> QED BY <1>1, <1>2, PTL DEF Spec

\* What register_function does with the lines of one name, and what the
\* generator makes of them: in the module of an accepted program a function
\* whose first line in the file is a definition has exactly one body.
THEOREM OneBodyTheorem == Spec => []OneBody
<1>1. BodiesInv => OneBody
  <2>1. SUFFICES ASSUME BodiesInv, stage = "generated", NEW i \in 1..Len(module),
                        module[i].name # "renamed", prog[First(prog, module[i].name)].kind = "define"
                 PROVE  Len(module[i].bodies) = 1
    BY DEF OneBody
  <2>2. OneBodyEach /\ Firsts /\ ProgramInv /\ TableInv
    BY <2>1 DEF BodiesInv, Accepted, Inv
  <2> QED BY <2>1, <2>2, RegisteredIsFirst DEF OneBodyEach, Known, Registered
<1> QED BY <1>1, BodiesInvariance, PTL
----------------------------------------------------------------------------
(* What semantic analysis leaves open.  The module is followed as it is    *)
(* made: whether all of it so far would be verified, and whether the lines *)
(* passed so far are in the order that AcceptedCallsVerify asks for.  A    *)
(* definition's result is in the module only with the first return of its  *)
(* body, which closes that body.                                           *)

\* The arguments of a call are those that a line for its function asks for.
Suits(sig, call) == CountFits(sig, call) /\ \A k \in DOMAIN sig.types : call.types[k] = sig.types[k]

\* A body follows a definition, and only calls are found outside of bodies.
Nested == \A i \in 1..Len(prog) :
  /\ prog[i].depth > 0 => i > 1 /\ (prog[i - 1].kind = "define" \/ prog[i - 1].depth > 0)
  /\ prog[i].kind \in {"value", "while", "return"} => prog[i].depth > 0

\* The values and returns before n are as the second pass wants them.
Validated(n) == \A i \in 1..Len(prog) : i < n =>
  /\ prog[i].kind = "value" => Suits(Registered(prog[i].fn), prog[i])
  /\ prog[i].kind = "return" => Void(prog[i].types) = Void(prog[Owner(prog, i)].result)

\* A function of the module is what the first line for its name says, and
\* its bodies are those of definitions of that name.
AsDeclared(p, f) ==
  LET sig == p[First(p, f.name)] IN
  f.types = sig.types /\ f.variadic = sig.variadic /\ f.result = Void(sig.result)
BodyOf(p, m, n, f, body) ==
  /\ body.of < n /\ p[body.of].kind = "define" /\ p[body.of].fn = f.name
  /\ \A k \in 1..Len(body.code) : body.code[k].op = "call" => body.code[k].callee \in 1..Len(m)
FunctionsOK(p, m, n) == \A i \in 1..Len(m) :
  /\ m[i].name = "renamed" => Len(m[i].bodies) = 0
  /\ m[i].name # "renamed" => AsDeclared(p, m[i])
  /\ \A b \in 1..Len(m[i].bodies) : BodyOf(p, m, n, m[i], m[i].bodies[b])

\* Every head before n has its function, every definition its body.
HasBody(m, j) == \E i \in 1..Len(m) : \E b \in 1..Len(m[i].bodies) : m[i].bodies[b].of = j
Made(p, m, h, n) == \A j \in 1..Len(p) : j < n =>
  /\ p[j].kind \in HeadLines => \E i \in 1..Len(m) : m[i].name = p[j].fn
  /\ p[j].kind = "define" => h > 0 /\ HasBody(m, j)

\* CalledInOrder, CallsInBodies and ArgumentsFit for the lines before n.
CalledTill(p, n) == \A i \in Reached(p) \cup {k \in 1..Len(p) : p[k].depth = 0} :
  i < n /\ p[i].kind \in {"call", "value", "while"} => \E j \in LinesOf(p, p[i].fn) : j < i
InBodiesTill(p, n) == \A i, j \in 1..Len(p) :
  i < n /\ p[i].kind = "call" /\ p[i].depth = 0 /\ j < i => p[j].kind # "define"
FitTill(p, n) == \A i \in Reached(p) :
  i < n /\ p[i].kind \in {"call", "while"} =>
    LET sig == p[First(p, p[i].fn)] IN
    Suits(sig, p[i]) /\ (p[i].kind = "while" => Void(sig.result) = "int")

\* A body that is not closed is the one that the builder is in.
Closed(code) == \E k \in 1..Len(code) : code[k].op = "ret"
Ended(code) == Len(code) > 0 /\ code[Len(code)].op = "ret"
Current(m, h) == m[h].bodies[Len(m[h].bodies)]
Open(m, h) == h > 0 /\ ~Closed(Current(m, h).code)
PlaceOK(p, m, h, n) ==
  /\ \A i \in 1..Len(m) : \A b \in 1..Len(m[i].bodies) :
       Closed(m[i].bodies[b].code) \/ (i = h /\ b = Len(m[i].bodies))
  /\ h > 0 /\ Closed(Current(m, h).code) /\ ~Ended(Current(m, h).code) => ~InBodiesTill(p, n)
  /\ Open(m, h) => \A k \in (Current(m, h).of + 1)..(n - 1) : p[k].depth > 0 /\ p[k].kind # "return"
  /\ n <= Len(p) /\ p[n].depth > 0 => Open(m, h)

\* The module so far is verified; the results of closed bodies are those declared.
Sound(m, f, code, k) ==
  CASE code[k].op = "ret" -> k = Len(code) /\ code[k].types[1] = f.result
    [] code[k].op = "compare" -> code[k].types[1] = code[k].types[2]
    [] code[k].op = "call" -> Suits(m[code[k].callee], code[k])
AllSound(m) == \A i \in 1..Len(m) : \A b \in 1..Len(m[i].bodies) :
  \A k \in 1..Len(m[i].bodies[b].code) : Sound(m, m[i], m[i].bodies[b].code, k)
ClosedAgree(p, m) == \A i \in 1..Len(m) : \A b \in 1..Len(m[i].bodies) :
  Closed(m[i].bodies[b].code) => Void(p[m[i].bodies[b].of].result) = m[i].result

OutcomeOK(p, m, n, l) ==
  /\ l <=> ~CalledTill(p, n)
  /\ ~l => (AllSound(m) <=> InBodiesTill(p, n) /\ FitTill(p, n) /\ ClosedAgree(p, m))

OpenInv ==
  /\ Nested /\ late \in BOOLEAN
  /\ stage = "validate" => (~errors => Validated(at))
  /\ Accepted => Validated(Len(prog) + 1)
  /\ stage \in {"parse", "register", "validate"} => ~late
  /\ stage = "generate" =>
       /\ FunctionsOK(prog, module, at) /\ Made(prog, module, here, at)
       /\ PlaceOK(prog, module, here, at) /\ OutcomeOK(prog, module, at, late)
  /\ AcceptedCallsVerify

----------------------------------------------------------------------------
(* Bodies and the walk over them.                                          *)

LEMMA OwnerIs ==
  ASSUME ProgramInv, Nested, NEW i \in 1..Len(prog), prog[i].depth > 0
  PROVE  /\ Owner(prog, i) \in 1..(i - 1) /\ prog[Owner(prog, i)].kind = "define"
         /\ prog[Owner(prog, i)].depth = 0
         /\ \A k \in (Owner(prog, i) + 1)..i : prog[k].depth > 0
<1> DEFINE S == {j \in 1..(i - 1) : prog[j].depth = 0}
           IsOwner(j) == prog[j].depth = 0 /\ \A k \in (j + 1)..i : prog[k].depth > 0
<1>1. Len(prog) \in Nat /\ i \in Nat /\ i > 1 /\ \A k \in 1..Len(prog) : prog[k].depth \in {0, 1}
  BY LengthsAreNumbers DEF Nested, Lines
<1>2. PICK d \in S : \A j \in S : j <= d
  <2>1. prog[1].depth = 0
    BY <1>1 DEF Nested
  <2>2. i - 1 \in Nat /\ S \in SUBSET (1..(i - 1)) /\ 1 \in S
    BY <1>1, <2>1
  <2> HIDE DEF S
  <2>3. S # {}
    BY <2>2
  <2> QED BY <2>2, <2>3, LargestElement
<1>3. d \in 1..(i - 1) /\ IsOwner(d)
  <2>1. ASSUME NEW k \in (d + 1)..i  PROVE prog[k].depth > 0
    <3>1. CASE k = i
      BY <3>1
    <3>2. CASE k # i
      <4>1. k \in 1..(i - 1) /\ k \in 1..Len(prog) /\ ~(k <= d)
        BY <1>1, <1>2, <3>2
      <4> QED BY <1>1, <1>2, <4>1
    <3> QED BY <3>1, <3>2
  <2> QED BY <1>2, <2>1
<1>4. Owner(prog, i) = CHOOSE j \in 1..(i - 1) : IsOwner(j)
  BY DEF Owner
<1>5. Owner(prog, i) \in 1..(i - 1) /\ IsOwner(Owner(prog, i))
  <2> HIDE DEF IsOwner, S
  <2> QED BY <1>3, <1>4
<1>6. PICK o \in 1..(i - 1) : o = Owner(prog, i)
  BY <1>5
<1>7. prog[o].depth = 0 /\ \A k \in (o + 1)..i : prog[k].depth > 0
  BY <1>5, <1>6
<1>8. o + 1 \in 1..Len(prog) /\ prog[o + 1].depth > 0 /\ o \in Int
  BY <1>1, <1>7
<1>9. (o + 1) - 1 = o
  BY <1>8
<1>10. prog[o].kind = "define"
  BY <1>7, <1>8, <1>9 DEF Nested
<1> QED BY <1>6, <1>7, <1>10

LEMMA OwnerIsOne ==
  ASSUME ProgramInv, Nested, NEW i \in 1..Len(prog), NEW d \in 1..(i - 1), prog[d].depth = 0,
         \A k \in (d + 1)..i : prog[k].depth > 0
  PROVE  Owner(prog, i) = d
<1>1. Len(prog) \in Nat /\ prog[i].depth > 0 /\ i \in (d + 1)..i
  BY LengthsAreNumbers
<1>2. PICK o \in 1..(i - 1) : o = Owner(prog, i)
  BY <1>1, OwnerIs
<1>3. prog[o].depth = 0 /\ \A k \in (o + 1)..i : prog[k].depth > 0
  BY <1>1, <1>2, OwnerIs
<1>4. CASE o < d
  <2>1. d \in (o + 1)..i
    BY <1>4
  <2> QED BY <1>3, <2>1
<1>5. CASE d < o
  <2>1. o \in (d + 1)..i
    BY <1>5
  <2> QED BY <1>3, <2>1
<1> QED BY <1>2, <1>4, <1>5

----------------------------------------------------------------------------
(* Modules: what an instruction more, and a function or a body more, do.   *)

\* The instructions of a module.
IsModule(m) ==
  /\ Len(m) \in Nat
  /\ \A i \in 1..Len(m) :
       /\ Len(m[i].bodies) \in Nat
       /\ \A b \in 1..Len(m[i].bodies) : m[i].bodies[b].of \in Nat /\ m[i].bodies[b].code \in Seq(Instrs)

\* Functions keep what they are declared as.
SameHeads(m, m2) ==
  \A i \in 1..Len(m) : /\ m2[i].name = m[i].name /\ m2[i].types = m[i].types
                       /\ m2[i].result = m[i].result /\ m2[i].variadic = m[i].variadic

\* The innermost body gets some instructions.
Extends(m, m2, h, instrs) ==
  /\ Len(m2) = Len(m) /\ SameHeads(m, m2)
  /\ \A i \in 1..Len(m) :
       /\ Len(m2[i].bodies) = Len(m[i].bodies)
       /\ i # h => m2[i].bodies = m[i].bodies
       /\ \A b \in 1..Len(m[i].bodies) :
            /\ m2[i].bodies[b].of = m[i].bodies[b].of
            /\ m2[i].bodies[b].code = IF i = h /\ b = Len(m[i].bodies)
                                      THEN m[i].bodies[b].code \o instrs ELSE m[i].bodies[b].code

\* Functions or bodies are added, and there is no code in them yet.
Grows(m, m2) ==
  /\ Len(m2) \in Nat /\ Len(m) <= Len(m2) /\ SameHeads(m, m2)
  /\ \A i \in 1..Len(m) :
       /\ Len(m2[i].bodies) \in Nat /\ Len(m[i].bodies) <= Len(m2[i].bodies)
       /\ \A b \in 1..Len(m[i].bodies) : m2[i].bodies[b] = m[i].bodies[b]
  /\ \A i \in 1..Len(m2) : \A b \in 1..Len(m2[i].bodies) :
       (i <= Len(m) /\ b <= Len(m[i].bodies)) \/ m2[i].bodies[b].code = <<>>

LEMMA ModuleIs ==
  ASSUME ModuleInv, Len(prog) \in Nat
  PROVE  IsModule(module)
<1>1. \A i \in 1..Len(module) : module[i] \in MFunctions
  BY DEF ModuleInv
<1>2. \A f \in MFunctions : f.bodies \in Seq(Bodies)
  BY DEF MFunctions
<1>3. \A b \in Bodies : b.of \in Nat /\ b.code \in Seq(Instrs)
  BY DEF Bodies
<1>4. Len(module) \in Nat
  BY DEF ModuleInv
<1> QED BY <1>1, <1>2, <1>3, <1>4 DEF IsModule

\* What the rules of verifyModule say of each instruction.
LEMMA SoundIs ==
  ASSUME NEW m, NEW f, NEW code, NEW k
  PROVE  /\ code[k].op = "ret" => (Sound(m, f, code, k) <=> k = Len(code) /\ code[k].types[1] = f.result)
         /\ code[k].op = "compare" => (Sound(m, f, code, k) <=> code[k].types[1] = code[k].types[2])
         /\ code[k].op = "call" => (Sound(m, f, code, k) <=> Suits(m[code[k].callee], code[k]))
BY DEF Sound

\* An instruction that does not close its body is as sound in an extended module.
LEMMA SoundKept ==
  ASSUME NEW m, NEW m2, SameHeads(m, m2), NEW i \in 1..Len(m), NEW code, NEW code2, NEW k,
         code2[k] = code[k], code[k].op \in {"call", "compare", "ret"},
         code[k].op = "call" => code[k].callee \in 1..Len(m),
         code[k].op = "ret" => Len(code2) = Len(code)
  PROVE  Sound(m2, m2[i], code2, k) <=> Sound(m, m[i], code, k)
<1>1. CASE code[k].op = "ret"
  BY <1>1, SoundIs DEF SameHeads
<1>2. CASE code[k].op = "compare"
  BY <1>2, SoundIs
<1>3. CASE code[k].op = "call"
  <2>1. Suits(m2[code[k].callee], code[k]) <=> Suits(m[code[k].callee], code[k])
    BY <1>3 DEF Suits, CountFits, SameHeads
  <2> QED BY <1>3, <2>1, SoundIs
<1> QED BY <1>1, <1>2, <1>3

LEMMA Instructions ==
  ASSUME NEW code \in Seq(Instrs)
  PROVE  Len(code) \in Nat /\ \A k \in 1..Len(code) : code[k].op \in {"call", "compare", "ret"}
<1>1. \A k \in 1..Len(code) : code[k] \in Instrs
  OBVIOUS
<1> QED BY <1>1 DEF Instrs

LEMMA GrowingIsSound ==
  ASSUME NEW p, NEW n, NEW m, NEW m2, IsModule(m), Grows(m, m2), FunctionsOK(p, m, n)
  PROVE  (AllSound(m2) <=> AllSound(m)) /\ (ClosedAgree(p, m2) <=> ClosedAgree(p, m))
<1>1. /\ Len(m) \in Nat /\ Len(m2) \in Nat /\ Len(m) <= Len(m2) /\ SameHeads(m, m2)
      /\ \A i \in 1..Len(m) : i \in 1..Len(m2) /\ Len(m[i].bodies) \in Nat
  BY DEF IsModule, Grows
<1>2. ASSUME NEW i \in 1..Len(m), NEW b \in 1..Len(m[i].bodies)
      PROVE  /\ b \in 1..Len(m2[i].bodies) /\ m2[i].bodies[b] = m[i].bodies[b]
             /\ m2[i].result = m[i].result
             /\ \A k \in 1..Len(m[i].bodies[b].code) :
                  Sound(m2, m2[i], m2[i].bodies[b].code, k) <=> Sound(m, m[i], m[i].bodies[b].code, k)
  <2>1. /\ b \in 1..Len(m2[i].bodies) /\ m2[i].bodies[b] = m[i].bodies[b]
        /\ m2[i].result = m[i].result
    BY <1>1, <1>2 DEF Grows, SameHeads
  <2>2. ASSUME NEW k \in 1..Len(m[i].bodies[b].code)
        PROVE  Sound(m2, m2[i], m2[i].bodies[b].code, k) <=> Sound(m, m[i], m[i].bodies[b].code, k)
    <3> DEFINE code == m[i].bodies[b].code
    <3>1. code \in Seq(Instrs) /\ (code[k].op = "call" => code[k].callee \in 1..Len(m))
      BY DEF IsModule, FunctionsOK, BodyOf
    <3>2. code[k].op \in {"call", "compare", "ret"}
      BY <3>1, Instructions
    <3>3. m2[i].bodies[b].code = code
      BY <2>1
    <3> HIDE DEF code
    <3>4. Sound(m2, m2[i], code, k) <=> Sound(m, m[i], code, k)
      BY <1>1, <3>1, <3>2, SoundKept
    <3> QED BY <3>3, <3>4 DEF code
  <2> QED BY <2>1, <2>2
<1>3. ASSUME NEW i \in 1..Len(m2), NEW b \in 1..Len(m2[i].bodies),
             ~(i \in 1..Len(m) /\ b \in 1..Len(m[i].bodies))
      PROVE  Len(m2[i].bodies[b].code) = 0 /\ ~Closed(m2[i].bodies[b].code)
  <2>1. ~(i <= Len(m) /\ b <= Len(m[i].bodies))
    <3>1. i \in Nat /\ 1 <= i
      BY <1>1
    <3>2. SUFFICES ASSUME i <= Len(m), b <= Len(m[i].bodies)  PROVE FALSE
      OBVIOUS
    <3>3. i \in 1..Len(m)
      BY <1>1, <3>1, <3>2
    <3>4. Len(m[i].bodies) \in Nat /\ Len(m2[i].bodies) \in Nat
      BY <1>1, <3>3 DEF Grows
    <3>5. b \in 1..Len(m[i].bodies)
      BY <3>2, <3>4
    <3> QED BY <1>3, <3>3, <3>5
  <2>2. m2[i].bodies[b].code = <<>>
    BY <2>1 DEF Grows
  <2> QED BY <2>2 DEF Closed
<1>4. AllSound(m2) <=> AllSound(m)
  <2>1. ASSUME AllSound(m2)  PROVE AllSound(m)
    BY <1>1, <1>2, <2>1 DEF AllSound
  <2>2. ASSUME AllSound(m), NEW i \in 1..Len(m2), NEW b \in 1..Len(m2[i].bodies),
               NEW k \in 1..Len(m2[i].bodies[b].code)
        PROVE  Sound(m2, m2[i], m2[i].bodies[b].code, k)
    <3>1. CASE i \in 1..Len(m) /\ b \in 1..Len(m[i].bodies)
      BY <1>2, <2>2, <3>1 DEF AllSound
    <3>2. CASE ~(i \in 1..Len(m) /\ b \in 1..Len(m[i].bodies))
      BY <1>3, <2>2, <3>2
    <3> QED BY <3>1, <3>2
  <2> QED BY <2>1, <2>2 DEF AllSound
<1>5. ClosedAgree(p, m2) <=> ClosedAgree(p, m)
  <2>1. ASSUME ClosedAgree(p, m2)  PROVE ClosedAgree(p, m)
    BY ONLY <1>1, <1>2, <2>1 DEF ClosedAgree
  <2>2. ASSUME ClosedAgree(p, m), NEW i \in 1..Len(m2), NEW b \in 1..Len(m2[i].bodies),
               Closed(m2[i].bodies[b].code)
        PROVE  Void(p[m2[i].bodies[b].of].result) = m2[i].result
    <3>1. i \in 1..Len(m) /\ b \in 1..Len(m[i].bodies)
      BY <1>3, <2>2
    <3>2. m2[i].bodies[b] = m[i].bodies[b] /\ m2[i].result = m[i].result
      BY <1>2, <3>1
    <3> QED BY ONLY <2>2, <3>1, <3>2 DEF ClosedAgree
  <2> QED BY <2>1, <2>2 DEF ClosedAgree
<1> QED BY <1>4, <1>5

\* Instructions are added to the innermost body: all is sound if it was, the
\* body was not closed, and they are.
LEMMA ExtendingIsSound ==
  ASSUME NEW p, NEW n, NEW m, NEW m2, NEW h \in 1..Len(m), NEW instrs \in Seq(Instrs), Len(instrs) > 0,
         IsModule(m), Len(m[h].bodies) > 0, FunctionsOK(p, m, n), Extends(m, m2, h, instrs)
  PROVE  LET code == Current(m, h).code \o instrs IN
         AllSound(m2) <=> /\ AllSound(m) /\ ~Closed(Current(m, h).code)
                          /\ \A k \in 1..Len(instrs) : Sound(m2, m2[h], code, Len(Current(m, h).code) + k)
<1> DEFINE last == Len(m[h].bodies)
           old == Current(m, h).code
           code == old \o instrs
<1>1. /\ last \in 1..last /\ old = m[h].bodies[last].code /\ old \in Seq(Instrs)
      /\ m2[h].bodies[last].code = code /\ Len(m2[h].bodies) = last /\ SameHeads(m, m2) /\ Len(m2) = Len(m)
  <2>1. last \in Nat /\ last \in 1..last
    BY DEF IsModule
  <2>2. old = m[h].bodies[last].code
    BY DEF Current
  <2>3. old \in Seq(Instrs)
    BY <2>1, <2>2 DEF IsModule
  <2>4. Len(m2[h].bodies) = last /\ SameHeads(m, m2) /\ Len(m2) = Len(m)
    BY DEF Extends
  <2>5. m2[h].bodies[last].code = m[h].bodies[last].code \o instrs
    BY <2>1 DEF Extends
  <2> QED BY <2>1, <2>2, <2>3, <2>4, <2>5
<1>2. /\ Len(old) \in Nat /\ Len(instrs) \in Nat /\ Len(code) = Len(old) + Len(instrs)
      /\ \A k \in 1..Len(old) : code[k] = old[k] /\ k \in 1..Len(code) /\ k # Len(code)
      /\ \A k \in 1..Len(instrs) : Len(old) + k \in 1..Len(code)
      /\ \A k \in 1..Len(code) : k \in 1..Len(old) \/ \E j \in 1..Len(instrs) : k = Len(old) + j
  <2>1. Len(old) \in Nat /\ Len(instrs) \in Nat /\ Len(code) = Len(old) + Len(instrs)
        /\ \A k \in 1..Len(old) : code[k] = old[k]
    <3>1. old \in Seq(Instrs)
      BY <1>1
    <3> HIDE DEF old
    <3> QED BY <3>1
  <2>2. ASSUME NEW k \in 1..Len(code)  PROVE k \in 1..Len(old) \/ \E j \in 1..Len(instrs) : k = Len(old) + j
    <3> HIDE DEF old, code
    <3>1. CASE k <= Len(old)
      BY <2>1, <3>1
    <3>2. CASE k > Len(old)
      <4>1. k - Len(old) \in 1..Len(instrs) /\ k = Len(old) + (k - Len(old))
        BY <2>1, <3>2
      <4> QED BY <4>1
    <3> QED BY <2>1, <3>1, <3>2
  <2> HIDE DEF old, code
  <2> QED BY <2>1, <2>2
<1>3. \A i \in 1..Len(m) : \A b \in 1..Len(m[i].bodies) :
        /\ m[i].bodies[b].code \in Seq(Instrs)
        /\ \A k \in 1..Len(m[i].bodies[b].code) :
             m[i].bodies[b].code[k].op = "call" => m[i].bodies[b].code[k].callee \in 1..Len(m)
  BY DEF IsModule, FunctionsOK, BodyOf
<1>4. ASSUME NEW i \in 1..Len(m), NEW b \in 1..Len(m[i].bodies), ~(i = h /\ b = last),
             NEW k \in 1..Len(m[i].bodies[b].code)
      PROVE  /\ m2[i].bodies[b].code = m[i].bodies[b].code
             /\ Sound(m2, m2[i], m2[i].bodies[b].code, k) <=> Sound(m, m[i], m[i].bodies[b].code, k)
  <2>1. PICK c : c = m[i].bodies[b].code
    OBVIOUS
  <2>2. m2[i].bodies[b].code = c
    BY <1>4, <2>1 DEF Extends
  <2>3. c[k].op \in {"call", "compare", "ret"} /\ (c[k].op = "call" => c[k].callee \in 1..Len(m))
    <3>1. c \in Seq(Instrs) /\ k \in 1..Len(c)
      BY <1>3, <1>4, <2>1
    <3>2. c[k].op = "call" => c[k].callee \in 1..Len(m)
      BY <1>3, <1>4, <2>1
    <3> QED BY <3>1, <3>2, Instructions
  <2>4. SameHeads(m, m2)
    BY <1>1
  <2>5. Sound(m2, m2[i], c, k) <=> Sound(m, m[i], c, k)
    BY <2>3, <2>4, SoundKept
  <2> QED BY <2>1, <2>2, <2>5
<1>5. ASSUME NEW k \in 1..Len(old)
      PROVE  IF old[k].op = "ret" THEN ~Sound(m2, m2[h], code, k)
             ELSE Sound(m2, m2[h], code, k) <=> Sound(m, m[h], old, k)
  <2>1. old[k].op \in {"call", "compare", "ret"} /\ (old[k].op = "call" => old[k].callee \in 1..Len(m))
    BY <1>1, <1>3, Instructions
  <2>2. code[k] = old[k] /\ k # Len(code)
    BY <1>2
  <2> HIDE DEF old, code
  <2>3. CASE old[k].op = "ret"
    BY <2>2, <2>3, SoundIs
  <2>4. CASE old[k].op # "ret"
    <3>1. SameHeads(m, m2) /\ h \in 1..Len(m)
      BY <1>1
    <3>2. Sound(m2, m2[h], code, k) <=> Sound(m, m[h], old, k)
      BY <2>1, <2>2, <2>4, <3>1, SoundKept
    <3> QED BY <2>4, <3>2
  <2> QED BY <2>3, <2>4
<1> DEFINE NewSound == \A k \in 1..Len(instrs) : Sound(m2, m2[h], code, Len(old) + k)
<1>6. ASSUME AllSound(m2)  PROVE AllSound(m) /\ ~Closed(old) /\ NewSound
  <2>1. \A k \in 1..Len(code) : Sound(m2, m2[h], code, k)
    BY <1>1, <1>6 DEF AllSound
  <2>2. \A k \in 1..Len(old) : old[k].op # "ret" /\ Sound(m, m[h], old, k)
    <3> HIDE DEF old, code
    <3> QED BY <1>2, <1>5, <2>1
  <2>3. AllSound(m)
    <3>1. SUFFICES ASSUME NEW i \in 1..Len(m), NEW b \in 1..Len(m[i].bodies),
                          NEW k \in 1..Len(m[i].bodies[b].code)
                   PROVE  Sound(m, m[i], m[i].bodies[b].code, k)
      BY DEF AllSound
    <3>2. CASE i = h /\ b = last
      BY <1>1, <2>2, <3>2
    <3>3. CASE ~(i = h /\ b = last)
      <4>1. i \in 1..Len(m2) /\ b \in 1..Len(m2[i].bodies) /\ m2[i].bodies[b].code = m[i].bodies[b].code
        BY <1>1, <1>4, <3>3 DEF Extends
      <4> QED BY <1>4, <1>6, <3>3, <4>1 DEF AllSound
    <3> QED BY <3>2, <3>3
  <2>4. ~Closed(old)
    BY <2>2 DEF Closed
  <2>5. NewSound
    <3> HIDE DEF old, code
    <3> QED BY <1>2, <2>1
  <2> QED BY <2>3, <2>4, <2>5
<1>7. ASSUME AllSound(m), ~Closed(old), NewSound  PROVE AllSound(m2)
  <2>1. \A k \in 1..Len(old) : old[k].op # "ret" /\ Sound(m, m[h], old, k)
    BY <1>1, <1>7 DEF AllSound, Closed
  <2>2. \A k \in 1..Len(code) : Sound(m2, m2[h], code, k)
    <3> HIDE DEF old, code
    <3> QED BY <1>2, <1>5, <1>7, <2>1
  <2>3. SUFFICES ASSUME NEW i \in 1..Len(m2), NEW b \in 1..Len(m2[i].bodies),
                        NEW k \in 1..Len(m2[i].bodies[b].code)
                 PROVE  Sound(m2, m2[i], m2[i].bodies[b].code, k)
    BY DEF AllSound
  <2>4. i \in 1..Len(m) /\ b \in 1..Len(m[i].bodies)
    BY <1>1 DEF Extends
  <2>5. CASE i = h /\ b = last
    BY <1>1, <2>2, <2>3, <2>5
  <2>6. CASE ~(i = h /\ b = last)
    <3>1. m2[i].bodies[b].code = m[i].bodies[b].code
      BY <2>4, <2>6 DEF Extends
    <3> QED BY <1>4, <1>7, <2>3, <2>4, <2>6, <3>1 DEF AllSound
  <2> QED BY <2>5, <2>6
<1> QED BY <1>6, <1>7

\* The code of a body with some instructions more.
LEMMA LongerCode ==
  ASSUME NEW old \in Seq(Instrs), NEW instrs \in Seq(Instrs), Len(instrs) > 0
  PROVE  /\ Closed(old \o instrs) <=> Closed(old) \/ Closed(instrs)
         /\ Ended(old \o instrs) <=> Ended(instrs)
         /\ old \o instrs \in Seq(Instrs)
<1>1. /\ Len(old) \in Nat /\ Len(instrs) \in Nat /\ Len(old \o instrs) = Len(old) + Len(instrs)
      /\ \A k \in 1..Len(old) : (old \o instrs)[k] = old[k]
      /\ \A k \in 1..Len(instrs) : (old \o instrs)[Len(old) + k] = instrs[k]
      /\ old \o instrs \in Seq(Instrs)
  OBVIOUS
<1>2. PICK code : code = old \o instrs
  OBVIOUS
<1>3. Closed(code) => Closed(old) \/ Closed(instrs)
  <2>1. SUFFICES ASSUME NEW k \in 1..Len(code), code[k].op = "ret"
                 PROVE  Closed(old) \/ Closed(instrs)
    BY DEF Closed
  <2>2. CASE k <= Len(old)
    BY <1>1, <1>2, <2>1, <2>2 DEF Closed
  <2>3. CASE k > Len(old)
    <3>1. k - Len(old) \in 1..Len(instrs) /\ k = Len(old) + (k - Len(old))
      BY <1>1, <1>2, <2>3
    <3>2. instrs[k - Len(old)] = code[k]
      BY <1>1, <1>2, <3>1
    <3> QED BY <2>1, <3>1, <3>2 DEF Closed
  <2> QED BY <1>1, <2>2, <2>3
<1>4. Closed(old) => Closed(code)
  BY <1>1, <1>2 DEF Closed
<1>5. Closed(instrs) => Closed(code)
  <2>1. SUFFICES ASSUME NEW k \in 1..Len(instrs), instrs[k].op = "ret"  PROVE Closed(code)
    BY DEF Closed
  <2>2. Len(old) + k \in 1..Len(code) /\ code[Len(old) + k] = instrs[k]
    BY <1>1, <1>2
  <2> QED BY <2>1, <2>2 DEF Closed
<1>6. Ended(code) <=> Ended(instrs)
  <2>1. Len(instrs) \in 1..Len(instrs) /\ Len(code) = Len(old) + Len(instrs) /\ Len(code) > 0
    BY <1>1, <1>2
  <2>2. code[Len(code)] = instrs[Len(instrs)]
    BY <1>1, <1>2, <2>1
  <2> QED BY <2>1, <2>2 DEF Ended
<1> QED BY <1>1, <1>2, <1>3, <1>4, <1>5, <1>6

\* What the functions of the module are is not changed by instructions.
LEMMA ExtendingKeeps ==
  ASSUME NEW p, NEW n \in Nat, NEW n2 \in Nat, n <= n2, NEW m, NEW m2, NEW h \in 1..Len(m),
         NEW instrs \in Seq(Instrs), Len(instrs) > 0,
         IsModule(m), FunctionsOK(p, m, n), Made(p, m, h, n), Extends(m, m2, h, instrs),
         \A k \in 1..Len(instrs) : instrs[k].op = "call" => instrs[k].callee \in 1..Len(m),
         \A j \in 1..Len(p) : j < n2 /\ p[j].kind \in HeadLines => j < n
  PROVE  FunctionsOK(p, m2, n2) /\ Made(p, m2, h, n2)
<1>1. Len(m2) = Len(m) /\ SameHeads(m, m2) /\ Len(m) \in Nat
  BY DEF Extends, IsModule
<1>2. FunctionsOK(p, m2, n2)
  <2>1. ASSUME NEW i \in 1..Len(m)
        PROVE  /\ m2[i].name = "renamed" => Len(m2[i].bodies) = 0
               /\ m2[i].name # "renamed" => AsDeclared(p, m2[i])
    <3>1. /\ m2[i].name = m[i].name /\ m2[i].types = m[i].types /\ m2[i].result = m[i].result
          /\ m2[i].variadic = m[i].variadic
      BY <1>1 DEF SameHeads
    <3>2. Len(m2[i].bodies) = Len(m[i].bodies)
      BY DEF Extends
    <3>3. /\ m[i].name = "renamed" => Len(m[i].bodies) = 0
          /\ m[i].name # "renamed" => AsDeclared(p, m[i])
      BY DEF FunctionsOK
    <3> QED BY ONLY <3>1, <3>2, <3>3 DEF AsDeclared
  <2>2. ASSUME NEW i \in 1..Len(m), NEW b \in 1..Len(m2[i].bodies)
        PROVE  BodyOf(p, m2, n2, m2[i], m2[i].bodies[b])
    <3>1. b \in 1..Len(m[i].bodies) /\ m2[i].name = m[i].name
      BY DEF Extends, SameHeads
    <3>2. PICK body : body = m[i].bodies[b]
      OBVIOUS
    <3>3. body.of \in Nat /\ body.code \in Seq(Instrs) /\ BodyOf(p, m, n, m[i], body)
      BY <3>1, <3>2 DEF IsModule, FunctionsOK
    <3>4. PICK body2 : body2 = m2[i].bodies[b]
      OBVIOUS
    <3>5. body2.of = body.of /\ body2.code \in {body.code, body.code \o instrs}
      BY <3>1, <3>2, <3>4 DEF Extends
    <3>6. body2.of < n2 /\ p[body2.of].kind = "define" /\ p[body2.of].fn = m2[i].name
      BY <3>1, <3>3, <3>5 DEF BodyOf
    <3>7. ASSUME NEW k \in 1..Len(body2.code), body2.code[k].op = "call"
          PROVE  body2.code[k].callee \in 1..Len(m2)
      <4>1. PICK old \in Seq(Instrs) : old = body.code
        BY <3>3
      <4>2. \A j \in 1..Len(old) : old[j].op = "call" => old[j].callee \in 1..Len(m)
        BY <3>3, <4>1 DEF BodyOf
      <4>3. CASE body2.code = old
        BY <1>1, <3>7, <4>2, <4>3
      <4>4. CASE body2.code = old \o instrs
        <5>1. Len(old) \in Nat /\ Len(instrs) \in Nat /\ k \in 1..(Len(old) + Len(instrs))
          BY <4>4
        <5>2. CASE k <= Len(old)
          BY <1>1, <3>7, <4>2, <4>4, <5>1, <5>2
        <5>3. CASE k > Len(old)
          <6>1. k - Len(old) \in 1..Len(instrs)
            BY <5>1, <5>3
          <6>2. body2.code[k] = instrs[k - Len(old)]
            BY <4>4, <5>1, <5>3, <6>1
          <6> QED BY <1>1, <3>7, <6>1, <6>2
        <5> QED BY <5>1, <5>2, <5>3
      <4> QED BY <3>5, <4>1, <4>3, <4>4
    <3> QED BY <3>4, <3>6, <3>7 DEF BodyOf
  <2> QED BY <1>1, <2>1, <2>2 DEF FunctionsOK
<1>3. Made(p, m2, h, n2)
  <2>1. \A j : HasBody(m, j) => HasBody(m2, j)
    <3>1. \A i \in 1..Len(m) : /\ Len(m2[i].bodies) = Len(m[i].bodies)
                               /\ \A b \in 1..Len(m[i].bodies) : m2[i].bodies[b].of = m[i].bodies[b].of
      BY DEF Extends
    <3> QED BY ONLY <1>1, <3>1 DEF HasBody
  <2>2. \A name : (\E i \in 1..Len(m) : m[i].name = name) => \E i \in 1..Len(m2) : m2[i].name = name
    BY <1>1 DEF SameHeads
  <2>3. "define" \in HeadLines
    BY DEF HeadLines
  <2> QED BY <2>1, <2>2, <2>3 DEF Made
<1> QED BY <1>2, <1>3

\* What is known between two steps of the generator.
Walk(p, n, m, h, l) ==
  FunctionsOK(p, m, n) /\ Made(p, m, h, n) /\ PlaceOK(p, m, h, n) /\ OutcomeOK(p, m, n, l)

\* A return is the next instruction, and the next line is at n2: of those from
\* n up to there none counts.
Closing(p, n, n2, m, m2, h, l, ret) ==
  /\ n \in Nat /\ n2 \in Nat /\ n <= n2 /\ h \in 1..Len(m) /\ l \in BOOLEAN
  /\ ret \in Instrs /\ ret.op = "ret" /\ ret.types[1] = Void(p[Current(m, h).of].result)
  /\ IsModule(m) /\ Len(m[h].bodies) > 0 /\ Extends(m, m2, h, <<ret>>)
  /\ Walk(p, n, m, h, l)
  /\ Open(m, h) \/ ~InBodiesTill(p, n)
  /\ CalledTill(p, n2) <=> CalledTill(p, n)
  /\ InBodiesTill(p, n2) <=> InBodiesTill(p, n)
  /\ FitTill(p, n2) <=> FitTill(p, n)
  /\ \A j \in 1..Len(p) : j < n2 /\ p[j].kind \in HeadLines => j < n
  /\ n2 <= Len(p) => ~(p[n2].depth > 0)

\* A return closes the body, or what follows a closed one.
LEMMA ClosingKeeps ==
  ASSUME NEW p, NEW n, NEW n2, NEW m, NEW m2, NEW h, NEW l, NEW ret, Closing(p, n, n2, m, m2, h, l, ret)
  PROVE  Walk(p, n2, m2, h, l)
<1> USE DEF Closing, Walk
<1> DEFINE last == Len(m[h].bodies)
<1>1. PICK instrs : instrs = <<ret>>
  OBVIOUS
<1>2. /\ instrs \in Seq(Instrs) /\ Len(instrs) = 1 /\ instrs[1] = ret
      /\ Closed(instrs) /\ Ended(instrs) /\ Extends(m, m2, h, instrs)
  BY <1>1 DEF Closed, Ended
<1>3. FunctionsOK(p, m2, n2) /\ Made(p, m2, h, n2)
  <2>1. \A k \in 1..Len(instrs) : instrs[k].op = "call" => instrs[k].callee \in 1..Len(m)
    BY <1>2
  <2>2. Len(instrs) > 0
    BY <1>2
  <2> QED BY <1>2, <2>1, <2>2, ExtendingKeeps
<1>4. PICK old \in Seq(Instrs) : old = Current(m, h).code
  <2>1. last \in 1..last /\ h \in 1..Len(m) /\ IsModule(m)
    BY DEF IsModule
  <2>2. m[h].bodies[last].code \in Seq(Instrs)
    BY ONLY <2>1 DEF IsModule
  <2> QED BY <2>2 DEF Current
<1>5. PICK code : code = old \o instrs
  OBVIOUS
<1>6. Closed(code) /\ Ended(code) /\ Len(code) = Len(old) + 1 /\ code[Len(old) + 1] = ret
  <2>1. Len(instrs) > 0 /\ Len(old) \in Nat
    BY <1>2
  <2>2. Closed(code) /\ Ended(code)
    BY <1>2, <1>5, <2>1, LongerCode
  <2>3. Len(code) = Len(old) + 1 /\ code[Len(old) + 1] = ret
    <3>1. instrs \in Seq(Instrs) /\ Len(instrs) = 1 /\ instrs[1] = ret
      BY <1>2
    <3>2. \A s, t \in Seq(Instrs) : Len(s \o t) = Len(s) + Len(t) /\ \A k \in 1..Len(t) : (s \o t)[Len(s) + k] = t[k]
      OBVIOUS
    <3>3. Len(code) = Len(old) + Len(instrs) /\ (1 \in 1..Len(instrs) => code[Len(old) + 1] = instrs[1])
      BY <1>5, <3>1, <3>2
    <3> QED BY <3>1, <3>3
  <2> QED BY <2>2, <2>3
<1>7. /\ last \in 1..last /\ Len(m2[h].bodies) = last /\ Current(m2, h).code = code
      /\ m2[h].bodies[last].code = code /\ m2[h].bodies[last].of = Current(m, h).of
      /\ m[h].bodies[last].code = old /\ m2[h].result = m[h].result
  <2>1. last \in Nat /\ last \in 1..last
    BY DEF IsModule
  <2>2. Len(m2[h].bodies) = last /\ m2[h].result = m[h].result
    BY <1>2 DEF Extends, SameHeads
  <2>3. m[h].bodies[last].code = old
    BY <1>4 DEF Current
  <2>4. m2[h].bodies[last].code = code /\ m2[h].bodies[last].of = m[h].bodies[last].of
    BY <1>2, <1>5, <2>1, <2>3 DEF Extends
  <2> QED BY <2>1, <2>2, <2>3, <2>4 DEF Current
<1>8. \A i \in 1..Len(m) : \A b \in 1..Len(m[i].bodies) : ~(i = h /\ b = last) =>
        /\ m2[i].bodies[b].code = m[i].bodies[b].code /\ m2[i].bodies[b].of = m[i].bodies[b].of
        /\ m2[i].result = m[i].result
  <2>1. SUFFICES ASSUME NEW i \in 1..Len(m), NEW b \in 1..Len(m[i].bodies), ~(i = h /\ b = last)
                 PROVE  /\ m2[i].bodies[b].code = m[i].bodies[b].code /\ m2[i].bodies[b].of = m[i].bodies[b].of
                        /\ m2[i].result = m[i].result
    OBVIOUS
  <2>2. m2[i].result = m[i].result
    BY ONLY <1>2 DEF Extends, SameHeads
  <2>3. m2[i].bodies[b].of = m[i].bodies[b].of
    BY ONLY <1>2 DEF Extends
  <2>4. m2[i].bodies[b].code = m[i].bodies[b].code
    BY ONLY <1>2, <2>1 DEF Extends
  <2> QED BY <2>2, <2>3, <2>4
<1>9. Len(m2) = Len(m) /\ \A i \in 1..Len(m) : Len(m2[i].bodies) = Len(m[i].bodies)
  BY <1>2 DEF Extends
<1>10. PlaceOK(p, m2, h, n2)
  <2>1. \A i \in 1..Len(m2) : \A b \in 1..Len(m2[i].bodies) :
          Closed(m2[i].bodies[b].code) \/ (i = h /\ b = Len(m2[i].bodies))
    <3>1. \A i \in 1..Len(m) : \A b \in 1..Len(m[i].bodies) :
            Closed(m[i].bodies[b].code) \/ (i = h /\ b = Len(m[i].bodies))
      BY DEF PlaceOK
    <3>2. ASSUME NEW i \in 1..Len(m2), NEW b \in 1..Len(m2[i].bodies)
          PROVE  Closed(m2[i].bodies[b].code) \/ (i = h /\ b = Len(m2[i].bodies))
      <4>1. i \in 1..Len(m) /\ b \in 1..Len(m[i].bodies) /\ Len(m2[i].bodies) = Len(m[i].bodies)
        BY ONLY <1>9
      <4>2. CASE i = h /\ b = last
        BY ONLY <4>1, <4>2
      <4>3. CASE ~(i = h /\ b = last)
        <5>1. m2[i].bodies[b].code = m[i].bodies[b].code
          BY ONLY <1>8, <4>1, <4>3
        <5> QED BY ONLY <3>1, <4>1, <4>3, <5>1
      <4> QED BY ONLY <4>2, <4>3
    <3> QED BY ONLY <3>2
  <2>2. ~Open(m2, h)
    BY <1>6, <1>7 DEF Open
  <2> QED BY <1>6, <1>7, <2>1, <2>2 DEF PlaceOK
<1>11. AllSound(m2) <=> AllSound(m) /\ ~Closed(old) /\ Void(p[Current(m, h).of].result) = m[h].result
  <2>1. Len(instrs) > 0
    BY <1>2
  <2>2. AllSound(m2) <=> /\ AllSound(m) /\ ~Closed(old)
                         /\ \A k \in 1..Len(instrs) : Sound(m2, m2[h], code, Len(old) + k)
    <3>1. instrs \in Seq(Instrs) /\ Extends(m, m2, h, instrs)
      BY <1>2
    <3>2. LET c == Current(m, h).code \o instrs IN
          AllSound(m2) <=> /\ AllSound(m) /\ ~Closed(Current(m, h).code)
                           /\ \A k \in 1..Len(instrs) : Sound(m2, m2[h], c, Len(Current(m, h).code) + k)
      BY <2>1, <3>1, ExtendingIsSound
    <3> QED BY ONLY <1>4, <1>5, <3>2
  <2>3. \A k \in 1..Len(instrs) : k = 1
    BY <1>2
  <2>4. 1 \in 1..Len(instrs)
    BY <1>2
  <2>5. Sound(m2, m2[h], code, Len(old) + 1) <=> ret.types[1] = m2[h].result
    BY <1>6, SoundIs
  <2> QED BY <1>7, <2>2, <2>3, <2>4, <2>5
<1>12. CASE Closed(old)
  <2>1. ~InBodiesTill(p, n)
    BY <1>4, <1>12 DEF Open
  <2> QED BY <1>3, <1>10, <1>11, <1>12, <2>1 DEF OutcomeOK
<1>13. CASE ~Closed(old)
  <2>1. ClosedAgree(p, m2) <=> ClosedAgree(p, m) /\ Void(p[Current(m, h).of].result) = m[h].result
    <3>1. ASSUME ClosedAgree(p, m2)
          PROVE  ClosedAgree(p, m) /\ Void(p[Current(m, h).of].result) = m[h].result
      <4>1. Void(p[Current(m, h).of].result) = m[h].result
        BY <1>6, <1>7, <1>9, <3>1 DEF ClosedAgree
      <4>2. ASSUME NEW i \in 1..Len(m), NEW b \in 1..Len(m[i].bodies), Closed(m[i].bodies[b].code)
            PROVE  Void(p[m[i].bodies[b].of].result) = m[i].result
        <5>1. ~(i = h /\ b = last)
          BY <1>7, <1>13, <4>2
        <5>2. /\ m2[i].bodies[b].code = m[i].bodies[b].code /\ m2[i].bodies[b].of = m[i].bodies[b].of
              /\ m2[i].result = m[i].result
          BY ONLY <1>8, <5>1
        <5>3. i \in 1..Len(m2) /\ b \in 1..Len(m2[i].bodies)
          BY ONLY <1>9
        <5> QED BY ONLY <3>1, <4>2, <5>2, <5>3 DEF ClosedAgree
      <4> QED BY <4>1, <4>2 DEF ClosedAgree
    <3>2. ASSUME ClosedAgree(p, m), Void(p[Current(m, h).of].result) = m[h].result
          PROVE  ClosedAgree(p, m2)
      <4>1. SUFFICES ASSUME NEW i \in 1..Len(m), NEW b \in 1..Len(m[i].bodies), Closed(m2[i].bodies[b].code)
                     PROVE  Void(p[m2[i].bodies[b].of].result) = m2[i].result
        BY <1>9 DEF ClosedAgree
      <4>2. CASE i = h /\ b = last
        <5>1. m2[i].bodies[b].of = Current(m, h).of /\ m2[i].result = m[h].result
          BY <1>7, <4>2
        <5> QED BY <3>2, <5>1
      <4>3. CASE ~(i = h /\ b = last)
        <5>1. /\ m2[i].bodies[b].code = m[i].bodies[b].code /\ m2[i].bodies[b].of = m[i].bodies[b].of
              /\ m2[i].result = m[i].result
          BY <1>8, <4>3
        <5>2. Closed(m[i].bodies[b].code) => Void(p[m[i].bodies[b].of].result) = m[i].result
          BY <3>2 DEF ClosedAgree
        <5> QED BY <4>1, <5>1, <5>2
      <4> QED BY <4>2, <4>3
    <3> QED BY <3>1, <3>2
  <2> QED BY <1>3, <1>10, <1>11, <1>13, <2>1 DEF OutcomeOK
<1> QED BY <1>12, <1>13

\* Instructions that are no returns are as sound in a body as they are alone.
LEMMA SoundAlone ==
  ASSUME NEW m, NEW m2, SameHeads(m, m2), NEW h \in 1..Len(m), NEW old \in Seq(Instrs),
         NEW instrs \in Seq(Instrs), ~Closed(instrs), NEW k \in 1..Len(instrs),
         instrs[k].op = "call" => instrs[k].callee \in 1..Len(m)
  PROVE  Sound(m2, m2[h], old \o instrs, Len(old) + k) <=> Sound(m, m[h], instrs, k)
<1>1. instrs[k].op \in {"call", "compare"}
  BY Instructions DEF Closed
<1>2. (old \o instrs)[Len(old) + k] = instrs[k]
  OBVIOUS
<1>3. PICK j : j = Len(old) + k
  OBVIOUS
<1>4. PICK code : code = old \o instrs
  OBVIOUS
<1>5. code[j] = instrs[k]
  BY <1>2, <1>3, <1>4
<1>6. CASE instrs[k].op = "compare"
  <2>1. Sound(m2, m2[h], code, j) <=> instrs[k].types[1] = instrs[k].types[2]
    BY <1>5, <1>6, SoundIs
  <2>2. Sound(m, m[h], instrs, k) <=> instrs[k].types[1] = instrs[k].types[2]
    BY <1>6, SoundIs
  <2> QED BY <1>3, <1>4, <2>1, <2>2
<1>7. CASE instrs[k].op = "call"
  <2>1. Suits(m2[instrs[k].callee], instrs[k]) <=> Suits(m[instrs[k].callee], instrs[k])
    BY <1>7 DEF Suits, CountFits, SameHeads
  <2>2. Sound(m2, m2[h], code, j) <=> Suits(m2[instrs[k].callee], instrs[k])
    BY <1>5, <1>7, SoundIs
  <2>3. Sound(m, m[h], instrs, k) <=> Suits(m[instrs[k].callee], instrs[k])
    BY <1>7, SoundIs
  <2> QED BY <1>3, <1>4, <2>1, <2>2, <2>3
<1> QED BY <1>1, <1>6, <1>7

\* All of some code is sound.
CodeSound(m, f, code) == \A k \in 1..Len(code) : Sound(m, f, code, k)

\* The instructions of a call are the next, and they are sound if it fits.
Calling(p, n, m, m2, h, l, instrs, fits) ==
  /\ Len(p) \in Nat /\ n \in 1..Len(p) /\ h \in 1..Len(m) /\ l \in BOOLEAN /\ fits \in BOOLEAN
  /\ instrs \in Seq(Instrs) /\ Len(instrs) > 0 /\ ~Closed(instrs)
  /\ \A k \in 1..Len(instrs) : instrs[k].op = "call" => instrs[k].callee \in 1..Len(m)
  /\ CodeSound(m, m[h], instrs) <=> fits
  /\ IsModule(m) /\ Len(m[h].bodies) > 0 /\ Extends(m, m2, h, instrs)
  /\ Walk(p, n, m, h, l)
  /\ p[n].kind \notin HeadLines \cup {"return"}
  /\ IF Open(m, h)
     THEN /\ p[n].depth > 0
          /\ InBodiesTill(p, n + 1) <=> InBodiesTill(p, n)
          /\ FitTill(p, n + 1) <=> FitTill(p, n) /\ fits
     ELSE /\ ~InBodiesTill(p, n + 1)
          /\ n + 1 <= Len(p) => ~(p[n + 1].depth > 0)
  /\ CalledTill(p, n + 1) <=> CalledTill(p, n)

\* A call goes into a body that is open, and then it counts whether it fits; or
\* it follows a closed one, and then nothing counts any more.
LEMMA CallingKeeps ==
  ASSUME NEW p, NEW n, NEW m, NEW m2, NEW h, NEW l, NEW instrs, NEW fits,
         Calling(p, n, m, m2, h, l, instrs, fits)
  PROVE  Walk(p, n + 1, m2, h, l)
<1> USE DEF Calling, Walk, CodeSound
<1> DEFINE last == Len(m[h].bodies)
<1>1. PICK old \in Seq(Instrs) : old = Current(m, h).code
  <2>1. last \in 1..last /\ h \in 1..Len(m) /\ IsModule(m)
    BY DEF IsModule
  <2>2. m[h].bodies[last].code \in Seq(Instrs)
    BY ONLY <2>1 DEF IsModule
  <2> QED BY <2>2 DEF Current
<1>2. PICK code : code = old \o instrs
  OBVIOUS
<1>3. Closed(code) <=> Closed(old)
  BY <1>2, LongerCode
<1>4. ~Ended(code)
  <2>1. ~Ended(instrs)
    BY DEF Ended, Closed
  <2> QED BY <1>2, <2>1, LongerCode
<1>5. FunctionsOK(p, m2, n + 1) /\ Made(p, m2, h, n + 1)
  <2>1. n \in Nat /\ n + 1 \in Nat /\ n <= n + 1
    OBVIOUS
  <2>2. \A j \in 1..Len(p) : j < n + 1 /\ p[j].kind \in HeadLines => j < n
    OBVIOUS
  <2> QED BY <2>1, <2>2, ExtendingKeeps
<1>6. /\ last \in 1..last /\ Len(m2[h].bodies) = last /\ Current(m2, h).code = code
      /\ Current(m2, h).of = Current(m, h).of /\ m2[h].bodies[last].code = code
      /\ m[h].bodies[last].code = old /\ SameHeads(m, m2)
  <2>1. last \in Nat /\ last \in 1..last
    BY DEF IsModule
  <2>2. Len(m2[h].bodies) = last /\ SameHeads(m, m2)
    BY DEF Extends
  <2>3. m[h].bodies[last].code = old
    BY <1>1 DEF Current
  <2>4. m2[h].bodies[last].code = code /\ m2[h].bodies[last].of = m[h].bodies[last].of
    BY <1>2, <2>1, <2>3 DEF Extends
  <2> QED BY <2>1, <2>2, <2>3, <2>4 DEF Current
<1>7. \A i \in 1..Len(m) : \A b \in 1..Len(m[i].bodies) :
        /\ m2[i].bodies[b].of = m[i].bodies[b].of /\ m2[i].result = m[i].result
        /\ Closed(m2[i].bodies[b].code) <=> Closed(m[i].bodies[b].code)
  <2>1. ASSUME NEW i \in 1..Len(m), NEW b \in 1..Len(m[i].bodies)
        PROVE  /\ m2[i].bodies[b].of = m[i].bodies[b].of /\ m2[i].result = m[i].result
               /\ m2[i].bodies[b].code = IF i = h /\ b = last THEN code ELSE m[i].bodies[b].code
    <3>1. m2[i].bodies[b].of = m[i].bodies[b].of /\ m2[i].result = m[i].result
      BY DEF Extends, SameHeads
    <3>2. CASE i = h /\ b = last
      BY <1>6, <3>1, <3>2
    <3>3. CASE ~(i = h /\ b = last)
      <4>1. Extends(m, m2, h, instrs)
        OBVIOUS
      <4>2. m2[i].bodies[b].code = m[i].bodies[b].code
        BY ONLY <3>3, <4>1 DEF Extends
      <4> QED BY <3>1, <3>3, <4>2
    <3> QED BY <3>2, <3>3
  <2> QED BY <1>3, <1>6, <2>1
<1>8. Len(m2) = Len(m) /\ \A i \in 1..Len(m) : Len(m2[i].bodies) = Len(m[i].bodies)
  BY DEF Extends
<1>9. ClosedAgree(p, m2) <=> ClosedAgree(p, m)
  <2> DEFINE Agrees(q, i, b) == Closed(q[i].bodies[b].code) => Void(p[q[i].bodies[b].of].result) = q[i].result
  <2>1. \A i \in 1..Len(m) : \A b \in 1..Len(m[i].bodies) : Agrees(m2, i, b) <=> Agrees(m, i, b)
    BY <1>7
  <2>2. ClosedAgree(p, m) <=> \A i \in 1..Len(m) : \A b \in 1..Len(m[i].bodies) : Agrees(m, i, b)
    BY DEF ClosedAgree
  <2>3. ClosedAgree(p, m2) <=> \A i \in 1..Len(m2) : \A b \in 1..Len(m2[i].bodies) : Agrees(m2, i, b)
    BY DEF ClosedAgree
  <2> HIDE DEF Agrees
  <2> QED BY ONLY <1>8, <2>1, <2>2, <2>3
<1>10. Open(m2, h) <=> Open(m, h)
  BY <1>1, <1>3, <1>6 DEF Open
<1>11. \A i \in 1..Len(m2) : \A b \in 1..Len(m2[i].bodies) :
         Closed(m2[i].bodies[b].code) \/ (i = h /\ b = Len(m2[i].bodies))
  <2>1. \A i \in 1..Len(m) : \A b \in 1..Len(m[i].bodies) :
          Closed(m[i].bodies[b].code) \/ (i = h /\ b = Len(m[i].bodies))
    BY DEF PlaceOK
  <2>2. ASSUME NEW i \in 1..Len(m2), NEW b \in 1..Len(m2[i].bodies)
        PROVE  Closed(m2[i].bodies[b].code) \/ (i = h /\ b = Len(m2[i].bodies))
    <3>1. i \in 1..Len(m) /\ b \in 1..Len(m[i].bodies) /\ Len(m2[i].bodies) = Len(m[i].bodies)
      BY ONLY <1>8
    <3>2. Closed(m2[i].bodies[b].code) <=> Closed(m[i].bodies[b].code)
      BY ONLY <1>7, <3>1
    <3> QED BY ONLY <2>1, <3>1, <3>2
  <2> QED BY ONLY <2>2
<1>12. AllSound(m2) <=> AllSound(m) /\ ~Closed(old) /\ fits
  <2>1. LET c == Current(m, h).code \o instrs IN
        AllSound(m2) <=> /\ AllSound(m) /\ ~Closed(Current(m, h).code)
                         /\ \A k \in 1..Len(instrs) : Sound(m2, m2[h], c, Len(Current(m, h).code) + k)
    BY ExtendingIsSound
  <2>2. \A k \in 1..Len(instrs) :
          Sound(m2, m2[h], old \o instrs, Len(old) + k) <=> Sound(m, m[h], instrs, k)
    <3>1. SameHeads(m, m2)
      BY <1>6
    <3>2. TAKE k \in 1..Len(instrs)
    <3>3. instrs[k].op = "call" => instrs[k].callee \in 1..Len(m)
      OBVIOUS
    <3> QED BY <3>1, <3>3, SoundAlone
  <2> QED BY <1>1, <2>1, <2>2
<1>13. CASE Open(m, h)
  <2>1. ~Closed(old) /\ p[n].depth > 0 /\ p[n].kind # "return" /\ h > 0
    BY <1>1, <1>13 DEF Open
  <2>2. \A k \in (Current(m, h).of + 1)..n : p[k].depth > 0 /\ p[k].kind # "return"
    <3>1. \A k \in (Current(m, h).of + 1)..(n - 1) : p[k].depth > 0 /\ p[k].kind # "return"
      BY <1>13 DEF PlaceOK
    <3>2. Current(m, h).of \in Nat
      BY <1>6 DEF IsModule, Current
    <3>3. \A k \in (Current(m, h).of + 1)..n : k \in (Current(m, h).of + 1)..(n - 1) \/ k = n
      BY <3>2
    <3> QED BY <2>1, <3>1, <3>3
  <2>3. (n + 1) - 1 = n
    OBVIOUS
  <2>4. PlaceOK(p, m2, h, n + 1)
    BY <1>3, <1>6, <1>10, <1>11, <1>13, <2>1, <2>2, <2>3 DEF PlaceOK
  <2>5. OutcomeOK(p, m2, n + 1, l)
    BY <1>9, <1>12, <1>13, <2>1 DEF OutcomeOK
  <2> QED BY <1>5, <2>4, <2>5
<1>14. CASE ~Open(m, h)
  <2>1. Closed(old) /\ ~InBodiesTill(p, n + 1) /\ (n + 1 <= Len(p) => ~(p[n + 1].depth > 0))
    BY <1>1, <1>14 DEF Open
  <2>2. PlaceOK(p, m2, h, n + 1)
    BY <1>10, <1>11, <1>14, <2>1 DEF PlaceOK
  <2>3. OutcomeOK(p, m2, n + 1, l)
    BY <1>12, <2>1 DEF OutcomeOK
  <2> QED BY <1>5, <2>2, <2>3
<1> QED BY <1>13, <1>14

----------------------------------------------------------------------------
(* What a line more means for the program.                                 *)

LEMMA TillNext ==
  ASSUME Len(prog) \in Nat, NEW n \in 1..Len(prog)
  PROVE  /\ CalledTill(prog, n + 1) <=>
              /\ CalledTill(prog, n)
              /\ (n \in Reached(prog) \/ prog[n].depth = 0) /\ prog[n].kind \in {"call", "value", "while"} =>
                   \E j \in LinesOf(prog, prog[n].fn) : j < n
         /\ InBodiesTill(prog, n + 1) <=>
              /\ InBodiesTill(prog, n)
              /\ prog[n].kind = "call" /\ prog[n].depth = 0 =>
                   \A j \in 1..Len(prog) : j < n => prog[j].kind # "define"
         /\ FitTill(prog, n + 1) <=>
              /\ FitTill(prog, n)
              /\ n \in Reached(prog) /\ prog[n].kind \in {"call", "while"} =>
                   /\ Suits(prog[First(prog, prog[n].fn)], prog[n])
                   /\ prog[n].kind = "while" => Void(prog[First(prog, prog[n].fn)].result) = "int"
<1>1. \A i \in 1..Len(prog) : i < n + 1 <=> i < n \/ i = n
  OBVIOUS
<1>2. Reached(prog) \subseteq 1..Len(prog)
  BY DEF Reached
<1>3. ~(n < n)
  OBVIOUS
<1>4. CalledTill(prog, n + 1) <=>
        /\ CalledTill(prog, n)
        /\ (n \in Reached(prog) \/ prog[n].depth = 0) /\ prog[n].kind \in {"call", "value", "while"} =>
             \E j \in LinesOf(prog, prog[n].fn) : j < n
  BY <1>1, <1>2, Zenon DEF CalledTill
<1>5. InBodiesTill(prog, n + 1) <=>
        /\ InBodiesTill(prog, n)
        /\ prog[n].kind = "call" /\ prog[n].depth = 0 =>
             \A j \in 1..Len(prog) : j < n => prog[j].kind # "define"
  BY <1>1, Zenon DEF InBodiesTill
<1>6. FitTill(prog, n + 1) <=>
        /\ FitTill(prog, n)
        /\ n \in Reached(prog) /\ prog[n].kind \in {"call", "while"} =>
             /\ Suits(prog[First(prog, prog[n].fn)], prog[n])
             /\ prog[n].kind = "while" => Void(prog[First(prog, prog[n].fn)].result) = "int"
  BY <1>1, <1>2, Zenon DEF FitTill
<1> QED BY <1>4, <1>5, <1>6

\* A line that is reached is in the body of the definition that is open.
LEMMA OpenIsReached ==
  ASSUME ProgramInv, Nested, NEW n \in 1..Len(prog), NEW d \in 1..(n - 1), prog[d].kind = "define",
         \A k \in (d + 1)..(n - 1) : prog[k].depth > 0 /\ prog[k].kind # "return", prog[n].depth > 0
  PROVE  Owner(prog, n) = d /\ n \in Reached(prog)
<1>1. Len(prog) \in Nat /\ d \in 1..Len(prog)
  BY LengthsAreNumbers
<1>2. prog[d].depth = 0
  BY <1>1 DEF ProgramInv, HeadLines
<1>3. \A k \in (d + 1)..n : prog[k].depth > 0
  <2>1. \A k \in (d + 1)..n : k \in (d + 1)..(n - 1) \/ k = n
    OBVIOUS
  <2> QED BY <2>1
<1>4. Owner(prog, n) = d
  BY <1>2, <1>3, OwnerIsOne
<1> QED BY <1>4 DEF Reached

\* What follows a return in its body is not reached.
LEMMA TillReturn ==
  ASSUME ProgramInv, Nested, NEW n \in 1..Len(prog), prog[n].kind = "return"
  PROVE  /\ CalledTill(prog, EndOfBody(prog, n)) <=> CalledTill(prog, n)
         /\ InBodiesTill(prog, EndOfBody(prog, n)) <=> InBodiesTill(prog, n)
         /\ FitTill(prog, EndOfBody(prog, n)) <=> FitTill(prog, n)
<1>1. PICK e : e = EndOfBody(prog, n)
  OBVIOUS
<1>2. Len(prog) \in Nat /\ n \in Nat /\ prog[n].depth > 0
  BY LengthsAreNumbers DEF Nested
<1>3. e \in (n + 1)..(Len(prog) + 1) /\ \A k \in (n + 1)..(e - 1) : prog[k].depth > 0
  BY <1>1, EndOfBodySkipsTheBody
<1>4. ASSUME NEW i \in 1..Len(prog), i < e, ~(i < n)
      PROVE  prog[i].depth > 0 /\ (i = n \/ i \notin Reached(prog))
  <2>1. CASE i = n
    BY <1>2, <2>1
  <2>2. CASE i # n
    <3>1. i \in (n + 1)..(e - 1)
      BY <1>2, <1>3, <1>4, <2>2
    <3>2. PICK d \in 1..(n - 1) : d = Owner(prog, n)
      BY <1>2, OwnerIs
    <3>3. prog[d].depth = 0 /\ \A k \in (d + 1)..n : prog[k].depth > 0
      BY <1>2, <3>2, OwnerIs
    <3>4. d \in 1..(i - 1) /\ n \in (d + 1)..(i - 1)
      BY <1>2, <1>3, <3>1, <3>2
    <3>5. \A k \in (d + 1)..i : prog[k].depth > 0
      <4>1. \A k \in (d + 1)..i : k \in (d + 1)..n \/ k \in (n + 1)..(e - 1)
        BY <1>2, <1>3, <3>1
      <4> QED BY <1>3, <3>3, <4>1
    <3>6. Owner(prog, i) = d
      BY <3>3, <3>4, <3>5, OwnerIsOne
    <3>7. i \notin Reached(prog)
      BY <3>4, <3>6 DEF Reached
    <3>8. prog[i].depth > 0
      BY <1>3, <3>1
    <3> QED BY <3>7, <3>8
  <2> QED BY <2>1, <2>2
<1>5. \A i \in 1..Len(prog) : i < n => i < e
  BY <1>2, <1>3
<1>6. Reached(prog) \subseteq 1..Len(prog)
  BY DEF Reached
<1>7. ASSUME NEW i \in 1..Len(prog), i < e, ~(i < n)
      PROVE  prog[i].depth # 0 /\ (i \in Reached(prog) => prog[i].kind = "return")
  <2>1. prog[i] \in Lines
    BY LengthsAreNumbers
  <2> QED BY <1>4, <1>7, <2>1 DEF Lines
<1>8. CalledTill(prog, e) <=> CalledTill(prog, n)
  BY <1>5, <1>6, <1>7 DEF CalledTill
<1>9. InBodiesTill(prog, e) <=> InBodiesTill(prog, n)
  BY <1>5, <1>7 DEF InBodiesTill
<1>10. FitTill(prog, e) <=> FitTill(prog, n)
  BY <1>5, <1>6, <1>7 DEF FitTill
<1> QED BY <1>1, <1>8, <1>9, <1>10

----------------------------------------------------------------------------
(* The steps of the generator.                                             *)

LEMMA EmittedExtends ==
  ASSUME ModuleInv, here # 0, NEW instrs \in Seq(Instrs)
  PROVE  Extends(module, Emitted(instrs), here, instrs)
<1> DEFINE f == module[here]
           n == Len(f.bodies)
           body == [f.bodies[n] EXCEPT !.code = @ \o instrs]
           bodies == [f.bodies EXCEPT ![n] = body]
           g == [f EXCEPT !.bodies = bodies]
<1>1. here \in 1..Len(module) /\ f \in MFunctions /\ f.bodies # <<>> /\ Len(module) \in Nat
      /\ module \in Seq(MFunctions)
  BY DEF ModuleInv
<1>2. f.bodies \in Seq(Bodies) /\ n \in Nat /\ n \in 1..n
  BY <1>1 DEF MFunctions
<1>3. body.of = f.bodies[n].of /\ body.code = f.bodies[n].code \o instrs
  <2>1. f.bodies[n] \in Bodies
    BY <1>2
  <2>2. \A b \in Bodies : [b EXCEPT !.code = @ \o instrs].of = b.of
                         /\ [b EXCEPT !.code = @ \o instrs].code = b.code \o instrs
    BY DEF Bodies
  <2> QED BY <2>1, <2>2
<1>4. Len(bodies) = n /\ bodies[n] = body /\ \A b \in 1..n : b # n => bodies[b] = f.bodies[b]
  <2> HIDE DEF body
  <2> QED BY <1>2
<1>5. g.bodies = bodies /\ g.name = f.name /\ g.types = f.types /\ g.result = f.result /\ g.variadic = f.variadic
  <2> HIDE DEF bodies
  <2> QED BY <1>1 DEF MFunctions
<1>6. Emitted(instrs) = [module EXCEPT ![here] = g]
  BY Zenon DEF Emitted
<1> HIDE DEF g
<1>7. PICK m2 : m2 = Emitted(instrs)
  OBVIOUS
<1>8. Len(m2) = Len(module) /\ m2[here] = g /\ \A i \in 1..Len(module) : i # here => m2[i] = module[i]
  BY <1>1, <1>6, <1>7
<1>9. SameHeads(module, m2)
  BY <1>5, <1>8 DEF SameHeads
<1>10. ASSUME NEW i \in 1..Len(module)
       PROVE  /\ Len(m2[i].bodies) = Len(module[i].bodies)
              /\ i # here => m2[i].bodies = module[i].bodies
              /\ \A b \in 1..Len(module[i].bodies) :
                   /\ m2[i].bodies[b].of = module[i].bodies[b].of
                   /\ m2[i].bodies[b].code = IF i = here /\ b = Len(module[i].bodies)
                                             THEN module[i].bodies[b].code \o instrs ELSE module[i].bodies[b].code
  <2>1. CASE i = here
    <3> HIDE DEF body, bodies
    <3> QED BY <1>3, <1>4, <1>5, <1>8, <2>1
  <2>2. CASE i # here
    BY <1>8, <2>2
  <2> QED BY <2>1, <2>2
<1> QED BY <1>7, <1>8, <1>9, <1>10 DEF Extends

\* What is known when the generator makes a step.
LEMMA Generates ==
  ASSUME BodiesInv, OpenInv, stage = "generate"
  PROVE  /\ Walk(prog, at, module, here, late) /\ ProgramInv /\ Nested /\ ModuleInv /\ IsModule(module)
         /\ Len(prog) \in Nat /\ at \in Nat \ {0} /\ here \in 0..Len(module) /\ Generated(at)
         /\ here > 0 =>
              /\ here \in 1..Len(module) /\ Len(module[here].bodies) > 0
              /\ Current(module, here) = Body(module[here])
              /\ Current(module, here).code \in Seq(Instrs)
              /\ Current(module, here).of \in 1..(at - 1)
              /\ prog[Current(module, here).of].kind = "define"
              /\ Between <=> Ended(Current(module, here).code)
         /\ here = 0 => Between
         /\ ~Between => Open(module, here) \/ ~InBodiesTill(prog, at)
         /\ Open(module, here) => ~Between
<1>1. /\ Walk(prog, at, module, here, late) /\ ProgramInv /\ Nested /\ ModuleInv /\ IsModule(module)
      /\ Len(prog) \in Nat /\ at \in Nat \ {0} /\ here \in 0..Len(module) /\ Generated(at)
  BY LengthsAreNumbers, ModuleIs DEF BodiesInv, OpenInv, Inv, Walk, ModuleInv, ProgramInv
<1>2. ASSUME here > 0
      PROVE  /\ here \in 1..Len(module) /\ Len(module[here].bodies) > 0
             /\ Current(module, here) = Body(module[here])
             /\ Current(module, here).code \in Seq(Instrs)
             /\ Current(module, here).of \in 1..(at - 1)
             /\ prog[Current(module, here).of].kind = "define"
             /\ Between <=> Ended(Current(module, here).code)
  <2>1. here \in 1..Len(module) /\ module[here] \in MFunctions /\ module[here].bodies # <<>>
    BY <1>1, <1>2 DEF ModuleInv
  <2>2. module[here].bodies \in Seq(Bodies) /\ Len(module[here].bodies) > 0
        /\ Len(module[here].bodies) \in 1..Len(module[here].bodies)
    BY <2>1 DEF MFunctions
  <2>3. PICK b : b = Current(module, here)
    OBVIOUS
  <2>4. b = module[here].bodies[Len(module[here].bodies)] /\ b = Body(module[here]) /\ b \in Bodies
    BY <2>2, <2>3 DEF Current, Body
  <2>5. b.code \in Seq(Instrs) /\ b.of \in 1..Len(prog)
    BY <2>4 DEF Bodies
  <2>6. b.of < at /\ prog[b.of].kind = "define"
    BY <1>1, <2>1, <2>2, <2>4 DEF Walk, FunctionsOK, BodyOf
  <2>7. b.of \in 1..(at - 1)
    BY <1>1, <2>5, <2>6
  <2>8. Between <=> b.code # <<>> /\ b.code[Len(b.code)].op = "ret"
    BY <1>2, <2>4 DEF Between, Terminated
  <2>9. b.code # <<>> <=> Len(b.code) > 0
    BY <2>5
  <2>10. Between <=> Ended(b.code)
    BY <2>8, <2>9 DEF Ended
  <2> QED BY <2>1, <2>2, <2>3, <2>4, <2>5, <2>6, <2>7, <2>10
<1>3. here = 0 => Between
  BY DEF Between
<1>4. \A code \in Seq(Instrs) : Ended(code) => Closed(code)
  BY DEF Ended, Closed
<1>5. ASSUME ~Between  PROVE Open(module, here) \/ ~InBodiesTill(prog, at)
  BY <1>1, <1>2, <1>3, <1>5 DEF Walk, PlaceOK, Open
<1>6. ASSUME Open(module, here)  PROVE ~Between
  BY <1>2, <1>4, <1>6 DEF Open
<1> QED BY <1>1, <1>2, <1>3, <1>5, <1>6

\* The return at the end of a body.
LEMMA EndFnOpen ==
  ASSUME BodiesInv, OpenInv, EndFn
  PROVE  Walk(prog, at, module', here, late)
<1>1. stage = "generate" /\ ~Between /\ (at <= Len(prog) => Line.depth = 0)
  BY DEF EndFn
<1>2. /\ Walk(prog, at, module, here, late) /\ ProgramInv /\ Nested /\ ModuleInv /\ IsModule(module)
      /\ Len(prog) \in Nat /\ at \in Nat /\ here \in 0..Len(module) /\ here # 0
      /\ Open(module, here) \/ ~InBodiesTill(prog, at)
  BY <1>1, Generates
<1>3. here > 0
  BY <1>2
<1>4. /\ here \in 1..Len(module) /\ Len(module[here].bodies) > 0
      /\ Current(module, here) = Body(module[here])
      /\ Current(module, here).of \in 1..(at - 1)
      /\ prog[Current(module, here).of].kind = "define"
  BY <1>1, <1>3, Generates
<1> DEFINE t == Void(prog[Current(module, here).of].result)
           ret == Instr("ret", 0, <<t>>)
<1>5. t \in Words
  <2>1. Current(module, here) \in Bodies
    <3>1. module[here] \in MFunctions
      BY <1>2, <1>4 DEF ModuleInv
    <3>2. module[here].bodies \in Seq(Bodies)
      BY <3>1 DEF MFunctions
    <3> QED BY <1>4, <3>2 DEF Current
  <2>2. Current(module, here).of \in 1..Len(prog)
    BY <2>1 DEF Bodies
  <2>3. prog[Current(module, here).of] \in Lines
    BY <1>2, <2>2, LengthsAreNumbers
  <2> QED BY <2>3, LineWords
<1>6. ret \in Instrs /\ ret.op = "ret" /\ ret.types[1] = t
  <2> HIDE DEF t
  <2> QED BY <1>5 DEF Instr, Instrs
<1>7. module' = Emitted(<<ret>>)
  BY <1>4 DEF EndFn
<1> HIDE DEF ret
<1>8. <<ret>> \in Seq(Instrs)
  BY <1>6
<1>9. Extends(module, module', here, <<ret>>)
  BY <1>2, <1>7, <1>8, EmittedExtends
<1>10. at <= Len(prog) => ~(prog[at].depth > 0)
  BY <1>1 DEF Line
<1>11. ret.types[1] = Void(prog[Current(module, here).of].result) /\ at <= at /\ late \in BOOLEAN
  BY <1>2, <1>6 DEF OpenInv
<1>12. /\ FunctionsOK(prog, module, at) /\ Made(prog, module, here, at)
       /\ PlaceOK(prog, module, here, at) /\ OutcomeOK(prog, module, at, late)
  BY <1>2 DEF Walk
<1> HIDE DEF t
<1>13. Closing(prog, at, at, module, module', here, late, ret)
  <2>1. /\ at \in Nat /\ at <= at /\ here \in 1..Len(module) /\ late \in BOOLEAN /\ IsModule(module)
        /\ Len(module[here].bodies) > 0 /\ Walk(prog, at, module, here, late)
    BY <1>2, <1>4, <1>11
  <2>2. ret \in Instrs /\ ret.op = "ret" /\ ret.types[1] = Void(prog[Current(module, here).of].result)
    BY <1>6, <1>11
  <2>3. Open(module, here) \/ ~InBodiesTill(prog, at)
    BY <1>2
  <2> QED BY <1>9, <1>10, <2>1, <2>2, <2>3 DEF Closing
<1> QED BY <1>13, ClosingKeeps

\* A return in a body.
LEMMA ReturnOpen ==
  ASSUME BodiesInv, OpenInv, fn_return
  PROVE  Walk(prog, EndOfBody(prog, at), module', here, late)
<1>1. stage = "generate" /\ at <= Len(prog) /\ Line.kind = "return" /\ Line = prog[at]
  BY DEF fn_return, Generating, Line
<1>2. /\ Walk(prog, at, module, here, late) /\ ProgramInv /\ Nested /\ ModuleInv /\ IsModule(module)
      /\ Len(prog) \in Nat /\ at \in Nat /\ at \in 1..Len(prog)
  BY <1>1, Generates
<1>3. prog[at].depth > 0
  BY <1>1, <1>2 DEF Nested
<1>4. Open(module, here) /\ here > 0
  BY <1>2, <1>3 DEF Walk, PlaceOK, Open
<1>5. /\ here \in 1..Len(module) /\ Len(module[here].bodies) > 0 /\ here # 0
      /\ Current(module, here).of \in 1..(at - 1)
      /\ prog[Current(module, here).of].kind = "define"
  BY <1>1, <1>4, Generates
<1>6. Owner(prog, at) = Current(module, here).of
  <2>1. \A k \in (Current(module, here).of + 1)..(at - 1) : prog[k].depth > 0 /\ prog[k].kind # "return"
    BY <1>2, <1>4 DEF Walk, PlaceOK
  <2> QED BY <1>2, <1>3, <1>5, <2>1, OpenIsReached
<1>7. Void(prog[at].types) = Void(prog[Current(module, here).of].result)
  <2>1. Validated(Len(prog) + 1)
    BY <1>1 DEF OpenInv, Accepted
  <2> QED BY <1>1, <1>2, <1>6, <2>1 DEF Validated
<1> DEFINE t == Void(prog[at].types)
           ret == Instr("ret", 0, <<t>>)
<1>8. t \in Words
  BY <1>2, LengthsAreNumbers, LineWords
<1>9. ret \in Instrs /\ ret.op = "ret" /\ ret.types[1] = t
  <2> HIDE DEF t
  <2> QED BY <1>8 DEF Instr, Instrs
<1>10. module' = Emitted(<<ret>>)
  BY <1>1 DEF fn_return
<1> HIDE DEF ret
<1>11. <<ret>> \in Seq(Instrs)
  BY <1>9
<1>12. Extends(module, module', here, <<ret>>)
  BY <1>2, <1>5, <1>10, <1>11, EmittedExtends
<1>13. PICK e : e = EndOfBody(prog, at)
  OBVIOUS
<1>14. /\ e \in (at + 1)..(Len(prog) + 1) /\ (e <= Len(prog) => prog[e].depth = 0)
       /\ \A j \in 1..Len(prog) : j < e /\ prog[j].kind \in HeadLines => j <= at
  BY <1>2, <1>13, EndOfBodySkipsTheBody, OnlyBodiesAreSkipped
<1>15. \A j \in 1..Len(prog) : j < e /\ prog[j].kind \in HeadLines => j < at
  <2>1. prog[at].kind \notin HeadLines
    BY <1>1 DEF HeadLines
  <2> QED BY <1>2, <1>14, <2>1
<1>16. /\ CalledTill(prog, e) <=> CalledTill(prog, at)
       /\ InBodiesTill(prog, e) <=> InBodiesTill(prog, at)
       /\ FitTill(prog, e) <=> FitTill(prog, at)
  BY <1>1, <1>2, <1>13, TillReturn
<1>17. e \in Nat /\ at <= e /\ (e <= Len(prog) => ~(prog[e].depth > 0))
  BY <1>2, <1>14
<1>18. ret.types[1] = Void(prog[Current(module, here).of].result)
  BY <1>7, <1>9
<1>19. Walk(prog, e, module', here, late)
  <2> HIDE DEF t
  <2>1. late \in BOOLEAN
    BY DEF OpenInv
  <2>2. /\ at \in Nat /\ e \in Nat /\ at <= e /\ here \in 1..Len(module) /\ IsModule(module)
        /\ Len(module[here].bodies) > 0 /\ Walk(prog, at, module, here, late)
    BY <1>2, <1>5, <1>17
  <2>3. ret \in Instrs /\ ret.op = "ret"
    BY <1>9
  <2>4. Closing(prog, at, e, module, module', here, late, ret)
    BY <1>4, <1>12, <1>15, <1>16, <1>17, <1>18, <2>1, <2>2, <2>3 DEF Closing
  <2> QED BY <2>4, ClosingKeeps
<1> QED BY <1>13, <1>19

\* Where a call is met: the builder is in an open body exactly if the call is in
\* one, and the function called is in the module exactly if a line for it came
\* before.
LEMMA CallPlace ==
  ASSUME BodiesInv, OpenInv, fn_call
  PROVE  /\ stage = "generate" /\ at \in 1..Len(prog) /\ Len(prog) \in Nat /\ Line = prog[at] /\ prog[at] \in Lines
         /\ prog[at].kind \in {"call", "value", "while"} /\ prog[at].fn # "renamed"
         /\ prog[at].depth > 0 <=> Open(module, here)
         /\ prog[at].depth > 0 <=> at \in Reached(prog)
         /\ CalledTill(prog, at + 1) <=> CalledTill(prog, at) /\ InModule(prog[at].fn) # {}
         /\ ~Open(module, here) => prog[at].depth = 0 /\ prog[at].kind = "call"
         /\ at + 1 <= Len(prog) /\ prog[at + 1].depth > 0 => Open(module, here)
<1>1. /\ stage = "generate" /\ at <= Len(prog) /\ Line = prog[at] /\ (Line.depth = 0 => Between)
      /\ prog[at].kind \in {"call", "value", "while"}
  BY DEF fn_call, Generating, Line
<1>2. /\ Walk(prog, at, module, here, late) /\ ProgramInv /\ Nested /\ ModuleInv
      /\ Len(prog) \in Nat /\ at \in 1..Len(prog) /\ Generated(at) /\ here \in 0..Len(module)
      /\ Open(module, here) => ~Between
  BY <1>1, Generates
<1>3. prog[at] \in Lines /\ prog[at].depth \in {0, 1} /\ prog[at].fn # "renamed" /\ prog[at].fn \in STRING
  <2>1. prog[at] \in Lines
    BY <1>2, LengthsAreNumbers
  <2> QED BY <2>1 DEF Lines
<1>4. prog[at].depth > 0 <=> Open(module, here)
  <2>1. prog[at].depth > 0 => Open(module, here)
    BY <1>1, <1>2 DEF Walk, PlaceOK
  <2>2. Open(module, here) => prog[at].depth # 0
    BY <1>1, <1>2
  <2> QED BY <1>3, <2>1, <2>2
<1>5. prog[at].depth > 0 <=> at \in Reached(prog)
  <2>1. ASSUME prog[at].depth > 0  PROVE at \in Reached(prog)
    <3>1. Open(module, here) /\ here > 0
      BY <1>4, <2>1 DEF Open
    <3>2. PICK d : d = Current(module, here).of
      OBVIOUS
    <3>3. d \in 1..(at - 1) /\ prog[d].kind = "define"
      BY <1>1, <3>1, <3>2, Generates
    <3>4. \A k \in (d + 1)..(at - 1) : prog[k].depth > 0 /\ prog[k].kind # "return"
      BY <1>2, <3>1, <3>2 DEF Walk, PlaceOK
    <3> QED BY <1>2, <2>1, <3>3, <3>4, OpenIsReached
  <2>2. at \in Reached(prog) => prog[at].depth > 0
    BY DEF Reached
  <2> QED BY <2>1, <2>2
<1>6. (\E j \in LinesOf(prog, prog[at].fn) : j < at) <=> InModule(prog[at].fn) # {}
  <2>1. ASSUME NEW j \in LinesOf(prog, prog[at].fn), j < at  PROVE InModule(prog[at].fn) # {}
    <3>1. j \in 1..Len(prog) /\ prog[j].kind \in HeadLines /\ prog[j].fn = prog[at].fn
      BY DEF LinesOf
    <3>2. Made(prog, module, here, at)
      BY <1>2 DEF Walk
    <3>3. \E i \in 1..Len(module) : module[i].name = prog[j].fn
      BY <2>1, <3>1, <3>2 DEF Made
    <3> QED BY <3>1, <3>3 DEF InModule
  <2>2. ASSUME NEW i \in InModule(prog[at].fn)  PROVE \E j \in LinesOf(prog, prog[at].fn) : j < at
    <3>1. i \in 1..Len(module) /\ module[i].name = prog[at].fn
      BY DEF InModule
    <3> QED BY <1>2, <1>3, <3>1 DEF Generated
  <2> QED BY <2>1, <2>2
<1>7. CalledTill(prog, at + 1) <=> CalledTill(prog, at) /\ InModule(prog[at].fn) # {}
  <2>1. at \in Reached(prog) \/ prog[at].depth = 0
    BY <1>3, <1>5
  <2>2. CalledTill(prog, at + 1) <=>
          /\ CalledTill(prog, at)
          /\ (at \in Reached(prog) \/ prog[at].depth = 0) /\ prog[at].kind \in {"call", "value", "while"} =>
               \E j \in LinesOf(prog, prog[at].fn) : j < at
    BY <1>2, TillNext
  <2> QED BY ONLY <1>1, <1>6, <2>1, <2>2
<1>8. ASSUME ~Open(module, here)  PROVE prog[at].depth = 0 /\ prog[at].kind = "call"
  <2>1. prog[at].depth = 0 /\ ~(prog[at].depth > 0)
    BY <1>3, <1>4, <1>8
  <2> QED BY <1>1, <1>2, <2>1 DEF Nested
<1>9. ASSUME at + 1 <= Len(prog), prog[at + 1].depth > 0  PROVE Open(module, here)
  <2>1. at + 1 \in 1..Len(prog) /\ (at + 1) - 1 = at
    BY <1>2, <1>9
  <2>2. prog[at].kind = "define" \/ prog[at].depth > 0
    BY <1>2, <1>9, <2>1 DEF Nested
  <2> QED BY <1>1, <1>4, <2>2
<1> QED BY <1>1, <1>2, <1>3, <1>4, <1>5, <1>7, <1>8, <1>9

\* A line that is no head leaves functions and bodies as they are asked to be.
LEMMA StayingKeeps ==
  ASSUME NEW p, Len(p) \in Nat, NEW n \in 1..Len(p), NEW m, NEW h, IsModule(m),
         FunctionsOK(p, m, n), Made(p, m, h, n), p[n].kind \notin HeadLines
  PROVE  FunctionsOK(p, m, n + 1) /\ Made(p, m, h, n + 1)
<1>1. FunctionsOK(p, m, n + 1)
  <2>1. ASSUME NEW i \in 1..Len(m), NEW b \in 1..Len(m[i].bodies)
        PROVE  BodyOf(p, m, n + 1, m[i], m[i].bodies[b])
    <3>1. BodyOf(p, m, n, m[i], m[i].bodies[b]) /\ m[i].bodies[b].of \in Nat
      BY DEF FunctionsOK, IsModule
    <3>2. m[i].bodies[b].of < n => m[i].bodies[b].of < n + 1
      BY <3>1
    <3> QED BY <3>1, <3>2 DEF BodyOf
  <2> QED BY <2>1 DEF FunctionsOK
<1>2. Made(p, m, h, n + 1)
  <2>1. \A j \in 1..Len(p) : j < n + 1 => j < n \/ j = n
    OBVIOUS
  <2>2. "define" \in HeadLines
    BY DEF HeadLines
  <2> QED BY <2>1, <2>2 DEF Made
<1> QED BY <1>1, <1>2

\* A call for which nothing is generated, or that is generated nowhere.
LEMMA CallLost ==
  ASSUME BodiesInv, OpenInv, fn_call, module' = module, here = 0 \/ InModule(prog[at].fn) = {},
         NEW l, l = IF InModule(prog[at].fn) = {} THEN TRUE ELSE late
  PROVE  Walk(prog, at + 1, module, here, l)
<1>1. /\ stage = "generate" /\ at \in 1..Len(prog) /\ Len(prog) \in Nat /\ Line = prog[at]
      /\ prog[at].kind \in {"call", "value", "while"}
      /\ prog[at].depth > 0 <=> Open(module, here)
      /\ prog[at].depth > 0 <=> at \in Reached(prog)
      /\ CalledTill(prog, at + 1) <=> CalledTill(prog, at) /\ InModule(prog[at].fn) # {}
      /\ ~Open(module, here) => prog[at].depth = 0 /\ prog[at].kind = "call"
      /\ at + 1 <= Len(prog) /\ prog[at + 1].depth > 0 => Open(module, here)
  BY CallPlace
<1>2. /\ Walk(prog, at, module, here, late) /\ ProgramInv /\ Nested /\ ModuleInv /\ IsModule(module)
      /\ late \in BOOLEAN /\ here \in 0..Len(module)
  BY <1>1, Generates DEF OpenInv
<1>3. prog[at].kind \notin HeadLines /\ prog[at].kind # "return" /\ prog[at].kind # "define"
  BY <1>1 DEF HeadLines
<1>4. /\ FunctionsOK(prog, module, at) /\ Made(prog, module, here, at)
      /\ PlaceOK(prog, module, here, at) /\ OutcomeOK(prog, module, at, late)
  BY <1>2 DEF Walk
<1>5. FunctionsOK(prog, module, at + 1) /\ Made(prog, module, here, at + 1)
  BY <1>1, <1>2, <1>3, <1>4, StayingKeeps
<1>6. InBodiesTill(prog, at + 1) <=>
        /\ InBodiesTill(prog, at)
        /\ prog[at].kind = "call" /\ prog[at].depth = 0 =>
             \A j \in 1..Len(prog) : j < at => prog[j].kind # "define"
  BY <1>1, TillNext
<1>7. PlaceOK(prog, module, here, at + 1)
  <2>1. ASSUME Open(module, here)
        PROVE  \A k \in (Current(module, here).of + 1)..((at + 1) - 1) : prog[k].depth > 0 /\ prog[k].kind # "return"
    <3>1. PICK d : d = Current(module, here).of
      OBVIOUS
    <3>2. here > 0
      BY <2>1 DEF Open
    <3>3. d \in 1..(at - 1)
      BY <1>1, <3>1, <3>2, Generates
    <3>4. \A k \in (d + 1)..(at - 1) : prog[k].depth > 0 /\ prog[k].kind # "return"
      BY <1>4, <2>1, <3>1 DEF PlaceOK
    <3>5. \A k \in (d + 1)..((at + 1) - 1) : k \in (d + 1)..(at - 1) \/ k = at
      BY <1>1, <3>3
    <3> QED BY <1>1, <1>3, <2>1, <3>1, <3>4, <3>5
  <2>2. /\ \A i \in 1..Len(module) : \A b \in 1..Len(module[i].bodies) :
             Closed(module[i].bodies[b].code) \/ (i = here /\ b = Len(module[i].bodies))
        /\ here > 0 /\ Closed(Current(module, here).code) /\ ~Ended(Current(module, here).code) =>
             ~InBodiesTill(prog, at)
    BY <1>4 DEF PlaceOK
  <2> QED BY <1>1, <1>6, <2>1, <2>2 DEF PlaceOK
<1>8. OutcomeOK(prog, module, at + 1, l)
  <2>1. CASE InModule(prog[at].fn) = {}
    <3>1. l = TRUE
      BY <2>1
    <3> QED BY <1>1, <2>1, <3>1 DEF OutcomeOK
  <2>2. CASE InModule(prog[at].fn) # {}
    <3>1. l = late /\ here = 0
      BY <2>2
    <3>2. ~Open(module, here)
      BY <1>2, <3>1 DEF Open
    <3>3. prog[at].depth = 0 /\ prog[at].kind = "call" /\ at \notin Reached(prog)
      BY <1>1, <3>2
    <3>4. \A j \in 1..Len(prog) : j < at => prog[j].kind # "define"
      BY <1>4, <3>1 DEF Made
    <3>5. InBodiesTill(prog, at + 1) <=> InBodiesTill(prog, at)
      BY <1>6, <3>4
    <3>6. FitTill(prog, at + 1) <=> FitTill(prog, at)
      BY <1>1, <3>3, TillNext
    <3>7. CalledTill(prog, at + 1) <=> CalledTill(prog, at)
      BY <1>1, <2>2
    <3>8. OutcomeOK(prog, module, at, late) <=> OutcomeOK(prog, module, at + 1, late)
      BY ONLY <3>5, <3>6, <3>7 DEF OutcomeOK
    <3> QED BY ONLY <1>4, <3>1, <3>8
  <2> QED BY <2>1, <2>2
<1> QED BY <1>5, <1>7, <1>8 DEF Walk

\* What a call says of the function called, and what there is of it in the module.
LEMMA CallFits ==
  ASSUME BodiesInv, OpenInv, fn_call, NEW callee \in InModule(prog[at].fn)
  PROVE  LET sig == prog[First(prog, prog[at].fn)] IN
         /\ callee \in 1..Len(module) /\ module[callee].name = prog[at].fn
         /\ module[callee].result = Void(sig.result)
         /\ Suits(module[callee], prog[at]) <=> Suits(sig, prog[at])
         /\ prog[at].kind = "value" => Suits(sig, prog[at])
<1>1. /\ stage = "generate" /\ at \in 1..Len(prog) /\ Len(prog) \in Nat
      /\ prog[at].kind \in {"call", "value", "while"} /\ prog[at].fn # "renamed"
  BY CallPlace
<1>2. PICK sig : sig = prog[First(prog, prog[at].fn)]
  OBVIOUS
<1>3. callee \in 1..Len(module) /\ module[callee].name = prog[at].fn
  BY DEF InModule
<1>4. module[callee].types = sig.types /\ module[callee].variadic = sig.variadic
      /\ module[callee].result = Void(sig.result)
  <2>1. FunctionsOK(prog, module, at)
    BY <1>1, Generates DEF Walk
  <2>2. AsDeclared(prog, module[callee])
    BY <1>1, <1>3, <2>1 DEF FunctionsOK
  <2> QED BY <1>2, <1>3, <2>2 DEF AsDeclared
<1>5. Suits(module[callee], prog[at]) <=> Suits(sig, prog[at])
  BY <1>4 DEF Suits, CountFits
<1>6. ASSUME prog[at].kind = "value"  PROVE Suits(sig, prog[at])
  <2>1. Accepted
    BY <1>1 DEF Accepted
  <2>2. Checked(Len(prog) + 1) /\ ProgramInv /\ TableInv /\ Firsts
    BY <2>1 DEF BodiesInv, Inv
  <2>3. at < Len(prog) + 1
    BY <1>1
  <2>4. prog[at].fn \in DOMAIN functions
    BY <1>1, <1>6, <2>2, <2>3 DEF Checked, Known
  <2>5. functions[prog[at].fn] = First(prog, prog[at].fn)
    BY <2>2, <2>4, RegisteredIsFirst
  <2>6. Validated(Len(prog) + 1)
    BY <2>1 DEF OpenInv
  <2>7. Suits(Registered(prog[at].fn), prog[at])
    BY <1>1, <1>6, <2>3, <2>6 DEF Validated
  <2> QED BY <1>2, <2>5, <2>7 DEF Registered
<1> QED BY <1>2, <1>3, <1>4, <1>5, <1>6

\* The instructions of a call, and of the condition that it is in.
CodeOf(call, compare, loop) == <<call>> \o (IF loop THEN <<compare>> ELSE <<>>)

LEMMA CallCode ==
  ASSUME NEW call \in Instrs, call.op = "call", NEW compare \in Instrs, compare.op = "compare",
         NEW loop \in BOOLEAN, NEW instrs, instrs = CodeOf(call, compare, loop)
  PROVE  /\ instrs \in Seq(Instrs) /\ Len(instrs) > 0 /\ ~Closed(instrs)
         /\ \A k \in 1..Len(instrs) : instrs[k].op = "call" => instrs[k] = call
<1>1. CASE loop
  <2>1. instrs = <<call>> \o <<compare>>
    BY <1>1 DEF CodeOf
  <2>2. instrs \in Seq(Instrs) /\ Len(instrs) = 2 /\ instrs[1] = call /\ instrs[2] = compare
    BY <2>1
  <2>3. \A k \in 1..Len(instrs) : k = 1 \/ k = 2
    BY <2>2
  <2>4. \A k \in 1..Len(instrs) : instrs[k].op # "ret" /\ (instrs[k].op = "call" => instrs[k] = call)
    BY <2>2, <2>3
  <2>5. ~Closed(instrs)
    BY <2>4 DEF Closed
  <2>6. Len(instrs) > 0
    BY <2>2
  <2> QED BY <1>1, <2>2, <2>4, <2>5, <2>6
<1>2. CASE ~loop
  <2>1. instrs = <<call>> \o <<>>
    BY <1>2 DEF CodeOf
  <2>2. instrs \in Seq(Instrs) /\ Len(instrs) = 1 /\ instrs[1] = call
    BY <2>1
  <2>3. \A k \in 1..Len(instrs) : k = 1
    BY <2>2
  <2>4. \A k \in 1..Len(instrs) : instrs[k].op # "ret" /\ (instrs[k].op = "call" => instrs[k] = call)
    BY <2>2, <2>3
  <2>5. ~Closed(instrs)
    BY <2>4 DEF Closed
  <2>6. Len(instrs) > 0
    BY <2>2
  <2> QED BY <1>2, <2>2, <2>4, <2>5, <2>6
<1> QED BY <1>1, <1>2

LEMMA CallSound ==
  ASSUME NEW m, NEW f, NEW call \in Instrs, call.op = "call", NEW compare \in Instrs, compare.op = "compare",
         NEW loop \in BOOLEAN, NEW instrs, instrs = CodeOf(call, compare, loop)
  PROVE  CodeSound(m, f, instrs) <=>
           Suits(m[call.callee], call) /\ (loop => compare.types[1] = compare.types[2])
<1>1. CASE loop
  <2>1. instrs = <<call>> \o <<compare>>
    BY <1>1 DEF CodeOf
  <2>2. instrs \in Seq(Instrs) /\ Len(instrs) = 2 /\ instrs[1] = call /\ instrs[2] = compare
    BY <2>1
  <2>3. \A k \in 1..Len(instrs) : k = 1 \/ k = 2
    BY <2>2
  <2>4. 1 \in 1..Len(instrs) /\ 2 \in 1..Len(instrs)
    BY <2>2
  <2>5. Sound(m, f, instrs, 1) <=> Suits(m[call.callee], call)
    <3>1. instrs[1].op = "call"
      BY <2>2
    <3>2. Sound(m, f, instrs, 1) <=> Suits(m[instrs[1].callee], instrs[1])
      BY ONLY <3>1, SoundIs
    <3> QED BY <2>2, <3>2
  <2>6. Sound(m, f, instrs, 2) <=> compare.types[1] = compare.types[2]
    <3>1. instrs[2].op = "compare"
      BY <2>2
    <3>2. Sound(m, f, instrs, 2) <=> instrs[2].types[1] = instrs[2].types[2]
      BY ONLY <3>1, SoundIs
    <3> QED BY <2>2, <3>2
  <2> QED BY <1>1, <2>2, <2>3, <2>4, <2>5, <2>6 DEF CodeSound
<1>2. CASE ~loop
  <2>1. instrs = <<call>> \o <<>>
    BY <1>2 DEF CodeOf
  <2>2. instrs \in Seq(Instrs) /\ Len(instrs) = 1 /\ instrs[1] = call
    BY <2>1
  <2>3. \A k \in 1..Len(instrs) : k = 1
    BY <2>2
  <2>4. 1 \in 1..Len(instrs)
    BY <2>2
  <2>5. Sound(m, f, instrs, 1) <=> Suits(m[call.callee], call)
    <3>1. instrs[1].op = "call"
      BY <2>2
    <3>2. Sound(m, f, instrs, 1) <=> Suits(m[instrs[1].callee], instrs[1])
      BY ONLY <3>1, SoundIs
    <3> QED BY <2>2, <3>2
  <2> QED BY <1>2, <2>2, <2>3, <2>4, <2>5 DEF CodeSound
<1> QED BY <1>1, <1>2

\* A call that is generated.
LEMMA CallGenerated ==
  ASSUME BodiesInv, OpenInv, fn_call, here # 0, InModule(prog[at].fn) # {}
  PROVE  Walk(prog, at + 1, module', here, late)
<1>1. /\ stage = "generate" /\ at \in 1..Len(prog) /\ Len(prog) \in Nat /\ Line = prog[at] /\ prog[at] \in Lines
      /\ prog[at].kind \in {"call", "value", "while"}
      /\ prog[at].depth > 0 <=> Open(module, here)
      /\ prog[at].depth > 0 <=> at \in Reached(prog)
      /\ CalledTill(prog, at + 1) <=> CalledTill(prog, at)
      /\ ~Open(module, here) => prog[at].depth = 0 /\ prog[at].kind = "call"
      /\ at + 1 <= Len(prog) /\ prog[at + 1].depth > 0 => Open(module, here)
  BY CallPlace
<1>2. /\ Walk(prog, at, module, here, late) /\ ProgramInv /\ ModuleInv /\ IsModule(module)
      /\ late \in BOOLEAN /\ here \in 0..Len(module) /\ here > 0
  BY <1>1, Generates DEF OpenInv
<1>3. /\ here \in 1..Len(module) /\ Len(module[here].bodies) > 0
      /\ Current(module, here).of \in 1..(at - 1) /\ prog[Current(module, here).of].kind = "define"
  BY <1>1, <1>2, Generates
<1>4. PICK callee \in InModule(prog[at].fn) : callee = CHOOSE i \in InModule(prog[at].fn) : TRUE
  OBVIOUS
<1>5. PICK sig : sig = prog[First(prog, prog[at].fn)]
  OBVIOUS
<1>6. /\ callee \in 1..Len(module) /\ module[callee].result = Void(sig.result)
      /\ Suits(module[callee], prog[at]) <=> Suits(sig, prog[at])
      /\ prog[at].kind = "value" => Suits(sig, prog[at])
  BY <1>5, CallFits
<1>7. PICK call : call = Instr("call", callee, prog[at].types)
  OBVIOUS
<1>8. PICK compare : compare = Instr("compare", 0, <<module[callee].result, "int">>)
  OBVIOUS
<1>9. call \in Instrs /\ call.op = "call" /\ call.callee = callee /\ call.types = prog[at].types
  <2>1. callee \in Nat /\ prog[at].types \in Seq(Words)
    BY <1>1, <1>2, <1>6, LineWords DEF ModuleInv, ProgramInv
  <2> QED BY <1>7, <2>1 DEF Instr, Instrs
<1>10. /\ compare \in Instrs /\ compare.op = "compare"
       /\ compare.types[1] = module[callee].result /\ compare.types[2] = "int"
  <2>1. module[callee].result \in Words
    <3>1. module[callee] \in MFunctions
      BY <1>2, <1>6 DEF ModuleInv
    <3> QED BY <3>1 DEF MFunctions
  <2>2. "int" \in Words
    BY DEF Words
  <2>3. PICK t : t = module[callee].result
    OBVIOUS
  <2>4. <<t, "int">> \in Seq(Words)
    BY <2>1, <2>2, <2>3
  <2>5. compare = [op |-> "compare", callee |-> 0, types |-> <<t, "int">>]
    BY <1>8, <2>3 DEF Instr
  <2> QED BY <2>3, <2>4, <2>5 DEF Instrs
<1>11. PICK loop \in BOOLEAN : loop <=> prog[at].kind = "while"
  OBVIOUS
<1>12. PICK instrs : instrs = CodeOf(call, compare, loop)
  OBVIOUS
<1>13. /\ instrs \in Seq(Instrs) /\ Len(instrs) > 0 /\ ~Closed(instrs)
       /\ \A k \in 1..Len(instrs) : instrs[k].op = "call" => instrs[k] = call
       /\ CodeSound(module, module[here], instrs) <=>
            Suits(module[callee], call) /\ (loop => compare.types[1] = compare.types[2])
  <2>1. call \in Instrs /\ call.op = "call" /\ compare \in Instrs /\ compare.op = "compare" /\ loop \in BOOLEAN
    BY <1>9, <1>10
  <2>2. PICK m : m = module
    OBVIOUS
  <2>3. PICK f : f = module[here]
    OBVIOUS
  <2>4. /\ CodeSound(m, f, instrs) <=> Suits(m[call.callee], call) /\ (loop => compare.types[1] = compare.types[2])
        /\ instrs \in Seq(Instrs) /\ Len(instrs) > 0 /\ ~Closed(instrs)
        /\ \A k \in 1..Len(instrs) : instrs[k].op = "call" => instrs[k] = call
    BY ONLY <1>12, <2>1, CallCode, CallSound
  <2> QED BY <1>9, <2>2, <2>3, <2>4
<1>14. Extends(module, module', here, instrs)
  <2>1. module' = Emitted(<<call>> \o (IF prog[at].kind = "while" THEN <<compare>> ELSE <<>>))
    BY <1>1, <1>4, <1>7, <1>8, Zenon DEF fn_call
  <2>2. module' = Emitted(instrs)
    BY <1>11, <1>12, <2>1 DEF CodeOf
  <2> QED BY <1>2, <1>13, <2>2, EmittedExtends
<1>15. PICK fits \in BOOLEAN : fits <=> (prog[at].kind \in {"call", "while"} =>
                                        Suits(sig, prog[at]) /\ (loop => Void(sig.result) = "int"))
  OBVIOUS
<1>16. CodeSound(module, module[here], instrs) <=> fits
  <2>1. Suits(module[callee], call) <=> Suits(sig, prog[at])
    <3>1. Suits(module[callee], call) <=> Suits(module[callee], prog[at])
      BY <1>9 DEF Suits, CountFits
    <3> QED BY <1>6, <3>1
  <2>2. compare.types[1] = compare.types[2] <=> Void(sig.result) = "int"
    BY <1>6, <1>10
  <2> QED BY <1>1, <1>6, <1>11, <1>13, <1>15, <2>1, <2>2
<1>17. InBodiesTill(prog, at + 1) <=>
         /\ InBodiesTill(prog, at)
         /\ prog[at].kind = "call" /\ prog[at].depth = 0 =>
              \A j \in 1..Len(prog) : j < at => prog[j].kind # "define"
  BY <1>1, TillNext
<1>18. IF Open(module, here)
       THEN /\ prog[at].depth > 0
            /\ InBodiesTill(prog, at + 1) <=> InBodiesTill(prog, at)
            /\ FitTill(prog, at + 1) <=> FitTill(prog, at) /\ fits
       ELSE /\ ~InBodiesTill(prog, at + 1)
            /\ at + 1 <= Len(prog) => ~(prog[at + 1].depth > 0)
  <2>1. CASE Open(module, here)
    <3>1. prog[at].depth > 0 /\ prog[at].depth # 0 /\ at \in Reached(prog)
      BY <1>1, <2>1
    <3>2. FitTill(prog, at + 1) <=>
            /\ FitTill(prog, at)
            /\ at \in Reached(prog) /\ prog[at].kind \in {"call", "while"} =>
                 /\ Suits(prog[First(prog, prog[at].fn)], prog[at])
                 /\ prog[at].kind = "while" => Void(prog[First(prog, prog[at].fn)].result) = "int"
      BY <1>1, TillNext
    <3>3. FitTill(prog, at + 1) <=> FitTill(prog, at) /\ fits
      BY <1>5, <1>11, <1>15, <3>1, <3>2
    <3> QED BY <1>17, <2>1, <3>1, <3>3
  <2>2. CASE ~Open(module, here)
    <3>1. prog[at].depth = 0 /\ prog[at].kind = "call"
      BY <1>1, <2>2
    <3>2. Current(module, here).of \in 1..Len(prog) /\ Current(module, here).of < at
      BY <1>1, <1>3
    <3> QED BY <1>1, <1>3, <1>17, <2>2, <3>1, <3>2
  <2> QED BY <2>1, <2>2
<1>19. Calling(prog, at, module, module', here, late, instrs, fits)
  <2>1. prog[at].kind \notin HeadLines \cup {"return"}
    BY <1>1 DEF HeadLines
  <2>2. \A k \in 1..Len(instrs) : instrs[k].op = "call" => instrs[k].callee \in 1..Len(module)
    BY <1>6, <1>9, <1>13
  <2>3. /\ instrs \in Seq(Instrs) /\ Len(instrs) > 0 /\ ~Closed(instrs)
        /\ Len(prog) \in Nat /\ at \in 1..Len(prog) /\ here \in 1..Len(module) /\ late \in BOOLEAN
        /\ fits \in BOOLEAN /\ IsModule(module) /\ Len(module[here].bodies) > 0
        /\ Walk(prog, at, module, here, late)
        /\ CalledTill(prog, at + 1) <=> CalledTill(prog, at)
    BY <1>1, <1>2, <1>3, <1>13, <1>15
  <2> QED BY <1>14, <1>16, <1>18, <2>1, <2>2, <2>3 DEF Calling
<1> QED BY <1>19, CallingKeeps

\* A head is the next line: a function more, or a definition's body.
Adding(p, n, m, m2, h, h2, l) ==
  /\ Len(p) \in Nat /\ n \in 1..Len(p) /\ IsModule(m) /\ Grows(m, m2) /\ Walk(p, n, m, h, l)
  /\ p[n].kind \in HeadLines /\ p[n].fn # "renamed"
  /\ n + 1 <= Len(p) /\ p[n + 1].depth > 0 => p[n].kind = "define"
  /\ CalledTill(p, n + 1) <=> CalledTill(p, n)
  /\ InBodiesTill(p, n + 1) <=> InBodiesTill(p, n)
  /\ FitTill(p, n + 1) <=> FitTill(p, n)
  /\ h \in 0..Len(m) /\ (h > 0 => Len(m[h].bodies) > 0 /\ Ended(Current(m, h).code))
  /\ \A i \in 1..Len(m2) : i > Len(m) =>
       IF m2[i].name = "renamed" THEN Len(m2[i].bodies) = 0 ELSE AsDeclared(p, m2[i])
  /\ \E i \in 1..Len(m2) : m2[i].name = p[n].fn
  /\ \A i \in 1..Len(m2) : \A b \in 1..Len(m2[i].bodies) : ~(i <= Len(m) /\ b <= Len(m[i].bodies)) =>
       /\ p[n].kind = "define" /\ i = h2 /\ b = Len(m2[i].bodies)
       /\ m2[i].bodies[b].of = n /\ m2[i].name = p[n].fn
  /\ IF p[n].kind = "define"
     THEN /\ h2 \in 1..Len(m2) /\ Len(m2[h2].bodies) > 0
          /\ ~(h2 <= Len(m) /\ Len(m2[h2].bodies) <= Len(m[h2].bodies))
     ELSE h2 = h

LEMMA AddingKeeps ==
  ASSUME NEW p, NEW n, NEW m, NEW m2, NEW h, NEW h2, NEW l, Adding(p, n, m, m2, h, h2, l)
  PROVE  Walk(p, n + 1, m2, h2, l)
<1> DEFINE Old(i, b) == i <= Len(m) /\ b <= Len(m[i].bodies)
<1>1. /\ Len(p) \in Nat /\ n \in 1..Len(p) /\ n \in Nat /\ IsModule(m) /\ Grows(m, m2)
      /\ FunctionsOK(p, m, n) /\ Made(p, m, h, n) /\ PlaceOK(p, m, h, n) /\ OutcomeOK(p, m, n, l)
      /\ p[n].kind \in {"prototype", "define"} /\ p[n].fn # "renamed"
  BY DEF Adding, Walk, HeadLines
<1>2. /\ Len(m) \in Nat /\ Len(m2) \in Nat /\ Len(m) <= Len(m2) /\ SameHeads(m, m2)
      /\ \A i \in 1..Len(m) : i \in 1..Len(m2) /\ Len(m[i].bodies) \in Nat /\ Len(m2[i].bodies) \in Nat
                              /\ Len(m[i].bodies) <= Len(m2[i].bodies)
  BY <1>1 DEF IsModule, Grows
<1>3. ASSUME NEW i \in 1..Len(m2), NEW b \in 1..Len(m2[i].bodies), Old(i, b)
      PROVE  /\ i \in 1..Len(m) /\ b \in 1..Len(m[i].bodies) /\ m2[i].bodies[b] = m[i].bodies[b]
             /\ m2[i].name = m[i].name /\ m2[i].result = m[i].result
  <2>1. i \in 1..Len(m)
    BY <1>2, <1>3
  <2>2. b \in 1..Len(m[i].bodies)
    BY <1>2, <1>3, <2>1
  <2> QED BY <1>1, <1>2, <2>1, <2>2 DEF Grows, SameHeads
<1>4. ASSUME NEW i \in 1..Len(m2), NEW b \in 1..Len(m2[i].bodies), ~Old(i, b)
      PROVE  /\ p[n].kind = "define" /\ i = h2 /\ b = Len(m2[i].bodies) /\ m2[i].name = p[n].fn
             /\ m2[i].bodies[b].of = n /\ m2[i].bodies[b].code = <<>>
  <2>1. m2[i].bodies[b].code = <<>>
    BY <1>1, <1>4 DEF Grows
  <2> QED BY <1>4, <2>1 DEF Adding
<1>5. FunctionsOK(p, m2, n + 1)
  <2>1. ASSUME NEW i \in 1..Len(m2), m2[i].name = "renamed"  PROVE Len(m2[i].bodies) = 0
    <3>1. CASE i <= Len(m)
      <4>1. i \in 1..Len(m)
        BY <1>2, <3>1
      <4>2. Len(m[i].bodies) = 0 /\ Len(m2[i].bodies) \in Nat
        BY <1>1, <1>2, <2>1, <4>1 DEF FunctionsOK, SameHeads
      <4>3. ASSUME Len(m2[i].bodies) # 0  PROVE FALSE
        <5>1. 1 \in 1..Len(m2[i].bodies) /\ ~Old(i, 1)
          BY <4>2, <4>3
        <5>2. m2[i].name = p[n].fn
          BY <1>4, <5>1
        <5> QED BY <1>1, <2>1, <5>2
      <4> QED BY <4>3
    <3>2. CASE i > Len(m)
      BY <2>1, <3>2 DEF Adding
    <3> QED BY <1>2, <3>1, <3>2
  <2>2. ASSUME NEW i \in 1..Len(m2), m2[i].name # "renamed"  PROVE AsDeclared(p, m2[i])
    <3>1. CASE i <= Len(m)
      <4>1. i \in 1..Len(m)
        BY <1>2, <3>1
      <4>2. m2[i].name = m[i].name /\ m2[i].types = m[i].types /\ m2[i].result = m[i].result
            /\ m2[i].variadic = m[i].variadic
        BY <1>2, <4>1 DEF SameHeads
      <4>3. AsDeclared(p, m[i])
        BY <1>1, <2>2, <4>1, <4>2 DEF FunctionsOK
      <4> QED BY <4>2, <4>3 DEF AsDeclared
    <3>2. CASE i > Len(m)
      BY <2>2, <3>2 DEF Adding
    <3> QED BY <1>2, <3>1, <3>2
  <2>3. ASSUME NEW i \in 1..Len(m2), NEW b \in 1..Len(m2[i].bodies)
        PROVE  BodyOf(p, m2, n + 1, m2[i], m2[i].bodies[b])
    <3>1. CASE Old(i, b)
      <4>1. PICK body : body = m[i].bodies[b]
        OBVIOUS
      <4>2. i \in 1..Len(m) /\ b \in 1..Len(m[i].bodies) /\ m2[i].bodies[b] = body /\ m2[i].name = m[i].name
        BY <1>3, <3>1, <4>1
      <4>3. BodyOf(p, m, n, m[i], body) /\ body.of \in Nat
        BY <1>1, <4>1, <4>2 DEF FunctionsOK, IsModule
      <4>4. body.of < n + 1 /\ p[body.of].kind = "define" /\ p[body.of].fn = m2[i].name
        BY <1>1, <4>2, <4>3 DEF BodyOf
      <4>5. \A k \in 1..Len(body.code) : body.code[k].op = "call" => body.code[k].callee \in 1..Len(m2)
        BY <1>2, <4>3 DEF BodyOf
      <4> QED BY <4>2, <4>4, <4>5 DEF BodyOf
    <3>2. CASE ~Old(i, b)
      <4>1. PICK body : body = m2[i].bodies[b]
        OBVIOUS
      <4>2. p[n].kind = "define" /\ m2[i].name = p[n].fn /\ body.of = n /\ body.code = <<>>
        BY <1>4, <3>2, <4>1
      <4>3. Len(body.code) = 0 /\ n < n + 1
        BY <1>1, <4>2
      <4> QED BY <4>1, <4>2, <4>3 DEF BodyOf
    <3> QED BY <3>1, <3>2
  <2> QED BY <2>1, <2>2, <2>3 DEF FunctionsOK
<1>6. Made(p, m2, h2, n + 1)
  <2>1. ASSUME NEW j \in 1..Len(p), j < n, p[j].kind \in HeadLines
        PROVE  /\ \E i \in 1..Len(m2) : m2[i].name = p[j].fn
               /\ p[j].kind = "define" => h2 > 0 /\ HasBody(m2, j)
    <3>1. \E i \in 1..Len(m2) : m2[i].name = p[j].fn
      <4>1. PICK i \in 1..Len(m) : m[i].name = p[j].fn
        BY <1>1, <2>1 DEF Made
      <4> QED BY <1>2, <4>1 DEF SameHeads
    <3>2. ASSUME p[j].kind = "define"  PROVE h2 > 0 /\ HasBody(m2, j)
      <4>1. h > 0 /\ HasBody(m, j)
        BY <1>1, <2>1, <3>2 DEF Made
      <4>2. PICK i \in 1..Len(m) : \E b \in 1..Len(m[i].bodies) : m[i].bodies[b].of = j
        BY <4>1 DEF HasBody
      <4>3. PICK b \in 1..Len(m[i].bodies) : m[i].bodies[b].of = j
        BY <4>2
      <4>4. b \in 1..Len(m2[i].bodies) /\ i \in 1..Len(m2) /\ m2[i].bodies[b] = m[i].bodies[b]
        BY <1>1, <1>2 DEF Grows
      <4>5. HasBody(m2, j)
        BY <4>3, <4>4 DEF HasBody
      <4>6. h2 > 0
        BY <1>1, <1>2, <4>1 DEF Adding
      <4> QED BY <4>5, <4>6
    <3> QED BY <3>1, <3>2
  <2>2. /\ \E i \in 1..Len(m2) : m2[i].name = p[n].fn
        /\ p[n].kind = "define" => h2 > 0 /\ HasBody(m2, n)
    <3>1. ASSUME p[n].kind = "define"  PROVE h2 > 0 /\ HasBody(m2, n)
      <4>1. PICK b : b = Len(m2[h2].bodies)
        OBVIOUS
      <4>2. h2 \in 1..Len(m2) /\ b > 0 /\ ~Old(h2, b)
        BY <3>1, <4>1 DEF Adding
      <4>3. b \in 1..Len(m2[h2].bodies)
        BY <1>1, <4>1, <4>2 DEF Grows
      <4>4. m2[h2].bodies[b].of = n
        BY <1>4, <4>2, <4>3
      <4> QED BY <1>2, <4>2, <4>3, <4>4 DEF HasBody
    <3> QED BY <3>1 DEF Adding
  <2>3. ASSUME NEW j \in 1..Len(p), j < n + 1
        PROVE  /\ p[j].kind \in HeadLines => \E i \in 1..Len(m2) : m2[i].name = p[j].fn
               /\ p[j].kind = "define" => h2 > 0 /\ HasBody(m2, j)
    <3>1. CASE j < n
      <4>1. p[j].kind = "define" => p[j].kind \in HeadLines
        BY DEF HeadLines
      <4> QED BY <2>1, <3>1, <4>1
    <3>2. CASE j = n
      BY <2>2, <3>2
    <3>3. j < n \/ j = n
      BY <1>1, <2>3
    <3> QED BY <3>1, <3>2, <3>3
  <2> QED BY <2>3 DEF Made
<1>7. \A i \in 1..Len(m) : \A b \in 1..Len(m[i].bodies) : Closed(m[i].bodies[b].code)
  <2>1. SUFFICES ASSUME NEW i \in 1..Len(m), NEW b \in 1..Len(m[i].bodies), i = h, b = Len(m[i].bodies)
                 PROVE  Closed(m[i].bodies[b].code)
    BY <1>1 DEF PlaceOK
  <2>2. Ended(m[i].bodies[b].code)
    BY <1>2, <2>1 DEF Adding, Current
  <2>3. m[i].bodies[b].code \in Seq(Instrs)
    BY <1>1 DEF IsModule
  <2> QED BY <2>2, <2>3 DEF Ended, Closed
<1>8. PlaceOK(p, m2, h2, n + 1)
  <2>1. ASSUME NEW i \in 1..Len(m2), NEW b \in 1..Len(m2[i].bodies)
        PROVE  Closed(m2[i].bodies[b].code) \/ (i = h2 /\ b = Len(m2[i].bodies))
    BY <1>3, <1>4, <1>7
  <2>2. CASE p[n].kind = "define"
    <3>1. PICK b : b = Len(m2[h2].bodies)
      OBVIOUS
    <3>2. h2 \in 1..Len(m2) /\ b > 0 /\ ~Old(h2, b)
      BY <2>2, <3>1 DEF Adding
    <3>3. b \in 1..Len(m2[h2].bodies)
      BY <1>1, <3>1, <3>2 DEF Grows
    <3>4. Current(m2, h2).of = n /\ Current(m2, h2).code = <<>>
      BY <1>4, <3>1, <3>2, <3>3 DEF Current
    <3>5. ~Closed(Current(m2, h2).code) /\ h2 > 0
      BY <1>2, <3>2, <3>4 DEF Closed
    <3>6. \A k \in (n + 1)..((n + 1) - 1) : FALSE
      BY <1>1
    <3> QED BY <2>1, <3>4, <3>5, <3>6 DEF PlaceOK, Open
  <2>3. CASE p[n].kind # "define"
    <3>1. h2 = h
      BY <2>3 DEF Adding
    <3>2. ASSUME h > 0  PROVE Closed(Current(m2, h).code) /\ Ended(Current(m2, h).code)
      <4>1. h \in 1..Len(m) /\ Len(m[h].bodies) > 0 /\ Ended(Current(m, h).code)
        BY <1>2, <3>2 DEF Adding
      <4>2. Len(m2[h].bodies) = Len(m[h].bodies)
        <5>1. Len(m[h].bodies) \in Nat /\ Len(m2[h].bodies) \in Nat /\ Len(m[h].bodies) <= Len(m2[h].bodies)
              /\ h \in 1..Len(m2)
          BY <1>2, <4>1
        <5>2. PICK b : b = Len(m2[h].bodies)
          OBVIOUS
        <5>3. b \in 1..Len(m2[h].bodies)
          BY <4>1, <5>1, <5>2
        <5>4. Old(h, b)
          BY <1>4, <2>3, <5>1, <5>3
        <5> QED BY <5>1, <5>2, <5>4
      <4>3. Len(m[h].bodies) \in 1..Len(m[h].bodies)
        BY <1>2, <4>1
      <4>4. m2[h].bodies[Len(m[h].bodies)] = m[h].bodies[Len(m[h].bodies)]
        BY <1>1, <4>1, <4>3 DEF Grows
      <4>5. Current(m2, h) = Current(m, h)
        BY <4>2, <4>4 DEF Current
      <4>6. Closed(Current(m, h).code)
        BY <1>7, <4>1, <4>3 DEF Current
      <4> QED BY <4>1, <4>5, <4>6
    <3>3. ~Open(m2, h2)
      BY <3>1, <3>2 DEF Open
    <3>4. n + 1 <= Len(p) => ~(p[n + 1].depth > 0)
      BY <2>3 DEF Adding
    <3> QED BY <2>1, <3>1, <3>2, <3>3, <3>4 DEF PlaceOK
  <2> QED BY <2>2, <2>3
<1>9. OutcomeOK(p, m2, n + 1, l)
  <2>1. (AllSound(m2) <=> AllSound(m)) /\ (ClosedAgree(p, m2) <=> ClosedAgree(p, m))
    BY <1>1, GrowingIsSound
  <2>2. /\ CalledTill(p, n + 1) <=> CalledTill(p, n)
        /\ InBodiesTill(p, n + 1) <=> InBodiesTill(p, n)
        /\ FitTill(p, n + 1) <=> FitTill(p, n)
    BY DEF Adding
  <2>3. OutcomeOK(p, m, n, l)
    BY <1>1
  <2> QED BY ONLY <2>1, <2>2, <2>3 DEF OutcomeOK
<1> QED BY <1>5, <1>6, <1>8, <1>9 DEF Walk

\* Where a head is met: no body is open, and the first line for a name finds it
\* free.
LEMMA HeadPlace ==
  ASSUME BodiesInv, OpenInv, stage = "generate", at <= Len(prog), Line.depth = 0 => Between,
         prog[at].kind \in HeadLines
  PROVE  /\ Len(prog) \in Nat /\ at \in 1..Len(prog) /\ Line = prog[at] /\ prog[at] \in Lines
         /\ prog[at].fn # "renamed" /\ IsModule(module) /\ Walk(prog, at, module, here, late)
         /\ at + 1 <= Len(prog) /\ prog[at + 1].depth > 0 => prog[at].kind = "define"
         /\ CalledTill(prog, at + 1) <=> CalledTill(prog, at)
         /\ InBodiesTill(prog, at + 1) <=> InBodiesTill(prog, at)
         /\ FitTill(prog, at + 1) <=> FitTill(prog, at)
         /\ here \in 0..Len(module)
         /\ here > 0 => Len(module[here].bodies) > 0 /\ Ended(Current(module, here).code)
         /\ InModule(prog[at].fn) = {} => First(prog, prog[at].fn) = at
<1>1. /\ Walk(prog, at, module, here, late) /\ ProgramInv /\ Nested /\ ModuleInv /\ IsModule(module)
      /\ Len(prog) \in Nat /\ at \in 1..Len(prog) /\ here \in 0..Len(module)
  BY Generates
<1>2. prog[at] \in Lines /\ prog[at].fn # "renamed" /\ Line = prog[at] /\ prog[at].depth = 0
  <2>1. prog[at] \in Lines /\ Line = prog[at] /\ prog[at].depth = 0
    BY <1>1, LengthsAreNumbers DEF Line, ProgramInv
  <2> QED BY <2>1 DEF Lines
<1>3. at + 1 <= Len(prog) /\ prog[at + 1].depth > 0 => prog[at].kind = "define"
  <2>1. SUFFICES ASSUME at + 1 <= Len(prog), prog[at + 1].depth > 0  PROVE prog[at].kind = "define"
    OBVIOUS
  <2>2. at + 1 \in 1..Len(prog) /\ (at + 1) - 1 = at /\ ~(prog[at].depth > 0)
    BY <1>1, <1>2, <2>1
  <2>3. prog[(at + 1) - 1].kind = "define" \/ prog[(at + 1) - 1].depth > 0
    BY <1>1, <2>1, <2>2 DEF Nested
  <2> QED BY <2>2, <2>3
<1>4. prog[at].kind \notin {"call", "value", "while"}
  BY DEF HeadLines
<1>5. /\ CalledTill(prog, at + 1) <=> CalledTill(prog, at)
      /\ InBodiesTill(prog, at + 1) <=> InBodiesTill(prog, at)
      /\ FitTill(prog, at + 1) <=> FitTill(prog, at)
  BY <1>1, <1>4, TillNext
<1>6. here > 0 => Len(module[here].bodies) > 0 /\ Ended(Current(module, here).code)
  BY <1>2, Generates
<1>7. ASSUME InModule(prog[at].fn) = {}  PROVE First(prog, prog[at].fn) = at
  <2>1. ASSUME NEW j \in LinesOf(prog, prog[at].fn)  PROVE j \in Nat /\ at <= j
    <3>1. j \in 1..Len(prog) /\ prog[j].kind \in HeadLines /\ prog[j].fn = prog[at].fn
      BY DEF LinesOf
    <3>2. ASSUME j < at  PROVE FALSE
      <4>1. \E i \in 1..Len(module) : module[i].name = prog[at].fn
        BY <1>1, <3>1, <3>2 DEF Walk, Made
      <4> QED BY <1>7, <4>1 DEF InModule
    <3> QED BY <1>1, <3>1, <3>2
  <2>2. at \in LinesOf(prog, prog[at].fn)
    BY <1>1 DEF LinesOf
  <2> DEFINE IsFirst(j) == \A k \in LinesOf(prog, prog[at].fn) : j <= k
  <2>3. First(prog, prog[at].fn) = CHOOSE j \in LinesOf(prog, prog[at].fn) : IsFirst(j)
    BY DEF First
  <2>4. IsFirst(at)
    BY <2>1
  <2>5. \A j \in LinesOf(prog, prog[at].fn) : IsFirst(j) => j = at
    BY <1>1, <2>1, <2>2
  <2> HIDE DEF IsFirst
  <2> QED BY <2>2, <2>3, <2>4, <2>5
<1> QED BY <1>1, <1>2, <1>3, <1>5, <1>6, <1>7

\* What is created for a line.
LEMMA CreatedAs ==
  ASSUME NEW line \in Lines
  PROVE  /\ Create(line).types = line.types /\ Create(line).variadic = line.variadic
         /\ Create(line).result = Void(line.result) /\ Create(line).bodies = <<>>
<1> DEFINE name == IF \E i \in 1..Len(module) : module[i].name = line.fn THEN "renamed" ELSE line.fn
<1>1. Create(line) = [name |-> name, types |-> line.types, result |-> Void(line.result),
                      variadic |-> line.variadic, bodies |-> <<>>]
  BY DEF Create
<1> HIDE DEF name
<1> QED BY <1>1

\* A module with a function more.
IsAppended(m, m2, f) ==
  /\ IsModule(m) /\ Len(m2) = Len(m) + 1 /\ m2[Len(m) + 1] = f /\ \A i \in 1..Len(m) : m2[i] = m[i]
  /\ Len(f.bodies) \in {0, 1} /\ \A b \in 1..Len(f.bodies) : f.bodies[b].code = <<>>

LEMMA OneMore ==
  ASSUME NEW m, NEW m2, NEW f, IsAppended(m, m2, f)
  PROVE  /\ Grows(m, m2)
         /\ \A i \in 1..Len(m2) : i > Len(m) => i = Len(m) + 1
         /\ \A i \in 1..Len(m2) : \A b \in 1..Len(m2[i].bodies) :
              ~(i <= Len(m) /\ b <= Len(m[i].bodies)) => i = Len(m) + 1 /\ b = 1 /\ Len(f.bodies) = 1
<1> USE DEF IsAppended
<1>1. Len(m) \in Nat /\ Len(m2) \in Nat /\ \A i \in 1..Len(m2) : i \in 1..Len(m) \/ i = Len(m) + 1
  BY DEF IsModule
<1>2. ASSUME NEW i \in 1..Len(m2), NEW b \in 1..Len(m2[i].bodies), ~(i <= Len(m) /\ b <= Len(m[i].bodies))
      PROVE  /\ i = Len(m) + 1 /\ b = 1 /\ Len(f.bodies) = 1 /\ m2[i].bodies[b].code = <<>>
  <2>1. CASE i \in 1..Len(m)
    <3>1. m2[i] = m[i] /\ Len(m[i].bodies) \in Nat
      BY <2>1 DEF IsModule
    <3>2. b <= Len(m[i].bodies)
      BY <3>1
    <3>3. i <= Len(m)
      BY <1>1, <2>1
    <3> QED BY <1>2, <3>2, <3>3
  <2>2. CASE i = Len(m) + 1
    <3>1. m2[i] = f
      BY <2>2
    <3>2. b \in 1..Len(f.bodies)
      BY <1>2, <3>1
    <3>3. Len(f.bodies) = 1 /\ b = 1
      BY <3>2
    <3>4. f.bodies[b].code = <<>>
      BY <3>2
    <3> QED BY <2>2, <3>1, <3>3, <3>4
  <2> QED BY <1>1, <2>1, <2>2
<1>3. SameHeads(m, m2)
  BY DEF SameHeads
<1>4. Grows(m, m2)
  <2>1. Len(m) <= Len(m2)
    BY <1>1
  <2>2. ASSUME NEW i \in 1..Len(m)
        PROVE  /\ Len(m2[i].bodies) \in Nat /\ Len(m[i].bodies) <= Len(m2[i].bodies)
               /\ \A b \in 1..Len(m[i].bodies) : m2[i].bodies[b] = m[i].bodies[b]
    <3>1. m2[i] = m[i] /\ Len(m[i].bodies) \in Nat
      BY DEF IsModule
    <3> QED BY <3>1
  <2> QED BY <1>1, <1>2, <1>3, <2>1, <2>2 DEF Grows
<1>5. \A i \in 1..Len(m2) : i > Len(m) => i = Len(m) + 1
  BY <1>1
<1> QED BY <1>2, <1>4, <1>5

\* A prototype.
LEMMA DeclareOpen ==
  ASSUME BodiesInv, OpenInv, fn_declare
  PROVE  Walk(prog, at + 1, module', here, late)
<1>1. /\ stage = "generate" /\ at <= Len(prog) /\ (Line.depth = 0 => Between) /\ prog[at].kind = "prototype"
      /\ prog[at].kind \in HeadLines
  BY DEF fn_declare, Generating, Line, HeadLines
<1>2. /\ Len(prog) \in Nat /\ at \in 1..Len(prog) /\ Line = prog[at] /\ prog[at] \in Lines
      /\ prog[at].fn # "renamed" /\ IsModule(module) /\ Walk(prog, at, module, here, late)
      /\ at + 1 <= Len(prog) /\ prog[at + 1].depth > 0 => prog[at].kind = "define"
      /\ CalledTill(prog, at + 1) <=> CalledTill(prog, at)
      /\ InBodiesTill(prog, at + 1) <=> InBodiesTill(prog, at)
      /\ FitTill(prog, at + 1) <=> FitTill(prog, at)
      /\ here \in 0..Len(module)
      /\ here > 0 => Len(module[here].bodies) > 0 /\ Ended(Current(module, here).code)
      /\ InModule(prog[at].fn) = {} => First(prog, prog[at].fn) = at
  BY <1>1, HeadPlace
<1>3. PICK f : f = Create(prog[at])
  OBVIOUS
<1>4. /\ f \in MFunctions /\ f.name = IF InModule(prog[at].fn) = {} THEN prog[at].fn ELSE "renamed"
      /\ f.types = prog[at].types /\ f.variadic = prog[at].variadic /\ f.result = Void(prog[at].result)
      /\ f.bodies = <<>> /\ Len(f.bodies) = 0
  <2>1. /\ f \in MFunctions /\ f.name = IF InModule(prog[at].fn) = {} THEN prog[at].fn ELSE "renamed"
        /\ f.types = prog[at].types /\ f.variadic = prog[at].variadic /\ f.result = Void(prog[at].result)
        /\ f.bodies = <<>>
    BY <1>2, <1>3, CreateNames, CreatedAs
  <2> QED BY <2>1
<1>5. PICK m2 : m2 = module'
  OBVIOUS
<1>6. Len(m2) = Len(module) + 1 /\ m2[Len(module) + 1] = f /\ \A i \in 1..Len(module) : m2[i] = module[i]
  <2>1. m2 = Append(module, f) /\ module \in Seq(MFunctions)
    BY <1>2, <1>3, <1>5 DEF fn_declare, BodiesInv, ModuleInv
  <2> QED BY <1>4, <2>1
<1>7. /\ Grows(module, m2)
      /\ \A i \in 1..Len(m2) : i > Len(module) => i = Len(module) + 1
      /\ \A i \in 1..Len(m2) : \A b \in 1..Len(m2[i].bodies) :
           ~(i <= Len(module) /\ b <= Len(module[i].bodies)) => Len(f.bodies) = 1
  <2>1. \A b \in 1..Len(f.bodies) : f.bodies[b].code = <<>>
    BY <1>4
  <2>2. Len(f.bodies) \in {0, 1}
    BY <1>4
  <2>3. IsAppended(module, m2, f)
    BY <1>2, <1>6, <2>1, <2>2 DEF IsAppended
  <2> QED BY <2>3, OneMore
<1>8. f.name # "renamed" => AsDeclared(prog, f)
  BY <1>2, <1>4 DEF AsDeclared
<1>9. \E i \in 1..Len(m2) : m2[i].name = prog[at].fn
  <2>1. CASE InModule(prog[at].fn) = {}
    <3>1. Len(module) + 1 \in 1..Len(m2)
      BY <1>2, <1>6 DEF IsModule
    <3> QED BY <1>4, <1>6, <2>1, <3>1
  <2>2. CASE InModule(prog[at].fn) # {}
    <3>1. PICK i \in 1..Len(module) : module[i].name = prog[at].fn
      BY <2>2 DEF InModule
    <3>2. i \in 1..Len(m2)
      BY <1>2, <1>6 DEF IsModule
    <3> QED BY <1>6, <3>1, <3>2
  <2> QED BY <2>1, <2>2
<1>10. \A i \in 1..Len(m2) : i > Len(module) =>
         IF m2[i].name = "renamed" THEN Len(m2[i].bodies) = 0 ELSE AsDeclared(prog, m2[i])
  BY <1>4, <1>6, <1>7, <1>8
<1>11. Adding(prog, at, module, m2, here, here, late)
  <2>1. \A i \in 1..Len(m2) : \A b \in 1..Len(m2[i].bodies) :
          ~(i <= Len(module) /\ b <= Len(module[i].bodies)) => FALSE
    BY <1>4, <1>7
  <2> QED BY <1>1, <1>2, <1>7, <1>9, <1>10, <2>1 DEF Adding
<1> QED BY <1>5, <1>11, AddingKeeps

\* A definition of a name that is free: a function, with a body.
LEMMA DefineOpen ==
  ASSUME BodiesInv, OpenInv, fn_define, InModule(prog[at].fn) = {}
  PROVE  Walk(prog, at + 1, module', here', late)
<1>1. /\ stage = "generate" /\ at <= Len(prog) /\ (Line.depth = 0 => Between) /\ prog[at].kind = "define"
      /\ prog[at].kind \in HeadLines
  BY DEF fn_define, Generating, Line, HeadLines
<1>2. /\ Len(prog) \in Nat /\ at \in 1..Len(prog) /\ Line = prog[at] /\ prog[at] \in Lines
      /\ prog[at].fn # "renamed" /\ IsModule(module) /\ Walk(prog, at, module, here, late)
      /\ at + 1 <= Len(prog) /\ prog[at + 1].depth > 0 => prog[at].kind = "define"
      /\ CalledTill(prog, at + 1) <=> CalledTill(prog, at)
      /\ InBodiesTill(prog, at + 1) <=> InBodiesTill(prog, at)
      /\ FitTill(prog, at + 1) <=> FitTill(prog, at)
      /\ here \in 0..Len(module)
      /\ here > 0 => Len(module[here].bodies) > 0 /\ Ended(Current(module, here).code)
      /\ First(prog, prog[at].fn) = at
  BY <1>1, HeadPlace
<1>3. PICK body : body = [of |-> at, code |-> <<>>]
  OBVIOUS
<1>4. body \in Bodies /\ body.of = at /\ body.code = <<>>
  BY <1>2, <1>3 DEF Bodies
<1>5. PICK bodies : bodies = <<body>>
  OBVIOUS
<1>6. bodies \in Seq(Bodies) /\ Len(bodies) = 1 /\ bodies[1] = body
  BY <1>4, <1>5
<1>7. PICK g : g = Create(prog[at])
  OBVIOUS
<1>8. /\ g \in MFunctions /\ g.name = prog[at].fn
      /\ g.types = prog[at].types /\ g.variadic = prog[at].variadic /\ g.result = Void(prog[at].result)
  BY <1>2, <1>7, CreateNames, CreatedAs
<1>9. PICK f : f = [g EXCEPT !.bodies = bodies]
  OBVIOUS
<1>10. /\ f \in MFunctions /\ f.name = prog[at].fn /\ f.bodies = bodies
       /\ f.types = prog[at].types /\ f.variadic = prog[at].variadic /\ f.result = Void(prog[at].result)
  BY <1>6, <1>8, <1>9 DEF MFunctions
<1>11. PICK m2 : m2 = module'
  OBVIOUS
<1>12. PICK h2 : h2 = here'
  OBVIOUS
<1>13. /\ Len(m2) = Len(module) + 1 /\ m2[Len(module) + 1] = f
       /\ \A i \in 1..Len(module) : m2[i] = module[i]
       /\ h2 = Len(module) + 1
  <2>1. m2 = Append(module, [Create(Line) EXCEPT !.bodies = <<[of |-> at, code |-> <<>>]>>]) /\ h2 = Len(module) + 1
    BY <1>2, <1>11, <1>12, Zenon DEF fn_define
  <2>2. m2 = Append(module, f)
    BY <1>2, <1>3, <1>5, <1>7, <1>9, <2>1
  <2>3. module \in Seq(MFunctions)
    BY <1>1 DEF BodiesInv, ModuleInv
  <2> QED BY <1>10, <2>1, <2>2, <2>3
<1>14. /\ Grows(module, m2)
       /\ \A i \in 1..Len(m2) : i > Len(module) => i = Len(module) + 1
       /\ \A i \in 1..Len(m2) : \A b \in 1..Len(m2[i].bodies) :
            ~(i <= Len(module) /\ b <= Len(module[i].bodies)) => i = Len(module) + 1 /\ b = 1
  <2>1. \A b \in 1..Len(f.bodies) : f.bodies[b].code = <<>>
    <3>1. \A b \in 1..Len(bodies) : b = 1
      BY <1>6
    <3> QED BY <1>4, <1>6, <1>10, <3>1
  <2>2. Len(f.bodies) \in {0, 1}
    BY <1>6, <1>10
  <2>3. IsAppended(module, m2, f)
    BY <1>2, <1>13, <2>1, <2>2 DEF IsAppended
  <2> QED BY <2>3, OneMore
<1>15. Len(module) \in Nat /\ h2 \in 1..Len(m2) /\ ~(h2 <= Len(module)) /\ m2[h2] = f /\ Len(m2[h2].bodies) = 1
  <2>1. Len(module) \in Nat
    BY <1>2 DEF IsModule
  <2> QED BY <1>6, <1>10, <1>13, <2>1
<1>16. AsDeclared(prog, f)
  BY <1>2, <1>10 DEF AsDeclared
<1>17. \A i \in 1..Len(m2) : i > Len(module) =>
         IF m2[i].name = "renamed" THEN Len(m2[i].bodies) = 0 ELSE AsDeclared(prog, m2[i])
  BY <1>2, <1>10, <1>13, <1>14, <1>16
<1>18. \A i \in 1..Len(m2) : \A b \in 1..Len(m2[i].bodies) :
         ~(i <= Len(module) /\ b <= Len(module[i].bodies)) =>
           /\ prog[at].kind = "define" /\ i = h2 /\ b = Len(m2[i].bodies)
           /\ m2[i].bodies[b].of = at /\ m2[i].name = prog[at].fn
  BY <1>1, <1>4, <1>6, <1>10, <1>13, <1>14
<1>19. Adding(prog, at, module, m2, here, h2, late)
  <2>1. \E i \in 1..Len(m2) : m2[i].name = prog[at].fn
    BY <1>10, <1>15
  <2>2. /\ h2 \in 1..Len(m2) /\ Len(m2[h2].bodies) > 0
        /\ ~(h2 <= Len(module) /\ Len(m2[h2].bodies) <= Len(module[h2].bodies))
    BY <1>15
  <2> QED BY <1>1, <1>2, <1>14, <1>17, <1>18, <2>1, <2>2 DEF Adding
<1> QED BY <1>11, <1>12, <1>19, AddingKeeps

\* A module with a body more for one of its functions.
HasBodyMore(m, m2, h, body) ==
  /\ IsModule(m) /\ h \in 1..Len(m) /\ Len(m2) = Len(m) /\ SameHeads(m, m2) /\ body.code = <<>>
  /\ \A i \in 1..Len(m) : i # h => m2[i].bodies = m[i].bodies
  /\ Len(m2[h].bodies) = Len(m[h].bodies) + 1
  /\ m2[h].bodies[Len(m[h].bodies) + 1] = body
  /\ \A b \in 1..Len(m[h].bodies) : m2[h].bodies[b] = m[h].bodies[b]

LEMMA BodyMore ==
  ASSUME NEW m, NEW m2, NEW h, NEW body, HasBodyMore(m, m2, h, body)
  PROVE  /\ Grows(m, m2)
         /\ \A i \in 1..Len(m2) : \A b \in 1..Len(m2[i].bodies) :
              ~(i <= Len(m) /\ b <= Len(m[i].bodies)) =>
                i = h /\ b = Len(m2[i].bodies) /\ m2[i].bodies[b] = body
<1>1. /\ IsModule(m) /\ h \in 1..Len(m) /\ Len(m2) = Len(m) /\ SameHeads(m, m2) /\ body.code = <<>>
      /\ Len(m) \in Nat /\ \A i \in 1..Len(m) : Len(m[i].bodies) \in Nat
  BY DEF HasBodyMore, IsModule
<1>2. ASSUME NEW i \in 1..Len(m2), NEW b \in 1..Len(m2[i].bodies), ~(i <= Len(m) /\ b <= Len(m[i].bodies))
      PROVE  i = h /\ b = Len(m2[i].bodies) /\ m2[i].bodies[b] = body
  <2>1. i \in 1..Len(m) /\ i <= Len(m) /\ ~(b <= Len(m[i].bodies))
    BY <1>1, <1>2
  <2>2. CASE i # h
    <3>1. m2[i].bodies = m[i].bodies
      BY <2>1, <2>2 DEF HasBodyMore
    <3> QED BY <1>1, <1>2, <2>1, <3>1
  <2>3. CASE i = h
    <3>1. Len(m2[h].bodies) = Len(m[h].bodies) + 1
      BY DEF HasBodyMore
    <3>2. Len(m[h].bodies) \in Nat /\ b \in 1..Len(m2[h].bodies) /\ ~(b <= Len(m[h].bodies))
      BY <1>1, <1>2, <2>1, <2>3
    <3>3. b = Len(m[h].bodies) + 1
      <4>1. PICK x, y : x = Len(m[h].bodies) /\ y = Len(m2[h].bodies)
        OBVIOUS
      <4>2. x \in Nat /\ y = x + 1 /\ b \in 1..y /\ ~(b <= x)
        BY <3>1, <3>2, <4>1
      <4>3. b = x + 1
        BY ONLY <4>2
      <4> QED BY <4>1, <4>3
    <3>4. m2[h].bodies[Len(m[h].bodies) + 1] = body
      BY DEF HasBodyMore
    <3> QED BY <2>3, <3>1, <3>3, <3>4
  <2> QED BY <2>2, <2>3
<1>3. ASSUME NEW i \in 1..Len(m)
      PROVE  /\ Len(m2[i].bodies) \in Nat /\ Len(m[i].bodies) <= Len(m2[i].bodies)
             /\ \A b \in 1..Len(m[i].bodies) : m2[i].bodies[b] = m[i].bodies[b]
  <2>1. CASE i # h
    <3>1. m2[i].bodies = m[i].bodies
      BY <2>1 DEF HasBodyMore
    <3> QED BY <1>1, <3>1
  <2>2. CASE i = h
    <3>1. Len(m2[h].bodies) = Len(m[h].bodies) + 1 /\ \A b \in 1..Len(m[h].bodies) : m2[h].bodies[b] = m[h].bodies[b]
      BY DEF HasBodyMore
    <3>2. Len(m[h].bodies) \in Nat
      BY <1>1
    <3>3. Len(m2[h].bodies) \in Nat /\ Len(m[h].bodies) <= Len(m2[h].bodies)
      BY <3>1, <3>2
    <3> QED BY <2>2, <3>1, <3>3
  <2> QED BY <2>1, <2>2
<1>4. Grows(m, m2)
  BY <1>1, <1>2, <1>3 DEF Grows
<1> QED BY <1>2, <1>4

\* A definition of a name that is taken: a body more.
LEMMA DefineMore ==
  ASSUME BodiesInv, OpenInv, fn_define, InModule(prog[at].fn) # {}
  PROVE  Walk(prog, at + 1, module', here', late)
<1>1. /\ stage = "generate" /\ at <= Len(prog) /\ (Line.depth = 0 => Between) /\ prog[at].kind = "define"
      /\ prog[at].kind \in HeadLines
  BY DEF fn_define, Generating, Line, HeadLines
<1>2. /\ Len(prog) \in Nat /\ at \in 1..Len(prog) /\ Line = prog[at] /\ prog[at] \in Lines
      /\ prog[at].fn # "renamed" /\ IsModule(module) /\ Walk(prog, at, module, here, late)
      /\ at + 1 <= Len(prog) /\ prog[at + 1].depth > 0 => prog[at].kind = "define"
      /\ CalledTill(prog, at + 1) <=> CalledTill(prog, at)
      /\ InBodiesTill(prog, at + 1) <=> InBodiesTill(prog, at)
      /\ FitTill(prog, at + 1) <=> FitTill(prog, at)
      /\ here \in 0..Len(module)
      /\ here > 0 => Len(module[here].bodies) > 0 /\ Ended(Current(module, here).code)
  BY <1>1, HeadPlace
<1>3. PICK body : body = [of |-> at, code |-> <<>>]
  OBVIOUS
<1>4. body \in Bodies /\ body.of = at /\ body.code = <<>>
  BY <1>2, <1>3 DEF Bodies
<1>5. PICK m2 : m2 = module'
  OBVIOUS
<1>6. PICK h2 : h2 = here'
  OBVIOUS
<1>7. h2 \in 1..Len(module) /\ module[h2].name = prog[at].fn
  <2>1. h2 = CHOOSE i \in InModule(prog[at].fn) : TRUE
    BY <1>2, <1>6, Zenon DEF fn_define
  <2>2. h2 \in InModule(prog[at].fn)
    BY <2>1
  <2> QED BY <2>2 DEF InModule
<1>8. PICK f : f = module[h2]
  OBVIOUS
<1>9. module \in Seq(MFunctions) /\ f \in MFunctions /\ f.bodies \in Seq(Bodies)
  <2>1. module \in Seq(MFunctions)
    BY DEF BodiesInv, ModuleInv
  <2>2. f \in MFunctions
    BY <1>7, <1>8, <2>1
  <2> QED BY <2>1, <2>2 DEF MFunctions
<1>10. PICK bodies : bodies = Append(f.bodies, body)
  OBVIOUS
<1>11. /\ bodies \in Seq(Bodies) /\ Len(bodies) = Len(f.bodies) + 1 /\ bodies[Len(f.bodies) + 1] = body
       /\ \A b \in 1..Len(f.bodies) : bodies[b] = f.bodies[b]
  BY <1>4, <1>9, <1>10
<1>12. PICK g : g = [f EXCEPT !.bodies = bodies]
  OBVIOUS
<1>13. /\ g.bodies = bodies /\ g.name = f.name /\ g.types = f.types /\ g.result = f.result
       /\ g.variadic = f.variadic
  BY <1>9, <1>12 DEF MFunctions
<1>14. m2 = [module EXCEPT ![h2] = g]
  <2>1. m2 = [module EXCEPT ![h2].bodies = Append(@, [of |-> at, code |-> <<>>])]
    BY <1>2, <1>5, <1>6, Zenon DEF fn_define
  <2>2. m2 = [module EXCEPT ![h2] = [f EXCEPT !.bodies = Append(@, body)]]
    BY <1>3, <1>8, <2>1, Zenon
  <2> QED BY <1>10, <1>12, <2>2, Zenon
<1>15. Len(m2) = Len(module) /\ m2[h2] = g /\ \A i \in 1..Len(module) : i # h2 => m2[i] = module[i]
  BY <1>7, <1>9, <1>14
<1>16. HasBodyMore(module, m2, h2, body)
  <2>1. SameHeads(module, m2)
    BY <1>8, <1>13, <1>15 DEF SameHeads
  <2>2. /\ Len(m2[h2].bodies) = Len(module[h2].bodies) + 1 /\ m2[h2].bodies[Len(module[h2].bodies) + 1] = body
        /\ \A b \in 1..Len(module[h2].bodies) : m2[h2].bodies[b] = module[h2].bodies[b]
    BY <1>8, <1>11, <1>13, <1>15
  <2> QED BY <1>2, <1>4, <1>7, <1>15, <2>1, <2>2 DEF HasBodyMore
<1>17. /\ Grows(module, m2)
       /\ \A i \in 1..Len(m2) : \A b \in 1..Len(m2[i].bodies) :
            ~(i <= Len(module) /\ b <= Len(module[i].bodies)) =>
              i = h2 /\ b = Len(m2[i].bodies) /\ m2[i].bodies[b] = body
  BY <1>16, BodyMore
<1>18. m2[h2].name = prog[at].fn /\ h2 \in 1..Len(m2) /\ Len(module) \in Nat
  BY <1>2, <1>7, <1>8, <1>13, <1>15 DEF IsModule
<1>19. \A i \in 1..Len(m2) : \A b \in 1..Len(m2[i].bodies) :
         ~(i <= Len(module) /\ b <= Len(module[i].bodies)) =>
           /\ prog[at].kind = "define" /\ i = h2 /\ b = Len(m2[i].bodies)
           /\ m2[i].bodies[b].of = at /\ m2[i].name = prog[at].fn
  BY <1>1, <1>4, <1>17, <1>18
<1>20. Adding(prog, at, module, m2, here, h2, late)
  <2>1. \E i \in 1..Len(m2) : m2[i].name = prog[at].fn
    BY <1>18
  <2>2. /\ h2 \in 1..Len(m2) /\ Len(m2[h2].bodies) > 0
        /\ ~(h2 <= Len(module) /\ Len(m2[h2].bodies) <= Len(module[h2].bodies))
    <3>1. Len(module[h2].bodies) \in Nat /\ Len(m2[h2].bodies) = Len(module[h2].bodies) + 1
      BY <1>2, <1>7, <1>16 DEF HasBodyMore, IsModule
    <3> QED BY <1>18, <3>1
  <2>3. \A i \in 1..Len(m2) : i > Len(module) =>
          IF m2[i].name = "renamed" THEN Len(m2[i].bodies) = 0 ELSE AsDeclared(prog, m2[i])
    BY <1>15, <1>18
  <2> QED BY <1>1, <1>2, <1>17, <1>19, <2>1, <2>2, <2>3 DEF Adding
<1> QED BY <1>5, <1>6, <1>20, AddingKeeps

\* A step of the generator, from where it finds the module to where it leaves it.
LEMMA GeneratingOpen ==
  ASSUME BodiesInv, OpenInv, fn_declare \/ fn_define \/ EndFn \/ fn_call \/ fn_return
  PROVE  OpenInv'
<1>1. /\ stage = "generate" /\ stage' = "generate" /\ UNCHANGED <<prog, functions, errors>>
  BY DEF fn_declare, fn_define, EndFn, fn_call, fn_return, Generating
<1>2. late \in BOOLEAN
  BY DEF OpenInv
<1>3. late' \in BOOLEAN /\ Walk(prog, at', module', here', late')
  <2>1. CASE fn_declare
    <3>1. at' = at + 1 /\ here' = here /\ late' = late
      BY <2>1 DEF fn_declare
    <3> QED BY <1>2, <2>1, <3>1, DeclareOpen
  <2>2. CASE fn_define
    <3>1. at' = at + 1 /\ late' = late
      BY <2>2 DEF fn_define
    <3> QED BY <1>2, <2>2, <3>1, DefineOpen, DefineMore
  <2>3. CASE EndFn
    <3>1. at' = at /\ here' = here /\ late' = late
      BY <2>3 DEF EndFn
    <3> QED BY <1>2, <2>3, <3>1, EndFnOpen
  <2>4. CASE fn_return
    <3>1. at' = EndOfBody(prog, at) /\ here' = here /\ late' = late
      BY <2>4 DEF fn_return
    <3> QED BY <1>2, <2>4, <3>1, ReturnOpen
  <2>5. CASE fn_call
    <3>1. at' = at + 1 /\ here' = here /\ Line = prog[at]
      BY <2>5 DEF fn_call, Line
    <3>2. CASE InModule(prog[at].fn) = {}
      <4>1. late' = TRUE /\ module' = module
        BY <2>5, <3>1, <3>2, Zenon DEF fn_call
      <4>2. PICK l : l = late'
        OBVIOUS
      <4>3. l = IF InModule(prog[at].fn) = {} THEN TRUE ELSE late
        BY <3>2, <4>1, <4>2
      <4>4. Walk(prog, at + 1, module, here, l)
        BY <2>5, <3>2, <4>1, <4>3, CallLost
      <4> QED BY <3>1, <4>1, <4>2, <4>4
    <3>3. CASE InModule(prog[at].fn) # {} /\ here = 0
      <4>1. late' = late
        BY <2>5, <3>1, <3>3, Zenon DEF fn_call
      <4>2. module' = module
        BY <2>5, <3>1, <3>3, Zenon DEF fn_call, Emitted
      <4>3. PICK l : l = late
        OBVIOUS
      <4>4. l = IF InModule(prog[at].fn) = {} THEN TRUE ELSE late
        BY <3>3, <4>3
      <4>5. Walk(prog, at + 1, module, here, l)
        BY <2>5, <3>3, <4>2, <4>4, CallLost
      <4> QED BY <1>2, <3>1, <4>1, <4>2, <4>3, <4>5
    <3>4. CASE InModule(prog[at].fn) # {} /\ here # 0
      <4>1. late' = late
        BY <2>5, <3>1, <3>4, Zenon DEF fn_call
      <4>2. Walk(prog, at + 1, module', here, late)
        BY <2>5, <3>4, CallGenerated
      <4> QED BY <1>2, <3>1, <4>1, <4>2
    <3> QED BY <3>2, <3>3, <3>4
  <2> QED BY <2>1, <2>2, <2>3, <2>4, <2>5
<1>4. Nested' /\ Validated(Len(prog) + 1)'
  BY <1>1 DEF OpenInv, Accepted, Nested, Validated, Registered
<1> QED BY <1>1, <1>3, <1>4 DEF OpenInv, Walk, Accepted, AcceptedCallsVerify

\* Semantic analysis.  The parser puts a body after a definition;
LEMMA ParseOpen ==
  ASSUME BodiesInv, OpenInv, Parse
  PROVE  OpenInv'
<1>1. /\ stage = "parse" /\ stage' = "parse" /\ late' = late /\ prog \in Seq(Lines) /\ Len(prog) \in Nat
  BY LengthsAreNumbers DEF Parse, BodiesInv, Inv, ProgramInv
<1>2. PICK line \in Lines :
        /\ prog' = Append(prog, line)
        /\ line.depth > 0 => prog # <<>> /\ (prog[Len(prog)].kind = "define" \/ prog[Len(prog)].depth > 0)
        /\ line.kind \in {"value", "while", "return"} => line.depth = 1
  BY CallsAssumption DEF Parse
<1>3. /\ Len(prog') = Len(prog) + 1 /\ prog'[Len(prog) + 1] = line
      /\ \A i \in 1..Len(prog) : prog'[i] = prog[i]
  BY <1>1, <1>2
<1>4. Nested'
  <2>1. SUFFICES ASSUME NEW i \in 1..Len(prog')
                 PROVE  /\ prog'[i].depth > 0 => i > 1 /\ (prog'[i - 1].kind = "define" \/ prog'[i - 1].depth > 0)
                        /\ prog'[i].kind \in {"value", "while", "return"} => prog'[i].depth > 0
    BY DEF Nested
  <2>2. CASE i \in 1..Len(prog)
    <3>1. Nested
      BY DEF OpenInv
    <3>2. prog'[i] = prog[i] /\ (i > 1 => prog'[i - 1] = prog[i - 1])
      <4>1. i > 1 => i - 1 \in 1..Len(prog)
        BY <1>1, <2>2
      <4> QED BY <1>3, <2>2, <4>1
    <3> QED BY <2>2, <3>1, <3>2 DEF Nested
  <2>3. CASE i = Len(prog) + 1
    <3>1. prog'[i] = line /\ i - 1 = Len(prog)
      BY <1>1, <1>3, <2>3
    <3>2. prog # <<>> => i > 1 /\ prog'[i - 1] = prog[Len(prog)]
      <4>1. prog # <<>> => Len(prog) \in 1..Len(prog) /\ Len(prog) > 0
        BY <1>1
      <4> QED BY <1>1, <1>3, <2>3, <3>1, <4>1
    <3>3. line.kind \in {"value", "while", "return"} => line.depth > 0
      BY <1>2
    <3> QED BY <1>2, <3>1, <3>2, <3>3
  <2> QED BY <1>1, <1>3, <2>2, <2>3
<1> QED BY <1>1, <1>4 DEF OpenInv, Accepted, AcceptedCallsVerify

\* the second pass looks at the values and the returns of the bodies.
LEMMA ValidateOpen ==
  ASSUME BodiesInv, OpenInv, Validate
  PROVE  OpenInv'
<1>1. /\ stage = "validate" /\ stage' = "validate" /\ late' = late /\ prog' = prog /\ functions' = functions
      /\ at' = at + 1 /\ at \in 1..Len(prog) /\ Len(prog) \in Nat /\ Line = prog[at] /\ prog[at] \in Lines
      /\ ProgramInv /\ TableInv /\ Nested
  <2>1. ProgramInv /\ Len(prog) \in Nat /\ at \in 1..Len(prog)
    BY LengthsAreNumbers DEF Validate, BodiesInv, Inv, ProgramInv
  <2> QED BY <2>1, LengthsAreNumbers DEF Validate, BodiesInv, Inv, OpenInv, Line
<1>2. ASSUME ~errors'  PROVE Validated(at)'
  <2>1. ~errors
    BY <1>2, Zenon DEF Validate, Report, check_value, check_condition, check_return_statement
  <2>2. Validated(at)
    BY <1>1, <2>1 DEF OpenInv
  <2>3. ASSUME prog[at].kind = "value"  PROVE Suits(Registered(prog[at].fn), prog[at])
    <3>1. ~WrongTerm(prog[at])
      <4>1. check_value
        BY <1>1, <2>3 DEF Validate, check_condition, check_return_statement, HeadLines
      <4> QED BY <1>1, <1>2, <4>1, Zenon DEF check_value, Report
    <3>2. Known(prog[at].fn)
      BY <3>1 DEF WrongTerm
    <3>3. PICK sig : sig = Registered(prog[at].fn)
      OBVIOUS
    <3>4. CountFits(sig, prog[at]) /\ \A i \in Fixed(sig, prog[at]) : prog[at].types[i] = sig.types[i]
      BY <3>1, <3>2, <3>3 DEF WrongTerm
    <3>5. sig \in Lines
      <4>1. functions[prog[at].fn] \in 1..Len(prog)
        BY <1>1, <3>2 DEF TableInv, LinesOf, Known
      <4> QED BY <1>1, <3>3, <4>1, LengthsAreNumbers DEF Registered
    <3>6. DOMAIN sig.types \subseteq DOMAIN prog[at].types
      <4>1. \A s, t \in Seq(STRING) : Len(s) <= Len(t) => DOMAIN s \subseteq DOMAIN t
        OBVIOUS
      <4>2. sig.types \in Seq(STRING) /\ prog[at].types \in Seq(STRING)
        BY <1>1, <3>5 DEF Lines
      <4>3. Len(sig.types) \in Nat /\ Len(prog[at].types) \in Nat
        BY <4>2
      <4>4. Len(sig.types) <= Len(prog[at].types)
        BY <3>4, <4>3 DEF CountFits
      <4> QED BY <4>1, <4>2, <4>4
    <3> QED BY <3>3, <3>4, <3>6 DEF Suits, Fixed
  <2>4. ASSUME prog[at].kind = "return"  PROVE Void(prog[at].types) = Void(prog[Owner(prog, at)].result)
    <3>1. PICK fn : fn = prog[Owner(prog, at)]
      OBVIOUS
    <3>2. ~(\/ Len(prog[at].types) # Len(fn.result)
            \/ \E i \in DOMAIN prog[at].types \cap DOMAIN fn.result : prog[at].types[i] # fn.result[i])
      <4>1. check_return_statement
        BY <1>1, <2>4 DEF Validate, check_condition, check_value, HeadLines
      <4> QED BY <1>1, <1>2, <3>1, <4>1, Zenon DEF check_return_statement, Report
    <3>3. fn \in Lines
      <4>1. prog[at].depth > 0
        BY <1>1, <2>4 DEF Nested
      <4>2. Owner(prog, at) \in 1..(at - 1)
        BY <1>1, <4>1, OwnerIs
      <4>3. Owner(prog, at) \in 1..Len(prog)
        BY <1>1, <4>2
      <4> QED BY <1>1, <3>1, <4>3, LengthsAreNumbers
    <3>4. prog[at].types \in Seq(STRING) /\ fn.result \in Seq(STRING)
      BY <1>1, <3>3 DEF Lines
    <3>5. \A s, t \in Seq(STRING) : Len(s) = Len(t) /\ (\A i \in DOMAIN s \cap DOMAIN t : s[i] = t[i]) => s = t
      <4>1. SUFFICES ASSUME NEW s \in Seq(STRING), NEW t \in Seq(STRING), Len(s) = Len(t),
                            \A i \in DOMAIN s \cap DOMAIN t : s[i] = t[i]
                     PROVE  s = t
        OBVIOUS
      <4>2. \A i \in 1..Len(s) : s[i] = t[i]
        BY <4>1
      <4> QED BY <4>1, <4>2
    <3>6. prog[at].types = fn.result
      BY <3>2, <3>4, <3>5
    <3> QED BY <3>1, <3>6
  <2>5. \A i \in 1..Len(prog) : i < at + 1 => i < at \/ i = at
    BY <1>1
  <2> QED BY <1>1, <2>2, <2>3, <2>4, <2>5 DEF Validated, Registered
<1>3. Nested'
  BY <1>1 DEF Nested
<1>4. late \in BOOLEAN /\ ~late
  BY <1>1 DEF OpenInv
<1> QED BY <1>1, <1>2, <1>3, <1>4 DEF OpenInv, Accepted, AcceptedCallsVerify

\* Nothing is generated yet.
LEMMA NothingYet ==
  ASSUME Nested, Len(prog) \in Nat
  PROVE  Walk(prog, 1, <<>>, 0, FALSE)
<1>1. PICK m : m = <<>>
  OBVIOUS
<1>2. Len(m) = 0
  BY <1>1
<1>3. \A i \in 1..Len(m) : FALSE
  BY <1>2
<1>4. \A i \in 1..Len(prog) : ~(i < 1)
  OBVIOUS
<1>5. Reached(prog) \subseteq 1..Len(prog)
  BY DEF Reached
<1>6. FunctionsOK(prog, m, 1) /\ AllSound(m) /\ ClosedAgree(prog, m)
  BY <1>3 DEF FunctionsOK, AllSound, ClosedAgree
<1>7. Made(prog, m, 0, 1) /\ InBodiesTill(prog, 1)
  BY <1>4 DEF Made, InBodiesTill
<1>8. CalledTill(prog, 1) /\ FitTill(prog, 1)
  BY <1>4, <1>5 DEF CalledTill, FitTill
<1>9. PlaceOK(prog, m, 0, 1)
  <2>1. 1 <= Len(prog) => ~(prog[1].depth > 0)
    BY DEF Nested
  <2> QED BY <1>3, <2>1 DEF PlaceOK, Open
<1>10. OutcomeOK(prog, m, 1, FALSE)
  BY <1>6, <1>7, <1>8 DEF OutcomeOK
<1> QED BY <1>1, <1>6, <1>7, <1>9, <1>10 DEF Walk

\* At the end of the file every body is closed: what was followed line by line is
\* what AcceptedCallsVerify says of the program and of the module.
LEMMA AtTheEnd ==
  ASSUME BodiesInv, OpenInv, stage = "generate", at > Len(prog), Between
  PROVE  ~late /\ verifyModule <=>
           CalledInOrder(prog) /\ CallsInBodies(prog) /\ ArgumentsFit(prog) /\ ResultsAgree(prog)
<1>1. /\ ProgramInv /\ IsModule(module) /\ Len(prog) \in Nat /\ at \in Nat /\ late \in BOOLEAN
      /\ here \in 0..Len(module) /\ (here > 0 => Ended(Current(module, here).code))
      /\ FunctionsOK(prog, module, at) /\ Made(prog, module, here, at)
      /\ PlaceOK(prog, module, here, at) /\ OutcomeOK(prog, module, at, late)
  BY Generates DEF Walk, OpenInv
<1>2. \A i \in 1..Len(prog) : i < at
  BY <1>1
<1>3. Reached(prog) \subseteq 1..Len(prog)
  BY DEF Reached
<1>4. CalledTill(prog, at) <=> CalledInOrder(prog)
  BY <1>2, <1>3 DEF CalledTill, CalledInOrder
<1>5. InBodiesTill(prog, at) <=> CallsInBodies(prog)
  BY <1>2 DEF InBodiesTill, CallsInBodies
<1>6. FitTill(prog, at) <=> ArgumentsFit(prog)
  BY <1>2, <1>3 DEF FitTill, ArgumentsFit, Suits
<1>7. AllSound(module) <=> verifyModule
  <2>1. ASSUME NEW i \in 1..Len(module), NEW b \in 1..Len(module[i].bodies), NEW code, code = module[i].bodies[b].code,
               NEW k \in 1..Len(code)
        PROVE  Sound(module, module[i], code, k) <=> Verified(module[i], code, k)
    <3>1. code[k].op \in {"call", "compare", "ret"}
      BY <1>1, <2>1, Instructions DEF IsModule
    <3>2. CASE code[k].op = "ret"
      BY <3>2 DEF Sound, Verified
    <3>3. CASE code[k].op = "compare"
      BY <3>3 DEF Sound, Verified
    <3>4. CASE code[k].op = "call"
      BY <3>4 DEF Sound, Verified, Suits
    <3> QED BY <3>1, <3>2, <3>3, <3>4
  <2>2. verifyModule <=>
          \A i \in 1..Len(module) : \A b \in 1..Len(module[i].bodies) :
            \A k \in 1..Len(module[i].bodies[b].code) : Verified(module[i], module[i].bodies[b].code, k)
    BY DEF verifyModule
  <2> QED BY <2>1, <2>2 DEF AllSound
<1>8. \A i \in 1..Len(module) : \A b \in 1..Len(module[i].bodies) : Closed(module[i].bodies[b].code)
  <2>1. SUFFICES ASSUME NEW i \in 1..Len(module), NEW b \in 1..Len(module[i].bodies), i = here,
                        b = Len(module[i].bodies)
                 PROVE  Closed(module[i].bodies[b].code)
    BY <1>1 DEF PlaceOK
  <2>2. Ended(module[i].bodies[b].code)
    BY <1>1, <2>1 DEF Current
  <2>3. module[i].bodies[b].code \in Seq(Instrs)
    BY <1>1 DEF IsModule
  <2> QED BY <2>2, <2>3 DEF Ended, Closed
<1>9. ASSUME NEW i \in 1..Len(module), NEW b \in 1..Len(module[i].bodies), NEW j, j = module[i].bodies[b].of
      PROVE  j \in 1..Len(prog) /\ prog[j].kind = "define" /\ module[i].result = Void(prog[First(prog, prog[j].fn)].result)
  <2>1. BodyOf(prog, module, at, module[i], module[i].bodies[b])
    BY <1>1 DEF FunctionsOK
  <2>2. prog[j].kind = "define" /\ prog[j].fn = module[i].name
    BY <1>9, <2>1 DEF BodyOf
  <2>3. module[i].name # "renamed"
    <3>1. Len(module[i].bodies) \in Nat /\ Len(module[i].bodies) # 0
      BY <1>1 DEF IsModule
    <3> QED BY <1>1, <3>1 DEF FunctionsOK
  <2>4. AsDeclared(prog, module[i])
    BY <1>1, <2>3 DEF FunctionsOK
  <2>5. j \in 1..Len(prog)
    <3>1. ModuleInv
      BY DEF BodiesInv
    <3>2. module[i] \in MFunctions
      BY <3>1 DEF ModuleInv
    <3>3. module[i].bodies[b] \in Bodies
      BY <3>2 DEF MFunctions
    <3> QED BY <1>9, <3>3 DEF Bodies
  <2> QED BY <2>2, <2>4, <2>5 DEF AsDeclared
<1>10. ClosedAgree(prog, module) <=> ResultsAgree(prog)
  <2>1. ASSUME ClosedAgree(prog, module), NEW j \in 1..Len(prog), prog[j].kind = "define"
        PROVE  Void(prog[j].result) = Void(prog[First(prog, prog[j].fn)].result)
    <3>1. PICK i \in 1..Len(module) : \E b \in 1..Len(module[i].bodies) : module[i].bodies[b].of = j
      BY <1>1, <1>2, <2>1 DEF Made, HasBody
    <3>2. PICK b \in 1..Len(module[i].bodies) : module[i].bodies[b].of = j
      BY <3>1
    <3>3. Void(prog[j].result) = module[i].result
      BY <1>8, <2>1, <3>2 DEF ClosedAgree
    <3> QED BY <1>9, <3>2, <3>3
  <2>2. ASSUME ResultsAgree(prog), NEW i \in 1..Len(module), NEW b \in 1..Len(module[i].bodies)
        PROVE  Void(prog[module[i].bodies[b].of].result) = module[i].result
    <3>1. PICK j : j = module[i].bodies[b].of
      OBVIOUS
    <3>2. j \in 1..Len(prog) /\ prog[j].kind = "define" /\ module[i].result = Void(prog[First(prog, prog[j].fn)].result)
      BY <1>9, <3>1
    <3>3. Void(prog[j].result) = Void(prog[First(prog, prog[j].fn)].result)
      BY <2>2, <3>2 DEF ResultsAgree
    <3> QED BY <3>1, <3>2, <3>3
  <2> QED BY <2>1, <2>2 DEF ClosedAgree, ResultsAgree
<1>11. OutcomeOK(prog, module, at, late)
  BY <1>1
<1> QED BY <1>4, <1>5, <1>6, <1>7, <1>10, <1>11 DEF OutcomeOK

\* The ends of the passes.
LEMMA NextPassOpen ==
  ASSUME BodiesInv, OpenInv, NextPass
  PROVE  OpenInv'
<1>1. /\ prog' = prog /\ functions' = functions /\ errors' = errors /\ at' = 1
      /\ module' = module /\ here' = here /\ late' = late /\ Len(prog) \in Nat /\ at \in Nat
  BY LengthsAreNumbers DEF NextPass, BodiesInv, Inv, ProgramInv
<1>2. Nested /\ Nested' /\ late \in BOOLEAN
  BY <1>1 DEF OpenInv, Nested
<1>3. CASE stage = "parse"
  <2>1. stage' = "register" /\ ~late
    BY <1>3 DEF NextPass, OpenInv
  <2> QED BY <1>1, <1>2, <2>1 DEF OpenInv, Accepted, AcceptedCallsVerify
<1>4. CASE stage = "register"
  <2>1. stage' = "validate" /\ ~late
    BY <1>4 DEF NextPass, OpenInv
  <2>2. Validated(1)
    <3>1. \A i \in 1..Len(prog) : ~(i < 1)
      BY <1>1
    <3> QED BY <3>1 DEF Validated
  <2>3. Validated(at)'
    BY <1>1, <2>2 DEF Validated, Registered
  <2> QED BY <1>1, <1>2, <2>1, <2>3 DEF OpenInv, Accepted, AcceptedCallsVerify
<1>5. CASE stage = "validate" /\ errors
  <2>1. stage' = "rejected"
    BY <1>5 DEF NextPass
  <2> QED BY <1>1, <1>2, <2>1 DEF OpenInv, Accepted, AcceptedCallsVerify
<1>6. CASE stage = "validate" /\ ~errors
  <2>1. stage' = "generate" /\ at > Len(prog)
    BY <1>6 DEF NextPass
  <2>2. Validated(Len(prog) + 1)
    <3>1. Validated(at)
      BY <1>6 DEF OpenInv
    <3>2. \A i \in 1..Len(prog) : i < at
      BY <1>1, <2>1
    <3> QED BY <3>1, <3>2 DEF Validated
  <2>3. Validated(Len(prog) + 1)'
    BY <1>1, <2>2 DEF Validated, Registered
  <2>4. module = <<>> /\ here = 0 /\ ~late
    BY <1>6 DEF BodiesInv, OpenInv
  <2>5. late = FALSE
    BY <1>2, <2>4
  <2>6. Walk(prog, 1, <<>>, 0, FALSE)
    BY <1>1, <1>2, NothingYet
  <2>7. Walk(prog, 1, module, here, late)
    BY <2>4, <2>5, <2>6
  <2>8. Walk(prog, at', module', here', late')
    BY <1>1, <2>7
  <2> QED BY <1>1, <1>2, <2>1, <2>3, <2>8 DEF OpenInv, Walk, Accepted, AcceptedCallsVerify
<1>7. CASE stage = "generate"
  <2>1. stage' = "generated" /\ at > Len(prog) /\ Between
    BY <1>7 DEF NextPass
  <2>2. ~late /\ verifyModule <=>
          CalledInOrder(prog) /\ CallsInBodies(prog) /\ ArgumentsFit(prog) /\ ResultsAgree(prog)
    BY <1>7, <2>1, AtTheEnd
  <2>3. verifyModule' <=> verifyModule
    BY <1>1 DEF verifyModule, Verified
  <2>4. AcceptedCallsVerify'
    BY <1>1, <2>2, <2>3 DEF AcceptedCallsVerify
  <2>5. Validated(Len(prog) + 1)'
    <3>1. Validated(Len(prog) + 1)
      BY <1>7 DEF OpenInv, Accepted
    <3> QED BY <1>1, <3>1 DEF Validated, Registered
  <2> QED BY <1>1, <1>2, <2>1, <2>4, <2>5 DEF OpenInv
<1> QED BY <1>3, <1>4, <1>5, <1>6, <1>7 DEF NextPass

\* Semantic analysis and code generation of functions and calls together: for
\* an accepted program nothing is reported and the module passes verification
\* exactly if the program is in order in the respects that the passes of
\* check_semantics do not look at.
THEOREM AcceptedCallsTheorem == Spec => []AcceptedCallsVerify
<1>1. Init => OpenInv
  <2>1. SUFFICES ASSUME Init  PROVE OpenInv
    OBVIOUS
  <2>2. stage = "parse" /\ late = FALSE /\ \A i \in 1..Len(prog) : FALSE
    BY <2>1 DEF Init
  <2>3. Nested
    BY <2>2 DEF Nested
  <2> QED BY <2>2, <2>3 DEF OpenInv, Accepted, AcceptedCallsVerify
<1>2. BodiesInv /\ OpenInv /\ [Next]_cvars => OpenInv'
  <2>1. SUFFICES ASSUME BodiesInv, OpenInv, [Next]_cvars  PROVE OpenInv'
    OBVIOUS
  <2>2. CASE Register
    <3>1. /\ stage = "register" /\ stage' = "register" /\ prog' = prog /\ late' = late
      BY <2>2 DEF Register
    <3> QED BY <2>1, <3>1 DEF OpenInv, Nested, Accepted, AcceptedCallsVerify
  <2>3. CASE UNCHANGED cvars
    <3>1. /\ stage' = stage /\ at' = at /\ prog' = prog /\ functions' = functions /\ errors' = errors
          /\ module' = module /\ here' = here /\ late' = late
      BY <2>3 DEF cvars
    <3>2. Nested' /\ (Validated(at) => Validated(at)') /\ (Validated(Len(prog) + 1) => Validated(Len(prog) + 1)')
      BY <2>1, <3>1 DEF OpenInv, Nested, Validated, Registered
    <3>3. AcceptedCallsVerify'
      <4>1. verifyModule' <=> verifyModule
        BY <3>1 DEF verifyModule, Verified
      <4>2. AcceptedCallsVerify
        BY <2>1 DEF OpenInv
      <4> QED BY <3>1, <4>1, <4>2 DEF AcceptedCallsVerify
    <3> QED BY <2>1, <3>1, <3>2, <3>3 DEF OpenInv, Accepted
  <2> QED BY <2>1, <2>2, <2>3, ParseOpen, NextPassOpen, ValidateOpen, GeneratingOpen DEF Next
<1>3. OpenInv => AcceptedCallsVerify
  BY DEF OpenInv
<1> QED BY <1>1, <1>2, <1>3, BodiesInvariance, PTL DEF Spec
=============================================================================
