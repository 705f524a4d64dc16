------------------------------- MODULE Calls -------------------------------
(***************************************************************************)
(* Functions and calls, from the tree to the module: the two passes of     *)
(* check_semantics over functions (src/sclc/src/semantic.c), and code      *)
(* generation for functions and calls (src/sclc/src/backend/llvm/          *)
(* llvm_irgen.cpp).  The first pass registers every function of the file,  *)
(* the second checks the bodies; the generator goes over the file once.    *)
(*                                                                         *)
(* A program is the list of its lines, as in Ast: on the top level (depth  *)
(* 0) prototypes, definitions and calls, and in bodies                     *)
(*   "call"    a call as an instruction of its own                         *)
(*   "value"   a call that initialises, or is assigned to, a variable of   *)
(*             type result[1]                                              *)
(*   "while"   a loop whose condition compares a call with an int          *)
(*   "return"  the values of the types given                               *)
(* The types of a line are those of its parameters, its arguments or its   *)
(* values.  The type of a string is left out: as an argument or a result   *)
(* it is treated as a pointer is, and what a line of this model assigns is *)
(* always the value of a call, which is no string.                         *)
(***************************************************************************)
EXTENDS Naturals, Sequences, FiniteSets

CONSTANTS Vocabularies,  \* sets of lines: a program is written with one of them
          MaxLines       \* bound on the length of a program

HeadLines == {"prototype", "define"}

\* What the parser makes: heads stand on the top level, and of the rest only
\* calls do.  No name is one that LLVM makes up for a name that is taken.
Lines == [kind : HeadLines \cup {"call", "value", "while", "return"}, depth : {0, 1}, fn : STRING \ {"renamed"},
          types : Seq(STRING), result : Seq(STRING), variadic : BOOLEAN]

ASSUME CallsAssumption ==
  /\ MaxLines \in Nat
  /\ \A vocabulary \in Vocabularies : \A line \in vocabulary :
       /\ line \in Lines
       /\ line.kind \in HeadLines => line.depth = 0
       /\ line.kind \in {"value", "while", "return"} => line.depth = 1

VARIABLES
  prog,      \* the tree
  at,        \* the line of the next instruction
  stage,     \* "parse", "register", "validate", "generate", "generated" or "rejected"
  functions, \* fst.functions: the line registered for each name
  errors,    \* an error was counted before scu_check_errors looked at the counter
  module,    \* the functions of the LLVM module, with what their bodies hold
  here,      \* the function the builder inserts into, 0 before there is one
  late       \* an error was counted by code generation

cvars == <<prog, at, stage, functions, errors, module, here, late>>

Line == prog[at]

\* The end of the body that line i is in, or that follows it.
EndOfBody(p, i) == CHOOSE j \in (i + 1)..(Len(p) + 1) :
  /\ j <= Len(p) => p[j].depth = 0
  /\ \A k \in (i + 1)..(j - 1) : p[k].depth > 0

\* The definition whose body line i is in.
Owner(p, i) == CHOOSE j \in 1..(i - 1) :
  p[j].depth = 0 /\ \A k \in (j + 1)..i : p[k].depth > 0

----------------------------------------------------------------------------
(* Semantic analysis.                                                      *)

Report(wrong) == errors' = (errors \/ wrong)

Known(name) == name \in DOMAIN functions
Registered(name) == prog[functions[name]]

CountFits(sig, call) ==
  IF sig.variadic THEN Len(call.types) >= Len(sig.types) ELSE Len(call.types) = Len(sig.types)

\* The arguments that have a parameter.
Fixed(sig, call) == DOMAIN sig.types \cap DOMAIN call.types

\* Two lines for one function that do not go together.
Mismatch(old, new) ==
  \/ old.variadic # new.variadic
  \/ Len(old.types) # Len(new.types)
  \/ Len(old.result) # Len(new.result)

\* Mutant of register_function: only definitions are compared with what is there.
RegisterUnseen ==
  /\ Line.kind \in HeadLines
  /\ IF Known(Line.fn)
     THEN /\ Report(Registered(Line.fn).kind = "define" /\ Line.kind = "define")
          /\ UNCHANGED functions
     ELSE /\ functions' = [n \in DOMAIN functions \cup {Line.fn} |->
                             IF n = Line.fn THEN at ELSE functions[n]]
          /\ UNCHANGED errors

\* Mutant of register_function: two definitions go together.
RegisterTwice ==
  /\ Line.kind \in HeadLines
  /\ IF Known(Line.fn)
     THEN Report(Mismatch(Registered(Line.fn), Line)) /\ UNCHANGED functions
     ELSE /\ functions' = [n \in DOMAIN functions \cup {Line.fn} |->
                             IF n = Line.fn THEN at ELSE functions[n]]
          /\ UNCHANGED errors

\* The first line for a name stays, also when it is a prototype and the
\* definition follows; types are not compared.
register_function ==
  /\ Line.kind \in HeadLines
  /\ IF Known(Line.fn)
     THEN /\ Report(\/ Mismatch(Registered(Line.fn), Line)
                    \/ Registered(Line.fn).kind = "define" /\ Line.kind = "define")
          /\ UNCHANGED functions
     ELSE /\ functions' = [n \in DOMAIN functions \cup {Line.fn} |->
                             IF n = Line.fn THEN at ELSE functions[n]]
          /\ UNCHANGED errors

\* check_function_call: a parameter that is a pointer takes anything.
WrongCall(call) ==
  IF ~Known(call.fn) THEN TRUE
  ELSE LET sig == Registered(call.fn) IN
       \/ ~CountFits(sig, call)
       \/ \E i \in Fixed(sig, call) : call.types[i] # sig.types[i] /\ sig.types[i] # "ptr"

\* term_type of a call whose value is used.
WrongTerm(call) ==
  IF ~Known(call.fn) THEN TRUE
  ELSE LET sig == Registered(call.fn) IN
       \/ ~CountFits(sig, call)
       \/ \E i \in Fixed(sig, call) : call.types[i] # sig.types[i]
       \/ sig.result = <<>>

TypeOf(call) ==
  IF Known(call.fn) /\ Registered(call.fn).result # <<>> THEN Registered(call.fn).result[1] ELSE "void"

\* Mutant of check_value: the type of a call is looked at, its arguments are not.
check_value_type ==
  /\ Line.kind = "value"
  /\ Report(WrongCall(Line) \/ TypeOf(Line) # Line.result[1])

\* instr_check_variables and instr_typecheck of an initialisation or assignment.
check_value ==
  /\ Line.kind = "value"
  /\ Report(WrongCall(Line) \/ WrongTerm(Line)
            \/ (Line.result[1] # "ptr" /\ TypeOf(Line) # Line.result[1]))

\* check_loop looks at the variables of a condition and not at its types.
check_condition == Line.kind = "while" /\ Report(WrongCall(Line))

check_return_statement ==
  /\ Line.kind = "return"
  /\ LET fn == prog[Owner(prog, at)] IN
     Report(\/ Len(Line.types) # Len(fn.result)
            \/ \E i \in DOMAIN Line.types \cap DOMAIN fn.result : Line.types[i] # fn.result[i])

\* The first pass: all functions, and the calls of the top level.
Register ==
  /\ stage = "register" /\ at <= Len(prog)
  /\ \/ register_function
     \/ Line.kind = "call" /\ Report(WrongCall(Line)) /\ UNCHANGED functions
  /\ at' = EndOfBody(prog, at)
  /\ UNCHANGED <<prog, stage, module, here, late>>

\* The second pass: the bodies.  A call that is an instruction is not looked at.
Validate ==
  /\ stage = "validate" /\ at <= Len(prog)
  /\ \/ check_value \/ check_condition \/ check_return_statement
     \/ Line.kind \in HeadLines \cup {"call"} /\ UNCHANGED errors
  /\ at' = at + 1
  /\ UNCHANGED <<prog, stage, functions, module, here, late>>

----------------------------------------------------------------------------
(* Code generation.  The body of a function is the sequence of those of    *)
(* its instructions that calls have to do with.                            *)

Void(types) == IF types = <<>> THEN "void" ELSE types[1]

\* callee: the function in the module, 0 for no call.
Instr(op, callee, types) == [op |-> op, callee |-> callee, types |-> types]

\* Function::Create renames a function whose name is taken.
Create(line) ==
  [name |-> IF \E i \in 1..Len(module) : module[i].name = line.fn THEN "renamed" ELSE line.fn,
   types |-> line.types, result |-> Void(line.result), variadic |-> line.variadic, bodies |-> <<>>]

\* Module::getFunction.
InModule(name) == {i \in 1..Len(module) : module[i].name = name}

Body(f) == f.bodies[Len(f.bodies)]

\* Where the builder is, a terminator is the last instruction.
Terminated ==
  LET code == Body(module[here]).code IN code # <<>> /\ code[Len(code)].op = "ret"

\* No body is being generated.
Between == IF here = 0 THEN TRUE ELSE Terminated

\* Without an insertion point an instruction is lost.
Emitted(instrs) ==
  IF here = 0 THEN module
  ELSE [module EXCEPT ![here].bodies[Len(module[here].bodies)].code = @ \o instrs]

Generating == stage = "generate" /\ at <= Len(prog) /\ (Line.depth = 0 => Between)

fn_declare ==
  /\ Generating /\ Line.kind = "prototype"
  /\ module' = Append(module, Create(Line))
  /\ at' = at + 1
  /\ UNCHANGED <<prog, stage, functions, errors, here, late>>

\* A function of that name gets a block more: of its blocks the first is run.
fn_define ==
  /\ Generating /\ Line.kind = "define"
  /\ LET there == InModule(Line.fn)
         body == [of |-> at, code |-> <<>>]
     IN  /\ here' = IF there = {} THEN Len(module) + 1 ELSE CHOOSE i \in there : TRUE
         /\ module' = IF there = {} THEN Append(module, [Create(Line) EXCEPT !.bodies = <<body>>])
                      ELSE [module EXCEPT ![here'].bodies = Append(@, body)]
  /\ at' = at + 1
  /\ UNCHANGED <<prog, stage, functions, errors, late>>

\* The return at the end of a body that has none is of the type of the
\* definition.
EndFn ==
  /\ stage = "generate" /\ ~Between
  /\ at <= Len(prog) => Line.depth = 0
  /\ LET fn == prog[Body(module[here]).of] IN
     module' = Emitted(<<Instr("ret", 0, <<Void(fn.result)>>)>>)
  /\ UNCHANGED <<prog, at, stage, functions, errors, here, late>>

\* Nothing is generated for a call of a function that is not in the module.
fn_call ==
  /\ Generating /\ Line.kind \in {"call", "value", "while"}
  /\ LET there == InModule(Line.fn) IN
     IF there = {} THEN late' = TRUE /\ UNCHANGED module
     ELSE LET callee == CHOOSE i \in there : TRUE
              compare == IF Line.kind = "while"
                         THEN <<Instr("compare", 0, <<module[callee].result, "int">>)>> ELSE <<>>
          IN  module' = Emitted(<<Instr("call", callee, Line.types)>> \o compare) /\ UNCHANGED late
  /\ at' = at + 1
  /\ UNCHANGED <<prog, stage, functions, errors, here>>

\* What follows a return in the body is not generated.
fn_return ==
  /\ Generating /\ Line.kind = "return"
  /\ module' = Emitted(<<Instr("ret", 0, <<Void(Line.types)>>)>>)
  /\ at' = EndOfBody(prog, at)
  /\ UNCHANGED <<prog, stage, functions, errors, here, late>>

----------------------------------------------------------------------------
Parse ==
  /\ stage = "parse" /\ Len(prog) < MaxLines
  /\ \E vocabulary \in Vocabularies : \E line \in vocabulary :
       /\ \A i \in 1..Len(prog) : prog[i] \in vocabulary
       /\ line.depth > 0 => prog # <<>> /\ (prog[Len(prog)].kind = "define" \/ prog[Len(prog)].depth > 0)
       /\ prog' = Append(prog, line)
  /\ UNCHANGED <<at, stage, functions, errors, module, here, late>>

\* The end of a pass; after the second the counter is looked at.
NextPass ==
  /\ stage \in {"parse", "register", "validate", "generate"}
  /\ stage' = CASE stage = "parse" -> "register" [] stage = "register" -> "validate"
                [] stage = "validate" -> (IF errors THEN "rejected" ELSE "generate")
                [] stage = "generate" -> "generated"
  /\ stage # "parse" => at > Len(prog)
  /\ stage = "generate" => Between
  /\ at' = 1
  /\ UNCHANGED <<prog, functions, errors, module, here, late>>

Init ==
  /\ prog = <<>> /\ at = 1 /\ stage = "parse" /\ functions = <<>> /\ errors = FALSE
  /\ module = <<>> /\ here = 0 /\ late = FALSE

Next ==
  \/ Parse \/ NextPass \/ Register \/ Validate
  \/ fn_declare \/ fn_define \/ EndFn \/ fn_call \/ fn_return

Spec == Init /\ [][Next]_cvars

----------------------------------------------------------------------------
(* Properties.                                                             *)

Accepted == stage \in {"generate", "generated"}

LinesOf(p, name) == {i \in 1..Len(p) : p[i].kind \in HeadLines /\ p[i].fn = name}
First(p, name) == CHOOSE i \in LinesOf(p, name) : \A j \in LinesOf(p, name) : i <= j

\* In an accepted program a call whose value is used has, wherever the
\* function is declared or defined in the file, the number of arguments that
\* is said there: check_function_call compares it with one of these lines only.
CallsAgree ==
  Accepted =>
  \A i \in 1..Len(prog) :
    prog[i].kind \in {"value", "while"} =>
      /\ LinesOf(prog, prog[i].fn) # {}
      /\ \A j \in LinesOf(prog, prog[i].fn) : CountFits(prog[j], prog[i])

\* In the module of an accepted program a function has one body, so that none
\* is lost without a word, unless a prototype comes first in the file.
OneBody ==
  stage = "generated" =>
  \A i \in 1..Len(module) :
    module[i].name # "renamed" /\ prog[First(prog, module[i].name)].kind = "define" =>
      Len(module[i].bodies) = 1

\* llvm::verifyModule, for calls and returns.
Verified(f, code, i) ==
  CASE code[i].op = "ret" -> i = Len(code) /\ code[i].types[1] = f.result
    [] code[i].op = "compare" -> code[i].types[1] = code[i].types[2]
    [] code[i].op = "call" ->
         LET callee == module[code[i].callee] IN
         /\ CountFits(callee, code[i])
         /\ \A k \in DOMAIN callee.types : code[i].types[k] = callee.types[k]

verifyModule ==
  \A f \in {module[i] : i \in 1..Len(module)} : \A b \in 1..Len(f.bodies) :
    LET code == f.bodies[b].code IN \A i \in 1..Len(code) : Verified(f, code, i)

\* The lines of bodies for which code is generated: those up to a return.
Reached(p) == {i \in 1..Len(p) :
  p[i].depth > 0 /\ ~\E k \in (Owner(p, i) + 1)..(i - 1) : p[k].kind = "return"}

\* What semantic analysis does not see to.  A call comes after its function,
\* or a prototype of it, and in a body;
CalledInOrder(p) == \A i \in Reached(p) \cup {k \in 1..Len(p) : p[k].depth = 0} :
  p[i].kind \in {"call", "value", "while"} => \E j \in LinesOf(p, p[i].fn) : j < i
CallsInBodies(p) == \A i, j \in 1..Len(p) :
  p[i].kind = "call" /\ p[i].depth = 0 /\ j < i => p[j].kind # "define"
\* a call that is an instruction, or in a condition, fits its function,
ArgumentsFit(p) == \A i \in Reached(p) :
  p[i].kind \in {"call", "while"} =>
    LET sig == p[First(p, p[i].fn)] IN
    /\ CountFits(sig, p[i]) /\ \A k \in DOMAIN sig.types : p[i].types[k] = sig.types[k]
    /\ p[i].kind = "while" => Void(sig.result) = "int"
\* and a definition has the type that was declared first.
ResultsAgree(p) == \A i \in 1..Len(p) :
  p[i].kind = "define" => Void(p[i].result) = Void(p[First(p, p[i].fn)].result)

\* For an accepted program generation reports nothing and the module passes
\* verification exactly if it is in order in these respects: they are all that
\* semantic analysis leaves open about functions and calls.
AcceptedCallsVerify ==
  stage = "generated" =>
  (~late /\ verifyModule <=>
     CalledInOrder(prog) /\ CallsInBodies(prog) /\ ArgumentsFit(prog) /\ ResultsAgree(prog))
=============================================================================
