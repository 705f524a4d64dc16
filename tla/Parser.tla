------------------------------- MODULE Parser -------------------------------
(***************************************************************************)
(* The recursive-descent parser (src/sclc/src/parser.c).  The stack holds  *)
(* the calls in progress; a step goes from one parser_current to the next, *)
(* with all that the code does in between.  Every call has a variable      *)
(* token of its own, which keeps its value when parser_current reads past  *)
(* the end: zero, which is TOKEN_GOTO, or the token read before.           *)
(*                                                                         *)
(* Tokens are their kinds: "lit" is any literal or ADDRESS_OF, "rel" any   *)
(* comparison, and "bad" a token that no rule knows.  The parser never     *)
(* looks further than its index, so the tokens behind it are chosen when   *)
(* it gets there; the last one is END, as the lexer guarantees.            *)
(***************************************************************************)
EXTENDS DynamicArray, Arena, FiniteSets, SequencesExt

CONSTANTS Vocabularies,  \* each: the pieces (sequences of kinds) a source is made of,
                         \* the number of tokens from which on no piece is added, and
                         \* that number for a source with an error
          Capacities,    \* what the arena of the tree has room for, in bytes
          Instr, Expr, Block  \* the sizes of the nodes in the arena

Zero == "goto"
Kinds == {"lit", "id", "ptr", "type", "(", ")", "{", "}", "[", "]", ",", "mulop", "addop", "rel",
          "=", "...", "=>", "_", ":", "if", "else", "match", "goto", "label", "loop", "while",
          "dowhile", "in", "for", "continue", "break", "fn", "return", "bad", "END"}
Tree == INSTANCE Ast  \* of the lines the parser makes

\* The tokens that begin an instruction.
Starts == {"type", "id", "ptr", "if", "match", "goto", "label", "break", "continue", "fn", "return"}
          \cup Tree!Loops

ASSUME ParserAssumption ==
  /\ \A V \in Vocabularies : V.pieces \subseteq Seq(Kinds \ {"END"}) /\ {V.max, V.wrong} \subseteq Nat
  /\ Capacities \subseteq Nat
  /\ {Instr, Expr, Block} \subseteq Nat \ {0}

VARIABLES vocabulary, \* the one this source is made of
          tokens,     \* the source as far as the parser has come
          index,      \* p->index, from zero
          stack,      \* the calls in progress, innermost last
          errors,     \* the error counter is not zero
          arena,      \* of the tree
          tree,       \* the lines of the tree, see Ast
          unseen,     \* tokens passed without a look, each with what it was taken for
          status      \* "parsing", then "done", "exit" or "crash"

pvars == <<vocabulary, tokens, index, stack, errors, arena, tree, unseen, status>>

----------------------------------------------------------------------------
(* The parts of a step.                                                    *)

\* A call: the point it is at, its token, the depth of its instructions, and
\* what else it goes by.
Call(pc, depth, arg) == [pc |-> pc, token |-> Zero, depth |-> depth, arg |-> arg]

Top == stack[Len(stack)]
Below == SubSeq(stack, 1, Len(stack) - 1)
Depth == Top.depth

Array == [items |-> tokens, capacity |-> Len(tokens), item_size |-> 1]
Past == ~InRange(Array, index)

\* parser_current: the token, and whether an error is counted by then.
Tok == dynamic_array_get(Array, index, Top.token)
Errors == errors \/ Past

\* Mutant of Gate: the end of the source is no reason to look at the errors.
NoGate == FALSE

\* scu_check_errors in parser_current.
Gate == Tok = "END" /\ Errors

\* A node is allocated.
Full(size) == ~HasRoom(arena, size)
Push(size) == arena' = arena_push(arena, size)

\* The node of an operator is made before the next token is read.
NoOperatorNode == Top.pc \in {"term", "expr"} /\ Top.arg /\ Full(Expr)

\* The call goes on at pc, after calls that are made first.
At(pc, arg) == [pc |-> pc, token |-> Tok, depth |-> Depth, arg |-> arg]
Then(pc) == Append(Below, At(pc, Top.arg))
CallThen(calls, pc) == Append(Below, At(pc, Top.arg)) \o calls
Instead(calls) == Below \o calls
Return == Below

\* parse_expr begins with parse_term, and that with parse_factor.
parse_expr == <<Call("expr", Depth, FALSE), Call("term", Depth, FALSE), Call("factor", Depth, FALSE)>>
parse_rel == <<Call("rel", Depth, FALSE), Call("operand", Depth, FALSE)>>
parse_cond_block(null) == <<Call("block", Depth, null)>>
parse_instr(depth, null) == <<Call("instr", depth, null)>>

Complete == tokens # <<>> /\ tokens[Len(tokens)] = "END"

\* n tokens further, with the lines and nodes added on the way.  Past the end
\* one index is like the other, and the count stops there.
Move(n, calls, err, lines, passed) ==
  /\ index' = IF Complete /\ index + n > Len(tokens) THEN Len(tokens) ELSE index + n
  /\ stack' = calls
  /\ errors' = (Errors \/ err)
  /\ tree' = tree \o lines
  /\ unseen' = unseen \cup passed
  /\ UNCHANGED status

NoNode == UNCHANGED arena
Go(n, calls) == Move(n, calls, FALSE, <<>>, {}) /\ NoNode
Complain(n, calls) == Move(n, calls, TRUE, <<>>, {}) /\ NoNode
Emit(kind, n, calls) ==
  Move(n, calls, FALSE, <<[kind |-> kind, name |-> "-", depth |-> Depth]>>, {}) /\ NoNode

\* The token, whatever it is, is taken for one of this kind.
TakeFor(kind, calls) == Move(1, calls, FALSE, <<>>, {<<index, kind>>}) /\ NoNode

\* Both end the run: an error that is looked at, and a write through NULL.
Exit == status' = "exit" /\ errors' = TRUE /\ UNCHANGED <<index, stack, arena, tree, unseen>>
Crash == status' = "crash" /\ errors' = TRUE /\ UNCHANGED <<index, stack, arena, tree, unseen>>

\* Expect(k): go on after the token, or complain and go on after it all the same.
Expect(kind, calls) == IF Tok = kind THEN Go(1, calls) ELSE Complain(1, calls)
Require(kind, calls) == IF Tok = kind THEN Go(1, calls) ELSE Exit

----------------------------------------------------------------------------
(* Expressions.                                                            *)

Factor ==
  /\ Top.pc = "factor"
  /\ \/ /\ Tok \in {"lit", "ptr", "id"}
        /\ IF Full(Expr) THEN Crash
           ELSE /\ Push(Expr)
                /\ Move(1, IF Tok = "id" THEN Then("after id") ELSE Return, FALSE, <<>>, {})
     \/ Tok = "(" /\ Go(1, CallThen(parse_expr, "paren"))
     \/ Tok \notin {"lit", "ptr", "id", "("} /\ Exit

\* An index, the arguments of a call, or neither: in expressions and relations.
AfterIdentifier ==
  /\ Top.pc = "after id"
  /\ \/ Tok = "[" /\ Go(1, CallThen(parse_expr, "index"))
     \/ Tok = "(" /\ Go(1, Then("arguments"))
     \/ Tok \notin {"[", "("} /\ Go(0, Return)

CloseIndex == Top.pc = "index" /\ Expect("]", Return)

\* Mutant of CloseParen: whatever comes is passed.
CloseUnchecked == Top.pc = "paren" /\ Go(1, Return)

CloseParen == Top.pc = "paren" /\ Expect(")", Return)

Arguments ==
  /\ Top.pc = "arguments"
  /\ IF Tok = ")" THEN Go(1, Return) ELSE Go(0, CallThen(parse_expr, "comma"))

\* Without a comma the next argument may follow at once.
ArgumentComma ==
  /\ Top.pc = "comma"
  /\ \/ Tok = "," /\ Go(1, Then("arguments"))
     \/ Tok = ")" /\ Go(1, Return)
     \/ Tok \notin {",", ")"} /\ Go(0, CallThen(parse_expr, "comma"))

\* After an operand; arg: it was the right one of an operator.
Operators(pc, operator, operand) ==
  /\ Top.pc = pc
  /\ IF NoOperatorNode THEN Crash
     ELSE /\ IF Top.arg THEN Push(Expr) ELSE NoNode
          /\ IF Tok = operator
             THEN Move(1, Append(Below, Call(pc, Depth, TRUE)) \o operand, FALSE, <<>>, {})
             ELSE Move(0, Return, FALSE, <<>>, {})

Term == Operators("term", "mulop", <<Call("factor", Depth, FALSE)>>)
Expression == Operators("expr", "addop", <<Call("term", Depth, FALSE), Call("factor", Depth, FALSE)>>)

\* Mutant of parse_term_for_expr: a token that is no operand is passed quietly.
AnyOperand ==
  /\ Top.pc = "operand"
  /\ \/ Tok = "id" /\ Go(1, Then("after id"))
     \/ Tok # "id" /\ Go(1, Return)

parse_term_for_expr ==
  /\ Top.pc = "operand"
  /\ \/ Tok \in {"lit", "ptr"} /\ Go(1, Return)
     \/ Tok = "id" /\ Go(1, Then("after id"))
     \/ Tok \notin {"lit", "ptr", "id"} /\ Complain(1, Return)

Relation ==
  /\ Top.pc = "rel"
  /\ IF Tok = "rel" THEN Go(1, Instead(<<Call("operand", Depth, FALSE)>>)) ELSE Complain(0, Return)

----------------------------------------------------------------------------
(* Declarations, assignments and calls.                                    *)

DeclareName == Top.pc = "declare" /\ TakeFor("id", Then("size"))

\* Mutant of DeclareSize: the token after a declaration is passed.
DeclareEnds ==
  /\ Top.pc = "size"
  /\ \/ Tok = "[" /\ Go(1, CallThen(parse_expr, "sized"))
     \/ Tok = "=" /\ Go(1, Instead(parse_expr))
     \/ Tok \notin {"[", "="} /\ Go(1, Return)

DeclareSize ==
  /\ Top.pc = "size"
  /\ \/ Tok = "[" /\ Go(1, CallThen(parse_expr, "sized"))
     \/ Tok = "=" /\ Go(1, Instead(parse_expr))
     \/ Tok \notin {"[", "="} /\ Go(0, Return)

DeclareArray ==
  \/ Top.pc = "sized" /\ IF Tok = "]" THEN Go(1, Then("array")) ELSE Complain(0, Return)
  \/ Top.pc = "array" /\ IF Tok = "=" THEN Go(1, Instead(<<Call("elements", Depth, FALSE)>>))
                         ELSE Go(0, Return)

parse_initialize_array ==
  \/ Top.pc = "elements" /\ IF Tok = "{" THEN Go(1, Then("element")) ELSE Complain(0, Return)
  \/ Top.pc = "element" /\ IF Tok = "}" THEN Go(1, Return)
                           ELSE Go(0, CallThen(parse_expr, "element end"))
  \/ /\ Top.pc = "element end"
     /\ \/ Tok = "," /\ Go(1, Then("element"))
        \/ Tok = "}" /\ Go(1, Return)
        \/ Tok \notin {",", "}"} /\ Complain(0, Return)

parse_assign ==
  \/ /\ Top.pc = "assign"
     /\ \/ Tok = "[" /\ Go(1, CallThen(parse_expr, "subscript"))
        \/ Tok = "(" /\ Go(1, Then("arguments"))
        \/ Tok \notin {"[", "("} /\ Expect("=", Instead(parse_expr))
  \/ Top.pc = "subscript" /\ Expect("]", Then("subscript ="))
  \/ Top.pc = "subscript =" /\ Expect("=", Instead(parse_expr))

parse_goto == Top.pc = "goto" /\ Expect("label", Return)

parse_ret ==
  \/ Top.pc = "return" /\ IF Tok = "}" THEN Go(0, Return) ELSE Go(0, CallThen(parse_expr, "returned"))
  \/ Top.pc = "returned" /\ IF Tok = "," THEN Go(1, Then("return")) ELSE Go(0, Return)

----------------------------------------------------------------------------
(* Instructions with a body.                                               *)

\* One more instruction, for which there is a node or NULL.
NextInstr(depth, pc) ==
  Push(Instr) /\ Move(0, CallThen(parse_instr(depth, Full(Instr)), pc), Full(Instr), <<>>, {})

\* The instructions up to one of these tokens.
Body(pc, ends, depth, after) ==
  Top.pc = pc /\ IF Tok \in ends THEN Go(1, after) ELSE NextInstr(depth, pc)

\* arg: the node of the block is NULL.
CondBlock ==
  \/ /\ Top.pc = "block"
     /\ IF Top.arg THEN Crash
        ELSE IF Tok = "{" THEN Go(1, Then("in block"))
        ELSE /\ Push(Instr)
             /\ Move(0, Instead(parse_instr(Depth + 1, Full(Instr))), Full(Instr), <<>>, {})
  \/ Body("in block", {"}", "END"}, Depth + 1, Return)

parse_if ==
  \/ Top.pc = "if" /\ Go(0, CallThen(parse_cond_block(FALSE), "arm"))
  \/ Top.pc = "arm" /\ IF Tok = "else" THEN Go(1, Then("else")) ELSE Go(0, Return)

\* Mutant of Else: another arm may follow it.
ElseGoesOn ==
  /\ Top.pc = "else"
  /\ \/ Tok = "if" /\ Emit("elif", 1, CallThen(parse_cond_block(FALSE) \o parse_rel, "arm"))
     \/ /\ Tok # "if"
        /\ Push(Block)
        /\ Move(0, CallThen(parse_cond_block(Full(Block)), "arm"), Full(Block),
                <<[kind |-> "else", name |-> "-", depth |-> Depth]>>, {})

\* Mutant of Else: it gets no node.
ElseWithoutNode ==
  /\ Top.pc = "else"
  /\ \/ Tok = "if" /\ Emit("elif", 1, CallThen(parse_cond_block(FALSE) \o parse_rel, "arm"))
     \/ Tok # "if" /\ Emit("else", 0, Instead(parse_cond_block(TRUE)))

Else ==
  /\ Top.pc = "else"
  /\ \/ Tok = "if" /\ Emit("elif", 1, CallThen(parse_cond_block(FALSE) \o parse_rel, "arm"))
     \/ /\ Tok # "if"
        /\ Push(Block)
        /\ Move(0, Instead(parse_cond_block(Full(Block))), Full(Block),
                <<[kind |-> "else", name |-> "-", depth |-> Depth]>>, {})

\* The node made before parse_expr is replaced by the one it returns, so that
\* NULL does no harm here; the error counts.
WastedNode(n, lines, pc) ==
  Push(Expr) /\ Move(n, CallThen(parse_expr, pc), Full(Expr), lines, {})

parse_match ==
  \/ Top.pc = "match" /\ Require("{", Then("case"))
  \/ /\ Top.pc = "case"
     /\ \/ Tok = "}" /\ Go(1, Return)
        \/ Tok = "END" /\ Exit
        \/ Tok = "_" /\ Emit("default", 1, Then("=>"))
        \/ /\ Tok \notin {"}", "END", "_"}
           /\ WastedNode(0, <<[kind |-> "case", name |-> "-", depth |-> Depth]>>, "first value")
  \/ /\ Top.pc \in {"first value", "value"}
     /\ \/ Tok = "..." /\ Top.pc = "first value" /\ WastedNode(1, <<>>, "=>")
        \/ Tok = "," /\ WastedNode(1, <<>>, "value")
        \/ Tok = "=>" /\ Go(1, CallThen(parse_cond_block(FALSE), "case"))
        \/ Tok \notin {",", "=>"} /\ (Tok = "..." => Top.pc = "value") /\ Exit
  \/ Top.pc = "=>" /\ Require("=>", CallThen(parse_cond_block(FALSE), "case"))

\* arg: the kind of the loop.
parse_loop ==
  \/ Top.pc = "for" /\ Require("id", Then("in"))
  \/ Top.pc = "in" /\ IF Tok = "in" THEN WastedNode(1, <<>>, "from") ELSE Exit
  \/ Top.pc = "from" /\ IF Tok = "..." THEN WastedNode(1, <<>>, "open") ELSE Exit
  \/ Top.pc = "while" /\ Go(0, CallThen(parse_rel, "open"))
  \/ Top.pc = "open" /\ Expect("{", Then("in loop"))
  \/ Body("in loop", {"}"}, Depth + 1, IF Top.arg = "dowhile" THEN Then("until") ELSE Return)
  \/ Top.pc = "until" /\ Go(0, Instead(parse_rel))

\* A name, a type or the parenthesis after "..." is not checked.
Parameters ==
  \/ Top.pc = "fn" /\ TakeFor("id", Then("fn ("))
  \/ Top.pc = "fn (" /\ IF Tok = "(" THEN Go(1, Then("parameter")) ELSE Complain(0, Return)
  \/ /\ Top.pc = "parameter"
     /\ \/ Tok = ")" /\ Go(1, Then("signature"))
        \/ Tok = "..." /\ Move(2, Then("signature"), FALSE, <<>>, {<<index + 1, ")">>}) /\ NoNode
        \/ Tok = "type" /\ Go(1, Then("name or pointer"))
        \/ Tok \notin {")", "...", "type"} /\ Complain(0, Return)
  \/ /\ Top.pc = "name or pointer"
     /\ IF Tok = "ptr" THEN Go(1, Then("name")) ELSE TakeFor("id", Then("parameter end"))
  \/ Top.pc = "name" /\ TakeFor("id", Then("parameter end"))
  \/ Top.pc = "parameter end" /\ Go(IF Tok = "," THEN 1 ELSE 0, Then("parameter"))

\* After a comma the next token is passed as well.
ReturnTypes ==
  \/ Top.pc = "signature" /\ IF Tok = ":" THEN Go(1, Then("type")) ELSE Go(0, Then("body"))
  \/ Top.pc = "type" /\ IF Tok \in {"{", "END"} THEN Go(0, Then("body"))
                        ELSE TakeFor("type", Then("more types"))
  \/ /\ Top.pc = "more types"
     /\ IF Tok = "," THEN Move(2, Then("more types"), FALSE, <<>>, {<<index + 1, "type">>}) /\ NoNode
        ELSE Go(0, Then("body"))

FunctionBody ==
  \/ Top.pc = "body" /\ IF Tok = "{" THEN Emit("fn", 1, Then("in fn")) ELSE Emit("prototype", 0, Return)
  \/ Body("in fn", {"}", "END"}, Depth + 1, Return)

----------------------------------------------------------------------------
(* parse_instr and parser_parse_program.                                   *)

\* What starts an instruction, its line in the tree, and the call that goes on
\* after its first token.
LineOf(kind) == IF kind = "type" THEN "declare" ELSE IF kind \in {"id", "ptr"} THEN "use" ELSE kind
Point(kind) ==
  CASE kind = "type" -> "declare" [] kind \in {"id", "ptr"} -> "assign"
    [] kind \in {"loop", "dowhile"} -> "open" [] OTHER -> kind

\* Mutant of Unexpected: FALSE is returned, as the comment of parse_instr says.
UnexpectedGoesOn == Tok \notin Starts /\ Complain(0, Return)

\* The run ends before FALSE is returned: the message takes the value of the
\* token for a string, which that of a number or of an invalid token is not.
Unexpected == Tok \notin Starts /\ (Exit \/ (Tok \in {"lit", "bad"} /\ Crash))

Instruction ==
  /\ Top.pc = "instr"
  /\ LET go == Append(Below, At(Point(Tok), Tok)) IN
     \/ Unexpected
     \/ Tok \in Starts /\ Top.arg /\ Crash
     \/ /\ Tok \in {"break", "continue", "label"} /\ ~Top.arg
        /\ Emit(Tok, 1, Return)
     \/ /\ Tok \in {"type", "id", "ptr", "goto", "return"} \cup Tree!Loops /\ ~Top.arg
        /\ Emit(LineOf(Tok), 1, go)
     \/ Tok = "fn" /\ ~Top.arg /\ Go(1, go)
     \/ Tok = "if" /\ ~Top.arg /\ Emit("if", 1, Instead(<<Call("if", Depth, FALSE)>> \o parse_rel))
     \/ /\ Tok = "match" /\ ~Top.arg
        /\ Push(Expr)
        /\ Move(1, Instead(<<Call("match", Depth, FALSE)>> \o parse_expr), Full(Expr),
                <<[kind |-> "match", name |-> "-", depth |-> Depth]>>, {})

Program ==
  /\ Top.pc = "program"
  /\ \/ /\ Tok = "END"
        /\ status' = "done"
        /\ UNCHANGED <<index, stack, errors, arena, tree, unseen>>
     \/ /\ Tok # "END"
        /\ IF Errors \/ Full(Instr) THEN Exit ELSE NextInstr(0, "program")

Step ==
  \/ Factor \/ AfterIdentifier \/ CloseIndex \/ CloseParen \/ Arguments \/ ArgumentComma
  \/ Term \/ Expression \/ parse_term_for_expr \/ Relation
  \/ DeclareName \/ DeclareSize \/ DeclareArray \/ parse_initialize_array \/ parse_assign
  \/ parse_goto \/ parse_ret \/ CondBlock \/ parse_if \/ Else \/ parse_match \/ parse_loop
  \/ Parameters \/ ReturnTypes \/ FunctionBody \/ Instruction \/ Program

More == IF Len(tokens) < (IF errors THEN vocabulary.wrong ELSE vocabulary.max)
        THEN vocabulary.pieces ELSE {}

\* What the lexer has made of the source from here on.
Supply ==
  /\ status = "parsing" /\ Past /\ ~Complete
  /\ \E piece \in {<<"END">>} \cup More :
       tokens' = tokens \o piece
  /\ UNCHANGED <<vocabulary, index, stack, errors, arena, tree, unseen, status>>

Parse ==
  /\ status = "parsing" /\ (Past => Complete)
  /\ IF Gate /\ ~NoOperatorNode THEN Exit ELSE Step
  /\ UNCHANGED <<vocabulary, tokens>>

Init ==
  /\ vocabulary \in Vocabularies
  /\ tokens = <<>>
  /\ index = 0
  /\ stack = <<Call("program", 0, FALSE)>>
  /\ errors = FALSE
  /\ arena \in {arena_init(c) : c \in Capacities}
  /\ tree = <<>>
  /\ unseen = {}
  /\ status = "parsing"

Finished == status # "parsing" /\ UNCHANGED pvars

Next == Supply \/ Parse \/ Finished

Spec == Init /\ [][Next]_pvars /\ WF_pvars(Supply) /\ WF_pvars(Parse)

----------------------------------------------------------------------------
(* Properties.                                                             *)

\* The arena is never overrun, and the calls are those of the grammar.
TypeOK ==
  /\ status \in {"parsing", "done", "exit", "crash"}
  /\ errors \in BOOLEAN /\ index \in Nat
  /\ arena.pos <= arena.capacity
  /\ stack # <<>> /\ stack[1].pc = "program"
  /\ \A i \in 1..Len(stack) : stack[i].token \in Kinds /\ stack[i].depth \in Nat

\* parser_parse_program returns only at the END of the source, with every
\* token before it used and no error counted: main goes on to check what was
\* parsed without another look at the errors of the parser.
DoneMeansClean ==
  status = "done" => /\ ~errors
                     /\ index = Len(tokens) - 1
                     /\ Complete

\* The source as the parser took it: a token passed without a look is what it
\* was taken for.
Taken == [i \in 1..Len(tokens) |->
            LET blind == {u \in unseen : u[1] = i - 1} IN
            IF blind = {} THEN tokens[i] ELSE (CHOOSE u \in blind : TRUE)[2]]
Number(kind, n) == Cardinality({i \in 1..n : Taken[i] = kind})

BracketPairs == {<<"(", ")">>, <<"{", "}">>, <<"[", "]">>}

\* A source with an unclosed brace or parenthesis is not accepted, but for one
\* that the parser takes for a name or a type without looking, as in `int {`
\* (Taken).  The loops over the body of a function or an arm stop at the END
\* and step over it without an error; only the reads past the end that follow
\* make it one.
AcceptedIsBalanced ==
  status = "done" =>
  \A pair \in BracketPairs : \A n \in 1..Len(tokens) :
    /\ Number(pair[2], n) <= Number(pair[1], n)
    /\ n = Len(tokens) => Number(pair[1], n) = Number(pair[2], n)

\* A token that no rule knows is in an accepted source only where the parser
\* takes a token for a name, a type or a parenthesis without looking, as in
\* `int` before an invalid token (parse_declare): every other one it passes is
\* an error that it counts, and the gate at the END sees the count.
BadTokensAreReported == status = "done" => Number("bad", Len(tokens)) = 0

\* The tree has an instruction, or an arm, for every keyword of an accepted
\* source and for no other, in the order of the source.  A keyword that is
\* taken for a name or a type without a look (Taken) has none.
Keywords == {"if", "else", "match", "goto", "loop", "while", "dowhile", "for",
             "break", "continue", "fn", "return", "_"}
Kept(kind) == IF kind \in Keywords THEN <<kind>> ELSE <<>>
WrittenAs(kind) ==
  CASE kind = "elif" -> <<"else", "if">> [] kind = "prototype" -> <<"fn">>
    [] kind = "default" -> <<"_">> [] OTHER -> Kept(kind)
TreeIsTheSource ==
  status = "done" => FlattenSeq([i \in 1..Len(tree) |-> WrittenAs(tree[i].kind)])
                     = FlattenSeq([i \in 1..Len(tokens) |-> Kept(Taken[i])])

\* The nesting of an accepted tree is one that semantic analysis and code
\* generation are checked for: arms and cases stand behind the head they
\* belong to.
TreeFits ==
  status = "done" => \A i \in 1..Len(tree) : Tree!Fits(SubSeq(tree, 1, i - 1), tree[i])

\* Two nodes for each token is what the tree may take, and one more.
Room(n) == (2 * n + 1) * Max({AlignUp(Instr), AlignUp(Expr), AlignUp(Block)})

\* As long as tokens are read, the arena is used up by tokens: its fill is
\* bounded by how far the parser has come.
ArenaUse == index < Len(tokens) => arena.pos <= Room(index + 1)

\* The parser writes through NULL only when the arena is too small for the
\* source, or past the end of a source that stops inside of an instruction:
\* with an unclosed bracket, or right after a comparison or dots.  There a loop
\* over a body goes on with the token it saw last until the arena is used up.
\* Else it only crashes as it reports a token that begins no instruction.
Enough == arena.capacity >= Room(Len(tokens))
Unclosed(pair) == Number(pair[2], Len(tokens)) < Number(pair[1], Len(tokens))
StopsInside == \/ \E pair \in BracketPairs : Unclosed(pair)
               \/ tokens[Len(tokens) - 1] \in {"rel", "..."}
CrashOnlyWhenExpected ==
  status = "crash" /\ Enough =>
  (Top.pc = "instr" /\ Tok \in {"lit", "bad"}) \/ (Past /\ StopsInside)

\* The parser stops: each of its loops uses up tokens, or room in the arena,
\* or comes to an END with an error counted.  Only the list of return types
\* steps over the END from its last comma, which it then sees for ever.
ParserStops ==
  <>(status # "parsing" \/ (Complete /\ Past /\ Top.pc = "more types" /\ Tok = ","))
=============================================================================
