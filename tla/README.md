# Formal models of the scull compiler

`sclc` is a compiler for the language scull: about 7600 lines of C and C++ under
`src/sclc`, a pipeline of lexer, parser, semantic analysis, code generation with
LLVM, and a call of the system linker.  This directory holds TLA+ models of its
parts, TLC configurations that check them on small instances, and proofs, checked
by TLAPS, of what matters most for instances of every size.

The program is sequential.  What makes it hard is not concurrency but state
that outlives the step that wrote it: one error counter for all phases, one
backend for all files, loop targets kept in static variables while the walk
recurses, probe paths that must survive deletion and re-insertion, a token that
keeps its value when there are no more.  The models make these sequences of steps
explicit.

## The system

| component | state | operations | depends on |
|---|---|---|---|
| driver (`sclc.c`, `cstate.c`, `fstate.c`, `utils.c`) | `cstate` (options, files, object paths), an `fstate` for each file, the static `err_count` | `cstate_init`, the pipeline of `main`, `scu_check_errors`, `ld_link`, `cstate_free` | everything below; exit status, files on disk |
| backend (`backend.c`, `backend/llvm/llvm.cpp`) | `bctx`: context, module, builder, target machine | setup, compile, optimize, emit, link, cleanup | driver calls it; LLVM, `cc` |
| code generation (`llvm_irgen.cpp`) | `label_blocks`, `named_values`, the two static loop targets, the builder's insertion point | one function for each kind of instruction, recursive | walks the tree; LLVM builder; error counter |
| hash table (`ds/ht.c`) | base, capacity, count, items | `ht_insert`, `ht_search`, `ht_delete`, resize | every symbol table |
| lexer (`lexer.c`, `token.c`) | position and line in the buffer, array of tokens | scanning, includes (recursive) | dynamic array, file arena, error counter |
| parser (`parser.c`) | index into the tokens, the tree; in each call a token of its own | recursive descent | tokens, arena of the tree, error counter |
| semantic analysis (`semantic.c`, `var.c`) | tables of variables and functions, list of labels | checks of loops, names, labels, types, functions | tree, hash table, error counter |
| arena, dynamic array, stack (`ds/`) | capacity and position; capacity, count and item size | push, pop; get, set, append, insert, remove | all of the above |

Components interact by plain calls in one thread.  What they share is the tree
(written by the parser, read by the rest), the arenas (memory of one file or of
the run), the error counter (written everywhere, read by `scu_check_errors`
only) and the files on disk (objects of earlier compilations among them).

Hard behaviours, and what correctness means for each component:

* driver: the error counter is checked after parsing and after semantic
  analysis and never later, so *which* errors keep *which* later step from
  running is a matter of the whole pipeline.  Code is generated only for programs without
  errors; an output is made of objects of this run; a single-file run never uses
  what a failed or finished step left null.
* backend: one set-up, one clean-up per file; optimization before verification.
* code generation: every block has one terminator, at its end; `break` and
  `continue` belong to the innermost loop; the code does what the program says.
* hash table: it is a map; searches, whose loops have no bound, end.
* lexer: every input is consumed and nothing of it is lost; including a file is
  pasting it; tokens have the lines of the source; the array has one END.
* parser: returns only from the END, of a source that is balanced and whose tree says
  the same; never looks past the end of the tokens unnoticed; stops.
* semantic analysis: programs that pass it are generated without an error (an
  error found after it stops nothing); calls agree with every line that declares or
  defines their function.
* arena and dynamic array: what is handed out does not overlap and is in
  bounds; callers notice when there is no room.

The hazards behind these are listed, each at its line, in `PROJECT.json`.

## The modules

| module | models | extends or instantiates |
|---|---|---|
| `AbstractMap` | what a client of the hash table relies on | |
| `HashTable` | `ds/ht.c`, all of it | `AbstractMap`, as `Map` |
| `Driver` | `sclc.c`, `cstate.c`, `fstate.c`, `utils.c`, `backend/` except code generation | |
| `Ast` | the shape of a syntax tree (`ast.h`, and the nestings `parser.c` builds) | |
| `Trees` | the tree that the passes share: `prog`, and what it is made of | `Ast` |
| `IRGen` | the control in `llvm_irgen.cpp` | `Trees` |
| `Source` | the meaning of a program: the reference for code generation | `Ast` |
| `Programs` | what a well-formed program is; no code, the walks are compared with it | `Ast` |
| `Compile` | `IRGen`, then `verifyModule`, then the IR run in step with `Source` | `IRGen`, `Programs`, `Source` as `Src` |
| `Semantic` | `semantic.c`: names, scopes and labels | `Trees`, `Programs` |
| `FrontEnd` | `main` from the tree to the verified module: `Semantic`, then `IRGen` | `Semantic`, `Compile` |
| `Calls` | functions and calls, from the tree to the module: the two passes of `check_semantics` and their code generation | |
| `DynamicArray` | `ds/dynamic_array.c`, as operators on a record | |
| `Arena` | `ds/arena.c`, as operators on a record | |
| `Lexer` | `lexer.c` with includes | `DynamicArray` |
| `Includes` | a program in several files next to the same program in one | `Lexer`, and again as `OneFile` |
| `Parser` | `parser.c` | `DynamicArray`, `Arena`, `Ast` as `Tree` |
| `MC...` | instances for TLC | |
| `ContainerProofs` | theorems of `DynamicArray` and `Arena`, facts about sequences and the trees of `Ast` | |
| `HashTableProofs`, `DriverProofs`, `IRGenProofs`, `LexerProofs`, `ParserProofs`, `SemanticProofs`, `CallsProofs` | theorems of these modules; `IRGenProofs` also of `Compile` and `FrontEnd` | `IRGenProofs`: `SemanticProofs`; this and the others from `LexerProofs` on: `ContainerProofs` |

### HashTable

A step is one turn of a loop: one probe, or one slot copied by `ht_resize`.
`ht_resize` inserts into a new table through `ht_insert`, which may resize that
table in turn; `stack` is this chain of calls.  A frame is a `struct ht` together with
the locals of the call that works on it: `job` (the arguments, the attempt, where
the call is) and `cursor` (the index of the copying loop).  `stack[1]` is the
client's table.

| action | code |
|---|---|
| `CallInsert`, `CallSearch`, `CallDelete` | the client's calls |
| `InsertLoadCheck` | the load check, before the item is added |
| `InsertProbe`, `InsertOverwrite`, `InsertPlace`, `InsertGiveUp` | a turn of the probing loop, its two exits, and the growth after `max_probes` |
| `ProbeOn`, `SearchReturn`, `DeleteMiss`, `DeleteHit` | the unbounded loops of `ht_search` and `ht_delete` |
| `ResizeCopy`, `ResizeSwap` | the copying loop, the exchange of the arrays and the return to the caller |

Data that is abstracted: the characters of keys (`HashA` and `HashB` give the
value of the two hashes for each key) and copying and freeing of strings.
The arithmetic of `ht_get_hash` is that of a u32 (`Width`).

### Driver

`pc` names the call `main` is making.  What a pass finds in a file is a
choice; what the driver does about it is the code.  `errors` is `err_count # 0`,
which is all the code asks of it.  The model keeps the asymmetries of the code:
`llvm_backend_setup` counts a failed look-up of the target and returns,
`llvm_backend_emit` counts and returns, `cstate_free` frees the arena of the fstates in
the loop that reads them, `scu_check_errors` exits only after parsing and after
semantic analysis.  Reading freed or uninitialized memory is a choice of going on or
crashing.  A pass over the text of a file may also crash: there are texts for which the lexer, the parser
and code generation do (`Lexer`, `Parser` and the instructions outside functions say which), and which text a file
has is not part of this model.  `disk` is the object file at each path: none, one of an earlier
compilation (`"old"`), an empty one, or the file compiled into it.

### Ast, IRGen, Source and Compile

A program is a sequence of lines with depths, as it is written: `FirstAfter`,
`EndOf`, `NextPart` and `Encloses` recover the tree.  `IRGen` walks it as the
recursive functions of `llvm_irgen.cpp` do.  `open` is the stack of calls in
progress, and each frame holds the locals of its call (`merge`, `next`, `dflt`, the saved loop
targets).  A basic block is the sequence of what was appended to it: as in
LLVM, nothing stops an instruction after a terminator, so the checks of the code
(`getTerminator()`) are what keeps blocks well formed.

| action | code |
|---|---|
| `FnDefine`, `EndFn` | `llvm_irgen_fn_define` |
| `Declare`, `Use`, `Return` | instructions without control: one reads its variable, and fails if the name is not in `named_values` |
| `GotoLabel`, `Label` | with the block of a label made by whichever comes first |
| `Break`, `Continue` | a branch to the static loop targets |
| `Loop`, `EndLoop` | the four loops: entry and header, back edge and restored targets |
| `If`, `ElseIf`, `Else`, `EndArms` | the arms of an if |
| `Match`, `Case`, `EndArms` | the cases of a match |
| `StopBody` | bodies of functions and loops are left at the first terminator |

`Source` says what the same program does when its instructions are executed in
order, with a position instead of blocks: an event is the use of a variable, the
start, step or test of a loop or condition, or the return.  It is the
reference, written from the meaning of the instructions and not from the
generator.  `Compile` runs both side by side, with every outcome of every
condition, and `verifyModule` is LLVM's check in the two respects in which the walk
can fail it.

### Semantic and FrontEnd

`Semantic` is the walk of `check_semantics` over the same trees.  `tables` is the stack of
tables of variables that are in use: that of the file, that of the function, and the
copy each open loop has made of the one around it; `if` and `match` work on the table they are in.
`looking` is the next line and `inside` the constructs around it, `at` and `open` of `IRGen`;
`reported` is again `err_count # 0`.  What the code does not look at is part of the model:
bodies of else-if arms, functions inside functions, returns inside other
instructions, labels and gotos outside of the top level.  A line also says how it reads its name (`read`):
as a plain variable, through a place (a dereference, an address, an array element), or as an argument that no
parameter takes or of a call that is an instruction of a body.  `term_check_variables` looks up the first
only, `term_type` the second too, and nobody the third; so the name in `while *p == 1` is
looked at by nobody, as the condition of a loop is not typechecked, and that in `if *p == 1` only after the bodies of the `if`.

| action | code |
|---|---|
| `check_function_body`, `SkipFunction` | a function of the top level, with the name of its parameter; any other is an instruction of no interest to `instr_check_variables` |
| `declare_variables`, `UseVariable`, `Jump` | `instr_check_variables` and `instr_typecheck` of one instruction |
| `check_return_statement` | called for the instructions of the function itself |
| `check_loop`, `IfOrMatch`, `NextArm`, `SkipElseIf` | entering a body or its next arm |
| `Close` | the end of a body: the copied table is dropped, and the conditions that only `instr_typecheck` looks at (`Conditions`: those of else-ifs, and those of an `if` or `match` that read through a place) are looked at |
| `instrs_check_labels` | the walk over labels as one step, with every outcome of the read of an unset instruction for an `if` without braces |

A `use` (`UseVariable`) is an assignment, whose target is looked up by `instr_typecheck`, with
constants for its value.  Types, and with them the tests that compare types or numbers of
values, always agree in this model: a program that fails one of these tests is rejected
whatever else it does.  They are the subject of `Calls`.

`FrontEnd` gives one tree to both: `GenerateAccepted` is `IRGen`'s walk, entered if
`scu_check_errors` did not end the run.

### Calls

`stage` goes through the four phases, and each goes once over the lines (`at`).  `functions` is
the table of the fstate: for each name the *first* line that has it, as `ht_insert` is
not called for a second one.  `module` is the LLVM module, each function with
its bodies, and a body with what calls have to do with: calls, comparisons of a result,
returns.  A function may get several bodies: a second definition behind a prototype is
accepted, and code generation appends its blocks to the same LLVM function.

| action | code |
|---|---|
| `Register` with `register_function`, `WrongCall` | the first pass of `check_semantics`: functions, and the calls of the top level |
| `Validate` with `check_value`, `check_condition`, `check_return_statement` | the second: the bodies; a call that is an instruction of a body is looked at by nobody |
| `fn_declare`, `fn_define`, `EndFn` | prototypes (renamed by LLVM if the name is taken), definitions, and the return a body without one gets |
| `fn_call`, `fn_return` | a call, lost where the builder has no insertion point; a return ends the body |
| `NextPass` | the next phase; after semantic analysis `scu_check_errors` |

### DynamicArray, Arena

Both are operators on records, one for each function of the C file, and their users apply them to
variables of their own: `Lexer` appends tokens to one array and removes from it, `Parser` reads
it and takes its nodes from an arena.  `dynamic_array_get` leaves its destination alone
when the index is out of range, and that is how the operator is defined: it is given the old value.

### Lexer and Includes

A frame is one `lexer`, that is, one call of `lexer_tokenize`: file, position, line and, for
the loops in the middle of a token, what it is in (`state`) and the string so far.  One step is one
token, or one turn of a loop over a comment or a string.  Characters are characters only as far as the
scanner tells them apart; a word is one character with a spelling.

| action | code |
|---|---|
| `skip_whitespaces`, `End`, `Number`, `CharLiteral`, `Delimiter`, `Comparison`, `Minus`, `Prefix`, `Dots`, `Word`, `Unknown` | the branches of `lexer_next_token`, with `Minus` for what a minus may begin: a comment, a directive, an operator |
| `OpenString`, `StringChar`, `StringEscape`, `StringLiteral` | a string literal, escape by escape |
| `OpenComment`, `LongComment`, `LineComment`, `BlockComment` | both kinds of comments; neither loop looks for the end of the file |
| `Take` (the alternatives of what a token leads to) | the body of the loop of `lexer_tokenize`: keep the token, follow a directive (`Include`), or return |
| `RemoveEnd` | the END of an included file is removed, by position |

`Includes` runs the lexer a second time, on the one file in which each directive is
replaced by the text it names (`Paste`), and compares the tokens.

### Parser

`stack` holds the calls of the parse functions in progress, each with the point it is at (`pc`), its own
`token`, and the depth of its instructions.  A step goes from one `parser_current` to the next.  `Tok` is what
`parser_current` leaves in that token: past the end, the one it held, which is zero
(`TOKEN_GOTO`) at first.  `Gate` is `scu_check_errors` at an END.  `Supply` chooses the
tokens when the parser gets there, as it never looks ahead: so each run of the model
reads a source that is put together while it is read.  `tree` is the list of
lines that `Ast` defines, so what is accepted here can be compared with what `IRGen` and
`Semantic` are checked for.  `unseen` are the tokens the code takes for a name, a type or a parenthesis
without a look.

| action | code |
|---|---|
| `Factor`, `AfterIdentifier`, `CloseIndex`, `CloseParen`, `Arguments`, `ArgumentComma`, `Term`, `Expression`, `parse_term_for_expr`, `Relation` | expressions and comparisons |
| `DeclareName`, `DeclareSize`, `DeclareArray`, `parse_initialize_array`, `parse_assign` | declarations and assignments |
| `parse_goto`, `parse_ret`, `CondBlock`, `parse_if`, `Else`, `parse_match`, `parse_loop` | the other instructions |
| `Parameters`, `ReturnTypes`, `FunctionBody` | `parse_fn` |
| `Instruction`, `Program` | `parse_instr`, `parser_parse_program` |

Errors come in three kinds, and the difference is the point: those that are counted (`Complain`), those that
end the run (`Exit`), and those that crash: a node that the arena has no room for is written
to through NULL, and the message for an unexpected token takes a number for a string (`Crash`).

## The runs

| run | question | bounds | size |
|---|---|---|---|
| `hash_table` | Do inserts, searches and deletes in any order implement a map? | 3 keys, 2 values (symmetric), capacities 5, 11, 23 | 1.2 million states |
| `hash_table_compiler` | Does every call return, in the compiler's own use? | 5 keys, no delete, capacities 5, 11, 23 | 9500 states, with fairness |
| `driver` | What can errors, stale objects and failing steps lead to? | up to 3 arguments, 2 files, 9 options | 164 000 states |
| `driver_errors` | Does success mean no errors? | up to 2 arguments | violated: a finding |
| `driver_files` | Does the context live while files are compiled? | up to 2 arguments | violated: a finding |
| `code_generation` | Is the code well formed, and does it do what the program says? | programs of up to 5 lines and depth 3, in five repertoires | 1.1 million states, a minute |
| `semantic` | Do the copied tables of names amount to lexical scoping? | up to 5 lines, depth 3, four repertoires | 1.1 million states |
| `semantic_tree` | Are all variables and labels of an accepted program in order? | up to 4 lines | violated: a finding |
| `front_end` | Which programs that pass semantic analysis are generated without an error? | up to 5 lines, depth 3, three repertoires | 868 000 states |
| `calls` | What do the two passes over functions and calls establish? | up to 4 lines, two repertoires | 5.6 million states, half a minute |
| `lexer` | Is every text read, as it is written, and an include a paste? | texts of up to 5, 4 or 3 characters; up to two lines in each of three files | 103 000 states, with fairness, a minute |
| `parser` | What is accepted, what does it become, and does the parser stop? | sources of about 6 to 17 tokens, in eight repertoires; arenas of 40 and 660 bytes | 1.27 million states, with fairness |

Why the bounds are enough for the cases that matter:

* *hash tables.*  At capacity 5 two of the keys share every probe, a third
  crosses them, and its step is the capacity, so `max_probes` is
  reached in an almost empty table.  Overwriting, tombstones on the path and tables
  full of them, growing by failed probing, and shrinking occur in the first run,
  growing by load and resizing during the copy of a resize in the second.
  `Width` exceeds what a probe of `ht_insert` computes, as 2^32 does.  The real capacities 53, 107, 223 become 5, 11, 23; the theorems
  are for every base.
* *driver.*  Three arguments allow an option, its repetition and two files, or three
  files, one more than `ArenaFiles`, the number of fstates that 512 bytes hold.
* *code generation.*  Five lines hold a function with two nested constructs and two
  jumps, or a construct with three parts.  A single repertoire with everything would
  be too large; each of the five has the instructions that interact: loops with
  jumps out of them, labels and gotos with arms and loops, cases with jumps, names
  and scopes, and labels in several functions.
* *semantic analysis and front end.*  Five lines hold a function with a loop in a loop
  and a name declared in one and used in the other or after both, an `if` with two
  else-ifs, and on the top level two labels, a goto and an `if`.  The repertoires separate loops,
  arms, labels, and names that are read through places and calls.

* *calls.*  Four lines hold a prototype, two definitions of the same name and a call in any
  order, or two functions and the body of one of them.  The first repertoire has everything that depends on
  order and on whether there is a result, the second the types of one function: none, an int or a pointer
  for parameters, variadic or not, one result or two.
* *lexer.*  Five characters hold a block comment with a newline, a minus in it and a
  character after it; four a string with an escape; three every pair of tokens with
  what is between them.  Two lines for each of three files hold a directive before and after text, a file
  that is included twice and by two others, one that includes itself, and one that is not there.
  `MaxIncludes` is one more than there are files, so files that do not include each other never exhaust
  the stack.
* *parser.*  Pieces longer than a token are used where a repertoire would else be too
  large; the tokens of which they are made are single ones in others.  The numbers bound the
  tokens already read when a piece may be added, with a smaller bound (`MaxWrong`) once an error is
  counted, as then only the way to an exit or a crash is left.  40 bytes hold two
  instructions, so the arena is full in the middle of everything; 660 hold the trees of all but the longest sources, so that a crash
  there is one the source cannot explain.

Fairness says that the code keeps running: `WF_vars(Step)` while a call of the hash table is in
progress, `WF` of `lexer_tokenize`, and of `Supply` and `Parse`.  A single thread that is not
suspended does.  Nothing is assumed of the hash table's client, which may stop calling.

`CHECK_DEADLOCK FALSE` is set where the system ends: a process exits, a compilation
is finished.  In the runs of the hash table, the lexer and the parser deadlock is checked, and the
last two say with a step of their own that they are finished.

### What the runs show

* The hash table is a map under every sequence of operations within the bounds, and
  `count` is right throughout, in nested resizes too; by the theorems so it is for every sequence of
  operations.  Without deletion a slot is always empty, so that the searches end.
* Code is never generated after a counted error, and the first file always has a
  target machine, though the set-up that failed to get it goes on.  An object of an
  earlier compilation reaches the output only together with a counted error.  With one file the crashes are those
  of the passes on its text, of a rejected command line and of optimizing unverified IR: the driver's own steps add none.
* For programs that are *clean* (`Clean`: one declaration of each label in a
  function, nothing after a jump, jumps of loops in loops, no jump into a for loop,
  no empty match, names in scope and not shadowed by an iterator) code generation
  reports nothing and the module passes verification.  Each conjunct is needed: TLC finds a
  program without it that fails.
* Of these, semantic analysis establishes only that names are in scope, and that only
  for the names it looks at when it looks at them: an accepted program is generated without an
  error and verifies if, besides, the names in else-ifs and nested returns, those that the conditions of loops read
  through places, and those in arguments beyond the parameters are in scope,
  no iterator shadows a variable, and jumps and labels are in order (`AcceptedVerifies`).
* Its tables are right as far as they go.  Although they are filled by copying and
  emptied by dropping them, an error is reported exactly if a name that is looked at is not
  visible by the rules of lexical scoping (`NamesAsDeclared`), and code
  generation, which has one map for a whole function, has an alloca for every name in
  scope (`NamesHaveAllocas`).
* Code that passes verification does what the program says.  Two cases are excluded
  by name: a label that is placed twice, and `continue` in `for` and in `do`-`while`
  (`ContinueRetests`), where the branch goes to a header that does not step, or
  does not test.

* In an accepted program every call whose value is used has the right number of arguments for all lines
  that declare or define its function, though it was compared with the first only (`CallsAgree`): registration
  compares the lines with each other.  Types it does not compare, and the module takes those of the first line.
* `AcceptedCallsVerify` says *exactly* which accepted programs fail later on: those with a call above the
  first line of its function, a call on the top level after a definition, a call statement or condition that does not
  fit its function, or a definition with another result type than the prototype.
* `OneBody`: a second definition is rejected unless a prototype comes first; then it is
  accepted, and its body is dead code.
* The lexer loses nothing outside of comments, directives and the word that a lone minus takes along,
  and the END it removes after an include is always an END.  Lines are right but for strings that
  run over a line, whose newlines count twice.  It reads every text to the end but
  those with a block comment or with a line comment that the file ends in, in which it may go on for ever, and stops early
  at a byte 0xFF.  It crashes on a directive that no name follows, and on files that include each other.
* The parser accepts balanced sources only, if each token that it takes blind for a name, a type or a parenthesis
  (`unseen`) is counted as what it was taken for: `int {` passes as a declaration, and so does `int` before an invalid token.
  What is said of brackets, unknown tokens and keywords in accepted sources has this exception (`Taken`).
  It is so although the loops over the body of a function or an arm stop at the END
  and step over it without an error: the reads past the end that follow count one, and `Gate`, or the arena, which
  the stale token fills with `goto` nodes, ends the run.  A source that ends with a bracket open, right
  after a comparison or after dots may crash that way, and a list of result types that ends in a comma is read for ever,
  the only loop that is.
  These are the exceptions named in `CrashOnlyWhenExpected` and `ParserStops`.
* The tree of an accepted source has an instruction or an arm for each keyword, in order, and the
  nesting that the later passes are checked for (`TreeIsTheSource`, `TreeFits`): the link from the
  parser to `IRGen`, `Semantic` and `FrontEnd`.  Without reads past the end the tree takes at most two nodes for each
  token (`ArenaUse`).

### Findings

* `driver_errors`: errors of code generation, verification and emission are counted,
  and nothing looks at the counter after semantic analysis.  `sclc` can link a
  stale object, or with `-c` leave one in place, and exit with 0 after printing an error.
* `driver_files`: `llvm_backend_cleanup` deletes after each file what the set-up
  creates once, so the second file is compiled with null pointers.
* `semantic_tree`: `semantic.h` has `check_semantics` go through all the variables and labels of the
  tree.  It goes through the labels outside functions, where programs have none, and leaves out the
  variables in the bodies of else-ifs.

## The proofs

All for every value of the constants, under the `ASSUME`s named in the modules:

* `HashTable`: a base of at least 5, a positive `Width`, hashes that are natural
  numbers, and empty and deleted slots distinct from items;
* `Driver`: source files are not named like the other contents of a path, `Extract` is a function, and
  the bounds are natural numbers;
* `IRGen` and `Semantic`: a natural bound on the program's length, and lines are records with a kind, a name, a
  natural depth and one of the three ways to read the name; for `IRGen` the names of gotos and labels are also among `Labels`;
* `Lexer`: texts are sequences of characters of finitely many files, the main file is one of them, names are
  none of the special characters, and a positive bound on the includes in progress;
* `Parser`: sources are made of token kinds other than END, nodes have a size, and arenas a natural capacity;
* `Calls`: lines are such as the parser makes, with functions on the top level, and no name is one that LLVM makes
  up for a name that is taken (such a name has a `.` in it, which the lexer never puts into an identifier).

TLC evaluates each of these in a run.

| theorem | property | argument |
|---|---|---|
| `HashTableProofs!TypesCorrect` | `TypeOK` | part of the invariant below |
| `HashTableProofs!ItemsFindable` | `EveryItemFindable` | the induction must know what the probing loop has seen: while `ht_insert` is at attempt `a`, no slot probed before is empty or has its key (`Probed`).  So the slot it takes is reachable, and an item placed on another key's path only replaces an empty slot, which no reachable item has before it.  Deleting leaves a tombstone, which is not empty.  Every frame of the stack satisfies this on its own, and a resize replaces one frame by another. |
| `HashTableProofs!CountCorrect` | `CountIsLive` | same invariant, with the cardinality of the occupied slots before and after each write |
| `HashTableProofs!Implementation` | `ImplementsMap` | a table is taken as the set of its items, which is what `ht_resize` preserves: the items of the new table and the one on its way into it are those of the old one before the cursor (`MapInv`, at every level of nested resizes).  A key has one slot at most, so a search that has met neither its key nor an empty slot (`Sought`) has met no slot of the key.  Each step then is a step of the abstract map or a stutter (`MapStep`) |
| `HashTableProofs!NeverFull` | `AlwaysAnEmptySlot` | for the compiler's use, without deletion: the load check leaves two free slots to an insertion, and a new table has at least twice the base and is sent no more items than the cursor has passed (`RoomInv`) |
| `DriverProofs!GateTheorem` | `NoCodeAfterErrors` | the counter only goes up; between the check after semantic analysis and `compile` nothing counts |
| `DriverProofs!TargetTheorem` | `FirstFileHasTarget` | a missing target implies a counted error, which the parser's check turns into an exit; until the first clean-up the machine is not touched |
| `DriverProofs!FreshTheorem` | `OutputIsFresh` | until the link the output is untouched, and while no error is counted the object at the path of the first file is the one just emitted (`Fresh`); with a second file the run ends before the link, as no later file gets past `compile` (`SetUp`) |
| `DriverProofs!TypesTheorem`, `CrashTheorem` | `TypeOK`, `CrashOnlyWhenExpected` | by `SetUp` the context is live and the machine there wherever the first file needs them, so each crash left belongs to a pass at work on the text of a file, to a second file, to IR that was not verified or to the command line, which is read to its end before the first file is opened (`CInv`, with `OpenedLast`) |
| `IRGenProofs!BlocksTheorem` | `TypeOK` | blocks are only added, so what names a block goes on naming one: builder, labels, the blocks and saved targets of all calls, and every branch emitted (`BlocksInv`); only the call of a function holds no blocks of its own |
| `IRGenProofs!LoopTargetsTheorem` | `LoopTargets` | every frame has saved the targets in force when it was opened, recursively down the stack (`Saved`), so restoring from the top frame gives those of the loop around it |
| `IRGenProofs!AllocasTheorem` | `NamesHaveAllocas` | while no error is counted the calls in progress are those of the lines around the next line, each in the arm that line is in (`Walked`).  `named_values` has the names in scope at that line, and at the line of each call (`NamedAt`): what a loop declares stays in the map behind it, which does no harm, and the iterator that is erased at the end of a loop is no name in scope there, as nothing in scope at the loop has that name |
| `IRGenProofs!LateErrorsTheorem` | | the same invariant: a name that is read in scope is known, also at the end of its `do`-`while`, and around a `break` in a loop there is a call of a loop, so `exit` is a block (`LateInv`) |
| `ContainerProofs!RemoveLast`, `AppendWithinCapacity`, `InsertWithinCapacity` | | from the definitions; the last shows that `insert` at capacity zero writes outside, which only arrays that are appended to escape |
| `ContainerProofs!Alignment`, `PushInside`, `RegionsApart`, `PopInside` | | arithmetic of `AlignUp`: it rounds up, and by less than the alignment |
| `LexerProofs!TypesCorrect` | `TypeOK` | `RemoveEnd` needs that a frame in state "included" has an END before it, so the types depend on the next line |
| `IRGenProofs!CleanTheorem` | `CleanProgramsVerify` | errors: `LateErrorsTheorem`.  Blocks: a block that is created empty is a promise: the block after a construct is kept by its call (`Merges`), that of the next arm or case by the call of the `if` or `match`, if there is one (`Nexts`), that of a label by `label_blocks` until the label is met (`Unplaced`).  No block is promised twice, the promised blocks are empty, and all others end with their only terminator, but for the one the builder is in (`Owing`); leaving that one closes it and redeems a promise.  At the end of a function no call and no label is left.  `Clean` is needed: a label met twice fills its block twice, a `goto` without a label leaves one empty, and so does a `match` without cases (`CloseInv`).  Dominance: each block is given a set of `for` loops, those around the place in the source that it stands for; no branch goes to a block with a loop that is neither in the block it comes from nor has its alloca there, `step` and the test of a loop are in blocks that have it, and entry blocks have none (`Weighed`).  The blocks the calls in progress and the labels hold, and the builder's, have the loops of the calls they belong to (`Held`), which a `goto` keeps because of `NoJumpIntoFor` (`DomInv`).  By induction along a path that avoids the alloca of a loop no block on it has that loop (`AllocasDominate`) |
| `IRGenProofs!AcceptedTheorem` | `AcceptedVerifies` | the two invariants side by side, `DomInv` of code generation and `ScopeInv` of semantic analysis, with what links them: the generator leaves the first line only for a tree that has been accepted, and when the last step of semantic analysis accepts one, nothing is pending and no name that was looked at is missing (`AcceptedInv`).  Semantic analysis has such a name in scope without the declarations it overlooks, so it is in scope with them (`SeenNames`): with the assumptions on the rest the program is clean |
| `LexerProofs!OneEndTheorem`, `RemovalTheorem` | `OneEnd`, `OnlyAnEndIsRemoved` | an END is the last token and only there while the innermost call is about to remove it, or at the end (`Inv`); every step appends something that is no END, or is `RemoveEnd`, or returns |
| `LexerProofs!LinesTheorem` | `LinesTrue` | in a text without quotes a frame's line is one more than the newlines before its position, also for the frames that wait for an include; newlines are counted by cardinality and add up (`NewlinesAdd`) |
| `LexerProofs!CrashTheorem` | `CrashOnlyWhenExpected` | calls in progress that are more than there are files have two for the same file (pigeonhole); the operand of a directive is read right after the word, with blanks and what begins with a minus between them (`FrameInv`) |
| `LexerProofs!NothingDroppedTheorem` | `NothingDropped` | every position of the main text before the start of the token in progress is accounted for (`MainInv`), and that token is the text from its start to the position (`FrameInv`), through string literals and escapes; the removal after an include takes no token of the main text away |
| `ParserProofs!TypesCorrect` | `TypeOK` | `Steps`: every step goes on within the arena with a well-formed stack (`Goes`), ends the run (`Ends`) or returns (`Finishes`); one lemma for each group of actions |
| `ParserProofs!CleanTheorem` | `DoneMeansClean` | by `Steps` only `Program` finishes, at an END, where `Gate` has looked; and an END is the last token (`EndIsLast`) |
| `ParserProofs!BalancedTheorem`, `BadTokensTheorem` | `AcceptedIsBalanced`, `BadTokensAreReported` | no function counts brackets; their number is in the stack: for each kind of bracket, the calls in progress that are inside of one are as many as the tokens read opened and did not close, and at no earlier place fewer (`Counted`, in `BracketInv`).  At the `return` to `main` only `parser_parse_program` is left, which is inside of none.  An unknown token that is passed is an error counted, and `Gate` looks at the END |
| `ParserProofs!ArenaTheorem` | `ArenaUse` | the nodes made, with those that calls of an operator still owe, are at most two for each token read, and an advance for the point of the innermost call, which takes its token next (`BudgetInv`) |
| `ParserProofs!CrashTheorem` | `CrashOnlyWhenExpected` | while the parser is within the tokens the arena has room for the node a step makes (`BudgetInv` again), and no step follows a node that was not made (`Tame`).  What can go wrong is behind the END: there every call in progress is of a shape (`Shape`) in which each further step returns, stops or counts an error before it takes room (`Doomed`), unless the source stops with a bracket open, after a comparison or after dots (`CrashInv`) |
| `ParserProofs!TreeFitsTheorem` | `TreeFits` | for each call in progress, the head it has written is the last line of the tree that is not deeper than it, and so is the arm, case or block the next one follows (`Fitting`, in `TreeInv`): a line is appended by the innermost call only, one level below its head |
| `ParserProofs!SourceTheorem` | `TreeIsTheSource` | the keywords of the tokens taken are those of the tree, and the one that is due at the point of the innermost call, where the token is taken and its line not yet written, or the other way round (`Told`, in `SourceInv`) |
| `SemanticProofs!TypesTheorem` | `TablesOK` | the constructs that are open are the lines around the next line (`WalkAt`), so there is one table for each function or loop among them (`TablesAt`) |
| `SemanticProofs!ScopesTheorem` | `NamesAsDeclared` | the table of each open scope holds the names of the scopes around it that are declared before the next line, and no others (`TablesAt`): a declaration goes into the innermost only, and what a closed loop has declared is out of the scope of all lines after it.  An error is counted exactly if a line already looked at misses its name; the conditions that only `instr_typecheck` looks at are pending until their `if` or `match` is closed (`Pending`) |
| `CallsProofs!CallsAgreeTheorem` | `CallsAgree` | while no error is counted, every line registered so far agrees with the first of its name in its number of parameters (`Consistent`), and every call passed by the second pass fits the first line (`Checked`); both passes reach the line they say because skipping a body skips no head (`EndOfBodySkipsTheBody`) |
| `CallsProofs!OneBodyTheorem` | `OneBody` | registration leaves every function known by its first line and, if that is a definition, no other definition of the name without an error (`OneDefinition`); while code is generated, a function of the module is of a line reached, and one body is added for a definition that is the only one (`Generated`, `OneBodyEach`, in `BodiesInv`) |
| `CallsProofs!AcceptedCallsTheorem` | `AcceptedCallsVerify` | the module is followed as it is made: its functions are what the first line of their name says, every head passed has its function and every definition passed its body, and a body that is not closed yet is the one the builder is in; and what was made so far is sound exactly if the lines passed so far keep the rules (`OpenInv`, on top of `BodiesInv`).  At the end of the file every body is closed, so the equivalence is the one the property states |

Each `...Proofs` module states the strengthened invariants first (`StackInv`, `MapInv` and `RoomInv`;
`DInv` and `CInv`; `WalkInv`, `TypeInv`, `NamesInv`, `LateInv`, `CloseInv`, `DomInv` and `AcceptedInv`; `Inv` and `PassInv`; `Inv`, `BracketInv`, `BudgetInv`,
`CrashInv`, `TreeInv` and `SourceInv`; `ScopeInv`;
`Inv`, `BodiesInv` and `OpenInv`), proves that each holds initially and that every action preserves it, one step for
each action, and derives the properties.

A proof attempt also found a fault in the models themselves: two `CASE`s, in `Deadline` of `Semantic` and in
`LabelErrors`, had arms that could hold together, and TLA+ leaves open which one is taken then.  TLC takes
the first, so no run could show it; the arms of all `CASE`s exclude each other now.  Another showed that what
`CrashOnlyWhenExpected` of `Parser` used to say is false for sources longer than those of the run: it expected a
crash behind the END only after an open block or a comparison, and `while a [ b`, or a declaration that ends in
dots, crash as well.  The property names these now, and the eighth repertoire lets TLC reach them.

Two facts took a way around the induction that the provers do not have: that `FlattenSeq` of a longer sequence
appends the last part, and that a property which passes from each number to the next holds for all, are shown
from the least counterexample (`SmallestElement`, `UpToAll`).  `TreeIsTheSource` is stated with `FlattenSeq` on both
sides for this reason, as the definition of `SelectSeq` is not open to the provers.

Only model-checked:

* liveness (`EveryCallReturns`, `ReadsToTheEnd`, `ParserStops`): fairness and `ENABLED` are outside the prover's reach;
* `RunsAsWritten`: it compares what the code does with what the program says on every path.  The invariants of
  `IRGenProofs` say which blocks are closed, and not where each line's code has ended up; a proof would need that
  for every line, and an induction along the branches without an event that `Settle` and `IRSettle` follow;
* `IncludeIsPaste`: an induction over nested texts;
* what the runs expect to be violated.

No module with theorems, or used by one, declares a `RECURSIVE` operator: tlapm loses its
SMT backend there.  Recursion is written as recursive functions.

## Not modelled, and why

* Characters, formatting, `--verbose` printing, names of temporary files: data.
* LLVM itself, `cc`, the file system: external; their outcomes are choices.
* Arithmetic, casts and arrays in code generation: expressions without control.  `Use`
  stands for an instruction that reads a variable.
* Instructions other than calls outside functions in code generation: the builder has no insertion point.
* `stack.c` (initialised by `fstate_init` and never used), `dynamic_array_pop` (no caller), freeing of
  arenas, tables and trees: it ends their lives.
* The declarations' own expressions, sizes of arrays, case values and ranges as readers of names: `declare` and
  `case` lines read none.  Arguments of call statements on the top level, where code generation has no place for
  them, read none either.  The crash of semantic analysis that prints the type of an undeclared variable
  (`type_to_str` of -1) is one of the outcomes of the pass in `Driver` and left out of `Semantic`: an error has been counted by then.
* Types of expressions without calls, array sizes and `evaluate_const_expr` in semantic analysis: the first two
  reject a program whatever else it does, the last feeds a stack offset that nobody reads.
* `free_tokens`, which frees the string of a token by its kind, and the printing of tokens and trees: a hazard
  of the first is listed.
* Values of numbers in the lexer (`atoi`), and calls nested in arguments: data.

## Plan

1. *Composition*: `Lexer` and `Parser` over one token array, which would replace `Supply`; the tree of `Parser` as
   the program of `FrontEnd`.
2. *Types*: the types of expressions without calls, arrays and their sizes; calls as arguments of calls.
3. *Freeing*: who owns the strings of tokens, tables and nodes at the end of a file.
