------------------------------- MODULE Driver -------------------------------
(***************************************************************************)
(* One run of sclc, from the command line to the exit status: cstate_init, *)
(* the pipeline of main for each input file, the LLVM backend's set-up and *)
(* clean-up, the object files on disk, and the link (src/sclc/src/sclc.c,  *)
(* cstate.c, fstate.c, utils.c, backend/).                                 *)
(*                                                                         *)
(* What a pass finds in a file is a choice: a pass reports errors or not,  *)
(* a text may crash it, and the IR it leaves is well formed or not.  What  *)
(* the driver does with the findings is the code's: scu_perror only        *)
(* counts, and the run stops where scu_check_errors is called.             *)
(***************************************************************************)
EXTENDS Naturals, Sequences, FiniteSets

CONSTANTS Files,       \* names of source files
          Names,       \* names without their extension
          Extract,     \* scu_extract_name
          MaxArgs,     \* bound on the length of the command line
          ArenaFiles   \* how many fstates fit in the file arena of 512 bytes

ASSUME FilesAssumption == Extract \in [Files -> Names]
ASSUME BoundsAssumption == MaxArgs \in Nat /\ ArenaFiles \in Nat

\* An option stands for itself and its value; "bad" is one that cstate_init
\* rejects: unknown, without its value, a bad target or include directory.
Options == {"-o", "-i", "-c", "--target", "--emit-llvm", "--emit-asm", "-O0", "-O2", "bad"}

OptLevels == {"-O0", "-O2"}  \* no optimization, or some; the last one counts

VARIABLES
  pc,        \* the call of main being made
  argv,      \* the arguments not looked at yet
  given,     \* the options seen, cst.options
  filenames, \* the input files of the command line, in order
  opened,    \* how many of them have an fstate in cst.files
  current,   \* index of the file the pipeline works on
  errors,    \* err_count # 0
  context,   \* "none", "live" or "deleted": bctx.context, module and builder
  machine,   \* bctx.target_machine is set
  wellformed,\* what llvm::verifyModule would say of the module
  disk,      \* the object file at each path
  output,    \* the object files the output binary was linked from
  artefacts, \* the .ll and .s files written
  status     \* "running", or how the process ended

vars == <<pc, argv, given, filenames, opened, current, errors, context, machine,
          wellformed, disk, output, artefacts, status>>

cmdline == <<argv, given, filenames>>
backend == <<context, machine, wellformed>>
files   == <<disk, output, artefacts>>

\* What else a path can hold, or an emission leave there, is not a source file.
ASSUME FileKinds == Files \cap {"none", "old", "empty", "kept"} = {}

Dirs == {"tmp", "cwd"}       \* /tmp/sclc, or the directory of the source
Objects == {"none", "old", "empty"} \cup Files   \* by the file compiled into it

Running(p) == status = "running" /\ pc = p

Exit(s) == status' = s /\ UNCHANGED pc
Goto(p) == pc' = p /\ UNCHANGED status

compile_only == given \cap {"-c", "--emit-llvm", "--emit-asm"} # {}

\* The path in cst.obj_file_list, and the one the backend writes to.
ListedPath(f) == <<IF compile_only THEN "cwd" ELSE "tmp", Extract[f]>>
EmittedPath(f) == <<IF compile_only THEN "cwd" ELSE "tmp", Extract[f]>>

File == filenames[current]

----------------------------------------------------------------------------
Init ==
  /\ pc = "args" /\ status = "running"
  /\ \E n \in 0..MaxArgs : argv \in [1..n -> Options \cup Files]
  /\ given = {} /\ filenames = <<>> /\ opened = 0 /\ current = 1
  /\ errors = FALSE
  /\ context = "none" /\ machine = FALSE /\ wellformed = TRUE
  /\ disk \in [Dirs \X Names -> {"none", "old"}]
  /\ output = {} /\ artefacts = {}

(* cstate_init.  Its error paths free the cstate, which main has on its    *)
(* stack, before they exit: the allocator may abort.                       *)

Usage ==
  /\ Running("args") /\ argv = <<>> /\ filenames = <<>> /\ given = {}
  /\ Exit("failed")
  /\ UNCHANGED <<cmdline, opened, current, errors, backend, files>>

RejectArgs ==
  /\ errors' = TRUE
  /\ \E s \in {"failed", "crashed"} : Exit(s)
  /\ UNCHANGED <<cmdline, opened, current, backend, files>>

BadArgument ==
  /\ Running("args") /\ argv # <<>>
  /\ \/ Head(argv) = "bad"
     \/ Head(argv) \in {"-o", "-i"} \cap given
  /\ RejectArgs

NoInput ==
  /\ Running("args") /\ argv = <<>> /\ filenames = <<>> /\ given # {}
  /\ RejectArgs

TakeOption ==
  /\ Running("args") /\ argv # <<>>
  /\ Head(argv) \in Options \ ({"bad"} \cup ({"-o", "-i"} \cap given))
  /\ LET opt == Head(argv) IN
     given' = {opt} \cup (IF opt \in OptLevels THEN given \ OptLevels ELSE given)
  /\ argv' = Tail(argv)
  /\ UNCHANGED <<pc, status, filenames, opened, current, errors, backend, files>>

TakeFile ==
  /\ Running("args") /\ argv # <<>> /\ Head(argv) \in Files
  /\ filenames' = Append(filenames, Head(argv))
  /\ argv' = Tail(argv)
  /\ UNCHANGED <<pc, status, given, opened, current, errors, backend, files>>

\* Mutant of OpenFile: one fstate more than there are files.
OpenOneMore ==
  /\ Running("args") /\ argv = <<>> /\ opened <= Len(filenames)
  /\ opened < ArenaFiles /\ opened' = opened + 1
  /\ UNCHANGED <<pc, status, cmdline, current, errors, backend, files>>

\* The fstate of the next input file.  A file that cannot be read ends the
\* run; an fstate that does not fit in the arena is a null pointer.
OpenFile ==
  /\ Running("args") /\ argv = <<>> /\ opened < Len(filenames)
  /\ \/ /\ opened < ArenaFiles
        /\ opened' = opened + 1
        /\ UNCHANGED <<pc, status, errors>>
     \/ /\ opened < ArenaFiles
        /\ errors' \in {errors, TRUE}
        /\ Exit("failed")
        /\ UNCHANGED opened
     \/ /\ opened >= ArenaFiles
        /\ errors' = TRUE
        /\ Exit("crashed")
        /\ UNCHANGED opened
  /\ UNCHANGED <<cmdline, current, backend, files>>

\* Mutant of BackendInit: a failed look-up of the target is only warned of.
TargetOnlyWarned ==
  /\ Running("args") /\ argv = <<>> /\ filenames # <<>> /\ opened = Len(filenames)
  /\ context' = "live"
  /\ machine' \in BOOLEAN
  /\ Goto("lex")
  /\ UNCHANGED <<cmdline, opened, current, errors, wellformed, files>>

\* backend_init: one set-up for the whole run.  A target LLVM cannot look up
\* is an error that is counted, and leaves no target machine.
BackendInit ==
  /\ Running("args") /\ argv = <<>> /\ filenames # <<>> /\ opened = Len(filenames)
  /\ context' = "live"
  /\ machine' \in BOOLEAN
  /\ errors' = (errors \/ ~machine')
  /\ Goto("lex")
  /\ UNCHANGED <<cmdline, opened, current, wellformed, files>>

----------------------------------------------------------------------------
(* The pipeline of one file.                                               *)

\* An include that is not a regular file ends the run.  A directive without a
\* name, and a file that includes itself, crash it.
Lex ==
  /\ Running("lex")
  /\ \/ Goto("parse") /\ UNCHANGED errors
     \/ Exit("failed") /\ errors' \in {errors, TRUE}
     \/ Exit("crashed") /\ UNCHANGED errors
  /\ UNCHANGED <<cmdline, opened, current, backend, files>>

\* Mutant of Pass: only the pass's own errors end the run after it.
PassOwnErrors(name, next) ==
  /\ Running(name)
  /\ \/ Goto(next) /\ UNCHANGED errors
     \/ Exit("failed") /\ errors' = TRUE
  /\ UNCHANGED <<cmdline, opened, current, backend, files>>

\* A pass that may report errors, and ends the run if any was ever counted.
\* There are texts that crash it: in the parser when the arena is full or a
\* number is printed as a string, in the analysis when the type printed is that
\* of an undeclared variable.
Pass(name, next) ==
  /\ Running(name)
  /\ errors' \in {errors, TRUE}
  /\ \/ IF errors' THEN Exit("failed") ELSE Goto(next)
     \/ Exit("crashed")
  /\ UNCHANGED <<cmdline, opened, current, backend, files>>

\* The parser goes on after many of its errors, and checks for them each time
\* it looks at the END token, which it does before it returns.
Parse == Pass("parse", "semantics")

CheckSemantics == Pass("semantics", "compile")

\* llvm_backend_compile: generating code reports errors and goes on.  It uses a
\* null block for an instruction outside of functions, and null values of ranges
\* and cases after it has counted the error.
BackendCompile ==
  /\ Running("compile")
  /\ IF context = "live"
     THEN /\ errors' \in {errors, TRUE}
          /\ \/ Goto("optimize") /\ wellformed' \in BOOLEAN
             \/ Exit("crashed") /\ UNCHANGED wellformed
     ELSE Exit("crashed") /\ UNCHANGED <<errors, wellformed>>
  /\ UNCHANGED <<cmdline, opened, current, context, machine, files>>

\* llvm_backend_optimize runs before the module is verified: what the passes
\* do to a module that is not well formed is undefined.
Optimize ==
  /\ Running("optimize")
  /\ \/ Goto("emit") /\ UNCHANGED wellformed
     \/ /\ "-O0" \notin given /\ ~wellformed
        /\ \/ Goto("emit") /\ wellformed' = TRUE
           \/ Exit("crashed") /\ UNCHANGED wellformed
  /\ UNCHANGED <<cmdline, opened, current, errors, context, machine, files>>

\* Mutant of EmitInvalid: a module that is not well formed is only warned of.
InvalidOnlyWarned ==
  /\ Running("emit") /\ ~wellformed
  /\ Goto("cleanup")
  /\ UNCHANGED <<cmdline, opened, current, errors, backend, files>>

\* llvm_backend_emit.  Every failure is counted, or only warned of, and the
\* function returns.
EmitInvalid ==
  /\ Running("emit") /\ ~wellformed
  /\ errors' = TRUE
  /\ Goto("cleanup")
  /\ UNCHANGED <<cmdline, opened, current, backend, files>>

Written(kind) == artefacts' \in {artefacts, artefacts \cup {<<kind, Extract[File]>>}}

EmitText ==
  /\ Running("emit") /\ wellformed
  /\ \/ "--emit-llvm" \in given /\ Written(".ll") /\ Goto("cleanup")
     \/ /\ "--emit-llvm" \notin given /\ "--emit-asm" \in given
        /\ IF machine THEN Written(".s") /\ Goto("cleanup")
           ELSE UNCHANGED artefacts /\ Exit("crashed")
  /\ UNCHANGED <<cmdline, opened, current, errors, backend, disk, output>>

\* "kept" when the object cannot be opened, "empty" when it is opened and the
\* target cannot emit it.
EmitObject ==
  /\ Running("emit") /\ wellformed /\ given \cap {"--emit-llvm", "--emit-asm"} = {}
  /\ IF machine
     THEN /\ Goto("cleanup")
          /\ \E result \in {"kept", "empty", File} :
               /\ errors' = (errors \/ result # File)
               /\ disk' = IF result = "kept" THEN disk
                          ELSE [disk EXCEPT ![EmittedPath(File)] = result]
     ELSE Exit("crashed") /\ UNCHANGED <<errors, disk>>
  /\ UNCHANGED <<cmdline, opened, current, backend, output, artefacts>>

\* llvm_backend_cleanup deletes what the one set-up of the run created.
Cleanup ==
  /\ Running("cleanup")
  /\ context' = "deleted" /\ machine' = FALSE
  /\ IF current < Len(filenames)
     THEN current' = current + 1 /\ Goto("lex")
     ELSE UNCHANGED current /\ Goto(IF compile_only THEN "free" ELSE "link")
  /\ UNCHANGED <<cmdline, opened, errors, wellformed, files>>

----------------------------------------------------------------------------
\* ld_link: cc needs every object, and may still fail on what is in them.
Link ==
  /\ Running("link")
  /\ LET objects == {disk[ListedPath(filenames[i])] : i \in 1..Len(filenames)} IN
     \/ /\ objects \cap {"none", "empty"} = {}
        /\ output' = objects
        /\ Goto("free")
        /\ UNCHANGED errors
     \/ Exit("failed") /\ errors' = TRUE /\ UNCHANGED output
  /\ UNCHANGED <<cmdline, opened, current, backend, disk, artefacts>>

\* Mutant of Free: the arena is freed before the first fstate is read.
FreeArenaFirst ==
  /\ Running("free")
  /\ \/ Exit("done")
     \/ opened > 0 /\ Exit("crashed")
  /\ UNCHANGED <<cmdline, opened, current, errors, backend, files>>

\* cstate_free frees the arena of all fstates after the first of them, so a
\* second one is read from freed memory.
Free ==
  /\ Running("free")
  /\ \/ Exit("done")
     \/ opened > 1 /\ Exit("crashed")
  /\ UNCHANGED <<cmdline, opened, current, errors, backend, files>>

CommandLine == Usage \/ BadArgument \/ NoInput \/ TakeOption \/ TakeFile \/ OpenFile
FrontEnd == Lex \/ Parse \/ CheckSemantics
BackEnd == BackendInit \/ BackendCompile \/ Optimize \/ EmitInvalid \/ EmitText
           \/ EmitObject \/ Cleanup

Next == CommandLine \/ FrontEnd \/ BackEnd \/ Link \/ Free

Spec == Init /\ [][Next]_vars

----------------------------------------------------------------------------
(* Properties.                                                             *)

TypeOK ==
  /\ pc \in {"args", "lex", "parse", "semantics", "compile", "optimize", "emit",
             "cleanup", "link", "free"}
  /\ argv \in Seq(Options \cup Files) /\ given \subseteq Options
  /\ filenames \in Seq(Files)
  /\ opened \in 0..Len(filenames) /\ current \in Nat \ {0}
  /\ errors \in BOOLEAN /\ machine \in BOOLEAN /\ wellformed \in BOOLEAN
  /\ context \in {"none", "live", "deleted"}
  /\ disk \in [Dirs \X Names -> Objects]
  /\ output \subseteq Objects
  /\ artefacts \subseteq {".ll", ".s"} \X Names
  /\ status \in {"running", "failed", "crashed", "done"}

\* Code is generated only for a program in which no pass, and no set-up before
\* it, has found an error: the counter is never reset and parser and semantic
\* analysis check it for the errors of everyone before them.
NoCodeAfterErrors == Running("compile") => ~errors

\* The target machine that emitting needs is there for the first file, though
\* a failed look-up only counts an error and main goes on with the pipeline.
FirstFileHasTarget ==
  status = "running" /\ pc \in {"compile", "optimize", "emit"} /\ current = 1 =>
    context = "live" /\ machine

\* An object left by an earlier compilation gets into the output only when an
\* error was counted; without errors the output is linked from what this run
\* compiled, of every file of the command line.
OutputIsFresh ==
  output # {} /\ ~errors => output = {filenames[i] : i \in 1..Len(filenames)}

\* The passes that walk a file's own text, all on a backend that is set up.
WalksFile == pc \in {"lex", "parse", "semantics", "compile"} /\ context = "live"

\* With one input file main crashes in rejecting the command line, inside a pass
\* over the text of the file, or in optimizing IR that was not verified.  Main's
\* own sequence of calls adds no crash to those: nothing is emitted without the
\* target, linked or freed that an earlier step failed to set up, or deleted.
CrashOnlyWhenExpected ==
  status = "crashed" =>
    \/ Len(filenames) > 1
    \/ pc = "args" /\ opened = 0
    \/ WalksFile
    \/ pc = "optimize" /\ ~wellformed /\ "-O0" \notin given

\* utils.h:97 has errors end the pipeline: a run that counted an error does
\* not report success.
SuccessMeansNoErrors == status = "done" => ~errors

\* backend.h:14 and backend.h:20 have the set-up once for the run and only the
\* resources of the file cleaned up after it: the context lives while files
\* are compiled.
ContextLivesWhileCompiling == Running("compile") => context = "live"
=============================================================================
