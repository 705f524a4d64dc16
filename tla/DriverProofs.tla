---------------------------- MODULE DriverProofs ----------------------------
(***************************************************************************)
(* What the driver's scattered checks of the error counter amount to.  The *)
(* inductive invariant DInv says, for each stage of main, what the stages  *)
(* before it have established: the set-up, the gate of the error counter,  *)
(* and the object on disk that the link will take.                         *)
(***************************************************************************)
EXTENDS Driver, TLAPS

InFile == {"lex", "parse", "semantics", "compile", "optimize", "emit", "cleanup"}
FrontPcs == {"args", "lex", "parse", "semantics"}

\* The set-up holds through the first file, and no later file is compiled.
SetUp ==
  status = "running" =>
    /\ pc \in InFile =>
         /\ filenames # <<>> /\ current \in 1..Len(filenames)
         /\ IF current = 1 THEN context = "live" ELSE context = "deleted"
    /\ pc \in {"lex", "parse", "semantics"} /\ current = 1 => machine \/ errors
    /\ pc \in {"compile", "optimize", "emit"} /\ current = 1 => machine
    /\ pc \in {"optimize", "emit", "cleanup"} => current = 1
    /\ pc \in {"link", "free"} => Len(filenames) = 1
    /\ pc = "link" => ~compile_only
    /\ pc = "args" => current = 1

\* Code generation is entered past the checks of parser and semantics.
Gate == status = "running" /\ pc = "compile" => ~errors

\* Until the link the output is untouched, and without errors the object that
\* will be linked is the one just emitted.
Fresh ==
  /\ status = "running" /\ pc # "free" => output = {}
  /\ status = "running" /\ pc \in {"cleanup", "link"} /\ ~errors /\ ~compile_only =>
       disk[ListedPath(filenames[1])] = filenames[1]
  /\ output # {} /\ ~errors => output = {filenames[i] : i \in 1..Len(filenames)}

Types ==
  /\ filenames \in Seq(Files) /\ given \subseteq Options
  /\ errors \in BOOLEAN /\ machine \in BOOLEAN
  /\ disk \in [Dirs \X Names -> Objects]
  /\ pc \in FrontPcs \cup InFile \cup {"link", "free"}
  /\ current \in Nat

DInv == Types /\ SetUp /\ Gate /\ Fresh

\* The invariant holds at the start of main.
LEMMA InitDInv == Init => DInv
<1> SUFFICES ASSUME Init PROVE DInv
  OBVIOUS
<1>1. filenames = <<>> /\ given = {} /\ errors = FALSE /\ machine = FALSE /\ pc = "args"
      /\ current = 1 /\ output = {} /\ status = "running"
  BY DEF Init
<1>2. disk \in [Dirs \X Names -> {"none", "old"}]
  BY DEF Init
<1>3. disk \in [Dirs \X Names -> Objects]
  BY <1>2 DEF Objects
<1>4. Types
  <2>1. filenames \in Seq(Files) /\ given \subseteq Options /\ current \in Nat
    BY <1>1
  <2>2. errors \in BOOLEAN /\ machine \in BOOLEAN /\ pc \in FrontPcs
    BY <1>1 DEF FrontPcs
  <2> QED BY <1>3, <2>1, <2>2 DEF Types
<1>5. SetUp
  BY <1>1 DEF SetUp, InFile
<1>6. Gate /\ Fresh
  BY <1>1 DEF Gate, Fresh
<1> QED BY <1>4, <1>5, <1>6 DEF DInv

\* Steps before the back end, whatever they find: they leave what the
\* invariant says of objects and output alone.
LEMMA FrontDInv == ASSUME DInv, CommandLine \/ FrontEnd PROVE DInv'
<1> USE DEF DInv, Types, SetUp, Gate, Fresh, InFile, FrontPcs, Running, Exit, Goto,
            cmdline, backend, files, compile_only, ListedPath
<1>1. CASE Usage
  BY <1>1 DEF Usage
<1>2. CASE BadArgument
  BY <1>2 DEF BadArgument, RejectArgs
<1>3. CASE NoInput
  BY <1>3 DEF NoInput, RejectArgs
<1>4. CASE TakeOption
  BY <1>4 DEF TakeOption, Options, OptLevels
<1>5. CASE TakeFile
  BY <1>5 DEF TakeFile
<1>6. CASE OpenFile
  BY <1>6 DEF OpenFile
<1>7. CASE Lex
  BY <1>7 DEF Lex
<1>8. CASE Parse \/ CheckSemantics
  <2> PICK name \in {"parse", "semantics"}, next \in {"semantics", "compile"} : Pass(name, next)
    BY <1>8 DEF Parse, CheckSemantics
  <2>1. Types' /\ Fresh'
    BY DEF Pass
  <2>2. CASE errors'
    BY <2>1, <2>2 DEF Pass
  <2>3. CASE ~errors'
    <3>1. errors' \in {errors, TRUE} /\ errors \in BOOLEAN
      BY DEF Pass
    <3>2. errors' = errors /\ ~errors
      <4>1. errors' = errors \/ errors' = TRUE
        BY ONLY <3>1
      <4>2. errors' # TRUE
        BY ONLY <2>3
      <4>3. errors' = errors
        BY ONLY <4>1, <4>2
      <4> QED BY ONLY <4>3, <2>3
    <3> QED BY <2>1, <2>3, <3>2 DEF Pass
  <2> QED BY <2>2, <2>3
<1> QED
  BY <1>1, <1>2, <1>3, <1>4, <1>5, <1>6, <1>7, <1>8 DEF CommandLine, FrontEnd

\* The calls into the backend, of which only the first file sees more than the
\* crash: EmitObject makes the object that Fresh is about.
LEMMA BackDInv == ASSUME DInv, BackEnd PROVE DInv'
<1> USE DEF DInv, Types, SetUp, Gate, Fresh, InFile, FrontPcs, Running, Exit, Goto,
            cmdline, backend, files, compile_only, ListedPath
<1>1. CASE BackendInit
  <2>1. Types' /\ Fresh'
    BY <1>1 DEF BackendInit
  <2>2. machine' \/ errors'
    BY <1>1 DEF BackendInit
  <2>3. SetUp' /\ Gate'
    BY <1>1, <2>2 DEF BackendInit
  <2> QED BY <2>1, <2>3
<1>2. CASE BackendCompile
  BY <1>2 DEF BackendCompile
<1>3. CASE Optimize
  BY <1>3 DEF Optimize
<1>4. CASE EmitInvalid
  BY <1>4 DEF EmitInvalid
<1>5. CASE EmitText
  BY <1>5 DEF EmitText, Written
<1>6. CASE EmitObject
  <2>1. filenames # <<>> /\ current = 1 /\ File = filenames[1] /\ File \in Files
    BY <1>6 DEF EmitObject, File
  <2>2. EmittedPath(File) \in Dirs \X Names
    BY <2>1, FilesAssumption DEF EmittedPath, Dirs
  <2>3. Types'
    BY <1>6, <2>1, <2>2 DEF EmitObject, Objects
  <2>4. SetUp' /\ Gate'
    BY <1>6 DEF EmitObject
  <2>5. Fresh'
    <3>1. CASE machine /\ ~errors'
      <4>1. disk' = [disk EXCEPT ![EmittedPath(File)] = File]
        <5>1. PICK result \in {"kept", "empty", File} :
                /\ errors' = (errors \/ result # File)
                /\ disk' = IF result = "kept" THEN disk
                           ELSE [disk EXCEPT ![EmittedPath(File)] = result]
          BY <1>6, <3>1 DEF EmitObject
        <5>2. result = File
          BY <5>1, <3>1
        <5> QED BY <5>1, <5>2, <2>1, FileKinds
      <4>2. ListedPath(filenames[1])' = EmittedPath(File)
        BY <1>6, <2>1 DEF EmitObject, EmittedPath
      <4>3. disk'[ListedPath(filenames[1])'] = filenames[1]
        BY <4>1, <4>2, <2>1, <2>2
      <4> QED BY <1>6, <4>3, <2>1 DEF EmitObject
    <3>2. CASE ~machine \/ errors'
      BY <1>6, <3>2 DEF EmitObject
    <3> QED BY <3>1, <3>2
  <2> QED BY <2>3, <2>4, <2>5
<1>7. CASE Cleanup
  <2>1. filenames # <<>> /\ current = 1 /\ Len(filenames) \in Nat \ {0}
    BY <1>7 DEF Cleanup
  <2>2. context' = "deleted" /\ machine' = FALSE /\ status' = "running"
        /\ UNCHANGED <<given, filenames, errors, disk, output>>
    BY <1>7 DEF Cleanup
  <2>3. \/ Len(filenames) > 1 /\ current' = 2 /\ pc' = "lex"
        \/ Len(filenames) = 1 /\ current' = 1 /\ pc' = "link" /\ ~compile_only
        \/ Len(filenames) = 1 /\ current' = 1 /\ pc' = "free" /\ compile_only
    <3>1. CASE 1 < Len(filenames)
      <4>1. current' = current + 1 /\ pc' = "lex"
        BY ONLY <1>7, <2>1, <3>1 DEF Cleanup, Goto
      <4> QED BY ONLY <4>1, <2>1, <3>1
    <3>2. CASE Len(filenames) = 1
      <4>1. current' = current /\ pc' = IF compile_only THEN "free" ELSE "link"
        BY ONLY <1>7, <2>1, <3>2 DEF Cleanup, Goto
      <4>2. current' = 1
        BY ONLY <4>1, <2>1
      <4> QED BY ONLY <4>1, <4>2, <3>2
    <3>3. 1 < Len(filenames) \/ Len(filenames) = 1
      <4>1. \A n \in Nat \ {0} : 1 < n \/ n = 1
        OBVIOUS
      <4> QED BY ONLY <2>1, <4>1
    <3> QED BY ONLY <3>1, <3>2, <3>3
  <2>4. Types'
    <3>1. current' \in Nat /\ pc' \in FrontPcs \cup InFile \cup {"link", "free"}
      BY ONLY <2>3 DEF FrontPcs, InFile
    <3> QED BY <2>2, <3>1
  <2>5. SetUp' /\ Gate'
    BY <2>1, <2>2, <2>3
  <2>6. Fresh'
    BY <1>7, <2>1, <2>2, <2>3 DEF Cleanup
  <2> QED BY <2>4, <2>5, <2>6
<1> QED BY <1>1, <1>2, <1>3, <1>4, <1>5, <1>6, <1>7 DEF BackEnd

\* The link takes the one object there is; the clean-up leaves it.
LEMMA LinkDInv == ASSUME DInv, Link \/ Free PROVE DInv'
<1> USE DEF DInv, Types, SetUp, Gate, Fresh, InFile, FrontPcs, Running, Exit, Goto,
            cmdline, backend, files, compile_only, ListedPath
<1>1. CASE Link
  <2>1. Len(filenames) = 1 /\ pc = "link" /\ status = "running"
    BY <1>1 DEF Link
  <2>2. Types'
    BY <1>1 DEF Link
  <2>3. SetUp' /\ Gate'
    BY <1>1 DEF Link
  <2>4. Fresh'
    <3>1. UNCHANGED <<given, filenames, disk>>
      BY <1>1 DEF Link
    <3>2. CASE pc' = "free" /\ errors' = errors
      <4>1. output' = {disk[ListedPath(filenames[1])]}
        BY <1>1, <2>1, <3>2 DEF Link
      <4>2. ~errors => disk[ListedPath(filenames[1])] = filenames[1]
        BY <1>1, <2>1 DEF Link
      <4>3. ~errors => output' = {filenames[i] : i \in 1..Len(filenames)}
        BY ONLY <2>1, <4>1, <4>2
      <4> QED BY ONLY <3>1, <3>2, <4>3 DEF Fresh
    <3>3. CASE status' = "failed" /\ errors' = TRUE
      BY <3>3
    <3> QED BY <1>1, <3>2, <3>3 DEF Link
  <2> QED BY <2>2, <2>3, <2>4
<1>2. CASE Free
  BY <1>2 DEF Free
<1> QED BY <1>1, <1>2

\* Every step of the program, or none.
LEMMA NextDInv == ASSUME DInv, [Next]_vars PROVE DInv'
<1>1. CASE UNCHANGED vars
  BY <1>1 DEF vars, DInv, Types, SetUp, Gate, Fresh, compile_only, ListedPath
<1> QED BY <1>1, FrontDInv, BackDInv, LinkDInv DEF Next

\* Whatever the command line and the findings of the passes: code generation
\* never starts once an error was counted.
THEOREM GateTheorem == Spec => []NoCodeAfterErrors
<1>1. DInv => NoCodeAfterErrors
  BY DEF DInv, Gate, NoCodeAfterErrors, Running
<1> QED BY <1>1, InitDInv, NextDInv, PTL DEF Spec

\* The first file is compiled with a target machine, though a failed look-up
\* does not stop backend_init.
THEOREM TargetTheorem == Spec => []FirstFileHasTarget
<1>1. DInv => FirstFileHasTarget
  BY DEF DInv, SetUp, FirstFileHasTarget, InFile
<1> QED BY <1>1, InitDInv, NextDInv, PTL DEF Spec

\* Without a counted error the output is linked from the objects of this run,
\* whatever earlier runs left in /tmp/sclc.
THEOREM FreshTheorem == Spec => []OutputIsFresh
<1>1. DInv => OutputIsFresh
  BY DEF DInv, Fresh, OutputIsFresh
<1> QED BY <1>1, InitDInv, NextDInv, PTL DEF Spec
----------------------------------------------------------------------------
(* Types, and the crashes.                                                 *)

\* No fstate is made before the whole command line was read.
OpenedLast == Running("args") /\ argv # <<>> => opened = 0

CInv == DInv /\ TypeOK /\ OpenedLast /\ CrashOnlyWhenExpected

\* At the start of main.
LEMMA InitCInv == Init => CInv
<1> SUFFICES ASSUME Init PROVE TypeOK /\ OpenedLast /\ CrashOnlyWhenExpected
  BY InitDInv DEF CInv
<1>1. /\ pc = "args" /\ status = "running" /\ given = {} /\ filenames = <<>> /\ opened = 0
      /\ current = 1 /\ errors = FALSE /\ context = "none" /\ machine = FALSE
      /\ wellformed = TRUE /\ output = {} /\ artefacts = {}
  BY DEF Init
<1>2. argv \in Seq(Options \cup Files)
  <2>1. PICK n \in 0..MaxArgs : argv \in [1..n -> Options \cup Files]
    BY DEF Init
  <2>2. n \in Nat
    BY BoundsAssumption
  <2> QED BY ONLY <2>1, <2>2
<1>3. disk \in [Dirs \X Names -> Objects]
  BY DEF Init, Objects
<1>4. opened \in 0..Len(filenames) /\ filenames \in Seq(Files)
  BY <1>1
<1>5. TypeOK
  <2>1. /\ pc \in {"args"} /\ status \in {"running"} /\ context \in {"none"}
        /\ errors \in BOOLEAN /\ machine \in BOOLEAN /\ wellformed \in BOOLEAN
    BY <1>1
  <2>2. given \subseteq Options /\ output \subseteq Objects /\ artefacts \subseteq {".ll", ".s"} \X Names
    BY <1>1
  <2>3. current \in Nat \ {0}
    BY <1>1
  <2> QED BY <1>2, <1>3, <1>4, <2>1, <2>2, <2>3 DEF TypeOK
<1>6. OpenedLast /\ CrashOnlyWhenExpected
  BY <1>1 DEF OpenedLast, CrashOnlyWhenExpected
<1> QED BY <1>5, <1>6

\* The command line, and the files it names.
LEMMA CommandLineCInv ==
  ASSUME CInv, CommandLine
  PROVE  TypeOK' /\ OpenedLast' /\ CrashOnlyWhenExpected'
<1> USE DEF CInv, Running, Exit, Goto, cmdline, backend, files
<1>1. /\ argv \in Seq(Options \cup Files) /\ filenames \in Seq(Files) /\ Len(filenames) \in Nat
      /\ opened \in 0..Len(filenames) /\ errors \in BOOLEAN
  BY DEF TypeOK
<1>2. CASE Usage
  BY <1>1, <1>2 DEF Usage, TypeOK, OpenedLast, CrashOnlyWhenExpected
<1>3. CASE BadArgument \/ NoInput
  <2>1. pc = "args" /\ opened = 0 /\ RejectArgs
    BY <1>1, <1>3 DEF BadArgument, NoInput, OpenedLast
  <2> QED BY <1>1, <2>1 DEF RejectArgs, TypeOK, OpenedLast, CrashOnlyWhenExpected
<1>4. CASE TakeOption
  <2>1. argv # <<>> /\ argv' = Tail(argv) /\ opened = 0 /\ opened' = opened
    BY <1>4 DEF TakeOption, OpenedLast
  <2>2. argv' \in Seq(Options \cup Files)
    BY <1>1, <2>1
  <2>3. given' \subseteq Options
    BY <1>4 DEF TakeOption, TypeOK
  <2>4. TypeOK'
    BY <1>4, <2>2, <2>3 DEF TakeOption, TypeOK
  <2> QED BY <1>4, <2>1, <2>4 DEF TakeOption, OpenedLast, CrashOnlyWhenExpected
<1>5. CASE TakeFile
  <2>1. /\ argv # <<>> /\ argv' = Tail(argv) /\ opened = 0 /\ opened' = opened
        /\ filenames' = Append(filenames, Head(argv)) /\ Head(argv) \in Files
    BY <1>5 DEF TakeFile, OpenedLast
  <2>2. argv' \in Seq(Options \cup Files) /\ filenames' \in Seq(Files)
    BY <1>1, <2>1
  <2>3. opened' \in 0..Len(filenames')
    BY <2>1, <2>2
  <2>4. TypeOK'
    BY <1>5, <2>2, <2>3 DEF TakeFile, TypeOK
  <2> QED BY <1>5, <2>1, <2>4 DEF TakeFile, OpenedLast, CrashOnlyWhenExpected
<1>6. CASE OpenFile
  <2>1. /\ opened < Len(filenames) /\ pc = "args" /\ argv = <<>>
        /\ UNCHANGED <<argv, given, filenames, current, context, machine, wellformed,
                       disk, output, artefacts, pc>>
        /\ opened' \in {opened, opened + 1}
        /\ errors' \in {errors, TRUE} /\ status' \in {status, "failed", "crashed"}
        /\ status' = "crashed" => opened' = opened
    BY <1>6 DEF OpenFile
  <2>2. opened' \in 0..Len(filenames) /\ (opened = 0 \/ Len(filenames) > 1)
    BY <1>1, <2>1
  <2>3. errors' \in BOOLEAN
    BY <1>1, <2>1
  <2>4. TypeOK'
    BY <2>1, <2>2, <2>3 DEF TypeOK
  <2> QED BY <2>1, <2>2, <2>4 DEF OpenedLast, CrashOnlyWhenExpected
<1> QED BY <1>2, <1>3, <1>4, <1>5, <1>6 DEF CommandLine

\* The passes over a file.
LEMMA FrontEndCInv ==
  ASSUME CInv, FrontEnd
  PROVE  TypeOK' /\ OpenedLast' /\ CrashOnlyWhenExpected'
<1> USE DEF CInv, Running, Exit, Goto, cmdline, backend, files
<1>1. /\ UNCHANGED <<argv, given, filenames, opened, current, context, machine, wellformed,
                     disk, output, artefacts>>
      /\ errors' \in {errors, TRUE} /\ status' \in {"running", "failed", "crashed"}
      /\ pc' \in {"parse", "semantics", "compile"} \/ pc' = pc
      /\ status' = "crashed" => pc' = pc
      /\ status = "running" /\ pc \in {"lex", "parse", "semantics"}
  BY DEF FrontEnd, Lex, Parse, CheckSemantics, Pass
<1>2. errors' \in BOOLEAN
  BY <1>1 DEF TypeOK
<1>3. TypeOK'
  BY <1>1, <1>2 DEF TypeOK
<1>4. context = "live" \/ Len(filenames) > 1
  <2>1. /\ current \in 1..Len(filenames)
        /\ IF current = 1 THEN context = "live" ELSE context = "deleted"
    BY <1>1 DEF DInv, SetUp, InFile
  <2>2. Len(filenames) \in Nat
    BY DEF TypeOK
  <2> QED BY ONLY <2>1, <2>2
<1> QED BY <1>1, <1>3, <1>4 DEF OpenedLast, CrashOnlyWhenExpected, WalksFile

\* The backend: with one file, it crashes in walking the tree, which it does on
\* a live context, and in the optimization only.
LEMMA BackEndCInv ==
  ASSUME CInv, BackEnd
  PROVE  TypeOK' /\ OpenedLast' /\ CrashOnlyWhenExpected'
<1> USE DEF CInv, Running, Exit, Goto, cmdline, backend, files
<1>1. /\ filenames \in Seq(Files) /\ Len(filenames) \in Nat /\ current \in Nat \ {0}
      /\ errors \in BOOLEAN /\ disk \in [Dirs \X Names -> Objects]
      /\ artefacts \subseteq {".ll", ".s"} \X Names
  BY DEF TypeOK
<1>2. status = "running" /\ pc \in InFile =>
        /\ current \in 1..Len(filenames) /\ filenames # <<>>
        /\ context # "live" => Len(filenames) > 1
        /\ pc \in {"optimize", "emit", "cleanup"} => current = 1
        /\ pc = "emit" => machine
  <2> SUFFICES ASSUME status = "running", pc \in InFile
               PROVE  /\ current \in 1..Len(filenames) /\ filenames # <<>>
                      /\ context # "live" => current # 1
                      /\ pc \in {"optimize", "emit", "cleanup"} => current = 1
                      /\ pc = "emit" => machine
    BY <1>1
  <2> QED BY DEF DInv, SetUp
<1>3. CASE BackendInit
  <2>1. errors' \in BOOLEAN /\ machine' \in BOOLEAN
    BY <1>3 DEF BackendInit
  <2>2. TypeOK'
    BY <1>3, <2>1 DEF BackendInit, TypeOK
  <2> QED BY <1>3, <2>2 DEF BackendInit, OpenedLast, CrashOnlyWhenExpected
<1>4. CASE BackendCompile
  <2>1. errors' \in BOOLEAN
    BY <1>1, <1>4 DEF BackendCompile
  <2>2. TypeOK'
    BY <1>4, <2>1 DEF BackendCompile, TypeOK
  <2> QED BY <1>2, <1>4, <2>2 DEF BackendCompile, OpenedLast, CrashOnlyWhenExpected, WalksFile, InFile
<1>5. CASE Optimize
  <2>1. wellformed' \in BOOLEAN
    BY <1>5 DEF Optimize, TypeOK
  <2>2. TypeOK'
    BY <1>5, <2>1 DEF Optimize, TypeOK
  <2> QED BY <1>5, <2>2 DEF Optimize, OpenedLast, CrashOnlyWhenExpected
<1>6. CASE EmitInvalid
  BY <1>6 DEF EmitInvalid, TypeOK, OpenedLast, CrashOnlyWhenExpected
<1>7. ASSUME Running("emit") PROVE File \in Files /\ Extract[File] \in Names
  BY <1>1, <1>2, <1>7, FilesAssumption DEF File, InFile
<1>8. CASE EmitText
  <2>1. artefacts' \subseteq {".ll", ".s"} \X Names
    BY <1>1, <1>7, <1>8 DEF EmitText, Written
  <2>2. TypeOK'
    BY <1>8, <2>1 DEF EmitText, TypeOK
  <2> QED BY <1>2, <1>8, <2>2 DEF EmitText, OpenedLast, CrashOnlyWhenExpected, InFile
<1>9. CASE EmitObject
  <2>1. EmittedPath(File) \in Dirs \X Names /\ File \in Objects
    BY <1>7, <1>9 DEF EmitObject, EmittedPath, Dirs, Objects
  <2>2. errors' \in BOOLEAN
    BY <1>1, <1>9 DEF EmitObject
  <2>3. disk' \in [Dirs \X Names -> Objects]
    <3>1. disk' = disk \/ \E r \in Objects : disk' = [disk EXCEPT ![EmittedPath(File)] = r]
      BY <1>9, <2>1 DEF EmitObject, Objects
    <3> QED BY <1>1, <3>1
  <2>4. TypeOK'
    BY <1>9, <2>2, <2>3 DEF EmitObject, TypeOK
  <2> QED BY <1>2, <1>9, <2>4 DEF EmitObject, OpenedLast, CrashOnlyWhenExpected, InFile
<1>10. CASE Cleanup
  <2>1. /\ current' \in {current, current + 1} /\ pc' \in {"lex", "free", "link"}
        /\ status' = status /\ status = "running"
        /\ context' = "deleted" /\ machine' = FALSE
        /\ UNCHANGED <<argv, given, filenames, opened, errors, wellformed, disk, output, artefacts>>
    BY <1>10 DEF Cleanup
  <2>2. current' \in Nat \ {0}
    BY <1>1, <2>1
  <2>3. TypeOK'
    BY <2>1, <2>2 DEF TypeOK
  <2> QED BY <2>1, <2>3 DEF OpenedLast, CrashOnlyWhenExpected
<1> QED BY <1>3, <1>4, <1>5, <1>6, <1>8, <1>9, <1>10 DEF BackEnd

\* The link and the clean-up: cstate_free goes wrong with a second file only.
LEMMA LinkCInv ==
  ASSUME CInv, Link \/ Free
  PROVE  TypeOK' /\ OpenedLast' /\ CrashOnlyWhenExpected'
<1> USE DEF CInv, Running, Exit, Goto, cmdline, backend, files
<1>1. CASE Link
  <2>1. {disk[ListedPath(filenames[i])] : i \in 1..Len(filenames)} \subseteq Objects
    <3>1. ASSUME NEW i \in 1..Len(filenames) PROVE disk[ListedPath(filenames[i])] \in Objects
      BY FilesAssumption DEF TypeOK, ListedPath, Dirs
    <3> QED BY <3>1
  <2>2. output' \subseteq Objects /\ errors' \in BOOLEAN
    BY <1>1, <2>1 DEF Link, TypeOK
  <2>3. TypeOK'
    BY <1>1, <2>2 DEF Link, TypeOK
  <2> QED BY <1>1, <2>3 DEF Link, OpenedLast, CrashOnlyWhenExpected
<1>2. CASE Free
  <2>1. Len(filenames) = 1
    BY <1>2 DEF Free, DInv, SetUp
  <2>2. ~(opened > 1)
    BY <2>1 DEF TypeOK
  <2> QED BY <1>2, <2>2 DEF Free, TypeOK, OpenedLast, CrashOnlyWhenExpected
<1> QED BY <1>1, <1>2

LEMMA NextCInv == ASSUME CInv, [Next]_vars PROVE CInv'
<1>1. DInv'
  BY NextDInv DEF CInv
<1>2. CASE UNCHANGED vars
  BY <1>1, <1>2 DEF vars, CInv, TypeOK, OpenedLast, CrashOnlyWhenExpected, WalksFile, Running
<1> QED BY <1>1, <1>2, CommandLineCInv, FrontEndCInv, BackEndCInv, LinkCInv DEF Next, CInv

\* The state of main has its types, whatever the command line: the names of
\* objects and of files, the index of the file compiled, the fstates made.
THEOREM TypesTheorem == Spec => []TypeOK
<1>1. CInv => TypeOK
  BY DEF CInv
<1> QED BY <1>1, InitCInv, NextCInv, PTL DEF Spec

\* With one input file main crashes in refusing the command line, in a pass over
\* the text of the file, which finds the backend set up, or in the optimization
\* of IR nobody has verified yet.  Emission, link and clean-up use nothing that
\* is missing, whatever was counted before them.
THEOREM CrashTheorem == Spec => []CrashOnlyWhenExpected
<1>1. CInv => CrashOnlyWhenExpected
  BY DEF CInv
<1> QED BY <1>1, InitCInv, NextCInv, PTL DEF Spec
=============================================================================
