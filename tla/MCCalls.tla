------------------------------ MODULE MCCalls ------------------------------
(***************************************************************************)
(* Calls on every program, up to a number of lines, that is written with   *)
(* one of two repertoires: functions without parameters, in any order, and *)
(* the types of one function with parameters.                              *)
(***************************************************************************)
EXTENDS Calls

CodeLine(kinds, depth, names, types, results, variadic) ==
  [kind : kinds, depth : {depth}, fn : names, types : types, result : results, variadic : variadic]

Order == CodeLine({"prototype", "define"}, 0, {"f", "g"}, {<<>>}, {<<>>, <<"int">>}, {FALSE})
         \cup CodeLine({"call"}, 0, {"f"}, {<<>>}, {<<>>}, {FALSE})
         \cup CodeLine({"call", "while"}, 1, {"f"}, {<<>>}, {<<>>}, {FALSE})
         \cup CodeLine({"value"}, 1, {"f", "g"}, {<<>>}, {<<"int">>}, {FALSE})
         \cup CodeLine({"return"}, 1, {"-"}, {<<>>, <<"int">>}, {<<>>}, {FALSE})

Arguments == {<<>>, <<"int">>, <<"ptr">>, <<"ptr", "int">>}
Types == CodeLine({"prototype", "define"}, 0, {"f"}, {<<>>, <<"int">>, <<"ptr">>}, {<<"int">>}, BOOLEAN)
         \cup CodeLine({"prototype", "define"}, 0, {"f"}, {<<"ptr">>}, {<<"char">>, <<"int", "void">>}, {FALSE})
         \cup CodeLine({"define"}, 0, {"g"}, {<<>>}, {<<>>}, {FALSE})
         \cup CodeLine({"call", "while"}, 1, {"f"}, Arguments, {<<>>}, {FALSE})
         \cup CodeLine({"value"}, 1, {"f"}, Arguments, {<<"int">>, <<"ptr">>}, {FALSE})
         \cup CodeLine({"return"}, 1, {"-"}, {<<"int">>, <<"char">>, <<"int", "int">>}, {<<>>}, {FALSE})
         \cup CodeLine({"call"}, 0, {"f"}, {<<"int">>}, {<<>>}, {FALSE})

AllVocabularies == {Order, Types}
=============================================================================
