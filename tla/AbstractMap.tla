---------------------------- MODULE AbstractMap ----------------------------
(***************************************************************************)
(* What a client of the hash table relies on (src/sclc/include/ds/ht.h): a *)
(* map from keys to values with one call at a time.  A call is made, takes *)
(* effect in one step, and that step is its return.                        *)
(***************************************************************************)
CONSTANTS Keys, Values, NULL

VARIABLES contents,  \* the value of each key, NULL when it has none
          call,      \* the call being served, NoCall between calls
          reply      \* what the last search returned

vars == <<contents, call, reply>>

NoCall == [op |-> "none", key |-> NULL, value |-> NULL]

Init == contents = [k \in Keys |-> NULL] /\ call = NoCall /\ reply = NULL

Request(op, k, v) ==
  /\ call = NoCall
  /\ call' = [op |-> op, key |-> k, value |-> v]
  /\ UNCHANGED <<contents, reply>>

Serve(op) == call.op = op /\ call' = NoCall

Insert ==
  /\ Serve("insert")
  /\ contents' = [contents EXCEPT ![call.key] = call.value]
  /\ UNCHANGED reply

Search ==
  /\ Serve("search")
  /\ reply' = contents[call.key]
  /\ UNCHANGED contents

Delete ==
  /\ Serve("delete")
  /\ contents' = [contents EXCEPT ![call.key] = NULL]
  /\ UNCHANGED reply

Next ==
  \/ \E k \in Keys, v \in Values : Request("insert", k, v)
  \/ \E k \in Keys : Request("search", k, NULL)
  \/ \E k \in Keys : Request("delete", k, NULL)
  \/ Insert \/ Search \/ Delete

Spec == Init /\ [][Next]_vars
=============================================================================
