------------------------------ MODULE KVStore ------------------------------
(***************************************************************************)
(* What the storage engine promises its callers (consensus/fsm.go and      *)
(* server/kv_server.go): a map from keys to values.  A key that was never  *)
(* written, or whose last write was a Delete, maps to Nil, the answer      *)
(* (nil, false) of StrataGo.Get.                                           *)
(*                                                                         *)
(* Only a call of Put or Delete changes the map, once and in its own key,  *)
(* or not at all when it returns an error: calls counts them, so that a    *)
(* step that is no call must leave every key as it is.                     *)
(***************************************************************************)
EXTENDS Naturals

CONSTANTS Keys, Values, Nil

VARIABLES
    store,  \* what Get answers
    calls   \* the number of calls of Put and Delete so far

Init == store = [k \in Keys |-> Nil] /\ calls = 0

Put(k, v) == store' = [store EXCEPT ![k] = v] /\ calls' = calls + 1

Delete(k) == store' = [store EXCEPT ![k] = Nil] /\ calls' = calls + 1

\* Put or Delete returned an error.
Fail == calls' = calls + 1 /\ UNCHANGED store

Next == Fail \/ \E k \in Keys : Delete(k) \/ \E v \in Values : Put(k, v)

Spec == Init /\ [][Next]_<<store, calls>>
=============================================================================
