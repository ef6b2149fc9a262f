---------------------------- MODULE ResultRegister ----------------------------
(***************************************************************************)
(* What the product promises to a client that repeats a request under one  *)
(* client_request_id: the key's result is decided once, and every client   *)
(* that gets a result for the key gets that one.  ProductTurns implements  *)
(* this with the idempotency table, the ASSISTANT rows and the stale       *)
(* reconciliation.                                                         *)
(***************************************************************************)
CONSTANTS Keys, NoResult

VARIABLES result, delivered

vars == <<result, delivered>>

Init == /\ result = [k \in Keys |-> NoResult]
        /\ delivered = [k \in Keys |-> {}]

Decide(k) == /\ result[k] = NoResult
             /\ result'[k] # NoResult
             /\ result' = [result EXCEPT ![k] = result'[k]]
             /\ UNCHANGED delivered

Deliver(k) == /\ result[k] # NoResult
              /\ delivered' = [delivered EXCEPT ![k] = @ \cup {result[k]}]
              /\ UNCHANGED result

Next == \E k \in Keys : Decide(k) \/ Deliver(k)

Spec == Init /\ [][Next]_vars
===============================================================================
