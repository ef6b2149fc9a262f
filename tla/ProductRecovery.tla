---------------------------- MODULE ProductRecovery ----------------------------
(***************************************************************************)
(* ProductRecoveryService as the two entry points that use it see it:      *)
(* begin_or_replay and the lazy reconciliation of a stale row, run by a    *)
(* request thread before its own work.  ProductTurns (send_message) and    *)
(* ClarificationTurns (answer_clarification) extend this module with that  *)
(* work; their threads stand at "start" once the service has told them to  *)
(* go on, and come back with the row completed or failed.                  *)
(***************************************************************************)
EXTENDS IdempotencyStore

CONSTANTS
  Threads,     \* the worker threads FastAPI runs the sync endpoints on
  Keys         \* (user_id, client_request_id) pairs

VARIABLES
  row,        \* the idempotency table: key -> row
  assistant,  \* the runs whose ASSISTANT row of "messages" carries the key
  delivered,  \* the results clients have received for the key (history)
  pc,         \* where each thread stands in its endpoint
  request,    \* the request each thread serves: key and fingerprint
  held        \* the result each thread holds in a local variable

Requests == [key : Keys, fp : Fingerprints]

\* ProductRecoveryService._reconcile_stale.
ReconcileSteps == {"evidence", "recomplete", "mark"}

Key(t) == request[t].key
Goto(t, step) == pc' = [pc EXCEPT ![t] = step]
SetRow(k, r) == row' = [row EXCEPT ![k] = r]
Deliver(k, n) == delivered' = [delivered EXCEPT ![k] = @ \cup {n}]

-----------------------------------------------------------------------------
\* begin_or_replay up to the return or the stale branch.
BeginOrReplay(t) ==
  LET k      == Key(t)
      answer == ClaimResult(row[k], request[t].fp)
  IN  /\ pc[t] = "claim"
      /\ SetRow(k, ClaimedRow(row[k], request[t].fp))
      /\ \/ answer = "proceed" /\ Goto(t, "start") /\ UNCHANGED <<held, delivered>>
         \/ /\ answer = "replay"
            /\ Deliver(k, row[k].result)
            /\ Goto(t, "idle")
            /\ UNCHANGED held
         \/ /\ \/ answer \in {"conflict", "recovery_required"}
               \/ answer = "in_progress" /\ ~row[k].stale
            /\ Goto(t, "idle")
            /\ UNCHANGED <<held, delivered>>
         \/ /\ answer = "in_progress" /\ row[k].stale
            /\ held' = [held EXCEPT ![t] = row[k].result]
            /\ Goto(t, "evidence")
            /\ UNCHANGED delivered
      /\ UNCHANGED <<assistant, request>>

\* Durable evidence of the outcome: the claimed record's own response, else
\* the ASSISTANT rows that carry the client_request_id.
Evidence(t) == IF held[t] # NoResult THEN {held[t]} ELSE assistant[Key(t)]

SeekEvidence(t) ==
  /\ pc[t] = "evidence"
  /\ \/ \E n \in Evidence(t) : /\ held' = [held EXCEPT ![t] = n]
                               /\ Goto(t, "recomplete")
     \/ Evidence(t) = {} /\ Goto(t, "mark") /\ UNCHANGED held
  /\ UNCHANGED <<row, assistant, delivered, request>>

CompleteFromEvidence(t) ==
  LET k == Key(t)
  IN  /\ pc[t] = "recomplete"
      /\ SetRow(k, CompletedRow(row[k], request[t].fp, held[t]))
      /\ Deliver(k, held[t])
      /\ Goto(t, "idle")
      /\ UNCHANGED <<assistant, request, held>>

MarkRecoveryRequired(t) ==
  LET k == Key(t)
  IN  /\ pc[t] = "mark"
      /\ SetRow(k, RecoveryRow(row[k]))
      /\ Goto(t, "idle")
      /\ UNCHANGED <<assistant, delivered, request, held>>

\* PKE_IDEMPOTENCY_STALE_SECONDS pass since the row's updated_at.
AgeRow(k) ==
  /\ row[k].status = "in_progress"
  /\ ~row[k].stale
  /\ SetRow(k, StaleRow(row[k]))
  /\ UNCHANGED <<assistant, delivered, pc, request, held>>
===============================================================================
