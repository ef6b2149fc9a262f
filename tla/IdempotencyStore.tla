--------------------------- MODULE IdempotencyStore ---------------------------
(***************************************************************************)
(* The rows of the product database's "idempotency" table (ProductStore),  *)
(* one per (user_id, client_request_id), here a key.  Every operator is    *)
(* one committed SQL transaction on one row: what the row becomes, and     *)
(* what the caller is told.  The modules that run request threads against  *)
(* the table (ProductTurns, ClarificationTurns) share these operators.     *)
(*                                                                         *)
(* A stored response is abstracted to the number of the engine run that    *)
(* produced it; NoResult is a NULL response_json.  updated_at is           *)
(* abstracted to the one thing the code derives from it: whether the row   *)
(* is old enough for ProductRecoveryService to call it stale.              *)
(***************************************************************************)
EXTENDS Naturals

CONSTANTS
  Fingerprints,   \* request fingerprints (hash of the request's identity)
  NoFingerprint   \* the fingerprint of a row that does not exist

ASSUME NoFingerprintAssumption == NoFingerprint \notin Fingerprints

NoResult == 0

Statuses ==
  {"absent", "in_progress", "completed", "failed", "recovery_required"}

ClaimResults ==
  {"proceed", "replay", "conflict", "in_progress", "recovery_required"}

Rows == [status : Statuses,
         fp     : Fingerprints \cup {NoFingerprint},
         result : Nat,
         stale  : BOOLEAN]

AbsentRow == [status |-> "absent", fp |-> NoFingerprint,
              result |-> NoResult, stale |-> FALSE]

-----------------------------------------------------------------------------
(* Faulty variants of the operators below, for mutation runs.              *)

\* A stale in_progress row is taken over, as lock timeouts usually are.
ClaimTakesOverStale(row, fp) ==
  CASE row.status = "absent" -> "proceed"
    [] row.status # "absent" /\ row.fp # fp -> "conflict"
    [] row.fp = fp /\ row.status = "completed" -> "replay"
    [] row.fp = fp /\ row.status = "in_progress"
         -> IF row.stale THEN "proceed" ELSE "in_progress"
    [] row.fp = fp /\ row.status = "failed" -> "proceed"
    [] OTHER -> "recovery_required"

\* recovery_required is retried like failed.
ClaimRetriesRecovery(row, fp) ==
  CASE row.status = "absent" -> "proceed"
    [] row.status # "absent" /\ row.fp # fp -> "conflict"
    [] row.fp = fp /\ row.status = "completed" -> "replay"
    [] row.fp = fp /\ row.status = "in_progress" -> "in_progress"
    [] OTHER -> "proceed"

\* The upsert sets the status and forgets the response.
CompletedWithoutResponse(row, fp, result) ==
  [status |-> "completed", fp |-> fp, result |-> NoResult, stale |-> FALSE]

\* The age of the row is never noticed.
StaleNeverNoticed(row) == row

-----------------------------------------------------------------------------
(***************************************************************************)
(* claim_idempotent: BEGIN IMMEDIATE, read the row, decide, COMMIT.        *)
(***************************************************************************)
ClaimResult(row, fp) ==
  CASE row.status = "absent" -> "proceed"
    [] row.status # "absent" /\ row.fp # fp -> "conflict"
    [] row.fp = fp /\ row.status = "completed" /\ row.result # NoResult
         -> "replay"
    [] row.fp = fp /\ row.status = "in_progress" -> "in_progress"
    [] row.fp = fp /\ row.status = "failed" -> "proceed"
    [] OTHER -> "recovery_required"

ClaimedRow(row, fp) ==
  IF ClaimResult(row, fp) = "proceed"
    THEN [status |-> "in_progress", fp |-> fp,
          result |-> NoResult, stale |-> FALSE]
    ELSE row

\* complete_idempotent: an unconditional upsert to "completed".
CompletedRow(row, fp, result) ==
  [status |-> "completed", fp |-> fp, result |-> result, stale |-> FALSE]

\* fail_idempotent: an UPDATE of the status with no guard on its old value.
FailedRow(row) ==
  IF row.status = "absent" THEN row
  ELSE [row EXCEPT !.status = "failed", !.stale = FALSE]

\* mark_recovery_required: again an UPDATE with no guard on the old status.
RecoveryRow(row) ==
  IF row.status = "absent" THEN row
  ELSE [row EXCEPT !.status = "recovery_required", !.stale = FALSE]

\* The row's updated_at falls behind the clock by the stale limit.
StaleRow(row) == [row EXCEPT !.stale = TRUE]
===============================================================================
