-------------------------- MODULE ClarificationTurns --------------------------
(***************************************************************************)
(* POST /clarifications/{id}/answer: answer_clarification run by several   *)
(* request threads.  A clarification row is read once, and only a pending  *)
(* one enters ClarificationRecoveryService; the row is closed afterwards,  *)
(* in another transaction, by an UPDATE with no guard.  With a             *)
(* client_request_id the request also goes through ProductRecovery.        *)
(*                                                                         *)
(* recover() runs on the snapshot of the row that the thread read, whose   *)
(* pending operation is therefore never RESOLVED nor out of rounds: its    *)
(* IDEMPOTENT_REPLAY and CLOSED answers cannot be reached from here.       *)
(***************************************************************************)
EXTENDS ProductRecovery, FiniteSets, Functions

CONSTANTS
  Clarifications,
  About,       \* the clarification a fingerprint was computed from
  NoKey,       \* stands for a request without client_request_id
  Faults,      \* the faults that may happen: "crash", "engine" (before its
               \* commit), "discourse" (after it), "store"
  MaxFaults    \* bound on how many happen in a behaviour

ASSUME AboutAssumption == About \in [Fingerprints -> Clarifications]
ASSUME NoKeyAssumption == NoKey \notin Keys

VARIABLES
  clarification, \* the "clarifications" table: its status and whether the
                 \* row holds a pending operation to resume
  wrote,         \* the recoveries of a clarification that committed their
                 \* Knowledge transaction (history)
  attempts,      \* how many responses were worked on per key
  ending,        \* how the recovery each thread runs ended
  late,          \* the clarification was closed when the request arrived
  raced,         \* the clarifications that two threads read as pending
                 \* before either closed it (history)
  faults         \* how often each fault has happened

table == <<clarification, wrote, attempts>>
vars  == <<row, assistant, delivered, pc, request, held,
           clarification, wrote, attempts, ending, late, raced, faults>>

Ids      == Keys \cup {NoKey}
Answers  == [key : Ids, fp : Fingerprints]
Clar(t)  == About[request[t].fp]
Keyed(t) == Key(t) # NoKey
Closed(c) == clarification[c].status \in {"answered", "resolved"}

Endings == {"none", "committed", "partial", "unresolved"}

\* Between the claim and complete_idempotent, or its failure path.
OwnerSteps == {"start", "say", "recover", "engine", "close", "session",
               "complete", "failing"}
\* Between the read of a pending clarification and its closing.
Answering == {"say", "recover", "engine", "close"}
Steps == {"idle", "claim", "assistant"} \cup OwnerSteps \cup ReconcileSteps

TypeOK ==
  /\ row \in [Keys -> Rows]
  /\ assistant \in [Keys -> SUBSET Nat]
  /\ delivered \in [Keys -> SUBSET Nat]
  /\ pc \in [Threads -> Steps]
  /\ request \in [Threads -> Answers]
  /\ held \in [Threads -> Nat]
  /\ clarification \in
       [Clarifications ->
          [status : {"absent", "pending", "answered", "resolved"},
           resumable : BOOLEAN]]
  /\ wrote \in [Clarifications -> SUBSET (Ids \X Nat)]
  /\ attempts \in [Ids -> Nat]
  /\ ending \in [Threads -> Endings]
  /\ late \in [Threads -> BOOLEAN]
  /\ raced \subseteq Clarifications
  /\ faults \in [Faults -> Nat]

Init ==
  /\ row = [k \in Keys |-> AbsentRow]
  /\ assistant = [k \in Keys |-> {}]
  /\ delivered = [k \in Keys |-> {}]
  /\ pc = [t \in Threads |-> "idle"]
  /\ \E a \in Answers : request = [t \in Threads |-> a]
  /\ held = [t \in Threads |-> NoResult]
  /\ clarification \in
       [Clarifications -> [status : {"absent"}, resumable : BOOLEAN]]
  /\ wrote = [c \in Clarifications |-> {}]
  /\ attempts = [i \in Ids |-> 0]
  /\ ending = [t \in Threads |-> "none"]
  /\ late = [t \in Threads |-> FALSE]
  /\ raced = {}
  /\ faults = [f \in Faults |-> 0]

Fault(f) == /\ f \in Faults
            /\ SumFunction(faults) < MaxFaults
            /\ faults' = [faults EXCEPT ![f] = @ + 1]

Happened(f) == f \in Faults /\ faults[f] > 0

SetStatus(c, s) == clarification' = [clarification EXCEPT ![c].status = s]

-----------------------------------------------------------------------------
(* Faulty variants of actions below, for mutation runs.                    *)

\* Only "resolved" closes a clarification.
AnsweredMayBeAnsweredAgain(t) ==
  /\ pc[t] = "start"
  /\ Goto(t, IF clarification[Clar(t)].status \in {"pending", "answered"}
               THEN "say"
             ELSE IF Keyed(t) THEN "failing" ELSE "idle")
  /\ UNCHANGED <<row, assistant, delivered, request, held, table, ending,
                 late, raced, faults>>

-----------------------------------------------------------------------------
(* Clients, and the turns that ask.                                        *)

\* _persist_assistant of the turn that asks inserts the row.  The client may
\* know the id before: a retry replays the response as soon as the turn's
\* idempotency row is completed.
Ask(c) ==
  /\ clarification[c].status = "absent"
  /\ SetStatus(c, "pending")
  /\ UNCHANGED <<row, assistant, delivered, pc, request, held, wrote,
                 attempts, ending, late, raced, faults>>

Arrive(t, a) ==
  /\ pc[t] = "idle"
  /\ request' = [request EXCEPT ![t] = a]
  /\ held' = [held EXCEPT ![t] = NoResult]
  /\ ending' = [ending EXCEPT ![t] = "none"]
  /\ late' = [late EXCEPT ![t] = Closed(About[a.fp])]
  /\ Goto(t, IF a.key = NoKey THEN "start" ELSE "claim")
  /\ UNCHANGED <<row, assistant, delivered, table, raced, faults>>

Recovery(t) ==
  /\ \/ BeginOrReplay(t)
     \/ SeekEvidence(t)
     \/ CompleteFromEvidence(t)
     \/ MarkRecoveryRequired(t)
  /\ UNCHANGED <<table, ending, late, raced, faults>>

-----------------------------------------------------------------------------
(* answer_clarification.                                                   *)

\* get_clarification: unknown is 404 and closed is 409, both raised inside
\* the try block, so a claimed row fails.
ReadClarification(t) ==
  LET c == Clar(t)
      pending == clarification[c].status = "pending"
      others == {u \in Threads \ {t} : Clar(u) = c /\ pc[u] \in Answering}
  IN  /\ pc[t] = "start"
      /\ Goto(t, IF pending THEN "say"
                 ELSE IF Keyed(t) THEN "failing" ELSE "idle")
      /\ raced' = IF pending /\ others # {} THEN raced \cup {c} ELSE raced
      /\ UNCHANGED <<row, assistant, delivered, request, held, table, ending,
                     late, faults>>

\* The USER row; without a pending operation recover() is not called.
AddAnswer(t) ==
  /\ pc[t] = "say"
  /\ attempts' = [attempts EXCEPT ![Key(t)] = @ + 1]
  /\ held' = [held EXCEPT ![t] = attempts[Key(t)] + 1]
  /\ IF clarification[Clar(t)].resumable
       THEN Goto(t, "recover") /\ UNCHANGED ending
       ELSE Goto(t, "close") /\ ending' = [ending EXCEPT ![t] = "unresolved"]
  /\ UNCHANGED <<row, assistant, delivered, request, clarification, wrote,
                 late, raced, faults>>

\* load_engine_session, and recover() is entered.
Recover(t) ==
  /\ pc[t] = "recover"
  /\ Goto(t, "engine")
  /\ UNCHANGED <<row, assistant, delivered, request, held, table, ending,
                 late, raced, faults>>

\* The answer does not fill the slot, or the filled proposal is ingested:
\* committed as a whole, or in part, which _finalize reports as unresolved.
RecoverReturns(t, how) ==
  LET c == Clar(t)
  IN  /\ pc[t] = "engine"
      /\ ending' = [ending EXCEPT ![t] = how]
      /\ wrote' = IF how \in {"committed", "partial"}
                    THEN [wrote EXCEPT ![c] = @ \cup {<<Key(t), held[t]>>}]
                    ELSE wrote
      /\ Goto(t, "close")
      /\ UNCHANGED <<row, assistant, delivered, request, held, clarification,
                     attempts, late, raced, faults>>

\* mark_clarification_resolved, or mark_clarification_answered.
Close(t) ==
  /\ pc[t] = "close"
  /\ IF ending[t] = "committed"
       THEN SetStatus(Clar(t), "resolved") /\ Goto(t, "session")
       ELSE /\ SetStatus(Clar(t), "answered")
            /\ Goto(t, IF Keyed(t) THEN "complete" ELSE "assistant")
  /\ UNCHANGED <<row, assistant, delivered, request, held, wrote,
                 attempts, ending, late, raced, faults>>

SaveSession(t) ==
  /\ pc[t] = "session"
  /\ Goto(t, IF Keyed(t) THEN "complete" ELSE "assistant")
  /\ UNCHANGED <<row, assistant, delivered, request, held, table, ending,
                 late, raced, faults>>

Complete(t) ==
  LET k == Key(t)
  IN  /\ pc[t] = "complete"
      /\ SetRow(k, CompletedRow(row[k], request[t].fp, held[t]))
      /\ Goto(t, "assistant")
      /\ UNCHANGED <<assistant, delivered, request, held, table, ending, late,
                     raced, faults>>

PersistAssistant(t) ==
  LET k == Key(t)
  IN  /\ pc[t] = "assistant"
      /\ IF Keyed(t)
           THEN /\ assistant' = [assistant EXCEPT ![k] = @ \cup {held[t]}]
                /\ Deliver(k, held[t])
           ELSE UNCHANGED <<assistant, delivered>>
      /\ Goto(t, "idle")
      /\ UNCHANGED <<row, request, held, table, ending, late, raced, faults>>

Fail(t) ==
  LET k == Key(t)
  IN  /\ pc[t] = "failing"
      /\ SetRow(k, FailedRow(row[k]))
      /\ Goto(t, "idle")
      /\ UNCHANGED <<assistant, delivered, request, held, table, ending, late,
                     raced, faults>>

-----------------------------------------------------------------------------
(* Faults and time.                                                        *)

\* An exception inside the try block and before completed fails the key.
Raise(t, steps) ==
  /\ pc[t] \in steps
  /\ Goto(t, IF Keyed(t) THEN "failing" ELSE "idle")
  /\ UNCHANGED <<row, assistant, delivered, request, held, clarification,
                 attempts, ending, late, raced>>

\* The recovery raises before its commit.
EngineRaises(t) == Fault("engine") /\ Raise(t, {"engine"}) /\ UNCHANGED wrote

\* It raises after its commit: execute() goes on to read Knowledge for the
\* discourse focus, unguarded.  The row stays pending.
DiscourseRaises(t) ==
  /\ Fault("discourse")
  /\ Raise(t, {"engine"})
  /\ wrote' = [wrote EXCEPT ![Clar(t)] = @ \cup {<<Key(t), held[t]>>}]

StoreRaises(t) ==
  /\ Fault("store")
  /\ UNCHANGED wrote
  /\ \/ Raise(t, {"start", "say", "recover", "close", "session", "complete"})
     \/ /\ pc[t] \in {"claim", "failing", "assistant"} \cup ReconcileSteps
        /\ Goto(t, "idle")
        /\ UNCHANGED <<row, assistant, delivered, request, held, clarification,
                       attempts, ending, late, raced>>

Crash ==
  /\ Fault("crash")
  /\ pc' = [t \in Threads |-> "idle"]
  /\ UNCHANGED <<row, assistant, delivered, request, held, table, ending, late,
                 raced>>

GrowStale(k) == AgeRow(k) /\ UNCHANGED <<table, ending, late, raced, faults>>

-----------------------------------------------------------------------------
Proceed(t) ==
  \/ Recovery(t)
  \/ ReadClarification(t)
  \/ AddAnswer(t)
  \/ Recover(t)
  \/ \E how \in Endings \ {"none"} : RecoverReturns(t, how)
  \/ Close(t)
  \/ SaveSession(t)
  \/ Complete(t)
  \/ PersistAssistant(t)
  \/ Fail(t)

Next ==
  \/ \E t \in Threads : \/ \E a \in Answers : Arrive(t, a)
                        \/ Proceed(t)
                        \/ EngineRaises(t)
                        \/ DiscourseRaises(t)
                        \/ StoreRaises(t)
  \/ \E c \in Clarifications : Ask(c)
  \/ \E k \in Keys : GrowStale(k)
  \/ Crash

Spec == Init /\ [][Next]_vars

-----------------------------------------------------------------------------
(* Properties.                                                             *)

\* However answers race, fail and are retried, a request that arrived after
\* its clarification was closed never reaches recover() (ADR 0072:
\* "Duplicate / stale answers -> 409 CLARIFICATION_ANSWERED").
LateAnswersConflict ==
  \A t \in Threads :
    late[t] => pc[t] \notin {"say", "recover", "engine", "close", "session"}

\* A clarification is written to the Knowledge database at most once, unless
\* two answers read it as pending at the same time, or the Knowledge commit
\* and the UPDATE that closes it were parted by a crash or by an exception of
\* the product store or of the engine's own discourse update (orchestrator.py:
\* "One active answer: only pending may enter ClarificationRecoveryService").
\* An exception of the engine before its commit is harmless: it leaves the row
\* pending and nothing written.
\* One client_request_id writes at most once, whatever dies in between, as
\* long as nothing raises between the commit and the answer's completion.
OneWrite ==
  ~ Happened("store") /\ ~ Happened("discourse") =>
    /\ \A c \in Clarifications \ raced : ~ Happened("crash") => Cardinality(wrote[c]) <= 1
    /\ \A k \in Keys :
         Cardinality({w \in UNION {wrote[c] : c \in Clarifications} : w[1] = k}) <= 1

Register == INSTANCE ResultRegister WITH
              result <- [k \in Keys |-> row[k].result]

\* Like send_message, answer_clarification implements the register that is
\* written once per key and read by every retry.
ImplementsRegister == Register!Spec
===============================================================================
