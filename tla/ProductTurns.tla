----------------------------- MODULE ProductTurns -----------------------------
(***************************************************************************)
(* POST /messages: ConversationOrchestrator.send_message run by several    *)
(* request threads that share the product database, each against the       *)
(* Knowledge database (another file, another transaction), under crashes   *)
(* of the process, exceptions of the engine, before or after its commit,   *)
(* and of the product store, and client retries with the same key.         *)
(*                                                                         *)
(* Every product-store method opens its own connection and commits, so a   *)
(* step of a thread is one such method.  The engine's Knowledge commit is  *)
(* one step: the unit of work is one SQLite transaction.  Requests without *)
(* a client_request_id skip the protocol and are not modelled here.        *)
(***************************************************************************)
EXTENDS ProductRecovery, FiniteSets, Functions

CONSTANTS
  Faults,      \* the faults that may happen: "crash", "engine" (before its
               \* commit), "discourse" (after it), "store"
  MaxFaults    \* bound on how many happen in a behaviour

ASSUME FaultsAssumption == /\ Faults \subseteq {"crash", "engine", "discourse", "store"}
                           /\ MaxFaults \in Nat

VARIABLES
  userRows,   \* how many USER rows of "messages" carry the key
  asked,      \* the runs whose "clarifications" row was inserted
  runs,       \* how often the engine was invoked for the key
  committed,  \* the runs whose Knowledge transaction committed
  kind,       \* what the engine turn each thread holds is
  faults      \* how often each fault has happened

store == <<row, userRows, assistant, asked>>
local == <<pc, request, held, kind>>
vars  == <<row, userRows, assistant, asked, runs, committed, delivered,
           pc, request, held, kind, faults>>

Kinds    == {"write", "clarification", "reply"}

\* Between the claim and complete_idempotent, or its failure path.
OwnerSteps == {"start", "invoke", "engine", "session", "complete", "failing"}
\* After complete_idempotent: the best-effort ASSISTANT rows.
AfterSteps == {"clarify", "assistant"}
Steps == {"idle", "claim"} \cup OwnerSteps \cup AfterSteps \cup ReconcileSteps

TypeOK ==
  /\ row \in [Keys -> Rows]
  /\ userRows \in [Keys -> Nat]
  /\ assistant \in [Keys -> SUBSET Nat]
  /\ asked \in [Keys -> SUBSET Nat]
  /\ runs \in [Keys -> Nat]
  /\ committed \in [Keys -> SUBSET Nat]
  /\ delivered \in [Keys -> SUBSET Nat]
  /\ pc \in [Threads -> Steps]
  /\ request \in [Threads -> Requests]
  /\ held \in [Threads -> Nat]
  /\ kind \in [Threads -> Kinds]
  /\ faults \in [Faults -> Nat]

Init ==
  /\ row = [k \in Keys |-> AbsentRow]
  /\ userRows = [k \in Keys |-> 0]
  /\ assistant = [k \in Keys |-> {}]
  /\ asked = [k \in Keys |-> {}]
  /\ runs = [k \in Keys |-> 0]
  /\ committed = [k \in Keys |-> {}]
  /\ delivered = [k \in Keys |-> {}]
  /\ pc = [t \in Threads |-> "idle"]
  /\ \E r \in Requests : request = [t \in Threads |-> r]
  /\ held = [t \in Threads |-> NoResult]
  /\ kind = [t \in Threads |-> "reply"]
  /\ faults = [f \in Faults |-> 0]

Fault(f) == /\ f \in Faults
            /\ SumFunction(faults) < MaxFaults
            /\ faults' = [faults EXCEPT ![f] = @ + 1]

Happened(f) == f \in Faults /\ faults[f] > 0

-----------------------------------------------------------------------------
(* The client and the claim.                                               *)

\* A client sends, or sends again, the request r.
Arrive(t, r) ==
  /\ pc[t] = "idle"
  /\ request' = [request EXCEPT ![t] = r]
  /\ held' = [held EXCEPT ![t] = NoResult]
  /\ kind' = [kind EXCEPT ![t] = "reply"]
  /\ Goto(t, "claim")
  /\ UNCHANGED <<store, runs, committed, delivered, faults>>

Claim(t) ==
  /\ BeginOrReplay(t)
  /\ UNCHANGED <<userRows, asked, runs, committed, kind, faults>>

-----------------------------------------------------------------------------
(* ProductRecoveryService._reconcile_stale.                                *)

FindEvidence(t) ==
  /\ SeekEvidence(t)
  /\ UNCHANGED <<userRows, asked, runs, committed, kind, faults>>

Recomplete(t) ==
  /\ CompleteFromEvidence(t)
  /\ UNCHANGED <<userRows, asked, runs, committed, kind, faults>>

MarkRecovery(t) ==
  /\ MarkRecoveryRequired(t)
  /\ UNCHANGED <<userRows, asked, runs, committed, kind, faults>>

-----------------------------------------------------------------------------
(* The turn itself.                                                        *)

\* Conversation lookup or creation, title, and the USER row.
AddUserMessage(t) ==
  LET k == Key(t)
  IN  /\ pc[t] = "start"
      /\ userRows' = [userRows EXCEPT ![k] = @ + 1]
      /\ Goto(t, "invoke")
      /\ UNCHANGED <<row, assistant, asked, runs, committed, delivered,
                     request, held, kind, faults>>

\* _run_engine: the session is loaded and EngineGateway.process is entered.
InvokeEngine(t) ==
  LET k == Key(t)
  IN  /\ pc[t] = "invoke"
      /\ runs' = [runs EXCEPT ![k] = @ + 1]
      /\ held' = [held EXCEPT ![t] = runs[k] + 1]
      /\ Goto(t, "engine")
      /\ UNCHANGED <<store, committed, delivered, request, kind, faults>>

\* The engine ends: with a Knowledge commit, with a clarification to ask,
\* or with an answer or an error that it presents as a turn.
EngineReturns(t, what) ==
  LET k == Key(t)
  IN  /\ pc[t] = "engine"
      /\ kind' = [kind EXCEPT ![t] = what]
      /\ committed' = IF what = "write"
                        THEN [committed EXCEPT ![k] = @ \cup {held[t]}]
                        ELSE committed
      /\ Goto(t, "session")
      /\ UNCHANGED <<store, runs, delivered, request, held, faults>>

\* The engine raises before its commit: the unit of work rolls back.
EngineRaises(t) ==
  /\ pc[t] = "engine"
  /\ Fault("engine")
  /\ Goto(t, "failing")
  /\ UNCHANGED <<store, runs, committed, delivered, request, held, kind>>

\* The engine raises after its commit: execute() goes on to read Knowledge for
\* the discourse focus, unguarded, and the caller never sees the result.
DiscourseRaises(t) ==
  LET k == Key(t)
  IN  /\ pc[t] = "engine"
      /\ Fault("discourse")
      /\ committed' = [committed EXCEPT ![k] = @ \cup {held[t]}]
      /\ Goto(t, "failing")
      /\ UNCHANGED <<store, runs, delivered, request, held, kind>>

\* save_engine_session, then present_turn builds the response.
SaveSession(t) ==
  /\ pc[t] = "session"
  /\ Goto(t, "complete")
  /\ UNCHANGED <<store, runs, committed, delivered, request, held, kind,
                 faults>>

Complete(t) ==
  LET k == Key(t)
  IN  /\ pc[t] = "complete"
      /\ SetRow(k, CompletedRow(row[k], request[t].fp, held[t]))
      /\ Goto(t, IF kind[t] = "clarification" THEN "clarify" ELSE "assistant")
      /\ UNCHANGED <<userRows, assistant, asked, runs, committed, delivered,
                     request, held, kind, faults>>

\* _persist_assistant, first half: the clarification the client is asked.
PersistClarification(t) ==
  LET k == Key(t)
  IN  /\ pc[t] = "clarify"
      /\ asked' = [asked EXCEPT ![k] = @ \cup {held[t]}]
      /\ Goto(t, "assistant")
      /\ UNCHANGED <<row, userRows, assistant, runs, committed, delivered,
                     request, held, kind, faults>>

\* _persist_assistant, second half; then the response goes to the client.
PersistAssistant(t) ==
  LET k == Key(t)
  IN  /\ pc[t] = "assistant"
      /\ assistant' = [assistant EXCEPT ![k] = @ \cup {held[t]}]
      /\ Deliver(k, held[t])
      /\ Goto(t, "idle")
      /\ UNCHANGED <<row, userRows, asked, runs, committed, request, held,
                     kind, faults>>

\* "except Exception": fail_idempotent while the record is not completed.
Fail(t) ==
  LET k == Key(t)
  IN  /\ pc[t] = "failing"
      /\ SetRow(k, FailedRow(row[k]))
      /\ Goto(t, "idle")
      /\ UNCHANGED <<userRows, assistant, asked, runs, committed, delivered,
                     request, held, kind, faults>>

-----------------------------------------------------------------------------
(* Faults and time.                                                        *)

\* A product-store call raises.  Inside the try block and before completed
\* the failure path runs; elsewhere the error goes to the client as it is.
StoreRaises(t) ==
  /\ Fault("store")
  /\ \/ pc[t] \in {"start", "invoke", "session", "complete"} /\ Goto(t, "failing")
     \/ /\ pc[t] \in {"claim", "failing"} \cup AfterSteps \cup ReconcileSteps
        /\ Goto(t, "idle")
  /\ UNCHANGED <<store, runs, committed, delivered, request, held, kind>>

\* The process dies and restarts: every thread is lost, the databases stay.
Crash ==
  /\ Fault("crash")
  /\ pc' = [t \in Threads |-> "idle"]
  /\ UNCHANGED <<store, runs, committed, delivered, request, held, kind>>

GrowStale(k) ==
  /\ AgeRow(k)
  /\ UNCHANGED <<userRows, asked, runs, committed, kind, faults>>

-----------------------------------------------------------------------------
Proceed(t) ==
  \/ Claim(t)
  \/ FindEvidence(t)
  \/ Recomplete(t)
  \/ MarkRecovery(t)
  \/ AddUserMessage(t)
  \/ InvokeEngine(t)
  \/ \E what \in Kinds : EngineReturns(t, what)
  \/ SaveSession(t)
  \/ Complete(t)
  \/ PersistClarification(t)
  \/ PersistAssistant(t)
  \/ Fail(t)

Next ==
  \/ \E t \in Threads : \/ \E r \in Requests : Arrive(t, r)
                        \/ Proceed(t)
                        \/ EngineRaises(t)
                        \/ DiscourseRaises(t)
                        \/ StoreRaises(t)
  \/ \E k \in Keys : GrowStale(k)
  \/ Crash

Spec == Init /\ [][Next]_vars

-----------------------------------------------------------------------------
(* Properties.                                                             *)

Owner(t) == pc[t] \in OwnerSteps

\* However requests, retries, stale reconciliations, failures and crashes
\* interleave, at most one thread is between the claim of a key and its
\* completion (store.py: "do not start a second Engine call").
SingleExecutor ==
  \A s, t \in Threads :
    Owner(s) /\ Owner(t) /\ Key(s) = Key(t) => s = t

\* An assistant row or a pending clarification is only ever written for the
\* run whose response the key replays, so the conversation a client reloads
\* never contradicts the answer its retry gets.
RowsMatchResult ==
  \A k \in Keys : assistant[k] \cup asked[k] \subseteq {row[k].result} \ {NoResult}

\* Whoever receives a response for a key receives the same one, forever,
\* and it is the one the table holds.
DeliveredIsDurable ==
  \A k \in Keys : delivered[k] \subseteq {row[k].result} \ {NoResult}

\* One client_request_id writes to the Knowledge database at most once
\* (P3 report: DUPLICATE_KNOWLEDGE_COMMIT_AFTER_RESTART = 0).  It fails of
\* the code as it is.
AtMostOneCommit ==
  \A k \in Keys : \A m, n \in committed[k] : m = n

\* What is true instead: crashes, exceptions before the commit, retries and
\* stale reconciliation never make a key commit twice; only an exception that
\* may come after the commit can, of the product store or of the engine's own
\* discourse update, by way of the handler that calls the key failed.
OneCommitUnlessRaisedAfter ==
  ~Happened("store") /\ ~Happened("discourse") => AtMostOneCommit

\* The engine is never invoked again for a key whose result is durable, was
\* shown in the conversation, or was received by a client
\* (P3 report: COMPLETED_OPERATION_ENGINE_REEXECUTION = 0).
NoRunAfterResult ==
  [][\A k \in Keys :
       row[k].result # NoResult \/ assistant[k] # {} \/ delivered[k] # {}
         => runs'[k] = runs[k]]_vars

-----------------------------------------------------------------------------
(* The abstract specification, and liveness.                               *)

Register == INSTANCE ResultRegister WITH
              result <- [k \in Keys |-> row[k].result]

\* send_message, with everything that can go wrong, implements a register
\* that is written once per key and read by everyone.
ImplementsRegister == Register!Spec

\* A retry of the request that holds the key's row.
Retry(k) == \E t \in Threads : Arrive(t, [key |-> k, fp |-> row[k].fp])

\* The server's threads run and time passes.  Nothing is assumed of clients.
Fairness == /\ \A t \in Threads : WF_vars(Proceed(t))
            /\ \A k \in Keys : WF_vars(GrowStale(k))

FairSpec == Spec /\ Fairness

\* If clients keep retrying, no key stays in_progress for ever, even when the
\* thread that claimed it died (P3 report:
\* "PERMANENT_STUCK_IN_PROGRESS_OPERATIONS = 0 (after stale path)").
NothingStuckInProgress ==
  \A k \in Keys :
    ([]<><<Retry(k)>>_vars) =>
      (row[k].status = "in_progress" ~> row[k].status # "in_progress")
===============================================================================
