-------------------------- MODULE ProductTurnsProofs --------------------------
(***************************************************************************)
(* Theorems about ProductTurns for every set of threads, keys and          *)
(* fingerprints and any number of faults.                                  *)
(***************************************************************************)
EXTENDS ProductTurns, TLAPS

\* Each action below that belongs to ProductRecovery is one of these and
\* nothing else.
USE DEF BeginOrReplay, SeekEvidence, CompleteFromEvidence,
        MarkRecoveryRequired, AgeRow

-----------------------------------------------------------------------------
(* The rows of the table.                                                  *)

\* What a claim answers and what it makes of the row.
LEMMA ClaimFacts ==
  ASSUME NEW r \in Rows, NEW fp \in Fingerprints
  PROVE  /\ ClaimResult(r, fp) \in ClaimResults
         /\ ClaimedRow(r, fp) \in Rows
         /\ ClaimResult(r, fp) = "proceed" => r.status \in {"absent", "failed"}
         /\ ClaimResult(r, fp) = "replay" =>
              r.status = "completed" /\ r.result # NoResult
         /\ ClaimResult(r, fp) = "in_progress" => r.status = "in_progress"
  BY NoFingerprintAssumption
     DEF Rows, Statuses, ClaimResult, ClaimResults, ClaimedRow, NoResult

\* The other transactions keep a row a row.
LEMMA CompletedFacts ==
  ASSUME NEW r, NEW fp \in Fingerprints, NEW n \in Nat
  PROVE  CompletedRow(r, fp, n) \in Rows
  BY DEF Rows, Statuses, CompletedRow

LEMMA RowFacts ==
  ASSUME NEW r \in Rows
  PROVE  FailedRow(r) \in Rows /\ RecoveryRow(r) \in Rows /\ StaleRow(r) \in Rows
  BY DEF Rows, Statuses, FailedRow, RecoveryRow, StaleRow

\* Failing, flagging and ageing a row leave its response alone.
LEMMA ResultKept ==
  ASSUME NEW r \in Rows
  PROVE  /\ FailedRow(r).result = r.result
         /\ RecoveryRow(r).result = r.result
         /\ StaleRow(r).result = r.result
  BY DEF Rows, FailedRow, RecoveryRow, StaleRow

-----------------------------------------------------------------------------
(* Type correctness.                                                       *)

USE DEF store, NoResult

LEMMA InitTypeOK == Init => TypeOK
  BY DEF Init, TypeOK, Rows, Statuses, AbsentRow, Steps, OwnerSteps,
         AfterSteps, ReconcileSteps, Kinds

LEMMA NextTypeOK == TypeOK /\ [Next]_vars => TypeOK'
  <1> SUFFICES ASSUME TypeOK, [Next]_vars PROVE TypeOK'
    OBVIOUS
  <1> USE DEF TypeOK, Steps, OwnerSteps, AfterSteps, ReconcileSteps, Kinds,
              Requests, Key, Goto, SetRow, Deliver
  <1>1. ASSUME NEW t \in Threads, NEW r \in Requests, Arrive(t, r)
        PROVE  TypeOK'
    BY <1>1 DEF Arrive
  <1>2. ASSUME NEW t \in Threads, Claim(t) PROVE TypeOK'
    <2>1. ClaimedRow(row[Key(t)], request[t].fp) \in Rows
      BY ClaimFacts
    <2>2. row[Key(t)].result \in Nat
      BY DEF Rows
    <2>3. row' \in [Keys -> Rows]
      BY <1>2, <2>1 DEF Claim
    <2>4. pc' \in [Threads -> Steps]
      BY <1>2 DEF Claim
    <2>5. /\ held' \in {held, [held EXCEPT ![t] = row[Key(t)].result]}
          /\ \/ delivered' = delivered
             \/ delivered' = [delivered EXCEPT ![Key(t)] =
                                @ \cup {row[Key(t)].result}]
      BY <1>2 DEF Claim
    <2>6. /\ userRows' = userRows /\ assistant' = assistant /\ asked' = asked
          /\ runs' = runs /\ committed' = committed /\ request' = request
          /\ kind' = kind /\ faults' = faults
      BY <1>2 DEF Claim
    <2>7. held' \in [Threads -> Nat]
      BY <2>2, <2>5
    <2>8. delivered' \in [Keys -> SUBSET Nat]
      BY <2>2, <2>5
    <2>9. QED
      BY <2>3, <2>4, <2>6, <2>7, <2>8
  <1>3. ASSUME NEW t \in Threads, FindEvidence(t) PROVE TypeOK'
    <2>1. Evidence(t) \subseteq Nat
      BY DEF Evidence
    <2>2. QED
      BY <1>3, <2>1 DEF FindEvidence
  <1>4. ASSUME NEW t \in Threads, Recomplete(t) PROVE TypeOK'
    BY <1>4, CompletedFacts DEF Recomplete
  <1>5. ASSUME NEW t \in Threads, MarkRecovery(t) PROVE TypeOK'
    BY <1>5, RowFacts DEF MarkRecovery
  <1>6. ASSUME NEW t \in Threads, AddUserMessage(t) PROVE TypeOK'
    BY <1>6 DEF AddUserMessage
  <1>7. ASSUME NEW t \in Threads, InvokeEngine(t) PROVE TypeOK'
    BY <1>7 DEF InvokeEngine
  <1>8. ASSUME NEW t \in Threads, NEW what \in Kinds, EngineReturns(t, what)
        PROVE  TypeOK'
    BY <1>8 DEF EngineReturns
  <1>9. ASSUME NEW t \in Threads, SaveSession(t) PROVE TypeOK'
    BY <1>9 DEF SaveSession
  <1>10. ASSUME NEW t \in Threads, Complete(t) PROVE TypeOK'
    BY <1>10, CompletedFacts DEF Complete
  <1>11. ASSUME NEW t \in Threads, PersistClarification(t) PROVE TypeOK'
    BY <1>11 DEF PersistClarification
  <1>12. ASSUME NEW t \in Threads, PersistAssistant(t) PROVE TypeOK'
    BY <1>12 DEF PersistAssistant
  <1>13. ASSUME NEW t \in Threads, Fail(t) PROVE TypeOK'
    BY <1>13, RowFacts DEF Fail
  <1>14. ASSUME NEW t \in Threads, EngineRaises(t) PROVE TypeOK'
    BY <1>14 DEF EngineRaises, Fault
  <1>a. ASSUME NEW t \in Threads, DiscourseRaises(t) PROVE TypeOK'
    BY <1>a DEF DiscourseRaises, Fault
  <1>15. ASSUME NEW t \in Threads, StoreRaises(t) PROVE TypeOK'
    BY <1>15 DEF StoreRaises, Fault
  <1>16. ASSUME NEW k \in Keys, GrowStale(k) PROVE TypeOK'
    BY <1>16, RowFacts DEF GrowStale
  <1>17. CASE Crash
    BY <1>17 DEF Crash, Fault
  <1>18. CASE UNCHANGED vars
    BY <1>18 DEF vars
  <1> HIDE DEF TypeOK, Steps, OwnerSteps, AfterSteps, ReconcileSteps, Kinds,
               Requests, Key, Goto, SetRow, Deliver
  <1>19. ASSUME NEW t \in Threads, Proceed(t) PROVE TypeOK'
    BY <1>19, <1>2, <1>3, <1>4, <1>5, <1>6, <1>7, <1>8, <1>9, <1>10, <1>11,
       <1>12, <1>13 DEF Proceed
  <1>20. QED
    BY <1>1, <1>14, <1>a, <1>15, <1>16, <1>17, <1>18, <1>19 DEF Next

\* The state of the store and of the threads stays within its type.
THEOREM TypeCorrect == Spec => []TypeOK
  BY InitTypeOK, NextTypeOK, PTL DEF Spec

-----------------------------------------------------------------------------
(* The inductive invariant.                                                *)

\* A key that is not completed and not in doubt has no response.
UnsettledHasNoResult ==
  \A k \in Keys :
    row[k].status \in {"absent", "failed", "in_progress"}
      => row[k].result = NoResult

\* While a thread executes a key, the row says so and has no response: this
\* is why nobody else's claim can succeed.
OwnerHoldsRow ==
  \A t \in Threads :
    Owner(t) => /\ row[Key(t)].status \in {"in_progress", "recovery_required"}
                /\ row[Key(t)].result = NoResult

\* What a thread is about to complete, write or deliver.
HeldFits(t) ==
    /\ pc[t] \in {"engine", "session", "complete"} => held[t] # NoResult
    /\ pc[t] \in AfterSteps \cup {"recomplete"} =>
         held[t] # NoResult /\ held[t] = row[Key(t)].result
    /\ pc[t] = "evidence" => held[t] \in {NoResult, row[Key(t)].result}

HeldIsResult == \A t \in Threads : HeldFits(t)

SafeParts == /\ UnsettledHasNoResult
             /\ OwnerHoldsRow
             /\ HeldIsResult
             /\ SingleExecutor
             /\ RowsMatchResult
             /\ DeliveredIsDurable

SafeInv == TypeOK /\ SafeParts

\* A step that leaves the rows alone and starts no owner keeps what is said
\* about owners.
LEMMA NoNewOwner ==
  ASSUME OwnerHoldsRow, SingleExecutor, UNCHANGED <<row, request>>,
         \A s \in Threads : Owner(s)' => Owner(s)
  PROVE  OwnerHoldsRow' /\ SingleExecutor'
  BY DEF OwnerHoldsRow, SingleExecutor, Key

LEMMA InitSafe == Init => SafeParts
  BY DEF Init, SafeParts, UnsettledHasNoResult, OwnerHoldsRow, HeldIsResult,
         HeldFits, SingleExecutor, RowsMatchResult, DeliveredIsDurable, Owner,
         OwnerSteps, AfterSteps, AbsentRow

LEMMA NextSafe == SafeInv /\ [Next]_vars => SafeParts'
  <1> SUFFICES ASSUME TypeOK, SafeParts, [Next]_vars PROVE SafeParts'
    BY DEF SafeInv
  <1> USE DEF TypeOK, SafeParts, UnsettledHasNoResult, OwnerHoldsRow,
              HeldIsResult, HeldFits, SingleExecutor, RowsMatchResult,
              DeliveredIsDurable, Owner, OwnerSteps, AfterSteps, Rows,
              Requests, Key, Goto, SetRow, Deliver
  <1>1. ASSUME NEW t \in Threads, NEW r \in Requests, Arrive(t, r) PROVE SafeParts'
    <2>1. /\ UNCHANGED <<row, assistant, asked, delivered>>
          /\ request' = [request EXCEPT ![t] = r] /\ held' = [held EXCEPT ![t] = NoResult]
          /\ pc[t] = "idle" /\ pc' = [pc EXCEPT ![t] = "claim"]
      BY <1>1 DEF Arrive
    <2>2. UnsettledHasNoResult' /\ RowsMatchResult' /\ DeliveredIsDurable'
      BY <2>1
    <2>3. HeldIsResult'
      BY <2>1
    <2>4. OwnerHoldsRow' /\ SingleExecutor'
      BY <2>1
    <2>5. QED
      BY <2>2, <2>3, <2>4
  <1>2. ASSUME NEW t \in Threads, Claim(t) PROVE SafeParts'
    <2> DEFINE answer == ClaimResult(row[Key(t)], request[t].fp)
    <2>1. /\ answer = "proceed" => row[Key(t)].status \in {"absent", "failed"}
          /\ answer = "replay" => row[Key(t)].result # NoResult
          /\ answer = "in_progress" => row[Key(t)].status = "in_progress"
      BY ClaimFacts
    <2>2. CASE answer = "proceed"
      <3>1. /\ row[Key(t)].result = NoResult
            /\ \A s \in Threads : Owner(s) => Key(s) # Key(t)
        BY <2>1, <2>2
      <3>2. /\ row' = [row EXCEPT ![Key(t)] =
                        [status |-> "in_progress", fp |-> request[t].fp,
                         result |-> NoResult, stale |-> FALSE]]
            /\ pc' = [pc EXCEPT ![t] = "start"]
            /\ UNCHANGED <<held, delivered, assistant, asked, request>>
        BY <1>2, <2>2 DEF Claim, ClaimedRow
      <3>3. OwnerHoldsRow' /\ SingleExecutor'
        BY <3>1, <3>2
      <3>4. UnsettledHasNoResult' /\ RowsMatchResult' /\ DeliveredIsDurable'
        BY <3>1, <3>2
      <3>5. HeldIsResult'
        BY <3>1, <3>2
      <3>6. QED
        BY <3>3, <3>4, <3>5
    <2>3. CASE answer # "proceed"
      <3>1. /\ UNCHANGED <<row, assistant, asked, request>>
            /\ pc' \in {[pc EXCEPT ![t] = "idle"], [pc EXCEPT ![t] = "evidence"]}
        BY <1>2, <2>3 DEF Claim, ClaimedRow
      <3>a. \/ delivered' = delivered
            \/ /\ delivered' = [delivered EXCEPT ![Key(t)] = @ \cup {row[Key(t)].result}]
               /\ answer = "replay"
        BY <1>2, <2>3 DEF Claim
      <3>b. \/ held' = held /\ pc' = [pc EXCEPT ![t] = "idle"]
            \/ /\ held' = [held EXCEPT ![t] = row[Key(t)].result]
               /\ pc' = [pc EXCEPT ![t] = "evidence"] /\ answer = "in_progress"
        BY <1>2, <2>3 DEF Claim
      <3> HIDE DEF answer
      <3>2. UnsettledHasNoResult' /\ RowsMatchResult'
        BY <3>1
      <3>3. OwnerHoldsRow' /\ SingleExecutor'
        <4>1. \A s \in Threads : Owner(s)' => Owner(s)
          BY <3>1
        <4>2. QED
          BY <3>1, <4>1, NoNewOwner
      <3>4. DeliveredIsDurable'
        <4>1. CASE delivered' = delivered
          BY <3>1, <4>1
        <4>2. CASE /\ delivered' = [delivered EXCEPT ![Key(t)] = @ \cup {row[Key(t)].result}]
                   /\ answer = "replay"
          <5>1. row[Key(t)].result # NoResult /\ Key(t) \in Keys
            BY <2>1, <4>2
          <5>2. \A k \in Keys : delivered'[k] \subseteq delivered[k] \cup ({row[k].result} \ {NoResult})
            BY <4>2, <5>1
          <5>3. QED
            BY <3>1, <5>2
        <4>3. QED
          BY <3>a, <4>1, <4>2
      <3>5. HeldIsResult'
        <4>1. ASSUME NEW s \in Threads, s # t PROVE HeldFits(s)'
          BY <3>1, <3>b, <4>1
        <4>2. HeldFits(t)'
          BY <2>1, <3>1, <3>b
        <4>3. QED
          BY <4>1, <4>2
      <3>6. QED
        BY <3>2, <3>3, <3>4, <3>5
    <2>4. QED
      BY <2>2, <2>3
  <1>3. ASSUME NEW t \in Threads, FindEvidence(t) PROVE SafeParts'
    <2>1. Evidence(t) \subseteq {row[Key(t)].result} \ {NoResult}
      BY <1>3 DEF FindEvidence, Evidence
    <2>2. UNCHANGED <<row, assistant, asked, delivered, request>>
      BY <1>3 DEF FindEvidence
    <2>3. HeldIsResult'
      <3>1. ASSUME NEW s \in Threads, s # t PROVE HeldFits(s)'
        BY <1>3, <2>2, <3>1 DEF FindEvidence
      <3>2. HeldFits(t)'
        BY <1>3, <2>1, <2>2 DEF FindEvidence
      <3>3. QED
        BY <3>1, <3>2
    <2>4. OwnerHoldsRow' /\ SingleExecutor'
      <3>1. \A s \in Threads : Owner(s)' => Owner(s)
        BY <1>3 DEF FindEvidence
      <3>2. QED
        BY <2>2, <3>1, NoNewOwner
    <2>5. QED
      BY <2>2, <2>3, <2>4
  <1>4. ASSUME NEW t \in Threads, Recomplete(t) PROVE SafeParts'
    <2>1. UnsettledHasNoResult' /\ RowsMatchResult' /\ DeliveredIsDurable'
      BY <1>4 DEF Recomplete, CompletedRow
    <2>2. HeldIsResult'
      BY <1>4 DEF Recomplete, CompletedRow
    <2>3. OwnerHoldsRow' /\ SingleExecutor'
      BY <1>4 DEF Recomplete, CompletedRow
    <2>4. QED
      BY <2>1, <2>2, <2>3
  <1>5. ASSUME NEW t \in Threads, MarkRecovery(t) PROVE SafeParts'
    <2>1. UnsettledHasNoResult' /\ RowsMatchResult' /\ DeliveredIsDurable'
      BY <1>5 DEF MarkRecovery, RecoveryRow
    <2>2. HeldIsResult'
      BY <1>5 DEF MarkRecovery, RecoveryRow
    <2>3. OwnerHoldsRow' /\ SingleExecutor'
      BY <1>5 DEF MarkRecovery, RecoveryRow
    <2>4. QED
      BY <2>1, <2>2, <2>3
  <1>6. ASSUME NEW t \in Threads, AddUserMessage(t) PROVE SafeParts'
    BY <1>6 DEF AddUserMessage
  <1>7. ASSUME NEW t \in Threads, InvokeEngine(t) PROVE SafeParts'
    BY <1>7 DEF InvokeEngine
  <1>8. ASSUME NEW t \in Threads, NEW what \in Kinds, EngineReturns(t, what) PROVE SafeParts'
    BY <1>8 DEF EngineReturns
  <1>9. ASSUME NEW t \in Threads, SaveSession(t) PROVE SafeParts'
    BY <1>9 DEF SaveSession
  <1>10. ASSUME NEW t \in Threads, Complete(t) PROVE SafeParts'
    BY <1>10 DEF Complete, CompletedRow
  <1>11. ASSUME NEW t \in Threads, PersistClarification(t) PROVE SafeParts'
    BY <1>11 DEF PersistClarification
  <1>12. ASSUME NEW t \in Threads, PersistAssistant(t) PROVE SafeParts'
    BY <1>12 DEF PersistAssistant
  <1>13. ASSUME NEW t \in Threads, Fail(t) PROVE SafeParts'
    <2>1. UnsettledHasNoResult' /\ RowsMatchResult' /\ DeliveredIsDurable'
      BY <1>13 DEF Fail, FailedRow
    <2>2. HeldIsResult'
      BY <1>13 DEF Fail, FailedRow
    <2>3. OwnerHoldsRow' /\ SingleExecutor'
      BY <1>13 DEF Fail, FailedRow
    <2>4. QED
      BY <2>1, <2>2, <2>3
  <1>14. ASSUME NEW t \in Threads, EngineRaises(t) PROVE SafeParts'
    BY <1>14 DEF EngineRaises, Fault
  <1>a. ASSUME NEW t \in Threads, DiscourseRaises(t) PROVE SafeParts'
    BY <1>a DEF DiscourseRaises, Fault
  <1>15. ASSUME NEW t \in Threads, StoreRaises(t) PROVE SafeParts'
    <2>1. UNCHANGED <<row, assistant, asked, delivered, request, held>>
      BY <1>15 DEF StoreRaises
    <2>2. \/ pc' = [pc EXCEPT ![t] = "failing"] /\ Owner(t)
          \/ pc' = [pc EXCEPT ![t] = "idle"]
      BY <1>15 DEF StoreRaises
    <2>3. HeldIsResult'
      <3>1. ASSUME NEW s \in Threads, s # t PROVE HeldFits(s)'
        BY <2>1, <2>2, <3>1
      <3>2. HeldFits(t)'
        BY <2>1, <2>2
      <3>3. QED
        BY <3>1, <3>2
    <2>4. OwnerHoldsRow' /\ SingleExecutor'
      <3>1. \A s \in Threads : Owner(s)' => Owner(s)
        BY <2>2
      <3>2. QED
        BY <2>1, <3>1, NoNewOwner
    <2>5. QED
      BY <2>1, <2>3, <2>4
  <1>16. ASSUME NEW k \in Keys, GrowStale(k) PROVE SafeParts'
    BY <1>16 DEF GrowStale, StaleRow
  <1>17. CASE Crash
    BY <1>17 DEF Crash, Fault
  <1>18. CASE UNCHANGED vars
    BY <1>18 DEF vars
  <1> HIDE DEF TypeOK, SafeParts, UnsettledHasNoResult, OwnerHoldsRow,
               HeldIsResult, HeldFits, SingleExecutor, RowsMatchResult,
               DeliveredIsDurable, Owner, OwnerSteps, AfterSteps, Rows,
               Requests, Key, Goto, SetRow, Deliver
  <1>19. ASSUME NEW t \in Threads, Proceed(t) PROVE SafeParts'
    BY <1>19, <1>2, <1>3, <1>4, <1>5, <1>6, <1>7, <1>8, <1>9, <1>10, <1>11,
       <1>12, <1>13 DEF Proceed
  <1>20. QED
    BY <1>1, <1>14, <1>a, <1>15, <1>16, <1>17, <1>18, <1>19 DEF Next

LEMMA SafeInvariant == Spec => []SafeInv
  <1>1. Init => SafeInv
    BY InitTypeOK, InitSafe DEF SafeInv
  <1>2. SafeInv /\ [Next]_vars => SafeInv'
    BY NextTypeOK, NextSafe DEF SafeInv
  <1>3. QED
    BY <1>1, <1>2, PTL DEF Spec

\* However the threads interleave, fail and restart: one executor per key,
\* rows that match the durable result, one result for every client.
THEOREM Safety ==
  Spec => [](SingleExecutor /\ RowsMatchResult /\ DeliveredIsDurable)
  <1>1. SafeInv => SingleExecutor /\ RowsMatchResult /\ DeliveredIsDurable
    BY DEF SafeInv, SafeParts
  <1>2. QED
    BY SafeInvariant, <1>1, PTL

\* The conversation a client reloads never contradicts the answer of a retry.
COROLLARY RowsAgree == Spec => []RowsMatchResult
  BY Safety, PTL

\* A key whose result is durable or known to anyone never runs again.
THEOREM NoRerun == Spec => NoRunAfterResult
  <1> DEFINE Settled(k) ==
        row[k].result # NoResult \/ assistant[k] # {} \/ delivered[k] # {}
  <1>1. SafeInv /\ [Next]_vars
          => [\A k \in Keys : Settled(k) => runs'[k] = runs[k]]_vars
    <2> SUFFICES ASSUME SafeInv, Next
                 PROVE  \A k \in Keys : Settled(k) => runs'[k] = runs[k]
      OBVIOUS
    <2>1. ASSUME NEW t \in Threads, InvokeEngine(t)
          PROVE  \A k \in Keys : Settled(k) => runs'[k] = runs[k]
      <3>1. ~Settled(Key(t))
        BY <2>1 DEF InvokeEngine, SafeInv, SafeParts, TypeOK, OwnerHoldsRow,
                    Owner, OwnerSteps, RowsMatchResult, DeliveredIsDurable,
                    Key, Requests
      <3>2. runs' = [runs EXCEPT ![Key(t)] = @ + 1]
        BY <2>1 DEF InvokeEngine
      <3>3. QED
        BY <3>1, <3>2 DEF SafeInv, TypeOK
    <2>2. (\A t \in Threads : ~InvokeEngine(t)) => runs' = runs
      BY DEF Next, Proceed, Arrive, Claim, FindEvidence, Recomplete,
             MarkRecovery, AddUserMessage, EngineReturns, SaveSession,
             Complete, PersistClarification, PersistAssistant, Fail,
             EngineRaises, DiscourseRaises, StoreRaises, GrowStale, Crash
    <2>3. QED
      BY <2>1, <2>2
  <1>2. QED
    BY SafeInvariant, <1>1, PTL DEF Spec, NoRunAfterResult

-----------------------------------------------------------------------------
(* One Knowledge commit per key, while nothing raises between that commit  *)
(* and complete_idempotent.                                                *)

\* After a commit the key never looks claimable, and the thread that made
\* the commit can only go on to complete.
CommitInv ==
  \A k \in Keys : committed[k] # {} =>
    /\ row[k].status \notin {"absent", "failed"}
    /\ \A t \in Threads : Owner(t) /\ Key(t) = k => pc[t] \in {"session", "complete"}

CommitParts == CommitInv /\ AtMostOneCommit

CommitIInv == ~Happened("store") /\ ~Happened("discourse") => CommitParts

\* What has happened stays happened.
LEMMA FaultsLast ==
  ASSUME TypeOK, [Next]_vars, NEW f, Happened(f)
  PROVE  Happened(f)'
  <1>1. \/ faults' = faults
        \/ \E g \in Faults : faults' = [faults EXCEPT ![g] = @ + 1]
    BY DEF Next, Proceed, Arrive, Claim, FindEvidence, Recomplete,
           MarkRecovery, AddUserMessage, InvokeEngine, EngineReturns,
           SaveSession, Complete, PersistClarification, PersistAssistant,
           Fail, EngineRaises, DiscourseRaises, StoreRaises, GrowStale, Crash,
           Fault, vars
  <1>2. QED
    BY <1>1 DEF TypeOK, Happened

LEMMA NextCommit ==
  ASSUME SafeInv, CommitIInv, [Next]_vars,
         ~Happened("store")', ~Happened("discourse")'
  PROVE  CommitParts'
  <1>0. TypeOK /\ OwnerHoldsRow /\ SingleExecutor
    BY DEF SafeInv, SafeParts
  <1>a. CommitParts
    BY <1>0, FaultsLast DEF CommitIInv
  <1> USE <1>0, <1>a DEF TypeOK, Owner, OwnerSteps, Requests, Key, Goto, SetRow
  <1>1. ASSUME NEW t \in Threads, NEW r \in Requests, Arrive(t, r) PROVE CommitParts'
    BY <1>1 DEF Arrive, CommitParts, CommitInv, AtMostOneCommit
  <1>2. ASSUME NEW t \in Threads, Claim(t) PROVE CommitParts'
    <2>1. CASE ClaimResult(row[Key(t)], request[t].fp) = "proceed"
      <3>1. committed[Key(t)] = {}
        BY <2>1, ClaimFacts DEF CommitParts, CommitInv
      <3>2. /\ row' = [row EXCEPT ![Key(t)] = ClaimedRow(row[Key(t)], request[t].fp)]
            /\ pc' = [pc EXCEPT ![t] = "start"]
            /\ UNCHANGED <<committed, request>>
        BY <1>2, <2>1 DEF Claim
      <3>3. QED
        BY <3>1, <3>2 DEF CommitParts, CommitInv, AtMostOneCommit
    <2>2. CASE ClaimResult(row[Key(t)], request[t].fp) # "proceed"
      <3>1. row' = row
        BY <1>2, <2>2 DEF Claim, ClaimedRow
      <3>2. pc' \in {[pc EXCEPT ![t] = "idle"], [pc EXCEPT ![t] = "evidence"]}
            /\ UNCHANGED <<committed, request>>
        BY <1>2, <2>2 DEF Claim
      <3>3. QED
        BY <3>1, <3>2 DEF CommitParts, CommitInv, AtMostOneCommit
    <2>3. QED
      BY <2>1, <2>2
  <1>3. ASSUME NEW t \in Threads, FindEvidence(t) PROVE CommitParts'
    BY <1>3 DEF FindEvidence, CommitParts, CommitInv, AtMostOneCommit
  <1>4. ASSUME NEW t \in Threads, Recomplete(t) PROVE CommitParts'
    BY <1>4 DEF Recomplete, CompletedRow, CommitParts, CommitInv, AtMostOneCommit
  <1>5. ASSUME NEW t \in Threads, MarkRecovery(t) PROVE CommitParts'
    BY <1>5 DEF MarkRecovery, RecoveryRow, Rows, CommitParts, CommitInv, AtMostOneCommit
  <1>6. ASSUME NEW t \in Threads, AddUserMessage(t) PROVE CommitParts'
    BY <1>6 DEF AddUserMessage, CommitParts, CommitInv, AtMostOneCommit
  <1>7. ASSUME NEW t \in Threads, InvokeEngine(t) PROVE CommitParts'
    BY <1>7 DEF InvokeEngine, CommitParts, CommitInv, AtMostOneCommit
  <1>8. ASSUME NEW t \in Threads, NEW what \in Kinds, EngineReturns(t, what)
        PROVE  CommitParts'
    <2>1. committed[Key(t)] = {}
      BY <1>8 DEF EngineReturns, CommitParts, CommitInv
    <2>2. /\ pc' = [pc EXCEPT ![t] = "session"]
          /\ committed' \in {committed, [committed EXCEPT ![Key(t)] = @ \cup {held[t]}]}
          /\ UNCHANGED <<row, request>>
      BY <1>8 DEF EngineReturns
    <2>3. row[Key(t)].status \in {"in_progress", "recovery_required"}
      BY <1>8 DEF EngineReturns, OwnerHoldsRow
    <2>4. \A s \in Threads : Owner(s) /\ Key(s) = Key(t) => s = t
      BY <1>8 DEF EngineReturns, SingleExecutor
    <2>5. CommitInv'
      BY <2>1, <2>2, <2>3, <2>4 DEF CommitParts, CommitInv
    <2>6. AtMostOneCommit'
      BY <2>1, <2>2 DEF CommitParts, AtMostOneCommit
    <2>7. QED
      BY <2>5, <2>6 DEF CommitParts
  <1>9. ASSUME NEW t \in Threads, SaveSession(t) PROVE CommitParts'
    BY <1>9 DEF SaveSession, CommitParts, CommitInv, AtMostOneCommit
  <1>10. ASSUME NEW t \in Threads, Complete(t) PROVE CommitParts'
    BY <1>10 DEF Complete, CompletedRow, CommitParts, CommitInv, AtMostOneCommit
  <1>11. ASSUME NEW t \in Threads, PersistClarification(t) PROVE CommitParts'
    BY <1>11 DEF PersistClarification, CommitParts, CommitInv, AtMostOneCommit
  <1>12. ASSUME NEW t \in Threads, PersistAssistant(t) PROVE CommitParts'
    BY <1>12 DEF PersistAssistant, CommitParts, CommitInv, AtMostOneCommit
  <1>13. ASSUME NEW t \in Threads, Fail(t) PROVE CommitParts'
    <2>1. committed[Key(t)] = {}
      BY <1>13 DEF Fail, CommitParts, CommitInv
    <2>2. QED
      BY <1>13, <2>1 DEF Fail, CommitParts, CommitInv, AtMostOneCommit
  <1>14. ASSUME NEW t \in Threads, EngineRaises(t) PROVE CommitParts'
    <2>1. committed[Key(t)] = {}
      BY <1>14 DEF EngineRaises, CommitParts, CommitInv
    <2>2. QED
      BY <1>14, <2>1 DEF EngineRaises, CommitParts, CommitInv, AtMostOneCommit
  <1>b. ASSUME NEW t \in Threads, DiscourseRaises(t) PROVE CommitParts'
    <2>1. Happened("discourse")'
      BY <1>b DEF DiscourseRaises, Fault, Happened
    <2>2. QED
      BY <2>1
  <1>15. ASSUME NEW t \in Threads, StoreRaises(t) PROVE CommitParts'
    <2>1. Happened("store")'
      BY <1>15 DEF StoreRaises, Fault, Happened
    <2>2. QED
      BY <2>1
  <1>16. ASSUME NEW k \in Keys, GrowStale(k) PROVE CommitParts'
    BY <1>16 DEF GrowStale, StaleRow, Rows, CommitParts, CommitInv, AtMostOneCommit
  <1>17. CASE Crash
    BY <1>17 DEF Crash, CommitParts, CommitInv, AtMostOneCommit
  <1>18. CASE UNCHANGED vars
    BY <1>18 DEF vars, CommitParts, CommitInv, AtMostOneCommit
  <1> HIDE DEF TypeOK, Owner, OwnerSteps, Requests, Key, Goto, SetRow
  <1>19. ASSUME NEW t \in Threads, Proceed(t) PROVE CommitParts'
    BY <1>19, <1>2, <1>3, <1>4, <1>5, <1>6, <1>7, <1>8, <1>9, <1>10, <1>11,
       <1>12, <1>13 DEF Proceed
  <1>20. QED
    BY <1>1, <1>14, <1>b, <1>15, <1>16, <1>17, <1>18, <1>19 DEF Next

\* Crashes, exceptions before the commit, retries and reconciliation never
\* make a key commit to Knowledge twice; only an exception of the product store
\* or of the engine's own discourse update, which may follow the commit, can.
THEOREM OneCommit == Spec => []OneCommitUnlessRaisedAfter
  <1>1. Init => CommitIInv
    BY DEF Init, CommitIInv, CommitParts, CommitInv, AtMostOneCommit
  <1>2. SafeInv /\ CommitIInv /\ [Next]_vars => CommitIInv'
    BY NextCommit DEF CommitIInv
  <1>3. CommitIInv => OneCommitUnlessRaisedAfter
    BY DEF CommitIInv, CommitParts, OneCommitUnlessRaisedAfter
  <1>4. QED
    BY SafeInvariant, <1>1, <1>2, <1>3, PTL DEF Spec

-----------------------------------------------------------------------------
(* send_message implements the write-once register.                        *)

results == [k \in Keys |-> row[k].result]

\* A step that changes at most the row of one key, and not its response,
\* leaves the abstract result alone.
LEMMA SameResult ==
  ASSUME NEW k \in Keys, NEW r, row \in [Keys -> Rows],
         row' = [row EXCEPT ![k] = r], r.result = row[k].result
  PROVE  results' = results
  BY DEF results

LEMMA StepRefines == SafeInv /\ [Next]_vars => [Register!Next]_<<results, delivered>>
  <1> SUFFICES ASSUME SafeInv, [Next]_vars
               PROVE  [Register!Next]_<<results, delivered>>
    OBVIOUS
  <1>0. TypeOK /\ UnsettledHasNoResult /\ OwnerHoldsRow /\ HeldIsResult
    BY DEF SafeInv, SafeParts
  <1>a. \A t \in Threads : Key(t) \in Keys
    BY <1>0 DEF TypeOK, Key, Requests
  <1>1. ASSUME NEW t \in Threads, Claim(t)
        PROVE  [Register!Next]_<<results, delivered>>
    <2> DEFINE answer == ClaimResult(row[Key(t)], request[t].fp)
    <2>1. results' = results
      <3>1. row[Key(t)] \in Rows /\ request[t].fp \in Fingerprints
        BY <1>0, <1>a DEF TypeOK, Requests
      <3>2. ClaimedRow(row[Key(t)], request[t].fp).result = row[Key(t)].result
        <4>1. CASE answer = "proceed"
          BY <1>0, <1>a, <3>1, <4>1, ClaimFacts DEF UnsettledHasNoResult, ClaimedRow
        <4>2. CASE answer # "proceed"
          BY <4>2 DEF ClaimedRow
        <4>3. QED
          BY <4>1, <4>2
      <3>3. row' = [row EXCEPT ![Key(t)] = ClaimedRow(row[Key(t)], request[t].fp)]
        BY <1>1 DEF Claim, SetRow
      <3>4. QED
        BY <1>0, <1>a, <3>2, <3>3, SameResult DEF TypeOK
    <2>2. CASE answer = "replay"
      <3>1. row[Key(t)].result # NoResult
        BY <1>0, <1>a, <2>2, ClaimFacts DEF TypeOK, Requests
      <3>2. delivered' = [delivered EXCEPT ![Key(t)] = @ \cup {results[Key(t)]}]
        BY <1>1, <1>a, <2>2 DEF Claim, Deliver, results
      <3>3. Register!Deliver(Key(t))
        BY <1>a, <2>1, <3>1, <3>2 DEF Register!Deliver, results
      <3>4. QED
        BY <1>a, <3>3 DEF Register!Next
    <2>3. CASE answer # "replay"
      BY <1>1, <2>1, <2>3 DEF Claim
    <2>4. QED
      BY <2>2, <2>3
  <1>2. ASSUME NEW t \in Threads, Recomplete(t) \/ PersistAssistant(t)
        PROVE  [Register!Next]_<<results, delivered>>
    <2>1. held[t] # NoResult /\ held[t] = row[Key(t)].result
      BY <1>0, <1>2 DEF HeldIsResult, HeldFits, AfterSteps, Recomplete, PersistAssistant
    <2>2. results' = results
      <3>1. CASE Recomplete(t)
        <4>1. /\ row' = [row EXCEPT ![Key(t)] =
                          CompletedRow(row[Key(t)], request[t].fp, held[t])]
              /\ CompletedRow(row[Key(t)], request[t].fp, held[t]).result
                   = row[Key(t)].result
          BY <3>1, <2>1 DEF Recomplete, SetRow, CompletedRow
        <4>2. QED
          BY <1>0, <1>a, <4>1, SameResult DEF TypeOK
      <3>2. CASE PersistAssistant(t)
        BY <3>2 DEF PersistAssistant, results
      <3>3. QED
        BY <1>2, <3>1, <3>2
    <2>3. delivered' = [delivered EXCEPT ![Key(t)] = @ \cup {results[Key(t)]}]
      BY <1>2, <1>a, <2>1 DEF Recomplete, PersistAssistant, Deliver, results
    <2>4. Register!Deliver(Key(t))
      BY <1>a, <2>1, <2>2, <2>3 DEF Register!Deliver, results
    <2>5. QED
      BY <1>a, <2>4 DEF Register!Next
  <1>3. ASSUME NEW t \in Threads, Complete(t)
        PROVE  [Register!Next]_<<results, delivered>>
    <2>1. row[Key(t)].result = NoResult /\ held[t] # NoResult
      BY <1>0, <1>3 DEF OwnerHoldsRow, Owner, OwnerSteps, HeldIsResult, HeldFits, Complete
    <2>2. row' = [row EXCEPT ![Key(t)] =
                    CompletedRow(row[Key(t)], request[t].fp, held[t])]
      BY <1>3 DEF Complete, SetRow
    <2>3. results' = [results EXCEPT ![Key(t)] = held[t]]
      BY <1>0, <1>a, <2>2 DEF TypeOK, CompletedRow, results
    <2>4. UNCHANGED delivered
      BY <1>3 DEF Complete
    <2>5. Register!Decide(Key(t))
      BY <1>a, <2>1, <2>3, <2>4 DEF Register!Decide, results
    <2>6. Register!Next
      BY <1>a, <2>5 DEF Register!Next, Register!Decide, results
    <2>7. QED
      BY <2>6
  <1>4. ASSUME NEW t \in Threads, MarkRecovery(t) \/ Fail(t)
        PROVE  UNCHANGED <<results, delivered>>
    <2>1. row[Key(t)] \in Rows
      BY <1>0, <1>a DEF TypeOK
    <2>2. /\ \/ row' = [row EXCEPT ![Key(t)] = RecoveryRow(row[Key(t)])]
             \/ row' = [row EXCEPT ![Key(t)] = FailedRow(row[Key(t)])]
          /\ delivered' = delivered
      BY <1>4 DEF MarkRecovery, Fail, SetRow
    <2>a. row \in [Keys -> Rows]
      BY <1>0 DEF TypeOK
    <2>b. ASSUME NEW r, row' = [row EXCEPT ![Key(t)] = r],
                 r.result = row[Key(t)].result
          PROVE  results' = results
      BY <1>a, <2>a, <2>b, SameResult
    <2>3. results' = results
      BY <2>1, <2>2, <2>b, ResultKept
    <2>4. QED
      BY <2>2, <2>3
  <1>5. ASSUME NEW k \in Keys, GrowStale(k)
        PROVE  UNCHANGED <<results, delivered>>
    <2>1. row[k] \in Rows
      BY <1>0 DEF TypeOK
    <2>2. row' = [row EXCEPT ![k] = StaleRow(row[k])] /\ delivered' = delivered
      BY <1>5 DEF GrowStale, SetRow
    <2>3. results' = results
      BY <1>0, <2>1, <2>2, ResultKept, SameResult DEF TypeOK
    <2>4. QED
      BY <2>2, <2>3
  <1>6. ASSUME NEW t \in Threads,
               \/ \E r \in Requests : Arrive(t, r)
               \/ FindEvidence(t) \/ AddUserMessage(t) \/ InvokeEngine(t)
               \/ \E what \in Kinds : EngineReturns(t, what)
               \/ SaveSession(t) \/ PersistClarification(t)
               \/ EngineRaises(t) \/ DiscourseRaises(t) \/ StoreRaises(t)
        PROVE  UNCHANGED <<results, delivered>>
    BY <1>6 DEF Arrive, FindEvidence, AddUserMessage, InvokeEngine, EngineReturns,
                SaveSession, PersistClarification, EngineRaises, DiscourseRaises,
                StoreRaises, results
  <1>7. CASE Crash \/ UNCHANGED vars
    BY <1>7 DEF Crash, vars, results
  <1>8. QED
    BY <1>1, <1>2, <1>3, <1>4, <1>5, <1>6, <1>7 DEF Next, Proceed

\* The detailed protocol implements the abstract register.
THEOREM Refinement == Spec => ImplementsRegister
  <1>1. Init => Register!Init
    BY DEF Init, Register!Init, AbsentRow
  <1>2. SafeInv /\ [Next]_vars => [Register!Next]_(Register!vars)
    BY StepRefines DEF Register!vars, results
  <1>3. QED
    BY SafeInvariant, <1>1, <1>2, PTL DEF Spec, ImplementsRegister, Register!Spec
===============================================================================
