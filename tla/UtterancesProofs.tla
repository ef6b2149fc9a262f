-------------------------- MODULE UtterancesProofs --------------------------
(***************************************************************************)
(* Theorems about what becomes of an utterance: of the answers to          *)
(* clarifications (ClarificationTurns), for every set of threads, keys,    *)
(* fingerprints and clarifications and any number of faults; and of the    *)
(* pipeline from a proposal to the rows (ProposalTurns), for every set of  *)
(* utterances and of answers and any number of turns.                      *)
(***************************************************************************)
EXTENDS ClarificationTurns, ProposalTurns, FiniteSetTheorems, SequenceTheorems, TLAPS

-----------------------------------------------------------------------------
(* The rows of the idempotency table.                                      *)

\* What a claim answers and what it makes of the row.
LEMMA ClaimFacts ==
  ASSUME NEW r \in Rows, NEW fp \in Fingerprints
  PROVE  /\ ClaimedRow(r, fp) \in Rows
         /\ ClaimResult(r, fp) = "proceed" => r.status \in {"absent", "failed"}
         /\ ClaimResult(r, fp) = "replay" => r.result # NoResult
         /\ ClaimResult(r, fp) = "in_progress" => r.status = "in_progress"
  BY NoFingerprintAssumption DEF Rows, Statuses, ClaimResult, ClaimedRow, NoResult

\* The other transactions keep a row a row, and all but the completion keep
\* its response.
LEMMA RowFacts ==
  ASSUME NEW r \in Rows, NEW fp \in Fingerprints, NEW n \in Nat
  PROVE  /\ CompletedRow(r, fp, n) \in Rows
         /\ CompletedRow(r, fp, n).status = "completed" /\ CompletedRow(r, fp, n).result = n
         /\ FailedRow(r) \in Rows /\ FailedRow(r).result = r.result
         /\ FailedRow(r).status \in {"absent", "failed"}
         /\ RecoveryRow(r) \in Rows /\ RecoveryRow(r).result = r.result
         /\ RecoveryRow(r).status = (IF r.status = "absent" THEN "absent" ELSE "recovery_required")
         /\ StaleRow(r) \in Rows /\ StaleRow(r).result = r.result
         /\ StaleRow(r).status = r.status
  BY DEF Rows, Statuses, CompletedRow, FailedRow, RecoveryRow, StaleRow

-----------------------------------------------------------------------------
(* Type correctness.                                                       *)

\* The steps that touch the row of a key, or claim it.
KeyedSteps == {"claim", "complete", "failing"} \cup ReconcileSteps

\* A request without a client_request_id never comes near the table.
TypeInv == TypeOK /\ \A t \in Threads : pc[t] \in KeyedSteps => Key(t) \in Keys

\* The four transitions of the recovery service, on the variables they share
\* with answer_clarification.
LEMMA RecoveryFacts ==
  ASSUME TypeInv, NEW t \in Threads, Recovery(t)
  PROVE  /\ Key(t) \in Keys /\ row[Key(t)] \in Rows /\ request[t].fp \in Fingerprints
         /\ held[t] \in Nat /\ Evidence(t) \subseteq Nat
         /\ UNCHANGED <<assistant, request, table, ending, late, raced, faults>>
         /\ pc[t] \in {"claim"} \cup ReconcileSteps
  <1>1. pc[t] \in {"claim", "evidence", "recomplete", "mark"}
    BY DEF Recovery, BeginOrReplay, SeekEvidence, CompleteFromEvidence, MarkRecoveryRequired
  <1>2. Key(t) \in Keys
    BY <1>1 DEF TypeInv, KeyedSteps, ReconcileSteps
  <1>3. UNCHANGED <<assistant, request, table, ending, late, raced, faults>>
    BY DEF Recovery, BeginOrReplay, SeekEvidence, CompleteFromEvidence, MarkRecoveryRequired
  <1>4. row[Key(t)] \in Rows /\ request[t].fp \in Fingerprints /\ held[t] \in Nat
    BY <1>2 DEF TypeInv, TypeOK, Answers
  <1>5. Evidence(t) \subseteq Nat
    BY <1>2, <1>4 DEF TypeInv, TypeOK, Evidence
  <1>6. QED
    BY <1>1, <1>2, <1>3, <1>4, <1>5 DEF ReconcileSteps

LEMMA InitTypeInv == Init => TypeInv
  BY DEF Init, TypeInv, TypeOK, Rows, Statuses, AbsentRow, Steps, OwnerSteps, ReconcileSteps,
         KeyedSteps, Endings, NoResult

\* The thread t goes to step, and the others stay where they are.
LEMMA GotoFacts ==
  ASSUME TypeInv, NEW t \in Threads, NEW step \in Steps, Goto(t, step),
         request' = request, step \in KeyedSteps => Key(t) \in Keys
  PROVE  /\ pc' \in [Threads -> Steps] /\ pc'[t] = step
         /\ \A u \in Threads \ {t} : pc'[u] = pc[u]
         /\ \A u \in Threads : pc'[u] \in KeyedSteps => Key(u)' \in Keys
  BY DEF TypeInv, TypeOK, Goto, Key

LEMMA NextTypeInv == TypeInv /\ [Next]_vars => TypeInv'
  <1> SUFFICES ASSUME TypeInv, [Next]_vars PROVE TypeInv'
    OBVIOUS
  <1>0. TypeOK
    BY DEF TypeInv
  <1>1. ASSUME NEW t \in Threads, NEW a \in Answers, Arrive(t, a) PROVE TypeInv'
    <2>1. About[a.fp] \in Clarifications /\ a.key \in Ids
      BY AboutAssumption DEF Answers
    <2>2. Closed(About[a.fp]) \in BOOLEAN
      BY DEF Closed
    <2>3. TypeOK'
      BY <1>0, <1>1, <2>2
         DEF TypeOK, Arrive, Goto, Steps, OwnerSteps, Endings, table, NoResult
    <2>4. \A u \in Threads : pc'[u] \in KeyedSteps => Key(u)' \in Keys
      BY <1>1, <2>1 DEF TypeInv, TypeOK, Arrive, Goto, Key, KeyedSteps, ReconcileSteps, Ids
    <2>5. QED
      BY <2>3, <2>4 DEF TypeInv
  <1>2. ASSUME NEW t \in Threads, Recovery(t) PROVE TypeInv'
    <2>1. /\ Key(t) \in Keys /\ row[Key(t)] \in Rows /\ request[t].fp \in Fingerprints
          /\ held[t] \in Nat /\ Evidence(t) \subseteq Nat
          /\ UNCHANGED <<assistant, request, table, ending, late, raced, faults>>
      BY <1>2, RecoveryFacts
    <2>2. row[Key(t)].result \in Nat
      BY <2>1 DEF Rows
    <2>3. \E step \in Steps : Goto(t, step)
      BY <1>2 DEF Recovery, BeginOrReplay, SeekEvidence, CompleteFromEvidence,
                  MarkRecoveryRequired, Steps, OwnerSteps, ReconcileSteps
    <2>4. \E r \in Rows : row' = [row EXCEPT ![Key(t)] = r]
      <3>1. row' = row \/ \E r \in {ClaimedRow(row[Key(t)], request[t].fp),
                                    CompletedRow(row[Key(t)], request[t].fp, held[t]),
                                    RecoveryRow(row[Key(t)])} : row' = [row EXCEPT ![Key(t)] = r]
        BY <1>2 DEF Recovery, BeginOrReplay, SeekEvidence, CompleteFromEvidence,
                    MarkRecoveryRequired, SetRow
      <3>2. row = [row EXCEPT ![Key(t)] = row[Key(t)]]
        BY <1>0 DEF TypeOK
      <3>3. QED
        BY <2>1, <3>1, <3>2, ClaimFacts, RowFacts
    <2>5. \E n \in Nat : held' = [held EXCEPT ![t] = n] \/ held' = held
      BY <1>2, <2>1, <2>2 DEF Recovery, BeginOrReplay, SeekEvidence, CompleteFromEvidence,
                              MarkRecoveryRequired
    <2>6. \/ delivered' = delivered
          \/ \E n \in Nat : delivered' = [delivered EXCEPT ![Key(t)] = @ \cup {n}]
      BY <1>2, <2>1, <2>2 DEF Recovery, BeginOrReplay, SeekEvidence, CompleteFromEvidence,
                              MarkRecoveryRequired, Deliver
    <2>7. pc' \in [Threads -> Steps] /\ \A u \in Threads : pc'[u] \in KeyedSteps => Key(u)' \in Keys
      BY <2>1, <2>3, GotoFacts
    <2>8. row' \in [Keys -> Rows] /\ held' \in [Threads -> Nat]
          /\ delivered' \in [Keys -> SUBSET Nat]
      <3>1. row' \in [Keys -> Rows]
        BY <1>0, <2>1, <2>4 DEF TypeOK
      <3>2. held' \in [Threads -> Nat]
        BY <1>0, <2>5 DEF TypeOK
      <3>3. delivered' \in [Keys -> SUBSET Nat]
        BY <1>0, <2>1, <2>6 DEF TypeOK
      <3>4. QED
        BY <3>1, <3>2, <3>3
    <2>9. TypeOK'
      BY <1>0, <2>1, <2>7, <2>8 DEF TypeOK, table
    <2>10. QED
      BY <2>7, <2>9 DEF TypeInv
  <1>3. ASSUME NEW t \in Threads, ReadClarification(t) PROVE TypeInv'
    <2>1. \E step \in {"say", "failing", "idle"} :
            Goto(t, step) /\ (step = "failing" => Keyed(t))
      BY <1>3 DEF ReadClarification
    <2>2. /\ UNCHANGED <<row, assistant, delivered, request, held, table, ending, late, faults>>
          /\ raced' \subseteq Clarifications
      BY <1>0, <1>3, AboutAssumption DEF ReadClarification, TypeOK, Clar, Answers
    <2>3. Key(t) \in Ids
      BY <1>0 DEF TypeOK, Answers, Key
    <2>4. pc' \in [Threads -> Steps] /\ \A u \in Threads : pc'[u] \in KeyedSteps => Key(u)' \in Keys
      BY <2>1, <2>2, <2>3, GotoFacts DEF Steps, OwnerSteps, KeyedSteps, ReconcileSteps, Ids, Keyed
    <2>5. QED
      BY <1>0, <2>2, <2>4 DEF TypeInv, TypeOK, table
  <1>4. ASSUME NEW t \in Threads, AddAnswer(t) PROVE TypeInv'
    <2>1. \E step \in {"recover", "close"} : Goto(t, step)
      BY <1>4 DEF AddAnswer
    <2>2. Key(t) \in Ids /\ attempts[Key(t)] + 1 \in Nat
      BY <1>0 DEF TypeOK, Answers, Key
    <2>3. /\ UNCHANGED <<row, assistant, delivered, request, clarification, wrote, late, raced, faults>>
          /\ attempts' = [attempts EXCEPT ![Key(t)] = attempts[Key(t)] + 1]
          /\ held' = [held EXCEPT ![t] = attempts[Key(t)] + 1]
          /\ ending' = ending \/ ending' = [ending EXCEPT ![t] = "unresolved"]
      BY <1>4 DEF AddAnswer
    <2>4. /\ attempts' \in [Ids -> Nat] /\ held' \in [Threads -> Nat]
          /\ ending' \in [Threads -> Endings]
      BY <1>0, <2>2, <2>3 DEF TypeOK, Endings
    <2>5. pc' \in [Threads -> Steps] /\ \A u \in Threads : pc'[u] \in KeyedSteps => Key(u)' \in Keys
      BY <2>1, <2>3, GotoFacts DEF Steps, OwnerSteps, KeyedSteps, ReconcileSteps
    <2>6. QED
      BY <1>0, <2>3, <2>4, <2>5 DEF TypeInv, TypeOK
  <1>5. ASSUME NEW t \in Threads, Recover(t) PROVE TypeInv'
    <2>1. Goto(t, "engine")
          /\ UNCHANGED <<row, assistant, delivered, request, held, table, ending, late, raced, faults>>
      BY <1>5 DEF Recover
    <2>2. pc' \in [Threads -> Steps] /\ \A u \in Threads : pc'[u] \in KeyedSteps => Key(u)' \in Keys
      BY <2>1, GotoFacts DEF Steps, OwnerSteps, KeyedSteps, ReconcileSteps
    <2>3. QED
      BY <1>0, <2>1, <2>2 DEF TypeInv, TypeOK, table
  <1>6. ASSUME NEW t \in Threads, NEW how \in Endings \ {"none"}, RecoverReturns(t, how)
        PROVE  TypeInv'
    <2>1. /\ Goto(t, "close") /\ ending' = [ending EXCEPT ![t] = how]
          /\ \/ wrote' = wrote
             \/ wrote' = [wrote EXCEPT ![Clar(t)] = @ \cup {<<Key(t), held[t]>>}]
          /\ UNCHANGED <<row, assistant, delivered, request, held, clarification, attempts,
                         late, raced, faults>>
      BY <1>6 DEF RecoverReturns
    <2>2. <<Key(t), held[t]>> \in Ids \X Nat
      BY <1>0 DEF TypeOK, Answers, Key
    <2>3. wrote' \in [Clarifications -> SUBSET (Ids \X Nat)] /\ ending' \in [Threads -> Endings]
      BY <1>0, <2>1, <2>2 DEF TypeOK
    <2>4. pc' \in [Threads -> Steps] /\ \A u \in Threads : pc'[u] \in KeyedSteps => Key(u)' \in Keys
      BY <2>1, GotoFacts DEF Steps, OwnerSteps, KeyedSteps, ReconcileSteps
    <2>5. QED
      BY <1>0, <2>1, <2>3, <2>4 DEF TypeInv, TypeOK
  <1>7. ASSUME NEW t \in Threads, Close(t) PROVE TypeInv'
    <2>1. /\ \E s \in {"resolved", "answered"} : SetStatus(Clar(t), s)
          /\ \E step \in {"session", "complete", "assistant"} :
               Goto(t, step) /\ (step = "complete" => Keyed(t))
          /\ UNCHANGED <<row, assistant, delivered, request, held, wrote, attempts, ending,
                         late, raced, faults>>
      BY <1>7 DEF Close
    <2>2. clarification' \in [Clarifications ->
            [status : {"absent", "pending", "answered", "resolved"}, resumable : BOOLEAN]]
      <3>1. Clar(t) \in Clarifications
        BY <1>0, AboutAssumption DEF TypeOK, Answers, Clar
      <3>2. PICK s \in {"resolved", "answered"} :
              clarification' = [clarification EXCEPT ![Clar(t)].status = s]
        BY <2>1 DEF SetStatus
      <3>3. [clarification[Clar(t)] EXCEPT !.status = s]
              \in [status : {"absent", "pending", "answered", "resolved"}, resumable : BOOLEAN]
        BY <1>0, <3>1 DEF TypeOK
      <3>4. QED
        BY <1>0, <3>1, <3>2, <3>3 DEF TypeOK
    <2>3. Key(t) \in Ids
      BY <1>0 DEF TypeOK, Answers, Key
    <2>4. pc' \in [Threads -> Steps] /\ \A u \in Threads : pc'[u] \in KeyedSteps => Key(u)' \in Keys
      BY <2>1, <2>3, GotoFacts DEF Steps, OwnerSteps, KeyedSteps, ReconcileSteps, Ids, Keyed
    <2>5. QED
      BY <1>0, <2>1, <2>2, <2>4 DEF TypeInv, TypeOK
  <1>8. ASSUME NEW t \in Threads, SaveSession(t) PROVE TypeInv'
    <2>1. /\ \E step \in {"complete", "assistant"} :
               Goto(t, step) /\ (step = "complete" => Keyed(t))
          /\ UNCHANGED <<row, assistant, delivered, request, held, table, ending, late, raced, faults>>
      BY <1>8 DEF SaveSession
    <2>2. Key(t) \in Ids
      BY <1>0 DEF TypeOK, Answers, Key
    <2>3. pc' \in [Threads -> Steps] /\ \A u \in Threads : pc'[u] \in KeyedSteps => Key(u)' \in Keys
      BY <2>1, <2>2, GotoFacts DEF Steps, OwnerSteps, KeyedSteps, ReconcileSteps, Ids, Keyed
    <2>4. QED
      BY <1>0, <2>1, <2>3 DEF TypeInv, TypeOK, table
  <1>9. ASSUME NEW t \in Threads, Complete(t) \/ Fail(t) PROVE TypeInv'
    <2>1. Key(t) \in Keys
      BY <1>9 DEF TypeInv, KeyedSteps, Complete, Fail
    <2>2. row[Key(t)] \in Rows /\ request[t].fp \in Fingerprints /\ held[t] \in Nat
      BY <1>0, <2>1 DEF TypeOK, Answers
    <2>3. /\ \E r \in {CompletedRow(row[Key(t)], request[t].fp, held[t]), FailedRow(row[Key(t)])} :
               row' = [row EXCEPT ![Key(t)] = r]
          /\ \E step \in {"assistant", "idle"} : Goto(t, step)
          /\ UNCHANGED <<assistant, delivered, request, held, table, ending, late, raced, faults>>
      BY <1>9 DEF Complete, Fail, SetRow
    <2>4. row' \in [Keys -> Rows]
      <3>1. /\ CompletedRow(row[Key(t)], request[t].fp, held[t]) \in Rows
            /\ FailedRow(row[Key(t)]) \in Rows
        BY <2>2, RowFacts
      <3>2. QED
        BY <1>0, <2>1, <2>3, <3>1 DEF TypeOK
    <2>5. pc' \in [Threads -> Steps] /\ \A u \in Threads : pc'[u] \in KeyedSteps => Key(u)' \in Keys
      BY <2>3, GotoFacts DEF Steps, OwnerSteps, KeyedSteps, ReconcileSteps
    <2>6. QED
      BY <1>0, <2>3, <2>4, <2>5 DEF TypeInv, TypeOK, table
  <1>10. ASSUME NEW t \in Threads, PersistAssistant(t) PROVE TypeInv'
    <2>1. /\ Goto(t, "idle")
          /\ UNCHANGED <<row, request, held, table, ending, late, raced, faults>>
          /\ \/ UNCHANGED <<assistant, delivered>>
             \/ /\ assistant' = [assistant EXCEPT ![Key(t)] = @ \cup {held[t]}]
                /\ delivered' = [delivered EXCEPT ![Key(t)] = @ \cup {held[t]}]
      BY <1>10 DEF PersistAssistant, Deliver
    <2>2. assistant' \in [Keys -> SUBSET Nat] /\ delivered' \in [Keys -> SUBSET Nat]
      BY <1>0, <2>1 DEF TypeOK
    <2>3. pc' \in [Threads -> Steps] /\ \A u \in Threads : pc'[u] \in KeyedSteps => Key(u)' \in Keys
      BY <2>1, GotoFacts DEF Steps, KeyedSteps, ReconcileSteps
    <2>4. QED
      BY <1>0, <2>1, <2>2, <2>3 DEF TypeInv, TypeOK, table
  <1>11. ASSUME NEW t \in Threads, EngineRaises(t) \/ StoreRaises(t) PROVE TypeInv'
    <2>1. /\ \E step \in {"failing", "idle"} : Goto(t, step) /\ (step = "failing" => Keyed(t))
          /\ UNCHANGED <<row, assistant, delivered, request, held, table, ending, late, raced>>
      BY <1>11 DEF EngineRaises, StoreRaises, Raise, table
    <2>2. \E f \in Faults : faults' = [faults EXCEPT ![f] = @ + 1]
      BY <1>11 DEF EngineRaises, StoreRaises, Fault
    <2>3. faults' \in [Faults -> Nat]
      BY <1>0, <2>2 DEF TypeOK
    <2>4. Key(t) \in Ids
      BY <1>0 DEF TypeOK, Answers, Key
    <2>5. pc' \in [Threads -> Steps] /\ \A u \in Threads : pc'[u] \in KeyedSteps => Key(u)' \in Keys
      BY <2>1, <2>4, GotoFacts DEF Steps, OwnerSteps, KeyedSteps, ReconcileSteps, Ids, Keyed
    <2>6. QED
      BY <1>0, <2>1, <2>3, <2>5 DEF TypeInv, TypeOK, table
  <1>c. ASSUME NEW t \in Threads, DiscourseRaises(t) PROVE TypeInv'
    <2>1. /\ \E step \in {"failing", "idle"} : Goto(t, step) /\ (step = "failing" => Keyed(t))
          /\ UNCHANGED <<row, assistant, delivered, request, held, clarification, attempts,
                         ending, late, raced>>
          /\ wrote' = [wrote EXCEPT ![Clar(t)] = @ \cup {<<Key(t), held[t]>>}]
          /\ \E f \in Faults : faults' = [faults EXCEPT ![f] = @ + 1]
      BY <1>c DEF DiscourseRaises, Raise, Fault
    <2>2. faults' \in [Faults -> Nat]
      BY <1>0, <2>1 DEF TypeOK
    <2>3. Key(t) \in Ids /\ <<Key(t), held[t]>> \in Ids \X Nat
      BY <1>0 DEF TypeOK, Answers, Key
    <2>4. wrote' \in [Clarifications -> SUBSET (Ids \X Nat)]
      BY <1>0, <2>1, <2>3 DEF TypeOK
    <2>5. pc' \in [Threads -> Steps] /\ \A u \in Threads : pc'[u] \in KeyedSteps => Key(u)' \in Keys
      BY <2>1, <2>3, GotoFacts DEF Steps, OwnerSteps, KeyedSteps, ReconcileSteps, Ids, Keyed
    <2>6. TypeOK'
      <3>1. UNCHANGED <<row, assistant, delivered, request, held, clarification, attempts,
                        ending, late, raced>>
        BY <2>1
      <3>2. pc' \in [Threads -> Steps]
        BY <2>5
      <3>3. QED
        BY <1>0, <2>2, <2>4, <3>1, <3>2 DEF TypeOK
    <2>7. QED
      BY <2>5, <2>6 DEF TypeInv
  <1>12. CASE Crash
    <2>1. faults' \in [Faults -> Nat]
      BY <1>0, <1>12 DEF TypeOK, Crash, Fault
    <2>2. QED
      BY <1>0, <1>12, <2>1 DEF Crash, TypeInv, TypeOK, table, Steps, KeyedSteps, ReconcileSteps
  <1>13. ASSUME NEW c \in Clarifications, Ask(c) PROVE TypeInv'
    <2>1. clarification' \in [Clarifications ->
            [status : {"absent", "pending", "answered", "resolved"}, resumable : BOOLEAN]]
      BY <1>0, <1>13 DEF Ask, TypeOK, SetStatus
    <2>2. QED
      BY <1>0, <1>13, <2>1 DEF Ask, TypeInv, TypeOK, Key
  <1>14. ASSUME NEW k \in Keys, GrowStale(k) PROVE TypeInv'
    <2>1. row[k] \in Rows
      BY <1>0 DEF TypeOK
    <2>2. StaleRow(row[k]) \in Rows
      BY <2>1 DEF StaleRow, Rows
    <2>3. row' \in [Keys -> Rows]
      BY <1>0, <1>14, <2>2 DEF GrowStale, AgeRow, SetRow, TypeOK
    <2>4. QED
      BY <1>0, <1>14, <2>3 DEF GrowStale, AgeRow, TypeInv, TypeOK, table, Key
  <1>15. CASE UNCHANGED vars
    BY <1>0, <1>15 DEF vars, table, TypeInv, TypeOK, Key
  <1>16. QED
    BY <1>1, <1>2, <1>3, <1>4, <1>5, <1>6, <1>7, <1>8, <1>9, <1>10, <1>11, <1>c, <1>12, <1>13,
       <1>14, <1>15 DEF Next, Proceed

\* The tables and the threads stay within their types, and only requests with
\* a client_request_id are at a step that touches the idempotency table.
THEOREM TypeCorrect == Spec => []TypeInv
  BY InitTypeInv, NextTypeInv, PTL DEF Spec

-----------------------------------------------------------------------------
(* A late answer conflicts.                                                *)

LateSteps == Answering \cup {"session"}

\* A closed clarification stays closed, so that a request that found it closed
\* on arrival cannot read it as pending.
LateInv ==
  \A t \in Threads : late[t] => Closed(Clar(t)) /\ pc[t] \notin LateSteps

\* One thread moves, and to none of these steps if it is late.
LEMMA LateMoves ==
  ASSUME LateInv, request' = request, late' = late,
         \A c \in Clarifications : Closed(c) => Closed(c)',
         \A u \in Threads : Clar(u) \in Clarifications,
         NEW t \in Threads, \A u \in Threads \ {t} : pc'[u] = pc[u],
         late[t] => pc'[t] \notin LateSteps
  PROVE  LateInv'
  BY DEF LateInv, Clar

LEMMA NextLateInv == TypeInv /\ LateInv /\ [Next]_vars => LateInv'
  <1> SUFFICES ASSUME TypeInv, LateInv, [Next]_vars PROVE LateInv'
    OBVIOUS
  <1>0. TypeOK /\ \A u \in Threads : Clar(u) \in Clarifications
    BY AboutAssumption DEF TypeInv, TypeOK, Answers, Clar
  <1>a. ASSUME clarification' = clarification PROVE \A c \in Clarifications : Closed(c) => Closed(c)'
    BY <1>a DEF Closed
  <1>b. ASSUME NEW t \in Threads, NEW step, Goto(t, step)
        PROVE  pc'[t] = step /\ \A u \in Threads \ {t} : pc'[u] = pc[u]
    BY <1>0, <1>b DEF Goto, TypeOK
  <1>1. ASSUME NEW t \in Threads, NEW a \in Answers, Arrive(t, a) PROVE LateInv'
    <2>1. /\ request' = [request EXCEPT ![t] = a] /\ clarification' = clarification
          /\ late' = [late EXCEPT ![t] = Closed(About[a.fp])]
          /\ \E step \in {"start", "claim"} : Goto(t, step)
      BY <1>1 DEF Arrive, table
    <2>2. /\ late'[t] = Closed(About[a.fp]) /\ Clar(t)' = About[a.fp]
          /\ pc'[t] \in {"start", "claim"}
          /\ \A u \in Threads \ {t} : late'[u] = late[u] /\ Clar(u)' = Clar(u) /\ pc'[u] = pc[u]
      BY <1>0, <2>1, <1>b DEF TypeOK, Clar
    <2>3. \A c : Closed(c)' = Closed(c)
      BY <2>1 DEF Closed
    <2>4. QED
      BY <2>2, <2>3 DEF LateInv, LateSteps, Answering
  <1>2. ASSUME NEW t \in Threads, Recovery(t) PROVE LateInv'
    <2>1. request' = request /\ late' = late /\ clarification' = clarification
      BY <1>2, RecoveryFacts DEF table
    <2>2. \E step \in {"start", "idle", "evidence", "recomplete", "mark"} : Goto(t, step)
      BY <1>2 DEF Recovery, BeginOrReplay, SeekEvidence, CompleteFromEvidence, MarkRecoveryRequired
    <2>3. QED
      BY <1>0, <1>a, <1>b, <2>1, <2>2, LateMoves DEF LateSteps, Answering
  <1>3. ASSUME NEW t \in Threads, ReadClarification(t) PROVE LateInv'
    <2>1. /\ request' = request /\ late' = late /\ clarification' = clarification
          /\ \E step \in {"say", "failing", "idle"} :
               Goto(t, step) /\ (step = "say" => clarification[Clar(t)].status = "pending")
      BY <1>3 DEF ReadClarification, table
    <2>2. late[t] => clarification[Clar(t)].status # "pending"
      BY DEF LateInv, Closed
    <2>3. QED
      BY <1>0, <1>a, <1>b, <2>1, <2>2, LateMoves DEF LateSteps, Answering
  <1>4. ASSUME NEW t \in Threads,
               \/ AddAnswer(t) \/ Recover(t) \/ SaveSession(t)
               \/ \E how \in Endings \ {"none"} : RecoverReturns(t, how)
        PROVE  LateInv'
    <2>1. /\ request' = request /\ late' = late /\ clarification' = clarification
          /\ pc[t] \in {"say", "recover", "session", "engine"} /\ \E step : Goto(t, step)
      BY <1>4 DEF AddAnswer, Recover, SaveSession, RecoverReturns, table
    <2>2. ~ late[t]
      BY <2>1 DEF LateInv, LateSteps, Answering
    <2>3. QED
      BY <1>0, <1>a, <1>b, <2>1, <2>2, LateMoves
  <1>5. ASSUME NEW t \in Threads, Close(t) PROVE LateInv'
    <2>1. /\ request' = request /\ late' = late /\ pc[t] = "close"
          /\ \E step : Goto(t, step)
          /\ \E s \in {"resolved", "answered"} : SetStatus(Clar(t), s)
      BY <1>5 DEF Close
    <2>2. ~ late[t]
      BY <2>1 DEF LateInv, LateSteps, Answering
    <2>3. \A c \in Clarifications : Closed(c) => Closed(c)'
      <3>1. PICK s \in {"resolved", "answered"} :
              clarification' = [clarification EXCEPT ![Clar(t)].status = s]
        BY <2>1 DEF SetStatus
      <3>2. \A c \in Clarifications :
              clarification'[c].status \in {clarification[c].status, s}
        BY <1>0, <3>1 DEF TypeOK
      <3>3. QED
        BY <3>2 DEF Closed
    <2>4. QED
      BY <1>0, <1>b, <2>1, <2>2, <2>3, LateMoves
  <1>6. ASSUME NEW t \in Threads,
               \/ Complete(t) \/ PersistAssistant(t) \/ Fail(t)
               \/ EngineRaises(t) \/ DiscourseRaises(t) \/ StoreRaises(t)
        PROVE  LateInv'
    <2>1. /\ request' = request /\ late' = late /\ clarification' = clarification
          /\ \E step \in {"assistant", "idle", "failing"} : Goto(t, step)
      BY <1>6 DEF Complete, PersistAssistant, Fail, EngineRaises, DiscourseRaises,
                  StoreRaises, Raise, table
    <2>2. QED
      BY <1>0, <1>a, <1>b, <2>1, LateMoves DEF LateSteps, Answering
  <1>7. CASE Crash
    BY <1>7 DEF Crash, LateInv, LateSteps, Answering, Clar, Closed, table
  <1>8. ASSUME NEW c \in Clarifications, Ask(c) PROVE LateInv'
    <2>1. \A d \in Clarifications : Closed(d) => Closed(d)'
      BY <1>0, <1>8 DEF Ask, SetStatus, Closed, TypeOK
    <2>2. request' = request /\ late' = late /\ pc' = pc
      BY <1>8 DEF Ask
    <2>3. QED
      BY <1>0, <2>1, <2>2 DEF LateInv, Clar
  <1>9. ASSUME NEW k \in Keys, GrowStale(k) PROVE LateInv'
    BY <1>9 DEF GrowStale, AgeRow, table, LateInv, Clar, Closed
  <1>10. CASE UNCHANGED vars
    BY <1>10 DEF vars, table, LateInv, Clar, Closed
  <1>11. QED
    BY <1>1, <1>2, <1>3, <1>4, <1>5, <1>6, <1>7, <1>8, <1>9, <1>10 DEF Next, Proceed

\* However answers race, fail and are retried, a request that arrived after its
\* clarification was closed never reaches recover().
THEOREM LateConflict == Spec => []LateAnswersConflict
  <1>1. Init => LateInv
    BY DEF Init, LateInv
  <1>2. LateInv => LateAnswersConflict
    BY DEF LateInv, LateAnswersConflict, LateSteps, Answering
  <1>3. QED
    BY <1>1, <1>2, TypeCorrect, NextLateInv, PTL DEF Spec

-----------------------------------------------------------------------------
(* The rows, their owners and what threads hold.                           *)

\* The thread executes its key: nobody else may claim it.
Owner(t) == Keyed(t) /\ pc[t] \in OwnerSteps

\* What a thread is about to complete, to write or to deliver.
HeldFits(t) ==
  /\ pc[t] \in {"recover", "engine", "close", "session", "complete"} => held[t] # NoResult
  /\ Keyed(t) /\ pc[t] \in {"assistant", "recomplete"} =>
       held[t] # NoResult /\ held[t] = row[Key(t)].result
  /\ Keyed(t) /\ pc[t] = "evidence" => held[t] \in {NoResult, row[Key(t)].result}

UnsettledHasNoResult ==
  \A k \in Keys :
    row[k].status \in {"absent", "failed", "in_progress"} => row[k].result = NoResult

OwnerHoldsRow ==
  \A t \in Threads : Owner(t) =>
    row[Key(t)].status \in {"in_progress", "recovery_required"} /\ row[Key(t)].result = NoResult

SingleOwner ==
  \A t, u \in Threads : Owner(t) /\ Owner(u) /\ Key(t) = Key(u) => t = u

RowsMatch == \A k \in Keys : assistant[k] \subseteq {row[k].result} \ {NoResult}

RowsInv ==
  /\ UnsettledHasNoResult /\ OwnerHoldsRow /\ SingleOwner /\ RowsMatch
  /\ \A t \in Threads : HeldFits(t)

LEMMA InitRowsInv == Init => RowsInv
  BY DEF Init, RowsInv, UnsettledHasNoResult, OwnerHoldsRow, SingleOwner, RowsMatch, HeldFits,
         Owner, OwnerSteps, AbsentRow

\* The keys of keyed threads are keys.
LEMMA KeyFacts ==
  ASSUME TypeInv, NEW t \in Threads
  PROVE  /\ Key(t) \in Ids /\ (Keyed(t) <=> Key(t) \in Keys)
         /\ pc[t] \in KeyedSteps => Keyed(t)
  BY NoKeyAssumption DEF TypeInv, TypeOK, Answers, Ids, Keyed, Key

\* The rows stay as they are and nobody becomes an owner.
LEMMA QuietRows ==
  ASSUME TypeInv, RowsInv, row' = row, assistant' = assistant,
         \A u \in Threads : Owner(u)' => Owner(u) /\ Key(u)' = Key(u),
         \A u \in Threads : HeldFits(u)'
  PROVE  RowsInv'
  BY DEF RowsInv, UnsettledHasNoResult, OwnerHoldsRow, SingleOwner, RowsMatch

\* One thread moves between steps that hold the same, and stays or ceases to
\* be an owner.
LEMMA QuietMove ==
  ASSUME TypeInv, RowsInv, row' = row, assistant' = assistant, request' = request,
         NEW t \in Threads, HeldFits(t)', Owner(t)' => Owner(t),
         \A u \in Threads \ {t} : pc'[u] = pc[u] /\ held'[u] = held[u]
  PROVE  RowsInv'
  <1>1. \A u \in Threads \ {t} : HeldFits(u)'
    BY DEF RowsInv, HeldFits, Key, Keyed
  <1>2. \A u \in Threads \ {t} : Owner(u)' => Owner(u)
    BY DEF Owner, Key, Keyed
  <1>3. QED
    BY <1>1, <1>2, QuietRows DEF Key

\* A row changes and keeps its response, and the thread that wrote it is done.
LEMMA SameResponse ==
  ASSUME TypeInv, RowsInv, NEW k \in Keys, NEW r \in Rows,
         row' = [row EXCEPT ![k] = r], r.result = row[k].result,
         r.status \in {"absent", "failed", "in_progress"} => r.result = NoResult,
         assistant' = assistant, request' = request, held' = held,
         \A u \in Threads : pc'[u] \in {pc[u], "idle"},
         \A u \in Threads : Owner(u)' /\ Key(u) = k => r.status \in {"in_progress", "recovery_required"}
  PROVE  RowsInv'
  <1>1. /\ row'[k] = r /\ \A j \in Keys \ {k} : row'[j] = row[j]
        /\ \A j \in Keys : row'[j].result = row[j].result
    BY DEF TypeInv, TypeOK
  <1>2. \A u \in Threads : /\ Keyed(u)' = Keyed(u) /\ Key(u)' = Key(u)
                           /\ Owner(u)' => Owner(u) /\ Key(u) \in Keys
    BY KeyFacts DEF Owner, Keyed, Key, OwnerSteps
  <1>3. \A u \in Threads : HeldFits(u)'
    BY <1>1, <1>2, KeyFacts DEF RowsInv, HeldFits
  <1>4. OwnerHoldsRow'
    BY <1>1, <1>2 DEF RowsInv, OwnerHoldsRow
  <1>5. SingleOwner' /\ RowsMatch' /\ UnsettledHasNoResult'
    BY <1>1, <1>2 DEF RowsInv, SingleOwner, RowsMatch, UnsettledHasNoResult
  <1>6. QED
    BY <1>3, <1>4, <1>5 DEF RowsInv

\* A row without an owner, or that of the thread, is completed with what the
\* thread holds.
LEMMA Completes ==
  ASSUME TypeInv, RowsInv, NEW t \in Threads, Key(t) \in Keys, NEW r \in Rows,
         row' = [row EXCEPT ![Key(t)] = r], r.result = held[t], r.status = "completed",
         held[t] # NoResult, row[Key(t)].result \in {NoResult, held[t]},
         \A u \in Threads : Owner(u) /\ Key(u) = Key(t) => u = t,
         assistant' = assistant, request' = request, held' = held,
         \A u \in Threads \ {t} : pc'[u] = pc[u],
         pc'[t] \in {"assistant", "idle"}
  PROVE  RowsInv'
  <1>1. /\ row'[Key(t)] = r /\ \A j \in Keys \ {Key(t)} : row'[j] = row[j]
    BY DEF TypeInv, TypeOK
  <1>2. \A u \in Threads : Keyed(u)' = Keyed(u) /\ Key(u)' = Key(u)
    BY DEF Keyed, Key
  <1>3. \A u \in Threads : Owner(u)' => Owner(u) /\ Key(u) \in Keys /\ u # t /\ Key(u) # Key(t)
    BY <1>2, KeyFacts DEF Owner, OwnerSteps
  <1>4. ASSUME NEW u \in Threads PROVE HeldFits(u)'
    <2>1. CASE u = t
      BY <1>1, <1>2, <2>1 DEF HeldFits
    <2>2. CASE u # t /\ Key(u) = Key(t)
      <3>1. row'[Key(u)].result = held[t] /\ Keyed(u)
        BY <1>1, <2>2, KeyFacts
      <3>2. pc[u] \notin {"recover", "engine", "close", "session", "complete"}
        BY <2>2, <3>1 DEF Owner, OwnerSteps
      <3>3. QED
        BY <1>1, <1>2, <2>2, <3>1, <3>2 DEF RowsInv, HeldFits
    <2>3. CASE u # t /\ Key(u) # Key(t)
      BY <1>1, <1>2, <2>3, KeyFacts DEF RowsInv, HeldFits
    <2>4. QED
      BY <2>1, <2>2, <2>3
  <1>5. OwnerHoldsRow'
    BY <1>1, <1>2, <1>3 DEF RowsInv, OwnerHoldsRow
  <1>6. SingleOwner' /\ UnsettledHasNoResult'
    BY <1>1, <1>2, <1>3 DEF RowsInv, SingleOwner, UnsettledHasNoResult
  <1>7. RowsMatch'
    BY <1>1 DEF RowsInv, RowsMatch
  <1>8. QED
    BY <1>4, <1>5, <1>6, <1>7 DEF RowsInv

LEMMA NextRowsInv == TypeInv /\ RowsInv /\ [Next]_vars => RowsInv'
  <1> SUFFICES ASSUME TypeInv, RowsInv, [Next]_vars PROVE RowsInv'
    OBVIOUS
  <1>a. TypeOK
    BY DEF TypeInv
  <1>b. ASSUME NEW t \in Threads, NEW step, Goto(t, step)
        PROVE  pc'[t] = step /\ \A u \in Threads \ {t} : pc'[u] = pc[u]
    BY <1>a, <1>b DEF Goto, TypeOK
  <1>1. ASSUME NEW t \in Threads, NEW a \in Answers, Arrive(t, a) PROVE RowsInv'
    <2>1. /\ row' = row /\ assistant' = assistant
          /\ request' = [request EXCEPT ![t] = a] /\ held' = [held EXCEPT ![t] = NoResult]
          /\ IF a.key = NoKey THEN Goto(t, "start") ELSE Goto(t, "claim")
      BY <1>1 DEF Arrive
    <2>2. /\ Key(t)' = a.key /\ pc'[t] = (IF a.key = NoKey THEN "start" ELSE "claim")
          /\ \A u \in Threads \ {t} : pc'[u] = pc[u] /\ Key(u)' = Key(u) /\ held'[u] = held[u]
      BY <1>a, <1>b, <2>1 DEF TypeOK, Key
    <2>3. ~ Owner(t)' /\ \A u \in Threads \ {t} : Owner(u)' => Owner(u)
      BY <2>2 DEF Owner, Keyed, OwnerSteps
    <2>4. HeldFits(t)'
      BY <2>2 DEF HeldFits
    <2>5. \A u \in Threads \ {t} : HeldFits(u)'
      BY <2>1, <2>2 DEF RowsInv, HeldFits, Keyed
    <2>6. QED
      BY <2>1, <2>2, <2>3, <2>4, <2>5, QuietRows
  <1>2. ASSUME NEW t \in Threads, Recovery(t) PROVE RowsInv'
    <2> DEFINE k == Key(t)
               answer == ClaimResult(row[k], request[t].fp)
    <2>1. /\ k \in Keys /\ row[k] \in Rows /\ request[t].fp \in Fingerprints
          /\ held[t] \in Nat /\ assistant' = assistant /\ request' = request /\ Keyed(t)
      BY <1>2, RecoveryFacts, KeyFacts
    <2>2. ClaimedRow(row[k], request[t].fp) \in Rows
      BY <2>1, ClaimFacts
    <2>3. /\ answer = "proceed" => row[k].status \in {"absent", "failed"}
          /\ answer = "replay" => row[k].result # NoResult
          /\ answer = "in_progress" => row[k].status = "in_progress"
      BY <2>1, ClaimFacts
    <2>4. CASE BeginOrReplay(t) /\ answer = "proceed"
      <3>1. /\ row' = [row EXCEPT ![k] = [status |-> "in_progress", fp |-> request[t].fp,
                                          result |-> NoResult, stale |-> FALSE]]
            /\ pc' = [pc EXCEPT ![t] = "start"] /\ held' = held
        BY <2>4 DEF BeginOrReplay, ClaimedRow, SetRow, Goto
      <3>2. row[k].result = NoResult /\ \A u \in Threads : Owner(u) => Key(u) # k
        BY <2>1, <2>3, <2>4 DEF RowsInv, UnsettledHasNoResult, OwnerHoldsRow
      <3>3. /\ row'[k].status = "in_progress" /\ row'[k].result = NoResult
            /\ \A j \in Keys \ {k} : row'[j] = row[j]
            /\ \A j \in Keys : row'[j].result = row[j].result
        BY <1>a, <2>1, <3>1, <3>2 DEF TypeOK
      <3>4. /\ pc'[t] = "start" /\ \A u \in Threads \ {t} : pc'[u] = pc[u]
            /\ \A u \in Threads : Keyed(u)' = Keyed(u) /\ Key(u)' = Key(u)
        BY <1>a, <2>1, <3>1 DEF TypeOK, Keyed, Key
      <3>5. \A u \in Threads \ {t} : Owner(u)' => Owner(u) /\ Key(u) \in Keys /\ Key(u) # k
        BY <3>2, <3>4, KeyFacts DEF Owner
      <3>6. \A u \in Threads : HeldFits(u)'
        BY <2>1, <3>1, <3>3, <3>4, KeyFacts DEF RowsInv, HeldFits
      <3>7. OwnerHoldsRow' /\ SingleOwner'
        BY <3>3, <3>4, <3>5 DEF RowsInv, OwnerHoldsRow, SingleOwner
      <3>8. RowsMatch' /\ UnsettledHasNoResult'
        BY <2>1, <3>3 DEF RowsInv, RowsMatch, UnsettledHasNoResult
      <3>9. QED
        BY <3>6, <3>7, <3>8 DEF RowsInv
    <2>5. CASE BeginOrReplay(t) /\ answer # "proceed"
      <3>1. row' = row
        BY <1>a, <2>5 DEF BeginOrReplay, ClaimedRow, SetRow, TypeOK
      <3>2. \/ Goto(t, "idle") /\ held' = held
            \/ Goto(t, "evidence") /\ held' = [held EXCEPT ![t] = row[k].result]
        BY <2>5 DEF BeginOrReplay
      <3>3. \A u \in Threads \ {t} : pc'[u] = pc[u] /\ held'[u] = held[u]
        BY <1>a, <1>b, <3>2 DEF TypeOK
      <3>4. ~ Owner(t)' /\ HeldFits(t)'
        BY <1>a, <1>b, <2>1, <3>1, <3>2 DEF Owner, OwnerSteps, HeldFits, TypeOK, Key
      <3>5. QED
        BY <2>1, <3>1, <3>3, <3>4, QuietMove
    <2>6. CASE SeekEvidence(t)
      <3>1. /\ row' = row /\ pc[t] = "evidence"
            /\ \/ \E n \in Evidence(t) : held' = [held EXCEPT ![t] = n] /\ Goto(t, "recomplete")
               \/ held' = held /\ Goto(t, "mark")
        BY <2>6 DEF SeekEvidence
      <3>2. Evidence(t) \subseteq {row[k].result} \ {NoResult}
        BY <2>1, <3>1 DEF Evidence, RowsInv, HeldFits, RowsMatch
      <3>3. \A u \in Threads \ {t} : pc'[u] = pc[u] /\ held'[u] = held[u]
        BY <1>a, <1>b, <3>1 DEF TypeOK
      <3>4. ~ Owner(t)' /\ HeldFits(t)'
        BY <1>a, <1>b, <2>1, <3>1, <3>2 DEF Owner, OwnerSteps, HeldFits, TypeOK, Key
      <3>5. QED
        BY <2>1, <3>1, <3>3, <3>4, QuietMove
    <2>7. CASE CompleteFromEvidence(t)
      <3>1. /\ row' = [row EXCEPT ![k] = CompletedRow(row[k], request[t].fp, held[t])]
            /\ pc[t] = "recomplete" /\ Goto(t, "idle") /\ held' = held
        BY <2>7 DEF CompleteFromEvidence, SetRow
      <3>2. held[t] # NoResult /\ held[t] = row[k].result
        BY <2>1, <3>1 DEF RowsInv, HeldFits
      <3>3. \A u \in Threads : Owner(u) => Key(u) # k
        BY <3>2 DEF RowsInv, OwnerHoldsRow
      <3>4. /\ CompletedRow(row[k], request[t].fp, held[t]) \in Rows
            /\ CompletedRow(row[k], request[t].fp, held[t]).status = "completed"
            /\ CompletedRow(row[k], request[t].fp, held[t]).result = held[t]
        BY <2>1, RowFacts
      <3>5. QED
        BY <1>b, <2>1, <3>1, <3>2, <3>3, <3>4, Completes
    <2>8. CASE MarkRecoveryRequired(t)
      <3>1. /\ row' = [row EXCEPT ![k] = RecoveryRow(row[k])] /\ Goto(t, "idle") /\ held' = held
        BY <2>8 DEF MarkRecoveryRequired, SetRow
      <3>2. /\ RecoveryRow(row[k]) \in Rows /\ RecoveryRow(row[k]).result = row[k].result
            /\ RecoveryRow(row[k]).status =
                 (IF row[k].status = "absent" THEN "absent" ELSE "recovery_required")
        BY <2>1, RowFacts
      <3>3. row[k].status = "absent" =>
              row[k].result = NoResult /\ \A u \in Threads : Owner(u) => Key(u) # k
        BY <2>1 DEF RowsInv, UnsettledHasNoResult, OwnerHoldsRow
      <3>4. \A u \in Threads : pc'[u] \in {pc[u], "idle"}
        BY <1>b, <3>1
      <3>5. \A u \in Threads : Owner(u)' => Owner(u)
        BY <2>1, <3>4 DEF Owner, OwnerSteps, Keyed, Key
      <3>6. QED
        BY <2>1, <3>1, <3>2, <3>3, <3>4, <3>5, SameResponse
    <2>9. QED
      BY <1>2, <2>4, <2>5, <2>6, <2>7, <2>8 DEF Recovery
  <1>3. ASSUME NEW t \in Threads,
               \/ ReadClarification(t) \/ Recover(t) \/ SaveSession(t) \/ Close(t)
               \/ \E how \in Endings \ {"none"} : RecoverReturns(t, how)
               \/ EngineRaises(t) \/ DiscourseRaises(t)
        PROVE  RowsInv'
    <2>1. /\ row' = row /\ assistant' = assistant /\ request' = request /\ held' = held
          /\ \/ pc[t] = "start" /\ \E step \in {"say", "failing", "idle"} : Goto(t, step)
             \/ pc[t] = "recover" /\ Goto(t, "engine")
             \/ pc[t] = "engine" /\ \E step \in {"close", "failing", "idle"} : Goto(t, step)
             \/ pc[t] = "close" /\ Goto(t, "session")
             \/ /\ pc[t] \in {"close", "session"}
                /\ \/ Keyed(t) /\ Goto(t, "complete")
                   \/ ~ Keyed(t) /\ Goto(t, "assistant")
      BY <1>3 DEF ReadClarification, Recover, SaveSession, Close, RecoverReturns, EngineRaises,
                  DiscourseRaises, Raise
    <2>2. Owner(t)' => Owner(t)
      BY <1>b, <2>1 DEF Owner, OwnerSteps, Keyed, Key
    <2>3. HeldFits(t)'
      BY <1>b, <2>1 DEF RowsInv, HeldFits, Keyed, Key
    <2>4. QED
      BY <1>b, <2>1, <2>2, <2>3, QuietMove
  <1>4. ASSUME NEW t \in Threads, AddAnswer(t) PROVE RowsInv'
    <2>1. /\ row' = row /\ assistant' = assistant /\ request' = request
          /\ held' = [held EXCEPT ![t] = attempts[Key(t)] + 1]
          /\ pc[t] = "say" /\ \E step \in {"recover", "close"} : Goto(t, step)
      BY <1>4 DEF AddAnswer
    <2>2. attempts[Key(t)] \in Nat
      BY <1>a, KeyFacts DEF TypeOK
    <2>3. held'[t] # NoResult /\ \A u \in Threads \ {t} : held'[u] = held[u]
      BY <1>a, <2>1, <2>2 DEF TypeOK, NoResult
    <2>4. (Owner(t)' => Owner(t)) /\ HeldFits(t)'
      BY <1>b, <2>1, <2>3 DEF Owner, OwnerSteps, Keyed, Key, HeldFits
    <2>5. QED
      BY <1>b, <2>1, <2>3, <2>4, QuietMove
  <1>5. ASSUME NEW t \in Threads, Complete(t) PROVE RowsInv'
    <2>1. /\ row' = [row EXCEPT ![Key(t)] = CompletedRow(row[Key(t)], request[t].fp, held[t])]
          /\ assistant' = assistant /\ request' = request /\ held' = held
          /\ pc[t] = "complete" /\ Goto(t, "assistant")
      BY <1>5 DEF Complete, SetRow
    <2>2. Keyed(t) /\ Key(t) \in Keys /\ Owner(t) /\ held[t] # NoResult
      BY <2>1, KeyFacts DEF KeyedSteps, Owner, OwnerSteps, RowsInv, HeldFits
    <2>3. /\ row[Key(t)].result = NoResult
          /\ \A u \in Threads : Owner(u) /\ Key(u) = Key(t) => u = t
      BY <2>2 DEF RowsInv, OwnerHoldsRow, SingleOwner
    <2>4. row[Key(t)] \in Rows /\ request[t].fp \in Fingerprints /\ held[t] \in Nat
      BY <1>a, <2>2 DEF TypeOK, Answers
    <2>5. /\ CompletedRow(row[Key(t)], request[t].fp, held[t]) \in Rows
          /\ CompletedRow(row[Key(t)], request[t].fp, held[t]).status = "completed"
          /\ CompletedRow(row[Key(t)], request[t].fp, held[t]).result = held[t]
      BY <2>4, RowFacts
    <2>6. pc'[t] = "assistant" /\ \A u \in Threads \ {t} : pc'[u] = pc[u]
      BY <1>b, <2>1
    <2> DEFINE r == CompletedRow(row[Key(t)], request[t].fp, held[t])
    <2>7. r \in Rows /\ r.status = "completed" /\ r.result = held[t]
      BY <2>5
    <2>8. row' = [row EXCEPT ![Key(t)] = r]
      BY <2>1
    <2> HIDE DEF r
    <2>9. QED
      BY <2>1, <2>2, <2>3, <2>6, <2>7, <2>8, Completes
  <1>6. ASSUME NEW t \in Threads, PersistAssistant(t) PROVE RowsInv'
    <2>1. /\ row' = row /\ request' = request /\ held' = held
          /\ pc[t] = "assistant" /\ Goto(t, "idle")
          /\ \/ assistant' = assistant
             \/ Keyed(t) /\ assistant' = [assistant EXCEPT ![Key(t)] = @ \cup {held[t]}]
      BY <1>6 DEF PersistAssistant
    <2>2. \A u \in Threads : pc'[u] \in {pc[u], "idle"}
      BY <1>b, <2>1
    <2>3. \A u \in Threads : HeldFits(u)' /\ (Owner(u)' => Owner(u)) /\ Key(u)' = Key(u)
      BY <2>1, <2>2 DEF RowsInv, HeldFits, Owner, OwnerSteps, Keyed, Key
    <2>4. RowsMatch'
      <3>1. Keyed(t) => Key(t) \in Keys /\ held[t] # NoResult /\ held[t] = row[Key(t)].result
        BY <2>1, KeyFacts DEF RowsInv, HeldFits
      <3>2. \A k \in Keys : assistant'[k] \subseteq assistant[k] \cup ({row[k].result} \ {NoResult})
        BY <1>a, <2>1, <3>1 DEF TypeOK
      <3>3. QED
        BY <2>1, <3>2 DEF RowsInv, RowsMatch
    <2>5. OwnerHoldsRow' /\ SingleOwner' /\ UnsettledHasNoResult'
      BY <2>1, <2>3 DEF RowsInv, OwnerHoldsRow, SingleOwner, UnsettledHasNoResult
    <2>6. QED
      BY <2>3, <2>4, <2>5 DEF RowsInv
  <1>7. ASSUME NEW t \in Threads, Fail(t) PROVE RowsInv'
    <2>1. /\ row' = [row EXCEPT ![Key(t)] = FailedRow(row[Key(t)])]
          /\ assistant' = assistant /\ request' = request /\ held' = held
          /\ pc[t] = "failing" /\ Goto(t, "idle")
      BY <1>7 DEF Fail, SetRow
    <2>2. Keyed(t) /\ Key(t) \in Keys /\ Owner(t)
      BY <2>1, KeyFacts DEF KeyedSteps, Owner, OwnerSteps
    <2>3. /\ row[Key(t)].result = NoResult
          /\ \A u \in Threads : Owner(u) /\ Key(u) = Key(t) => u = t
      BY <2>2 DEF RowsInv, OwnerHoldsRow, SingleOwner
    <2>4. row[Key(t)] \in Rows /\ request[t].fp \in Fingerprints /\ held[t] \in Nat
      BY <1>a, <2>2 DEF TypeOK, Answers
    <2>5. FailedRow(row[Key(t)]) \in Rows /\ FailedRow(row[Key(t)]).result = row[Key(t)].result
      BY <2>4, RowFacts
    <2>6. (\A u \in Threads : pc'[u] \in {pc[u], "idle"}) /\ pc'[t] = "idle"
      BY <1>b, <2>1
    <2>7. \A u \in Threads : Owner(u)' => Owner(u) /\ u # t
      BY <2>1, <2>6 DEF Owner, OwnerSteps, Keyed, Key
    <2>8. QED
      BY <2>1, <2>2, <2>3, <2>5, <2>6, <2>7, SameResponse
  <1>8. ASSUME NEW t \in Threads, StoreRaises(t) PROVE RowsInv'
    <2>1. /\ row' = row /\ assistant' = assistant /\ request' = request /\ held' = held
          /\ \/ pc[t] \in OwnerSteps /\ Goto(t, "failing")
             \/ Goto(t, "idle")
      BY <1>8 DEF StoreRaises, Raise, OwnerSteps
    <2>2. (Owner(t)' => Owner(t)) /\ HeldFits(t)'
      BY <1>b, <2>1 DEF Owner, OwnerSteps, Keyed, Key, HeldFits
    <2>3. QED
      BY <1>b, <2>1, <2>2, QuietMove
  <1>9. CASE Crash
    <2>1. /\ row' = row /\ assistant' = assistant /\ request' = request /\ held' = held
          /\ \A u \in Threads : pc'[u] = "idle"
      BY <1>9 DEF Crash
    <2>2. \A u \in Threads : ~ Owner(u)' /\ HeldFits(u)'
      BY <2>1 DEF Owner, OwnerSteps, HeldFits
    <2>3. QED
      BY <2>1, <2>2, QuietRows
  <1>10. ASSUME NEW k \in Keys, GrowStale(k) PROVE RowsInv'
    <2>1. /\ row' = [row EXCEPT ![k] = StaleRow(row[k])] /\ row[k].status = "in_progress"
          /\ assistant' = assistant /\ request' = request /\ held' = held /\ pc' = pc
      BY <1>10 DEF GrowStale, AgeRow, SetRow
    <2>2. row[k] \in Rows
      BY <1>a DEF TypeOK
    <2>3. /\ StaleRow(row[k]) \in Rows /\ StaleRow(row[k]).result = row[k].result
          /\ StaleRow(row[k]).status = "in_progress"
      BY <2>1, <2>2 DEF StaleRow, Rows
    <2>4. row[k].result = NoResult
      BY <2>1 DEF RowsInv, UnsettledHasNoResult
    <2>5. QED
      BY <2>1, <2>3, <2>4, SameResponse
  <1>11. CASE (\E c \in Clarifications : Ask(c)) \/ UNCHANGED vars
    <2>1. row' = row /\ assistant' = assistant /\ request' = request /\ held' = held /\ pc' = pc
      BY <1>11 DEF Ask, vars
    <2>2. \A u \in Threads : Owner(u)' = Owner(u) /\ HeldFits(u)' /\ Key(u)' = Key(u)
      BY <2>1 DEF Owner, Keyed, Key, HeldFits, RowsInv
    <2>3. QED
      BY <2>1, <2>2, QuietRows
  <1>12. QED
    BY <1>1, <1>2, <1>3, <1>4, <1>5, <1>6, <1>7, <1>8, <1>9, <1>10, <1>11 DEF Next, Proceed

LEMMA AlwaysRowsInv == Spec => [](TypeInv /\ RowsInv)
  BY InitTypeInv, NextTypeInv, InitRowsInv, NextRowsInv, PTL DEF Spec

-----------------------------------------------------------------------------
(* Refinement of the register of results.                                  *)

results == [k \in Keys |-> row[k].result]

LEMMA SameResult ==
  ASSUME NEW k \in Keys, NEW r, row \in [Keys -> Rows],
         row' = [row EXCEPT ![k] = r], r.result = row[k].result
  PROVE  results' = results
  BY DEF results

LEMMA Delivers ==
  ASSUME NEW k \in Keys, row[k].result # NoResult, results' = results,
         delivered' = [delivered EXCEPT ![k] = @ \cup {row[k].result}]
  PROVE  Register!Next
  <1>1. results[k] = row[k].result
    BY DEF results
  <1>2. Register!Deliver(k)
    BY <1>1 DEF Register!Deliver, results
  <1>3. QED
    BY <1>2 DEF Register!Next

LEMMA StepRefines == TypeInv /\ RowsInv /\ [Next]_vars => [Register!Next]_<<results, delivered>>
  <1> SUFFICES ASSUME TypeInv, RowsInv, [Next]_vars PROVE [Register!Next]_<<results, delivered>>
    OBVIOUS
  <1>a. TypeOK /\ row \in [Keys -> Rows]
    BY DEF TypeInv, TypeOK
  <1>1. ASSUME NEW t \in Threads, Recovery(t) PROVE [Register!Next]_<<results, delivered>>
    <2> DEFINE k == Key(t)
    <2>1. /\ k \in Keys /\ row[k] \in Rows /\ request[t].fp \in Fingerprints
          /\ held[t] \in Nat /\ Keyed(t)
      BY <1>1, RecoveryFacts, KeyFacts
    <2>2. CASE BeginOrReplay(t)
      <3>1. ClaimedRow(row[k], request[t].fp).result = row[k].result
        <4>1. CASE ClaimResult(row[k], request[t].fp) = "proceed"
          <5>1. row[k].result = NoResult
            BY <2>1, <4>1, ClaimFacts DEF RowsInv, UnsettledHasNoResult
          <5>2. QED
            BY <4>1, <5>1 DEF ClaimedRow
        <4>2. CASE ClaimResult(row[k], request[t].fp) # "proceed"
          BY <4>2 DEF ClaimedRow
        <4>3. QED
          BY <4>1, <4>2
      <3>2. results' = results
        BY <1>a, <2>1, <2>2, <3>1, SameResult DEF BeginOrReplay, SetRow
      <3>3. \/ delivered' = delivered
            \/ /\ ClaimResult(row[k], request[t].fp) = "replay"
               /\ delivered' = [delivered EXCEPT ![k] = @ \cup {row[k].result}]
        BY <2>2 DEF BeginOrReplay, Deliver
      <3>4. QED
        BY <2>1, <3>2, <3>3, ClaimFacts, Delivers
    <2>3. CASE SeekEvidence(t)
      BY <2>3 DEF SeekEvidence, results
    <2>4. CASE CompleteFromEvidence(t)
      <3>1. held[t] # NoResult /\ held[t] = row[k].result
        BY <2>1, <2>4 DEF CompleteFromEvidence, RowsInv, HeldFits
      <3>2. CompletedRow(row[k], request[t].fp, held[t]).result = row[k].result
        BY <2>1, <3>1, RowFacts
      <3>3. results' = results
        BY <1>a, <2>1, <2>4, <3>2, SameResult DEF CompleteFromEvidence, SetRow
      <3>4. delivered' = [delivered EXCEPT ![k] = @ \cup {row[k].result}]
        BY <2>4, <3>1 DEF CompleteFromEvidence, Deliver
      <3>5. QED
        BY <2>1, <3>1, <3>3, <3>4, Delivers
    <2>5. CASE MarkRecoveryRequired(t)
      <3>1. RecoveryRow(row[k]).result = row[k].result
        BY <2>1, RowFacts
      <3>2. results' = results
        BY <1>a, <2>1, <2>5, <3>1, SameResult DEF MarkRecoveryRequired, SetRow
      <3>3. QED
        BY <2>5, <3>2 DEF MarkRecoveryRequired
    <2>6. QED
      BY <1>1, <2>2, <2>3, <2>4, <2>5 DEF Recovery
  <1>2. ASSUME NEW t \in Threads, Complete(t) PROVE [Register!Next]_<<results, delivered>>
    <2>1. /\ row' = [row EXCEPT ![Key(t)] = CompletedRow(row[Key(t)], request[t].fp, held[t])]
          /\ delivered' = delivered /\ pc[t] = "complete"
      BY <1>2 DEF Complete, SetRow
    <2>2. Key(t) \in Keys /\ Owner(t) /\ held[t] # NoResult
      BY <2>1, KeyFacts DEF KeyedSteps, Owner, OwnerSteps, RowsInv, HeldFits
    <2>3. row[Key(t)].result = NoResult
      BY <2>2 DEF RowsInv, OwnerHoldsRow
    <2>4. CompletedRow(row[Key(t)], request[t].fp, held[t]).result = held[t]
      BY DEF CompletedRow
    <2>5. results' = [results EXCEPT ![Key(t)] = held[t]]
      BY <1>a, <2>1, <2>2, <2>4 DEF results
    <2>6. results[Key(t)] = NoResult /\ results'[Key(t)] = held[t]
      BY <2>2, <2>3, <2>5 DEF results
    <2>7. Register!Decide(Key(t))
      BY <2>1, <2>2, <2>5, <2>6 DEF Register!Decide, results
    <2>8. QED
      BY <2>2, <2>7 DEF Register!Next, Register!Decide, results
  <1>3. ASSUME NEW t \in Threads, PersistAssistant(t) PROVE [Register!Next]_<<results, delivered>>
    <2>1. /\ results' = results /\ pc[t] = "assistant"
          /\ \/ delivered' = delivered
             \/ Keyed(t) /\ delivered' = [delivered EXCEPT ![Key(t)] = @ \cup {held[t]}]
      BY <1>3 DEF PersistAssistant, Deliver, results
    <2>2. Keyed(t) => Key(t) \in Keys /\ held[t] # NoResult /\ held[t] = row[Key(t)].result
      BY <2>1, KeyFacts DEF RowsInv, HeldFits
    <2>3. QED
      BY <2>1, <2>2, Delivers
  <1>4. ASSUME NEW t \in Threads, Fail(t) PROVE UNCHANGED <<results, delivered>>
    <2>1. /\ row' = [row EXCEPT ![Key(t)] = FailedRow(row[Key(t)])]
          /\ delivered' = delivered /\ pc[t] = "failing"
      BY <1>4 DEF Fail, SetRow
    <2>2. Key(t) \in Keys
      BY <2>1, KeyFacts DEF KeyedSteps
    <2>3. FailedRow(row[Key(t)]).result = row[Key(t)].result
      BY <1>a, <2>2 DEF FailedRow, Rows
    <2>4. QED
      BY <1>a, <2>1, <2>2, <2>3, SameResult
  <1>5. ASSUME NEW k \in Keys, GrowStale(k) PROVE UNCHANGED <<results, delivered>>
    <2>1. StaleRow(row[k]).result = row[k].result
      BY <1>a DEF StaleRow, Rows
    <2>2. QED
      BY <1>a, <1>5, <2>1, SameResult DEF GrowStale, AgeRow, SetRow
  <1>6. ASSUME \/ \E t \in Threads :
                    \/ \E a \in Answers : Arrive(t, a)
                    \/ ReadClarification(t) \/ AddAnswer(t) \/ Recover(t)
                    \/ \E how \in Endings \ {"none"} : RecoverReturns(t, how)
                    \/ Close(t) \/ SaveSession(t) \/ EngineRaises(t)
                    \/ DiscourseRaises(t) \/ StoreRaises(t)
               \/ \E c \in Clarifications : Ask(c)
               \/ Crash \/ UNCHANGED vars
        PROVE  UNCHANGED <<results, delivered>>
    <2>1. UNCHANGED <<row, delivered>>
      BY <1>6 DEF Arrive, ReadClarification, AddAnswer, Recover, RecoverReturns, Close,
                  SaveSession, EngineRaises, DiscourseRaises, StoreRaises, Raise, Ask, Crash, vars
    <2>2. QED
      BY <2>1 DEF results
  <1>7. QED
    BY <1>1, <1>2, <1>3, <1>4, <1>5, <1>6 DEF Next, Proceed

\* Answering clarifications implements the register that is decided once per
\* client_request_id and read by every retry.
THEOREM Refinement == Spec => ImplementsRegister
  <1>1. Init => Register!Init
    BY DEF Init, Register!Init, AbsentRow
  <1>2. TypeInv /\ RowsInv /\ [Next]_vars => [Register!Next]_(Register!vars)
    BY StepRefines DEF Register!vars, results
  <1>3. QED
    BY AlwaysRowsInv, <1>1, <1>2, PTL DEF Spec, ImplementsRegister, Register!Spec

-----------------------------------------------------------------------------
(* One answer is written.                                                  *)

\* What was written under a key.
Writes(k) == {w \in UNION {wrote[c] : c \in Clarifications} : w[1] = k}

\* Who executes the key k stands behind its recovery.
Written(k) ==
  /\ row[k].status \notin {"absent", "failed"}
  /\ \A t \in Threads : Owner(t) /\ Key(t) = k => pc[t] \in {"close", "session", "complete"}

KeyInv ==
  \A k \in Keys : (\A v, w \in Writes(k) : v = w) /\ (Writes(k) # {} => Written(k))

\* The thread works on an answer to c.
Works(t, c) == pc[t] \in Answering /\ Clar(t) = c

\* One thread at a time works on an answer to c, it has written nothing before
\* its recovery ends, and c is closed once what was written has no worker.
ClarInv(c) ==
  /\ \A t, u \in Threads : Works(t, c) /\ Works(u, c) => t = u
  /\ \A t \in Threads : Works(t, c) /\ pc[t] # "close" => wrote[c] = {}
  /\ wrote[c] # {} => Closed(c) \/ \E t \in Threads : Works(t, c)
  /\ \A v, w \in wrote[c] : v = w

WriteInv ==
  ~ Happened("store") /\ ~ Happened("discourse") =>
    KeyInv /\ (~ Happened("crash") => \A c \in Clarifications \ raced : ClarInv(c))

LEMMA InitWriteInv == Init => WriteInv
  BY DEF Init, WriteInv, KeyInv, Writes, ClarInv, Works, Answering

\* What has happened stays happened.
LEMMA FaultsLast ==
  ASSUME TypeInv, [Next]_vars, NEW f, Happened(f) PROVE Happened(f)'
  <1>1. \/ faults' = faults
        \/ \E g \in Faults : faults' = [faults EXCEPT ![g] = @ + 1]
    <2>1. CASE \E t \in Threads : Recovery(t)
      BY <2>1 DEF Recovery
    <2>2. CASE ~ \E t \in Threads : Recovery(t)
      BY <2>2 DEF Next, Proceed, Arrive, ReadClarification, AddAnswer, Recover, RecoverReturns,
                  Close, SaveSession, Complete, PersistAssistant, Fail, EngineRaises,
                  DiscourseRaises, StoreRaises, Fault, Ask, GrowStale, Crash, vars
    <2>3. QED
      BY <2>1, <2>2
  <1>2. QED
    BY <1>1 DEF TypeInv, TypeOK, Happened

\* Nothing is written, and every key that was written stays so.
LEMMA KeepsWrites ==
  ASSUME KeyInv, wrote' = wrote, \A k \in Keys : Written(k) => Written(k)'
  PROVE  KeyInv'
  BY DEF KeyInv, Writes

\* One thread moves, and its key stays written.
LEMMA WrittenMoves ==
  ASSUME TypeInv, row' = row, request' = request, NEW t \in Threads,
         \A u \in Threads \ {t} : pc'[u] = pc[u],
         \/ ~ Owner(t)'
         \/ Owner(t) /\ pc[t] \notin {"close", "session", "complete"}
         \/ pc'[t] \in {"close", "session", "complete"}
  PROVE  \A k \in Keys : Written(k) => Written(k)'
  BY DEF Written, Owner, Keyed, Key

LEMMA NextKeyInv ==
  ASSUME TypeInv, RowsInv, KeyInv, [Next]_vars,
         ~ Happened("store")', ~ Happened("discourse")'
  PROVE  KeyInv'
  <1>a. TypeOK
    BY DEF TypeInv
  <1>b. ASSUME NEW t \in Threads, NEW step, Goto(t, step)
        PROVE  pc'[t] = step /\ \A u \in Threads \ {t} : pc'[u] = pc[u]
    BY <1>a, <1>b DEF Goto, TypeOK
  <1>1. ASSUME NEW t \in Threads, NEW a \in Answers, Arrive(t, a) PROVE KeyInv'
    <2>1. /\ row' = row /\ wrote' = wrote /\ request' = [request EXCEPT ![t] = a]
          /\ IF a.key = NoKey THEN Goto(t, "start") ELSE Goto(t, "claim")
      BY <1>1 DEF Arrive, table
    <2>2. /\ Key(t)' = a.key /\ pc'[t] = (IF a.key = NoKey THEN "start" ELSE "claim")
          /\ \A u \in Threads \ {t} : pc'[u] = pc[u] /\ Key(u)' = Key(u)
      BY <1>a, <1>b, <2>1 DEF TypeOK, Key
    <2>3. ~ Owner(t)' /\ \A u \in Threads \ {t} : Owner(u)' => Owner(u)
      BY <2>2 DEF Owner, Keyed, OwnerSteps
    <2>4. \A k \in Keys : Written(k) => Written(k)'
      BY <2>1, <2>2, <2>3 DEF Written
    <2>5. QED
      BY <2>1, <2>4, KeepsWrites
  <1>2. ASSUME NEW t \in Threads, Recovery(t) PROVE KeyInv'
    <2> DEFINE k == Key(t)
    <2>1. /\ k \in Keys /\ row[k] \in Rows /\ request[t].fp \in Fingerprints
          /\ request' = request /\ wrote' = wrote
          /\ pc[t] \in {"claim", "evidence", "recomplete", "mark"}
      BY <1>2, RecoveryFacts DEF table, ReconcileSteps
    <2>2. ~ Owner(t)
      BY <2>1 DEF Owner, OwnerSteps
    <2>3. CASE BeginOrReplay(t) /\ ClaimResult(row[k], request[t].fp) = "proceed"
      <3>1. Writes(k) = {}
        BY <2>1, <2>3, ClaimFacts DEF KeyInv, Written
      <3>2. \A j \in Keys \ {k} : row'[j] = row[j]
        BY <1>a, <2>1, <2>3 DEF BeginOrReplay, SetRow, TypeOK
      <3>3. \A u \in Threads \ {t} : pc'[u] = pc[u]
        BY <1>b, <2>3 DEF BeginOrReplay
      <3>4. \A j \in Keys \ {k} : Written(j) => Written(j)'
        BY <2>1, <3>2, <3>3 DEF Written, Owner, Keyed, Key
      <3>5. QED
        BY <2>1, <3>1, <3>4 DEF KeyInv, Writes
    <2>4. CASE ~ (BeginOrReplay(t) /\ ClaimResult(row[k], request[t].fp) = "proceed")
      <3>1. \E step \in {"idle", "evidence", "recomplete", "mark"} : Goto(t, step)
        BY <1>2, <2>4 DEF Recovery, BeginOrReplay, SeekEvidence, CompleteFromEvidence,
                          MarkRecoveryRequired
      <3>2. ~ Owner(t)' /\ \A u \in Threads \ {t} : pc'[u] = pc[u]
        BY <1>b, <3>1 DEF Owner, OwnerSteps
      <3>3. \E r : row' = [row EXCEPT ![k] = r] /\
                   (r.status \in {"absent", "failed"} => row[k].status \in {"absent", "failed"})
        <4>1. CASE BeginOrReplay(t)
          BY <2>4, <4>1 DEF BeginOrReplay, ClaimedRow, SetRow
        <4>2. CASE SeekEvidence(t)
          <5>1. row' = [row EXCEPT ![k] = row[k]]
            BY <1>a, <4>2 DEF SeekEvidence, TypeOK
          <5>2. QED
            BY <5>1
        <4>3. CASE CompleteFromEvidence(t)
          <5>1. CompletedRow(row[k], request[t].fp, held[t]).status = "completed"
            BY DEF CompletedRow
          <5>2. QED
            BY <4>3, <5>1 DEF CompleteFromEvidence, SetRow
        <4>4. CASE MarkRecoveryRequired(t)
          <5>1. RecoveryRow(row[k]).status = (IF row[k].status = "absent" THEN "absent"
                                                ELSE "recovery_required")
            BY <2>1, RowFacts DEF RecoveryRow, Rows
          <5>2. QED
            BY <4>4, <5>1 DEF MarkRecoveryRequired, SetRow
        <4>5. QED
          BY <1>2, <4>1, <4>2, <4>3, <4>4 DEF Recovery
      <3>4. \A j \in Keys : row'[j].status \in {"absent", "failed"}
                              => row[j].status \in {"absent", "failed"}
        BY <1>a, <2>1, <3>3 DEF TypeOK
      <3>5. \A j \in Keys : Written(j) => Written(j)'
        BY <2>1, <3>2, <3>4 DEF Written, Owner, Keyed, Key
      <3>6. QED
        BY <2>1, <3>5, KeepsWrites
    <2>5. QED
      BY <2>3, <2>4
  <1>3. ASSUME NEW t \in Threads,
               \/ ReadClarification(t) \/ AddAnswer(t) \/ Recover(t) \/ Close(t)
               \/ SaveSession(t) \/ PersistAssistant(t) \/ EngineRaises(t)
        PROVE  KeyInv'
    <2>1. /\ row' = row /\ wrote' = wrote /\ request' = request
          /\ \/ /\ pc[t] \in {"start", "say", "recover", "engine"}
                /\ \E step \in {"say", "recover", "engine", "close", "failing"} : Goto(t, step)
             \/ \E step \in {"session", "complete", "assistant", "idle"} : Goto(t, step)
      BY <1>3 DEF ReadClarification, AddAnswer, Recover, Close, SaveSession, PersistAssistant,
                  EngineRaises, Raise, table
    <2>2. \/ ~ Owner(t)'
          \/ Owner(t) /\ pc[t] \notin {"close", "session", "complete"}
          \/ pc'[t] \in {"close", "session", "complete"}
      BY <1>b, <2>1 DEF Owner, OwnerSteps, Keyed, Key
    <2>3. \A u \in Threads \ {t} : pc'[u] = pc[u]
      BY <1>b, <2>1
    <2>4. QED
      BY <2>1, <2>2, <2>3, WrittenMoves, KeepsWrites
  <1>4. ASSUME NEW t \in Threads, NEW how \in Endings \ {"none"}, RecoverReturns(t, how)
        PROVE  KeyInv'
    <2> DEFINE w == <<Key(t), held[t]>>
    <2>1. /\ row' = row /\ request' = request /\ pc[t] = "engine" /\ Goto(t, "close")
          /\ \/ wrote' = wrote
             \/ wrote' = [wrote EXCEPT ![Clar(t)] = @ \cup {w}]
      BY <1>4 DEF RecoverReturns
    <2>2. pc'[t] = "close" /\ \A u \in Threads \ {t} : pc'[u] = pc[u]
      BY <1>b, <2>1
    <2>3. \A k \in Keys : Written(k) => Written(k)'
      BY <2>1, <2>2, WrittenMoves
    <2>4. Clar(t) \in Clarifications
      BY <1>a, AboutAssumption DEF TypeOK, Answers, Clar
    <2>5. \A k \in Keys : Writes(k)' \subseteq Writes(k) \cup (IF Key(t) = k THEN {w} ELSE {})
      <3>1. \A c \in Clarifications : wrote'[c] \subseteq wrote[c] \cup {w}
        BY <1>a, <2>1 DEF TypeOK
      <3>2. w[1] = Key(t)
        OBVIOUS
      <3> HIDE DEF w
      <3>3. QED
        BY <3>1, <3>2 DEF Writes
    <2> HIDE DEF w
    <2>6. ASSUME NEW k \in Keys
          PROVE  (\A v, x \in Writes(k)' : v = x) /\ (Writes(k)' # {} => Written(k)')
      <3>1. CASE Key(t) # k
        BY <2>3, <2>5, <3>1 DEF KeyInv
      <3>2. CASE Key(t) = k
        <4>1. Owner(t)
          BY <2>1, <3>2, KeyFacts DEF Owner, OwnerSteps
        <4>2. Writes(k) = {}
          BY <2>1, <3>2, <4>1 DEF KeyInv, Written
        <4>3. row[k].status \in {"in_progress", "recovery_required"}
          BY <3>2, <4>1 DEF RowsInv, OwnerHoldsRow
        <4>4. \A u \in Threads : Owner(u)' /\ Key(u)' = k => u = t
          BY <2>1, <2>2, <3>2, <4>1 DEF RowsInv, SingleOwner, Owner, Keyed, Key
        <4>5. Written(k)'
          BY <2>1, <2>2, <4>3, <4>4 DEF Written
        <4>6. QED
          BY <2>5, <4>2, <4>5
      <3>3. QED
        BY <3>1, <3>2
    <2>7. QED
      BY <2>6 DEF KeyInv
  <1>5. ASSUME NEW t \in Threads, Complete(t) \/ Fail(t) PROVE KeyInv'
    <2>1. /\ wrote' = wrote /\ request' = request
          /\ \/ /\ pc[t] = "complete" /\ Goto(t, "assistant")
                /\ row' = [row EXCEPT ![Key(t)] =
                             CompletedRow(row[Key(t)], request[t].fp, held[t])]
             \/ /\ pc[t] = "failing" /\ Goto(t, "idle")
                /\ row' = [row EXCEPT ![Key(t)] = FailedRow(row[Key(t)])]
      BY <1>5 DEF Complete, Fail, SetRow, table
    <2>2. Key(t) \in Keys /\ Owner(t)
      BY <2>1, KeyFacts DEF KeyedSteps, Owner, OwnerSteps
    <2>3. /\ ~ Owner(t)' /\ \A u \in Threads \ {t} : pc'[u] = pc[u]
          /\ \A j \in Keys \ {Key(t)} : row'[j] = row[j]
      BY <1>a, <1>b, <2>1 DEF TypeOK, Owner, OwnerSteps
    <2>4. \A j \in Keys \ {Key(t)} : Written(j) => Written(j)'
      BY <2>1, <2>3 DEF Written, Owner, Keyed, Key
    <2>5. ASSUME NEW j \in Keys, j = Key(t), Written(j) PROVE Written(j)'
      <3>1. pc[t] = "complete"
        BY <2>1, <2>2, <2>5 DEF Written
      <3>2. row'[j].status = "completed"
        BY <1>a, <2>1, <2>2, <2>5, <3>1 DEF TypeOK, CompletedRow
      <3>3. QED
        BY <2>1, <2>3, <2>5, <3>2 DEF Written, Owner, Keyed, Key
    <2>6. QED
      BY <2>1, <2>4, <2>5, KeepsWrites
  <1>6. ASSUME NEW t \in Threads, StoreRaises(t) \/ DiscourseRaises(t) PROVE KeyInv'
    BY <1>a, <1>6 DEF StoreRaises, DiscourseRaises, Fault, Happened, TypeOK
  <1>7. CASE Crash
    <2>1. row' = row /\ wrote' = wrote /\ \A u \in Threads : ~ Owner(u)'
      BY <1>7 DEF Crash, Owner, OwnerSteps, table
    <2>2. QED
      BY <2>1, KeepsWrites DEF Written
  <1>8. ASSUME NEW k \in Keys, GrowStale(k) PROVE KeyInv'
    <2>1. /\ wrote' = wrote /\ request' = request /\ pc' = pc
          /\ row' = [row EXCEPT ![k] = StaleRow(row[k])]
      BY <1>8 DEF GrowStale, AgeRow, SetRow, table
    <2>2. \A j \in Keys : row'[j].status = row[j].status
      BY <1>a, <2>1 DEF TypeOK, StaleRow, Rows
    <2>3. QED
      BY <2>1, <2>2, KeepsWrites DEF Written, Owner, Keyed, Key
  <1>9. CASE (\E c \in Clarifications : Ask(c)) \/ UNCHANGED vars
    BY <1>9, KeepsWrites DEF Ask, vars, table, Written, Owner, Keyed, Key
  <1>10. QED
    BY <1>1, <1>2, <1>3, <1>4, <1>5, <1>6, <1>7, <1>8, <1>9 DEF Next, Proceed

\* Nothing is written, and no worker on c appears or goes back; one that goes
\* leaves c closed, or had written nothing.
LEMMA KeepsClar ==
  ASSUME NEW c, ClarInv(c), wrote'[c] = wrote[c], Closed(c) => Closed(c)',
         \A u \in Threads : Works(u, c)' => Works(u, c) /\ (pc'[u] = "close" \/ pc[u] # "close"),
         \A u \in Threads : Works(u, c) /\ pc[u] = "close" => Works(u, c)' \/ Closed(c)'
  PROVE  ClarInv(c)'
  <1>1. wrote'[c] # {} => Closed(c)' \/ \E u \in Threads : Works(u, c)'
    BY DEF ClarInv
  <1>2. \A u \in Threads : Works(u, c)' /\ pc'[u] # "close" => wrote'[c] = {}
    BY DEF ClarInv
  <1>3. QED
    BY <1>1, <1>2 DEF ClarInv

LEMMA NextClarInv ==
  ASSUME TypeInv, [Next]_vars,
         ~ Happened("store")', ~ Happened("discourse")', ~ Happened("crash")',
         NEW c \in Clarifications, c \notin raced', c \notin raced => ClarInv(c)
  PROVE  ClarInv(c)'
  <1>a. TypeOK
    BY DEF TypeInv
  <1>b. ASSUME NEW t \in Threads, NEW step, Goto(t, step)
        PROVE  pc'[t] = step /\ \A u \in Threads \ {t} : pc'[u] = pc[u]
    BY <1>a, <1>b DEF Goto, TypeOK
  <1>1. ASSUME NEW t \in Threads, NEW a \in Answers, Arrive(t, a) PROVE ClarInv(c)'
    <2>1. /\ wrote' = wrote /\ raced' = raced /\ clarification' = clarification
          /\ request' = [request EXCEPT ![t] = a] /\ pc[t] = "idle"
          /\ IF a.key = NoKey THEN Goto(t, "start") ELSE Goto(t, "claim")
      BY <1>1 DEF Arrive, table
    <2>2. /\ pc'[t] \in {"start", "claim"}
          /\ \A u \in Threads \ {t} : pc'[u] = pc[u] /\ Clar(u)' = Clar(u)
      BY <1>a, <1>b, <2>1 DEF TypeOK, Clar
    <2>3. QED
      BY <2>1, <2>2, KeepsClar DEF Works, Answering, Closed
  <1>2. ASSUME NEW t \in Threads, Recovery(t) PROVE ClarInv(c)'
    <2>1. /\ request' = request /\ wrote' = wrote /\ raced' = raced
          /\ clarification' = clarification
          /\ pc[t] \in {"claim", "evidence", "recomplete", "mark"}
      BY <1>2, RecoveryFacts DEF table, ReconcileSteps
    <2>2. \E step \in {"start", "idle", "evidence", "recomplete", "mark"} : Goto(t, step)
      BY <1>2 DEF Recovery, BeginOrReplay, SeekEvidence, CompleteFromEvidence, MarkRecoveryRequired
    <2>3. pc'[t] \notin Answering /\ \A u \in Threads \ {t} : pc'[u] = pc[u]
      BY <1>b, <2>2 DEF Answering
    <2>4. QED
      BY <2>1, <2>3, KeepsClar DEF Works, Answering, Closed, Clar
  <1>3. ASSUME NEW t \in Threads, ReadClarification(t) PROVE ClarInv(c)'
    <2>1. /\ request' = request /\ wrote' = wrote /\ clarification' = clarification
          /\ pc[t] = "start"
      BY <1>3 DEF ReadClarification, table
    <2>2. c \notin raced
      BY <1>3 DEF ReadClarification
    <2>3. CASE clarification[Clar(t)].status = "pending" /\ Clar(t) = c
      <3>1. \A u \in Threads \ {t} : ~ Works(u, c)
        BY <1>3, <2>3 DEF ReadClarification, Works
      <3>2. pc'[t] = "say" /\ \A u \in Threads \ {t} : pc'[u] = pc[u]
        BY <1>b, <1>3, <2>3 DEF ReadClarification
      <3>3. wrote[c] = {}
        BY <2>1, <2>2, <2>3, <3>1 DEF ClarInv, Closed, Works, Answering
      <3>4. \A u \in Threads : Works(u, c)' => u = t
        BY <2>1, <3>1, <3>2 DEF Works, Clar
      <3>5. QED
        BY <2>1, <3>3, <3>4 DEF ClarInv
    <2>4. CASE ~ (clarification[Clar(t)].status = "pending" /\ Clar(t) = c)
      <3>1. pc'[t] \notin Answering \/ Clar(t) # c
        BY <1>b, <1>3, <2>4 DEF ReadClarification, Answering
      <3>2. \A u \in Threads \ {t} : pc'[u] = pc[u]
        BY <1>b, <1>3 DEF ReadClarification
      <3>3. QED
        BY <2>1, <2>2, <3>1, <3>2, KeepsClar DEF Works, Answering, Closed, Clar
    <2>5. QED
      BY <2>3, <2>4
  <1>4. ASSUME NEW t \in Threads,
               \/ AddAnswer(t) \/ Recover(t) \/ EngineRaises(t) \/ SaveSession(t)
               \/ Complete(t) \/ PersistAssistant(t) \/ Fail(t)
        PROVE  ClarInv(c)'
    <2>1. /\ request' = request /\ wrote' = wrote /\ raced' = raced
          /\ clarification' = clarification
          /\ \/ pc[t] = "say" /\ \E step \in {"recover", "close"} : Goto(t, step)
             \/ pc[t] = "recover" /\ Goto(t, "engine")
             \/ pc[t] = "engine" /\ \E step \in {"failing", "idle"} : Goto(t, step)
             \/ /\ pc[t] \in {"session", "complete", "assistant", "failing"}
                /\ \E step \in {"complete", "assistant", "idle"} : Goto(t, step)
      BY <1>4 DEF AddAnswer, Recover, EngineRaises, SaveSession, Complete, PersistAssistant,
                  Fail, Raise, table
    <2>2. \A u \in Threads \ {t} : pc'[u] = pc[u]
      BY <1>b, <2>1
    <2>3. pc[t] # "close" /\ (pc'[t] \in Answering => pc[t] \in Answering)
      BY <1>b, <2>1 DEF Answering
    <2>4. QED
      BY <2>1, <2>2, <2>3, KeepsClar DEF Works, Closed, Clar
  <1>5. ASSUME NEW t \in Threads, NEW how \in Endings \ {"none"}, RecoverReturns(t, how)
        PROVE  ClarInv(c)'
    <2> DEFINE w == <<Key(t), held[t]>>
    <2>1. /\ request' = request /\ raced' = raced /\ clarification' = clarification
          /\ pc[t] = "engine" /\ Goto(t, "close")
          /\ wrote' = wrote \/ wrote' = [wrote EXCEPT ![Clar(t)] = @ \cup {w}]
      BY <1>5 DEF RecoverReturns
    <2>2. pc'[t] = "close" /\ \A u \in Threads \ {t} : pc'[u] = pc[u]
      BY <1>b, <2>1
    <2>3. \A u \in Threads : Works(u, c)' <=> Works(u, c)
      BY <2>1, <2>2 DEF Works, Clar, Answering
    <2> HIDE DEF w
    <2>4. CASE Clar(t) # c
      BY <1>a, <2>1, <2>2, <2>3, <2>4, KeepsClar DEF TypeOK, Closed, Works
    <2>5. CASE Clar(t) = c
      <3>1. Works(t, c) /\ pc[t] # "close"
        BY <2>1, <2>5 DEF Works, Answering
      <3>2. wrote[c] = {} /\ \A u \in Threads : Works(u, c) => u = t
        BY <2>1, <3>1 DEF ClarInv
      <3>3. wrote'[c] \subseteq {w}
        BY <1>a, <2>1, <2>5, <3>2 DEF TypeOK
      <3>4. QED
        BY <2>2, <2>3, <3>1, <3>2, <3>3 DEF ClarInv
    <2>6. QED
      BY <2>4, <2>5
  <1>6. ASSUME NEW t \in Threads, Close(t) PROVE ClarInv(c)'
    <2>1. /\ request' = request /\ wrote' = wrote /\ raced' = raced
          /\ \E step \in {"session", "complete", "assistant"} : Goto(t, step)
          /\ \E s \in {"resolved", "answered"} : SetStatus(Clar(t), s)
      BY <1>6 DEF Close
    <2>2. PICK s \in {"resolved", "answered"} :
            clarification' = [clarification EXCEPT ![Clar(t)].status = s]
      BY <2>1 DEF SetStatus
    <2>3. clarification'[c].status = (IF Clar(t) = c THEN s ELSE clarification[c].status)
      BY <1>a, <2>2 DEF TypeOK
    <2>4. (Closed(c) => Closed(c)') /\ (Clar(t) = c => Closed(c)')
      BY <2>3 DEF Closed
    <2>5. pc'[t] \notin Answering /\ \A u \in Threads \ {t} : pc'[u] = pc[u]
      BY <1>b, <2>1 DEF Answering
    <2>6. QED
      BY <2>1, <2>4, <2>5, KeepsClar DEF Works, Clar
  <1>7. ASSUME (\E t \in Threads : StoreRaises(t) \/ DiscourseRaises(t)) \/ Crash
        PROVE  ClarInv(c)'
    BY <1>a, <1>7 DEF StoreRaises, DiscourseRaises, Crash, Fault, Happened, TypeOK
  <1>8. ASSUME NEW d \in Clarifications, Ask(d) PROVE ClarInv(c)'
    <2>1. Closed(c) => Closed(c)'
      BY <1>a, <1>8 DEF Ask, SetStatus, Closed, TypeOK
    <2>2. request' = request /\ wrote' = wrote /\ raced' = raced /\ pc' = pc
      BY <1>8 DEF Ask
    <2>3. QED
      BY <2>1, <2>2, KeepsClar DEF Works, Clar
  <1>9. CASE (\E k \in Keys : GrowStale(k)) \/ UNCHANGED vars
    <2>1. /\ request' = request /\ wrote' = wrote /\ raced' = raced /\ pc' = pc
          /\ clarification' = clarification
      BY <1>9 DEF GrowStale, AgeRow, vars, table
    <2>2. QED
      BY <2>1, KeepsClar DEF Works, Clar, Closed
  <1>10. QED
    BY <1>1, <1>2, <1>3, <1>4, <1>5, <1>6, <1>7, <1>8, <1>9 DEF Next, Proceed

LEMMA NextWriteInv == TypeInv /\ RowsInv /\ WriteInv /\ [Next]_vars => WriteInv'
  <1> SUFFICES ASSUME TypeInv, RowsInv, WriteInv, [Next]_vars,
                      ~ Happened("store")', ~ Happened("discourse")'
               PROVE  /\ KeyInv'
                      /\ ~ Happened("crash")' => \A c \in (Clarifications \ raced)' : ClarInv(c)'
    BY DEF WriteInv
  <1>1. ~ Happened("store") /\ ~ Happened("discourse")
    BY FaultsLast
  <1>2. KeyInv'
    BY <1>1, NextKeyInv DEF WriteInv
  <1>3. ASSUME ~ Happened("crash")', NEW c \in Clarifications, c \notin raced' PROVE ClarInv(c)'
    <2>1. ~ Happened("crash")
      BY <1>3, FaultsLast
    <2>2. c \notin raced => ClarInv(c)
      BY <1>1, <2>1 DEF WriteInv
    <2>3. QED
      BY <1>3, <2>2, NextClarInv
  <1>4. QED
    BY <1>2, <1>3

\* At most one of what is equal.
LEMMA AllEqual ==
  ASSUME NEW S, \A v, w \in S : v = w PROVE Cardinality(S) <= 1
  <1>1. CASE S = {}
    BY <1>1, FS_EmptySet
  <1>2. CASE S # {}
    <2>1. PICK x : S = {x}
      BY <1>2
    <2>2. QED
      BY <2>1, FS_Singleton
  <1>3. QED
    BY <1>1, <1>2

\* While nothing raises after the Knowledge commit (the product store, or the
\* engine's own discourse update), a clarification is written at most once unless
\* two answers read it as pending together or a crash parted the commit from the
\* UPDATE, and one client_request_id writes at most once whatever crashes.
THEOREM WrittenOnce == Spec => []OneWrite
  <1>1. WriteInv => OneWrite
    <2> SUFFICES ASSUME WriteInv, ~ Happened("store"), ~ Happened("discourse")
                 PROVE  /\ \A c \in Clarifications \ raced :
                             ~ Happened("crash") => Cardinality(wrote[c]) <= 1
                        /\ \A k \in Keys : Cardinality(Writes(k)) <= 1
      BY DEF OneWrite, Writes
    <2>1. ASSUME NEW c \in Clarifications \ raced, ~ Happened("crash")
          PROVE  Cardinality(wrote[c]) <= 1
      BY <2>1, AllEqual DEF WriteInv, ClarInv
    <2>2. ASSUME NEW k \in Keys PROVE Cardinality(Writes(k)) <= 1
      BY <2>2, AllEqual DEF WriteInv, KeyInv
    <2>3. QED
      BY <2>1, <2>2
  <1>2. QED
    BY <1>1, AlwaysRowsInv, InitWriteInv, NextWriteInv, PTL DEF Spec

-----------------------------------------------------------------------------
(* Steps taken one after the other.                                        *)

\* A nonempty set of positions has a first one.
LEMMA FirstPosition ==
  ASSUME NEW n \in Nat, NEW K \in SUBSET (1 .. n), K # {}
  PROVE  \E m \in K : \A k \in K : m <= k
<1> DEFINE Until(m) == {k \in K : k <= m}
           F == {Until(m) : m \in K}
<1>1. K \in SUBSET Nat
  OBVIOUS
<1>2. /\ F \subseteq SUBSET (1 .. n) /\ F # {}
      /\ \A k \in K : Until(k) \in F
      /\ \A L \in F : \E m \in K : L = Until(m)
  OBVIOUS
<1> HIDE DEF F
<1>3. IsFiniteSet(1 .. n)
  BY FS_Interval
<1>4. IsWellFoundedOn(StrictSubsetOrdering(1 .. n), FiniteSubsetsOf(1 .. n))
  BY FS_StrictSubsetOrderingWellFounded
<1>5. F \subseteq FiniteSubsetsOf(1 .. n)
  BY <1>2, <1>3, FS_Subset DEF FiniteSubsetsOf
<1>6. PICK S \in F : \A L \in F : ~ (<<L, S>> \in StrictSubsetOrdering(1 .. n))
  BY <1>2, <1>4, <1>5, WFMin
<1>7. \A L \in F : L \subseteq S => L = S
  BY <1>2, <1>6 DEF StrictSubsetOrdering
<1>8. PICK m \in K : S = Until(m)
  BY <1>2
<1>9. ASSUME NEW k \in K, ~ (m <= k)
      PROVE  FALSE
  <2>0. \A j \in K : j \in Nat
    BY <1>1
  <2>1. Until(k) \subseteq Until(m)
    <3> SUFFICES ASSUME NEW j \in K, j <= k
                 PROVE  j <= m
      OBVIOUS
    <3> QED
      BY <2>0, <1>9
  <2>2. m \in Until(m) /\ m \notin Until(k)
    BY <2>0, <1>9
  <2> QED
    BY <2>1, <2>2, <1>2, <1>7, <1>8
<1> QED
  BY <1>8, <1>9

LEMMA LastPosition ==
  ASSUME NEW n \in Nat, NEW K \in SUBSET (1 .. n), K # {}
  PROVE  \E m \in K : \A k \in K : k <= m
<1> DEFINE L == {n + 1 - k : k \in K}
<1>1. L \in SUBSET (1 .. n) /\ L # {}
  <2>1. \A k \in K : n + 1 - k \in 1 .. n
    <3> TAKE k \in K
    <3>1. k \in 1 .. n
      OBVIOUS
    <3> QED
      BY <3>1
  <2> QED
    BY <2>1
<1>2. \A l \in L : \E k \in K : l = n + 1 - k
  OBVIOUS
<1>3. \A k \in K : n + 1 - k \in L
  OBVIOUS
<1> HIDE DEF L
<1>4. PICK l \in L : \A j \in L : l <= j
  BY <1>1, FirstPosition
<1>5. PICK m \in K : l = n + 1 - m
  BY <1>2
<1>6. \A k \in K : l <= n + 1 - k
  BY <1>3, <1>4
<1> QED
  BY <1>5, <1>6

\* Induction over the steps, in first order.
LEMMA UpTo ==
  ASSUME NEW n \in Nat, NEW T, 0 \in T, \A k \in 0 .. n : k \in T /\ k < n => k + 1 \in T
  PROVE  0 .. n \subseteq T
<1> SUFFICES ASSUME (1 .. n) \ T # {}
             PROVE  FALSE
  OBVIOUS
<1>1. PICK m \in (1 .. n) \ T : \A k \in (1 .. n) \ T : m <= k
  <2> DEFINE K == (1 .. n) \ T
  <2>1. K \in SUBSET (1 .. n) /\ K # {}
    OBVIOUS
  <2> HIDE DEF K
  <2>2. \E m \in K : \A k \in K : m <= k
    BY <2>1, FirstPosition
  <2> QED
    BY <2>2 DEF K
<1>2. m - 1 \in 0 .. n /\ m - 1 < n /\ m - 1 + 1 = m
  OBVIOUS
<1>3. m - 1 \in T
  BY <1>1, <1>2
<1> QED
  BY <1>1, <1>2, <1>3

\* StepsTaken taken one after the other, from a base.
Taking(n, S, base, step, at) ==
  at \in [0 .. n -> S] /\ at[0] = base /\ \A k \in 1 .. n : at[k] = step[k][at[k - 1]]

\* StepsTaken that stay in a set can be taken one after the other.
LEMMA StepsTaken ==
  ASSUME NEW n \in Nat, NEW S, NEW base \in S, NEW step \in [1 .. n -> [S -> S]]
  PROVE  \E at : Taking(n, S, base, step, at)
<1> DEFINE Taken(i, at) == at = [k \in 0 .. i |-> IF k = 0 THEN base ELSE step[k][at[k - 1]]]
           T == {i \in 0 .. n : \E at \in [0 .. i -> S] : Taken(i, at)}
<1>1. 0 \in T
  <2> DEFINE at == [k \in 0 .. 0 |-> base]
  <2>1. at \in [0 .. 0 -> S]
    OBVIOUS
  <2>2. \A k \in 0 .. 0 : k = 0
    OBVIOUS
  <2>3. Taken(0, at)
    BY <2>2
  <2>4. 0 \in 0 .. n
    OBVIOUS
  <2> HIDE DEF at, Taken
  <2> QED
    BY <2>1, <2>3, <2>4
<1>2. ASSUME NEW i \in 0 .. n, i \in T, i < n
      PROVE  i + 1 \in T
  <2>1. PICK at \in [0 .. i -> S] : Taken(i, at)
    BY <1>2
  <2> DEFINE next == [k \in 0 .. i + 1 |-> IF k = i + 1 THEN step[i + 1][at[i]] ELSE at[k]]
  <2>2. step[i + 1][at[i]] \in S
    BY <1>2
  <2>3. next \in [0 .. i + 1 -> S]
    BY <2>2
  <2>4. next = [k \in 0 .. i + 1 |-> IF k = 0 THEN base ELSE step[k][next[k - 1]]]
    <3>1. \A k \in 0 .. i : next[k] = at[k]
      OBVIOUS
    <3>2. next[i + 1] = step[i + 1][at[i]] /\ DOMAIN next = 0 .. i + 1
      OBVIOUS
    <3>3. \A k \in 0 .. i : at[k] = IF k = 0 THEN base ELSE step[k][at[k - 1]]
      BY <2>1
    <3>4. next = [k \in 0 .. i + 1 |-> next[k]]
      OBVIOUS
    <3> HIDE DEF next
    <3>5. \A k \in 0 .. i + 1 : next[k] = IF k = 0 THEN base ELSE step[k][next[k - 1]]
      <4> TAKE k \in 0 .. i + 1
      <4>1. CASE k = 0
        <5>1. k \in 0 .. i
          BY <4>1
        <5>2. next[k] = base
          BY <3>1, <3>3, <4>1, <5>1
        <5> QED
          BY <4>1, <5>2
      <4>2. CASE k = i + 1
        <5>1. k - 1 = i /\ i \in 0 .. i /\ k # 0
          BY <4>2
        <5> QED
          BY <3>1, <3>2, <4>2, <5>1
      <4>3. CASE k \in 1 .. i
        <5>1. k - 1 \in 0 .. i /\ k \in 0 .. i /\ k # 0
          BY <4>3
        <5> QED
          BY <3>1, <3>3, <5>1
      <4>4. k = 0 \/ k = i + 1 \/ k \in 1 .. i
        OBVIOUS
      <4> QED
        BY <4>1, <4>2, <4>3, <4>4
    <3> QED
      BY <3>4, <3>5
  <2>5. Taken(i + 1, next)
    BY <2>4 DEF Taken
  <2>6. i + 1 \in 0 .. n
    BY <1>2
  <2> HIDE DEF next, Taken
  <2> QED
    BY <2>3, <2>5, <2>6
<1> HIDE DEF T
<1>3. 0 .. n \subseteq T
  BY <1>1, <1>2, UpTo
<1>4. n \in T
  BY <1>3
<1>5. PICK at \in [0 .. n -> S] : Taken(n, at)
  BY <1>4 DEF T
<1>6. \A k \in 0 .. n : at[k] = IF k = 0 THEN base ELSE step[k][at[k - 1]]
  BY <1>5
<1>7. at[0] = base
  <2>1. 0 \in 0 .. n
    OBVIOUS
  <2> QED
    BY <2>1, <1>6, Zenon
<1>8. ASSUME NEW k \in 1 .. n
      PROVE  at[k] = step[k][at[k - 1]]
  <2>1. k \in 0 .. n /\ k # 0
    OBVIOUS
  <2> QED
    BY <2>1, <1>6
<1> HIDE DEF Taken
<1>9. Taking(n, S, base, step, at)
  BY <1>5, <1>7, <1>8, Zenon DEF Taking
<1> QED
  BY <1>9

-----------------------------------------------------------------------------
(* Rules in order.                                                         *)

\* When some rule holds, the first that does gives the result.
LEMMA FirstRule ==
  ASSUME NEW n \in Nat, NEW rules, DOMAIN rules = 1 .. n, NEW j \in 1 .. n, rules[j][1]
  PROVE  \E k \in 1 .. n : /\ rules[k][1] /\ \A i \in 1 .. k - 1 : ~ rules[i][1]
                           /\ FirstOf(rules) = rules[k][2]
<1> DEFINE K == {k \in 1 .. n : rules[k][1]}
           First(k) == rules[k][1] /\ \A i \in 1 .. k - 1 : ~ rules[i][1]
<1>1. K \in SUBSET (1 .. n) /\ K # {}
  OBVIOUS
<1>2. \E m \in K : \A k \in K : m <= k
  <2> HIDE DEF K
  <2> QED
    BY <1>1, FirstPosition
<1>3. PICK m \in K : \A k \in K : m <= k
  BY <1>2
<1>4. \A i \in 1 .. m - 1 : ~ rules[i][1]
  BY <1>3
<1>5. \E k \in DOMAIN rules : First(k)
  BY <1>3, <1>4
<1>6. FirstOf(rules) = rules[CHOOSE k \in DOMAIN rules : First(k)][2]
  BY Zenon DEF FirstOf
<1> HIDE DEF First
<1>7. PICK k \in DOMAIN rules : First(k) /\ FirstOf(rules) = rules[k][2]
  BY <1>5, <1>6, Zenon
<1> QED
  BY <1>7, Zenon DEF First

\* An event that may be persisted did occur.
LEMMA EventOccurred ==
  ASSUME NEW p, NEW c, c.kind = "event", Allowed(p, c)
  PROVE  Occurred(p)
<1> SUFFICES ASSUME ~ Occurred(p)
             PROVE  FALSE
  OBVIOUS
<1> DEFINE anonymous == ~ Somebody(p) /\ p.context = NoMention
           nobody(reason) == IF anonymous THEN {reason, "missing_entity"} ELSE {reason}
           gaps == << <<~ Occurred(p), nobody("event_occurrence_required")>>,
                      <<c.key, {}>>,
                      <<~ Somebody(p) /\ ~ Acts(p), nobody("event_semantic_anchor_required")>>,
                      <<c.abstains, nobody("safe_abstention_without_anchor")>>,
                      <<Somebody(p) /\ Acts(p), {"canonical_type_unresolved_safe_partial"}>>,
                      <<TRUE, nobody("event_identity_incomplete")>> >>
           rules == << <<c.kind = "unknown", {"unknown_primitive"}>>,
                       <<c.status \in {"blocked", "ambiguous"}, {"blocked_or_ambiguous"}>>,
                       <<c.gap, {"ontology_gap"}>>,
                       <<c.kind = "state",       StateGaps(p, c)>>,
                       <<c.kind = "relation",    RelationGaps(p, c)>>,
                       <<c.kind = "event",       EventGaps(p, c)>>,
                       <<c.kind = "attribute",   AttributeGaps(p, c)>>,
                       <<c.kind = "measurement", MeasurementGaps(p)>>,
                       <<TRUE, {"classification_not_materializable"}>> >>
<1>1. EventGaps(p, c) # {}
  <2>1. EventGaps(p, c) = FirstOf(gaps)
    BY Zenon DEF EventGaps
  <2>2. DOMAIN gaps = 1 .. 6
    OBVIOUS
  <2>3. gaps[1][1]
    OBVIOUS
  <2>4. gaps[1][2] # {}
    OBVIOUS
  <2> HIDE DEF gaps, nobody
  <2>5. \E k \in 1 .. 6 : /\ gaps[k][1] /\ \A i \in 1 .. k - 1 : ~ gaps[i][1]
                         /\ FirstOf(gaps) = gaps[k][2]
    <3> DEFINE n == 6
    <3>1. n \in Nat /\ DOMAIN gaps = 1 .. n /\ 1 \in 1 .. n
      BY <2>2
    <3> HIDE DEF n
    <3> QED
      BY <3>1, <2>3, FirstRule DEF n
  <2> QED
    BY <2>1, <2>3, <2>4, <2>5
<1>2. Gaps(p, c, c.kind) = FirstOf(rules)
  BY Zenon DEF Gaps
<1>0. DOMAIN rules = 1 .. 9
  OBVIOUS
<1>3. rules[6][1] /\ ~ rules[4][1] /\ ~ rules[5][1]
  OBVIOUS
<1>4. rules[1][2] # {} /\ rules[2][2] # {} /\ rules[3][2] # {}
  OBVIOUS
<1>5. rules[6][2] = EventGaps(p, c)
  OBVIOUS
<1> HIDE DEF rules
<1>6. PICK k \in 1 .. 9 : /\ rules[k][1] /\ \A i \in 1 .. k - 1 : ~ rules[i][1]
                          /\ FirstOf(rules) = rules[k][2]
  <2> DEFINE n == 9
  <2>1. n \in Nat /\ DOMAIN rules = 1 .. n /\ 6 \in 1 .. n
    BY <1>0
  <2> HIDE DEF n
  <2>2. \E k \in 1 .. n : /\ rules[k][1] /\ \A i \in 1 .. k - 1 : ~ rules[i][1]
                          /\ FirstOf(rules) = rules[k][2]
    BY <1>3, <2>1, FirstRule
  <2> QED
    BY <2>2 DEF n
<1>7. k \in {1, 2, 3, 6}
  BY <1>3, <1>6
<1> QED
  BY <1>1, <1>2, <1>4, <1>5, <1>6, <1>7 DEF Allowed

-----------------------------------------------------------------------------
(* The facts of a wire, and where each comes from.                         *)

\* Texts; the provers do not know that a literal is a string.
Word == STRING \cup {"", "self", "owns"}

WireFact == [kind : Kinds, of : Mention \cup {Self}, to : Mention, dim : Word, val : Word,
             mode : {"assert", "terminate", "deny_current", "beside"}]

\* A proposal, or one of which a slot was filled.
Shape ==
  [utterance : {"assert", "query", "correct"}, hint : STRING, cues : SUBSET STRING,
   exprs : SUBSET (STRING \cup {"attribute", "state"}), aspect : STRING,
   life : {"none", "start", "end", "deny"},
   subject : Mention, object : Mention, context : Mention, others : Seq(Mention),
   reports : BOOLEAN, alias : STRING \cup {"one"}, sense : STRING, state : Word, rel : Word,
   attr : [dim : Word, val : Word], beside : Seq([dim : Word, val : Word]), cutShort : BOOLEAN,
   meas : [dim : Word, val : Word],
   time : STRING, claims : Seq(Claim), op : {"none", "replace", "retract"}, wording : SUBSET STRING,
   target : [kind : Kinds \cup {""}, of : STRING, to : STRING, dim : STRING, val : STRING,
             row : Nat]]

Shaped(p) == p \in Shape

\* The fact of a claim, of one's own thing, and of the primary part.
ToldByClaim(p, f) == \E k \in Explicit(p) : /\ p.claims[k].kind \in {"attribute", "relation", "measurement"}
                                            /\ Buildable(p, p.claims[k])
                                            /\ f = ClaimFact(p, p.claims[k])
ToldAsOwn(p, f)   == \E m \in Owned(p) : f = Owns(m)
Described(p, f)   == [dim |-> f.dim, val |-> f.val] \in {p.attr} \cup Range(p.beside)
ToldFirst(p, c, f) ==
  \/ f = Fact("measurement", MeasuredEntity(p), p.context, p.meas.dim, p.meas.val, "assert")
  \/ /\ f.kind = c.kind /\ f.kind # "measurement"
     /\ f.kind = "event" => (Occurred(p) \/ IsCorrection(p)) /\ f.of = MeasuredEntity(p)
     /\ f.kind # "event" => f.of = p.subject
     /\ f.kind = "state" => f.val = p.state
     /\ f.kind = "relation" => /\ f.dim = p.rel /\ f.to = p.object
                               /\ f.mode = (IF IsCorrection(p) THEN "assert" ELSE RelationMode(p))
     /\ f.kind = "attribute" => Described(p, f)
     /\ f.kind # "relation" => f.to = NoMention

LEMMA ShapeFacts ==
  ASSUME NEW p, Shaped(p)
  PROVE  /\ {p.subject, p.object, p.context} \subseteq Mention
         /\ p.claims \in Seq(Claim) /\ p.others \in Seq(Mention)
         /\ p.attr.dim \in Word /\ p.attr.val \in Word
         /\ p.meas.dim \in Word /\ p.meas.val \in Word /\ p.state \in Word /\ p.rel \in Word
         /\ p.attr = [dim |-> p.attr.dim, val |-> p.attr.val]
         /\ p.beside \in Seq([dim : Word, val : Word])
<1>1. p \in Shape
  BY DEF Shaped
<1>2. /\ p.subject \in Mention /\ p.object \in Mention /\ p.context \in Mention
      /\ p.claims \in Seq(Claim) /\ p.others \in Seq(Mention) /\ p.state \in Word /\ p.rel \in Word
      /\ p.attr \in [dim : Word, val : Word] /\ p.meas \in [dim : Word, val : Word]
      /\ p.beside \in Seq([dim : Word, val : Word])
  BY <1>1 DEF Shape
<1> QED
  BY <1>2

LEMMA SaidFacts ==
  ASSUME NEW p, Shaped(p)
  PROVE  /\ {p.subject, p.object, p.context} \subseteq Mention
         /\ p.subject \in SaidMentions(p) \cup {NoMention}
         /\ p.object \in SaidMentions(p) \cup {NoMention}
         /\ p.context \in SaidMentions(p) \cup {NoMention}
         /\ Range(p.others) \subseteq SaidMentions(p) \cup {NoMention}
         /\ p.claims \in Seq(Claim) /\ p.others \in Seq(Mention)
         /\ {p.attr.dim, p.attr.val, p.meas.dim, p.meas.val, p.state, p.rel} \subseteq Word
  BY ShapeFacts DEF SaidMentions, Mentions

LEMMA SeqTyped ==
  ASSUME NEW n \in Nat, NEW S, NEW s \in [1 .. n -> S]
  PROVE  s \in Seq(S)
OBVIOUS

LEMMA ProposalShaped ==
  ASSUME NEW p \in Proposal
  PROVE  Shaped(p)
<1>1. /\ p.attr \in Value /\ p.meas \in Value /\ p.beside \in Seq(Value)
  BY DEF Proposal
<1>2. /\ Value \subseteq [dim : Word, val : Word] /\ STRING \subseteq Word
  BY DEF Value, Word
<1>3. p.beside \in Seq([dim : Word, val : Word])
  <2> DEFINE n == Len(p.beside)
  <2>1. p.beside \in [1 .. n -> Value] /\ n \in Nat
    BY <1>1, LenProperties
  <2> HIDE DEF n
  <2>2. p.beside \in [1 .. n -> [dim : Word, val : Word]]
    BY <2>1, <1>2
  <2> QED
    BY <2>1, <2>2, SeqTyped
<1> QED
  BY <1>1, <1>2, <1>3 DEF Proposal, Shape, Shaped

LEMMA ClaimShape ==
  ASSUME NEW p, Shaped(p), NEW k \in DOMAIN p.claims
  PROVE  /\ p.claims[k] \in Claim
         /\ k \in Explicit(p) =>
              /\ p.claims[k].subject \in SaidMentions(p) \cup {NoMention}
              /\ p.claims[k].object \in SaidMentions(p) \cup {NoMention}
<1>1. p.claims[k] \in Claim
  BY SaidFacts, ElementOfSeq
<1>2. k \in Explicit(p) => /\ p.claims[k].subject \in SaidMentions(p)
                          /\ p.claims[k].object \in SaidMentions(p)
  BY DEF SaidMentions
<1> QED
  BY <1>1, <1>2

LEMMA IdentitySaid ==
  ASSUME NEW p, Shaped(p)
  PROVE  /\ IdentityMentions(p) \subseteq SaidMentions(p)
         /\ SaidMentions(p) \subseteq Mention
         /\ Owned(p) \subseteq SaidMentions(p) /\ \A m \in Owned(p) : m.ref = "possessive"
         /\ FirstOwned(p) \in Owned(p) \cup {NoMention}
<1>1. Mentions(p) \subseteq Mention
  <2>1. Range(p.others) \subseteq Mention
    BY SaidFacts, ElementOfSeq DEF Range
  <2> QED
    BY <2>1, SaidFacts DEF Mentions
<1>2. \A k \in Explicit(p) : p.claims[k].subject \in Mention /\ p.claims[k].object \in Mention
  BY ClaimShape DEF Claim, Explicit
<1>3. SaidMentions(p) \subseteq Mention
  BY <1>1, <1>2 DEF SaidMentions
<1>4. IdentityMentions(p) \subseteq SaidMentions(p)
  <2> SUFFICES ASSUME NEW m \in IdentityMentions(p)
               PROVE  m \in SaidMentions(p)
    OBVIOUS
  <2>1. CASE Explicit(p) = {}
    BY <2>1, Zenon DEF IdentityMentions, SaidMentions
  <2>2. CASE Explicit(p) # {}
    <3>1. m \in Mentions(p) \/ \E k \in Explicit(p) : m \in {p.claims[k].subject, p.claims[k].object}
      BY <2>2, Zenon DEF IdentityMentions
    <3> QED
      BY <3>1 DEF SaidMentions
  <2> QED
    BY <2>1, <2>2
<1>5. Owned(p) # {} => FirstOwned(p) \in Owned(p)
  BY Zenon DEF FirstOwned
<1> QED
  BY <1>3, <1>4, <1>5 DEF Owned, FirstOwned

LEMMA ClaimEnds ==
  ASSUME NEW p, Shaped(p), NEW k \in Explicit(p)
  PROVE  /\ ClaimSubject(p, p.claims[k]) \in SaidMentions(p) \cup {NoMention}
         /\ ClaimObject(p, p.claims[k]) \in SaidMentions(p) \cup {NoMention}
         /\ p.claims[k].subject \in SaidMentions(p) \cup {NoMention}
<1>1. k \in DOMAIN p.claims
  BY DEF Explicit
<1>2. FirstOwned(p) \in SaidMentions(p) \cup {NoMention}
  BY IdentitySaid
<1> QED
  BY <1>1, <1>2, ClaimShape, SaidFacts DEF ClaimSubject, ClaimObject, OrMention

LEMMA FactOfClaim ==
  ASSUME NEW p, NEW c \in Claim, c.kind \in {"attribute", "relation", "measurement"},
         NEW M \in SUBSET Mention, ClaimSubject(p, c) \in M, ClaimObject(p, c) \in M, NoMention \in M
  PROVE  /\ ClaimFact(p, c) \in WireFact
         /\ ClaimFact(p, c).kind = c.kind /\ ClaimFact(p, c).dim = c.dim
         /\ ClaimFact(p, c).mode = "assert"
         /\ ClaimFact(p, c).of \in M /\ ClaimFact(p, c).to \in M
         /\ c.kind # "relation" => ClaimFact(p, c).val = c.val
<1>1. c.dim \in Word /\ c.val \in Word
  BY DEF Claim, Word
<1>2. c.kind \in Kinds /\ "" \in Word /\ "relation" \in Kinds
  BY DEF Kinds, Word
<1>0. /\ ClaimSubject(p, c) \in Mention \cup {Self} /\ ClaimObject(p, c) \in Mention
      /\ NoMention \in Mention
  OBVIOUS
<1>3. CASE c.kind = "relation"
  <2>1. ClaimFact(p, c) = Fact("relation", ClaimSubject(p, c), ClaimObject(p, c), c.dim, "", "assert")
    BY <1>3 DEF ClaimFact
  <2> DEFINE g == Fact("relation", ClaimSubject(p, c), ClaimObject(p, c), c.dim, "", "assert")
  <2>2. /\ g \in WireFact /\ g.kind = "relation" /\ g.dim = c.dim /\ g.mode = "assert"
        /\ g.of = ClaimSubject(p, c) /\ g.to = ClaimObject(p, c)
    BY <1>0, <1>1, <1>2 DEF Fact, WireFact
  <2> HIDE DEF g
  <2> QED
    BY <2>1, <2>2, <1>3 DEF g
<1>4. CASE c.kind # "relation"
  <2>1. ClaimFact(p, c) = Fact(c.kind, ClaimSubject(p, c), NoMention, c.dim, c.val, "assert")
    BY <1>4 DEF ClaimFact
  <2> DEFINE g == Fact(c.kind, ClaimSubject(p, c), NoMention, c.dim, c.val, "assert")
  <2>2. /\ g \in WireFact /\ g.kind = c.kind /\ g.dim = c.dim /\ g.mode = "assert"
        /\ g.of = ClaimSubject(p, c) /\ g.to = NoMention /\ g.val = c.val
    BY <1>0, <1>1, <1>2 DEF Fact, WireFact
  <2> HIDE DEF g
  <2> QED
    BY <2>1, <2>2 DEF g
<1> QED
  BY <1>3, <1>4

LEMMA ClaimFactShape ==
  ASSUME NEW p, Shaped(p), NEW k \in Explicit(p),
         p.claims[k].kind \in {"attribute", "relation", "measurement"}
  PROVE  /\ ClaimFact(p, p.claims[k]) \in WireFact
         /\ ClaimFact(p, p.claims[k]).kind = p.claims[k].kind
         /\ ClaimFact(p, p.claims[k]).dim = p.claims[k].dim
         /\ ClaimFact(p, p.claims[k]).mode = "assert"
         /\ ClaimFact(p, p.claims[k]).of \in SaidMentions(p) \cup {NoMention}
         /\ ClaimFact(p, p.claims[k]).to \in SaidMentions(p) \cup {NoMention}
         /\ p.claims[k].kind # "relation" => ClaimFact(p, p.claims[k]).val = p.claims[k].val
<1> DEFINE M == SaidMentions(p) \cup {NoMention}
<1>1. p.claims[k] \in Claim
  BY ClaimShape DEF Explicit
<1>2. M \in SUBSET Mention /\ NoMention \in M
  BY IdentitySaid DEF Mention
<1>3. ClaimSubject(p, p.claims[k]) \in M /\ ClaimObject(p, p.claims[k]) \in M
  BY ClaimEnds
<1> HIDE DEF M
<1>4. /\ ClaimFact(p, p.claims[k]) \in WireFact
      /\ ClaimFact(p, p.claims[k]).kind = p.claims[k].kind
      /\ ClaimFact(p, p.claims[k]).dim = p.claims[k].dim
      /\ ClaimFact(p, p.claims[k]).mode = "assert"
      /\ ClaimFact(p, p.claims[k]).of \in M
      /\ ClaimFact(p, p.claims[k]).to \in M
      /\ p.claims[k].kind # "relation" => ClaimFact(p, p.claims[k]).val = p.claims[k].val
  BY <1>1, <1>2, <1>3, FactOfClaim
<1> QED
  BY <1>4 DEF M

LEMMA MeasurementShape ==
  ASSUME NEW p, Shaped(p)
  PROVE  /\ MeasurementFacts(p) \in Seq(WireFact)
         /\ \A f \in Range(MeasurementFacts(p)) :
              f = Fact("measurement", MeasuredEntity(p), p.context, p.meas.dim, p.meas.val, "assert")
<1> DEFINE f == Fact("measurement", MeasuredEntity(p), p.context, p.meas.dim, p.meas.val, "assert")
<1>1. f \in WireFact
  BY SaidFacts DEF Fact, WireFact, Kinds, MeasuredEntity
<1>2. MeasurementFacts(p) = <<>> \/ MeasurementFacts(p) = <<f>>
  BY DEF MeasurementFacts
<1> HIDE DEF f
<1>3. <<>> \in Seq(WireFact) /\ <<f>> \in Seq(WireFact)
  BY <1>1
<1>4. Range(<<>>) = {} /\ Range(<<f>>) = {f}
  BY DEF Range
<1> QED
  BY <1>2, <1>3, <1>4 DEF f

LEMMA PrimaryShape ==
  ASSUME NEW p, Shaped(p), NEW c
  PROVE  /\ PrimaryFacts(p, c) \in Seq(WireFact)
         /\ ~ IsCorrection(p) => \A f \in Range(PrimaryFacts(p, c)) : ToldFirst(p, c, f)
<1> DEFINE f == PrimaryFact(p, c, RelationMode(p))
<1>1. PrimaryFacts(p, c) = <<>>
      \/ /\ PrimaryFacts(p, c) = <<f>> /\ Allowed(p, c)
         /\ c.kind \in {"event", "state", "relation", "attribute"}
  BY DEF PrimaryFacts, HasPrimary
<1>2. <<>> \in Seq(WireFact) /\ Range(<<>>) = {}
  BY DEF Range
<1>3. ASSUME c.kind \in {"event", "state", "relation", "attribute"}
      PROVE  f \in WireFact
  <2>1. /\ p.subject \in Mention /\ MeasuredEntity(p) \in Mention /\ p.object \in Mention
        /\ p.attr.dim \in Word /\ p.attr.val \in Word /\ p.rel \in Word /\ p.state \in Word
        /\ NoMention \in Mention /\ RelationMode(p) \in {"assert", "terminate", "deny_current"}
    BY SaidFacts DEF MeasuredEntity, Mention, RelationMode
  <2>2. CASE c.kind = "event"
    BY <2>1, <2>2 DEF PrimaryFact, Fact, WireFact, Kinds, Word
  <2>3. CASE c.kind = "state"
    BY <2>1, <2>3 DEF PrimaryFact, Fact, WireFact, Kinds, Word
  <2>4. CASE c.kind = "relation"
    BY <2>1, <2>4 DEF PrimaryFact, Fact, WireFact, Kinds, Word
  <2>5. CASE c.kind = "attribute"
    BY <2>1, <2>5 DEF PrimaryFact, Fact, WireFact, Kinds, Word
  <2> QED
    BY <1>3, <2>2, <2>3, <2>4, <2>5
<1>4. ASSUME c.kind \in {"event", "state", "relation", "attribute"}, Allowed(p, c), ~ IsCorrection(p)
      PROVE  ToldFirst(p, c, f)
  <2>1. c.kind = "event" => Occurred(p)
    BY <1>4, EventOccurred
  <2>2. c.kind = "attribute" => Described(p, f)
    BY ShapeFacts DEF PrimaryFact, Fact, Described
  <2> QED
    BY <1>4, <2>1, <2>2 DEF PrimaryFact, Fact, ToldFirst
<1> HIDE DEF f
<1>5. Range(<<f>>) = {f}
  BY DEF Range
<1>6. f \in WireFact => <<f>> \in Seq(WireFact)
  OBVIOUS
<1> QED
  BY <1>1, <1>2, <1>3, <1>4, <1>5, <1>6

\* What is resolved beside an attribute.
LEMMA CompanionShape ==
  ASSUME NEW p, Shaped(p)
  PROVE  /\ Companions(p) \in Seq(WireFact)
         /\ \A f \in Range(Companions(p)) :
              /\ f \in WireFact /\ f.kind = "attribute" /\ f.mode = "beside"
              /\ f.of = p.subject /\ f.to = NoMention /\ Described(p, f)
<1> DEFINE v(k) == Fact("attribute", p.subject, NoMention, p.beside[k].dim, p.beside[k].val, "beside")
           n == Len(p.beside)
<1>1. n \in Nat /\ DOMAIN p.beside = 1 .. n
  BY ShapeFacts, LenProperties
<1>2. ASSUME NEW k \in 1 .. n
      PROVE  /\ v(k) \in WireFact /\ v(k).kind = "attribute" /\ v(k).mode = "beside"
             /\ v(k).of = p.subject /\ v(k).to = NoMention /\ Described(p, v(k))
  <2>1. p.beside[k] \in [dim : Word, val : Word]
    BY <1>1, <1>2, ShapeFacts, ElementOfSeq
  <2>2. p.beside[k] \in Range(p.beside)
    BY <1>1, <1>2 DEF Range
  <2>3. p.beside[k] = [dim |-> p.beside[k].dim, val |-> p.beside[k].val]
    BY <2>1
  <2>4. p.subject \in Mention /\ NoMention \in Mention /\ "attribute" \in Kinds
    BY ShapeFacts DEF Mention, Kinds
  <2>5. v(k).dim = p.beside[k].dim /\ v(k).val = p.beside[k].val
    BY DEF Fact
  <2>6. Described(p, v(k))
    <3> HIDE DEF v
    <3> QED
      BY <2>2, <2>3, <2>5 DEF Described
  <2> QED
    BY <2>1, <2>4, <2>6 DEF Fact, WireFact
<1>3. Companions(p) = [k \in 1 .. n |-> v(k)]
  BY <1>1 DEF Companions
<1> HIDE DEF v, n
<1>4. Companions(p) \in Seq(WireFact)
  BY <1>1, <1>2, <1>3
<1>5. \A f \in Range(Companions(p)) : \E k \in 1 .. n : f = v(k)
  BY <1>3 DEF Range
<1> QED
  BY <1>2, <1>4, <1>5

LEMMA BesideShape ==
  ASSUME NEW p, Shaped(p), NEW c
  PROVE  /\ BesideFacts(p, c) \in Seq(WireFact)
         /\ \A f \in Range(BesideFacts(p, c)) : ToldFirst(p, c, f) /\ f.mode = "beside"
<1>1. <<>> \in Seq(WireFact) /\ Range(<<>>) = {}
  BY DEF Range
<1>2. CASE BesideFacts(p, c) = <<>>
  BY <1>1, <1>2
<1>3. CASE BesideFacts(p, c) = Companions(p) /\ c.kind = "attribute"
  BY <1>3, CompanionShape DEF ToldFirst
<1> QED
  BY <1>2, <1>3 DEF BesideFacts

-----------------------------------------------------------------------------
(* The claims, one after the other.                                        *)

\* What may stand in a wire while the claims are laid over it.
Ends(p) == SaidMentions(p) \cup {NoMention, Self}

Laid(p, c) ==
  {w \in [facts : Seq(WireFact), mentions : SUBSET Ends(p), op : {"none"}, target : {NoTarget},
          report : [received : Nat, assumed : Nat, deferred : Nat, bound : Nat]] :
     \A f \in Range(w.facts) : ToldByClaim(p, f) \/ f \in Range(BareFacts(p, c))}

LEMMA AppendRange ==
  ASSUME NEW S, NEW s \in Seq(S), NEW e \in S
  PROVE  /\ Append(s, e) \in Seq(S)
         /\ Range(Append(s, e)) = Range(s) \cup {e}
         /\ Len(Append(s, e)) = Len(s) + 1
<1>1. /\ Append(s, e) \in Seq(S) /\ Len(Append(s, e)) = Len(s) + 1
      /\ \A i \in 1 .. Len(s) : Append(s, e)[i] = s[i]
      /\ Append(s, e)[Len(s) + 1] = e
  BY AppendProperties
<1>2. /\ DOMAIN s = 1 .. Len(s) /\ DOMAIN Append(s, e) = 1 .. Len(s) + 1 /\ Len(s) \in Nat
  BY <1>1, LenProperties
<1>3. \A x : x \in Range(Append(s, e)) <=> x \in Range(s) \cup {e}
  BY <1>1, <1>2 DEF Range
<1> QED
  BY <1>1, <1>3

LEMMA ConcatRange ==
  ASSUME NEW S, NEW s \in Seq(S), NEW t \in Seq(S)
  PROVE  /\ s \o t \in Seq(S)
         /\ Range(s \o t) = Range(s) \cup Range(t)
<1>1. /\ s \o t \in Seq(S) /\ Len(s \o t) = Len(s) + Len(t)
      /\ \A i \in 1 .. Len(s) + Len(t) : (s \o t)[i] = IF i <= Len(s) THEN s[i] ELSE t[i - Len(s)]
  BY ConcatProperties
<1>2. /\ DOMAIN s = 1 .. Len(s) /\ DOMAIN t = 1 .. Len(t) /\ DOMAIN (s \o t) = 1 .. Len(s) + Len(t)
      /\ Len(s) \in Nat /\ Len(t) \in Nat
  BY <1>1, LenProperties
<1>3. ASSUME NEW x \in Range(s \o t)
      PROVE  x \in Range(s) \cup Range(t)
  BY <1>1, <1>2 DEF Range
<1>4. ASSUME NEW x \in Range(s)
      PROVE  x \in Range(s \o t)
  BY <1>1, <1>2 DEF Range
<1>5. ASSUME NEW x \in Range(t)
      PROVE  x \in Range(s \o t)
  <2>1. PICK i \in 1 .. Len(t) : x = t[i]
    BY <1>2 DEF Range
  <2>2. i + Len(s) \in 1 .. Len(s) + Len(t) /\ ~ (i + Len(s) <= Len(s)) /\ i + Len(s) - Len(s) = i
    BY <1>2
  <2>3. (s \o t)[i + Len(s)] = x
    BY <1>1, <2>1, <2>2
  <2> QED
    BY <1>2, <2>2, <2>3 DEF Range
<1> QED
  BY <1>1, <1>3, <1>4, <1>5

\* The fact f is not added to those there are.
Stood(facts, f) == Repeats(facts, f) /\ (f.kind = "attribute" => HasAttribute(facts))

LEMMA OverlaidRange ==
  ASSUME NEW S, NEW s \in Seq(S), NEW f \in S
  PROVE  /\ Overlaid(s, f) \in Seq(S)
         /\ Range(s) \subseteq Range(Overlaid(s, f))
         /\ Range(Overlaid(s, f)) \subseteq Range(s) \cup {f}
         /\ f \in Range(Overlaid(s, f)) \/ Stood(s, f)
<1>1. <<f>> \in Seq(S) /\ Range(<<f>>) = {f}
  BY DEF Range
<1>2. <<f>> \o s \in Seq(S) /\ Range(<<f>> \o s) = {f} \cup Range(s)
  <2> DEFINE e == <<f>>
  <2>1. e \in Seq(S) /\ Range(e) = {f}
    BY <1>1
  <2> HIDE DEF e
  <2>2. e \o s \in Seq(S) /\ Range(e \o s) = {f} \cup Range(s)
    BY <2>1, ConcatRange
  <2> QED
    BY <2>2 DEF e
<1>3. Append(s, f) \in Seq(S) /\ Range(Append(s, f)) = Range(s) \cup {f}
  BY AppendRange
<1>4. \/ Overlaid(s, f) = Append(s, f) \/ Overlaid(s, f) = <<f>> \o s
      \/ Overlaid(s, f) = s /\ Stood(s, f)
  BY Zenon DEF Overlaid, Stood
<1> DEFINE x == Overlaid(s, f)
           y == <<f>> \o s
           z == Append(s, f)
<1>5. /\ y \in Seq(S) /\ Range(y) = {f} \cup Range(s) /\ z \in Seq(S) /\ Range(z) = Range(s) \cup {f}
      /\ x = z \/ x = y \/ (x = s /\ Stood(s, f))
  BY <1>2, <1>3, <1>4
<1> HIDE DEF x, y, z
<1>6. /\ x \in Seq(S) /\ Range(s) \subseteq Range(x) /\ Range(x) \subseteq Range(s) \cup {f}
      /\ f \in Range(x) \/ Stood(s, f)
  BY <1>5
<1> QED
  BY <1>6 DEF x

\* A claim laid over a wire: at most one fact more, that it tells.
LEMMA ApplyLays ==
  ASSUME NEW p, Shaped(p), NEW c, NEW w \in Laid(p, c), NEW k \in DOMAIN p.claims
  PROVE  /\ ApplyClaim(p, w, p.claims[k]) \in Laid(p, c)
         /\ \A f \in Range(w.facts) : f \in Range(ApplyClaim(p, w, p.claims[k]).facts)
         /\ w.report.deferred <= ApplyClaim(p, w, p.claims[k]).report.deferred
<1> DEFINE a == p.claims[k]
           f == ClaimFact(p, a)
<1>1. a \in Claim
  BY ClaimShape
<1>2. a.origin = "explicit" => k \in Explicit(p)
  BY DEF Explicit
<1>3. a.origin \in {"explicit", "assumed", "derived"}
  BY <1>1 DEF Claim
<1>w. /\ w.facts \in Seq(WireFact) /\ w.mentions \subseteq Ends(p)
      /\ w.report \in [received : Nat, assumed : Nat, deferred : Nat, bound : Nat]
      /\ w.op = "none" /\ w.target = NoTarget
      /\ w = [facts |-> w.facts, mentions |-> w.mentions, op |-> "none", target |-> NoTarget,
              report |-> w.report]
  BY DEF Laid
<1>4. Explicit(p) # {} => FirstOwned(p) \in Ends(p)
  BY IdentitySaid DEF Ends
<1>5. /\ NoMention \in Ends(p)
      /\ a.origin = "explicit" => a.subject \in Ends(p) /\ ClaimSubject(p, a) \in Ends(p)
  BY <1>2, ClaimEnds DEF Ends
<1> DEFINE x == ApplyClaim(p, w, a)
<1> HIDE DEF a, f
<1>6. CASE x = [w EXCEPT !.report.assumed = @ + 1]
  BY <1>6, <1>w DEF Laid, a
<1>7. CASE x = [w EXCEPT !.report.deferred = @ + 1]
  BY <1>7, <1>w DEF Laid, a
<1>8. CASE a.origin = "explicit" /\ x = [w EXCEPT !.report.bound = @ + 1, !.mentions = @ \cup {a.subject}]
  <2> DEFINE M == w.mentions \cup {a.subject}
             R == [w.report EXCEPT !.bound = @ + 1]
  <2>1. x.facts = w.facts /\ x.mentions = M /\ x.report = R /\ x.op = "none" /\ x.target = NoTarget
        /\ x = [facts |-> w.facts, mentions |-> M, op |-> "none", target |-> NoTarget, report |-> R]
    BY <1>8, <1>w
  <2>2. M \subseteq Ends(p) /\ R.deferred = w.report.deferred /\ w.report.deferred \in Nat
        /\ R \in [received : Nat, assumed : Nat, deferred : Nat, bound : Nat]
    BY <1>8, <1>w, <1>5
  <2>3. \A g \in Range(w.facts) : ToldByClaim(p, g) \/ g \in Range(BareFacts(p, c))
    BY DEF Laid
  <2> HIDE DEF x, M, R
  <2>4. x \in Laid(p, c)
    BY <2>1, <2>2, <2>3, <1>w DEF Laid
  <2> QED
    BY <2>1, <2>2, <2>4 DEF x, a
<1>9. CASE x = w
  BY <1>9, <1>w DEF a
<1>10. CASE a.origin = "explicit" /\ x = [w EXCEPT !.mentions = @ \cup {ClaimSubject(p, a)}]
  BY <1>10, <1>w, <1>5 DEF Laid, a
<1>11. CASE /\ a.origin = "explicit" /\ Buildable(p, a)
            /\ a.kind \in {"attribute", "relation", "measurement"}
            /\ x = [w EXCEPT !.facts = Overlaid(@, f), !.mentions = @ \cup ({f.of, f.to} \ {NoMention})]
  <2>1. f \in WireFact /\ {f.of, f.to} \subseteq Ends(p) /\ ToldByClaim(p, f)
    BY <1>2, <1>11, ClaimFactShape DEF a, f, Ends, ToldByClaim
  <2>2. /\ Overlaid(w.facts, f) \in Seq(WireFact)
        /\ Range(w.facts) \subseteq Range(Overlaid(w.facts, f))
        /\ Range(Overlaid(w.facts, f)) \subseteq Range(w.facts) \cup {f}
    BY <2>1, <1>w, OverlaidRange
  <2> DEFINE F == Overlaid(w.facts, f)
             M == w.mentions \cup ({f.of, f.to} \ {NoMention})
  <2>7. M \subseteq Ends(p)
    BY <2>1, <1>w
  <2> HIDE DEF F, M
  <2>8. x = [w EXCEPT !.facts = F, !.mentions = M]
    BY <1>11 DEF F, M
  <2>3. /\ x.facts = Overlaid(w.facts, f) /\ x.mentions \subseteq Ends(p)
        /\ x = [facts |-> x.facts, mentions |-> x.mentions, op |-> "none", target |-> NoTarget,
                report |-> w.report]
    <3> HIDE DEF x
    <3>1. x.facts = F /\ x.mentions = M /\ x.report = w.report /\ x.op = "none" /\ x.target = NoTarget
          /\ x = [facts |-> F, mentions |-> M, op |-> "none", target |-> NoTarget, report |-> w.report]
      BY <2>8, <1>w
    <3> QED
      BY <3>1, <2>7 DEF F
  <2> HIDE DEF x
  <2>4. \A g \in Range(x.facts) : ToldByClaim(p, g) \/ g \in Range(BareFacts(p, c))
    BY <2>1, <2>2, <2>3 DEF Laid
  <2>5. x \in Laid(p, c)
    BY <2>2, <2>3, <2>4, <1>w DEF Laid
  <2>6. x.report.deferred = w.report.deferred /\ w.report.deferred \in Nat
    BY <2>3, <1>w
  <2> QED
    BY <2>2, <2>3, <2>5, <2>6 DEF x, a
<1>12. a.kind \in {"entity", "class", "relation", "attribute", "intrinsic", "measurement", "state", "event"}
  BY <1>1 DEF Claim
<1> QED
  <2>1. \/ x = [w EXCEPT !.report.assumed = @ + 1]
        \/ x = [w EXCEPT !.report.deferred = @ + 1]
        \/ a.origin = "explicit" /\ x = [w EXCEPT !.report.bound = @ + 1, !.mentions = @ \cup {a.subject}]
        \/ x = w
        \/ a.origin = "explicit" /\ x = [w EXCEPT !.mentions = @ \cup {ClaimSubject(p, a)}]
        \/ /\ a.origin = "explicit" /\ Buildable(p, a)
           /\ a.kind \in {"attribute", "relation", "measurement"}
           /\ x = [w EXCEPT !.facts = Overlaid(@, f), !.mentions = @ \cup ({f.of, f.to} \ {NoMention})]
    BY <1>3, <1>12 DEF ApplyClaim, Deferred, f
  <2> QED
    BY <2>1, <1>6, <1>7, <1>8, <1>9, <1>10, <1>11

\* Functions that are computed alike are the same.
LEMMA SameSteps ==
  ASSUME NEW n \in Nat, NEW f, NEW g, f[0] = g[0],
         \A k \in 1 .. n : f[k - 1] = g[k - 1] => f[k] = g[k]
  PROVE  f[n] = g[n]
<1> DEFINE T == {k \in 0 .. n : f[k] = g[k]}
<1>1. 0 \in T
  OBVIOUS
<1>2. ASSUME NEW k \in 0 .. n, k \in T, k < n
      PROVE  k + 1 \in T
  <2>1. k + 1 \in 1 .. n /\ k + 1 - 1 = k /\ k + 1 \in 0 .. n
    BY <1>2
  <2> QED
    BY <2>1, <1>2
<1> HIDE DEF T
<1>3. 0 .. n \subseteq T
  BY <1>1, <1>2, UpTo
<1> QED
  BY <1>3 DEF T

\* The claims are applied in order, each to what the ones before left.
Applying(p, c, bare, at) ==
  /\ at \in [0 .. Len(p.claims) -> Laid(p, c)]
  /\ at[0] = bare /\ at[Len(p.claims)] = Applied(p, bare)
  /\ \A k \in 1 .. Len(p.claims) : at[k] = ApplyClaim(p, at[k - 1], p.claims[k])

LEMMA AppliedSteps ==
  ASSUME NEW p, Shaped(p), NEW c, NEW bare \in Laid(p, c)
  PROVE  \E at : Applying(p, c, bare, at)
<1> DEFINE n == Len(p.claims)
           L == Laid(p, c)
           step == [k \in 1 .. n |-> [w \in L |-> ApplyClaim(p, w, p.claims[k])]]
<1>1. n \in Nat /\ 1 .. n = DOMAIN p.claims
  BY LenProperties, ShapeFacts
<1>2. \A w \in L, k \in 1 .. n : ApplyClaim(p, w, p.claims[k]) \in L
  BY <1>1, ApplyLays
<1> HIDE DEF n, L
<1>3. step \in [1 .. n -> [L -> L]]
  BY <1>2
<1>4. \A w \in L, k \in 1 .. n : step[k][w] = ApplyClaim(p, w, p.claims[k])
  OBVIOUS
<1>5. bare \in L
  BY DEF L
<1> HIDE DEF step
<1>6. PICK at : Taking(n, L, bare, step, at)
  BY <1>1, <1>3, <1>5, StepsTaken
<1>a. /\ at \in [0 .. n -> L] /\ at[0] = bare
      /\ \A k \in 1 .. n : at[k] = step[k][at[k - 1]]
  BY <1>6, Zenon DEF Taking
<1>7. at[0] = bare
  BY <1>a
<1>8. ASSUME NEW k \in 1 .. n
      PROVE  at[k] = ApplyClaim(p, at[k - 1], p.claims[k])
  <2>1. k - 1 \in 0 .. n
    BY <1>1
  <2> QED
    BY <2>1, <1>4, <1>a
<1> DEFINE Rec(g) == g = [k \in 0 .. n |-> IF k = 0 THEN bare ELSE ApplyClaim(p, g[k - 1], p.claims[k])]
<1>9. Rec(at)
  <2>1. \A k \in 0 .. n : at[k] = IF k = 0 THEN bare ELSE ApplyClaim(p, at[k - 1], p.claims[k])
    BY <1>1, <1>7, <1>8
  <2>2. at = [k \in 0 .. n |-> at[k]]
    BY <1>a
  <2> QED
    BY <2>1, <2>2, Zenon
<1>10. Applied(p, bare) = (CHOOSE g : Rec(g))[n]
  BY Zenon DEF Applied, n
<1> DEFINE after == CHOOSE g : Rec(g)
<1>11. Rec(after)
  BY <1>9, Zenon
<1>12. /\ after[0] = bare
       /\ \A k \in 1 .. n : after[k] = ApplyClaim(p, after[k - 1], p.claims[k])
  <2> HIDE DEF after
  <2> QED
    BY <1>1, <1>11
<1> HIDE DEF after, Rec
<1>13. after[n] = at[n]
  <2>1. after[0] = at[0]
    BY <1>7, <1>12
  <2>2. \A k \in 1 .. n : after[k - 1] = at[k - 1] => after[k] = at[k]
    BY <1>8, <1>12
  <2> QED
    BY <1>1, <2>1, <2>2, SameSteps
<1>14. Applied(p, bare) = at[n]
  BY <1>10, <1>13 DEF after
<1>15. Applying(p, c, bare, at)
  BY <1>a, <1>8, <1>14, Zenon DEF Applying, n, L
<1> QED
  BY <1>15

LEMMA ImageFinite ==
  ASSUME NEW S, IsFiniteSet(S), NEW f
  PROVE  IsFiniteSet({f[x] : x \in S})
<1> DEFINE g == [x \in S |-> f[x]]
           T == {f[x] : x \in S}
<1>1. g \in Surjection(S, T)
  BY DEF Surjection
<1> HIDE DEF g, T
<1> QED
  BY <1>1, FS_Surjection DEF T

\* A finite set can be written as a sequence.
LEMMA Enumerated ==
  ASSUME NEW S, IsFiniteSet(S)
  PROVE  SetToSeq(S) \in Seq(S) /\ Range(SetToSeq(S)) \subseteq S
<1> DEFINE n == Cardinality(S)
<1>1. n \in Nat /\ ExistsBijection(1 .. n, S)
  BY FS_CardinalityType
<1>2. PICK f \in [1 .. n -> S] : IsInjective(f)
  BY <1>1 DEF ExistsBijection, Bijection, Injection
<1>3. SetToSeq(S) \in [1 .. n -> S]
  BY <1>2, Zenon DEF SetToSeq
<1> HIDE DEF n
<1>4. SetToSeq(S) \in Seq(S)
  BY <1>1, <1>3
<1> QED
  BY <1>3, <1>4 DEF Range

LEMMA FewFinite ==
  ASSUME NEW a, NEW b, NEW d
  PROVE  IsFiniteSet({a, b, d})
<1>1. IsFiniteSet({})
  BY FS_EmptySet
<1>2. IsFiniteSet({} \cup {a})
  BY <1>1, FS_AddElement
<1>3. IsFiniteSet(({} \cup {a}) \cup {b})
  BY <1>2, FS_AddElement
<1>4. IsFiniteSet((({} \cup {a}) \cup {b}) \cup {d})
  BY <1>3, FS_AddElement
<1>5. (({} \cup {a}) \cup {b}) \cup {d} = {a, b, d}
  OBVIOUS
<1> QED
  BY <1>4, <1>5

LEMMA PositionsFinite ==
  ASSUME NEW S, NEW s \in Seq(S)
  PROVE  IsFiniteSet(DOMAIN s)
<1>1. DOMAIN s = 1 .. Len(s) /\ Len(s) \in Nat
  BY LenProperties
<1>2. 1 \in Int /\ Len(s) \in Int
  BY <1>1
<1>3. IsFiniteSet(1 .. Len(s))
  BY <1>2, FS_Interval
<1> QED
  BY <1>1, <1>3

LEMMA SaidFinite ==
  ASSUME NEW p, Shaped(p)
  PROVE  IsFiniteSet(SaidMentions(p)) /\ IsFiniteSet(Owned(p))
<1>2. IsFiniteSet(DOMAIN p.claims) /\ IsFiniteSet(DOMAIN p.others)
  BY ShapeFacts, PositionsFinite
<1>3. IsFiniteSet(Mentions(p))
  <2>1. IsFiniteSet({p.others[k] : k \in DOMAIN p.others})
    <3> DEFINE f == p.others
               S == DOMAIN f
    <3>1. IsFiniteSet(S)
      BY <1>2
    <3> HIDE DEF f, S
    <3>2. IsFiniteSet({f[x] : x \in S})
      BY <3>1, ImageFinite
    <3> QED
      BY <3>2 DEF f, S
  <2>2. IsFiniteSet({p.subject, p.object, p.context})
    BY FewFinite
  <2>3. IsFiniteSet({p.subject, p.object, p.context} \cup Range(p.others))
    BY <2>1, <2>2, FS_Union DEF Range
  <2> QED
    BY <2>3, FS_Subset DEF Mentions
<1>4. IsFiniteSet(UNION {{p.claims[k].subject, p.claims[k].object} : k \in Explicit(p)})
  <2> DEFINE f == [k \in Explicit(p) |-> {p.claims[k].subject, p.claims[k].object}]
             S == Explicit(p)
             T == {f[x] : x \in S}
  <2>1. IsFiniteSet(S)
    BY <1>2, FS_Subset DEF Explicit
  <2>2. ASSUME NEW U \in T
        PROVE  IsFiniteSet(U)
    <3>1. PICK k \in Explicit(p) : U = {p.claims[k].subject, p.claims[k].object, p.claims[k].object}
      OBVIOUS
    <3> HIDE DEF T
    <3> QED
      BY <3>1, FewFinite
  <2>3. {{p.claims[k].subject, p.claims[k].object} : k \in Explicit(p)} = T
    OBVIOUS
  <2> HIDE DEF f, S
  <2>4. IsFiniteSet(T)
    BY <2>1, ImageFinite
  <2> HIDE DEF T
  <2>5. IsFiniteSet(UNION T)
    BY <2>2, <2>4, FS_UNION
  <2> QED
    BY <2>3, <2>5
<1>5. IsFiniteSet(SaidMentions(p))
  BY <1>3, <1>4, FS_Union DEF SaidMentions
<1> QED
  BY <1>5, IdentitySaid, FS_Subset

-----------------------------------------------------------------------------
(* The concept is of the kind that was routed to.                          *)

LEMMA ConceptKind ==
  ASSUME NEW p, NEW kind
  PROVE  ResolveConcept(p, kind).kind = kind
<1> DEFINE gated == [Concept(kind, "unresolved") EXCEPT !.abstains = p.alias = "gated"]
           rules == <<
  <<kind = "type",                           Concept(kind, "safe_partial")>>,
  <<kind = "attribute" /\ p.sense # "none",  BySense(p, kind)>>,
  <<kind = "attribute" /\ p.attr # NoValue,  Concept(kind, "resolved")>>,
  <<kind = "attribute",                      [Concept(kind, "unresolved") EXCEPT !.abstains = TRUE]>>,
  <<kind = "measurement" /\ MeasuredValue(p) # NoValue, Concept(kind, "resolved")>>,
  <<kind = "measurement",                    Concept(kind, "safe_partial")>>,
  <<p.alias = "blocked",                     Concept(kind, "blocked")>>,
  <<p.alias = "one",                         Concept(kind, "resolved")>>,
  <<p.alias = "tie",                         Concept(kind, "ambiguous")>>,
  <<p.sense # "none",                        BySense(p, kind)>>,
  <<kind = "relation" /\ Says(p, "relation")
      /\ p.subject # NoMention /\ p.object # NoMention, Concept(kind, "resolved")>>,
  <<TRUE, gated>> >>
<1>1. \A status : Concept(kind, status).kind = kind
  BY DEF Concept
<1>2. BySense(p, kind).kind = kind /\ gated.kind = kind
      /\ [Concept(kind, "unresolved") EXCEPT !.abstains = TRUE].kind = kind
  BY DEF Concept, BySense
<1>3. ResolveConcept(p, kind) = FirstOf(rules)
  BY Zenon DEF ResolveConcept
<1>4. DOMAIN rules = 1 .. 12 /\ rules[12][1]
  OBVIOUS
<1> HIDE DEF gated
<1>5. ASSUME NEW k \in 1 .. 12
      PROVE  rules[k][2].kind = kind
  <2>1. /\ rules[1][2].kind = kind /\ rules[2][2].kind = kind /\ rules[3][2].kind = kind
        /\ rules[4][2].kind = kind /\ rules[5][2].kind = kind /\ rules[6][2].kind = kind
    BY <1>1, <1>2
  <2>2. /\ rules[7][2].kind = kind /\ rules[8][2].kind = kind /\ rules[9][2].kind = kind
        /\ rules[10][2].kind = kind /\ rules[11][2].kind = kind /\ rules[12][2].kind = kind
    BY <1>1, <1>2
  <2>3. k \in {1, 2, 3, 4, 5, 6, 7, 8, 9, 10, 11, 12}
    OBVIOUS
  <2> HIDE DEF rules
  <2> QED
    BY <2>1, <2>2, <2>3
<1> HIDE DEF rules
<1> DEFINE n == 12
<1>6. n \in Nat /\ DOMAIN rules = 1 .. n /\ n \in 1 .. n /\ rules[n][1]
  BY <1>4
<1> HIDE DEF n
<1>7. PICK k \in 1 .. n : FirstOf(rules) = rules[k][2]
  BY <1>6, FirstRule
<1> QED
  BY <1>3, <1>5, <1>7 DEF n

Told(p, c, f) == ToldFirst(p, c, f) \/ ToldByClaim(p, f) \/ ToldAsOwn(p, f)

\* A wire whose facts are told, about things that are mentioned.
Woven(p, c, w) ==
  /\ w.facts \in Seq(WireFact) /\ w.mentions \subseteq Ends(p)
  /\ w.report \in [received : Nat, assumed : Nat, deferred : Nat, bound : Nat]
  /\ \A f \in Range(w.facts) : Told(p, c, f) /\ f.of \in Ends(p) /\ f.to \in Ends(p)

LEMMA FactFields ==
  ASSUME NEW kind, NEW of, NEW to, NEW dim, NEW val, NEW mode
  PROVE  LET f == Fact(kind, of, to, dim, val, mode) IN
         /\ f.kind = kind /\ f.of = of /\ f.to = to /\ f.dim = dim /\ f.val = val /\ f.mode = mode
         /\ (/\ kind \in Kinds /\ of \in Mention \cup {Self} /\ to \in Mention
             /\ dim \in Word /\ val \in Word
             /\ mode \in {"assert", "terminate", "deny_current", "beside"})
              => f \in WireFact
  BY DEF Fact, WireFact

LEMMA ToldEnds ==
  ASSUME NEW p, Shaped(p), NEW c, NEW f, Told(p, c, f)
  PROVE  f.of \in Ends(p) /\ f.to \in Ends(p)
<1>1. /\ p.subject \in Ends(p) /\ p.object \in Ends(p) /\ p.context \in Ends(p)
      /\ MeasuredEntity(p) \in Ends(p) /\ NoMention \in Ends(p) /\ Self \in Ends(p)
  BY SaidFacts DEF Ends, MeasuredEntity
<1>2. CASE ToldFirst(p, c, f)
  <2>1. CASE f = Fact("measurement", MeasuredEntity(p), p.context, p.meas.dim, p.meas.val, "assert")
    BY <2>1, <1>1, FactFields
  <2>2. CASE f # Fact("measurement", MeasuredEntity(p), p.context, p.meas.dim, p.meas.val, "assert")
    BY <2>2, <1>1, <1>2 DEF ToldFirst
  <2> QED
    BY <2>1, <2>2
<1>3. CASE ToldByClaim(p, f)
  BY <1>3, ClaimFactShape DEF ToldByClaim, Ends
<1>4. CASE ToldAsOwn(p, f)
  <2>1. PICK m \in Owned(p) : f = Owns(m)
    BY <1>4 DEF ToldAsOwn
  <2>2. f.of = Self /\ f.to = m
    BY <2>1 DEF Owns, Fact
  <2> QED
    BY <2>2, <1>1, IdentitySaid DEF Ends
<1> QED
  BY <1>2, <1>3, <1>4 DEF Told

LEMMA BareShape ==
  ASSUME NEW p, Shaped(p), NEW c, ~ IsCorrection(p)
  PROVE  /\ BareFacts(p, c) \in Seq(WireFact)
         /\ \A f \in Range(BareFacts(p, c)) : ToldFirst(p, c, f)
<1> DEFINE a == IF \E f \in Range(PrimaryFacts(p, c)) : ~ Stands(p, f) THEN <<>> ELSE PrimaryFacts(p, c)
           d == BesideFacts(p, c)
           b == IF HasPrimary(p, c) \/ p.claims # <<>> THEN MeasurementFacts(p) ELSE <<>>
<1>1. <<>> \in Seq(WireFact) /\ Range(<<>>) = {}
  BY DEF Range
<1>2. a \in Seq(WireFact) /\ \A f \in Range(a) : ToldFirst(p, c, f)
  BY <1>1, PrimaryShape
<1>3. b \in Seq(WireFact) /\ \A f \in Range(b) : ToldFirst(p, c, f)
  <2>1. \A f \in Range(MeasurementFacts(p)) : ToldFirst(p, c, f)
    BY MeasurementShape DEF ToldFirst
  <2> QED
    BY <1>1, <2>1, MeasurementShape
<1>4. BareFacts(p, c) = (a \o d) \o b
  BY DEF BareFacts
<1>5. d \in Seq(WireFact) /\ \A f \in Range(d) : ToldFirst(p, c, f)
  BY BesideShape
<1> HIDE DEF a, b, d
<1> DEFINE e == a \o d
<1>6. e \in Seq(WireFact) /\ \A f \in Range(e) : ToldFirst(p, c, f)
  BY <1>2, <1>5, ConcatRange
<1>7. BareFacts(p, c) = e \o b
  BY <1>4
<1> HIDE DEF e
<1> QED
  BY <1>3, <1>6, <1>7, ConcatRange

\* The wire before the claims.
Bare(p, c) ==
  LET facts == BareFacts(p, c)
      ends  == UNION {{f.of, f.to} : f \in {g \in Range(facts) : g.mode # "beside"}}
      said  == IdentityMentions(p) \cup ends
  IN [NoWire EXCEPT !.facts = facts, !.mentions = said \ {NoMention}, !.report.received = Len(p.claims)]

\* The facts before the claims, without those beside an attribute.
FirstTold(p, c) == {g \in Range(BareFacts(p, c)) : g.mode # "beside"}

LEMMA BareFields ==
  ASSUME NEW p, NEW c
  PROVE  /\ Overlay(p, c) = WithSubjects(WithOwned(p, Applied(p, Bare(p, c))))
         /\ Bare(p, c).facts = BareFacts(p, c)
         /\ Bare(p, c).report = [received |-> Len(p.claims), assumed |-> 0, deferred |-> 0, bound |-> 0]
         /\ Bare(p, c) = [facts |-> BareFacts(p, c), mentions |-> Bare(p, c).mentions, op |-> "none",
                          target |-> NoTarget, report |-> Bare(p, c).report]
         /\ Bare(p, c).mentions = (IdentityMentions(p)
                                     \cup UNION {{f.of, f.to} : f \in FirstTold(p, c)}) \ {NoMention}
<1>1. Overlay(p, c) = WithSubjects(WithOwned(p, Applied(p, Bare(p, c))))
  BY Zenon DEF Overlay, Bare
<1> DEFINE M == (IdentityMentions(p) \cup UNION {{f.of, f.to} : f \in FirstTold(p, c)}) \ {NoMention}
           F == BareFacts(p, c)
<1>2. Bare(p, c) = [NoWire EXCEPT !.facts = F, !.mentions = M, !.report.received = Len(p.claims)]
  BY Zenon DEF Bare, FirstTold
<1> HIDE DEF M, F
<1>3. Bare(p, c) = [facts |-> F, mentions |-> M, op |-> "none", target |-> NoTarget,
                    report |-> [received |-> Len(p.claims), assumed |-> 0, deferred |-> 0, bound |-> 0]]
  BY <1>2 DEF NoWire, NoReport
<1>4. Bare(p, c).facts = F /\ Bare(p, c).mentions = M
      /\ Bare(p, c).report = [received |-> Len(p.claims), assumed |-> 0, deferred |-> 0, bound |-> 0]
  BY <1>3
<1> QED
  BY <1>1, <1>3, <1>4 DEF M, F

LEMMA BareLaid ==
  ASSUME NEW p, Shaped(p), NEW c, ~ IsCorrection(p)
  PROVE  Bare(p, c) \in Laid(p, c)
<1> DEFINE M == Bare(p, c).mentions
           F == BareFacts(p, c)
           R == Bare(p, c).report
<1>1. F \in Seq(WireFact) /\ \A f \in Range(F) : ToldFirst(p, c, f)
  BY BareShape
<1>2. M \subseteq Ends(p)
  <2>1. \A f \in Range(F) : f.of \in Ends(p) /\ f.to \in Ends(p)
    BY <1>1, ToldEnds DEF Told
  <2>2. IdentityMentions(p) \subseteq Ends(p)
    BY IdentitySaid DEF Ends
  <2> DEFINE U == {{f.of, f.to} : f \in FirstTold(p, c)}
  <2>3. M = (IdentityMentions(p) \cup UNION U) \ {NoMention}
    BY BareFields, Zenon
  <2>6. FirstTold(p, c) \subseteq Range(F)
    BY DEF FirstTold
  <2>5. \A V \in U : \E f \in Range(F) : V = {f.of, f.to}
    BY <2>6
  <2> HIDE DEF M, F, U
  <2>4. ASSUME NEW m \in M
        PROVE  m \in Ends(p)
    <3>0. m \in IdentityMentions(p) \/ \E V \in U : m \in V
      BY <2>3
    <3>1. m \in IdentityMentions(p) \/ \E f \in Range(F) : m \in {f.of, f.to}
      BY <3>0, <2>5
    <3> QED
      BY <3>1, <2>1, <2>2
  <2> QED
    BY <2>4
<1>3. R \in [received : Nat, assumed : Nat, deferred : Nat, bound : Nat]
  <2>1. Len(p.claims) \in Nat
    BY ShapeFacts, LenProperties
  <2>2. R = [received |-> Len(p.claims), assumed |-> 0, deferred |-> 0, bound |-> 0]
    BY BareFields, Zenon
  <2> HIDE DEF R
  <2> QED
    BY <2>1, <2>2
<1>4. Bare(p, c) = [facts |-> F, mentions |-> M, op |-> "none", target |-> NoTarget, report |-> R]
  BY BareFields
<1>5. \A f \in Range(F) : f \in Range(BareFacts(p, c))
  OBVIOUS
<1> DEFINE x == Bare(p, c)
<1> HIDE DEF M, F, R
<1>6. x \in [facts : Seq(WireFact), mentions : SUBSET Ends(p), op : {"none"}, target : {NoTarget},
             report : [received : Nat, assumed : Nat, deferred : Nat, bound : Nat]] /\ x.facts = F
  BY <1>1, <1>2, <1>3, <1>4
<1> QED
  BY <1>5, <1>6 DEF Laid

\* Binding what is beside an attribute changes the mentions only.
LEMMA SubjectsBound ==
  ASSUME NEW p, NEW w, w = [facts |-> w.facts, mentions |-> w.mentions, op |-> w.op,
                            target |-> w.target, report |-> w.report]
  PROVE  /\ WithSubjects(w).facts = w.facts /\ WithSubjects(w).report = w.report
         /\ WithSubjects(w).op = w.op
         /\ w.mentions \subseteq WithSubjects(w).mentions
         /\ \A m \in WithSubjects(w).mentions : m \in w.mentions \/ \E f \in Range(w.facts) : m = f.of
         /\ HasAttribute(w.facts) =>
              \A f \in Range(w.facts) : f.mode = "beside" => f.of \in WithSubjects(w).mentions
<1> DEFINE N == {f.of : f \in {g \in Range(w.facts) : g.mode = "beside"}}
<1>1. CASE ~ HasAttribute(w.facts)
  <2>1. WithSubjects(w) = w
    BY <1>1 DEF WithSubjects
  <2> QED
    BY <1>1, <2>1
<1>2. CASE HasAttribute(w.facts)
  <2>1. WithSubjects(w) = [w EXCEPT !.mentions = @ \cup N]
    BY <1>2 DEF WithSubjects
  <2>2. \A f \in Range(w.facts) : f.mode = "beside" => f.of \in N
    OBVIOUS
  <2>3. \A m \in N : \E f \in Range(w.facts) : m = f.of
    OBVIOUS
  <2> DEFINE M == w.mentions \cup N
  <2> HIDE DEF N
  <2>4. w.mentions \subseteq M /\ N \subseteq M /\ \A m \in M : m \in w.mentions \/ m \in N
    OBVIOUS
  <2>5. WithSubjects(w) = [w EXCEPT !.mentions = M]
    BY <2>1
  <2> HIDE DEF M
  <2>6. /\ WithSubjects(w).facts = w.facts /\ WithSubjects(w).report = w.report
        /\ WithSubjects(w).op = w.op /\ WithSubjects(w).mentions = M
    BY <2>5
  <2> QED
    BY <2>2, <2>3, <2>4, <2>6
<1> QED
  BY <1>1, <1>2

LEMMA OverlayWoven ==
  ASSUME NEW p, Shaped(p), NEW c, ~ IsCorrection(p)
  PROVE  /\ Woven(p, c, Overlay(p, c)) /\ Overlay(p, c).op = "none"
         /\ \A f \in Range(Applied(p, Bare(p, c)).facts) : f \in Range(Overlay(p, c).facts)
         /\ Overlay(p, c).report = Applied(p, Bare(p, c)).report
         /\ Applied(p, Bare(p, c)).mentions \subseteq Overlay(p, c).mentions
         /\ HasAttribute(Overlay(p, c).facts) =>
              \A f \in Range(Overlay(p, c).facts) :
                f.mode = "beside" => f.of \in Overlay(p, c).mentions
<1> DEFINE w == Applied(p, Bare(p, c))
           S == {Owns(m) : m \in {x \in Owned(p) : ~ Repeats(w.facts, Owns(x))}}
           M == w.mentions \cup UNION {{Self, m} : m \in Owned(p)}
<1>1. PICK at : Applying(p, c, Bare(p, c), at)
  BY BareLaid, AppliedSteps
<1>2. w \in Laid(p, c)
  <2>1. Len(p.claims) \in 0 .. Len(p.claims)
    BY ShapeFacts, LenProperties
  <2> QED
    BY <1>1, <2>1, Zenon DEF Applying
<1> DEFINE y == WithOwned(p, w)
<1>3. Overlay(p, c) = WithSubjects(y) /\ y = [w EXCEPT !.facts = @ \o SetToSeq(S), !.mentions = M]
  BY BareFields, Zenon DEF WithOwned
<1> HIDE DEF w
<1>4. /\ w = [facts |-> w.facts, mentions |-> w.mentions, op |-> "none", target |-> NoTarget,
              report |-> w.report]
      /\ w.facts \in Seq(WireFact) /\ w.mentions \subseteq Ends(p)
      /\ w.report \in [received : Nat, assumed : Nat, deferred : Nat, bound : Nat]
      /\ \A f \in Range(w.facts) : ToldByClaim(p, f) \/ f \in Range(BareFacts(p, c))
  BY <1>2 DEF Laid
<1>5. IsFiniteSet(S)
  <2> DEFINE T == {x \in Owned(p) : ~ Repeats(w.facts, Owns(x))}
             g == [m \in T |-> Owns(m)]
  <2>1. IsFiniteSet(T)
    BY SaidFinite, FS_Subset
  <2>2. S = {g[m] : m \in T}
    OBVIOUS
  <2> HIDE DEF T, g, S
  <2> QED
    BY <2>1, <2>2, ImageFinite
<1>6. \A f \in S : f \in WireFact /\ ToldAsOwn(p, f)
  <2> TAKE f \in S
  <2>1. PICK m \in Owned(p) : f = Owns(m)
    OBVIOUS
  <2>2. m \in Mention
    BY IdentitySaid
  <2>3. f \in WireFact
    BY <2>1, <2>2, FactFields DEF Owns, Kinds, Word
  <2> QED
    BY <2>1, <2>3 DEF ToldAsOwn
<1>7. M \subseteq Ends(p) /\ w.mentions \subseteq M
  BY <1>4, IdentitySaid DEF Ends
<1> HIDE DEF S, M
<1>8. SetToSeq(S) \in Seq(WireFact) /\ Range(SetToSeq(S)) \subseteq S
  <2>1. SetToSeq(S) \in Seq(S) /\ S \subseteq WireFact
    BY <1>5, <1>6, Enumerated
  <2> QED
    BY <2>1, <1>5, Enumerated
<1> DEFINE F == w.facts \o SetToSeq(S)
<1>9. F \in Seq(WireFact) /\ Range(F) = Range(w.facts) \cup Range(SetToSeq(S))
  BY <1>4, <1>8, ConcatRange
<1>10. \A f \in Range(F) : Told(p, c, f) /\ f.of \in Ends(p) /\ f.to \in Ends(p)
  <2>1. \A f \in Range(F) : Told(p, c, f)
    BY <1>4, <1>6, <1>8, <1>9, BareShape DEF Told
  <2> QED
    BY <2>1, ToldEnds
<1> HIDE DEF F, y
<1>11. y = [w EXCEPT !.facts = F, !.mentions = M]
  BY <1>3 DEF F
<1> DEFINE R == w.report
<1> HIDE DEF R
<1>a. y = [facts |-> F, mentions |-> M, op |-> "none", target |-> NoTarget, report |-> R]
  <2>1. w = [facts |-> w.facts, mentions |-> w.mentions, op |-> "none", target |-> NoTarget, report |-> R]
    BY <1>4 DEF R
  <2> DEFINE f == w.facts
             m == w.mentions
             z == [facts |-> f, mentions |-> m, op |-> "none", target |-> NoTarget, report |-> R]
  <2>2. y = [z EXCEPT !.facts = F, !.mentions = M]
    BY <1>11, <2>1
  <2> HIDE DEF f, m
  <2>4. [z EXCEPT !.facts = F]
          = [facts |-> F, mentions |-> m, op |-> "none", target |-> NoTarget, report |-> R]
    OBVIOUS
  <2>5. [[facts |-> F, mentions |-> m, op |-> "none", target |-> NoTarget, report |-> R]
           EXCEPT !.mentions = M]
          = [facts |-> F, mentions |-> M, op |-> "none", target |-> NoTarget, report |-> R]
    OBVIOUS
  <2>3. [z EXCEPT !.facts = F, !.mentions = M]
          = [facts |-> F, mentions |-> M, op |-> "none", target |-> NoTarget, report |-> R]
    BY <2>4, <2>5, Zenon
  <2> QED
    BY <2>2, <2>3
<1>12. /\ y = [facts |-> y.facts, mentions |-> y.mentions, op |-> y.op, target |-> y.target,
               report |-> y.report]
       /\ y.facts = F /\ y.mentions = M /\ y.report = w.report /\ y.op = "none"
  <2>1. y.facts = F /\ y.mentions = M /\ y.report = R /\ y.op = "none" /\ y.target = NoTarget
    BY <1>a
  <2> QED
    BY <1>a, <2>1 DEF R
<1> DEFINE x == Overlay(p, c)
<1>b. /\ WithSubjects(y).facts = y.facts /\ WithSubjects(y).report = y.report
      /\ WithSubjects(y).op = y.op /\ y.mentions \subseteq WithSubjects(y).mentions
      /\ \A m \in WithSubjects(y).mentions : m \in y.mentions \/ \E f \in Range(y.facts) : m = f.of
      /\ HasAttribute(y.facts) =>
           \A f \in Range(y.facts) : f.mode = "beside" => f.of \in WithSubjects(y).mentions
  <2>1. y = [facts |-> y.facts, mentions |-> y.mentions, op |-> y.op, target |-> y.target,
             report |-> y.report]
    BY <1>12
  <2> QED
    BY <2>1, SubjectsBound
<1>c. x = WithSubjects(y) /\ y.facts = F /\ y.mentions = M /\ y.report = w.report /\ y.op = "none"
  BY <1>3, <1>12
<1> HIDE DEF x
<1>13. /\ x.facts = F /\ x.report = w.report /\ x.op = "none" /\ M \subseteq x.mentions
       /\ \A m \in x.mentions : m \in M \/ \E f \in Range(F) : m = f.of
       /\ HasAttribute(F) => \A f \in Range(F) : f.mode = "beside" => f.of \in x.mentions
  BY <1>b, <1>c
<1>14. x.mentions \subseteq Ends(p)
  BY <1>7, <1>10, <1>13
<1>15. \A f \in Range(w.facts) : f \in Range(F)
  BY <1>9
<1>16. Woven(p, c, x)
  BY <1>4, <1>9, <1>10, <1>13, <1>14 DEF Woven
<1>17. /\ Woven(p, c, x) /\ x.op = "none" /\ x.report = w.report /\ w.mentions \subseteq x.mentions
       /\ \A f \in Range(w.facts) : f \in Range(x.facts)
       /\ HasAttribute(x.facts) =>
            \A f \in Range(x.facts) : f.mode = "beside" => f.of \in x.mentions
  BY <1>7, <1>13, <1>15, <1>16
<1> QED
  BY <1>17, Zenon DEF w, x

\* The fact that a replacement tells is of the kind of the concept.
LEMMA PrimaryTold ==
  ASSUME NEW p, Shaped(p), NEW c, c.kind \in {"event", "state", "relation", "attribute"}, IsCorrection(p)
  PROVE  PrimaryFact(p, c, "assert") \in WireFact /\ ToldFirst(p, c, PrimaryFact(p, c, "assert"))
<1>1. /\ p.subject \in Mention /\ MeasuredEntity(p) \in Mention /\ p.object \in Mention
      /\ p.attr.dim \in Word /\ p.attr.val \in Word /\ p.rel \in Word /\ p.state \in Word
      /\ NoMention \in Mention /\ "" \in Word
  BY ShapeFacts DEF MeasuredEntity, Mention, Word
<1>2. PrimaryFact(p, c, "assert") \in WireFact
  <2>2. CASE c.kind = "event"
    BY <1>1, <2>2 DEF PrimaryFact, Fact, WireFact, Kinds
  <2>3. CASE c.kind = "state"
    BY <1>1, <2>3 DEF PrimaryFact, Fact, WireFact, Kinds
  <2>4. CASE c.kind = "relation"
    BY <1>1, <2>4 DEF PrimaryFact, Fact, WireFact, Kinds
  <2>5. CASE c.kind = "attribute"
    BY <1>1, <2>5 DEF PrimaryFact, Fact, WireFact, Kinds
  <2> QED
    BY <2>2, <2>3, <2>4, <2>5
<1>4. c.kind = "attribute" => Described(p, PrimaryFact(p, c, "assert"))
  BY ShapeFacts DEF PrimaryFact, Fact, Described
<1>3. ToldFirst(p, c, PrimaryFact(p, c, "assert"))
  BY <1>4 DEF PrimaryFact, Fact, ToldFirst
<1> QED
  BY <1>2, <1>3

LEMMA Single == \A x : Range(<<x>>) = {x} /\ (x \in WireFact => <<x>> \in Seq(WireFact))
  BY DEF Range

LEMMA Nothing == <<>> \in Seq(WireFact) /\ Range(<<>>) = {}
  BY DEF Range

LEMMA PreferredKind ==
  ASSUME NEW i \in 1 .. 5
  PROVE  <<"measurement", "attribute", "state", "relation", "event">>[i] \in Kinds
<1>1. i = 1 \/ i = 2 \/ i = 3 \/ i = 4 \/ i = 5
  OBVIOUS
<1> QED
  BY <1>1 DEF Kinds

\* The kind of a target, where it is known.
TargetKinds == Kinds \cup {""}

LEMMA ReplacementShape ==
  ASSUME NEW p, Shaped(p), NEW c, IsCorrection(p), NEW target, target.kind \in TargetKinds
  PROVE  /\ Replacement(p, c, target) \in Seq(WireFact)
         /\ \A f \in Range(Replacement(p, c, target)) : ToldFirst(p, c, f)
<1> DEFINE concept(kind) == c.key /\ c.kind = kind /\ p.subject # NoMention
           ready(kind) == CASE kind = "measurement" -> MeasurementFacts(p) # <<>>
                            [] kind = "relation"    -> concept(kind) /\ p.object # NoMention
                            [] kind = "event"       -> c.key /\ c.kind = kind
                            [] OTHER                -> concept(kind)
           order  == <<"measurement", "attribute", "state", "relation", "event">>
           first  == SelectInSeq(order, ready)
           chosen == IF target.kind # "" THEN target.kind ELSE IF first = 0 THEN "" ELSE order[first]
           g == PrimaryFact(p, c, "assert")
<1>1. Replacement(p, c, target) =
        IF Operation(p) # "replace" \/ chosen = "" \/ ~ ready(chosen) THEN <<>>
        ELSE IF chosen = "measurement" THEN MeasurementFacts(p)
        ELSE <<g>> \o (IF chosen = "attribute" THEN Companions(p) ELSE <<>>)
  BY Zenon DEF Replacement
<1>2. first = 0 \/ order[first] \in Kinds
  <2> DEFINE I == {i \in 1 .. Len(order) : ready(order[i])}
  <2>1. first = IF I # {} THEN Min(I) ELSE 0
    BY Zenon DEF SelectInSeq
  <2>2. Len(order) = 5 /\ \A i \in 1 .. 5 : order[i] \in Kinds
    <3>1. Len(order) = 5
      OBVIOUS
    <3> QED
      BY <3>1, PreferredKind, Zenon
  <2> HIDE DEF ready, order
  <2>3. I \in SUBSET (1 .. 5)
    BY <2>2
  <2> HIDE DEF I
  <2>4. ASSUME I # {}
        PROVE  Min(I) \in I
    <3> DEFINE n == 5
    <3>1. n \in Nat /\ I \in SUBSET (1 .. n)
      BY <2>3
    <3> HIDE DEF n
    <3>2. \E m \in I : \A k \in I : m <= k
      BY <3>1, <2>4, FirstPosition
    <3> QED
      BY <3>2, Zenon DEF Min
  <2> QED
    BY <2>1, <2>2, <2>3, <2>4
<1>3. chosen \in Kinds \cup {""}
  <2> HIDE DEF first, order
  <2> QED
    BY <1>2 DEF TargetKinds
<1> HIDE DEF chosen
<1>4. ASSUME chosen # "", chosen # "measurement", ready(chosen)
      PROVE  c.kind = chosen
  BY <1>4
<1> HIDE DEF ready, concept, g, first, order
<1>6. CASE Operation(p) # "replace" \/ chosen = "" \/ ~ ready(chosen)
  <2>1. Replacement(p, c, target) = <<>>
    BY <1>1, <1>6, Zenon
  <2> QED
    BY <2>1, Nothing
<1>7. CASE chosen = "measurement" /\ ~ (Operation(p) # "replace" \/ chosen = "" \/ ~ ready(chosen))
  <2>1. Replacement(p, c, target) = MeasurementFacts(p)
    BY <1>1, <1>7, Zenon
  <2> QED
    BY <2>1, MeasurementShape DEF ToldFirst
<1>8. CASE chosen # "measurement" /\ ~ (Operation(p) # "replace" \/ chosen = "" \/ ~ ready(chosen))
  <2> DEFINE d == IF chosen = "attribute" THEN Companions(p) ELSE <<>>
  <2>1. Replacement(p, c, target) = <<g>> \o d
    BY <1>1, <1>8, Zenon
  <2>2. c.kind \in {"event", "state", "relation", "attribute"}
    BY <1>3, <1>4, <1>8 DEF Kinds
  <2>3. g \in WireFact /\ ToldFirst(p, c, g)
    <3>1. PrimaryFact(p, c, "assert") \in WireFact
      BY <2>2, PrimaryTold
    <3>2. ToldFirst(p, c, PrimaryFact(p, c, "assert"))
      BY <2>2, PrimaryTold
    <3> QED
      BY <3>1, <3>2, Zenon DEF g
  <2>4. d \in Seq(WireFact) /\ \A f \in Range(d) : ToldFirst(p, c, f)
    <3>1. chosen = "attribute" => c.kind = "attribute"
      BY <1>4, <1>8
    <3>2. CASE chosen = "attribute"
      BY <3>1, <3>2, CompanionShape DEF ToldFirst
    <3>3. CASE chosen # "attribute"
      BY <3>3, Nothing
    <3> QED
      BY <3>2, <3>3
  <2>5. <<g>> \in Seq(WireFact) /\ Range(<<g>>) = {g}
    BY <2>3, Single
  <2> DEFINE e == <<g>>
             y == e \o d
  <2> HIDE DEF d
  <2>6. e \in Seq(WireFact) /\ Range(e) = {g}
    BY <2>5
  <2> HIDE DEF e
  <2>7. y \in Seq(WireFact) /\ Range(y) = {g} \cup Range(d)
    BY <2>4, <2>6, ConcatRange
  <2>8. Replacement(p, c, target) = y
    BY <2>1 DEF e
  <2> HIDE DEF y
  <2> QED
    BY <2>3, <2>4, <2>7, <2>8
<1> QED
  BY <1>6, <1>7, <1>8

LEMMA TargetKind ==
  ASSUME NEW p, Shaped(p), NEW c
  PROVE  TargetOf(p, c).kind \in TargetKinds
<1>1. p.target.kind \in Kinds \cup {""}
  BY DEF Shaped, Shape
<1>2. TargetOf(p, c).kind = FirstSaid(p.target.kind, IF c.kind \in Kinds THEN c.kind ELSE "")
  BY DEF TargetOf
<1> QED
  BY <1>1, <1>2 DEF FirstSaid, TargetKinds

LEMMA CorrectionWoven ==
  ASSUME NEW p, Shaped(p), NEW c, IsCorrection(p)
  PROVE  /\ Woven(p, c, CorrectionWire(p, c))
         /\ CorrectionWire(p, c).op = Operation(p)
         /\ CorrectionWire(p, c).target = TargetOf(p, c)
<1> DEFINE F == Replacement(p, c, TargetOf(p, c))
           w == CorrectionWire(p, c)
<1>1. w = [NoWire EXCEPT !.facts = F, !.mentions = Mentions(p), !.op = Operation(p),
                         !.target = TargetOf(p, c)]
  BY Zenon DEF CorrectionWire
<1>2. F \in Seq(WireFact) /\ \A f \in Range(F) : ToldFirst(p, c, f)
  BY TargetKind, ReplacementShape
<1> HIDE DEF F, w
<1>3. /\ w.facts = F /\ w.mentions = Mentions(p) /\ w.op = Operation(p) /\ w.target = TargetOf(p, c)
      /\ w.report = [received |-> 0, assumed |-> 0, deferred |-> 0, bound |-> 0]
  BY <1>1 DEF NoWire, NoReport
<1>4. Mentions(p) \subseteq Ends(p)
  BY DEF Ends, SaidMentions
<1>5. w.report \in [received : Nat, assumed : Nat, deferred : Nat, bound : Nat]
  BY <1>3
<1>6. Woven(p, c, w)
  BY <1>2, <1>3, <1>4, <1>5, ToldEnds DEF Woven, Told
<1> QED
  BY <1>3, <1>6 DEF w

\* What is settled of an utterance.
LEMMA ReadingFields ==
  ASSUME NEW p
  PROVE  LET s == Reading(p)  c == ResolveConcept(p, Route(p)) IN
         /\ s.said = p /\ s.corrects = IsCorrection(p) /\ s.kinds = Assertions(p, c.kind)
         /\ s.executes = Executes(p, c) /\ s.wire = Wire(p, c) /\ c.kind = Route(p)
         /\ s.actionable = Actionable(p, c.kind) /\ s.capability = Capability(p, c)
         /\ s.question = Question(p, c) /\ s.breaks = Breaks(p, c)
  BY ConceptKind DEF Reading, Read

LEMMA ReadingWoven ==
  ASSUME NEW p, Shaped(p)
  PROVE  Woven(p, ResolveConcept(p, Route(p)), Reading(p).wire)
<1> DEFINE c == ResolveConcept(p, Route(p))
<1>1. Reading(p).wire = Wire(p, c)
  BY DEF Reading, Read
<1> HIDE DEF c
<1>2. CASE IsCorrection(p)
  BY <1>1, <1>2, CorrectionWoven DEF Wire, c
<1>3. CASE ~ IsCorrection(p)
  BY <1>1, <1>3, OverlayWoven DEF Wire, c
<1> QED
  BY <1>2, <1>3

-----------------------------------------------------------------------------
(* The rows that are written, and of what fact each tells.                 *)

Row == [kind : Kinds, of : Word, to : Word, dim : Word, val : Word, turn : Nat,
        current : BOOLEAN, effective : BOOLEAN]

Storings == [rows : Seq(Row), ids : Seq(Nat), denied : BOOLEAN]

Untouched == [rows |-> rows, ids |-> <<>>, denied |-> FALSE]

\* A row is what it was, but for being current.
Agree(r, s) == /\ r.kind = s.kind /\ r.of = s.of /\ r.to = s.to /\ r.dim = s.dim /\ r.val = s.val
               /\ r.effective = s.effective

\* What is written later takes nothing back.
Further(m, n) ==
  /\ Len(m.rows) <= Len(n.rows)
  /\ \A k \in 1 .. Len(m.rows) : Agree(n.rows[k], m.rows[k])
  /\ \A k \in Len(m.rows) + 1 .. Len(n.rows) : n.rows[k].effective
  /\ Range(m.ids) \subseteq Range(n.ids)
  /\ m.denied => n.denied

\* What a fact is about is no thing, or was not bound to one.
Unplaced(f, w) == f.of \notin w.mentions \/ Thing(f.of) = ""

\* What a fact may be written of: what it is about or, where it has no thing, the first one.
SubjectOf(f, p, w, x) ==
  \/ x = Thing(f.of)
  \/ f.kind = "event" /\ x = ""
  \/ f.kind = "state" /\ x = FirstThing(p, w)
  \/ f.kind = "attribute" /\ Unplaced(f, w) /\ x = FirstThing(p, w)

ObjectOf(f, x) == x = Thing(f.to) \/ (f.kind \in {"event", "state", "attribute"} /\ x = "")

\* What is told of a relation or a quantity is told of something.
Placed(f, of, to) == /\ f.kind \in {"relation", "measurement"} => of # ""
                     /\ f.kind = "relation" => to # ""

RowTells(f, p, w, r) ==
  /\ r.kind = f.kind /\ r.dim = f.dim
  /\ f.kind # "relation" => r.val = f.val
  /\ SubjectOf(f, p, w, r.of) /\ ObjectOf(f, r.to) /\ Placed(f, r.of, r.to)

Made(p, w) ==
  {m \in Storings :
     /\ Further(Untouched, m)
     /\ \A i \in Range(m.ids) : /\ i \in 1 .. Len(m.rows)
                                /\ \E f \in Range(w.facts) : RowTells(f, p, w, m.rows[i])}

\* One write more than m, at the row i.
More(m, n, i) == /\ n \in Storings /\ Further(m, n) /\ n.denied = m.denied
                 /\ i \in Range(n.ids) /\ i \in 1 .. Len(n.rows)
                 /\ \A j \in Range(n.ids) : j \in Range(m.ids) \/ j = i

\* What the state is made of.
FactsInv == rows \in Seq(Row) /\ focus \in Word /\ turns \in Nat

LEMMA ThingWord ==
  ASSUME focus \in Word, NEW m \in Mention \cup {Self}
  PROVE  Thing(m) \in Word
<1>1. m.text \in Word /\ "" \in Word
  <2>1. CASE m = Self
    BY <2>1 DEF Self, Word
  <2>2. CASE m = NoMention
    BY <2>2 DEF NoMention, Word
  <2>3. CASE m \in Mention /\ m # NoMention
    BY <2>3 DEF Mention, Word
  <2> QED
    BY <2>1, <2>2, <2>3 DEF Word
<1> QED
  BY <1>1 DEF Thing

LEMMA FurtherFurther ==
  ASSUME NEW m \in Storings, NEW n \in Storings, NEW o \in Storings, Further(m, n), Further(n, o)
  PROVE  Further(m, o)
<1>1. Len(m.rows) \in Nat /\ Len(n.rows) \in Nat /\ Len(o.rows) \in Nat
  BY LenProperties DEF Storings
<1>2. Len(m.rows) <= Len(n.rows) /\ Len(n.rows) <= Len(o.rows)
  BY DEF Further
<1>3. ASSUME NEW k \in 1 .. Len(m.rows)
      PROVE  Agree(o.rows[k], m.rows[k])
  <2>1. k \in 1 .. Len(n.rows)
    BY <1>1, <1>2
  <2>2. Agree(n.rows[k], m.rows[k]) /\ Agree(o.rows[k], n.rows[k])
    BY <2>1 DEF Further
  <2> QED
    BY <2>2 DEF Agree
<1>4. ASSUME NEW k \in Len(m.rows) + 1 .. Len(o.rows)
      PROVE  o.rows[k].effective
  <2>1. CASE k \in Len(n.rows) + 1 .. Len(o.rows)
    BY <2>1 DEF Further
  <2>2. CASE k \in Len(m.rows) + 1 .. Len(n.rows)
    <3>1. k \in 1 .. Len(n.rows)
      BY <2>2, <1>1
    <3>2. Agree(o.rows[k], n.rows[k]) /\ n.rows[k].effective
      BY <2>2, <3>1 DEF Further
    <3> QED
      BY <3>2, Zenon DEF Agree
  <2> QED
    BY <2>1, <2>2, <1>1, <1>2
<1>5. Range(m.ids) \subseteq Range(o.ids) /\ (m.denied => o.denied)
  BY DEF Further
<1> QED
  BY <1>1, <1>2, <1>3, <1>4, <1>5 DEF Further

LEMMA FurtherSame ==
  ASSUME NEW m \in Storings
  PROVE  Further(m, m)
<1>1. Len(m.rows) \in Nat
  BY LenProperties DEF Storings
<1>2. \A k \in Len(m.rows) + 1 .. Len(m.rows) : FALSE
  BY <1>1
<1> QED
  BY <1>1, <1>2 DEF Further, Agree

\* Storings that go further and write only what is told stay within what is told.
LEMMA MadeFurther ==
  ASSUME FactsInv, NEW p, NEW w, NEW m \in Made(p, w), NEW n \in Storings, Further(m, n),
         \A i \in Range(n.ids) \ Range(m.ids) :
            i \in 1 .. Len(n.rows) /\ \E f \in Range(w.facts) : RowTells(f, p, w, n.rows[i])
  PROVE  n \in Made(p, w)
<1>1. Untouched \in Storings /\ m \in Storings /\ Further(Untouched, m)
  BY DEF FactsInv, Untouched, Storings, Made
<1>2. Further(Untouched, n)
  BY <1>1, FurtherFurther
<1>3. ASSUME NEW i \in Range(m.ids)
      PROVE  i \in 1 .. Len(n.rows) /\ \E f \in Range(w.facts) : RowTells(f, p, w, n.rows[i])
  <2>1. Len(m.rows) \in Nat /\ Len(n.rows) \in Nat /\ Len(m.rows) <= Len(n.rows)
    BY <1>1, LenProperties DEF Storings, Further
  <2>2. i \in 1 .. Len(m.rows)
    BY DEF Made
  <2>3. PICK f \in Range(w.facts) : RowTells(f, p, w, m.rows[i])
    BY DEF Made
  <2>4. Agree(n.rows[i], m.rows[i])
    BY <2>2 DEF Further
  <2>5. RowTells(f, p, w, n.rows[i])
    BY <2>3, <2>4 DEF RowTells, Agree
  <2> QED
    BY <2>1, <2>2, <2>5
<1> QED
  BY <1>2, <1>3 DEF Made

\* One row more, and its position among the writes.
LEMMA AddedFurther ==
  ASSUME FactsInv, NEW m \in Storings, NEW f \in WireFact, NEW of \in Word, NEW to \in Word,
         NEW n, n = Added(m, f, of, to), NEW i, i = Len(m.rows) + 1
  PROVE  /\ More(m, n, i)
         /\ /\ n.rows[i].kind = f.kind /\ n.rows[i].dim = f.dim /\ n.rows[i].val = f.val
            /\ n.rows[i].of = of /\ n.rows[i].to = to
<1> DEFINE r == [kind |-> f.kind, of |-> of, to |-> to, dim |-> f.dim, val |-> f.val,
                 turn |-> turns + 1, current |-> TRUE, effective |-> TRUE]
<1>1. f.kind \in Kinds /\ f.dim \in Word /\ f.val \in Word /\ turns + 1 \in Nat
  BY DEF WireFact, FactsInv
<1>2. /\ r \in Row /\ r.kind = f.kind /\ r.of = of /\ r.to = to /\ r.dim = f.dim /\ r.val = f.val
      /\ r.effective
  BY <1>1 DEF Row
<1>3. n = [m EXCEPT !.rows = Append(@, r), !.ids = Append(@, i)]
  BY DEF Added
<1> HIDE DEF r
<1>4. /\ m.rows \in Seq(Row) /\ m.ids \in Seq(Nat) /\ m.denied \in BOOLEAN
      /\ m = [rows |-> m.rows, ids |-> m.ids, denied |-> m.denied]
      /\ Len(m.rows) \in Nat /\ i \in Nat
  BY LenProperties DEF Storings
<1>5. /\ n = [rows |-> Append(m.rows, r), ids |-> Append(m.ids, i), denied |-> m.denied]
      /\ n.rows = Append(m.rows, r) /\ n.ids = Append(m.ids, i) /\ n.denied = m.denied
  BY <1>3, <1>4
<1>6. /\ Append(m.rows, r) \in Seq(Row) /\ Len(Append(m.rows, r)) = Len(m.rows) + 1
      /\ \A k \in 1 .. Len(m.rows) : Append(m.rows, r)[k] = m.rows[k]
      /\ Append(m.rows, r)[Len(m.rows) + 1] = r
  BY <1>2, <1>4, AppendProperties
<1>7. Append(m.ids, i) \in Seq(Nat) /\ Range(Append(m.ids, i)) = Range(m.ids) \cup {i}
  BY <1>4, AppendRange
<1>8. n \in Storings
  BY <1>4, <1>5, <1>6, <1>7 DEF Storings
<1>9. n.rows[i] = r /\ i = Len(m.rows) + 1
  BY <1>5, <1>6
<1>10. \A k \in Len(m.rows) + 1 .. Len(n.rows) : k = i
  BY <1>4, <1>5, <1>6, <1>9
<1>11. Further(m, n)
  BY <1>2, <1>4, <1>5, <1>6, <1>7, <1>9, <1>10 DEF Further, Agree
<1> QED
  BY <1>2, <1>4, <1>5, <1>6, <1>7, <1>8, <1>9, <1>11 DEF More

LEMMA ChangedFurther ==
  ASSUME NEW m \in Storings, NEW k \in 1 .. Len(m.rows), NEW now \in BOOLEAN
  PROVE  LET n == Changed(m, k, now) IN
         /\ More(m, n, k)
         /\ Agree(n.rows[k], m.rows[k])
<1> DEFINE n == Changed(m, k, now)
           R == [m.rows EXCEPT ![k].current = now]
<1>1. n = [m EXCEPT !.rows = R, !.ids = Append(@, k)]
  BY DEF Changed
<1>2. /\ m.rows \in Seq(Row) /\ m.ids \in Seq(Nat) /\ m.denied \in BOOLEAN
      /\ m = [rows |-> m.rows, ids |-> m.ids, denied |-> m.denied]
      /\ Len(m.rows) \in Nat /\ k \in Nat /\ DOMAIN m.rows = 1 .. Len(m.rows)
  BY LenProperties DEF Storings
<1>3. m.rows[k] \in Row
  BY <1>2, ElementOfSeq
<1> DEFINE r == [m.rows[k] EXCEPT !.current = now]
<1>4. r \in Row /\ Agree(r, m.rows[k])
  BY <1>3 DEF Row, Agree
<1>5. R = [m.rows EXCEPT ![k] = r]
  OBVIOUS
<1> HIDE DEF n, r, R
<1>6. R \in Seq(Row) /\ Len(R) = Len(m.rows) /\ R[k] = r
      /\ \A j \in 1 .. Len(m.rows) : j # k => R[j] = m.rows[j]
  <2>1. DOMAIN R = 1 .. Len(m.rows) /\ R[k] = r
        /\ \A j \in 1 .. Len(m.rows) : j # k => R[j] = m.rows[j]
    BY <1>2, <1>5
  <2>2. R \in Seq(Row)
    BY <1>2, <1>4, <1>5, ExceptSeq
  <2>3. Len(R) = Len(m.rows)
    BY <1>2, <1>4, <1>5, ExceptSeq
  <2> QED
    BY <2>1, <2>2, <2>3
<1>7. /\ n.rows = R /\ n.ids = Append(m.ids, k) /\ n.denied = m.denied
      /\ n = [rows |-> R, ids |-> Append(m.ids, k), denied |-> m.denied]
  BY <1>1, <1>2
<1>8. Append(m.ids, k) \in Seq(Nat) /\ Range(Append(m.ids, k)) = Range(m.ids) \cup {k}
  BY <1>2, AppendRange
<1>9. n \in Storings
  BY <1>2, <1>6, <1>7, <1>8 DEF Storings
<1>10. \A j \in 1 .. Len(m.rows) : Agree(n.rows[j], m.rows[j])
  BY <1>4, <1>6, <1>7 DEF Agree
<1>11. \A j \in Len(m.rows) + 1 .. Len(n.rows) : FALSE
  BY <1>2, <1>6, <1>7
<1>12. Further(m, n)
  BY <1>2, <1>6, <1>7, <1>8, <1>10, <1>11 DEF Further
<1>13. k \in 1 .. Len(n.rows) /\ Agree(n.rows[k], m.rows[k])
  BY <1>2, <1>6, <1>7, <1>10
<1>14. k \in Range(n.ids) /\ \A j \in Range(n.ids) : j \in Range(m.ids) \/ j = k
  BY <1>7, <1>8
<1>15. n.denied = m.denied
  BY <1>7
<1>16. More(m, n, k)
  BY <1>9, <1>12, <1>13, <1>14, <1>15 DEF More
<1> QED
  BY <1>13, <1>16 DEF n

LEMMA ClosingFurther ==
  ASSUME NEW m \in Storings, NEW f, NEW of
  PROVE  LET n == Closing(m, f, of) IN
         n \in Storings /\ Further(m, n) /\ n.denied = m.denied /\ n.ids = m.ids
<1> DEFINE n == Closing(m, f, of)
           closed(r) == IF Same(r, f.kind, of, f.dim) THEN [r EXCEPT !.current = FALSE] ELSE r
           R == [k \in DOMAIN m.rows |-> closed(m.rows[k])]
<1>2. /\ m.rows \in Seq(Row) /\ m.ids \in Seq(Nat) /\ m.denied \in BOOLEAN
      /\ m = [rows |-> m.rows, ids |-> m.ids, denied |-> m.denied]
      /\ Len(m.rows) \in Nat /\ DOMAIN m.rows = 1 .. Len(m.rows)
  BY LenProperties DEF Storings
<1>1. n = [m EXCEPT !.rows = R]
  BY DEF Closing
<1>3. \A k \in 1 .. Len(m.rows) : m.rows[k] \in Row
  BY <1>2, ElementOfSeq
<1>4. \A r \in Row : closed(r) \in Row /\ Agree(closed(r), r)
  <2> TAKE r \in Row
  <2>1. [r EXCEPT !.current = FALSE] \in Row /\ Agree([r EXCEPT !.current = FALSE], r) /\ Agree(r, r)
    BY DEF Row, Agree
  <2> QED
    BY <2>1
<1> HIDE DEF closed, n
<1>5. /\ DOMAIN R = 1 .. Len(m.rows)
      /\ \A k \in 1 .. Len(m.rows) : R[k] \in Row /\ Agree(R[k], m.rows[k])
  BY <1>2, <1>3, <1>4
<1>6. R \in [1 .. Len(m.rows) -> Row]
  BY <1>2, <1>3, <1>4
<1> HIDE DEF R
<1>7. R \in Seq(Row) /\ Len(R) = Len(m.rows)
  <2> DEFINE z == Len(m.rows)
  <2>1. z \in Nat /\ R \in [1 .. z -> Row] /\ DOMAIN R = 1 .. z
    BY <1>2, <1>5, <1>6
  <2> HIDE DEF z
  <2>2. R \in Seq(Row)
    BY <2>1
  <2>3. Len(R) = z
    BY <2>1, <2>2, LenProperties
  <2> QED
    BY <2>2, <2>3 DEF z
<1>8. /\ n.rows = R /\ n.ids = m.ids /\ n.denied = m.denied
      /\ n = [rows |-> R, ids |-> m.ids, denied |-> m.denied]
  BY <1>1, <1>2
<1>9. n \in Storings
  BY <1>2, <1>7, <1>8 DEF Storings
<1>10. \A j \in Len(m.rows) + 1 .. Len(n.rows) : FALSE
  BY <1>2, <1>7, <1>8
<1>11. Further(m, n)
  BY <1>2, <1>5, <1>7, <1>8, <1>10 DEF Further
<1> QED
  BY <1>8, <1>9, <1>11 DEF n

LEMMA DeniedFurther ==
  ASSUME NEW m \in Storings, NEW n, n = [m EXCEPT !.denied = TRUE]
  PROVE  n \in Storings /\ Further(m, n) /\ n.ids = m.ids /\ n.rows = m.rows /\ n.denied
<1>1. /\ m.rows \in Seq(Row) /\ m.ids \in Seq(Nat) /\ m.denied \in BOOLEAN
      /\ m = [rows |-> m.rows, ids |-> m.ids, denied |-> m.denied]
  BY DEF Storings
<1>2. n = [rows |-> m.rows, ids |-> m.ids, denied |-> TRUE] /\ n.rows = m.rows /\ n.ids = m.ids
      /\ n.denied
  BY <1>1
<1>3. n \in Storings
  BY <1>1, <1>2 DEF Storings
<1>4. Further(m, n)
  BY <1>2, FurtherSame DEF Further
<1> QED
  BY <1>2, <1>3, <1>4

\* The newest of the rows that are found.
LEMMA InstanceFound ==
  ASSUME NEW m \in Storings, NEW dim, NEW of, NEW to, NEW current \in BOOLEAN,
         Instance(m, dim, of, to, current) # 0
  PROVE  LET k == Instance(m, dim, of, to, current) IN
         /\ k \in 1 .. Len(m.rows) /\ m.rows[k].kind = "relation" /\ m.rows[k].of = of
         /\ m.rows[k].dim = dim /\ m.rows[k].to = to
<1> DEFINE found == {k \in DOMAIN m.rows : Same(m.rows[k], "relation", of, dim)
                                           /\ m.rows[k].to = to
                                           /\ (current => m.rows[k].current)}
           Newest(k) == \A j \in found : j <= k
<1>1. Instance(m, dim, of, to, current) = IF found = {} THEN 0 ELSE CHOOSE k \in found : Newest(k)
  BY Zenon DEF Instance
<1>2. DOMAIN m.rows = 1 .. Len(m.rows) /\ Len(m.rows) \in Nat
  BY LenProperties DEF Storings
<1>3. found # {} /\ found \subseteq 1 .. Len(m.rows)
  BY <1>1, <1>2
<1>4. \A k \in found : /\ m.rows[k].kind = "relation" /\ m.rows[k].of = of
                       /\ m.rows[k].dim = dim /\ m.rows[k].to = to
  BY DEF Same
<1> HIDE DEF found
<1>5. \E k \in found : Newest(k)
  BY <1>2, <1>3, LastPosition
<1> HIDE DEF Newest
<1>6. Instance(m, dim, of, to, current) \in found
  BY <1>1, <1>3, <1>5, Zenon
<1> QED
  BY <1>3, <1>4, <1>6

\* The first thing of the sentence is a text.
LEMMA FirstThingWord ==
  ASSUME focus \in Word, NEW p, Shaped(p), NEW w
  PROVE  FirstThing(p, w) \in Word
<1> DEFINE said == p.others \o <<p.subject, p.object>>
           things == {k \in DOMAIN said : said[k] \in w.mentions /\ Thing(said[k]) # ""}
           First(k) == \A j \in things : k <= j
<1>1. FirstThing(p, w) = IF things = {} THEN "" ELSE Thing(said[CHOOSE k \in things : First(k)])
  BY Zenon DEF FirstThing
<1>2. /\ said \in Seq(Mention) /\ Len(said) \in Nat /\ DOMAIN said = 1 .. Len(said)
  <2>1. p.others \in Seq(Mention) /\ p.subject \in Mention /\ p.object \in Mention
    BY ShapeFacts
  <2>2. <<p.subject, p.object>> \in Seq(Mention)
    BY <2>1
  <2> QED
    BY <2>1, <2>2, ConcatProperties, LenProperties
<1> HIDE DEF said
<1>3. things \subseteq 1 .. Len(said)
  BY <1>2
<1> HIDE DEF things
<1>4. things # {} => \E k \in things : First(k)
  BY <1>2, <1>3, FirstPosition
<1> HIDE DEF First
<1>5. things # {} => (CHOOSE k \in things : First(k)) \in things
  BY <1>4, Zenon
<1>6. \A k \in things : said[k] \in Mention
  BY <1>2, <1>3, ElementOfSeq
<1>7. \A k \in things : Thing(said[k]) \in Word
  BY <1>6, ThingWord
<1>8. "" \in Word
  BY DEF Word
<1> QED
  BY <1>1, <1>5, <1>7, <1>8, Zenon

-----------------------------------------------------------------------------
(* A fact that is written.                                                 *)

\* A fact that has to leave a row when the unit of work is not rolled back.
Due(f, w) ==
  /\ f.dim # "name"
  /\ f.kind = "relation" => f.mode = "assert"
  /\ f.kind = "measurement" /\ Unplaced(f, w) => \A g \in Range(w.facts) : g.kind # "event"

Left(f, p, w, n) == \E i \in Range(n.ids) : RowTells(f, p, w, n.rows[i])

\* What a write comes to.
Goes(m, f, p, w, n) ==
  n \in Made(p, w) /\ Further(m, n) /\ (Due(f, w) /\ ~ n.denied => Left(f, p, w, n))

LEMMA GoesWithRow ==
  ASSUME FactsInv, NEW p, NEW w, NEW m \in Made(p, w), NEW f \in Range(w.facts), NEW n \in Storings, NEW i,
         More(m, n, i),
         RowTells(f, p, w, n.rows[i])
  PROVE  Goes(m, f, p, w, n)
<1>1. /\ \A j \in Range(n.ids) \ Range(m.ids) : j = i
      /\ Further(m, n) /\ i \in Range(n.ids) /\ i \in 1 .. Len(n.rows)
  BY DEF More
<1>2. n \in Made(p, w)
  BY <1>1, MadeFurther
<1> QED
  BY <1>1, <1>2 DEF Goes, Left

LEMMA GoesWithout ==
  ASSUME FactsInv, NEW p, NEW w, NEW m \in Made(p, w), NEW f, NEW n \in Storings,
         Further(m, n), Range(n.ids) = Range(m.ids), n.denied \/ ~ Due(f, w)
  PROVE  Goes(m, f, p, w, n)
<1>1. n \in Made(p, w)
  BY MadeFurther
<1> QED
  BY <1>1 DEF Goes

LEMMA AddedGoes ==
  ASSUME FactsInv, NEW p, NEW w, NEW m \in Made(p, w), NEW f \in Range(w.facts), f \in WireFact,
         NEW of \in Word, NEW to \in Word,
         SubjectOf(f, p, w, of), ObjectOf(f, to), Placed(f, of, to)
  PROVE  Goes(m, f, p, w, Added(m, f, of, to))
<1> DEFINE n == Added(m, f, of, to)
           i == Len(m.rows) + 1
<1>0. n = Added(m, f, of, to) /\ i = Len(m.rows) + 1
  OBVIOUS
<1> HIDE DEF n, i
<1>1. m \in Storings
  BY DEF Made
<1>2. /\ More(m, n, i)
      /\ n.rows[i].kind = f.kind /\ n.rows[i].dim = f.dim /\ n.rows[i].val = f.val
      /\ n.rows[i].of = of /\ n.rows[i].to = to
  BY <1>0, <1>1, AddedFurther
<1>3. RowTells(f, p, w, n.rows[i])
  BY <1>2 DEF RowTells
<1> HIDE DEF n, i
<1>5. n \in Storings
  BY <1>2 DEF More
<1>4. Goes(m, f, p, w, n)
  BY <1>2, <1>3, <1>5, GoesWithRow
<1> QED
  BY <1>4 DEF n

LEMMA DeniedGoes ==
  ASSUME FactsInv, NEW p, NEW w, NEW m \in Made(p, w), NEW f
  PROVE  Goes(m, f, p, w, [m EXCEPT !.denied = TRUE])
<1> DEFINE n == [m EXCEPT !.denied = TRUE]
<1>1. m \in Storings
  BY DEF Made
<1>0. n = [m EXCEPT !.denied = TRUE]
  OBVIOUS
<1> HIDE DEF n
<1>2. n \in Storings /\ Further(m, n) /\ n.ids = m.ids /\ n.denied
  BY <1>0, <1>1, DeniedFurther
<1>3. Goes(m, f, p, w, n)
  BY <1>2, GoesWithout
<1> QED
  BY <1>3 DEF n

LEMMA SameGoes ==
  ASSUME FactsInv, NEW p, NEW w, NEW m \in Made(p, w), NEW f, ~ Due(f, w)
  PROVE  Goes(m, f, p, w, m)
BY GoesWithout, FurtherSame DEF Made

LEMMA ChangedGoes ==
  ASSUME FactsInv, NEW p, NEW w, NEW m \in Made(p, w), NEW f \in Range(w.facts), f.kind = "relation",
         NEW k \in 1 .. Len(m.rows), NEW now \in BOOLEAN,
         m.rows[k].kind = "relation", m.rows[k].of = Thing(f.of), m.rows[k].dim = f.dim,
         m.rows[k].to = Thing(f.to), Placed(f, m.rows[k].of, m.rows[k].to)
  PROVE  Goes(m, f, p, w, Changed(m, k, now))
<1> DEFINE n == Changed(m, k, now)
<1>1. m \in Storings
  BY DEF Made
<1>2. /\ More(m, n, k)
      /\ Agree(n.rows[k], m.rows[k])
  BY <1>1, ChangedFurther
<1> HIDE DEF n
<1>3. RowTells(f, p, w, n.rows[k])
  BY <1>2 DEF RowTells, Agree, SubjectOf, ObjectOf
<1>5. n \in Storings
  BY <1>2 DEF More
<1>4. Goes(m, f, p, w, n)
  BY <1>2, <1>3, <1>5, GoesWithRow
<1> QED
  BY <1>4 DEF n

OfNone(f, x) == x # "" => x = Thing(f.of)

LEMMA RelationGoes ==
  ASSUME FactsInv, NEW p, NEW w, NEW m \in Made(p, w), NEW f \in Range(w.facts), f \in WireFact,
         f.kind = "relation", NEW of \in Word, NEW to \in Word, OfNone(f, of),
         to = Thing(f.to)
  PROVE  Goes(m, f, p, w, WriteRelation(m, f, of, to))
<1> DEFINE now == Instance(m, f.dim, of, to, TRUE)
           any == IF now # 0 THEN now ELSE Instance(m, f.dim, of, to, FALSE)
           old == IF f.mode = "terminate" THEN any ELSE now
           n == WriteRelation(m, f, of, to)
<1>1. n = IF of = "" \/ to = "" THEN [m EXCEPT !.denied = TRUE]
          ELSE IF f.mode = "assert" /\ now = 0 THEN Added(m, f, of, to)
          ELSE IF old # 0 THEN Changed(m, old, f.mode = "assert") ELSE m
  BY Zenon DEF WriteRelation
<1>2. m \in Storings
  BY DEF Made
<1>3. old # 0 => /\ old \in 1 .. Len(m.rows) /\ m.rows[old].kind = "relation" /\ m.rows[old].of = of
                 /\ m.rows[old].dim = f.dim /\ m.rows[old].to = to
  <2> DEFINE Fits(k) == /\ k \in 1 .. Len(m.rows) /\ m.rows[k].kind = "relation" /\ m.rows[k].of = of
                        /\ m.rows[k].dim = f.dim /\ m.rows[k].to = to
             old2 == Instance(m, f.dim, of, to, FALSE)
  <2>0. \A cur \in BOOLEAN : Instance(m, f.dim, of, to, cur) # 0 => Fits(Instance(m, f.dim, of, to, cur))
    BY <1>2, InstanceFound
  <2> HIDE DEF Fits
  <2>1. now # 0 => Fits(now)
    BY <2>0, Zenon
  <2>2. old2 # 0 => Fits(old2)
    BY <2>0, Zenon
  <2> HIDE DEF old2, now
  <2> QED
    BY <2>1, <2>2 DEF old2, Fits
<1>4. f.mode = "assert" /\ now # 0 => old # 0
  OBVIOUS
<1> HIDE DEF now, any, old, n
<1>5. Goes(m, f, p, w, [m EXCEPT !.denied = TRUE])
  BY DeniedGoes
<1>p. of # "" /\ to # "" => Placed(f, of, to)
  BY DEF Placed
<1>6. of # "" /\ to # "" => Goes(m, f, p, w, Added(m, f, of, to))
  <2>1. of # "" => SubjectOf(f, p, w, of) /\ ObjectOf(f, to)
    BY DEF SubjectOf, ObjectOf, OfNone
  <2> QED
    BY <1>p, <2>1, AddedGoes
<1>7. old # 0 /\ of # "" /\ to # "" => Goes(m, f, p, w, Changed(m, old, f.mode = "assert"))
  <2> SUFFICES ASSUME old # 0, of # "", to # ""
               PROVE  Goes(m, f, p, w, Changed(m, old, f.mode = "assert"))
    OBVIOUS
  <2> DEFINE b == f.mode = "assert"
  <2>1. b \in BOOLEAN
    OBVIOUS
  <2> HIDE DEF b
  <2>2. Goes(m, f, p, w, Changed(m, old, b))
    <3>1. of = Thing(f.of)
      BY DEF OfNone
    <3> QED
      BY <1>3, <1>p, <2>1, <3>1, ChangedGoes
  <2> QED
    BY <2>2 DEF b
<1>8. f.mode # "assert" => Goes(m, f, p, w, m)
  BY SameGoes DEF Due
<1>9. Goes(m, f, p, w, n)
  BY <1>1, <1>4, <1>5, <1>6, <1>7, <1>8, Zenon
<1> QED
  BY <1>9 DEF n

LEMMA WriteGoes ==
  ASSUME FactsInv, NEW p, Shaped(p), NEW w, NEW m \in Made(p, w), NEW f \in Range(w.facts), f \in WireFact
  PROVE  Goes(m, f, p, w, Write(m, f, p, w))
<1> DEFINE of == IF f.of \in w.mentions THEN Thing(f.of) ELSE ""
           to == Thing(f.to)
           first == FirstThing(p, w)
           holder == IF f.kind # "state" /\ of # "" THEN of ELSE first
           event  == \E k \in DOMAIN w.facts : w.facts[k].kind = "event"
           placed == of # "" /\ (f.to = NoMention \/ to # "" \/ event)
           n == Write(m, f, p, w)
           closed == Closing(m, f, holder)
<1>1. n = IF f.kind = "event" THEN Added(m, f, of, "")
          ELSE IF f.kind = "relation" THEN WriteRelation(m, f, of, to)
          ELSE IF f.kind = "measurement" /\ placed THEN Added(m, f, of, to)
          ELSE IF f.kind = "measurement" THEN (IF event THEN m ELSE [m EXCEPT !.denied = TRUE])
          ELSE IF f.dim = "name" /\ of \notin {"", "self"} THEN m
          ELSE IF holder = "" THEN [m EXCEPT !.denied = TRUE]
          ELSE IF f.kind = "state" \/ f.dim \in Singleton THEN Added(closed, f, holder, "")
          ELSE Added(m, f, holder, "")
  BY Zenon DEF Write
<1>2. f.of \in Mention \cup {Self} /\ f.to \in Mention /\ f.kind \in Kinds
  BY DEF WireFact
<1>3. of \in Word /\ to \in Word /\ first \in Word /\ "" \in Word
  BY <1>2, ThingWord, FirstThingWord DEF FactsInv, Word
<1>4. holder \in Word /\ (holder = of \/ holder = first)
  BY <1>3
<1>5. event => \E g \in Range(w.facts) : g.kind = "event"
  BY DEF Range
<1>6. f.kind = "measurement" /\ event /\ ~ placed => ~ Due(f, w)
  BY <1>5 DEF Due, Unplaced
<1>7. f.dim = "name" => ~ Due(f, w)
  BY DEF Due
<1>8. m \in Storings
  BY DEF Made
<1>9. closed \in Storings /\ Further(m, closed) /\ closed.ids = m.ids
  BY <1>8, ClosingFurther
<1> HIDE DEF of, to, first, holder, event, placed, n, closed
<1>10. Goes(m, f, p, w, [m EXCEPT !.denied = TRUE])
  BY DeniedGoes
<1>11. ~ Due(f, w) => Goes(m, f, p, w, m)
  BY SameGoes
<1>b. of # "" => of = Thing(f.of)
  BY DEF of
<1>a. (of # "" \/ f.kind = "event" => SubjectOf(f, p, w, of)) /\ ObjectOf(f, to)
      /\ (f.kind \in {"state", "attribute"} => SubjectOf(f, p, w, holder))
      /\ (f.kind \in {"event", "state", "attribute"} => ObjectOf(f, ""))
      /\ (f.kind \in {"event", "state", "attribute"} => \A x, y : Placed(f, x, y))
      /\ (placed => of # "") /\ (f.kind = "measurement" /\ of # "" => Placed(f, of, to))
  <2>1. of # "" \/ f.kind = "event" => SubjectOf(f, p, w, of)
    BY <1>b DEF SubjectOf
  <2>2. f.kind = "state" => SubjectOf(f, p, w, holder)
    BY DEF SubjectOf, holder, first
  <2>3. f.kind = "attribute" => SubjectOf(f, p, w, holder)
    <3>1. CASE of # ""
      BY <1>b, <3>1 DEF SubjectOf, holder
    <3>2. CASE of = ""
      <4>1. Unplaced(f, w)
        BY <3>2 DEF of, Unplaced
      <4> QED
        BY <3>2, <4>1 DEF SubjectOf, holder, first
    <3> QED
      BY <3>1, <3>2
  <2>4. ObjectOf(f, to) /\ (f.kind \in {"event", "state", "attribute"} => ObjectOf(f, ""))
    BY DEF ObjectOf, to
  <2>5. /\ f.kind \in {"event", "state", "attribute"} => \A x, y : Placed(f, x, y)
        /\ (placed => of # "") /\ (f.kind = "measurement" /\ of # "" => Placed(f, of, to))
    BY DEF placed, Placed
  <2> QED
    BY <2>1, <2>2, <2>3, <2>4, <2>5
<1>12. f.kind = "event" => Goes(m, f, p, w, Added(m, f, of, ""))
  BY <1>3, <1>a, AddedGoes
<1>13. f.kind = "relation" => Goes(m, f, p, w, WriteRelation(m, f, of, to))
  <2>1. to = Thing(f.to) /\ OfNone(f, of)
    BY <1>b DEF to, OfNone
  <2> QED
    BY <1>3, <2>1, RelationGoes
<1>14. f.kind = "measurement" /\ placed => Goes(m, f, p, w, Added(m, f, of, to))
  BY <1>3, <1>a, AddedGoes
<1>15. f.kind \in {"state", "attribute"} => Goes(m, f, p, w, Added(m, f, holder, ""))
  BY <1>3, <1>4, <1>a, AddedGoes
<1>16. f.kind \in {"state", "attribute"} => Goes(m, f, p, w, Added(closed, f, holder, ""))
  <2> SUFFICES ASSUME f.kind \in {"state", "attribute"}
               PROVE  Goes(m, f, p, w, Added(closed, f, holder, ""))
    OBVIOUS
  <2>1. closed \in Made(p, w)
    BY <1>9, MadeFurther
  <2>2. Goes(closed, f, p, w, Added(closed, f, holder, ""))
    BY <1>3, <1>4, <1>a, <2>1, AddedGoes
  <2> DEFINE x == Added(closed, f, holder, "")
  <2> HIDE DEF x
  <2>3. x \in Made(p, w) /\ Further(closed, x) /\ (Due(f, w) /\ ~ x.denied => Left(f, p, w, x))
    BY <2>2 DEF x, Goes
  <2>4. x \in Storings
    BY <2>3 DEF Made
  <2>5. Further(m, x)
    BY <1>8, <1>9, <2>3, <2>4, FurtherFurther
  <2>6. Goes(m, f, p, w, x)
    BY <2>3, <2>5 DEF Goes
  <2> QED
    BY <2>6 DEF x
<1>17. f.kind \notin {"event", "relation", "measurement"} => f.kind \in {"state", "attribute"}
  BY <1>2 DEF Kinds
<1>18. Goes(m, f, p, w, n)
  BY <1>1, <1>6, <1>7, <1>10, <1>11, <1>12, <1>13, <1>14, <1>15, <1>16, <1>17, Zenon
<1> QED
  BY <1>18 DEF n

\* The facts are written in order, each after what the ones before left.
Materializing(p, w, at) ==
  /\ at \in [0 .. Len(w.facts) -> Made(p, w)]
  /\ at[0] = Untouched /\ Materialized(p, w) = Own(at[Len(w.facts)], w)
  /\ \A k \in 1 .. Len(w.facts) : at[k] = Write(at[k - 1], w.facts[k], p, w)

LEMMA UntouchedMade ==
  ASSUME FactsInv, NEW p, NEW w
  PROVE  Untouched \in Made(p, w)
<1>1. Untouched \in Storings
  BY DEF Untouched, Storings, FactsInv
<1>2. Further(Untouched, Untouched)
  BY <1>1, FurtherSame
<1>3. Untouched.ids = <<>> /\ Range(<<>>) = {}
  BY DEF Untouched, Range
<1> QED
  BY <1>1, <1>2, <1>3 DEF Made

LEMMA MaterializedSteps ==
  ASSUME FactsInv, NEW p, Shaped(p), NEW w, w.facts \in Seq(WireFact)
  PROVE  \E at : Materializing(p, w, at)
<1> DEFINE n == Len(w.facts)
           M == Made(p, w)
           step == [k \in 1 .. n |-> [m \in M |-> Write(m, w.facts[k], p, w)]]
<1>1. n \in Nat /\ 1 .. n = DOMAIN w.facts
  BY LenProperties
<1>2. \A m \in M, k \in 1 .. n : Write(m, w.facts[k], p, w) \in M
  <2> TAKE m \in M, k \in 1 .. n
  <2> DEFINE f == w.facts[k]
  <2>1. f \in Range(w.facts) /\ f \in WireFact
    BY <1>1, ElementOfSeq DEF Range
  <2> HIDE DEF f
  <2>2. Goes(m, f, p, w, Write(m, f, p, w))
    BY <2>1, WriteGoes
  <2> QED
    BY <2>2 DEF Goes, f
<1>5. Untouched \in M
  BY UntouchedMade
<1> HIDE DEF n, M
<1>3. step \in [1 .. n -> [M -> M]]
  BY <1>2
<1>4. \A m \in M, k \in 1 .. n : step[k][m] = Write(m, w.facts[k], p, w)
  OBVIOUS
<1> HIDE DEF step
<1>6. PICK at : Taking(n, M, Untouched, step, at)
  BY <1>1, <1>3, <1>5, StepsTaken
<1>a. /\ at \in [0 .. n -> M] /\ at[0] = Untouched
      /\ \A k \in 1 .. n : at[k] = step[k][at[k - 1]]
  BY <1>6, Zenon DEF Taking
<1>7. at[0] = Untouched
  BY <1>a
<1>8. ASSUME NEW k \in 1 .. n
      PROVE  at[k] = Write(at[k - 1], w.facts[k], p, w)
  <2>1. k - 1 \in 0 .. n
    BY <1>1
  <2> QED
    BY <2>1, <1>4, <1>a
<1> DEFINE Rec(g) == g = [k \in 0 .. n |-> IF k = 0 THEN Untouched ELSE Write(g[k - 1], w.facts[k], p, w)]
<1>9. Rec(at)
  <2>1. \A k \in 0 .. n : at[k] = IF k = 0 THEN Untouched ELSE Write(at[k - 1], w.facts[k], p, w)
    BY <1>1, <1>7, <1>8
  <2>2. at = [k \in 0 .. n |-> at[k]]
    BY <1>a
  <2> QED
    BY <2>1, <2>2, Zenon
<1>10. Materialized(p, w) = Own((CHOOSE g : Rec(g))[n], w)
  BY Zenon DEF Materialized, n, Untouched
<1> DEFINE after == CHOOSE g : Rec(g)
<1>11. Rec(after)
  BY <1>9, Zenon
<1>12. /\ after[0] = Untouched
       /\ \A k \in 1 .. n : after[k] = Write(after[k - 1], w.facts[k], p, w)
  <2> HIDE DEF after
  <2> QED
    BY <1>1, <1>11
<1> HIDE DEF after, Rec
<1>13. after[n] = at[n]
  <2>1. after[0] = at[0]
    BY <1>7, <1>12
  <2>2. \A k \in 1 .. n : after[k - 1] = at[k - 1] => after[k] = at[k]
    BY <1>8, <1>12
  <2> QED
    BY <1>1, <2>1, <2>2, SameSteps
<1>14. Materialized(p, w) = Own(at[n], w)
  BY <1>10, <1>13 DEF after
<1>15. Materializing(p, w, at)
  BY <1>a, <1>8, <1>14, Zenon DEF Materializing, n, M
<1> QED
  BY <1>15

\* What was written stays written.
LEMMA KeepsGoing ==
  ASSUME FactsInv, NEW p, NEW w, NEW n \in Nat, NEW at, \A k \in 0 .. n : at[k] \in Made(p, w),
         \A k \in 1 .. n : Further(at[k - 1], at[k])
  PROVE  \A i \in 0 .. n : Further(at[i], at[n])
<1> DEFINE T == {j \in 0 .. n : \A i \in 0 .. j : Further(at[i], at[j])}
<1>0. \A k \in 0 .. n : at[k] \in Storings
  BY DEF Made
<1>1. 0 \in T
  <2>1. Further(at[0], at[0])
    BY <1>0, FurtherSame
  <2>2. \A i \in 0 .. 0 : i = 0
    OBVIOUS
  <2>3. 0 \in 0 .. n
    OBVIOUS
  <2> QED
    BY <2>1, <2>2, <2>3
<1>2. ASSUME NEW k \in 0 .. n, k \in T, k < n
      PROVE  k + 1 \in T
  <2>1. k + 1 \in 1 .. n /\ k + 1 - 1 = k /\ k + 1 \in 0 .. n
    BY <1>2
  <2>2. Further(at[k], at[k + 1])
    BY <2>1
  <2>3. ASSUME NEW i \in 0 .. k + 1
        PROVE  Further(at[i], at[k + 1])
    <3>1. CASE i = k + 1
      BY <1>0, <2>1, <3>1, FurtherSame
    <3>2. CASE i # k + 1
      <4>1. i \in 0 .. k /\ i \in 0 .. n
        BY <2>1, <3>2
      <4>2. Further(at[i], at[k])
        BY <1>2, <4>1
      <4> QED
        BY <1>0, <2>1, <2>2, <4>1, <4>2, FurtherFurther
    <3> QED
      BY <3>1, <3>2
  <2> QED
    BY <2>1, <2>3
<1> HIDE DEF T
<1>3. 0 .. n \subseteq T
  BY <1>1, <1>2, UpTo
<1>4. n \in 0 .. n
  OBVIOUS
<1> QED
  BY <1>3, <1>4 DEF T

\* Every fact that has to is found in what was written.
LEMMA AllLeft ==
  ASSUME FactsInv, NEW p, Shaped(p), NEW w, w.facts \in Seq(WireFact), NEW at, Materializing(p, w, at)
  PROVE  LET m == at[Len(w.facts)] IN
         m \in Made(p, w) /\ (~ m.denied => \A f \in Range(w.facts) : Due(f, w) => Left(f, p, w, m))
<1> DEFINE n == Len(w.facts)
           m == at[n]
<1>1. n \in Nat /\ 1 .. n = DOMAIN w.facts
  BY LenProperties
<1>2. /\ at \in [0 .. n -> Made(p, w)]
      /\ \A k \in 1 .. n : at[k] = Write(at[k - 1], w.facts[k], p, w)
  BY Zenon DEF Materializing
<1>3. \A k \in 0 .. n : at[k] \in Made(p, w)
  BY <1>2
<1> HIDE DEF n
<1>4. ASSUME NEW k \in 1 .. n
      PROVE  /\ Further(at[k - 1], at[k])
             /\ Due(w.facts[k], w) /\ ~ at[k].denied => Left(w.facts[k], p, w, at[k])
  <2> DEFINE f == w.facts[k]
             old == at[k - 1]
  <2>1. f \in Range(w.facts) /\ f \in WireFact
    BY <1>1, ElementOfSeq DEF Range
  <2>2. k - 1 \in 0 .. n
    BY <1>1
  <2>3. old \in Made(p, w) /\ at[k] = Write(old, f, p, w)
    BY <1>2, <1>3, <2>2
  <2> HIDE DEF f, old
  <2>4. Goes(old, f, p, w, Write(old, f, p, w))
    BY <2>1, <2>3, WriteGoes
  <2> QED
    BY <2>3, <2>4 DEF Goes, f, old
<1>5. \A i \in 0 .. n : Further(at[i], at[n])
  BY <1>1, <1>3, <1>4, KeepsGoing
<1>6. m \in Made(p, w)
  BY <1>1, <1>3
<1>7. ASSUME ~ m.denied, NEW k \in 1 .. n, Due(w.facts[k], w)
      PROVE  Left(w.facts[k], p, w, m)
  <2> DEFINE x == at[k]
             f == w.facts[k]
  <2>0. k \in 0 .. n
    BY <1>1
  <2>1. Further(x, m) /\ x \in Made(p, w) /\ m \in Made(p, w)
    BY <1>3, <1>5, <1>6, <2>0
  <2>2. Due(f, w) /\ ~ x.denied => Left(f, p, w, x)
    BY <1>4
  <2> HIDE DEF x, f, m
  <2>3. Due(f, w)
    BY <1>7 DEF f
  <2>4. ~ x.denied
    BY <1>7, <2>1 DEF Further
  <2>5. PICK i \in Range(x.ids) : RowTells(f, p, w, x.rows[i])
    BY <2>2, <2>3, <2>4 DEF Left
  <2>6. i \in 1 .. Len(x.rows) /\ i \in Range(m.ids) /\ Agree(m.rows[i], x.rows[i])
    BY <2>1 DEF Further, Made
  <2>7. RowTells(f, p, w, m.rows[i])
    BY <2>5, <2>6 DEF RowTells, Agree
  <2>8. Left(f, p, w, m)
    BY <2>6, <2>7 DEF Left
  <2> QED
    BY <2>8 DEF f
<1>8. \A f \in Range(w.facts) : \E k \in 1 .. n : f = w.facts[k]
  BY <1>1 DEF Range
<1> HIDE DEF m
<1>9. m \in Made(p, w) /\ (~ m.denied => \A f \in Range(w.facts) : Due(f, w) => Left(f, p, w, m))
  BY <1>6, <1>7, <1>8
<1> QED
  BY <1>9 DEF m, n

\* The mentions whose things are taken for the user's: called one's own, or of a vehicle.
Taken(w) == {y \in w.mentions :
              /\ y.ref = "possessive" \/ Thing(y) \in Vehicles
              /\ \E k \in DOMAIN w.facts :
                   \/ w.facts[k].kind = "attribute" /\ w.facts[k].of = y
                   \/ w.facts[k].kind = "relation" /\ w.facts[k].to = y}

\* The row of such a thing.
OwnRow(w, r) == /\ r.kind = "relation" /\ r.of = "self" /\ r.dim = "owns" /\ r.effective
                /\ \E y \in Taken(w) : r.to = Thing(y) /\ r.to # "self"

\* What is written in the end.
Final(p, w, n) ==
  /\ n \in Storings /\ Further(Untouched, n)
  /\ \A i \in Range(n.ids) : /\ i \in 1 .. Len(n.rows)
                             /\ \/ \E f \in Range(w.facts) : RowTells(f, p, w, n.rows[i])
                                \/ OwnRow(w, n.rows[i])
  /\ ~ n.denied => \A f \in Range(w.facts) : Due(f, w) => Left(f, p, w, n)

Grown(m, n, R) ==
  /\ n \in Storings /\ Further(m, n) /\ n.denied = m.denied
  /\ \A i \in Range(n.ids) : \/ i \in Range(m.ids)
                             \/ \E k \in 1 .. Len(R) : i \in 1 .. Len(n.rows) /\ n.rows[i] = R[k]

\* u is s and then t.
Joined(S, s, t, u, l, z) == /\ u \in Seq(S) /\ Len(u) = l + z
                            /\ \A i \in 1 .. l : u[i] = s[i]
                            /\ \A k \in 1 .. z : l + k \in 1 .. l + z /\ u[l + k] = t[k]

LEMMA ConcatAt ==
  ASSUME NEW S, NEW s \in Seq(S), NEW t \in Seq(S), NEW u, u = s \o t,
         NEW l \in Nat, l = Len(s), NEW z \in Nat, z = Len(t)
  PROVE  Joined(S, s, t, u, l, z)
<1>1. u \in Seq(S) /\ Len(u) = l + z
      /\ \A i \in 1 .. l + z : u[i] = IF i <= l THEN s[i] ELSE t[i - l]
  BY ConcatProperties
<1>2. ASSUME NEW k \in 1 .. z
      PROVE  l + k \in 1 .. l + z /\ u[l + k] = t[k]
  <2>1. l + k \in 1 .. l + z /\ ~ (l + k <= l) /\ l + k - l = k
    OBVIOUS
  <2> QED
    BY <2>1, <1>1
<1> QED
  BY <1>1, <1>2 DEF Joined

\* Rows that are added to the others.
LEMMA RowsAdded ==
  ASSUME NEW m \in Storings, NEW R \in Seq(Row), NEW I \in Seq(Nat), Len(I) = Len(R),
         \A k \in 1 .. Len(R) : I[k] = Len(m.rows) + k /\ R[k].effective,
         NEW n, n = [m EXCEPT !.rows = @ \o R, !.ids = @ \o I]
  PROVE  Grown(m, n, R)
<1> DEFINE z == Len(R)
           l == Len(m.rows)
<1>1. /\ m.rows \in Seq(Row) /\ m.ids \in Seq(Nat) /\ m.denied \in BOOLEAN
      /\ m = [rows |-> m.rows, ids |-> m.ids, denied |-> m.denied]
      /\ l \in Nat /\ z \in Nat /\ DOMAIN I = 1 .. z /\ Len(I) = z /\ Len(m.rows) = l /\ Len(R) = z
  BY LenProperties DEF Storings
<1>2. /\ n.rows = m.rows \o R /\ n.ids = m.ids \o I /\ n.denied = m.denied
      /\ n = [rows |-> m.rows \o R, ids |-> m.ids \o I, denied |-> m.denied]
  BY <1>1
<1>a. \A k \in 1 .. z : I[k] = l + k /\ R[k].effective
  OBVIOUS
<1> HIDE DEF z, l
<1> DEFINE s == m.rows
           u == n.rows
<1>b. s \in Seq(Row) /\ u = s \o R /\ l = Len(s) /\ z = Len(R)
  BY <1>1, <1>2
<1> HIDE DEF s, u
<1>c. /\ u \in Seq(Row) /\ Len(u) = l + z
      /\ \A i \in 1 .. l : u[i] = s[i]
      /\ \A k \in 1 .. z : l + k \in 1 .. l + z /\ u[l + k] = R[k]
  <2>1. l \in Nat /\ z \in Nat
    BY <1>1
  <2>2. R \in Seq(Row)
    OBVIOUS
  <2>3. Joined(Row, s, R, u, l, z)
    BY <1>b, <2>1, <2>2, ConcatAt
  <2> QED
    BY <2>3 DEF Joined
<1>3. n.rows \in Seq(Row) /\ Len(n.rows) = l + z
  BY <1>c DEF u
<1>4. n.ids \in Seq(Nat) /\ Range(n.ids) = Range(m.ids) \cup Range(I)
  BY <1>1, <1>2, ConcatRange
<1>5. n \in Storings
  BY <1>1, <1>2, <1>3, <1>4 DEF Storings
<1>6. \A i \in 1 .. l : n.rows[i] = m.rows[i]
  BY <1>c DEF s, u
<1>7. \A k \in 1 .. z : l + k \in 1 .. l + z /\ n.rows[l + k] = R[k]
  BY <1>c DEF u
<1>8. \A i \in l + 1 .. l + z : n.rows[i].effective
  <2> TAKE i \in l + 1 .. l + z
  <2>1. i - l \in 1 .. z /\ l + (i - l) = i
    BY <1>1
  <2> QED
    BY <2>1, <1>7, <1>a
<1>9. Further(m, n)
  <2>1. \A i \in 1 .. l : Agree(n.rows[i], m.rows[i])
    BY <1>6 DEF Agree
  <2>2. l <= l + z /\ Range(m.ids) \subseteq Range(n.ids)
    BY <1>1, <1>4
  <2> QED
    BY <1>1, <1>2, <1>3, <1>8, <2>1, <2>2 DEF Further
<1>10. \A i \in Range(I) : \E k \in 1 .. z : i = l + k
  BY <1>1, <1>a DEF Range
<1>11. \A i \in Range(n.ids) : \/ i \in Range(m.ids)
                               \/ \E k \in 1 .. z : i = l + k /\ i \in 1 .. l + z /\ n.rows[i] = R[k]
  <2> TAKE i \in Range(n.ids)
  <2>1. CASE i \in Range(m.ids)
    BY <2>1
  <2>2. CASE i \in Range(I)
    <3>1. PICK k \in 1 .. z : i = l + k
      BY <1>10, <2>2
    <3>2. i \in 1 .. l + z /\ n.rows[i] = R[k]
      BY <1>7, <3>1
    <3> QED
      BY <3>1, <3>2
  <2> QED
    BY <1>4, <2>1, <2>2
<1> QED
  BY <1>1, <1>2, <1>3, <1>5, <1>9, <1>11 DEF Grown

LEMMA EndsFinite ==
  ASSUME NEW p, Shaped(p)
  PROVE  IsFiniteSet(Ends(p)) /\ Ends(p) \subseteq Mention \cup {Self}
<1>1. IsFiniteSet(SaidMentions(p)) /\ SaidMentions(p) \subseteq Mention /\ NoMention \in Mention
  BY SaidFinite, IdentitySaid DEF Mention
<1>2. IsFiniteSet({NoMention, Self, Self})
  BY FewFinite
<1>3. IsFiniteSet(SaidMentions(p) \cup {NoMention, Self, Self})
  BY <1>1, <1>2, FS_Union
<1>4. Ends(p) = SaidMentions(p) \cup {NoMention, Self, Self}
  BY DEF Ends
<1> QED
  BY <1>1, <1>3, <1>4

LEMMA OwnFinal ==
  ASSUME FactsInv, NEW p, Shaped(p), NEW c, NEW w, Woven(p, c, w), NEW m \in Made(p, w),
         ~ m.denied => \A f \in Range(w.facts) : Due(f, w) => Left(f, p, w, m)
  PROVE  Final(p, w, Own(m, w))
<1> DEFINE Y == Taken(w)
           told == {Thing(x) : x \in Y}
           untold == {x \in told \ {"self"} : Instance(m, "owns", "self", x, TRUE) = 0}
           new == SetToSeq(untold)
           own(x) == [kind |-> "relation", of |-> "self", to |-> x, dim |-> "owns", val |-> "",
                      turn |-> turns + 1, current |-> TRUE, effective |-> TRUE]
           R == [k \in DOMAIN new |-> own(new[k])]
           I == [k \in DOMAIN new |-> Len(m.rows) + k]
           n == Own(m, w)
<1>1. n = [m EXCEPT !.rows = @ \o R, !.ids = @ \o I]
  BY Zenon DEF Own, Taken
<1>2. Y \subseteq Ends(p) /\ IsFiniteSet(Y)
  <2>1. Y \subseteq w.mentions
    BY DEF Taken
  <2>2. Y \subseteq Ends(p)
    BY <2>1 DEF Woven
  <2> HIDE DEF Y
  <2> QED
    BY <2>2, EndsFinite, FS_Subset
<1> HIDE DEF Y
<1>3. IsFiniteSet(told)
  <2> DEFINE g == [x \in Y |-> Thing(x)]
  <2>1. told = {g[x] : x \in Y}
    OBVIOUS
  <2> HIDE DEF told, g
  <2> QED
    BY <1>2, <2>1, ImageFinite
<1>4. \A x \in told : x \in Word /\ \E y \in Taken(w) : x = Thing(y)
  <2> TAKE x \in told
  <2>1. PICK y \in Y : x = Thing(y)
    OBVIOUS
  <2>2. y \in Mention \cup {Self}
    BY <1>2, EndsFinite
  <2>3. x \in Word
    BY <2>1, <2>2, ThingWord DEF FactsInv
  <2> QED
    BY <2>1, <2>3 DEF Y
<1>5. untold \subseteq told /\ \A x \in untold : x # "self"
  OBVIOUS
<1>6. IsFiniteSet(untold)
  BY <1>3, <1>5, FS_Subset
<1> HIDE DEF untold, told
<1>7. new \in Seq(untold) /\ Range(new) \subseteq untold
  BY <1>6, Enumerated
<1> HIDE DEF new
<1>8. /\ DOMAIN new = 1 .. Len(new) /\ Len(new) \in Nat
      /\ \A k \in 1 .. Len(new) : new[k] \in untold
  BY <1>7, LenProperties, ElementOfSeq
<1> HIDE DEF R, I, n, own
<1>9. \A x \in untold : own(x) \in Row
  <2> TAKE x \in untold
  <2>1. x \in Word /\ turns + 1 \in Nat
    BY <1>4, <1>5 DEF FactsInv
  <2>2. "relation" \in Kinds /\ "self" \in Word /\ "owns" \in Word /\ "" \in Word
    BY DEF Kinds, Word
  <2> QED
    BY <2>1, <2>2 DEF Row, own
<1>10. \A x \in untold : OwnRow(w, own(x))
  <2> TAKE x \in untold
  <2>1. PICK y \in Taken(w) : x = Thing(y)
    BY <1>4, <1>5
  <2> QED
    BY <1>5, <2>1 DEF OwnRow, own
<1>e. \A x : own(x).effective
  BY DEF own
<1> DEFINE z == Len(new)
<1>11. /\ R \in Seq(Row) /\ Len(R) = z /\ I \in Seq(Nat) /\ Len(I) = z
       /\ \A k \in 1 .. z : R[k] = own(new[k]) /\ I[k] = Len(m.rows) + k
  <2>0. Len(m.rows) \in Nat
    BY LenProperties DEF Made, Storings
  <2> DEFINE l == Len(m.rows)
             I2 == [k \in DOMAIN new |-> l + k]
  <2>1. z \in Nat /\ DOMAIN new = 1 .. z /\ l \in Nat
    BY <1>8, <2>0
  <2>a. \A k \in 1 .. z : own(new[k]) \in Row
    BY <1>8, <1>9
  <2>b. R = [k \in DOMAIN new |-> own(new[k])]
    BY DEF R, own
  <2> HIDE DEF z, l
  <2>2. R \in [1 .. z -> Row] /\ I2 \in [1 .. z -> Nat] /\ DOMAIN R = 1 .. z /\ DOMAIN I2 = 1 .. z
        /\ \A k \in 1 .. z : R[k] = own(new[k]) /\ I2[k] = l + k
    BY <2>1, <2>a, <2>b
  <2> HIDE DEF I2
  <2>3. R \in Seq(Row) /\ I2 \in Seq(Nat)
    BY <2>1, <2>2
  <2>4. Len(R) = z /\ Len(I2) = z
    BY <2>1, <2>2, <2>3, LenProperties
  <2>5. I = I2
    BY DEF I, I2, l
  <2> QED
    BY <2>2, <2>3, <2>4, <2>5 DEF l
<1> HIDE DEF z
<1>12. m \in Storings
  BY DEF Made
<1>13. /\ n \in Storings /\ Further(m, n) /\ n.denied = m.denied
       /\ \A i \in Range(n.ids) : \/ i \in Range(m.ids)
                                  \/ \E k \in 1 .. z : i \in 1 .. Len(n.rows) /\ n.rows[i] = own(new[k])
  <2>1. \A k \in 1 .. Len(R) : I[k] = Len(m.rows) + k /\ R[k].effective
    BY <1>11, <1>e
  <2>2. Grown(m, n, R)
    BY <1>1, <1>11, <1>12, <2>1, RowsAdded
  <2> QED
    BY <1>11, <2>2 DEF Grown
<1>14. \A k \in 1 .. z : OwnRow(w, own(new[k]))
  BY <1>8, <1>10 DEF z
<1>15. ASSUME NEW f, Left(f, p, w, m)
       PROVE  Left(f, p, w, n)
  <2>1. PICK i \in Range(m.ids) : RowTells(f, p, w, m.rows[i])
    BY <1>15 DEF Left
  <2>2. i \in 1 .. Len(m.rows) /\ i \in Range(n.ids) /\ Agree(n.rows[i], m.rows[i])
    BY <1>13 DEF Further, Made
  <2>3. RowTells(f, p, w, n.rows[i])
    BY <2>1, <2>2 DEF RowTells, Agree
  <2> QED
    BY <2>2, <2>3 DEF Left
<1>16. Further(Untouched, n)
  <2>1. Untouched \in Storings /\ Further(Untouched, m)
    BY UntouchedMade DEF Made
  <2> QED
    BY <1>12, <1>13, <2>1, FurtherFurther
<1>17. ASSUME NEW i \in Range(m.ids)
       PROVE  i \in 1 .. Len(n.rows) /\ \E f \in Range(w.facts) : RowTells(f, p, w, n.rows[i])
  <2>1. PICK f \in Range(w.facts) : RowTells(f, p, w, m.rows[i])
    BY DEF Made
  <2>2. i \in 1 .. Len(m.rows) /\ Agree(n.rows[i], m.rows[i]) /\ Len(m.rows) <= Len(n.rows)
    BY <1>13 DEF Further, Made
  <2>3. RowTells(f, p, w, n.rows[i])
    BY <2>1, <2>2 DEF RowTells, Agree
  <2>4. Len(m.rows) \in Nat /\ Len(n.rows) \in Nat
    BY <1>12, <1>13, LenProperties DEF Storings
  <2> QED
    BY <2>2, <2>3, <2>4
<1>18. \A i \in Range(n.ids) : /\ i \in 1 .. Len(n.rows)
                               /\ \/ \E f \in Range(w.facts) : RowTells(f, p, w, n.rows[i])
                                  \/ OwnRow(w, n.rows[i])
  BY <1>13, <1>14, <1>17
<1>19. ~ n.denied => \A f \in Range(w.facts) : Due(f, w) => Left(f, p, w, n)
  BY <1>13, <1>15
<1>20. Final(p, w, n)
  BY <1>13, <1>16, <1>18, <1>19 DEF Final
<1> QED
  BY <1>20 DEF n

LEMMA MaterializedFinal ==
  ASSUME FactsInv, NEW p, Shaped(p), NEW c, NEW w, Woven(p, c, w)
  PROVE  Final(p, w, Materialized(p, w))
<1>1. w.facts \in Seq(WireFact)
  BY DEF Woven
<1>2. PICK at : Materializing(p, w, at)
  BY <1>1, MaterializedSteps
<1> DEFINE m == at[Len(w.facts)]
<1>3. m \in Made(p, w) /\ (~ m.denied => \A f \in Range(w.facts) : Due(f, w) => Left(f, p, w, m))
  BY <1>1, <1>2, AllLeft
<1>4. Materialized(p, w) = Own(m, w)
  BY <1>2, Zenon DEF Materializing
<1> HIDE DEF m
<1> QED
  BY <1>3, <1>4, OwnFinal

-----------------------------------------------------------------------------
(* What a row may be of.                                                   *)

KnownThing(p, x) == x \in {"", "self"} \/ \E m \in SaidMentions(p) : m.ref = "contextual" \/ m.text = x

PrimaryRow(s, r) ==
  LET p == s.said IN
  \/ r.kind = "event" /\ (Occurred(p) \/ (s.corrects /\ Route(p) = "event"))
  \/ r.kind = "state" /\ r.val = p.state
  \/ r.kind = "relation" /\ r.dim = p.rel
  \/ r.kind = "attribute" /\ Described(p, r)
  \/ r.kind = "measurement" /\ [dim |-> r.dim, val |-> r.val] = p.meas

ClaimTold(p, r) == \E k \in Explicit(p) : /\ p.claims[k].kind = r.kind /\ p.claims[k].dim = r.dim
                                           /\ (r.kind = "relation" \/ p.claims[k].val = r.val)

SaidRow(s, r) ==
  /\ PrimaryRow(s, r) \/ ClaimTold(s.said, r) \/ Owning(s.said, r)
  /\ KnownThing(s.said, r.of) /\ KnownThing(s.said, r.to)

LEMMA ThingKnown ==
  ASSUME NEW p, Shaped(p), NEW m \in Ends(p)
  PROVE  KnownThing(p, Thing(m))
<1>1. CASE m \in SaidMentions(p)
  BY <1>1 DEF KnownThing, Thing
<1>2. CASE m = NoMention
  BY <1>2 DEF KnownThing, Thing, NoMention
<1>3. CASE m = Self
  BY <1>3 DEF KnownThing, Thing, Self
<1> QED
  BY <1>1, <1>2, <1>3 DEF Ends

LEMMA FirstThingKnown ==
  ASSUME NEW p, Shaped(p), NEW w
  PROVE  KnownThing(p, FirstThing(p, w))
<1> DEFINE said == p.others \o <<p.subject, p.object>>
           things == {k \in DOMAIN said : said[k] \in w.mentions /\ Thing(said[k]) # ""}
           First(k) == \A j \in things : k <= j
<1>1. FirstThing(p, w) = IF things = {} THEN "" ELSE Thing(said[CHOOSE k \in things : First(k)])
  BY Zenon DEF FirstThing
<1>2. /\ said \in Seq(Mention) /\ Len(said) \in Nat /\ DOMAIN said = 1 .. Len(said)
      /\ Range(said) = Range(p.others) \cup Range(<<p.subject, p.object>>)
  <2>1. p.others \in Seq(Mention) /\ p.subject \in Mention /\ p.object \in Mention
    BY ShapeFacts
  <2>2. <<p.subject, p.object>> \in Seq(Mention)
    BY <2>1
  <2> QED
    BY <2>1, <2>2, ConcatRange, LenProperties
<1>3. Range(<<p.subject, p.object>>) = {p.subject, p.object}
  BY DEF Range
<1>4. Range(said) \subseteq Ends(p)
  BY <1>2, <1>3, SaidFacts DEF Ends
<1> HIDE DEF said
<1>5. things \subseteq 1 .. Len(said)
  BY <1>2
<1>6. \A k \in things : said[k] \in Ends(p)
  BY <1>4 DEF Range
<1> HIDE DEF things
<1>7. things # {} => \E k \in things : First(k)
  BY <1>2, <1>5, FirstPosition
<1> HIDE DEF First
<1>8. things # {} => (CHOOSE k \in things : First(k)) \in things
  BY <1>7, Zenon
<1>9. \A k \in things : KnownThing(p, Thing(said[k]))
  BY <1>6, ThingKnown
<1>10. KnownThing(p, "")
  BY DEF KnownThing
<1> QED
  BY <1>1, <1>8, <1>9, <1>10, Zenon

LEMMA PairEqual ==
  ASSUME NEW v \in [dim : Word, val : Word]
  PROVE  [dim |-> v.dim, val |-> v.val] = v
OBVIOUS

LEMMA RowKnown ==
  ASSUME NEW p, Shaped(p), NEW c, NEW w, Woven(p, c, w), NEW f \in Range(w.facts), NEW r, RowTells(f, p, w, r)
  PROVE  KnownThing(p, r.of) /\ KnownThing(p, r.to)
<1>1. f.of \in Ends(p) /\ f.to \in Ends(p)
  BY DEF Woven
<1>2. KnownThing(p, Thing(f.of)) /\ KnownThing(p, Thing(f.to)) /\ KnownThing(p, FirstThing(p, w))
  BY <1>1, ThingKnown, FirstThingKnown
<1>3. KnownThing(p, "")
  BY DEF KnownThing
<1> QED
  BY <1>2, <1>3, Zenon DEF RowTells, SubjectOf, ObjectOf

LEMMA FactKinds ==
  ASSUME NEW p, NEW c, NEW w, Woven(p, c, w), NEW f \in Range(w.facts)
  PROVE  f \in WireFact /\ f.kind \in Kinds /\ Told(p, c, f)
<1>1. w.facts \in Seq(WireFact) /\ Told(p, c, f)
  BY DEF Woven
<1>2. PICK k \in DOMAIN w.facts : f = w.facts[k]
  BY DEF Range
<1>3. f \in WireFact
  BY <1>1, <1>2, ElementOfSeq, LenProperties
<1> QED
  BY <1>1, <1>3 DEF WireFact

\* The row of a fact that is told.
LEMMA RowSaid ==
  ASSUME NEW p, Shaped(p), NEW s, s.said = p, s.corrects = IsCorrection(p), NEW c, c.kind = Route(p),
         NEW w, Woven(p, c, w), NEW f \in Range(w.facts), NEW r, RowTells(f, p, w, r)
  PROVE  SaidRow(s, r)
<1>1. f \in WireFact /\ f.kind \in Kinds /\ Told(p, c, f)
  BY FactKinds
<1>2. KnownThing(p, r.of) /\ KnownThing(p, r.to)
  BY RowKnown
<1>3. r.kind = f.kind /\ r.dim = f.dim /\ (f.kind # "relation" => r.val = f.val)
      /\ SubjectOf(f, p, w, r.of) /\ ObjectOf(f, r.to)
  BY DEF RowTells
<1>4. CASE ToldFirst(p, c, f)
  <2>0. p.meas \in [dim : Word, val : Word]
    BY DEF Shaped, Shape
  <2>m. [dim |-> p.meas.dim, val |-> p.meas.val] = p.meas
    BY <2>0, PairEqual
  <2>1. CASE f = Fact("measurement", MeasuredEntity(p), p.context, p.meas.dim, p.meas.val, "assert")
    <3>1. f.kind = "measurement" /\ f.dim = p.meas.dim /\ f.val = p.meas.val
      BY <2>1, FactFields
    <3>2. r.kind = "measurement" /\ [dim |-> r.dim, val |-> r.val] = p.meas
      BY <1>3, <2>m, <3>1
    <3> QED
      BY <1>2, <3>2, Zenon DEF SaidRow, PrimaryRow
  <2>2. CASE f # Fact("measurement", MeasuredEntity(p), p.context, p.meas.dim, p.meas.val, "assert")
    <3>1. /\ f.kind = c.kind /\ f.kind # "measurement"
          /\ f.kind = "event" => Occurred(p) \/ IsCorrection(p)
          /\ f.kind = "state" => f.val = p.state
          /\ f.kind = "relation" => f.dim = p.rel
          /\ f.kind = "attribute" => Described(p, f)
      BY <1>4, <2>2, Zenon DEF ToldFirst
    <3>2. f.kind = "event" \/ f.kind = "state" \/ f.kind = "relation" \/ f.kind = "attribute"
      BY <1>1, <3>1 DEF Kinds
    <3>3. f.kind = "attribute" => Described(p, r)
      <4> SUFFICES ASSUME f.kind = "attribute"
                   PROVE  Described(p, r)
        OBVIOUS
      <4>1. f.kind # "relation"
        OBVIOUS
      <4>2. r.dim = f.dim /\ r.val = f.val
        BY <1>3, <4>1
      <4> QED
        BY <3>1, <4>2, Zenon DEF Described
    <3>4. PrimaryRow(s, r)
      BY <1>3, <3>1, <3>2, <3>3, Zenon DEF PrimaryRow
    <3> QED
      BY <1>2, <3>4 DEF SaidRow
  <2> QED
    BY <2>1, <2>2
<1>5. CASE ToldByClaim(p, f)
  <2>1. PICK k \in Explicit(p) : /\ p.claims[k].kind \in {"attribute", "relation", "measurement"}
                                 /\ f = ClaimFact(p, p.claims[k])
    BY <1>5 DEF ToldByClaim
  <2>2. /\ f.kind = p.claims[k].kind /\ f.dim = p.claims[k].dim
        /\ p.claims[k].kind # "relation" => f.val = p.claims[k].val
    BY <2>1, ClaimFactShape
  <2>3. ClaimTold(p, r)
    BY <1>3, <2>2 DEF ClaimTold
  <2> QED
    BY <1>2, <2>3 DEF SaidRow
<1>6. CASE ToldAsOwn(p, f)
  <2>1. PICK m \in Owned(p) : f = Owns(m)
    BY <1>6 DEF ToldAsOwn
  <2>2. f.kind = "relation" /\ f.dim = "owns" /\ f.of = Self /\ f.to = m
    BY <2>1 DEF Owns, Fact
  <2>3. m \in SaidMentions(p) /\ m.ref = "possessive"
    BY IdentitySaid
  <2>4. Thing(Self) = "self" /\ Thing(m) = m.text
    BY <2>3 DEF Thing, Self
  <2>5. r.of = "self" /\ r.to = m.text
    BY <1>3, <2>2, <2>4 DEF SubjectOf, ObjectOf
  <2>6. Owning(p, r)
    BY <1>3, <2>2, <2>3, <2>5 DEF Owning
  <2> QED
    BY <1>2, <2>6 DEF SaidRow
<1> QED
  BY <1>1, <1>4, <1>5, <1>6 DEF Told

LEMMA OwnRowSaid ==
  ASSUME NEW p, Shaped(p), NEW s, s.said = p, NEW c, NEW w, Woven(p, c, w), NEW r, OwnRow(w, r)
  PROVE  SaidRow(s, r)
<1>1. PICK y \in Taken(w) : r.to = Thing(y) /\ r.to # "self"
  BY DEF OwnRow
<1>2. y \in Ends(p)
  BY DEF Woven, Taken
<1>a. y.ref = "possessive" \/ Thing(y) \in Vehicles
  BY DEF Taken
<1>3. y \in SaidMentions(p)
  <2>1. NoMention.ref = "none" /\ Self.ref = "self" /\ Thing(NoMention) = "" /\ Thing(Self) = "self"
    BY DEF NoMention, Self, Thing
  <2>2. y # NoMention /\ y # Self
    BY <1>1, <1>a, <2>1, VehiclesAssumption
  <2> QED
    BY <1>2, <2>2 DEF Ends
<1>4. y.ref = "contextual" \/ r.to = y.text \/ r.to = ""
  BY <1>1 DEF Thing
<1>b. y.ref = "possessive" => r.to = y.text
  BY <1>1 DEF Thing
<1>5. Owning(p, r)
  BY <1>1, <1>3, <1>4, <1>a, <1>b, VehiclesAssumption DEF OwnRow, Owning
<1>6. KnownThing(p, r.to)
  BY <1>1, <1>2, ThingKnown
<1>7. KnownThing(p, r.of)
  <2>1. r.of = "self"
    BY DEF OwnRow
  <2> QED
    BY <2>1 DEF KnownThing
<1> QED
  BY <1>5, <1>6, <1>7 DEF SaidRow

LEMMA FinalSaid ==
  ASSUME NEW p, Shaped(p), NEW s, s.said = p, s.corrects = IsCorrection(p), NEW c, c.kind = Route(p),
         NEW w, Woven(p, c, w), NEW n, Final(p, w, n), NEW i \in Range(n.ids)
  PROVE  SaidRow(s, n.rows[i])
BY RowSaid, OwnRowSaid DEF Final

-----------------------------------------------------------------------------
(* Turns.                                                                  *)

\* The question that is open is of an utterance that was not stored.
Asked == /\ pending = [slot |-> pending.slot, of |-> pending.of, rounds |-> pending.rounds,
                       status |-> pending.status]
         /\ Shaped(pending.of.said) /\ pending.of = Reading(pending.of.said)
         /\ ~ pending.of.executes /\ pending.slot = pending.of.question

TurnsInv ==
  /\ FactsInv
  /\ heard.wrote \subseteq 1 .. Len(rows)
  /\ pending = NoQuestion \/ Asked

LEMMA FilledShaped ==
  ASSUME NEW p, Shaped(p), NEW slot \in AnswerableSlots, NEW a \in AnswersGiven
  PROVE  Shaped(Filled(p, slot, a))
<1> DEFINE mention == [text |-> a.text, ref |-> "named"]
           v == [dim |-> a.text, val |-> a.val]
<1>1. a.text \in STRING \ {""} /\ a.val \in STRING
  BY AnswersAssumption
<1>2. mention \in Mention /\ v \in [dim : Word, val : Word] /\ a.text \in Word
  BY <1>1 DEF Mention, Word
<1>3. p \in Shape
  BY DEF Shaped
<1> HIDE DEF mention, v
<1>4. [p EXCEPT !.subject = mention] \in Shape /\ [p EXCEPT !.object = mention] \in Shape
  BY <1>2, <1>3 DEF Shape
<1>5. [p EXCEPT !.meas.dim = a.text] \in Shape
  <2> DEFINE q == [p.meas EXCEPT !.dim = a.text]
  <2>1. p.meas \in [dim : Word, val : Word]
    BY <1>3 DEF Shape
  <2>2. q \in [dim : Word, val : Word]
    BY <1>2, <2>1
  <2>3. [p EXCEPT !.meas.dim = a.text] = [p EXCEPT !.meas = q]
    OBVIOUS
  <2> HIDE DEF q
  <2> QED
    BY <1>3, <2>2, <2>3 DEF Shape
<1>6. [p EXCEPT !.exprs = @ \cup {"attribute"}, !.attr = v] \in Shape
  <2> DEFINE q == p.exprs \cup {"attribute"}
  <2>1. q \in SUBSET (STRING \cup {"attribute", "state"})
    BY <1>3 DEF Shape
  <2>2. [p EXCEPT !.exprs = @ \cup {"attribute"}, !.attr = v] = [p EXCEPT !.exprs = q, !.attr = v]
    OBVIOUS
  <2> HIDE DEF q
  <2> QED
    BY <1>2, <1>3, <2>1, <2>2 DEF Shape
<1>7. [p EXCEPT !.exprs = @ \cup {"state"}, !.state = a.text, !.alias = "one"] \in Shape
  <2> DEFINE q == p.exprs \cup {"state"}
             al == "one"
  <2>1. q \in SUBSET (STRING \cup {"attribute", "state"}) /\ al \in STRING \cup {"one"}
    BY <1>3 DEF Shape
  <2>2. [p EXCEPT !.exprs = @ \cup {"state"}, !.state = a.text, !.alias = "one"]
          = [p EXCEPT !.exprs = q, !.state = a.text, !.alias = al]
    OBVIOUS
  <2> HIDE DEF q, al
  <2> QED
    BY <1>2, <1>3, <2>1, <2>2 DEF Shape
<1>8. \/ slot = "measured_entity" \/ slot = "relation_subject" \/ slot = "relation_object"
      \/ slot = "measurement_dimension" \/ slot = "attribute_dimension" \/ slot = "state_value"
  BY DEF AnswerableSlots, EntitySlots
<1> DEFINE x == Filled(p, slot, a)
<1>9. \/ x = [p EXCEPT !.subject = mention]
      \/ x = [p EXCEPT !.object = mention]
      \/ x = [p EXCEPT !.meas.dim = a.text]
      \/ x = [p EXCEPT !.exprs = @ \cup {"attribute"}, !.attr = v]
      \/ x = [p EXCEPT !.exprs = @ \cup {"state"}, !.state = a.text, !.alias = "one"]
  BY <1>8, Zenon DEF Filled, mention, v
<1> HIDE DEF x
<1>10. x \in Shape
  BY <1>4, <1>5, <1>6, <1>7, <1>9
<1> QED
  BY <1>10 DEF x, Shaped

LEMMA VerdictMeans ==
  ASSUME NEW s
  PROVE  /\ Verdict(s) \in {"clarify", "rejected", "persistable"}
         /\ Verdict(s) = "persistable" => Bound(s.wire)
<1> DEFINE early == Timed(s.wire) /\ s.said.time = "insufficient"
           bad == Timed(s.wire) /\ s.said.time \in {"bad", "vague"}
           rules == << <<early, "clarify">>, <<bad, "rejected">>, <<~ Bound(s.wire), "rejected">>,
                       <<TRUE, "persistable">> >>
           n == 4
<1>1. Verdict(s) = FirstOf(rules)
  BY Zenon DEF Verdict
<1> HIDE DEF early, bad
<1>2. n \in Nat /\ DOMAIN rules = 1 .. n /\ n \in 1 .. n /\ rules[n][1]
  OBVIOUS
<1>3. /\ rules[1][2] = "clarify" /\ rules[2][2] = "rejected" /\ rules[3][2] = "rejected"
      /\ rules[4][2] = "persistable" /\ (rules[3][1] <=> ~ Bound(s.wire))
  OBVIOUS
<1> HIDE DEF rules, n
<1>4. PICK k \in 1 .. n : FirstOf(rules) = rules[k][2] /\ \A i \in 1 .. k - 1 : ~ rules[i][1]
  BY <1>2, FirstRule
<1>5. k = 1 \/ k = 2 \/ k = 3 \/ k = 4
  BY DEF n
<1>6. k = 4 => ~ rules[3][1]
  BY <1>4
<1> QED
  BY <1>1, <1>3, <1>4, <1>5, <1>6

\* What a proposal that executes comes to: nothing, or what is written of it.
StoredAs(s, r) ==
  \/ r.to.rows = rows /\ r.to.ids = <<>> /\ r.status # "committed"
  \/ \E n : /\ Final(s.said, s.wire, n) /\ ~ n.denied /\ Verdict(s) = "persistable"
            /\ r.to.rows = n.rows /\ r.to.ids = n.ids /\ r.status = Status(s.wire, n)

LEMMA IngestedWritten ==
  ASSUME FactsInv, NEW p, Shaped(p), NEW s, s = Reading(p)
  PROVE  StoredAs(s, Ingested(s))
<1> DEFINE m == Materialized(s.said, s.wire)
           r == Ingested(s)
           refused == [rows |-> rows, ids |-> <<>>]
           kept == [rows |-> m.rows, ids |-> m.ids]
<1>1. r = IF Verdict(s) # "persistable" THEN [status |-> Verdict(s), to |-> refused]
          ELSE IF m.denied THEN [status |-> "rejected", to |-> refused]
          ELSE [status |-> Status(s.wire, m), to |-> kept]
  BY Zenon DEF Ingested
<1>2. s.said = p
  BY ReadingFields
<1>3. Final(s.said, s.wire, m)
  BY <1>2, ReadingWoven, MaterializedFinal
<1>4. Verdict(s) # "persistable" => Verdict(s) # "committed"
  BY VerdictMeans
<1>5. refused.rows = rows /\ refused.ids = <<>> /\ kept.rows = m.rows /\ kept.ids = m.ids
  OBVIOUS
<1> HIDE DEF m, r, refused, kept
<1>6. CASE Verdict(s) # "persistable"
  <2>1. r.to = refused /\ r.status = Verdict(s)
    BY <1>1, <1>6
  <2> QED
    BY <1>4, <1>5, <1>6, <2>1, Zenon DEF StoredAs, r
<1>7. CASE Verdict(s) = "persistable" /\ m.denied
  <2>1. r.to = refused /\ r.status = "rejected"
    BY <1>1, <1>7
  <2>2. r.status # "committed"
    BY <2>1
  <2> QED
    BY <1>5, <2>1, <2>2, Zenon DEF StoredAs, r
<1>8. CASE Verdict(s) = "persistable" /\ ~ m.denied
  <2>1. r.to = kept /\ r.status = Status(s.wire, m)
    BY <1>1, <1>8
  <2>2. StoredAs(s, r)
    BY <1>3, <1>5, <1>8, <2>1 DEF StoredAs
  <2> QED
    BY <2>2 DEF r
<1> QED
  BY <1>6, <1>7, <1>8

LEMMA StoredKeeps ==
  ASSUME FactsInv, NEW s, NEW r, NEW answering, r.to.rows \in Seq(Row), r.to.ids \in Seq(Nat),
         Range(r.to.ids) \subseteq 1 .. Len(r.to.rows), Stored(s, r, answering)
  PROVE  FactsInv' /\ heard'.wrote \subseteq 1 .. Len(rows')
<1>1. turns' = turns + 1 /\ rows' = r.to.rows /\ focus' = FocusAfter(r) /\ heard'.wrote = Range(r.to.ids)
  BY DEF Stored
<1> DEFINE R == r.to.rows
           I == r.to.ids
<1>2. R \in Seq(Row) /\ I \in Seq(Nat) /\ Range(I) \subseteq 1 .. Len(R)
      /\ FocusAfter(r) = IF I = <<>> \/ R[I[1]].of = "" THEN focus ELSE R[I[1]].of
  BY DEF FocusAfter
<1> HIDE DEF R, I
<1>3. FocusAfter(r) \in Word
  <2>1. CASE I = <<>> \/ R[I[1]].of = ""
    BY <1>2, <2>1 DEF FactsInv
  <2>2. CASE ~ (I = <<>> \/ R[I[1]].of = "")
    <3>1. 1 \in DOMAIN I
      <4>1. I # <<>> /\ I \in Seq(Nat)
        BY <1>2, <2>2
      <4>2. Len(I) \in Nat \ {0}
        BY <4>1, EmptySeq
      <4>3. DOMAIN I = 1 .. Len(I)
        BY <4>1, LenProperties
      <4> QED
        BY <4>2, <4>3
    <3>2. I[1] \in 1 .. Len(R)
      BY <1>2, <3>1 DEF Range
    <3>3. R[I[1]] \in Row
      BY <1>2, <3>2, ElementOfSeq
    <3>4. R[I[1]].of \in Word
      BY <3>3 DEF Row
    <3> QED
      BY <1>2, <2>2, <3>4
  <2> QED
    BY <2>1, <2>2
<1>4. rows' \in Seq(Row) /\ focus' \in Word /\ turns' \in Nat
  <2>1. turns \in Nat
    BY DEF FactsInv
  <2>2. turns' \in Nat
    BY <1>1, <2>1
  <2>3. rows' \in Seq(Row) /\ focus' \in Word
    BY <1>1, <1>2, <1>3, Zenon DEF R
  <2> QED
    BY <2>2, <2>3
<1>5. heard'.wrote \subseteq 1 .. Len(rows')
  BY <1>1, <1>2 DEF R, I
<1> QED
  BY <1>4, <1>5 DEF FactsInv

\* The row that a correction is of.
LEMMA TargetFound ==
  ASSUME FactsInv, NEW d, Target(d) # 0
  PROVE  /\ Target(d) \in 1 .. Len(rows) /\ rows[Target(d)].effective
         /\ d.row = Target(d) \/ Candidates(d) = {Target(d)}
<1>0. DOMAIN rows = 1 .. Len(rows)
  BY LenProperties DEF FactsInv
<1>1. CASE d.row # 0
  <2>1. Target(d) = d.row /\ d.row \in DOMAIN rows /\ rows[d.row].effective
    BY <1>1 DEF Target
  <2> QED
    BY <1>0, <2>1
<1>2. CASE d.row = 0
  <2> DEFINE t == CHOOSE k \in Candidates(d) : TRUE
  <2>1. Target(d) = t /\ \E k \in Candidates(d) : Candidates(d) = {k}
    BY <1>2 DEF Target
  <2>2. t \in Candidates(d)
    BY <2>1
  <2> HIDE DEF t
  <2>3. Candidates(d) = {t}
    BY <2>1, <2>2
  <2>4. t \in DOMAIN rows /\ rows[t].effective
    BY <2>2 DEF Candidates
  <2> QED
    BY <1>0, <2>1, <2>3, <2>4
<1> QED
  BY <1>1, <1>2

\* X is R with one row retired.
Retires(R, k, X) ==
  /\ X \in Seq(Row) /\ Len(X) = Len(R) /\ ~ X[k].effective
  /\ \A j \in 1 .. Len(R) : j # k => X[j] = R[j]
  /\ X[k].kind = R[k].kind /\ X[k].of = R[k].of /\ X[k].to = R[k].to
  /\ X[k].dim = R[k].dim /\ X[k].val = R[k].val

LEMMA Retired ==
  ASSUME NEW R \in Seq(Row), NEW k \in 1 .. Len(R), NEW X, X = [R EXCEPT ![k].effective = FALSE]
  PROVE  Retires(R, k, X)
<1>1. DOMAIN R = 1 .. Len(R) /\ Len(R) \in Nat
  BY LenProperties
<1>2. R[k] \in Row
  BY ElementOfSeq
<1> DEFINE r == [R[k] EXCEPT !.effective = FALSE]
<1>3. r \in Row /\ ~ r.effective /\ r.kind = R[k].kind /\ r.of = R[k].of /\ r.to = R[k].to
      /\ r.dim = R[k].dim /\ r.val = R[k].val
  BY <1>2 DEF Row
<1>4. X = [R EXCEPT ![k] = r]
  OBVIOUS
<1> HIDE DEF r
<1>5. X \in Seq(Row) /\ Len(X) = Len(R)
  <2>0. r \in Row /\ R \in Seq(Row) /\ k \in 1 .. Len(R)
    BY <1>3
  <2>1. [R EXCEPT ![k] = r] \in Seq(Row)
    BY <2>0, ExceptSeq, ZenonT(40)
  <2>2. Len([R EXCEPT ![k] = r]) = Len(R)
    BY <2>0, ExceptSeq, ZenonT(40)
  <2> QED
    BY <1>4, <2>1, <2>2, Zenon
<1>6. X[k] = r /\ \A j \in 1 .. Len(R) : j # k => X[j] = R[j]
  BY <1>1, <1>4
<1> QED
  BY <1>3, <1>5, <1>6 DEF Retires

\* A turn that leaves what is stored as it is.
QuietTurn == /\ rows' = rows /\ focus' = focus /\ turns' = turns + 1
             /\ heard'.wrote = {} /\ heard'.status # "committed"

RetractTurn(p, k) ==
  LET s == Reading(p) IN
  /\ Shaped(p) /\ Accepted(s) /\ s.corrects /\ s.wire.op = "retract" /\ heard'.of = s /\ heard'.wrote = {}
  /\ k = Target(s.wire.target) /\ k # 0
  /\ rows' = [rows EXCEPT ![k].effective = FALSE] /\ focus' = focus /\ turns' = turns + 1

\* A turn that stores n, of p.
WriteTurn(p, n) ==
  LET s == Reading(p) IN
  /\ Shaped(p) /\ Final(p, s.wire, n) /\ ~ n.denied /\ ~ s.corrects /\ Verdict(s) = "persistable"
  /\ heard'.of = s /\ heard'.wrote = Range(n.ids) /\ heard'.status = Status(s.wire, n)
  /\ rows' = n.rows

ReplaceTurn(p, n, k) ==
  LET s == Reading(p) IN
  /\ Shaped(p) /\ Final(p, s.wire, n) /\ Accepted(s) /\ s.corrects /\ (\E j \in Range(n.ids) : j # k)
  /\ k = Target(s.wire.target) /\ k # 0
  /\ heard'.of = s /\ heard'.wrote = Range(n.ids)
  /\ rows' = [n.rows EXCEPT ![k].effective = FALSE]

\* The turn that answers the open question, p being the utterance that is completed.
AnswerTurn(p) ==
  /\ Open /\ Asked /\ pending'.slot = pending.slot /\ pending'.of = pending.of
  /\ Coherent(Reading(p)) /\ \E a \in AnswersGiven : p = Filled(pending.of.said, pending.slot, a)

LEMMA QuietSame ==
  ASSUME NEW s, NEW status, status # "committed", Turn(s, status), UNCHANGED <<rows, focus>>
  PROVE  QuietTurn
BY DEF Turn, QuietTurn

\* What an utterance is stored as.
LEMMA StoredTurn ==
  ASSUME FactsInv, NEW p, Shaped(p), NEW s, s = Reading(p), ~ s.corrects, NEW answering, Stored(s, Ingested(s), answering)
  PROVE  /\ FactsInv' /\ heard'.wrote \subseteq 1 .. Len(rows')
         /\ QuietTurn \/ \E n : WriteTurn(p, n)
<1> DEFINE r == Ingested(s)
<1>1. StoredAs(s, r)
  BY IngestedWritten
<1>2. s.said = p
  BY ReadingFields
<1> HIDE DEF r
<1>3. Stored(s, r, answering)
  BY DEF r
<1>4. /\ rows' = r.to.rows /\ focus' = FocusAfter(r) /\ turns' = turns + 1
      /\ heard'.of = s /\ heard'.wrote = Range(r.to.ids) /\ heard'.status = r.status
  BY <1>3 DEF Stored
<1>5. CASE r.to.rows = rows /\ r.to.ids = <<>> /\ r.status # "committed"
  <2>1. Range(<<>>) = {} /\ FocusAfter(r) = focus
    BY <1>5 DEF Range, FocusAfter
  <2>2. QuietTurn
    BY <1>4, <1>5, <2>1 DEF QuietTurn
  <2>3. r.to.rows \in Seq(Row) /\ r.to.ids \in Seq(Nat) /\ Range(r.to.ids) \subseteq 1 .. Len(r.to.rows)
    BY <1>5, <2>1 DEF FactsInv
  <2> QED
    BY <1>3, <2>2, <2>3, StoredKeeps
<1>6. ASSUME NEW n, Final(s.said, s.wire, n), ~ n.denied, Verdict(s) = "persistable",
             r.to.rows = n.rows, r.to.ids = n.ids, r.status = Status(s.wire, n)
      PROVE  /\ FactsInv' /\ heard'.wrote \subseteq 1 .. Len(rows')
             /\ WriteTurn(p, n)
  <2>1. n.rows \in Seq(Row) /\ n.ids \in Seq(Nat) /\ Range(n.ids) \subseteq 1 .. Len(n.rows)
    BY <1>6 DEF Final, Storings
  <2>2. WriteTurn(p, n)
    BY <1>2, <1>4, <1>6 DEF WriteTurn
  <2> QED
    BY <1>3, <1>6, <2>1, <2>2, StoredKeeps
<1> QED
  BY <1>1, <1>5, <1>6 DEF StoredAs

\* What the target is replaced by is among the rows that were written.
LEMMA ReplacingWritten ==
  ASSUME NEW m, m.ids \in Seq(Nat), m.ids # <<>>, NEW kind
  PROVE  Replacing(m, kind) \in Range(m.ids)
<1> DEFINE told == {i \in DOMAIN m.ids : m.rows[m.ids[i]].kind = kind}
           Later(i) == \A j \in told : j <= i
           at == IF told = {} THEN Len(m.ids) ELSE CHOOSE i \in told : Later(i)
<1>1. Replacing(m, kind) = m.ids[at]
  BY Zenon DEF Replacing
<1>2. Len(m.ids) \in Nat \ {0} /\ DOMAIN m.ids = 1 .. Len(m.ids)
  BY EmptySeq, LenProperties
<1>3. told \subseteq 1 .. Len(m.ids)
  BY <1>2
<1> HIDE DEF told
<1>4. told # {} => \E i \in told : Later(i)
  BY <1>2, <1>3, LastPosition
<1> HIDE DEF Later
<1>5. at \in 1 .. Len(m.ids)
  <2>1. CASE told = {}
    BY <1>2, <2>1
  <2>2. CASE told # {}
    <3>1. at \in told
      BY <1>4, <2>2, Zenon
    <3> QED
      BY <1>3, <3>1
  <2> QED
    BY <2>1, <2>2
<1> HIDE DEF at
<1> QED
  BY <1>1, <1>2, <1>5 DEF Range

LEMMA ReplacedTurn ==
  ASSUME FactsInv, NEW p, Shaped(p), NEW s, s = Reading(p), Replace(s)
  PROVE  /\ FactsInv' /\ heard'.wrote \subseteq 1 .. Len(rows')
         /\ QuietTurn \/ \E n, k : ReplaceTurn(p, n, k)
<1> DEFINE m == Materialized(s.said, s.wire)
           k == Target(s.wire.target)
           kind == s.wire.facts[1].kind
           r == [status |-> "committed",
                 to |-> [rows |-> [m.rows EXCEPT ![k].effective = FALSE], ids |-> m.ids]]
<1>1. /\ Corrects(s, "replace") /\ k # 0
      /\ IF Replaced(m, kind, k) = "committed" THEN Stored(s, r, FALSE)
         ELSE Turn(s, Replaced(m, kind, k)) /\ UNCHANGED <<rows, focus>>
  BY Zenon DEF Replace
<1>2. s.said = p
  BY ReadingFields
<1>3. Final(p, s.wire, m)
  BY <1>2, ReadingWoven, MaterializedFinal
<1>4. k \in 1 .. Len(rows)
  BY <1>1, TargetFound
<1>5. /\ m.rows \in Seq(Row) /\ m.ids \in Seq(Nat) /\ Range(m.ids) \subseteq 1 .. Len(m.rows)
      /\ Len(rows) <= Len(m.rows) /\ Len(m.rows) \in Nat /\ Len(rows) \in Nat
  <2>1. m \in Storings /\ Further(Untouched, m) /\ Range(m.ids) \subseteq 1 .. Len(m.rows)
    BY <1>3 DEF Final
  <2>2. Untouched.rows = rows
    BY DEF Untouched
  <2> QED
    BY <2>1, <2>2, LenProperties DEF Storings, Further, FactsInv
<1>6. k \in 1 .. Len(m.rows)
  BY <1>4, <1>5
<1> DEFINE X == [m.rows EXCEPT ![k].effective = FALSE]
<1>7. r.to.rows = X /\ r.to.ids = m.ids /\ X = [m.rows EXCEPT ![k].effective = FALSE]
  OBVIOUS
<1> HIDE DEF m, k, kind, r, X
<1>8. X \in Seq(Row) /\ Len(X) = Len(m.rows)
  <2> DEFINE M == m.rows
  <2>1. M \in Seq(Row) /\ k \in 1 .. Len(M) /\ X = [M EXCEPT ![k].effective = FALSE]
    BY <1>5, <1>6, <1>7
  <2> HIDE DEF M
  <2>2. Retires(M, k, X)
    BY <2>1, Retired
  <2> QED
    BY <2>2 DEF Retires, M
<1>9. CASE Replaced(m, kind, k) = "committed"
  <2>1. Stored(s, r, FALSE)
    BY <1>1, <1>9
  <2>2. FactsInv' /\ heard'.wrote \subseteq 1 .. Len(rows')
    BY <2>1, <1>5, <1>7, <1>8, StoredKeeps
  <2>3. rows' = X /\ heard'.of = s /\ heard'.wrote = Range(m.ids)
    BY <2>1, <1>7 DEF Stored
  <2>4. \E j \in Range(m.ids) : j # k
    <3>1. m.ids # <<>> /\ Replacing(m, kind) # k
      BY <1>9 DEF Replaced
    <3>2. Replacing(m, kind) \in Range(m.ids)
      BY <1>5, <3>1, ReplacingWritten
    <3> QED
      BY <3>1, <3>2
  <2>5. ReplaceTurn(p, m, k)
    BY <1>1, <1>3, <1>7, <2>3, <2>4 DEF ReplaceTurn, Corrects, k
  <2> QED
    BY <2>2, <2>5
<1>10. CASE Replaced(m, kind, k) # "committed"
  <2>1. QuietTurn
    BY <1>1, <1>10, QuietSame
  <2>2. rows' = rows /\ focus' = focus /\ turns' = turns + 1 /\ heard'.wrote = {}
    BY <2>1 DEF QuietTurn
  <2>3. FactsInv'
    BY <2>2 DEF FactsInv
  <2> QED
    BY <2>1, <2>2, <2>3
<1> QED
  BY <1>9, <1>10

LEMMA RetractedTurn ==
  ASSUME FactsInv, NEW p, Shaped(p), NEW s, s = Reading(p), Retract(s)
  PROVE  FactsInv' /\ heard'.wrote = {} /\ \E k : RetractTurn(p, k)
<1> DEFINE k == Target(s.wire.target)
<1>1. /\ Corrects(s, "retract") /\ k # 0 /\ Turn(s, "committed")
      /\ rows' = [rows EXCEPT ![k].effective = FALSE] /\ focus' = focus
  BY DEF Retract
<1>2. k \in 1 .. Len(rows)
  BY <1>1, TargetFound
<1> DEFINE X == [rows EXCEPT ![k].effective = FALSE]
<1>3. rows' = X
  BY <1>1
<1>4. X = [rows EXCEPT ![k].effective = FALSE]
  OBVIOUS
<1> HIDE DEF X
<1>a. k = Target(s.wire.target)
  OBVIOUS
<1> HIDE DEF k
<1>5. X \in Seq(Row)
  BY <1>2, <1>4, Retired DEF Retires, FactsInv
<1>6. turns' = turns + 1 /\ heard'.of = s /\ heard'.wrote = {}
  BY <1>1 DEF Turn
<1>7. FactsInv'
  <2>1. turns' \in Nat
    BY <1>6 DEF FactsInv
  <2> QED
    BY <1>1, <1>3, <1>5, <2>1 DEF FactsInv
<1>8. RetractTurn(p, k)
  BY <1>1, <1>6, <1>a DEF RetractTurn, Corrects
<1> QED
  BY <1>6, <1>7, <1>8

LEMMA QuietKeeps ==
  ASSUME FactsInv, QuietTurn
  PROVE  FactsInv' /\ heard'.wrote \subseteq 1 .. Len(rows')
<1>1. turns' \in Nat
  BY DEF QuietTurn, FactsInv
<1> QED
  BY <1>1 DEF QuietTurn, FactsInv

-----------------------------------------------------------------------------
(* Every turn is one of these.                                             *)

Turned ==
  \/ QuietTurn
  \/ \E p, k : RetractTurn(p, k)
  \/ \E p, n : WriteTurn(p, n) /\ (heard'.answering => AnswerTurn(p))
  \/ \E p, n, k : ReplaceTurn(p, n, k) /\ ~ heard'.answering

LEMMA ReadingOf ==
  ASSUME NEW s \in Readings
  PROVE  \E p : Shaped(p) /\ s = Reading(p) /\ s.said = p
<1>1. PICK p \in Utterances : s = Reading(p)
  BY DEF Readings
<1>2. p \in Proposal
  BY UtterancesAssumption
<1> QED
  BY <1>1, <1>2, ProposalShaped, ReadingFields

LEMMA TurnsInvInit == ProposalInit => TurnsInv
<1> SUFFICES ASSUME ProposalInit
             PROVE  TurnsInv
  OBVIOUS
<1>1. rows \in Seq(Row) /\ focus \in Word /\ turns \in Nat
  <2>1. "" \in Word /\ <<>> \in Seq(Row) /\ 0 \in Nat
    BY DEF Word
  <2> QED
    BY <2>1, Zenon DEF ProposalInit
<1>2. heard.wrote = {}
  BY DEF ProposalInit
<1> QED
  BY <1>1, <1>2 DEF ProposalInit, TurnsInv, FactsInv

LEMMA TurnsInvStep ==
  ASSUME TurnsInv, ProposalNext
  PROVE  TurnsInv' /\ Turned
<1>0. FactsInv /\ (pending = NoQuestion \/ Asked)
  BY DEF TurnsInv
<1> DEFINE Goal == TurnsInv' /\ Turned
<1>q. ASSUME QuietTurn, pending' = NoQuestion \/ Asked'
      PROVE  Goal
  BY <1>0, <1>q, QuietKeeps DEF TurnsInv, Turned
<1>u. ASSUME UNCHANGED pending
      PROVE  pending' = NoQuestion \/ Asked'
  <2>1. CASE pending = NoQuestion
    BY <2>1, <1>u DEF NoQuestion
  <2>2. CASE Asked
    BY <2>2, <1>u DEF Asked, Shaped
  <2> QED
    BY <1>0, <2>1, <2>2
<1>r. ASSUME Asked, NEW status, pending' = pending \/ pending' = Round(status)
      PROVE  Asked' /\ pending'.of = pending.of /\ pending'.slot = pending.slot
  <2>1. CASE pending' = pending
    BY <1>r, <2>1 DEF Asked, Shaped
  <2>2. CASE pending' = Round(status)
    <3> DEFINE n == pending.rounds + 1
    <3>0. pending = [slot |-> pending.slot, of |-> pending.of, rounds |-> pending.rounds,
                     status |-> pending.status]
      BY <1>r DEF Asked
    <3>1. pending' = [pending EXCEPT !.rounds = n, !.status = status]
      BY <2>2 DEF Round
    <3> HIDE DEF n
    <3>2. pending' = [slot |-> pending.slot, of |-> pending.of, rounds |-> n, status |-> status]
      BY <3>0, <3>1
    <3>3. /\ pending'.of = pending.of /\ pending'.slot = pending.slot
          /\ pending' = [slot |-> pending'.slot, of |-> pending'.of, rounds |-> pending'.rounds,
                         status |-> pending'.status]
      BY <3>2
    <3> QED
      BY <1>r, <3>3 DEF Asked, Shaped
  <2> QED
    BY <1>r, <2>1, <2>2
<1>o. Open => Asked
  <2>1. NoQuestion.status = "none"
    BY DEF NoQuestion
  <2> QED
    BY <1>0, <2>1 DEF Open
<1> HIDE DEF Goal
<1>1. ASSUME NEW s \in Readings, Refuse(s) \/ Decline(s) \/ Break(s) \/ Miss(s)
      PROVE  Goal
  <2>1. \E status : status # "committed" /\ Turn(s, status)
    <3>1. CASE Refuse(s) \/ Miss(s) \/ Break(s)
      BY <3>1 DEF Refuse, Miss, Break
    <3>2. CASE Decline(s)
      BY <3>2 DEF Decline
    <3> QED
      BY <1>1, <3>1, <3>2
  <2>2. UNCHANGED <<rows, focus, pending>>
    BY <1>1 DEF Refuse, Decline, Break, Miss
  <2> QED
    BY <2>1, <2>2, <1>q, <1>u, QuietSame
<1>2. ASSUME NEW s \in Readings, AskBack(s)
      PROVE  Goal
  <2>1. PICK p : Shaped(p) /\ s = Reading(p) /\ s.said = p
    BY ReadingOf
  <2>2. Turn(s, "clarify") /\ UNCHANGED <<rows, focus>> /\ ~ s.executes
        /\ pending' = [slot |-> s.question, of |-> s, rounds |-> 0, status |-> "pending"]
    BY <1>2 DEF AskBack
  <2>3. QuietTurn
    BY <2>2, QuietSame
  <2>4. /\ pending'.of = s
        /\ pending' = [slot |-> pending'.slot, of |-> pending'.of, rounds |-> pending'.rounds,
                       status |-> pending'.status]
    BY <2>2
  <2>5. Asked'
    BY <2>1, <2>2, <2>4 DEF Asked, Shaped
  <2> QED
    BY <2>3, <2>5, <1>q
<1>3. ASSUME NEW s \in Readings, Tell(s)
      PROVE  Goal
  <2>1. PICK p : Shaped(p) /\ s = Reading(p) /\ s.said = p
    BY ReadingOf
  <2>2. Stored(s, Ingested(s), FALSE) /\ UNCHANGED pending /\ ~ s.corrects
    BY <1>3 DEF Tell
  <2>3. /\ FactsInv' /\ heard'.wrote \subseteq 1 .. Len(rows')
        /\ QuietTurn \/ \E n : WriteTurn(p, n)
    BY <1>0, <2>1, <2>2, StoredTurn
  <2>4. heard'.answering = FALSE
    BY <2>2 DEF Stored
  <2> QED
    BY <2>2, <2>3, <2>4, <1>u DEF Goal, TurnsInv, Turned
<1>4. ASSUME NEW s \in Readings, Retract(s)
      PROVE  Goal
  <2>1. PICK p : Shaped(p) /\ s = Reading(p) /\ s.said = p
    BY ReadingOf
  <2>2. FactsInv' /\ heard'.wrote = {} /\ \E k : RetractTurn(p, k)
    BY <1>0, <1>4, <2>1, RetractedTurn
  <2>3. UNCHANGED pending
    BY <1>4 DEF Retract
  <2> QED
    BY <2>2, <2>3, <1>u DEF Goal, TurnsInv, Turned
<1>5. ASSUME NEW s \in Readings, Replace(s)
      PROVE  Goal
  <2>1. PICK p : Shaped(p) /\ s = Reading(p) /\ s.said = p
    BY ReadingOf
  <2>2. /\ FactsInv' /\ heard'.wrote \subseteq 1 .. Len(rows')
        /\ QuietTurn \/ \E n, k : ReplaceTurn(p, n, k)
    BY <1>0, <1>5, <2>1, ReplacedTurn
  <2>3. UNCHANGED pending /\ heard'.answering = FALSE
    BY <1>5 DEF Replace, Stored, Turn
  <2> QED
    BY <2>2, <2>3, <1>u DEF Goal, TurnsInv, Turned
<1>6. ASSUME NEW a \in AnswersGiven, Unhelpful(a)
      PROVE  Goal
  <2>1. /\ Turn(pending.of, "clarify") /\ UNCHANGED <<rows, focus>> /\ Open
        /\ pending' = IF pending.slot \in EntitySlots THEN pending ELSE Round("failed")
    BY <1>6 DEF Unhelpful
  <2>2. QuietTurn
    BY <2>1, QuietSame
  <2>3. pending' = pending \/ pending' = Round("failed")
    BY <2>1
  <2>4. Asked'
    BY <2>1, <2>3, <1>o, <1>r
  <2> QED
    BY <2>2, <2>4, <1>q
<1>7. ASSUME NEW a \in AnswersGiven, Answer(a)
      PROVE  Goal
  <2> DEFINE p == Filled(pending.of.said, pending.slot, a)
             s == Reading(p)
  <2>1. Open /\ Completed(s)
    BY <1>7 DEF Answer
  <2>2. Asked /\ pending.slot \in AnswerableSlots
    BY <2>1, <1>o DEF Open
  <2>3. Shaped(p)
    BY <2>2, FilledShaped DEF Asked
  <2>p. p = Filled(pending.of.said, pending.slot, a) /\ s = Reading(p)
    OBVIOUS
  <2> HIDE DEF p, s
  <2>4. CASE Unlocked(s) /\ ~ s.breaks
    <3>1. /\ Stored(s, Ingested(s), TRUE) /\ ~ s.corrects /\ Coherent(s)
          /\ pending' = Round(IF heard'.status = "committed" THEN "resolved" ELSE "failed")
      BY <2>1, <2>4 DEF Completed, Unlocked
    <3>2. /\ FactsInv' /\ heard'.wrote \subseteq 1 .. Len(rows')
          /\ QuietTurn \/ \E n : WriteTurn(p, n)
      BY <1>0, <2>p, <2>3, <3>1, StoredTurn
    <3> DEFINE st == IF heard'.status = "committed" THEN "resolved" ELSE "failed"
    <3>3. pending' = Round(st)
      BY <3>1
    <3> HIDE DEF st
    <3>4. Asked' /\ pending'.of = pending.of /\ pending'.slot = pending.slot
      BY <2>2, <3>3, <1>r
    <3>6. AnswerTurn(p)
      BY <2>1, <2>2, <2>p, <3>1, <3>4 DEF AnswerTurn
    <3> QED
      BY <3>2, <3>4, <3>6 DEF Goal, TurnsInv, Turned
  <2>6. CASE Unlocked(s) /\ s.breaks
    <3>1. Turn(s, "failed") /\ UNCHANGED <<rows, focus, pending>>
      BY <2>1, <2>6 DEF Completed
    <3>2. QuietTurn
      BY <3>1, QuietSame
    <3> QED
      BY <3>1, <3>2, <1>q, <1>u
  <2>5. CASE ~ Unlocked(s)
    <3>1. /\ Turn(s, "clarify") /\ UNCHANGED <<rows, focus>>
          /\ pending' = IF Coherent(s) THEN Round("failed") ELSE pending
      BY <2>1, <2>5 DEF Completed
    <3>2. QuietTurn
      BY <3>1, QuietSame
    <3>3. pending' = pending \/ pending' = Round("failed")
      BY <3>1
    <3>4. Asked'
      BY <2>2, <3>3, <1>r
    <3> QED
      BY <3>2, <3>4, <1>q
  <2> QED
    BY <2>4, <2>5, <2>6
<1>8. Goal
  BY <1>1, <1>2, <1>3, <1>4, <1>5, <1>6, <1>7 DEF ProposalNext
<1> QED
  BY <1>8 DEF Goal

LEMMA RetiredSaid ==
  ASSUME NEW R, NEW k, NEW X, Retires(R, k, X), NEW s, NEW i \in 1 .. Len(R), SaidRow(s, R[i])
  PROVE  SaidRow(s, X[i])
<1>1. CASE i = k
  <2>1. /\ X[i].kind = R[i].kind /\ X[i].of = R[i].of /\ X[i].to = R[i].to
        /\ X[i].dim = R[i].dim /\ X[i].val = R[i].val
    BY <1>1 DEF Retires
  <2> QED
    BY <2>1 DEF SaidRow, PrimaryRow, ClaimTold, Owning, Described
<1>2. CASE i # k
  <2>1. X[i] = R[i]
    BY <1>2 DEF Retires
  <2> QED
    BY <2>1
<1> QED
  BY <1>1, <1>2

\* Where a replacement stands among the rows.
LEMMA ReplaceFacts ==
  ASSUME FactsInv, NEW p, NEW n, NEW k, ReplaceTurn(p, n, k)
  PROVE  /\ k \in 1 .. Len(rows) /\ k \in 1 .. Len(n.rows) /\ Retires(n.rows, k, rows')
         /\ Final(p, Reading(p).wire, n) /\ Range(n.ids) \subseteq 1 .. Len(n.rows)
         /\ n.rows \in Seq(Row) /\ n.ids \in Seq(Nat)
         /\ Len(rows) <= Len(n.rows) /\ \A j \in 1 .. Len(rows) : Agree(n.rows[j], rows[j])
<1>1. /\ Final(p, Reading(p).wire, n) /\ k = Target(Reading(p).wire.target) /\ k # 0
      /\ rows' = [n.rows EXCEPT ![k].effective = FALSE]
  BY DEF ReplaceTurn
<1>2. k \in 1 .. Len(rows)
  BY <1>1, TargetFound
<1>3. n \in Storings /\ Further(Untouched, n) /\ Range(n.ids) \subseteq 1 .. Len(n.rows)
  BY <1>1 DEF Final
<1>4. n.rows \in Seq(Row) /\ n.ids \in Seq(Nat) /\ Untouched.rows = rows
  BY <1>3 DEF Storings, Untouched
<1>5. Len(rows) <= Len(n.rows) /\ \A j \in 1 .. Len(rows) : Agree(n.rows[j], rows[j])
  BY <1>3, <1>4 DEF Further
<1>6. Len(rows) \in Nat /\ Len(n.rows) \in Nat
  BY <1>4, LenProperties DEF FactsInv
<1>7. k \in 1 .. Len(n.rows)
  BY <1>2, <1>5, <1>6
<1> DEFINE R == n.rows
           X == rows'
<1>8. R \in Seq(Row) /\ k \in 1 .. Len(R) /\ X = [R EXCEPT ![k].effective = FALSE]
  BY <1>1, <1>4, <1>7
<1> HIDE DEF R, X
<1>9. Retires(R, k, X)
  BY <1>8, Retired
<1> QED
  BY <1>1, <1>2, <1>3, <1>4, <1>5, <1>7, <1>9 DEF R, X

LEMMA OnlySaidStep ==
  ASSUME TurnsInv, OnlyWhatWasSaid, [ProposalNext]_proposalVars
  PROVE  OnlyWhatWasSaid'
<1> DEFINE Said == \A k \in heard'.wrote : SaidRow(heard'.of, rows'[k])
<1>0. FactsInv
  BY DEF TurnsInv
<1>1. Said => OnlyWhatWasSaid'
  BY Zenon DEF OnlyWhatWasSaid, SaidRow, PrimaryRow, ClaimTold, KnownThing, Described
<1>2. CASE UNCHANGED proposalVars
  <2>1. \A k \in heard.wrote : SaidRow(heard.of, rows[k])
    BY Zenon DEF OnlyWhatWasSaid, SaidRow, PrimaryRow, ClaimTold, KnownThing, Described
  <2>2. heard' = heard /\ rows' = rows
    BY <1>2 DEF proposalVars
  <2>3. Said
    BY <2>1, <2>2
  <2> QED
    BY <1>1, <2>3
<1>3. CASE ProposalNext
  <2>1. Turned
    BY <1>3, TurnsInvStep
  <2>2. CASE heard'.wrote = {}
    BY <1>1, <2>2
  <2>3. ASSUME NEW p, NEW n, WriteTurn(p, n)
        PROVE  Said
    <3> DEFINE s == Reading(p)
               c == ResolveConcept(p, Route(p))
    <3>1. /\ Shaped(p) /\ Final(p, s.wire, n) /\ heard'.of = s /\ heard'.wrote = Range(n.ids)
          /\ rows' = n.rows
      BY <2>3 DEF WriteTurn
    <3>2. s.said = p /\ s.corrects = IsCorrection(p) /\ c.kind = Route(p) /\ Woven(p, c, s.wire)
      BY <3>1, ReadingFields, ReadingWoven
    <3> HIDE DEF s, c
    <3> QED
      BY <3>1, <3>2, FinalSaid
  <2>4. ASSUME NEW p, NEW n, NEW k, ReplaceTurn(p, n, k)
        PROVE  Said
    <3> DEFINE s == Reading(p)
               c == ResolveConcept(p, Route(p))
    <3>1. Shaped(p) /\ heard'.of = s /\ heard'.wrote = Range(n.ids)
      BY <2>4 DEF ReplaceTurn
    <3>2. s.said = p /\ s.corrects = IsCorrection(p) /\ c.kind = Route(p) /\ Woven(p, c, s.wire)
      BY <3>1, ReadingFields, ReadingWoven
    <3>3. /\ Retires(n.rows, k, rows') /\ Final(p, s.wire, n) /\ Range(n.ids) \subseteq 1 .. Len(n.rows)
      BY <1>0, <2>4, ReplaceFacts
    <3> HIDE DEF s, c
    <3>4. ASSUME NEW i \in Range(n.ids)
          PROVE  SaidRow(s, rows'[i])
      <4>1. SaidRow(s, n.rows[i])
        BY <3>1, <3>2, <3>3, FinalSaid
      <4> QED
        BY <3>3, <4>1, RetiredSaid
    <3> QED
      BY <3>1, <3>4
  <2>5. QuietTurn \/ (\E p, k : RetractTurn(p, k)) => heard'.wrote = {}
    BY DEF QuietTurn, RetractTurn
  <2> HIDE DEF Said
  <2> QED
    BY <1>1, <2>1, <2>2, <2>3, <2>4, <2>5 DEF Turned
<1> QED
  BY <1>2, <1>3

LEMMA TurnsInvStutter ==
  ASSUME TurnsInv, UNCHANGED proposalVars
  PROVE  TurnsInv'
<1>1. FactsInv'
  BY DEF proposalVars, TurnsInv, FactsInv
<1>2. pending' = NoQuestion \/ Asked'
  <2>1. CASE pending = NoQuestion
    BY <2>1 DEF NoQuestion, proposalVars
  <2>2. CASE Asked
    BY <2>2 DEF Asked, Shaped, proposalVars
  <2> QED
    BY <2>1, <2>2 DEF TurnsInv
<1> QED
  BY <1>1, <1>2 DEF TurnsInv, proposalVars

\* What holds between turns, whatever was said before: the stored facts are well formed, the
\* positions written in the last turn are positions of them, and an open question is about an
\* utterance whose reading did not execute and asked for that very slot (orchestrator.py keeps the
\* pending operation; nothing but a new question replaces it).
THEOREM ProposalInvariant == ProposalSpec => []TurnsInv
<1>1. TurnsInv /\ [ProposalNext]_proposalVars => TurnsInv'
  BY TurnsInvStep, TurnsInvStutter
<1> QED
  BY <1>1, TurnsInvInit, PTL DEF ProposalSpec

\* Nothing is stored that the user did not say: every row written in a turn is the primary fact, a
\* quantity, an attribute resolved beside it, an explicit claim, or the ownership of a vehicle or of
\* a thing called one's own, about something that was mentioned.  Assumed and derived claims leave
\* no row (claims.py, materializer.py).
THEOREM OnlySaid == ProposalSpec => []OnlyWhatWasSaid
<1>1. ProposalInit => OnlyWhatWasSaid
  <2>1. ProposalInit => heard.wrote = {}
    <3>1. ProposalInit => heard = [of |-> Silence, status |-> "none", wrote |-> {}, answering |-> FALSE]
      BY Zenon DEF ProposalInit
    <3> QED
      BY <3>1
  <2>2. heard.wrote = {} => OnlyWhatWasSaid
    BY Zenon DEF OnlyWhatWasSaid
  <2> QED
    BY <2>1, <2>2
<1>2. TurnsInv /\ OnlyWhatWasSaid /\ [ProposalNext]_proposalVars => OnlyWhatWasSaid'
  BY OnlySaidStep
<1> QED
  BY <1>1, <1>2, ProposalInvariant, PTL DEF ProposalSpec

LEMMA GuardAccepts ==
  ASSUME NEW wording, NEW prior \in BOOLEAN, Guard(wording, prior) = "accept"
  PROVE  /\ "question" \notin wording
         /\ wording \cap {"termination", "repetition", "observation"} # {} =>
              wording \cap {"meta", "self_contained", "perceptual"} # {}
<1> DEFINE shows(w) == w \in wording
           told     == shows("meta") \/ shows("self_contained")
           strong   == told \/ (shows("perceptual") /\ prior)
           weary    == ~ strong /\ wording \cap {"termination", "repetition", "observation"} # {}
           r3 == ~ strong /\ shows("evolution") /\ ~ shows("weak")
           r5 == shows("perceptual") /\ ~ prior
           r7 == prior /\ shows("short")
           r8 == shows("weak") /\ prior /\ shows("pronoun")
           r9 == shows("weak") /\ prior
           rules == << <<shows("question"), "reject">>, <<weary, "reject">>, <<r3, "reject">>,
                       <<told, "accept">>, <<r5, "clarify">>, <<shows("perceptual"), "accept">>,
                       <<r7, "accept">>, <<r8, "clarify">>, <<r9, "accept">>, <<TRUE, "reject">> >>
           n == 10
<1>1. Guard(wording, prior) = FirstOf(rules)
  BY Zenon DEF Guard
<1>2. strong => wording \cap {"meta", "self_contained", "perceptual"} # {}
  OBVIOUS
<1> DEFINE q == shows("question")
           per == shows("perceptual")
<1>3. rules = << <<q, "reject">>, <<weary, "reject">>, <<r3, "reject">>,
                 <<told, "accept">>, <<r5, "clarify">>, <<per, "accept">>,
                 <<r7, "accept">>, <<r8, "clarify">>, <<r9, "accept">>, <<TRUE, "reject">> >>
  OBVIOUS
<1>w. q \in BOOLEAN /\ weary \in BOOLEAN /\ (weary <=> ~ strong /\ wording \cap {"termination", "repetition", "observation"} # {})
      /\ (q <=> "question" \in wording)
  OBVIOUS
<1> HIDE DEF rules, q, weary, r3, told, r5, per, r7, r8, r9, strong
<1>4. n \in Nat /\ DOMAIN rules = 1 .. n /\ n \in 1 .. n /\ rules[n][1]
  BY <1>3
<1>5. /\ rules[1][2] = "reject" /\ rules[2][2] = "reject"
      /\ rules[1][1] = q /\ rules[2][1] = weary
  BY <1>3
<1> HIDE DEF n
<1>6. PICK k \in 1 .. n : FirstOf(rules) = rules[k][2] /\ \A i \in 1 .. k - 1 : ~ rules[i][1]
  BY <1>4, FirstRule
<1>7. rules[k][2] = "accept"
  BY <1>1, <1>6
<1>8. k # 1 /\ k # 2
  BY <1>5, <1>7
<1>9. 1 \in 1 .. k - 1 /\ 2 \in 1 .. k - 1
  BY <1>4, <1>8
<1>10. ~ q /\ ~ weary
  BY <1>5, <1>6, <1>9
<1> QED
  BY <1>2, <1>10, <1>w

\* What a row that is retired has to answer to.
Aimed(k) ==
  LET d == heard'.of.wire.target  wording == heard'.of.said.wording IN
  /\ heard'.of.corrects /\ "question" \notin wording
  /\ wording \cap {"termination", "repetition", "observation"} # {} =>
       wording \cap {"meta", "self_contained", "perceptual"} # {}
  /\ heard'.of.wire.op = "replace" =>
       \E j \in heard'.wrote \ {k} :
         rows'[j].effective \/ (j \in DOMAIN rows /\ ~ rows[j].effective)
  /\ (d.row = k \/ \A j \in DOMAIN rows : rows[j].effective /\ Matches(rows[j], d) => j = k)

LEMMA AimedStep ==
  ASSUME TurnsInv, ProposalNext, NEW k \in DOMAIN rows, rows[k].effective, ~ rows'[k].effective
  PROVE  Aimed(k)
<1>0. FactsInv /\ k \in 1 .. Len(rows) /\ DOMAIN rows = 1 .. Len(rows) /\ Len(rows) \in Nat
  <2>1. FactsInv
    BY DEF TurnsInv
  <2> QED
    BY <2>1, LenProperties DEF FactsInv
<1>1. Turned
  BY TurnsInvStep
<1>2. ASSUME NEW s, Accepted(s), s.corrects
      PROVE  /\ "question" \notin s.said.wording
             /\ s.said.wording \cap {"termination", "repetition", "observation"} # {} =>
                  s.said.wording \cap {"meta", "self_contained", "perceptual"} # {}
  <2>1. Guard(s.said.wording, Prior) = "accept"
    BY <1>2 DEF Accepted
  <2>2. Prior \in BOOLEAN
    BY DEF Prior
  <2> QED
    BY <2>1, <2>2, GuardAccepts
<1>3. ASSUME NEW d, k = Target(d)
      PROVE  d.row = k \/ \A j \in DOMAIN rows : rows[j].effective /\ Matches(rows[j], d) => j = k
  <2>1. k # 0
    BY <1>0
  <2>2. d.row = k \/ Candidates(d) = {k}
    BY <1>0, <1>3, <2>1, TargetFound
  <2>3. Candidates(d) = {k} => \A j \in DOMAIN rows : rows[j].effective /\ Matches(rows[j], d) => j = k
    BY DEF Candidates
  <2> QED
    BY <2>2, <2>3
<1>4. CASE QuietTurn
  BY <1>4 DEF QuietTurn
<1>5. ASSUME NEW p, NEW k0, RetractTurn(p, k0)
      PROVE  Aimed(k)
  <2> DEFINE s == Reading(p)
  <2>1. /\ Accepted(s) /\ s.corrects /\ s.wire.op = "retract" /\ heard'.of = s
        /\ k0 = Target(s.wire.target) /\ k0 # 0 /\ rows' = [rows EXCEPT ![k0].effective = FALSE]
    BY <1>5 DEF RetractTurn
  <2> HIDE DEF s
  <2>2. k0 = k
    <3>1. k0 # k => rows'[k] = rows[k]
      BY <2>1
    <3> QED
      BY <3>1
  <2>3. s.wire.op # "replace"
    BY <2>1
  <2> QED
    BY <1>2, <1>3, <2>1, <2>2, <2>3 DEF Aimed
<1>6. ASSUME NEW p, NEW n, WriteTurn(p, n)
      PROVE  FALSE
  <2>1. Final(p, Reading(p).wire, n) /\ rows' = n.rows
    BY <1>6 DEF WriteTurn
  <2>2. Further(Untouched, n) /\ Untouched.rows = rows
    BY <2>1 DEF Final, Untouched
  <2>3. Agree(n.rows[k], rows[k])
    BY <1>0, <2>2 DEF Further
  <2> QED
    BY <2>1, <2>3 DEF Agree
<1>7. ASSUME NEW p, NEW n, NEW k0, ReplaceTurn(p, n, k0)
      PROVE  Aimed(k)
  <2> DEFINE s == Reading(p)
  <2>1. /\ Accepted(s) /\ s.corrects /\ heard'.of = s /\ heard'.wrote = Range(n.ids)
        /\ k0 = Target(s.wire.target) /\ k0 # 0
    BY <1>7 DEF ReplaceTurn
  <2>6. PICK one \in Range(n.ids) : one # k0
    BY <1>7 DEF ReplaceTurn
  <2>2. /\ Retires(n.rows, k0, rows') /\ Range(n.ids) \subseteq 1 .. Len(n.rows) /\ n.ids \in Seq(Nat)
        /\ n.rows \in Seq(Row)
        /\ Len(rows) <= Len(n.rows) /\ \A j \in 1 .. Len(rows) : Agree(n.rows[j], rows[j])
    BY <1>0, <1>7, ReplaceFacts
  <2>3. Len(n.rows) \in Nat
    BY <2>2, LenProperties
  <2>4. \A j \in 1 .. Len(n.rows) \ {k0} : rows'[j] = n.rows[j]
    BY <2>2 DEF Retires
  <2>5. k0 = k
    <3>1. k \in 1 .. Len(n.rows)
      BY <1>0, <2>2, <2>3
    <3>2. n.rows[k].effective
      BY <1>0, <2>2 DEF Agree
    <3> QED
      BY <3>1, <3>2, <2>4
  <2>7. one \in 1 .. Len(n.rows) /\ rows'[one] = n.rows[one]
    BY <2>1, <2>2, <2>4, <2>6
  <2>8. rows'[one].effective \/ (one \in DOMAIN rows /\ ~ rows[one].effective)
    <3>1. CASE one \in 1 .. Len(rows)
      <4>1. Agree(n.rows[one], rows[one])
        BY <2>2, <3>1
      <4>2. rows[one].effective \/ ~ rows[one].effective
        OBVIOUS
      <4> QED
        BY <1>0, <2>7, <3>1, <4>1 DEF Agree
    <3>2. CASE one \notin 1 .. Len(rows)
      <4>1. one \in Len(rows) + 1 .. Len(n.rows)
        BY <1>0, <2>3, <2>7, <3>2
      <4>2. Further(Untouched, n) /\ Untouched.rows = rows
        BY <1>0, <1>7, ReplaceFacts DEF Final, Untouched
      <4>3. n.rows[one].effective
        BY <4>1, <4>2 DEF Further
      <4> QED
        BY <2>7, <4>3
    <3> QED
      BY <3>1, <3>2
  <2>9. one \in heard'.wrote \ {k}
    BY <2>1, <2>5, <2>6
  <2> HIDE DEF s
  <2> QED
    BY <1>2, <1>3, <2>1, <2>5, <2>8, <2>9 DEF Aimed
<1> QED
  BY <1>1, <1>4, <1>5, <1>6, <1>7 DEF Turned

\* A row stops being effective only by an accepted correction whose description fits it, and no
\* other row that is effective unless it was named by its position (corrections.py).
THEOREM Aiming == ProposalSpec => CorrectionsAreAimed
<1>1. TurnsInv /\ [ProposalNext]_proposalVars =>
        [\A k \in DOMAIN rows : rows[k].effective /\ ~ rows'[k].effective => Aimed(k)]_proposalVars
  BY AimedStep
<1>2. (\A k \in DOMAIN rows : rows[k].effective /\ ~ rows'[k].effective => Aimed(k)) =>
       \A k \in DOMAIN rows :
       rows[k].effective /\ ~ rows'[k].effective =>
         LET d == heard'.of.wire.target  wording == heard'.of.said.wording IN
         /\ heard'.of.corrects /\ "question" \notin wording
         /\ wording \cap {"termination", "repetition", "observation"} # {} =>
              wording \cap {"meta", "self_contained", "perceptual"} # {}
         /\ heard'.of.wire.op = "replace" =>
              \E j \in heard'.wrote \ {k} :
                rows'[j].effective \/ (j \in DOMAIN rows /\ ~ rows[j].effective)
         /\ (d.row = k \/ \A j \in DOMAIN rows : rows[j].effective /\ Matches(rows[j], d) => j = k)
  BY Zenon DEF Aimed
<1> QED
  BY <1>1, <1>2, ProposalInvariant, PTL DEF ProposalSpec, CorrectionsAreAimed

-----------------------------------------------------------------------------
(* What is asked for is what was not mentioned.                            *)

\* What is missing, where a thing is, was not mentioned.
Needs(p, G) ==
  /\ "missing_entity" \in G => p.subject = NoMention
  /\ "missing_relation_subject" \in G => p.subject = NoMention
  /\ "missing_relation_object" \in G => p.object = NoMention

LEMMA RuleNeeds ==
  ASSUME NEW p, NEW n \in Nat, NEW rules, DOMAIN rules = 1 .. n, NEW j \in 1 .. n, rules[j][1],
         \A i \in 1 .. n : rules[i][1] => Needs(p, rules[i][2])
  PROVE  Needs(p, FirstOf(rules))
<1>1. \E k \in 1 .. n : /\ rules[k][1] /\ \A i \in 1 .. k - 1 : ~ rules[i][1]
                        /\ FirstOf(rules) = rules[k][2]
  BY FirstRule
<1> QED
  BY <1>1

LEMMA StateNeeds ==
  ASSUME NEW p, NEW c
  PROVE  Needs(p, StateGaps(p, c))
<1> DEFINE rules == << <<c.key, {}>>,
                       <<Says(p, "state"), {"state_value_canonical_unresolved"}>>,
                       <<TRUE, {"missing_state_value"}>> >>
           n == 3
<1>1. StateGaps(p, c) = FirstOf(rules)
  BY Zenon DEF StateGaps
<1>2. DOMAIN rules = 1 .. n /\ n \in 1 .. n /\ n \in Nat /\ rules[n][1]
  OBVIOUS
<1>3. /\ Needs(p, {}) /\ Needs(p, {"state_value_canonical_unresolved"})
      /\ Needs(p, {"missing_state_value"})
  BY DEF Needs
<1>4. rules[1][2] = {} /\ rules[2][2] = {"state_value_canonical_unresolved"}
      /\ rules[3][2] = {"missing_state_value"}
  OBVIOUS
<1> HIDE DEF rules
<1>5. \A i \in 1 .. n : Needs(p, rules[i][2])
  <2> TAKE i \in 1 .. n
  <2>1. i = 1 \/ i = 2 \/ i = 3
    OBVIOUS
  <2> QED
    BY <1>3, <1>4, <2>1, Zenon
<1> HIDE DEF n
<1> QED
  BY <1>1, <1>2, <1>5, RuleNeeds

LEMMA RelationNeeds ==
  ASSUME NEW p, NEW c
  PROVE  Needs(p, RelationGaps(p, c))
<1> DEFINE endpoints == (IF p.object = NoMention THEN {"missing_relation_object"} ELSE {})
                        \cup (IF p.subject = NoMention THEN {"missing_relation_subject"} ELSE {})
           ends == endpoints # {}
           rules == << <<ends, endpoints>>,
                       <<c.key, {}>>,
                       <<Says(p, "relation"), {"relation_type_canonical_unresolved"}>>,
                       <<TRUE, {"missing_relation_identity"}>> >>
           n == 4
<1>1. RelationGaps(p, c) = FirstOf(rules)
  BY Zenon DEF RelationGaps
<1>3. /\ Needs(p, {}) /\ Needs(p, {"relation_type_canonical_unresolved"})
      /\ Needs(p, {"missing_relation_identity"})
  BY DEF Needs
<1>e. Needs(p, endpoints)
  BY DEF Needs
<1> HIDE DEF endpoints, ends
<1>2. DOMAIN rules = 1 .. n /\ n \in 1 .. n /\ n \in Nat /\ rules[n][1]
  OBVIOUS
<1>4. rules[1][2] = endpoints /\ rules[2][2] = {} /\ rules[3][2] = {"relation_type_canonical_unresolved"}
      /\ rules[4][2] = {"missing_relation_identity"}
  OBVIOUS
<1> HIDE DEF rules
<1>5. \A i \in 1 .. n : Needs(p, rules[i][2])
  <2> TAKE i \in 1 .. n
  <2>1. i = 1 \/ i = 2 \/ i = 3 \/ i = 4
    OBVIOUS
  <2> QED
    BY <1>3, <1>4, <1>e, <2>1, Zenon
<1> HIDE DEF n
<1> QED
  BY <1>1, <1>2, <1>5, RuleNeeds

LEMMA EventNeeds ==
  ASSUME NEW p, NEW c
  PROVE  Needs(p, EventGaps(p, c))
<1> DEFINE anonymous == ~ Somebody(p) /\ p.context = NoMention
           nobody(reason) == IF anonymous THEN {reason, "missing_entity"} ELSE {reason}
           r1 == ~ Occurred(p)
           r3 == ~ Somebody(p) /\ ~ Acts(p)
           r5 == Somebody(p) /\ Acts(p)
           g1 == nobody("event_occurrence_required")
           g3 == nobody("event_semantic_anchor_required")
           g4 == nobody("safe_abstention_without_anchor")
           g6 == nobody("event_identity_incomplete")
           rules == << <<r1, g1>>,
                       <<c.key, {}>>,
                       <<r3, g3>>,
                       <<c.abstains, g4>>,
                       <<r5, {"canonical_type_unresolved_safe_partial"}>>,
                       <<TRUE, g6>> >>
           n == 6
<1>1. EventGaps(p, c) = FirstOf(rules)
  BY Zenon DEF EventGaps
<1>a. anonymous => p.subject = NoMention
  <2>1. p.subject \in {p.subject, p.object} \cup Range(p.others)
    OBVIOUS
  <2> QED
    BY <2>1 DEF Somebody
<1> HIDE DEF anonymous
<1>3. /\ Needs(p, {}) /\ Needs(p, {"canonical_type_unresolved_safe_partial"})
      /\ Needs(p, g1) /\ Needs(p, g3) /\ Needs(p, g4) /\ Needs(p, g6)
  BY <1>a DEF Needs
<1> HIDE DEF r1, r3, r5, g1, g3, g4, g6, nobody
<1>2. DOMAIN rules = 1 .. n /\ n \in 1 .. n /\ n \in Nat /\ rules[n][1]
  OBVIOUS
<1>4. /\ rules[1][2] = g1 /\ rules[2][2] = {} /\ rules[3][2] = g3 /\ rules[4][2] = g4
      /\ rules[5][2] = {"canonical_type_unresolved_safe_partial"} /\ rules[6][2] = g6
  OBVIOUS
<1> HIDE DEF rules
<1>5. \A i \in 1 .. n : Needs(p, rules[i][2])
  <2> TAKE i \in 1 .. n
  <2>1. i = 1 \/ i = 2 \/ i = 3 \/ i = 4 \/ i = 5 \/ i = 6
    OBVIOUS
  <2> QED
    BY <1>3, <1>4, <2>1, Zenon
<1> HIDE DEF n
<1> QED
  BY <1>1, <1>2, <1>5, RuleNeeds

LEMMA AttributeNeeds ==
  ASSUME NEW p, NEW c
  PROVE  Needs(p, AttributeGaps(p, c))
<1> DEFINE r1 == c.key \/ StructuredAttribute(p)
           r3 == c.abstains \/ Says(p, "attribute")
           rules == << <<r1, {}>>,
                       <<p.cutShort, {"missing_attribute_value"}>>,
                       <<r3, {"unsupported_attribute_dimension"}>>,
                       <<TRUE, {"missing_attribute_dimension"}>> >>
           n == 4
<1>1. AttributeGaps(p, c) = FirstOf(rules)
  BY Zenon DEF AttributeGaps
<1> HIDE DEF r1, r3
<1>2. DOMAIN rules = 1 .. n /\ n \in 1 .. n /\ n \in Nat /\ rules[n][1]
  OBVIOUS
<1>3. /\ Needs(p, {}) /\ Needs(p, {"missing_attribute_value"})
      /\ Needs(p, {"unsupported_attribute_dimension"}) /\ Needs(p, {"missing_attribute_dimension"})
  BY DEF Needs
<1>4. /\ rules[1][2] = {} /\ rules[2][2] = {"missing_attribute_value"}
      /\ rules[3][2] = {"unsupported_attribute_dimension"}
      /\ rules[4][2] = {"missing_attribute_dimension"}
  OBVIOUS
<1> HIDE DEF rules
<1>5. \A i \in 1 .. n : Needs(p, rules[i][2])
  <2> TAKE i \in 1 .. n
  <2>1. i = 1 \/ i = 2 \/ i = 3 \/ i = 4
    OBVIOUS
  <2> QED
    BY <1>3, <1>4, <2>1, Zenon
<1> HIDE DEF n
<1> QED
  BY <1>1, <1>2, <1>5, RuleNeeds

LEMMA MeasurementNeeds ==
  ASSUME NEW p
  PROVE  Needs(p, MeasurementGaps(p))
<1> DEFINE r1 == MeasuredValue(p) = NoValue
           r2 == MeasuredEntity(p) = NoMention
           rules == << <<r1, {"missing_measurement_dimension", "missing_measurement_value"}>>,
                       <<r2, {"missing_entity"}>>,
                       <<TRUE, {}>> >>
           n == 3
<1>1. MeasurementGaps(p) = FirstOf(rules)
  BY Zenon DEF MeasurementGaps
<1>3. /\ Needs(p, {}) /\ Needs(p, {"missing_measurement_dimension", "missing_measurement_value"})
      /\ r2 => Needs(p, {"missing_entity"})
  BY DEF Needs, MeasuredEntity
<1> HIDE DEF r1, r2
<1>2. DOMAIN rules = 1 .. n /\ n \in 1 .. n /\ n \in Nat /\ rules[n][1]
  OBVIOUS
<1>4. /\ rules[1][2] = {"missing_measurement_dimension", "missing_measurement_value"}
      /\ rules[2][2] = {"missing_entity"} /\ rules[3][2] = {} /\ rules[2][1] = r2
  OBVIOUS
<1> HIDE DEF rules
<1>5. \A i \in 1 .. n : rules[i][1] => Needs(p, rules[i][2])
  <2> TAKE i \in 1 .. n
  <2>1. i = 1 \/ i = 2 \/ i = 3
    OBVIOUS
  <2> QED
    BY <1>3, <1>4, <2>1, Zenon
<1> HIDE DEF n
<1> QED
  BY <1>1, <1>2, <1>5, RuleNeeds

LEMMA GapNeeds ==
  ASSUME NEW p, NEW c, NEW kind
  PROVE  Needs(p, Gaps(p, c, kind))
<1> DEFINE r1 == kind = "unknown"
           r2 == c.status \in {"blocked", "ambiguous"}
           r4 == kind = "state"
           r5 == kind = "relation"
           r6 == kind = "event"
           r7 == kind = "attribute"
           r8 == kind = "measurement"
           g4 == StateGaps(p, c)
           g5 == RelationGaps(p, c)
           g6 == EventGaps(p, c)
           g7 == AttributeGaps(p, c)
           g8 == MeasurementGaps(p)
           rules == << <<r1, {"unknown_primitive"}>>,
                       <<r2, {"blocked_or_ambiguous"}>>,
                       <<c.gap, {"ontology_gap"}>>,
                       <<r4, g4>>, <<r5, g5>>, <<r6, g6>>, <<r7, g7>>, <<r8, g8>>,
                       <<TRUE, {"classification_not_materializable"}>> >>
           n == 9
<1>1. Gaps(p, c, kind) = FirstOf(rules)
  BY Zenon DEF Gaps
<1>3. /\ Needs(p, {"unknown_primitive"}) /\ Needs(p, {"blocked_or_ambiguous"}) /\ Needs(p, {"ontology_gap"})
      /\ Needs(p, {"classification_not_materializable"})
      /\ Needs(p, g4) /\ Needs(p, g5) /\ Needs(p, g6) /\ Needs(p, g7) /\ Needs(p, g8)
  <2>1. /\ Needs(p, {"unknown_primitive"}) /\ Needs(p, {"blocked_or_ambiguous"}) /\ Needs(p, {"ontology_gap"})
        /\ Needs(p, {"classification_not_materializable"})
    BY DEF Needs
  <2> QED
    BY <2>1, StateNeeds, RelationNeeds, EventNeeds, AttributeNeeds, MeasurementNeeds
<1> HIDE DEF r1, r2, r4, r5, r6, r7, r8, g4, g5, g6, g7, g8
<1>2. DOMAIN rules = 1 .. n /\ n \in 1 .. n /\ n \in Nat /\ rules[n][1]
  OBVIOUS
<1>4. /\ rules[1][2] = {"unknown_primitive"} /\ rules[2][2] = {"blocked_or_ambiguous"}
      /\ rules[3][2] = {"ontology_gap"} /\ rules[4][2] = g4 /\ rules[5][2] = g5 /\ rules[6][2] = g6
      /\ rules[7][2] = g7 /\ rules[8][2] = g8 /\ rules[9][2] = {"classification_not_materializable"}
  OBVIOUS
<1> HIDE DEF rules
<1>5. \A i \in 1 .. n : Needs(p, rules[i][2])
  <2> TAKE i \in 1 .. n
  <2>1. i = 1 \/ i = 2 \/ i = 3 \/ i = 4 \/ i = 5 \/ i = 6 \/ i = 7 \/ i = 8 \/ i = 9
    OBVIOUS
  <2> QED
    BY <1>3, <1>4, <2>1, Zenon
<1> HIDE DEF n
<1> QED
  BY <1>1, <1>2, <1>5, RuleNeeds

\* A question for a thing is asked where none was mentioned.
LEMMA QuestionMeans ==
  ASSUME NEW p, NEW c
  PROVE  /\ Question(p, c) \in {"measured_entity", "relation_subject"} => p.subject = NoMention
         /\ Question(p, c) = "relation_object" => p.object = NoMention
<1> DEFINE asks(a) == a[1] \in IncompleteGaps(p, c)
           k == SelectInSeq(Askable, asks)
           I == {i \in 1 .. Len(Askable) : asks(Askable[i])}
<1>1. Question(p, c) = IF k = 0 THEN "none" ELSE Askable[k][2]
  BY Zenon DEF Question
<1>2. k = IF I # {} THEN Min(I) ELSE 0
  BY Zenon DEF SelectInSeq
<1>3. /\ Len(Askable) = 8
      /\ Askable[1][2] = "attribute_value" /\ Askable[2] = <<"missing_entity", "measured_entity">>
      /\ Askable[3][2] = "measurement_dimension" /\ Askable[4][2] = "measurement_value"
      /\ Askable[5] = <<"missing_relation_object", "relation_object">>
      /\ Askable[6] = <<"missing_relation_subject", "relation_subject">>
      /\ Askable[7][2] = "attribute_dimension" /\ Askable[8][2] = "state_value"
  BY DEF Askable
<1>4. ASSUME k # 0
      PROVE  k \in 1 .. 8 /\ Askable[k][1] \in IncompleteGaps(p, c)
  <2>1. I \in SUBSET (1 .. 8) /\ I # {} /\ k = Min(I)
    BY <1>2, <1>3, <1>4
  <2> HIDE DEF I, k
  <2>2. Min(I) \in I
    <3> DEFINE n == 8
    <3>1. n \in Nat /\ I \in SUBSET (1 .. n)
      BY <2>1
    <3> HIDE DEF n
    <3>2. \E m \in I : \A j \in I : m <= j
      BY <3>1, <2>1, FirstPosition
    <3> QED
      BY <3>2, Zenon DEF Min
  <2> QED
    BY <2>1, <2>2 DEF I
<1> HIDE DEF k, I
<1>5. ASSUME NEW reason \in IncompleteGaps(p, c)
      PROVE  \E kind : reason \in Gaps(p, c, kind)
  BY DEF IncompleteGaps
<1>6. /\ "missing_entity" \in IncompleteGaps(p, c) => p.subject = NoMention
      /\ "missing_relation_subject" \in IncompleteGaps(p, c) => p.subject = NoMention
      /\ "missing_relation_object" \in IncompleteGaps(p, c) => p.object = NoMention
  BY <1>5, GapNeeds DEF Needs
<1>7. CASE k = 0
  BY <1>1, <1>7
<1>8. CASE k # 0
  <2>1. k = 1 \/ k = 2 \/ k = 3 \/ k = 4 \/ k = 5 \/ k = 6 \/ k = 7 \/ k = 8
    BY <1>4, <1>8
  <2>2. Question(p, c) = Askable[k][2] /\ Askable[k][1] \in IncompleteGaps(p, c)
    BY <1>1, <1>4, <1>8
  <2> HIDE DEF asks
  <2> QED
    BY <1>3, <1>6, <2>1, <2>2
<1> QED
  BY <1>7, <1>8

-----------------------------------------------------------------------------
(* What an answer may change.                                              *)

Filling(slot) == slot \in {"measured_entity", "relation_subject"}

\* q is p but for the slot.
Kept(p, slot, q) ==
  /\ q.claims = p.claims /\ q.context = p.context /\ q.others = p.others /\ q.rel = p.rel
  /\ q.beside = p.beside
  /\ q.meas.val = p.meas.val /\ (slot # "measurement_dimension" => q.meas = p.meas)
  /\ slot # "attribute_dimension" => q.attr = p.attr
  /\ slot # "state_value" => q.state = p.state
  /\ q.subject = p.subject \/ (Filling(slot) /\ q.subject.ref = "named")
  /\ q.object = p.object \/ (slot = "relation_object" /\ q.object.ref = "named")

LEMMA FilledKept ==
  ASSUME NEW p, Shaped(p), NEW slot \in AnswerableSlots, NEW a
  PROVE  Kept(p, slot, Filled(p, slot, a))
<1> DEFINE mention == [text |-> a.text, ref |-> "named"]
           v == [dim |-> a.text, val |-> a.val]
           q == Filled(p, slot, a)
<1>1. p \in Shape
  BY DEF Shaped
<1>2. mention.ref = "named"
  OBVIOUS
<1>3. \/ slot = "measured_entity" \/ slot = "relation_subject" \/ slot = "relation_object"
      \/ slot = "measurement_dimension" \/ slot = "attribute_dimension" \/ slot = "state_value"
  BY DEF AnswerableSlots, EntitySlots
<1>4. \/ Filling(slot) /\ q = [p EXCEPT !.subject = mention]
      \/ slot = "relation_object" /\ q = [p EXCEPT !.object = mention]
      \/ slot = "measurement_dimension" /\ q = [p EXCEPT !.meas.dim = a.text]
      \/ slot = "attribute_dimension" /\ q = [p EXCEPT !.exprs = @ \cup {"attribute"}, !.attr = v]
      \/ slot = "state_value" /\ q = [p EXCEPT !.exprs = @ \cup {"state"}, !.state = a.text, !.alias = "one"]
  BY <1>3, Zenon DEF Filled, Filling, mention, v
<1> SUFFICES Kept(p, slot, q)
  OBVIOUS
<1> HIDE DEF mention, v, q
<1> DEFINE Rest == q.claims = p.claims /\ q.context = p.context /\ q.others = p.others /\ q.rel = p.rel
                   /\ q.beside = p.beside
<1>5. CASE Filling(slot) /\ q = [p EXCEPT !.subject = mention]
  <2>1. /\ Rest /\ q.meas = p.meas /\ q.attr = p.attr /\ q.state = p.state /\ q.object = p.object
        /\ q.subject = mention
    BY <1>1, <1>5 DEF Shape
  <2> QED
    BY <1>2, <1>5, <2>1, Zenon DEF Kept
<1>6. CASE slot = "relation_object" /\ q = [p EXCEPT !.object = mention]
  <2>1. /\ Rest /\ q.meas = p.meas /\ q.attr = p.attr /\ q.state = p.state /\ q.subject = p.subject
        /\ q.object = mention
    BY <1>1, <1>6 DEF Shape
  <2> QED
    BY <1>2, <1>6, <2>1, Zenon DEF Kept
<1>7. CASE slot = "measurement_dimension" /\ q = [p EXCEPT !.meas.dim = a.text]
  <2>0. p.meas \in [dim : Word, val : Word]
    BY <1>1 DEF Shape
  <2>1. /\ Rest /\ q.attr = p.attr /\ q.state = p.state /\ q.subject = p.subject /\ q.object = p.object
        /\ q.meas = [p.meas EXCEPT !.dim = a.text]
    BY <1>1, <1>7 DEF Shape
  <2>2. q.meas.val = p.meas.val
    BY <2>0, <2>1
  <2> QED
    BY <1>7, <2>1, <2>2, Zenon DEF Kept
<1>8. CASE slot = "attribute_dimension" /\ q = [p EXCEPT !.exprs = @ \cup {"attribute"}, !.attr = v]
  <2>1. /\ Rest /\ q.meas = p.meas /\ q.state = p.state /\ q.subject = p.subject /\ q.object = p.object
    BY <1>1, <1>8 DEF Shape
  <2> QED
    BY <1>8, <2>1, Zenon DEF Kept
<1>9. CASE slot = "state_value" /\ q = [p EXCEPT !.exprs = @ \cup {"state"}, !.state = a.text, !.alias = "one"]
  <2>1. /\ Rest /\ q.meas = p.meas /\ q.attr = p.attr /\ q.subject = p.subject /\ q.object = p.object
    BY <1>1, <1>9 DEF Shape
  <2> QED
    BY <1>9, <2>1, Zenon DEF Kept
<1> QED
  BY <1>4, <1>5, <1>6, <1>7, <1>8, <1>9, Zenon

\* x is the mention's thing or, where none was mentioned, the answer may name it.
Named(m, slot, x) == \/ m.ref = "contextual" \/ m.text = x
                     \/ m = NoMention /\ slot \in EntitySlots

AnsweredRow(of, slot, r) ==
  LET p == of.said IN
  CASE r.kind = "measurement" ->
         /\ r.val = p.meas.val
         /\ slot = "measurement_dimension" \/ r.dim = p.meas.dim
         /\ Named(p.subject, slot, r.of) \/ (p.subject = NoMention /\ Named(p.object, slot, r.of))
    [] r.kind = "relation" ->
         /\ "relation" \in of.kinds /\ r.dim = p.rel
         /\ Named(p.object, slot, r.to) /\ Named(p.subject, slot, r.of)
    [] r.kind = "state"     -> "state" \in of.kinds /\ (slot = "state_value" \/ r.val = p.state)
    [] r.kind = "attribute" -> "attribute" \in of.kinds
                               /\ (slot = "attribute_dimension" \/ Described(p, r))
    [] OTHER                -> "event" \in of.kinds

\* The ownership of a vehicle that the utterance was about, or that the answer names.
OwnedNow(of, slot, r) ==
  /\ r.kind = "relation" /\ r.dim = "owns" /\ r.of = "self" /\ r.to \in Vehicles
  /\ Named(of.said.subject, slot, r.to) \/ Named(of.said.object, slot, r.to)

\* A thing of the filled utterance is the one mentioned, or the answer where none was.
LEMMA FilledNamed ==
  ASSUME NEW p, NEW slot, NEW q, Kept(p, slot, q),
         Filling(slot) => p.subject = NoMention, slot = "relation_object" => p.object = NoMention
  PROVE  /\ Thing(q.subject) # "" => Named(p.subject, slot, Thing(q.subject))
         /\ Thing(q.object) # "" => Named(p.object, slot, Thing(q.object))
<1>1. ASSUME NEW m, Thing(m) # ""
      PROVE  Named(m, slot, Thing(m))
  BY <1>1 DEF Thing, Named
<1>2. Filling(slot) \/ slot = "relation_object" => slot \in EntitySlots
  BY DEF Filling, EntitySlots
<1>3. /\ q.subject = p.subject \/ Filling(slot)
      /\ q.object = p.object \/ slot = "relation_object"
  BY DEF Kept
<1>4. Filling(slot) => Named(p.subject, slot, Thing(q.subject))
  BY <1>2 DEF Named
<1>5. slot = "relation_object" => Named(p.object, slot, Thing(q.object))
  BY <1>2 DEF Named
<1> QED
  BY <1>1, <1>3, <1>4, <1>5

LEMMA MeasuredNamed ==
  ASSUME NEW p, NEW slot, NEW q, Kept(p, slot, q),
         Filling(slot) => p.subject = NoMention, slot = "relation_object" => p.object = NoMention,
         Thing(MeasuredEntity(q)) # ""
  PROVE  \/ Named(p.subject, slot, Thing(MeasuredEntity(q)))
         \/ p.subject = NoMention /\ Named(p.object, slot, Thing(MeasuredEntity(q)))
<1>1. CASE q.subject # NoMention
  <2>1. MeasuredEntity(q) = q.subject
    BY <1>1 DEF MeasuredEntity
  <2> QED
    BY <2>1, FilledNamed
<1>2. CASE q.subject = NoMention
  <2>1. MeasuredEntity(q) = q.object
    BY <1>2 DEF MeasuredEntity
  <2>2. p.subject = NoMention
    BY <1>2 DEF Kept
  <2> QED
    BY <2>1, <2>2, FilledNamed
<1> QED
  BY <1>1, <1>2

\* A mention that calls a thing one's own is not the answer's.
LEMMA OwnedBefore ==
  ASSUME NEW p, NEW slot, NEW q, Kept(p, slot, q), NEW m \in Mentions(q), m.ref = "possessive"
  PROVE  m \in Mentions(p)
<1>1. m # NoMention /\ m \in {q.subject, q.object, q.context} \cup Range(q.others)
  BY DEF Mentions
<1>2. m = q.subject \/ m = q.object \/ m = q.context \/ m \in Range(q.others)
  BY <1>1
<1>3. m = q.subject => m = p.subject
  BY DEF Kept
<1>4. m = q.object => m = p.object
  BY DEF Kept
<1>5. q.context = p.context /\ q.others = p.others
  BY DEF Kept
<1> QED
  BY <1>1, <1>2, <1>3, <1>4, <1>5 DEF Mentions

\* What is asked about has no claims.
LEMMA AskedBare ==
  ASSUME NEW p, NEW c, ~ Executes(p, c)
  PROVE  p.claims = <<>> /\ ~ IsCorrection(p)
BY DEF Executes

LEMMA NoClaims ==
  ASSUME NEW q, q.claims = <<>>
  PROVE  Explicit(q) = {} /\ SaidMentions(q) = Mentions(q) /\ IdentityMentions(q) = Mentions(q)
<1>1. Explicit(q) = {}
  BY DEF Explicit
<1>2. UNION {{q.claims[k].subject, q.claims[k].object} : k \in Explicit(q)} = {}
  BY <1>1
<1> QED
  BY <1>1, <1>2, Zenon DEF SaidMentions, IdentityMentions

\* The utterance q completes the one asked about, which had no claims.
Supplies(of, slot, q, c) ==
  /\ Shaped(of.said) /\ Shaped(q) /\ Kept(of.said, slot, q) /\ of.said.claims = <<>>
  /\ Filling(slot) => of.said.subject = NoMention
  /\ slot = "relation_object" => of.said.object = NoMention
  /\ c.kind \in of.kinds

LEMMA OwnBefore ==
  ASSUME NEW of, NEW slot, NEW q, NEW c, Supplies(of, slot, q, c), NEW m \in SaidMentions(q),
         m.ref = "possessive", NEW r, r.dim = "owns", r.of = "self", r.to = m.text
  PROVE  Owning(of.said, r)
<1>1. q.claims = <<>>
  BY DEF Supplies, Kept
<1>2. m \in Mentions(q)
  BY <1>1, NoClaims
<1>3. m \in Mentions(of.said)
  BY <1>2, OwnedBefore DEF Supplies
<1>4. m \in SaidMentions(of.said)
  BY <1>3 DEF SaidMentions
<1> QED
  BY <1>4 DEF Owning

LEMMA AnsweredMeasure ==
  ASSUME NEW of, NEW slot, NEW q, NEW c, Supplies(of, slot, q, c), NEW r, r.kind = "measurement",
         r.dim = q.meas.dim, r.val = q.meas.val, r.of = Thing(MeasuredEntity(q)), r.of # ""
  PROVE  AnsweredRow(of, slot, r)
<1> DEFINE p == of.said
<1>1. \/ Named(p.subject, slot, r.of)
      \/ p.subject = NoMention /\ Named(p.object, slot, r.of)
  BY MeasuredNamed DEF Supplies
<1>2. r.val = p.meas.val /\ (slot = "measurement_dimension" \/ r.dim = p.meas.dim)
  BY DEF Supplies, Kept
<1> QED
  BY <1>1, <1>2, Zenon DEF AnsweredRow

LEMMA AnsweredPrimary ==
  ASSUME NEW of, NEW slot, NEW q, NEW c, Supplies(of, slot, q, c), NEW w, NEW f \in WireFact, NEW r,
         RowTells(f, q, w, r), f.kind = c.kind, f.kind # "measurement",
         f.kind # "event" => f.of = q.subject, f.kind = "state" => f.val = q.state,
         f.kind = "relation" => f.dim = q.rel /\ f.to = q.object,
         f.kind = "attribute" => Described(q, f)
  PROVE  AnsweredRow(of, slot, r)
<1> DEFINE p == of.said
<1>1. /\ r.kind = f.kind /\ r.dim = f.dim /\ (f.kind # "relation" => r.val = f.val)
      /\ SubjectOf(f, q, w, r.of) /\ ObjectOf(f, r.to) /\ Placed(f, r.of, r.to)
  BY DEF RowTells
<1>2. r.kind \in of.kinds
  BY <1>1 DEF Supplies
<1>3. r.kind = "event" \/ r.kind = "state" \/ r.kind = "relation" \/ r.kind = "attribute"
  BY <1>1 DEF WireFact, Kinds
<1>4. CASE r.kind = "event"
  BY <1>2, <1>4 DEF AnsweredRow
<1>5. CASE r.kind = "state"
  <2>1. slot = "state_value" \/ r.val = p.state
    BY <1>1, <1>5 DEF Supplies, Kept
  <2> QED
    BY <1>2, <1>5, <2>1 DEF AnsweredRow
<1>6. CASE r.kind = "relation"
  <2>1. r.dim = p.rel
    BY <1>1, <1>6 DEF Supplies, Kept
  <2>2. r.of # "" /\ r.to # "" /\ r.of = Thing(q.subject) /\ r.to = Thing(q.object)
    BY <1>1, <1>6 DEF SubjectOf, ObjectOf, Placed
  <2>3. Named(p.object, slot, r.to) /\ Named(p.subject, slot, r.of)
    BY <2>2, FilledNamed DEF Supplies
  <2> QED
    BY <1>2, <1>6, <2>1, <2>3 DEF AnsweredRow
<1>7. CASE r.kind = "attribute"
  <2>1. slot = "attribute_dimension" \/ (q.attr = p.attr /\ q.beside = p.beside)
    BY DEF Supplies, Kept
  <2>3. slot = "attribute_dimension" \/ Described(p, r)
    <3>1. r.dim = f.dim /\ r.val = f.val /\ Described(q, f)
      BY <1>1, <1>7
    <3> QED
      BY <2>1, <3>1, Zenon DEF Described
  <2> QED
    BY <1>2, <1>7, <2>1, <2>3 DEF AnsweredRow
<1> QED
  BY <1>3, <1>4, <1>5, <1>6, <1>7

LEMMA AnsweredFact ==
  ASSUME NEW of, NEW slot, NEW q, NEW c, Supplies(of, slot, q, c), NEW w, Woven(q, c, w),
         NEW f \in Range(w.facts), NEW r, RowTells(f, q, w, r)
  PROVE  AnsweredRow(of, slot, r) \/ Owning(of.said, r)
<1>1. f \in WireFact /\ f.kind \in Kinds /\ Told(q, c, f)
  BY FactKinds
<1>2. /\ r.kind = f.kind /\ r.dim = f.dim /\ (f.kind # "relation" => r.val = f.val)
      /\ SubjectOf(f, q, w, r.of) /\ ObjectOf(f, r.to) /\ Placed(f, r.of, r.to)
  BY DEF RowTells
<1>3. CASE ToldFirst(q, c, f)
  <2>1. CASE f = Fact("measurement", MeasuredEntity(q), q.context, q.meas.dim, q.meas.val, "assert")
    <3>1. f.kind = "measurement" /\ f.dim = q.meas.dim /\ f.val = q.meas.val /\ f.of = MeasuredEntity(q)
      BY <2>1, FactFields
    <3>2. r.kind = "measurement" /\ r.dim = q.meas.dim /\ r.val = q.meas.val
          /\ r.of = Thing(MeasuredEntity(q)) /\ r.of # ""
      BY <1>2, <3>1 DEF SubjectOf, Placed
    <3> QED
      BY <3>2, AnsweredMeasure
  <2>2. CASE f # Fact("measurement", MeasuredEntity(q), q.context, q.meas.dim, q.meas.val, "assert")
    <3>1. /\ f.kind = c.kind /\ f.kind # "measurement"
          /\ f.kind # "event" => f.of = q.subject
          /\ f.kind = "state" => f.val = q.state
          /\ f.kind = "relation" => f.dim = q.rel /\ f.to = q.object
          /\ f.kind = "attribute" => Described(q, f)
      BY <1>3, <2>2, Zenon DEF ToldFirst
    <3> QED
      BY <1>1, <3>1, AnsweredPrimary
  <2> QED
    BY <2>1, <2>2
<1>4. CASE ToldByClaim(q, f)
  <2>1. q.claims = <<>>
    BY DEF Supplies, Kept
  <2> QED
    BY <1>4, <2>1, NoClaims DEF ToldByClaim
<1>5. CASE ToldAsOwn(q, f)
  <2>1. PICK m \in Owned(q) : f = Owns(m)
    BY <1>5 DEF ToldAsOwn
  <2>2. f.kind = "relation" /\ f.dim = "owns" /\ f.of = Self /\ f.to = m
    BY <2>1 DEF Owns, Fact
  <2>3. m \in SaidMentions(q) /\ m.ref = "possessive"
    BY IdentitySaid DEF Supplies
  <2>4. Thing(Self) = "self" /\ Thing(m) = m.text
    BY <2>3 DEF Thing, Self
  <2>5. r.of = "self" /\ r.to = m.text /\ r.dim = "owns"
    BY <1>2, <2>2, <2>4 DEF SubjectOf, ObjectOf
  <2> QED
    BY <2>3, <2>5, OwnBefore
<1> QED
  BY <1>1, <1>3, <1>4, <1>5 DEF Told

LEMMA AnsweredOwn ==
  ASSUME NEW of, NEW slot, NEW q, NEW c, Supplies(of, slot, q, c), NEW w, Woven(q, c, w),
         NEW r, OwnRow(w, r)
  PROVE  Owning(of.said, r) \/ OwnedNow(of, slot, r)
<1>1. PICK y \in Taken(w) : r.to = Thing(y) /\ r.to # "self"
  BY DEF OwnRow
<1>2. y \in Ends(q)
  BY DEF Woven, Taken
<1>a. y.ref = "possessive" \/ r.to \in Vehicles
  BY <1>1 DEF Taken
<1>3. y \in SaidMentions(q)
  <2>1. NoMention.ref = "none" /\ Self.ref = "self" /\ Thing(NoMention) = "" /\ Thing(Self) = "self"
    BY DEF NoMention, Self, Thing
  <2>2. y # NoMention /\ y # Self
    BY <1>1, <1>a, <2>1, VehiclesAssumption
  <2> QED
    BY <1>2, <2>2 DEF Ends
<1>4. r.kind = "relation" /\ r.of = "self" /\ r.dim = "owns"
  BY DEF OwnRow
<1>5. CASE y.ref = "possessive"
  <2>1. r.to = y.text
    BY <1>1, <1>5 DEF Thing
  <2> QED
    BY <1>3, <1>4, <1>5, <2>1, OwnBefore
<1>6. CASE r.to \in Vehicles
  <2>1. Thing(y) # ""
    BY <1>1, <1>6, VehiclesAssumption
  <2>2. y \in Mentions(q)
    BY <1>3, NoClaims DEF Supplies, Kept
  <2>3. CASE y = q.subject \/ y = q.object
    <3>1. Named(of.said.subject, slot, r.to) \/ Named(of.said.object, slot, r.to)
      BY <1>1, <2>1, <2>3, FilledNamed DEF Supplies
    <3> QED
      BY <1>4, <1>6, <3>1 DEF OwnedNow
  <2>4. CASE y # q.subject /\ y # q.object
    <3>1. q.context = of.said.context /\ q.others = of.said.others
      BY DEF Supplies, Kept
    <3>2. y \in Mentions(of.said)
      BY <2>2, <2>4, <3>1 DEF Mentions
    <3>3. y \in SaidMentions(of.said)
      BY <3>2 DEF SaidMentions
    <3>4. y.ref = "contextual" \/ r.to = y.text
      BY <1>1, <2>1 DEF Thing
    <3> QED
      BY <1>4, <1>6, <3>3, <3>4 DEF Owning
  <2> QED
    BY <2>3, <2>4
<1> QED
  BY <1>a, <1>5, <1>6

\* The utterance that an answer completes.
LEMMA AnswerCompletes ==
  ASSUME NEW q, Shaped(q), AnswerTurn(q)
  PROVE  Supplies(pending.of, pending.slot, q, ResolveConcept(q, Route(q)))
<1> DEFINE p == pending.of.said
           c == ResolveConcept(q, Route(q))
           d == ResolveConcept(p, Route(p))
           slot == pending.slot
<1>1. /\ slot \in AnswerableSlots /\ Shaped(p) /\ pending.of = Reading(p) /\ ~ pending.of.executes
      /\ slot = pending.of.question /\ Reading(q).kinds \subseteq pending.of.kinds
  BY DEF AnswerTurn, Open, Asked, Coherent
<1>2. PICK a \in AnswersGiven : q = Filled(p, slot, a)
  BY DEF AnswerTurn
<1>3. ~ Executes(p, d) /\ slot = Question(p, d)
  BY <1>1, ReadingFields
<1>4. p.claims = <<>>
  BY <1>3, AskedBare
<1>5. /\ Filling(slot) => p.subject = NoMention
      /\ slot = "relation_object" => p.object = NoMention
  BY <1>3, QuestionMeans DEF Filling
<1>6. c.kind \in Reading(q).kinds
  <2>1. Reading(q).kinds = Assertions(q, c.kind)
    BY ReadingFields
  <2> QED
    BY <2>1 DEF Assertions
<1>7. Kept(p, slot, q)
  BY <1>1, <1>2, FilledKept
<1> QED
  BY <1>1, <1>4, <1>5, <1>6, <1>7 DEF Supplies

LEMMA AnswerStep ==
  ASSUME TurnsInv, AnswerKeepsTheRest, [ProposalNext]_proposalVars
  PROVE  AnswerKeepsTheRest'
<1> DEFINE Fine == heard'.answering =>
                     \A k \in heard'.wrote : \/ AnsweredRow(pending'.of, pending'.slot, rows'[k])
                                             \/ Owning(pending'.of.said, rows'[k])
                                             \/ OwnedNow(pending'.of, pending'.slot, rows'[k])
<1>1. Fine => AnswerKeepsTheRest'
  BY Zenon DEF AnswerKeepsTheRest, AnsweredRow, Named, Described, OwnedNow
<1>2. CASE UNCHANGED proposalVars
  <2>1. heard.answering => \A k \in heard.wrote : \/ AnsweredRow(pending.of, pending.slot, rows[k])
                                                  \/ Owning(pending.of.said, rows[k])
                                                  \/ OwnedNow(pending.of, pending.slot, rows[k])
    BY Zenon DEF AnswerKeepsTheRest, AnsweredRow, Named, Described, OwnedNow
  <2>2. heard' = heard /\ rows' = rows /\ pending' = pending
    BY <1>2 DEF proposalVars
  <2>3. Fine
    BY <2>1, <2>2
  <2> QED
    BY <1>1, <2>3
<1>3. CASE ProposalNext
  <2>1. Turned
    BY <1>3, TurnsInvStep
  <2>2. CASE heard'.wrote = {}
    BY <1>1, <2>2
  <2>3. CASE ~ heard'.answering
    BY <1>1, <2>3
  <2>4. ASSUME NEW p, NEW n, WriteTurn(p, n), heard'.answering, AnswerTurn(p)
        PROVE  Fine
    <3> DEFINE w == Reading(p).wire
               c == ResolveConcept(p, Route(p))
               of == pending.of
               slot == pending.slot
    <3>1. Shaped(p) /\ Final(p, w, n) /\ heard'.wrote = Range(n.ids) /\ rows' = n.rows
      BY <2>4 DEF WriteTurn
    <3>2. Woven(p, c, w)
      BY <3>1, ReadingWoven
    <3>3. Supplies(of, slot, p, c)
      BY <2>4, <3>1, AnswerCompletes
    <3>4. pending'.of = of /\ pending'.slot = slot
      BY <2>4 DEF AnswerTurn
    <3> HIDE DEF w, c, of, slot
    <3>5. ASSUME NEW k \in Range(n.ids)
          PROVE  \/ AnsweredRow(of, slot, n.rows[k]) \/ Owning(of.said, n.rows[k])
                 \/ OwnedNow(of, slot, n.rows[k])
      <4>1. \/ \E f \in Range(w.facts) : RowTells(f, p, w, n.rows[k])
            \/ OwnRow(w, n.rows[k])
        BY <3>1 DEF Final
      <4> QED
        BY <3>2, <3>3, <4>1, AnsweredFact, AnsweredOwn
    <3> QED
      BY <3>1, <3>4, <3>5
  <2>5. QuietTurn \/ (\E p, k : RetractTurn(p, k)) => heard'.wrote = {}
    BY DEF QuietTurn, RetractTurn
  <2> HIDE DEF Fine
  <2> QED
    BY <1>1, <2>1, <2>2, <2>3, <2>4, <2>5 DEF Turned
<1> QED
  BY <1>2, <1>3

\* An answer adds what was asked for and nothing else: a row written when a question is answered
\* tells what the utterance asked about said, completed by the answer in the slot it fills, or the
\* ownership of a thing called one's own in it, or of a vehicle it or the answer names
\* (clarification_recovery.py, materializer.py).
THEOREM AnswersKeep == ProposalSpec => []AnswerKeepsTheRest
<1>1. ProposalInit => AnswerKeepsTheRest
  <2>1. ProposalInit => heard.wrote = {}
    <3>1. ProposalInit => heard = [of |-> Silence, status |-> "none", wrote |-> {}, answering |-> FALSE]
      BY Zenon DEF ProposalInit
    <3> QED
      BY <3>1
  <2>2. heard.wrote = {} => AnswerKeepsTheRest
    BY Zenon DEF AnswerKeepsTheRest
  <2> QED
    BY <2>1, <2>2
<1>2. TurnsInv /\ AnswerKeepsTheRest /\ [ProposalNext]_proposalVars => AnswerKeepsTheRest'
  BY AnswerStep
<1> QED
  BY <1>1, <1>2, ProposalInvariant, PTL DEF ProposalSpec

-----------------------------------------------------------------------------
(* What becomes of an explicit claim.                                      *)

\* The claim can be written, of the kinds the overlay supports.
Supported(p, k) == /\ k \in Explicit(p) /\ p.claims[k].dim # "name"
                   /\ p.claims[k].kind \in {"attribute", "relation", "measurement"}

FactOf(p, k, f) == /\ k \in Explicit(p) /\ p.claims[k].kind \in {"attribute", "relation", "measurement"}
                   /\ f = ClaimFact(p, p.claims[k])

\* x is w with the claim k laid over it.
LaidOver(p, w, k, x) ==
  /\ w.mentions \subseteq x.mentions /\ x.report.received = w.report.received
  /\ \A f \in Range(x.facts) :
       f \in Range(w.facts) \/ (FactOf(p, k, f) /\ (f.of # NoMention => f.of \in x.mentions))
  /\ Supported(p, k) /\ x.report.deferred = w.report.deferred =>
       LET f == ClaimFact(p, p.claims[k]) IN
       Buildable(p, p.claims[k]) /\ (f \in Range(x.facts) \/ Stood(w.facts, f))

LEMMA ClaimLaid ==
  ASSUME NEW p, Shaped(p), NEW c, NEW w \in Laid(p, c), NEW k \in DOMAIN p.claims
  PROVE  LaidOver(p, w, k, ApplyClaim(p, w, p.claims[k]))
<1> DEFINE a == p.claims[k]
           f == ClaimFact(p, a)
           x == ApplyClaim(p, w, a)
<1>1. a \in Claim
  BY ClaimShape
<1>2. (a.origin = "explicit") <=> k \in Explicit(p)
  BY DEF Explicit
<1>3. a.origin \in {"explicit", "assumed", "derived"}
  BY <1>1 DEF Claim
<1>w. /\ w.facts \in Seq(WireFact)
      /\ w.report \in [received : Nat, assumed : Nat, deferred : Nat, bound : Nat]
      /\ w = [facts |-> w.facts, mentions |-> w.mentions, op |-> w.op, target |-> w.target,
              report |-> w.report]
  BY DEF Laid
<1>d. Supported(p, k) <=> /\ a.origin = "explicit" /\ a.dim # "name"
                          /\ a.kind \in {"attribute", "relation", "measurement"}
  BY <1>2 DEF Supported
<1>s. SUFFICES LaidOver(p, w, k, x)
  OBVIOUS
<1> DEFINE Kept2 == /\ w.mentions \subseteq x.mentions /\ x.report.received = w.report.received
                    /\ \A g \in Range(x.facts) :
                         g \in Range(w.facts) \/ (FactOf(p, k, g) /\ (g.of # NoMention => g.of \in x.mentions))
           Done == Supported(p, k) /\ x.report.deferred = w.report.deferred =>
                     Buildable(p, a) /\ (f \in Range(x.facts) \/ Stood(w.facts, f))
<1>g. Kept2 /\ Done => LaidOver(p, w, k, x)
  BY Zenon DEF LaidOver
<1>f. FactOf(p, k, f) <=> a.origin = "explicit" /\ a.kind \in {"attribute", "relation", "measurement"}
  BY <1>2 DEF FactOf
<1>12. a.kind \in {"entity", "class", "relation", "attribute", "intrinsic", "measurement", "state", "event"}
  BY <1>1 DEF Claim
<1>x. \/ ~ Supported(p, k) /\ x = [w EXCEPT !.report.assumed = @ + 1]
      \/ x = [w EXCEPT !.report.deferred = @ + 1]
      \/ ~ Supported(p, k) /\ x = [w EXCEPT !.report.bound = @ + 1, !.mentions = @ \cup {a.subject}]
      \/ ~ Supported(p, k) /\ x = w
      \/ ~ Supported(p, k) /\ x = [w EXCEPT !.mentions = @ \cup {ClaimSubject(p, a)}]
      \/ /\ a.origin = "explicit" /\ a.kind \in {"attribute", "relation", "measurement"} /\ Buildable(p, a)
         /\ x = [w EXCEPT !.facts = Overlaid(@, f), !.mentions = @ \cup ({f.of, f.to} \ {NoMention})]
  BY <1>3, <1>12, <1>d DEF ApplyClaim, Deferred
<1> HIDE DEF a, f, x
<1>6. CASE ~ Supported(p, k) /\ x = [w EXCEPT !.report.assumed = @ + 1]
  <2>1. x.facts = w.facts /\ x.mentions = w.mentions /\ x.report.received = w.report.received
    BY <1>6, <1>w
  <2> QED
    BY <1>6, <1>g, <2>1
<1>7. CASE x = [w EXCEPT !.report.deferred = @ + 1]
  <2>1. x.facts = w.facts /\ x.mentions = w.mentions /\ x.report.received = w.report.received
        /\ x.report.deferred = w.report.deferred + 1
    BY <1>7, <1>w
  <2>2. x.report.deferred # w.report.deferred
    BY <2>1, <1>w
  <2> QED
    BY <1>g, <2>1, <2>2
<1>8. CASE ~ Supported(p, k) /\ x = [w EXCEPT !.report.bound = @ + 1, !.mentions = @ \cup {a.subject}]
  <2>1. x.facts = w.facts /\ w.mentions \subseteq x.mentions /\ x.report.received = w.report.received
    BY <1>8, <1>w
  <2> QED
    BY <1>8, <1>g, <2>1
<1>9. CASE ~ Supported(p, k) /\ x = w
  BY <1>9, <1>g
<1>10. CASE ~ Supported(p, k) /\ x = [w EXCEPT !.mentions = @ \cup {ClaimSubject(p, a)}]
  <2>1. x.facts = w.facts /\ w.mentions \subseteq x.mentions /\ x.report.received = w.report.received
    BY <1>10, <1>w
  <2> QED
    BY <1>10, <1>g, <2>1
<1>11. CASE /\ a.origin = "explicit" /\ a.kind \in {"attribute", "relation", "measurement"} /\ Buildable(p, a)
            /\ x = [w EXCEPT !.facts = Overlaid(@, f), !.mentions = @ \cup ({f.of, f.to} \ {NoMention})]
  <2> DEFINE F == Overlaid(w.facts, f)
             M == w.mentions \cup ({f.of, f.to} \ {NoMention})
  <2>1. FactOf(p, k, f) /\ f \in WireFact
    BY <1>2, <1>11, <1>f, ClaimFactShape DEF a, f
  <2>2. /\ Range(F) \subseteq Range(w.facts) \cup {f}
        /\ f \in Range(F) \/ Stood(w.facts, f)
    BY <2>1, <1>w, OverlaidRange
  <2>3. w.mentions \subseteq M /\ (f.of # NoMention => f.of \in M)
    OBVIOUS
  <2>4. x = [w EXCEPT !.facts = F, !.mentions = M]
    BY <1>11
  <2> HIDE DEF F, M
  <2>5. x.facts = F /\ x.mentions = M /\ x.report = w.report
    BY <2>4, <1>w
  <2>6. Kept2
    BY <2>1, <2>2, <2>3, <2>5
  <2>7. Done
    BY <1>11, <2>2, <2>3, <2>5
  <2> HIDE DEF Kept2, Done
  <2> QED
    BY <1>g, <2>6, <2>7
<1> QED
  BY <1>x, <1>6, <1>7, <1>8, <1>9, <1>10, <1>11

\* What is laid later takes nothing back.
Grows(v, w) == /\ v.mentions \subseteq w.mentions /\ Range(v.facts) \subseteq Range(w.facts)
               /\ v.report.received = w.report.received /\ v.report.deferred <= w.report.deferred

\* A fact there was before the claims, or that of one of the first j.
From(p, c, j, f) == f \in Range(BareFacts(p, c)) \/ \E i \in 1 .. j : FactOf(p, i, f)

\* All facts of w are such, and but for those beside an attribute what they are about is bound.
FirstFacts(p, c, j, w) ==
  \A f \in Range(w.facts) : /\ From(p, c, j, f)
                            /\ f.mode # "beside" /\ f.of # NoMention => f.of \in w.mentions

LEMMA ApplyGrows ==
  ASSUME NEW p, Shaped(p), NEW c, NEW w \in Laid(p, c), NEW k \in DOMAIN p.claims
  PROVE  LET x == ApplyClaim(p, w, p.claims[k]) IN Grows(w, x) /\ LaidOver(p, w, k, x)
<1> DEFINE x == ApplyClaim(p, w, p.claims[k])
<1>1. LaidOver(p, w, k, x)
  BY ClaimLaid
<1>2. /\ \A f \in Range(w.facts) : f \in Range(x.facts)
      /\ w.report.deferred <= x.report.deferred
  BY ApplyLays
<1> HIDE DEF x
<1>3. Grows(w, x)
  BY <1>1, <1>2 DEF LaidOver, Grows
<1> QED
  BY <1>1, <1>3 DEF x

LEMMA GrowsOn ==
  ASSUME NEW p, NEW c, NEW n \in Nat, NEW at, \A k \in 0 .. n : at[k] \in Laid(p, c),
         \A k \in 1 .. n : Grows(at[k - 1], at[k])
  PROVE  \A i \in 0 .. n : Grows(at[i], at[n])
<1> DEFINE T == {j \in 0 .. n : \A i \in 0 .. j : Grows(at[i], at[j])}
<1>0. \A k \in 0 .. n : at[k].report.deferred \in Nat
  BY DEF Laid
<1>r. \A k \in 0 .. n : Grows(at[k], at[k])
  BY <1>0 DEF Grows
<1>1. 0 \in T
  <2>1. \A i \in 0 .. 0 : i = 0
    OBVIOUS
  <2>2. 0 \in 0 .. n
    OBVIOUS
  <2> QED
    BY <1>r, <2>1, <2>2
<1>2. ASSUME NEW k \in 0 .. n, k \in T, k < n
      PROVE  k + 1 \in T
  <2>1. k + 1 \in 1 .. n /\ k + 1 - 1 = k /\ k + 1 \in 0 .. n
    BY <1>2
  <2>2. Grows(at[k], at[k + 1])
    BY <2>1
  <2>3. ASSUME NEW i \in 0 .. k + 1
        PROVE  Grows(at[i], at[k + 1])
    <3>1. CASE i = k + 1
      BY <1>r, <2>1, <3>1
    <3>2. CASE i # k + 1
      <4>1. i \in 0 .. k /\ i \in 0 .. n
        BY <2>1, <3>2
      <4>2. Grows(at[i], at[k])
        BY <1>2, <4>1
      <4> QED
        BY <1>0, <2>1, <2>2, <4>1, <4>2 DEF Grows
    <3> QED
      BY <3>1, <3>2
  <2> QED
    BY <2>1, <2>3
<1> HIDE DEF T
<1>3. 0 .. n \subseteq T
  BY <1>1, <1>2, UpTo
<1>4. n \in 0 .. n
  OBVIOUS
<1> QED
  BY <1>3, <1>4 DEF T

LEMMA FactsSoFar ==
  ASSUME NEW p, NEW c, NEW n \in Nat, NEW at, at[0] = Bare(p, c),
         \A k \in 1 .. n : LaidOver(p, at[k - 1], k, at[k])
  PROVE  \A j \in 0 .. n : FirstFacts(p, c, j, at[j])
<1> DEFINE T == {j \in 0 .. n : FirstFacts(p, c, j, at[j])}
<1>1. 0 \in T
  <2>1. 0 \in 0 .. n
    OBVIOUS
  <2>2. ASSUME NEW f \in Range(BareFacts(p, c)), f.mode # "beside", f.of # NoMention
        PROVE  f.of \in Bare(p, c).mentions
    <3>1. f \in FirstTold(p, c)
      BY <2>2 DEF FirstTold
    <3> DEFINE U == UNION {{g.of, g.to} : g \in FirstTold(p, c)}
    <3>2. f.of \in U
      BY <3>1
    <3>3. Bare(p, c).mentions = (IdentityMentions(p) \cup U) \ {NoMention}
      BY BareFields, Zenon
    <3> HIDE DEF U
    <3> QED
      BY <2>2, <3>2, <3>3
  <2>3. Bare(p, c).facts = BareFacts(p, c)
    BY BareFields
  <2>4. FirstFacts(p, c, 0, Bare(p, c))
    BY <2>2, <2>3 DEF FirstFacts, From
  <2> QED
    BY <2>1, <2>4
<1>2. ASSUME NEW k \in 0 .. n, k \in T, k < n
      PROVE  k + 1 \in T
  <2> DEFINE v == at[k]
             x == at[k + 1]
  <2>1. k + 1 \in 1 .. n /\ k + 1 - 1 = k /\ k + 1 \in 0 .. n
    BY <1>2
  <2>2. LaidOver(p, v, k + 1, x) /\ FirstFacts(p, c, k, v)
    BY <1>2, <2>1
  <2> HIDE DEF v, x
  <2>3. ASSUME NEW f \in Range(x.facts)
        PROVE  From(p, c, k + 1, f) /\ (f.mode # "beside" /\ f.of # NoMention => f.of \in x.mentions)
    <3>1. /\ v.mentions \subseteq x.mentions
          /\ \/ f \in Range(v.facts)
             \/ FactOf(p, k + 1, f) /\ (f.of # NoMention => f.of \in x.mentions)
      BY <2>2 DEF LaidOver
    <3>2. CASE FactOf(p, k + 1, f) /\ (f.of # NoMention => f.of \in x.mentions)
      <4>1. k + 1 \in 1 .. k + 1
        BY <2>1
      <4> QED
        BY <3>2, <4>1 DEF From
    <3>3. CASE f \in Range(v.facts)
      <4>1. From(p, c, k, f) /\ (f.mode # "beside" /\ f.of # NoMention => f.of \in v.mentions)
        BY <2>2, <3>3, Zenon DEF FirstFacts
      <4>2. \A i \in 1 .. k : i \in 1 .. k + 1
        BY <2>1
      <4>3. From(p, c, k + 1, f)
        BY <4>1, <4>2 DEF From
      <4> QED
        BY <3>1, <4>1, <4>3
    <3> QED
      BY <3>1, <3>2, <3>3
  <2> QED
    BY <2>1, <2>3 DEF FirstFacts, x
<1> HIDE DEF T
<1>3. 0 .. n \subseteq T
  BY <1>1, <1>2, UpTo
<1> QED
  BY <1>3 DEF T

\* What _attr_dup, _meas_dup and _rel_dup compare.
Alike(h, f) == /\ h.kind = f.kind /\ h.dim = f.dim /\ h.of.text = f.of.text
               /\ f.kind = "relation" => h.to.text = f.to.text

LEMMA RepeatsOne ==
  ASSUME NEW h, NEW f
  PROVE  Repeats(<<h>>, f) <=> Alike(h, f)
<1> DEFINE e == <<h>>
<1>1. DOMAIN e = {1} /\ e[1] = h
  OBVIOUS
<1> HIDE DEF e
<1>2. Repeats(e, f) <=> Alike(h, f)
  BY <1>1 DEF Repeats, Alike
<1> QED
  BY <1>2 DEF e

LEMMA RepeatsSome ==
  ASSUME NEW facts, NEW f, Repeats(facts, f)
  PROVE  \E h \in Range(facts) : Alike(h, f)
BY DEF Repeats, Alike, Range

LEMMA AttributeStays ==
  ASSUME NEW s, NEW t, Range(s) \subseteq Range(t), HasAttribute(s)
  PROVE  HasAttribute(t)
<1>1. PICK k \in DOMAIN s : s[k].kind = "attribute" /\ s[k].mode # "beside"
  BY DEF HasAttribute
<1>2. s[k] \in Range(t)
  BY DEF Range
<1>3. PICK j \in DOMAIN t : t[j] = s[k]
  BY <1>2 DEF Range
<1> QED
  BY <1>1, <1>3 DEF HasAttribute

\* What a fact is about is bound, or will be.
Grounded(h, w) == /\ h.mode # "beside" /\ h.of # NoMention => h.of \in w.mentions
                  /\ h.mode = "beside" /\ h.kind = "attribute" => HasAttribute(w.facts)

\* The fact of a claim stands, or one like it that was there before.
Standing(p, c, k, w) ==
  /\ Buildable(p, p.claims[k])
  /\ \E h \in Range(w.facts) : /\ Alike(h, ClaimFact(p, p.claims[k]))
                               /\ Grounded(h, w) /\ From(p, c, k, h)

LEMMA ClaimStands ==
  ASSUME NEW p, Shaped(p), NEW c, ~ IsCorrection(p), NEW k, Supported(p, k),
         Applied(p, Bare(p, c)).report.deferred = 0
  PROVE  Standing(p, c, k, Applied(p, Bare(p, c)))
<1> DEFINE n == Len(p.claims)
           w == Applied(p, Bare(p, c))
           f == ClaimFact(p, p.claims[k])
<1>1. PICK at : Applying(p, c, Bare(p, c), at)
  BY BareLaid, AppliedSteps
<1>2. /\ at \in [0 .. n -> Laid(p, c)] /\ at[0] = Bare(p, c) /\ at[n] = w
      /\ \A i \in 1 .. n : at[i] = ApplyClaim(p, at[i - 1], p.claims[i])
  BY <1>1, Zenon DEF Applying
<1>3. n \in Nat /\ 1 .. n = DOMAIN p.claims
  BY ShapeFacts, LenProperties
<1>b. w.report.deferred = 0
  OBVIOUS
<1>m. f.mode = "assert"
  BY ClaimFactShape DEF Supported
<1> HIDE DEF n, w, f
<1>4. \A i \in 0 .. n : at[i] \in Laid(p, c)
  BY <1>2
<1>5. ASSUME NEW i \in 1 .. n
      PROVE  Grows(at[i - 1], at[i]) /\ LaidOver(p, at[i - 1], i, at[i])
  <2> DEFINE v == at[i - 1]
  <2>1. i - 1 \in 0 .. n
    BY <1>3
  <2>2. v \in Laid(p, c) /\ at[i] = ApplyClaim(p, v, p.claims[i])
    BY <1>2, <1>4, <2>1
  <2> HIDE DEF v
  <2>3. Grows(v, at[i]) /\ LaidOver(p, v, i, at[i])
    BY <1>3, <2>2, ApplyGrows
  <2> QED
    BY <2>3 DEF v
<1>6. \A i \in 0 .. n : Grows(at[i], w)
  <2>1. \A i \in 0 .. n : Grows(at[i], at[n])
    BY <1>3, <1>4, <1>5, GrowsOn
  <2> QED
    BY <1>2, <2>1
<1>7. \A j \in 0 .. n : FirstFacts(p, c, j, at[j])
  BY <1>2, <1>3, <1>5, FactsSoFar
<1>8. k \in 1 .. n /\ k - 1 \in 0 .. n /\ k \in 0 .. n
  BY <1>3 DEF Supported, Explicit
<1> DEFINE v == at[k - 1]
           x == at[k]
<1>9. LaidOver(p, v, k, x) /\ Grows(v, x) /\ Grows(x, w) /\ Grows(v, w) /\ FirstFacts(p, c, k, x)
  BY <1>5, <1>6, <1>7, <1>8
<1>10. v.report.deferred \in Nat /\ x.report.deferred \in Nat /\ w.report.deferred = 0
  BY <1>4, <1>8, <1>b DEF Laid
<1> HIDE DEF v, x
<1>11. v.report.deferred = 0 /\ x.report.deferred = 0
  BY <1>9, <1>10 DEF Grows
<1>12. Buildable(p, p.claims[k]) /\ (f \in Range(x.facts) \/ Stood(v.facts, f))
  BY <1>9, <1>11 DEF LaidOver, f
<1>13. PICK h \in Range(x.facts) : /\ Alike(h, f)
                                   /\ h.mode = "beside" /\ h.kind = "attribute" => HasAttribute(w.facts)
  <2>1. CASE f \in Range(x.facts)
    <3>1. Alike(f, f)
      BY DEF Alike
    <3> QED
      BY <2>1, <3>1, <1>m
  <2>2. CASE Stood(v.facts, f)
    <3>1. PICK h \in Range(v.facts) : Alike(h, f)
      BY <2>2, RepeatsSome DEF Stood
    <3>2. h \in Range(x.facts) /\ Range(v.facts) \subseteq Range(w.facts)
      BY <1>9 DEF Grows
    <3>3. h.kind = "attribute" => HasAttribute(w.facts)
      BY <2>2, <3>1, <3>2, AttributeStays DEF Stood, Alike
    <3> QED
      BY <3>1, <3>2, <3>3
  <2> QED
    BY <1>12, <2>1, <2>2
<1>14. /\ From(p, c, k, h)
       /\ h.mode # "beside" /\ h.of # NoMention => h.of \in x.mentions
  BY <1>9, Zenon DEF FirstFacts
<1>15. h \in Range(w.facts) /\ x.mentions \subseteq w.mentions
  BY <1>9 DEF Grows
<1>16. Grounded(h, w)
  BY <1>13, <1>14, <1>15 DEF Grounded
<1>17. Standing(p, c, k, w)
  BY <1>12, <1>13, <1>14, <1>15, <1>16 DEF Standing, f
<1> QED
  BY <1>17 DEF w

\* As many claims are reported as there were.
LEMMA AllReceived ==
  ASSUME NEW p, Shaped(p), NEW c, ~ IsCorrection(p)
  PROVE  Overlay(p, c).report.received = Len(p.claims)
<1> DEFINE n == Len(p.claims)
           w == Applied(p, Bare(p, c))
<1>1. PICK at : Applying(p, c, Bare(p, c), at)
  BY BareLaid, AppliedSteps
<1>2. /\ at \in [0 .. n -> Laid(p, c)] /\ at[0] = Bare(p, c) /\ at[n] = w
      /\ \A i \in 1 .. n : at[i] = ApplyClaim(p, at[i - 1], p.claims[i])
  BY <1>1, Zenon DEF Applying
<1>3. n \in Nat /\ 1 .. n = DOMAIN p.claims
  BY ShapeFacts, LenProperties
<1>c. at[0].report.received = n
  <2>1. Bare(p, c).report = [received |-> Len(p.claims), assumed |-> 0, deferred |-> 0, bound |-> 0]
    BY BareFields
  <2> QED
    BY <1>2, <2>1
<1>d. Overlay(p, c).report = w.report
  BY OverlayWoven
<1> HIDE DEF n, w
<1>4. \A i \in 0 .. n : at[i] \in Laid(p, c)
  BY <1>2
<1>5. ASSUME NEW i \in 1 .. n
      PROVE  Grows(at[i - 1], at[i])
  <2> DEFINE v == at[i - 1]
  <2>1. i - 1 \in 0 .. n
    BY <1>3
  <2>2. v \in Laid(p, c) /\ at[i] = ApplyClaim(p, v, p.claims[i])
    BY <1>2, <1>4, <2>1
  <2> HIDE DEF v
  <2>3. Grows(v, at[i])
    BY <1>3, <2>2, ApplyGrows
  <2> QED
    BY <2>3 DEF v
<1>6. \A i \in 0 .. n : Grows(at[i], at[n])
  BY <1>3, <1>4, <1>5, GrowsOn
<1>7. 0 \in 0 .. n
  BY <1>3
<1>8. at[0].report.received = at[n].report.received
  BY <1>6, <1>7 DEF Grows
<1> QED
  BY <1>2, <1>8, <1>c, <1>d DEF n

\* "committed" is said of claims when none was put off.
LEMMA StatusMeans ==
  ASSUME NEW w, NEW m, Status(w, m) = "committed", w.report.received # 0
  PROVE  w.report.deferred = 0
<1> DEFINE known     == {r.of : r \in Range(rows)} \cup {r.to : r \in Range(rows)}
           created   == {Thing(x) : x \in w.mentions} \ (known \cup {"", "self"})
           committed == Len(m.ids) + w.report.bound + (IF w.facts = <<>> THEN Cardinality(created) ELSE 0)
           r1 == w.report.received = 0
           r2 == committed > 0 /\ w.report.deferred = 0
           r3 == committed > 0
           r4 == w.report.deferred > 0
           rules == << <<r1, "committed">>, <<r2, "committed">>, <<r3, "partial">>,
                       <<r4, "deferred">>, <<TRUE, "unsupported">> >>
           n == 5
<1>1. Status(w, m) = FirstOf(rules)
  BY Zenon DEF Status
<1>2. ~ r1 /\ (r2 => w.report.deferred = 0)
  OBVIOUS
<1> HIDE DEF r1, r2, r3, r4
<1>3. n \in Nat /\ DOMAIN rules = 1 .. n /\ n \in 1 .. n /\ rules[n][1]
  OBVIOUS
<1>4. /\ rules[1][1] = r1 /\ rules[2][1] = r2 /\ rules[3][2] = "partial" /\ rules[4][2] = "deferred"
      /\ rules[5][2] = "unsupported"
  OBVIOUS
<1> HIDE DEF rules
<1>5. \E k \in 1 .. n : /\ rules[k][1] /\ \A i \in 1 .. k - 1 : ~ rules[i][1]
                        /\ FirstOf(rules) = rules[k][2]
  <2> HIDE DEF n
  <2> QED
    BY <1>3, FirstRule
<1>6. PICK k \in 1 .. n : rules[k][1] /\ rules[k][2] = "committed"
  BY <1>1, <1>5
<1>7. k = 1 \/ k = 2 \/ k = 3 \/ k = 4 \/ k = 5
  OBVIOUS
<1>8. k # 3 /\ k # 4 /\ k # 5
  BY <1>4, <1>6
<1> QED
  BY <1>2, <1>4, <1>6, <1>7, <1>8

\* The claim is of the relation that the utterance itself ends or denies.
Undone(p, f) == /\ p.life \in {"end", "deny"}
                /\ Repeats(<<Fact("relation", p.subject, p.object, p.rel, "", "assert")>>, f)

\* The claim gives a quantity of a class beside an event.
ClassOf(s, f) == /\ f.kind = "measurement" /\ "event" \in s.kinds
                 /\ \E m \in SaidMentions(s.said) : m.text = f.of.text /\ m.ref = "class"

\* The value of the claim f, or one that was told of the same.
ToldValue(p, k, f, v) == v \in {f.val} \cup {g.val : g \in {h \in Besides(p, k) : Repeats(<<h>>, f)}}

\* The row r is of what the claim f is about, and has a value it was given.
KeepsClaim(p, k, f, r) ==
  /\ r.kind = f.kind /\ r.dim = f.dim /\ MayBe(p, f.of, r.of)
  /\ IF f.kind = "relation" THEN MayBe(p, f.to, r.to) ELSE ToldValue(p, k, f, r.val)

LEMMA NoText == NoMention.text = ""
BY DEF NoMention

LEMMA StandsFor ==
  ASSUME NEW p, Shaped(p), NEW m \in Ends(p), m # NoMention, NEW t, t.text = m.text
  PROVE  /\ MayBe(p, t, Thing(m))
         /\ m.ref = "class" => \A x : MayBe(p, t, x)
<1>1. m \in SaidMentions(p) \cup {Self}
  BY DEF Ends
<1>2. m.ref \in {"named", "possessive", "contextual", "class", "self"}
  <2>1. m = Self => m.ref = "self"
    BY DEF Self
  <2>2. ASSUME m \in SaidMentions(p)
        PROVE  m.ref \in {"named", "possessive", "contextual", "class", "self"}
    <3>1. m \in Mention
      BY <2>2, IdentitySaid
    <3> QED
      BY <3>1 DEF Mention
  <2> QED
    BY <1>1, <2>1, <2>2
<1>3. m.ref \notin {"contextual", "class"} => Thing(m) = m.text
  BY <1>2 DEF Thing
<1> QED
  BY <1>1, <1>3 DEF MayBe

\* What was bound and stands for no thing is a class.
LEMMA NoThing ==
  ASSUME NEW p, Shaped(p), NEW w, Bound(w), NEW m \in Ends(p), m # NoMention, m \in w.mentions,
         Thing(m) = ""
  PROVE  m \in SaidMentions(p) /\ m.ref = "class"
<1>1. m # Self
  <2>1. Thing(Self) = "self"
    BY DEF Thing, Self
  <2> QED
    BY <2>1
<1>2. m \in SaidMentions(p)
  BY <1>1 DEF Ends
<1>3. m.text # "" /\ m.ref \in {"named", "possessive", "contextual", "class", "self"}
  <2>1. m \in Mention
    BY <1>2, IdentitySaid
  <2> QED
    BY <2>1 DEF Mention
<1>4. m.ref = "contextual" => focus # ""
  BY DEF Bound
<1> QED
  BY <1>2, <1>3, <1>4 DEF Thing

\* An event is told only of an utterance that is about one.
LEMMA EventTold ==
  ASSUME NEW p, Shaped(p), NEW c, NEW f, Told(p, c, f), f.kind = "event"
  PROVE  c.kind = "event"
<1>1. CASE ToldFirst(p, c, f)
  <2>1. CASE f = Fact("measurement", MeasuredEntity(p), p.context, p.meas.dim, p.meas.val, "assert")
    <3>1. f.kind = "measurement"
      BY <2>1, FactFields
    <3> QED
      BY <3>1
  <2>2. CASE f # Fact("measurement", MeasuredEntity(p), p.context, p.meas.dim, p.meas.val, "assert")
    BY <1>1, <2>2 DEF ToldFirst
  <2> QED
    BY <2>1, <2>2
<1>2. CASE ToldByClaim(p, f)
  <2>1. PICK k \in Explicit(p) : /\ p.claims[k].kind \in {"attribute", "relation", "measurement"}
                                 /\ f = ClaimFact(p, p.claims[k])
    BY <1>2 DEF ToldByClaim
  <2>2. f.kind = p.claims[k].kind
    BY <2>1, ClaimFactShape
  <2> QED
    BY <2>1, <2>2
<1>3. CASE ToldAsOwn(p, f)
  <2>0. PICK m \in Owned(p) : f = Owns(m)
    BY <1>3 DEF ToldAsOwn
  <2>1. f.kind = "relation"
    BY <2>0 DEF Owns, Fact
  <2> QED
    BY <2>1
<1> QED
  BY <1>1, <1>2, <1>3 DEF Told

\* Who and what the fact of a claim is about.
LEMMA ClaimFactEnds ==
  ASSUME NEW p, NEW a
  PROVE  /\ ClaimFact(p, a).of = ClaimSubject(p, a)
         /\ ClaimFact(p, a).kind # "relation" => ClaimFact(p, a).to = NoMention
<1>1. CASE a.kind = "relation"
  BY <1>1 DEF ClaimFact, Fact
<1>2. CASE a.kind # "relation"
  BY <1>2 DEF ClaimFact, Fact
<1> QED
  BY <1>1, <1>2

\* A fact like the claim's tells of what was mentioned, and gives a value that was told.
Backs(p, k, f, h) ==
  /\ h.of \in Ends(p) /\ h.to \in Ends(p)
  /\ h.mode = "beside" => h.kind = "attribute"
  /\ f.kind = "relation" => h.mode = "assert"
  /\ f.kind # "relation" => ToldValue(p, k, f, h.val)

LEMMA BesidesBack ==
  ASSUME NEW p, NEW k, NEW f, NEW g \in Besides(p, k), Alike(g, f)
  PROVE  ToldValue(p, k, f, g.val)
<1>1. Repeats(<<g>>, f)
  BY RepeatsOne
<1> QED
  BY <1>1 DEF ToldValue

\* The fact of an earlier claim, or of the claim itself.
LEMMA ClaimBacks ==
  ASSUME NEW p, Shaped(p), NEW k, Supported(p, k), NEW f, f = ClaimFact(p, p.claims[k]),
         NEW j \in 1 .. k, NEW h, FactOf(p, j, h), Alike(h, f)
  PROVE  Backs(p, k, f, h)
<1>1. j \in Explicit(p) /\ h = ClaimFact(p, p.claims[j])
      /\ p.claims[j].kind \in {"attribute", "relation", "measurement"}
  BY DEF FactOf
<1>2. h.mode = "assert" /\ h.of \in Ends(p) /\ h.to \in Ends(p)
  BY <1>1, ClaimFactShape DEF Ends
<1>3. ToldValue(p, k, f, h.val)
  <2>1. CASE j = k
    BY <1>1, <2>1 DEF ToldValue
  <2>2. CASE j # k
    <3>1. k \in Nat
      BY ShapeFacts, LenProperties DEF Explicit, Supported
    <3>2. j < k
      BY <2>2, <3>1
    <3>3. h \in Besides(p, k)
      BY <1>1, <3>2 DEF Besides
    <3> QED
      BY <3>3, BesidesBack
  <2> QED
    BY <2>1, <2>2
<1> QED
  BY <1>2, <1>3 DEF Backs

\* A fact of the primary part.
LEMMA FirstBacks ==
  ASSUME NEW p, Shaped(p), ~ IsCorrection(p), NEW c, NEW k, NEW f,
         f.kind \in {"attribute", "relation", "measurement"}, ~ Undone(p, f),
         NEW h, ToldFirst(p, c, h), Alike(h, f)
  PROVE  Backs(p, k, f, h)
<1> DEFINE q == Fact("measurement", MeasuredEntity(p), p.context, p.meas.dim, p.meas.val, "assert")
<1>0. h.kind = f.kind /\ h.dim = f.dim /\ h.of.text = f.of.text
      /\ (f.kind = "relation" => h.to.text = f.to.text)
  BY DEF Alike
<1>e. h.of \in Ends(p) /\ h.to \in Ends(p)
  BY ToldEnds DEF Told
<1>1. CASE h = q
  <2> DEFINE g == Fact("measurement", MeasuredEntity(p), NoMention, p.meas.dim, p.meas.val, "assert")
  <2>1. h.kind = "measurement" /\ h.of = MeasuredEntity(p) /\ h.dim = p.meas.dim /\ h.val = p.meas.val
        /\ h.mode = "assert"
    BY <1>1, FactFields
  <2>2. g.kind = "measurement" /\ g.of = MeasuredEntity(p) /\ g.dim = p.meas.dim /\ g.val = p.meas.val
    BY FactFields
  <2>3. g \in Besides(p, k)
    BY DEF Besides
  <2> HIDE DEF g
  <2>4. Alike(g, f)
    BY <1>0, <2>1, <2>2 DEF Alike
  <2>5. ToldValue(p, k, f, g.val)
    BY <2>3, <2>4, BesidesBack
  <2> QED
    BY <1>0, <1>e, <2>1, <2>2, <2>5 DEF Backs
<1>2. CASE h # q
  <2>1. /\ h.kind # "measurement" /\ (h.kind # "event" => h.of = p.subject)
        /\ h.kind = "relation" => h.dim = p.rel /\ h.to = p.object /\ h.mode = RelationMode(p)
        /\ h.kind = "attribute" => Described(p, h)
    BY <1>2, Zenon DEF ToldFirst
  <2>2. h.of = p.subject
    BY <1>0, <2>1
  <2>3. CASE f.kind = "relation"
    <3> DEFINE g == Fact("relation", p.subject, p.object, p.rel, "", "assert")
    <3>1. g.kind = "relation" /\ g.of = p.subject /\ g.to = p.object /\ g.dim = p.rel
      BY DEF Fact
    <3>2. p.life \in {"end", "deny"} => ~ Repeats(<<g>>, f)
      BY DEF Undone
    <3> HIDE DEF g
    <3>3. Alike(g, f)
      BY <1>0, <2>1, <2>2, <2>3, <3>1 DEF Alike
    <3>4. p.life # "end" /\ p.life # "deny"
      BY <3>2, <3>3, RepeatsOne
    <3>5. RelationMode(p) = "assert"
      BY <3>4 DEF RelationMode
    <3> QED
      BY <1>0, <1>e, <2>1, <2>3, <3>5 DEF Backs
  <2>4. CASE f.kind = "attribute"
    <3> DEFINE v == [dim |-> h.dim, val |-> h.val]
               g == Fact("attribute", p.subject, NoMention, v.dim, v.val, "assert")
    <3>1. v \in {p.attr} \cup Range(p.beside)
      BY <1>0, <2>1, <2>4 DEF Described
    <3>2. g.kind = "attribute" /\ g.of = p.subject /\ g.dim = h.dim /\ g.val = h.val
      BY FactFields
    <3>3. g \in Besides(p, k)
      <4> HIDE DEF v
      <4> QED
        BY <3>1 DEF Besides
    <3> HIDE DEF g
    <3>4. Alike(g, f)
      BY <1>0, <2>2, <2>4, <3>2 DEF Alike
    <3>5. ToldValue(p, k, f, g.val)
      BY <3>3, <3>4, BesidesBack
    <3> QED
      BY <1>0, <1>e, <2>4, <3>2, <3>5 DEF Backs
  <2> QED
    BY <1>0, <2>1, <2>3, <2>4
<1> QED
  BY <1>1, <1>2

\* The fact of a claim names what it is about.
LEMMA ClaimNames ==
  ASSUME NEW p, Shaped(p), NEW k, Supported(p, k), Buildable(p, p.claims[k]),
         NEW f, f = ClaimFact(p, p.claims[k])
  PROVE  /\ f.kind \in {"attribute", "relation", "measurement"} /\ f.dim # "name"
         /\ f.of.text # "" /\ (f.kind = "relation" => f.to.text # "")
<1>1. k \in Explicit(p) /\ p.claims[k].dim # "name"
      /\ p.claims[k].kind \in {"attribute", "relation", "measurement"}
  BY DEF Supported
<1>2. f.kind = p.claims[k].kind /\ f.dim = p.claims[k].dim
      /\ f.of \in SaidMentions(p) \cup {NoMention} /\ f.to \in SaidMentions(p) \cup {NoMention}
  BY <1>1, ClaimFactShape
<1>3. f.of # NoMention
  BY ClaimFactEnds DEF Buildable
<1>4. f.kind = "relation" => f.to # NoMention
  <2> SUFFICES ASSUME f.kind = "relation"
               PROVE  f.to # NoMention
    OBVIOUS
  <2>1. p.claims[k].kind = "relation"
    BY <1>2
  <2>2. f.to = ClaimObject(p, p.claims[k])
    BY <2>1 DEF ClaimFact, Fact
  <2> QED
    BY <2>1, <2>2 DEF Buildable
<1>5. ASSUME NEW m \in SaidMentions(p), m # NoMention
      PROVE  m.text # ""
  <2>1. m \in Mention
    BY IdentitySaid
  <2> QED
    BY <1>5, <2>1 DEF Mention
<1> QED
  BY <1>1, <1>2, <1>3, <1>4, <1>5

\* A fact like the claim's is written.
LEMMA LikeDue ==
  ASSUME NEW p, Shaped(p), NEW s, s.said = p, NEW c, c.kind \in s.kinds, NEW w, Woven(p, c, w), Bound(w),
         NEW k, NEW f, f.dim # "name", f.of.text # "", ~ ClassOf(s, f),
         NEW h, Alike(h, f), Backs(p, k, f, h), h.of \in w.mentions
  PROVE  Due(h, w)
<1>1. h.kind = f.kind /\ h.dim = f.dim /\ h.of.text = f.of.text
  BY DEF Alike
<1>2. h.of \in Ends(p) /\ (f.kind = "relation" => h.mode = "assert")
  BY DEF Backs
<1>3. h.of # NoMention
  BY <1>1, NoText, Zenon
<1>4. ASSUME h.kind = "measurement", Unplaced(h, w), NEW g \in Range(w.facts), g.kind = "event"
      PROVE  FALSE
  <2>1. Thing(h.of) = ""
    BY <1>4 DEF Unplaced
  <2>2. h.of \in SaidMentions(p) /\ h.of.ref = "class"
    BY <1>2, <1>3, <2>1, NoThing
  <2>3. c.kind = "event"
    BY <1>4, FactKinds, EventTold
  <2> QED
    BY <1>1, <1>4, <2>2, <2>3 DEF ClassOf
<1> QED
  BY <1>1, <1>2, <1>4 DEF Due

\* What a fact like the claim's leaves keeps the claim.
LEMMA LikeKeeps ==
  ASSUME NEW p, Shaped(p), NEW w, Bound(w), NEW k, NEW f, f.of.text # "",
         f.kind \in {"attribute", "relation", "measurement"}, f.kind = "relation" => f.to.text # "",
         NEW h, Alike(h, f), Backs(p, k, f, h), h.of \in w.mentions,
         NEW r, RowTells(h, p, w, r)
  PROVE  KeepsClaim(p, k, f, r)
<1>1. h.kind = f.kind /\ h.dim = f.dim /\ h.of.text = f.of.text
      /\ (f.kind = "relation" => h.to.text = f.to.text)
  BY DEF Alike
<1>2. h.of \in Ends(p) /\ h.to \in Ends(p) /\ (f.kind # "relation" => ToldValue(p, k, f, h.val))
  BY DEF Backs
<1>3. h.of # NoMention /\ (f.kind = "relation" => h.to # NoMention)
  BY <1>1, NoText
<1>4. /\ r.kind = h.kind /\ r.dim = h.dim /\ (h.kind # "relation" => r.val = h.val)
      /\ SubjectOf(h, p, w, r.of) /\ ObjectOf(h, r.to)
  BY DEF RowTells
<1>5. MayBe(p, f.of, r.of)
  <2>1. CASE r.of = Thing(h.of)
    BY <1>1, <1>2, <1>3, <2>1, StandsFor
  <2>2. CASE r.of # Thing(h.of)
    <3>1. Unplaced(h, w)
      BY <1>1, <1>4, <2>2 DEF SubjectOf
    <3>2. h.of.ref = "class"
      BY <1>2, <1>3, <3>1, NoThing DEF Unplaced
    <3>3. f.of.text = h.of.text
      BY <1>1
    <3> QED
      BY <1>2, <1>3, <3>2, <3>3, StandsFor
  <2> QED
    BY <2>1, <2>2
<1>6. f.kind = "relation" => MayBe(p, f.to, r.to)
  <2> SUFFICES ASSUME f.kind = "relation"
               PROVE  MayBe(p, f.to, r.to)
    OBVIOUS
  <2>1. r.to = Thing(h.to) /\ f.to.text = h.to.text /\ h.to # NoMention
    BY <1>1, <1>3, <1>4 DEF ObjectOf
  <2>2. MayBe(p, f.to, Thing(h.to))
    BY <1>2, <2>1, StandsFor
  <2> QED
    BY <2>1, <2>2
<1>7. f.kind # "relation" => ToldValue(p, k, f, r.val)
  BY <1>1, <1>2, <1>4
<1> QED
  BY <1>1, <1>4, <1>5, <1>6, <1>7 DEF KeepsClaim

\* A claim that the user was told is committed.
LEMMA ClaimWritten ==
  ASSUME NEW p, NEW n, WriteTurn(p, n), heard'.status = "committed", NEW k, Supported(p, k),
         NEW f, f = ClaimFact(p, p.claims[k]), ~ Undone(p, f), ~ ClassOf(Reading(p), f)
  PROVE  \E i \in Range(n.ids) : KeepsClaim(p, k, f, n.rows[i])
<1> DEFINE s == Reading(p)
           c == ResolveConcept(p, Route(p))
           w == Overlay(p, c)
           x == Applied(p, Bare(p, c))
<1>1. /\ Shaped(p) /\ Final(p, s.wire, n) /\ ~ n.denied /\ ~ s.corrects
      /\ Bound(s.wire) /\ Status(s.wire, n) = "committed"
  BY VerdictMeans DEF WriteTurn
<1>2. /\ s.said = p /\ ~ IsCorrection(p) /\ s.wire = Wire(p, c) /\ s.kinds = Assertions(p, c.kind)
  BY <1>1, ReadingFields
<1>3. s.wire = w /\ c.kind \in s.kinds
  BY <1>2 DEF Wire, Assertions
<1>4. /\ Woven(p, c, w) /\ w.report = x.report /\ x.mentions \subseteq w.mentions
      /\ \A g \in Range(x.facts) : g \in Range(w.facts)
      /\ HasAttribute(w.facts) => \A g \in Range(w.facts) : g.mode = "beside" => g.of \in w.mentions
  BY <1>1, <1>2, OverlayWoven
<1>5. w.report.received # 0
  <2>1. w.report.received = Len(p.claims)
    BY <1>1, <1>2, AllReceived
  <2>2. p.claims \in Seq(Claim) /\ k \in DOMAIN p.claims
    BY <1>1, ShapeFacts DEF Supported, Explicit
  <2>3. Len(p.claims) # 0
    BY <2>2, LenProperties
  <2> QED
    BY <2>1, <2>3
<1>6. x.report.deferred = 0
  BY <1>1, <1>3, <1>4, <1>5, StatusMeans
<1>7. Standing(p, c, k, x)
  BY <1>1, <1>2, <1>6, ClaimStands
<1>d. ~ ClassOf(s, f)
  OBVIOUS
<1> HIDE DEF s, c, w, x
<1>8. PICK h \in Range(x.facts) : Alike(h, f) /\ Grounded(h, x) /\ From(p, c, k, h)
  BY <1>7 DEF Standing
<1>9. /\ f.kind \in {"attribute", "relation", "measurement"} /\ f.dim # "name"
      /\ f.of.text # "" /\ (f.kind = "relation" => f.to.text # "")
  BY <1>1, <1>7, ClaimNames DEF Standing
<1>10. Backs(p, k, f, h)
  <2>1. CASE h \in Range(BareFacts(p, c))
    <3>1. ToldFirst(p, c, h)
      BY <1>1, <1>2, <2>1, BareShape
    <3>2. /\ Shaped(p) /\ ~ IsCorrection(p) /\ f.kind \in {"attribute", "relation", "measurement"}
          /\ ~ Undone(p, f) /\ Alike(h, f)
      BY <1>1, <1>2, <1>8, <1>9
    <3> QED
      BY <3>1, <3>2, FirstBacks
  <2>2. ASSUME NEW j \in 1 .. k, FactOf(p, j, h)
        PROVE  Backs(p, k, f, h)
    BY <1>1, <1>8, <2>2, ClaimBacks
  <2> QED
    BY <1>8, <2>1, <2>2 DEF From
<1>11. h \in Range(w.facts)
  BY <1>4
<1>12. h.of \in w.mentions
  <2>1. h.of # NoMention
    <3>1. h.of.text # ""
      BY <1>8, <1>9 DEF Alike
    <3> QED
      BY <3>1, NoText, Zenon
  <2>2. CASE h.mode # "beside"
    BY <1>4, <1>8, <2>1, <2>2 DEF Grounded
  <2>3. CASE h.mode = "beside"
    <3>1. HasAttribute(x.facts)
      BY <1>8, <1>10, <2>3 DEF Grounded, Backs
    <3>2. HasAttribute(w.facts)
      BY <1>4, <3>1, AttributeStays
    <3> QED
      BY <1>4, <1>11, <2>3, <3>2
  <2> QED
    BY <2>2, <2>3
<1>13. Due(h, w)
  BY <1>1, <1>2, <1>3, <1>4, <1>8, <1>9, <1>10, <1>12, <1>d, LikeDue
<1>14. PICK i \in Range(n.ids) : RowTells(h, p, w, n.rows[i])
  BY <1>1, <1>3, <1>11, <1>13 DEF Final, Left
<1>15. KeepsClaim(p, k, f, n.rows[i])
  BY <1>1, <1>3, <1>8, <1>9, <1>10, <1>12, <1>14, LikeKeeps
<1> QED
  BY <1>15

\* The claims of s that were to be written are kept by the rows of R at the positions I.
ClaimsTold(s, status, I, R) ==
  status = "committed" /\ ~ s.corrects =>
    \A k \in Explicit(s.said) :
      LET f == ClaimFact(s.said, s.said.claims[k]) IN
      f.kind \in {"attribute", "measurement", "relation"} /\ f.dim # "name"
        /\ ~ Undone(s.said, f) /\ ~ ClassOf(s, f)
        => \E r \in {R[i] : i \in I} : KeepsClaim(s.said, k, f, r)

LEMMA ClaimsMean == KeptOrTold <=> ClaimsTold(heard.of, heard.status, heard.wrote, rows)
BY Zenon DEF KeptOrTold, ClaimsTold, Undone, ClassOf, KeepsClaim, ToldValue, Wrote

LEMMA ClaimsMeanNext == KeptOrTold' <=> ClaimsTold(heard'.of, heard'.status, heard'.wrote, rows')
BY Zenon DEF KeptOrTold, ClaimsTold, Undone, ClassOf, KeepsClaim, ToldValue, Wrote

\* The kind and the dimension of a claim are those of its fact.
LEMMA FactSupported ==
  ASSUME NEW p, Shaped(p), NEW k \in Explicit(p), NEW f, f = ClaimFact(p, p.claims[k]),
         f.kind \in {"attribute", "measurement", "relation"}, f.dim # "name"
  PROVE  Supported(p, k)
<1>1. f.kind = p.claims[k].kind /\ f.dim = p.claims[k].dim
  BY DEF ClaimFact, Fact
<1> QED
  BY <1>1 DEF Supported

LEMMA ClaimsStep ==
  ASSUME TurnsInv, KeptOrTold, [ProposalNext]_proposalVars
  PROVE  KeptOrTold'
<1> DEFINE Fine == ClaimsTold(heard'.of, heard'.status, heard'.wrote, rows')
<1>1. Fine => KeptOrTold'
  BY ClaimsMeanNext
<1>2. CASE UNCHANGED proposalVars
  <2>1. heard' = heard /\ rows' = rows
    BY <1>2 DEF proposalVars
  <2>2. ClaimsTold(heard.of, heard.status, heard.wrote, rows)
    BY ClaimsMean
  <2>3. Fine
    BY <2>1, <2>2
  <2> QED
    BY <1>1, <2>3
<1>3. CASE ProposalNext
  <2>1. Turned
    BY <1>3, TurnsInvStep
  <2>2. CASE QuietTurn
    <3>1. heard'.status # "committed"
      BY <2>2 DEF QuietTurn
    <3>2. Fine
      BY <3>1 DEF ClaimsTold
    <3> QED
      BY <1>1, <3>2
  <2>3. ASSUME heard'.of.corrects
        PROVE  Fine
    BY <2>3 DEF ClaimsTold
  <2>4. ASSUME NEW p, NEW n, WriteTurn(p, n)
        PROVE  Fine
    <3>1. heard'.of = Reading(p) /\ heard'.wrote = Range(n.ids) /\ rows' = n.rows /\ Shaped(p)
      BY <2>4 DEF WriteTurn
    <3>2. heard'.of.said = p
      BY <3>1, ReadingFields
    <3>3. ASSUME heard'.status = "committed", NEW k \in Explicit(p), NEW f, f = ClaimFact(p, p.claims[k]),
                 f.kind \in {"attribute", "measurement", "relation"}, f.dim # "name",
                 ~ Undone(p, f), ~ ClassOf(heard'.of, f)
          PROVE  \E r \in {rows'[i] : i \in heard'.wrote} : KeepsClaim(p, k, f, r)
      <4>1. Supported(p, k)
        BY <3>1, <3>3, FactSupported
      <4>2. \E i \in Range(n.ids) : KeepsClaim(p, k, f, n.rows[i])
        BY <2>4, <3>1, <3>3, <4>1, ClaimWritten
      <4> QED
        BY <3>1, <4>2
    <3> QED
      BY <3>2, <3>3, Zenon DEF ClaimsTold
  <2>5. (\E p, k : RetractTurn(p, k)) \/ (\E p, n, k : ReplaceTurn(p, n, k)) => heard'.of.corrects
    BY DEF RetractTurn, ReplaceTurn
  <2> HIDE DEF Fine
  <2> QED
    BY <1>1, <2>1, <2>2, <2>3, <2>4, <2>5 DEF Turned
<1> QED
  BY <1>2, <1>3

\* The user is told "committed" only when for every explicit claim the overlay supports a row was
\* written in that turn, of the thing it is about, with its value or one that was told of the same
\* before it, but for the two that the code drops.  The tally (claims.py) and the status
\* (results.py) are computed apart from the writes they count.
THEOREM ClaimsKept == ProposalSpec => []KeptOrTold
<1>1. ProposalInit => KeptOrTold
  <2>1. ProposalInit => heard.status = "none"
    <3>1. ProposalInit => heard = [of |-> Silence, status |-> "none", wrote |-> {}, answering |-> FALSE]
      BY Zenon DEF ProposalInit
    <3> QED
      BY <3>1
  <2>2. heard.status = "none" => KeptOrTold
    <3>1. heard.status = "none" => ClaimsTold(heard.of, heard.status, heard.wrote, rows)
      BY DEF ClaimsTold
    <3> QED
      BY <3>1, ClaimsMean
  <2> QED
    BY <2>1, <2>2
<1>2. TurnsInv /\ KeptOrTold /\ [ProposalNext]_proposalVars => KeptOrTold'
  BY ClaimsStep
<1> QED
  BY <1>1, <1>2, ProposalInvariant, PTL DEF ProposalSpec

===============================================================================
