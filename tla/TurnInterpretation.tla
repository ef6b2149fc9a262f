-------------------------- MODULE TurnInterpretation --------------------------
(***************************************************************************)
(* How a turn gets its interpretation.  EngineGateway.process asks the     *)
(* TurnCachedInterpreter twice: once to choose between IngestService and   *)
(* AskService, once more when that service interprets the same text.  One  *)
(* TurnCachedInterpreter, around one DeepSeekInterpreter, is built for the *)
(* process and shared by all request threads, without a lock, so each      *)
(* attribute read or write is a step.                                      *)
(*                                                                         *)
(* An interpretation is abstracted to the turn it was made from: its text, *)
(* and the user whose discourse context went into the prompt.              *)
(***************************************************************************)
EXTENDS ProviderReplies, Naturals

CONSTANTS
  Threads, UserTexts, Users,
  None,          \* Python's None
  MaxAttempts    \* RetryPolicy.max_attempts

ASSUME MaxAttemptsAssumption == MaxAttempts \in {1, 2}

VARIABLES
  cachedRaw,       \* TurnCachedInterpreter._cached_raw
  cachedResult,    \* TurnCachedInterpreter._cached_result
  lastContent,     \* DeepSeekInterpreter.last_raw_content
  pc,
  task,            \* what each thread was asked
  stage,           \* 1: process itself, 2: IngestService or AskService
  interpretation,  \* what is in the thread's hands
  calls,           \* calls of DeepSeekInterpreter.interpret in the turn
  attempt,         \* provider attempts of the current call
  used,            \* the interpretation the service executed
  dump,            \* the proposal a pending operation was made from
  overlapped       \* history: the threads whose turn ran beside another one

shared == <<cachedRaw, cachedResult, lastContent>>
interpretationVars ==
  <<shared, pc, task, stage, interpretation, calls, attempt, used, dump, overlapped>>

Turns == [text : UserTexts, user : Users]

ASSUME NoneAssumption == None \notin UserTexts \cup Turns

Steps == {"idle", "clearRaw", "clearResult", "lookup", "lookupResult", "hit",
          "inner", "provider", "storeRaw", "storeResult", "return", "dump"}

InterpretationTypeOK ==
  /\ cachedRaw \in UserTexts \cup {None}
  /\ cachedResult \in Turns \cup {None}
  /\ lastContent \in Turns \cup {None}
  /\ pc \in [Threads -> Steps]
  /\ task \in [Threads -> Turns]
  /\ stage \in [Threads -> {1, 2}]
  /\ interpretation \in [Threads -> Turns \cup {None}]
  /\ calls \in [Threads -> 0 .. 2]
  /\ attempt \in [Threads -> 0 .. MaxAttempts]
  /\ used \in [Threads -> Turns \cup {None}]
  /\ dump \in [Threads -> Turns \cup {None}]
  /\ overlapped \subseteq Threads

InterpretationInit ==
  /\ cachedRaw = None /\ cachedResult = None /\ lastContent = None
  /\ pc = [t \in Threads |-> "idle"]
  /\ task \in [Threads -> Turns]
  /\ stage = [t \in Threads |-> 1]
  /\ interpretation = [t \in Threads |-> None]
  /\ calls = [t \in Threads |-> 0]
  /\ attempt = [t \in Threads |-> 0]
  /\ used = [t \in Threads |-> None]
  /\ dump = [t \in Threads |-> None]
  /\ overlapped = {}

Goto(t, step) == pc' = [pc EXCEPT ![t] = step]
At(t, step, next) == pc[t] = step /\ Goto(t, next)

Running == {t \in Threads : pc[t] # "idle"}

\* A turn that begins while others run overlaps them, and they it.
MarkOverlap(t) ==
  overlapped' = IF Running = {} THEN overlapped \ {t}
                                ELSE overlapped \cup Running \cup {t}

-----------------------------------------------------------------------------
(* Faulty variants of actions below, for mutation runs.                    *)

\* The interpretation is returned without being kept.
ResultNotStored(t) ==
  /\ At(t, "storeResult", "return")
  /\ UNCHANGED <<shared, task, stage, interpretation, calls, attempt, used, dump, overlapped>>

\* A pending operation is made from the last content after any failure.
AnyFailureDumps(t, r) ==
  /\ pc[t] = "provider"
  /\ lastContent' = IF HasContent(r) THEN task[t] ELSE lastContent
  /\ IF Accepted(r)
       THEN Goto(t, "storeRaw") /\ interpretation' = [interpretation EXCEPT ![t] = task[t]]
       ELSE Goto(t, "dump") /\ UNCHANGED interpretation
  /\ UNCHANGED <<cachedRaw, cachedResult, task, stage, calls, attempt, used,
                 dump, overlapped>>

-----------------------------------------------------------------------------
(* EngineGateway.process.                                                  *)

BeginTurn(t, m) ==
  /\ At(t, "idle", "clearRaw")
  /\ MarkOverlap(t)
  /\ task' = [task EXCEPT ![t] = m]
  /\ stage' = [stage EXCEPT ![t] = 1]
  /\ calls' = [calls EXCEPT ![t] = 0]
  /\ attempt' = [attempt EXCEPT ![t] = 0]
  /\ interpretation' = [interpretation EXCEPT ![t] = None]
  /\ used' = [used EXCEPT ![t] = None]
  /\ dump' = [dump EXCEPT ![t] = None]
  /\ UNCHANGED shared

\* self._interpreter.clear()
ClearRaw(t) ==
  /\ At(t, "clearRaw", "clearResult")
  /\ cachedRaw' = None
  /\ UNCHANGED <<cachedResult, lastContent, task, stage, interpretation, calls,
                 attempt, used, dump, overlapped>>

ClearResult(t) ==
  /\ At(t, "clearResult", "lookup")
  /\ cachedResult' = None
  /\ UNCHANGED <<cachedRaw, lastContent, task, stage, interpretation, calls, attempt,
                 used, dump, overlapped>>

\* The first answer picks the service; the second is what it executes.
Return(t) ==
  /\ pc[t] = "return"
  /\ \/ /\ stage[t] = 1
        /\ stage' = [stage EXCEPT ![t] = 2]
        /\ Goto(t, "lookup")
        /\ UNCHANGED used
     \/ /\ stage[t] = 2
        /\ used' = [used EXCEPT ![t] = interpretation[t]]
        /\ Goto(t, "idle")
        /\ UNCHANGED stage
  /\ UNCHANGED <<shared, task, interpretation, calls, attempt, dump, overlapped>>

\* _proposal_dump_from_interpreter, for an execution_incomplete error.
TakeDump(t) ==
  /\ At(t, "dump", "idle")
  /\ dump' = [dump EXCEPT ![t] = lastContent]
  /\ UNCHANGED <<shared, task, stage, interpretation, calls, attempt, used, overlapped>>

-----------------------------------------------------------------------------
(* TurnCachedInterpreter.interpret.                                        *)

LookupRaw(t) ==
  /\ pc[t] = "lookup"
  /\ Goto(t, IF cachedRaw = task[t].text THEN "lookupResult" ELSE "inner")
  /\ UNCHANGED <<shared, task, stage, interpretation, calls, attempt, used, dump, overlapped>>

LookupResult(t) ==
  /\ pc[t] = "lookupResult"
  /\ Goto(t, IF cachedResult # None THEN "hit" ELSE "inner")
  /\ UNCHANGED <<shared, task, stage, interpretation, calls, attempt, used, dump, overlapped>>

Hit(t) ==
  /\ At(t, "hit", "return")
  /\ interpretation' = [interpretation EXCEPT ![t] = cachedResult]
  /\ UNCHANGED <<shared, task, stage, calls, attempt, used, dump, overlapped>>

StoreRaw(t) ==
  /\ At(t, "storeRaw", "storeResult")
  /\ cachedRaw' = task[t].text
  /\ UNCHANGED <<cachedResult, lastContent, task, stage, interpretation, calls,
                 attempt, used, dump, overlapped>>

StoreResult(t) ==
  /\ At(t, "storeResult", "return")
  /\ cachedResult' = interpretation[t]
  /\ UNCHANGED <<cachedRaw, lastContent, task, stage, interpretation, calls, attempt,
                 used, dump, overlapped>>

-----------------------------------------------------------------------------
(* DeepSeekInterpreter.interpret: at most MaxAttempts provider calls.      *)

CallInner(t) ==
  /\ At(t, "inner", "provider")
  /\ calls' = [calls EXCEPT ![t] = @ + 1]
  /\ attempt' = [attempt EXCEPT ![t] = 1]
  /\ UNCHANGED <<shared, task, stage, interpretation, used, dump, overlapped>>

\* Each attempt's content replaces the last one.  Only the failure of the
\* first interpretation is turned into a pending operation.
Provider(t, r) ==
  LET retry == Retryable(r) /\ attempt[t] < MaxAttempts
  IN  /\ pc[t] = "provider"
      /\ lastContent' = IF HasContent(r) THEN task[t] ELSE lastContent
      /\ attempt' = IF retry THEN [attempt EXCEPT ![t] = @ + 1] ELSE attempt
      /\ interpretation' = IF Accepted(r) THEN [interpretation EXCEPT ![t] = task[t]]
                                          ELSE interpretation
      /\ Goto(t, CASE retry -> "provider"
                   [] Accepted(r) -> "storeRaw"
                   [] Incomplete(r) /\ stage[t] = 1 -> "dump"
                   [] OTHER -> "idle")
      /\ UNCHANGED <<cachedRaw, cachedResult, task, stage, calls, used, dump, overlapped>>

-----------------------------------------------------------------------------
InterpretationNext ==
  \E t \in Threads :
    \/ \E m \in Turns : BeginTurn(t, m)
    \/ ClearRaw(t)
    \/ ClearResult(t)
    \/ LookupRaw(t)
    \/ LookupResult(t)
    \/ Hit(t)
    \/ CallInner(t)
    \/ \E r \in Replies : Provider(t, r)
    \/ StoreRaw(t)
    \/ StoreResult(t)
    \/ Return(t)
    \/ TakeDump(t)

InterpretationSpec == InterpretationInit /\ [][InterpretationNext]_interpretationVars

-----------------------------------------------------------------------------
(* Properties.                                                             *)

Own(x, t) == x # None => x = task[t]

\* A turn that ran beside no other executes an interpretation made from its
\* own text and for its own user, whatever overlapping and failed turns before
\* it have left in the cache; and a clarification of such a turn resumes the
\* proposal of that turn, never content left over by an earlier turn or
\* attempt.  Of overlapping turns it is not true: threads share the cache,
\* which compares texts only.
OwnUnlessOverlapped ==
  \A t \in Threads \ overlapped : Own(used[t], t) /\ Own(dump[t], t)

\* The second question of such a turn is answered from the cache, also after
\* attempts that failed (engine_gateway.py: "Evita segunda chamada ao
\* interpreter no mesmo turno").
OneInterpretation == \A t \in Threads \ overlapped : calls[t] <= 1
===============================================================================
