---------------------------- MODULE AnswersProofs ----------------------------
(***************************************************************************)
(* Theorems about the way from a text to its answer.  TurnInterpretation:  *)
(* a turn that no other overlaps is interpreted once and executes what was *)
(* made of its own text.  TemporalAnswers: what is answered about a range  *)
(* of time was so, although no answer looks at the true instants.          *)
(* AnswerTurns: a reply keeps the status of the engine's answer, and a yes *)
(* or a no rests on what is stored.  The three share no variable; each has *)
(* its own inductive invariant.                                            *)
(***************************************************************************)
EXTENDS TurnInterpretation, TemporalAnswers, AnswerTurns, FiniteSetTheorems,
        WellFoundedInduction, TLAPS

-----------------------------------------------------------------------------
(* TurnInterpretation: type correctness.                                   *)

LEMMA InitTypeOK == InterpretationInit => InterpretationTypeOK
  BY MaxAttemptsAssumption DEF InterpretationInit, InterpretationTypeOK, Steps

\* A second call happens in the second stage, whose lookup missed; a third
\* never: what the calls of a turn are bounded by.
CallsFit ==
  \A t \in Threads :
    /\ pc[t] \in {"clearRaw", "clearResult"} => stage[t] = 1
    /\ stage[t] = 1 => calls[t] <= 1
    /\ stage[t] = 1 /\ pc[t] \in {"clearRaw", "clearResult", "lookup",
                                  "lookupResult", "hit", "inner"} => calls[t] = 0
    /\ stage[t] = 2 /\ pc[t] \in {"lookup", "lookupResult", "hit", "inner"} => calls[t] <= 1

TypeInv == InterpretationTypeOK /\ CallsFit

LEMMA InitTypeInv == InterpretationInit => TypeInv
  BY InitTypeOK DEF TypeInv, InterpretationInit, CallsFit

LEMMA NextTypeInv == TypeInv /\ [InterpretationNext]_interpretationVars => TypeInv'
  <1> SUFFICES ASSUME TypeInv, [InterpretationNext]_interpretationVars PROVE TypeInv'
    OBVIOUS
  <1> USE DEF TypeInv, InterpretationTypeOK, CallsFit, Steps, Goto, At, shared
  <1>1. ASSUME NEW t \in Threads, NEW m \in Turns, BeginTurn(t, m) PROVE TypeInv'
    <2>1. overlapped' \subseteq Threads
      BY <1>1 DEF BeginTurn, MarkOverlap, Running
    <2>2. InterpretationTypeOK'
      BY <1>1, <2>1, MaxAttemptsAssumption DEF BeginTurn
    <2>3. CallsFit'
      BY <1>1 DEF BeginTurn
    <2>4. QED
      BY <2>2, <2>3
  <1>2. ASSUME NEW t \in Threads, ClearRaw(t) PROVE TypeInv'
    BY <1>2 DEF ClearRaw
  <1>3. ASSUME NEW t \in Threads, ClearResult(t) PROVE TypeInv'
    BY <1>3 DEF ClearResult
  <1>4. ASSUME NEW t \in Threads, LookupRaw(t) PROVE TypeInv'
    BY <1>4 DEF LookupRaw
  <1>5. ASSUME NEW t \in Threads, LookupResult(t) PROVE TypeInv'
    BY <1>5 DEF LookupResult
  <1>6. ASSUME NEW t \in Threads, Hit(t) PROVE TypeInv'
    BY <1>6 DEF Hit
  <1>7. ASSUME NEW t \in Threads, CallInner(t) PROVE TypeInv'
    BY <1>7, MaxAttemptsAssumption DEF CallInner
  <1>8. ASSUME NEW t \in Threads, NEW r \in Replies, Provider(t, r) PROVE TypeInv'
    <2>1. attempt' \in [Threads -> 0 .. MaxAttempts]
      BY <1>8, MaxAttemptsAssumption DEF Provider
    <2>2. pc'[t] \in {"provider", "storeRaw", "dump", "idle"}
      BY <1>8 DEF Provider
    <2>3. pc' = [pc EXCEPT ![t] = pc'[t]]
      BY <1>8 DEF Provider
    <2>4. QED
      BY <1>8, <2>1, <2>2, <2>3 DEF Provider
  <1>9. ASSUME NEW t \in Threads, StoreRaw(t) PROVE TypeInv'
    BY <1>9 DEF StoreRaw, Turns
  <1>10. ASSUME NEW t \in Threads, StoreResult(t) PROVE TypeInv'
    BY <1>10 DEF StoreResult
  <1>11. ASSUME NEW t \in Threads, Return(t) PROVE TypeInv'
    BY <1>11 DEF Return
  <1>12. ASSUME NEW t \in Threads, TakeDump(t) PROVE TypeInv'
    BY <1>12 DEF TakeDump
  <1>13. CASE UNCHANGED interpretationVars
    BY <1>13 DEF interpretationVars
  <1> HIDE DEF TypeInv, InterpretationTypeOK, CallsFit, Steps, Goto, At, shared
  <1>14. QED
    BY <1>1, <1>2, <1>3, <1>4, <1>5, <1>6, <1>7, <1>8, <1>9, <1>10, <1>11,
       <1>12, <1>13 DEF InterpretationNext

\* The cache and what the threads hold stay within their types; in particular
\* a turn never asks the provider's interpreter more than twice.
THEOREM TypeCorrect == InterpretationSpec => []InterpretationTypeOK
  <1>1. TypeInv => InterpretationTypeOK
    BY DEF TypeInv
  <1>2. QED
    BY <1>1, InitTypeInv, NextTypeInv, PTL DEF InterpretationSpec

-----------------------------------------------------------------------------
(* TurnInterpretation: the inductive invariant.                            *)

Lone(t) == t \in Threads \ overlapped /\ pc[t] # "idle"

\* Who is not marked as overlapped runs alone.
LoneIsAlone == \A t, u \in Threads : Lone(t) /\ u # t => pc[u] = "idle"

\* What such a turn finds in the cache: nothing until it has stored its own
\* interpretation, and that from then on.
CacheOf(t) ==
  /\ pc[t] = "clearResult" => cachedRaw = None
  /\ pc[t] = "lookup" /\ stage[t] = 1 => cachedRaw = None
  /\ pc[t] \in {"storeResult", "return"} \/ stage[t] = 2 => cachedRaw = task[t].text
  /\ pc[t] = "return" \/ stage[t] = 2 => cachedResult = task[t]

\* What it holds itself, and where it can be.
HandsOf(t) ==
  /\ pc[t] \in {"storeRaw", "storeResult", "return"} => interpretation[t] = task[t]
  /\ pc[t] = "dump" => lastContent = task[t]
  /\ stage[t] = 1 => pc[t] \notin {"lookupResult", "hit"}
  /\ stage[t] = 2 => pc[t] \in {"lookup", "lookupResult", "hit", "return"}
  /\ calls[t] <= 1

LoneInv ==
  /\ LoneIsAlone
  /\ \A t \in Threads : Lone(t) => CacheOf(t) /\ HandsOf(t)
  /\ OwnUnlessOverlapped
  /\ OneInterpretation

LEMMA InitLoneInv == InterpretationInit => LoneInv
  BY DEF InterpretationInit, LoneInv, LoneIsAlone, Lone, OwnUnlessOverlapped, Own,
     OneInterpretation

LEMMA NextLoneInv == TypeInv /\ LoneInv /\ [InterpretationNext]_interpretationVars => LoneInv'
  <1> SUFFICES ASSUME TypeInv, LoneInv, [InterpretationNext]_interpretationVars PROVE LoneInv'
    OBVIOUS
  <1> USE NoneAssumption
      DEF TypeInv, InterpretationTypeOK, CallsFit, LoneInv, LoneIsAlone, Lone, CacheOf, HandsOf,
          OwnUnlessOverlapped, Own, OneInterpretation, Goto, At, shared
  <1>1. ASSUME NEW t \in Threads, NEW m \in Turns, BeginTurn(t, m) PROVE LoneInv'
    BY <1>1 DEF BeginTurn, MarkOverlap, Running
  <1>2. ASSUME NEW t \in Threads, ClearRaw(t) PROVE LoneInv'
    BY <1>2 DEF ClearRaw
  <1>3. ASSUME NEW t \in Threads, ClearResult(t) PROVE LoneInv'
    BY <1>3 DEF ClearResult
  <1>4. ASSUME NEW t \in Threads, LookupRaw(t) PROVE LoneInv'
    <2>1. task[t].text \in UserTexts
      BY DEF Turns
    <2>2. QED
      BY <1>4, <2>1 DEF LookupRaw
  <1>5. ASSUME NEW t \in Threads, LookupResult(t) PROVE LoneInv'
    BY <1>5 DEF LookupResult
  <1>6. ASSUME NEW t \in Threads, Hit(t) PROVE LoneInv'
    BY <1>6 DEF Hit
  <1>7. ASSUME NEW t \in Threads, CallInner(t) PROVE LoneInv'
    BY <1>7 DEF CallInner
  <1>8. ASSUME NEW t \in Threads, NEW r \in Replies, Provider(t, r) PROVE LoneInv'
    BY <1>8 DEF Provider, Accepted, Incomplete
  <1>9. ASSUME NEW t \in Threads, StoreRaw(t) PROVE LoneInv'
    BY <1>9 DEF StoreRaw
  <1>10. ASSUME NEW t \in Threads, StoreResult(t) PROVE LoneInv'
    BY <1>10 DEF StoreResult
  <1>11. ASSUME NEW t \in Threads, Return(t) PROVE LoneInv'
    BY <1>11 DEF Return
  <1>12. ASSUME NEW t \in Threads, TakeDump(t) PROVE LoneInv'
    BY <1>12 DEF TakeDump
  <1>13. CASE UNCHANGED interpretationVars
    BY <1>13 DEF interpretationVars
  <1> HIDE DEF TypeInv, InterpretationTypeOK, CallsFit, LoneInv, LoneIsAlone, Lone, CacheOf,
               HandsOf,
               OwnUnlessOverlapped, Own, OneInterpretation, Goto, At, shared
  <1>14. QED
    BY <1>1, <1>2, <1>3, <1>4, <1>5, <1>6, <1>7, <1>8, <1>9, <1>10, <1>11,
       <1>12, <1>13 DEF InterpretationNext

LEMMA AlwaysLoneInv == InterpretationSpec => []LoneInv
  BY InitTypeInv, NextTypeInv, InitLoneInv, NextLoneInv, PTL DEF InterpretationSpec

\* A turn that ran beside no other executes its own interpretation, and a
\* clarification of it resumes its own proposal, whatever earlier turns and
\* failed attempts left in the cache that all threads share.
THEOREM OwnTurn == InterpretationSpec => []OwnUnlessOverlapped
  <1>1. LoneInv => OwnUnlessOverlapped
    BY DEF LoneInv
  <1>2. QED
    BY <1>1, AlwaysLoneInv, PTL

\* Such a turn is interpreted once: its second question finds the answer.
THEOREM Once == InterpretationSpec => []OneInterpretation
  <1>1. LoneInv => OneInterpretation
    BY DEF LoneInv
  <1>2. QED
    BY <1>1, AlwaysLoneInv, PTL

-----------------------------------------------------------------------------
(* TemporalAnswers: days and windows.                                      *)

LEMMA Floor ==
  ASSUME NEW x \in Int, NEW n \in Nat \ {0}
  PROVE  /\ x \div n \in Int
         /\ n * (x \div n) <= x
         /\ x < n * (x \div n) + n
  BY Z3

LEMMA Grows ==
  ASSUME NEW n \in Nat, NEW d \in Int, NEW e \in Int, d <= e
  PROVE  d * n <= e * n
  BY Z3

LEMMA MidnightsGrow ==
  ASSUME NEW d \in Int, NEW e \in Int, d <= e
  PROVE  /\ LocalMidnight(d) \in Int /\ LocalMidnight(e) \in Int
         /\ LocalMidnight(d) <= LocalMidnight(e)
  <1>1. d * DayLen \in Int /\ e * DayLen \in Int
    BY ZoneAssumption
  <1>2. d * DayLen <= e * DayLen
    BY Grows, ZoneAssumption
  <1>3. QED
    BY <1>1, <1>2, ZoneAssumption DEF LocalMidnight

\* An instant lies in the day that it is told with.
LEMMA DayOfInstant ==
  ASSUME NEW i \in Int
  PROVE  /\ LocalDay(i) \in Int
         /\ LocalMidnight(LocalDay(i)) <= i
         /\ i < LocalMidnight(LocalDay(i) + 1)
  <1> DEFINE q == (i - ZoneOffset) \div DayLen
  <1>1. /\ q \in Int
        /\ DayLen * q <= i - ZoneOffset
        /\ i - ZoneOffset < DayLen * q + DayLen
    BY Floor, ZoneAssumption
  <1> HIDE DEF q
  <1>2. DayLen * q = q * DayLen /\ (q + 1) * DayLen = DayLen * q + DayLen /\ q * DayLen \in Int
    BY <1>1, ZoneAssumption, Z3
  <1>3. LocalDay(i) = q
    BY DEF LocalDay, q
  <1>4. QED
    BY <1>1, <1>2, <1>3, ZoneAssumption DEF LocalMidnight

LEMMA WindowOfDay ==
  ASSUME NEW d \in Int
  PROVE  /\ WindowDays * (d \div WindowDays) \in Int
         /\ WindowDays * (d \div WindowDays) <= d
         /\ d <= WindowDays * (d \div WindowDays) + WindowDays - 1
  <1> DEFINE q == d \div WindowDays
  <1>1. q \in Int /\ WindowDays * q <= d /\ d < WindowDays * q + WindowDays
    BY Floor, WindowAssumption
  <1> HIDE DEF q
  <1>2. WindowDays * q \in Int
    BY <1>1, WindowAssumption
  <1>3. d <= WindowDays * q + WindowDays - 1
    BY <1>1, <1>2, WindowAssumption
  <1>4. QED
    BY <1>1, <1>2, <1>3 DEF q

LEMMA StartType == Start \in Nat
  BY ZoneAssumption DEF Start, LocalMidnight

-----------------------------------------------------------------------------
(* What the user tells of an instant.                                      *)

Times == [form : TimeForms, from : Int, to : Int]

LEMMA ToldOfMinute ==
  ASSUME NEW i, NEW t \in Told("minute", i)
  PROVE  t = Time("minute", i, i)
  BY DEF Told

LEMMA ToldOfDay ==
  ASSUME NEW i, NEW form \in {"day", "approx", "dayPeriod"}, NEW t \in Told(form, i)
  PROVE  t = Time(form, LocalDay(i), LocalDay(i))
  BY DEF Told

LEMMA ToldOfPeriod ==
  ASSUME NEW i \in Int, NEW t \in Told("period", i)
  PROVE  \E j \in Int : t = Time("period", j, j + DayLen) /\ j <= i /\ i < j + DayLen
  <1>1. PICK j \in {k \in Start .. i : k + DayLen > i} : t = Time("period", j, j + DayLen)
    BY DEF Told
  <1>2. j \in Int /\ j <= i /\ j + DayLen > i
    BY StartType
  <1>3. QED
    BY <1>1, <1>2, ZoneAssumption

LEMMA ToldOfWindow ==
  ASSUME NEW i \in Int, NEW t \in Told("window", i)
  PROVE  \E first \in Int : /\ t = Time("window", first, first + WindowDays - 1)
                            /\ LocalDay(i) \in first .. first + WindowDays - 1
  <1> DEFINE first == WindowDays * (LocalDay(i) \div WindowDays)
  <1>1. t = Time("window", first, first + WindowDays - 1)
    BY DEF Told
  <1>2. /\ first \in Int /\ LocalDay(i) \in Int
        /\ first <= LocalDay(i) /\ LocalDay(i) <= first + WindowDays - 1
    BY WindowOfDay, DayOfInstant
  <1> HIDE DEF first
  <1>3. LocalDay(i) \in first .. first + WindowDays - 1
    BY <1>2, WindowAssumption
  <1>4. QED
    BY <1>1, <1>2, <1>3

DatelessForms == {"recurring", "past", "ongoing", "planned", "unknown"}

LEMMA ToldOfDateless ==
  ASSUME NEW i, NEW form \in DatelessForms, NEW t \in Told(form, i)
  PROVE  t = Time(form, 0, 0)
  BY DEF Told, DatelessForms

LEMMA FormsSplit ==
  ASSUME NEW form \in TimeForms
  PROVE  \/ form = "minute"
         \/ form \in {"day", "approx", "dayPeriod"}
         \/ form = "period"
         \/ form = "window"
         \/ form \in DatelessForms
  BY DEF TimeForms, CalendarForms, DatelessForms

LEMMA ToldTypes ==
  ASSUME NEW form \in TimeForms, NEW i \in Int, NEW t \in Told(form, i)
  PROVE  t \in Times /\ t.form = form
  <1> USE DEF Time, Times
  <1>1. CASE form = "minute"
    BY <1>1, ToldOfMinute
  <1>2. CASE form \in {"day", "approx", "dayPeriod"}
    BY <1>2, ToldOfDay, DayOfInstant
  <1>3. CASE form = "period"
    BY <1>3, ToldOfPeriod, ZoneAssumption
  <1>4. CASE form = "window"
    BY <1>4, ToldOfWindow, WindowAssumption
  <1>5. CASE form \in DatelessForms
    BY <1>5, ToldOfDateless
  <1>6. QED
    BY <1>1, <1>2, <1>3, <1>4, <1>5, FormsSplit

\* What is told of an instant allows that instant.
LEMMA ToldIsPossible ==
  ASSUME NEW form \in TimeForms, NEW S, NEW i \in S, i \in Int, NEW t \in Told(form, i)
  PROVE  i \in Possible(t, S)
  <1> USE DEF Time, Possible
  <1>1. CASE form = "minute"
    BY <1>1, ToldOfMinute
  <1>2. CASE form \in {"day", "approx", "dayPeriod"}
    BY <1>2, ToldOfDay, DayOfInstant
  <1>3. CASE form = "period"
    BY <1>3, ToldOfPeriod
  <1>4. CASE form = "window"
    BY <1>4, ToldOfWindow
  <1>5. CASE form \in DatelessForms
    BY <1>5, ToldOfDateless DEF DatelessForms
  <1>6. QED
    BY <1>1, <1>2, <1>3, <1>4, <1>5, FormsSplit

\* What is answered of a time for a range is true of the instant it was told of.
LEMMA MembershipIsTrue ==
  ASSUME NEW form \in TimeForms, NEW i \in Int, NEW t \in Told(form, i),
         NEW a \in Int, NEW b \in Int
  PROVE  /\ RangeMembership(t, a, b) \in {"match", "no_match", "unknown"}
         /\ RangeMembership(t, a, b) = "match" => a <= i /\ i < b
         /\ RangeMembership(t, a, b) = "no_match" => ~ (a <= i /\ i < b)
  <1> USE DEF Time, RangeMembership, PossibleWindow
  <1>1. CASE form = "minute"
    BY <1>1, ToldOfMinute
  <1>2. CASE form \in {"day", "approx", "dayPeriod"}
    <2> DEFINE from == LocalMidnight(LocalDay(i))  to == LocalMidnight(LocalDay(i) + 1)
    <2>1. from \in Int /\ to \in Int /\ from <= i /\ i < to
      BY DayOfInstant, MidnightsGrow
    <2>2. t = Time(form, LocalDay(i), LocalDay(i))
      BY <1>2, ToldOfDay
    <2>3. form = "day" => RangeMembership(t, a, b) = CoarseMembership(from, to, a, b)
      BY <2>2
    <2>4. form # "day" => RangeMembership(t, a, b) = "unknown"
      BY <1>2, <2>2
    <2> HIDE DEF from, to
    <2>5. QED
      BY <2>1, <2>3, <2>4 DEF CoarseMembership
  <1>3. CASE form = "period"
    <2>1. PICK j \in Int : t = Time("period", j, j + DayLen) /\ j <= i /\ i < j + DayLen
      BY <1>3, ToldOfPeriod
    <2>2. RangeMembership(t, a, b) = CoarseMembership(j, j + DayLen, a, b)
      BY <2>1, ZoneAssumption
    <2>3. QED
      BY <2>1, <2>2, ZoneAssumption DEF CoarseMembership
  <1>4. CASE form = "window"
    <2>1. PICK first \in Int : /\ t = Time("window", first, first + WindowDays - 1)
                               /\ LocalDay(i) \in first .. first + WindowDays - 1
      BY <1>4, ToldOfWindow
    <2> DEFINE from == LocalMidnight(first)
               last == first + WindowDays - 1
               to   == LocalMidnight(last + 1)
    <2>2. last \in Int /\ LocalDay(i) \in Int /\ first <= LocalDay(i) /\ LocalDay(i) <= last
      BY <2>1, DayOfInstant, WindowAssumption
    <2>3. RangeMembership(t, a, b) = CoarseMembership(from, to, a, b)
      BY <2>1
    <2> HIDE DEF last
    <2>4. from \in Int /\ from <= LocalMidnight(LocalDay(i))
      BY <2>2, MidnightsGrow
    <2>5. to \in Int /\ LocalMidnight(LocalDay(i) + 1) <= to
      BY <2>2, MidnightsGrow
    <2>6. LocalMidnight(LocalDay(i)) \in Int /\ LocalMidnight(LocalDay(i) + 1) \in Int
      BY <2>2, MidnightsGrow
    <2> HIDE DEF from, to
    <2>7. from <= i /\ i < to
      BY <2>4, <2>5, <2>6, DayOfInstant
    <2>8. QED
      BY <2>3, <2>4, <2>5, <2>7 DEF CoarseMembership
  <1>5. CASE form \in DatelessForms
    BY <1>5, ToldOfDateless DEF DatelessForms
  <1>6. QED
    BY <1>1, <1>2, <1>3, <1>4, <1>5, FormsSplit

-----------------------------------------------------------------------------
(* Observations: each is told of its instant.                              *)

Observations == [time : Times, value : Amounts, at : Instants, retracted : BOOLEAN]

ObservedTruly ==
  /\ observed \in Seq(Observations)
  /\ \A k \in DOMAIN observed : \E form \in ToldForms :
       observed[k].time \in Told(form, observed[k].at)

LEMMA InstantsType == ASSUME NEW i \in Instants PROVE i \in Nat /\ Start <= i
  BY StartType DEF Instants

LEMMA InitObservedTruly == ObservationInit => ObservedTruly
  BY DEF ObservationInit, ObservedTruly

LEMMA NextObservedTruly == ObservedTruly /\ [ObservationNext]_observed => ObservedTruly'
  <1> SUFFICES ASSUME ObservedTruly, [ObservationNext]_observed PROVE ObservedTruly'
    OBVIOUS
  <1> USE DEF ObservedTruly
  <1>1. ASSUME Observe PROVE ObservedTruly'
    <2>1. PICK form \in ToldForms, i \in Instants, v \in Amounts : \E t \in Told(form, i) :
            observed' = Append(observed, [time |-> t, value |-> v, at |-> i, retracted |-> FALSE])
      BY <1>1 DEF Observe
    <2>2. PICK t \in Told(form, i) :
            observed' = Append(observed, [time |-> t, value |-> v, at |-> i, retracted |-> FALSE])
      BY <2>1
    <2> DEFINE row == [time |-> t, value |-> v, at |-> i, retracted |-> FALSE]
    <2>3. row \in Observations /\ row.time = t /\ row.at = i
      BY <2>2, ToldTypes, ToldFormsAssumption, InstantsType DEF Observations
    <2> HIDE DEF row
    <2>4. observed' = Append(observed, row)
      BY <2>2 DEF row
    <2>5. observed' \in Seq(Observations)
      BY <2>3, <2>4
    <2>6. ASSUME NEW k \in DOMAIN observed'
          PROVE  \E f \in ToldForms : observed'[k].time \in Told(f, observed'[k].at)
      <3>1. CASE k \in DOMAIN observed
        <4>1. observed'[k] = observed[k]
          BY <2>4, <3>1
        <4>2. QED
          BY <3>1, <4>1
      <3>2. CASE k \notin DOMAIN observed
        <4>1. observed'[k] = row
          BY <2>3, <2>4, <3>2
        <4>2. QED
          BY <2>2, <2>3, <4>1
      <3>3. QED
        BY <3>1, <3>2
    <2>7. QED
      BY <2>5, <2>6
  <1>2. ASSUME Retract PROVE ObservedTruly'
    <2>1. PICK j \in DOMAIN observed : observed' = [observed EXCEPT ![j].retracted = TRUE]
      BY <1>2 DEF Retract
    <2> DEFINE row == [observed[j] EXCEPT !.retracted = TRUE]
    <2>5. row \in Observations
      <3>1. observed[j] \in Observations
        BY <2>1
      <3>2. QED
        BY <3>1 DEF Observations
    <2>6. observed' = [observed EXCEPT ![j] = row]
      BY <2>1
    <2> HIDE DEF row
    <2>2. observed' \in Seq(Observations)
      BY <2>5, <2>6
    <2>3. /\ DOMAIN observed' = DOMAIN observed
          /\ \A k \in DOMAIN observed :
               observed'[k].time = observed[k].time /\ observed'[k].at = observed[k].at
      BY <2>1 DEF Observations
    <2>4. QED
      BY <2>2, <2>3
  <1>3. CASE UNCHANGED observed
    BY <1>3
  <1>4. QED
    BY <1>1, <1>2, <1>3 DEF ObservationNext

-----------------------------------------------------------------------------
(* Answers about ranges of observations.                                   *)

LEMMA RowsObserved ==
  ASSUME ObservedTruly, NEW k \in Effective
  PROVE  /\ k \in DOMAIN observed
         /\ observed[k] \in Observations
         /\ observed[k].at \in Nat /\ Start <= observed[k].at
         /\ observed[k].value \in Nat \ {0} /\ observed[k].value \in Amounts
         /\ \E form \in ToldForms : observed[k].time \in Told(form, observed[k].at)
  <1>1. k \in DOMAIN observed /\ observed[k] \in Observations
    BY DEF ObservedTruly, Effective
  <1>2. observed[k].at \in Nat /\ Start <= observed[k].at
    BY <1>1, InstantsType DEF Observations
  <1>3. QED
    BY <1>1, <1>2, ValuesAssumption DEF ObservedTruly, Observations

LEMMA EffectiveFinite ==
  ASSUME ObservedTruly
  PROVE  IsFiniteSet(Effective)
  <1>1. Len(observed) \in Nat /\ DOMAIN observed = 1 .. Len(observed)
    BY DEF ObservedTruly
  <1>2. IsFiniteSet(1 .. Len(observed))
    BY <1>1, FS_Interval
  <1>3. QED
    BY <1>1, <1>2, FS_Subset DEF Effective

LEMMA ImageFinite ==
  ASSUME NEW S, IsFiniteSet(S), NEW f, DOMAIN f = S
  PROVE  IsFiniteSet({f[x] : x \in S})
  <1> DEFINE T == {f[x] : x \in S}  g == [x \in S |-> f[x]]
  <1>1. g \in Surjection(S, T)
    BY DEF Surjection
  <1>2. QED
    BY <1>1, FS_Surjection

LEMMA ValuesFinite ==
  ASSUME NEW ks, IsFiniteSet(ks)
  PROVE  /\ IsFiniteSet(ValuesOf(ks)) /\ Cardinality(ValuesOf(ks)) \in Nat
         /\ Cardinality(ValuesOf(ks)) = 0 <=> ks = {}
  <1> DEFINE f == [k \in ks |-> observed[k].value]
  <1>1. {f[k] : k \in ks} = ValuesOf(ks)
    BY DEF ValuesOf
  <1>2. IsFiniteSet(ValuesOf(ks))
    <2>1. DOMAIN f = ks
      OBVIOUS
    <2> HIDE DEF f
    <2>2. QED
      BY <1>1, <2>1, ImageFinite
  <1>3. Cardinality(ValuesOf(ks)) \in Nat
    BY <1>2, FS_CardinalityType
  <1>4. Cardinality(ValuesOf(ks)) = 0 <=> ValuesOf(ks) = {}
    BY <1>2, FS_EmptySet
  <1>5. ValuesOf(ks) = {} <=> ks = {}
    BY DEF ValuesOf
  <1>6. QED
    BY <1>2, <1>3, <1>4, <1>5

\* The rows that match are in the range, and those in the range match or may.
LEMMA RangeIsTrue ==
  ASSUME ObservedTruly, NEW a \in Int, NEW b \in Int
  PROVE  /\ InRange(Effective, "match", a, b) \subseteq TrulyIn(a, b)
         /\ TrulyIn(a, b) \subseteq
              InRange(Effective, "match", a, b) \cup InRange(Effective, "unknown", a, b)
         /\ InRange(Effective, "match", a, b) \subseteq Effective
         /\ InRange(Effective, "unknown", a, b) \subseteq Effective
         /\ TrulyIn(a, b) \subseteq Effective
  <1>1. ASSUME NEW k \in Effective
        PROVE  LET m == RangeMembership(observed[k].time, a, b) IN
               /\ m \in {"match", "no_match", "unknown"}
               /\ m = "match" => a <= observed[k].at /\ observed[k].at < b
               /\ m = "no_match" => ~ (a <= observed[k].at /\ observed[k].at < b)
    BY RowsObserved, MembershipIsTrue, ToldFormsAssumption
  <1>2. QED
    BY <1>1 DEF InRange, TrulyIn

LEMMA ValuesInRange ==
  ASSUME ObservedTruly, NEW a \in Int, NEW b \in Int
  PROVE  ValuesAreTrue(a, b)
  <1> DEFINE matched == InRange(Effective, "match", a, b)
             unknown == InRange(Effective, "unknown", a, b)
             truth   == TrulyIn(a, b)
  <1>1. /\ matched \subseteq truth /\ truth \subseteq matched \cup unknown
        /\ matched \subseteq Effective
    BY RangeIsTrue
  <1>2. IsFiniteSet(matched)
    BY <1>1, EffectiveFinite, FS_Subset
  <1>3. /\ AtTime(a, b).values = ValuesOf(matched)
        /\ AtTime(a, b).partial <=> unknown # {}
        /\ AtTime(a, b).status =
             CASE matched = {} /\ unknown = {} -> "unknown"
               [] matched = {} /\ unknown # {} -> "temporally_unknown"
               [] Cardinality(ValuesOf(matched)) = 1 -> "known_single"
               [] Cardinality(ValuesOf(matched)) > 1 -> "ambiguous"
    BY DEF AtTime
  <1> HIDE DEF matched, unknown, truth
  <1>4. AtTime(a, b).values \subseteq ValuesOf(truth)
    BY <1>1, <1>3 DEF ValuesOf
  <1>5. AtTime(a, b).partial \/ AtTime(a, b).values = ValuesOf(truth)
    BY <1>1, <1>3 DEF ValuesOf
  <1>6. AtTime(a, b).status = "unknown" => ValuesOf(truth) = {}
    <2>1. CASE matched # {}
      <3>1. Cardinality(ValuesOf(matched)) = 1 \/ Cardinality(ValuesOf(matched)) > 1
        BY <1>2, <2>1, ValuesFinite
      <3>2. AtTime(a, b).status # "unknown"
        BY <1>3, <2>1, <3>1
      <3>3. QED
        BY <3>2
    <2>2. CASE matched = {}
      BY <1>1, <1>3, <2>2 DEF ValuesOf
    <2>3. QED
      BY <2>1, <2>2
  <1>7. QED
    BY <1>4, <1>5, <1>6 DEF ValuesAreTrue, truth

LEMMA PropositionInRange ==
  ASSUME ObservedTruly, NEW a \in Int, NEW b \in Int, NEW v \in Amounts
  PROVE  PropositionIsTrue(v, a, b)
  <1> DEFINE matched == InRange(Effective, "match", a, b)
             truth   == ValuesOf(TrulyIn(a, b))
             same    == {k \in Effective : observed[k].value = v}
  <1>1. ValuesOf(matched) \subseteq truth
    BY RangeIsTrue DEF ValuesOf
  <1>2. InRange(same, "match", a, b) # {} => v \in ValuesOf(matched)
    BY DEF InRange, ValuesOf
  <1>3. v \in truth => InRange(same, "match", a, b) # {} \/ InRange(same, "unknown", a, b) # {}
    <2>1. TrulyIn(a, b) \subseteq matched \cup InRange(Effective, "unknown", a, b)
      BY RangeIsTrue
    <2>2. QED
      BY <2>1 DEF InRange, ValuesOf
  <1> DEFINE answer == IF InRange(same, "match", a, b) # {}
                         THEN IF ValuesOf(matched) = {v} THEN "yes" ELSE "ambiguous"
                       ELSE IF InRange(same, "unknown", a, b) # {} THEN "temporally_unknown"
                       ELSE "unknown"
  <1>4. WasObserved(v, a, b) = answer
    BY DEF WasObserved
  <1> HIDE DEF matched, truth, same
  <1>5. answer = "yes" => v \in truth
    BY <1>1, <1>2
  <1>6. answer = "ambiguous" => v \in truth /\ truth # {v}
    BY <1>1, <1>2
  <1>7. answer = "unknown" => v \notin truth
    BY <1>3
  <1> HIDE DEF answer
  <1>8. QED
    BY <1>4, <1>5, <1>6, <1>7 DEF PropositionIsTrue, truth

LEMMA UnitsFinite ==
  ASSUME ObservedTruly, NEW ks \in SUBSET Effective
  PROVE  IsFiniteSet(UNION {Units(k) : k \in ks}) /\ SumOf(ks) \in Nat
  <1> DEFINE f == [k \in ks |-> Units(k)]
             units == {Units(k) : k \in ks}
  <1>1. IsFiniteSet(ks)
    BY EffectiveFinite, FS_Subset
  <1>2. units = {f[k] : k \in ks} /\ DOMAIN f = ks
    OBVIOUS
  <1>3. ASSUME NEW k \in ks PROVE IsFiniteSet(Units(k))
    <2>1. observed[k].value \in Int
      BY RowsObserved
    <2>2. IsFiniteSet(1 .. observed[k].value)
      BY <2>1, FS_Interval
    <2>3. IsFiniteSet({k})
      BY FS_Singleton
    <2>4. QED
      BY <2>2, <2>3, FS_Product DEF Units
  <1>4. \A T \in units : IsFiniteSet(T)
    BY <1>3
  <1>5. IsFiniteSet(units)
    <2> HIDE DEF f
    <2>1. QED
      BY <1>1, <1>2, ImageFinite
  <1> HIDE DEF units
  <1>6. IsFiniteSet(UNION units)
    BY <1>4, <1>5, FS_UNION
  <1>7. QED
    BY <1>6, FS_CardinalityType DEF SumOf, units

LEMMA SumGrows ==
  ASSUME ObservedTruly, NEW ks \in SUBSET Effective, NEW js \in SUBSET ks
  PROVE  SumOf(js) <= SumOf(ks)
  <1> DEFINE few == UNION {Units(k) : k \in js}  many == UNION {Units(k) : k \in ks}
  <1>1. few \subseteq many
    OBVIOUS
  <1>2. IsFiniteSet(many)
    BY UnitsFinite
  <1>3. SumOf(js) = Cardinality(few) /\ SumOf(ks) = Cardinality(many)
    BY DEF SumOf
  <1> HIDE DEF few, many
  <1>4. QED
    BY <1>1, <1>2, <1>3, FS_Subset

LEMMA CardinalityOfUnion ==
  ASSUME NEW S, NEW T, IsFiniteSet(S), IsFiniteSet(T)
  PROVE  /\ Cardinality(S \cup T) <= Cardinality(S) + Cardinality(T)
         /\ IsFiniteSet(S \cup T)
         /\ Cardinality(S) \in Nat /\ Cardinality(T) \in Nat /\ Cardinality(S \cup T) \in Nat
  <1>1. IsFiniteSet(S \cap T)
    BY FS_Subset
  <1>2. Cardinality(S \cap T) \in Nat /\ Cardinality(S) \in Nat /\ Cardinality(T) \in Nat
    BY <1>1, FS_CardinalityType
  <1>3. /\ IsFiniteSet(S \cup T)
        /\ Cardinality(S \cup T) = Cardinality(S) + Cardinality(T) - Cardinality(S \cap T)
    BY FS_Union
  <1>4. Cardinality(S \cup T) \in Nat
    BY <1>3, FS_CardinalityType
  <1>5. QED
    BY <1>2, <1>3, <1>4

LEMMA SumOfUnion ==
  ASSUME ObservedTruly, NEW ks \in SUBSET Effective, NEW js \in SUBSET Effective
  PROVE  SumOf(ks \cup js) <= SumOf(ks) + SumOf(js)
  <1> DEFINE K == UNION {Units(k) : k \in ks}  J == UNION {Units(k) : k \in js}
  <1>1. UNION {Units(k) : k \in ks \cup js} = K \cup J
    OBVIOUS
  <1>2. IsFiniteSet(K) /\ IsFiniteSet(J)
    BY UnitsFinite
  <1>3. /\ SumOf(ks \cup js) = Cardinality(K \cup J)
        /\ SumOf(ks) = Cardinality(K)
        /\ SumOf(js) = Cardinality(J)
    BY <1>1 DEF SumOf
  <1> HIDE DEF K, J
  <1>4. QED
    BY <1>2, <1>3, CardinalityOfUnion

LEMMA TotalsInRange ==
  ASSUME ObservedTruly, NEW a \in Int, NEW b \in Int
  PROVE  TotalsAreBracketed(a, b)
  <1> DEFINE M == InRange(Effective, "match", a, b)
             U == InRange(Effective, "unknown", a, b)
             T == TrulyIn(a, b)
  <1>1. M \subseteq T /\ T \subseteq M \cup U
    BY RangeIsTrue
  <1>2. M \in SUBSET Effective /\ U \in SUBSET Effective /\ T \in SUBSET Effective
    BY RangeIsTrue
  <1>3. /\ Count(a, b) = [value |-> Cardinality(M), unknown |-> Cardinality(U)]
        /\ SumIn(a, b) = [value |-> SumOf(M), unknown |-> SumOf(U)]
    BY DEF Count, SumIn
  <1> HIDE DEF M, U, T
  <1>4. IsFiniteSet(M) /\ IsFiniteSet(U) /\ IsFiniteSet(T)
    BY <1>2, EffectiveFinite, FS_Subset
  <1>5. Cardinality(M) <= Cardinality(T)
    BY <1>1, <1>4, FS_Subset
  <1>6. Cardinality(T) <= Cardinality(M) + Cardinality(U)
    <2>1. /\ IsFiniteSet(M \cup U)
          /\ Cardinality(M \cup U) <= Cardinality(M) + Cardinality(U)
          /\ Cardinality(M) \in Nat /\ Cardinality(U) \in Nat /\ Cardinality(M \cup U) \in Nat
      BY <1>4, CardinalityOfUnion
    <2>2. Cardinality(T) <= Cardinality(M \cup U) /\ Cardinality(T) \in Nat
      BY <1>1, <1>4, <2>1, FS_Subset, FS_CardinalityType
    <2>3. QED
      BY <2>1, <2>2
  <1>7. SumOf(M) <= SumOf(T)
    BY <1>1, <1>2, SumGrows
  <1>8. SumOf(T) <= SumOf(M) + SumOf(U)
    <2>1. M \cup U \in SUBSET Effective /\ T \in SUBSET (M \cup U)
      BY <1>1, <1>2
    <2>2. SumOf(T) <= SumOf(M \cup U)
      BY <2>1, SumGrows
    <2>3. SumOf(M \cup U) <= SumOf(M) + SumOf(U)
      BY <1>2, SumOfUnion
    <2>4. /\ SumOf(T) \in Nat /\ SumOf(M \cup U) \in Nat
          /\ SumOf(M) \in Nat /\ SumOf(U) \in Nat
      BY <1>2, <2>1, UnitsFinite
    <2>5. QED
      BY <2>2, <2>3, <2>4
  <1>9. QED
    BY <1>3, <1>5, <1>6, <1>7, <1>8 DEF TotalsAreBracketed, T

LEMMA RangesTrue == ObservedTruly => RangesAreTrue
  <1> SUFFICES ASSUME ObservedTruly, NEW r \in Ranges
               PROVE  /\ ValuesAreTrue(r[1], r[2]) /\ TotalsAreBracketed(r[1], r[2])
                      /\ \A v \in Amounts : PropositionIsTrue(v, r[1], r[2])
    BY DEF RangesAreTrue
  <1>1. r[1] \in Int /\ r[2] \in Int
    BY StartType DEF Ranges, Instants
  <1>2. QED
    BY <1>1, ValuesInRange, TotalsInRange, PropositionInRange

\* A point to sort by is the instant itself, if it is not that of a day or a period.
LEMMA InstantIsTrue ==
  ASSUME NEW form \in TimeForms \ {"day", "approx", "dayPeriod", "period"},
         NEW i \in Nat, NEW t \in Told(form, i)
  PROVE  TemporalInstant(t) = (IF form = "minute" THEN i ELSE NoTime)
  <1> USE DEF Time, TemporalInstant
  <1>1. CASE form = "minute"
    BY <1>1, ToldOfMinute
  <1>2. CASE form = "window"
    BY <1>2, ToldOfWindow
  <1>3. CASE form \in DatelessForms
    BY <1>3, ToldOfDateless DEF DatelessForms
  <1>4. QED
    BY <1>1, <1>2, <1>3, FormsSplit

LEMMA LatestCertain == ObservedTruly => LatestIsCertain
  <1> SUFFICES ASSUME ObservedTruly,
                      \A k \in Effective :
                        observed[k].time.form \notin {"day", "approx", "dayPeriod", "period"}
               PROVE  /\ LET latest == LatestOf(Effective) IN
                         latest.status = "known_single" =>
                           latest.values = ValuesOf(TrulyLast(Effective))
                      /\ \A r \in Ranges : LET newest == NewestBetween(r[1], r[2]) IN
                           newest.complete => newest.rows \subseteq TrulyLast(TrulyIn(r[1], r[2]))
    BY DEF LatestIsCertain
  <1>1. ASSUME NEW k \in Effective
        PROVE  Instant(k) = observed[k].at \/ Instant(k) = NoTime
    <2>1. PICK form \in ToldForms : observed[k].time \in Told(form, observed[k].at)
      BY RowsObserved
    <2>2. observed[k].at \in Nat
      BY RowsObserved
    <2>3. form \in TimeForms /\ observed[k].time.form = form
      BY <2>1, <2>2, ToldTypes, ToldFormsAssumption
    <2>4. QED
      BY <2>1, <2>2, <2>3, InstantIsTrue DEF Instant
  <1>2. ASSUME NEW ks \in SUBSET Effective, \A k \in ks : Instant(k) # NoTime
        PROVE  {k \in ks : \A j \in ks : Instant(j) <= Instant(k)} = TrulyLast(ks)
    BY <1>1, <1>2 DEF TrulyLast
  <1>3. ASSUME LatestOf(Effective).status = "known_single"
        PROVE  LatestOf(Effective).values = ValuesOf(TrulyLast(Effective))
    <2> DEFINE ks == Effective
               undated == {k \in ks : Instant(k) = NoTime}
               last    == {k \in ks : \A j \in ks : Instant(j) <= Instant(k)}
    <2>1. LatestOf(ks) =
            IF ks = {} THEN [status |-> "unknown", values |-> {}]
            ELSE IF undated = ks THEN [status |-> "temporally_unknown", values |-> ValuesOf(ks)]
            ELSE IF undated # {} THEN [status |-> "ambiguous", values |-> ValuesOf(ks)]
            ELSE [status |-> IF Cardinality(ValuesOf(last)) = 1 THEN "known_single" ELSE "ambiguous",
                  values |-> ValuesOf(last)]
      BY DEF LatestOf
    <2>2. LatestOf(ks).status = "known_single"
      BY <1>3
    <2> HIDE DEF undated, last, ks
    <2>3. undated = {} /\ LatestOf(ks).values = ValuesOf(last)
      BY <2>1, <2>2
    <2>4. last = TrulyLast(ks)
      BY <1>2, <2>3 DEF undated, last, ks
    <2>5. QED
      BY <2>3, <2>4 DEF ks
  <1>4. ASSUME NEW r \in Ranges, NewestBetween(r[1], r[2]).complete
        PROVE  NewestBetween(r[1], r[2]).rows \subseteq TrulyLast(TrulyIn(r[1], r[2]))
    <2> DEFINE M     == InRange(Effective, "match", r[1], r[2])
               U     == InRange(Effective, "unknown", r[1], r[2])
               T     == TrulyIn(r[1], r[2])
               dated == {k \in M \cup U : Instant(k) # NoTime}
               last  == {k \in dated : \A j \in dated : Instant(j) <= Instant(k)}
    <2>1. r[1] \in Int /\ r[2] \in Int
      BY StartType DEF Ranges, Instants
    <2>2. /\ M \subseteq T /\ T \subseteq M \cup U
          /\ M \subseteq Effective /\ T \subseteq Effective
      BY <2>1, RangeIsTrue
    <2>3. NewestBetween(r[1], r[2]) = [rows |-> IF dated = {} THEN M \cup U ELSE last,
                                complete |-> dated = M \cup U /\ U = {}]
      BY DEF NewestBetween, NewestOf
    <2>4. dated = M \cup U /\ U = {}
      BY <1>4 DEF NewestBetween, NewestOf
    <2>5. T = M /\ dated = M /\ \A k \in M : Instant(k) # NoTime
      BY <2>2, <2>4
    <2>6. last = TrulyLast(T)
      <3>1. last = {k \in M : \A j \in M : Instant(j) <= Instant(k)}
        BY <2>5
      <3>2. QED
        BY <1>2, <2>2, <2>5, <3>1
    <2>7. M = {} => TrulyLast(T) = {}
      BY <2>5 DEF TrulyLast
    <2>8. NewestBetween(r[1], r[2]).rows = IF dated = {} THEN {} ELSE last
      BY <2>3, <2>4
    <2>9. QED
      BY <2>6, <2>7, <2>8
  <1>5. QED
    BY <1>3, <1>4

-----------------------------------------------------------------------------
(* The world: when the relation has held.                                  *)

WorldInv ==
  /\ now \in Nat /\ Start <= now /\ on \in BOOLEAN
  /\ since \in Start .. now /\ until \in Start .. now
  /\ episodes \in Nat /\ pending \in {"none", "began", "ended"}
  /\ holds \subseteq Start .. now - 1
  /\ pending = "began" => on /\ since = now
  /\ pending = "ended" => ~ on /\ until = now /\ episodes > 0
  /\ on => episodes > 0 /\ since .. now - 1 \subseteq holds
  /\ ~ on /\ episodes > 0 => until - 1 \in holds /\ until \notin holds
  /\ episodes = 0 => holds = {} /\ ~ on

\* In its first episode it has held since then, and before that never.
FirstEpisode ==
  episodes = 1 => holds = since .. (IF on THEN now - 1 ELSE until - 1)

\* An instant at which an episode that is over had ended.
IsEnd(i) ==
  /\ i \in Start + 1 .. now /\ i - 1 \in holds /\ i \notin holds
  /\ IF on THEN i < since ELSE i <= until

LEMMA InitWorld == RelationInit => WorldInv /\ FirstEpisode
  <1> SUFFICES ASSUME RelationInit PROVE WorldInv /\ FirstEpisode
    OBVIOUS
  <1>1. /\ now = Start /\ on = FALSE /\ since = Start /\ until = Start /\ holds = {}
        /\ episodes = 0 /\ pending = "none"
    BY DEF RelationInit
  <1>2. /\ now \in Nat /\ Start <= now
        /\ since \in Start .. now /\ until \in Start .. now
        /\ holds \subseteq Start .. now - 1
    BY <1>1, StartType
  <1>3. episodes \in Nat /\ ~ (episodes > 0) /\ episodes # 1
    BY <1>1
  <1>4. QED
    BY <1>1, <1>2, <1>3 DEF WorldInv, FirstEpisode

LEMMA TellWorld ==
  ASSUME WorldInv, FirstEpisode, MoreTold
  PROVE  WorldInv' /\ FirstEpisode' /\ \A i \in Int : IsEnd(i) => IsEnd(i)'
  <1>1. UNCHANGED <<now, on, since, until, holds, episodes>> /\ pending' = "none"
    BY DEF MoreTold, world
  <1>2. QED
    BY <1>1 DEF WorldInv, FirstEpisode, IsEnd, Start, LocalMidnight

LEMMA TickWorld ==
  ASSUME WorldInv, FirstEpisode, Tick
  PROVE  WorldInv' /\ FirstEpisode' /\ \A i \in Int : IsEnd(i) => IsEnd(i)'
  <1> USE StartType DEF WorldInv
  <1>1. /\ now' = now + 1 /\ pending = "none"
        /\ holds' = IF on THEN holds \cup {now} ELSE holds
        /\ UNCHANGED <<on, since, until, episodes, pending>>
    BY DEF Tick
  <1>2. WorldInv'
    BY <1>1 DEF Start
  <1>3. FirstEpisode'
    <2> SUFFICES ASSUME episodes = 1 PROVE holds' = since .. (IF on THEN now' - 1 ELSE until - 1)
      BY <1>1 DEF FirstEpisode
    <2>1. CASE on
      <3>1. holds' = (since .. now - 1) \cup {now}
        BY <1>1, <2>1 DEF FirstEpisode
      <3>2. QED
        BY <1>1, <2>1, <3>1
    <2>2. CASE ~ on
      BY <1>1, <2>2 DEF FirstEpisode
    <2>3. QED
      BY <2>1, <2>2
  <1>4. ASSUME NEW i \in Int, IsEnd(i) PROVE IsEnd(i)'
    BY <1>1, <1>4 DEF IsEnd
  <1>5. QED
    BY <1>2, <1>3, <1>4

LEMMA BeginsWorld ==
  ASSUME WorldInv, FirstEpisode, RelationBegins
  PROVE  WorldInv' /\ FirstEpisode' /\ \A i \in Int : IsEnd(i) => IsEnd(i)'
  <1> USE StartType DEF WorldInv
  <1>1. /\ ~ on /\ pending = "none" /\ (episodes > 0 => until < now)
        /\ on' = TRUE /\ since' = now /\ episodes' = episodes + 1 /\ pending' = "began"
        /\ UNCHANGED <<now, until, holds>>
    BY DEF RelationBegins
  <1>2. WorldInv'
    BY <1>1
  <1>3. FirstEpisode'
    <2> SUFFICES ASSUME episodes' = 1 PROVE holds = now .. now - 1
      BY <1>1 DEF FirstEpisode
    <2>1. holds = {}
      BY <1>1
    <2>2. QED
      BY <2>1
  <1>4. ASSUME NEW i \in Int, IsEnd(i) PROVE IsEnd(i)'
    BY <1>1, <1>4 DEF IsEnd
  <1>5. QED
    BY <1>2, <1>3, <1>4

LEMMA EndsWorld ==
  ASSUME WorldInv, FirstEpisode, RelationEnds
  PROVE  WorldInv' /\ FirstEpisode' /\ \A i \in Int : IsEnd(i) => IsEnd(i)'
  <1> USE StartType DEF WorldInv
  <1>1. /\ on /\ pending = "none" /\ since < now
        /\ on' = FALSE /\ until' = now /\ pending' = "ended"
        /\ UNCHANGED <<now, since, holds, episodes>>
    BY DEF RelationEnds
  <1>2. WorldInv'
    <2>1. now - 1 \in since .. now - 1
      BY <1>1
    <2>2. now - 1 \in holds /\ now \notin holds /\ episodes > 0
      BY <1>1, <2>1
    <2>3. now' \in Nat /\ Start <= now' /\ since' \in Start .. now' /\ until' \in Start .. now'
      BY <1>1
    <2>4. on' \in BOOLEAN /\ episodes' \in Nat /\ pending' \in {"none", "began", "ended"}
      BY <1>1
    <2>5. holds' \subseteq Start .. now' - 1
      BY <1>1
    <2>6. /\ ~ on' /\ pending' # "began" /\ until' = now' /\ episodes' > 0
          /\ until' - 1 \in holds' /\ until' \notin holds'
      BY <1>1, <2>2
    <2>7. ~ (episodes' = 0)
      BY <2>4, <2>6
    <2> HIDE DEF WorldInv
    <2>8. QED
      BY <2>3, <2>4, <2>5, <2>6, <2>7 DEF WorldInv
  <1>3. FirstEpisode'
    BY <1>1 DEF FirstEpisode
  <1>4. ASSUME NEW i \in Int, IsEnd(i) PROVE IsEnd(i)'
    BY <1>1, <1>4 DEF IsEnd
  <1>5. QED
    BY <1>2, <1>3, <1>4

LEMMA UntilIsEnd ==
  ASSUME WorldInv, ~ on, episodes > 0
  PROVE  IsEnd(until)
  BY StartType DEF WorldInv, IsEnd

-----------------------------------------------------------------------------
(* The rows of a relation.                                                 *)

RelationRows == [time : Times, current : BOOLEAN, from : Int, to : Int,
                 terminated : BOOLEAN, end : Times, seen : Int]

RowsType == relations \in Seq(RelationRows) /\ tells \in Nat

LEMMA Appended ==
  ASSUME RowsType, NEW row \in RelationRows, relations' = Append(relations, row)
  PROVE  /\ relations' \in Seq(RelationRows)
         /\ Len(relations) \in Nat /\ DOMAIN relations = 1 .. Len(relations)
         /\ Len(relations') = Len(relations) + 1 /\ DOMAIN relations' = 1 .. Len(relations) + 1
         /\ \A k \in DOMAIN relations : relations'[k] = relations[k]
         /\ relations'[Len(relations) + 1] = row
         /\ Currents' = IF row.current THEN Currents \cup {Len(relations) + 1} ELSE Currents
  <1>1. /\ relations' \in Seq(RelationRows)
        /\ Len(relations) \in Nat /\ DOMAIN relations = 1 .. Len(relations)
        /\ Len(relations') = Len(relations) + 1 /\ DOMAIN relations' = 1 .. Len(relations) + 1
        /\ \A k \in DOMAIN relations : relations'[k] = relations[k]
        /\ relations'[Len(relations) + 1] = row
    BY DEF RowsType
  <1>2. /\ DOMAIN relations' = DOMAIN relations \cup {Len(relations) + 1}
        /\ Len(relations) + 1 \notin DOMAIN relations
    BY <1>1
  <1>3. Currents' = {k \in DOMAIN relations' : relations'[k].current}
    BY DEF Currents
  <1>4. Currents' = IF row.current THEN Currents \cup {Len(relations) + 1} ELSE Currents
    BY <1>1, <1>2, <1>3 DEF Currents
  <1>5. QED
    BY <1>1, <1>4

LEMMA Replaced ==
  ASSUME RowsType, NEW n \in DOMAIN relations, NEW row \in RelationRows,
         relations' = [relations EXCEPT ![n] = row]
  PROVE  /\ relations' \in Seq(RelationRows)
         /\ Len(relations') = Len(relations) /\ DOMAIN relations' = DOMAIN relations
         /\ \A k \in DOMAIN relations : relations'[k] = IF k = n THEN row ELSE relations[k]
         /\ Currents' = IF row.current THEN Currents \cup {n} ELSE Currents \ {n}
  <1>1. /\ relations' \in Seq(RelationRows)
        /\ Len(relations') = Len(relations) /\ DOMAIN relations' = DOMAIN relations
        /\ \A k \in DOMAIN relations : relations'[k] = IF k = n THEN row ELSE relations[k]
    BY DEF RowsType
  <1>2. Currents' = {k \in DOMAIN relations : relations'[k].current}
    BY <1>1 DEF Currents
  <1>3. Currents' = IF row.current THEN Currents \cup {n} ELSE Currents \ {n}
    BY <1>1, <1>2 DEF Currents
  <1>4. QED
    BY <1>1, <1>3

LEMMA UnknownType == Unknown \in Times
  BY DEF Unknown, Times, Time, TimeForms

LEMMA CalendarTypes ==
  ASSUME NEW t \in Times
  PROVE  CalendarStart(t) \in Int /\ CalendarEndpoint(t) \in Int
  <1>1. ASSUME NEW d \in Int PROVE UtcMidnight(d) \in Int
    BY ZoneAssumption DEF UtcMidnight
  <1>2. t.from \in Int /\ t.to \in Int
    BY DEF Times
  <1>3. CalendarStart(t) \in Int
    BY <1>1, <1>2 DEF CalendarStart, NoTime
  <1>4. CalendarEndpoint(t) \in Int
    BY <1>1, <1>2 DEF CalendarEndpoint, NoTime
  <1>5. QED
    BY <1>3, <1>4

LEMMA NewRowType ==
  ASSUME RowsType, NEW mode, NEW t \in Times
  PROVE  NewRow(mode, t) \in RelationRows
  BY UnknownType, CalendarTypes DEF NewRow, RelationRows, RowsType, IsCurrent, NoTime

LEMMA LatestOfOne ==
  ASSUME NEW k, Currents = {k}
  PROVE  Latest(Currents) = k
  BY DEF Latest

\* While it holds, and until the user has told its end, one row is current, and
\* otherwise none.
CurrentsInv ==
  IF (on /\ pending # "began") \/ pending = "ended"
    THEN \E k \in DOMAIN relations : Currents = {k}
    ELSE Currents = {}

\* The end of every row that was terminated was told of an end.
EndsInv ==
  \A k \in DOMAIN relations : relations[k].terminated =>
    \E form \in EndForms, i \in Int : IsEnd(i) /\ relations[k].end \in Told(form, i)

\* Every episode that was told has left a row.
EpisodesInv ==
  /\ episodes <= Len(relations) + (IF pending = "began" THEN 1 ELSE 0)
  /\ episodes = 0 => relations = <<>>

\* A row that is the only one was told of the first episode.
FirstRow(row) ==
  /\ \E form \in BeginForms : row.time \in Told(form, since)
  /\ row.from = CalendarStart(row.time)
  /\ ~ row.terminated => row.to = NoTime
  /\ row.terminated => /\ ~ row.current /\ row.to = CalendarEndpoint(row.end)
                       /\ \E form \in EndForms : row.end \in Told(form, until)

OnlyRowInv == Len(relations) = 1 /\ pending # "began" => FirstRow(relations[1])

RowsInv == RowsType /\ CurrentsInv /\ EndsInv /\ EpisodesInv /\ OnlyRowInv

RelationInv == WorldInv /\ FirstEpisode /\ RowsInv

LEMMA InitRelation == RelationInit => RelationInv
  <1> SUFFICES ASSUME RelationInit PROVE RelationInv
    OBVIOUS
  <1>1. relations = <<>> /\ tells = 0 /\ ~ on /\ pending = "none" /\ episodes = 0
    BY DEF RelationInit
  <1>2. DOMAIN relations = {} /\ Len(relations) = 0 /\ relations \in Seq(RelationRows)
    BY <1>1
  <1>3. RowsType /\ CurrentsInv /\ EndsInv /\ EpisodesInv /\ OnlyRowInv
    BY <1>1, <1>2 DEF RowsType, CurrentsInv, Currents, EndsInv, EpisodesInv, OnlyRowInv
  <1>4. QED
    BY <1>3, InitWorld DEF RelationInv, RowsInv

\* What the world does leaves the rows as they are.
LEMMA WorldSteps ==
  ASSUME RelationInv, Tick \/ RelationBegins \/ RelationEnds
  PROVE  RelationInv'
  <1>1. WorldInv' /\ FirstEpisode' /\ \A i \in Int : IsEnd(i) => IsEnd(i)'
    BY TickWorld, BeginsWorld, EndsWorld DEF RelationInv
  <1>2. UNCHANGED <<relations, tells>>
    BY DEF Tick, RelationBegins, RelationEnds
  <1>3. RowsType' /\ Currents' = Currents
    BY <1>2 DEF RelationInv, RowsInv, RowsType, Currents
  <1>4. EndsInv'
    BY <1>1, <1>2 DEF RelationInv, RowsInv, EndsInv
  <1>5. CurrentsInv' /\ EpisodesInv' /\ OnlyRowInv'
    <2> USE <1>2, <1>3 DEF RelationInv, RowsInv
    <2>1. CASE Tick
      <3>1. pending = "none" /\ UNCHANGED <<on, since, until, episodes, pending>>
        BY <2>1 DEF Tick
      <3>2. QED
        BY <3>1 DEF CurrentsInv, EpisodesInv, OnlyRowInv, FirstRow
    <2>2. CASE RelationBegins
      <3>1. ~ on /\ pending = "none" /\ on' /\ episodes' = episodes + 1 /\ pending' = "began"
        BY <2>2 DEF RelationBegins
      <3>2. episodes \in Nat /\ Len(relations) \in Nat
        BY DEF WorldInv, RowsType
      <3>3. CurrentsInv'
        BY <3>1 DEF CurrentsInv
      <3>4. EpisodesInv'
        BY <3>1, <3>2 DEF EpisodesInv
      <3>5. QED
        BY <3>1, <3>3, <3>4 DEF OnlyRowInv
    <2>3. CASE RelationEnds
      <3>1. /\ on /\ pending = "none" /\ ~ on' /\ pending' = "ended"
            /\ UNCHANGED <<since, episodes>>
        BY <2>3 DEF RelationEnds
      <3>2. PICK k \in DOMAIN relations : Currents = {k}
        BY <3>1 DEF CurrentsInv
      <3>3. CurrentsInv'
        BY <3>1, <3>2 DEF CurrentsInv
      <3>4. EpisodesInv'
        BY <3>1 DEF EpisodesInv
      <3>5. ASSUME Len(relations) = 1 PROVE FirstRow(relations[1])'
        <4>1. k = 1
          BY <3>2, <3>5 DEF RowsType
        <4>2. relations[1].current
          BY <3>2, <4>1 DEF Currents
        <4>3. FirstRow(relations[1]) /\ ~ relations[1].terminated
          BY <3>1, <3>5, <4>2 DEF OnlyRowInv, FirstRow
        <4>4. QED
          BY <3>1, <4>3 DEF FirstRow
      <3>6. QED
        BY <3>3, <3>4, <3>5 DEF OnlyRowInv
    <2>4. QED
      BY <2>1, <2>2, <2>3
  <1>6. QED
    BY <1>1, <1>3, <1>4, <1>5 DEF RelationInv, RowsInv

\* What is told leaves the world as it is.
LEMMA TellSteps ==
  ASSUME RelationInv, MoreTold
  PROVE  /\ WorldInv' /\ FirstEpisode' /\ \A i \in Int : IsEnd(i) => IsEnd(i)'
         /\ UNCHANGED <<now, on, since, until, holds, episodes>>
         /\ pending' = "none" /\ tells' = tells + 1 /\ tells' \in Nat
  BY TellWorld DEF RelationInv, RowsInv, RowsType, MoreTold, world

\* Told anew, the beginning is a current row; told again, it is the same one.
LEMMA TellBeganStep == ASSUME RelationInv, TellBegan PROVE RelationInv'
  <1> USE DEF RelationInv, RowsInv
  <1>1. /\ WorldInv' /\ FirstEpisode' /\ \A i \in Int : IsEnd(i) => IsEnd(i)'
        /\ UNCHANGED <<now, on, since, until, holds, episodes>>
        /\ pending' = "none" /\ tells' \in Nat /\ on
    BY TellSteps DEF TellBegan
  <1> DEFINE Stored(t) == relations' = IF StoresNew(t) THEN Append(relations, NewRow("assert", t))
                                  ELSE [relations EXCEPT ![Latest(Currents)].seen = tells + 1]
  <1>10. PICK form \in BeginForms : \E t \in Told(form, since) : Stored(t)
    BY DEF TellBegan
  <1>2. PICK t \in Told(form, since) : Stored(t)
    BY <1>10
  <1>3. form \in TimeForms /\ since \in Int
    BY RelationFormsAssumption DEF WorldInv
  <1>4. t \in Times /\ t.form = form
    BY <1>2, <1>3, ToldTypes
  <1>5. IsCurrent("assert", t)
    BY <1>4, BeginningsAssumption DEF IsCurrent
  <1>6. StoresNew(t) <=> Currents = {}
    BY <1>5 DEF StoresNew
  <1>7. CASE Currents = {}
    <2> DEFINE row == NewRow("assert", t)
    <2>1. /\ row \in RelationRows /\ row.current /\ ~ row.terminated /\ row.to = NoTime
          /\ row.time = t /\ row.from = CalendarStart(t)
      BY <1>4, <1>5, NewRowType DEF NewRow
    <2>2. relations' = Append(relations, row)
      BY <1>2, <1>6, <1>7
    <2> HIDE DEF row
    <2>3. /\ relations' \in Seq(RelationRows)
          /\ Len(relations) \in Nat /\ DOMAIN relations = 1 .. Len(relations)
          /\ Len(relations') = Len(relations) + 1 /\ DOMAIN relations' = 1 .. Len(relations) + 1
          /\ \A k \in DOMAIN relations : relations'[k] = relations[k]
          /\ relations'[Len(relations) + 1] = row
          /\ Currents' = IF row.current THEN Currents \cup {Len(relations) + 1} ELSE Currents
      BY <2>1, <2>2, Appended
    <2>4. pending = "began"
      BY <1>1, <1>7 DEF CurrentsInv
    <2>5. CurrentsInv'
      <3>1. Currents' = {Len(relations) + 1} /\ Len(relations) + 1 \in DOMAIN relations'
        BY <1>7, <2>1, <2>3
      <3>2. QED
        BY <1>1, <3>1 DEF CurrentsInv
    <2>6. EndsInv'
      BY <1>1, <2>1, <2>3 DEF EndsInv
    <2>7. EpisodesInv'
      BY <1>1, <2>3, <2>4 DEF EpisodesInv, WorldInv
    <2>8. OnlyRowInv'
      <3>1. SUFFICES ASSUME Len(relations') = 1 PROVE FirstRow(relations[1])'
        BY DEF OnlyRowInv
      <3>2. relations'[1] = row
        BY <2>3, <3>1
      <3>3. QED
        BY <1>1, <1>2, <2>1, <3>2 DEF FirstRow
    <2>9. QED
      BY <1>1, <2>3, <2>5, <2>6, <2>7, <2>8 DEF RowsType
  <1>8. CASE Currents # {}
    <2>1. PICK n \in DOMAIN relations : Currents = {n}
      BY <1>8 DEF CurrentsInv
    <2> DEFINE row == [relations[n] EXCEPT !.seen = tells + 1]
    <2>2. /\ relations[n] \in RelationRows /\ relations[n].current
      BY <2>1 DEF RowsType, Currents
    <2>3. /\ row \in RelationRows /\ row.current = relations[n].current
          /\ row.terminated = relations[n].terminated /\ row.to = relations[n].to
          /\ row.end = relations[n].end
          /\ row.time = relations[n].time /\ row.from = relations[n].from
      <3>1. tells + 1 \in Int
        BY DEF RowsType
      <3>2. QED
        BY <2>2, <3>1 DEF RelationRows
    <2>4. relations' = [relations EXCEPT ![n] = row]
      <3>1. Latest(Currents) = n
        BY <2>1, LatestOfOne
      <3>2. QED
        BY <1>2, <1>6, <1>8, <3>1
    <2> HIDE DEF row
    <2>5. /\ relations' \in Seq(RelationRows)
          /\ Len(relations') = Len(relations) /\ DOMAIN relations' = DOMAIN relations
          /\ \A k \in DOMAIN relations : relations'[k] = IF k = n THEN row ELSE relations[k]
          /\ Currents' = IF row.current THEN Currents \cup {n} ELSE Currents \ {n}
      BY <2>3, <2>4, Replaced
    <2>6. CurrentsInv'
      <3>1. Currents' = {n}
        BY <2>1, <2>2, <2>3, <2>5
      <3>2. QED
        BY <1>1, <2>5, <3>1 DEF CurrentsInv
    <2>7. EndsInv'
      BY <1>1, <2>3, <2>5 DEF EndsInv
    <2>8. pending # "began"
      BY <1>8 DEF CurrentsInv, WorldInv
    <2>9. EpisodesInv'
      BY <1>1, <2>1, <2>5, <2>8 DEF EpisodesInv, WorldInv, RowsType
    <2>10. OnlyRowInv'
      <3>1. SUFFICES ASSUME Len(relations') = 1 PROVE FirstRow(relations[1])'
        BY DEF OnlyRowInv
      <3>2. FirstRow(relations[1]) /\ n = 1
        BY <2>5, <2>8, <3>1 DEF OnlyRowInv, RowsType
      <3>3. relations'[1] = row
        BY <2>5, <3>2
      <3>4. QED
        BY <1>1, <2>3, <3>2, <3>3 DEF FirstRow
    <2>11. QED
      BY <1>1, <2>5, <2>6, <2>7, <2>9, <2>10 DEF RowsType
  <1>9. QED
    BY <1>7, <1>8

\* An end terminates the current row, with a time that is told of it.
LEMMA TellEndedStep == ASSUME RelationInv, TellEnded PROVE RelationInv'
  <1> USE DEF RelationInv, RowsInv
  <1>1. /\ WorldInv' /\ FirstEpisode' /\ \A i \in Int : IsEnd(i) => IsEnd(i)'
        /\ UNCHANGED <<now, on, since, until, holds, episodes>>
        /\ pending' = "none" /\ tells' \in Nat /\ pending = "ended" /\ ~ on
    BY TellSteps DEF TellEnded, WorldInv
  <1>2. PICK n \in DOMAIN relations : Currents = {n}
    BY <1>1 DEF CurrentsInv
  <1> DEFINE Stored(t) == relations' = [relations EXCEPT ![n] = Terminated(@, t)]
  <1>3. \E form \in EndForms : \E t \in Told(form, until) : Stored(t)
    <2>1. relations # <<>> /\ Currents # {}
      BY <1>2
    <2>2. Latest(IF Currents # {} THEN Currents ELSE DOMAIN relations) = n
      BY <1>2, LatestOfOne
    <2>3. QED
      BY <2>1, <2>2 DEF TellEnded
  <1>4. PICK form \in EndForms : \E t \in Told(form, until) : Stored(t)
    BY <1>3
  <1>5. PICK t \in Told(form, until) : Stored(t)
    BY <1>4
  <1>6. t \in Times /\ until \in Int /\ IsEnd(until)
    BY <1>1, RelationFormsAssumption, ToldTypes, UntilIsEnd DEF WorldInv
  <1> DEFINE row == Terminated(relations[n], t)
  <1>7. relations[n] \in RelationRows
    BY DEF RowsType
  <1>8. /\ row \in RelationRows /\ ~ row.current /\ row.terminated /\ row.end = t
        /\ row.to = CalendarEndpoint(t) /\ row.time = relations[n].time
        /\ row.from = relations[n].from
    BY <1>6, <1>7, CalendarTypes DEF Terminated, RelationRows
  <1>9. relations' = [relations EXCEPT ![n] = row]
    BY <1>5
  <1> HIDE DEF row, Stored
  <1>10. /\ relations' \in Seq(RelationRows)
         /\ Len(relations') = Len(relations) /\ DOMAIN relations' = DOMAIN relations
         /\ \A k \in DOMAIN relations : relations'[k] = IF k = n THEN row ELSE relations[k]
         /\ Currents' = IF row.current THEN Currents \cup {n} ELSE Currents \ {n}
    BY <1>8, <1>9, Replaced
  <1>11. CurrentsInv'
    <2>1. Currents' = {}
      BY <1>2, <1>8, <1>10
    <2>2. QED
      BY <1>1, <2>1 DEF CurrentsInv
  <1>12. EndsInv'
    BY <1>1, <1>5, <1>6, <1>8, <1>10 DEF EndsInv
  <1>13. EpisodesInv'
    BY <1>1, <1>2, <1>10 DEF EpisodesInv, WorldInv, RowsType
  <1>14. OnlyRowInv'
    <2>1. SUFFICES ASSUME Len(relations') = 1 PROVE FirstRow(relations[1])'
      BY DEF OnlyRowInv
    <2>2. FirstRow(relations[1]) /\ n = 1
      BY <1>1, <1>10, <2>1 DEF OnlyRowInv, RowsType
    <2>3. relations'[1] = row
      BY <1>10, <2>2
    <2>4. QED
      BY <1>1, <1>5, <1>8, <2>2, <2>3 DEF FirstRow
  <1>15. QED
    BY <1>1, <1>10, <1>11, <1>12, <1>13, <1>14 DEF RowsType

\* A denial only takes the current row out of the present.
LEMMA TellOverStep == ASSUME RelationInv, TellOver PROVE RelationInv'
  <1> USE DEF RelationInv, RowsInv
  <1>1. /\ WorldInv' /\ FirstEpisode' /\ \A i \in Int : IsEnd(i) => IsEnd(i)'
        /\ UNCHANGED <<now, on, since, until, holds, episodes>>
        /\ pending' = "none" /\ tells' \in Nat /\ pending = "ended" /\ ~ on
    BY TellSteps DEF TellOver, WorldInv
  <1>2. PICK n \in DOMAIN relations : Currents = {n}
    BY <1>1 DEF CurrentsInv
  <1> DEFINE row == [relations[n] EXCEPT !.current = FALSE]
  <1>3. relations[n] \in RelationRows /\ relations[n].current
    BY <1>2 DEF RowsType, Currents
  <1>4. /\ row \in RelationRows /\ ~ row.current
        /\ row.terminated = relations[n].terminated /\ row.to = relations[n].to
        /\ row.end = relations[n].end
        /\ row.time = relations[n].time /\ row.from = relations[n].from
    BY <1>3 DEF RelationRows
  <1>5. relations' = [relations EXCEPT ![n] = row]
    <2>1. Currents # {} /\ Latest(Currents) = n
      BY <1>2, LatestOfOne
    <2>2. QED
      BY <2>1 DEF TellOver
  <1> HIDE DEF row
  <1>6. /\ relations' \in Seq(RelationRows)
        /\ Len(relations') = Len(relations) /\ DOMAIN relations' = DOMAIN relations
        /\ \A k \in DOMAIN relations : relations'[k] = IF k = n THEN row ELSE relations[k]
        /\ Currents' = IF row.current THEN Currents \cup {n} ELSE Currents \ {n}
    BY <1>4, <1>5, Replaced
  <1>7. CurrentsInv'
    <2>1. Currents' = {}
      BY <1>2, <1>4, <1>6
    <2>2. QED
      BY <1>1, <2>1 DEF CurrentsInv
  <1>8. EndsInv'
    BY <1>1, <1>4, <1>6 DEF EndsInv
  <1>9. EpisodesInv'
    BY <1>1, <1>2, <1>6 DEF EpisodesInv, WorldInv, RowsType
  <1>10. OnlyRowInv'
    <2>1. SUFFICES ASSUME Len(relations') = 1 PROVE FirstRow(relations[1])'
      BY DEF OnlyRowInv
    <2>2. FirstRow(relations[1]) /\ n = 1
      BY <1>1, <1>6, <2>1 DEF OnlyRowInv, RowsType
    <2>3. relations'[1] = row
      BY <1>6, <2>2
    <2>4. QED
      BY <1>1, <1>3, <1>4, <2>2, <2>3 DEF FirstRow
  <1>11. QED
    BY <1>1, <1>6, <1>7, <1>8, <1>9, <1>10 DEF RowsType

\* History is a row beside that of an episode.
LEMMA TellHistoryStep == ASSUME RelationInv, TellHistory PROVE RelationInv'
  <1> USE DEF RelationInv, RowsInv
  <1>1. /\ WorldInv' /\ FirstEpisode' /\ \A i \in Int : IsEnd(i) => IsEnd(i)'
        /\ UNCHANGED <<now, on, since, until, holds, episodes>>
        /\ pending' = "none" /\ tells' \in Nat /\ pending = "none"
    BY TellSteps DEF TellHistory
  <1>2. PICK i \in holds, form \in HistoryForms :
          \E t \in Told(form, i) : relations' = Append(relations, NewRow("historical", t))
    BY DEF TellHistory
  <1>3. PICK t \in Told(form, i) : relations' = Append(relations, NewRow("historical", t))
    BY <1>2
  <1>4. t \in Times
    <2>1. i \in Int /\ form \in TimeForms
      BY RelationFormsAssumption DEF WorldInv
    <2>2. QED
      BY <1>3, <2>1, ToldTypes
  <1> DEFINE row == NewRow("historical", t)
  <1>5. row \in RelationRows /\ ~ row.current /\ ~ row.terminated
    BY <1>4, NewRowType DEF NewRow, IsCurrent
  <1>6. relations' = Append(relations, row)
    BY <1>3
  <1> HIDE DEF row
  <1>7. /\ relations' \in Seq(RelationRows)
        /\ Len(relations) \in Nat /\ DOMAIN relations = 1 .. Len(relations)
        /\ Len(relations') = Len(relations) + 1 /\ DOMAIN relations' = 1 .. Len(relations) + 1
        /\ \A k \in DOMAIN relations : relations'[k] = relations[k]
        /\ relations'[Len(relations) + 1] = row
        /\ Currents' = IF row.current THEN Currents \cup {Len(relations) + 1} ELSE Currents
    BY <1>5, <1>6, Appended
  <1>8. CurrentsInv'
    <2>1. Currents' = Currents /\ DOMAIN relations \subseteq DOMAIN relations'
      BY <1>5, <1>7
    <2>2. QED
      BY <1>1, <2>1 DEF CurrentsInv
  <1>9. EndsInv'
    BY <1>1, <1>5, <1>7 DEF EndsInv
  <1>10. episodes > 0 /\ episodes <= Len(relations) /\ episodes \in Nat
    BY <1>1, <1>2 DEF EpisodesInv, WorldInv
  <1>11. EpisodesInv'
    BY <1>1, <1>7, <1>10 DEF EpisodesInv
  <1>12. OnlyRowInv'
    <2>1. Len(relations') # 1
      BY <1>7, <1>10
    <2>2. QED
      BY <2>1 DEF OnlyRowInv
  <1>13. QED
    BY <1>1, <1>7, <1>8, <1>9, <1>11, <1>12 DEF RowsType

LEMMA NextRelation == RelationInv /\ [RelationNext]_relationVars => RelationInv'
  <1> SUFFICES ASSUME RelationInv, [RelationNext]_relationVars PROVE RelationInv'
    OBVIOUS
  <1>1. CASE UNCHANGED relationVars
    <2>1. UNCHANGED <<now, on, since, until, holds, episodes, pending, relations, tells>>
      BY <1>1 DEF relationVars, world
    <2>2. WorldInv' /\ FirstEpisode' /\ \A i \in Int : IsEnd(i) => IsEnd(i)'
      BY <2>1 DEF RelationInv, WorldInv, FirstEpisode, IsEnd, Start, LocalMidnight
    <2>3. RowsType' /\ CurrentsInv' /\ EpisodesInv'
      BY <2>1 DEF RelationInv, RowsInv, RowsType, CurrentsInv, EpisodesInv, Currents
    <2>4. EndsInv'
      BY <2>1, <2>2 DEF RelationInv, RowsInv, EndsInv
    <2>5. OnlyRowInv'
      BY <2>1 DEF RelationInv, RowsInv, OnlyRowInv, FirstRow
    <2>6. QED
      BY <2>2, <2>3, <2>4, <2>5 DEF RelationInv, RowsInv
  <1>2. QED
    BY <1>1, WorldSteps, TellBeganStep, TellEndedStep, TellOverStep, TellHistoryStep
       DEF RelationNext

-----------------------------------------------------------------------------
(* Answers about a relation.                                               *)

\* A set of positions has a first one: by induction over its initial segments.
LEMMA FirstOf ==
  ASSUME NEW ks, NEW n \in Nat, ks \subseteq 1 .. n, ks # {}
  PROVE  LET first == CHOOSE k \in ks : \A j \in ks : k <= j IN
         first \in ks
  <1> DEFINE Upto(k) == {j \in ks : j <= k}
             F == {Upto(k) : k \in ks}
  <1>1. IsFiniteSet(1 .. n)
    BY FS_Interval
  <1>2. IsWellFoundedOn(StrictSubsetOrdering(1 .. n), FiniteSubsetsOf(1 .. n))
    BY <1>1, FS_StrictSubsetOrderingWellFounded
  <1>3. F \subseteq FiniteSubsetsOf(1 .. n) /\ F # {}
    <2>1. ASSUME NEW k \in ks PROVE Upto(k) \in FiniteSubsetsOf(1 .. n)
      <3>1. Upto(k) \in SUBSET (1 .. n)
        OBVIOUS
      <3>2. IsFiniteSet(Upto(k))
        BY <1>1, <3>1, FS_Subset
      <3>3. QED
        BY <3>1, <3>2 DEF FiniteSubsetsOf
    <2>2. QED
      BY <2>1
  <1>4. PICK K \in F : \A L \in F : ~ (<<L, K>> \in StrictSubsetOrdering(1 .. n))
    BY <1>2, <1>3, WFMin
  <1>5. \A L \in F : L \subseteq K => L = K
    BY <1>3, <1>4 DEF StrictSubsetOrdering, FiniteSubsetsOf
  <1>6. PICK k \in ks : K = Upto(k)
    OBVIOUS
  <1>7. ASSUME NEW j \in ks PROVE k <= j
    <2>1. SUFFICES ASSUME j < k PROVE FALSE
      OBVIOUS
    <2>2. \A i \in ks : i \in Int
      OBVIOUS
    <2>3. Upto(j) \subseteq Upto(k) /\ k \in Upto(k)
      <3>1. \A i \in ks : i <= j => i <= k
        BY <2>1, <2>2
      <3>2. k <= k
        BY <2>2
      <3>3. QED
        BY <3>1, <3>2
    <2>5. Upto(j) \in F
      OBVIOUS
    <2>6. k \in Upto(j)
      <3> HIDE DEF F, Upto
      <3>1. QED
        BY <1>5, <1>6, <2>3, <2>5
    <2>7. QED
      BY <2>1, <2>2, <2>6
  <1>8. QED
    BY <1>7

LEMMA CurrentTrue == RelationInv => CurrentIsTrue
  <1> SUFFICES ASSUME RelationInv, pending = "none"
               PROVE  CurrentAnswer = (IF on THEN "yes" ELSE "no")
    BY DEF CurrentIsTrue
  <1>1. CASE on
    <2>1. PICK k : Currents = {k}
      BY <1>1 DEF RelationInv, RowsInv, CurrentsInv
    <2>2. Cardinality(Currents) = 1
      BY <2>1, FS_Singleton
    <2>3. QED
      BY <1>1, <2>1, <2>2 DEF CurrentAnswer
  <1>2. CASE ~ on
    BY <1>2 DEF RelationInv, RowsInv, CurrentsInv, CurrentAnswer
  <1>3. QED
    BY <1>1, <1>2

LEMMA EndsTrue == RelationInv => EndIsNotInvented
  <1> SUFFICES ASSUME RelationInv, TerminationAnswer.answer = "yes"
               PROVE  \E i \in Possible(TerminationAnswer.end, Start + 1 .. now) :
                        i - 1 \in holds /\ i \notin holds
    BY DEF EndIsNotInvented
  <1> DEFINE ended == {k \in DOMAIN relations : relations[k].terminated \/ ~ relations[k].current}
             first == CHOOSE k \in ended : \A j \in ended : k <= j
             row   == relations[first]
  <1>1. TerminationAnswer =
          IF ended = {} THEN [answer |-> "no", end |-> Unknown]
          ELSE [answer |-> IF row.terminated /\ TerminationCalendarKnown(row.end) THEN "yes"
                           ELSE "unknown",
                end |-> row.end]
    BY DEF TerminationAnswer
  <1>2. Len(relations) \in Nat /\ ended \subseteq 1 .. Len(relations)
    BY DEF RelationInv, RowsInv, RowsType
  <1>3. ended # {} => first \in ended
    BY <1>2, FirstOf
  <1>4. ended \subseteq DOMAIN relations
    OBVIOUS
  <1> HIDE DEF ended, first
  <1>5. first \in DOMAIN relations /\ row.terminated /\ TerminationAnswer.end = row.end
    BY <1>1, <1>3, <1>4
  <1>6. PICK form \in EndForms, i \in Int : IsEnd(i) /\ row.end \in Told(form, i)
    BY <1>5 DEF RelationInv, RowsInv, EndsInv
  <1>7. /\ i \in Start + 1 .. now /\ i - 1 \in holds /\ i \notin holds
        /\ form \in TimeForms
    BY <1>6, RelationFormsAssumption DEF IsEnd
  <1>8. i \in Possible(row.end, Start + 1 .. now)
    BY <1>6, <1>7, ToldIsPossible
  <1>9. QED
    BY <1>5, <1>7, <1>8

\* A date that is exact is that of the instant it is told of.
LEMMA ExactTime ==
  ASSUME NEW form \in TimeForms, NEW i \in Int, NEW t \in Told(form, i), Exact(t)
  PROVE  CalendarStart(t) \in {i, NoTime} /\ CalendarEndpoint(t) \in {i, NoTime}
  <1>1. t.form = form
    BY ToldTypes
  <1>2. CASE form = "minute"
    BY <1>2, ToldOfMinute DEF CalendarStart, CalendarEndpoint, Time
  <1>3. CASE form # "minute"
    <2>1. form \in {"past", "ongoing", "unknown"}
      BY <1>1, <1>3 DEF Exact
    <2>2. QED
      BY <1>1, <2>1 DEF CalendarStart, CalendarEndpoint
  <1>4. QED
    BY <1>2, <1>3

LEMMA HeldThroughout == RelationInv => HeldIsThroughout
  <1> SUFFICES ASSUME RelationInv, pending = "none", OneExactRow,
                      NEW a \in Start .. now, NEW b \in a + 1 .. now
               PROVE  /\ WasHeld(a, b) = "yes" => (a .. (b - 1)) \subseteq holds
                      /\ WasHeld(a, b) = "no" => (a .. (b - 1)) \cap holds = {}
    BY DEF HeldIsThroughout
  <1> DEFINE row == relations[1]
             to  == IF row.current THEN NoTime ELSE row.to
  <1>1. /\ Len(relations) = 1 /\ Exact(row.time) /\ Exact(row.end) /\ FirstRow(row)
        /\ 1 \in DOMAIN relations /\ row.current \in BOOLEAN /\ relations # <<>>
    <2>1. Len(relations) = 1 /\ Exact(row.time) /\ Exact(row.end) /\ FirstRow(row)
      BY DEF RelationInv, RowsInv, OneExactRow, OnlyRowInv
    <2>2. 1 \in DOMAIN relations /\ row \in RelationRows /\ relations # <<>>
      <3>1. relations \in Seq(RelationRows)
        BY DEF RelationInv, RowsInv, RowsType
      <3>2. 1 \in 1 .. Len(relations) /\ DOMAIN relations = 1 .. Len(relations)
        BY <2>1, <3>1
      <3>3. row \in RelationRows
        BY <3>1, <3>2
      <3>4. QED
        BY <3>2, <3>3
    <2>3. QED
      BY <2>1, <2>2 DEF RelationRows
  <1>2. /\ now \in Nat /\ since \in Nat /\ until \in Nat /\ since <= now
        /\ a \in Nat /\ b \in Nat /\ a < b /\ b <= now
    BY StartType DEF RelationInv, WorldInv
  <1>3. episodes = 1
    BY <1>1 DEF RelationInv, WorldInv, RowsInv, EpisodesInv
  <1>4. holds = since .. (IF on THEN now - 1 ELSE until - 1)
    BY <1>3 DEF RelationInv, FirstEpisode
  <1>5. row.current <=> on
    <2>1. on => \E k \in DOMAIN relations : Currents = {k}
      BY DEF RelationInv, RowsInv, CurrentsInv
    <2>2. ~ on => Currents = {}
      BY DEF RelationInv, RowsInv, CurrentsInv
    <2>3. DOMAIN relations = {1}
      BY <1>1 DEF RelationInv, RowsInv, RowsType
    <2>4. QED
      BY <2>1, <2>2, <2>3 DEF Currents
  <1>6. row.from \in {since, NoTime}
    BY <1>1, <1>2, ExactTime, RelationFormsAssumption DEF FirstRow
  <1>7. to \in {until, NoTime} /\ (row.current => to = NoTime)
    BY <1>1, <1>2, ExactTime, RelationFormsAssumption DEF FirstRow
  <1> DEFINE held == ValidityMembership(row.from, to, a, b, row.current)
  <1>8. WasHeld(a, b) = CASE held = "match"    -> "yes"
                             [] held = "no_match" -> "no"
                             [] OTHER -> "unknown"
    BY <1>1 DEF WasHeld, HeldMembership
  <1> HIDE DEF to, row
  <1>9. held = "match" => (a .. (b - 1)) \subseteq holds
    <2>1. CASE on
      BY <1>2, <1>4, <1>5, <1>6, <1>7, <2>1 DEF ValidityMembership, NoTime
    <2>2. CASE ~ on
      BY <1>2, <1>4, <1>5, <1>6, <1>7, <2>2 DEF ValidityMembership, NoTime
    <2>3. QED
      BY <2>1, <2>2
  <1>10. held = "no_match" => (a .. (b - 1)) \cap holds = {}
    <2>1. CASE on
      BY <1>2, <1>4, <1>5, <1>6, <1>7, <2>1 DEF ValidityMembership, NoTime
    <2>2. CASE ~ on
      BY <1>2, <1>4, <1>5, <1>6, <1>7, <2>2 DEF ValidityMembership, NoTime
    <2>3. QED
      BY <2>1, <2>2
  <1> HIDE DEF held
  <1>11. QED
    BY <1>8, <1>9, <1>10

-----------------------------------------------------------------------------
(* TemporalAnswers: the theorems.                                          *)

AnswersInv == RelationInv /\ ObservedTruly

LEMMA AnswersInvariant == AnswersSpec => []AnswersInv
  <1>1. AnswersInit => AnswersInv
    BY InitRelation, InitObservedTruly DEF AnswersInit, AnswersInv
  <1>2. AnswersInv /\ [AnswersNext]_answersVars => AnswersInv'
    <2> SUFFICES ASSUME AnswersInv, [AnswersNext]_answersVars PROVE AnswersInv'
      OBVIOUS
    <2>1. [RelationNext]_relationVars /\ [ObservationNext]_observed
      BY DEF AnswersNext, TellOfRelation, TellOfThing, answersVars
    <2>2. QED
      BY <2>1, NextRelation, NextObservedTruly DEF AnswersInv
  <1>3. QED
    BY <1>1, <1>2, PTL DEF AnswersSpec

\* Of a relation whose beginnings were told with an instant, a day, as going on
\* or with no time at all (BeginningsAssumption: not with a month or a year, as
\* past or as planned, which the code stores as not current, and of which it is
\* false): while the user has told what there is to tell, the answer to whether
\* it holds is the truth, through beginnings, ends, denials, retellings and
\* history; and an end is answered with only if there was one at an instant that
\* the answered date allows.
THEOREM RelationTrue == AnswersSpec => []RelationIsTrue
  <1>1. AnswersInv => RelationIsTrue
    BY CurrentTrue, EndsTrue DEF AnswersInv, RelationIsTrue
  <1>2. QED
    BY <1>1, AnswersInvariant, PTL

\* Held during a range means throughout it: a yes says that the relation held
\* at each of its instants and a no that it held at none, of a relation that is
\* stored as one row without coarse dates.
THEOREM HeldTrue == AnswersSpec => []HeldIsThroughout
  <1>1. AnswersInv => HeldIsThroughout
    BY HeldThroughout DEF AnswersInv
  <1>2. QED
    BY <1>1, AnswersInvariant, PTL

\* What is answered of a range of observations, which values, whether it was
\* this one, how many and how much, is true of the instants at which they were
\* made, up to what the answer itself leaves open, in whatever form and order
\* they were told and whatever was retracted since.
THEOREM RangesAnswered == AnswersSpec => []RangesAreTrue
  <1>1. AnswersInv => RangesAreTrue
    BY RangesTrue DEF AnswersInv
  <1>2. QED
    BY <1>1, AnswersInvariant, PTL

\* A value that is answered as the latest with certainty was the last observed,
\* and the events answered as the latest of a range, with none left open, were
\* the last in it, as long as no instant stands for a day or a period.
THEOREM LatestAnswered == AnswersSpec => []LatestIsCertain
  <1>1. AnswersInv => LatestIsCertain
    BY LatestCertain DEF AnswersInv
  <1>2. QED
    BY <1>1, AnswersInvariant, PTL

-----------------------------------------------------------------------------
(* AnswerTurns: its rows; of the dimensions that have one value at a       *)
(* time, one row of a thing is current.                                    *)

HasOne(dim) == dim \in Singleton \cup {"state"}

OneCurrent ==
  \A j, k \in DOMAIN rows :
    rows[j].current /\ rows[k].current /\ rows[j].of = rows[k].of /\ rows[j].dim = rows[k].dim
    /\ HasOne(rows[j].dim) => j = k

KnowledgeRow(row) ==
  /\ row \in RowType
  /\ row.table \in {"state", "measurement"} => row.dim = row.table

KnowledgeInv ==
  /\ rows \in Seq(RowType)
  /\ \A k \in DOMAIN rows : KnowledgeRow(rows[k])
  /\ OneCurrent

LEMMA RowFields ==
  ASSUME NEW row, KnowledgeRow(row)
  PROVE  /\ row.current \in BOOLEAN /\ row.date \in Dates
         /\ row.table = "relation" => row.dim = "owns" /\ row.of = Principal /\ row.value \in Things
         /\ row.table # "relation" => row.of \in Described /\ row.value \in Values
         /\ row.table = "attribute" => row.dim \in Singleton \cup Plural
         /\ row.table \in {"state", "measurement"} => row.dim = row.table
         /\ row.table \in {"relation", "attribute", "state", "measurement"}
         /\ row.dim = "state" => row.table = "state"
         /\ row.dim \in Singleton => row.table = "attribute"
  BY DimensionsAssumption DEF KnowledgeRow, RowType

LEMMA ClosedRow ==
  ASSUME NEW row, KnowledgeRow(row)
  PROVE  LET closed == [row EXCEPT !.current = FALSE] IN
         /\ KnowledgeRow(closed) /\ ~ closed.current
         /\ closed.of = row.of /\ closed.dim = row.dim
  BY DEF KnowledgeRow, RowType

LEMMA Added ==
  ASSUME KnowledgeInv, NEW ks \in SUBSET DOMAIN rows, NEW row, KnowledgeRow(row),
         CloseAndAdd(ks, row),
         row.current /\ HasOne(row.dim) =>
           \A k \in DOMAIN rows : rows[k].current /\ rows[k].of = row.of /\ rows[k].dim = row.dim
                                    => k \in ks
  PROVE  KnowledgeInv'
  <1> DEFINE n == Len(rows)
             kept == [k \in DOMAIN rows |-> IF k \in ks THEN [rows[k] EXCEPT !.current = FALSE]
                                            ELSE rows[k]]
  <1>1. n \in Nat /\ DOMAIN rows = 1 .. n
    BY DEF KnowledgeInv
  <1>2. \A k \in DOMAIN rows : KnowledgeRow(kept[k]) /\ kept[k] \in RowType
    BY ClosedRow DEF KnowledgeInv, KnowledgeRow
  <1>3. \A k \in DOMAIN rows : /\ kept[k].of = rows[k].of /\ kept[k].dim = rows[k].dim
                               /\ kept[k].current => rows[k].current /\ k \notin ks
    BY ClosedRow DEF KnowledgeInv
  <1>4. DOMAIN kept = 1 .. n /\ kept = [k \in 1 .. n |-> kept[k]]
    BY <1>1
  <1>5. rows' = Append(kept, row)
    BY DEF CloseAndAdd
  <1> HIDE DEF kept, n
  <1>6. kept \in Seq(RowType) /\ Len(kept) = n
    <2>1. \A k \in 1 .. n : kept[k] \in RowType
      BY <1>1, <1>2
    <2>2. kept \in [1 .. n -> RowType]
      BY <1>4, <2>1
    <2>3. QED
      BY <1>1, <1>4, <2>2
  <1>7. row \in RowType
    BY DEF KnowledgeRow
  <1>8. /\ rows' \in Seq(RowType) /\ DOMAIN rows' = 1 .. n + 1
        /\ \A k \in 1 .. n : rows'[k] = kept[k]
        /\ rows'[n + 1] = row
    BY <1>1, <1>5, <1>6, <1>7
  <1>9. ASSUME NEW k \in DOMAIN rows' PROVE KnowledgeRow(rows'[k])
    BY <1>1, <1>2, <1>8
  <1>10. OneCurrent'
    <2> SUFFICES ASSUME NEW j \in DOMAIN rows', NEW k \in DOMAIN rows',
                        rows'[j].current, rows'[k].current, rows'[j].of = rows'[k].of,
                        rows'[j].dim = rows'[k].dim, HasOne(rows'[j].dim)
                 PROVE  j = k
      BY DEF OneCurrent, HasOne
    <2>1. CASE j \in 1 .. n /\ k \in 1 .. n
      BY <1>1, <1>3, <1>8, <2>1 DEF KnowledgeInv, OneCurrent
    <2>2. CASE j = n + 1 /\ k \in 1 .. n
      BY <1>1, <1>3, <1>8, <2>2
    <2>3. CASE k = n + 1 /\ j \in 1 .. n
      BY <1>1, <1>3, <1>8, <2>3
    <2>4. QED
      BY <1>1, <1>8, <2>1, <2>2, <2>3
  <1>11. QED
    BY <1>8, <1>9, <1>10 DEF KnowledgeInv, KnowledgeRow

LEMMA TellKnowledge == ASSUME KnowledgeInv, Tell PROVE KnowledgeInv'
  <1>1. ASSUME NEW thing \in Things, TellNoLonger(thing) PROVE KnowledgeInv'
    <2>1. PICK n \in DOMAIN rows : rows' = [rows EXCEPT ![n].current = FALSE]
      BY <1>1 DEF TellNoLonger, CurrentOf
    <2> DEFINE row == [rows[n] EXCEPT !.current = FALSE]
    <2>2. KnowledgeRow(row) /\ ~ row.current
      BY ClosedRow DEF KnowledgeInv
    <2>3. rows' = [rows EXCEPT ![n] = row]
      BY <2>1
    <2>4. row \in RowType
      BY <2>2 DEF KnowledgeRow
    <2> HIDE DEF row
    <2>5. /\ rows' \in Seq(RowType) /\ DOMAIN rows' = DOMAIN rows
          /\ \A k \in DOMAIN rows : rows'[k] = IF k = n THEN row ELSE rows[k]
      BY <2>3, <2>4 DEF KnowledgeInv
    <2>6. OneCurrent'
      BY <2>2, <2>5 DEF KnowledgeInv, OneCurrent, HasOne
    <2>7. \A k \in DOMAIN rows' : KnowledgeRow(rows'[k])
      BY <2>2, <2>5 DEF KnowledgeInv
    <2>8. QED
      BY <2>5, <2>6, <2>7 DEF KnowledgeInv, KnowledgeRow
  <1>2. ASSUME NEW date \in Dates, NEW thing \in Things, TellRelation(thing, date)
        PROVE  KnowledgeInv'
    <2> DEFINE row == Row("relation", Principal, "owns", thing, TRUE, date)
    <2>1. KnowledgeRow(row) /\ ~ HasOne(row.dim)
      BY DimensionsAssumption DEF KnowledgeRow, RowType, Row, HasOne
    <2>2. CloseAndAdd({}, row)
      BY <1>2 DEF TellRelation
    <2>3. QED
      BY <2>1, <2>2, Added
  <1>3. ASSUME NEW date \in Dates, NEW thing \in Described, NEW value \in Values,
               TellState(thing, value, date)
        PROVE  KnowledgeInv'
    <2> DEFINE row == Row("state", thing, "state", value, TRUE, date)
               ks  == CurrentOf("state", thing, "state")
    <2>1. KnowledgeRow(row) /\ row.of = thing /\ row.dim = "state"
      BY DEF KnowledgeRow, RowType, Row
    <2>2. CloseAndAdd(ks, row) /\ ks \in SUBSET DOMAIN rows
      BY <1>3 DEF TellState, CurrentOf
    <2>3. \A k \in DOMAIN rows : rows[k].current /\ rows[k].of = thing /\ rows[k].dim = "state"
                                   => k \in ks
      BY RowFields DEF CurrentOf, KnowledgeInv
    <2> HIDE DEF row, ks
    <2>4. QED
      BY <2>1, <2>2, <2>3, Added
  <1>4. ASSUME NEW date \in Dates, NEW thing \in Described, NEW value \in Values,
               TellMeasurement(thing, value, date)
        PROVE  KnowledgeInv'
    <2> DEFINE row == Row("measurement", thing, "measurement", value, FALSE, date)
    <2>1. KnowledgeRow(row) /\ ~ row.current
      BY DEF KnowledgeRow, RowType, Row
    <2>2. CloseAndAdd({}, row)
      BY <1>4 DEF TellMeasurement
    <2>3. QED
      BY <2>1, <2>2, Added
  <1>5. ASSUME NEW date \in Dates, NEW thing \in Described, NEW value \in Values,
               NEW dim \in Singleton \cup Plural, NEW current \in BOOLEAN,
               TellAttribute(thing, dim, value, current, date)
        PROVE  KnowledgeInv'
    <2> DEFINE row == Row("attribute", thing, dim, value, current, date)
               ks  == IF current /\ dim \in Singleton THEN CurrentOf("attribute", thing, dim) ELSE {}
    <2>1. KnowledgeRow(row) /\ row.of = thing /\ row.dim = dim /\ row.current = current
      BY DEF KnowledgeRow, RowType, Row
    <2>2. CloseAndAdd(ks, row) /\ ks \in SUBSET DOMAIN rows
      BY <1>5 DEF TellAttribute, CurrentOf
    <2>3. HasOne(dim) => dim \in Singleton
      BY DimensionsAssumption DEF HasOne
    <2>4. current /\ HasOne(dim) =>
            \A k \in DOMAIN rows : rows[k].current /\ rows[k].of = thing /\ rows[k].dim = dim
                                     => k \in ks
      BY <2>3, RowFields DEF CurrentOf, KnowledgeInv
    <2> HIDE DEF row, ks
    <2>5. QED
      BY <2>1, <2>2, <2>4, Added
  <1>6. QED
    BY <1>1, <1>2, <1>3, <1>4, <1>5 DEF Tell

-----------------------------------------------------------------------------
(* Rows that are chosen out of several.                                    *)

\* Out of a finite set, a total order chooses one: by induction over what is
\* not before it.
LEMMA Chosen ==
  ASSUME NEW n \in Nat, NEW ks \in SUBSET (1 .. n), ks # {}, NEW R \in SUBSET (ks \X ks),
         \A i, j \in ks : <<i, j>> \in R \/ <<j, i>> \in R,
         \A i, j, k \in ks : <<i, j>> \in R /\ <<j, k>> \in R => <<i, k>> \in R
  PROVE  \E k \in ks : \A j \in ks : <<j, k>> \in R
  <1> DEFINE Beyond(k) == {j \in ks : <<j, k>> \notin R}
             F == {Beyond(k) : k \in ks}
  <1>1. IsFiniteSet(1 .. n)
    BY FS_Interval
  <1>2. IsWellFoundedOn(StrictSubsetOrdering(1 .. n), FiniteSubsetsOf(1 .. n))
    BY <1>1, FS_StrictSubsetOrderingWellFounded
  <1>3. F \subseteq FiniteSubsetsOf(1 .. n) /\ F # {}
    <2>1. ASSUME NEW k \in ks PROVE Beyond(k) \in FiniteSubsetsOf(1 .. n)
      <3>1. Beyond(k) \in SUBSET (1 .. n)
        OBVIOUS
      <3>2. IsFiniteSet(Beyond(k))
        BY <1>1, <3>1, FS_Subset
      <3>3. QED
        BY <3>1, <3>2 DEF FiniteSubsetsOf
    <2>2. F # {}
      <3>1. PICK k \in ks : TRUE
        OBVIOUS
      <3>2. Beyond(k) \in F
        OBVIOUS
      <3>3. QED
        BY <3>2
    <2>3. ASSUME NEW L \in F PROVE L \in FiniteSubsetsOf(1 .. n)
      <3>1. PICK k \in ks : L = Beyond(k)
        OBVIOUS
      <3>2. QED
        BY <2>1, <3>1
    <2>4. QED
      BY <2>2, <2>3
  <1>4. PICK K \in F : \A L \in F : ~ (<<L, K>> \in StrictSubsetOrdering(1 .. n))
    BY <1>2, <1>3, WFMin
  <1>5. \A L \in F : L \subseteq K => L = K
    BY <1>3, <1>4 DEF StrictSubsetOrdering, FiniteSubsetsOf
  <1>6. PICK k \in ks : K = Beyond(k)
    OBVIOUS
  <1>7. ASSUME NEW j \in ks, <<j, k>> \notin R PROVE FALSE
    <2>1. <<k, j>> \in R /\ <<j, j>> \in R
      BY <1>7
    <2>2. Beyond(j) \subseteq Beyond(k)
      BY <2>1
    <2>3. j \in Beyond(k) /\ j \notin Beyond(j) /\ Beyond(j) \in F
      BY <1>7, <2>1
    <2> HIDE DEF F, Beyond
    <2>4. QED
      BY <1>5, <1>6, <2>2, <2>3
  <1>8. QED
    BY <1>7

LEMMA NewestIn ==
  ASSUME KnowledgeInv, NEW ks \in SUBSET DOMAIN rows, ks # {}
  PROVE  Newest(ks) \in ks
  <1> DEFINE Before(j, k) == rows[j].date < rows[k].date \/ (rows[j].date = rows[k].date /\ j <= k)
             R == {p \in ks \X ks : Before(p[1], p[2])}
  <1>1. Len(rows) \in Nat /\ DOMAIN rows = 1 .. Len(rows)
    BY DEF KnowledgeInv
  <1>2. \A k \in ks : k \in Int /\ rows[k].date \in Int
    BY <1>1, RowFields DEF KnowledgeInv, Dates
  <1>3. \A i, j \in ks : <<i, j>> \in R <=> Before(i, j)
    OBVIOUS
  <1>4. \A i, j \in ks : Before(i, j) \/ Before(j, i)
    BY <1>2
  <1>5. \A i, j, k \in ks : Before(i, j) /\ Before(j, k) => Before(i, k)
    BY <1>2
  <1>6. R \in SUBSET (ks \X ks)
    OBVIOUS
  <1>7. \E k \in ks : \A j \in ks : <<j, k>> \in R
    <2> HIDE DEF R, Before
    <2>1. QED
      BY <1>1, <1>3, <1>4, <1>5, <1>6, Chosen
  <1>8. \E k \in ks : \A j \in ks : Before(j, k)
    BY <1>3, <1>7
  <1>9. QED
    BY <1>8 DEF Newest

LEMMA OldestIn ==
  ASSUME KnowledgeInv, NEW ks \in SUBSET DOMAIN rows, ks # {}
  PROVE  Oldest(ks) \in ks
  <1> DEFINE Before(j, k) == rows[k].date < rows[j].date \/ (rows[j].date = rows[k].date /\ k <= j)
             R == {p \in ks \X ks : Before(p[1], p[2])}
  <1>1. Len(rows) \in Nat /\ DOMAIN rows = 1 .. Len(rows)
    BY DEF KnowledgeInv
  <1>2. \A k \in ks : k \in Int /\ rows[k].date \in Int
    BY <1>1, RowFields DEF KnowledgeInv, Dates
  <1>3. \A i, j \in ks : <<i, j>> \in R <=> Before(i, j)
    OBVIOUS
  <1>4. \A i, j \in ks : Before(i, j) \/ Before(j, i)
    BY <1>2
  <1>5. \A i, j, k \in ks : Before(i, j) /\ Before(j, k) => Before(i, k)
    BY <1>2
  <1>6. R \in SUBSET (ks \X ks)
    OBVIOUS
  <1>7. \E k \in ks : \A j \in ks : <<j, k>> \in R
    <2> HIDE DEF R, Before
    <2>1. QED
      BY <1>1, <1>3, <1>4, <1>5, <1>6, Chosen
  <1>8. \E k \in ks : \A j \in ks : Before(j, k)
    BY <1>3, <1>7
  <1>9. QED
    BY <1>8 DEF Oldest

LEMMA FirstIn ==
  ASSUME KnowledgeInv, NEW ks \in SUBSET DOMAIN rows, ks # {}
  PROVE  LET first == CHOOSE k \in ks : \A j \in ks : k <= j IN first \in ks
  <1> DEFINE R == {p \in ks \X ks : p[2] <= p[1]}
  <1>1. Len(rows) \in Nat /\ DOMAIN rows = 1 .. Len(rows)
    BY DEF KnowledgeInv
  <1>2. \A k \in ks : k \in Int
    BY <1>1
  <1>3. \A i, j \in ks : <<i, j>> \in R <=> j <= i
    OBVIOUS
  <1>4. R \in SUBSET (ks \X ks)
    OBVIOUS
  <1>9. \A i, j \in ks : j <= i \/ i <= j
    BY <1>2
  <1>10. \A i, j, k \in ks : j <= i /\ k <= j => k <= i
    BY <1>2
  <1> HIDE DEF R
  <1>5. \A i, j \in ks : <<i, j>> \in R \/ <<j, i>> \in R
    BY <1>3, <1>9
  <1>6. \A i, j, k \in ks : <<i, j>> \in R /\ <<j, k>> \in R => <<i, k>> \in R
    BY <1>3, <1>10
  <1>7. \E k \in ks : \A j \in ks : <<j, k>> \in R
    <2> HIDE DEF R
    <2>1. QED
      BY <1>1, <1>4, <1>5, <1>6, Chosen
  <1>8. QED
    BY <1>3, <1>7

LEMMA RankedIn ==
  ASSUME KnowledgeInv, NEW ks \in SUBSET DOMAIN rows
  PROVE  RankMatches(ks) \subseteq ks /\ (ks = {} => RankMatches(ks) = {})
  BY NewestIn DEF RankMatches, Dated

LEMMA OnlyIn ==
  ASSUME NEW S
  PROVE  Only(S) \in S \cup {Nothing}
  <1>1. Single(S) => S # {}
    BY FS_EmptySet DEF Single
  <1>2. QED
    BY <1>1 DEF Only

LEMMA OnlyOne ==
  ASSUME NEW v
  PROVE  Only({v}) = v
  BY FS_Singleton DEF Only, Single

-----------------------------------------------------------------------------
(* What presenting keeps of a result.                                      *)

Answers == {"yes", "no", "unknown"}

\* What a result of the engine may hold: no name or value in it reads as an
\* answer.
Shape(result) ==
  /\ result.relation \in Answers \cup {Nothing}
  /\ result.proposition \in {Nothing, "yes", "unknown", "temporally_unknown", "ambiguous"}
  /\ result.related \subseteq DOMAIN rows
  /\ result.values \subseteq Values \cup Entities
  /\ result.state \in Values \cup {Nothing}

LEMMA NoAnswerAmong ==
  ASSUME NEW S \in SUBSET (Values \cup Entities)
  PROVE  Only(S) \notin Answers
  BY OnlyIn, WordsAssumption DEF Answers, Nothing

LEMMA NoneOfNone == Only({}) = Nothing
  BY FS_EmptySet DEF Only, Single

LEMMA InputFields ==
  ASSUME NEW r
  PROVE  LET in == PresenterInput(r) IN
         /\ in.relation = RelationAnswer(r.data) /\ in.value = r.data.value
         /\ in.operation = r.operation
         /\ in.status = IF r.type = "error" THEN "error"
                        ELSE IF /\ r.data.status = "no_results"
                                /\ \/ RelationAnswer(r.data) \in {"yes", "no"}
                                   \/ ItemValues(r.data) # {}
                                   \/ r.data.value # Nothing
                          THEN "answered"
                        ELSE r.data.status
  BY DEF PresenterInput, HasKnowledge

\* What the rows of a result are named.
LEMMA NamesOfRows ==
  ASSUME KnowledgeInv, NEW ks \in SUBSET DOMAIN rows
  PROVE  {rows[k].value : k \in ks} \in SUBSET (Values \cup Entities)
  <1>1. \A k \in ks : rows[k].value \in Values \cup Entities
    BY RowFields DEF KnowledgeInv, Entities
  <1>2. QED
    BY <1>1

\* What the data of a response says of the result.
Says(data, result) ==
  /\ data.status \in {"answered", "unknown", "needs_clarification", "no_results"}
  /\ RelationAnswer(data) = "yes" => result.relation = "yes" \/ result.proposition = "yes"
  /\ RelationAnswer(data) = "no" => result.relation = "no" /\ data.status = "answered"
  /\ data.value \in {Nothing, Only(result.values), result.state}

LEMMA RelationSaid ==
  ASSUME NEW result, Shape(result), result.relation # Nothing, NEW entity
  PROVE  Says(ProjectRelationAnswer(result, entity), result)
  BY DEF Says, Shape, Answers, ProjectRelationAnswer, Data, RelationAnswer

LEMMA ListSaid ==
  ASSUME KnowledgeInv, NEW result, Shape(result), NEW entity
  PROVE  Says(ProjectRelationList(result, entity), result)
  <1> DEFINE names == {rows[k].value : k \in result.related}
  <1>1. Only(names) \notin Answers
    BY NamesOfRows, NoAnswerAmong DEF Shape
  <1> HIDE DEF names
  <1>2. ProjectRelationList(result, entity) =
          [Data("answered", "relation") EXCEPT !.names = names, !.items = names, !.entity = entity]
    BY DEF ProjectRelationList, names
  <1>3. QED
    BY <1>1, <1>2 DEF Says, Data, RelationAnswer, Answers, Nothing

LEMMA AttributePropositionSaid ==
  ASSUME NEW result, Shape(result), result.proposition # Nothing
  PROVE  Says(ProjectAttributeProposition(result), result)
  BY DEF Says, Shape, ProjectAttributeProposition, Data, RelationAnswer

LEMMA MeasurementPropositionSaid ==
  ASSUME NEW result, Shape(result), result.proposition # Nothing
  PROVE  Says(ProjectMeasurementProposition(result), result)
  BY DEF Says, Shape, ProjectMeasurementProposition, Data, RelationAnswer

LEMMA ValuesSaid ==
  ASSUME NEW result, Shape(result), NEW entity
  PROVE  /\ Says(ProjectAttributeValues(result, entity), result)
         /\ Says(ProjectMeasurement(result, entity), result)
  <1>1. Only(result.values) \notin Answers
    BY NoAnswerAmong DEF Shape
  <1>2. Says(ProjectAttributeValues(result, entity), result)
    BY <1>1 DEF Says, ProjectAttributeValues, Data, RelationAnswer, Answers, Nothing
  <1>3. Says(ProjectMeasurement(result, entity), result)
    BY <1>1 DEF Says, ProjectMeasurement, Data, RelationAnswer, Answers, Nothing
  <1>4. QED
    BY <1>2, <1>3

LEMMA StateSaid ==
  ASSUME NEW result, Shape(result), result.state # Nothing, NEW entity
  PROVE  Says(ProjectState(result, entity), result)
  <1>1. Only({result.state}) \notin Answers
    BY OnlyOne, WordsAssumption DEF Shape, Answers
  <1>2. QED
    BY <1>1 DEF Says, ProjectState, Data, RelationAnswer, Answers, Nothing

LEMMA NoneSaid ==
  ASSUME NEW result, NEW entity, NEW dim, NEW status \in {"answered", "no_results"}, NEW kind
  PROVE  /\ Says(Data(status, kind), result)
         /\ Says([Data(status, kind) EXCEPT !.dim = dim, !.entity = entity], result)
         /\ RelationAnswer(Data(status, kind)) = Nothing
  BY NoneOfNone DEF Says, Data, RelationAnswer, Answers, Nothing

LEMMA ResultSaid ==
  ASSUME KnowledgeInv, NEW result, Shape(result), NEW entity
  PROVE  Says(ProjectQueryResult(result, entity), result)
  <1> DEFINE data == ProjectQueryResult(result, entity)
             Valued      == result.proposition = Nothing /\ result.values # {}
             Measured    == \/ result.values # {}
                            \/ result.status \in Known /\ result.proposition = Nothing
             NotMeasured == result.values = {} /\ result.proposition # Nothing
             Unvalued    == result.values = {} /\ result.status \in Known /\ result.proposition = Nothing
             attribute   == [Data("answered", "attribute") EXCEPT !.dim = result.dim, !.entity = entity]
             absence     == Data("no_results", "absence")
             Related     == result.relation = Nothing /\ result.related # {}
  <1>1. data = CASE result.relation # Nothing -> ProjectRelationAnswer(result, entity)
                 [] Related -> ProjectRelationList(result, entity)
                 [] result.kind = "attribute" /\ result.proposition # Nothing ->
                      ProjectAttributeProposition(result)
                 [] result.kind = "attribute" /\ Valued -> ProjectAttributeValues(result, entity)
                 [] result.kind = "measurement" /\ Measured -> ProjectMeasurement(result, entity)
                 [] result.kind = "measurement" /\ NotMeasured -> ProjectMeasurementProposition(result)
                 [] result.state # Nothing -> ProjectState(result, entity)
                 [] result.kind = "attribute" /\ Unvalued -> attribute
                 [] OTHER -> absence
    BY DEF ProjectQueryResult
  <1>2. NotMeasured => result.proposition # Nothing
    OBVIOUS
  <1> HIDE DEF data, Valued, Measured, NotMeasured, Unvalued, Related, attribute, absence
  <1>3. \/ result.relation # Nothing /\ data = ProjectRelationAnswer(result, entity)
        \/ data = ProjectRelationList(result, entity)
        \/ result.proposition # Nothing /\ data = ProjectAttributeProposition(result)
        \/ data = ProjectAttributeValues(result, entity)
        \/ data = ProjectMeasurement(result, entity)
        \/ result.proposition # Nothing /\ data = ProjectMeasurementProposition(result)
        \/ result.state # Nothing /\ data = ProjectState(result, entity)
        \/ data = attribute
        \/ data = absence
    BY <1>1, <1>2
  <1>4. Says(data, result)
    <2>1. CASE result.relation # Nothing /\ data = ProjectRelationAnswer(result, entity)
      BY <2>1, RelationSaid
    <2>2. CASE data = ProjectRelationList(result, entity)
      BY <2>2, ListSaid
    <2>3. CASE result.proposition # Nothing /\ data = ProjectAttributeProposition(result)
      BY <2>3, AttributePropositionSaid
    <2>4. CASE data = ProjectAttributeValues(result, entity) \/ data = ProjectMeasurement(result, entity)
      BY <2>4, ValuesSaid
    <2>5. CASE result.proposition # Nothing /\ data = ProjectMeasurementProposition(result)
      BY <2>5, MeasurementPropositionSaid
    <2>6. CASE result.state # Nothing /\ data = ProjectState(result, entity)
      BY <2>6, StateSaid
    <2>7. CASE data = attribute
      <3>1. "answered" \in {"answered", "no_results"}
        OBVIOUS
      <3>2. QED
        BY <2>7, <3>1, NoneSaid DEF attribute
    <2>8. CASE data = absence
      <3>1. "no_results" \in {"answered", "no_results"}
        OBVIOUS
      <3>2. QED
        BY <2>8, <3>1, NoneSaid DEF absence
    <2>9. QED
      BY <1>3, <2>1, <2>2, <2>3, <2>4, <2>5, <2>6, <2>7, <2>8
  <1>5. QED
    BY <1>4 DEF data

\* An absence says nothing, and else no absence is presented.
LEMMA AskSaid ==
  ASSUME KnowledgeInv, NEW result, Shape(result), NEW entity,
         NEW status \in {"answered", "no_results"}
  PROVE  LET data == ProjectAsk(AskResult(status, entity, result)) IN
         /\ Says(data, result)
         /\ data.status = "no_results" <=> status = "no_results"
         /\ status = "no_results" =>
              RelationAnswer(data) = Nothing /\ ItemValues(data) = {} /\ data.value = Nothing
  <1> DEFINE data == ProjectAsk(AskResult(status, entity, result))
             found == ProjectQueryResult(result, entity)
  <1>1. CASE status = "no_results"
    <2>1. data = Absence(result, entity)
      BY <1>1 DEF ProjectAsk, AskResult
    <2>2. data.status = "no_results" /\ data.relation = Nothing /\ data.items = {}
          /\ data.value = Nothing
      BY <2>1 DEF Absence, Data
    <2> HIDE DEF data
    <2>3. RelationAnswer(data) = Nothing /\ ItemValues(data) = {}
      BY <2>2, NoneOfNone DEF RelationAnswer, ItemValues
    <2>4. QED
      BY <1>1, <2>2, <2>3 DEF Says, data, Nothing
  <1>2. CASE status = "answered"
    <2>1. data = IF found.status = "no_results"
                   THEN [Data("answered", result.kind) EXCEPT !.dim = result.dim, !.entity = entity]
                 ELSE found
      BY <1>2 DEF ProjectAsk, AskResult
    <2>2. Says(found, result)
      BY ResultSaid
    <2> HIDE DEF found, data
    <2>3. CASE found.status = "no_results"
      <3>1. data = [Data("answered", result.kind) EXCEPT !.dim = result.dim, !.entity = entity]
        BY <2>1, <2>3
      <3>2. data.status = "answered"
        BY <3>1 DEF Data
      <3>3. Says(data, result)
        BY <3>1, NoneSaid
      <3>4. QED
        BY <1>2, <3>2, <3>3 DEF data
    <2>4. CASE found.status # "no_results"
      BY <1>2, <2>1, <2>2, <2>4 DEF data
    <2>5. QED
      BY <2>3, <2>4
  <1>3. QED
    BY <1>1, <1>2

-----------------------------------------------------------------------------
(* What the engine finds for a question.                                   *)

\* The questions that are asked, as far as the answers depend on it.
WellAsked(q) ==
  /\ \/ /\ q.ask \in {"holds", "ever_held", "held_during"}
        /\ q.dim = "owns" /\ q.value = Nothing /\ q.class = Nothing
     \/ q.ask = "list" /\ q.dim = "owns" /\ q.value = Nothing /\ q.thing = Nothing
     \/ q.ask = "owner" /\ q.dim = "owns" /\ q.class = Nothing
     \/ /\ q.ask \in {"value", "previous", "first", "is", "ever_was"}
        /\ q.of \in Described /\ q.dim \in Singleton \cup Plural \cup {"name"}
        /\ q.thing = Nothing /\ q.class = Nothing
        /\ q.ask \in {"is", "ever_was"} => q.dim # "name"
     \/ q.ask = "snapshot" /\ q.dim = "any"
     \/ /\ q.ask \in {"measurement", "measured"} /\ q.dim = "measurement"
        /\ q.thing = Nothing /\ q.class = Nothing
     \/ q.ask = "state" /\ q.dim = "state"

\* A row that says what is asked.
Supports(k, q) ==
  /\ rows[k].of = q.of /\ rows[k].dim = q.dim
  /\ q.value \in {Nothing, rows[k].value} /\ q.thing \in {Nothing, rows[k].value}
  /\ q.class = Nothing \/ q.class = KindOf(rows[k].value)
  /\ q.ask \in {"holds", "is", "list"} => rows[k].current

\* The fields of a QueryResult.
Whole(result) ==
  DOMAIN result = {"relation", "related", "matched", "status", "proposition", "values",
                   "state", "kind", "dim"}

RelationAsks == {"holds", "ever_held", "held_during", "list", "owner"}

\* Of these, those that are answered by yes or no.
CanBeYes(q) ==
  \/ q.ask \in {"holds", "ever_held", "held_during", "is", "ever_was", "measured"}
  \/ q.ask = "list" /\ q.class # Nothing

Found(q, result) ==
  /\ Whole(result) /\ Shape(result)
  /\ result.relation = "yes" \/ result.proposition = "yes" =>
       CanBeYes(q) /\ \E k \in DOMAIN rows : Supports(k, q)
  /\ result.relation = "no" =>
       /\ q.ask \in RelationAsks /\ CanBeYes(q)
       /\ result.related = {} \/ \E k \in DOMAIN rows : Supports(k, q) /\ q.at < rows[k].date

\* A result of which only the status is filled in, or that and the values.
StatusResult(status)         == [NoResult EXCEPT !.status = status]
ValuesResult(status, values) == [NoResult EXCEPT !.status = status, !.values = values]

LEMMA NothingFound ==
  ASSUME NEW q, NEW status
  PROVE  Found(q, NoResult) /\ Found(q, StatusResult(status))
  BY DEF Found, Whole, Shape, StatusResult, NoResult, Answers, Nothing

LEMMA ValuesFound ==
  ASSUME NEW q, NEW status, NEW values \in SUBSET (Values \cup Entities)
  PROVE  Found(q, ValuesResult(status, values))
  BY DEF Found, Whole, Shape, ValuesResult, NoResult, Answers, Nothing

LEMMA TripleFound ==
  ASSUME KnowledgeInv, NEW q, WellAsked(q), q.ask \in {"holds", "ever_held", "held_during", "list"},
         NEW currentOnly \in BOOLEAN, q.ask \in {"holds", "list"} => currentOnly,
         NEW k \in Triples(q, currentOnly)
  PROVE  /\ k \in DOMAIN rows
         /\ q.class = Nothing \/ q.class = KindOf(rows[k].value) => Supports(k, q)
  <1>1. k \in DOMAIN rows /\ KnowledgeRow(rows[k]) /\ rows[k].table = "relation"
        /\ (currentOnly => rows[k].current) /\ rows[k].of = q.of
        /\ (q.thing # Nothing => rows[k].value = q.thing)
    BY DEF Triples, KnowledgeInv
  <1>2. rows[k].dim = "owns"
    BY <1>1, RowFields
  <1>3. q.dim = "owns" /\ q.value = Nothing
    BY DEF WellAsked
  <1>4. QED
    BY <1>1, <1>2, <1>3 DEF Supports

LEMMA HoldsFound ==
  ASSUME KnowledgeInv, NEW q, WellAsked(q), q.ask \in {"holds", "ever_held"}
  PROVE  Found(q, Holds(q))
  <1> DEFINE matches == Triples(q, q.ask = "holds")
  <1>1. matches \subseteq DOMAIN rows
    BY DEF Triples
  <1>2. q.class = Nothing
    BY DEF WellAsked
  <1>3. \A k \in matches : Supports(k, q)
    BY <1>2, TripleFound
  <1>4. RankMatches(matches) \subseteq matches /\ (matches = {} => RankMatches(matches) = {})
    BY <1>1, RankedIn
  <1> DEFINE relation == CASE matches = {} -> "no"
                           [] q.ask = "holds" /\ Cardinality(RankMatches(matches)) > 1 -> "unknown"
                           [] OTHER -> "yes"
  <1>5. Holds(q) = [NoResult EXCEPT !.related = RankMatches(matches), !.relation = relation]
    BY DEF Holds
  <1>6. /\ relation \in Answers
        /\ relation = "yes" => matches # {}
        /\ relation = "no" => matches = {}
    BY DEF Answers
  <1> HIDE DEF matches, relation
  <1>7. QED
    BY <1>1, <1>3, <1>4, <1>5, <1>6 DEF Found, RelationAsks, CanBeYes, Whole, Shape, NoResult,
       Nothing

LEMMA ListFound ==
  ASSUME KnowledgeInv, NEW q, WellAsked(q), q.ask \in {"list", "owner"}
  PROVE  Found(q, ListOf(q))
  <1> DEFINE matches  == Triples(q, TRUE)
             typed    == {k \in RankMatches(matches) :
                            q.class = Nothing \/ KindOf(rows[k].value) = q.class}
             relation == CASE q.class = Nothing -> Nothing
                           [] q.class # Nothing /\ typed # {} -> "yes"
                           [] OTHER -> "no"
  <1>1. matches \subseteq DOMAIN rows
    BY DEF Triples
  <1>2. typed \subseteq matches
    BY <1>1, RankedIn
  <1>3. q.class # Nothing => q.ask = "list"
    BY DEF WellAsked
  <1>4. q.class # Nothing => \A k \in typed : Supports(k, q)
    <2> SUFFICES ASSUME q.class # Nothing, NEW k \in typed PROVE Supports(k, q)
      OBVIOUS
    <2>1. k \in matches /\ q.class = KindOf(rows[k].value)
      BY <1>2
    <2>2. QED
      BY <1>3, <2>1, TripleFound
  <1>5. ListOf(q) = [NoResult EXCEPT !.related = typed, !.relation = relation]
    BY DEF ListOf
  <1> HIDE DEF matches, typed
  <1>6. /\ relation \in Answers \cup {Nothing}
        /\ relation = "yes" => q.class # Nothing /\ typed # {}
        /\ relation = "no" => q.class # Nothing /\ typed = {}
    BY DEF Answers, Nothing
  <1> HIDE DEF relation
  <1>7. QED
    BY <1>1, <1>2, <1>3, <1>4, <1>5, <1>6
       DEF Found, RelationAsks, CanBeYes, Whole, Shape, NoResult, Nothing

LEMMA HeldFound ==
  ASSUME KnowledgeInv, NEW q, WellAsked(q), q.ask = "held_during"
  PROVE  Found(q, HeldDuring(q))
  <1> DEFINE matches  == Triples(q, FALSE)
             first    == CHOOSE k \in matches : \A j \in matches : k <= j
             began    == rows[first].date
             relation == CASE began # Undated /\ q.at < began -> "no"
                           [] began # Undated /\ began <= q.at /\ rows[first].current -> "yes"
                           [] OTHER -> "unknown"
  <1>1. matches \subseteq DOMAIN rows
    BY DEF Triples
  <1>2. q.class = Nothing
    BY DEF WellAsked
  <1>3. \A k \in matches : Supports(k, q)
    BY <1>2, TripleFound
  <1>4. CASE matches = {}
    <2>1. HeldDuring(q) = [NoResult EXCEPT !.relation = "no"]
      BY <1>4 DEF HeldDuring
    <2>2. QED
      BY <2>1 DEF Found, RelationAsks, CanBeYes, Whole, Shape, NoResult, Answers, Nothing
  <1>5. CASE matches # {}
    <2>1. first \in matches
      BY <1>1, <1>5, FirstIn
    <2>2. HeldDuring(q) = [NoResult EXCEPT !.related = {first}, !.relation = relation]
      BY <1>5 DEF HeldDuring
    <2>3. relation \in Answers /\ (relation = "no" => q.at < rows[first].date)
      BY DEF Answers
    <2>4. first \in DOMAIN rows /\ Supports(first, q)
      BY <1>1, <1>3, <2>1
    <2> DEFINE found == {first}
    <2>5. found \subseteq DOMAIN rows
      BY <2>4
    <2>6. relation = "no" => \E k \in DOMAIN rows : Supports(k, q) /\ q.at < rows[k].date
      BY <2>3, <2>4
    <2>7. \E k \in DOMAIN rows : Supports(k, q)
      BY <2>4
    <2>8. HeldDuring(q) = [NoResult EXCEPT !.related = found, !.relation = relation]
      BY <2>2
    <2> HIDE DEF matches, first, began, relation, found
    <2>9. QED
      BY <2>3, <2>5, <2>6, <2>7, <2>8 DEF Found, RelationAsks, CanBeYes, Whole, Shape,
         NoResult, Nothing
  <1>6. QED
    BY <1>4, <1>5

\* The values of the rows of a table other than that of the relations.
LEMMA ValuesOfRows ==
  ASSUME KnowledgeInv, NEW ks \in SUBSET DOMAIN rows
  PROVE  {rows[k].value : k \in ks} \in SUBSET (Values \cup Entities)
  BY NamesOfRows

\* The rows of an attribute.
AttributePool(q) ==
  {k \in DOMAIN rows : rows[k].table = "attribute" /\ rows[k].of = q.of /\ rows[k].dim = q.dim}

LEMMA LookupFound ==
  ASSUME KnowledgeInv, NEW q, NEW pool \in SUBSET DOMAIN rows
  PROVE  LET lookup == ValueLookup(q, pool)
             values == {rows[k].value : k \in {j \in pool : rows[j].current}} IN
         /\ Found(q, lookup)
         /\ lookup.proposition = Nothing /\ lookup.relation = Nothing /\ lookup.state = Nothing
         /\ lookup.values \in {{}, values}
  <1> DEFINE lookup  == ValueLookup(q, pool)
             present == {j \in pool : rows[j].current}
             values  == {rows[k].value : k \in present}
  <1>1. values \in SUBSET (Values \cup Entities)
    <2>1. present \in SUBSET DOMAIN rows
      OBVIOUS
    <2> HIDE DEF present
    <2>2. QED
      BY <2>1, NamesOfRows
  <1>2. \E status : \/ lookup = StatusResult(status)
                    \/ lookup = ValuesResult(status, values)
    BY DEF ValueLookup, StatusResult, ValuesResult
  <1> HIDE DEF lookup, values
  <1>3. Found(q, lookup)
    BY <1>1, <1>2, NothingFound, ValuesFound
  <1>4. /\ lookup.proposition = Nothing /\ lookup.relation = Nothing /\ lookup.state = Nothing
        /\ lookup.values \in {{}, values}
    BY <1>2 DEF StatusResult, ValuesResult, NoResult
  <1>5. QED
    BY <1>3, <1>4 DEF lookup, values, present

LEMMA PastFound ==
  ASSUME KnowledgeInv, NEW q, NEW pool \in SUBSET DOMAIN rows
  PROVE  Found(q, PastValue(q, pool))
  <1> DEFINE closed  == {k \in pool : ~ rows[k].current}
             undated == closed \ Dated(closed)
             chosen  == IF q.ask = "first"
                          THEN Oldest(IF Dated(closed) # {} THEN Dated(closed) ELSE closed)
                        ELSE Newest(IF undated # {} THEN undated ELSE closed)
  <1>1. /\ closed \in SUBSET DOMAIN rows
        /\ Dated(closed) \subseteq closed
        /\ undated \subseteq closed
    BY DEF Dated
  <1>2. CASE closed = {}
    <2>1. PastValue(q, pool) = StatusResult("unknown")
      BY <1>2 DEF PastValue, StatusResult
    <2>2. QED
      BY <2>1, NothingFound
  <1>3. CASE closed # {}
    <2>1. PastValue(q, pool) =
            [NoResult EXCEPT !.status = "known_single", !.values = {rows[chosen].value}]
      BY <1>3 DEF PastValue
    <2> HIDE DEF closed, undated
    <2>2. chosen \in closed
      <3>1. CASE q.ask = "first"
        <4> DEFINE ks == IF Dated(closed) # {} THEN Dated(closed) ELSE closed
        <4>1. ks # {} /\ ks \in SUBSET DOMAIN rows /\ ks \subseteq closed
          BY <1>1, <1>3
        <4>2. chosen = Oldest(ks)
          BY <3>1
        <4> HIDE DEF ks
        <4>3. QED
          BY <4>1, <4>2, OldestIn
      <3>2. CASE q.ask # "first"
        <4> DEFINE ks == IF undated # {} THEN undated ELSE closed
        <4>1. ks # {} /\ ks \in SUBSET DOMAIN rows /\ ks \subseteq closed
          BY <1>1, <1>3
        <4>2. chosen = Newest(ks)
          BY <3>2
        <4> HIDE DEF ks
        <4>3. QED
          BY <4>1, <4>2, NewestIn
      <3>3. QED
        BY <3>1, <3>2
    <2> HIDE DEF chosen
    <2> DEFINE values == {rows[chosen].value}
    <2>3. values \in SUBSET (Values \cup Entities)
      BY <1>1, <2>2, RowFields DEF KnowledgeInv, Entities
    <2>4. PastValue(q, pool) = ValuesResult("known_single", values)
      BY <2>1 DEF ValuesResult
    <2> HIDE DEF values
    <2>5. QED
      BY <2>3, <2>4, ValuesFound
  <1>4. QED
    BY <1>2, <1>3

LEMMA PropositionFound ==
  ASSUME KnowledgeInv, NEW q, WellAsked(q), q.ask = "is"
  PROVE  Found(q, Proposition(q, AttributePool(q)))
  <1> DEFINE pool   == AttributePool(q)
             lookup == ValueLookup(q, pool)
             said   == IF lookup.status \in {"unknown", "temporally_unknown"} THEN lookup.status
                       ELSE IF q.value \notin lookup.values THEN "unknown"
                       ELSE IF lookup.status = "ambiguous" THEN "ambiguous" ELSE "yes"
  <1>1. pool \in SUBSET DOMAIN rows
    BY DEF AttributePool
  <1>2. Found(q, lookup) /\ lookup.relation = Nothing
        /\ (lookup.values # {} => lookup.values = {rows[k].value : k \in {j \in pool : rows[j].current}})
    <2> HIDE DEF pool
    <2>1. QED
      BY <1>1, LookupFound
  <1>3. said = "yes" => \E k \in pool : rows[k].current /\ rows[k].value = q.value
    <2> SUFFICES ASSUME said = "yes" PROVE \E k \in pool : rows[k].current /\ rows[k].value = q.value
      OBVIOUS
    <2>1. q.value \in lookup.values
      OBVIOUS
    <2> HIDE DEF lookup, pool
    <2>2. QED
      BY <1>2, <2>1
  <1>4. q.thing = Nothing /\ q.class = Nothing
    BY DEF WellAsked
  <1>5. said = "yes" => \E k \in DOMAIN rows : Supports(k, q)
    BY <1>3, <1>4 DEF AttributePool, Supports
  <1>6. said \in {"yes", "unknown", "temporally_unknown", "ambiguous"}
    OBVIOUS
  <1>7. Proposition(q, pool) = [lookup EXCEPT !.proposition = said]
    BY DEF Proposition
  <1> HIDE DEF pool, lookup, said
  <1>8. Found(q, [lookup EXCEPT !.proposition = said])
    BY <1>2, <1>5, <1>6 DEF Found, CanBeYes, Whole, Shape
  <1>9. QED
    BY <1>7, <1>8 DEF pool

LEMMA ExistenceFound ==
  ASSUME KnowledgeInv, NEW q, WellAsked(q), q.ask \in {"ever_was", "measured"},
         NEW pool \in SUBSET {k \in DOMAIN rows : rows[k].of = q.of /\ rows[k].dim = q.dim}
  PROVE  /\ Found(q, HistoricalExistence(q, pool))
         /\ Found(q, MeasuredValue(q, pool))
  <1>1. Found(q, [NoResult EXCEPT !.status = "unknown", !.proposition = "unknown"])
    BY DEF Found, CanBeYes, Whole, Shape, NoResult, Answers, Nothing
  <1>2. ASSUME \E k \in pool : rows[k].value = q.value
        PROVE  Found(q, [NoResult EXCEPT !.status = "known_single", !.values = {q.value},
                                         !.proposition = "yes"])
    <2>1. PICK k \in pool : rows[k].value = q.value
      BY <1>2
    <2>2. q.thing = Nothing /\ q.class = Nothing
      BY DEF WellAsked
    <2>3. k \in DOMAIN rows /\ Supports(k, q)
      BY <2>1, <2>2 DEF Supports
    <2> DEFINE values == {q.value}
    <2>7. rows[k].value \in Values \cup Entities
      BY <2>3, RowFields DEF KnowledgeInv, Entities
    <2>4. values \in SUBSET (Values \cup Entities)
      BY <2>1, <2>7
    <2> HIDE DEF values
    <2>5. Found(q, [NoResult EXCEPT !.status = "known_single", !.values = values,
                                    !.proposition = "yes"])
      BY <2>3, <2>4 DEF Found, CanBeYes, Whole, Shape, NoResult, Answers, Nothing
    <2>6. QED
      BY <2>5 DEF values
  <1>3. QED
    BY <1>1, <1>2 DEF HistoricalExistence, MeasuredValue

LEMMA NameFound ==
  ASSUME NEW q, q.of \in Described
  PROVE  Found(q, IntrinsicName(q))
  <1> DEFINE values == {q.of}
  <1>1. values \in SUBSET (Values \cup Entities)
    BY DescribedAssumption DEF Entities
  <1>2. IntrinsicName(q) = ValuesResult("known_single", values)
    BY DEF IntrinsicName, ValuesResult
  <1> HIDE DEF values
  <1>3. QED
    BY <1>1, <1>2, ValuesFound

LEMMA LatestFound ==
  ASSUME KnowledgeInv, NEW q, NEW pool \in SUBSET DOMAIN rows
  PROVE  Found(q, LatestMeasurement(pool))
  <1> DEFINE last         == {k \in pool : \A j \in pool : rows[j].date <= rows[k].date}
             ValuesIn(ks) == {rows[k].value : k \in ks}
  <1>1. last \in SUBSET DOMAIN rows
    OBVIOUS
  <1>2. \E status : \/ LatestMeasurement(pool) = StatusResult(status)
                    \/ \E ks \in {pool, last} :
                         LatestMeasurement(pool) = ValuesResult(status, ValuesIn(ks))
    BY DEF LatestMeasurement, StatusResult, ValuesResult
  <1> HIDE DEF last
  <1>3. \A ks \in {pool, last} : ValuesIn(ks) \in SUBSET (Values \cup Entities)
    BY <1>1, NamesOfRows
  <1> HIDE DEF ValuesIn
  <1>4. QED
    BY <1>2, <1>3, NothingFound, ValuesFound

\* What makes a current value of what is asked.
ToldOf(q) == {k \in DOMAIN rows : rows[k].dim = q.dim /\ rows[k].of = q.of /\ rows[k].current}

LEMMA StateFound ==
  ASSUME KnowledgeInv, NEW q, WellAsked(q), q.ask = "state"
  PROVE  LET result == ExecuteState(q) IN
         /\ Found(q, result) /\ result.values = {}
         /\ result.state # Nothing => \E k \in ToldOf(q) : rows[k].value = result.state
  <1> DEFINE pool   == {k \in DOMAIN rows : /\ rows[k].table = "state" /\ rows[k].of = q.of
                                            /\ rows[k].current
                                            /\ q.value \in {Nothing, rows[k].value}}
             chosen == IF Dated(pool) # {} THEN {Newest(Dated(pool))}
                       ELSE IF Cardinality(pool) = 1 THEN pool ELSE {}
             state  == IF chosen = {} THEN Nothing ELSE rows[CHOOSE k \in chosen : TRUE].value
             count  == Cardinality(chosen)
  <1>1. pool \subseteq DOMAIN rows /\ Dated(pool) \subseteq pool
    BY DEF Dated
  <1>2. q.dim = "state"
    BY DEF WellAsked
  <1>3. \A k \in pool : k \in ToldOf(q) /\ rows[k].value \in Values
    BY <1>2, RowFields DEF KnowledgeInv, ToldOf
  <1>4. chosen \subseteq pool
    <2> HIDE DEF pool
    <2>1. Dated(pool) # {} => Newest(Dated(pool)) \in Dated(pool)
      BY <1>1, NewestIn
    <2>2. QED
      BY <1>1, <2>1
  <1>5. ExecuteState(q) = [NoResult EXCEPT !.kind = "state", !.dim = q.dim, !.matched = count,
                                           !.state = state]
    BY DEF ExecuteState
  <1>6. state # Nothing => \E k \in ToldOf(q) : rows[k].value = state /\ state \in Values
    <2> HIDE DEF chosen, pool
    <2>1. QED
      BY <1>3, <1>4
  <1> HIDE DEF state, count, chosen, pool
  <1>7. Found(q, ExecuteState(q))
    BY <1>5, <1>6 DEF Found, Whole, Shape, NoResult, Answers, Nothing
  <1>8. ExecuteState(q).values = {} /\ ExecuteState(q).state = state
    BY <1>5 DEF NoResult
  <1>9. QED
    BY <1>6, <1>7, <1>8

LEMMA SnapshotFound ==
  ASSUME KnowledgeInv, NEW q
  PROVE  Found(q, ExecuteSnapshot(q))
  <1> DEFINE Pool(dim) == {k \in DOMAIN rows : rows[k].table = "attribute" /\ rows[k].of = q.of
                                               /\ rows[k].dim = dim}
             values == UNION {ValueLookup(q, Pool(dim)).values : dim \in Singleton \cup Plural}
             status == IF values = {} THEN "unknown" ELSE StatusOf(values, "known_multiple")
             count  == Cardinality(values)
  <1>1. \A dim : Pool(dim) \in SUBSET DOMAIN rows
    OBVIOUS
  <1>2. ExecuteSnapshot(q) = [NoResult EXCEPT !.kind = "attribute", !.values = values,
                                              !.matched = count, !.status = status]
    BY DEF ExecuteSnapshot
  <1>3. ASSUME NEW dim PROVE ValueLookup(q, Pool(dim)).values \in SUBSET (Values \cup Entities)
    <2>1. Found(q, ValueLookup(q, Pool(dim)))
      <3> HIDE DEF Pool
      <3>1. QED
        BY <1>1, LookupFound
    <2>2. QED
      BY <2>1 DEF Found, Shape
  <1>4. values \in SUBSET (Values \cup Entities)
    BY <1>3
  <1> HIDE DEF values, status, count
  <1>5. QED
    BY <1>2, <1>4 DEF Found, Whole, Shape, NoResult, Answers, Nothing

\* Around a result, the kind, the dimension and the count.
Labelled(result, kind, dim, count) ==
  [result EXCEPT !.kind = kind, !.dim = dim, !.matched = count]

LEMMA LabelledFound ==
  ASSUME NEW q, NEW result, Found(q, result), NEW kind, NEW dim, NEW count
  PROVE  LET labelled == Labelled(result, kind, dim, count) IN
         /\ Found(q, labelled)
         /\ labelled.kind = kind /\ labelled.matched = count
         /\ labelled.values = result.values /\ labelled.state = result.state
         /\ labelled.relation = result.relation /\ labelled.related = result.related
  BY DEF Found, Whole, Shape, Labelled

\* Execute, and the status of the answer.
AnsweredWell(q, ask) ==
  /\ ask.status \in {"answered", "no_results"} /\ ask.entity = q.of
  /\ Shape(ask.result)
  /\ ask.result.relation = "yes" \/ ask.result.proposition = "yes" =>
       CanBeYes(q) /\ \E k \in DOMAIN rows : Supports(k, q)
  /\ ask.result.relation = "no" /\ ask.status = "answered" =>
       CanBeYes(q) /\ \E k \in DOMAIN rows : Supports(k, q) /\ q.at < rows[k].date
  /\ q.ask \in {"value", "state"} /\ q.dim \in Singleton \cup {"state"} =>
       \A v \in {Only(ask.result.values), ask.result.state} \ {Nothing} :
         \E k \in ToldOf(q) : rows[k].value = v

LEMMA CountedFound ==
  ASSUME NEW q, NEW result, Found(q, result)
  PROVE  LET counted == [result EXCEPT !.kind = "relation", !.matched = Cardinality(result.related)]
         IN /\ Found(q, counted) /\ counted.kind = "relation"
            /\ counted.related = result.related /\ counted.matched = Cardinality(result.related)
  <1> DEFINE count == Cardinality(result.related)
  <1> HIDE DEF count
  <1>1. LET counted == [result EXCEPT !.kind = "relation", !.matched = count]
        IN /\ Found(q, counted) /\ counted.kind = "relation"
           /\ counted.related = result.related /\ counted.matched = count
    BY DEF Found, Whole, Shape
  <1>2. QED
    BY <1>1 DEF count

LEMMA RelationAnswered ==
  ASSUME KnowledgeInv, NEW q, WellAsked(q), q.ask \in RelationAsks
  PROVE  AnsweredWell(q, Answered(q))
  <1> DEFINE found  == CASE q.ask \in {"holds", "ever_held"} -> Holds(q)
                         [] q.ask = "held_during"            -> HeldDuring(q)
                         [] q.ask \in {"list", "owner"}      -> ListOf(q)
             result == [found EXCEPT !.kind = "relation", !.matched = Cardinality(found.related)]
  <1>1. Found(q, found)
    <2>1. CASE q.ask \in {"holds", "ever_held"}
      BY <2>1, HoldsFound
    <2>2. CASE q.ask = "held_during"
      BY <2>2, HeldFound
    <2>3. CASE q.ask \in {"list", "owner"}
      BY <2>3, ListFound
    <2>4. QED
      BY <2>1, <2>2, <2>3 DEF RelationAsks
  <1>2. q.dim = "owns"
    BY DEF WellAsked, RelationAsks
  <1>3. Execute(q) = result
    <2>1. Execute(q) = ExecuteRelation(q)
      BY <1>2 DEF Execute, RelationAsks
    <2>2. QED
      BY <2>1 DEF ExecuteRelation
  <1> HIDE DEF found
  <1>4. /\ Found(q, result) /\ result.kind = "relation"
        /\ result.related = found.related /\ result.matched = Cardinality(found.related)
    BY <1>1, CountedFound
  <1> HIDE DEF result
  <1>5. result.related = {} => result.matched = 0
    BY <1>4, FS_EmptySet
  <1>6. IsEmpty(q, result) <=> result.matched = 0
    BY <1>4 DEF IsEmpty, RelationAsks
  <1>7. Answered(q) = AskResult(IF IsEmpty(q, result) THEN "no_results" ELSE "answered", q.of, result)
    BY <1>3 DEF Answered
  <1>8. q.ask \notin {"value", "state"}
    BY DEF RelationAsks
  <1>9. QED
    BY <1>4, <1>5, <1>6, <1>7, <1>8 DEF AnsweredWell, AskResult, Found

LEMMA OtherAnswered ==
  ASSUME NEW q, q.ask \notin RelationAsks, Found(q, Execute(q)),
         q.ask \in {"value", "state"} /\ q.dim \in Singleton \cup {"state"} =>
           \A v \in {Only(Execute(q).values), Execute(q).state} \ {Nothing} :
             \E k \in ToldOf(q) : rows[k].value = v
  PROVE  AnsweredWell(q, Answered(q))
  <1> DEFINE result == Execute(q)
  <1>1. Answered(q) = AskResult(IF IsEmpty(q, result) THEN "no_results" ELSE "answered", q.of, result)
    BY DEF Answered
  <1> HIDE DEF result
  <1>2. QED
    BY <1>1 DEF AnsweredWell, AskResult, Found, result

LEMMA AttributeAnswered ==
  ASSUME KnowledgeInv, NEW q, WellAsked(q),
         q.ask \in {"value", "previous", "first", "is", "ever_was"}
  PROVE  AnsweredWell(q, Answered(q))
  <1> DEFINE pool   == AttributePool(q)
             found  == IF q.dim = "name" THEN IntrinsicName(q)
                       ELSE CASE q.ask = "value"    -> ValueLookup(q, pool)
                              [] q.ask \in {"previous", "first"} -> PastValue(q, pool)
                              [] q.ask = "is"       -> Proposition(q, pool)
                              [] q.ask = "ever_was" -> HistoricalExistence(q, pool)
             result == Labelled(found, "attribute", q.dim, Cardinality(found.values))
  <1>1. /\ pool \in SUBSET DOMAIN rows
        /\ pool \in SUBSET {k \in DOMAIN rows : rows[k].of = q.of /\ rows[k].dim = q.dim}
    BY DEF AttributePool
  <1>2. q.of \in Described /\ (q.ask \in {"is", "ever_was"} => q.dim # "name")
    BY DEF WellAsked
  <1>3. Found(q, found)
    <2>1. CASE q.dim = "name"
      BY <1>2, <2>1, NameFound
    <2>2. CASE q.dim # "name" /\ q.ask = "value"
      <3>1. found = ValueLookup(q, pool)
        BY <2>2
      <3> HIDE DEF pool, found
      <3>2. QED
        BY <1>1, <3>1, LookupFound
    <2>3. CASE q.dim # "name" /\ q.ask \in {"previous", "first"}
      <3>1. found = PastValue(q, pool)
        BY <2>3
      <3> HIDE DEF pool, found
      <3>2. QED
        BY <1>1, <3>1, PastFound
    <2>4. CASE q.dim # "name" /\ q.ask = "is"
      BY <2>4, PropositionFound
    <2>5. CASE q.dim # "name" /\ q.ask = "ever_was"
      <3>1. found = HistoricalExistence(q, pool)
        BY <2>5
      <3> HIDE DEF pool, found
      <3>2. QED
        BY <1>1, <2>5, <3>1, ExistenceFound
    <2>6. QED
      BY <2>1, <2>2, <2>3, <2>4, <2>5
  <1>4. Execute(q) = result
    <2>1. q.dim # "owns"
      BY DimensionsAssumption DEF WellAsked
    <2>3. Execute(q) = ExecuteAttribute(q)
      BY <2>1 DEF Execute
    <2>2. QED
      BY <2>3 DEF ExecuteAttribute, AttributePool, Labelled
  <1>5. Found(q, result) /\ result.values = found.values /\ result.state = found.state
    <2> HIDE DEF found
    <2>1. QED
      BY <1>3, LabelledFound
  <1>6. q.ask = "value" /\ q.dim \in Singleton \cup {"state"} =>
          \A v \in {Only(result.values), result.state} \ {Nothing} :
            \E k \in ToldOf(q) : rows[k].value = v
    <2> SUFFICES ASSUME q.ask = "value", q.dim \in Singleton \cup {"state"},
                        NEW v \in {Only(result.values), result.state} \ {Nothing}
                 PROVE  \E k \in ToldOf(q) : rows[k].value = v
      OBVIOUS
    <2>1. q.dim # "name"
      BY DimensionsAssumption
    <2>2. found = ValueLookup(q, pool)
      BY <2>1
    <2>3. /\ found.state = Nothing
          /\ found.values \in {{}, {rows[k].value : k \in {j \in pool : rows[j].current}}}
      <3> HIDE DEF pool, found
      <3>1. QED
        BY <1>1, <2>2, LookupFound
    <2>4. v \in found.values
      <3> HIDE DEF found, result
      <3>1. QED
        BY <1>5, <2>3, OnlyIn
    <2>5. PICK k \in {j \in pool : rows[j].current} : v = rows[k].value
      <3> HIDE DEF pool, found
      <3>1. QED
        BY <2>3, <2>4
    <2>6. QED
      BY <2>5 DEF AttributePool, ToldOf
  <1>7. q.ask \notin RelationAsks /\ q.ask # "state"
    BY DEF RelationAsks
  <1> HIDE DEF result
  <1>8. QED
    BY <1>4, <1>5, <1>6, <1>7, OtherAnswered

LEMMA MeasurementAnswered ==
  ASSUME KnowledgeInv, NEW q, WellAsked(q), q.ask \in {"measurement", "measured"}
  PROVE  AnsweredWell(q, Answered(q))
  <1> DEFINE pool  == {k \in DOMAIN rows : rows[k].table = "measurement" /\ rows[k].of = q.of}
             found == IF q.ask = "measurement" THEN LatestMeasurement(pool) ELSE MeasuredValue(q, pool)
  <1>1. q.dim = "measurement"
    BY DEF WellAsked
  <1>2. pool \in SUBSET DOMAIN rows
        /\ pool \in SUBSET {k \in DOMAIN rows : rows[k].of = q.of /\ rows[k].dim = q.dim}
    BY <1>1, RowFields DEF KnowledgeInv
  <1>3. Found(q, found)
    <2> HIDE DEF pool
    <2>1. CASE q.ask = "measurement"
      BY <1>2, <2>1, LatestFound
    <2>2. CASE q.ask = "measured"
      BY <1>2, <2>2, ExistenceFound
    <2>3. QED
      BY <2>1, <2>2
  <1>4. Execute(q) = Labelled(found, "measurement", q.dim, Cardinality(found.values))
    <2>1. Execute(q) = ExecuteMeasurement(q)
      BY <1>1 DEF Execute
    <2>2. QED
      BY <2>1 DEF ExecuteMeasurement, Labelled
  <1> HIDE DEF found
  <1>5. Found(q, Execute(q))
    BY <1>3, <1>4, LabelledFound
  <1>6. q.ask \notin RelationAsks /\ q.ask \notin {"value", "state"}
    BY DEF RelationAsks
  <1>7. QED
    BY <1>5, <1>6, OtherAnswered

LEMMA StateAnswered ==
  ASSUME KnowledgeInv, NEW q, WellAsked(q), q.ask = "state"
  PROVE  AnsweredWell(q, Answered(q))
  <1>1. q.dim = "state"
    BY DEF WellAsked
  <1>2. Execute(q) = ExecuteState(q)
    BY <1>1 DEF Execute
  <1>3. Found(q, Execute(q)) /\ Execute(q).values = {}
        /\ (Execute(q).state # Nothing => \E k \in ToldOf(q) : rows[k].value = Execute(q).state)
    BY <1>2, StateFound
  <1>4. Only(Execute(q).values) = Nothing
    BY <1>3, NoneOfNone
  <1>5. \A v \in {Only(Execute(q).values), Execute(q).state} \ {Nothing} :
          \E k \in ToldOf(q) : rows[k].value = v
    BY <1>3, <1>4
  <1>6. q.ask \notin RelationAsks
    BY DEF RelationAsks
  <1>7. QED
    BY <1>3, <1>5, <1>6, OtherAnswered

LEMMA SnapshotAnswered ==
  ASSUME KnowledgeInv, NEW q, WellAsked(q), q.ask = "snapshot"
  PROVE  AnsweredWell(q, Answered(q))
  <1>1. q.dim = "any"
    BY DEF WellAsked
  <1>2. Execute(q) = ExecuteSnapshot(q)
    BY <1>1 DEF Execute
  <1>3. Found(q, Execute(q))
    BY <1>2, SnapshotFound
  <1>4. q.ask \notin RelationAsks /\ q.ask \notin {"value", "state"}
    BY DEF RelationAsks
  <1>5. QED
    BY <1>3, <1>4, OtherAnswered

LEMMA WellAnswered ==
  ASSUME KnowledgeInv, NEW q, WellAsked(q)
  PROVE  AnsweredWell(q, Answered(q))
  <1>1. \/ q.ask \in RelationAsks
        \/ q.ask \in {"value", "previous", "first", "is", "ever_was"}
        \/ q.ask \in {"measurement", "measured"}
        \/ q.ask = "state"
        \/ q.ask = "snapshot"
    BY DEF WellAsked, RelationAsks
  <1>2. QED
    BY <1>1, RelationAnswered, AttributeAnswered, MeasurementAnswered, StateAnswered,
       SnapshotAnswered

-----------------------------------------------------------------------------
(* The questions that are asked, and what a proposal has to do with the    *)
(* question that is made of it.                                            *)

\* What the question keeps of what the proposal named, where yes or no may
\* be the answer.
Keeps(p, q) ==
  LET ends == IF p.inverse THEN <<p.object, p.of>> ELSE <<p.of, p.object>> IN
  /\ ends[1] \in {Nothing, q.of} /\ ends[2] \in {Nothing, q.thing}
  /\ p.value \in {Nothing, q.value} /\ p.class \in {Nothing, q.class}

AskedOf(p, q) ==
  \/ p = NoProposal /\ q \in Questions
  \/ p \in QueryProposals /\ Resolved(p) /\ q = QuestionOf(p)

LEMMA QuestionsAsked ==
  ASSUME NEW q \in Questions
  PROVE  WellAsked(q) /\ Keeps(NoProposal, q)
  <1>1. WellAsked(q)
    BY DimensionsAssumption DEF Questions, WellAsked, Question
  <1>2. Keeps(NoProposal, q)
    BY DEF Keeps, NoProposal, Proposal
  <1>3. QED
    BY <1>1, <1>2

LEMMA ProposalsAsked ==
  ASSUME NEW p \in QueryProposals, Resolved(p)
  PROVE  WellAsked(QuestionOf(p)) /\ (CanBeYes(QuestionOf(p)) => Keeps(p, QuestionOf(p)))
  <1>1. CASE p \in RelationProposals
    <2>1. PICK of \in Maybe(Entities), object \in Maybe(Entities), inverse \in BOOLEAN :
            p = OfRelation(of, object, inverse)
      BY <1>1 DEF RelationProposals
    <2>2. QED
      BY <2>1 DEF Resolved, Proposal, OfRelation, QuestionOf, RelationQuestion, Question,
         WellAsked, Keeps,
                  CanBeYes
  <1>2. CASE p \in ClassProposals
    <2>1. PICK of \in Entities, class \in Kinds \cup {Untyped} :
            p = OfClass(of, class)
      BY <1>2 DEF ClassProposals
    <2>2. QED
      BY <2>1 DEF Resolved, Proposal, OfClass, QuestionOf, RelationQuestion, Question,
         WellAsked, Keeps,
                  CanBeYes
  <1>3. CASE p \in AttributeProposals
    <2>1. PICK of \in Maybe(Described), dim \in AskedDims, value \in Maybe(Values),
               selection \in Selections, cue \in {"none", "already"} :
            p = OfAttribute(of, dim, value, selection, cue)
      BY <1>3 DEF AttributeProposals
    <2>2. QED
      BY <2>1, DimensionsAssumption
         DEF Resolved, Proposal, OfAttribute, QuestionOf, AttributeQuestion, AttributeAsk, Question,
             WellAsked, Keeps, CanBeYes, Maybe, AskedDims, Selections
  <1>4. CASE p \in MeasurementProposals
    <2>1. PICK of \in Maybe(Described), dim \in {"measurement", Nothing},
               value \in Maybe(Values), cue \in {"none", "was", "latest"} :
            p = OfMeasurement(of, dim, value, cue)
      BY <1>4 DEF MeasurementProposals
    <2>2. QED
      BY <2>1 DEF Resolved, Proposal, OfMeasurement, QuestionOf, MeasurementQuestion, Question,
         WellAsked, Keeps,
                  CanBeYes
  <1>5. CASE p \in StateProposals
    <2>1. PICK of \in Described, value \in Maybe(Values) :
            p = OfState(of, value)
      BY <1>5 DEF StateProposals
    <2>2. QED
      BY <2>1 DEF Resolved, Proposal, OfState, QuestionOf, StateQuestion, Question, WellAsked,
         Keeps,
                  CanBeYes
  <1>6. CASE p \in ConceptProposals
    <2>1. PICK primitive \in {"relation", "type", "unknown"},
               concept \in {"blocked", "ambiguous_pass", "ontology_gap", "resolved"} :
            p = OfConcept(primitive, concept)
      BY <1>6 DEF ConceptProposals
    <2>2. QED
      BY <2>1 DEF Resolved, Proposal, OfConcept, QuestionOf, RelationQuestion, Question,
         WellAsked, Keeps,
                  CanBeYes
  <1>7. QED
    BY <1>1, <1>2, <1>3, <1>4, <1>5, <1>6 DEF QueryProposals

-----------------------------------------------------------------------------
(* What is read of a response.                                             *)

LEMMA FallbackSays ==
  ASSUME NEW in, NEW text
  PROVE  LET said == Fallback(in, text).says IN
         /\ in.status = "error" => said = "failure"
         /\ said = "failure" => in.status = "error" \/ text.says = "failure"
         /\ said = "unknown" => in.status = "no_results" \/ text.says = "unknown"
         /\ said = "no" => \/ in.status \in {"answered", "unknown"} /\ in.relation = "no"
                           \/ text.says = "no"
         /\ said = "stored" => in.status = "committed" \/ text.says = "stored"
         /\ said = "not_stored" => \/ in.status \in {"deferred", "unsupported"}
                                   \/ text.says = "not_stored"
  BY DEF Fallback, Text

\* A turn and its response agree.
Agree(t, r) ==
  LET in   == PresenterInput(r)
      said == Fallback(in, r.text).says
      asked == t.kind = "query" /\ t.question # NoQuestion IN
  /\ in.status = "no_results" <=> t.status = "no_results"
  /\ said = "unknown" => t.status = "no_results"
  /\ in.status = "error" <=> t.kind = "failed"
  /\ said = "failure" <=> t.kind = "failed"
  /\ said = "no" => asked /\ t.result.relation = "no"
  /\ asked /\ in.relation = "no" => in.status = "answered"
  /\ t.kind = "write" =>
       /\ said = "stored" /\ t.tally.reported => t.tally.deferred = 0 /\ t.tally.committed > 0
       /\ said = "not_stored" => t.tally.reported /\ t.tally.committed = 0

\* The rows that YesAndNoAreBacked asks for.
Backing(p, q) ==
  LET ends == IF p.inverse THEN <<p.object, p.of>> ELSE <<p.of, p.object>> IN
  {k \in DOMAIN rows :
     /\ ends[1] \in {Nothing, rows[k].of} /\ ends[2] \in {Nothing, rows[k].value}
     /\ p.value \in {Nothing, rows[k].value}
     /\ p.class \in {Nothing, KindOf(rows[k].value)}
     /\ q.dim = rows[k].dim /\ q.value \in {Nothing, rows[k].value}
     /\ q.thing \in {Nothing, rows[k].value}
     /\ q.class = Nothing \/ q.class = KindOf(rows[k].value)
     /\ q.ask \in {"holds", "is", "list"} => rows[k].current}

LEMMA SupportBacks ==
  ASSUME NEW p, NEW q, Keeps(p, q), NEW k \in DOMAIN rows, Supports(k, q)
  PROVE  k \in Backing(p, q)
  BY DEF Keeps, Supports, Backing

Backed(p, q, in) ==
  /\ in.relation = "yes" => Backing(p, q) # {}
  /\ in.relation = "no" => \E k \in Backing(p, q) : q.at < rows[k].date

ToldLast(q, in) ==
  q.ask \in {"value", "state"} /\ in.value # Nothing /\ q.dim \in Singleton \cup {"state"} =>
    in.value = rows[CHOOSE k \in ToldOf(q) : \A j \in ToldOf(q) : j <= k].value

LEMMA OnlyTold ==
  ASSUME KnowledgeInv, NEW q, q.dim \in Singleton \cup {"state"}, NEW k \in ToldOf(q)
  PROVE  k = CHOOSE i \in ToldOf(q) : \A j \in ToldOf(q) : j <= i
  <1>1. \A i, j \in ToldOf(q) : i = j
    BY DEF KnowledgeInv, OneCurrent, ToldOf, HasOne
  <1>2. k \in Int
    BY DEF KnowledgeInv, ToldOf
  <1>3. \A j \in ToldOf(q) : j <= k
    BY <1>1, <1>2
  <1>4. QED
    BY <1>1, <1>3

LEMMA AskPresented ==
  ASSUME KnowledgeInv, NEW p, NEW q, WellAsked(q), CanBeYes(q) => Keeps(p, q),
         q # NoQuestion, NEW t, t.kind = "query", t.question = q,
         t.status = Answered(q).status, t.result = Answered(q).result
  PROVE  LET r == PresentAsk(Answered(q), {}) IN
         /\ Agree(t, r)
         /\ Backed(p, q, PresenterInput(r)) /\ ToldLast(q, PresenterInput(r))
  <1> DEFINE ask    == Answered(q)
             result == ask.result
             data   == ProjectAsk(ask)
             r      == PresentAsk(ask, {})
             in     == PresenterInput(r)
  <1>1. AnsweredWell(q, ask)
    BY WellAnswered
  <1>2. ask = AskResult(ask.status, q.of, result)
    BY DEF Answered, AskResult
  <1> HIDE DEF ask
  <1>3. /\ Says(data, result)
        /\ data.status = "no_results" <=> ask.status = "no_results"
        /\ ask.status = "no_results" =>
             RelationAnswer(data) = Nothing /\ ItemValues(data) = {} /\ data.value = Nothing
    BY <1>1, <1>2, AskSaid DEF AnsweredWell
  <1>4. r = Response("answer", "knowledge_query", data, ProjectionText(data))
    BY <1>1 DEF PresentAsk, AnsweredWell
  <1>5. r.type = "answer" /\ r.data = data /\ r.text = ProjectionText(data)
    BY <1>4 DEF Response
  <1> HIDE DEF data, r, result
  <1>6. /\ in.relation = RelationAnswer(data) /\ in.value = data.value
        /\ in.status = data.status
    BY <1>3, <1>5, InputFields DEF Nothing
  <1>7. /\ r.text.says \in {"unknown", "yes", "no", "unsure", "value"}
        /\ r.text.says = "unknown" => data.status = "no_results"
        /\ r.text.says = "no" => RelationAnswer(data) = "no"
    BY <1>5 DEF ProjectionText, Text, RelationAnswer, Nothing
  <1> HIDE DEF in
  <1>8. Agree(t, r)
    <2> DEFINE said == Fallback(in, r.text).says
    <2>1. /\ in.status = "error" => said = "failure"
          /\ said = "failure" => in.status = "error" \/ r.text.says = "failure"
          /\ said = "unknown" => in.status = "no_results" \/ r.text.says = "unknown"
          /\ said = "no" => in.relation = "no" \/ r.text.says = "no"
      BY FallbackSays
    <2> HIDE DEF said
    <2>2. in.status \in {"answered", "unknown", "needs_clarification", "no_results"}
      BY <1>3, <1>6 DEF Says
    <2>3. in.relation = "no" => in.status = "answered" /\ result.relation = "no"
      BY <1>3, <1>6 DEF Says
    <2>4. t.status = ask.status /\ t.result = result
      BY DEF ask, result
    <2>5. QED
      BY <1>3, <1>6, <1>7, <2>1, <2>2, <2>3, <2>4 DEF Agree, in, said
  <1>9. Backed(p, q, in)
    <2>1. in.relation = "yes" => \E k \in DOMAIN rows : Supports(k, q) /\ CanBeYes(q)
      BY <1>1, <1>3, <1>6 DEF Says, AnsweredWell, result
    <2>2. in.relation = "no" => ask.status = "answered" /\ result.relation = "no"
      BY <1>1, <1>3, <1>6 DEF Says, AnsweredWell, Nothing
    <2>3. in.relation = "no" =>
            \E k \in DOMAIN rows : Supports(k, q) /\ CanBeYes(q) /\ q.at < rows[k].date
      BY <1>1, <2>2 DEF AnsweredWell, result
    <2>4. QED
      BY <2>1, <2>3, SupportBacks DEF Backed
  <1>10. ToldLast(q, in)
    <2> SUFFICES ASSUME q.ask \in {"value", "state"}, in.value # Nothing,
                        q.dim \in Singleton \cup {"state"}
                 PROVE  in.value = rows[CHOOSE k \in ToldOf(q) : \A j \in ToldOf(q) : j <= k].value
      BY DEF ToldLast
    <2>1. in.value \in {Only(result.values), result.state} \ {Nothing}
      BY <1>3, <1>6 DEF Says
    <2>2. PICK k \in ToldOf(q) : rows[k].value = in.value
      BY <1>1, <2>1 DEF AnsweredWell, result
    <2>3. k = CHOOSE i \in ToldOf(q) : \A j \in ToldOf(q) : j <= i
      BY OnlyTold
    <2>4. QED
      BY <2>2, <2>3
  <1>11. QED
    BY <1>8, <1>9, <1>10 DEF in, r, ask

\* A response whose data say nothing of a relation or a value.
LEMMA PlainInput ==
  ASSUME NEW r, r.data.relation = Nothing, r.data.items = {}, r.data.value = Nothing
  PROVE  /\ PresenterInput(r).relation = Nothing
         /\ PresenterInput(r).status = IF r.type = "error" THEN "error" ELSE r.data.status
  <1>1. RelationAnswer(r.data) = Nothing /\ ItemValues(r.data) = {}
    BY NoneOfNone DEF RelationAnswer, ItemValues, Nothing
  <1>2. QED
    BY <1>1, InputFields DEF Nothing

LEMMA PlainAgrees ==
  ASSUME NEW t, NEW r, t.question = NoQuestion, t.kind \in {"query", "refused", "failed"},
         r.data.relation = Nothing, r.data.items = {}, r.data.value = Nothing,
         r.type = "error" <=> t.kind = "failed",
         t.kind # "failed" => r.data.status # "error"
           /\ (r.data.status = "no_results" <=> t.status = "no_results"),
         t.kind = "failed" => t.status = Nothing,
         r.text.says = "failure" <=> t.kind = "failed",
         r.text.says # "no", r.text.says = "unknown" => t.status = "no_results"
  PROVE  Agree(t, r)
  <1> DEFINE in   == PresenterInput(r)
             said == Fallback(in, r.text).says
  <1>1. in.relation = Nothing /\ in.status = IF r.type = "error" THEN "error" ELSE r.data.status
    BY PlainInput
  <1>2. /\ in.status = "error" => said = "failure"
        /\ said = "failure" => in.status = "error" \/ r.text.says = "failure"
        /\ said = "unknown" => in.status = "no_results" \/ r.text.says = "unknown"
        /\ said = "no" => in.relation = "no" \/ r.text.says = "no"
    BY FallbackSays
  <1> HIDE DEF in, said
  <1>3. QED
    BY <1>1, <1>2 DEF Agree, in, said, Nothing

LEMMA UnbuiltAgrees ==
  ASSUME NEW error \in BuildErrors, NEW candidates
  PROVE  Agree(Turn("query", NotBuilt(error).status), PresentAsk(NotBuilt(error), candidates))
  <1> DEFINE ask == NotBuilt(error)
             t   == Turn("query", ask.status)
             r   == PresentAsk(ask, candidates)
  <1>1. t.question = NoQuestion /\ t.kind = "query" /\ t.status = ask.status
    BY DEF Turn
  <1>2. CASE ask.status = "no_results"
    <2>1. ProjectAsk(ask) = Absence(ask.result, ask.entity)
      BY <1>2 DEF ProjectAsk
    <2>2. r = Response("answer", "knowledge_query", ProjectAsk(ask), ProjectionText(ProjectAsk(ask)))
      BY <1>2 DEF PresentAsk
    <2>3. /\ r.type = "answer" /\ r.data = Absence(ask.result, ask.entity)
          /\ r.text = ProjectionText(Absence(ask.result, ask.entity))
      BY <2>1, <2>2 DEF Response
    <2> HIDE DEF r, ask
    <2>4. /\ r.data.status = "no_results" /\ r.data.relation = Nothing /\ r.data.items = {}
          /\ r.data.value = Nothing
      BY <2>3 DEF Absence, Data
    <2>5. r.text.says = "unknown"
      BY <2>3, <2>4 DEF ProjectionText, Text, Nothing
    <2> HIDE DEF t
    <2>6. Agree(t, r)
      BY <1>1, <1>2, <2>3, <2>4, <2>5, PlainAgrees
    <2>7. QED
      BY <2>6 DEF t, r, ask
  <1>3. CASE ask.status # "no_results"
    <2>1. ask.status \in {"needs_clarification", "rejected"}
      BY <1>3 DEF NotBuilt, AskResult
    <2> HIDE DEF ask
    <2>2. /\ r.type \in {"clarification", "unsupported"}
          /\ r.data.status \in {"needs_clarification", "unsupported"}
          /\ r.data.relation = Nothing /\ r.data.items = {} /\ r.data.value = Nothing
          /\ r.text.says \in {"which", "detail", "cannot"}
      BY <2>1 DEF PresentAsk, Response, Data, Text
    <2> HIDE DEF r, t
    <2>3. Agree(t, r)
      BY <1>1, <1>3, <2>2, PlainAgrees
    <2>4. QED
      BY <2>3 DEF t, r, ask
  <1>4. QED
    BY <1>2, <1>3

LEMMA RefusedAgrees ==
  ASSUME NEW r \in {PresentRefusal(refusal) : refusal \in {"unclear", "correction", "write"}}
                   \cup {PresentUninterpreted}
  PROVE  Agree(Turn("refused", Nothing), r)
  <1>1. /\ r.type \in {"clarification", "unsupported"}
        /\ r.data.status \in {"needs_clarification", "unsupported"}
        /\ r.data.relation = Nothing /\ r.data.items = {} /\ r.data.value = Nothing
        /\ r.text.says \in {"detail", "cannot"}
    BY DEF PresentRefusal, PresentUninterpreted, Response, Data, Text
  <1> DEFINE t == Turn("refused", Nothing)
  <1>2. t.question = NoQuestion /\ t.kind = "refused" /\ t.status = Nothing
    BY DEF Turn
  <1> HIDE DEF t
  <1>3. Agree(t, r)
    BY <1>1, <1>2, PlainAgrees DEF Nothing
  <1>4. QED
    BY <1>3 DEF t

LEMMA FailedAgrees == Agree(Turn("failed", Nothing), MapFailure)
  <1> DEFINE t == Turn("failed", Nothing)
             r == MapFailure
  <1>1. t.question = NoQuestion /\ t.kind = "failed" /\ t.status = Nothing
    BY DEF Turn
  <1>2. /\ r.type = "error" /\ r.data.relation = Nothing /\ r.data.items = {}
        /\ r.data.value = Nothing /\ r.text.says = "failure"
    BY DEF MapFailure, Response, Data, Text
  <1> HIDE DEF t, r
  <1>3. Agree(t, r)
    BY <1>1, <1>2, PlainAgrees
  <1>4. QED
    BY <1>3 DEF t, r

LEMMA WriteAgrees ==
  ASSUME NEW tally \in Tallies
  PROVE  Agree([Turn("write", IngestStatus(tally)) EXCEPT !.tally = tally], PresentWrite(tally))
  <1> DEFINE status == IngestStatus(tally)
             t      == [Turn("write", status) EXCEPT !.tally = tally]
             r      == PresentWrite(tally)
             in     == PresenterInput(r)
             said   == Fallback(in, r.text).says
  <1>1. /\ status \in {"committed", "partial", "deferred", "unsupported"}
        /\ status = "committed" /\ tally.reported => tally.deferred = 0 /\ tally.committed > 0
        /\ status \in {"deferred", "unsupported"} => tally.reported /\ tally.committed = 0
    BY DEF IngestStatus, Tallies
  <1>2. t.kind = "write" /\ t.status = status /\ t.tally = tally /\ t.question = NoQuestion
    BY DEF Turn
  <1> HIDE DEF status
  <1>3. /\ r.type # "error" /\ r.data.status = status
        /\ r.data.relation = Nothing /\ r.data.items = {} /\ r.data.value = Nothing
        /\ r.text.says = CASE status = "committed" -> "stored"
                           [] status = "partial"   -> "partly"
                           [] OTHER                -> "not_stored"
    BY DEF PresentWrite, Response, Data, Text, status
  <1> HIDE DEF r, t
  <1>4. in.relation = Nothing /\ in.status = status
    BY <1>3, PlainInput
  <1>5. /\ said = "failure" => in.status = "error" \/ r.text.says = "failure"
        /\ said = "unknown" => in.status = "no_results" \/ r.text.says = "unknown"
        /\ said = "no" => in.relation = "no" \/ r.text.says = "no"
        /\ said = "stored" => in.status = "committed" \/ r.text.says = "stored"
        /\ said = "not_stored" => \/ in.status \in {"deferred", "unsupported"}
                                  \/ r.text.says = "not_stored"
    BY FallbackSays
  <1> HIDE DEF in, said
  <1>6. r.text.says \in {"stored", "partly", "not_stored"}
        /\ (r.text.says = "stored" => status = "committed")
        /\ (r.text.says = "not_stored" => status \in {"deferred", "unsupported"})
    BY <1>1, <1>3
  <1>7. Agree(t, r)
    BY <1>1, <1>2, <1>4, <1>5, <1>6 DEF Agree, in, said, Nothing
  <1>8. QED
    BY <1>7 DEF t, r, status

-----------------------------------------------------------------------------
(* The invariant of the turns.                                             *)

\* What was answered rests on the rows, which stay as they are until the next
\* turn.
AskInv ==
  Asked => Backed(turn.proposal, turn.question, Input) /\ ToldLast(turn.question, Input)

ReplyInv ==
  \/ reply.by = "nobody"
  \/ reply.by = "model" /\ Accepts(reply.text, Input)
  \/ reply.by = "fallback" /\ reply.text = Fallback(Input, response.text)

TurnsInv ==
  /\ KnowledgeInv
  /\ turn = NoTurn => reply.by = "nobody"
  /\ turn # NoTurn => Agree(turn, response)
  /\ AskInv
  /\ ReplyInv

LEMMA NoneAsked == NoTurn.kind = "none"
  BY DEF NoTurn, Turn

\* A question has an ask, and an answered one is not NoQuestion.
LEMMA SomeQuestion ==
  ASSUME NEW q, WellAsked(q)
  PROVE  q # NoQuestion
  BY DEF WellAsked, NoQuestion, Question, Nothing

LEMMA AskStep ==
  ASSUME TurnsInv, turn = NoTurn, UNCHANGED <<rows, reply>>,
         NEW p, NEW q, WellAsked(q), CanBeYes(q) => Keeps(p, q), Ask(p, q)
  PROVE  TurnsInv'
  <1> DEFINE ask == Answered(q)
             t   == [Turn("query", ask.status) EXCEPT !.proposal = p, !.question = q,
                                                      !.result = ask.result]
             r   == PresentAsk(ask, {})
  <1>1. turn' = t /\ response' = r
    BY DEF Ask
  <1> HIDE DEF ask
  <1>2. t.kind = "query" /\ t.proposal = p /\ t.question = q /\ t.status = ask.status
        /\ t.result = ask.result
    BY DEF Turn
  <1> HIDE DEF t
  <1>3. q # NoQuestion
    BY SomeQuestion
  <1>4. Agree(t, r) /\ Backed(p, q, PresenterInput(r)) /\ ToldLast(q, PresenterInput(r))
    BY <1>2, <1>3, AskPresented DEF TurnsInv, ask
  <1> HIDE DEF r
  <1>5. KnowledgeInv'
    BY DEF TurnsInv, KnowledgeInv, OneCurrent
  <1>6. Agree(turn', response')
    BY <1>1, <1>4
  <1>7. AskInv'
    BY <1>1, <1>2, <1>4 DEF AskInv, Asked, Input, Backed, Backing, ToldLast, ToldOf
  <1>8. reply'.by = "nobody"
    BY DEF TurnsInv
  <1>9. QED
    BY <1>5, <1>6, <1>7, <1>8 DEF TurnsInv, ReplyInv

\* A turn that asks nothing.
LEMMA PlainStep ==
  ASSUME TurnsInv, turn = NoTurn, UNCHANGED <<rows, reply>>,
         NEW t, t.question = NoQuestion, turn' = t, Agree(t, response')
  PROVE  TurnsInv'
  <1>1. KnowledgeInv'
    BY DEF TurnsInv, KnowledgeInv, OneCurrent
  <1>2. Agree(turn', response')
    OBVIOUS
  <1>3. AskInv'
    BY DEF AskInv, Asked
  <1>4. reply'.by = "nobody"
    BY DEF TurnsInv
  <1>5. QED
    BY <1>1, <1>2, <1>3, <1>4 DEF TurnsInv, ReplyInv

LEMMA TurnsInit == Init => TurnsInv
  <1> SUFFICES ASSUME Init PROVE TurnsInv
    OBVIOUS
  <1>1. KnowledgeInv
    BY DEF Init, KnowledgeInv, OneCurrent
  <1>2. AskInv /\ reply.by = "nobody"
    BY NoneAsked DEF Init, AskInv, Asked, NoReply
  <1>3. QED
    BY <1>1, <1>2 DEF TurnsInv, ReplyInv, Init

LEMMA TurnsNext == TurnsInv /\ [Next]_vars => TurnsInv'
  <1> SUFFICES ASSUME TurnsInv, [Next]_vars PROVE TurnsInv'
    OBVIOUS
  <1>1. CASE TellTurn
    <2>1. turn = NoTurn /\ Tell /\ turn' = turn /\ reply' = reply
      BY <1>1 DEF TellTurn
    <2>2. KnowledgeInv'
      BY <2>1, TellKnowledge DEF TurnsInv
    <2>3. AskInv'
      BY <2>1, NoneAsked DEF AskInv, Asked
    <2>4. reply'.by = "nobody"
      BY <2>1 DEF TurnsInv
    <2>5. QED
      BY <2>1, <2>2, <2>3, <2>4 DEF TurnsInv, ReplyInv
  <1>2. CASE AskTurn
    <2>1. PICK q \in Questions : Ask(NoProposal, q)
      BY <1>2 DEF AskTurn
    <2>2. turn = NoTurn /\ UNCHANGED <<rows, reply>>
      BY <1>2 DEF AskTurn, Begin
    <2>3. QED
      BY <2>1, <2>2, QuestionsAsked, AskStep
  <1>3. CASE ProposedTurn
    <2>1. turn = NoTurn /\ UNCHANGED <<rows, reply>>
      BY <1>3 DEF ProposedTurn, Begin
    <2>2. PICK p \in QueryProposals :
            IF Resolved(p) THEN Ask(p, QuestionOf(p))
            ELSE turn' = Turn("refused", Nothing) /\ response' = PresentUninterpreted
      BY <1>3 DEF ProposedTurn
    <2>3. CASE Resolved(p)
      BY <2>1, <2>2, <2>3, ProposalsAsked, AskStep
    <2>4. CASE ~ Resolved(p)
      <3>1. Agree(Turn("refused", Nothing), response')
        BY <2>2, <2>4, RefusedAgrees
      <3>2. Turn("refused", Nothing).question = NoQuestion
        BY DEF Turn
      <3>3. QED
        BY <2>1, <2>2, <2>4, <3>1, <3>2, PlainStep
    <2>5. QED
      BY <2>3, <2>4
  <1>4. CASE UnbuiltTurn
    <2>1. turn = NoTurn /\ UNCHANGED <<rows, reply>>
      BY <1>4 DEF UnbuiltTurn, Begin
    <2>2. PICK error \in BuildErrors :
            /\ turn' = Turn("query", NotBuilt(error).status)
            /\ response' = PresentAsk(NotBuilt(error),
                                      IF error = "entity.ambiguous" THEN Things ELSE {})
      BY <1>4 DEF UnbuiltTurn
    <2>3. Agree(Turn("query", NotBuilt(error).status), response')
      BY <2>2, UnbuiltAgrees
    <2>4. Turn("query", NotBuilt(error).status).question = NoQuestion
      BY DEF Turn
    <2>5. QED
      BY <2>1, <2>2, <2>3, <2>4, PlainStep
  <1>5. CASE WriteTurn
    <2>1. turn = NoTurn /\ UNCHANGED <<rows, reply>>
      BY <1>5 DEF WriteTurn, Begin
    <2>2. PICK tally \in Tallies :
            /\ turn' = [Turn("write", IngestStatus(tally)) EXCEPT !.tally = tally]
            /\ response' = PresentWrite(tally)
      BY <1>5 DEF WriteTurn
    <2> DEFINE t == [Turn("write", IngestStatus(tally)) EXCEPT !.tally = tally]
    <2>3. Agree(t, response')
      BY <2>2, WriteAgrees
    <2>4. t.question = NoQuestion
      BY DEF Turn
    <2>5. turn' = t
      BY <2>2
    <2> HIDE DEF t
    <2>6. QED
      BY <2>1, <2>3, <2>4, <2>5, PlainStep
  <1>6. CASE RefusedTurn
    <2>1. turn = NoTurn /\ UNCHANGED <<rows, reply>> /\ turn' = Turn("refused", Nothing)
      BY <1>6 DEF RefusedTurn, Begin
    <2>2. Agree(Turn("refused", Nothing), response')
      BY <1>6, RefusedAgrees DEF RefusedTurn
    <2>3. Turn("refused", Nothing).question = NoQuestion
      BY DEF Turn
    <2>4. QED
      BY <2>1, <2>2, <2>3, PlainStep
  <1>7. CASE FailedTurn
    <2>1. turn = NoTurn /\ UNCHANGED <<rows, reply>> /\ turn' = Turn("failed", Nothing)
          /\ response' = MapFailure
      BY <1>7 DEF FailedTurn, Begin
    <2>2. Agree(Turn("failed", Nothing), response')
      BY <2>1, FailedAgrees
    <2>3. Turn("failed", Nothing).question = NoQuestion
      BY DEF Turn
    <2>4. QED
      BY <2>1, <2>2, <2>3, PlainStep
  <1>8. ASSUME NEW by, NEW text, Reply(by, text),
               \/ by = "model" /\ Accepts(text, Input)
               \/ by = "fallback" /\ text = Fallback(Input, response.text)
        PROVE  TurnsInv'
    <2>1. /\ turn # NoTurn /\ reply' = [by |-> by, text |-> text]
          /\ UNCHANGED <<rows, turn, response>>
      BY <1>8 DEF Reply
    <2>2. KnowledgeInv'
      BY <2>1 DEF TurnsInv, KnowledgeInv, OneCurrent
    <2>3. Agree(turn', response')
      BY <2>1 DEF TurnsInv
    <2>4. AskInv'
      BY <2>1 DEF TurnsInv, AskInv, Asked, Input, Backed, Backing, ToldLast, ToldOf
    <2>5. Input' = Input
      BY <2>1 DEF Input
    <2>6. ReplyInv'
      BY <1>8, <2>1, <2>5 DEF ReplyInv
    <2>7. QED
      BY <2>1, <2>2, <2>3, <2>4, <2>6 DEF TurnsInv
  <1>9. CASE ReplyByModel
    BY <1>8, <1>9 DEF ReplyByModel
  <1>10. CASE ReplyByFallback
    BY <1>8, <1>10 DEF ReplyByFallback
  <1>11. CASE NextTurn
    <2>1. turn' = NoTurn /\ rows' = rows /\ reply'.by = "nobody"
      BY <1>11 DEF NextTurn, NoReply
    <2>2. KnowledgeInv'
      BY <2>1 DEF TurnsInv, KnowledgeInv, OneCurrent
    <2>3. AskInv'
      BY <2>1, NoneAsked DEF AskInv, Asked
    <2>4. QED
      BY <2>1, <2>2, <2>3 DEF TurnsInv, ReplyInv
  <1>12. CASE UNCHANGED vars
    <2>1. rows' = rows /\ turn' = turn /\ response' = response /\ reply' = reply
      BY <1>12 DEF vars
    <2>2. KnowledgeInv'
      BY <2>1 DEF TurnsInv, KnowledgeInv, OneCurrent
    <2>3. AskInv'
      BY <2>1 DEF TurnsInv, AskInv, Asked, Input, Backed, Backing, ToldLast, ToldOf
    <2>4. ReplyInv'
      BY <2>1 DEF TurnsInv, ReplyInv, Input
    <2>5. QED
      BY <2>1, <2>2, <2>3, <2>4 DEF TurnsInv
  <1>13. QED
    BY <1>1, <1>2, <1>3, <1>4, <1>5, <1>6, <1>7, <1>9, <1>10, <1>11, <1>12 DEF Next

-----------------------------------------------------------------------------
(* AnswerTurns: the theorems.                                              *)

\* The presenter is told of an absence if and only if the engine's answer is
\* that nothing was found, and a reply that is not the model's own says that
\* something is not known only then.
THEOREM AbsenceTrue == Spec => []AbsenceIsTheEngines
  <1>1. TurnsInv => AbsenceIsTheEngines
    BY DEF TurnsInv, Agree, ReplyInv, AbsenceIsTheEngines, Input
  <1>2. QED
    BY <1>1, TurnsInit, TurnsNext, PTL DEF Spec

\* Of what was not found no accepted text of the model says a bare no, it turns
\* no no into not knowing and calls a failure one; and the fallback, which keeps
\* these, says that something was stored only if nothing of it was put off.
THEOREM StatusKept == Spec => []ReplyKeepsTheStatus
  <1>1. TurnsInv => ReplyKeepsTheStatus
    <2> SUFFICES ASSUME TurnsInv PROVE ReplyKeepsTheStatus
      OBVIOUS
    <2>1. reply.by # "nobody" => turn # NoTurn /\ Agree(turn, response)
      BY DEF TurnsInv
    <2>2. CASE reply.by = "model"
      <3>1. Accepts(reply.text, Input)
        BY <2>2 DEF TurnsInv, ReplyInv
      <3>2. QED
        BY <2>1, <2>2, <3>1 DEF Agree, Accepts, ReplyKeepsTheStatus, ByModel, Asked, Input
    <2>3. CASE reply.by = "fallback"
      <3>1. reply.text = Fallback(Input, response.text)
        BY <2>3 DEF TurnsInv, ReplyInv
      <3>2. QED
        BY <2>1, <2>3, <3>1 DEF Agree, ReplyKeepsTheStatus, ByModel, Asked, Input
    <2>4. CASE reply.by \notin {"model", "fallback"}
      BY <2>4 DEF ReplyKeepsTheStatus, ByModel
    <2>5. QED
      BY <2>2, <2>3, <2>4
  <1>2. QED
    BY <1>1, TurnsInit, TurnsNext, PTL DEF Spec

\* A yes that the presenter is given rests on a stored row that says what the
\* proposal named, a current one where the question is about the present; and a
\* no on such a row of a relation that began after the time asked of.
THEOREM BackedAnswers == Spec => []YesAndNoAreBacked
  <1>1. TurnsInv => YesAndNoAreBacked
    BY DEF TurnsInv, AskInv, Backed, Backing, YesAndNoAreBacked
  <1>2. QED
    BY <1>1, TurnsInit, TurnsNext, PTL DEF Spec

\* What the presenter is given as the value of something that has one value at
\* a time is what was told last, although earlier values stay stored.
THEOREM LastToldGiven == Spec => []LastToldIsCurrent
  <1>1. TurnsInv => LastToldIsCurrent
    BY DEF TurnsInv, AskInv, ToldLast, ToldOf, LastToldIsCurrent
  <1>2. QED
    BY <1>1, TurnsInit, TurnsNext, PTL DEF Spec
=============================================================================
