---------------------------- MODULE RelationAnswers ----------------------------
(***************************************************************************)
(* One relation between two entities, as it begins and ends in the world,  *)
(* as the user tells it, as KnowledgeMaterializer stores it, and as the    *)
(* relation resolver answers for it.  The rows are in the order in which   *)
(* they were written, which is the order a snapshot has them in.           *)
(***************************************************************************)
EXTENDS TemporalMembership, Sequences, FiniteSets

CONSTANTS
  BeginForms, EndForms, HistoryForms,  \* how the user tells when
  MaxEpisodes,  \* bound on how often the relation begins
  MaxTells      \* bound on what the user tells

ASSUME RelationFormsAssumption == BeginForms \cup EndForms \cup HistoryForms \subseteq TimeForms

\* A window, or a beginning without a date or in the future, is not stored as
\* current, and CurrentIsTrue fails of a relation that is told so to hold.
ASSUME BeginningsAssumption == BeginForms \cap {"window", "past", "planned"} = {}

VARIABLES
  now, on, since, until,  \* the present instant; whether, since and until when it holds
  holds,                  \* the instants at which it has held
  episodes,
  pending,                \* what the user has not told yet: none, began or ended
  relations,              \* the stored relations
  tells                   \* how many times the user has told something

world        == <<now, on, since, until, holds, episodes>>
relationVars == <<world, pending, relations, tells>>

RelationInit ==
  /\ now = Start /\ on = FALSE /\ since = Start /\ until = Start /\ holds = {} /\ episodes = 0
  /\ pending = "none" /\ relations = <<>> /\ tells = 0

Latest(ks) == CHOOSE k \in ks : \A j \in ks : relations[j].seen < relations[k].seen \/ j = k
Currents   == {k \in DOMAIN relations : relations[k].current}

-----------------------------------------------------------------------------
(* Faulty variants of definitions below, for mutation runs.                *)

\* Every assertion is a new row.
AlwaysNew(t) == TRUE

\* An end that is not known is taken for none.
OpenWhenEndUnknown(row, a, b) ==
  ValidityMembership(row.from, row.to, a, b, row.to = NoTime)

-----------------------------------------------------------------------------
(* The world.                                                              *)

Tick ==
  /\ now < Horizon /\ pending = "none"
  /\ now' = now + 1
  /\ holds' = IF on THEN holds \cup {now} ELSE holds
  /\ UNCHANGED <<on, since, until, episodes, pending, relations, tells>>

\* Between two episodes there is an instant at least.
RelationBegins ==
  /\ ~ on /\ pending = "none" /\ episodes < MaxEpisodes
  /\ episodes > 0 => until < now
  /\ on' = TRUE /\ since' = now /\ episodes' = episodes + 1 /\ pending' = "began"
  /\ UNCHANGED <<now, until, holds, relations, tells>>

\* It lasts for an instant at least.
RelationEnds ==
  /\ on /\ pending = "none" /\ since < now
  /\ on' = FALSE /\ until' = now /\ pending' = "ended"
  /\ UNCHANGED <<now, since, holds, episodes, relations, tells>>

-----------------------------------------------------------------------------
(* What the user tells, stored.                                            *)

\* occurrence_status: a window is stored as having happened.
IsCurrent(mode, t) ==
  mode = "assert" /\ t.form \notin {"window", "past", "planned"}

\* No current row to refresh.
StoresNew(t) == ~ IsCurrent("assert", t) \/ Currents = {}

NewRow(mode, t) ==
  [time |-> t, current |-> IsCurrent(mode, t), from |-> CalendarStart(t), to |-> NoTime,
   terminated |-> FALSE, end |-> Unknown, seen |-> tells + 1]

\* Relation.apply_termination
Terminated(row, t) ==
  [row EXCEPT !.terminated = TRUE, !.end = t, !.to = CalendarEndpoint(t), !.current = FALSE]

MoreTold ==
  /\ tells < MaxTells /\ tells' = tells + 1
  /\ pending' = "none"
  /\ UNCHANGED world

\* The relation holds, since t; told again, it refreshes the row.
TellBegan ==
  /\ on /\ MoreTold
  /\ \E form \in BeginForms : \E t \in Told(form, since) :
       relations' = IF StoresNew(t) THEN Append(relations, NewRow("assert", t))
                    ELSE [relations EXCEPT ![Latest(Currents)].seen = tells + 1]

\* It has ended, at t: the current row, or else the one seen last.
TellEnded ==
  /\ pending = "ended" /\ MoreTold
  /\ \E form \in EndForms : \E t \in Told(form, until) :
       IF relations = <<>> THEN UNCHANGED relations
       ELSE LET k == Latest(IF Currents # {} THEN Currents ELSE DOMAIN relations)
            IN relations' = [relations EXCEPT ![k] = Terminated(@, t)]

\* It does not hold any more, without saying that it ended.
TellOver ==
  /\ pending = "ended" /\ MoreTold
  /\ relations' = IF Currents = {} THEN relations
                  ELSE [relations EXCEPT ![Latest(Currents)].current = FALSE]

\* It once held.
TellHistory ==
  /\ pending = "none" /\ MoreTold
  /\ \E i \in holds, form \in HistoryForms : \E t \in Told(form, i) :
       relations' = Append(relations, NewRow("historical", t))

RelationNext ==
  Tick \/ RelationBegins \/ RelationEnds \/ TellBegan \/ TellEnded \/ TellOver \/ TellHistory

-----------------------------------------------------------------------------
(* Answers.                                                                *)

\* relation_held_during
HeldMembership(row, a, b) ==
  ValidityMembership(row.from, IF row.current THEN NoTime ELSE row.to, a, b, row.current)

\* resolve_held_during: of several rows the first one.
WasHeld(a, b) ==
  IF relations = <<>> THEN "no"
  ELSE CASE HeldMembership(relations[1], a, b) = "match"    -> "yes"
         [] HeldMembership(relations[1], a, b) = "no_match" -> "no"
         [] OTHER -> "unknown"

\* resolve_relation_query, scope current, both ends given.
CurrentAnswer ==
  IF Currents = {} THEN "no" ELSE IF Cardinality(Currents) = 1 THEN "yes" ELSE "unknown"

\* resolve_termination_date: of several ended rows the first one.
TerminationAnswer ==
  LET ended == {k \in DOMAIN relations : relations[k].terminated \/ ~ relations[k].current} IN
  IF ended = {} THEN [answer |-> "no", end |-> Unknown]
  ELSE LET row == relations[CHOOSE k \in ended : \A j \in ended : k <= j] IN
       [answer |-> IF row.terminated /\ TerminationCalendarKnown(row.end) THEN "yes"
                   ELSE "unknown",
        end |-> row.end]

-----------------------------------------------------------------------------
\* What is stored is one row, and neither its time nor its end is a date that
\* is coarser than an instant.
Exact(time) == time.form \in {"minute", "past", "ongoing", "unknown"}
OneExactRow == Len(relations) = 1 /\ Exact(relations[1].time) /\ Exact(relations[1].end)

\* Held during a range means throughout the range, of a relation that is one
\* row without coarse dates: a yes says that it held at each of its instants,
\* a no that it held at none, once the user has told what there was to tell.
HeldIsThroughout ==
  pending = "none" /\ OneExactRow =>
    \A a \in Start .. now : \A b \in a + 1 .. now :
      /\ WasHeld(a, b) = "yes" => (a .. (b - 1)) \subseteq holds
      /\ WasHeld(a, b) = "no" => (a .. (b - 1)) \cap holds = {}

CurrentIsTrue == pending = "none" => CurrentAnswer = (IF on THEN "yes" ELSE "no")

EndIsNotInvented ==
  TerminationAnswer.answer = "yes" =>
    \E i \in Possible(TerminationAnswer.end, Start + 1 .. now) :
      i - 1 \in holds /\ i \notin holds

\* Through beginnings, ends, denials, retellings and history, the answer to
\* whether it holds now is the truth, and a date of its end is only given if
\* there was an end that the date allows.  BeginningsAssumption leaves out the
\* forms of a beginning of which the first half is false.
RelationIsTrue == CurrentIsTrue /\ EndIsNotInvented
===============================================================================
