--------------------------- MODULE ObservationAnswers ---------------------------
(***************************************************************************)
(* What the engine answers about one thing that was measured at several    *)
(* times, or about events of one kind with an amount each.  The two tables *)
(* are alike for these questions: a row has what is known of its time and  *)
(* a value; it is told in any order and may be retracted.  The true        *)
(* instant of each row is kept beside it; no answer looks at it.           *)
(***************************************************************************)
EXTENDS TemporalMembership, Sequences, FiniteSets

CONSTANTS
  ToldForms,       \* how the user tells when
  Amounts,         \* amounts of one currency and unit
  MaxObservations  \* bound on the rows

ASSUME ToldFormsAssumption == ToldForms \subseteq TimeForms
ASSUME ValuesAssumption    == Amounts \subseteq Nat \ {0}

VARIABLES observed  \* the stored observations

Instants == Start .. Horizon - 1

ObservationInit == observed = <<>>

-----------------------------------------------------------------------------
(* What the user tells.                                                    *)

Observe ==
  /\ Len(observed) < MaxObservations
  /\ \E form \in ToldForms, i \in Instants, v \in Amounts : \E t \in Told(form, i) :
       observed' = Append(observed, [time |-> t, value |-> v, at |-> i, retracted |-> FALSE])

Retract == \E k \in DOMAIN observed :
             ~ observed[k].retracted /\ observed' = [observed EXCEPT ![k].retracted = TRUE]

ObservationNext == Observe \/ Retract

-----------------------------------------------------------------------------
(* Answers.                                                                *)

\* observation_instant: what a row is sorted by.
Instant(k) == TemporalInstant(observed[k].time)

\* filter_effective
Effective == {k \in DOMAIN observed : ~ observed[k].retracted}

ValuesOf(ks) == {observed[k].value : k \in ks}

\* _partition_temporal, and the same loop over events in execute.
InRange(ks, m, a, b) == {k \in ks : RangeMembership(observed[k].time, a, b) = m}

(* Faulty variants of definitions below, for mutation runs.                *)

\* Rows without a time are left out of the order.
LatestOfDated(ks) ==
  LET dated == {k \in ks : Instant(k) # NoTime}
      last  == {k \in dated : \A j \in dated : Instant(j) <= Instant(k)}
  IN [status |-> IF Cardinality(ValuesOf(last)) = 1 THEN "known_single" ELSE "ambiguous",
      values |-> ValuesOf(last)]

-----------------------------------------------------------------------------
\* _latest of the measurements: their instants must all be known.
LatestOf(ks) ==
  LET undated == {k \in ks : Instant(k) = NoTime}
      last    == {k \in ks : \A j \in ks : Instant(j) <= Instant(k)}
  IN IF ks = {} THEN [status |-> "unknown", values |-> {}]
     ELSE IF undated = ks THEN [status |-> "temporally_unknown", values |-> ValuesOf(ks)]
     ELSE IF undated # {} THEN [status |-> "ambiguous", values |-> ValuesOf(ks)]
     ELSE [status |-> IF Cardinality(ValuesOf(last)) = 1 THEN "known_single" ELSE "ambiguous",
           values |-> ValuesOf(last)]

\* _at_time
AtTime(a, b) ==
  LET matched == InRange(Effective, "match", a, b)
      unknown == InRange(Effective, "unknown", a, b)
  IN [status  |-> CASE matched = {} /\ unknown = {} -> "unknown"
                    [] matched = {} /\ unknown # {} -> "temporally_unknown"
                    [] Cardinality(ValuesOf(matched)) = 1 -> "known_single"
                    [] Cardinality(ValuesOf(matched)) > 1 -> "ambiguous",
      values  |-> ValuesOf(matched),
      partial |-> unknown # {}]

\* _proposition, with a range: was it v then?
WasObserved(v, a, b) ==
  LET matching == {k \in Effective : observed[k].value = v} IN
  IF InRange(matching, "match", a, b) # {}
    THEN IF ValuesOf(InRange(Effective, "match", a, b)) = {v} THEN "yes" ELSE "ambiguous"
  ELSE IF InRange(matching, "unknown", a, b) # {} THEN "temporally_unknown" ELSE "unknown"

\* The amounts are natural numbers: their sum is how many units there are.
Units(k)  == {k} \X (1 .. observed[k].value)
SumOf(ks) == Cardinality(UNION {Units(k) : k \in ks})

\* COUNT and SUM of the events in a range, with what may have to be added.
Count(a, b) == [value   |-> Cardinality(InRange(Effective, "match", a, b)),
                unknown |-> Cardinality(InRange(Effective, "unknown", a, b))]
SumIn(a, b) == [value   |-> SumOf(InRange(Effective, "match", a, b)),
                unknown |-> SumOf(InRange(Effective, "unknown", a, b))]

\* LATEST of the events, out of those that match and those that may: any of
\* the last ones by their instants, if one has an instant.
NewestOf(matched, unknown) ==
  LET pool   == matched \cup unknown
      dated  == {k \in pool : Instant(k) # NoTime}
  IN [rows     |-> IF dated = {} THEN pool
                   ELSE {k \in dated : \A j \in dated : Instant(j) <= Instant(k)},
      complete |-> dated = pool /\ unknown = {}]

NewestBetween(a, b) ==
  NewestOf(InRange(Effective, "match", a, b), InRange(Effective, "unknown", a, b))

-----------------------------------------------------------------------------
(* Properties.                                                             *)

TrulyIn(a, b) == {k \in Effective : a <= observed[k].at /\ observed[k].at < b}
TrulyLast(ks) == {k \in ks : \A j \in ks : observed[j].at <= observed[k].at}
Ranges        == {r \in Instants \X (Start + 1 .. Horizon) : r[1] < r[2]}

\* Values answered for a range were observed in it; none is missing unless the
\* answer says that it is partial; and nothing is found only if it was so.
ValuesAreTrue(a, b) ==
  LET answer == AtTime(a, b)  truth == ValuesOf(TrulyIn(a, b)) IN
  /\ answer.values \subseteq truth
  /\ answer.partial \/ answer.values = truth
  /\ answer.status = "unknown" => truth = {}

\* A yes was observed; ambiguity means that another value was observed too;
\* and "unknown" is not said of a value that was.
PropositionIsTrue(v, a, b) ==
  LET truth == ValuesOf(TrulyIn(a, b)) IN
  CASE WasObserved(v, a, b) = "yes"       -> v \in truth
    [] WasObserved(v, a, b) = "ambiguous" -> v \in truth /\ truth # {v}
    [] WasObserved(v, a, b) = "unknown"   -> v \notin truth
    [] OTHER -> TRUE

\* The number and the sum of the events of a range lie between what is
\* answered and that with the indeterminate ones added.
TotalsAreBracketed(a, b) ==
  LET count == Count(a, b)  sum == SumIn(a, b)  truth == TrulyIn(a, b) IN
  /\ count.value <= Cardinality(truth) /\ Cardinality(truth) <= count.value + count.unknown
  /\ sum.value <= SumOf(truth) /\ SumOf(truth) <= sum.value + sum.unknown

\* What is answered of a range, which values, whether it was this one, how many
\* and how much, is true of the instants at which the observations were made,
\* in whatever form and order they were told and whatever was retracted since.
RangesAreTrue ==
  \A r \in Ranges :
    /\ ValuesAreTrue(r[1], r[2]) /\ TotalsAreBracketed(r[1], r[2])
    /\ \A v \in Amounts : PropositionIsTrue(v, r[1], r[2])

\* What is answered as the latest, with certainty, was: the value of a
\* measurement, and the events of a range; whatever was told in which order,
\* how vaguely, and retracted since, as long as no instant stands for a day or
\* a period, to which TemporalInstant gives its first moment.
LatestIsCertain ==
  (\A k \in Effective :
     observed[k].time.form \notin {"day", "approx", "dayPeriod", "period"}) =>
    /\ LET latest == LatestOf(Effective) IN
       latest.status = "known_single" => latest.values = ValuesOf(TrulyLast(Effective))
    /\ \A r \in Ranges : LET newest == NewestBetween(r[1], r[2]) IN
         newest.complete => newest.rows \subseteq TrulyLast(TrulyIn(r[1], r[2]))
===============================================================================
