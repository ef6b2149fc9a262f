----------------------------- MODULE StoredKnowledge -----------------------------
(***************************************************************************)
(* What KnowledgeMaterializer keeps of what a user tells about things: a   *)
(* row per assertion, in the order in which they were written, which is    *)
(* also the order of their ids.  A row says of whom, on which dimension,   *)
(* which value, whether it is current, and a date, 0 when none is known.   *)
(* In the table of relations the value is the thing that is owned.         *)
(***************************************************************************)
EXTENDS Integers, Sequences, FiniteSets, SequencesExt

CONSTANTS
  Principal,    \* the entity that stands for the user
  Things,       \* the other entities
  Kinds, KindOf(_),         \* entity types, and that of a thing
  Described,    \* the things that the user describes
  Singleton, Plural,        \* attribute dimensions: with one current value, or several
  Values,       \* values of attributes, of states and of measurements
  LastDate,     \* bound on the dates
  MaxRows       \* bound on the rows

ASSUME DescribedAssumption == Described \subseteq Things /\ Principal \notin Things
ASSUME KindAssumption == \A thing \in Things : KindOf(thing) \in Kinds

VARIABLE rows

Dates    == 0 .. LastDate
Undated  == 0
Entities == Things \cup {Principal}

Row(table, of, dim, value, current, date) ==
  [table |-> table, of |-> of, dim |-> dim, value |-> value,
   current |-> current, date |-> date]

RowType ==
  [table : {"relation"}, of : {Principal}, dim : {"owns"}, value : Things,
   current : BOOLEAN, date : Dates]
  \cup [table : {"attribute"}, of : Described, dim : Singleton \cup Plural, value : Values,
        current : BOOLEAN, date : Dates]
  \cup [table : {"state", "measurement"}, of : Described, dim : {"state", "measurement"},
        value : Values, current : BOOLEAN, date : Dates]

\* The current rows that a new one is about.
CurrentOf(table, of, dim) ==
  {k \in DOMAIN rows : /\ rows[k].table = table /\ rows[k].of = of /\ rows[k].dim = dim
                       /\ rows[k].current}

\* Faulty variant of the next definition, for mutation runs: nothing is closed.
AddOnly(ks, row) == rows' = Append(rows, row)

\* The rows ks are closed, and a new one is added.
CloseAndAdd(ks, row) ==
  rows' = Append([k \in DOMAIN rows |-> IF k \in ks THEN [rows[k] EXCEPT !.current = FALSE]
                                        ELSE rows[k]], row)

-----------------------------------------------------------------------------
\* _relation_record, asserted: a current row of the same two is told again,
\* which changes nothing here.
TellRelation(thing, date) ==
  LET same == {k \in CurrentOf("relation", Principal, "owns") : rows[k].value = thing} IN
  same = {} /\ CloseAndAdd({}, Row("relation", Principal, "owns", thing, TRUE, date))

\* _relation_record, denied.
TellNoLonger(thing) ==
  \E k \in CurrentOf("relation", Principal, "owns") :
    rows[k].value = thing /\ rows' = [rows EXCEPT ![k].current = FALSE]

\* _state: whatever its date, it closes the one before.
TellState(thing, value, date) ==
  CloseAndAdd(CurrentOf("state", thing, "state"),
              Row("state", thing, "state", value, TRUE, date))

\* _attribute_record
TellAttribute(thing, dim, value, current, date) ==
  CloseAndAdd(IF current /\ dim \in Singleton THEN CurrentOf("attribute", thing, dim) ELSE {},
              Row("attribute", thing, dim, value, current, date))

\* _measurement_record: no row is ever current or closed.
TellMeasurement(thing, value, date) ==
  CloseAndAdd({}, Row("measurement", thing, "measurement", value, FALSE, date))

Tell ==
  \/ \E thing \in Things : TellNoLonger(thing)
  \/ /\ Len(rows) < MaxRows
     /\ \E date \in Dates :
          \/ \E thing \in Things : TellRelation(thing, date)
          \/ \E thing \in Described, value \in Values :
               \/ TellState(thing, value, date)
               \/ TellMeasurement(thing, value, date)
               \/ \E dim \in Singleton \cup Plural, current \in BOOLEAN :
                    TellAttribute(thing, dim, value, current, date)
===============================================================================
