----------------------------- MODULE TemporalAnswers -----------------------------
(***************************************************************************)
(* The knowledge a query is answered from: the rows of one relation, and   *)
(* the observations of one thing.  They are stored by separate handlers    *)
(* and no answer looks at both, so that either is told while the other     *)
(* table is empty: this bounds the states, and no answer.                  *)
(***************************************************************************)
EXTENDS RelationAnswers, ObservationAnswers

answersVars == <<relationVars, observed>>

AnswersInit == RelationInit /\ ObservationInit

TellOfRelation == ObservationInit /\ RelationNext /\ UNCHANGED observed
TellOfThing    == RelationInit /\ ObservationNext /\ UNCHANGED relationVars

AnswersNext == TellOfRelation \/ TellOfThing

AnswersSpec == AnswersInit /\ [][AnswersNext]_answersVars
================================================================================
