------------------------------ MODULE MCAnswerTurns ------------------------------
(* Instance of AnswerTurns for TLC: two things of two kinds, of which one   *)
(* is described, and the texts of a model that phrases well or badly.       *)
EXTENDS AnswerTurns

MCKindOf(thing) == IF thing = "Rex" THEN "dog" ELSE "cat"

Sayings == {{}, {"no"}, {"bare_no"}, {"unknown"}, {"failure"}, {"stored"}, {"no", "not_yet_known"}}

MCTexts ==
  [form : {"ok"}, says : Sayings, complete : {TRUE}, invented : {0}, number : {FALSE}, term : {FALSE}]
  \cup [form : {"ok"}, says : {{}, {"unknown"}}, complete : BOOLEAN, invented : {0, 3},
        number : BOOLEAN, term : BOOLEAN]
  \cup [form : {"empty", "long", "json"}, says : {{}}, complete : {TRUE}, invented : {0},
        number : {FALSE}, term : {FALSE}]

\* No question looks into two tables, so the rows are those of one.
OneTable == \A j, k \in DOMAIN rows : rows[j].table = rows[k].table
===============================================================================
