---------------------------- MODULE MCKnowledgeTurns ----------------------------
(* Instance of KnowledgeTurns for TLC: symmetry, and what is told together. *)
EXTENDS KnowledgeTurns, TLC

WriterSymmetry == Permutations(Writers)

Told == {draft.rows[i].topic : i \in Ids(draft)}
          \cup {db.rows[i].topic : i \in Ids(db)}
          \cup UNION {{c[1] : c \in claims[t]} : t \in Writers}

NobodyReads  == \A r \in Readers : reading[r] = "start"
OneWritesAtMost == Cardinality({t \in Writers : pc[t] # "idle"}) <= 1

\* Rows of different kinds do not meet in any operation but the ledger's, so
\* a behaviour mixes kinds two at a time, and either a second writer or a
\* reader joins the first writer.  A replacement by several rows is alone.
Mixes ==
  /\ NobodyReads \/ OneWritesAtMost
  /\ OneWritesAtMost \/ \A t \in Writers : Cardinality(claims[t]) <= MaxClaims
  /\ \/ Told \subseteq Triples \cup Observations /\ NobodyReads
     \/ Told \subseteq Dimensions \cup Amounts
===============================================================================
