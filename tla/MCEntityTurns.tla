----------------------------- MODULE MCEntityTurns -----------------------------
(* Instance of EntityTurns for TLC: symmetry, and bounds on what turns find. *)
EXTENDS EntityTurns, TLC

Symmetry == Permutations(Threads) \cup Permutations(Users)

Busy   == {t \in Threads : pc[t] # "idle"}
Owners == {db.entities[i].owner : i \in 1 .. Len(db.entities)} \cup {user[t] : t \in Busy}

\* Turns overlap over at most one stored claim, and users meet over at most two
\* entities.
Bounded ==
  /\ Cardinality(db.claims) <= IF Cardinality(Busy) > 1 THEN 1 ELSE 2
  /\ Cardinality(Busy) > 1 \/ Cardinality(Owners) > 1 \/ mixed # {} =>
       Len(db.entities) <= 2 /\ Len(draft.entities) <= 2
===============================================================================
