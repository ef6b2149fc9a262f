-------------------------- MODULE KnowledgeTurnsProofs --------------------------
(***************************************************************************)
(* Theorems about KnowledgeTurns, for every set of writers, readers and    *)
(* topics and whatever bounds: what the ledger and the rows look like      *)
(* after any interleaving of units of work, and what a reader may see.     *)
(***************************************************************************)
EXTENDS KnowledgeTurns, SequenceTheorems, FiniteSetTheorems, TLAPS

-----------------------------------------------------------------------------
(* What the operations on rows keep.                                       *)

RowSet  == [topic : Topics, current : BOOLEAN, supersedes : Nat]
Entries == [target : Nat, replacement : Nat, fresh : BOOLEAN]
Dbs     == [rows : Seq(RowSet), corrections : SUBSET Entries]

\* Rows are appended and closed: their topics and predecessors stay.
Grown(d, e) ==
  /\ Len(d.rows) <= Len(e.rows)
  /\ \A i \in 1 .. Len(d.rows) : /\ e.rows[i].topic = d.rows[i].topic
                                 /\ e.rows[i].supersedes = d.rows[i].supersedes

\* One current row for each topic that has successions, and chains of them.
OneCurrent(d) ==
  \A i, j \in 1 .. Len(d.rows) :
    /\ d.rows[i].current /\ d.rows[j].current
    /\ d.rows[i].topic = d.rows[j].topic /\ d.rows[i].topic \in Dimensions \cup Triples
    => i = j

Links(d, i) ==
  d.rows[i].supersedes # NoRow =>
    /\ d.rows[i].supersedes < i
    /\ d.rows[d.rows[i].supersedes].topic = d.rows[i].topic
    /\ ~ d.rows[d.rows[i].supersedes].current
    /\ \A j \in 1 .. Len(d.rows) : d.rows[j].supersedes = d.rows[i].supersedes => j = i

Chained(d) == OneCurrent(d) /\ \A i \in 1 .. Len(d.rows) : Links(d, i)

\* The outcome of an operation on rows is sound when what it was done to was.
Sound(d, out) ==
  /\ out.db \in Dbs /\ out.id \in Nat
  /\ out.db.corrections = d.corrections
  /\ Grown(d, out.db) /\ Chained(out.db)

LEMMA IdsFacts ==
  ASSUME NEW d \in Dbs PROVE Ids(d) = 1 .. Len(d.rows) /\ Len(d.rows) \in Nat
  BY DEF Ids, Dbs

LEMMA CloseFacts ==
  ASSUME NEW rows \in Seq(RowSet), NEW closed
  PROVE  /\ Close(rows, closed) \in Seq(RowSet) /\ Len(Close(rows, closed)) = Len(rows)
         /\ \A i \in 1 .. Len(rows) :
              /\ Close(rows, closed)[i].topic = rows[i].topic
              /\ Close(rows, closed)[i].supersedes = rows[i].supersedes
              /\ Close(rows, closed)[i].current <=> rows[i].current /\ i \notin closed
  <1> DEFINE f == Close(rows, closed)
  <1>1. f = [i \in 1 .. Len(rows) |->
               IF i \in closed THEN [rows[i] EXCEPT !.current = FALSE] ELSE rows[i]]
    BY DEF Close
  <1>2. ASSUME NEW i \in 1 .. Len(rows)
        PROVE  /\ f[i] \in RowSet /\ f[i].topic = rows[i].topic
               /\ f[i].supersedes = rows[i].supersedes
               /\ f[i].current <=> rows[i].current /\ i \notin closed
    <2>1. rows[i] \in RowSet
      OBVIOUS
    <2>2. QED
      BY <1>1, <2>1 DEF RowSet
  <1> HIDE DEF f
  <1>3. f \in Seq(RowSet) /\ Len(f) = Len(rows)
    <2>1. Len(rows) \in Nat
      OBVIOUS
    <2>2. f \in [1 .. Len(rows) -> RowSet]
      BY <1>1, <1>2
    <2>3. QED
      BY <2>1, <2>2, IsASeq, LenProperties
  <1>4. QED
    BY <1>2, <1>3 DEF f

LEMMA InsertFacts ==
  ASSUME NEW d \in Dbs, NEW closed, NEW topic \in Topics, NEW current \in BOOLEAN,
         NEW supersedes \in Nat, NEW out, out = Insert(d, closed, topic, current, supersedes)
  PROVE  /\ out.db \in Dbs /\ out.db.corrections = d.corrections
         /\ out.id = Len(d.rows) + 1 /\ Len(out.db.rows) = out.id
         /\ \A i \in 1 .. Len(d.rows) :
              /\ out.db.rows[i].topic = d.rows[i].topic
              /\ out.db.rows[i].supersedes = d.rows[i].supersedes
              /\ out.db.rows[i].current <=> d.rows[i].current /\ i \notin closed
         /\ out.db.rows[out.id].topic = topic
         /\ out.db.rows[out.id].current = current
         /\ out.db.rows[out.id].supersedes = supersedes
  <1> DEFINE row  == [topic |-> topic, current |-> current, supersedes |-> supersedes]
             rest == Close(d.rows, closed)
  <1>1. d.rows \in Seq(RowSet) /\ row \in RowSet
    BY DEF Dbs, RowSet
  <1>2. out = [db |-> [d EXCEPT !.rows = Append(rest, row)], id |-> Len(d.rows) + 1]
    BY DEF Insert
  <1>3. row.topic = topic /\ row.current = current /\ row.supersedes = supersedes
    OBVIOUS
  <1>4. /\ rest \in Seq(RowSet) /\ Len(rest) = Len(d.rows)
        /\ \A i \in 1 .. Len(d.rows) :
             /\ rest[i].topic = d.rows[i].topic
             /\ rest[i].supersedes = d.rows[i].supersedes
             /\ rest[i].current <=> d.rows[i].current /\ i \notin closed
    BY <1>1, CloseFacts
  <1> HIDE DEF row, rest
  <1>5. /\ Append(rest, row) \in Seq(RowSet) /\ Len(Append(rest, row)) = Len(d.rows) + 1
        /\ \A i \in 1 .. Len(d.rows) : Append(rest, row)[i] = rest[i]
        /\ Append(rest, row)[Len(d.rows) + 1] = row
    BY <1>1, <1>4, AppendProperties
  <1>6. /\ out.db \in Dbs /\ out.db.rows = Append(rest, row)
        /\ out.db.corrections = d.corrections /\ out.id = Len(d.rows) + 1
    <2> DEFINE e == [d EXCEPT !.rows = Append(rest, row)]
    <2>1. e \in Dbs /\ e.rows = Append(rest, row) /\ e.corrections = d.corrections
      BY <1>5 DEF Dbs
    <2>2. out.db = e /\ out.id = Len(d.rows) + 1
      BY <1>2
    <2>3. QED
      BY <2>1, <2>2
  <1>7. QED
    BY <1>3, <1>4, <1>5, <1>6

\* A new row keeps the chains when what is current of its topic is closed, and
\* its predecessor is closed and has no other successor.
LEMMA InsertSound ==
  ASSUME NEW d \in Dbs, Chained(d), NEW closed, NEW topic \in Topics, NEW current \in BOOLEAN,
         NEW supersedes \in Nat,
         current /\ topic \in Dimensions \cup Triples => Current(d, topic) \subseteq closed,
         supersedes # NoRow =>
           /\ supersedes \in 1 .. Len(d.rows) /\ supersedes \in closed
           /\ d.rows[supersedes].topic = topic
           /\ \A j \in 1 .. Len(d.rows) : d.rows[j].supersedes # supersedes
  PROVE  Sound(d, Insert(d, closed, topic, current, supersedes))
  <1> DEFINE out == Insert(d, closed, topic, current, supersedes)
             n   == Len(d.rows) + 1
             e   == out.db.rows
  <1>1. /\ out.db \in Dbs /\ out.db.corrections = d.corrections
        /\ out.id = n /\ Len(e) = n
        /\ \A i \in 1 .. Len(d.rows) :
             /\ e[i].topic = d.rows[i].topic
             /\ e[i].supersedes = d.rows[i].supersedes
             /\ e[i].current <=> d.rows[i].current /\ i \notin closed
        /\ e[n].topic = topic /\ e[n].current = current /\ e[n].supersedes = supersedes
    BY InsertFacts
  <1>2. n \in Nat /\ \A i \in 1 .. n : i \in 1 .. Len(d.rows) \/ i = n
    BY IdsFacts
  <1>3. \A i \in 1 .. Len(d.rows) : i < n /\ i # n /\ i \in 1 .. n
    BY IdsFacts
  <1>4. ASSUME NEW i \in 1 .. Len(d.rows)
        PROVE  d.rows[i].supersedes \in Nat /\ d.rows[i].topic \in Topics
    <2>1. d.rows[i] \in RowSet
      BY DEF Dbs
    <2>2. QED
      BY <2>1 DEF RowSet
  <1> HIDE DEF out, n, e
  <1>5. Grown(d, out.db)
    <2>1. Len(d.rows) <= Len(e)
      BY <1>1, IdsFacts DEF n
    <2>2. QED
      BY <1>1, <2>1 DEF Grown, e
  <1>6. OneCurrent(out.db)
    <2> SUFFICES ASSUME NEW i \in 1 .. n, NEW j \in 1 .. n, e[i].current, e[j].current,
                        e[i].topic = e[j].topic, e[i].topic \in Dimensions \cup Triples
                 PROVE  i = j
      BY <1>1 DEF OneCurrent, e
    <2>1. CASE i \in 1 .. Len(d.rows) /\ j \in 1 .. Len(d.rows)
      BY <1>1, <2>1 DEF Chained, OneCurrent
    <2>2. ASSUME NEW k \in 1 .. Len(d.rows), e[k].current, e[k].topic = topic,
                 current, topic \in Dimensions \cup Triples
          PROVE  FALSE
      <3>1. k \in Current(d, topic)
        BY <1>1, <2>2, IdsFacts DEF Current, About
      <3>2. QED
        BY <1>1, <2>2, <3>1
    <2>3. QED
      BY <1>1, <1>2, <2>1, <2>2
  <1>7. ASSUME NEW i \in 1 .. n PROVE Links(out.db, i)
    <2> SUFFICES ASSUME e[i].supersedes # NoRow
                 PROVE  /\ e[i].supersedes < i
                        /\ e[e[i].supersedes].topic = e[i].topic
                        /\ ~ e[e[i].supersedes].current
                        /\ \A j \in 1 .. n : e[j].supersedes = e[i].supersedes => j = i
      BY <1>1 DEF Links, e
    <2>1. CASE i \in 1 .. Len(d.rows)
      <3> DEFINE p == d.rows[i].supersedes
      <3>1. /\ p # NoRow /\ p < i /\ d.rows[p].topic = d.rows[i].topic /\ ~ d.rows[p].current
            /\ \A j \in 1 .. Len(d.rows) : d.rows[j].supersedes = p => j = i
        BY <1>1, <2>1 DEF Chained, Links
      <3>2. p \in 1 .. Len(d.rows)
        BY <1>4, <2>1, <3>1, IdsFacts DEF NoRow
      <3>3. p # supersedes
        BY <2>1, <3>1
      <3> HIDE DEF p
      <3>4. e[i].supersedes = p
        BY <1>1, <2>1 DEF p
      <3>5. \A j \in 1 .. n : e[j].supersedes = p => j = i
        BY <1>1, <1>2, <3>1, <3>3
      <3>6. QED
        BY <1>1, <2>1, <3>1, <3>2, <3>4, <3>5
    <2>2. CASE i = n
      <3>1. \A j \in 1 .. n : e[j].supersedes = supersedes => j = n
        BY <1>1, <1>2, <2>2
      <3>2. QED
        BY <1>1, <1>3, <2>2, <3>1
    <2>3. QED
      BY <1>2, <2>1, <2>2
  <1>8. Chained(out.db)
    BY <1>1, <1>6, <1>7 DEF Chained, e
  <1>9. QED
    BY <1>1, <1>2, <1>5, <1>8 DEF Sound, out

\* Closing rows keeps the chains.
LEMMA ClosedSound ==
  ASSUME NEW d \in Dbs, Chained(d), NEW closed, NEW id \in Nat
  PROVE  Sound(d, [db |-> [d EXCEPT !.rows = Close(@, closed)], id |-> id])
  <1> DEFINE out == [db |-> [d EXCEPT !.rows = Close(@, closed)], id |-> id]
             e   == Close(d.rows, closed)
  <1>1. d.rows \in Seq(RowSet)
    BY DEF Dbs
  <1>2. /\ e \in Seq(RowSet) /\ Len(e) = Len(d.rows)
        /\ \A i \in 1 .. Len(d.rows) :
             /\ e[i].topic = d.rows[i].topic
             /\ e[i].supersedes = d.rows[i].supersedes
             /\ e[i].current <=> d.rows[i].current /\ i \notin closed
    BY <1>1, CloseFacts
  <1> HIDE DEF e
  <1>3. [d EXCEPT !.rows = e] \in Dbs /\ [d EXCEPT !.rows = e].rows = e
        /\ [d EXCEPT !.rows = e].corrections = d.corrections
    BY <1>2 DEF Dbs
  <1>4. out.db = [d EXCEPT !.rows = e] /\ out.id = id
    BY DEF e
  <1> HIDE DEF out
  <1>5. Grown(d, out.db) /\ OneCurrent(out.db)
    BY <1>2, <1>3, <1>4, IdsFacts DEF Grown, Chained, OneCurrent
  <1>6. ASSUME NEW i \in 1 .. Len(out.db.rows) PROVE Links(out.db, i)
    <2>1. i \in 1 .. Len(d.rows) /\ Links(d, i) /\ d.rows[i] \in RowSet
      BY <1>1, <1>2, <1>3, <1>4 DEF Chained
    <2>2. d.rows[i].supersedes # NoRow /\ d.rows[i].supersedes < i
            => d.rows[i].supersedes \in 1 .. Len(d.rows)
      BY <2>1, IdsFacts DEF NoRow, RowSet
    <2>3. QED
      BY <1>2, <1>3, <1>4, <2>1, <2>2 DEF Links
  <1>7. QED
    BY <1>3, <1>4, <1>5, <1>6 DEF Sound, Chained, out

LEMMA SameSound ==
  ASSUME NEW d \in Dbs, Chained(d), NEW id \in Nat PROVE Sound(d, [db |-> d, id |-> id])
  BY IdsFacts DEF Sound, Grown

\* The current row of a topic is one, and nothing succeeds it.
LEMMA CurrentFacts ==
  ASSUME NEW d \in Dbs, Chained(d), NEW topic \in Dimensions \cup Triples
  PROVE  \/ Current(d, topic) = {} /\ Newest(Current(d, topic)) = NoRow
         \/ \E i \in 1 .. Len(d.rows) :
              /\ Current(d, topic) = {i} /\ Newest(Current(d, topic)) = i
              /\ d.rows[i].topic = topic
              /\ \A j \in 1 .. Len(d.rows) : d.rows[j].supersedes # i
  <1>1. CASE Current(d, topic) = {}
    BY <1>1 DEF Newest
  <1>2. CASE Current(d, topic) # {}
    <2>1. PICK i : i \in Current(d, topic)
      BY <1>2
    <2>2. i \in 1 .. Len(d.rows) /\ d.rows[i].topic = topic /\ d.rows[i].current
      BY <2>1, IdsFacts DEF Current, About
    <2>3. Current(d, topic) = {i}
      BY <2>1, <2>2, IdsFacts DEF Current, About, Chained, OneCurrent
    <2>4. Max({i}) = i
      BY <2>2, IdsFacts DEF Max
    <2>5. Newest({i}) = i
      BY <2>4 DEF Newest
    <2>6. \A j \in 1 .. Len(d.rows) : d.rows[j].supersedes # i
      BY <2>2, IdsFacts DEF Chained, Links, NoRow
    <2>7. QED
      BY <2>2, <2>3, <2>5, <2>6
  <1>3. QED
    BY <1>1, <1>2

LEMMA ClaimFacts ==
  ASSUME NEW c \in Claims PROVE c[1] \in Topics /\ (c[2] = "past" => c[1] \in Dimensions \cup Triples)
  BY DEF Claims, Topics

LEMMA SupersedeSound ==
  ASSUME NEW d \in Dbs, Chained(d), NEW topic \in Dimensions PROVE Sound(d, Supersede(d, topic))
  <1>1. topic \in Topics /\ TRUE \in BOOLEAN
    BY DEF Topics
  <1>2. CASE Current(d, topic) = {} /\ Newest(Current(d, topic)) = NoRow
    <2>1. NoRow \in Nat
      BY DEF NoRow
    <2>2. Sound(d, Insert(d, Current(d, topic), topic, TRUE, NoRow))
      BY <1>1, <2>1, InsertSound
    <2>3. QED
      BY <1>2, <2>2 DEF Supersede
  <1>3. CASE Newest(Current(d, topic)) # NoRow
    <2>1. PICK i \in 1 .. Len(d.rows) :
            /\ Current(d, topic) = {i} /\ Newest(Current(d, topic)) = i
            /\ d.rows[i].topic = topic
            /\ \A j \in 1 .. Len(d.rows) : d.rows[j].supersedes # i
      BY <1>3, CurrentFacts
    <2>2. i \in Nat /\ i \in {i}
      BY IdsFacts
    <2>3. Sound(d, Insert(d, {i}, topic, TRUE, i))
      BY <1>1, <2>1, <2>2, InsertSound
    <2>4. QED
      BY <2>1, <2>3 DEF Supersede
  <1>4. QED
    BY <1>2, <1>3, CurrentFacts, IdsFacts DEF NoRow

LEMMA AddSound ==
  ASSUME NEW d \in Dbs, Chained(d), NEW topic \in Topics, NEW current \in BOOLEAN,
         current /\ topic \in Dimensions \cup Triples => Current(d, topic) = {}
  PROVE  Sound(d, Add(d, topic, current))
  <1>1. NoRow \in Nat
    BY DEF NoRow
  <1>2. QED
    BY <1>1, InsertSound DEF Add

\* Whatever a claim says, materializing it keeps the chains.
LEMMA MaterializedSound ==
  ASSUME NEW d \in Dbs, Chained(d), NEW c \in Claims, NEW out \in Materialized(d, c[1], c[2])
  PROVE  Sound(d, out)
  <1>1. c[1] \in Topics
    BY ClaimFacts
  <1>2. ASSUME NEW candidates, candidates \subseteq Ids(d), out \in EndTriple(d, candidates)
        PROVE  Sound(d, out)
    <2>1. NoRow \in Nat /\ \A i \in candidates : i \in Nat
      BY <1>2, IdsFacts DEF NoRow
    <2>2. QED
      BY <1>2, <2>1, SameSound, ClosedSound DEF EndTriple
  <1>3. CASE c[2] = "past"
    BY <1>1, <1>3, AddSound DEF Materialized
  <1>4. CASE c[2] \in {"terminate", "deny"}
    <2>1. /\ Current(d, c[1]) \subseteq Ids(d) /\ Terminable(d, c[1]) \subseteq Ids(d)
      BY DEF Current, About, Terminable
    <2>2. \/ out \in EndTriple(d, Terminable(d, c[1]))
          \/ out \in EndTriple(d, Current(d, c[1]))
      BY <1>4 DEF Materialized
    <2>3. QED
      BY <1>2, <2>1, <2>2
  <1>5. CASE c[2] \notin {"past", "terminate", "deny"}
    <2>1. CASE c[1] \in Dimensions /\ out = Supersede(d, c[1])
      BY <2>1, SupersedeSound
    <2>2. CASE c[1] \in Triples /\ out = AssertTriple(d, c[1])
      <3>1. CASE Current(d, c[1]) # {}
        <4>1. Newest(Current(d, c[1])) \in Nat
          BY <2>2, CurrentFacts, IdsFacts DEF NoRow
        <4>2. QED
          BY <2>2, <3>1, <4>1, SameSound DEF AssertTriple
      <3>2. CASE Current(d, c[1]) = {}
        BY <1>1, <2>2, <3>2, AddSound DEF AssertTriple
      <3>3. QED
        BY <3>1, <3>2
    <2>3. CASE c[1] \notin Dimensions \cup Triples /\ out = Add(d, c[1], TRUE)
      BY <1>1, <2>3, AddSound
    <2>4. QED
      BY <1>5, <2>1, <2>2, <2>3 DEF Materialized
  <1>6. QED
    BY <1>3, <1>4, <1>5

LEMMA AmendedSound ==
  ASSUME NEW d \in Dbs, Chained(d), NEW id \in 1 .. Len(d.rows),
         d.rows[id].topic \in Amounts, NoSuccessor(d, id)
  PROVE  Sound(d, Amended(d, d.rows[id].topic, id))
  <1>1. d.rows[id].topic \in Topics /\ d.rows[id].topic \notin Dimensions \cup Triples
    BY TopicsAssumption DEF Topics
  <1>2. id \in Nat /\ id \in {id} /\ \A j \in 1 .. Len(d.rows) : d.rows[j].supersedes # id
    BY IdsFacts DEF NoSuccessor
  <1>3. QED
    BY <1>1, <1>2, InsertSound DEF Amended

-----------------------------------------------------------------------------
(* Threads, the lock and the rows.                                         *)

Steps  == {"idle", "resolve", "write", "claims", "correct", "commit"}
Ops    == {"tell", "amend", "retract", "replace"}
Finite == {ids \in SUBSET Nat : IsFiniteSet(ids)}

ThreadShape ==
  /\ pc \in [Writers -> Steps] /\ op \in [Writers -> Ops]
  /\ claims \in [Writers -> SUBSET Claims] /\ picked \in [Writers -> Finite]
  /\ target \in [Writers -> Nat] /\ made \in [Writers -> Nat]

RowsInv == db \in Dbs /\ draft \in Dbs /\ Chained(db) /\ Chained(draft)

\* Who is in its unit of work holds the lock, and its draft is ahead of db.
Holding(t) == pc[t] \in {"claims", "correct", "commit"}

LockInv ==
  /\ \A t \in Writers : Holding(t) => writer = t
  /\ writer # None => db.corrections \subseteq draft.corrections /\ Grown(db, draft)

\* What is amended is the amount of an event.
AmendInv ==
  \A t \in Writers : op[t] = "amend" /\ pc[t] # "idle" =>
    pc[t] # "resolve" /\ target[t] \in 1 .. Len(db.rows) /\ db.rows[target[t]].topic \in Amounts

BaseInv == ThreadShape /\ RowsInv /\ LockInv /\ AmendInv

Kept(u) ==
  /\ pc'[u] = pc[u] /\ op'[u] = op[u] /\ claims'[u] = claims[u]
  /\ target'[u] = target[u] /\ made'[u] = made[u]

\* A database without rows.
LEMMA EmptyFacts == EmptyDb \in Dbs /\ Chained(EmptyDb) /\ EmptyDb.corrections = {}
  <1>1. << >> \in Seq(RowSet) /\ Len(<< >>) = 0
    BY EmptySeq
  <1>2. EmptyDb \in Dbs /\ EmptyDb.rows = << >> /\ EmptyDb.corrections = {}
    BY <1>1 DEF EmptyDb, Dbs
  <1>3. QED
    BY <1>1, <1>2 DEF Chained, OneCurrent

LEMMA InitBaseInv == Init => BaseInv
  <1> SUFFICES ASSUME Init PROVE BaseInv
    OBVIOUS
  <1>1. {} \in Finite /\ NoRow \in Nat
    BY FS_EmptySet DEF Finite, NoRow
  <1>2. ThreadShape
    BY <1>1 DEF Init, ThreadShape, Steps, Ops
  <1>3. QED
    BY <1>2, EmptyFacts DEF Init, BaseInv, RowsInv, LockInv, AmendInv, Holding

LEMMA GrownFacts ==
  ASSUME NEW d \in Dbs, NEW e \in Dbs, NEW f \in Dbs
  PROVE  Grown(d, d) /\ (Grown(d, e) /\ Grown(e, f) => Grown(d, f))
  <1>1. Len(d.rows) \in Nat /\ Len(e.rows) \in Nat /\ Len(f.rows) \in Nat
    BY IdsFacts
  <1>2. QED
    BY <1>1 DEF Grown

LEMMA AboutFacts ==
  ASSUME NEW d \in Dbs, NEW topic PROVE About(d, topic) \in Finite
  <1>1. About(d, topic) \subseteq 1 .. Len(d.rows) /\ Len(d.rows) \in Nat
    BY IdsFacts DEF About
  <1>2. IsFiniteSet(1 .. Len(d.rows))
    BY <1>1, FS_Interval
  <1>3. IsFiniteSet(About(d, topic))
    BY <1>1, <1>2, FS_Subset
  <1>4. QED
    BY <1>1, <1>3 DEF Finite

\* A turn that begins has not touched the database, and knows what it is.
LEMMA BeginFacts ==
  ASSUME ThreadShape, RowsInv, NEW t \in Writers, Begins(t)
  PROVE  /\ ThreadShape' /\ UNCHANGED <<db, draft, writer, reader>>
         /\ pc[t] = "idle" /\ pc'[t] \in {"write", "resolve"} /\ made'[t] = NoRow
         /\ \A u \in Writers \ {t} : Kept(u)
         /\ op'[t] = "amend" =>
              /\ pc'[t] = "write"
              /\ target'[t] \in 1 .. Len(db.rows) /\ db.rows[target'[t]].topic \in Amounts
         /\ op'[t] = "retract" => claims'[t] = {}
         /\ op'[t] = "replace" => claims'[t] # {}
  <1>1. NoRow \in Nat /\ {} \in Finite /\ Ids(db) = 1 .. Len(db.rows)
        /\ Ids(db) \subseteq Nat
    BY FS_EmptySet, IdsFacts DEF NoRow, Finite, RowsInv
  <1>2. \E o \in Ops, step \in {"write", "resolve"}, cs \in SUBSET Claims,
           ids \in Finite, id \in Nat :
          /\ Begin(t, o, step, cs, ids, id)
          /\ o = "amend" => /\ step = "write"
                            /\ id \in 1 .. Len(db.rows) /\ db.rows[id].topic \in Amounts
          /\ o = "retract" => cs = {}
          /\ o = "replace" => cs # {}
    <2>1. ASSUME NEW k \in 1 .. MaxClaims, NEW cs \in kSubset(k, Claims), Tell(t, cs)
          PROVE  cs \in SUBSET Claims /\ Begin(t, "tell", "write", cs, {}, NoRow)
      BY <2>1 DEF Tell, kSubset
    <2>2. ASSUME NEW id \in Ids(db), Amend(t, id)
          PROVE  Begin(t, "amend", "write", {}, {}, id) /\ db.rows[id].topic \in Amounts
      BY <2>2 DEF Amend
    <2>3. ASSUME NEW o \in {"retract", "replace"}, NEW cs \in Payloads(o)
          PROVE  /\ cs \in SUBSET Claims /\ (o = "retract" => cs = {}) /\ (o = "replace" => cs # {})
      BY <2>3 DEF Payloads, kSubset
    <2>4. ASSUME NEW o \in {"retract", "replace"}, NEW cs \in Payloads(o), NEW topic \in Topics,
                 CorrectDescribed(t, o, cs, topic)
          PROVE  About(db, topic) \in Finite /\ Begin(t, o, "resolve", cs, About(db, topic), NoRow)
      BY <2>4, AboutFacts DEF CorrectDescribed, RowsInv
    <2>5. ASSUME NEW o \in {"retract", "replace"}, NEW cs \in Payloads(o), NEW id \in Ids(db),
                 CorrectById(t, o, cs, id)
          PROVE  {id} \in Finite /\ Begin(t, o, "resolve", cs, {id}, NoRow)
      BY <2>5, <1>1, FS_Singleton DEF CorrectById, Finite
    <2>6. {} \in SUBSET Claims /\ {"retract", "replace", "tell", "amend"} \subseteq Ops
      BY DEF Ops
    <2>7. CASE \E k \in 1 .. MaxClaims : \E cs \in kSubset(k, Claims) : Tell(t, cs)
      BY <1>1, <2>1, <2>6, <2>7
    <2>8. CASE \E id \in Ids(db) : Amend(t, id)
      BY <1>1, <2>2, <2>6, <2>8
    <2>9. CASE \E o \in {"retract", "replace"} : \E cs \in Payloads(o) :
                 \/ \E topic \in Topics : CorrectDescribed(t, o, cs, topic)
                 \/ \E id \in Ids(db) : CorrectById(t, o, cs, id)
      <3>0. PICK o \in {"retract", "replace"} : \E cs \in Payloads(o) :
                 \/ \E topic \in Topics : CorrectDescribed(t, o, cs, topic)
                 \/ \E id \in Ids(db) : CorrectById(t, o, cs, id)
        BY <2>9
      <3>1. PICK cs \in Payloads(o) :
                 \/ \E topic \in Topics : CorrectDescribed(t, o, cs, topic)
                 \/ \E id \in Ids(db) : CorrectById(t, o, cs, id)
        BY <3>0
      <3>2. PICK ids \in Finite : Begin(t, o, "resolve", cs, ids, NoRow)
        BY <3>1, <2>4, <2>5
      <3>3. o \in Ops /\ o # "amend" /\ cs \in SUBSET Claims
            /\ (o = "retract" => cs = {}) /\ (o = "replace" => cs # {})
        BY <2>3, <2>6
      <3>4. QED
        BY <1>1, <3>2, <3>3
    <2>10. QED
      BY <2>7, <2>8, <2>9 DEF Begins
  <1>3. PICK o \in Ops, step \in {"write", "resolve"}, cs \in SUBSET Claims,
             ids \in Finite, id \in Nat :
          /\ Begin(t, o, step, cs, ids, id)
          /\ o = "amend" => /\ step = "write"
                            /\ id \in 1 .. Len(db.rows) /\ db.rows[id].topic \in Amounts
          /\ o = "retract" => cs = {}
          /\ o = "replace" => cs # {}
    BY <1>2
  <1>4. /\ pc[t] = "idle" /\ pc' = [pc EXCEPT ![t] = step]
        /\ op' = [op EXCEPT ![t] = o] /\ claims' = [claims EXCEPT ![t] = cs]
        /\ picked' = [picked EXCEPT ![t] = ids] /\ target' = [target EXCEPT ![t] = id]
        /\ made' = [made EXCEPT ![t] = NoRow] /\ UNCHANGED <<db, draft, writer, reader>>
    BY <1>3 DEF Begin, Goto
  <1>5. ThreadShape'
    BY <1>1, <1>4 DEF ThreadShape, Steps
  <1>6. \A u \in Writers \ {t} : Kept(u)
    BY <1>4 DEF ThreadShape, Kept
  <1>7. pc'[t] = step /\ op'[t] = o /\ claims'[t] = cs /\ target'[t] = id /\ made'[t] = NoRow
    BY <1>4 DEF ThreadShape
  <1>8. QED
    BY <1>3, <1>4, <1>5, <1>6, <1>7

\* A turn that ends holds nothing, and its draft is gone.
LEMMA EndFacts ==
  ASSUME ThreadShape, NEW t \in Writers, End(t)
  PROVE  /\ ThreadShape' /\ reader' = reader
         /\ pc'[t] = "idle" /\ op'[t] = "tell"
         /\ \A u \in Writers \ {t} : Kept(u)
         /\ writer = t => writer' = None /\ draft' = EmptyDb
         /\ writer # t => writer' = writer /\ draft' = draft
  <1>1. NoRow \in Nat /\ {} \in Finite
    BY FS_EmptySet DEF NoRow, Finite
  <1>2. /\ pc' = [pc EXCEPT ![t] = "idle"] /\ op' = [op EXCEPT ![t] = "tell"]
        /\ claims' = [claims EXCEPT ![t] = {}] /\ picked' = [picked EXCEPT ![t] = {}]
        /\ target' = [target EXCEPT ![t] = NoRow] /\ made' = [made EXCEPT ![t] = NoRow]
    BY DEF End, Goto
  <1>3. ThreadShape'
    BY <1>1, <1>2 DEF ThreadShape, Steps, Ops
  <1>4. \A u \in Writers \ {t} : Kept(u)
    BY <1>2 DEF ThreadShape, Kept
  <1>5. pc'[t] = "idle" /\ op'[t] = "tell"
    BY <1>2 DEF ThreadShape
  <1>6. QED
    BY <1>3, <1>4, <1>5 DEF End

\* What a step does to the database and to the draft of the unit of work.
Idle == db' = db /\ draft' = draft /\ writer' = writer

Takes(t)    == Lock(t) /\ db' = db /\ draft' = db /\ writer = None /\ writer' = t
Releases(t) == /\ writer = t /\ writer' = None /\ draft' = EmptyDb
               /\ db' = db \/ (pc[t] = "commit" /\ db' = draft)
Works(t)    == /\ writer = t /\ writer' = t /\ db' = db
               /\ draft' \in Dbs /\ Chained(draft') /\ Grown(draft, draft')
               /\ draft.corrections \subseteq draft'.corrections

LEMMA ResolveFacts ==
  ASSUME ThreadShape, NEW t \in Writers, Resolve(t)
  PROVE  /\ ThreadShape' /\ Idle /\ reader' = reader
         /\ \A u \in Writers \ {t} : Kept(u)
         /\ pc[t] = "resolve" /\ pc'[t] = "write"
         /\ op'[t] = op[t] /\ claims'[t] = claims[t] /\ made'[t] = made[t]
  <1> DEFINE eligible == {i \in picked[t] : Effective(db, i)}
  <1>1. /\ pc[t] = "resolve" /\ Cardinality(eligible) = 1
        /\ pc' = [pc EXCEPT ![t] = "write"]
        /\ target' = [target EXCEPT ![t] = Max(eligible)]
        /\ picked' = [picked EXCEPT ![t] = {}]
        /\ UNCHANGED <<db, draft, writer, op, claims, made, reader>>
    BY DEF Resolve, Goto
  <1>2. eligible \subseteq Nat /\ IsFiniteSet(eligible)
    BY FS_Subset DEF ThreadShape, Finite
  <1> HIDE DEF eligible
  <1>3. Max(eligible) \in Nat
    <2>1. PICK x : eligible = {x}
      BY <1>1, <1>2, FS_Singleton
    <2>2. QED
      BY <1>2, <2>1 DEF Max
  <1>4. {} \in Finite
    BY FS_EmptySet DEF Finite
  <1>5. ThreadShape'
    BY <1>1, <1>3, <1>4 DEF ThreadShape, Steps
  <1>6. \A u \in Writers \ {t} : Kept(u)
    BY <1>1 DEF ThreadShape, Kept
  <1>7. QED
    BY <1>1, <1>5, <1>6 DEF ThreadShape, Idle

LEMMA StepFacts ==
  ASSUME NEW t \in Writers, NEW left
  PROVE  /\ Step(t, left) \in {"claims", "commit", "correct"}
         /\ left = {} /\ op[t] \in {"retract", "replace"} => Step(t, left) = "correct"
         /\ left # {} => Step(t, left) = "claims"
  BY DEF Step

\* A claim is materialized, or the fact amended: the ledger stays.
LEMMA MaterializeFacts ==
  ASSUME BaseInv, NEW t \in Writers, MaterializeClaim(t) \/ AmendFact(t)
  PROVE  /\ ThreadShape' /\ Works(t) /\ draft'.corrections = draft.corrections
         /\ reader' = reader /\ \A u \in Writers \ {t} : Kept(u)
         /\ pc[t] = "claims" /\ pc'[t] \in {"claims", "commit", "correct"}
         /\ op'[t] = op[t] /\ target'[t] = target[t]
         /\ op[t] \in {"retract", "replace"} =>
              /\ claims[t] # {} /\ pc'[t] = (IF claims'[t] # {} THEN "claims" ELSE "correct")
         /\ op[t] = "replace" => made'[t] # NoRow
  <1>0. /\ ThreadShape /\ draft \in Dbs /\ Chained(draft) /\ pc[t] = "claims" /\ writer = t
    BY DEF BaseInv, RowsInv, LockInv, MaterializeClaim, AmendFact, Holding
  <1>1. CASE MaterializeClaim(t)
    <2>0. PICK c \in claims[t] : \E out \in Materialized(draft, c[1], c[2]) :
            /\ pc' = [pc EXCEPT ![t] = Step(t, claims[t] \ {c})]
            /\ claims' = [claims EXCEPT ![t] = claims[t] \ {c}]
            /\ op[t] = "replace" => out.id # NoRow
            /\ draft' = out.db
            /\ made' = [made EXCEPT ![t] = Reference(t, c[1], out.id)]
            /\ UNCHANGED <<db, writer, op, picked, target, reader>>
      BY <1>1 DEF MaterializeClaim, Goto
    <2>1. PICK out \in Materialized(draft, c[1], c[2]) :
            /\ pc' = [pc EXCEPT ![t] = Step(t, claims[t] \ {c})]
            /\ claims' = [claims EXCEPT ![t] = claims[t] \ {c}]
            /\ op[t] = "replace" => out.id # NoRow
            /\ draft' = out.db
            /\ made' = [made EXCEPT ![t] = Reference(t, c[1], out.id)]
            /\ UNCHANGED <<db, writer, op, picked, target, reader>>
      BY <2>0
    <2> DEFINE id == Reference(t, c[1], out.id)
    <2>2. Sound(draft, out)
      BY <1>0, <2>1, MaterializedSound DEF ThreadShape
    <2>r. id \in Nat /\ (op[t] = "replace" => id # NoRow)
      BY <1>0, <2>1, <2>2 DEF Reference, ThreadShape, Sound
    <2> HIDE DEF id
    <2>3. Step(t, claims[t] \ {c}) \in Steps
      BY StepFacts DEF Steps
    <2>m. made' = [made EXCEPT ![t] = id]
      BY <2>1 DEF id
    <2>4. ThreadShape'
      BY <1>0, <2>1, <2>2, <2>3, <2>r, <2>m DEF ThreadShape, Sound
    <2>5. /\ \A u \in Writers \ {t} : Kept(u)
          /\ pc'[t] = Step(t, claims'[t]) /\ claims'[t] = claims[t] \ {c} /\ made'[t] = id
      BY <1>0, <2>1, <2>m DEF ThreadShape, Kept
    <2>6. Works(t) /\ draft'.corrections = draft.corrections
      BY <1>0, <2>1, <2>2 DEF Works, Sound
    <2>7. QED
      BY <1>0, <2>1, <2>r, <2>4, <2>5, <2>6, StepFacts
  <1>2. CASE AmendFact(t)
    <2> DEFINE out == Amended(draft, draft.rows[target[t]].topic, target[t])
    <2>1. /\ op[t] = "amend" /\ NoSuccessor(draft, target[t])
          /\ pc' = [pc EXCEPT ![t] = "commit"]
          /\ draft' = out.db
          /\ made' = [made EXCEPT ![t] = out.id]
          /\ UNCHANGED <<db, writer, op, claims, picked, target, reader>>
      BY <1>2 DEF AmendFact, Goto
    <2>2. target[t] \in 1 .. Len(draft.rows) /\ draft.rows[target[t]].topic \in Amounts
      <3>1. /\ target[t] \in 1 .. Len(db.rows) /\ db.rows[target[t]].topic \in Amounts
            /\ Grown(db, draft) /\ db \in Dbs
        BY <1>0, <2>1, NoneAssumption DEF BaseInv, AmendInv, LockInv, RowsInv
      <3>2. QED
        BY <1>0, <3>1, IdsFacts DEF Grown
    <2>3. Sound(draft, out)
      BY <1>0, <2>1, <2>2, AmendedSound
    <2> HIDE DEF out
    <2>4. ThreadShape'
      BY <1>0, <2>1, <2>3 DEF ThreadShape, Sound, Steps
    <2>5. (\A u \in Writers \ {t} : Kept(u)) /\ pc'[t] = "commit"
      BY <1>0, <2>1 DEF ThreadShape, Kept
    <2>6. Works(t) /\ draft'.corrections = draft.corrections
      BY <1>0, <2>1, <2>3 DEF Works, Sound
    <2>7. QED
      BY <1>0, <2>1, <2>4, <2>5, <2>6
  <1>3. QED
    BY <1>1, <1>2

LEMMA CorrectFacts ==
  ASSUME BaseInv, NEW t \in Writers, AddCorrection(t), ~ Rollback(t)
  PROVE  /\ ThreadShape' /\ Works(t) /\ draft'.rows = draft.rows
         /\ reader' = reader /\ \A u \in Writers \ {t} : Kept(u)
         /\ pc[t] = "correct" /\ pc'[t] = "commit"
         /\ op'[t] = op[t] /\ target'[t] = target[t] /\ made'[t] = made[t]
         /\ claims'[t] = claims[t]
         /\ \E c \in Entries :
              /\ draft'.corrections = draft.corrections \cup {c}
              /\ c.target = target[t] /\ c.replacement = made[t]
              /\ c.fresh = (made[t] > Len(db.rows))
              /\ \A e \in draft.corrections : e.target # target[t]
  <1>0. /\ ThreadShape /\ draft \in Dbs /\ Chained(draft) /\ pc[t] = "correct" /\ writer = t
        /\ db \in Dbs
    BY DEF BaseInv, RowsInv, LockInv, AddCorrection, Holding
  <1> DEFINE fresh == made[t] > Len(db.rows)
             c     == [target |-> target[t], replacement |-> made[t], fresh |-> fresh]
  <1>1. /\ Correctable(draft, target[t], made[t])
        /\ pc' = [pc EXCEPT ![t] = "commit"]
        /\ draft' = [draft EXCEPT !.corrections = draft.corrections \cup {c}]
        /\ UNCHANGED <<db, writer, op, claims, picked, target, made, reader>>
    BY DEF AddCorrection, Goto, RecordCorrection
  <1>2. made[t] \in Nat /\ target[t] \in Nat /\ fresh \in BOOLEAN
    BY <1>0, IdsFacts DEF ThreadShape
  <1>3. c \in Entries /\ c.target = target[t] /\ c.replacement = made[t] /\ c.fresh = fresh
    BY <1>2 DEF Entries
  <1> HIDE DEF fresh, c
  <1>4. /\ draft' \in Dbs /\ draft'.rows = draft.rows
        /\ draft'.corrections = draft.corrections \cup {c}
    BY <1>0, <1>1, <1>3 DEF Dbs
  <1>5. Chained(draft') /\ Grown(draft, draft')
    BY <1>0, <1>4, IdsFacts DEF Chained, OneCurrent, Links, Grown
  <1>6. Works(t)
    BY <1>0, <1>1, <1>4, <1>5 DEF Works
  <1>7. ThreadShape' /\ (\A u \in Writers \ {t} : Kept(u)) /\ pc'[t] = "commit"
    BY <1>0, <1>1 DEF ThreadShape, Steps, Kept
  <1>8. \A e \in draft.corrections : e.target # target[t]
    BY <1>1 DEF Correctable, Effective, Corrected
  <1>9. QED
    BY <1>0, <1>1, <1>3, <1>4, <1>6, <1>7, <1>8 DEF fresh

LEMMA LockFacts ==
  ASSUME ThreadShape, NEW t \in Writers, Lock(t)
  PROVE  /\ ThreadShape' /\ Takes(t) /\ reader' = reader
         /\ \A u \in Writers \ {t} : Kept(u)
         /\ pc[t] = "write" /\ pc'[t] = Step(t, claims[t])
         /\ op'[t] = op[t] /\ target'[t] = target[t] /\ made'[t] = made[t]
         /\ claims'[t] = claims[t]
  <1>1. Step(t, claims[t]) \in Steps
    BY StepFacts DEF Steps
  <1>2. QED
    BY <1>1 DEF Lock, Goto, ThreadShape, Takes, Kept

\* A turn that ends releases the lock if it holds it.
LEMMA ReleaseFacts ==
  ASSUME BaseInv, NEW t \in Writers, Rollback(t) \/ Commit(t)
  PROVE  Idle \/ Releases(t)
  <1>1. Commit(t) => writer = t
    BY DEF BaseInv, LockInv, Commit, Holding
  <1>2. End(t) /\ (db' = db \/ (pc[t] = "commit" /\ db' = draft /\ writer = t))
    BY <1>1 DEF Rollback, Commit
  <1>3. QED
    BY <1>2, EndFacts DEF BaseInv, Idle, Releases

\* The invariant is kept by a step that does one of these to the database, when
\* the thread that makes it is where the lock says.
LEMMA StoreBaseInv ==
  ASSUME BaseInv, ThreadShape', NEW t \in Writers,
         \A u \in Writers \ {t} : Kept(u),
         Idle \/ Takes(t) \/ Works(t) \/ Releases(t),
         Holding(t)' => writer' = t,
         op'[t] = "amend" /\ pc'[t] # "idle" =>
           /\ pc'[t] # "resolve"
           /\ target'[t] \in 1 .. Len(db.rows) /\ db.rows[target'[t]].topic \in Amounts
  PROVE  BaseInv'
  <1>0. RowsInv /\ LockInv /\ AmendInv /\ t # None
    BY NoneAssumption DEF BaseInv
  <1>1. RowsInv'
    BY <1>0, EmptyFacts DEF RowsInv, Idle, Takes, Works, Releases
  <1>2. db \in Dbs /\ draft \in Dbs /\ db' \in Dbs /\ draft' \in Dbs
    BY <1>0, <1>1 DEF RowsInv
  <1>3. Grown(db, db')
    BY <1>0, <1>2, GrownFacts DEF LockInv, Idle, Takes, Works, Releases
  <1>4. \A u \in Writers \ {t} : Holding(u)' => writer' = u
    BY <1>0, NoneAssumption DEF LockInv, Kept, Holding, Idle, Takes, Works, Releases
  <1>5. writer' # None => db'.corrections \subseteq draft'.corrections /\ Grown(db', draft')
    <2>1. CASE Idle
      BY <1>0, <2>1 DEF LockInv, Idle
    <2>2. CASE Takes(t)
      BY <1>2, <2>2, GrownFacts DEF Takes
    <2>3. CASE Works(t)
      BY <1>0, <1>2, <2>3, GrownFacts DEF LockInv, Works
    <2>4. CASE Releases(t)
      BY <2>4 DEF Releases
    <2>5. QED
      BY <2>1, <2>2, <2>3, <2>4
  <1>6. ASSUME NEW u \in Writers, op'[u] = "amend", pc'[u] # "idle"
        PROVE  /\ pc'[u] # "resolve"
               /\ target'[u] \in 1 .. Len(db'.rows) /\ db'.rows[target'[u]].topic \in Amounts
    <2>1. /\ pc'[u] # "resolve"
          /\ target'[u] \in 1 .. Len(db.rows) /\ db.rows[target'[u]].topic \in Amounts
      BY <1>0, <1>6 DEF AmendInv, Kept
    <2>2. QED
      BY <1>2, <1>3, <2>1, IdsFacts DEF Grown
  <1>7. QED
    BY <1>1, <1>4, <1>5, <1>6 DEF BaseInv, LockInv, AmendInv

LEMMA NextBaseInv == BaseInv /\ [Next]_vars => BaseInv'
  <1> SUFFICES ASSUME BaseInv, [Next]_vars PROVE BaseInv'
    OBVIOUS
  <1>0. ThreadShape /\ RowsInv /\ LockInv /\ AmendInv
    BY DEF BaseInv
  <1>1. ASSUME NEW t \in Writers, Begins(t) PROVE BaseInv'
    BY <1>0, <1>1, BeginFacts, StoreBaseInv DEF Idle, Holding
  <1>2. ASSUME NEW t \in Writers, Resolve(t) PROVE BaseInv'
    BY <1>0, <1>2, ResolveFacts, StoreBaseInv DEF AmendInv, Holding
  <1>3. ASSUME NEW t \in Writers, Lock(t) PROVE BaseInv'
    BY <1>0, <1>3, LockFacts, StepFacts, StoreBaseInv DEF AmendInv, Takes
  <1>4. ASSUME NEW t \in Writers, MaterializeClaim(t) \/ AmendFact(t) PROVE BaseInv'
    BY <1>0, <1>4, MaterializeFacts, StoreBaseInv DEF AmendInv, Works
  <1>5. ASSUME NEW t \in Writers, Rollback(t) \/ Commit(t) PROVE BaseInv'
    <2>1. End(t) /\ (Idle \/ Releases(t))
      BY <1>5, ReleaseFacts DEF Rollback, Commit
    <2>2. QED
      BY <1>0, <2>1, EndFacts, StoreBaseInv DEF Holding
  <1>6. ASSUME NEW t \in Writers, AddCorrection(t) PROVE BaseInv'
    <2>1. CASE Rollback(t)
      BY <1>5, <2>1
    <2>2. CASE ~ Rollback(t)
      BY <1>0, <1>6, <2>2, CorrectFacts, StoreBaseInv DEF AmendInv, Works
    <2>3. QED
      BY <2>1, <2>2
  <1>7. ASSUME NEW r \in Readers, Read(r) PROVE BaseInv'
    BY <1>7 DEF Read, ReadFirst, ReadRest, ReadTables, ReadCorrections, CloseSession, turn,
                BaseInv, ThreadShape, RowsInv, LockInv, AmendInv, Holding
  <1>8. CASE UNCHANGED vars
    BY <1>8 DEF vars, turn, BaseInv, ThreadShape, RowsInv, LockInv, AmendInv, Holding
  <1>9. QED
    BY <1>1, <1>2, <1>3, <1>4, <1>5, <1>6, <1>7, <1>8 DEF Next, Write, Fail

LEMMA AlwaysBaseInv == Spec => []BaseInv
  BY InitBaseInv, NextBaseInv, PTL DEF Spec

\* However the units of work interleave, each topic has one current row, and
\* supersession is a chain.
THEOREM Chain == Spec => []SupersessionIsAChain
  <1>1. BaseInv => SupersessionIsAChain
    <2> SUFFICES ASSUME BaseInv PROVE SupersessionIsAChain
      OBVIOUS
    <2>1. db \in Dbs /\ Chained(db) /\ Ids(db) = 1 .. Len(db.rows)
      BY IdsFacts DEF BaseInv, RowsInv
    <2>2. ASSUME NEW topic \in Dimensions \cup Triples
          PROVE  Cardinality(Current(db, topic)) <= 1
      <3>1. Current(db, topic) = {} \/ \E i : Current(db, topic) = {i}
        <4>1. \/ Current(db, topic) = {}
              \/ \E i \in 1 .. Len(db.rows) : Current(db, topic) = {i}
          BY <2>1, CurrentFacts
        <4>2. QED
          BY <4>1
      <3>2. QED
        BY <3>1, FS_EmptySet, FS_Singleton
    <2>3. \A i \in Ids(db) : Links(db, i)
      BY <2>1 DEF Chained
    <2>4. QED
      BY <2>1, <2>2, <2>3 DEF SupersessionIsAChain, Links
  <1>2. QED
    BY <1>1, AlwaysBaseInv, PTL

-----------------------------------------------------------------------------
(* The ledger.                                                             *)

OnePerTarget(d) == \A c, e \in d.corrections : c.target = e.target => c = e

\* The correction that the turn of t is about to commit.
Records(t) ==
  \E c \in draft.corrections \ db.corrections :
    /\ c.target = target[t] /\ c.replacement = made[t]
    /\ \A e \in db.corrections : e.target # c.target

\* A retraction has no claim and makes nothing; a replacement has a claim left
\* until it has made its row; either has recorded a correction to commit.
OpInv(t) ==
  /\ op[t] = "retract" /\ pc[t] # "idle" => claims[t] = {} /\ made[t] = NoRow
  /\ op[t] = "replace" =>
       /\ pc[t] \in {"resolve", "write", "claims"} => claims[t] # {}
       /\ pc[t] \in {"correct", "commit"} => made[t] # NoRow
  /\ op[t] \in {"retract", "replace"} /\ pc[t] = "commit" => Records(t)

\* A fresh replacement is of a row that nobody else can have seen.
FreshInv ==
  writer # None =>
    \A c \in draft.corrections \ db.corrections : c.fresh => c.replacement > Len(db.rows)

LedgerInv ==
  /\ OnePerTarget(db) /\ OnePerTarget(draft)
  /\ FreshInv /\ \A t \in Writers : OpInv(t)

LEMMA InitLedgerInv == Init => LedgerInv
  BY EmptyFacts DEF Init, LedgerInv, OnePerTarget, FreshInv, OpInv

\* The other threads hold no unit of work while the store changes.
LEMMA OthersOpInv ==
  ASSUME BaseInv, LedgerInv, NEW t \in Writers, NEW u \in Writers, u # t, Kept(u),
         Idle \/ Takes(t) \/ Works(t) \/ Releases(t)
  PROVE  OpInv(u)'
  <1>1. OpInv(u) /\ (Holding(u) => writer = u)
    BY DEF LedgerInv, BaseInv, LockInv
  <1>2. pc[u] = "commit" => Idle
    BY <1>1, NoneAssumption DEF Holding, Takes, Works, Releases
  <1>3. pc[u] = "commit" => (Records(u) => Records(u)')
    BY <1>2 DEF Records, Idle, Kept
  <1>4. QED
    BY <1>1, <1>3 DEF OpInv, Kept

LEMMA NextLedgerInv == BaseInv /\ LedgerInv /\ [Next]_vars => LedgerInv'
  <1> SUFFICES ASSUME BaseInv, LedgerInv, [Next]_vars PROVE LedgerInv'
    OBVIOUS
  <1>0. ThreadShape /\ RowsInv /\ LockInv
    BY DEF BaseInv
  <1>1. ASSUME NEW t \in Writers, Begins(t) PROVE LedgerInv'
    <2>1. Idle
      BY <1>0, <1>1, BeginFacts DEF Idle
    <2>2. \A u \in Writers \ {t} : OpInv(u)'
      BY <1>0, <1>1, <2>1, BeginFacts, OthersOpInv
    <2>3. OpInv(t)'
      BY <1>0, <1>1, BeginFacts DEF OpInv
    <2>4. QED
      BY <2>1, <2>2, <2>3 DEF LedgerInv, OnePerTarget, FreshInv, Idle
  <1>2. ASSUME NEW t \in Writers, Resolve(t) PROVE LedgerInv'
    <2>1. Idle /\ \A u \in Writers \ {t} : OpInv(u)'
      BY <1>0, <1>2, ResolveFacts, OthersOpInv
    <2>2. OpInv(t)'
      BY <1>0, <1>2, ResolveFacts DEF LedgerInv, OpInv
    <2>3. QED
      BY <2>1, <2>2 DEF LedgerInv, OnePerTarget, FreshInv, Idle
  <1>3. ASSUME NEW t \in Writers, Lock(t) PROVE LedgerInv'
    <2>1. Takes(t) /\ \A u \in Writers \ {t} : OpInv(u)'
      BY <1>0, <1>3, LockFacts, OthersOpInv
    <2>2. OpInv(t)'
      BY <1>0, <1>3, LockFacts, StepFacts DEF LedgerInv, OpInv
    <2>3. QED
      BY <2>1, <2>2 DEF LedgerInv, OnePerTarget, FreshInv, Takes
  <1>4. ASSUME NEW t \in Writers, MaterializeClaim(t) \/ AmendFact(t) PROVE LedgerInv'
    <2>1. Works(t) /\ draft'.corrections = draft.corrections
          /\ \A u \in Writers \ {t} : OpInv(u)'
      BY <1>0, <1>4, MaterializeFacts, OthersOpInv
    <2>2. OpInv(t)'
      BY <1>0, <1>4, MaterializeFacts DEF LedgerInv, OpInv
    <2>3. QED
      BY <2>1, <2>2 DEF LedgerInv, OnePerTarget, FreshInv, Works
  <1>5. ASSUME NEW t \in Writers, Rollback(t) \/ Commit(t) PROVE LedgerInv'
    <2>1. End(t) /\ (Idle \/ Releases(t))
      BY <1>5, ReleaseFacts DEF Rollback, Commit
    <2>2. (\A u \in Writers \ {t} : OpInv(u)') /\ pc'[t] = "idle" /\ op'[t] = "tell"
      BY <1>0, <2>1, EndFacts, OthersOpInv
    <2>3. QED
      BY <2>1, <2>2, EmptyFacts DEF LedgerInv, OnePerTarget, FreshInv, OpInv, Idle, Releases
  <1>6. ASSUME NEW t \in Writers, AddCorrection(t) PROVE LedgerInv'
    <2>1. CASE Rollback(t)
      BY <1>5, <2>1
    <2>2. CASE ~ Rollback(t)
      <3>1. /\ Works(t) /\ pc[t] = "correct" /\ pc'[t] = "commit"
            /\ op'[t] = op[t] /\ target'[t] = target[t] /\ made'[t] = made[t]
            /\ claims'[t] = claims[t] /\ \A u \in Writers \ {t} : OpInv(u)'
        BY <1>0, <1>6, <2>2, CorrectFacts, OthersOpInv
      <3>2. PICK c \in Entries :
              /\ draft'.corrections = draft.corrections \cup {c}
              /\ c.target = target[t] /\ c.replacement = made[t]
              /\ c.fresh = (made[t] > Len(db.rows))
              /\ \A e \in draft.corrections : e.target # target[t]
        BY <1>0, <1>6, <2>2, CorrectFacts
      <3>3. db' = db /\ db.corrections \subseteq draft.corrections
        BY <1>0, <3>1, NoneAssumption DEF Works, LockInv
      <3>4. Records(t)'
        BY <3>1, <3>2, <3>3 DEF Records
      <3>5. OpInv(t)'
        BY <3>1, <3>4 DEF LedgerInv, OpInv
      <3>6. FreshInv' /\ OnePerTarget(db)' /\ OnePerTarget(draft)'
        <4>1. FreshInv'
          BY <3>1, <3>2, <3>3, NoneAssumption DEF LedgerInv, FreshInv, Works
        <4>2. QED
          BY <4>1, <3>2, <3>3 DEF LedgerInv, OnePerTarget
      <3>7. QED
        BY <3>1, <3>5, <3>6 DEF LedgerInv
    <2>3. QED
      BY <2>1, <2>2
  <1>7. ASSUME NEW r \in Readers, Read(r) PROVE LedgerInv'
    BY <1>7 DEF Read, ReadFirst, ReadRest, ReadTables, ReadCorrections, CloseSession, turn,
                LedgerInv, OnePerTarget, FreshInv, OpInv, Records
  <1>8. CASE UNCHANGED vars
    BY <1>8 DEF vars, turn, LedgerInv, OnePerTarget, FreshInv, OpInv, Records
  <1>9. QED
    BY <1>1, <1>2, <1>3, <1>4, <1>5, <1>6, <1>7, <1>8 DEF Next, Write, Fail

LEMMA AlwaysLedgerInv == Spec => [](BaseInv /\ LedgerInv)
  BY AlwaysBaseInv, InitLedgerInv, NextLedgerInv, PTL DEF Spec

\* However turns overlap, one assertion is corrected once.
THEOREM OneCorrection == Spec => []OneCorrectionPerTarget
  <1>1. LedgerInv => OneCorrectionPerTarget
    BY DEF LedgerInv, OnePerTarget, OneCorrectionPerTarget
  <1>2. QED
    BY <1>1, AlwaysLedgerInv, PTL

\* A REPLACE commits its row and its correction together or nothing.
THEOREM Atomic == Spec => ReplaceIsAtomic
  <1>1. BaseInv /\ LedgerInv /\ [Next]_vars =>
          [\A t \in Writers :
             op[t] \in {"retract", "replace"} /\ pc[t] # "idle" /\ pc'[t] = "idle"
               /\ db' # db
             => \E c \in db'.corrections \ db.corrections :
                  /\ c.target = target[t]
                  /\ c.replacement = made[t]
                  /\ (c.replacement = NoRow) <=> (op[t] = "retract")]_vars
    <2> SUFFICES ASSUME BaseInv, LedgerInv, Next, NEW t \in Writers,
                        op[t] \in {"retract", "replace"}, pc[t] # "idle", pc'[t] = "idle",
                        db' # db
                 PROVE  \E c \in db'.corrections \ db.corrections :
                          /\ c.target = target[t] /\ c.replacement = made[t]
                          /\ (c.replacement = NoRow) <=> (op[t] = "retract")
      BY DEF vars, turn
    <2>0. ThreadShape /\ RowsInv
      BY DEF BaseInv
    <2>1. PICK u \in Writers : Commit(u)
      <3>1. \A u \in Writers :
              Begins(u) \/ Resolve(u) \/ Lock(u) \/ MaterializeClaim(u) \/ AmendFact(u)
                \/ AddCorrection(u) \/ Fail(u) => db' = db
        BY <2>0, BeginFacts DEF Resolve, Lock, MaterializeClaim, AmendFact, AddCorrection, Fail,
                                Rollback
      <3>2. \A r \in Readers : Read(r) => db' = db
        BY DEF Read, ReadFirst, ReadRest, ReadTables, ReadCorrections, CloseSession
      <3>3. QED
        BY <3>1, <3>2 DEF Next, Write
    <2>2. t = u
      BY <2>0, <2>1, EndFacts DEF Commit, Kept
    <2>3. pc[t] = "commit" /\ db' = draft
      BY <2>1, <2>2 DEF Commit
    <2>4. OpInv(t) /\ Records(t)
      BY <2>3 DEF LedgerInv, OpInv
    <2>5. (made[t] = NoRow) <=> (op[t] = "retract")
      BY <2>3, <2>4 DEF OpInv
    <2>6. QED
      BY <2>3, <2>4, <2>5 DEF Records
  <1>2. QED
    BY <1>1, AlwaysLedgerInv, PTL DEF Spec, ReplaceIsAtomic

-----------------------------------------------------------------------------
(* Readers.                                                                *)

Views == [ids : SUBSET Nat, corrections : SUBSET Entries]

\* A reader has seen committed rows, and every correction whose replacement it
\* has seen once it is done.
ReaderInv ==
  /\ DOMAIN reading = Readers /\ view \in [Readers -> Views]
  /\ \A r \in Readers :
       /\ view[r].ids \subseteq 1 .. Len(db.rows)
       /\ reading[r] = "done" =>
            \A c \in db.corrections :
              c.fresh /\ c.replacement \in view[r].ids => c \in view[r].corrections

LEMMA InitReaderInv == Init => ReaderInv
  BY DEF Init, ReaderInv, NothingRead, Views

\* What is committed is committed after what the readers have seen.
LEMMA StoreReaderInv ==
  ASSUME BaseInv, BaseInv', LedgerInv, ReaderInv, NEW t \in Writers, reader' = reader,
         Idle \/ Takes(t) \/ Works(t) \/ Releases(t)
  PROVE  ReaderInv'
  <1>1. db \in Dbs /\ draft \in Dbs /\ db' \in Dbs /\ t # None
    BY NoneAssumption DEF BaseInv, RowsInv
  <1>2. CASE db' = db
    BY <1>2 DEF ReaderInv, reader
  <1>3. CASE db' # db
    <2>1. writer = t /\ db' = draft /\ Grown(db, draft)
      BY <1>1, <1>3 DEF Idle, Takes, Works, Releases, BaseInv, LockInv
    <2>2. Len(db.rows) \in Nat /\ Len(db'.rows) \in Nat /\ Len(db.rows) <= Len(db'.rows)
      BY <1>1, <2>1, IdsFacts DEF Grown
    <2>3. \A c \in db'.corrections \ db.corrections : c.fresh => c.replacement > Len(db.rows)
      BY <1>1, <2>1 DEF LedgerInv, FreshInv
    <2>4. QED
      BY <2>2, <2>3 DEF ReaderInv, reader
  <1>4. QED
    BY <1>2, <1>3

\* A reader that loads tables sees rows that are committed.
LEMMA TablesReaderInv ==
  ASSUME BaseInv, ReaderInv, NEW r \in Readers, NEW from, NEW to, to # "done",
         NEW topics, ReadTables(r, from, to, topics)
  PROVE  ReaderInv'
  <1> DEFINE ids == view[r].ids \cup UNION {About(db, topic) : topic \in topics}
  <1>1. UNION {About(db, topic) : topic \in topics} \subseteq 1 .. Len(db.rows)
        /\ Len(db.rows) \in Nat
    BY IdsFacts DEF About, BaseInv, RowsInv
  <1>2. view[r] \in Views /\ view[r].ids \subseteq 1 .. Len(db.rows)
    BY DEF ReaderInv
  <1>3. /\ reading' = [reading EXCEPT ![r] = to] /\ db' = db
        /\ view' = [view EXCEPT ![r] = [view[r] EXCEPT !.ids = ids]]
    BY DEF ReadTables
  <1>4. ids \subseteq 1 .. Len(db.rows) /\ ids \subseteq Nat
    BY <1>1, <1>2
  <1> HIDE DEF ids
  <1>5. [view[r] EXCEPT !.ids = ids] \in Views /\ [view[r] EXCEPT !.ids = ids].ids = ids
    BY <1>2, <1>4 DEF Views
  <1>6. reading'[r] = to /\ \A s \in Readers \ {r} : reading'[s] = reading[s] /\ view'[s] = view[s]
    BY <1>3 DEF ReaderInv
  <1>7. QED
    BY <1>3, <1>4, <1>5, <1>6 DEF ReaderInv

LEMMA NextReaderInv == BaseInv /\ BaseInv' /\ LedgerInv /\ ReaderInv /\ [Next]_vars => ReaderInv'
  <1> SUFFICES ASSUME BaseInv, BaseInv', LedgerInv, ReaderInv, [Next]_vars PROVE ReaderInv'
    OBVIOUS
  <1>0. ThreadShape /\ RowsInv
    BY DEF BaseInv
  <1>1. ASSUME NEW t \in Writers, Write(t) PROVE ReaderInv'
    <2>1. CASE Begins(t)
      BY <1>0, <2>1, BeginFacts, StoreReaderInv DEF Idle
    <2>2. CASE Resolve(t)
      BY <1>0, <2>2, ResolveFacts, StoreReaderInv
    <2>3. CASE Lock(t)
      BY <1>0, <2>3, LockFacts, StoreReaderInv
    <2>4. CASE MaterializeClaim(t) \/ AmendFact(t)
      BY <1>0, <2>4, MaterializeFacts, StoreReaderInv
    <2>5. CASE Rollback(t) \/ Commit(t)
      <3>1. reader' = reader
        BY <2>5 DEF Rollback, Commit, End
      <3>2. QED
        BY <2>5, <3>1, ReleaseFacts, StoreReaderInv
    <2>6. CASE AddCorrection(t) /\ ~ Rollback(t)
      BY <1>0, <2>6, CorrectFacts, StoreReaderInv
    <2>7. QED
      BY <1>1, <2>1, <2>2, <2>3, <2>4, <2>5, <2>6 DEF Write, Fail
  <1>2. ASSUME NEW r \in Readers, ReadFirst(r) \/ ReadRest(r) PROVE ReaderInv'
    BY <1>2, TablesReaderInv DEF ReadFirst, ReadRest
  <1>3. ASSUME NEW r \in Readers, ReadCorrections(r) \/ CloseSession(r) PROVE ReaderInv'
    <2> DEFINE seen == view[r].corrections \cup db.corrections
    <2>1. view[r] \in Views /\ db.corrections \subseteq Entries
      BY <1>0 DEF ReaderInv, RowsInv, Dbs
    <2>2. [view[r] EXCEPT !.corrections = seen] \in Views
          /\ [view[r] EXCEPT !.corrections = seen].corrections = seen
          /\ [view[r] EXCEPT !.corrections = seen].ids = view[r].ids
      BY <2>1 DEF Views
    <2>3. NothingRead \in Views /\ NothingRead.ids = {}
      BY DEF NothingRead, Views
    <2>4. /\ db' = db
          /\ \/ /\ reading' = [reading EXCEPT ![r] = "done"]
                /\ view' = [view EXCEPT ![r] = [view[r] EXCEPT !.corrections = seen]]
             \/ /\ reading' = [reading EXCEPT ![r] = "start"]
                /\ view' = [view EXCEPT ![r] = NothingRead]
      BY <1>3 DEF ReadCorrections, CloseSession
    <2>5. db.corrections \subseteq seen
      OBVIOUS
    <2> HIDE DEF seen
    <2>6. \A s \in Readers \ {r} : reading'[s] = reading[s] /\ view'[s] = view[s]
      BY <2>4 DEF ReaderInv
    <2>7. DOMAIN reading' = Readers /\ view' \in [Readers -> Views]
      BY <2>2, <2>3, <2>4 DEF ReaderInv
    <2>8. \/ view'[r].ids = view[r].ids /\ view'[r].corrections = seen
          \/ view'[r].ids = {} /\ reading'[r] # "done"
      BY <2>2, <2>3, <2>4 DEF ReaderInv
    <2>9. QED
      BY <2>4, <2>5, <2>6, <2>7, <2>8 DEF ReaderInv
  <1>4. CASE UNCHANGED vars
    BY <1>4 DEF vars, reader, ReaderInv
  <1>5. QED
    BY <1>1, <1>2, <1>3, <1>4 DEF Next, Read

\* No reader takes for effective both an assertion and the row that was
\* inserted to replace it, whatever is committed while it reads.
THEOREM NeverBoth == Spec => []NeverBothEffective
  <1>1. ReaderInv => NeverBothEffective
    BY DEF ReaderInv, NeverBothEffective
  <1>2. QED
    BY <1>1, AlwaysLedgerInv, NextBaseInv, InitReaderInv, NextReaderInv, PTL DEF Spec
===============================================================================
