---------------------------- MODULE CoreTurnsProofs ----------------------------
(***************************************************************************)
(* Theorems about CoreTurns, for every set of threads and principals and   *)
(* whatever bounds: the engine carries out a turn at most once, and what   *)
(* jamesCore binds and logs is backed by what the engine did.              *)
(***************************************************************************)
EXTENDS CoreTurns, SequenceTheorems, TLAPS

-----------------------------------------------------------------------------
(* Shapes: TypeOK without the bounds that TLC needs.                       *)

PcSteps == {"idle", "social", "ensure", "bind", "send", "sent", "rebind", "user", "assistant"}
Roles   == {"user", "assistant"}

Convs    == [owner : Principals, pke : Nat]
LogRows  == [conv : Nat, role : Roles, turn : Nat, social : BOOLEAN]
Deeds    == [rid : Nat, turn : Nat, conv : Nat]
Requests == [rid : Nat, turn : Nat, conv : Nat, owner : Principals]
Answers  == [rid : Nat, kind : Kinds, conv : Nat]
Held     == [id : Nat, pke : Nat, owner : Principals \cup {None}]
Gotten   == [kind : Kinds, conv : Nat]

StoreShape == james \in Seq(Convs) /\ log \in Seq(LogRows)
CountShape == turns \in Nat /\ rids \in Nat

EngineShape ==
  /\ pkeConvs \in Seq(Principals)
  /\ handled \subseteq Deeds /\ inflight \subseteq Requests /\ replies \subseteq Answers

ThreadShape ==
  /\ pc \in [Threads -> PcSteps] /\ rec \in [Threads -> Held]
  /\ own \in [Threads -> Nat] /\ rid \in [Threads -> Nat]
  /\ got \in [Threads -> Gotten]

Shape == StoreShape /\ CountShape /\ EngineShape /\ ThreadShape

Busy(t) == pc[t] # "idle"

\* The record of a thread at work is of a conversation of its owner.
Recorded(t) ==
  /\ rec[t].id \in 1 .. Len(james)
  /\ rec[t].owner = james[rec[t].id].owner

ShapeInv == Shape /\ \A t \in Threads : Busy(t) => Recorded(t)

LEMMA InitShapeInv == Init => ShapeInv
  <1>1. NoRecord \in Held /\ NoReply \in Gotten
    BY DEF NoRecord, NoReply, NoConv, Held, Gotten, Kinds
  <1>2. QED
    BY <1>1 DEF Init, ShapeInv, Shape, StoreShape, CountShape, EngineShape, ThreadShape,
                PcSteps, Busy

\* Who forgets is idle, and the others keep what they hold.
LEMMA ForgetFacts ==
  ASSUME ThreadShape, NEW T \in SUBSET Threads, Forget(T)
  PROVE  /\ ThreadShape'
         /\ \A t \in T : pc'[t] = "idle"
         /\ \A t \in Threads \ T :
              pc'[t] = pc[t] /\ rec'[t] = rec[t] /\ own'[t] = own[t] /\ rid'[t] = rid[t]
                /\ got'[t] = got[t]
  <1>1. NoRecord \in Held /\ NoReply \in Gotten
    BY DEF NoRecord, NoReply, NoConv, Held, Gotten, Kinds
  <1>2. QED
    BY <1>1 DEF Forget, ThreadShape, PcSteps

LEMMA RowShape ==
  ASSUME ThreadShape, NEW t \in Threads, NEW role \in Roles, NEW social \in BOOLEAN
  PROVE  Row(t, role, social) \in LogRows
  BY DEF ThreadShape, Row, LogRows, Held

\* The owner of a thread at work is a principal.
LEMMA OwnerFacts ==
  ASSUME StoreShape, NEW t \in Threads, Recorded(t)
  PROVE  rec[t].owner \in Principals
  <1>1. james[rec[t].id] \in Convs
    BY DEF StoreShape, Recorded
  <1>2. QED
    BY <1>1 DEF Convs, Recorded

\* A thread writes a binding into the conversation of its record.
LEMMA BindingFacts ==
  ASSUME StoreShape, NEW c \in 1 .. Len(james), NEW p \in Nat,
         james' = [james EXCEPT ![c].pke = p]
  PROVE  /\ james' \in Seq(Convs) /\ Len(james') = Len(james)
         /\ \A d \in 1 .. Len(james) : james'[d].owner = james[d].owner
         /\ james'[c].pke = p
         /\ \A d \in 1 .. Len(james) \ {c} : james'[d] = james[d]
  <1>1. james[c] \in Convs
    BY DEF StoreShape
  <1>2. [james[c] EXCEPT !.pke = p] \in Convs
    BY <1>1 DEF Convs
  <1>3. james' = [james EXCEPT ![c] = [james[c] EXCEPT !.pke = p]]
    OBVIOUS
  <1>4. /\ [james[c] EXCEPT !.pke = p].owner = james[c].owner
        /\ [james[c] EXCEPT !.pke = p].pke = p
    BY <1>1 DEF Convs
  <1>5. QED
    BY <1>2, <1>3, <1>4 DEF StoreShape

LEMMA NextShapeInv == ShapeInv /\ [Next]_vars => ShapeInv'
  <1> SUFFICES ASSUME ShapeInv, [Next]_vars PROVE ShapeInv'
    OBVIOUS
  <1> USE DEF ShapeInv, Shape, NoConv
  <1>1. ASSUME NEW t \in Threads, NEW p \in Principals, NEW id \in 0 .. MaxConvs,
               Receive(t, p, id)
        PROVE  ShapeInv'
    <2> DEFINE known == [id |-> id, pke |-> james[id].pke, owner |-> p]
               fresh == [id |-> Len(james) + 1, pke |-> 0, owner |-> p]
               conv  == [owner |-> p, pke |-> 0]
    <2>1. /\ \/ Found(p, id) /\ rec' = [rec EXCEPT ![t] = known] /\ james' = james
             \/ rec' = [rec EXCEPT ![t] = fresh] /\ james' = Append(james, conv)
          /\ pc' \in {[pc EXCEPT ![t] = "social"], [pc EXCEPT ![t] = "ensure"]}
          /\ own' = [own EXCEPT ![t] = turns + 1] /\ turns' = turns + 1
          /\ UNCHANGED <<log, rids, engine, rid, got>>
      BY <1>1 DEF Receive, Goto
    <2>2. Found(p, id) => known \in Held
      <3> HAVE Found(p, id)
      <3>1. id \in Nat /\ james[id] \in Convs
        BY DEF Found, StoreShape
      <3>2. QED
        BY <3>1 DEF Convs, Held
    <2>3. fresh \in Held /\ conv \in Convs
      BY DEF StoreShape, Held, Convs
    <2> HIDE DEF known, fresh, conv
    <2>4. CountShape' /\ EngineShape'
      BY <2>1 DEF CountShape, EngineShape, engine
    <2>5. StoreShape'
      <3>0. james \in Seq(Convs)
        BY DEF StoreShape
      <3>a. Append(james, conv) \in Seq(Convs)
        BY <2>3, <3>0, AppendProperties
      <3>1. james' \in Seq(Convs)
        BY <2>1, <3>0, <3>a
      <3>2. QED
        BY <2>1, <3>1 DEF StoreShape
    <2>6. ThreadShape'
      <3>1. rec' \in [Threads -> Held]
        BY <2>1, <2>2, <2>3 DEF ThreadShape
      <3>2. pc' \in [Threads -> PcSteps]
        BY <2>1 DEF ThreadShape, PcSteps
      <3>3. turns + 1 \in Nat
        BY DEF CountShape
      <3>4. own' \in [Threads -> Nat]
        BY <2>1, <3>3 DEF ThreadShape
      <3>5. QED
        BY <2>1, <3>1, <3>2, <3>4 DEF ThreadShape
    <2>7. /\ Len(james') >= Len(james)
          /\ \A c \in 1 .. Len(james) : james'[c] = james[c]
      BY <2>1, <2>3, AppendProperties DEF StoreShape
    <2>8. Recorded(t)'
      <3>1. CASE Found(p, id) /\ rec' = [rec EXCEPT ![t] = known] /\ james' = james
        BY <3>1, <2>2 DEF known, Found, Recorded, ThreadShape
      <3>2. CASE rec' = [rec EXCEPT ![t] = fresh] /\ james' = Append(james, conv)
        BY <2>3, <3>2, AppendProperties DEF fresh, conv, Recorded, ThreadShape, StoreShape
      <3>3. QED
        BY <2>1, <3>1, <3>2
    <2>9. \A u \in Threads \ {t} : rec'[u] = rec[u] /\ pc'[u] = pc[u]
      BY <2>1 DEF ThreadShape
    <2>10. \A u \in Threads \ {t} : Busy(u)' => Recorded(u)'
      BY <2>7, <2>9 DEF StoreShape, Busy, Recorded
    <2>11. QED
      BY <2>4, <2>5, <2>6, <2>8, <2>10
  <1>2. ASSUME NEW t \in Threads, Social(t) PROVE ShapeInv'
    <2>1. /\ \/ log' = Append(log, Row(t, "user", TRUE)) /\ UNCHANGED thread
             \/ log' = Append(log, Row(t, "assistant", TRUE)) /\ Forget({t})
          /\ UNCHANGED <<james, turns, rids, engine, mixed>>
      BY <1>2 DEF Social, Return
    <2>2. Row(t, "user", TRUE) \in LogRows /\ Row(t, "assistant", TRUE) \in LogRows
      BY RowShape DEF Roles
    <2>3. log' \in Seq(LogRows)
      <3>1. \A r \in LogRows : Append(log, r) \in Seq(LogRows)
        BY AppendProperties DEF StoreShape
      <3>2. QED
        BY <2>1, <2>2, <3>1
    <2>4. StoreShape' /\ CountShape' /\ EngineShape'
      BY <2>1, <2>3 DEF StoreShape, CountShape, EngineShape, engine
    <2>5. ThreadShape' /\ \A u \in Threads : pc'[u] = "idle" \/ (pc'[u] = pc[u] /\ rec'[u] = rec[u])
      BY <2>1, ForgetFacts DEF thread, ThreadShape
    <2>6. QED
      BY <2>1, <2>4, <2>5 DEF Busy, Recorded
  <1>3. ASSUME NEW t \in Threads, Ensure(t) PROVE ShapeInv'
    <2>1. rec[t].owner \in Principals
      BY <1>3, OwnerFacts DEF Busy, Ensure
    <2>2. /\ \/ pkeConvs' = pkeConvs
             \/ pkeConvs' = Append(pkeConvs, rec[t].owner)
          /\ \/ rec' = rec
             \/ rec' = [rec EXCEPT ![t] = [rec[t] EXCEPT !.pke = Len(pkeConvs) + 1]]
          /\ pc' \in {[pc EXCEPT ![t] = "send"], [pc EXCEPT ![t] = "bind"]}
          /\ UNCHANGED <<store, turns, rids, handled, inflight, replies, own, rid, got, mixed>>
      BY <1>3 DEF Ensure, Goto
    <2>3. rec[t] \in Held /\ Len(pkeConvs) + 1 \in Nat
      BY DEF ThreadShape, EngineShape
    <2>4. /\ [rec[t] EXCEPT !.pke = Len(pkeConvs) + 1] \in Held
          /\ [rec[t] EXCEPT !.pke = Len(pkeConvs) + 1].id = rec[t].id
          /\ [rec[t] EXCEPT !.pke = Len(pkeConvs) + 1].owner = rec[t].owner
      BY <2>3 DEF Held
    <2>5. StoreShape' /\ CountShape' /\ EngineShape'
      <3>1. pkeConvs' \in Seq(Principals)
        BY <2>1, <2>2, AppendProperties DEF EngineShape
      <3>2. QED
        BY <2>2, <3>1 DEF StoreShape, CountShape, EngineShape, store
    <2>6. ThreadShape'
      BY <2>2, <2>4 DEF ThreadShape, PcSteps
    <2>7. \A u \in Threads : rec'[u].id = rec[u].id /\ rec'[u].owner = rec[u].owner
      BY <2>2, <2>4 DEF ThreadShape
    <2>8. \A u \in Threads : Busy(u)' => Busy(u)
      BY <1>3, <2>2 DEF ThreadShape, Busy, Ensure
    <2>9. QED
      BY <2>2, <2>5, <2>6, <2>7, <2>8 DEF store, Recorded
  <1>4. ASSUME NEW t \in Threads, Bind(t) PROVE ShapeInv'
    <2>1. rec[t].id \in 1 .. Len(james) /\ rec[t].pke \in Nat
      BY <1>4 DEF Bind, Busy, Recorded, ThreadShape, Held
    <2>2. /\ james' \in Seq(Convs) /\ Len(james') = Len(james)
          /\ \A d \in 1 .. Len(james) : james'[d].owner = james[d].owner
      BY <1>4, <2>1, BindingFacts DEF Bind
    <2>3. pc' = [pc EXCEPT ![t] = "send"] /\ UNCHANGED <<log, turns, rids, engine, rec, own, rid, got>>
      BY <1>4 DEF Bind, Goto
    <2>4. Shape'
      BY <2>2, <2>3 DEF StoreShape, CountShape, EngineShape, ThreadShape, PcSteps, engine
    <2>5. \A u \in Threads : Busy(u)' => Busy(u)
      BY <1>4, <2>3 DEF ThreadShape, Busy, Bind
    <2>6. QED
      BY <2>2, <2>3, <2>4, <2>5 DEF Recorded
  <1>5. ASSUME NEW t \in Threads, Send(t) PROVE ShapeInv'
    <2>1. rec[t].owner \in Principals /\ Recorded(t)
      BY <1>5, OwnerFacts DEF Busy, Send
    <2>2. [rid |-> rids + 1, turn |-> own[t], conv |-> rec[t].pke, owner |-> rec[t].owner]
            \in Requests
      BY <2>1 DEF CountShape, ThreadShape, Held, Requests
    <2>3. StoreShape' /\ CountShape' /\ EngineShape'
      BY <1>5, <2>2 DEF Send, StoreShape, CountShape, EngineShape, store
    <2>4. ThreadShape'
      BY <1>5 DEF Send, Goto, ThreadShape, CountShape, PcSteps
    <2>5. rec' = rec /\ james' = james /\ \A u \in Threads : Busy(u)' => Busy(u)
      BY <1>5 DEF Send, Goto, store, ThreadShape, Busy
    <2>6. QED
      BY <2>3, <2>4, <2>5 DEF Recorded
  <1>6. ASSUME NEW t \in Threads, Timeout(t) PROVE ShapeInv'
    <2>1. Forget({t}) /\ UNCHANGED <<store, turns, rids, engine>>
      BY <1>6 DEF Timeout, Return
    <2>2. ThreadShape' /\ \A u \in Threads : Busy(u)' => Busy(u) /\ rec'[u] = rec[u]
      BY <2>1, ForgetFacts DEF Busy
    <2>3. StoreShape' /\ CountShape' /\ EngineShape'
      BY <2>1 DEF StoreShape, CountShape, EngineShape, store, engine
    <2>4. QED
      BY <2>1, <2>2, <2>3 DEF Recorded, store
  <1>7. ASSUME NEW t \in Threads, NEW m \in replies, Reply(t, m) PROVE ShapeInv'
    <2>1. replies' \subseteq replies /\ UNCHANGED <<store, turns, rids, pkeConvs, handled, inflight>>
      BY <1>7 DEF Reply
    <2>2. \/ Forget({t})
          \/ /\ got' = [got EXCEPT ![t] = [kind |-> m.kind, conv |-> m.conv]]
             /\ pc' \in {[pc EXCEPT ![t] = "rebind"], [pc EXCEPT ![t] = "user"]}
             /\ UNCHANGED <<rec, own, rid>>
      BY <1>7 DEF Reply, Return, Goto
    <2>3. [kind |-> m.kind, conv |-> m.conv] \in Gotten
      BY DEF EngineShape, Answers, Gotten
    <2>4. StoreShape' /\ CountShape' /\ EngineShape'
      BY <2>1 DEF StoreShape, CountShape, EngineShape, store
    <2>5. ThreadShape' /\ \A u \in Threads : pc'[u] = "idle" \/ rec'[u] = rec[u]
      BY <2>2, <2>3, ForgetFacts DEF ThreadShape, PcSteps
    <2>6. \A u \in Threads : Busy(u)' => Busy(u)
      BY <1>7, <2>2, ForgetFacts DEF ThreadShape, Busy, Reply
    <2>7. QED
      BY <2>1, <2>4, <2>5, <2>6 DEF store, Busy, Recorded
  <1>8. ASSUME NEW t \in Threads, Rebind(t) PROVE ShapeInv'
    <2>1. rec[t].id \in 1 .. Len(james) /\ got[t].conv \in Nat /\ rec[t] \in Held
      BY <1>8 DEF Rebind, Busy, Recorded, ThreadShape, Gotten
    <2>2. /\ james' \in Seq(Convs) /\ Len(james') = Len(james)
          /\ \A d \in 1 .. Len(james) : james'[d].owner = james[d].owner
      BY <1>8, <2>1, BindingFacts DEF Rebind
    <2>3. /\ pc' = [pc EXCEPT ![t] = "user"]
          /\ rec' = [rec EXCEPT ![t] = [rec[t] EXCEPT !.pke = got[t].conv]]
          /\ UNCHANGED <<log, turns, rids, engine, own, rid, got>>
      BY <1>8 DEF Rebind, Goto
    <2>4. /\ [rec[t] EXCEPT !.pke = got[t].conv] \in Held
          /\ [rec[t] EXCEPT !.pke = got[t].conv].id = rec[t].id
          /\ [rec[t] EXCEPT !.pke = got[t].conv].owner = rec[t].owner
      BY <2>1 DEF Held
    <2>5. Shape'
      BY <2>2, <2>3, <2>4 DEF StoreShape, CountShape, EngineShape, ThreadShape, PcSteps, engine
    <2>6. \A u \in Threads : rec'[u].id = rec[u].id /\ rec'[u].owner = rec[u].owner
      BY <2>3, <2>4 DEF ThreadShape
    <2>7. \A u \in Threads : Busy(u)' => Busy(u)
      BY <1>8, <2>3 DEF ThreadShape, Busy, Rebind
    <2>8. QED
      BY <2>2, <2>5, <2>6, <2>7 DEF Recorded
  <1>9. ASSUME NEW t \in Threads, LogUser(t) PROVE ShapeInv'
    <2>1. Row(t, "user", FALSE) \in LogRows
      BY RowShape DEF Roles
    <2>2. StoreShape' /\ CountShape' /\ EngineShape'
      BY <1>9, <2>1, AppendProperties DEF LogUser, StoreShape, CountShape, EngineShape, engine
    <2>3. ThreadShape'
      BY <1>9 DEF LogUser, Goto, ThreadShape, PcSteps
    <2>4. rec' = rec /\ james' = james /\ \A u \in Threads : Busy(u)' => Busy(u)
      BY <1>9 DEF LogUser, Goto, ThreadShape, Busy
    <2>5. QED
      BY <2>2, <2>3, <2>4 DEF Recorded
  <1>10. ASSUME NEW t \in Threads, LogAssistant(t) PROVE ShapeInv'
    <2>1. Row(t, "assistant", FALSE) \in LogRows
      BY RowShape DEF Roles
    <2>2. Forget({t}) /\ log' = Append(log, Row(t, "assistant", FALSE))
          /\ UNCHANGED <<james, turns, rids, engine>>
      BY <1>10 DEF LogAssistant, Return
    <2>3. log' \in Seq(LogRows)
      BY <2>1, <2>2, AppendProperties DEF StoreShape
    <2>4. StoreShape' /\ CountShape' /\ EngineShape'
      BY <2>2, <2>3 DEF StoreShape, CountShape, EngineShape, engine
    <2>5. ThreadShape' /\ \A u \in Threads : Busy(u)' => Busy(u) /\ rec'[u] = rec[u]
      BY <2>2, ForgetFacts DEF Busy
    <2>6. QED
      BY <2>2, <2>4, <2>5 DEF Recorded
  <1>11. ASSUME NEW q \in inflight, Refuse(q) PROVE ShapeInv'
    <2>1. [rid |-> q.rid, kind |-> "failed", conv |-> 0] \in Answers
      BY DEF EngineShape, Requests, Answers, Kinds
    <2>2. QED
      BY <1>11, <2>1 DEF Refuse, StoreShape, CountShape, EngineShape, ThreadShape, store, thread,
                         Busy, Recorded
  <1>12. ASSUME NEW q \in inflight, NEW kind \in Kinds, Handle(q, kind) PROVE ShapeInv'
    <2> DEFINE conv == IF q.conv = 0 THEN Len(pkeConvs) + 1 ELSE q.conv
    <2>1. q \in Requests /\ conv \in Nat
      BY DEF EngineShape, Requests
    <2>2. /\ [rid |-> q.rid, turn |-> q.turn, conv |-> conv] \in Deeds
          /\ [rid |-> q.rid, kind |-> kind, conv |-> conv] \in Answers
          /\ q.owner \in Principals
      BY <2>1 DEF Requests, Deeds, Answers
    <2> HIDE DEF conv
    <2>3. /\ handled' = handled \cup {[rid |-> q.rid, turn |-> q.turn, conv |-> conv]}
          /\ replies' = replies \cup {[rid |-> q.rid, kind |-> kind, conv |-> conv]}
          /\ pkeConvs' \in {pkeConvs, Append(pkeConvs, q.owner)}
          /\ inflight' \subseteq inflight
          /\ UNCHANGED <<store, turns, rids, thread>>
      BY <1>12 DEF Handle, conv
    <2>4. pkeConvs' \in Seq(Principals)
      BY <2>2, <2>3, AppendProperties DEF EngineShape
    <2>5. QED
      BY <2>2, <2>3, <2>4
         DEF StoreShape, CountShape, EngineShape, ThreadShape, store, thread,
                        Busy, Recorded
  <1>13. CASE Restart
    BY <1>13, ForgetFacts DEF Restart, StoreShape, CountShape, EngineShape, store, engine,
                              Busy
  <1>14. CASE UNCHANGED vars
    BY <1>14 DEF vars, store, engine, thread, StoreShape, CountShape, EngineShape, ThreadShape,
                 Busy, Recorded
  <1> HIDE DEF ShapeInv, Shape
  <1>15. QED
    BY <1>1, <1>2, <1>3, <1>4, <1>5, <1>6, <1>7, <1>8, <1>9, <1>10, <1>11,
       <1>12, <1>13, <1>14 DEF Next, Step, Engine

LEMMA AlwaysShapeInv == Spec => []ShapeInv
  BY InitShapeInv, NextShapeInv, PTL DEF Spec

-----------------------------------------------------------------------------
(* The engine is asked once for each turn.                                 *)

\* The threads that have not asked the engine yet.
Unsent(t) == pc[t] \in {"social", "ensure", "bind", "send"}

OwnTurns ==
  /\ \A t \in Threads : Busy(t) => own[t] <= turns
  /\ \A t, u \in Threads : Busy(t) /\ Busy(u) /\ own[t] = own[u] => t = u

\* What is on its way to the engine, or was carried out, is of a turn that was
\* asked for, and nothing is of a turn that is yet to be sent.
Sent ==
  /\ \A x \in handled \cup inflight :
       x.turn <= turns /\ \A t \in Threads : Unsent(t) => x.turn # own[t]
  /\ \A q \in inflight, x \in handled : q.turn # x.turn
  /\ \A q, r \in inflight : q.turn = r.turn => q = r

OnceInv == OwnTurns /\ Sent /\ AtMostOncePerTurn

LEMMA InitOnceInv == Init => OnceInv
  BY DEF Init, OnceInv, OwnTurns, Sent, AtMostOncePerTurn, Busy, Unsent

\* Nothing is sent or carried out, and nobody starts a turn.
LEMMA QuietSteps ==
  ASSUME ShapeInv, OnceInv,
         turns' = turns, handled' = handled, inflight' = inflight,
         \A t \in Threads : \/ ~ Busy(t)'
                            \/ Busy(t) /\ own'[t] = own[t] /\ (Unsent(t)' => Unsent(t))
  PROVE  OnceInv'
  BY DEF OnceInv, OwnTurns, Sent, AtMostOncePerTurn, Busy, Unsent

LEMMA NextOnceInv == ShapeInv /\ OnceInv /\ [Next]_vars => OnceInv'
  <1> SUFFICES ASSUME ShapeInv, OnceInv, [Next]_vars PROVE OnceInv'
    OBVIOUS
  <1>0. ThreadShape /\ CountShape /\ EngineShape
    BY DEF ShapeInv, Shape
  <1>1. ASSUME NEW t \in Threads, NEW p \in Principals, NEW id \in 0 .. MaxConvs,
               Receive(t, p, id)
        PROVE  OnceInv'
    <2>1. /\ own' = [own EXCEPT ![t] = turns + 1] /\ turns' = turns + 1 /\ pc[t] = "idle"
          /\ pc' \in {[pc EXCEPT ![t] = "social"], [pc EXCEPT ![t] = "ensure"]}
          /\ handled' = handled /\ inflight' = inflight
      BY <1>1 DEF Receive, Goto, engine
    <2>2. \A u \in Threads \ {t} : pc'[u] = pc[u] /\ own'[u] = own[u]
      BY <2>1, <1>0 DEF ThreadShape
    <2>3. own'[t] = turns + 1 /\ turns \in Nat
      BY <2>1, <1>0 DEF ThreadShape, CountShape
    <2>4. OwnTurns'
      BY <2>1, <2>2, <2>3, <1>0 DEF OnceInv, OwnTurns, Busy, ThreadShape
    <2>5. \A x \in handled \cup inflight : x.turn \in Nat
      BY <1>0 DEF EngineShape, Deeds, Requests
    <2>6. Sent'
      BY <2>1, <2>2, <2>3, <2>5 DEF OnceInv, Sent, Unsent
    <2>7. QED
      BY <2>1, <2>4, <2>6 DEF OnceInv, AtMostOncePerTurn
  <1>2. ASSUME NEW t \in Threads, Social(t) PROVE OnceInv'
    BY <1>2, <1>0, QuietSteps, ForgetFacts DEF Social, Return, thread, engine, Busy, Unsent
  <1>3. ASSUME NEW t \in Threads, Ensure(t) PROVE OnceInv'
    <2>1. /\ pc[t] = "ensure"
          /\ pc' \in {[pc EXCEPT ![t] = "send"], [pc EXCEPT ![t] = "bind"]}
          /\ own' = own /\ turns' = turns /\ handled' = handled /\ inflight' = inflight
      BY <1>3 DEF Ensure, Goto
    <2>2. QED
      BY <2>1, <1>0, QuietSteps DEF ThreadShape, Busy, Unsent
  <1>4. ASSUME NEW t \in Threads, Bind(t) PROVE OnceInv'
    BY <1>4, <1>0, QuietSteps DEF Bind, Goto, engine, ThreadShape, Busy, Unsent
  <1>5. ASSUME NEW t \in Threads, Send(t) PROVE OnceInv'
    <2> DEFINE q == [rid |-> rids + 1, turn |-> own[t], conv |-> rec[t].pke,
                     owner |-> rec[t].owner]
    <2>1. /\ pc[t] = "send" /\ pc' = [pc EXCEPT ![t] = "sent"]
          /\ inflight' = inflight \cup {q}
          /\ own' = own /\ turns' = turns /\ handled' = handled
      BY <1>5 DEF Send, Goto
    <2>2. q.turn = own[t]
      OBVIOUS
    <2> HIDE DEF q
    <2>3. Busy(t) /\ Unsent(t) /\ own[t] <= turns
      BY <2>1 DEF OnceInv, OwnTurns, Busy, Unsent
    <2>4. pc'[t] = "sent" /\ \A u \in Threads \ {t} : pc'[u] = pc[u]
      BY <2>1, <1>0 DEF ThreadShape
    <2>5. OwnTurns'
      BY <2>1, <2>3, <2>4 DEF OnceInv, OwnTurns, Busy
    <2>6. \A u \in Threads \ {t} : Unsent(u) => own[u] # own[t]
      BY <2>3 DEF OnceInv, OwnTurns, Busy, Unsent
    <2>7. Sent'
      BY <2>1, <2>2, <2>3, <2>4, <2>6 DEF OnceInv, Sent, Unsent
    <2>8. QED
      BY <2>1, <2>5, <2>7 DEF OnceInv, AtMostOncePerTurn
  <1>6. ASSUME NEW t \in Threads, Timeout(t) PROVE OnceInv'
    BY <1>6, <1>0, QuietSteps, ForgetFacts DEF Timeout, Return, engine, Busy, Unsent
  <1>7. ASSUME NEW t \in Threads, NEW m \in replies, Reply(t, m) PROVE OnceInv'
    <2>1. /\ turns' = turns /\ handled' = handled /\ inflight' = inflight /\ pc[t] = "sent"
          /\ \/ Forget({t})
             \/ pc' \in {[pc EXCEPT ![t] = "rebind"], [pc EXCEPT ![t] = "user"]} /\ own' = own
      BY <1>7 DEF Reply, Return, Goto
    <2>2. \A u \in Threads : \/ ~ Busy(u)'
                             \/ Busy(u) /\ own'[u] = own[u] /\ (Unsent(u)' => Unsent(u))
      BY <2>1, <1>0, ForgetFacts DEF ThreadShape, Busy, Unsent
    <2>3. QED
      BY <2>1, <2>2, QuietSteps
  <1>8. ASSUME NEW t \in Threads, Rebind(t) PROVE OnceInv'
    BY <1>8, <1>0, QuietSteps DEF Rebind, Goto, engine, ThreadShape, Busy, Unsent
  <1>9. ASSUME NEW t \in Threads, LogUser(t) PROVE OnceInv'
    BY <1>9, <1>0, QuietSteps DEF LogUser, Goto, engine, ThreadShape, Busy, Unsent
  <1>10. ASSUME NEW t \in Threads, LogAssistant(t) PROVE OnceInv'
    BY <1>10, <1>0, QuietSteps, ForgetFacts DEF LogAssistant, Return, engine, Busy, Unsent
  <1>11. ASSUME NEW q \in inflight, Refuse(q) PROVE OnceInv'
    BY <1>11 DEF Refuse, thread, OnceInv, OwnTurns, Sent, AtMostOncePerTurn, Busy, Unsent
  <1>12. ASSUME NEW q \in inflight, NEW kind \in Kinds, Handle(q, kind) PROVE OnceInv'
    <2>1. PICK conv : handled' = handled \cup {[rid |-> q.rid, turn |-> q.turn, conv |-> conv]}
      BY <1>12 DEF Handle
    <2>2. inflight' = inflight \ {q} /\ turns' = turns /\ pc' = pc /\ own' = own
      BY <1>12 DEF Handle, thread
    <2>3. PICK x : x.turn = q.turn /\ handled' = handled \cup {x}
      BY <2>1
    <2>4. QED
      BY <2>2, <2>3 DEF OnceInv, OwnTurns, Sent, AtMostOncePerTurn, Busy, Unsent
  <1>13. CASE Restart
    BY <1>13, <1>0, QuietSteps, ForgetFacts DEF Restart, engine, Busy, Unsent
  <1>14. CASE UNCHANGED vars
    BY <1>14, QuietSteps DEF vars, engine, thread, Busy, Unsent
  <1>15. QED
    BY <1>1, <1>2, <1>3, <1>4, <1>5, <1>6, <1>7, <1>8, <1>9, <1>10, <1>11,
       <1>12, <1>13, <1>14 DEF Next, Step, Engine

\* However calls time out, processes restart and clients repeat themselves,
\* the engine carries out a turn of jamesCore at most once.
THEOREM AtMostOnce == Spec => []AtMostOncePerTurn
  <1>1. OnceInv => AtMostOncePerTurn
    BY DEF OnceInv
  <1>2. QED
    BY <1>1, AlwaysShapeInv, InitOnceInv, NextOnceInv, PTL DEF Spec

-----------------------------------------------------------------------------
(* Bindings are the owner's.                                               *)

\* The engine has made the conversation c for the principal p.
Owns(convs, c, p) == c \in 1 .. Len(convs) /\ convs[c] = p

BindingsInv ==
  /\ \A c \in 1 .. Len(james) : james[c].pke # NoConv => Owns(pkeConvs, james[c].pke, james[c].owner)
  /\ \A t \in Threads : Busy(t) /\ rec[t].pke # NoConv => Owns(pkeConvs, rec[t].pke, rec[t].owner)
  /\ \A q \in inflight : q.conv # NoConv => Owns(pkeConvs, q.conv, q.owner)

\* The engine carried out the turn n in its conversation c.
Did(deeds, n, c) == \E h \in deeds : h.turn = n /\ h.conv = c

\* Request ids are fresh: what carries that of a call is of that call.
RepliesInv ==
  /\ \A x \in inflight \cup replies : x.rid <= rids
  /\ \A t \in Threads : pc[t] = "sent" =>
       /\ rid[t] <= rids
       /\ \A q \in inflight : q.rid = rid[t] => q.turn = own[t] /\ q.owner = rec[t].owner
       /\ \A m \in replies : m.rid = rid[t] /\ m.kind # "failed" =>
            Owns(pkeConvs, m.conv, rec[t].owner) /\ Did(handled, own[t], m.conv)
  /\ \A t, u \in Threads : pc[t] = "sent" /\ pc[u] = "sent" /\ rid[t] = rid[u] => t = u
  /\ \A t \in Threads : pc[t] \in {"rebind", "user", "assistant"} =>
       Owns(pkeConvs, got[t].conv, rec[t].owner) /\ Did(handled, own[t], got[t].conv)

\* What the engine has made and done stays made and done.
EngineGrows ==
  /\ \A c, p : Owns(pkeConvs, c, p) => Owns(pkeConvs', c, p)
  /\ \A n, c : Did(handled, n, c) => Did(handled', n, c)

LEMMA KeptGrows ==
  ASSUME pkeConvs' = pkeConvs, handled' = handled PROVE EngineGrows
  BY DEF EngineGrows, Owns, Did

LEMMA AppendedGrows ==
  ASSUME EngineShape, NEW p \in Principals,
         pkeConvs' = Append(pkeConvs, p), handled \subseteq handled'
  PROVE  EngineGrows /\ Owns(pkeConvs', Len(pkeConvs) + 1, p)
  <1>1. /\ Len(pkeConvs') = Len(pkeConvs) + 1 /\ Len(pkeConvs) \in Nat
        /\ \A i \in 1 .. Len(pkeConvs) : pkeConvs'[i] = pkeConvs[i]
        /\ pkeConvs'[Len(pkeConvs) + 1] = p
    BY AppendProperties DEF EngineShape
  <1>2. \A c, o : Owns(pkeConvs, c, o) => Owns(pkeConvs', c, o)
    BY <1>1 DEF Owns
  <1>3. Owns(pkeConvs', Len(pkeConvs) + 1, p)
    BY <1>1 DEF Owns
  <1>4. QED
    BY <1>2, <1>3 DEF EngineGrows, Did

LinkInv == BindingsInv /\ RepliesInv

LEMMA InitLinkInv == Init => LinkInv
  BY DEF Init, LinkInv, BindingsInv, RepliesInv, Busy

\* A thread is where it was or further in logging a turn, with what it holds.
Stays(t) ==
  /\ pc'[t] = pc[t] \/ (pc[t] = "user" /\ pc'[t] = "assistant")
  /\ rec'[t] = rec[t] /\ own'[t] = own[t] /\ rid'[t] = rid[t] /\ got'[t] = got[t]

LEMMA ForgetStays ==
  ASSUME ThreadShape, NEW T \in SUBSET Threads, Forget(T), NEW t \in Threads
  PROVE  ~ Busy(t)' \/ Stays(t)
  BY ForgetFacts DEF Busy, Stays

\* The store of jamesCore keeps its bindings, and nothing is sent or answered.
LEMMA QuietLinks ==
  ASSUME LinkInv,
         james' = james, rids' = rids, pkeConvs' = pkeConvs, handled' = handled,
         inflight' = inflight, replies' \subseteq replies,
         \A t \in Threads : ~ Busy(t)' \/ Stays(t)
  PROVE  LinkInv'
  <1>1. BindingsInv'
    BY DEF LinkInv, BindingsInv, Busy, Stays
  <1>2. RepliesInv'
    BY DEF LinkInv, RepliesInv, Busy, Stays
  <1>3. QED
    BY <1>1, <1>2 DEF LinkInv

LEMMA NextLinkInv == ShapeInv /\ LinkInv /\ [Next]_vars => LinkInv'
  <1> SUFFICES ASSUME ShapeInv, LinkInv, [Next]_vars PROVE LinkInv'
    OBVIOUS
  <1>0. ThreadShape /\ CountShape /\ EngineShape /\ StoreShape
    BY DEF ShapeInv, Shape
  <1>1. ASSUME NEW t \in Threads, NEW p \in Principals, NEW id \in 0 .. MaxConvs,
               Receive(t, p, id)
        PROVE  LinkInv'
    <2> DEFINE conv == [owner |-> p, pke |-> 0]
    <2>1. /\ \/ Found(p, id) /\ james' = james
                  /\ rec' = [rec EXCEPT ![t] = [id |-> id, pke |-> james[id].pke, owner |-> p]]
             \/ /\ james' = Append(james, conv)
                /\ rec' = [rec EXCEPT ![t] = [id |-> Len(james) + 1, pke |-> NoConv, owner |-> p]]
          /\ pc' \in {[pc EXCEPT ![t] = "social"], [pc EXCEPT ![t] = "ensure"]}
          /\ own' = [own EXCEPT ![t] = turns + 1]
          /\ UNCHANGED <<rids, pkeConvs, handled, inflight, replies, rid, got>>
      BY <1>1 DEF Receive, Goto, engine, NoConv
    <2>2. EngineGrows
      BY <2>1, KeptGrows
    <2>3. \A u \in Threads \ {t} :
            pc'[u] = pc[u] /\ rec'[u] = rec[u] /\ own'[u] = own[u]
      BY <2>1, <1>0 DEF ThreadShape
    <2>4. pc'[t] \in {"social", "ensure"}
      BY <2>1, <1>0 DEF ThreadShape
    <2>5. RepliesInv'
      BY <2>1, <2>2, <2>3, <2>4 DEF LinkInv, RepliesInv, EngineGrows
    <2>6. conv \in Convs
      BY DEF Convs
    <2>7. \A c \in 1 .. Len(james') :
            james'[c].pke # NoConv => c \in 1 .. Len(james) /\ james'[c] = james[c]
      <3>1. CASE james' = james
        BY <3>1
      <3>2. CASE james' = Append(james, conv)
        <4>1. /\ Len(james') = Len(james) + 1 /\ james'[Len(james) + 1] = conv
              /\ Len(james) \in Nat
              /\ \A i \in 1 .. Len(james) : james'[i] = james[i]
          BY <3>2, <2>6, <1>0, AppendProperties DEF StoreShape
        <4>2. conv.pke = NoConv
          BY DEF NoConv
        <4> QED
          BY <4>1, <4>2
      <3>3. QED
        BY <2>1, <3>1, <3>2
    <2>8. rec'[t].pke # NoConv => Owns(pkeConvs, rec'[t].pke, rec'[t].owner)
      <3>1. pkeConvs' = pkeConvs
        BY <2>1
      <3>2. rec' = [rec EXCEPT ![t] = rec'[t]] /\ t \in DOMAIN rec
        BY <2>1, <1>0 DEF ThreadShape
      <3>3. CASE Found(p, id) /\ rec' = [rec EXCEPT ![t] = [id |-> id, pke |-> james[id].pke, owner |-> p]]
        <4>1. rec'[t] = [id |-> id, pke |-> james[id].pke, owner |-> p]
          BY <3>2, <3>3
        <4>2. rec'[t].pke = james[id].pke /\ rec'[t].owner = p
          BY <4>1
        <4>3. id \in 1 .. Len(james) /\ james[id].owner = p
          BY <3>3 DEF Found
        <4>4. james[id].pke # NoConv => Owns(pkeConvs, james[id].pke, james[id].owner)
          BY <4>3 DEF LinkInv, BindingsInv
        <4> QED
          BY <3>1, <4>2, <4>3, <4>4
      <3>4. CASE rec' = [rec EXCEPT ![t] = [id |-> Len(james) + 1, pke |-> NoConv, owner |-> p]]
        <4>1. rec'[t] = [id |-> Len(james) + 1, pke |-> NoConv, owner |-> p]
          BY <3>2, <3>4
        <4> QED
          BY <4>1
      <3>5. QED
        BY <2>1, <3>3, <3>4
    <2>9. BindingsInv'
      BY <2>1, <2>2, <2>3, <2>7, <2>8 DEF LinkInv, BindingsInv, EngineGrows, Busy
    <2>10. QED
      BY <2>5, <2>9 DEF LinkInv
  <1>2. ASSUME NEW t \in Threads, Social(t) PROVE LinkInv'
    <2>1. /\ UNCHANGED thread \/ Forget({t})
          /\ UNCHANGED <<james, rids, engine>>
      BY <1>2 DEF Social, Return
    <2>2. \A u \in Threads : ~ Busy(u)' \/ Stays(u)
      BY <2>1, <1>0, ForgetStays DEF thread, Stays
    <2>3. QED
      BY <2>1, <2>2, QuietLinks DEF engine
  <1>3. ASSUME NEW t \in Threads, Ensure(t) PROVE LinkInv'
    <2>1. rec[t].owner \in Principals /\ rec[t] \in Held /\ Busy(t)
      BY <1>3, <1>0, OwnerFacts DEF Busy, Ensure, ShapeInv, ThreadShape
    <2>2. /\ \/ pkeConvs' = pkeConvs /\ rec' = rec
             \/ /\ pkeConvs' = Append(pkeConvs, rec[t].owner)
                /\ \/ rec' = rec
                   \/ rec' = [rec EXCEPT ![t] = [rec[t] EXCEPT !.pke = Len(pkeConvs) + 1]]
          /\ pc' \in {[pc EXCEPT ![t] = "send"], [pc EXCEPT ![t] = "bind"]}
          /\ UNCHANGED <<james, rids, handled, inflight, replies, own, rid, got>>
      BY <1>3 DEF Ensure, Goto, store
    <2>3. EngineGrows /\ (pkeConvs' = pkeConvs \/ Owns(pkeConvs', Len(pkeConvs) + 1, rec[t].owner))
      BY <2>1, <2>2, <1>0, KeptGrows, AppendedGrows
    <2>4. /\ [rec[t] EXCEPT !.pke = Len(pkeConvs) + 1].owner = rec[t].owner
          /\ [rec[t] EXCEPT !.pke = Len(pkeConvs) + 1].pke = Len(pkeConvs) + 1
      BY <2>1 DEF Held
    <2>5. /\ \A u \in Threads \ {t} : pc'[u] = pc[u] /\ rec'[u] = rec[u]
          /\ pc'[t] \in {"send", "bind"}
          /\ rec'[t].pke # NoConv => Owns(pkeConvs', rec'[t].pke, rec'[t].owner)
      <3>1. CASE rec' = rec
        BY <2>1, <2>2, <2>3, <3>1, <1>0 DEF LinkInv, BindingsInv, EngineGrows, ThreadShape
      <3>2. CASE rec' # rec
        <4>1. /\ rec' = [rec EXCEPT ![t] = [rec[t] EXCEPT !.pke = Len(pkeConvs) + 1]]
              /\ Owns(pkeConvs', Len(pkeConvs) + 1, rec[t].owner)
          BY <2>1, <2>2, <3>2, <1>0, AppendedGrows
        <4>2. rec'[t] = [rec[t] EXCEPT !.pke = Len(pkeConvs) + 1]
              /\ \A u \in Threads \ {t} : rec'[u] = rec[u]
          BY <4>1, <1>0 DEF ThreadShape
        <4>3. /\ \A u \in Threads \ {t} : pc'[u] = pc[u]
              /\ pc'[t] \in {"send", "bind"}
          BY <2>2, <1>0 DEF ThreadShape
        <4>4. Owns(pkeConvs', rec'[t].pke, rec'[t].owner)
          BY <4>1, <4>2, <2>4 DEF Owns
        <4>5. QED
          BY <4>2, <4>3, <4>4
      <3>3. QED
        BY <3>1, <3>2
    <2>6. BindingsInv'
      BY <2>2, <2>3, <2>5 DEF LinkInv, BindingsInv, EngineGrows, Busy, Owns
    <2>7. RepliesInv'
      BY <2>2, <2>3, <2>5 DEF LinkInv, RepliesInv, EngineGrows
    <2>8. QED
      BY <2>6, <2>7 DEF LinkInv
  <1>4. ASSUME NEW t \in Threads, Bind(t) PROVE LinkInv'
    <2>1. Recorded(t) /\ rec[t].pke \in Nat /\ Busy(t)
      BY <1>4, <1>0 DEF Bind, Busy, ShapeInv, ThreadShape, Held
    <2>2. /\ Len(james') = Len(james) /\ james'[rec[t].id].pke = rec[t].pke
          /\ james'[rec[t].id].owner = james[rec[t].id].owner
          /\ \A d \in 1 .. Len(james) \ {rec[t].id} : james'[d] = james[d]
      BY <1>4, <1>0, <2>1, BindingFacts DEF Bind, Recorded
    <2>3. /\ pc' = [pc EXCEPT ![t] = "send"]
          /\ UNCHANGED <<rids, pkeConvs, handled, inflight, replies, rec, own, rid, got>>
      BY <1>4 DEF Bind, Goto, engine
    <2>4. EngineGrows
      BY <2>3, KeptGrows
    <2>5. pc'[t] = "send" /\ \A u \in Threads \ {t} : pc'[u] = pc[u]
      BY <2>3, <1>0 DEF ThreadShape
    <2>6. BindingsInv'
      BY <2>1, <2>2, <2>3, <2>4, <2>5 DEF LinkInv, BindingsInv, EngineGrows, Busy, Recorded
    <2>7. RepliesInv'
      BY <2>3, <2>4, <2>5 DEF LinkInv, RepliesInv, EngineGrows
    <2>8. QED
      BY <2>6, <2>7 DEF LinkInv
  <1>5. ASSUME NEW t \in Threads, Send(t) PROVE LinkInv'
    <2> DEFINE q == [rid |-> rids + 1, turn |-> own[t], conv |-> rec[t].pke,
                     owner |-> rec[t].owner]
    <2>1. /\ pc' = [pc EXCEPT ![t] = "sent"] /\ rids' = rids + 1
          /\ rid' = [rid EXCEPT ![t] = rids + 1] /\ inflight' = inflight \cup {q} /\ Busy(t)
          /\ UNCHANGED <<james, pkeConvs, handled, replies, rec, own, got>>
      BY <1>5 DEF Send, Goto, store, Busy
    <2>2. q.rid = rids + 1 /\ q.turn = own[t] /\ q.conv = rec[t].pke /\ q.owner = rec[t].owner
      OBVIOUS
    <2> HIDE DEF q
    <2>3. EngineGrows
      BY <2>1, KeptGrows
    <2>4. /\ pc'[t] = "sent" /\ rid'[t] = rids + 1
          /\ \A u \in Threads \ {t} : pc'[u] = pc[u] /\ rid'[u] = rid[u]
      BY <2>1, <1>0 DEF ThreadShape
    <2>5. /\ rids \in Nat /\ \A x \in inflight \cup replies : x.rid \in Nat
          /\ \A u \in Threads : rid[u] \in Nat
      BY <1>0 DEF CountShape, EngineShape, Requests, Answers, ThreadShape
    <2>6. BindingsInv'
      BY <2>1, <2>2, <2>3, <2>4 DEF LinkInv, BindingsInv, EngineGrows, Busy
    <2>7. RepliesInv'
      BY <2>1, <2>2, <2>3, <2>4, <2>5 DEF LinkInv, RepliesInv, EngineGrows
    <2>8. QED
      BY <2>6, <2>7 DEF LinkInv
  <1>6. ASSUME NEW t \in Threads, Timeout(t) PROVE LinkInv'
    <2>1. Forget({t}) /\ UNCHANGED <<james, rids, engine>>
      BY <1>6 DEF Timeout, Return, store
    <2>2. \A u \in Threads : ~ Busy(u)' \/ Stays(u)
      BY <2>1, <1>0, ForgetStays
    <2>3. QED
      BY <2>1, <2>2, QuietLinks DEF engine
  <1>7. ASSUME NEW t \in Threads, NEW m \in replies, Reply(t, m) PROVE LinkInv'
    <2>1. /\ pc[t] = "sent" /\ m.rid = rid[t] /\ replies' \subseteq replies
          /\ UNCHANGED <<james, rids, pkeConvs, handled, inflight>>
          /\ \/ Forget({t})
             \/ /\ m.kind # "failed"
                /\ got' = [got EXCEPT ![t] = [kind |-> m.kind, conv |-> m.conv]]
                /\ pc' \in {[pc EXCEPT ![t] = "rebind"], [pc EXCEPT ![t] = "user"]}
                /\ UNCHANGED <<rec, own, rid>>
      BY <1>7 DEF Reply, Return, Goto, store, Shown
    <2>2. EngineGrows
      BY <2>1, KeptGrows
    <2>3. CASE Forget({t})
      <3>1. \A u \in Threads : ~ Busy(u)' \/ Stays(u)
        BY <2>3, <1>0, ForgetStays
      <3>2. QED
        BY <2>1, <3>1, QuietLinks
    <2>4. CASE ~ Forget({t})
      <3>1. /\ got'[t].conv = m.conv /\ pc'[t] \in {"rebind", "user"}
            /\ \A u \in Threads \ {t} : pc'[u] = pc[u] /\ got'[u] = got[u]
        BY <2>1, <2>4, <1>0 DEF ThreadShape
      <3>2. Owns(pkeConvs, m.conv, rec[t].owner) /\ Did(handled, own[t], m.conv)
        BY <2>1, <2>4 DEF LinkInv, RepliesInv
      <3>3. BindingsInv'
        BY <2>1, <2>2, <2>4, <3>1 DEF LinkInv, BindingsInv, EngineGrows, Busy
      <3>4. RepliesInv'
        BY <2>1, <2>2, <2>4, <3>1, <3>2 DEF LinkInv, RepliesInv, EngineGrows
      <3>5. QED
        BY <3>3, <3>4 DEF LinkInv
    <2>5. QED
      BY <2>3, <2>4
  <1>8. ASSUME NEW t \in Threads, Rebind(t) PROVE LinkInv'
    <2>1. Recorded(t) /\ got[t].conv \in Nat /\ Busy(t) /\ rec[t] \in Held
      BY <1>8, <1>0 DEF Rebind, Busy, ShapeInv, ThreadShape, Gotten
    <2>2. /\ Len(james') = Len(james) /\ james'[rec[t].id].pke = got[t].conv
          /\ james'[rec[t].id].owner = james[rec[t].id].owner
          /\ \A d \in 1 .. Len(james) \ {rec[t].id} : james'[d] = james[d]
      BY <1>8, <1>0, <2>1, BindingFacts DEF Rebind, Recorded
    <2>3. /\ pc' = [pc EXCEPT ![t] = "user"] /\ pc[t] = "rebind"
          /\ rec' = [rec EXCEPT ![t] = [rec[t] EXCEPT !.pke = got[t].conv]]
          /\ UNCHANGED <<rids, pkeConvs, handled, inflight, replies, own, rid, got>>
      BY <1>8 DEF Rebind, Goto, engine
    <2>4. EngineGrows
      BY <2>3, KeptGrows
    <2>5. [rec[t] EXCEPT !.pke = got[t].conv].owner = rec[t].owner
          /\ [rec[t] EXCEPT !.pke = got[t].conv].pke = got[t].conv
      BY <2>1 DEF Held
    <2>6. /\ pc'[t] = "user" /\ rec'[t].owner = rec[t].owner /\ rec'[t].pke = got[t].conv
          /\ \A u \in Threads \ {t} : pc'[u] = pc[u] /\ rec'[u] = rec[u]
      BY <2>3, <2>5, <1>0 DEF ThreadShape
    <2>7. Owns(pkeConvs, got[t].conv, rec[t].owner) /\ Did(handled, own[t], got[t].conv)
      BY <2>3 DEF LinkInv, RepliesInv
    <2>8. BindingsInv'
      BY <2>1, <2>2, <2>3, <2>4, <2>6, <2>7 DEF LinkInv, BindingsInv, EngineGrows, Busy, Recorded
    <2>9. RepliesInv'
      BY <2>3, <2>4, <2>6, <2>7 DEF LinkInv, RepliesInv, EngineGrows
    <2>10. QED
      BY <2>8, <2>9 DEF LinkInv
  <1>9. ASSUME NEW t \in Threads, LogUser(t) PROVE LinkInv'
    <2>1. /\ pc[t] = "user" /\ pc' = [pc EXCEPT ![t] = "assistant"]
          /\ UNCHANGED <<james, rids, engine, rec, own, rid, got>>
      BY <1>9 DEF LogUser, Goto
    <2>2. \A u \in Threads : Stays(u)
      BY <2>1, <1>0 DEF ThreadShape, Stays
    <2>3. QED
      BY <2>1, <2>2, QuietLinks DEF engine
  <1>10. ASSUME NEW t \in Threads, LogAssistant(t) PROVE LinkInv'
    <2>1. Forget({t}) /\ UNCHANGED <<james, rids, engine>>
      BY <1>10 DEF LogAssistant, Return
    <2>2. \A u \in Threads : ~ Busy(u)' \/ Stays(u)
      BY <2>1, <1>0, ForgetStays
    <2>3. QED
      BY <2>1, <2>2, QuietLinks DEF engine
  <1>11. ASSUME NEW q \in inflight, Refuse(q) PROVE LinkInv'
    <2>1. /\ inflight' \subseteq inflight
          /\ replies' = replies \cup {[rid |-> q.rid, kind |-> "failed", conv |-> NoConv]}
          /\ UNCHANGED <<james, rids, pkeConvs, handled, thread>>
      BY <1>11 DEF Refuse, store
    <2>2. EngineGrows
      BY <2>1, KeptGrows
    <2>3. BindingsInv'
      BY <2>1, <2>2 DEF LinkInv, BindingsInv, EngineGrows, Busy, thread
    <2>4. RepliesInv'
      BY <2>1, <2>2 DEF LinkInv, RepliesInv, EngineGrows, thread
    <2>5. QED
      BY <2>3, <2>4 DEF LinkInv
  <1>12. ASSUME NEW q \in inflight, NEW kind \in Kinds, Handle(q, kind) PROVE LinkInv'
    <2> DEFINE conv == IF q.conv = NoConv THEN Len(pkeConvs) + 1 ELSE q.conv
    <2>1. q.owner \in Principals
      BY <1>0 DEF EngineShape, Requests
    <2>2. PICK h, m : /\ h.turn = q.turn /\ h.conv = conv
                      /\ m.rid = q.rid /\ m.kind = kind /\ m.conv = conv
                      /\ handled' = handled \cup {h} /\ replies' = replies \cup {m}
      <3>1. /\ handled' = handled \cup {[rid |-> q.rid, turn |-> q.turn, conv |-> conv]}
            /\ replies' = replies \cup {[rid |-> q.rid, kind |-> kind, conv |-> conv]}
        BY <1>12 DEF Handle
      <3> HIDE DEF conv
      <3>2. QED
        BY <3>1
    <2>3. /\ pkeConvs' = IF q.conv = NoConv THEN Append(pkeConvs, q.owner) ELSE pkeConvs
          /\ inflight' = inflight \ {q}
          /\ UNCHANGED <<james, rids, pc, rec, own, rid, got>>
      BY <1>12 DEF Handle, store, thread
    <2>4. EngineGrows /\ Owns(pkeConvs', conv, q.owner)
      <3>1. CASE q.conv = NoConv
        BY <2>1, <2>2, <2>3, <3>1, <1>0, AppendedGrows
      <3>2. CASE q.conv # NoConv
        <4>1. pkeConvs' = pkeConvs /\ Owns(pkeConvs, q.conv, q.owner)
          BY <2>3, <3>2 DEF LinkInv, BindingsInv
        <4>2. QED
          BY <4>1, <2>2, <3>2 DEF EngineGrows, Owns, Did
      <3>3. QED
        BY <3>1, <3>2
    <2>5. Did(handled', q.turn, conv)
      BY <2>2 DEF Did
    <2> HIDE DEF conv
    <2>6. BindingsInv'
      BY <2>3, <2>4 DEF LinkInv, BindingsInv, EngineGrows, Busy
    <2>7. \A x \in inflight' \cup replies' : x.rid <= rids'
      BY <2>2, <2>3 DEF LinkInv, RepliesInv
    <2>8. ASSUME NEW u \in Threads, pc'[u] = "sent"
          PROVE  /\ rid'[u] <= rids'
                 /\ \A x \in inflight' : x.rid = rid'[u] =>
                      x.turn = own'[u] /\ x.owner = rec'[u].owner
                 /\ \A a \in replies' : a.rid = rid'[u] /\ a.kind # "failed" =>
                      Owns(pkeConvs', a.conv, rec'[u].owner) /\ Did(handled', own'[u], a.conv)
      <3>1. /\ rid[u] <= rids
            /\ \A x \in inflight : x.rid = rid[u] => x.turn = own[u] /\ x.owner = rec[u].owner
            /\ \A a \in replies : a.rid = rid[u] /\ a.kind # "failed" =>
                 Owns(pkeConvs, a.conv, rec[u].owner) /\ Did(handled, own[u], a.conv)
        BY <2>3, <2>8 DEF LinkInv, RepliesInv
      <3>2. ASSUME NEW a \in replies', a.rid = rid[u], a.kind # "failed"
            PROVE  Owns(pkeConvs', a.conv, rec[u].owner) /\ Did(handled', own[u], a.conv)
        <4>1. CASE a \in replies
          BY <3>1, <3>2, <4>1, <2>4 DEF EngineGrows
        <4>2. CASE a = m
          <5>1. q.turn = own[u] /\ q.owner = rec[u].owner
            BY <3>1, <3>2, <4>2, <2>2
          <5> QED
            BY <5>1, <4>2, <2>2, <2>4, <2>5
        <4> QED
          BY <2>2, <4>1, <4>2
      <3> QED
        BY <2>3, <3>1, <3>2
    <2>9. \A u, v \in Threads : pc'[u] = "sent" /\ pc'[v] = "sent" /\ rid'[u] = rid'[v] => u = v
      BY <2>3 DEF LinkInv, RepliesInv
    <2>10. \A u \in Threads : pc'[u] \in {"rebind", "user", "assistant"} =>
             Owns(pkeConvs', got'[u].conv, rec'[u].owner) /\ Did(handled', own'[u], got'[u].conv)
      BY <2>3, <2>4 DEF LinkInv, RepliesInv, EngineGrows
    <2>11. RepliesInv'
      BY <2>7, <2>8, <2>9, <2>10 DEF RepliesInv
    <2>12. QED
      BY <2>6, <2>11 DEF LinkInv
  <1>13. CASE Restart
    <2>1. Forget(Threads) /\ UNCHANGED <<james, rids, engine>>
      BY <1>13 DEF Restart, store
    <2>2. \A u \in Threads : ~ Busy(u)' \/ Stays(u)
      BY <2>1, <1>0, ForgetStays
    <2>3. QED
      BY <2>1, <2>2, QuietLinks DEF engine
  <1>14. CASE UNCHANGED vars
    BY <1>14, QuietLinks DEF vars, store, engine, thread, Stays
  <1>15. QED
    BY <1>1, <1>2, <1>3, <1>4, <1>5, <1>6, <1>7, <1>8, <1>9, <1>10, <1>11,
       <1>12, <1>13, <1>14 DEF Next, Step, Engine

-----------------------------------------------------------------------------
(* Every row of the transcript is backed.                                  *)

\* The row a is the user's, of the turn of r.
Asks(a, r) == a.role = "user" /\ a.conv = r.conv /\ a.turn = r.turn /\ a.social = r.social

RowInv(i) ==
  /\ log[i].turn <= turns /\ log[i].conv \in 1 .. Len(james)
  /\ log[i].role = "assistant" => \E j \in 1 .. i - 1 : Asks(log[j], log[i])
  /\ ~ log[i].social =>
       \E c : Did(handled, log[i].turn, c) /\ Owns(pkeConvs, c, james[log[i].conv].owner)

\* A thread that logs a social turn has logged no other row for it, and one
\* that is about to log a reply has logged the message.
ThreadLogs(t) ==
  /\ pc[t] = "assistant" => \E j \in 1 .. Len(log) : log[j] = Row(t, "user", FALSE)
  /\ pc[t] = "social" =>
       \A i \in 1 .. Len(log) : log[i].turn = own[t] => log[i].conv = rec[t].id /\ log[i].social

LogInv ==
  /\ \A i \in 1 .. Len(log) : RowInv(i)
  /\ \A t \in Threads : ThreadLogs(t)

LEMMA InitLogInv == Init => LogInv
  BY DEF Init, LogInv, ThreadLogs

\* Owners stay, and the turns asked for are counted up.
StoreGrows ==
  /\ Len(james') \in Nat /\ Len(james) <= Len(james')
  /\ turns' \in Nat /\ turns <= turns'
  /\ \A c \in 1 .. Len(james) : james'[c].owner = james[c].owner

LEMMA NextGrows == ShapeInv /\ LinkInv /\ [Next]_vars => EngineGrows /\ StoreGrows
  <1> SUFFICES ASSUME ShapeInv, LinkInv, [Next]_vars PROVE EngineGrows /\ StoreGrows
    OBVIOUS
  <1>0. ThreadShape /\ CountShape /\ EngineShape /\ StoreShape
    BY DEF ShapeInv, Shape
  <1>1. ASSUME james' = james, turns' = turns PROVE StoreGrows
    BY <1>0, <1>1 DEF StoreGrows, CountShape, StoreShape
  <1>2. ASSUME NEW t \in Threads, NEW p \in Principals, NEW id \in 0 .. MaxConvs,
               Receive(t, p, id)
        PROVE  EngineGrows /\ StoreGrows
    <2> DEFINE conv == [owner |-> p, pke |-> 0]
    <2>1. /\ james' = james \/ james' = Append(james, conv)
          /\ turns' = turns + 1 /\ UNCHANGED <<pkeConvs, handled>>
      BY <1>2 DEF Receive, engine, NoConv
    <2>2. conv \in Convs
      BY DEF Convs
    <2> HIDE DEF conv
    <2>3. StoreGrows
      BY <2>1, <2>2, <1>0, AppendProperties DEF StoreShape, StoreGrows, CountShape
    <2>4. QED
      BY <2>1, <2>3, KeptGrows
  <1>3. ASSUME NEW t \in Threads, Ensure(t) PROVE EngineGrows /\ StoreGrows
    <2>1. rec[t].owner \in Principals
      BY <1>3, <1>0, OwnerFacts DEF Busy, Ensure, ShapeInv
    <2>2. /\ pkeConvs' = pkeConvs \/ pkeConvs' = Append(pkeConvs, rec[t].owner)
          /\ handled' = handled /\ james' = james /\ turns' = turns
      BY <1>3 DEF Ensure, store
    <2>3. QED
      BY <2>1, <2>2, <1>0, <1>1, KeptGrows, AppendedGrows
  <1>4. ASSUME NEW t \in Threads, Bind(t) \/ Rebind(t) PROVE EngineGrows /\ StoreGrows
    <2>1. rec[t].id \in 1 .. Len(james) /\ rec[t].pke \in Nat /\ got[t].conv \in Nat
      BY <1>4, <1>0 DEF Bind, Rebind, Busy, Recorded, ShapeInv, ThreadShape, Held, Gotten
    <2>2. /\ \/ james' = [james EXCEPT ![rec[t].id].pke = rec[t].pke]
             \/ james' = [james EXCEPT ![rec[t].id].pke = got[t].conv]
          /\ UNCHANGED <<turns, pkeConvs, handled>>
      BY <1>4 DEF Bind, Rebind, engine
    <2>3. Len(james') = Len(james) /\ \A d \in 1 .. Len(james) : james'[d].owner = james[d].owner
      BY <2>1, <2>2, <1>0, BindingFacts
    <2>4. QED
      BY <2>2, <2>3, <1>0, KeptGrows DEF StoreGrows, CountShape, StoreShape
  <1>5. ASSUME NEW q \in inflight, NEW kind \in Kinds, Handle(q, kind)
        PROVE  EngineGrows /\ StoreGrows
    <2>1. q.owner \in Principals
      BY <1>0 DEF EngineShape, Requests
    <2>2. /\ pkeConvs' = pkeConvs \/ pkeConvs' = Append(pkeConvs, q.owner)
          /\ handled \subseteq handled' /\ james' = james /\ turns' = turns
      BY <1>5 DEF Handle, store
    <2>3. QED
      BY <2>1, <2>2, <1>0, <1>1, AppendedGrows DEF EngineGrows, Owns, Did
  <1>6. ASSUME UNCHANGED <<james, turns, pkeConvs, handled>> PROVE EngineGrows /\ StoreGrows
    BY <1>1, <1>6, KeptGrows
  <1>7. ASSUME NEW t \in Threads,
               \/ Social(t) \/ Send(t) \/ Timeout(t) \/ \E m \in replies : Reply(t, m)
               \/ LogUser(t) \/ LogAssistant(t)
        PROVE  EngineGrows /\ StoreGrows
    BY <1>6, <1>7 DEF Social, Send, Timeout, Reply, LogUser, LogAssistant, store, engine
  <1>8. CASE Restart \/ (\E q \in inflight : Refuse(q)) \/ UNCHANGED vars
    BY <1>6, <1>8 DEF Restart, Refuse, store, engine, vars
  <1>9. QED
    BY <1>2, <1>3, <1>4, <1>5, <1>7, <1>8 DEF Next, Step, Engine

\* The log is as it was, and who logs is where it was or starts a turn.
LEMMA QuietLog ==
  ASSUME ShapeInv, LogInv, EngineGrows, StoreGrows, log' = log,
         \A t \in Threads :
           \/ pc'[t] \notin {"assistant", "social"}
           \/ pc'[t] = pc[t] /\ rec'[t].id = rec[t].id /\ own'[t] = own[t]
           \/ pc'[t] = "social" /\ own'[t] = turns + 1
  PROVE  LogInv'
  <1>0. /\ turns \in Nat /\ turns' \in Int /\ Len(james) \in Nat /\ Len(james') \in Int
        /\ \A i \in 1 .. Len(log) : log[i].turn \in Nat /\ log[i].conv \in Nat
    <2>1. \A i \in 1 .. Len(log) : log[i] \in LogRows
      BY DEF ShapeInv, Shape, StoreShape
    <2>2. \A i \in 1 .. Len(log) : log[i].turn \in Nat /\ log[i].conv \in Nat
      BY <2>1 DEF LogRows
    <2>3. QED
      BY <2>2 DEF ShapeInv, Shape, StoreShape, CountShape, StoreGrows
  <1>1. ASSUME NEW i \in 1 .. Len(log) PROVE RowInv(i)'
    <2>1. RowInv(i)
      BY DEF LogInv
    <2>2. log[i].turn <= turns' /\ log[i].conv \in 1 .. Len(james')
      BY <1>0, <2>1 DEF RowInv, StoreGrows
    <2>3. \A c : /\ Did(handled, log[i].turn, c) => Did(handled', log[i].turn, c)
                 /\ Owns(pkeConvs, c, james[log[i].conv].owner) =>
                      Owns(pkeConvs', c, james'[log[i].conv].owner)
      BY <2>1 DEF RowInv, StoreGrows, EngineGrows
    <2>4. QED
      BY <2>1, <2>2, <2>3 DEF RowInv
  <1>2. ASSUME NEW t \in Threads PROVE ThreadLogs(t)'
    <2>1. ThreadLogs(t)
      BY DEF LogInv
    <2>2. CASE pc'[t] = "social" /\ own'[t] = turns + 1
      <3>1. \A i \in 1 .. Len(log) : log[i].turn <= turns /\ log[i].turn \in Nat
        BY <1>0 DEF LogInv, RowInv
      <3>2. QED
        BY <1>0, <2>2, <3>1 DEF ThreadLogs
    <2>3. QED
      BY <2>1, <2>2 DEF ThreadLogs, Row
  <1>3. QED
    BY <1>1, <1>2 DEF LogInv

\* A row is appended, backed like the others, by the thread whose turn it is.
LEMMA LoudLog ==
  ASSUME ShapeInv, OnceInv, LogInv, NEW t \in Threads, NEW r \in LogRows,
         Busy(t), r.turn = own[t], r.conv = rec[t].id,
         UNCHANGED <<james, turns, pkeConvs, handled>>, log' = Append(log, r),
         r.role = "assistant" => \E j \in 1 .. Len(log) : Asks(log[j], r),
         ~ r.social =>
           \E c : Did(handled, r.turn, c) /\ Owns(pkeConvs, c, james[r.conv].owner),
         \/ pc'[t] = "idle"
         \/ r.role = "user" /\ rec'[t] = rec[t] /\ own'[t] = own[t]
              /\ pc'[t] = IF r.social THEN "social" ELSE "assistant",
         r.social => pc[t] = "social",
         \A u \in Threads \ {t} : pc'[u] = pc[u] /\ rec'[u] = rec[u] /\ own'[u] = own[u]
  PROVE  LogInv'
  <1>0. /\ log \in Seq(LogRows) /\ turns \in Nat /\ rec[t].id \in 1 .. Len(james)
        /\ own[t] <= turns /\ Len(log) \in Nat
    BY DEF ShapeInv, Shape, StoreShape, CountShape, Recorded, OnceInv, OwnTurns
  <1>1. /\ Len(log') = Len(log) + 1 /\ log'[Len(log) + 1] = r
        /\ \A i \in 1 .. Len(log) : log'[i] = log[i]
        /\ \A i \in 1 .. Len(log') : i \in 1 .. Len(log) \/ i = Len(log) + 1
    BY <1>0, AppendProperties
  <1>2. ASSUME NEW i \in 1 .. Len(log) PROVE RowInv(i)'
    <2>1. RowInv(i)
      BY DEF LogInv
    <2>2. \A j \in 1 .. i : log'[j] = log[j]
      BY <1>0, <1>1
    <2>3. QED
      <3>1. log'[i] = log[i] /\ \A j \in 1 .. i - 1 : log'[j] = log[j]
        BY <1>0, <2>2
      <3>2. QED
        BY <2>1, <3>1 DEF RowInv
  <1>3. ASSUME NEW n \in Nat, n = Len(log) + 1 PROVE RowInv(n)'
    <2>1. log'[n] = r /\ r.turn <= turns' /\ r.conv \in 1 .. Len(james')
      BY <1>0, <1>1, <1>3
    <2>2. r.role = "assistant" => \E j \in 1 .. n - 1 : Asks(log'[j], r)
      BY <1>0, <1>1, <1>3
    <2>3. ~ r.social =>
            \E c : Did(handled', r.turn, c) /\ Owns(pkeConvs', c, james'[r.conv].owner)
      OBVIOUS
    <2>4. QED
      BY <2>1, <2>2, <2>3 DEF RowInv
  <1>4. ASSUME NEW u \in Threads \ {t} PROVE ThreadLogs(u)'
    <2>1. ThreadLogs(u) /\ (Busy(u) => own[u] # own[t])
      BY DEF LogInv, OnceInv, OwnTurns
    <2>2. pc'[u] = "assistant" => \E j \in 1 .. Len(log') : log'[j] = Row(u, "user", FALSE)'
      <3>1. ASSUME NEW j \in 1 .. Len(log), log[j] = Row(u, "user", FALSE)
            PROVE  j \in 1 .. Len(log') /\ log'[j] = Row(u, "user", FALSE)'
        <4>1. Row(u, "user", FALSE)' = Row(u, "user", FALSE)
          BY DEF Row
        <4>2. /\ j \in 1 .. Len(log) => log'[j] = log[j]
              /\ j \in 1 .. Len(log) => j \in 1 .. Len(log')
          BY <1>0, <1>1
        <4>3. QED
          BY <3>1, <4>1, <4>2
      <3>2. QED
        BY <2>1, <3>1 DEF ThreadLogs
    <2>3. ASSUME pc'[u] = "social", NEW i \in 1 .. Len(log'), log'[i].turn = own'[u]
          PROVE  log'[i].conv = rec'[u].id /\ log'[i].social
      <3>1. i \in 1 .. Len(log)
        BY <1>1, <2>1, <2>3 DEF Busy
      <3>2. QED
        BY <1>1, <2>1, <2>3, <3>1 DEF ThreadLogs
    <2>4. QED
      BY <2>2, <2>3 DEF ThreadLogs
  <1>5. ThreadLogs(t)'
    <2>1. CASE pc'[t] = "idle"
      BY <2>1 DEF ThreadLogs
    <2>2. CASE pc'[t] = "social" /\ r.social /\ own'[t] = own[t] /\ rec'[t] = rec[t]
      <3>1. ThreadLogs(t) /\ pc[t] = "social"
        BY <2>2 DEF LogInv
      <3>2. ASSUME NEW i \in 1 .. Len(log'), log'[i].turn = own[t]
            PROVE  log'[i].conv = rec[t].id /\ log'[i].social
        BY <1>1, <2>2, <3>1, <3>2 DEF ThreadLogs
      <3>3. QED
        BY <2>2, <3>2 DEF ThreadLogs
    <2>3. CASE /\ pc'[t] = "assistant" /\ ~ r.social /\ r.role = "user"
               /\ own'[t] = own[t] /\ rec'[t] = rec[t]
      <3>1. r = Row(t, "user", FALSE)'
        BY <2>3 DEF Row, LogRows
      <3>2. Len(log) + 1 \in 1 .. Len(log')
        BY <1>0, <1>1
      <3>3. QED
        BY <1>1, <2>3, <3>1, <3>2 DEF ThreadLogs
    <2>4. QED
      BY <2>1, <2>2, <2>3
  <1>6. \A i \in 1 .. Len(log') : RowInv(i)'
    BY <1>0, <1>1, <1>2, <1>3
  <1>7. QED
    BY <1>4, <1>5, <1>6 DEF LogInv

LEMMA NextLogInv == ShapeInv /\ OnceInv /\ LinkInv /\ LogInv /\ [Next]_vars => LogInv'
  <1> SUFFICES ASSUME ShapeInv, OnceInv, LinkInv, LogInv, [Next]_vars PROVE LogInv'
    OBVIOUS
  <1>0. ThreadShape /\ CountShape /\ EngineShape /\ StoreShape
    BY DEF ShapeInv, Shape
  <1>g. EngineGrows /\ StoreGrows
    BY NextGrows
  <1>1. ASSUME NEW t \in Threads, NEW p \in Principals, NEW id \in 0 .. MaxConvs,
               Receive(t, p, id)
        PROVE  LogInv'
    <2>1. /\ pc' \in {[pc EXCEPT ![t] = "social"], [pc EXCEPT ![t] = "ensure"]}
          /\ own' = [own EXCEPT ![t] = turns + 1] /\ log' = log
          /\ \E r : rec' = [rec EXCEPT ![t] = r]
      BY <1>1 DEF Receive, Goto
    <2>2. \A u \in Threads \ {t} : pc'[u] = pc[u] /\ rec'[u] = rec[u] /\ own'[u] = own[u]
      BY <2>1, <1>0 DEF ThreadShape
    <2>3. pc'[t] \in {"social", "ensure"} /\ own'[t] = turns + 1
      BY <2>1, <1>0 DEF ThreadShape
    <2>4. QED
      BY <2>1, <2>2, <2>3, <1>g, QuietLog
  <1>2. ASSUME NEW t \in Threads, Social(t) PROVE LogInv'
    <2> DEFINE asked == Row(t, "user", TRUE)
               reply == Row(t, "assistant", TRUE)
    <2>1. /\ pc[t] = "social" /\ Busy(t) /\ UNCHANGED <<james, turns, pkeConvs, handled>>
          /\ asked \in LogRows /\ reply \in LogRows
      BY <1>2, <1>0, RowShape DEF Social, engine, Busy, Roles
    <2>2. CASE ~ Logged(t, "user")
      <3>1. log' = Append(log, asked) /\ UNCHANGED thread
        BY <1>2, <2>2 DEF Social
      <3>2. /\ asked.turn = own[t] /\ asked.conv = rec[t].id /\ asked.role = "user" /\ asked.social
        BY DEF Row, Asks
      <3> HIDE DEF asked
      <3>3. QED
        BY <2>1, <3>1, <3>2, LoudLog DEF thread
    <2>3. CASE Logged(t, "user")
      <3>1. log' = Append(log, reply) /\ Forget({t})
        BY <1>2, <2>3 DEF Social, Return
      <3>2. pc'[t] = "idle"
            /\ \A u \in Threads \ {t} : pc'[u] = pc[u] /\ rec'[u] = rec[u] /\ own'[u] = own[u]
        BY <3>1, <1>0, ForgetFacts
      <3>3. \E j \in 1 .. Len(log) : log[j] = asked
        <4>1. PICK j \in 1 .. Len(log) : log[j].turn = own[t] /\ log[j].role = "user"
          BY <2>3 DEF Logged
        <4>2. log[j].conv = rec[t].id /\ log[j].social /\ log[j] \in LogRows
          <5>1. ThreadLogs(t)
            BY DEF LogInv
          <5>2. QED
            BY <2>1, <4>1, <5>1, <1>0 DEF ThreadLogs, StoreShape
        <4>3. log[j] = asked
          BY <4>1, <4>2 DEF Row, LogRows
        <4>4. QED
          BY <4>3
      <3>4. /\ reply.turn = own[t] /\ reply.conv = rec[t].id /\ reply.role = "assistant"
            /\ reply.social /\ Asks(asked, reply)
        BY DEF Row, Asks
      <3> HIDE DEF asked, reply
      <3>5. QED
        BY <2>1, <3>1, <3>2, <3>3, <3>4, LoudLog
    <2>4. QED
      BY <2>2, <2>3
  <1>3. ASSUME NEW t \in Threads, Ensure(t) PROVE LogInv'
    <2>1. /\ pc' \in {[pc EXCEPT ![t] = "send"], [pc EXCEPT ![t] = "bind"]}
          /\ own' = own /\ log' = log
          /\ \E r : rec' = [rec EXCEPT ![t] = r] \/ rec' = rec
      BY <1>3 DEF Ensure, Goto, store
    <2>2. \A u \in Threads \ {t} : pc'[u] = pc[u] /\ rec'[u] = rec[u] /\ own'[u] = own[u]
      BY <2>1, <1>0 DEF ThreadShape
    <2>3. pc'[t] \in {"send", "bind"}
      BY <2>1, <1>0 DEF ThreadShape
    <2>4. QED
      BY <2>1, <2>2, <2>3, <1>g, QuietLog
  <1>4. ASSUME NEW t \in Threads, Bind(t) \/ Send(t) PROVE LogInv'
    <2>1. /\ pc' \in {[pc EXCEPT ![t] = "send"], [pc EXCEPT ![t] = "sent"]}
          /\ UNCHANGED <<own, rec, log>>
      BY <1>4 DEF Bind, Send, Goto, store
    <2>2. QED
      BY <2>1, <1>0, <1>g, QuietLog DEF ThreadShape
  <1>5. ASSUME NEW t \in Threads, NEW m \in replies, Reply(t, m) PROVE LogInv'
    <2>1. /\ log' = log
          /\ \/ Forget({t})
             \/ /\ pc' \in {[pc EXCEPT ![t] = "rebind"], [pc EXCEPT ![t] = "user"]}
                /\ UNCHANGED <<rec, own>>
      BY <1>5 DEF Reply, Return, Goto, store
    <2>2. CASE Forget({t})
      BY <2>1, <2>2, <1>0, <1>g, ForgetFacts, QuietLog
    <2>3. CASE ~ Forget({t})
      BY <2>1, <2>3, <1>0, <1>g, QuietLog DEF ThreadShape
    <2>4. QED
      BY <2>2, <2>3
  <1>6. ASSUME NEW t \in Threads, Rebind(t) PROVE LogInv'
    <2>1. /\ pc' = [pc EXCEPT ![t] = "user"] /\ own' = own /\ log' = log
          /\ \E r : rec' = [rec EXCEPT ![t] = r]
      BY <1>6 DEF Rebind, Goto
    <2>2. pc'[t] = "user"
          /\ \A u \in Threads \ {t} : pc'[u] = pc[u] /\ rec'[u] = rec[u] /\ own'[u] = own[u]
      BY <2>1, <1>0 DEF ThreadShape
    <2>3. QED
      BY <2>1, <2>2, <1>g, QuietLog
  <1>7. ASSUME NEW t \in Threads, LogUser(t) \/ LogAssistant(t) PROVE LogInv'
    <2>1. /\ Busy(t) /\ UNCHANGED <<james, turns, pkeConvs, handled>>
          /\ Recorded(t)
          /\ \E c : Did(handled, own[t], c) /\ Owns(pkeConvs, c, rec[t].owner)
      BY <1>7 DEF LogUser, LogAssistant, engine, Busy, LinkInv, RepliesInv, ShapeInv
    <2>2. \E c : Did(handled, own[t], c) /\ Owns(pkeConvs, c, james[rec[t].id].owner)
      BY <2>1 DEF Recorded
    <2>3. CASE LogUser(t)
      <3> DEFINE asked == Row(t, "user", FALSE)
      <3>1. log' = Append(log, asked) /\ pc' = [pc EXCEPT ![t] = "assistant"]
            /\ UNCHANGED <<rec, own>>
        BY <2>3 DEF LogUser, Goto
      <3>2. pc'[t] = "assistant" /\ \A u \in Threads \ {t} : pc'[u] = pc[u]
        BY <3>1, <1>0 DEF ThreadShape
      <3>3. /\ asked \in LogRows /\ asked.turn = own[t] /\ asked.conv = rec[t].id
            /\ asked.role = "user" /\ ~ asked.social
        BY <1>0, RowShape DEF Roles, Row, Asks
      <3> HIDE DEF asked
      <3>4. QED
        BY <2>1, <2>2, <3>1, <3>2, <3>3, LoudLog
    <2>4. CASE LogAssistant(t)
      <3> DEFINE asked == Row(t, "user", FALSE)
                 reply == Row(t, "assistant", FALSE)
      <3>1. log' = Append(log, reply) /\ Forget({t}) /\ pc[t] = "assistant"
        BY <2>4 DEF LogAssistant, Return
      <3>2. pc'[t] = "idle"
            /\ \A u \in Threads \ {t} : pc'[u] = pc[u] /\ rec'[u] = rec[u] /\ own'[u] = own[u]
        BY <3>1, <1>0, ForgetFacts
      <3>3. \E j \in 1 .. Len(log) : log[j] = asked
        BY <3>1 DEF LogInv, ThreadLogs
      <3>4. /\ reply \in LogRows /\ reply.turn = own[t] /\ reply.conv = rec[t].id
            /\ reply.role = "assistant" /\ ~ reply.social
            /\ Asks(asked, reply)
        BY <1>0, RowShape DEF Roles, Row, Asks
      <3> HIDE DEF asked, reply
      <3>5. QED
        BY <2>1, <2>2, <3>1, <3>2, <3>3, <3>4, LoudLog
    <2>5. QED
      BY <1>7, <2>3, <2>4
  <1>8. ASSUME NEW t \in Threads, Timeout(t) PROVE LogInv'
    BY <1>8, <1>0, <1>g, ForgetFacts, QuietLog DEF Timeout, Return, store
  <1>9. CASE Restart
    BY <1>9, <1>0, <1>g, ForgetFacts, QuietLog DEF Restart, store
  <1>10. CASE Engine \/ UNCHANGED vars
    BY <1>10, <1>g, QuietLog DEF Engine, Refuse, Handle, vars, store, thread
  <1>11. QED
    BY <1>1, <1>2, <1>3, <1>4, <1>5, <1>6, <1>7, <1>8, <1>9, <1>10 DEF Next, Step

\* Whatever is lost, late or done at the same time, every binding is to a
\* conversation the engine made for the same subject, and every row that is
\* not social is of a turn the engine carried out for the conversation's owner.
THEOREM Backed == Spec => []TranscriptIsBacked
  <1>1. ShapeInv /\ LinkInv /\ LogInv => TranscriptIsBacked
    <2> SUFFICES ASSUME ShapeInv, LinkInv, LogInv PROVE TranscriptIsBacked
      OBVIOUS
    <2>1. \A c \in 1 .. Len(james) :
            james[c].pke # NoConv => pkeConvs[james[c].pke] = james[c].owner
      BY DEF LinkInv, BindingsInv, Owns
    <2>2. ASSUME NEW i \in 1 .. Len(log), ~ log[i].social
          PROVE  \E h \in handled : /\ h.turn = log[i].turn
                                    /\ pkeConvs[h.conv] = james[log[i].conv].owner
      BY <2>2 DEF LogInv, RowInv, Did, Owns
    <2>3. ASSUME NEW i \in 1 .. Len(log), log[i].role = "assistant"
          PROVE  \E j \in 1 .. i - 1 : log[j] = [log[i] EXCEPT !.role = "user"]
      <3>1. PICK j \in 1 .. i - 1 : Asks(log[j], log[i])
        BY <2>3 DEF LogInv, RowInv
      <3>2. log[i] \in LogRows /\ log[j] \in LogRows
        BY DEF ShapeInv, Shape, StoreShape
      <3>3. log[j] = [log[i] EXCEPT !.role = "user"]
        BY <3>1, <3>2 DEF Asks, LogRows
      <3>4. QED
        BY <3>3
    <2>4. QED
      BY <2>1, <2>2, <2>3 DEF TranscriptIsBacked
  <1>2. Init => OnceInv /\ LinkInv /\ LogInv
    BY InitOnceInv, InitLinkInv, InitLogInv
  <1>3. ShapeInv /\ OnceInv /\ LinkInv /\ LogInv /\ [Next]_vars
          => (OnceInv /\ LinkInv /\ LogInv)'
    BY NextOnceInv, NextLinkInv, NextLogInv
  <1>4. QED
    BY <1>1, <1>2, <1>3, AlwaysShapeInv, PTL DEF Spec

-----------------------------------------------------------------------------
(* A conversation that no two turns shared has one history.                *)

\* Two threads at work in one conversation have mixed it.
Alone ==
  \A t, u \in Threads :
    Busy(t) /\ Busy(u) /\ rec[t].id = rec[u].id /\ rec[t].id \notin mixed => t = u

\* What a thread that is alone read of the binding is what the table says; one
\* that is about to bind found the conversation unbound.
Agrees(t) ==
  Busy(t) /\ rec[t].id \notin mixed =>
    james[rec[t].id].pke = IF pc[t] = "bind" THEN NoConv ELSE rec[t].pke

\* The engine answers in the conversation it was asked in, when there was one.
Answered(t) ==
  /\ pc[t] = "sent" =>
       /\ \A q \in inflight : q.rid = rid[t] => q.conv = rec[t].pke
       /\ \A m \in replies :
            m.rid = rid[t] /\ m.kind # "failed" /\ rec[t].pke # NoConv => m.conv = rec[t].pke
  /\ pc[t] = "rebind" => rec[t].pke = NoConv
  /\ pc[t] \in {"user", "assistant"} => got[t].conv = rec[t].pke

HistoryInv ==
  /\ Alone
  /\ \A t \in Threads : Agrees(t) /\ Answered(t)
  /\ OneHistory

LEMMA InitHistoryInv == Init => HistoryInv
  BY DEF Init, HistoryInv, Alone, Agrees, Answered, OneHistory, Busy

\* The transcript stays, an unmixed conversation is bound at most anew, and what
\* the engine does is of a turn it had not carried out.
LEMMA HistoryStays ==
  ASSUME ShapeInv, OnceInv, LogInv, OneHistory,
         log' = log, mixed \subseteq mixed',
         \A c \in 1 .. Len(james) :
           c \notin mixed' => james'[c].pke = james[c].pke \/ james[c].pke = NoConv,
         \A h \in handled' : h \in handled \/ \A x \in handled : x.turn # h.turn
  PROVE  OneHistory'
  <1> SUFFICES ASSUME NEW i \in 1 .. Len(log), NEW h \in handled',
                      log[i].conv \notin mixed', ~ log[i].social, h.turn = log[i].turn
               PROVE  h.conv = james'[log[i].conv].pke
    BY DEF OneHistory
  <1>1. RowInv(i)
    BY DEF LogInv
  <1>2. PICK x \in handled : x.turn = log[i].turn /\ x.conv \in 1 .. Len(pkeConvs)
    BY <1>1 DEF RowInv, Did, Owns
  <1>3. h \in handled /\ h = x
    BY <1>2 DEF OnceInv, AtMostOncePerTurn
  <1>4. h.conv = james[log[i].conv].pke
    BY <1>3 DEF OneHistory
  <1>5. h.conv # NoConv
    BY <1>2, <1>3 DEF NoConv
  <1>6. QED
    BY <1>1, <1>4, <1>5 DEF RowInv

\* A thread is where it was with what it holds, and hears no more than it did.
Rests(t) ==
  /\ pc'[t] = pc[t] /\ rec'[t] = rec[t] /\ rid'[t] = rid[t] /\ got'[t] = got[t]

LEMMA RestsAnswered ==
  ASSUME NEW t \in Threads, Answered(t), Rests(t),
         inflight' \subseteq inflight, replies' \subseteq replies
  PROVE  Answered(t)'
  BY DEF Answered, Rests

\* Nobody starts a turn: who is at work was so in the same conversation.
LEMMA AloneStays ==
  ASSUME Alone, mixed' = mixed,
         \A t \in Threads : Busy(t)' => Busy(t) /\ rec'[t].id = rec[t].id
  PROVE  Alone'
  BY DEF Alone

\* The store, the engine's deeds and the calls stay; some threads go idle.
LEMMA QuietHistory ==
  ASSUME ShapeInv, OnceInv, LogInv, HistoryInv,
         log' = log, james' = james, mixed' = mixed, handled' = handled,
         inflight' \subseteq inflight, replies' \subseteq replies,
         \A t \in Threads : pc'[t] = "idle" \/ Rests(t)
  PROVE  HistoryInv'
  <1>1. Alone'
    <2>1. \A t \in Threads : Busy(t)' => Busy(t) /\ rec'[t].id = rec[t].id
      BY DEF Busy, Rests
    <2>2. QED
      BY <2>1, AloneStays DEF HistoryInv
  <1>2. ASSUME NEW t \in Threads PROVE Agrees(t)' /\ Answered(t)'
    <2>1. CASE pc'[t] = "idle"
      BY <2>1 DEF Agrees, Answered, Busy
    <2>2. CASE Rests(t)
      <3>1. Agrees(t)'
        BY <2>2 DEF HistoryInv, Agrees, Busy, Rests
      <3>2. Answered(t)'
        BY <2>2, RestsAnswered DEF HistoryInv
      <3>3. QED
        BY <3>1, <3>2
    <2>3. QED
      BY <2>1, <2>2
  <1>3. OneHistory'
    BY HistoryStays DEF HistoryInv
  <1>4. QED
    BY <1>1, <1>2, <1>3 DEF HistoryInv

\* A row is appended by a thread whose turn the engine carried out where the
\* conversation is bound, or by a social turn.
LEMMA AppendedHistory ==
  ASSUME ShapeInv, OneHistory, NEW r \in LogRows,
         log' = Append(log, r), UNCHANGED <<james, handled, mixed>>,
         r.conv \notin mixed /\ ~ r.social =>
           \A h \in handled : h.turn = r.turn => h.conv = james[r.conv].pke
  PROVE  OneHistory'
  <1>1. /\ Len(log') = Len(log) + 1 /\ log'[Len(log) + 1] = r /\ Len(log) \in Nat
        /\ \A i \in 1 .. Len(log) : log'[i] = log[i]
    BY AppendProperties DEF ShapeInv, Shape, StoreShape
  <1>2. SUFFICES ASSUME NEW i \in 1 .. Len(log'), NEW h \in handled,
                        log'[i].conv \notin mixed, ~ log'[i].social, h.turn = log'[i].turn
                 PROVE  h.conv = james[log'[i].conv].pke
    BY DEF OneHistory
  <1>3. CASE i \in 1 .. Len(log)
    BY <1>1, <1>2, <1>3 DEF OneHistory
  <1>4. CASE i = Len(log) + 1
    BY <1>1, <1>2, <1>4
  <1>5. QED
    BY <1>1, <1>3, <1>4

LEMMA NextHistoryInv ==
  ShapeInv /\ OnceInv /\ LinkInv /\ LogInv /\ HistoryInv /\ [Next]_vars => HistoryInv'
  <1> SUFFICES ASSUME ShapeInv, OnceInv, LinkInv, LogInv, HistoryInv, [Next]_vars
               PROVE  HistoryInv'
    OBVIOUS
  <1>0. ThreadShape /\ CountShape /\ EngineShape /\ StoreShape
    BY DEF ShapeInv, Shape
  <1>1. ASSUME NEW t \in Threads, NEW p \in Principals, NEW id \in 0 .. MaxConvs,
               Receive(t, p, id)
        PROVE  HistoryInv'
    <2> DEFINE conv == [owner |-> p, pke |-> 0]
    <2>1. /\ pc[t] = "idle" /\ pc' \in {[pc EXCEPT ![t] = "social"], [pc EXCEPT ![t] = "ensure"]}
          /\ own' = [own EXCEPT ![t] = turns + 1]
          /\ UNCHANGED <<log, handled, inflight, replies, rid, got>>
          /\ \/ /\ Found(p, id) /\ james' = james
                /\ rec' = [rec EXCEPT ![t] = [id |-> id, pke |-> james[id].pke, owner |-> p]]
                /\ mixed' = IF \E u \in Threads : pc[u] # "idle" /\ rec[u].id = id
                              THEN mixed \cup {id} ELSE mixed
             \/ /\ james' = Append(james, conv)
                /\ rec' = [rec EXCEPT ![t] = [id |-> Len(james) + 1, pke |-> 0, owner |-> p]]
                /\ mixed' = mixed
      BY <1>1 DEF Receive, Goto, engine, NoConv
    <2>2. /\ pc'[t] \in {"social", "ensure"}
          /\ \A u \in Threads \ {t} : Rests(u)
      BY <2>1, <1>0 DEF ThreadShape, Rests
    <2>3. conv \in Convs /\ conv.pke = 0
      BY DEF Convs
    <2> HIDE DEF conv
    <2>4. /\ Len(james) \in Nat /\ mixed \subseteq mixed'
          /\ \A c \in 1 .. Len(james) : james'[c] = james[c]
      <3>1. mixed \subseteq mixed'
        BY <2>1
      <3>2. james' = james \/ james' = Append(james, conv)
        BY <2>1
      <3>3. QED
        BY <2>3, <3>1, <3>2, <1>0, AppendProperties DEF StoreShape
    <2>5. \A u \in Threads : Busy(u) => rec[u].id \in 1 .. Len(james)
      BY DEF ShapeInv, Recorded
    <2>6. /\ rec'[t].pke = james'[rec'[t].id].pke
          /\ \A u \in Threads : Busy(u) /\ rec[u].id = rec'[t].id => rec[u].id \in mixed'
      <3>1. CASE /\ Found(p, id) /\ james' = james
                 /\ rec' = [rec EXCEPT ![t] = [id |-> id, pke |-> james[id].pke, owner |-> p]]
                 /\ mixed' = IF \E u \in Threads : pc[u] # "idle" /\ rec[u].id = id
                               THEN mixed \cup {id} ELSE mixed
        <4>1. rec'[t] = [id |-> id, pke |-> james[id].pke, owner |-> p]
          BY <3>1, <1>0 DEF ThreadShape
        <4>2. QED
          BY <3>1, <4>1 DEF Busy
      <3>2. CASE /\ james' = Append(james, conv)
                 /\ rec' = [rec EXCEPT ![t] = [id |-> Len(james) + 1, pke |-> 0, owner |-> p]]
        <4>1. rec'[t] = [id |-> Len(james) + 1, pke |-> 0, owner |-> p]
          BY <3>2, <1>0 DEF ThreadShape
        <4>2. james'[Len(james) + 1] = conv
          BY <3>2, <2>3, <1>0, AppendProperties DEF StoreShape
        <4>3. rec'[t].pke = 0 /\ rec'[t].id = Len(james) + 1
          BY <4>1
        <4>4. QED
          BY <4>2, <4>3, <2>3, <2>4, <2>5
      <3>3. QED
        BY <2>1, <3>1, <3>2
    <2>7. Alone'
      <3>1. ASSUME NEW u \in Threads, NEW v \in Threads, Busy(u)', Busy(v)',
                   rec'[u].id = rec'[v].id, rec'[u].id \notin mixed'
            PROVE  u = v
        <4>1. CASE u # t /\ v # t
          BY <2>2, <2>4, <3>1, <4>1 DEF HistoryInv, Alone, Rests, Busy
        <4>2. CASE u = t \/ v = t
          BY <2>2, <2>6, <3>1, <4>2 DEF Rests, Busy
        <4>3. QED
          BY <4>1, <4>2
      <3>2. QED
        BY <3>1 DEF Alone
    <2>8. Agrees(t)' /\ Answered(t)'
      BY <2>2, <2>6 DEF Agrees, Answered
    <2>9. ASSUME NEW u \in Threads \ {t} PROVE Agrees(u)' /\ Answered(u)'
      <3>1. Rests(u) /\ Agrees(u) /\ Answered(u)
        BY <2>2 DEF HistoryInv
      <3>2. Agrees(u)'
        BY <2>4, <2>5, <3>1 DEF Agrees, Rests, Busy
      <3>3. QED
        BY <2>1, <3>1, <3>2, RestsAnswered
    <2>10. OneHistory'
      BY <2>1, <2>4, HistoryStays DEF HistoryInv
    <2>11. QED
      BY <2>7, <2>8, <2>9, <2>10 DEF HistoryInv
  <1>2. ASSUME NEW t \in Threads, Social(t) PROVE HistoryInv'
    <2>1. /\ pc[t] = "social"
          /\ UNCHANGED <<james, handled, inflight, replies, mixed>>
          /\ UNCHANGED thread \/ Forget({t})
          /\ \E role \in Roles : log' = Append(log, Row(t, role, TRUE))
      BY <1>2 DEF Social, Return, engine, Roles
    <2>2. \A u \in Threads : pc'[u] = "idle" \/ Rests(u)
      BY <2>1, <1>0, ForgetFacts DEF thread, Rests
    <2>3. OneHistory'
      <3>1. PICK role \in Roles : log' = Append(log, Row(t, role, TRUE))
        BY <2>1
      <3>2. Row(t, role, TRUE) \in LogRows /\ Row(t, role, TRUE).social
        BY <1>0, RowShape DEF Row
      <3>3. QED
        BY <2>1, <3>1, <3>2, AppendedHistory DEF HistoryInv
    <2>4. Alone'
      <3>1. \A u \in Threads : Busy(u)' => Busy(u) /\ rec'[u].id = rec[u].id
        BY <2>2 DEF Busy, Rests
      <3>2. QED
        BY <2>1, <3>1, AloneStays DEF HistoryInv
    <2>5. ASSUME NEW u \in Threads PROVE Agrees(u)' /\ Answered(u)'
      <3>1. CASE pc'[u] = "idle"
        BY <3>1 DEF Agrees, Answered, Busy
      <3>2. CASE Rests(u)
        BY <3>2, <2>1, RestsAnswered DEF HistoryInv, Agrees, Busy, Rests
      <3>3. QED
        BY <2>2, <3>1, <3>2
    <2>6. QED
      BY <2>3, <2>4, <2>5 DEF HistoryInv
  <1>3. ASSUME NEW t \in Threads, Ensure(t) PROVE HistoryInv'
    <2>1. /\ pc[t] = "ensure" /\ pc'[t] \in {"send", "bind"}
          /\ UNCHANGED <<log, james, handled, inflight, replies, mixed>>
          /\ \A u \in Threads \ {t} : Rests(u)
      BY <1>3, <1>0 DEF Ensure, Goto, store, ThreadShape, Rests
    <2>2. /\ rec[t] \in Held /\ rec'[t].id = rec[t].id
          /\ \/ pc'[t] = "send" /\ rec'[t] = rec[t]
             \/ pc'[t] = "bind" /\ rec[t].pke = NoConv
      <3>1. rec[t] \in Held
        BY <1>0 DEF ThreadShape
      <3>2. \/ pc' = [pc EXCEPT ![t] = "send"] /\ rec' = rec
            \/ /\ pc' = [pc EXCEPT ![t] = "bind"] /\ rec[t].pke = NoConv
               /\ rec' = [rec EXCEPT ![t] = [rec[t] EXCEPT !.pke = Len(pkeConvs) + 1]]
        BY <1>3 DEF Ensure, Goto, Creates
      <3>3. CASE pc' = [pc EXCEPT ![t] = "send"] /\ rec' = rec
        BY <3>1, <3>3, <1>0 DEF ThreadShape
      <3>4. CASE /\ pc' = [pc EXCEPT ![t] = "bind"] /\ rec[t].pke = NoConv
                 /\ rec' = [rec EXCEPT ![t] = [rec[t] EXCEPT !.pke = Len(pkeConvs) + 1]]
        <4>1. rec'[t] = [rec[t] EXCEPT !.pke = Len(pkeConvs) + 1] /\ pc'[t] = "bind"
          BY <3>4, <1>0 DEF ThreadShape
        <4>2. QED
          BY <3>1, <3>4, <4>1 DEF Held
      <3>5. QED
        BY <3>2, <3>3, <3>4
    <2>3. Alone'
      <3>1. \A u \in Threads : Busy(u)' => Busy(u) /\ rec'[u].id = rec[u].id
        BY <2>1, <2>2 DEF Busy, Rests
      <3>2. QED
        BY <2>1, <3>1, AloneStays DEF HistoryInv
    <2>4. Agrees(t)' /\ Answered(t)'
      <3>1. Agrees(t) /\ Busy(t)
        BY <2>1 DEF HistoryInv, Busy
      <3>2. Answered(t)'
        BY <2>1 DEF Answered
      <3>3. QED
        BY <2>1, <2>2, <3>1, <3>2 DEF Agrees
    <2>5. ASSUME NEW u \in Threads \ {t} PROVE Agrees(u)' /\ Answered(u)'
      BY <2>1, RestsAnswered DEF HistoryInv, Agrees, Busy, Rests
    <2>6. OneHistory'
      BY <2>1, HistoryStays DEF HistoryInv
    <2>7. QED
      BY <2>3, <2>4, <2>5, <2>6 DEF HistoryInv
  <1>4. ASSUME NEW t \in Threads, Bind(t) \/ Rebind(t) PROVE HistoryInv'
    <2> DEFINE c == rec[t].id
    <2>1. /\ Busy(t) /\ c \in 1 .. Len(james) /\ rec[t] \in Held /\ got[t].conv \in Nat
          /\ UNCHANGED <<log, handled, inflight, replies, mixed, rid, got>>
          /\ \A u \in Threads \ {t} : Rests(u)
      BY <1>4, <1>0 DEF Bind, Rebind, Goto, Busy, ShapeInv, Recorded, ThreadShape, Gotten,
                        engine, Rests
    <2>2. /\ rec'[t].id = c /\ james'[c].pke = rec'[t].pke /\ pc'[t] \in {"send", "user"}
          /\ pc'[t] = "user" => got'[t].conv = rec'[t].pke
          /\ \A d \in 1 .. Len(james) \ {c} : james'[d] = james[d]
      <3>1. CASE Bind(t)
        <4>1. /\ james' = [james EXCEPT ![c].pke = rec[t].pke] /\ rec' = rec
              /\ pc'[t] = "send"
          BY <3>1, <1>0 DEF Bind, Goto, ThreadShape
        <4>2. rec[t].pke \in Nat
          BY <2>1 DEF Held
        <4>3. QED
          BY <4>1, <4>2, <2>1, <1>0, BindingFacts
      <3>2. CASE Rebind(t)
        <4>1. /\ james' = [james EXCEPT ![c].pke = got[t].conv]
              /\ rec'[t] = [rec[t] EXCEPT !.pke = got[t].conv]
              /\ pc'[t] = "user" /\ got' = got
          BY <3>2, <1>0 DEF Rebind, Goto, ThreadShape
        <4>2. rec'[t].id = c /\ rec'[t].pke = got[t].conv
          BY <4>1, <2>1 DEF Held
        <4>3. QED
          BY <4>1, <4>2, <2>1, <1>0, BindingFacts
      <3>3. QED
        BY <1>4, <3>1, <3>2
    <2>3. c \notin mixed => james[c].pke = NoConv
      <3>1. Agrees(t) /\ Answered(t)
        BY DEF HistoryInv
      <3>2. QED
        BY <1>4, <2>1, <3>1 DEF Agrees, Answered, Bind, Rebind
    <2>4. Alone'
      <3>1. \A u \in Threads : Busy(u)' => Busy(u) /\ rec'[u].id = rec[u].id
        BY <2>1, <2>2 DEF Busy, Rests
      <3>2. QED
        BY <2>1, <3>1, AloneStays DEF HistoryInv
    <2>5. Agrees(t)' /\ Answered(t)'
      BY <2>2 DEF Agrees, Answered
    <2>6. ASSUME NEW u \in Threads \ {t} PROVE Agrees(u)' /\ Answered(u)'
      <3>1. Answered(u)'
        BY <2>1, RestsAnswered DEF HistoryInv
      <3>2. ASSUME Busy(u), rec[u].id \notin mixed
            PROVE  james'[rec[u].id] = james[rec[u].id]
        <4>1. rec[u].id # c
          BY <2>1, <3>2 DEF HistoryInv, Alone
        <4>2. rec[u].id \in 1 .. Len(james)
          BY <3>2 DEF ShapeInv, Recorded
        <4>3. QED
          BY <2>2, <4>1, <4>2
      <3>3. Agrees(u)'
        BY <2>1, <3>2 DEF HistoryInv, Agrees, Busy, Rests
      <3>4. QED
        BY <3>1, <3>3
    <2>7. OneHistory'
      BY <2>1, <2>2, <2>3, HistoryStays DEF HistoryInv
    <2>8. QED
      BY <2>4, <2>5, <2>6, <2>7 DEF HistoryInv
  <1>5. ASSUME NEW t \in Threads, Send(t) PROVE HistoryInv'
    <2> DEFINE q == [rid |-> rids + 1, turn |-> own[t], conv |-> rec[t].pke,
                     owner |-> rec[t].owner]
    <2>1. /\ pc[t] = "send" /\ pc'[t] = "sent" /\ rid'[t] = rids + 1
          /\ inflight' = inflight \cup {q}
          /\ UNCHANGED <<log, james, handled, replies, mixed, rec, got>>
          /\ \A u \in Threads \ {t} : Rests(u)
      BY <1>5, <1>0 DEF Send, Goto, store, ThreadShape, Rests
    <2>2. q.rid = rids + 1 /\ q.conv = rec[t].pke
      OBVIOUS
    <2> HIDE DEF q
    <2>3. /\ \A x \in inflight \cup replies : x.rid # rids + 1
          /\ \A u \in Threads : pc[u] = "sent" => rid[u] # rids + 1
      <3>1. /\ rids \in Nat /\ \A u \in Threads : rid[u] \in Nat
            /\ \A x \in inflight \cup replies : x.rid \in Nat
        BY <1>0 DEF CountShape, EngineShape, ThreadShape, Requests, Answers
      <3>2. QED
        BY <3>1 DEF LinkInv, RepliesInv
    <2>4. Alone'
      <3>1. \A u \in Threads : Busy(u)' => Busy(u) /\ rec'[u].id = rec[u].id
        BY <2>1 DEF Busy, Rests
      <3>2. QED
        BY <2>1, <3>1, AloneStays DEF HistoryInv
    <2>5. Agrees(t)' /\ Answered(t)'
      <3>1. Agrees(t)'
        BY <2>1 DEF HistoryInv, Agrees, Busy
      <3>2. Answered(t)'
        BY <2>1, <2>2, <2>3 DEF Answered
      <3>3. QED
        BY <3>1, <3>2
    <2>6. ASSUME NEW u \in Threads \ {t} PROVE Agrees(u)' /\ Answered(u)'
      <3>1. Agrees(u)'
        BY <2>1 DEF HistoryInv, Agrees, Busy, Rests
      <3>2. Answered(u)'
        BY <2>1, <2>2, <2>3 DEF HistoryInv, Answered, Rests
      <3>3. QED
        BY <3>1, <3>2
    <2>7. OneHistory'
      BY <2>1, HistoryStays DEF HistoryInv
    <2>8. QED
      BY <2>4, <2>5, <2>6, <2>7 DEF HistoryInv
  <1>6. ASSUME NEW t \in Threads, NEW m \in replies, Reply(t, m) PROVE HistoryInv'
    <2>1. /\ pc[t] = "sent" /\ m.rid = rid[t] /\ replies' \subseteq replies
          /\ UNCHANGED <<log, james, handled, inflight, mixed>>
          /\ \/ Forget({t})
             \/ /\ m.kind # "failed" /\ UNCHANGED <<rec, rid>>
                /\ got' = [got EXCEPT ![t] = [kind |-> m.kind, conv |-> m.conv]]
                /\ pc' = [pc EXCEPT ![t] = IF Rebinds(rec[t], m) THEN "rebind" ELSE "user"]
      BY <1>6 DEF Reply, Return, Goto, store, Shown
    <2>2. CASE Forget({t})
      <3>1. \A u \in Threads : pc'[u] = "idle" \/ Rests(u)
        BY <2>2, <1>0, ForgetFacts DEF Rests
      <3>2. QED
        BY <2>1, <3>1, QuietHistory
    <2>3. CASE ~ Forget({t})
      <3>1. /\ m.kind # "failed" /\ rec' = rec /\ got'[t].conv = m.conv
            /\ pc'[t] = IF Rebinds(rec[t], m) THEN "rebind" ELSE "user"
            /\ \A u \in Threads \ {t} : Rests(u)
        BY <2>1, <2>3, <1>0 DEF ThreadShape, Rests
      <3>2. m.conv # NoConv
        BY <2>1, <3>1 DEF LinkInv, RepliesInv, Owns, NoConv
      <3>3. Answered(t)'
        <4>1. rec[t].pke # NoConv => m.conv = rec[t].pke
          BY <2>1, <3>1 DEF HistoryInv, Answered
        <4>2. QED
          BY <3>1, <3>2, <4>1 DEF Answered, Rebinds
      <3>4. Agrees(t)'
        BY <2>1, <3>1 DEF HistoryInv, Agrees, Busy
      <3>5. ASSUME NEW u \in Threads \ {t} PROVE Agrees(u)' /\ Answered(u)'
        BY <2>1, <3>1, RestsAnswered DEF HistoryInv, Agrees, Busy, Rests
      <3>6. Alone'
        <4>1. \A u \in Threads : Busy(u)' => Busy(u) /\ rec'[u].id = rec[u].id
          BY <2>1, <3>1 DEF Busy, Rests
        <4>2. QED
          BY <2>1, <4>1, AloneStays DEF HistoryInv
      <3>7. OneHistory'
        BY <2>1, HistoryStays DEF HistoryInv
      <3>8. QED
        BY <3>3, <3>4, <3>5, <3>6, <3>7 DEF HistoryInv
    <2>4. QED
      BY <2>2, <2>3
  <1>7. ASSUME NEW t \in Threads, LogUser(t) \/ LogAssistant(t) PROVE HistoryInv'
    <2>1. /\ pc[t] \in {"user", "assistant"}
          /\ UNCHANGED <<james, handled, inflight, replies, mixed>>
          /\ \E role \in Roles : log' = Append(log, Row(t, role, FALSE))
      BY <1>7 DEF LogUser, LogAssistant, engine, Roles
    <2>2. \/ Forget({t})
          \/ pc[t] = "user" /\ pc' = [pc EXCEPT ![t] = "assistant"] /\ UNCHANGED <<rec, rid, got>>
      BY <1>7 DEF LogUser, LogAssistant, Goto, Return
    <2>3. \A u \in Threads :
            \/ pc'[u] = "idle" \/ Rests(u)
            \/ /\ pc[u] = "user" /\ pc'[u] = "assistant"
               /\ rec'[u] = rec[u] /\ got'[u] = got[u]
      <3>1. CASE Forget({t})
        BY <3>1, <1>0, ForgetFacts DEF Rests
      <3>2. CASE ~ Forget({t})
        BY <2>2, <3>2, <1>0 DEF ThreadShape, Rests
      <3>3. QED
        BY <3>1, <3>2
    <2>4. OneHistory'
      <3>1. PICK role \in Roles : log' = Append(log, Row(t, role, FALSE))
        BY <2>1
      <3> DEFINE r == Row(t, role, FALSE)
      <3>2. r \in LogRows /\ r.conv = rec[t].id /\ r.turn = own[t]
        BY <1>0, RowShape DEF Row
      <3>3. Did(handled, own[t], got[t].conv) /\ got[t].conv = rec[t].pke
        BY <2>1 DEF LinkInv, RepliesInv, HistoryInv, Answered
      <3>4. \A h \in handled : h.turn = own[t] => h.conv = rec[t].pke
        BY <3>3 DEF Did, OnceInv, AtMostOncePerTurn
      <3>5. rec[t].id \notin mixed => james[rec[t].id].pke = rec[t].pke
        BY <2>1 DEF HistoryInv, Agrees, Busy
      <3> HIDE DEF r
      <3>6. log' = Append(log, r)
        BY <3>1 DEF r
      <3>7. QED
        BY <2>1, <3>2, <3>4, <3>5, <3>6, AppendedHistory DEF HistoryInv
    <2>5. Alone'
      <3>1. \A u \in Threads : Busy(u)' => Busy(u) /\ rec'[u].id = rec[u].id
        BY <2>3 DEF Busy, Rests
      <3>2. QED
        BY <2>1, <3>1, AloneStays DEF HistoryInv
    <2>6. ASSUME NEW u \in Threads PROVE Agrees(u)' /\ Answered(u)'
      <3>1. CASE pc'[u] = "idle"
        BY <3>1 DEF Agrees, Answered, Busy
      <3>2. CASE Rests(u)
        BY <2>1, <3>2, RestsAnswered DEF HistoryInv, Agrees, Busy, Rests
      <3>3. CASE /\ pc[u] = "user" /\ pc'[u] = "assistant"
                 /\ rec'[u] = rec[u] /\ got'[u] = got[u]
        BY <2>1, <3>3 DEF HistoryInv, Agrees, Answered, Busy
      <3>4. QED
        BY <2>3, <3>1, <3>2, <3>3
    <2>7. QED
      BY <2>4, <2>5, <2>6 DEF HistoryInv
  <1>8. ASSUME NEW q \in inflight, Refuse(q) PROVE HistoryInv'
    <2>1. /\ inflight' \subseteq inflight
          /\ replies' = replies \cup {[rid |-> q.rid, kind |-> "failed", conv |-> NoConv]}
          /\ UNCHANGED <<log, james, handled, mixed, pc, rec, rid, got>>
      BY <1>8 DEF Refuse, store, thread
    <2>2. Alone'
      BY <2>1 DEF HistoryInv, Alone, Busy
    <2>3. ASSUME NEW u \in Threads PROVE Agrees(u)' /\ Answered(u)'
      BY <2>1 DEF HistoryInv, Agrees, Answered, Busy
    <2>4. OneHistory'
      BY <2>1 DEF HistoryInv, OneHistory
    <2>5. QED
      BY <2>2, <2>3, <2>4 DEF HistoryInv
  <1>9. ASSUME NEW q \in inflight, NEW kind \in Kinds, Handle(q, kind) PROVE HistoryInv'
    <2>1. PICK h, m : /\ h.turn = q.turn
                      /\ m.rid = q.rid /\ (q.conv # NoConv => m.conv = q.conv)
                      /\ handled' = handled \cup {h} /\ replies' = replies \cup {m}
      <3> DEFINE conv == IF q.conv = NoConv THEN Len(pkeConvs) + 1 ELSE q.conv
      <3>1. /\ handled' = handled \cup {[rid |-> q.rid, turn |-> q.turn, conv |-> conv]}
            /\ replies' = replies \cup {[rid |-> q.rid, kind |-> kind, conv |-> conv]}
        BY <1>9 DEF Handle
      <3>2. q.conv # NoConv => conv = q.conv
        OBVIOUS
      <3> HIDE DEF conv
      <3>3. QED
        BY <3>1, <3>2
    <2>2. /\ inflight' \subseteq inflight
          /\ UNCHANGED <<log, james, mixed, pc, rec, rid, got>>
      BY <1>9 DEF Handle, store, thread
    <2>3. Alone'
      BY <2>2 DEF HistoryInv, Alone, Busy
    <2>4. ASSUME NEW u \in Threads PROVE Agrees(u)' /\ Answered(u)'
      <3>1. Agrees(u)'
        BY <2>2 DEF HistoryInv, Agrees, Busy
      <3>2. ASSUME pc[u] = "sent", NEW a \in replies', a.rid = rid[u], a.kind # "failed",
                   rec[u].pke # NoConv
            PROVE  a.conv = rec[u].pke
        BY <2>1, <3>2 DEF HistoryInv, Answered
      <3>3. Answered(u)'
        BY <2>2, <3>2 DEF HistoryInv, Answered
      <3>4. QED
        BY <3>1, <3>3
    <2>5. OneHistory'
      <3>1. \A x \in handled : x.turn # q.turn
        BY DEF OnceInv, Sent
      <3>2. QED
        BY <2>1, <2>2, <3>1, HistoryStays DEF HistoryInv
    <2>6. QED
      BY <2>3, <2>4, <2>5 DEF HistoryInv
  <1>10. ASSUME NEW t \in Threads, Timeout(t) PROVE HistoryInv'
    <2>1. \A u \in Threads : pc'[u] = "idle" \/ Rests(u)
      BY <1>10, <1>0, ForgetFacts DEF Timeout, Return, Rests
    <2>2. QED
      BY <1>10, <2>1, QuietHistory DEF Timeout, store, engine
  <1>11. CASE Restart
    <2>1. \A u \in Threads : pc'[u] = "idle" \/ Rests(u)
      BY <1>11, <1>0, ForgetFacts DEF Restart, Rests
    <2>2. QED
      BY <1>11, <2>1, QuietHistory DEF Restart, store, engine
  <1>12. CASE UNCHANGED vars
    <2>1. \A u \in Threads : pc'[u] = "idle" \/ Rests(u)
      BY <1>12 DEF vars, thread, Rests
    <2>2. QED
      BY <1>12, <2>1, QuietHistory DEF vars, store, engine
  <1>13. QED
    BY <1>1, <1>2, <1>3, <1>4, <1>5, <1>6, <1>7, <1>8, <1>9, <1>10, <1>11, <1>12
       DEF Next, Step, Engine

\* Unless two turns of a conversation overlap, every logged turn of it was
\* carried out in the one engine conversation it is bound to, whatever timed
\* out or was restarted before.
THEOREM History == Spec => []OneHistory
  <1>1. HistoryInv => OneHistory
    BY DEF HistoryInv
  <1>2. Init => OnceInv /\ LinkInv /\ LogInv /\ HistoryInv
    BY InitOnceInv, InitLinkInv, InitLogInv, InitHistoryInv
  <1>3. ShapeInv /\ OnceInv /\ LinkInv /\ LogInv /\ HistoryInv /\ [Next]_vars
          => (OnceInv /\ LinkInv /\ LogInv /\ HistoryInv)'
    BY NextOnceInv, NextLinkInv, NextLogInv, NextHistoryInv
  <1>4. QED
    BY <1>1, <1>2, <1>3, AlwaysShapeInv, PTL DEF Spec
===============================================================================
