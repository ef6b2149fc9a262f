------------------------------- MODULE CoreTurns -------------------------------
(***************************************************************************)
(* jamesCore: threads that serve POST /v1/turns against the conversation   *)
(* store of James and, over HTTP, against the engine (PKE).  A James       *)
(* conversation is bound to one of the engine's; every call carries a      *)
(* request id of its own; a call may time out while the engine goes on     *)
(* with it; the store's calls are transactions of their own.               *)
(***************************************************************************)
EXTENDS Integers, Sequences, FiniteSets

CONSTANTS
  Threads,      \* threads of the pool that runs the sync endpoints
  Principals,   \* subjects of verified assertions
  None,
  MaxTurns,     \* bound on the turns clients ask for
  MaxConvs,     \* bound on James conversations
  MaxPke        \* bound on the engine's conversations

VARIABLES
  james,     \* conversations table: owner and binding
  log,       \* messages table
  turns,     \* turns asked for so far
  rids,      \* request ids drawn so far
  pkeConvs,  \* owners of the engine's conversations
  handled,   \* what the engine has done: one entry per request it carried out
  inflight,  \* requests that are on their way to the engine or in it
  replies,   \* the engine's replies that nobody has received
  pc, rec, own, rid, got,
  mixed      \* conversations that two turns were in at once (history)

NoConv == 0
store  == <<james, log>>
engine == <<pkeConvs, handled, inflight, replies>>
thread == <<pc, rec, own, rid, got>>
vars   == <<store, turns, rids, engine, thread, mixed>>

Kinds    == {"answer", "clarification", "unsupported", "error", "failed"}
NoReply  == [kind |-> "failed", conv |-> NoConv]
NoRecord == [id |-> NoConv, pke |-> NoConv, owner |-> None]
Records  == [id : 0 .. MaxConvs, pke : 0 .. MaxPke, owner : Principals \cup {None}]

TypeOK ==
  /\ james \in Seq([owner : Principals, pke : 0 .. MaxPke])
  /\ Len(james) <= MaxConvs
  /\ log \in Seq([conv : 1 .. Len(james), role : {"user", "assistant"},
                  turn : 1 .. turns, social : BOOLEAN])
  /\ Len(log) <= 2 * turns
  /\ turns \in 0 .. MaxTurns
  /\ rids \in 0 .. turns
  /\ pkeConvs \in Seq(Principals) /\ Len(pkeConvs) <= MaxPke
  /\ handled \subseteq [rid : 1 .. rids, turn : 1 .. turns, conv : 1 .. Len(pkeConvs)]
  /\ inflight \subseteq [rid : 1 .. rids, turn : 1 .. turns,
                         conv : 0 .. Len(pkeConvs), owner : Principals]
  /\ replies \subseteq [rid : 1 .. rids, kind : Kinds, conv : 0 .. Len(pkeConvs)]
  /\ pc \in [Threads -> {"idle", "social", "ensure", "bind", "send", "sent",
                         "rebind", "user", "assistant"}]
  /\ rec \in [Threads -> Records]
  /\ own \in [Threads -> 0 .. MaxTurns]
  /\ rid \in [Threads -> 0 .. rids]
  /\ got \in [Threads -> [kind : Kinds, conv : 0 .. MaxPke]]
  /\ mixed \subseteq 1 .. Len(james)

Init ==
  /\ james = <<>> /\ log = <<>> /\ turns = 0 /\ rids = 0
  /\ pkeConvs = <<>> /\ handled = {} /\ inflight = {} /\ replies = {}
  /\ pc = [t \in Threads |-> "idle"]
  /\ rec = [t \in Threads |-> NoRecord]
  /\ own = [t \in Threads |-> 0]
  /\ rid = [t \in Threads |-> 0]
  /\ got = [t \in Threads |-> NoReply]
  /\ mixed = {}

Goto(t, step) == pc' = [pc EXCEPT ![t] = step]

\* The thread returns an envelope (or its process is gone) and forgets all.
Forget(T) ==
  /\ pc' = [t \in Threads |-> IF t \in T THEN "idle" ELSE pc[t]]
  /\ rec' = [t \in Threads |-> IF t \in T THEN NoRecord ELSE rec[t]]
  /\ own' = [t \in Threads |-> IF t \in T THEN 0 ELSE own[t]]
  /\ rid' = [t \in Threads |-> IF t \in T THEN 0 ELSE rid[t]]
  /\ got' = [t \in Threads |-> IF t \in T THEN NoReply ELSE got[t]]

Return(t) == Forget({t})

Row(t, role, social) ==
  [conv |-> rec[t].id, role |-> role, turn |-> own[t], social |-> social]

-----------------------------------------------------------------------------
(* Faulty variants of definitions below, for mutation runs.                *)

\* The conversation is found by its id alone.
FoundByIdAlone(p, id) == id \in 1 .. Len(james)

\* The conversation the engine answered in is not compared with the binding.
BindingNotCompared(r, reply) == FALSE

\* A timed-out call is made again with a request id of its own.
TimeoutSendsAgain(t) ==
  /\ pc[t] = "sent"
  /\ rids < turns
  /\ rids' = rids + 1
  /\ rid' = [rid EXCEPT ![t] = rids + 1]
  /\ inflight' = inflight \cup
       {[rid |-> rids + 1, turn |-> own[t], conv |-> rec[t].pke, owner |-> rec[t].owner]}
  /\ UNCHANGED <<store, turns, pkeConvs, handled, replies, pc, rec, own, got, mixed>>

-----------------------------------------------------------------------------
\* ConversationStore.get: the id is the client's, the owner the assertion's.
Found(p, id) == id \in 1 .. Len(james) /\ james[id].owner = p

\* handle_turn: the conversation is looked up, or created.
Receive(t, p, id) ==
  /\ pc[t] = "idle" /\ turns < MaxTurns
  /\ turns' = turns + 1
  /\ own' = [own EXCEPT ![t] = turns + 1]
  /\ \/ /\ Found(p, id)
        /\ rec' = [rec EXCEPT ![t] = [id |-> id, pke |-> james[id].pke, owner |-> p]]
        /\ mixed' = IF \E u \in Threads : pc[u] # "idle" /\ rec[u].id = id
                      THEN mixed \cup {id} ELSE mixed
        /\ UNCHANGED james
     \/ /\ ~ Found(p, id)
        /\ Len(james) < MaxConvs
        /\ james' = Append(james, [owner |-> p, pke |-> NoConv])
        /\ rec' = [rec EXCEPT ![t] =
                     [id |-> Len(james) + 1, pke |-> NoConv, owner |-> p]]
        /\ UNCHANGED mixed
  /\ \/ Goto(t, "social")
     \/ Goto(t, "ensure")
  /\ UNCHANGED <<log, rids, engine, rid, got>>

Logged(t, role) == \E i \in 1 .. Len(log) : log[i].turn = own[t] /\ log[i].role = role

\* A social turn: two rows, each in a transaction of its own, and no engine.
Social(t) ==
  /\ pc[t] = "social"
  /\ IF ~ Logged(t, "user")
       THEN /\ log' = Append(log, Row(t, "user", TRUE))
            /\ UNCHANGED thread
       ELSE /\ log' = Append(log, Row(t, "assistant", TRUE))
            /\ Return(t)
  /\ UNCHANGED <<james, turns, rids, engine, mixed>>

\* _ensure_pke_conversation: the record the thread read, not the table.
Creates(r) == r.pke = NoConv

\* POST /api/v1/conversations: made and answered, made and the answer lost,
\* or not made; without an id the turn goes on unbound.
Ensure(t) ==
  /\ pc[t] = "ensure"
  /\ \/ /\ ~ Creates(rec[t])
        /\ Goto(t, "send")
        /\ UNCHANGED <<pkeConvs, rec>>
     \/ /\ Creates(rec[t]) /\ Len(pkeConvs) < MaxPke
        /\ pkeConvs' = Append(pkeConvs, rec[t].owner)
        /\ \/ /\ rec' = [rec EXCEPT ![t].pke = Len(pkeConvs) + 1]
              /\ Goto(t, "bind")
           \/ Goto(t, "send") /\ UNCHANGED rec
     \/ /\ Creates(rec[t])
        /\ Goto(t, "send")
        /\ UNCHANGED <<pkeConvs, rec>>
  /\ UNCHANGED <<store, turns, rids, handled, inflight, replies, own, rid, got, mixed>>

Bind(t) ==
  /\ pc[t] = "bind"
  /\ james' = [james EXCEPT ![rec[t].id].pke = rec[t].pke]
  /\ Goto(t, "send")
  /\ UNCHANGED <<log, turns, rids, engine, rec, own, rid, got, mixed>>

\* send_message with a request id drawn for this call.
Send(t) ==
  /\ pc[t] = "send"
  /\ rids' = rids + 1
  /\ rid' = [rid EXCEPT ![t] = rids + 1]
  /\ inflight' = inflight \cup
       {[rid |-> rids + 1, turn |-> own[t], conv |-> rec[t].pke, owner |-> rec[t].owner]}
  /\ Goto(t, "sent")
  /\ UNCHANGED <<store, turns, pkeConvs, handled, replies, rec, own, got, mixed>>

\* The engine carries a request out, in a conversation of its own when it
\* was given none; it may do so after the caller has gone.
Handle(q, kind) ==
  /\ q \in inflight
  /\ inflight' = inflight \ {q}
  /\ q.conv = NoConv => Len(pkeConvs) < MaxPke
  /\ LET conv == IF q.conv = NoConv THEN Len(pkeConvs) + 1 ELSE q.conv
     IN  /\ pkeConvs' = IF q.conv = NoConv THEN Append(pkeConvs, q.owner) ELSE pkeConvs
         /\ handled' = handled \cup {[rid |-> q.rid, turn |-> q.turn, conv |-> conv]}
         /\ replies' = replies \cup {[rid |-> q.rid, kind |-> kind, conv |-> conv]}
  /\ UNCHANGED <<store, turns, rids, thread, mixed>>

\* The engine refuses a request, or never gets it.
Refuse(q) ==
  /\ q \in inflight
  /\ inflight' = inflight \ {q}
  /\ replies' = replies \cup {[rid |-> q.rid, kind |-> "failed", conv |-> NoConv]}
  /\ UNCHANGED <<store, turns, rids, pkeConvs, handled, thread, mixed>>

\* _map_pke_result: what is not a technical_error.
Shown(kind) == kind \in {"answer", "clarification", "unsupported"}

\* The envelope names a conversation other than the thread's record does.
Rebinds(r, reply) == reply.conv # NoConv /\ r.pke # reply.conv

\* The reply arrives: a technical_error is returned and nothing is logged.
Reply(t, m) ==
  /\ pc[t] = "sent" /\ m \in replies /\ m.rid = rid[t]
  /\ replies' = replies \ {m}
  /\ IF ~ Shown(m.kind)
       THEN Return(t)
       ELSE /\ got' = [got EXCEPT ![t] = [kind |-> m.kind, conv |-> m.conv]]
            /\ Goto(t, IF Rebinds(rec[t], m) THEN "rebind" ELSE "user")
            /\ UNCHANGED <<rec, own, rid>>
  /\ UNCHANGED <<store, turns, rids, pkeConvs, handled, inflight, mixed>>

\* httpx.TimeoutException or another transport error: PKE_TIMEOUT, no retry.
Timeout(t) ==
  /\ pc[t] = "sent"
  /\ Return(t)
  /\ UNCHANGED <<store, turns, rids, engine, mixed>>

Rebind(t) ==
  /\ pc[t] = "rebind"
  /\ james' = [james EXCEPT ![rec[t].id].pke = got[t].conv]
  /\ rec' = [rec EXCEPT ![t].pke = got[t].conv]
  /\ Goto(t, "user")
  /\ UNCHANGED <<log, turns, rids, engine, own, rid, got, mixed>>

LogUser(t) ==
  /\ pc[t] = "user"
  /\ log' = Append(log, Row(t, "user", FALSE))
  /\ Goto(t, "assistant")
  /\ UNCHANGED <<james, turns, rids, engine, rec, own, rid, got, mixed>>

LogAssistant(t) ==
  /\ pc[t] = "assistant"
  /\ log' = Append(log, Row(t, "assistant", FALSE))
  /\ Return(t)
  /\ UNCHANGED <<james, turns, rids, engine, mixed>>

\* The process of jamesCore is restarted: the engine's goes on.
Restart ==
  /\ \E t \in Threads : pc[t] # "idle"
  /\ Forget(Threads)
  /\ UNCHANGED <<store, turns, rids, engine, mixed>>

Step(t) ==
  \/ Social(t) \/ Ensure(t) \/ Bind(t) \/ Send(t) \/ Timeout(t)
  \/ \E m \in replies : Reply(t, m)
  \/ Rebind(t) \/ LogUser(t) \/ LogAssistant(t)

Engine == \E q \in inflight : Refuse(q) \/ \E kind \in Kinds \ {"failed"} : Handle(q, kind)

Next ==
  \/ \E t \in Threads, p \in Principals, id \in 0 .. MaxConvs : Receive(t, p, id)
  \/ \E t \in Threads : Step(t)
  \/ Engine
  \/ Restart

Spec == Init /\ [][Next]_vars

-----------------------------------------------------------------------------
\* However calls time out and clients repeat themselves, the engine carries
\* out one turn of jamesCore at most once: no layer of PkeClient sends a
\* message again under another request id.
AtMostOncePerTurn ==
  \A h1, h2 \in handled : h1.turn = h2.turn => h1 = h2

\* The transcript holds what the engine did: a James conversation is only ever
\* bound to a conversation the engine made for the same subject, whichever id a
\* client passes to POST /v1/turns and whoever binds at the same time; an
\* assistant row stands after its user row, in the same conversation; and,
\* unless the turn was social, the engine carried it out for the owner.
TranscriptIsBacked ==
  /\ \A c \in 1 .. Len(james) :
       james[c].pke # NoConv => pkeConvs[james[c].pke] = james[c].owner
  /\ \A i \in 1 .. Len(log) :
       /\ log[i].role = "assistant" =>
            \E j \in 1 .. i - 1 :
              log[j] = [log[i] EXCEPT !.role = "user"]
       /\ ~ log[i].social =>
            \E h \in handled :
              /\ h.turn = log[i].turn
              /\ pkeConvs[h.conv] = james[log[i].conv].owner

\* Unless two turns of a conversation overlap, every logged turn of it was
\* carried out in the one engine conversation it is bound to, whatever timed
\* out before: its history is whole.
OneHistory ==
  \A i \in 1 .. Len(log) : \A h \in handled :
    (log[i].conv \notin mixed /\ ~ log[i].social /\ h.turn = log[i].turn) =>
      h.conv = james[log[i].conv].pke
===============================================================================
