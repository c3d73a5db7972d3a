------------------------------ MODULE RedisQueue ------------------------------
(***************************************************************************)
(* RedisQueueBackend (app/queue_backend.py): a queue shared by several     *)
(* processes.  A method is a sequence of Redis commands; the backend's     *)
(* lock orders the methods of one process only, so each command that       *)
(* writes is a step, and so are the reads that other processes or the      *)
(* clock can make stale.  A process may die between any two commands.      *)
(* One tenant and queue name: keys share nothing but the registry.         *)
(*                                                                         *)
(* reset, which only tests call, is left out; a message is acked or nacked *)
(* by the process that dequeued it.                                        *)
(***************************************************************************)
EXTENDS Naturals, Sequences, FiniteSets

CONSTANTS
    Msgs,           \* message ids
    Clients,        \* processes: API servers and workers
    MaxAttempt,     \* bound on the nacks of one message
    MaxCrashes,     \* bound on process deaths
    None            \* no message

ASSUME RedisQueueAssumption ==
    MaxAttempt \in Nat /\ MaxCrashes \in Nat /\ None \notin Msgs

VARIABLES
    pending,        \* the list at pending_key, left end first
    inflight,       \* the set at inflight_key
    index,          \* messages whose idx_key is set
    msg,            \* msg[m]: status and attempt at msg_key
    early,          \* messages whose available_at is still to come
    registered,     \* pending_key is in the registry list_tenants reads
    client,         \* client[c]: the method process c is in
    held,           \* held[c]: messages c dequeued and still works on
    crashes

stored == <<pending, inflight, index, msg, early, registered>>
vars == <<stored, client, held, crashes>>

\* unused: no SET yet; deleted: the key is gone (its attempt is history).
Message == [status : {"unused", "pending", "inflight", "discarded", "deleted"},
            attempt : Nat]

\* What a client is at:
\*   pc        save, push, track (enqueue); pop, load, rotate, mark, add,
\*             deliver (dequeue); ack, delete, unindex (ack); nack, drop,
\*             remove, pushback (nack)
\*   left      pending_count - scanned
\*   attempt   msg_data["attempt"] as read

Idle == [pc |-> "idle", id |-> None, left |-> 0, attempt |-> 0]

Init ==
    /\ pending = <<>>
    /\ inflight = {}
    /\ index = {}
    /\ msg = [m \in Msgs |-> [status |-> "unused", attempt |-> 0]]
    /\ early = {}
    /\ registered = FALSE
    /\ client = [c \in Clients |-> Idle]
    /\ held = [c \in Clients |-> {}]
    /\ crashes = 0

At(c, pc) == client[c].pc = pc

Id(c) == client[c].id

GoTo(c, pc) == client' = [client EXCEPT ![c].pc = pc]

Finish(c) == client' = [client EXCEPT ![c] = Idle]

-----------------------------------------------------------------------------
(* enqueue: SET index, SET message, RPUSH, SADD registry.  Every caller      *)
(* leaves available_at at now.                                               *)

SetIndex(c, m) ==
    /\ At(c, "idle")
    /\ msg[m].status = "unused"
    /\ m \notin index
    /\ index' = index \union {m}
    /\ client' = [client EXCEPT ![c].pc = "save", ![c].id = m]
    /\ UNCHANGED <<pending, inflight, msg, early, registered, held, crashes>>

SaveNew(c) ==
    /\ At(c, "save")
    /\ msg' = [msg EXCEPT ![Id(c)].status = "pending"]
    /\ GoTo(c, "push")
    /\ UNCHANGED <<pending, inflight, index, early, registered, held, crashes>>

\* Slips a change to this code could make are defined before what they would
\* replace; each breaks a property below.
PushNew_Untracked(c) ==
    /\ At(c, "push")
    /\ pending' = Append(pending, Id(c))
    /\ Finish(c)
    /\ UNCHANGED <<inflight, index, msg, early, registered, held, crashes>>

PushNew(c) ==
    /\ At(c, "push")
    /\ pending' = Append(pending, Id(c))
    /\ client' = [client EXCEPT ![c].pc = "track", ![c].id = None]
    /\ UNCHANGED <<inflight, index, msg, early, registered, held, crashes>>

TrackKeys(c) ==
    /\ At(c, "track")
    /\ registered' = TRUE
    /\ Finish(c)
    /\ UNCHANGED <<pending, inflight, index, msg, early, held, crashes>>

-----------------------------------------------------------------------------
(* dequeue: LLEN, then LPOP and GET until a message is due, RPUSH of those   *)
(* that are not, SET status, SADD inflight, SADD registry.                   *)

CountPending(c) ==
    /\ At(c, "idle")
    /\ pending # <<>>
    /\ client' = [client EXCEPT ![c].pc = "pop", ![c].left = Len(pending)]
    /\ UNCHANGED <<stored, held, crashes>>

\* Mutant: the head is read and left in the list.
PopHead_Peeks(c) ==
    /\ At(c, "pop")
    /\ IF pending = <<>>
       THEN Finish(c)
       ELSE client' = [client EXCEPT ![c].pc = "load", ![c].id = Head(pending)]
    /\ UNCHANGED <<stored, held, crashes>>

\* Another process may have emptied the list since the LLEN.
PopHead(c) ==
    /\ At(c, "pop")
    /\ IF pending = <<>>
       THEN Finish(c) /\ UNCHANGED pending
       ELSE /\ client' = [client EXCEPT ![c].pc = "load", ![c].id = Head(pending)]
            /\ pending' = Tail(pending)
    /\ UNCHANGED <<inflight, index, msg, early, registered, held, crashes>>

ScanOn(c) ==
    client' = [client EXCEPT ![c] =
        IF client[c].left > 1 THEN [Idle EXCEPT !.pc = "pop", !.left = client[c].left - 1]
                              ELSE Idle]

\* A message that is gone is skipped, one that is not due rotates.
LoadHead(c) ==
    LET m == Id(c) IN
    /\ At(c, "load")
    /\ IF msg[m].status \in {"unused", "deleted"} THEN ScanOn(c)
       ELSE IF m \in early THEN GoTo(c, "rotate")
       ELSE client' = [client EXCEPT ![c].pc = "mark", ![c].attempt = msg[m].attempt]
    /\ UNCHANGED <<stored, held, crashes>>

Rotate(c) ==
    /\ At(c, "rotate")
    /\ pending' = Append(pending, Id(c))
    /\ ScanOn(c)
    /\ UNCHANGED <<inflight, index, msg, early, registered, held, crashes>>

MarkInflight(c) ==
    /\ At(c, "mark")
    /\ msg' = [msg EXCEPT ![Id(c)] = [status |-> "inflight",
                                      attempt |-> client[c].attempt]]
    /\ GoTo(c, "add")
    /\ UNCHANGED <<pending, inflight, index, early, registered, held, crashes>>

AddInflight(c) ==
    /\ At(c, "add")
    /\ inflight' = inflight \union {Id(c)}
    /\ GoTo(c, "deliver")
    /\ UNCHANGED <<pending, index, msg, early, registered, held, crashes>>

Deliver(c) ==
    /\ At(c, "deliver")
    /\ registered' = TRUE
    /\ held' = [held EXCEPT ![c] = @ \union {Id(c)}]
    /\ Finish(c)
    /\ UNCHANGED <<pending, inflight, index, msg, early, crashes>>

-----------------------------------------------------------------------------
(* ack and nack read index and message first, and return without effect      *)
(* when the index is gone or the status is not inflight.                     *)

Recognised(m) == m \in index /\ msg[m].status = "inflight"

BeginAck(c, m) ==
    /\ At(c, "idle")
    /\ m \in held[c]
    /\ held' = [held EXCEPT ![c] = @ \ {m}]
    /\ IF Recognised(m)
       THEN client' = [client EXCEPT ![c].pc = "ack", ![c].id = m]
       ELSE UNCHANGED client
    /\ UNCHANGED <<stored, crashes>>

AckRemove(c) ==
    /\ At(c, "ack")
    /\ inflight' = inflight \ {Id(c)}
    /\ GoTo(c, "delete")
    /\ UNCHANGED <<pending, index, msg, early, registered, held, crashes>>

DeleteMsg(c) ==
    /\ At(c, "delete")
    /\ msg' = [msg EXCEPT ![Id(c)].status = "deleted"]
    /\ GoTo(c, "unindex")
    /\ UNCHANGED <<pending, inflight, index, early, registered, held, crashes>>

DeleteIndex(c) ==
    /\ At(c, "unindex")
    /\ index' = index \ {Id(c)}
    /\ Finish(c)
    /\ UNCHANGED <<pending, inflight, msg, early, registered, held, crashes>>

BeginNack(c, m, requeue) ==
    /\ At(c, "idle")
    /\ m \in held[c]
    /\ msg[m].attempt < MaxAttempt
    /\ held' = [held EXCEPT ![c] = @ \ {m}]
    /\ IF Recognised(m)
       THEN client' = [client EXCEPT ![c].pc = IF requeue THEN "nack" ELSE "drop",
                                     ![c].id = m,
                                     ![c].attempt = msg[m].attempt + 1]
       ELSE UNCHANGED client
    /\ UNCHANGED <<stored, crashes>>

\* Mutant: a returned message has no attempt counted.
SaveNacked_Uncounted(c) ==
    /\ At(c, "nack")
    /\ msg' = [msg EXCEPT ![Id(c)].status = "pending"]
    /\ early' \in {early, early \union {Id(c)}}
    /\ GoTo(c, "remove")
    /\ UNCHANGED <<pending, inflight, index, registered, held, crashes>>

\* With delay_ms the message is not due before its available_at.
SaveNacked(c) ==
    /\ At(c, "nack")
    /\ msg' = [msg EXCEPT ![Id(c)] = [status |-> "pending",
                                      attempt |-> client[c].attempt]]
    /\ early' \in {early, early \union {Id(c)}}
    /\ GoTo(c, "remove")
    /\ UNCHANGED <<pending, inflight, index, registered, held, crashes>>

NackRemove(c) ==
    /\ At(c, "remove")
    /\ inflight' = inflight \ {Id(c)}
    /\ IF msg[Id(c)].status = "pending" THEN GoTo(c, "pushback") ELSE Finish(c)
    /\ UNCHANGED <<pending, index, msg, early, registered, held, crashes>>

PushBack(c) ==
    /\ At(c, "pushback")
    /\ pending' = <<Id(c)>> \o pending
    /\ Finish(c)
    /\ UNCHANGED <<inflight, index, msg, early, registered, held, crashes>>

\* Without requeue the message stays stored as discarded.
SaveDiscarded(c) ==
    /\ At(c, "drop")
    /\ msg' = [msg EXCEPT ![Id(c)] = [status |-> "discarded",
                                      attempt |-> client[c].attempt]]
    /\ GoTo(c, "remove")
    /\ UNCHANGED <<pending, inflight, index, early, registered, held, crashes>>

-----------------------------------------------------------------------------
\* An available_at passes.
BecomesDue(m) ==
    /\ m \in early
    /\ early' = early \ {m}
    /\ UNCHANGED <<pending, inflight, index, msg, registered, client, held, crashes>>

\* A process dies and is started again; what Redis holds stays.
Crash(c) ==
    /\ crashes < MaxCrashes
    /\ ~At(c, "idle") \/ held[c] # {}
    /\ crashes' = crashes + 1
    /\ Finish(c)
    /\ held' = [held EXCEPT ![c] = {}]
    /\ UNCHANGED stored

GoOn(c) ==
    \/ SaveNew(c) \/ PushNew(c) \/ TrackKeys(c)
    \/ PopHead(c) \/ LoadHead(c) \/ Rotate(c)
    \/ MarkInflight(c) \/ AddInflight(c) \/ Deliver(c)
    \/ AckRemove(c) \/ DeleteMsg(c) \/ DeleteIndex(c)
    \/ SaveNacked(c) \/ SaveDiscarded(c) \/ NackRemove(c) \/ PushBack(c)

Next ==
    \/ \E c \in Clients :
        \/ CountPending(c)
        \/ \E m \in Msgs :
            \/ SetIndex(c, m)
            \/ BeginAck(c, m)
            \/ \E requeue \in BOOLEAN : BeginNack(c, m, requeue)
        \/ GoOn(c)
        \/ Crash(c)
    \/ \E m \in Msgs : BecomesDue(m)

Spec == Init /\ [][Next]_vars

\* A method that has begun goes on, time passes, and a worker polls the
\* tenants list_tenants gives it: those it finds in the registry.
FairSpec ==
    /\ Spec
    /\ \A c \in Clients :
        WF_vars(GoOn(c)) /\ WF_vars(registered /\ CountPending(c))
    /\ \A m \in Msgs : WF_vars(BecomesDue(m))

-----------------------------------------------------------------------------
InList(m) == \E i \in DOMAIN pending : pending[i] = m

Hands(c) == held[c] \union ({Id(c)} \ {None})

\* LPOP is what keeps two processes apart: although dequeue marks a message in
\* flight only several commands later, no two processes ever hold one message,
\* and what is in a process's hands is in the list neither once nor twice.
OneHolder ==
    /\ \A c, d \in Clients : c # d => Hands(c) \intersect Hands(d) = {}
    /\ \A c \in Clients : \A m \in Hands(c) : ~InList(m)
    /\ \A i, h \in DOMAIN pending : pending[i] = pending[h] => i = h

Stranded(m) ==
    /\ msg[m].status = "pending"
    /\ ~InList(m)
    /\ \A c \in Clients : m \notin Hands(c)

\* A message in the list is served although several processes pop and rotate it
\* at once: always when no process dies, and when one does, unless the message
\* was in its hands (dequeue) or its queue never got into the registry
\* (enqueue tracks the keys last).
ServedUnlessLost ==
    \A m \in Msgs :
        /\ InList(m) ~> (msg[m].status # "pending" \/ crashes > 0)
        /\ (InList(m) /\ registered) ~> (msg[m].status # "pending" \/ Stranded(m))

\* The status stored at msg_key runs through the message life of QueueContract,
\* whichever commands of other processes or deaths come in between.
StageOf(m) ==
    IF msg[m].status \in {"discarded", "deleted"} THEN "gone" ELSE msg[m].status

Contract == INSTANCE QueueContract WITH
                stage <- [m \in Msgs |-> StageOf(m)],
                attempt <- [m \in Msgs |-> msg[m].attempt]

ImplementsContract == Contract!QueueSpec
=============================================================================
