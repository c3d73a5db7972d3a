---------------------------- MODULE QueueContract ----------------------------
(***************************************************************************)
(* What every queue backend of app/queue_backend.py promises its callers:  *)
(* the life of one message, whatever the order in which messages are       *)
(* served.  It is the status column of SqliteQueueBackend                  *)
(* (pending -> inflight -> row deleted, or back to pending, or discarded); *)
(* the deque of InMemoryQueueBackend is shown to implement it              *)
(* (InMemoryQueue), and JobEngine is built on it.                          *)
(*                                                                         *)
(* Abstracted: which available message a dequeue picks (any pending one),  *)
(* the clock behind available_at, tenants and queue names.                 *)
(***************************************************************************)
EXTENDS Naturals

CONSTANTS
    Msgs            \* message ids (msg_<uuid>), each used for one enqueue

VARIABLES
    stage,          \* stage[m]: where message m is in its life
    attempt         \* attempt[m]: QueueMessage.attempt, bumped by nack

queueVars == <<stage, attempt>>

Stages == {"unused", "pending", "inflight", "gone"}

QueueTypeOK ==
    /\ stage \in [Msgs -> Stages]
    /\ attempt \in [Msgs -> Nat]

QueueInit ==
    /\ stage = [m \in Msgs |-> "unused"]
    /\ attempt = [m \in Msgs |-> 0]

Move(m, from, to) ==
    /\ stage[m] = from
    /\ stage' = [stage EXCEPT ![m] = to]

Enqueue(m) == Move(m, "unused", "pending") /\ UNCHANGED attempt

Dequeue(m) == Move(m, "pending", "inflight") /\ UNCHANGED attempt

\* ack of a message that is not in flight returns without effect.
Ack(m) == Move(m, "inflight", "gone") /\ UNCHANGED attempt

\* A nack counts the attempt; without requeue the message is dropped.
Nack(m, requeue) ==
    /\ Move(m, "inflight", IF requeue THEN "pending" ELSE "gone")
    /\ attempt' = [attempt EXCEPT ![m] = @ + 1]

QueueNext ==
    \E m \in Msgs :
        \/ Enqueue(m)
        \/ Dequeue(m)
        \/ Ack(m)
        \/ \E requeue \in BOOLEAN : Nack(m, requeue)

QueueSpec == QueueInit /\ [][QueueNext]_queueVars
=============================================================================
