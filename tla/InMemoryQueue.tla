---------------------------- MODULE InMemoryQueue ----------------------------
(***************************************************************************)
(* InMemoryQueueBackend (app/queue_backend.py): one deque per tenant and   *)
(* queue name, a table of in-flight messages, delayed visibility through   *)
(* available_at.  Every method runs under the backend's lock, so each is   *)
(* one action.  Time is a counter; a queue key stands for one              *)
(* bea:<tenant>:queue:<name>.                                              *)
(***************************************************************************)
EXTENDS Integers, Sequences, FiniteSets

CONSTANTS
    Messages,       \* message ids
    QueueKeys,      \* queue keys, one per tenant and queue name
    NoKey,          \* key of a message id not used yet
    MaxClock,       \* bound on the clock
    MaxDelay,       \* largest delay asked of enqueue and nack
    MaxNacks        \* bound on the nacks of one message

ASSUME InMemoryQueueAssumption ==
    /\ NoKey \notin QueueKeys
    /\ MaxClock \in Nat /\ MaxDelay \in Nat /\ MaxNacks \in Nat

VARIABLES
    queues,         \* queues[k]: the deque of key k, left end first
    delivered,      \* ids in _inflight
    entry,          \* entry[m]: key, attempt and available_at of message m
    arrival,        \* history: place of m among the enqueue calls, 0 once m
                    \* was delayed or nacked
    clock

memoryVars == <<queues, delivered, entry, arrival, clock>>

MemoryInit ==
    /\ queues = [k \in QueueKeys |-> <<>>]
    /\ delivered = {}
    /\ entry = [m \in Messages |-> [key |-> NoKey, attempt |-> 0, due |-> 0]]
    /\ arrival = [m \in Messages |-> 0]
    /\ clock = 0

Unused(m) == entry[m].key = NoKey

\* An instant the bounded clock still reaches: every delay can elapse.
Delays == {d \in 0 .. MaxDelay : clock + d <= MaxClock}

\* Mutant: a message that was nacked is never available.
IsAvailable_FirstTryOnly(m) == entry[m].due <= clock /\ entry[m].attempt = 0

IsAvailable(m) == entry[m].due <= clock

Enqueue(k, m, delay) ==
    /\ Unused(m)
    /\ entry' = [entry EXCEPT ![m] = [key |-> k, attempt |-> 0, due |-> clock + delay]]
    /\ arrival' = IF delay > 0 THEN arrival
                  ELSE [arrival EXCEPT ![m] =
                           Cardinality({n \in Messages : ~Unused(n)}) + 1]
    /\ queues' = [queues EXCEPT ![k] = Append(@, m)]
    /\ UNCHANGED <<delivered, clock>>

\* Mutant: the deque is searched from its other end.
FirstAvailable_FromRight(q) ==
    CHOOSE i \in DOMAIN q :
        /\ IsAvailable(q[i])
        /\ \A h \in i + 1 .. Len(q) : ~IsAvailable(q[h])

\* The scan pops from the left, rotates what is not due to the right end
\* and stops at the first available message.  When none is, the deque has
\* made a full turn and nothing changed.
FirstAvailable(q) ==
    CHOOSE i \in DOMAIN q :
        /\ IsAvailable(q[i])
        /\ \A h \in 1 .. i - 1 : ~IsAvailable(q[h])

Rotated(q, i) == SubSeq(q, i + 1, Len(q)) \o SubSeq(q, 1, i - 1)

Dequeue(k) ==
    LET q == queues[k]
        i == FirstAvailable(q)
    IN  /\ \E h \in DOMAIN q : IsAvailable(q[h])
        /\ queues' = [queues EXCEPT ![k] = Rotated(q, i)]
        /\ delivered' = delivered \union {q[i]}
        /\ UNCHANGED <<entry, arrival, clock>>

\* An ack or nack by another tenant raises and changes nothing.
Ack(k, m) ==
    /\ m \in delivered
    /\ entry[m].key = k
    /\ delivered' = delivered \ {m}
    /\ UNCHANGED <<queues, entry, arrival, clock>>

\* Mutant: a returned message has no attempt counted.
Nack_Uncounted(k, m, requeue, delay) ==
    /\ m \in delivered
    /\ entry[m].key = k
    /\ delivered' = delivered \ {m}
    /\ queues' = IF requeue THEN [queues EXCEPT ![k] = <<m>> \o @] ELSE queues
    /\ UNCHANGED <<entry, arrival, clock>>

Nack(k, m, requeue, delay) ==
    /\ m \in delivered
    /\ entry[m].key = k
    /\ entry[m].attempt < MaxNacks
    /\ delivered' = delivered \ {m}
    /\ entry' = [entry EXCEPT ![m] = [key |-> k, attempt |-> @.attempt + 1,
                                      due |-> IF requeue THEN clock + delay ELSE @.due]]
    /\ queues' = IF requeue
                 THEN [queues EXCEPT ![k] = <<m>> \o @]
                 ELSE queues
    /\ arrival' = [arrival EXCEPT ![m] = 0]
    /\ UNCHANGED clock

Tick ==
    /\ clock < MaxClock
    /\ clock' = clock + 1
    /\ UNCHANGED <<queues, delivered, entry, arrival>>

MemoryNext ==
    \/ \E k \in QueueKeys :
        \/ Dequeue(k)
        \/ \E m \in Messages :
            \/ \E d \in Delays : Enqueue(k, m, d)
            \/ Ack(k, m)
            \/ \E d \in Delays, requeue \in BOOLEAN : Nack(k, m, requeue, d)
    \/ Tick

MemorySpec == MemoryInit /\ [][MemoryNext]_memoryVars

\* A consumer keeps polling every key (WorkerRuntime.run_forever) and time
\* passes; nothing is assumed of the callers that enqueue, ack or nack.
MemoryFairSpec ==
    /\ MemorySpec
    /\ WF_memoryVars(Tick)
    /\ \A k \in QueueKeys : WF_memoryVars(Dequeue(k))

-----------------------------------------------------------------------------
Waiting(m) == \E k \in QueueKeys : \E i \in DOMAIN queues[k] : queues[k][i] = m

\* Rotation never reorders the ordinary traffic: among the messages of one
\* deque that were visible when enqueued and never nacked, dequeue serves the
\* one enqueued first, however many delayed messages it skipped before.
VisibleFifo ==
    [][\A m \in delivered' \ delivered : \A n \in Messages :
        /\ arrival[m] > 0 /\ arrival[n] > 0
        /\ Waiting(n) /\ entry[n].key = entry[m].key
        => arrival[m] <= arrival[n]]_memoryVars

\* A message that waits is eventually handed to a consumer, even when it was
\* delayed, skipped and rotated behind others.  It needs the bound on nacks
\* (run_job_once answers "retrying" at most worker_max_retries times): a
\* message nacked without delay for ever would stay at the left end.
WaitingIsServed == \A m \in Messages : Waiting(m) ~> ~Waiting(m)

\* The deque and the in-flight table implement the message life of
\* QueueContract: nothing lost, duplicated, or delivered while in flight.
MemoryStage(m) ==
    IF Unused(m) THEN "unused"
    ELSE IF Waiting(m) THEN "pending"
    ELSE IF m \in delivered THEN "inflight" ELSE "gone"

MemoryContract == INSTANCE QueueContract WITH
                      Msgs <- Messages,
                      stage <- [m \in Messages |-> MemoryStage(m)],
                      attempt <- [m \in Messages |-> entry[m].attempt]

MemoryImplementsContract == MemoryContract!QueueSpec
=============================================================================
