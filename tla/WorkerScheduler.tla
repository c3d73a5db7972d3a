--------------------------- MODULE WorkerScheduler ---------------------------
(***************************************************************************)
(* WorkerRuntime.run_once and run_forever (app/worker_runtime.py): in      *)
(* which order one worker loop serves the queues and the tenants.          *)
(*                                                                         *)
(* What a message does is JobEngine's matter; here a message is acked or,  *)
(* when its job answers "retrying", nacked and hidden until its backoff    *)
(* ends.  list_tenants and dequeue are one action each.                    *)
(***************************************************************************)
EXTENDS Naturals, FiniteSets

CONSTANTS
    NumQueues,      \* queue_names, numbered in their order
    NumTenants,     \* tenant ids, numbered in their sorted order
    BurstLimit,     \* tenant_burst_limit
    MaxMessages,    \* max_messages_per_iteration
    MaxReady        \* bound on the messages of one key that wait

ASSUME WorkerSchedulerAssumption ==
    /\ NumQueues \in Nat \ {0} /\ NumTenants \in Nat \ {0}
    /\ BurstLimit \in Nat \ {0} /\ MaxMessages \in Nat \ {0}
    /\ MaxReady \in Nat \ {0}

Queues == 1 .. NumQueues
Tenants == 1 .. NumTenants
Keys == Queues \X Tenants

VARIABLES
    ready,          \* ready[k]: messages of key k that can be dequeued
    hidden,         \* hidden[k]: messages of key k waiting for their backoff
    loop,           \* the local variables of run_once
    last,           \* history: the key served last
    passed          \* history: messages of other keys served since k waits

loopVars == <<ready, hidden, loop, last, passed>>

\* Where the loop is: in its while or its for; queue is queue_name, processed
\* is stats.processed, tenants are those of the for loop still to come, and
\* burst the turns taken by the present tenant.

FirstPass == [pc |-> "while", queue |-> 1, processed |-> 0, tenants |-> {},
              burst |-> 0, progressed |-> FALSE]

LoopInit ==
    /\ ready = [k \in Keys |-> 0]
    /\ hidden = [k \in Keys |-> 0]
    /\ loop = FirstPass
    /\ last = <<0, 0>>
    /\ passed = [k \in Keys |-> 0]

\* The relay enqueues a message of key k; a backoff ends.
Arrive(k) ==
    /\ ready[k] + hidden[k] < MaxReady
    /\ ready' = [ready EXCEPT ![k] = @ + 1]
    /\ UNCHANGED <<hidden, loop, last, passed>>

BackoffEnds(k) ==
    /\ hidden[k] > 0
    /\ hidden' = [hidden EXCEPT ![k] = @ - 1]
    /\ ready' = [ready EXCEPT ![k] = @ + 1]
    /\ UNCHANGED <<loop, last, passed>>

-----------------------------------------------------------------------------
(* run_once, over and over *)

\* Tenants with a message in the queue, hidden ones included.
ListedTenants == {t \in Tenants : ready[<<loop.queue, t>>] + hidden[<<loop.queue, t>>] > 0}

\* The while loop ends: the next queue, or the next call of run_once.
NextQueue ==
    loop' = IF loop.queue < NumQueues
            THEN [loop EXCEPT !.pc = "while", !.queue = @ + 1]
            ELSE FirstPass

ListTenants ==
    /\ loop.pc = "while"
    /\ IF loop.processed < MaxMessages /\ ListedTenants # {}
       THEN loop' = [loop EXCEPT !.pc = "for", !.burst = 0, !.progressed = FALSE,
                                 !.tenants = ListedTenants]
       ELSE NextQueue
    /\ UNCHANGED <<ready, hidden, last, passed>>

\* passed counts no further than one above this.
OvertakingBound == 3 * BurstLimit * (NumTenants - 1)

IsFirst(t) == t \in loop.tenants /\ \A s \in loop.tenants : t <= s

\* The turn of t is over: burst used up, budget used up, or nothing to dequeue.
TurnOver(t) ==
    \/ loop.burst = BurstLimit
    \/ loop.processed = MaxMessages
    \/ ready[<<loop.queue, t>>] = 0

\* Mutant: the pass ends with the turn of one tenant.
PassTurn_EndsPass(t) ==
    /\ loop.pc = "for"
    /\ IsFirst(t)
    /\ TurnOver(t)
    /\ loop' = [loop EXCEPT !.tenants = {}, !.burst = 0]
    /\ UNCHANGED <<ready, hidden, last, passed>>

PassTurn(t) ==
    /\ loop.pc = "for"
    /\ IsFirst(t)
    /\ TurnOver(t)
    /\ loop' = [loop EXCEPT !.tenants = @ \ {t}, !.burst = 0]
    /\ UNCHANGED <<ready, hidden, last, passed>>

\* _process_message: the message is acked, or nacked with its backoff.
Process(t) ==
    LET k == <<loop.queue, t>> IN
    /\ loop.pc = "for"
    /\ IsFirst(t)
    /\ ~TurnOver(t)
    /\ ready' = [ready EXCEPT ![k] = @ - 1]
    /\ \/ UNCHANGED hidden
       \/ hidden' = [hidden EXCEPT ![k] = @ + 1]
    /\ loop' = [loop EXCEPT !.processed = @ + 1, !.burst = @ + 1, !.progressed = TRUE]
    /\ last' = k
    /\ passed' = [i \in Keys |-> IF i = k \/ ready[i] = 0 THEN 0
                                 ELSE IF passed[i] > OvertakingBound THEN passed[i]
                                 ELSE passed[i] + 1]

EndFor ==
    /\ loop.pc = "for"
    /\ loop.tenants = {}
    /\ IF loop.progressed THEN loop' = [loop EXCEPT !.pc = "while"] ELSE NextQueue
    /\ UNCHANGED <<ready, hidden, last, passed>>

RunForever ==
    \/ ListTenants
    \/ \E t \in Tenants : PassTurn(t) \/ Process(t)
    \/ EndFor

LoopNext ==
    \/ \E k \in Keys : Arrive(k) \/ BackoffEnds(k)
    \/ RunForever

LoopSpec == LoopInit /\ [][LoopNext]_loopVars

\* The loop never stops, and backoffs end; nobody has to enqueue anything.
LoopFairSpec ==
    /\ LoopSpec
    /\ WF_loopVars(RunForever)
    /\ \A k \in Keys : WF_loopVars(BackoffEnds(k))

-----------------------------------------------------------------------------
\* Where one pass over the tenants fits into one run_once, a tenant whose
\* message is due is overtaken by at most three bursts of every other tenant,
\* whatever arrives meanwhile and wherever the iteration budget cuts a pass.
BoundedOvertaking ==
    \A k \in Keys : passed[k] <= OvertakingBound

\* run_forever serves every key with a message that is due.  (Design document
\* workflow-and-worker-production-spec, 5.5 and 13.5: no tenant takes the
\* consumption window for itself, and queues are isolated.)
EveryKeyIsServed == \A k \in Keys : ready[k] > 0 ~> last = k
=============================================================================
