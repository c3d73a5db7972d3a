----------------------------- MODULE DlqReview -----------------------------
(***************************************************************************)
(* Requeue and discard of dead-letter items (app/store_ops.py), the part   *)
(* between the idempotency record and the audit log.  The repository hands *)
(* out copies: the row written back is the one read before, with its       *)
(* status changed.                                                         *)
(***************************************************************************)
EXTENDS Requests

CONSTANTS
    Items,          \* dead-letter items, each of the tenant ItemTenant[d]
    ItemTenant

\* Reviews are of items; an item of another tenant is not found.
ASSUME DlqReviewAssumption ==
    \A r \in UNION Traffic : r.kind \in {"requeue", "discard"} => r.on \in Items

VARIABLES
    items,          \* items[d]: status of the item
    requeues        \* jobs of type requeue: [item, by]

dlq == <<items, requeues>>

DlqInit ==
    /\ items = [d \in Items |-> "open"]
    /\ requeues = {}

SeesItem(t) == req[t].tenant = ItemTenant[req[t].on]

\* Mutant: a requeue takes back what was discarded.
ReadItem_TakesDiscarded(t) ==
    /\ At(t, "readItem")
    /\ SeesItem(t)
    /\ Doing(t, "requeue") => items[req[t].on] \in {"open", "discarded"}
    /\ GoTo(t, IF Doing(t, "requeue") THEN "persistJob" ELSE "persistItem")
    /\ UNCHANGED <<traffic, req, local, before, shared, dlq>>

\* get_dlq_item finds items of the caller's tenant.  A requeue wants the item
\* open; a discard takes it in any status.
ReadItem(t) ==
    /\ At(t, "readItem")
    /\ SeesItem(t)
    /\ Doing(t, "requeue") => items[req[t].on] = "open"
    /\ GoTo(t, IF Doing(t, "requeue") THEN "persistJob" ELSE "persistItem")
    /\ UNCHANGED <<traffic, req, local, before, shared, dlq>>

RefuseItem(t) ==
    /\ At(t, "readItem")
    /\ ~SeesItem(t) \/ (Doing(t, "requeue") /\ items[req[t].on] # "open")
    /\ Return(t, "refused")
    /\ UNCHANGED <<traffic, req, before, shared, dlq>>

\* The new job has no outbox event: only run-now or the debug endpoints start it.
PersistJob(t) ==
    /\ At(t, "persistJob")
    /\ requeues' = requeues \union {[item |-> req[t].on, by |-> t]}
    /\ GoTo(t, "persistItem")
    /\ UNCHANGED <<traffic, req, local, before, shared, items>>

PersistItem(t) ==
    /\ At(t, "persistItem")
    /\ items' = [items EXCEPT ![req[t].on] =
                   IF Doing(t, "requeue") THEN "requeued" ELSE "discarded"]
    /\ Log(t, "ok", IF Doing(t, "requeue") THEN "record" ELSE "toolEnd")
    /\ UNCHANGED <<traffic, req, before, shared, requeues>>

DlqStep(t) == ReadItem(t) \/ RefuseItem(t) \/ PersistJob(t) \/ PersistItem(t)
=============================================================================
