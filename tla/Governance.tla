----------------------------- MODULE Governance -----------------------------
(***************************************************************************)
(* The requests that decide what may be retried, thrown away or deleted:   *)
(* dead-letter review, legal holds, storage cleanup and report archiving,  *)
(* with the catalog's requests, served at the same time over one store and *)
(* one audit log.                                                          *)
(*                                                                         *)
(* Properties speak of requests that began after others had been answered: *)
(* nothing orders requests that overlap.                                   *)
(***************************************************************************)
EXTENDS DlqReview, LegalHold, Catalog

vars == <<thread, shared, dlq, storage, catalog>>

Init == RequestsInit /\ DlqInit /\ LegalHoldInit /\ CatalogInit

Next ==
    \/ \E t \in Threads : RequestStep(t) /\ UNCHANGED <<dlq, storage, catalog>>
    \/ \E t \in Threads : DlqStep(t) /\ UNCHANGED <<storage, catalog>>
    \/ \E t \in Threads : HoldStep(t) /\ UNCHANGED <<dlq, catalog>>
    \/ \E t \in Threads : CatalogStep(t) /\ UNCHANGED <<dlq, storage>>
    \/ \E u \in Uris : RetentionEnds(u) /\ UNCHANGED <<dlq, catalog>>

Spec == Init /\ [][Next]_vars

-----------------------------------------------------------------------------
Begun == {t \in Threads : pc[t] # "idle"}
Ordered(t, u) == t = u \/ t \in before[u] \/ u \in before[t]

\* No job is made for an item once a requeue or discard of it has been
\* answered with success: requeue_dlq_item looks at a copy of the row and
\* writes it back later, discard_dlq_item does not look at the status at all.
SettledOnce ==
    \A job \in requeues : \A u \in before[job.by] :
        ~ (/\ Doing(u, "requeue") \/ Doing(u, "discard")
           /\ req[u].on = job.item /\ Succeeded(u))

\* A key that has been answered with success is not executed again: a later
\* request with it gets an answer of that key and of its own payload, or a
\* conflict (run_idempotent looks the key up, executes and records without a
\* lock, and records nothing for an execution that fails).
AnsweredOnce ==
    \A t \in Threads : (Succeeded(t) /\ IsKeyed(t)) =>
        LET a == local[t].author IN
        /\ RecordKey(a) = RecordKey(t) /\ Fingerprint(a) = Fingerprint(t)
        /\ \A u \in before[t] :
              (Succeeded(u) /\ IsKeyed(u) /\ RecordKey(u) = RecordKey(t)) => a # t

\* What verify_audit_integrity computes for one tenant: it follows prev_hash
\* through that tenant's entries only.
Positions(tenant) == {i \in 1 .. Len(audit) : audit[i].tenant = tenant}
Verifies(tenant) ==
    \A i \in Positions(tenant) :
        audit[i].prev = (IF \E j \in Positions(tenant) : j < i
                         THEN CHOOSE j \in Positions(tenant) :
                                 j < i /\ \A k \in Positions(tenant) : k < i => k <= j
                         ELSE 0)

\* The integrity check of an untouched log fails only when requests overlapped
\* or when another tenant's requests are in the same log.
ChainVerifies ==
    \A t \in Begun :
        (/\ \A u, w \in Begun : Ordered(u, w)
         /\ \A u \in Begun : req[u].tenant = req[t].tenant)
            => Verifies(req[t].tenant)

\* Cleanup never deletes a file of an object that was put under hold before
\* the cleanup began.  It checks holds first and the file's lock later, while
\* archiving may move the hold to a new version and a release may unlock a
\* file that a second hold still covers.
HoldProtects ==
    [][\A u \in Uris : (files[u].exists /\ ~files'[u].exists) =>
          \A h \in ActiveHolds(Owner[u[1]], u[1]) :
              \E t \in Threads : /\ At(t, "unlink") /\ local[t].uri = u
                                 /\ h \notin before[t]]_vars

\* A report went back to a version it had left: in write-once mode put_object
\* keeps the file that is there, and whatever lock it was left with.
Archives(t, o) == Doing(t, "archive") /\ req[t].on = o
Returned(o) ==
    Worm /\ \E u \in Begun : \E t \in before[u] :
        /\ Archives(t, o) /\ PutUri(t) # current[o]
        /\ Archives(u, o) /\ PutUri(u) = current[o]

\* Requests that came one after the other, none of them failing or taking a
\* second attempt, leave the file of a report in the local storage locked
\* while a hold on it is active, and not otherwise, except when the report went
\* back to a version it had left (impose_legal_hold, release_legal_hold and
\* _archive_report_to_object_storage lock and unlock one file each).
LockFollowsHold ==
    (/\ backend = "local"
     /\ \A t \in Begun : Over(t) /\ local[t].outcome # "error" /\ local[t].attempt = 1
     /\ \A t, u \in Begun : Ordered(t, u))
        => \A o \in Objects :
              files[current[o]].exists =>
                  IF ActiveHolds(Owner[o], o) # {} THEN files[current[o]].locked
                  ELSE files[current[o]].locked => Returned(o)

\* Two rows of one tenant have the same code only when the requests that made
\* them overlapped, or when one of them was deleted while an update held a copy
\* of it and wrote it back.  A document is found by its digest in the same way.
SameCode(i, j) == req[i].tenant = req[j].tenant /\ req[i].on = req[j].on
OneRowPerCode ==
    \A i, j \in Threads :
        (Exists(i) /\ Exists(j) /\ SameCode(i, j) /\ i \in before[j] /\ i # j) =>
            \E u, d \in Threads :
                /\ Doing(u, "update") /\ Doing(d, "delete") /\ ~Ordered(u, d)
                /\ local[u].ref = i /\ local[d].ref = i
=============================================================================
