----------------------------- MODULE LegalHold -----------------------------
(***************************************************************************)
(* Legal holds and storage cleanup (app/store_ops.py), the archiving of    *)
(* reports (app/store.py) and the object storage they share, files with    *)
(* meta data or an S3 bucket (app/object_storage.py).                      *)
(*                                                                         *)
(* A report's file is named by a digest of its content: a version.  A hold *)
(* is named by the thread that imposed it.                                 *)
(***************************************************************************)
EXTENDS Requests

CONSTANTS
    Objects,        \* archived reports, each of the tenant Owner[o]
    Owner,
    Versions,       \* contents a report may have
    FirstVersion,   \* what was archived when the report was made
    Backends,       \* the object storages it may be configured with
    Worm,           \* OBJECT_STORAGE_WORM_MODE
    Retention       \* OBJECT_STORAGE_RETENTION_DAYS > 0

ASSUME LegalHoldAssumption ==
    /\ Backends \subseteq {"local", "s3"}
    /\ Worm \in BOOLEAN /\ Retention \in BOOLEAN
    /\ FirstVersion \in Versions /\ None \notin Objects \X Versions

\* Holds, cleanups and archiving are of reports; a report is archived by its tenant.
ASSUME HeldAssumption ==
    \A r \in UNION Traffic :
        /\ r.kind \in {"impose", "release", "cleanup", "archive"} => r.on \in Objects
        /\ r.kind = "archive" => r.body \in Versions /\ r.tenant = Owner[r.on]

VARIABLES
    files,          \* files[u]: the stored file and its meta data
    holds,          \* legal_hold_objects
    backend,        \* BEA_OBJECT_STORAGE_BACKEND
    current         \* current[o]: report_uri of the stored report

storage == <<files, holds, backend, current>>

Uris == Objects \X Versions
Missing == [exists |-> FALSE, locked |-> FALSE, retained |-> FALSE]
Stored(r) == [exists |-> TRUE, locked |-> FALSE, retained |-> r]
NoHold == [status |-> "absent", on |-> None, tenant |-> None, uri |-> None]

LegalHoldInit ==
    /\ files = [u \in Uris |-> IF u[2] = FirstVersion THEN Stored(Retention) ELSE Missing]
    /\ holds = [h \in Threads |-> NoHold]
    /\ backend \in Backends
    /\ current = [o \in Objects |-> <<o, FirstVersion>>]

\* _find_active_legal_hold
ActiveHolds(tenant, o) ==
    {h \in Threads : /\ holds[h].status = "active"
                     /\ holds[h].on = o /\ holds[h].tenant = tenant}
MyHolds(t) == ActiveHolds(req[t].tenant, req[t].on)

\* _resolve_storage_uri reads the report of the caller's tenant.
Resolved(t) == IF req[t].tenant = Owner[req[t].on] THEN current[req[t].on] ELSE None

(***************************************************************************)
(* impose_legal_hold: an active hold is returned as it is; otherwise the   *)
(* file is locked first and the hold recorded after it.                    *)
(***************************************************************************)
FoundHold(t) ==
    /\ At(t, "findHold") /\ Doing(t, "impose")
    /\ MyHolds(t) # {}
    /\ Leave(t, "ok")
    /\ UNCHANGED <<traffic, req, before, shared, storage>>

NoHoldYet(t) ==
    /\ At(t, "findHold") /\ Doing(t, "impose")
    /\ MyHolds(t) = {}
    /\ GoTo(t, "resolve")
    /\ UNCHANGED <<traffic, req, local, before, shared, storage>>

\* The uri decides what comes next; a hold without file has nothing to lock.
AfterResolve(t, uri) ==
    CASE Doing(t, "impose")  -> IF uri = None THEN "recordHold" ELSE "applyLock"
      [] Doing(t, "cleanup") -> IF uri = None THEN "logCleanup" ELSE "checkRetention"
      [] OTHER               -> IF uri = None THEN "logRelease" ELSE "releaseLock"

Resolve(t) ==
    /\ At(t, "resolve")
    /\ Set(t, "uri", Resolved(t))
    /\ GoTo(t, AfterResolve(t, Resolved(t)))
    /\ holds' = IF Doing(t, "release")
                THEN [holds EXCEPT ![local[t].ref].uri = Resolved(t)] ELSE holds
    /\ UNCHANGED <<traffic, req, before, shared, files, backend, current>>

\* S3ObjectStorage answers FALSE when a call fails; LocalObjectStorage raises.
Answers(b) == IF backend = "s3" THEN {b, FALSE} ELSE {b}
PutTakes == Answers(Retention)
LockTakes == Answers(TRUE)
LockSeen(uri) == Answers(files[uri].locked)
RetentionSeen(uri) == Answers(files[uri].retained)

\* apply_legal_hold and release_legal_hold do nothing without a file.
SetLock(uri, b) ==
    \E done \in LockTakes :
        files' = [files EXCEPT ![uri].locked =
                    IF files[uri].exists /\ done THEN b ELSE @]

ApplyLock(t) ==
    /\ At(t, "applyLock")
    /\ SetLock(local[t].uri, TRUE)
    /\ GoTo(t, "recordHold")
    /\ UNCHANGED <<traffic, req, local, before, shared, holds, backend, current>>

RecordHold(t) ==
    /\ At(t, "recordHold")
    /\ holds' = [holds EXCEPT ![t] = [status |-> "active", on |-> req[t].on,
                                      tenant |-> req[t].tenant, uri |-> local[t].uri]]
    /\ Log(t, "ok", "over")
    /\ UNCHANGED <<traffic, req, before, shared, files, backend, current>>

(***************************************************************************)
(* release_legal_hold: the hold is released before its file is unlocked.   *)
(* The hold to release is any the client has heard of; a hold of another   *)
(* tenant is not found, a released one is a conflict.                      *)
(***************************************************************************)
Named(t, h) == IF local[t].ref = None
               THEN holds[h].status # "absent" /\ holds[h].on = req[t].on
               ELSE h = local[t].ref

SetReleased(t, h) ==
    /\ At(t, "setReleased") /\ Named(t, h)
    /\ holds[h].tenant = req[t].tenant /\ holds[h].status = "active"
    /\ holds' = [holds EXCEPT ![h].status = "released"]
    /\ local' = [local EXCEPT ![t].ref = h, ![t].uri = holds[h].uri]
    /\ GoTo(t, IF holds[h].uri = None THEN "resolve" ELSE "releaseLock")
    /\ UNCHANGED <<traffic, req, before, shared, files, backend, current>>

RefuseRelease(t) ==
    /\ At(t, "setReleased")
    /\ \E h \in Threads :
          \/ ~Named(t, h) /\ local[t].ref = None
          \/ Named(t, h) /\ (holds[h].tenant # req[t].tenant \/ holds[h].status = "released")
    /\ Return(t, "refused")
    /\ UNCHANGED <<traffic, req, before, shared, storage>>

ReleaseLock(t) ==
    /\ At(t, "releaseLock")
    /\ SetLock(local[t].uri, FALSE)
    /\ Log(t, "ok", "toolEnd")
    /\ UNCHANGED <<traffic, req, before, shared, holds, backend, current>>

LogRelease(t) ==
    /\ At(t, "logRelease")
    /\ Log(t, "ok", "toolEnd")
    /\ UNCHANGED <<traffic, req, before, shared, storage>>

(***************************************************************************)
(* execute_storage_cleanup and delete_object: look for a hold, read the    *)
(* uri, check retention, check the lock, delete.                           *)
(***************************************************************************)
BlockedByHold(t) ==
    /\ At(t, "findHold") /\ Doing(t, "cleanup")
    /\ MyHolds(t) # {}
    /\ Log(t, "refused", "over")
    /\ UNCHANGED <<traffic, req, before, shared, storage>>

\* Mutant: leaves holds to the storage's lock.
NotHeld_TrustsLock(t) ==
    /\ At(t, "findHold") /\ Doing(t, "cleanup")
    /\ GoTo(t, "resolve")
    /\ UNCHANGED <<traffic, req, local, before, shared, storage>>

NotHeld(t) ==
    /\ At(t, "findHold") /\ Doing(t, "cleanup")
    /\ MyHolds(t) = {}
    /\ GoTo(t, "resolve")
    /\ UNCHANGED <<traffic, req, local, before, shared, storage>>

CheckRetention(t) ==
    /\ At(t, "checkRetention")
    /\ \E retained \in RetentionSeen(local[t].uri) :
          IF retained
          THEN Log(t, "refused", "over")
          ELSE GoTo(t, "checkLock") /\ UNCHANGED local
    /\ UNCHANGED <<traffic, req, before, shared, storage>>

CheckLock(t) ==
    /\ At(t, "checkLock")
    /\ \E locked \in LockSeen(local[t].uri), retained \in RetentionSeen(local[t].uri) :
          IF locked \/ retained
          THEN Leave(t, "refused")
          ELSE GoTo(t, "unlink") /\ UNCHANGED local
    /\ UNCHANGED <<traffic, req, before, shared, storage>>

Unlink(t) ==
    /\ At(t, "unlink")
    /\ files' = [files EXCEPT ![local[t].uri] = Missing]
    /\ Log(t, "ok", "over")
    /\ UNCHANGED <<traffic, req, before, shared, holds, backend, current>>

LogCleanup(t) ==
    /\ At(t, "logCleanup")
    /\ Log(t, "ok", "over")
    /\ UNCHANGED <<traffic, req, before, shared, storage>>

(***************************************************************************)
(* _archive_report_to_object_storage and the upsert of the report.         *)
(***************************************************************************)
PutUri(t) == <<req[t].on, req[t].body>>

Put(t) ==
    /\ At(t, "put")
    /\ \E found \in Answers(files[PutUri(t)].exists), retained \in PutTakes :
          files' = IF found /\ Worm
                   THEN files ELSE [files EXCEPT ![PutUri(t)] = Stored(retained)]
    /\ Set(t, "uri", PutUri(t))
    /\ GoTo(t, "holdOfPut")
    /\ UNCHANGED <<traffic, req, before, shared, holds, backend, current>>

\* Mutant: the hold keeps the uri of the version it was imposed on.
HoldOfPut_KeepsUri(t) ==
    /\ At(t, "holdOfPut")
    /\ GoTo(t, IF MyHolds(t) = {} THEN "upsert" ELSE "lockPut")
    /\ UNCHANGED <<traffic, req, local, before, shared, storage>>

HoldOfPut(t) ==
    /\ At(t, "holdOfPut")
    /\ \/ /\ MyHolds(t) = {}
          /\ GoTo(t, "upsert")
          /\ UNCHANGED holds
       \/ \E h \in MyHolds(t) :
             /\ holds' = [holds EXCEPT ![h].uri = local[t].uri]
             /\ GoTo(t, "lockPut")
    /\ UNCHANGED <<traffic, req, local, before, shared, files, backend, current>>

LockPut(t) ==
    /\ At(t, "lockPut")
    /\ SetLock(local[t].uri, TRUE)
    /\ GoTo(t, "upsert")
    /\ UNCHANGED <<traffic, req, local, before, shared, holds, backend, current>>

Upsert(t) ==
    /\ At(t, "upsert")
    /\ current' = [current EXCEPT ![req[t].on] = local[t].uri]
    /\ Leave(t, "ok")
    /\ UNCHANGED <<traffic, req, before, shared, files, backend, holds>>

\* A retention period ends.
RetentionEnds(u) ==
    /\ files[u].retained
    /\ files' = [files EXCEPT ![u].retained = FALSE]
    /\ UNCHANGED <<thread, shared, holds, backend, current>>

HoldStep(t) ==
    \/ FoundHold(t) \/ NoHoldYet(t) \/ Resolve(t) \/ ApplyLock(t) \/ RecordHold(t)
    \/ (\E h \in Threads : SetReleased(t, h)) \/ RefuseRelease(t)
    \/ ReleaseLock(t) \/ LogRelease(t)
    \/ BlockedByHold(t) \/ NotHeld(t) \/ CheckRetention(t) \/ CheckLock(t)
    \/ Unlink(t) \/ LogCleanup(t)
    \/ Put(t) \/ HoldOfPut(t) \/ LockPut(t) \/ Upsert(t)
=============================================================================
