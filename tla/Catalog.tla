------------------------------ MODULE Catalog ------------------------------
(***************************************************************************)
(* Projects, suppliers, rule packs and uploaded documents                  *)
(* (app/store_admin.py over app/repositories): rows with a key of their    *)
(* own and a code that is to be unique within its tenant, a project or     *)
(* supplier code, a rule pack's version or a file's SHA-256.               *)
(*                                                                         *)
(* A row is named by the request that made it; its code is that request's  *)
(* "on".  Nothing in the repositories makes codes unique: the create       *)
(* operations look for one first.                                          *)
(***************************************************************************)
EXTENDS Requests

\* What is stored of a project, supplier, rule pack or document is a value.
ASSUME CatalogAssumption ==
    \A r \in UNION Traffic : r.kind \in {"create", "upload", "update"} => r.body # None

VARIABLES
    rows,           \* rows[i]: the value of the row made by i, or None
    parses          \* rows whose parse job was created

catalog == <<rows, parses>>

CatalogInit ==
    /\ rows = [i \in Threads |-> None]
    /\ parses = {}

Exists(i) == rows[i] # None
RowsOf(tenant, code) ==
    {i \in Threads : Exists(i) /\ req[i].tenant = tenant /\ req[i].on = code}
UpsertRow(i, v) == rows' = [rows EXCEPT ![i] = v]
Remove(i) == rows' = [rows EXCEPT ![i] = None]
Twins(t) == RowsOf(req[t].tenant, req[t].on)

\* Mutant: makes a row without looking for its code.
FindRow_NeverFinds(t) ==
    /\ At(t, "findRow")
    /\ GoTo(t, "persistRow")
    /\ UNCHANGED <<traffic, req, local, before, shared, catalog>>

\* get_by_code, or find_document_by_file_sha256: an existing row is the answer,
\* whatever became of the request that made it.
FindRow(t) ==
    /\ At(t, "findRow")
    /\ IF Twins(t) = {}
       THEN GoTo(t, "persistRow") /\ UNCHANGED local
       ELSE \E i \in Twins(t) : GoTo(t, "record") /\ Set(t, "ref", i)
    /\ UNCHANGED <<traffic, req, before, shared, catalog>>

PersistRow(t) ==
    /\ At(t, "persistRow")
    /\ UpsertRow(t, req[t].body)
    /\ Set(t, "ref", t)
    /\ GoTo(t, IF Doing(t, "upload") THEN "createParse" ELSE "record")
    /\ UNCHANGED <<traffic, req, before, shared, parses>>

\* create_upload_job ends with create_parse_job.
CreateParse(t) ==
    /\ At(t, "createParse")
    /\ parses' = parses \union {t}
    /\ GoTo(t, "record")
    /\ UNCHANGED <<traffic, req, local, before, shared, rows>>

\* An update changes the copy it was handed and writes all of it back.
KnownTo(t, i) == req[i] # None /\ req[i].kind = "create" /\ i # t
Sees(t, i) == KnownTo(t, i) /\ Exists(i) /\ req[i].tenant = req[t].tenant

ReadRow(t, i) ==
    /\ At(t, "readRow") /\ Sees(t, i)
    /\ Set(t, "ref", i)
    /\ GoTo(t, "writeRow")
    /\ UNCHANGED <<traffic, req, before, shared, catalog>>

WriteRow(t) ==
    /\ At(t, "writeRow")
    /\ UpsertRow(local[t].ref, req[t].body)
    /\ Leave(t, "ok")
    /\ UNCHANGED <<traffic, req, before, shared, parses>>

DeleteRow(t, i) ==
    /\ At(t, "deleteRow") /\ Sees(t, i)
    /\ Remove(i)
    /\ local' = [local EXCEPT ![t].ref = i, ![t].outcome = "ok"]
    /\ GoTo(t, "over")
    /\ UNCHANGED <<traffic, req, before, shared, parses>>

RowNotFound(t, i) ==
    /\ pc[t] \in {"readRow", "deleteRow"} /\ KnownTo(t, i) /\ ~Sees(t, i)
    /\ Leave(t, "refused")
    /\ UNCHANGED <<traffic, req, before, shared, catalog>>

CatalogStep(t) ==
    \/ FindRow(t) \/ PersistRow(t) \/ CreateParse(t) \/ WriteRow(t)
    \/ \E i \in Threads : ReadRow(t, i) \/ DeleteRow(t, i) \/ RowNotFound(t, i)
=============================================================================
