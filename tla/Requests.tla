------------------------------ MODULE Requests ------------------------------
(***************************************************************************)
(* The life of an HTTP request in the thread that serves it, as far as the *)
(* handlers of routes/admin.py and routes/internal.py share it: approval,  *)
(* idempotency records, the tool registry's attempts and circuit breaker,  *)
(* and the hash chain of the audit log.                                    *)
(*                                                                         *)
(* FastAPI runs these handlers in a thread pool: requests interleave at    *)
(* every access to the shared store.  A thread serves one request; what a  *)
(* request does between the shared parts is in DlqReview and LegalHold.    *)
(***************************************************************************)
EXTENDS Naturals, Sequences, FiniteSets

CONSTANTS
    Threads,        \* the threads, one for each request
    Traffic,        \* sets of requests that clients may send together
    None,           \* the absent value
    Attempts,       \* TOOL_CALL_RETRY_MAX + 1
    CircuitLimit,   \* TOOL_CALL_CB_THRESHOLD
    Raising         \* the store calls that may raise

RequestKinds == {"requeue", "discard", "impose", "release", "cleanup", "archive",
                 "create", "upload", "update", "delete"}

StoreCalls == {"readItem", "persistJob", "persistItem", "setReleased",
               "resolve", "applyLock", "recordHold", "releaseLock",
               "checkRetention", "checkLock", "unlink", "put", "lockPut", "upsert",
               "append", "toolLog", "findRow", "persistRow", "createParse",
               "readRow", "writeRow", "deleteRow"}

ASSUME RequestsAssumption ==
    /\ None \notin Threads \union UNION Traffic
    /\ \A r \in UNION Traffic :
          /\ DOMAIN r = {"kind", "tenant", "on", "key", "body", "approved"}
          /\ r.kind \in RequestKinds /\ r.approved \in BOOLEAN
    /\ Attempts \in Nat \ {0} /\ CircuitLimit \in Nat \ {0}
    /\ Raising \subseteq StoreCalls

VARIABLES
    traffic,        \* the requests clients send in this behaviour
    req,            \* req[t]: the request thread t serves, or None
    pc,             \* pc[t]: where it is
    local,          \* local[t]: the handler's variables
    before,         \* history: the threads that had answered when t began
    records,        \* idempotency_records: whose answer a key replays
    audit,          \* audit_logs
    circuit         \* _CIRCUIT_STATE of each tool

thread == <<traffic, req, pc, local, before>>
shared == <<records, audit, circuit>>

NoLocals == [uri |-> None, ref |-> None, last |-> 0, then |-> "over",
             attempt |-> 1, outcome |-> "none", author |-> None]

RequestsInit ==
    /\ traffic \in Traffic
    /\ req = [t \in Threads |-> None]
    /\ pc = [t \in Threads |-> "idle"]
    /\ local = [t \in Threads |-> NoLocals]
    /\ before = [t \in Threads |-> {}]
    /\ records = [k \in {} |-> None]
    /\ audit = <<>>
    /\ circuit = [tool \in {"discard", "release"} |-> [failures |-> 0, open |-> FALSE]]

At(t, p) == pc[t] = p
Doing(t, kind) == req[t] # None /\ req[t].kind = kind
Over(t) == pc[t] = "over"
Succeeded(t) == Over(t) /\ local[t].outcome = "ok"
GoTo(t, p) == pc' = [pc EXCEPT ![t] = p]
Set(t, field, v) == local' = [local EXCEPT ![t][field] = v]

\* discard and release go through execute_tool and are logged as tool calls.
IsTool(t) == req[t].kind \in {"discard", "release"}
IsKeyed(t) == req[t].kind \in {"requeue", "discard", "create", "upload"}

\* The key of run_idempotent: tenant, endpoint and Idempotency-Key header.  The
\* endpoints of items have the item in their path; what is created is named in
\* the payload, which the fingerprint is taken of.
InPath(t) == IF req[t].kind \in {"create", "upload"} THEN None ELSE req[t].on
RecordKey(t) == [tenant |-> req[t].tenant, kind |-> req[t].kind,
                 path |-> InPath(t), key |-> req[t].key]
Fingerprint(t) == <<req[t].on, req[t].body>>

(***************************************************************************)
(* _append_audit_log reads the last hash and then appends: two steps.  A   *)
(* hash names the entry it was computed from, so prev is that entry's      *)
(* position, 0 for the empty chain.  Log(t, o, p) begins it, sets the      *)
(* outcome the caller will see and remembers where to go on.               *)
(***************************************************************************)
Log(t, outcome, next) ==
    /\ GoTo(t, "readLast")
    /\ local' = [local EXCEPT ![t].then = next, ![t].outcome = outcome]

\* Mutant: chains every entry to the first.
ReadLast_ReadsFirst(t) ==
    /\ At(t, "readLast")
    /\ Set(t, "last", IF audit = <<>> THEN 0 ELSE 1)
    /\ GoTo(t, "append")
    /\ UNCHANGED <<traffic, req, before, shared>>

ReadLast(t) ==
    /\ At(t, "readLast")
    /\ Set(t, "last", Len(audit))
    /\ GoTo(t, "append")
    /\ UNCHANGED <<traffic, req, before, shared>>

AppendLog(t) ==
    /\ At(t, "append")
    /\ audit' = Append(audit, [tenant |-> req[t].tenant, prev |-> local[t].last])
    /\ GoTo(t, local[t].then)
    /\ Set(t, "last", 0)
    /\ UNCHANGED <<traffic, req, before, records, circuit>>

\* The handler answers; a tool call is logged with its result first.
Leave(t, outcome) ==
    IF IsTool(t)
    THEN Log(t, outcome, "over")
    ELSE /\ GoTo(t, "over")
         /\ Set(t, "outcome", outcome)

\* What the tool's function returns or raises goes to execute_tool, any other
\* store call's result to the handler.
Return(t, outcome) ==
    IF IsTool(t)
    THEN /\ GoTo(t, "toolEnd")
         /\ Set(t, "outcome", outcome)
    ELSE Leave(t, outcome)

(***************************************************************************)
(* A request arrives.  Without its approvals it is refused at once.        *)
(***************************************************************************)
Start(r) == CASE r.kind \in {"requeue", "discard", "create", "upload"} -> "lookup"
              [] r.kind = "release"  -> "tool"
              [] r.kind = "archive"  -> "put"
              [] r.kind = "impose"   -> "findHold"
              [] r.kind = "cleanup"  -> "findHold"
              [] r.kind = "update"   -> "readRow"
              [] r.kind = "delete"   -> "deleteRow"

RefusedUnread(r) == r.kind \in {"discard", "release"} /\ ~r.approved

Begin(t, r) ==
    /\ At(t, "idle")
    /\ req' = [req EXCEPT ![t] = r]
    /\ before' = [before EXCEPT ![t] = {u \in Threads : Over(u)}]
    /\ IF RefusedUnread(r)
       THEN GoTo(t, "over") /\ Set(t, "outcome", "refused")
       ELSE GoTo(t, Start(r)) /\ UNCHANGED local
    /\ UNCHANGED <<traffic, shared>>

(***************************************************************************)
(* run_idempotent: look the key up, execute, record.                       *)
(***************************************************************************)
Recorded(t) == RecordKey(t) \in DOMAIN records

\* Mutant: the fingerprint is not compared.
SameBody_Unchecked(t) == TRUE

SameBody(t) == Fingerprint(records[RecordKey(t)]) = Fingerprint(t)

FirstStep(t) == CASE req[t].kind = "discard" -> "tool"
                  [] req[t].kind = "requeue" -> "readItem"
                  [] req[t].kind \in {"create", "upload"} -> "findRow"

Execute(t) ==
    /\ At(t, "lookup") /\ ~Recorded(t)
    /\ GoTo(t, FirstStep(t))
    /\ UNCHANGED <<traffic, req, local, before, shared>>

Replay(t) ==
    /\ At(t, "lookup") /\ Recorded(t) /\ SameBody(t)
    /\ local' = [local EXCEPT ![t].author = records[RecordKey(t)],
                              ![t].outcome = "ok", ![t].then = "over"]
    /\ GoTo(t, IF IsTool(t) THEN "readLast" ELSE "over")
    /\ UNCHANGED <<traffic, req, before, shared>>

Conflict(t) ==
    /\ At(t, "lookup") /\ Recorded(t) /\ ~SameBody(t)
    /\ Leave(t, "refused")
    /\ UNCHANGED <<traffic, req, before, shared>>

Record(t) ==
    /\ At(t, "record")
    /\ records' = [k \in DOMAIN records \union {RecordKey(t)} |->
                      IF k = RecordKey(t) THEN t ELSE records[k]]
    /\ local' = [local EXCEPT ![t].author = t, ![t].outcome = "ok",
                              ![t].then = "over"]
    /\ GoTo(t, IF IsTool(t) THEN "readLast" ELSE "over")
    /\ UNCHANGED <<traffic, req, before, audit, circuit>>

(***************************************************************************)
(* execute_tool.  Each attempt runs the function in a pool of its own and  *)
(* leaves the pool only when the function has returned, also when the wait *)
(* for its result timed out: a late result is thrown away and the attempt  *)
(* repeated, whatever timeout_retry_policy says.                           *)
(***************************************************************************)
InvokeStep(t) == IF req[t].kind = "discard" THEN "readItem" ELSE "setReleased"
Tool(t) == req[t].kind

CountFailure(tool) ==
    LET n == circuit[tool].failures + 1 IN
    circuit' = [circuit EXCEPT ![tool] =
                  [failures |-> IF n > CircuitLimit THEN CircuitLimit ELSE n,
                   open |-> @.open \/ n >= CircuitLimit]]

CloseCircuit(tool) ==
    circuit' = [circuit EXCEPT ![tool] = [failures |-> 0, open |-> FALSE]]

\* An open circuit refuses until its reset time has passed.
RefuseOpenCircuit(t) ==
    /\ At(t, "tool") /\ circuit[Tool(t)].open
    /\ Leave(t, "error")
    /\ UNCHANGED <<traffic, req, before, shared>>

Invoke(t) ==
    /\ At(t, "tool")
    /\ IF circuit[Tool(t)].open THEN CloseCircuit(Tool(t)) ELSE UNCHANGED circuit
    /\ GoTo(t, InvokeStep(t))
    /\ UNCHANGED <<traffic, req, local, before, records, audit>>

\* A refusal is passed on without a second attempt.
ToolReturns(t) ==
    /\ At(t, "toolEnd") /\ local[t].outcome \in {"ok", "refused"}
    /\ IF local[t].outcome = "ok"
       THEN CloseCircuit(Tool(t)) ELSE UNCHANGED circuit
    /\ IF local[t].outcome = "ok" /\ IsKeyed(t)
       THEN GoTo(t, "record") /\ UNCHANGED local
       ELSE Leave(t, local[t].outcome)
    /\ UNCHANGED <<traffic, req, before, records, audit>>

\* Too late, or raised: the next attempt, or an answer that it failed.
ToolFails(t) ==
    /\ At(t, "toolEnd")
    /\ CountFailure(Tool(t))
    /\ IF local[t].attempt < Attempts
       THEN /\ Set(t, "attempt", local[t].attempt + 1)
            /\ GoTo(t, InvokeStep(t))
       ELSE Leave(t, "error")
    /\ UNCHANGED <<traffic, req, before, records, audit>>

\* A call of the store or of the object storage raises.  append_tool_audit_log
\* swallows what its append raises; the logs of the operations do not.
IsToolLog(t) == IsTool(t) /\ local[t].then = "over"

Raise(t) ==
    /\ pc[t] \in Raising /\ ~(At(t, "append") /\ IsToolLog(t))
    /\ Return(t, "error")
    /\ UNCHANGED <<traffic, req, before, shared>>

LoseToolLog(t) ==
    /\ At(t, "append") /\ IsToolLog(t) /\ "toolLog" \in Raising
    /\ GoTo(t, "over")
    /\ UNCHANGED <<traffic, req, local, before, shared>>

RequestStep(t) ==
    \/ \E r \in traffic : Begin(t, r)
    \/ ReadLast(t) \/ AppendLog(t)
    \/ Execute(t) \/ Replay(t) \/ Conflict(t) \/ Record(t)
    \/ RefuseOpenCircuit(t) \/ Invoke(t) \/ ToolReturns(t) \/ ToolFails(t)
    \/ Raise(t) \/ LoseToolLog(t)
=============================================================================
