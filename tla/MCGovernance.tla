---------------------------- MODULE MCGovernance ----------------------------
(***************************************************************************)
(* An instance of Governance for TLC: one dead-letter item and one report  *)
(* of tenant1, three requests out of traffic that meets on one of them or on a code.    *)
(***************************************************************************)
EXTENDS Governance, TLC

CONSTANTS tenant1, tenant2, item, report, code, file, v1, v2, key1, key2, why1, why2

R(kind, tenant, on, key, body, approved) ==
    [kind |-> kind, tenant |-> tenant, on |-> on, key |-> key, body |-> body,
     approved |-> approved]

Review ==
    {R("requeue", tenant1, item, k, None, TRUE) : k \in {key1, key2}}
    \union {R("requeue", tenant2, item, key1, None, TRUE)}
    \union {R("discard", tenant1, item, key1, b, TRUE) : b \in {why1, why2}}

Holding ==
    {R(k, tenant1, report, None, None, TRUE) : k \in {"impose", "release", "cleanup"}}
    \union {R(k, tenant2, report, None, None, TRUE) : k \in {"impose", "release", "cleanup"}}
    \union {R("release", tenant1, report, None, None, FALSE)}
    \union {R("archive", tenant1, report, None, v, TRUE) : v \in {v1, v2}}

Listing ==
    {R("create", tenant1, code, k, why1, TRUE) : k \in {key1, key2}}
    \union {R("create", tenant2, code, key1, why1, TRUE),
            R("update", tenant1, code, None, why2, TRUE),
            R("delete", tenant1, code, None, None, TRUE)}

Uploading == {R("upload", tenant1, file, k, why1, TRUE) : k \in {key1, key2}}

MCTraffic == {Review, Holding, Listing, Uploading}
MCItemTenant == item :> tenant1
MCOwner == report :> tenant1

\* Bound: the kind of object storage matters to holds only.
LocalUnlessHolding == backend = "s3" => traffic = Holding

\* Bound: two requests are served at a time, the third before or after them.
TwoAtATime == Cardinality({t \in Begun : ~Over(t)}) <= 2

\* Bound: one of the three fails or needs a second attempt.
OneFails == Cardinality({t \in Begun : local[t].attempt > 1 \/ local[t].outcome = "error"}) <= 1

Symmetric == Permutations(Threads)
=============================================================================
