-------------------------- MODULE HumanReviewProofs --------------------------
(***************************************************************************)
(* For every number of evaluations, resume requests and runs, under every  *)
(* kind of runtime: one resume token makes one resume job, unless requests *)
(* overlap; checkpoints of a thread are numbered apart, unless runs        *)
(* overlap; a report that asks for a decision shows a token to answer with.*)
(*                                                                         *)
(* Consume marks whatever token is registered by then.  That this is       *)
(* enough needs that a token once replaced never validates again: ids only *)
(* grow, and a token loses its mark only with its id.                      *)
(***************************************************************************)
EXTENDS HumanReview, WellFoundedInduction, TLAPS

Fields == {"at", "e", "key", "token", "copy"}
Taken == {"storeJob", "storeReport", "record", "failed"}
Late == {"storeReport", "record", "ok", "failed"}

\* A request with this token can no longer pass consume_resume_token's checks.
Dead(q) ==
    LET token == tokens[request[q].e] IN
    token.id > request[q].token \/ (token.id = request[q].token /\ token.used)

Typed ==
    /\ tokens \in [Evaluations -> [id : Nat, used : BOOLEAN]]
    /\ DOMAIN request = Requests /\ DOMAIN job = Jobs /\ DOMAIN before = Requests \union Runs
    /\ \A q \in Requests : DOMAIN request[q] = Fields

\* What a request shows was registered when it began.
ShowsKnownToken ==
    \A q \in Requests : ~Asks(q, "idle") =>
        /\ request[q].e \in Evaluations /\ request[q].token \in Nat
        /\ request[q].token <= tokens[request[q].e].id

StoredLate == \A q \in Requests : Stored(q) => request[q].at \in Late

TakenIsDead ==
    \A q \in Requests : (request[q].at \in Taken \/ Stored(q)) => Dead(q)

EarlierIsOver ==
    \A q \in Requests : \A p \in before[q] \intersect Requests : Finished(p) /\ ~Asks(q, "idle")

\* After a request that made a job no later one with its token gets past Validate.
LaterIsRefused ==
    \A q \in Requests : \A p \in before[q] \intersect Requests :
        (Stored(p) /\ SameToken(p, q)) =>
            request[q].at \notin {"consume"} \union Taken /\ ~Stored(q)

ReviewInv ==
    /\ Typed /\ ShowsKnownToken /\ StoredLate /\ TakenIsDead
    /\ EarlierIsOver /\ LaterIsRefused

\* Tokens of every evaluation stay, are marked, or are replaced by the next one.
TokensGrow ==
    /\ tokens' \in [Evaluations -> [id : Nat, used : BOOLEAN]]
    /\ \A e \in Evaluations :
        \/ tokens'[e].id > tokens[e].id
        \/ tokens'[e].id = tokens[e].id /\ (tokens[e].used => tokens'[e].used)

LEMMA RegisterGrows ==
  ASSUME Typed, NEW e, Register(e) \/ UNCHANGED tokens
  PROVE  TokensGrow
<1>1. CASE UNCHANGED tokens
  BY <1>1 DEF Typed, TokensGrow
<1>2. CASE Register(e) /\ e \in Evaluations
  <2> DEFINE k == tokens[e].id + 1
             n == [NoToken EXCEPT !.id = k]
  <2>1. k \in Nat /\ k > tokens[e].id
    BY <1>2 DEF Typed
  <2>2. tokens' = [tokens EXCEPT ![e] = n]
    BY <1>2 DEF Register
  <2> HIDE DEF k
  <2>3. n \in [id : Nat, used : BOOLEAN] /\ n.id = k
    BY <2>1 DEF NoToken
  <2> HIDE DEF n
  <2> QED
    BY <1>2, <2>1, <2>2, <2>3 DEF Typed, TokensGrow
<1>3. CASE Register(e) /\ e \notin Evaluations
  BY <1>3 DEF Register, Typed, TokensGrow
<1> QED
  BY <1>1, <1>2, <1>3

\* What growing tokens keep: a dead token stays dead, a known one known.
LEMMA DeadStaysDead ==
  ASSUME ReviewInv, TokensGrow, NEW q \in Requests, ~Asks(q, "idle"),
         request'[q].e = request[q].e, request'[q].token = request[q].token
  PROVE  /\ Dead(q) => Dead(q)'
         /\ request[q].token <= tokens'[request[q].e].id
<1>1. /\ request[q].e \in Evaluations /\ request[q].token \in Nat
      /\ request[q].token <= tokens[request[q].e].id
      /\ tokens[request[q].e].id \in Nat /\ tokens'[request[q].e].id \in Nat
  BY DEF ReviewInv, ShowsKnownToken, Typed, TokensGrow
<1> QED
  BY <1>1 DEF Dead, TokensGrow

\* Steps of anyone but the requests: tokens may grow, jobs are never lost.
LEMMA OthersKeep ==
  ASSUME ReviewInv, TokensGrow, UNCHANGED request, DOMAIN job' = Jobs,
         DOMAIN before' = Requests \union Runs,
         \A q \in Requests : Stored(q)' <=> Stored(q),
         \A q \in Requests : before'[q] = before[q]
  PROVE  ReviewInv'
<1>1. Typed' /\ StoredLate' /\ EarlierIsOver' /\ LaterIsRefused'
  BY DEF ReviewInv, Typed, TokensGrow, StoredLate, EarlierIsOver, LaterIsRefused,
         Finished, Asks, SameToken
<1>2. ShowsKnownToken'
  BY DeadStaysDead DEF ReviewInv, ShowsKnownToken, Asks
<1>3. TakenIsDead'
  <2> SUFFICES ASSUME NEW q \in Requests, request[q].at \in Taken \/ Stored(q) PROVE Dead(q)'
    BY DEF TakenIsDead
  <2>1. ~Asks(q, "idle") /\ Dead(q)
    BY DEF ReviewInv, StoredLate, TakenIsDead, Asks, Taken, Late
  <2> QED
    BY <2>1, DeadStaysDead
<1> QED
  BY <1>1, <1>2, <1>3 DEF ReviewInv

\* Request q goes on to n.
LEMMA Advances ==
  ASSUME ReviewInv, TokensGrow, NEW q \in Requests, ~Asks(q, "idle"), ~Finished(q),
         NEW n, request' = [request EXCEPT ![q] = n], DOMAIN n = Fields, n.at # "idle",
         n.e = request[q].e, n.token = request[q].token,
         DOMAIN job' = Jobs, before' = before,
         \A p \in Requests : p # q => (Stored(p)' <=> Stored(p)),
         Stored(q)' => n.at \in Late,
         (n.at \in Taken \/ Stored(q)') => Dead(q) \/ Dead(q)',
         \A p \in before[q] \intersect Requests :
            (Stored(p) /\ SameToken(p, q)) => n.at \notin {"consume"} \union Taken /\ ~Stored(q)'
  PROVE  ReviewInv'
<1>1. request'[q] = n /\ DOMAIN request' = Requests
      /\ \A p \in Requests : p # q => request'[p] = request[p]
  BY DEF ReviewInv, Typed
<1>2. Typed'
  BY <1>1 DEF ReviewInv, Typed, TokensGrow
<1>3. ShowsKnownToken'
  <2> SUFFICES ASSUME NEW p \in Requests, ~Asks(p, "idle")'
               PROVE  /\ request'[p].e \in Evaluations /\ request'[p].token \in Nat
                      /\ request'[p].token <= tokens'[request'[p].e].id
    BY DEF ShowsKnownToken
  <2>1. ~Asks(p, "idle") /\ request'[p].e = request[p].e /\ request'[p].token = request[p].token
    BY <1>1 DEF Asks
  <2> QED
    BY <2>1, DeadStaysDead DEF ReviewInv, ShowsKnownToken
<1>4. StoredLate'
  BY <1>1 DEF ReviewInv, StoredLate
<1>5. TakenIsDead'
  <2> SUFFICES ASSUME NEW p \in Requests, request'[p].at \in Taken \/ Stored(p)' PROVE Dead(p)'
    BY DEF TakenIsDead
  <2>1. CASE p = q
    <3>1. Dead(q) \/ Dead(q)'
      BY <1>1, <2>1
    <3> QED
      BY <1>1, <2>1, <3>1, DeadStaysDead
  <2>2. CASE p # q
    <3>1. Dead(p) /\ ~Asks(p, "idle") /\ request'[p] = request[p]
      BY <1>1, <2>2 DEF ReviewInv, TakenIsDead, StoredLate, Asks, Taken, Late
    <3> QED
      BY <3>1, DeadStaysDead
  <2> QED
    BY <2>1, <2>2
<1>6. \A x \in Requests : \A p \in before[x] \intersect Requests : p # q
  BY DEF ReviewInv, EarlierIsOver
<1>7. EarlierIsOver'
  BY <1>1, <1>6 DEF ReviewInv, EarlierIsOver, Finished, Asks
<1>8. LaterIsRefused'
  <2> SUFFICES ASSUME NEW x \in Requests, NEW p \in before[x] \intersect Requests,
                      Stored(p)', SameToken(p, x)'
               PROVE  request'[x].at \notin {"consume"} \union Taken /\ ~Stored(x)'
    BY DEF LaterIsRefused
  <2>1. Stored(p) /\ SameToken(p, x) /\ request'[p] = request[p]
    BY <1>1, <1>6 DEF SameToken
  <2> QED
    BY <1>1, <2>1 DEF ReviewInv, LaterIsRefused
<1> QED
  BY <1>2, <1>3, <1>4, <1>5, <1>7, <1>8 DEF ReviewInv

\* A step that leaves tokens and jobs, and takes q's field at to a new place.
LEMMA PlaceMoves ==
  ASSUME ReviewInv, NEW q \in Requests, ~Asks(q, "idle"), ~Finished(q),
         UNCHANGED <<tokens, before>>, DOMAIN job' = Jobs,
         \A p \in Requests : Stored(p)' <=> Stored(p),
         NEW at, Ask(q, at), at # "idle",
         at \in Late \/ ~Stored(q),
         at \in Taken => request[q].at \in Taken,
         at = "consume" => ~Dead(q)
  PROVE  ReviewInv'
<1> DEFINE n == [request[q] EXCEPT !.at = at]
<1>1. request' = [request EXCEPT ![q] = n]
  BY DEF Ask
<1>2. DOMAIN n = Fields /\ n.at = at /\ n.e = request[q].e /\ n.token = request[q].token
  BY DEF ReviewInv, Typed, Fields
<1> HIDE DEF n
<1>3. TokensGrow
  BY DEF TokensGrow, ReviewInv, Typed
<1>4. (n.at \in Taken \/ Stored(q)') => Dead(q)
  BY <1>2 DEF ReviewInv, TakenIsDead
<1>5. \A p \in before[q] \intersect Requests :
         (Stored(p) /\ SameToken(p, q)) => n.at \notin {"consume"} \union Taken /\ ~Stored(q)'
  <2> SUFFICES ASSUME NEW p \in before[q] \intersect Requests, Stored(p), SameToken(p, q)
               PROVE  n.at \notin {"consume"} \union Taken /\ ~Stored(q)'
    OBVIOUS
  <2>1. Dead(q)
    BY DEF ReviewInv, TakenIsDead, Dead, SameToken
  <2> QED
    BY <1>2, <2>1 DEF ReviewInv, LaterIsRefused
<1> QED
  BY <1>1, <1>2, <1>3, <1>4, <1>5, Advances

-----------------------------------------------------------------------------
(* The steps                                                                 *)

LEMMA BeginResumeKeeps ==
  ASSUME ReviewInv, NEW q \in Requests, NEW e \in Evaluations, NEW k,
         NEW token \in 0 .. tokens[e].id, BeginResume(q, e, k, token)
  PROVE  ReviewInv'
<1> DEFINE n == [IdleRequest EXCEPT !.at = "lookup", !.e = e, !.key = k, !.token = token]
<1>1. DOMAIN n = Fields /\ n.at = "lookup" /\ n.e = e /\ n.token = token
  BY DEF IdleRequest, Fields
<1>2. /\ Asks(q, "idle") /\ request' = [request EXCEPT ![q] = n]
      /\ before' = [before EXCEPT ![q] = {p \in Requests : Finished(p)}]
      /\ UNCHANGED <<tokens, job>>
  BY DEF BeginResume, review
<1> HIDE DEF n
<1>3. /\ request'[q] = n /\ \A p \in Requests : p # q => request'[p] = request[p]
      /\ before'[q] = {p \in Requests : Finished(p)}
      /\ \A p \in Requests : p # q => before'[p] = before[p]
  BY <1>2 DEF ReviewInv, Typed
<1>4. Typed'
  BY <1>1, <1>2 DEF ReviewInv, Typed
<1>5. token \in Nat /\ token <= tokens[e].id /\ tokens[e].id \in Nat
  BY DEF ReviewInv, Typed
<1>6. ShowsKnownToken'
  BY <1>1, <1>2, <1>3, <1>5 DEF ReviewInv, ShowsKnownToken, Asks
<1>7. ~Stored(q) /\ ~Finished(q)
  BY <1>2 DEF ReviewInv, StoredLate, Asks, Late, Finished
<1>8. StoredLate' /\ TakenIsDead'
  BY <1>1, <1>2, <1>3, <1>7 DEF ReviewInv, StoredLate, TakenIsDead, Stored, Dead, Taken
<1>9. \A x \in Requests : \A p \in before'[x] \intersect Requests : p # q
  BY <1>3, <1>7 DEF ReviewInv, EarlierIsOver
<1>10. EarlierIsOver'
  BY <1>1, <1>3, <1>9 DEF ReviewInv, EarlierIsOver, Finished, Asks
<1>11. LaterIsRefused'
  BY <1>1, <1>2, <1>3, <1>7, <1>9 DEF ReviewInv, LaterIsRefused, SameToken, Stored, Taken
<1> QED
  BY <1>4, <1>6, <1>8, <1>10, <1>11 DEF ReviewInv

LEMMA ConsumeKeeps ==
  ASSUME ReviewInv, NEW q \in Requests, Consume(q)
  PROVE  ReviewInv'
<1> DEFINE e == request[q].e
           n == [request[q] EXCEPT !.at = "storeJob"]
           t == [tokens[e] EXCEPT !.used = TRUE]
<1>1. /\ Asks(q, "consume") /\ tokens' = [tokens EXCEPT ![e] = t]
      /\ request' = [request EXCEPT ![q] = n] /\ UNCHANGED <<job, before>>
  BY DEF Consume, Ask
<1>2. /\ e \in Evaluations /\ request[q].token \in Nat /\ request[q].token <= tokens[e].id
      /\ tokens[e] \in [id : Nat, used : BOOLEAN]
  BY <1>1 DEF ReviewInv, ShowsKnownToken, Typed, Asks
<1>3. t.id = tokens[e].id /\ t.used = TRUE /\ t \in [id : Nat, used : BOOLEAN]
  BY <1>2
<1>4. DOMAIN n = Fields /\ n.at = "storeJob" /\ n.e = request[q].e /\ n.token = request[q].token
  BY DEF ReviewInv, Typed, Fields
<1> HIDE DEF e, n, t
<1>5. TokensGrow /\ tokens'[e] = t
  BY <1>1, <1>2, <1>3 DEF TokensGrow, ReviewInv, Typed
<1>6. request'[q] = n
  BY <1>1 DEF ReviewInv, Typed
<1>7. tokens[e].id > request[q].token \/ tokens[e].id = request[q].token
  BY <1>2
<1>8. Dead(q)'
  BY <1>3, <1>4, <1>5, <1>6, <1>7 DEF Dead, e
<1>9. ~Stored(q) /\ ~Finished(q) /\ ~Asks(q, "idle")
  BY <1>1 DEF ReviewInv, StoredLate, Asks, Late, Finished
<1>10. \A p \in Requests : Stored(p)' <=> Stored(p)
  BY <1>1 DEF Stored
<1>11. \A p \in before[q] \intersect Requests : ~(Stored(p) /\ SameToken(p, q))
  BY <1>1 DEF ReviewInv, LaterIsRefused, Asks
<1> QED
  BY <1>1, <1>4, <1>5, <1>8, <1>9, <1>10, <1>11, Advances DEF ReviewInv, Typed

LEMMA StoreResumeJobKeeps ==
  ASSUME ReviewInv, NEW q \in Requests, StoreResumeJob(q)
  PROVE  ReviewInv'
<1> DEFINE n == [request[q] EXCEPT !.at = "storeReport", !.copy = report[request[q].e]]
<1>1. /\ Asks(q, "storeJob") /\ job' = [job EXCEPT ![q] = "queued"]
      /\ request' = [request EXCEPT ![q] = n] /\ UNCHANGED <<tokens, before>>
  BY DEF StoreResumeJob, review
<1>2. DOMAIN n = Fields /\ n.at = "storeReport"
      /\ n.e = request[q].e /\ n.token = request[q].token
  BY DEF ReviewInv, Typed, Fields
<1> HIDE DEF n
<1>3. TokensGrow
  BY <1>1 DEF TokensGrow, ReviewInv, Typed
<1>4. Dead(q)
  BY <1>1 DEF ReviewInv, TakenIsDead, Taken, Asks
<1>5. \A p \in Requests : p # q => (Stored(p)' <=> Stored(p))
  BY <1>1 DEF Stored, ReviewInv, Typed, Jobs
<1>6. \A p \in before[q] \intersect Requests : ~(Stored(p) /\ SameToken(p, q))
  BY <1>1 DEF ReviewInv, LaterIsRefused, Asks, Taken
<1>7. ~Finished(q) /\ ~Asks(q, "idle") /\ DOMAIN job' = Jobs
  BY <1>1 DEF Finished, Asks, ReviewInv, Typed
<1> QED
  BY <1>1, <1>2, <1>3, <1>4, <1>5, <1>6, <1>7, Advances DEF Late

LEMMA StoreAnswerKeeps ==
  ASSUME ReviewInv, NEW q \in Requests, StoreAnswer(q)
  PROVE  ReviewInv'
<1> DEFINE n == [request[q] EXCEPT !.at = "record", !.copy = NoReport]
<1>1. /\ Asks(q, "storeReport")
      /\ request' = [request EXCEPT ![q] = n] /\ UNCHANGED <<tokens, job, before>>
  BY DEF StoreAnswer
<1>2. DOMAIN n = Fields /\ n.at = "record"
      /\ n.e = request[q].e /\ n.token = request[q].token
  BY DEF ReviewInv, Typed, Fields
<1> HIDE DEF n
<1>3. TokensGrow
  BY <1>1 DEF TokensGrow, ReviewInv, Typed
<1>4. Dead(q)
  BY <1>1 DEF ReviewInv, TakenIsDead, Taken, Asks
<1>5. \A p \in Requests : Stored(p)' <=> Stored(p)
  BY <1>1 DEF Stored
<1>6. \A p \in before[q] \intersect Requests : ~(Stored(p) /\ SameToken(p, q))
  BY <1>1 DEF ReviewInv, LaterIsRefused, Asks, Taken
<1>7. ~Finished(q) /\ ~Asks(q, "idle") /\ DOMAIN job' = Jobs
  BY <1>1 DEF Finished, Asks, ReviewInv, Typed
<1> QED
  BY <1>1, <1>2, <1>3, <1>4, <1>5, <1>6, <1>7, Advances DEF Late

LEMMA ResumeKeeps ==
  ASSUME ReviewInv, NEW q \in Requests, ResumeStep(q)
  PROVE  ReviewInv'
<1> USE DEF Asks, Finished
<1>1. ASSUME UNCHANGED job PROVE DOMAIN job' = Jobs /\ \A p \in Requests : Stored(p)' <=> Stored(p)
  BY <1>1 DEF ReviewInv, Typed, Stored
<1>2. CASE LookUp(q)
  <2>1. ~Stored(q)
    BY <1>2 DEF LookUp, ReviewInv, StoredLate, Late
  <2>2. \E at \in {"validate", "ok", "refused"} : Ask(q, at)
    BY <1>2 DEF LookUp
  <2>3. UNCHANGED <<tokens, before, job>> /\ request[q].at = "lookup"
    BY <1>2 DEF LookUp, review
  <2> QED
    BY <1>1, <2>1, <2>2, <2>3, PlaceMoves DEF Taken
<1>3. CASE Validate(q)
  <2>1. ~Stored(q)
    BY <1>3 DEF Validate, ReviewInv, StoredLate, Late
  <2>2. UNCHANGED <<tokens, before, job>> /\ request[q].at = "validate"
    BY <1>3 DEF Validate, review
  <2>3. CASE Ask(q, "refused")
    BY <1>1, <2>1, <2>2, <2>3, PlaceMoves DEF Taken
  <2>4. CASE ~Ask(q, "refused")
    <3>1. Ask(q, "consume") /\ ~Dead(q)
      BY <1>3, <2>2, <2>4 DEF Validate, Dead, ReviewInv, ShowsKnownToken, Typed
    <3> QED
      BY <1>1, <2>1, <2>2, <3>1, PlaceMoves DEF Taken
  <2> QED
    BY <2>3, <2>4
<1>4. CASE RecordAnswer(q)
  <2>1. UNCHANGED <<tokens, before, job>> /\ request[q].at = "record" /\ Ask(q, "ok")
    BY <1>4 DEF RecordAnswer, review
  <2> QED
    BY <1>1, <2>1, PlaceMoves DEF Taken, Late
<1>5. CASE ResumeRaises(q)
  <2>1. /\ UNCHANGED <<tokens, before, job>> /\ Ask(q, "failed")
        /\ request[q].at \in {"storeJob", "storeReport", "record"}
    BY <1>5 DEF ResumeRaises, review
  <2> QED
    BY <1>1, <2>1, PlaceMoves DEF Taken, Late
<1> QED
  BY <1>2, <1>3, <1>4, <1>5, BeginResumeKeeps, ConsumeKeeps, StoreResumeJobKeeps,
     StoreAnswerKeeps DEF ResumeStep

LEMMA CreateKeeps ==
  ASSUME ReviewInv, NEW e \in Evaluations, CreateStep(e)
  PROVE  ReviewInv'
<1>1. UNCHANGED <<request, before>>
  BY DEF CreateStep, Evaluate, PersistReport, PersistJob
<1>2. TokensGrow
  <2>1. Register(e) \/ UNCHANGED tokens
    BY DEF CreateStep, Evaluate, PersistReport, PersistJob
  <2> QED
    BY <2>1, RegisterGrows DEF ReviewInv
<1>3. UNCHANGED job \/ job' = [job EXCEPT ![e] = "queued"]
  BY DEF CreateStep, Evaluate, PersistReport, PersistJob
<1>4. DOMAIN job' = Jobs /\ \A q \in Requests : Stored(q)' <=> Stored(q)
  BY <1>3, HumanReviewAssumption DEF ReviewInv, Typed, Stored, Jobs
<1> QED
  BY <1>1, <1>2, <1>4, OthersKeep DEF ReviewInv, Typed

LEMMA RunKeeps ==
  ASSUME ReviewInv, NEW r \in Runs, RunStep(r)
  PROVE  ReviewInv'
<1> USE DEF RunStep
<1>1. CASE \E j \in Jobs : BeginRun(r, j)
  <2>1. UNCHANGED <<tokens, job, request>> /\ DOMAIN before' = Requests \union Runs
        /\ \A q \in Requests : before'[q] = before[q]
    BY <1>1, HumanReviewAssumption DEF BeginRun, review, ReviewInv, Typed
  <2> QED
    BY <2>1, OthersKeep DEF TokensGrow, ReviewInv, Typed, Stored
<1>2. CASE StartRun(r) \/ EndRun(r)
  <2> DEFINE j == run[r].job
  <2>1. UNCHANGED <<tokens, request, before>>
    BY <1>2 DEF StartRun, EndRun, review
  <2>2. UNCHANGED job \/ \E to \in {"running", "succeeded", "needs_manual_decision"} :
            job[j] # "absent" /\ job' = [job EXCEPT ![j] = to]
    <3>1. CASE StartRun(r)
      BY <3>1 DEF StartRun
    <3>2. CASE EndRun(r)
      BY <3>2 DEF EndRun, CanTransition
    <3> QED
      BY <1>2, <3>1, <3>2
  <2>3. DOMAIN job' = Jobs /\ \A q \in Requests : Stored(q)' <=> Stored(q)
    BY <2>2 DEF ReviewInv, Typed, Stored, Jobs
  <2> QED
    BY <2>1, <2>3, OthersKeep DEF TokensGrow, ReviewInv, Typed
<1>3. CASE \E needs \in BOOLEAN : GraphGate(r, needs)
  <2>1. /\ UNCHANGED <<job, request, before>>
        /\ Register(Thread(r)) \/ UNCHANGED tokens
    BY <1>3 DEF GraphGate
  <2>2. TokensGrow
    BY <2>1, RegisterGrows DEF ReviewInv
  <2> QED
    BY <2>1, <2>2, OthersKeep DEF ReviewInv, Typed, Stored
<1>4. CASE \/ Work(r) \/ CountTrail(r) \/ AppendCheckpoint(r) \/ GraphSaves(r)
           \/ GraphStops(r) \/ GraphPersists(r) \/ GraphFails(r)
  <2>1. UNCHANGED <<tokens, job, request, before>>
    BY <1>4 DEF Work, CountTrail, AppendCheckpoint, GraphSaves, GraphStops, GraphPersists,
                GraphFails, review
  <2> QED
    BY <2>1, OthersKeep DEF TokensGrow, ReviewInv, Typed, Stored
<1> QED
  BY <1>1, <1>2, <1>3, <1>4

LEMMA ReviewInit == Init => ReviewInv
<1> SUFFICES ASSUME Init PROVE ReviewInv
  OBVIOUS
<1>1. \A q \in Requests : /\ request[q] = IdleRequest /\ ~Stored(q)
                          /\ before[q] = {}
  BY DEF Init, Stored, Jobs
<1>2. Typed
  BY <1>1 DEF Init, Typed, IdleRequest, Fields, NoToken
<1>3. \A q \in Requests : request[q].at = "idle"
  BY <1>1 DEF IdleRequest
<1> QED
  BY <1>1, <1>2, <1>3 DEF ReviewInv, ShowsKnownToken, StoredLate, TakenIsDead, EarlierIsOver,
                          LaterIsRefused, Asks, Taken

LEMMA ReviewStep == ReviewInv /\ [Next]_vars => ReviewInv'
<1> SUFFICES ASSUME ReviewInv, [Next]_vars PROVE ReviewInv'
  OBVIOUS
<1>1. CASE UNCHANGED vars
  <2>1. UNCHANGED <<tokens, job, request, before>>
    BY <1>1 DEF vars, review
  <2> QED
    BY <2>1, OthersKeep DEF TokensGrow, ReviewInv, Typed, Stored
<1> QED
  BY <1>1, CreateKeeps, ResumeKeeps, RunKeeps DEF Next

\* consume_resume_token is two steps, and the gate may register another token in
\* between: still no two resume jobs come of one token unless the requests that
\* made them overlapped, whatever runtime, worker runs, retries and failures.
THEOREM TokenResumesOnce == Spec => []ResumedOnce
<1>1. ReviewInv => ResumedOnce
  <2> SUFFICES ASSUME ReviewInv, NEW p \in Requests, NEW q \in Requests,
                      Stored(p), Stored(q), SameToken(p, q)
               PROVE  p \notin before[q] /\ q \notin before[p]
    BY DEF ResumedOnce
  <2>1. SameToken(q, p)
    BY DEF SameToken
  <2> QED
    BY <2>1 DEF ReviewInv, LaterIsRefused
<1> QED
  BY <1>1, ReviewInit, ReviewStep, PTL DEF Spec

-----------------------------------------------------------------------------
(* Runs.  A run keeps its job, and with it its thread of checkpoints, from   *)
(* its first step on; it is never begun for a job that is not stored.        *)

RunFields == {"at", "job", "pending", "token", "gated", "fell", "kind", "seq", "then"}
Nodes == {"start", "work", "graph", "interrupt", "persist", "needs_manual_decision",
          "succeeded", "over"}
Kinds == {"node", "state"}

\* The gate of the graph has been passed when the report is about to be written.
Persisting(x) == x.at = "persist" \/ (x.at \in {"count", "append"} /\ x.then = "persist")

LocalOk(x) ==
    /\ DOMAIN x = RunFields
    /\ x.at \in Nodes \union {"idle", "count", "append"}
    /\ x.kind \in Kinds /\ x.then \in Nodes
    /\ x.gated \in BOOLEAN
    /\ Persisting(x) => x.gated

RunsKnown ==
    /\ DOMAIN run = Runs /\ \A r \in Runs : LocalOk(run[r])
    /\ \A r \in Runs :
        IF At(r, "idle") THEN ~run[r].gated
        ELSE run[r].job \in Jobs /\ job[run[r].job] # "absent"

\* What a step of run_job_once makes of r's local state.
Moves(r, n) ==
    /\ run' = [run EXCEPT ![r] = n]
    /\ ~At(r, "idle") /\ ~At(r, "over")
    /\ LocalOk(n) /\ n.at # "idle"
    /\ n.job = run[r].job /\ (run[r].gated => n.gated)
    /\ n.at = "append" => At(r, "count") /\ n.seq = NextSeq(Thread(r), run[r].kind)

MovesOn(r) == \E n : Moves(r, n)

\* Goes to another place of the program.
LEMMA GoesTo ==
  ASSUME RunsKnown, NEW r \in Runs, ~At(r, "idle"), ~At(r, "over"),
         NEW at \in Nodes, at = "persist" => run[r].gated, GoTo(r, at)
  PROVE  MovesOn(r)
<1> DEFINE n == [run[r] EXCEPT !.at = at]
<1>1. run' = [run EXCEPT ![r] = n]
  BY DEF GoTo
<1>2. /\ DOMAIN n = RunFields /\ n.at = at /\ n.job = run[r].job
      /\ n.gated = run[r].gated /\ n.kind = run[r].kind /\ n.then = run[r].then
  BY DEF RunsKnown, LocalOk, RunFields
<1> HIDE DEF n
<1>3. LocalOk(n) /\ n.at \notin {"idle", "append"}
  BY <1>2 DEF LocalOk, RunsKnown, Persisting, Nodes
<1> QED
  BY <1>1, <1>2, <1>3 DEF MovesOn, Moves

\* Begins to save a checkpoint.
LEMMA BeginsCheckpoint ==
  ASSUME RunsKnown, NEW r \in Runs, ~At(r, "idle"), ~At(r, "over"),
         NEW kind \in Kinds, NEW then \in Nodes, NEW state, LocalOk(state),
         state.job = run[r].job, run[r].gated => state.gated,
         then = "persist" => state.gated, Append1(r, kind, then, state)
  PROVE  MovesOn(r)
<1> DEFINE n == [state EXCEPT !.at = "count", !.kind = kind, !.then = then]
<1>1. run' = [run EXCEPT ![r] = n]
  BY DEF Append1
<1>2. /\ DOMAIN n = RunFields /\ n.at = "count" /\ n.job = state.job
      /\ n.gated = state.gated /\ n.kind = kind /\ n.then = then
  BY DEF LocalOk, RunFields
<1> HIDE DEF n
<1> QED
  BY <1>1, <1>2 DEF MovesOn, Moves, LocalOk, Persisting

\* Every step but the first keeps the run's job and knows whether it was gated.
LEMMA RunMoves ==
  ASSUME RunsKnown, NEW r \in Runs, RunStep(r), ~\E j \in Jobs : BeginRun(r, j)
  PROVE  MovesOn(r)
<1>0. LocalOk(run[r])
  BY DEF RunsKnown
<1>1. CASE StartRun(r)
  BY <1>0, <1>1, GoesTo, BeginsCheckpoint DEF StartRun, At, Kinds, Nodes
<1>2. CASE Work(r)
  <2>1. \/ \E then \in {"needs_manual_decision", "succeeded"} : Append1(r, "node", then, run[r])
        \/ GoTo(r, "graph")
    BY <1>2 DEF Work
  <2> QED
    BY <1>0, <1>2, <2>1, GoesTo, BeginsCheckpoint DEF Work, At, Kinds, Nodes
<1>3. CASE GraphSaves(r)
  BY <1>0, <1>3, BeginsCheckpoint DEF GraphSaves, At, Kinds, Nodes
<1>4. ASSUME NEW needs \in BOOLEAN, GraphGate(r, needs) PROVE MovesOn(r)
  <2> DEFINE e == Thread(r)
             state == [run[r] EXCEPT !.pending = needs, !.gated = TRUE,
                                     !.token = IF needs THEN tokens[e].id + 1 ELSE 0]
  <2>1. /\ DOMAIN state = RunFields /\ state.gated = TRUE /\ state.job = run[r].job
        /\ state.at = run[r].at /\ state.kind = run[r].kind /\ state.then = run[r].then
    BY <1>0 DEF LocalOk, RunFields
  <2>2. \E then \in {"interrupt", "persist"} : Append1(r, "node", then, state)
    BY <1>4 DEF GraphGate
  <2>3. At(r, "graph")
    BY <1>4 DEF GraphGate
  <2> HIDE DEF state
  <2>4. LocalOk(state)
    BY <1>0, <2>1 DEF LocalOk
  <2> QED
    BY <2>1, <2>2, <2>3, <2>4, BeginsCheckpoint DEF At, Kinds, Nodes
<1>5. CASE GraphStops(r)
  BY <1>5, GoesTo DEF GraphStops, At, Nodes
<1>6. CASE GraphPersists(r)
  <2> DEFINE n == [run[r] EXCEPT !.at = "succeeded", !.pending = FALSE, !.token = 0]
  <2>1. run' = [run EXCEPT ![r] = n] /\ At(r, "persist")
    BY <1>6 DEF GraphPersists
  <2>2. /\ DOMAIN n = RunFields /\ n.at = "succeeded" /\ n.job = run[r].job
        /\ n.gated = run[r].gated /\ n.kind = run[r].kind /\ n.then = run[r].then
    BY <1>0 DEF LocalOk, RunFields
  <2> HIDE DEF n
  <2> QED
    BY <1>0, <2>1, <2>2 DEF MovesOn, Moves, LocalOk, Persisting, At, Nodes
<1>7. ASSUME Fallback(r), ~At(r, "idle"), ~At(r, "over") PROVE MovesOn(r)
  <2> DEFINE state == [run[r] EXCEPT !.fell = TRUE]
  <2>1. /\ DOMAIN state = RunFields /\ state.gated = run[r].gated /\ state.job = run[r].job
        /\ state.at = run[r].at /\ state.kind = run[r].kind /\ state.then = run[r].then
    BY <1>0 DEF LocalOk, RunFields
  <2>2. GoTo(r, "over") \/ Append1(r, "node", "succeeded", state)
    BY <1>7 DEF Fallback
  <2> HIDE DEF state
  <2>3. LocalOk(state)
    BY <1>0, <2>1 DEF LocalOk, Persisting
  <2> QED
    BY <1>7, <2>1, <2>2, <2>3, GoesTo, BeginsCheckpoint DEF Kinds, Nodes
<1>8. CASE GraphFails(r)
  BY <1>7, <1>8 DEF GraphFails, At
<1>9. CASE EndRun(r)
  <2>1. Append1(r, "node", "over", run[r]) \/ GoTo(r, "over") \/ Fallback(r)
    BY <1>9 DEF EndRun
  <2>2. ~At(r, "idle") /\ ~At(r, "over")
    BY <1>9 DEF EndRun, At
  <2> QED
    BY <1>0, <1>7, <2>1, <2>2, GoesTo, BeginsCheckpoint DEF Kinds, Nodes
<1>10. CASE CountTrail(r)
  <2> DEFINE k == NextSeq(Thread(r), run[r].kind)
             n == [run[r] EXCEPT !.at = "append", !.seq = k]
  <2>1. run' = [run EXCEPT ![r] = n] /\ At(r, "count")
    BY <1>10 DEF CountTrail
  <2>2. /\ DOMAIN n = RunFields /\ n.at = "append" /\ n.job = run[r].job /\ n.seq = k
        /\ n.gated = run[r].gated /\ n.kind = run[r].kind /\ n.then = run[r].then
    BY <1>0 DEF LocalOk, RunFields
  <2> HIDE DEF n
  <2> QED
    BY <1>0, <2>1, <2>2 DEF MovesOn, Moves, LocalOk, Persisting, At
<1>11. CASE AppendCheckpoint(r)
  <2> DEFINE n == [run[r] EXCEPT !.at = run[r].then, !.kind = "node", !.seq = 0, !.then = "over"]
  <2>1. run' = [run EXCEPT ![r] = n] /\ At(r, "append")
    BY <1>11 DEF AppendCheckpoint
  <2>2. /\ DOMAIN n = RunFields /\ n.at = run[r].then /\ n.job = run[r].job
        /\ n.gated = run[r].gated /\ n.kind = "node" /\ n.then = "over"
    BY <1>0 DEF LocalOk, RunFields
  <2> HIDE DEF n
  <2>3. LocalOk(n) /\ n.at \notin {"idle", "append"}
    BY <1>0, <2>1, <2>2 DEF LocalOk, Persisting, At, Nodes, Kinds
  <2> QED
    BY <2>1, <2>2, <2>3 DEF MovesOn, Moves, At
<1> QED
  BY <1>1, <1>2, <1>3, <1>4, <1>5, <1>6, <1>8, <1>9, <1>10, <1>11 DEF RunStep

-----------------------------------------------------------------------------
(* Steps: a stored job stays stored, a request that has begun stays what it  *)
(* is, and so does the thread of a run that has begun.                       *)

RequestsStay ==
    \A q \in Requests : ~Asks(q, "idle") => request'[q].e = request[q].e /\ ~Asks(q, "idle")'
JobsStay == \A j \in Jobs : job[j] # "absent" => job'[j] # "absent"
BeganBefore == \A r \in Runs : before'[r] = before[r]
ThreadsStay == \A r \in Runs : ~At(r, "idle") => Thread(r)' = Thread(r) /\ Thread(r) \in Evaluations


LEMMA StepsStay ==
  ASSUME ReviewInv, [Next]_vars
  PROVE  RequestsStay /\ JobsStay
<1> USE DEF RequestsStay, JobsStay, ReviewInv, Typed
<1>1. ASSUME UNCHANGED request PROVE RequestsStay
  BY <1>1 DEF Asks
<1>2. ASSUME UNCHANGED job PROVE JobsStay
  BY <1>2
<1>3. ASSUME NEW q \in Requests, NEW n, request' = [request EXCEPT ![q] = n],
             ~Asks(q, "idle") => n.at # "idle" /\ n.e = request[q].e
      PROVE  RequestsStay
  BY <1>3 DEF Asks
<1>4. ASSUME NEW q \in Requests, NEW at, Ask(q, at), at # "idle" PROVE RequestsStay
  <2> DEFINE n == [request[q] EXCEPT !.at = at]
  <2>1. request' = [request EXCEPT ![q] = n] /\ n.at = at /\ n.e = request[q].e
    BY <1>4 DEF Ask, Fields
  <2> HIDE DEF n
  <2> QED
    BY <1>3, <1>4, <2>1
<1>5. ASSUME NEW j \in Jobs, NEW status, status # "absent", job' = [job EXCEPT ![j] = status]
      PROVE  JobsStay
  BY <1>5
<1>6. CASE UNCHANGED vars
  BY <1>1, <1>2, <1>6 DEF vars
<1>7. ASSUME NEW e \in Evaluations, CreateStep(e) PROVE RequestsStay /\ JobsStay
  <2>1. UNCHANGED request /\ (UNCHANGED job \/ job' = [job EXCEPT ![e] = "queued"])
    BY <1>7 DEF CreateStep, Evaluate, PersistReport, PersistJob
  <2> QED
    BY <1>1, <1>2, <1>5, <2>1 DEF Jobs
<1>8. ASSUME NEW q \in Requests, ResumeStep(q) PROVE RequestsStay /\ JobsStay
  <2>1. CASE \E e \in Evaluations, k \in Keys :
               \E token \in 0 .. tokens[e].id : BeginResume(q, e, k, token)
    <3>1. UNCHANGED job /\ Asks(q, "idle") /\ \E n : request' = [request EXCEPT ![q] = n]
      BY <2>1 DEF BeginResume
    <3> QED
      BY <1>2, <1>3, <3>1
  <2>2. CASE StoreResumeJob(q)
    <3> DEFINE n == [request[q] EXCEPT !.at = "storeReport", !.copy = report[request[q].e]]
    <3>1. n.at = "storeReport" /\ n.e = request[q].e
      BY DEF Fields
    <3>2. request' = [request EXCEPT ![q] = n] /\ job' = [job EXCEPT ![q] = "queued"]
      BY <2>2 DEF StoreResumeJob
    <3> HIDE DEF n
    <3>3. RequestsStay
      BY <1>3, <3>1, <3>2
    <3> QED
      BY <1>5, <3>2, <3>3 DEF Jobs
  <2>3. CASE StoreAnswer(q)
    <3> DEFINE n == [request[q] EXCEPT !.at = "record", !.copy = NoReport]
    <3>1. n.at = "record" /\ n.e = request[q].e
      BY DEF Fields
    <3>2. request' = [request EXCEPT ![q] = n] /\ UNCHANGED job
      BY <2>3 DEF StoreAnswer
    <3> HIDE DEF n
    <3> QED
      BY <1>2, <1>3, <3>1, <3>2
  <2>4. CASE LookUp(q) \/ Validate(q) \/ Consume(q) \/ RecordAnswer(q) \/ ResumeRaises(q)
    <3>1. UNCHANGED job /\ \E at : at # "idle" /\ Ask(q, at)
      BY <2>4 DEF LookUp, Validate, Consume, RecordAnswer, ResumeRaises
    <3> QED
      BY <1>2, <1>4, <3>1
  <2> QED
    BY <1>8, <2>1, <2>2, <2>3, <2>4 DEF ResumeStep
<1>9. ASSUME NEW r \in Runs, RunStep(r) PROVE RequestsStay /\ JobsStay
  <2>1. CASE StartRun(r) \/ EndRun(r)
    <3>1. UNCHANGED request /\
          (UNCHANGED job \/ \E to \in {"running", "succeeded", "needs_manual_decision"} :
                                 job' = [job EXCEPT ![run[r].job] = to])
      BY <2>1 DEF StartRun, EndRun
    <3> QED
      BY <1>1, <1>2, <3>1
  <2>2. CASE ~(StartRun(r) \/ EndRun(r))
    <3>1. UNCHANGED <<request, job>>
      BY <1>9, <2>2 DEF RunStep, BeginRun, Work, CountTrail, AppendCheckpoint, GraphSaves,
                        GraphGate, GraphStops, GraphPersists, GraphFails
    <3> QED
      BY <1>1, <1>2, <3>1
  <2> QED
    BY <2>1, <2>2
<1> QED
  BY <1>6, <1>7, <1>8, <1>9 DEF Next

\* What a step makes of the runs and the trail: nothing, or the step of one run.
LEMMA RunCases ==
  ASSUME ReviewInv, RunsKnown, [Next]_vars
  PROVE  \/ UNCHANGED <<run, trail>> /\ BeganBefore
         \/ \E r \in Runs : MovesOn(r) /\ BeganBefore /\ UNCHANGED trail
         \/ \E r \in Runs : AppendCheckpoint(r)
         \/ \E r \in Runs, j \in Jobs : BeginRun(r, j)
<1>1. CASE UNCHANGED vars
  BY <1>1 DEF vars, BeganBefore
<1>2. ASSUME NEW e \in Evaluations, CreateStep(e) PROVE UNCHANGED <<run, trail>> /\ BeganBefore
  BY <1>2 DEF CreateStep, Evaluate, PersistReport, PersistJob, BeganBefore
<1>3. ASSUME NEW q \in Requests, ResumeStep(q) PROVE UNCHANGED <<run, trail>> /\ BeganBefore
  <2>1. CASE \E e \in Evaluations, k \in Keys :
               \E token \in 0 .. tokens[e].id : BeginResume(q, e, k, token)
    BY <2>1, HumanReviewAssumption DEF BeginResume, ReviewInv, Typed, BeganBefore
  <2>2. CASE ~\E e \in Evaluations, k \in Keys :
               \E token \in 0 .. tokens[e].id : BeginResume(q, e, k, token)
    BY <1>3, <2>2 DEF ResumeStep, LookUp, Validate, Consume, RecordAnswer, ResumeRaises,
                      StoreAnswer, StoreResumeJob, BeganBefore
  <2> QED
    BY <2>1, <2>2
<1>4. ASSUME NEW r \in Runs, RunStep(r),
             ~AppendCheckpoint(r), ~\E j \in Jobs : BeginRun(r, j)
      PROVE  MovesOn(r) /\ BeganBefore /\ UNCHANGED trail
  <2>1. UNCHANGED <<before, trail>>
    BY <1>4 DEF RunStep, StartRun, EndRun, Work, CountTrail, GraphSaves, GraphGate, GraphStops,
                GraphPersists, GraphFails
  <2> QED
    BY <1>4, <2>1, RunMoves DEF BeganBefore
<1> QED
  BY <1>1, <1>2, <1>3, <1>4 DEF Next

\* A run begins, for a job that is stored.
LEMMA RunBegins ==
  ASSUME RunsKnown, NEW r \in Runs, NEW j \in Jobs, BeginRun(r, j)
  PROVE  \E n : /\ run' = [run EXCEPT ![r] = n] /\ LocalOk(n) /\ n.at = "start"
                /\ n.job = j /\ ~n.gated /\ job[j] # "absent" /\ At(r, "idle")
<1> DEFINE n == [run[r] EXCEPT !.at = "start", !.job = j]
<1>1. run' = [run EXCEPT ![r] = n] /\ At(r, "idle") /\ job[j] # "absent"
  BY DEF BeginRun
<1>2. /\ DOMAIN n = RunFields /\ n.at = "start" /\ n.job = j
      /\ n.gated = run[r].gated /\ n.kind = run[r].kind /\ n.then = run[r].then
  BY DEF RunsKnown, LocalOk, RunFields
<1> HIDE DEF n
<1> QED
  BY <1>1, <1>2 DEF RunsKnown, LocalOk, Persisting, Nodes

\* What holds of every run's local state from one step to the next.
LEMMA RunsStay ==
  ASSUME ReviewInv, RunsKnown, [Next]_vars
  PROVE  /\ RunsKnown' /\ ThreadsStay
         /\ \A r \in Runs : ~At(r, "idle") => run'[r].job = run[r].job /\ ~At(r, "idle")'
         /\ \A r \in Runs : At(r, "over") => At(r, "over")'
         /\ \A r \in Runs : run[r].gated => run'[r].gated
<1> DEFINE Goal ==
        /\ RunsKnown'
        /\ \A r \in Runs : ~At(r, "idle") => run'[r].job = run[r].job /\ ~At(r, "idle")'
        /\ \A r \in Runs : At(r, "over") => At(r, "over")'
        /\ \A r \in Runs : run[r].gated => run'[r].gated
<1>1. RequestsStay /\ JobsStay
  BY StepsStay
<1>2. ASSUME UNCHANGED run PROVE Goal
  BY <1>1, <1>2 DEF RunsKnown, At, JobsStay
<1>3. ASSUME NEW r \in Runs, MovesOn(r) PROVE Goal
  <2>1. PICK n : Moves(r, n)
    BY <1>3 DEF MovesOn
  <2>2. /\ run'[r] = n /\ DOMAIN run' = Runs
        /\ \A s \in Runs : s # r => run'[s] = run[s]
        /\ LocalOk(n) /\ n.at # "idle" /\ n.job = run[r].job /\ (run[r].gated => n.gated)
        /\ ~At(r, "idle") /\ ~At(r, "over")
    BY <2>1 DEF Moves, RunsKnown
  <2> QED
    BY <1>1, <2>2 DEF RunsKnown, At, JobsStay
<1>4. ASSUME NEW r \in Runs, NEW j \in Jobs, BeginRun(r, j) PROVE Goal
  <2>1. PICK n : /\ run' = [run EXCEPT ![r] = n] /\ LocalOk(n) /\ n.at = "start"
                 /\ n.job = j /\ ~n.gated /\ job[j] # "absent" /\ At(r, "idle")
    BY <1>4, RunBegins
  <2>2. /\ run'[r] = n /\ DOMAIN run' = Runs
        /\ \A s \in Runs : s # r => run'[s] = run[s]
    BY <2>1 DEF RunsKnown
  <2> QED
    BY <1>1, <2>1, <2>2 DEF RunsKnown, At, JobsStay
<1>5. Goal
  <2>1. ASSUME NEW r \in Runs, AppendCheckpoint(r) PROVE MovesOn(r)
    <3>1. ~\E j \in Jobs : BeginRun(r, j)
      BY <2>1 DEF AppendCheckpoint, BeginRun, At
    <3> QED
      BY <2>1, <3>1, RunMoves DEF RunStep
  <2> HIDE DEF Goal
  <2>2. UNCHANGED run => Goal
    BY <1>2 DEF Goal
  <2> QED
    BY <1>3, <1>4, <2>1, <2>2, RunCases
<1>6. ThreadsStay
  <2> SUFFICES ASSUME NEW r \in Runs, ~At(r, "idle")
               PROVE  Thread(r)' = Thread(r) /\ Thread(r) \in Evaluations
    BY DEF ThreadsStay
  <2>1. run'[r].job = run[r].job /\ run[r].job \in Jobs /\ job[run[r].job] # "absent"
    BY <1>5 DEF RunsKnown
  <2>2. CASE run[r].job \in Evaluations
    BY <2>1, <2>2 DEF Thread, EvaluationOf
  <2>3. CASE run[r].job \notin Evaluations
    <3> DEFINE q == run[r].job
    <3>1. q \in Requests /\ ~Asks(q, "idle")
      BY <2>1, <2>3 DEF Jobs, ReviewInv, StoredLate, Stored, Late, Asks
    <3>2. request'[q].e = request[q].e /\ request[q].e \in Evaluations
      BY <1>1, <3>1 DEF RequestsStay, ReviewInv, ShowsKnownToken
    <3> QED
      BY <2>1, <2>3, <3>2 DEF Thread, EvaluationOf
  <2> QED
    BY <2>2, <2>3
<1> QED
  BY <1>5, <1>6

-----------------------------------------------------------------------------
(* The numbers of a trail                                                    *)

Entries == [seq : Nat, by : Runs, kind : Kinds]

TrailTyped == trail \in [Evaluations -> Seq(Entries)]

\* A number is at most its place, and its run has begun.
NumbersAreLow ==
    \A e \in Evaluations : \A i \in DOMAIN trail[e] :
        trail[e][i].seq \in 1 .. i /\ ~At(trail[e][i].by, "idle")

OthersNumber(r, e) ==
    \A i \in DOMAIN trail[e] : trail[e][i].seq = run[r].seq =>
        trail[e][i].by # r /\ trail[e][i].by \notin before[r]

\* A number given out and not yet appended is free, but for overlapping runs.
CountedIsFree ==
    \A r \in Runs : At(r, "append") =>
        /\ run[r].seq \in 1 .. Len(trail[Thread(r)]) + 1
        /\ OthersNumber(r, Thread(r))

BeforeIsOver == \A r \in Runs : \A s \in before[r] \intersect Runs : At(s, "over") /\ ~At(r, "idle")

TrailInv == TrailTyped /\ NumbersAreLow /\ CountedIsFree /\ BeforeIsOver /\ TrailNumbered


\* A nonempty set of small numbers has a greatest.
LEMMA MaxExists ==
  ASSUME NEW n \in Nat, NEW S, S # {}, S \subseteq 1 .. n
  PROVE  Max(S) \in S /\ \A x \in S : x <= Max(S)
<1> DEFINE Bounds == {b \in Nat : \A x \in S : x <= b}
           Less == {pair \in Nat \X Nat : pair[1] < pair[2]}
<1>1. n \in Bounds
  OBVIOUS
<1>2. PICK b \in Bounds : \A c \in Bounds : <<c, b>> \notin Less
  <2>1. IsWellFoundedOn(Less, Nat)
    BY NatLessThanWellFounded, Zenon DEF OpToRel
  <2> QED
    BY <1>1, <2>1, WFMin
<1>3. \A c \in Bounds : b <= c
  <2> SUFFICES ASSUME NEW c \in Bounds, c < b PROVE FALSE
    OBVIOUS
  <2>1. <<c, b>> \in Nat \X Nat /\ <<c, b>>[1] = c /\ <<c, b>>[2] = b
    OBVIOUS
  <2>2. <<c, b>> \in Less
    BY <2>1
  <2> QED
    BY <1>2, <2>2
<1>4. b \in S
  <2> SUFFICES ASSUME b \notin S PROVE FALSE
    OBVIOUS
  <2>1. PICK x \in S : x \in 1 .. n
    OBVIOUS
  <2>2. \A y \in S : y \in Nat /\ y <= b /\ y # b
    OBVIOUS
  <2>3. b - 1 \in Nat /\ \A y \in S : y <= b - 1
    BY <2>1, <2>2
  <2>4. b - 1 \in Bounds /\ ~(b <= b - 1)
    BY <2>3
  <2> QED
    BY <1>3, <2>4
<1>5. \E x \in S : \A y \in S : x >= y
  BY <1>4
<1> QED
  BY <1>5 DEF Max

LEMMA TrailsAreSequences ==
  ASSUME TrailTyped, NEW e \in Evaluations
  PROVE  /\ trail[e] \in Seq(Entries) /\ Len(trail[e]) \in Nat
         /\ DOMAIN trail[e] = 1 .. Len(trail[e])
         /\ \A i \in DOMAIN trail[e] :
               /\ trail[e][i] \in Entries
               /\ trail[e][i].seq \in Nat /\ trail[e][i].by \in Runs
<1>1. trail[e] \in Seq(Entries)
  BY DEF TrailTyped
<1>2. \A i \in 1 .. Len(trail[e]) : trail[e][i] \in Entries
  BY <1>1
<1> QED
  BY <1>1, <1>2 DEF Entries

\* A number counted now is above every number of the trail, and next to its length.
LEMMA CountsAbove ==
  ASSUME TrailTyped, NumbersAreLow, NEW e \in Evaluations, NEW kind \in Kinds
  PROVE  /\ NextSeq(e, kind) \in 1 .. Len(trail[e]) + 1
         /\ \A i \in DOMAIN trail[e] : trail[e][i].seq < NextSeq(e, kind)
<1>1. /\ trail[e] \in Seq(Entries) /\ Len(trail[e]) \in Nat
      /\ DOMAIN trail[e] = 1 .. Len(trail[e])
  BY DEF TrailTyped
<1>2. \A i \in DOMAIN trail[e] : trail[e][i].seq \in 1 .. i /\ i \in Nat /\ i <= Len(trail[e])
  BY <1>1 DEF NumbersAreLow
<1>3. CASE kind = "node"
  BY <1>1, <1>2, <1>3 DEF NextSeq
<1>4. CASE kind = "state" /\ trail[e] = <<>>
  BY <1>1, <1>4 DEF NextSeq
<1>5. CASE kind = "state" /\ trail[e] # <<>>
  <2>1. Seqs(e) # {} /\ Seqs(e) \subseteq 1 .. Len(trail[e])
    BY <1>1, <1>2, <1>5 DEF Seqs
  <2>2. Max(Seqs(e)) \in Seqs(e) /\ \A x \in Seqs(e) : x <= Max(Seqs(e))
    BY <1>1, <2>1, MaxExists
  <2>3. NextSeq(e, kind) = Max(Seqs(e)) + 1 /\ Max(Seqs(e)) \in 1 .. Len(trail[e])
    BY <1>5, <2>1, <2>2 DEF NextSeq
  <2>4. \A i \in DOMAIN trail[e] : trail[e][i].seq \in Seqs(e)
    BY DEF Seqs
  <2> QED
    BY <1>1, <1>2, <2>2, <2>3, <2>4
<1> QED
  BY <1>3, <1>4, <1>5 DEF Kinds

\* Nothing is appended and no run begins; r may have counted the trail.
LEMMA TrailCounts ==
  ASSUME ReviewInv, RunsKnown, TrailInv, [Next]_vars, UNCHANGED trail, BeganBefore,
         \/ UNCHANGED run
         \/ \E r \in Runs : MovesOn(r)
  PROVE  TrailInv'
<1> USE DEF TrailInv
<1>1. /\ ThreadsStay
      /\ \A r \in Runs : ~At(r, "idle") => ~At(r, "idle")'
      /\ \A r \in Runs : At(r, "over") => At(r, "over")'
  BY RunsStay
<1>2. TrailTyped' /\ NumbersAreLow'
  BY <1>1, TrailsAreSequences DEF TrailTyped, NumbersAreLow, Entries
<1>3. TrailNumbered'
  <2>1. \A e \in Evaluations : \A i \in DOMAIN trail[e] : trail[e][i].by \in Runs
    BY TrailsAreSequences
  <2> QED
    BY <2>1 DEF TrailNumbered, BeganBefore
<1>4. BeforeIsOver'
  BY <1>1 DEF BeforeIsOver, BeganBefore
<1>5. CountedIsFree'
  <2> SUFFICES ASSUME NEW r \in Runs, At(r, "append")'
               PROVE  /\ run'[r].seq \in 1 .. Len(trail[Thread(r)']) + 1
                      /\ \A i \in DOMAIN trail[Thread(r)'] : trail[Thread(r)'][i].seq = run'[r].seq =>
                            trail[Thread(r)'][i].by # r /\ trail[Thread(r)'][i].by \notin before[r]
    BY DEF CountedIsFree, OthersNumber, BeganBefore
  <2>1. CASE run'[r] = run[r]
    <3>1. At(r, "append") /\ Thread(r)' = Thread(r)
      BY <1>1, <2>1 DEF At, ThreadsStay
    <3> QED
      BY <2>1, <3>1 DEF CountedIsFree, OthersNumber
  <2>2. CASE run'[r] # run[r]
    <3>1. PICK n : Moves(r, n)
      BY <2>2 DEF MovesOn, Moves, RunsKnown
    <3>2. /\ run'[r].seq = NextSeq(Thread(r), run[r].kind) /\ run[r].kind \in Kinds
          /\ ~At(r, "idle")
      BY <3>1 DEF Moves, RunsKnown, LocalOk, At
    <3>3. Thread(r) \in Evaluations /\ Thread(r)' = Thread(r)
      BY <1>1, <3>2 DEF ThreadsStay
    <3>4. /\ run'[r].seq \in 1 .. Len(trail[Thread(r)]) + 1
          /\ \A i \in DOMAIN trail[Thread(r)] : trail[Thread(r)][i].seq < run'[r].seq
      BY <3>2, <3>3, CountsAbove
    <3>5. /\ Len(trail[Thread(r)]) \in Nat
          /\ \A i \in DOMAIN trail[Thread(r)] : trail[Thread(r)][i].seq \in Nat
      BY <3>3, TrailsAreSequences
    <3> QED
      BY <3>3, <3>4, <3>5
  <2> QED
    BY <2>1, <2>2
<1> QED
  BY <1>2, <1>3, <1>4, <1>5

\* A run begins: it has appended nothing, and knows which runs are over.
LEMMA TrailBegins ==
  ASSUME ReviewInv, RunsKnown, TrailInv, [Next]_vars,
         NEW r \in Runs, NEW j \in Jobs, BeginRun(r, j)
  PROVE  TrailInv'
<1> USE DEF TrailInv
<1>1. /\ ThreadsStay
      /\ \A s \in Runs : ~At(s, "idle") => ~At(s, "idle")'
      /\ \A s \in Runs : At(s, "over") => At(s, "over")'
  BY RunsStay
<1>2. PICK n : /\ run' = [run EXCEPT ![r] = n] /\ n.at = "start" /\ At(r, "idle")
  BY RunBegins
<1>3. /\ run'[r] = n /\ \A s \in Runs : s # r => run'[s] = run[s]
  BY <1>2 DEF RunsKnown
<1>4. /\ UNCHANGED trail /\ before'[r] = {s \in Runs : At(s, "over")}
      /\ \A s \in Runs : s # r => before'[s] = before[s]
  BY DEF BeginRun, ReviewInv, Typed
<1>5. TrailTyped' /\ NumbersAreLow'
  BY <1>1, <1>4, TrailsAreSequences DEF TrailTyped, NumbersAreLow, Entries
<1>6. \A e \in Evaluations : \A i \in DOMAIN trail[e] :
         trail[e][i].by \in Runs /\ trail[e][i].by # r
  BY <1>2, TrailsAreSequences DEF NumbersAreLow
<1>7. TrailNumbered'
  BY <1>4, <1>6 DEF TrailNumbered
<1>8. BeforeIsOver'
  BY <1>1, <1>2, <1>3, <1>4 DEF BeforeIsOver, At
<1>9. CountedIsFree'
  <2> SUFFICES ASSUME NEW s \in Runs, At(s, "append")'
               PROVE  /\ run'[s].seq \in 1 .. Len(trail[Thread(s)']) + 1
                      /\ \A i \in DOMAIN trail[Thread(s)'] : trail[Thread(s)'][i].seq = run'[s].seq =>
                            trail[Thread(s)'][i].by # s /\ trail[Thread(s)'][i].by \notin before'[s]
    BY <1>4 DEF CountedIsFree, OthersNumber
  <2>1. s # r /\ run'[s] = run[s] /\ At(s, "append") /\ before'[s] = before[s]
    BY <1>2, <1>3, <1>4 DEF At
  <2>2. Thread(s)' = Thread(s)
    BY <1>1, <2>1 DEF ThreadsStay, At
  <2> QED
    BY <2>1, <2>2 DEF CountedIsFree, OthersNumber
<1> QED
  BY <1>5, <1>7, <1>8, <1>9

\* The number counted is appended: who has given it out since then overlapped with r.
LEMMA TrailAppends ==
  ASSUME ReviewInv, RunsKnown, TrailInv, [Next]_vars,
         NEW r \in Runs, AppendCheckpoint(r)
  PROVE  TrailInv'
<1> USE DEF TrailInv
<1> DEFINE e == Thread(r)
           entry == [seq |-> run[r].seq, by |-> r, kind |-> run[r].kind]
           end == Len(trail[e]) + 1
<1>1. /\ ThreadsStay
      /\ \A s \in Runs : ~At(s, "idle") => ~At(s, "idle")'
      /\ \A s \in Runs : At(s, "over") => At(s, "over")'
  BY RunsStay
<1>2. PICK n : Moves(r, n)
  <2>1. ~\E j \in Jobs : BeginRun(r, j)
    BY DEF AppendCheckpoint, BeginRun, At
  <2> QED
    BY <2>1, RunMoves DEF RunStep, MovesOn
<1>3. At(r, "append") /\ trail' = [trail EXCEPT ![e] = Append(@, entry)] /\ UNCHANGED before
  BY DEF AppendCheckpoint
<1>4. /\ run'[r] = n /\ n.at # "append" /\ \A s \in Runs : s # r => run'[s] = run[s]
  BY <1>2, <1>3 DEF Moves, RunsKnown, At
<1>5. e \in Evaluations /\ trail[e] \in Seq(Entries) /\ ~At(r, "idle")
  BY <1>1, <1>3 DEF ThreadsStay, At, TrailTyped
<1>6. entry \in Entries /\ run[r].seq \in 1 .. end /\ end \in Nat /\ OthersNumber(r, e)
  BY <1>3, <1>5 DEF CountedIsFree, Entries, RunsKnown, LocalOk
<1>7. /\ \A f \in Evaluations : f # e => trail'[f] = trail[f]
      /\ trail'[e] \in Seq(Entries) /\ DOMAIN trail'[e] = 1 .. end /\ Len(trail'[e]) = end
      /\ DOMAIN trail[e] = 1 .. Len(trail[e]) /\ DOMAIN trail[e] = DOMAIN trail'[e] \ {end}
      /\ \A i \in DOMAIN trail[e] : trail'[e][i] = trail[e][i]
      /\ trail'[e][end] = entry
  <2>1. trail'[e] = Append(trail[e], entry) /\ \A f \in Evaluations : f # e => trail'[f] = trail[f]
    BY <1>3, <1>5 DEF TrailTyped
  <2>2. \A i \in 1 .. Len(trail[e]) : Append(trail[e], entry)[i] = trail[e][i]
    BY <1>5, <1>6
  <2> QED
    BY <1>5, <1>6, <2>1, <2>2
<1>8. entry.seq = run[r].seq /\ entry.by = r
  OBVIOUS
<1> HIDE DEF entry, e, end
<1>9. TrailTyped'
  <2>1. trail' \in [Evaluations -> Seq(Entries)]
    BY <1>3, <1>5, <1>7 DEF TrailTyped
  <2> QED
    BY <2>1 DEF TrailTyped, Entries
<1>10. NumbersAreLow'
  <2> SUFFICES ASSUME NEW f \in Evaluations, NEW i \in DOMAIN trail'[f]
               PROVE  trail'[f][i].seq \in 1 .. i /\ run'[trail'[f][i].by].at # "idle"
    BY DEF NumbersAreLow, At
  <2>1. CASE f = e /\ i = end
    <3>1. run'[r].at # "idle"
      BY <1>1, <1>5 DEF At
    <3> QED
      BY <1>6, <1>7, <1>8, <2>1, <3>1
  <2>2. CASE ~(f = e /\ i = end)
    <3>1. trail'[f][i] = trail[f][i] /\ i \in DOMAIN trail[f]
      BY <1>7, <2>2
    <3>2. trail[f][i].by \in Runs
      BY <3>1, TrailsAreSequences
    <3> QED
      BY <1>1, <3>1, <3>2 DEF NumbersAreLow, At
  <2> QED
    BY <2>1, <2>2
<1>11. TrailNumbered'
  <2> SUFFICES ASSUME NEW f \in Evaluations, NEW i \in DOMAIN trail'[f], NEW k \in DOMAIN trail'[f],
                      i < k, trail'[f][i].seq = trail'[f][k].seq
               PROVE  /\ trail'[f][i].by # trail'[f][k].by
                      /\ trail'[f][i].by \notin before[trail'[f][k].by]
    BY <1>3 DEF TrailNumbered
  <2>1. CASE f = e /\ k = end
    <3>1. i \in DOMAIN trail[e] /\ trail'[e][i] = trail[e][i]
      BY <1>7, <2>1
    <3> QED
      BY <1>6, <1>7, <1>8, <2>1, <3>1 DEF OthersNumber
  <2>2. CASE ~(f = e /\ k = end)
    <3>1. f = e => i # end
      BY <1>6, <1>7, <2>2
    <3> QED
      BY <1>7, <2>2, <3>1 DEF TrailNumbered
  <2> QED
    BY <2>1, <2>2
<1>12. BeforeIsOver'
  BY <1>1, <1>3 DEF BeforeIsOver
<1>13. CountedIsFree'
  <2> SUFFICES ASSUME NEW s \in Runs, At(s, "append")'
               PROVE  /\ run'[s].seq \in 1 .. Len(trail'[Thread(s)']) + 1
                      /\ \A i \in DOMAIN trail'[Thread(s)'] : trail'[Thread(s)'][i].seq = run'[s].seq =>
                            trail'[Thread(s)'][i].by # s /\ trail'[Thread(s)'][i].by \notin before[s]
    BY <1>3 DEF CountedIsFree, OthersNumber
  <2>1. s # r /\ run'[s] = run[s] /\ At(s, "append")
    BY <1>4 DEF At
  <2>2. Thread(s)' = Thread(s) /\ Thread(s) \in Evaluations
    BY <1>1, <2>1 DEF ThreadsStay, At
  <2>3. run[s].seq \in 1 .. Len(trail[Thread(s)]) + 1 /\ OthersNumber(s, Thread(s))
    BY <2>1 DEF CountedIsFree
  <2>4. r \notin before[s]
    BY <1>3 DEF BeforeIsOver, At
  <2>5. CASE Thread(s) = e
    <3>1. run[s].seq \in 1 .. end + 1
      BY <1>6, <2>3, <2>5 DEF end
    <3>2. \A i \in DOMAIN trail'[e] : trail'[e][i].seq = run[s].seq =>
              trail'[e][i].by # s /\ trail'[e][i].by \notin before[s]
      BY <1>7, <1>8, <2>1, <2>3, <2>4, <2>5 DEF OthersNumber
    <3> QED
      BY <1>7, <2>1, <2>2, <2>5, <3>1, <3>2
  <2>6. CASE Thread(s) # e
    BY <1>7, <2>1, <2>2, <2>3, <2>6 DEF OthersNumber
  <2> QED
    BY <2>5, <2>6
<1> QED
  BY <1>9, <1>10, <1>11, <1>12, <1>13

LEMMA TrailStep ==
  ASSUME ReviewInv, RunsKnown, TrailInv, [Next]_vars
  PROVE  TrailInv'
BY RunCases, TrailCounts, TrailBegins, TrailAppends

LEMMA TrailInit == Init => RunsKnown /\ TrailInv
<1> SUFFICES ASSUME Init PROVE RunsKnown /\ TrailInv
  OBVIOUS
<1>1. \A r \in Runs : /\ run[r] = IdleRun /\ before[r] = {}
                      /\ LocalOk(run[r]) /\ At(r, "idle") /\ ~run[r].gated
  BY DEF Init, IdleRun, LocalOk, RunFields, Kinds, Nodes, Persisting, At
<1>2. \A e \in Evaluations : trail[e] = <<>>
  BY DEF Init
<1> QED
  BY <1>1, <1>2 DEF Init, RunsKnown, TrailInv, TrailTyped, NumbersAreLow, CountedIsFree,
                    BeforeIsOver, TrailNumbered, At

\* The number of a checkpoint is read before the checkpoint is appended, and nodes
\* take theirs from the length of the trail, LangGraph's states from the highest
\* number: still two checkpoints of a thread share a number only if the runs that
\* appended them overlapped.
THEOREM CheckpointsAreNumbered == Spec => []TrailNumbered
<1>1. (ReviewInv /\ RunsKnown /\ TrailInv) /\ [Next]_vars => (ReviewInv /\ RunsKnown /\ TrailInv)'
  BY ReviewStep, RunsStay, TrailStep
<1>2. TrailInv => TrailNumbered
  BY DEF TrailInv
<1> QED
  BY <1>1, <1>2, ReviewInit, TrailInit, PTL DEF Spec

-----------------------------------------------------------------------------
(* What the report asks for                                                  *)

\* Nobody has answered, or run, an evaluation whose job is not yet stored.
CreatedFirst ==
    \A e \in Evaluations : creating[e] # "created" =>
        /\ job[e] = "absent" /\ ~tokens[e].used
        /\ \A q \in Requests : ~Asks(q, "idle") => request[q].e # e
        /\ creating[e] # "reported" => ~report[e].review

\* An answer stored is not asked for again, unless the gate has run again.
AnswerStored ==
    \A q \in Requests : Asks(q, "record") =>
        ~report[request[q].e].review \/ Regated(request[q].e)

ReportFields == {"stored", "review", "token"}
ReportsTyped ==
    /\ DOMAIN report = Evaluations /\ \A e \in Evaluations : DOMAIN report[e] = ReportFields
    /\ \A q \in Requests : DOMAIN request[q].copy = ReportFields
    /\ DOMAIN creating = Evaluations

AskedInv == ReportsTyped /\ CreatedFirst /\ AnswerStored /\ WaitingCanBeAnswered

\* The parts of the invariants that each step needs.
LEMMA AskedFacts ==
  ASSUME ReviewInv, RunsKnown, AskedInv, [Next]_vars
  PROVE  /\ \A q \in Requests : ~Asks(q, "idle") =>
               request[q].e \in Evaluations /\ creating[request[q].e] = "created"
         /\ \A r \in Runs : ~At(r, "idle") =>
               Thread(r) \in Evaluations /\ creating[Thread(r)] = "created"
         /\ \A e \in Evaluations : Regated(e) => Regated(e)'
         /\ RunsKnown'
<1>1. \A q \in Requests : ~Asks(q, "idle") =>
         request[q].e \in Evaluations /\ creating[request[q].e] = "created"
  BY DEF ReviewInv, ShowsKnownToken, AskedInv, CreatedFirst
<1>2. RunsKnown' /\ ThreadsStay /\ \A r \in Runs : run[r].gated => run'[r].gated
  BY RunsStay
<1>3. ASSUME NEW r \in Runs, ~At(r, "idle")
      PROVE  Thread(r) \in Evaluations /\ creating[Thread(r)] = "created"
  <2>1. Thread(r) \in Evaluations /\ run[r].job \in Jobs /\ job[run[r].job] # "absent"
    BY <1>2, <1>3 DEF ThreadsStay, RunsKnown
  <2>2. CASE run[r].job \in Evaluations
    BY <2>1, <2>2 DEF Thread, EvaluationOf, AskedInv, CreatedFirst
  <2>3. CASE run[r].job \notin Evaluations
    <3>1. run[r].job \in Requests /\ ~Asks(run[r].job, "idle")
      BY <2>1, <2>3 DEF Jobs, ReviewInv, StoredLate, Stored, Late, Asks
    <3> QED
      BY <1>1, <2>3, <3>1 DEF Thread, EvaluationOf
  <2> QED
    BY <2>1, <2>2, <2>3
<1>4. ASSUME NEW e \in Evaluations, Regated(e) PROVE Regated(e)'
  <2>1. PICK r \in Runs : run[r].gated /\ Thread(r) = e
    BY <1>4 DEF Regated
  <2>2. ~At(r, "idle")
    BY <2>1 DEF RunsKnown
  <2> QED
    BY <1>2, <2>1, <2>2 DEF Regated, ThreadsStay
<1> QED
  BY <1>1, <1>2, <1>3, <1>4

\* Tokens and reports stay; a request that stops being spent was recording its answer.
LEMMA AskedUndisturbed ==
  ASSUME ReviewInv, RunsKnown, AskedInv, [Next]_vars, UNCHANGED review,
         \A e \in Evaluations : job[e] = "absent" => job'[e] = "absent",
         \A q \in Requests : request'[q] = request[q] \/
            /\ request'[q].e \in Evaluations /\ creating[request'[q].e] = "created"
            /\ DOMAIN request'[q].copy = ReportFields
            /\ request'[q].at # "record"
            /\ Spent(q) => Asks(q, "record") \/ (Spent(q)' /\ request'[q].e = request[q].e)
  PROVE  AskedInv'
<1> USE DEF AskedInv, review
<1>1. \A e \in Evaluations : Regated(e) => Regated(e)'
  BY AskedFacts
<1>2. ReportsTyped'
  BY DEF ReportsTyped
<1>3. CreatedFirst'
  BY DEF CreatedFirst, Asks
<1>4. AnswerStored'
  BY <1>1, AskedFacts DEF AnswerStored, Asks
<1>5. WaitingCanBeAnswered'
  <2> SUFFICES ASSUME NEW e \in Evaluations, report[e].review, ~Regated(e)', tokens[e].used
               PROVE  \E q \in Requests : request'[q].e = e /\ Spent(q)'
    BY <1>1 DEF WaitingCanBeAnswered
  <2>1. PICK q \in Requests : request[q].e = e /\ Spent(q)
    BY <1>1 DEF WaitingCanBeAnswered
  <2>2. ~Asks(q, "record")
    BY <1>1, <2>1 DEF AnswerStored
  <2>3. request'[q].e = e /\ Spent(q)'
    BY <2>1, <2>2 DEF Spent
  <2> QED
    BY <2>3
<1> QED
  BY <1>2, <1>3, <1>4, <1>5

\* What creates e: its report asks with the token that the gate has just registered.
LEMMA AskedCreates ==
  ASSUME ReviewInv, RunsKnown, AskedInv, [Next]_vars, NEW e \in Evaluations, CreateStep(e)
  PROVE  AskedInv'
<1> USE DEF AskedInv, ReviewInv, Typed
<1>1. UNCHANGED request /\ \A f \in Evaluations : Regated(f) => Regated(f)'
  BY AskedFacts DEF CreateStep, Evaluate, PersistReport, PersistJob
<1>2. creating[e] # "created" /\ ~tokens[e].used /\ job[e] = "absent"
      /\ \A q \in Requests : ~Asks(q, "idle") => request[q].e # e
  <2>1. creating[e] # "created"
    BY DEF CreateStep, Evaluate, PersistReport, PersistJob
  <2> QED
    BY <2>1 DEF CreatedFirst
<1>3. \A f \in Evaluations : f # e =>
         /\ creating'[f] = creating[f] /\ tokens'[f] = tokens[f]
         /\ report'[f] = report[f] /\ job'[f] = job[f]
  BY DEF CreateStep, Evaluate, PersistReport, PersistJob, Register, ReportsTyped, Jobs
<1>4. \A q \in Requests : ~Asks(q, "idle") => request[q].e \in Evaluations /\ request[q].e # e
  BY <1>2, AskedFacts
<1>5. AnswerStored'
  BY <1>1, <1>3, <1>4 DEF AnswerStored, Asks
<1>6. ASSUME NEW needs \in BOOLEAN, Evaluate(e, needs) PROVE AskedInv'
  <2> DEFINE new == [NoToken EXCEPT !.id = tokens[e].id + 1]
  <2>1. new.used = FALSE
    BY DEF NoToken
  <2> HIDE DEF new
  <2>2. /\ ~tokens'[e].used /\ UNCHANGED <<report, job>> /\ ~report[e].review
        /\ creating'[e] \in {"hitl", "pass"} /\ DOMAIN creating' = Evaluations
    BY <1>2, <1>6, <2>1 DEF Evaluate, Register, new, CreatedFirst, ReportsTyped
  <2>3. ReportsTyped'
    BY <1>1, <2>2 DEF ReportsTyped
  <2>4. CreatedFirst'
    BY <1>1, <1>2, <1>3, <2>2 DEF CreatedFirst, Asks
  <2>5. WaitingCanBeAnswered'
    BY <1>1, <1>3, <2>2 DEF WaitingCanBeAnswered, Spent
  <2> QED
    BY <1>5, <2>3, <2>4, <2>5
<1>7. CASE PersistReport(e)
  <2>1. /\ report'[e].review => report'[e].token = tokens[e].id
        /\ DOMAIN report'[e] = ReportFields /\ DOMAIN report' = Evaluations
        /\ creating'[e] = "reported" /\ DOMAIN creating' = Evaluations
        /\ UNCHANGED <<tokens, job>>
    BY <1>7 DEF PersistReport, ReportsTyped, ReportFields
  <2>2. ReportsTyped'
    BY <1>1, <1>3, <2>1 DEF ReportsTyped
  <2>3. CreatedFirst'
    BY <1>1, <1>2, <1>3, <2>1 DEF CreatedFirst, Asks
  <2>4. WaitingCanBeAnswered'
    BY <1>1, <1>2, <1>3, <2>1 DEF WaitingCanBeAnswered, Spent
  <2> QED
    BY <1>5, <2>2, <2>3, <2>4
<1>8. CASE PersistJob(e)
  <2>1. creating'[e] = "created" /\ DOMAIN creating' = Evaluations /\ UNCHANGED <<tokens, report>>
    BY <1>8 DEF PersistJob, ReportsTyped
  <2>2. ReportsTyped'
    BY <1>1, <2>1 DEF ReportsTyped
  <2>3. CreatedFirst'
    BY <1>1, <1>3, <2>1 DEF CreatedFirst, Asks
  <2>4. WaitingCanBeAnswered'
    BY <1>1, <2>1 DEF WaitingCanBeAnswered, Spent
  <2> QED
    BY <1>5, <2>2, <2>3, <2>4
<1> QED
  BY <1>6, <1>7, <1>8 DEF CreateStep

\* A request changes what it has reached, and perhaps the job row it makes.
LEMMA AskedRequests ==
  ASSUME ReviewInv, RunsKnown, AskedInv, [Next]_vars, NEW q \in Requests, ResumeStep(q),
         ~Consume(q), ~StoreAnswer(q)
  PROVE  AskedInv'
<1> USE DEF AskedInv, ReviewInv, Typed, ReportsTyped
<1>1. UNCHANGED review
  BY DEF ResumeStep, BeginResume, LookUp, Validate, StoreResumeJob, RecordAnswer, ResumeRaises, review
<1>2. \A e \in Evaluations : job[e] = "absent" => job'[e] = "absent"
  <2>1. UNCHANGED job \/ job' = [job EXCEPT ![q] = "queued"]
    BY DEF ResumeStep, BeginResume, LookUp, Validate, StoreResumeJob, RecordAnswer, ResumeRaises
  <2>2. \A e \in Evaluations : e # q
    BY HumanReviewAssumption
  <2> QED
    BY <2>1, <2>2 DEF Jobs
<1>3. \A e \in Evaluations : DOMAIN report[e] = ReportFields
  OBVIOUS
<1> DEFINE Goes(n) ==
        /\ request' = [request EXCEPT ![q] = n]
        /\ n.e \in Evaluations /\ creating[n.e] = "created" /\ DOMAIN n.copy = ReportFields
        /\ n.at # "record"
        /\ Spent(q) => Asks(q, "record") \/
                       (n.at \in {"storeJob", "storeReport", "failed"} /\ n.e = request[q].e)
<1>4. \E n : Goes(n)
  <2>1. ASSUME NEW e \in Evaluations, NEW k, NEW token, BeginResume(q, e, k, token)
        PROVE  \E n : Goes(n)
    <3> DEFINE n == [IdleRequest EXCEPT !.at = "lookup", !.e = e, !.key = k, !.token = token]
    <3>1. n.at = "lookup" /\ n.e = e /\ DOMAIN n.copy = ReportFields
      BY DEF IdleRequest, NoReport, ReportFields
    <3>2. request' = [request EXCEPT ![q] = n] /\ creating[e] = "created" /\ ~Spent(q)
      BY <2>1 DEF BeginResume, Asks, Spent
    <3> HIDE DEF n
    <3> QED
      BY <3>1, <3>2
  <2>2. ASSUME NEW at, Ask(q, at), ~Asks(q, "idle"), at # "record",
               Spent(q) => Asks(q, "record") \/ at = "failed"
        PROVE  \E n : Goes(n)
    <3> DEFINE n == [request[q] EXCEPT !.at = at]
    <3>1. n.at = at /\ n.e = request[q].e /\ n.copy = request[q].copy
      BY DEF Fields
    <3>2. request' = [request EXCEPT ![q] = n]
      BY <2>2 DEF Ask
    <3>3. request[q].e \in Evaluations /\ creating[request[q].e] = "created"
      BY <2>2, AskedFacts
    <3> HIDE DEF n
    <3> QED
      BY <2>2, <3>1, <3>2, <3>3
  <2>3. CASE StoreResumeJob(q)
    <3> DEFINE n == [request[q] EXCEPT !.at = "storeReport", !.copy = report[request[q].e]]
    <3>1. n.at = "storeReport" /\ n.e = request[q].e /\ n.copy = report[request[q].e]
      BY DEF Fields
    <3>2. request' = [request EXCEPT ![q] = n] /\ Asks(q, "storeJob")
      BY <2>3 DEF StoreResumeJob
    <3>3. request[q].e \in Evaluations /\ creating[request[q].e] = "created"
      BY <3>2, AskedFacts DEF Asks
    <3> HIDE DEF n
    <3> QED
      BY <1>3, <3>1, <3>2, <3>3
  <2>4. CASE LookUp(q) \/ Validate(q) \/ RecordAnswer(q) \/ ResumeRaises(q)
    <3>1. \E at : /\ Ask(q, at) /\ ~Asks(q, "idle") /\ at # "record"
                  /\ Spent(q) => Asks(q, "record") \/ at = "failed"
      BY <2>4 DEF LookUp, Validate, RecordAnswer, ResumeRaises, Asks, Spent
    <3> QED
      BY <2>2, <3>1
  <2> HIDE DEF Goes
  <2> QED
    BY <2>1, <2>3, <2>4 DEF ResumeStep
<1>5. PICK n : Goes(n)
  BY <1>4
<1>6. /\ request'[q] = n /\ \A p \in Requests : p # q => request'[p] = request[p]
  BY <1>5
<1>7. Spent(q)' <=> n.at \in {"storeJob", "storeReport", "record", "failed"}
  BY <1>6 DEF Spent
<1> QED
  BY <1>1, <1>2, <1>5, <1>6, <1>7, AskedUndisturbed DEF Asks

\* The token goes to one request, which has spent it from then on.
LEMMA AskedConsumes ==
  ASSUME ReviewInv, RunsKnown, AskedInv, [Next]_vars, NEW q \in Requests, Consume(q)
  PROVE  AskedInv'
<1> USE DEF AskedInv, ReviewInv, Typed
<1> PICK e : e = request[q].e
  OBVIOUS
<1> DEFINE n == [request[q] EXCEPT !.at = "storeJob"]
           t == [tokens[e] EXCEPT !.used = TRUE]
<1>1. /\ tokens' = [tokens EXCEPT ![e] = t] /\ request' = [request EXCEPT ![q] = n]
      /\ Asks(q, "consume") /\ UNCHANGED <<creating, report, job>>
  BY DEF Consume, Ask
<1>2. n.at = "storeJob" /\ n.e = e /\ n.copy = request[q].copy
  BY DEF Fields
<1>3. e \in Evaluations /\ creating[e] = "created"
  BY <1>1, AskedFacts DEF Asks
<1>4. t.id = tokens[e].id
  BY <1>3
<1> HIDE DEF n, t
<1>5. /\ request'[q] = n /\ \A p \in Requests : p # q => request'[p] = request[p]
      /\ tokens'[e] = t /\ \A f \in Evaluations : f # e => tokens'[f] = tokens[f]
  BY <1>1, <1>3
<1>6. \A f \in Evaluations : Regated(f) => Regated(f)'
  BY AskedFacts
<1>7. ReportsTyped'
  BY <1>1, <1>2, <1>5 DEF ReportsTyped
<1>8. CreatedFirst'
  BY <1>1, <1>2, <1>3, <1>5 DEF CreatedFirst, Asks
<1>9. AnswerStored'
  BY <1>1, <1>2, <1>5, <1>6, AskedFacts DEF AnswerStored, Asks
<1>10. WaitingCanBeAnswered'
  <2> SUFFICES ASSUME NEW f \in Evaluations, report[f].review, ~Regated(f)'
               PROVE  /\ tokens'[f].id = report[f].token
                      /\ tokens'[f].used => \E p \in Requests : request'[p].e = f /\ Spent(p)'
    BY <1>1 DEF WaitingCanBeAnswered
  <2>1. CASE f = e
    <3>1. request'[q].e = f /\ Spent(q)'
      BY <1>2, <1>5, <2>1 DEF Spent
    <3> QED
      BY <1>4, <1>5, <1>6, <2>1, <3>1 DEF WaitingCanBeAnswered
  <2>2. CASE f # e
    <3>1. \A p \in Requests : request[p].e = f /\ Spent(p) => request'[p].e = f /\ Spent(p)'
      BY <1>5, <2>2 DEF Spent
    <3> QED
      BY <1>5, <1>6, <2>2, <3>1 DEF WaitingCanBeAnswered
  <2> QED
    BY <2>1, <2>2
<1> QED
  BY <1>7, <1>8, <1>9, <1>10

\* The answer is stored, and the report asks no more.
LEMMA AskedAnswers ==
  ASSUME ReviewInv, RunsKnown, AskedInv, [Next]_vars, NEW q \in Requests, StoreAnswer(q)
  PROVE  AskedInv'
<1> USE DEF AskedInv, ReviewInv, Typed
<1> PICK e : e = request[q].e
  OBVIOUS
<1> DEFINE n == [request[q] EXCEPT !.at = "record", !.copy = NoReport]
           new == [request[q].copy EXCEPT !.review = FALSE, !.token = 0]
<1>1. /\ report' = [report EXCEPT ![e] = new] /\ request' = [request EXCEPT ![q] = n]
      /\ Asks(q, "storeReport") /\ UNCHANGED <<creating, tokens, job>>
  BY DEF StoreAnswer
<1>2. n.at = "record" /\ n.e = e /\ DOMAIN n.copy = ReportFields
  BY DEF Fields, NoReport, ReportFields
<1>3. DOMAIN new = ReportFields /\ new.review = FALSE
  BY DEF ReportsTyped, ReportFields
<1>4. e \in Evaluations /\ creating[e] = "created"
  BY <1>1, AskedFacts DEF Asks
<1> HIDE DEF n, new
<1>5. /\ request'[q] = n /\ \A p \in Requests : p # q => request'[p] = request[p]
      /\ report'[e] = new /\ \A f \in Evaluations : f # e => report'[f] = report[f]
  BY <1>1, <1>4 DEF ReportsTyped
<1>6. \A f \in Evaluations : Regated(f) => Regated(f)'
  BY AskedFacts
<1>7. ReportsTyped'
  BY <1>1, <1>2, <1>3, <1>5 DEF ReportsTyped
<1>8. CreatedFirst'
  BY <1>1, <1>2, <1>4, <1>5 DEF CreatedFirst, Asks
<1>9. AnswerStored'
  <2> SUFFICES ASSUME NEW p \in Requests, request'[p].at = "record", NEW f, f = request'[p].e
               PROVE  ~report'[f].review \/ Regated(f)'
    BY DEF AnswerStored, Asks, Regated
  <2>1. CASE f = e
    BY <1>3, <1>5, <2>1
  <2>2. CASE f # e
    <3>1. request'[p] = request[p] /\ Asks(p, "record") /\ request[p].e \in Evaluations
      BY <1>2, <1>5, <2>2, AskedFacts DEF Asks
    <3> QED
      BY <1>5, <1>6, <2>2, <3>1 DEF AnswerStored
  <2> QED
    BY <2>1, <2>2
<1>10. WaitingCanBeAnswered'
  <2>1. \A p \in Requests : Spent(p) => Spent(p)' /\ request'[p].e = request[p].e
    BY <1>2, <1>5 DEF Spent
  <2> QED
    BY <1>1, <1>3, <1>5, <1>6, <2>1 DEF WaitingCanBeAnswered
<1> QED
  BY <1>7, <1>8, <1>9, <1>10

\* The gate runs again: from now on the report may be behind the token.
LEMMA AskedGates ==
  ASSUME ReviewInv, RunsKnown, AskedInv, [Next]_vars,
         NEW r \in Runs, NEW needs \in BOOLEAN, GraphGate(r, needs)
  PROVE  AskedInv'
<1> USE DEF AskedInv, ReviewInv, Typed
<1> PICK e : e = Thread(r)
  OBVIOUS
<1> DEFINE state == [run[r] EXCEPT !.pending = needs, !.gated = TRUE,
                                   !.token = IF needs THEN tokens[e].id + 1 ELSE 0]
           new == [NoToken EXCEPT !.id = tokens[e].id + 1]
<1>1. /\ UNCHANGED <<creating, report, job, request>> /\ At(r, "graph")
      /\ tokens' = [tokens EXCEPT ![e] = new] \/ UNCHANGED tokens
      /\ \E then : Append1(r, "node", then, state)
  BY DEF GraphGate, Register
<1>2. DOMAIN state = RunFields /\ state.gated = TRUE /\ new.used = FALSE
  BY DEF RunsKnown, LocalOk, NoToken
<1>3. e \in Evaluations /\ \A f \in Evaluations : Regated(f) => Regated(f)'
  BY <1>1, AskedFacts DEF At
<1>4. Thread(r)' = e
  BY <1>1, RunsStay DEF ThreadsStay, At
<1> HIDE DEF state, new
<1>5. run'[r].gated
  <2>1. PICK then : Append1(r, "node", then, state)
    BY <1>1
  <2>2. run'[r] = [state EXCEPT !.at = "count", !.kind = "node", !.then = then]
    BY <2>1 DEF Append1, RunsKnown
  <2> QED
    BY <1>2, <2>2 DEF RunFields
<1>6. Regated(e)'
  BY <1>4, <1>5 DEF Regated
<1>7. \A f \in Evaluations : f # e => tokens'[f] = tokens[f]
  BY <1>1
<1>8. tokens'[e].used => tokens[e].used
  BY <1>1, <1>2, <1>3
<1>9. ReportsTyped' /\ AnswerStored'
  BY <1>1, <1>3, AskedFacts DEF ReportsTyped, AnswerStored, Asks
<1>10. CreatedFirst'
  BY <1>1, <1>7, <1>8 DEF CreatedFirst, Asks
<1>11. WaitingCanBeAnswered'
  BY <1>1, <1>3, <1>6, <1>7 DEF WaitingCanBeAnswered, Spent
<1> QED
  BY <1>9, <1>10, <1>11

\* The graph writes the report, with the gate's verdict and not the answer.
LEMMA AskedPersists ==
  ASSUME ReviewInv, RunsKnown, AskedInv, [Next]_vars, NEW r \in Runs, GraphPersists(r)
  PROVE  AskedInv'
<1> USE DEF AskedInv, ReviewInv, Typed
<1> PICK e : e = Thread(r)
  OBVIOUS
<1> DEFINE new == [stored |-> TRUE, review |-> run[r].pending, token |-> run[r].token]
<1>1. /\ UNCHANGED <<creating, tokens, job, request>> /\ At(r, "persist")
      /\ report' = [report EXCEPT ![e] = new]
  BY DEF GraphPersists
<1>2. /\ e \in Evaluations /\ creating[e] = "created"
      /\ \A f \in Evaluations : Regated(f) => Regated(f)'
  BY <1>1, AskedFacts DEF At
<1>3. Regated(e)
  <2>1. Persisting(run[r]) /\ LocalOk(run[r])
    BY <1>1 DEF Persisting, RunsKnown, At
  <2> QED
    BY <2>1 DEF Regated, LocalOk
<1>4. DOMAIN new = ReportFields
  BY DEF ReportFields
<1> HIDE DEF new
<1>5. report'[e] = new /\ \A f \in Evaluations : f # e => report'[f] = report[f]
  BY <1>1, <1>2 DEF ReportsTyped
<1>6. ReportsTyped'
  BY <1>1, <1>4, <1>5 DEF ReportsTyped
<1>7. CreatedFirst'
  BY <1>1, <1>2, <1>5 DEF CreatedFirst, Asks
<1>8. AnswerStored'
  BY <1>1, <1>2, <1>3, <1>5, AskedFacts DEF AnswerStored, Asks
<1>9. WaitingCanBeAnswered'
  BY <1>1, <1>2, <1>3, <1>5 DEF WaitingCanBeAnswered, Spent
<1> QED
  BY <1>6, <1>7, <1>8, <1>9

\* The other steps of a run change at most the row of a job that is stored.
LEMMA AskedRuns ==
  ASSUME ReviewInv, RunsKnown, AskedInv, [Next]_vars, NEW r \in Runs, RunStep(r),
         ~GraphPersists(r), ~\E needs \in BOOLEAN : GraphGate(r, needs)
  PROVE  AskedInv'
<1>1. UNCHANGED <<review, request>>
  BY DEF RunStep, BeginRun, StartRun, EndRun, Work, CountTrail, AppendCheckpoint, GraphSaves,
         GraphStops, GraphFails
<1>2. \A e \in Evaluations : job[e] = "absent" => job'[e] = "absent"
  <2>1. CASE StartRun(r) \/ EndRun(r)
    <3>1. UNCHANGED job \/ \E to : job' = [job EXCEPT ![run[r].job] = to]
      BY <2>1 DEF StartRun, EndRun
    <3>2. job[run[r].job] # "absent"
      BY <2>1 DEF StartRun, EndRun, RunsKnown, At
    <3> QED
      BY <3>1, <3>2 DEF ReviewInv, Typed, Jobs
  <2>2. CASE ~(StartRun(r) \/ EndRun(r))
    BY <2>2 DEF RunStep, BeginRun, Work, CountTrail, AppendCheckpoint, GraphSaves, GraphStops,
                GraphFails
  <2> QED
    BY <2>1, <2>2
<1> QED
  BY <1>1, <1>2, AskedUndisturbed

LEMMA AskedStep ==
  ASSUME ReviewInv, RunsKnown, AskedInv, [Next]_vars
  PROVE  AskedInv'
<1>1. CASE UNCHANGED vars
  BY <1>1, AskedUndisturbed DEF vars
<1> QED
  BY <1>1, AskedCreates, AskedRequests, AskedConsumes, AskedAnswers, AskedGates, AskedPersists,
     AskedRuns DEF Next, RunStep

LEMMA AskedInit == Init => AskedInv
<1> SUFFICES ASSUME Init PROVE AskedInv
  OBVIOUS
<1>1. \A q \in Requests : request[q] = IdleRequest /\ request[q].at = "idle"
  BY DEF Init, IdleRequest
<1>2. DOMAIN NoReport = ReportFields /\ ~NoReport.review /\ ~NoToken.used
      /\ IdleRequest.copy = NoReport
  BY DEF NoReport, NoToken, IdleRequest, ReportFields
<1> QED
  BY <1>1, <1>2 DEF Init, AskedInv, ReportsTyped, CreatedFirst, AnswerStored,
                    WaitingCanBeAnswered, Asks, Jobs

\* A resume request copies the report before it writes it back, a run registers a
\* token and writes the report in two steps: a report that asks for a decision still
\* shows a token that a person can answer with, unless a resume that took the token
\* is under way or failed, or LangGraph ran the gate once more.
THEOREM DecisionsCanBeMade == Spec => []WaitingCanBeAnswered
<1>1. (ReviewInv /\ RunsKnown /\ AskedInv) /\ [Next]_vars => (ReviewInv /\ RunsKnown /\ AskedInv)'
  BY ReviewStep, RunsStay, AskedStep
<1>2. AskedInv => WaitingCanBeAnswered
  BY DEF AskedInv
<1> QED
  BY <1>1, <1>2, ReviewInit, TrailInit, AskedInit, PTL DEF Spec
=============================================================================
