-------------------------- MODULE GovernanceProofs --------------------------
(***************************************************************************)
(* Governance for every number of requests, items, reports, rows and       *)
(* tenants, in every interleaving, with retried tool calls and with store  *)
(* calls that raise.                                                       *)
(*                                                                         *)
(* Dead-letter review: an item that a request reports as settled is        *)
(* settled, and remains so.  A requeue that finds its item open therefore  *)
(* began before any settling request of that item had answered, and what   *)
(* had answered when it began does not change any more.                    *)
(*                                                                         *)
(* Answers by key, holds and files, the audit log, the rows and their      *)
(* codes, and locks: the same way of arguing, each with an invariant of    *)
(* its own that says where a request may be and what it then knows.        *)
(***************************************************************************)
EXTENDS Governance, TLAPS

Fields == {"uri", "ref", "last", "then", "attempt", "outcome", "author"}

Shape ==
    /\ traffic \in Traffic
    /\ DOMAIN req = Threads /\ DOMAIN pc = Threads
    /\ DOMAIN local = Threads /\ DOMAIN before = Threads
    /\ DOMAIN items = Items
    /\ \A t \in Threads : /\ req[t] # None => req[t] \in UNION Traffic
                          /\ DOMAIN local[t] = Fields

-----------------------------------------------------------------------------
(* The parts of the inductive invariant, for one thread where they are      *)
(* about threads                                                            *)

ItemKinds == {"requeue", "discard"}
Item(t) == Doing(t, "requeue") \/ Doing(t, "discard")
Settled(d) == items[d] # "open"

RequeuePlaces == {"lookup", "readItem", "persistJob", "persistItem",
                  "readLast", "append", "record", "over"}
DiscardPlaces == {"lookup", "tool", "readItem", "persistItem", "readLast", "append",
                  "toolEnd", "record", "over"}
Logging(t) == pc[t] \in {"readLast", "append"}

ItemSteps == {"readItem", "persistJob", "persistItem"}
Nexts == {"record", "toolEnd", "over"}
Keyed(t) == Item(t) \/ Doing(t, "create") \/ Doing(t, "upload")

\* What only requests of items do, and only requests with keys; what may
\* follow a log.
Apart(t) ==
    /\ pc[t] \in ItemSteps => Item(t)
    /\ At(t, "persistJob") => Doing(t, "requeue")
    /\ At(t, "lookup") => Keyed(t)
    /\ At(t, "idle") => local[t].outcome # "ok"
    /\ At(t, "idle") \/ req[t] # None
    /\ local[t].then \in Nexts

\* Where a request of an item may be, and what follows its log.
FlowOf(t) ==
    /\ Doing(t, "requeue") => /\ pc[t] \in RequeuePlaces
                              /\ Logging(t) => local[t].then = "record"
    /\ Doing(t, "discard") => /\ pc[t] \in DiscardPlaces
                              /\ Logging(t) => local[t].then \in {"toolEnd", "over"}

\* Success is reported of settled items only.
Recording(t) == At(t, "record") \/ (Logging(t) /\ local[t].then = "record")
EarnedOf(t) ==
    Item(t) => /\ local[t].outcome = "ok" => Settled(req[t].on)
               /\ Recording(t) => local[t].outcome = "ok"

\* A requeue about to make its job began before its item was settled.
Settles(u, d) == Item(u) /\ req[u].on = d /\ Succeeded(u)
ClearOf(t) ==
    (Doing(t, "requeue") /\ At(t, "persistJob")) =>
        \A u \in before[t] : ~Settles(u, req[t].on)

BeforeOf(t) == before[t] \subseteq Threads /\ \A u \in before[t] : Over(u)

ThreadInv == \A t \in Threads : Apart(t) /\ FlowOf(t) /\ EarnedOf(t) /\ ClearOf(t) /\ BeforeOf(t)

RecordsEarned == \A k \in DOMAIN records : k.kind \in ItemKinds => Settled(k.path)

JobsKnown == \A job \in requeues : job.by \in Threads /\ Doing(job.by, "requeue")

ReviewInv == Shape /\ ThreadInv /\ RecordsEarned /\ JobsKnown /\ SettledOnce

-----------------------------------------------------------------------------
LEMMA ReviewInit == Init => ReviewInv
<1> SUFFICES ASSUME Init PROVE ReviewInv
  OBVIOUS
<1>1. /\ traffic \in Traffic /\ req = [t \in Threads |-> None]
      /\ pc = [t \in Threads |-> "idle"] /\ local = [t \in Threads |-> NoLocals]
      /\ before = [t \in Threads |-> {}] /\ DOMAIN records = {}
      /\ items = [d \in Items |-> "open"] /\ requeues = {}
  BY DEF Init, RequestsInit, DlqInit
<1>2. DOMAIN NoLocals = Fields
  BY DEF NoLocals, Fields
<1>3. Shape
  BY <1>1, <1>2 DEF Shape
<1>4. ThreadInv
  BY <1>1 DEF ThreadInv, Apart, FlowOf, EarnedOf, ClearOf, BeforeOf, Item, Doing, At,
     NoLocals, Nexts, ItemSteps
<1> QED
  BY <1>1, <1>3, <1>4 DEF ReviewInv, RecordsEarned, JobsKnown, SettledOnce

LEMMA ItemKnown ==
  ASSUME Shape, NEW t \in Threads, Item(t)
  PROVE  req[t].on \in Items /\ req[t].kind \in ItemKinds
BY DlqReviewAssumption DEF Shape, Item, Doing, ItemKinds

-----------------------------------------------------------------------------
(* One thread takes a step and leaves the others alone.                     *)

Turn(t) ==
    /\ UNCHANGED <<traffic, req, before>>
    /\ DOMAIN pc' = Threads /\ DOMAIN local' = Threads /\ DOMAIN local'[t] = Fields
    /\ \A u \in Threads \ {t} : pc'[u] = pc[u] /\ local'[u] = local[u]
    /\ ~Over(t) /\ ~At(t, "idle")

LEMMA GoToTurn ==
  ASSUME Shape, NEW t \in Threads, NEW p, GoTo(t, p)
  PROVE  DOMAIN pc' = Threads /\ pc'[t] = p /\ \A u \in Threads \ {t} : pc'[u] = pc[u]
BY DEF Shape, GoTo

\* Whatever a step writes to its own variables, they stay a record of Fields.
LEMMA LocalTurn ==
  ASSUME Shape, NEW t \in Threads, NEW r, DOMAIN r = Fields,
         local' = [local EXCEPT ![t] = r]
  PROVE  /\ DOMAIN local' = Threads /\ local'[t] = r
         /\ \A u \in Threads \ {t} : local'[u] = local[u]
BY DEF Shape

LEMMA SetTurn ==
  ASSUME Shape, NEW t \in Threads, NEW f \in Fields, NEW v, Set(t, f, v)
  PROVE  /\ DOMAIN local' = Threads /\ DOMAIN local'[t] = Fields
         /\ local'[t][f] = v
         /\ \A g \in Fields \ {f} : local'[t][g] = local[t][g]
         /\ \A u \in Threads \ {t} : local'[u] = local[u]
BY DEF Shape, Set

LEMMA LogTurn ==
  ASSUME Shape, NEW t \in Threads, NEW o, NEW p, Log(t, o, p)
  PROVE  /\ DOMAIN pc' = Threads /\ pc'[t] = "readLast"
         /\ DOMAIN local' = Threads /\ DOMAIN local'[t] = Fields
         /\ local'[t].then = p /\ local'[t].outcome = o
         /\ \A u \in Threads \ {t} : pc'[u] = pc[u] /\ local'[u] = local[u]
<1>1. local' = [local EXCEPT ![t] = [local[t] EXCEPT !.then = p, !.outcome = o]]
  BY DEF Log
<1>2. DOMAIN [local[t] EXCEPT !.then = p, !.outcome = o] = Fields
  BY DEF Shape
<1> QED
  BY <1>1, <1>2, LocalTurn, GoToTurn DEF Log, Shape, Fields

LEMMA LeaveTurn ==
  ASSUME Shape, NEW t \in Threads, NEW o, Leave(t, o)
  PROVE  /\ DOMAIN pc' = Threads /\ DOMAIN local' = Threads /\ DOMAIN local'[t] = Fields
         /\ local'[t].outcome = o
         /\ IF IsTool(t) THEN pc'[t] = "readLast" /\ local'[t].then = "over"
                         ELSE pc'[t] = "over" /\ local'[t].then = local[t].then
         /\ \A u \in Threads \ {t} : pc'[u] = pc[u] /\ local'[u] = local[u]
<1>1. "outcome" \in Fields /\ "then" \in Fields \ {"outcome"}
  BY DEF Fields
<1> QED
  BY <1>1, LogTurn, SetTurn, GoToTurn DEF Leave

LEMMA ReturnTurn ==
  ASSUME Shape, NEW t \in Threads, NEW o, Return(t, o)
  PROVE  /\ DOMAIN pc' = Threads /\ DOMAIN local' = Threads /\ DOMAIN local'[t] = Fields
         /\ local'[t].outcome = o
         /\ pc'[t] = IF IsTool(t) THEN "toolEnd" ELSE "over"
         /\ local'[t].then = local[t].then
         /\ \A u \in Threads \ {t} : pc'[u] = pc[u] /\ local'[u] = local[u]
<1>1. "outcome" \in Fields /\ "then" \in Fields \ {"outcome"}
  BY DEF Fields
<1> QED
  BY <1>1, LeaveTurn, SetTurn, GoToTurn DEF Return

LEMMA SettledOnceByItem ==
  SettledOnce <=> \A job \in requeues : \A u \in before[job.by] : ~Settles(u, job.item)
BY DEF SettledOnce, Settles, Item

LEMMA TurnKeeps ==
  ASSUME ReviewInv, NEW t \in Threads, Turn(t),
         DOMAIN items' = Items,
         \A d \in Items : items[d] # "open" => items'[d] # "open",
         Apart(t)', FlowOf(t)', EarnedOf(t)', ClearOf(t)', RecordsEarned',
         \/ requeues' = requeues
         \/ /\ At(t, "persistJob") /\ Doing(t, "requeue")
            /\ requeues' = requeues \union {[item |-> req[t].on, by |-> t]}
  PROVE  ReviewInv'
<1> USE DEF ReviewInv
<1>1. Shape'
  <2>1. DOMAIN local'[t] = Fields /\ \A u \in Threads \ {t} : DOMAIN local'[u] = Fields
    BY DEF Shape, Turn
  <2> QED
    BY <2>1 DEF Shape, Turn
<1>2. ASSUME NEW u \in Threads, NEW w \in before[u] 
      PROVE  /\ w \in Threads /\ w # t /\ Over(w)'
             /\ \A d : Settles(w, d)' <=> Settles(w, d)
  <2>1. w \in Threads /\ Over(w) /\ w # t
    BY DEF ThreadInv, BeforeOf, Turn
  <2>2. pc'[w] = pc[w] /\ local'[w] = local[w] /\ req' = req
    BY <2>1 DEF Turn
  <2> QED
    BY <2>1, <2>2 DEF Over, Settles, Item, Doing, Succeeded
<1>3. \A u \in Threads : BeforeOf(u)'
  BY <1>2 DEF BeforeOf, Turn
<1>4. ASSUME NEW u \in Threads \ {t}
      PROVE  Apart(u)' /\ FlowOf(u)' /\ EarnedOf(u)' /\ ClearOf(u)'
  <2>1. pc'[u] = pc[u] /\ local'[u] = local[u] /\ req' = req /\ before' = before
    BY DEF Turn
  <2>2. Apart(u) /\ FlowOf(u) /\ EarnedOf(u) /\ ClearOf(u)
    BY DEF ThreadInv
  <2>3. Apart(u)' /\ FlowOf(u)'
    BY <2>1, <2>2 DEF Apart, Keyed, Item, At, FlowOf, Doing, Logging
  <2>4. EarnedOf(u)'
    <3> SUFFICES ASSUME Item(u)'
                 PROVE  /\ local'[u].outcome = "ok" => items'[req[u].on] # "open"
                        /\ Recording(u)' => local'[u].outcome = "ok"
      BY <2>1 DEF EarnedOf, Settled
    <3>1. Item(u)
      BY <2>1 DEF Item, Doing
    <3>2. req[u].on \in Items
      BY <3>1, ItemKnown
    <3> QED
      BY <2>1, <2>2, <3>1, <3>2 DEF EarnedOf, Settled, Recording, At, Logging
  <2>5. ClearOf(u)'
    <3> SUFFICES ASSUME Doing(u, "requeue"), At(u, "persistJob"), NEW w \in before[u]
                 PROVE  ~Settles(w, req[u].on)'
      BY <2>1 DEF ClearOf, Doing, At
    <3>1. ~Settles(w, req[u].on)
      BY <2>2 DEF ClearOf
    <3> QED
      BY <3>1, <1>2, <2>1
  <2> QED
    BY <2>3, <2>4, <2>5
<1>5. ThreadInv'
  BY <1>3, <1>4 DEF ThreadInv
<1>6. JobsKnown'
  BY DEF JobsKnown, Doing, Turn
<1>7. SettledOnce'
  <2>1. ASSUME NEW job \in requeues', NEW u \in before'[job.by]
        PROVE  ~Settles(u, job.item)'
    <3>1. before' = before /\ req' = req
      BY DEF Turn
    <3>2. CASE job \in requeues
      BY <3>1, <3>2, <1>2, SettledOnceByItem DEF JobsKnown
    <3>3. CASE job \notin requeues
      <4>1. job.by = t /\ job.item = req[t].on /\ At(t, "persistJob") /\ Doing(t, "requeue")
        BY <3>3
      <4>2. ~Settles(u, job.item)
        BY <3>1, <4>1 DEF ThreadInv, ClearOf
      <4> QED
        BY <3>1, <4>1, <4>2, <1>2
    <3> QED
      BY <3>2, <3>3
  <2> QED
    BY <2>1 DEF SettledOnce, Settles, Item
<1> QED
  BY <1>1, <1>5, <1>6, <1>7

-----------------------------------------------------------------------------
(* Requests of other kinds                                                  *)

\* They disturb nothing: whatever they record has a key of their own kind.
LEMMA ForeignKeeps ==
  ASSUME ReviewInv, NEW t \in Threads, Turn(t), ~Item(t),
         UNCHANGED <<items, requeues>>,
         \A k \in DOMAIN records' : k \in DOMAIN records \/ k.kind \notin ItemKinds,
         pc'[t] \notin ItemSteps \union {"lookup", "idle"}, local'[t].then \in Nexts
  PROVE  ReviewInv'
<1>0. Apart(t)'
  BY DEF ReviewInv, ThreadInv, Apart, At, ItemSteps, Turn
<1>1. FlowOf(t)' /\ EarnedOf(t)' /\ ClearOf(t)'
  BY DEF FlowOf, EarnedOf, ClearOf, Item, Doing, Turn
<1>2. RecordsEarned'
  BY DEF ReviewInv, RecordsEarned, Settled
<1> QED
  BY <1>0, <1>1, <1>2, TurnKeeps DEF ReviewInv, Shape

LEMMA ElsewhereIsForeign ==
  ASSUME ReviewInv, NEW t \in Threads, pc[t] \notin RequeuePlaces \union DiscardPlaces
  PROVE  ~Item(t) /\ ~Over(t)
BY DEF ReviewInv, ThreadInv, FlowOf, Item, Over, RequeuePlaces, DiscardPlaces

LEMMA HoldKeeps ==
  ASSUME ReviewInv, NEW t \in Threads, HoldStep(t), UNCHANGED dlq
  PROVE  ReviewInv'
<1> USE DEF RequeuePlaces, DiscardPlaces, ItemSteps, Nexts
<1>1. pc[t] \notin RequeuePlaces \union DiscardPlaces /\ ~At(t, "idle")
  BY DEF HoldStep, At, FoundHold, NoHoldYet, Resolve, ApplyLock, RecordHold, SetReleased,
     RefuseRelease, ReleaseLock, LogRelease, BlockedByHold, NotHeld, CheckRetention,
     CheckLock, Unlink, LogCleanup, Put, HoldOfPut, LockPut, Upsert
<1>2. UNCHANGED <<traffic, req, before, records>>
  BY DEF HoldStep, shared, FoundHold, NoHoldYet, Resolve, ApplyLock, RecordHold, SetReleased,
     RefuseRelease, ReleaseLock, LogRelease, BlockedByHold, NotHeld, CheckRetention,
     CheckLock, Unlink, LogCleanup, Put, HoldOfPut, LockPut, Upsert
<1>3. /\ Shape /\ "uri" \in Fields /\ "outcome" \in Fields
      /\ "then" \in Fields \ {"uri"} /\ local[t].then \in Nexts
  BY DEF ReviewInv, Fields, ThreadInv, Apart
<1>4. /\ DOMAIN pc' = Threads /\ DOMAIN local' = Threads /\ DOMAIN local'[t] = Fields
      /\ pc'[t] \notin ItemSteps \union {"lookup", "idle"} /\ local'[t].then \in Nexts
      /\ \A u \in Threads \ {t} : pc'[u] = pc[u] /\ local'[u] = local[u]
  <2>1. CASE NoHoldYet(t) \/ ApplyLock(t) \/ NotHeld(t) \/ HoldOfPut(t) \/ LockPut(t)
    <3>1. local' = local /\ \E p \in {"resolve", "recordHold", "upsert", "lockPut"} : GoTo(t, p)
      BY <2>1 DEF NoHoldYet, ApplyLock, NotHeld, HoldOfPut, LockPut
    <3> QED
      BY <3>1, <1>3, GoToTurn DEF Shape
  <2>2. CASE Resolve(t) \/ Put(t)
    <3>1. AfterResolve(t, Resolved(t)) \in {"recordHold", "applyLock", "logCleanup",
                                           "checkRetention", "logRelease", "releaseLock"}
      BY DEF AfterResolve
    <3> QED
      BY <2>2, <3>1, <1>3, GoToTurn, SetTurn DEF Resolve, Put
  <2>3. CASE RecordHold(t) \/ ReleaseLock(t) \/ LogRelease(t) \/ BlockedByHold(t)
             \/ Unlink(t) \/ LogCleanup(t)
    BY <2>3, <1>3, LogTurn
       DEF RecordHold, ReleaseLock, LogRelease, BlockedByHold, Unlink, LogCleanup
  <2>4. CASE FoundHold(t) \/ RefuseRelease(t) \/ Upsert(t)
    BY <2>4, <1>3, LeaveTurn, ReturnTurn DEF FoundHold, RefuseRelease, Upsert
  <2>5. CASE CheckRetention(t)
    BY <2>5, <1>3, LogTurn, GoToTurn DEF CheckRetention, Shape
  <2>6. CASE CheckLock(t)
    BY <2>6, <1>3, LeaveTurn, GoToTurn DEF CheckLock, Shape
  <2>7. ASSUME NEW h \in Threads, SetReleased(t, h)
        PROVE  /\ DOMAIN pc' = Threads /\ DOMAIN local' = Threads /\ DOMAIN local'[t] = Fields
               /\ pc'[t] \notin ItemSteps \union {"lookup", "idle"} /\ local'[t].then \in Nexts
               /\ \A u \in Threads \ {t} : pc'[u] = pc[u] /\ local'[u] = local[u]
    <3>1. local' = [local EXCEPT ![t] = [local[t] EXCEPT !.ref = h, !.uri = holds[h].uri]]
      BY <2>7 DEF SetReleased
    <3>2. /\ DOMAIN [local[t] EXCEPT !.ref = h, !.uri = holds[h].uri] = Fields
          /\ [local[t] EXCEPT !.ref = h, !.uri = holds[h].uri].then = local[t].then
      BY <1>3 DEF Shape, Fields
    <3>3. \E p \in {"resolve", "releaseLock"} : GoTo(t, p)
      BY <2>7 DEF SetReleased
    <3>4. /\ DOMAIN local' = Threads /\ DOMAIN local'[t] = Fields
          /\ local'[t].then \in Nexts /\ \A u \in Threads \ {t} : local'[u] = local[u]
      BY <3>1, <3>2, <1>3, LocalTurn
    <3> QED
      BY <3>3, <3>4, <1>3, GoToTurn
  <2> QED
    BY <2>1, <2>2, <2>3, <2>4, <2>5, <2>6, <2>7 DEF HoldStep
<1> QED
  BY <1>1, <1>2, <1>4, ElsewhereIsForeign, ForeignKeeps DEF Turn, dlq

LEMMA CatalogKeeps ==
  ASSUME ReviewInv, NEW t \in Threads, CatalogStep(t), UNCHANGED dlq
  PROVE  ReviewInv'
<1> USE DEF RequeuePlaces, DiscardPlaces, ItemSteps, Nexts
<1>1. pc[t] \notin RequeuePlaces \union DiscardPlaces /\ ~At(t, "idle")
  BY DEF CatalogStep, At, FindRow, PersistRow, CreateParse, ReadRow, WriteRow, DeleteRow,
     RowNotFound
<1>2. UNCHANGED <<traffic, req, before, records>>
  BY DEF CatalogStep, shared, FindRow, PersistRow, CreateParse, ReadRow, WriteRow, DeleteRow,
     RowNotFound
<1>3. /\ Shape /\ "ref" \in Fields /\ "outcome" \in Fields
      /\ "then" \in Fields \ {"ref"} /\ local[t].then \in Nexts
  BY DEF ReviewInv, Fields, ThreadInv, Apart
<1>4. /\ DOMAIN pc' = Threads /\ DOMAIN local' = Threads /\ DOMAIN local'[t] = Fields
      /\ pc'[t] \notin ItemSteps \union {"lookup", "idle"} /\ local'[t].then \in Nexts
      /\ \A u \in Threads \ {t} : pc'[u] = pc[u] /\ local'[u] = local[u]
  <2>1. CASE FindRow(t)
    BY <2>1, <1>3, GoToTurn, SetTurn DEF FindRow, Shape
  <2>2. CASE PersistRow(t)
    BY <2>2, <1>3, GoToTurn, SetTurn DEF PersistRow
  <2>3. CASE CreateParse(t)
    BY <2>3, <1>3, GoToTurn DEF CreateParse, Shape
  <2>4. CASE WriteRow(t)
    BY <2>4, <1>3, LeaveTurn DEF WriteRow
  <2>5. ASSUME NEW i \in Threads, ReadRow(t, i) \/ RowNotFound(t, i)
        PROVE  /\ DOMAIN pc' = Threads /\ DOMAIN local' = Threads /\ DOMAIN local'[t] = Fields
               /\ pc'[t] \notin ItemSteps \union {"lookup", "idle"} /\ local'[t].then \in Nexts
               /\ \A u \in Threads \ {t} : pc'[u] = pc[u] /\ local'[u] = local[u]
    BY <2>5, <1>3, GoToTurn, SetTurn, LeaveTurn DEF ReadRow, RowNotFound
  <2>6. ASSUME NEW i \in Threads, DeleteRow(t, i)
        PROVE  /\ DOMAIN pc' = Threads /\ DOMAIN local' = Threads /\ DOMAIN local'[t] = Fields
               /\ pc'[t] \notin ItemSteps \union {"lookup", "idle"} /\ local'[t].then \in Nexts
               /\ \A u \in Threads \ {t} : pc'[u] = pc[u] /\ local'[u] = local[u]
    <3>1. local' = [local EXCEPT ![t] = [local[t] EXCEPT !.ref = i, !.outcome = "ok"]]
      BY <2>6 DEF DeleteRow
    <3>2. /\ DOMAIN [local[t] EXCEPT !.ref = i, !.outcome = "ok"] = Fields
          /\ [local[t] EXCEPT !.ref = i, !.outcome = "ok"].then = local[t].then
      BY <1>3 DEF Shape, Fields
    <3>3. /\ DOMAIN local' = Threads /\ DOMAIN local'[t] = Fields
          /\ local'[t].then \in Nexts /\ \A u \in Threads \ {t} : local'[u] = local[u]
      BY <3>1, <3>2, <1>3, LocalTurn
    <3> QED
      BY <2>6, <3>3, <1>3, GoToTurn DEF DeleteRow
  <2> QED
    BY <2>1, <2>2, <2>3, <2>4, <2>5, <2>6 DEF CatalogStep
<1> QED
  BY <1>1, <1>2, <1>4, ElsewhereIsForeign, ForeignKeeps DEF Turn, dlq

\* Time passes for the files, or nothing happens.
LEMMA IdleKeeps ==
  ASSUME ReviewInv, UNCHANGED <<traffic, req, pc, local, before, records, items, requeues>>
  PROVE  ReviewInv'
<1>1. Shape' /\ RecordsEarned' /\ JobsKnown' /\ SettledOnce'
  BY DEF ReviewInv, Shape, RecordsEarned, Settled, JobsKnown, Doing, SettledOnce,
     Succeeded, Over
<1>2. ThreadInv'
  BY DEF ReviewInv, ThreadInv, Apart, Keyed, FlowOf, EarnedOf, ClearOf, BeforeOf, Doing, Logging, Item,
     Settled, Recording, At, Settles, Succeeded, Over
<1> QED
  BY <1>1, <1>2 DEF ReviewInv

-----------------------------------------------------------------------------
(* The steps of dead-letter review                                          *)

LEMMA DlqKeeps ==
  ASSUME ReviewInv, NEW t \in Threads, DlqStep(t)
  PROVE  ReviewInv'
<1> USE DEF ReviewInv
<1>1. pc[t] \in ItemSteps /\ UNCHANGED <<traffic, req, before, records>>
  BY DEF DlqStep, ReadItem, RefuseItem, PersistJob, PersistItem, At, ItemSteps, shared
<1>2. /\ Item(t) /\ ~Over(t) /\ ~At(t, "idle") /\ FlowOf(t) /\ EarnedOf(t) /\ Apart(t) /\ BeforeOf(t)
      /\ Shape /\ local[t].then \in Nexts
  BY <1>1 DEF ThreadInv, Apart, At, Over, ItemSteps
<1>3. req[t].on \in Items /\ (IsTool(t) <=> Doing(t, "discard"))
  BY <1>2, ItemKnown DEF IsTool, Item, Doing
<1>k. ASSUME UNCHANGED items PROVE RecordsEarned' /\ DOMAIN items' = Items
  BY <1>k, <1>1, <1>2 DEF RecordsEarned, Settled, Shape
<1>4. CASE ReadItem(t)
  <2>1. /\ UNCHANGED <<items, requeues, local>>
        /\ GoTo(t, IF Doing(t, "requeue") THEN "persistJob" ELSE "persistItem")
        /\ Doing(t, "requeue") => items[req[t].on] = "open"
    BY <1>4 DEF ReadItem, dlq
  <2>2. /\ DOMAIN pc' = Threads /\ \A u \in Threads \ {t} : pc'[u] = pc[u]
        /\ pc'[t] = IF Doing(t, "requeue") THEN "persistJob" ELSE "persistItem"
    BY <2>1, <1>2, GoToTurn
  <2>3. Turn(t)
    BY <2>1, <2>2, <1>1, <1>2 DEF Turn, Shape
  <2>4. Apart(t)' /\ FlowOf(t)' /\ EarnedOf(t)'
    BY <2>1, <2>2, <1>1, <1>2 DEF Apart, At, FlowOf, EarnedOf, Item, Doing, Logging,
       Recording, Settled, Keyed, RequeuePlaces, DiscardPlaces
  <2>5. ClearOf(t)'
    <3> SUFFICES ASSUME Doing(t, "requeue"), NEW w \in before[t]
                 PROVE  ~Settles(w, req[t].on)'
      BY <1>1 DEF ClearOf, Doing
    <3>1. w \in Threads /\ Over(w) /\ w # t /\ EarnedOf(w)
      BY <1>2 DEF BeforeOf, ThreadInv
    <3>2. ~Settles(w, req[t].on)
      BY <2>1, <3>1 DEF EarnedOf, Settles, Settled, Succeeded
    <3> QED
      BY <2>1, <2>2, <1>1, <3>1, <3>2 DEF Settles, Item, Doing, Succeeded, Over
  <2> QED
    BY <2>1, <2>3, <2>4, <2>5, <1>k, TurnKeeps
<1>5. CASE RefuseItem(t)
  <2>1. UNCHANGED <<items, requeues>> /\ Return(t, "refused")
    BY <1>5 DEF RefuseItem, dlq
  <2>2. Turn(t)
    BY <2>1, <1>1, <1>2, ReturnTurn DEF Turn
  <2>3. /\ local'[t].outcome = "refused" /\ local'[t].then = local[t].then
        /\ pc'[t] = IF Doing(t, "discard") THEN "toolEnd" ELSE "over"
    BY <2>1, <1>2, <1>3, ReturnTurn
  <2>4. Apart(t)' /\ FlowOf(t)' /\ EarnedOf(t)' /\ ClearOf(t)'
    BY <2>3, <1>1, <1>2 DEF Apart, At, FlowOf, EarnedOf, ClearOf, Item, Doing, Logging,
       Recording, Settled, Keyed, ItemSteps, RequeuePlaces, DiscardPlaces
  <2> QED
    BY <2>1, <2>2, <2>4, <1>k, TurnKeeps
<1>6. CASE PersistJob(t)
  <2>1. /\ UNCHANGED <<items, local>> /\ GoTo(t, "persistItem") /\ At(t, "persistJob")
        /\ requeues' = requeues \union {[item |-> req[t].on, by |-> t]}
    BY <1>6 DEF PersistJob
  <2>2. /\ DOMAIN pc' = Threads /\ \A u \in Threads \ {t} : pc'[u] = pc[u]
        /\ pc'[t] = "persistItem"
    BY <2>1, <1>2, GoToTurn
  <2>3. Turn(t) /\ Doing(t, "requeue")
    BY <2>1, <2>2, <1>1, <1>2 DEF Turn, Shape, Apart
  <2>4. Apart(t)' /\ FlowOf(t)' /\ EarnedOf(t)' /\ ClearOf(t)'
    BY <2>1, <2>2, <1>1, <1>2 DEF Apart, At, FlowOf, EarnedOf, ClearOf, Item, Doing, Logging,
       Recording, Settled, Keyed, ItemSteps, RequeuePlaces, DiscardPlaces
  <2> QED
    BY <2>1, <2>3, <2>4, <1>k, TurnKeeps
<1>7. CASE PersistItem(t)
  <2>1. PICK s \in {"requeued", "discarded"} : items' = [items EXCEPT ![req[t].on] = s]
    BY <1>7 DEF PersistItem
  <2>2. /\ Log(t, "ok", IF Doing(t, "requeue") THEN "record" ELSE "toolEnd")
        /\ UNCHANGED requeues
    BY <1>7 DEF PersistItem
  <2>3. /\ DOMAIN items' = Items /\ items'[req[t].on] # "open"
        /\ \A d \in Items : items[d] # "open" => items'[d] # "open"
    BY <2>1, <1>2, <1>3 DEF Shape
  <2>4. Turn(t)
    BY <2>2, <1>1, <1>2, LogTurn DEF Turn
  <2>5. /\ pc'[t] = "readLast" /\ local'[t].outcome = "ok"
        /\ local'[t].then = IF Doing(t, "requeue") THEN "record" ELSE "toolEnd"
    BY <2>2, <1>2, LogTurn
  <2>6. Apart(t)' /\ FlowOf(t)' /\ EarnedOf(t)' /\ ClearOf(t)'
    BY <2>3, <2>5, <1>1, <1>2 DEF Apart, At, FlowOf, EarnedOf, ClearOf, Item, Doing, Logging,
       Recording, Settled, Keyed, Nexts, ItemSteps, RequeuePlaces, DiscardPlaces
  <2>7. RecordsEarned'
    <3>1. \A d : items[d] # "open" => items'[d] # "open"
      BY <2>1, <2>3, <1>2 DEF Shape
    <3> QED
      BY <3>1, <1>1 DEF RecordsEarned, Settled
  <2> QED
    BY <2>2, <2>3, <2>4, <2>6, <2>7, TurnKeeps
<1> QED
  BY <1>4, <1>5, <1>6, <1>7 DEF DlqStep

\* A request arrives: it is nobody's past, and nothing is said of it yet.
LEMMA BeginKeeps ==
  ASSUME ReviewInv, NEW t \in Threads, NEW r \in traffic, Begin(t, r), UNCHANGED dlq
  PROVE  ReviewInv'
<1> USE DEF ReviewInv
<1>1. /\ pc[t] = "idle" /\ req' = [req EXCEPT ![t] = r]
      /\ before' = [before EXCEPT ![t] = {u \in Threads : Over(u)}]
      /\ UNCHANGED <<traffic, records, items, requeues>>
  BY DEF Begin, At, shared, dlq
<1>2. ~Item(t) /\ ~Over(t) /\ r \in UNION Traffic /\ r.kind \in RequestKinds
  BY <1>1, RequestsAssumption
     DEF ThreadInv, FlowOf, Item, Over, RequeuePlaces, DiscardPlaces, Shape
<1>3. /\ DOMAIN pc' = Threads /\ DOMAIN local' = Threads /\ DOMAIN local'[t] = Fields
      /\ \A u \in Threads \ {t} : pc'[u] = pc[u] /\ local'[u] = local[u]
      /\ local'[t].then = local[t].then
      /\ pc'[t] \in {"over", "lookup", "tool", "put", "findHold", "readRow", "deleteRow"}
      /\ pc'[t] = "lookup" => r.kind \in {"requeue", "discard", "create", "upload"}
      /\ r.kind = "requeue" => pc'[t] = "lookup"
      /\ r.kind = "discard" => pc'[t] \in {"lookup", "over"}
      /\ local'[t].outcome = IF pc'[t] = "over" THEN "refused" ELSE local[t].outcome
  <2>1. Shape /\ "outcome" \in Fields /\ "then" \in Fields \ {"outcome"}
    BY DEF Fields
  <2>2. CASE RefusedUnread(r)
    BY <2>1, <2>2, GoToTurn, SetTurn DEF Begin, RefusedUnread
  <2>3. CASE ~RefusedUnread(r)
    <3>1. Start(r) \in {"lookup", "tool", "put", "findHold", "readRow", "deleteRow"}
      BY <1>2 DEF Start, RequestKinds
    <3>2. /\ Start(r) = "lookup" => r.kind \in {"requeue", "discard", "create", "upload"}
          /\ r.kind \in {"requeue", "discard"} => Start(r) = "lookup"
      BY <1>2 DEF Start, RequestKinds
    <3> QED
      BY <2>1, <2>3, <3>1, <3>2, GoToTurn DEF Begin, Shape
  <2> QED
    BY <2>2, <2>3
<1>4. ASSUME NEW w \in Threads, Over(w)
      PROVE  w # t /\ Over(w)' /\ \A d : Settles(w, d)' <=> Settles(w, d)
  BY <1>1, <1>2, <1>3, <1>4 DEF Over, Settles, Item, Doing, Succeeded, Shape
<1>5. /\ DOMAIN req' = Threads /\ DOMAIN before' = Threads /\ req'[t] = r
      /\ before'[t] = {u \in Threads : Over(u)}
      /\ \A u \in Threads \ {t} : req'[u] = req[u] /\ before'[u] = before[u]
  BY <1>1 DEF Shape
<1>6. Shape'
  BY <1>1, <1>2, <1>3, <1>5 DEF Shape
<1>7. Apart(t)' /\ FlowOf(t)' /\ EarnedOf(t)' /\ ClearOf(t)'
  <2>1. Apart(t)
    BY DEF ThreadInv
  <2>2. \A k : Doing(t, k)' => r.kind = k
    BY <1>5 DEF Doing
  <2>3. /\ Keyed(t)' <=> (r # None /\ r.kind \in {"requeue", "discard", "create", "upload"})
        /\ Item(t)' => r.kind \in ItemKinds
    BY <1>5 DEF Doing, Keyed, Item, ItemKinds
  <2>4. r # None
    BY RequestsAssumption, <1>2, <1>1
  <2> QED
    BY <2>1, <2>2, <2>3, <2>4, <1>1, <1>3, <1>5
       DEF Apart, At, FlowOf, EarnedOf, ClearOf, Logging, Recording, ItemSteps,
           RequeuePlaces, DiscardPlaces, ItemKinds
<1>8. ASSUME NEW u \in Threads \ {t}
      PROVE  Apart(u)' /\ FlowOf(u)' /\ EarnedOf(u)' /\ ClearOf(u)'
  <2>1. /\ pc'[u] = pc[u] /\ local'[u] = local[u] /\ req'[u] = req[u]
        /\ before'[u] = before[u] /\ items' = items
    BY <1>1, <1>3, <1>5
  <2>2. Apart(u) /\ FlowOf(u) /\ EarnedOf(u) /\ ClearOf(u) /\ BeforeOf(u)
    BY DEF ThreadInv
  <2>3. Apart(u)' /\ FlowOf(u)' /\ EarnedOf(u)'
    BY <2>1, <2>2 DEF Apart, Keyed, Item, At, FlowOf, EarnedOf, Settled, Recording, Doing,
       Logging
  <2>4. ClearOf(u)'
    BY <2>1, <2>2, <1>4 DEF ClearOf, BeforeOf, Doing, At
  <2> QED
    BY <2>3, <2>4
<1>9. \A u \in Threads : BeforeOf(u)'
  <2>1. ASSUME NEW u \in Threads PROVE before'[u] \subseteq {w \in Threads : Over(w)}
    BY <1>5 DEF ThreadInv, BeforeOf
  <2> QED
    BY <2>1, <1>4 DEF BeforeOf
<1>10. JobsKnown' /\ SettledOnce'
  <2>1. ASSUME NEW job \in requeues
        PROVE  /\ job.by \in Threads \ {t} /\ Doing(job.by, "requeue")'
               /\ before'[job.by] = before[job.by]
               /\ \A u \in before[job.by] : ~Settles(u, job.item)'
    <3>1. job.by \in Threads \ {t} /\ Doing(job.by, "requeue")
      BY <1>2 DEF JobsKnown, Item
    <3>2. \A u \in before[job.by] : u \in Threads /\ Over(u) /\ ~Settles(u, job.item)
      BY <3>1, SettledOnceByItem DEF ThreadInv, BeforeOf
    <3> QED
      BY <3>1, <3>2, <1>4, <1>5 DEF Doing
  <2>2. JobsKnown'
    BY <2>1, <1>1 DEF JobsKnown
  <2>3. \A job \in requeues' : \A u \in before'[job.by] : ~Settles(u, job.item)'
    BY <2>1, <1>1
  <2> QED
    BY <2>2, <2>3 DEF SettledOnce, Settles, Item
<1> QED
  BY <1>1, <1>6, <1>7, <1>8, <1>9, <1>10 DEF ThreadInv, RecordsEarned, Settled

-----------------------------------------------------------------------------
(* What all requests share                                                  *)

\* Steps that decide nothing about items: it is enough to look at the thread.
LEMMA SharedKeeps ==
  ASSUME ReviewInv, NEW t \in Threads, UNCHANGED <<traffic, req, before, items, requeues>>,
         ~Over(t), ~At(t, "idle"), RecordsEarned',
         DOMAIN pc' = Threads, DOMAIN local' = Threads, DOMAIN local'[t] = Fields,
         \A u \in Threads \ {t} : pc'[u] = pc[u] /\ local'[u] = local[u],
         pc'[t] # "persistJob", Apart(t)', FlowOf(t)', EarnedOf(t)'
  PROVE  ReviewInv'
<1>1. Turn(t)
  BY DEF Turn
<1>2. ClearOf(t)' /\ DOMAIN items' = Items
  BY DEF ClearOf, At, ReviewInv, Shape
<1> QED
  BY <1>1, <1>2, TurnKeeps

LEMMA LogKeeps ==
  ASSUME ReviewInv, NEW t \in Threads, UNCHANGED dlq,
         ReadLast(t) \/ AppendLog(t) \/ LoseToolLog(t)
  PROVE  ReviewInv'
<1>1. /\ Shape /\ Apart(t) /\ FlowOf(t) /\ EarnedOf(t) /\ RecordsEarned
      /\ UNCHANGED <<traffic, req, before, items, requeues, records>>
      /\ Logging(t) /\ ~Over(t) /\ ~At(t, "idle")
  BY DEF ReviewInv, ThreadInv, dlq, ReadLast, AppendLog, LoseToolLog, shared, At, Logging, Over
<1>2. "last" \in Fields /\ "then" \in Fields \ {"last"} /\ "outcome" \in Fields \ {"last"}
  BY DEF Fields
<1>3. /\ DOMAIN pc' = Threads /\ DOMAIN local' = Threads /\ DOMAIN local'[t] = Fields
      /\ \A u \in Threads \ {t} : pc'[u] = pc[u] /\ local'[u] = local[u]
      /\ local'[t].then = local[t].then /\ local'[t].outcome = local[t].outcome
  <2>1. CASE ReadLast(t)
    BY <2>1, <1>1, <1>2, GoToTurn, SetTurn DEF ReadLast
  <2>2. CASE AppendLog(t)
    BY <2>2, <1>1, <1>2, GoToTurn, SetTurn DEF AppendLog
  <2>3. CASE LoseToolLog(t)
    BY <2>3, <1>1, GoToTurn DEF LoseToolLog, Shape
  <2> QED
    BY <2>1, <2>2, <2>3
<1>4. pc'[t] = "append" \/ pc'[t] = local[t].then \/ (pc'[t] = "over" /\ local[t].then = "over")
  BY <1>1, GoToTurn DEF ReadLast, AppendLog, LoseToolLog, IsToolLog
<1>5. RecordsEarned'
  BY <1>1 DEF RecordsEarned, Settled
<1>6. Apart(t)' /\ FlowOf(t)' /\ EarnedOf(t)' /\ pc'[t] # "persistJob"
  BY <1>1, <1>3, <1>4 DEF Apart, FlowOf, EarnedOf, At, Item, Doing, Logging, Recording,
     Settled, Nexts, ItemSteps, RequeuePlaces, DiscardPlaces
<1> QED
  BY <1>1, <1>3, <1>5, <1>6, SharedKeeps

LEMMA KeyOfItem ==
  ASSUME NEW t \in Threads, Item(t)
  PROVE  RecordKey(t).kind = req[t].kind /\ RecordKey(t).path = req[t].on
BY DEF Item, Doing, RecordKey, InPath

LEMMA IdempotentKeeps ==
  ASSUME ReviewInv, NEW t \in Threads, UNCHANGED dlq,
         Execute(t) \/ Replay(t) \/ Conflict(t) \/ Record(t)
  PROVE  ReviewInv'
<1>1. /\ Shape /\ Apart(t) /\ FlowOf(t) /\ EarnedOf(t) /\ RecordsEarned
      /\ UNCHANGED <<traffic, req, before, items, requeues>>
      /\ pc[t] \in {"lookup", "record"} /\ ~Over(t) /\ ~At(t, "idle")
      /\ Doing(t, "requeue") => ~IsTool(t)
  BY DEF ReviewInv, ThreadInv, dlq, Execute, Replay, Conflict, Record, shared, At, Over,
     IsTool, Doing
<1>k. ASSUME UNCHANGED records PROVE RecordsEarned'
  BY <1>k, <1>1 DEF RecordsEarned, Settled
<1>2. CASE Execute(t)
  <2>1. /\ DOMAIN pc' = Threads /\ local' = local /\ pc'[t] = FirstStep(t)
        /\ \A u \in Threads \ {t} : pc'[u] = pc[u]
    BY <1>2, <1>1, GoToTurn DEF Execute
  <2>2. Keyed(t)
    BY <1>2, <1>1 DEF Apart, Execute
  <2>3. /\ Doing(t, "discard") => pc'[t] = "tool"
        /\ Doing(t, "requeue") => pc'[t] = "readItem"
        /\ ~Item(t) => pc'[t] = "findRow"
    BY <2>1, <2>2 DEF FirstStep, Keyed, Item, Doing
  <2>4. Apart(t)' /\ FlowOf(t)' /\ EarnedOf(t)' /\ pc'[t] # "persistJob"
    BY <2>1, <2>3, <1>1 DEF Apart, FlowOf, EarnedOf, At, Item, Doing, Logging, Recording,
       Settled, Nexts, ItemSteps, RequeuePlaces, DiscardPlaces
  <2>5. DOMAIN local' = Threads /\ DOMAIN local'[t] = Fields /\ RecordsEarned'
    BY <2>1, <1>1, <1>2, <1>k DEF Shape, Execute, shared
  <2> QED
    BY <1>1, <2>1, <2>4, <2>5, SharedKeeps
<1>3. CASE Replay(t) \/ Record(t)
  <2>1. PICK a : local' = [local EXCEPT ![t] =
                   [local[t] EXCEPT !.author = a, !.outcome = "ok", !.then = "over"]]
    <3>1. local' = [local EXCEPT ![t] =
              [local[t] EXCEPT !.author = IF At(t, "record") THEN t ELSE records[RecordKey(t)],
                               !.outcome = "ok", !.then = "over"]]
      BY <1>3 DEF Replay, Record, At
    <3> QED
      BY <3>1
  <2>2. /\ DOMAIN local' = Threads /\ DOMAIN local'[t] = Fields
        /\ local'[t].outcome = "ok" /\ local'[t].then = "over"
        /\ \A u \in Threads \ {t} : local'[u] = local[u]
    BY <2>1, <1>1 DEF Shape, Fields
  <2>3. /\ DOMAIN pc' = Threads /\ \A u \in Threads \ {t} : pc'[u] = pc[u]
        /\ pc'[t] = IF IsTool(t) THEN "readLast" ELSE "over"
    BY <1>1, <1>3, GoToTurn DEF Replay, Record
  <2>4. Item(t) => Settled(req[t].on)
    <3>1. CASE Replay(t)
      BY <1>1, <3>1, KeyOfItem, ItemKnown DEF Replay, Recorded, RecordsEarned
    <3>2. CASE Record(t)
      BY <1>1, <3>2 DEF Record, EarnedOf, Recording
    <3> QED
      BY <1>3, <3>1, <3>2
  <2>5. RecordsEarned'
    <3>1. CASE Replay(t)
      BY <3>1, <1>k DEF Replay, shared
    <3>2. CASE Record(t)
      <4>1. DOMAIN records' = DOMAIN records \union {RecordKey(t)}
        BY <3>2 DEF Record
      <4>2. RecordKey(t).kind \in ItemKinds => Item(t) 
        <5>1. At(t, "record") /\ req[t] # None
          BY <3>2, <1>1 DEF Record, Apart
        <5> QED
          BY <5>1 DEF RecordKey, ItemKinds, Item, Doing
      <4> QED
        BY <4>1, <4>2, <2>4, <1>1, KeyOfItem DEF RecordsEarned, Settled
    <3> QED
      BY <1>3, <3>1, <3>2
  <2>6. Apart(t)' /\ FlowOf(t)' /\ EarnedOf(t)' /\ pc'[t] # "persistJob"
    BY <2>2, <2>3, <2>4, <1>1 DEF Apart, FlowOf, EarnedOf, At, Item, Doing, Logging, Recording,
       Settled, Nexts, ItemSteps, RequeuePlaces, DiscardPlaces
  <2> QED
    BY <1>1, <2>2, <2>3, <2>5, <2>6, SharedKeeps
<1>4. CASE Conflict(t)
  <2>1. Leave(t, "refused") /\ RecordsEarned'
    BY <1>4, <1>k DEF Conflict, shared
  <2>2. Apart(t)' /\ FlowOf(t)' /\ EarnedOf(t)' /\ pc'[t] # "persistJob"
    BY <2>1, <1>1, LeaveTurn DEF Apart, FlowOf, EarnedOf, At, Item, Doing, Logging, Recording,
       Settled, Nexts, ItemSteps, RequeuePlaces, DiscardPlaces
  <2> QED
    BY <1>1, <2>1, <2>2, LeaveTurn, SharedKeeps
<1> QED
  BY <1>2, <1>3, <1>4

LEMMA ToolKeeps ==
  ASSUME ReviewInv, NEW t \in Threads, UNCHANGED dlq,
         RefuseOpenCircuit(t) \/ Invoke(t) \/ ToolReturns(t) \/ ToolFails(t)
  PROVE  ReviewInv'
<1>1. /\ Shape /\ Apart(t) /\ FlowOf(t) /\ EarnedOf(t) /\ RecordsEarned
      /\ UNCHANGED <<traffic, req, before, items, requeues, records>>
      /\ pc[t] \in {"tool", "toolEnd"} /\ ~Over(t) /\ ~At(t, "idle")
  BY DEF ReviewInv, ThreadInv, dlq, RefuseOpenCircuit, Invoke, ToolReturns, ToolFails, shared,
     At, Over
<1>2. RecordsEarned' /\ ~Doing(t, "requeue")
  BY <1>1 DEF RecordsEarned, Settled, FlowOf, RequeuePlaces
<1>3. InvokeStep(t) \in {"readItem", "setReleased"}
      /\ (InvokeStep(t) = "readItem" <=> Doing(t, "discard"))
  BY <1>1 DEF InvokeStep, Doing, Apart
<1>4. CASE Leave(t, "error") \/ (Leave(t, local[t].outcome) /\ pc[t] = "toolEnd")
  <2>1. \E o \in {"error", local[t].outcome} : Leave(t, o)
    BY <1>4
  <2>2. Apart(t)' /\ FlowOf(t)' /\ EarnedOf(t)' /\ pc'[t] # "persistJob"
    BY <2>1, <1>1, <1>2, LeaveTurn DEF Apart, FlowOf, EarnedOf, At, Item, Doing, Logging,
       Recording, Settled, Nexts, ItemSteps, DiscardPlaces
  <2> QED
    BY <1>1, <1>2, <2>1, <2>2, LeaveTurn, SharedKeeps
<1>5. CASE GoTo(t, InvokeStep(t))
           /\ (local' = local \/ \E n : Set(t, "attempt", n))
  <2>1. "attempt" \in Fields /\ {"then", "outcome"} \subseteq Fields \ {"attempt"}
    BY DEF Fields
  <2>2. /\ DOMAIN local' = Threads /\ DOMAIN local'[t] = Fields
        /\ local'[t].then = local[t].then /\ local'[t].outcome = local[t].outcome
        /\ \A u \in Threads \ {t} : local'[u] = local[u]
    BY <1>5, <2>1, <1>1, SetTurn DEF Shape
  <2>3. /\ DOMAIN pc' = Threads /\ pc'[t] = InvokeStep(t)
        /\ \A u \in Threads \ {t} : pc'[u] = pc[u]
    BY <1>5, <1>1, GoToTurn
  <2>4. Apart(t)' /\ FlowOf(t)' /\ EarnedOf(t)' /\ pc'[t] # "persistJob"
    BY <2>2, <2>3, <1>1, <1>2, <1>3 DEF Apart, FlowOf, EarnedOf, At, Item, Doing, Logging,
       Recording, Settled, Nexts, ItemSteps, DiscardPlaces
  <2> QED
    BY <1>1, <1>2, <2>2, <2>3, <2>4, SharedKeeps
<1>6. CASE GoTo(t, "record") /\ local' = local /\ local[t].outcome = "ok"
  <2>1. /\ DOMAIN pc' = Threads /\ pc'[t] = "record"
        /\ \A u \in Threads \ {t} : pc'[u] = pc[u]
    BY <1>6, <1>1, GoToTurn
  <2>2. Apart(t)' /\ FlowOf(t)' /\ EarnedOf(t)' /\ pc'[t] # "persistJob"
    BY <2>1, <1>1, <1>2, <1>6 DEF Apart, FlowOf, EarnedOf, At, Item, Doing, Logging,
       Recording, Settled, Nexts, ItemSteps, DiscardPlaces
  <2> QED
    BY <1>1, <1>2, <1>6, <2>1, <2>2, SharedKeeps DEF Shape
<1> QED
  BY <1>4, <1>5, <1>6 DEF RefuseOpenCircuit, Invoke, ToolReturns, ToolFails, At

LEMMA RaiseKeeps ==
  ASSUME ReviewInv, NEW t \in Threads, UNCHANGED dlq, Raise(t)
  PROVE  ReviewInv'
<1>1. /\ Shape /\ Apart(t) /\ FlowOf(t) /\ EarnedOf(t) /\ RecordsEarned
      /\ UNCHANGED <<traffic, req, before, items, requeues, records>>
      /\ Return(t, "error")
  BY DEF ReviewInv, ThreadInv, dlq, Raise, shared
<1>2. pc[t] \in StoreCalls
  BY RequestsAssumption DEF Raise
<1>3. ~Over(t) /\ ~At(t, "idle") /\ RecordsEarned'
  BY <1>1, <1>2 DEF StoreCalls, Over, At, RecordsEarned, Settled
<1>4. Doing(t, "requeue") => ~IsTool(t)
  BY DEF Doing, IsTool
<1>5. Doing(t, "discard") => IsTool(t)
  BY DEF Doing, IsTool
<1>6. Apart(t)' /\ FlowOf(t)' /\ EarnedOf(t)' /\ pc'[t] # "persistJob"
  BY <1>1, <1>3, <1>4, <1>5, ReturnTurn DEF Apart, FlowOf, EarnedOf, At, Item, Doing, Logging,
     Recording, Settled, Nexts, ItemSteps, RequeuePlaces, DiscardPlaces
<1> QED
  BY <1>1, <1>3, <1>6, ReturnTurn, SharedKeeps

-----------------------------------------------------------------------------
LEMMA ReviewStep == ReviewInv /\ [Next]_vars => ReviewInv'
<1> SUFFICES ASSUME ReviewInv, [Next]_vars PROVE ReviewInv'
  OBVIOUS
<1>1. ASSUME NEW t \in Threads, RequestStep(t), UNCHANGED dlq PROVE ReviewInv'
  BY <1>1, BeginKeeps, LogKeeps, IdempotentKeeps, ToolKeeps, RaiseKeeps DEF RequestStep
<1>2. ASSUME NEW t \in Threads, DlqStep(t) PROVE ReviewInv'
  BY <1>2, DlqKeeps
<1>3. ASSUME NEW t \in Threads, HoldStep(t) \/ CatalogStep(t), UNCHANGED dlq PROVE ReviewInv'
  BY <1>3, HoldKeeps, CatalogKeeps
<1>4. ASSUME NEW u \in Uris, RetentionEnds(u), UNCHANGED dlq PROVE ReviewInv'
  BY <1>4, IdleKeeps DEF RetentionEnds, thread, shared, dlq
<1>5. CASE UNCHANGED vars
  BY <1>5, IdleKeeps DEF vars, thread, shared, dlq
<1> QED
  BY <1>1, <1>2, <1>3, <1>4, <1>5 DEF Next

\* However requests overlap, are retried and fail: once a requeue or a discard
\* of a dead-letter item has been answered with success, no request that comes
\* after it makes another job of the item (requeue_dlq_item, discard_dlq_item).
THEOREM ItemsSettleOnce == Spec => []SettledOnce
<1>1. ReviewInv => SettledOnce
  BY DEF ReviewInv
<1> QED
  BY <1>1, ReviewInit, ReviewStep, PTL DEF Spec

\* A replayed answer is never of an item that is still open: idempotency
\* records of dead-letter review are made of settled items only.
THEOREM RecordedIsSettled == Spec => []RecordsEarned
<1>1. ReviewInv => RecordsEarned
  BY DEF ReviewInv
<1> QED
  BY <1>1, ReviewInit, ReviewStep, PTL DEF Spec

-----------------------------------------------------------------------------
(* One thread at a time: what a step may do to the threads, whatever it is. *)

Turns(t) == Turn(t) /\ ~At(t, "idle")'

\* Wherever t goes, and whichever of its variables it sets.
LEMMA MoveTurns ==
  ASSUME Shape, NEW t \in Threads, ~Over(t), ~At(t, "idle"), UNCHANGED <<traffic, req, before>>,
         \/ \E p : p # "idle" /\ GoTo(t, p) /\ (UNCHANGED local \/ \E f \in Fields : \E v : Set(t, f, v))
         \/ \E o : Leave(t, o) \/ Return(t, o) \/ \E p : Log(t, o, p)
  PROVE  Turns(t)
<1>1. CASE \E p : p # "idle" /\ GoTo(t, p) /\ (UNCHANGED local \/ \E f \in Fields : \E v : Set(t, f, v))
  BY <1>1, GoToTurn, SetTurn DEF Turns, Turn, Shape, At
<1>2. CASE \E o : Leave(t, o) \/ Return(t, o) \/ \E p : Log(t, o, p)
  BY <1>2, LeaveTurn, ReturnTurn, LogTurn DEF Turns, Turn, At
<1> QED
  BY <1>1, <1>2

LEMMA RecordTurns ==
  ASSUME Shape, NEW t \in Threads, ~Over(t), ~At(t, "idle"), UNCHANGED <<traffic, req, before>>,
         NEW p, p # "idle", GoTo(t, p), NEW r, DOMAIN r = Fields, local' = [local EXCEPT ![t] = r]
  PROVE  Turns(t) /\ local'[t] = r /\ pc'[t] = p
BY GoToTurn, LocalTurn DEF Turns, Turn, At

LEMMA RequestTurns ==
  ASSUME ReviewInv, NEW t \in Threads, RequestStep(t), ~\E r \in traffic : Begin(t, r)
  PROVE  Turns(t)
<1>1. /\ Shape /\ ~Over(t) /\ ~At(t, "idle") /\ UNCHANGED <<traffic, req, before>>
  <2>1. pc[t] \in StoreCalls => ~Over(t) /\ ~At(t, "idle")
    BY DEF StoreCalls, Over, At
  <2> QED
    BY <2>1, RequestsAssumption
       DEF ReviewInv, RequestStep, ReadLast, AppendLog, Execute, Replay, Conflict, Record,
           RefuseOpenCircuit, Invoke, ToolReturns, ToolFails, Raise, LoseToolLog, At, Over
<1> USE <1>1
<1>2. "last" \in Fields /\ "attempt" \in Fields
  BY DEF Fields
<1>n. /\ InvokeStep(t) # "idle" /\ local[t].then # "idle"
      /\ At(t, "lookup") => FirstStep(t) # "idle"
  BY DEF InvokeStep, FirstStep, ReviewInv, ThreadInv, Apart, Nexts, Keyed, Item, Doing
<1>3. CASE ReadLast(t) \/ AppendLog(t) \/ LoseToolLog(t) \/ Execute(t) \/ Invoke(t)
  BY <1>2, <1>3, <1>n, MoveTurns DEF ReadLast, AppendLog, LoseToolLog, Execute, Invoke
<1>4. CASE Conflict(t) \/ RefuseOpenCircuit(t) \/ ToolReturns(t) \/ ToolFails(t) \/ Raise(t)
  BY <1>2, <1>4, <1>n, MoveTurns DEF Conflict, RefuseOpenCircuit, ToolReturns, ToolFails, Raise
<1>5. CASE Replay(t) \/ Record(t)
  <2>1. PICK a : local' = [local EXCEPT ![t] =
                    [local[t] EXCEPT !.author = a, !.outcome = "ok", !.then = "over"]]
    BY <1>5 DEF Replay, Record
  <2>2. \E p : p # "idle" /\ GoTo(t, p)
    BY <1>5 DEF Replay, Record
  <2>3. DOMAIN [local[t] EXCEPT !.author = a, !.outcome = "ok", !.then = "over"] = Fields
    BY DEF Shape
  <2> QED
    BY <2>1, <2>2, <2>3, RecordTurns
<1> QED
  BY <1>3, <1>4, <1>5 DEF RequestStep

LEMMA ComponentTurns ==
  ASSUME ReviewInv, NEW t \in Threads, DlqStep(t) \/ HoldStep(t) \/ CatalogStep(t)
  PROVE  Turns(t)
<1>1. "uri" \in Fields /\ "ref" \in Fields
  BY DEF Fields
<1>2. Shape
  BY DEF ReviewInv
<1>3. CASE DlqStep(t)
  <2>1. ~Over(t) /\ ~At(t, "idle") /\ UNCHANGED <<traffic, req, before>>
    BY <1>3 DEF DlqStep, ReadItem, RefuseItem, PersistJob, PersistItem, At, Over
  <2> QED
    BY <1>2, <1>3, <2>1, MoveTurns DEF DlqStep, ReadItem, RefuseItem, PersistJob, PersistItem
<1>4. CASE CatalogStep(t)
  <2>1. ~Over(t) /\ ~At(t, "idle") /\ UNCHANGED <<traffic, req, before>>
    BY <1>4 DEF CatalogStep, At, Over, FindRow, PersistRow, CreateParse, ReadRow, WriteRow,
       DeleteRow, RowNotFound
  <2>2. ASSUME NEW i \in Threads, DeleteRow(t, i) PROVE Turns(t)
    <3>1. /\ local' = [local EXCEPT ![t] = [local[t] EXCEPT !.ref = i, !.outcome = "ok"]]
          /\ GoTo(t, "over")
      BY <2>2 DEF DeleteRow
    <3>2. DOMAIN [local[t] EXCEPT !.ref = i, !.outcome = "ok"] = Fields
      BY <1>2 DEF Shape
    <3> QED
      BY <1>2, <2>1, <3>1, <3>2, RecordTurns
  <2>3. CASE FindRow(t) \/ PersistRow(t) \/ CreateParse(t) \/ WriteRow(t)
    BY <1>1, <1>2, <2>1, <2>3, MoveTurns DEF FindRow, PersistRow, CreateParse, WriteRow
  <2>4. ASSUME NEW i \in Threads, ReadRow(t, i) \/ RowNotFound(t, i) PROVE Turns(t)
    BY <1>1, <1>2, <2>1, <2>4, MoveTurns DEF ReadRow, RowNotFound
  <2> QED
    BY <1>4, <2>2, <2>3, <2>4 DEF CatalogStep
<1>5. CASE HoldStep(t)
  <2>1. ~Over(t) /\ ~At(t, "idle") /\ UNCHANGED <<traffic, req, before>>
    BY <1>5 DEF HoldStep, At, Over, FoundHold, NoHoldYet, Resolve, ApplyLock, RecordHold,
       SetReleased, RefuseRelease, ReleaseLock, LogRelease, BlockedByHold, NotHeld,
       CheckRetention, CheckLock, Unlink, LogCleanup, Put, HoldOfPut, LockPut, Upsert
  <2>2. ASSUME NEW h \in Threads, SetReleased(t, h) PROVE Turns(t)
    <3>1. /\ local' = [local EXCEPT ![t] = [local[t] EXCEPT !.ref = h, !.uri = holds[h].uri]]
          /\ \E p : p # "idle" /\ GoTo(t, p)
      BY <2>2 DEF SetReleased
    <3>2. DOMAIN [local[t] EXCEPT !.ref = h, !.uri = holds[h].uri] = Fields
      BY <1>2 DEF Shape
    <3> QED
      BY <1>2, <2>1, <3>1, <3>2, RecordTurns
  <2>3. CASE \/ FoundHold(t) \/ RefuseRelease(t) \/ Upsert(t) \/ RecordHold(t) \/ ReleaseLock(t)
             \/ LogRelease(t) \/ BlockedByHold(t) \/ Unlink(t) \/ LogCleanup(t)
    BY <1>2, <2>1, <2>3, MoveTurns
       DEF FoundHold, RefuseRelease, Upsert, RecordHold, ReleaseLock, LogRelease, BlockedByHold,
           Unlink, LogCleanup
  <2>4. CASE NoHoldYet(t) \/ Resolve(t) \/ ApplyLock(t) \/ NotHeld(t) \/ Put(t) \/ LockPut(t)
    BY <1>1, <1>2, <2>1, <2>4, MoveTurns DEF NoHoldYet, Resolve, AfterResolve, ApplyLock, NotHeld, Put, LockPut
  <2>5. CASE CheckRetention(t) \/ CheckLock(t) \/ HoldOfPut(t)
    BY <1>2, <2>1, <2>5, MoveTurns DEF CheckRetention, CheckLock, HoldOfPut
  <2> QED
    BY <1>5, <2>2, <2>3, <2>4, <2>5 DEF HoldStep
<1> QED
  BY <1>3, <1>4, <1>5

\* A request arrives: only its own variables change.
LEMMA BeginFacts ==
  ASSUME ReviewInv, NEW t \in Threads, NEW r \in traffic, Begin(t, r)
  PROVE  /\ At(t, "idle") /\ ~Over(t) /\ req'[t] = r /\ r \in UNION Traffic /\ r # None
         /\ before'[t] = {u \in Threads : Over(u)}
         /\ \A u \in Threads \ {t} : /\ req'[u] = req[u] /\ before'[u] = before[u]
                                     /\ pc'[u] = pc[u] /\ local'[u] = local[u]
         /\ \A f \in Fields \ {"outcome"} : local'[t][f] = local[t][f]
         /\ IF RefusedUnread(r) THEN pc'[t] = "over" /\ local'[t].outcome = "refused"
            ELSE pc'[t] = Start(r) /\ local'[t] = local[t]
         /\ UNCHANGED <<traffic, records, audit, circuit>>
<1>1. Shape /\ "outcome" \in Fields /\ At(t, "idle") /\ r \in UNION Traffic
  BY DEF ReviewInv, Begin, Fields, Shape
<1>2. CASE RefusedUnread(r)
  BY <1>1, <1>2, GoToTurn, SetTurn, RequestsAssumption DEF Begin, Shape, shared, At, Over
<1>3. CASE ~RefusedUnread(r)
  BY <1>1, <1>3, GoToTurn, RequestsAssumption DEF Begin, Shape, shared, At, Over
<1> QED
  BY <1>2, <1>3

\* Whoever has begun stays what it is; what it has answered, it has answered.
Stays(u) == /\ ~At(u, "idle") => /\ ~At(u, "idle")' /\ req'[u] = req[u]
                                 /\ before'[u] = before[u]
            /\ Over(u) => pc'[u] = pc[u] /\ local'[u] = local[u]

LEMMA ThreadsStay ==
  ASSUME ReviewInv, [Next]_vars
  PROVE  /\ \A u \in Threads : Stays(u)
         /\ traffic' = traffic
         /\ \/ UNCHANGED <<thread, shared, catalog, holds, current>>
            \/ \E t \in Threads, r \in traffic :
                  Begin(t, r) /\ UNCHANGED <<shared, dlq, storage, catalog>>
            \/ \E t \in Threads : Turns(t)
<1>2. CASE UNCHANGED vars \/ \E u \in Uris : RetentionEnds(u) /\ UNCHANGED <<dlq, catalog>>
  BY <1>2 DEF RetentionEnds, vars, thread, storage, shared, Stays, At, Over
<1>3. ASSUME NEW t \in Threads, NEW r \in traffic, Begin(t, r),
             UNCHANGED <<dlq, storage, catalog>>
      PROVE  UNCHANGED <<shared, traffic>> /\ \A u \in Threads : Stays(u)
  BY <1>3, BeginFacts DEF Stays, At, Over, shared
<1>4. ASSUME NEW t \in Threads, Turns(t)
      PROVE  traffic' = traffic /\ \A u \in Threads : Stays(u)
  <2>1. ASSUME NEW u \in Threads \ {t} PROVE Stays(u)
    BY <1>4, <2>1 DEF Turns, Turn, Stays, At
  <2>2. Stays(t)
    BY <1>4 DEF Turns, Turn, Stays
  <2> QED
    BY <1>4, <2>1, <2>2 DEF Turns, Turn
<1> QED
  BY <1>2, <1>3, <1>4, RequestTurns, ComponentTurns DEF Next
-----------------------------------------------------------------------------
(* Answers by key.  Whoever has answered a key with success has it recorded; *)
(* whoever executes found it unrecorded.                                     *)

CreatePlaces == {"lookup", "findRow", "persistRow", "createParse", "record", "over"}
Creates(t) == Doing(t, "create") \/ Doing(t, "upload")

\* Only the answer is left to give.
Ending(t) == Over(t) \/ (Logging(t) /\ local[t].then = "over")
Waiting(t) == At(t, "idle") \/ At(t, "lookup")

\* Nobody had answered t's key with success when t began.
Unanswered(t) ==
    \A u \in before[t] : ~(Succeeded(u) /\ Keyed(u) /\ RecordKey(u) = RecordKey(t))

AuthorOf(t) ==
    LET a == local[t].author IN
    /\ a \in Threads /\ RecordKey(a) = RecordKey(t) /\ Fingerprint(a) = Fingerprint(t)
    /\ RecordKey(t) \in DOMAIN records
    /\ ~At(a, "idle") /\ (a = t => Unanswered(t))

KeyedOf(t) ==
    /\ Creates(t) => pc[t] \in CreatePlaces
    /\ (Keyed(t) /\ ~Waiting(t)) =>
          IF Ending(t) THEN local[t].outcome = "ok" => AuthorOf(t)
          ELSE Unanswered(t)

RecordsKnown ==
    \A k \in DOMAIN records : /\ records[k] \in Threads /\ ~Waiting(records[k])
                              /\ RecordKey(records[k]) = k

AnswerInv == RecordsKnown /\ \A t \in Threads : KeyedOf(t)


\* Who is in t's past, or holds a key's record, goes on being what it was.
LEMMA AnswersStay ==
  ASSUME ReviewInv, [Next]_vars, NEW t \in Threads, ~At(t, "idle"),
         \A k \in DOMAIN records : k \in DOMAIN records'
  PROVE  /\ Unanswered(t) => Unanswered(t)'
         /\ RecordKey(t)' = RecordKey(t) /\ Fingerprint(t)' = Fingerprint(t)
         /\ Keyed(t)' <=> Keyed(t)
<1>1. \A u \in Threads : Stays(u)
  BY ThreadsStay
<1>2. req'[t] = req[t] /\ before'[t] = before[t]
  BY <1>1 DEF Stays
<1>3. /\ RecordKey(t)' = RecordKey(t) /\ Fingerprint(t)' = Fingerprint(t)
      /\ Keyed(t)' <=> Keyed(t)
  BY <1>2 DEF RecordKey, InPath, Fingerprint, Keyed, Item, Doing
<1>4. ASSUME Unanswered(t), NEW u \in before[t]
      PROVE  ~(Succeeded(u) /\ Keyed(u) /\ RecordKey(u) = RecordKey(t))'
  <2>1. u \in Threads /\ Over(u) /\ ~At(u, "idle")
    BY DEF ReviewInv, ThreadInv, BeforeOf, Over, At
  <2>2. req'[u] = req[u] /\ pc'[u] = pc[u] /\ local'[u] = local[u]
    BY <1>1, <2>1 DEF Stays
  <2>3. /\ Succeeded(u)' <=> Succeeded(u)
        /\ Keyed(u)' <=> Keyed(u) /\ RecordKey(u)' = RecordKey(u)
    BY <2>2 DEF Succeeded, Over, Keyed, Item, Doing, RecordKey, InPath
  <2> QED
    BY <1>3, <1>4, <2>3 DEF Unanswered
<1> QED
  BY <1>2, <1>3, <1>4 DEF Unanswered

LEMMA AuthorStays ==
  ASSUME ReviewInv, AnswerInv, [Next]_vars, NEW t \in Threads, ~At(t, "idle"), AuthorOf(t),
         local'[t].author = local[t].author,
         \A k \in DOMAIN records : k \in DOMAIN records'
  PROVE  AuthorOf(t)'
<1> PICK a : a = local[t].author
  OBVIOUS
<1>1. a \in Threads /\ ~At(a, "idle")
  BY DEF AuthorOf
<1>2. /\ RecordKey(a)' = RecordKey(a) /\ Fingerprint(a)' = Fingerprint(a) /\ ~At(a, "idle")'
  BY <1>1, AnswersStay, ThreadsStay DEF Stays
<1>3. /\ RecordKey(t)' = RecordKey(t) /\ Fingerprint(t)' = Fingerprint(t)
      /\ Unanswered(t) => Unanswered(t)'
  BY AnswersStay
<1>4. local'[t].author = a
  OBVIOUS
<1> QED
  BY <1>1, <1>2, <1>3, <1>4 DEF AuthorOf, RecordKey, InPath, Fingerprint, At

\* Everyone but t.
LEMMA OthersAnswer ==
  ASSUME ReviewInv, AnswerInv, [Next]_vars, NEW t \in Threads,
         \A u \in Threads \ {t} : pc'[u] = pc[u] /\ local'[u] = local[u] /\ req'[u] = req[u],
         \A k \in DOMAIN records : k \in DOMAIN records',
         KeyedOf(t)', RecordsKnown'
  PROVE  AnswerInv'
<1> SUFFICES ASSUME NEW u \in Threads \ {t} PROVE KeyedOf(u)'
  BY DEF AnswerInv
<1>1. KeyedOf(u) /\ pc'[u] = pc[u] /\ local'[u] = local[u] /\ req'[u] = req[u]
  BY DEF AnswerInv
<1>2. /\ Creates(u)' <=> Creates(u)
      /\ Keyed(u)' <=> Keyed(u)
      /\ Waiting(u)' <=> Waiting(u)
      /\ Ending(u)' <=> Ending(u)
  BY <1>1 DEF Creates, Keyed, Item, Doing, Waiting, At, Ending, Over, Logging
<1>3. ASSUME AuthorOf(u), ~Waiting(u), Keyed(u) PROVE AuthorOf(u)'
  BY <1>1, <1>3, AuthorStays DEF Waiting
<1>4. ASSUME Unanswered(u), ~Waiting(u) PROVE Unanswered(u)'
  BY <1>4, AnswersStay DEF Waiting
<1>5. Creates(u)' => pc'[u] \in CreatePlaces
  BY <1>1, <1>2 DEF KeyedOf
<1> QED
  BY <1>1, <1>2, <1>3, <1>4, <1>5 DEF KeyedOf

\* Steps that record nothing and replay nothing: an end stays an end.
LEMMA AnswerMoves ==
  ASSUME ReviewInv, AnswerInv, [Next]_vars, NEW t \in Threads, Turns(t), UNCHANGED records,
         local'[t].author = local[t].author, ~At(t, "lookup")',
         Keyed(t) => /\ ~Waiting(t)
                     /\ Creates(t) => pc'[t] \in CreatePlaces
                     /\ Ending(t) => Ending(t)'
                     /\ (Ending(t)' /\ local'[t].outcome = "ok") =>
                            Ending(t) /\ local[t].outcome = "ok"
  PROVE  AnswerInv'
<1>1. /\ ~At(t, "idle") /\ ~At(t, "idle")' /\ req' = req
      /\ \A u \in Threads \ {t} : pc'[u] = pc[u] /\ local'[u] = local[u] /\ req'[u] = req[u]
  BY DEF Turns, Turn
<1>2. /\ Creates(t)' <=> Creates(t)
      /\ Keyed(t)' <=> Keyed(t)
      /\ Creates(t) => Keyed(t)
  BY <1>1 DEF Creates, Keyed, Item, Doing
<1>3. KeyedOf(t)
  BY DEF AnswerInv
<1>4. KeyedOf(t)'
  <2>1. (AuthorOf(t) => AuthorOf(t)') /\ (Unanswered(t) => Unanswered(t)')
    BY <1>1, AuthorStays, AnswersStay
  <2> QED
    BY <1>2, <1>3, <2>1 DEF KeyedOf
<1>5. RecordsKnown'
  <2> SUFFICES ASSUME NEW k \in DOMAIN records
               PROVE  /\ records[k] \in Threads /\ ~Waiting(records[k])'
                      /\ RecordKey(records[k])' = k
    BY DEF RecordsKnown
  <2>1. records[k] \in Threads /\ ~Waiting(records[k]) /\ RecordKey(records[k]) = k
    BY DEF AnswerInv, RecordsKnown
  <2>2. RecordKey(records[k])' = k
    BY <1>1, <2>1 DEF RecordKey, InPath
  <2>3. ~Waiting(records[k])'
    BY <1>1, <2>1 DEF Waiting, At
  <2> QED
    BY <2>1, <2>2, <2>3
<1> QED
  BY <1>1, <1>4, <1>5, OthersAnswer

\* A key is looked up: its record is replayed, refused, or not there.
LEMMA LookUpAnswers ==
  ASSUME ReviewInv, AnswerInv, [Next]_vars, NEW t \in Threads,
         Execute(t) \/ Replay(t) \/ Conflict(t)
  PROVE  AnswerInv'
<1>1. /\ Shape /\ UNCHANGED <<req, before, records>> /\ At(t, "lookup") /\ Turns(t)
      /\ Keyed(t) /\ (Creates(t) <=> ~Item(t))
  <2>1. At(t, "lookup") /\ UNCHANGED <<req, before, records>>
    BY DEF Execute, Replay, Conflict, shared
  <2>2. Turns(t)
    <3>1. ~\E r \in traffic : Begin(t, r)
      BY <2>1 DEF Begin, At
    <3> QED
      BY <3>1, RequestTurns DEF RequestStep
  <2>3. Keyed(t) /\ (Creates(t) <=> ~Item(t))
    BY <2>1 DEF ReviewInv, ThreadInv, Apart, Keyed, Creates, Item, Doing
  <2> QED
    BY <2>1, <2>2, <2>3 DEF ReviewInv
<1>2. \A u \in Threads \ {t} : pc'[u] = pc[u] /\ local'[u] = local[u]
  BY <1>1 DEF Turns, Turn
<1>3. RecordsKnown'
  <2> SUFFICES ASSUME NEW k \in DOMAIN records
               PROVE  /\ records[k] \in Threads \ {t} /\ ~Waiting(records[k])'
                      /\ RecordKey(records[k])' = k
    BY <1>1 DEF RecordsKnown
  <2>1. records[k] \in Threads /\ ~Waiting(records[k]) /\ RecordKey(records[k]) = k
    BY DEF AnswerInv, RecordsKnown
  <2>2. RecordKey(records[k])' = k
    BY <1>1, <2>1 DEF RecordKey, InPath
  <2> QED
    BY <1>1, <1>2, <2>1, <2>2 DEF Waiting, At
<1>4. /\ Keyed(t)' <=> Keyed(t)
      /\ Creates(t)' <=> Creates(t)
      /\ Unanswered(t) => Unanswered(t)'
      /\ RecordKey(t)' = RecordKey(t) /\ Fingerprint(t)' = Fingerprint(t)
  <2>1. ~At(t, "idle")
    BY <1>1 DEF At
  <2> QED
    BY <1>1, <2>1, AnswersStay DEF Creates, Doing
<1>5. Creates(t) => ~IsTool(t)
  BY DEF Creates, IsTool, Doing
<1>6. CASE Execute(t)
  <2>1. pc'[t] = FirstStep(t)
    BY <1>1, <1>6, GoToTurn DEF Execute
  <2>2. pc'[t] \in {"tool", "readItem", "findRow"} /\ (Creates(t) => pc'[t] = "findRow")
    BY <1>1, <2>1 DEF FirstStep, Keyed, Creates, Item, Doing
  <2>3. Unanswered(t)
    <3> SUFFICES ASSUME NEW u \in before[t], Succeeded(u), Keyed(u), RecordKey(u) = RecordKey(t)
                 PROVE  FALSE
      BY DEF Unanswered
    <3>1. u \in Threads /\ Over(u) /\ KeyedOf(u)
      BY DEF ReviewInv, ThreadInv, BeforeOf, AnswerInv
    <3>2. RecordKey(u) \in DOMAIN records
      BY <3>1 DEF KeyedOf, Ending, Over, Waiting, At, Succeeded, AuthorOf
    <3> QED
      BY <1>6, <3>2 DEF Execute, Recorded
  <2>4. KeyedOf(t)'
    BY <1>4, <2>2, <2>3 DEF KeyedOf, CreatePlaces, Ending, Over, Logging, Waiting, At
  <2> QED
    BY <1>1, <1>2, <1>3, <2>4, OthersAnswer
<1>7. CASE Replay(t)
  <2> DEFINE a == records[RecordKey(t)]
             r == [local[t] EXCEPT !.author = a, !.outcome = "ok", !.then = "over"]
  <2>1. local' = [local EXCEPT ![t] = r] /\ GoTo(t, IF IsTool(t) THEN "readLast" ELSE "over")
    BY <1>7 DEF Replay
  <2>2. r.author = a /\ r.then = "over" /\ DOMAIN r = Fields
    BY <1>1 DEF Shape, Fields
  <2>3. /\ a \in Threads /\ ~Waiting(a) /\ a # t /\ RecordKey(a) = RecordKey(t)
        /\ RecordKey(t) \in DOMAIN records /\ Fingerprint(a) = Fingerprint(t)
    BY <1>1, <1>7 DEF Replay, Recorded, SameBody, AnswerInv, RecordsKnown, Waiting
  <2> HIDE DEF a, r
  <2>4. local'[t] = r /\ pc'[t] = IF IsTool(t) THEN "readLast" ELSE "over"
    BY <1>1, <2>1, <2>2, LocalTurn, GoToTurn
  <2>5. PICK b : b = a
    OBVIOUS
  <2>6. /\ RecordKey(b)' = RecordKey(b) /\ Fingerprint(b)' = Fingerprint(b) /\ ~At(b, "idle")'
    BY <1>1, <1>2, <2>3, <2>5 DEF RecordKey, InPath, Fingerprint, Waiting, At
  <2>7. AuthorOf(t)'
    BY <1>1, <1>4, <2>2, <2>3, <2>4, <2>5, <2>6 DEF AuthorOf, RecordKey, InPath, Fingerprint, At
  <2>8. KeyedOf(t)'
    BY <1>4, <1>5, <2>2, <2>4, <2>7 DEF KeyedOf, CreatePlaces, Ending, Over, Logging
  <2> QED
    BY <1>1, <1>2, <1>3, <2>8, OthersAnswer
<1>8. CASE Conflict(t)
  <2>1. /\ local'[t].outcome = "refused"
        /\ IF IsTool(t) THEN pc'[t] = "readLast" /\ local'[t].then = "over" ELSE pc'[t] = "over"
    BY <1>1, <1>8, LeaveTurn DEF Conflict
  <2>2. KeyedOf(t)'
    BY <1>4, <1>5, <2>1 DEF KeyedOf, CreatePlaces, Ending, Over, Logging
  <2> QED
    BY <1>1, <1>2, <1>3, <2>2, OthersAnswer
<1> QED
  BY <1>6, <1>7, <1>8

\* The answer is recorded under its key: nobody before had answered it.
LEMMA RecordAnswers ==
  ASSUME ReviewInv, AnswerInv, [Next]_vars, NEW t \in Threads, Record(t)
  PROVE  AnswerInv'
<1> DEFINE r == [local[t] EXCEPT !.author = t, !.outcome = "ok", !.then = "over"]
<1>1. /\ Shape /\ UNCHANGED <<req, before>> /\ At(t, "record") /\ Turns(t)
      /\ local' = [local EXCEPT ![t] = r] /\ GoTo(t, IF IsTool(t) THEN "readLast" ELSE "over")
  <2>1. At(t, "record") /\ UNCHANGED <<req, before>>
    BY DEF Record
  <2>2. Turns(t)
    <3>1. ~\E q \in traffic : Begin(t, q)
      BY <2>1 DEF Begin, At
    <3> QED
      BY <3>1, RequestTurns DEF RequestStep
  <2> QED
    BY <2>1, <2>2 DEF ReviewInv, Record
<1>2. r.author = t /\ r.then = "over" /\ DOMAIN r = Fields
  BY <1>1 DEF Shape, Fields
<1> HIDE DEF r
<1>3. /\ local'[t] = r /\ pc'[t] = IF IsTool(t) THEN "readLast" ELSE "over"
      /\ \A u \in Threads \ {t} : pc'[u] = pc[u] /\ local'[u] = local[u]
  <2> PICK p : p = IF IsTool(t) THEN "readLast" ELSE "over"
    OBVIOUS
  <2>1. Shape /\ GoTo(t, p) /\ local' = [local EXCEPT ![t] = r]
    BY <1>1
  <2>2. pc'[t] = p /\ \A u \in Threads \ {t} : pc'[u] = pc[u]
    BY <2>1, GoToTurn
  <2>3. local'[t] = r /\ \A u \in Threads \ {t} : local'[u] = local[u]
    BY <2>1, <1>2, LocalTurn
  <2> QED
    BY <2>2, <2>3
<1>4. /\ DOMAIN records' = DOMAIN records \union {RecordKey(t)}
      /\ \A k \in DOMAIN records' : IF k = RecordKey(t) THEN records'[k] = t
                                    ELSE records'[k] = records[k]
  BY DEF Record
<1>5. ~Waiting(t) /\ ~Waiting(t)' /\ ~Ending(t)
  BY <1>1, <1>3 DEF Waiting, At, Ending, Over, Logging
<1>6. RecordsKnown'
  <2> SUFFICES ASSUME NEW k \in DOMAIN records'
               PROVE  \E s \in Threads : /\ records'[k] = s /\ ~Waiting(s)' /\ RecordKey(s)' = k
    BY DEF RecordsKnown, Waiting, At, RecordKey, InPath
  <2>1. CASE k = RecordKey(t)
    <3>1. RecordKey(t)' = k
      BY <1>1, <2>1 DEF RecordKey, InPath
    <3> QED
      BY <1>4, <1>5, <2>1, <3>1
  <2>2. CASE k # RecordKey(t)
    <3>1. PICK s \in Threads : records[k] = s /\ ~Waiting(s) /\ RecordKey(s) = k
      BY <1>4, <2>2 DEF AnswerInv, RecordsKnown
    <3>2. ~Waiting(s)' /\ RecordKey(s)' = k
      BY <1>1, <1>3, <1>5, <3>1 DEF Waiting, At, RecordKey, InPath
    <3> QED
      BY <1>4, <2>2, <3>1, <3>2
  <2> QED
    BY <2>1, <2>2
<1>7. /\ Keyed(t)' <=> Keyed(t)
      /\ Creates(t)' <=> Creates(t)
      /\ Unanswered(t) => Unanswered(t)'
      /\ RecordKey(t)' = RecordKey(t)
  BY <1>1, <1>4, <1>5, AnswersStay DEF Creates, Doing, Waiting
<1>8. Keyed(t) => Unanswered(t)
  BY <1>5 DEF AnswerInv, KeyedOf
<1>9. Keyed(t) => AuthorOf(t)'
  BY <1>2, <1>3, <1>4, <1>5, <1>7, <1>8 DEF AuthorOf, Waiting
<1>10. KeyedOf(t)'
  <2>1. Creates(t) => ~IsTool(t)
    BY DEF Creates, IsTool, Doing
  <2> QED
    BY <1>2, <1>3, <1>7, <1>9, <2>1 DEF KeyedOf, CreatePlaces, Ending, Over, Logging
<1> QED
  BY <1>1, <1>3, <1>4, <1>6, <1>10, OthersAnswer

\* Whoever leaves, returns or logs sets nothing but where it goes and its outcome.
LEMMA LeaveKeeps ==
  ASSUME Shape, NEW t \in Threads,
         \E o : Leave(t, o) \/ Return(t, o) \/ \E p : Log(t, o, p),
         NEW f \in Fields \ {"then", "outcome"}
  PROVE  local'[t][f] = local[t][f]
<1>1. DOMAIN local = Threads /\ DOMAIN local[t] = Fields
  BY DEF Shape
<1>2. PICK o, p : \/ local' = [local EXCEPT ![t].outcome = o]
                  \/ local' = [local EXCEPT ![t].then = p, ![t].outcome = o]
  BY DEF Leave, Return, Log, Set
<1>3. f # "then" /\ f # "outcome"
  OBVIOUS
<1> QED
  BY <1>1, <1>2, <1>3

\* The other requests' shares: nothing is answered, or nothing with a key.
LEMMA SharedAnswers ==
  ASSUME ReviewInv, AnswerInv, [Next]_vars, NEW t \in Threads, Turns(t),
         \/ ReadLast(t) \/ AppendLog(t) \/ LoseToolLog(t) \/ Raise(t)
         \/ RefuseOpenCircuit(t) \/ Invoke(t) \/ ToolReturns(t) \/ ToolFails(t)
  PROVE  AnswerInv'
<1>1. /\ Shape /\ Apart(t) /\ UNCHANGED records /\ ~Over(t) /\ ~At(t, "idle") /\ req' = req
      /\ KeyedOf(t)
  BY DEF ReviewInv, ThreadInv, Turns, Turn, shared, ReadLast, AppendLog, LoseToolLog, Raise,
     RefuseOpenCircuit, Invoke, ToolReturns, ToolFails, AnswerInv
<1>2. {"last", "attempt", "outcome", "then", "author"} \subseteq Fields
  BY DEF Fields
<1>3. Keyed(t) => req[t].kind \in {"requeue", "discard", "create", "upload"}
  BY DEF Keyed, Item, Doing
<1>4. CASE ReadLast(t) \/ AppendLog(t) \/ LoseToolLog(t)
  <2>1. /\ local'[t].author = local[t].author /\ local'[t].then = local[t].then
        /\ local'[t].outcome = local[t].outcome /\ Logging(t)
        /\ pc'[t] = "append" \/ pc'[t] = local[t].then
             \/ (pc'[t] = "over" /\ local[t].then = "over")
    BY <1>1, <1>2, <1>4, SetTurn, GoToTurn
       DEF ReadLast, AppendLog, LoseToolLog, IsToolLog, Logging, At
  <2>2. ~Creates(t)
    BY <1>1, <2>1 DEF KeyedOf, CreatePlaces, Logging
  <2> QED
    BY <1>1, <2>1, <2>2, AnswerMoves
       DEF Apart, Nexts, Waiting, At, Ending, Over, Logging, Creates, Keyed
<1>5. CASE Raise(t) \/ RefuseOpenCircuit(t) \/ Invoke(t) \/ ToolReturns(t) \/ ToolFails(t)
  <2>1. ~At(t, "lookup")
    <3>1. "lookup" \notin StoreCalls
      BY DEF StoreCalls
    <3> QED
      BY <1>5, <3>1, RequestsAssumption
         DEF Raise, RefuseOpenCircuit, Invoke, ToolReturns, ToolFails, At
  <2>2. local'[t].author = local[t].author
    <3>1. CASE local' = local
      BY <3>1
    <3>2. CASE \E n : Set(t, "attempt", n)
      BY <3>2, <1>1, <1>2, SetTurn
    <3>3. CASE \E o : Leave(t, o) \/ Return(t, o)
      BY <3>3, <1>1, <1>2, LeaveKeeps
    <3> QED
      BY <1>5, <3>1, <3>2, <3>3 DEF Raise, RefuseOpenCircuit, Invoke, ToolReturns, ToolFails
  <2> DEFINE Fine ==
                /\ ~At(t, "lookup")'
                /\ Keyed(t) => /\ Creates(t) => pc'[t] \in CreatePlaces
                               /\ Ending(t) => Ending(t)'
                               /\ (Ending(t)' /\ local'[t].outcome = "ok") =>
                                     Ending(t) /\ local[t].outcome = "ok"
  <2> SUFFICES Fine
    BY <1>1, <2>1, <2>2, AnswerMoves DEF Waiting
  <2>3. CASE Raise(t)
    <3>1. /\ pc[t] \in StoreCalls /\ local'[t].outcome = "error"
          /\ pc'[t] = IF IsTool(t) THEN "toolEnd" ELSE "over"
      BY <2>3, <1>1, ReturnTurn, RequestsAssumption DEF Raise
    <3>2. Creates(t) => ~IsTool(t)
      BY DEF Creates, IsTool, Doing
    <3>3. Ending(t) => ~IsTool(t)
      BY <2>3, <3>1 DEF Ending, Over, Logging, StoreCalls, Raise, IsToolLog, At
    <3>4. pc'[t] \in {"toolEnd", "over"} /\ (~IsTool(t) => pc'[t] = "over")
      BY <3>1
    <3> QED
      BY <3>1, <3>2, <3>3, <3>4 DEF CreatePlaces, Ending, Over, At
  <2>4. CASE At(t, "tool") \/ At(t, "toolEnd")
    <3>1. ~Creates(t) /\ ~Ending(t)
      BY <1>1, <2>4 DEF KeyedOf, CreatePlaces, At, Ending, Over, Logging
    <3>2. CASE \E o : Leave(t, o) /\ (Keyed(t) => o # "ok")
      <4>1. PICK o : Leave(t, o) /\ (Keyed(t) => o # "ok")
        BY <3>2
      <4>2. local'[t].outcome = o /\ pc'[t] \in {"readLast", "over"}
        BY <4>1, <1>1, LeaveTurn
      <4> QED
        BY <3>1, <4>1, <4>2 DEF At
    <3>3. CASE \E p \in {"record", "readItem", "setReleased"} : GoTo(t, p)
      <4>1. pc'[t] \in {"record", "readItem", "setReleased"}
        BY <3>3, <1>1, GoToTurn
      <4> QED
        BY <3>1, <4>1 DEF At, Ending, Over, Logging
    <3>4. InvokeStep(t) \in {"readItem", "setReleased"}
      BY DEF InvokeStep
    <3>5. Keyed(t) => IsKeyed(t)
      BY <1>3 DEF IsKeyed
    <3>6. Raise(t) \/ RefuseOpenCircuit(t) \/ Invoke(t) \/ ToolReturns(t) \/ ToolFails(t)
      BY <1>5
    <3>7. CASE RefuseOpenCircuit(t) \/ Invoke(t) \/ ToolFails(t)
      BY <3>2, <3>3, <3>4, <3>7 DEF RefuseOpenCircuit, Invoke, ToolFails
    <3>8. CASE ToolReturns(t)
      BY <3>2, <3>3, <3>5, <3>8 DEF ToolReturns
    <3> QED
      BY <2>3, <3>6, <3>7, <3>8
  <2>5. Raise(t) \/ At(t, "tool") \/ At(t, "toolEnd")
    BY <1>5 DEF RefuseOpenCircuit, Invoke, ToolReturns, ToolFails
  <2> QED
    BY <2>3, <2>4, <2>5
<1> QED
  BY <1>4, <1>5

\* A request without a key takes nobody's answer.
LEMMA UnkeyedAnswers ==
  ASSUME ReviewInv, AnswerInv, [Next]_vars, NEW t \in Threads, Turns(t), UNCHANGED records,
         ~Keyed(t)
  PROVE  AnswerInv'
<1>1. /\ ~At(t, "idle") /\ ~At(t, "idle")' /\ req' = req
      /\ \A u \in Threads \ {t} : pc'[u] = pc[u] /\ local'[u] = local[u] /\ req'[u] = req[u]
  BY DEF Turns, Turn
<1>2. ~Keyed(t)' /\ ~Creates(t)'
  BY <1>1 DEF Keyed, Creates, Item, Doing
<1>3. ~Waiting(t)'
  BY <1>1, <1>2, ReviewStep DEF ReviewInv, ThreadInv, Apart, Waiting, At
<1>4. RecordsKnown'
  <2> SUFFICES ASSUME NEW k \in DOMAIN records
               PROVE  \E s \in Threads : /\ records[k] = s /\ ~Waiting(s)' /\ RecordKey(s)' = k
    BY DEF RecordsKnown, Waiting, At, RecordKey, InPath
  <2>1. PICK s \in Threads : records[k] = s /\ ~Waiting(s) /\ RecordKey(s) = k
    BY DEF AnswerInv, RecordsKnown
  <2> QED
    BY <1>1, <1>3, <2>1 DEF Waiting, At, RecordKey, InPath
<1> QED
  BY <1>1, <1>2, <1>4, OthersAnswer DEF KeyedOf

LEMMA DlqAnswers ==
  ASSUME ReviewInv, AnswerInv, [Next]_vars, NEW t \in Threads, DlqStep(t)
  PROVE  AnswerInv'
<1>1. pc[t] \in ItemSteps /\ UNCHANGED records
  BY DEF DlqStep, ReadItem, RefuseItem, PersistJob, PersistItem, At, ItemSteps, shared
<1>2. /\ Item(t) /\ Shape /\ Turns(t) /\ ~Waiting(t) /\ ~Ending(t)
  BY <1>1, ComponentTurns
     DEF ReviewInv, ThreadInv, Apart, ItemSteps, Waiting, At, Ending, Over, Logging
<1>3. ~Creates(t)
  BY <1>2 DEF Item, Creates, Doing
<1>4. /\ "author" \in Fields \ {"then", "outcome"}
      /\ local'[t].author = local[t].author
  <2>1. "author" \in Fields \ {"then", "outcome"}
    BY DEF Fields
  <2>2. CASE ReadItem(t) \/ PersistJob(t)
    BY <2>1, <2>2 DEF ReadItem, PersistJob
  <2>3. CASE RefuseItem(t) \/ PersistItem(t)
    BY <1>2, <2>1, <2>3, LeaveKeeps DEF RefuseItem, PersistItem
  <2> QED
    BY <2>1, <2>2, <2>3 DEF DlqStep
<1>5. ~At(t, "lookup")' /\ (Ending(t)' => local'[t].outcome # "ok")
  <2>1. CASE ReadItem(t) \/ PersistJob(t)
    <3>1. pc'[t] \in {"persistJob", "persistItem"}
      BY <1>2, <2>1, GoToTurn DEF ReadItem, PersistJob
    <3> QED
      BY <3>1 DEF At, Ending, Over, Logging
  <2>2. CASE RefuseItem(t)
    <3>1. local'[t].outcome = "refused" /\ pc'[t] \in {"toolEnd", "over"}
      BY <1>2, <2>2, ReturnTurn DEF RefuseItem
    <3> QED
      BY <3>1 DEF At
  <2>3. CASE PersistItem(t)
    <3>1. pc'[t] = "readLast" /\ local'[t].then \in {"record", "toolEnd"}
      BY <1>2, <2>3, LogTurn DEF PersistItem
    <3> QED
      BY <3>1 DEF At, Ending, Over, Logging
  <2> QED
    BY <2>1, <2>2, <2>3 DEF DlqStep
<1> QED
  BY <1>1, <1>2, <1>3, <1>4, <1>5, AnswerMoves

LEMMA HoldAnswers ==
  ASSUME ReviewInv, AnswerInv, [Next]_vars, NEW t \in Threads, HoldStep(t)
  PROVE  AnswerInv'
<1>1. pc[t] \notin RequeuePlaces \union DiscardPlaces \union CreatePlaces /\ UNCHANGED records
  BY DEF HoldStep, At, RequeuePlaces, DiscardPlaces, CreatePlaces, shared,
     FoundHold, NoHoldYet, Resolve, ApplyLock, RecordHold, SetReleased,
     RefuseRelease, ReleaseLock, LogRelease, BlockedByHold, NotHeld, CheckRetention,
     CheckLock, Unlink, LogCleanup, Put, HoldOfPut, LockPut, Upsert
<1>2. ~Keyed(t)
  BY <1>1, ElsewhereIsForeign DEF AnswerInv, KeyedOf, Keyed, Creates
<1> QED
  BY <1>1, <1>2, UnkeyedAnswers, ComponentTurns

LEMMA CatalogAnswers ==
  ASSUME ReviewInv, AnswerInv, [Next]_vars, NEW t \in Threads, CatalogStep(t)
  PROVE  AnswerInv'
<1>1. /\ pc[t] \notin RequeuePlaces \union DiscardPlaces /\ UNCHANGED records
      /\ ~Item(t) /\ Turns(t)
  <2>1. pc[t] \notin RequeuePlaces \union DiscardPlaces /\ UNCHANGED records
    BY DEF CatalogStep, At, RequeuePlaces, DiscardPlaces, shared,
       FindRow, PersistRow, CreateParse, ReadRow, WriteRow, DeleteRow, RowNotFound
  <2> QED
    BY <2>1, ElsewhereIsForeign, ComponentTurns
<1>2. CASE ~Creates(t)
  BY <1>1, <1>2, UnkeyedAnswers DEF Keyed, Creates
<1>3. CASE Creates(t)
  <2>1. pc[t] \in CreatePlaces
    BY <1>3 DEF AnswerInv, KeyedOf
  <2>2. FindRow(t) \/ PersistRow(t) \/ CreateParse(t)
    BY <2>1 DEF CatalogStep, CreatePlaces, At, ReadRow, WriteRow, DeleteRow, RowNotFound
  <2>3. Shape /\ "ref" \in Fields /\ "author" \in Fields \ {"ref"}
    BY DEF ReviewInv, Fields
  <2>4. /\ pc[t] \in {"findRow", "persistRow", "createParse"}
        /\ pc'[t] \in {"persistRow", "createParse", "record"}
    BY <2>2, <2>3, GoToTurn DEF FindRow, PersistRow, CreateParse, At
  <2>5. local'[t].author = local[t].author
    BY <2>2, <2>3, SetTurn DEF FindRow, PersistRow, CreateParse
  <2>6. ~Waiting(t) /\ ~At(t, "lookup")' /\ pc'[t] \in CreatePlaces /\ ~Ending(t) /\ ~Ending(t)'
    BY <2>4 DEF Waiting, At, CreatePlaces, Ending, Over, Logging
  <2> QED
    BY <1>1, <2>5, <2>6, AnswerMoves
<1> QED
  BY <1>2, <1>3

LEMMA BeginAnswers ==
  ASSUME ReviewInv, AnswerInv, [Next]_vars, NEW t \in Threads, NEW r \in traffic, Begin(t, r)
  PROVE  AnswerInv'
<1>1. /\ UNCHANGED records /\ At(t, "idle") /\ req'[t] = r
      /\ \A u \in Threads \ {t} : pc'[u] = pc[u] /\ local'[u] = local[u] /\ req'[u] = req[u]
  BY BeginFacts
<1>2. RecordsKnown'
  <2> SUFFICES ASSUME NEW k \in DOMAIN records
               PROVE  \E s \in Threads : /\ records[k] = s /\ ~Waiting(s)' /\ RecordKey(s)' = k
    BY <1>1 DEF RecordsKnown, Waiting, At, RecordKey, InPath
  <2>1. PICK s \in Threads : records[k] = s /\ ~Waiting(s) /\ RecordKey(s) = k
    BY DEF AnswerInv, RecordsKnown
  <2>2. s # t
    BY <1>1, <2>1 DEF Waiting
  <2> QED
    BY <1>1, <2>1, <2>2 DEF Waiting, At, RecordKey, InPath
<1>3. KeyedOf(t)'
  <2>1. CASE RefusedUnread(r)
    <3>1. pc'[t] = "over" /\ local'[t].outcome = "refused"
      BY <2>1, BeginFacts
    <3> QED
      BY <3>1 DEF KeyedOf, CreatePlaces, Ending, Over
  <2>2. CASE ~RefusedUnread(r)
    <3>1. pc'[t] = Start(r)
      BY <2>2, BeginFacts
    <3>2. Keyed(t)' => pc'[t] = "lookup"
      BY <1>1, <3>1 DEF Keyed, Item, Doing, Start
    <3> QED
      BY <3>2 DEF KeyedOf, CreatePlaces, Waiting, At, Creates, Keyed
  <2> QED
    BY <2>1, <2>2
<1> QED
  BY <1>1, <1>2, <1>3, OthersAnswer

LEMMA AnswerStep == ReviewInv /\ AnswerInv /\ [Next]_vars => AnswerInv'
<1> SUFFICES ASSUME ReviewInv, AnswerInv, [Next]_vars PROVE AnswerInv'
  OBVIOUS
<1>1. ASSUME NEW t \in Threads, RequestStep(t) PROVE AnswerInv'
  <2>1. CASE \E r \in traffic : Begin(t, r)
    BY <2>1, BeginAnswers
  <2>2. CASE Execute(t) \/ Replay(t) \/ Conflict(t) \/ Record(t)
    BY <2>2, LookUpAnswers, RecordAnswers
  <2>3. CASE ~\E r \in traffic : Begin(t, r)
    <3>1. Turns(t)
      BY <1>1, <2>3, RequestTurns
    <3> QED
      BY <1>1, <2>2, <2>3, <3>1, SharedAnswers DEF RequestStep
  <2> QED
    BY <2>1, <2>3
<1>2. ASSUME NEW t \in Threads, DlqStep(t) \/ HoldStep(t) \/ CatalogStep(t) PROVE AnswerInv'
  BY <1>2, DlqAnswers, HoldAnswers, CatalogAnswers
<1>3. CASE UNCHANGED <<thread, shared>>
  <2>1. UNCHANGED <<req, pc, local, before, records>>
    BY <1>3 DEF thread, shared
  <2>2. /\ RecordsKnown' <=> RecordsKnown
        /\ \A t : /\ Ending(t)' <=> Ending(t)
                  /\ Waiting(t)' <=> Waiting(t)
                  /\ Creates(t)' <=> Creates(t)
                  /\ Keyed(t)' <=> Keyed(t)
    BY <2>1 DEF RecordsKnown, RecordKey, InPath, Ending, Waiting, Logging, Over, At, Creates,
       Keyed, Item, Doing
  <2>3. \A t : /\ Unanswered(t)' <=> Unanswered(t)
               /\ AuthorOf(t)' <=> AuthorOf(t)
    BY <2>1, <2>2 DEF AuthorOf, Unanswered, Succeeded, Over, At, RecordKey, InPath, Fingerprint
  <2> QED
    BY <2>1, <2>2, <2>3 DEF AnswerInv, KeyedOf
<1> QED
  BY <1>1, <1>2, <1>3 DEF Next, RetentionEnds, vars

LEMMA AnswerInit == Init => AnswerInv
<1> SUFFICES ASSUME Init PROVE AnswerInv
  OBVIOUS
<1>1. req = [t \in Threads |-> None] /\ DOMAIN records = {} /\ pc = [t \in Threads |-> "idle"]
  BY DEF Init, RequestsInit
<1> QED
  BY <1>1 DEF AnswerInv, RecordsKnown, KeyedOf, Creates, Keyed, Item, Doing

\* A key that has been answered with success is not executed again, whatever
\* is retried, raises or overlaps: run_idempotent gives a later request with
\* that key the recorded answer of its own payload, or a conflict.
THEOREM KeysAnswerOnce == Spec => []AnsweredOnce
<1>1. ASSUME ReviewInv, AnswerInv PROVE AnsweredOnce
  <2> SUFFICES ASSUME NEW t \in Threads, Succeeded(t), IsKeyed(t)
               PROVE  /\ RecordKey(local[t].author) = RecordKey(t)
                      /\ Fingerprint(local[t].author) = Fingerprint(t)
                      /\ \A u \in before[t] :
                            (Succeeded(u) /\ IsKeyed(u) /\ RecordKey(u) = RecordKey(t)) =>
                                local[t].author # t
    BY DEF AnsweredOnce
  <2>1. ASSUME NEW u \in Threads, Over(u), IsKeyed(u) PROVE Keyed(u)
    BY <1>1, <2>1 DEF ReviewInv, ThreadInv, Apart, Over, At, IsKeyed, Keyed, Item, Doing
  <2>2. AuthorOf(t)
    BY <1>1, <2>1 DEF AnswerInv, KeyedOf, Ending, Waiting, At, Over, Succeeded
  <2>3. \A u \in before[t] : u \in Threads /\ Over(u)
    BY <1>1 DEF ReviewInv, ThreadInv, BeforeOf
  <2> QED
    BY <2>1, <2>2, <2>3 DEF AuthorOf, Unanswered
<1> QED
  BY <1>1, ReviewInit, ReviewStep, AnswerInit, AnswerStep, PTL DEF Spec

-----------------------------------------------------------------------------
(* Where a request may go, by the part that serves it.                       *)

Served == {"over", "lookup", "tool", "put", "findHold", "readRow", "deleteRow", "readLast",
           "append", "record", "toolEnd", "readItem", "setReleased", "findRow"}
Reviewed == {"persistJob", "persistItem", "readLast", "toolEnd", "over"}
Listed == {"persistRow", "createParse", "record", "writeRow", "readLast", "toolEnd", "over"}

LEMMA BeginPlaces ==
  ASSUME ReviewInv, NEW t \in Threads, NEW r \in traffic, Begin(t, r)
  PROVE  pc'[t] \in {"over", "lookup", "tool", "put", "findHold", "readRow", "deleteRow"}
<1>1. r.kind \in RequestKinds
  BY BeginFacts, RequestsAssumption
<1>2. Start(r) \in {"lookup", "tool", "put", "findHold", "readRow", "deleteRow"}
  BY <1>1 DEF Start, RequestKinds
<1> QED
  BY <1>2, BeginFacts

LEMMA RequestPlaces ==
  ASSUME ReviewInv, NEW t \in Threads, RequestStep(t)
  PROVE  pc'[t] \in Served /\ (pc'[t] = "append" => ReadLast(t))
<1> DEFINE Quiet == Served \ {"append"}
<1>1. Shape /\ Apart(t) /\ Quiet \subseteq Served /\ "append" \notin Quiet /\ "append" \in Served
  BY DEF ReviewInv, ThreadInv, Served
<1>2. CASE \E r \in traffic : Begin(t, r)
  BY <1>2, BeginPlaces DEF Served
<1>3. CASE \E o : Leave(t, o) \/ Return(t, o)
  BY <1>1, <1>3, LeaveTurn, ReturnTurn DEF Served
<1>4. CASE \E p \in Quiet : GoTo(t, p)
  <2>1. pc'[t] \in Quiet
    BY <1>1, <1>4, GoToTurn
  <2> QED
    BY <2>1
<1>5. /\ local[t].then \in Quiet /\ InvokeStep(t) \in Quiet
      /\ At(t, "lookup") => FirstStep(t) \in Quiet
      /\ {"over", "record"} \subseteq Quiet
      /\ (IF IsTool(t) THEN "readLast" ELSE "over") \in Quiet
  BY <1>1 DEF Apart, Nexts, InvokeStep, FirstStep, Keyed, Item, Doing, Served
<1>6. CASE ReadLast(t)
  BY <1>1, <1>6, GoToTurn DEF ReadLast
<1> HIDE DEF Quiet
<1> QED
  BY <1>2, <1>3, <1>4, <1>5, <1>6
     DEF RequestStep, AppendLog, Execute, Replay, Conflict, Record,
         RefuseOpenCircuit, Invoke, ToolReturns, ToolFails, Raise, LoseToolLog

LEMMA DlqPlaces ==
  ASSUME ReviewInv, NEW t \in Threads, DlqStep(t)
  PROVE  pc'[t] \in Reviewed
BY GoToTurn, ReturnTurn, LogTurn
   DEF ReviewInv, DlqStep, ReadItem, RefuseItem, PersistJob, PersistItem, Reviewed

LEMMA CatalogPlaces ==
  ASSUME ReviewInv, NEW t \in Threads, CatalogStep(t)
  PROVE  pc'[t] \in Listed
<1>1. Shape
  BY DEF ReviewInv
<1>2. CASE \E o : Leave(t, o)
  BY <1>1, <1>2, LeaveTurn DEF Listed
<1>3. CASE \E p \in Listed : GoTo(t, p)
  BY <1>1, <1>3, GoToTurn
<1> QED
  BY <1>2, <1>3 DEF CatalogStep, FindRow, PersistRow, CreateParse, ReadRow, WriteRow,
     DeleteRow, RowNotFound, Listed

Held == {"resolve", "applyLock", "recordHold", "logRelease", "releaseLock", "logCleanup",
         "checkRetention", "checkLock", "unlink", "holdOfPut", "lockPut", "upsert",
         "readLast", "toolEnd", "over"}

LEMMA HoldPlaces ==
  ASSUME ReviewInv, NEW t \in Threads, HoldStep(t)
  PROVE  pc'[t] \in Held
<1>1. Shape /\ AfterResolve(t, Resolved(t)) \in Held
  BY DEF ReviewInv, AfterResolve, Held
<1>2. CASE \E o : Leave(t, o) \/ Return(t, o) \/ \E p : Log(t, o, p)
  BY <1>1, <1>2, LeaveTurn, ReturnTurn, LogTurn DEF Held
<1>3. CASE \E p \in Held : GoTo(t, p)
  BY <1>1, <1>3, GoToTurn
<1>4. /\ {"resolve", "recordHold", "checkLock", "unlink", "holdOfPut", "lockPut", "upsert"} \subseteq Held
      /\ \A h : (IF holds[h].uri = None THEN "resolve" ELSE "releaseLock") \in Held
  BY DEF Held
<1>5. CASE \/ FoundHold(t) \/ NoHoldYet(t) \/ Resolve(t) \/ ApplyLock(t) \/ RecordHold(t)
           \/ (\E h \in Threads : SetReleased(t, h)) \/ RefuseRelease(t)
  BY <1>1, <1>2, <1>3, <1>4, <1>5 DEF FoundHold, NoHoldYet, Resolve, ApplyLock, RecordHold,
     SetReleased, RefuseRelease
<1>6. CASE ReleaseLock(t) \/ LogRelease(t) \/ BlockedByHold(t) \/ Unlink(t) \/ LogCleanup(t) \/ Upsert(t)
  BY <1>2, <1>6 DEF ReleaseLock, LogRelease, BlockedByHold, Unlink, LogCleanup, Upsert
<1>7. CASE NotHeld(t) \/ CheckRetention(t) \/ CheckLock(t) \/ Put(t) \/ HoldOfPut(t) \/ LockPut(t)
  BY <1>2, <1>3, <1>4, <1>7 DEF NotHeld, CheckRetention, CheckLock, Put, HoldOfPut, LockPut
<1> QED
  BY <1>5, <1>6, <1>7 DEF HoldStep

-----------------------------------------------------------------------------
(* Holds and files.  What a cleanup found without hold has none, but for the *)
(* holds of requests that had not been answered when it began.               *)

CleanupPlaces == {"findHold", "resolve", "checkRetention", "checkLock", "unlink", "logCleanup",
                  "readLast", "append", "over"}
Clearing == {"checkRetention", "checkLock", "unlink"}
Putting == {"holdOfPut", "lockPut", "upsert"}
Holds(h, tenant, o) == holds[h].status = "active" /\ holds[h].on = o /\ holds[h].tenant = tenant

CleanupOf(t) ==
    /\ Doing(t, "cleanup") => /\ pc[t] \in CleanupPlaces
                              /\ Logging(t) => local[t].then = "over"
    /\ pc[t] \in Clearing => /\ Doing(t, "cleanup") /\ req[t].tenant = Owner[req[t].on]
                             /\ local[t].uri[1] = req[t].on
    /\ (Doing(t, "cleanup") /\ pc[t] \in {"resolve"} \union Clearing) =>
           \A h \in before[t] : ~Holds(h, req[t].tenant, req[t].on)
    /\ pc[t] \in Putting => local[t].uri = PutUri(t)

StorageShape ==
    /\ DOMAIN files = Uris /\ DOMAIN holds = Threads /\ DOMAIN current = Objects
    /\ \A u \in Uris : DOMAIN files[u] = {"exists", "locked", "retained"}
    /\ \A h \in Threads : DOMAIN holds[h] = {"status", "on", "tenant", "uri"}
    /\ \A o \in Objects : current[o][1] = o

HoldInv == StorageShape /\ \A t \in Threads : CleanupOf(t)

\* A lock is all that is set.
LEMMA SetLockFiles ==
  ASSUME StorageShape, NEW uri, NEW b, SetLock(uri, b)
  PROVE  /\ DOMAIN files' = Uris
         /\ \A u \in Uris : /\ DOMAIN files'[u] = {"exists", "locked", "retained"}
                            /\ files'[u].exists = files[u].exists
                            /\ files'[u].retained = files[u].retained
                            /\ u # uri => files'[u] = files[u]
<1>1. PICK v : files' = [files EXCEPT ![uri].locked = v]
  BY DEF SetLock
<1> QED
  BY <1>1 DEF StorageShape

\* Files are unlinked by cleanups only; the uri of a hold changes with a new
\* version, its report and tenant never.
LEMMA StorageMoves ==
  ASSUME HoldInv, NEW t \in Threads, HoldStep(t)
  PROVE  /\ StorageShape'
         /\ \A h \in Threads : \A x, o : Holds(h, x, o)' => Holds(h, x, o) \/ (h = t /\ At(t, "recordHold"))
         /\ \A u \in Uris : (files[u].exists /\ ~files'[u].exists) =>
                               At(t, "unlink") /\ local[t].uri = u
<1> USE DEF HoldInv, StorageShape
<1>1. CASE UNCHANGED storage
  BY <1>1 DEF storage, Holds
<1>2. CASE ApplyLock(t) \/ ReleaseLock(t) \/ LockPut(t)
  <2>1. UNCHANGED <<holds, current>> /\ \E uri, b : SetLock(uri, b)
    BY <1>2 DEF ApplyLock, ReleaseLock, LockPut
  <2> QED
    BY <2>1, SetLockFiles DEF Holds
<1>3. CASE Resolve(t) \/ HoldOfPut(t)
  <2>1. /\ UNCHANGED <<files, current>>
        /\ holds' = holds \/ \E h, v : holds' = [holds EXCEPT ![h].uri = v]
    BY <1>3 DEF Resolve, HoldOfPut
  <2>2. /\ DOMAIN holds' = Threads
        /\ \A h \in Threads : /\ DOMAIN holds'[h] = {"status", "on", "tenant", "uri"}
                              /\ \A x, o : Holds(h, x, o)' => Holds(h, x, o)
    BY <2>1 DEF Holds
  <2> QED
    BY <2>1, <2>2
<1>4. CASE RecordHold(t)
  BY <1>4 DEF RecordHold, Holds
<1>5. CASE \E h \in Threads : SetReleased(t, h)
  <2>1. PICK h \in Threads : holds' = [holds EXCEPT ![h].status = "released"]
    BY <1>5 DEF SetReleased
  <2>2. UNCHANGED <<files, current>>
    BY <1>5 DEF SetReleased
  <2> QED
    BY <2>1, <2>2 DEF Holds
<1>6. CASE Unlink(t)
  BY <1>6 DEF Unlink, Missing, Holds
<1>7. CASE Put(t)
  <2>1. UNCHANGED <<holds, current>>
        /\ (files' = files \/ \E r : files' = [files EXCEPT ![PutUri(t)] = Stored(r)])
    BY <1>7 DEF Put
  <2> QED
    BY <2>1 DEF Stored, Holds
<1>8. CASE Upsert(t)
  <2>1. local[t].uri[1] = req[t].on
    BY <1>8 DEF CleanupOf, Upsert, At, PutUri, Putting
  <2> QED
    BY <1>8, <2>1 DEF Upsert, Holds
<1>9. CASE \/ FoundHold(t) \/ NoHoldYet(t) \/ RefuseRelease(t) \/ LogRelease(t) \/ BlockedByHold(t)
           \/ NotHeld(t) \/ CheckRetention(t) \/ CheckLock(t) \/ LogCleanup(t)
  BY <1>1, <1>9 DEF FoundHold, NoHoldYet, RefuseRelease, LogRelease, BlockedByHold, NotHeld,
     CheckRetention, CheckLock, LogCleanup
<1> QED
  BY <1>2, <1>3, <1>4, <1>5, <1>6, <1>7, <1>8, <1>9 DEF HoldStep

\* Whoever takes no step of its own keeps what it found: new holds are of
\* requests that have not been answered.
LEMMA OthersHold ==
  ASSUME ReviewInv, HoldInv, NEW t \in Threads, ~Over(t), NEW u \in Threads \ {t},
         req'[u] = req[u], before'[u] = before[u], pc'[u] = pc[u], local'[u] = local[u],
         \A h \in Threads : \A x, o : Holds(h, x, o)' => Holds(h, x, o) \/ h = t
  PROVE  CleanupOf(u)'
<1>1. CleanupOf(u) /\ \A h \in before[u] : h \in Threads \ {t}
  BY DEF HoldInv, ReviewInv, ThreadInv, BeforeOf, Over
<1>2. Doing(u, "cleanup")' <=> Doing(u, "cleanup")
  BY DEF Doing
<1>3. ASSUME NEW h \in before[u], ~Holds(h, req[u].tenant, req[u].on)
      PROVE  ~Holds(h, req[u].tenant, req[u].on)'
  <2> PICK x : x = req[u].tenant
    OBVIOUS
  <2> PICK o : o = req[u].on
    OBVIOUS
  <2>1. ~Holds(h, x, o)'
    BY <1>1, <1>3
  <2> QED
    BY <2>1 DEF Holds
<1> QED
  BY <1>1, <1>2, <1>3 DEF CleanupOf, Logging, PutUri, Holds

LEMMA HoldRequests ==
  ASSUME ReviewInv, HoldInv, [Next]_vars, NEW t \in Threads, RequestStep(t), UNCHANGED storage
  PROVE  HoldInv'
<1>1. /\ ~Over(t) /\ pc'[t] \in Served /\ CleanupOf(t)
      /\ \A u \in Threads \ {t} : /\ req'[u] = req[u] /\ before'[u] = before[u]
                                  /\ pc'[u] = pc[u] /\ local'[u] = local[u]
  BY RequestPlaces, BeginFacts, RequestTurns DEF Turns, Turn, HoldInv
<1>2. StorageShape' /\ \A h, x, o : Holds(h, x, o)' => Holds(h, x, o)
  BY DEF HoldInv, StorageShape, storage, Holds
<1>3. ASSUME Doing(t, "cleanup")'
      PROVE  pc'[t] \in CleanupPlaces /\ (Logging(t)' => local'[t].then = "over")
  <2>1. CASE \E r \in traffic : Begin(t, r)
    <3>1. PICK r \in traffic : Begin(t, r)
      BY <2>1
    <3>2. r.kind = "cleanup"
      BY <1>3, <3>1, BeginFacts DEF Doing
    <3>3. pc'[t] = "findHold"
      BY <3>1, <3>2, BeginFacts DEF RefusedUnread, Start
    <3> QED
      BY <3>3 DEF CleanupPlaces, Logging
  <2>2. CASE ~\E r \in traffic : Begin(t, r)
    <3>1. Turns(t) /\ Doing(t, "cleanup") /\ Shape /\ Apart(t) /\ ~IsTool(t) /\ ~Item(t) /\ ~Keyed(t)
      BY <1>3, <2>2, RequestTurns
         DEF Turns, Turn, Doing, ReviewInv, ThreadInv, IsTool, Item, Keyed
    <3>2. pc[t] \in CleanupPlaces /\ (Logging(t) => local[t].then = "over")
      BY <1>1, <3>1 DEF CleanupOf
    <3>3. CASE ReadLast(t) \/ AppendLog(t) \/ LoseToolLog(t)
      <4>1. "last" \in Fields /\ "then" \in Fields \ {"last"}
        BY DEF Fields
      <4>2. local[t].then = "over" /\ local'[t].then = "over"
        BY <3>1, <3>2, <3>3, <4>1, SetTurn DEF ReadLast, AppendLog, LoseToolLog, At, Logging
      <4>3. pc'[t] \in {"append", "over"}
        BY <3>1, <3>3, <4>2, GoToTurn DEF ReadLast, AppendLog, LoseToolLog
      <4> QED
        BY <4>2, <4>3 DEF CleanupPlaces
    <3>4. CASE Raise(t)
      BY <3>1, <3>4, ReturnTurn DEF Raise, CleanupPlaces, Logging
    <3>5. ~At(t, "lookup") /\ ~At(t, "record") /\ ~At(t, "tool") /\ ~At(t, "toolEnd")
      BY <3>2 DEF At, CleanupPlaces
    <3> QED
      BY <2>2, <3>3, <3>4, <3>5 DEF RequestStep, Execute, Replay, Conflict, Record,
         RefuseOpenCircuit, Invoke, ToolReturns, ToolFails
  <2> QED
    BY <2>1, <2>2
<1>4. CleanupOf(t)'
  BY <1>1, <1>3 DEF CleanupOf, Served, Clearing, Putting
<1> QED
  BY <1>1, <1>2, <1>4, OthersHold DEF HoldInv

LEMMA HoldReviews ==
  ASSUME ReviewInv, HoldInv, NEW t \in Threads, DlqStep(t) \/ CatalogStep(t), UNCHANGED storage
  PROVE  HoldInv'
<1>1. /\ ~Over(t) /\ CleanupOf(t) /\ pc'[t] \in Reviewed \union Listed /\ req' = req
      /\ \A u \in Threads \ {t} : /\ req'[u] = req[u] /\ before'[u] = before[u]
                                  /\ pc'[u] = pc[u] /\ local'[u] = local[u]
  BY DlqPlaces, CatalogPlaces, ComponentTurns DEF Turns, Turn, HoldInv
<1>2. StorageShape' /\ \A h, x, o : Holds(h, x, o)' => Holds(h, x, o)
  BY DEF HoldInv, StorageShape, storage, Holds
<1>3. pc[t] \notin CleanupPlaces
  BY DEF CleanupPlaces, At, DlqStep, ReadItem, RefuseItem, PersistJob, PersistItem,
     CatalogStep, FindRow, PersistRow, CreateParse, ReadRow, WriteRow, DeleteRow, RowNotFound
<1>4. ~Doing(t, "cleanup") /\ ~Doing(t, "cleanup")'
  BY <1>1, <1>3 DEF CleanupOf, Doing
<1>5. CleanupOf(t)'
  BY <1>1, <1>4 DEF CleanupOf, Reviewed, Listed, Clearing, Putting
<1> QED
  BY <1>1, <1>2, <1>5, OthersHold DEF HoldInv

\* What a hold step leaves its own thread with.
LEMMA OwnHold ==
  ASSUME ReviewInv, HoldInv, NEW t \in Threads, HoldStep(t)
  PROVE  CleanupOf(t)'
<1>1. /\ Shape /\ StorageShape /\ CleanupOf(t) /\ req' = req /\ before' = before /\ ~At(t, "idle")
      /\ before[t] \subseteq Threads \ {t}
  BY ComponentTurns DEF ReviewInv, ThreadInv, BeforeOf, HoldInv, Turns, Turn
<1>2. /\ Doing(t, "cleanup")' <=> Doing(t, "cleanup")
      /\ PutUri(t)' = PutUri(t)
      /\ "uri" \in Fields /\ "then" \in Fields \ {"uri"}
      /\ Doing(t, "cleanup") => ~IsTool(t)
  BY <1>1 DEF Doing, PutUri, IsTool, Fields
<1>3. \A h \in before[t] : \A x, o : ~Holds(h, x, o) => ~Holds(h, x, o)'
  BY <1>1, StorageMoves
<1>4. ASSUME \A h \in before[t] : ~Holds(h, req[t].tenant, req[t].on)
      PROVE  \A h \in before[t] : ~Holds(h, req[t].tenant, req[t].on)'
  <2> PICK x : x = req[t].tenant
    OBVIOUS
  <2> PICK o : o = req[t].on
    OBVIOUS
  <2>1. \A h \in before[t] : ~Holds(h, x, o)'
    BY <1>3, <1>4
  <2> QED
    BY <1>1, <2>1 DEF Holds
<1> DEFINE Past == \A h \in before[t] : ~Holds(h, req[t].tenant, req[t].on)
<1>5. Past => Past'
  BY <1>1, <1>4
<1>6. CASE \E o : Leave(t, o) \/ Return(t, o) \/ Log(t, o, "over")
                  \/ (~Doing(t, "cleanup") /\ \E p : Log(t, o, p))
  <2>1. pc'[t] \in {"over", "toolEnd", "readLast"} /\ (Doing(t, "cleanup") => pc'[t] # "toolEnd")
    BY <1>1, <1>2, <1>6, LeaveTurn, ReturnTurn, LogTurn
  <2>2. (Doing(t, "cleanup") /\ pc'[t] = "readLast") => local'[t].then = "over"
    BY <1>1, <1>2, <1>6, LeaveTurn, ReturnTurn, LogTurn
  <2> QED
    BY <1>2, <2>1, <2>2 DEF CleanupOf, CleanupPlaces, Clearing, Putting, Logging
<1>7. CASE ~Doing(t, "cleanup") /\ local' = local
           /\ \E p \in {"resolve", "recordHold"} : GoTo(t, p)
  <2>1. pc'[t] \in {"resolve", "recordHold"}
    BY <1>1, <1>7, GoToTurn
  <2> QED
    BY <1>2, <1>7, <2>1 DEF CleanupOf, Clearing, Putting
<1>8. CASE NotHeld(t)
  <2>1. /\ pc'[t] = "resolve" /\ local' = local /\ holds' = holds
        /\ MyHolds(t) = {} /\ Doing(t, "cleanup")
    BY <1>1, <1>8, GoToTurn DEF NotHeld, storage
  <2>2. Past
    BY <1>1, <2>1 DEF MyHolds, ActiveHolds, Holds
  <2> QED
    BY <1>2, <1>5, <2>1, <2>2 DEF CleanupOf, CleanupPlaces, Clearing, Putting, Logging
<1>9. CASE Resolve(t)
  <2>1. /\ pc'[t] = AfterResolve(t, Resolved(t)) /\ local'[t].uri = Resolved(t) /\ At(t, "resolve")
    BY <1>1, <1>2, <1>9, GoToTurn, SetTurn DEF Resolve
  <2>2. CASE Doing(t, "cleanup")
    <3>1. pc'[t] = IF Resolved(t) = None THEN "logCleanup" ELSE "checkRetention"
      BY <2>1, <2>2 DEF AfterResolve, Doing
    <3>2. Past
      BY <1>1, <2>1, <2>2 DEF CleanupOf, At
    <3>3. req[t].on \in Objects
      BY <1>1, <2>2, HeldAssumption DEF Shape, Doing
    <3>4. Resolved(t) # None => /\ req[t].tenant = Owner[req[t].on]
                                /\ local'[t].uri[1] = req[t].on
      BY <1>1, <2>1, <3>3 DEF Resolved, StorageShape
    <3> QED
      BY <1>1, <1>2, <1>5, <2>2, <3>1, <3>2, <3>4
         DEF CleanupOf, CleanupPlaces, Clearing, Putting, Logging
  <2>3. CASE ~Doing(t, "cleanup")
    <3>1. pc'[t] \in {"recordHold", "applyLock", "logRelease", "releaseLock"}
      BY <2>1, <2>3 DEF AfterResolve
    <3> QED
      BY <1>2, <2>3, <3>1 DEF CleanupOf, Clearing, Putting
  <2> QED
    BY <2>2, <2>3
<1>10. CASE (CheckRetention(t) \/ CheckLock(t)) /\ local' = local
            /\ \E p \in {"checkLock", "unlink"} : GoTo(t, p)
  <2>1. pc'[t] \in {"checkLock", "unlink"} /\ pc[t] \in Clearing
    BY <1>1, <1>10, GoToTurn DEF CheckRetention, CheckLock, At, Clearing
  <2>2. /\ Doing(t, "cleanup") /\ req[t].tenant = Owner[req[t].on]
        /\ local'[t].uri[1] = req[t].on /\ Past
    BY <1>1, <1>10, <2>1 DEF CleanupOf
  <2>3. /\ req'[t].tenant = Owner[req'[t].on] /\ local'[t].uri[1] = req'[t].on /\ Past'
        /\ Doing(t, "cleanup")'
    BY <1>1, <1>2, <1>5, <2>2
  <2>4. pc'[t] \in CleanupPlaces /\ pc'[t] \notin Putting /\ ~Logging(t)'
    BY <2>1 DEF CleanupPlaces, Putting, Logging
  <2> QED
    BY <1>1, <2>3, <2>4 DEF CleanupOf
<1>11. CASE Put(t) \/ HoldOfPut(t) \/ LockPut(t)
  <2>1. pc'[t] \in Putting /\ local'[t].uri = PutUri(t)
    <3>1. CASE Put(t)
      <4>1. Set(t, "uri", PutUri(t)) /\ GoTo(t, "holdOfPut")
        BY <3>1 DEF Put
      <4> QED
        BY <1>1, <1>2, <4>1, GoToTurn, SetTurn DEF Putting
    <3>2. CASE HoldOfPut(t) \/ LockPut(t)
      <4>1. pc[t] \in Putting /\ local' = local /\ (GoTo(t, "upsert") \/ GoTo(t, "lockPut"))
        BY <3>2 DEF HoldOfPut, LockPut, At, Putting
      <4>2. local'[t].uri = PutUri(t)
        BY <1>1, <4>1 DEF CleanupOf
      <4> QED
        BY <1>1, <4>1, <4>2, GoToTurn DEF Putting
    <3> QED
      BY <1>11, <3>1, <3>2
  <2>2. ~Doing(t, "cleanup")
    BY <1>1, <1>11 DEF CleanupOf, CleanupPlaces, Put, HoldOfPut, LockPut, At
  <2> QED
    BY <1>2, <2>1, <2>2 DEF CleanupOf, Clearing, Putting
<1>12. CASE \E h \in Threads : SetReleased(t, h)
  <2>1. pc'[t] \in {"resolve", "releaseLock"} /\ ~Doing(t, "cleanup")
    BY <1>1, <1>12, GoToTurn DEF SetReleased, CleanupOf, CleanupPlaces, At
  <2> QED
    BY <1>2, <2>1 DEF CleanupOf, Clearing, Putting
<1>13. (RecordHold(t) \/ ReleaseLock(t) \/ LogRelease(t) \/ ApplyLock(t)) => ~Doing(t, "cleanup")
  BY <1>1 DEF RecordHold, ReleaseLock, LogRelease, ApplyLock, CleanupOf, CleanupPlaces, At
<1>14. NoHoldYet(t) => ~Doing(t, "cleanup")
  BY DEF NoHoldYet, Doing
<1>15. CASE \/ FoundHold(t) \/ RecordHold(t) \/ RefuseRelease(t) \/ ReleaseLock(t) \/ LogRelease(t)
            \/ BlockedByHold(t) \/ Unlink(t) \/ LogCleanup(t) \/ Upsert(t)
  BY <1>6, <1>13, <1>15 DEF FoundHold, RecordHold, RefuseRelease, ReleaseLock, LogRelease,
     BlockedByHold, Unlink, LogCleanup, Upsert
<1>16. CASE NoHoldYet(t) \/ ApplyLock(t)
  BY <1>7, <1>13, <1>14, <1>16 DEF NoHoldYet, ApplyLock
<1>17. CASE CheckRetention(t) \/ CheckLock(t)
  BY <1>6, <1>10, <1>17 DEF CheckRetention, CheckLock
<1> QED
  BY <1>8, <1>9, <1>11, <1>12, <1>15, <1>16, <1>17 DEF HoldStep

LEMMA HoldInvStep == ReviewInv /\ HoldInv /\ [Next]_vars => HoldInv'
<1> SUFFICES ASSUME ReviewInv, HoldInv, [Next]_vars PROVE HoldInv'
  OBVIOUS
<1>1. ASSUME NEW t \in Threads, HoldStep(t) PROVE HoldInv'
  <2>1. /\ ~Over(t) /\ UNCHANGED <<req, before>>
        /\ \A u \in Threads \ {t} : pc'[u] = pc[u] /\ local'[u] = local[u]
    BY <1>1, ComponentTurns DEF Turns, Turn
  <2> QED
    BY <1>1, <2>1, OwnHold, OthersHold, StorageMoves DEF HoldInv
<1>2. ASSUME NEW u \in Uris, RetentionEnds(u) PROVE HoldInv'
  <2>1. UNCHANGED <<req, pc, local, before, holds, current>>
    BY <1>2 DEF RetentionEnds, thread
  <2>2. StorageShape'
    BY <1>2 DEF HoldInv, StorageShape, RetentionEnds
  <2>3. \A t \in Threads : CleanupOf(t)' <=> CleanupOf(t)
    BY <2>1 DEF CleanupOf, Doing, Logging, Holds, PutUri
  <2> QED
    BY <2>2, <2>3 DEF HoldInv
<1>3. CASE UNCHANGED vars
  <2>1. UNCHANGED <<req, pc, local, before, files, holds, current>>
    BY <1>3 DEF vars, thread, storage
  <2>2. StorageShape'
    BY <2>1 DEF HoldInv, StorageShape
  <2>3. \A t \in Threads : CleanupOf(t)' <=> CleanupOf(t)
    BY <2>1 DEF CleanupOf, Doing, Logging, Holds, PutUri
  <2> QED
    BY <2>2, <2>3 DEF HoldInv
<1>4. ASSUME NEW t \in Threads, DlqStep(t) \/ CatalogStep(t), UNCHANGED storage PROVE HoldInv'
  BY <1>4, HoldReviews
<1>5. ASSUME NEW t \in Threads, RequestStep(t), UNCHANGED storage PROVE HoldInv'
  BY <1>5, HoldRequests
<1> QED
  BY <1>1, <1>2, <1>3, <1>4, <1>5 DEF Next

LEMMA HoldInvInit == Init => HoldInv
<1> SUFFICES ASSUME Init PROVE HoldInv
  OBVIOUS
<1>1. /\ pc = [t \in Threads |-> "idle"] /\ req = [t \in Threads |-> None]
      /\ holds = [h \in Threads |-> NoHold] /\ current = [o \in Objects |-> <<o, FirstVersion>>]
      /\ files = [u \in Uris |-> IF u[2] = FirstVersion THEN Stored(Retention) ELSE Missing]
  BY DEF Init, RequestsInit, LegalHoldInit
<1>2. StorageShape
  BY <1>1 DEF StorageShape, NoHold, Stored, Missing
<1> QED
  BY <1>1, <1>2 DEF HoldInv, CleanupOf, Doing, Clearing, Putting

\* Cleanup never deletes a file of an object that was put under hold before
\* the cleanup began, whatever archiving and releases do to the file's lock
\* between its checks (execute_storage_cleanup, delete_object).
THEOREM HeldFilesStay == Spec => HoldProtects
<1>1. ReviewInv /\ HoldInv /\ [Next]_vars =>
        [\A u \in Uris : (files[u].exists /\ ~files'[u].exists) =>
              \A h \in ActiveHolds(Owner[u[1]], u[1]) :
                  \E t \in Threads : /\ At(t, "unlink") /\ local[t].uri = u
                                     /\ h \notin before[t]]_vars
  <2> SUFFICES ASSUME ReviewInv, HoldInv, [Next]_vars,
                      NEW u \in Uris, files[u].exists, ~files'[u].exists,
                      NEW h \in ActiveHolds(Owner[u[1]], u[1])
               PROVE  \E t \in Threads : /\ At(t, "unlink") /\ local[t].uri = u
                                         /\ h \notin before[t]
    OBVIOUS
  <2>1. ~ UNCHANGED storage
    BY DEF storage
  <2>2. ~ \E w \in Uris : RetentionEnds(w)
    <3> SUFFICES ASSUME NEW w \in Uris, RetentionEnds(w) PROVE FALSE
      OBVIOUS
    <3>1. files'[u].exists = files[u].exists
      BY DEF RetentionEnds, HoldInv, StorageShape
    <3> QED
      BY <3>1
  <2>3. PICK t \in Threads : HoldStep(t)
    BY <2>1, <2>2 DEF Next, vars
  <2>4. At(t, "unlink") /\ local[t].uri = u
    BY <2>3, StorageMoves
  <2>5. /\ req[t].tenant = Owner[u[1]] /\ req[t].on = u[1]
        /\ \A w \in before[t] : ~Holds(w, req[t].tenant, req[t].on)
    BY <2>4 DEF HoldInv, CleanupOf, At, Clearing
  <2>6. h \notin before[t]
    BY <2>5 DEF ActiveHolds, Holds
  <2> QED
    BY <2>4, <2>6
<1> QED
  BY <1>1, ReviewInit, ReviewStep, HoldInvInit, HoldInvStep, PTL DEF Spec, HoldProtects

-----------------------------------------------------------------------------
(* The audit log of requests that came one after the other: one of them at   *)
(* most is being served, so what it read last is last when it appends.       *)

OneByOne == \A u, w \in Begun : Ordered(u, w)
Entry == [tenant : {r.tenant : r \in UNION Traffic}, prev : Nat]

ChainInv ==
    /\ audit \in Seq(Entry)
    /\ \A t \in Threads : At(t, "append") => local[t].last \in Nat
    /\ \A i \in 1 .. Len(audit) : \E t \in Begun : audit[i].tenant = req[t].tenant
    /\ OneByOne =>
          /\ \A i \in 1 .. Len(audit) : audit[i].prev = i - 1
          /\ \A t \in Threads : At(t, "append") => local[t].last = Len(audit)

\* Requests never become one by one again.
LEMMA OneByOneWas ==
  ASSUME ReviewInv, [Next]_vars, OneByOne'
  PROVE  OneByOne
<1> SUFFICES ASSUME NEW u \in Begun, NEW w \in Begun PROVE Ordered(u, w)
  BY DEF OneByOne
<1>1. u \in Begun' /\ w \in Begun' /\ before'[u] = before[u] /\ before'[w] = before[w]
  BY ThreadsStay DEF Stays, Begun, At
<1>2. Ordered(u, w)'
  BY <1>1 DEF OneByOne
<1> QED
  BY <1>1, <1>2 DEF Ordered

\* One at a time.
LEMMA OneIsServed ==
  ASSUME ReviewInv, OneByOne, NEW u \in Threads, NEW w \in Threads,
         u \in Begun, w \in Begun, ~Over(u), ~Over(w)
  PROVE  u = w
BY DEF OneByOne, Ordered, ReviewInv, ThreadInv, BeforeOf

\* Whoever has begun has a request that a client sent.
LEMMA BegunKnown ==
  ASSUME ReviewInv, NEW t \in Begun
  PROVE  t \in Threads /\ req[t] \in UNION Traffic
BY DEF Begun, ReviewInv, ThreadInv, Apart, At, Shape

LEMMA ChainAppends ==
  ASSUME ReviewInv, ChainInv, [Next]_vars, NEW t \in Threads, AppendLog(t), Turns(t)
  PROVE  ChainInv'
<1> DEFINE e == [tenant |-> req[t].tenant, prev |-> local[t].last]
<1>1. /\ audit' = Append(audit, e) /\ At(t, "append") /\ req' = req /\ t \in Begun
      /\ \A u \in Threads \ {t} : pc'[u] = pc[u] /\ local'[u] = local[u]
      /\ ~At(t, "append")' /\ ~At(t, "idle")'
  <2>1. At(t, "append") /\ GoTo(t, local[t].then) /\ Shape /\ local[t].then \in Nexts
    BY DEF AppendLog, ReviewInv, ThreadInv, Apart
  <2>2. pc'[t] \in Nexts
    BY <2>1, GoToTurn
  <2> QED
    BY <2>1, <2>2 DEF AppendLog, Turns, Turn, Nexts, At, Begun
<1>2. e \in Entry /\ audit \in Seq(Entry) /\ e.tenant = req[t].tenant /\ e.prev = local[t].last
  BY <1>1, BegunKnown DEF Entry, ChainInv
<1> HIDE DEF e
<1>3. /\ audit' \in Seq(Entry) /\ Len(audit') = Len(audit) + 1 /\ audit'[Len(audit) + 1] = e
      /\ \A i \in 1 .. Len(audit) : audit'[i] = audit[i]
  BY <1>1, <1>2
<1>4. Len(audit) \in Nat
  BY <1>2
<1>5. ASSUME NEW i \in 1 .. Len(audit')
      PROVE  \E u \in Begun' : audit'[i].tenant = req'[u].tenant
  <2>1. CASE i \in 1 .. Len(audit)
    <3>1. PICK u \in Begun : audit[i].tenant = req[u].tenant
      BY <2>1 DEF ChainInv
    <3> QED
      BY <1>1, <1>3, <2>1, <3>1 DEF Begun, At
  <2>2. CASE i \notin 1 .. Len(audit)
    <3>1. i = Len(audit) + 1
      BY <1>3, <1>4, <2>2
    <3> QED
      BY <1>1, <1>2, <1>3, <3>1 DEF Begun, At
  <2> QED
    BY <2>1, <2>2
<1>6. ASSUME OneByOne'
      PROVE  /\ \A i \in 1 .. Len(audit') : audit'[i].prev = i - 1
             /\ \A u \in Threads : ~At(u, "append")'
  <2>1. /\ OneByOne /\ \A i \in 1 .. Len(audit) : audit[i].prev = i - 1
        /\ local[t].last = Len(audit)
    BY <1>1, <1>6, OneByOneWas DEF ChainInv
  <2>2. ASSUME NEW i \in 1 .. Len(audit') PROVE audit'[i].prev = i - 1
    <3>1. CASE i \in 1 .. Len(audit)
      BY <1>3, <2>1, <3>1
    <3>2. CASE i \notin 1 .. Len(audit)
      <4>1. i = Len(audit) + 1
        BY <1>3, <1>4, <3>2
      <4> QED
        BY <1>2, <1>3, <1>4, <2>1, <4>1
    <3> QED
      BY <3>1, <3>2
  <2>3. ASSUME NEW u \in Threads, At(u, "append")' PROVE FALSE
    <3>1. u # t /\ At(u, "append")
      BY <1>1, <2>3 DEF At
    <3>2. u = t
      BY <1>1, <2>1, <3>1, OneIsServed DEF Begun, At, Over
    <3> QED
      BY <3>1, <3>2
  <2> QED
    BY <2>2, <2>3
<1>7. \A u \in Threads : At(u, "append")' => local'[u].last \in Nat
  BY <1>1 DEF ChainInv, At
<1> QED
  BY <1>3, <1>5, <1>6, <1>7 DEF ChainInv, At

\* Every other step leaves the log alone; whoever comes to append has just
\* read where the log ends.
LEMMA ChainWaits ==
  ASSUME ReviewInv, ChainInv, [Next]_vars, UNCHANGED audit,
         \A u \in Threads : At(u, "append")' =>
             \/ At(u, "append") /\ local'[u].last = local[u].last
             \/ local'[u].last = Len(audit)
  PROVE  ChainInv'
<1>1. \A u \in Begun : u \in Begun' /\ req'[u] = req[u]
  BY ThreadsStay DEF Stays, Begun, At
<1>2. Len(audit) \in Nat
  BY DEF ChainInv
<1>3. \A u \in Threads : At(u, "append")' => local'[u].last \in Nat
  BY <1>2 DEF ChainInv
<1>4. \A i \in 1 .. Len(audit) : \E t \in Begun' : audit[i].tenant = req'[t].tenant
  BY <1>1 DEF ChainInv
<1>5. OneByOne' => /\ \A i \in 1 .. Len(audit) : audit[i].prev = i - 1
                   /\ \A u \in Threads : At(u, "append")' => local'[u].last = Len(audit)
  BY OneByOneWas DEF ChainInv
<1> QED
  BY <1>3, <1>4, <1>5 DEF ChainInv, At

LEMMA ChainStep == ReviewInv /\ ChainInv /\ [Next]_vars => ChainInv'
<1> SUFFICES ASSUME ReviewInv, ChainInv, [Next]_vars PROVE ChainInv'
  OBVIOUS
<1>1. ASSUME NEW t \in Threads, DlqStep(t) \/ HoldStep(t) \/ CatalogStep(t) PROVE ChainInv'
  <2>1. pc'[t] \in Reviewed \union Listed \union Held
    BY <1>1, DlqPlaces, HoldPlaces, CatalogPlaces
  <2>2. ~At(t, "append")'
    BY <2>1 DEF At, Reviewed, Listed, Held
  <2>3. audit' = audit
    BY <1>1 DEF DlqStep, ReadItem, RefuseItem, PersistJob, PersistItem,
       CatalogStep, FindRow, PersistRow, CreateParse, ReadRow, WriteRow, DeleteRow, RowNotFound,
       HoldStep, FoundHold, NoHoldYet, Resolve, ApplyLock, RecordHold, SetReleased,
       RefuseRelease, ReleaseLock, LogRelease, BlockedByHold, NotHeld, CheckRetention,
       CheckLock, Unlink, LogCleanup, Put, HoldOfPut, LockPut, Upsert, shared
  <2>4. \A u \in Threads \ {t} : pc'[u] = pc[u] /\ local'[u] = local[u]
    BY <1>1, ComponentTurns DEF Turns, Turn
  <2> QED
    BY <2>2, <2>3, <2>4, ChainWaits DEF At
<1>2. ASSUME NEW t \in Threads, RequestStep(t) PROVE ChainInv'
  <2>1. CASE AppendLog(t)
    <3>1. ~\E r \in traffic : Begin(t, r)
      BY <2>1 DEF Begin, AppendLog, At
    <3> QED
      BY <1>2, <2>1, <3>1, RequestTurns, ChainAppends
  <2>2. CASE ~AppendLog(t)
    <3>1. audit' = audit
      BY <1>2, <2>2 DEF RequestStep, Begin, ReadLast, Execute, Replay, Conflict, Record,
         RefuseOpenCircuit, Invoke, ToolReturns, ToolFails, Raise, LoseToolLog, shared
    <3>2. \A u \in Threads \ {t} : pc'[u] = pc[u] /\ local'[u] = local[u]
      BY <1>2, BeginFacts, RequestTurns DEF Turns, Turn
    <3>3. At(t, "append")' => local'[t].last = Len(audit)
      <4>1. "last" \in Fields /\ Shape
        BY DEF Fields, ReviewInv
      <4> QED
        BY <1>2, <4>1, RequestPlaces, SetTurn DEF At, ReadLast
    <3> QED
      BY <3>1, <3>2, <3>3, ChainWaits DEF At
  <2> QED
    BY <2>1, <2>2
<1>3. CASE UNCHANGED <<thread, shared>>
  <2>1. UNCHANGED <<pc, local, audit>>
    BY <1>3 DEF thread, shared
  <2> QED
    BY <2>1, ChainWaits DEF At
<1> QED
  BY <1>1, <1>2, <1>3 DEF Next, RetentionEnds, vars

LEMMA ChainInit == Init => ChainInv
BY DEF Init, RequestsInit, ChainInv, At

\* The integrity check of an untouched log fails only when requests overlapped
\* or when another tenant's requests are in the same log: _append_audit_log
\* reads the last hash and appends after it, verify_audit_integrity follows the
\* entries of one tenant.
THEOREM OrderedLogVerifies == Spec => []ChainVerifies
<1>1. ASSUME ReviewInv, ChainInv PROVE ChainVerifies
  <2> SUFFICES ASSUME NEW t \in Begun, OneByOne, \A u \in Begun : req[u].tenant = req[t].tenant
               PROVE  Verifies(req[t].tenant)
    BY DEF ChainVerifies, OneByOne
  <2> DEFINE tenant == req[t].tenant
  <2>1. Positions(tenant) = 1 .. Len(audit) /\ Len(audit) \in Nat
    BY <1>1 DEF ChainInv, Positions
  <2> SUFFICES ASSUME NEW i \in 1 .. Len(audit)
               PROVE  audit[i].prev =
                        (IF \E j \in 1 .. Len(audit) : j < i
                         THEN CHOOSE j \in 1 .. Len(audit) :
                                 j < i /\ \A k \in 1 .. Len(audit) : k < i => k <= j
                         ELSE 0)
    BY <2>1 DEF Verifies
  <2>2. audit[i].prev = i - 1
    BY <1>1 DEF ChainInv
  <2>3. CASE i = 1
    <3>1. ~\E j \in 1 .. Len(audit) : j < i
      BY <2>1, <2>3
    <3> QED
      BY <2>2, <2>3, <3>1
  <2>4. CASE i # 1
    <3> DEFINE Before(j) == j < i /\ \A k \in 1 .. Len(audit) : k < i => k <= j
    <3>1. i - 1 \in 1 .. Len(audit) /\ Before(i - 1)
      BY <2>1, <2>4
    <3>2. \A j \in 1 .. Len(audit) : Before(j) => j = i - 1
      BY <2>1, <2>4, <3>1
    <3>3. (CHOOSE j \in 1 .. Len(audit) : Before(j)) = i - 1
      BY <3>1, <3>2
    <3> QED
      BY <2>2, <3>1, <3>3
  <2> QED
    BY <2>3, <2>4
<1> QED
  BY <1>1, ReviewInit, ReviewStep, ChainInit, ChainStep, PTL DEF Spec

-----------------------------------------------------------------------------
(* Rows and their codes.  A row that is there although it was deleted was    *)
(* written back from a copy; whoever makes a row found no other of its code. *)

Unmade == {"idle", "lookup", "findRow", "persistRow", "readRow", "deleteRow"}
Updates(u, i) == Doing(u, "update") /\ local[u].ref = i
Deletes(d, i) == Doing(d, "delete") /\ local[d].ref = i
Copied(i) == \E u, d \in Threads : Updates(u, i) /\ Deletes(d, i) /\ ~Ordered(u, d)
Made(i) == Creates(i) /\ local[i].ref = i /\ pc[i] \in {"createParse", "record", "over"}

\* A row that was updated or deleted was made.
OnlyMade ==
    \A i \in Threads :
        (Exists(i) \/ \E u \in Threads : Updates(u, i) \/ Deletes(u, i)) => Made(i)

\* A row that is absent although a copy of it is about to be written back was
\* deleted meanwhile; one that is there although it was deleted was copied.
AbsentWasDeleted ==
    \A u, i \in Threads : (At(u, "writeRow") /\ Updates(u, i) /\ ~Exists(i)) =>
        \E d \in Threads : Deletes(d, i) /\ ~Ordered(u, d)
DeletedIsCopied ==
    \A i, d \in Threads : (Exists(i) /\ Deletes(d, i)) => Copied(i)

RowPlaces(t) ==
    /\ pc[t] \in {"findRow", "persistRow"} => Creates(t)
    /\ At(t, "readRow") => Doing(t, "update")
    /\ At(t, "writeRow") => Doing(t, "update")
    /\ At(t, "deleteRow") => Doing(t, "delete")
    /\ Doing(t, "delete") => pc[t] \in {"deleteRow", "over"}
    /\ Doing(t, "update") => pc[t] \in {"readRow", "writeRow", "over"}
    /\ pc[t] \in Unmade => local[t].ref = None

CodeTaken ==
    \A j \in Threads : \A i \in before[j] :
        (i # j /\ (At(j, "persistRow") \/ Made(j)) /\ SameCode(i, j) /\ Exists(i)) => Copied(i)

RowInv ==
    /\ DOMAIN rows = Threads
    /\ OnlyMade /\ AbsentWasDeleted /\ DeletedIsCopied /\ CodeTaken
    /\ \A t \in Threads : RowPlaces(t)

\* Where a request goes on that has begun, and what its steps leave alone.
LEMMA RequestGoesOn ==
  ASSUME ReviewInv, NEW t \in Threads, RequestStep(t), ~\E r \in traffic : Begin(t, r)
  PROVE  /\ pc'[t] \in {"over", "readLast", "append", "record", "toolEnd", "readItem",
                        "setReleased", "tool", "findRow"}
         /\ pc'[t] = "findRow" => At(t, "lookup") /\ Creates(t)
         /\ local'[t].ref = local[t].ref
<1> DEFINE Places == {"over", "readLast", "append", "record", "toolEnd", "readItem",
                      "setReleased", "tool"}
<1>1. /\ Shape /\ Apart(t) /\ "ref" \in Fields \ {"then", "outcome"}
      /\ "last" \in Fields \ {"ref"} /\ "attempt" \in Fields \ {"ref"}
  BY DEF ReviewInv, ThreadInv, Fields
<1>2. CASE \E o : Leave(t, o) \/ Return(t, o)
  <2>1. local'[t].ref = local[t].ref
    BY <1>1, <1>2, LeaveKeeps
  <2> QED
    BY <1>1, <1>2, <2>1, LeaveTurn, ReturnTurn
<1>3. CASE (\E p \in Places : GoTo(t, p))
           /\ (local' = local \/ \E f \in {"last", "attempt"} : \E v : Set(t, f, v))
  <2>1. pc'[t] \in Places
    BY <1>1, <1>3, GoToTurn
  <2>2. local'[t].ref = local[t].ref
    BY <1>1, <1>3, SetTurn
  <2> QED
    BY <2>1, <2>2
<1>4. CASE Execute(t)
  <2>1. pc'[t] = FirstStep(t) /\ local' = local /\ At(t, "lookup") /\ Keyed(t)
    BY <1>1, <1>4, GoToTurn DEF Execute, Apart
  <2> QED
    BY <2>1 DEF FirstStep, Keyed, Item, Doing, Creates
<1>5. CASE Replay(t) \/ Record(t)
  <2>1. PICK a : local' = [local EXCEPT ![t] =
                    [local[t] EXCEPT !.author = a, !.outcome = "ok", !.then = "over"]]
    BY <1>5 DEF Replay, Record
  <2>2. pc'[t] \in Places
    BY <1>1, <1>5, GoToTurn DEF Replay, Record
  <2>3. local'[t].ref = local[t].ref
    BY <1>1, <2>1 DEF Shape
  <2> QED
    BY <2>2, <2>3
<1>6. local[t].then \in Places /\ InvokeStep(t) \in Places
      /\ {"append", "over", "record"} \subseteq Places
  BY <1>1 DEF Apart, Nexts, InvokeStep
<1> HIDE DEF Places
<1>7. CASE ReadLast(t) \/ AppendLog(t) \/ LoseToolLog(t) \/ Invoke(t)
  BY <1>3, <1>6, <1>7 DEF ReadLast, AppendLog, LoseToolLog, Invoke
<1>8. CASE Conflict(t) \/ RefuseOpenCircuit(t) \/ ToolReturns(t) \/ ToolFails(t) \/ Raise(t)
  BY <1>2, <1>3, <1>6, <1>8 DEF Conflict, RefuseOpenCircuit, ToolReturns, ToolFails, Raise
<1> QED
  BY <1>4, <1>5, <1>7, <1>8 DEF RequestStep

\* Whose row a request refers to changes when it arrives, finds, makes, reads or
\* deletes a row, or names a hold.
LEMMA RefMoves ==
  ASSUME ReviewInv, [Next]_vars, NEW u \in Threads
  PROVE  \/ /\ req'[u] = req[u] /\ before'[u] = before[u] /\ local'[u].ref = local[u].ref
            /\ At(u, "idle")' <=> At(u, "idle")
         \/ \E r \in traffic : Begin(u, r)
         \/ FindRow(u) \/ PersistRow(u)
         \/ \E i \in Threads : ReadRow(u, i) \/ DeleteRow(u, i) \/ SetReleased(u, i)
<1> DEFINE Quiet == /\ req'[u] = req[u] /\ before'[u] = before[u] /\ local'[u].ref = local[u].ref
                    /\ At(u, "idle")' <=> At(u, "idle")
<1>1. Shape /\ "ref" \in Fields \ {"then", "outcome"} /\ "uri" \in Fields \ {"ref"}
  BY DEF ReviewInv, Fields
<1>2. ASSUME NEW t \in Threads, Turns(t), u # t PROVE Quiet
  BY <1>2 DEF Turns, Turn, At
<1>3. ASSUME Turns(u), local'[u].ref = local[u].ref PROVE Quiet
  BY <1>3 DEF Turns, Turn
<1>4. ASSUME NEW t \in Threads, RequestStep(t), ~\E r \in traffic : Begin(t, r) PROVE Quiet
  BY <1>2, <1>3, <1>4, RequestTurns, RequestGoesOn
<1>5. ASSUME NEW t \in Threads, NEW r \in traffic, Begin(t, r), u # t PROVE Quiet
  BY <1>5, BeginFacts DEF At
<1>6. ASSUME NEW t \in Threads, DlqStep(t) PROVE Quiet
  <2>1. local'[t].ref = local[t].ref
    BY <1>1, <1>6, LeaveKeeps DEF DlqStep, ReadItem, RefuseItem, PersistJob, PersistItem
  <2> QED
    BY <1>2, <1>3, <1>6, <2>1, ComponentTurns
<1>7. ASSUME NEW t \in Threads, CatalogStep(t), u # t PROVE Quiet
  BY <1>2, <1>7, ComponentTurns
<1>8. ASSUME CreateParse(u) \/ WriteRow(u) \/ \E i \in Threads : RowNotFound(u, i) PROVE Quiet
  <2>1. local'[u].ref = local[u].ref
    BY <1>1, <1>8, LeaveKeeps DEF CreateParse, WriteRow, RowNotFound
  <2> QED
    BY <1>3, <1>8, <2>1, ComponentTurns DEF CatalogStep
<1>9. ASSUME NEW t \in Threads, HoldStep(t), u # t PROVE Quiet
  BY <1>2, <1>9, ComponentTurns
<1>10. ASSUME HoldStep(u), ~\E h \in Threads : SetReleased(u, h) PROVE Quiet
  <2>1. CASE \E o : Leave(u, o) \/ Return(u, o) \/ \E p : Log(u, o, p)
    BY <1>1, <1>3, <1>10, <2>1, LeaveKeeps, ComponentTurns
  <2>2. CASE local' = local \/ \E v : Set(u, "uri", v)
    <3>1. local'[u].ref = local[u].ref
      BY <1>1, <2>2, SetTurn
    <3> QED
      BY <1>3, <1>10, <3>1, ComponentTurns
  <2>3. CASE FoundHold(u) \/ NoHoldYet(u) \/ Resolve(u) \/ ApplyLock(u) \/ RecordHold(u) \/ RefuseRelease(u)
    BY <2>1, <2>2, <2>3 DEF FoundHold, NoHoldYet, Resolve, ApplyLock, RecordHold, RefuseRelease
  <2>4. CASE ReleaseLock(u) \/ LogRelease(u) \/ BlockedByHold(u) \/ NotHeld(u) \/ CheckRetention(u) \/ CheckLock(u)
    BY <2>1, <2>2, <2>4 DEF ReleaseLock, LogRelease, BlockedByHold, NotHeld, CheckRetention, CheckLock
  <2>5. CASE Unlink(u) \/ LogCleanup(u) \/ Put(u) \/ HoldOfPut(u) \/ LockPut(u) \/ Upsert(u)
    BY <2>1, <2>2, <2>5 DEF Unlink, LogCleanup, Put, HoldOfPut, LockPut, Upsert
  <2> QED
    BY <1>10, <2>3, <2>4, <2>5 DEF HoldStep
<1>11. ASSUME UNCHANGED thread PROVE Quiet
  BY <1>11 DEF thread, At
<1> HIDE DEF Quiet
<1>12. Quiet \/ \/ \E r \in traffic : Begin(u, r)
                \/ FindRow(u) \/ PersistRow(u)
                \/ \E i \in Threads : ReadRow(u, i) \/ DeleteRow(u, i) \/ SetReleased(u, i)
  BY <1>4, <1>5, <1>6, <1>7, <1>8, <1>9, <1>10, <1>11
     DEF Next, vars, RetentionEnds, CatalogStep
<1> QED
  BY <1>12 DEF Quiet

\* A request whose own row, or whose copy, is settled keeps it.
LEMMA RefStays ==
  ASSUME ReviewInv, AnswerInv, RowInv, [Next]_vars, NEW u \in Threads, local[u].ref \in Threads,
         Creates(u) \/ Doing(u, "update") \/ Doing(u, "delete")
  PROVE  /\ req'[u] = req[u] /\ before'[u] = before[u] /\ local'[u].ref = local[u].ref
         /\ ~At(u, "idle") /\ ~At(u, "idle")'
<1>1. pc[u] \notin Unmade
  BY RequestsAssumption DEF RowInv, RowPlaces
<1>2. ~At(u, "setReleased")
  BY DEF AnswerInv, KeyedOf, CreatePlaces, RowInv, RowPlaces, At
<1>3. /\ ~\E r \in traffic : Begin(u, r)
      /\ ~FindRow(u) /\ ~PersistRow(u)
      /\ ~\E i \in Threads : ReadRow(u, i) \/ DeleteRow(u, i) \/ SetReleased(u, i)
  BY <1>1, <1>2 DEF Unmade, At, Begin, FindRow, PersistRow, ReadRow, DeleteRow, SetReleased
<1>4. ~At(u, "idle")
  BY <1>1 DEF At, Unmade
<1> QED
  BY <1>3, <1>4, RefMoves

\* One request takes a step: what it does to its own place among the rows.
LEMMA RowPlacesStep ==
  ASSUME ReviewInv, AnswerInv, RowInv, [Next]_vars, NEW t \in Threads
  PROVE  RowPlaces(t)'
<1>1. Shape /\ RowPlaces(t) /\ Apart(t)
      /\ (Creates(t) => pc[t] \in CreatePlaces)
  BY DEF ReviewInv, ThreadInv, RowInv, AnswerInv, KeyedOf
<1>2. ASSUME NEW r \in traffic, Begin(t, r) PROVE RowPlaces(t)'
  <2>1. /\ req'[t] = r /\ r # None /\ local'[t].ref = None
        /\ IF RefusedUnread(r) THEN pc'[t] = "over" ELSE pc'[t] = Start(r)
    <3>1. "ref" \in Fields \ {"outcome"}
      BY DEF Fields
    <3> QED
      BY <1>1, <1>2, <3>1, BeginFacts DEF RowPlaces, At, Unmade
  <2>2. r.kind \in RequestKinds
    BY <1>2, BeginFacts, RequestsAssumption
  <2>3. /\ pc'[t] = "readRow" => r.kind = "update"
        /\ pc'[t] = "deleteRow" => r.kind = "delete"
        /\ r.kind = "delete" => pc'[t] = "deleteRow"
        /\ r.kind = "update" => pc'[t] = "readRow"
        /\ pc'[t] \notin {"findRow", "persistRow", "writeRow"}
    BY <2>1, <2>2 DEF RefusedUnread, Start, RequestKinds
  <2> QED
    BY <2>1, <2>3 DEF RowPlaces, At, Doing
<1>3. ASSUME Turns(t), pc'[t] \notin Unmade \union {"writeRow"},
             Doing(t, "update") \/ Doing(t, "delete") => pc'[t] = "over"
      PROVE  RowPlaces(t)'
  <2>1. \A k : Doing(t, k)' <=> Doing(t, k)
    BY <1>3 DEF Turns, Turn, Doing
  <2> QED
    BY <1>3, <2>1 DEF RowPlaces, At, Unmade
<1>4. CASE RequestStep(t) /\ ~\E r \in traffic : Begin(t, r)
  <2>1. Turns(t)
    BY <1>4, RequestTurns
  <2>2. CASE pc'[t] = "findRow"
    <3>1. At(t, "lookup") /\ Creates(t) /\ local'[t].ref = None
      BY <1>1, <1>4, <2>2, RequestGoesOn DEF RowPlaces, At, Unmade
    <3>2. Creates(t)' /\ ~Doing(t, "update")' /\ ~Doing(t, "delete")'
      BY <2>1, <3>1 DEF Creates, Doing, Turns, Turn
    <3> QED
      BY <2>2, <3>1, <3>2 DEF RowPlaces, At
  <2>3. CASE pc'[t] # "findRow"
    <3>1. pc'[t] \notin Unmade \union {"writeRow"}
      BY <1>4, <2>3, RequestGoesOn DEF Unmade
    <3>2. ASSUME Doing(t, "update") \/ Doing(t, "delete") PROVE pc'[t] = "over"
      <4>1. pc[t] \in {"readRow", "writeRow", "deleteRow", "over"} /\ ~IsTool(t)
        BY <1>1, <3>2 DEF RowPlaces, IsTool, Doing
      <4>2. Raise(t)
        BY <1>4, <2>1, <4>1 DEF RequestStep, ReadLast, AppendLog, Execute, Replay, Conflict, Record,
           RefuseOpenCircuit, Invoke, ToolReturns, ToolFails, LoseToolLog, At
      <4> QED
        BY <1>1, <4>1, <4>2, ReturnTurn DEF Raise
    <3> QED
      BY <1>3, <2>1, <3>1, <3>2
  <2> QED
    BY <2>2, <2>3
<1>5. CASE DlqStep(t) \/ HoldStep(t)
  <2>1. pc'[t] \notin Unmade \union {"writeRow"}
    BY <1>5, DlqPlaces, HoldPlaces DEF Unmade, Reviewed, Held
  <2>2. pc[t] \notin {"readRow", "writeRow", "deleteRow", "over"}
    BY <1>5 DEF DlqStep, ReadItem, RefuseItem, PersistJob, PersistItem, At,
       HoldStep, FoundHold, NoHoldYet, Resolve, ApplyLock, RecordHold, SetReleased,
       RefuseRelease, ReleaseLock, LogRelease, BlockedByHold, NotHeld, CheckRetention,
       CheckLock, Unlink, LogCleanup, Put, HoldOfPut, LockPut, Upsert
  <2> QED
    BY <1>1, <1>3, <1>5, <2>1, <2>2, ComponentTurns DEF RowPlaces
<1>6. CASE CatalogStep(t)
  <2>1. Turns(t) /\ \A k : Doing(t, k)' <=> Doing(t, k)
    BY <1>6, ComponentTurns DEF Turns, Turn, Doing
  <2>2. CASE \E i \in Threads : ReadRow(t, i)
    <3>1. pc'[t] = "writeRow" /\ At(t, "readRow")
      BY <1>1, <2>2, GoToTurn DEF ReadRow
    <3> QED
      BY <1>1, <2>1, <3>1 DEF RowPlaces, At, Unmade, Doing
  <2>3. CASE FindRow(t) /\ pc'[t] = "persistRow"
    <3>1. local'[t].ref = None /\ Creates(t)
      BY <1>1, <2>3, GoToTurn DEF FindRow, RowPlaces, At, Unmade
    <3>2. Creates(t)' /\ ~Doing(t, "update")' /\ ~Doing(t, "delete")'
      BY <2>1, <3>1 DEF Creates, Doing
    <3> QED
      BY <2>3, <3>1, <3>2 DEF RowPlaces, At
  <2>4. CASE (FindRow(t) /\ pc'[t] # "persistRow") \/ PersistRow(t) \/ CreateParse(t)
    <3>1. pc'[t] \in {"record", "createParse"}
      BY <1>1, <2>4, GoToTurn DEF FindRow, PersistRow, CreateParse
    <3>2. ~Doing(t, "update") /\ ~Doing(t, "delete")
      BY <1>1, <2>4 DEF FindRow, PersistRow, CreateParse, RowPlaces, At
    <3> QED
      BY <1>3, <2>1, <3>1, <3>2 DEF Unmade
  <2>5. CASE WriteRow(t) \/ \E i \in Threads : DeleteRow(t, i) \/ RowNotFound(t, i)
    <3>1. Doing(t, "update") \/ Doing(t, "delete")
      BY <1>1, <2>5 DEF WriteRow, DeleteRow, RowNotFound, RowPlaces, At
    <3>2. ~IsTool(t)
      BY <3>1 DEF IsTool, Doing
    <3>3. pc'[t] = "over"
      BY <1>1, <2>5, <3>2, LeaveTurn, GoToTurn DEF WriteRow, DeleteRow, RowNotFound
    <3> QED
      BY <1>3, <2>1, <3>3 DEF Unmade
  <2> QED
    BY <1>6, <2>2, <2>3, <2>4, <2>5 DEF CatalogStep
<1>7. CASE UNCHANGED <<req[t], pc[t], local[t]>>
  BY <1>1, <1>7 DEF RowPlaces, At, Doing, Creates
<1>8. ASSUME NEW u \in Threads \ {t},
             RequestStep(u) \/ DlqStep(u) \/ HoldStep(u) \/ CatalogStep(u)
      PROVE  UNCHANGED <<req[t], pc[t], local[t]>>
  BY <1>8, BeginFacts, RequestTurns, ComponentTurns DEF Turns, Turn
<1>9. CASE UNCHANGED thread
  BY <1>7, <1>9 DEF thread
<1> QED
  BY <1>2, <1>4, <1>5, <1>6, <1>7, <1>8, <1>9 DEF Next, vars, RetentionEnds


\* A row appears when it is made or written back and disappears when deleted.
LEMMA RowsMove ==
  ASSUME ReviewInv, RowInv, [Next]_vars, NEW i \in Threads
  PROVE  /\ DOMAIN rows' = Threads
         /\ (~Exists(i) /\ Exists(i)') =>
               PersistRow(i) \/ \E u \in Threads : At(u, "writeRow") /\ Updates(u, i)
         /\ (Exists(i) /\ ~Exists(i)') => \E d \in Threads : DeleteRow(d, i)
<1> USE DEF Exists
<1>1. CASE UNCHANGED rows
  BY <1>1 DEF RowInv
<1>2. ASSUME NEW t \in Threads, PersistRow(t)
      PROVE  DOMAIN rows' = Threads /\ rows'[t] # None /\ \A k \in Threads \ {t} : rows'[k] = rows[k]
  <2>1. Doing(t, "create") \/ Doing(t, "upload")
    BY <1>2 DEF PersistRow, RowInv, RowPlaces, At, Creates
  <2>2. req[t].body # None
    BY <2>1, CatalogAssumption DEF Doing, ReviewInv, Shape
  <2> QED
    BY <1>2, <2>2 DEF PersistRow, UpsertRow, RowInv
<1>3. ASSUME NEW t \in Threads, WriteRow(t)
      PROVE  /\ DOMAIN rows' = Threads /\ At(t, "writeRow") /\ Doing(t, "update")
             /\ local[t].ref = i => rows'[i] # None
             /\ local[t].ref # i => rows'[i] = rows[i]
  <2>1. At(t, "writeRow") /\ Doing(t, "update")
    BY <1>3 DEF WriteRow, RowInv, RowPlaces
  <2>2. req[t].body # None
    BY <2>1, CatalogAssumption DEF Doing, ReviewInv, Shape
  <2> QED
    BY <1>3, <2>1, <2>2 DEF WriteRow, UpsertRow, RowInv
<1>4. ASSUME NEW t \in Threads, NEW k \in Threads, DeleteRow(t, k)
      PROVE  DOMAIN rows' = Threads /\ \A j \in Threads \ {k} : rows'[j] = rows[j]
  BY <1>4 DEF DeleteRow, Remove, RowInv
<1>5. ASSUME NEW t \in Threads, FindRow(t) \/ CreateParse(t) PROVE UNCHANGED rows
  BY <1>5 DEF FindRow, CreateParse, catalog
<1>6. ASSUME NEW t \in Threads, NEW k \in Threads, ReadRow(t, k) \/ RowNotFound(t, k)
      PROVE  UNCHANGED rows
  BY <1>6 DEF ReadRow, RowNotFound, catalog
<1>7. CASE \E t \in Threads : PersistRow(t)
  <2>1. PICK t \in Threads : PersistRow(t)
    BY <1>7
  <2>2. DOMAIN rows' = Threads /\ rows'[t] # None /\ \A k \in Threads \ {t} : rows'[k] = rows[k]
    BY <1>2, <2>1
  <2> QED
    BY <2>1, <2>2
<1>8. CASE \E t \in Threads : WriteRow(t)
  BY <1>3, <1>8 DEF Updates
<1>9. CASE \E t, k \in Threads : DeleteRow(t, k)
  <2>1. PICK t \in Threads, k \in Threads : DeleteRow(t, k)
    BY <1>9
  <2>2. DOMAIN rows' = Threads /\ \A j \in Threads \ {k} : rows'[j] = rows[j]
    BY <1>4, <2>1
  <2>3. Exists(k)
    BY <2>1 DEF DeleteRow, Sees
  <2>4. rows'[k] = None
    BY <2>1 DEF DeleteRow, Remove, RowInv
  <2> QED
    BY <2>1, <2>2, <2>3, <2>4
<1> QED
  BY <1>1, <1>5, <1>6, <1>7, <1>8, <1>9 DEF Next, vars, catalog, CatalogStep, RetentionEnds

\* Who made, copied or deleted a row goes on having done so; whoever newly does
\* reads, deletes or makes it now.
LEMMA LinksMove ==
  ASSUME ReviewInv, AnswerInv, RowInv, [Next]_vars, NEW u \in Threads, NEW i \in Threads
  PROVE  /\ Updates(u, i) => Updates(u, i)' /\ before'[u] = before[u]
         /\ Deletes(u, i) => Deletes(u, i)' /\ before'[u] = before[u]
         /\ Updates(u, i)' => Updates(u, i) \/ ReadRow(u, i)
         /\ Deletes(u, i)' => Deletes(u, i) \/ DeleteRow(u, i)
<1>1. ASSUME Updates(u, i) \/ Deletes(u, i)
      PROVE  req'[u] = req[u] /\ before'[u] = before[u] /\ local'[u].ref = local[u].ref
  BY <1>1, RefStays DEF Updates, Deletes
<1>2. i # None
  BY RequestsAssumption
<1>3. ASSUME Updates(u, i)' \/ Deletes(u, i)', ~Updates(u, i), ~Deletes(u, i)
      PROVE  (Updates(u, i)' /\ ReadRow(u, i)) \/ (Deletes(u, i)' /\ DeleteRow(u, i))
  <2>1. CASE \E r \in traffic : Begin(u, r)
    <3>1. "ref" \in Fields \ {"outcome"} /\ local[u].ref = None
      BY <2>1 DEF Fields, RowInv, RowPlaces, Begin, At, Unmade
    <3> QED
      BY <1>2, <1>3, <2>1, <3>1, BeginFacts DEF Updates, Deletes
  <2>2. CASE FindRow(u) \/ PersistRow(u)
    <3>1. Creates(u) /\ req' = req
      BY <2>2 DEF FindRow, PersistRow, At, RowInv, RowPlaces
    <3> QED
      BY <1>3, <3>1 DEF Updates, Deletes, Creates, Doing
  <2>3. ASSUME NEW k \in Threads, ReadRow(u, k)
        PROVE  Updates(u, i)' /\ ReadRow(u, i)
    <3>1. Shape /\ "ref" \in Fields
      BY DEF ReviewInv, Fields
    <3>2. Doing(u, "update") /\ req' = req /\ local'[u].ref = k
      BY <2>3, <3>1, SetTurn DEF ReadRow, RowInv, RowPlaces
    <3> QED
      BY <1>3, <2>3, <3>2 DEF Updates, Deletes, Doing
  <2>4. ASSUME NEW k \in Threads, DeleteRow(u, k)
        PROVE  Deletes(u, i)' /\ DeleteRow(u, i)
    <3>1. local'[u].ref = k
      BY <2>4 DEF DeleteRow, ReviewInv, Shape, Fields
    <3>2. Doing(u, "delete") /\ req' = req
      BY <2>4 DEF DeleteRow, RowInv, RowPlaces
    <3> QED
      BY <1>3, <2>4, <3>1, <3>2 DEF Updates, Deletes, Doing
  <2>5. ASSUME NEW h \in Threads, SetReleased(u, h) PROVE FALSE
    <3>1. req' = req /\ At(u, "setReleased")
      BY <2>5 DEF SetReleased
    <3> QED
      BY <1>3, <3>1 DEF Updates, Deletes, Doing, RowInv, RowPlaces, At
  <2> QED
    BY <1>3, <2>1, <2>2, <2>3, <2>4, <2>5, RefMoves DEF Updates, Deletes, Doing
<1>4. Updates(u, i) => ~Deletes(u, i) /\ ~Deletes(u, i)' /\ Updates(u, i)'
  BY <1>1 DEF Updates, Deletes, Doing
<1>5. Deletes(u, i) => ~Updates(u, i) /\ ~Updates(u, i)' /\ Deletes(u, i)'
  BY <1>1 DEF Updates, Deletes, Doing
<1>6. ~(Updates(u, i)' /\ Deletes(u, i)')
  BY DEF Updates, Deletes, Doing
<1> QED
  BY <1>1, <1>3, <1>4, <1>5, <1>6

\* An update that overlapped a deletion did so for good.
LEMMA CopiedStays ==
  ASSUME ReviewInv, AnswerInv, RowInv, [Next]_vars, NEW i \in Threads
  PROVE  /\ Copied(i) => Copied(i)'
         /\ \A u, d \in Threads :
               (Updates(u, i) /\ Deletes(d, i) /\ ~Ordered(u, d)) =>
                   Updates(u, i)' /\ Deletes(d, i)' /\ ~Ordered(u, d)'
<1>1. ASSUME NEW u \in Threads, NEW d \in Threads,
             Updates(u, i), Deletes(d, i), ~Ordered(u, d)
      PROVE  Updates(u, i)' /\ Deletes(d, i)' /\ ~Ordered(u, d)'
  BY <1>1, LinksMove DEF Ordered
<1> QED
  BY <1>1 DEF Copied

\* A row is made by a request that found no other of its code.
LEMMA MadeMoves ==
  ASSUME ReviewInv, AnswerInv, RowInv, [Next]_vars, NEW j \in Threads
  PROVE  /\ Made(j) => Made(j)'
         /\ Made(j)' => Made(j) \/ At(j, "persistRow")
         /\ At(j, "persistRow")' => At(j, "persistRow") \/ (FindRow(j) /\ Twins(j) = {})
<1>1. AnswerInv' /\ RowPlaces(j)' /\ j # None
  BY AnswerStep, RowPlacesStep, RequestsAssumption
<1>2. ASSUME Made(j) PROVE Made(j)'
  <2>1. Creates(j)' /\ local'[j].ref = j
    BY <1>2, RefStays DEF Made, Creates, Doing
  <2> QED
    BY <1>1, <2>1 DEF Made, AnswerInv, KeyedOf, CreatePlaces, RowPlaces, Unmade
<1>3. ASSUME Made(j)' PROVE Made(j) \/ At(j, "persistRow")
  <2>1. ASSUME req'[j] = req[j], local'[j].ref = local[j].ref PROVE Made(j)
    <3>1. Creates(j) /\ local[j].ref = j
      BY <1>3, <2>1 DEF Made, Creates, Doing
    <3>2. pc[j] \in CreatePlaces /\ pc[j] \notin Unmade
      BY <1>1, <3>1 DEF AnswerInv, KeyedOf, RowInv, RowPlaces
    <3> QED
      BY <3>1, <3>2 DEF Made, CreatePlaces, Unmade
  <2>2. ~\E r \in traffic : Begin(j, r)
    <3> SUFFICES ASSUME NEW r \in traffic, Begin(j, r) PROVE FALSE
      OBVIOUS
    <3>1. "ref" \in Fields \ {"outcome"} /\ local[j].ref = None
      BY DEF Fields, RowInv, RowPlaces, Begin, At, Unmade
    <3> QED
      BY <1>1, <1>3, <3>1, BeginFacts DEF Made
  <2>3. ASSUME FindRow(j) PROVE Made(j)
    <3>1. Shape /\ "ref" \in Fields /\ local[j].ref = None
      BY <2>3 DEF ReviewInv, Fields, RowInv, RowPlaces, FindRow, At, Unmade
    <3>2. Twins(j) # {} /\ \E i \in Twins(j) : Set(j, "ref", i)
      BY <1>1, <1>3, <2>3, <3>1 DEF FindRow, Made
    <3>3. local'[j].ref \in Twins(j)
      BY <3>1, <3>2, SetTurn
    <3> QED
      BY <1>3, <3>3 DEF Twins, RowsOf, RowInv, OnlyMade, Made
  <2>4. ~\E i \in Threads : ReadRow(j, i) \/ DeleteRow(j, i) \/ SetReleased(j, i)
    <3> SUFFICES ASSUME NEW i \in Threads, ReadRow(j, i) \/ DeleteRow(j, i) \/ SetReleased(j, i)
                 PROVE  FALSE
      OBVIOUS
    <3>1. req' = req /\ pc[j] \in {"readRow", "deleteRow", "setReleased"}
      BY DEF ReadRow, DeleteRow, SetReleased, At
    <3> QED
      BY <1>3, <3>1 DEF Made, Creates, Doing, AnswerInv, KeyedOf, CreatePlaces
  <2> QED
    BY <2>1, <2>2, <2>3, <2>4, RefMoves DEF PersistRow
<1>4. ASSUME At(j, "persistRow")', ~At(j, "persistRow") PROVE FindRow(j) /\ Twins(j) = {}
  <2>1. ASSUME NEW t \in Threads, RequestStep(t) \/ DlqStep(t) \/ HoldStep(t) PROVE FALSE
    <3>1. pc'[t] # "persistRow"
      BY <1>1, <2>1, RequestPlaces, DlqPlaces, HoldPlaces, GoToTurn
         DEF Served, Held, Reviewed
    <3>2. t # j => pc'[j] = pc[j]
      BY <2>1, BeginFacts, RequestTurns, ComponentTurns DEF Turns, Turn
    <3> QED
      BY <1>4, <3>1, <3>2 DEF At
  <2>2. UNCHANGED pc \/ \E t \in Threads : CatalogStep(t)
    BY <2>1 DEF Next, vars, thread, RetentionEnds
  <2>3. CatalogStep(j)
    BY <1>4, <2>2, ComponentTurns DEF Turns, Turn, At
  <2>4. Shape
    BY DEF ReviewInv
  <2>5. ~ CreateParse(j) /\ ~ PersistRow(j)
    BY <1>4, <2>4, GoToTurn DEF CreateParse, PersistRow, At
  <2>6. ~\E o : Leave(j, o)
    BY <1>4, <2>4, LeaveTurn DEF At
  <2>7. ~\E p \in {"writeRow", "over", "record"} : GoTo(j, p)
    BY <1>4, <2>4, GoToTurn DEF At
  <2>8. FindRow(j)
    BY <2>3, <2>5, <2>6, <2>7 DEF CatalogStep, ReadRow, WriteRow, DeleteRow, RowNotFound
  <2> QED
    BY <2>7, <2>8 DEF FindRow
<1> QED
  BY <1>2, <1>3, <1>4


LEMMA OnlyMadeStep ==
  ASSUME ReviewInv, AnswerInv, RowInv, [Next]_vars
  PROVE  OnlyMade'
<1> SUFFICES ASSUME NEW i \in Threads,
                    Exists(i)' \/ \E u \in Threads : Updates(u, i)' \/ Deletes(u, i)'
             PROVE  Made(i)'
  BY DEF OnlyMade, Exists, Updates, Deletes, Doing
<1>1. ASSUME Exists(i) \/ \E u \in Threads : Updates(u, i) \/ Deletes(u, i) PROVE Made(i)'
  BY <1>1, MadeMoves DEF RowInv, OnlyMade
<1>2. CASE PersistRow(i)
  <2>1. Shape /\ "ref" \in Fields /\ Creates(i) /\ req' = req
    BY <1>2 DEF ReviewInv, Fields, PersistRow, At, RowInv, RowPlaces
  <2>2. local'[i].ref = i /\ pc'[i] \in {"createParse", "record"}
    BY <1>2, <2>1, SetTurn, GoToTurn DEF PersistRow
  <2> QED
    BY <2>1, <2>2 DEF Made, Creates, Doing
<1>3. ASSUME NEW u \in Threads, ReadRow(u, i) \/ DeleteRow(u, i) PROVE Exists(i)
  BY <1>3 DEF ReadRow, DeleteRow, Sees
<1> QED
  BY <1>1, <1>2, <1>3, RowsMove, LinksMove

LEMMA AbsentWasDeletedStep ==
  ASSUME ReviewInv, AnswerInv, RowInv, [Next]_vars
  PROVE  AbsentWasDeleted'
<1> SUFFICES ASSUME NEW u \in Threads, NEW i \in Threads,
                    At(u, "writeRow")', Updates(u, i)', ~Exists(i)'
             PROVE  \E d \in Threads : Deletes(d, i)' /\ ~Ordered(u, d)'
  BY DEF AbsentWasDeleted, At, Exists, Updates, Deletes, Doing, Ordered
<1>1. ASSUME NEW k \in Threads, ReadRow(u, k) PROVE FALSE
  <2>1. Shape /\ "ref" \in Fields
    BY DEF ReviewInv, Fields
  <2>2. local'[u].ref = k /\ Exists(k) /\ rows' = rows
    BY <1>1, <2>1, SetTurn DEF ReadRow, Sees, catalog
  <2> QED
    BY <2>2 DEF Updates, Exists
<1>2. At(u, "writeRow")
  <2>1. ASSUME NEW t \in Threads, ~At(u, "writeRow"), RequestStep(t) \/ DlqStep(t) \/ HoldStep(t)
        PROVE  FALSE
    <3>1. pc'[t] # "writeRow"
      BY <2>1, RequestPlaces, DlqPlaces, HoldPlaces DEF Served, Held, Reviewed
    <3>2. t # u => pc'[u] = pc[u]
      BY <2>1, BeginFacts, RequestTurns, ComponentTurns DEF Turns, Turn
    <3> QED
      BY <2>1, <3>1, <3>2 DEF At
  <2>2. ASSUME NEW t \in Threads \ {u}, CatalogStep(t) PROVE pc'[u] = pc[u]
    BY <2>2, ComponentTurns DEF Turns, Turn
  <2>3. Shape
    BY DEF ReviewInv
  <2>4. ASSUME CatalogStep(u) PROVE FALSE
    <3>1. ~\E o : Leave(u, o)
      BY <2>3, LeaveTurn DEF At
    <3>2. ~\E p \in {"persistRow", "createParse", "over", "record"} : GoTo(u, p)
      BY <2>3, GoToTurn DEF At
    <3> QED
      BY <1>1, <2>4, <3>1, <3>2 DEF CatalogStep, FindRow, PersistRow, CreateParse, WriteRow,
         DeleteRow, RowNotFound
  <2> QED
    BY <2>1, <2>2, <2>4 DEF Next, vars, thread, RetentionEnds, At
<1>3. Updates(u, i) /\ before'[u] = before[u]
  BY <1>1, LinksMove
<1>4. CASE ~Exists(i)
  BY <1>2, <1>3, <1>4, CopiedStays DEF RowInv, AbsentWasDeleted
<1>5. CASE Exists(i)
  <2>1. PICK d \in Threads : DeleteRow(d, i)
    BY <1>5, RowsMove
  <2>2. /\ At(d, "deleteRow") /\ Doing(d, "delete") /\ req' = req /\ before' = before
        /\ local'[d].ref = i /\ ~Over(d) /\ ~Over(u)
    BY <1>2, <2>1 DEF DeleteRow, RowInv, RowPlaces, ReviewInv, Shape, Fields, At, Over
  <2>3. Deletes(d, i)' /\ u # d
    BY <1>2, <2>2 DEF Deletes, Doing, At
  <2>4. ~Ordered(u, d)'
    BY <2>2, <2>3 DEF Ordered, ReviewInv, ThreadInv, BeforeOf
  <2> QED
    BY <2>3, <2>4
<1> QED
  BY <1>4, <1>5

\* Whoever writes back a row that is absent, writes back one deleted meanwhile.
LEMMA RisenIsCopied ==
  ASSUME ReviewInv, AnswerInv, RowInv, [Next]_vars, NEW i \in Threads,
         ~Exists(i), Exists(i)', ~At(i, "persistRow")
  PROVE  Copied(i)'
<1>1. PICK u \in Threads : At(u, "writeRow") /\ Updates(u, i)
  BY RowsMove DEF PersistRow
<1>2. Copied(i)
  BY <1>1 DEF RowInv, AbsentWasDeleted, Copied
<1> QED
  BY <1>2, CopiedStays

LEMMA DeletedIsCopiedStep ==
  ASSUME ReviewInv, AnswerInv, RowInv, [Next]_vars
  PROVE  DeletedIsCopied'
<1> SUFFICES ASSUME NEW i \in Threads, NEW d \in Threads, Exists(i)', Deletes(d, i)'
             PROVE  Copied(i)'
  BY DEF DeletedIsCopied, Exists, Deletes, Doing, Copied, Updates, Ordered
<1>1. Deletes(d, i)
  <2>1. ~DeleteRow(d, i)
    BY DEF DeleteRow, Remove, Exists, RowInv
  <2> QED
    BY <2>1, LinksMove
<1>2. CASE Exists(i)
  BY <1>1, <1>2, CopiedStays DEF RowInv, DeletedIsCopied
<1>3. CASE ~Exists(i)
  <2>1. Made(i)
    BY <1>1 DEF RowInv, OnlyMade
  <2>2. ~At(i, "persistRow")
    BY <2>1 DEF Made, At
  <2> QED
    BY <1>3, <2>2, RisenIsCopied
<1> QED
  BY <1>2, <1>3

LEMMA CodeTakenStep ==
  ASSUME ReviewInv, AnswerInv, RowInv, [Next]_vars
  PROVE  CodeTaken'
<1> SUFFICES ASSUME NEW j \in Threads, NEW i \in before'[j], i # j,
                    At(j, "persistRow")' \/ Made(j)', SameCode(i, j)', Exists(i)'
             PROVE  Copied(i)'
  BY DEF CodeTaken, At, Made, Creates, Doing, SameCode, Exists, Copied, Updates, Deletes, Ordered
<1>1. At(j, "persistRow") \/ Made(j) \/ (FindRow(j) /\ Twins(j) = {})
  BY MadeMoves
<1>2. ~At(j, "idle")
  BY <1>1 DEF At, Made, FindRow
<1>3. req'[j] = req[j] /\ before'[j] = before[j]
  BY <1>2, ThreadsStay DEF Stays
<1>4. i \in Threads /\ Over(i) /\ req'[i] = req[i]
  <2>1. i \in Threads /\ Over(i)
    BY <1>3 DEF ReviewInv, ThreadInv, BeforeOf
  <2> QED
    BY <2>1, ThreadsStay DEF Stays, At, Over
<1>5. SameCode(i, j)
  BY <1>3, <1>4 DEF SameCode
<1>6. CASE ~Exists(i)
  BY <1>4, <1>6, RisenIsCopied DEF At, Over
<1>7. CASE Exists(i)
  <2>1. ~(FindRow(j) /\ Twins(j) = {})
    BY <1>4, <1>5, <1>7 DEF Twins, RowsOf, SameCode
  <2>2. Copied(i)
    BY <1>1, <1>3, <1>5, <1>7, <2>1 DEF RowInv, CodeTaken
  <2> QED
    BY <1>4, <2>2, CopiedStays
<1> QED
  BY <1>6, <1>7

LEMMA RowStep == ReviewInv /\ AnswerInv /\ RowInv /\ [Next]_vars => RowInv'
<1> SUFFICES ASSUME ReviewInv, AnswerInv, RowInv, [Next]_vars PROVE RowInv'
  OBVIOUS
<1>1. DOMAIN rows' = Threads
  <2>1. CASE Threads = {}
    BY <2>1 DEF RowInv, Next, vars, catalog, RetentionEnds
  <2>2. CASE Threads # {}
    BY <2>2, RowsMove
  <2> QED
    BY <2>1, <2>2
<1> QED
  BY <1>1, OnlyMadeStep, AbsentWasDeletedStep, DeletedIsCopiedStep, CodeTakenStep, RowPlacesStep
     DEF RowInv

LEMMA RowInit == Init => RowInv
<1> SUFFICES ASSUME Init PROVE RowInv
  OBVIOUS
<1>1. /\ req = [t \in Threads |-> None] /\ pc = [t \in Threads |-> "idle"]
      /\ local = [t \in Threads |-> NoLocals] /\ rows = [i \in Threads |-> None]
      /\ before = [t \in Threads |-> {}]
  BY DEF Init, RequestsInit, CatalogInit
<1>2. \A t \in Threads : RowPlaces(t)
  BY <1>1 DEF RowPlaces, At, Doing, NoLocals
<1> QED
  BY <1>1, <1>2 DEF RowInv, OnlyMade, AbsentWasDeleted, DeletedIsCopied, CodeTaken, Exists,
     Updates, Deletes, Doing

\* Two rows of a tenant have the same code only when the requests that made
\* them overlapped, or when one was deleted while an update that overlapped the
\* deletion held a copy of it and wrote it back: create operations look for the
\* code first, updates write back whatever they read.
THEOREM CodesAreTaken == Spec => []OneRowPerCode
<1>1. ASSUME ReviewInv, RowInv PROVE OneRowPerCode
  <2> SUFFICES ASSUME NEW i \in Threads, NEW j \in Threads, Exists(i), Exists(j),
                      SameCode(i, j), i \in before[j], i # j
               PROVE  Copied(i)
    BY DEF OneRowPerCode, Copied, Updates, Deletes
  <2> QED
    BY <1>1 DEF RowInv, OnlyMade, CodeTaken
<1> QED
  BY <1>1, ReviewInit, ReviewStep, AnswerInit, AnswerStep, RowInit, RowStep, PTL DEF Spec

-----------------------------------------------------------------------------
(* Locks and holds of requests that came one after the other, none of which  *)
(* failed: a lock and a hold disagree only while the request that is served  *)
(* is about to make them agree.                                              *)

Failed(t) == local[t].outcome = "error" \/ local[t].attempt # 1
Smooth ==
    /\ OneByOne /\ backend = "local"
    /\ \A t \in Begun : ~Failed(t)

\* Which requests come to the steps of holds and of tools.
HoldPlaceOf(t) ==
    /\ pc[t] \in {"put"} \union Putting => Doing(t, "archive")
    /\ pc[t] \in {"applyLock", "recordHold"} => Doing(t, "impose")
    /\ pc[t] \in {"setReleased", "releaseLock", "logRelease"} => Doing(t, "release")
    /\ At(t, "findHold") => Doing(t, "impose") \/ Doing(t, "cleanup")
    /\ At(t, "resolve") => Doing(t, "impose") \/ Doing(t, "cleanup") \/ Doing(t, "release")
    /\ pc[t] \in {"tool", "toolEnd"} => IsTool(t)
    /\ (Logging(t) /\ local[t].then = "toolEnd") => IsTool(t)

\* A failure is answered, or another attempt made; the first attempt of a
\* release has no hold in hand.
AttemptOf(t) ==
    /\ local[t].attempt \in Nat \ {0}
    /\ (local[t].outcome = "error" /\ local[t].attempt = 1) => At(t, "toolEnd") \/ Ending(t)
    /\ At(t, "idle") => local[t] = NoLocals
    /\ (Doing(t, "release") /\ pc[t] \in {"tool", "setReleased"} /\ local[t].attempt = 1) =>
          local[t].ref = None

LockShape ==
    /\ \A o \in Objects : current[o] \in Uris
    /\ \A u \in Uris : files[u].locked => files[u].exists
    /\ \A h \in Threads : holds[h].status = "active" =>
          ~At(h, "idle") /\ holds[h].on = req[h].on /\ holds[h].tenant = req[h].tenant

HoldsOn(o) == ActiveHolds(Owner[o], o)
Mine(t) == req[t].tenant = Owner[req[t].on]

\* A request that archived the version that is current has been answered.
Replaced(o) == \E t \in Begun : Over(t) /\ Archives(t, o) /\ PutUri(t) = current[o]

HeldOnce(o) == \A h, k \in HoldsOn(o) : h = k
Follow(o, u) == \A h \in HoldsOn(o) : holds[h].uri = u
Guarded(o, u) == (files[u].exists /\ HoldsOn(o) # {}) => files[u].locked
Freed(o) == (files[current[o]].locked /\ HoldsOn(o) = {}) => Returned(o)
Explained(o) ==
    \A w \in Uris : (w[1] = o /\ w # current[o] /\ files[w].locked) => Replaced(o)

Calm(o) == /\ HeldOnce(o) /\ Follow(o, current[o]) /\ Guarded(o, current[o])
           /\ Freed(o) /\ Explained(o)

Midway == {"recordHold", "releaseLock"} \union Putting
Working(o) == \E t \in Threads : pc[t] \in Midway /\ req[t].on = o /\ Mine(t)

\* Where the request that is served has come, of report o and its version v.
ImposeOf(t, o) ==
    (Doing(t, "impose") /\ pc[t] \in {"resolve", "applyLock", "recordHold"}) =>
        IF Mine(t)
        THEN /\ HoldsOn(o) = {}
             /\ pc[t] # "resolve" => local[t].uri = current[o]
             /\ At(t, "recordHold") => /\ files[current[o]].exists => files[current[o]].locked
                                       /\ Explained(o)
        ELSE pc[t] # "applyLock" /\ (At(t, "recordHold") => local[t].uri = None)

ReleaseOf(t, o) ==
    /\ (Doing(t, "release") /\ At(t, "resolve")) =>
          ~Mine(t) /\ local[t].ref \in Threads /\ holds[local[t].ref].status # "active"
    /\ At(t, "releaseLock") =>
          Mine(t) /\ local[t].uri = current[o] /\ HoldsOn(o) = {} /\ Explained(o)

ArchiveOf(t, o, v) ==
    /\ At(t, "holdOfPut") =>
          HeldOnce(o) /\ Freed(o) /\ Explained(o) /\ (files[v].locked => Worm)
    /\ At(t, "lockPut") => HeldOnce(o) /\ HoldsOn(o) # {} /\ Follow(o, v)
    /\ At(t, "upsert") =>
          /\ HeldOnce(o) /\ Follow(o, v) /\ Guarded(o, v)
          /\ HoldsOn(o) = {} => Freed(o) /\ Explained(o) /\ (files[v].locked => Worm)

PhaseOf(t) ==
    \A o \in Objects : (~At(t, "idle") /\ req[t].on = o) =>
        /\ ImposeOf(t, o) /\ ReleaseOf(t, o)
        /\ \A v \in Uris : PutUri(t) = v => ArchiveOf(t, o, v)

ForeignHolds ==
    \A h \in Threads : (holds[h].status = "active" /\ holds[h].tenant # Owner[holds[h].on])
                           => holds[h].uri = None

LockInv ==
    /\ LockShape
    /\ Smooth => /\ ForeignHolds
                 /\ \A o \in Objects : Working(o) \/ Calm(o)
                 /\ \A t \in Threads : PhaseOf(t)

LEMMA HoldPlaceStep ==
  ASSUME ReviewInv, NEW t \in Threads, HoldPlaceOf(t),
         RequestStep(t) \/ DlqStep(t) \/ HoldStep(t) \/ CatalogStep(t)
  PROVE  HoldPlaceOf(t)'
<1>1. Shape /\ Apart(t) /\ FlowOf(t)
  BY DEF ReviewInv, ThreadInv
<1>2. ASSUME NEW r \in traffic, Begin(t, r) PROVE HoldPlaceOf(t)'
  <2>1. /\ req'[t] = r /\ r # None /\ r.kind \in RequestKinds
        /\ IF RefusedUnread(r) THEN pc'[t] = "over" ELSE pc'[t] = Start(r)
    BY <1>2, BeginFacts, RequestsAssumption
  <2>2. /\ pc'[t] \in {"over", "lookup", "tool", "put", "findHold", "readRow", "deleteRow"}
        /\ pc'[t] = "tool" => r.kind = "release"
        /\ pc'[t] = "put" => r.kind = "archive"
        /\ pc'[t] = "findHold" => r.kind \in {"impose", "cleanup"}
    BY <2>1 DEF RefusedUnread, Start, RequestKinds
  <2> QED
    BY <2>1, <2>2 DEF HoldPlaceOf, At, Doing, IsTool, Logging, Putting
<1>3. ASSUME Turns(t) PROVE req'[t] = req[t]
  BY <1>3 DEF Turns, Turn
<1>4. ASSUME Turns(t), pc'[t] \in Served \union Reviewed \union Listed,
             pc'[t] \notin {"put", "findHold"},
             pc'[t] \in {"tool", "toolEnd"} => IsTool(t),
             pc'[t] = "setReleased" => Doing(t, "release"),
             (Logging(t)' /\ local'[t].then = "toolEnd") => IsTool(t)
      PROVE  HoldPlaceOf(t)'
  BY <1>3, <1>4 DEF HoldPlaceOf, At, Served, Reviewed, Listed, Putting, Doing, IsTool
<1>5. CASE RequestStep(t) /\ ~\E r \in traffic : Begin(t, r)
  <2>1. Turns(t) /\ pc'[t] \in Served /\ pc'[t] \notin {"put", "findHold"}
    BY <1>5, RequestTurns, RequestPlaces, RequestGoesOn
  <2>2. CASE ReadLast(t) \/ AppendLog(t) \/ LoseToolLog(t)
    <3>1. "last" \in Fields /\ "then" \in Fields \ {"last"}
      BY DEF Fields
    <3>2. /\ local'[t].then = local[t].then /\ Logging(t)
          /\ pc'[t] \in {"append", "over", local[t].then}
      BY <1>1, <2>2, <3>1, GoToTurn, SetTurn DEF ReadLast, AppendLog, LoseToolLog, At, Logging
    <3>3. local[t].then # "tool" /\ local[t].then # "setReleased"
      BY <1>1 DEF Apart, Nexts
    <3> QED
      BY <1>4, <2>1, <3>2, <3>3 DEF HoldPlaceOf
  <2>3. CASE \E o : Leave(t, o) \/ Return(t, o)
    <3>1. /\ pc'[t] \in {"readLast", "toolEnd", "over"}
          /\ pc'[t] = "toolEnd" => IsTool(t)
          /\ pc'[t] = "readLast" => local'[t].then = "over"
      BY <1>1, <2>3, LeaveTurn, ReturnTurn
    <3> QED
      BY <1>4, <2>1, <3>1 DEF Logging
  <2>4. CASE Invoke(t) \/ (ToolFails(t) /\ GoTo(t, InvokeStep(t)))
    <3>1. IsTool(t) /\ pc'[t] = InvokeStep(t)
      BY <1>1, <2>4, GoToTurn DEF Invoke, ToolFails, HoldPlaceOf, At
    <3>2. /\ pc'[t] \in {"readItem", "setReleased"}
          /\ pc'[t] = "setReleased" => Doing(t, "release")
      BY <1>1, <3>1, <2>1 DEF InvokeStep, IsTool, Doing, Apart, Turns, Turn
    <3> QED
      BY <1>4, <2>1, <3>2 DEF Logging
  <2>5. CASE Execute(t)
    <3>1. pc'[t] = FirstStep(t) /\ Keyed(t)
      BY <1>1, <2>5, GoToTurn DEF Execute, Apart
    <3>2. /\ pc'[t] \in {"tool", "readItem", "findRow"}
          /\ pc'[t] = "tool" => IsTool(t)
      BY <3>1 DEF FirstStep, Keyed, Item, Doing, IsTool
    <3> QED
      BY <1>4, <2>1, <3>2 DEF Logging
  <2>6. CASE Replay(t) \/ Record(t)
    <3>1. PICK a : local' = [local EXCEPT ![t] =
                      [local[t] EXCEPT !.author = a, !.outcome = "ok", !.then = "over"]]
      BY <2>6 DEF Replay, Record
    <3>2. local'[t].then = "over" /\ pc'[t] \in {"readLast", "over"}
      BY <1>1, <2>6, <3>1, GoToTurn DEF Replay, Record, Shape, Fields
    <3> QED
      BY <1>4, <2>1, <3>2
  <2>7. CASE ToolReturns(t) /\ GoTo(t, "record")
    <3>1. pc'[t] = "record"
      BY <1>1, <2>7, GoToTurn
    <3> QED
      BY <1>4, <2>1, <3>1 DEF Logging
  <2> QED
    BY <1>5, <2>2, <2>3, <2>4, <2>5, <2>6, <2>7
       DEF RequestStep, Conflict, RefuseOpenCircuit, ToolReturns, ToolFails, Raise
<1>6. CASE DlqStep(t)
  <2>1. Turns(t) /\ pc'[t] \in Reviewed
    BY <1>6, ComponentTurns, DlqPlaces
  <2>2. CASE RefuseItem(t)
    <3>1. pc'[t] \in {"readLast", "toolEnd", "over"} /\ (pc'[t] = "toolEnd" => IsTool(t))
          /\ pc'[t] # "readLast"
      BY <1>1, <2>2, ReturnTurn DEF RefuseItem
    <3> QED
      BY <1>4, <2>1, <3>1 DEF Logging
  <2>3. CASE PersistItem(t)
    <3>1. /\ pc'[t] = "readLast"
          /\ local'[t].then = IF Doing(t, "requeue") THEN "record" ELSE "toolEnd"
      BY <1>1, <2>3, LogTurn DEF PersistItem
    <3>2. Item(t)
      BY <1>1, <2>3 DEF PersistItem, Apart, ItemSteps, At
    <3> QED
      BY <1>4, <2>1, <3>1, <3>2 DEF Item, Doing, IsTool
  <2>4. CASE ReadItem(t) \/ PersistJob(t)
    <3>1. pc'[t] \in {"persistJob", "persistItem"}
      BY <1>1, <2>4, GoToTurn DEF ReadItem, PersistJob
    <3> QED
      BY <1>4, <2>1, <3>1 DEF Logging
  <2> QED
    BY <1>6, <2>2, <2>3, <2>4 DEF DlqStep
<1>7. CASE CatalogStep(t)
  <2>1. Turns(t) /\ pc'[t] \in Listed
    BY <1>7, ComponentTurns, CatalogPlaces
  <2>2. CASE \E o : Leave(t, o)
    <3>1. pc'[t] \in {"readLast", "over"} /\ (pc'[t] = "readLast" => local'[t].then = "over")
      BY <1>1, <2>2, LeaveTurn
    <3> QED
      BY <1>4, <2>1, <3>1 DEF Logging
  <2>3. CASE \E p \in {"persistRow", "createParse", "record", "writeRow", "over"} : GoTo(t, p)
    <3>1. pc'[t] \in {"persistRow", "createParse", "record", "writeRow", "over"}
      BY <1>1, <2>3, GoToTurn
    <3> QED
      BY <1>4, <2>1, <3>1 DEF Logging
  <2> QED
    BY <1>7, <2>2, <2>3 DEF CatalogStep, FindRow, PersistRow, CreateParse, ReadRow, WriteRow,
       DeleteRow, RowNotFound
<1>8. CASE HoldStep(t)
  <2>1. Turns(t)
    BY <1>8, ComponentTurns
  <2>2. CASE \E o : Leave(t, o) \/ Return(t, o) \/ Log(t, o, "over")
    <3>1. /\ pc'[t] \in {"readLast", "toolEnd", "over"}
          /\ pc'[t] = "toolEnd" => IsTool(t)
          /\ pc'[t] = "readLast" => local'[t].then = "over"
      BY <1>1, <2>2, LeaveTurn, ReturnTurn, LogTurn
    <3> QED
      BY <1>4, <2>1, <3>1 DEF Logging, Reviewed
  <2>3. CASE ReleaseLock(t) \/ LogRelease(t)
    <3>1. Doing(t, "release") /\ pc'[t] = "readLast"
      BY <1>1, <2>3, LogTurn DEF ReleaseLock, LogRelease, HoldPlaceOf, At
    <3>2. IsTool(t)
      BY <3>1 DEF Doing, IsTool
    <3> QED
      BY <1>4, <2>1, <3>1, <3>2 DEF Reviewed
  <2>4. CASE NoHoldYet(t) \/ NotHeld(t)
    <3>1. pc'[t] = "resolve" /\ (Doing(t, "impose") \/ Doing(t, "cleanup"))
      BY <1>1, <2>4, GoToTurn DEF NoHoldYet, NotHeld
    <3> QED
      BY <1>3, <2>1, <3>1 DEF HoldPlaceOf, At, Logging, Putting, Doing, IsTool
  <2>5. CASE Resolve(t)
    <3>1. pc'[t] = AfterResolve(t, Resolved(t))
      BY <1>1, <2>5, GoToTurn DEF Resolve
    <3>2. Doing(t, "impose") \/ Doing(t, "cleanup") \/ Doing(t, "release")
      BY <2>5 DEF Resolve, HoldPlaceOf
    <3>3. /\ pc'[t] \in {"recordHold", "applyLock", "logCleanup", "checkRetention", "logRelease", "releaseLock"}
          /\ pc'[t] \in {"recordHold", "applyLock"} => Doing(t, "impose")
          /\ pc'[t] \in {"logRelease", "releaseLock"} => Doing(t, "release")
      BY <3>1, <3>2 DEF AfterResolve
    <3> QED
      BY <1>3, <2>1, <3>3 DEF HoldPlaceOf, At, Logging, Putting, Doing, IsTool
  <2>6. CASE ApplyLock(t) \/ \E h \in Threads : SetReleased(t, h)
    <3>1. /\ pc'[t] \in {"recordHold", "resolve", "releaseLock"}
          /\ pc'[t] = "recordHold" => Doing(t, "impose")
          /\ pc'[t] \in {"resolve", "releaseLock"} => Doing(t, "release")
      <4>1. CASE ApplyLock(t)
        BY <1>1, <4>1, GoToTurn DEF ApplyLock, HoldPlaceOf, At
      <4>2. ASSUME NEW h \in Threads, SetReleased(t, h)
            PROVE  pc'[t] \in {"resolve", "releaseLock"} /\ Doing(t, "release")
        BY <1>1, <4>2, GoToTurn DEF SetReleased, HoldPlaceOf, At
      <4> QED
        BY <2>6, <4>1, <4>2
    <3> QED
      BY <1>3, <2>1, <3>1 DEF HoldPlaceOf, At, Logging, Putting, Doing, IsTool
  <2>7. CASE \E p \in {"checkLock", "unlink"} : GoTo(t, p)
    <3>1. pc'[t] \in {"checkLock", "unlink"}
      BY <1>1, <2>7, GoToTurn
    <3> QED
      BY <1>3, <2>1, <3>1 DEF HoldPlaceOf, At, Logging, Putting, Doing, IsTool
  <2>8. CASE Put(t) \/ HoldOfPut(t) \/ LockPut(t)
    <3>1. Doing(t, "archive") /\ pc'[t] \in Putting
      BY <1>1, <2>8, GoToTurn DEF Put, HoldOfPut, LockPut, HoldPlaceOf, At, Putting
    <3> QED
      BY <1>3, <2>1, <3>1 DEF HoldPlaceOf, At, Logging, Putting, Doing, IsTool
  <2>9. CASE \/ FoundHold(t) \/ RecordHold(t) \/ RefuseRelease(t) \/ BlockedByHold(t) \/ Unlink(t)
             \/ LogCleanup(t) \/ Upsert(t) \/ CheckRetention(t) \/ CheckLock(t)
    BY <2>2, <2>7, <2>9 DEF FoundHold, RecordHold, RefuseRelease, BlockedByHold, Unlink, LogCleanup,
       Upsert, CheckRetention, CheckLock
  <2> QED
    BY <1>8, <2>3, <2>4, <2>5, <2>6, <2>8, <2>9 DEF HoldStep
<1> QED
  BY <1>2, <1>5, <1>6, <1>7, <1>8 DEF RequestStep

\* A thread that failed is seen to have failed, to its end.
LEMMA FailedStays ==
  ASSUME ReviewInv, NEW t \in Threads, AttemptOf(t), Turns(t),
         \/ RequestStep(t) /\ ~\E r \in traffic : Begin(t, r)
         \/ DlqStep(t) \/ HoldStep(t) \/ CatalogStep(t)
  PROVE  AttemptOf(t)' /\ (Failed(t) => Failed(t)')
<1>1. /\ Shape /\ Apart(t) /\ ~At(t, "idle")' /\ (\A k : Doing(t, k)' <=> Doing(t, k))
      /\ "attempt" \in Fields \ {"then", "outcome"} /\ local[t].attempt \in Nat \ {0}
      /\ "attempt" \in Fields \ {"uri", "ref", "last"}
      /\ "outcome" \in Fields \ {"uri", "ref", "last", "attempt"}
      /\ "then" \in Fields \ {"uri", "ref", "last", "attempt"}
      /\ {"uri", "ref", "last"} \subseteq Fields
  BY DEF ReviewInv, ThreadInv, Fields, Turns, Turn, Doing, AttemptOf
<1> DEFINE Elsewhere == pc'[t] \notin {"tool", "setReleased"}
           Fresh == local[t].outcome = "error" => local[t].attempt # 1
<1>2. pc[t] # "toolEnd" /\ ~Ending(t) => Fresh
  BY DEF AttemptOf, At
<1>3. ASSUME local'[t].attempt = local[t].attempt, local'[t].outcome \in {"ok", "refused"}, Fresh, Elsewhere
      PROVE  AttemptOf(t)' /\ (Failed(t) => Failed(t)')
  BY <1>1, <1>3 DEF AttemptOf, Failed, At
<1>4. ASSUME local'[t].attempt = local[t].attempt, local'[t].outcome = "error", Elsewhere,
             At(t, "toolEnd")' \/ Ending(t)'
      PROVE  AttemptOf(t)' /\ (Failed(t) => Failed(t)')
  BY <1>1, <1>4 DEF AttemptOf, Failed, At
<1>5. ASSUME local'[t].attempt = local[t].attempt, local'[t].outcome = local[t].outcome, Fresh,
             Elsewhere
      PROVE  AttemptOf(t)' /\ (Failed(t) => Failed(t)')
  BY <1>1, <1>5 DEF AttemptOf, Failed, At
<1> HIDE DEF Elsewhere, Fresh
<1>6. ASSUME ~(pc[t] = "toolEnd" \/ Ending(t)), NEW o \in {"ok", "refused"},
             Leave(t, o) \/ Return(t, o) \/ \E p : Log(t, o, p)
      PROVE  AttemptOf(t)' /\ (Failed(t) => Failed(t)')
  <2>1. local'[t].attempt = local[t].attempt /\ local'[t].outcome = o
    <3>1. local'[t].attempt = local[t].attempt
      BY <1>1, <1>6, LeaveKeeps
    <3>2. CASE Leave(t, o)
      BY <1>1, <3>1, <3>2, LeaveTurn
    <3>3. CASE Return(t, o)
      BY <1>1, <3>1, <3>3, ReturnTurn
    <3>4. CASE \E p : Log(t, o, p)
      BY <1>1, <3>1, <3>4, LogTurn
    <3> QED
      BY <1>6, <3>2, <3>3, <3>4
  <2>2. pc'[t] \in {"readLast", "toolEnd", "over"}
    BY <1>1, <1>6, LeaveTurn, ReturnTurn, LogTurn
  <2>3. Elsewhere
    BY <2>2 DEF Elsewhere
  <2> QED
    BY <1>2, <1>3, <1>6, <2>1, <2>3
<1>7. ASSUME ~(pc[t] = "toolEnd" \/ Ending(t)), Elsewhere,
             local' = local \/ \E f \in {"uri", "ref", "last"} : \E v : Set(t, f, v)
      PROVE  AttemptOf(t)' /\ (Failed(t) => Failed(t)')
  <2>1. local'[t].attempt = local[t].attempt /\ local'[t].outcome = local[t].outcome
    BY <1>1, <1>7, SetTurn
  <2> QED
    BY <1>2, <1>5, <1>7, <2>1
<1>8. ASSUME Leave(t, "error") \/ Return(t, "error")
      PROVE  AttemptOf(t)' /\ (Failed(t) => Failed(t)')
  <2>1. local'[t].attempt = local[t].attempt /\ local'[t].outcome = "error"
    BY <1>1, <1>8, LeaveKeeps, LeaveTurn, ReturnTurn
  <2>2. /\ pc'[t] \in {"readLast", "toolEnd", "over"}
        /\ pc'[t] = "readLast" => local'[t].then = "over"
    BY <1>1, <1>8, LeaveTurn, ReturnTurn
  <2>3. Elsewhere /\ (At(t, "toolEnd")' \/ Ending(t)')
    BY <2>2 DEF Elsewhere, At, Ending, Over, Logging
  <2> QED
    BY <1>4, <2>1, <2>3
<1>9. ASSUME NEW r, local' = [local EXCEPT ![t] = r], DOMAIN r = Fields,
             r.attempt = local[t].attempt, r.outcome = "ok", Elsewhere,
             ~(pc[t] = "toolEnd" \/ Ending(t))
      PROVE  AttemptOf(t)' /\ (Failed(t) => Failed(t)')
  <2>1. local'[t] = r
    BY <1>1, <1>9, LocalTurn
  <2> QED
    BY <1>2, <1>3, <1>9, <2>1
<1>10. CASE ReadLast(t) \/ AppendLog(t) \/ LoseToolLog(t)
  <2>1. /\ local'[t].attempt = local[t].attempt /\ local'[t].outcome = local[t].outcome
        /\ local'[t].then = local[t].then
    BY <1>1, <1>10, SetTurn DEF ReadLast, AppendLog, LoseToolLog
  <2>2. pc'[t] \in {"append", "over", local[t].then} /\ pc[t] # "toolEnd"
    BY <1>1, <1>10, GoToTurn DEF ReadLast, AppendLog, LoseToolLog, At
  <2>3. Elsewhere
    BY <1>1, <2>2 DEF Elsewhere, Apart, Nexts
  <2>4. CASE Ending(t)
    <3>1. Logging(t) /\ local[t].then = "over"
      BY <1>10, <2>4 DEF Ending, Over, Logging, ReadLast, AppendLog, LoseToolLog, At
    <3>2. Ending(t)'
      BY <2>1, <2>2, <3>1 DEF Ending, Over, Logging
    <3> QED
      BY <1>1, <2>1, <2>3, <3>2 DEF AttemptOf, Failed, At, Elsewhere
  <2> QED
    BY <1>2, <1>5, <2>1, <2>2, <2>3, <2>4
<1>11. CASE Conflict(t) \/ RefuseItem(t) \/ PersistItem(t)
  BY <1>6, <1>11 DEF Conflict, RefuseItem, PersistItem, At, Ending, Over, Logging
<1>12. CASE RefuseOpenCircuit(t) \/ Raise(t)
  BY <1>8, <1>12 DEF RefuseOpenCircuit, Raise
<1>13. CASE Replay(t) \/ Record(t)
  <2>1. PICK a : local' = [local EXCEPT ![t] =
                    [local[t] EXCEPT !.author = a, !.outcome = "ok", !.then = "over"]]
    BY <1>13 DEF Replay, Record
  <2> DEFINE r == [local[t] EXCEPT !.author = a, !.outcome = "ok", !.then = "over"]
  <2>2. DOMAIN r = Fields /\ r.attempt = local[t].attempt /\ r.outcome = "ok"
    BY <1>1 DEF Shape, Fields
  <2>3. Elsewhere /\ ~(pc[t] = "toolEnd" \/ Ending(t))
    BY <1>1, <1>13, GoToTurn DEF Replay, Record, Elsewhere, At, Ending, Over, Logging
  <2> QED
    BY <1>9, <2>1, <2>2, <2>3
<1>14. CASE Execute(t) \/ Invoke(t)
  <2>1. local' = local /\ ~(pc[t] = "toolEnd" \/ Ending(t))
    BY <1>14 DEF Execute, Invoke, At, Ending, Over, Logging
  <2>2. CASE Elsewhere
    BY <1>7, <2>1, <2>2
  <2>3. CASE ~Elsewhere
    <3>1. CASE Execute(t)
      <4>1. Keyed(t)
        BY <1>1, <3>1 DEF Execute, Apart
      <4>2. ~Doing(t, "release")'
        BY <1>1, <4>1 DEF Keyed, Item, Doing
      <4> QED
        BY <1>1, <1>2, <2>1, <4>2 DEF AttemptOf, Failed, At, Fresh
    <3>2. CASE Invoke(t)
      <4>1. At(t, "tool")
        BY <3>2 DEF Invoke
      <4> QED
        BY <1>1, <1>2, <2>1, <4>1 DEF AttemptOf, Failed, At, Fresh
    <3> QED
      BY <1>14, <3>1, <3>2
  <2> QED
    BY <2>2, <2>3
<1>15. CASE ToolReturns(t)
  <2>1. local[t].outcome \in {"ok", "refused"}
    BY <1>15 DEF ToolReturns
  <2>2. local'[t].attempt = local[t].attempt /\ local'[t].outcome = local[t].outcome
    BY <1>1, <1>15, LeaveKeeps, LeaveTurn DEF ToolReturns
  <2>3. pc'[t] \in {"record", "readLast", "over"}
    BY <1>1, <1>15, LeaveTurn, GoToTurn DEF ToolReturns
  <2> QED
    BY <1>3, <2>1, <2>2, <2>3 DEF Fresh, Elsewhere
<1>16. CASE ToolFails(t)
  <2>1. CASE Leave(t, "error")
    BY <1>8, <2>1
  <2>2. CASE Set(t, "attempt", local[t].attempt + 1)
    <3>1. local'[t].attempt = local[t].attempt + 1
      BY <1>1, <2>2, SetTurn
    <3> QED
      BY <1>1, <3>1 DEF AttemptOf, Failed, At
  <2> QED
    BY <1>16, <2>1, <2>2 DEF ToolFails
<1>17. CASE ReadItem(t) \/ PersistJob(t)
  BY <1>1, <1>7, <1>17, GoToTurn DEF ReadItem, PersistJob, At, Ending, Over, Logging, Elsewhere
<1>18. CASE CatalogStep(t)
  <2>1. ~(pc[t] = "toolEnd" \/ Ending(t))
    BY <1>18 DEF CatalogStep, At, Ending, Over, Logging, FindRow, PersistRow, CreateParse, ReadRow,
       WriteRow, DeleteRow, RowNotFound
  <2>2. Elsewhere
    BY <1>18, CatalogPlaces DEF Elsewhere, Listed
  <2>3. ASSUME NEW i \in Threads, DeleteRow(t, i) PROVE AttemptOf(t)' /\ (Failed(t) => Failed(t)')
    <3> DEFINE r == [local[t] EXCEPT !.ref = i, !.outcome = "ok"]
    <3>1. local' = [local EXCEPT ![t] = r]
      BY <2>3 DEF DeleteRow
    <3>2. DOMAIN r = Fields /\ r.attempt = local[t].attempt /\ r.outcome = "ok"
      BY <1>1 DEF Shape, Fields
    <3> QED
      BY <1>9, <2>1, <2>2, <3>1, <3>2
  <2>4. CASE FindRow(t) \/ PersistRow(t) \/ CreateParse(t) \/ \E i \in Threads : ReadRow(t, i)
    BY <1>7, <2>1, <2>2, <2>4 DEF FindRow, PersistRow, CreateParse, ReadRow
  <2>5. CASE WriteRow(t) \/ \E i \in Threads : RowNotFound(t, i)
    BY <1>6, <2>1, <2>5 DEF WriteRow, RowNotFound
  <2> QED
    BY <1>18, <2>3, <2>4, <2>5 DEF CatalogStep
<1>19. CASE HoldStep(t)
  <2>1. ~(pc[t] = "toolEnd" \/ Ending(t))
    BY <1>19 DEF HoldStep, At, Ending, Over, Logging, FoundHold, NoHoldYet, Resolve, ApplyLock,
       RecordHold, SetReleased, RefuseRelease, ReleaseLock, LogRelease, BlockedByHold, NotHeld,
       CheckRetention, CheckLock, Unlink, LogCleanup, Put, HoldOfPut, LockPut, Upsert
  <2>2. Elsewhere
    BY <1>19, HoldPlaces DEF Elsewhere, Held
  <2>3. ASSUME NEW h \in Threads, SetReleased(t, h) PROVE AttemptOf(t)' /\ (Failed(t) => Failed(t)')
    <3> DEFINE r == [local[t] EXCEPT !.ref = h, !.uri = holds[h].uri]
    <3>1. local' = [local EXCEPT ![t] = r]
      BY <2>3 DEF SetReleased
    <3>2. DOMAIN r = Fields /\ r.attempt = local[t].attempt /\ r.outcome = local[t].outcome
      BY <1>1 DEF Shape, Fields
    <3>3. local'[t] = r
      BY <1>1, <3>1, <3>2, LocalTurn
    <3> QED
      BY <1>2, <1>5, <2>1, <2>2, <3>2, <3>3
  <2>4. CASE \/ NoHoldYet(t) \/ Resolve(t) \/ ApplyLock(t) \/ NotHeld(t) \/ Put(t) \/ HoldOfPut(t)
             \/ LockPut(t)
    BY <1>7, <2>1, <2>2, <2>4 DEF NoHoldYet, Resolve, ApplyLock, NotHeld, Put, HoldOfPut, LockPut
  <2>5. CASE \/ FoundHold(t) \/ RecordHold(t) \/ RefuseRelease(t) \/ ReleaseLock(t) \/ LogRelease(t)
             \/ BlockedByHold(t) \/ Unlink(t) \/ LogCleanup(t) \/ Upsert(t)
    BY <1>6, <2>1, <2>5 DEF FoundHold, RecordHold, RefuseRelease, ReleaseLock, LogRelease,
       BlockedByHold, Unlink, LogCleanup, Upsert
  <2>6. CASE CheckRetention(t) \/ CheckLock(t)
    BY <1>6, <1>7, <2>1, <2>2, <2>6 DEF CheckRetention, CheckLock
  <2> QED
    BY <1>19, <2>3, <2>4, <2>5, <2>6 DEF HoldStep
<1> QED
  BY <1>10, <1>11, <1>12, <1>13, <1>14, <1>15, <1>16, <1>17, <1>18, <1>19 DEF RequestStep, DlqStep

FlowInv == \A t \in Threads : HoldPlaceOf(t) /\ AttemptOf(t)

LEMMA FlowStep ==
  ASSUME ReviewInv, FlowInv, [Next]_vars
  PROVE  FlowInv' /\ \A t \in Begun : Failed(t) => Failed(t)'
<1>1. ASSUME NEW t \in Threads, \A u \in Threads \ {t} : pc'[u] = pc[u] /\ local'[u] = local[u] /\ req'[u] = req[u],
             HoldPlaceOf(t)', AttemptOf(t)', t \in Begun => (Failed(t) => Failed(t)')
      PROVE  FlowInv' /\ \A u \in Begun : Failed(u) => Failed(u)'
  <2>1. ASSUME NEW u \in Threads \ {t}
        PROVE  HoldPlaceOf(u)' /\ AttemptOf(u)' /\ (Failed(u) => Failed(u)')
    <3>1. HoldPlaceOf(u) /\ AttemptOf(u) /\ pc'[u] = pc[u] /\ local'[u] = local[u] /\ req'[u] = req[u]
      BY <1>1, <2>1 DEF FlowInv
    <3>2. HoldPlaceOf(u)'
      BY <3>1 DEF HoldPlaceOf, At, Doing, IsTool, Logging
    <3>3. AttemptOf(u)' /\ (Failed(u) => Failed(u)')
      BY <3>1 DEF AttemptOf, At, Doing, Ending, Over, Logging, Failed
    <3> QED
      BY <3>2, <3>3
  <2> QED
    BY <1>1, <2>1 DEF FlowInv, Begun
<1>2. ASSUME NEW t \in Threads, NEW r \in traffic, Begin(t, r)
      PROVE  FlowInv' /\ \A u \in Begun : Failed(u) => Failed(u)'
  <2>1. /\ At(t, "idle") /\ AttemptOf(t) /\ HoldPlaceOf(t) /\ req'[t] = r
        /\ \A u \in Threads \ {t} : pc'[u] = pc[u] /\ local'[u] = local[u] /\ req'[u] = req[u]
        /\ "attempt" \in Fields \ {"outcome"} /\ "ref" \in Fields \ {"outcome"}
    BY <1>2, BeginFacts DEF FlowInv, Fields
  <2>2. HoldPlaceOf(t)'
    BY <1>2, <2>1, HoldPlaceStep DEF RequestStep
  <2>3. local'[t].attempt = 1 /\ local'[t].ref = None
    BY <1>2, <2>1, BeginFacts DEF AttemptOf, NoLocals
  <2>4. local'[t].outcome # "error"
    BY <1>2, <2>1, BeginFacts DEF AttemptOf, NoLocals
  <2>5. pc'[t] # "idle"
    BY <1>2, BeginPlaces
  <2>6. AttemptOf(t)'
    BY <2>3, <2>4, <2>5 DEF AttemptOf, At
  <2> QED
    BY <1>1, <2>1, <2>2, <2>6 DEF Begun, At
<1>3. ASSUME NEW t \in Threads,
             \/ RequestStep(t) /\ ~\E r \in traffic : Begin(t, r)
             \/ DlqStep(t) \/ HoldStep(t) \/ CatalogStep(t)
      PROVE  FlowInv' /\ \A u \in Begun : Failed(u) => Failed(u)'
  <2>1. Turns(t) /\ HoldPlaceOf(t) /\ AttemptOf(t)
    BY <1>3, RequestTurns, ComponentTurns DEF FlowInv
  <2>2. HoldPlaceOf(t)' /\ AttemptOf(t)' /\ (Failed(t) => Failed(t)')
    BY <1>3, <2>1, HoldPlaceStep, FailedStays
  <2>3. \A u \in Threads \ {t} : pc'[u] = pc[u] /\ local'[u] = local[u] /\ req'[u] = req[u]
    BY <2>1 DEF Turns, Turn
  <2> QED
    BY <1>1, <2>2, <2>3
<1>4. CASE UNCHANGED thread
  <2>1. UNCHANGED <<pc, local, req>>
    BY <1>4 DEF thread
  <2> QED
    BY <2>1 DEF FlowInv, HoldPlaceOf, AttemptOf, At, Doing, IsTool, Ending, Over, Logging, Failed
<1> QED
  BY <1>2, <1>3, <1>4 DEF Next, RequestStep, vars, RetentionEnds

\* Failures and overlaps are never undone.
LEMMA SmoothWas ==
  ASSUME ReviewInv, FlowInv, [Next]_vars, Smooth'
  PROVE  Smooth
<1>1. OneByOne
  BY OneByOneWas DEF Smooth
<1>2. backend' = backend
  BY DEF Next, RetentionEnds, vars, storage, HoldStep, FoundHold, NoHoldYet, Resolve, ApplyLock,
     RecordHold, SetReleased, RefuseRelease, ReleaseLock, LogRelease, BlockedByHold, NotHeld,
     CheckRetention, CheckLock, Unlink, LogCleanup, Put, HoldOfPut, LockPut, Upsert
<1>3. ASSUME NEW t \in Begun PROVE ~Failed(t)
  <2>1. t \in Begun'
    BY ThreadsStay DEF Stays, Begun, At
  <2>2. ~Failed(t)'
    BY <2>1 DEF Smooth
  <2> QED
    BY <2>2, FlowStep
<1> QED
  BY <1>1, <1>2, <1>3 DEF Smooth

\* What a file or a hold of a report may be.
LEMMA SetLockLocks ==
  ASSUME StorageShape, NEW uri, NEW b, SetLock(uri, b),
         \A u \in Uris : files[u].locked => files[u].exists
  PROVE  /\ \A u \in Uris : files'[u].locked => files'[u].exists
         /\ (backend = "local" /\ uri \in Uris) =>
               files'[uri].locked = IF files[uri].exists THEN b ELSE files[uri].locked
<1>1. PICK done \in LockTakes :
        files' = [files EXCEPT ![uri].locked = IF files[uri].exists /\ done THEN b ELSE @]
  BY DEF SetLock
<1>2. (backend = "local") => done
  BY DEF LockTakes, Answers
<1> QED
  BY <1>1, <1>2 DEF StorageShape

LEMMA LockShapeStep ==
  ASSUME ReviewInv, HoldInv, FlowInv, LockShape, [Next]_vars
  PROVE  LockShape'
<1>1. ASSUME NEW h \in Threads, holds[h].status = "active",
             holds'[h].on = holds[h].on, holds'[h].tenant = holds[h].tenant
      PROVE  ~At(h, "idle")' /\ holds'[h].on = req'[h].on /\ holds'[h].tenant = req'[h].tenant
  BY <1>1, ThreadsStay DEF LockShape, Stays
<1>2. CASE UNCHANGED storage
  <2>1. UNCHANGED <<files, holds, current>>
    BY <1>2 DEF storage
  <2> QED
    BY <1>1, <2>1 DEF LockShape
<1>3. CASE \E u \in Uris : RetentionEnds(u)
  <2>1. UNCHANGED <<holds, current>> /\ \A u \in Uris : files'[u].locked = files[u].locked /\ files'[u].exists = files[u].exists
    BY <1>3 DEF RetentionEnds, HoldInv, StorageShape
  <2> QED
    BY <1>1, <2>1 DEF LockShape
<1>4. ASSUME NEW t \in Threads, HoldStep(t) PROVE LockShape'
  <2>1. ASSUME NEW h \in Threads, holds'[h].status = "active"
        PROVE  ~At(h, "idle")' /\ holds'[h].on = req'[h].on /\ holds'[h].tenant = req'[h].tenant
    <3> PICK x : x = holds'[h].tenant
      OBVIOUS
    <3> PICK o : o = holds'[h].on
      OBVIOUS
    <3>1. Holds(h, x, o) \/ (h = t /\ At(t, "recordHold"))
      BY <1>4, <2>1, StorageMoves DEF Holds
    <3>2. CASE Holds(h, x, o)
      BY <1>1, <3>2 DEF Holds
    <3>3. CASE h = t /\ At(t, "recordHold")
      <4>1. /\ holds' = [holds EXCEPT ![t] = [status |-> "active", on |-> req[t].on,
                                      tenant |-> req[t].tenant, uri |-> local[t].uri]]
        BY <1>4, <3>3 DEF HoldStep, At, FoundHold, NoHoldYet, Resolve, ApplyLock,
           RecordHold, SetReleased, RefuseRelease, ReleaseLock, LogRelease, BlockedByHold, NotHeld,
           CheckRetention, CheckLock, Unlink, LogCleanup, Put, HoldOfPut, LockPut, Upsert
      <4>2. req' = req /\ ~At(t, "idle")'
        BY <1>4, ComponentTurns DEF Turns, Turn
      <4> QED
        BY <3>3, <4>1, <4>2 DEF HoldInv, StorageShape
    <3> QED
      BY <3>1, <3>2, <3>3
  <2>2. ASSUME NEW o \in Objects PROVE current'[o] \in Uris
    <3>1. CASE Upsert(t)
      <4>1. Doing(t, "archive") /\ local[t].uri = PutUri(t)
        BY <3>1 DEF Upsert, FlowInv, HoldPlaceOf, HoldInv, CleanupOf, At, Putting
      <4>2. req[t] \in UNION Traffic
        BY <4>1 DEF ReviewInv, Shape, Doing
      <4>3. PutUri(t) \in Uris
        BY <4>1, <4>2, HeldAssumption DEF Doing, PutUri, Uris
      <4> QED
        BY <3>1, <4>1, <4>3 DEF Upsert, LockShape, HoldInv, StorageShape
    <3>2. CASE ~Upsert(t)
      <4>1. current' = current
        BY <1>4, <3>2 DEF HoldStep, storage, FoundHold, NoHoldYet, Resolve, ApplyLock,
           RecordHold, SetReleased, RefuseRelease, ReleaseLock, LogRelease, BlockedByHold, NotHeld,
           CheckRetention, CheckLock, Unlink, LogCleanup, Put, HoldOfPut, LockPut
      <4> QED
        BY <4>1 DEF LockShape
    <3> QED
      BY <3>1, <3>2
  <2>3. \A u \in Uris : files'[u].locked => files'[u].exists
    <3>1. CASE ApplyLock(t) \/ ReleaseLock(t) \/ LockPut(t)
      BY <3>1, SetLockLocks DEF ApplyLock, ReleaseLock, LockPut, HoldInv, LockShape
    <3>2. CASE Unlink(t)
      BY <3>2 DEF Unlink, Missing, HoldInv, StorageShape, LockShape
    <3>3. CASE Put(t)
      <4>1. files' = files \/ \E r : files' = [files EXCEPT ![PutUri(t)] = Stored(r)]
        BY <3>3 DEF Put
      <4> QED
        BY <4>1 DEF Stored, HoldInv, StorageShape, LockShape
    <3>4. CASE ~(ApplyLock(t) \/ ReleaseLock(t) \/ LockPut(t) \/ Unlink(t) \/ Put(t))
      <4>1. files' = files
        BY <1>4, <3>4 DEF HoldStep, storage, FoundHold, NoHoldYet, Resolve,
           RecordHold, SetReleased, RefuseRelease, LogRelease, BlockedByHold, NotHeld,
           CheckRetention, CheckLock, LogCleanup, HoldOfPut, Upsert
      <4> QED
        BY <4>1 DEF LockShape
    <3> QED
      BY <3>1, <3>2, <3>3, <3>4
  <2> QED
    BY <2>1, <2>2, <2>3 DEF LockShape
<1> QED
  BY <1>2, <1>3, <1>4 DEF Next, vars

\* What a step may do to a report it does not concern: unlink one of its files.
Alike(o) ==
    /\ current'[o] = current[o] /\ HoldsOn(o)' = HoldsOn(o)
    /\ \A h \in HoldsOn(o) : holds'[h].uri = holds[h].uri
    /\ \A w \in Uris : w[1] = o =>
          /\ files'[w].locked => files[w].locked
          /\ files'[w].exists => files[w].exists /\ (files[w].locked => files'[w].locked)

\* What was archived has been archived.
LEMMA ArchivedStays ==
  ASSUME ReviewInv, [Next]_vars, NEW o, current'[o] = current[o]
  PROVE  (Replaced(o) => Replaced(o)') /\ (Returned(o) => Returned(o)')
<1> PICK c : c = current[o]
  OBVIOUS
<1>1. ASSUME NEW u \in Threads, ~At(u, "idle")
      PROVE  /\ ~At(u, "idle")' /\ req'[u] = req[u] /\ before'[u] = before[u]
             /\ Over(u) => Over(u)'
             /\ Archives(u, o)' <=> Archives(u, o)
             /\ PutUri(u)' = PutUri(u)
  BY <1>1, ThreadsStay DEF Stays, Over, Archives, Doing, PutUri
<1>2. ASSUME Replaced(o) PROVE Replaced(o)'
  <2>1. PICK u \in Threads : ~At(u, "idle") /\ Over(u) /\ Archives(u, o) /\ PutUri(u) = c
    BY <1>2 DEF Replaced, Begun, At
  <2> QED
    BY <1>1, <2>1 DEF Replaced, Begun, At
<1>3. ASSUME Returned(o) PROVE Returned(o)'
  <2>1. PICK u \in Threads : /\ ~At(u, "idle") /\ Worm /\ Archives(u, o) /\ PutUri(u) = c
                             /\ \E w \in before[u] : Archives(w, o) /\ PutUri(w) # c
    BY <1>3 DEF Returned, Begun, At
  <2>2. PICK w \in before[u] : Archives(w, o) /\ PutUri(w) # c
    BY <2>1
  <2>3. w \in Threads /\ ~At(w, "idle")
    BY <2>2 DEF ReviewInv, ThreadInv, BeforeOf, Over, At
  <2>4. /\ ~At(u, "idle")' /\ Archives(u, o)' /\ PutUri(u)' = c
        /\ w \in before'[u] /\ Archives(w, o)' /\ PutUri(w)' # c
    BY <1>1, <2>1, <2>2, <2>3
  <2> QED
    BY <2>1, <2>4 DEF Returned, Begun, At
<1> QED
  BY <1>2, <1>3

LEMMA AlikeKeeps ==
  ASSUME ReviewInv, HoldInv, LockShape, [Next]_vars, NEW o \in Objects, Alike(o)
  PROVE  /\ HeldOnce(o) => HeldOnce(o)'
         /\ \A v : Follow(o, v) => Follow(o, v)'
         /\ \A v \in Uris : v[1] = o /\ Guarded(o, v) => Guarded(o, v)'
         /\ Freed(o) => Freed(o)'
         /\ Explained(o) => Explained(o)'
         /\ Calm(o) => Calm(o)'
<1> PICK c : c = current[o]
  OBVIOUS
<1>1. /\ current'[o] = c /\ c \in Uris /\ c[1] = o
      /\ (Replaced(o) => Replaced(o)') /\ (Returned(o) => Returned(o)')
  BY ArchivedStays DEF Alike, HoldInv, StorageShape, LockShape
<1>2. HeldOnce(o) => HeldOnce(o)'
  BY DEF HeldOnce, Alike
<1>3. \A v : Follow(o, v) => Follow(o, v)'
  BY DEF Follow, Alike
<1>4. \A v \in Uris : v[1] = o /\ Guarded(o, v) => Guarded(o, v)'
  BY DEF Guarded, Alike
<1>5. Freed(o) => Freed(o)'
  BY <1>1 DEF Freed, Alike
<1>6. Explained(o) => Explained(o)'
  BY <1>1 DEF Explained, Alike
<1>7. ASSUME Follow(o, c), Guarded(o, c)
      PROVE  Follow(o, current[o])' /\ Guarded(o, current[o])'
  BY <1>1, <1>7 DEF Follow, Guarded, Alike
<1>8. Calm(o) => Calm(o)'
  BY <1>2, <1>5, <1>6, <1>7 DEF Calm
<1> QED
  BY <1>2, <1>3, <1>4, <1>5, <1>6, <1>8

LEMMA UnlockedPhase ==
  ASSUME NEW t, pc'[t] \notin {"resolve", "applyLock", "recordHold", "releaseLock"} \union Putting
  PROVE  PhaseOf(t)'
BY DEF PhaseOf, ImposeOf, ReleaseOf, ArchiveOf, At, Putting

\* A request waits while another's step concerns neither its report nor holds.
LEMMA PhaseWaits ==
  ASSUME ReviewInv, HoldInv, LockShape, [Next]_vars, NEW u \in Threads, PhaseOf(u),
         pc'[u] = pc[u], local'[u] = local[u], req'[u] = req[u], holds' = holds,
         \A o \in Objects : Alike(o)
  PROVE  PhaseOf(u)'
<1> SUFFICES ASSUME NEW o \in Objects, ~At(u, "idle")', req'[u].on = o
             PROVE  /\ ImposeOf(u, o)' /\ ReleaseOf(u, o)'
                    /\ \A v \in Uris : PutUri(u)' = v => ArchiveOf(u, o, v)'
  BY DEF PhaseOf
<1> PICK c : c = current[o]
  OBVIOUS
<1>1. /\ ImposeOf(u, o) /\ ReleaseOf(u, o)
      /\ \A v \in Uris : PutUri(u) = v => ArchiveOf(u, o, v)
      /\ PutUri(u)' = PutUri(u) /\ PutUri(u)[1] = o
      /\ (\A k : Doing(u, k)' <=> Doing(u, k))
      /\ Mine(u)' <=> Mine(u)
  BY DEF PhaseOf, At, PutUri, Doing, Mine
<1>2. /\ current'[o] = c /\ HoldsOn(o)' = HoldsOn(o) /\ c \in Uris /\ c[1] = o
      /\ \A w \in Uris : w[1] = o =>
          /\ files'[w].locked => files[w].locked
          /\ files'[w].exists => files[w].exists /\ (files[w].locked => files'[w].locked)
  BY DEF Alike, HoldInv, StorageShape, LockShape
<1>3. /\ HeldOnce(o) => HeldOnce(o)'
      /\ \A v : Follow(o, v) => Follow(o, v)'
      /\ \A v \in Uris : v[1] = o /\ Guarded(o, v) => Guarded(o, v)'
      /\ Freed(o) => Freed(o)'
      /\ Explained(o) => Explained(o)'
  BY AlikeKeeps
<1>4. ImposeOf(u, o)'
  BY <1>1, <1>2, <1>3 DEF ImposeOf, At
<1>5. ReleaseOf(u, o)'
  BY <1>1, <1>2, <1>3 DEF ReleaseOf, At
<1>6. ASSUME NEW v \in Uris, PutUri(u)' = v PROVE ArchiveOf(u, o, v)'
  <2>1. v[1] = o /\ ArchiveOf(u, o, v)
    BY <1>1, <1>6
  <2> QED
    BY <1>2, <1>3, <2>1 DEF ArchiveOf, At
<1> QED
  BY <1>4, <1>5, <1>6

\* Steps that leave holds alone.
LEMMA LockQuiet ==
  ASSUME ReviewInv, HoldInv, FlowInv, LockInv, [Next]_vars, NEW t \in Threads, holds' = holds,
         \A u \in Threads \ {t} : pc'[u] = pc[u] /\ local'[u] = local[u] /\ req'[u] = req[u],
         \A o \in Objects : Alike(o),
         Smooth' => pc[t] \notin Midway /\ PhaseOf(t)'
  PROVE  LockInv'
<1>1. LockShape' /\ LockShape
  BY LockShapeStep DEF LockInv
<1> SUFFICES ASSUME Smooth'
             PROVE  /\ ForeignHolds'
                    /\ \A o \in Objects : Working(o)' \/ Calm(o)'
                    /\ \A u \in Threads : PhaseOf(u)'
  BY <1>1 DEF LockInv
<1>2. /\ Smooth /\ ForeignHolds /\ pc[t] \notin Midway /\ PhaseOf(t)'
      /\ \A o \in Objects : Working(o) \/ Calm(o)
      /\ \A u \in Threads : PhaseOf(u)
  BY SmoothWas DEF LockInv
<1>3. ForeignHolds'
  BY <1>2 DEF ForeignHolds
<1>4. ASSUME NEW o \in Objects PROVE Working(o)' \/ Calm(o)'
  <2>1. CASE Calm(o)
    BY <1>1, <2>1, AlikeKeeps
  <2>2. CASE Working(o)
    BY <1>2, <2>2 DEF Working, Mine
  <2> QED
    BY <1>2, <2>1, <2>2
<1>5. ASSUME NEW u \in Threads \ {t} PROVE PhaseOf(u)'
  BY <1>1, <1>2, PhaseWaits
<1> QED
  BY <1>2, <1>3, <1>4, <1>5

\* The one request that is served takes a step of its own on report o.
Acts(t, o) ==
    /\ ReviewInv /\ HoldInv /\ FlowInv /\ LockInv /\ Smooth
    /\ HoldStep(t) /\ [Next]_vars
    /\ o \in Objects /\ req[t].on = o

LEMMA ActsFacts ==
  ASSUME NEW t \in Threads, NEW o, Acts(t, o)
  PROVE  /\ Shape /\ StorageShape /\ LockShape /\ ForeignHolds /\ HoldPlaceOf(t) /\ CleanupOf(t)
         /\ AttemptOf(t) /\ local[t].attempt = 1 /\ backend = "local"
         /\ Turns(t) /\ req' = req /\ (Mine(t)' <=> Mine(t)) /\ PutUri(t)' = PutUri(t)
         /\ ~At(t, "idle") /\ ~Over(t) /\ req[t] \in UNION Traffic
         /\ current[o] \in Uris /\ current[o][1] = o /\ current[o] # None
         /\ ImposeOf(t, o) /\ ReleaseOf(t, o)
         /\ \A v \in Uris : PutUri(t) = v => ArchiveOf(t, o, v)
         /\ (pc[t] \notin Midway \/ ~Mine(t)) => Calm(o)
         /\ \A w \in Objects : w # o => Calm(w)
         /\ \A u \in Threads \ {t} : pc[u] \in {"idle", "over"} /\ pc'[u] = pc[u]
<1>1. /\ Shape /\ StorageShape /\ LockShape /\ ForeignHolds /\ HoldPlaceOf(t) /\ AttemptOf(t)
      /\ CleanupOf(t)
      /\ PhaseOf(t) /\ backend = "local" /\ \A w \in Objects : Working(w) \/ Calm(w)
  BY DEF Acts, ReviewInv, HoldInv, FlowInv, LockInv, Smooth
<1>2. Turns(t) /\ req' = req /\ ~At(t, "idle") /\ ~Over(t)
  BY ComponentTurns DEF Acts, Turns, Turn
<1>3. local[t].attempt = 1 /\ req[t] \in UNION Traffic
  BY <1>2, BegunKnown DEF Acts, Smooth, Begun, At, Failed
<1>4. current[o] \in Uris /\ current[o][1] = o /\ current[o] # None
  BY <1>1, LegalHoldAssumption DEF Acts, LockShape, StorageShape, Uris
<1>5. ASSUME NEW u \in Threads \ {t} PROVE pc[u] \in {"idle", "over"} /\ pc'[u] = pc[u]
  <2>1. u \notin Begun \/ Over(u)
    BY <1>2, <1>5, OneIsServed DEF Acts, Smooth, Begun, At
  <2> QED
    BY <1>2, <2>1 DEF Begun, At, Over, Turns, Turn
<1>6. \A w \in Objects : Working(w) => pc[t] \in Midway /\ w = o /\ Mine(t)
  BY <1>5 DEF Working, Midway, Putting, Acts
<1>7. /\ (pc[t] \notin Midway \/ ~Mine(t)) => Calm(o)
      /\ \A w \in Objects : w # o => Calm(w)
  BY <1>1, <1>6 DEF Acts
<1>8. /\ ImposeOf(t, o) /\ ReleaseOf(t, o)
      /\ \A v \in Uris : PutUri(t) = v => ArchiveOf(t, o, v)
  BY <1>1, <1>2 DEF PhaseOf, Acts
<1>9. (Mine(t)' <=> Mine(t)) /\ PutUri(t)' = PutUri(t)
  BY <1>2 DEF Mine, PutUri
<1> QED
  BY <1>1, <1>2, <1>3, <1>4, <1>5, <1>7, <1>8, <1>9

LEMMA LockMoves ==
  ASSUME NEW t \in Threads, NEW o, Acts(t, o), ForeignHolds',
         \A w \in Objects : w # o => Alike(w),
         ImposeOf(t, o)', ReleaseOf(t, o)',
         \A v \in Uris : PutUri(t) = v => ArchiveOf(t, o, v)',
         (pc'[t] \in Midway /\ Mine(t)) \/ Calm(o)'
  PROVE  LockInv'
<1>1. LockShape'
  BY LockShapeStep DEF Acts, LockInv
<1>2. /\ req' = req /\ PutUri(t)' = PutUri(t) /\ (Mine(t)' <=> Mine(t)) /\ o \in Objects /\ req[t].on = o
      /\ \A w \in Objects : w # o => Calm(w)
      /\ \A u \in Threads \ {t} : pc'[u] \in {"idle", "over"}
  BY ActsFacts DEF Acts
<1>3. ASSUME NEW w \in Objects PROVE Working(w)' \/ Calm(w)'
  <2>1. CASE w = o
    BY <1>2, <2>1 DEF Working
  <2>2. CASE w # o
    BY <1>2, <2>2, AlikeKeeps, ActsFacts DEF Acts
  <2> QED
    BY <2>1, <2>2
<1>4. ASSUME NEW u \in Threads \ {t} PROVE PhaseOf(u)'
  <2>1. pc'[u] \notin {"resolve", "applyLock", "recordHold", "releaseLock"} \union Putting
    BY <1>2 DEF Putting
  <2> QED
    BY <2>1, UnlockedPhase
<1>5. PhaseOf(t)'
  BY <1>2 DEF PhaseOf
<1> QED
  BY <1>1, <1>3, <1>4, <1>5 DEF LockInv

\* Where no phase begins, only holds and files are to be looked at.
LEMMA LockEnds ==
  ASSUME NEW t \in Threads, NEW o, Acts(t, o), ForeignHolds',
         \A w \in Objects : w # o => Alike(w), Calm(o)',
         pc'[t] \notin {"resolve", "applyLock", "recordHold", "releaseLock"} \union Putting
  PROVE  LockInv'
<1>1. ImposeOf(t, o)' /\ ReleaseOf(t, o)' /\ \A v : ArchiveOf(t, o, v)'
  BY DEF ImposeOf, ReleaseOf, ArchiveOf, At, Putting
<1> QED
  BY <1>1, LockMoves

LEMMA LockResolves ==
  ASSUME NEW t \in Threads, NEW o, Acts(t, o), Resolve(t)
  PROVE  LockInv'
<1> PICK c : c = current[o]
  OBVIOUS
<1>1. /\ Shape /\ StorageShape /\ LockShape /\ ForeignHolds /\ HoldPlaceOf(t) /\ Turns(t)
      /\ current[o] \in Uris /\ c # None /\ o \in Objects /\ req[t].on = o /\ req' = req
      /\ ImposeOf(t, o) /\ ReleaseOf(t, o) /\ (Mine(t)' <=> Mine(t))
      /\ At(t, "resolve") /\ Calm(o) /\ "uri" \in Fields
  BY ActsFacts DEF Acts, Resolve, At, Midway, Putting, Fields
<1>2. /\ UNCHANGED <<files, current>> /\ local'[t].uri = Resolved(t)
      /\ pc'[t] = AfterResolve(t, Resolved(t))
  BY <1>1, SetTurn, GoToTurn DEF Resolve
<1>3. /\ DOMAIN holds' = Threads
      /\ \A h \in Threads : /\ holds'[h].status = holds[h].status /\ holds'[h].on = holds[h].on
                            /\ holds'[h].tenant = holds[h].tenant
                            /\ holds[h].status = "active" => holds'[h].uri = holds[h].uri
  <2>1. CASE ~Doing(t, "release")
    BY <1>1, <2>1 DEF Resolve, StorageShape
  <2>2. CASE Doing(t, "release")
    <3>1. PICK h \in Threads : h = local[t].ref /\ holds[h].status # "active"
      BY <1>1, <2>2 DEF ReleaseOf
    <3>2. holds' = [holds EXCEPT ![h].uri = Resolved(t)]
      BY <2>2, <3>1 DEF Resolve
    <3> QED
      BY <1>1, <3>1, <3>2 DEF StorageShape
  <2> QED
    BY <2>1, <2>2
<1>4. \A w \in Objects : HoldsOn(w)' = HoldsOn(w)
  BY <1>3 DEF HoldsOn, ActiveHolds
<1>5. \A w \in Objects : Alike(w)
  BY <1>2, <1>3, <1>4 DEF Alike, HoldsOn, ActiveHolds
<1>6. ForeignHolds'
  BY <1>1, <1>3 DEF ForeignHolds
<1>7. Calm(o)'
  BY <1>1, <1>5, AlikeKeeps DEF Acts
<1>8. \A k : Doing(t, k)' <=> Doing(t, k)
  BY <1>1 DEF Doing
<1>9. CASE Doing(t, "impose")
  <2>1. pc'[t] = IF Mine(t) THEN "applyLock" ELSE "recordHold"
    <3>1. pc'[t] = IF Resolved(t) = None THEN "recordHold" ELSE "applyLock"
      <4>1. ~Doing(t, "cleanup")
        BY <1>9 DEF Doing
      <4> QED
        BY <1>2, <1>9, <4>1 DEF AfterResolve
    <3>2. Resolved(t) = IF Mine(t) THEN c ELSE None
      BY <1>1 DEF Resolved, Mine
    <3> QED
      BY <1>1, <3>1, <3>2
  <2>2. local'[t].uri = IF Mine(t) THEN c ELSE None
    BY <1>1, <1>2 DEF Resolved, Mine
  <2>3. Mine(t) => HoldsOn(o)' = {}
    BY <1>1, <1>4, <1>9 DEF ImposeOf, At
  <2>4. ImposeOf(t, o)'
    BY <1>1, <1>2, <2>1, <2>2, <2>3 DEF ImposeOf, At
  <2>5. /\ ReleaseOf(t, o)'
        /\ \A v : ArchiveOf(t, o, v)'
    <3>1. /\ pc'[t] # "resolve" /\ pc'[t] # "releaseLock" /\ pc'[t] # "holdOfPut"
          /\ pc'[t] # "lockPut" /\ pc'[t] # "upsert"
      BY <2>1
    <3>2. ReleaseOf(t, o)'
      BY <3>1 DEF ReleaseOf, At
    <3>3. \A v : ArchiveOf(t, o, v)'
      BY <3>1 DEF ArchiveOf, At
    <3> QED
      BY <3>2, <3>3
  <2> QED
    BY <1>5, <1>6, <1>7, <2>4, <2>5, LockMoves
<1>10. CASE ~Doing(t, "impose")
  <2>1. Doing(t, "cleanup") \/ Doing(t, "release")
    BY <1>1, <1>10 DEF HoldPlaceOf
  <2>2. Doing(t, "release") => Resolved(t) = None
    BY <1>1 DEF ReleaseOf, Resolved, Mine
  <2>3. pc'[t] \in {"logCleanup", "checkRetention", "logRelease"}
    BY <1>2, <1>10, <2>1, <2>2 DEF AfterResolve
  <2>4. pc'[t] \notin {"resolve", "applyLock", "recordHold", "releaseLock"} \union Putting
    BY <2>3 DEF Putting
  <2> QED
    BY <1>5, <1>6, <1>7, <2>4, LockEnds
<1> QED
  BY <1>9, <1>10

\* A lock is set or taken off one file of a report.
LEMMA LockIsSet ==
  ASSUME NEW t \in Threads, NEW o, Acts(t, o), NEW v \in Uris, v[1] = o, NEW b, SetLock(v, b),
         UNCHANGED <<holds, current>>
  PROVE  /\ IF files[v].exists THEN files'[v].locked = b ELSE ~files'[v].locked
         /\ files'[v].exists = files[v].exists
         /\ \A u \in Uris : u # v => files'[u] = files[u]
         /\ \A w \in Objects : w # o => Alike(w)
         /\ ForeignHolds' /\ HoldsOn(o)' = HoldsOn(o)
         /\ HeldOnce(o)' <=> HeldOnce(o)
         /\ Follow(o, v)' <=> Follow(o, v)
<1>1. StorageShape /\ LockShape /\ ForeignHolds /\ backend = "local" /\ o \in Objects
  BY ActsFacts DEF Acts
<1>2. /\ files'[v].locked = IF files[v].exists THEN b ELSE files[v].locked
      /\ files'[v].exists = files[v].exists
      /\ \A u \in Uris : u # v => files'[u] = files[u]
  BY <1>1, SetLockLocks, SetLockFiles DEF LockShape
<1>3. ~files[v].exists => ~files[v].locked
  BY <1>1 DEF LockShape
<1> QED
  BY <1>1, <1>2, <1>3 DEF Alike, ForeignHolds, HoldsOn, ActiveHolds, HeldOnce, Follow

LEMMA LockApplied ==
  ASSUME NEW t \in Threads, NEW o, Acts(t, o), ApplyLock(t)
  PROVE  LockInv'
<1> PICK c : c = current[o]
  OBVIOUS
<1>1. /\ Shape /\ HoldPlaceOf(t) /\ Turns(t) /\ c \in Uris /\ c[1] = o /\ o \in Objects
      /\ ImposeOf(t, o) /\ (Mine(t)' <=> Mine(t)) /\ req' = req
      /\ At(t, "applyLock") /\ Calm(o)
  BY ActsFacts DEF Acts, ApplyLock, At, Midway, Putting
<1>2. Doing(t, "impose") /\ Mine(t) /\ HoldsOn(o) = {} /\ local[t].uri = c
  BY <1>1 DEF HoldPlaceOf, ImposeOf, At
<1>3. /\ UNCHANGED <<holds, current, local>> /\ SetLock(c, TRUE) /\ pc'[t] = "recordHold"
  BY <1>1, <1>2, GoToTurn DEF ApplyLock
<1>4. /\ files'[c].exists => files'[c].locked
      /\ \A u \in Uris : u # c => files'[u] = files[u]
      /\ \A w \in Objects : w # o => Alike(w)
      /\ ForeignHolds' /\ HoldsOn(o)' = {}
  BY <1>1, <1>2, <1>3, LockIsSet
<1>5. Explained(o)'
  <2>1. Explained(o) /\ (Replaced(o) => Replaced(o)') /\ current'[o] = c
    BY <1>1, <1>3, ArchivedStays DEF Calm, Acts
  <2> QED
    BY <1>4, <2>1 DEF Explained
<1>6. ImposeOf(t, o)'
  BY <1>1, <1>2, <1>3, <1>4, <1>5 DEF ImposeOf, At
<1>7. ReleaseOf(t, o)' /\ \A v : ArchiveOf(t, o, v)'
  BY <1>3 DEF ReleaseOf, ArchiveOf, At
<1> QED
  BY <1>2, <1>3, <1>4, <1>6, <1>7, LockMoves DEF Midway

LEMMA LockRecorded ==
  ASSUME NEW t \in Threads, NEW o, Acts(t, o), RecordHold(t)
  PROVE  LockInv'
<1> PICK c : c = current[o]
  OBVIOUS
<1>1. /\ Shape /\ StorageShape /\ LockShape /\ ForeignHolds /\ HoldPlaceOf(t) /\ Turns(t)
      /\ c \in Uris /\ c[1] = o /\ o \in Objects /\ req[t].on = o
      /\ ImposeOf(t, o) /\ At(t, "recordHold") /\ (~Mine(t) => Calm(o))
  BY ActsFacts DEF Acts, RecordHold
<1>2. Doing(t, "impose")
  BY <1>1 DEF HoldPlaceOf, At
<1>3. /\ UNCHANGED <<files, current>> /\ pc'[t] = "readLast"
      /\ holds' = [holds EXCEPT ![t] = [status |-> "active", on |-> req[t].on,
                                      tenant |-> req[t].tenant, uri |-> local[t].uri]]
  BY <1>1, LogTurn DEF RecordHold
<1>4. \A h \in Threads : h # t => holds'[h] = holds[h]
  BY <1>1, <1>3 DEF StorageShape
<1>5. /\ holds'[t].status = "active" /\ holds'[t].on = o /\ holds'[t].tenant = req[t].tenant
      /\ holds'[t].uri = local[t].uri
  BY <1>1, <1>3 DEF StorageShape
<1>6. holds[t].status = "active" => holds[t].on = o /\ holds[t].tenant = req[t].tenant
  BY <1>1 DEF LockShape
<1>7. \A w \in Objects : (w # o \/ ~Mine(t)) => HoldsOn(w)' = HoldsOn(w) /\ t \notin HoldsOn(w)
  BY <1>1, <1>4, <1>5, <1>6 DEF HoldsOn, ActiveHolds, Mine
<1>8. \A w \in Objects : (w # o \/ ~Mine(t)) => Alike(w)
  BY <1>3, <1>4, <1>7 DEF Alike, HoldsOn, ActiveHolds
<1>9. Mine(t) => /\ HoldsOn(o)' = {t} /\ local[t].uri = c /\ Explained(o)
                 /\ files[c].exists => files[c].locked
  <2> SUFFICES ASSUME Mine(t)
               PROVE  /\ HoldsOn(o)' = {t} /\ local[t].uri = c /\ Explained(o)
                      /\ files[c].exists => files[c].locked
    OBVIOUS
  <2>1. /\ HoldsOn(o) = {} /\ local[t].uri = c /\ Explained(o)
        /\ files[c].exists => files[c].locked
    BY <1>1, <1>2 DEF ImposeOf, At
  <2>2. HoldsOn(o)' = {t}
    BY <1>1, <1>4, <1>5, <2>1 DEF HoldsOn, ActiveHolds, Mine
  <2> QED
    BY <2>1, <2>2
<1>10. ForeignHolds'
  <2>1. ~Mine(t) => local[t].uri = None
    BY <1>1, <1>2 DEF ImposeOf, At
  <2> QED
    BY <1>1, <1>4, <1>5, <2>1 DEF ForeignHolds, Mine
<1>11. Calm(o)'
  <2>1. CASE ~Mine(t)
    BY <1>1, <1>8, <2>1, AlikeKeeps DEF Acts
  <2>2. CASE Mine(t)
    <3>1. (Replaced(o) => Replaced(o)') /\ current'[o] = c
      BY <1>3, ArchivedStays DEF Acts
    <3>2. Explained(o)'
      BY <1>3, <1>9, <2>2, <3>1 DEF Explained
    <3>3. HeldOnce(o)' /\ Freed(o)'
      BY <1>9, <2>2 DEF HeldOnce, Freed
    <3>4. Follow(o, current[o])' /\ Guarded(o, current[o])'
      BY <1>3, <1>5, <1>9, <2>2, <3>1 DEF Follow, Guarded
    <3> QED
      BY <3>2, <3>3, <3>4 DEF Calm
  <2> QED
    BY <2>1, <2>2
<1>12. pc'[t] \notin {"resolve", "applyLock", "recordHold", "releaseLock"} \union Putting
  BY <1>3 DEF Putting
<1> QED
  BY <1>8, <1>10, <1>11, <1>12, LockEnds

LEMMA LockReleased ==
  ASSUME NEW t \in Threads, NEW o, Acts(t, o), NEW h \in Threads, SetReleased(t, h)
  PROVE  LockInv'
<1> PICK c : c = current[o]
  OBVIOUS
<1>1. /\ Shape /\ StorageShape /\ LockShape /\ ForeignHolds /\ HoldPlaceOf(t) /\ AttemptOf(t) /\ Turns(t)
      /\ c \in Uris /\ c # None /\ o \in Objects /\ req[t].on = o /\ req' = req
      /\ local[t].attempt = 1 /\ At(t, "setReleased") /\ Calm(o) /\ (Mine(t)' <=> Mine(t))
  BY ActsFacts DEF Acts, SetReleased, At, Midway, Putting
<1>2. Doing(t, "release") /\ local[t].ref = None
  BY <1>1 DEF HoldPlaceOf, AttemptOf, At
<1>3. holds[h].on = o /\ holds[h].tenant = req[t].tenant /\ holds[h].status = "active"
  BY <1>1, <1>2 DEF SetReleased, Named
<1>4. /\ UNCHANGED <<files, current>>
      /\ local'[t].ref = h /\ local'[t].uri = holds[h].uri
      /\ pc'[t] = IF holds[h].uri = None THEN "resolve" ELSE "releaseLock"
  <2>1. local' = [local EXCEPT ![t] = [local[t] EXCEPT !.ref = h, !.uri = holds[h].uri]]
    BY DEF SetReleased
  <2>2. DOMAIN local = Threads /\ DOMAIN local[t] = Fields /\ {"ref", "uri"} \subseteq Fields
    BY <1>1 DEF Shape, Fields
  <2>3. local'[t].ref = h /\ local'[t].uri = holds[h].uri
    BY <2>1, <2>2
  <2> QED
    BY <1>1, <2>3, GoToTurn DEF SetReleased
<1>5. /\ holds'[h].status = "released"
      /\ \A k \in Threads : k # h => holds'[k] = holds[k]
  BY <1>1 DEF SetReleased, StorageShape
<1>6. ForeignHolds'
  BY <1>1, <1>5 DEF ForeignHolds
<1>7. \A w \in Objects : (w # o \/ ~Mine(t)) => HoldsOn(w)' = HoldsOn(w) /\ h \notin HoldsOn(w)
  BY <1>1, <1>3, <1>5 DEF HoldsOn, ActiveHolds, Mine
<1>8. \A w \in Objects : (w # o \/ ~Mine(t)) => Alike(w)
  BY <1>4, <1>5, <1>7 DEF Alike, HoldsOn, ActiveHolds
<1>9. CASE Mine(t)
  <2>1. h \in HoldsOn(o)
    BY <1>1, <1>3, <1>9 DEF HoldsOn, ActiveHolds, Mine
  <2>2. HoldsOn(o) = {h} /\ holds[h].uri = c
    BY <1>1, <2>1 DEF Calm, HeldOnce, Follow
  <2>3. HoldsOn(o)' = {}
    BY <1>5, <2>2 DEF HoldsOn, ActiveHolds
  <2>4. pc'[t] = "releaseLock" /\ local'[t].uri = c /\ current'[o] = c
    BY <1>1, <1>4, <2>2
  <2>5. Explained(o)'
    <3>1. Explained(o) /\ (Replaced(o) => Replaced(o)')
      BY <1>1, <2>4, ArchivedStays DEF Calm, Acts
    <3> QED
      BY <1>4, <2>4, <3>1 DEF Explained
  <2>6. ReleaseOf(t, o)'
    BY <1>1, <1>9, <2>3, <2>4, <2>5 DEF ReleaseOf, At
  <2>7. ImposeOf(t, o)' /\ \A v : ArchiveOf(t, o, v)'
    BY <2>4 DEF ImposeOf, ArchiveOf, At
  <2> QED
    BY <1>6, <1>8, <1>9, <2>4, <2>6, <2>7, LockMoves DEF Midway
<1>10. CASE ~Mine(t)
  <2>1. holds[h].uri = None
    BY <1>1, <1>3, <1>10 DEF ForeignHolds, Mine
  <2>2. pc'[t] = "resolve" /\ ~Doing(t, "impose")'
    BY <1>1, <1>2, <1>4, <2>1 DEF Doing
  <2>3. Calm(o)'
    BY <1>1, <1>8, <1>10, AlikeKeeps DEF Acts
  <2>4. ReleaseOf(t, o)'
    BY <1>1, <1>4, <1>5, <1>10, <2>2 DEF ReleaseOf, At
  <2>5. ImposeOf(t, o)' /\ \A v : ArchiveOf(t, o, v)'
    BY <2>2 DEF ImposeOf, ArchiveOf, At
  <2> QED
    BY <1>6, <1>8, <2>3, <2>4, <2>5, LockMoves
<1> QED
  BY <1>9, <1>10

LEMMA LockTakenOff ==
  ASSUME NEW t \in Threads, NEW o, Acts(t, o), ReleaseLock(t)
  PROVE  LockInv'
<1> PICK c : c = current[o]
  OBVIOUS
<1>1. /\ Shape /\ c \in Uris /\ c[1] = o /\ o \in Objects /\ ReleaseOf(t, o) /\ At(t, "releaseLock")
  BY ActsFacts DEF Acts, ReleaseLock
<1>2. local[t].uri = c /\ HoldsOn(o) = {} /\ Explained(o)
  BY <1>1 DEF ReleaseOf
<1>3. UNCHANGED <<holds, current>> /\ SetLock(c, FALSE) /\ pc'[t] = "readLast"
  BY <1>1, <1>2, LogTurn DEF ReleaseLock
<1>4. /\ ~files'[c].locked
      /\ \A u \in Uris : u # c => files'[u] = files[u]
      /\ \A w \in Objects : w # o => Alike(w)
      /\ ForeignHolds' /\ HoldsOn(o)' = {}
  BY <1>1, <1>2, <1>3, LockIsSet
<1>5. (Replaced(o) => Replaced(o)') /\ current'[o] = c
  BY <1>3, ArchivedStays DEF Acts
<1>6. Explained(o)' /\ Freed(o)' /\ HeldOnce(o)' /\ Follow(o, current[o])' /\ Guarded(o, current[o])'
  BY <1>2, <1>4, <1>5 DEF Explained, Freed, HeldOnce, Follow, Guarded
<1>7. pc'[t] \notin {"resolve", "applyLock", "recordHold", "releaseLock"} \union Putting
  BY <1>3 DEF Putting
<1> QED
  BY <1>4, <1>6, <1>7, LockEnds DEF Calm

\* A report is archived by its tenant, one of its versions.
LEMMA ArchiveFacts ==
  ASSUME NEW t \in Threads, NEW o, Acts(t, o), pc[t] \in {"put"} \union Putting
  PROVE  /\ Doing(t, "archive") /\ Mine(t) /\ PutUri(t) \in Uris /\ PutUri(t)[1] = o
         /\ MyHolds(t) = HoldsOn(o) /\ ~IsTool(t)
         /\ pc[t] \in Putting => local[t].uri = PutUri(t)
<1>1. /\ HoldPlaceOf(t) /\ CleanupOf(t) /\ req[t] \in UNION Traffic /\ req[t].on = o
  BY ActsFacts DEF Acts
<1>2. Doing(t, "archive")
  BY <1>1 DEF HoldPlaceOf
<1>3. o \in Objects /\ req[t].body \in Versions /\ req[t].tenant = Owner[o]
  BY <1>1, <1>2, HeldAssumption DEF Doing
<1> QED
  BY <1>1, <1>2, <1>3 DEF Mine, PutUri, Uris, MyHolds, HoldsOn, CleanupOf, Putting, IsTool, Doing

LEMMA LockPutting ==
  ASSUME NEW t \in Threads, NEW o, Acts(t, o), Put(t)
  PROVE  LockInv'
<1> PICK c : c = current[o]
  OBVIOUS
<1> PICK v : v = PutUri(t)
  OBVIOUS
<1>1. /\ Shape /\ StorageShape /\ LockShape /\ ForeignHolds /\ c \in Uris /\ c[1] = o /\ o \in Objects
      /\ At(t, "put") /\ Calm(o) /\ backend = "local" /\ PutUri(t)' = PutUri(t)
  BY ActsFacts DEF Acts, Put, At, Midway, Putting
<1>2. v \in Uris /\ v[1] = o /\ Mine(t) /\ Doing(t, "archive")
  BY <1>1, ArchiveFacts DEF At
<1>3. UNCHANGED <<holds, current>> /\ pc'[t] = "holdOfPut"
  BY <1>1, GoToTurn DEF Put
<1>4. /\ \A u \in Uris : u # v => files'[u] = files[u]
      /\ files'[v].locked => files[v].locked /\ Worm
  <2>1. PICK found \in Answers(files[v].exists), retained \in PutTakes :
          files' = IF found /\ Worm THEN files ELSE [files EXCEPT ![v] = Stored(retained)]
    BY DEF Put
  <2> QED
    BY <1>1, <1>2, <2>1 DEF StorageShape, Stored
<1>5. \A w \in Objects : HoldsOn(w)' = HoldsOn(w)
  BY <1>3 DEF HoldsOn, ActiveHolds
<1>6. \A w \in Objects : w # o => Alike(w)
  BY <1>2, <1>3, <1>4, <1>5 DEF Alike
<1>7. ForeignHolds'
  BY <1>1, <1>3 DEF ForeignHolds
<1>8. (Replaced(o) => Replaced(o)') /\ (Returned(o) => Returned(o)') /\ current'[o] = c
  BY <1>3, ArchivedStays DEF Acts
<1>9. HeldOnce(o)' /\ Freed(o)' /\ Explained(o)'
  <2>1. \A u \in Uris : files'[u].locked => files[u].locked
    BY <1>4
  <2> QED
    BY <1>1, <1>5, <1>8, <2>1 DEF Calm, HeldOnce, Freed, Explained
<1>10. ArchiveOf(t, o, v)'
  BY <1>3, <1>4, <1>9 DEF ArchiveOf, At
<1>11. ImposeOf(t, o)' /\ ReleaseOf(t, o)'
  BY <1>3 DEF ImposeOf, ReleaseOf, At
<1> QED
  BY <1>2, <1>3, <1>6, <1>7, <1>10, <1>11, LockMoves DEF Midway, Putting

LEMMA LockFindsHold ==
  ASSUME NEW t \in Threads, NEW o, Acts(t, o), HoldOfPut(t)
  PROVE  LockInv'
<1> PICK c : c = current[o]
  OBVIOUS
<1> PICK v : v = PutUri(t)
  OBVIOUS
<1>1. /\ Shape /\ StorageShape /\ LockShape /\ ForeignHolds /\ c \in Uris /\ c[1] = o /\ o \in Objects
      /\ At(t, "holdOfPut") /\ req' = req /\ PutUri(t)' = PutUri(t)
      /\ \A w \in Uris : PutUri(t) = w => ArchiveOf(t, o, w)
  BY ActsFacts DEF Acts, HoldOfPut
<1>2. /\ v \in Uris /\ v[1] = o /\ Mine(t) /\ Doing(t, "archive") /\ MyHolds(t) = HoldsOn(o)
      /\ local[t].uri = v
  BY <1>1, ArchiveFacts DEF At, Putting
<1>3. HeldOnce(o) /\ Freed(o) /\ Explained(o) /\ (files[v].locked => Worm)
  BY <1>1, <1>2 DEF ArchiveOf
<1>4. UNCHANGED <<files, current>> /\ pc'[t] \in {"upsert", "lockPut"}
  BY <1>1, GoToTurn DEF HoldOfPut
<1>5. (Replaced(o) => Replaced(o)') /\ (Returned(o) => Returned(o)') /\ current'[o] = c
  BY <1>4, ArchivedStays DEF Acts
<1>6. ImposeOf(t, o)' /\ ReleaseOf(t, o)'
  BY <1>4 DEF ImposeOf, ReleaseOf, At
<1>7. pc'[t] \in Midway
  BY <1>4 DEF Midway, Putting
<1>8. CASE MyHolds(t) = {}
  <2>1. holds' = holds /\ pc'[t] = "upsert"
    BY <1>1, <1>8, GoToTurn DEF HoldOfPut
  <2>2. \A w \in Objects : HoldsOn(w)' = HoldsOn(w)
    BY <2>1 DEF HoldsOn, ActiveHolds
  <2>3. \A w \in Objects : Alike(w)
    BY <1>4, <2>1, <2>2 DEF Alike
  <2>4. HeldOnce(o)' /\ Freed(o)' /\ Explained(o)'
    BY <1>1, <1>3, <2>3, AlikeKeeps DEF Acts
  <2>5. HoldsOn(o)' = {}
    BY <1>1, <1>2, <1>8, <2>2
  <2>6. Follow(o, v)' /\ Guarded(o, v)'
    BY <2>5 DEF Follow, Guarded
  <2>7. ArchiveOf(t, o, v)'
    BY <1>3, <1>4, <2>1, <2>4, <2>6 DEF ArchiveOf, At
  <2>8. ForeignHolds'
    BY <1>1, <2>1 DEF ForeignHolds
  <2> QED
    BY <1>2, <1>6, <1>7, <2>3, <2>7, <2>8, LockMoves
<1>9. ASSUME NEW h \in MyHolds(t), holds' = [holds EXCEPT ![h].uri = local[t].uri], GoTo(t, "lockPut")
      PROVE  LockInv'
  <2>1. /\ h \in Threads /\ h \in HoldsOn(o) /\ holds[h].on = o /\ holds[h].tenant = Owner[o]
        /\ HoldsOn(o) = {h}
    BY <1>2, <1>3, <1>9 DEF HoldsOn, ActiveHolds, HeldOnce
  <2>2. /\ \A k \in Threads : /\ holds'[k].status = holds[k].status /\ holds'[k].on = holds[k].on
                              /\ holds'[k].tenant = holds[k].tenant
                              /\ k # h => holds'[k] = holds[k]
        /\ holds'[h].uri = v
    BY <1>1, <1>2, <1>9, <2>1 DEF StorageShape
  <2>3. \A w \in Objects : /\ HoldsOn(w)' = HoldsOn(w)
                           /\ w # o => h \notin HoldsOn(w)
    BY <2>1, <2>2 DEF HoldsOn, ActiveHolds
  <2>4. \A w \in Objects : w # o => Alike(w)
    BY <1>4, <2>2, <2>3 DEF Alike, HoldsOn, ActiveHolds
  <2>5. ForeignHolds'
    BY <1>1, <2>1, <2>2 DEF ForeignHolds
  <2>6. HoldsOn(o)' = {h}
    BY <1>1, <2>1, <2>3
  <2>7. HeldOnce(o)' /\ Follow(o, v)'
    BY <2>2, <2>6 DEF HeldOnce, Follow
  <2>8. pc'[t] = "lockPut"
    BY <1>1, <1>9, GoToTurn
  <2>9. ArchiveOf(t, o, v)'
    BY <2>6, <2>7, <2>8 DEF ArchiveOf, At
  <2> QED
    BY <1>2, <1>6, <1>7, <2>4, <2>5, <2>9, LockMoves
<1> QED
  BY <1>8, <1>9 DEF HoldOfPut

LEMMA LockPutLocks ==
  ASSUME NEW t \in Threads, NEW o, Acts(t, o), LockPut(t)
  PROVE  LockInv'
<1> PICK v : v = PutUri(t)
  OBVIOUS
<1>1. /\ Shape /\ o \in Objects /\ At(t, "lockPut") /\ PutUri(t)' = PutUri(t)
      /\ \A w \in Uris : PutUri(t) = w => ArchiveOf(t, o, w)
  BY ActsFacts DEF Acts, LockPut
<1>2. v \in Uris /\ v[1] = o /\ Mine(t) /\ local[t].uri = v
  BY <1>1, ArchiveFacts DEF At, Putting
<1>3. HeldOnce(o) /\ HoldsOn(o) # {} /\ Follow(o, v)
  BY <1>1, <1>2 DEF ArchiveOf
<1>4. UNCHANGED <<holds, current>> /\ SetLock(v, TRUE) /\ pc'[t] = "upsert"
  BY <1>1, <1>2, GoToTurn DEF LockPut
<1>5. /\ files'[v].exists => files'[v].locked
      /\ \A w \in Objects : w # o => Alike(w)
      /\ ForeignHolds' /\ HoldsOn(o)' = HoldsOn(o) /\ HeldOnce(o)' /\ Follow(o, v)'
  <2>1. IF files[v].exists THEN files'[v].locked = TRUE ELSE ~files'[v].locked
    BY <1>2, <1>4, LockIsSet
  <2>2. files'[v].exists = files[v].exists /\ ForeignHolds' /\ HoldsOn(o)' = HoldsOn(o)
    BY <1>2, <1>4, LockIsSet
  <2>3. \A w \in Objects : w # o => Alike(w)
    BY <1>2, <1>4, LockIsSet
  <2>4. (HeldOnce(o)' <=> HeldOnce(o)) /\ (Follow(o, v)' <=> Follow(o, v))
    BY <1>2, <1>4, LockIsSet
  <2> QED
    BY <1>3, <2>1, <2>2, <2>3, <2>4
<1>6. ArchiveOf(t, o, v)'
  BY <1>3, <1>4, <1>5 DEF ArchiveOf, At, Guarded
<1>7. ImposeOf(t, o)' /\ ReleaseOf(t, o)'
  BY <1>4 DEF ImposeOf, ReleaseOf, At
<1> QED
  BY <1>2, <1>4, <1>5, <1>6, <1>7, LockMoves DEF Midway, Putting

LEMMA LockUpserts ==
  ASSUME NEW t \in Threads, NEW o, Acts(t, o), Upsert(t)
  PROVE  LockInv'
<1> PICK c : c = current[o]
  OBVIOUS
<1> PICK v : v = PutUri(t)
  OBVIOUS
<1>1. /\ Shape /\ StorageShape /\ ForeignHolds /\ o \in Objects /\ req[t].on = o /\ At(t, "upsert")
      /\ PutUri(t)' = PutUri(t) /\ req' = req /\ Turns(t) /\ ~Over(t) /\ ~At(t, "idle") /\ c \in Uris
      /\ \A w \in Uris : PutUri(t) = w => ArchiveOf(t, o, w)
  BY ActsFacts DEF Acts, Upsert
<1>2. /\ v \in Uris /\ v[1] = o /\ local[t].uri = v /\ ~IsTool(t) /\ Doing(t, "archive")
  BY <1>1, ArchiveFacts DEF At, Putting
<1>3. /\ HeldOnce(o) /\ Follow(o, v) /\ Guarded(o, v)
      /\ HoldsOn(o) = {} => Freed(o) /\ Explained(o) /\ (files[v].locked => Worm)
  BY <1>1, <1>2 DEF ArchiveOf
<1>4. /\ UNCHANGED <<holds, files>> /\ pc'[t] = "over" /\ current'[o] = v
      /\ \A w \in Objects : w # o => current'[w] = current[w]
  BY <1>1, <1>2, LeaveTurn DEF Upsert, StorageShape
<1>5. \A w \in Objects : HoldsOn(w)' = HoldsOn(w)
  BY <1>4 DEF HoldsOn, ActiveHolds
<1>6. \A w \in Objects : w # o => Alike(w)
  BY <1>4, <1>5 DEF Alike
<1>7. ForeignHolds'
  BY <1>1, <1>4 DEF ForeignHolds
<1>8. ~At(t, "idle")' /\ Over(t)' /\ Archives(t, o)' /\ PutUri(t)' = v /\ before' = before
  BY <1>1, <1>2, <1>4 DEF At, Over, Archives, Doing, Turns, Turn
<1>9. Replaced(o)'
  BY <1>4, <1>8 DEF Replaced, Begun, At
<1>10. Explained(o)'
  BY <1>9 DEF Explained
<1>11. HeldOnce(o)' /\ Follow(o, current[o])' /\ Guarded(o, current[o])'
  BY <1>1, <1>3, <1>4, <1>5 DEF HeldOnce, Follow, Guarded, HoldsOn, ActiveHolds
<1>12. ASSUME HoldsOn(o) = {}, files[v].locked PROVE Returned(o)'
  <2>1. Freed(o) /\ Explained(o) /\ Worm
    BY <1>3, <1>12
  <2>2. CASE v = c
    <3>1. Returned(o) /\ current'[o] = current[o]
      BY <1>4, <1>12, <2>1, <2>2 DEF Freed
    <3> QED
      BY <3>1, ArchivedStays DEF Acts
  <2>3. CASE v # c
    <3>1. Replaced(o)
      BY <1>2, <1>12, <2>1, <2>3 DEF Explained
    <3>2. PICK w \in Threads : /\ w \in Begun /\ Over(w) /\ Archives(w, o) /\ PutUri(w) = c
      BY <3>1 DEF Replaced, Begun
    <3>3. w # t /\ t \in Begun
      BY <1>1, <3>2 DEF Begun, At
    <3>4. t \notin before[w]
      BY <1>1 DEF Acts, ReviewInv, ThreadInv, BeforeOf
    <3>5. w \in before[t]
      BY <3>2, <3>3, <3>4 DEF Acts, Smooth, OneByOne, Ordered
    <3>6. Archives(w, o)' /\ PutUri(w)' = c
      BY <1>1, <3>2 DEF Archives, Doing, PutUri
    <3> QED
      BY <1>4, <1>8, <2>1, <2>3, <3>5, <3>6 DEF Returned, Begun, At
  <2> QED
    BY <2>2, <2>3
<1>13. Freed(o)'
  BY <1>1, <1>4, <1>5, <1>12 DEF Freed
<1>14. pc'[t] \notin {"resolve", "applyLock", "recordHold", "releaseLock"} \union Putting
  BY <1>4 DEF Putting
<1> QED
  BY <1>6, <1>7, <1>10, <1>11, <1>13, <1>14, LockEnds DEF Calm

LEMMA LockOtherHolds ==
  ASSUME ReviewInv, HoldInv, FlowInv, LockInv, [Next]_vars, NEW t \in Threads,
         \/ FoundHold(t) \/ NoHoldYet(t) \/ RefuseRelease(t) \/ LogRelease(t) \/ BlockedByHold(t)
         \/ NotHeld(t) \/ CheckRetention(t) \/ CheckLock(t) \/ Unlink(t) \/ LogCleanup(t)
  PROVE  LockInv'
<1>1. HoldStep(t)
  BY DEF HoldStep
<1>2. /\ Shape /\ StorageShape /\ HoldPlaceOf(t) /\ Turns(t)
      /\ \A u \in Threads \ {t} : pc'[u] = pc[u] /\ local'[u] = local[u] /\ req'[u] = req[u]
  BY <1>1, ComponentTurns DEF ReviewInv, HoldInv, FlowInv, Turns, Turn
<1>3. UNCHANGED <<holds, current>> /\ (files' = files \/ \E u : files' = [files EXCEPT ![u] = Missing])
  BY DEF FoundHold, NoHoldYet, RefuseRelease, LogRelease, BlockedByHold, NotHeld, CheckRetention,
     CheckLock, Unlink, LogCleanup, storage
<1>4. \A w \in Objects : HoldsOn(w)' = HoldsOn(w)
  BY <1>3 DEF HoldsOn, ActiveHolds
<1>5. \A u \in Uris : files'[u] = files[u] \/ files'[u] = Missing
  BY <1>2, <1>3 DEF StorageShape
<1>6. \A w \in Objects : Alike(w)
  BY <1>3, <1>4, <1>5 DEF Alike, Missing
<1>7. pc[t] \notin Midway
  BY DEF FoundHold, NoHoldYet, RefuseRelease, LogRelease, BlockedByHold, NotHeld, CheckRetention,
     CheckLock, Unlink, LogCleanup, At, Midway, Putting
<1>8. CASE NoHoldYet(t) \/ NotHeld(t)
  <2>1. pc'[t] = "resolve" /\ req' = req
    BY <1>2, <1>8, GoToTurn DEF NoHoldYet, NotHeld
  <2>2. Doing(t, "impose") => MyHolds(t) = {}
    BY <1>8 DEF NoHoldYet, NotHeld, Doing
  <2>3. ~Doing(t, "release")
    BY <1>8 DEF NoHoldYet, NotHeld, Doing
  <2>4. ASSUME NEW o \in Objects, req[t].on = o PROVE ImposeOf(t, o)'
    <3>1. (Doing(t, "impose") /\ Mine(t)) => HoldsOn(o) = {}
      BY <2>2, <2>4 DEF MyHolds, HoldsOn, Mine
    <3>2. HoldsOn(o)' = HoldsOn(o) /\ (Doing(t, "impose")' <=> Doing(t, "impose")) /\ (Mine(t)' <=> Mine(t))
      BY <1>4, <2>1 DEF Doing, Mine
    <3> QED
      BY <2>1, <3>1, <3>2 DEF ImposeOf, At
  <2>5. PhaseOf(t)'
    BY <2>1, <2>3, <2>4 DEF PhaseOf, ReleaseOf, ArchiveOf, At, Doing
  <2> QED
    BY <1>2, <1>3, <1>6, <1>7, <2>5, LockQuiet
<1>9. CASE ~(NoHoldYet(t) \/ NotHeld(t))
  <2>1. pc'[t] \in {"readLast", "toolEnd", "over", "checkLock", "unlink"}
    <3>1. CASE \E o : Leave(t, o) \/ Return(t, o) \/ \E p : Log(t, o, p)
      BY <1>2, <3>1, LeaveTurn, ReturnTurn, LogTurn
    <3>2. CASE \E p \in {"checkLock", "unlink"} : GoTo(t, p)
      BY <1>2, <3>2, GoToTurn
    <3> QED
      BY <1>9, <3>1, <3>2 DEF FoundHold, RefuseRelease, LogRelease, BlockedByHold, CheckRetention,
         CheckLock, Unlink, LogCleanup
  <2>2. pc'[t] \notin {"resolve", "applyLock", "recordHold", "releaseLock"} \union Putting
    BY <2>1 DEF Putting
  <2> QED
    BY <1>2, <1>3, <1>6, <1>7, <2>2, UnlockedPhase, LockQuiet
<1> QED
  BY <1>8, <1>9

LEMMA LockHoldSteps ==
  ASSUME ReviewInv, HoldInv, FlowInv, LockInv, [Next]_vars, NEW t \in Threads, HoldStep(t)
  PROVE  LockInv'
<1>1. CASE \/ FoundHold(t) \/ NoHoldYet(t) \/ RefuseRelease(t) \/ LogRelease(t) \/ BlockedByHold(t)
           \/ NotHeld(t) \/ CheckRetention(t) \/ CheckLock(t) \/ Unlink(t) \/ LogCleanup(t)
  BY <1>1, LockOtherHolds
<1>2. CASE \/ Resolve(t) \/ ApplyLock(t) \/ RecordHold(t) \/ (\E h \in Threads : SetReleased(t, h))
           \/ ReleaseLock(t) \/ Put(t) \/ HoldOfPut(t) \/ LockPut(t) \/ Upsert(t)
  <2>1. CASE ~Smooth'
    BY <2>1, LockShapeStep DEF LockInv
  <2>2. CASE Smooth'
    <3>1. Smooth
      BY <2>2, SmoothWas
    <3>2. HoldPlaceOf(t) /\ ~At(t, "idle") /\ req[t] \in UNION Traffic
      BY ComponentTurns, BegunKnown DEF FlowInv, Turns, Turn, Begun, At
    <3>3. Doing(t, "impose") \/ Doing(t, "release") \/ Doing(t, "cleanup") \/ Doing(t, "archive")
      BY <1>2, <3>2 DEF HoldPlaceOf, At, Putting, Resolve, ApplyLock, RecordHold, SetReleased,
         ReleaseLock, Put, HoldOfPut, LockPut, Upsert
    <3>4. PICK o \in Objects : req[t].on = o
      BY <3>2, <3>3, HeldAssumption DEF Doing
    <3>5. Acts(t, o)
      BY <3>1, <3>4 DEF Acts
    <3> QED
      BY <1>2, <3>5, LockResolves, LockApplied, LockRecorded, LockReleased, LockTakenOff, LockPutting,
         LockFindsHold, LockPutLocks, LockUpserts
  <2> QED
    BY <2>1, <2>2
<1> QED
  BY <1>1, <1>2 DEF HoldStep

LEMMA AlikeUntouched ==
  ASSUME UNCHANGED <<holds, current>>,
         \A u \in Uris : files'[u].locked = files[u].locked /\ files'[u].exists = files[u].exists
  PROVE  \A o \in Objects : Alike(o)
BY DEF Alike, HoldsOn, ActiveHolds

LEMMA LockStep == ReviewInv /\ HoldInv /\ FlowInv /\ LockInv /\ [Next]_vars => LockInv'
<1> SUFFICES ASSUME ReviewInv, HoldInv, FlowInv, LockInv, [Next]_vars PROVE LockInv'
  OBVIOUS
<1>1. ASSUME NEW t \in Threads, HoldStep(t) PROVE LockInv'
  BY <1>1, LockHoldSteps
<1>2. ASSUME NEW t \in Threads, RequestStep(t), UNCHANGED storage PROVE LockInv'
  <2>1. /\ holds' = holds /\ \A o \in Objects : Alike(o)
    BY <1>2, AlikeUntouched DEF storage
  <2>2. \A u \in Threads \ {t} : pc'[u] = pc[u] /\ local'[u] = local[u] /\ req'[u] = req[u]
    BY <1>2, BeginFacts, RequestTurns DEF Turns, Turn
  <2>3. pc'[t] \in Served
    BY <1>2, RequestPlaces
  <2>4. PhaseOf(t)'
    <3>1. pc'[t] \notin {"resolve", "applyLock", "recordHold", "releaseLock"} \union Putting
      BY <2>3 DEF Served, Putting
    <3> QED
      BY <3>1, UnlockedPhase
  <2>5. Smooth' => pc[t] \notin Midway
    <3> SUFFICES ASSUME Smooth', pc[t] \in Midway PROVE FALSE
      OBVIOUS
    <3>1. Raise(t)
      BY <1>2 DEF RequestStep, Begin, ReadLast, AppendLog, Execute, Replay, Conflict, Record,
         RefuseOpenCircuit, Invoke, ToolReturns, ToolFails, LoseToolLog, At, Midway, Putting
    <3>2. local'[t].outcome = "error"
      BY <3>1, ReturnTurn DEF Raise, ReviewInv
    <3>3. ~At(t, "idle")'
      BY <2>3 DEF At, Served
    <3> QED
      BY <3>2, <3>3 DEF Smooth, Begun, Failed, At
  <2> QED
    BY <2>1, <2>2, <2>4, <2>5, LockQuiet
<1>3. ASSUME NEW t \in Threads, DlqStep(t) \/ CatalogStep(t), UNCHANGED storage PROVE LockInv'
  <2>1. /\ holds' = holds /\ \A o \in Objects : Alike(o)
    BY <1>3, AlikeUntouched DEF storage
  <2>2. \A u \in Threads \ {t} : pc'[u] = pc[u] /\ local'[u] = local[u] /\ req'[u] = req[u]
    BY <1>3, ComponentTurns DEF Turns, Turn
  <2>3. pc'[t] \notin {"resolve", "applyLock", "recordHold", "releaseLock"} \union Putting
    BY <1>3, DlqPlaces, CatalogPlaces DEF Reviewed, Listed, Putting
  <2>4. pc[t] \notin Midway
    BY <1>3 DEF DlqStep, ReadItem, RefuseItem, PersistJob, PersistItem, CatalogStep, FindRow, PersistRow,
       CreateParse, ReadRow, WriteRow, DeleteRow, RowNotFound, At, Midway, Putting
  <2> QED
    BY <2>1, <2>2, <2>3, <2>4, UnlockedPhase, LockQuiet
<1>4. CASE UNCHANGED vars \/ \E u \in Uris : RetentionEnds(u) /\ UNCHANGED <<dlq, catalog>>
  <2>1. /\ UNCHANGED <<holds, current, pc, local, req, before, backend>>
        /\ \A u \in Uris : files'[u].locked = files[u].locked /\ files'[u].exists = files[u].exists
    BY <1>4 DEF RetentionEnds, vars, storage, thread, HoldInv, StorageShape
  <2>2. \A o \in Objects : Alike(o)
    BY <2>1, AlikeUntouched
  <2>3. LockShape' /\ LockShape
    BY LockShapeStep DEF LockInv
  <2> SUFFICES ASSUME Smooth'
               PROVE  /\ ForeignHolds'
                      /\ \A o \in Objects : Working(o)' \/ Calm(o)'
                      /\ \A u \in Threads : PhaseOf(u)'
    BY <2>3 DEF LockInv
  <2>4. Smooth
    BY SmoothWas
  <2>5. ForeignHolds'
    BY <2>1, <2>4 DEF LockInv, ForeignHolds
  <2>6. \A o \in Objects : Working(o)' \/ Calm(o)'
    BY <2>1, <2>2, <2>3, <2>4, AlikeKeeps DEF LockInv, Working, Mine
  <2>7. \A u \in Threads : PhaseOf(u)'
    BY <2>1, <2>2, <2>3, <2>4, PhaseWaits DEF LockInv
  <2> QED
    BY <2>5, <2>6, <2>7
<1> QED
  BY <1>1, <1>2, <1>3, <1>4 DEF Next

LEMMA LockInit == Init => FlowInv /\ LockInv
<1> SUFFICES ASSUME Init PROVE FlowInv /\ LockInv
  OBVIOUS
<1>1. /\ pc = [t \in Threads |-> "idle"] /\ local = [t \in Threads |-> NoLocals]
      /\ req = [t \in Threads |-> None]
      /\ holds = [h \in Threads |-> NoHold] /\ current = [o \in Objects |-> <<o, FirstVersion>>]
      /\ files = [u \in Uris |-> IF u[2] = FirstVersion THEN Stored(Retention) ELSE Missing]
  BY DEF Init, RequestsInit, LegalHoldInit
<1>2. FlowInv
  BY <1>1 DEF FlowInv, HoldPlaceOf, AttemptOf, At, Doing, Logging, NoLocals, Putting
<1>3. LockShape
  BY <1>1, LegalHoldAssumption DEF LockShape, Uris, Stored, Missing, NoHold
<1>4. \A u \in Uris : ~files[u].locked
  BY <1>1 DEF Stored, Missing
<1>5. \A o \in Objects : HoldsOn(o) = {} /\ current[o] \in Uris
  BY <1>1, <1>3 DEF HoldsOn, ActiveHolds, NoHold, LockShape
<1>6. \A o \in Objects : Calm(o)
  BY <1>4, <1>5 DEF Calm, HeldOnce, Follow, Guarded, Freed, Explained
<1>7. \A t \in Threads : PhaseOf(t)
  BY <1>1 DEF PhaseOf, At
<1>8. ForeignHolds
  BY <1>1 DEF ForeignHolds, NoHold
<1> QED
  BY <1>2, <1>3, <1>6, <1>7, <1>8 DEF LockInv

\* Requests that came one after the other, none of them failing or taking a
\* second attempt, leave the file of a report in the local storage locked while
\* a hold on it is active, and not otherwise, except when the report went back
\* to a version it had left: impose_legal_hold, release_legal_hold and
\* _archive_report_to_object_storage lock and unlock one file each, and a
\* write-once storage keeps the file it has, with its lock.
THEOREM LocksFollowHolds == Spec => []LockFollowsHold
<1>1. ASSUME LockInv PROVE LockFollowsHold
  <2> SUFFICES ASSUME backend = "local",
                      \A t \in Begun : Over(t) /\ local[t].outcome # "error" /\ local[t].attempt = 1,
                      \A t, u \in Begun : Ordered(t, u),
                      NEW o \in Objects, files[current[o]].exists
               PROVE  IF ActiveHolds(Owner[o], o) # {} THEN files[current[o]].locked
                      ELSE files[current[o]].locked => Returned(o)
    BY DEF LockFollowsHold
  <2>1. Smooth
    BY DEF Smooth, OneByOne, Failed
  <2>2. ~Working(o)
    BY DEF Working, Midway, Putting, Begun, Over
  <2>3. Calm(o)
    BY <1>1, <2>1, <2>2 DEF LockInv
  <2> QED
    BY <2>3 DEF Calm, Guarded, Freed, HoldsOn
<1>2. ReviewInv /\ HoldInv /\ FlowInv /\ LockInv /\ [Next]_vars
        => (ReviewInv /\ HoldInv /\ FlowInv /\ LockInv)'
  BY ReviewStep, HoldInvStep, FlowStep, LockStep
<1> QED
  BY <1>1, <1>2, ReviewInit, HoldInvInit, LockInit, PTL DEF Spec
=============================================================================
