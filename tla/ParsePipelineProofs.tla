------------------------- MODULE ParsePipelineProofs -------------------------
(***************************************************************************)
(* Theorems about ParsePipeline, for every set of jobs, every route and    *)
(* every number of polls, with and without MinerU.                         *)
(***************************************************************************)
EXTENDS ParsePipeline, TLAPS

\* Every step of the whole is a step of one job.
Step(j) == StoreJob(j) \/ BeginRun(j) \/ GoOn(j)

-----------------------------------------------------------------------------
(* TypeOK is inductive.                                                     *)

LEMMA TypeInit == Init => TypeOK
  BY ParsePipelineAssumption
  DEF Init, TypeOK, NewRun, RunState, Steps, Creation, Parsing, Persisting,
      Over, Outputs, NoChunks, Kinds, ManifestStatus

LEMMA GoToType ==
  ASSUME TypeOK, NEW j \in Jobs, NEW s \in Steps, GoTo(j, s)
  PROVE  run' \in [Jobs -> RunState]
  BY DEF TypeOK, GoTo, RunState

LEMMA ManifestType ==
  ASSUME TypeOK, NEW j \in Jobs, NEW s \in ManifestStatus, SetManifest(j, s)
  PROVE  manifest' \in [Jobs -> ManifestStatus]
  BY DEF TypeOK, SetManifest

LEMMA CreateType ==
  ASSUME TypeOK, NEW j \in Jobs,
         \/ StoreJob(j) \/ MarkQueued(j) \/ AppendEvent(j) \/ BeginRun(j)
         \/ FailManifest(j) \/ FailDocument(j)
         \/ SucceedManifest(j) \/ MarkIndexed(j) \/ LookForChunks(j)
  PROVE  TypeOK'
<1>1. {"stored", "marked", "waiting", "running", "failing", "failed",
       "succeeded", "look", "done", "readBytes", "parseLocal"} \subseteq Steps
  BY DEF Steps, Creation, Parsing, Persisting, Over
<1>2. {"queued", "running", "failed", "succeeded"} \subseteq ManifestStatus
  BY DEF ManifestStatus
<1>3. run' \in [Jobs -> RunState]
  BY <1>1, GoToType DEF StoreJob, MarkQueued, AppendEvent, BeginRun, FailManifest,
     FailDocument, SucceedManifest, MarkIndexed, LookForChunks
<1>4. manifest' \in [Jobs -> ManifestStatus]
  BY <1>2, ManifestType DEF TypeOK, StoreJob, MarkQueued, AppendEvent, BeginRun,
     FailManifest, FailDocument, SucceedManifest, MarkIndexed, LookForChunks
<1>5. status' \in {"uploaded", "parse_queued", "indexed", "parse_failed"}
  BY DEF TypeOK, StoreJob, MarkQueued, AppendEvent, BeginRun,
     FailManifest, FailDocument, SucceedManifest, MarkIndexed, LookForChunks
<1>6. UNCHANGED <<chunks, cited, indexed>>
  BY DEF StoreJob, MarkQueued, AppendEvent, BeginRun,
     FailManifest, FailDocument, SucceedManifest, MarkIndexed, LookForChunks
<1> QED
  BY <1>3, <1>4, <1>5, <1>6 DEF TypeOK

LEMMA MineruType ==
  ASSUME TypeOK, NEW j \in Jobs, Mineru(j)
  PROVE  TypeOK'
<1>1. {"beginMineru", "presign", "submit", "poll", "collect", "storeMineru",
       "completeMineru", "touchDocument", "abandonMineru", "parseLocal"} \subseteq Steps
  BY DEF Steps, Parsing
<1>2. {"parsing", "completed", "failed"} \subseteq ManifestStatus
  BY DEF ManifestStatus
<1>3. run' \in [Jobs -> RunState]
  <2>1. CASE ReadBytes(j) \/ Presign(j)
    BY <2>1, <1>1, GoToType DEF ReadBytes, Presign, TypeOK, RunState
  <2>2. CASE Submit(j)
    BY <2>2, <1>1 DEF Submit, TypeOK, RunState
  <2>3. CASE Poll(j)
    <3>1. MaxPolls \in Nat /\ run[j] \in RunState
      BY ParsePipelineAssumption DEF TypeOK
    <3>2. run[j].polls \in 0 .. MaxPolls
      BY <3>1 DEF RunState
    <3>3. CASE GoTo(j, "collect") \/ GoTo(j, "abandonMineru")
      BY <3>3, <1>1, GoToType
    <3>4. CASE run[j].polls < MaxPolls /\ run' = [run EXCEPT ![j].polls = @ + 1]
      <4>1. run[j].polls + 1 \in 0 .. MaxPolls
        BY <3>1, <3>2, <3>4
      <4> QED
        BY <3>1, <3>4, <4>1 DEF TypeOK, RunState
    <3> QED
      BY <2>3, <3>3, <3>4 DEF Poll
  <2>4. CASE Collect(j)
    BY <2>4, <1>1, GoToType DEF Collect, TypeOK, RunState
  <2>5. CASE StoreMineru(j)
    <3>1. run[j] \in RunState
      BY DEF TypeOK
    <3>2. (run[j].delivered \/ run[j].content) \in BOOLEAN
      OBVIOUS
    <3> DEFINE d == run[j].delivered \/ run[j].content
    <3>3. run' = [run EXCEPT ![j].pc = "completeMineru", ![j].delivered = d]
      BY <2>5 DEF StoreMineru
    <3> HIDE DEF d
    <3>4. d \in BOOLEAN
      BY <3>2 DEF d
    <3> QED
      BY <3>1, <3>3, <3>4, <1>1 DEF TypeOK, RunState
  <2>6. CASE BeginMineru(j) \/ CompleteMineru(j) \/ TouchDocument(j) \/ AbandonMineru(j)
    BY <2>6, <1>1, GoToType DEF BeginMineru, CompleteMineru, TouchDocument, AbandonMineru
  <2> QED
    BY <2>1, <2>2, <2>3, <2>4, <2>5, <2>6 DEF Mineru
<1>4. manifest' \in [Jobs -> ManifestStatus]
  BY <1>2, ManifestType DEF TypeOK, Mineru, ReadBytes, Presign, BeginMineru, Submit,
     Poll, Collect, StoreMineru, CompleteMineru, TouchDocument, AbandonMineru
<1>5. chunks' \in Outputs \union {NoChunks}
  BY DEF TypeOK, Outputs, Kinds, Mineru, ReadBytes, Presign, BeginMineru, Submit,
     Poll, Collect, StoreMineru, CompleteMineru, TouchDocument, AbandonMineru
<1>6. UNCHANGED <<status, cited, indexed>>
  BY DEF Mineru, ReadBytes, Presign, BeginMineru, Submit,
     Poll, Collect, StoreMineru, CompleteMineru, TouchDocument, AbandonMineru
<1> QED
  BY <1>3, <1>4, <1>5, <1>6 DEF TypeOK

LEMMA PersistType ==
  ASSUME TypeOK, NEW j \in Jobs,
         \/ ParseLocal(j) \/ TryRoute(j) \/ PersistChunks(j)
         \/ CountChunks(j) \/ CiteChunks(j) \/ IndexChunks(j)
  PROVE  TypeOK'
<1>1. {"persist", "tryRoute", "raised", "count", "cite", "index", "done"} \subseteq Steps
  BY DEF Steps, Parsing, Persisting, Over
<1>2. run' \in [Jobs -> RunState]
  <2>1. CASE ParseLocal(j)
    BY <2>1, <1>1, GoToType DEF ParseLocal, TypeOK, RunState, Kinds
  <2>2. CASE TryRoute(j)
    <3>1. run[j].parser <= Len(Route) => run[j].parser + 1 \in 1 .. 4
      <4>1. Len(Route) \in 1 .. 3
        BY ParsePipelineAssumption
      <4>2. run[j].parser \in 1 .. 4
        BY DEF TypeOK, RunState
      <4>3. \A n \in 1 .. 4, l \in 1 .. 3 : n <= l => n + 1 \in 1 .. 4
        OBVIOUS
      <4> QED
        BY <4>1, <4>2, <4>3
    <3>2. CASE GoTo(j, "raised")
      BY <3>2, <1>1, GoToType
    <3>3. CASE /\ run[j].parser <= Len(Route)
               /\ run' = [run EXCEPT ![j].parser = run[j].parser + 1]
      <4> DEFINE next == run[j].parser + 1
      <4>1. next \in 1 .. 4
        BY <3>1, <3>3
      <4>2. run' = [run EXCEPT ![j].parser = next]
        BY <3>3
      <4> HIDE DEF next
      <4>3. run \in [Jobs -> RunState]
        BY DEF TypeOK
      <4>4. [run[j] EXCEPT !.parser = next] \in RunState
        BY <4>1, <4>3 DEF RunState
      <4> QED
        BY <4>2, <4>3, <4>4
    <3>4. CASE run' = [run EXCEPT ![j].pc = "persist", ![j].parsed = "route"]
      <4>1. "persist" \in Steps /\ "route" \in Kinds
        BY <1>1 DEF Kinds
      <4>2. run \in [Jobs -> RunState]
        BY DEF TypeOK
      <4>3. [run[j] EXCEPT !.pc = "persist", !.parsed = "route"] \in RunState
        BY <4>1, <4>2 DEF RunState
      <4>4. run' = [run EXCEPT ![j] = [run[j] EXCEPT !.pc = "persist", !.parsed = "route"]]
        BY <3>4, <4>2
      <4> QED
        BY <4>2, <4>3, <4>4
    <3>5. \/ GoTo(j, "raised")
          \/ /\ run[j].parser <= Len(Route)
             /\ run' = [run EXCEPT ![j].parser = run[j].parser + 1]
          \/ run' = [run EXCEPT ![j].pc = "persist", ![j].parsed = "route"]
      BY <2>2 DEF TryRoute
    <3> QED
      BY <3>2, <3>3, <3>4, <3>5
  <2>3. CASE PersistChunks(j) \/ CountChunks(j) \/ CiteChunks(j) \/ IndexChunks(j)
    BY <2>3, <1>1, GoToType DEF PersistChunks, CountChunks, CiteChunks, IndexChunks
  <2> QED
    BY <2>1, <2>2, <2>3
<1>3. manifest' \in [Jobs -> ManifestStatus]
  BY ManifestType DEF TypeOK, ManifestStatus, ParseLocal, TryRoute, PersistChunks,
     CountChunks, CiteChunks, IndexChunks
<1>4. Parsed(j) \in Outputs
  BY DEF TypeOK, RunState, Parsed, Outputs
<1>5. /\ chunks' \in Outputs \union {NoChunks}
      /\ cited' \in SUBSET Outputs
      /\ indexed' \in SUBSET Outputs
      /\ status' = status
  BY <1>4 DEF TypeOK, ParseLocal, TryRoute, PersistChunks, CountChunks,
     CiteChunks, IndexChunks
<1> QED
  BY <1>2, <1>3, <1>5 DEF TypeOK

LEMMA TypeStep ==
  ASSUME TypeOK, NEW j \in Jobs, Step(j)
  PROVE  TypeOK'
  BY CreateType, MineruType, PersistType DEF Step, GoOn

\* Every variable stays in its type (TypeOK), with whatever the external
\* services answer.
THEOREM TypeCorrect == Spec => []TypeOK
<1>1. TypeOK /\ [Next]_vars => TypeOK'
  <2>1. ASSUME TypeOK, Next PROVE TypeOK'
    BY <2>1, TypeStep DEF Next, Step
  <2>2. ASSUME TypeOK, UNCHANGED vars PROVE TypeOK'
    BY <2>2 DEF TypeOK, vars
  <2> QED
    BY <2>1, <2>2
<1> QED
  BY <1>1, TypeInit, PTL DEF Spec

-----------------------------------------------------------------------------
(* What is between two steps                                               *)

\* A run that has stored MinerU's chunks is among its parsers, or raised, until
\* it stores its own output.
Parsers == {"presign", "beginMineru", "submit", "poll", "collect", "storeMineru",
            "completeMineru", "touchDocument", "abandonMineru", "parseLocal",
            "tryRoute", "persist", "raised"}

\* The run that stored the document's chunks has still to store its own, or to
\* cite them, or has cited them.
StoredInv ==
    chunks # NoChunks =>
        \/ run[chunks.job].pc \in Parsers
        \/ run[chunks.job].pc \in {"count", "cite"} /\ chunks = Parsed(chunks.job)
        \/ run[chunks.job].pc \in {"index", "done"} /\ chunks \in cited

CitedInv ==
    /\ \A j \in Jobs : At(j, "index") => Parsed(j) \in cited
    /\ indexed \subseteq cited

ChunksInv ==
    \A j \in Jobs :
        run[j].pc \in {"count", "cite", "index", "done"} => chunks # NoChunks

ManifestOf(j) ==
    /\ run[j].pc \in {"succeeded", "look", "cite", "index", "done"}
           => manifest[j] = "succeeded"
    /\ run[j].pc \in {"failing", "failed"} => manifest[j] = "failed"
    /\ run[j].pc \in {"readBytes", "presign", "parseLocal", "tryRoute",
                      "persist", "count", "raised"}
           => manifest[j] \in {"succeeded", "failed"}

ManifestInv == \A j \in Jobs : ManifestOf(j)

\* As long as the document is not settled some job will settle it, or none has
\* touched it.
DocumentInv ==
    \/ status \in {"indexed", "parse_failed"}
    \/ \E j \in Jobs :
           run[j].pc \in {"marked", "waiting", "running", "failing", "succeeded"}
    \/ \A j \in Jobs : run[j].pc \in {"new", "stored"}

\* Both options of MinerU submit once, after the bytes the URL.
TasksOf(j) ==
    LET used == run[j].tasks
        bytes == run[j].option = "bytes"
    IN  /\ run[j].pc \in Creation \union
               {"waiting", "running", "look", "succeeded", "readBytes"} => used = 0
        /\ run[j].pc \in {"beginMineru", "submit"} => used <= IF bytes THEN 0 ELSE 1
        /\ run[j].pc \in {"poll", "collect", "storeMineru", "completeMineru",
                          "touchDocument", "abandonMineru"}
               => used <= IF bytes THEN 1 ELSE 2
        /\ run[j].pc = "presign" => used <= 1
        /\ used <= 2

TasksInv == \A j \in Jobs : TasksOf(j)

-----------------------------------------------------------------------------
(* Frames: what a step of one job leaves alone, and where it leads          *)

LEMMA OtherRuns ==
  ASSUME TypeOK, NEW j \in Jobs, Step(j), NEW k \in Jobs, k # j
  PROVE  run'[k] = run[k] /\ manifest'[k] = manifest[k]
<1>1. CASE Mineru(j)
  BY <1>1 DEF Mineru, TypeOK, GoTo, SetManifest, ReadBytes, Presign, BeginMineru,
     Submit, Poll, Collect, StoreMineru, CompleteMineru, TouchDocument, AbandonMineru
<1>2. CASE ParseLocal(j) \/ TryRoute(j) \/ PersistChunks(j)
           \/ CountChunks(j) \/ CiteChunks(j) \/ IndexChunks(j)
  BY <1>2 DEF TypeOK, GoTo, SetManifest, ParseLocal, TryRoute, PersistChunks,
     CountChunks, CiteChunks, IndexChunks
<1>3. CASE StoreJob(j) \/ MarkQueued(j) \/ AppendEvent(j) \/ BeginRun(j)
           \/ FailManifest(j) \/ FailDocument(j)
           \/ SucceedManifest(j) \/ MarkIndexed(j) \/ LookForChunks(j)
  BY <1>3 DEF TypeOK, GoTo, SetManifest, StoreJob, MarkQueued, AppendEvent, BeginRun,
     FailManifest, FailDocument, SucceedManifest, MarkIndexed, LookForChunks
<1> QED
  BY <1>1, <1>2, <1>3 DEF Step, GoOn

LEMMA Frame ==
  ASSUME NEW j \in Jobs, Step(j)
  PROVE  /\ StoreMineru(j) \/ PersistChunks(j) \/ chunks' = chunks
         /\ CiteChunks(j) \/ cited' = cited
         /\ IndexChunks(j) \/ indexed' = indexed
         /\ MarkQueued(j) \/ MarkIndexed(j) \/ FailDocument(j) \/ status' = status
  BY DEF Step, GoOn, Mineru, ReadBytes, Presign, BeginMineru,
     Submit, Poll, Collect, StoreMineru, CompleteMineru, TouchDocument, AbandonMineru,
     ParseLocal, TryRoute, PersistChunks, CountChunks, CiteChunks, IndexChunks,
     StoreJob, MarkQueued, AppendEvent, BeginRun,
     FailManifest, FailDocument, SucceedManifest, MarkIndexed, LookForChunks

LEMMA GoToEffect ==
  ASSUME TypeOK, NEW j \in Jobs, NEW s, GoTo(j, s)
  PROVE  /\ run'[j].pc = s
         /\ run'[j].parsed = run[j].parsed
         /\ run'[j].option = run[j].option
         /\ run'[j].tasks = run[j].tasks
  BY DEF TypeOK, RunState, GoTo

LEMMA CreateFlow ==
  ASSUME TypeOK, NEW j \in Jobs
  PROVE  /\ StoreJob(j) => At(j, "new") /\ At(j, "stored")'
         /\ MarkQueued(j) => At(j, "stored") /\ At(j, "marked")'
         /\ AppendEvent(j) => At(j, "marked") /\ At(j, "waiting")'
         /\ BeginRun(j) => At(j, "waiting") /\ At(j, "running")'
         /\ FailManifest(j) => At(j, "running") /\ At(j, "failing")'
         /\ FailDocument(j) => At(j, "failing") /\ At(j, "failed")'
         /\ SucceedManifest(j) => At(j, "running") /\ At(j, "succeeded")'
         /\ MarkIndexed(j) => At(j, "succeeded") /\ At(j, "look")'
         /\ LookForChunks(j) =>
                /\ At(j, "look")
                /\ \/ At(j, "done")' /\ chunks # NoChunks
                   \/ run'[j].pc \in {"readBytes", "parseLocal"}
  BY GoToEffect DEF At, StoreJob, MarkQueued, AppendEvent, BeginRun, FailManifest,
     FailDocument, SucceedManifest, MarkIndexed, LookForChunks

LEMMA MineruFlow ==
  ASSUME TypeOK, NEW j \in Jobs
  PROVE  /\ ReadBytes(j) =>
                /\ At(j, "readBytes")
                /\ \/ At(j, "beginMineru")' /\ run'[j].option = "bytes"
                   \/ At(j, "presign")'
                /\ run'[j].tasks = run[j].tasks
         /\ Presign(j) =>
                /\ At(j, "presign")
                /\ \/ At(j, "beginMineru")' /\ run'[j].option = "url"
                   \/ At(j, "parseLocal")'
                /\ run'[j].tasks = run[j].tasks
         /\ BeginMineru(j) => At(j, "beginMineru") /\ At(j, "submit")'
         /\ Submit(j) =>
                /\ At(j, "submit")
                /\ run'[j].pc \in {"poll", "abandonMineru"}
                /\ run'[j].option = run[j].option
                /\ run'[j].tasks = run[j].tasks + 1
         /\ Poll(j) =>
                /\ At(j, "poll")
                /\ run'[j].pc \in {"poll", "collect", "abandonMineru"}
                /\ run'[j].option = run[j].option
                /\ run'[j].tasks = run[j].tasks
         /\ Collect(j) =>
                /\ At(j, "collect")
                /\ run'[j].pc \in {"storeMineru", "abandonMineru"}
                /\ run'[j].option = run[j].option
                /\ run'[j].tasks = run[j].tasks
         /\ StoreMineru(j) =>
                /\ At(j, "storeMineru") /\ At(j, "completeMineru")'
                /\ run'[j].option = run[j].option
                /\ run'[j].tasks = run[j].tasks
         /\ CompleteMineru(j) => At(j, "completeMineru") /\ At(j, "touchDocument")'
         /\ TouchDocument(j) => At(j, "touchDocument") /\ At(j, "abandonMineru")'
         /\ AbandonMineru(j) =>
                /\ At(j, "abandonMineru")
                /\ IF run[j].option = "bytes" THEN At(j, "presign")'
                                             ELSE At(j, "parseLocal")'
<1>1. run \in [Jobs -> RunState]
  BY DEF TypeOK
<1> QED
  BY <1>1, GoToEffect DEF At, RunState, ReadBytes, Presign, BeginMineru, Submit, Poll,
     Collect, StoreMineru, CompleteMineru, TouchDocument, AbandonMineru

LEMMA PersistFlow ==
  ASSUME TypeOK, NEW j \in Jobs
  PROVE  /\ ParseLocal(j) =>
                /\ At(j, "parseLocal")
                /\ run'[j].pc \in {"persist", "tryRoute"}
                /\ run'[j].tasks = run[j].tasks
         /\ TryRoute(j) =>
                /\ At(j, "tryRoute")
                /\ run'[j].pc \in {"tryRoute", "persist", "raised"}
                /\ run'[j].tasks = run[j].tasks
         /\ PersistChunks(j) => At(j, "persist") /\ At(j, "count")'
         /\ CountChunks(j) => At(j, "count") /\ At(j, "cite")'
         /\ CiteChunks(j) => At(j, "cite") /\ At(j, "index")'
         /\ IndexChunks(j) => At(j, "index") /\ At(j, "done")'
<1>1. run \in [Jobs -> RunState]
  BY DEF TypeOK
<1> QED
  BY <1>1, GoToEffect DEF At, RunState, ParseLocal, TryRoute, PersistChunks,
     CountChunks, CiteChunks, IndexChunks

\* A job keeps its parsed_chunks once it has begun to persist them.
LEMMA ParsedKept ==
  ASSUME TypeOK, NEW j \in Jobs, NEW k \in Jobs, Step(j),
         run[k].pc \in Persisting \union {"done"}
  PROVE  Parsed(k)' = Parsed(k)
<1>1. CASE k # j
  BY <1>1, OtherRuns DEF Parsed
<1>2. CASE k = j
  <2>1. PersistChunks(j) \/ CountChunks(j) \/ CiteChunks(j) \/ IndexChunks(j)
    BY <1>2, CreateFlow, MineruFlow, PersistFlow DEF Persisting, Step, GoOn, Mineru, At
  <2> QED
    BY <1>2, <2>1, GoToEffect DEF Parsed, PersistChunks, CountChunks, CiteChunks, IndexChunks
<1> QED
  BY <1>1, <1>2

-----------------------------------------------------------------------------
(* Each part of the invariant survives every step                           *)

LEMMA StoredStep ==
  ASSUME TypeOK, TypeOK', StoredInv, NEW j \in Jobs, Step(j)
  PROVE  StoredInv'
<1> SUFFICES ASSUME chunks' # NoChunks
             PROVE  StoredInv'
  BY DEF StoredInv
<1>1. chunks'.job \in Jobs /\ (chunks # NoChunks => chunks.job \in Jobs)
  BY DEF TypeOK, Outputs
<1>2. CASE StoreMineru(j) /\ run[j].content
  <2>1. chunks' = [kind |-> "mineru", job |-> j]
    BY <1>2 DEF StoreMineru
  <2> QED
    BY <1>2, <2>1, MineruFlow DEF StoredInv, At, Parsers
<1>3. CASE PersistChunks(j)
  <2>1. chunks' = Parsed(j) /\ Parsed(j)' = Parsed(j) /\ At(j, "count")'
    BY <1>3, PersistFlow, ParsedKept DEF PersistChunks, At, Persisting
  <2>2. chunks'.job = j
    BY <2>1 DEF Parsed
  <2> QED
    BY <2>1, <2>2 DEF StoredInv, At
<1>4. CASE chunks' = chunks
  <2>1. CASE chunks.job # j
    <3>1. run'[chunks.job] = run[chunks.job] /\ Parsed(chunks.job)' = Parsed(chunks.job)
      BY <1>1, <1>4, <2>1, OtherRuns DEF Parsed
    <3>2. cited \subseteq cited'
      BY Frame DEF CiteChunks
    <3> QED
      BY <1>4, <3>1, <3>2 DEF StoredInv
  <2>2. CASE chunks.job = j /\ run[j].pc \in Parsers
    <3>1. ~PersistChunks(j) => run'[j].pc \in Parsers
      BY <2>2, CreateFlow, MineruFlow, PersistFlow DEF Parsers, Step, GoOn, Mineru, At
    <3> QED
      BY <1>3, <1>4, <2>2, <3>1 DEF StoredInv
  <2>3. CASE chunks.job = j /\ run[j].pc \in {"count", "cite"} /\ chunks = Parsed(j)
    <3>1. Parsed(j)' = Parsed(j)
      BY <2>3, ParsedKept DEF Persisting
    <3>2. CountChunks(j) \/ CiteChunks(j)
      BY <2>3, CreateFlow, MineruFlow, PersistFlow DEF Step, GoOn, Mineru, At
    <3>3. CiteChunks(j) => chunks \in cited'
      BY <2>3 DEF CiteChunks
    <3> QED
      BY <1>4, <2>3, <3>1, <3>2, <3>3, PersistFlow DEF StoredInv, At
  <2>4. CASE chunks.job = j /\ run[j].pc \in {"index", "done"} /\ chunks \in cited
    <3>1. IndexChunks(j)
      BY <2>4, CreateFlow, MineruFlow, PersistFlow DEF Step, GoOn, Mineru, At
    <3>2. cited' = cited /\ At(j, "done")'
      BY <3>1, PersistFlow DEF IndexChunks
    <3> QED
      BY <1>4, <2>4, <3>2 DEF StoredInv, At
  <2> QED
    BY <1>4, <2>1, <2>2, <2>3, <2>4 DEF StoredInv
<1>5. StoreMineru(j) /\ ~run[j].content => chunks' = chunks
  BY DEF StoreMineru
<1> QED
  BY <1>2, <1>3, <1>4, <1>5, Frame

LEMMA CitedStep ==
  ASSUME TypeOK, CitedInv, NEW j \in Jobs, Step(j)
  PROVE  CitedInv'
<1>1. cited \subseteq cited'
  BY Frame DEF CiteChunks
<1>2. indexed' \subseteq cited'
  <2>1. CASE IndexChunks(j)
    BY <1>1, <2>1 DEF IndexChunks, CitedInv
  <2> QED
    BY <1>1, <2>1, Frame DEF CitedInv
<1>3. ASSUME NEW k \in Jobs, At(k, "index")'
      PROVE  Parsed(k)' \in cited'
  <2>1. CASE At(k, "index")
    BY <1>1, <2>1, ParsedKept DEF CitedInv, At, Persisting
  <2>2. CASE ~At(k, "index")
    <3>1. k = j
      BY <1>3, <2>2, OtherRuns DEF At
    <3>2. CiteChunks(j)
      BY <1>3, <3>1, <2>2, CreateFlow, MineruFlow, PersistFlow DEF Step, GoOn, Mineru, At
    <3>3. Parsed(j)' = Parsed(j)
      BY <3>2, PersistFlow, ParsedKept DEF At, Persisting
    <3> QED
      BY <3>1, <3>2, <3>3 DEF CiteChunks
  <2> QED
    BY <2>1, <2>2
<1> QED
  BY <1>2, <1>3 DEF CitedInv

\* No action clears document_chunks.
LEMMA KeepsChunks ==
  ASSUME TypeOK, NEW j \in Jobs, Step(j), chunks # NoChunks
  PROVE  chunks' # NoChunks
<1>1. \A o \in Outputs : o # NoChunks
  BY DEF Outputs, NoChunks, Kinds
<1>2. Parsed(j) \in Outputs /\ [kind |-> "mineru", job |-> j] \in Outputs
  BY DEF TypeOK, RunState, Parsed, Outputs, Kinds
<1> QED
  BY <1>1, <1>2, Frame DEF StoreMineru, PersistChunks

LEMMA ChunksStep ==
  ASSUME TypeOK, ChunksInv, NEW j \in Jobs, Step(j)
  PROVE  ChunksInv'
<1> DEFINE Late(k) == run[k].pc \in {"count", "cite", "index", "done"}
<1>1. ASSUME NEW k \in Jobs, Late(k)'
      PROVE  chunks' # NoChunks
  <2>1. CASE chunks # NoChunks
    BY <2>1, KeepsChunks
  <2>2. CASE chunks = NoChunks
    <3>1. ~Late(k)
      BY <2>2 DEF ChunksInv
    <3>2. k = j
      BY <1>1, <3>1, OtherRuns
    <3>3. PersistChunks(j)
      BY <1>1, <2>2, <3>1, <3>2, CreateFlow, MineruFlow, PersistFlow
      DEF Step, GoOn, Mineru, At
    <3>4. Parsed(j) # NoChunks
      BY DEF TypeOK, RunState, Parsed, NoChunks, Kinds
    <3> QED
      BY <3>3, <3>4 DEF PersistChunks
  <2> QED
    BY <2>1, <2>2
<1> QED
  BY <1>1 DEF ChunksInv

LEMMA ManifestStep ==
  ASSUME TypeOK, ManifestInv, NEW j \in Jobs, Step(j)
  PROVE  ManifestInv'
<1>1. /\ FailManifest(j) => manifest'[j] = "failed"
      /\ SucceedManifest(j) => manifest'[j] = "succeeded"
      /\ AbandonMineru(j) => manifest'[j] = "failed"
      /\ CountChunks(j) => manifest'[j] = "succeeded"
  BY DEF TypeOK, SetManifest, FailManifest, SucceedManifest, AbandonMineru, CountChunks
<1>2. \/ FailDocument(j) \/ MarkIndexed(j) \/ LookForChunks(j)
      \/ ReadBytes(j) \/ Presign(j) \/ ParseLocal(j) \/ TryRoute(j)
      \/ PersistChunks(j) \/ CiteChunks(j) \/ IndexChunks(j)
      => manifest' = manifest
  BY DEF FailDocument, MarkIndexed, LookForChunks, ReadBytes, Presign, ParseLocal,
     TryRoute, PersistChunks, CiteChunks, IndexChunks
<1>3. ASSUME NEW k \in Jobs
      PROVE  ManifestOf(k)'
  <2>1. CASE k # j
    BY <2>1, OtherRuns DEF ManifestInv, ManifestOf
  <2>2. CASE k = j
    <3>1. CASE StoreJob(j) \/ MarkQueued(j) \/ AppendEvent(j) \/ BeginRun(j)
               \/ FailManifest(j) \/ FailDocument(j)
               \/ SucceedManifest(j) \/ MarkIndexed(j) \/ LookForChunks(j)
      BY <1>1, <1>2, <2>2, <3>1, CreateFlow DEF ManifestInv, ManifestOf, At
    <3>2. CASE Mineru(j)
      BY <1>1, <1>2, <2>2, <3>2, MineruFlow DEF ManifestInv, ManifestOf, At, Mineru
    <3>3. CASE ParseLocal(j) \/ TryRoute(j) \/ PersistChunks(j)
               \/ CountChunks(j) \/ CiteChunks(j) \/ IndexChunks(j)
      BY <1>1, <1>2, <2>2, <3>3, PersistFlow DEF ManifestInv, ManifestOf, At
    <3> QED
      BY <3>1, <3>2, <3>3 DEF Step, GoOn
  <2> QED
    BY <2>1, <2>2
<1> QED
  BY <1>3 DEF ManifestInv

LEMMA DocumentStep ==
  ASSUME TypeOK, DocumentInv, NEW j \in Jobs, Step(j)
  PROVE  DocumentInv'
<1> DEFINE Pending(k) ==
      run[k].pc \in {"marked", "waiting", "running", "failing", "succeeded"}
<1>1. CASE MarkIndexed(j) \/ FailDocument(j)
  BY <1>1 DEF MarkIndexed, FailDocument, DocumentInv
<1>2. CASE MarkQueued(j)
  BY <1>2, CreateFlow DEF DocumentInv, At
<1>3. CASE /\ status' = status
           /\ ~MarkIndexed(j) /\ ~FailDocument(j) /\ ~MarkQueued(j)
  <2>1. CASE status \in {"indexed", "parse_failed"}
    BY <1>3, <2>1 DEF DocumentInv
  <2>2. ASSUME NEW k \in Jobs, Pending(k)
        PROVE  Pending(k)'
    <3>1. CASE k # j
      BY <2>2, <3>1, OtherRuns
    <3>2. CASE k = j
      BY <1>3, <2>2, <3>2, CreateFlow, MineruFlow, PersistFlow DEF Step, GoOn, Mineru, At
    <3> QED
      BY <3>1, <3>2
  <2>3. CASE \A k \in Jobs : run[k].pc \in {"new", "stored"}
    <3>1. StoreJob(j)
      BY <1>3, <2>3, CreateFlow, MineruFlow, PersistFlow DEF Step, GoOn, Mineru, At
    <3>2. \A k \in Jobs : run'[k].pc \in {"new", "stored"}
      BY <2>3, <3>1, CreateFlow, OtherRuns DEF At
    <3> QED
      BY <3>2 DEF DocumentInv
  <2> QED
    BY <2>1, <2>2, <2>3 DEF DocumentInv
<1> QED
  BY <1>1, <1>2, <1>3, Frame

LEMMA TasksStep ==
  ASSUME TypeOK, TypeOK', TasksInv, NEW j \in Jobs, Step(j)
  PROVE  TasksInv'
<1>1. \A k \in Jobs : run[k].tasks \in Nat /\ run'[k].tasks \in Nat
  BY DEF TypeOK, RunState
<1>2. \/ StoreJob(j) \/ MarkQueued(j) \/ AppendEvent(j) \/ BeginRun(j)
      \/ FailManifest(j) \/ FailDocument(j) \/ SucceedManifest(j)
      \/ MarkIndexed(j) \/ LookForChunks(j)
      \/ BeginMineru(j) \/ CompleteMineru(j) \/ TouchDocument(j) \/ AbandonMineru(j)
      \/ PersistChunks(j) \/ CountChunks(j) \/ CiteChunks(j) \/ IndexChunks(j)
      => run'[j].tasks = run[j].tasks /\ run'[j].option = run[j].option
  BY GoToEffect DEF StoreJob, MarkQueued, AppendEvent, BeginRun, FailManifest,
     FailDocument, SucceedManifest, MarkIndexed, LookForChunks, BeginMineru,
     CompleteMineru, TouchDocument, AbandonMineru, PersistChunks, CountChunks,
     CiteChunks, IndexChunks
<1>3. ASSUME NEW k \in Jobs
      PROVE  TasksOf(k)'
  <2>1. CASE k # j
    BY <2>1, OtherRuns DEF TasksInv, TasksOf
  <2>2. CASE k = j
    <3>1. CASE StoreJob(j) \/ MarkQueued(j) \/ AppendEvent(j) \/ BeginRun(j)
               \/ FailManifest(j) \/ FailDocument(j)
               \/ SucceedManifest(j) \/ MarkIndexed(j) \/ LookForChunks(j)
      BY <1>1, <1>2, <2>2, <3>1, CreateFlow DEF TasksInv, TasksOf, At, Creation
    <3>2. CASE ReadBytes(j) \/ Presign(j) \/ AbandonMineru(j)
      BY <1>1, <1>2, <2>2, <3>2, MineruFlow DEF TasksInv, TasksOf, At, Creation
    <3>3. CASE Submit(j)
      BY <1>1, <2>2, <3>3, MineruFlow DEF TasksInv, TasksOf, At, Creation
    <3>4. CASE BeginMineru(j) \/ Poll(j) \/ Collect(j)
               \/ StoreMineru(j) \/ CompleteMineru(j) \/ TouchDocument(j)
      BY <1>1, <1>2, <2>2, <3>4, MineruFlow DEF TasksInv, TasksOf, At, Creation
    <3>5. CASE ParseLocal(j) \/ TryRoute(j) \/ PersistChunks(j)
               \/ CountChunks(j) \/ CiteChunks(j) \/ IndexChunks(j)
      BY <1>1, <1>2, <2>2, <3>5, PersistFlow DEF TasksInv, TasksOf, At, Creation
    <3> QED
      BY <3>1, <3>2, <3>3, <3>4, <3>5 DEF Step, GoOn, Mineru
  <2> QED
    BY <2>1, <2>2
<1> QED
  BY <1>3 DEF TasksInv

-----------------------------------------------------------------------------
(* The theorems                                                             *)

IInv == /\ TypeOK
        /\ StoredInv /\ CitedInv /\ ChunksInv
        /\ ManifestInv /\ DocumentInv /\ TasksInv

LEMMA InitIInv == Init => IInv
<1> SUFFICES ASSUME Init
             PROVE  IInv
  OBVIOUS
<1>1. TypeOK
  BY TypeInit
<1>2. \A j \in Jobs : run[j].pc = "new" /\ run[j].tasks = 0
  BY DEF Init, NewRun
<1> QED
  BY <1>1, <1>2 DEF Init, IInv, StoredInv, CitedInv, ChunksInv, ManifestInv,
     ManifestOf, DocumentInv, TasksInv, TasksOf, At

LEMMA NextIInv == IInv /\ [Next]_vars => IInv'
<1>1. ASSUME IInv, Next PROVE IInv'
  <2>1. PICK j \in Jobs : Step(j)
    BY <1>1 DEF Next, Step
  <2>2. TypeOK'
    BY <1>1, <2>1, TypeStep DEF IInv
  <2> QED
    BY <1>1, <2>1, <2>2, StoredStep, CitedStep, ChunksStep, ManifestStep,
       DocumentStep, TasksStep DEF IInv
<1>2. ASSUME IInv, UNCHANGED vars PROVE IInv'
  BY <1>2 DEF IInv, TypeOK, StoredInv, CitedInv, ChunksInv, ManifestInv,
     ManifestOf, DocumentInv, TasksInv, TasksOf, vars, At, Parsed
<1> QED
  BY <1>1, <1>2

LEMMA AlwaysIInv == Spec => []IInv
  BY InitIInv, NextIInv, PTL DEF Spec

\* A stored chunk can be cited (StoredIsCited), and what the vector index finds
\* too (IndexedIsCited), however many runs of the document overlap.
THEOREM ChunksCited == Spec => [](StoredIsCited /\ IndexedIsCited)
<1>1. IInv => StoredIsCited /\ IndexedIsCited
  BY DEF IInv, StoredInv, CitedInv, StoredIsCited, IndexedIsCited, Returned, At, Parsers
<1> QED
  BY <1>1, AlwaysIInv, PTL

\* A run that has returned leaves a document with chunks (ReturnedHasChunks),
\* although its document was marked indexed before anything was parsed.
THEOREM IndexedDocumentHasChunks == Spec => []ReturnedHasChunks
<1>1. IInv => ReturnedHasChunks
  BY DEF IInv, ChunksInv, ReturnedHasChunks, Returned, At
<1> QED
  BY <1>1, AlwaysIInv, PTL

\* The manifest ends as the run ended (ManifestSettles), whatever MinerU's
\* service wrote to it in between.
THEOREM ManifestsSettle == Spec => []ManifestSettles
<1>1. IInv => ManifestSettles
  BY DEF IInv, ManifestInv, ManifestOf, ManifestSettles, Returned, At
<1> QED
  BY <1>1, AlwaysIInv, PTL

\* The document is not left parse_queued once its jobs are over
\* (DocumentSettles), in whatever order they wrote its status.
THEOREM DocumentsSettle == Spec => []DocumentSettles
<1>1. IInv => DocumentSettles
  BY DEF IInv, DocumentInv, DocumentSettles, Over
<1> QED
  BY <1>1, AlwaysIInv, PTL

\* One run submits its file to MinerU at most twice (AtMostTwoTasks).
THEOREM FewTasks == Spec => []AtMostTwoTasks
<1>1. IInv => AtMostTwoTasks
  BY DEF IInv, TasksInv, TasksOf, AtMostTwoTasks
<1> QED
  BY <1>1, AlwaysIInv, PTL

\* Once the document has chunks no step of any run leaves it without
\* (ChunksNeverLost): an empty answer replaces nothing.
THEOREM ChunksKept == Spec => ChunksNeverLost
<1>1. TypeOK /\ [Next]_vars => [chunks # NoChunks => chunks' # NoChunks]_vars
  BY KeepsChunks DEF Next, Step, vars
<1> QED
  BY <1>1, TypeCorrect, PTL DEF Spec, ChunksNeverLost
-----------------------------------------------------------------------------
(* Runs come to an end.  Under fairness that is EveryRunEnds; what it rests *)
(* on is that no step of a run can be taken for ever.                       *)

\* How many steps a job may have left, at most: from its end backwards, the
\* statements of run_job_once, an answer of MinerU to poll for, the adapters of
\* the route, and once more the whole of MinerU while only the bytes were tried.
MineruLength == MaxPolls + 9

StepsLeft(r) ==
    LET again == IF r.option = "bytes" THEN MineruLength ELSE 0
    IN
    CASE r.pc \in Over            -> 0
      [] r.pc \in {"index", "failing"} -> 1
      [] r.pc = "cite"            -> 2
      [] r.pc = "count"           -> 3
      [] r.pc = "persist"         -> 4
      [] r.pc = "tryRoute"        -> 9 - r.parser
      [] r.pc = "parseLocal"      -> 9
      [] r.pc = "abandonMineru"   -> 10 + again
      [] r.pc = "touchDocument"   -> 11 + again
      [] r.pc = "completeMineru"  -> 12 + again
      [] r.pc = "storeMineru"     -> 13 + again
      [] r.pc = "collect"         -> 14 + again
      [] r.pc = "poll"            -> 15 + again + (MaxPolls - r.polls)
      [] r.pc = "submit"          -> 16 + again + MaxPolls
      [] r.pc = "beginMineru"     -> 17 + again + MaxPolls
      [] r.pc = "presign"         -> 18 + MaxPolls
      [] r.pc = "readBytes"       -> 18 + MineruLength + MaxPolls
      [] r.pc = "look"            -> 19 + MineruLength + MaxPolls
      [] r.pc = "succeeded"       -> 20 + MineruLength + MaxPolls
      [] r.pc = "running"         -> 21 + MineruLength + MaxPolls
      [] r.pc = "waiting"         -> 22 + MineruLength + MaxPolls
      [] r.pc = "marked"          -> 23 + MineruLength + MaxPolls
      [] r.pc = "stored"          -> 24 + MineruLength + MaxPolls
      [] r.pc = "new"             -> 25 + MineruLength + MaxPolls

\* A step is a step of one job, which has fewer left after it.
OneJobAdvances ==
    \E j \in Jobs :
        /\ StepsLeft(run'[j]) < StepsLeft(run[j])
        /\ \A k \in Jobs \ {j} : run'[k] = run[k]

\* A job has so many steps from its creation on, and no more.
StepsBounded == \A j \in Jobs : StepsLeft(run[j]) \in 0 .. 2 * MaxPolls + 34

LEMMA StepsEnding ==
  ASSUME NEW r
  PROVE  /\ r.pc \in Over => StepsLeft(r) = 0
         /\ r.pc \in {"index", "failing"} => StepsLeft(r) = 1
         /\ r.pc = "cite" => StepsLeft(r) = 2
         /\ r.pc = "count" => StepsLeft(r) = 3
         /\ r.pc = "persist" => StepsLeft(r) = 4
         /\ r.pc = "tryRoute" => StepsLeft(r) = 9 - r.parser
         /\ r.pc = "parseLocal" => StepsLeft(r) = 9
  BY DEF StepsLeft, Over

LEMMA StepsOfMineru ==
  ASSUME NEW r
  PROVE  LET again == IF r.option = "bytes" THEN MineruLength ELSE 0 IN
         /\ r.pc = "abandonMineru" => StepsLeft(r) = 10 + again
         /\ r.pc = "touchDocument" => StepsLeft(r) = 11 + again
         /\ r.pc = "completeMineru" => StepsLeft(r) = 12 + again
         /\ r.pc = "storeMineru" => StepsLeft(r) = 13 + again
         /\ r.pc = "collect" => StepsLeft(r) = 14 + again
         /\ r.pc = "poll" => StepsLeft(r) = 15 + again + (MaxPolls - r.polls)
         /\ r.pc = "submit" => StepsLeft(r) = 16 + again + MaxPolls
         /\ r.pc = "beginMineru" => StepsLeft(r) = 17 + again + MaxPolls
         /\ r.pc = "presign" => StepsLeft(r) = 18 + MaxPolls
         /\ r.pc = "readBytes" => StepsLeft(r) = 18 + MineruLength + MaxPolls
  BY DEF StepsLeft, Over

LEMMA StepsOfCreation ==
  ASSUME NEW r
  PROVE  /\ r.pc = "look" => StepsLeft(r) = 19 + MineruLength + MaxPolls
         /\ r.pc = "succeeded" => StepsLeft(r) = 20 + MineruLength + MaxPolls
         /\ r.pc = "running" => StepsLeft(r) = 21 + MineruLength + MaxPolls
         /\ r.pc = "waiting" => StepsLeft(r) = 22 + MineruLength + MaxPolls
         /\ r.pc = "marked" => StepsLeft(r) = 23 + MineruLength + MaxPolls
         /\ r.pc = "stored" => StepsLeft(r) = 24 + MineruLength + MaxPolls
         /\ r.pc = "new" => StepsLeft(r) = 25 + MineruLength + MaxPolls
  BY DEF StepsLeft, Over

\* Where a run goes it has fewer steps left.
LEMMA CreationAdvances ==
  ASSUME TypeOK, NEW j \in Jobs,
         \/ StoreJob(j) \/ MarkQueued(j) \/ AppendEvent(j) \/ BeginRun(j)
         \/ FailManifest(j) \/ FailDocument(j)
         \/ SucceedManifest(j) \/ MarkIndexed(j) \/ LookForChunks(j)
  PROVE  StepsLeft(run'[j]) < StepsLeft(run[j])
<1>1. MaxPolls \in Nat /\ MineruLength \in Nat
  BY ParsePipelineAssumption DEF MineruLength
<1>2. CASE StoreJob(j) \/ MarkQueued(j) \/ AppendEvent(j) \/ BeginRun(j)
           \/ SucceedManifest(j) \/ MarkIndexed(j)
  BY <1>1, <1>2, CreateFlow, StepsOfCreation DEF At
<1>3. CASE FailManifest(j) \/ FailDocument(j)
  BY <1>1, <1>3, CreateFlow, StepsOfCreation, StepsEnding DEF At, Over
<1>4. CASE LookForChunks(j)
  <2>1. StepsLeft(run[j]) = 19 + MineruLength + MaxPolls
    BY <1>4, CreateFlow, StepsOfCreation DEF At
  <2>2. StepsLeft(run'[j]) \in {0, 9, 18 + MineruLength + MaxPolls}
    BY <1>4, CreateFlow, StepsOfMineru, StepsEnding DEF At, Over
  <2> QED
    BY <1>1, <2>1, <2>2
<1> QED
  BY <1>2, <1>3, <1>4

LEMMA MineruAdvances ==
  ASSUME TypeOK, TypeOK', NEW j \in Jobs, Mineru(j)
  PROVE  StepsLeft(run'[j]) < StepsLeft(run[j])
<1> DEFINE r == run[j]
           s == run'[j]
           again == IF r.option = "bytes" THEN MineruLength ELSE 0
<1>1. /\ MaxPolls \in Nat /\ MineruLength = MaxPolls + 9
      /\ again \in Nat
      /\ r.option \in {"bytes", "url"}
      /\ r.polls \in 0 .. MaxPolls /\ s.polls \in 0 .. MaxPolls
  BY ParsePipelineAssumption DEF MineruLength, TypeOK, RunState
<1>2. ASSUME s.option = r.option
      PROVE  /\ s.pc = "abandonMineru" => StepsLeft(s) = 10 + again
             /\ s.pc = "touchDocument" => StepsLeft(s) = 11 + again
             /\ s.pc = "completeMineru" => StepsLeft(s) = 12 + again
             /\ s.pc = "storeMineru" => StepsLeft(s) = 13 + again
             /\ s.pc = "collect" => StepsLeft(s) = 14 + again
             /\ s.pc = "poll" => StepsLeft(s) = 15 + again + (MaxPolls - s.polls)
             /\ s.pc = "submit" => StepsLeft(s) = 16 + again + MaxPolls
  BY <1>2, StepsOfMineru
<1>3. CASE ReadBytes(j) \/ Presign(j)
  <2>1. StepsLeft(r) = 18 + MaxPolls + (IF ReadBytes(j) THEN MineruLength ELSE 0)
    BY <1>1, <1>3, MineruFlow, StepsOfMineru DEF At
  <2>2. CASE ReadBytes(j)
    <3>1. StepsLeft(s) \in {17 + MineruLength + MaxPolls, 18 + MaxPolls}
      BY <2>2, MineruFlow, StepsOfMineru DEF At
    <3> QED
      BY <1>1, <2>1, <2>2, <3>1
  <2>3. CASE Presign(j)
    <3>1. ~ReadBytes(j)
      BY <2>3, MineruFlow DEF At
    <3>2. StepsLeft(s) \in {17 + 0 + MaxPolls, 9}
      BY <2>3, MineruFlow, StepsOfMineru, StepsEnding DEF At
    <3> QED
      BY <1>1, <2>1, <3>1, <3>2
  <2> QED
    BY <1>3, <2>2, <2>3
<1>4. CASE BeginMineru(j) \/ CompleteMineru(j) \/ TouchDocument(j) \/ StoreMineru(j)
  <2>1. s.option = r.option
    BY <1>4, GoToEffect, MineruFlow DEF BeginMineru, CompleteMineru, TouchDocument
  <2> QED
    BY <1>1, <1>2, <1>4, <2>1, MineruFlow, StepsOfMineru DEF At
<1>5. CASE Submit(j)
  <2>1. StepsLeft(r) = 16 + again + MaxPolls
    BY <1>5, MineruFlow, StepsOfMineru DEF At
  <2>2. \/ StepsLeft(s) = 10 + again
        \/ StepsLeft(s) = 15 + again + (MaxPolls - s.polls)
    BY <1>2, <1>5, MineruFlow
  <2> QED
    BY <1>1, <2>1, <2>2
<1>6. CASE Poll(j)
  <2>1. StepsLeft(r) = 15 + again + (MaxPolls - r.polls)
    BY <1>6, MineruFlow, StepsOfMineru DEF At
  <2>2. CASE s.pc = "poll"
    <3>1. s.polls = r.polls + 1
      BY <1>6, <2>2 DEF Poll, GoTo, TypeOK, RunState
    <3>2. StepsLeft(s) = 15 + again + (MaxPolls - s.polls)
      BY <1>2, <1>6, <2>2, MineruFlow
    <3> QED
      BY <1>1, <2>1, <3>1, <3>2
  <2>3. CASE s.pc \in {"collect", "abandonMineru"}
    <3>1. StepsLeft(s) \in {14 + again, 10 + again}
      BY <1>2, <1>6, <2>3, MineruFlow
    <3> QED
      BY <1>1, <2>1, <3>1
  <2> QED
    BY <1>6, <2>2, <2>3, MineruFlow
<1>7. CASE Collect(j)
  <2>1. StepsLeft(r) = 14 + again
    BY <1>7, MineruFlow, StepsOfMineru DEF At
  <2>2. StepsLeft(s) \in {13 + again, 10 + again}
    BY <1>2, <1>7, MineruFlow
  <2> QED
    BY <1>1, <2>1, <2>2
<1>8. CASE AbandonMineru(j)
  <2>1. StepsLeft(r) = 10 + again
    BY <1>8, MineruFlow, StepsOfMineru DEF At
  <2>2. StepsLeft(s) = IF r.option = "bytes" THEN 18 + MaxPolls ELSE 9
    BY <1>8, MineruFlow, StepsOfMineru, StepsEnding DEF At
  <2> QED
    BY <1>1, <2>1, <2>2
<1> QED
  BY <1>3, <1>4, <1>5, <1>6, <1>7, <1>8 DEF Mineru

LEMMA ParsersAdvance ==
  ASSUME TypeOK, TypeOK', NEW j \in Jobs,
         \/ ParseLocal(j) \/ TryRoute(j) \/ PersistChunks(j)
         \/ CountChunks(j) \/ CiteChunks(j) \/ IndexChunks(j)
  PROVE  StepsLeft(run'[j]) < StepsLeft(run[j])
<1>1. run[j].parser \in 1 .. 4 /\ run'[j].parser \in 1 .. 4
  BY DEF TypeOK, RunState
<1>2. CASE PersistChunks(j) \/ CountChunks(j) \/ CiteChunks(j) \/ IndexChunks(j)
  BY <1>2, PersistFlow, StepsEnding DEF At, Over
<1>3. CASE ParseLocal(j)
  <2>1. StepsLeft(run[j]) = 9
        /\ (StepsLeft(run'[j]) = 4 \/ StepsLeft(run'[j]) = 9 - run'[j].parser)
    BY <1>3, PersistFlow, StepsEnding DEF At
  <2> QED
    BY <1>1, <2>1
<1>4. CASE TryRoute(j)
  <2>1. StepsLeft(run[j]) = 9 - run[j].parser
    BY <1>4, PersistFlow, StepsEnding DEF At
  <2>2. CASE run'[j].pc = "tryRoute"
    <3>1. run'[j].parser = run[j].parser + 1
      BY <1>4, <2>2 DEF TryRoute, GoTo, TypeOK, RunState
    <3>2. StepsLeft(run'[j]) = 9 - run'[j].parser
      BY <2>2, StepsEnding
    <3> QED
      BY <1>1, <2>1, <3>1, <3>2
  <2>3. CASE run'[j].pc \in {"persist", "raised"}
    <3>1. StepsLeft(run'[j]) \in {4, 0}
      BY <2>3, StepsEnding DEF Over
    <3> QED
      BY <1>1, <2>1, <3>1
  <2> QED
    BY <1>4, <2>2, <2>3, PersistFlow
<1> QED
  BY <1>2, <1>3, <1>4

LEMMA StepsBound ==
  ASSUME TypeOK
  PROVE  StepsBounded
<1> SUFFICES ASSUME NEW j \in Jobs
             PROVE  StepsLeft(run[j]) \in 0 .. 2 * MaxPolls + 34
  BY DEF StepsBounded
<1>1. /\ MaxPolls \in Nat /\ MineruLength = MaxPolls + 9
      /\ run[j].polls \in 0 .. MaxPolls /\ run[j].parser \in 1 .. 4
      /\ run[j].pc \in Steps
  BY ParsePipelineAssumption DEF MineruLength, TypeOK, RunState
<1>2. CASE run[j].pc \in Over \union {"index", "failing", "cite", "count", "persist",
                                      "tryRoute", "parseLocal"}
  <2>1. StepsLeft(run[j]) \in 0 .. 9
    BY <1>1, <1>2, StepsEnding
  <2> QED
    BY <1>1, <2>1
<1>3. CASE run[j].pc \in {"abandonMineru", "touchDocument", "completeMineru", "storeMineru",
                          "collect", "poll", "submit", "beginMineru", "presign", "readBytes"}
  <2> DEFINE again == IF run[j].option = "bytes" THEN MineruLength ELSE 0
  <2>1. again \in 0 .. MaxPolls + 9
    BY <1>1
  <2>2. \/ StepsLeft(run[j]) \in {n + again : n \in 10 .. 14}
        \/ StepsLeft(run[j]) = 15 + again + (MaxPolls - run[j].polls)
        \/ StepsLeft(run[j]) = 16 + again + MaxPolls
        \/ StepsLeft(run[j]) = 17 + again + MaxPolls
        \/ StepsLeft(run[j]) = 18 + MaxPolls
        \/ StepsLeft(run[j]) = 18 + MineruLength + MaxPolls
    BY <1>3, StepsOfMineru
  <2> HIDE DEF again
  <2> QED
    BY <1>1, <2>1, <2>2
<1>4. CASE run[j].pc \in Creation \union {"waiting", "running", "succeeded", "look"}
  <2>1. \E n \in 19 .. 25 : StepsLeft(run[j]) = n + MineruLength + MaxPolls
    BY <1>4, StepsOfCreation DEF Creation
  <2> QED
    BY <1>1, <2>1
<1> QED
  BY <1>1, <1>2, <1>3, <1>4 DEF Steps, Parsing, Persisting

\* A run of run_job_once and the parsers under it goes forward only, whatever
\* the services answer: no statement is reached twice with as much left to do.
\* The deadline of poll_until_complete, the two options of MinerU and the end of
\* the route bound the steps of a job, from its creation on, by twice the polls
\* that fit and a constant; no step of another job adds to them.
THEOREM RunsWindDown == Spec => []StepsBounded /\ [][OneJobAdvances]_vars
<1>1. TypeOK /\ [Next]_vars => TypeOK' /\ [OneJobAdvances]_vars
  <2>1. ASSUME TypeOK, NEW j \in Jobs, Step(j) PROVE TypeOK' /\ OneJobAdvances
    <3>1. TypeOK'
      BY <2>1, TypeStep
    <3>2. StepsLeft(run'[j]) < StepsLeft(run[j])
      BY <2>1, <3>1, CreationAdvances, MineruAdvances, ParsersAdvance DEF Step, GoOn
    <3> QED
      BY <2>1, <3>1, <3>2, OtherRuns DEF OneJobAdvances
  <2>2. ASSUME TypeOK, UNCHANGED vars PROVE TypeOK'
    BY <2>2 DEF TypeOK, vars
  <2> QED
    BY <2>1, <2>2 DEF Next, Step
<1> QED
  BY <1>1, TypeInit, StepsBound, PTL DEF Spec
=============================================================================
