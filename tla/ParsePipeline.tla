---------------------------- MODULE ParsePipeline ----------------------------
(***************************************************************************)
(* What a parse job does with its document once run_job_once has taken it  *)
(* (app/store_admin.py), through the parsers of app/store_parse.py,        *)
(* app/mineru_parse_service.py and app/parser_adapters.py.                 *)
(*                                                                         *)
(* One document; Jobs are the parse jobs created for it, by its upload and *)
(* by later POST /documents/{id}/parse.  Their runs interleave at every    *)
(* access to the shared store and at every HTTP call.  Job statuses,       *)
(* retries and the queue are JobEngine's matter: each job runs once here.  *)
(* The external parsers, the object storage and the vector index answer,   *)
(* fail or stay silent as they like.                                       *)
(***************************************************************************)
EXTENDS Naturals, Sequences

CONSTANTS
    Jobs,           \* the parse jobs of the document
    MineruKey,      \* MINERU_API_KEY is set
    Route,          \* the adapter of each parser of the route, best first
    MaxPolls        \* polls that fit into max_poll_time_s

\* select_parse_route names at most three parsers.  An adapter is absent when
\* the parser is disabled, a stub when it has no endpoint.
ASSUME ParsePipelineAssumption ==
    /\ MineruKey \in BOOLEAN
    /\ Route \in Seq({"absent", "stub", "http"}) /\ Len(Route) \in 1 .. 3
    /\ MaxPolls \in Nat \ {0}

VARIABLES
    status,         \* the document's status
    chunks,         \* what document_chunks holds for the document
    manifest,       \* manifest[j]: parse_manifests.status of job j
    cited,          \* outputs whose chunks are in citation_sources
    indexed,        \* outputs whose chunks are in the vector index
    run             \* run[j]: creation and run of job j

vars == <<status, chunks, manifest, cited, indexed, run>>

(***************************************************************************)
(* The chunks a parser makes are one output, named by its kind and by the  *)
(* job it was made for.  Chunks are replaced as a whole.                   *)
(***************************************************************************)
Kinds == {"mineru", "local", "route"}
Outputs == [kind : Kinds, job : Jobs]
NoChunks == [kind |-> "none"]

ManifestStatus ==
    {"none", "queued", "running", "succeeded", "failed", "parsing", "completed"}

Creation == {"new", "stored", "marked"}
Parsing == {"readBytes", "presign", "beginMineru", "submit", "poll", "collect",
            "storeMineru", "completeMineru", "touchDocument", "abandonMineru",
            "parseLocal", "tryRoute"}
Persisting == {"persist", "count", "cite", "index"}
Over == {"done", "failed", "raised"}
Steps == Creation \union {"waiting", "running", "failing", "succeeded", "look"}
                  \union Parsing \union Persisting \union Over

RunState ==
    [pc : Steps,
     option : {"bytes", "url"},     \* the MinerU option being tried
     polls : 0 .. MaxPolls,
     content : BOOLEAN,             \* MinerU's content_list has chunks
     parser : 1 .. 4,               \* the parser of the route to try
     parsed : Kinds,                \* parsed_chunks
     tasks : Nat,                   \* history: submissions to MinerU
     delivered : BOOLEAN]           \* history: MinerU's chunks were stored

NewRun == [pc |-> "new", option |-> "bytes", polls |-> 0, content |-> FALSE,
           parser |-> 1, parsed |-> "route", tasks |-> 0, delivered |-> FALSE]

TypeOK ==
    /\ status \in {"uploaded", "parse_queued", "indexed", "parse_failed"}
    /\ chunks \in Outputs \union {NoChunks}
    /\ manifest \in [Jobs -> ManifestStatus]
    /\ cited \in SUBSET Outputs
    /\ indexed \in SUBSET Outputs
    /\ run \in [Jobs -> RunState]

\* create_upload_job has stored the file, the document and no chunks.
Init ==
    /\ status = "uploaded"
    /\ chunks = NoChunks
    /\ manifest = [j \in Jobs |-> "none"]
    /\ cited = {} /\ indexed = {}
    /\ run = [j \in Jobs |-> NewRun]

At(j, pc) == run[j].pc = pc
GoTo(j, pc) == run' = [run EXCEPT ![j].pc = pc]
SetManifest(j, s) == manifest' = [manifest EXCEPT ![j] = s]
Parsed(j) == [kind |-> run[j].parsed, job |-> j]

(***************************************************************************)
(* create_parse_job stores the job and its manifest, marks the document    *)
(* and only then appends the event the relay makes a message of.           *)
(***************************************************************************)
StoreJob(j) ==
    /\ At(j, "new")
    /\ SetManifest(j, "queued")
    /\ GoTo(j, "stored")
    /\ UNCHANGED <<status, chunks, cited, indexed>>

MarkQueued(j) ==
    /\ At(j, "stored")
    /\ status' = "parse_queued"
    /\ GoTo(j, "marked")
    /\ UNCHANGED <<chunks, manifest, cited, indexed>>

AppendEvent(j) ==
    /\ At(j, "marked")
    /\ GoTo(j, "waiting")
    /\ UNCHANGED <<status, chunks, manifest, cited, indexed>>

(***************************************************************************)
(* run_job_once: the run begins, then fails for good or succeeds.  The job *)
(* is succeeded and its document indexed before anything is parsed.        *)
(***************************************************************************)
BeginRun(j) ==
    /\ At(j, "waiting")
    /\ SetManifest(j, "running")
    /\ GoTo(j, "running")
    /\ UNCHANGED <<status, chunks, cited, indexed>>

FailManifest(j) ==
    /\ At(j, "running")
    /\ SetManifest(j, "failed")
    /\ GoTo(j, "failing")
    /\ UNCHANGED <<status, chunks, cited, indexed>>

FailDocument(j) ==
    /\ At(j, "failing")
    /\ status' = "parse_failed"
    /\ GoTo(j, "failed")
    /\ UNCHANGED <<chunks, manifest, cited, indexed>>

SucceedManifest(j) ==
    /\ At(j, "running")
    /\ SetManifest(j, "succeeded")
    /\ GoTo(j, "succeeded")
    /\ UNCHANGED <<status, chunks, cited, indexed>>

\* Mutant: a document that has chunks keeps its status.
MarkIndexed_Parsed(j) ==
    /\ At(j, "succeeded")
    /\ status' = IF chunks = NoChunks THEN "indexed" ELSE status
    /\ GoTo(j, "look")
    /\ UNCHANGED <<chunks, manifest, cited, indexed>>

MarkIndexed(j) ==
    /\ At(j, "succeeded")
    /\ status' = "indexed"
    /\ GoTo(j, "look")
    /\ UNCHANGED <<chunks, manifest, cited, indexed>>

\* Only a document without chunks is parsed.
LookForChunks(j) ==
    /\ At(j, "look")
    /\ GoTo(j, IF chunks # NoChunks THEN "done"
               ELSE IF MineruKey THEN "readBytes" ELSE "parseLocal")
    /\ UNCHANGED <<status, chunks, manifest, cited, indexed>>

(***************************************************************************)
(* _try_mineru_official_api.  No code gives a document a source_url, so    *)
(* the options are the file's bytes and then a presigned URL to it.        *)
(***************************************************************************)
ReadBytes(j) ==
    /\ At(j, "readBytes")
    /\ \/ run' = [run EXCEPT ![j].pc = "beginMineru", ![j].option = "bytes"]
       \/ GoTo(j, "presign")                \* no bytes, or get_object raised
    /\ UNCHANGED <<status, chunks, manifest, cited, indexed>>

Presign(j) ==
    /\ At(j, "presign")
    /\ \/ run' = [run EXCEPT ![j].pc = "beginMineru", ![j].option = "url"]
       \/ GoTo(j, "parseLocal")             \* local storage has no URLs
    /\ UNCHANGED <<status, chunks, manifest, cited, indexed>>

\* MineruParseService: parse_and_persist and parse_and_persist_from_bytes.
BeginMineru(j) ==
    /\ At(j, "beginMineru")
    /\ SetManifest(j, "parsing")
    /\ GoTo(j, "submit")
    /\ UNCHANGED <<status, chunks, cited, indexed>>

\* submit_task, or request_upload_urls and upload_file_to_url.
Submit(j) ==
    /\ At(j, "submit")
    /\ \E next \in {"poll", "abandonMineru"} :
           run' = [run EXCEPT ![j].pc = next, ![j].polls = 0,
                              ![j].tasks = @ + 1]
    /\ UNCHANGED <<status, chunks, manifest, cited, indexed>>

\* Mutant: polling has no deadline.
Poll_NoDeadline(j) ==
    /\ At(j, "poll")
    /\ \/ run' = [run EXCEPT ![j].polls = (@ + 1) % MaxPolls]
       \/ GoTo(j, "collect")
       \/ GoTo(j, "abandonMineru")
    /\ UNCHANGED <<status, chunks, manifest, cited, indexed>>

\* poll_until_complete, or poll_batch_until_complete.
Poll(j) ==
    /\ At(j, "poll")
    /\ \/ /\ run[j].polls < MaxPolls
          /\ \/ run' = [run EXCEPT ![j].polls = @ + 1]          \* not yet
             \/ GoTo(j, "collect")                              \* done
             \/ GoTo(j, "abandonMineru")                        \* failed
       \/ /\ run[j].polls = MaxPolls
          /\ GoTo(j, "abandonMineru")                           \* timeout
    /\ UNCHANGED <<status, chunks, manifest, cited, indexed>>

\* Download the zip, save it and its images, extract the content list.
Collect(j) ==
    /\ At(j, "collect")
    /\ \/ \E some \in BOOLEAN :
              run' = [run EXCEPT ![j].pc = "storeMineru", ![j].content = some]
       \/ GoTo(j, "abandonMineru")
    /\ UNCHANGED <<status, chunks, manifest, cited, indexed>>

\* Mutant: an empty result of MinerU replaces what is stored.
StoreMineru_Empty(j) ==
    /\ At(j, "storeMineru")
    /\ chunks' = IF run[j].content THEN [kind |-> "mineru", job |-> j] ELSE NoChunks
    /\ run' = [run EXCEPT ![j].pc = "completeMineru",
                          ![j].delivered = @ \/ run[j].content]
    /\ UNCHANGED <<status, manifest, cited, indexed>>

StoreMineru(j) ==
    /\ At(j, "storeMineru")
    /\ chunks' = IF run[j].content THEN [kind |-> "mineru", job |-> j] ELSE chunks
    /\ run' = [run EXCEPT ![j].pc = "completeMineru",
                          ![j].delivered = @ \/ run[j].content]
    /\ UNCHANGED <<status, manifest, cited, indexed>>

CompleteMineru(j) ==
    /\ At(j, "completeMineru")
    /\ SetManifest(j, "completed")
    /\ GoTo(j, "touchDocument")
    /\ UNCHANGED <<status, chunks, cited, indexed>>

\* The service calls upsert(tenant_id=..., document=...) on the repository the
\* store gives it, whose upsert has no tenant_id: the call raises TypeError.
TouchDocument(j) ==
    /\ At(j, "touchDocument")
    /\ GoTo(j, "abandonMineru")
    /\ UNCHANGED <<status, chunks, manifest, cited, indexed>>

\* Mutant: MinerU's failure takes the document's chunks with it.
AbandonMineru_RollsBack(j) ==
    /\ At(j, "abandonMineru")
    /\ SetManifest(j, "failed")
    /\ chunks' = NoChunks
    /\ GoTo(j, IF run[j].option = "bytes" THEN "presign" ELSE "parseLocal")
    /\ UNCHANGED <<status, cited, indexed>>

\* Every exception marks the manifest and is raised on: the failure of the
\* bytes leads to the URL, that of the URL to the local parser.
AbandonMineru(j) ==
    /\ At(j, "abandonMineru")
    /\ SetManifest(j, "failed")
    /\ GoTo(j, IF run[j].option = "bytes" THEN "presign" ELSE "parseLocal")
    /\ UNCHANGED <<status, chunks, cited, indexed>>

(***************************************************************************)
(* _parse_document_file, priorities 2 and 3.                               *)
(***************************************************************************)
ParseLocal(j) ==
    /\ At(j, "parseLocal")
    /\ \/ run' = [run EXCEPT ![j].pc = "persist", ![j].parsed = "local"]
       \/ GoTo(j, "tryRoute")       \* disabled, no bytes, no chunks, or raised
    /\ UNCHANGED <<status, chunks, manifest, cited, indexed>>

\* parse_with_route tries one adapter after the other; the exception that ends
\* it leaves run_job_once, as does any that is no ApiError.
TryRoute(j) ==
    LET k == run[j].parser IN
    /\ At(j, "tryRoute")
    /\ \/ /\ k > Len(Route)
          /\ GoTo(j, "raised")
       \/ /\ k <= Len(Route)
          /\ Route[k] # "stub"
          /\ run' = [run EXCEPT ![j].parser = k + 1]
       \/ /\ k <= Len(Route)
          /\ Route[k] # "absent"
          /\ run' = [run EXCEPT ![j].pc = "persist", ![j].parsed = "route"]
       \/ /\ k <= Len(Route)
          /\ Route[k] = "http"
          /\ GoTo(j, "raised")              \* an answer that cannot be read
    /\ UNCHANGED <<status, chunks, manifest, cited, indexed>>

(***************************************************************************)
(* Back in run_job_once with parsed_chunks.                                *)
(***************************************************************************)
\* Mutant: chunks another run stored are kept.
PersistChunks_KeepsStored(j) ==
    /\ At(j, "persist")
    /\ chunks' = IF chunks = NoChunks THEN Parsed(j) ELSE chunks
    /\ GoTo(j, "count")
    /\ UNCHANGED <<status, manifest, cited, indexed>>

PersistChunks(j) ==
    /\ At(j, "persist")
    /\ chunks' = Parsed(j)
    /\ GoTo(j, "count")
    /\ UNCHANGED <<status, manifest, cited, indexed>>

\* Mutant: the chunks are not counted.
CountChunks_Reread(j) ==
    /\ At(j, "count")
    /\ GoTo(j, "cite")
    /\ UNCHANGED <<status, chunks, manifest, cited, indexed>>

\* The manifest stored with chunk_count is the object run_job_once has held
\* since it set it to succeeded, not the one MinerU's service stored since.
CountChunks(j) ==
    /\ At(j, "count")
    /\ SetManifest(j, "succeeded")
    /\ GoTo(j, "cite")
    /\ UNCHANGED <<status, chunks, cited, indexed>>

CiteChunks(j) ==
    /\ At(j, "cite")
    /\ cited' = cited \union {Parsed(j)}
    /\ GoTo(j, "index")
    /\ UNCHANGED <<status, chunks, manifest, indexed>>

\* _maybe_index_chunks_to_lightrag swallows every failure of the index.
IndexChunks(j) ==
    /\ At(j, "index")
    /\ indexed' \in {indexed, indexed \union {Parsed(j)}}
    /\ GoTo(j, "done")
    /\ UNCHANGED <<status, chunks, manifest, cited>>

(***************************************************************************)
(* The whole                                                               *)
(***************************************************************************)
Mineru(j) ==
    \/ ReadBytes(j) \/ Presign(j)
    \/ BeginMineru(j) \/ Submit(j) \/ Poll(j) \/ Collect(j)
    \/ StoreMineru(j) \/ CompleteMineru(j) \/ TouchDocument(j)
    \/ AbandonMineru(j)

GoOn(j) ==
    \/ MarkQueued(j) \/ AppendEvent(j)
    \/ FailManifest(j) \/ FailDocument(j)
    \/ SucceedManifest(j) \/ MarkIndexed(j) \/ LookForChunks(j)
    \/ Mineru(j) \/ ParseLocal(j) \/ TryRoute(j)
    \/ PersistChunks(j) \/ CountChunks(j) \/ CiteChunks(j) \/ IndexChunks(j)

Next == \E j \in Jobs : StoreJob(j) \/ BeginRun(j) \/ GoOn(j)

Spec == Init /\ [][Next]_vars

\* A handler or a run that has begun goes on: all its HTTP calls time out.
\* Nothing makes a job begin.
FairSpec == Spec /\ \A j \in Jobs : WF_vars(GoOn(j))

-----------------------------------------------------------------------------
Returned(j) == At(j, "done")

\* A stored chunk can be cited (store_admin.py:819): when the run that stored
\* the document's chunks has returned, their citation sources are registered,
\* whichever other runs replaced chunks in the meantime.
StoredIsCited ==
    chunks # NoChunks /\ Returned(chunks.job) => chunks \in cited

\* What the vector index finds resolves to a citation, however the runs
\* overlap: chunks are registered before they are indexed.
IndexedIsCited == indexed \subseteq cited

\* "indexed" is set before the file is parsed (store_admin.py:796), and a run
\* that finds chunks parses nothing: a run that returned leaves a document that
\* has chunks, although others find none, replace them or raise.
ReturnedHasChunks == \A j \in Jobs : Returned(j) => chunks # NoChunks

\* MinerU's service writes the manifest of a job that is over already: parsing,
\* completed, failed.  It ends as the run ended, and never half way.
ManifestSettles ==
    \A j \in Jobs :
        /\ Returned(j) => manifest[j] = "succeeded"
        /\ At(j, "failed") => manifest[j] = "failed"
        /\ At(j, "raised") => manifest[j] \in {"succeeded", "failed"}

\* create_parse_job and run_job_once both write the document's status, for
\* different jobs in any order: once every job created is over it is not left
\* parse_queued.
DocumentSettles ==
    /\ \A j \in Jobs : run[j].pc \in {"new"} \union Over
    /\ \E j \in Jobs : run[j].pc \in Over
    => status \in {"indexed", "parse_failed"}

\* However MinerU, the object storage and the parsers fail, one run submits the
\* file at most twice, its bytes and its URL.
AtMostTwoTasks == \A j \in Jobs : run[j].tasks <= 2

\* Chunks are replaced, never lost: no parser's empty answer removes the chunks
\* another run has stored (mineru_parse_service.py:209, store_parse.py:347).
ChunksNeverLost == [][chunks # NoChunks => chunks' # NoChunks]_vars

\* A run ends although MinerU may answer "processing" for ever.
EveryRunEnds ==
    \A j \in Jobs : At(j, "running") ~> run[j].pc \in Over

=============================================================================
