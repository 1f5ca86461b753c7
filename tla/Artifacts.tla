------------------------------- MODULE Artifacts -------------------------------
(***************************************************************************)
(* The chunked upload of the artifact of one task (a profile, a heap dump):     *)
(* the chunk stores, the manager that assembles a complete upload, puts it into *)
(* the blob store, adds a reference to the result of the task and notifies the  *)
(* analysis service, and the look-up of an artifact for download.              *)
(*                                                                         *)
(* Each request is a process, and goes on as persistArtifact when its chunk     *)
(* completed the upload.  One operation of Redis is one step; the engine takes  *)
(* one step per operation here (TaskEngine has the finer ones).  The content of *)
(* chunks, checksums and sizes are left out.                                  *)
(***************************************************************************)
EXTENDS Naturals, FiniteSets

CONSTANTS
  Calls,       \* requests of the agent
  Totals,      \* numbers of chunks that requests announce
  SharedStore, \* Redis chunk store (TRUE) or memory
  Named,       \* the agent gives a file name with an extension
  Notifies,    \* the notifier wants tasks of this type, and there is a store for records
  MaxRetries,
  MaxSends,    \* bound on requests
  MaxTroubles, \* bound on failed operations, expired uploads and shutdowns
  NULL

VARIABLES
  total,     \* total_chunks of the upload, 0 without metadata
  data,      \* the chunks stored under the upload key
  pc,        \* per request: its next step
  request,   \* per request: its chunk, and the number of chunks it announces
  draft,     \* per request: the result it is about to report
  blobs,     \* keys of the blob store
  record,    \* status of the last notification record
  status, retries, result, executing,  \* the task, and whether an agent works on it
  stopping, sends, troubles

uploadVars == <<total, data>>
callVars == <<pc, request, draft>>
taskVars == <<status, retries, result, executing>>
boundVars == <<stopping, sends, troubles>>
vars == <<uploadVars, callVars, blobs, record, taskVars, boundVars>>

TaskKey == "task"
BlobKey == IF Named THEN "task.ext" ELSE TaskKey

Result(s, ref) == [status |-> s, ref |-> ref]
Results == [status : {"success", "failed"}, ref : {TaskKey, "task.ext", NULL}]

At(c, step) == pc[c] = step
Goto(c, step) == pc' = [pc EXCEPT ![c] = step]
Trouble == troubles < MaxTroubles /\ troubles' = troubles + 1

(***************************************************************************)
(* Chunks                                                                  *)
(***************************************************************************)
\* A request of the agent that has claimed the task, of this attempt or a late one.
Send(c, i, n) ==
  /\ At(c, "idle") /\ sends < MaxSends
  /\ status # "pending" \/ retries > 0
  /\ sends' = sends + 1
  /\ request' = [request EXCEPT ![c] = [chunk |-> i, of |-> n]]
  /\ Goto(c, IF SharedStore THEN "exists" ELSE "keep")
  /\ UNCHANGED <<uploadVars, draft, blobs, record, taskVars, stopping, troubles>>

\* The request has been answered; a chunk that completed the upload has it persisted.
Answer(c, complete) ==
  Goto(c, IF complete THEN "assemble" ELSE "idle") /\ request' = [request EXCEPT ![c] = NULL]

Exists(c) ==
  /\ At(c, "exists")
  /\ Goto(c, IF total = 0 THEN "create" ELSE "verify")
  /\ UNCHANGED <<uploadVars, request, draft, blobs, record, taskVars, boundVars>>

Create(c) ==
  /\ At(c, "create")
  /\ total' = request[c].of /\ data' = data \cup {request[c].chunk}
  /\ Goto(c, "count")
  /\ UNCHANGED <<request, draft, blobs, record, taskVars, boundVars>>

\* A mismatch, or metadata that has gone in the meantime, refuses the chunk.
Verify(c) ==
  /\ At(c, "verify")
  /\ IF total = request[c].of THEN Goto(c, "store") /\ UNCHANGED request ELSE Answer(c, FALSE)
  /\ UNCHANGED <<uploadVars, draft, blobs, record, taskVars, boundVars>>

StoreMore(c) ==
  /\ At(c, "store")
  /\ data' = data \cup {request[c].chunk}
  /\ Goto(c, "count")
  /\ UNCHANGED <<total, request, draft, blobs, record, taskVars, boundVars>>

\* A mutant: the chunk with the last index completes the upload.
CountLastIndex(c) ==
  /\ At(c, "count")
  /\ Answer(c, request[c].chunk = request[c].of)
  /\ UNCHANGED <<uploadVars, draft, blobs, record, taskVars, boundVars>>

\* HLEN after the chunk was stored: of two last chunks, the later one sees both.
Count(c) ==
  /\ At(c, "count")
  /\ Answer(c, Cardinality(data) = request[c].of)
  /\ UNCHANGED <<uploadVars, draft, blobs, record, taskVars, boundVars>>

\* StoreChunk of the memory store.
Keep(c) ==
  /\ At(c, "keep")
  /\ IF total \in {0, request[c].of}
     THEN /\ total' = request[c].of /\ data' = data \cup {request[c].chunk}
          /\ Answer(c, Cardinality(data') = request[c].of)
     ELSE Answer(c, FALSE) /\ UNCHANGED uploadVars
  /\ UNCHANGED <<draft, blobs, record, taskVars, boundVars>>

\* The upload outlives its TTL.
Expire ==
  /\ Trouble /\ total # 0
  /\ total' = 0 /\ data' = {}
  /\ UNCHANGED <<callVars, blobs, record, taskVars, stopping, sends>>

(***************************************************************************)
(* persistArtifact                                                          *)
(***************************************************************************)
IsComplete == total # 0 /\ data = 1..total

\* Not at all after Close; Redis removes the upload in a step of its own.
Assemble(c) ==
  /\ At(c, "assemble")
  /\ IF stopping \/ ~IsComplete
     THEN Goto(c, "idle") /\ UNCHANGED uploadVars
     ELSE IF SharedStore
     THEN Goto(c, "forget") /\ UNCHANGED uploadVars
     ELSE Goto(c, "put") /\ total' = 0 /\ data' = {}
  /\ UNCHANGED <<request, draft, blobs, record, taskVars, boundVars>>

Forget(c) ==
  /\ At(c, "forget")
  /\ total' = 0 /\ data' = {}
  /\ Goto(c, "put")
  /\ UNCHANGED <<request, draft, blobs, record, taskVars, boundVars>>

Put(c) ==
  /\ At(c, "put")
  /\ blobs' = blobs \cup {BlobKey}
  /\ Goto(c, "look")
  /\ UNCHANGED <<uploadVars, request, draft, record, taskVars, boundVars>>

\* updateTaskResultWithArtifact: without a result it makes one up.
Look(c) ==
  /\ At(c, "look")
  /\ draft' = [draft EXCEPT ![c] =
       IF result = NULL THEN Result("success", BlobKey) ELSE [result EXCEPT !.ref = BlobKey]]
  /\ Goto(c, "update")
  /\ UNCHANGED <<uploadVars, request, blobs, record, taskVars, boundVars>>

\* controlplaneResultToEngine: results of the engine have no field for the reference.
ToEngine(r) == [r EXCEPT !.ref = NULL]

\* EngineImpl.Report: a failure is retried, whatever status the task has.
ReportResult(r) ==
  IF r.status = "failed" /\ retries < MaxRetries
  THEN status' = "pending" /\ retries' = retries + 1 /\ result' = NULL
  ELSE /\ status' = IF status = "running" THEN r.status ELSE status
       /\ result' = ToEngine(r) /\ UNCHANGED retries

UpdateResult(c) ==
  /\ At(c, "update")
  /\ ReportResult(draft[c])
  /\ draft' = [draft EXCEPT ![c] = NULL]
  /\ Goto(c, "notify")
  /\ UNCHANGED <<uploadVars, request, blobs, record, executing, boundVars>>

\* The analysis service accepts the notification or not, and the outcome is recorded,
\* unless the notifier does not want it or nothing keeps records.
Notify(c, outcome) ==
  /\ At(c, "notify")
  /\ record' = IF Notifies THEN outcome ELSE record
  /\ Goto(c, "idle")
  /\ UNCHANGED <<uploadVars, request, draft, blobs, taskVars, boundVars>>

\* An operation fails.  The removal of the upload and the update of the result are best
\* effort; otherwise the chunk is refused, or persistArtifact returns.
Fails(c) ==
  /\ Trouble /\ ~At(c, "idle")
  /\ pc' = [pc EXCEPT ![c] =
       CASE At(c, "forget") -> "put" [] pc[c] \in {"look", "update"} -> "notify" [] OTHER -> "idle"]
  /\ request' = [request EXCEPT ![c] = NULL] /\ draft' = [draft EXCEPT ![c] = NULL]
  /\ UNCHANGED <<uploadVars, blobs, record, taskVars, stopping, sends>>

Close ==
  /\ Trouble /\ ~stopping
  /\ stopping' = TRUE
  /\ UNCHANGED <<uploadVars, callVars, blobs, record, taskVars, sends>>

(***************************************************************************)
(* The task                                                                *)
(***************************************************************************)
Claim ==
  /\ status = "pending" /\ ~executing
  /\ status' = "running" /\ executing' = TRUE
  /\ UNCHANGED <<uploadVars, callVars, blobs, record, retries, result, boundVars>>

AgentReports(o) ==
  /\ executing
  /\ ReportResult(Result(o, NULL))
  /\ executing' = FALSE
  /\ UNCHANGED <<uploadVars, callVars, blobs, record, boundVars>>

\* resolveArtifactKey, for a download.
ResolvedKey == IF result # NULL /\ result.ref # NULL THEN result.ref ELSE TaskKey

(***************************************************************************)
(* Specification                                                           *)
(***************************************************************************)
Init ==
  /\ total = 0 /\ data = {}
  /\ pc = [c \in Calls |-> "idle"]
  /\ request = [c \in Calls |-> NULL]
  /\ draft = [c \in Calls |-> NULL]
  /\ blobs = {} /\ record = "none"
  /\ status = "pending" /\ retries = 0 /\ result = NULL /\ executing = FALSE
  /\ stopping = FALSE /\ sends = 0 /\ troubles = 0

GoesOn(c) ==
  \/ Exists(c) \/ Create(c) \/ Verify(c) \/ StoreMore(c) \/ Count(c) \/ Keep(c)
  \/ Assemble(c) \/ Forget(c) \/ Put(c) \/ Look(c) \/ UpdateResult(c)
  \/ \E o \in {"sent", "failed"} : Notify(c, o)

Next ==
  \/ \E c \in Calls :
       \/ GoesOn(c) \/ Fails(c)
       \/ \E n \in Totals : \E i \in 1..n : Send(c, i, n)
  \/ Expire \/ Close \/ Claim
  \/ \E o \in {"success", "failed"} : AgentReports(o)

Spec == Init /\ [][Next]_vars

\* A request that the collector has accepted is worked off.
Fairness == \A c \in Calls : WF_vars(GoesOn(c))

FairSpec == Spec /\ Fairness

(***************************************************************************)
(* Properties                                                              *)
(***************************************************************************)
Steps == {"idle", "exists", "create", "verify", "store", "count", "keep", "assemble", "forget",
          "put", "look", "update", "notify"}

TypeOK ==
  /\ total \in Totals \cup {0} /\ data \subseteq Nat
  /\ pc \in [Calls -> Steps]
  /\ DOMAIN draft = Calls /\ \A c \in Calls : draft[c] \in Results \cup {NULL}
  /\ blobs \subseteq {TaskKey, "task.ext"} /\ record \in {"none", "sent", "failed"}
  /\ status \in {"pending", "running", "success", "failed"} /\ retries \in 0..MaxRetries
  /\ result \in Results \cup {NULL} /\ executing \in BOOLEAN /\ stopping \in BOOLEAN
  /\ sends \in 0..MaxSends /\ troubles \in 0..MaxTroubles

\* Whatever chunks arrive at the same time, twice, or late: when all of an upload are
\* there, one of the requests takes it to the blob store, and records a notification if
\* there is one to send and to keep, unless an operation fails or the collector stops.
UploadsArePersisted ==
  IsComplete ~> (blobs # {} /\ (Notifies => record # "none")) \/ troubles > 0

\* "Updates the TaskResult with the artifact reference" (artifact_manager.go): after
\* that the artifact is found for download.
ReferenceIsStored ==
  [][\A c \in Calls : At(c, "update") /\ pc'[c] = "notify" => ResolvedKey' \in blobs']_vars

\* A task that an agent executes has no result yet.
ResultsAreReported == executing => result = NULL

==============================================================================
