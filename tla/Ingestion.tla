------------------------------ MODULE Ingestion ------------------------------
(***************************************************************************)
(* Requirement ingestion: the extraction workers, the queue they take      *)
(* their jobs from and the request handlers that add, correct, review,     *)
(* retry and delete requirement sources, one step per awaited operation.   *)
(*                                                                         *)
(* Nothing spans two operations: a handler that has read a source writes   *)
(* it later, over whatever happened in between.  A worker process may die  *)
(* (WorkerDies) and a request be cut short (Abort) at any await; a storage *)
(* or database operation inside the worker's try block may fail (Stumble). *)
(***************************************************************************)
EXTENDS JobStore, SourceStore, FiniteSets

CONSTANTS
    FileSource, TextSource,     \* identities of uploads and of pasted texts
    OcrSource, LegacySource,    \* the image files; the .doc and .xls files
    Request,                    \* slots for request handlers in progress
    NoRun, NoRequest, NotRead,  \* an idle worker, an idle slot; not inside fail
    Absent, Unborn, Removed,    \* no source document; no job document (see JobQueue)
    Cancellable,                \* jobs whose cancellation is requested; no route does
    MaxSources,                 \* bound on the sources that are ever added
    MaxVersion,                 \* bound on edits: no edit starts at this version
    MaxCrashes, MaxSlips, MaxOperatorRetries, MaxFaults, MaxAborts,
    MaxOverlaps,                \* bound: how often a handler starts beside another
    MaxDisturbances             \* bound on all that goes wrong and on overlaps, together

ASSUME SourceAssumption ==
    /\ FileSource \cap TextSource = {}
    /\ OcrSource \subseteq FileSource /\ LegacySource \subseteq FileSource
    /\ Absent \notin SourceDocument
ASSUME BoundsAssumption ==
    /\ MaxSources \in Nat /\ MaxVersion \in Nat /\ MaxCrashes \in Nat /\ MaxSlips \in Nat
    /\ MaxOperatorRetries \in Nat /\ MaxFaults \in Nat /\ MaxAborts \in Nat
    /\ MaxOverlaps \in Nat /\ MaxDisturbances \in Nat

Source == FileSource \cup TextSource

\* Jobs are identified by their idempotency key "extraction:<sourceId>:<attempt>".
Job == FileSource \X (0..MaxAttempts)
SourceOf(j) == j[1]

WorkerStep ==
    {"lookup", "cancelGone", "begin", "fetch", "convert", "ocr", "extract", "check",
     "cancelRun", "markCancelled", "drop", "store", "publish", "complete",
     "failRead", "failWrite", "markQueued", "markFailed"}
\* The steps inside the try block of process, where an error is handled.
Tried == {"fetch", "convert", "ocr", "extract", "check", "cancelRun", "markCancelled",
          "drop", "store", "publish", "complete"}
\* The steps after the queue has let the job go.
LetGo == {"markCancelled", "markQueued", "markFailed"}

Run == [step : WorkerStep, job : Job, claim : Nat, failure : Failure, read : Nat]

RequestStep ==
    {"create", "enqueue", "markUnqueued", "append", "counters", "find", "revise",
     "rewrite", "review", "incrementRetry", "requeue", "resubmit", "erase"}
Handling ==
    [step : RequestStep, source : Source, version : Nat, basis : Nat, number : Nat,
     origin : Origin]

ASSUME SentinelAssumption ==
    /\ NoRun \notin Run /\ NoRun \notin [job : Job, claim : Nat]
    /\ NoRequest \notin Handling /\ NotRead \notin Nat
    /\ Unborn \notin Document /\ Removed \notin Document /\ Unborn # Removed

VARIABLES
    source,     \* source[s]: its document, or Absent
    content,    \* content[s]: its stored revisions
    stored,     \* the file sources whose bytes are in file storage
    jobs,       \* jobs[j]: its document, or Unborn
    worker,     \* worker[w]: the Run in its memory, or NoRun
    runaway,    \* runaway[w]: jobs whose timed-out extraction still runs in w
    request,    \* request[r]: the Handling in its memory, or NoRequest
    crashes, slips, operatorRetries, faults, aborts, overlaps

failures == <<crashes, slips, operatorRetries, faults, aborts>>
budgets == <<failures, overlaps>>
vars == <<source, content, stored, jobs, worker, runaway, request, budgets>>

TypeInv ==
    /\ source \in [Source -> SourceDocument \cup {Absent}]
    /\ content \in [Source -> SUBSET Revision]
    /\ stored \subseteq FileSource
    /\ jobs \in [Job -> Document \cup {Unborn}]
    /\ worker \in [Worker -> Run \cup {NoRun}]
    /\ runaway \in [Worker -> SUBSET Job]
    /\ request \in [Request -> Handling \cup {NoRequest}]
    /\ crashes \in 0..MaxCrashes /\ slips \in 0..MaxSlips
    /\ operatorRetries \in 0..MaxOperatorRetries
    /\ faults \in 0..MaxFaults /\ aborts \in 0..MaxAborts /\ overlaps \in 0..MaxOverlaps

Init ==
    /\ source = [s \in Source |-> Absent]
    /\ content = [s \in Source |-> {}]
    /\ stored = {}
    /\ jobs = [j \in Job |-> Unborn]
    /\ worker = [w \in Worker |-> NoRun]
    /\ runaway = [w \in Worker |-> {}]
    /\ request = [r \in Request |-> NoRequest]
    /\ crashes = 0 /\ slips = 0 /\ operatorRetries = 0 /\ faults = 0 /\ aborts = 0
    /\ overlaps = 0

\* Whether one more thing may go wrong.
Undisturbed == crashes + slips + operatorRetries + faults + aborts + overlaps < MaxDisturbances

Live(j) == jobs[j] # Unborn
WriteSource(s, document) == source' = [source EXCEPT ![s] = document]
WriteJob(j, document) == jobs' = [jobs EXCEPT ![j] = document]

\* enqueue: an upsert by key.
EnqueueExtraction(j) ==
    jobs' = IF Live(j) THEN jobs ELSE [jobs EXCEPT ![j] = NewDocument]

\* appendRevision: an insert under the unique index.
AddRevision(s, number, origin) ==
    /\ ~HasRevision(content[s], number)
    /\ content' = [content EXCEPT ![s] = @ \cup {[number |-> number, origin |-> origin]}]

-----------------------------------------------------------------------------
(* Request handlers: RequirementSourceService *)

At(r, step) == request[r] # NoRequest /\ request[r].step = step
Goto(r, step) == request' = [request EXCEPT ![r].step = step]
Done(r) == request' = [request EXCEPT ![r] = NoRequest]
Begin(r, h) ==
    /\ request[r] = NoRequest /\ request' = [request EXCEPT ![r] = h]
    /\ IF \E q \in Request : request[q] # NoRequest
       THEN Undisturbed /\ overlaps < MaxOverlaps /\ overlaps' = overlaps + 1
       ELSE UNCHANGED overlaps

\* A handler that has to read nothing before its first write.
Creating(s, step) ==
    [step |-> step, source |-> s, version |-> 0, basis |-> 0, number |-> 0,
     origin |-> "EXTRACTION"]
\* A handler that has read the source: the version its caller last saw, the
\* revision it starts from and the number of the one it will write. A caller
\* with an older version is refused and changes nothing.
Editing(s, step, basis, origin) ==
    [step |-> step, source |-> s, version |-> source[s].version, basis |-> basis,
     number |-> source[s].revisionCount, origin |-> origin]

\* requireSource: neither missing nor deleted.
Found(s) == source[s] # Absent /\ source[s].status # "DELETED"
Editable(s) == Found(s) /\ source[s].version < MaxVersion

\* An identity is used once: for a new source, as long as the bound allows one.
Known == {s \in Source : source[s] # Absent \/ s \in stored}
Addable(s) == s \notin Known /\ Cardinality(Known) < MaxSources

AddTextSource(r, s) ==
    /\ s \in TextSource /\ Addable(s)
    /\ WriteSource(s, NewSource("REVIEW_REQUIRED", 1))
    /\ Begin(r, Creating(s, "append"))
    /\ UNCHANGED <<content, stored, jobs, worker, runaway, failures>>

\* acceptFile, once the upload is validated, scanned and not a duplicate: the
\* bytes go to storage under a new object id.
UploadFile(r, s) ==
    /\ s \in FileSource /\ Addable(s)
    /\ stored' = stored \cup {s}
    /\ Begin(r, Creating(s, "create"))
    /\ UNCHANGED <<source, content, jobs, worker, runaway, failures>>

CreateFileSource(r) ==
    /\ At(r, "create")
    /\ WriteSource(request[r].source, NewSource("QUEUED", 0))
    /\ Goto(r, "enqueue")
    /\ UNCHANGED <<content, stored, jobs, worker, runaway, budgets>>

EnqueueUpload(r) ==
    /\ At(r, "enqueue")
    /\ EnqueueExtraction(<<request[r].source, 0>>)
    /\ Done(r)
    /\ UNCHANGED <<source, content, stored, worker, runaway, budgets>>

EnqueueUploadFails(r) ==
    /\ At(r, "enqueue")
    /\ Undisturbed /\ faults < MaxFaults /\ faults' = faults + 1
    /\ Goto(r, "markUnqueued")
    /\ UNCHANGED <<source, content, stored, jobs, worker, runaway, crashes, slips,
                   operatorRetries, aborts, overlaps>>

MarkUnqueued(r) ==
    /\ At(r, "markUnqueued")
    /\ LET s == request[r].source IN WriteSource(s, FailedWith(source[s], "QUEUE_FAILURE"))
    /\ Done(r)
    /\ UNCHANGED <<content, stored, jobs, worker, runaway, budgets>>

\* updateTextSource, correctContent and restoreOriginal read the source first ...
UpdateTextSource(r, s) ==
    /\ s \in TextSource /\ Editable(s)
    /\ Begin(r, Editing(s, "rewrite", 0, "CORRECTION"))
    /\ UNCHANGED <<source, content, stored, jobs, worker, runaway, failures>>

CorrectContent(r, s) ==
    /\ Editable(s) /\ HasExtractedContent(source[s].status)
    /\ Begin(r, Editing(s, "find", source[s].currentRevision, "CORRECTION"))
    /\ UNCHANGED <<source, content, stored, jobs, worker, runaway, failures>>

RestoreOriginal(r, s) ==
    /\ Editable(s)
    /\ Begin(r, Editing(s, "find", 0, "RESTORE"))
    /\ UNCHANGED <<source, content, stored, jobs, worker, runaway, failures>>

\* ... then, but for a rewritten text, the revision they start from ...
FindRevision(r) ==
    /\ At(r, "find")
    /\ IF HasRevision(content[request[r].source], request[r].basis)
       THEN Goto(r, "revise")
       ELSE Done(r)
    /\ UNCHANGED <<source, content, stored, jobs, worker, runaway, budgets>>

\* ... then update the document, if it still has the version and is not deleted ...
UpdateWithVersion(r, document) ==
    LET s == request[r].source
    IN  /\ Found(s) /\ source[s].version = request[r].version
        /\ WriteSource(s, document)

VersionConflict(r) ==
    /\ \E step \in {"revise", "rewrite", "review"} : At(r, step)
    /\ ~(Found(request[r].source) /\ source[request[r].source].version = request[r].version)
    /\ Done(r)
    /\ UNCHANGED <<source, content, stored, jobs, worker, runaway, budgets>>

PointAtRevision(r) ==
    /\ \/ At(r, "revise")
          /\ UpdateWithVersion(r, Revised(source[request[r].source], request[r].number))
       \/ At(r, "rewrite")
          /\ UpdateWithVersion(r, Rewritten(source[request[r].source], request[r].number))
    /\ Goto(r, "append")
    /\ UNCHANGED <<content, stored, jobs, worker, runaway, budgets>>

\* ... and last store the revision it now points at, which fails on a number taken.
AppendRevision(r) ==
    /\ At(r, "append")
    /\ LET h == request[r]
       IN  IF HasRevision(content[h.source], h.number)
           THEN Done(r) /\ UNCHANGED content
           ELSE /\ AddRevision(h.source, h.number, h.origin)
                /\ IF h.origin = "EXTRACTION" THEN Goto(r, "counters") ELSE Done(r)
    /\ UNCHANGED <<source, stored, jobs, worker, runaway, budgets>>

CountText(r) ==
    /\ At(r, "counters")
    /\ LET s == request[r].source IN WriteSource(s, Moved(source[s], "REVIEW_REQUIRED"))
    /\ Done(r)
    /\ UNCHANGED <<content, stored, jobs, worker, runaway, budgets>>

MarkReviewed(r, s) ==
    /\ Editable(s) /\ HasExtractedContent(source[s].status)
    /\ CanTransition(source[s].status, "READY")
    /\ Begin(r, Editing(s, "review", 0, "CORRECTION"))
    /\ UNCHANGED <<source, content, stored, jobs, worker, runaway, failures>>

WriteReviewed(r) ==
    /\ At(r, "review")
    /\ UpdateWithVersion(r, Reviewed(source[request[r].source]))
    /\ Done(r)
    /\ UNCHANGED <<content, stored, jobs, worker, runaway, budgets>>

RetryAnything(r, s) == \* faulty: any file again, without looking at its status
    /\ Found(s) /\ s \in FileSource /\ source[s].retryCount < MaxAttempts
    /\ IsRetryableFailure(source[s].failureCode)
    /\ Begin(r, [Creating(s, "incrementRetry") EXCEPT !.number = source[s].retryCount + 1])
    /\ UNCHANGED <<source, content, stored, jobs, worker, runaway, failures>>

\* retry: `number` is the attempt of the job it will enqueue.
Retry(r, s) ==
    /\ Found(s) /\ source[s].status = "FAILED"
    /\ source[s].retryCount < MaxAttempts
    /\ IsRetryableFailure(source[s].failureCode)
    /\ Begin(r, [Creating(s, "incrementRetry") EXCEPT !.number = source[s].retryCount + 1])
    /\ UNCHANGED <<source, content, stored, jobs, worker, runaway, failures>>

IncrementRetry(r) ==
    /\ At(r, "incrementRetry")
    /\ source' = [source EXCEPT ![request[r].source].retryCount = @ + 1]
    /\ Goto(r, "requeue")
    /\ UNCHANGED <<content, stored, jobs, worker, runaway, budgets>>

Requeue(r) ==
    /\ At(r, "requeue")
    /\ LET s == request[r].source IN WriteSource(s, QueuedAgain(source[s]))
    /\ Goto(r, "resubmit")
    /\ UNCHANGED <<content, stored, jobs, worker, runaway, budgets>>

Resubmit(r) ==
    /\ At(r, "resubmit")
    /\ EnqueueExtraction(<<request[r].source, request[r].number>>)
    /\ Done(r)
    /\ UNCHANGED <<source, content, stored, worker, runaway, budgets>>

DeleteKeepingBytes(r, s) == \* faulty: nothing erases the stored file
    /\ Found(s) /\ request[r] = NoRequest
    /\ WriteSource(s, SoftDeleted(source[s]))
    /\ UNCHANGED <<request, content, stored, jobs, worker, runaway, budgets>>

\* softDelete repeats the test of requireSource in its filter.
DeleteSource(r, s) ==
    /\ Found(s)
    /\ WriteSource(s, SoftDeleted(source[s]))
    /\ IF s \in FileSource
       THEN Begin(r, Creating(s, "erase"))
       ELSE request[r] = NoRequest /\ UNCHANGED <<request, overlaps>>
    /\ UNCHANGED <<content, stored, jobs, worker, runaway, failures>>

\* A failure to erase is logged, and the handler succeeds.
EraseBytes(r) ==
    /\ At(r, "erase")
    /\ \/ stored' = stored \ {request[r].source} /\ UNCHANGED faults
       \/ Undisturbed /\ faults < MaxFaults /\ faults' = faults + 1 /\ UNCHANGED stored
    /\ Done(r)
    /\ UNCHANGED <<source, content, jobs, worker, runaway, crashes, slips,
                   operatorRetries, aborts, overlaps>>

\* The process dies, or an operation fails, and the rest is never done.
Abort(r) ==
    /\ request[r] # NoRequest
    /\ Undisturbed /\ aborts < MaxAborts /\ aborts' = aborts + 1
    /\ Done(r)
    /\ UNCHANGED <<source, content, stored, jobs, worker, runaway, crashes, slips,
                   operatorRetries, faults, overlaps>>

-----------------------------------------------------------------------------
(* The worker: ExtractionWorker.runOnce *)

Doing(w, step) == worker[w] # NoRun /\ worker[w].step = step
Then(w, step) == worker' = [worker EXCEPT ![w].step = step]
Finish(w) == worker' = [worker EXCEPT ![w] = NoRun]
Fails(w, failure) ==
    worker' = [worker EXCEPT ![w].step = "failRead", ![w].failure = failure]
SourceAt(w) == SourceOf(worker[w].job)

\* Whether the queue counts the job as this worker's.
Holding(w) == worker[w] # NoRun /\ worker[w].step \notin LetGo
Attended(j) ==
    Live(j) /\ \E w \in Worker :
        Holding(w) /\ worker[w].job = j /\ worker[w].claim = jobs[j].attempts

ClaimNext(w, j) ==
    /\ worker[w] = NoRun
    /\ Live(j) /\ Runnable(jobs[j])
    /\ WriteJob(j, Claimed(jobs[j], w))
    /\ worker' = [worker EXCEPT ![w] =
          [step |-> "lookup", job |-> j, claim |-> jobs[j].attempts + 1,
           failure |-> Unrecognised, read |-> 0]]
    /\ UNCHANGED <<source, content, stored, runaway, request, budgets>>

LookUp(w) ==
    /\ Doing(w, "lookup")
    /\ Then(w, IF Found(SourceAt(w)) THEN "begin" ELSE "cancelGone")
    /\ UNCHANGED <<source, content, stored, jobs, runaway, request, budgets>>

CancelGone(w) ==
    /\ Doing(w, "cancelGone")
    /\ WriteJob(worker[w].job, Cancelled(jobs[worker[w].job]))
    /\ Finish(w)
    /\ UNCHANGED <<source, content, stored, runaway, request, budgets>>

\* setStatus by the worker, over whatever the status is by now.
Move(w, from, document, to) ==
    /\ Doing(w, from)
    /\ WriteSource(SourceAt(w), document)
    /\ Then(w, to)
    /\ UNCHANGED <<content, stored, jobs, runaway, request, budgets>>

BeginExtracting(w) == Move(w, "begin", Moved(source[SourceAt(w)], "EXTRACTING"), "fetch")

\* What follows once the bytes, converted if need be, are at hand.
ReadAs(s) == IF s \in OcrSource THEN "ocr" ELSE "extract"

FetchBytes(w) ==
    /\ Doing(w, "fetch")
    /\ LET s == SourceAt(w)
       IN  IF s \notin stored THEN Fails(w, Unrecognised)
           ELSE Then(w, IF s \in LegacySource THEN "convert" ELSE ReadAs(s))
    /\ UNCHANGED <<source, content, stored, jobs, runaway, request, budgets>>

Convert(w) ==
    \/ Move(w, "convert", Moved(source[SourceAt(w)], "EXTRACTING"), ReadAs(SourceAt(w)))
    \/ /\ Doing(w, "convert")
       /\ \E failure \in Failure \ {TimedOut} : Fails(w, failure)
       /\ UNCHANGED <<source, content, stored, jobs, runaway, request, budgets>>

BeginOcr(w) == Move(w, "ocr", Moved(source[SourceAt(w)], "OCR_PROCESSING"), "extract")

\* While it reads, and after the time limit for as long as it runs on, the
\* extraction reports its progress to the queue.
ReportProgress(w) ==
    /\ Doing(w, "extract")
    /\ WriteJob(worker[w].job, Progressed(jobs[worker[w].job]))
    /\ UNCHANGED <<source, content, stored, worker, runaway, request, budgets>>

LateProgress(w, j) ==
    /\ j \in runaway[w]
    /\ WriteJob(j, Progressed(jobs[j]))
    /\ UNCHANGED <<source, content, stored, worker, runaway, request, budgets>>

RunawayEnds(w, j) ==
    /\ j \in runaway[w]
    /\ runaway' = [runaway EXCEPT ![w] = @ \ {j}]
    /\ UNCHANGED <<source, content, stored, jobs, worker, request, budgets>>

Extract(w) ==
    /\ Doing(w, "extract")
    /\ Then(w, "check") \/ \E failure \in Failure : Fails(w, failure)
    /\ UNCHANGED <<source, content, stored, jobs, runaway, request, budgets>>

CheckCancelled(w) ==
    /\ Doing(w, "check")
    /\ Then(w, IF jobs[worker[w].job].cancelRequested THEN "cancelRun" ELSE "drop")
    /\ UNCHANGED <<source, content, stored, jobs, runaway, request, budgets>>

CancelRun(w) ==
    /\ Doing(w, "cancelRun")
    /\ WriteJob(worker[w].job, Cancelled(jobs[worker[w].job]))
    /\ Then(w, "markCancelled")
    /\ UNCHANGED <<source, content, stored, runaway, request, budgets>>

MarkCancelled(w) ==
    /\ Doing(w, "markCancelled")
    /\ WriteSource(SourceAt(w), FailedWith(source[SourceAt(w)], "EXTRACTION_FAILED"))
    /\ Finish(w)
    /\ UNCHANGED <<content, stored, jobs, runaway, request, budgets>>

DropUnstored(w) == \* faulty: the new revision is never stored
    /\ Doing(w, "drop")
    /\ content' = [content EXCEPT ![SourceAt(w)] = {}]
    /\ Then(w, "publish")
    /\ UNCHANGED <<source, stored, jobs, runaway, request, budgets>>

\* storeResult: the old revisions go, the new one is stored, the source is
\* published and the job completed, in four operations.
DropRevisions(w) ==
    /\ Doing(w, "drop")
    /\ content' = [content EXCEPT ![SourceAt(w)] = {}]
    /\ Then(w, "store")
    /\ UNCHANGED <<source, stored, jobs, runaway, request, budgets>>

StoreRevision(w) ==
    /\ Doing(w, "store")
    /\ IF HasRevision(content[SourceAt(w)], 0)
       THEN Fails(w, Unrecognised) /\ UNCHANGED content
       ELSE AddRevision(SourceAt(w), 0, "EXTRACTION") /\ Then(w, "publish")
    /\ UNCHANGED <<source, stored, jobs, runaway, request, budgets>>

\* A text layer may need review; what OCR read always does.
Publish(w) ==
    \E status \in {"REVIEW_REQUIRED", "READY"} :
        /\ Doing(w, "publish") /\ (SourceAt(w) \in OcrSource => status = "REVIEW_REQUIRED")
        /\ Move(w, "publish", Published(source[SourceAt(w)], status), "complete")

Complete(w) ==
    /\ Doing(w, "complete")
    /\ WriteJob(worker[w].job, Completed(jobs[worker[w].job]))
    /\ Finish(w)
    /\ UNCHANGED <<source, content, stored, runaway, request, budgets>>

\* A storage or database operation of the try block fails.
Stumble(w) ==
    /\ worker[w] # NoRun /\ worker[w].step \in Tried
    /\ Undisturbed /\ faults < MaxFaults /\ faults' = faults + 1
    /\ Fails(w, Unrecognised)
    /\ UNCHANGED <<source, content, stored, jobs, runaway, request, crashes, slips,
                   operatorRetries, aborts, overlaps>>

FailByClaim(w) == \* faulty: decides by the attempts the claim returned
    /\ Doing(w, "failRead")
    /\ worker' = [worker EXCEPT ![w].step = "failWrite", ![w].read = worker[w].claim]
    /\ UNCHANGED <<source, content, stored, jobs, runaway, request, budgets>>

\* handleFailure: the queue decides from one read and writes in a second
\* operation, and the source follows in a third.
FailRead(w) ==
    /\ Doing(w, "failRead")
    /\ LET j == worker[w].job
       IN  /\ worker' = [worker EXCEPT ![w].step = "failWrite",
                                       ![w].read = jobs[j].attempts]
           /\ runaway' = [runaway EXCEPT ![w] =
                 IF worker[w].failure = TimedOut THEN @ \cup {j} ELSE @]
    /\ UNCHANGED <<source, content, stored, jobs, request, budgets>>

FailWriteSilently(w) == \* faulty: returns once the job has failed for good
    /\ Doing(w, "failWrite")
    /\ LET j == worker[w].job
           disposition == Disposition(worker[w].read, worker[w].failure.retryable)
       IN  /\ WriteJob(j, Failed(jobs[j], disposition))
           /\ IF disposition = "queued" THEN Then(w, "markQueued") ELSE Finish(w)
    /\ UNCHANGED <<source, content, stored, runaway, request, budgets>>

FailWrite(w) ==
    /\ Doing(w, "failWrite")
    /\ LET j == worker[w].job
           disposition == Disposition(worker[w].read, worker[w].failure.retryable)
       IN  /\ WriteJob(j, Failed(jobs[j], disposition))
           /\ Then(w, IF disposition = "queued" THEN "markQueued" ELSE "markFailed")
    /\ UNCHANGED <<source, content, stored, runaway, request, budgets>>

MarkQueued(w) ==
    /\ Doing(w, "markQueued")
    /\ WriteSource(SourceAt(w), Moved(source[SourceAt(w)], "QUEUED"))
    /\ Finish(w)
    /\ UNCHANGED <<content, stored, jobs, runaway, request, budgets>>

MarkFailed(w) ==
    /\ Doing(w, "markFailed")
    /\ WriteSource(SourceAt(w), FailedWith(source[SourceAt(w)], worker[w].failure.code))
    /\ Finish(w)
    /\ UNCHANGED <<content, stored, jobs, runaway, request, budgets>>

-----------------------------------------------------------------------------
(* Operators, time and failure *)

\* AdminQueueService.retry: the job goes back to the queue, its source is not touched.
OperatorRetry(j) ==
    /\ Live(j) /\ Retryable(jobs[j])
    /\ Undisturbed /\ operatorRetries < MaxOperatorRetries /\ operatorRetries' = operatorRetries + 1
    /\ WriteJob(j, Retried(jobs[j]))
    /\ UNCHANGED <<source, content, stored, worker, runaway, request, crashes, slips,
                   faults, aborts, overlaps>>

\* ExtractionQueue.cancel.
RequestCancellation(j) ==
    /\ j \in Cancellable /\ Live(j)
    /\ WriteJob(j, CancellationRequested(jobs[j]))
    /\ UNCHANGED <<source, content, stored, worker, runaway, request, budgets>>

\* The process dies, or an error escapes process: the run is lost.
WorkerDies(w) ==
    /\ worker[w] # NoRun
    /\ Undisturbed /\ crashes < MaxCrashes /\ crashes' = crashes + 1
    /\ Finish(w)
    /\ runaway' \in {runaway, [runaway EXCEPT ![w] = {}]}
    /\ UNCHANGED <<source, content, stored, jobs, request, slips, operatorRetries, faults,
                   aborts, overlaps>>

Expire(j) ==
    /\ Live(j) /\ jobs[j].state = "running" /\ ~jobs[j].stale
    /\ WriteJob(j, [jobs[j] EXCEPT !.stale = TRUE])
    /\ UNCHANGED <<source, content, stored, worker, runaway, request, crashes,
                   operatorRetries, faults, aborts, overlaps>>

ClaimExpires(j) == ~Attended(j) /\ Expire(j) /\ UNCHANGED slips
ClaimSlips(j) ==
    Attended(j) /\ Expire(j) /\ Undisturbed /\ slips < MaxSlips /\ slips' = slips + 1

BackoffEnds(j) ==
    /\ Live(j) /\ ~jobs[j].due
    /\ WriteJob(j, [jobs[j] EXCEPT !.due = TRUE])
    /\ UNCHANGED <<source, content, stored, worker, runaway, request, budgets>>

-----------------------------------------------------------------------------

\* What a caller asks for ...
Ask(r) ==
    \E s \in Source :
        \/ AddTextSource(r, s) \/ UploadFile(r, s) \/ UpdateTextSource(r, s)
        \/ CorrectContent(r, s) \/ RestoreOriginal(r, s) \/ MarkReviewed(r, s)
        \/ Retry(r, s) \/ DeleteSource(r, s)

\* ... and how its handler goes on.
Handle(r) ==
    \/ CreateFileSource(r) \/ EnqueueUpload(r) \/ EnqueueUploadFails(r) \/ MarkUnqueued(r)
    \/ FindRevision(r) \/ PointAtRevision(r) \/ VersionConflict(r) \/ AppendRevision(r)
    \/ CountText(r) \/ WriteReviewed(r) \/ EraseBytes(r)
    \/ IncrementRetry(r) \/ Requeue(r) \/ Resubmit(r)

Claim(w) == \E j \in Job : ClaimNext(w, j)

\* What a worker does next with the job it claimed.
Process(w) ==
    \/ LookUp(w) \/ CancelGone(w) \/ BeginExtracting(w) \/ FetchBytes(w) \/ Convert(w)
    \/ BeginOcr(w) \/ Extract(w) \/ CheckCancelled(w) \/ CancelRun(w) \/ MarkCancelled(w)
    \/ DropRevisions(w) \/ StoreRevision(w) \/ Publish(w) \/ Complete(w)
    \/ FailRead(w) \/ FailWrite(w) \/ MarkQueued(w) \/ MarkFailed(w)

Extraction(w) ==
    ReportProgress(w) \/ \E j \in Job : LateProgress(w, j) \/ RunawayEnds(w, j)

JobStep(j) ==
    \/ OperatorRetry(j) \/ RequestCancellation(j)
    \/ ClaimExpires(j) \/ ClaimSlips(j) \/ BackoffEnds(j)

Next ==
    \/ \E r \in Request : Ask(r) \/ Handle(r) \/ Abort(r)
    \/ \E w \in Worker :
          Claim(w) \/ Process(w) \/ Extraction(w) \/ Stumble(w) \/ WorkerDies(w)
    \/ \E j \in Job : JobStep(j)

Spec == Init /\ [][Next]_vars

\* A handler that has begun runs on, the poll loop re-arms itself, an extraction
\* ends (by the time limit, for the worker that waits for it), and time passes.
Fairness ==
    /\ \A r \in Request : WF_vars(Handle(r))
    /\ \A w \in Worker :
          /\ WF_vars(Claim(w)) /\ WF_vars(Process(w))
          /\ \A j \in Job : WF_vars(RunawayEnds(w, j))
    /\ \A j \in Job : WF_vars(ClaimExpires(j)) /\ WF_vars(BackoffEnds(j))

FairSpec == Spec /\ Fairness

-----------------------------------------------------------------------------
(* The queue the workers use implements JobQueue. *)

Held ==
    [w \in Worker |->
        IF Holding(w) THEN [job |-> worker[w].job, claim |-> worker[w].claim] ELSE NoRun]
ReadByFail == [w \in Worker |-> IF Doing(w, "failWrite") THEN worker[w].read ELSE NotRead]

JQ == INSTANCE JobQueue WITH
    Key <- Job, KeyOf <- [j \in Job |-> j], NoClaim <- NoRun,
    holding <- Held, failRead <- ReadByFail

\* Every step of ingestion is a step of the queue's specification or leaves the
\* queue alone. (the calls the worker and the services make on the adapter)
ImplementsJobQueue == JQ!Spec

-----------------------------------------------------------------------------
(* Properties *)

Healthy == crashes = 0 /\ slips = 0 /\ operatorRetries = 0 /\ faults = 0 /\ aborts = 0
Active(s) == {j \in Job : SourceOf(j) = s /\ Live(j) /\ ~Settled(jobs[j])}
Serving(s) == {r \in Request : request[r] # NoRequest /\ request[r].source = s}
UserRevisions(s) == {r \in content[s] : r.origin # "EXTRACTION"}

\* While nothing fails, the content a source shows is there, or a handler is about to
\* store it, and a correction is never refused for its number after the document already
\* points at it, but where a restore took that number while the file was being read. Two
\* retries of a source that overlap give it two jobs, the second of which withdraws what
\* was published, hence retryCount. (the document points at a revision in another
\* collection; nextRevision is read, written, then used)
EffectiveContentExists ==
    Healthy =>
        \A s \in Source : source[s] # Absent /\ source[s].retryCount <= 1 =>
            /\ Found(s) /\ HasExtractedContent(source[s].status) =>
                  \/ HasRevision(content[s], source[s].currentRevision)
                  \/ \E r \in Serving(s) :
                        At(r, "append") /\ request[r].number = source[s].currentRevision
            /\ \A r \in Serving(s) : At(r, "append") /\ request[r].origin = "CORRECTION" =>
                  \A x \in content[s] : x.number = request[r].number =>
                      s \in FileSource /\ x.origin = "RESTORE"

\* Whatever fails or is cut short, a source that nobody deleted has its bytes. Unless
\* something did, bytes belong to such a source or to a handler still at work; what
\* revives a deleted source does not revive them. (stored before the record, erased
\* after it)
BytesAccountedFor ==
    \A s \in FileSource :
        /\ source[s] # Absent /\ ~source[s].deletedAt => s \in stored
        /\ aborts = 0 /\ faults = 0 /\ s \in stored =>
              (source[s] # Absent /\ ~source[s].deletedAt) \/ Serving(s) # {}

\* As long as no claim times out over a living worker and no operator forces a
\* retry, a source that was retried at most once never has two jobs to run, however
\* its handlers overlap and whatever dies. (retry's fresh key, and the order in
\* which fail and handleFailure make the source retryable)
OneActiveJob ==
    slips = 0 /\ operatorRetries = 0 =>
        \A s \in Source : source[s] # Absent /\ source[s].retryCount <= 1 =>
            \A i, j \in Active(s) : i = j

\* Every source that is being worked on gets to a state its user can act on.
\* (the worker, the queue's retries and the reclaim of abandoned jobs)
Pending(s) == source[s] # Absent /\ InProgress(source[s].status)
EveryExtractionEnds == \A s \in FileSource : Pending(s) ~> ~Pending(s)

-----------------------------------------------------------------------------
(* What the service and its decision record say, and the code does not do *)

\* "The corrections are not deleted - they stay in the history", but for a
\* re-extraction after a retry: here of a source that was never retried.
CorrectionsStay ==
    [][\A s \in Source :
          source[s] # Absent /\ source[s].retryCount = 0 =>
              UserRevisions(s) \subseteq content'[s]]_vars

=============================================================================
