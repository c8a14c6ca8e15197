--------------------------- MODULE Ingestion_proofs ---------------------------
(***************************************************************************)
(* What ingestion guarantees for every number of sources, workers,         *)
(* handlers and attempts, and that the queue inside it is JobQueue.        *)
(***************************************************************************)
EXTENDS Ingestion, TLAPS

(* What the store makes of a source *)

\* No write brings a source back or takes a retry from it.
Follows(new, old) ==
    /\ new \in SourceDocument
    /\ old.retryCount <= new.retryCount
    /\ old.deletedAt => new.deletedAt

LEMMA SourceFields ==
    ASSUME NEW d \in SourceDocument
    PROVE  /\ d.status \in SourceStatus /\ d.failureCode \in FailureCode /\ d.deletedAt \in BOOLEAN
           /\ d.version \in Nat /\ d.version + 1 \in Nat /\ d.retryCount + 1 \in Nat
           /\ d.retryCount <= d.retryCount /\ d.retryCount <= d.retryCount + 1
           /\ Follows(d, d)
  BY DEF SourceDocument, Follows

LEMMA NewSourceFacts ==
    ASSUME NEW status \in SourceStatus, NEW count \in Nat
    PROVE  LET d == NewSource(status, count)
           IN  /\ d \in SourceDocument
               /\ d.status = status /\ d.retryCount = 0 /\ ~d.deletedAt
               /\ d.revisionCount = count /\ d.currentRevision = 0
  BY DEF NewSource, SourceDocument, FailureCode

LEMMA MovedFacts ==
    ASSUME NEW d \in SourceDocument, NEW status \in SourceStatus
    PROVE  LET m == Moved(d, status)
           IN  /\ Follows(m, d) /\ m.status = status
               /\ m.retryCount = d.retryCount /\ m.deletedAt = d.deletedAt /\ m.version = d.version
               /\ m.revisionCount = d.revisionCount /\ m.currentRevision = d.currentRevision
  BY DEF Moved, SourceDocument, Follows

LEMMA MarkedFacts ==
    ASSUME NEW d \in SourceDocument, NEW code \in FailureCode
    PROVE  /\ LET m == FailedWith(d, code)
              IN  /\ Follows(m, d) /\ m.status = "FAILED"
                  /\ m.retryCount = d.retryCount /\ m.deletedAt = d.deletedAt /\ m.version = d.version
                  /\ m.revisionCount = d.revisionCount /\ m.currentRevision = d.currentRevision
           /\ LET m == QueuedAgain(d)
              IN  /\ Follows(m, d) /\ m.status = "QUEUED"
                  /\ m.retryCount = d.retryCount /\ m.deletedAt = d.deletedAt /\ m.version = d.version
                  /\ m.revisionCount = d.revisionCount /\ m.currentRevision = d.currentRevision
  <1> DEFINE m(status) == Moved(d, status)
  <1>1. ASSUME NEW status \in {"FAILED", "QUEUED"}
        PROVE  /\ m(status) \in SourceDocument /\ m(status).status = status
               /\ d.retryCount <= d.retryCount
               /\ m(status).retryCount = d.retryCount /\ m(status).deletedAt = d.deletedAt
               /\ m(status).version = d.version /\ m(status).revisionCount = d.revisionCount
               /\ m(status).currentRevision = d.currentRevision
    BY SourceFields, MovedFacts DEF SourceStatus, Follows
  <1>2. "NONE" \in FailureCode
    BY DEF FailureCode
  <1> HIDE DEF m
  <1>3. QED  BY <1>1, <1>2 DEF FailedWith, QueuedAgain, m, SourceDocument, Follows

LEMMA PublishedFacts ==
    ASSUME NEW d \in SourceDocument, NEW status \in SourceStatus
    PROVE  LET m == Published(d, status)
           IN  /\ Follows(m, d) /\ m.status = status
               /\ m.retryCount = d.retryCount /\ m.deletedAt = d.deletedAt /\ m.version = d.version
               /\ m.revisionCount = 1 /\ m.currentRevision = 0
  <1> DEFINE m == Moved(d, status)
  <1>1. /\ m \in SourceDocument /\ m.status = status /\ d.retryCount <= d.retryCount
        /\ m.retryCount = d.retryCount /\ m.deletedAt = d.deletedAt /\ m.version = d.version
    BY SourceFields, MovedFacts DEF Follows
  <1>2. "NONE" \in FailureCode
    BY DEF FailureCode
  <1> HIDE DEF m
  <1>3. QED  BY <1>1, <1>2 DEF Published, m, SourceDocument, Follows

LEMMA RevisedFacts ==
    ASSUME NEW d \in SourceDocument, NEW number \in Nat
    PROVE  /\ LET m == Revised(d, number)
              IN  /\ Follows(m, d) /\ m.status = d.status
                  /\ m.retryCount = d.retryCount /\ m.deletedAt = d.deletedAt
                  /\ m.version = d.version + 1
                  /\ m.revisionCount = number + 1 /\ m.currentRevision = number
           /\ LET m == Rewritten(d, number)
              IN  /\ Follows(m, d) /\ m.status = "REVIEW_REQUIRED"
                  /\ m.retryCount = d.retryCount /\ m.deletedAt = d.deletedAt
                  /\ m.version = d.version + 1
                  /\ m.revisionCount = number + 1 /\ m.currentRevision = number
  <1> DEFINE m == Revised(d, number)
  <1>1. d.version + 1 \in Nat /\ number + 1 \in Nat /\ d.retryCount <= d.retryCount
    BY SourceFields
  <1>2. /\ m \in SourceDocument /\ m.status = d.status
        /\ m.retryCount = d.retryCount /\ m.deletedAt = d.deletedAt /\ m.version = d.version + 1
        /\ m.revisionCount = number + 1 /\ m.currentRevision = number
    BY <1>1 DEF Revised, SourceDocument
  <1>3. "REVIEW_REQUIRED" \in SourceStatus
    BY DEF SourceStatus
  <1> HIDE DEF m
  <1>4. QED  BY <1>1, <1>2, <1>3 DEF Rewritten, m, SourceDocument, Follows

LEMMA ReviewedFacts ==
    ASSUME NEW d \in SourceDocument
    PROVE  /\ LET m == Reviewed(d)
              IN  /\ Follows(m, d) /\ m.status = "READY"
                  /\ m.retryCount = d.retryCount /\ m.deletedAt = d.deletedAt
                  /\ m.version = d.version + 1
                  /\ m.revisionCount = d.revisionCount /\ m.currentRevision = d.currentRevision
           /\ LET m == SoftDeleted(d)
              IN  /\ Follows(m, d) /\ m.status = "DELETED"
                  /\ m.retryCount = d.retryCount /\ m.deletedAt
                  /\ m.version = d.version + 1
                  /\ m.revisionCount = d.revisionCount /\ m.currentRevision = d.currentRevision
           /\ LET m == [d EXCEPT !.retryCount = @ + 1]
              IN  /\ Follows(m, d) /\ m.status = d.status
                  /\ m.retryCount = d.retryCount + 1 /\ m.deletedAt = d.deletedAt
                  /\ m.version = d.version
                  /\ m.revisionCount = d.revisionCount /\ m.currentRevision = d.currentRevision
  <1>1. /\ d.version + 1 \in Nat /\ d.retryCount + 1 \in Nat
        /\ d.retryCount <= d.retryCount /\ d.retryCount <= d.retryCount + 1
        /\ "READY" \in SourceStatus /\ "DELETED" \in SourceStatus
    BY SourceFields DEF SourceStatus
  <1>2. QED  BY <1>1 DEF Reviewed, SoftDeleted, SourceDocument, Follows

(* ... and of a job *)

\* A document rewritten without a cancellation being asked for.
Rewrites(e, d) == e \in Document /\ (e.cancelRequested => d.cancelRequested)

LEMMA DocumentFacts ==
    ASSUME NEW d \in Document
    PROVE  /\ \A w \in Worker : Rewrites(Claimed(d, w), d)
           /\ Rewrites(Progressed(d), d)
           /\ \A s \in JobState : Rewrites(Released(d, s), d)
           /\ Rewrites(Retried(d), d)
           /\ \A n, r : Rewrites(Failed(d, Disposition(n, r)), d)
           /\ Rewrites([d EXCEPT !.stale = TRUE], d)
           /\ Rewrites([d EXCEPT !.due = TRUE], d)
           /\ CancellationRequested(d) \in Document
  <1>1. ASSUME NEW w \in Worker PROVE Rewrites(Claimed(d, w), d)
    <2>1. d.attempts + 1 \in Nat
      BY DEF Document
    <2>2. QED  BY <2>1 DEF Document, Claimed, JobState, Rewrites
  <1>2. ASSUME NEW s \in JobState PROVE Rewrites(Released(d, s), d)
    BY DEF Document, Released, Rewrites
  <1>3. Rewrites(Retried(d), d)
    BY <1>2 DEF Document, Retried, JobState, Rewrites
  <1>4. ASSUME NEW n, NEW r PROVE Rewrites(Failed(d, Disposition(n, r)), d)
    <2>1. Disposition(n, r) \in JobState
      BY DEF Disposition, JobState
    <2>2. "queued" \in JobState /\ Rewrites(Released(d, "queued"), d)
      BY <1>2 DEF JobState
    <2>3. QED  BY <1>2, <2>1, <2>2 DEF Failed, Document, Rewrites
  <1>5. QED
    BY <1>1, <1>2, <1>3, <1>4 DEF Progressed, CancellationRequested, Document, Rewrites

-----------------------------------------------------------------------------
(* The inductive invariant of the types *)

\* A run, and an extraction left running, is of a job that exists, and a job of a source.
RunsExist ==
    /\ \A w \in Worker : worker[w] # NoRun => Live(worker[w].job)
    /\ \A w \in Worker : \A j \in runaway[w] : Live(j)
    /\ \A j \in Job : Live(j) => source[SourceOf(j)] # Absent

FileSteps == {"create", "enqueue", "markUnqueued", "erase", "incrementRetry", "requeue", "resubmit"}
RetrySteps == {"incrementRetry", "requeue", "resubmit"}

\* A handler is of a source that exists, or that it alone is about to create; what only files
\* have done to them is done to files; and a retry asks for an attempt there can be.
HandlersExist ==
    \A r \in Request : request[r] # NoRequest =>
        LET h == request[r]
        IN  /\ IF h.step = "create"
               THEN source[h.source] = Absent /\ h.source \in stored
               ELSE source[h.source] # Absent
            /\ \A q \in Request : h.step = "create" /\ At(q, "create") =>
                  request[q].source # h.source \/ q = r
            /\ h.step \in FileSteps => h.source \in FileSource
            /\ h.step \in RetrySteps => h.number \in 1 .. MaxAttempts

\* A pasted text is read when it is stored: nothing about it can fail.
TextsNeverFail ==
    \A s \in TextSource : source[s] # Absent => source[s].status \in {"REVIEW_REQUIRED", "READY", "DELETED"}

TInv == TypeInv /\ RunsExist /\ HandlersExist /\ TextsNeverFail

LEMMA Bounds ==
    /\ MaxAttempts \in Nat /\ MaxAttempts >= 1
    /\ FileSource \subseteq Source /\ TextSource \subseteq Source
    /\ FileSource \cap TextSource = {}
    /\ \A j \in Job : SourceOf(j) \in FileSource
    /\ \A s \in FileSource, k \in 0 .. MaxAttempts : <<s, k>> \in Job /\ SourceOf(<<s, k>>) = s
  BY MaxAttemptsAssumption, SourceAssumption DEF Source, Job, SourceOf

LEMMA SourceExists ==
    ASSUME TypeInv, NEW s \in Source
    PROVE  source[s] # Absent <=> source[s] \in SourceDocument
  BY SourceAssumption DEF TypeInv

LEMMA JobExists ==
    ASSUME TypeInv, NEW j \in Job
    PROVE  Live(j) <=> jobs[j] \in Document
  BY SentinelAssumption DEF TypeInv, Live

LEMMA RunFacts ==
    ASSUME TInv, NEW w \in Worker, worker[w] # NoRun
    PROVE  /\ worker[w] \in Run /\ worker[w].job \in Job
           /\ SourceAt(w) \in FileSource /\ SourceAt(w) \in Source
           /\ source[SourceAt(w)] \in SourceDocument /\ source[SourceAt(w)] # Absent
           /\ jobs[worker[w].job] \in Document
           /\ worker[w].failure \in Failure /\ worker[w].failure.code \in FailureCode
  <1>1. worker[w] \in Run /\ worker[w].job \in Job /\ worker[w].failure \in Failure
    BY DEF TInv, TypeInv, Run
  <1>2. worker[w].failure.code \in FailureCode
    BY <1>1 DEF Failure, FailureCode
  <1>3. SourceAt(w) \in FileSource /\ SourceAt(w) \in Source
    BY <1>1, Bounds DEF SourceAt
  <1>4. jobs[worker[w].job] \in Document /\ source[SourceAt(w)] # Absent
    BY <1>1, JobExists DEF TInv, RunsExist, SourceAt
  <1>5. QED  BY <1>1, <1>2, <1>3, <1>4, SourceExists DEF TInv

LEMMA RequestFacts ==
    ASSUME TInv, NEW r \in Request, request[r] # NoRequest
    PROVE  /\ request[r] \in Handling /\ request[r].source \in Source
           /\ request[r].number \in Nat /\ request[r].origin \in Origin
           /\ IF request[r].step = "create" THEN source[request[r].source] = Absent
              ELSE source[request[r].source] \in SourceDocument /\ source[request[r].source] # Absent
           /\ request[r].step \in FileSteps => request[r].source \in FileSource
           /\ request[r].step \in RetrySteps => request[r].number \in 1 .. MaxAttempts
  BY SourceExists DEF TInv, TypeInv, Handling, HandlersExist

-----------------------------------------------------------------------------
(* What a step does to the sources *)

TextStatus == {"REVIEW_REQUIRED", "READY", "DELETED"}

Created(s) ==
    \E r \in Request : AddTextSource(r, s) \/ (CreateFileSource(r) /\ s = request[r].source)
Born(s, d) == Created(s) /\ d.retryCount = 0 /\ ~d.deletedAt /\ d.status # "FAILED"

Failing(s) ==
    \/ \E r \in Request : MarkUnqueued(r) /\ s = request[r].source
    \/ \E w \in Worker : (MarkFailed(w) \/ MarkCancelled(w)) /\ s = SourceAt(w)

\* Only a deletion, a retry and a failure make a source deleted, retried and failed.
Written(s, d) ==
    /\ Follows(d, source[s])
    /\ d.deletedAt = source[s].deletedAt \/ \E r \in Request : DeleteSource(r, s)
    /\ d.retryCount = source[s].retryCount
          \/ \E r \in Request : IncrementRetry(r) /\ s = request[r].source
    /\ d.status = "FAILED" => source[s].status = "FAILED" \/ Failing(s)

SourcesStep ==
    /\ source' \in [Source -> SourceDocument \cup {Absent}]
    /\ \A s \in Source : source[s] # Absent => source'[s] # Absent /\ Written(s, source'[s])
    /\ \A s \in Source : source[s] = Absent => source'[s] = Absent \/ Born(s, source'[s])
    /\ \A s \in TextSource : source'[s] # Absent => source'[s].status \in TextStatus

LEMMA SourcesSame == ASSUME TInv, source' = source PROVE SourcesStep
  <1>1. ASSUME NEW s \in Source, source[s] # Absent PROVE Written(s, source[s])
    BY <1>1, SourceExists, SourceFields DEF TInv, Written
  <1>2. QED  BY <1>1 DEF SourcesStep, TInv, TypeInv, TextsNeverFail, TextStatus

LEMMA SourceWritten ==
    ASSUME TInv, NEW s \in Source, NEW d \in SourceDocument, WriteSource(s, d),
           IF source[s] = Absent THEN Born(s, d) ELSE Written(s, d),
           s \in TextSource => d.status \in TextStatus
    PROVE  SourcesStep
  <1>1. ASSUME NEW t \in Source, source[t] # Absent PROVE Written(t, source[t])
    BY <1>1, SourceExists, SourceFields DEF TInv, Written
  <1>2. d # Absent
    BY SourceAssumption
  <1>3. source' = [source EXCEPT ![s] = d]
    BY DEF WriteSource
  <1>4. QED  BY <1>1, <1>2, <1>3, Bounds DEF SourcesStep, TInv, TypeInv, TextsNeverFail, TextStatus

LEMMA SourcesNext == ASSUME TInv, [Next]_vars PROVE SourcesStep
<1>u. ASSUME source' = source PROVE SourcesStep
  BY <1>u, SourcesSame
<1>n. \A s \in FileSource : s \notin TextSource
  BY Bounds
<1>s. {"QUEUED", "EXTRACTING", "OCR_PROCESSING", "REVIEW_REQUIRED", "READY", "FAILED", "DELETED"} = SourceStatus
  BY DEF SourceStatus
<1>c. "QUEUE_FAILURE" \in FailureCode /\ "EXTRACTION_FAILED" \in FailureCode
  BY DEF FailureCode
\* What an existing source becomes, when neither a deletion nor a retry.
<1>k. ASSUME NEW s \in Source, source[s] # Absent, NEW d, WriteSource(s, d), Follows(d, source[s]),
             d.deletedAt = source[s].deletedAt, d.retryCount = source[s].retryCount,
             d.status = "FAILED" => source[s].status = "FAILED" \/ Failing(s),
             s \in TextSource => d.status \in TextStatus
      PROVE  SourcesStep
  BY <1>k, SourceWritten DEF Written, Follows
<1>1. ASSUME NEW r \in Request, NEW s \in Source, AddTextSource(r, s) PROVE SourcesStep
  <2>1. source[s] = Absent
    BY <1>1 DEF AddTextSource, Addable, Known
  <2>2. Born(s, NewSource("REVIEW_REQUIRED", 1)) /\ NewSource("REVIEW_REQUIRED", 1) \in SourceDocument
    BY <1>1, <1>s, NewSourceFacts DEF Born, Created
  <2>3. QED  BY <1>1, <1>s, <2>1, <2>2, NewSourceFacts, SourceWritten DEF AddTextSource, TextStatus
<1>2. ASSUME NEW r \in Request, CreateFileSource(r) PROVE SourcesStep
  <2> DEFINE s == request[r].source
  <2>1. s \in FileSource /\ s \in Source /\ WriteSource(s, NewSource("QUEUED", 0)) /\ source[s] = Absent
    BY <1>2, RequestFacts DEF CreateFileSource, At, FileSteps
  <2>2. Born(s, NewSource("QUEUED", 0)) /\ NewSource("QUEUED", 0) \in SourceDocument
    BY <1>2, <1>s, NewSourceFacts DEF Born, Created
  <2>3. QED  BY <1>n, <2>1, <2>2, SourceWritten
<1>3. ASSUME NEW r \in Request, MarkUnqueued(r) PROVE SourcesStep
  <2> DEFINE s == request[r].source
  <2>1. /\ s \in FileSource /\ s \in Source /\ source[s] \in SourceDocument /\ source[s] # Absent
        /\ WriteSource(s, FailedWith(source[s], "QUEUE_FAILURE")) /\ Failing(s)
    BY <1>3, RequestFacts DEF MarkUnqueued, At, FileSteps, Failing
  <2>2. QED  BY <1>k, <1>n, <1>c, <2>1, MarkedFacts
<1>4. ASSUME NEW r \in Request, PointAtRevision(r) PROVE SourcesStep
  <2> DEFINE s == request[r].source
  <2>1. s \in Source /\ source[s] \in SourceDocument /\ source[s] # Absent /\ request[r].number \in Nat
    BY <1>4, RequestFacts DEF PointAtRevision, At
  <2>2. PICK d \in {Revised(source[s], request[r].number), Rewritten(source[s], request[r].number)} :
           WriteSource(s, d)
    BY <1>4 DEF PointAtRevision, UpdateWithVersion
  <2>3. s \in TextSource => source[s].status \in TextStatus
    BY <2>1 DEF TInv, TextsNeverFail, TextStatus
  <2>4. /\ Follows(d, source[s]) /\ (s \in TextSource => d.status \in TextStatus)
        /\ d.deletedAt = source[s].deletedAt /\ d.retryCount = source[s].retryCount
        /\ d.status = "FAILED" => source[s].status = "FAILED"
    BY <2>1, <2>2, <2>3, RevisedFacts DEF TextStatus
  <2>5. QED  BY <1>k, <2>1, <2>2, <2>4
<1>5. ASSUME NEW r \in Request, CountText(r) PROVE SourcesStep
  <2> DEFINE s == request[r].source
             d == Moved(source[s], "REVIEW_REQUIRED")
  <2>1. s \in Source /\ source[s] \in SourceDocument /\ source[s] # Absent /\ WriteSource(s, d)
    BY <1>5, RequestFacts DEF CountText, At
  <2>2. /\ Follows(d, source[s]) /\ d.status = "REVIEW_REQUIRED"
        /\ d.deletedAt = source[s].deletedAt /\ d.retryCount = source[s].retryCount
    BY <1>s, <2>1, MovedFacts
  <2> HIDE DEF d
  <2>3. QED  BY <1>k, <2>1, <2>2 DEF TextStatus
<1>6. ASSUME NEW r \in Request, WriteReviewed(r) PROVE SourcesStep
  <2> DEFINE s == request[r].source
             d == Reviewed(source[s])
  <2>1. s \in Source /\ source[s] \in SourceDocument /\ source[s] # Absent /\ WriteSource(s, d)
    BY <1>6, RequestFacts DEF WriteReviewed, UpdateWithVersion, At
  <2>2. /\ Follows(d, source[s]) /\ d.status = "READY"
        /\ d.deletedAt = source[s].deletedAt /\ d.retryCount = source[s].retryCount
    BY <2>1, ReviewedFacts
  <2> HIDE DEF d
  <2>3. QED  BY <1>k, <2>1, <2>2 DEF TextStatus
<1>7. ASSUME NEW r \in Request, IncrementRetry(r) PROVE SourcesStep
  <2> DEFINE s == request[r].source
             d == [source[s] EXCEPT !.retryCount = @ + 1]
  <2>1. s \in FileSource /\ s \in Source /\ source[s] \in SourceDocument /\ source[s] # Absent
    BY <1>7, RequestFacts DEF IncrementRetry, At, FileSteps
  <2>2. WriteSource(s, d)
    BY <1>7, <2>1 DEF IncrementRetry, WriteSource, TInv, TypeInv
  <2>3. Follows(d, source[s]) /\ d.deletedAt = source[s].deletedAt /\ d.status = source[s].status
    BY <2>1, ReviewedFacts
  <2> HIDE DEF d
  <2>4. Written(s, d) /\ d \in SourceDocument
    BY <1>7, <2>3 DEF Written, Follows
  <2>5. QED  BY <1>n, <2>1, <2>2, <2>4, SourceWritten
<1>8. ASSUME NEW r \in Request, Requeue(r) PROVE SourcesStep
  <2> DEFINE s == request[r].source
             d == QueuedAgain(source[s])
  <2>1. /\ s \in FileSource /\ s \in Source /\ source[s] \in SourceDocument /\ source[s] # Absent
        /\ WriteSource(s, d)
    BY <1>8, RequestFacts DEF Requeue, At, FileSteps
  <2>2. /\ Follows(d, source[s]) /\ d.status = "QUEUED"
        /\ d.deletedAt = source[s].deletedAt /\ d.retryCount = source[s].retryCount
    BY <1>c, <2>1, MarkedFacts
  <2> HIDE DEF d
  <2>3. QED  BY <1>k, <1>n, <2>1, <2>2
<1>9. ASSUME NEW r \in Request, NEW s \in Source, DeleteSource(r, s) PROVE SourcesStep
  <2> DEFINE d == SoftDeleted(source[s])
  <2>1. source[s] \in SourceDocument /\ source[s] # Absent /\ WriteSource(s, d)
    BY <1>9, SourceExists DEF DeleteSource, Found, TInv
  <2>2. Follows(d, source[s]) /\ d.status = "DELETED" /\ d.retryCount = source[s].retryCount
    BY <2>1, ReviewedFacts
  <2> HIDE DEF d
  <2>3. Written(s, d) /\ d \in SourceDocument
    BY <1>9, <2>2 DEF Written, Follows
  <2>4. QED  BY <2>1, <2>2, <2>3, SourceWritten DEF TextStatus
\* A worker only writes to the file it works on.
<1>w. ASSUME NEW w \in Worker, worker[w] # NoRun, NEW d, Follows(d, source[SourceAt(w)]),
             WriteSource(SourceAt(w), d),
             d.deletedAt = source[SourceAt(w)].deletedAt, d.retryCount = source[SourceAt(w)].retryCount,
             d.status = "FAILED" => Failing(SourceAt(w))
      PROVE  SourcesStep
  BY <1>w, <1>n, <1>k, RunFacts
<1>10. ASSUME NEW w \in Worker, BeginExtracting(w) \/ Convert(w) \/ BeginOcr(w) \/ MarkQueued(w) PROVE SourcesStep
  <2>1. worker[w] # NoRun /\ source[SourceAt(w)] \in SourceDocument
    BY <1>10, RunFacts DEF BeginExtracting, Convert, BeginOcr, MarkQueued, Move, Doing
  <2>2. \A status \in SourceStatus :
           LET d == Moved(source[SourceAt(w)], status)
           IN  /\ Follows(d, source[SourceAt(w)]) /\ d.status = status
               /\ d.deletedAt = source[SourceAt(w)].deletedAt /\ d.retryCount = source[SourceAt(w)].retryCount
    BY <2>1, MovedFacts
  <2>3. \/ source' = source
        \/ \E status \in {"EXTRACTING", "OCR_PROCESSING", "QUEUED"} :
              WriteSource(SourceAt(w), Moved(source[SourceAt(w)], status))
    BY <1>10 DEF BeginExtracting, Convert, BeginOcr, MarkQueued, Move
  <2>4. QED  BY <1>u, <1>w, <1>s, <2>1, <2>2, <2>3
<1>11. ASSUME NEW w \in Worker, Publish(w) PROVE SourcesStep
  <2>1. worker[w] # NoRun /\ source[SourceAt(w)] \in SourceDocument
    BY <1>11, RunFacts DEF Publish, Doing
  <2>2. PICK status \in {"REVIEW_REQUIRED", "READY"} :
           WriteSource(SourceAt(w), Published(source[SourceAt(w)], status))
    BY <1>11 DEF Publish, Move
  <2>3. QED  BY <1>w, <1>s, <2>1, <2>2, PublishedFacts
<1>12. ASSUME NEW w \in Worker, MarkFailed(w) \/ MarkCancelled(w) PROVE SourcesStep
  <2>1. /\ worker[w] # NoRun /\ source[SourceAt(w)] \in SourceDocument
        /\ worker[w].failure.code \in FailureCode /\ Failing(SourceAt(w))
    BY <1>12, RunFacts DEF MarkFailed, MarkCancelled, Doing, Failing
  <2>2. PICK code \in FailureCode : WriteSource(SourceAt(w), FailedWith(source[SourceAt(w)], code))
    BY <1>12, <1>c, <2>1 DEF MarkFailed, MarkCancelled
  <2>3. QED  BY <1>w, <2>1, <2>2, MarkedFacts
<1>13. ASSUME NEW r \in Request,
              \/ EnqueueUpload(r) \/ EnqueueUploadFails(r) \/ FindRevision(r) \/ VersionConflict(r)
              \/ AppendRevision(r) \/ EraseBytes(r) \/ Resubmit(r) \/ Abort(r)
              \/ \E s \in Source :
                    \/ UploadFile(r, s) \/ UpdateTextSource(r, s) \/ CorrectContent(r, s)
                    \/ RestoreOriginal(r, s) \/ MarkReviewed(r, s) \/ Retry(r, s)
       PROVE  SourcesStep
  BY <1>13, <1>u
     DEF EnqueueUpload, EnqueueUploadFails, FindRevision, VersionConflict, AppendRevision, EraseBytes,
         Resubmit, Abort, UploadFile, UpdateTextSource, CorrectContent, RestoreOriginal, MarkReviewed, Retry
<1>14. ASSUME NEW w \in Worker,
              \/ Claim(w) \/ LookUp(w) \/ CancelGone(w) \/ FetchBytes(w) \/ Extract(w) \/ CheckCancelled(w)
              \/ CancelRun(w) \/ DropRevisions(w) \/ StoreRevision(w) \/ Complete(w) \/ FailRead(w)
              \/ FailWrite(w) \/ Extraction(w) \/ Stumble(w) \/ WorkerDies(w)
       PROVE  SourcesStep
  BY <1>14, <1>u
     DEF Claim, ClaimNext, LookUp, CancelGone, FetchBytes, Extract, CheckCancelled, CancelRun,
         DropRevisions, StoreRevision, Complete, FailRead, FailWrite, Extraction, ReportProgress,
         LateProgress, RunawayEnds, Stumble, WorkerDies
<1>15. ASSUME NEW j \in Job, JobStep(j) PROVE SourcesStep
  BY <1>15, <1>u
     DEF JobStep, OperatorRetry, RequestCancellation, ClaimExpires, ClaimSlips, Expire, BackoffEnds
<1>16. CASE UNCHANGED vars
  BY <1>16, <1>u DEF vars
<1>17. QED
  BY <1>1, <1>2, <1>3, <1>4, <1>5, <1>6, <1>7, <1>8, <1>9, <1>10, <1>11, <1>12, <1>13, <1>14, <1>15, <1>16
     DEF Next, Ask, Handle, Process

-----------------------------------------------------------------------------
(* ... to the jobs ... *)

\* Whether a step enqueues a job: the first of an upload, or the one a retry asked for.
Enqueued(j) ==
    \E r \in Request :
        \/ EnqueueUpload(r) /\ j = <<request[r].source, 0>>
        \/ Resubmit(r) /\ j = <<request[r].source, request[r].number>>

JobsStep ==
    /\ jobs' \in [Job -> Document \cup {Unborn}]
    /\ \A j \in Job : Live(j) => jobs'[j] # Unborn
    /\ \A j \in Job : jobs'[j] # Unborn => 
          Live(j) \/ (Enqueued(j) /\ source[SourceOf(j)] # Absent)
    /\ \A j \in Job : jobs'[j] # Unborn /\ jobs'[j].cancelRequested =>
          (Live(j) /\ jobs[j].cancelRequested) \/ RequestCancellation(j)

LEMMA JobsSame == ASSUME TInv, jobs' = jobs PROVE JobsStep
  BY DEF JobsStep, TInv, TypeInv, Live

LEMMA JobWritten ==
    ASSUME TInv, NEW j \in Job, NEW d \in Document, WriteJob(j, d), Live(j),
           d.cancelRequested => jobs[j].cancelRequested \/ RequestCancellation(j)
    PROVE  JobsStep
  <1>1. jobs' = [jobs EXCEPT ![j] = d] /\ d # Unborn
    BY SentinelAssumption DEF WriteJob
  <1>2. QED  BY <1>1 DEF JobsStep, TInv, TypeInv, Live

LEMMA JobEnqueued ==
    ASSUME TInv, NEW j \in Job, source[SourceOf(j)] # Absent, EnqueueExtraction(j), Enqueued(j)
    PROVE  JobsStep
  <1>0. NewDocument \in Document
    BY DEF NewDocument, Document, JobState
  <1>1. NewDocument # Unborn /\ ~NewDocument.cancelRequested
    BY <1>0, SentinelAssumption DEF NewDocument
  <1>2. QED  BY <1>0, <1>1 DEF EnqueueExtraction, JobsStep, TInv, TypeInv, Live

LEMMA JobsNext == ASSUME TInv, [Next]_vars PROVE JobsStep
<1>u. ASSUME jobs' = jobs PROVE JobsStep
  BY <1>u, JobsSame
<1>d. ASSUME NEW j \in Job, Live(j) PROVE jobs[j] \in Document
  BY <1>d, JobExists DEF TInv
<1>1. ASSUME NEW r \in Request, EnqueueUpload(r) \/ Resubmit(r) PROVE JobsStep
  <2>1. PICK k \in 0 .. MaxAttempts : /\ EnqueueExtraction(<<request[r].source, k>>)
                                     /\ Enqueued(<<request[r].source, k>>)
    BY <1>1, RequestFacts, Bounds DEF EnqueueUpload, Resubmit, At, RetrySteps, Enqueued
  <2>2. request[r].source \in FileSource /\ source[request[r].source] # Absent
    BY <1>1, RequestFacts DEF EnqueueUpload, Resubmit, At, FileSteps
  <2>3. QED  BY <2>1, <2>2, Bounds, JobEnqueued
<1>2. ASSUME NEW w \in Worker, NEW j \in Job, ClaimNext(w, j) PROVE JobsStep
  BY <1>2, <1>d, DocumentFacts, JobWritten DEF ClaimNext, Rewrites
\* A worker only writes to its job.
<1>w. ASSUME NEW w \in Worker, worker[w] # NoRun, NEW d, Rewrites(d, jobs[worker[w].job]),
             WriteJob(worker[w].job, d)
      PROVE  JobsStep
  BY <1>w, RunFacts, JobWritten DEF TInv, RunsExist, Rewrites
<1>3. ASSUME NEW w \in Worker, CancelGone(w) \/ CancelRun(w) \/ Complete(w) \/ FailWrite(w) \/ ReportProgress(w)
      PROVE  JobsStep
  <2> DEFINE d == jobs[worker[w].job]
  <2>1. worker[w] # NoRun /\ d \in Document
    BY <1>3, RunFacts DEF CancelGone, CancelRun, Complete, FailWrite, ReportProgress, Doing
  <2>2. /\ Rewrites(Cancelled(d), d) /\ Rewrites(Completed(d), d) /\ Rewrites(Progressed(d), d)
        /\ \A n, a : Rewrites(Failed(d, Disposition(n, a)), d)
    BY <2>1, DocumentFacts DEF Cancelled, Completed, JobState
  <2>3. QED  BY <1>3, <1>w, <2>1, <2>2 DEF CancelGone, CancelRun, Complete, FailWrite, ReportProgress
<1>4. ASSUME NEW w \in Worker, NEW j \in Job, LateProgress(w, j) PROVE JobsStep
  BY <1>4, <1>d, DocumentFacts, JobWritten DEF LateProgress, TInv, RunsExist, Rewrites
<1>5. ASSUME NEW j \in Job, JobStep(j) PROVE JobsStep
  <2>1. Live(j)
    BY <1>5 DEF JobStep, OperatorRetry, RequestCancellation, ClaimExpires, ClaimSlips, Expire, BackoffEnds
  <2>2. CASE RequestCancellation(j)
    BY <1>d, <2>1, <2>2, DocumentFacts, JobWritten DEF RequestCancellation
  <2>3. CASE ~RequestCancellation(j)
    <3>1. PICK d \in {Retried(jobs[j]), [jobs[j] EXCEPT !.stale = TRUE], [jobs[j] EXCEPT !.due = TRUE]} :
             WriteJob(j, d)
      BY <1>5, <2>3 DEF JobStep, OperatorRetry, ClaimExpires, ClaimSlips, Expire, BackoffEnds
    <3>2. Rewrites(d, jobs[j])
      BY <1>d, <2>1, <3>1, DocumentFacts
    <3>3. QED  BY <2>1, <3>1, <3>2, JobWritten DEF Rewrites
  <2>4. QED  BY <2>2, <2>3
<1>6. ASSUME NEW r \in Request,
             \/ CreateFileSource(r) \/ EnqueueUploadFails(r) \/ MarkUnqueued(r)
             \/ FindRevision(r) \/ PointAtRevision(r) \/ VersionConflict(r) \/ AppendRevision(r)
             \/ CountText(r) \/ WriteReviewed(r) \/ EraseBytes(r)
             \/ IncrementRetry(r) \/ Requeue(r) \/ Abort(r)
             \/ Ask(r)
      PROVE  JobsStep
  BY <1>6, <1>u
     DEF CreateFileSource, EnqueueUploadFails, MarkUnqueued, FindRevision, PointAtRevision,
         VersionConflict, AppendRevision, CountText, WriteReviewed, EraseBytes, IncrementRetry, Requeue,
         Abort, Ask, AddTextSource, UploadFile, UpdateTextSource, CorrectContent, RestoreOriginal,
         MarkReviewed, Retry, DeleteSource
<1>7. ASSUME NEW w \in Worker,
             \/ LookUp(w) \/ BeginExtracting(w) \/ FetchBytes(w) \/ Convert(w)
             \/ BeginOcr(w) \/ Extract(w) \/ CheckCancelled(w) \/ MarkCancelled(w)
             \/ DropRevisions(w) \/ StoreRevision(w) \/ Publish(w)
             \/ FailRead(w) \/ MarkQueued(w) \/ MarkFailed(w)
             \/ Stumble(w) \/ WorkerDies(w)
             \/ \E j \in Job : RunawayEnds(w, j)
      PROVE  JobsStep
  BY <1>7, <1>u
     DEF LookUp, BeginExtracting, FetchBytes, Convert, BeginOcr, Move, Extract, CheckCancelled,
         MarkCancelled, DropRevisions, StoreRevision, Publish, FailRead, MarkQueued, MarkFailed, Stumble,
         WorkerDies, RunawayEnds
<1>8. CASE UNCHANGED vars
  BY <1>8, <1>u DEF vars
<1>9. QED
  BY <1>1, <1>2, <1>3, <1>4, <1>5, <1>6, <1>7, <1>8 DEF Next, Handle, Process, Claim, Extraction

-----------------------------------------------------------------------------
(* ... to the workers ... *)

RunAfter(w) == worker'[w] # NoRun => worker'[w].job \in Job /\ jobs'[worker'[w].job] # Unborn

WorkersStep ==
    /\ worker' \in [Worker -> Run \cup {NoRun}]
    /\ runaway' \in [Worker -> SUBSET Job]
    /\ \A w \in Worker : RunAfter(w) /\ \A j \in runaway'[w] : jobs'[j] # Unborn

LEMMA ThenFacts ==
    ASSUME TInv, NEW w \in Worker, worker[w] # NoRun, NEW step \in WorkerStep, Then(w, step)
    PROVE  /\ worker' \in [Worker -> Run \cup {NoRun}]
           /\ \A v \in Worker : v # w => worker'[v] = worker[v]
           /\ worker'[w] # NoRun /\ worker'[w].step = step /\ worker'[w].job = worker[w].job
           /\ worker'[w].claim = worker[w].claim /\ worker'[w].read = worker[w].read
           /\ worker'[w].failure = worker[w].failure
  <1> DEFINE run == [worker[w] EXCEPT !.step = step]
  <1>1. worker[w] \in Run /\ worker \in [Worker -> Run \cup {NoRun}]
    BY RunFacts DEF TInv, TypeInv
  <1>2. /\ run \in Run /\ run.step = step /\ run.job = worker[w].job /\ run.claim = worker[w].claim
        /\ run.read = worker[w].read /\ run.failure = worker[w].failure
    BY <1>1 DEF Run
  <1>3. worker' = [worker EXCEPT ![w] = run]
    BY DEF Then
  <1> HIDE DEF run
  <1>4. QED  BY <1>1, <1>2, <1>3, SentinelAssumption

LEMMA FailsFacts ==
    ASSUME TInv, NEW w \in Worker, worker[w] # NoRun, NEW failure \in Failure, Fails(w, failure)
    PROVE  /\ worker' \in [Worker -> Run \cup {NoRun}]
           /\ \A v \in Worker : v # w => worker'[v] = worker[v]
           /\ worker'[w] # NoRun /\ worker'[w].step = "failRead" /\ worker'[w].job = worker[w].job
           /\ worker'[w].claim = worker[w].claim /\ worker'[w].read = worker[w].read
  <1> DEFINE run == [worker[w] EXCEPT !.step = "failRead", !.failure = failure]
  <1>1. worker[w] \in Run /\ worker \in [Worker -> Run \cup {NoRun}]
    BY RunFacts DEF TInv, TypeInv
  <1>2. /\ run \in Run /\ run.step = "failRead" /\ run.job = worker[w].job /\ run.claim = worker[w].claim
        /\ run.read = worker[w].read
    BY <1>1 DEF Run, WorkerStep
  <1>3. worker' = [worker EXCEPT ![w] = run]
    BY <1>1 DEF Fails
  <1> HIDE DEF run
  <1>4. QED  BY <1>1, <1>2, <1>3, SentinelAssumption

LEMMA FinishFacts ==
    ASSUME TInv, NEW w \in Worker, Finish(w)
    PROVE  /\ worker' \in [Worker -> Run \cup {NoRun}]
           /\ \A v \in Worker : v # w => worker'[v] = worker[v]
           /\ worker'[w] = NoRun
  BY DEF Finish, TInv, TypeInv

LEMMA FailureFacts ==
    /\ Unrecognised \in Failure /\ TimedOut \in Failure
    /\ \A f \in Failure : f.code \in FailureCode /\ f.retryable \in BOOLEAN
  BY DEF Unrecognised, TimedOut, Failure, FailureCode

LEMMA WorkersSame == ASSUME TInv, JobsStep, UNCHANGED <<worker, runaway>> PROVE WorkersStep
  BY RunFacts DEF WorkersStep, RunAfter, JobsStep, TInv, TypeInv, RunsExist

\* A worker that goes on with its job, or leaves it.
LEMMA WorkerMoved ==
    ASSUME TInv, JobsStep, NEW w \in Worker, worker' \in [Worker -> Run \cup {NoRun}],
           \A v \in Worker : v # w => worker'[v] = worker[v],
           worker'[w] # NoRun => worker[w] # NoRun /\ worker'[w].job = worker[w].job,
           runaway' \in [Worker -> SUBSET Job],
           \A v \in Worker : \A j \in runaway'[v] : Live(j)
    PROVE  WorkersStep
  <1>1. ASSUME NEW v \in Worker PROVE RunAfter(v)
    <2>1. CASE worker'[v] # NoRun
      <3>1. worker[v] # NoRun /\ worker'[v].job = worker[v].job
        BY <2>1
      <3>2. worker[v].job \in Job /\ Live(worker[v].job)
        BY <3>1, RunFacts DEF TInv, RunsExist
      <3>3. QED  BY <3>1, <3>2 DEF RunAfter, JobsStep
    <2>2. QED  BY <2>1 DEF RunAfter
  <1>2. \A v \in Worker : \A j \in runaway'[v] : jobs'[j] # Unborn
    BY DEF JobsStep
  <1>3. QED  BY <1>1, <1>2 DEF WorkersStep

LEMMA WorkersNext == ASSUME TInv, [Next]_vars PROVE WorkersStep
<1>j. JobsStep
  BY JobsNext
<1>u. ASSUME UNCHANGED <<worker, runaway>> PROVE WorkersStep
  BY <1>u, <1>j, WorkersSame
<1>r. runaway \in [Worker -> SUBSET Job] /\ \A v \in Worker : \A j \in runaway[v] : Live(j)
  BY DEF TInv, TypeInv, RunsExist
<1>m. ASSUME NEW w \in Worker, worker' \in [Worker -> Run \cup {NoRun}],
             \A v \in Worker : v # w => worker'[v] = worker[v],
             worker'[w] # NoRun => worker[w] # NoRun /\ worker'[w].job = worker[w].job,
             runaway' = runaway
      PROVE  WorkersStep
  BY <1>j, <1>r, <1>m, WorkerMoved
<1>t. ASSUME NEW w \in Worker, worker[w] # NoRun, NEW step \in WorkerStep, Then(w, step), runaway' = runaway
      PROVE  WorkersStep
  BY <1>t, <1>m, ThenFacts
<1>x. ASSUME NEW w \in Worker, worker[w] # NoRun, NEW failure \in Failure, Fails(w, failure), runaway' = runaway
      PROVE  WorkersStep
  BY <1>x, <1>m, FailsFacts
<1>f. ASSUME NEW w \in Worker, Finish(w), runaway' = runaway PROVE WorkersStep
  BY <1>f, <1>m, FinishFacts
<1>1. ASSUME NEW w \in Worker, NEW j \in Job, ClaimNext(w, j) PROVE WorkersStep
  <2> DEFINE run == [step |-> "lookup", job |-> j, claim |-> jobs[j].attempts + 1,
                     failure |-> Unrecognised, read |-> 0]
  <2>1. jobs[j].attempts + 1 \in Nat /\ Live(j)
    BY <1>1, JobExists DEF ClaimNext, TInv, Document
  <2>2. run \in Run /\ run.job = j /\ worker' = [worker EXCEPT ![w] = run] /\ runaway' = runaway
    BY <1>1, <2>1, FailureFacts DEF ClaimNext, Run, WorkerStep
  <2> HIDE DEF run
  <2>3. ASSUME NEW v \in Worker, v # w PROVE RunAfter(v)
    BY <1>j, <2>2, <2>3, RunFacts DEF RunAfter, JobsStep, TInv, TypeInv, RunsExist
  <2>4. RunAfter(w)
    BY <1>j, <2>1, <2>2 DEF RunAfter, JobsStep, TInv, TypeInv
  <2>5. QED  BY <1>j, <1>r, <2>2, <2>3, <2>4 DEF WorkersStep, JobsStep, TInv, TypeInv
<1>2. ASSUME NEW w \in Worker,
             \/ LookUp(w) \/ BeginExtracting(w) \/ BeginOcr(w) \/ CheckCancelled(w) \/ CancelRun(w)
             \/ DropRevisions(w) \/ Publish(w) \/ FailWrite(w)
      PROVE  WorkersStep
  BY <1>2, <1>t
     DEF LookUp, BeginExtracting, BeginOcr, Move, CheckCancelled, CancelRun, DropRevisions, Publish,
         FailWrite, Doing, WorkerStep
<1>3. ASSUME NEW w \in Worker, FetchBytes(w) \/ Convert(w) \/ Extract(w) \/ StoreRevision(w)
      PROVE  WorkersStep
  BY <1>3, <1>t, <1>x, FailureFacts
     DEF FetchBytes, Convert, ReadAs, Extract, StoreRevision, Move, Doing, WorkerStep
<1>4. ASSUME NEW w \in Worker, Stumble(w) PROVE WorkersStep
  BY <1>4, <1>x, FailureFacts DEF Stumble
<1>5. ASSUME NEW w \in Worker, CancelGone(w) \/ MarkCancelled(w) \/ Complete(w) \/ MarkQueued(w) \/ MarkFailed(w)
      PROVE  WorkersStep
  BY <1>5, <1>f DEF CancelGone, MarkCancelled, Complete, MarkQueued, MarkFailed
<1>6. ASSUME NEW w \in Worker, FailRead(w) PROVE WorkersStep
  <2> DEFINE run == [worker[w] EXCEPT !.step = "failWrite", !.read = jobs[worker[w].job].attempts]
  <2>1. worker[w] # NoRun /\ worker[w] \in Run /\ worker[w].job \in Job /\ Live(worker[w].job)
        /\ jobs[worker[w].job].attempts \in Nat
    BY <1>6, RunFacts DEF FailRead, Doing, TInv, RunsExist, Document
  <2>2. run \in Run /\ run.job = worker[w].job /\ worker' = [worker EXCEPT ![w] = run]
    BY <1>6, <2>1 DEF FailRead, Run, WorkerStep
  <2> HIDE DEF run
  <2>3. runaway' \in [Worker -> SUBSET Job] /\ \A v \in Worker : \A j \in runaway'[v] : Live(j)
    BY <1>6, <1>r, <2>1 DEF FailRead
  <2>4. QED  BY <1>j, <2>1, <2>2, <2>3, WorkerMoved, SentinelAssumption DEF TInv, TypeInv
<1>7. ASSUME NEW w \in Worker, WorkerDies(w) PROVE WorkersStep
  <2>1. runaway' \in [Worker -> SUBSET Job] /\ \A v \in Worker : \A j \in runaway'[v] : Live(j)
    BY <1>7, <1>r DEF WorkerDies
  <2>2. QED  BY <1>j, <1>7, <2>1, FinishFacts, WorkerMoved DEF WorkerDies
<1>8. ASSUME NEW w \in Worker, NEW j \in Job, RunawayEnds(w, j) PROVE WorkersStep
  <2>1. runaway' \in [Worker -> SUBSET Job] /\ \A v \in Worker : \A i \in runaway'[v] : Live(i)
    BY <1>8, <1>r DEF RunawayEnds
  <2>2. worker' = worker
    BY <1>8 DEF RunawayEnds
  <2>3. QED  BY <1>j, <2>1, <2>2, WorkerMoved DEF TInv, TypeInv
<1>9. ASSUME NEW w \in Worker, ReportProgress(w) \/ \E j \in Job : LateProgress(w, j) PROVE WorkersStep
  BY <1>9, <1>u DEF ReportProgress, LateProgress
<1>10. ASSUME NEW r \in Request, Ask(r) PROVE WorkersStep
  BY <1>10, <1>u
     DEF Ask, AddTextSource, UploadFile, UpdateTextSource, CorrectContent, RestoreOriginal,
         MarkReviewed, Retry, DeleteSource
<1>11. ASSUME NEW r \in Request, Handle(r) \/ Abort(r) PROVE WorkersStep
  BY <1>11, <1>u
     DEF Handle, Abort, CreateFileSource, EnqueueUpload, EnqueueUploadFails, MarkUnqueued, FindRevision,
         PointAtRevision, VersionConflict, AppendRevision, CountText, WriteReviewed, EraseBytes,
         IncrementRetry, Requeue, Resubmit
<1>12. ASSUME NEW j \in Job, JobStep(j) PROVE WorkersStep
  BY <1>12, <1>u
     DEF JobStep, OperatorRetry, RequestCancellation, ClaimExpires, ClaimSlips, Expire, BackoffEnds
<1>13. CASE UNCHANGED vars
  BY <1>13, <1>u DEF vars
<1>14. QED
  BY <1>1, <1>2, <1>3, <1>4, <1>5, <1>6, <1>7, <1>8, <1>9, <1>10, <1>11, <1>12, <1>13
     DEF Next, Process, Claim, Extraction

-----------------------------------------------------------------------------
(* ... to the handlers ... *)

\* What HandlersExist says of one handler, with the sources and the bytes as a step leaves them.
Provided(h) ==
    /\ IF h.step = "create" THEN source'[h.source] = Absent /\ h.source \in stored'
       ELSE source'[h.source] # Absent
    /\ h.step \in FileSteps => h.source \in FileSource
    /\ h.step \in RetrySteps => h.number \in 1 .. MaxAttempts

CreatesAlone ==
    \A r, q \in Request :
        /\ request'[r] # NoRequest /\ request'[r].step = "create"
        /\ request'[q] # NoRequest /\ request'[q].step = "create"
        /\ request'[r].source = request'[q].source
        => r = q

RequestsStep ==
    /\ request' \in [Request -> Handling \cup {NoRequest}]
    /\ \A r \in Request : request'[r] # NoRequest => Provided(request'[r])
    /\ CreatesAlone

LEMMA GotoFacts ==
    ASSUME TInv, NEW r \in Request, request[r] # NoRequest, NEW step \in RequestStep, Goto(r, step)
    PROVE  /\ request' \in [Request -> Handling \cup {NoRequest}]
           /\ \A q \in Request : q # r => request'[q] = request[q]
           /\ request'[r] # NoRequest /\ request'[r].step = step
           /\ request'[r].source = request[r].source /\ request'[r].number = request[r].number
           /\ request'[r].origin = request[r].origin /\ request'[r].version = request[r].version
           /\ request'[r].basis = request[r].basis
  <1> DEFINE h == [request[r] EXCEPT !.step = step]
  <1>1. request[r] \in Handling /\ request \in [Request -> Handling \cup {NoRequest}]
    BY RequestFacts DEF TInv, TypeInv
  <1>2. /\ h \in Handling /\ h.step = step /\ h.source = request[r].source
        /\ h.number = request[r].number /\ h.origin = request[r].origin /\ h.version = request[r].version
        /\ h.basis = request[r].basis
    BY <1>1 DEF Handling
  <1>3. request' = [request EXCEPT ![r] = h]
    BY DEF Goto
  <1> HIDE DEF h
  <1>4. QED  BY <1>1, <1>2, <1>3, SentinelAssumption

LEMMA DoneFacts ==
    ASSUME TInv, NEW r \in Request, Done(r)
    PROVE  /\ request' \in [Request -> Handling \cup {NoRequest}]
           /\ \A q \in Request : q # r => request'[q] = request[q]
           /\ request'[r] = NoRequest
  BY DEF Done, TInv, TypeInv

LEMMA BeginFacts ==
    ASSUME TInv, NEW r \in Request, NEW h \in Handling, Begin(r, h)
    PROVE  /\ request' \in [Request -> Handling \cup {NoRequest}]
           /\ \A q \in Request : q # r => request'[q] = request[q]
           /\ request[r] = NoRequest /\ request'[r] = h /\ h # NoRequest
  BY SentinelAssumption DEF Begin, TInv, TypeInv

LEMMA CreatingFacts ==
    ASSUME NEW s \in Source, NEW step \in RequestStep
    PROVE  LET h == Creating(s, step)
           IN  /\ h \in Handling /\ h.step = step /\ h.source = s /\ h.number = 0
               /\ h.origin = "EXTRACTION"
               /\ \A n \in Nat : LET k == [h EXCEPT !.number = n]
                                 IN  /\ k \in Handling /\ k.step = step /\ k.source = s
                                     /\ k.number = n /\ k.origin = "EXTRACTION"
  BY DEF Creating, Handling, Origin

LEMMA EditingFacts ==
    ASSUME TInv, NEW s \in Source, source[s] # Absent, NEW step \in RequestStep, NEW basis \in Nat,
           NEW origin \in Origin
    PROVE  LET h == Editing(s, step, basis, origin)
           IN  /\ h \in Handling /\ h.step = step /\ h.source = s /\ h.origin = origin
               /\ h.basis = basis
               /\ h.number = source[s].revisionCount /\ h.version = source[s].version
  BY SourceExists DEF TInv, Editing, Handling, SourceDocument

\* A handler that has not moved keeps what it relies on: nobody else creates its source.
LEMMA StillProvided ==
    ASSUME TInv, SourcesStep, stored \subseteq stored' \/ \E q \in Request : At(q, "erase") /\ stored' = stored \ {request[q].source},
           NEW r \in Request, request[r] # NoRequest,
           request[r].step = "create" => source'[request[r].source] = source[request[r].source]
    PROVE  Provided(request[r])
  <1>1. request[r].source \in Source
    BY RequestFacts
  <1>2. CASE request[r].step = "create"
    <2>1. source[request[r].source] = Absent /\ request[r].source \in stored
      BY <1>2 DEF TInv, HandlersExist
    <2>2. request[r].source \in stored'
      BY <2>1, RequestFacts DEF At
    <2>3. QED  BY <1>2, <2>1, <2>2 DEF Provided, TInv, HandlersExist
  <1>3. CASE request[r].step # "create"
    BY <1>1, <1>3 DEF SourcesStep, Provided, TInv, HandlersExist
  <1>4. QED  BY <1>2, <1>3

\* One handler moves, the others stay where they are.
LEMMA RequestMoved ==
    ASSUME TInv, SourcesStep, stored \subseteq stored' \/ \E q \in Request : At(q, "erase") /\ stored' = stored \ {request[q].source},
           NEW r \in Request, request' \in [Request -> Handling \cup {NoRequest}],
           \A q \in Request : q # r => request'[q] = request[q],
           request'[r] # NoRequest => Provided(request'[r]) /\ request'[r].step # "create",
           \A q \in Request : q # r /\ At(q, "create") => source'[request[q].source] = source[request[q].source]
    PROVE  RequestsStep
  <1>1. ASSUME NEW q \in Request, request'[q] # NoRequest PROVE Provided(request'[q])
    <2>1. CASE q = r
      BY <1>1, <2>1
    <2>2. CASE q # r
      BY <1>1, <2>2, StillProvided DEF At
    <2>3. QED  BY <2>1, <2>2
  <1>2. CreatesAlone
    BY DEF CreatesAlone, TInv, HandlersExist, At
  <1>3. QED  BY <1>1, <1>2 DEF RequestsStep

LEMMA RequestsSame ==
    ASSUME TInv, SourcesStep, stored' = stored, request' = request,
           \A q \in Request : At(q, "create") => source'[request[q].source] = source[request[q].source]
    PROVE  RequestsStep
  <1>1. ASSUME NEW q \in Request, request'[q] # NoRequest PROVE Provided(request'[q])
    BY <1>1, StillProvided DEF At
  <1>2. CreatesAlone
    BY DEF CreatesAlone, TInv, HandlersExist, At
  <1>3. QED  BY <1>1, <1>2 DEF RequestsStep, TInv, TypeInv

\* Only an upload and an erasure touch the bytes.
LEMMA StoredChange ==
    ASSUME [Next]_vars, stored' # stored
    PROVE  \E r \in Request : EraseBytes(r) \/ \E s \in Source : UploadFile(r, s)
<1>1. ASSUME NEW r \in Request, Ask(r) PROVE \E s \in Source : UploadFile(r, s)
  BY <1>1 DEF Ask, AddTextSource, UpdateTextSource, CorrectContent, RestoreOriginal, MarkReviewed,
              Retry, DeleteSource
<1>2. ASSUME NEW r \in Request, Handle(r) PROVE EraseBytes(r)
  BY <1>2 DEF Handle, CreateFileSource, EnqueueUpload, EnqueueUploadFails, MarkUnqueued,
              FindRevision, PointAtRevision, VersionConflict, AppendRevision, CountText,
              WriteReviewed, IncrementRetry, Requeue, Resubmit
<1>3. ASSUME NEW w \in Worker, Process(w) PROVE FALSE
  BY <1>3 DEF Process, LookUp, CancelGone, BeginExtracting, FetchBytes, Convert, BeginOcr, Move,
              Extract, CheckCancelled, CancelRun, MarkCancelled, DropRevisions, StoreRevision,
              Publish, Complete, FailRead, FailWrite, MarkQueued, MarkFailed
<1>4. ASSUME NEW w \in Worker, Claim(w) \/ Extraction(w) \/ Stumble(w) \/ WorkerDies(w)
      PROVE  FALSE
  BY <1>4 DEF Claim, ClaimNext, Extraction, ReportProgress, LateProgress, RunawayEnds, Stumble,
              WorkerDies
<1>5. ASSUME NEW j \in Job, JobStep(j) PROVE FALSE
  BY <1>5 DEF JobStep, OperatorRetry, RequestCancellation, ClaimExpires, ClaimSlips, Expire,
              BackoffEnds
<1>6. ASSUME NEW r \in Request, Abort(r) PROVE FALSE
  BY <1>6 DEF Abort
<1>7. ~UNCHANGED vars
  BY DEF vars
<1>8. QED  BY <1>1, <1>2, <1>3, <1>4, <1>5, <1>6, <1>7 DEF Next

LEMMA RequestsNext == ASSUME TInv, [Next]_vars PROVE RequestsStep
<1>s. SourcesStep
  BY SourcesNext
<1>n. \A s \in Source : source[s] # Absent => source'[s] # Absent
  BY <1>s DEF SourcesStep
<1>c. ASSUME ~ \E r \in Request : CreateFileSource(r)
      PROVE  \A q \in Request : At(q, "create") => source'[request[q].source] = source[request[q].source]
  <2> SUFFICES ASSUME NEW q \in Request, At(q, "create")
               PROVE  source'[request[q].source] = source[request[q].source]
    OBVIOUS
  <2>1. /\ request[q].source \in FileSource /\ request[q].source \in Source
        /\ source[request[q].source] = Absent
    BY RequestFacts DEF At, FileSteps
  <2>2. ~ \E r \in Request : AddTextSource(r, request[q].source)
    BY <2>1, Bounds DEF AddTextSource
  <2>3. QED  BY <1>s, <1>c, <2>1, <2>2 DEF SourcesStep, Born, Created
\* Only an erasure takes bytes away.
<1>b. stored \subseteq stored' \/ \E q \in Request : At(q, "erase") /\ stored' = stored \ {request[q].source}
  BY StoredChange DEF EraseBytes, UploadFile
\* A handler that goes on, ends, or begins, beside the creation of no source.
<1>g. ASSUME ~ \E q \in Request : CreateFileSource(q), NEW r \in Request, request[r] # NoRequest,
             NEW step \in RequestStep, step # "create", Goto(r, step),
             request[r].step # "create", step \in FileSteps => request[r].step \in FileSteps,
             step \in RetrySteps => request[r].step \in RetrySteps
      PROVE  RequestsStep
  <2>1. source'[request[r].source] # Absent
    BY <1>g, <1>n, RequestFacts
  <2>2. QED  BY <1>s, <1>b, <1>c, <1>g, <2>1, GotoFacts, RequestFacts, RequestMoved DEF Provided
<1>d. ASSUME ~ \E q \in Request : CreateFileSource(q), NEW r \in Request, Done(r)
      PROVE  RequestsStep
  BY <1>s, <1>b, <1>c, <1>d, DoneFacts, RequestMoved
<1>e. ASSUME ~ \E q \in Request : CreateFileSource(q), NEW r \in Request, NEW h \in Handling, Begin(r, h),
             h.step # "create", source'[h.source] # Absent,
             h.step \in FileSteps => h.source \in FileSource,
             h.step \in RetrySteps => h.number \in 1 .. MaxAttempts
      PROVE  RequestsStep
  BY <1>s, <1>b, <1>c, <1>e, BeginFacts, RequestMoved DEF Provided
<1>k. ASSUME request' = request, stored' = stored, ~ \E q \in Request : CreateFileSource(q)
      PROVE  RequestsStep
  BY <1>s, <1>c, <1>k, RequestsSame
<1>1. ASSUME NEW r \in Request, CreateFileSource(r) PROVE RequestsStep
  <2>1. request[r] # NoRequest /\ request[r].step = "create" /\ Goto(r, "enqueue")
        /\ request[r].source \in FileSource
    BY <1>1, RequestFacts DEF CreateFileSource, At, FileSteps
  <2>2. source'[request[r].source] # Absent
    BY <1>1, <2>1, NewSourceFacts, SourceAssumption, Bounds DEF CreateFileSource, WriteSource, SourceStatus, TInv, TypeInv
  <2>3. ASSUME NEW q \in Request, q # r, At(q, "create")
        PROVE  source'[request[q].source] = source[request[q].source]
    <3>1. request[q].source # request[r].source /\ request[q].source \in Source
      BY <2>1, <2>3, RequestFacts DEF At, TInv, HandlersExist
    <3>2. QED  BY <1>1, <3>1 DEF CreateFileSource, WriteSource, TInv, TypeInv
  <2>4. "enqueue" \in RequestStep
    BY DEF RequestStep
  <2>5. QED
    BY <1>s, <1>b, <2>1, <2>2, <2>3, <2>4, GotoFacts, RequestMoved DEF Provided, FileSteps, RetrySteps

<1>2. CASE ~ \E q \in Request : CreateFileSource(q)
  <2>s. /\ {"append", "revise", "rewrite", "review", "find", "counters"} \cap (FileSteps \cup RetrySteps) = {}
        /\ {"enqueue", "markUnqueued", "erase"} \cap RetrySteps = {}
        /\ RetrySteps \subseteq FileSteps
    BY DEF FileSteps, RetrySteps
  <2>1. ASSUME NEW r \in Request, NEW s \in Source, AddTextSource(r, s) PROVE RequestsStep
    <3>1. source'[s] # Absent /\ Begin(r, Creating(s, "append"))
      BY <2>1, NewSourceFacts, SourceAssumption DEF AddTextSource, WriteSource, SourceStatus, TInv, TypeInv
    <3>2. /\ Creating(s, "append") \in Handling /\ Creating(s, "append").step = "append"
          /\ Creating(s, "append").source = s
      BY CreatingFacts DEF RequestStep
    <3>3. QED  BY <1>2, <1>e, <3>1, <3>2, <2>s
  <2>2. ASSUME NEW r \in Request, NEW s \in Source, UploadFile(r, s) PROVE RequestsStep
    <3> DEFINE h == Creating(s, "create")
    <3>1. /\ h \in Handling /\ h.step = "create" /\ h.source = s
      BY CreatingFacts DEF RequestStep
    <3> HIDE DEF h
    <3>2. /\ s \in FileSource /\ s \notin stored /\ source[s] = Absent /\ Begin(r, h)
          /\ stored' = stored \cup {s} /\ source' = source
      BY <2>2 DEF UploadFile, Addable, Known, h
    <3>3. Provided(h)
      BY <3>1, <3>2 DEF Provided, RetrySteps
    <3>4. ASSUME NEW q \in Request, q # r, request[q] # NoRequest, request[q].step = "create"
          PROVE  request[q].source # s
      BY <3>2, <3>4 DEF TInv, HandlersExist
    <3>5. ASSUME NEW q \in Request, request'[q] # NoRequest PROVE Provided(request'[q])
      BY <1>s, <3>1, <3>2, <3>3, <3>5, BeginFacts, StillProvided
    <3>6. CreatesAlone
      BY <3>1, <3>2, <3>4, BeginFacts DEF CreatesAlone, TInv, HandlersExist, At
    <3>7. QED  BY <3>1, <3>2, <3>5, <3>6, BeginFacts DEF RequestsStep
  <2>3. ASSUME NEW r \in Request, NEW s \in Source,
               \/ UpdateTextSource(r, s) \/ CorrectContent(r, s) \/ RestoreOriginal(r, s) \/ MarkReviewed(r, s)
        PROVE  RequestsStep
    <3>1. PICK step \in {"rewrite", "find", "review"}, origin \in {"CORRECTION", "RESTORE"},
               basis \in {0, source[s].currentRevision} : Begin(r, Editing(s, step, basis, origin))
      BY <2>3 DEF UpdateTextSource, CorrectContent, RestoreOriginal, MarkReviewed
    <3>2. source[s] # Absent /\ basis \in Nat
      BY <2>3, SourceExists DEF UpdateTextSource, CorrectContent, RestoreOriginal, MarkReviewed, Editable, Found, TInv, SourceDocument
    <3> DEFINE h == Editing(s, step, basis, origin)
    <3>3. h \in Handling /\ h.step = step /\ h.source = s
      BY <3>2, EditingFacts DEF RequestStep, Origin
    <3> HIDE DEF h
    <3>4. source'[s] # Absent /\ Begin(r, h)
      BY <1>n, <3>1, <3>2 DEF h
    <3>5. QED  BY <1>2, <1>e, <2>s, <3>3, <3>4
  <2>4. ASSUME NEW r \in Request, NEW s \in Source, Retry(r, s) PROVE RequestsStep
    <3>1. /\ s \in FileSource /\ source[s] # Absent /\ source[s].retryCount + 1 \in 1 .. MaxAttempts
      <4>1. /\ source[s] # Absent /\ source[s].status = "FAILED" /\ source[s].retryCount < MaxAttempts
        BY <2>4 DEF Retry, Found
      <4>2. s \in FileSource
        BY <4>1 DEF TInv, TextsNeverFail, Source
      <4>3. source[s].retryCount \in Nat
        BY <4>1, SourceExists DEF TInv, SourceDocument
      <4>4. QED  BY <4>1, <4>2, <4>3, Bounds
    <3> DEFINE h == [Creating(s, "incrementRetry") EXCEPT !.number = source[s].retryCount + 1]
    <3>2. h \in Handling /\ h.step = "incrementRetry" /\ h.source = s /\ h.number = source[s].retryCount + 1
      BY <3>1, CreatingFacts DEF RequestStep
    <3> HIDE DEF h
    <3>3. source'[s] # Absent /\ Begin(r, h)
      BY <2>4, <1>n, <3>1 DEF h, Retry
    <3>4. QED  BY <1>2, <1>e, <3>1, <3>2, <3>3
  <2>5. ASSUME NEW r \in Request, NEW s \in Source, DeleteSource(r, s) PROVE RequestsStep
    <3>1. CASE s \in FileSource
      <4> DEFINE h == Creating(s, "erase")
      <4>1. h \in Handling /\ h.step = "erase" /\ h.source = s
        BY CreatingFacts DEF RequestStep
      <4> HIDE DEF h
      <4>2. source'[s] # Absent /\ Begin(r, h)
        BY <2>5, <1>n, <3>1 DEF h, DeleteSource, Found
      <4>3. QED  BY <1>2, <1>e, <2>s, <3>1, <4>1, <4>2
    <3>2. CASE s \notin FileSource
      BY <1>2, <1>k, <2>5, <3>2 DEF DeleteSource
    <3>3. QED  BY <3>1, <3>2
  <2>6. ASSUME NEW r \in Request,
               \/ EnqueueUpload(r) \/ MarkUnqueued(r) \/ VersionConflict(r) \/ CountText(r)
               \/ WriteReviewed(r) \/ EraseBytes(r) \/ Resubmit(r) \/ Abort(r)
        PROVE  RequestsStep
    BY <1>2, <1>d, <2>6
       DEF EnqueueUpload, MarkUnqueued, VersionConflict, CountText, WriteReviewed, EraseBytes, Resubmit, Abort
  <2>7. ASSUME NEW r \in Request,
               \/ EnqueueUploadFails(r) \/ FindRevision(r) \/ PointAtRevision(r) \/ AppendRevision(r)
               \/ IncrementRetry(r) \/ Requeue(r)
        PROVE  RequestsStep
    <3>1. /\ request[r] # NoRequest /\ request[r].step # "create"
          /\ \/ Done(r)
             \/ request[r].step = "enqueue" /\ Goto(r, "markUnqueued")
             \/ request[r].step = "incrementRetry" /\ Goto(r, "requeue")
             \/ request[r].step = "requeue" /\ Goto(r, "resubmit")
             \/ \E step \in {"revise", "append", "counters"} : Goto(r, step)
      BY <2>7
         DEF EnqueueUploadFails, FindRevision, PointAtRevision, AppendRevision, IncrementRetry, Requeue, At
    <3>2. QED  BY <1>2, <1>d, <1>g, <3>1 DEF FileSteps, RetrySteps, RequestStep
  <2>8. ASSUME NEW w \in Worker, Claim(w) \/ Process(w) \/ Extraction(w) \/ Stumble(w) \/ WorkerDies(w)
        PROVE  RequestsStep
    BY <1>2, <1>k, <2>8
       DEF Claim, ClaimNext, Process, LookUp, CancelGone, BeginExtracting, FetchBytes, Convert, BeginOcr,
           Move, Extract, CheckCancelled, CancelRun, MarkCancelled, DropRevisions, StoreRevision, Publish,
           Complete, FailRead, FailWrite, MarkQueued, MarkFailed, Extraction, ReportProgress, LateProgress,
           RunawayEnds, Stumble, WorkerDies
  <2>9. ASSUME NEW j \in Job, JobStep(j) PROVE RequestsStep
    BY <1>2, <1>k, <2>9
       DEF JobStep, OperatorRetry, RequestCancellation, ClaimExpires, ClaimSlips, Expire, BackoffEnds
  <2>10. CASE UNCHANGED vars
    BY <1>2, <1>k, <2>10 DEF vars
  <2>11. QED
    BY <1>2, <2>1, <2>2, <2>3, <2>4, <2>5, <2>6, <2>7, <2>8, <2>9, <2>10 DEF Next, Ask, Handle
<1>3. QED  BY <1>1, <1>2

-----------------------------------------------------------------------------
(* ... and to the rest *)

\* An insert leaves everything else as it was, and finds no revision of its number.
LEMMA Appended ==
    ASSUME TInv, NEW s \in Source, NEW n \in Nat, NEW o \in Origin, AddRevision(s, n, o)
    PROVE  /\ content' \in [Source -> SUBSET Revision]
           /\ \A t \in Source : t # s => content'[t] = content[t]
           /\ content'[s] = content[s] \cup {[number |-> n, origin |-> o]}
           /\ ~HasRevision(content[s], n)
  <1> DEFINE revision == [number |-> n, origin |-> o]
  <1>1. revision \in Revision
    BY DEF Revision
  <1>2. content' = [content EXCEPT ![s] = @ \cup {revision}] /\ ~HasRevision(content[s], n)
    BY DEF AddRevision
  <1> HIDE DEF revision
  <1>3. content \in [Source -> SUBSET Revision]
    BY DEF TInv, TypeInv
  <1>4. /\ content' \in [Source -> SUBSET Revision]
        /\ \A t \in Source : t # s => content'[t] = content[t]
        /\ content'[s] = content[s] \cup {revision}
    BY <1>1, <1>2, <1>3
  <1>5. QED  BY <1>2, <1>4 DEF revision

LEMMA ContentChange ==
    ASSUME [Next]_vars, content' # content
    PROVE  \/ \E r \in Request : AppendRevision(r)
           \/ \E w \in Worker : StoreRevision(w) \/ DropRevisions(w)
<1>1. ASSUME NEW r \in Request, Ask(r) PROVE FALSE
  BY <1>1 DEF Ask, AddTextSource, UploadFile, UpdateTextSource, CorrectContent,
              RestoreOriginal, MarkReviewed, Retry, DeleteSource
<1>2. ASSUME NEW r \in Request, Handle(r) PROVE AppendRevision(r)
  BY <1>2 DEF Handle, CreateFileSource, EnqueueUpload, EnqueueUploadFails, MarkUnqueued,
              FindRevision, PointAtRevision, VersionConflict, CountText, WriteReviewed,
              EraseBytes, IncrementRetry, Requeue, Resubmit
<1>3. ASSUME NEW w \in Worker, Process(w) PROVE StoreRevision(w) \/ DropRevisions(w)
  BY <1>3 DEF Process, LookUp, CancelGone, BeginExtracting, FetchBytes, Convert, BeginOcr,
              Move, Extract, CheckCancelled, CancelRun, MarkCancelled, Publish, Complete,
              FailRead, FailWrite, MarkQueued, MarkFailed
<1>4. ASSUME NEW w \in Worker, Claim(w) \/ Extraction(w) \/ Stumble(w) \/ WorkerDies(w)
      PROVE  FALSE
  BY <1>4 DEF Claim, ClaimNext, Extraction, ReportProgress, LateProgress, RunawayEnds,
              Stumble, WorkerDies
<1>5. ASSUME NEW j \in Job, JobStep(j) PROVE FALSE
  BY <1>5 DEF JobStep, OperatorRetry, RequestCancellation, ClaimExpires, ClaimSlips,
              Expire, BackoffEnds
<1>6. ASSUME NEW r \in Request, Abort(r) PROVE FALSE
  BY <1>6 DEF Abort
<1>7. ~UNCHANGED vars
  BY DEF vars
<1>8. QED  BY <1>1, <1>2, <1>3, <1>4, <1>5, <1>6, <1>7 DEF Next

LEMMA ContentNext == ASSUME TInv, [Next]_vars PROVE content' \in [Source -> SUBSET Revision]
<1>u. content \in [Source -> SUBSET Revision]
  BY DEF TInv, TypeInv
<1>1. ASSUME NEW r \in Request, AppendRevision(r) PROVE content' \in [Source -> SUBSET Revision]
  BY <1>1, <1>u, RequestFacts, Appended DEF AppendRevision, At
<1>2. ASSUME NEW w \in Worker, StoreRevision(w) PROVE content' \in [Source -> SUBSET Revision]
  BY <1>2, <1>u, RunFacts, Appended DEF StoreRevision, Doing, Origin
<1>3. ASSUME NEW w \in Worker, DropRevisions(w) PROVE content' \in [Source -> SUBSET Revision]
  BY <1>3, <1>u DEF DropRevisions
<1>4. QED  BY <1>u, <1>1, <1>2, <1>3, ContentChange

LEMMA StoredNext == ASSUME TInv, [Next]_vars PROVE stored' \subseteq FileSource
  BY StoredChange DEF EraseBytes, UploadFile, TInv, TypeInv

\* What the environment has done is counted, never forgotten, and within its bounds.
Counted(n, m, bound) == m = n \/ (m = n + 1 /\ n < bound)
CountersStep ==
    /\ Counted(crashes, crashes', MaxCrashes) /\ Counted(slips, slips', MaxSlips)
    /\ Counted(operatorRetries, operatorRetries', MaxOperatorRetries)
    /\ Counted(faults, faults', MaxFaults) /\ Counted(aborts, aborts', MaxAborts)
    /\ Counted(overlaps, overlaps', MaxOverlaps)

LEMMA CountersNext == ASSUME [Next]_vars PROVE CountersStep
<1>1. ASSUME NEW r \in Request, Ask(r) PROVE CountersStep
  BY <1>1
     DEF Ask, AddTextSource, UploadFile, UpdateTextSource, CorrectContent, RestoreOriginal, MarkReviewed,
         Retry, DeleteSource, Begin, failures, CountersStep, Counted
<1>2. ASSUME NEW r \in Request, Handle(r) \/ Abort(r) PROVE CountersStep
  BY <1>2
     DEF Handle, Abort, CreateFileSource, EnqueueUpload, EnqueueUploadFails, MarkUnqueued, FindRevision,
         PointAtRevision, VersionConflict, AppendRevision, CountText, WriteReviewed, EraseBytes,
         IncrementRetry, Requeue, Resubmit, budgets, failures, CountersStep, Counted
<1>3. ASSUME NEW w \in Worker, Claim(w) \/ Process(w) \/ Extraction(w) \/ Stumble(w) \/ WorkerDies(w)
      PROVE  CountersStep
  BY <1>3
     DEF Claim, ClaimNext, Process, LookUp, CancelGone, BeginExtracting, FetchBytes, Convert, BeginOcr,
         Move, Extract, CheckCancelled, CancelRun, MarkCancelled, DropRevisions, StoreRevision, Publish,
         Complete, FailRead, FailWrite, MarkQueued, MarkFailed, Extraction, ReportProgress, LateProgress,
         RunawayEnds, Stumble, WorkerDies, budgets, failures, CountersStep, Counted
<1>4. ASSUME NEW j \in Job, JobStep(j) PROVE CountersStep
  BY <1>4
     DEF JobStep, OperatorRetry, RequestCancellation, ClaimExpires, ClaimSlips, Expire, BackoffEnds,
         budgets, failures, CountersStep, Counted
<1>5. CASE UNCHANGED vars
  BY <1>5 DEF vars, budgets, failures, CountersStep, Counted
<1>6. QED  BY <1>1, <1>2, <1>3, <1>4, <1>5 DEF Next

-----------------------------------------------------------------------------
(* Types *)

LEMMA TInvInit == Init => TInv
  BY BoundsAssumption DEF Init, TInv, TypeInv, RunsExist, HandlersExist, TextsNeverFail, Live, Source

LEMMA TInvNext == TInv /\ [Next]_vars => TInv'
<1> SUFFICES ASSUME TInv, [Next]_vars PROVE TInv'
  OBVIOUS
<1>1. SourcesStep /\ JobsStep /\ WorkersStep /\ RequestsStep /\ CountersStep
  BY SourcesNext, JobsNext, WorkersNext, RequestsNext, CountersNext
<1>2. TypeInv'
  <2>1. /\ content' \in [Source -> SUBSET Revision] /\ stored' \subseteq FileSource
    BY ContentNext, StoredNext
  <2>2. /\ crashes' \in 0 .. MaxCrashes /\ slips' \in 0 .. MaxSlips
        /\ operatorRetries' \in 0 .. MaxOperatorRetries /\ faults' \in 0 .. MaxFaults
        /\ aborts' \in 0 .. MaxAborts /\ overlaps' \in 0 .. MaxOverlaps
    BY <1>1, BoundsAssumption DEF CountersStep, Counted, TInv, TypeInv
  <2>3. QED
    BY <1>1, <2>1, <2>2 DEF TypeInv, SourcesStep, JobsStep, WorkersStep, RequestsStep
<1>3. RunsExist'
  <2>1. ASSUME NEW j \in Job, jobs'[j] # Unborn PROVE source'[SourceOf(j)] # Absent
    BY <1>1, <2>1, Bounds DEF JobsStep, SourcesStep, TInv, RunsExist
  <2>2. QED  BY <1>1, <2>1 DEF WorkersStep, RunAfter, RunsExist, Live
<1>4. HandlersExist'
  BY <1>1 DEF RequestsStep, Provided, CreatesAlone, HandlersExist, At
<1>5. TextsNeverFail'
  BY <1>1 DEF SourcesStep, TextsNeverFail, TextStatus
<1>6. QED  BY <1>2, <1>3, <1>4, <1>5 DEF TInv

\* Every source, job, run and handler stays what its schema says, whatever fails
\* and however the handlers interleave.
THEOREM TypeCorrect == Spec => []TypeInv
<1>1. TInv => TypeInv
  BY DEF TInv
<1>2. QED  BY <1>1, TInvInit, TInvNext, PTL DEF Spec

-----------------------------------------------------------------------------
(* How one handler goes on *)

LEMMA HandlerMoves ==
    ASSUME TInv, [Next]_vars, NEW r \in Request, request'[r] # request[r]
    PROVE  Ask(r) \/ Handle(r) \/ Abort(r)
<1>g. ASSUME NEW q \in Request, NEW step, Goto(q, step) PROVE q = r
  BY <1>g DEF Goto, TInv, TypeInv
<1>d. ASSUME NEW q \in Request, Done(q) PROVE q = r
  BY <1>d DEF Done, TInv, TypeInv
<1>b. ASSUME NEW q \in Request, NEW h, Begin(q, h) PROVE q = r
  BY <1>b DEF Begin, TInv, TypeInv
<1>1. ASSUME NEW q \in Request, Ask(q) \/ Handle(q) \/ Abort(q) PROVE q = r
  <2>1. \/ \E step : Goto(q, step)
        \/ Done(q)
        \/ \E h : Begin(q, h)
        \/ request' = request
    BY <1>1
       DEF Ask, AddTextSource, UploadFile, UpdateTextSource, CorrectContent, RestoreOriginal, MarkReviewed,
           Retry, DeleteSource, Handle, Abort, CreateFileSource, EnqueueUpload, EnqueueUploadFails,
           MarkUnqueued, FindRevision, PointAtRevision, VersionConflict, AppendRevision, CountText,
           WriteReviewed, EraseBytes, IncrementRetry, Requeue, Resubmit
  <2>2. QED  BY <1>g, <1>d, <1>b, <2>1
<1>2. ASSUME NEW w \in Worker, Claim(w) \/ Process(w) \/ Extraction(w) \/ Stumble(w) \/ WorkerDies(w)
      PROVE  request' = request
  BY <1>2
     DEF Claim, ClaimNext, Process, LookUp, CancelGone, BeginExtracting, FetchBytes, Convert, BeginOcr,
         Move, Extract, CheckCancelled, CancelRun, MarkCancelled, DropRevisions, StoreRevision, Publish,
         Complete, FailRead, FailWrite, MarkQueued, MarkFailed, Extraction, ReportProgress, LateProgress,
         RunawayEnds, Stumble, WorkerDies
<1>3. ASSUME NEW j \in Job, JobStep(j) PROVE request' = request
  BY <1>3
     DEF JobStep, OperatorRetry, RequestCancellation, ClaimExpires, ClaimSlips, Expire, BackoffEnds
<1>4. QED  BY <1>1, <1>2, <1>3 DEF Next, vars

\* A handler went on, with what it had in hand ...
Goes(r, from, to) ==
    /\ At(r, from) /\ request'[r] # NoRequest /\ request'[r].step = to
    /\ request'[r].source = request[r].source /\ request'[r].number = request[r].number
    /\ request'[r].origin = request[r].origin /\ request'[r].version = request[r].version
\* ... or is over ...
Ends(r) == request[r] # NoRequest /\ request'[r] = NoRequest
\* ... or has begun.
Begins(r, s, step) ==
    /\ request[r] = NoRequest /\ request'[r] # NoRequest
    /\ request'[r].source = s /\ request'[r].step = step

HandlerStep(r) ==
    \/ CreateFileSource(r) /\ Goes(r, "create", "enqueue")
    \/ EnqueueUpload(r) /\ Ends(r)
    \/ EnqueueUploadFails(r) /\ Goes(r, "enqueue", "markUnqueued")
    \/ MarkUnqueued(r) /\ Ends(r)
    \/ FindRevision(r) /\ (Goes(r, "find", "revise") \/ Ends(r))
    \/ PointAtRevision(r) /\ (Goes(r, "revise", "append") \/ Goes(r, "rewrite", "append"))
    \/ (VersionConflict(r) \/ CountText(r) \/ WriteReviewed(r) \/ EraseBytes(r)) /\ Ends(r)
    \/ AppendRevision(r) /\ (Goes(r, "append", "counters") \/ Ends(r))
    \/ IncrementRetry(r) /\ Goes(r, "incrementRetry", "requeue")
    \/ Requeue(r) /\ Goes(r, "requeue", "resubmit")
    \/ (Resubmit(r) \/ Abort(r)) /\ Ends(r)
    \/ \E s \in Source :
          \/ AddTextSource(r, s) /\ Begins(r, s, "append") /\ request'[r].number = 0
          \/ UploadFile(r, s) /\ Begins(r, s, "create")
          \/ UpdateTextSource(r, s) /\ Begins(r, s, "rewrite")
          \/ (CorrectContent(r, s) \/ RestoreOriginal(r, s)) /\ Begins(r, s, "find")
          \/ MarkReviewed(r, s) /\ Begins(r, s, "review")
          \/ Retry(r, s) /\ Begins(r, s, "incrementRetry")
                /\ request'[r].number = source[s].retryCount + 1
          \/ DeleteSource(r, s) /\ Begins(r, s, "erase") /\ s \in FileSource

LEMMA HandlerSteps ==
    ASSUME TInv, [Next]_vars, NEW r \in Request, request'[r] # request[r]
    PROVE  HandlerStep(r)
<1>a. Ask(r) \/ Handle(r) \/ Abort(r)
  BY HandlerMoves
<1>s. {"create", "enqueue", "markUnqueued", "append", "counters", "find", "revise",
       "rewrite", "review", "incrementRetry", "requeue", "resubmit", "erase"} = RequestStep
  BY DEF RequestStep
<1>g. ASSUME NEW from, At(r, from), NEW to \in RequestStep, Goto(r, to) PROVE Goes(r, from, to)
  BY <1>g, GotoFacts DEF Goes, At
<1>d. ASSUME request[r] # NoRequest, Done(r) PROVE Ends(r)
  BY <1>d, DoneFacts DEF Ends
<1>c. ASSUME NEW s \in Source, NEW step \in RequestStep, Begin(r, Creating(s, step))
      PROVE  Begins(r, s, step) /\ request'[r].number = 0
  <2> DEFINE h == Creating(s, step)
  <2>1. h \in Handling /\ h.step = step /\ h.source = s /\ h.number = 0
    BY CreatingFacts
  <2> HIDE DEF h
  <2>2. Begin(r, h)
    BY <1>c DEF h
  <2>3. QED  BY <2>1, <2>2, BeginFacts DEF Begins
<1>e. ASSUME NEW s \in Source, source[s] # Absent, NEW step \in RequestStep, NEW basis \in Nat,
             NEW origin \in Origin, Begin(r, Editing(s, step, basis, origin))
      PROVE  Begins(r, s, step)
  <2> DEFINE h == Editing(s, step, basis, origin)
  <2>1. h \in Handling /\ h.step = step /\ h.source = s
    BY <1>e, EditingFacts
  <2> HIDE DEF h
  <2>2. Begin(r, h)
    BY <1>e DEF h
  <2>3. QED  BY <2>1, <2>2, BeginFacts DEF Begins
<1>1. CASE Handle(r) \/ Abort(r)
  <2>1. \/ CreateFileSource(r) /\ At(r, "create") /\ Goto(r, "enqueue")
        \/ EnqueueUpload(r) /\ At(r, "enqueue") /\ Done(r)
        \/ EnqueueUploadFails(r) /\ At(r, "enqueue") /\ Goto(r, "markUnqueued")
        \/ MarkUnqueued(r) /\ At(r, "markUnqueued") /\ Done(r)
        \/ FindRevision(r) /\ At(r, "find") /\ (Goto(r, "revise") \/ Done(r))
        \/ PointAtRevision(r) /\ (At(r, "revise") \/ At(r, "rewrite")) /\ Goto(r, "append")
        \/ (VersionConflict(r) \/ CountText(r) \/ WriteReviewed(r) \/ EraseBytes(r)) /\ Done(r)
        \/ AppendRevision(r) /\ At(r, "append") /\ (Goto(r, "counters") \/ Done(r))
        \/ IncrementRetry(r) /\ At(r, "incrementRetry") /\ Goto(r, "requeue")
        \/ Requeue(r) /\ At(r, "requeue") /\ Goto(r, "resubmit")
        \/ (Resubmit(r) \/ Abort(r)) /\ Done(r)
    BY <1>1
       DEF Handle, Abort, CreateFileSource, EnqueueUpload, EnqueueUploadFails, MarkUnqueued, FindRevision,
           PointAtRevision, VersionConflict, AppendRevision, CountText, WriteReviewed, EraseBytes,
           IncrementRetry, Requeue, Resubmit
  <2>2. request[r] # NoRequest
    BY <1>1
       DEF Handle, Abort, CreateFileSource, EnqueueUpload, EnqueueUploadFails, MarkUnqueued, FindRevision,
           PointAtRevision, VersionConflict, AppendRevision, CountText, WriteReviewed, EraseBytes,
           IncrementRetry, Requeue, Resubmit, At
  <2>3. QED  BY <1>s, <1>g, <1>d, <2>1, <2>2 DEF HandlerStep
<1>2. ASSUME NEW s \in Source, AddTextSource(r, s) \/ UploadFile(r, s) PROVE HandlerStep(r)
  BY <1>2, <1>s, <1>c DEF AddTextSource, UploadFile, HandlerStep
<1>3. ASSUME NEW s \in Source,
             UpdateTextSource(r, s) \/ CorrectContent(r, s) \/ RestoreOriginal(r, s) \/ MarkReviewed(r, s)
      PROVE  HandlerStep(r)
  <2>1. source[s] # Absent /\ source[s].currentRevision \in Nat /\ 0 \in Nat
    BY <1>3, SourceExists
       DEF UpdateTextSource, CorrectContent, RestoreOriginal, MarkReviewed, Editable, Found, TInv, SourceDocument
  <2>2. {"CORRECTION", "RESTORE"} \subseteq Origin
    BY DEF Origin
  <2>3. \/ UpdateTextSource(r, s) /\ Begins(r, s, "rewrite")
        \/ (CorrectContent(r, s) \/ RestoreOriginal(r, s)) /\ Begins(r, s, "find")
        \/ MarkReviewed(r, s) /\ Begins(r, s, "review")
    BY <1>3, <1>s, <1>e, <2>1, <2>2 DEF UpdateTextSource, CorrectContent, RestoreOriginal, MarkReviewed
  <2>4. QED  BY <2>3 DEF HandlerStep
<1>4. ASSUME NEW s \in Source, Retry(r, s) PROVE HandlerStep(r)
  <2> DEFINE h == [Creating(s, "incrementRetry") EXCEPT !.number = source[s].retryCount + 1]
  <2>1. source[s].retryCount + 1 \in Nat
    BY <1>4, SourceExists DEF Retry, Found, TInv, SourceDocument
  <2>2. /\ h \in Handling /\ h.step = "incrementRetry" /\ h.source = s
        /\ h.number = source[s].retryCount + 1
    BY <1>s, <2>1, CreatingFacts
  <2>3. Begin(r, h)
    BY <1>4 DEF Retry
  <2> HIDE DEF h
  <2>4. Begins(r, s, "incrementRetry") /\ request'[r].number = source[s].retryCount + 1
    BY <2>2, <2>3, BeginFacts DEF Begins
  <2>5. QED  BY <1>4, <2>4 DEF HandlerStep
<1>5. ASSUME NEW s \in Source, DeleteSource(r, s) PROVE HandlerStep(r)
  BY <1>5, <1>s, <1>c DEF DeleteSource, HandlerStep
<1>6. QED  BY <1>a, <1>1, <1>2, <1>3, <1>4, <1>5 DEF Ask

-----------------------------------------------------------------------------
(* The bytes of a file *)

Kept(s) == source[s] # Absent /\ ~source[s].deletedAt
\* A handler that is about to give the bytes a source, or to take them away.
Passing(s) ==
    \E r \in Request : (At(r, "create") \/ At(r, "erase")) /\ request[r].source = s

\* What the property needs to be inductive: which handlers the bytes may wait for, and
\* that an erasure only ever follows a deletion.
BytesWait ==
    /\ \A r \in Request : At(r, "erase") => source[request[r].source].deletedAt
    /\ \A s \in FileSource : Kept(s) => s \in stored
    /\ aborts = 0 /\ faults = 0 => \A s \in FileSource : s \in stored => Kept(s) \/ Passing(s)

LEMMA BytesWaitNext == TInv /\ BytesWait /\ [Next]_vars => BytesWait'
<1> SUFFICES ASSUME TInv, BytesWait, [Next]_vars PROVE BytesWait'
  OBVIOUS
<1>t. TInv' /\ SourcesStep /\ CountersStep
  BY TInvNext, SourcesNext, CountersNext
<1>1. ASSUME NEW r \in Request, request'[r] # NoRequest, request'[r].step = "erase"
      PROVE  source'[request'[r].source].deletedAt
  <2>1. CASE request'[r] = request[r]
    <3>1. /\ request[r].source \in Source /\ source[request[r].source] # Absent
          /\ source[request[r].source].deletedAt
      BY <1>1, <2>1, RequestFacts DEF BytesWait, At
    <3>2. QED  BY <1>t, <2>1, <3>1 DEF SourcesStep, Written, Follows
  <2>2. CASE request'[r] # request[r]
    <3>1. PICK s \in Source : DeleteSource(r, s) /\ request'[r].source = s
      BY <1>1, <2>2, HandlerSteps DEF HandlerStep, Goes, Ends, Begins
    <3>2. source[s] \in SourceDocument /\ source' = [source EXCEPT ![s] = SoftDeleted(source[s])]
      BY <3>1, SourceExists DEF DeleteSource, Found, WriteSource, TInv
    <3>3. QED  BY <3>1, <3>2, ReviewedFacts DEF TInv, TypeInv
  <2>3. QED  BY <2>1, <2>2
<1>2. ASSUME NEW s \in FileSource, source'[s] # Absent, ~source'[s].deletedAt PROVE s \in stored'
  <2>1. s \in Source /\ s \notin TextSource /\ (Kept(s) => s \in stored)
    BY Bounds DEF BytesWait
  <2>2. CASE source[s] = Absent
    <3>1. PICK r \in Request : CreateFileSource(r) /\ s = request[r].source
      BY <1>t, <1>2, <2>1, <2>2 DEF SourcesStep, Born, Created, AddTextSource
    <3>2. QED  BY <3>1 DEF CreateFileSource, At, TInv, HandlersExist
  <2>3. CASE source[s] # Absent
    <3>1. ~source[s].deletedAt /\ s \in stored
      BY <1>t, <1>2, <2>1, <2>3 DEF SourcesStep, Written, Follows, Kept
    <3>2. ASSUME s \notin stored' PROVE FALSE
      <4>1. PICK r \in Request : EraseBytes(r)
        BY <3>1, <3>2, StoredChange DEF UploadFile
      <4>2. At(r, "erase") /\ request[r].source = s
        BY <3>1, <3>2, <4>1 DEF EraseBytes
      <4>3. QED  BY <3>1, <4>2 DEF BytesWait
    <3>3. QED  BY <3>2
  <2>4. QED  BY <2>2, <2>3
<1>3. ASSUME aborts' = 0, faults' = 0, NEW s \in FileSource, s \in stored',
             ~(source'[s] # Absent /\ ~source'[s].deletedAt)
      PROVE  \E r \in Request : /\ request'[r] # NoRequest /\ request'[r].source = s
                                /\ request'[r].step \in {"create", "erase"}
  <2>1. /\ aborts = 0 /\ faults = 0
        /\ \A q \in Request : ~Abort(q) /\ ~EnqueueUploadFails(q)
    BY <1>t, <1>3 DEF CountersStep, Counted, TInv, TypeInv, Abort, EnqueueUploadFails
  <2>2. s \in Source /\ s \notin TextSource
    BY Bounds
  <2>3. s \in stored => Kept(s) \/ Passing(s)
    BY <2>1 DEF BytesWait
  <2>4. CASE s \notin stored
    <3>1. PICK r \in Request : UploadFile(r, s)
      BY <1>3, <2>4, StoredChange DEF EraseBytes, UploadFile
    <3>2. /\ Creating(s, "create") \in Handling /\ Creating(s, "create").source = s
          /\ Creating(s, "create").step = "create"
      BY <2>2, CreatingFacts DEF RequestStep
    <3>3. QED  BY <3>1, <3>2, BeginFacts DEF UploadFile
  <2>5. CASE s \in stored /\ Kept(s)
    <3>1. PICK r \in Request : DeleteSource(r, s)
      BY <1>t, <1>3, <2>2, <2>5 DEF SourcesStep, Written, Kept
    <3>2. /\ Creating(s, "erase") \in Handling /\ Creating(s, "erase").source = s
          /\ Creating(s, "erase").step = "erase"
      BY <2>2, CreatingFacts DEF RequestStep
    <3>3. QED  BY <3>1, <3>2, BeginFacts DEF DeleteSource
  <2>6. CASE s \in stored /\ Passing(s)
    <3>1. PICK r \in Request : (At(r, "create") \/ At(r, "erase")) /\ request[r].source = s
      BY <2>6 DEF Passing
    <3>2. CASE request'[r] = request[r]
      BY <3>1, <3>2 DEF At
    <3>3. CASE request'[r] # request[r]
      <4>1. CreateFileSource(r) \/ EraseBytes(r)
        BY <2>1, <3>1, <3>3, HandlerSteps
           DEF HandlerStep, Goes, Ends, Begins, At, EnqueueUpload, MarkUnqueued, FindRevision,
               VersionConflict, CountText, WriteReviewed, AppendRevision, Resubmit
      <4>2. CASE CreateFileSource(r)
        <5>1. source' = [source EXCEPT ![s] = NewSource("QUEUED", 0)]
          BY <3>1, <4>2 DEF CreateFileSource, WriteSource
        <5>2. NewSource("QUEUED", 0) \in SourceDocument /\ ~NewSource("QUEUED", 0).deletedAt
          BY NewSourceFacts DEF SourceStatus
        <5>3. QED  BY <1>3, <2>2, <5>1, <5>2, SourceAssumption DEF TInv, TypeInv
      <4>3. CASE EraseBytes(r)
        BY <1>3, <2>1, <3>1, <4>3 DEF EraseBytes
      <4>4. QED  BY <4>1, <4>2, <4>3
    <3>4. QED  BY <3>2, <3>3
  <2>7. QED  BY <2>3, <2>4, <2>5, <2>6
<1>4. QED  BY <1>1, <1>2, <1>3 DEF BytesWait, Kept, Passing, At

\* A source nobody deleted has its bytes, whatever fails. While no handler is cut short and no
\* operation fails, the bytes in storage are those of such sources, but for what a handler is
\* still at work on.
THEOREM NoBytesLeftOver == Spec => []BytesAccountedFor
<1>1. Init => BytesWait
  BY DEF Init, BytesWait, At, Kept, Source
<1>2. TInv /\ BytesWait => BytesAccountedFor
  BY DEF BytesWait, BytesAccountedFor, Kept, Passing, Serving, At
<1>3. QED  BY <1>1, <1>2, TInvInit, TInvNext, BytesWaitNext, PTL DEF Spec

-----------------------------------------------------------------------------
(* How one run goes on *)

LEMMA RunMoves ==
    ASSUME TInv, [Next]_vars, NEW w \in Worker, worker'[w] # worker[w]
    PROVE  Claim(w) \/ Process(w) \/ Stumble(w) \/ WorkerDies(w)
<1>1. ASSUME NEW v \in Worker, Claim(v) \/ Process(v) \/ Stumble(v) \/ WorkerDies(v) PROVE v = w
  <2>1. \/ \E step : Then(v, step)
        \/ \E failure : Fails(v, failure)
        \/ Finish(v)
        \/ \E run : worker' = [worker EXCEPT ![v] = run]
    BY <1>1
       DEF Claim, ClaimNext, Process, LookUp, CancelGone, BeginExtracting, FetchBytes, Convert, BeginOcr,
           Move, Extract, CheckCancelled, CancelRun, MarkCancelled, DropRevisions, StoreRevision, Publish,
           Complete, FailRead, FailWrite, MarkQueued, MarkFailed, Stumble, WorkerDies
  <2>2. QED  BY <2>1 DEF Then, Fails, Finish, TInv, TypeInv
<1>2. ASSUME NEW v \in Worker, Extraction(v) PROVE worker' = worker
  BY <1>2 DEF Extraction, ReportProgress, LateProgress, RunawayEnds
<1>3. ASSUME NEW r \in Request, Ask(r) \/ Handle(r) \/ Abort(r) PROVE worker' = worker
  BY <1>3
     DEF Ask, AddTextSource, UploadFile, UpdateTextSource, CorrectContent, RestoreOriginal, MarkReviewed,
         Retry, DeleteSource, Handle, Abort, CreateFileSource, EnqueueUpload, EnqueueUploadFails,
         MarkUnqueued, FindRevision, PointAtRevision, VersionConflict, AppendRevision, CountText,
         WriteReviewed, EraseBytes, IncrementRetry, Requeue, Resubmit
<1>4. ASSUME NEW j \in Job, JobStep(j) PROVE worker' = worker
  BY <1>4
     DEF JobStep, OperatorRetry, RequestCancellation, ClaimExpires, ClaimSlips, Expire, BackoffEnds
<1>5. QED  BY <1>1, <1>2, <1>3, <1>4 DEF Next, vars

\* A worker went on with its job, from one step to another ...
Runs(w, from, to) ==
    /\ Doing(w, from) /\ worker'[w] # NoRun /\ worker'[w].step = to
    /\ worker'[w].job = worker[w].job /\ worker'[w].claim = worker[w].claim
\* ... or is free again ...
Leaves(w) == worker[w] # NoRun /\ worker'[w] = NoRun
\* ... or has claimed a job.
Takes(w, j) ==
    /\ worker[w] = NoRun /\ worker'[w] # NoRun /\ worker'[w].step = "lookup"
    /\ worker'[w].job = j /\ worker'[w].claim = jobs[j].attempts + 1

RunStep(w) ==
    \/ \E j \in Job : ClaimNext(w, j) /\ Takes(w, j)
    \/ LookUp(w) /\ (Runs(w, "lookup", "begin") \/ Runs(w, "lookup", "cancelGone"))
    \/ BeginExtracting(w) /\ Runs(w, "begin", "fetch")
    \/ FetchBytes(w) /\ \E to \in {"convert", "ocr", "extract", "failRead"} : Runs(w, "fetch", to)
    \/ Convert(w) /\ \E to \in {"ocr", "extract", "failRead"} : Runs(w, "convert", to)
    \/ BeginOcr(w) /\ Runs(w, "ocr", "extract")
    \/ Extract(w) /\ (Runs(w, "extract", "check") \/ Runs(w, "extract", "failRead"))
    \/ CheckCancelled(w) /\ Runs(w, "check", "cancelRun") /\ jobs[worker[w].job].cancelRequested
    \/ CheckCancelled(w) /\ Runs(w, "check", "drop")
    \/ CancelRun(w) /\ Runs(w, "cancelRun", "markCancelled")
    \/ DropRevisions(w) /\ Runs(w, "drop", "store")
    \/ StoreRevision(w) /\ (Runs(w, "store", "publish") \/ Runs(w, "store", "failRead"))
    \/ Publish(w) /\ Runs(w, "publish", "complete")
    \/ Stumble(w) /\ \E from \in Tried : Runs(w, from, "failRead")
    \/ FailRead(w) /\ Runs(w, "failRead", "failWrite") /\ worker'[w].read = jobs[worker[w].job].attempts
    \/ FailWrite(w) /\ \E to \in {"markQueued", "markFailed"} : Runs(w, "failWrite", to)
    \/ (CancelGone(w) \/ MarkCancelled(w) \/ Complete(w) \/ MarkQueued(w) \/ MarkFailed(w) \/ WorkerDies(w))
          /\ Leaves(w)

LEMMA RunSteps ==
    ASSUME TInv, [Next]_vars, NEW w \in Worker, worker'[w] # worker[w]
    PROVE  RunStep(w)
<1>a. Claim(w) \/ Process(w) \/ Stumble(w) \/ WorkerDies(w)
  BY RunMoves
<1>t. ASSUME NEW from, Doing(w, from), NEW to \in WorkerStep, Then(w, to) PROVE Runs(w, from, to)
  BY <1>t, ThenFacts DEF Runs, Doing
<1>x. ASSUME NEW from, Doing(w, from), NEW failure \in Failure, Fails(w, failure)
      PROVE  Runs(w, from, "failRead")
  BY <1>x, FailsFacts DEF Runs, Doing
<1>f. ASSUME worker[w] # NoRun, Finish(w) PROVE Leaves(w)
  BY <1>f, FinishFacts DEF Leaves
<1>1. ASSUME NEW j \in Job, ClaimNext(w, j) PROVE RunStep(w)
  <2> DEFINE run == [step |-> "lookup", job |-> j, claim |-> jobs[j].attempts + 1,
                     failure |-> Unrecognised, read |-> 0]
  <2>1. jobs[j].attempts + 1 \in Nat /\ worker[w] = NoRun /\ worker' = [worker EXCEPT ![w] = run]
    BY <1>1, JobExists DEF ClaimNext, TInv, Document
  <2>2. run \in Run /\ run.step = "lookup" /\ run.job = j /\ run.claim = jobs[j].attempts + 1
    BY <2>1, FailureFacts DEF Run, WorkerStep
  <2> HIDE DEF run
  <2>3. Takes(w, j)
    BY <2>1, <2>2, SentinelAssumption DEF Takes, TInv, TypeInv
  <2>4. QED  BY <1>1, <2>3 DEF RunStep
<1>2. CASE \/ LookUp(w) \/ BeginExtracting(w) \/ BeginOcr(w) \/ CheckCancelled(w) \/ CancelRun(w)
           \/ DropRevisions(w) \/ Publish(w) \/ FailWrite(w)
  BY <1>2, <1>t
     DEF LookUp, BeginExtracting, BeginOcr, Move, CheckCancelled, CancelRun, DropRevisions, Publish,
         FailWrite, WorkerStep, RunStep
<1>3. CASE FetchBytes(w) \/ Convert(w) \/ Extract(w) \/ StoreRevision(w)
  BY <1>3, <1>t, <1>x, FailureFacts
     DEF FetchBytes, Convert, ReadAs, Extract, StoreRevision, Move, WorkerStep, RunStep
<1>4. CASE Stumble(w)
  BY <1>4, <1>x, FailureFacts DEF Stumble, RunStep, Doing
<1>5. CASE CancelGone(w) \/ MarkCancelled(w) \/ Complete(w) \/ MarkQueued(w) \/ MarkFailed(w) \/ WorkerDies(w)
  BY <1>5, <1>f DEF CancelGone, MarkCancelled, Complete, MarkQueued, MarkFailed, WorkerDies, Doing, RunStep
<1>6. CASE FailRead(w)
  <2> DEFINE run == [worker[w] EXCEPT !.step = "failWrite", !.read = jobs[worker[w].job].attempts]
  <2>1. /\ Doing(w, "failRead") /\ worker[w] \in Run /\ jobs[worker[w].job].attempts \in Nat
        /\ worker' = [worker EXCEPT ![w] = run]
    BY <1>6, RunFacts DEF FailRead, Doing, Document
  <2>2. /\ run \in Run /\ run.step = "failWrite" /\ run.job = worker[w].job
        /\ run.claim = worker[w].claim /\ run.read = jobs[worker[w].job].attempts
    BY <2>1 DEF Run, WorkerStep
  <2> HIDE DEF run
  <2>3. Runs(w, "failRead", "failWrite") /\ worker'[w].read = jobs[worker[w].job].attempts
    BY <2>1, <2>2, SentinelAssumption DEF Runs, TInv, TypeInv
  <2>4. QED  BY <1>6, <2>3 DEF RunStep
<1>7. QED  BY <1>a, <1>1, <1>2, <1>3, <1>4, <1>5, <1>6 DEF Claim, Process

-----------------------------------------------------------------------------
(* Cancellation, which no route asks for *)

\* Whether a worker can never fail between the two writes of a cancellation.
NoneCancelled == Cancellable = {} \/ MaxFaults = 0

Unasked ==
    Cancellable = {} =>
        /\ \A j \in Job : Live(j) => ~jobs[j].cancelRequested
        /\ \A w \in Worker : ~Doing(w, "cancelRun") /\ ~Doing(w, "markCancelled")

LEMMA UnaskedNext == TInv /\ Unasked /\ [Next]_vars => Unasked'
<1> SUFFICES ASSUME TInv, Unasked, [Next]_vars, Cancellable = {}
             PROVE  /\ \A j \in Job : jobs'[j] # Unborn => ~jobs'[j].cancelRequested
                    /\ \A w \in Worker : worker'[w] # NoRun =>
                          worker'[w].step # "cancelRun" /\ worker'[w].step # "markCancelled"
  BY DEF Unasked, Live, Doing
<1>1. \A j \in Job : jobs'[j] # Unborn => ~jobs'[j].cancelRequested
  BY JobsNext DEF JobsStep, Unasked, RequestCancellation
<1>2. ASSUME NEW w \in Worker, worker'[w] # NoRun
      PROVE  worker'[w].step # "cancelRun" /\ worker'[w].step # "markCancelled"
  <2>1. CASE worker'[w] = worker[w]
    BY <1>2, <2>1 DEF Unasked, Doing
  <2>2. CASE worker'[w] # worker[w]
    <3>1. worker[w] # NoRun => ~jobs[worker[w].job].cancelRequested
      BY RunFacts DEF Unasked, TInv, RunsExist
    <3>2. RunStep(w)
      BY <2>2, RunSteps
    <3>3. QED  BY <1>2, <3>1, <3>2 DEF RunStep, Runs, Leaves, Takes, Unasked, Doing
  <2>3. QED  BY <2>1, <2>2
<1>3. QED  BY <1>1, <1>2

-----------------------------------------------------------------------------
(* The queue *)

\* The queue's own operators are those of the store.
LEMMA SameStore ==
    /\ JQ!NewDocument = NewDocument
    /\ \A d : /\ JQ!Runnable(d) = Runnable(d) /\ JQ!Retryable(d) = Retryable(d)
              /\ JQ!Progressed(d) = Progressed(d) /\ JQ!Completed(d) = Completed(d)
              /\ JQ!Cancelled(d) = Cancelled(d) /\ JQ!Retried(d) = Retried(d)
              /\ JQ!CancellationRequested(d) = CancellationRequested(d)
    /\ \A d, w : JQ!Claimed(d, w) = Claimed(d, w)
    /\ \A d, n, a : JQ!Failed(d, JQ!Disposition(n, a)) = Failed(d, Disposition(n, a))
  BY DEF JQ!NewDocument, NewDocument, JQ!Runnable, Runnable, JQ!Retryable, Retryable, JQ!Progressed,
         Progressed, JQ!Completed, Completed, JQ!Cancelled, Cancelled, JQ!Released, Released, JQ!Retried,
         Retried, JQ!CancellationRequested, CancellationRequested, JQ!Settled, Settled, JQ!JobState,
         JobState, JQ!Claimed, Claimed, JQ!Failed, Failed, JQ!Disposition, Disposition

\* What the queue sees of a run.
HeldBy(run) ==
    IF run # NoRun /\ run.step \notin LetGo THEN [job |-> run.job, claim |-> run.claim] ELSE NoRun
ReadBy(run) == IF run # NoRun /\ run.step = "failWrite" THEN run.read ELSE NotRead

LEMMA QueueSees ==
    /\ Held = [w \in Worker |-> HeldBy(worker[w])]
    /\ ReadByFail = [w \in Worker |-> ReadBy(worker[w])]
    /\ Held' = [w \in Worker |-> HeldBy(worker'[w])]
    /\ ReadByFail' = [w \in Worker |-> ReadBy(worker'[w])]
  BY DEF Held, Holding, ReadByFail, Doing, HeldBy, ReadBy

LEMMA LiveInQueue ==
    ASSUME TInv, NEW j \in Job
    PROVE  JQ!Live(j) <=> Live(j)
  BY SentinelAssumption DEF JQ!Live, Live, TInv, TypeInv

\* One worker moves.
LEMMA SeenMoving ==
    ASSUME NEW w \in Worker, \A v \in Worker : v # w => worker'[v] = worker[v]
    PROVE  /\ Held' = [Held EXCEPT ![w] = HeldBy(worker'[w])]
           /\ ReadByFail' = [ReadByFail EXCEPT ![w] = ReadBy(worker'[w])]
           /\ Held[w] = HeldBy(worker[w]) /\ ReadByFail[w] = ReadBy(worker[w])
           /\ HeldBy(worker'[w]) = HeldBy(worker[w]) => Held' = Held
           /\ ReadBy(worker'[w]) = ReadBy(worker[w]) => ReadByFail' = ReadByFail
  <1> DEFINE h(run) == HeldBy(run)
             f(run) == ReadBy(run)
  <1>1. /\ Held = [v \in Worker |-> h(worker[v])] /\ Held' = [v \in Worker |-> h(worker'[v])]
        /\ ReadByFail = [v \in Worker |-> f(worker[v])]
        /\ ReadByFail' = [v \in Worker |-> f(worker'[v])]
    BY QueueSees
  <1> HIDE DEF h, f
  <1>2. /\ Held' = [Held EXCEPT ![w] = h(worker'[w])]
        /\ ReadByFail' = [ReadByFail EXCEPT ![w] = f(worker'[w])]
        /\ Held[w] = h(worker[w]) /\ ReadByFail[w] = f(worker[w])
        /\ h(worker'[w]) = h(worker[w]) => Held' = Held
        /\ f(worker'[w]) = f(worker[w]) => ReadByFail' = ReadByFail
    BY <1>1
  <1>3. QED  BY <1>2 DEF h, f

Queue == <<jobs, runaway, crashes, slips, operatorRetries>>

LEMMA QueueRests ==
    ASSUME UNCHANGED Queue, Held' = Held, ReadByFail' = ReadByFail
    PROVE  UNCHANGED JQ!vars
  BY DEF Queue, JQ!vars

LEMMA WorkerRests ==
    ASSUME worker' = worker
    PROVE  Held' = Held /\ ReadByFail' = ReadByFail
  BY QueueSees

LEMMA QueueInit == Init => JQ!Init
  BY DEF Init, JQ!Init, Held, Holding, ReadByFail, Doing

LEMMA HeldFacts ==
    ASSUME TInv, NEW w \in Worker
    PROVE  /\ Held[w] # NoRun <=> Holding(w)
           /\ Holding(w) => Held[w].job = worker[w].job /\ Held[w].claim = worker[w].claim
           /\ Doing(w, "failWrite") => ReadByFail[w] = worker[w].read /\ ReadByFail[w] # NotRead
           /\ ~Doing(w, "failWrite") => ReadByFail[w] = NotRead
  <1>1. CASE worker[w] = NoRun
    BY <1>1, QueueSees DEF HeldBy, ReadBy, Holding, Doing
  <1>2. CASE worker[w] # NoRun
    <2>1. worker[w].job \in Job /\ worker[w].claim \in Nat /\ worker[w].read \in Nat
      BY <1>2, RunFacts DEF Run
    <2>2. worker[w].read # NotRead /\ [job |-> worker[w].job, claim |-> worker[w].claim] # NoRun
      BY <2>1, SentinelAssumption
    <2>3. QED  BY <1>2, <2>2, QueueSees DEF HeldBy, ReadBy, Holding, Doing
  <1>3. QED  BY <1>1, <1>2

LEMMA AttendedInQueue ==
    ASSUME TInv, NEW j \in Job
    PROVE  JQ!Attended(j) <=> Attended(j)
  BY HeldFacts, LiveInQueue DEF JQ!Attended, JQ!Holds, Attended

LEMMA WrittenInQueue ==
    ASSUME TInv, NEW w \in Worker, Holding(w), NEW d, WriteJob(worker[w].job, d)
    PROVE  JQ!Write(w, d)
  <1>1. worker[w].job \in Job /\ Live(worker[w].job) /\ Held[w].job = worker[w].job
    BY HeldFacts, RunFacts DEF Holding, TInv, RunsExist
  <1>2. QED  BY <1>1, LiveInQueue DEF JQ!Write, WriteJob

\* What a worker's step looks like to the queue: the worker keeps its claim, or lets it go.
LEMMA KeepsClaim ==
    ASSUME TInv, NEW w \in Worker, NEW from, NEW to, Runs(w, from, to),
           \A v \in Worker : v # w => worker'[v] = worker[v],
           from \notin LetGo, to \notin LetGo, from # "failWrite", to # "failWrite"
    PROVE  Held' = Held /\ ReadByFail' = ReadByFail
  BY SeenMoving DEF Runs, Doing, HeldBy, ReadBy

LEMMA LetsGo ==
    ASSUME TInv, NEW w \in Worker, worker'[w] = NoRun \/ worker'[w].step \in LetGo,
           \A v \in Worker : v # w => worker'[v] = worker[v]
    PROVE  JQ!LetGo(w) /\ ReadByFail' = [ReadByFail EXCEPT ![w] = NotRead]
  BY SeenMoving DEF HeldBy, ReadBy, JQ!LetGo, LetGo

\* Every step of ingestion is a step of the queue, or leaves the queue alone.
LEMMA QueueNext == TInv /\ Unasked /\ NoneCancelled /\ [Next]_vars => [JQ!Next]_JQ!vars
<1> SUFFICES ASSUME TInv, Unasked, NoneCancelled, [Next]_vars PROVE JQ!Next \/ UNCHANGED JQ!vars
  OBVIOUS
<1>l. \A j \in Job : JQ!Live(j) <=> Live(j)
  BY LiveInQueue
<1>r. ASSUME UNCHANGED Queue, worker' = worker PROVE UNCHANGED JQ!vars
  BY <1>r, QueueRests, WorkerRests
<1>a. ASSUME NEW w \in Worker, \/ \E step : Then(w, step)
                               \/ \E failure : Fails(w, failure)
                               \/ Finish(w)
                               \/ \E run : worker' = [worker EXCEPT ![w] = run]
      PROVE  \A v \in Worker : v # w => worker'[v] = worker[v]
  BY <1>a DEF Then, Fails, Finish, TInv, TypeInv
<1>b. UNCHANGED <<crashes, slips, operatorRetries>> => UNCHANGED JQ!budgets
  BY DEF JQ!budgets
<1>1. ASSUME NEW r \in Request, EnqueueUpload(r) \/ Resubmit(r) PROVE JQ!Next \/ UNCHANGED JQ!vars
  <2>1. PICK k \in 0 .. MaxAttempts : EnqueueExtraction(<<request[r].source, k>>)
    BY <1>1, RequestFacts, Bounds DEF EnqueueUpload, Resubmit, At, RetrySteps
  <2> DEFINE j == <<request[r].source, k>>
  <2>2. j \in Job
    BY <1>1, RequestFacts, Bounds DEF EnqueueUpload, Resubmit, At, FileSteps
  <2> HIDE DEF j
  <2>3. UNCHANGED <<worker, runaway, crashes, slips, operatorRetries>> /\ EnqueueExtraction(j)
    BY <1>1, <2>1 DEF EnqueueUpload, Resubmit, budgets, failures, j
  <2>4. Held' = Held /\ ReadByFail' = ReadByFail
    BY <2>3, WorkerRests
  <2>5. CASE Live(j)
    BY <2>3, <2>4, <2>5, QueueRests DEF EnqueueExtraction, Queue
  <2>6. CASE ~Live(j)
    <3>1. JQ!Enqueue(j)
      BY <1>l, <1>b, <2>2, <2>3, <2>4, <2>6, SameStore DEF EnqueueExtraction, JQ!Enqueue, Live
    <3>2. QED  BY <2>2, <3>1 DEF JQ!Next, JQ!JobStep
  <2>7. QED  BY <2>5, <2>6
<1>2. ASSUME NEW r \in Request,
             \/ CreateFileSource(r) \/ EnqueueUploadFails(r) \/ MarkUnqueued(r)
             \/ FindRevision(r) \/ PointAtRevision(r) \/ VersionConflict(r) \/ AppendRevision(r)
             \/ CountText(r) \/ WriteReviewed(r) \/ EraseBytes(r)
             \/ IncrementRetry(r) \/ Requeue(r) \/ Abort(r) \/ Ask(r)
      PROVE  JQ!Next \/ UNCHANGED JQ!vars
  BY <1>2, <1>r
     DEF CreateFileSource, EnqueueUploadFails, MarkUnqueued, FindRevision, PointAtRevision,
         VersionConflict, AppendRevision, CountText, WriteReviewed, EraseBytes, IncrementRetry, Requeue,
         Abort, Ask, AddTextSource, UploadFile, UpdateTextSource, CorrectContent, RestoreOriginal,
         MarkReviewed, Retry, DeleteSource, budgets, failures, Queue
<1>3. ASSUME NEW w \in Worker, NEW j \in Job, ClaimNext(w, j) PROVE JQ!Next
  <2>1. worker[w] = NoRun /\ worker'[w] # NoRun /\ Takes(w, j) /\ \A v \in Worker : v # w => worker'[v] = worker[v]
    <3>1. worker'[w] # worker[w]
      BY <1>3, WorkersNext, JobExists, SentinelAssumption, FailureFacts
         DEF ClaimNext, TInv, TypeInv, Run, WorkerStep, Document
    <3>2. RunStep(w)
      BY <3>1, RunSteps
    <3>3. worker[w] = NoRun /\ \A v \in Worker : v # w => worker'[v] = worker[v]
      BY <1>3, <1>a DEF ClaimNext
    <3>4. worker'[w].job = j
      BY <1>3 DEF ClaimNext, TInv, TypeInv
    <3>5. QED
      BY <3>2, <3>3, <3>4 DEF RunStep, Runs, Doing, Leaves, Takes, Stumble, LookUp, BeginExtracting, Move,
         FetchBytes, Convert
  <2>2. /\ Held[w] = NoRun
        /\ Held' = [Held EXCEPT ![w] = [job |-> j, claim |-> jobs[j].attempts + 1]]
        /\ ReadByFail' = ReadByFail
    BY <2>1, SeenMoving DEF HeldBy, ReadBy, Takes, LetGo
  <2>3. JQ!ClaimNext(w, j)
    BY <1>3, <1>l, <1>b, <2>2, SameStore DEF ClaimNext, WriteJob, JQ!ClaimNext, budgets, failures
  <2>4. QED  BY <2>3 DEF JQ!Next, JQ!WorkerStep

\* The steps of a run that the queue does not see.
<1>k. ASSUME NEW w \in Worker, NEW from, NEW to, Runs(w, from, to), UNCHANGED Queue,
             \A v \in Worker : v # w => worker'[v] = worker[v],
             from \notin LetGo, to \notin LetGo, from # "failWrite", to # "failWrite"
      PROVE  UNCHANGED JQ!vars
  BY <1>k, KeepsClaim, QueueRests
<1>4. ASSUME NEW w \in Worker,
             \/ LookUp(w) \/ BeginExtracting(w) \/ FetchBytes(w) \/ Convert(w) \/ BeginOcr(w) \/ Extract(w)
             \/ CheckCancelled(w) \/ DropRevisions(w) \/ StoreRevision(w) \/ Publish(w) \/ Stumble(w)
      PROVE  UNCHANGED JQ!vars
  <2>1. UNCHANGED Queue /\ \A v \in Worker : v # w => worker'[v] = worker[v]
    BY <1>4, <1>a
       DEF LookUp, BeginExtracting, FetchBytes, Convert, BeginOcr, Move, Extract, CheckCancelled,
           DropRevisions, StoreRevision, Publish, Stumble, Queue, budgets, failures
  <2>2. /\ worker[w] # NoRun /\ worker[w].step \notin LetGo /\ worker[w].step # "failWrite"
    <3>1. CASE Stumble(w)
      BY <3>1 DEF Stumble, Tried, LetGo, NoneCancelled, Unasked, Doing, TInv, TypeInv
    <3>2. CASE ~Stumble(w)
      BY <1>4, <3>2
         DEF LookUp, BeginExtracting, FetchBytes, Convert, BeginOcr, Move, Extract, CheckCancelled,
             DropRevisions, StoreRevision, Publish, Doing, LetGo
    <3>3. QED  BY <3>1, <3>2
  <2>3. \/ \E to \in WorkerStep \ (LetGo \cup {"failWrite"}) : Then(w, to)
        \/ \E failure \in Failure : Fails(w, failure)
    BY <1>4, FailureFacts
       DEF LookUp, BeginExtracting, FetchBytes, Convert, ReadAs, BeginOcr, Move, Extract, CheckCancelled,
           DropRevisions, StoreRevision, Publish, Stumble, WorkerStep, LetGo
  <2>4. \E to : Runs(w, worker[w].step, to) /\ to \notin LetGo /\ to # "failWrite"
    BY <2>2, <2>3, ThenFacts, FailsFacts DEF Runs, Doing, LetGo
  <2>5. QED  BY <1>k, <2>1, <2>2, <2>4
<1>5. ASSUME NEW w \in Worker, MarkCancelled(w) \/ MarkQueued(w) \/ MarkFailed(w) PROVE UNCHANGED JQ!vars
  <2>1. UNCHANGED Queue /\ \A v \in Worker : v # w => worker'[v] = worker[v]
    BY <1>5, <1>a DEF MarkCancelled, MarkQueued, MarkFailed, Queue, budgets, failures
  <2>2. worker[w] # NoRun /\ worker[w].step \in LetGo /\ worker'[w] = NoRun
    BY <1>5, FinishFacts DEF MarkCancelled, MarkQueued, MarkFailed, Doing, LetGo
  <2>3. HeldBy(worker'[w]) = HeldBy(worker[w]) /\ ReadBy(worker'[w]) = ReadBy(worker[w])
    BY <2>2 DEF HeldBy, ReadBy, LetGo
  <2>4. QED  BY <2>1, <2>3, SeenMoving, QueueRests
<1>6. ASSUME NEW w \in Worker, ReportProgress(w) PROVE JQ!Next
  <2>1. /\ Holding(w) /\ ~Doing(w, "failWrite") /\ worker[w].job \in Job
        /\ Held[w].job = worker[w].job
    BY <1>6, HeldFacts, RunFacts DEF ReportProgress, Doing, Holding, LetGo
  <2>2. JQ!ReportProgress(w)
    BY <1>6, <1>b, <2>1, HeldFacts, WrittenInQueue, WorkerRests, SameStore
       DEF ReportProgress, JQ!ReportProgress, budgets, failures
  <2>3. QED  BY <2>2 DEF JQ!Next, JQ!WorkerStep
<1>7. ASSUME NEW w \in Worker, NEW j \in Job, LateProgress(w, j) PROVE JQ!Next
  <2>1. Live(j)
    BY <1>7 DEF LateProgress, TInv, RunsExist
  <2>2. JQ!LateProgress(w, j)
    BY <1>7, <1>l, <1>b, <2>1, WorkerRests, SameStore
       DEF LateProgress, WriteJob, JQ!LateProgress, budgets, failures
  <2>3. QED  BY <2>2 DEF JQ!Next, JQ!WorkerStep
<1>8. ASSUME NEW w \in Worker, NEW j \in Job, RunawayEnds(w, j) PROVE JQ!Next
  <2>1. JQ!RunawayEnds(w, j)
    BY <1>8, <1>b, WorkerRests DEF RunawayEnds, JQ!RunawayEnds, budgets, failures
  <2>2. QED  BY <2>1 DEF JQ!Next, JQ!WorkerStep
<1>9. ASSUME NEW w \in Worker, CancelGone(w) \/ CancelRun(w) \/ Complete(w) PROVE JQ!Next
  <2>1. /\ Holding(w) /\ ~Doing(w, "failWrite") /\ Held[w].job = worker[w].job
        /\ \A v \in Worker : v # w => worker'[v] = worker[v]
    BY <1>9, <1>a, HeldFacts DEF CancelGone, CancelRun, Complete, Doing, Holding, LetGo
  <2>2. worker'[w] = NoRun \/ worker'[w].step \in LetGo
    BY <1>9, FinishFacts, ThenFacts DEF CancelGone, CancelRun, Complete, Doing, LetGo, WorkerStep
  <2>3. JQ!LetGo(w) /\ ReadByFail' = ReadByFail
    BY <2>1, <2>2, LetsGo, HeldFacts, QueueSees
  <2>4. JQ!Cancel(w) \/ JQ!Complete(w)
    BY <1>9, <1>b, <2>1, <2>3, HeldFacts, WrittenInQueue, SameStore
       DEF CancelGone, CancelRun, Complete, JQ!Cancel, JQ!Complete, budgets, failures
  <2>5. QED  BY <2>4 DEF JQ!Next, JQ!WorkerStep, JQ!Settle
<1>10. ASSUME NEW w \in Worker, FailRead(w) PROVE JQ!Next
  <2> DEFINE j == worker[w].job
             run == [worker[w] EXCEPT !.step = "failWrite", !.read = jobs[j].attempts]
  <2>1. /\ Holding(w) /\ ~Doing(w, "failWrite") /\ Held[w].job = j /\ j \in Job /\ Live(j)
        /\ worker[w] \in Run /\ jobs[j].attempts \in Nat
    BY <1>10, HeldFacts, RunFacts DEF FailRead, Doing, Holding, LetGo, TInv, RunsExist, Document
  <2>2. /\ run \in Run /\ run.step = "failWrite" /\ run.job = worker[w].job
        /\ run.claim = worker[w].claim /\ run.read = jobs[j].attempts
    BY <2>1 DEF Run, WorkerStep
  <2>3. worker' = [worker EXCEPT ![w] = run]
    BY <1>10 DEF FailRead
  <2> HIDE DEF run
  <2>4. /\ HeldBy(worker'[w]) = HeldBy(worker[w]) /\ ReadBy(worker'[w]) = jobs[j].attempts
        /\ \A v \in Worker : v # w => worker'[v] = worker[v]
    BY <2>1, <2>2, <2>3, SentinelAssumption DEF HeldBy, ReadBy, Holding, LetGo, TInv, TypeInv
  <2>5. Held' = Held /\ ReadByFail' = [ReadByFail EXCEPT ![w] = jobs[j].attempts]
    BY <2>4, SeenMoving
  <2>6. \E left \in SUBSET {j} : runaway' = [runaway EXCEPT ![w] = @ \cup left]
    <3>1. CASE worker[w].failure = TimedOut
      BY <1>10, <3>1 DEF FailRead
    <3>2. CASE worker[w].failure # TimedOut
      <4>1. runaway' = [runaway EXCEPT ![w] = @ \cup {}]
        BY <1>10, <3>2 DEF FailRead
      <4>2. QED  BY <4>1
    <3>3. QED  BY <3>1, <3>2
  <2>7. JQ!FailRead(w)
    BY <1>10, <1>l, <1>b, <2>1, <2>5, <2>6, HeldFacts DEF FailRead, JQ!FailRead, budgets, failures
  <2>8. QED  BY <2>7 DEF JQ!Next, JQ!WorkerStep, JQ!Settle
<1>11. ASSUME NEW w \in Worker, FailWrite(w) PROVE JQ!Next
  <2>1. /\ Holding(w) /\ Doing(w, "failWrite") /\ Held[w].job = worker[w].job
        /\ \A v \in Worker : v # w => worker'[v] = worker[v]
        /\ worker[w].failure.retryable \in BOOLEAN
    BY <1>11, <1>a, HeldFacts, RunFacts, FailureFacts DEF FailWrite, Doing, Holding, LetGo
  <2>2. worker'[w].step \in LetGo
    BY <1>11, ThenFacts DEF FailWrite, Doing, LetGo, WorkerStep
  <2>3. JQ!LetGo(w) /\ ReadByFail' = [ReadByFail EXCEPT ![w] = NotRead]
    BY <2>1, <2>2, LetsGo
  <2>4. WriteJob(worker[w].job, Failed(jobs[worker[w].job], Disposition(ReadByFail[w], worker[w].failure.retryable)))
    BY <1>11, <2>1, HeldFacts DEF FailWrite
  <2>5. JQ!FailWrite(w, worker[w].failure.retryable)
    BY <1>11, <1>b, <2>1, <2>3, <2>4, HeldFacts, WrittenInQueue, SameStore
       DEF FailWrite, JQ!FailWrite, budgets, failures
  <2>6. QED  BY <2>1, <2>5 DEF JQ!Next, JQ!WorkerStep, JQ!Settle
<1>12. ASSUME NEW w \in Worker, WorkerDies(w) PROVE JQ!Next
  <2>1. JQ!LetGo(w) /\ ReadByFail' = [ReadByFail EXCEPT ![w] = NotRead]
    BY <1>12, <1>a, LetsGo, FinishFacts DEF WorkerDies
  <2>2. JQ!WorkerDies(w)
    BY <1>12, <2>1 DEF WorkerDies, JQ!WorkerDies
  <2>3. QED  BY <2>2 DEF JQ!Next, JQ!WorkerStep
<1>13. ASSUME NEW j \in Job, JobStep(j) PROVE JQ!Next
  <2>1. Held' = Held /\ ReadByFail' = ReadByFail
    BY <1>13, WorkerRests
       DEF JobStep, OperatorRetry, RequestCancellation, ClaimExpires, ClaimSlips, Expire, BackoffEnds
  <2>2. JQ!OperatorRetry(j) \/ JQ!RequestCancellation(j) \/ JQ!ClaimExpires(j) \/ JQ!ClaimSlips(j) \/ JQ!BackoffEnds(j)
    <3>1. CASE OperatorRetry(j)
      BY <1>l, <2>1, <3>1, SameStore DEF OperatorRetry, WriteJob, JQ!OperatorRetry
    <3>2. CASE RequestCancellation(j)
      BY <1>l, <1>b, <2>1, <3>2, SameStore
         DEF RequestCancellation, WriteJob, JQ!RequestCancellation, budgets, failures
    <3>3. CASE ClaimExpires(j) \/ ClaimSlips(j)
      BY <1>l, <2>1, <3>3, AttendedInQueue
         DEF ClaimExpires, ClaimSlips, Expire, WriteJob, JQ!ClaimExpires, JQ!ClaimSlips, JQ!Expire
    <3>4. CASE BackoffEnds(j)
      BY <1>l, <1>b, <2>1, <3>4 DEF BackoffEnds, WriteJob, JQ!BackoffEnds, budgets, failures
    <3>5. QED  BY <1>13, <3>1, <3>2, <3>3, <3>4 DEF JobStep
  <2>3. QED  BY <2>2 DEF JQ!Next, JQ!JobStep
<1>14. CASE UNCHANGED vars
  BY <1>14, <1>r DEF vars, budgets, failures, Queue
<1>15. QED
  BY <1>1, <1>2, <1>3, <1>4, <1>5, <1>6, <1>7, <1>8, <1>9, <1>10, <1>11, <1>12, <1>13, <1>14
     DEF Next, Handle, Claim, Process, Extraction

\* The queue the workers share is the one JobQueue specifies, when no cancellation is asked
\* for, as no route does, or no operation of the worker fails.
THEOREM QueueIsImplemented == NoneCancelled => (Spec => ImplementsJobQueue)
<1> SUFFICES ASSUME NoneCancelled PROVE Spec => ImplementsJobQueue
  OBVIOUS
<1>1. Init => Unasked
  BY DEF Init, Unasked, Live, Doing
<1>2. TInv /\ Unasked /\ [Next]_vars => [JQ!Next]_JQ!vars
  BY QueueNext
<1>3. QED
  BY <1>1, <1>2, TInvInit, TInvNext, UnaskedNext, QueueInit, PTL DEF Spec, ImplementsJobQueue, JQ!Spec

-----------------------------------------------------------------------------
(* What the queue's own theorems say here *)

JQP == INSTANCE JobQueue_proofs WITH
    Key <- Job, KeyOf <- [j \in Job |-> j], NoClaim <- NoRun,
    holding <- Held, failRead <- ReadByFail

\* The same module instantiated twice: its definitions agree word for word.
LEMMA SameQueue ==
    /\ JQ!Init => JQP!Init
    /\ [JQ!Next]_JQ!vars => [JQP!Next]_JQP!vars
    /\ \A w \in Worker, j \in Job : JQP!Holds(w, j) <=> JQ!Holds(w, j)
    /\ \A j \in Job : JQP!Live(j) <=> JQ!Live(j)
  BY DEF JQ!Init, JQP!Init, JQ!Next, JQP!Next, JQ!WorkerStep, JQP!WorkerStep, JQ!Settle, JQP!Settle,
         JQ!JobStep, JQP!JobStep, JQ!ClaimNext, JQP!ClaimNext, JQ!LateProgress, JQP!LateProgress,
         JQ!RunawayEnds, JQP!RunawayEnds, JQ!ReportProgress, JQP!ReportProgress, JQ!Write, JQP!Write,
         JQ!LetGo, JQP!LetGo, JQ!Complete, JQP!Complete, JQ!Cancel, JQP!Cancel, JQ!FailRead,
         JQP!FailRead, JQ!FailWrite, JQP!FailWrite, JQ!WorkerDies, JQP!WorkerDies, JQ!Enqueue,
         JQP!Enqueue, JQ!RequestCancellation, JQP!RequestCancellation, JQ!OperatorRetry,
         JQP!OperatorRetry, JQ!Remove, JQP!Remove, JQ!ClaimExpires, JQP!ClaimExpires, JQ!ClaimSlips,
         JQP!ClaimSlips, JQ!Expire, JQP!Expire, JQ!BackoffEnds, JQP!BackoffEnds, JQ!Live, JQP!Live,
         JQ!Attended, JQP!Attended, JQ!Holds, JQP!Holds, JQ!NewDocument, JQP!NewDocument, JQ!Runnable,
         JQP!Runnable, JQ!Retryable, JQP!Retryable, JQ!Progressed, JQP!Progressed, JQ!Completed,
         JQP!Completed, JQ!Cancelled, JQP!Cancelled, JQ!Released, JQP!Released, JQ!Retried, JQP!Retried,
         JQ!CancellationRequested, JQP!CancellationRequested, JQ!Settled, JQP!Settled, JQ!JobState,
         JQP!JobState, JQ!Claimed, JQP!Claimed, JQ!Failed, JQP!Failed, JQ!Disposition, JQP!Disposition,
         JQ!vars, JQP!vars, JQ!budgets, JQP!budgets

\* What JobQueue assumes of its constants.
LEMMA QueueAssumptions ==
    /\ [j \in Job |-> j] \in [Job -> Job]
    /\ Unborn \notin JQP!Document /\ Removed \notin JQP!Document /\ Unborn # Removed
    /\ NoRun \notin [job : Job, claim : Nat] /\ NotRead \notin Nat
    /\ MaxCrashes \in Nat /\ MaxSlips \in Nat /\ MaxOperatorRetries \in Nat
    /\ MaxAttempts \in Nat \ {0} /\ NoWorker \notin Worker
  BY SentinelAssumption, MaxAttemptsAssumption, NoWorkerAssumption, BoundsAssumption
     DEF JQP!Document, JQP!JobState, Document, JobState

\* While no claim of a living worker times out, a worker that holds a job is the only one,
\* and the job says it is running: from JobQueue's theorem.
HoldersRun ==
    slips = 0 => \A w \in Worker : Holding(w) => jobs[worker[w].job].state = "running"

LEMMA QueueOwners == NoneCancelled => (Spec => [](JQP!SoleHolder))
<1> SUFFICES ASSUME NoneCancelled PROVE Spec => [](JQP!SoleHolder)
  OBVIOUS
<1>1. Spec => JQP!Spec
  BY QueueIsImplemented, SameQueue, PTL DEF ImplementsJobQueue, JQ!Spec, JQP!Spec
<1>2. JQP!Spec => [](JQP!SoleHolder)
  BY QueueAssumptions, JQP!HoldersOwnTheirJob
<1>3. QED  BY <1>1, <1>2, PTL

LEMMA OwnersRun == TInv /\ JQP!SoleHolder => HoldersRun
<1> SUFFICES ASSUME TInv, JQP!SoleHolder, slips = 0, NEW w \in Worker, Holding(w)
             PROVE  jobs[worker[w].job].state = "running"
  BY DEF HoldersRun
<1>1. /\ worker[w].job \in Job /\ Live(worker[w].job)
      /\ Held[w] # NoRun /\ Held[w].job = worker[w].job
  BY HeldFacts, RunFacts DEF Holding, TInv, RunsExist
<1>2. JQP!Holds(w, worker[w].job) /\ JQP!Live(worker[w].job)
  BY <1>1, SameQueue, LiveInQueue DEF JQP!Holds
<1>3. QED  BY <1>1, <1>2 DEF JQP!SoleHolder

\* What the queue promises of a settled job, as an action.
QueueKeeps ==
    slips = 0 =>
        \A j \in Job : JQP!Live(j) /\ JQP!Settled(jobs[j]) =>
            \/ jobs'[j] \in {jobs[j], [jobs[j] EXCEPT !.due = TRUE], Removed}
            \/ JQP!OperatorRetry(j)

LEMMA QueueSettles == NoneCancelled => (Spec => [][QueueKeeps]_(JQP!vars))
<1> SUFFICES ASSUME NoneCancelled PROVE Spec => [][QueueKeeps]_(JQP!vars)
  OBVIOUS
<1>1. Spec => JQP!Spec
  BY QueueIsImplemented, SameQueue, PTL DEF ImplementsJobQueue, JQ!Spec, JQP!Spec
<1>2. JQP!Spec => JQP!SettledStays
  BY QueueAssumptions, JQP!SettledJobsStay
<1>3. JQP!SettledStays => [][QueueKeeps]_(JQP!vars)
  BY DEF JQP!SettledStays, QueueKeeps
<1>4. QED  BY <1>1, <1>2, <1>3, PTL

LEMMA SettledStay ==
    ASSUME TInv, JobsStep, [QueueKeeps]_(JQP!vars), slips = 0, operatorRetries = 0, operatorRetries' = 0,
           NEW j \in Job, Live(j), Settled(jobs[j])
    PROVE  Settled(jobs'[j])
  <1>1. JQP!Live(j) /\ JQP!Settled(jobs[j]) /\ jobs[j] \in Document
    BY SameQueue, LiveInQueue, JobExists DEF JQP!Settled, JQP!JobState, Settled, JobState, TInv
  <1>2. CASE UNCHANGED JQP!vars
    BY <1>2 DEF JQP!vars
  <1>3. CASE QueueKeeps
    <2>1. ~JQP!OperatorRetry(j)
      BY DEF JQP!OperatorRetry
    <2>2. jobs'[j] \in Document \cup {Unborn}
      BY DEF JobsStep
    <2>3. jobs'[j] \in {jobs[j], [jobs[j] EXCEPT !.due = TRUE]}
      BY <1>1, <1>3, <2>1, <2>2, SentinelAssumption DEF QueueKeeps
    <2>4. QED  BY <1>1, <2>3 DEF Settled, Document
  <1>4. QED  BY <1>2, <1>3

-----------------------------------------------------------------------------
(* One job at a time *)

First(s) == <<s, 0>>
Uploading(r) == At(r, "create") \/ At(r, "enqueue") \/ At(r, "markUnqueued")
Retrying(r) == At(r, "incrementRetry") \/ At(r, "requeue") \/ At(r, "resubmit")

\* The first job of a source is enqueued by the one handler that uploads it, and the job of an
\* attempt once the source counts that attempt.
AttemptsCounted ==
    /\ \A r \in Request : Uploading(r) => ~Live(First(request[r].source))
    /\ \A q, r \in Request :
          Uploading(q) /\ Uploading(r) /\ request[q].source = request[r].source => q = r
    /\ \A j \in Job : Live(j) => j[2] <= source[SourceOf(j)].retryCount
    /\ \A r \in Request :
          /\ At(r, "incrementRetry") => request[r].number <= source[request[r].source].retryCount + 1
          /\ At(r, "requeue") \/ At(r, "resubmit") =>
                request[r].number <= source[request[r].source].retryCount

\* Who uploads after a step was uploading before it, or begins with a source nobody knew.
LEMMA UploadsBegin ==
    ASSUME TInv, [Next]_vars, NEW r \in Request, request'[r] # NoRequest,
           request'[r].step \in {"create", "enqueue", "markUnqueued"}
    PROVE  \/ Uploading(r) /\ request'[r].source = request[r].source
           \/ UploadFile(r, request'[r].source) /\ request'[r].source \in Source
  <1>1. CASE request'[r] = request[r]
    BY <1>1 DEF Uploading, At
  <1>2. CASE request'[r] # request[r]
    BY <1>2, HandlerSteps DEF HandlerStep, Goes, Ends, Begins, Uploading
  <1>3. QED  BY <1>1, <1>2

LEMMA UploadsAreNew ==
    ASSUME TInv, NEW r \in Request, NEW s \in Source, UploadFile(r, s)
    PROVE  /\ source[s] = Absent /\ jobs' = jobs /\ (s \in FileSource => ~Live(First(s)))
           /\ \A q \in Request : q # r => request'[q] = request[q]
           /\ \A q \in Request : Uploading(q) => request[q].source # s
  <1>1. source[s] = Absent /\ s \notin stored /\ jobs' = jobs
    BY DEF UploadFile, Addable, Known
  <1>2. s \in FileSource => ~Live(First(s))
    BY <1>1, Bounds DEF First, TInv, RunsExist
  <1>3. \A q \in Request : q # r => request'[q] = request[q]
    BY DEF UploadFile, Begin, TInv, TypeInv
  <1>4. \A q \in Request : Uploading(q) => request[q].source # s
    BY <1>1 DEF Uploading, At, TInv, HandlersExist
  <1>5. QED  BY <1>1, <1>2, <1>3, <1>4

LEMMA RetryCounts ==
    ASSUME TInv, NEW s \in Source, source[s] # Absent
    PROVE  source[s].retryCount \in Nat /\ source[s].retryCount + 1 \in Nat
  BY SourceExists DEF TInv, SourceDocument

LEMMA AttemptsNext == TInv /\ AttemptsCounted /\ [Next]_vars => AttemptsCounted'
<1> SUFFICES ASSUME TInv, AttemptsCounted, [Next]_vars PROVE AttemptsCounted'
  OBVIOUS
<1>t. TInv' /\ SourcesStep /\ JobsStep
  BY TInvNext, SourcesNext, JobsNext
<1>g. \A s \in Source : source[s] # Absent =>
         /\ source'[s] # Absent /\ source[s].retryCount <= source'[s].retryCount
         /\ source[s].retryCount \in Nat /\ source'[s].retryCount \in Nat
  <2>1. ASSUME NEW s \in Source, source[s] # Absent
        PROVE  /\ source'[s] # Absent /\ source[s].retryCount <= source'[s].retryCount
               /\ source'[s] \in SourceDocument
    BY <1>t, <2>1 DEF SourcesStep, Written, Follows
  <2>2. QED  BY <2>1, RetryCounts DEF SourceDocument
<1>f. \A r \in Request : Uploading(r) \/ Retrying(r) =>
         request[r].source \in FileSource /\ request[r].source \in Source
  BY RequestFacts DEF Uploading, Retrying, At, FileSteps
<1>1. ASSUME NEW r \in Request, request'[r] # NoRequest,
             request'[r].step \in {"create", "enqueue", "markUnqueued"}
      PROVE  jobs'[First(request'[r].source)] = Unborn
  <2> DEFINE s == request'[r].source
  <2>1. CASE UploadFile(r, s) /\ s \in Source
    BY <2>1, UploadsAreNew DEF Live, UploadFile
  <2>2. CASE Uploading(r) /\ s = request[r].source
    <3>1. s \in FileSource /\ First(s) \in Job /\ ~Live(First(s))
      BY <1>f, <2>2, Bounds DEF AttemptsCounted, First
    <3>2. ~Enqueued(First(s))
      <4>1. ASSUME NEW q \in Request, EnqueueUpload(q), First(s) = <<request[q].source, 0>> PROVE FALSE
        <5>1. Uploading(q) /\ request[q].source = s
          BY <4>1 DEF EnqueueUpload, Uploading, First
        <5>2. q = r
          BY <2>2, <5>1 DEF AttemptsCounted
        <5>3. QED  BY <1>1, <4>1, <5>2, DoneFacts DEF EnqueueUpload
      <4>2. ASSUME NEW q \in Request, Resubmit(q), First(s) = <<request[q].source, request[q].number>> PROVE FALSE
        BY <4>2, RequestFacts, Bounds DEF Resubmit, At, RetrySteps, First
      <4>3. QED  BY <4>1, <4>2 DEF Enqueued
    <3>3. QED  BY <1>t, <3>1, <3>2 DEF JobsStep
  <2>3. QED  BY <1>1, <2>1, <2>2, UploadsBegin
<1>2. ASSUME NEW q \in Request, request'[q] # NoRequest,
             request'[q].step \in {"create", "enqueue", "markUnqueued"},
             NEW r \in Request, request'[r] # NoRequest,
             request'[r].step \in {"create", "enqueue", "markUnqueued"},
             request'[q].source = request'[r].source
      PROVE  q = r
  <2>1. CASE UploadFile(q, request'[q].source) /\ request'[q].source \in Source
    BY <1>2, <2>1, UploadsAreNew DEF Uploading, At
  <2>2. CASE UploadFile(r, request'[r].source) /\ request'[r].source \in Source
    BY <1>2, <2>2, UploadsAreNew DEF Uploading, At
  <2>3. CASE Uploading(q) /\ request'[q].source = request[q].source
                /\ Uploading(r) /\ request'[r].source = request[r].source
    BY <1>2, <2>3 DEF AttemptsCounted
  <2>4. QED  BY <1>2, <2>1, <2>2, <2>3, UploadsBegin
<1>3. ASSUME NEW j \in Job, jobs'[j] # Unborn PROVE j[2] <= source'[SourceOf(j)].retryCount
  <2>1. SourceOf(j) \in Source /\ j[2] \in Nat
    BY Bounds DEF Job, Source
  <2>2. CASE Live(j)
    <3>1. source[SourceOf(j)] # Absent /\ j[2] <= source[SourceOf(j)].retryCount
      BY <2>2 DEF AttemptsCounted, TInv, RunsExist
    <3>2. QED  BY <1>g, <2>1, <3>1
  <2>3. CASE ~Live(j)
    <3>1. Enqueued(j) /\ source[SourceOf(j)] # Absent
      BY <1>t, <1>3, <2>3 DEF JobsStep
    <3>2. j[2] <= source[SourceOf(j)].retryCount
      BY <1>g, <2>1, <3>1 DEF Enqueued, Resubmit, AttemptsCounted, SourceOf
    <3>3. QED  BY <1>g, <2>1, <3>1, <3>2
  <2>4. QED  BY <2>2, <2>3
<1>4. ASSUME NEW r \in Request, request'[r] # NoRequest
      PROVE  /\ request'[r].step = "incrementRetry" =>
                   request'[r].number <= source'[request'[r].source].retryCount + 1
             /\ request'[r].step \in {"requeue", "resubmit"} =>
                   request'[r].number <= source'[request'[r].source].retryCount
  <2>1. CASE request'[r] = request[r]
    <3>1. request[r] # NoRequest /\ request[r].source \in Source /\ request[r].number \in Nat
          /\ (request[r].step \in RetrySteps => source[request[r].source] # Absent)
      BY <1>4, <2>1, RequestFacts DEF RetrySteps
    <3>2. QED  BY <1>g, <2>1, <3>1 DEF AttemptsCounted, At, RetrySteps
  <2>2. CASE request'[r] # request[r]
    <3>1. HandlerStep(r)
      BY <2>2, HandlerSteps
    <3>2. CASE Requeue(r) /\ Goes(r, "requeue", "resubmit")
      <4>1. request[r].source \in Source /\ source[request[r].source] # Absent /\ request[r].number \in Nat
        BY <3>2, RequestFacts DEF Goes, At
      <4>2. QED  BY <1>g, <3>2, <4>1 DEF Goes, AttemptsCounted
    <3>3. CASE IncrementRetry(r) /\ Goes(r, "incrementRetry", "requeue")
      <4>1. /\ request[r].source \in Source /\ source[request[r].source] \in SourceDocument
            /\ request[r].number <= source[request[r].source].retryCount + 1
        BY <3>3, RequestFacts DEF Goes, At, AttemptsCounted
      <4>2. source'[request[r].source].retryCount = source[request[r].source].retryCount + 1
        BY <3>3, <4>1, ReviewedFacts DEF IncrementRetry, TInv, TypeInv
      <4>3. QED  BY <3>3, <4>1, <4>2 DEF Goes
    <3>4. ASSUME NEW s \in Source, Retry(r, s), Begins(r, s, "incrementRetry"),
                 request'[r].number = source[s].retryCount + 1
          PROVE  /\ request'[r].step = "incrementRetry" /\ request'[r].source = s
                 /\ request'[r].number <= source'[s].retryCount + 1
      BY <1>g, <3>4 DEF Begins, Retry, Found
    <3>5. QED  BY <1>4, <3>1, <3>2, <3>3, <3>4 DEF HandlerStep, Goes, Ends, Begins
  <2>3. QED  BY <2>1, <2>2
<1>5. QED
  BY <1>1, <1>2, <1>3, <1>4 DEF AttemptsCounted, Uploading, At, Live

\* A source is over once its first job is, and nobody is uploading it any more.
Over(s) ==
    /\ ~Live(First(s)) \/ Settled(jobs[First(s)])
    /\ \A r \in Request : Uploading(r) => request[r].source # s

\* A source that has failed, or that somebody is retrying or has retried.
Tired(s) ==
    \/ source[s].status = "FAILED" \/ source[s].retryCount >= 1
    \/ \E r \in Request : Retrying(r) /\ request[r].source = s

\* What makes the retries of a source wait for its first job: fail settles the job before
\* handleFailure marks the source.
RetriesWait ==
    slips = 0 /\ operatorRetries = 0 =>
        /\ \A s \in FileSource : source[s] # Absent /\ Tired(s) => Over(s)
        /\ \A w \in Worker :
              Doing(w, "markFailed") \/ Doing(w, "markCancelled") => Settled(jobs[worker[w].job])

\* The same of the next state.
OverThen(s) ==
    /\ jobs'[First(s)] = Unborn \/ Settled(jobs'[First(s)])
    /\ \A r \in Request :
          request'[r] # NoRequest /\ request'[r].step \in {"create", "enqueue", "markUnqueued"} =>
             request'[r].source # s

LEMMA StaysOver ==
    ASSUME TInv, [Next]_vars, [QueueKeeps]_(JQP!vars),
           slips = 0, operatorRetries = 0, operatorRetries' = 0,
           NEW s \in FileSource, source[s] # Absent, Over(s)
    PROVE  OverThen(s)
  <1>0. JobsStep /\ First(s) \in Job /\ s \in Source
    BY JobsNext, Bounds DEF First
  <1>1. jobs'[First(s)] = Unborn \/ Settled(jobs'[First(s)])
    <2>1. CASE Live(First(s))
      BY <1>0, <2>1, SettledStay DEF Over
    <2>2. CASE ~Live(First(s))
      <3>1. ASSUME NEW q \in Request, EnqueueUpload(q), First(s) = <<request[q].source, 0>> PROVE FALSE
        BY <3>1 DEF EnqueueUpload, Uploading, First, Over
      <3>2. ASSUME NEW q \in Request, Resubmit(q), First(s) = <<request[q].source, request[q].number>> PROVE FALSE
        BY <3>2, RequestFacts, Bounds DEF Resubmit, At, RetrySteps, First
      <3>3. QED  BY <1>0, <2>2, <3>1, <3>2 DEF Enqueued, JobsStep
    <2>3. QED  BY <2>1, <2>2
  <1>2. ASSUME NEW r \in Request, request'[r] # NoRequest,
               request'[r].step \in {"create", "enqueue", "markUnqueued"}
        PROVE  request'[r].source # s
    BY <1>2, UploadsBegin, UploadsAreNew DEF Over
  <1>3. QED  BY <1>1, <1>2 DEF OverThen

\* Who marks a source failed leaves it over.
LEMMA FailingLeavesOver ==
    ASSUME TInv, AttemptsCounted, RetriesWait, [Next]_vars, slips = 0, operatorRetries = 0,
           NEW s \in FileSource, source[s] # Absent, Failing(s)
    PROVE  \/ Over(s)
           \/ OverThen(s)
  <1>1. ASSUME NEW w \in Worker, MarkFailed(w) \/ MarkCancelled(w), s = SourceAt(w) PROVE Over(s)
    <2> DEFINE j == worker[w].job
    <2>1. /\ worker[w] # NoRun /\ j \in Job /\ Live(j) /\ Settled(jobs[j])
          /\ j[1] = s /\ j[2] \in Nat /\ j = <<s, j[2]>>
      BY <1>1, RunFacts
         DEF MarkFailed, MarkCancelled, Doing, RetriesWait, TInv, RunsExist, SourceAt, SourceOf, Job
    <2>2. CASE j[2] = 0
      <3>1. First(s) = j
        BY <2>1, <2>2 DEF First
      <3>2. QED  BY <2>1, <3>1 DEF Over, AttemptsCounted
    <2>3. CASE j[2] # 0
      <3>1. source[s].retryCount >= 1
        <4>1. j[2] <= source[s].retryCount /\ source[s].retryCount \in Nat
          BY <2>1, RetryCounts, Bounds DEF AttemptsCounted, SourceOf
        <4>2. QED  BY <2>1, <2>3, <4>1
      <3>2. QED  BY <3>1 DEF RetriesWait, Tired
    <2>4. QED  BY <2>2, <2>3
  <1>2. ASSUME NEW r \in Request, MarkUnqueued(r), s = request[r].source PROVE OverThen(s)
    <2>1. Uploading(r) /\ jobs' = jobs /\ Done(r)
      BY <1>2 DEF MarkUnqueued, Uploading
    <2>2. ~Live(First(s)) /\ \A q \in Request : q # r /\ Uploading(q) => request[q].source # s
      BY <1>2, <2>1 DEF AttemptsCounted
    <2>3. request'[r] = NoRequest /\ \A q \in Request : q # r => request'[q] = request[q]
      BY <2>1 DEF Done, TInv, TypeInv
    <2>4. QED  BY <2>1, <2>2, <2>3 DEF OverThen, Live, Uploading, At
  <1>3. QED  BY <1>1, <1>2 DEF Failing

LEMMA RetriesNext ==
    TInv /\ AttemptsCounted /\ RetriesWait /\ [Next]_vars /\ [QueueKeeps]_(JQP!vars) => RetriesWait'
<1> SUFFICES ASSUME TInv, AttemptsCounted, RetriesWait, [Next]_vars, [QueueKeeps]_(JQP!vars),
                    slips' = 0, operatorRetries' = 0
             PROVE  /\ \A s \in FileSource : source'[s] # Absent /\ Tired(s)' => OverThen(s)
                    /\ \A w \in Worker :
                          worker'[w] # NoRun /\ worker'[w].step \in {"markFailed", "markCancelled"} =>
                             Settled(jobs'[worker'[w].job])
  BY DEF RetriesWait, Over, OverThen, Live, Uploading, At, Doing
<1>0. slips = 0 /\ operatorRetries = 0
  BY CountersNext DEF CountersStep, Counted, TInv, TypeInv
<1>t. TInv' /\ SourcesStep /\ JobsStep
  BY TInvNext, SourcesNext, JobsNext
<1>1. ASSUME NEW s \in FileSource, source'[s] # Absent, Tired(s)' PROVE OverThen(s)
  <2>0. s \in Source
    BY Bounds
  <2>a. CASE source[s] = Absent
    <3>1. Born(s, source'[s])
      BY <1>1, <1>t, <2>0, <2>a DEF SourcesStep
    <3>2. PICK r \in Request : request'[r] # NoRequest /\ request'[r].source = s /\ Retrying(r)'
      BY <1>1, <3>1 DEF Born, Tired, Retrying, At
    <3>3. ~Retrying(r) \/ request[r].source # s
      BY <2>a, RequestFacts DEF Retrying, At
    <3>4. CASE request'[r] = request[r]
      BY <3>2, <3>3, <3>4 DEF Retrying, At
    <3>5. CASE request'[r] # request[r]
      <4>1. Retry(r, s)
        BY <3>2, <3>3, <3>5, HandlerSteps DEF HandlerStep, Goes, Ends, Begins, Retrying, At
      <4>2. QED  BY <2>a, <4>1 DEF Retry, Found
    <3>6. QED  BY <3>4, <3>5
  <2>b. CASE source[s] # Absent
    <3>1. ASSUME Over(s) PROVE OverThen(s)
      BY <1>0, <2>b, <3>1, StaysOver
    <3>2. ASSUME Tired(s) PROVE OverThen(s)
      BY <1>0, <2>b, <3>1, <3>2 DEF RetriesWait
    <3>3. Written(s, source'[s])
      BY <1>t, <2>0, <2>b DEF SourcesStep
    <3>4. CASE source'[s].status = "FAILED"
      <4>1. source[s].status = "FAILED" \/ Failing(s)
        BY <3>3, <3>4 DEF Written
      <4>2. QED  BY <1>0, <2>b, <3>1, <3>2, <4>1, FailingLeavesOver DEF Tired
    <3>5. CASE source'[s].retryCount >= 1
      <4>1. source'[s].retryCount = source[s].retryCount
            \/ \E r \in Request : IncrementRetry(r) /\ s = request[r].source
        BY <3>3 DEF Written
      <4>2. QED  BY <3>2, <3>5, <4>1 DEF Tired, IncrementRetry, Retrying
    <3>6. ASSUME NEW r \in Request, request'[r] # NoRequest, request'[r].source = s, Retrying(r)'
          PROVE  OverThen(s)
      <4>1. CASE request'[r] = request[r]
        BY <3>2, <3>6, <4>1 DEF Tired, Retrying, At
      <4>2. CASE request'[r] # request[r]
        <5>1. Retry(r, s) \/ (Retrying(r) /\ request[r].source = s)
          BY <3>6, <4>2, HandlerSteps DEF HandlerStep, Goes, Ends, Begins, Retrying, At
        <5>2. Tired(s)
          BY <5>1 DEF Tired, Retry
        <5>3. QED  BY <3>2, <5>2
      <4>3. QED  BY <4>1, <4>2
    <3>7. QED  BY <1>1, <3>4, <3>5, <3>6 DEF Tired, Retrying, At
  <2>c. QED  BY <2>a, <2>b
<1>2. ASSUME NEW w \in Worker, worker'[w] # NoRun, worker'[w].step \in {"markFailed", "markCancelled"}
      PROVE  Settled(jobs'[worker'[w].job])
  <2>1. CASE worker'[w] = worker[w]
    <3>1. worker[w].job \in Job /\ Live(worker[w].job) /\ Settled(jobs[worker[w].job])
      BY <1>0, <1>2, <2>1, RunFacts DEF RetriesWait, Doing, TInv, RunsExist
    <3>2. QED  BY <1>0, <1>t, <2>1, <3>1, SettledStay
  <2>2. CASE worker'[w] # worker[w]
    <3>1. \/ FailWrite(w) /\ Runs(w, "failWrite", "markFailed")
          \/ CancelRun(w) /\ Runs(w, "cancelRun", "markCancelled")
      BY <1>2, <2>2, RunSteps DEF RunStep, Runs, Leaves, Takes
    <3>2. worker[w] # NoRun /\ worker[w].job \in Job /\ jobs[worker[w].job] \in Document
          /\ worker'[w].job = worker[w].job
      BY <3>1, RunFacts DEF Runs, Doing
    <3>3. CASE CancelRun(w)
      BY <3>2, <3>3 DEF CancelRun, WriteJob, Cancelled, Released, Settled, JobState, Document, TInv, TypeInv
    <3>4. CASE FailWrite(w) /\ Runs(w, "failWrite", "markFailed")
      <4> DEFINE d == Disposition(worker[w].read, worker[w].failure.retryable)
      <4>1. d # "queued" /\ WriteJob(worker[w].job, Failed(jobs[worker[w].job], d))
        <5>1. d = "queued" => Then(w, "markQueued")
          BY <3>4 DEF FailWrite
        <5>2. Then(w, "markQueued") => worker'[w].step = "markQueued"
          BY <3>2, ThenFacts DEF WorkerStep
        <5>3. QED  BY <3>4, <5>1, <5>2 DEF FailWrite, Runs
      <4>2. d \in {"failed", "dead_letter"}
        BY <4>1 DEF Disposition
      <4> HIDE DEF d
      <4>3. QED  BY <3>2, <4>1, <4>2 DEF WriteJob, Failed, Released, Settled, JobState, Document, TInv, TypeInv
    <3>5. QED  BY <3>1, <3>3, <3>4
  <2>3. QED  BY <2>1, <2>2
<1>3. QED  BY <1>1, <1>2

LEMMA OneActive == TInv /\ AttemptsCounted /\ RetriesWait => OneActiveJob
<1> SUFFICES ASSUME TInv, AttemptsCounted, RetriesWait, slips = 0, operatorRetries = 0,
                    NEW s \in Source, source[s] # Absent, source[s].retryCount <= 1,
                    NEW i \in Active(s), NEW j \in Active(s)
             PROVE  i = j
  BY DEF OneActiveJob
<1>1. ASSUME NEW k \in Active(s)
      PROVE  /\ s \in FileSource /\ Live(k) /\ ~Settled(jobs[k])
             /\ k = First(s) \/ (k = <<s, 1>> /\ source[s].retryCount >= 1)
  <2>1. k \in Job /\ k = <<s, k[2]>> /\ s \in FileSource /\ k[2] \in Nat /\ Live(k) /\ ~Settled(jobs[k])
    BY Bounds DEF Active, Job, SourceOf
  <2>2. k[2] <= source[s].retryCount /\ source[s].retryCount \in Nat
    BY <2>1, RetryCounts DEF AttemptsCounted, Active
  <2>3. k[2] = 0 \/ (k[2] = 1 /\ source[s].retryCount >= 1)
    BY <2>1, <2>2
  <2>4. QED  BY <2>1, <2>3 DEF First
<1>2. source[s].retryCount >= 1 /\ s \in FileSource => ~Live(First(s)) \/ Settled(jobs[First(s)])
  BY DEF RetriesWait, Tired, Over
<1>3. QED  BY <1>1, <1>2

\* As long as no claim times out over a living worker and no operator forces a retry, a source
\* retried at most once never has two jobs to run, however its handlers overlap and whatever
\* dies: its first job is over before anybody can retry it.
THEOREM OneJobAtATime == NoneCancelled => (Spec => []OneActiveJob)
<1> SUFFICES ASSUME NoneCancelled PROVE Spec => []OneActiveJob
  OBVIOUS
<1>1. Spec => [][QueueKeeps]_(JQP!vars)
  BY QueueSettles
<1>2. Init => AttemptsCounted
  BY DEF Init, AttemptsCounted, Uploading, At, Live
<1>3. Init => RetriesWait
  BY Bounds DEF Init, RetriesWait, Doing
<1>4. QED
  BY <1>1, <1>2, <1>3, TInvInit, TInvNext, AttemptsNext, RetriesNext, OneActive, PTL DEF Spec


-----------------------------------------------------------------------------
(* What is shown is there: who writes to a source and its revisions *)

\* The numbers a source gives out: to whoever extracts and corrects it, and of a pasted text
\* to whoever restores it too. A file can be restored while it is being read, under a number
\* that its publication then gives out again.
Numbering(s, origin) == s \in TextSource \/ origin # "RESTORE"
Pointing == {"find", "revise", "rewrite"}

\* What handlers are about and have read, and what is stored before there is a source.
Fit(h) ==
    /\ h.step \in {"rewrite", "counters"} => h.source \in TextSource
    /\ h.step = "append" /\ h.origin = "EXTRACTION" => h.source \in TextSource /\ h.number = 0
    /\ h.step \in Pointing => h.origin # "EXTRACTION" /\ h.version <= source[h.source].version
HandlersFit ==
    /\ \A s \in Source : source[s] = Absent => content[s] = {}
    /\ \A s \in Source : \A x \in content[s] : x.origin = "EXTRACTION" => x.number = 0
    /\ \A r \in Request : request[r] # NoRequest => Fit(request[r])

\* What a step does to the record of a source that exists.
Keeps(s) ==
    /\ source'[s].currentRevision = source[s].currentRevision
    /\ source'[s].revisionCount = source[s].revisionCount
    /\ source[s].version <= source'[s].version
Points(r, s) ==
    /\ PointAtRevision(r) /\ request[r].source = s /\ request[r].version = source[s].version
    /\ source'[s].currentRevision = request[r].number
    /\ source'[s].revisionCount = request[r].number + 1
    /\ source'[s].version = source[s].version + 1
    /\ source'[s].status = source[s].status \/ At(r, "rewrite")
Publishes(w, s) ==
    /\ Publish(w) /\ SourceAt(w) = s
    /\ source'[s].currentRevision = 0 /\ source'[s].revisionCount = 1
    /\ source'[s].version = source[s].version
    /\ HasExtractedContent(source'[s].status)
Shows(s) ==
    HasExtractedContent(source'[s].status) =>
        \/ HasExtractedContent(source[s].status)
        \/ \E r \in Request : (WriteReviewed(r) \/ CountText(r)) /\ request[r].source = s
SourceMoves(s) ==
    \/ Keeps(s) /\ Shows(s)
    \/ \E r \in Request : Points(r, s)
    \/ \E w \in Worker : Publishes(w, s)

LEMMA SourceChange ==
    ASSUME [Next]_vars, source' # source
    PROVE  \/ \E r \in Request :
                 \/ CreateFileSource(r) \/ MarkUnqueued(r) \/ Requeue(r) \/ IncrementRetry(r)
                 \/ PointAtRevision(r) \/ CountText(r) \/ WriteReviewed(r)
                 \/ \E t \in Source : AddTextSource(r, t) \/ DeleteSource(r, t)
           \/ \E w \in Worker :
                 \/ BeginExtracting(w) \/ Convert(w) \/ BeginOcr(w) \/ MarkQueued(w) \/ Publish(w)
                 \/ MarkFailed(w) \/ MarkCancelled(w)
<1>1. ASSUME NEW r \in Request, Ask(r) PROVE \E t \in Source : AddTextSource(r, t) \/ DeleteSource(r, t)
  BY <1>1 DEF Ask, UploadFile, UpdateTextSource, CorrectContent, RestoreOriginal, MarkReviewed, Retry
<1>2. ASSUME NEW r \in Request, Handle(r)
      PROVE  \/ CreateFileSource(r) \/ MarkUnqueued(r) \/ Requeue(r) \/ IncrementRetry(r)
             \/ PointAtRevision(r) \/ CountText(r) \/ WriteReviewed(r)
  BY <1>2 DEF Handle, EnqueueUpload, EnqueueUploadFails, FindRevision, VersionConflict, AppendRevision,
              EraseBytes, Resubmit
<1>3. ASSUME NEW w \in Worker, Process(w)
      PROVE  \/ BeginExtracting(w) \/ Convert(w) \/ BeginOcr(w) \/ MarkQueued(w) \/ Publish(w)
             \/ MarkFailed(w) \/ MarkCancelled(w)
  BY <1>3 DEF Process, LookUp, CancelGone, FetchBytes, Extract, CheckCancelled, CancelRun,
              DropRevisions, StoreRevision, Complete, FailRead, FailWrite
<1>4. ASSUME NEW w \in Worker, Claim(w) \/ Extraction(w) \/ Stumble(w) \/ WorkerDies(w)
      PROVE  FALSE
  BY <1>4 DEF Claim, ClaimNext, Extraction, ReportProgress, LateProgress, RunawayEnds, Stumble, WorkerDies
<1>5. ASSUME NEW j \in Job, JobStep(j) PROVE FALSE
  BY <1>5 DEF JobStep, OperatorRetry, RequestCancellation, ClaimExpires, ClaimSlips, Expire, BackoffEnds
<1>6. ASSUME NEW r \in Request, Abort(r) PROVE FALSE
  BY <1>6 DEF Abort
<1>7. ~UNCHANGED vars
  BY DEF vars
<1>8. QED  BY <1>1, <1>2, <1>3, <1>4, <1>5, <1>6, <1>7 DEF Next

LEMMA PointMoves ==
    ASSUME TInv, NEW r \in Request, PointAtRevision(r)
    PROVE  /\ Points(r, request[r].source) /\ request[r].source \in Source /\ content' = content
           /\ At(r, "revise") \/ At(r, "rewrite")
           /\ \A t \in Source : t # request[r].source => source'[t] = source[t]
           /\ \A q \in Request : q # r => request'[q] = request[q]
           /\ request'[r] # NoRequest /\ request'[r].step = "append"
           /\ request'[r].source = request[r].source /\ request'[r].number = request[r].number
           /\ request'[r].origin = request[r].origin
<1> DEFINE t == request[r].source
<1>1. /\ t \in Source /\ source[t] \in SourceDocument /\ source[t] # Absent /\ request[r].number \in Nat
      /\ request[r] # NoRequest /\ (At(r, "revise") \/ At(r, "rewrite"))
  BY RequestFacts DEF PointAtRevision, At
<1>2. PICK d : /\ WriteSource(t, d) /\ source[t].version = request[r].version
               /\ \/ d = Revised(source[t], request[r].number)
                  \/ d = Rewritten(source[t], request[r].number) /\ At(r, "rewrite")
  BY DEF PointAtRevision, UpdateWithVersion
<1>3. /\ d.currentRevision = request[r].number /\ d.revisionCount = request[r].number + 1
      /\ d.version = source[t].version + 1 /\ (d.status = source[t].status \/ At(r, "rewrite"))
  BY <1>1, <1>2, RevisedFacts
<1>4. source'[t] = d /\ \A u \in Source : u # t => source'[u] = source[u]
  BY <1>1, <1>2 DEF WriteSource, TInv, TypeInv
<1>5. Points(r, t)
  BY <1>2, <1>3, <1>4 DEF Points
<1>6. content' = content /\ Goto(r, "append") /\ "append" \in RequestStep
  BY DEF PointAtRevision, RequestStep
<1>7. QED  BY <1>1, <1>4, <1>5, <1>6, GotoFacts

LEMMA SourceMovesNext ==
    ASSUME TInv, [Next]_vars, NEW s \in Source, source[s] # Absent
    PROVE  SourceMoves(s)
<1>0. source[s] \in SourceDocument /\ source[s].version \in Nat
  BY SourceExists, SourceFields DEF TInv
<1>u. ASSUME source'[s] = source[s] PROVE SourceMoves(s)
  BY <1>0, <1>u DEF SourceMoves, Keeps, Shows
\* A write that moves no revision.
<1>k. ASSUME NEW t \in Source, NEW d, WriteSource(t, d),
             t = s => /\ d.currentRevision = source[s].currentRevision
                      /\ d.revisionCount = source[s].revisionCount
                      /\ d.version = source[s].version \/ d.version = source[s].version + 1
                      /\ HasExtractedContent(d.status) =>
                            \/ HasExtractedContent(source[s].status)
                            \/ \E r \in Request : (WriteReviewed(r) \/ CountText(r)) /\ request[r].source = s
      PROVE  SourceMoves(s)
  <2>1. source' = [source EXCEPT ![t] = d] /\ source \in [Source -> SourceDocument \cup {Absent}]
    BY <1>k DEF WriteSource, TInv, TypeInv
  <2>2. CASE t # s
    BY <1>u, <2>1, <2>2
  <2>3. CASE t = s
    <3>1. source'[s] = d
      BY <2>1, <2>3
    <3>2. Keeps(s)
      BY <1>0, <1>k, <2>3, <3>1 DEF Keeps
    <3>3. Shows(s)
      BY <1>k, <2>3, <3>1 DEF Shows
    <3>4. QED  BY <3>2, <3>3 DEF SourceMoves
  <2>4. QED  BY <2>2, <2>3
<1>s. /\ SourceStatus = {"QUEUED", "EXTRACTING", "OCR_PROCESSING", "REVIEW_REQUIRED", "READY", "FAILED", "DELETED"}
      /\ \A status \in {"QUEUED", "EXTRACTING", "OCR_PROCESSING", "FAILED", "DELETED"} : ~HasExtractedContent(status)
  BY DEF SourceStatus, HasExtractedContent
<1>c. "QUEUE_FAILURE" \in FailureCode /\ "EXTRACTION_FAILED" \in FailureCode
  BY DEF FailureCode
<1>1. ASSUME NEW r \in Request, NEW t \in Source, AddTextSource(r, t) PROVE SourceMoves(s)
  BY <1>1, <1>k DEF AddTextSource, Addable, Known
<1>2. ASSUME NEW r \in Request, CreateFileSource(r) PROVE SourceMoves(s)
  <2>1. request[r].source \in Source /\ source[request[r].source] = Absent
    BY <1>2, RequestFacts DEF CreateFileSource, At
  <2>2. QED  BY <1>2, <1>k, <2>1 DEF CreateFileSource
<1>3. ASSUME NEW r \in Request, MarkUnqueued(r) \/ Requeue(r) \/ IncrementRetry(r) PROVE SourceMoves(s)
  <2> DEFINE t == request[r].source
             d(e) == [e EXCEPT !.retryCount = @ + 1]
  <2>1. t \in Source /\ source[t] \in SourceDocument /\ source[t] # Absent
    BY <1>3, RequestFacts DEF MarkUnqueued, Requeue, IncrementRetry, At
  <2>2. \/ WriteSource(t, FailedWith(source[t], "QUEUE_FAILURE")) \/ WriteSource(t, QueuedAgain(source[t]))
        \/ WriteSource(t, d(source[t]))
    BY <1>3, <2>1 DEF MarkUnqueued, Requeue, IncrementRetry, WriteSource, TInv, TypeInv
  <2>3. /\ d(source[t]).currentRevision = source[t].currentRevision /\ d(source[t]).version = source[t].version
        /\ d(source[t]).revisionCount = source[t].revisionCount /\ d(source[t]).status = source[t].status
    BY <2>1, ReviewedFacts
  <2> HIDE DEF d
  <2>4. QED  BY <1>k, <1>s, <1>c, <2>1, <2>2, <2>3, MarkedFacts
<1>4. ASSUME NEW r \in Request, PointAtRevision(r) PROVE SourceMoves(s)
  BY <1>4, <1>u, PointMoves DEF SourceMoves
<1>5. ASSUME NEW r \in Request, CountText(r) \/ WriteReviewed(r) PROVE SourceMoves(s)
  <2> DEFINE t == request[r].source
  <2>1. t \in Source /\ source[t] \in SourceDocument /\ source[t] # Absent
    BY <1>5, RequestFacts DEF CountText, WriteReviewed, At
  <2>2. WriteSource(t, Moved(source[t], "REVIEW_REQUIRED")) \/ WriteSource(t, Reviewed(source[t]))
    BY <1>5 DEF CountText, WriteReviewed, UpdateWithVersion
  <2>3. PICK d : /\ d \in {Moved(source[t], "REVIEW_REQUIRED"), Reviewed(source[t])} /\ WriteSource(t, d)
    BY <2>2
  <2>a. /\ d.currentRevision = source[t].currentRevision /\ d.revisionCount = source[t].revisionCount
        /\ d.version = source[t].version \/ d.version = source[t].version + 1
    <3>1. CASE d = Moved(source[t], "REVIEW_REQUIRED")
      BY <1>s, <2>1, <3>1, MovedFacts
    <3>2. CASE d = Reviewed(source[t])
      BY <2>1, <3>2, ReviewedFacts
    <3>3. QED  BY <2>3, <3>1, <3>2
  <2>4. t = s => \E q \in Request : (WriteReviewed(q) \/ CountText(q)) /\ request[q].source = s
    BY <1>5
  <2> HIDE DEF t
  <2>5. QED  BY <1>k, <2>1, <2>3, <2>a, <2>4
<1>6. ASSUME NEW r \in Request, NEW t \in Source, DeleteSource(r, t) PROVE SourceMoves(s)
  <2>1. source[t] \in SourceDocument /\ WriteSource(t, SoftDeleted(source[t]))
    BY <1>6, SourceExists DEF DeleteSource, Found, TInv
  <2> DEFINE d == SoftDeleted(source[t])
  <2>2. /\ d.currentRevision = source[t].currentRevision /\ d.revisionCount = source[t].revisionCount
        /\ d.version = source[t].version + 1 /\ d.status = "DELETED" /\ WriteSource(t, d)
    BY <2>1, ReviewedFacts
  <2> HIDE DEF d
  <2>3. QED  BY <1>k, <1>s, <2>2
<1>7. ASSUME NEW w \in Worker, BeginExtracting(w) \/ Convert(w) \/ BeginOcr(w) \/ MarkQueued(w) PROVE SourceMoves(s)
  <2>1. SourceAt(w) \in Source /\ source[SourceAt(w)] \in SourceDocument
    BY <1>7, RunFacts DEF BeginExtracting, Convert, BeginOcr, MarkQueued, Move, Doing
  <2>2. \/ source' = source
        \/ \E status \in {"EXTRACTING", "OCR_PROCESSING", "QUEUED"} :
              WriteSource(SourceAt(w), Moved(source[SourceAt(w)], status))
    BY <1>7 DEF BeginExtracting, Convert, BeginOcr, MarkQueued, Move
  <2>3. QED  BY <1>u, <1>k, <1>s, <2>1, <2>2, MovedFacts
<1>8. ASSUME NEW w \in Worker, Publish(w) PROVE SourceMoves(s)
  <2> DEFINE t == SourceAt(w)
  <2>1. t \in Source /\ source[t] \in SourceDocument
    BY <1>8, RunFacts DEF Publish, Doing
  <2>2. PICK status \in {"REVIEW_REQUIRED", "READY"} : WriteSource(t, Published(source[t], status))
    BY <1>8 DEF Publish, Move
  <2> DEFINE d == Published(source[t], status)
  <2>3. /\ d.currentRevision = 0 /\ d.revisionCount = 1 /\ d.version = source[t].version
        /\ HasExtractedContent(d.status)
    BY <1>s, <2>1, PublishedFacts DEF HasExtractedContent
  <2>4. source' = [source EXCEPT ![t] = d] /\ source \in [Source -> SourceDocument \cup {Absent}]
    BY <2>2 DEF WriteSource, TInv, TypeInv
  <2> HIDE DEF d
  <2>5. CASE t # s
    BY <1>u, <2>4, <2>5
  <2>6. CASE t = s
    BY <1>8, <2>3, <2>4, <2>6 DEF SourceMoves, Publishes
  <2>7. QED  BY <2>5, <2>6
<1>9. ASSUME NEW w \in Worker, MarkFailed(w) \/ MarkCancelled(w) PROVE SourceMoves(s)
  <2>1. /\ SourceAt(w) \in Source /\ source[SourceAt(w)] \in SourceDocument
        /\ worker[w].failure.code \in FailureCode
    BY <1>9, RunFacts DEF MarkFailed, MarkCancelled, Doing
  <2>2. PICK code \in FailureCode : WriteSource(SourceAt(w), FailedWith(source[SourceAt(w)], code))
    BY <1>9, <1>c, <2>1 DEF MarkFailed, MarkCancelled
  <2>3. QED  BY <1>k, <1>s, <2>1, <2>2, MarkedFacts
<1>10. CASE source' = source
  BY <1>u, <1>10
<1>11. ASSUME source' # source
       PROVE  \/ \E r \in Request :
                    \/ CreateFileSource(r) \/ MarkUnqueued(r) \/ Requeue(r) \/ IncrementRetry(r)
                    \/ PointAtRevision(r) \/ CountText(r) \/ WriteReviewed(r)
                    \/ \E t \in Source : AddTextSource(r, t) \/ DeleteSource(r, t)
              \/ \E w \in Worker :
                    \/ BeginExtracting(w) \/ Convert(w) \/ BeginOcr(w) \/ MarkQueued(w) \/ Publish(w)
                    \/ MarkFailed(w) \/ MarkCancelled(w)
  BY <1>11, SourceChange
<1>12. QED
  BY <1>1, <1>2, <1>3, <1>4, <1>5, <1>6, <1>7, <1>8, <1>9, <1>10, <1>11

\* What it does to the revisions of a source.
Gains(s, number, origin) ==
    /\ content[s] \subseteq content'[s] /\ HasRevision(content'[s], number)
    /\ \A x \in content'[s] : x \in content[s] \/ (x.number = number /\ x.origin = origin)
ContentMoves(s) ==
    \/ content'[s] = content[s]
    \/ \E r \in Request :
          AppendRevision(r) /\ request[r].source = s /\ Gains(s, request[r].number, request[r].origin)
    \/ \E w \in Worker : StoreRevision(w) /\ SourceAt(w) = s /\ Gains(s, 0, "EXTRACTION")
    \/ \E w \in Worker : DropRevisions(w) /\ SourceAt(w) = s /\ content'[s] = {}

LEMMA AddedGains ==
    ASSUME TInv, NEW s \in Source, NEW n \in Nat, NEW o \in Origin, AddRevision(s, n, o)
    PROVE  Gains(s, n, o) /\ \A t \in Source : t # s => content'[t] = content[t]
<1> DEFINE revision == [number |-> n, origin |-> o]
<1>1. revision.number = n /\ revision.origin = o
  OBVIOUS
<1>2. content'[s] = content[s] \cup {revision} /\ \A t \in Source : t # s => content'[t] = content[t]
  BY Appended
<1> HIDE DEF revision
<1>3. QED  BY <1>1, <1>2 DEF Gains, HasRevision

LEMMA AppendGives ==
    ASSUME TInv, NEW r \in Request, AppendRevision(r)
    PROVE  /\ request[r].source \in Source /\ source' = source /\ At(r, "append")
           /\ \A q \in Request : q # r => request'[q] = request[q]
           /\ request'[r] = NoRequest \/ (request[r].origin = "EXTRACTION" /\ Goes(r, "append", "counters"))
           /\ HasRevision(content'[request[r].source], request[r].number)
           /\ \A s \in Source : ContentMoves(s)
<1> DEFINE t == request[r].source
           n == request[r].number
           o == request[r].origin
<1>1. /\ t \in Source /\ n \in Nat /\ o \in Origin /\ source' = source /\ At(r, "append")
      /\ request[r] # NoRequest
  BY RequestFacts DEF AppendRevision, At
<1>2. CASE HasRevision(content[t], n)
  <2>1. content' = content /\ Done(r)
    BY <1>2 DEF AppendRevision
  <2>2. QED  BY <1>1, <1>2, <2>1, DoneFacts DEF ContentMoves
<1>3. CASE ~HasRevision(content[t], n)
  <2>1. AddRevision(t, n, o) /\ (Done(r) \/ (o = "EXTRACTION" /\ Goto(r, "counters")))
    BY <1>3 DEF AppendRevision
  <2>2. Gains(t, n, o) /\ \A s \in Source : s # t => content'[s] = content[s]
    BY <1>1, <2>1, AddedGains
  <2>3. /\ \A q \in Request : q # r => request'[q] = request[q]
        /\ request'[r] = NoRequest \/ (o = "EXTRACTION" /\ Goes(r, "append", "counters"))
    BY <1>1, <2>1, DoneFacts, GotoFacts DEF Goes, RequestStep
  <2>4. QED  BY <1>1, <2>2, <2>3 DEF ContentMoves, Gains
<1>4. QED  BY <1>2, <1>3

LEMMA ContentMovesNext ==
    ASSUME TInv, [Next]_vars, NEW s \in Source
    PROVE  ContentMoves(s)
<1>1. ASSUME NEW r \in Request, AppendRevision(r) PROVE ContentMoves(s)
  BY <1>1, AppendGives
<1>2. ASSUME NEW w \in Worker, StoreRevision(w) PROVE ContentMoves(s)
  BY <1>2, RunFacts, AddedGains DEF StoreRevision, Doing, Origin, ContentMoves
<1>3. ASSUME NEW w \in Worker, DropRevisions(w) PROVE ContentMoves(s)
  BY <1>3 DEF DropRevisions, ContentMoves, TInv, TypeInv
<1>4. CASE content' = content
  BY <1>4 DEF ContentMoves
<1>5. QED  BY <1>1, <1>2, <1>3, <1>4, ContentChange

\* What a handler that will give out a number has read.
LEMMA EditsBegin ==
    ASSUME TInv, [Next]_vars, NEW r \in Request, request[r] = NoRequest, request'[r] # NoRequest,
           request'[r].step \in Pointing
    PROVE  LET h == request'[r]
               s == h.source
           IN  /\ s \in Source /\ source[s] # Absent /\ source' = source
               /\ h.number = source[s].revisionCount /\ h.version = source[s].version
               /\ h.origin # "EXTRACTION" /\ (h.step = "rewrite" => s \in TextSource)
               /\ h.origin = "CORRECTION" => s \in TextSource \/ HasExtractedContent(source[s].status)
<1>1. PICK s \in Source : UpdateTextSource(r, s) \/ CorrectContent(r, s) \/ RestoreOriginal(r, s)
  BY HandlerSteps DEF HandlerStep, Goes, Ends, Begins, Pointing, At
<1>2. source[s] # Absent /\ source[s].currentRevision \in Nat /\ 0 \in Nat /\ source' = source
  BY <1>1, SourceExists
     DEF UpdateTextSource, CorrectContent, RestoreOriginal, Editable, Found, TInv, SourceDocument
<1>3. PICK step \in {"find", "rewrite"}, basis \in Nat, origin \in {"CORRECTION", "RESTORE"} :
         /\ Begin(r, Editing(s, step, basis, origin)) /\ (step = "rewrite" => s \in TextSource)
         /\ origin = "CORRECTION" => s \in TextSource \/ HasExtractedContent(source[s].status)
  BY <1>1, <1>2 DEF UpdateTextSource, CorrectContent, RestoreOriginal
<1> DEFINE h == Editing(s, step, basis, origin)
<1>4. /\ h \in Handling /\ h.step = step /\ h.source = s /\ h.origin = origin
      /\ h.number = source[s].revisionCount /\ h.version = source[s].version
  BY <1>2, EditingFacts DEF RequestStep, Origin
<1>5. Begin(r, h)
  BY <1>3
<1> HIDE DEF h
<1>6. request'[r] = h
  BY <1>4, <1>5, BeginFacts
<1>7. QED  BY <1>2, <1>3, <1>4, <1>6

LEMMA SourceStays ==
    ASSUME TInv, [Next]_vars, NEW s \in Source, source[s] # Absent
    PROVE  /\ source'[s] # Absent /\ source[s] \in SourceDocument /\ source'[s] \in SourceDocument
           /\ source[s].version \in Nat /\ source'[s].version \in Nat
           /\ source[s].version <= source'[s].version
           /\ source[s].retryCount \in Nat /\ source'[s].retryCount \in Nat
           /\ source[s].retryCount <= source'[s].retryCount
           /\ source[s].revisionCount \in Nat /\ source'[s].revisionCount \in Nat
<1>1. /\ source'[s] # Absent /\ source[s] \in SourceDocument /\ source'[s] \in SourceDocument
      /\ source[s].retryCount <= source'[s].retryCount
  BY SourcesNext, SourceExists DEF SourcesStep, Written, Follows, TInv
<1>2. /\ source[s].version \in Nat /\ source'[s].version \in Nat
      /\ source[s].retryCount \in Nat /\ source'[s].retryCount \in Nat
      /\ source[s].revisionCount \in Nat /\ source'[s].revisionCount \in Nat
  BY <1>1 DEF SourceDocument
<1>3. source[s].version <= source'[s].version
  BY <1>2, SourceMovesNext DEF SourceMoves, Keeps, Points, Publishes
<1>4. QED  BY <1>1, <1>2, <1>3

LEMMA HandlersFitNext == TInv /\ HandlersFit /\ [Next]_vars => HandlersFit'
<1> SUFFICES ASSUME TInv, HandlersFit, [Next]_vars PROVE HandlersFit'
  OBVIOUS
<1>1. ASSUME NEW s \in Source, source'[s] = Absent PROVE content'[s] = {}
  <2>1. source[s] = Absent
    BY <1>1, SourceStays
  <2>2. content'[s] = content[s]
    BY <2>1, ContentMovesNext, AppendGives, RequestFacts, RunFacts
       DEF ContentMoves, At, StoreRevision, DropRevisions, Doing
  <2>3. QED  BY <2>1, <2>2 DEF HandlersFit
<1>2. ASSUME NEW s \in Source, NEW x \in content'[s], x.origin = "EXTRACTION" PROVE x.number = 0
  <2>1. x \in content[s] => x.number = 0
    BY <1>2 DEF HandlersFit
  <2>2. ASSUME NEW r \in Request, AppendRevision(r), x.number = request[r].number, x.origin = request[r].origin
        PROVE  x.number = 0
    BY <1>2, <2>2, AppendGives DEF At, HandlersFit, Fit
  <2>3. QED  BY <2>1, <2>2, ContentMovesNext DEF ContentMoves, Gains
<1>3. ASSUME NEW r \in Request, request'[r] # NoRequest PROVE Fit(request[r])'
  <2> DEFINE h == request'[r]
  <2>1. SUFFICES /\ h.step \in {"rewrite", "counters"} => h.source \in TextSource
                 /\ h.step = "append" /\ h.origin = "EXTRACTION" => h.source \in TextSource /\ h.number = 0
                 /\ h.step \in Pointing => h.origin # "EXTRACTION" /\ h.version <= source'[h.source].version
    BY DEF Fit
  <2>s. ASSUME request[r] # NoRequest, Fit(request[r]), request[r].step \in Pointing
        PROVE  request[r].version <= source'[request[r].source].version
    <3>1. request[r].source \in Source /\ request[r].version \in Nat /\ source[request[r].source] # Absent
      BY <2>s, RequestFacts DEF Handling, Pointing
    <3>2. QED  BY <2>s, <3>1, SourceStays DEF Fit
  <2>f. request[r] # NoRequest => Fit(request[r])
    BY DEF HandlersFit
  <2>2. CASE request'[r] = request[r]
    BY <1>3, <2>2, <2>s, <2>f DEF Fit
  <2>3. CASE request'[r] # request[r]
    <3>1. HandlerStep(r)
      BY <2>3, HandlerSteps
    <3>2. CASE request[r] = NoRequest
      <4>1. CASE h.step \in Pointing
        <5>1. source[h.source].version \in Nat
          BY <1>3, <3>2, <4>1, EditsBegin, SourceStays
        <5>2. QED  BY <1>3, <3>2, <4>1, <5>1, EditsBegin DEF Pointing
      <4>2. CASE h.step \notin Pointing
        <5>1. h.step = "append" => h.source \in TextSource /\ h.number = 0
          BY <1>3, <3>1, <3>2 DEF HandlerStep, Goes, Ends, Begins, At, AddTextSource
        <5>2. h.step # "counters"
          BY <1>3, <3>1, <3>2 DEF HandlerStep, Goes, Ends, Begins, At
        <5>3. QED  BY <4>2, <5>1, <5>2 DEF Pointing
      <4>3. QED  BY <4>1, <4>2
    <3>3. CASE request[r] # NoRequest
      <4>1. CASE AppendRevision(r)
        BY <1>3, <2>f, <4>1, AppendGives DEF Goes, At, Fit, Pointing
      <4>2. CASE Goes(r, "revise", "append") \/ Goes(r, "rewrite", "append")
        BY <2>f, <4>2 DEF Goes, At, Fit, Pointing
      <4>3. CASE Goes(r, "find", "revise")
        BY <2>f, <2>s, <4>3 DEF Goes, At, Fit, Pointing
      <4>4. CASE h.step \notin {"rewrite", "counters", "append", "find", "revise"}
        BY <4>4 DEF Pointing
      <4>5. QED  BY <1>3, <3>1, <3>3, <4>1, <4>2, <4>3, <4>4 DEF HandlerStep, Goes, Ends, Begins
    <3>4. QED  BY <3>2, <3>3
  <2>4. QED  BY <2>2, <2>3
<1>4. QED  BY <1>1, <1>2, <1>3 DEF HandlersFit

\* Nothing failed before a step after which nothing has.
LEMMA StaysHealthy ==
    ASSUME TInv, [Next]_vars, Healthy'
    PROVE  /\ Healthy
           /\ \A w \in Worker : ~Stumble(w) /\ ~WorkerDies(w)
           /\ \A r \in Request : ~Abort(r) /\ ~EnqueueUploadFails(r)
<1>1. /\ crashes' = 0 /\ slips' = 0 /\ operatorRetries' = 0 /\ faults' = 0 /\ aborts' = 0
      /\ crashes \in Nat /\ slips \in Nat /\ operatorRetries \in Nat /\ faults \in Nat /\ aborts \in Nat
  BY BoundsAssumption DEF Healthy, TInv, TypeInv
<1>2. Healthy
  BY <1>1, CountersNext DEF CountersStep, Counted, Healthy
<1>3. QED  BY <1>1, <1>2 DEF Stumble, WorkerDies, Abort, EnqueueUploadFails

-----------------------------------------------------------------------------
(* ... who retries and who marks it ... *)

\* A handler that has counted its retry.
Past(r) == At(r, "requeue") \/ At(r, "resubmit")
\* While a source counts one retry, one handler is past counting it, and its job is not there.
RetriedOnce ==
    \A r \in Request : Past(r) =>
        LET s == request[r].source
        IN  /\ Live(<<s, 1>>) => source[s].retryCount >= 2
            /\ \A q \in Request : Past(q) /\ request[q].source = s /\ q # r => source[s].retryCount >= 2

LEMMA PastBegins ==
    ASSUME TInv, [Next]_vars, NEW r \in Request, request'[r] # NoRequest,
           request'[r].step \in {"requeue", "resubmit"}
    PROVE  /\ request[r] # NoRequest /\ request'[r].source = request[r].source
           /\ request[r].source \in FileSource /\ request[r].source \in Source
           /\ source[request[r].source] # Absent
           /\ Past(r) \/ IncrementRetry(r)
<1>1. CASE request'[r] = request[r]
  BY <1>1, RequestFacts, Bounds DEF Past, At, FileSteps
<1>2. CASE request'[r] # request[r]
  <2>1. request[r] # NoRequest /\ request'[r].source = request[r].source /\ (Past(r) \/ IncrementRetry(r))
    BY <1>2, HandlerSteps DEF HandlerStep, Goes, Ends, Begins, Past, At
  <2>2. request[r].step \in FileSteps /\ request[r].step # "create"
    BY <2>1 DEF Past, IncrementRetry, At, FileSteps
  <2>3. QED  BY <2>1, <2>2, RequestFacts, Bounds
<1>3. QED  BY <1>1, <1>2

LEMMA RetryCounted ==
    ASSUME TInv, NEW r \in Request, IncrementRetry(r)
    PROVE  LET s == request[r].source
           IN  /\ source'[s].retryCount = source[s].retryCount + 1 /\ jobs' = jobs
               /\ \A q \in Request : q # r => request'[q] = request[q]
<1>1. request[r].source \in Source /\ source[request[r].source] \in SourceDocument /\ request[r] # NoRequest
  BY RequestFacts DEF IncrementRetry, At
<1>2. source'[request[r].source].retryCount = source[request[r].source].retryCount + 1
  BY <1>1, ReviewedFacts DEF IncrementRetry, TInv, TypeInv
<1>3. QED  BY <1>1, <1>2, GotoFacts DEF IncrementRetry, RequestStep

LEMMA RetriedOnceNext == TInv /\ AttemptsCounted /\ RetriedOnce /\ [Next]_vars => RetriedOnce'
<1> SUFFICES ASSUME TInv, AttemptsCounted, RetriedOnce, [Next]_vars,
                    NEW r \in Request, request'[r] # NoRequest, request'[r].step \in {"requeue", "resubmit"}
             PROVE  LET s == request'[r].source
                    IN  /\ jobs'[<<s, 1>>] # Unborn => source'[s].retryCount >= 2
                        /\ \A q \in Request :
                              /\ request'[q] # NoRequest /\ request'[q].step \in {"requeue", "resubmit"}
                              /\ request'[q].source = s /\ q # r
                              => source'[s].retryCount >= 2
  BY DEF RetriedOnce, Past, At, Live
<1> DEFINE s == request[r].source
<1>0. /\ request[r] # NoRequest /\ request'[r].source = s /\ s \in FileSource /\ s \in Source
      /\ source[s] # Absent /\ (Past(r) \/ IncrementRetry(r))
  BY PastBegins
<1>j. <<s, 1>> \in Job /\ SourceOf(<<s, 1>>) = s
  BY <1>0, Bounds
<1>g. /\ source[s].retryCount \in Nat /\ source'[s].retryCount \in Nat
      /\ source[s].retryCount <= source'[s].retryCount
  BY <1>0, SourceStays
\* A job of the first attempt counts, and so does a handler past counting.
<1>1. Live(<<s, 1>>) => source[s].retryCount >= 1
  BY <1>j DEF AttemptsCounted
<1>2. ASSUME NEW q \in Request, Past(q), request[q].source = s PROVE source[s].retryCount >= 1
  <2>1. request[q].number <= source[s].retryCount /\ request[q].number \in Nat /\ request[q].number >= 1
    BY <1>2, RequestFacts, Bounds DEF Past, At, AttemptsCounted, RetrySteps
  <2>2. QED  BY <1>g, <2>1
<1>3. CASE IncrementRetry(r)
  <2>1. source'[s].retryCount = source[s].retryCount + 1 /\ jobs' = jobs
        /\ \A q \in Request : q # r => request'[q] = request[q]
    BY <1>3, RetryCounted
  <2>2. QED  BY <1>0, <1>1, <1>2, <1>g, <2>1 DEF Past, At, Live
<1>4. CASE Past(r) /\ ~IncrementRetry(r)
  <2>r. /\ Live(<<s, 1>>) => source[s].retryCount >= 2
        /\ \A q \in Request : Past(q) /\ request[q].source = s /\ q # r => source[s].retryCount >= 2
    BY <1>4 DEF RetriedOnce
  <2>m. source[s].retryCount >= 2 => source'[s].retryCount >= 2
    BY <1>g
  <2>1. ASSUME jobs'[<<s, 1>>] # Unborn PROVE source'[s].retryCount >= 2
    <3>1. CASE Live(<<s, 1>>)
      BY <2>r, <2>m, <3>1
    <3>2. CASE ~Live(<<s, 1>>)
      <4>1. Enqueued(<<s, 1>>)
        BY <1>j, <2>1, <3>2, JobsNext DEF JobsStep
      <4>2. PICK q \in Request : Resubmit(q) /\ request[q].source = s
        BY <4>1 DEF Enqueued
      <4>3. request'[q] = NoRequest /\ Past(q)
        BY <4>2, DoneFacts DEF Resubmit, Past
      <4>4. q # r
        BY <4>3
      <4>5. QED  BY <2>r, <2>m, <4>2, <4>3, <4>4
    <3>3. QED  BY <3>1, <3>2
  <2>2. ASSUME NEW q \in Request, request'[q] # NoRequest, request'[q].step \in {"requeue", "resubmit"},
               request'[q].source = s, q # r
        PROVE  source'[s].retryCount >= 2
    <3>1. request[q].source = s /\ (Past(q) \/ IncrementRetry(q))
      BY <2>2, PastBegins
    <3>2. CASE Past(q)
      BY <2>r, <2>m, <2>2, <3>1, <3>2
    <3>3. CASE IncrementRetry(q)
      <4>1. source'[s].retryCount = source[s].retryCount + 1
        BY <3>1, <3>3, RetryCounted
      <4>2. source[s].retryCount >= 1
        BY <1>0, <1>2, <1>4
      <4>3. QED  BY <1>g, <4>1, <4>2
    <3>4. QED  BY <3>1, <3>2, <3>3
  <2>3. QED  BY <1>0, <2>1, <2>2
<1>5. QED  BY <1>0, <1>3, <1>4

\* While no claim of a living worker times out, nobody holds the job another holds.
HoldersAlone ==
    slips = 0 => \A v, w \in Worker : Holding(v) /\ Holding(w) /\ worker[v].job = worker[w].job => v = w

LEMMA OwnersAlone == TInv /\ JQP!SoleHolder => HoldersAlone
<1> SUFFICES ASSUME TInv, JQP!SoleHolder, slips = 0, NEW v \in Worker, NEW w \in Worker,
                    Holding(v), Holding(w), worker[v].job = worker[w].job
             PROVE  v = w
  BY DEF HoldersAlone
<1>1. ASSUME NEW u \in Worker, Holding(u) PROVE JQP!Holds(u, worker[u].job) /\ JQP!Live(worker[u].job)
                                                /\ worker[u].job \in Job
  <2>1. /\ worker[u].job \in Job /\ Live(worker[u].job)
        /\ Held[u] # NoRun /\ Held[u].job = worker[u].job
    BY <1>1, HeldFacts, RunFacts DEF Holding, TInv, RunsExist
  <2>2. QED  BY <2>1, SameQueue, LiveInQueue DEF JQP!Holds
<1>2. jobs[worker[v].job].claimedBy = v /\ jobs[worker[v].job].claimedBy = w
  BY <1>1 DEF JQP!SoleHolder
<1>3. QED  BY <1>2

\* The job of a run is its source's first one, or that of a retry the source counts.
LEMMA JobOfRun ==
    ASSUME TInv, AttemptsCounted, NEW w \in Worker, worker[w] # NoRun
    PROVE  LET s == SourceAt(w)
           IN  /\ s \in FileSource /\ s \in Source /\ source[s] # Absent
               /\ worker[w].job \in Job /\ SourceOf(worker[w].job) = s /\ Live(worker[w].job)
               /\ worker[w].job = First(s) \/ source[s].retryCount >= 1
               /\ source[s].retryCount <= 1 => worker[w].job \in {First(s), <<s, 1>>}
<1> DEFINE j == worker[w].job
           s == SourceAt(w)
<1>1. /\ j \in Job /\ s \in FileSource /\ s \in Source /\ source[s] # Absent /\ Live(j)
      /\ j = <<s, j[2]>> /\ j[2] \in Nat /\ SourceOf(j) = s
  BY RunFacts DEF TInv, RunsExist, SourceAt, SourceOf, Job
<1>2. j[2] <= source[s].retryCount /\ source[s].retryCount \in Nat
  BY <1>1, RetryCounts DEF AttemptsCounted
<1>3. j[2] = 0 \/ source[s].retryCount >= 1
  BY <1>1, <1>2
<1>4. source[s].retryCount <= 1 => j[2] \in {0, 1}
  BY <1>1, <1>2
<1>5. QED  BY <1>1, <1>3, <1>4 DEF First

LEMMA HeldIsActive ==
    ASSUME TInv, HoldersRun, slips = 0, NEW w \in Worker, Holding(w)
    PROVE  worker[w] # NoRun /\ worker[w].job \in Active(SourceAt(w)) /\ ~Settled(jobs[worker[w].job])
<1>1. worker[w] # NoRun /\ worker[w].job \in Job /\ Live(worker[w].job) /\ jobs[worker[w].job].state = "running"
  BY RunFacts DEF Holding, HoldersRun, TInv, RunsExist
<1>2. QED  BY <1>1 DEF Active, Settled, SourceAt

LEMMA HeldIsUntired ==
    ASSUME TInv, HoldersRun, RetriesWait, slips = 0, operatorRetries = 0,
           NEW w \in Worker, Holding(w), worker[w].job = First(SourceAt(w))
    PROVE  ~Tired(SourceAt(w))
<1>1. worker[w] # NoRun /\ Live(worker[w].job) /\ ~Settled(jobs[worker[w].job])
  BY HeldIsActive DEF Active
<1>2. SourceAt(w) \in FileSource /\ source[SourceAt(w)] # Absent
  BY <1>1, RunFacts
<1>3. QED  BY <1>1, <1>2 DEF RetriesWait, Over

\* Whoever marks a source failed has settled a job that nobody else has settled, and if that
\* was its first job nobody has yet thought of retrying it.
Marking(w) == Doing(w, "markFailed") \/ Doing(w, "markCancelled")
MarkedOnce ==
    slips = 0 /\ operatorRetries = 0 =>
        \A w \in Worker : Marking(w) =>
            /\ \A v \in Worker : Marking(v) /\ worker[v].job = worker[w].job => v = w
            /\ \A s \in FileSource : worker[w].job = First(s) => ~Tired(s)

\* Who marks after a step was marking, or has just settled its job.
LEMMA MarkingBegins ==
    ASSUME TInv, HoldersRun, RetriesWait, [Next]_vars, slips = 0, operatorRetries = 0, NEW w \in Worker,
           worker'[w] # NoRun, worker'[w].step \in {"markFailed", "markCancelled"}
    PROVE  /\ worker[w] # NoRun /\ worker'[w].job = worker[w].job
           /\ \/ Marking(w) /\ worker'[w] = worker[w]
              \/ /\ Holding(w) /\ ~Settled(jobs[worker[w].job])
                 /\ source' = source /\ request' = request
                 /\ \A v \in Worker : v # w => worker'[v] = worker[v]
<1>1. CASE worker'[w] = worker[w]
  BY <1>1 DEF Marking, Doing
<1>2. CASE worker'[w] # worker[w]
  <2>1. \/ FailWrite(w) /\ Runs(w, "failWrite", "markFailed")
        \/ CancelRun(w) /\ Runs(w, "cancelRun", "markCancelled")
    BY <1>2, RunSteps DEF RunStep, Runs, Leaves, Takes
  <2>2. Holding(w) /\ worker[w] # NoRun /\ worker'[w].job = worker[w].job /\ source' = source /\ request' = request
    BY <2>1 DEF FailWrite, CancelRun, Runs, Doing, Holding, LetGo
  <2>3. \A v \in Worker : v # w => worker'[v] = worker[v]
    BY <2>1 DEF FailWrite, CancelRun, Then, TInv, TypeInv
  <2>4. QED  BY <2>2, <2>3, HeldIsActive
<1>3. QED  BY <1>1, <1>2

LEMMA MarkedOnceNext ==
    TInv /\ AttemptsCounted /\ RetriesWait /\ HoldersRun /\ MarkedOnce /\ [Next]_vars => MarkedOnce'
<1> SUFFICES ASSUME TInv, AttemptsCounted, RetriesWait, HoldersRun, MarkedOnce, [Next]_vars,
                    slips' = 0, operatorRetries' = 0,
                    NEW w \in Worker, worker'[w] # NoRun, worker'[w].step \in {"markFailed", "markCancelled"}
             PROVE  /\ \A v \in Worker :
                          /\ worker'[v] # NoRun /\ worker'[v].step \in {"markFailed", "markCancelled"}
                          /\ worker'[v].job = worker'[w].job
                          => v = w
                    /\ \A t \in FileSource : worker'[w].job = First(t) => ~Tired(t)'
  BY DEF MarkedOnce, Marking, Doing, First
<1>0. slips = 0 /\ operatorRetries = 0
  BY CountersNext DEF CountersStep, Counted, TInv, TypeInv
<1> DEFINE j == worker[w].job
<1>w. /\ worker[w] # NoRun /\ worker'[w].job = j
      /\ \/ Marking(w) /\ worker'[w] = worker[w]
         \/ /\ Holding(w) /\ ~Settled(jobs[j]) /\ source' = source /\ request' = request
            /\ \A v \in Worker : v # w => worker'[v] = worker[v]
  BY <1>0, MarkingBegins DEF SourceAt
<1>m. \A v \in Worker : Marking(v) => Settled(jobs[worker[v].job])
  BY <1>0 DEF RetriesWait, Marking
<1>1. ASSUME NEW v \in Worker, worker'[v] # NoRun, worker'[v].step \in {"markFailed", "markCancelled"},
             worker'[v].job = worker'[w].job
      PROVE  v = w
  <2>1. /\ worker'[v].job = worker[v].job /\ worker[v].job = j
        /\ \/ Marking(v) /\ worker'[v] = worker[v]
           \/ /\ ~Settled(jobs[j]) /\ \A u \in Worker : u # v => worker'[u] = worker[u]
    BY <1>0, <1>1, <1>w, MarkingBegins
  <2>2. CASE Marking(v) /\ Marking(w)
    BY <1>0, <2>1, <2>2 DEF MarkedOnce
  <2>3. CASE ~Marking(v) /\ ~Marking(w)
    <3>1. v # w => worker'[w] = worker[w]
      BY <2>1, <2>3
    <3>2. worker'[w] = worker[w] => Marking(w)
      BY DEF Marking, Doing
    <3>3. QED  BY <2>3, <3>1, <3>2
  <2>4. QED  BY <1>m, <1>w, <2>1, <2>2, <2>3
<1>2. ASSUME NEW s \in FileSource, j = First(s), Tired(s)' PROVE FALSE
  <2>0. s = SourceAt(w) /\ s \in Source /\ source[s] # Absent /\ j \in Job /\ Live(j)
    BY <1>2, <1>w, JobOfRun DEF First, SourceAt, SourceOf
  <2>1. ~Tired(s)
    <3>1. CASE Marking(w)
      BY <1>0, <1>2, <3>1 DEF MarkedOnce
    <3>2. CASE Holding(w)
      BY <1>0, <1>2, <2>0, <3>2, HeldIsUntired
    <3>3. QED  BY <1>w, <3>1, <3>2
  <2>2. CASE source' = source /\ request' = request
    BY <1>2, <2>1, <2>2 DEF Tired, Retrying, At
  <2>3. CASE Marking(w) /\ worker'[w] = worker[w]
    <3>w. Written(s, source'[s])
      BY <2>0, SourcesNext DEF SourcesStep
    <3>1. CASE source'[s].status = "FAILED"
      <4>1. Failing(s)
        BY <2>1, <3>w, <3>1 DEF Written, Tired
      <4>2. ASSUME NEW r \in Request, MarkUnqueued(r), s = request[r].source PROVE FALSE
        BY <1>2, <2>0, <4>2 DEF MarkUnqueued, Uploading, AttemptsCounted
      <4>3. ASSUME NEW v \in Worker, MarkFailed(v) \/ MarkCancelled(v), s = SourceAt(v) PROVE FALSE
        <5>1. Marking(v) /\ worker[v] # NoRun /\ worker'[v] = NoRun
          BY <4>3, FinishFacts DEF MarkFailed, MarkCancelled, Marking, Doing
        <5>2. worker[v].job = First(s)
          BY <2>1, <4>3, <5>1, JobOfRun DEF Tired
        <5>3. v = w
          BY <1>0, <1>2, <2>3, <5>1, <5>2 DEF MarkedOnce
        <5>4. QED  BY <5>1, <5>3
      <4>4. QED  BY <4>1, <4>2, <4>3 DEF Failing
    <3>2. CASE source'[s].retryCount >= 1
      BY <2>1, <3>w, <3>2 DEF Written, Tired, IncrementRetry, Retrying
    <3>3. ASSUME NEW r \in Request, Retrying(r)', request'[r].source = s PROVE FALSE
      <4>1. CASE request'[r] = request[r]
        BY <2>1, <3>3, <4>1 DEF Tired, Retrying, At
      <4>2. CASE request'[r] # request[r]
        <5>1. Retry(r, s) \/ (Retrying(r) /\ request[r].source = s)
          BY <3>3, <4>2, HandlerSteps DEF HandlerStep, Goes, Ends, Begins, Retrying, At
        <5>2. QED  BY <2>1, <5>1 DEF Tired, Retry
      <4>3. QED  BY <4>1, <4>2
    <3>4. QED  BY <1>2, <3>1, <3>2, <3>3 DEF Tired
  <2>4. QED  BY <1>w, <2>2, <2>3
<1>3. QED  BY <1>1, <1>2, <1>w

-----------------------------------------------------------------------------
(* ... and what a source shows *)

\* Nobody takes the revision of a run away before it is published.
StoredFirst ==
    Healthy =>
        \A w \in Worker : Doing(w, "publish") /\ source[SourceAt(w)].retryCount <= 1 =>
            HasRevision(content[SourceAt(w)], 0)

\* Two runs that hold jobs of a source retried at most once are one.
LEMMA HoldersMeet ==
    ASSUME TInv, AttemptsCounted, RetriesWait, HoldersRun, HoldersAlone, slips = 0, operatorRetries = 0,
           NEW v \in Worker, NEW w \in Worker, Holding(v), Holding(w), SourceAt(v) = SourceAt(w),
           source[SourceAt(w)].retryCount <= 1
    PROVE  v = w
<1>1. /\ worker[v].job \in Active(SourceAt(w)) /\ worker[w].job \in Active(SourceAt(w))
      /\ SourceAt(w) \in Source /\ source[SourceAt(w)] # Absent
  BY HeldIsActive, RunFacts DEF Holding
<1>2. worker[v].job = worker[w].job
  BY <1>1, OneActive DEF OneActiveJob
<1>3. QED  BY <1>2 DEF HoldersAlone

LEMMA StoredFirstNext ==
    TInv /\ AttemptsCounted /\ RetriesWait /\ HoldersRun /\ HoldersAlone /\ StoredFirst /\ [Next]_vars
        => StoredFirst'
<1> SUFFICES ASSUME TInv, AttemptsCounted, RetriesWait, HoldersRun, HoldersAlone, StoredFirst, [Next]_vars,
                    Healthy', NEW w \in Worker, worker'[w] # NoRun, worker'[w].step = "publish",
                    source'[SourceOf(worker'[w].job)].retryCount <= 1
             PROVE  HasRevision(content'[SourceOf(worker'[w].job)], 0)
  BY DEF StoredFirst, Doing, SourceAt, HasRevision
<1> DEFINE s == SourceAt(w)
<1>h. Healthy
  BY StaysHealthy
<1>1. CASE worker'[w] = worker[w]
  <2>1. /\ Doing(w, "publish") /\ SourceOf(worker'[w].job) = s /\ Holding(w)
        /\ s \in Source /\ source[s] # Absent
    BY <1>1, RunFacts DEF Doing, SourceAt, Holding, LetGo
  <2>2. source[s].retryCount <= 1
    BY <2>1, SourceStays
  <2>3. HasRevision(content[s], 0)
    BY <1>h, <2>1, <2>2 DEF StoredFirst
  <2>4. ASSUME NEW v \in Worker, DropRevisions(v), SourceAt(v) = s PROVE FALSE
    <3>1. Holding(v) /\ worker[v].step = "drop"
      BY <2>4 DEF DropRevisions, Doing, Holding, LetGo
    <3>2. v = w
      BY <1>h, <2>1, <2>2, <2>4, <3>1, HoldersMeet DEF Healthy
    <3>3. QED  BY <2>1, <3>1, <3>2 DEF Doing
  <2>5. content[s] \subseteq content'[s]
    BY <2>1, <2>4, ContentMovesNext DEF ContentMoves, Gains
  <2>6. QED  BY <2>1, <2>3, <2>5 DEF HasRevision
<1>2. CASE worker'[w] # worker[w]
  <2>1. StoreRevision(w) /\ Runs(w, "store", "publish")
    BY <1>2, RunSteps DEF RunStep, Runs, Leaves, Takes
  <2>2. s \in Source /\ worker[w] # NoRun /\ SourceOf(worker'[w].job) = s /\ 0 \in Nat
    BY <2>1, RunFacts DEF Runs, Doing, SourceAt
  <2>3. ~HasRevision(content[s], 0)
    <3>1. ASSUME HasRevision(content[s], 0) PROVE FALSE
      <4>1. worker'[w].step = "failRead"
        BY <2>1, <2>2, <3>1, FailsFacts, FailureFacts DEF StoreRevision
      <4>2. QED  BY <2>1, <4>1 DEF Runs
    <3>2. QED  BY <3>1
  <2>4. AddRevision(s, 0, "EXTRACTION")
    BY <2>1, <2>3 DEF StoreRevision
  <2>5. QED  BY <2>2, <2>4, AddedGains DEF Gains, Origin
<1>3. QED  BY <1>1, <1>2

\* A file that is not read yet: there is nothing of its content to approve or to correct, though
\* it can be restored.
Unread(s) ==
    /\ ~HasExtractedContent(source[s].status)
    /\ \A x \in content[s] : x.origin # "CORRECTION"
    /\ \A r \in Serving(s) :
          /\ request[r].step \notin {"review", "counters"}
          /\ request[r].step \in Pointing \cup {"append"} => request[r].origin # "CORRECTION"

\* A file that is: nobody reads it again.
Read(s) ==
    /\ source[s].status # "FAILED"
    /\ \A r \in Serving(s) :
          ~Uploading(r) /\ ~Past(r) /\ (At(r, "incrementRetry") => source[s].retryCount >= 1)
    /\ \A j \in Job : SourceOf(j) = s /\ Live(j) =>
          Settled(jobs[j]) \/ \E w \in Worker : Doing(w, "complete") /\ worker[w].job = j
    /\ \A w \in Worker : worker[w] # NoRun /\ SourceAt(w) = s => worker[w].step \in {"complete", "markQueued"}

\* The numbers given out are below the next one and each is given once; who has read the
\* document as it is will give out the next one, or a number that no longer counts.
Appends(r, s) == At(r, "append") /\ request[r].source = s /\ Numbering(s, request[r].origin)
Edits(r, s) ==
    /\ request[r] # NoRequest /\ request[r].step \in Pointing
    /\ request[r].source = s /\ request[r].version = source[s].version
Numbered(s) ==
    /\ \A x \in content[s] : Numbering(s, x.origin) => x.number < source[s].revisionCount
    /\ \A r \in Request : Appends(r, s) =>
          /\ request[r].number < source[s].revisionCount
          /\ \A x \in content[s] : Numbering(s, x.origin) => x.number # request[r].number
          /\ \A q \in Request : Appends(q, s) /\ request[q].number = request[r].number => q = r
    /\ \A r \in Request : Edits(r, s) =>
          /\ source[s].revisionCount <= request[r].number + 1
          /\ Numbering(s, request[r].origin) => request[r].number = source[s].revisionCount

\* What the document points at is stored, or about to be.
Effective(s) ==
    \/ HasRevision(content[s], source[s].currentRevision)
    \/ \E r \in Request :
          At(r, "append") /\ request[r].source = s /\ request[r].number = source[s].currentRevision

Shown(s) ==
    \/ s \in FileSource /\ Unread(s)
    \/ (s \in FileSource => Read(s)) /\ Numbered(s) /\ Effective(s)
ContentShown ==
    Healthy => \A s \in Source : source[s] # Absent /\ source[s].retryCount <= 1 => Shown(s)

LEMMA ShownIsEnough == TInv /\ ContentShown => EffectiveContentExists
<1> SUFFICES ASSUME TInv, Healthy, NEW s \in Source, source[s] # Absent, source[s].retryCount <= 1, Shown(s)
             PROVE  /\ Found(s) /\ HasExtractedContent(source[s].status) =>
                          \/ HasRevision(content[s], source[s].currentRevision)
                          \/ \E r \in Serving(s) :
                                At(r, "append") /\ request[r].number = source[s].currentRevision
                    /\ \A r \in Serving(s) : At(r, "append") /\ request[r].origin = "CORRECTION" =>
                          \A x \in content[s] : x.number = request[r].number =>
                              s \in FileSource /\ x.origin = "RESTORE"
  BY DEF ContentShown, EffectiveContentExists
<1>1. CASE s \in FileSource /\ Unread(s)
  BY <1>1 DEF Unread, At
<1>2. CASE Numbered(s) /\ Effective(s)
  <2>1. \/ HasRevision(content[s], source[s].currentRevision)
        \/ \E r \in Serving(s) : At(r, "append") /\ request[r].number = source[s].currentRevision
    BY <1>2 DEF Effective, Serving, At
  <2>2. ASSUME NEW r \in Serving(s), At(r, "append"), request[r].origin = "CORRECTION",
               NEW x \in content[s], x.number = request[r].number
        PROVE  s \in FileSource /\ x.origin = "RESTORE"
    <3>1. Appends(r, s) /\ r \in Request
      BY <2>2 DEF Appends, Serving, Numbering
    <3>2. ~Numbering(s, x.origin)
      BY <1>2, <2>2, <3>1 DEF Numbered
    <3>3. QED  BY <3>2 DEF Numbering, Source
  <2>3. QED  BY <2>1, <2>2
<1>3. QED  BY <1>1, <1>2 DEF Shown

LEMMA UnreadNext ==
    ASSUME TInv, HandlersFit, [Next]_vars, NEW s \in FileSource, source[s] # Absent, Unread(s),
           \A w \in Worker : ~Publishes(w, s)
    PROVE  Unread(s)'
<1>0. s \in Source /\ s \notin TextSource
  BY Bounds
<1>h. ASSUME NEW r \in Request, request[r] # NoRequest, request[r].source = s
      PROVE  /\ request[r].step \notin {"review", "counters", "rewrite"}
             /\ request[r].step \in Pointing \cup {"append"} => request[r].origin # "CORRECTION"
             /\ request[r].step = "append" => request[r].origin # "EXTRACTION"
  BY <1>0, <1>h DEF Unread, Serving, HandlersFit, Fit
<1>1. ~HasExtractedContent(source'[s].status)
  <2>1. SourceMoves(s)
    BY <1>0, SourceMovesNext
  <2>2. CASE Keeps(s) /\ Shows(s)
    BY <1>h, <2>2 DEF Shows, Unread, WriteReviewed, CountText, At
  <2>3. ASSUME NEW r \in Request, Points(r, s) PROVE ~HasExtractedContent(source'[s].status)
    BY <1>h, <2>3 DEF Points, Unread, At
  <2>4. QED  BY <2>1, <2>2, <2>3 DEF SourceMoves
<1>2. ASSUME NEW x \in content'[s] PROVE x.origin # "CORRECTION"
  BY <1>0, <1>2, <1>h, ContentMovesNext DEF ContentMoves, Gains, Unread, AppendRevision, At
<1>3. ASSUME NEW r \in Request, request'[r] # NoRequest, request'[r].source = s
      PROVE  /\ request'[r].step \notin {"review", "counters"}
             /\ request'[r].step \in Pointing \cup {"append"} => request'[r].origin # "CORRECTION"
  <2>1. CASE request'[r] = request[r]
    BY <1>3, <1>h, <2>1
  <2>2. CASE request'[r] # request[r] /\ request[r] # NoRequest
    <3>1. HandlerStep(r)
      BY <2>2, HandlerSteps
    <3>2. ~AppendRevision(r)
      <4>1. ASSUME AppendRevision(r) PROVE request[r].source = s /\ request[r].step = "append"
                                           /\ request[r].origin = "EXTRACTION"
        BY <1>3, <4>1, AppendGives DEF Goes, At
      <4>2. QED  BY <1>h, <2>2, <4>1
    <3>3. CASE \/ Goes(r, "find", "revise") \/ Goes(r, "revise", "append") \/ Goes(r, "rewrite", "append")
      BY <1>3, <1>h, <2>2, <3>3 DEF Goes, At, Pointing
    <3>4. CASE request'[r].step \in FileSteps
      BY <3>4 DEF FileSteps, Pointing
    <3>5. QED  BY <1>3, <2>2, <3>1, <3>2, <3>3, <3>4 DEF HandlerStep, Goes, Ends, Begins, FileSteps
  <2>3. CASE request'[r] # request[r] /\ request[r] = NoRequest
    <3>1. HandlerStep(r)
      BY <2>3, HandlerSteps
    <3>2. request'[r].step # "review"
      BY <1>3, <2>3, <3>1 DEF HandlerStep, Goes, Ends, Begins, At, MarkReviewed, Unread
    <3>3. request'[r].step \notin {"append", "counters"}
      BY <1>0, <1>3, <2>3, <3>1 DEF HandlerStep, Goes, Ends, Begins, At, AddTextSource
    <3>4. request'[r].step \in Pointing => request'[r].origin # "CORRECTION"
      BY <1>0, <1>3, <2>3, EditsBegin DEF Unread
    <3>5. QED  BY <3>2, <3>3, <3>4
  <2>4. QED  BY <2>1, <2>2, <2>3
<1>4. QED  BY <1>1, <1>2, <1>3 DEF Unread, Serving

\* A publication ends the reading: the source has no other run, job or retry to come.
LEMMA PublishNext ==
    ASSUME TInv, HandlersFit, AttemptsCounted, RetriesWait, RetriedOnce, MarkedOnce, StoredFirst,
           HoldersRun, HoldersAlone, [Next]_vars, Healthy, NEW s \in FileSource, source[s] # Absent,
           source[s].retryCount <= 1, Unread(s), NEW w \in Worker, Publishes(w, s)
    PROVE  Read(s)' /\ Numbered(s)' /\ Effective(s)'
<1>0. s \in Source /\ s \notin TextSource /\ slips = 0 /\ operatorRetries = 0
  BY Bounds DEF Healthy
<1>w. /\ Doing(w, "publish") /\ Holding(w) /\ worker[w] # NoRun /\ SourceAt(w) = s
      /\ content' = content /\ jobs' = jobs /\ request' = request
      /\ \A v \in Worker : v # w => worker'[v] = worker[v]
      /\ worker'[w] # NoRun /\ worker'[w].step = "complete" /\ worker'[w].job = worker[w].job
  <2>1. Publish(w) /\ SourceAt(w) = s
    BY DEF Publishes
  <2>2. /\ Doing(w, "publish") /\ worker[w] # NoRun /\ Then(w, "complete")
        /\ content' = content /\ jobs' = jobs /\ request' = request
    BY <2>1 DEF Publish, Move, Doing
  <2>3. QED  BY <2>1, <2>2, ThenFacts DEF Doing, Holding, LetGo, WorkerStep
<1>j. /\ worker[w].job \in Job /\ Live(worker[w].job) /\ ~Settled(jobs[worker[w].job])
      /\ worker[w].job \in Active(s) /\ (worker[w].job = First(s) \/ source[s].retryCount >= 1)
  BY <1>0, <1>w, JobOfRun, HeldIsActive
<1>c. /\ source'[s].currentRevision = 0 /\ source'[s].revisionCount = 1
      /\ source'[s].version = source[s].version /\ source'[s].status # "FAILED"
      /\ source[s].retryCount <= source'[s].retryCount
      /\ source[s].retryCount \in Nat /\ source'[s].retryCount \in Nat
  <2>1. HasExtractedContent(source'[s].status)
    BY DEF Publishes
  <2>2. QED  BY <1>0, <2>1, SourceStays DEF Publishes, HasExtractedContent
<1>u. worker[w].job = First(s) => ~Tired(s)
  BY <1>0, <1>w, HeldIsUntired
<1>t. source[s].retryCount >= 1 => Over(s)
  BY <1>0 DEF RetriesWait, Tired
<1>1. ASSUME NEW r \in Request, request[r] # NoRequest, request[r].source = s
      PROVE  ~Uploading(r) /\ ~Past(r) /\ (At(r, "incrementRetry") => source[s].retryCount >= 1)
  <2>1. ~Uploading(r)
    BY <1>1, <1>j, <1>t DEF AttemptsCounted, Over
  <2>2. Retrying(r) => source[s].retryCount >= 1 /\ worker[w].job # First(s)
    BY <1>1, <1>j, <1>u DEF Tired
  <2>3. ~Past(r)
    <3>1. ASSUME Past(r) PROVE FALSE
      <4>1. source[s].retryCount >= 1 /\ worker[w].job = <<s, 1>>
        BY <1>w, <2>2, <3>1, JobOfRun DEF Past, Retrying
      <4>2. source[s].retryCount >= 2
        BY <1>1, <1>j, <3>1, <4>1 DEF RetriedOnce
      <4>3. QED  BY <1>c, <4>2
    <3>2. QED  BY <3>1
  <2>4. QED  BY <2>1, <2>2, <2>3 DEF Retrying
<1>2. ASSUME NEW j \in Job, SourceOf(j) = s, Live(j) PROVE Settled(jobs[j]) \/ j = worker[w].job
  <2>1. ~Settled(jobs[j]) => j \in Active(s)
    BY <1>2 DEF Active
  <2>2. QED  BY <1>0, <1>j, <2>1, OneActive DEF OneActiveJob
<1>3. ASSUME NEW v \in Worker, worker[v] # NoRun, SourceAt(v) = s, v # w
      PROVE  worker[v].step = "markQueued"
  <2>1. ~Holding(v)
    BY <1>0, <1>w, <1>3, HoldersMeet
  <2>2. ~Marking(v)
    <3>1. ASSUME Marking(v) PROVE FALSE
      <4>1. worker[v].job # worker[w].job
        BY <1>0, <1>j, <3>1 DEF RetriesWait, Marking
      <4>2. /\ worker[v].job = First(s) \/ source[s].retryCount >= 1
            /\ worker[v].job \in {First(s), <<s, 1>>} /\ worker[w].job \in {First(s), <<s, 1>>}
        BY <1>w, <1>3, JobOfRun
      <4>3. CASE worker[v].job = First(s)
        <5>1. ~Tired(s)
          BY <1>0, <3>1, <4>3 DEF MarkedOnce
        <5>2. QED  BY <1>j, <4>1, <4>3, <5>1 DEF Tired
      <4>4. CASE worker[w].job = First(s)
        BY <1>u, <4>1, <4>2, <4>4 DEF Tired
      <4>5. QED  BY <4>1, <4>2, <4>3, <4>4
    <3>2. QED  BY <3>1
  <2>3. QED  BY <1>3, <2>1, <2>2 DEF Holding, LetGo, Marking, Doing
<1>4. Read(s)'
  <2>1. ASSUME NEW r \in Request, request'[r] # NoRequest, request'[r].source = s
        PROVE  /\ ~Uploading(r)' /\ ~Past(r)'
               /\ At(r, "incrementRetry")' => source'[s].retryCount >= 1
    BY <1>1, <1>c, <1>w, <2>1 DEF Uploading, Past, At
  <2>2. ASSUME NEW j \in Job, SourceOf(j) = s, Live(j)'
        PROVE  Settled(jobs'[j]) \/ \E v \in Worker : Doing(v, "complete")' /\ worker'[v].job = j
    BY <1>2, <1>w, <2>2 DEF Live, Doing
  <2>3. ASSUME NEW v \in Worker, worker'[v] # NoRun, SourceAt(v)' = s
        PROVE  worker'[v].step \in {"complete", "markQueued"}
    BY <1>3, <1>w, <2>3 DEF SourceAt
  <2>4. QED  BY <1>c, <2>1, <2>2, <2>3 DEF Read, Serving
<1>5. Effective(s)'
  <2>1. HasRevision(content[s], 0)
    BY <1>w DEF StoredFirst
  <2>2. QED  BY <1>w, <1>c, <2>1 DEF Effective, HasRevision
<1>6. Numbered(s)'
  <2>1. ASSUME NEW x \in content[s], Numbering(s, x.origin) PROVE x.number = 0
    <3>1. x.origin = "EXTRACTION"
      BY <1>0, <2>1 DEF Unread, Numbering, TInv, TypeInv, Revision, Origin
    <3>2. QED  BY <1>0, <3>1 DEF HandlersFit
  <2>2. ASSUME NEW r \in Request, request[r] # NoRequest, request[r].step \in Pointing \cup {"append"},
               request[r].source = s
        PROVE  ~Numbering(s, request[r].origin) /\ request[r].number \in Nat
    <3>1. request[r].origin \in Origin /\ request[r].origin # "CORRECTION" /\ request[r].number \in Nat
      BY <2>2, RequestFacts DEF Unread, Serving
    <3>2. request[r].origin # "EXTRACTION"
      BY <1>0, <2>2 DEF HandlersFit, Fit
    <3>3. QED  BY <1>0, <3>1, <3>2 DEF Numbering, Origin
  <2>3. \A x \in content'[s] : Numbering(s, x.origin) => x.number < source'[s].revisionCount
    BY <1>w, <1>c, <2>1
  <2>4. \A r \in Request : ~Appends(r, s)'
    BY <1>w, <2>2 DEF Appends, At, Numbering
  <2>5. ASSUME NEW r \in Request, Edits(r, s)'
        PROVE  /\ source'[s].revisionCount <= request'[r].number + 1
               /\ ~Numbering(s, request'[r].origin)
    BY <1>w, <1>c, <2>2, <2>5 DEF Edits
  <2>6. QED  BY <2>3, <2>4, <2>5 DEF Numbered, Numbering
<1>7. QED  BY <1>4, <1>5, <1>6

LEMMA ReadNext ==
    ASSUME TInv, HoldersAlone', [Next]_vars, [QueueKeeps]_(JQP!vars), Healthy',
           NEW s \in FileSource, source[s] # Absent, source'[s].retryCount <= 1, Read(s)
    PROVE  Read(s)'
<1>0. s \in Source /\ Healthy /\ slips = 0 /\ operatorRetries = 0 /\ slips' = 0 /\ operatorRetries' = 0
  BY Bounds, StaysHealthy DEF Healthy
<1>h. ASSUME NEW r \in Request, request[r] # NoRequest, request[r].source = s
      PROVE  ~Uploading(r) /\ ~Past(r) /\ (At(r, "incrementRetry") => source[s].retryCount >= 1)
  BY <1>h DEF Read, Serving
<1>w. ASSUME NEW w \in Worker, worker[w] # NoRun, SourceAt(w) = s
      PROVE  worker[w].step \in {"complete", "markQueued"}
  BY <1>w DEF Read
<1>g. /\ source[s].retryCount \in Nat /\ source'[s].retryCount \in Nat
      /\ source[s].retryCount <= source'[s].retryCount
  BY <1>0, SourceStays
<1>1. source'[s].status # "FAILED"
  <2>1. ~Failing(s)
    <3>1. ASSUME NEW r \in Request, MarkUnqueued(r), s = request[r].source PROVE FALSE
      BY <1>h, <3>1 DEF MarkUnqueued, Uploading, At
    <3>2. ASSUME NEW w \in Worker, MarkFailed(w) \/ MarkCancelled(w), s = SourceAt(w) PROVE FALSE
      BY <1>w, <3>2 DEF MarkFailed, MarkCancelled, Doing
    <3>3. QED  BY <3>1, <3>2 DEF Failing
  <2>2. Written(s, source'[s])
    BY <1>0, SourcesNext DEF SourcesStep
  <2>3. QED  BY <2>1, <2>2 DEF Written, Read
<1>2. ASSUME NEW r \in Request, request'[r] # NoRequest, request'[r].source = s
      PROVE  /\ ~Uploading(r)' /\ ~Past(r)'
             /\ At(r, "incrementRetry")' => source'[s].retryCount >= 1
  <2>1. ~Uploading(r)'
    <3>1. ASSUME request'[r].step \in {"create", "enqueue", "markUnqueued"} PROVE FALSE
      <4>1. \/ Uploading(r) /\ request[r].source = s
            \/ UploadFile(r, s)
        BY <1>2, <3>1, UploadsBegin
      <4>2. QED  BY <1>h, <4>1, UploadsAreNew, <1>0 DEF Uploading, At
    <3>2. QED  BY <3>1 DEF Uploading, At
  <2>2. ~Past(r)'
    <3>1. ASSUME request'[r].step \in {"requeue", "resubmit"} PROVE FALSE
      <4>1. request[r] # NoRequest /\ request[r].source = s /\ (Past(r) \/ IncrementRetry(r))
        BY <1>2, <3>1, PastBegins
      <4>2. CASE IncrementRetry(r)
        <5>1. source[s].retryCount >= 1 /\ source'[s].retryCount = source[s].retryCount + 1
          BY <1>h, <4>1, <4>2, RetryCounted DEF IncrementRetry
        <5>2. QED  BY <1>g, <5>1
      <4>3. QED  BY <1>h, <4>1, <4>2
    <3>2. QED  BY <3>1 DEF Past, At
  <2>3. ASSUME request'[r].step = "incrementRetry" PROVE source'[s].retryCount >= 1
    <3>1. CASE request'[r] = request[r]
      BY <1>2, <1>h, <1>g, <2>3, <3>1 DEF At
    <3>2. CASE request'[r] # request[r]
      <4>1. Retry(r, s)
        BY <1>2, <2>3, <3>2, HandlerSteps DEF HandlerStep, Goes, Ends, Begins
      <4>2. QED  BY <4>1 DEF Retry, Read
    <3>3. QED  BY <3>1, <3>2
  <2>4. QED  BY <2>1, <2>2, <2>3 DEF At
<1>3. ASSUME NEW j \in Job, SourceOf(j) = s, Live(j)
      PROVE  Settled(jobs'[j]) \/ \E w \in Worker : worker'[w] = worker[w] /\ Doing(w, "complete") /\ worker[w].job = j
  <2>1. CASE Settled(jobs[j])
    BY <1>0, <1>3, <2>1, JobsNext, SettledStay
  <2>2. ASSUME NEW w \in Worker, Doing(w, "complete"), worker[w].job = j, worker'[w] # worker[w]
        PROVE  Settled(jobs'[j])
    <3>1. Complete(w)
      BY <2>2, RunSteps, StaysHealthy
         DEF RunStep, Runs, Leaves, Takes, Doing, CancelGone, MarkCancelled, MarkQueued, MarkFailed
    <3>2. jobs[j] \in Document
      BY <1>3, JobExists DEF TInv
    <3>3. jobs' = [jobs EXCEPT ![j] = Completed(jobs[j])]
      BY <2>2, <3>1 DEF Complete, WriteJob
    <3>4. QED  BY <3>2, <3>3 DEF Completed, Released, Settled, JobState, Document, TInv, TypeInv
  <2>3. QED  BY <1>3, <2>1, <2>2 DEF Read
<1>4. ASSUME NEW j \in Job, SourceOf(j) = s, jobs'[j] # Unborn PROVE Live(j)
  <2>1. ASSUME Enqueued(j) PROVE FALSE
    <3>1. PICK r \in Request : /\ EnqueueUpload(r) \/ Resubmit(r)
                               /\ request[r].source = s
      BY <1>4, <2>1 DEF Enqueued, SourceOf
    <3>2. QED  BY <1>h, <3>1 DEF EnqueueUpload, Resubmit, Uploading, Past, At
  <2>2. QED  BY <1>4, <2>1, JobsNext DEF JobsStep
<1>5. ASSUME NEW w \in Worker, worker'[w] # NoRun, SourceOf(worker'[w].job) = s
      PROVE  worker'[w].step \in {"complete", "markQueued"}
  <2>1. CASE worker'[w] = worker[w]
    BY <1>w, <1>5, <2>1 DEF SourceAt
  <2>2. CASE worker'[w] # worker[w]
    <3>1. RunStep(w)
      BY <2>2, RunSteps
    <3>2. CASE worker[w] # NoRun
      <4>1. \E from \in WorkerStep \ {"complete", "markQueued"}, to \in WorkerStep : Runs(w, from, to)
        BY <1>5, <3>1, <3>2, StaysHealthy DEF RunStep, Leaves, Takes, WorkerStep
      <4>2. QED  BY <1>5, <1>w, <4>1 DEF Runs, Doing, SourceAt
    <3>3. CASE worker[w] = NoRun
      <4>1. PICK j \in Job : ClaimNext(w, j) /\ Takes(w, j)
        BY <3>1, <3>3 DEF RunStep, Runs, Leaves, Doing
      <4>2. SourceOf(j) = s /\ Live(j) /\ worker'[w].job = j /\ worker'[w].step = "lookup"
        BY <1>5, <4>1 DEF ClaimNext, Takes
      <4>3. ~Settled(jobs'[j])
        <5>1. jobs[j] \in Document /\ jobs' = [jobs EXCEPT ![j] = Claimed(jobs[j], w)]
          BY <4>1, <4>2, JobExists DEF ClaimNext, WriteJob, TInv
        <5>2. QED  BY <5>1 DEF Claimed, Settled, Document, TInv, TypeInv
      <4>4. PICK v \in Worker : worker'[v] = worker[v] /\ Doing(v, "complete") /\ worker[v].job = j
        BY <1>3, <4>2, <4>3
      <4>5. Holding(v)' /\ Holding(w)' /\ v # w
        BY <3>3, <4>2, <4>4, <1>5 DEF Holding, Doing, LetGo
      <4>6. QED  BY <1>0, <4>2, <4>4, <4>5 DEF HoldersAlone
    <3>4. QED  BY <3>2, <3>3
  <2>3. QED  BY <2>1, <2>2
<1>6. \A j \in Job : SourceOf(j) = s /\ Live(j)' =>
         Settled(jobs'[j]) \/ \E w \in Worker : Doing(w, "complete")' /\ worker'[w].job = j
  BY <1>3, <1>4 DEF Live, Doing
<1>7. QED  BY <1>1, <1>2, <1>5, <1>6 DEF Read, Serving, SourceAt

LEMMA NumberedNext ==
    ASSUME TInv, HandlersFit, [Next]_vars, NEW s \in Source, source[s] # Absent,
           s \in FileSource => Read(s), Numbered(s)
    PROVE  Numbered(s)'
<1> DEFINE count == source[s].revisionCount
<1>0. /\ source[s].version \in Nat /\ source'[s].version \in Nat /\ source[s].version <= source'[s].version
      /\ count \in Nat
  BY SourceStays
<1>h. ASSUME NEW r \in Request, request[r] # NoRequest
      PROVE  request[r].number \in Nat /\ request[r].version \in Nat
  BY <1>h, RequestFacts DEF Handling
<1>v. ASSUME NEW r \in Request, request[r] # NoRequest, request[r].step \in Pointing, request[r].source = s
      PROVE  request[r].version <= source[s].version
  BY <1>v DEF HandlersFit, Fit
<1>w. ASSUME NEW w \in Worker, worker[w] # NoRun, SourceAt(w) = s
      PROVE  worker[w].step \in {"complete", "markQueued"}
  BY <1>w, RunFacts DEF Read
<1>m. Keeps(s) \/ \E r \in Request : PointAtRevision(r) /\ request[r].source = s
  BY <1>w, SourceMovesNext DEF SourceMoves, Points, Publishes, Publish, Doing
<1>x. ASSUME NEW x \in content'[s], Numbering(s, x.origin)
      PROVE  \/ x \in content[s]
             \/ \E r \in Request : AppendRevision(r) /\ Appends(r, s) /\ x.number = request[r].number
  BY <1>x, <1>w, ContentMovesNext
     DEF ContentMoves, Gains, StoreRevision, DropRevisions, Doing, AppendRevision, Appends
<1>1. CASE Keeps(s) /\ \A r \in Request : ~(PointAtRevision(r) /\ request[r].source = s)
  <2>0. source'[s].revisionCount = count
    BY <1>1 DEF Keeps
  <2>1. ASSUME NEW x \in content'[s], Numbering(s, x.origin) PROVE x.number < count
    BY <1>x, <2>1 DEF Numbered
  <2>2. ASSUME NEW r \in Request, Appends(r, s)' PROVE Appends(r, s) /\ request'[r] = request[r]
    <3>1. request'[r] # NoRequest /\ request'[r].step = "append" /\ request'[r].source = s
          /\ Numbering(s, request'[r].origin)
      BY <2>2 DEF Appends, At, Numbering
    <3>2. CASE request'[r] # request[r]
      BY <1>1, <3>1, <3>2, HandlerSteps
         DEF HandlerStep, Goes, Ends, Begins, AddTextSource, Addable, Known
    <3>3. QED  BY <3>1, <3>2 DEF Appends, At
  <2>3. ASSUME NEW r \in Request, Appends(r, s)'
        PROVE  /\ request'[r].number < count
               /\ \A x \in content'[s] : Numbering(s, x.origin) => x.number # request'[r].number
               /\ \A q \in Request : Appends(q, s)' /\ request'[q].number = request'[r].number => q = r
    <3>1. Appends(r, s) /\ request'[r] = request[r] /\ request[r] # NoRequest
      BY <2>2, <2>3 DEF Appends, At
    <3>2. ~AppendRevision(r)
      BY <3>1, AppendGives DEF Goes, Appends, At
    <3>3. ASSUME NEW x \in content'[s], Numbering(s, x.origin) PROVE x.number # request[r].number
      BY <1>x, <3>1, <3>2, <3>3 DEF Numbered
    <3>4. ASSUME NEW q \in Request, Appends(q, s)', request'[q].number = request'[r].number PROVE q = r
      BY <2>2, <3>1, <3>4 DEF Numbered
    <3>5. QED  BY <3>1, <3>3, <3>4 DEF Numbered
  <2>4. ASSUME NEW r \in Request, Edits(r, s)'
        PROVE  /\ count <= request'[r].number + 1
               /\ Numbering(s, request'[r].origin) => request'[r].number = count
    <3>1. request'[r] # NoRequest /\ request'[r].step \in Pointing /\ request'[r].source = s
          /\ request'[r].version = source'[s].version
      BY <2>4 DEF Edits
    <3>2. ASSUME request[r] # NoRequest, request[r].step \in Pointing, request[r].source = s,
                 request[r].version = request'[r].version
          PROVE  Edits(r, s)
      BY <1>0, <1>h, <1>v, <3>1, <3>2 DEF Edits
    <3>3. CASE request[r] = NoRequest
      BY <1>0, <3>1, <3>3, EditsBegin
    <3>4. CASE request[r] # NoRequest /\ request'[r] # request[r]
      <4>1. Goes(r, "find", "revise")
        BY <3>1, <3>4, HandlerSteps DEF HandlerStep, Goes, Ends, Begins, Pointing
      <4>2. Edits(r, s)
        BY <3>1, <3>2, <3>4, <4>1 DEF Goes, At, Pointing
      <4>3. QED  BY <4>1, <4>2 DEF Goes, Numbered
    <3>5. CASE request[r] # NoRequest /\ request'[r] = request[r]
      BY <3>1, <3>2, <3>5 DEF Numbered
    <3>6. QED  BY <3>3, <3>4, <3>5
  <2>5. QED  BY <2>0, <2>1, <2>3, <2>4 DEF Numbered, Numbering
<1>2. ASSUME NEW p \in Request, PointAtRevision(p), request[p].source = s PROVE Numbered(s)'
  <2> DEFINE n == request[p].number
  <2>0. /\ Points(p, s) /\ content' = content
        /\ source'[s].revisionCount = n + 1 /\ source'[s].version = source[s].version + 1
        /\ \A q \in Request : q # p => request'[q] = request[q]
        /\ request'[p].step = "append" /\ request'[p].number = n /\ request'[p].origin = request[p].origin
        /\ request[p] # NoRequest /\ n \in Nat
    BY <1>2, <1>h, PointMoves DEF Points, At
  <2>1. Edits(p, s)
    BY <1>2, <2>0, PointMoves DEF Points, Edits, Pointing, At
  <2>2. count <= n + 1 /\ (Numbering(s, request[p].origin) => n = count)
    BY <2>1 DEF Numbered
  <2>3. ASSUME NEW x \in content[s], Numbering(s, x.origin)
        PROVE  x.number \in Nat /\ x.number < count /\ x.number < n + 1
    <3>1. x.number \in Nat /\ x.number < count
      BY <2>3 DEF Numbered, TInv, TypeInv, Revision
    <3>2. QED  BY <1>0, <2>0, <2>2, <3>1
  <2>4. ASSUME NEW r \in Request, r # p, Appends(r, s)'
        PROVE  Appends(r, s) /\ request'[r] = request[r] /\ request[r].number \in Nat
               /\ request[r].number < count /\ request[r].number < n + 1
    <3>1. Appends(r, s) /\ request'[r] = request[r] /\ request[r] # NoRequest
      BY <2>0, <2>4 DEF Appends, At, Numbering
    <3>2. request[r].number < count /\ request[r].number \in Nat
      BY <1>h, <3>1 DEF Numbered
    <3>3. QED  BY <1>0, <2>0, <2>2, <3>1, <3>2
  <2>5. Appends(p, s)' => n = count
    BY <2>0, <2>2 DEF Appends, Numbering
  <2>6. ASSUME NEW r \in Request, Appends(r, s)'
        PROVE  /\ request'[r].number < n + 1
               /\ \A x \in content[s] : Numbering(s, x.origin) => x.number # request'[r].number
               /\ \A q \in Request : Appends(q, s)' /\ request'[q].number = request'[r].number => q = r
    <3>1. CASE r = p
      BY <2>0, <2>3, <2>4, <2>5, <2>6, <3>1
    <3>2. CASE r # p
      <4>1. \A q \in Request : Appends(q, s)' /\ request'[q].number = request'[r].number => q # p
        BY <1>0, <2>0, <2>4, <2>5, <2>6, <3>2
      <4>2. QED  BY <2>4, <2>6, <3>2, <4>1 DEF Numbered
    <3>3. QED  BY <3>1, <3>2
  <2>7. ASSUME NEW r \in Request, Edits(r, s)' PROVE FALSE
    <3>1. r # p
      BY <2>0, <2>7 DEF Edits, Pointing
    <3>2. /\ request[r] # NoRequest /\ request[r].step \in Pointing /\ request[r].source = s
          /\ request[r].version = source[s].version + 1
      BY <2>0, <2>7, <3>1 DEF Edits
    <3>3. QED  BY <1>0, <1>h, <1>v, <3>2
  <2>8. QED  BY <2>0, <2>3, <2>6, <2>7 DEF Numbered, Numbering
<1>3. QED  BY <1>m, <1>1, <1>2

LEMMA EffectiveNext ==
    ASSUME TInv, [Next]_vars, Healthy', NEW s \in Source, source[s] # Absent,
           s \in FileSource => Read(s), Effective(s)
    PROVE  Effective(s)'
<1>w. ASSUME NEW w \in Worker, worker[w] # NoRun, SourceAt(w) = s
      PROVE  worker[w].step \in {"complete", "markQueued"}
  BY <1>w, RunFacts DEF Read
<1>m. Keeps(s) \/ \E r \in Request : Points(r, s)
  BY <1>w, SourceMovesNext DEF SourceMoves, Publishes, Publish, Doing
<1>x. content[s] \subseteq content'[s]
  BY <1>w, ContentMovesNext DEF ContentMoves, Gains, DropRevisions, Doing
<1>1. CASE Keeps(s)
  <2>1. CASE HasRevision(content[s], source[s].currentRevision)
    BY <1>1, <1>x, <2>1 DEF Effective, HasRevision, Keeps
  <2>2. ASSUME NEW r \in Request, At(r, "append"), request[r].source = s,
               request[r].number = source[s].currentRevision
        PROVE  Effective(s)'
    <3>1. CASE request'[r] = request[r]
      BY <1>1, <2>2, <3>1 DEF Effective, Keeps, At
    <3>2. CASE request'[r] # request[r]
      <4>1. AppendRevision(r)
        BY <2>2, <3>2, HandlerSteps, StaysHealthy
           DEF HandlerStep, Goes, Begins, At, EnqueueUpload, MarkUnqueued, FindRevision, VersionConflict,
               CountText, WriteReviewed, EraseBytes, Resubmit
      <4>2. HasRevision(content'[s], source'[s].currentRevision)
        BY <1>1, <2>2, <4>1, AppendGives DEF Keeps
      <4>3. QED  BY <4>2 DEF Effective, HasRevision
    <3>3. QED  BY <3>1, <3>2
  <2>3. QED  BY <2>1, <2>2 DEF Effective
<1>2. ASSUME NEW r \in Request, Points(r, s) PROVE Effective(s)'
  BY <1>2, PointMoves DEF Points, Effective, At
<1>3. QED  BY <1>m, <1>1, <1>2

\* A new source is unread, or shows the revision its handler is about to store.
LEMMA BornNext ==
    ASSUME TInv, HandlersFit, [Next]_vars, NEW s \in Source, source[s] = Absent, source'[s] # Absent
    PROVE  Shown(s)'
<1>c. content[s] = {} /\ content'[s] = {}
  <2>1. content[s] = {}
    BY DEF HandlersFit
  <2>2. content'[s] = content[s]
    BY ContentMovesNext, AppendGives, RequestFacts, RunFacts
       DEF ContentMoves, At, StoreRevision, DropRevisions, Doing
  <2>3. QED  BY <2>1, <2>2
<1>h. ASSUME NEW r \in Request, request[r] # NoRequest, request[r].source = s
      PROVE  request[r].step = "create" /\ s \in FileSource /\ s \in stored
  BY <1>h, RequestFacts DEF FileSteps, TInv, HandlersExist
<1>0. PICK r \in Request : AddTextSource(r, s) \/ (CreateFileSource(r) /\ s = request[r].source)
  BY SourcesNext DEF SourcesStep, Born, Created
<1>1. CASE AddTextSource(r, s)
  <2>1. /\ s \in TextSource /\ s \notin FileSource /\ Begin(r, Creating(s, "append"))
        /\ source' = [source EXCEPT ![s] = NewSource("REVIEW_REQUIRED", 1)]
    BY <1>1, Bounds DEF AddTextSource, WriteSource
  <2>2. source'[s].revisionCount = 1 /\ source'[s].currentRevision = 0
    <3>1. NewSource("REVIEW_REQUIRED", 1).revisionCount = 1 /\ NewSource("REVIEW_REQUIRED", 1).currentRevision = 0
      BY NewSourceFacts DEF SourceStatus
    <3>2. QED  BY <2>1, <3>1 DEF TInv, TypeInv
  <2>3. /\ request'[r] # NoRequest /\ request'[r].step = "append" /\ request'[r].source = s
        /\ request'[r].number = 0
        /\ \A q \in Request : q # r => request'[q] = request[q]
    <3> DEFINE h == Creating(s, "append")
    <3>1. h \in Handling /\ h.step = "append" /\ h.source = s /\ h.number = 0
      BY CreatingFacts DEF RequestStep
    <3> HIDE DEF h
    <3>2. Begin(r, h)
      BY <2>1 DEF h
    <3>3. QED  BY <3>1, <3>2, BeginFacts
  <2>4. \A q \in Request : request'[q] # NoRequest /\ request'[q].source = s => q = r
    BY <1>h, <2>1, <2>3
  <2>5. Numbered(s)'
    <3>1. \A q \in Request : Appends(q, s)' => q = r
      BY <2>4 DEF Appends, At
    <3>2. \A q \in Request : ~Edits(q, s)'
      BY <2>3, <2>4 DEF Edits, Pointing
    <3>3. QED  BY <1>c, <2>2, <2>3, <3>1, <3>2 DEF Numbered
  <2>6. Effective(s)'
    BY <2>2, <2>3 DEF Effective, At
  <2>7. QED  BY <2>1, <2>5, <2>6 DEF Shown
<1>2. CASE CreateFileSource(r) /\ s = request[r].source
  <2>1. /\ At(r, "create") /\ s \in FileSource /\ Goto(r, "enqueue")
        /\ source' = [source EXCEPT ![s] = NewSource("QUEUED", 0)]
    BY <1>2, <1>h DEF CreateFileSource, At, WriteSource
  <2>2. source'[s].status = "QUEUED"
    <3>1. NewSource("QUEUED", 0).status = "QUEUED"
      BY NewSourceFacts DEF SourceStatus
    <3>2. QED  BY <2>1, <3>1 DEF TInv, TypeInv
  <2>3. request'[r].step = "enqueue" /\ \A q \in Request : q # r => request'[q] = request[q]
    BY <2>1, GotoFacts DEF At, RequestStep
  <2>4. \A q \in Request : request'[q] # NoRequest /\ request'[q].source = s => q = r
    BY <1>2, <1>h, <2>1, <2>3 DEF TInv, HandlersExist, At
  <2>5. \A q \in Serving(s)' : q = r
    BY <2>4 DEF Serving
  <2>6. Unread(s)'
    BY <1>c, <2>2, <2>3, <2>5 DEF Unread, HasExtractedContent, Pointing
  <2>7. QED  BY <2>1, <2>6 DEF Shown
<1>3. QED  BY <1>0, <1>1, <1>2

LEMMA ShownNext ==
    /\ TInv /\ HandlersFit /\ AttemptsCounted /\ RetriesWait /\ RetriedOnce /\ MarkedOnce /\ StoredFirst
    /\ HoldersRun /\ HoldersAlone /\ HoldersAlone' /\ ContentShown
    /\ [Next]_vars /\ [QueueKeeps]_(JQP!vars)
    => ContentShown'
<1> SUFFICES ASSUME TInv, HandlersFit, AttemptsCounted, RetriesWait, RetriedOnce, MarkedOnce, StoredFirst,
                    HoldersRun, HoldersAlone, HoldersAlone', ContentShown,
                    [Next]_vars, [QueueKeeps]_(JQP!vars), Healthy',
                    NEW s \in Source, source'[s] # Absent, source'[s].retryCount <= 1
             PROVE  Shown(s)'
  BY DEF ContentShown
<1>h. Healthy
  BY StaysHealthy
<1>1. CASE source[s] = Absent
  BY <1>1, BornNext
<1>2. CASE source[s] # Absent
  <2>1. source[s].retryCount <= 1
    BY <1>2, SourceStays
  <2>2. Shown(s)
    BY <1>2, <1>h, <2>1 DEF ContentShown
  <2>3. CASE s \in FileSource /\ Unread(s)
    <3>1. ASSUME NEW w \in Worker, Publishes(w, s) PROVE Shown(s)'
      BY <1>2, <1>h, <2>1, <2>3, <3>1, PublishNext DEF Shown
    <3>2. CASE \A w \in Worker : ~Publishes(w, s)
      BY <1>2, <2>3, <3>2, UnreadNext DEF Shown
    <3>3. QED  BY <3>1, <3>2
  <2>4. CASE (s \in FileSource => Read(s)) /\ Numbered(s) /\ Effective(s)
    <3>1. s \in FileSource => Read(s)'
      BY <1>2, <2>4, ReadNext
    <3>2. Numbered(s)' /\ Effective(s)'
      BY <1>2, <2>4, NumberedNext, EffectiveNext
    <3>3. QED  BY <3>1, <3>2 DEF Shown
  <2>5. QED  BY <2>2, <2>3, <2>4 DEF Shown
<1>3. QED  BY <1>1, <1>2

\* While nothing fails, what a source retried at most once shows is stored or about to be, and
\* no correction finds its number taken once the document points at it, however the requests
\* and the readings of a source interleave; a file's restorations, which may begin while it is
\* read, are the exception the property names.
THEOREM ShownContentIsThere == NoneCancelled => (Spec => []EffectiveContentExists)
<1> SUFFICES ASSUME NoneCancelled PROVE Spec => []EffectiveContentExists
  OBVIOUS
<1> DEFINE Owned == HoldersRun /\ HoldersAlone
           Counting == AttemptsCounted /\ RetriesWait /\ RetriedOnce /\ MarkedOnce
           Showing == HandlersFit /\ StoredFirst /\ ContentShown
<1>1. Spec => [][QueueKeeps]_(JQP!vars)
  BY QueueSettles
<1>2. Spec => [](JQP!SoleHolder)
  BY QueueOwners
<1>3. TInv /\ JQP!SoleHolder => Owned
  BY OwnersRun, OwnersAlone
<1>4. Init => Counting
  BY Bounds DEF Init, AttemptsCounted, RetriesWait, RetriedOnce, MarkedOnce, Uploading, Past, Marking, At,
                Live, Doing
<1>5. Init => Showing
  BY DEF Init, HandlersFit, StoredFirst, ContentShown, Doing
<1>6. TInv /\ Owned /\ Counting /\ [Next]_vars /\ [QueueKeeps]_(JQP!vars) => Counting'
  BY AttemptsNext, RetriesNext, RetriedOnceNext, MarkedOnceNext
<1>7. TInv /\ Owned /\ Owned' /\ Counting /\ Showing /\ [Next]_vars /\ [QueueKeeps]_(JQP!vars) => Showing'
  BY HandlersFitNext, StoredFirstNext, ShownNext
<1>8. TInv /\ Showing => EffectiveContentExists
  BY ShownIsEnough
<1> HIDE DEF Owned, Counting, Showing
<1>9. QED
  BY <1>1, <1>2, <1>3, <1>4, <1>5, <1>6, <1>7, <1>8, TInvInit, TInvNext, PTL DEF Spec

=============================================================================
