----------------------------- MODULE SourceStore -----------------------------
(***************************************************************************)
(* One requirement source: its lifecycle as packages/contracts declares    *)
(* it, its document in `requirement_sources`, its immutable revisions in   *)
(* `extracted_content`, and what each repository method writes into them.  *)
(* A revision is a record [number, origin]; its text is left out.          *)
(***************************************************************************)
EXTENDS Naturals

\* The statuses some handler writes; UPLOADING, UPLOADED, VALIDATING and
\* OCR_REQUIRED are declared too, but nothing ever sets them.
SourceStatus ==
    {"QUEUED", "EXTRACTING", "OCR_PROCESSING", "REVIEW_REQUIRED", "READY", "FAILED",
     "DELETED"}

InProgress(status) == status \in {"QUEUED", "EXTRACTING", "OCR_PROCESSING"}
HasExtractedContent(status) == status \in {"REVIEW_REQUIRED", "READY"}

\* The declared transitions, between the statuses above; staying put is allowed.
Transitions ==
    [QUEUED |-> {"EXTRACTING", "FAILED", "DELETED"},
     EXTRACTING |-> {"REVIEW_REQUIRED", "READY", "FAILED", "DELETED"},
     OCR_PROCESSING |-> {"REVIEW_REQUIRED", "READY", "FAILED", "DELETED"},
     REVIEW_REQUIRED |-> {"READY", "QUEUED", "FAILED", "DELETED"},
     READY |-> {"REVIEW_REQUIRED", "QUEUED", "DELETED"},
     FAILED |-> {"QUEUED", "DELETED"},
     DELETED |-> {}]
CanTransition(from, to) == from = to \/ to \in Transitions[from]

\* CORRUPTED_FILE stands for every code that is a property of the file.
FailureCode ==
    {"NONE", "EXTRACTION_FAILED", "EXTRACTION_TIMEOUT", "OCR_FAILED", "QUEUE_FAILURE",
     "CORRUPTED_FILE"}
IsRetryableFailure(code) == code # "CORRUPTED_FILE"

\* classify: what an extraction error becomes, and whether the queue tries again. A legacy
\* conversion that timed out is recorded as CORRUPTED_FILE: the queue tries it again, a person
\* cannot.
Failure ==
    [code : {"EXTRACTION_FAILED", "EXTRACTION_TIMEOUT"}, retryable : {TRUE}]
        \cup [code : {"OCR_FAILED", "CORRUPTED_FILE"}, retryable : BOOLEAN]
Unrecognised == [code |-> "EXTRACTION_FAILED", retryable |-> TRUE]
TimedOut == [code |-> "EXTRACTION_TIMEOUT", retryable |-> TRUE]

Origin == {"EXTRACTION", "CORRECTION", "RESTORE"}
Revision == [number : Nat, origin : Origin]

SourceDocument ==
    [status : SourceStatus, reviewed : BOOLEAN, version : Nat, currentRevision : Nat,
     revisionCount : Nat, retryCount : Nat, failureCode : FailureCode, deletedAt : BOOLEAN]

NewSource(status, revisionCount) ==
    [status |-> status, reviewed |-> FALSE, version |-> 0, currentRevision |-> 0,
     revisionCount |-> revisionCount, retryCount |-> 0, failureCode |-> "NONE",
     deletedAt |-> FALSE]

\* setStatus: by sourceId alone, whatever the stored status; no version bump.
Moved(d, status) == [d EXCEPT !.status = status]
FailedUndeclared(d, code) == [d EXCEPT !.status = "EXTRACTION_FAILED"] \* faulty
FailedWith(d, code) == [Moved(d, "FAILED") EXCEPT !.failureCode = code]
QueuedAgain(d) == [Moved(d, "QUEUED") EXCEPT !.failureCode = "NONE"]
Published(d, status) ==
    [Moved(d, status) EXCEPT
        !.currentRevision = 0, !.revisionCount = 1, !.failureCode = "NONE"]

\* The updates of updateWithVersion: a revision to come, and an approval.
Revised(d, number) ==
    [d EXCEPT !.version = @ + 1, !.currentRevision = number, !.revisionCount = number + 1]
Rewritten(d, number) ==
    [Revised(d, number) EXCEPT !.status = "REVIEW_REQUIRED", !.reviewed = FALSE]
Reviewed(d) == [d EXCEPT !.version = @ + 1, !.status = "READY", !.reviewed = TRUE]

SoftDeleted(d) == [d EXCEPT !.version = @ + 1, !.status = "DELETED", !.deletedAt = TRUE]

\* The unique index on { sourceId, revision }.
HasRevision(revisions, number) == \E r \in revisions : r.number = number

=============================================================================
