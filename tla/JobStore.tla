------------------------------ MODULE JobStore ------------------------------
(***************************************************************************)
(* One document of the `extraction_jobs` collection, and what each method  *)
(* of MongoJobQueueAdapter writes into it.  A MongoDB update of one        *)
(* document is atomic, so every operator here is one step wherever it is   *)
(* used; the awaits between two of them are steps of the modules that      *)
(* extend this one.                                                        *)
(*                                                                         *)
(* Time is abstracted to what the claim query compares: `due` says that    *)
(* runAfter has passed, `stale` that claimedAt is older than the claim     *)
(* timeout.                                                                *)
(***************************************************************************)
EXTENDS Naturals

CONSTANTS
    Worker,        \* worker processes; each adapter instance has its own workerId
    NoWorker,      \* claimedBy when it is unset
    MaxAttempts    \* EXTRACTION_MAX_ATTEMPTS, copied to each job as it is enqueued

ASSUME MaxAttemptsAssumption == MaxAttempts \in Nat \ {0}
ASSUME NoWorkerAssumption == NoWorker \notin Worker

JobState == {"queued", "running", "completed", "failed", "cancelled", "dead_letter"}

Document ==
    [state : JobState, attempts : Nat, claimedBy : Worker \cup {NoWorker},
     due : BOOLEAN, stale : BOOLEAN, cancelRequested : BOOLEAN]

Settled(d) == d.state \in JobState \ {"queued", "running"}

\* The $setOnInsert of enqueue; no caller passes delayMs.
NewDocument ==
    [state |-> "queued", attempts |-> 0, claimedBy |-> NoWorker,
     due |-> TRUE, stale |-> FALSE, cancelRequested |-> FALSE]

\* Faulty variants of the operators below, each a bug this code could have; a
\* property of JobQueue fails under each.
RunnableWithoutStaleness(d) == d.due /\ d.state \in {"queued", "running"}
RunnableQueuedOnly(d) == d.due /\ d.state = "queued"
RunnableUnlessCancelled(d) ==
    d.due /\ (d.state \in JobState \ {"running", "cancelled"} \/ d.stale)
ClaimedWithoutCount(d, w) ==
    [d EXCEPT !.state = "running", !.claimedBy = w, !.stale = FALSE]
DispositionOffByOne(attemptsRead, retryable) ==
    CASE ~retryable -> "dead_letter"
      [] retryable /\ attemptsRead > MaxAttempts -> "failed"
      [] OTHER -> "queued"
RetriedFromScratch(d) == [d EXCEPT !.state = "retrying"]

\* The filter of claimNext. It never looks at maxAttempts.
Runnable(d) == d.due /\ (d.state = "queued" \/ (d.state = "running" /\ d.stale))

\* The update of claimNext.
Claimed(d, w) ==
    [d EXCEPT !.state = "running", !.claimedBy = w, !.stale = FALSE,
              !.attempts = @ + 1]

\* reportProgress refreshes claimedAt, whoever calls it and whatever the state.
Progressed(d) == [d EXCEPT !.stale = FALSE]

\* complete, cancel and fail filter on jobId alone and clear the claim.
Released(d, state) ==
    [d EXCEPT !.state = state, !.claimedBy = NoWorker, !.stale = FALSE]

Completed(d) == Released(d, "completed")
Cancelled(d) == Released(d, "cancelled")

\* What fail decides from the attempts it read before writing.
Disposition(attemptsRead, retryable) ==
    CASE ~retryable -> "dead_letter"
      [] retryable /\ attemptsRead >= MaxAttempts -> "failed"
      [] OTHER -> "queued"

\* The write of fail; a requeue sets runAfter to the end of the backoff.
Failed(d, disposition) ==
    IF disposition = "queued"
    THEN [Released(d, "queued") EXCEPT !.due = FALSE]
    ELSE Released(d, disposition)

\* retry (an operator's): only a failed or dead-lettered job, attempts kept.
Retryable(d) == d.state \in {"failed", "dead_letter"}
Retried(d) ==
    [Released(d, "queued") EXCEPT !.due = TRUE, !.cancelRequested = FALSE]

\* requestCancellation: a settled job is left alone.
CancellationRequested(d) ==
    IF Settled(d) THEN d ELSE [d EXCEPT !.cancelRequested = TRUE]

=============================================================================
