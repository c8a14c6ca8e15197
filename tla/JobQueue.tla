------------------------------ MODULE JobQueue ------------------------------
(***************************************************************************)
(* The extraction job queue as its users see it: the collection of job     *)
(* documents, the workers that claim, progress and settle them, the        *)
(* operator that retries one, and the two ways a claim outlives its        *)
(* worker: the worker dies (WorkerDies, then ClaimExpires) or is merely    *)
(* silent for longer than the claim timeout (ClaimSlips).                  *)
(*                                                                         *)
(* This is what the adapter promises to any caller; Ingestion is one       *)
(* caller, step by step, and implements this specification.                *)
(***************************************************************************)
EXTENDS JobStore, FiniteSets

CONSTANTS
    Key,              \* idempotency keys, "extraction:<sourceId>:<attempt>"
    Job,              \* document identities: the random jobId of an insertion
    KeyOf,            \* the key each document is inserted under
    Unborn, Removed,  \* an identity not inserted yet, and one deleted
    NoClaim, NotRead, \* a worker without a job; a worker not inside fail
    MaxCrashes, MaxSlips, MaxOperatorRetries \* bounds on the environment

ASSUME KeyAssumption == KeyOf \in [Job -> Key]
ASSUME SentinelAssumption ==
    /\ Unborn \notin Document /\ Removed \notin Document /\ Unborn # Removed
    /\ NoClaim \notin [job : Job, claim : Nat]
    /\ NotRead \notin Nat
ASSUME BudgetAssumption ==
    MaxCrashes \in Nat /\ MaxSlips \in Nat /\ MaxOperatorRetries \in Nat

VARIABLES
    jobs,             \* jobs[j]: the document, Unborn or Removed
    holding,          \* holding[w]: the ClaimedJob in w's memory, or NoClaim
    failRead,         \* failRead[w]: the attempts fail read, until it writes
    runaway,          \* runaway[w]: jobs whose timed-out extraction still runs in w
    crashes, slips, operatorRetries  \* how often the environment interfered

vars == <<jobs, holding, failRead, runaway, crashes, slips, operatorRetries>>
budgets == <<crashes, slips, operatorRetries>>

Live(j) == jobs[j] \notin {Unborn, Removed}
Holds(w, j) == holding[w] # NoClaim /\ holding[w].job = j
\* Some worker is still working under the claim the document records.
Attended(j) ==
    Live(j) /\ \E w \in Worker : Holds(w, j) /\ holding[w].claim = jobs[j].attempts

TypeInv ==
    /\ jobs \in [Job -> Document \cup {Unborn, Removed}]
    /\ holding \in [Worker -> [job : Job, claim : Nat] \cup {NoClaim}]
    /\ failRead \in [Worker -> Nat \cup {NotRead}]
    /\ runaway \in [Worker -> SUBSET Job]
    /\ \A w \in Worker : failRead[w] # NotRead => holding[w] # NoClaim
    /\ crashes \in 0..MaxCrashes
    /\ slips \in 0..MaxSlips
    /\ operatorRetries \in 0..MaxOperatorRetries

Init ==
    /\ jobs = [j \in Job |-> Unborn]
    /\ holding = [w \in Worker |-> NoClaim]
    /\ failRead = [w \in Worker |-> NotRead]
    /\ runaway = [w \in Worker |-> {}]
    /\ crashes = 0 /\ slips = 0 /\ operatorRetries = 0

-----------------------------------------------------------------------------
(* Callers of the port *)

\* A faulty variant: an insert where the adapter upserts.
EnqueueInsert(j) ==
    /\ jobs[j] = Unborn
    /\ jobs' = [jobs EXCEPT ![j] = NewDocument]
    /\ UNCHANGED <<holding, failRead, runaway, budgets>>

\* An upsert: a key that has a document already is left alone.
Enqueue(j) ==
    /\ jobs[j] = Unborn
    /\ \A i \in Job : KeyOf[i] = KeyOf[j] => ~Live(i)
    /\ jobs' = [jobs EXCEPT ![j] = NewDocument]
    /\ UNCHANGED <<holding, failRead, runaway, budgets>>

RequestCancellation(j) ==
    /\ Live(j)
    /\ jobs' = [jobs EXCEPT ![j] = CancellationRequested(@)]
    /\ UNCHANGED <<holding, failRead, runaway, budgets>>

OperatorRetry(j) ==
    /\ Live(j) /\ Retryable(jobs[j])
    /\ operatorRetries < MaxOperatorRetries
    /\ operatorRetries' = operatorRetries + 1
    /\ jobs' = [jobs EXCEPT ![j] = Retried(@)]
    /\ UNCHANGED <<holding, failRead, runaway, crashes, slips>>

\* deleteForProject: the documents go while a worker may still hold one.
Remove(j) ==
    /\ Live(j)
    /\ jobs' = [jobs EXCEPT ![j] = Removed]
    /\ UNCHANGED <<holding, failRead, runaway, budgets>>

-----------------------------------------------------------------------------
(* Workers *)

ClaimNext(w, j) ==
    /\ holding[w] = NoClaim
    /\ Live(j) /\ Runnable(jobs[j])
    /\ jobs' = [jobs EXCEPT ![j] = Claimed(@, w)]
    /\ holding' = [holding EXCEPT ![w] = [job |-> j, claim |-> jobs[j].attempts + 1]]
    /\ UNCHANGED <<failRead, runaway, budgets>>

\* An updateOne({ jobId }) by the worker: no owner and no state in the filter,
\* and nothing at all when the document is gone.
Write(w, document) ==
    LET j == holding[w].job
    IN  jobs' = IF Live(j) THEN [jobs EXCEPT ![j] = document] ELSE jobs

ReportProgress(w) ==
    /\ holding[w] # NoClaim /\ failRead[w] = NotRead
    /\ Write(w, Progressed(jobs[holding[w].job]))
    /\ UNCHANGED <<holding, failRead, runaway, budgets>>

LetGo(w) == holding' = [holding EXCEPT ![w] = NoClaim]

Complete(w) ==
    /\ holding[w] # NoClaim /\ failRead[w] = NotRead
    /\ Write(w, Completed(jobs[holding[w].job]))
    /\ LetGo(w)
    /\ UNCHANGED <<failRead, runaway, budgets>>

Cancel(w) ==
    /\ holding[w] # NoClaim /\ failRead[w] = NotRead
    /\ Write(w, Cancelled(jobs[holding[w].job]))
    /\ LetGo(w)
    /\ UNCHANGED <<failRead, runaway, budgets>>

\* fail reads the document, and returns at once when there is none ... The race
\* against the extraction timeout does not cancel the extraction, which may run on.
FailRead(w) ==
    /\ holding[w] # NoClaim /\ failRead[w] = NotRead
    /\ \E left \in SUBSET {holding[w].job} :
          runaway' = [runaway EXCEPT ![w] = @ \cup left]
    /\ IF Live(holding[w].job)
       THEN /\ failRead' = [failRead EXCEPT ![w] = jobs[holding[w].job].attempts]
            /\ UNCHANGED holding
       ELSE LetGo(w) /\ UNCHANGED failRead
    /\ UNCHANGED <<jobs, budgets>>

\* ... and writes in a second operation, by what it read.
FailWrite(w, retryable) ==
    /\ failRead[w] # NotRead
    /\ Write(w, Failed(jobs[holding[w].job], Disposition(failRead[w], retryable)))
    /\ failRead' = [failRead EXCEPT ![w] = NotRead]
    /\ LetGo(w)
    /\ UNCHANGED <<runaway, budgets>>

\* An extraction nobody waits for still reports its progress, and so refreshes
\* the claim of whichever worker has the job by now.
LateProgress(w, j) ==
    /\ j \in runaway[w] /\ Live(j)
    /\ jobs' = [jobs EXCEPT ![j] = Progressed(@)]
    /\ UNCHANGED <<holding, failRead, runaway, budgets>>

RunawayEnds(w, j) ==
    /\ j \in runaway[w]
    /\ runaway' = [runaway EXCEPT ![w] = @ \ {j}]
    /\ UNCHANGED <<jobs, holding, failRead, budgets>>

-----------------------------------------------------------------------------
(* The environment *)

\* The process dies, or a database error escapes the worker's loop, whether or
\* not it holds a job at that moment.
WorkerDies(w) ==
    /\ crashes < MaxCrashes
    /\ crashes' = crashes + 1
    /\ LetGo(w)
    /\ failRead' = [failRead EXCEPT ![w] = NotRead]
    /\ runaway' \in {runaway, [runaway EXCEPT ![w] = {}]}
    /\ UNCHANGED <<jobs, slips, operatorRetries>>

Expire(j) ==
    /\ Live(j)
    /\ jobs[j].state = "running" /\ ~jobs[j].stale
    /\ jobs' = [jobs EXCEPT ![j].stale = TRUE]
    /\ UNCHANGED <<holding, failRead, runaway, crashes, operatorRetries>>

\* The timeout passes over a claim nobody works under any more ...
ClaimExpires(j) == ~Attended(j) /\ Expire(j) /\ UNCHANGED slips

\* ... or over a worker that has been silent for that long.
ClaimSlips(j) ==
    /\ Attended(j) /\ Expire(j)
    /\ slips < MaxSlips
    /\ slips' = slips + 1

BackoffEnds(j) ==
    /\ Live(j) /\ ~jobs[j].due
    /\ jobs' = [jobs EXCEPT ![j].due = TRUE]
    /\ UNCHANGED <<holding, failRead, runaway, budgets>>

-----------------------------------------------------------------------------

Settle(w) == Complete(w) \/ Cancel(w) \/ FailRead(w) \/ (\E r \in BOOLEAN : FailWrite(w, r))

WorkerStep(w) ==
    \/ \E j \in Job : ClaimNext(w, j) \/ LateProgress(w, j) \/ RunawayEnds(w, j)
    \/ ReportProgress(w) \/ Settle(w) \/ WorkerDies(w)

JobStep(j) ==
    \/ Enqueue(j) \/ RequestCancellation(j) \/ OperatorRetry(j) \/ Remove(j)
    \/ ClaimExpires(j) \/ ClaimSlips(j) \/ BackoffEnds(j)

Next == (\E w \in Worker : WorkerStep(w)) \/ (\E j \in Job : JobStep(j))

Spec == Init /\ [][Next]_vars

\* The poll loop re-arms itself and a dead process is restarted, so every
\* worker keeps claiming; what it claimed it settles; an extraction left running
\* ends; and time passes.
Fairness ==
    /\ \A w \in Worker :
          /\ WF_vars(\E j \in Job : ClaimNext(w, j)) /\ WF_vars(Settle(w))
          /\ \A j \in Job : WF_vars(RunawayEnds(w, j))
    /\ \A j \in Job : WF_vars(ClaimExpires(j)) /\ WF_vars(BackoffEnds(j))

FairSpec == Spec /\ Fairness

-----------------------------------------------------------------------------
(* Properties *)

\* Two workers never work under the same claim: the attempt number the claim
\* returned tells them apart, even after one of them lost the job unknowingly.
\* (the atomic filter-and-increment of claimNext)
UniqueClaims ==
    \A v, w \in Worker :
        holding[v] # NoClaim /\ holding[v] = holding[w] => v = w

\* One idempotency key never has two documents, whatever was purged meanwhile.
\* (the upsert of enqueue)
OnePerKey ==
    \A i, j \in Job : Live(i) /\ Live(j) /\ KeyOf[i] = KeyOf[j] => i = j

\* While no living worker's claim has timed out, whoever holds a job that still
\* exists is its one owner and the document says so. (claim, release, reclaim)
SoleHolder ==
    slips = 0 =>
        \A w \in Worker : \A j \in Job :
            Holds(w, j) /\ Live(j) =>
                /\ jobs[j].state = "running" /\ jobs[j].claimedBy = w
                /\ holding[w].claim = jobs[j].attempts

\* A job runs at most MaxAttempts times, plus once per worker that died, per
\* claim that timed out over a living worker and per retry an operator forced.
\* (claimNext has no limit: fail alone enforces it, from a separate read)
AttemptsBounded ==
    \A j \in Job :
        Live(j) => jobs[j].attempts <= MaxAttempts + crashes + slips + operatorRetries

\* A settled job is never disturbed, except by an operator's retry or a purge,
\* while no living worker's claim has timed out; runAfter only comes to pass.
\* (complete, cancel and fail do not look at the state they overwrite)
SettledStays ==
    [][slips = 0 =>
        \A j \in Job : Live(j) /\ Settled(jobs[j]) =>
            \/ jobs'[j] \in {jobs[j], [jobs[j] EXCEPT !.due = TRUE], Removed}
            \/ OperatorRetry(j)]_vars

\* Every job ends, whoever dies on the way. (claimedAt and the reclaim filter:
\* "turns a dead worker into a delay rather than a permanently stuck source")
EveryJobEnds ==
    \A j \in Job : Live(j) ~> (jobs[j] = Removed \/ (Live(j) /\ Settled(jobs[j])))

=============================================================================
