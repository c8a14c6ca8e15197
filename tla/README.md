# Verification of the requirement document generator

TLA+ models of the stateful core of this repository and of the arithmetic it
rests on, the TLC runs that check them on small instances, and TLAPS proofs that
the stateful components keep their properties for every value of the constants. `PROJECT.json` maps every definition to the lines it models and
lists components, runs, hazards, findings and theorems. Paths below are relative
to the repository (`src/`).

## 1. The system

A client's requirements (files and pasted text) become an approved requirements
baseline, a locked technology stack, an estimate, and then seven controlled
documents that are generated, edited, validated, approved and exported. A NestJS
API (`apps/api/src`) holds all state in MongoDB and a file store; a Next.js
client (`apps/web`) shows it; `packages/contracts/src` has the state tables and
pure rules both share. A project is reached by an unguessable recovery secret.

Three facts decide where it can go wrong:

* MongoDB gives atomicity per document only, and no transaction is used. Every
  handler is a sequence of awaited operations, so any two handlers interleave,
  and a process that stops leaves a prefix of its operations behind.
* Conflicting writes are kept apart by optimistic versions (`recordVersion`,
  `version`) in the filter of an update, where the code has them; not every
  update does, and not every result of such an update is looked at.
* Long work is detached from the request that began it: extraction runs in workers
  that poll a queue in the same database, analysis runs and integrations in the API's
  own process, with nothing to resume them.

### Inventory

| Part (under `apps/api/src`) | State | Operations | What makes it correct |
|---|---|---|---|
| Job queue, `requirements/queue/*adapter`, `job.schema.ts` | job documents: state, attempts, claim, runAfter, cancellation | enqueue, claimNext, reportProgress, complete, fail, cancel, deleteForProject | one owner per job, bounded attempts, every job ends |
| Operator's queue page, `admin/admin-queue.service.ts` | none of its own | retry a failed job; counts | a retry disturbs no job that is running |
| Requirement sources, `requirements/*` | source record, revisions, stored bytes | upload, paste, edit, correct, restore, review, retry, delete | shown content exists; bytes and records go together |
| Extraction worker, `queue/extraction.worker.ts` | the job in memory | process, storeResult, handleFailure | every source in progress gets out of it |
| Document engine, `documents/documents.service.ts` | record, words (sections, features, rows), version archive | generate, edit, exclude, regenerate, restore, validate, acknowledge, approve, mark final, reopen, revise | what is approved is what was checked; history stands; dependents hear of withdrawals |
| AI service of the documents, `documents/documents-ai.service.ts` | a run per generation, a record per correction | generate, regenerate a section, features or rows, suggest assumptions, correct | a correction is told as it was; a run ends |
| Projects, sessions, retention, `projects`, `project-access`, `retention` | project record, sessions, content of every other part | create, edit sections, delete, recover, expire on access, sweep | nothing is purged early, a purge leaves nothing, every project ends |
| Analysis runs and baseline, `analysis/analysis.service.ts`, `baseline.service.ts` | runs, requirements, findings, baseline versions | start, cancel, execute, refresh, review, approve, outdate | what was approved does not change; a cancelled run leaves nothing; a run ends |
| Clarifications and conflicts, `clarification-integration.service.ts` | requirements, questions with their answers, conflicts | answer, confirm, integrate, decide, propose, re-evaluate | a person's words and decisions are kept; an integration outdates what was approved |
| Technology stack, `stack` | versions, components, recommendation runs | select, suggest, accept, reject, approve, lock, unlock | a locked choice is not changed; only decisions are sealed |
| Estimate, `estimation` | versions, lines, dependencies, runs | generate, override, reset, exclude, set team and calendar, acknowledge, approve, reopen | figures a person set are kept; approval is of the figures and verdict acknowledged |
| Calendar, schedule, capacity, effort, chunking, baseline readiness (contracts and engines) | none | pure functions | dates agree, plans can be followed, no hours are lost, what is unread is counted |
| Composers of the documents, `documents/composers` | none | compose, coverage, checks of a document's words | a fresh document passes its checks or its upstream is at fault; hours are those approved |
| Rate limiting, `abuse` | counters per window, in memory | consume, evict | the limit holds within a window |
| Export, traceability, providers, audit, config, health, web | none that decides anything | composing, formatting, I/O, read-only views | see section 7 |

Calls go one way: sources enqueue jobs and workers write sources back; the
baseline, stack and estimate are read by the document engine, which computes on
every read whether a document is out of date with them; a document that is
withdrawn writes a reason into the documents downstream of it; retention and
deletion call the delete method of every other part.

## 2. Modules

| Module | Models |
|---|---|
| `JobStore` | one job document and each update the adapter makes to it |
| `JobQueue` | the collection, its workers, the operator, dying and slow workers |
| `JobQueue_proofs`, `Ingestion_proofs`, `ProjectLifecycle_proofs`, `DocumentEngine_proofs`, `DocumentAi_proofs` | theorems about those modules (section 5) |
| `Review_proofs`, `Planning_proofs`, `Calculators_proofs` | theorems about `AnalysisRuns` and `Clarifications` and their composition in `MCReview`, about `Stack` and `Estimation` and theirs in `MCPlanning`, and about the calculators |
| `SourceStore` | the source record, its status table, failure codes, revisions and updates |
| `Ingestion` | handlers of the source service and the extraction worker, await by await, over `SourceStore` and `JobStore`; implements `JobQueue` |
| `DocumentStore` | dependency graph, status table, the document record and its updates |
| `DocumentEngine` | the handlers of the document service, await by await |
| `Corrections` | the records of corrections, and that they tell the truth |
| `DocumentAi` | the AI service over one document: run records, corrections, and what the engine makes of them |
| `ProjectStore` | the project record: statuses, dates, what may be done when, retention policy, updates |
| `ProjectLifecycle` | the project handlers, recovery of a session, and the retention sweep with its purge |
| `AnalysisRuns` | analysis runs and the baselines they make: start, cancel, execution, persist, refresh, review, approval |
| `Clarifications` | a question, its conflict and the requirements it is about |
| `VersionedPlan` | what the stack and the estimate share: versions, of which the newest not superseded stands |
| `Stack`, `Estimation` | the handlers of those two services, one read or write at a time |
| `WorkCalendar`, `Scheduling`, `Capacity`, `Effort`, `Chunking`, `Readiness` | pure algorithms, as operators |
| `Composers` | Feature Listing, Acceptance Criteria and Work Breakdown as composed from an upstream, and their checks |
| `Calculations` | bounded inputs for all of these, and what their results must be |
| `MC*` | model values, symmetry and composition for TLC |

Definitions marked *faulty* are plausible bugs, never part of a specification;
each property is violated when one of them takes the place of the real definition.

### JobQueue

`jobs[j]` is the document; `Job` is the set of random identities and `KeyOf` the
idempotency key each is inserted under. `holding[w]` is the claim in a worker's
memory and `failRead[w]` the attempts that `fail` has read, between its read and its
write. Every other adapter method is one atomic update and one action. The
percentage of progress and the length of the backoff are left out: `due` says
whether `runAfter` has passed, `stale` whether `claimedAt` is older than the claim
timeout. A worker may die (`WorkerDies`, and then `ClaimExpires`) or be silent for longer than the
timeout while alive (`ClaimSlips`). A timed-out extraction is not stopped by the
code; `runaway` holds those that may still report progress on a job that
the worker has already given up.

### Ingestion

`source`, `content` (revisions), `stored` (bytes), `jobs`, one record per worker
(`worker[w].step` is the next awaited operation) and one per request in progress. A
version-checked update that matches nothing is `VersionConflict`; a request may be cut
short (`Abort`), an operation in the worker's `try` may throw (`Stumble`), the worker
may die. The client sends the version it last read, which is taken to be the one the
handler reads. The extractors are one step with every outcome `classify` tells apart.
A job's identity is its key: source and retry count. The jobs somebody may cancel are a constant, `Cancellable`, because
`ExtractionQueue.cancel` exists but no route calls it. Four statuses of the
table (UPLOADING, UPLOADED, VALIDATING, OCR_REQUIRED) are never written by the code.

`ImplementsJobQueue` states that `Ingestion` implements `JobQueue`: jobs, runaway
extractions and budgets map to themselves, and the claims in memory and the read of `fail` are derived
from the step each worker is at.

### DocumentEngine

`documents[d]` is the record, `content[d][v]` the words of a version, `archived[d][v]`
the history, `upstream[k]` the baseline, stack or estimate. Words are
numbers: what matters is whether two are the same. A document has one channel of
words (sections, features or rows, according to its type). A request is a list of the awaited
operations still to do, with what it read when it began. The initial reads of a
handler are one step, and so are the read and write of `archive`; `recordVersion` in
the filter of the later update is what has to make up for the time between. Composers
may write any words and validation may give any verdict. Documents outside `Doc` stand for
approved and current ones. Correction logs, lineage and the recorded prerequisite versions
are left out: nothing that is modelled reads them. `ChainAssumption` asks that `Doc` leave out no document that
lies between two of its own, as it must for the lock on prerequisites to work as it does among all seven.

### DocumentAi

`calls[c]` is a request with the steps it still has to take. `Accepts` is the engine's answer to it in one
step, since `DocumentEngine` has the engine's own steps. `written` is the baseline version the words were
composed from, `stamped` the one in the record. What the model writes is left out: whether it answered
decides a suggestion only, since everything else falls back to the composition. For each correction,
`outcome` is what the record says and `effect` what was done.

### ProjectLifecycle

`projects[p]` is the record, `content[p]` the places (collections in the order of the purge,
then file storage) that hold something of a project, `session[c]` the project of a client's
cookie. Time is a day counter. A handler compares, reads and writes in separate steps; a sweep
goes through its three phases (expire, queue for deletion, purge), a batch of the oldest
at a time, purging place by place. The timer and the operator may sweep at once. A step of a purge
may fail, or the sweeping process die (`faults`).

### AnalysisRuns and Clarifications

A run is a record, its process a list of stages (`proc`): chunks, reconciliation, then the writes of
`persist`, baseline, supersession and completion one by one. `items` and `blocking` are what the
stored requirements and findings amount to. `lost` are the runs whose process died. Baseline versions are
unique because their index is. `Clarifications` has one question about one conflict; `asking[c]` is
where a client's integration is and which records it loaded when. A record's `version` decides
a conditional update, and the updates that have no such filter overwrite.

### Stack and Estimation

A version is a row (`stacks`, `snapshots`), components, lines and dependencies are rows of their own. A
request's stage says which read it has made. A read and a write filtered on the version read are one
action, since nothing can come between them and the write still happen. What a run calculates is one
figure, and `FeasibilityOf` any function from team and figures to a verdict: the arithmetic itself
is in `Effort`, `Capacity` and `Scheduling`. Which categories a project type needs is a constant.

### Calculators

`Calculations` has one variable, an input of one of the calculators or of the composers, and no steps.
Hours, people and availability are counted in hundredths, ratios and scores in thousandths, so the
code's rounding is explicit. Words (a requirement's text, from which drivers and unknowns are read, and
the text of a block) are replaced by what is read from them.

A document in `Composers` is a function from rows to what its checks read of them: of the Feature Listing from
lines of the estimate, of the Work Breakdown from outline numbers. Composition and checks are separate
operators, as they are separate code, and take the same upstream; a finding is named as in the code.
The breakdown's days come from `Scheduling`, since the approved plan is what `buildSchedule` gave.

## 3. Runs

Every bound is a constant of the module: budgets for what the environment does
(`MaxCrashes`, `MaxSlips`, `MaxOperatorRetries`, `MaxFaults`, `MaxAborts`,
`MaxOverlaps`, `MaxUpstream`), caps on counters (`MaxAttempts`, `MaxVersion`,
`MaxVersions`, `MaxRecordVersion`, `MaxWrites`, `MaxTexts`, `MaxRuns`, `MaxAnswers`, `MaxComponents`,
`MaxUnits`, `MaxEdges`, `MaxSources`, `MaxRequests`, `MaxStackRequests`, `MaxTime`, `MaxContentWrites`), bounds of
inputs (`MaxScheduleDays`, `MaxBlocks`, `ChunkBudget`, `Deadlines`), and `MaxDisturbances`, which
caps all budgets of a module together. Deadlock is not checked
anywhere: with the budgets spent and every job settled there is nothing left to do.

| Run | Instance | Shows |
|---|---|---|
| `job_queue` | 2 workers, 2 identities of one key, 2 attempts, a crash, a slip, an operator's retry; fair | types, `UniqueClaims`, `SoleHolder`, `AttemptsBounded`, `SettledStays`, `EveryJobEnds` |
| `ingest` | one file or one pasted text, 2 workers, 2 requests, up to two edits, one disturbance or overlap of any kind | types, `EffectiveContentExists`, `BytesAccountedFor`, `OneActiveJob`, `ImplementsJobQueue` |
| `ingest_live` | 1 scanned legacy file, 1 worker, 1 request, 2 attempts, its first job may be cancelled, nothing failing; fair | `EveryExtractionEnds` |
| `ingest_stuck` | 1 file, 1 crash; fair | violated: see findings |
| `ingest_corrections` | 1 file, 1 crash, 1 correction | violated: see findings |
| `docs` | Feature Listing and Acceptance Criteria with two overlapping requests or one cut short, 2 versions and 3 writes; the same two, one request at a time, 3 versions and a baseline that moves under the first; one at a time along Feature Listing, Acceptance Criteria, Assumptions; or the AI service, one fault | types, `WithdrawnIsTold`, `ApprovedOnCheckedRecord`, `ApprovedAsValidated`, `HistoryStands`, `CorrectionsTellTheTruth` |
| `ai_ends` | a document, one request, nothing failing; fair | violated: see findings |
| `ai_stamp` | a document, one request, a baseline approved meanwhile | violated: see findings |
| `lifecycle` | 1 project, 2 clients, 2 sweeps, grace periods of a day | types and agreeing dates, `PurgedIsEmpty`, `DeletionIsFinal`, `NothingPurgedEarly` |
| `lifecycle_live` | 2 projects, batches of one, 1 failure; fair | `EveryProjectEnds` |
| `review` | 2 runs of one chunk, a reviewer, one failure or crash, changing sources; or 2 clients, 1 requirement, 2 answers | types, `CancelledLeavesNothing`, `NothingLeftIntegrating`, `SignedContentFrozen`, `EveryRunEnds`, `PersonsWordsKept`, `IntegrationOutdates` |
| `planning` | 2 clients and a stack of one category, 4 requests, a crash; or 2 clients and an estimate of one requirement, at most 3 lines, 3 requests; or the calculators and composers over their inputs | types, `LockIsAWall`, `OnlyDecisionsAreSealed`, `OverridesSurvive`, `ApprovedWithEyesOpen`, `PlanCanBeFollowed`, `VerdictsAgree`, `NoHoursLost`, `FreshDocumentsPass`, `ReadyIsComplete` |

`review`, `planning` and the AI part of `docs` hold parts that share no state; the other parts of `docs` are instances
of `DocumentEngine` on the same variables with smaller bounds, under the constants its properties are checked with; `MCDocumentEngine`, `MCReview` and `MCPlanning` put them together and restate, where needed,
the modules' properties for the part they are about. The initial state says which
part is in play and the variables of the others stay as they begin, so the states of the parts
add up and do not multiply; a property of one part says nothing in the states of another.

Why the bounds are enough. Two workers are needed for a claim to be lost to another and
one crash or slip for it to be lost at all; two attempts for a retry by the queue to differ
from the last one. No handler looks at two sources; the file and the text of `ingest` are
alternatives (`MaxSources` is 1), there because different routes lead to them. Two
overlapping requests are needed for a stale read, and a third could only repeat what the second does to
the first's `recordVersion`. Two documents, one depending on the other, are the least that show
a withdrawal, and a third that rests on the second shows that the telling goes on beyond the next document; three
versions are a generation, an edit and one that comes back to the first. Two projects and a batch of one are the least in which one project can starve another; two
sweeps the least that purge at once. Two runs are the least that supersede a baseline. The
budgets are shared because two independent failures at once multiply states
without new interleavings between the handlers; the queue alone is explored with
several. The calculators' inputs are three tasks with up to three links of every type (three are needed
for a loop that is not a pair and for a pair of paths to one task), a week of every kind of
calendar with holidays on and beside its edges, and documents of two blocks. The composers' are two requirements
of every category the checks tell apart, one of them perhaps rejected or left out, and a line for the first, a line for
either, both or none, two lines of overhead and one link: enough for a line that cites nothing the listing
answers for, a requirement behind two rows, a requirement behind none, and a module with a tier and one without.

Properties are often conditional ("while no claim has timed out over a living worker",
"one request at a time", "while nothing fails"): that is where the code
keeps them. What happens outside is in section 6, and is not claimed.

### Fairness

* Queue (`job_queue`, `ingest_live`, `ingest_stuck`): claiming (the poll
  loop re-arms itself, and a dead worker is restarted by its supervisor), every
  later step of a worker or handler that started (each await resolves or rejects), the
  end of a timed-out extraction, and the passing of the claim timeout and of the backoff.
* AI service (`ai_ends`): the next step of a request, since every await resolves or rejects.
* Lifecycle: the sweep's timer and its steps, and the passing of days.
* Analysis runs: the next step of a run, as long as its process lives. `EveryRunEnds` is about those
  runs; one whose process dies stays active for ever, which the property leaves out.

Nothing is assumed of users, operators, progress reports or failures.

## 4. Findings

* `ingest_corrections`: a worker dies after publishing its result and before
  completing the job. The source is READY and its user corrects it; the job is reclaimed and
  `storeResult` (`extraction.worker.ts:238`) deletes every revision, the corrections too.
* `ingest_stuck`: a worker dies after `fail` and before marking the source FAILED
  (`extraction.worker.ts:304`). No job is left to reclaim, `retry` refuses a source that
  is not FAILED, and the source is EXTRACTING for ever.
* `ai_ends`: the engine refuses what was generated (a prerequisite was reopened, or the record moved
  on, while the model wrote) and the run record stays RUNNING (`documents-ai.service.ts:466`). The refusal's text
  says one can try again (`document-errors.ts:87`), but every later generation meets the active run and is refused.
* `ai_stamp`: the words are composed from one read of the baseline, and the engine stamps the record with a second
  read minutes later (`documents-ai.service.ts:121`). A baseline approved in between leaves a document that
  claims to be of a version it does not know (`docs/architecture/documents.md:57`); it is told current.

## 5. Proofs

`JobQueue_proofs` proves, for every set of workers, keys and jobs and every bound:

| Theorem | States |
|---|---|
| `TypeCorrect` | `Spec => []TypeInv` |
| `ClaimsAreUnique` | no two workers hold the same claim, whatever died or was slow |
| `KeysAreIdempotent` | a key never has two live documents |
| `HoldersOwnTheirJob` | while no claim slipped, the holder of a job is its one owner |
| `AttemptsStayBounded` | while no claim slipped, attempts are within `MaxAttempts` + crashes + operator retries |
| `SettledJobsStay` | while no claim slipped, a settled job is only touched by an operator, a purge or the end of its backoff |

Assumptions: `KeyAssumption`, `SentinelAssumption`, `BudgetAssumption`, and
`MaxAttemptsAssumption`, `NoWorkerAssumption` of `JobStore`; all are evaluated by the
runs of `MCJobQueue`.

None of these is inductive alone. `UniqueClaims` needs `ClaimsCounted`: a claim in memory is
never larger than the document's attempts, so a new one, one larger, differs from all others. `SoleHolder`
and the bound on attempts need each other: `fail` decides from an earlier read, so the bound
holds only if that read is still true (`Owned`: the holder is alone, its claim
does not go stale, `failRead` is the present count), and a job waiting to be claimed must have an
attempt left (`WithinBudget`: a crash pays for the claim it leaves behind). Thus

    IInv == TypeInv /\ ClaimsCounted /\ UniqueClaims /\ (slips = 0 => Undisturbed)

where `Undisturbed` is `Owned` and `WithinBudget` for every live job. `slips` never
decreases, so a state with `slips = 0` has a predecessor with `slips = 0`. `SettledJobsStay` is an action
property; it follows from `IInv` (a settled job has no holder, so no worker's write
reaches it) and `StaleOnlyRunning` (nor does a claim timeout).

The other components follow the same scheme: an inductive invariant of the types and of what each
process in flight may still rely on, one lemma per action, and the theorems from it. Assumptions are those of the
modules, named where the constants are declared and evaluated by the runs.

| Module | Invariant beyond the types | Theorems |
|---|---|---|
| `ProjectLifecycle_proofs` | a handler's project exists, and one that will write the record still sees its version (`HandlersKeepUp`); what a sweep is about to take was due (`SweepsAreDue`); while nothing failed, places purged stay empty, and a DELETED project's are (`PurgesEmpty`) | `TypeCorrect`, `PurgedProjectsAreEmpty`, `DeletionsAreFinal`, `PurgesAreDue` |
| `Ingestion_proofs` | runs and handlers have a source and a job that exist, and a text is never FAILED (`TInv`); a source nobody deleted has its bytes, and while nothing failed or was cut short, bytes and records agree up to the handler that is between the two (`BytesWait`); what a handler has read still holds under the version it read (`HandlersFit`), and what a source shows is stored or in a handler's hands (`ContentShown`) | `TypeCorrect`, `NoBytesLeftOver`, `QueueIsImplemented`, `OneJobAtATime`, `ShownContentIsThere` |
| `Review_proofs`, runs and baselines | where a run's process stands agrees with its record (`StagesAgree`), only persisted runs have requirements, a run has one baseline, the newest one stands | `TypeCorrect`, `CancelsLeaveNothing`, `SignedStay` |
| `Review_proofs`, questions | a record that still has the version an integration read is still nobody's (`ReadHolds`, `ConflictHolds`); while the question is INTEGRATING somebody holds its version (`SomebodyCloses`) | `QuestionTypeCorrect`, `IntegrationsEnd`, `DecisionsAreKept`, `OldBaselinesAreOutdated` |
| `Planning_proofs`, the stack | a component whose record has the version read is still unlocked when it is about to be superseded, and a person's decision when it is about to be locked (`AsRead`); a run stored as running is awaited | `StackTypeCorrect`, `LocksHold`, `DecisionsAreSealed` |
| `Planning_proofs`, the estimate | at the approval, the row under the version checked still carries the acknowledgement; a calculated line keeps its calculated figure (`KeepsItsFigure`); APPROVED is only stored where it was, or on a superseded row | `TypeCorrect`, `OverridesAreKept`, `ApprovalsAreInformed` |
| `DocumentEngine_proofs` | a handler is in the order of its steps and what its next step uses is there (`Fits`); approve and markFinal still have what they checked if their `recordVersion` stands (`Vouches`); one request at a time, record, words and history agree but for what the handler has yet to do (`Settled`); downstream of a withdrawn document everyone is still to be told, or is not approved and current nor about to be (`DependentsWarned`) | `TypeCorrect`, `ApprovalsAreChecked`, `ApprovedWasValidated`, `ApprovedHistoryStands`, `WithdrawalsAreTold` |
| `DocumentAi_proofs` | a request takes its steps in order (`InOrder`), and a correction record belongs to one request (`RecordsApart`); until the engine is asked, the document is as protected as the request saw it if its `recordVersion` is the one expected (`Unchanged`), and from then on record and request agree on what was done (`Told`) | `OutcomesAreKept` |

Handlers of the document engine carry the list of the steps they have left. `Before` says which step comes after which
in each operation, so one lemma (`HandleMoves`) says how any handler goes on, and every invariant above is a statement about
a handler at its next step. `WithdrawalsAreTold` is about races: an approval that read its record before it was told
fails, because telling moves the `recordVersion`; and a document told early cannot lose its reason and be approved
again before the telling is over, because one of its prerequisites is the withdrawn document, or was told before it, or will be told
only together with it (`NobodyApproves`, from `ChainAssumption` and the order of telling).

`QueueIsImplemented` is a refinement proved step by step: each action of `Ingestion` is the action of `JobQueue` its
job operation is, or leaves jobs, claims, reads and budgets alone. It, `OneJobAtATime` and
`ShownContentIsThere` have the hypothesis `NoneCancelled`: nobody may cancel, or no operation of a worker fails. No route cancels a job, which is the first; where
somebody could, the failure of a worker's last write (`markCancelled`) would make it fail a job it had already cancelled
(section 6), which is no step of the queue. `OneJobAtATime` uses the theorem `SettledJobsStay` of the queue through
the refinement: a settled job stays settled, so a retry counted in the source (`AttemptsCounted`) finds the earlier jobs settled
until it has enqueued its own (`RetriesWait`).

`ShownContentIsThere` is about two collections written one after the other: a correction or a restore moves the
record to revision *n* and appends *n* later; a worker deletes all revisions, stores revision 0 and points the record at it later.
Its invariant (`ContentShown`) says of a source retried at most once that it is `Unread`, with nothing stored and no worker publishing,
or it is `Read` and then `Numbered` (every stored number is below `revisionCount`, but for those a restore took while
the file was read) and `Effective` (the number shown is stored, or one handler that no other overtakes is about to append it). That a
source is read only once while nothing fails is where the queue comes in: `HoldersOwnTheirJob` of `JobQueue`, through the
refinement, makes the worker that stores and publishes the only one with a job of that source (`HoldersMeet`), and `OneJobAtATime`'s
counting leaves no second job. TLC checked the parts on the instance of `ingest` before they were proved.

`OutcomesAreKept` is about a decision taken from a stale read: whether a section's correction will be a proposal is read before
the model writes, and whether the engine replaces words or proposes is decided minutes later, by the section as it is then. They agree
because the engine refuses every `recordVersion` but the one the request expects, and every edit in between moves it. Its hypothesis,
`NothingIsNoDocument`, says that the value for "no document" is not a document, as a model value is not.

`DeletionsAreFinal`, `PurgesAreDue`, `SignedStay`, `LocksHold`, `DecisionsAreSealed`, `OverridesAreKept`, `ApprovalsAreInformed`,
`ApprovalsAreChecked`, `ApprovedHistoryStands`, `DecisionsAreKept` and `OldBaselinesAreOutdated` are action properties. Each follows from the invariant in the state before
the step: the write that could break the property is filtered on a version, and the invariant says what that version still vouches for.

The calculators have no steps; `Calculators_proofs` states for every input what `Calculations` checks on small ones.

| Theorem | States |
|---|---|
| `DeadlineMeasuresAgree` | whatever the weekdays worked and the holidays, work fits into the working days up to a deadline exactly when the date it finishes on is not past it |
| `StaffingSuffices` | the people recommended for some hours, rounded up to a hundredth, have no gap when their capacity is worked out and rounded again |
| `MoreTimeIsNoWorse` | more days never make the verdict on a team worse, whatever the plan, the team's lines and the days its people join |
| `AlignedIsUnblocked` | a review without blockers lacks nothing but verbatim quotations; one more than 85 % aligned has none of the five blockers that are reasons to be incomplete |
| `LoopsAreFound` | the search for loops reports one exactly when the links make one, and what it reports is one |
| `AnyPlanCanBeFollowed`, `SchedulesAreFollowed` | every plan without a loop has a schedule that can be followed (`PlanCanBeFollowed`) |
| `VerdictsAlwaysAgree` | `VerdictsAgree`, for every timeline, plan, team and number of days |
| `HoursAreNeverLost` | `NoHoursLost`, for every stack, kind of work, level, drivers and unknowns |
| `ReadyIsAlwaysComplete` | `ReadyIsComplete`, for any documents, ceiling and failed chunks, and for any review |

`DeadlineMeasuresAgree` has one condition, `deadline < start + MaxScheduleDays`: the count stops looking there while the date goes
on. The dates of a finish are a function of how many days were worked (`DatesExist`), and `DatesCount` counts the
working days up to each of them; the search that gives up (no weekday worked, or a holiday for ever) is a case of
`NextFacts`. `MoreTimeIsNoWorse` goes through every rounding: hours of a line, hours of a role, the gaps added over the roles, the
overloaded roles, and the rank of the verdict (`VerdictGrows`). The days required are a given number in it; `VerdictsAlwaysAgree`
puts the length of the schedule in its place.
`AlignedIsUnblocked` needs the score to be a number, hence `IsReview`: finite sets of findings, and items with a score.

Sums over finite sets are recursive functions over subsets, whose existence the library proves only with an operator as parameter. `SumExists` and
`SumsCompare` do without: the sizes at which a claim fails are a set of naturals, and its least element (`Smallest`, from the
well-foundedness of the naturals) is contradictory.

The schedule is folds over a sequence of tasks and a search with a stack. Both are taken as runs of states: `FoldRuns` gives
for a fold the states after each element, `StepsFacts` for the search the states after each step, and a property
of the last state is an invariant of such a run, proved step by step as for the components.
* `SearchIsRight` says that the path walked is linked, that what is behind the search leads to no loop but those recorded, and
  that nothing is forgotten; every step lowers what is still to be looked at, so the steps given suffice
  (`SearchComesToAnEnd`).
* `OrderFacts`: in a plan without loops the order has every task once, after those it waits for. `PlacementIsRight`: each
  task placed respects the links from those before it and the person it was given is free.
* `LatestFinishIsRight` and `SlippedIsFollowed`: no latest finish is past what a successor allows, so all tasks can
  slip at once. This needs `LagsAreKnown`: the backward pass ignores the lags of start-to-start and start-to-finish
  links (section 6).

What a plan is (`IsPlan`) is what the planner hands over: finitely many numbered tasks, finitely many links of known types with
whole lags, whole hours and people, at least a hundredth of an hour a day. `IsQuestion` adds a team and a number of days,
`IsTimeline` a deadline within the days counted, `IsLine` a kind of work and a level there are, `IsReading` documents
whose blocks come in pieces within the budget, as `splitBlock` leaves them. Each is a condition on the
shape of an input only, and every input `Calculations` lists for TLC satisfies it.

`HoursAreNeverLost` rounds once for each role: `RoundedParts` bounds a sum of parts rounded to the nearest by half a hundredth each,
with products of two unknowns that are named before they are compared (`Distributes`, `Cancels`). The shares add up to
something (`ShareIsPositive`, `TotalIsSum`), since a role that stands in for another takes at least half of a positive share.

Chunking is a fold inside a join. `JoinExists` gives the sequences joined after each of them, `PlanRuns` the chunks after
each piece, and `UpTo` carries what holds of the first to the last: placing a piece adds it at the end of
what the chunks hold and keeps to the budget (`PlacingFacts`, where the size of contents is a sum that may be taken in any
order, `SumWithout`), so the chunks of a document hold its pieces in order (`PlanSourceFacts`), and those of all
documents hold of each its own (`AllChunksFacts`, `PartOfBoth`). The count of unread blocks is a difference of
cardinalities: all blocks (`BlocksCounted`) less those analysed, of which both the analysed and the unanalysed
records are a part (`RecordedBlocks`), whichever document a dropped block is put down to (`NotAnalysedIs`). It needs no chunk to have
succeeded, so the theorem covers the runs that fail as a whole too.

`BothTypesCorrect`, in `Review_proofs` and in `Planning_proofs`, lifts the type invariants to the modules TLC runs: a step
of one part leaves the variables of the others as they are.

Only model-checked:
* liveness (`EveryJobEnds`, `EveryExtractionEnds`, `EveryProjectEnds`, `EveryRunEnds`), which is out of the prover's reach;
* `AttemptsBounded` with slips (the theorem is about runs without);
* of the calculators, `FreshDocumentsPass`.

## 6. Other observations

Met while modelling; none is claimed by a property, and the conditions of the properties exclude
them. Where a name is given, the module states the claim the code does not keep.

Queue and sources
* `job.schema.ts:57`: the key is "one job per source per attempt", but two quick clicks on
  retry, or a user's retry and an operator's (`admin-queue.service.ts:64`), leave two jobs to run
  (`requirement-source.service.ts:635` enqueues after its update). Where a job has more than one attempt, the second
  of them can withdraw what the first published, which is why `OneActiveJob` is about sources retried at most once.
* `admin-queue.service.ts:41` queries `status`, but the schema's field is `state`
  (`job.schema.ts:64`); stalled jobs are never reported.
* A worker that lost its claim still completes, fails or cancels the job, since the
  filter is the id alone; the adapter's comment (line 36) says there is "no window in which both
  believe they own it", which holds of the claim but not after a claim timed out over a living worker.
* A job is cancelled and the next write fails: `handleFailure` calls `fail` on the cancelled job
  (`extraction.worker.ts:216`).
* `setStatus` filters on the id only: a worker's late write revives a DELETED source, and
  moves such as EXTRACTING to QUEUED are not in the table of `source-status.ts:9`.
* With two workers, a late `markQueued` (`extraction.worker.ts:310`) can leave a source QUEUED
  without a job although nothing failed.
* `docs/adr/0016-source-revision-model.md:45` says that editing clears the review; editing a pasted text
  does, but a correction or a restore leaves REVIEWED in place (`requirement-source.service.ts:498`, `:551`).
* `restoreOriginal` (525) does not look at the status: it finds revision 0 while the worker is still between
  storing it and publishing (`extraction.worker.ts:236`, `:253`), and publishing sets `revisionCount` back to 1 without
  moving the version. The number a restore took is then given out again; after two such restores, a correction points the
  document at a revision its insert cannot store, since the number is taken by the restored one. The second half of
  `EffectiveContentExists` excepts this.
* Line 55 of the same record says that a restore "cannot fail halfway"; it moves the record to a new
  revision and appends that revision in a later operation, so a process that stops in between leaves a
  source that points at nothing.
* Bytes stored before a record that is never created, or kept because erasing them failed, belong to nobody until
  the project is purged (`requirement-source.service.ts:313`, `retention.service.ts:213`). The second half of
  `BytesAccountedFor` excepts this; its first half, that no source loses its bytes, does not.
* A legacy conversion that times out is recorded as CORRUPTED_FILE (`extraction.worker.ts:359`), the code of a
  broken file: the queue tries it again, but the user is never offered to (`isRetryableFailure`).
* Quotas and duplicates are looked up before the files are stored (`requirement-source.service.ts:216`):
  two concurrent batches both pass.

Documents
* `generate`, `restore` and `regenerateRows` put a draft in the place of an approved
  document without `markDependentsOutdated`, which `docs/architecture/documents.md:67` says every change
  upstream calls (`documents.service.ts:415`; `CurrentRestsOnCurrent`). A document can also be approved
  while a prerequisite was never generated.
* `afterContentChange` (from 1562) decides by the status it read, but filters on the
  `recordVersion` it reads later: an edit racing an approval leaves edited words APPROVED with no
  validation, or a FINAL document turned back into a draft.
* `reopen` (1005) and `revise` (1119) ignore the result of their update; with `replaceRows`
  deleting rows first, a lost race can empty a row document.
* `revise` (1097) copies sections and features but no rows; `regenerateFeatures` (3305) does not archive the version
  it makes, so the next edit reuses its number.
* `addAssumptionCandidates` (2258) changes an approved document in place: the reason
  `ApprovedAsValidated` and `HistoryStands` leave out Assumptions.
* `commit` precedes the words: a request cut short, or an exclusion that overlaps a first
  generation, leaves a version without any; an edit changes words before it commits (1596).
* `validate` checks neither status nor an expected version; `restore` (1291) brings back words of an
  older baseline and counts as current.

Projects, sessions, retention, abuse
* `retention.service.ts:191` says that the record is claimed first; the code deletes the content first
  (204). A deletion of stored files that fails is only logged (213), and the record goes.
* `ProjectSessionGuard` never loads the project (`project-session.guard.ts:50`), although
  `anonymous-access-threat-model.md:42` says access ends with it (`SessionsEndWithTheProject`).
* `markExpired` does not move the record's version (`project.repository.ts:199`).
* An evicted counter gives its client a new budget within the window (`rate-limit.store.ts:106`).

Analysis and baseline
* Two clicks start two runs (`analysis.service.ts:112`; `OneRunAtATime`); the unique version of a
  baseline makes one of them fail.
* `startReview` takes an approved baseline back (1981; `SignedStaysSigned`); approvals race (2013), a
  superseded baseline can be approved, and draft to approved is not in `BASELINE_TRANSITIONS`.
* A newer, unconfirmed answer counts as integrated once an older one is (1336, `clarification.contract.ts:126`;
  `IntegratedIsConfirmed`), and an accepted proposal cites it (1609).
* `integrate` ignores the result of `updateItem` (`clarification-integration.service.ts:223`); NEEDS_REVIEW
  is written after the proposals (1715); a process that dies while integrating leaves INTEGRATING,
  which can be confirmed again (1274); `resolveConflict` changes requirements before its versioned update (924).
* A run whose process dies stays active, nothing resumes it (164), and `start` refuses a new one (112) for
  ever: `cancel` only sets a flag nobody reads any more (612). `EveryRunEnds` is about runs whose process lives.
* A run compares the digest it was created with with the sources it later executes on (135).
* A split block of which one piece was read counts as read, whatever became of the others
  (`PartlyReadIsCounted`), although the chunker says "Nothing is ever silently truncated".
* A block is attributed to the first document that has a block of its name when its citation names no
  document; `refresh` compares dispositions with the blocks of the current sources by count only
  (`baseline.service.ts:117`).
* The confidence rules' comment says that a verified quotation is worth more than everything else
  combined; its weight is 0.3 of a sum that can pass 0.6 without it.

Stack
* Nothing makes version numbers unique. A selection or a recommendation that read a version writes into
  it after it was approved, locked or superseded; `lock` can then seal a stack with undecided suggestions
  (`stack.service.ts:666`); `recalculate` can write LOCKED over SUPERSEDED.
* Two concurrent unlocks leave no standing version (731; `WorkContinues`).
* A crash leaves a recommendation run "running", and every later one is refused (`recommendation.service.ts:221`).
* `baselineVersion` and `projectTypes` of a version are never updated, so `baseline_not_current` and
  `project_type_changed` cannot clear (`stack-blockers.ts:103`); the same goes for the estimate.

Estimate
* An error in `generate` leaves its run "running". A run that ends after an approval rewrites the lines of
  the approved version (`estimation.service.ts:831`); an override between its read and its delete
  leaves two lines; two concurrent runs both insert.
* Two concurrent `addDependency` make a loop (543); `setCalendar` and `setTeam` lose updates.
* `supersedeSnapshots` does not raise the `recordVersion` (`estimation.repository.ts:119`; `stack.repository.ts:123`
  alike), and `recalculate` stores the status it read (`estimation.service.ts:1073`): one that read an approved version before it was
  reopened makes the superseded row APPROVED again, with a verdict nobody acknowledged, although
  `estimate-snapshot.contract.ts:161` has `SUPERSEDED: []`. `ApprovedWithEyesOpen` leaves superseded versions out.
* A line written by hand is deleted after an override, a reset and a new run (509; `ManualLinesStay`).

Composers
* Documents composed from the estimate cannot always pass their own checks; `FreshDocumentsPass` states exactly
  when. The estimate prices requirements of every category and the Feature Listing has a row per priced line, but a
  row that cites no functional or business-rule requirement is a blocking gap, and removing it breaks the
  reconciliation of hours. A constraint behind no row blocks fresh criteria, since only rows of the listing get any.
  A line written by hand without a requirement has no row, and the Work Breakdown then reports untraced work. A
  link from an excluded line is allowed by the schedule and refused by the Work Breakdown. The checks that are not
  modelled (unstated thresholds, wording about technology and dates, rejected requirements) say nothing of a
  document composed a moment ago that would change this.
* The total of a container in the Work Breakdown is the sum of its roles, that of a task is `totalHours`: they can
  differ by hundredths. `allocateEffort` (`work-breakdown.contract.ts:239`) is used nowhere, although the
  composer's comment relies on it; `planFrom` (`upstream.reader.ts:395`) reads `totalEffort.hours`, which
  the stored range does not have.
* Removing duplicate criteria never removes one: the fingerprint has the row's id and the aspect in it.
* Client Dependency Sheet: a fresh sheet is blocked by its own `dependency_ungrounded` when an assumption
  cites no requirement or a milestone has no work package; it takes assumptions of every status although its
  comment says "a confirmed assumption"; a merged request keeps the stronger priority and nothing else.
* Statement of Work: `unknownFeatureIds` is always empty, and quoting a requirement's words can fail the
  document's own checks of dates and legal terms.

Documents and models
* The look for an active run and its creation are not one operation, so two generations can start. The run of
  a regenerated section is COMPLETED before the engine accepts it.
* A correction is APPLIED even if the model answered nothing that can be used. One of a whole row document with a
  person's rows is recorded APPLIED though it left only proposals (`documents-ai.service.ts:560`); NOT_APPLIED
  may leave the section changed when the commit lost its race.
* Wording for a requirement that is behind two rows of the listing reaches only the last.

Calculators
* Slack ignores who is available; a role with no figure has one person, although the comment says "a role
  absent from this map is unconstrained" (`scheduling.ts:88`); fractions of a person are rounded down,
  but to no less than one; the backward pass ignores the lag of start-to-start and start-to-finish links;
  `detectCycles` says "every cycle in the graph" and misses loops that share links.
* `isMaterialCalendarChange` compares the number of holidays, not which they are.

## 7. Not modelled

Formatting, parsing and I/O (export, extractors, OCR, upload signatures,
providers, controllers, mappers, web pages), read-only views (traceability, admin
pages, workflow steps), append-only logs (audit, metrics) and start-up checks
(configuration) keep no state a property could be about. What the composers write is a choice in `DocumentEngine`,
which would otherwise need their inputs in its state; what a model answers is one everywhere. Understanding,
Assumptions, Statement of Work and Client Dependencies are text per requirement, and their composers are not modelled. The quota of uploads and the rate limiter
are a counter each, with the races named above.

## 8. Plan

1. The Client Dependency Sheet and the Statement of Work beside the composers of `Composers`.
2. Uploads: quota and duplicate checks before the insert; the rate limiter's window.
3. Proofs: the composers (`FreshDocumentsPass`).
