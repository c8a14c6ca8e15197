---------------------------- MODULE AnalysisRuns ----------------------------
(***************************************************************************)
(* Analysis runs of one project and the baselines they produce. A request  *)
(* creates a run and returns; the run then works in the background,        *)
(* unconnected to any request: it plans chunks, analyses them one by one,  *)
(* reconciles, writes requirements and findings and opens a new draft      *)
(* baseline. Reviewers meanwhile cancel, decide, review and approve.       *)
(*                                                                         *)
(* Every actor, a client's request or a run, has a program counter; one    *)
(* action is one read or one write of the database.                        *)
(***************************************************************************)
EXTENDS Naturals, FiniteSets, FiniteSetsExt

CONSTANTS
    Starters,          \* requests that start and cancel runs
    Reviewers,         \* requests that decide, review and approve
    Contents,          \* what the reviewed sources can say; NoContent: none is reviewed
    NoContent,
    MaxRuns, MaxChunks,
    MaxRecordVersion,  \* bound: versioned updates of one baseline
    MaxSlips,          \* bound: failing database calls and process crashes
    NoBaseline

ASSUME AnalysisAssumption ==
    /\ MaxRuns \in Nat /\ MaxChunks \in Nat \ {0} /\ MaxRecordVersion \in Nat /\ MaxSlips \in Nat
    /\ NoContent \in Contents /\ NoBaseline \notin Nat

\* A run works in no client's request.
ASSUME ActorsAssumption == (Starters \cup Reviewers) \cap (1 .. MaxRuns) = {}

RunStatus == {"PENDING", "ANALYSING", "RECONCILING", "FINALISING",
              "COMPLETED", "FAILED", "CANCELLED", "SUPERSEDED"}
Working == {"PENDING", "ANALYSING", "RECONCILING", "FINALISING"}
IsRunFinished(status) == status \notin Working

BaselineStatus == {"draft", "in_review", "approved", "outdated", "superseded"}
RunIds == 1 .. MaxRuns
Versions == 1 .. MaxRuns
Actors == Starters \cup Reviewers \cup RunIds

VARIABLES
    sources,    \* the content of the reviewed sources
    runs,       \* the run records, by sequence number; those created are 1 .. n
    items,      \* the runs whose requirements are stored
    blocking,   \* whether a finding or question that blocks approval is open
    baselines,  \* the baseline records, by version; those created are 1 .. n
    proc,       \* per actor, where it is and what it has read
    lost,       \* the runs whose process has died
    slips       \* failures and crashes so far

vars == <<sources, runs, items, blocking, baselines, proc, lost, slips>>

Run == [status : RunStatus, cancelAsked : BOOLEAN, digest : Contents,
        total : 0 .. MaxChunks, analysed : 0 .. MaxChunks, failed : 0 .. MaxChunks]
Baseline == [run : RunIds, status : BaselineStatus, recordVersion : 0 .. MaxRecordVersion,
             items : SUBSET RunIds, blocked : BOOLEAN, digest : Contents]

Stages == {"idle",
           \* client requests
           "create", "review", "approve", "approving", "outdate",
           \* runs
           "execute", "chunks", "reconcile", "items", "findings",
           "baseline", "supersede", "complete",
           \* the refresh both make
           "refresh", "store"}

\* then: the stage after a refresh; target: the baseline read; seen: what was read of it.
Proc == [at : Stages, then : Stages, target : Versions \cup {NoBaseline},
         expected : 0 .. MaxRecordVersion, items : SUBSET RunIds, blocked : BOOLEAN]
Idle == [at |-> "idle", then |-> "idle", target |-> NoBaseline, expected |-> 0,
         items |-> {}, blocked |-> FALSE]

At(a, stage) == proc[a].at = stage
Go(a, stage) == proc' = [proc EXCEPT ![a].at = stage]
Return(a) == proc' = [proc EXCEPT ![a] = Idle]
\* What follows a refresh.
Resume(a) == proc' = [proc EXCEPT ![a] = [Idle EXCEPT !.at = proc[a].then,
                                                     !.expected = proc[a].expected]]

ActiveRuns == {r \in DOMAIN runs : runs[r].status \in Working}

\* currentBaseline: the newest that is not superseded.
Current ==
    LET standing == {b \in DOMAIN baselines : baselines[b].status # "superseded"}
    IN  IF standing = {} THEN NoBaseline ELSE Max(standing)

-----------------------------------------------------------------------------
Init ==
    /\ sources \in Contents
    /\ runs = <<>> /\ baselines = <<>> /\ items = {}
    /\ blocking = FALSE
    /\ proc = [a \in Actors |-> Idle]
    /\ lost = {} /\ slips = 0

(* Starting and cancelling *)

\* start reads that no run is active ...
Start(c) ==
    /\ At(c, "idle")
    /\ ActiveRuns = {}
    /\ Go(c, "create")
    /\ UNCHANGED <<sources, runs, items, blocking, baselines, lost, slips>>

\* ... and then creates one, if anything is reviewed. The digest is of what is reviewed now;
\* execute loads the sources again.
CreateRun(c) ==
    /\ At(c, "create")
    /\ IF sources = NoContent
       THEN Return(c) /\ UNCHANGED runs
       ELSE /\ Cardinality(DOMAIN runs) < MaxRuns
            /\ LET r == Cardinality(DOMAIN runs) + 1
               IN  /\ runs' = [i \in 1 .. r |-> IF i < r THEN runs[i] ELSE
                                 [status |-> "PENDING", cancelAsked |-> FALSE, digest |-> sources,
                                  total |-> 0, analysed |-> 0, failed |-> 0]]
                   /\ proc' = [proc EXCEPT ![c] = Idle, ![r].at = "execute"]
    /\ UNCHANGED <<sources, items, blocking, baselines, lost, slips>>

\* A flag, which the pipeline looks at between tasks.
Cancel(c, r) ==
    /\ At(c, "idle")
    /\ ~IsRunFinished(runs[r].status) /\ ~runs[r].cancelAsked
    /\ runs' = [runs EXCEPT ![r].cancelAsked = TRUE]
    /\ UNCHANGED <<sources, items, blocking, baselines, proc, lost, slips>>

-----------------------------------------------------------------------------
(* The background run *)

SetRun(r, status) == runs' = [runs EXCEPT ![r].status = status]

EndUnrecorded(r, status) == Return(r) /\ UNCHANGED runs \* faulty: the run is left as it is
EndAs(r, status) == SetRun(r, status) /\ Return(r)

\* execute loads the sources again: by now none may be reviewed any more.
Execute(r) ==
    /\ At(r, "execute")
    /\ IF sources = NoContent
       THEN EndAs(r, "FAILED")
       ELSE \E n \in 1 .. MaxChunks :
              /\ runs' = [runs EXCEPT ![r].status = "ANALYSING", ![r].total = n]
              /\ Go(r, "chunks")
    /\ UNCHANGED <<sources, items, blocking, baselines, lost, slips>>

ChunksLeft(run) == run.total - run.analysed - run.failed

\* onChunkFinished
Counted(run, ok) ==
    IF ok THEN [run EXCEPT !.analysed = @ + 1] ELSE [run EXCEPT !.failed = @ + 1]

\* analyseChunk: the model's four tasks on one chunk; one that fails fails the chunk, not the run.
ChunkOutcomes == BOOLEAN

AnalyseChunk(r) ==
    /\ At(r, "chunks") /\ ChunksLeft(runs[r]) > 0
    /\ IF runs[r].cancelAsked
       THEN EndAs(r, "CANCELLED")
       ELSE \E ok \in ChunkOutcomes : /\ runs' = [runs EXCEPT ![r] = Counted(@, ok)]
                                /\ UNCHANGED proc
    /\ UNCHANGED <<sources, items, blocking, baselines, lost, slips>>

\* All chunks failed, or too many requirements were found, or the run was cancelled, or it goes on.
Reconcile(r) ==
    /\ At(r, "chunks") /\ ChunksLeft(runs[r]) = 0
    /\ \/ EndAs(r, "FAILED")
       \/ runs[r].analysed > 0 /\ runs[r].cancelAsked /\ EndAs(r, "CANCELLED")
       \/ runs[r].analysed > 0 /\ ~runs[r].cancelAsked
            /\ SetRun(r, "RECONCILING") /\ Go(r, "reconcile")
    /\ UNCHANGED <<sources, items, blocking, baselines, lost, slips>>

\* reconcileGlobally compares the requirements of all chunks; a task that fails leaves its kind of
\* finding out and cannot fail the run. TRUE: something it found blocks approval.
GlobalOutcomes == BOOLEAN

Finalise(r) ==
    /\ At(r, "reconcile")
    /\ SetRun(r, "FINALISING") /\ Go(r, "items")
    /\ UNCHANGED <<sources, items, blocking, baselines, lost, slips>>

\* Reconciliation may have found nothing that stands.
InsertItems(r) ==
    /\ At(r, "items")
    /\ items' \in {items, items \cup {r}}
    /\ Go(r, "findings")
    /\ UNCHANGED <<sources, runs, blocking, baselines, lost, slips>>

InsertFindingsUnlessCancelled(r) == \* faulty: looks at the cancellation between two writes
    /\ At(r, "findings")
    /\ \E found \in GlobalOutcomes : blocking' = (blocking \/ found)
    /\ IF runs[r].cancelAsked
       THEN EndAs(r, "CANCELLED")
       ELSE /\ proc' = [proc EXCEPT ![r].at = "baseline",
                                    ![r].target = Cardinality(DOMAIN baselines) + 1]
            /\ UNCHANGED runs
    /\ UNCHANGED <<sources, items, baselines, lost, slips>>
\* Conflicts, gaps and questions, some of which block approval; then the number of the new
\* baseline is read.
InsertFindings(r) ==
    /\ At(r, "findings")
    /\ \E found \in GlobalOutcomes : blocking' = (blocking \/ found)
    /\ proc' = [proc EXCEPT ![r].at = "baseline", ![r].target = Cardinality(DOMAIN baselines) + 1]
    /\ UNCHANGED <<sources, runs, items, baselines, lost, slips>>

\* The index on the version refuses a second baseline of the same version.
CreateBaseline(r) ==
    /\ At(r, "baseline")
    /\ LET v == proc[r].target
       IN  IF v \in DOMAIN baselines
           THEN EndAs(r, "FAILED") /\ UNCHANGED baselines
           ELSE /\ baselines' = [i \in 1 .. v |-> IF i < v THEN baselines[i] ELSE
                                   [run |-> r, status |-> "draft", recordVersion |-> 0,
                                    items |-> items \cap {r}, blocked |-> FALSE,
                                    digest |-> runs[r].digest]]
                /\ Go(r, "supersede")
                /\ UNCHANGED runs
    /\ UNCHANGED <<sources, items, blocking, lost, slips>>

\* supersedeBaselines leaves recordVersion alone.
Superseded(v) ==
    [b \in DOMAIN baselines |->
        IF b < v THEN [baselines[b] EXCEPT !.status = "superseded"] ELSE baselines[b]]

\* supersedeBaselines, then supersedeRuns, then the refresh.
Supersede(r) ==
    /\ At(r, "supersede")
    /\ baselines' = Superseded(proc[r].target)
    /\ runs' = [i \in DOMAIN runs |->
                  IF i # r /\ runs[i].status = "COMPLETED"
                  THEN [runs[i] EXCEPT !.status = "SUPERSEDED"] ELSE runs[i]]
    /\ proc' = [proc EXCEPT ![r].at = "refresh", ![r].then = "complete"]
    /\ UNCHANGED <<sources, items, blocking, lost, slips>>

Complete(r) ==
    /\ At(r, "complete")
    /\ EndAs(r, "COMPLETED")
    /\ UNCHANGED <<sources, items, blocking, baselines, lost, slips>>

\* A database call fails while the run works: execute's catch marks the run failed.
RunFails(r) ==
    /\ r \in DOMAIN runs /\ ~At(r, "idle") /\ slips < MaxSlips
    /\ slips' = slips + 1
    /\ EndAs(r, "FAILED")
    /\ UNCHANGED <<sources, items, blocking, baselines, lost>>

\* The process dies: its runs stay as they are, its requests are gone.
Crash ==
    /\ slips < MaxSlips
    /\ slips' = slips + 1
    /\ lost' = lost \cup {r \in DOMAIN runs : ~At(r, "idle")}
    /\ proc' = [a \in Actors |-> Idle]
    /\ UNCHANGED <<sources, runs, items, blocking, baselines>>

-----------------------------------------------------------------------------
(* BaselineService.refresh: read the current baseline and the state, store what follows *)

\* The items of every run count, since no run supersedes the items of an earlier one.
RefreshRead(a) ==
    /\ At(a, "refresh")
    /\ IF Current = NoBaseline \/ baselines[Current].status \in {"approved", "outdated"}
       THEN Resume(a)
       ELSE proc' = [proc EXCEPT ![a].at = "store", ![a].target = Current,
                                 ![a].items = items, ![a].blocked = blocking]
    /\ UNCHANGED <<sources, runs, items, blocking, baselines, lost, slips>>

RefreshableAlways(status) == TRUE \* faulty: the update does not look at the status
Refreshable(status) == status \in {"draft", "in_review"}

\* refreshBaseline leaves recordVersion alone.
RefreshStore(a) ==
    /\ At(a, "store")
    /\ LET v == proc[a].target
       IN  baselines' = IF Refreshable(baselines[v].status)
                        THEN [baselines EXCEPT ![v].items = proc[a].items,
                                               ![v].blocked = proc[a].blocked]
                        ELSE baselines
    /\ Resume(a)
    /\ UNCHANGED <<sources, runs, items, blocking, lost, slips>>

-----------------------------------------------------------------------------
(* Reviewers *)

\* updateBaseline: conditional on recordVersion alone.
UpdateBaseline(v, expected, status) ==
    baselines' = IF baselines[v].recordVersion = expected
                 THEN [baselines EXCEPT ![v].status = status, ![v].recordVersion = @ + 1]
                 ELSE baselines

\* Raising a question or settling a finding, with the refresh that follows.
Decide(c) ==
    /\ At(c, "idle")
    /\ blocking' = ~blocking
    /\ proc' = [proc EXCEPT ![c].at = "refresh", ![c].then = "idle"]
    /\ UNCHANGED <<sources, runs, items, baselines, lost, slips>>

StartReview(c) ==
    /\ At(c, "idle") /\ Current # NoBaseline
    /\ baselines[Current].recordVersion < MaxRecordVersion
    /\ proc' = [proc EXCEPT ![c].at = "review", ![c].target = Current,
                            ![c].expected = baselines[Current].recordVersion]
    /\ UNCHANGED <<sources, runs, items, blocking, baselines, lost, slips>>

StartReviewWrite(c) ==
    /\ At(c, "review")
    /\ UpdateBaseline(proc[c].target, proc[c].expected, "in_review")
    /\ Return(c)
    /\ UNCHANGED <<sources, runs, items, blocking, lost, slips>>

\* approve refreshes, ...
Approve(c) ==
    /\ At(c, "idle")
    /\ \E expected \in 0 .. MaxRecordVersion - 1 :
         proc' = [proc EXCEPT ![c].at = "refresh", ![c].then = "approve", ![c].expected = expected]
    /\ UNCHANGED <<sources, runs, items, blocking, baselines, lost, slips>>

CanApprove(b) == b.status \in {"draft", "in_review"} /\ ~b.blocked /\ b.items # {}

\* ... reads the current baseline and checks it, ...
ApproveRead(c) ==
    /\ At(c, "approve")
    /\ IF Current # NoBaseline /\ CanApprove(baselines[Current])
       THEN proc' = [proc EXCEPT ![c].at = "approving", ![c].target = Current]
       ELSE Return(c)
    /\ UNCHANGED <<sources, runs, items, blocking, baselines, lost, slips>>

\* ... and writes under the version the reviewer sent.
ApproveWrite(c) ==
    /\ At(c, "approving")
    /\ UpdateBaseline(proc[c].target, proc[c].expected, "approved")
    /\ Return(c)
    /\ UNCHANGED <<sources, runs, items, blocking, lost, slips>>

\* readBaseline compares the digests on the way (propagateOutdated), ...
ReadBaseline(c) ==
    /\ At(c, "idle") /\ Current # NoBaseline
    /\ baselines[Current].status = "approved" /\ baselines[Current].digest # sources
    /\ proc' = [proc EXCEPT ![c].at = "outdate", ![c].target = Current]
    /\ UNCHANGED <<sources, runs, items, blocking, baselines, lost, slips>>

MarkedOutdated(b) == IF b.status = "approved" THEN [b EXCEPT !.status = "outdated"] ELSE b

\* ... and marks the baseline.
MarkOutdated(c) ==
    /\ At(c, "outdate")
    /\ baselines' = [baselines EXCEPT ![proc[c].target] = MarkedOutdated(@)]
    /\ Return(c)
    /\ UNCHANGED <<sources, runs, items, blocking, lost, slips>>

SourcesChange ==
    /\ sources' \in Contents \ {sources}
    /\ UNCHANGED <<runs, items, blocking, baselines, proc, lost, slips>>

-----------------------------------------------------------------------------
RefreshStep(a) == RefreshRead(a) \/ RefreshStore(a)

RunStep(r) ==
    \/ Execute(r) \/ AnalyseChunk(r) \/ Reconcile(r) \/ Finalise(r)
    \/ InsertItems(r) \/ InsertFindings(r) \/ CreateBaseline(r)
    \/ Supersede(r) \/ RefreshStep(r) \/ Complete(r)

StarterStep(c) == Start(c) \/ CreateRun(c) \/ \E r \in DOMAIN runs : Cancel(c, r)

ReviewerStep(c) ==
    \/ Decide(c) \/ StartReview(c) \/ StartReviewWrite(c)
    \/ Approve(c) \/ ApproveRead(c) \/ ApproveWrite(c)
    \/ ReadBaseline(c) \/ MarkOutdated(c) \/ RefreshStep(c)

Next ==
    \/ \E r \in RunIds : RunStep(r) \/ RunFails(r)
    \/ \E c \in Starters : StarterStep(c)
    \/ \E c \in Reviewers : ReviewerStep(c)
    \/ Crash \/ SourcesChange

Spec == Init /\ [][Next]_vars

\* A run in a live process goes on by itself.
FairSpec == Spec /\ \A r \in RunIds : WF_vars(RunStep(r))

-----------------------------------------------------------------------------
(* Properties *)

\* Records keep their shape: runs and baselines are numbered without gaps by nextRunSequence and
\* nextBaselineVersion, each baseline's items were written by a run, and every chunk of a run that
\* reached reconciliation is accounted for and some chunk analysed, although progress is read,
\* incremented and written back while cancel writes the same record.
TypeInv ==
    /\ sources \in Contents /\ blocking \in BOOLEAN /\ items \subseteq RunIds
    /\ DOMAIN runs = 1 .. Cardinality(DOMAIN runs)
    /\ \A r \in DOMAIN runs : r \in RunIds /\ runs[r] \in Run
    /\ \A r \in DOMAIN runs :
         runs[r].status \in {"RECONCILING", "FINALISING", "COMPLETED", "SUPERSEDED"} =>
             ChunksLeft(runs[r]) = 0 /\ runs[r].analysed > 0
    /\ DOMAIN baselines = 1 .. Cardinality(DOMAIN baselines)
    /\ \A b \in DOMAIN baselines : b \in Versions /\ baselines[b] \in Baseline
    /\ proc \in [Actors -> Proc]
    /\ lost \subseteq RunIds /\ slips \in 0 .. MaxSlips

\* A cancel takes effect where nothing is half-written: a run that ended CANCELLED has left no
\* requirement and no baseline, whenever the cancel came.
CancelledLeavesNothing ==
    \A r \in DOMAIN runs : runs[r].status = "CANCELLED" =>
        /\ r \notin items
        /\ \A b \in DOMAIN baselines : baselines[b].run # r

\* No late writer takes a baseline back. While one is approved or outdated, no refresh, of a
\* reviewer or of a finishing run, rewrites its requirements or its blockers; one becomes outdated
\* only from approved, whatever the reader of its status saw; and the one a reviewer works on is
\* only ever replaced by a newer one. (each is decided on a read two operations before the write)
SignedContentFrozen ==
    [][/\ \A b \in DOMAIN baselines :
            LET signed == {"approved", "outdated"}
            IN  /\ baselines[b].status \in signed /\ baselines'[b].status \in signed =>
                      /\ baselines'[b].items = baselines[b].items
                      /\ baselines'[b].blocked = baselines[b].blocked
                /\ baselines'[b].status = "outdated" => baselines[b].status \in signed
       /\ Current # NoBaseline => Current' # NoBaseline /\ Current' >= Current]_vars

\* Every run ends, unless the process it works in dies.
EveryRunEnds ==
    \A r \in RunIds :
        r \in DOMAIN runs ~> r \in lost \/ (r \in DOMAIN runs /\ IsRunFinished(runs[r].status))

-----------------------------------------------------------------------------
(* What comments say, and the code does not do *)

\* Claimed by AnalysisRepository.activeRun ("The guard against two analyses of the same project at
\* once"): at most one run is working.
OneRunAtATime == Cardinality(ActiveRuns) <= 1

\* Claimed by BaselineService.refresh ("Refuses to touch an approved baseline. What was signed
\* stays signed."): a baseline that was approved never becomes editable again.
SignedStaysSigned ==
    [][\A b \in DOMAIN baselines :
         baselines[b].status \in {"approved", "outdated"} =>
             ~Refreshable(baselines'[b].status)]_vars
=============================================================================
