----------------------------- MODULE Review_proofs -----------------------------
(***************************************************************************)
(* What holds of the review of requirements, for any number of clients.    *)
(*                                                                         *)
(* AnalysisRuns, with any number of runs and chunks: the invariant ties    *)
(* the stage each run is at to the status of its record, so that a record  *)
(* a cancel can still end has written nothing yet, and what an actor read  *)
(* before its next write to what still holds when the write comes.         *)
(*                                                                         *)
(* Clarifications, with any number of requirements: what the folding of    *)
(* answers into them guarantees, however the clients' requests overlap     *)
(* with the minutes the model takes.                                       *)
(***************************************************************************)
EXTENDS MCReview, FiniteSetTheorems, TLAPS

-----------------------------------------------------------------------------
(* Analysis runs: the inductive invariant *)

\* Baselines are numbered from 1 as runs are.
RunsMade == Cardinality(DOMAIN runs)
BaselinesMade == Cardinality(DOMAIN baselines)

Types ==
    /\ sources \in Contents /\ blocking \in BOOLEAN /\ items \subseteq RunIds
    /\ RunsMade \in 0 .. MaxRuns /\ runs \in [1 .. RunsMade -> Run]
    /\ BaselinesMade \in 0 .. MaxRuns /\ baselines \in [1 .. BaselinesMade -> Baseline]
    /\ proc \in [Actors -> Proc]
    /\ lost \subseteq RunIds /\ slips \in 0 .. MaxSlips

\* A run that reached reconciliation has accounted for every chunk.
Accounted(run) ==
    run.status \in {"RECONCILING", "FINALISING", "COMPLETED", "SUPERSEDED"} =>
        ChunksLeft(run) = 0 /\ run.analysed > 0

\* What an actor at a stage may rely on, whatever others have done since it read.
Relies(p, made) ==
    /\ p.at \in {"store", "review", "approving", "outdate", "supersede"} => p.target \in 1 .. made
    /\ p.at = "baseline" => p.target \in 1 .. made + 1
    /\ p.at \in {"review", "approve", "approving"} => p.expected < MaxRecordVersion
    /\ p.at \in {"refresh", "store"} =>
          /\ p.then \in {"idle", "approve", "complete"}
          /\ p.then = "approve" => p.expected < MaxRecordVersion

\* The status a run's record has at each of its stages.
RunAt(p, status) ==
    /\ p.at \in {"idle", "execute", "chunks", "reconcile", "items", "findings", "baseline",
                 "supersede", "refresh", "store", "complete"}
    /\ p.at = "execute" => status = "PENDING"
    /\ p.at = "chunks" => status = "ANALYSING"
    /\ p.at = "reconcile" => status = "RECONCILING"
    /\ p.at \in {"items", "findings", "baseline", "supersede", "refresh", "store", "complete"} =>
          status = "FINALISING"
    /\ p.at \in {"refresh", "store"} => p.then = "complete"

StagesAgree ==
    \A r \in RunIds : IF r \in DOMAIN runs THEN RunAt(proc[r], runs[r].status) ELSE proc[r].at = "idle"

\* Only a run that can no longer be cancelled has written anything, and it writes one baseline.
Persisting == {"FINALISING", "COMPLETED", "FAILED", "SUPERSEDED"}
HasPersisted(r) == r \in DOMAIN runs /\ runs[r].status \in Persisting
OnlyPersisted ==
    /\ \A r \in items : HasPersisted(r)
    /\ \A b \in DOMAIN baselines : HasPersisted(baselines[b].run)
OneBaselineEach ==
    /\ \A b, d \in DOMAIN baselines : baselines[b].run = baselines[d].run => b = d
    /\ \A r \in RunIds, b \in DOMAIN baselines :
          proc[r].at \in {"items", "findings", "baseline"} => baselines[b].run # r

\* The newest baseline is never superseded.
NewestStands == BaselinesMade > 0 => baselines[BaselinesMade].status # "superseded"

IInv ==
    /\ Types /\ (\A r \in DOMAIN runs : Accounted(runs[r])) /\ (\A a \in Actors : Relies(proc[a], BaselinesMade))
    /\ StagesAgree /\ OnlyPersisted /\ OneBaselineEach /\ NewestStands

-----------------------------------------------------------------------------
(* Numbering *)

LEMMA Numbers ==
    ASSUME Types
    PROVE  /\ DOMAIN runs = 1 .. RunsMade /\ DOMAIN baselines = 1 .. BaselinesMade
           /\ RunsMade \in Nat /\ BaselinesMade \in Nat /\ MaxRuns \in Nat
           /\ RunsMade <= MaxRuns /\ BaselinesMade <= MaxRuns
           /\ RunIds = 1 .. MaxRuns /\ Versions = 1 .. MaxRuns
           /\ DOMAIN runs \subseteq RunIds /\ DOMAIN baselines \subseteq Versions
  BY AnalysisAssumption DEF Types, RunIds, Versions

LEMMA Numbered == ASSUME NEW n \in Nat, NEW S, S = 1 .. n PROVE Cardinality(S) = n
  BY FS_Interval

LEMMA CurrentIsNewest ==
    ASSUME Types, NewestStands
    PROVE  /\ BaselinesMade = 0 => Current = NoBaseline
           /\ BaselinesMade > 0 => Current = BaselinesMade /\ Current # NoBaseline
           /\ Current # NoBaseline => Current \in 1 .. BaselinesMade /\ BaselinesMade > 0
<1> DEFINE standing == {b \in DOMAIN baselines : baselines[b].status # "superseded"}
<1>1. CASE BaselinesMade = 0
  <2>1. standing = {}
    BY <1>1, Numbers
  <2>2. QED  BY <1>1, <2>1 DEF Current
<1>2. CASE BaselinesMade > 0
  <2>1. BaselinesMade \in standing /\ \A b \in standing : BaselinesMade >= b /\ b \in Nat
    BY <1>2, Numbers DEF NewestStands
  <2>2. PICK m \in standing : m = Max(standing) /\ \A b \in standing : m >= b
    BY <2>1 DEF Max
  <2>3. Max(standing) = BaselinesMade
    BY <2>1, <2>2
  <2>4. Current = BaselinesMade
    BY <2>1, <2>3 DEF Current
  <2>5. QED  BY <1>2, <2>4, Numbers, AnalysisAssumption
<1>3. QED  BY <1>1, <1>2, Numbers

-----------------------------------------------------------------------------
(* The baselines *)

\* What a step makes of the baselines. Only the run that was about to create one does.
BaselineStep ==
    /\ BaselinesMade' \in 0 .. MaxRuns /\ BaselinesMade <= BaselinesMade'
    /\ baselines' \in [1 .. BaselinesMade' -> Baseline]
    /\ \A b \in 1 .. BaselinesMade : baselines'[b].run = baselines[b].run
    /\ \A b \in (1 .. BaselinesMade') \ (1 .. BaselinesMade) :
          /\ b = BaselinesMade' /\ BaselinesMade' = BaselinesMade + 1
          /\ baselines'[b].run \in RunIds
          /\ proc[baselines'[b].run].at = "baseline" /\ proc'[baselines'[b].run].at = "supersede"
    /\ BaselinesMade' > 0 => baselines'[BaselinesMade'].status # "superseded"

\* What one record may become, once it was signed.
Frozen(old, new) ==
    LET signed == {"approved", "outdated"}
    IN  /\ old.status \in signed /\ new.status \in signed =>
              new.items = old.items /\ new.blocked = old.blocked
        /\ new.status = "outdated" => old.status \in signed

LEMMA BaselinesRewritten ==
    ASSUME IInv, NEW f \in [1 .. BaselinesMade -> Baseline], baselines' = f,
           \A b \in 1 .. BaselinesMade : f[b].run = baselines[b].run /\ Frozen(baselines[b], f[b]),
           BaselinesMade > 0 => f[BaselinesMade].status # "superseded"
    PROVE  BaselineStep /\ \A b \in DOMAIN baselines : Frozen(baselines[b], baselines'[b])
<1>1. Types
  BY DEF IInv
<1>2. BaselinesMade' = BaselinesMade
  BY <1>1, Numbers, Numbered DEF BaselinesMade
<1>3. QED  BY <1>1, <1>2, Numbers DEF BaselineStep

LEMMA BaselinesSame ==
    ASSUME IInv, baselines' = baselines
    PROVE  BaselineStep /\ \A b \in DOMAIN baselines : Frozen(baselines[b], baselines'[b])
  BY BaselinesRewritten DEF IInv, Types, NewestStands, Frozen

\* One record is rewritten.
LEMMA BaselineRewritten ==
    ASSUME IInv, NEW v \in 1 .. BaselinesMade, NEW b \in Baseline,
           baselines' = [baselines EXCEPT ![v] = b], b.run = baselines[v].run,
           b.status = baselines[v].status \/ b.status # "superseded", Frozen(baselines[v], b)
    PROVE  BaselineStep /\ \A d \in DOMAIN baselines : Frozen(baselines[d], baselines'[d])
<1> DEFINE f == [baselines EXCEPT ![v] = b]
<1>1. /\ f \in [1 .. BaselinesMade -> Baseline] /\ f[v] = b
      /\ \A d \in 1 .. BaselinesMade : d # v => f[d] = baselines[d]
  BY DEF IInv, Types
<1>2. \A d \in 1 .. BaselinesMade : Frozen(baselines[d], baselines[d])
  BY DEF Frozen
<1>3. baselines' = f
  OBVIOUS
<1>4. BaselinesMade > 0 => baselines[BaselinesMade].status # "superseded" /\ BaselinesMade \in 1 .. BaselinesMade
  BY Numbers DEF IInv, NewestStands
<1> HIDE DEF f
<1>5. QED  BY <1>1, <1>2, <1>3, <1>4, BaselinesRewritten

\* Distinct runs made the baselines, and one that is to make another has made none.
LEMMA RoomForOne ==
    ASSUME IInv, NEW r \in RunIds, proc[r].at \in {"findings", "baseline"}
    PROVE  BaselinesMade + 1 <= MaxRuns
<1>1. Types
  BY DEF IInv
<1> DEFINE f == [b \in 1 .. BaselinesMade |-> baselines[b].run]
           S == RunIds \ {r}
<1>2. f \in Injection(1 .. BaselinesMade, S)
  <2>1. \A b \in 1 .. BaselinesMade : baselines[b].run \in S
    BY <1>1, Numbers DEF IInv, OneBaselineEach, Types, Baseline
  <2>2. f \in [1 .. BaselinesMade -> S]
    BY <2>1
  <2>3. \A b, d \in 1 .. BaselinesMade : f[b] = f[d] => b = d
    BY <1>1, Numbers DEF IInv, OneBaselineEach
  <2> DEFINE D == 1 .. BaselinesMade
  <2> HIDE DEF f, S, D
  <2>4. IsInjective(f)
    <3>1. f \in [D -> S] /\ \A b, d \in D : f[b] = f[d] => b = d
      BY <2>2, <2>3 DEF D
    <3>2. QED  BY <3>1 DEF IsInjective
  <2>5. f \in [D -> S]
    BY <2>2 DEF D
  <2>6. f \in Injection(D, S)
    BY <2>4, <2>5 DEF Injection
  <2>7. QED  BY <2>6 DEF D
<1>3. IsFiniteSet(RunIds) /\ Cardinality(RunIds) = MaxRuns
  BY <1>1, Numbers, FS_Interval
<1>4. IsFiniteSet(S) /\ Cardinality(S) = MaxRuns - 1
  BY <1>3, FS_RemoveElement
<1>5. Cardinality(1 .. BaselinesMade) <= Cardinality(S)
  BY <1>2, <1>4, FS_Injection
<1>6. Cardinality(1 .. BaselinesMade) = BaselinesMade
  BY <1>1, Numbers, Numbered
<1>7. QED  BY <1>1, <1>4, <1>5, <1>6, Numbers

LEMMA BaselineCreated ==
    ASSUME IInv, NEW r \in DOMAIN runs, CreateBaseline(r)
    PROVE  BaselineStep /\ \A b \in DOMAIN baselines : Frozen(baselines[b], baselines'[b])
<1>t. Types /\ r \in RunIds /\ proc[r].at = "baseline"
  BY Numbers DEF IInv, CreateBaseline, At
<1> DEFINE v == proc[r].target
<1>1. CASE v \in DOMAIN baselines
  BY <1>1, BaselinesSame DEF CreateBaseline
<1>2. CASE v \notin DOMAIN baselines
  <2>1. v = BaselinesMade + 1 /\ v \in 1 .. MaxRuns /\ BaselinesMade \in Nat
    <3>1. v \in 1 .. BaselinesMade + 1
      BY <1>t DEF IInv, Relies, Actors
    <3>2. QED  BY <1>2, <1>t, <3>1, RoomForOne, Numbers
  <2> DEFINE new == [run |-> r, status |-> "draft", recordVersion |-> 0, items |-> items \cap {r},
                     blocked |-> FALSE, digest |-> runs[r].digest]
  <2>2. new \in Baseline /\ new.run = r /\ new.status = "draft"
    <3>1. runs[r].digest \in Contents
      BY <1>t, Numbers DEF Types, Run
    <3>2. 0 \in 0 .. MaxRecordVersion
      BY AnalysisAssumption
    <3>3. QED  BY <1>t, <3>1, <3>2 DEF Baseline, BaselineStatus, Types
  <2>3. /\ baselines' = [i \in 1 .. v |-> IF i < v THEN baselines[i] ELSE new]
        /\ proc'[r].at = "supersede"
    <3>1. proc \in [Actors -> Proc] /\ r \in Actors
      BY <1>t DEF Types, Actors
    <3>2. proc' = [proc EXCEPT ![r].at = "supersede"]
      BY <1>2 DEF CreateBaseline, Go
    <3>3. proc'[r].at = "supersede"
      BY <3>1, <3>2 DEF Proc
    <3>4. QED  BY <1>2, <3>3 DEF CreateBaseline
  <2> HIDE DEF v, new
  <2>4. BaselinesMade' = v
    BY <2>1, <2>3, Numbered DEF BaselinesMade
  <2>5. /\ \A b \in 1 .. BaselinesMade : baselines'[b] = baselines[b] /\ baselines[b] \in Baseline
        /\ baselines'[v] = new
    BY <1>t, <2>1, <2>3 DEF Types
  <2>6. baselines' \in [1 .. v -> Baseline]
    <3>1. \A i \in 1 .. v : i = v \/ (i \in 1 .. BaselinesMade /\ i < v)
      BY <2>1
    <3>2. \A i \in 1 .. v : (IF i < v THEN baselines[i] ELSE new) \in Baseline
      BY <2>2, <2>5, <3>1
    <3>3. QED  BY <2>3, <3>2
  <2>7. BaselineStep
    BY <1>t, <2>1, <2>2, <2>3, <2>4, <2>5, <2>6 DEF BaselineStep
  <2>8. \A b \in DOMAIN baselines : Frozen(baselines[b], baselines'[b])
    BY <1>t, <2>5, Numbers DEF Frozen
  <2>9. QED  BY <2>7, <2>8
<1>3. QED  BY <1>1, <1>2

\* The versioned update of a reviewer.
LEMMA BaselineUpdated ==
    ASSUME IInv, NEW v \in 1 .. BaselinesMade, NEW expected \in 0 .. MaxRecordVersion,
           expected < MaxRecordVersion, NEW status \in {"in_review", "approved"},
           UpdateBaseline(v, expected, status)
    PROVE  BaselineStep /\ \A b \in DOMAIN baselines : Frozen(baselines[b], baselines'[b])
<1>1. CASE baselines[v].recordVersion # expected
  BY <1>1, BaselinesSame DEF UpdateBaseline
<1>2. CASE baselines[v].recordVersion = expected
  <2> DEFINE b == [baselines[v] EXCEPT !.status = status, !.recordVersion = expected + 1]
  <2>1. baselines[v] \in Baseline /\ baselines \in [1 .. BaselinesMade -> Baseline]
    BY DEF IInv, Types
  <2>2. expected + 1 \in 0 .. MaxRecordVersion
    BY AnalysisAssumption
  <2>3. /\ b \in Baseline /\ b.run = baselines[v].run /\ b.status = status
        /\ b.items = baselines[v].items /\ b.blocked = baselines[v].blocked
    BY <2>1, <2>2 DEF Baseline, BaselineStatus
  <2>4. baselines' = [baselines EXCEPT ![v] = b]
    BY <1>2, <2>1 DEF UpdateBaseline, Baseline
  <2> HIDE DEF b
  <2>5. Frozen(baselines[v], b)
    BY <2>3 DEF Frozen
  <2>6. QED  BY <2>3, <2>4, <2>5, BaselineRewritten
<1>3. QED  BY <1>1, <1>2

LEMMA BaselineRefreshed ==
    ASSUME IInv, NEW a \in Actors, RefreshStore(a)
    PROVE  BaselineStep /\ \A b \in DOMAIN baselines : Frozen(baselines[b], baselines'[b])
<1> DEFINE v == proc[a].target
<1>1. v \in 1 .. BaselinesMade /\ proc[a].items \in SUBSET RunIds /\ proc[a].blocked \in BOOLEAN
  BY DEF IInv, Relies, RefreshStore, At, Types, Proc
<1>2. CASE ~Refreshable(baselines[v].status)
  BY <1>2, BaselinesSame DEF RefreshStore
<1>3. CASE Refreshable(baselines[v].status)
  <2> DEFINE b == [baselines[v] EXCEPT !.items = proc[a].items, !.blocked = proc[a].blocked]
  <2>1. baselines[v] \in Baseline /\ baselines \in [1 .. BaselinesMade -> Baseline]
    BY <1>1 DEF IInv, Types
  <2>2. b \in Baseline /\ b.run = baselines[v].run /\ b.status = baselines[v].status
    <3> HIDE DEF v
    <3>1. QED  BY <1>1, <2>1 DEF Baseline
  <2>3. baselines' = [baselines EXCEPT ![v] = b]
    BY <1>3, <2>1 DEF RefreshStore, Baseline
  <2>4. baselines[v].status \in {"draft", "in_review"}
    BY <1>3 DEF Refreshable
  <2> HIDE DEF b, v
  <2>5. Frozen(baselines[v], b)
    BY <2>2, <2>4 DEF Frozen
  <2>6. QED  BY <1>1, <2>2, <2>3, <2>5, BaselineRewritten
<1>4. QED  BY <1>2, <1>3

LEMMA BaselineOutdated ==
    ASSUME IInv, NEW a \in Actors, MarkOutdated(a)
    PROVE  BaselineStep /\ \A b \in DOMAIN baselines : Frozen(baselines[b], baselines'[b])
<1> DEFINE v == proc[a].target
<1>1. v \in 1 .. BaselinesMade
  BY DEF IInv, Relies, MarkOutdated, At
<1>2. baselines[v] \in Baseline /\ baselines \in [1 .. BaselinesMade -> Baseline]
  BY <1>1 DEF IInv, Types
<1> DEFINE b == MarkedOutdated(baselines[v])
<1>3. /\ b \in Baseline /\ b.run = baselines[v].run /\ b.items = baselines[v].items
      /\ b.blocked = baselines[v].blocked
      /\ \/ b.status = baselines[v].status
         \/ baselines[v].status = "approved" /\ b.status = "outdated"
  <2> HIDE DEF v
  <2>1. QED  BY <1>2 DEF MarkedOutdated, Baseline, BaselineStatus
<1>4. baselines' = [baselines EXCEPT ![v] = b]
  BY DEF MarkOutdated
<1> HIDE DEF b, v
<1>5. Frozen(baselines[v], b)
  BY <1>3 DEF Frozen
<1>6. QED  BY <1>1, <1>3, <1>4, <1>5, BaselineRewritten

\* The newest has no newer one to supersede it.
LEMMA BaselinesSuperseded ==
    ASSUME IInv, NEW v \in 1 .. BaselinesMade, baselines' = Superseded(v)
    PROVE  BaselineStep /\ \A b \in DOMAIN baselines : Frozen(baselines[b], baselines'[b])
<1>t. Types /\ DOMAIN baselines = 1 .. BaselinesMade /\ BaselinesMade \in Nat
  BY Numbers DEF IInv
<1>1. ASSUME NEW b \in 1 .. BaselinesMade
      PROVE  LET d == [baselines[b] EXCEPT !.status = "superseded"]
             IN  d \in Baseline /\ d.run = baselines[b].run /\ d.status = "superseded"
  <2>1. baselines[b] \in Baseline
    BY <1>t DEF Types
  <2>2. QED  BY <2>1 DEF Baseline, BaselineStatus
<1> DEFINE f == Superseded(v)
<1>2. /\ f \in [1 .. BaselinesMade -> Baseline]
      /\ \A b \in 1 .. BaselinesMade : f[b].run = baselines[b].run
      /\ \A b \in 1 .. BaselinesMade : f[b] = baselines[b] \/ (f[b].status = "superseded" /\ b < v)
  BY <1>t, <1>1 DEF Superseded, Types
<1>3. \A b \in 1 .. BaselinesMade : Frozen(baselines[b], f[b])
  BY <1>2 DEF Frozen
<1>4. BaselinesMade > 0 => f[BaselinesMade].status # "superseded"
  BY <1>t, <1>2 DEF IInv, NewestStands
<1> HIDE DEF f
<1>5. QED  BY <1>2, <1>3, <1>4, BaselinesRewritten DEF f

\* A run works only once it is made.
LEMMA RunsWork ==
    ASSUME IInv, NEW r \in RunIds, RunStep(r) \/ RunFails(r)
    PROVE  r \in DOMAIN runs /\ RunAt(proc[r], runs[r].status)
<1>1. proc[r].at # "idle"
  BY DEF RunStep, RunFails, At, Execute, AnalyseChunk, Reconcile, Finalise, InsertItems, InsertFindings,
         CreateBaseline, Supersede, RefreshStep, RefreshRead, RefreshStore, Complete
<1>2. QED  BY <1>1 DEF IInv, StagesAgree

LEMMA BaselinesNext ==
    ASSUME IInv, [Next]_vars
    PROVE  BaselineStep /\ \A b \in DOMAIN baselines : Frozen(baselines[b], baselines'[b])
<1> DEFINE Goal == BaselineStep /\ \A b \in DOMAIN baselines : Frozen(baselines[b], baselines'[b])
<1>u. ASSUME baselines' = baselines PROVE Goal
  BY <1>u, BaselinesSame
<1> HIDE DEF Goal
<1>1. ASSUME NEW r \in RunIds, RunStep(r) \/ RunFails(r) PROVE Goal
  <2>r. r \in DOMAIN runs /\ r \in Actors /\ RunAt(proc[r], runs[r].status)
    BY <1>1, RunsWork DEF Actors
  <2>1. CASE CreateBaseline(r)
    BY <2>1, <2>r, BaselineCreated DEF Goal
  <2>2. CASE Supersede(r)
    <3>1. proc[r].target \in 1 .. BaselinesMade
      BY <2>2, <2>r DEF IInv, Relies, Supersede, At
    <3>2. QED  BY <2>2, <3>1, BaselinesSuperseded DEF Supersede, Goal
  <2>3. CASE RefreshStep(r)
    BY <2>3, <2>r, <1>u, BaselineRefreshed DEF RefreshStep, RefreshRead, Goal
  <2>4. CASE \/ Execute(r) \/ AnalyseChunk(r) \/ Reconcile(r) \/ Finalise(r) \/ InsertItems(r)
             \/ InsertFindings(r) \/ Complete(r) \/ RunFails(r)
    BY <2>4, <1>u
       DEF Execute, AnalyseChunk, Reconcile, Finalise, InsertItems, InsertFindings, Complete, RunFails
  <2>5. QED  BY <1>1, <2>1, <2>2, <2>3, <2>4 DEF RunStep
<1>2. ASSUME NEW c \in Starters, StarterStep(c) PROVE Goal
  BY <1>2, <1>u DEF StarterStep, Start, CreateRun, Cancel
<1>3. ASSUME NEW c \in Reviewers, ReviewerStep(c) PROVE Goal
  <2>c. c \in Actors /\ proc[c] \in Proc /\ proc[c].expected \in 0 .. MaxRecordVersion
    BY DEF Actors, IInv, Types, Proc
  <2>1. CASE StartReviewWrite(c) \/ ApproveWrite(c)
    <3>1. proc[c].target \in 1 .. BaselinesMade /\ proc[c].expected < MaxRecordVersion
      BY <2>1, <2>c DEF IInv, Relies, StartReviewWrite, ApproveWrite, At
    <3>2. QED  BY <2>1, <2>c, <3>1, BaselineUpdated DEF StartReviewWrite, ApproveWrite, Goal
  <2>2. CASE RefreshStep(c)
    BY <2>2, <2>c, <1>u, BaselineRefreshed DEF RefreshStep, RefreshRead, Goal
  <2>3. CASE MarkOutdated(c)
    BY <2>3, <2>c, BaselineOutdated DEF Goal
  <2>4. CASE Decide(c) \/ StartReview(c) \/ Approve(c) \/ ApproveRead(c) \/ ReadBaseline(c)
    BY <2>4, <1>u DEF Decide, StartReview, Approve, ApproveRead, ReadBaseline
  <2>5. QED  BY <1>3, <2>1, <2>2, <2>3, <2>4 DEF ReviewerStep
<1>4. ASSUME Crash \/ SourcesChange \/ UNCHANGED vars PROVE Goal
  BY <1>4, <1>u DEF Crash, SourcesChange, vars
<1>5. QED  BY <1>1, <1>2, <1>3, <1>4 DEF Next, Goal

-----------------------------------------------------------------------------
(* The runs and what the actors hold *)

\* What a step makes of the runs and of what every actor is at.
ActorStep ==
    /\ RunsMade' \in 0 .. MaxRuns /\ runs' \in [1 .. RunsMade' -> Run]
    /\ proc' \in [Actors -> Proc]
    /\ \A r \in DOMAIN runs' : Accounted(runs'[r])
    /\ \A a \in Actors : Relies(proc'[a], BaselinesMade')
    /\ \A r \in RunIds :
          /\ IF r \in DOMAIN runs' THEN RunAt(proc'[r], runs'[r].status) ELSE proc'[r].at = "idle"
          /\ HasPersisted(r) => HasPersisted(r)'
          /\ proc'[r].at \in {"items", "findings", "baseline"} =>
                proc[r].at \in {"reconcile", "items", "findings", "baseline"}

LEMMA ReliesGrows ==
    ASSUME Types, NEW p \in Proc, NEW made \in Nat, Relies(p, made),
           NEW more \in Nat, made <= more
    PROVE  Relies(p, more)
  BY DEF Relies

LEMMA IdleFacts ==
    /\ Idle \in Proc /\ Idle.at = "idle" /\ \A made : Relies(Idle, made)
    /\ \A status : RunAt(Idle, status)
  BY AnalysisAssumption DEF Idle, Proc, Stages, Relies, RunAt

\* What every actor relies on still holds, whatever happened to the baselines.
LEMMA StillRelied ==
    ASSUME IInv, BaselineStep, NEW a \in Actors
    PROVE  Relies(proc[a], BaselinesMade')
<1>1. Types /\ proc[a] \in Proc /\ Relies(proc[a], BaselinesMade)
  BY DEF IInv, Types
<1>2. BaselinesMade \in Nat /\ BaselinesMade' \in Nat /\ BaselinesMade <= BaselinesMade'
  BY <1>1, Numbers DEF BaselineStep
<1>3. QED  BY <1>1, <1>2, ReliesGrows

\* Only one actor moves, and no run.
LEMMA ActorMoved ==
    ASSUME IInv, BaselineStep, NEW c \in Actors \ RunIds, NEW p \in Proc, Relies(p, BaselinesMade),
           runs' = runs, proc' = [proc EXCEPT ![c] = p]
    PROVE  ActorStep
<1>1. Types /\ RunsMade' = RunsMade /\ RunIds \subseteq Actors
  BY DEF IInv, RunsMade, Actors
<1>2. Relies(p, BaselinesMade')
  BY <1>1, Numbers, ReliesGrows DEF BaselineStep
<1>3. \A a \in Actors : proc'[a] = IF a = c THEN p ELSE proc[a]
  BY <1>1 DEF Types
<1>4. \A r \in RunIds : proc'[r] = proc[r]
  BY <1>1, <1>3
<1>5. proc' \in [Actors -> Proc]
  BY <1>1 DEF Types
<1>6. \A a \in Actors : Relies(proc'[a], BaselinesMade')
  BY <1>2, <1>3, StillRelied
<1>7. \A r \in RunIds : HasPersisted(r) => HasPersisted(r)'
  BY DEF HasPersisted
<1>8. QED  BY <1>1, <1>4, <1>5, <1>6, <1>7, Numbers DEF ActorStep, Types, IInv, StagesAgree

LEMMA ActorsSame ==
    ASSUME IInv, BaselineStep, runs' = runs, proc' = proc
    PROVE  ActorStep
<1>1. Types /\ RunsMade' = RunsMade /\ RunIds \subseteq Actors
  BY DEF IInv, RunsMade, Actors
<1>2. \A a \in Actors : Relies(proc'[a], BaselinesMade')
  BY StillRelied
<1>3. \A r \in RunIds : HasPersisted(r) => HasPersisted(r)'
  BY DEF HasPersisted
<1>4. QED  BY <1>1, <1>2, <1>3, Numbers DEF ActorStep, Types, IInv, StagesAgree

\* Only one run moves, with its record.
LEMMA RunMoved ==
    ASSUME IInv, BaselineStep, NEW r \in DOMAIN runs, NEW run \in Run, NEW p \in Proc,
           runs' = [runs EXCEPT ![r] = run], proc' = [proc EXCEPT ![r] = p],
           Accounted(run), Relies(p, BaselinesMade) \/ Relies(p, BaselinesMade'), RunAt(p, run.status),
           runs[r].status \in Persisting => run.status \in Persisting,
           p.at \in {"items", "findings", "baseline"} =>
               proc[r].at \in {"reconcile", "items", "findings", "baseline"}
    PROVE  ActorStep
<1>1. /\ Types /\ r \in RunIds /\ RunIds \subseteq Actors /\ DOMAIN runs' = DOMAIN runs
      /\ DOMAIN runs = 1 .. RunsMade /\ RunsMade' = RunsMade /\ RunsMade \in 0 .. MaxRuns
  BY Numbers DEF IInv, RunsMade, Actors
<1>2. Relies(p, BaselinesMade')
  BY <1>1, Numbers, ReliesGrows DEF BaselineStep
<1>3. \A a \in Actors : proc'[a] = IF a = r THEN p ELSE proc[a]
  BY <1>1 DEF Types
<1>4. \A q \in DOMAIN runs : runs'[q] = IF q = r THEN run ELSE runs[q]
  OBVIOUS
<1>5. proc' \in [Actors -> Proc] /\ runs' \in [1 .. RunsMade' -> Run]
  BY <1>1 DEF Types
<1>6. \A a \in Actors : Relies(proc'[a], BaselinesMade')
  BY <1>2, <1>3, StillRelied
<1>7. \A q \in RunIds : HasPersisted(q) => HasPersisted(q)'
  BY <1>1, <1>4 DEF HasPersisted
<1>8. \A q \in DOMAIN runs' : Accounted(runs'[q])
  BY <1>1, <1>4 DEF IInv
<1>9. \A q \in RunIds :
         /\ IF q \in DOMAIN runs' THEN RunAt(proc'[q], runs'[q].status) ELSE proc'[q].at = "idle"
         /\ proc'[q].at \in {"items", "findings", "baseline"} =>
               proc[q].at \in {"reconcile", "items", "findings", "baseline"}
  BY <1>1, <1>3, <1>4 DEF IInv, StagesAgree
<1>10. QED  BY <1>1, <1>5, <1>6, <1>7, <1>8, <1>9 DEF ActorStep

\* The refresh, which the last stage of a run and some reviewers make.
LEMMA RefreshMoves ==
    ASSUME IInv, NEW a \in Actors, RefreshStep(a)
    PROVE  \E p \in Proc :
              /\ runs' = runs /\ proc' = [proc EXCEPT ![a] = p] /\ Relies(p, BaselinesMade)
              /\ p.at \in {"store", proc[a].then} /\ (p.at = "store" => p.then = proc[a].then)
              /\ proc[a].at \in {"refresh", "store"}
<1>1. /\ proc[a] \in Proc /\ Relies(proc[a], BaselinesMade) /\ proc[a].at \in {"refresh", "store"}
      /\ runs' = runs /\ proc \in [Actors -> Proc]
  BY DEF IInv, Types, RefreshStep, RefreshRead, RefreshStore, At
<1>2. CASE Resume(a)
  <2> DEFINE p == [Idle EXCEPT !.at = proc[a].then, !.expected = proc[a].expected]
  <2>1. p \in Proc /\ p.at = proc[a].then /\ p.expected = proc[a].expected /\ proc' = [proc EXCEPT ![a] = p]
    BY <1>1, <1>2, IdleFacts DEF Proc, Resume
  <2> HIDE DEF p
  <2>2. p.at \in {"idle", "approve", "complete"} /\ (p.at = "approve" => p.expected < MaxRecordVersion)
    BY <1>1, <2>1 DEF Relies
  <2>3. Relies(p, BaselinesMade)
    BY <2>2 DEF Relies
  <2>4. QED  BY <1>1, <2>1, <2>2, <2>3
<1>3. CASE proc' = [proc EXCEPT ![a].at = "store", ![a].target = Current,
                                 ![a].items = items, ![a].blocked = blocking]
           /\ Current # NoBaseline /\ proc[a].at = "refresh"
  <2> DEFINE p == [proc[a] EXCEPT !.at = "store", !.target = Current, !.items = items, !.blocked = blocking]
  <2>1. proc' = [proc EXCEPT ![a] = p]
    BY <1>1, <1>3
  <2>2. Current \in 1 .. BaselinesMade /\ Current \in Versions /\ items \in SUBSET RunIds /\ blocking \in BOOLEAN
    BY <1>3, CurrentIsNewest, Numbers DEF IInv, Types
  <2> HIDE DEF Current
  <2>3. /\ p \in Proc /\ p.at = "store" /\ p.then = proc[a].then /\ p.expected = proc[a].expected
        /\ p.target = Current
    BY <1>1, <2>2 DEF Proc, Stages
  <2> HIDE DEF p
  <2>4. Relies(p, BaselinesMade)
    BY <1>1, <2>2, <2>3 DEF Relies
  <2>5. QED  BY <1>1, <2>1, <2>3, <2>4
<1>4. QED  BY <1>2, <1>3 DEF RefreshStep, RefreshRead, RefreshStore, At

LEMMA RunsMove ==
    ASSUME IInv, BaselineStep, NEW r \in RunIds, RunStep(r) \/ RunFails(r)
    PROVE  ActorStep
<1> DEFINE p0 == proc[r]
           run0 == runs[r]
<1>r. /\ r \in DOMAIN runs /\ r \in Actors /\ RunAt(p0, run0.status) /\ Accounted(run0)
      /\ p0 \in Proc /\ run0 \in Run /\ Relies(p0, BaselinesMade) /\ Types
      /\ proc \in [Actors -> Proc] /\ run0.analysed \in Nat /\ run0.failed \in Nat /\ run0.total \in Nat
  <2>1. r \in DOMAIN runs /\ r \in Actors /\ RunAt(p0, run0.status)
    BY RunsWork DEF Actors
  <2>2. Types /\ run0 \in Run /\ p0 \in Proc
    BY <2>1, Numbers DEF IInv, Types
  <2>3. run0.analysed \in 0 .. MaxChunks /\ run0.failed \in 0 .. MaxChunks /\ run0.total \in 0 .. MaxChunks
    BY <2>2 DEF Run
  <2>4. QED  BY <2>1, <2>2, <2>3 DEF IInv, Types
\* A record that only changes its status.
<1>s. ASSUME NEW status \in RunStatus
      PROVE  LET run == [run0 EXCEPT !.status = status]
             IN  /\ run \in Run /\ run.status = status /\ run.analysed = run0.analysed
                 /\ run.failed = run0.failed /\ run.total = run0.total
  <2> HIDE DEF run0
  <2>1. QED  BY <1>r DEF Run
\* The end of a run, other than of a completed one.
<1>e. ASSUME NEW status \in {"FAILED", "CANCELLED"}, EndAs(r, status),
             status = "CANCELLED" => run0.status \notin Persisting
      PROVE  ActorStep
  <2> DEFINE run == [run0 EXCEPT !.status = status]
  <2>1. /\ run \in Run /\ run.status = status
        /\ runs' = [runs EXCEPT ![r] = run] /\ proc' = [proc EXCEPT ![r] = Idle]
    BY <1>e, <1>s DEF EndAs, SetRun, Return, RunStatus
  <2> HIDE DEF run
  <2>2. Accounted(run) /\ (run0.status \in Persisting => run.status \in Persisting)
    BY <1>e, <2>1 DEF Accounted, Persisting
  <2>3. QED  BY <1>r, <2>1, <2>2, IdleFacts, RunMoved
\* The next stage, with the status that goes with it.
<1>g. ASSUME NEW status \in RunStatus, NEW at \in {"reconcile", "items"},
             SetRun(r, status), Go(r, at), Accounted([run0 EXCEPT !.status = status]),
             at = "reconcile" => status = "RECONCILING" /\ run0.status \notin Persisting,
             at = "items" => status = "FINALISING" /\ p0.at = "reconcile"
      PROVE  ActorStep
  <2> DEFINE run == [run0 EXCEPT !.status = status]
             p == [p0 EXCEPT !.at = at]
  <2>1. /\ run \in Run /\ run.status = status /\ Accounted(run)
        /\ runs' = [runs EXCEPT ![r] = run] /\ proc' = [proc EXCEPT ![r] = p]
    BY <1>g, <1>s DEF SetRun, Go
  <2>2. p \in Proc /\ p.at = at
    <3> HIDE DEF p0
    <3>1. QED  BY <1>r DEF Proc, Stages
  <2> HIDE DEF p, run, p0, run0
  <2>3. Relies(p, BaselinesMade) /\ RunAt(p, run.status)
    BY <1>g, <2>1, <2>2 DEF Relies, RunAt
  <2>4. QED  BY <1>g, <1>r, <2>1, <2>2, <2>3, RunMoved DEF Persisting, p0, run0
\* The next stage, while the record stays.
<1>n. ASSUME NEW p \in Proc, runs' = runs, proc' = [proc EXCEPT ![r] = p],
             Relies(p, BaselinesMade) \/ Relies(p, BaselinesMade'), RunAt(p, run0.status),
             p.at \in {"items", "findings", "baseline"} => p0.at \in {"items", "findings", "baseline"}
      PROVE  ActorStep
  <2>1. runs' = [runs EXCEPT ![r] = run0]
    BY <1>n, <1>r, Numbers DEF Types
  <2> HIDE DEF run0
  <2>2. QED  BY <1>n, <1>r, <2>1, RunMoved DEF run0
<1>1. CASE Execute(r)
  <2>0. p0.at = "execute" /\ run0.status = "PENDING"
    BY <1>1, <1>r DEF Execute, At, RunAt
  <2>1. CASE sources = NoContent
    BY <1>1, <1>e, <2>1 DEF Execute
  <2>2. CASE sources # NoContent
    <3>1. PICK n \in 1 .. MaxChunks : runs' = [runs EXCEPT ![r].status = "ANALYSING", ![r].total = n] /\ Go(r, "chunks")
      BY <1>1, <2>2 DEF Execute
    <3> DEFINE run == [run0 EXCEPT !.status = "ANALYSING", !.total = n]
               p == [p0 EXCEPT !.at = "chunks"]
    <3>2. /\ run \in Run /\ run.status = "ANALYSING" /\ p \in Proc /\ p.at = "chunks"
          /\ runs' = [runs EXCEPT ![r] = run] /\ proc' = [proc EXCEPT ![r] = p]
      <4>1. runs' = [runs EXCEPT ![r] = run] /\ proc' = [proc EXCEPT ![r] = p]
        BY <3>1, <1>r DEF Go
      <4> HIDE DEF p0, run0
      <4>2. p \in Proc /\ p.at = "chunks"
        BY <1>r DEF Proc, Stages
      <4>t. "ANALYSING" \in RunStatus /\ n \in 0 .. MaxChunks
        BY AnalysisAssumption DEF RunStatus
      <4>3. run \in Run /\ run.status = "ANALYSING"
        BY <1>r, <4>t DEF Run
      <4>4. QED  BY <4>1, <4>2, <4>3
    <3> HIDE DEF run, p
    <3>3. Accounted(run) /\ Relies(p, BaselinesMade) /\ RunAt(p, run.status) /\ run0.status \notin Persisting
      BY <2>0, <3>2 DEF Accounted, Relies, RunAt, Persisting
    <3>4. QED  BY <1>r, <3>2, <3>3, RunMoved
  <2>3. QED  BY <2>1, <2>2
<1>2. CASE AnalyseChunk(r)
  <2>0. p0.at = "chunks" /\ run0.status = "ANALYSING" /\ ChunksLeft(run0) > 0
    BY <1>2, <1>r DEF AnalyseChunk, At, RunAt
  <2>1. CASE runs[r].cancelAsked
    BY <1>2, <1>e, <2>0, <2>1 DEF AnalyseChunk, Persisting
  <2>2. CASE ~runs[r].cancelAsked
    <3>1. PICK ok \in BOOLEAN : runs' = [runs EXCEPT ![r] = Counted(run0, ok)] /\ proc' = proc
      BY <1>2, <2>2 DEF AnalyseChunk, ChunkOutcomes
    <3> DEFINE run == Counted(run0, ok)
    <3>2. run \in Run /\ run.status = run0.status
      <4>1. run0.analysed + 1 \in 0 .. MaxChunks /\ run0.failed + 1 \in 0 .. MaxChunks
        <5>1. run0.total <= MaxChunks /\ MaxChunks \in Nat
          BY <1>r, AnalysisAssumption DEF Run
        <5>2. run0.total - run0.analysed - run0.failed > 0
          BY <2>0 DEF ChunksLeft
        <5> HIDE DEF run0
        <5>3. QED  BY <1>r, <5>1, <5>2
      <4> HIDE DEF run0
      <4>2. QED  BY <1>r, <4>1 DEF Run, Counted
    <3>3. proc' = [proc EXCEPT ![r] = p0]
      BY <1>r, <3>1
    <3>4. runs' = [runs EXCEPT ![r] = run] /\ Accounted(run)
      BY <2>0, <3>1, <3>2 DEF Accounted
    <3> HIDE DEF run, run0, p0
    <3>5. QED  BY <1>r, <2>0, <3>2, <3>3, <3>4, RunMoved DEF run0, p0
  <2>3. QED  BY <2>1, <2>2
<1>3. CASE Reconcile(r)
  <2>0. p0.at = "chunks" /\ run0.status = "ANALYSING" /\ ChunksLeft(run0) = 0
    BY <1>3, <1>r DEF Reconcile, At, RunAt
  <2>1. CASE EndAs(r, "FAILED") \/ EndAs(r, "CANCELLED")
    BY <1>e, <2>0, <2>1 DEF Persisting
  <2>2. CASE run0.analysed > 0 /\ SetRun(r, "RECONCILING") /\ Go(r, "reconcile")
    <3>1. Accounted([run0 EXCEPT !.status = "RECONCILING"])
      BY <1>s, <2>0, <2>2 DEF Accounted, ChunksLeft, RunStatus
    <3>2. QED  BY <1>g, <2>0, <2>2, <3>1 DEF RunStatus, Persisting
  <2>3. QED  BY <1>3, <2>1, <2>2 DEF Reconcile
<1>4. CASE Finalise(r)
  <2>0. p0.at = "reconcile" /\ run0.status = "RECONCILING"
    BY <1>4, <1>r DEF Finalise, At, RunAt
  <2>1. Accounted([run0 EXCEPT !.status = "FINALISING"])
    BY <1>r, <1>s, <2>0 DEF Accounted, ChunksLeft, RunStatus
  <2>2. QED  BY <1>4, <1>g, <2>0, <2>1 DEF Finalise, RunStatus
<1>5. CASE InsertItems(r)
  <2>0. p0.at = "items" /\ run0.status = "FINALISING"
    BY <1>5, <1>r DEF InsertItems, At, RunAt
  <2> DEFINE p == [p0 EXCEPT !.at = "findings"]
  <2>1. runs' = runs /\ proc' = [proc EXCEPT ![r] = p]
    BY <1>5 DEF InsertItems, Go
  <2>2. p \in Proc /\ p.at = "findings"
    <3> HIDE DEF p0
    <3>1. QED  BY <1>r DEF Proc, Stages
  <2> HIDE DEF p, run0, p0
  <2>3. Relies(p, BaselinesMade) /\ RunAt(p, run0.status)
    BY <2>0, <2>2 DEF Relies, RunAt
  <2>4. QED  BY <1>n, <2>0, <2>1, <2>2, <2>3
<1>6. CASE InsertFindings(r)
  <2>0. p0.at = "findings" /\ run0.status = "FINALISING"
    BY <1>6, <1>r DEF InsertFindings, At, RunAt
  <2> DEFINE p == [p0 EXCEPT !.at = "baseline", !.target = BaselinesMade + 1]
  <2>1. runs' = runs /\ proc' = [proc EXCEPT ![r] = p]
    BY <1>6 DEF InsertFindings, BaselinesMade
  <2>t. BaselinesMade + 1 \in Versions /\ BaselinesMade + 1 \in 1 .. BaselinesMade + 1
    BY <1>r, <2>0, Numbers, RoomForOne
  <2>2. p \in Proc /\ p.at = "baseline" /\ p.target = BaselinesMade + 1
    <3> HIDE DEF p0
    <3>1. QED  BY <1>r, <2>t DEF Proc, Stages
  <2> HIDE DEF p, run0, p0
  <2>3. Relies(p, BaselinesMade) /\ RunAt(p, run0.status)
    BY <2>0, <2>t, <2>2 DEF Relies, RunAt
  <2>4. QED  BY <1>n, <2>0, <2>1, <2>2, <2>3
<1>7. CASE CreateBaseline(r)
  <2>0. p0.at = "baseline" /\ run0.status = "FINALISING"
    BY <1>7, <1>r DEF CreateBaseline, At, RunAt
  <2>1. CASE EndAs(r, "FAILED")
    BY <1>e, <2>1
  <2>2. CASE p0.target \notin DOMAIN baselines
    <3> DEFINE p == [p0 EXCEPT !.at = "supersede"]
    <3>1. runs' = runs /\ proc' = [proc EXCEPT ![r] = p] /\ DOMAIN baselines' = 1 .. p0.target
      BY <1>7, <2>2 DEF CreateBaseline, Go
    <3>2. p \in Proc /\ p.at = "supersede" /\ p.target = p0.target
      <4> HIDE DEF p0
      <4>1. QED  BY <1>r DEF Proc, Stages
    <3>3. p0.target \in 1 .. BaselinesMade + 1 /\ BaselinesMade \in Nat
      BY <1>r, <2>0, Numbers DEF Relies
    <3>4. BaselinesMade' = p0.target
      BY <3>1, <3>3, Numbered DEF BaselinesMade
    <3> HIDE DEF p, p0, run0
    <3>5. Relies(p, BaselinesMade') /\ RunAt(p, run0.status)
      BY <2>0, <3>2, <3>3, <3>4 DEF Relies, RunAt
    <3>6. QED  BY <1>n, <3>1, <3>2, <3>5
  <2>3. QED  BY <1>7, <2>1, <2>2 DEF CreateBaseline
<1>8. CASE Complete(r)
  <2>0. p0.at = "complete" /\ run0.status = "FINALISING"
    BY <1>8, <1>r DEF Complete, At, RunAt
  <2> DEFINE run == [run0 EXCEPT !.status = "COMPLETED"]
  <2>1. /\ run \in Run /\ run.status = "COMPLETED" /\ Accounted(run)
        /\ runs' = [runs EXCEPT ![r] = run] /\ proc' = [proc EXCEPT ![r] = Idle]
    BY <1>8, <1>r, <1>s, <2>0 DEF Complete, EndAs, SetRun, Return, RunStatus, Accounted, ChunksLeft
  <2> HIDE DEF run
  <2>2. QED  BY <1>r, <2>1, IdleFacts, RunMoved DEF Persisting
<1>9. CASE RefreshStep(r)
  <2>1. PICK p \in Proc :
           /\ runs' = runs /\ proc' = [proc EXCEPT ![r] = p] /\ Relies(p, BaselinesMade)
           /\ p.at \in {"store", p0.then} /\ (p.at = "store" => p.then = p0.then)
           /\ p0.at \in {"refresh", "store"}
    BY <1>9, <1>r, RefreshMoves
  <2>2. p0.then = "complete" /\ run0.status = "FINALISING"
    BY <1>r, <2>1 DEF RunAt
  <2>3. RunAt(p, run0.status)
    BY <2>1, <2>2 DEF RunAt
  <2>4. QED  BY <1>n, <2>1, <2>2, <2>3
<1>10. CASE RunFails(r)
  BY <1>10, <1>e DEF RunFails
<1>11. CASE Supersede(r)
  <2>0. p0.at = "supersede" /\ run0.status = "FINALISING"
    BY <1>11, <1>r DEF Supersede, At, RunAt
  <2> DEFINE p == [p0 EXCEPT !.at = "refresh", !.then = "complete"]
  <2>1. /\ proc' = [proc EXCEPT ![r] = p]
        /\ runs' = [i \in DOMAIN runs |->
                      IF i # r /\ runs[i].status = "COMPLETED"
                      THEN [runs[i] EXCEPT !.status = "SUPERSEDED"] ELSE runs[i]]
    BY <1>11, <1>r DEF Supersede
  <2>2. /\ p \in Proc /\ p.at = "refresh" /\ p.then = "complete"
    <3> HIDE DEF p0
    <3>1. QED  BY <1>r DEF Proc, Stages
  <2> HIDE DEF p
  <2>3. Relies(p, BaselinesMade') /\ RunAt(p, run0.status)
    BY <2>0, <2>2 DEF Relies, RunAt
  <2>4. ASSUME NEW i \in DOMAIN runs
        PROVE  LET run == [runs[i] EXCEPT !.status = "SUPERSEDED"]
               IN  /\ runs[i] \in Run /\ run \in Run /\ run.status = "SUPERSEDED"
                   /\ run.analysed = runs[i].analysed /\ run.failed = runs[i].failed
                   /\ run.total = runs[i].total
    <3>1. runs[i] \in Run
      BY <1>r, Numbers DEF Types
    <3>2. QED  BY <3>1 DEF Run, RunStatus
  <2>5. /\ DOMAIN runs' = DOMAIN runs /\ runs'[r] = run0
        /\ \A i \in DOMAIN runs :
              /\ runs'[i] \in Run
              /\ \/ runs'[i] = runs[i]
                 \/ /\ runs[i].status = "COMPLETED" /\ runs'[i].status = "SUPERSEDED" /\ i # r
                    /\ runs'[i].analysed = runs[i].analysed /\ runs'[i].failed = runs[i].failed
                    /\ runs'[i].total = runs[i].total
    BY <1>r, <2>1, <2>4
  <2>6. RunsMade' = RunsMade /\ DOMAIN runs = 1 .. RunsMade /\ RunsMade \in 0 .. MaxRuns
    BY <1>r, <2>5, Numbers DEF RunsMade, Types
  <2>7. runs' \in [1 .. RunsMade' -> Run]
    BY <2>1, <2>5, <2>6
  <2>8. \A i \in DOMAIN runs' : Accounted(runs'[i])
    BY <2>5 DEF IInv, Accounted, ChunksLeft
  <2>9. \A a \in Actors : proc'[a] = IF a = r THEN p ELSE proc[a]
    BY <1>r, <2>1
  <2>10. proc' \in [Actors -> Proc]
    BY <1>r, <2>1, <2>2
  <2>11. \A a \in Actors : Relies(proc'[a], BaselinesMade')
    BY <2>3, <2>9, StillRelied
  <2>12. ASSUME NEW q \in RunIds
         PROVE  /\ IF q \in DOMAIN runs' THEN RunAt(proc'[q], runs'[q].status) ELSE proc'[q].at = "idle"
                /\ HasPersisted(q) => HasPersisted(q)'
                /\ proc'[q].at \in {"items", "findings", "baseline"} =>
                      proc[q].at \in {"reconcile", "items", "findings", "baseline"}
    <3>1. CASE q = r
      BY <1>r, <2>2, <2>3, <2>5, <2>9, <3>1 DEF HasPersisted
    <3>2. CASE q # r
      <4>1. /\ proc'[q] = proc[q]
            /\ IF q \in DOMAIN runs THEN RunAt(proc[q], runs[q].status) ELSE proc[q].at = "idle"
        BY <2>9, <3>2 DEF IInv, StagesAgree, Actors
      <4>2. RunAt(proc[q], "COMPLETED") => RunAt(proc[q], "SUPERSEDED")
        BY DEF RunAt
      <4>3. QED  BY <2>5, <4>1, <4>2 DEF HasPersisted, Persisting
    <3>3. QED  BY <3>1, <3>2
  <2>13. QED  BY <2>6, <2>7, <2>8, <2>10, <2>11, <2>12 DEF ActorStep
<1>12. QED
  BY <1>1, <1>2, <1>3, <1>4, <1>5, <1>6, <1>7, <1>8, <1>9, <1>10, <1>11 DEF RunStep

\* A new run gets the next number and starts to work.
LEMMA RunCreated ==
    ASSUME IInv, BaselineStep, NEW c \in Starters, CreateRun(c), sources # NoContent
    PROVE  ActorStep
<1> DEFINE n == RunsMade
           r == n + 1
           new == [status |-> "PENDING", cancelAsked |-> FALSE, digest |-> sources,
                   total |-> 0, analysed |-> 0, failed |-> 0]
<1>1. /\ Types /\ DOMAIN runs = 1 .. n /\ n \in Nat /\ n < MaxRuns /\ MaxRuns \in Nat
      /\ c \in Actors /\ c \notin RunIds /\ r \in RunIds /\ RunIds \subseteq Actors
      /\ r \in Actors /\ r # c /\ proc \in [Actors -> Proc]
  BY Numbers, ActorsAssumption DEF IInv, CreateRun, RunsMade, Actors, RunIds, Types
<1>2. /\ runs' = [i \in 1 .. r |-> IF i < r THEN runs[i] ELSE new]
      /\ proc' = [proc EXCEPT ![c] = Idle, ![r].at = "execute"]
  BY DEF CreateRun, RunsMade
<1>3. new \in Run /\ new.status = "PENDING" /\ Accounted(new)
  <2>1. sources \in Contents /\ "PENDING" \in RunStatus /\ 0 \in 0 .. MaxChunks
    BY <1>1, AnalysisAssumption DEF Types, RunStatus
  <2>2. QED  BY <2>1 DEF Run, Accounted
<1> DEFINE p == [proc[r] EXCEPT !.at = "execute"]
<1>4. p \in Proc /\ p.at = "execute"
  <2>1. proc[r] \in Proc
    BY <1>1
  <2> HIDE DEF r
  <2>2. QED  BY <2>1 DEF Proc, Stages
<1>5. proc' = [[proc EXCEPT ![c] = Idle] EXCEPT ![r] = p]
  BY <1>1, <1>2
<1> HIDE DEF new, p
<1>6. \A a \in Actors : proc'[a] = IF a = r THEN p ELSE IF a = c THEN Idle ELSE proc[a]
  BY <1>1, <1>5
<1>7. RunsMade' = r
  BY <1>1, <1>2, Numbered DEF RunsMade
<1>8. /\ \A i \in 1 .. n : runs'[i] = runs[i] /\ runs[i] \in Run
      /\ runs'[r] = new /\ DOMAIN runs' = 1 .. r
  BY <1>1, <1>2 DEF Types
<1>9. runs' \in [1 .. RunsMade' -> Run] /\ RunsMade' \in 0 .. MaxRuns
  <2>1. \A i \in 1 .. r : runs'[i] \in Run
    <3>1. \A i \in 1 .. r : i = r \/ i \in 1 .. n
      BY <1>1
    <3> HIDE DEF r, n
    <3>2. QED  BY <1>3, <1>8, <3>1
  <2>2. runs' \in [1 .. r -> Run]
    <3> HIDE DEF r, n
    <3>1. QED  BY <1>2, <2>1
  <2>3. QED  BY <1>1, <1>7, <2>2
<1>10. proc' \in [Actors -> Proc]
  BY <1>1, <1>4, <1>5, IdleFacts
<1>11. \A i \in DOMAIN runs' : Accounted(runs'[i])
  BY <1>1, <1>3, <1>8 DEF IInv
<1>12. Relies(p, BaselinesMade') /\ RunAt(p, "PENDING")
  BY <1>4 DEF Relies, RunAt
<1>13. \A a \in Actors : Relies(proc'[a], BaselinesMade')
  BY <1>6, <1>12, StillRelied, IdleFacts
<1>14. ASSUME NEW q \in RunIds
       PROVE  /\ IF q \in DOMAIN runs' THEN RunAt(proc'[q], runs'[q].status) ELSE proc'[q].at = "idle"
              /\ HasPersisted(q) => HasPersisted(q)'
              /\ proc'[q].at \in {"items", "findings", "baseline"} =>
                    proc[q].at \in {"reconcile", "items", "findings", "baseline"}
  <2>1. CASE q = r
    BY <1>1, <1>3, <1>4, <1>6, <1>8, <1>12, <2>1 DEF HasPersisted
  <2>2. CASE q # r
    <3>1. proc'[q] = proc[q] /\ (q \in DOMAIN runs' <=> q \in DOMAIN runs)
      BY <1>1, <1>6, <1>8, <2>2 DEF RunIds
    <3>2. QED  BY <1>1, <1>8, <3>1 DEF IInv, StagesAgree, HasPersisted
  <2>3. QED  BY <2>1, <2>2
<1>15. QED  BY <1>9, <1>10, <1>11, <1>13, <1>14 DEF ActorStep

LEMMA StartersMove ==
    ASSUME IInv, BaselineStep, NEW c \in Starters, StarterStep(c)
    PROVE  ActorStep
<1>c. /\ c \in Actors \ RunIds /\ proc[c] \in Proc /\ Relies(proc[c], BaselinesMade) /\ Types
      /\ proc \in [Actors -> Proc]
  BY ActorsAssumption DEF Actors, RunIds, IInv, Types
<1>1. CASE Start(c)
  <2> DEFINE p == [proc[c] EXCEPT !.at = "create"]
  <2>1. p \in Proc /\ p.at = "create"
    BY <1>c DEF Proc, Stages
  <2>2. runs' = runs /\ proc' = [proc EXCEPT ![c] = p]
    BY <1>1 DEF Start, Go
  <2> HIDE DEF p
  <2>3. Relies(p, BaselinesMade)
    BY <2>1 DEF Relies
  <2>4. QED  BY <1>c, <2>1, <2>2, <2>3, ActorMoved
<1>2. CASE CreateRun(c)
  <2>1. CASE sources = NoContent
    BY <1>2, <1>c, <2>1, ActorMoved, IdleFacts DEF CreateRun, Return
  <2>2. CASE sources # NoContent
    BY <1>2, <2>2, RunCreated
  <2>3. QED  BY <2>1, <2>2
<1>3. ASSUME NEW r \in DOMAIN runs, Cancel(c, r)
      PROVE  ActorStep
  <2> DEFINE run0 == runs[r]
             run == [run0 EXCEPT !.cancelAsked = TRUE]
  <2>1. /\ r \in RunIds /\ r \in Actors /\ run0 \in Run /\ Accounted(run0) /\ proc[r] \in Proc
        /\ RunAt(proc[r], run0.status) /\ Relies(proc[r], BaselinesMade)
    BY <1>c, Numbers DEF IInv, Types, Actors, StagesAgree
  <2>2. runs' = [runs EXCEPT ![r] = run]
    BY <1>3 DEF Cancel
  <2>3. proc' = [proc EXCEPT ![r] = proc[r]]
    BY <1>3, <1>c, <2>1 DEF Cancel
  <2> HIDE DEF run0
  <2>4. /\ run \in Run /\ run.status = run0.status /\ run.analysed = run0.analysed
        /\ run.failed = run0.failed /\ run.total = run0.total
    BY <2>1 DEF Run
  <2> HIDE DEF run
  <2>5. Accounted(run)
    BY <2>1, <2>4 DEF Accounted, ChunksLeft
  <2>6. QED  BY <2>1, <2>2, <2>3, <2>4, <2>5, RunMoved DEF run0
<1>4. QED  BY <1>1, <1>2, <1>3 DEF StarterStep

LEMMA ReviewersMove ==
    ASSUME IInv, BaselineStep, NEW c \in Reviewers, ReviewerStep(c)
    PROVE  ActorStep
<1> DEFINE p0 == proc[c]
<1>c. /\ c \in Actors \ RunIds /\ c \in Actors /\ p0 \in Proc /\ Relies(p0, BaselinesMade) /\ Types
      /\ proc \in [Actors -> Proc] /\ NewestStands
  BY ActorsAssumption DEF Actors, RunIds, IInv, Types
<1>r. CASE Return(c) /\ runs' = runs
  BY <1>c, <1>r, ActorMoved, IdleFacts DEF Return
\* A read of the current baseline.
<1>t. ASSUME Current # NoBaseline, NEW at \in {"review", "approving", "outdate"},
             NEW expected \in 0 .. MaxRecordVersion,
             proc' = [proc EXCEPT ![c].at = at, ![c].target = Current, ![c].expected = expected],
             at \in {"review", "approving"} => expected < MaxRecordVersion, runs' = runs
      PROVE  ActorStep
  <2> DEFINE p == [p0 EXCEPT !.at = at, !.target = Current, !.expected = expected]
  <2>1. Current \in 1 .. BaselinesMade /\ Current \in Versions
    BY <1>c, <1>t, CurrentIsNewest, Numbers
  <2>2. proc' = [proc EXCEPT ![c] = p]
    BY <1>c, <1>t
  <2> HIDE DEF Current, p0
  <2>3. p \in Proc /\ p.at = at /\ p.target = Current /\ p.expected = expected
    BY <1>c, <1>t, <2>1 DEF Proc, Stages
  <2> HIDE DEF p
  <2>4. Relies(p, BaselinesMade)
    BY <1>t, <2>1, <2>3 DEF Relies
  <2>5. QED  BY <1>c, <1>t, <2>2, <2>3, <2>4, ActorMoved
\* The start of a refresh.
<1>f. ASSUME NEW then \in {"idle", "approve"}, NEW expected \in 0 .. MaxRecordVersion,
             proc' = [proc EXCEPT ![c].at = "refresh", ![c].then = then, ![c].expected = expected],
             then = "approve" => expected < MaxRecordVersion, runs' = runs
      PROVE  ActorStep
  <2> DEFINE p == [p0 EXCEPT !.at = "refresh", !.then = then, !.expected = expected]
  <2>2. proc' = [proc EXCEPT ![c] = p]
    BY <1>c, <1>f
  <2> HIDE DEF p0
  <2>3. p \in Proc /\ p.at = "refresh" /\ p.then = then /\ p.expected = expected
    BY <1>c, <1>f DEF Proc, Stages
  <2> HIDE DEF p
  <2>4. Relies(p, BaselinesMade)
    BY <1>f, <2>3 DEF Relies
  <2>5. QED  BY <1>c, <1>f, <2>2, <2>3, <2>4, ActorMoved
<1>e. p0.expected \in 0 .. MaxRecordVersion
  BY <1>c DEF Proc
<1>1. CASE Decide(c)
  <2>1. proc' = [proc EXCEPT ![c].at = "refresh", ![c].then = "idle", ![c].expected = p0.expected]
    <3>1. proc' = [proc EXCEPT ![c] = [p0 EXCEPT !.at = "refresh", !.then = "idle"]]
      BY <1>1, <1>c DEF Decide
    <3>2. [p0 EXCEPT !.at = "refresh", !.then = "idle"]
            = [p0 EXCEPT !.at = "refresh", !.then = "idle", !.expected = p0.expected]
      <4> HIDE DEF p0
      <4>1. QED  BY <1>c DEF Proc
    <3>3. QED  BY <1>c, <3>1, <3>2
  <2>2. QED  BY <1>1, <1>e, <1>f, <2>1 DEF Decide
<1>2. CASE StartReview(c)
  <2>1. Current \in 1 .. BaselinesMade /\ Current # NoBaseline
    BY <1>2, <1>c, CurrentIsNewest DEF StartReview
  <2>2. baselines[Current].recordVersion \in 0 .. MaxRecordVersion
    <3> HIDE DEF Current
    <3>1. QED  BY <1>c, <2>1 DEF Types, Baseline
  <2> HIDE DEF Current
  <2>3. QED  BY <1>2, <1>t, <2>1, <2>2 DEF StartReview
<1>3. CASE Approve(c)
  <2>1. PICK expected \in 0 .. MaxRecordVersion - 1 :
          proc' = [proc EXCEPT ![c].at = "refresh", ![c].then = "approve", ![c].expected = expected]
    BY <1>3 DEF Approve
  <2>2. expected \in 0 .. MaxRecordVersion /\ expected < MaxRecordVersion
    BY AnalysisAssumption
  <2>3. QED  BY <1>3, <1>f, <2>1, <2>2 DEF Approve
<1>4. CASE ApproveRead(c)
  <2>0. p0.at = "approve" /\ p0.expected < MaxRecordVersion /\ runs' = runs
    BY <1>4, <1>c DEF ApproveRead, At, Relies
  <2>1. CASE Return(c)
    BY <2>0, <2>1, <1>r
  <2>2. CASE Current # NoBaseline /\ proc' = [proc EXCEPT ![c].at = "approving", ![c].target = Current]
    <3>1. proc' = [proc EXCEPT ![c].at = "approving", ![c].target = Current, ![c].expected = p0.expected]
      <4> HIDE DEF Current
      <4>1. proc' = [proc EXCEPT ![c] = [p0 EXCEPT !.at = "approving", !.target = Current]]
        BY <2>2, <1>c
      <4>2. [p0 EXCEPT !.at = "approving", !.target = Current]
              = [p0 EXCEPT !.at = "approving", !.target = Current, !.expected = p0.expected]
        <5> HIDE DEF p0
        <5>1. QED  BY <1>c DEF Proc
      <4>3. QED  BY <1>c, <4>1, <4>2
    <3>2. QED  BY <1>e, <1>t, <2>0, <2>2, <3>1
  <2>3. QED  BY <1>4, <2>1, <2>2 DEF ApproveRead
<1>5. CASE ReadBaseline(c)
  <2>1. Current # NoBaseline /\ runs' = runs
        /\ proc' = [proc EXCEPT ![c].at = "outdate", ![c].target = Current]
    BY <1>5 DEF ReadBaseline
  <2>2. proc' = [proc EXCEPT ![c].at = "outdate", ![c].target = Current, ![c].expected = p0.expected]
    <3> HIDE DEF Current
    <3>1. proc' = [proc EXCEPT ![c] = [p0 EXCEPT !.at = "outdate", !.target = Current]]
      BY <2>1, <1>c
    <3>2. [p0 EXCEPT !.at = "outdate", !.target = Current]
            = [p0 EXCEPT !.at = "outdate", !.target = Current, !.expected = p0.expected]
      <4> HIDE DEF p0
      <4>1. QED  BY <1>c DEF Proc
    <3>3. QED  BY <1>c, <3>1, <3>2
  <2>3. QED  BY <1>e, <1>t, <2>1, <2>2
<1>6. CASE StartReviewWrite(c) \/ ApproveWrite(c) \/ MarkOutdated(c)
  BY <1>6, <1>r DEF StartReviewWrite, ApproveWrite, MarkOutdated
<1>7. CASE RefreshStep(c)
  BY <1>7, <1>c, RefreshMoves, ActorMoved
<1>8. QED  BY <1>1, <1>2, <1>3, <1>4, <1>5, <1>6, <1>7 DEF ReviewerStep

LEMMA ActorsNext ==
    ASSUME IInv, [Next]_vars
    PROVE  ActorStep
<1>b. BaselineStep
  BY BaselinesNext
<1>1. CASE Crash
  <2>1. /\ Types /\ runs' = runs /\ RunsMade' = RunsMade /\ proc' = [a \in Actors |-> Idle]
        /\ RunIds \subseteq Actors
    BY <1>1 DEF IInv, Crash, RunsMade, Actors
  <2>2. \A a \in Actors : proc'[a] = Idle
    BY <2>1
  <2>3. \A r \in RunIds : HasPersisted(r) => HasPersisted(r)'
    BY <2>1 DEF HasPersisted
  <2>4. proc' \in [Actors -> Proc]
    BY <2>1, IdleFacts
  <2>5. \A r \in RunIds : proc'[r].at = "idle" /\ \A status : RunAt(proc'[r], status)
    BY <2>1, <2>2, IdleFacts
  <2>6. \A a \in Actors : Relies(proc'[a], BaselinesMade')
    BY <2>2, IdleFacts
  <2>7. QED  BY <2>1, <2>3, <2>4, <2>5, <2>6 DEF ActorStep, Types, IInv
<1>2. CASE SourcesChange \/ UNCHANGED vars
  BY <1>2, <1>b, ActorsSame DEF SourcesChange, vars
<1>3. QED  BY <1>1, <1>2, <1>b, RunsMove, StartersMove, ReviewersMove DEF Next

-----------------------------------------------------------------------------
(* The other records *)

LEMMA RecordsNext ==
    ASSUME IInv, [Next]_vars
    PROVE  /\ sources' \in Contents /\ blocking' \in BOOLEAN
           /\ items' \subseteq items \cup {r \in RunIds : proc[r].at = "items"}
           /\ lost' \subseteq RunIds /\ slips' \in 0 .. MaxSlips
<1>t. Types /\ MaxSlips \in Nat
  BY AnalysisAssumption DEF IInv
<1> DEFINE Goal == /\ sources' \in Contents /\ blocking' \in BOOLEAN
                   /\ items' \subseteq items \cup {r \in RunIds : proc[r].at = "items"}
                   /\ lost' \subseteq RunIds /\ slips' \in 0 .. MaxSlips
<1>u. ASSUME UNCHANGED <<sources, items, blocking, lost, slips>> PROVE Goal
  BY <1>u, <1>t DEF Types
<1>1. ASSUME NEW r \in RunIds, RunStep(r) PROVE Goal
  <2>1. CASE InsertItems(r)
    BY <1>t, <2>1 DEF InsertItems, Types, At
  <2>2. CASE InsertFindings(r)
    BY <1>t, <2>2 DEF InsertFindings, GlobalOutcomes, Types
  <2>3. CASE \/ Execute(r) \/ AnalyseChunk(r) \/ Reconcile(r) \/ Finalise(r) \/ CreateBaseline(r)
             \/ Supersede(r) \/ RefreshStep(r) \/ Complete(r)
    <3> HIDE DEF Goal
    <3>1. QED
      BY <1>u, <2>3 DEF Execute, AnalyseChunk, Reconcile, Finalise, CreateBaseline, Supersede,
                        RefreshStep, RefreshRead, RefreshStore, Complete
  <2>4. QED  BY <1>1, <2>1, <2>2, <2>3 DEF RunStep
<1>2. ASSUME NEW r \in RunIds, RunFails(r) PROVE Goal
  BY <1>t, <1>2 DEF RunFails, Types
<1>3. ASSUME NEW c \in Starters, StarterStep(c) PROVE Goal
  <2> HIDE DEF Goal
  <2>1. QED  BY <1>u, <1>3 DEF StarterStep, Start, CreateRun, Cancel
<1>4. ASSUME NEW c \in Reviewers, ReviewerStep(c) PROVE Goal
  <2>1. CASE Decide(c)
    BY <1>t, <2>1 DEF Decide, Types
  <2>2. CASE ~Decide(c)
    <3> HIDE DEF Goal
    <3>1. QED
      BY <1>u, <1>4, <2>2 DEF ReviewerStep, StartReview, StartReviewWrite, Approve, ApproveRead,
             ApproveWrite, ReadBaseline, MarkOutdated, RefreshStep, RefreshRead, RefreshStore
  <2>3. QED  BY <2>1, <2>2
<1>5. CASE Crash
  <2>1. DOMAIN runs \subseteq RunIds
    BY <1>t, Numbers
  <2>2. QED  BY <1>t, <1>5, <2>1 DEF Crash, Types
<1>6. CASE SourcesChange
  BY <1>t, <1>6 DEF SourcesChange, Types
<1>7. CASE UNCHANGED vars
  BY <1>u, <1>7 DEF vars
<1>8. QED  BY <1>1, <1>2, <1>3, <1>4, <1>5, <1>6, <1>7 DEF Next

-----------------------------------------------------------------------------
(* The invariant *)

LEMMA Initially == Init => IInv
<1> SUFFICES ASSUME Init PROVE IInv
  OBVIOUS
<1>1. /\ DOMAIN runs = {} /\ DOMAIN baselines = {} /\ RunsMade = 0 /\ BaselinesMade = 0
      /\ runs \in [1 .. 0 -> Run] /\ baselines \in [1 .. 0 -> Baseline]
  <2>1. runs = <<>> /\ baselines = <<>>
    BY DEF Init
  <2>2. DOMAIN runs = {} /\ DOMAIN baselines = {} /\ 1 .. 0 = {}
    BY <2>1
  <2>3. Cardinality({}) = 0
    BY FS_EmptySet
  <2>4. QED  BY <2>1, <2>2, <2>3 DEF RunsMade, BaselinesMade
<1>2. Types
  <2>1. proc \in [Actors -> Proc]
    BY IdleFacts DEF Init
  <2>2. 0 \in 0 .. MaxRuns /\ 0 \in 0 .. MaxSlips
    BY AnalysisAssumption
  <2>3. runs \in [1 .. RunsMade -> Run] /\ baselines \in [1 .. BaselinesMade -> Baseline]
    BY <1>1
  <2>4. QED  BY <1>1, <2>1, <2>2, <2>3 DEF Init, Types
<1>3. \A a \in Actors : Relies(proc[a], BaselinesMade) /\ proc[a].at = "idle"
  BY <1>1, IdleFacts DEF Init
<1>4. QED  BY <1>1, <1>2, <1>3 DEF Init, IInv, StagesAgree, OnlyPersisted, OneBaselineEach, NewestStands, Actors

LEMMA Inductive == IInv /\ [Next]_vars => IInv'
<1> SUFFICES ASSUME IInv, [Next]_vars PROVE IInv'
  OBVIOUS
<1>1. BaselineStep /\ ActorStep
  BY BaselinesNext, ActorsNext
<1>2. Types'
  BY <1>1, RecordsNext DEF IInv, Types, BaselineStep, ActorStep
<1>n. /\ DOMAIN runs = 1 .. RunsMade /\ DOMAIN baselines = 1 .. BaselinesMade /\ DOMAIN runs \subseteq RunIds
      /\ DOMAIN baselines' = 1 .. BaselinesMade' /\ BaselinesMade \in Nat /\ BaselinesMade' \in Nat
      /\ DOMAIN runs' \subseteq RunIds
  BY <1>1, Numbers DEF IInv, BaselineStep, ActorStep, RunIds
<1>3. StagesAgree'
  BY <1>1 DEF ActorStep, StagesAgree
<1>4. NewestStands'
  BY <1>1 DEF BaselineStep, NewestStands
\* A run about to write, and one that has just made a baseline, can no longer be cancelled.
<1> DEFINE Written(r) == r \in DOMAIN runs' /\ runs'[r].status \in Persisting
<1>5. /\ \A r \in RunIds : proc[r].at = "items" => HasPersisted(r)
      /\ \A r \in RunIds : proc'[r].at = "supersede" => Written(r)
      /\ \A r \in RunIds : HasPersisted(r) => Written(r)
  BY <1>1, <1>3 DEF IInv, StagesAgree, RunAt, ActorStep, HasPersisted, Persisting
<1>6. OnlyPersisted'
  <2>1. \A r \in items' : Written(r)
    <3>1. \A r \in items : HasPersisted(r) /\ r \in RunIds
      BY DEF IInv, OnlyPersisted, Types
    <3>2. QED  BY <1>5, <3>1, RecordsNext
  <2>2. \A b \in DOMAIN baselines' : Written(baselines'[b].run)
    <3> SUFFICES ASSUME NEW b \in 1 .. BaselinesMade' PROVE Written(baselines'[b].run)
      BY <1>n
    <3>1. CASE b \in 1 .. BaselinesMade
      <4>1. HasPersisted(baselines[b].run) /\ baselines'[b].run = baselines[b].run
        BY <1>1, <1>n, <3>1 DEF IInv, OnlyPersisted, BaselineStep
      <4>2. baselines[b].run \in RunIds
        BY <1>n, <4>1 DEF HasPersisted
      <4>3. QED  BY <1>5, <4>1, <4>2
    <3>2. CASE b \notin 1 .. BaselinesMade
      BY <1>1, <1>5, <3>2 DEF BaselineStep
    <3>3. QED  BY <3>1, <3>2
  <2>3. QED  BY <2>1, <2>2 DEF OnlyPersisted, HasPersisted
<1>7. OneBaselineEach'
  \* The run of a new baseline had made none.
  <2>1. ASSUME NEW r \in RunIds, proc[r].at \in {"reconcile", "items", "findings", "baseline"}
        PROVE  \A b \in DOMAIN baselines : baselines[b].run # r
    <3>1. CASE proc[r].at = "reconcile"
      BY <3>1 DEF IInv, StagesAgree, RunAt, OnlyPersisted, HasPersisted, Persisting
    <3>2. CASE proc[r].at # "reconcile"
      BY <2>1, <3>2 DEF IInv, OneBaselineEach
    <3>3. QED  BY <3>1, <3>2
  <2>2. ASSUME NEW b \in DOMAIN baselines', b \notin DOMAIN baselines
        PROVE  /\ b = BaselinesMade' /\ baselines'[b].run \in RunIds
               /\ \A d \in DOMAIN baselines : baselines'[d].run # baselines'[b].run
               /\ proc'[baselines'[b].run].at = "supersede"
    <3>1. /\ b = BaselinesMade' /\ baselines'[b].run \in RunIds
          /\ proc[baselines'[b].run].at = "baseline" /\ proc'[baselines'[b].run].at = "supersede"
          /\ \A d \in DOMAIN baselines : baselines'[d].run = baselines[d].run
      BY <1>1, <1>n, <2>2 DEF BaselineStep
    <3>2. QED  BY <2>1, <3>1
  <2>3. \A d \in DOMAIN baselines : baselines'[d].run = baselines[d].run
    BY <1>1, <1>n DEF BaselineStep
  <2>4. ASSUME NEW b \in DOMAIN baselines', NEW d \in DOMAIN baselines', baselines'[b].run = baselines'[d].run
        PROVE  b = d
    BY <2>2, <2>3, <2>4 DEF IInv, OneBaselineEach
  <2>5. ASSUME NEW r \in RunIds, NEW b \in DOMAIN baselines',
               proc'[r].at \in {"items", "findings", "baseline"}
        PROVE  baselines'[b].run # r
    <3>1. proc[r].at \in {"reconcile", "items", "findings", "baseline"}
      BY <1>1, <2>5 DEF ActorStep
    <3>2. CASE b \in DOMAIN baselines
      BY <2>1, <2>3, <3>1, <3>2
    <3>3. CASE b \notin DOMAIN baselines
      BY <2>2, <2>5, <3>3
    <3>4. QED  BY <3>2, <3>3
  <2>6. QED  BY <2>4, <2>5 DEF OneBaselineEach
<1>8. QED  BY <1>1, <1>2, <1>3, <1>4, <1>6, <1>7 DEF IInv, ActorStep

LEMMA Invariant == Spec => []IInv
  BY Initially, Inductive, PTL DEF Spec

-----------------------------------------------------------------------------
(* Analysis runs: the theorems *)

LEMMA TypesHold == IInv => TypeInv
<1> SUFFICES ASSUME IInv PROVE TypeInv
  OBVIOUS
<1>1. \A r \in DOMAIN runs : r \in RunIds /\ runs[r] \in Run
  BY Numbers DEF IInv, Types
<1>2. \A b \in DOMAIN baselines : b \in Versions /\ baselines[b] \in Baseline
  BY Numbers DEF IInv, Types
<1>3. DOMAIN runs = 1 .. Cardinality(DOMAIN runs) /\ DOMAIN baselines = 1 .. Cardinality(DOMAIN baselines)
  BY Numbers DEF IInv, RunsMade, BaselinesMade
<1>4. QED  BY <1>1, <1>2, <1>3 DEF TypeInv, IInv, Types, Accounted

\* What AnalysisRepository and BaselineRepository number has no gap, and a run that reached
\* reconciliation has accounted for all its chunks, whatever cancels and failures came between.
THEOREM TypeCorrect == Spec => []TypeInv
  BY TypesHold, Invariant, PTL

\* A run that AnalysisPipeline ended as cancelled stored no requirement and no baseline: the last
\* look at the cancel flag comes before the first write.
THEOREM CancelsLeaveNothing == Spec => []CancelledLeavesNothing
<1>1. IInv => CancelledLeavesNothing
  BY DEF IInv, OnlyPersisted, HasPersisted, Persisting, CancelledLeavesNothing
<1>2. QED  BY <1>1, Invariant, PTL

\* BaselineService.refresh, markOutdated and supersedeBaselines each decide on what was read before
\* others wrote; none of them rewrites a signed baseline, and the current one is only replaced by a
\* newer one.
THEOREM SignedStay == Spec => SignedContentFrozen
<1>1. ASSUME IInv, IInv', [Next]_vars
      PROVE  [/\ \A b \in DOMAIN baselines :
                   LET signed == {"approved", "outdated"}
                   IN  /\ baselines[b].status \in signed /\ baselines'[b].status \in signed =>
                             /\ baselines'[b].items = baselines[b].items
                             /\ baselines'[b].blocked = baselines[b].blocked
                       /\ baselines'[b].status = "outdated" => baselines[b].status \in signed
              /\ Current # NoBaseline => Current' # NoBaseline /\ Current' >= Current]_vars
  <2>1. BaselineStep /\ \A b \in DOMAIN baselines : Frozen(baselines[b], baselines'[b])
    BY <1>1, BaselinesNext
  <2>2. Current # NoBaseline => Current = BaselinesMade /\ BaselinesMade > 0
    BY <1>1, CurrentIsNewest, Numbers DEF IInv
  <2>3. (BaselinesMade > 0 => Current = BaselinesMade /\ Current # NoBaseline)'
    <3>1. (Types /\ NewestStands)'
      BY <1>1 DEF IInv
    <3>2. QED  BY <3>1, CurrentIsNewest, PTL
  <2>4. BaselinesMade \in Nat /\ BaselinesMade' \in Nat /\ BaselinesMade <= BaselinesMade'
    BY <1>1, <2>1, Numbers DEF IInv, BaselineStep
  <2>5. Current # NoBaseline => Current' # NoBaseline /\ Current' >= Current
    BY <2>2, <2>3, <2>4
  <2>6. QED  BY <2>1, <2>5 DEF Frozen
<1>2. QED  BY <1>1, Invariant, PTL DEF Spec, SignedContentFrozen

-----------------------------------------------------------------------------
(* Clarifications: types *)

\* What a request has in hand. Nothing bounds the versions it has read.
InHand == [at : AskingStages, answer : 0 .. MaxAnswers, read : [Items -> Nat],
           protected : SUBSET Items, todo : SUBSET Items, applied : SUBSET Items,
           proposed : SUBSET Items, outcome : QuestionStatus, version : Nat,
           status : ConflictStatus, flagged : SUBSET Items]

QuestionTypes ==
    /\ item \in [Items -> Item] /\ question \in Question /\ conflict \in Conflict
    /\ Len(question.answers) <= MaxAnswers
    /\ baseline \in {"draft", "approved", "outdated"}
    /\ asking \in [Clients -> InHand]
    /\ \A c \in Clients : asking[c].answer <= LastAnswer

\* The stages of an integration that have an answer in hand.
Integrating == {"assume", "integrate", "write", "latest", "record"}

\* What a stage may rely on, whatever others have done since it read.
HoldsAnswer(p) == p.at \in Integrating => p.answer >= 1
AtRestWhenIdle(p) == p.at = "idle" => p = AtRest
Reported(p) ==
    /\ p.outcome # "INTEGRATING"
    /\ p.at \in {"flag", "assume", "integrate", "choose"} => p.applied = {} /\ p.proposed = {}
    /\ p.at \in {"proposals", "sweep"} => p.outcome = "UNANSWERED"
\* A requirement that still has the version that was loaded is as nobody's as it was then.
ReadHolds(p, records) ==
    p.at = "write" => \A i \in p.todo :
        /\ p.read[i] <= records[i].version
        /\ p.read[i] = records[i].version /\ i \notin p.protected =>
              ~records[i].editedByUser /\ records[i].status # "accepted"
\* A conflict that still has the version that was read is still nobody's.
ConflictHolds(p, record) ==
    p.at = "settle" =>
        /\ p.version <= record.version
        /\ p.version = record.version => record.status \notin HumanSettled

QuestionRelies(p) ==
    /\ HoldsAnswer(p) /\ AtRestWhenIdle(p) /\ Reported(p)
    /\ ReadHolds(p, item) /\ ConflictHolds(p, conflict)

\* Whether a request is about to record an outcome on the question as it is.
Closing(c) ==
    \/ asking[c].at \in {"integrate", "write", "latest"}
    \/ asking[c].at \in {"assume", "record"} /\ asking[c].version = question.version
SomebodyCloses == question.status = "INTEGRATING" => \E c \in Clients : Closing(c)

\* The inductive invariant.
QInv == QuestionTypes /\ (\A c \in Clients : QuestionRelies(asking[c])) /\ SomebodyCloses

-----------------------------------------------------------------------------
(* Conditional updates *)

LEMMA Sets ==
    /\ {"open", "resolved_by_clarification", "still_conflicting", "needs_review",
        "resolved", "dismissed", "accepted_risk"} = ConflictStatus
    /\ HumanSettled = {"resolved", "dismissed", "accepted_risk"} /\ HumanSettled \subseteq ConflictStatus
    /\ {"UNANSWERED", "ANSWERED", "INTEGRATING", "INTEGRATED", "NEEDS_REVIEW", "FAILED",
        "DISMISSED"} = QuestionStatus
    /\ {"idle", "flag", "assume", "integrate", "write", "latest", "record",
        "conflicts", "settle", "proposals", "sweep", "outdate", "choose"} = AskingStages
    /\ MaxAnswers \in Nat
  BY ClarificationAssumption DEF ConflictStatus, HumanSettled, QuestionStatus, AskingStages

LEMMA AtRestFacts ==
    /\ AtRest \in InHand /\ AtRest.at = "idle" /\ AtRest.answer = 0 /\ AtRest.applied = {}
    /\ AtRest.proposed = {} /\ AtRest.outcome = "UNANSWERED" /\ AtRest.todo = {}
  BY Sets DEF AtRest, InHand

\* What a step does to the requirements: who changes one takes a version.
ItemsStep ==
    /\ item' \in [Items -> Item]
    /\ \A i \in Items :
          /\ item[i].version <= item'[i].version
          /\ item'[i].version = item[i].version =>
                /\ item'[i].words = item[i].words /\ item'[i].status = item[i].status
                /\ item'[i].editedByUser = item[i].editedByUser

LEMMA ItemsSame == ASSUME QuestionTypes, item' = item PROVE ItemsStep
  <1>1. \A i \in Items : item[i].version \in Nat
    BY DEF QuestionTypes, Item
  <1>2. QED  BY <1>1 DEF QuestionTypes, ItemsStep

\* A record as it would be written: only its version is still the old one.
LEMMA ItemUpdated ==
    ASSUME QuestionTypes, NEW i \in Items, NEW v \in Nat, NEW d \in Item, UpdateItem(i, v, d)
    PROVE  /\ ItemsStep
           /\ \A j \in Items : j # i => item'[j] = item[j]
           /\ item'[i] # item[i] => item[i].version = v /\ item'[i] = [d EXCEPT !.version = v + 1]
  <1>1. CASE item[i].version = v
    <2>1. item' = [item EXCEPT ![i] = [d EXCEPT !.version = v + 1]]
      BY <1>1 DEF UpdateItem
    <2>2. /\ [d EXCEPT !.version = v + 1] \in Item /\ [d EXCEPT !.version = v + 1].version = v + 1
          /\ v + 1 \in Nat /\ v <= v + 1 /\ v + 1 # v
      BY DEF Item
    <2>3. \A j \in Items : item[j].version \in Nat /\ item[j].version <= item[j].version
      BY DEF QuestionTypes, Item
    <2> DEFINE e == [d EXCEPT !.version = v + 1]
    <2>4. item' = [item EXCEPT ![i] = e] /\ e \in Item /\ e.version = v + 1
      BY <2>1, <2>2
    <2>6. e = [d EXCEPT !.version = v + 1]
      OBVIOUS
    <2> HIDE DEF e
    <2>5. QED  BY <1>1, <2>2, <2>3, <2>4, <2>6 DEF QuestionTypes, ItemsStep
  <1>2. CASE item[i].version # v
    BY <1>2, ItemsSame DEF UpdateItem
  <1>3. QED  BY <1>1, <1>2

LEMMA ItemRecords ==
    ASSUME QuestionTypes, NEW i \in Items, NEW cites \in 0 .. MaxAnswers
    PROVE  LET d == item[i]
           IN  /\ d \in Item /\ d.version \in Nat
               /\ [d EXCEPT !.words = "person", !.status = "edited", !.editedByUser = TRUE] \in Item
               /\ \A status \in {"accepted", "rejected"} : [d EXCEPT !.status = status] \in Item
               /\ [d EXCEPT !.proposal = TRUE] \in Item
               /\ [d EXCEPT !.words = "answer", !.cites = cites, !.needsRevalidation = FALSE] \in Item
               /\ [d EXCEPT !.words = "person", !.status = "edited", !.editedByUser = TRUE,
                            !.needsRevalidation = FALSE, !.proposal = FALSE, !.cites = cites] \in Item
               /\ [d EXCEPT !.needsRevalidation = FALSE, !.proposal = FALSE] \in Item
  <1>1. item[i] \in Item
    BY DEF QuestionTypes
  <1>2. QED  BY <1>1 DEF Item

LEMMA ItemsNext == ASSUME QuestionTypes, [QuestionNext]_questionVars PROVE ItemsStep
<1>u. ASSUME item' = item PROVE ItemsStep
  BY <1>u, ItemsSame
<1>l. LastAnswer \in 0 .. MaxAnswers /\ \A c \in Clients : asking[c].answer \in 0 .. MaxAnswers
  BY Sets DEF QuestionTypes, LastAnswer, Question, InHand
<1>1. ASSUME NEW c \in Clients, NEW i \in Items, EditRequirement(c, i) PROVE ItemsStep
  BY <1>1, <1>l, ItemRecords, ItemUpdated DEF EditRequirement
<1>2. ASSUME NEW c \in Clients, FlagPrevious(c) PROVE ItemsStep
  <2>1. \A i \in Items : item[i] \in Item
    BY DEF QuestionTypes
  <2>2. ASSUME NEW i \in Items, NEW b \in BOOLEAN
        PROVE  LET d == [item[i] EXCEPT !.needsRevalidation = b]
               IN  /\ d \in Item /\ d.version = item[i].version /\ d.words = item[i].words
                   /\ d.status = item[i].status /\ d.editedByUser = item[i].editedByUser
                   /\ d.version <= d.version
    BY <2>1 DEF Item
  <2>3. \A i \in Items : (item[i].needsRevalidation \/ i \in asking[c].flagged) \in BOOLEAN
    OBVIOUS
  <2>4. item' = [i \in Items |-> [item[i] EXCEPT !.needsRevalidation =
                                     item[i].needsRevalidation \/ i \in asking[c].flagged]]
    BY <1>2 DEF FlagPrevious
  <2>5. QED  BY <2>2, <2>3, <2>4 DEF ItemsStep
<1>3. ASSUME NEW c \in Clients, NEW i \in Items, WriteItem(c, i) PROVE ItemsStep
  <2>1. asking[c].read[i] \in Nat
    BY DEF QuestionTypes, InHand
  <2>2. PICK d \in Item : UpdateItem(i, asking[c].read[i], d)
    BY <1>3, <1>l, ItemRecords DEF WriteItem
  <2>3. QED  BY <2>1, <2>2, ItemUpdated
<1>4. ASSUME NEW c \in Clients, NEW i \in Items, AcceptProposal(c, i) \/ RejectProposal(c, i) PROVE ItemsStep
  <2>1. PICK d \in Item : UpdateItem(i, item[i].version, d)
    BY <1>4, <1>l, ItemRecords DEF AcceptProposal, RejectProposal
  <2>2. QED  BY <1>l, <2>1, ItemRecords, ItemUpdated
<1>5. ASSUME NEW c \in Clients, NEW i \in Items, ResolveConflict(c, i) PROVE ItemsStep
  <2>1. ASSUME NEW j \in Items
        PROVE  LET d == item[j]
                   rejected == [d EXCEPT !.status = "rejected", !.editedByUser = TRUE, !.version = @ + 1]
                   edited == [d EXCEPT !.words = "person", !.status = "edited", !.editedByUser = TRUE,
                                       !.version = @ + 1]
               IN  /\ d \in Item /\ d.version <= d.version
                   /\ rejected \in Item /\ rejected.version = d.version + 1
                   /\ edited \in Item /\ edited.version = d.version + 1
                   /\ d.version <= d.version + 1 /\ d.version + 1 # d.version
    <3>1. item[j] \in Item
      BY DEF QuestionTypes
    <3>2. /\ item[j].version \in Nat /\ item[j].version <= item[j].version
          /\ item[j].version + 1 \in Nat /\ item[j].version + 1 # item[j].version
          /\ item[j].version <= item[j].version + 1
      BY <3>1 DEF Item
    <3>3. ASSUME NEW n \in Nat
          PROVE  /\ [item[j] EXCEPT !.status = "rejected", !.editedByUser = TRUE, !.version = n] \in Item
                 /\ [item[j] EXCEPT !.words = "person", !.status = "edited", !.editedByUser = TRUE,
                                    !.version = n] \in Item
      BY <3>1 DEF Item
    <3>4. QED  BY <3>1, <3>2, <3>3 DEF Item
  <2>2. /\ item' = [j \in Items |-> item'[j]]
        /\ \A j \in Items :
              \/ item'[j] = item[j]
              \/ item'[j] = [item[j] EXCEPT !.status = "rejected", !.editedByUser = TRUE, !.version = @ + 1]
              \/ item'[j] = [item[j] EXCEPT !.words = "person", !.status = "edited",
                                           !.editedByUser = TRUE, !.version = @ + 1]
    <3>1. PICK rewrite \in BOOLEAN :
             item' = [j \in Items |->
                IF j # i
                THEN [item[j] EXCEPT !.status = "rejected", !.editedByUser = TRUE, !.version = @ + 1]
                ELSE IF rewrite
                THEN [item[j] EXCEPT !.words = "person", !.status = "edited", !.editedByUser = TRUE,
                                     !.version = @ + 1]
                ELSE item[j]]
      BY <1>5 DEF ResolveConflict
    <3>2. item' = [j \in Items |-> item'[j]]
      BY <3>1
    <3>3. \A j \in Items :
             \/ item'[j] = item[j]
             \/ item'[j] = [item[j] EXCEPT !.status = "rejected", !.editedByUser = TRUE, !.version = @ + 1]
             \/ item'[j] = [item[j] EXCEPT !.words = "person", !.status = "edited",
                                          !.editedByUser = TRUE, !.version = @ + 1]
      BY <3>1
    <3>4. QED  BY <3>2, <3>3
  <2>3. ASSUME NEW j \in Items
        PROVE  /\ item'[j] \in Item /\ item[j].version <= item'[j].version
               /\ item'[j] = item[j] \/ item'[j].version # item[j].version
    BY <2>1, <2>2
  <2>4. QED  BY <2>2, <2>3 DEF ItemsStep
<1>6. CASE ApproveBaseline \/ UNCHANGED questionVars
  BY <1>6, <1>u DEF ApproveBaseline, questionVars
<1>7. ASSUME NEW c \in Clients,
             \/ AnswerClarification(c) \/ ConfirmClarification(c) \/ DismissClarification(c)
             \/ ResolveFinding(c) \/ RecordAssumption(c) \/ Integrate(c) \/ ReadLatest(c)
             \/ RecordOutcome(c) \/ OutdateBaseline(c) \/ ReadConflict(c) \/ Settle(c)
             \/ ListProposals(c) \/ SweepQuestions(c) \/ ResolveConflictWrite(c)
      PROVE  ItemsStep
  BY <1>7, <1>u
     DEF AnswerClarification, ConfirmClarification, DismissClarification, ResolveFinding,
         RecordAssumption, Integrate, ReadLatest, RecordOutcome, OutdateBaseline, ReadConflict, Settle,
         ListProposals, SweepQuestions, ResolveConflictWrite
<1>8. QED
  BY <1>1, <1>2, <1>3, <1>4, <1>5, <1>6, <1>7 DEF QuestionNext, Request, Continue

-----------------------------------------------------------------------------
(* The question *)

\* What a step makes of the question. Whoever leaves it INTEGRATING goes on with it.
Opened(c) ==
    /\ ConfirmClarification(c) /\ question'.version = question.version + 1
    /\ question'.status = "INTEGRATING"

QuestionStep ==
    /\ question' \in Question /\ Len(question'.answers) <= MaxAnswers
    /\ Len(question.answers) <= Len(question'.answers)
    /\ \/ question' = question
       \/ question'.status # "INTEGRATING"
       \/ \E c \in Clients : Opened(c)

LEMMA QuestionFacts ==
    ASSUME QuestionTypes
    PROVE  /\ question \in Question /\ question.version \in Nat /\ question.version + 1 \in Nat
           /\ question.answers \in Seq(Answer) /\ LastAnswer \in Nat /\ LastAnswer = Len(question.answers)
           /\ LastAnswer <= MaxAnswers /\ LastAnswer <= LastAnswer
  BY DEF QuestionTypes, Question, LastAnswer

LEMMA QuestionSame == ASSUME QuestionTypes, question' = question PROVE QuestionStep
  BY QuestionFacts DEF QuestionStep, LastAnswer

\* A record as it would be written, with no fewer answers.
LEMMA QuestionUpdated ==
    ASSUME QuestionTypes, NEW v \in Nat, NEW d, UpdateQuestion(v, d),
           d \in Question, Len(d.answers) <= MaxAnswers, LastAnswer <= Len(d.answers)
    PROVE  \/ question' = question /\ question.version # v
           \/ /\ question.version = v /\ question'.version = v + 1
              /\ question' \in Question /\ Len(question'.answers) <= MaxAnswers
              /\ Len(question.answers) <= Len(question'.answers)
              /\ question'.status = d.status /\ question'.answers = d.answers
  BY DEF UpdateQuestion, Question, LastAnswer

\* The question with an outcome, and what the k-th answer affected.
Recorded(status, k, S) == [question EXCEPT !.status = status, !.answers[k].affected = S]

LEMMA QuestionRecords ==
    ASSUME QuestionTypes
    PROVE  /\ \A status \in QuestionStatus :
                 LET d == [question EXCEPT !.status = status]
                 IN  d \in Question /\ d.answers = question.answers /\ d.status = status
           /\ \A a \in Answer :
                 LET d == [question EXCEPT !.status = "ANSWERED", !.answers = Append(@, a)]
                 IN  d \in Question /\ Len(d.answers) = LastAnswer + 1 /\ d.status = "ANSWERED"
           /\ LastAnswer > 0 =>
                 LET d == [question EXCEPT !.status = "INTEGRATING", !.answers[LastAnswer].confirmed = TRUE]
                 IN  d \in Question /\ Len(d.answers) = LastAnswer /\ d.status = "INTEGRATING"
           /\ \A k \in 1 .. LastAnswer, S \in SUBSET Items, status \in QuestionStatus :
                 LET d == Recorded(status, k, S)
                 IN  d \in Question /\ Len(d.answers) = LastAnswer /\ d.status = status
  <1>0. question \in [status : QuestionStatus, answers : Seq(Answer), version : Nat]
    BY DEF QuestionTypes, Question
  <1> DEFINE q == question.answers
  <1>q. q \in Seq(Answer) /\ LastAnswer = Len(q) /\ Len(q) \in Nat
    BY <1>0 DEF LastAnswer
  <1>1. \A status \in QuestionStatus, answers \in Seq(Answer) :
           LET d == [question EXCEPT !.status = status, !.answers = answers]
           IN  d \in Question /\ d.answers = answers /\ d.status = status
    BY <1>0 DEF Question
  <1>2. \A a \in Answer : Append(q, a) \in Seq(Answer) /\ Len(Append(q, a)) = Len(q) + 1
    BY <1>q
  <1>3. ASSUME NEW k \in 1 .. Len(q), NEW a \in Answer
        PROVE  [q EXCEPT ![k] = a] \in Seq(Answer) /\ Len([q EXCEPT ![k] = a]) = Len(q)
    BY <1>q
  <1>4. ASSUME NEW k \in 1 .. Len(q), NEW S \in SUBSET Items
        PROVE  [q[k] EXCEPT !.affected = S] \in Answer /\ [q[k] EXCEPT !.confirmed = TRUE] \in Answer
    <2>1. q[k] \in Answer
      BY <1>q
    <2>2. QED  BY <2>1 DEF Answer
  <1>5. ASSUME NEW status \in QuestionStatus
        PROVE  LET d == [question EXCEPT !.status = status]
               IN  d \in Question /\ d.answers = question.answers /\ d.status = status
    BY <1>0 DEF Question
  <1>6. ASSUME NEW a \in Answer
        PROVE  LET d == [question EXCEPT !.status = "ANSWERED", !.answers = Append(@, a)]
               IN  d \in Question /\ Len(d.answers) = LastAnswer + 1 /\ d.status = "ANSWERED"
    <2> DEFINE d == [question EXCEPT !.status = "ANSWERED", !.answers = Append(@, a)]
    <2>1. Append(q, a) \in Seq(Answer) /\ Len(Append(q, a)) = LastAnswer + 1
      BY <1>2, <1>q
    <2> DEFINE r == Append(q, a)
    <2>2. d = [question EXCEPT !.status = "ANSWERED", !.answers = r]
      BY <1>0
    <2>3. r \in Seq(Answer) /\ Len(r) = LastAnswer + 1 /\ "ANSWERED" \in QuestionStatus
      BY <2>1, Sets
    <2> HIDE DEF r, d
    <2>4. d \in Question /\ d.answers = r /\ d.status = "ANSWERED"
      BY <1>1, <2>2, <2>3
    <2>5. d \in Question /\ Len(d.answers) = LastAnswer + 1 /\ d.status = "ANSWERED"
      BY <2>3, <2>4
    <2>6. QED  BY <2>5 DEF d
  <1>7. ASSUME LastAnswer > 0
        PROVE  LET d == [question EXCEPT !.status = "INTEGRATING", !.answers[LastAnswer].confirmed = TRUE]
               IN  d \in Question /\ Len(d.answers) = LastAnswer /\ d.status = "INTEGRATING"
    <2>1. LastAnswer \in 1 .. Len(q)
      BY <1>7, <1>q
    <2> DEFINE r == [q EXCEPT ![LastAnswer] = [q[LastAnswer] EXCEPT !.confirmed = TRUE]]
    <2>2. r \in Seq(Answer) /\ Len(r) = LastAnswer
      BY <1>q, <1>3, <1>4, <2>1
    <2> DEFINE d == [question EXCEPT !.status = "INTEGRATING", !.answers[LastAnswer].confirmed = TRUE]
    <2>3. d = [question EXCEPT !.status = "INTEGRATING", !.answers = r]
      BY <1>0
    <2>4. "INTEGRATING" \in QuestionStatus
      BY Sets
    <2> HIDE DEF r, d
    <2>5. d \in Question /\ d.answers = r /\ d.status = "INTEGRATING"
      BY <1>1, <2>2, <2>3, <2>4
    <2>6. d \in Question /\ Len(d.answers) = LastAnswer /\ d.status = "INTEGRATING"
      BY <2>2, <2>5
    <2>7. QED  BY <2>6 DEF d
  <1>8. ASSUME NEW k \in 1 .. LastAnswer, NEW S \in SUBSET Items, NEW status \in QuestionStatus
        PROVE  LET d == Recorded(status, k, S)
               IN  d \in Question /\ Len(d.answers) = LastAnswer /\ d.status = status
    <2> DEFINE r == [q EXCEPT ![k] = [q[k] EXCEPT !.affected = S]]
    <2>2. r \in Seq(Answer) /\ Len(r) = LastAnswer
      BY <1>q, <1>3, <1>4, <1>8
    <2> DEFINE d == Recorded(status, k, S)
    <2>3. d = [question EXCEPT !.status = status, !.answers = r]
      BY <1>0 DEF Recorded
    <2> HIDE DEF r, d
    <2>4. d \in Question /\ d.answers = r /\ d.status = status
      BY <1>1, <1>8, <2>2, <2>3
    <2>5. d \in Question /\ Len(d.answers) = LastAnswer /\ d.status = status
      BY <2>2, <2>4
    <2>6. QED  BY <2>5 DEF d
  <1>9. QED  BY <1>5, <1>6, <1>7, <1>8

LEMMA QuestionNextStep == ASSUME QuestionTypes, \A c \in Clients : QuestionRelies(asking[c]), [QuestionNext]_questionVars PROVE QuestionStep
<1>u. ASSUME question' = question PROVE QuestionStep
  BY <1>u, QuestionSame
<1>f. /\ question.version \in Nat /\ LastAnswer \in Nat /\ LastAnswer <= MaxAnswers
      /\ LastAnswer <= LastAnswer /\ MaxAnswers \in Nat
      /\ \A c \in Clients : asking[c].version \in Nat /\ asking[c].answer \in Nat
                            /\ asking[c].answer <= LastAnswer
                            /\ asking[c].outcome \in QuestionStatus
                            /\ asking[c].applied \cup asking[c].proposed \in SUBSET Items
  BY QuestionFacts, Sets DEF QuestionTypes, InHand
\* A write of any status but INTEGRATING.
<1>w. ASSUME NEW v \in Nat, NEW d \in Question, UpdateQuestion(v, d), d.status # "INTEGRATING",
             Len(d.answers) <= MaxAnswers, LastAnswer <= Len(d.answers)
      PROVE  QuestionStep
  BY <1>w, <1>u, QuestionUpdated DEF QuestionStep
<1>1. ASSUME NEW c \in Clients, AnswerClarification(c) PROVE QuestionStep
  <2>1. PICK a \in Answer :
           UpdateQuestion(question.version, [question EXCEPT !.status = "ANSWERED", !.answers = Append(@, a)])
    BY <1>1 DEF AnswerClarification, Answer
  <2> DEFINE d == [question EXCEPT !.status = "ANSWERED", !.answers = Append(@, a)]
  <2>2. /\ d \in Question /\ Len(d.answers) = LastAnswer + 1 /\ d.status = "ANSWERED"
        /\ UpdateQuestion(question.version, d)
    BY <2>1, QuestionRecords
  <2> HIDE DEF d
  <2>3. LastAnswer < MaxAnswers
    BY <1>1 DEF AnswerClarification
  <2>4. QED  BY <1>f, <1>w, <2>2, <2>3
<1>2. ASSUME NEW c \in Clients, ConfirmClarification(c) PROVE QuestionStep
  <2> DEFINE d == [question EXCEPT !.status = "INTEGRATING", !.answers[LastAnswer].confirmed = TRUE]
  <2>1. /\ d \in Question /\ Len(d.answers) = LastAnswer /\ d.status = "INTEGRATING"
        /\ UpdateQuestion(question.version, d)
    BY <1>2, QuestionRecords DEF ConfirmClarification
  <2> HIDE DEF d
  <2>2. question.version = question.version
    OBVIOUS
  <2>3. QED  BY <1>2, <1>f, <2>1, QuestionUpdated DEF QuestionStep, Opened
<1>3. ASSUME NEW c \in Clients, NEW status \in QuestionStatus, status # "INTEGRATING", NEW v \in Nat,
             UpdateQuestion(v, [question EXCEPT !.status = status])
      PROVE  QuestionStep
  <2> DEFINE d == [question EXCEPT !.status = status]
  <2>1. d \in Question /\ Len(d.answers) = LastAnswer /\ d.status = status /\ UpdateQuestion(v, d)
    BY <1>3, QuestionRecords DEF LastAnswer
  <2> HIDE DEF d
  <2>2. QED  BY <1>3, <1>f, <1>w, <2>1
<1>4. ASSUME NEW c \in Clients, DismissClarification(c) \/ RecordAssumption(c) PROVE QuestionStep
  BY <1>3, <1>4, <1>f, Sets DEF DismissClarification, RecordAssumption
<1>5. ASSUME NEW c \in Clients, RecordOutcome(c) PROVE QuestionStep
  <2> DEFINE k == asking[c].answer
             S == asking[c].applied \cup asking[c].proposed
             status == asking[c].outcome
             d == Recorded(status, k, S)
  <2>1. k \in 1 .. LastAnswer /\ status # "INTEGRATING" /\ status \in QuestionStatus /\ S \in SUBSET Items
    BY <1>5, <1>f DEF RecordOutcome, Doing, QuestionRelies, HoldsAnswer, Integrating, Reported
  <2>a. UpdateQuestion(asking[c].version, d)
    BY <1>5 DEF RecordOutcome, Recorded
  <2> HIDE DEF k, S, status
  <2>b. d \in Question /\ Len(d.answers) = LastAnswer /\ d.status = status
    BY <2>1, QuestionRecords
  <2> HIDE DEF d
  <2>2. /\ d \in Question /\ Len(d.answers) = LastAnswer /\ d.status = status
        /\ UpdateQuestion(asking[c].version, d)
    BY <2>a, <2>b
  <2>3. QED  BY <1>f, <1>w, <2>1, <2>2
<1>6. ASSUME NEW c \in Clients, SweepQuestions(c) PROVE QuestionStep
  <2>1. question' = question \/ UpdateQuestion(question.version, [question EXCEPT !.status = "INTEGRATED"])
    BY <1>6, QuestionFacts DEF SweepQuestions, UpdateQuestion, Question
  <2>2. QED  BY <1>3, <1>6, <1>f, <1>u, <2>1, Sets
<1>7. ASSUME NEW c \in Clients,
             \/ ResolveFinding(c) \/ Integrate(c) \/ ReadLatest(c) \/ FlagPrevious(c)
             \/ OutdateBaseline(c) \/ ReadConflict(c) \/ Settle(c)
             \/ ListProposals(c) \/ ResolveConflictWrite(c)
             \/ \E i \in Items :
                   \/ EditRequirement(c, i) \/ WriteItem(c, i) \/ AcceptProposal(c, i)
                   \/ RejectProposal(c, i) \/ ResolveConflict(c, i)
      PROVE  QuestionStep
  BY <1>7, <1>u
     DEF ResolveFinding, Integrate, ReadLatest, FlagPrevious, OutdateBaseline, ReadConflict, Settle,
         ListProposals, ResolveConflictWrite, EditRequirement, WriteItem, AcceptProposal,
         RejectProposal, ResolveConflict
<1>8. CASE ApproveBaseline \/ UNCHANGED questionVars
  BY <1>8, <1>u DEF ApproveBaseline, questionVars
<1>9. QED
  BY <1>1, <1>2, <1>4, <1>5, <1>6, <1>7, <1>8 DEF QuestionNext, Request, Continue

-----------------------------------------------------------------------------
(* The conflict and the baseline *)

ConflictStep ==
    /\ conflict' \in Conflict /\ conflict.version <= conflict'.version
    /\ conflict'.version = conflict.version => conflict' = conflict
    /\ conflict.status \in HumanSettled => conflict'.status \in HumanSettled

LEMMA ConflictUpdated ==
    ASSUME QuestionTypes, NEW v \in Nat, NEW status \in ConflictStatus, UpdateConflict(v, status),
           v = conflict.version /\ conflict.status \in HumanSettled => status \in HumanSettled
    PROVE  ConflictStep
  BY DEF QuestionTypes, UpdateConflict, Conflict, ConflictStep

LEMMA ConflictNext ==
    ASSUME QuestionTypes, \A c \in Clients : QuestionRelies(asking[c]), [QuestionNext]_questionVars PROVE ConflictStep
<1>f. /\ conflict.version \in Nat /\ conflict.version <= conflict.version /\ conflict \in Conflict
      /\ \A c \in Clients : asking[c].version \in Nat /\ asking[c].status \in ConflictStatus
  BY DEF QuestionTypes, Conflict, InHand
<1>u. ASSUME conflict' = conflict PROVE ConflictStep
  BY <1>f, <1>u DEF ConflictStep
<1>1. ASSUME NEW c \in Clients, Settle(c) PROVE ConflictStep
  <2>1. asking[c].version = conflict.version => conflict.status \notin HumanSettled
    BY <1>1 DEF Settle, Doing, QuestionRelies, ConflictHolds
  <2>2. QED  BY <1>1, <1>f, <2>1, ConflictUpdated DEF Settle
<1>2. ASSUME NEW c \in Clients, ResolveConflictWrite(c) \/ ResolveFinding(c) PROVE ConflictStep
  <2>1. PICK v \in Nat, status \in HumanSettled : UpdateConflict(v, status)
    BY <1>2, <1>f, Sets DEF ResolveConflictWrite, ResolveFinding
  <2>2. QED  BY <2>1, Sets, ConflictUpdated
<1>3. ASSUME NEW c \in Clients,
             \/ AnswerClarification(c) \/ ConfirmClarification(c) \/ DismissClarification(c)
             \/ RecordAssumption(c) \/ Integrate(c) \/ ReadLatest(c) \/ FlagPrevious(c)
             \/ RecordOutcome(c) \/ OutdateBaseline(c) \/ ReadConflict(c)
             \/ ListProposals(c) \/ SweepQuestions(c)
             \/ \E i \in Items :
                   \/ EditRequirement(c, i) \/ WriteItem(c, i) \/ AcceptProposal(c, i)
                   \/ RejectProposal(c, i) \/ ResolveConflict(c, i)
      PROVE  ConflictStep
  BY <1>3, <1>u
     DEF AnswerClarification, ConfirmClarification, DismissClarification, RecordAssumption, Integrate,
         ReadLatest, FlagPrevious, RecordOutcome, OutdateBaseline, ReadConflict, ListProposals,
         SweepQuestions, EditRequirement, WriteItem, AcceptProposal, RejectProposal, ResolveConflict
<1>4. CASE ApproveBaseline \/ UNCHANGED questionVars
  BY <1>4, <1>u DEF ApproveBaseline, questionVars
<1>5. QED
  BY <1>1, <1>2, <1>3, <1>4 DEF QuestionNext, Request, Continue

LEMMA BaselineNext ==
    ASSUME QuestionTypes, [QuestionNext]_questionVars PROVE baseline' \in {"draft", "approved", "outdated"}
<1>1. CASE ApproveBaseline \/ UNCHANGED questionVars
  BY <1>1 DEF ApproveBaseline, questionVars, QuestionTypes
<1>2. ASSUME NEW c \in Clients, Request(c) \/ Continue(c)
      PROVE  baseline' \in {baseline, OutdatedBaseline}
  BY <1>2
     DEF Request, Continue, AnswerClarification, ConfirmClarification, DismissClarification,
         RecordAssumption, Integrate, ReadLatest, FlagPrevious, RecordOutcome, OutdateBaseline,
         ReadConflict, ListProposals, SweepQuestions, EditRequirement, WriteItem, AcceptProposal,
         RejectProposal, ResolveConflict, Settle, ResolveConflictWrite, ResolveFinding
<1>3. QED  BY <1>1, <1>2 DEF QuestionNext, OutdatedBaseline, QuestionTypes

-----------------------------------------------------------------------------
(* The requests *)

\* What a request has in hand after a step.
Sound(p) ==
    /\ p \in InHand /\ p.answer <= Len(question'.answers)
    /\ HoldsAnswer(p) /\ AtRestWhenIdle(p) /\ Reported(p)
    /\ ReadHolds(p, item') /\ ConflictHolds(p, conflict')

\* What has been read stays true of the records that keep their versions.
LEMMA StillSound ==
    ASSUME QuestionTypes, ItemsStep, QuestionStep, ConflictStep,
           NEW c \in Clients, QuestionRelies(asking[c])
    PROVE  Sound(asking[c])
<1>1. asking[c] \in InHand /\ asking[c].answer <= LastAnswer /\ LastAnswer \in Nat
  BY QuestionFacts DEF QuestionTypes
<1>2. asking[c].answer <= Len(question'.answers)
  <2>1. Len(question'.answers) \in Nat /\ Len(question.answers) <= Len(question'.answers)
    BY DEF QuestionStep, Question
  <2>2. asking[c].answer \in Nat
    BY <1>1, Sets DEF InHand
  <2>3. QED  BY <1>1, <2>1, <2>2 DEF LastAnswer
<1>3. ReadHolds(asking[c], item')
  <2>1. ASSUME asking[c].at = "write", NEW i \in asking[c].todo
        PROVE  /\ asking[c].read[i] <= item'[i].version
               /\ asking[c].read[i] = item'[i].version /\ i \notin asking[c].protected =>
                     ~item'[i].editedByUser /\ item'[i].status # "accepted"
    <3>1. i \in Items /\ asking[c].read[i] \in Nat
      BY <1>1, <2>1 DEF InHand
    <3>2. item[i].version \in Nat /\ item'[i].version \in Nat
      BY <3>1 DEF QuestionTypes, ItemsStep, Item
    <3>3. /\ asking[c].read[i] <= item[i].version
          /\ asking[c].read[i] = item[i].version /\ i \notin asking[c].protected =>
                ~item[i].editedByUser /\ item[i].status # "accepted"
      BY <2>1 DEF QuestionRelies, ReadHolds
    <3>4. /\ item[i].version <= item'[i].version
          /\ item'[i].version = item[i].version =>
                item'[i].status = item[i].status /\ item'[i].editedByUser = item[i].editedByUser
      BY <3>1 DEF ItemsStep
    <3>5. QED  BY <3>1, <3>2, <3>3, <3>4
  <2>2. QED  BY <2>1 DEF ReadHolds
<1>4. ConflictHolds(asking[c], conflict')
  <2>1. asking[c].version \in Nat /\ conflict.version \in Nat /\ conflict'.version \in Nat
    BY <1>1 DEF QuestionTypes, InHand, Conflict, ConflictStep
  <2>2. QED  BY <2>1 DEF QuestionRelies, ConflictHolds, ConflictStep
<1>5. QED  BY <1>1, <1>2, <1>3, <1>4 DEF Sound, QuestionRelies

LEMMA AtRestSound == ASSUME QuestionTypes, QuestionStep PROVE Sound(AtRest)
  BY AtRestFacts
     DEF Sound, QuestionStep, Question, HoldsAnswer, Integrating, AtRestWhenIdle, Reported, ReadHolds,
         ConflictHolds

\* Every request is sound after a step in which one at most moves, to what is sound.
LEMMA AskingMoved ==
    ASSUME QuestionTypes, ItemsStep, QuestionStep, ConflictStep, \A c \in Clients : QuestionRelies(asking[c]),
           asking' = asking \/ \E c \in Clients, p \in InHand : Become(c, p) /\ Sound(p)
    PROVE  /\ asking' \in [Clients -> InHand]
           /\ \A c \in Clients : asking'[c].answer <= LastAnswer'
           /\ \A c \in Clients : QuestionRelies(asking[c])'
<1>1. CASE asking' = asking
  BY <1>1, StillSound DEF QuestionTypes, Sound, QuestionRelies, LastAnswer
<1>2. ASSUME NEW c \in Clients, NEW p \in InHand, Become(c, p), Sound(p)
      PROVE  /\ asking' \in [Clients -> InHand]
             /\ \A b \in Clients : Sound(asking'[b])
  <2>1. asking' = [asking EXCEPT ![c] = p] /\ asking \in [Clients -> InHand]
    BY <1>2 DEF Become, QuestionTypes
  <2>2. \A b \in Clients : asking'[b] = IF b = c THEN p ELSE asking[b]
    BY <2>1
  <2>3. \A b \in Clients : Sound(asking[b])
    BY StillSound
  <2>4. QED  BY <1>2, <2>1, <2>2, <2>3
<1>3. QED  BY <1>1, <1>2 DEF Sound, QuestionRelies, LastAnswer

\* Moved on, or at rest.
Moved == asking' = asking \/ \E c \in Clients, p \in InHand : Become(c, p) /\ Sound(p)

\* A stage that relies on nothing it read of a requirement or of the conflict.
LEMMA StageSound ==
    ASSUME QuestionTypes, QuestionStep, NEW p \in InHand, p.at \notin {"idle", "write", "settle"},
           p.answer <= LastAnswer, HoldsAnswer(p), Reported(p)
    PROVE  Sound(p)
<1>1. p.answer <= Len(question'.answers)
  <2>1. Len(question'.answers) \in Nat /\ Len(question.answers) <= Len(question'.answers)
    BY DEF QuestionStep, Question
  <2>2. p.answer \in Nat
    BY Sets DEF InHand
  <2>3. QED  BY <2>1, <2>2, QuestionFacts
<1>2. QED  BY <1>1 DEF Sound, AtRestWhenIdle, ReadHolds, ConflictHolds

LEMMA RequestsMove ==
    ASSUME QuestionTypes, ItemsStep, QuestionStep, ConflictStep, \A c \in Clients : QuestionRelies(asking[c]),
           NEW c \in Clients, Request(c)
    PROVE  Moved
<1>f. /\ question.version + 1 \in Nat /\ LastAnswer \in Nat /\ question.answers \in Seq(Answer)
      /\ LastAnswer = Len(question.answers) /\ conflict.version \in Nat
      /\ LastAnswer \in 0 .. MaxAnswers /\ LastAnswer <= LastAnswer /\ 0 <= LastAnswer
      /\ 0 \in Nat
  BY QuestionFacts, Sets DEF QuestionTypes, Conflict
<1>s. \A at \in {"flag", "assume", "integrate", "choose", "conflicts", "proposals"} :
         at \in AskingStages /\ at \notin {"idle", "write", "settle"}
  BY Sets
\* How a request begins.
<1>b. ASSUME NEW p, p \in InHand, p.at \in {"flag", "assume", "integrate", "choose", "conflicts", "proposals"},
             p.answer <= LastAnswer, p.at \in {"assume", "integrate"} => p.answer >= 1,
             p.applied = {} \/ p.at = "conflicts", p.proposed = {}, p.outcome = "UNANSWERED",
             Become(c, p)
      PROVE  Moved
  <2>1. HoldsAnswer(p) /\ Reported(p)
    BY <1>b DEF HoldsAnswer, Integrating, Reported
  <2>2. QED  BY <1>b, <1>s, <2>1, StageSound DEF Moved
<1>1. CASE AnswerClarification(c)
  <2>1. CASE LastAnswer > 0
    <3> DEFINE flagged == question.answers[LastAnswer].affected
               p == [AtRest EXCEPT !.at = "flag", !.flagged = flagged]
    <3>1. flagged \in SUBSET Items
      <4>1. question.answers[LastAnswer] \in Answer
        BY <1>f, <2>1
      <4>2. QED  BY <4>1 DEF Answer
    <3>2. Become(c, p)
      BY <1>1, <2>1 DEF AnswerClarification
    <3> HIDE DEF flagged
    <3>3. /\ p \in InHand /\ p.at = "flag" /\ p.answer = 0 /\ p.applied = {} /\ p.proposed = {}
          /\ p.outcome = "UNANSWERED"
      BY <1>s, <3>1, AtRestFacts DEF InHand
    <3> HIDE DEF p
    <3>4. QED  BY <1>b, <1>f, <3>2, <3>3
  <2>2. CASE ~(LastAnswer > 0)
    BY <1>1, <2>2 DEF AnswerClarification, Moved
  <2>3. QED  BY <2>1, <2>2
<1>2. CASE ConfirmClarification(c)
  <2>1. PICK at \in {"assume", "integrate"} :
           Become(c, [AtRest EXCEPT !.at = at, !.answer = LastAnswer, !.version = question.version + 1])
    BY <1>2 DEF ConfirmClarification
  <2> DEFINE p == [AtRest EXCEPT !.at = at, !.answer = LastAnswer, !.version = question.version + 1]
  <2>2. /\ p \in InHand /\ p.at = at /\ p.answer = LastAnswer /\ p.applied = {} /\ p.proposed = {}
        /\ p.outcome = "UNANSWERED" /\ Become(c, p)
    BY <1>f, <1>s, <2>1, AtRestFacts DEF InHand
  <2>3. LastAnswer >= 1
    BY <1>2, <1>f DEF ConfirmClarification
  <2> HIDE DEF p
  <2>4. QED  BY <1>b, <1>f, <2>1, <2>2, <2>3
<1>3. ASSUME NEW i \in Items, AcceptProposal(c, i)
      PROVE  Moved
  <2> DEFINE cited == {j \in Items : item'[j].cites > 0}
             p == [AtRest EXCEPT !.at = "conflicts", !.answer = LastAnswer, !.applied = cited]
  <2>1. Become(c, p) /\ cited \in SUBSET Items
    BY <1>3 DEF AcceptProposal
  <2> HIDE DEF cited
  <2>2. /\ p \in InHand /\ p.at = "conflicts" /\ p.answer = LastAnswer /\ p.proposed = {}
        /\ p.outcome = "UNANSWERED"
    BY <1>f, <1>s, <2>1, AtRestFacts DEF InHand
  <2> HIDE DEF p
  <2>3. QED  BY <1>b, <1>f, <2>1, <2>2
<1>4. ASSUME NEW i \in Items, RejectProposal(c, i)
      PROVE  Moved
  <2> DEFINE p == [AtRest EXCEPT !.at = "proposals"]
  <2>1. asking[c] = AtRest
    BY <1>4 DEF RejectProposal, Doing, QuestionRelies, AtRestWhenIdle
  <2>2. Become(c, p)
    BY <1>4, <2>1 DEF RejectProposal, Proceed, Become, QuestionTypes
  <2>3. /\ p \in InHand /\ p.at = "proposals" /\ p.answer = 0 /\ p.applied = {} /\ p.proposed = {}
        /\ p.outcome = "UNANSWERED"
    BY <1>s, AtRestFacts DEF InHand
  <2> HIDE DEF p
  <2>4. QED  BY <1>b, <1>f, <2>2, <2>3
<1>5. ASSUME NEW i \in Items, ResolveConflict(c, i)
      PROVE  Moved
  <2> DEFINE p == [AtRest EXCEPT !.at = "choose", !.version = conflict.version]
  <2>1. Become(c, p)
    BY <1>5 DEF ResolveConflict
  <2>2. /\ p \in InHand /\ p.at = "choose" /\ p.answer = 0 /\ p.applied = {} /\ p.proposed = {}
        /\ p.outcome = "UNANSWERED"
    BY <1>f, <1>s, AtRestFacts DEF InHand
  <2> HIDE DEF p
  <2>3. QED  BY <1>b, <1>f, <2>1, <2>2
<1>6. CASE DismissClarification(c) \/ ResolveFinding(c) \/ \E i \in Items : EditRequirement(c, i)
  BY <1>6 DEF DismissClarification, ResolveFinding, EditRequirement, Moved
<1>7. QED  BY <1>1, <1>2, <1>3, <1>4, <1>5, <1>6 DEF Request

LEMMA ContinuesMove ==
    ASSUME QuestionTypes, ItemsStep, QuestionStep, ConflictStep, \A c \in Clients : QuestionRelies(asking[c]),
           NEW c \in Clients, Continue(c)
    PROVE  Moved
<1> DEFINE a == asking[c]
<1>a. /\ a \in InHand /\ a.answer <= LastAnswer /\ HoldsAnswer(a) /\ Reported(a) /\ ReadHolds(a, item)
      /\ ConflictHolds(a, conflict) /\ asking = [asking EXCEPT ![c] = a] /\ a.outcome # "INTEGRATING"
  BY DEF QuestionTypes, QuestionRelies, Reported
<1>s. \A at \in {"write", "latest", "record", "conflicts", "settle", "proposals", "sweep", "outdate"} :
         at \in AskingStages
  BY Sets
\* The next stage of a request that read nothing new.
<1>n. ASSUME NEW p \in InHand, p.at \in {"latest", "record", "conflicts", "proposals", "sweep", "outdate"},
             p.answer = a.answer, a.at \in Integrating \/ p.at \notin {"latest", "record"},
             p.outcome # "INTEGRATING", p.at \in {"proposals", "sweep"} => p.outcome = "UNANSWERED",
             Become(c, p)
      PROVE  Moved
  <2>1. HoldsAnswer(p) /\ Reported(p)
    BY <1>a, <1>n DEF HoldsAnswer, Integrating, Reported
  <2>2. QED  BY <1>a, <1>n, <2>1, StageSound DEF Moved
<1>1. CASE \/ FlagPrevious(c) \/ RecordAssumption(c) \/ OutdateBaseline(c) \/ SweepQuestions(c)
           \/ ResolveConflictWrite(c)
  <2>1. Become(c, AtRest)
    BY <1>1 DEF FlagPrevious, RecordAssumption, OutdateBaseline, SweepQuestions, ResolveConflictWrite
  <2>2. QED  BY <2>1, AtRestFacts, AtRestSound DEF Moved
<1>2. CASE ListProposals(c)
  <2> DEFINE p == [AtRest EXCEPT !.at = "sweep"]
  <2>1. /\ p \in InHand /\ p.at = "sweep" /\ p.answer = 0 /\ p.outcome = "UNANSWERED"
        /\ p.applied = {} /\ p.proposed = {}
    BY <1>s, AtRestFacts DEF InHand
  <2>2. Become(c, p) \/ Become(c, AtRest)
    BY <1>2 DEF ListProposals
  <2> HIDE DEF p
  <2>3. Sound(p)
    BY <2>1, StageSound, QuestionFacts DEF HoldsAnswer, Integrating, Reported
  <2>4. QED  BY <2>1, <2>2, <2>3, AtRestFacts, AtRestSound DEF Moved
<1>3. CASE Integrate(c)
  <2> DEFINE read == [i \in Items |-> item[i].version]
             shielded == {i \in Items : Protected(i)}
  <2>1. read \in [Items -> Nat] /\ shielded \in SUBSET Items /\ \A i \in Items : read[i] = item[i].version
    BY DEF QuestionTypes, Item
  <2>i. item' = item /\ conflict' = conflict /\ a.at = "integrate"
    BY <1>3 DEF Integrate, Doing
  <2>2. ASSUME NEW i \in Items, i \notin shielded
        PROVE  ~item[i].editedByUser /\ item[i].status # "accepted"
    BY <2>2 DEF Protected
  <2>3. PICK at \in {"latest", "write"}, todo \in {a.todo} \cup SUBSET Items, outcome \in {"FAILED", "INTEGRATED"} :
           Become(c, [[a EXCEPT !.read = read, !.protected = shielded]
                        EXCEPT !.at = at, !.todo = todo, !.outcome = outcome])
    <3> DEFINE loaded == [a EXCEPT !.read = read, !.protected = shielded]
    <3>1. [loaded EXCEPT !.at = "latest", !.todo = a.todo, !.outcome = "FAILED"]
          = [loaded EXCEPT !.at = "latest", !.outcome = "FAILED"]
      <4> HIDE DEF a, read, shielded
      <4>1. QED  BY <1>a DEF InHand
    <3>2. CASE Become(c, [loaded EXCEPT !.at = "latest", !.outcome = "FAILED"])
      <4>1. Become(c, [loaded EXCEPT !.at = "latest", !.todo = a.todo, !.outcome = "FAILED"])
        BY <3>1, <3>2
      <4> HIDE DEF a, loaded
      <4>2. QED  BY <4>1 DEF loaded
    <3>3. CASE \E changed \in SUBSET {i \in Items : item[i].status # "rejected"} :
                 Become(c, [[a EXCEPT !.read = read, !.protected = shielded]
                              EXCEPT !.at = IF changed = {} THEN "latest" ELSE "write",
                                     !.todo = changed, !.outcome = "INTEGRATED"])
      BY <3>3
    <3>4. QED  BY <1>3, <3>2, <3>3 DEF Integrate
  <2> DEFINE p == [[a EXCEPT !.read = read, !.protected = shielded]
                        EXCEPT !.at = at, !.todo = todo, !.outcome = outcome]
  <2>o. at \in AskingStages /\ outcome \in QuestionStatus /\ todo \in SUBSET Items
    BY <1>a, <1>s, <2>3, Sets DEF InHand
  <2>4. /\ p \in InHand /\ p.at = at /\ p.todo = todo /\ p.read = read /\ p.protected = shielded
        /\ p.answer = a.answer /\ p.outcome = outcome
    <3> HIDE DEF read, shielded, a
    <3>1. QED  BY <1>a, <2>1, <2>o DEF InHand
  <2>5. Become(c, p)
    BY <2>3
  <2> HIDE DEF p, read, shielded, a
  <2>6. CASE at = "latest"
    <3>1. QED  BY <1>n, <2>i, <2>3, <2>4, <2>5, <2>6 DEF Integrating
  <2>7. CASE at = "write"
    <3>1. HoldsAnswer(p) /\ AtRestWhenIdle(p) /\ Reported(p) /\ ConflictHolds(p, conflict')
      BY <1>a, <2>i, <2>3, <2>4, <2>7 DEF HoldsAnswer, Integrating, AtRestWhenIdle, Reported, ConflictHolds
    <3>2. ReadHolds(p, item')
      <4>1. \A i \in Items : item[i].version \in Nat
        BY DEF QuestionTypes, Item
      <4>2. QED  BY <2>1, <2>2, <2>i, <2>o, <2>4, <4>1 DEF ReadHolds
    <3>3. p.answer <= Len(question'.answers)
      BY <1>a, <2>4, StillSound DEF Sound, a
    <3>4. QED  BY <2>4, <2>5, <3>1, <3>2, <3>3 DEF Sound, Moved
  <2>8. QED  BY <2>3, <2>6, <2>7
<1>4. ASSUME NEW i \in Items, WriteItem(c, i)
      PROVE  Moved
  <2> DEFINE todo == a.todo \ {i}
  <2>1. PICK at \in {"latest", "write"}, applied \in {a.applied, a.applied \cup {i}},
             proposed \in {a.proposed, a.proposed \cup {i}}, outcome \in {a.outcome, "NEEDS_REVIEW"} :
           Become(c, [a EXCEPT !.todo = todo, !.at = at, !.applied = applied,
                               !.proposed = proposed, !.outcome = outcome])
    <3>1. \A at : /\ [a EXCEPT !.todo = todo, !.at = at, !.proposed = @ \cup {i}, !.outcome = "NEEDS_REVIEW"]
                      = [a EXCEPT !.todo = todo, !.at = at, !.applied = a.applied,
                                  !.proposed = a.proposed \cup {i}, !.outcome = "NEEDS_REVIEW"]
                   /\ [a EXCEPT !.todo = todo, !.at = at, !.applied = @ \cup {i}]
                      = [a EXCEPT !.todo = todo, !.at = at, !.applied = a.applied \cup {i},
                                  !.proposed = a.proposed, !.outcome = a.outcome]
      <4> HIDE DEF a, todo
      <4>1. QED  BY <1>a DEF InHand
    <3>2. \E at \in {"latest", "write"} :
             \/ Become(c, [a EXCEPT !.todo = todo, !.at = at, !.proposed = @ \cup {i}, !.outcome = "NEEDS_REVIEW"])
             \/ Become(c, [a EXCEPT !.todo = todo, !.at = at, !.applied = @ \cup {i}])
      BY <1>4 DEF WriteItem
    <3> HIDE DEF a, todo
    <3>3. QED  BY <3>1, <3>2
  <2> DEFINE p == [a EXCEPT !.todo = todo, !.at = at, !.applied = applied,
                            !.proposed = proposed, !.outcome = outcome]
  <2>2. Become(c, p) /\ a.at = "write"
    BY <1>4, <2>1 DEF WriteItem, Doing
  <2>o. /\ at \in AskingStages /\ outcome \in QuestionStatus /\ outcome # "INTEGRATING"
        /\ todo \in SUBSET Items /\ applied \in SUBSET Items /\ proposed \in SUBSET Items
    <3> HIDE DEF a
    <3>1. QED  BY <1>a, <1>s, Sets DEF InHand
  <2>3. /\ p \in InHand /\ p.at = at /\ p.todo = todo /\ p.read = a.read /\ p.protected = a.protected
        /\ p.answer = a.answer /\ p.outcome = outcome
    <3> HIDE DEF todo, a
    <3>1. QED  BY <1>a, <2>o DEF InHand
  <2>4. Sound(a) /\ todo \subseteq a.todo
    BY StillSound
  <2> HIDE DEF p, a, todo
  <2>5. CASE at = "latest"
    BY <1>n, <2>1, <2>2, <2>o, <2>3, <2>5 DEF Integrating
  <2>6. CASE at = "write"
    <3>1. HoldsAnswer(p) /\ AtRestWhenIdle(p) /\ Reported(p) /\ ConflictHolds(p, conflict')
      BY <1>a, <2>2, <2>3, <2>o, <2>6 DEF HoldsAnswer, Integrating, AtRestWhenIdle, Reported, ConflictHolds
    <3>2. ReadHolds(p, item')
      BY <2>2, <2>3, <2>4 DEF ReadHolds, Sound
    <3>3. QED  BY <2>2, <2>3, <2>4, <3>1, <3>2 DEF Sound, Moved
  <2>7. QED  BY <2>1, <2>5, <2>6
<1>5. CASE ReadLatest(c)
  <2> DEFINE p == [a EXCEPT !.at = "record", !.version = question.version]
  <2>1. Become(c, p) /\ a.at = "latest"
    BY <1>5 DEF ReadLatest, Doing
  <2>2. p \in InHand /\ p.at = "record" /\ p.answer = a.answer /\ p.outcome = a.outcome
    <3> HIDE DEF a
    <3>1. QED  BY <1>a, <1>s, QuestionFacts DEF InHand
  <2> HIDE DEF p, a
  <2>3. QED  BY <1>a, <1>n, <2>1, <2>2 DEF Integrating
<1>6. ASSUME NEW at \in {"conflicts", "proposals", "outdate"}, Proceed(c, at),
             at = "proposals" => a.outcome = "UNANSWERED"
      PROVE  Moved
  <2> DEFINE p == [a EXCEPT !.at = at]
  <2>1. Become(c, p)
    BY <1>6 DEF Proceed, Become
  <2>2. p \in InHand /\ p.at = at /\ p.answer = a.answer /\ p.outcome = a.outcome
    <3> HIDE DEF a
    <3>1. QED  BY <1>a, <1>s DEF InHand
  <2> HIDE DEF p, a
  <2>3. QED  BY <1>6, <1>a, <1>n, <2>1, <2>2
<1>7. CASE RecordOutcome(c) \/ Settle(c)
  BY <1>6, <1>7 DEF RecordOutcome, Settle
<1>8. CASE ReadConflict(c)
  <2>1. CASE conflict.status \in HumanSettled
    BY <1>6, <1>8, <2>1 DEF ReadConflict
  <2>2. CASE conflict.status \notin HumanSettled
    <3>1. PICK status \in ConflictStatus :
             Become(c, [a EXCEPT !.at = "settle", !.version = conflict.version, !.status = status])
      BY <1>8, <2>2, Sets DEF ReadConflict, Evaluate
    <3> DEFINE p == [a EXCEPT !.at = "settle", !.version = conflict.version, !.status = status]
    <3>2. a.at = "conflicts" /\ conflict' = conflict /\ conflict.version \in Nat
      BY <1>8 DEF ReadConflict, Doing, QuestionTypes, Conflict
    <3>3. /\ p \in InHand /\ p.at = "settle" /\ p.answer = a.answer /\ p.outcome = a.outcome
          /\ p.version = conflict.version
      <4> HIDE DEF a
      <4>1. QED  BY <1>a, <1>s, <3>2 DEF InHand
    <3>4. Become(c, p) /\ Sound(a)
      BY <3>1, StillSound
    <3> HIDE DEF p, a
    <3>5. HoldsAnswer(p) /\ AtRestWhenIdle(p) /\ Reported(p) /\ ReadHolds(p, item')
      BY <1>a, <3>3 DEF HoldsAnswer, Integrating, AtRestWhenIdle, Reported, ReadHolds
    <3>6. ConflictHolds(p, conflict')
      BY <2>2, <3>2, <3>3 DEF ConflictHolds
    <3>7. QED  BY <3>3, <3>4, <3>5, <3>6 DEF Sound, Moved
  <2>3. QED  BY <2>1, <2>2
<1>9. QED  BY <1>1, <1>2, <1>3, <1>4, <1>5, <1>7, <1>8 DEF Continue

\* Only the request that takes a step moves.
LEMMA OneMoves ==
    ASSUME QuestionTypes, [QuestionNext]_questionVars, NEW c \in Clients
    PROVE  asking'[c] = asking[c] \/ Request(c) \/ Continue(c)
<1>1. CASE ApproveBaseline \/ UNCHANGED questionVars
  BY <1>1 DEF ApproveBaseline, questionVars
<1>2. ASSUME NEW b \in Clients, b # c, asking' = asking \/ \E p : Become(b, p)
      PROVE  asking'[c] = asking[c]
  BY <1>2 DEF Become, QuestionTypes
<1>3. ASSUME NEW b \in Clients, NEW at, Proceed(b, at)
      PROVE  \E p : Become(b, p)
  BY <1>3 DEF Proceed, Become
<1>4. ASSUME NEW b \in Clients, Request(b) PROVE asking' = asking \/ \E p : Become(b, p)
  <2>1. ASSUME NEW i \in Items, EditRequirement(b, i) \/ ResolveConflict(b, i)
        PROVE  asking' = asking \/ \E p : Become(b, p)
    BY <2>1 DEF EditRequirement, ResolveConflict
  <2>2. ASSUME NEW i \in Items, AcceptProposal(b, i) PROVE \E p : Become(b, p)
    BY <2>2 DEF AcceptProposal
  <2>3. ASSUME NEW i \in Items, RejectProposal(b, i) PROVE \E p : Become(b, p)
    BY <2>3, <1>3 DEF RejectProposal
  <2>4. CASE AnswerClarification(b) \/ ConfirmClarification(b) \/ DismissClarification(b) \/ ResolveFinding(b)
    BY <2>4 DEF AnswerClarification, ConfirmClarification, DismissClarification, ResolveFinding
  <2>5. QED  BY <1>4, <2>1, <2>2, <2>3, <2>4 DEF Request
<1>5. ASSUME NEW b \in Clients, Continue(b) PROVE asking' = asking \/ \E p : Become(b, p)
  <2>1. CASE Integrate(b)
    BY <2>1 DEF Integrate
  <2>2. ASSUME NEW i \in Items, WriteItem(b, i) PROVE \E p : Become(b, p)
    BY <2>2 DEF WriteItem
  <2>3. CASE FlagPrevious(b) \/ RecordAssumption(b) \/ OutdateBaseline(b) \/ SweepQuestions(b)
             \/ ResolveConflictWrite(b) \/ ReadLatest(b) \/ ListProposals(b)
    BY <2>3 DEF FlagPrevious, RecordAssumption, OutdateBaseline, SweepQuestions, ResolveConflictWrite,
                ReadLatest, ListProposals
  <2>4. CASE RecordOutcome(b) \/ Settle(b)
    BY <2>4, <1>3 DEF RecordOutcome, Settle
  <2>5. CASE ReadConflict(b)
    <3>1. (\E at : Proceed(b, at)) \/ (\E p : Become(b, p))
      BY <2>5 DEF ReadConflict
    <3>2. QED  BY <3>1, <1>3
  <2>6. QED  BY <1>5, <2>1, <2>2, <2>3, <2>4, <2>5 DEF Continue
<1>6. QED  BY <1>1, <1>2, <1>4, <1>5 DEF QuestionNext

LEMMA RequestsStartIdle == ASSUME NEW c \in Clients, Request(c) PROVE asking[c].at = "idle"
  BY DEF Request, Doing, AnswerClarification, ConfirmClarification, DismissClarification, EditRequirement,
         AcceptProposal, RejectProposal, ResolveConflict, ResolveFinding

-----------------------------------------------------------------------------
(* Clarifications: the inductive invariant *)

LEMMA AskingNext ==
    ASSUME QuestionTypes, ItemsStep, QuestionStep, ConflictStep, \A c \in Clients : QuestionRelies(asking[c]),
           [QuestionNext]_questionVars
    PROVE  Moved
<1>1. CASE ApproveBaseline \/ UNCHANGED questionVars
  BY <1>1 DEF ApproveBaseline, questionVars, Moved
<1>2. QED  BY <1>1, RequestsMove, ContinuesMove DEF QuestionNext

\* Whoever was to record an outcome still is, unless it has just done so.
LEMMA WitnessNext ==
    ASSUME QInv, QuestionStep, [QuestionNext]_questionVars PROVE SomebodyCloses'
<1>t. /\ asking \in [Clients -> InHand] /\ question.version \in Nat /\ question \in Question
      /\ question.version + 1 # question.version
  BY QuestionFacts DEF QInv, QuestionTypes
<1>1. CASE question'.status # "INTEGRATING"
  BY <1>1 DEF SomebodyCloses
<1>2. ASSUME NEW c \in Clients, Opened(c) PROVE SomebodyCloses'
  <2>1. PICK at \in {"assume", "integrate"} :
           Become(c, [AtRest EXCEPT !.at = at, !.answer = LastAnswer, !.version = question.version + 1])
    BY <1>2 DEF Opened, ConfirmClarification
  <2> DEFINE p == [AtRest EXCEPT !.at = at, !.answer = LastAnswer, !.version = question.version + 1]
  <2>2. p.at = at /\ p.version = question'.version
    BY <1>2 DEF Opened, AtRest
  <2>3. asking'[c] = p
    BY <1>t, <2>1 DEF Become
  <2>4. asking'[c].at = at /\ asking'[c].version = question'.version
    BY <2>2, <2>3
  <2>5. QED  BY <2>1, <2>4 DEF SomebodyCloses, Closing
<1>3. ASSUME question' = question, question.status = "INTEGRATING" PROVE SomebodyCloses'
  <2>1. PICK c \in Clients : Closing(c)
    BY <1>3 DEF QInv, SomebodyCloses
  <2> DEFINE a == asking[c]
  <2>a. a \in InHand /\ \A p : Become(c, p) => asking'[c] = p
    BY <1>t DEF Become
  <2>2. CASE asking'[c] = asking[c]
    BY <1>3, <2>1, <2>2 DEF SomebodyCloses, Closing
  <2>3. ~Request(c)
    BY <2>1, RequestsStartIdle DEF Closing
  <2>4. ~RecordAssumption(c) /\ ~RecordOutcome(c)
    <3>1. ASSUME RecordAssumption(c) \/ RecordOutcome(c) PROVE FALSE
      <4>1. a.version = question.version /\ a.outcome # "INTEGRATING"
        BY <2>1, <3>1 DEF Closing, Doing, RecordAssumption, RecordOutcome, QInv, QuestionRelies, Reported
      <4>2. \E status \in QuestionStatus \ {"INTEGRATING"} : \E answers :
               question' = [[question EXCEPT !.status = status, !.answers = answers]
                              EXCEPT !.version = question.version + 1]
        <5>1. CASE RecordAssumption(c)
          <6>1. question' = [[question EXCEPT !.status = "INTEGRATED"]
                               EXCEPT !.version = question.version + 1]
            BY <4>1, <5>1 DEF RecordAssumption, UpdateQuestion
          <6>2. [question EXCEPT !.status = "INTEGRATED"]
                = [question EXCEPT !.status = "INTEGRATED", !.answers = question.answers]
            BY <1>t DEF Question
          <6>3. QED  BY <6>1, <6>2, Sets
        <5>2. CASE RecordOutcome(c)
          <6> DEFINE answers == [question.answers EXCEPT ![a.answer] =
                        [question.answers[a.answer] EXCEPT !.affected = a.applied \cup a.proposed]]
          <6>1. [question EXCEPT !.status = a.outcome,
                                 !.answers[a.answer].affected = a.applied \cup a.proposed]
                = [question EXCEPT !.status = a.outcome, !.answers = answers]
            <7> HIDE DEF a
            <7>1. QED  BY <1>t DEF Question
          <6>2. question' = [[question EXCEPT !.status = a.outcome,
                                 !.answers[a.answer].affected = a.applied \cup a.proposed]
                               EXCEPT !.version = question.version + 1]
            BY <4>1, <5>2 DEF RecordOutcome, UpdateQuestion
          <6>3. a.outcome \in QuestionStatus
            <7> HIDE DEF a
            <7>1. QED  BY <2>a DEF InHand
          <6> HIDE DEF answers, a
          <6>4. QED  BY <4>1, <6>1, <6>2, <6>3
        <5>3. QED  BY <3>1, <5>1, <5>2
      <4>3. question'.status # "INTEGRATING"
        BY <1>t, <4>2 DEF Question
      <4>4. QED  BY <1>3, <4>3
    <3>2. QED  BY <3>1
  <2>5. CASE Integrate(c)
    <3>1. PICK p : p.at \in {"latest", "write"} /\ Become(c, p)
      <4> DEFINE loaded == [a EXCEPT !.read = [i \in Items |-> item[i].version],
                                     !.protected = {i \in Items : Protected(i)}]
                 p1 == [loaded EXCEPT !.at = "latest", !.outcome = "FAILED"]
                 p2(changed) == [loaded EXCEPT !.at = IF changed = {} THEN "latest" ELSE "write",
                                               !.todo = changed, !.outcome = "INTEGRATED"]
      <4>1. Become(c, p1) \/ \E changed \in SUBSET Items : Become(c, p2(changed))
        BY <2>5 DEF Integrate
      <4>2. p1.at \in {"latest", "write"} /\ \A changed : p2(changed).at \in {"latest", "write"}
        <5> HIDE DEF a
        <5>1. QED  BY <2>a DEF InHand
      <4> HIDE DEF p1, p2
      <4>3. QED  BY <4>1, <4>2
    <3>2. QED  BY <2>a, <3>1 DEF SomebodyCloses, Closing
  <2>6. ASSUME NEW i \in Items, WriteItem(c, i) PROVE SomebodyCloses'
    <3>1. PICK p : p.at \in {"latest", "write"} /\ Become(c, p)
      <4> DEFINE todo == a.todo \ {i}
                 at == IF todo = {} THEN "latest" ELSE "write"
                 p1 == [a EXCEPT !.todo = todo, !.at = at, !.proposed = @ \cup {i}, !.outcome = "NEEDS_REVIEW"]
                 p2 == [a EXCEPT !.todo = todo, !.at = at, !.applied = @ \cup {i}]
      <4>1. Become(c, p1) \/ Become(c, p2)
        BY <2>6 DEF WriteItem
      <4>2. p1.at \in {"latest", "write"} /\ p2.at \in {"latest", "write"}
        <5> HIDE DEF a, todo
        <5>1. QED  BY <2>a DEF InHand
      <4> HIDE DEF p1, p2
      <4>3. QED  BY <4>1, <4>2
    <3>2. QED  BY <2>a, <3>1 DEF SomebodyCloses, Closing
  <2>7. CASE ReadLatest(c)
    <3> DEFINE p == [a EXCEPT !.at = "record", !.version = question.version]
    <3>1. Become(c, p)
      BY <2>7 DEF ReadLatest
    <3>2. p.at = "record" /\ p.version = question.version
      <4> HIDE DEF a
      <4>1. QED  BY <2>a DEF InHand
    <3> HIDE DEF p
    <3>3. QED  BY <1>3, <2>a, <3>1, <3>2 DEF SomebodyCloses, Closing
  <2>8. ~(\/ FlagPrevious(c) \/ OutdateBaseline(c) \/ ReadConflict(c) \/ Settle(c)
          \/ ListProposals(c) \/ SweepQuestions(c) \/ ResolveConflictWrite(c))
    BY <2>1
       DEF Closing, Doing, FlagPrevious, OutdateBaseline, ReadConflict, Settle, ListProposals,
           SweepQuestions, ResolveConflictWrite
  <2>9. QED
    BY <2>2, <2>3, <2>4, <2>5, <2>6, <2>7, <2>8, OneMoves DEF QInv, Continue
<1>4. QED  BY <1>1, <1>2, <1>3 DEF QuestionStep

LEMMA QInvInit == ASSUME QuestionInit PROVE QInv
<1>1. QuestionTypes
  BY AtRestFacts, Sets
     DEF QuestionInit, QuestionTypes, Item, Question, Conflict, LastAnswer
<1>2. \A c \in Clients : QuestionRelies(asking[c])
  BY AtRestFacts
     DEF QuestionInit, QuestionRelies, HoldsAnswer, Integrating, AtRestWhenIdle, Reported, ReadHolds, ConflictHolds
<1>3. SomebodyCloses
  BY DEF QuestionInit, SomebodyCloses
<1>4. QED  BY <1>1, <1>2, <1>3 DEF QInv

LEMMA QInvNext == ASSUME QInv, [QuestionNext]_questionVars PROVE QInv'
<1>1. ItemsStep /\ QuestionStep /\ ConflictStep /\ baseline' \in {"draft", "approved", "outdated"}
  BY ItemsNext, QuestionNextStep, ConflictNext, BaselineNext DEF QInv
<1>2. /\ asking' \in [Clients -> InHand]
      /\ \A c \in Clients : asking'[c].answer <= LastAnswer'
      /\ \A c \in Clients : QuestionRelies(asking[c])'
  BY <1>1, AskingNext, AskingMoved DEF QInv, Moved
<1>3. SomebodyCloses'
  BY <1>1, WitnessNext
<1>4. QED  BY <1>1, <1>2, <1>3 DEF QInv, QuestionTypes, ItemsStep, QuestionStep, ConflictStep

THEOREM QInvHolds == QuestionSpec => []QInv
<1>1. QuestionInit => QInv
  BY QInvInit
<1>2. QInv /\ [QuestionNext]_questionVars => QInv'
  BY QInvNext
<1>3. QED  BY <1>1, <1>2, PTL DEF QuestionSpec

-----------------------------------------------------------------------------
(* Clarifications: the theorems *)

LEMMA QuestionTypesHold == QInv => QuestionTypeInv
  BY DEF QInv, QuestionTypes, QuestionTypeInv, InHand

\* Every record keeps its shape, no question has more answers than were given, and every request
\* stands at a known stage with an answer that exists. (the records of clarification.service.ts)
THEOREM QuestionTypeCorrect == QuestionSpec => []QuestionTypeInv
  BY QuestionTypesHold, QInvHolds, PTL

\* Once every request has ended, no question is left INTEGRATING: some request always still has the
\* outcome to record, under the version the question has. (confirmClarification's last write)
THEOREM IntegrationsEnd == QuestionSpec => []NothingLeftIntegrating
<1>1. QInv => NothingLeftIntegrating
  BY DEF QInv, SomebodyCloses, Closing, NothingLeftIntegrating
<1>2. QED  BY <1>1, QInvHolds, PTL

\* What an integration may write on a requirement nobody had decided about.
LEMMA WordsStep ==
    ASSUME QInv, [QuestionNext]_questionVars, NEW i \in Items,
           item'[i].words = "answer", item[i].words # "answer"
    PROVE  ~item[i].editedByUser /\ item[i].status # "accepted"
<1>i. item[i] \in Item /\ \A j \in Items : item[j] \in Item
  BY DEF QInv, QuestionTypes
<1>l. LastAnswer \in 0 .. MaxAnswers
  BY QuestionFacts, Sets DEF QInv
<1>u. item' # item
  OBVIOUS
<1>1. ASSUME NEW c \in Clients, NEW j \in Items, WriteItem(c, j)
      PROVE  ~item[i].editedByUser /\ item[i].status # "accepted"
  <2>1. /\ asking[c].read[j] \in Nat /\ asking[c].answer \in 0 .. MaxAnswers
        /\ asking[c].at = "write" /\ j \in asking[c].todo /\ ReadHolds(asking[c], item)
    BY <1>1 DEF QInv, QuestionTypes, InHand, WriteItem, Doing, QuestionRelies
  <2> DEFINE proposed == [item[j] EXCEPT !.proposal = TRUE]
             rewritten == [item[j] EXCEPT !.words = "answer", !.cites = asking[c].answer,
                                          !.needsRevalidation = FALSE]
  <2>2. proposed \in Item /\ rewritten \in Item
    BY <2>1, ItemRecords DEF QInv
  <2>3. proposed.words = item[j].words
    BY <1>i DEF Item
  <2>4. UpdateItem(j, asking[c].read[j], IF j \in asking[c].protected THEN proposed ELSE rewritten)
    BY <1>1 DEF WriteItem
  <2> HIDE DEF proposed, rewritten
  <2>5. CASE j \in asking[c].protected
    <3>1. /\ \A k \in Items : k # j => item'[k] = item[k]
          /\ item'[j] # item[j] => item'[j] = [proposed EXCEPT !.version = asking[c].read[j] + 1]
      BY <2>1, <2>2, <2>4, <2>5, ItemUpdated DEF QInv
    <3>2. [proposed EXCEPT !.version = asking[c].read[j] + 1].words = item[j].words
      BY <2>2, <2>3 DEF Item
    <3>3. QED  BY <3>1, <3>2
  <2>6. CASE j \notin asking[c].protected
    <3>1. /\ \A k \in Items : k # j => item'[k] = item[k]
          /\ item'[j] # item[j] => item[j].version = asking[c].read[j]
      BY <2>1, <2>2, <2>4, <2>6, ItemUpdated DEF QInv
    <3>2. QED  BY <2>1, <2>6, <3>1 DEF ReadHolds
  <2>7. QED  BY <2>5, <2>6
<1>2. ASSUME NEW j \in Items, NEW d \in Item, d.words # "answer" \/ d.words = item[j].words,
             UpdateItem(j, item[j].version, d)
      PROVE  FALSE
  <2>1. item[j].version \in Nat
    BY <1>i DEF Item
  <2>2. /\ \A k \in Items : k # j => item'[k] = item[k]
        /\ item'[j] # item[j] => item'[j] = [d EXCEPT !.version = item[j].version + 1]
    BY <1>2, <2>1, ItemUpdated DEF QInv
  <2>3. [d EXCEPT !.version = item[j].version + 1].words = d.words
    BY DEF Item
  <2>4. QED  BY <1>2, <2>2, <2>3
<1>3. ASSUME NEW c \in Clients, NEW j \in Items,
             EditRequirement(c, j) \/ AcceptProposal(c, j) \/ RejectProposal(c, j)
      PROVE  FALSE
  <2>1. item[j] \in Item
    BY <1>i
  <2>2. \E d \in Item : (d.words # "answer" \/ d.words = item[j].words) /\ UpdateItem(j, item[j].version, d)
    <3>1. CASE EditRequirement(c, j)
      <4>1. ASSUME NEW status \in {"accepted", "rejected"}
            PROVE  LET d == [item[j] EXCEPT !.status = status] IN d \in Item /\ d.words = item[j].words
        BY <2>1 DEF Item
      <4>2. LET d == [item[j] EXCEPT !.words = "person", !.status = "edited", !.editedByUser = TRUE]
            IN  d \in Item /\ d.words = "person"
        BY <2>1 DEF Item
      <4>3. QED  BY <3>1, <4>1, <4>2 DEF EditRequirement
    <3>2. CASE AcceptProposal(c, j)
      <4>1. LET d == [item[j] EXCEPT !.words = "person", !.status = "edited", !.editedByUser = TRUE,
                          !.needsRevalidation = FALSE, !.proposal = FALSE, !.cites = LastAnswer]
            IN  d \in Item /\ d.words = "person"
        BY <1>l, <2>1 DEF Item
      <4>2. QED  BY <3>2, <4>1 DEF AcceptProposal
    <3>3. CASE RejectProposal(c, j)
      <4>1. LET d == [item[j] EXCEPT !.needsRevalidation = FALSE, !.proposal = FALSE]
            IN  d \in Item /\ d.words = item[j].words
        BY <2>1 DEF Item
      <4>2. QED  BY <3>3, <4>1 DEF RejectProposal
    <3>4. QED  BY <1>3, <3>1, <3>2, <3>3
  <2>3. QED  BY <1>2, <2>2
<1>4. ASSUME NEW c \in Clients, FlagPrevious(c) PROVE FALSE
  <2>1. item'[i] = [item[i] EXCEPT !.needsRevalidation = item[i].needsRevalidation \/ i \in asking[c].flagged]
    BY <1>4 DEF FlagPrevious
  <2>2. item'[i].words = item[i].words
    BY <1>i, <2>1 DEF Item
  <2>3. QED  BY <2>2
<1>5. ASSUME NEW c \in Clients, NEW j \in Items, ResolveConflict(c, j) PROVE FALSE
  <2>1. \/ item'[i] = item[i]
        \/ item'[i] = [item[i] EXCEPT !.status = "rejected", !.editedByUser = TRUE, !.version = @ + 1]
        \/ item'[i] = [item[i] EXCEPT !.words = "person", !.status = "edited",
                                      !.editedByUser = TRUE, !.version = @ + 1]
    BY <1>5 DEF ResolveConflict
  <2>2. item'[i].words \in {item[i].words, "person"}
    BY <1>i, <2>1 DEF Item
  <2>3. QED  BY <2>2
<1>6. CASE ApproveBaseline \/ UNCHANGED questionVars
  BY <1>6, <1>u DEF ApproveBaseline, questionVars
<1>7. ASSUME NEW c \in Clients,
             \/ AnswerClarification(c) \/ ConfirmClarification(c) \/ DismissClarification(c)
             \/ ResolveFinding(c) \/ RecordAssumption(c) \/ Integrate(c) \/ ReadLatest(c)
             \/ RecordOutcome(c) \/ OutdateBaseline(c) \/ ReadConflict(c) \/ Settle(c)
             \/ ListProposals(c) \/ SweepQuestions(c) \/ ResolveConflictWrite(c)
      PROVE  FALSE
  BY <1>7, <1>u
     DEF AnswerClarification, ConfirmClarification, DismissClarification, ResolveFinding,
         RecordAssumption, Integrate, ReadLatest, RecordOutcome, OutdateBaseline, ReadConflict, Settle,
         ListProposals, SweepQuestions, ResolveConflictWrite
<1>8. QED
  BY <1>1, <1>3, <1>4, <1>5, <1>6, <1>7 DEF QuestionNext, Request, Continue

\* What a person edited or accepted is never rewritten by an integration, and what a person settled
\* is never reopened, whichever of them comes first and however long the model takes.
\* (applyClarificationOutcome, updateConflictStatus)
THEOREM DecisionsAreKept == QuestionSpec => PersonsWordsKept
<1> DEFINE Kept ==
       /\ \A i \in Items :
             item'[i].words = "answer" /\ item'[i] # item[i] /\ item[i].words # "answer" =>
                 ~item[i].editedByUser /\ item[i].status # "accepted"
       /\ conflict.status \in HumanSettled => conflict'.status \in HumanSettled
<1>1. QInv /\ [QuestionNext]_questionVars => [Kept]_questionVars
  <2>1. ASSUME QInv, [QuestionNext]_questionVars PROVE Kept
    <3>1. ConflictStep
      BY <2>1, ConflictNext DEF QInv
    <3>2. QED  BY <2>1, <3>1, WordsStep DEF ConflictStep
  <2>2. QED  BY <2>1
<1>2. QED  BY <1>1, QInvHolds, PTL DEF QuestionSpec, PersonsWordsKept

\* An integration that rewrote a requirement, or proposed to, ends with no approved baseline, even
\* one approved while the model was working. (confirmClarification, markBaselineOutdatedFor)
THEOREM OldBaselinesAreOutdated == QuestionSpec => IntegrationOutdates
<1> DEFINE Outdated(c) ==
       /\ asking[c].applied \cup asking[c].proposed # {} /\ asking[c].outcome # "UNANSWERED"
       /\ asking[c].at # "idle" /\ asking'[c].at = "idle"
       => baseline' # "approved"
<1>1. ASSUME QInv, [QuestionNext]_questionVars, NEW c \in Clients PROVE Outdated(c)
  <2> SUFFICES ASSUME asking[c].applied \cup asking[c].proposed # {}, asking[c].outcome # "UNANSWERED",
                      asking[c].at # "idle", asking'[c].at = "idle"
               PROVE  baseline' # "approved"
    OBVIOUS
  <2> DEFINE a == asking[c]
  <2>1. /\ a \in InHand /\ Reported(a) /\ \A p : Become(c, p) => asking'[c] = p
        /\ \A at : Proceed(c, at) => asking'[c].at = at
    BY <1>1 DEF QInv, QuestionRelies, QuestionTypes, InHand, Become, Proceed
  <2>2. Continue(c)
    BY <1>1, OneMoves, RequestsStartIdle DEF QInv
  <2>3. CASE OutdateBaseline(c)
    BY <2>3 DEF OutdateBaseline, OutdatedBaseline
  <2>4. ~(\/ FlagPrevious(c) \/ RecordAssumption(c) \/ Integrate(c) \/ ResolveConflictWrite(c)
          \/ ListProposals(c) \/ SweepQuestions(c))
    BY <2>1 DEF Reported, FlagPrevious, RecordAssumption, ResolveConflictWrite, ListProposals,
                SweepQuestions, Integrate, Doing
  <2>5. ~RecordOutcome(c) /\ ~Settle(c)
    BY <2>1 DEF RecordOutcome, Settle
  <2>6. ~ReadLatest(c)
    <3>1. [a EXCEPT !.at = "record", !.version = question.version].at = "record"
      <4> HIDE DEF a
      <4>1. QED  BY <2>1 DEF InHand
    <3>2. QED  BY <2>1, <3>1 DEF ReadLatest
  <2>7. ~ReadConflict(c)
    <3>1. \A version, status : [a EXCEPT !.at = "settle", !.version = version, !.status = status].at = "settle"
      <4> HIDE DEF a
      <4>1. QED  BY <2>1 DEF InHand
    <3>2. QED  BY <2>1, <3>1 DEF ReadConflict
  <2>8. ASSUME NEW i \in Items, WriteItem(c, i) PROVE FALSE
    <3> DEFINE todo == a.todo \ {i}
               at == IF todo = {} THEN "latest" ELSE "write"
               p1 == [a EXCEPT !.todo = todo, !.at = at, !.proposed = @ \cup {i}, !.outcome = "NEEDS_REVIEW"]
               p2 == [a EXCEPT !.todo = todo, !.at = at, !.applied = @ \cup {i}]
    <3>1. Become(c, p1) \/ Become(c, p2)
      BY <2>8 DEF WriteItem
    <3>2. p1.at # "idle" /\ p2.at # "idle"
      <4> HIDE DEF a, todo
      <4>1. QED  BY <2>1 DEF InHand
    <3> HIDE DEF p1, p2
    <3>3. QED  BY <2>1, <3>1, <3>2
  <2>9. QED  BY <2>2, <2>3, <2>4, <2>5, <2>6, <2>7, <2>8 DEF Continue
<1>2. QInv /\ [QuestionNext]_questionVars => [\A c \in Clients : Outdated(c)]_questionVars
  BY <1>1
<1>3. QED  BY <1>2, QInvHolds, PTL DEF QuestionSpec, IntegrationOutdates

-----------------------------------------------------------------------------
(* Both halves in one behaviour, as the run of MCReview has them *)

LEMMA HalvesHold == HalfSpec => [](IInv /\ QInv)
<1>1. HalfInit => IInv /\ QInv
  BY Initially, QInvInit DEF HalfInit
<1>2. IInv /\ QInv /\ [HalfNext]_<<half, vars, questionVars>> => (IInv /\ QInv)'
  <2> SUFFICES ASSUME IInv, QInv, [HalfNext]_<<half, vars, questionVars>> PROVE IInv' /\ QInv'
    OBVIOUS
  <2>1. [Next]_vars /\ [QuestionNext]_questionVars
    BY DEF HalfNext
  <2>2. QED  BY <2>1, Inductive, QInvNext
<1>3. QED  BY <1>1, <1>2, PTL DEF HalfSpec

\* Runs and questions keep the shape of their records in one behaviour too, whichever half is in
\* play: a step of either leaves the records of the other alone. (the collections of
\* analysis.repository.ts and clarification.service.ts, which no handler of the other writes)
THEOREM BothTypesCorrect == HalfSpec => []ReviewTypeInv
<1>1. IInv /\ QInv => ReviewTypeInv
  BY TypesHold, QuestionTypesHold DEF ReviewTypeInv
<1>2. QED  BY <1>1, HalvesHold, PTL
================================================================================
