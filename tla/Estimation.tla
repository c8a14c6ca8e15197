----------------------------- MODULE Estimation -----------------------------
(***************************************************************************)
(* The estimate of one project: versions of a plan, whose lines and        *)
(* dependencies are rows of their own. A run works out a line for every    *)
(* approved requirement, perhaps after minutes in a model; meanwhile a     *)
(* person overrides figures, adds lines by hand, excludes, resets, sets    *)
(* the team, acknowledges that the plan is at risk, approves it and        *)
(* reopens it. What a run may not touch is a figure a person has set.      *)
(*                                                                         *)
(* One action is one read or write of the database, a versioned write      *)
(* together with the read of the same row.                                 *)
(***************************************************************************)
EXTENDS VersionedPlan

CONSTANTS
    Requirements,        \* what baselines may ask for
    NoRequirement,       \* of overhead lines and some written by hand
    Figures,             \* the efforts people enter
    Calculated,          \* what the arithmetic gives
    None,
    Teams,
    FeasibilityOf(_, _), \* the verdict on a team and a set of figures
    NeedsAcknowledgement,\* the verdicts a person has to accept
    MaxUnits, MaxEdges,  \* bound: lines ever, and dependencies made by hand
    MaxRequests          \* bound: requests that begin

ASSUME EstimateAssumption ==
    /\ MaxUnits \in Nat \ {0, 1}  \* a first estimate has a line and the overhead
    /\ IsFiniteSet(Requirements)
    /\ "none" \in Teams /\ None \notin Figures \cup {Calculated}

VARIABLES
    baseline,   \* the approved baseline: version (0 for none), current, requirements
    stack,      \* the locked stack's version, 0 when none is locked
    timeline,   \* "missing", "contradictory" or "set"
    snapshots,  \* a row per version of the estimate
    units,      \* the lines, by id; deleted ids are absent
    edges,      \* the dependencies between lines
    proc,       \* per request, where it is and what it has read
    running,    \* the requests whose run is stored as running
    stuck,      \* whether a run is stored as running whose request has gone
    created,    \* how many lines there have been: the next id
    upstream, requests

vars == <<baseline, stack, timeline, snapshots, units, edges, proc, running, stuck, created,
          upstream, requests>>

SnapshotStatus == {"DRAFT", "REVIEW_REQUIRED", "READY_FOR_APPROVAL", "APPROVED", "OUTDATED",
                   "SUPERSEDED"}
Efforts == Figures \cup {Calculated}
Verdicts == {FeasibilityOf(t, s) : t \in Teams, s \in SUBSET Efforts}

Snapshot == [version : 1 .. MaxVersions, status : SnapshotStatus, recordVersion : Nat,
             baseline : 0 .. MaxUpstream + 1, stack : 0 .. MaxUpstream + 1, team : Teams,
             feasibility : Verdicts, acknowledged : Verdicts \cup {None}]

\* origin: whether the row carries the drivers of a calculation, or was added by hand.
Unit == [estimate : 1 .. MaxVersions, requirement : Requirements \cup {NoRequirement},
         overhead : BOOLEAN, effort : Efforts, original : Efforts \cup {None},
         source : {"SYSTEM_CALCULATED", "AI_PROPOSED", "USER_OVERRIDE"},
         origin : {"calculated", "hand"}, excluded : BOOLEAN, recordVersion : Nat]
Edge == [estimate : 1 .. MaxVersions, from : 1 .. MaxUnits, to : 1 .. MaxUnits,
         userDefined : BOOLEAN]

IsUserAuthored(unit) == unit.source = "USER_OVERRIDE"

Stages == {"idle", "first", "open", "run", "answer", "generate", "units", "edges", "insert",
           "infer", "refresh", "store", "done", "approve", "carry", "copy", "retire",
           "unit", "link", "setteam", "acknowledge"}

\* row, expected: the snapshot read; claimed: the lines to keep as read, with their requirements;
\* wanted: the requirements read; ai: whether a model was asked; inRun: whether a refresh is a
\* run's; verdict, next: what is about to be stored; from, to: the rows a write is about.
Idle == [at |-> "idle", row |-> 0, expected |-> 0, claimed |-> {}, wanted |-> {}, ai |-> FALSE, inRun |-> FALSE,
         verdict |-> None, next |-> "none", from |-> 0, to |-> 0]

At(c, stage) == proc[c].at = stage
Begin(c) == At(c, "idle") /\ requests < MaxRequests /\ requests' = requests + 1
Go(c, stage) == proc' = [proc EXCEPT ![c].at = stage]
Return(c) == proc' = [proc EXCEPT ![c] = Idle]
Mine(c) == snapshots[proc[c].row].version

Of(version) == {u \in DOMAIN units : units[u].estimate = version}
EdgesOf(version) == {e \in edges : e.estimate = version}
Counted(version) == {u \in Of(version) : ~units[u].excluded}

-----------------------------------------------------------------------------
(* What assemble works out *)

\* detectCycles: some lines in the plan all wait for one of each other.
HasCycle(version, links) ==
    \E loop \in (SUBSET Counted(version)) \ {{}} :
        \A u \in loop : \E e \in links : e.from = u /\ e.to \in loop

Feasibility(s) == FeasibilityOf(s.team, {units[u].effort : u \in Counted(s.version)})

\* baselineCurrent and stackCurrent compare with the snapshot that is current, which is the one
\* assembled, but for a race.
BaselineCurrent(s) == baseline.current /\ (s.baseline # 0 => s.baseline = baseline.version)
StackCurrent(s) == stack # 0 /\ (s.stack # 0 => s.stack = stack)

If(p, kind) == IF p THEN {kind} ELSE {}

UnacknowledgedAtAll(s) == Feasibility(s) \in NeedsAcknowledgement /\ s.acknowledged = None \* faulty
\* Someone who accepted one verdict has not accepted another.
Unacknowledged(s) == Feasibility(s) \in NeedsAcknowledgement /\ s.acknowledged # Feasibility(s)

\* calculateEstimateBlockers
Blockers(s) ==
    IF baseline.version = 0 THEN {"baseline_not_approved"}
    ELSE IF stack = 0 THEN {"stack_not_locked"}
    ELSE IF timeline = "missing" THEN {"timeline_missing"}
    ELSE IF timeline = "contradictory" THEN {"deadline_before_start"}
    ELSE If(~BaselineCurrent(s), "baseline_not_current")
         \cup If(~StackCurrent(s), "stack_not_current")
         \cup (IF Counted(s.version) = {} THEN {"no_estimates"}
               ELSE If(~(baseline.requirements \subseteq
                           {units[u].requirement : u \in Of(s.version)}),
                       "requirement_unestimated")
                    \cup If(HasCycle(s.version, EdgesOf(s.version)), "dependency_cycle")
                    \cup If(Unacknowledged(s), "unacknowledged_risk"))

-----------------------------------------------------------------------------
NewUnit(version, requirement, overhead, effort, source, origin) ==
    [estimate |-> version, requirement |-> requirement, overhead |-> overhead, effort |-> effort,
     original |-> None, source |-> source, origin |-> origin, excluded |-> FALSE,
     recordVersion |-> 0]

EmptyTeam == CHOOSE t \in Teams : t = "none"
NewSnapshot(version, status) ==
    [version |-> version, status |-> status, recordVersion |-> 0,
     baseline |-> baseline.version, stack |-> stack, team |-> EmptyTeam,
     feasibility |-> FeasibilityOf(EmptyTeam, {}), acknowledged |-> None]

Init ==
    /\ \E r \in (SUBSET Requirements) \ {{}} :
         baseline = [version |-> 1, current |-> TRUE, requirements |-> r]
    /\ stack = 1 /\ timeline = "set"
    /\ \/ snapshots = <<>> /\ units = <<>> /\ created = 0
       \* or a first run has been made, and perhaps a team set
       \/ \E r \in baseline.requirements, team \in Teams :
            LET verdict == FeasibilityOf(team, {Calculated}) IN
            /\ baseline.requirements = {r}
            /\ snapshots = <<[NewSnapshot(1, IF verdict \in NeedsAcknowledgement
                                             THEN "REVIEW_REQUIRED" ELSE "READY_FOR_APPROVAL")
                                EXCEPT !.team = team, !.feasibility = verdict]>>
            /\ units = <<NewUnit(1, r, FALSE, Calculated, "AI_PROPOSED", "calculated"),
                         NewUnit(1, NoRequirement, TRUE, Calculated, "SYSTEM_CALCULATED",
                                 "calculated")>>
            /\ created = 2
    /\ edges = {}
    /\ proc = [c \in Clients |-> Idle]
    /\ running = {} /\ stuck = FALSE
    /\ upstream = 0 /\ requests = 0

(* Upstream: the baseline, the stack and the project's dates change *)

ChangeUpstream ==
    /\ upstream < MaxUpstream
    /\ upstream' = upstream + 1
    /\ \/ /\ \E r \in (SUBSET Requirements) \ {{}} :
               baseline' = [version |-> baseline.version + 1, current |-> TRUE, requirements |-> r]
          /\ UNCHANGED <<stack, timeline>>
       \/ /\ baseline.current
          /\ baseline' = [baseline EXCEPT !.current = FALSE]
          /\ UNCHANGED <<stack, timeline>>
       \/ \* unlocked, or locked again as a later version
          /\ stack' \in {0, upstream + 2} \ {stack}
          /\ UNCHANGED <<baseline, timeline>>
       \/ /\ timeline' \in {"missing", "contradictory", "set"} \ {timeline}
          /\ UNCHANGED <<baseline, stack>>
    /\ UNCHANGED <<snapshots, units, edges, proc, running, stuck, created, requests>>

Data == <<baseline, stack, timeline, created, upstream>>
Runs == <<running, stuck>>

(* The first snapshot *)

Arrive(c) ==
    /\ Begin(c)
    /\ Currents(snapshots) = {}
    /\ Go(c, "first")
    /\ UNCHANGED <<Data, Runs, snapshots, units, edges>>

CreateInitial(c) ==
    /\ At(c, "first")
    /\ NextVersion(snapshots) <= MaxVersions
    /\ snapshots' = Append(snapshots, NewSnapshot(NextVersion(snapshots), "DRAFT"))
    /\ Return(c)
    /\ UNCHANGED <<Data, Runs, units, edges, requests>>

\* editable. A request refused here changes nothing.
OpenEditable(c) ==
    /\ Begin(c)
    /\ \E s \in Currents(snapshots) :
         /\ snapshots[s].status # "APPROVED"
         /\ proc' = [proc EXCEPT ![c] = [Idle EXCEPT !.at = "open", !.row = s,
                                                     !.expected = snapshots[s].recordVersion]]
    /\ UNCHANGED <<Data, Runs, snapshots, units, edges>>

Refuse(c) ==
    /\ At(c, "open")
    /\ Return(c)
    /\ UNCHANGED <<Data, Runs, snapshots, units, edges, requests>>

-----------------------------------------------------------------------------
(* A person's lines *)

\* The first override keeps what it replaces; a later one does not replace that.
CaptureAlways(unit) == unit.effort \* faulty
Capture(unit) == IF unit.original = None THEN unit.effort ELSE unit.original

SetUnit(u, unit) == units' = [units EXCEPT ![u] = Written(unit)]

Override(c, u, figure, excluded) ==
    /\ At(c, "open") /\ u \in DOMAIN units
    /\ SetUnit(u, [units[u] EXCEPT !.effort = figure, !.original = Capture(units[u]),
                                   !.source = "USER_OVERRIDE", !.excluded = excluded])
    /\ Go(c, "refresh")
    /\ UNCHANGED <<Data, Runs, snapshots, edges, requests>>

\* Back to the figure kept, and no longer a person's.
Reset(c, u) ==
    /\ At(c, "open") /\ u \in DOMAIN units
    /\ units[u].original # None
    /\ SetUnit(u, [units[u] EXCEPT !.effort = units[u].original, !.original = None,
                                   !.source = "SYSTEM_CALCULATED"])
    /\ Go(c, "refresh")
    /\ UNCHANGED <<Data, Runs, snapshots, edges, requests>>

AddManual(c, requirement, figure) ==
    /\ At(c, "open") /\ created < MaxUnits
    /\ created' = created + 1
    /\ units' = [u \in DOMAIN units \cup {created'} |->
         IF u = created' THEN NewUnit(Mine(c), requirement, FALSE, figure, "USER_OVERRIDE", "hand")
         ELSE units[u]]
    /\ Go(c, "refresh")
    /\ UNCHANGED <<baseline, stack, timeline, upstream, Runs, snapshots, edges, requests>>

(* Dependencies *)

\* Checked against the links as read ...
CheckDependency(c, from, to) ==
    /\ At(c, "open") /\ {from, to} \subseteq Of(Mine(c)) /\ from # to
    /\ ~HasCycle(Mine(c), EdgesOf(Mine(c)) \cup
          {[estimate |-> Mine(c), from |-> from, to |-> to, userDefined |-> TRUE]})
    /\ proc' = [proc EXCEPT ![c].at = "link", ![c].from = from, ![c].to = to]
    /\ UNCHANGED <<Data, Runs, snapshots, units, edges, requests>>

\* ... and then written.
AddDependency(c) ==
    /\ At(c, "link")
    /\ Cardinality({e \in edges : e.userDefined}) < MaxEdges
    /\ edges' = edges \cup {[estimate |-> Mine(c), from |-> proc[c].from, to |-> proc[c].to,
                             userDefined |-> TRUE]}
    /\ Go(c, "refresh")
    /\ UNCHANGED <<Data, Runs, snapshots, units, requests>>

RemoveDependency(c, e) ==
    /\ At(c, "open") /\ e \in edges
    /\ edges' = edges \ {e}
    /\ Go(c, "refresh")
    /\ UNCHANGED <<Data, Runs, snapshots, units, requests>>

(* Calendar, team and existing system: a versioned write, whose loss is not noticed *)

SetPlan(c, team) ==
    /\ At(c, "open")
    /\ snapshots' = IF CanUpdate(snapshots, proc[c].row, proc[c].expected)
                    THEN [snapshots EXCEPT ![proc[c].row] = [Written(@) EXCEPT !.team = team]]
                    ELSE snapshots
    /\ Go(c, "refresh")
    /\ UNCHANGED <<Data, Runs, units, edges, requests>>

\* recalculate: the current snapshot is assembled ...
Refresh(c) ==
    /\ At(c, "refresh")
    /\ \E s \in IF Currents(snapshots) = {} THEN {proc[c].row} ELSE Currents(snapshots) :
         proc' = [proc EXCEPT ![c].at = "store", ![c].row = IF proc[c].inRun THEN @ ELSE s,
                    ![c].from = s, ![c].expected = snapshots[s].recordVersion,
                    ![c].verdict = Feasibility(snapshots[s]),
                    ![c].next = IF snapshots[s].status \in {"APPROVED", "OUTDATED", "SUPERSEDED"}
                                THEN snapshots[s].status
                                ELSE IF Blockers(snapshots[s]) = {} THEN "READY_FOR_APPROVAL"
                                ELSE "REVIEW_REQUIRED"]
    /\ UNCHANGED <<Data, Runs, snapshots, units, edges, requests>>

\* ... and stored, if nobody has written it meanwhile.
Store(c) ==
    /\ At(c, "store")
    /\ snapshots' = IF CanUpdate(snapshots, proc[c].from, proc[c].expected)
                    THEN [snapshots EXCEPT ![proc[c].from] =
                            [Written(@) EXCEPT !.status = proc[c].next,
                                               !.feasibility = proc[c].verdict]]
                    ELSE snapshots
    /\ IF proc[c].inRun THEN Go(c, "done") ELSE Return(c)
    /\ UNCHANGED <<Data, Runs, units, edges, requests>>

-----------------------------------------------------------------------------
(* A run *)

\* No run is stored as running, and what a run needs is there.
RunRead(c) ==
    /\ At(c, "open")
    /\ running = {} /\ ~stuck
    /\ baseline.version # 0 /\ stack # 0
    /\ \E ai \in BOOLEAN :
         proc' = [proc EXCEPT ![c].at = "run", ![c].ai = ai, ![c].inRun = TRUE]
    /\ UNCHANGED <<Data, Runs, snapshots, units, edges, requests>>

CreateRun(c) ==
    /\ At(c, "run")
    /\ running' = running \cup {c}
    /\ Go(c, "answer")
    /\ UNCHANGED <<Data, stuck, snapshots, units, edges, requests>>

AnswerFails(c) ==
    /\ At(c, "answer") /\ proc[c].ai
    /\ running' = running \ {c}
    /\ Return(c)
    /\ UNCHANGED <<Data, stuck, snapshots, units, edges, requests>>

\* generate looks again for what it needs; if it is gone, the error leaves the run as it is.
Generate(c) ==
    /\ At(c, "answer")
    /\ IF baseline.version # 0 /\ stack # 0
       THEN /\ proc' = [proc EXCEPT ![c].at = "generate", ![c].wanted = baseline.requirements]
            /\ UNCHANGED Runs
       ELSE /\ Return(c)
            /\ running' = running \ {c} /\ stuck' = TRUE
    /\ UNCHANGED <<Data, snapshots, units, edges, requests>>

\* The lines to keep are read ...
ReadPreserved(c) ==
    /\ At(c, "generate")
    /\ proc' = [proc EXCEPT ![c].at = "units",
         ![c].claimed = {<<u, units[u].requirement>> : u \in {v \in Of(Mine(c)) : IsUserAuthored(units[v])}}]
    /\ UNCHANGED <<Data, Runs, snapshots, units, edges, requests>>

\* ... and the others deleted: those that are not a person's now.
ReplaceableAsRead(c) == Of(Mine(c)) \ {k[1] : k \in proc[c].claimed} \* faulty: by the reading
Replaceable(c) == {u \in Of(Mine(c)) : ~IsUserAuthored(units[u])}

DeleteUnits(c) ==
    /\ At(c, "units")
    /\ units' = [u \in DOMAIN units \ Replaceable(c) |-> units[u]]
    /\ Go(c, "edges")
    /\ UNCHANGED <<Data, Runs, snapshots, edges, requests>>

DeleteEdges(c) ==
    /\ At(c, "edges")
    /\ edges' = {e \in edges : e.estimate = Mine(c) => e.userDefined}
    /\ Go(c, "insert")
    /\ UNCHANGED <<Data, Runs, snapshots, units, requests>>

\* A line for every requirement no kept line claims, and the overhead sized from them.
InsertUnits(c) ==
    LET wanted == proc[c].wanted \ {k[2] : k \in proc[c].claimed}
        number == CHOOSE f \in [wanted -> created + 1 .. created + Cardinality(wanted)] :
                    \A x, y \in wanted : x # y => f[x] # f[y]
        overhead == created + Cardinality(wanted) + 1
        source == IF proc[c].ai THEN "AI_PROPOSED" ELSE "SYSTEM_CALCULATED"
        new == {number[r] : r \in wanted} \cup {overhead}
    IN  /\ At(c, "insert")
        /\ overhead <= MaxUnits
        /\ created' = overhead
        /\ units' = [u \in DOMAIN units \cup new |->
             IF u = overhead
             THEN NewUnit(Mine(c), NoRequirement, TRUE, Calculated, "SYSTEM_CALCULATED", "calculated")
             ELSE IF u \in new
             THEN NewUnit(Mine(c), CHOOSE r \in wanted : number[r] = u, FALSE, Calculated, source,
                          "calculated")
             ELSE units[u]]
        /\ Go(c, "infer")
        /\ UNCHANGED <<baseline, stack, timeline, upstream, Runs, snapshots, edges, requests>>

\* generateDependencies: every feature waits for the foundation.
InferDependencies(c) ==
    /\ At(c, "infer")
    /\ edges' = edges \cup
         UNION {{[estimate |-> Mine(c), from |-> o, to |-> f, userDefined |-> FALSE] :
                   f \in {u \in Of(Mine(c)) : ~units[u].overhead /\
                            ~\E e \in EdgesOf(Mine(c)) : e.from = o /\ e.to = u}} :
                o \in {u \in Of(Mine(c)) : units[u].overhead}}
    /\ Go(c, "refresh")
    /\ UNCHANGED <<Data, Runs, snapshots, units, requests>>

EndRun(c) ==
    /\ At(c, "done")
    /\ running' = running \ {c}
    /\ Return(c)
    /\ UNCHANGED <<Data, stuck, snapshots, units, edges, requests>>

-----------------------------------------------------------------------------
(* Acknowledging, approving and reopening *)

\* What was assembled is what is acknowledged, if the row has not changed.
ReadRisk(c) ==
    /\ At(c, "open")
    /\ Feasibility(snapshots[proc[c].row]) \in NeedsAcknowledgement
    /\ proc' = [proc EXCEPT ![c].at = "acknowledge", ![c].verdict = Feasibility(snapshots[proc[c].row])]
    /\ UNCHANGED <<Data, Runs, snapshots, units, edges, requests>>

Acknowledge(c) ==
    /\ At(c, "acknowledge")
    /\ snapshots' = IF CanUpdate(snapshots, proc[c].row, proc[c].expected)
                    THEN [snapshots EXCEPT ![proc[c].row] =
                            [Written(@) EXCEPT !.acknowledged = proc[c].verdict]]
                    ELSE snapshots
    /\ Return(c)
    /\ UNCHANGED <<Data, Runs, units, edges, requests>>

\* recalculateSchedule stores dates, and raises the record version.
RecalculateSchedule(c, s) ==
    /\ Begin(c)
    /\ s \in Currents(snapshots)
    /\ snapshots' = [snapshots EXCEPT ![s] = Written(@)]
    /\ UNCHANGED <<Data, Runs, units, edges, proc>>

Check(c) ==
    /\ Begin(c)
    /\ \E s \in Currents(snapshots) :
         /\ snapshots[s].status # "APPROVED"
         /\ Blockers(snapshots[s]) = {}
         /\ proc' = [proc EXCEPT ![c] = [Idle EXCEPT !.at = "approve", !.row = s,
                       !.expected = snapshots[s].recordVersion,
                       !.verdict = Feasibility(snapshots[s])]]
    /\ UNCHANGED <<Data, Runs, snapshots, units, edges>>

\* Approval stores the plan it checked.
Approve(c) ==
    /\ At(c, "approve")
    /\ snapshots' = IF CanUpdate(snapshots, proc[c].row, proc[c].expected)
                    THEN [snapshots EXCEPT ![proc[c].row] =
                            [Written(@) EXCEPT !.status = "APPROVED", !.feasibility = proc[c].verdict]]
                    ELSE snapshots
    /\ Return(c)
    /\ UNCHANGED <<Data, Runs, units, edges, requests>>

ReopenRead(c) ==
    /\ Begin(c)
    /\ \E s \in Currents(snapshots) :
         /\ snapshots[s].status \in {"APPROVED", "OUTDATED"}
         /\ proc' = [proc EXCEPT ![c] = [Idle EXCEPT !.at = "carry", !.row = s]]
    /\ UNCHANGED <<Data, Runs, snapshots, units, edges>>

\* nextSnapshotVersion, carryUnitsForward and carryDependenciesForward; expected now holds the
\* new number.
CarryForward(c) ==
    LET next == NextVersion(snapshots)
        rank(u) == created + Cardinality({v \in Of(Mine(c)) : v <= u})
        copyOf(n) == CHOOSE u \in Of(Mine(c)) : rank(u) = n
        new == {rank(u) : u \in Of(Mine(c))}
    IN  /\ At(c, "carry")
        /\ next <= MaxVersions /\ created + Cardinality(new) <= MaxUnits
        /\ created' = created + Cardinality(new)
        /\ units' = [n \in DOMAIN units \cup new |->
             IF n \in new
             THEN [units[copyOf(n)] EXCEPT !.estimate = next, !.recordVersion = 0]
             ELSE units[n]]
        /\ edges' = edges \cup
             {[e EXCEPT !.estimate = next, !.from = rank(e.from), !.to = rank(e.to)] :
                e \in {d \in EdgesOf(Mine(c)) : {d.from, d.to} \subseteq Of(Mine(c))}}
        /\ proc' = [proc EXCEPT ![c].at = "copy", ![c].expected = next]
        /\ UNCHANGED <<baseline, stack, timeline, upstream, Runs, snapshots, requests>>

\* The copy stands on the baseline and the stack the old version stood on.
CreateCopy(c) ==
    /\ At(c, "copy")
    /\ snapshots' = Append(snapshots,
         [snapshots[proc[c].row] EXCEPT !.version = proc[c].expected, !.status = "DRAFT",
            !.recordVersion = 0, !.feasibility = FeasibilityOf(EmptyTeam, {}),
            !.acknowledged = None])
    /\ Go(c, "retire")
    /\ UNCHANGED <<Data, Runs, units, edges, requests>>

Retire(c) ==
    /\ At(c, "retire")
    /\ snapshots' = Superseded(snapshots, proc[c].expected)
    /\ Return(c)
    /\ UNCHANGED <<Data, Runs, units, edges, requests>>

-----------------------------------------------------------------------------
Step(c) ==
    \/ CreateInitial(c) \/ Refuse(c)
    \/ AddDependency(c)
    \/ Refresh(c) \/ Store(c)
    \/ CreateRun(c) \/ AnswerFails(c) \/ Generate(c) \/ ReadPreserved(c) \/ DeleteUnits(c)
    \/ DeleteEdges(c) \/ InsertUnits(c) \/ InferDependencies(c) \/ EndRun(c)
    \/ Acknowledge(c) \/ Approve(c)
    \/ CarryForward(c) \/ CreateCopy(c) \/ Retire(c)

Request(c) ==
    \/ Arrive(c) \/ OpenEditable(c)
    \/ \E u \in DOMAIN units :
         \/ \E figure \in Figures, excluded \in BOOLEAN : Override(c, u, figure, excluded)
         \/ Reset(c, u)
         \/ \E v \in DOMAIN units : CheckDependency(c, u, v)
    \/ \E r \in Requirements \cup {NoRequirement}, figure \in Figures : AddManual(c, r, figure)
    \/ \E e \in edges : RemoveDependency(c, e)
    \/ \E team \in Teams : SetPlan(c, team)
    \/ RunRead(c) \/ ReadRisk(c)
    \/ \E s \in DOMAIN snapshots : RecalculateSchedule(c, s)
    \/ Check(c) \/ ReopenRead(c)

Next == ChangeUpstream \/ \E c \in Clients : Request(c) \/ Step(c)

Spec == Init /\ [][Next]_vars

-----------------------------------------------------------------------------
(* Properties *)

(***************************************************************************)
(* Records keep their shape, and the figure kept for resetting a           *)
(* calculated line is the calculated one, however often the line is        *)
(* overridden, carried to a new version and reset.                         *)
(***************************************************************************)
TypeInv ==
    /\ baseline \in [version : 0 .. MaxUpstream + 1, current : BOOLEAN,
                     requirements : SUBSET Requirements]
    /\ stack \in 0 .. MaxUpstream + 1
    /\ \A s \in DOMAIN snapshots : snapshots[s] \in Snapshot
    /\ DOMAIN units \subseteq 1 .. created /\ created <= MaxUnits
    /\ \A u \in DOMAIN units : units[u] \in Unit
    /\ \A u \in DOMAIN units : units[u].origin = "calculated" =>
          /\ units[u].original \in {None, Calculated}
          /\ ~IsUserAuthored(units[u]) => units[u].effort = Calculated
    /\ edges \subseteq Edge
    /\ running \subseteq Clients /\ stuck \in BOOLEAN
    /\ \A c \in Clients : proc[c].at \in Stages

(***************************************************************************)
(* A user override survives everything: a run that read the lines before a *)
(* person set a figure does not delete that line when it clears its own    *)
(* (deleteReplaceableUnits filters, not the run).                          *)
(***************************************************************************)
OverridesSurvive ==
    [][\A u \in DOMAIN units :
         IsUserAuthored(units[u]) => u \in DOMAIN units']_units

(***************************************************************************)
(* A plan at risk is approved only by people who accepted that very        *)
(* verdict: not a milder one, however the plan changes between the         *)
(* acknowledgement, the check and the approval. (A version retired by a    *)
(* reopening is left out: a recalculation that read it before may store    *)
(* APPROVED in it again, since supersedeSnapshots leaves recordVersion.)   *)
(***************************************************************************)
ApprovedWithEyesOpen ==
    [][\A s \in DOMAIN snapshots :
         snapshots'[s].status = "APPROVED" /\ snapshots[s].status \notin {"APPROVED", "SUPERSEDED"}
           /\ snapshots'[s].feasibility \in NeedsAcknowledgement
         => snapshots'[s].acknowledged = snapshots'[s].feasibility]_snapshots

-----------------------------------------------------------------------------
(* What a comment says, and the code does not do *)

(***************************************************************************)
(* A hand-written line is the user's from the moment it exists, so a later *)
(* re-estimation leaves it alone.                                          *)
(***************************************************************************)
ManualLinesStay ==
    [][\A u \in DOMAIN units :
         units[u].origin = "hand" => u \in DOMAIN units']_units
=============================================================================
