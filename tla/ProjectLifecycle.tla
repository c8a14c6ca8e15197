-------------------------- MODULE ProjectLifecycle --------------------------
(***************************************************************************)
(* Projects from creation to purge: clients with a session, their handlers *)
(* (one step per awaited operation), and the retention sweep, which the    *)
(* timer and the operator may run at the same time. Content is whatever    *)
(* the other services keep of a project: documents in the purgeable        *)
(* collections, and stored files.                                          *)
(***************************************************************************)
EXTENDS ProjectStore, FiniteSets, Sequences

CONSTANTS
    Project, Client, Sweeper,
    PurgeableCollections,  \* a sequence: the order the purge goes through them
    BatchSize,             \* projects per phase of a sweep
    Days,                  \* the days a client may choose as a deadline or start
    Absent, Idle, NoSession,
    MaxTime, MaxVersion, MaxContentWrites, MaxFaults  \* bounds

ASSUME LifecycleAssumption ==
    /\ BatchSize \in Nat \ {0}
    /\ MaxTime \in Nat /\ MaxVersion \in Nat /\ MaxContentWrites \in Nat /\ MaxFaults \in Nat
    /\ Days \subseteq Nat /\ Absent \notin ProjectRecord /\ NoSession \notin Project
    /\ IsFiniteSet(Project)
    /\ PurgeableCollections \in Seq({PurgeableCollections[i] : i \in DOMAIN PurgeableCollections})

Storage == "storage"
Collection == {PurgeableCollections[i] : i \in DOMAIN PurgeableCollections}
Place == Collection \cup {Storage}
Date == Days \cup {NoDate}

Handler ==
    [step : {"compare", "read", "write", "softDelete", "issue", "markExpired", "content"},
     project : Project, section : Section, value : Day, version : Nat, status : ProjectStatus]
Sweep ==
    [phase : {"expire", "queue", "purge"}, now : 0..MaxTime, todo : Seq(Project),
     next : 1..(Len(PurgeableCollections) + 2)]

ASSUME IdleAssumption == Idle \notin Handler /\ Idle \notin Sweep

VARIABLES
    clock, projects,
    content,    \* content[p]: the places that hold something of p
    late,       \* projects something was stored for after their deletion
    session,    \* session[c]: the project of c's cookie, or NoSession
    request, sweep,
    writes, faults

vars == <<clock, projects, content, late, session, request, sweep, writes, faults>>

\* Records keep their shape, and a project's deadline is never before its start, whoever set which
\* of them when. (each handler compares with a read made two operations before its write)
TypeInv ==
    /\ clock \in 0..MaxTime
    /\ projects \in [Project -> ProjectRecord \cup {Absent}]
    /\ \A p \in Project :
         projects[p] # Absent => DatesAgree(projects[p].deadline, projects[p].startDate)
    /\ content \in [Project -> SUBSET Place]
    /\ late \subseteq Project
    /\ session \in [Client -> Project \cup {NoSession}]
    /\ request \in [Client -> Handler \cup {Idle}]
    /\ sweep \in [Sweeper -> Sweep \cup {Idle}]
    /\ writes \in 0..MaxContentWrites /\ faults \in 0..MaxFaults

Init ==
    /\ clock = 0
    /\ projects = [p \in Project |-> Absent]
    /\ content = [p \in Project |-> {}]
    /\ late = {}
    /\ session = [c \in Client |-> NoSession]
    /\ request = [c \in Client |-> Idle]
    /\ sweep = [s \in Sweeper |-> Idle]
    /\ writes = 0 /\ faults = 0

Exists(p) == projects[p] # Absent
WriteProject(p, record) == projects' = [projects EXCEPT ![p] = record]

-----------------------------------------------------------------------------
(* Handlers *)

\* ProjectSessionGuard: the cookie alone, without a look at the project.
Admitted(c, p) == request[c] = Idle /\ session[c] = p
Issue(c, p) == session' = [session EXCEPT ![c] = p]
ClearSession(c) == session' = [session EXCEPT ![c] = NoSession]

At(c, step) == request[c] # Idle /\ request[c].step = step
Begin(c, p, step, section, value, version) ==
    request' = [request EXCEPT ![c] =
        [step |-> step, project |-> p, section |-> section, value |-> value,
         version |-> version, status |-> "DRAFT"]]
Goto(c, step, status) ==
    request' = [request EXCEPT ![c].step = step, ![c].status = status]
Done(c) == request' = [request EXCEPT ![c] = Idle]

CreateProject(c, p) ==
    /\ request[c] = Idle /\ ~Exists(p)
    /\ WriteProject(p, NewProject(clock))
    /\ Issue(c, p)
    /\ UNCHANGED <<clock, content, late, request, sweep, writes, faults>>

\* The user leaves, or the session's time is up.
EndSession(c) ==
    /\ request[c] = Idle /\ session[c] # NoSession
    /\ ClearSession(c)
    /\ UNCHANGED <<clock, projects, content, late, request, sweep, writes, faults>>

\* An update of details, capacity or preferences, or of the branding. The client
\* sends the version it has read; one already stale fares as one that becomes so.
UpdateSection(c, p) ==
    /\ Admitted(c, p) /\ Exists(p) /\ projects[p].version < MaxVersion
    /\ \E section \in {"details", "branding"} :
          Begin(c, p, "read", section, NoDate, projects[p].version)
    /\ UNCHANGED <<clock, projects, content, late, session, sweep, writes, faults>>

UpdateTimeline(c, p) ==
    /\ Admitted(c, p) /\ Exists(p) /\ projects[p].version < MaxVersion
    /\ \E deadline \in Date :
          /\ DeadlineIsAhead(deadline, clock)
          /\ Begin(c, p, "compare", "timeline", deadline, projects[p].version)
    /\ UNCHANGED <<clock, projects, content, late, session, sweep, writes, faults>>

UpdateStartDate(c, p) ==
    /\ Admitted(c, p) /\ Exists(p) /\ projects[p].version < MaxVersion
    /\ \E startDate \in Date :
          Begin(c, p, "compare", "startDate", startDate, projects[p].version)
    /\ UNCHANGED <<clock, projects, content, late, session, sweep, writes, faults>>

\* rejectContradictoryDates: the other date is read here and written nowhere.
CompareDates(c) ==
    /\ At(c, "compare")
    /\ LET h == request[c]
           record == projects[h.project]
           agree == IF h.section = "timeline" THEN DatesAgree(h.value, record.startDate)
                    ELSE DatesAgree(record.deadline, h.value)
       IN  IF agree THEN Goto(c, "read", h.status) ELSE Done(c)
    /\ UNCHANGED <<clock, projects, content, late, session, sweep, writes, faults>>

\* applyUpdate: whether the project may be written is decided here, ...
ReadForUpdate(c) ==
    /\ At(c, "read")
    /\ LET record == projects[request[c].project]
       IN  IF CanWrite(record, clock) THEN Goto(c, "write", record.status) ELSE Done(c)
    /\ UNCHANGED <<clock, projects, content, late, session, sweep, writes, faults>>

\* ... and only the version is looked at again.
UpdateWithVersion(c) ==
    /\ At(c, "write")
    /\ LET h == request[c] record == projects[h.project]
       IN  WriteProject(h.project,
               IF record.version = h.version
               THEN Edited(record, h.section, h.value, h.status) ELSE record)
    /\ Done(c)
    /\ UNCHANGED <<clock, content, late, session, sweep, writes, faults>>

\* deleteProject: a project already deleted is reported as a success.
DeleteProject(c, p) ==
    /\ Admitted(c, p) /\ Exists(p)
    /\ IF IsDeleted(projects[p].status)
       THEN ClearSession(c) /\ UNCHANGED request
       ELSE Begin(c, p, "softDelete", "details", NoDate, projects[p].version) /\ UNCHANGED session
    /\ UNCHANGED <<clock, projects, content, late, sweep, writes, faults>>

SoftDelete(c) ==
    /\ At(c, "softDelete")
    /\ LET h == request[c] record == projects[h.project]
       IN  IF record.version = h.version
           THEN WriteProject(h.project, SoftDeleted(record, clock)) /\ ClearSession(c)
           ELSE UNCHANGED <<projects, session>>
    /\ Done(c)
    /\ UNCHANGED <<clock, content, late, sweep, writes, faults>>

\* verifyRecoverySecret, with the right secret.
VerifyRecoverySecret(c, p) ==
    /\ request[c] = Idle /\ Exists(p)
    /\ LET status == EffectiveStatus(projects[p], clock)
       IN  /\ ~IsDeleted(status)
           /\ Begin(c, p, IF status = "EXPIRED" THEN "markExpired" ELSE "issue", "details", NoDate, 0)
    /\ UNCHANGED <<clock, projects, content, late, session, sweep, writes, faults>>

MarkExpired(c) ==
    /\ At(c, "markExpired")
    /\ WriteProject(request[c].project, MarkedExpired(projects[request[c].project]))
    /\ Done(c)
    /\ UNCHANGED <<clock, content, late, session, sweep, writes, faults>>

IssueSession(c) ==
    /\ At(c, "issue")
    /\ Issue(c, request[c].project) /\ Done(c)
    /\ UNCHANGED <<clock, projects, content, late, sweep, writes, faults>>

\* Any handler of another service: admitted by its session, it stores something.
BeginContent(c, p) ==
    /\ Admitted(c, p) /\ writes < MaxContentWrites
    /\ Begin(c, p, "content", "details", NoDate, 0)
    /\ UNCHANGED <<clock, projects, content, late, session, sweep, writes, faults>>

StoreContent(c) ==
    /\ At(c, "content") /\ writes < MaxContentWrites
    /\ LET p == request[c].project
       IN  /\ \E place \in Place : content' = [content EXCEPT ![p] = @ \cup {place}]
           /\ late' = IF IsDeleted(projects[p].status) THEN late \cup {p} ELSE late
    /\ writes' = writes + 1
    /\ Done(c)
    /\ UNCHANGED <<clock, projects, session, sweep, faults>>

-----------------------------------------------------------------------------
(* The retention sweep *)

\* The first BatchSize of S, the oldest first.
Batches(S, Timestamp(_)) ==
    LET n == IF Cardinality(S) < BatchSize THEN Cardinality(S) ELSE BatchSize
    IN  {b \in [1..n -> S] :
            /\ \A i, j \in 1..n : i < j => b[i] # b[j] /\ Timestamp(b[i]) <= Timestamp(b[j])
            /\ \A p \in S, i \in 1..n :
                  p \in {b[j] : j \in 1..n} \/ Timestamp(b[i]) <= Timestamp(p)}

ExpiresAt(p) == projects[p].expiresAt
RequestedAt(p) == projects[p].deletionRequestedAt

In(s, phase) == sweep[s] # Idle /\ sweep[s].phase = phase
Working(s, phase) == In(s, phase) /\ sweep[s].todo # <<>>
Finished(s, phase) == In(s, phase) /\ sweep[s].todo = <<>>
Enter(s, phase, now, todo) ==
    sweep' = [sweep EXCEPT ![s] = [phase |-> phase, now |-> now, todo |-> todo, next |-> 1]]
NextProject(s) == sweep' = [sweep EXCEPT ![s].todo = Tail(@), ![s].next = 1]

\* sweep, and the query of materialiseExpiry.
StartSweep(s) ==
    /\ sweep[s] = Idle
    /\ LET stale == {p \in Project : Exists(p) /\ IsMutable(projects[p].status)
                                               /\ projects[p].expiresAt <= clock}
       IN  \E batch \in Batches(stale, ExpiresAt) : Enter(s, "expire", clock, batch)
    /\ UNCHANGED <<clock, projects, content, late, session, request, writes, faults>>

MaterialiseExpiry(s) ==
    /\ Working(s, "expire")
    /\ LET p == Head(sweep[s].todo)
       IN  WriteProject(p, Transitioned(projects[p], {"DRAFT", "ACTIVE"}, "EXPIRED"))
    /\ NextProject(s)
    /\ UNCHANGED <<clock, content, late, session, request, writes, faults>>

AbandonedCandidates(s) ==
    /\ Finished(s, "expire")
    /\ LET due == {p \in Project : Exists(p) /\ IsAbandoned(projects[p], sweep[s].now)}
       IN  \E batch \in Batches(due, ExpiresAt) : Enter(s, "queue", sweep[s].now, batch)
    /\ UNCHANGED <<clock, projects, content, late, session, request, writes, faults>>

QueueForDeletion(s) ==
    /\ Working(s, "queue")
    /\ LET p == Head(sweep[s].todo)
           queued == Transitioned(projects[p], {"EXPIRED"}, "DELETION_PENDING")
       IN  WriteProject(p, IF queued = projects[p] THEN queued
                           ELSE [queued EXCEPT !.deletionRequestedAt = sweep[s].now])
    /\ NextProject(s)
    /\ UNCHANGED <<clock, content, late, session, request, writes, faults>>

PurgeNaturalOrder(s) == \* faulty: a batch in natural order, filtered afterwards
    /\ Finished(s, "queue")
    /\ LET pending == {p \in Project : Exists(p) /\ projects[p].status \in {"DELETION_PENDING", "DELETED"}}
           first == CHOOSE p \in pending : TRUE
       IN  Enter(s, "purge", sweep[s].now,
                 IF pending # {} /\ IsPurgeEligible(projects[first], sweep[s].now)
                 THEN <<first>> ELSE <<>>)
    /\ UNCHANGED <<clock, projects, content, late, session, request, writes, faults>>

PurgeCandidates(s) ==
    /\ Finished(s, "queue")
    /\ LET due == {p \in Project : Exists(p) /\ IsPurgeEligible(projects[p], sweep[s].now)}
       IN  \E batch \in Batches(due, RequestedAt) : Enter(s, "purge", sweep[s].now, batch)
    /\ UNCHANGED <<clock, projects, content, late, session, request, writes, faults>>

\* purge: one deleteMany after the other, ...
PurgeCollection(s) ==
    /\ Working(s, "purge") /\ sweep[s].next <= Len(PurgeableCollections)
    /\ content' = [content EXCEPT
                     ![Head(sweep[s].todo)] = @ \ {PurgeableCollections[sweep[s].next]}]
    /\ sweep' = [sweep EXCEPT ![s].next = @ + 1]
    /\ UNCHANGED <<clock, projects, late, session, request, writes, faults>>

PurgeStorageAgain(s) == \* faulty: not only after the last collection
    /\ Working(s, "purge") /\ sweep[s].next > Len(PurgeableCollections)
    /\ content' = [content EXCEPT ![Head(sweep[s].todo)] = @ \ {Storage}]
    /\ sweep' = [sweep EXCEPT ![s].next = @ + 1]
    /\ UNCHANGED <<clock, projects, late, session, request, writes, faults>>

\* ... then the stored files, whose failure is only logged, ...
PurgeStorage(s) ==
    /\ Working(s, "purge") /\ sweep[s].next = Len(PurgeableCollections) + 1
    /\ \/ /\ content' = [content EXCEPT ![Head(sweep[s].todo)] = @ \ {Storage}]
          /\ UNCHANGED faults
       \/ /\ faults < MaxFaults /\ faults' = faults + 1
          /\ UNCHANGED content
    /\ sweep' = [sweep EXCEPT ![s].next = @ + 1]
    /\ UNCHANGED <<clock, projects, late, session, request, writes>>

FinishPurgeEarly(s) == \* faulty: without the stored files
    /\ Working(s, "purge") /\ sweep[s].next = Len(PurgeableCollections) + 1
    /\ LET p == Head(sweep[s].todo)
       IN  WriteProject(p, Transitioned(projects[p], {"DELETION_PENDING"}, "DELETED"))
    /\ NextProject(s)
    /\ UNCHANGED <<clock, content, late, session, request, writes, faults>>

\* ... and then the record.
FinishPurge(s) ==
    /\ Working(s, "purge") /\ sweep[s].next = Len(PurgeableCollections) + 2
    /\ LET p == Head(sweep[s].todo)
       IN  WriteProject(p, Transitioned(projects[p], {"DELETION_PENDING"}, "DELETED"))
    /\ NextProject(s)
    /\ UNCHANGED <<clock, content, late, session, request, writes, faults>>

EndSweep(s) ==
    /\ Finished(s, "purge")
    /\ sweep' = [sweep EXCEPT ![s] = Idle]
    /\ UNCHANGED <<clock, projects, content, late, session, request, writes, faults>>

\* An operation of the sweep throws: a project's is caught in the loops of the
\* second and third phase, and ends the sweep in the first.
SweepStumbles(s) ==
    /\ faults < MaxFaults /\ sweep[s] # Idle /\ sweep[s].todo # <<>>
    /\ IF In(s, "expire") THEN sweep' = [sweep EXCEPT ![s] = Idle] ELSE NextProject(s)
    /\ faults' = faults + 1
    /\ UNCHANGED <<clock, projects, content, late, session, request, writes>>

\* The process goes down with its sweep and its handlers.
Crash ==
    /\ faults < MaxFaults /\ faults' = faults + 1
    /\ request' = [c \in Client |-> Idle]
    /\ sweep' = [s \in Sweeper |-> Idle]
    /\ UNCHANGED <<clock, projects, content, late, session, writes>>

Tick ==
    /\ clock < MaxTime /\ clock' = clock + 1
    /\ UNCHANGED <<projects, content, late, session, request, sweep, writes, faults>>

-----------------------------------------------------------------------------
Ask(c) ==
    \/ EndSession(c)
    \/ \E p \in Project :
          \/ CreateProject(c, p) \/ VerifyRecoverySecret(c, p)
          \/ UpdateSection(c, p) \/ UpdateTimeline(c, p) \/ UpdateStartDate(c, p)
          \/ DeleteProject(c, p) \/ BeginContent(c, p)

Handle(c) ==
    \/ CompareDates(c) \/ ReadForUpdate(c) \/ UpdateWithVersion(c)
    \/ SoftDelete(c) \/ MarkExpired(c) \/ IssueSession(c) \/ StoreContent(c)

SweepStep(s) ==
    \/ MaterialiseExpiry(s) \/ AbandonedCandidates(s) \/ QueueForDeletion(s)
    \/ PurgeCandidates(s) \/ PurgeCollection(s) \/ PurgeStorage(s) \/ FinishPurge(s)
    \/ EndSweep(s)

Next ==
    \/ \E c \in Client : Ask(c) \/ Handle(c)
    \/ \E s \in Sweeper : StartSweep(s) \/ SweepStep(s) \/ SweepStumbles(s)
    \/ Crash \/ Tick

Spec == Init /\ [][Next]_vars

\* The timer re-arms itself after every sweep, a sweep's operations return, and
\* time passes. Nothing is assumed of clients.
Fairness ==
    /\ \A s \in Sweeper : WF_vars(StartSweep(s)) /\ WF_vars(SweepStep(s))
    /\ WF_vars(Tick)

FairSpec == Spec /\ Fairness

-----------------------------------------------------------------------------
(* Properties *)

\* A deletion, requested or decided by the sweep, is never undone, and a purged
\* project stays purged. (an edit decides by a status it read earlier)
DeletionIsFinal ==
    [][\A p \in Project : Exists(p) /\ IsDeleted(projects[p].status) =>
          \/ projects'[p].status = projects[p].status
          \/ projects'[p].status = "DELETED"]_vars

\* Content goes only from a project whose deletion has been pending for the whole
\* grace period. (sweeps act on candidates and a time they read earlier)
NothingPurgedEarly ==
    [][\A p \in Project : content[p] \subseteq content'[p] \/
          /\ projects[p].status \in {"DELETION_PENDING", "DELETED"}
          /\ projects[p].deletionRequestedAt + DeletionGraceDays <= clock]_vars

\* Unless an operation failed or something was stored after the deletion, nothing
\* of a purged project is left. (the status must come last, and every place first)
PurgedIsEmpty ==
    faults = 0 => \A p \in Project \ late :
        Exists(p) /\ projects[p].status = "DELETED" => content[p] = {}

\* What is due before the end of time is done, even with more projects than a batch
\* holds: an expired project's deletion is decided, and a deletion is carried out.
\* (the queries pick what is due; they must not be kept busy by what is not)
EveryProjectEnds ==
    \A p \in Project :
        /\ (Exists(p) /\ projects[p].expiresAt + ExpiredGraceDays <= MaxTime)
               ~> (Exists(p) /\ IsDeleted(projects[p].status))
        /\ (Exists(p) /\ IsPurgeEligible(projects[p], MaxTime))
               ~> (Exists(p) /\ projects[p].status = "DELETED")

-----------------------------------------------------------------------------
(* What the documentation says, and the code does not do *)

\* "a deleted or expired project makes outstanding cookies useless immediately"
\* (docs/architecture/anonymous-access-threat-model.md:42): no handler is let in
\* with a cookie to store something for such a project.
SessionsEndWithTheProject ==
    [][\A c \in Client : request[c] = Idle /\ request'[c] # Idle /\ request'[c].step = "content" =>
          CanWrite(projects[session[c]], clock)]_vars
=============================================================================
