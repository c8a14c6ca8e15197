----------------------- MODULE ProjectLifecycle_proofs -----------------------
(***************************************************************************)
(* What holds of every number of projects, clients, sweeps and days. The   *)
(* invariant says that every decision that waits for a later operation is  *)
(* still right when the operation comes: what a handler read holds for as  *)
(* long as the version it compares is the record's (ReadsHold), what a     *)
(* sweep picked stays due (Due), and a purge under way has emptied the     *)
(* places before the one it is at (Emptied).                               *)
(***************************************************************************)
EXTENDS ProjectLifecycle, FiniteSetTheorems, TLAPS

(* What the updates of ProjectStore make of a record *)

LEMMA NewProjectFacts ==
    ASSUME NEW now \in Nat
    PROVE  /\ NewProject(now) \in ProjectRecord
           /\ DatesAgree(NewProject(now).deadline, NewProject(now).startDate)
  BY PolicyAssumption DEF NewProject, ProjectRecord, ProjectStatus, Day, DatesAgree

\* An edit counts the version up, leaves a status somebody may edit in, and sets at most the
\* date it is about.
LEMMA EditedFacts ==
    ASSUME NEW r \in ProjectRecord, NEW section \in Section, NEW value \in Day,
           NEW status \in ProjectStatus, IsMutable(status)
    PROVE  LET e == Edited(r, section, value, status)
           IN  /\ e \in ProjectRecord
               /\ e.version = r.version + 1
               /\ IsMutable(e.status)
               /\ e.deletionRequestedAt = r.deletionRequestedAt
               /\ e.deadline = IF section = "timeline" THEN value ELSE r.deadline
               /\ e.startDate = IF section = "startDate" THEN value ELSE r.startDate
  <1> DEFINE new == IF section = "branding" THEN status ELSE StatusAfterEdit(status)
             bumped == [r EXCEPT !.version = @ + 1, !.status = new]
  <1>1. new \in ProjectStatus /\ IsMutable(new)
    BY DEF StatusAfterEdit, ProjectStatus, IsMutable
  <1>2. /\ bumped \in ProjectRecord
        /\ bumped.version = r.version + 1 /\ bumped.status = new
        /\ bumped.deletionRequestedAt = r.deletionRequestedAt
        /\ bumped.deadline = r.deadline /\ bumped.startDate = r.startDate
    <2> HIDE DEF new
    <2>1. r.version + 1 \in Nat
      BY DEF ProjectRecord
    <2>2. QED  BY <1>1, <2>1 DEF ProjectRecord
  <1>3. Edited(r, section, value, status) =
          CASE section = "timeline"  -> [bumped EXCEPT !.deadline = value]
            [] section = "startDate" -> [bumped EXCEPT !.startDate = value]
            [] OTHER                 -> bumped
    BY DEF Edited
  <1> HIDE DEF bumped
  <1>4. QED  BY <1>1, <1>2, <1>3 DEF ProjectRecord

LEMMA SoftDeletedFacts ==
    ASSUME NEW r \in ProjectRecord, NEW now \in Nat
    PROVE  LET d == SoftDeleted(r, now)
           IN  /\ d \in ProjectRecord
               /\ d.version = r.version + 1
               /\ d.status = "DELETION_PENDING" /\ d.deletionRequestedAt = now
               /\ d.deadline = r.deadline /\ d.startDate = r.startDate
  <1>1. r.version + 1 \in Nat
    BY DEF ProjectRecord
  <1>2. QED  BY <1>1 DEF SoftDeleted, ProjectRecord, ProjectStatus, Day

LEMMA MarkedExpiredFacts ==
    ASSUME NEW r \in ProjectRecord
    PROVE  LET m == MarkedExpired(r)
           IN  /\ m \in ProjectRecord
               /\ m = r \/ (IsMutable(r.status) /\ m = [r EXCEPT !.status = "EXPIRED"])
  BY DEF MarkedExpired, ProjectRecord, ProjectStatus, IsMutable

LEMMA TransitionedFacts ==
    ASSUME NEW r \in ProjectRecord, NEW from, NEW to \in ProjectStatus
    PROVE  LET m == Transitioned(r, from, to)
           IN  /\ m \in ProjectRecord
               /\ r.status \notin from => m = r
               /\ r.status \in from => /\ m.version = r.version + 1 /\ m.status = to
                                       /\ m.deletionRequestedAt = r.deletionRequestedAt
                                       /\ m.deadline = r.deadline /\ m.startDate = r.startDate
  <1>1. r.version + 1 \in Nat
    BY DEF ProjectRecord
  <1>2. QED  BY <1>1 DEF Transitioned, ProjectRecord

-----------------------------------------------------------------------------
(* The inductive invariant *)

\* Whoever holds on to a project, by a cookie or in a handler, holds on to one that exists, ...
ProjectsExist ==
    /\ \A c \in Client : session[c] # NoSession => Exists(session[c])
    /\ \A c \in Client : request[c] # Idle => Exists(request[c].project)
    /\ \A s \in Sweeper : sweep[s] # Idle =>
          \A i \in 1 .. Len(sweep[s].todo) : Exists(sweep[s].todo[i])

\* ... the version a handler knows is not ahead of the record's, and while it is the record's, what
\* the handler read is still true: nobody has asked for the deletion, and the date it was compared
\* with stands; ...
ReadsHold(h, record) ==
    /\ h.version <= record.version
    /\ h.version = record.version =>
          /\ h.step \in {"write", "softDelete"} => ~IsDeleted(record.status)
          /\ h.step \in {"read", "write"} /\ h.section = "timeline" =>
                DatesAgree(h.value, record.startDate)
          /\ h.step \in {"read", "write"} /\ h.section = "startDate" =>
                DatesAgree(record.deadline, h.value)

\* ... and the status an edit starts from is one it may be made in.
HandlersKeepUp ==
    \A c \in Client : request[c] # Idle =>
        /\ ReadsHold(request[c], projects[request[c].project])
        /\ request[c].step = "write" => IsMutable(request[c].status)

\* What a sweep purges has been waiting for the whole grace period, ...
Due(record, now) ==
    /\ IsDeleted(record.status) /\ record.deletionRequestedAt \in Nat
    /\ record.deletionRequestedAt + DeletionGraceDays <= now

SweepsAreDue ==
    \A s \in Sweeper : sweep[s] # Idle =>
        /\ sweep[s].now <= clock
        /\ sweep[s].phase = "purge" =>
              \A i \in 1 .. Len(sweep[s].todo) : Due(projects[sweep[s].todo[i]], clock)

\* ... and unless something failed or came late, the places it has been through are empty.
Emptied(places, next) ==
    /\ \A i \in 1 .. Len(PurgeableCollections) : i < next => PurgeableCollections[i] \notin places
    /\ next = Len(PurgeableCollections) + 2 => places = {}

PurgesEmpty ==
    \A s \in Sweeper : Working(s, "purge") /\ Head(sweep[s].todo) \notin late =>
        Emptied(content[Head(sweep[s].todo)], sweep[s].next)

IInv ==
    /\ TypeInv /\ ProjectsExist /\ HandlersKeepUp /\ SweepsAreDue
    /\ faults = 0 => PurgesEmpty
    /\ PurgedIsEmpty

-----------------------------------------------------------------------------
(* Helpers *)

LEMMA Bounds ==
    /\ BatchSize \in Nat /\ MaxTime \in Nat /\ MaxVersion \in Nat
    /\ MaxContentWrites \in Nat /\ MaxFaults \in Nat /\ Len(PurgeableCollections) \in Nat
    /\ DOMAIN PurgeableCollections = 1 .. Len(PurgeableCollections)
    /\ Date \subseteq Day
  <1>1. Date \subseteq Day
    BY LifecycleAssumption DEF Date, Day
  <1>2. ASSUME NEW S, PurgeableCollections \in Seq(S)
        PROVE  /\ Len(PurgeableCollections) \in Nat
               /\ DOMAIN PurgeableCollections = 1 .. Len(PurgeableCollections)
    BY <1>2
  <1>3. /\ Len(PurgeableCollections) \in Nat
        /\ DOMAIN PurgeableCollections = 1 .. Len(PurgeableCollections)
    BY <1>2, LifecycleAssumption
  <1>4. QED  BY <1>1, <1>3, LifecycleAssumption

LEMMA ExistingRecord ==
    ASSUME TypeInv, NEW p \in Project
    PROVE  Exists(p) <=> projects[p] \in ProjectRecord
  BY LifecycleAssumption DEF TypeInv, Exists

LEMMA HandlerFacts ==
    ASSUME TypeInv, NEW c \in Client, request[c] # Idle
    PROVE  /\ request[c] \in Handler
           /\ request[c].project \in Project /\ request[c].version \in Nat
           /\ request[c].section \in Section /\ request[c].value \in Day
           /\ request[c].status \in ProjectStatus
  BY DEF TypeInv, Handler

LEMMA SweepFacts ==
    ASSUME TypeInv, NEW s \in Sweeper, sweep[s] # Idle
    PROVE  /\ sweep[s] \in Sweep
           /\ sweep[s].todo \in Seq(Project) /\ sweep[s].now \in 0 .. MaxTime
           /\ sweep[s].next \in 1 .. (Len(PurgeableCollections) + 2)
  BY DEF TypeInv, Sweep

\* The project a sweep is busy with.
LEMMA HeadFacts ==
    ASSUME TypeInv, NEW s \in Sweeper, sweep[s] # Idle, sweep[s].todo # <<>>
    PROVE  /\ Head(sweep[s].todo) \in Project
           /\ Head(sweep[s].todo) = sweep[s].todo[1] /\ 1 \in 1 .. Len(sweep[s].todo)
           /\ Tail(sweep[s].todo) \in Seq(Project)
           /\ Len(Tail(sweep[s].todo)) = Len(sweep[s].todo) - 1
           /\ \A i \in 1 .. Len(Tail(sweep[s].todo)) :
                 /\ Tail(sweep[s].todo)[i] = sweep[s].todo[i + 1]
                 /\ i + 1 \in 1 .. Len(sweep[s].todo)
  BY SweepFacts

LEMMA BeginFacts ==
    ASSUME TypeInv, NEW c \in Client, NEW p \in Project, NEW section \in Section, NEW value \in Day,
           NEW version \in Nat,
           NEW step \in {"compare", "read", "write", "softDelete", "issue", "markExpired", "content"},
           Begin(c, p, step, section, value, version)
    PROVE  /\ request' \in [Client -> Handler \cup {Idle}]
           /\ \A d \in Client : d # c => request'[d] = request[d]
           /\ request'[c] # Idle
           /\ request'[c].step = step /\ request'[c].project = p /\ request'[c].section = section
           /\ request'[c].value = value /\ request'[c].version = version
  <1> DEFINE h == [step |-> step, project |-> p, section |-> section, value |-> value,
                   version |-> version, status |-> "DRAFT"]
  <1>1. h \in Handler
    BY DEF Handler, ProjectStatus
  <1>2. request' = [request EXCEPT ![c] = h]
    BY DEF Begin
  <1>3. h.step = step /\ h.project = p /\ h.section = section /\ h.value = value /\ h.version = version
    OBVIOUS
  <1> HIDE DEF h
  <1>4. QED  BY <1>1, <1>2, <1>3, IdleAssumption DEF TypeInv

LEMMA GotoFacts ==
    ASSUME TypeInv, NEW c \in Client, request[c] # Idle, NEW status \in ProjectStatus,
           NEW step \in {"compare", "read", "write", "softDelete", "issue", "markExpired", "content"},
           Goto(c, step, status)
    PROVE  /\ request' \in [Client -> Handler \cup {Idle}]
           /\ \A d \in Client : d # c => request'[d] = request[d]
           /\ request'[c] # Idle
           /\ request'[c].step = step /\ request'[c].status = status
           /\ request'[c].project = request[c].project /\ request'[c].section = request[c].section
           /\ request'[c].value = request[c].value /\ request'[c].version = request[c].version
  <1> DEFINE h == [request[c] EXCEPT !.step = step, !.status = status]
  <1>1. /\ h \in Handler
        /\ h.step = step /\ h.status = status
        /\ h.project = request[c].project /\ h.section = request[c].section
        /\ h.value = request[c].value /\ h.version = request[c].version
    BY HandlerFacts DEF Handler
  <1>2. request' = [request EXCEPT ![c] = h]
    BY DEF Goto, TypeInv
  <1> HIDE DEF h
  <1>3. QED  BY <1>1, <1>2, IdleAssumption DEF TypeInv

LEMMA DoneFacts ==
    ASSUME TypeInv, NEW c \in Client, Done(c)
    PROVE  /\ request' \in [Client -> Handler \cup {Idle}]
           /\ request'[c] = Idle
           /\ \A d \in Client : d # c => request'[d] = request[d]
  BY DEF Done, TypeInv

LEMMA EnterFacts ==
    ASSUME TypeInv, NEW s \in Sweeper, NEW phase \in {"expire", "queue", "purge"},
           NEW now \in 0 .. MaxTime, NEW todo \in Seq(Project), Enter(s, phase, now, todo)
    PROVE  /\ sweep' \in [Sweeper -> Sweep \cup {Idle}]
           /\ \A z \in Sweeper : z # s => sweep'[z] = sweep[z]
           /\ sweep'[s] # Idle
           /\ sweep'[s].phase = phase /\ sweep'[s].now = now /\ sweep'[s].todo = todo
           /\ sweep'[s].next = 1
  <1> DEFINE b == [phase |-> phase, now |-> now, todo |-> todo, next |-> 1]
  <1>1. b \in Sweep /\ b.phase = phase /\ b.now = now /\ b.todo = todo /\ b.next = 1
    BY Bounds DEF Sweep
  <1>2. sweep' = [sweep EXCEPT ![s] = b]
    BY DEF Enter
  <1> HIDE DEF b
  <1>3. QED  BY <1>1, <1>2, IdleAssumption DEF TypeInv

LEMMA NextProjectFacts ==
    ASSUME TypeInv, NEW s \in Sweeper, sweep[s] # Idle, sweep[s].todo # <<>>, NextProject(s)
    PROVE  /\ sweep' \in [Sweeper -> Sweep \cup {Idle}]
           /\ \A z \in Sweeper : z # s => sweep'[z] = sweep[z]
           /\ sweep'[s] # Idle
           /\ sweep'[s].phase = sweep[s].phase /\ sweep'[s].now = sweep[s].now
           /\ sweep'[s].todo = Tail(sweep[s].todo) /\ sweep'[s].next = 1
  <1> DEFINE b == [sweep[s] EXCEPT !.todo = Tail(@), !.next = 1]
  <1> DEFINE rest == Tail(sweep[s].todo)
  <1>1. rest \in Seq(Project) /\ 1 \in 1 .. (Len(PurgeableCollections) + 2) /\ sweep[s] \in Sweep
    BY Bounds, SweepFacts, HeadFacts
  <1>a. /\ b \in Sweep /\ b.phase = sweep[s].phase /\ b.now = sweep[s].now
        /\ b.todo = Tail(sweep[s].todo) /\ b.next = 1
    <2> HIDE DEF rest
    <2>1. [sweep[s] EXCEPT !.todo = rest, !.next = 1] \in Sweep
      BY <1>1 DEF Sweep
    <2>2. QED  BY <1>1, <2>1 DEF rest, Sweep
  <1>2. sweep' = [sweep EXCEPT ![s] = b]
    BY DEF NextProject, TypeInv
  <1> HIDE DEF b
  <1>3. QED  BY <1>a, <1>2, IdleAssumption DEF TypeInv

\* A batch is a sequence of projects of the query.
LEMMA BatchFacts ==
    ASSUME NEW S \in SUBSET Project,
           NEW b, NEW n, n = (IF Cardinality(S) < BatchSize THEN Cardinality(S) ELSE BatchSize),
           b \in [1 .. n -> S]
    PROVE  b \in Seq(Project) /\ \A i \in 1 .. Len(b) : b[i] \in S
  <1>1. n \in Nat
    BY LifecycleAssumption, FS_Subset, FS_CardinalityType
  <1>2. QED  BY <1>1

-----------------------------------------------------------------------------
(* What a step does to the records *)

Dated(record) == DatesAgree(record.deadline, record.startDate)

\* Dates change, and a deletion is decided, only with the version; a deletion is final, and keeps
\* the day it was decided on.
Succeeds(new, old) ==
    /\ old.version <= new.version
    /\ new.version = old.version =>
          /\ new.deadline = old.deadline /\ new.startDate = old.startDate
          /\ IsDeleted(new.status) <=> IsDeleted(old.status)
    /\ IsDeleted(old.status) =>
          /\ new.status \in {old.status, "DELETED"}
          /\ new.deletionRequestedAt = old.deletionRequestedAt

RecordsStep ==
    /\ projects' \in [Project -> ProjectRecord \cup {Absent}]
    /\ \A p \in Project : projects'[p] # Absent => Dated(projects'[p])
    /\ \A p \in Project : Exists(p) =>
          projects'[p] # Absent /\ Succeeds(projects'[p], projects[p])

LEMMA UnchangedRecords == ASSUME TypeInv, projects' = projects PROVE RecordsStep
  <1>1. ASSUME NEW p \in Project, Exists(p) PROVE Succeeds(projects[p], projects[p])
    BY <1>1, ExistingRecord DEF Succeeds, ProjectRecord
  <1>2. QED  BY <1>1 DEF RecordsStep, TypeInv, Dated, Exists

LEMMA WrittenRecord ==
    ASSUME TypeInv, NEW p \in Project, NEW r \in ProjectRecord, Dated(r),
           Exists(p) => Succeeds(r, projects[p]), WriteProject(p, r)
    PROVE  RecordsStep
  <1>1. ASSUME NEW q \in Project, Exists(q) PROVE Succeeds(projects[q], projects[q])
    BY <1>1, ExistingRecord DEF Succeeds, ProjectRecord
  <1>2. QED  BY <1>1, LifecycleAssumption DEF RecordsStep, TypeInv, WriteProject, Dated, Exists

LEMMA TransitionSucceeds ==
    ASSUME NEW r \in ProjectRecord, Dated(r), NEW from, NEW to \in ProjectStatus,
           \/ \A status \in from : ~IsDeleted(status)
           \/ to = "DELETED"
    PROVE  LET m == Transitioned(r, from, to)
           IN  m \in ProjectRecord /\ Dated(m) /\ Succeeds(m, r)
  <1> DEFINE m == Transitioned(r, from, to)
  <1>1. m \in ProjectRecord /\ r.version \in Nat
    BY TransitionedFacts DEF ProjectRecord
  <1>2. CASE r.status \notin from
    BY <1>1, <1>2, TransitionedFacts DEF Succeeds
  <1>3. CASE r.status \in from
    <2>1. /\ m.version = r.version + 1 /\ m.status = to
          /\ m.deletionRequestedAt = r.deletionRequestedAt
          /\ m.deadline = r.deadline /\ m.startDate = r.startDate
      BY <1>3, TransitionedFacts
    <2> HIDE DEF m
    <2>2. QED  BY <1>1, <1>3, <2>1 DEF Succeeds, Dated, m
  <1>4. QED  BY <1>2, <1>3

LEMMA RecordsNext == ASSUME IInv, [Next]_vars PROVE RecordsStep
<1> USE DEF IInv
<1>t. TypeInv /\ clock \in Nat
  BY Bounds DEF TypeInv
<1>u. ASSUME projects' = projects PROVE RecordsStep
  BY <1>t, <1>u, UnchangedRecords
<1>1. ASSUME NEW c \in Client, NEW p \in Project, CreateProject(c, p) PROVE RecordsStep
  BY <1>1, <1>t, NewProjectFacts, WrittenRecord DEF CreateProject, Dated
<1>2. ASSUME NEW c \in Client, UpdateWithVersion(c) PROVE RecordsStep
  <2> DEFINE h == request[c]
             r == projects[h.project]
             e == Edited(r, h.section, h.value, h.status)
  <2>1. /\ request[c] # Idle /\ h.step = "write" /\ h.project \in Project
        /\ h.section \in Section /\ h.value \in Day /\ h.status \in ProjectStatus
        /\ r \in ProjectRecord /\ r.version \in Nat /\ Dated(r) /\ IsMutable(h.status)
    BY <1>2, <1>t, HandlerFacts, ExistingRecord
       DEF UpdateWithVersion, At, ProjectsExist, HandlersKeepUp, ProjectRecord, TypeInv, Exists, Dated
  <2>2. CASE r.version # h.version
    BY <1>2, <2>1, <2>2, <1>t, WrittenRecord DEF UpdateWithVersion, Succeeds
  <2>3. CASE r.version = h.version
    <3>1. WriteProject(h.project, e)
      BY <1>2, <2>3 DEF UpdateWithVersion
    <3>2. /\ ~IsDeleted(r.status)
          /\ h.section = "timeline" => DatesAgree(h.value, r.startDate)
          /\ h.section = "startDate" => DatesAgree(r.deadline, h.value)
      BY <2>1, <2>3 DEF HandlersKeepUp, ReadsHold
    <3>3. /\ e \in ProjectRecord /\ e.version = r.version + 1
          /\ e.deadline = IF h.section = "timeline" THEN h.value ELSE r.deadline
          /\ e.startDate = IF h.section = "startDate" THEN h.value ELSE r.startDate
      BY <2>1, EditedFacts
    <3> HIDE DEF e, r, h
    <3>4. Dated(e)
      BY <2>1, <3>2, <3>3 DEF Dated
    <3>5. Succeeds(e, r)
      BY <2>1, <3>2, <3>3 DEF Succeeds
    <3>6. QED  BY <1>t, <2>1, <3>1, <3>3, <3>4, <3>5, WrittenRecord DEF r
  <2>4. QED  BY <2>2, <2>3
<1>3. ASSUME NEW c \in Client, SoftDelete(c) PROVE RecordsStep
  <2> DEFINE h == request[c]
             r == projects[h.project]
             d == SoftDeleted(r, clock)
  <2>1. /\ request[c] # Idle /\ h.step = "softDelete" /\ h.project \in Project
        /\ r \in ProjectRecord /\ r.version \in Nat /\ Dated(r)
    BY <1>3, <1>t, HandlerFacts, ExistingRecord
       DEF SoftDelete, At, ProjectsExist, ProjectRecord, TypeInv, Exists, Dated
  <2>2. CASE r.version # h.version
    BY <1>3, <2>2, <1>u DEF SoftDelete
  <2>3. CASE r.version = h.version
    <3>1. WriteProject(h.project, d)
      BY <1>3, <2>3 DEF SoftDelete
    <3>2. ~IsDeleted(r.status)
      BY <2>1, <2>3 DEF HandlersKeepUp, ReadsHold
    <3>3. /\ d \in ProjectRecord /\ d.version = r.version + 1
          /\ d.deadline = r.deadline /\ d.startDate = r.startDate
      BY <2>1, <1>t, SoftDeletedFacts
    <3> HIDE DEF d, r, h
    <3>4. Dated(d) /\ Succeeds(d, r)
      BY <2>1, <3>2, <3>3 DEF Dated, Succeeds
    <3>5. QED  BY <1>t, <2>1, <3>1, <3>3, <3>4, WrittenRecord DEF r
  <2>4. QED  BY <2>2, <2>3
<1>4. ASSUME NEW c \in Client, MarkExpired(c) PROVE RecordsStep
  <2> DEFINE r == projects[request[c].project]
             m == MarkedExpired(r)
  <2>1. /\ request[c] # Idle /\ request[c].project \in Project /\ r \in ProjectRecord
        /\ r.version \in Nat /\ Dated(r) /\ WriteProject(request[c].project, m)
    BY <1>4, <1>t, HandlerFacts, ExistingRecord
       DEF MarkExpired, At, ProjectsExist, ProjectRecord, TypeInv, Exists, Dated
  <2>2. m \in ProjectRecord /\ (m = r \/ (IsMutable(r.status) /\ m = [r EXCEPT !.status = "EXPIRED"]))
    BY <2>1, MarkedExpiredFacts
  <2>3. Dated(m) /\ Succeeds(m, r)
    <3> HIDE DEF r, m
    <3>1. QED  BY <2>1, <2>2 DEF Dated, Succeeds, ProjectRecord, IsMutable, IsDeleted
  <2>4. QED  BY <1>t, <2>1, <2>2, <2>3, WrittenRecord
<1>5. ASSUME NEW s \in Sweeper, MaterialiseExpiry(s) PROVE RecordsStep
  <2>1. Head(sweep[s].todo) \in Project /\ Exists(Head(sweep[s].todo))
    BY <1>5, <1>t, HeadFacts DEF MaterialiseExpiry, Working, In, ProjectsExist
  <2>2. projects[Head(sweep[s].todo)] \in ProjectRecord /\ Dated(projects[Head(sweep[s].todo)])
    BY <1>t, <2>1, ExistingRecord DEF TypeInv, Exists, Dated
  <2>3. "EXPIRED" \in ProjectStatus /\ \A status \in {"DRAFT", "ACTIVE"} : ~IsDeleted(status)
    BY DEF ProjectStatus, IsDeleted
  <2>4. QED  BY <1>5, <1>t, <2>1, <2>2, <2>3, TransitionSucceeds, WrittenRecord DEF MaterialiseExpiry
<1>6. ASSUME NEW s \in Sweeper, QueueForDeletion(s) PROVE RecordsStep
  <2> DEFINE p == Head(sweep[s].todo)
             r == projects[p]
             queued == Transitioned(r, {"EXPIRED"}, "DELETION_PENDING")
             q == [queued EXCEPT !.deletionRequestedAt = sweep[s].now]
  <2>1. p \in Project /\ Exists(p) /\ sweep[s].now \in Nat
    BY <1>6, <1>t, HeadFacts, SweepFacts, Bounds DEF QueueForDeletion, Working, In, ProjectsExist
  <2>2. r \in ProjectRecord /\ Dated(r) /\ r.version \in Nat
    BY <1>t, <2>1, ExistingRecord DEF TypeInv, Exists, Dated, ProjectRecord
  <2>3. "DELETION_PENDING" \in ProjectStatus /\ \A status \in {"EXPIRED"} : ~IsDeleted(status)
    BY DEF ProjectStatus, IsDeleted
  <2>4. queued \in ProjectRecord /\ Dated(queued) /\ Succeeds(queued, r)
    BY <2>2, <2>3, TransitionSucceeds
  <2>5. CASE queued = r
    BY <1>6, <1>t, <2>1, <2>4, <2>5, WrittenRecord DEF QueueForDeletion
  <2>6. CASE queued # r
    <3>1. r.status = "EXPIRED" /\ WriteProject(p, q)
      BY <1>6, <2>2, <2>3, <2>6, TransitionedFacts DEF QueueForDeletion
    <3>2. q \in ProjectRecord /\ Dated(q) /\ q.version = queued.version /\ q.status = queued.status
          /\ q.deadline = queued.deadline /\ q.startDate = queued.startDate
      <4> HIDE DEF queued, p, r
      <4>1. QED  BY <2>1, <2>4 DEF ProjectRecord, Day, Dated
    <3>3. Succeeds(q, r)
      <4> HIDE DEF queued, p, r, q
      <4>1. QED  BY <2>4, <3>1, <3>2 DEF Succeeds, IsDeleted
    <3>4. QED  BY <1>t, <2>1, <3>1, <3>2, <3>3, WrittenRecord
  <2>7. QED  BY <2>5, <2>6
<1>7. ASSUME NEW s \in Sweeper, FinishPurge(s) PROVE RecordsStep
  <2>1. Head(sweep[s].todo) \in Project /\ Exists(Head(sweep[s].todo))
    BY <1>7, <1>t, HeadFacts DEF FinishPurge, Working, In, ProjectsExist
  <2>2. projects[Head(sweep[s].todo)] \in ProjectRecord /\ Dated(projects[Head(sweep[s].todo)])
    BY <1>t, <2>1, ExistingRecord DEF TypeInv, Exists, Dated
  <2>3. "DELETED" \in ProjectStatus
    BY DEF ProjectStatus
  <2>4. QED  BY <1>7, <1>t, <2>1, <2>2, <2>3, TransitionSucceeds, WrittenRecord DEF FinishPurge
<1>8. ASSUME NEW c \in Client,
             \/ EndSession(c) \/ CompareDates(c) \/ ReadForUpdate(c) \/ IssueSession(c) \/ StoreContent(c)
             \/ \E p \in Project :
                   \/ VerifyRecoverySecret(c, p) \/ UpdateSection(c, p) \/ UpdateTimeline(c, p)
                   \/ UpdateStartDate(c, p) \/ DeleteProject(c, p) \/ BeginContent(c, p)
      PROVE  RecordsStep
  BY <1>8, <1>u DEF EndSession, CompareDates, ReadForUpdate, IssueSession, StoreContent,
     VerifyRecoverySecret, UpdateSection, UpdateTimeline, UpdateStartDate, DeleteProject, BeginContent
<1>9. ASSUME NEW s \in Sweeper,
             \/ StartSweep(s) \/ AbandonedCandidates(s) \/ PurgeCandidates(s) \/ PurgeCollection(s)
             \/ PurgeStorage(s) \/ EndSweep(s) \/ SweepStumbles(s)
      PROVE  RecordsStep
  BY <1>9, <1>u DEF StartSweep, AbandonedCandidates, PurgeCandidates, PurgeCollection, PurgeStorage,
     EndSweep, SweepStumbles
<1>10. ASSUME Crash \/ Tick \/ UNCHANGED vars PROVE RecordsStep
  BY <1>10, <1>u DEF Crash, Tick, vars
<1>11. QED
  BY <1>1, <1>2, <1>3, <1>4, <1>5, <1>6, <1>7, <1>8, <1>9, <1>10
     DEF Next, Ask, Handle, SweepStep

-----------------------------------------------------------------------------
(* Types *)

LEMMA TypeInvInit == Init => TypeInv
  BY Bounds DEF Init, TypeInv, Dated

LEMMA BatchesAreProjects ==
    ASSUME NEW S \in SUBSET Project, NEW b,
           b \in Batches(S, ExpiresAt) \/ b \in Batches(S, RequestedAt)
    PROVE  b \in Seq(Project) /\ \A i \in 1 .. Len(b) : b[i] \in S
  BY BatchFacts DEF Batches

LEMMA TypeInvNext == ASSUME IInv, [Next]_vars PROVE TypeInv'
<1>r. RecordsStep
  BY RecordsNext
<1>t. TypeInv /\ clock \in Nat /\ 0 \in Nat
  BY Bounds DEF IInv, TypeInv
\* What is left to show of a step, with the records out of the way.
<1> DEFINE Rest ==
        /\ clock' \in 0 .. MaxTime
        /\ content' \in [Project -> SUBSET Place]
        /\ late' \subseteq Project
        /\ session' \in [Client -> Project \cup {NoSession}]
        /\ request' \in [Client -> Handler \cup {Idle}]
        /\ sweep' \in [Sweeper -> Sweep \cup {Idle}]
        /\ writes' \in 0 .. MaxContentWrites /\ faults' \in 0 .. MaxFaults
<1>s. SUFFICES Rest
  BY <1>r DEF RecordsStep, Dated, TypeInv
<1>1. ASSUME NEW c \in Client, NEW p \in Project, CreateProject(c, p) PROVE Rest
  BY <1>1, <1>t DEF CreateProject, Issue, TypeInv
<1>2. ASSUME NEW c \in Client, EndSession(c) PROVE Rest
  BY <1>2, <1>t DEF EndSession, ClearSession, TypeInv
<1>3. ASSUME NEW c \in Client, NEW p \in Project,
             \/ UpdateSection(c, p) \/ UpdateTimeline(c, p) \/ UpdateStartDate(c, p)
             \/ DeleteProject(c, p) \/ VerifyRecoverySecret(c, p) \/ BeginContent(c, p)
      PROVE  Rest
  <2>1. Exists(p) => projects[p].version \in Nat
    BY <1>t, ExistingRecord DEF ProjectRecord
  <2>2. NoDate \in Day /\ Date \subseteq Day
    BY Bounds DEF Day
  <2>3. request' \in [Client -> Handler \cup {Idle}]
    <3>1. ASSUME NEW step \in {"compare", "read", "write", "softDelete", "issue", "markExpired", "content"},
                 NEW section \in Section, NEW value \in Day, NEW version \in Nat,
                 Begin(c, p, step, section, value, version)
          PROVE  request' \in [Client -> Handler \cup {Idle}]
      BY <1>t, <3>1, BeginFacts
    <3>2. CASE UpdateSection(c, p)
      BY <2>1, <2>2, <3>1, <3>2 DEF UpdateSection, Section
    <3>3. CASE UpdateTimeline(c, p)
      BY <2>1, <2>2, <3>1, <3>3 DEF UpdateTimeline, Section
    <3>4. CASE UpdateStartDate(c, p)
      BY <2>1, <2>2, <3>1, <3>4 DEF UpdateStartDate, Section
    <3>5. CASE DeleteProject(c, p)
      BY <1>t, <2>1, <2>2, <3>1, <3>5 DEF DeleteProject, Section, TypeInv
    <3>6. CASE VerifyRecoverySecret(c, p)
      BY <1>t, <2>2, <3>1, <3>6 DEF VerifyRecoverySecret, Section
    <3>7. CASE BeginContent(c, p)
      BY <1>t, <2>2, <3>1, <3>7 DEF BeginContent, Section
    <3>8. QED  BY <1>3, <3>2, <3>3, <3>4, <3>5, <3>6, <3>7
  <2>4. QED
    BY <1>3, <1>t, <2>3 DEF UpdateSection, UpdateTimeline, UpdateStartDate, DeleteProject,
       VerifyRecoverySecret, BeginContent, ClearSession, TypeInv
<1>4. ASSUME NEW c \in Client, CompareDates(c) \/ ReadForUpdate(c) PROVE Rest
  <2>1. request[c] # Idle /\ request[c].project \in Project /\ request[c].status \in ProjectStatus
    BY <1>4, <1>t, HandlerFacts DEF CompareDates, ReadForUpdate, At
  <2>2. projects[request[c].project].status \in ProjectStatus
    BY <1>t, <2>1, ExistingRecord DEF IInv, ProjectsExist, ProjectRecord
  <2>3. request' \in [Client -> Handler \cup {Idle}]
    BY <1>4, <1>t, <2>1, <2>2, GotoFacts, DoneFacts DEF CompareDates, ReadForUpdate
  <2>4. QED  BY <1>4, <1>t, <2>3 DEF CompareDates, ReadForUpdate, TypeInv
<1>5. ASSUME NEW c \in Client, UpdateWithVersion(c) \/ MarkExpired(c) PROVE Rest
  BY <1>5, <1>t, DoneFacts DEF UpdateWithVersion, MarkExpired, TypeInv
<1>6. ASSUME NEW c \in Client, SoftDelete(c) PROVE Rest
  BY <1>6, <1>t, DoneFacts DEF SoftDelete, ClearSession, TypeInv
<1>7. ASSUME NEW c \in Client, IssueSession(c) PROVE Rest
  BY <1>7, <1>t, DoneFacts, HandlerFacts DEF IssueSession, Issue, At, TypeInv
<1>8. ASSUME NEW c \in Client, StoreContent(c) PROVE Rest
  <2>1. request[c].project \in Project
    BY <1>8, <1>t, HandlerFacts DEF StoreContent, At
  <2>2. writes' \in 0 .. MaxContentWrites
    BY <1>8, <1>t, Bounds DEF StoreContent, TypeInv
  <2>3. QED  BY <1>8, <1>t, <2>1, <2>2, DoneFacts DEF StoreContent, TypeInv
<1>9. ASSUME NEW s \in Sweeper, StartSweep(s) PROVE Rest
  <2>1. PICK batch \in Seq(Project) : Enter(s, "expire", clock, batch)
    BY <1>9, BatchesAreProjects DEF StartSweep
  <2>2. QED  BY <1>9, <1>t, <2>1, EnterFacts DEF StartSweep, TypeInv
<1>10. ASSUME NEW s \in Sweeper, AbandonedCandidates(s) PROVE Rest
  <2>1. PICK batch \in Seq(Project) : Enter(s, "queue", sweep[s].now, batch)
    BY <1>10, BatchesAreProjects DEF AbandonedCandidates
  <2>2. QED
    BY <1>10, <1>t, <2>1, EnterFacts, SweepFacts DEF AbandonedCandidates, Finished, In, TypeInv
<1>11. ASSUME NEW s \in Sweeper, PurgeCandidates(s) PROVE Rest
  <2>1. PICK batch \in Seq(Project) : Enter(s, "purge", sweep[s].now, batch)
    BY <1>11, BatchesAreProjects DEF PurgeCandidates
  <2>2. QED
    BY <1>11, <1>t, <2>1, EnterFacts, SweepFacts DEF PurgeCandidates, Finished, In, TypeInv
<1>12. ASSUME NEW s \in Sweeper, MaterialiseExpiry(s) \/ QueueForDeletion(s) \/ FinishPurge(s)
       PROVE  Rest
  BY <1>12, <1>t, NextProjectFacts
     DEF MaterialiseExpiry, QueueForDeletion, FinishPurge, Working, In, TypeInv
<1>13. ASSUME NEW s \in Sweeper, PurgeCollection(s) \/ PurgeStorage(s) PROVE Rest
  <2>1. /\ sweep[s] # Idle /\ sweep[s] \in Sweep /\ sweep[s].next + 1 \in 1 .. (Len(PurgeableCollections) + 2)
    BY <1>13, <1>t, SweepFacts, Bounds DEF PurgeCollection, PurgeStorage, Working, In
  <2>2. [sweep[s] EXCEPT !.next = sweep[s].next + 1] \in Sweep
    BY <2>1 DEF Sweep
  <2>3. sweep' = [sweep EXCEPT ![s] = [sweep[s] EXCEPT !.next = sweep[s].next + 1]]
    BY <1>13 DEF PurgeCollection, PurgeStorage
  <2>4. Head(sweep[s].todo) \in Project
    BY <1>13, <1>t, <2>1, HeadFacts DEF PurgeCollection, PurgeStorage, Working
  <2>5. content' \in [Project -> SUBSET Place] /\ faults' \in 0 .. MaxFaults
    BY <1>13, <1>t, <2>4, Bounds DEF PurgeCollection, PurgeStorage, TypeInv
  <2>6. QED  BY <1>13, <1>t, <2>2, <2>3, <2>5 DEF PurgeCollection, PurgeStorage, TypeInv
<1>14. ASSUME NEW s \in Sweeper, EndSweep(s) PROVE Rest
  BY <1>14, <1>t DEF EndSweep, TypeInv
<1>15. ASSUME NEW s \in Sweeper, SweepStumbles(s) PROVE Rest
  <2>1. faults' \in 0 .. MaxFaults
    BY <1>15, <1>t, Bounds DEF SweepStumbles, TypeInv
  <2>2. sweep' \in [Sweeper -> Sweep \cup {Idle}]
    BY <1>15, <1>t, NextProjectFacts DEF SweepStumbles, TypeInv
  <2>3. QED  BY <1>15, <1>t, <2>1, <2>2 DEF SweepStumbles, TypeInv
<1>16. CASE Crash \/ Tick
  BY <1>16, <1>t, Bounds DEF Crash, Tick, TypeInv
<1>17. CASE UNCHANGED vars
  BY <1>17, <1>t DEF vars, TypeInv
<1>18. QED
  BY <1>1, <1>2, <1>3, <1>4, <1>5, <1>6, <1>7, <1>8, <1>9, <1>10, <1>11, <1>12, <1>13, <1>14,
     <1>15, <1>16, <1>17
     DEF Next, Ask, Handle, SweepStep

-----------------------------------------------------------------------------
(* The rest of the invariant *)

\* Every step leaves a sweep alone, or shortens its list or keeps it ...
SweepGoesOn(s) ==
    /\ sweep'[s].phase = sweep[s].phase /\ sweep'[s].now = sweep[s].now
    /\ \A i \in 1 .. Len(sweep'[s].todo) :
          \E j \in 1 .. Len(sweep[s].todo) : sweep'[s].todo[i] = sweep[s].todo[j]

\* ... or gives it a new one, of projects that exist and, for the purge, are due.
SweepTurns(s) ==
    /\ sweep'[s].now <= clock
    /\ \A i \in 1 .. Len(sweep'[s].todo) :
          LET p == sweep'[s].todo[i]
          IN  /\ p \in Project /\ Exists(p)
              /\ sweep'[s].phase = "purge" => Due(projects[p], clock)

SweepKept(s) == sweep[s] # Idle /\ (sweep'[s] = sweep[s] \/ SweepGoesOn(s))

LEMMA SweepsNext ==
    ASSUME IInv, [Next]_vars, NEW s \in Sweeper, sweep'[s] # Idle
    PROVE  SweepKept(s) \/ (SweepTurns(s) /\ UNCHANGED <<projects, clock>>)
<1>t. TypeInv /\ clock \in Nat
  BY Bounds DEF IInv, TypeInv
<1>u. CASE sweep' = sweep
  BY <1>u DEF SweepKept
<1>o. ASSUME NEW z \in Sweeper, z # s, sweep'[s] = sweep[s] PROVE SweepKept(s)
  BY <1>o DEF SweepKept
<1>1. ASSUME NEW z \in Sweeper, StartSweep(z)
      PROVE  SweepKept(s) \/ (SweepTurns(s) /\ UNCHANGED <<projects, clock>>)
  <2> DEFINE stale == {p \in Project : Exists(p) /\ IsMutable(projects[p].status)
                                               /\ projects[p].expiresAt <= clock}
  <2>1. PICK batch \in Batches(stale, ExpiresAt) : Enter(z, "expire", clock, batch)
    BY <1>1 DEF StartSweep
  <2>2. batch \in Seq(Project) /\ \A i \in 1 .. Len(batch) : batch[i] \in stale
    BY <2>1, BatchesAreProjects
  <2>3. /\ z # s => sweep'[s] = sweep[s]
        /\ sweep'[z].todo = batch /\ sweep'[z].now = clock /\ sweep'[z].phase = "expire"
    BY <1>t, <2>1, <2>2, EnterFacts DEF TypeInv
  <2>4. QED  BY <1>1, <1>t, <1>o, <2>2, <2>3 DEF SweepTurns, StartSweep
<1>2. ASSUME NEW z \in Sweeper, AbandonedCandidates(z)
      PROVE  SweepKept(s) \/ (SweepTurns(s) /\ UNCHANGED <<projects, clock>>)
  <2> DEFINE due == {p \in Project : Exists(p) /\ IsAbandoned(projects[p], sweep[z].now)}
  <2>1. PICK batch \in Batches(due, ExpiresAt) : Enter(z, "queue", sweep[z].now, batch)
    BY <1>2 DEF AbandonedCandidates
  <2>2. batch \in Seq(Project) /\ \A i \in 1 .. Len(batch) : batch[i] \in due
    BY <2>1, BatchesAreProjects
  <2>3. sweep[z] # Idle /\ sweep[z].now \in 0 .. MaxTime /\ sweep[z].now <= clock
    BY <1>2, <1>t, SweepFacts DEF AbandonedCandidates, Finished, In, IInv, SweepsAreDue
  <2>4. /\ z # s => sweep'[s] = sweep[s]
        /\ sweep'[z].todo = batch /\ sweep'[z].now = sweep[z].now /\ sweep'[z].phase = "queue"
    BY <1>t, <2>1, <2>2, <2>3, EnterFacts
  <2>5. QED  BY <1>2, <1>o, <2>2, <2>3, <2>4 DEF SweepTurns, AbandonedCandidates
<1>3. ASSUME NEW z \in Sweeper, PurgeCandidates(z)
      PROVE  SweepKept(s) \/ (SweepTurns(s) /\ UNCHANGED <<projects, clock>>)
  <2> DEFINE due == {p \in Project : Exists(p) /\ IsPurgeEligible(projects[p], sweep[z].now)}
  <2>1. PICK batch \in Batches(due, RequestedAt) : Enter(z, "purge", sweep[z].now, batch)
    BY <1>3 DEF PurgeCandidates
  <2>2. batch \in Seq(Project) /\ \A i \in 1 .. Len(batch) : batch[i] \in due
    BY <2>1, BatchesAreProjects
  <2>3. sweep[z] # Idle /\ sweep[z].now \in 0 .. MaxTime /\ sweep[z].now <= clock
    BY <1>3, <1>t, SweepFacts DEF PurgeCandidates, Finished, In, IInv, SweepsAreDue
  <2>4. /\ z # s => sweep'[s] = sweep[s]
        /\ sweep'[z].todo = batch /\ sweep'[z].now = sweep[z].now /\ sweep'[z].phase = "purge"
    BY <1>t, <2>1, <2>2, <2>3, EnterFacts
  <2>5. ASSUME NEW p \in due PROVE Due(projects[p], clock)
    <3>1. projects[p] \in ProjectRecord /\ sweep[z].now \in Nat /\ DeletionGraceDays \in Nat
      BY <1>t, <2>3, ExistingRecord, Bounds, PolicyAssumption
    <3>2. projects[p].deletionRequestedAt \in Nat
      BY <3>1 DEF IsPurgeEligible, ProjectRecord, Day
    <3>3. QED  BY <1>t, <2>3, <3>1, <3>2 DEF Due, IsPurgeEligible, IsDeleted
  <2>6. QED  BY <1>3, <1>o, <2>2, <2>3, <2>4, <2>5 DEF SweepTurns, PurgeCandidates
<1>4. ASSUME NEW z \in Sweeper, sweep[z] # Idle, sweep[z].todo # <<>>, NextProject(z)
      PROVE  SweepKept(s)
  <2>1. CASE z # s
    BY <1>t, <1>4, <1>o, <2>1, NextProjectFacts
  <2>2. CASE z = s
    <3>1. /\ sweep'[s].phase = sweep[s].phase /\ sweep'[s].now = sweep[s].now
          /\ sweep'[s].todo = Tail(sweep[s].todo)
      BY <1>t, <1>4, <2>2, NextProjectFacts
    <3>2. \A i \in 1 .. Len(Tail(sweep[s].todo)) :
            /\ i + 1 \in 1 .. Len(sweep[s].todo)
            /\ Tail(sweep[s].todo)[i] = sweep[s].todo[i + 1]
      BY <1>t, <1>4, <2>2, HeadFacts
    <3>3. QED  BY <1>4, <2>2, <3>1, <3>2 DEF SweepKept, SweepGoesOn
  <2>3. QED  BY <2>1, <2>2
<1>5. ASSUME NEW z \in Sweeper, MaterialiseExpiry(z) \/ QueueForDeletion(z) \/ FinishPurge(z)
      PROVE  SweepKept(s)
  BY <1>4, <1>5 DEF MaterialiseExpiry, QueueForDeletion, FinishPurge, Working, In
<1>6. ASSUME NEW z \in Sweeper, PurgeCollection(z) \/ PurgeStorage(z) PROVE SweepKept(s)
  <2>1. sweep' = [sweep EXCEPT ![z] = [sweep[z] EXCEPT !.next = sweep[z].next + 1]]
    BY <1>6 DEF PurgeCollection, PurgeStorage
  <2>2. sweep[z] # Idle /\ sweep[z] \in Sweep /\ sweep \in [Sweeper -> Sweep \cup {Idle}]
    BY <1>6, <1>t, SweepFacts DEF PurgeCollection, PurgeStorage, Working, In, TypeInv
  <2>3. CASE z = s
    <3>1. /\ sweep'[s].phase = sweep[s].phase /\ sweep'[s].now = sweep[s].now
          /\ sweep'[s].todo = sweep[s].todo
      BY <2>1, <2>2, <2>3 DEF Sweep
    <3>2. QED  BY <2>2, <2>3, <3>1 DEF SweepKept, SweepGoesOn
  <2>4. CASE z # s
    BY <1>o, <2>1, <2>2, <2>4
  <2>5. QED  BY <2>3, <2>4
<1>7. ASSUME NEW z \in Sweeper, EndSweep(z) PROVE SweepKept(s)
  BY <1>7, <1>t, <1>o DEF EndSweep, TypeInv
<1>8. ASSUME NEW z \in Sweeper, SweepStumbles(z) PROVE SweepKept(s)
  BY <1>8, <1>t, <1>o, <1>4 DEF SweepStumbles, TypeInv
<1>9. CASE Crash
  BY <1>9 DEF Crash
<1>10. ASSUME NEW c \in Client, Ask(c) \/ Handle(c) PROVE sweep' = sweep
  BY <1>10
     DEF Ask, Handle, EndSession, CreateProject, VerifyRecoverySecret, UpdateSection, UpdateTimeline,
         UpdateStartDate, DeleteProject, BeginContent, CompareDates, ReadForUpdate, UpdateWithVersion,
         SoftDelete, MarkExpired, IssueSession, StoreContent
<1>11. CASE Tick \/ UNCHANGED vars
  BY <1>11, <1>u DEF Tick, vars
<1>12. QED
  BY <1>u, <1>1, <1>2, <1>3, <1>5, <1>6, <1>7, <1>8, <1>9, <1>10, <1>11 DEF Next, SweepStep

LEMMA SweepsAreDueNext == ASSUME IInv, [Next]_vars PROVE SweepsAreDue'
<1> SUFFICES ASSUME NEW s \in Sweeper, sweep'[s] # Idle
    PROVE  /\ sweep'[s].now <= clock'
           /\ sweep'[s].phase = "purge" =>
                 \A i \in 1 .. Len(sweep'[s].todo) : Due(projects'[sweep'[s].todo[i]], clock')
  BY DEF SweepsAreDue
<1>t. TypeInv /\ clock \in 0 .. MaxTime /\ clock \in Nat /\ RecordsStep /\ DeletionGraceDays \in Nat
  BY Bounds, RecordsNext, PolicyAssumption DEF IInv, TypeInv
<1>1. clock' \in Nat /\ clock <= clock'
  <2>1. CASE Tick
    BY <1>t, <2>1 DEF Tick
  <2>2. ASSUME NEW c \in Client, Ask(c) PROVE clock' = clock
    BY <2>2
       DEF Ask, EndSession, CreateProject, VerifyRecoverySecret, UpdateSection, UpdateTimeline,
           UpdateStartDate, DeleteProject, BeginContent
  <2>3. ASSUME NEW c \in Client, Handle(c) PROVE clock' = clock
    BY <2>3
       DEF Handle, CompareDates, ReadForUpdate, UpdateWithVersion, SoftDelete, MarkExpired, IssueSession,
           StoreContent
  <2>4. ASSUME NEW z \in Sweeper, StartSweep(z) \/ SweepStep(z) \/ SweepStumbles(z)
        PROVE  clock' = clock
    BY <2>4
       DEF SweepStep, StartSweep, MaterialiseExpiry, AbandonedCandidates, QueueForDeletion,
           PurgeCandidates, PurgeCollection, PurgeStorage, FinishPurge, EndSweep, SweepStumbles
  <2>5. CASE Crash \/ UNCHANGED vars
    BY <1>t, <2>5 DEF Crash, vars
  <2>6. QED  BY <1>t, <2>1, <2>2, <2>3, <2>4, <2>5 DEF Next
<1>2. ASSUME NEW p \in Project, Exists(p), Due(projects[p], clock) PROVE Due(projects'[p], clock')
  <2>1. /\ projects'[p].status \in {projects[p].status, "DELETED"}
        /\ projects'[p].deletionRequestedAt = projects[p].deletionRequestedAt
    BY <1>t, <1>2 DEF RecordsStep, Succeeds, Due
  <2>2. QED  BY <1>t, <1>1, <1>2, <2>1 DEF Due, IsDeleted
<1>3. CASE SweepKept(s)
  <2>1. /\ sweep[s] # Idle /\ sweep'[s].phase = sweep[s].phase /\ sweep'[s].now = sweep[s].now
        /\ sweep[s].now \in Nat /\ sweep[s].now <= clock
    BY <1>3, <1>t, SweepFacts, Bounds DEF SweepKept, SweepGoesOn, IInv, SweepsAreDue
  <2>2. ASSUME NEW i \in 1 .. Len(sweep'[s].todo), sweep'[s].phase = "purge"
        PROVE  Due(projects'[sweep'[s].todo[i]], clock')
    <3>1. PICK j \in 1 .. Len(sweep[s].todo) : sweep'[s].todo[i] = sweep[s].todo[j]
      BY <1>3, <2>2 DEF SweepKept, SweepGoesOn
    <3>2. sweep[s].todo[j] \in Project
      BY <1>t, <2>1, SweepFacts
    <3>3. Exists(sweep[s].todo[j]) /\ Due(projects[sweep[s].todo[j]], clock)
      BY <2>1, <2>2 DEF IInv, ProjectsExist, SweepsAreDue
    <3>4. QED  BY <1>2, <3>1, <3>2, <3>3
  <2>3. QED  BY <1>t, <1>1, <2>1, <2>2
<1>4. CASE SweepTurns(s) /\ UNCHANGED <<projects, clock>>
  BY <1>4 DEF SweepTurns
<1>5. QED  BY <1>3, <1>4, SweepsNext

LEMMA ProjectsExistNext == ASSUME IInv, [Next]_vars PROVE ProjectsExist'
<1>t. TypeInv /\ RecordsStep
  BY RecordsNext DEF IInv
<1>e. ASSUME NEW p \in Project, Exists(p) PROVE projects'[p] # Absent
  BY <1>t, <1>e DEF RecordsStep
<1>1. ASSUME NEW s \in Sweeper, sweep'[s] # Idle, NEW i \in 1 .. Len(sweep'[s].todo)
      PROVE  projects'[sweep'[s].todo[i]] # Absent
  <2>1. CASE SweepKept(s)
    <3>1. PICK j \in 1 .. Len(sweep[s].todo) : sweep'[s].todo[i] = sweep[s].todo[j]
      BY <1>1, <2>1 DEF SweepKept, SweepGoesOn
    <3>2. sweep[s].todo[j] \in Project /\ Exists(sweep[s].todo[j])
      BY <1>t, <2>1, SweepFacts DEF SweepKept, IInv, ProjectsExist
    <3>3. QED  BY <1>e, <3>1, <3>2
  <2>2. CASE SweepTurns(s) /\ UNCHANGED <<projects, clock>>
    BY <1>1, <2>2 DEF SweepTurns, Exists
  <2>3. QED  BY <1>1, <2>1, <2>2, SweepsNext
\* A cookie or a handler of a project that exists, that of c included.
<1> DEFINE SessionOf(c) == session'[c] # NoSession => projects'[session'[c]] # Absent
           RequestOf(c) == request'[c] # Idle => projects'[request'[c].project] # Absent
<1>s. ASSUME NEW c \in Client, session'[c] = session[c] PROVE SessionOf(c)
  <2>1. CASE session[c] # NoSession
    BY <1>s, <1>e, <1>t, <2>1 DEF IInv, ProjectsExist, TypeInv, Exists
  <2>2. QED  BY <1>s, <2>1
<1>q. ASSUME NEW c \in Client, request'[c] = request[c] PROVE RequestOf(c)
  <2>1. CASE request[c] # Idle
    BY <1>q, <1>e, <1>t, <2>1, HandlerFacts DEF IInv, ProjectsExist, Exists
  <2>2. QED  BY <1>q, <2>1
<1>2. ASSUME NEW c \in Client PROVE SessionOf(c) /\ RequestOf(c)
  <2>1. ASSUME NEW d \in Client, NEW p \in Project, CreateProject(d, p) PROVE SessionOf(c) /\ RequestOf(c)
    <3>1. NewProject(clock) \in ProjectRecord
      BY <1>t, Bounds, NewProjectFacts DEF TypeInv
    <3>2. projects'[p] # Absent
      BY <1>t, <2>1, <3>1, LifecycleAssumption DEF CreateProject, WriteProject, TypeInv
    <3>3. session'[c] = IF c = d THEN p ELSE session[c]
      BY <1>t, <2>1 DEF CreateProject, Issue, TypeInv
    <3>4. QED  BY <1>s, <1>q, <2>1, <3>2, <3>3 DEF CreateProject
  <2>2. ASSUME NEW d \in Client, EndSession(d) PROVE SessionOf(c) /\ RequestOf(c)
    <3>1. session'[c] = IF c = d THEN NoSession ELSE session[c]
      BY <1>t, <2>2 DEF EndSession, ClearSession, TypeInv
    <3>2. QED  BY <1>s, <1>q, <2>2, <3>1 DEF EndSession
  <2>3. ASSUME NEW d \in Client, NEW p \in Project, Exists(p), UNCHANGED <<session, projects>>,
               NEW step, NEW section \in Section, NEW value \in Day, NEW version,
               Begin(d, p, step, section, value, version)
        PROVE  SessionOf(c) /\ RequestOf(c)
    <3>1. CASE c = d
      BY <1>t, <1>s, <2>3, <3>1 DEF Begin, TypeInv, Exists
    <3>2. CASE c # d
      BY <1>t, <1>s, <1>q, <2>3, <3>2 DEF Begin, TypeInv
    <3>3. QED  BY <3>1, <3>2
  <2>4. NoDate \in Day /\ Date \subseteq Day /\ \A section \in {"details", "branding", "timeline", "startDate"} : section \in Section
    BY Bounds DEF Day, Section
  <2>5. ASSUME NEW d \in Client, NEW p \in Project,
               UpdateSection(d, p) \/ UpdateTimeline(d, p) \/ UpdateStartDate(d, p)
        PROVE  SessionOf(c) /\ RequestOf(c)
    BY <2>3, <2>4, <2>5 DEF UpdateSection, UpdateTimeline, UpdateStartDate
  <2>6. ASSUME NEW d \in Client, NEW p \in Project, DeleteProject(d, p)
        PROVE  SessionOf(c) /\ RequestOf(c)
    <3>1. CASE IsDeleted(projects[p].status)
      <4>1. session'[c] = IF c = d THEN NoSession ELSE session[c]
        BY <1>t, <2>6, <3>1 DEF DeleteProject, ClearSession, TypeInv
      <4>2. QED  BY <1>s, <1>q, <2>6, <3>1, <4>1 DEF DeleteProject
    <3>2. CASE ~IsDeleted(projects[p].status)
      BY <2>3, <2>4, <2>6, <3>2 DEF DeleteProject
    <3>3. QED  BY <3>1, <3>2
  <2>7. ASSUME NEW d \in Client, NEW p \in Project, VerifyRecoverySecret(d, p) \/ BeginContent(d, p)
        PROVE  SessionOf(c) /\ RequestOf(c)
    <3>1. Exists(p)
      BY <2>7, LifecycleAssumption DEF VerifyRecoverySecret, BeginContent, Admitted, IInv, ProjectsExist
    <3>2. QED  BY <2>3, <2>4, <2>7, <3>1 DEF VerifyRecoverySecret, BeginContent
  <2>8. ASSUME NEW d \in Client, CompareDates(d) \/ ReadForUpdate(d) PROVE SessionOf(c) /\ RequestOf(c)
    <3>1. request[d] # Idle /\ Exists(request[d].project) /\ request[d].project \in Project
      BY <1>t, <2>8, HandlerFacts DEF CompareDates, ReadForUpdate, At, IInv, ProjectsExist
    <3>2. projects[request[d].project].status \in ProjectStatus /\ request[d].status \in ProjectStatus
      BY <1>t, <3>1, ExistingRecord, HandlerFacts DEF ProjectRecord
    <3>3. \/ request'[c] = Idle \/ request'[c] = request[c]
          \/ c = d /\ request'[c].project = request[d].project
      BY <1>t, <2>8, <3>1, <3>2, GotoFacts, DoneFacts DEF CompareDates, ReadForUpdate
    <3>4. QED  BY <1>s, <1>q, <1>e, <2>8, <3>1, <3>3 DEF CompareDates, ReadForUpdate, Exists
  <2>9. ASSUME NEW d \in Client, Done(d) PROVE RequestOf(c)
    BY <1>t, <1>q, <2>9, DoneFacts
  <2>10. ASSUME NEW d \in Client, UpdateWithVersion(d) \/ MarkExpired(d) \/ StoreContent(d)
         PROVE  SessionOf(c) /\ RequestOf(c)
    BY <1>s, <2>9, <2>10 DEF UpdateWithVersion, MarkExpired, StoreContent
  <2>11. ASSUME NEW d \in Client, SoftDelete(d) PROVE SessionOf(c) /\ RequestOf(c)
    <3>1. session'[c] \in {session[c], NoSession}
      BY <1>t, <2>11 DEF SoftDelete, ClearSession, TypeInv
    <3>2. QED  BY <1>s, <2>9, <2>11, <3>1 DEF SoftDelete
  <2>12. ASSUME NEW d \in Client, IssueSession(d) PROVE SessionOf(c) /\ RequestOf(c)
    <3>1. request[d] # Idle /\ Exists(request[d].project) /\ request[d].project \in Project
      BY <1>t, <2>12, HandlerFacts DEF IssueSession, At, IInv, ProjectsExist
    <3>2. session'[c] = IF c = d THEN request[d].project ELSE session[c]
      BY <1>t, <2>12 DEF IssueSession, Issue, TypeInv
    <3>3. QED  BY <1>e, <1>s, <2>9, <2>12, <3>1, <3>2 DEF IssueSession, Exists
  <2>13. ASSUME NEW s \in Sweeper, StartSweep(s) \/ SweepStep(s) \/ SweepStumbles(s)
         PROVE  SessionOf(c) /\ RequestOf(c)
    BY <1>s, <1>q, <2>13
       DEF SweepStep, StartSweep, MaterialiseExpiry, AbandonedCandidates, QueueForDeletion,
           PurgeCandidates, PurgeCollection, PurgeStorage, FinishPurge, EndSweep, SweepStumbles
  <2>14. CASE Crash
    BY <1>s, <2>14 DEF Crash
  <2>15. CASE Tick \/ UNCHANGED vars
    BY <1>s, <1>q, <2>15 DEF Tick, vars
  <2>16. QED
    BY <2>1, <2>2, <2>5, <2>6, <2>7, <2>8, <2>10, <2>11, <2>12, <2>13, <2>14, <2>15 DEF Next, Ask, Handle
<1>3. QED  BY <1>1, <1>2 DEF ProjectsExist, Exists

LEMMA ReadsHoldLater ==
    ASSUME NEW h \in Handler, NEW old \in ProjectRecord, NEW new \in ProjectRecord,
           ReadsHold(h, old), Succeeds(new, old)
    PROVE  ReadsHold(h, new)
  <1>1. h.version \in Nat /\ old.version \in Nat /\ new.version \in Nat
    BY DEF Handler, ProjectRecord
  <1>2. QED  BY <1>1 DEF ReadsHold, Succeeds

LEMMA HandlersKeepUpNext == ASSUME IInv, [Next]_vars PROVE HandlersKeepUp'
<1> DEFINE KeepsUp(c) == request'[c] # Idle =>
        /\ ReadsHold(request'[c], projects'[request'[c].project])
        /\ request'[c].step = "write" => IsMutable(request'[c].status)
<1> SUFFICES ASSUME NEW c \in Client PROVE KeepsUp(c)
  BY DEF HandlersKeepUp
<1>t. TypeInv /\ RecordsStep /\ HandlersKeepUp /\ ProjectsExist
  BY RecordsNext DEF IInv
<1>q. ASSUME request'[c] = request[c] PROVE KeepsUp(c)
  <2> SUFFICES ASSUME request[c] # Idle
               PROVE  /\ ReadsHold(request[c], projects'[request[c].project])
                      /\ request[c].step = "write" => IsMutable(request[c].status)
    BY <1>q
  <2>1. request[c] \in Handler /\ request[c].project \in Project /\ Exists(request[c].project)
    BY <1>t, HandlerFacts DEF ProjectsExist
  <2>2. /\ projects[request[c].project] \in ProjectRecord /\ projects'[request[c].project] \in ProjectRecord
        /\ Succeeds(projects'[request[c].project], projects[request[c].project])
    BY <1>t, <2>1, ExistingRecord DEF RecordsStep
  <2>3. QED  BY <1>t, <2>1, <2>2, ReadsHoldLater DEF HandlersKeepUp
<1>d. ASSUME NEW d \in Client, Done(d) PROVE KeepsUp(c)
  BY <1>t, <1>q, <1>d, DoneFacts
\* A handler that has just begun has read nothing, unless it is a deletion.
<1>b. ASSUME NEW d \in Client, NEW p \in Project, NEW step \in {"compare", "read", "softDelete", "issue", "markExpired", "content"},
             NEW section \in Section, NEW value \in Day, NEW version \in Nat,
             Begin(d, p, step, section, value, version), projects' = projects,
             version <= projects[p].version, step = "softDelete" => ~IsDeleted(projects[p].status),
             step = "read" => section \notin {"timeline", "startDate"}
      PROVE  KeepsUp(c)
  <2>1. CASE c = d
    BY <1>t, <1>b, <2>1, BeginFacts DEF ReadsHold
  <2>2. CASE c # d
    BY <1>t, <1>b, <1>q, <2>2, BeginFacts
  <2>3. QED  BY <2>1, <2>2
<1>1. NoDate \in Day /\ Date \subseteq Day /\ {"details", "branding", "timeline", "startDate"} \subseteq Section
  BY Bounds DEF Day, Section
<1>v. ASSUME NEW p \in Project, Exists(p)
      PROVE  projects[p].version \in Nat /\ 0 <= projects[p].version /\ projects[p].version <= projects[p].version
  BY <1>t, <1>v, ExistingRecord DEF ProjectRecord
<1>2. ASSUME NEW d \in Client, NEW p \in Project, UpdateSection(d, p) PROVE KeepsUp(c)
  BY <1>1, <1>2, <1>b, <1>v DEF UpdateSection
<1>3. ASSUME NEW d \in Client, NEW p \in Project, UpdateTimeline(d, p) PROVE KeepsUp(c)
  BY <1>1, <1>3, <1>b, <1>v DEF UpdateTimeline
<1>4. ASSUME NEW d \in Client, NEW p \in Project, UpdateStartDate(d, p) PROVE KeepsUp(c)
  BY <1>1, <1>4, <1>b, <1>v DEF UpdateStartDate
<1>5. ASSUME NEW d \in Client, NEW p \in Project, DeleteProject(d, p) PROVE KeepsUp(c)
  <2>1. CASE IsDeleted(projects[p].status)
    BY <1>5, <1>q, <2>1 DEF DeleteProject
  <2>2. CASE ~IsDeleted(projects[p].status)
    BY <1>1, <1>5, <1>b, <1>v, <2>2 DEF DeleteProject
  <2>3. QED  BY <2>1, <2>2
<1>6. ASSUME NEW d \in Client, NEW p \in Project, VerifyRecoverySecret(d, p) PROVE KeepsUp(c)
  BY <1>1, <1>6, <1>b, <1>v DEF VerifyRecoverySecret
<1>7. ASSUME NEW d \in Client, NEW p \in Project, BeginContent(d, p) PROVE KeepsUp(c)
  <2>1. Exists(p)
    BY <1>7, <1>t, LifecycleAssumption DEF BeginContent, Admitted, ProjectsExist
  <2>2. QED  BY <1>1, <1>7, <1>b, <1>v, <2>1 DEF BeginContent
<1>8. ASSUME NEW d \in Client, CompareDates(d) PROVE KeepsUp(c)
  <2> DEFINE h == request[d]
             r == projects[h.project]
  <2>1. /\ h # Idle /\ h.step = "compare" /\ h.status \in ProjectStatus /\ projects' = projects
        /\ ReadsHold(h, r)
    BY <1>8, <1>t, HandlerFacts DEF CompareDates, At, HandlersKeepUp
  <2>2. CASE Done(d)
    BY <1>d, <2>2
  <2>3. CASE /\ Goto(d, "read", h.status)
             /\ h.section = "timeline" => DatesAgree(h.value, r.startDate)
             /\ h.section # "timeline" => DatesAgree(r.deadline, h.value)
    <3>1. CASE c = d
      <4>1. /\ request'[d] # Idle /\ request'[d].step = "read" /\ request'[d].project = h.project
            /\ request'[d].section = h.section /\ request'[d].value = h.value
            /\ request'[d].version = h.version
        BY <1>t, <2>1, <2>3, GotoFacts
      <4> HIDE DEF h
      <4>2. ReadsHold(request'[d], r)
        BY <2>1, <2>3, <4>1 DEF ReadsHold
      <4>3. QED  BY <2>1, <3>1, <4>1, <4>2
    <3>2. CASE c # d
      BY <1>t, <1>q, <2>1, <2>3, <3>2, GotoFacts
    <3>3. QED  BY <3>1, <3>2
  <2>4. QED  BY <1>8, <2>2, <2>3 DEF CompareDates
<1>9. ASSUME NEW d \in Client, ReadForUpdate(d) PROVE KeepsUp(c)
  <2> DEFINE h == request[d]
             r == projects[h.project]
  <2>1. /\ h # Idle /\ h.step = "read" /\ h.project \in Project /\ projects' = projects
        /\ ReadsHold(h, r) /\ r \in ProjectRecord
    BY <1>9, <1>t, HandlerFacts, ExistingRecord DEF ReadForUpdate, At, HandlersKeepUp, ProjectsExist
  <2>2. CASE Done(d)
    BY <1>d, <2>2
  <2>3. CASE CanWrite(r, clock) /\ Goto(d, "write", r.status)
    <3>1. IsMutable(r.status) /\ ~IsDeleted(r.status) /\ r.status \in ProjectStatus
      BY <2>1, <2>3 DEF CanWrite, EffectiveStatus, IsMutable, IsDeleted, ProjectRecord
    <3>2. CASE c = d
      <4>1. /\ request'[d] # Idle /\ request'[d].step = "write" /\ request'[d].project = h.project
            /\ request'[d].section = h.section /\ request'[d].value = h.value
            /\ request'[d].version = h.version /\ request'[d].status = r.status
        BY <1>t, <2>1, <2>3, <3>1, GotoFacts
      <4> HIDE DEF h
      <4>2. ReadsHold(request'[d], r)
        BY <2>1, <3>1, <4>1 DEF ReadsHold
      <4>3. QED  BY <2>1, <3>1, <3>2, <4>1, <4>2
    <3>3. CASE c # d
      BY <1>t, <1>q, <2>1, <2>3, <3>1, <3>3, GotoFacts
    <3>4. QED  BY <3>2, <3>3
  <2>4. QED  BY <1>9, <2>2, <2>3 DEF ReadForUpdate
<1>10. ASSUME NEW d \in Client,
              UpdateWithVersion(d) \/ SoftDelete(d) \/ MarkExpired(d) \/ IssueSession(d) \/ StoreContent(d)
       PROVE  KeepsUp(c)
  BY <1>10, <1>d DEF UpdateWithVersion, SoftDelete, MarkExpired, IssueSession, StoreContent
<1>11. ASSUME NEW d \in Client, EndSession(d) \/ \E p \in Project : CreateProject(d, p) PROVE KeepsUp(c)
  BY <1>11, <1>q DEF EndSession, CreateProject
<1>12. ASSUME NEW s \in Sweeper, StartSweep(s) \/ SweepStep(s) \/ SweepStumbles(s) PROVE KeepsUp(c)
  BY <1>12, <1>q
     DEF SweepStep, StartSweep, MaterialiseExpiry, AbandonedCandidates, QueueForDeletion,
         PurgeCandidates, PurgeCollection, PurgeStorage, FinishPurge, EndSweep, SweepStumbles
<1>13. CASE Crash
  BY <1>13 DEF Crash
<1>14. CASE Tick \/ UNCHANGED vars
  BY <1>14, <1>q DEF Tick, vars
<1>15. QED
  BY <1>2, <1>3, <1>4, <1>5, <1>6, <1>7, <1>8, <1>9, <1>10, <1>11, <1>12, <1>13, <1>14
     DEF Next, Ask, Handle

\* Content comes to a deleted project only with a note in late; faults are never taken back.
ContentStep ==
    /\ faults' \in Nat /\ faults <= faults' /\ late \subseteq late'
    /\ \A p \in Project :
          content'[p] \subseteq content[p] \/ (IsDeleted(projects[p].status) => p \in late')

LEMMA ContentNext == ASSUME IInv, [Next]_vars PROVE ContentStep
<1>t. TypeInv /\ faults \in Nat
  BY Bounds DEF IInv, TypeInv
<1>u. ASSUME UNCHANGED <<content, late, faults>> PROVE ContentStep
  BY <1>t, <1>u DEF ContentStep
<1>1. ASSUME NEW c \in Client, Ask(c) PROVE ContentStep
  BY <1>u, <1>1
     DEF Ask, EndSession, CreateProject, VerifyRecoverySecret, UpdateSection, UpdateTimeline,
         UpdateStartDate, DeleteProject, BeginContent
<1>2. ASSUME NEW c \in Client, StoreContent(c) PROVE ContentStep
  <2>1. late \subseteq late' /\ faults' = faults
    BY <1>2 DEF StoreContent
  <2>2. ASSUME NEW p \in Project
        PROVE  content'[p] \subseteq content[p] \/ (IsDeleted(projects[p].status) => p \in late')
    <3>1. CASE p = request[c].project
      BY <1>2, <3>1 DEF StoreContent
    <3>2. CASE p # request[c].project
      BY <1>t, <1>2, <3>2 DEF StoreContent, TypeInv
    <3>3. QED  BY <3>1, <3>2
  <2>3. QED  BY <1>t, <2>1, <2>2 DEF ContentStep
<1>3. ASSUME NEW c \in Client,
             \/ CompareDates(c) \/ ReadForUpdate(c) \/ UpdateWithVersion(c)
             \/ SoftDelete(c) \/ MarkExpired(c) \/ IssueSession(c)
      PROVE  ContentStep
  BY <1>u, <1>3 DEF CompareDates, ReadForUpdate, UpdateWithVersion, SoftDelete, MarkExpired, IssueSession
<1>4. ASSUME NEW s \in Sweeper, PurgeCollection(s) \/ PurgeStorage(s) PROVE ContentStep
  <2>1. \A p \in Project : content'[p] \subseteq content[p]
    BY <1>t, <1>4 DEF PurgeCollection, PurgeStorage, TypeInv
  <2>2. QED  BY <1>t, <1>4, <2>1 DEF PurgeCollection, PurgeStorage, ContentStep
<1>5. ASSUME NEW s \in Sweeper,
             \/ StartSweep(s) \/ MaterialiseExpiry(s) \/ AbandonedCandidates(s) \/ QueueForDeletion(s)
             \/ PurgeCandidates(s) \/ FinishPurge(s) \/ EndSweep(s)
      PROVE  ContentStep
  BY <1>u, <1>5
     DEF StartSweep, MaterialiseExpiry, AbandonedCandidates, QueueForDeletion, PurgeCandidates,
         FinishPurge, EndSweep
<1>6. ASSUME NEW s \in Sweeper, SweepStumbles(s) PROVE ContentStep
  BY <1>t, <1>6 DEF SweepStumbles, ContentStep
<1>7. CASE Crash
  BY <1>t, <1>7 DEF Crash, ContentStep
<1>8. CASE Tick \/ UNCHANGED vars
  BY <1>u, <1>8 DEF Tick, vars
<1>9. QED  BY <1>1, <1>2, <1>3, <1>4, <1>5, <1>6, <1>7, <1>8 DEF Next, Handle, SweepStep

LEMMA EmptiedAtFirst == ASSUME NEW places PROVE Emptied(places, 1)
  BY Bounds DEF Emptied

LEMMA EmptiedStays ==
    ASSUME NEW places, NEW fewer \in SUBSET places, NEW next, Emptied(places, next)
    PROVE  Emptied(fewer, next)
  BY DEF Emptied

\* While nothing has failed, a purge that is under way after a step has gone through what it
\* says, whoever took the step.
LEMMA PurgesEmptyNext == ASSUME IInv, [Next]_vars, faults' = 0 PROVE PurgesEmpty'
<1>t. TypeInv /\ RecordsStep /\ ContentStep /\ faults = 0 /\ PurgesEmpty /\ ProjectsExist /\ SweepsAreDue
  BY RecordsNext, ContentNext, Bounds DEF IInv, ContentStep, TypeInv
<1> SUFFICES ASSUME NEW s \in Sweeper, sweep'[s] # Idle, sweep'[s].phase = "purge",
                    sweep'[s].todo # <<>>, Head(sweep'[s].todo) \notin late'
             PROVE  Emptied(content'[Head(sweep'[s].todo)], sweep'[s].next)
  BY DEF PurgesEmpty, Working, In
<1> DEFINE Goal == Emptied(content'[Head(sweep'[s].todo)], sweep'[s].next)
           p == Head(sweep[s].todo)
\* Of a sweep that stands still, and of one that goes on to its next project.
<1>q. ASSUME sweep'[s] = sweep[s] PROVE Goal
  <2>1. p \in Project /\ IsDeleted(projects[p].status) /\ p \notin late
    BY <1>q, <1>t, HeadFacts DEF SweepsAreDue, Due, ContentStep
  <2>2. content'[p] \subseteq content[p] /\ Emptied(content[p], sweep[s].next)
    BY <1>q, <1>t, <2>1 DEF ContentStep, PurgesEmpty, Working, In
  <2>3. QED  BY <1>q, <2>2, EmptiedStays
<1>f. ASSUME sweep'[s].next = 1 PROVE Goal
  BY <1>f, EmptiedAtFirst
<1>1. ASSUME NEW z \in Sweeper, StartSweep(z) PROVE Goal
  <2>1. PICK batch \in Seq(Project) : Enter(z, "expire", clock, batch)
    BY <1>1, BatchesAreProjects DEF StartSweep
  <2>2. QED  BY <1>q, <1>f, <1>t, <2>1, EnterFacts DEF TypeInv
<1>2. ASSUME NEW z \in Sweeper, AbandonedCandidates(z) \/ PurgeCandidates(z) PROVE Goal
  <2>1. PICK batch \in Seq(Project), phase \in {"queue", "purge"} : Enter(z, phase, sweep[z].now, batch)
    BY <1>2, BatchesAreProjects DEF AbandonedCandidates, PurgeCandidates
  <2>2. sweep[z] # Idle
    BY <1>2 DEF AbandonedCandidates, PurgeCandidates, Finished, In
  <2>3. QED  BY <1>q, <1>f, <1>t, <2>1, <2>2, SweepFacts, EnterFacts
<1>3. ASSUME NEW z \in Sweeper, MaterialiseExpiry(z) \/ QueueForDeletion(z) \/ FinishPurge(z) PROVE Goal
  BY <1>3, <1>q, <1>f, <1>t, NextProjectFacts DEF MaterialiseExpiry, QueueForDeletion, FinishPurge, Working, In
<1>4. ASSUME NEW z \in Sweeper, PurgeCollection(z) \/ PurgeStorage(z) PROVE Goal
  <2> DEFINE n == sweep[z].next
             N == Len(PurgeableCollections)
  <2>1. /\ sweep[z] # Idle /\ sweep[z].todo # <<>> /\ sweep[z].phase = "purge"
        /\ sweep' = [sweep EXCEPT ![z] = [sweep[z] EXCEPT !.next = n + 1]]
        /\ sweep[z] \in Sweep /\ n \in 1 .. N + 2 /\ N \in Nat
    BY <1>4, <1>t, SweepFacts, Bounds DEF PurgeCollection, PurgeStorage, Working, In
  <2>2. CASE z # s
    BY <1>t, <1>q, <2>1, <2>2 DEF TypeInv
  <2>3. CASE z = s
    <3>1. sweep'[s].todo = sweep[s].todo /\ sweep'[s].next = n + 1
      BY <1>t, <2>1, <2>3 DEF Sweep, TypeInv
    <3>2. p \in Project /\ p \notin late /\ content[p] \subseteq Place
      BY <1>t, <2>1, <2>3, <3>1, HeadFacts DEF ContentStep, TypeInv
    <3>3. Emptied(content[p], n)
      BY <1>t, <2>1, <2>3, <3>2 DEF PurgesEmpty, Working, In
    <3>4. CASE PurgeCollection(z)
      <4>1. content'[p] = content[p] \ {PurgeableCollections[n]} /\ n <= N
        BY <1>t, <2>3, <3>2, <3>4 DEF PurgeCollection, TypeInv
      <4>2. QED  BY <2>1, <3>1, <3>3, <4>1 DEF Emptied
    <3>5. CASE PurgeStorage(z)
      <4>1. content'[p] = content[p] \ {Storage} /\ n = N + 1
        BY <1>t, <2>3, <3>2, <3>5 DEF PurgeStorage, TypeInv
      <4>2. \A place \in Collection : place \notin content[p]
        BY <2>1, <3>3, <4>1, Bounds DEF Emptied, Collection
      <4>3. content'[p] = {}
        BY <3>2, <4>1, <4>2 DEF Place
      <4>4. QED  BY <3>1, <4>3 DEF Emptied
    <3>6. QED  BY <1>4, <3>4, <3>5
  <2>4. QED  BY <2>2, <2>3
<1>5. ASSUME NEW z \in Sweeper, EndSweep(z) PROVE Goal
  BY <1>5, <1>q, <1>t DEF EndSweep, TypeInv
<1>6. ASSUME NEW c \in Client, Ask(c) \/ Handle(c) PROVE Goal
  BY <1>6, <1>q
     DEF Ask, Handle, EndSession, CreateProject, VerifyRecoverySecret, UpdateSection, UpdateTimeline,
         UpdateStartDate, DeleteProject, BeginContent, CompareDates, ReadForUpdate, UpdateWithVersion,
         SoftDelete, MarkExpired, IssueSession, StoreContent
<1>7. ASSUME Crash \/ \E z \in Sweeper : SweepStumbles(z) PROVE FALSE
  BY <1>7, <1>t DEF Crash, SweepStumbles
<1>8. CASE Tick \/ UNCHANGED vars
  BY <1>8, <1>q DEF Tick, vars
<1>9. QED  BY <1>1, <1>2, <1>3, <1>4, <1>5, <1>6, <1>7, <1>8 DEF Next, SweepStep

\* A project becomes DELETED only at the end of its purge.
PurgeEnds(p) == \E s \in Sweeper : FinishPurge(s) /\ p = Head(sweep[s].todo)

LEMMA PurgedByPurge ==
    ASSUME IInv, [Next]_vars, NEW p \in Project, projects'[p] # Absent,
           projects'[p].status = "DELETED"
    PROVE  (Exists(p) /\ projects[p].status = "DELETED") \/ PurgeEnds(p)
<1> DEFINE Goal == (Exists(p) /\ projects[p].status = "DELETED") \/ PurgeEnds(p)
<1>t. TypeInv /\ clock \in Nat /\ ProjectsExist /\ HandlersKeepUp
  BY Bounds DEF IInv, TypeInv
<1>u. ASSUME projects' = projects PROVE Goal
  BY <1>u DEF Exists
\* A write of a record that is not DELETED, or was so before.
<1>w. ASSUME NEW q \in Project, NEW r, WriteProject(q, r),
             r.status = "DELETED" => Exists(q) /\ projects[q].status = "DELETED"
      PROVE  Goal
  <2>1. CASE p = q
    BY <1>w, <1>t, <2>1 DEF WriteProject, TypeInv
  <2>2. CASE p # q
    BY <1>w, <1>t, <2>2 DEF WriteProject, TypeInv, Exists
  <2>3. QED  BY <2>1, <2>2
<1>1. ASSUME NEW c \in Client, NEW q \in Project, CreateProject(c, q) PROVE Goal
  BY <1>1, <1>w DEF CreateProject, NewProject
<1>2. ASSUME NEW c \in Client, UpdateWithVersion(c) PROVE Goal
  <2> DEFINE h == request[c]
             r == projects[h.project]
  <2>1. /\ h.project \in Project /\ Exists(h.project) /\ r \in ProjectRecord /\ h.section \in Section
        /\ h.value \in Day /\ h.status \in ProjectStatus /\ IsMutable(h.status)
    BY <1>2, <1>t, HandlerFacts, ExistingRecord DEF UpdateWithVersion, At, ProjectsExist, HandlersKeepUp
  <2>2. Edited(r, h.section, h.value, h.status).status # "DELETED"
    BY <2>1, EditedFacts DEF IsMutable
  <2>3. QED  BY <1>2, <1>w, <2>1, <2>2 DEF UpdateWithVersion
<1>3. ASSUME NEW c \in Client, SoftDelete(c) PROVE Goal
  <2> DEFINE h == request[c]
             r == projects[h.project]
  <2>1. h.project \in Project /\ r \in ProjectRecord
    BY <1>3, <1>t, HandlerFacts, ExistingRecord DEF SoftDelete, At, ProjectsExist
  <2>2. SoftDeleted(r, clock).status # "DELETED"
    BY <1>t, <2>1, SoftDeletedFacts
  <2>3. QED  BY <1>3, <1>u, <1>w, <2>1, <2>2 DEF SoftDelete
<1>4. ASSUME NEW c \in Client, MarkExpired(c) PROVE Goal
  <2> DEFINE r == projects[request[c].project]
  <2>1. request[c].project \in Project /\ Exists(request[c].project) /\ r \in ProjectRecord
    BY <1>4, <1>t, HandlerFacts, ExistingRecord DEF MarkExpired, At, ProjectsExist
  <2>2. MarkedExpired(r).status = "DELETED" => r.status = "DELETED"
    BY <2>1, MarkedExpiredFacts DEF ProjectRecord
  <2>3. QED  BY <1>4, <1>w, <2>1, <2>2 DEF MarkExpired
<1>h. ASSUME NEW s \in Sweeper, MaterialiseExpiry(s) \/ QueueForDeletion(s)
      PROVE  /\ Head(sweep[s].todo) \in Project /\ Exists(Head(sweep[s].todo))
             /\ projects[Head(sweep[s].todo)] \in ProjectRecord
  BY <1>h, <1>t, HeadFacts, ExistingRecord DEF MaterialiseExpiry, QueueForDeletion, Working, In, ProjectsExist
<1>5. ASSUME NEW s \in Sweeper, MaterialiseExpiry(s) PROVE Goal
  <2>1. "EXPIRED" \in ProjectStatus
    BY DEF ProjectStatus
  <2>2. QED  BY <1>5, <1>w, <1>h, <2>1, TransitionedFacts DEF MaterialiseExpiry
<1>6. ASSUME NEW s \in Sweeper, QueueForDeletion(s) PROVE Goal
  <2> DEFINE q == Head(sweep[s].todo)
             queued == Transitioned(projects[q], {"EXPIRED"}, "DELETION_PENDING")
  <2>1. "DELETION_PENDING" \in ProjectStatus
    BY DEF ProjectStatus
  <2>2. queued \in ProjectRecord /\ (queued.status = "DELETED" => projects[q].status = "DELETED")
    BY <1>h, <1>6, <2>1, TransitionedFacts
  <2>3. PICK r : WriteProject(q, r) /\ r \in {queued, [queued EXCEPT !.deletionRequestedAt = sweep[s].now]}
    BY <1>6 DEF QueueForDeletion
  <2>4. r.status = queued.status
    <3> HIDE DEF queued
    <3>1. QED  BY <2>2, <2>3 DEF ProjectRecord
  <2>5. QED  BY <1>w, <1>h, <1>6, <2>2, <2>3, <2>4
<1>7. ASSUME NEW s \in Sweeper, FinishPurge(s) PROVE Goal
  <2>1. CASE p = Head(sweep[s].todo)
    BY <1>7, <2>1 DEF PurgeEnds
  <2>2. CASE p # Head(sweep[s].todo)
    BY <1>7, <1>t, <2>2 DEF FinishPurge, WriteProject, TypeInv, Exists
  <2>3. QED  BY <2>1, <2>2
<1>8. ASSUME NEW c \in Client,
             \/ EndSession(c) \/ CompareDates(c) \/ ReadForUpdate(c) \/ IssueSession(c) \/ StoreContent(c)
             \/ \E q \in Project :
                   \/ VerifyRecoverySecret(c, q) \/ UpdateSection(c, q) \/ UpdateTimeline(c, q)
                   \/ UpdateStartDate(c, q) \/ DeleteProject(c, q) \/ BeginContent(c, q)
      PROVE  Goal
  BY <1>8, <1>u DEF EndSession, CompareDates, ReadForUpdate, IssueSession, StoreContent,
     VerifyRecoverySecret, UpdateSection, UpdateTimeline, UpdateStartDate, DeleteProject, BeginContent
<1>9. ASSUME NEW s \in Sweeper,
             \/ StartSweep(s) \/ AbandonedCandidates(s) \/ PurgeCandidates(s) \/ PurgeCollection(s)
             \/ PurgeStorage(s) \/ EndSweep(s) \/ SweepStumbles(s)
      PROVE  Goal
  BY <1>9, <1>u DEF StartSweep, AbandonedCandidates, PurgeCandidates, PurgeCollection, PurgeStorage,
     EndSweep, SweepStumbles
<1>10. CASE Crash \/ Tick \/ UNCHANGED vars
  BY <1>10, <1>u DEF Crash, Tick, vars
<1>11. QED
  BY <1>1, <1>2, <1>3, <1>4, <1>5, <1>6, <1>7, <1>8, <1>9, <1>10 DEF Next, Ask, Handle, SweepStep

LEMMA PurgedIsEmptyNext == ASSUME IInv, [Next]_vars PROVE PurgedIsEmpty'
<1>t. TypeInv /\ ContentStep /\ PurgedIsEmpty
  BY ContentNext DEF IInv
<1> SUFFICES ASSUME faults' = 0, NEW p \in Project, p \notin late', projects'[p] # Absent,
                    projects'[p].status = "DELETED"
             PROVE  content'[p] = {}
  BY DEF PurgedIsEmpty, Exists
<1>1. faults = 0 /\ p \notin late
  BY <1>t, Bounds DEF ContentStep, TypeInv
<1>2. CASE Exists(p) /\ projects[p].status = "DELETED"
  BY <1>t, <1>1, <1>2 DEF PurgedIsEmpty, ContentStep, IsDeleted
<1>3. CASE PurgeEnds(p)
  <2>1. PICK s \in Sweeper : FinishPurge(s) /\ p = Head(sweep[s].todo)
    BY <1>3 DEF PurgeEnds
  <2>2. Emptied(content[p], sweep[s].next) /\ sweep[s].next = Len(PurgeableCollections) + 2
    BY <1>1, <2>1 DEF FinishPurge, IInv, PurgesEmpty
  <2>3. QED  BY <2>1, <2>2 DEF FinishPurge, Emptied
<1>4. QED  BY <1>2, <1>3, PurgedByPurge

LEMMA IInvInit == Init => IInv
  BY TypeInvInit
     DEF Init, IInv, ProjectsExist, HandlersKeepUp, SweepsAreDue, PurgesEmpty, Working, In, PurgedIsEmpty,
         Exists

LEMMA Invariance == Spec => []IInv
<1>1. IInv /\ [Next]_vars => IInv'
  BY TypeInvNext, ProjectsExistNext, HandlersKeepUpNext, SweepsAreDueNext, PurgesEmptyNext,
     PurgedIsEmptyNext
     DEF IInv
<1>2. QED  BY IInvInit, <1>1, PTL DEF Spec

-----------------------------------------------------------------------------
(* Theorems *)

\* Records keep their shape and a deadline never comes before the start, whoever set which of them
\* when: applyUpdate compares the version again after rejectContradictoryDates read the other date.
THEOREM TypeCorrect == Spec => []TypeInv
  BY Invariance, PTL DEF IInv

\* Unless an operation failed or something was stored after the deletion, nothing is left of a
\* purged project: purge marks it DELETED after every collection and the files.
THEOREM PurgedProjectsAreEmpty == Spec => []PurgedIsEmpty
  BY Invariance, PTL DEF IInv

\* A deletion is never undone: updateWithVersion and softDelete write only while the version is
\* still the one they read, and the changes of the sweep and of markExpired ask for the status.
THEOREM DeletionsAreFinal == Spec => DeletionIsFinal
<1>1. IInv /\ [Next]_vars =>
        [\A p \in Project : Exists(p) /\ IsDeleted(projects[p].status) =>
            \/ projects'[p].status = projects[p].status
            \/ projects'[p].status = "DELETED"]_vars
  BY RecordsNext DEF RecordsStep, Succeeds
<1>2. QED  BY Invariance, <1>1, PTL DEF Spec, DeletionIsFinal

\* Content goes only from a project whose deletion has been pending for the whole grace period:
\* the candidates purgeEligible has picked stay eligible however many sweeps and clients act.
THEOREM PurgesAreDue == Spec => NothingPurgedEarly
<1> DEFINE Kept(p) == content[p] \subseteq content'[p]
           IsDue(p) == /\ projects[p].status \in {"DELETION_PENDING", "DELETED"}
                       /\ projects[p].deletionRequestedAt + DeletionGraceDays <= clock
<1>1. ASSUME IInv, [Next]_vars, NEW p \in Project PROVE Kept(p) \/ IsDue(p)
  <2>t. TypeInv /\ SweepsAreDue
    BY <1>1 DEF IInv
  <2>u. ASSUME content' = content PROVE Kept(p)
    BY <2>u
  <2>1. ASSUME NEW s \in Sweeper, PurgeCollection(s) \/ PurgeStorage(s) PROVE Kept(p) \/ IsDue(p)
    <3>1. CASE p = Head(sweep[s].todo)
      BY <2>1, <2>t, <3>1, HeadFacts DEF PurgeCollection, PurgeStorage, Working, In, SweepsAreDue, Due, IsDeleted
    <3>2. CASE p # Head(sweep[s].todo)
      BY <2>1, <2>t, <3>2 DEF PurgeCollection, PurgeStorage, TypeInv
    <3>3. QED  BY <3>1, <3>2
  <2>2. ASSUME NEW c \in Client, StoreContent(c) PROVE Kept(p)
    BY <2>2, <2>t DEF StoreContent, TypeInv
  <2>3. ASSUME NEW c \in Client, Ask(c) PROVE Kept(p)
    BY <2>u, <2>3
       DEF Ask, EndSession, CreateProject, VerifyRecoverySecret, UpdateSection, UpdateTimeline,
           UpdateStartDate, DeleteProject, BeginContent
  <2>4. ASSUME NEW c \in Client,
               \/ CompareDates(c) \/ ReadForUpdate(c) \/ UpdateWithVersion(c)
               \/ SoftDelete(c) \/ MarkExpired(c) \/ IssueSession(c)
        PROVE  Kept(p)
    BY <2>u, <2>4 DEF CompareDates, ReadForUpdate, UpdateWithVersion, SoftDelete, MarkExpired, IssueSession
  <2>5. ASSUME NEW s \in Sweeper,
               \/ StartSweep(s) \/ MaterialiseExpiry(s) \/ AbandonedCandidates(s) \/ QueueForDeletion(s)
               \/ PurgeCandidates(s) \/ FinishPurge(s) \/ EndSweep(s) \/ SweepStumbles(s)
        PROVE  Kept(p)
    BY <2>u, <2>5
       DEF StartSweep, MaterialiseExpiry, AbandonedCandidates, QueueForDeletion, PurgeCandidates,
           FinishPurge, EndSweep, SweepStumbles
  <2>6. CASE Crash \/ Tick \/ UNCHANGED vars
    BY <2>u, <2>6 DEF Crash, Tick, vars
  <2>7. QED  BY <1>1, <2>1, <2>2, <2>3, <2>4, <2>5, <2>6 DEF Next, Handle, SweepStep
<1>2. IInv /\ [Next]_vars => [\A p \in Project : Kept(p) \/ IsDue(p)]_vars
  BY <1>1
<1>3. QED  BY Invariance, <1>2, PTL DEF Spec, NothingPurgedEarly
=============================================================================
