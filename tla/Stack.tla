-------------------------------- MODULE Stack --------------------------------
(***************************************************************************)
(* The technology stack of one project. A version of the stack is a        *)
(* snapshot; its components are rows of their own, each with its own       *)
(* record version. A person selects technologies, accepts or turns down    *)
(* the model's suggestions, approves the version and locks it; unlocking   *)
(* goes on with a copy.                                                    *)
(*                                                                         *)
(* No operation is one transaction: the snapshot is read and checked, the  *)
(* components are written, the blockers are worked out again and stored.   *)
(* One action is one of these steps. A read and a write that is filtered   *)
(* on the version read are one action, as nothing can come between them    *)
(* and the write still happen.                                             *)
(***************************************************************************)
EXTENDS VersionedPlan

CONSTANTS
    Categories,
    Multiple,          \* the categories that hold several technologies
    ProjectTypes,
    Unconfirmed,       \* the type from which nothing can be planned
    Required(_),       \* the categories a project of a type must fill
    Technologies,
    Risky,             \* those with a finding a person may acknowledge
    Impossible,        \* those with a finding nobody can
    MaxComponents,     \* bound: components ever
    MaxStackRequests,  \* bound: requests that begin
    MaxCrashes         \* bound: requests that die half-way

VARIABLES
    approvedBaseline,  \* the approved baseline's version, 0 for none, and whether it is current
    types,             \* the project's type
    stacks,            \* a row per version of the stack
    components,        \* a row per component of any version
    planning,          \* per request, where it is and what it has read
    recommending,      \* the requests whose recommendation run is stored as running
    abandoned,         \* whether a run is stored as running whose request has died
    projectChanges, stackRequests, crashes  \* how many there have been

Project == <<approvedBaseline, types, projectChanges>>
Recommendations == <<recommending, abandoned>>
stackVars == <<Project, stacks, components, planning, Recommendations, stackRequests, crashes>>

StackStatus == {"DRAFT", "REVIEW_REQUIRED", "READY_FOR_APPROVAL", "APPROVED", "LOCKED",
                "OUTDATED", "SUPERSEDED"}
ComponentStatus == {"AI_RECOMMENDED", "USER_SELECTED", "USER_APPROVED", "LOCKED",
                    "REJECTED", "SUPERSEDED"}
IsDecided(status) == status \in {"USER_SELECTED", "USER_APPROVED", "LOCKED"}
IsLive(component) == component.status \notin {"REJECTED", "SUPERSEDED"}

\* A suggestion may replace a suggestion, and nothing a person decided.
AiMayReplace(status) == ~IsDecided(status)

CanTransitionComponent(from, to) ==
    to \in CASE from = "AI_RECOMMENDED" ->
                  {"USER_SELECTED", "USER_APPROVED", "REJECTED", "SUPERSEDED", "AI_RECOMMENDED"}
             [] from = "USER_SELECTED" -> {"USER_APPROVED", "USER_SELECTED", "REJECTED", "SUPERSEDED"}
             [] from = "USER_APPROVED" -> {"LOCKED", "USER_SELECTED", "SUPERSEDED"}
             [] from = "LOCKED" -> {"USER_APPROVED"}
             [] from = "REJECTED" -> {"USER_SELECTED", "AI_RECOMMENDED"}
             [] OTHER -> {}

StackVersion == [version : 1 .. MaxVersions, status : StackStatus, recordVersion : Nat,
             baseline : 0 .. MaxUpstream + 1, types : ProjectTypes]
Component == [stack : 1 .. MaxVersions, category : Categories, technology : Technologies,
              status : ComponentStatus, acknowledged : BOOLEAN, recordVersion : Nat]

StackStages == {"idle", "first", "open", "supersede", "create", "approve", "lock", "seal",
           "carry", "copy", "retire", "recommend", "answer", "suggest", "refresh", "store"}

\* row: the snapshot read, at record version expected; seen: the components read, each with
\* its record version; category: the one being filled; next: what is about to be stored.
AtRest == [at |-> "idle", row |-> 0, expected |-> 0, seen |-> {}, category |-> "none", next |-> "none"]

IsAt(c, stage) == planning[c].at = stage
BeginOn(c) == IsAt(c, "idle") /\ stackRequests < MaxStackRequests /\ stackRequests' = stackRequests + 1
GoOn(c, stage) == planning' = [planning EXCEPT ![c].at = stage]
Leave(c) == planning' = [planning EXCEPT ![c] = AtRest]

\* What a request has read of a version's components.
ComponentsOf(version) == {i \in DOMAIN components : components[i].stack = version}
LiveOf(version) == {i \in ComponentsOf(version) : IsLive(components[i])}
Seen(ids) == {<<i, components[i].recordVersion>> : i \in ids}
MyVersion(c) == stacks[planning[c].row].version

\* updateComponent, its result looked at or not.
SetComponent(i, status) ==
    [components EXCEPT ![i] = [Written(@) EXCEPT !.status = status]]
SetAnyway(seen, status) == \* faulty: not filtered on the record version
    [i \in DOMAIN components |->
        IF \E s \in seen : s[1] = i
        THEN [Written(components[i]) EXCEPT !.status = status] ELSE components[i]]
\* The same over what was read: rows changed since are left alone.
SetSeen(seen, status) ==
    [i \in DOMAIN components |->
        IF <<i, components[i].recordVersion>> \in seen
        THEN [Written(components[i]) EXCEPT !.status = status] ELSE components[i]]

NewComponent(version, category, technology, status) ==
    [stack |-> version, category |-> category, technology |-> technology,
     status |-> status, acknowledged |-> FALSE, recordVersion |-> 0]

-----------------------------------------------------------------------------
(* Blockers *)

\* A stack made before any baseline was approved stands on whichever is.
StandsOnCurrent(s) ==
    approvedBaseline.current /\ (s.baseline # 0 => s.baseline = approvedBaseline.version)

\* calculateStackBlockers, over what assemble reads.
StackBlockers(s) ==
    LET live == LiveOf(s.version)
        decided == {components[i].category : i \in {j \in live : IsDecided(components[j].status)}}
        blocking == {i \in live : components[i].technology \in Impossible}
        risks == {i \in live : components[i].technology \in Risky /\ ~components[i].acknowledged}
        If(p, kind) == IF p THEN {kind} ELSE {}
    IN  IF approvedBaseline.version = 0 THEN {"baseline_not_approved"}
        ELSE IF types = Unconfirmed THEN {"project_type_unconfirmed"}
        ELSE If(s.types # types, "project_type_changed")
             \cup If(~StandsOnCurrent(s), "baseline_not_current")
             \cup (IF live = {} THEN {"empty_stack"}
                   ELSE If(~(Required(s.types) \subseteq decided), "undecided_required_category")
                        \cup If(\E i \in live : components[i].status = "AI_RECOMMENDED",
                                "undecided_recommendation")
                        \cup If(blocking # {}, "blocking_compatibility")
                        \cup If(risks # {}, "unacknowledged_risk"))

StatusAfter(status, blocked) ==
    IF status \in {"LOCKED", "SUPERSEDED", "APPROVED", "OUTDATED"} THEN status
    ELSE IF blocked THEN "REVIEW_REQUIRED" ELSE "READY_FOR_APPROVAL"

-----------------------------------------------------------------------------
StackInit ==
    /\ types \in ProjectTypes
    /\ \/ /\ stacks = <<>> /\ components = <<>>
          /\ \E v \in {0, 1} : approvedBaseline = [version |-> v, current |-> v = 1]
       \* or a version has been approved
       \/ /\ approvedBaseline = [version |-> 1, current |-> TRUE]
          /\ types # Unconfirmed
          /\ \E category \in Categories, t \in Technologies \ (Risky \cup Impossible) :
               /\ Required(types) \subseteq {category}
               /\ components = <<NewComponent(1, category, t, "USER_SELECTED")>>
          /\ stacks = <<[version |-> 1, status |-> "APPROVED", recordVersion |-> 1,
                            baseline |-> 1, types |-> types]>>
    /\ planning = [c \in Clients |-> AtRest]
    /\ recommending = {} /\ abandoned = FALSE
    /\ projectChanges = 0 /\ stackRequests = 0 /\ crashes = 0

(* Upstream: a baseline is approved or goes out of date, the project type changes *)

ChangeProject ==
    /\ projectChanges < MaxUpstream
    /\ projectChanges' = projectChanges + 1
    /\ \/ /\ approvedBaseline' = [version |-> approvedBaseline.version + 1, current |-> TRUE]
          /\ UNCHANGED types
       \/ /\ approvedBaseline.current
          /\ approvedBaseline' = [approvedBaseline EXCEPT !.current = FALSE]
          /\ UNCHANGED types
       \/ /\ types' \in ProjectTypes \ {types}
          /\ UNCHANGED approvedBaseline
    /\ UNCHANGED <<stacks, components, planning, Recommendations, stackRequests, crashes>>

(* The first snapshot *)

\* current finds none ...
AskForStack(c) ==
    /\ BeginOn(c)
    /\ Currents(stacks) = {}
    /\ GoOn(c, "first")
    /\ UNCHANGED <<Project, stacks, components, Recommendations, crashes>>

\* ... and creates it.
CreateFirst(c) ==
    /\ IsAt(c, "first")
    /\ NextVersion(stacks) <= MaxVersions
    /\ stacks' = Append(stacks,
         [version |-> NextVersion(stacks), status |-> "DRAFT", recordVersion |-> 0,
          baseline |-> approvedBaseline.version, types |-> types])
    /\ Leave(c)
    /\ UNCHANGED <<Project, components, Recommendations, stackRequests, crashes>>

(* Reading the snapshot. A request with another record version than the row's, or refused *)
(* for its status, changes nothing. *)

Open(c, s, stage) ==
    planning' = [planning EXCEPT ![c] = [AtRest EXCEPT !.at = stage, !.row = s,
                                             !.expected = stacks[s].recordVersion]]

\* editable
OpenStack(c) ==
    /\ BeginOn(c)
    /\ \E s \in Currents(stacks) : stacks[s].status # "LOCKED" /\ Open(c, s, "open")
    /\ UNCHANGED <<Project, stacks, components, Recommendations, crashes>>

\* setMode changes no decision; its write only raises the record version.
SetMode(c) ==
    /\ IsAt(c, "open")
    /\ CanUpdate(stacks, planning[c].row, planning[c].expected)
    /\ stacks' = [stacks EXCEPT ![planning[c].row] = Written(@)]
    /\ Leave(c)
    /\ UNCHANGED <<Project, components, Recommendations, stackRequests, crashes>>

\* What was asked for is not possible: locked, not offered, not found.
RefuseStack(c) ==
    /\ IsAt(c, "open")
    /\ Leave(c)
    /\ UNCHANGED <<Project, stacks, components, Recommendations, stackRequests, crashes>>

-----------------------------------------------------------------------------
(* Components *)

\* liveInCategory
Select(c, category) ==
    LET existing == {i \in LiveOf(MyVersion(c)) : components[i].category = category}
    IN  /\ IsAt(c, "open")
        /\ \A i \in existing : components[i].status # "LOCKED"
        /\ planning' = [planning EXCEPT ![c].category = category, ![c].seen = Seen(existing),
              ![c].at = IF existing # {} /\ category \notin Multiple THEN "supersede" ELSE "create"]
        /\ UNCHANGED <<Project, stacks, components, Recommendations, stackRequests, crashes>>

SupersedeExisting(c) ==
    /\ IsAt(c, "supersede")
    /\ components' = SetSeen(planning[c].seen, "SUPERSEDED")
    /\ GoOn(c, "create")
    /\ UNCHANGED <<Project, stacks, Recommendations, stackRequests, crashes>>

\* Into the version read at the start, whatever has become of it.
CreateComponent(c, technology) ==
    /\ IsAt(c, "create") /\ Len(components) < MaxComponents
    /\ components' = Append(components,
         NewComponent(MyVersion(c), planning[c].category, technology, "USER_SELECTED"))
    /\ GoOn(c, "refresh")
    /\ UNCHANGED <<Project, stacks, Recommendations, stackRequests, crashes>>

\* decide: accept, reject or replace.
Decide(c, i) ==
    /\ IsAt(c, "open") /\ i \in DOMAIN components
    /\ components[i].status = "AI_RECOMMENDED"
    /\ \/ components' = SetComponent(i, "USER_APPROVED") /\ GoOn(c, "refresh")
       \/ components' = SetComponent(i, "REJECTED") /\ GoOn(c, "refresh")
       \/ /\ components' = SetComponent(i, "SUPERSEDED")
          /\ planning' = [planning EXCEPT ![c].at = "create", ![c].category = components[i].category]
    /\ UNCHANGED <<Project, stacks, Recommendations, stackRequests, crashes>>

LockComponent(c, i) ==
    /\ IsAt(c, "open") /\ i \in DOMAIN components
    /\ CanTransitionComponent(components[i].status, "LOCKED")
    /\ components' = SetComponent(i, "LOCKED")
    /\ GoOn(c, "refresh")
    /\ UNCHANGED <<Project, stacks, Recommendations, stackRequests, crashes>>

\* Also of a locked stack; a lost update is not noticed.
UnlockComponent(c, i) ==
    /\ BeginOn(c) /\ i \in DOMAIN components
    /\ components[i].status = "LOCKED"
    /\ \E s \in Currents(stacks) : Open(c, s, "refresh")
    /\ components' = SetComponent(i, "USER_APPROVED")
    /\ UNCHANGED <<Project, stacks, Recommendations, crashes>>

AcknowledgeRisk(c, i) ==
    /\ IsAt(c, "open") /\ i \in LiveOf(MyVersion(c))
    /\ components[i].technology \in Risky /\ ~components[i].acknowledged
    /\ components' = [components EXCEPT ![i] = [Written(@) EXCEPT !.acknowledged = TRUE]]
    /\ GoOn(c, "refresh")
    /\ UNCHANGED <<Project, stacks, Recommendations, stackRequests, crashes>>

\* recalculate: the snapshot that is current now ...
RefreshStack(c) ==
    /\ IsAt(c, "refresh")
    /\ \E s \in IF Currents(stacks) = {} THEN {planning[c].row} ELSE Currents(stacks) :
         planning' = [planning EXCEPT ![c] = [AtRest EXCEPT !.at = "store", !.row = s,
                    !.expected = stacks[s].recordVersion,
                    !.next = StatusAfter(stacks[s].status, StackBlockers(stacks[s]) # {})]]
    /\ UNCHANGED <<Project, stacks, components, Recommendations, stackRequests, crashes>>

\* ... is given the status that follows, if nobody has written it meanwhile.
StoreStack(c) ==
    /\ IsAt(c, "store")
    /\ stacks' = IF CanUpdate(stacks, planning[c].row, planning[c].expected)
                    THEN [stacks EXCEPT ![planning[c].row] = [Written(@) EXCEPT !.status = planning[c].next]]
                    ELSE stacks
    /\ Leave(c)
    /\ UNCHANGED <<Project, components, Recommendations, stackRequests, crashes>>

-----------------------------------------------------------------------------
(* Approving, locking and unlocking *)

CheckStack(c) ==
    /\ BeginOn(c)
    /\ \E s \in Currents(stacks) :
         /\ stacks[s].status \notin {"LOCKED", "APPROVED"}
         /\ StackBlockers(stacks[s]) = {}
         /\ Open(c, s, "approve")
    /\ UNCHANGED <<Project, stacks, components, Recommendations, crashes>>

\* A snapshot's versioned write, or the conflict that ends the request.
Finish(c, status) ==
    /\ stacks' = IF CanUpdate(stacks, planning[c].row, planning[c].expected)
                    THEN [stacks EXCEPT ![planning[c].row] = [Written(@) EXCEPT !.status = status]]
                    ELSE stacks
    /\ Leave(c)

ApproveStack(c) ==
    /\ IsAt(c, "approve")
    /\ Finish(c, "APPROVED")
    /\ UNCHANGED <<Project, components, Recommendations, stackRequests, crashes>>

SealableLive(version) == LiveOf(version) \* faulty: every live component
\* What a lock seals: the components a person decided.
Sealable(version) ==
    {i \in ComponentsOf(version) : components[i].status \in {"USER_APPROVED", "USER_SELECTED"}}

LockRead(c) ==
    /\ BeginOn(c)
    /\ \E s \in Currents(stacks) :
         /\ stacks[s].status = "APPROVED"
         /\ planning' = [planning EXCEPT ![c] = [AtRest EXCEPT !.at = "lock", !.row = s,
                       !.expected = stacks[s].recordVersion,
                       !.seen = Seen(Sealable(stacks[s].version))]]
    /\ UNCHANGED <<Project, stacks, components, Recommendations, crashes>>

LockComponents(c) ==
    /\ IsAt(c, "lock")
    /\ components' = SetSeen(planning[c].seen, "LOCKED")
    /\ planning' = [planning EXCEPT ![c].at = "seal", ![c].seen = {}]
    /\ UNCHANGED <<Project, stacks, Recommendations, stackRequests, crashes>>

LockSnapshot(c) ==
    /\ IsAt(c, "seal")
    /\ Finish(c, "LOCKED")
    /\ UNCHANGED <<Project, components, Recommendations, stackRequests, crashes>>

UnlockRead(c) ==
    /\ BeginOn(c)
    /\ \E s \in Currents(stacks) : stacks[s].status = "LOCKED" /\ Open(c, s, "carry")
    /\ UNCHANGED <<Project, stacks, components, Recommendations, crashes>>

\* A copy's locks are not inherited.
Copy(component, version) ==
    [component EXCEPT !.stack = version, !.recordVersion = 0,
                      !.status = IF @ = "LOCKED" THEN "USER_APPROVED" ELSE @]

\* nextSnapshotVersion and carryForward; expected now holds the new number.
CarryComponents(c) ==
    LET next == NextVersion(stacks)
        copies == [n \in 1 .. Cardinality(LiveOf(MyVersion(c))) |->
                     Copy(components[CHOOSE i \in LiveOf(MyVersion(c)) :
                            Cardinality({j \in LiveOf(MyVersion(c)) : j <= i}) = n], next)]
    IN  /\ IsAt(c, "carry")
        /\ next <= MaxVersions /\ Len(components) + Len(copies) <= MaxComponents
        /\ components' = components \o copies
        /\ planning' = [planning EXCEPT ![c].at = "copy", ![c].expected = next]
        /\ UNCHANGED <<Project, stacks, Recommendations, stackRequests, crashes>>

\* The copy stands on the baseline and the project type the old version stood on.
CreateUnlocked(c) ==
    /\ IsAt(c, "copy")
    /\ stacks' = Append(stacks,
         [stacks[planning[c].row] EXCEPT !.version = planning[c].expected, !.status = "DRAFT",
                                        !.recordVersion = 0])
    /\ GoOn(c, "retire")
    /\ UNCHANGED <<Project, components, Recommendations, stackRequests, crashes>>

RetireStack(c) ==
    /\ IsAt(c, "retire")
    /\ stacks' = Superseded(stacks, planning[c].expected)
    /\ Leave(c)
    /\ UNCHANGED <<Project, components, Recommendations, stackRequests, crashes>>

-----------------------------------------------------------------------------
(* Suggestions *)

\* categoriesToFill
ToFill(version) ==
    Categories \ {components[i].category : i \in LiveOf(version)}

\* No run is stored as running, and some category is empty.
RecommendRead(c) ==
    /\ IsAt(c, "open")
    /\ recommending = {} /\ ~abandoned
    /\ ToFill(MyVersion(c)) # {}
    /\ planning' = [planning EXCEPT ![c].at = "recommend", ![c].seen = Seen(LiveOf(MyVersion(c)))]
    /\ UNCHANGED <<Project, stacks, components, Recommendations, stackRequests, crashes>>

CreateRecommendation(c) ==
    /\ IsAt(c, "recommend")
    /\ recommending' = recommending \cup {c}
    /\ GoOn(c, "answer")
    /\ UNCHANGED <<Project, stacks, components, abandoned, stackRequests, crashes>>

FailRun(c) == recommending' = recommending \ {c}

\* The model fails, and the run says so ...
SuggestionFails(c) ==
    /\ IsAt(c, "answer")
    /\ FailRun(c)
    /\ Leave(c)
    /\ UNCHANGED <<Project, stacks, components, abandoned, stackRequests, crashes>>

\* ... or suggests technologies for categories that were empty when the components were read.
\* What is checked again at each write is that same reading.
Suggest(c, category, technology) ==
    /\ IsAt(c, "answer") \/ IsAt(c, "suggest")
    /\ Len(components) < MaxComponents
    /\ ~\E s \in planning[c].seen : components[s[1]].category = category
    /\ components' = Append(components,
         NewComponent(MyVersion(c), category, technology, "AI_RECOMMENDED"))
    /\ planning' = [planning EXCEPT ![c].at = "suggest", ![c].seen = @ \cup {<<Len(components'), 0>>}]
    /\ UNCHANGED <<Project, stacks, Recommendations, stackRequests, crashes>>

\* The run is done, and the current snapshot is told which run was last.
EndRecommendation(c) ==
    /\ IsAt(c, "answer") \/ IsAt(c, "suggest")
    /\ recommending' = recommending \ {c}
    /\ \/ \E s \in Currents(stacks) : stacks' = [stacks EXCEPT ![s] = Written(@)]
       \/ Currents(stacks) = {} /\ UNCHANGED stacks
    /\ Leave(c)
    /\ UNCHANGED <<Project, components, abandoned, stackRequests, crashes>>

-----------------------------------------------------------------------------
\* A request dies where it is: the process stops, or the database does not answer.
Crash(c) ==
    /\ crashes < MaxCrashes /\ ~IsAt(c, "idle")
    /\ crashes' = crashes + 1
    /\ Leave(c)
    /\ recommending' = recommending \ {c}
    /\ abandoned' = (abandoned \/ c \in recommending)
    /\ UNCHANGED <<Project, stacks, components, stackRequests>>

StackStep(c) ==
    \/ CreateFirst(c) \/ RefuseStack(c)
    \/ SupersedeExisting(c)
    \/ \E t \in Technologies : CreateComponent(c, t)
    \/ RefreshStack(c) \/ StoreStack(c)
    \/ ApproveStack(c)
    \/ LockComponents(c) \/ LockSnapshot(c)
    \/ CarryComponents(c) \/ CreateUnlocked(c) \/ RetireStack(c)
    \/ CreateRecommendation(c) \/ SuggestionFails(c) \/ EndRecommendation(c)
    \/ \E k \in Categories, t \in Technologies : Suggest(c, k, t)

StackRequest(c) ==
    \/ AskForStack(c) \/ OpenStack(c) \/ SetMode(c)
    \/ \E k \in Categories : Select(c, k)
    \/ \E i \in DOMAIN components :
         Decide(c, i) \/ LockComponent(c, i) \/ UnlockComponent(c, i) \/ AcknowledgeRisk(c, i)
    \/ CheckStack(c) \/ LockRead(c) \/ UnlockRead(c)
    \/ RecommendRead(c)

StackNext == ChangeProject \/ \E c \in Clients : StackRequest(c) \/ StackStep(c) \/ Crash(c)

StackSpec == StackInit /\ [][StackNext]_stackVars

-----------------------------------------------------------------------------
(* Properties *)

(***************************************************************************)
(* Records keep their shape, and a recommendation run that is stored as    *)
(* running belongs to a request that is still waiting for the model or     *)
(* storing its answer: no way out of a request, but a crash, leaves one    *)
(* behind, which would refuse every other.                                 *)
(***************************************************************************)
StackTypeInv ==
    /\ approvedBaseline \in [version : 0 .. MaxUpstream + 1, current : BOOLEAN]
    /\ types \in ProjectTypes
    /\ \A s \in DOMAIN stacks : stacks[s] \in StackVersion
    /\ \A i \in DOMAIN components : components[i] \in Component
    /\ \A c \in Clients : planning[c].at \in StackStages /\ planning[c].row \in 0 .. Len(stacks)
    /\ recommending \subseteq {c \in Clients : planning[c].at \in {"answer", "suggest"}}
    /\ abandoned \in BOOLEAN

(***************************************************************************)
(* A locked technology is a wall: whatever else is in flight, with         *)
(* whatever it read before the lock, a locked component only ever becomes  *)
(* approved again, by being unlocked.                                      *)
(***************************************************************************)
LockIsAWall ==
    [][\A i \in DOMAIN components :
         components[i].status = "LOCKED" =>
           components'[i].status \in {"LOCKED", "USER_APPROVED"}]_components

(***************************************************************************)
(* A suggestion is sealed only after a person took it: locking a stack in  *)
(* which suggestions have appeared meanwhile seals none of them, and a     *)
(* copy of it turns none into a decision.                                  *)
(***************************************************************************)
OnlyDecisionsAreSealed ==
    [][/\ \A i \in DOMAIN components :
            components'[i].status = "LOCKED" => IsDecided(components[i].status)
       /\ \A i \in DOMAIN components' \ DOMAIN components :
            components'[i].status = "USER_APPROVED" =>
              \E j \in DOMAIN components :
                /\ components[j].category = components'[i].category
                /\ components[j].technology = components'[i].technology
                /\ IsDecided(components[j].status)]_components

-----------------------------------------------------------------------------
(* What unlock is for, and two at once undo *)

(***************************************************************************)
(* Once a project has a stack, some version of it stands: work goes on     *)
(* with a copy (unlock).                                                   *)
(***************************************************************************)
WorkContinues == stacks # <<>> => Currents(stacks) # {}
=============================================================================
