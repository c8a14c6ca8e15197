---------------------------- MODULE Planning_proofs ----------------------------
(***************************************************************************)
(* What holds of any number of requests, versions, components and lines.   *)
(*                                                                         *)
(* Stack: every write of a component raises its record version, so a       *)
(* component that still has the version a request read is still what the   *)
(* request read: not locked where it is about to supersede, and decided by *)
(* a person where it is about to lock.                                     *)
(*                                                                         *)
(* Estimation: every write of a version raises its record version, except  *)
(* the one that supersedes it. So a request that approves under the record *)
(* version it checked approves a version on which nobody has accepted      *)
(* another verdict since, and a recalculation that puts APPROVED back puts *)
(* it back where it was.                                                   *)
(***************************************************************************)
EXTENDS MCPlanning, FunctionTheorems, FiniteSetTheorems, SequenceTheorems, TLAPS

-----------------------------------------------------------------------------
(* Finite sets of numbers *)

\* The members of a finite set of naturals are numbered by how many are not above them.
LEMMA Ranks ==
    ASSUME NEW S, S \subseteq Nat, IsFiniteSet(S), NEW n \in 1 .. Cardinality(S)
    PROVE  \E i \in S : Cardinality({j \in S : j <= i}) = n
<1> DEFINE Upto(i) == {j \in S : j <= i}
           f == [i \in S |-> Cardinality(Upto(i))]
           N == Cardinality(S)
<1>1. \A i \in S : IsFiniteSet(Upto(i)) /\ Cardinality(Upto(i)) \in 1 .. N
  <2> SUFFICES ASSUME NEW i \in S PROVE IsFiniteSet(Upto(i)) /\ Cardinality(Upto(i)) \in 1 .. N
    OBVIOUS
  <2>1. Upto(i) \in SUBSET S /\ {i} \in SUBSET Upto(i)
    OBVIOUS
  <2> HIDE DEF Upto
  <2>2. /\ IsFiniteSet(Upto(i)) /\ Cardinality(Upto(i)) <= Cardinality(S)
        /\ Cardinality(Upto(i)) \in Nat /\ Cardinality(S) \in Nat
    BY <2>1, FS_Subset, FS_CardinalityType
  <2>3. Cardinality({i}) = 1 /\ Cardinality({i}) <= Cardinality(Upto(i))
    BY <2>1, <2>2, FS_Subset, FS_Singleton
  <2>4. QED  BY <2>2, <2>3
<1>2. ASSUME NEW i \in S, NEW j \in S, i < j
      PROVE  Cardinality(Upto(i)) # Cardinality(Upto(j))
  <2>1. Upto(i) \in SUBSET Upto(j) /\ Upto(i) # Upto(j)
    <3>1. i \in Nat /\ j \in Nat /\ j \in Upto(j) /\ j \notin Upto(i)
      BY <1>2
    <3>2. \A k \in S : k \in Nat /\ (k <= i => k <= j)
      BY <1>2
    <3>3. QED  BY <3>1, <3>2
  <2> HIDE DEF Upto
  <2>2. QED  BY <1>1, <2>1, FS_Subset
<1>3. f \in Injection(S, 1 .. N)
  <2> HIDE DEF Upto, N
  <2>1. f \in [S -> 1 .. N]
    BY <1>1
  <2>2. \A i, j \in S : f[i] = f[j] => i = j
    <3>1. \A i, j \in S : i = j \/ i < j \/ j < i
      OBVIOUS
    <3>2. QED  BY <1>2, <3>1
  <2>3. QED  BY <2>1, <2>2 DEF Injection, IsInjective
<1>4. N \in Nat /\ IsFiniteSet(1 .. N) /\ Cardinality(1 .. N) = N
  BY FS_CardinalityType, FS_Interval
<1>5. f \in Surjection(S, 1 .. N)
  <2> HIDE DEF f
  <2>1. QED  BY <1>3, <1>4, FS_Injection
<1>6. PICK i \in S : f[i] = n
  BY <1>5 DEF Surjection
<1>7. QED  BY <1>6

LEMMA MaxFacts ==
    ASSUME NEW S, S \subseteq Nat, IsFiniteSet(S), S # {}
    PROVE  Max(S) \in S /\ \A j \in S : Max(S) >= j
<1>1. Cardinality(S) \in Nat /\ Cardinality(S) # 0
  BY FS_CardinalityType, FS_EmptySet
<1>2. PICK i \in S : Cardinality({j \in S : j <= i}) = Cardinality(S)
  <2>1. Cardinality(S) \in 1 .. Cardinality(S)
    BY <1>1
  <2>2. QED  BY <2>1, Ranks
<1>3. {j \in S : j <= i} = S
  <2> DEFINE T == {j \in S : j <= i}
  <2>1. T \in SUBSET S /\ Cardinality(T) = Cardinality(S)
    BY <1>2
  <2> HIDE DEF T
  <2>2. T = S
    BY <2>1, FS_Subset
  <2>3. QED  BY <2>2 DEF T
<1>4. \A j \in S : i >= j
  BY <1>3
<1>5. QED  BY <1>4 DEF Max

-----------------------------------------------------------------------------
(* The stack: the inductive invariant *)

Plan == [at : StackStages, row : Nat, expected : Nat, seen : SUBSET (Nat \X Nat),
         category : Categories \cup {"none"}, next : StackStatus \cup {"none"}]

StackTypes ==
    /\ approvedBaseline \in [version : 0 .. MaxUpstream + 1, current : BOOLEAN]
    /\ projectChanges \in Nat /\ approvedBaseline.version <= projectChanges + 1
    /\ projectChanges <= MaxUpstream
    /\ types \in ProjectTypes
    /\ stacks \in Seq(StackVersion)
    /\ components \in Seq(Component)
    /\ planning \in [Clients -> Plan]
    /\ abandoned \in BOOLEAN

\* What a request at a stage has at hand, with so many versions made.
StackFits(p, made) ==
    /\ p.row \in 0 .. made
    /\ p.at \notin {"idle", "first"} => p.row \in 1 .. made
    /\ p.at \in {"supersede", "create"} => p.category \in Categories
    /\ p.at = "store" => p.next \in StackStatus
    /\ p.at = "copy" => p.expected \in 1 .. MaxVersions

\* What a request read of components that have not been written since.
AsRead(p, rows) ==
    \A s \in p.seen :
        /\ s[1] \in DOMAIN rows /\ s[2] <= rows[s[1]].recordVersion
        /\ s[2] = rows[s[1]].recordVersion =>
              /\ p.at = "supersede" => rows[s[1]].status # "LOCKED"
              /\ p.at = "lock" => rows[s[1]].status \in {"USER_SELECTED", "USER_APPROVED"}

RunsAreAwaited == recommending \subseteq {c \in Clients : planning[c].at \in {"answer", "suggest"}}

StackInv ==
    /\ StackTypes /\ RunsAreAwaited
    /\ \A c \in Clients : StackFits(planning[c], Len(stacks)) /\ AsRead(planning[c], components)

-----------------------------------------------------------------------------
(* The stack: numbering *)

LEMMA NextStackVersion == StackTypes => NextVersion(stacks) \in Nat \ {0}
<1> SUFFICES ASSUME StackTypes PROVE NextVersion(stacks) \in Nat \ {0}
  OBVIOUS
<1> DEFINE S == {stacks[i].version : i \in DOMAIN stacks}
<1>1. \A i \in DOMAIN stacks : stacks[i].version \in 1 .. MaxVersions
  <2>1. \A i \in DOMAIN stacks : stacks[i] \in StackVersion
    BY DEF StackTypes
  <2>2. QED  BY <2>1 DEF StackVersion
<1>2. S \subseteq 1 .. MaxVersions /\ IsFiniteSet(1 .. MaxVersions) /\ S \subseteq Nat
  BY <1>1, FS_Interval, PlanAssumption
<1>3. IsFiniteSet(S)
  BY <1>2, FS_Subset
<1>4. CASE stacks = <<>>
  BY <1>4 DEF NextVersion
<1>5. CASE stacks # <<>>
  <2>1. S # {}
    <3>1. stacks \in Seq(StackVersion)
      BY DEF StackTypes
    <3>2. 1 \in DOMAIN stacks
      BY <1>5, <3>1
    <3>3. QED  BY <3>2
  <2> HIDE DEF S
  <2>2. Max(S) \in Nat
    BY <1>2, <1>3, <2>1, MaxFacts
  <2>3. QED  BY <1>5, <2>2 DEF NextVersion, S
<1>6. QED  BY <1>4, <1>5

-----------------------------------------------------------------------------
(* The versions *)

VersionsKept == stacks' \in Seq(StackVersion) /\ Len(stacks) <= Len(stacks')

LEMMA StandingOnes == \A rows : Currents(rows) \subseteq DOMAIN rows
  BY DEF Currents, Standing

LEMMA VersionRow ==
    ASSUME NEW row \in StackVersion, NEW status \in StackStatus
    PROVE  /\ Written(row) \in StackVersion
           /\ [row EXCEPT !.status = status] \in StackVersion
           /\ [Written(row) EXCEPT !.status = status] \in StackVersion
<1>1. [row EXCEPT !.status = status] \in StackVersion
  BY DEF StackVersion
<1>2. Written(row) \in StackVersion
  BY DEF StackVersion, Written
<1>3. [Written(row) EXCEPT !.status = status] \in StackVersion
  BY <1>2 DEF StackVersion
<1>4. QED  BY <1>1, <1>2, <1>3

LEMMA VersionRewritten ==
    ASSUME StackTypes, NEW s \in DOMAIN stacks, NEW status \in StackStatus,
           \/ stacks' = [stacks EXCEPT ![s] = [Written(@) EXCEPT !.status = status]]
           \/ stacks' = [stacks EXCEPT ![s] = Written(@)]
    PROVE  VersionsKept
<1>1. stacks \in Seq(StackVersion) /\ stacks[s] \in StackVersion
  BY DEF StackTypes
<1>2. PICK row \in StackVersion : stacks' = [stacks EXCEPT ![s] = row]
  BY <1>1, VersionRow
<1>3. QED  BY <1>1, <1>2 DEF VersionsKept

LEMMA VersionsSuperseded ==
    ASSUME StackTypes, NEW version, stacks' = Superseded(stacks, version)
    PROVE  VersionsKept
<1>1. stacks \in Seq(StackVersion) /\ Len(stacks) \in Nat /\ DOMAIN stacks = 1 .. Len(stacks)
  BY DEF StackTypes
<1>2. ASSUME NEW i \in DOMAIN stacks
      PROVE  stacks[i] \in StackVersion /\ [stacks[i] EXCEPT !.status = "SUPERSEDED"] \in StackVersion
  <2>1. "SUPERSEDED" \in StackStatus
    BY DEF StackStatus
  <2>2. stacks[i] \in StackVersion
    BY <1>1
  <2>3. QED  BY <2>1, <2>2, VersionRow
<1>3. stacks' \in [1 .. Len(stacks) -> StackVersion]
  BY <1>1, <1>2 DEF Superseded
<1>4. QED  BY <1>1, <1>3 DEF VersionsKept

LEMMA VersionsNext ==
    ASSUME StackInv, [StackNext]_stackVars
    PROVE  VersionsKept
<1>t. StackTypes /\ stacks \in Seq(StackVersion)
  BY DEF StackInv, StackTypes
<1>u. ASSUME stacks' = stacks PROVE VersionsKept
  BY <1>t, <1>u DEF VersionsKept
<1>1. ASSUME NEW c \in Clients, StackStep(c) PROVE VersionsKept
  <2>p. planning[c] \in Plan /\ StackFits(planning[c], Len(stacks)) /\ DOMAIN stacks = 1 .. Len(stacks)
    BY <1>t DEF StackInv, StackTypes
  <2>1. CASE CreateFirst(c)
    <3> DEFINE new == [version |-> NextVersion(stacks), status |-> "DRAFT", recordVersion |-> 0,
                       baseline |-> approvedBaseline.version, types |-> types]
    <3>1. NextVersion(stacks) \in 1 .. MaxVersions
      BY <1>t, <2>1, NextStackVersion, PlanAssumption DEF CreateFirst
    <3>2. new \in StackVersion
      BY <1>t, <3>1 DEF StackTypes, StackVersion, StackStatus
    <3>3. stacks' = Append(stacks, new)
      BY <2>1 DEF CreateFirst
    <3> HIDE DEF new
    <3>4. QED  BY <1>t, <3>2, <3>3, AppendProperties DEF VersionsKept
  <2>2. CASE StoreStack(c)
    BY <1>t, <1>u, <2>2, <2>p, VersionRewritten DEF StoreStack, IsAt, StackFits
  <2>3. CASE ApproveStack(c) \/ LockSnapshot(c)
    BY <1>t, <1>u, <2>3, <2>p, VersionRewritten DEF ApproveStack, LockSnapshot, Finish, IsAt, StackFits, StackStatus
  <2>4. CASE CreateUnlocked(c)
    <3> DEFINE row == stacks[planning[c].row]
               new == [row EXCEPT !.version = planning[c].expected, !.status = "DRAFT", !.recordVersion = 0]
    <3>1. row \in StackVersion /\ planning[c].expected \in 1 .. MaxVersions
      BY <1>t, <2>4, <2>p DEF CreateUnlocked, IsAt, StackFits
    <3>2. stacks' = Append(stacks, new)
      BY <2>4 DEF CreateUnlocked
    <3> HIDE DEF row
    <3>3. new \in StackVersion
      BY <3>1 DEF StackVersion, StackStatus
    <3> HIDE DEF new
    <3>4. QED  BY <1>t, <3>2, <3>3, AppendProperties DEF VersionsKept
  <2>5. CASE RetireStack(c)
    BY <1>t, <2>5, VersionsSuperseded DEF RetireStack
  <2>6. CASE EndRecommendation(c)
    <3>1. CASE Currents(stacks) = {}
      BY <1>u, <2>6, <3>1 DEF EndRecommendation
    <3>2. CASE \E s \in Currents(stacks) : stacks' = [stacks EXCEPT ![s] = Written(@)]
      BY <1>t, <3>2, StandingOnes, VersionRewritten DEF StackStatus
    <3>3. QED  BY <1>u, <2>6, <3>1, <3>2 DEF EndRecommendation
  <2>7. QED
    BY <1>1, <1>u, <2>1, <2>2, <2>3, <2>4, <2>5, <2>6
       DEF StackStep, RefuseStack, SupersedeExisting, CreateComponent, RefreshStack, LockComponents,
           CarryComponents, CreateRecommendation, SuggestionFails, Suggest
<1>2. ASSUME NEW c \in Clients, StackRequest(c) PROVE VersionsKept
  <2>1. CASE SetMode(c)
    <3>1. planning[c].row \in DOMAIN stacks
      BY <1>t, <2>1 DEF StackInv, StackFits, SetMode, IsAt
    <3>2. QED  BY <1>t, <2>1, <3>1, VersionRewritten DEF SetMode, StackStatus
  <2>2. QED
    BY <1>2, <1>u, <2>1
       DEF StackRequest, AskForStack, OpenStack, Select, Decide, LockComponent, UnlockComponent,
           AcknowledgeRisk, CheckStack, LockRead, UnlockRead, RecommendRead
<1>3. QED
  BY <1>1, <1>2, <1>u DEF StackNext, ChangeProject, Crash, stackVars

-----------------------------------------------------------------------------
(* The components *)

\* What a write makes of a row: a change raises the record version, a lock is only taken off, and
\* only a decision is locked.
ComponentMoves(old, new) ==
    /\ old.recordVersion <= new.recordVersion
    /\ new.recordVersion = old.recordVersion => new.status = old.status
    /\ old.status = "LOCKED" => new.status \in {"LOCKED", "USER_APPROVED"}
    /\ new.status = "LOCKED" => IsDecided(old.status)

\* Only a copy of a decision begins as one.
Begins(new) ==
    new.status = "USER_APPROVED" =>
        \E j \in DOMAIN components :
            /\ components[j].category = new.category /\ components[j].technology = new.technology
            /\ IsDecided(components[j].status)

ComponentsKept ==
    /\ components' \in Seq(Component) /\ Len(components) <= Len(components')
    /\ \A i \in DOMAIN components : ComponentMoves(components[i], components'[i])
    /\ \A i \in DOMAIN components' \ DOMAIN components : Begins(components'[i])

LEMMA ComponentRow ==
    ASSUME NEW row \in Component, NEW status \in ComponentStatus
    PROVE  LET w == [Written(row) EXCEPT !.status = status]
           IN  /\ w \in Component /\ w.status = status /\ w.recordVersion = row.recordVersion + 1
               /\ row.recordVersion \in Nat
<1>1. Written(row) \in Component /\ Written(row).recordVersion = row.recordVersion + 1 /\ row.recordVersion \in Nat
  BY DEF Component, Written
<1>2. QED  BY <1>1 DEF Component

\* The move a write to a new status is.
LEMMA WrittenMoves ==
    ASSUME NEW row \in Component, NEW status \in ComponentStatus,
           row.status = "LOCKED" => status \in {"LOCKED", "USER_APPROVED"},
           status = "LOCKED" => IsDecided(row.status)
    PROVE  ComponentMoves(row, [Written(row) EXCEPT !.status = status])
<1> DEFINE w == [Written(row) EXCEPT !.status = status]
<1>1. w.status = status /\ w.recordVersion = row.recordVersion + 1 /\ row.recordVersion \in Nat
  BY ComponentRow
<1> HIDE DEF w
<1>2. ComponentMoves(row, w)
  BY <1>1 DEF ComponentMoves
<1>3. QED  BY <1>2 DEF w

LEMMA StackStays == \A row \in Component : ComponentMoves(row, row)
  BY DEF ComponentMoves, Component, IsDecided

LEMMA ComponentsRewritten ==
    ASSUME StackTypes, components' \in [1 .. Len(components) -> Component],
           \A i \in DOMAIN components : ComponentMoves(components[i], components'[i])
    PROVE  ComponentsKept
<1>1. components \in Seq(Component) /\ Len(components) \in Nat /\ DOMAIN components = 1 .. Len(components)
  BY DEF StackTypes
<1>2. components' \in Seq(Component) /\ DOMAIN components' = 1 .. Len(components) /\ Len(components') = Len(components)
  BY <1>1
<1>3. QED  BY <1>1, <1>2 DEF ComponentsKept

LEMMA ComponentsSame ==
    ASSUME StackTypes, components' = components
    PROVE  ComponentsKept
  BY ComponentsRewritten, StackStays DEF StackTypes

\* One row is written.
LEMMA OneWritten ==
    ASSUME StackTypes, NEW i \in DOMAIN components, NEW row \in Component,
           components' = [components EXCEPT ![i] = row], ComponentMoves(components[i], row)
    PROVE  ComponentsKept
<1>1. /\ components \in [1 .. Len(components) -> Component] /\ DOMAIN components = 1 .. Len(components)
      /\ \A j \in DOMAIN components : components[j] \in Component
  BY DEF StackTypes
<1>2. /\ components' \in [1 .. Len(components) -> Component]
      /\ \A j \in DOMAIN components : components'[j] = IF j = i THEN row ELSE components[j]
  BY <1>1
<1>3. \A j \in DOMAIN components : ComponentMoves(components[j], components'[j])
  BY <1>1, <1>2, StackStays
<1>4. QED  BY <1>2, <1>3, ComponentsRewritten

LEMMA StatusWritten ==
    ASSUME StackTypes, NEW i \in DOMAIN components, NEW status \in ComponentStatus,
           components' = SetComponent(i, status),
           components[i].status = "LOCKED" => status \in {"LOCKED", "USER_APPROVED"},
           status = "LOCKED" => IsDecided(components[i].status)
    PROVE  ComponentsKept
<1>1. components[i] \in Component
  BY DEF StackTypes
<1> DEFINE row == [Written(components[i]) EXCEPT !.status = status]
<1>2. row \in Component /\ ComponentMoves(components[i], row) /\ components' = [components EXCEPT ![i] = row]
  BY <1>1, ComponentRow, WrittenMoves DEF SetComponent
<1> HIDE DEF row
<1>3. QED  BY <1>2, OneWritten

\* Every row still as it was read is written.
LEMMA SeenWritten ==
    ASSUME StackTypes, NEW seen, NEW status \in ComponentStatus, components' = SetSeen(seen, status),
           \A i \in DOMAIN components :
               <<i, components[i].recordVersion>> \in seen =>
                   /\ components[i].status = "LOCKED" => status \in {"LOCKED", "USER_APPROVED"}
                   /\ status = "LOCKED" => IsDecided(components[i].status)
    PROVE  ComponentsKept
<1>1. /\ Len(components) \in Nat /\ DOMAIN components = 1 .. Len(components)
      /\ \A i \in DOMAIN components : components[i] \in Component
  BY DEF StackTypes
<1>2. \A i \in DOMAIN components :
         LET w == [Written(components[i]) EXCEPT !.status = status]
         IN  /\ w \in Component
             /\ <<i, components[i].recordVersion>> \in seen => ComponentMoves(components[i], w)
  BY <1>1, ComponentRow, WrittenMoves
<1>3. \A i \in DOMAIN components : components'[i] \in Component /\ ComponentMoves(components[i], components'[i])
  BY <1>1, <1>2, StackStays DEF SetSeen
<1>4. components' \in [1 .. Len(components) -> Component]
  BY <1>1, <1>3 DEF SetSeen
<1>5. QED  BY <1>3, <1>4, ComponentsRewritten

\* Rows are added.
LEMMA ComponentsAdded ==
    ASSUME StackTypes, NEW copies \in Seq(Component), components' = components \o copies,
           \A n \in DOMAIN copies : Begins(copies[n])
    PROVE  ComponentsKept
<1>1. /\ components \in Seq(Component) /\ Len(components) \in Nat /\ DOMAIN components = 1 .. Len(components)
      /\ Len(copies) \in Nat /\ DOMAIN copies = 1 .. Len(copies)
      /\ \A i \in DOMAIN components : components[i] \in Component
  BY DEF StackTypes
<1>2. /\ components' \in Seq(Component) /\ Len(components') = Len(components) + Len(copies)
      /\ DOMAIN components' = 1 .. Len(components) + Len(copies)
      /\ \A i \in 1 .. Len(components) : components'[i] = components[i]
      /\ \A i \in (1 .. Len(components) + Len(copies)) \ (1 .. Len(components)) :
            i - Len(components) \in DOMAIN copies /\ components'[i] = copies[i - Len(components)]
  BY <1>1
<1>3. QED  BY <1>1, <1>2, StackStays DEF ComponentsKept

LEMMA ComponentAdded ==
    ASSUME StackTypes, NEW new \in Component, components' = Append(components, new),
           new.status # "USER_APPROVED"
    PROVE  ComponentsKept
<1>1. /\ components \in Seq(Component) /\ Len(components) \in Nat /\ DOMAIN components = 1 .. Len(components)
      /\ \A i \in DOMAIN components : components[i] \in Component
  BY DEF StackTypes
<1>2. /\ components' \in Seq(Component) /\ Len(components') = Len(components) + 1
      /\ DOMAIN components' = 1 .. Len(components) + 1
      /\ \A i \in 1 .. Len(components) : components'[i] = components[i]
      /\ components'[Len(components) + 1] = new
  BY <1>1, AppendProperties
<1>3. \A i \in DOMAIN components' \ DOMAIN components : i = Len(components) + 1
  BY <1>1, <1>2
<1>4. QED  BY <1>1, <1>2, <1>3, StackStays DEF ComponentsKept, Begins

LEMMA NewComponentFacts ==
    ASSUME NEW version \in 1 .. MaxVersions, NEW category \in Categories, NEW technology \in Technologies,
           NEW status \in ComponentStatus
    PROVE  LET new == NewComponent(version, category, technology, status)
           IN  new \in Component /\ new.status = status /\ new.recordVersion = 0
  BY DEF NewComponent, Component

\* Every copy that unlock makes is of a live component.
LEMMA ComponentsCarried ==
    ASSUME StackInv, NEW c \in Clients, CarryComponents(c)
    PROVE  ComponentsKept
<1>t. /\ StackTypes /\ components \in Seq(Component) /\ Len(components) \in Nat
      /\ DOMAIN components = 1 .. Len(components)
      /\ \A i \in DOMAIN components : components[i] \in Component
  BY DEF StackInv, StackTypes
<1> DEFINE next == NextVersion(stacks)
           live == LiveOf(MyVersion(c))
           Source(n) == CHOOSE i \in live : Cardinality({j \in live : j <= i}) = n
           copies == [n \in 1 .. Cardinality(live) |-> Copy(components[Source(n)], next)]
<1>1. next \in 1 .. MaxVersions
  BY <1>t, NextStackVersion, PlanAssumption DEF CarryComponents
<1>2. live \subseteq DOMAIN components /\ \A i \in live : IsLive(components[i])
  BY DEF LiveOf, ComponentsOf
<1>3. live \subseteq Nat /\ IsFiniteSet(live) /\ Cardinality(live) \in Nat
  <2>1. IsFiniteSet(1 .. Len(components))
    BY <1>t, FS_Interval
  <2>2. live \in SUBSET (1 .. Len(components))
    BY <1>t, <1>2
  <2> HIDE DEF live
  <2>3. IsFiniteSet(live)
    BY <2>1, <2>2, FS_Subset
  <2>4. QED  BY <2>2, <2>3, FS_CardinalityType
<1>4. components' = components \o copies
  BY DEF CarryComponents
<1> HIDE DEF live, next
<1>5. \A n \in 1 .. Cardinality(live) : Source(n) \in live
  <2> SUFFICES ASSUME NEW n \in 1 .. Cardinality(live) PROVE Source(n) \in live
    OBVIOUS
  <2>1. \E i \in live : Cardinality({j \in live : j <= i}) = n
    BY <1>3, Ranks
  <2>2. QED  BY <2>1
<1>6. ASSUME NEW i \in live
      PROVE  /\ Copy(components[i], next) \in Component
             /\ Copy(components[i], next).category = components[i].category
             /\ Copy(components[i], next).technology = components[i].technology
             /\ Copy(components[i], next).status = "USER_APPROVED" => IsDecided(components[i].status)
  <2>1. components[i] \in Component
    BY <1>t, <1>2
  <2> DEFINE row == components[i]
             status == IF row.status = "LOCKED" THEN "USER_APPROVED" ELSE row.status
  <2>2. status \in ComponentStatus
    BY <2>1 DEF Component, ComponentStatus
  <2>3. Copy(row, next) = [row EXCEPT !.stack = next, !.recordVersion = 0, !.status = status]
    BY <2>1 DEF Copy, Component
  <2>s. status = "USER_APPROVED" => IsDecided(row.status)
    BY DEF IsDecided
  <2> HIDE DEF row, status
  <2>4. /\ Copy(row, next) \in Component /\ Copy(row, next).category = row.category
        /\ Copy(row, next).technology = row.technology /\ Copy(row, next).status = status
    <3>1. row \in Component
      BY <2>1 DEF row
    <3> DEFINE moved == [row EXCEPT !.stack = next, !.recordVersion = 0]
    <3>2. moved \in Component /\ moved.category = row.category /\ moved.technology = row.technology
      BY <1>1, <3>1 DEF Component
    <3>3. Copy(row, next) = [moved EXCEPT !.status = status]
      BY <2>3
    <3> HIDE DEF moved
    <3>4. QED  BY <2>2, <3>2, <3>3 DEF Component
  <2>5. QED  BY <2>4, <2>s DEF row
<1> HIDE DEF Source
<1>7. \A n \in 1 .. Cardinality(live) : copies[n] \in Component /\ Begins(copies[n])
  BY <1>2, <1>5, <1>6 DEF Begins
<1>8. copies \in Seq(Component) /\ DOMAIN copies = 1 .. Cardinality(live)
  BY <1>3, <1>7
<1> HIDE DEF copies
<1>9. QED  BY <1>t, <1>4, <1>7, <1>8, ComponentsAdded

LEMMA ComponentsNext ==
    ASSUME StackInv, [StackNext]_stackVars
    PROVE  ComponentsKept
<1>t. /\ StackTypes /\ DOMAIN components = 1 .. Len(components) /\ Len(components) \in Nat
      /\ \A i \in DOMAIN components : components[i] \in Component
  BY DEF StackInv, StackTypes
<1>u. ASSUME components' = components PROVE ComponentsKept
  BY <1>t, <1>u, ComponentsSame
<1>p. ASSUME NEW c \in Clients
      PROVE  planning[c] \in Plan /\ StackFits(planning[c], Len(stacks)) /\ AsRead(planning[c], components)
  BY <1>t DEF StackInv, StackTypes
<1>v. ASSUME NEW c \in Clients, planning[c].at \notin {"idle", "first"}
      PROVE  MyVersion(c) \in 1 .. MaxVersions
  <2>1. stacks[planning[c].row] \in StackVersion
    BY <1>t, <1>p, <1>v DEF StackFits, StackTypes
  <2>2. QED  BY <2>1 DEF MyVersion, StackVersion
<1>1. ASSUME NEW c \in Clients, StackStep(c) PROVE ComponentsKept
  <2>1. CASE SupersedeExisting(c)
    <3>1. \A i \in DOMAIN components :
             <<i, components[i].recordVersion>> \in planning[c].seen => components[i].status # "LOCKED"
      BY <1>p, <2>1 DEF AsRead, SupersedeExisting, IsAt
    <3>2. QED  BY <1>t, <2>1, <3>1, SeenWritten DEF SupersedeExisting, ComponentStatus
  <2>2. CASE \E t \in Technologies : CreateComponent(c, t)
    <3>1. PICK t \in Technologies : CreateComponent(c, t)
      BY <2>2
    <3>2. MyVersion(c) \in 1 .. MaxVersions /\ planning[c].category \in Categories
      BY <1>p, <1>v, <3>1 DEF StackFits, CreateComponent, IsAt
    <3>3. QED
      BY <1>t, <3>1, <3>2, NewComponentFacts, ComponentAdded DEF CreateComponent, ComponentStatus
  <2>3. CASE LockComponents(c)
    <3>1. \A i \in DOMAIN components :
             <<i, components[i].recordVersion>> \in planning[c].seen =>
                components[i].status \in {"USER_SELECTED", "USER_APPROVED"}
      BY <1>p, <2>3 DEF AsRead, LockComponents, IsAt
    <3>2. QED  BY <1>t, <2>3, <3>1, SeenWritten DEF LockComponents, ComponentStatus, IsDecided
  <2>4. CASE CarryComponents(c)
    BY <2>4, ComponentsCarried
  <2>5. CASE \E k \in Categories, t \in Technologies : Suggest(c, k, t)
    <3>1. PICK k \in Categories, t \in Technologies : Suggest(c, k, t)
      BY <2>5
    <3>2. MyVersion(c) \in 1 .. MaxVersions
      BY <1>v, <3>1 DEF Suggest, IsAt
    <3>3. QED  BY <1>t, <3>1, <3>2, NewComponentFacts, ComponentAdded DEF Suggest, ComponentStatus
  <2>6. QED
    BY <1>1, <1>u, <2>1, <2>2, <2>3, <2>4, <2>5
       DEF StackStep, CreateFirst, RefuseStack, RefreshStack, StoreStack, ApproveStack, LockSnapshot,
           CreateUnlocked, RetireStack, CreateRecommendation, SuggestionFails, EndRecommendation
<1>2. ASSUME NEW c \in Clients, StackRequest(c) PROVE ComponentsKept
  <2>1. ASSUME NEW i \in DOMAIN components, Decide(c, i) PROVE ComponentsKept
    BY <1>t, <2>1, StatusWritten DEF Decide, ComponentStatus
  <2>2. ASSUME NEW i \in DOMAIN components, LockComponent(c, i) PROVE ComponentsKept
    <3>1. components[i].status \in ComponentStatus
      BY <1>t DEF Component
    <3>2. IsDecided(components[i].status)
      BY <2>2, <3>1 DEF LockComponent, CanTransitionComponent, ComponentStatus, IsDecided
    <3>3. QED  BY <1>t, <2>2, <3>2, StatusWritten DEF LockComponent, ComponentStatus
  <2>3. ASSUME NEW i \in DOMAIN components, UnlockComponent(c, i) PROVE ComponentsKept
    BY <1>t, <2>3, StatusWritten DEF UnlockComponent, ComponentStatus
  <2>4. ASSUME NEW i \in DOMAIN components, AcknowledgeRisk(c, i) PROVE ComponentsKept
    <3> DEFINE old == components[i]
               row == [Written(old) EXCEPT !.acknowledged = TRUE]
    <3>1. old \in Component /\ components' = [components EXCEPT ![i] = row]
      BY <1>t, <2>4 DEF AcknowledgeRisk
    <3> HIDE DEF old
    <3>2. /\ row \in Component /\ row.status = old.status /\ row.recordVersion = old.recordVersion + 1
          /\ old.recordVersion \in Nat
      <4> DEFINE w == Written(old)
      <4>1. /\ w \in Component /\ w.status = old.status /\ w.recordVersion = old.recordVersion + 1
            /\ old.recordVersion \in Nat
        BY <3>1 DEF Component, Written
      <4> HIDE DEF w
      <4>2. [w EXCEPT !.acknowledged = TRUE] \in Component
        BY <4>1 DEF Component
      <4>3. QED  BY <4>1, <4>2 DEF Component, w
    <3> HIDE DEF row
    <3>3. ComponentMoves(old, row)
      BY <3>2 DEF ComponentMoves, IsDecided
    <3>4. QED  BY <1>t, <3>1, <3>2, <3>3, OneWritten DEF old
  <2>5. QED
    BY <1>2, <1>u, <2>1, <2>2, <2>3, <2>4
       DEF StackRequest, AskForStack, OpenStack, SetMode, Select, CheckStack, LockRead, UnlockRead, RecommendRead
<1>3. QED
  BY <1>1, <1>2, <1>u DEF StackNext, ChangeProject, Crash, stackVars

-----------------------------------------------------------------------------
(* The requests *)

\* One request moves, and still has at hand what its stage needs.
Moved(c, p) ==
    /\ p \in Plan /\ planning' = [planning EXCEPT ![c] = p]
    /\ StackFits(p, Len(stacks')) /\ AsRead(p, components')

\* A request that ends has no recommendation run under way.
RequestStep(c) ==
    \E p \in Plan :
        /\ Moved(c, p)
        /\ recommending' \subseteq recommending \cup {c}
        /\ c \in recommending' => p.at \in {"answer", "suggest"}

\* What every request has at hand stays good, whatever others write.
LEMMA StillGood ==
    ASSUME StackTypes, VersionsKept, ComponentsKept, NEW p \in Plan,
           StackFits(p, Len(stacks)), AsRead(p, components)
    PROVE  StackFits(p, Len(stacks')) /\ AsRead(p, components')
<1>1. Len(stacks) \in Nat /\ Len(stacks') \in Nat /\ Len(stacks) <= Len(stacks')
  BY DEF StackTypes, VersionsKept
<1>2. StackFits(p, Len(stacks'))
  BY <1>1 DEF StackFits, Plan
<1>3. ASSUME NEW s \in p.seen
      PROVE  /\ s[1] \in DOMAIN components' /\ s[2] <= components'[s[1]].recordVersion
             /\ s[2] = components'[s[1]].recordVersion =>
                   /\ p.at = "supersede" => components'[s[1]].status # "LOCKED"
                   /\ p.at = "lock" => components'[s[1]].status \in {"USER_SELECTED", "USER_APPROVED"}
  <2> DEFINE i == s[1]
             old == components[i]
             new == components'[i]
  <2>1. s[2] \in Nat /\ i \in DOMAIN components /\ s[2] <= old.recordVersion
    BY <1>3 DEF AsRead, Plan
  <2>2. i \in DOMAIN components' /\ old \in Component /\ new \in Component /\ ComponentMoves(old, new)
    BY <2>1 DEF StackTypes, ComponentsKept
  <2>3. old.recordVersion \in Nat /\ new.recordVersion \in Nat
    BY <2>2 DEF Component
  <2>4. s[2] = old.recordVersion =>
           /\ p.at = "supersede" => old.status # "LOCKED"
           /\ p.at = "lock" => old.status \in {"USER_SELECTED", "USER_APPROVED"}
    BY <1>3 DEF AsRead
  <2> HIDE DEF i, old, new
  <2>5. s[2] <= new.recordVersion /\ (s[2] = new.recordVersion => s[2] = old.recordVersion /\ new.status = old.status)
    BY <2>1, <2>2, <2>3 DEF ComponentMoves
  <2>6. QED  BY <2>2, <2>4, <2>5 DEF i, old, new
<1>4. QED  BY <1>2, <1>3 DEF AsRead

LEMMA StackMoving ==
    ASSUME StackTypes, VersionsKept, ComponentsKept, NEW c \in Clients, NEW p \in Plan,
           planning' = [planning EXCEPT ![c] = p], StackFits(p, Len(stacks)), AsRead(p, components)
    PROVE  Moved(c, p)
  BY StillGood DEF Moved

\* A client and what it has.
LEMMA RequestFacts ==
    ASSUME StackInv, NEW c \in Clients
    PROVE  /\ StackTypes /\ planning[c] \in Plan /\ planning \in [Clients -> Plan]
           /\ StackFits(planning[c], Len(stacks)) /\ AsRead(planning[c], components)
           /\ Len(stacks) \in Nat /\ DOMAIN stacks = 1 .. Len(stacks)
           /\ Len(components) \in Nat /\ DOMAIN components = 1 .. Len(components)
           /\ c \in recommending => planning[c].at \in {"answer", "suggest"}
  BY DEF StackInv, StackTypes, RunsAreAwaited

LEMMA RestFacts ==
    /\ AtRest \in Plan /\ AtRest.at = "idle" /\ AtRest.row = 0 /\ AtRest.seen = {}
    /\ \A made \in Nat : StackFits(AtRest, made)
    /\ \A rows : AsRead(AtRest, rows)
  BY DEF AtRest, Plan, StackStages, StackFits, AsRead

LEMMA Leaving ==
    ASSUME StackInv, VersionsKept, ComponentsKept, NEW c \in Clients, Leave(c)
    PROVE  \E p \in Plan : Moved(c, p)
  BY RequestFacts, RestFacts, StackMoving DEF Leave

LEMMA GoingOn ==
    ASSUME StackInv, VersionsKept, ComponentsKept, NEW c \in Clients,
           NEW stage \in StackStages \ {"idle", "supersede", "lock", "store", "copy"}, GoOn(c, stage),
           stage # "first" => planning[c].at \notin {"idle", "first"},
           stage = "create" => planning[c].category \in Categories
    PROVE  \E p \in Plan : Moved(c, p) /\ p.at = stage
<1> DEFINE p0 == planning[c]
           p == [p0 EXCEPT !.at = stage]
<1>0. StackTypes /\ p0 \in Plan /\ StackFits(p0, Len(stacks)) /\ AsRead(p0, components) /\ Len(stacks) \in Nat
  BY RequestFacts
<1>1. planning' = [planning EXCEPT ![c] = p]
  BY DEF GoOn
<1> HIDE DEF p0
<1>2. /\ p \in Plan /\ p.at = stage /\ p.row = p0.row /\ p.seen = p0.seen /\ p.category = p0.category
      /\ p.next = p0.next /\ p.expected = p0.expected
  BY <1>0 DEF Plan
<1> HIDE DEF p
<1>3. StackFits(p, Len(stacks))
  BY <1>0, <1>2 DEF StackFits, p0
<1>4. AsRead(p, components)
  BY <1>0, <1>2 DEF AsRead
<1>5. QED  BY <1>0, <1>1, <1>2, <1>3, <1>4, StackMoving

LEMMA StackOpening ==
    ASSUME StackInv, VersionsKept, ComponentsKept, NEW c \in Clients, NEW s \in DOMAIN stacks,
           NEW stage \in {"open", "refresh", "approve", "carry"}, Open(c, s, stage)
    PROVE  \E p \in Plan : Moved(c, p)
<1> DEFINE row == stacks[s]
           p == [AtRest EXCEPT !.at = stage, !.row = s, !.expected = row.recordVersion]
<1>0. StackTypes /\ s \in 1 .. Len(stacks) /\ s \in Nat /\ row \in StackVersion /\ Len(stacks) \in Nat
  BY RequestFacts DEF StackTypes
<1>1. planning' = [planning EXCEPT ![c] = p]
  BY DEF Open
<1>2. row.recordVersion \in Nat
  BY <1>0 DEF StackVersion
<1> HIDE DEF row
<1>3. p \in Plan /\ p.at = stage /\ p.row = s /\ p.seen = {}
  BY <1>0, <1>2, RestFacts DEF Plan, StackStages
<1> HIDE DEF p
<1>4. StackFits(p, Len(stacks)) /\ AsRead(p, components)
  BY <1>0, <1>3 DEF StackFits, AsRead
<1>5. QED  BY <1>0, <1>1, <1>3, <1>4, StackMoving

\* What Seen returns is in step with the rows.
LEMMA SeenFacts ==
    ASSUME StackTypes, NEW ids \in SUBSET DOMAIN components
    PROVE  /\ Seen(ids) \in SUBSET (Nat \X Nat)
           /\ \A s \in Seen(ids) : s[1] \in ids /\ s[2] = components[s[1]].recordVersion
<1>1. \A i \in ids : i \in Nat /\ components[i].recordVersion \in Nat
  <2> SUFFICES ASSUME NEW i \in ids PROVE i \in Nat /\ components[i].recordVersion \in Nat
    OBVIOUS
  <2>1. components[i] \in Component /\ i \in Nat
    BY DEF StackTypes
  <2>2. QED  BY <2>1 DEF Component
<1>2. QED  BY <1>1 DEF Seen

LEMMA Selecting ==
    ASSUME StackInv, VersionsKept, ComponentsKept, NEW c \in Clients, NEW category \in Categories, Select(c, category)
    PROVE  \E p \in Plan : Moved(c, p)
<1> DEFINE p0 == planning[c]
           existing == {i \in LiveOf(MyVersion(c)) : components[i].category = category}
           at == IF existing # {} /\ category \notin Multiple THEN "supersede" ELSE "create"
           seen == Seen(existing)
           p == [p0 EXCEPT !.category = category, !.seen = seen, !.at = at]
<1>0. /\ StackTypes /\ p0 \in Plan /\ p0.at = "open" /\ p0.row \in 1 .. Len(stacks) /\ Len(stacks) \in Nat
      /\ planning \in [Clients -> Plan]
  BY RequestFacts DEF Select, IsAt, StackFits
<1>1. planning' = [planning EXCEPT ![c] = p]
  BY <1>0 DEF Select
<1>2. /\ seen \in SUBSET (Nat \X Nat) /\ existing \subseteq DOMAIN components
      /\ \A s \in seen : s[1] \in existing /\ s[2] = components[s[1]].recordVersion
  BY <1>0, SeenFacts DEF LiveOf, ComponentsOf
<1>3. \A i \in existing : components[i].status # "LOCKED"
  BY DEF Select
<1>4. at \in {"supersede", "create"}
  OBVIOUS
<1> HIDE DEF p0, existing, at, seen
<1>5. p \in Plan /\ p.at = at /\ p.category = category /\ p.seen = seen /\ p.row = p0.row
  BY <1>0, <1>2, <1>4 DEF Plan, StackStages
<1> HIDE DEF p
<1>6. \A s \in seen : /\ s[1] \in DOMAIN components /\ s[2] = components[s[1]].recordVersion
                      /\ components[s[1]].recordVersion \in Nat
  BY <1>2, <1>0 DEF StackTypes, Component
<1>7. StackFits(p, Len(stacks)) /\ AsRead(p, components)
  BY <1>0, <1>2, <1>3, <1>4, <1>5, <1>6 DEF StackFits, AsRead
<1>8. QED  BY <1>0, <1>1, <1>5, <1>7, StackMoving

LEMMA LockReading ==
    ASSUME StackInv, VersionsKept, ComponentsKept, NEW c \in Clients, LockRead(c)
    PROVE  \E p \in Plan : Moved(c, p)
<1>1. PICK s \in Currents(stacks) :
         planning' = [planning EXCEPT ![c] = [AtRest EXCEPT !.at = "lock", !.row = s,
                        !.expected = stacks[s].recordVersion, !.seen = Seen(Sealable(stacks[s].version))]]
  BY DEF LockRead
<1> DEFINE row == stacks[s]
           ids == Sealable(row.version)
           seen == Seen(ids)
           p == [AtRest EXCEPT !.at = "lock", !.row = s, !.expected = row.recordVersion, !.seen = seen]
<1>0. StackTypes /\ s \in 1 .. Len(stacks) /\ s \in Nat /\ row \in StackVersion /\ Len(stacks) \in Nat
  BY RequestFacts, StandingOnes DEF StackTypes
<1>2. /\ seen \in SUBSET (Nat \X Nat) /\ ids \subseteq DOMAIN components
      /\ \A i \in seen : i[1] \in ids /\ i[2] = components[i[1]].recordVersion
      /\ \A i \in ids : components[i].status \in {"USER_SELECTED", "USER_APPROVED"}
  BY <1>0, SeenFacts DEF Sealable, ComponentsOf
<1>3. planning' = [planning EXCEPT ![c] = p]
  BY <1>1
<1>4. row.recordVersion \in Nat
  BY <1>0 DEF StackVersion
<1> HIDE DEF row, seen, ids
<1>5. p \in Plan /\ p.at = "lock" /\ p.row = s /\ p.seen = seen
  BY <1>0, <1>2, <1>4, RestFacts DEF Plan, StackStages
<1> HIDE DEF p
<1>6. \A i \in seen : /\ i[1] \in DOMAIN components /\ i[2] = components[i[1]].recordVersion
                      /\ components[i[1]].recordVersion \in Nat
  BY <1>2, <1>0 DEF StackTypes, Component
<1>7. StackFits(p, Len(stacks)) /\ AsRead(p, components)
  BY <1>0, <1>2, <1>5, <1>6 DEF StackFits, AsRead
<1>8. QED  BY <1>0, <1>3, <1>5, <1>7, StackMoving

LEMMA RefreshReading ==
    ASSUME StackInv, VersionsKept, ComponentsKept, NEW c \in Clients, RefreshStack(c)
    PROVE  \E p \in Plan : Moved(c, p)
<1>1. PICK s \in IF Currents(stacks) = {} THEN {planning[c].row} ELSE Currents(stacks) :
         planning' = [planning EXCEPT ![c] = [AtRest EXCEPT !.at = "store", !.row = s,
                        !.expected = stacks[s].recordVersion,
                        !.next = StatusAfter(stacks[s].status, StackBlockers(stacks[s]) # {})]]
  BY DEF RefreshStack
<1> DEFINE row == stacks[s]
           next == StatusAfter(row.status, StackBlockers(row) # {})
           p == [AtRest EXCEPT !.at = "store", !.row = s, !.expected = row.recordVersion, !.next = next]
<1>0. StackTypes /\ s \in 1 .. Len(stacks) /\ s \in Nat /\ row \in StackVersion /\ Len(stacks) \in Nat
  <2>1. planning[c].row \in 1 .. Len(stacks)
    BY RequestFacts DEF RefreshStack, IsAt, StackFits
  <2>2. s \in 1 .. Len(stacks)
    BY <2>1, RequestFacts, StandingOnes
  <2>3. QED  BY <2>2, RequestFacts DEF StackTypes
<1>3. planning' = [planning EXCEPT ![c] = p]
  BY <1>1
<1>4. row.recordVersion \in Nat /\ row.status \in StackStatus
  BY <1>0 DEF StackVersion
<1>5. next \in StackStatus
  BY <1>4 DEF StatusAfter, StackStatus
<1> HIDE DEF row, next
<1>6. p \in Plan /\ p.at = "store" /\ p.row = s /\ p.seen = {} /\ p.next = next
  BY <1>0, <1>4, <1>5, RestFacts DEF Plan, StackStages
<1> HIDE DEF p
<1>7. StackFits(p, Len(stacks)) /\ AsRead(p, components)
  BY <1>0, <1>5, <1>6 DEF StackFits, AsRead
<1>8. QED  BY <1>0, <1>3, <1>6, <1>7, StackMoving

\* A suggestion adds its row to what the request has read.
LEMMA Suggesting ==
    ASSUME StackInv, VersionsKept, ComponentsKept, NEW c \in Clients,
           NEW k \in Categories, NEW t \in Technologies, Suggest(c, k, t)
    PROVE  \E p \in Plan : Moved(c, p) /\ p.at = "suggest"
<1> DEFINE p0 == planning[c]
           n == Len(components) + 1
           seen == p0.seen \cup {<<n, 0>>}
           p == [p0 EXCEPT !.at = "suggest", !.seen = seen]
<1>0. /\ StackTypes /\ p0 \in Plan /\ p0.row \in 1 .. Len(stacks) /\ Len(stacks) \in Nat
      /\ planning \in [Clients -> Plan] /\ AsRead(p0, components) /\ StackFits(p0, Len(stacks))
  BY RequestFacts DEF Suggest, IsAt, StackFits
<1>1. DOMAIN components' = 1 .. n /\ Len(components') = n /\ n \in Nat
  BY <1>0, AppendProperties DEF Suggest, StackTypes, ComponentsKept
<1>2. planning' = [planning EXCEPT ![c] = p]
  BY <1>0, <1>1 DEF Suggest
<1>3. n \in DOMAIN components' /\ 0 <= components'[n].recordVersion
  <2>1. components'[n] \in Component
    BY <1>1 DEF ComponentsKept
  <2>2. QED  BY <1>1, <2>1 DEF Component
<1>4. AsRead(p0, components') /\ StackFits(p0, Len(stacks'))
  BY <1>0, StillGood
<1> HIDE DEF p0, n
<1>s. seen \in SUBSET (Nat \X Nat)
  <2>1. p0.seen \in SUBSET (Nat \X Nat)
    BY <1>0 DEF Plan
  <2>2. QED  BY <1>1, <2>1
<1> HIDE DEF seen
<1>5. p \in Plan /\ p.at = "suggest" /\ p.seen = seen /\ p.row = p0.row
  BY <1>0, <1>s DEF Plan, StackStages
<1> HIDE DEF p
<1>6. AsRead(p, components')
  BY <1>3, <1>4, <1>5 DEF AsRead, seen
<1>7. StackFits(p, Len(stacks))
  BY <1>0, <1>5 DEF StackFits
<1>8. StackFits(p, Len(stacks'))
  BY <1>0, <1>7, StillGood, <1>5 DEF VersionsKept, StackFits
<1>9. QED  BY <1>2, <1>5, <1>6, <1>8 DEF Moved

LEMMA StackStepsMove ==
    ASSUME StackInv, VersionsKept, ComponentsKept, NEW c \in Clients, StackStep(c)
    PROVE  RequestStep(c)
<1> DEFINE p0 == planning[c]
<1>0. /\ StackTypes /\ p0 \in Plan /\ StackFits(p0, Len(stacks)) /\ AsRead(p0, components) /\ Len(stacks) \in Nat
      /\ planning \in [Clients -> Plan] /\ (c \in recommending => p0.at \in {"answer", "suggest"})
  BY RequestFacts
\* Nothing is recommended, or what was is over.
<1>q. ASSUME \E p \in Plan : Moved(c, p), recommending' \subseteq recommending, c \notin recommending'
      PROVE  RequestStep(c)
  BY <1>q DEF RequestStep
<1>1. CASE CreateFirst(c) \/ RefuseStack(c) \/ StoreStack(c) \/ ApproveStack(c) \/ LockSnapshot(c) \/ RetireStack(c)
  <2>1. Leave(c) /\ recommending' = recommending /\ p0.at \notin {"answer", "suggest"}
    BY <1>1 DEF CreateFirst, RefuseStack, StoreStack, ApproveStack, LockSnapshot, RetireStack, Finish, IsAt,
                Recommendations
  <2>2. QED  BY <1>0, <1>q, <2>1, Leaving
<1>2. CASE SuggestionFails(c) \/ EndRecommendation(c)
  BY <1>2, <1>q, Leaving DEF SuggestionFails, EndRecommendation, FailRun
<1>3. CASE SupersedeExisting(c)
  <2>1. GoOn(c, "create") /\ p0.category \in Categories /\ p0.at = "supersede" /\ recommending' = recommending
    BY <1>0, <1>3 DEF SupersedeExisting, StackFits, IsAt, Recommendations
  <2>2. QED  BY <1>0, <1>q, <2>1, GoingOn DEF StackStages
<1>4. CASE \E t \in Technologies : CreateComponent(c, t)
  <2>1. GoOn(c, "refresh") /\ p0.at = "create" /\ recommending' = recommending
    BY <1>4 DEF CreateComponent, IsAt, Recommendations
  <2>2. QED  BY <1>0, <1>q, <2>1, GoingOn DEF StackStages
<1>5. CASE RefreshStack(c)
  BY <1>0, <1>5, <1>q, RefreshReading DEF RefreshStack, IsAt, Recommendations
<1>6. CASE LockComponents(c)
  <2> DEFINE p == [p0 EXCEPT !.at = "seal", !.seen = {}]
  <2>1. planning' = [planning EXCEPT ![c] = p] /\ p0.at = "lock" /\ recommending' = recommending
    BY <1>0, <1>6 DEF LockComponents, IsAt, Recommendations
  <2> HIDE DEF p0
  <2>2. p \in Plan /\ p.at = "seal" /\ p.row = p0.row /\ p.seen = {}
    BY <1>0 DEF Plan, StackStages
  <2> HIDE DEF p
  <2>3. StackFits(p, Len(stacks)) /\ AsRead(p, components)
    BY <1>0, <2>1, <2>2 DEF StackFits, AsRead
  <2>4. QED  BY <1>0, <1>q, <2>1, <2>2, <2>3, StackMoving
<1>7. CASE CarryComponents(c)
  <2> DEFINE next == NextVersion(stacks)
             p == [p0 EXCEPT !.at = "copy", !.expected = next]
  <2>1. planning' = [planning EXCEPT ![c] = p] /\ p0.at = "carry" /\ recommending' = recommending
    BY <1>0, <1>7 DEF CarryComponents, IsAt, Recommendations
  <2>t. next \in 1 .. MaxVersions
    BY <1>0, <1>7, NextStackVersion, PlanAssumption DEF CarryComponents
  <2> HIDE DEF p0, next
  <2>2. p \in Plan /\ p.at = "copy" /\ p.row = p0.row /\ p.seen = p0.seen /\ p.expected = next
    <3>1. next \in Nat
      BY <2>t, PlanAssumption
    <3>2. QED  BY <1>0, <3>1 DEF Plan, StackStages
  <2> HIDE DEF p
  <2>3. StackFits(p, Len(stacks)) /\ AsRead(p, components)
    BY <1>0, <2>t, <2>1, <2>2 DEF StackFits, AsRead
  <2>4. QED  BY <1>0, <1>q, <2>1, <2>2, <2>3, StackMoving
<1>8. CASE CreateUnlocked(c)
  <2>1. GoOn(c, "retire") /\ p0.at = "copy" /\ recommending' = recommending
    BY <1>8 DEF CreateUnlocked, IsAt, Recommendations
  <2>2. QED  BY <1>0, <1>q, <2>1, GoingOn DEF StackStages
<1>9. CASE CreateRecommendation(c)
  <2>1. GoOn(c, "answer") /\ p0.at = "recommend" /\ recommending' = recommending \cup {c}
    BY <1>9 DEF CreateRecommendation, IsAt
  <2>2. QED  BY <1>0, <2>1, GoingOn DEF StackStages, RequestStep
<1>10. CASE \E k \in Categories, t \in Technologies : Suggest(c, k, t)
  <2>1. recommending' = recommending
    BY <1>10 DEF Suggest, Recommendations
  <2>2. QED  BY <1>10, <2>1, Suggesting DEF RequestStep
<1>11. QED
  BY <1>1, <1>2, <1>3, <1>4, <1>5, <1>6, <1>7, <1>8, <1>9, <1>10 DEF StackStep

LEMMA StackRequestsMove ==
    ASSUME StackInv, VersionsKept, ComponentsKept, NEW c \in Clients, StackRequest(c)
    PROVE  RequestStep(c)
<1> DEFINE p0 == planning[c]
<1>0. /\ StackTypes /\ p0 \in Plan /\ StackFits(p0, Len(stacks)) /\ AsRead(p0, components) /\ Len(stacks) \in Nat
      /\ planning \in [Clients -> Plan] /\ (c \in recommending => p0.at \in {"answer", "suggest"})
  BY RequestFacts
<1>a. recommending' = recommending /\ p0.at \in {"idle", "open"}
  BY DEF StackRequest, AskForStack, OpenStack, SetMode, Select, Decide, LockComponent, UnlockComponent,
         AcknowledgeRisk, CheckStack, LockRead, UnlockRead, RecommendRead, BeginOn, IsAt, Recommendations
<1>q. ASSUME \E p \in Plan : Moved(c, p) PROVE RequestStep(c)
  BY <1>0, <1>a, <1>q DEF RequestStep
<1>1. CASE AskForStack(c)
  BY <1>1, <1>q, GoingOn DEF AskForStack, StackStages
<1>2. CASE OpenStack(c) \/ CheckStack(c) \/ UnlockRead(c)
  BY <1>2, <1>q, StackOpening, StandingOnes DEF OpenStack, CheckStack, UnlockRead
<1>3. CASE SetMode(c)
  BY <1>3, <1>q, Leaving DEF SetMode
<1>4. CASE \E k \in Categories : Select(c, k)
  BY <1>4, <1>q, Selecting
<1>5. ASSUME NEW i \in DOMAIN components, Decide(c, i) PROVE RequestStep(c)
  <2>1. CASE GoOn(c, "refresh")
    BY <1>5, <1>q, <2>1, GoingOn DEF Decide, IsAt, StackStages
  <2>2. CASE planning' = [planning EXCEPT ![c].at = "create", ![c].category = components[i].category]
    <3> DEFINE category == components[i].category
               p == [p0 EXCEPT !.at = "create", !.category = category]
    <3>1. planning' = [planning EXCEPT ![c] = p] /\ p0.at = "open"
      BY <1>0, <1>5, <2>2 DEF Decide, IsAt
    <3>t. category \in Categories
      <4>1. components[i] \in Component
        BY <1>0 DEF StackTypes
      <4>2. QED  BY <4>1 DEF Component
    <3> HIDE DEF p0, category
    <3>2. p \in Plan /\ p.at = "create" /\ p.row = p0.row /\ p.seen = p0.seen /\ p.category = category
      BY <1>0, <3>t DEF Plan, StackStages
    <3> HIDE DEF p
    <3>3. StackFits(p, Len(stacks)) /\ AsRead(p, components)
      BY <1>0, <3>t, <3>1, <3>2 DEF StackFits, AsRead
    <3>4. QED  BY <1>0, <1>q, <3>1, <3>2, <3>3, StackMoving
  <2>3. QED  BY <1>5, <2>1, <2>2 DEF Decide
<1>6. ASSUME NEW i \in DOMAIN components, LockComponent(c, i) \/ AcknowledgeRisk(c, i) PROVE RequestStep(c)
  BY <1>6, <1>q, GoingOn DEF LockComponent, AcknowledgeRisk, IsAt, StackStages
<1>7. ASSUME NEW i \in DOMAIN components, UnlockComponent(c, i) PROVE RequestStep(c)
  BY <1>7, <1>q, StackOpening, StandingOnes DEF UnlockComponent
<1>8. CASE LockRead(c)
  BY <1>8, <1>q, LockReading
<1>9. CASE RecommendRead(c)
  <2> DEFINE ids == LiveOf(MyVersion(c))
             seen == Seen(ids)
             p == [p0 EXCEPT !.at = "recommend", !.seen = seen]
  <2>1. planning' = [planning EXCEPT ![c] = p] /\ p0.at = "open"
    BY <1>0, <1>9 DEF RecommendRead, IsAt
  <2>t. /\ seen \in SUBSET (Nat \X Nat) /\ ids \subseteq DOMAIN components
        /\ \A s \in seen : s[1] \in ids /\ s[2] = components[s[1]].recordVersion
    BY <1>0, SeenFacts DEF LiveOf, ComponentsOf
  <2> HIDE DEF p0, seen, ids
  <2>2. p \in Plan /\ p.at = "recommend" /\ p.row = p0.row /\ p.seen = seen
    BY <1>0, <2>t DEF Plan, StackStages
  <2> HIDE DEF p
  <2>3. \A s \in seen : /\ s[1] \in DOMAIN components /\ s[2] = components[s[1]].recordVersion
                        /\ components[s[1]].recordVersion \in Nat
    BY <2>t, <1>0 DEF StackTypes, Component
  <2>4. StackFits(p, Len(stacks)) /\ AsRead(p, components)
    BY <1>0, <2>1, <2>2, <2>3 DEF StackFits, AsRead
  <2>5. QED  BY <1>0, <1>q, <2>1, <2>2, <2>4, StackMoving
<1>10. QED
  BY <1>1, <1>2, <1>3, <1>4, <1>5, <1>6, <1>7, <1>8, <1>9 DEF StackRequest

-----------------------------------------------------------------------------
(* The invariant *)

LEMMA StackInitially == StackInit => StackInv
<1> SUFFICES ASSUME StackInit PROVE StackInv
  OBVIOUS
<1>1. stacks \in Seq(StackVersion) /\ components \in Seq(Component)
  <2>1. CASE stacks = <<>> /\ components = <<>>
    BY <2>1
  <2>2. ASSUME NEW category \in Categories, NEW t \in Technologies, types # Unconfirmed,
               components = <<NewComponent(1, category, t, "USER_SELECTED")>>,
               stacks = <<[version |-> 1, status |-> "APPROVED", recordVersion |-> 1,
                           baseline |-> 1, types |-> types]>>
        PROVE  stacks \in Seq(StackVersion) /\ components \in Seq(Component)
    <3>1. 1 \in 1 .. MaxVersions /\ 1 \in 0 .. MaxUpstream + 1 /\ types \in ProjectTypes
      BY PlanAssumption DEF StackInit
    <3>2. NewComponent(1, category, t, "USER_SELECTED") \in Component
      BY <2>2, <3>1, NewComponentFacts DEF ComponentStatus
    <3>3. [version |-> 1, status |-> "APPROVED", recordVersion |-> 1, baseline |-> 1, types |-> types] \in StackVersion
      BY <3>1 DEF StackVersion, StackStatus
    <3>4. QED  BY <2>2, <3>2, <3>3
  <2>3. QED  BY <2>1, <2>2 DEF StackInit
<1>2. approvedBaseline \in [version : 0 .. MaxUpstream + 1, current : BOOLEAN] /\ approvedBaseline.version <= 1
  <2>1. \E v \in {0, 1}, b \in BOOLEAN : approvedBaseline = [version |-> v, current |-> b]
    BY DEF StackInit
  <2>2. 0 \in 0 .. MaxUpstream + 1 /\ 1 \in 0 .. MaxUpstream + 1
    BY PlanAssumption
  <2>3. QED  BY <2>1, <2>2
<1>3. planning \in [Clients -> Plan] /\ projectChanges = 0 /\ types \in ProjectTypes /\ abandoned \in BOOLEAN
  BY RestFacts DEF StackInit
<1>4. StackTypes
  BY <1>1, <1>2, <1>3, PlanAssumption DEF StackTypes
<1>5. \A c \in Clients : planning[c] = AtRest /\ Len(stacks) \in Nat
  BY <1>1 DEF StackInit
<1>6. QED  BY <1>4, <1>5, RestFacts DEF StackInv, RunsAreAwaited, StackInit

LEMMA ProjectNext ==
    ASSUME StackInv, [StackNext]_stackVars
    PROVE  /\ approvedBaseline' \in [version : 0 .. MaxUpstream + 1, current : BOOLEAN]
           /\ projectChanges' \in Nat /\ approvedBaseline'.version <= projectChanges' + 1
           /\ projectChanges' <= MaxUpstream
           /\ types' \in ProjectTypes /\ abandoned' \in BOOLEAN
<1>t. StackTypes /\ MaxUpstream \in Nat
  BY PlanAssumption DEF StackInv
<1> DEFINE Goal == /\ approvedBaseline' \in [version : 0 .. MaxUpstream + 1, current : BOOLEAN]
                   /\ projectChanges' \in Nat /\ approvedBaseline'.version <= projectChanges' + 1
                   /\ projectChanges' <= MaxUpstream
                   /\ types' \in ProjectTypes /\ abandoned' \in BOOLEAN
<1>u. ASSUME UNCHANGED Project, abandoned' \in BOOLEAN PROVE Goal
  BY <1>t, <1>u DEF StackTypes, Project
<1>a. abandoned \in BOOLEAN
  BY <1>t DEF StackTypes
<1>1. CASE ChangeProject
  <2>0. /\ approvedBaseline.version \in Nat /\ approvedBaseline.current \in BOOLEAN
        /\ approvedBaseline = [version |-> approvedBaseline.version, current |-> approvedBaseline.current]
        /\ projectChanges \in Nat /\ approvedBaseline.version <= projectChanges + 1
    BY <1>t DEF StackTypes
  <2>1. /\ projectChanges' = projectChanges + 1 /\ projectChanges' <= MaxUpstream
        /\ abandoned' \in BOOLEAN
    BY <1>a, <1>t, <1>1, <2>0 DEF ChangeProject, Recommendations
  <2>2. CASE approvedBaseline' = [version |-> approvedBaseline.version + 1, current |-> TRUE] /\ types' = types
    BY <1>t, <2>0, <2>1, <2>2 DEF StackTypes
  <2>3. CASE approvedBaseline' = [approvedBaseline EXCEPT !.current = FALSE] /\ types' = types
    <3>1. approvedBaseline' = [version |-> approvedBaseline.version, current |-> FALSE]
      BY <2>0, <2>3
    <3>2. approvedBaseline.version \in 0 .. MaxUpstream + 1
      BY <1>t DEF StackTypes
    <3>3. approvedBaseline' \in [version : 0 .. MaxUpstream + 1, current : BOOLEAN]
      BY <3>1, <3>2
    <3>4. approvedBaseline'.version = approvedBaseline.version /\ types' \in ProjectTypes
      BY <1>t, <2>3, <3>1 DEF StackTypes
    <3>5. QED  BY <2>0, <2>1, <3>3, <3>4
  <2>4. CASE types' \in ProjectTypes \ {types} /\ approvedBaseline' = approvedBaseline
    BY <1>t, <2>0, <2>1, <2>4 DEF StackTypes
  <2>5. QED  BY <1>1, <2>2, <2>3, <2>4 DEF ChangeProject
<1> HIDE DEF Goal
<1>2. ASSUME NEW c \in Clients, StackRequest(c) PROVE Goal
  BY <1>2, <1>u, <1>a
     DEF StackRequest, AskForStack, OpenStack, SetMode, Select, Decide, LockComponent, UnlockComponent,
         AcknowledgeRisk, CheckStack, LockRead, UnlockRead, RecommendRead, Recommendations
<1>3. ASSUME NEW c \in Clients, StackStep(c) PROVE Goal
  BY <1>3, <1>u, <1>a
     DEF StackStep, CreateFirst, RefuseStack, SupersedeExisting, CreateComponent, RefreshStack, StoreStack,
         ApproveStack, LockComponents, LockSnapshot, CarryComponents, CreateUnlocked, RetireStack,
         CreateRecommendation, SuggestionFails, EndRecommendation, Suggest, Recommendations
<1>4. ASSUME NEW c \in Clients, Crash(c) PROVE Goal
  <2>1. abandoned' \in BOOLEAN
    BY <1>4, <1>a DEF Crash
  <2>2. QED  BY <1>4, <1>u, <2>1 DEF Crash
<1>5. CASE UNCHANGED stackVars
  <2>1. UNCHANGED Project /\ UNCHANGED Recommendations
    BY <1>5 DEF stackVars
  <2>2. abandoned' \in BOOLEAN
    BY <1>a, <2>1 DEF Recommendations
  <2>3. QED  BY <1>u, <2>1, <2>2 DEF Goal
<1>6. QED  BY <1>1, <1>2, <1>3, <1>4, <1>5 DEF StackNext, Goal

LEMMA StackInductive == StackInv /\ [StackNext]_stackVars => StackInv'
<1> SUFFICES ASSUME StackInv, [StackNext]_stackVars PROVE StackInv'
  OBVIOUS
<1>1. VersionsKept /\ ComponentsKept
  BY VersionsNext, ComponentsNext
<1>t. StackTypes /\ planning \in [Clients -> Plan]
  BY DEF StackInv, StackTypes
<1> DEFINE Goal == /\ planning' \in [Clients -> Plan]
                   /\ \A c \in Clients : StackFits(planning'[c], Len(stacks')) /\ AsRead(planning'[c], components')
                   /\ recommending' \subseteq {c \in Clients : planning'[c].at \in {"answer", "suggest"}}
<1>2. ASSUME NEW c \in Clients, RequestStep(c) PROVE Goal
  <2>1. PICK p \in Plan : /\ Moved(c, p) /\ recommending' \subseteq recommending \cup {c}
                          /\ c \in recommending' => p.at \in {"answer", "suggest"}
    BY <1>2 DEF RequestStep
  <2>2. \A d \in Clients : planning'[d] = IF d = c THEN p ELSE planning[d]
    BY <1>t, <2>1 DEF Moved
  <2>3. \A d \in Clients : StackFits(planning'[d], Len(stacks')) /\ AsRead(planning'[d], components')
    BY <1>1, <2>1, <2>2, RequestFacts, StillGood DEF Moved
  <2>4. planning' \in [Clients -> Plan]
    BY <1>t, <2>1 DEF Moved
  <2>5. recommending' \subseteq {d \in Clients : planning'[d].at \in {"answer", "suggest"}}
    BY <2>1, <2>2 DEF StackInv, RunsAreAwaited
  <2>6. QED  BY <2>3, <2>4, <2>5
<1>3. ASSUME planning' = planning, recommending' = recommending PROVE Goal
  BY <1>1, <1>3, <1>t, RequestFacts, StillGood DEF StackInv, RunsAreAwaited
<1> HIDE DEF Goal
<1>4. ASSUME NEW c \in Clients, Crash(c) PROVE RequestStep(c)
  <2>1. Leave(c) /\ recommending' = recommending \ {c}
    BY <1>4 DEF Crash
  <2>2. QED  BY <1>1, <2>1, Leaving DEF RequestStep
<1>5. Goal
  BY <1>1, <1>2, <1>3, <1>4, StackStepsMove, StackRequestsMove DEF StackNext, ChangeProject, Recommendations, stackVars
<1>6. StackTypes'
  BY <1>1, <1>5, ProjectNext DEF StackTypes, Goal, VersionsKept, ComponentsKept
<1>7. QED  BY <1>5, <1>6 DEF StackInv, RunsAreAwaited, Goal

LEMMA StackInvariant == StackSpec => []StackInv
  BY StackInitially, StackInductive, PTL DEF StackSpec

-----------------------------------------------------------------------------
(* The stack: the theorems *)

LEMMA StackTypesHold == StackInv => StackTypeInv
<1> SUFFICES ASSUME StackInv PROVE StackTypeInv
  OBVIOUS
<1>1. /\ \A s \in DOMAIN stacks : stacks[s] \in StackVersion
      /\ \A i \in DOMAIN components : components[i] \in Component
  BY DEF StackInv, StackTypes
<1>2. \A c \in Clients : planning[c].at \in StackStages /\ planning[c].row \in 0 .. Len(stacks)
  BY RequestFacts DEF Plan, StackFits
<1>3. QED  BY <1>1, <1>2 DEF StackTypeInv, StackInv, StackTypes, RunsAreAwaited

\* Rows keep their shape, and a recommendation run that RecommendationService stored as
\* running belongs to a request that still waits for the model or stores its answer.
THEOREM StackTypeCorrect == StackSpec => []StackTypeInv
  BY StackTypesHold, StackInvariant, PTL

\* Whatever StackService read before a component was locked, no late write replaces, supersedes or
\* rejects it: its record version has moved on.
THEOREM LocksHold == StackSpec => LockIsAWall
<1>1. ASSUME StackInv, [StackNext]_stackVars
      PROVE  [\A i \in DOMAIN components :
                components[i].status = "LOCKED" =>
                  components'[i].status \in {"LOCKED", "USER_APPROVED"}]_components
  BY <1>1, ComponentsNext DEF ComponentsKept, ComponentMoves
<1>2. QED  BY <1>1, StackInvariant, PTL DEF StackSpec, LockIsAWall

\* Locking a stack seals only what a person decided, suggestions that arrived after the read
\* excluded, and unlocking copies no suggestion into a decision.
THEOREM DecisionsAreSealed == StackSpec => OnlyDecisionsAreSealed
<1>1. ASSUME StackInv, [StackNext]_stackVars
      PROVE  [/\ \A i \in DOMAIN components :
                   components'[i].status = "LOCKED" => IsDecided(components[i].status)
              /\ \A i \in DOMAIN components' \ DOMAIN components :
                   components'[i].status = "USER_APPROVED" =>
                     \E j \in DOMAIN components :
                       /\ components[j].category = components'[i].category
                       /\ components[j].technology = components'[i].technology
                       /\ IsDecided(components[j].status)]_components
  BY <1>1, ComponentsNext DEF ComponentsKept, ComponentMoves, Begins
<1>2. QED  BY <1>1, StackInvariant, PTL DEF StackSpec, OnlyDecisionsAreSealed

-----------------------------------------------------------------------------
(* The estimate: the inductive invariant *)

Ask == [at : Stages, row : Nat, expected : Nat, claimed : SUBSET (Nat \X (Requirements \cup {NoRequirement})),
        wanted : SUBSET Requirements, ai : BOOLEAN, inRun : BOOLEAN, verdict : Verdicts \cup {None},
        next : SnapshotStatus \cup {"none"}, from : Nat, to : Nat]

\* A calculated line keeps the calculated figure: in effort, or in original once a person set one.
KeepsItsFigure(unit) ==
    unit.origin = "calculated" =>
        /\ unit.original \in {None, Calculated}
        /\ IF IsUserAuthored(unit) THEN unit.original = Calculated ELSE unit.effort = Calculated

NumberedLines(lines, made) ==
    /\ made \in 0 .. MaxUnits
    /\ DOMAIN lines \subseteq 1 .. made
    /\ \A u \in DOMAIN lines : lines[u] \in Unit /\ KeepsItsFigure(lines[u])

Upstream ==
    /\ baseline \in [version : 0 .. MaxUpstream + 1, current : BOOLEAN, requirements : SUBSET Requirements]
    /\ upstream \in 0 .. MaxUpstream /\ baseline.version <= upstream + 1
    /\ stack \in 0 .. MaxUpstream + 1

Types ==
    /\ Upstream
    /\ snapshots \in Seq(Snapshot)
    /\ NumberedLines(units, created)
    /\ edges \subseteq Edge
    /\ proc \in [Clients -> Ask]
    /\ running \subseteq Clients /\ stuck \in BOOLEAN

\* What a request at a stage has at hand, with these versions made. A version that still has the
\* record version that was read has the acknowledgement and the approval that were read.
Fits(p, rows) ==
    /\ p.at \notin {"idle", "first"} => p.row \in DOMAIN rows
    /\ p.at = "copy" => p.expected \in 1 .. MaxVersions
    /\ p.at = "link" => p.from \in 1 .. MaxUnits /\ p.to \in 1 .. MaxUnits
    /\ p.at \in {"acknowledge", "approve", "store"} => p.verdict \in Verdicts
    /\ p.at = "approve" =>
          /\ p.expected <= rows[p.row].recordVersion
          /\ p.expected = rows[p.row].recordVersion /\ p.verdict \in NeedsAcknowledgement
             => rows[p.row].acknowledged = p.verdict
    /\ p.at = "store" =>
          /\ p.next \in SnapshotStatus
          /\ p.from \in DOMAIN rows /\ p.expected <= rows[p.from].recordVersion
          /\ p.expected = rows[p.from].recordVersion /\ p.next = "APPROVED"
             => rows[p.from].status \in {"APPROVED", "SUPERSEDED"}

IInv ==
    /\ Types
    /\ \A c \in Clients : Fits(proc[c], snapshots)

-----------------------------------------------------------------------------
(* The estimate: numbering *)

\* New lines get numbers of their own.
LEMMA Numbers ==
    ASSUME NEW S, IsFiniteSet(S), NEW n \in Nat
    PROVE  \E f \in [S -> n + 1 .. n + Cardinality(S)] : \A x, y \in S : x # y => f[x] # f[y]
<1>1. Cardinality(S) \in Nat /\ ExistsBijection(1 .. Cardinality(S), S)
  BY FS_CardinalityType
<1>2. PICK g \in Bijection(S, 1 .. Cardinality(S)) : TRUE
  BY <1>1, Fun_ExistsBijSymmetric DEF ExistsBijection
<1>3. g \in [S -> 1 .. Cardinality(S)] /\ \A x, y \in S : g[x] = g[y] => x = y
  BY <1>2 DEF Bijection, Injection, IsInjective
<1> DEFINE f == [x \in S |-> n + g[x]]
<1>4. f \in [S -> n + 1 .. n + Cardinality(S)]
  <2> SUFFICES ASSUME NEW x \in S PROVE n + g[x] \in n + 1 .. n + Cardinality(S)
    OBVIOUS
  <2>1. g[x] \in 1 .. Cardinality(S)
    BY <1>3
  <2>2. QED  BY <1>1, <2>1
<1>5. \A x, y \in S : x # y => f[x] # f[y]
  <2> SUFFICES ASSUME NEW x \in S, NEW y \in S, x # y PROVE n + g[x] # n + g[y]
    OBVIOUS
  <2>1. g[x] \in 1 .. Cardinality(S) /\ g[y] \in 1 .. Cardinality(S) /\ g[x] # g[y]
    BY <1>3
  <2>2. QED  BY <1>1, <2>1
<1>6. QED  BY <1>4, <1>5

LEMMA NextVersionType == Types => NextVersion(snapshots) \in Nat \ {0}
<1> SUFFICES ASSUME Types PROVE NextVersion(snapshots) \in Nat \ {0}
  OBVIOUS
<1> DEFINE S == {snapshots[i].version : i \in DOMAIN snapshots}
<1>1. \A i \in DOMAIN snapshots : snapshots[i].version \in 1 .. MaxVersions
  <2>1. \A i \in DOMAIN snapshots : snapshots[i] \in Snapshot
    BY DEF Types
  <2>2. QED  BY <2>1 DEF Snapshot
<1>2. S \subseteq 1 .. MaxVersions /\ IsFiniteSet(1 .. MaxVersions) /\ S \subseteq Nat
  BY <1>1, FS_Interval, PlanAssumption
<1>3. IsFiniteSet(S)
  BY <1>2, FS_Subset
<1>4. CASE snapshots = <<>>
  BY <1>4 DEF NextVersion
<1>5. CASE snapshots # <<>>
  <2>1. S # {}
    <3>1. snapshots \in Seq(Snapshot)
      BY DEF Types
    <3>2. 1 \in DOMAIN snapshots
      BY <1>5, <3>1
    <3>3. QED  BY <3>2
  <2> HIDE DEF S
  <2>2. Max(S) \in Nat
    BY <1>2, <1>3, <2>1, MaxFacts
  <2>3. QED  BY <1>5, <2>2 DEF NextVersion, S
<1>6. QED  BY <1>4, <1>5

-----------------------------------------------------------------------------
(* The versions *)

Moves(old, new) ==
    /\ old.recordVersion <= new.recordVersion
    /\ new.recordVersion = old.recordVersion =>
          new.acknowledged = old.acknowledged /\ new.status \in {old.status, "SUPERSEDED"}
    /\ new.status = "APPROVED" /\ old.status \notin {"APPROVED", "SUPERSEDED"}
          /\ new.feasibility \in NeedsAcknowledgement
       => new.acknowledged = new.feasibility

SnapshotsKept ==
    /\ snapshots' \in Seq(Snapshot)
    /\ \A s \in DOMAIN snapshots : s \in DOMAIN snapshots' /\ Moves(snapshots[s], snapshots'[s])

LEMMA CurrentOnes == \A rows : Currents(rows) \subseteq DOMAIN rows
  BY DEF Currents, Standing

LEMMA Row ==
    ASSUME Types, NEW s \in DOMAIN snapshots
    PROVE  /\ snapshots[s] \in Snapshot /\ snapshots[s].recordVersion \in Nat
           /\ snapshots[s].version \in 1 .. MaxVersions /\ snapshots[s].team \in Teams
           /\ snapshots[s].status \in SnapshotStatus
           /\ s \in 1 .. Len(snapshots) /\ s \in Nat
<1>1. snapshots[s] \in Snapshot /\ s \in 1 .. Len(snapshots) /\ Len(snapshots) \in Nat
  BY DEF Types
<1>2. QED  BY <1>1 DEF Snapshot

LEMMA Stays == \A row \in Snapshot : Moves(row, row)
  BY DEF Moves, Snapshot

LEMMA SnapshotsSame ==
    ASSUME Types, snapshots' = snapshots
    PROVE  SnapshotsKept
  BY Stays, Row DEF Types, SnapshotsKept

LEMMA SnapshotWritten ==
    ASSUME Types, NEW s \in DOMAIN snapshots, NEW row \in Snapshot,
           snapshots' = [snapshots EXCEPT ![s] = row], Moves(snapshots[s], row)
    PROVE  SnapshotsKept
<1>1. snapshots \in Seq(Snapshot) /\ snapshots' \in Seq(Snapshot) /\ DOMAIN snapshots' = DOMAIN snapshots
  BY DEF Types
<1>2. \A i \in DOMAIN snapshots : snapshots'[i] = IF i = s THEN row ELSE snapshots[i]
  BY <1>1
<1>3. QED  BY <1>1, <1>2, Stays, Row DEF SnapshotsKept

LEMMA SnapshotAdded ==
    ASSUME Types, NEW row \in Snapshot, snapshots' = Append(snapshots, row)
    PROVE  SnapshotsKept
<1>1. snapshots \in Seq(Snapshot)
  BY DEF Types
<1>2. /\ snapshots' \in Seq(Snapshot)
      /\ \A i \in DOMAIN snapshots : i \in DOMAIN snapshots' /\ snapshots'[i] = snapshots[i]
  BY <1>1, AppendProperties
<1>3. QED  BY <1>2, Stays, Row DEF SnapshotsKept

\* What a versioned write makes of a row.
LEMMA WrittenRow ==
    ASSUME NEW row \in Snapshot
    PROVE  LET w == Written(row) IN
           /\ w \in Snapshot /\ w.status = row.status /\ w.acknowledged = row.acknowledged
           /\ w.feasibility = row.feasibility
           /\ w.recordVersion = row.recordVersion + 1 /\ row.recordVersion \in Nat
  BY DEF Written, Snapshot
\* What is worked out of a version.
LEMMA FeasibilityType ==
    ASSUME Types, NEW row \in Snapshot
    PROVE  Feasibility(row) \in Verdicts
<1> DEFINE counted == {units[u].effort : u \in Counted(row.version)}
<1>1. counted \in SUBSET Efforts
  <2> SUFFICES ASSUME NEW u \in Counted(row.version) PROVE units[u].effort \in Efforts
    OBVIOUS
  <2>1. units[u] \in Unit
    BY DEF Counted, Of, Types, NumberedLines
  <2>2. QED  BY <2>1 DEF Unit
<1>2. row.team \in Teams
  BY DEF Snapshot
<1>3. Feasibility(row) = FeasibilityOf(row.team, counted)
  BY DEF Feasibility
<1> HIDE DEF counted
<1>4. QED  BY <1>1, <1>2, <1>3 DEF Verdicts

LEMMA EmptyFacts == EmptyTeam \in Teams /\ FeasibilityOf(EmptyTeam, {}) \in Verdicts
<1>1. EmptyTeam = "none"
  BY EstimateAssumption DEF EmptyTeam
<1>2. EmptyTeam \in Teams
  BY <1>1, EstimateAssumption
<1>3. QED  BY <1>2 DEF Verdicts

LEMMA NewSnapshotType ==
    ASSUME Upstream, NEW version \in 1 .. MaxVersions, NEW status \in SnapshotStatus
    PROVE  NewSnapshot(version, status) \in Snapshot
<1>1. baseline.version \in 0 .. MaxUpstream + 1 /\ stack \in 0 .. MaxUpstream + 1
  BY DEF Upstream
<1>2. QED  BY <1>1, EmptyFacts DEF NewSnapshot, Snapshot

\* A client and what it has.
LEMMA AClient ==
    ASSUME IInv, NEW c \in Clients
    PROVE  /\ Types /\ proc[c] \in Ask /\ proc \in [Clients -> Ask] /\ Fits(proc[c], snapshots)
           /\ Len(snapshots) \in Nat /\ DOMAIN snapshots = 1 .. Len(snapshots)
  BY DEF IInv, Types

LEMMA StoreKeeps ==
    ASSUME IInv, NEW c \in Clients, Store(c)
    PROVE  SnapshotsKept
<1> DEFINE p == proc[c]
           s == p.from
           row == snapshots[s]
           w == Written(row)
           new == [w EXCEPT !.status = p.next, !.feasibility = p.verdict]
<1>0. Types /\ s \in DOMAIN snapshots /\ row \in Snapshot /\ p.next \in SnapshotStatus /\ p.verdict \in Verdicts
  BY AClient, Row DEF Store, At, Fits
<1>1. CASE ~CanUpdate(snapshots, s, p.expected)
  BY <1>0, <1>1, SnapshotsSame DEF Store
<1>2. CASE CanUpdate(snapshots, s, p.expected)
  <2>1. snapshots' = [snapshots EXCEPT ![s] = new]
    BY <1>0, <1>2 DEF Store
  <2>2. p.next = "APPROVED" => row.status \in {"APPROVED", "SUPERSEDED"}
    BY <1>2, AClient DEF Store, At, Fits, CanUpdate
  <2>3. /\ w \in Snapshot /\ w.acknowledged = row.acknowledged /\ row.recordVersion \in Nat
        /\ w.recordVersion = row.recordVersion + 1
    BY <1>0, WrittenRow
  <2> HIDE DEF w, row, p
  <2>4. new \in Snapshot /\ new.status = p.next /\ new.recordVersion = w.recordVersion
    BY <1>0, <2>3 DEF Snapshot
  <2> HIDE DEF new
  <2>5. Moves(row, new)
    BY <2>2, <2>3, <2>4 DEF Moves
  <2>6. QED  BY <1>0, <2>1, <2>4, <2>5, SnapshotWritten DEF row
<1>3. QED  BY <1>1, <1>2

LEMMA ApproveKeeps ==
    ASSUME IInv, NEW c \in Clients, Approve(c)
    PROVE  SnapshotsKept
<1> DEFINE p == proc[c]
           s == p.row
           row == snapshots[s]
           w == Written(row)
           new == [w EXCEPT !.status = "APPROVED", !.feasibility = p.verdict]
<1>0. Types /\ s \in DOMAIN snapshots /\ row \in Snapshot /\ p.verdict \in Verdicts
  BY AClient, Row DEF Approve, At, Fits
<1>1. CASE ~CanUpdate(snapshots, s, p.expected)
  BY <1>0, <1>1, SnapshotsSame DEF Approve
<1>2. CASE CanUpdate(snapshots, s, p.expected)
  <2>1. snapshots' = [snapshots EXCEPT ![s] = new]
    BY <1>0, <1>2 DEF Approve
  <2>2. p.verdict \in NeedsAcknowledgement => row.acknowledged = p.verdict
    BY <1>2, AClient DEF Approve, At, Fits, CanUpdate
  <2>3. /\ w \in Snapshot /\ w.acknowledged = row.acknowledged /\ row.recordVersion \in Nat
        /\ w.recordVersion = row.recordVersion + 1
    BY <1>0, WrittenRow
  <2> HIDE DEF w, row, p
  <2>4. /\ new \in Snapshot /\ new.recordVersion = w.recordVersion /\ new.feasibility = p.verdict
        /\ new.acknowledged = w.acknowledged
    BY <1>0, <2>3 DEF Snapshot, SnapshotStatus
  <2> HIDE DEF new
  <2>5. Moves(row, new)
    BY <2>2, <2>3, <2>4 DEF Moves
  <2>6. QED  BY <1>0, <2>1, <2>4, <2>5, SnapshotWritten DEF row
<1>3. QED  BY <1>1, <1>2

\* Acknowledging, setting the team and recalculating the schedule leave the status alone.
LEMMA StatusKept ==
    ASSUME Types, NEW s \in DOMAIN snapshots, NEW row \in Snapshot, snapshots' = [snapshots EXCEPT ![s] = row],
           row.status = snapshots[s].status, row.recordVersion = snapshots[s].recordVersion + 1
    PROVE  SnapshotsKept
<1>1. snapshots[s].recordVersion \in Nat
  BY Row
<1>2. Moves(snapshots[s], row)
  BY <1>1 DEF Moves
<1>3. QED  BY <1>2, SnapshotWritten

LEMMA SnapshotsSuperseded ==
    ASSUME Types, NEW version, snapshots' = Superseded(snapshots, version)
    PROVE  SnapshotsKept
<1>1. snapshots \in Seq(Snapshot) /\ Len(snapshots) \in Nat /\ DOMAIN snapshots = 1 .. Len(snapshots)
  BY DEF Types
<1>2. ASSUME NEW i \in DOMAIN snapshots
      PROVE  snapshots'[i] \in Snapshot /\ Moves(snapshots[i], snapshots'[i])
  <2> DEFINE row == snapshots[i]
             new == [row EXCEPT !.status = "SUPERSEDED"]
  <2>1. row \in Snapshot /\ snapshots'[i] \in {row, new}
    BY <1>1 DEF Superseded
  <2> HIDE DEF row
  <2>2. /\ new \in Snapshot /\ new.recordVersion = row.recordVersion /\ row.recordVersion \in Nat
        /\ new.acknowledged = row.acknowledged /\ new.status = "SUPERSEDED"
    BY <2>1 DEF Snapshot, SnapshotStatus
  <2> HIDE DEF new
  <2>3. Moves(row, new)
    BY <2>2 DEF Moves
  <2>4. QED  BY <2>1, <2>2, <2>3, Stays DEF row
<1>3. snapshots' \in [1 .. Len(snapshots) -> Snapshot] /\ DOMAIN snapshots' = DOMAIN snapshots
  BY <1>1, <1>2 DEF Superseded
<1>4. QED  BY <1>1, <1>2, <1>3 DEF SnapshotsKept

LEMMA SnapshotsNext ==
    ASSUME IInv, [Next]_vars
    PROVE  SnapshotsKept
<1>t. Types
  BY DEF IInv
<1>u. ASSUME snapshots' = snapshots PROVE SnapshotsKept
  BY <1>t, <1>u, SnapshotsSame
<1>1. ASSUME NEW c \in Clients, Step(c) PROVE SnapshotsKept
  <2>1. CASE CreateInitial(c)
    <3>1. NextVersion(snapshots) \in 1 .. MaxVersions
      BY <1>t, <2>1, NextVersionType, PlanAssumption DEF CreateInitial
    <3>2. NewSnapshot(NextVersion(snapshots), "DRAFT") \in Snapshot
      BY <1>t, <3>1, NewSnapshotType DEF Types, SnapshotStatus
    <3>3. QED  BY <1>t, <2>1, <3>2, SnapshotAdded DEF CreateInitial
  <2>2. CASE Store(c)
    BY <2>2, StoreKeeps
  <2>3. CASE Approve(c)
    BY <2>3, ApproveKeeps
  <2>4. CASE Acknowledge(c)
    <3> DEFINE p == proc[c]
               row == snapshots[p.row]
               w == Written(row)
               new == [w EXCEPT !.acknowledged = p.verdict]
    <3>0. p.row \in DOMAIN snapshots /\ row \in Snapshot /\ p.verdict \in Verdicts
      BY <2>4, AClient, Row DEF Acknowledge, At, Fits
    <3>1. snapshots' = snapshots \/ snapshots' = [snapshots EXCEPT ![p.row] = new]
      BY <2>4, <3>0 DEF Acknowledge
    <3>2. w \in Snapshot /\ w.recordVersion = row.recordVersion + 1 /\ w.status = row.status
      BY <3>0, WrittenRow
    <3> HIDE DEF w
    <3>3. new \in Snapshot /\ new.recordVersion = w.recordVersion /\ new.status = w.status
      BY <3>0, <3>2 DEF Snapshot
    <3> HIDE DEF new
    <3>4. QED  BY <1>t, <1>u, <3>0, <3>1, <3>2, <3>3, StatusKept
  <2>5. CASE CreateCopy(c)
    <3> DEFINE p == proc[c]
               row == snapshots[p.row]
               new == [row EXCEPT !.version = p.expected, !.status = "DRAFT", !.recordVersion = 0,
                                  !.feasibility = FeasibilityOf(EmptyTeam, {}), !.acknowledged = None]
    <3>0. row \in Snapshot /\ p.expected \in 1 .. MaxVersions
      BY <2>5, AClient, Row DEF CreateCopy, At, Fits
    <3>1. snapshots' = Append(snapshots, new)
      BY <2>5 DEF CreateCopy
    <3> HIDE DEF row, p
    <3>2. new \in Snapshot
      BY <3>0, EmptyFacts DEF Snapshot, SnapshotStatus
    <3> HIDE DEF new
    <3>3. QED  BY <1>t, <3>1, <3>2, SnapshotAdded
  <2>6. CASE Retire(c)
    BY <1>t, <2>6, SnapshotsSuperseded DEF Retire
  <2>7. QED
    BY <1>1, <1>u, <2>1, <2>2, <2>3, <2>4, <2>5, <2>6
       DEF Step, Refuse, AddDependency, Refresh, CreateRun, AnswerFails, Generate, ReadPreserved, DeleteUnits,
           DeleteEdges, InsertUnits, InferDependencies, EndRun, CarryForward
<1>2. ASSUME NEW c \in Clients, Request(c) PROVE SnapshotsKept
  <2>1. ASSUME NEW team \in Teams, SetPlan(c, team) PROVE SnapshotsKept
    <3> DEFINE p == proc[c]
               row == snapshots[p.row]
               w == Written(row)
               new == [w EXCEPT !.team = team]
    <3>0. p.row \in DOMAIN snapshots /\ row \in Snapshot
      BY <2>1, AClient, Row DEF SetPlan, At, Fits
    <3>1. snapshots' = snapshots \/ snapshots' = [snapshots EXCEPT ![p.row] = new]
      BY <2>1, <3>0 DEF SetPlan
    <3>2. w \in Snapshot /\ w.recordVersion = row.recordVersion + 1 /\ w.status = row.status
      BY <3>0, WrittenRow
    <3> HIDE DEF w
    <3>3. new \in Snapshot /\ new.recordVersion = w.recordVersion /\ new.status = w.status
      BY <3>2 DEF Snapshot
    <3> HIDE DEF new
    <3>4. QED  BY <1>t, <1>u, <3>0, <3>1, <3>2, <3>3, StatusKept
  <2>2. ASSUME NEW s \in DOMAIN snapshots, RecalculateSchedule(c, s) PROVE SnapshotsKept
    <3>1. snapshots' = [snapshots EXCEPT ![s] = Written(snapshots[s])] /\ snapshots[s] \in Snapshot
      BY <1>t, <2>2, Row DEF RecalculateSchedule
    <3>2. QED  BY <1>t, <3>1, WrittenRow, StatusKept
  <2>3. QED
    BY <1>2, <1>u, <2>1, <2>2
       DEF Request, Arrive, OpenEditable, Override, Reset, CheckDependency, AddManual, RemoveDependency,
           RunRead, ReadRisk, Check, ReopenRead
<1>3. QED
  BY <1>1, <1>2, <1>u DEF Next, ChangeUpstream, vars

-----------------------------------------------------------------------------
(* The lines *)

LinesKept ==
    /\ NumberedLines(units', created')
    /\ \A u \in DOMAIN units : IsUserAuthored(units[u]) => u \in DOMAIN units'

LEMMA LinesSame ==
    ASSUME Types, units' = units, created' = created
    PROVE  LinesKept
  BY DEF Types, NumberedLines, LinesKept

LEMMA LineFacts ==
    ASSUME Types, NEW u \in DOMAIN units
    PROVE  /\ units[u] \in Unit /\ KeepsItsFigure(units[u]) /\ u \in 1 .. MaxUnits /\ u \in 1 .. created
           /\ units[u].recordVersion \in Nat /\ units[u].effort \in Efforts
           /\ units[u].original \in Efforts \cup {None}
<1>1. /\ units[u] \in Unit /\ KeepsItsFigure(units[u]) /\ u \in 1 .. created /\ created \in 0 .. MaxUnits
  BY DEF Types, NumberedLines
<1>2. MaxUnits \in Nat
  BY EstimateAssumption
<1>3. QED  BY <1>1, <1>2 DEF Unit

\* A line is written.
LEMMA LineWritten ==
    ASSUME Types, NEW u \in DOMAIN units, NEW unit \in Unit, KeepsItsFigure(unit),
           SetUnit(u, unit), created' = created
    PROVE  LinesKept
<1> DEFINE w == Written(unit)
<1>1. /\ w \in Unit /\ w.origin = unit.origin /\ w.original = unit.original /\ w.source = unit.source
      /\ w.effort = unit.effort
  BY DEF Written, Unit
<1>2. units' = [units EXCEPT ![u] = w]
  BY DEF SetUnit
<1> HIDE DEF w
<1>3. KeepsItsFigure(w)
  BY <1>1 DEF KeepsItsFigure, IsUserAuthored
<1>4. DOMAIN units' = DOMAIN units /\ \A v \in DOMAIN units : units'[v] = IF v = u THEN w ELSE units[v]
  BY <1>2
<1>5. QED  BY <1>1, <1>3, <1>4 DEF Types, NumberedLines, LinesKept

\* NumberedLines are added, whose numbers are above those of all lines.
LEMMA LinesAdded ==
    ASSUME Types, NEW new, created' \in created .. MaxUnits, new \subseteq 1 .. created',
           DOMAIN units' = DOMAIN units \cup new,
           \A u \in DOMAIN units' :
               IF u \in new THEN units'[u] \in Unit /\ KeepsItsFigure(units'[u]) ELSE units'[u] = units[u]
    PROVE  LinesKept
<1>1. /\ created \in 0 .. MaxUnits /\ DOMAIN units \subseteq 1 .. created /\ MaxUnits \in Nat
      /\ \A u \in DOMAIN units : units[u] \in Unit /\ KeepsItsFigure(units[u])
  BY EstimateAssumption DEF Types, NumberedLines
<1>2. created' \in 0 .. MaxUnits /\ DOMAIN units \subseteq 1 .. created'
  BY <1>1
<1>3. QED  BY <1>1, <1>2 DEF LinesKept, NumberedLines

LEMMA NewUnitFacts ==
    ASSUME NEW version \in 1 .. MaxVersions, NEW requirement \in Requirements \cup {NoRequirement},
           NEW overhead \in BOOLEAN, NEW effort \in Efforts,
           NEW source \in {"SYSTEM_CALCULATED", "AI_PROPOSED", "USER_OVERRIDE"},
           NEW origin \in {"calculated", "hand"},
           origin = "calculated" => effort = Calculated /\ source # "USER_OVERRIDE"
    PROVE  LET unit == NewUnit(version, requirement, overhead, effort, source, origin)
           IN  unit \in Unit /\ KeepsItsFigure(unit)
<1> DEFINE unit == NewUnit(version, requirement, overhead, effort, source, origin)
<1>1. unit \in Unit
  BY DEF NewUnit, Unit
<1>2. KeepsItsFigure(unit)
  BY DEF NewUnit, KeepsItsFigure, IsUserAuthored
<1>3. QED  BY <1>1, <1>2

LEMMA VersionInHand ==
    ASSUME IInv, NEW c \in Clients, proc[c].at \notin {"idle", "first"}
    PROVE  Mine(c) \in 1 .. MaxVersions /\ proc[c].row \in DOMAIN snapshots
<1>1. Types /\ proc[c].row \in DOMAIN snapshots
  BY AClient DEF Fits
<1>2. QED  BY <1>1, Row DEF Mine

LEMMA OfFacts ==
    ASSUME Types, NEW version
    PROVE  Of(version) \subseteq DOMAIN units /\ Of(version) \subseteq Nat /\ IsFiniteSet(Of(version))
<1>1. Of(version) \subseteq DOMAIN units /\ DOMAIN units \subseteq 1 .. created /\ created \in Nat
  BY EstimateAssumption DEF Of, Types, NumberedLines
<1>2. IsFiniteSet(1 .. created) /\ Of(version) \subseteq 1 .. created
  BY <1>1, FS_Interval
<1>3. QED  BY <1>1, <1>2, FS_Subset

LEMMA InsertKeeps ==
    ASSUME IInv, NEW c \in Clients, InsertUnits(c)
    PROVE  LinesKept
<1> DEFINE p == proc[c]
           version == Mine(c)
           wanted == p.wanted \ {k[2] : k \in p.claimed}
           n == Cardinality(wanted)
           number == CHOOSE f \in [wanted -> created + 1 .. created + n] :
                       \A x, y \in wanted : x # y => f[x] # f[y]
           overhead == created + n + 1
           source == IF p.ai THEN "AI_PROPOSED" ELSE "SYSTEM_CALCULATED"
           new == {number[r] : r \in wanted} \cup {overhead}
           line(u) == CHOOSE r \in wanted : number[r] = u
           over == NewUnit(version, NoRequirement, TRUE, Calculated, "SYSTEM_CALCULATED", "calculated")
           feature(u) == NewUnit(version, line(u), FALSE, Calculated, source, "calculated")
<1>0. Types /\ p \in Ask /\ version \in 1 .. MaxVersions
  BY AClient, VersionInHand DEF InsertUnits, At
<1>1. wanted \in SUBSET Requirements
  BY <1>0 DEF Ask
<1>2. IsFiniteSet(wanted) /\ n \in Nat
  BY <1>1, EstimateAssumption, FS_Subset, FS_CardinalityType
<1>3. created \in Nat /\ MaxUnits \in Nat
  BY <1>0, EstimateAssumption DEF Types, NumberedLines
<1>4. /\ overhead <= MaxUnits /\ created' = overhead
      /\ units' = [u \in DOMAIN units \cup new |->
            IF u = overhead THEN over ELSE IF u \in new THEN feature(u) ELSE units[u]]
  BY DEF InsertUnits
<1>5. source \in {"SYSTEM_CALCULATED", "AI_PROPOSED", "USER_OVERRIDE"} /\ source # "USER_OVERRIDE"
  OBVIOUS
<1> HIDE DEF source, version, p
<1>6. over \in Unit /\ KeepsItsFigure(over)
  BY <1>0, NewUnitFacts DEF Efforts
<1> HIDE DEF wanted
<1>7. number \in [wanted -> created + 1 .. created + n]
  BY <1>2, <1>3, Numbers
<1> HIDE DEF number, n
<1>8. ASSUME NEW u \in new, u # overhead PROVE feature(u) \in Unit /\ KeepsItsFigure(feature(u))
  <2>1. line(u) \in wanted
    BY <1>8
  <2> HIDE DEF line
  <2>2. line(u) \in Requirements \cup {NoRequirement}
    BY <1>1, <2>1
  <2>3. QED  BY <1>0, <1>5, <2>2, NewUnitFacts DEF Efforts
<1>9. new \subseteq 1 .. overhead /\ overhead \in created .. MaxUnits
  <2>1. overhead \in 1 .. overhead /\ overhead \in created .. MaxUnits
    BY <1>2, <1>3, <1>4
  <2>2. ASSUME NEW r \in wanted PROVE number[r] \in 1 .. overhead
    <3>1. number[r] \in created + 1 .. created + n
      BY <1>7
    <3>2. QED  BY <1>2, <1>3, <3>1
  <2>3. QED  BY <2>1, <2>2
<1> HIDE DEF over, feature
<1>10. DOMAIN units' = DOMAIN units \cup new /\ overhead \in new
  BY <1>4
<1>11. \A u \in DOMAIN units' : units'[u] = IF u = overhead THEN over ELSE IF u \in new THEN feature(u) ELSE units[u]
  BY <1>4
<1> HIDE DEF new, overhead
<1>12. QED  BY <1>0, <1>4, <1>6, <1>8, <1>9, <1>10, <1>11, LinesAdded

\* Where CarryForward puts a line.
Rank(version, u) == created + Cardinality({v \in Of(version) : v <= u})

LEMMA RankFacts ==
    ASSUME Types, NEW version
    PROVE  LET new == {Rank(version, u) : u \in Of(version)} IN
           /\ new = created + 1 .. created + Cardinality(new)
           /\ Cardinality(new) \in Nat
<1> DEFINE S == Of(version)
           N == Cardinality(S)
           Upto(u) == {v \in S : v <= u}
           new == {Rank(version, u) : u \in S}
<1>1. S \subseteq Nat /\ IsFiniteSet(S) /\ N \in Nat /\ created \in Nat
  BY OfFacts, FS_CardinalityType, EstimateAssumption DEF Types, NumberedLines
<1>2. ASSUME NEW u \in S PROVE Cardinality(Upto(u)) \in 1 .. N
  <2>1. Upto(u) \in SUBSET S /\ {u} \in SUBSET Upto(u)
    BY <1>1
  <2> HIDE DEF Upto, S
  <2>2. /\ IsFiniteSet(Upto(u)) /\ Cardinality(Upto(u)) <= N /\ Cardinality(Upto(u)) \in Nat
    BY <1>1, <2>1, FS_Subset, FS_CardinalityType
  <2>3. Cardinality({u}) = 1 /\ Cardinality({u}) <= Cardinality(Upto(u))
    BY <2>1, <2>2, FS_Subset, FS_Singleton
  <2>4. QED  BY <1>1, <2>2, <2>3
<1>3. \A n \in 1 .. N : \E u \in S : Cardinality(Upto(u)) = n
  <2> HIDE DEF S
  <2>1. QED  BY <1>1, Ranks
<1>4. \A u \in S : Rank(version, u) = created + Cardinality(Upto(u))
  BY DEF Rank
<1> HIDE DEF S, N, Upto
<1>5. new = created + 1 .. created + N
  <2>1. \A x \in new : x \in created + 1 .. created + N
    <3> SUFFICES ASSUME NEW u \in S PROVE Rank(version, u) \in created + 1 .. created + N
      OBVIOUS
    <3>1. Cardinality(Upto(u)) \in 1 .. N
      BY <1>2
    <3>2. QED  BY <1>1, <1>4, <3>1
  <2>2. \A x \in created + 1 .. created + N : x \in new
    <3> SUFFICES ASSUME NEW x \in created + 1 .. created + N PROVE \E u \in S : Rank(version, u) = x
      OBVIOUS
    <3>1. x - created \in 1 .. N /\ x = created + (x - created)
      BY <1>1
    <3>2. PICK u \in S : Cardinality(Upto(u)) = x - created
      BY <1>3, <3>1
    <3>3. QED  BY <1>4, <3>1, <3>2
  <2> HIDE DEF new
  <2>3. QED  BY <2>1, <2>2
<1>6. Cardinality(created + 1 .. created + N) = N
  <2>1. /\ created + 1 \in Int /\ created + N \in Int
        /\ IF created + 1 > created + N THEN N = 0 ELSE (created + N) - (created + 1) + 1 = N
    BY <1>1
  <2>2. QED  BY <2>1, FS_Interval
<1>7. QED  BY <1>1, <1>5, <1>6 DEF S

LEMMA CarryFacts ==
    ASSUME IInv, NEW c \in Clients, CarryForward(c)
    PROVE  LET new == {Rank(Mine(c), u) : u \in Of(Mine(c))} IN
           /\ created' = created + Cardinality(new) /\ created' \in created .. MaxUnits
           /\ new \subseteq 1 .. created'
           /\ NextVersion(snapshots) \in 1 .. MaxVersions
<1> DEFINE new == {Rank(Mine(c), u) : u \in Of(Mine(c))}
<1>1. created' = created + Cardinality(new) /\ created + Cardinality(new) <= MaxUnits /\ NextVersion(snapshots) <= MaxVersions
  BY DEF CarryForward, Rank
<1>2. /\ Types /\ created \in Nat /\ MaxUnits \in Nat /\ NextVersion(snapshots) \in Nat \ {0} /\ MaxVersions \in Nat
  BY NextVersionType, EstimateAssumption, PlanAssumption DEF IInv, Types, NumberedLines
<1>3. new = created + 1 .. created + Cardinality(new) /\ Cardinality(new) \in Nat
  BY <1>2, RankFacts
<1> HIDE DEF new
<1>4. QED  BY <1>1, <1>2, <1>3 DEF new

LEMMA CarryKeeps ==
    ASSUME IInv, NEW c \in Clients, CarryForward(c)
    PROVE  LinesKept
<1> DEFINE version == Mine(c)
           next == NextVersion(snapshots)
           new == {Rank(version, u) : u \in Of(version)}
           source(n) == CHOOSE u \in Of(version) : Rank(version, u) = n
           copy(n) == [units[source(n)] EXCEPT !.estimate = next, !.recordVersion = 0]
<1>0. /\ Types /\ created' \in created .. MaxUnits /\ new \subseteq 1 .. created' /\ next \in 1 .. MaxVersions
      /\ Of(version) \subseteq DOMAIN units
  BY CarryFacts, OfFacts DEF IInv
<1>1. units' = [n \in DOMAIN units \cup new |-> IF n \in new THEN copy(n) ELSE units[n]]
  BY DEF CarryForward, Rank
<1>2. ASSUME NEW n \in new PROVE copy(n) \in Unit /\ KeepsItsFigure(copy(n))
  <2>1. source(n) \in Of(version)
    BY <1>2
  <2> HIDE DEF source
  <2> DEFINE unit == units[source(n)]
             w == [unit EXCEPT !.estimate = next, !.recordVersion = 0]
  <2>2. unit \in Unit /\ KeepsItsFigure(unit)
    BY <1>0, <2>1, LineFacts
  <2> HIDE DEF unit, next
  <2>3. /\ w \in Unit /\ w.origin = unit.origin /\ w.original = unit.original /\ w.source = unit.source
        /\ w.effort = unit.effort
    BY <1>0, <2>2 DEF Unit
  <2> HIDE DEF w
  <2>4. KeepsItsFigure(w)
    BY <2>2, <2>3 DEF KeepsItsFigure, IsUserAuthored
  <2>5. copy(n) = w
    BY DEF w, unit
  <2>6. QED  BY <2>3, <2>4, <2>5
<1> HIDE DEF copy
<1>3. /\ DOMAIN units' = DOMAIN units \cup new
      /\ \A n \in DOMAIN units' : units'[n] = IF n \in new THEN copy(n) ELSE units[n]
  BY <1>1
<1> HIDE DEF new
<1>4. QED  BY <1>0, <1>2, <1>3, LinesAdded

LEMMA OverrideKeeps ==
    ASSUME IInv, NEW c \in Clients, NEW u \in DOMAIN units, NEW figure \in Figures, NEW excluded \in BOOLEAN,
           Override(c, u, figure, excluded)
    PROVE  LinesKept
<1> DEFINE unit == units[u]
           original == Capture(unit)
           new == [unit EXCEPT !.effort = figure, !.original = original, !.source = "USER_OVERRIDE",
                               !.excluded = excluded]
<1>1. Types /\ SetUnit(u, new) /\ created' = created
  BY DEF Override, IInv, Data
<1>2. unit \in Unit /\ KeepsItsFigure(unit) /\ unit.effort \in Efforts /\ unit.original \in Efforts \cup {None}
  BY <1>1, LineFacts
<1>3. original \in Efforts /\ (unit.origin = "calculated" => original = Calculated)
  <2>1. None # Calculated
    BY EstimateAssumption
  <2>2. QED  BY <1>2, <2>1 DEF Capture, KeepsItsFigure
<1>4. figure \in Efforts
  BY DEF Efforts
<1> HIDE DEF unit, original
<1>5. new \in Unit /\ new.origin = unit.origin /\ new.original = original /\ new.source = "USER_OVERRIDE"
  BY <1>2, <1>3, <1>4 DEF Unit
<1> HIDE DEF new
<1>6. KeepsItsFigure(new)
  BY <1>3, <1>5 DEF KeepsItsFigure, IsUserAuthored
<1>7. QED  BY <1>1, <1>5, <1>6, LineWritten

LEMMA ResetKeeps ==
    ASSUME IInv, NEW c \in Clients, NEW u \in DOMAIN units, Reset(c, u)
    PROVE  LinesKept
<1> DEFINE unit == units[u]
           new == [unit EXCEPT !.effort = unit.original, !.original = None, !.source = "SYSTEM_CALCULATED"]
<1>1. Types /\ SetUnit(u, new) /\ created' = created /\ unit.original # None
  BY DEF Reset, IInv, Data
<1>2. unit \in Unit /\ KeepsItsFigure(unit) /\ unit.original \in Efforts
  BY <1>1, LineFacts
<1> HIDE DEF unit
<1>3. /\ new \in Unit /\ new.origin = unit.origin /\ new.original = None /\ new.source = "SYSTEM_CALCULATED"
      /\ new.effort = unit.original
  BY <1>2 DEF Unit
<1> HIDE DEF new
<1>4. KeepsItsFigure(new)
  BY <1>1, <1>2, <1>3 DEF KeepsItsFigure, IsUserAuthored
<1>5. QED  BY <1>1, <1>3, <1>4, LineWritten

LEMMA AddKeeps ==
    ASSUME IInv, NEW c \in Clients, NEW requirement \in Requirements \cup {NoRequirement}, NEW figure \in Figures,
           AddManual(c, requirement, figure)
    PROVE  LinesKept
<1> DEFINE version == Mine(c)
           new == NewUnit(version, requirement, FALSE, figure, "USER_OVERRIDE", "hand")
<1>1. Types /\ version \in 1 .. MaxVersions /\ figure \in Efforts
  BY AClient, VersionInHand DEF AddManual, At, Efforts
<1>2. /\ created < MaxUnits /\ created' = created + 1
      /\ units' = [u \in DOMAIN units \cup {created'} |-> IF u = created' THEN new ELSE units[u]]
  BY DEF AddManual
<1> HIDE DEF version
<1>3. new \in Unit /\ KeepsItsFigure(new)
  BY <1>1, NewUnitFacts
<1> HIDE DEF new
<1>4. created' \in created .. MaxUnits /\ {created'} \subseteq 1 .. created'
  BY <1>1, <1>2, EstimateAssumption DEF Types, NumberedLines
<1>5. QED  BY <1>1, <1>2, <1>3, <1>4, LinesAdded

LEMMA LinesNext ==
    ASSUME IInv, [Next]_vars
    PROVE  LinesKept
<1>t. Types
  BY DEF IInv
<1>u. ASSUME units' = units, created' = created PROVE LinesKept
  BY <1>t, <1>u, LinesSame
<1>1. ASSUME NEW c \in Clients, Step(c) PROVE LinesKept
  <2>1. CASE DeleteUnits(c)
    <3>1. units' = [u \in DOMAIN units \ Replaceable(c) |-> units[u]] /\ created' = created
      BY <2>1 DEF DeleteUnits, Data
    <3>2. \A u \in DOMAIN units : IsUserAuthored(units[u]) => u \notin Replaceable(c)
      BY DEF Replaceable
    <3>3. QED  BY <1>t, <3>1, <3>2 DEF Types, NumberedLines, LinesKept
  <2>2. CASE InsertUnits(c)
    BY <2>2, InsertKeeps
  <2>3. CASE CarryForward(c)
    BY <2>3, CarryKeeps
  <2>4. QED
    BY <1>1, <1>u, <2>1, <2>2, <2>3
       DEF Step, CreateInitial, Refuse, AddDependency, Refresh, Store, CreateRun, AnswerFails, Generate,
           ReadPreserved, DeleteEdges, InferDependencies, EndRun, Acknowledge, Approve, CreateCopy, Retire, Data
<1>2. ASSUME NEW c \in Clients, Request(c) PROVE LinesKept
  BY <1>2, <1>u, OverrideKeeps, ResetKeeps, AddKeeps
     DEF Request, Arrive, OpenEditable, CheckDependency, RemoveDependency, SetPlan, RunRead, ReadRisk,
         RecalculateSchedule, Check, ReopenRead, Data
<1>3. QED
  BY <1>1, <1>2, <1>u DEF Next, ChangeUpstream, vars

-----------------------------------------------------------------------------
(* The dependencies, and what the estimate stands on *)

LEMMA LineNumbers ==
    ASSUME Types, NEW version
    PROVE  Of(version) \subseteq 1 .. MaxUnits
  BY OfFacts, LineFacts

LEMMA EdgesNext ==
    ASSUME IInv, [Next]_vars
    PROVE  edges' \subseteq Edge
<1>t. Types /\ edges \subseteq Edge
  BY DEF IInv, Types
<1>u. ASSUME edges' \subseteq edges PROVE edges' \subseteq Edge
  BY <1>t, <1>u
<1>1. ASSUME NEW c \in Clients, Step(c) PROVE edges' \subseteq Edge
  <2>1. CASE AddDependency(c)
    <3>1. Mine(c) \in 1 .. MaxVersions /\ proc[c].from \in 1 .. MaxUnits /\ proc[c].to \in 1 .. MaxUnits
      BY <2>1, AClient, VersionInHand DEF AddDependency, At, Fits
    <3>2. edges' = edges \cup {[estimate |-> Mine(c), from |-> proc[c].from, to |-> proc[c].to, userDefined |-> TRUE]}
      BY <2>1 DEF AddDependency
    <3>3. [estimate |-> Mine(c), from |-> proc[c].from, to |-> proc[c].to, userDefined |-> TRUE] \in Edge
      BY <3>1 DEF Edge
    <3>4. QED  BY <1>t, <3>2, <3>3
  <2>2. CASE InferDependencies(c)
    <3>1. Mine(c) \in 1 .. MaxVersions /\ Of(Mine(c)) \subseteq 1 .. MaxUnits
      BY <1>t, <2>2, AClient, VersionInHand, LineNumbers DEF InferDependencies, At
    <3>2. \A o \in Of(Mine(c)), f \in Of(Mine(c)) :
             [estimate |-> Mine(c), from |-> o, to |-> f, userDefined |-> FALSE] \in Edge
      BY <3>1 DEF Edge
    <3>3. QED  BY <1>t, <2>2, <3>2 DEF InferDependencies
  <2>3. CASE CarryForward(c)
    <3> DEFINE version == Mine(c)
               next == NextVersion(snapshots)
               ranks == {Rank(version, u) : u \in Of(version)}
               links == {d \in EdgesOf(version) : {d.from, d.to} \subseteq Of(version)}
               copy(e) == [e EXCEPT !.estimate = next, !.from = Rank(version, e.from), !.to = Rank(version, e.to)]
    <3>1. next \in 1 .. MaxVersions /\ ranks \subseteq 1 .. MaxUnits
      <4>1. ranks \subseteq 1 .. created' /\ created' \in created .. MaxUnits /\ next \in 1 .. MaxVersions
        BY <2>3, CarryFacts
      <4>2. created \in Nat /\ MaxUnits \in Nat
        BY <1>t, EstimateAssumption DEF Types, NumberedLines
      <4> HIDE DEF ranks, next
      <4>3. QED  BY <4>1, <4>2
    <3>2. edges' = edges \cup {copy(e) : e \in links}
      BY <2>3 DEF CarryForward, Rank
    <3>3. ASSUME NEW e \in links PROVE copy(e) \in Edge
      <4>1. e \in Edge /\ e.from \in Of(version) /\ e.to \in Of(version)
        BY <1>t DEF EdgesOf
      <4>2. Rank(version, e.from) \in 1 .. MaxUnits /\ Rank(version, e.to) \in 1 .. MaxUnits
        BY <3>1, <4>1
      <4> HIDE DEF version, next
      <4>3. QED  BY <3>1, <4>1, <4>2 DEF Edge
    <3> HIDE DEF copy, links
    <3>4. QED  BY <1>t, <3>2, <3>3
  <2>4. CASE DeleteEdges(c)
    BY <1>u, <2>4 DEF DeleteEdges
  <2>5. QED
    BY <1>1, <1>u, <2>1, <2>2, <2>3, <2>4
       DEF Step, CreateInitial, Refuse, Refresh, Store, CreateRun, AnswerFails, Generate,
           ReadPreserved, DeleteUnits, InsertUnits, EndRun, Acknowledge, Approve, CreateCopy, Retire
<1>2. ASSUME NEW c \in Clients, Request(c) PROVE edges' \subseteq Edge
  BY <1>2, <1>u
     DEF Request, Arrive, OpenEditable, Override, Reset, CheckDependency, AddManual, RemoveDependency, SetPlan,
         RunRead, ReadRisk, RecalculateSchedule, Check, ReopenRead
<1>3. QED
  BY <1>1, <1>2, <1>u DEF Next, ChangeUpstream, vars

LEMMA UpstreamNext ==
    ASSUME IInv, [Next]_vars
    PROVE  Upstream' /\ running' \subseteq Clients /\ stuck' \in BOOLEAN
<1>t. Upstream /\ running \subseteq Clients /\ stuck \in BOOLEAN
  BY DEF IInv, Types
<1> DEFINE Goal == Upstream' /\ running' \subseteq Clients /\ stuck' \in BOOLEAN
<1>u. ASSUME UNCHANGED <<baseline, stack, upstream>>, running' \subseteq Clients, stuck' \in BOOLEAN PROVE Goal
  BY <1>t, <1>u DEF Upstream
<1>1. CASE ChangeUpstream
  <2>0. /\ baseline.version \in Nat /\ baseline.requirements \in SUBSET Requirements
        /\ upstream \in Nat /\ baseline.version <= upstream + 1 /\ MaxUpstream \in Nat
        /\ baseline \in [version : 0 .. MaxUpstream + 1, current : BOOLEAN, requirements : SUBSET Requirements]
        /\ stack \in 0 .. MaxUpstream + 1
    BY <1>t, PlanAssumption DEF Upstream
  <2>1. /\ upstream < MaxUpstream /\ upstream' = upstream + 1 /\ running' = running /\ stuck' = stuck
    BY <1>1 DEF ChangeUpstream
  <2>2. ASSUME NEW r \in SUBSET Requirements,
               baseline' = [version |-> baseline.version + 1, current |-> TRUE, requirements |-> r], stack' = stack
        PROVE  Goal
    <3>1. baseline.version + 1 \in 0 .. MaxUpstream + 1 /\ baseline'.version = baseline.version + 1
      BY <2>0, <2>1, <2>2
    <3>2. baseline' \in [version : 0 .. MaxUpstream + 1, current : BOOLEAN, requirements : SUBSET Requirements]
      BY <2>2, <3>1
    <3>3. QED  BY <1>t, <2>0, <2>1, <2>2, <3>1, <3>2 DEF Upstream
  <2>3. CASE baseline' = [baseline EXCEPT !.current = FALSE] /\ stack' = stack
    <3>1. /\ baseline' \in [version : 0 .. MaxUpstream + 1, current : BOOLEAN, requirements : SUBSET Requirements]
          /\ baseline'.version = baseline.version
      BY <2>0, <2>3
    <3>2. QED  BY <1>t, <2>0, <2>1, <2>3, <3>1 DEF Upstream
  <2>4. CASE stack' \in {0, upstream + 2} /\ baseline' = baseline
    BY <1>t, <2>0, <2>1, <2>4 DEF Upstream
  <2>5. CASE UNCHANGED <<baseline, stack>>
    BY <1>t, <2>0, <2>1, <2>5 DEF Upstream
  <2>6. QED  BY <1>1, <2>2, <2>3, <2>4, <2>5 DEF ChangeUpstream
<1> HIDE DEF Goal
<1>2. ASSUME NEW c \in Clients, Step(c) PROVE Goal
  BY <1>t, <1>2, <1>u
     DEF Step, CreateInitial, Refuse, AddDependency, Refresh, Store, CreateRun, AnswerFails, Generate,
         ReadPreserved, DeleteUnits, DeleteEdges, InsertUnits, InferDependencies, EndRun, Acknowledge, Approve,
         CarryForward, CreateCopy, Retire, Data, Runs
<1>3. ASSUME NEW c \in Clients, Request(c) PROVE Goal
  BY <1>t, <1>3, <1>u
     DEF Request, Arrive, OpenEditable, Override, Reset, CheckDependency, AddManual, RemoveDependency, SetPlan,
         RunRead, ReadRisk, RecalculateSchedule, Check, ReopenRead, Data, Runs
<1>4. QED
  BY <1>t, <1>1, <1>2, <1>3, <1>u DEF Next, vars, Goal

-----------------------------------------------------------------------------
(* The requests *)

ProcStep(c) ==
    \E p \in Ask : proc' = [proc EXCEPT ![c] = p] /\ Fits(p, snapshots')

\* What a request has at hand stays good, whatever others write.
LEMMA StillFits ==
    ASSUME Types, SnapshotsKept, NEW p \in Ask, Fits(p, snapshots)
    PROVE  Fits(p, snapshots')
<1>1. \A s \in DOMAIN snapshots :
         /\ s \in DOMAIN snapshots' /\ Moves(snapshots[s], snapshots'[s])
         /\ snapshots[s].recordVersion \in Nat /\ snapshots'[s].recordVersion \in Nat
  <2> SUFFICES ASSUME NEW s \in DOMAIN snapshots
               PROVE  /\ s \in DOMAIN snapshots' /\ Moves(snapshots[s], snapshots'[s])
                      /\ snapshots[s].recordVersion \in Nat /\ snapshots'[s].recordVersion \in Nat
    OBVIOUS
  <2>1. s \in DOMAIN snapshots' /\ Moves(snapshots[s], snapshots'[s]) /\ snapshots'[s] \in Snapshot
    BY DEF SnapshotsKept
  <2>2. QED  BY <2>1, Row DEF Snapshot
<1>2. p.expected \in Nat
  BY DEF Ask
<1>3. CASE p.at = "approve"
  <2> DEFINE old == snapshots[p.row]
             new == snapshots'[p.row]
  <2>1. /\ p.row \in DOMAIN snapshots /\ p.verdict \in Verdicts /\ p.expected <= old.recordVersion
        /\ p.expected = old.recordVersion /\ p.verdict \in NeedsAcknowledgement => old.acknowledged = p.verdict
    BY <1>3 DEF Fits
  <2>2. /\ p.row \in DOMAIN snapshots' /\ old.recordVersion <= new.recordVersion
        /\ new.recordVersion = old.recordVersion => new.acknowledged = old.acknowledged
        /\ old.recordVersion \in Nat /\ new.recordVersion \in Nat
    BY <1>1, <2>1 DEF Moves
  <2> HIDE DEF old
  <2>3. /\ p.expected <= new.recordVersion
        /\ p.expected = new.recordVersion /\ p.verdict \in NeedsAcknowledgement => new.acknowledged = p.verdict
    BY <1>2, <2>1, <2>2
  <2>4. QED  BY <1>3, <2>1, <2>2, <2>3 DEF Fits
<1>4. CASE p.at = "store"
  <2> DEFINE old == snapshots[p.from]
             new == snapshots'[p.from]
  <2>1. /\ p.row \in DOMAIN snapshots /\ p.from \in DOMAIN snapshots /\ p.verdict \in Verdicts
        /\ p.next \in SnapshotStatus /\ p.expected <= old.recordVersion
        /\ p.expected = old.recordVersion /\ p.next = "APPROVED" => old.status \in {"APPROVED", "SUPERSEDED"}
    BY <1>4 DEF Fits
  <2>2. /\ p.row \in DOMAIN snapshots' /\ p.from \in DOMAIN snapshots' /\ old.recordVersion <= new.recordVersion
        /\ new.recordVersion = old.recordVersion => new.status \in {old.status, "SUPERSEDED"}
        /\ old.recordVersion \in Nat /\ new.recordVersion \in Nat
    BY <1>1, <2>1 DEF Moves
  <2> HIDE DEF old
  <2>3. /\ p.expected <= new.recordVersion
        /\ p.expected = new.recordVersion /\ p.next = "APPROVED" => new.status \in {"APPROVED", "SUPERSEDED"}
    BY <1>2, <2>1, <2>2
  <2>4. QED  BY <1>4, <2>1, <2>2, <2>3 DEF Fits
<1>5. CASE p.at \notin {"approve", "store"}
  BY <1>1, <1>5 DEF Fits
<1>6. QED  BY <1>3, <1>4, <1>5

LEMMA Moving ==
    ASSUME Types, SnapshotsKept, NEW c \in Clients, NEW p \in Ask,
           proc' = [proc EXCEPT ![c] = p], Fits(p, snapshots)
    PROVE  ProcStep(c)
  BY StillFits DEF ProcStep

LEMMA IdleFacts == Idle \in Ask /\ Idle.at = "idle" /\ \A rows : Fits(Idle, rows)
<1>1. Idle \in Ask /\ Idle.at = "idle"
  BY DEF Idle, Ask, Stages
<1>2. QED  BY <1>1 DEF Fits

LEMMA Returning ==
    ASSUME IInv, SnapshotsKept, NEW c \in Clients, Return(c)
    PROVE  ProcStep(c)
  BY AClient, IdleFacts, Moving DEF Return

LEMMA Going ==
    ASSUME IInv, SnapshotsKept, NEW c \in Clients,
           NEW stage \in Stages \ {"idle", "copy", "link", "acknowledge", "approve", "store"}, Go(c, stage),
           stage # "first" => proc[c].at \notin {"idle", "first"}
    PROVE  ProcStep(c)
<1> DEFINE p0 == proc[c]
           p == [p0 EXCEPT !.at = stage]
<1>0. Types /\ p0 \in Ask /\ (stage # "first" => p0.row \in DOMAIN snapshots)
  BY AClient DEF Fits
<1>1. proc' = [proc EXCEPT ![c] = p]
  BY DEF Go
<1> HIDE DEF p0
<1>2. p \in Ask /\ p.at = stage /\ p.row = p0.row
  BY <1>0 DEF Ask
<1> HIDE DEF p
<1>3. Fits(p, snapshots)
  BY <1>0, <1>2 DEF Fits
<1>4. QED  BY <1>0, <1>1, <1>2, <1>3, Moving

\* A version is opened.
LEMMA Opening ==
    ASSUME IInv, SnapshotsKept, NEW c \in Clients, NEW s \in DOMAIN snapshots, NEW expected \in Nat,
           proc' = [proc EXCEPT ![c] = [Idle EXCEPT !.at = "open", !.row = s, !.expected = expected]]
    PROVE  ProcStep(c)
<1> DEFINE p == [Idle EXCEPT !.at = "open", !.row = s, !.expected = expected]
<1>1. Types /\ s \in Nat
  BY Row DEF IInv
<1>2. p \in Ask /\ p.at = "open" /\ p.row = s
  BY <1>1, IdleFacts DEF Ask, Stages
<1> HIDE DEF p
<1>3. Fits(p, snapshots)
  BY <1>2 DEF Fits
<1>4. QED  BY <1>1, <1>2, <1>3, Moving DEF p

\* An estimate without blockers has no risk that nobody accepted.
LEMMA NothingBlocks ==
    ASSUME NEW row, Blockers(row) = {}
    PROVE  Feasibility(row) \in NeedsAcknowledgement => row.acknowledged = Feasibility(row)
<1> DEFINE rest == If(~(baseline.requirements \subseteq {units[u].requirement : u \in Of(row.version)}),
                      "requirement_unestimated")
                   \cup If(HasCycle(row.version, EdgesOf(row.version)), "dependency_cycle")
           unaccepted == If(Unacknowledged(row), "unacknowledged_risk")
           stale == If(~BaselineCurrent(row), "baseline_not_current") \cup If(~StackCurrent(row), "stack_not_current")
<1>1. unaccepted \subseteq Blockers(row)
  <2> HIDE DEF rest, unaccepted, stale
  <2>1. Blockers(row) =
           IF baseline.version = 0 THEN {"baseline_not_approved"}
           ELSE IF stack = 0 THEN {"stack_not_locked"}
           ELSE IF timeline = "missing" THEN {"timeline_missing"}
           ELSE IF timeline = "contradictory" THEN {"deadline_before_start"}
           ELSE stale \cup (IF Counted(row.version) = {} THEN {"no_estimates"} ELSE rest \cup unaccepted)
    BY DEF Blockers, rest, unaccepted, stale
  <2>2. QED  BY <2>1
<1>2. ~Unacknowledged(row)
  BY <1>1 DEF If
<1>3. QED  BY <1>2 DEF Unacknowledged

LEMMA Checking ==
    ASSUME IInv, SnapshotsKept, NEW c \in Clients, Check(c)
    PROVE  ProcStep(c)
<1>1. PICK s \in Currents(snapshots) :
         /\ Blockers(snapshots[s]) = {}
         /\ proc' = [proc EXCEPT ![c] = [Idle EXCEPT !.at = "approve", !.row = s,
                       !.expected = snapshots[s].recordVersion, !.verdict = Feasibility(snapshots[s])]]
  BY DEF Check
<1> DEFINE row == snapshots[s]
           expected == row.recordVersion
           verdict == Feasibility(row)
           p == [Idle EXCEPT !.at = "approve", !.row = s, !.expected = expected, !.verdict = verdict]
<1>2. Types /\ s \in DOMAIN snapshots /\ s \in Nat /\ expected \in Nat /\ verdict \in Verdicts
  BY CurrentOnes, Row, FeasibilityType DEF IInv
<1>3. verdict \in NeedsAcknowledgement => row.acknowledged = verdict
  BY <1>1, NothingBlocks
<1>4. proc' = [proc EXCEPT ![c] = p]
  BY <1>1
<1> HIDE DEF expected, verdict
<1>5. p \in Ask /\ p.at = "approve" /\ p.row = s /\ p.expected = expected /\ p.verdict = verdict
  BY <1>2, IdleFacts DEF Ask, Stages
<1> HIDE DEF p
<1>6. Fits(p, snapshots)
  BY <1>2, <1>3, <1>5 DEF Fits, expected
<1>7. QED  BY <1>2, <1>4, <1>5, <1>6, Moving

LEMMA Refreshing ==
    ASSUME IInv, SnapshotsKept, NEW c \in Clients, Refresh(c)
    PROVE  ProcStep(c)
<1> DEFINE p0 == proc[c]
<1>1. PICK s \in IF Currents(snapshots) = {} THEN {p0.row} ELSE Currents(snapshots) :
         proc' = [proc EXCEPT ![c].at = "store", ![c].row = IF proc[c].inRun THEN @ ELSE s,
                    ![c].from = s, ![c].expected = snapshots[s].recordVersion,
                    ![c].verdict = Feasibility(snapshots[s]),
                    ![c].next = IF snapshots[s].status \in {"APPROVED", "OUTDATED", "SUPERSEDED"}
                                THEN snapshots[s].status
                                ELSE IF Blockers(snapshots[s]) = {} THEN "READY_FOR_APPROVAL"
                                ELSE "REVIEW_REQUIRED"]
  BY DEF Refresh
<1> DEFINE old == snapshots[s]
           expected == old.recordVersion
           verdict == Feasibility(old)
           row == IF p0.inRun THEN p0.row ELSE s
           next == IF old.status \in {"APPROVED", "OUTDATED", "SUPERSEDED"} THEN old.status
                   ELSE IF Blockers(old) = {} THEN "READY_FOR_APPROVAL" ELSE "REVIEW_REQUIRED"
           p == [p0 EXCEPT !.at = "store", !.row = row, !.from = s, !.expected = expected,
                           !.verdict = verdict, !.next = next]
<1>2. Types /\ p0 \in Ask /\ p0.row \in DOMAIN snapshots /\ proc \in [Clients -> Ask]
  BY AClient DEF Refresh, At, Fits
<1>3. s \in DOMAIN snapshots /\ row \in DOMAIN snapshots
  BY <1>2, CurrentOnes
<1>4. /\ s \in Nat /\ row \in Nat /\ expected \in Nat /\ verdict \in Verdicts /\ old.status \in SnapshotStatus
  BY <1>2, <1>3, Row, FeasibilityType
<1>5. next \in SnapshotStatus /\ (next = "APPROVED" => old.status = "APPROVED")
  BY <1>4 DEF SnapshotStatus
<1>6. proc' = [proc EXCEPT ![c] = p]
  BY <1>1, <1>2
<1> HIDE DEF p0, row, expected, verdict, next
<1>7. /\ p \in Ask /\ p.at = "store" /\ p.row = row /\ p.from = s /\ p.expected = expected
      /\ p.verdict = verdict /\ p.next = next
  BY <1>2, <1>4, <1>5 DEF Ask, Stages
<1> HIDE DEF p
<1>8. Fits(p, snapshots)
  BY <1>3, <1>4, <1>5, <1>7 DEF Fits, expected
<1>9. QED  BY <1>2, <1>6, <1>7, <1>8, Moving

LEMMA StepsMove ==
    ASSUME IInv, SnapshotsKept, NEW c \in Clients, Step(c)
    PROVE  ProcStep(c)
<1> DEFINE p0 == proc[c]
<1>0. Types /\ p0 \in Ask /\ Fits(p0, snapshots) /\ proc \in [Clients -> Ask]
  BY AClient
<1>1. CASE \/ CreateInitial(c) \/ Refuse(c) \/ AnswerFails(c) \/ EndRun(c) \/ Acknowledge(c)
           \/ Approve(c) \/ Retire(c)
  BY <1>1, Returning DEF CreateInitial, Refuse, AnswerFails, EndRun, Acknowledge, Approve, Retire
<1>2. CASE \/ AddDependency(c) \/ CreateRun(c) \/ DeleteUnits(c) \/ DeleteEdges(c) \/ InsertUnits(c)
           \/ InferDependencies(c) \/ CreateCopy(c)
  BY <1>2, Going
     DEF AddDependency, CreateRun, DeleteUnits, DeleteEdges, InsertUnits, InferDependencies, CreateCopy, At, Stages
<1>3. CASE Refresh(c)
  BY <1>3, Refreshing
<1>4. CASE Store(c)
  BY <1>4, Returning, Going DEF Store, At, Stages
<1>5. CASE Generate(c)
  <2>1. CASE Return(c)
    BY <2>1, Returning
  <2>2. CASE proc' = [proc EXCEPT ![c].at = "generate", ![c].wanted = baseline.requirements]
    <3> DEFINE p == [p0 EXCEPT !.at = "generate", !.wanted = baseline.requirements]
    <3>1. proc' = [proc EXCEPT ![c] = p] /\ p0.row \in DOMAIN snapshots
      BY <1>0, <1>5, <2>2 DEF Generate, At, Fits
    <3>2. baseline.requirements \in SUBSET Requirements
      BY <1>0 DEF Types, Upstream
    <3> HIDE DEF p0
    <3>3. p \in Ask /\ p.at = "generate" /\ p.row = p0.row
      BY <1>0, <3>2 DEF Ask, Stages
    <3> HIDE DEF p
    <3>4. Fits(p, snapshots)
      BY <3>1, <3>3 DEF Fits
    <3>5. QED  BY <1>0, <3>1, <3>3, <3>4, Moving
  <2>3. QED  BY <1>5, <2>1, <2>2 DEF Generate
<1>6. CASE ReadPreserved(c)
  <2> DEFINE kept == {v \in Of(Mine(c)) : IsUserAuthored(units[v])}
             claimed == {<<u, units[u].requirement>> : u \in kept}
             p == [p0 EXCEPT !.at = "units", !.claimed = claimed]
  <2>1. proc' = [proc EXCEPT ![c] = p] /\ p0.row \in DOMAIN snapshots
    BY <1>0, <1>6 DEF ReadPreserved, At, Fits
  <2>2. claimed \in SUBSET (Nat \X (Requirements \cup {NoRequirement}))
    <3> SUFFICES ASSUME NEW u \in kept PROVE u \in Nat /\ units[u].requirement \in Requirements \cup {NoRequirement}
      OBVIOUS
    <3>1. u \in Of(Mine(c))
      OBVIOUS
    <3>2. u \in Nat /\ units[u] \in Unit
      BY <1>0, <3>1, OfFacts, LineFacts
    <3>3. QED  BY <3>2 DEF Unit
  <2> HIDE DEF p0, claimed
  <2>3. p \in Ask /\ p.at = "units" /\ p.row = p0.row
    BY <1>0, <2>2 DEF Ask, Stages
  <2> HIDE DEF p
  <2>4. Fits(p, snapshots)
    BY <2>1, <2>3 DEF Fits
  <2>5. QED  BY <1>0, <2>1, <2>3, <2>4, Moving
<1>7. CASE CarryForward(c)
  <2> DEFINE next == NextVersion(snapshots)
             p == [p0 EXCEPT !.at = "copy", !.expected = next]
  <2>1. proc' = [proc EXCEPT ![c] = p] /\ p0.row \in DOMAIN snapshots
    BY <1>0, <1>7 DEF CarryForward, At, Fits
  <2>2. next \in 1 .. MaxVersions /\ next \in Nat
    BY <1>0, <1>7, CarryFacts, NextVersionType
  <2> HIDE DEF p0, next
  <2>3. p \in Ask /\ p.at = "copy" /\ p.row = p0.row /\ p.expected = next
    BY <1>0, <2>2 DEF Ask, Stages
  <2> HIDE DEF p
  <2>4. Fits(p, snapshots)
    BY <2>1, <2>2, <2>3 DEF Fits
  <2>5. QED  BY <1>0, <2>1, <2>3, <2>4, Moving
<1>8. QED
  BY <1>1, <1>2, <1>3, <1>4, <1>5, <1>6, <1>7 DEF Step

LEMMA RequestsMove ==
    ASSUME IInv, SnapshotsKept, NEW c \in Clients, Request(c)
    PROVE  ProcStep(c) \/ proc' = proc
<1> DEFINE p0 == proc[c]
<1>0. Types /\ p0 \in Ask /\ Fits(p0, snapshots) /\ proc \in [Clients -> Ask]
  BY AClient
<1>1. CASE Arrive(c)
  BY <1>1, Going DEF Arrive, Stages
<1>2. CASE OpenEditable(c)
  <2>1. PICK s \in Currents(snapshots) :
           proc' = [proc EXCEPT ![c] = [Idle EXCEPT !.at = "open", !.row = s,
                                                    !.expected = snapshots[s].recordVersion]]
    BY <1>2 DEF OpenEditable
  <2>2. QED  BY <1>0, <2>1, CurrentOnes, Row, Opening
<1>3. CASE ReopenRead(c)
  <2>1. PICK s \in Currents(snapshots) : proc' = [proc EXCEPT ![c] = [Idle EXCEPT !.at = "carry", !.row = s]]
    BY <1>3 DEF ReopenRead
  <2> DEFINE p == [Idle EXCEPT !.at = "carry", !.row = s]
  <2>2. s \in DOMAIN snapshots /\ s \in Nat
    BY <1>0, CurrentOnes, Row
  <2>3. p \in Ask /\ p.at = "carry" /\ p.row = s
    BY <2>2, IdleFacts DEF Ask, Stages
  <2> HIDE DEF p
  <2>4. Fits(p, snapshots)
    BY <2>2, <2>3 DEF Fits
  <2>5. QED  BY <1>0, <2>1, <2>3, <2>4, Moving DEF p
<1>4. ASSUME \/ \E u \in DOMAIN units, figure \in Figures, excluded \in BOOLEAN : Override(c, u, figure, excluded)
             \/ \E u \in DOMAIN units : Reset(c, u)
             \/ \E r \in Requirements \cup {NoRequirement}, figure \in Figures : AddManual(c, r, figure)
             \/ \E e \in edges : RemoveDependency(c, e)
             \/ \E team \in Teams : SetPlan(c, team)
      PROVE  ProcStep(c)
  BY <1>4, Going DEF Override, Reset, AddManual, RemoveDependency, SetPlan, At, Stages
<1>5. ASSUME NEW u \in DOMAIN units, NEW v \in DOMAIN units, CheckDependency(c, u, v) PROVE ProcStep(c)
  <2> DEFINE p == [p0 EXCEPT !.at = "link", !.from = u, !.to = v]
  <2>1. proc' = [proc EXCEPT ![c] = p] /\ p0.row \in DOMAIN snapshots
    BY <1>0, <1>5 DEF CheckDependency, At, Fits
  <2>2. u \in 1 .. MaxUnits /\ v \in 1 .. MaxUnits /\ u \in Nat /\ v \in Nat
    BY <1>0, LineFacts
  <2> HIDE DEF p0
  <2>3. p \in Ask /\ p.at = "link" /\ p.row = p0.row /\ p.from = u /\ p.to = v
    BY <1>0, <2>2 DEF Ask, Stages
  <2> HIDE DEF p
  <2>4. Fits(p, snapshots)
    BY <2>1, <2>2, <2>3 DEF Fits
  <2>5. QED  BY <1>0, <2>1, <2>3, <2>4, Moving
<1>6. CASE RunRead(c)
  <2>0. PICK ai \in BOOLEAN : proc' = [proc EXCEPT ![c].at = "run", ![c].ai = ai, ![c].inRun = TRUE]
    BY <1>6 DEF RunRead
  <2> DEFINE p == [p0 EXCEPT !.at = "run", !.ai = ai, !.inRun = TRUE]
  <2>1. proc' = [proc EXCEPT ![c] = p] /\ p0.row \in DOMAIN snapshots
    BY <1>0, <1>6, <2>0 DEF RunRead, At, Fits
  <2> HIDE DEF p0
  <2>3. p \in Ask /\ p.at = "run" /\ p.row = p0.row
    BY <1>0 DEF Ask, Stages
  <2> HIDE DEF p
  <2>4. Fits(p, snapshots)
    BY <2>1, <2>3 DEF Fits
  <2>5. QED  BY <1>0, <2>1, <2>3, <2>4, Moving
<1>7. CASE ReadRisk(c)
  <2> DEFINE verdict == Feasibility(snapshots[p0.row])
             p == [p0 EXCEPT !.at = "acknowledge", !.verdict = verdict]
  <2>1. proc' = [proc EXCEPT ![c] = p] /\ p0.row \in DOMAIN snapshots
    BY <1>0, <1>7 DEF ReadRisk, At, Fits
  <2>2. verdict \in Verdicts
    BY <1>0, <2>1, Row, FeasibilityType
  <2> HIDE DEF p0, verdict
  <2>3. p \in Ask /\ p.at = "acknowledge" /\ p.row = p0.row /\ p.verdict = verdict
    BY <1>0, <2>2 DEF Ask, Stages
  <2> HIDE DEF p
  <2>4. Fits(p, snapshots)
    BY <2>1, <2>2, <2>3 DEF Fits
  <2>5. QED  BY <1>0, <2>1, <2>3, <2>4, Moving
<1>8. ASSUME NEW s \in DOMAIN snapshots, RecalculateSchedule(c, s) PROVE proc' = proc
  BY <1>8 DEF RecalculateSchedule
<1>9. CASE Check(c)
  BY <1>9, Checking
<1>10. QED
  BY <1>1, <1>2, <1>3, <1>4, <1>5, <1>6, <1>7, <1>8, <1>9 DEF Request

-----------------------------------------------------------------------------
(* The invariant *)

LEMMA Initially == Init => IInv
<1> SUFFICES ASSUME Init PROVE IInv
  OBVIOUS
<1>0. /\ 1 \in 1 .. MaxVersions /\ 0 \in 0 .. MaxUpstream /\ 1 \in 0 .. MaxUpstream + 1
      /\ Calculated \in Efforts /\ None \notin Efforts
  BY PlanAssumption, EstimateAssumption DEF Efforts
<1>1. PICK r \in SUBSET Requirements : baseline = [version |-> 1, current |-> TRUE, requirements |-> r]
  BY DEF Init
<1>2. Upstream
  <2>1. baseline \in [version : 0 .. MaxUpstream + 1, current : BOOLEAN, requirements : SUBSET Requirements]
    BY <1>0, <1>1
  <2>2. baseline.version = 1 /\ upstream = 0 /\ stack = 1
    BY <1>1 DEF Init
  <2>3. QED  BY <1>0, <2>1, <2>2 DEF Upstream
<1>3. snapshots \in Seq(Snapshot) /\ NumberedLines(units, created)
  <2>1. CASE snapshots = <<>> /\ units = <<>> /\ created = 0
    BY <2>1, EstimateAssumption DEF NumberedLines
  <2>2. ASSUME NEW q \in baseline.requirements, NEW team \in Teams, NEW status \in SnapshotStatus,
               NEW verdict, verdict = FeasibilityOf(team, {Calculated}),
               snapshots = <<[NewSnapshot(1, status) EXCEPT !.team = team, !.feasibility = verdict]>>,
               units = <<NewUnit(1, q, FALSE, Calculated, "AI_PROPOSED", "calculated"),
                         NewUnit(1, NoRequirement, TRUE, Calculated, "SYSTEM_CALCULATED", "calculated")>>,
               created = 2, MaxUnits >= 2
        PROVE  snapshots \in Seq(Snapshot) /\ NumberedLines(units, created)
    <3>1. verdict \in Verdicts
      <4>1. {Calculated} \in SUBSET Efforts
        BY <1>0
      <4>2. QED  BY <2>2, <4>1 DEF Verdicts
    <3>2. snapshots \in Seq(Snapshot)
      <4> DEFINE new == NewSnapshot(1, status)
                 row == [new EXCEPT !.team = team, !.feasibility = verdict]
      <4>1. new \in Snapshot
        BY <1>0, <1>2, NewSnapshotType
      <4> HIDE DEF new
      <4>2. row \in Snapshot
        BY <3>1, <4>1 DEF Snapshot
      <4> HIDE DEF row
      <4>3. snapshots = <<row>>
        BY <2>2 DEF row, new
      <4>4. QED  BY <4>2, <4>3
    <3>3. q \in Requirements \cup {NoRequirement}
      BY <1>1
    <3> DEFINE a == NewUnit(1, q, FALSE, Calculated, "AI_PROPOSED", "calculated")
               b == NewUnit(1, NoRequirement, TRUE, Calculated, "SYSTEM_CALCULATED", "calculated")
    <3>4. a \in Unit /\ KeepsItsFigure(a)
      BY <1>0, <3>3, NewUnitFacts
    <3>5. b \in Unit /\ KeepsItsFigure(b)
      BY <1>0, NewUnitFacts
    <3>6. units = <<a, b>>
      BY <2>2
    <3> HIDE DEF a, b
    <3>7. DOMAIN units = 1 .. 2 /\ units[1] = a /\ units[2] = b
      BY <3>6
    <3>8. \A u \in DOMAIN units : u \in {1, 2} /\ units[u] \in Unit /\ KeepsItsFigure(units[u])
      BY <3>4, <3>5, <3>7
    <3>9. created \in 0 .. MaxUnits /\ DOMAIN units \subseteq 1 .. created
      BY <2>2, <3>7, EstimateAssumption
    <3>10. QED  BY <3>2, <3>8, <3>9 DEF NumberedLines
  <2>3. CASE ~(snapshots = <<>> /\ units = <<>> /\ created = 0)
    <3>1. PICK q \in baseline.requirements, team \in Teams :
             LET verdict == FeasibilityOf(team, {Calculated}) IN
             /\ snapshots = <<[NewSnapshot(1, IF verdict \in NeedsAcknowledgement
                                              THEN "REVIEW_REQUIRED" ELSE "READY_FOR_APPROVAL")
                                 EXCEPT !.team = team, !.feasibility = verdict]>>
             /\ units = <<NewUnit(1, q, FALSE, Calculated, "AI_PROPOSED", "calculated"),
                          NewUnit(1, NoRequirement, TRUE, Calculated, "SYSTEM_CALCULATED", "calculated")>>
             /\ created = 2
      BY <2>3 DEF Init
    <3> DEFINE verdict == FeasibilityOf(team, {Calculated})
               status == IF verdict \in NeedsAcknowledgement THEN "REVIEW_REQUIRED" ELSE "READY_FOR_APPROVAL"
    <3>2. status \in SnapshotStatus
      BY DEF SnapshotStatus
    <3>3. MaxUnits >= 2
      BY EstimateAssumption
    <3>4. QED  BY <2>2, <3>1, <3>2, <3>3
  <2>4. QED  BY <2>1, <2>3
<1>4. /\ edges \subseteq Edge /\ proc \in [Clients -> Ask] /\ running \subseteq Clients /\ stuck \in BOOLEAN
      /\ \A c \in Clients : proc[c] = Idle
  BY IdleFacts DEF Init
<1>5. QED  BY <1>2, <1>3, <1>4, IdleFacts DEF IInv, Types

LEMMA Inductive == IInv /\ [Next]_vars => IInv'
<1> SUFFICES ASSUME IInv, [Next]_vars PROVE IInv'
  OBVIOUS
<1>1. SnapshotsKept /\ LinesKept /\ edges' \subseteq Edge
  BY SnapshotsNext, LinesNext, EdgesNext
<1>2. Upstream' /\ running' \subseteq Clients /\ stuck' \in BOOLEAN
  BY UpstreamNext
<1>t. Types /\ proc \in [Clients -> Ask]
  BY DEF IInv, Types
<1> DEFINE Goal == proc' \in [Clients -> Ask] /\ \A c \in Clients : Fits(proc'[c], snapshots')
<1>3. ASSUME NEW c \in Clients, ProcStep(c) PROVE Goal
  <2>1. PICK p \in Ask : proc' = [proc EXCEPT ![c] = p] /\ Fits(p, snapshots')
    BY <1>3 DEF ProcStep
  <2>2. \A d \in Clients : proc'[d] = IF d = c THEN p ELSE proc[d]
    BY <1>t, <2>1
  <2>3. \A d \in Clients : Fits(proc'[d], snapshots')
    BY <1>1, <2>1, <2>2, AClient, StillFits
  <2>4. QED  BY <1>t, <2>1, <2>3
<1>4. ASSUME proc' = proc PROVE Goal
  BY <1>1, <1>4, <1>t, AClient, StillFits
<1> HIDE DEF Goal
<1>5. Goal
  BY <1>1, <1>3, <1>4, StepsMove, RequestsMove DEF Next, ChangeUpstream, vars
<1>6. Types'
  BY <1>1, <1>2, <1>5 DEF Types, Goal, SnapshotsKept, LinesKept
<1>7. QED  BY <1>5, <1>6 DEF IInv, Goal

LEMMA Invariant == Spec => []IInv
  BY Initially, Inductive, PTL DEF Spec

-----------------------------------------------------------------------------
(* The estimate: the theorems *)

LEMMA TypesHold == IInv => TypeInv
<1> SUFFICES ASSUME IInv PROVE TypeInv
  OBVIOUS
<1>1. /\ \A s \in DOMAIN snapshots : snapshots[s] \in Snapshot
      /\ \A c \in Clients : proc[c].at \in Stages
  BY AClient, Row DEF Ask, IInv
<1>2. \A u \in DOMAIN units : units[u].origin = "calculated" =>
         /\ units[u].original \in {None, Calculated}
         /\ ~IsUserAuthored(units[u]) => units[u].effort = Calculated
  BY LineFacts DEF IInv, KeepsItsFigure
<1>3. QED  BY <1>1, <1>2, EstimateAssumption DEF TypeInv, IInv, Types, Upstream, NumberedLines

\* Rows keep their shape, and the figure that reset puts back in a calculated line is the one that
\* was calculated, however often the line is overridden, carried forward and reset.
THEOREM TypeCorrect == Spec => []TypeInv
  BY TypesHold, Invariant, PTL

\* No run deletes a line that carries a person's figure, whenever the person set it: the delete of
\* deleteReplaceableUnits leaves such lines out when it happens.
THEOREM OverridesAreKept == Spec => OverridesSurvive
<1>1. ASSUME IInv, [Next]_vars
      PROVE  [\A u \in DOMAIN units : IsUserAuthored(units[u]) => u \in DOMAIN units']_units
  BY <1>1, LinesNext DEF LinesKept
<1>2. QED  BY <1>1, Invariant, PTL DEF Spec, OverridesSurvive

\* The verdict that approve stores is one it found acknowledged, and the record version it checks
\* says that the acknowledgement still stands.
THEOREM ApprovalsAreInformed == Spec => ApprovedWithEyesOpen
<1>1. ASSUME IInv, [Next]_vars
      PROVE  [\A s \in DOMAIN snapshots :
                snapshots'[s].status = "APPROVED" /\ snapshots[s].status \notin {"APPROVED", "SUPERSEDED"}
                  /\ snapshots'[s].feasibility \in NeedsAcknowledgement
                => snapshots'[s].acknowledged = snapshots'[s].feasibility]_snapshots
  BY <1>1, SnapshotsNext DEF SnapshotsKept, Moves
<1>2. QED  BY <1>1, Invariant, PTL DEF Spec, ApprovedWithEyesOpen

-----------------------------------------------------------------------------
(* Both in one behaviour, as the run of MCPlanning has them *)

LEMMA PartsHold == PartSpec => [](IInv /\ StackInv)
<1>1. PartInit => IInv /\ StackInv
  BY Initially, StackInitially DEF PartInit
<1>2. IInv /\ StackInv /\ [PartNext]_<<part, vars, stackVars, input>> => (IInv /\ StackInv)'
  <2> SUFFICES ASSUME IInv, StackInv, [PartNext]_<<part, vars, stackVars, input>>
               PROVE  IInv' /\ StackInv'
    OBVIOUS
  <2>1. [Next]_vars /\ [StackNext]_stackVars
    BY DEF PartNext
  <2>2. QED  BY <2>1, Inductive, StackInductive
<1>3. QED  BY <1>1, <1>2, PTL DEF PartSpec

\* The stack and the estimate keep the shape of their rows in one behaviour too, whichever is in
\* play: a step of either leaves the rows of the other alone. (the collections of
\* stack.repository.ts and estimation.repository.ts, which no handler of the other writes)
THEOREM BothTypesCorrect == PartSpec => []PlanningTypeInv
<1>1. IInv /\ StackInv => PlanningTypeInv
  BY TypesHold, StackTypesHold DEF PlanningTypeInv
<1>2. QED  BY <1>1, PartsHold, PTL
================================================================================
