---------------------------- MODULE VersionedPlan ----------------------------
(***************************************************************************)
(* The technology stack and the estimate keep their versions the same way: *)
(* a row per version, changed only under the row's record version, and the *)
(* current one is the newest that is not superseded. Nothing makes version *)
(* numbers unique, so a version is identified by its row, not its number.  *)
(***************************************************************************)
EXTENDS Naturals, FiniteSets, Sequences, FiniteSetsExt

CONSTANTS
    Clients,      \* the requests that may be under way at once
    MaxVersions,  \* bound: versions of a plan
    MaxUpstream   \* bound: changes of what a plan stands on

ASSUME PlanAssumption == MaxVersions \in Nat \ {0} /\ MaxUpstream \in Nat

Standing(rows) == {i \in DOMAIN rows : rows[i].status # "SUPERSEDED"}

\* currentSnapshot: the newest number standing; of several rows with it, any one.
Currents(rows) ==
    {i \in Standing(rows) : \A j \in Standing(rows) : rows[j].version <= rows[i].version}

NextVersion(rows) ==
    IF rows = <<>> THEN 1 ELSE 1 + Max({rows[i].version : i \in DOMAIN rows})

\* updateSnapshot, updateComponent and updateUnit: filtered on the record version they were
\* read at, which the same write raises. CanUpdate is whether the filter matches.
CanUpdate(rows, i, expected) == rows[i].recordVersion = expected
Written(row) == [row EXCEPT !.recordVersion = @ + 1]

\* supersedeSnapshots: every other number, without raising record versions.
Superseded(rows, version) ==
    [i \in DOMAIN rows |->
        IF rows[i].version # version THEN [rows[i] EXCEPT !.status = "SUPERSEDED"] ELSE rows[i]]
=============================================================================
