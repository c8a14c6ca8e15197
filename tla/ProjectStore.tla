---------------------------- MODULE ProjectStore ----------------------------
(***************************************************************************)
(* One project record: its lifecycle, what may be done to it when, and the *)
(* updates the repository and the retention sweep make to it. Time is in   *)
(* days; a deadline or a start date is a day, or NoDate.                   *)
(***************************************************************************)
EXTENDS Naturals

CONSTANTS
    ExpiryDays,            \* from creation to expiry
    ExpiredGraceDays,      \* from expiry to being abandoned
    DeletionGraceDays,     \* from a deletion request to the purge
    DeadlineMaxDaysAhead,  \* how far ahead a deadline may be
    NoDate

ASSUME PolicyAssumption ==
    /\ ExpiryDays \in Nat \ {0} /\ ExpiredGraceDays \in Nat \ {0}
    /\ DeletionGraceDays \in Nat /\ DeadlineMaxDaysAhead \in Nat
    /\ NoDate \notin Nat

ProjectStatus == {"DRAFT", "ACTIVE", "EXPIRED", "DELETION_PENDING", "DELETED"}

Transitions ==
    [DRAFT |-> {"ACTIVE", "EXPIRED", "DELETION_PENDING"},
     ACTIVE |-> {"EXPIRED", "DELETION_PENDING"},
     EXPIRED |-> {"DELETION_PENDING"},
     DELETION_PENDING |-> {"DELETED"},
     DELETED |-> {}]
CanTransition(from, to) == to \in Transitions[from]

IsDeleted(status) == status \in {"DELETION_PENDING", "DELETED"}
IsMutable(status) == status \in {"DRAFT", "ACTIVE"}

Day == Nat \cup {NoDate}
ProjectRecord ==
    [status : ProjectStatus, version : Nat, deadline : Day, startDate : Day,
     expiresAt : Nat, deletionRequestedAt : Day]

NewProject(now) ==
    [status |-> "DRAFT", version |-> 0, deadline |-> NoDate, startDate |-> NoDate,
     expiresAt |-> now + ExpiryDays, deletionRequestedAt |-> NoDate]

\* Expiry is derived on access; the stored status may lag behind.
EffectiveStatus(record, now) ==
    IF ~IsDeleted(record.status) /\ record.expiresAt <= now THEN "EXPIRED" ELSE record.status
CanWrite(record, now) == IsMutable(EffectiveStatus(record, now))
StatusAfterEdit(status) == IF status = "DRAFT" THEN "ACTIVE" ELSE status

\* A deadline is neither in the past nor too far ahead, ...
DeadlineIsAhead(deadline, now) ==
    deadline # NoDate => now <= deadline /\ deadline <= now + DeadlineMaxDaysAhead
\* ... and not before the start.
DatesAgree(deadline, startDate) ==
    deadline # NoDate /\ startDate # NoDate => startDate <= deadline

-----------------------------------------------------------------------------
(* Updates *)

Section == {"details", "branding", "timeline", "startDate"}

\* The mutation of a section, under the status the handler read.
Edited(record, section, value, status) ==
    LET bumped == [record EXCEPT !.version = @ + 1,
                                 !.status = IF section = "branding" THEN status
                                            ELSE StatusAfterEdit(status)]
    IN  CASE section = "timeline"  -> [bumped EXCEPT !.deadline = value]
          [] section = "startDate" -> [bumped EXCEPT !.startDate = value]
          [] OTHER                 -> bumped

SoftDeleted(record, now) ==
    [record EXCEPT !.status = "DELETION_PENDING", !.deletionRequestedAt = now, !.version = @ + 1]

\* markExpired leaves the version alone.
MarkedExpired(record) ==
    IF record.status \in {"DRAFT", "ACTIVE"} THEN [record EXCEPT !.status = "EXPIRED"] ELSE record

TransitionedUnversioned(record, from, to) == \* faulty: the version stays
    IF record.status \in from THEN [record EXCEPT !.status = to] ELSE record

\* The sweep's conditional change of status.
Transitioned(record, from, to) ==
    IF record.status \in from THEN [record EXCEPT !.status = to, !.version = @ + 1] ELSE record

-----------------------------------------------------------------------------
(* Retention policy *)

IsAbandoned(record, now) ==
    record.status = "EXPIRED" /\ record.expiresAt + ExpiredGraceDays <= now

PurgeEligibleAtOnce(record, now) == \* faulty: no grace after the request
    record.status = "DELETION_PENDING" /\ record.deletionRequestedAt # NoDate
IsPurgeEligible(record, now) ==
    /\ record.status = "DELETION_PENDING"
    /\ record.deletionRequestedAt # NoDate
    /\ record.deletionRequestedAt + DeletionGraceDays <= now
=============================================================================
