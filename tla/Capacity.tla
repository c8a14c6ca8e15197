------------------------------ MODULE Capacity ------------------------------
(***************************************************************************)
(* How much work a team can do in a number of days, and the verdict on a   *)
(* plan. Hours, people and availability are counted in hundredths, so a    *)
(* capacity line's hours are people * hours * availability * days with     *)
(* four decimals too many; rounding is to the nearest hundredth.           *)
(***************************************************************************)
EXTENDS Integers, FiniteSets, Sequences, FiniteSetsExt

Nearest(n, d) == (2 * n + d) \div (2 * d)
SumOver(S, f(_)) == MapThenSumSet(f, S)

LineCapacityHours(line, workingDays) ==
    Nearest(line.people * line.hoursPerDay * line.availability
              * Max({0, workingDays - line.availableFromDay}), 10000)

\* Up to the next hundredth of a person, and never nobody for work that exists.
PeopleForHours(hours, hoursPerDay, workingDays) ==
    IF hours <= 0 \/ workingDays <= 0 \/ hoursPerDay <= 0 THEN 0
    ELSE LET whole == hoursPerDay * workingDays
         IN  Max({1, (100 * hours + whole - 1) \div whole})

-----------------------------------------------------------------------------
(* calculateCapacity: per role, what is planned against what the team has. A plan is the *)
(* planned hours by role; lines is a sequence of a team's lines; days is what the timeline *)
(* allows, or negative when that is unknown. *)

Infinite == 999000
Utilisation(planned, available) ==
    IF available = 0 THEN IF planned = 0 THEN 0 ELSE Infinite
    ELSE Nearest(1000 * planned, available)
SustainableUtilisation == 850

AvailableHours(team, role, days) ==
    SumOver({i \in DOMAIN team.lines : team.lines[i].role = role},
            LAMBDA i : LineCapacityHours(team.lines[i], Max({0, days})))

Gap(planned, available) == Max({0, planned - available})

CapacityOf(planned, team, hoursPerDay, days) ==
    LET roles == DOMAIN planned \cup {team.lines[i].role : i \in DOMAIN team.lines}
        hours(r) == IF r \in DOMAIN planned THEN planned[r] ELSE 0
        available(r) == AvailableHours(team, r, days)
        gap(r) == Gap(hours(r), available(r))
    IN  [byRole |-> [r \in roles |->
           [planned |-> hours(r), available |-> available(r), gap |-> gap(r),
            utilisation |-> Utilisation(hours(r), available(r)),
            additional |-> PeopleForHours(gap(r), hoursPerDay, days)]],
         totalPlanned |-> SumOver(roles, hours),
         totalAvailable |-> SumOver(roles, available),
         totalGap |-> SumOver(roles, gap),
         capacityUnknown |-> ~team.supplied,
         overloaded |-> {r \in roles : hours(r) > 0
                           /\ Utilisation(hours(r), available(r)) > SustainableUtilisation}]

RecommendStaffing(planned, hoursPerDay, days) ==
    IF days <= 0 THEN <<>>
    ELSE [r \in {q \in DOMAIN planned : planned[q] > 0} |->
            PeopleForHours(planned[r], hoursPerDay, days)]

\* Lines compared without their order, and without their days of the week.
IsMaterialCapacityChange(before, after) ==
    LET key(line) == <<line.role, line.people, line.hoursPerDay, line.availability,
                       line.availableFromDay>>
        keys(team) == {<<key(team.lines[i]),
                         Cardinality({j \in DOMAIN team.lines : key(team.lines[j]) = key(team.lines[i])})>> :
                         i \in DOMAIN team.lines}
    IN  \/ before.supplied # after.supplied
        \/ Len(before.lines) # Len(after.lines)
        \/ keys(before) # keys(after)

-----------------------------------------------------------------------------
(* assessFeasibility. available is negative when it cannot be measured. *)

AcknowledgeableStatuses == {"AGGRESSIVE", "HIGH_RISK", "NOT_FEASIBLE_WITH_CURRENT_CAPACITY"}

AssessScheduleFirst(required, available, capacity) == \* faulty: before the capacity is known to suffice
    IF available < 0 THEN "TIMELINE_UNMEASURABLE"
    ELSE IF required > available THEN "HIGH_RISK"
    ELSE IF capacity.capacityUnknown THEN "CAPACITY_UNKNOWN"
    ELSE IF capacity.totalGap > 0 THEN "NOT_FEASIBLE_WITH_CURRENT_CAPACITY"
    ELSE IF capacity.overloaded # {} THEN "AGGRESSIVE" ELSE "FEASIBLE"
AssessFeasibility(required, available, capacity) ==
    LET headroom == IF available = 0 THEN 0 ELSE (100 * (available - required)) \div available
    IN  IF available < 0 THEN "TIMELINE_UNMEASURABLE"
        ELSE IF capacity.capacityUnknown THEN "CAPACITY_UNKNOWN"
        ELSE IF capacity.totalGap > 0 THEN "NOT_FEASIBLE_WITH_CURRENT_CAPACITY"
        ELSE IF required > available THEN "HIGH_RISK"
        ELSE IF capacity.overloaded # {} \/ headroom < 10 THEN "AGGRESSIVE"
        ELSE IF headroom < 25 THEN "FEASIBLE" ELSE "COMFORTABLE"

\* What the verdict says is missing, and the shortfall it reports.
MissingInformation(available, capacity) ==
    (IF available < 0 THEN {"concrete_start_date"} ELSE {})
    \cup (IF capacity.capacityUnknown THEN {"team_capacity"} ELSE {})
ReportedGap(available, capacity) == IF available < 0 THEN 0 ELSE capacity.totalGap

\* collectRisks, those that come from the figures.
CollectRisks(required, available, capacity, criticalPath) ==
    LET If(p, kind) == IF p THEN {kind} ELSE {}
    IN  If(available >= 0 /\ capacity.totalGap > 0, "insufficient_capacity")
        \cup If(available >= 0 /\ required > available, "schedule_exceeds_timeline")
        \cup If(available >= 0 /\ capacity.overloaded # {}, "role_overloaded")
        \cup If(available > 0 /\ 10 * criticalPath > 8 * available, "long_critical_path")
=============================================================================
