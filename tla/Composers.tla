------------------------------ MODULE Composers ------------------------------
(***************************************************************************)
(* Three documents composed from what was approved, and the checks each of *)
(* them is then put to: the Feature Listing from the requirements and the  *)
(* lines of the estimate, the Acceptance Criteria from the listing, and    *)
(* the Work Breakdown from the lines, the listing and the schedule.        *)
(*                                                                         *)
(* What is upstream, u, holds the requirements and the lines, each a       *)
(* sequence, the links between lines, and the hours of a day. A            *)
(* requirement has a category, a status, the aspects its words speak of,   *)
(* whether it has a figure, its text, the subject its title begins with    *)
(* and the screen it names. The wording of a document is left out but for  *)
(* what a check compares, and so are technologies, calendar dates, checks  *)
(* that only warn and those of rows a person added. The baseline is taken  *)
(* to be current, and a requirement that was rejected or superseded is one *)
(* that no composer is given.                                              *)
(***************************************************************************)
EXTENDS Effort, Scheduling

Finding(kind, found) == IF found THEN {kind} ELSE {}

Approved(u) == {r \in DOMAIN u.requirements : ~u.requirements[r].rejected}
Live(u) == {i \in DOMAIN u.lines : ~u.lines[i].excluded}
Overhead(u) == {i \in DOMAIN u.lines : u.lines[i].activity # "none"}
CitedBy(u, i) == ToSet(u.lines[i].requirements) \cap Approved(u)

-----------------------------------------------------------------------------
(* Feature Listing: a row per line of the estimate that builds something *)

LiveWork(u) == Live(u) \ Overhead(u)   \* faulty: lines written by hand for no requirement too
BuildableUnits(u) == {i \in Live(u) \ Overhead(u) : u.lines[i].requirements # <<>>}

\* A row is known by the line it was priced from.
FeatureListing(u) ==
    [i \in BuildableUnits(u) |->
        LET cited == SelectSeq(u.lines[i].requirements, LAMBDA r : r \in Approved(u))
            named == {n \in DOMAIN cited : u.requirements[cited[n]].screen # "none"}
        IN  [requirements |-> ToSet(cited), lines |-> {i}, effort |-> u.lines[i].effort,
             module |-> IF cited = <<>> THEN u.lines[i].feature ELSE u.requirements[cited[1]].subject,
             screen |-> IF named = {} THEN "none" ELSE u.requirements[cited[Min(named)]].screen,
             description |-> IF cited = <<>> THEN <<u.lines[i].feature>>
                             ELSE [n \in DOMAIN cited |-> u.requirements[cited[n]].text]]]

\* The requirements a listing answers for.
Answerable(u) ==
    {r \in Approved(u) : u.requirements[r].category \in {"functional", "business_rule"}}

FeatureCoverage(u, rows, leftOut) ==
    [unresolved |-> Answerable(u) \ (leftOut \cup UNION {rows[f].requirements : f \in DOMAIN rows}),
     unsupported |-> {f \in DOMAIN rows : rows[f].requirements \cap Answerable(u) = {}}]

\* Hours are compared by the lines that are quoted.
ReconcileFeatureEffort(u, rows) ==
    LET hours(S) == SumOver(S, LAMBDA i : u.lines[i].total)
        quoted == UNION {rows[f].lines : f \in DOMAIN rows}
    IN  [unknown |-> quoted \ BuildableUnits(u),
         reconciles |-> /\ quoted \subseteq BuildableUnits(u)
                        /\ hours(quoted) = hours(BuildableUnits(u))]

DuplicateFeatures(rows) ==
    LET name(f) == <<rows[f].module, rows[f].screen, rows[f].description>>
    IN  {f \in DOMAIN rows : \E g \in DOMAIN rows \ {f} : name(f) = name(g)}

\* What blocks the approval of a listing.
ListingFindings(u, rows, leftOut) ==
    LET cited == UNION {rows[f].requirements : f \in DOMAIN rows}
        coverage == FeatureCoverage(u, rows, leftOut)
        hours == ReconcileFeatureEffort(u, rows)
    IN  Finding("unknown_requirement", ~(cited \subseteq Approved(u)))
        \cup Finding("requirement_uncovered", coverage.unresolved # {})
        \cup Finding("unsupported_statement", coverage.unsupported # {})
        \cup Finding("unknown_estimate_reference", hours.unknown # {})
        \cup Finding("effort_mismatch", ~hours.reconciles)
        \cup Finding("duplicate_content", DuplicateFeatures(rows) # {})

-----------------------------------------------------------------------------
(* Acceptance Criteria: for each row of the listing, the conditions its requirements state *)

AspectsFor(u, requirements) ==
    {"BEHAVIOUR"} \cup (UNION {u.requirements[r].words : r \in requirements})
    \cup (IF /\ \E r \in requirements : u.requirements[r].category = "non_functional"
             /\ \E r \in requirements : u.requirements[r].figure
          THEN {"NON_FUNCTIONAL"} ELSE {})

AcceptanceCriteria(u, features) ==
    UNION {[feature : {f}, requirements : {features[f].requirements \cap Approved(u)},
            aspect : AspectsFor(u, features[f].requirements \cap Approved(u))] :
             f \in {g \in DOMAIN features : features[g].requirements \cap Approved(u) # {}}}

\* Everything approved, but for what is not functional and states no figure.
Checkable(u) ==
    {r \in Approved(u) : u.requirements[r].category # "non_functional" \/ u.requirements[r].figure}

\* What has no criterion and was not left out.
Uncovered(u, features, criteria, leftOut) ==
    [requirements |-> Checkable(u) \ (leftOut \cup UNION {c.requirements : c \in criteria}),
     features |-> DOMAIN features \ {c.feature : c \in criteria}]

CriteriaFindings(u, features, criteria, leftOut) ==
    LET cited == UNION {c.requirements : c \in criteria}
        about == {c.feature : c \in criteria}
        uncovered == Uncovered(u, features, criteria, leftOut)
    IN  Finding("unknown_requirement", ~(cited \subseteq Approved(u)))
        \cup Finding("unknown_feature_reference", ~(about \subseteq DOMAIN features))
        \cup Finding("criterion_for_excluded_scope", cited \cap leftOut # {})
        \cup Finding("feature_uncovered", uncovered.requirements \cup uncovered.features # {})

-----------------------------------------------------------------------------
(* Work Breakdown: the lines, in phases, modules, submodules and features *)

\* groupBy: the members of each group, the groups in the order of their first member.
Groups(lines, key) ==
    SetToSortSeq({{i \in lines : key[i] = k} : k \in {key[j] : j \in lines}},
                 LAMBDA A, B : Min(A) < Min(B))
GroupOf(lines, key, i) == {j \in lines : key[j] = key[i]}
PositionIn(lines, key, i) ==
    LET groups == Groups(lines, key) IN  CHOOSE n \in DOMAIN groups : i \in groups[n]

\* The outline number of a line's task. Submodules are a tier only in a module that has some.
OutlineNumber(u, i) ==
    LET implementation == DOMAIN u.lines \ Overhead(u)
        module == [j \in DOMAIN u.lines |-> u.lines[j].module]
        submodule == [j \in DOMAIN u.lines |-> u.lines[j].submodule]
        feature == [j \in DOMAIN u.lines |-> u.lines[j].feature]
        activity == [j \in DOMAIN u.lines |-> u.lines[j].activity]
        ofModule == GroupOf(implementation, module, i)
        tier == \E j \in ofModule : submodule[j] # "none"
        ofSubmodule == IF tier THEN GroupOf(ofModule, submodule, i) ELSE ofModule
        numbered(path, siblings) == Append(path, Cardinality({j \in siblings : j <= i}))
    IN  IF i \in Overhead(u)
        THEN numbered(<<1, IF implementation = {} THEN 1 ELSE 2, PositionIn(Overhead(u), activity, i)>>,
                      GroupOf(Overhead(u), activity, i))
        ELSE numbered(<<1, 1, PositionIn(implementation, module, i)>>
                        \o (IF tier THEN <<PositionIn(ofModule, submodule, i)>> ELSE <<>>)
                        \o <<PositionIn(ofSubmodule, feature, i)>>,
                      GroupOf(ofSubmodule, feature, i))

\* A line's rows of the listing: those priced from it, or else those that share a requirement.
FeatureIndex(u, features, i) ==
    LET priced == {f \in DOMAIN features : i \in features[f].lines}
    IN  IF priced # {} \/ i \in Overhead(u) THEN priced
        ELSE {f \in DOMAIN features : features[f].requirements \cap CitedBy(u, i) # {}}

\* The approved schedule: its lines' roles are those with most hours.
DominantRole(effort) == CHOOSE r \in DOMAIN effort : \A s \in DOMAIN effort : effort[s] <= effort[r]
PlanOf(u) ==
    [perDay |-> u.perDay, people |-> u.people, allowParallel |-> TRUE, links |-> u.links,
     excluded |-> DOMAIN u.lines \ Live(u), hours |-> [i \in DOMAIN u.lines |-> u.lines[i].total],
     role |-> [i \in DOMAIN u.lines |-> DominantRole(u.lines[i].effort)]]

Span(days) == IF days = {} THEN {} ELSE {Min(days), Max(days)}

\* One task from one line, every figure a copy. An excluded line has no scheduled task.
Leaf(u, features, placed, slack, i) ==
    LET live == i \in Live(u)
    IN  [lines |-> {i}, task |-> TRUE, excluded |-> ~live, requirements |-> CitedBy(u, i),
         features |-> FeatureIndex(u, features, i), effort |-> u.lines[i].effort,
         span |-> IF live THEN Span({placed[i].start, placed[i].end}) ELSE {},
         critical |-> live /\ slack[i] = 0,
         waitsFor |-> IF live THEN {l.from : l \in {k \in u.links : k.to = i}} ELSE {}]

\* rollUp, of one container: what its children that are not excluded amount to.
Container(children) ==
    LET counted == {c \in DOMAIN children : ~children[c].excluded}
        has(r) == {c \in counted : r \in DOMAIN children[c].effort}
    IN  [lines |-> UNION {children[c].lines : c \in counted}, task |-> FALSE,
         excluded |-> counted = {},
         requirements |-> UNION {children[c].requirements : c \in counted}, features |-> {},
         effort |-> [r \in UNION {DOMAIN children[c].effort : c \in counted} |->
                       SumOver(has(r), LAMBDA c : children[c].effort[r])],
         span |-> Span(UNION {children[c].span : c \in counted}),
         critical |-> \E c \in counted : children[c].critical, waitsFor |-> {}]

\* Every package by its outline number, the project being <<1>>.
WorkBreakdown(u, features) ==
    LET placed == Placement(PlanOf(u))
        slack == Slack(PlanOf(u), placed)
        number == [i \in DOMAIN u.lines |-> OutlineNumber(u, i)]
        outline == UNION {{SubSeq(number[i], 1, n) : n \in DOMAIN number[i]} : i \in DOMAIN number}
        under(n) == {c \in outline : Len(c) = Len(n) + 1 /\ SubSeq(c, 1, Len(n)) = n}
        package[n \in outline] ==
            IF under(n) = {}
            THEN Leaf(u, features, placed, slack, CHOOSE i \in DOMAIN number : number[i] = n)
            ELSE Container([c \in under(n) |-> package[c]])
    IN  package

Tasks(packages) == {packages[n] : n \in {k \in DOMAIN packages : packages[k].task}}
ApprovedEffort(u) ==
    LET live == SetToSortSeq(Live(u), <)
    IN  AggregateEffort([n \in DOMAIN live |-> u.lines[live[n]]]).byRole

\* The hours of the tasks, role by role, and their lines, against those that were approved.
ReconcileBreakdown(u, packages) ==
    LET counted == {t \in Tasks(packages) : ~t.excluded}
        roles == UNION {DOMAIN t.effort : t \in counted}
        hours(r) == SumOver({t \in counted : r \in DOMAIN t.effort}, LAMBDA t : t.effort[r])
        approved(r) == IF r \in DOMAIN ApprovedEffort(u) THEN ApprovedEffort(u)[r] ELSE 0
    IN  /\ \A r \in roles \cup DOMAIN ApprovedEffort(u) : hours(r) = approved(r)
        /\ UNION {t.lines : t \in counted} = Live(u)

\* Tasks that wait for each other, or one for itself.
InLoop(tasks) ==
    \E loop \in (SUBSET tasks) \ {{}} : \A t \in loop : t.waitsFor \cap UNION {s.lines : s \in loop} # {}
\* A task waits for one that is excluded, or in a loop; the hierarchy cannot be wrong, being made
\* of the outline numbers.
StructureInvalid(packages) ==
    LET excluded == UNION {t.lines : t \in {s \in Tasks(packages) : s.excluded}}
        waiting == {t \in Tasks(packages) : t.waitsFor # {}}
    IN  InLoop(waiting) \/ \E t \in waiting : t.waitsFor \cap excluded # {}

PricedRequirements(u) == UNION {CitedBy(u, i) : i \in Live(u)}
CoverageComplete(u, features, packages) ==
    LET counted == {t \in Tasks(packages) : ~t.excluded}
        work == {t \in counted : t.lines \cap Overhead(u) = {}}
    IN  /\ PricedRequirements(u) \subseteq UNION {t.requirements : t \in counted}
        /\ UNION {t.features : t \in counted} = DOMAIN features
        /\ \A t \in work : t.features # {}
        /\ Live(u) \subseteq UNION {t.lines : t \in counted}

\* Where the breakdown is not the approved plan.
PlanFindings(u, packages) ==
    LET placed == Placement(PlanOf(u))
        critical == CriticalPath(Slack(PlanOf(u), placed))
        counted == {t \in Tasks(packages) : ~t.excluded}
    IN  Finding("effort_mismatch", ~ReconcileBreakdown(u, packages))
        \cup Finding("structure_invalid", StructureInvalid(packages))
        \cup Finding("critical_path_mismatch",
                     \E t \in counted : t.critical # (t.lines \subseteq critical))
        \cup Finding("schedule_beyond_plan",
                     \E t \in counted : \E day \in t.span : day > TotalWorkingDays(placed))

\* Where it is not the agreed scope.
ScopeFindings(u, features, packages, leftOut) ==
    LET counted == {t \in Tasks(packages) : ~t.excluded}
    IN  Finding("unknown_requirement",
                     \E n \in DOMAIN packages : ~(packages[n].requirements \subseteq Approved(u)))
        \cup Finding("unknown_feature_reference",
                     \E n \in DOMAIN packages : ~(packages[n].features \subseteq DOMAIN features))
        \cup Finding("work_for_excluded_scope", \E t \in counted : t.requirements \cap leftOut # {})
        \cup Finding("requirement_uncovered", ~CoverageComplete(u, features, packages))

BreakdownFindings(u, features, packages, leftOut) ==
    PlanFindings(u, packages) \cup ScopeFindings(u, features, packages, leftOut)
=============================================================================
