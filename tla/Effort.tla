------------------------------- MODULE Effort -------------------------------
(***************************************************************************)
(* What one line of an estimate costs. Hours are counted in hundredths.    *)
(* The words of a requirement are left out: what is read from them, the    *)
(* kind of work, the drivers and the unknowns, is an input.                *)
(***************************************************************************)
EXTENDS Capacity

WorkCategories == {"scaffolding", "crud", "business_logic", "validation", "integration",
    "ui_implementation", "ui_design", "data_modelling", "migration", "ai_ml", "infrastructure",
    "testing", "analysis", "coordination"}

BaseHours == [scaffolding |-> 600, crud |-> 800, business_logic |-> 1200, validation |-> 500,
    integration |-> 1600, ui_implementation |-> 1000, ui_design |-> 800, data_modelling |-> 800,
    migration |-> 1600, ai_ml |-> 2000, infrastructure |-> 1000, testing |-> 800,
    analysis |-> 600, coordination |-> 400]

AiAssistanceFactors == [scaffolding |-> 45, crud |-> 55, business_logic |-> 85, validation |-> 70,
    integration |-> 90, ui_implementation |-> 70, ui_design |-> 95, data_modelling |-> 80,
    migration |-> 90, ai_ml |-> 85, infrastructure |-> 75, testing |-> 70, analysis |-> 100,
    coordination |-> 100]

DriverWeights == [workflow_depth |-> 10, business_rules |-> 10, validation_complexity |-> 5,
    data_complexity |-> 10, integration_complexity |-> 15, security_requirements |-> 10,
    realtime_behaviour |-> 15, offline_behaviour |-> 15, platform_count |-> 10, custom_ui |-> 10,
    external_api_uncertainty |-> 15, migration_effort |-> 15, ai_ml_complexity |-> 15,
    deployment_complexity |-> 5]

Levels == <<"TRIVIAL", "LOW", "MEDIUM", "HIGH", "VERY_HIGH">>
ComplexityMultipliers == [TRIVIAL |-> 6, LOW |-> 10, MEDIUM |-> 18, HIGH |-> 30, VERY_HIGH |-> 45]

DeriveComplexity(drivers) ==
    LET score == SumOver(drivers, LAMBDA d : DriverWeights[d])
    IN  IF score = 0 THEN "TRIVIAL"
        ELSE IF score <= 15 THEN "LOW"
        ELSE IF score <= 30 THEN "MEDIUM"
        ELSE IF score <= 50 THEN "HIGH" ELSE "VERY_HIGH"

DeriveUncertainty(sources) ==
    IF sources = {} THEN "LOW" ELSE IF Cardinality(sources) = 1 THEN "MEDIUM" ELSE "HIGH"

MinimumFeatureHours == 200
MaximumFeatureHours == 40000
BaseEffortHours(category, complexity) ==
    LET raw == Nearest(BaseHours[category] * ComplexityMultipliers[complexity]
                         * AiAssistanceFactors[category], 1000)
    IN  Max({MinimumFeatureHours, Min({MaximumFeatureHours, raw})})

-----------------------------------------------------------------------------
(* Roles *)

\* The roles a project can have work in, from its locked stack and its types.
ApplicableRoles(types, categories) ==
    LET has(s) == categories \cap s # {}
        If(p, role) == IF p THEN {role} ELSE {}
    IN  If(has({"backend", "database", "api_gateway"}), "BACKEND")
        \cup If(has({"web_frontend", "content_management", "desktop_framework"}), "FRONTEND")
        \cup If(has({"mobile_framework", "native_android", "native_ios"}), "MOBILE")
        \cup If(has({"ai_model", "ai_runtime"}) \/ "AI_ML_SOLUTION" \in types, "AI_ML")
        \cup If(has({"data_processing"}) \/ types \cap {"MIGRATION", "SYSTEM_INTEGRATION"} # {},
                "DATA_ENGINEER")
        \cup If(has({"web_frontend", "mobile_framework", "native_android", "native_ios",
                     "desktop_framework"}), "UI_UX")
        \cup If(has({"backend", "integrations", "message_queue"})
                  \/ types \cap {"SAAS_PLATFORM", "SYSTEM_INTEGRATION", "MULTI_PLATFORM_PRODUCT",
                                 "MODERNISATION"} # {}, "SOLUTION_ARCHITECT")
        \cup {"QA", "DEVOPS", "BA", "PM"}

\* Hundredths of a line's work.
RoleShares == [
    scaffolding |-> [BACKEND |-> 60, DEVOPS |-> 40],
    crud |-> [BACKEND |-> 45, FRONTEND |-> 35, QA |-> 20],
    business_logic |-> [BACKEND |-> 60, QA |-> 25, BA |-> 15],
    validation |-> [BACKEND |-> 55, QA |-> 35, BA |-> 10],
    integration |-> [BACKEND |-> 60, QA |-> 25, SOLUTION_ARCHITECT |-> 15],
    ui_implementation |-> [FRONTEND |-> 70, UI_UX |-> 15, QA |-> 15],
    ui_design |-> [UI_UX |-> 85, FRONTEND |-> 15],
    data_modelling |-> [BACKEND |-> 55, SOLUTION_ARCHITECT |-> 25, DATA_ENGINEER |-> 20],
    migration |-> [DATA_ENGINEER |-> 50, BACKEND |-> 30, QA |-> 20],
    ai_ml |-> [AI_ML |-> 65, BACKEND |-> 20, QA |-> 15],
    infrastructure |-> [DEVOPS |-> 75, BACKEND |-> 25],
    testing |-> [QA |-> 100],
    analysis |-> [BA |-> 70, SOLUTION_ARCHITECT |-> 30],
    coordination |-> [PM |-> 100]]

RoleSubstitutes(role) ==
    CASE role = "FRONTEND" -> <<"MOBILE">>
      [] role = "MOBILE" -> <<"FRONTEND">>
      [] role \in {"DATA_ENGINEER", "AI_ML", "SOLUTION_ARCHITECT"} -> <<"BACKEND">>
      [] role = "UI_UX" -> <<"FRONTEND", "MOBILE">>
      [] OTHER -> <<>>

\* Who does a role's share: the roles it goes to, none when nobody can stand in.
ResolveRole(role, available) ==
    LET interface == {"FRONTEND", "MOBILE"} \cap available
        instead == {i \in DOMAIN RoleSubstitutes(role) : RoleSubstitutes(role)[i] \in available}
    IN  IF role = "FRONTEND" /\ Cardinality(interface) > 1 THEN interface
        ELSE IF role \in available THEN {role}
        ELSE IF instead # {} THEN {RoleSubstitutes(role)[Min(instead)]} ELSE {}

SplitByTable(hours, category, available) == \* faulty: a share nobody takes is dropped
    [r \in DOMAIN RoleShares[category] \cap available |->
        Nearest(hours * RoleShares[category][r], 100)]
\* The shares, in two hundredths, of those who do them, scaled up to the whole line.
SplitAcrossRoles(hours, category, available) ==
    LET shares == RoleShares[category]
        takers(role) == ResolveRole(role, available)
        usable == UNION {takers(r) : r \in DOMAIN shares}
        share(role) == SumOver({r \in DOMAIN shares : role \in takers(r)},
                               LAMBDA r : (2 * shares[r]) \div Cardinality(takers(r)))
        total == SumOver(usable, share)
    IN  IF usable # {} THEN [r \in usable |-> Nearest(hours * share(r), total)]
        ELSE [r \in {CHOOSE r \in available : TRUE} |-> hours]

-----------------------------------------------------------------------------
\* Hours a technology of the locked stack adds.
TechnologyImpact(stack, category) ==
    (IF {"native_android", "native_ios"} \subseteq stack /\ category \in {"ui_implementation", "crud"}
     THEN Nearest(BaseHours[category] * 8, 10) ELSE 0)
    + (IF category = "integration" THEN 400 ELSE 0)
    + (IF "on_premise_hosting" \in stack /\ category = "infrastructure" THEN 600 ELSE 0)
    + (IF "ai_model" \in stack /\ category = "ai_ml" THEN 800 ELSE 0)

PlatformComplexity(stack) ==
    IF {"native_android", "native_ios"} \subseteq stack THEN {"platform_count"} ELSE {}

RangeSpreads == [LOW |-> <<90, 115>>, MEDIUM |-> <<80, 140>>, HIGH |-> <<70, 190>>]
RangeFor(expected, uncertainty) ==
    [optimistic |-> Nearest(expected * RangeSpreads[uncertainty][1], 100),
     expected |-> expected,
     conservative |-> Nearest(expected * RangeSpreads[uncertainty][2], 100)]

\* estimateUnit: a model proposes the kind of work, the drivers, a level or the unknowns, and
\* the sums are done here. level is "derived" when none is proposed.
EstimateUnit(stack, available, category, drivers, level, sources) ==
    LET complexity == IF level # "derived" THEN level
                      ELSE DeriveComplexity(drivers \cup PlatformComplexity(stack))
        total == BaseEffortHours(category, complexity) + TechnologyImpact(stack, category)
    IN  [total |-> total, effort |-> SplitAcrossRoles(total, category, available),
         range |-> RangeFor(total, DeriveUncertainty(sources)), implementation |-> TRUE]

\* Fixed hours, or hundredths of the implementation, and whose they are.
OverheadRules == {
    [activity |-> "environment_setup", fixed |-> 1200, proportion |-> 0, role |-> "DEVOPS"],
    [activity |-> "shared_architecture", fixed |-> 0, proportion |-> 8, role |-> "SOLUTION_ARCHITECT"],
    [activity |-> "ci_cd", fixed |-> 1000, proportion |-> 0, role |-> "DEVOPS"],
    [activity |-> "deployment_preparation", fixed |-> 800, proportion |-> 0, role |-> "DEVOPS"],
    [activity |-> "code_review", fixed |-> 0, proportion |-> 10, role |-> "BACKEND"],
    [activity |-> "release_stabilisation", fixed |-> 0, proportion |-> 6, role |-> "QA"],
    [activity |-> "project_coordination", fixed |-> 0, proportion |-> 9, role |-> "PM"],
    [activity |-> "qa_regression", fixed |-> 0, proportion |-> 12, role |-> "QA"],
    [activity |-> "uat_support", fixed |-> 0, proportion |-> 5, role |-> "QA"]}

OverheadUnits(implementationHours, available) ==
    LET hours(rule) == IF rule.fixed > 0 THEN rule.fixed
                       ELSE Nearest(implementationHours * rule.proportion, 100)
    IN  {[activity |-> rule.activity, effort |-> [r \in {rule.role} |-> hours(rule)],
          total |-> hours(rule), range |-> RangeFor(hours(rule), "LOW"), implementation |-> FALSE] :
           rule \in {u \in OverheadRules : u.role \in available /\ hours(u) > 0}}

\* aggregateEffort over a sequence of lines.
AggregateEffort(units) ==
    LET roles == UNION {DOMAIN units[i].effort : i \in DOMAIN units}
        hours(S, r) == SumOver({i \in S : r \in DOMAIN units[i].effort}, LAMBDA i : units[i].effort[r])
        total(S) == SumOver(roles, LAMBDA r : hours(S, r))
        built == {i \in DOMAIN units : units[i].implementation}
    IN  [byRole |-> [r \in roles |-> hours(DOMAIN units, r)],
         total |-> total(DOMAIN units), implementation |-> total(built),
         overhead |-> total(DOMAIN units) - total(built),
         optimistic |-> SumOver(DOMAIN units, LAMBDA i : units[i].range.optimistic),
         expected |-> SumOver(DOMAIN units, LAMBDA i : units[i].range.expected),
         conservative |-> SumOver(DOMAIN units, LAMBDA i : units[i].range.conservative)]
=============================================================================
