---------------------------- MODULE Calculations ----------------------------
(***************************************************************************)
(* The application's arithmetic over bounded inputs: an initial state is   *)
(* one input of one of the calculators, and nothing changes it. The inputs *)
(* are within what the contracts accept.                                   *)
(***************************************************************************)
EXTENDS WorkCalendar, Composers, Chunking, Readiness

CONSTANTS
    Deadlines,       \* day numbers of deadlines
    ChunkBudget,     \* sizes of pieces a chunk holds
    MaxBlocks        \* bound: blocks of a document

VARIABLE input

NoInput == [kind |-> "none"]     \* when none of the calculators is in play

-----------------------------------------------------------------------------
(* The verdict of an estimate: evaluate, from the effort to the feasibility *)

\* With no team, the staffing the work would need in the time there is.
PeoplePerRole(planned, team, hoursPerDay, days) ==
    IF team.supplied /\ team.lines # <<>>
    THEN [r \in {team.lines[i].role : i \in DOMAIN team.lines} |->
            SumOver({i \in DOMAIN team.lines : team.lines[i].role = r}, LAMBDA i : team.lines[i].people)]
    ELSE RecommendStaffing(planned, hoursPerDay, days)

PlannedEffort(plan) ==
    [r \in Roles(plan) |-> SumOver({t \in TasksOf(plan) : plan.role[t] = r}, LAMBDA t : plan.hours[t])]

\* plan.people is what PeoplePerRole gives.
Evaluate(plan, team, days) ==
    LET planned == PlannedEffort(plan)
        staffed == [plan EXCEPT !.people = PeoplePerRole(planned, team, plan.perDay, days)]
    IN  AssessFeasibility(TotalWorkingDays(Placement(staffed)), days,
                          CapacityOf(planned, team, plan.perDay, days))

-----------------------------------------------------------------------------
(* Inputs *)

Calendars == [workingWeekdays : {1 .. 5, {0, 2, 4}, {6}, 0 .. 6}, holidays : SUBSET {1, 2, 9}]
DateInputs == [kind : {"dates"}, calendar : Calendars, start : {0, 3, 6}, total : 1 .. 5,
               deadline : Deadlines]

Link(types, lags) ==
    {l \in [from : 1 .. 3, to : 1 .. 3, type : types, lagDays : lags] : l.from # l.to}
LinkTriples == {s \in SUBSET Link({"FINISH_TO_START"}, {0}) : Cardinality(s) = 3}
LinkSets ==
    LET links == Link(LinkTypes, {0, 1})
    IN  {{}} \cup {{l, k} : l, k \in links} \cup LinkTriples
PlanInputs ==
    [kind : {"plan"}, perDay : {800}, hours : {<<800, 900, 800>>, <<1600, 0, 1700>>},
     role : {<<"QA", "QA", "QA">>, <<"BA", "QA", "QA">>},
     people : {[QA |-> 150], [BA |-> 300, QA |-> 300]}, allowParallel : {TRUE},
     excluded : {{}}, links : LinkSets]
    \cup
    [kind : {"plan"}, perDay : {800}, hours : {<<800, 900, 800>>},
     role : {<<"BA", "QA", "QA">>}, people : {[BA |-> 300, QA |-> 300]}, allowParallel : BOOLEAN,
     excluded : {{}, {2}}, links : LinkTriples]

TeamLine == [role : {"BA", "QA"}, people : {50, 100, 230}, hoursPerDay : {600, 800},
             availability : {50, 100}, availableFromDay : {0, 3}]
VerdictInputs ==
    [kind : {"verdict"}, perDay : {800}, hours : {<<800, 1700>>, <<250, 3300>>},
     role : {<<"QA", "QA">>, <<"BA", "QA">>}, people : {<<>>}, allowParallel : {TRUE}, excluded : {{}},
     links : {{}, {[from |-> 1, to |-> 2, type |-> "FINISH_TO_START", lagDays |-> 1]}},
     days : 0 .. 12,
     team : [supplied : {TRUE}, lines : {<<>>} \cup {<<x>> : x \in TeamLine}]
            \cup [supplied : {TRUE},
                  lines : {<<[role |-> "BA", people |-> 100, hoursPerDay |-> 800,
                              availability |-> 100, availableFromDay |-> 0], x>> : x \in TeamLine}]
            \cup [supplied : {FALSE}, lines : {<<>>}]]

EffortInputs ==
    [kind : {"effort"}, types : {{}, {"AI_ML_SOLUTION"}, {"MIGRATION"}},
     stack : SUBSET {"backend", "web_frontend", "native_android", "native_ios", "ai_model"},
     category : WorkCategories, drivers : {{}, {"offline_behaviour", "custom_ui"}},
     level : {"derived", "VERY_HIGH"}, unknowns : {{}, {"vague"}}]

Block == {[heading |-> FALSE, pieces |-> p] :
            p \in {<<1>>} \cup Pieces(ChunkBudget, ChunkBudget) \cup Pieces(ChunkBudget + 2, ChunkBudget)}
         \cup {[heading |-> TRUE, pieces |-> <<1>>]}
Document == BoundedSeq(Block, MaxBlocks)
CoverageInputs ==
    [kind : {"coverage"}, documents : {<<d, e>> : d, e \in Document},
     ceiling : {2, 9}, failed : SUBSET (1 .. 3)]

Citation == {
    [kind |-> "document", source |-> "d1", known |-> TRUE, found |-> TRUE, support |-> "verbatim",
     located |-> TRUE, reviewed |-> TRUE, ocr |-> FALSE, lowConfidence |-> FALSE],
    [kind |-> "document", source |-> "d2", known |-> TRUE, found |-> TRUE, support |-> "partial",
     located |-> FALSE, reviewed |-> FALSE, ocr |-> TRUE, lowConfidence |-> TRUE],
    [kind |-> "document", source |-> "d3", known |-> FALSE, found |-> FALSE, support |-> "absent",
     located |-> FALSE, reviewed |-> FALSE, ocr |-> FALSE, lowConfidence |-> FALSE],
    [kind |-> "clarification", source |-> "q1", known |-> TRUE, found |-> FALSE, support |-> "verbatim",
     located |-> FALSE, reviewed |-> FALSE, ocr |-> FALSE, lowConfidence |-> FALSE]}
ReviewItem ==
    {[references |-> r, score |-> EvidenceScore(r, human, FALSE, ~human)] :
       r \in SUBSET Citation, human \in BOOLEAN}
Findings(kind, statuses) == {{}} \cup {{[kind |-> kind, status |-> s]} : s \in statuses}
ReviewInputs ==
    [kind : {"review"}, items : {<<>>} \cup {<<x>> : x \in ReviewItem}
                                 \cup {<<x, CHOOSE y \in ReviewItem : y.score > 700>> : x \in ReviewItem},
     notAnalysed : {0, 1},
     conflicts : {{}} \cup {{[kind |-> "conflict", severity |-> v, status |-> s]} :
                     v \in {"blocking", "warning"}, s \in {"open", "still_conflicting", "resolved"}},
     questions : {{}} \cup {{[blocksApproval |-> b, status |-> s]} :
                     b \in BOOLEAN, s \in {"INTEGRATED", "ANSWERED"}},
     duplicates : Findings("duplicate", {"open", "resolved"}),
     ambiguities : Findings("ambiguity", {"open"}),
     gaps : {{}} \cup {{[kind |-> "gap", status |-> "open", blocksImplementation |-> b]} : b \in BOOLEAN}]

\* Two requirements, and the lines of an estimate: one of the first, one that may be written by hand
\* for either, both or none, and perhaps the overhead.
Req(category, rejected, figure, words, text) ==
    [category |-> category, rejected |-> rejected, figure |-> figure, words |-> words, text |-> text,
     subject |-> "Time", screen |-> "none"]
FirstRequirement == {Req("functional", FALSE, FALSE, {"PERMISSION"}, "t1"),
                     Req("constraint", FALSE, FALSE, {}, "t1")}
SecondRequirement == {Req("business_rule", FALSE, FALSE, {"DATA"}, "t1"),
                      Req("functional", TRUE, FALSE, {"DATA"}, "t2"),
                      Req("constraint", FALSE, FALSE, {}, "t2"),
                      Req("non_functional", FALSE, FALSE, {}, "t2"),
                      Req("non_functional", FALSE, TRUE, {}, "t2")}
Line(requirements, excluded, activity, module, submodule, category) ==
    EstimateUnit({"backend"}, {"BACKEND", "QA", "PM", "BA"}, category, {}, "MEDIUM", {})
    @@ [requirements |-> requirements, excluded |-> excluded, activity |-> activity,
        module |-> module, submodule |-> submodule, feature |-> "f"]
OverheadLine(activity) == Line(<<>>, FALSE, activity, "Project", "none", "testing")
Lines ==
    {<<Line(<<1>>, x, "none", "A", "none", "validation"),
       Line(c, y, "none", m[1], m[2], "business_logic")>> \o o :
         x, y \in BOOLEAN, c \in {<<1>>, <<2>>, <<2, 1>>, <<>>}, m \in {<<"A", "s">>, <<"B", "none">>},
         o \in {<<>>, <<OverheadLine("uat_support"), OverheadLine("qa_regression")>>}}
DocumentInputs ==
    [kind : {"documents"}, requirements : {<<a, b>> : a \in FirstRequirement, b \in SecondRequirement},
     lines : Lines, leftOut : {{}, {2}}, perDay : {800}, people : {<<>>},
     links : {{}} \cup {{[from |-> f, to |-> 3 - f, type |-> "FINISH_TO_START", lagDays |-> 1]} :
                f \in {1, 2}}]

CalculationsInit ==
    \/ input \in DocumentInputs
    \/ input \in DateInputs \/ input \in PlanInputs \/ input \in VerdictInputs
    \/ input \in EffortInputs \/ input \in CoverageInputs \/ input \in ReviewInputs

-----------------------------------------------------------------------------
(* Properties *)

Respected(plan, placed, link) ==
    placed[link.to].start >=
        ConstraintDay(link.type, placed[link.from], Duration(plan, link.to)) + link.lagDays
Followed(plan, placed) ==
    \A l \in plan.links : {l.from, l.to} \subseteq TasksOf(plan) => Respected(plan, placed, l)
AtOnce(plan, placed, role, day) ==
    {t \in TasksOf(plan) : plan.role[t] = role /\ day \in placed[t].start .. placed[t].end}

Slipped(plan, placed, slack) ==
    [t \in TasksOf(plan) |-> [start |-> placed[t].start + slack[t], end |-> placed[t].end + slack[t]]]
\* The lags the backward pass takes account of.
LagsAreKnown(plan) ==
    \A l \in plan.links : l.lagDays > 0 => l.type \in {"FINISH_TO_START", "FINISH_TO_FINISH"}

CanBeFollowed(plan) ==
    LET placed == Placement(plan)
        latest == Slipped(plan, placed, Slack(plan, placed))
    IN  /\ \A loop \in DetectCycles(plan) : \A t \in loop : \E l \in LinksFrom(plan, t) : l.to \in loop
        /\ DetectCycles(plan) = {} =>
              /\ Followed(plan, placed)
              /\ \A r \in Roles(plan) : \A day \in 1 .. TotalWorkingDays(placed) :
                    Cardinality(AtOnce(plan, placed, r, day)) <= PersonsOf(plan, r)
              /\ LagsAreKnown(plan) => /\ Followed(plan, latest)
                                       /\ TotalWorkingDays(latest) = TotalWorkingDays(placed)

\* A plan in which no loop is found has a schedule that can be followed: every link is respected
\* and no role works on more than it has people; and when the only lags are those the backward
\* pass knows, every task can slip by its slack at once without a link broken or the finish moved.
\* A loop that is found is one. (detectCycles gates what buildSchedule assumes)
PlanCanBeFollowed == input.kind = "plan" => CanBeFollowed(input)

Verdicts5 == <<"NOT_FEASIBLE_WITH_CURRENT_CAPACITY", "HIGH_RISK", "AGGRESSIVE", "FEASIBLE", "COMFORTABLE">>
RankOf(verdict) == CHOOSE i \in DOMAIN Verdicts5 : Verdicts5[i] = verdict
TeamOf(staffing, hoursPerDay) ==
    [supplied |-> TRUE,
     lines |-> LET roles == SetToSeq(DOMAIN staffing)
               IN  [i \in DOMAIN roles |-> [role |-> roles[i], people |-> staffing[roles[i]],
                      hoursPerDay |-> hoursPerDay, availability |-> 100, availableFromDay |-> 0]]]

\* Two ways of measuring a plan against a deadline agree, weekends and holidays anywhere: it needs
\* no more working days than there are exactly when its finish date is not past the deadline. And
\* more time never makes the verdict on a team worse, and the team the application recommends for
\* a plan is never told it has too few hours for it. (addWorkingDays and workingDaysBetween count
\* their first day each in its own loop; assessFeasibility reports a shortfall of hours before an
\* overrun; peopleForHours rounds up to the next hundredth of a person)
VerdictsAgree ==
    /\ input.kind = "dates" =>
          LET first == NextWorkingDay(input.start, input.calendar)
              finish == AddWorkingDays(first, input.total, input.calendar)
              available == TimelineWorkingDays([mode |-> "FIXED_DEADLINE", amount |-> input.deadline],
                                               input.calendar, input.start)
          IN  input.total <= available <=> finish <= input.deadline
    /\ input.kind = "verdict" =>
          /\ input.team.supplied =>
                RankOf(Evaluate(input, input.team, input.days))
                   <= RankOf(Evaluate(input, input.team, input.days + 1))
          /\ input.days > 0 =>
                LET staffing == RecommendStaffing(PlannedEffort(input), input.perDay, input.days)
                IN  Evaluate(input, TeamOf(staffing, input.perDay), input.days)
                       # "NOT_FEASIBLE_WITH_CURRENT_CAPACITY"

\* Splitting a line over the roles a project has loses no hours, whichever roles its stack lacks,
\* but for the rounding of each role to a hundredth, and gives work to nobody else.
\* (substitutes first, then the shares of the others are scaled up)
NoHoursLost ==
    input.kind = "effort" =>
        LET roles == ApplicableRoles(input.types, input.stack)
            unit == EstimateUnit(input.stack, roles, input.category, input.drivers, input.level,
                                 input.unknowns)
            split == SumOver(DOMAIN unit.effort, LAMBDA r : unit.effort[r])
        IN  /\ DOMAIN unit.effort \subseteq roles
            /\ unit.total - split \in -Cardinality(roles) .. Cardinality(roles)

\* A baseline free of blockers is complete but for quotations not found word for word, and one
\* that reads as more than 85 % aligned has nothing open that blocks it, unread, unlinked, in
\* conflict or unanswered. What counts as unread is exact: planning chunks loses and repeats no
\* piece of a document, no chunk exceeds its budget, and the blocks of which nothing was read are
\* counted, chunks that failed, chunks past the ceiling and documents whose blocks have the same
\* names included. (alignment, blockers and coverage are worked out apart from the same records)
ReadyIsComplete ==
    /\ input.kind = "coverage" =>
          LET documents == input.documents
              chunks == AllChunks(documents, ChunkBudget)
              plan == PlanChunks(documents, ChunkBudget, input.ceiling)
              read(s, b) == \E c \in DOMAIN plan.chunks \ input.failed :
                  plan.chunks[c].source = s /\ b \in BlocksOf(plan.chunks[c].contents)
              unread == UNION {{<<s, b>> : b \in {x \in DOMAIN documents[s] : ~read(s, x)}} :
                                 s \in DOMAIN documents}
              recorded == Dispositions(documents, plan, input.failed, {})
          IN  /\ \A s \in DOMAIN documents :
                    FlattenSeq([c \in DOMAIN chunks |->
                        IF chunks[c].source = s THEN chunks[c].contents ELSE <<>>]) = PiecesOf(documents[s])
              /\ \A c \in DOMAIN chunks : SizeOf(chunks[c].contents) <= ChunkBudget
              /\ ~AllChunksFailed(plan, input.failed) =>
                    Coverage(recorded, [s \in DOMAIN documents |-> Len(documents[s])]).notAnalysed
                       = Cardinality(unread)
    /\ input.kind = "review" =>
          /\ ApprovalBlockers(input) = {} => IncompleteReasons(input) \subseteq {"not_verified"}
          /\ Alignment(input).overall > IncompleteAlignmentCap =>
                ApprovalBlockers(input) \cap {"empty_baseline", "untraceable_requirement",
                    "blocking_conflict", "unanswered_clarification", "unanalysed_content"} = {}

\* Composed anew and checked at once, a document is found at fault exactly where its upstream is:
\* the listing, when a line cites nothing it answers for, a requirement is neither priced nor left
\* out, or two lines read the same; the criteria, when a checkable requirement is in no row and not
\* left out, or one left out is in a row; the breakdown, when work waits for an excluded line, has
\* no requirement, or is for one left out. And the project's row of the breakdown then states the
\* approved hours of each role and ends on the approved last day. (composed and checked by different
\* code, from different records of the same lines)
FreshDocumentsPass ==
    input.kind = "documents" =>
        LET lines == input.lines
            live == {i \in DOMAIN lines : ~lines[i].excluded}
            work == {i \in live : lines[i].activity = "none"}
            approved == {r \in DOMAIN input.requirements : ~input.requirements[r].rejected}
            category(r) == input.requirements[r].category
            scope == {r \in approved : category(r) \in {"functional", "business_rule"}}
            checkable == {r \in approved : category(r) = "non_functional" => input.requirements[r].figure}
            cites(i) == ToSet(lines[i].requirements) \cap approved
            priced == UNION {cites(i) : i \in work}
            reads(i) == SelectSeq(lines[i].requirements, LAMBDA r : r \in approved)
            text(i) == [n \in DOMAIN reads(i) |-> input.requirements[reads(i)[n]].text]
            sold == {i \in work : lines[i].requirements # <<>>}
            listing == FeatureListing(input)
            criteria == AcceptanceCriteria(input, listing)
            breakdown == WorkBreakdown(input, listing)
            project == breakdown[<<1>>]
        IN  /\ ListingFindings(input, listing, input.leftOut) = {} <=>
                  /\ \A i \in sold : cites(i) \cap scope # {}
                  /\ scope \subseteq priced \cup input.leftOut
                  /\ \A i, j \in sold : i # j => text(i) # text(j)
            /\ CriteriaFindings(input, listing, criteria, input.leftOut) = {} <=>
                  /\ \A i \in sold : cites(i) # {}
                  /\ checkable \subseteq priced \cup input.leftOut
                  /\ priced \cap input.leftOut = {}
            /\ BreakdownFindings(input, listing, breakdown, input.leftOut) = {} <=>
                  /\ \A l \in input.links : l.to \in live => l.from \in live
                  /\ work = sold
                  /\ priced \cap input.leftOut = {}
            /\ project.excluded \/ project.effort = ApprovedEffort(input)
            /\ project.span # {} => Max(project.span) = TotalWorkingDays(Placement(PlanOf(input)))

-----------------------------------------------------------------------------
(* What comments say, and the code does not do *)

\* Claimed by the chunker ("Nothing is ever silently truncated"): a block of which some piece was
\* not read is counted. It is not, when another piece of it was.
PartlyReadIsCounted ==
    input.kind = "coverage" =>
        LET plan == PlanChunks(input.documents, ChunkBudget, input.ceiling)
            whole(s, b) == \A p \in DOMAIN input.documents[s][b].pieces :
                \E c \in DOMAIN plan.chunks \ input.failed :
                    /\ plan.chunks[c].source = s
                    /\ \E i \in DOMAIN plan.chunks[c].contents :
                          plan.chunks[c].contents[i].block = b /\ plan.chunks[c].contents[i].part = p
            all == \A s \in DOMAIN input.documents : \A b \in DOMAIN input.documents[s] : whole(s, b)
            recorded == Dispositions(input.documents, plan, input.failed, {})
        IN  ~AllChunksFailed(plan, input.failed) /\ ~all =>
              Coverage(recorded, [s \in DOMAIN input.documents |-> Len(input.documents[s])]).notAnalysed > 0
=============================================================================
