----------------------------- MODULE Scheduling -----------------------------
(***************************************************************************)
(* The schedule of a plan, in working days counted from 1. A plan has the  *)
(* hours and the role of each of its lines, those excluded, the links      *)
(* between them, the people of the roles that have a figure, whether work  *)
(* may go in parallel, and the hours of a day. A line is a number, in the  *)
(* order of the ids; hours and people are counted in hundredths.           *)
(***************************************************************************)
EXTENDS Integers, FiniteSets, Sequences, SequencesExt

LinkTypes == {"FINISH_TO_START", "START_TO_START", "FINISH_TO_FINISH", "START_TO_FINISH"}

TasksOf(plan) == DOMAIN plan.hours \ plan.excluded
LinksInto(plan, task) == {l \in plan.links : l.to = task /\ l.from \in TasksOf(plan)}
LinksFrom(plan, task) == {l \in plan.links : l.from = task /\ l.to \in TasksOf(plan)}

DurationFor(hours, perDay) == Max({1, (hours + perDay - 1) \div perDay})
Duration(plan, task) == DurationFor(plan.hours[task], plan.perDay)

-----------------------------------------------------------------------------
InOrderOfId(tasks) ==
    [i \in 1 .. Cardinality(tasks) |-> CHOOSE t \in tasks : Cardinality({u \in tasks : u < t}) = i - 1]

\* Kahn's algorithm: of the tasks whose predecessors are all placed, the first by id. What is
\* left is in a cycle or behind one, and comes last.
TopologicalOrder(plan) ==
    LET ready(done) ==
            {t \in TasksOf(plan) \ done : \A l \in LinksInto(plan, t) : l.from \in done}
        extend(order, i) ==
            IF ready(ToSet(order)) = {} THEN order ELSE Append(order, Min(ready(ToSet(order))))
        sorted == FoldLeft(extend, <<>>, SetToSeq(TasksOf(plan)))
    IN  sorted \o InOrderOfId(TasksOf(plan) \ ToSet(sorted))

\* The day a successor may begin.
ConstraintDay(type, predecessor, duration) ==
    CASE type = "FINISH_TO_START" -> predecessor.end + 1
      [] type = "START_TO_START" -> predecessor.start
      [] type = "FINISH_TO_FINISH" -> Max({1, predecessor.end - duration + 1})
      [] type = "START_TO_FINISH" -> Max({1, predecessor.start - duration + 1})

\* One slot per person of a role, holding the day that person is free; one for a role without
\* a figure, and when nothing may go in parallel. A fraction of a person counts for nobody.
PersonsOf(plan, role) ==
    IF plan.allowParallel /\ role \in DOMAIN plan.people THEN Max({1, plan.people[role] \div 100}) ELSE 1
Roles(plan) == {plan.role[t] : t \in TasksOf(plan)}

AnySlotAtOnce(free, earliest) == [slot |-> 1, start |-> earliest]  \* faulty: does not wait for a person
\* The person free first, and when that person can begin.
FirstFree(free, earliest) ==
    LET slot == CHOOSE i \in DOMAIN free :
                  /\ \A j \in DOMAIN free : free[i] <= free[j]
                  /\ \A j \in 1 .. i - 1 : free[j] # free[i]
    IN  [slot |-> slot, start |-> Max({earliest, free[slot]})]

\* Where every task is placed, one after the other.
Placement(plan) ==
    LET place(done, task) ==
          LET duration == Duration(plan, task)
              bounds == {ConstraintDay(l.type, done.at[l.from], duration) + l.lagDays :
                           l \in {k \in LinksInto(plan, task) : k.from \in DOMAIN done.at}}
              person == FirstFree(done.free[plan.role[task]], Max({1} \cup bounds))
              end == person.start + duration - 1
          IN  [at |-> [t \in DOMAIN done.at \cup {task} |->
                         IF t = task THEN [start |-> person.start, end |-> end] ELSE done.at[t]],
               free |-> [done.free EXCEPT ![plan.role[task]][person.slot] = end + 1]]
        nothing == [at |-> <<>>,
                    free |-> [r \in Roles(plan) |-> [i \in 1 .. PersonsOf(plan, r) |-> 1]]]
    IN  FoldLeft(place, nothing, TopologicalOrder(plan)).at

TotalWorkingDays(placed) == Max({0} \cup {placed[t].end : t \in DOMAIN placed})

\* computeLatestFinish: the bound a link puts on its predecessor.
LatestBound(plan, placed, link, latest) ==
    LET latestStart == latest[link.to] - Duration(plan, link.to) + 1
    IN  CASE link.type = "FINISH_TO_START" -> latestStart - 1 - link.lagDays
          [] link.type = "START_TO_START" ->
               latestStart + (placed[link.from].end - placed[link.from].start)
          [] link.type = "FINISH_TO_FINISH" -> latest[link.to] - link.lagDays
          [] link.type = "START_TO_FINISH" -> latest[link.to]

LatestFinish(plan, placed) ==
    LET bound(latest, task) ==
          LET known == {l \in LinksFrom(plan, task) : l.to \in DOMAIN latest}
              finish == Min({TotalWorkingDays(placed)}
                              \cup {LatestBound(plan, placed, l, latest) : l \in known})
          IN  [t \in DOMAIN latest \cup {task} |->
                 IF t = task THEN Max({placed[task].end, finish}) ELSE latest[t]]
    IN  FoldLeft(bound, <<>>, Reverse(TopologicalOrder(plan)))

\* Working days a task could slip without moving the finish.
Slack(plan, placed) ==
    LET latest == LatestFinish(plan, placed)
    IN  [t \in TasksOf(plan) |-> Max({0, latest[t] - placed[t].end})]

CriticalPath(slack) == {t \in DOMAIN slack : slack[t] = 0}

\* A guard on the length of a schedule.
IsScheduleWithinBounds(placed, limit) == TotalWorkingDays(placed) <= limit

-----------------------------------------------------------------------------
(* detectCycles: a depth-first search with its own stack. *)

\* What the search holds: the state of each task, the path, and the loops found.
DetectCycles(plan) ==
    LET live == TasksOf(plan)
        edges == {<<l.from, l.to>> : l \in {k \in plan.links : {k.from, k.to} \subseteq live}}
        \* What begins from a task, the children left to look at being those of the path's last.
        step(s, i) ==
          IF s.path = <<>>
          THEN IF live \subseteq s.seen THEN s
               ELSE [s EXCEPT !.path = <<Min(live \ s.seen)>>, !.seen = @ \cup {Min(live \ s.seen)}]
          ELSE LET node == Last(s.path)
                   children == {e \in edges \ s.taken : e[1] = node}
               IN  IF children = {} THEN [s EXCEPT !.path = Front(@)]
                   ELSE LET edge == CHOOSE e \in children : TRUE
                            met == {n \in DOMAIN s.path : s.path[n] = edge[2]}
                            next == [s EXCEPT !.taken = @ \cup {edge}]
                        IN  IF met # {}
                            THEN [next EXCEPT !.cycles = @ \cup
                                    {ToSet(SubSeq(s.path, Max(met), Len(s.path)))}]
                            ELSE IF edge[2] \in s.seen THEN next
                            ELSE [next EXCEPT !.seen = @ \cup {edge[2]},
                                              !.path = Append(@, edge[2])]
        steps == 1 .. (2 * Cardinality(live) + Cardinality(edges) + 1)
    IN  FoldLeft(step, [path |-> <<>>, seen |-> {}, taken |-> {}, cycles |-> {}],
                 [i \in steps |-> i]).cycles
=============================================================================
