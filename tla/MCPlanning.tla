----------------------------- MODULE MCPlanning -----------------------------
(***************************************************************************)
(* The technology stack, the estimate and the calculators in one run, one  *)
(* after the other: the initial state says which of them is in play, and   *)
(* the variables of the others stay as they begin. So the states add up    *)
(* and do not multiply.                                                    *)
(***************************************************************************)
EXTENDS Stack, Estimation, Calculations, TLC

CONSTANTS c1, c2
VARIABLE part

MCRequired(t) == {"backend"}
MCFeasibilityOf(team, figures) ==
    IF team = "none" THEN "CAPACITY_UNKNOWN"
    ELSE IF "more" \in figures THEN "NOT_FEASIBLE_WITH_CURRENT_CAPACITY"
    ELSE IF "calc" \in figures THEN "HIGH_RISK" ELSE "FEASIBLE"
MCSym == Permutations({c1, c2})
MCDeadlines == 0 .. 20

\* Each part's records have their shape.
PlanningTypeInv == TypeInv /\ StackTypeInv

StackIdle == stacks = <<>> /\ approvedBaseline.version = 0 /\ types = Unconfirmed
EstimateIdle == snapshots = <<>>
PartInit ==
    /\ StackInit /\ Init
    /\ \/ part = "stack" /\ EstimateIdle /\ input = NoInput
       \/ part = "estimate" /\ StackIdle /\ input = NoInput
       \/ part = "calculators" /\ StackIdle /\ EstimateIdle /\ CalculationsInit
PartNext ==
    \/ part = "stack" /\ StackNext /\ UNCHANGED <<part, vars, input>>
    \/ part = "estimate" /\ Next /\ UNCHANGED <<part, stackVars, input>>
PartSpec == PartInit /\ [][PartNext]_<<part, vars, stackVars, input>>
=============================================================================
