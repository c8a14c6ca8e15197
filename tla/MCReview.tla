------------------------------ MODULE MCReview ------------------------------
(***************************************************************************)
(* The two halves of the review of requirements in one run, one after the  *)
(* other: the initial state says whether AnalysisRuns or Clarifications is *)
(* in play, and the variables of the other stay as they begin. So the      *)
(* states add up and do not multiply.                                      *)
(***************************************************************************)
EXTENDS AnalysisRuns, Clarifications, TLC

CONSTANTS s1, v1, c1, c2, i1
VARIABLE half

MCOneStarter == {s1}
MCReviewer == {v1}
MCClients == {c1, c2}
MCOneItem == {i1}

\* Each half's records have their shape.
ReviewTypeInv == TypeInv /\ QuestionTypeInv

HalfInit ==
    /\ Init /\ QuestionInit /\ half \in {"runs", "questions"}
    /\ half = "questions" => sources = NoContent
HalfNext ==
    \/ half = "runs" /\ Next /\ UNCHANGED <<half, questionVars>>
    \/ half = "questions" /\ QuestionNext /\ UNCHANGED <<half, vars>>
HalfSpec ==
    /\ HalfInit /\ [][HalfNext]_<<half, vars, questionVars>>
    /\ \A r \in RunIds : WF_vars(RunStep(r))
=============================================================================
