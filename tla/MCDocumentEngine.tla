-------------------------- MODULE MCDocumentEngine --------------------------
(***************************************************************************)
(* Parts, one after the other, so that their states add up: requests that  *)
(* overlap or are cut short around two documents, one of which rests on    *)
(* the other; one request at a time around those two, with more versions;  *)
(* one at a time along a chain of three; and the AI service over one       *)
(* document (Ai). The initial state says which; what another part uses     *)
(* stays as it begins.                                                     *)
(***************************************************************************)
EXTENDS DocumentEngine, Corrections, TLC

CONSTANTS r1, r2, a1, Nothing
VARIABLES part, document, baseline, unlocked, runs, calls, faults

aiVars == <<shape, document, baseline, unlocked, runs, corrections, calls, faults>>

MCRequest == {r1, r2}
MCSymmetry == Permutations(MCRequest)

Overlapped == INSTANCE DocumentEngine WITH MaxWrites <- 3, MaxTexts <- 3, MaxUpstream <- 1
Sole == INSTANCE DocumentEngine WITH MaxOverlaps <- 0, MaxAborts <- 0, MaxTexts <- 3
Chain == INSTANCE DocumentEngine WITH
    MaxOverlaps <- 0, MaxAborts <- 0, MaxWrites <- 3, MaxUpstream <- 1

\* Further bounds of the parts: in Sole the baseline moves on under the first document
\* alone, in Chain the first two documents are there for the third.
OfTwo == \A r \in Request : request'[r] # Idle => request'[r].doc # "ASSUMPTIONS"
TwoVersions == \A r \in Request : request'[r] # Idle => request'[r].version <= 2
BaselineMoves ==
    documents'["ACCEPTANCE_CRITERIA"] = Absent \/ \A k \in Kind : upstream'[k].version = 1
LastOfThree == \A r \in Request : request'[r] # Idle =>
    request'[r].doc = "ASSUMPTIONS" \/ request'[r].op \in {"generate", "validate", "approve", "reopen"}

Ai == INSTANCE DocumentAi WITH
    Caller <- {a1}, MaxRuns <- 2, MaxCorrections <- 1, MaxBaselines <- 2, MaxWrites <- 3,
    MaxFaults <- 1

AiIdle ==
    /\ shape = "sections" /\ document = Nothing /\ baseline = 1 /\ unlocked = TRUE
    /\ runs = <<>> /\ corrections = <<>> /\ calls = [c \in {a1} |-> Nothing] /\ faults = 0
PartInit ==
    /\ Init
    /\ \/ part \in {"overlap", "sole", "chain"} /\ AiIdle
       \/ part = "ai" /\ Ai!Init
PartNext ==
    \/ /\ \/ part = "overlap" /\ Overlapped!Next /\ OfTwo /\ TwoVersions
          \/ part = "sole" /\ Sole!Next /\ OfTwo /\ BaselineMoves
          \/ part = "chain" /\ Chain!Next /\ TwoVersions /\ LastOfThree
       /\ UNCHANGED <<part, aiVars>>
    \/ part = "ai" /\ Ai!Next /\ UNCHANGED <<part, vars>>
PartSpec == PartInit /\ [][PartNext]_<<part, vars, aiVars>>
=============================================================================
