----------------------------- MODULE Corrections -----------------------------
(***************************************************************************)
(* The records of the corrections people ask for: what each says became of *)
(* it, and, which no record says, what was really done.                    *)
(***************************************************************************)
VARIABLES
    shape,          \* what the document is made of: sections, features or rows
    corrections     \* each record's outcome, and what was really done for it

Outcome == {"NOT_APPLIED", "APPLIED", "PROPOSED"}
Effect == {"none", "replaced", "proposed"}

-----------------------------------------------------------------------------
\* A correction that is recorded as proposed left a person's words with a proposal
\* beside them, and one recorded as applied replaced the words; of a document without
\* sections, it changed it. (a section's outcome is decided before the model writes, and
\* what is done after it; people edit meanwhile)
CorrectionsTellTheTruth ==
    \A i \in DOMAIN corrections :
        /\ corrections[i].outcome = "APPLIED" =>
              IF shape = "sections" THEN corrections[i].effect = "replaced"
              ELSE corrections[i].effect # "none"
        /\ corrections[i].outcome = "PROPOSED" => corrections[i].effect = "proposed"
=============================================================================
