---------------------------- MODULE DocumentStore ----------------------------
(***************************************************************************)
(* The record of one of the seven controlled documents and what each       *)
(* operation of the engine writes to it: status and currentness, the       *)
(* dependency graph, and the optimistic recordVersion.                     *)
(*                                                                         *)
(* A document's words are a number: 0 is nothing, and every change of them *)
(* has a number of its own. A document uses one of three channels, the     *)
(* sections, the features or the rows; prerequisiteVersions and the        *)
(* lineage fields, which no code reads back, are left out.                 *)
(***************************************************************************)
EXTENDS Naturals, Sequences

CONSTANTS
    Kind,           \* the upstream artifacts that may change
    NoValidation    \* the null of a record without a validation

DocumentTypes ==
    <<"OUR_UNDERSTANDING", "FEATURE_LISTING", "ACCEPTANCE_CRITERIA", "ASSUMPTIONS",
      "STATEMENT_OF_WORK", "WORK_BREAKDOWN_STRUCTURE", "CLIENT_DEPENDENCY_SHEET">>
DocumentType == {DocumentTypes[i] : i \in 1..7}
UpstreamKind == {"REQUIREMENT_BASELINE", "TECHNOLOGY_STACK", "ESTIMATION_SNAPSHOT"}

ASSUME KindAssumption == Kind \subseteq UpstreamKind

\* The upstream artifacts and the documents each document is written from.
Needs(upstream, documents) == [upstream |-> upstream, documents |-> documents]
DocumentDependencies ==
    [OUR_UNDERSTANDING |-> Needs({"REQUIREMENT_BASELINE"}, {}),
     FEATURE_LISTING |-> Needs(UpstreamKind, {"OUR_UNDERSTANDING"}),
     ACCEPTANCE_CRITERIA |-> Needs({"REQUIREMENT_BASELINE"}, {"FEATURE_LISTING"}),
     ASSUMPTIONS |->
        Needs({"REQUIREMENT_BASELINE", "TECHNOLOGY_STACK"}, {"ACCEPTANCE_CRITERIA"}),
     STATEMENT_OF_WORK |-> Needs(UpstreamKind, {"ASSUMPTIONS"}),
     WORK_BREAKDOWN_STRUCTURE |-> Needs(UpstreamKind, {"STATEMENT_OF_WORK"}),
     CLIENT_DEPENDENCY_SHEET |->
        Needs({"REQUIREMENT_BASELINE", "TECHNOLOGY_STACK"},
              {"ASSUMPTIONS", "WORK_BREAKDOWN_STRUCTURE"})]

DocumentsDependingOn(d) ==
    {e \in DocumentType : d \in DocumentDependencies[e].documents}

\* downstreamDocuments: the dependents of d and, round by round, theirs. Among
\* seven documents no path is longer than six.
AndTheirs(S) ==
    {e \in DocumentType : e \in S \/ DocumentDependencies[e].documents \cap S # {}}
DownstreamDocuments(d) ==
    AndTheirs(AndTheirs(AndTheirs(AndTheirs(AndTheirs(DocumentsDependingOn(d))))))

\* The documents made of rows, whose rows are kept for one version only.
RowDocument ==
    {"ACCEPTANCE_CRITERIA", "ASSUMPTIONS", "WORK_BREAKDOWN_STRUCTURE",
     "CLIENT_DEPENDENCY_SHEET"}
MayBeEmpty == {"ASSUMPTIONS"}

\* No code writes NOT_STARTED, QUEUED, GENERATING or FAILED: a generation runs
\* inside its request.
DocumentStatus == {"DRAFT", "NEEDS_REVISION", "APPROVED", "FINAL"}
CanTransition(from, to) ==
    \/ from \in {"DRAFT", "NEEDS_REVISION"} /\ to \in {"QUEUED", "DRAFT", "NEEDS_REVISION", "APPROVED"}
    \/ from = "APPROVED" /\ to \in {"QUEUED", "DRAFT", "NEEDS_REVISION", "FINAL"}
CanGenerate(status) == CanTransition(status, "QUEUED")
IsEditable(status) == status \in {"DRAFT", "NEEDS_REVISION", "APPROVED"}
IsAuthoritative(status) == status \in {"APPROVED", "FINAL"}

\* A validation stands for the words it read.
Validation == [version : Nat, text : Nat, passes : BOOLEAN]
Record ==
    [status : DocumentStatus, version : Nat, recordVersion : Nat,
     validation : Validation \cup {NoValidation}, outdated : SUBSET DocumentType,
     against : [Kind -> Nat]]
Archived == [status : DocumentStatus, text : Nat]

ASSUME NoValidationAssumption == NoValidation \notin Validation

ValidationPermits(record) ==
    /\ record.validation # NoValidation
    /\ record.validation.version = record.version
    /\ record.validation.passes

-----------------------------------------------------------------------------
(* What each operation writes; update and touch bump the recordVersion *)

Bumped(record) == [record EXCEPT !.recordVersion = @ + 1]

Created(version, against) ==
    [status |-> "DRAFT", version |-> version, recordVersion |-> 0,
     validation |-> NoValidation, outdated |-> {}, against |-> against]

MovedTo(record, version, status) ==
    Bumped([record EXCEPT !.version = version, !.status = status,
                          !.validation = NoValidation])

QueuedAgain(record, version, against) == \* faulty: left queued for a worker there is not
    [MovedTo(record, version, "QUEUED") EXCEPT !.outdated = {}, !.against = against]

\* generate and revise catch up with today's inputs, and say so.
CaughtUp(record, version, against) ==
    [MovedTo(record, version, "DRAFT") EXCEPT !.outdated = {}, !.against = against]

CutKeepingStatus(record, version, read) == \* faulty: an approved document stays so
    MovedTo(record, version, record.status)

\* afterContentChange: back to draft if it was approved when the handler read it.
Cut(record, version, read) ==
    MovedTo(record, version, IF read = "APPROVED" THEN "DRAFT" ELSE record.status)

Validated(record, validation) == Bumped([record EXCEPT !.validation = validation])
WithStatus(record, status) == Bumped([record EXCEPT !.status = status])
Touched(record, outdated) == Bumped([record EXCEPT !.outdated = outdated])

=============================================================================
