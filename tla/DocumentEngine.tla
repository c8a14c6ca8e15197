---------------------------- MODULE DocumentEngine ----------------------------
(***************************************************************************)
(* The document engine: the handlers of DocumentsService over the record,  *)
(* the words and the version history of each document.  A handler reads    *)
(* what it needs and then goes through its steps, each one awaited, with   *)
(* other handlers in between; only the update of the record is conditional *)
(* on the recordVersion.                                                   *)
(*                                                                         *)
(* The reads a handler begins with are one step: a record that changed     *)
(* between them no longer has its caller's recordVersion.  So are the      *)
(* reads an archived row is made from and its writing.  Documents that are *)
(* not in Doc stay approved and current.                                   *)
(***************************************************************************)
EXTENDS DocumentStore

CONSTANTS
    Doc,            \* the documents of this instance
    Request,        \* slots for handlers in progress
    Idle, Absent, Unread,   \* an empty slot; no record or archived version; nothing read
    MaxVersion,     \* bound on a document's versions
    MaxWrites,      \* bound: no handler starts on a record written this often
    MaxTexts,       \* bound on changes of words
    MaxUpstream,    \* bound on versions of an upstream artifact
    MaxOverlaps,    \* bound: how often a handler starts beside another
    MaxAborts,      \* bound: how many handlers are cut short
    MaxDisturbances \* bound on overlaps and aborts together

ASSUME EngineAssumption ==
    /\ Doc \subseteq DocumentType
    /\ Absent \notin Record \cup Archived
    /\ \A S \in SUBSET DocumentType : Unread # S
    /\ MaxVersion \in Nat /\ MaxTexts \in Nat /\ MaxOverlaps \in Nat /\ MaxAborts \in Nat

Version == 1..MaxVersion
Step == {"create", "change", "exclude", "read", "archive", "plan", "live", "commit",
         "write", "record", "tell"}
Operation ==
    {"generate", "restore", "regenerateRows", "regenerateFeatures", "edit", "exclude",
     "suggest", "validate", "acknowledge", "approve", "markFinal", "reopen", "revise"}

\* A handler: the steps it still has to take, and what it has in its memory.
Handler ==
    [op : Operation, doc : Doc, steps : Seq(Step),
     read : Record \cup {Absent},       \* the record it began with
     expected : Nat,                    \* the recordVersion its update asks for
     version : Nat,                     \* the version it writes
     text : Nat,                        \* the words it writes or has read
     passes : BOOLEAN,                  \* the verdict on them
     against : [Kind -> Nat],           \* the upstream versions it has read
     untold : SUBSET Doc,               \* dependents still to be told
     reasons : {Unread} \cup SUBSET DocumentType]  \* of the dependent being told

ASSUME IdleAssumption == Idle \notin Handler

Upstream == [version : Nat, state : {"current", "stale", "withdrawn"}]

VARIABLES
    documents,  \* documents[d]: its Record, or Absent
    content,    \* content[d][v]: the words stored for version v, or 0
    archived,   \* archived[d][v]: the row of the version history, or Absent
    upstream,   \* upstream[k]: the approved artifact of kind k
    request,    \* request[r]: its Handler, or Idle
    texts,      \* how many changes of words there were
    overlaps, aborts

vars == <<documents, content, archived, upstream, request, texts, overlaps, aborts>>

TypeInv ==
    /\ documents \in [Doc -> Record \cup {Absent}]
    /\ content \in [Doc -> [Version -> Nat]]
    /\ archived \in [Doc -> [Version -> Archived \cup {Absent}]]
    /\ upstream \in [Kind -> Upstream]
    /\ request \in [Request -> Handler \cup {Idle}]
    /\ texts \in 0..MaxTexts /\ overlaps \in 0..MaxOverlaps /\ aborts \in 0..MaxAborts

Init ==
    /\ documents = [d \in Doc |-> Absent]
    /\ content = [d \in Doc |-> [v \in Version |-> 0]]
    /\ archived = [d \in Doc |-> [v \in Version |-> Absent]]
    /\ upstream = [k \in Kind |-> [version |-> 1, state |-> "current"]]
    /\ request = [r \in Request |-> Idle]
    /\ texts = 0 /\ overlaps = 0 /\ aborts = 0

Exists(d) == documents[d] # Absent
Status(d) == documents[d].status
CurrentText(d) == content[d][documents[d].version]

\* documentOutdatedReasonsFor: what moved upstream, and what was told.
Reasons(d) ==
    documents[d].outdated \cup
        {k \in Kind \cap DocumentDependencies[d].upstream :
            /\ documents[d].against[k] # 0
            /\ \/ upstream[k].state # "current"
               \/ upstream[k].version # documents[d].against[k]}

\* isAuthoritativeState
Authoritative(d) == Exists(d) /\ IsAuthoritative(Status(d)) /\ Reasons(d) = {}
Prerequisites(d) == DocumentDependencies[d].documents \cap Doc

\* Doc leaves out none that lies between two of its own: what is downstream of p rests
\* on p, or on one that is downstream of it.
ASSUME ChainAssumption ==
    \A p \in Doc : \A e \in DownstreamDocuments(p) \cap Doc :
        \E q \in Prerequisites(e) : q = p \/ q \in DownstreamDocuments(p)

\* lockFor: a stale baseline is still there, a withdrawn stack or estimate is not.
Unlocked(d) ==
    /\ \A k \in Kind \cap DocumentDependencies[d].upstream : upstream[k].state # "withdrawn"
    /\ \A p \in Prerequisites(d) : Authoritative(p)

\* upstreamFields: a withdrawn artifact leaves what the record had.
UpstreamFields(d) ==
    [k \in Kind |->
        IF upstream[k].state # "withdrawn" THEN upstream[k].version
        ELSE IF Exists(d) THEN documents[d].against[k] ELSE 0]

LatestVersion(d) == \* faulty: the latest again
    LET used == {v \in Version : archived[d][v] # Absent}
    IN  IF used = {} THEN 1 ELSE CHOOSE v \in used : \A u \in used : u <= v

\* nextVersion: one more than the latest in the history.
NextVersion(d) ==
    LET used == {v \in Version : archived[d][v] # Absent}
    IN  IF used = {} THEN 1
        ELSE 1 + (CHOOSE v \in used : \A u \in used : u <= v)

-----------------------------------------------------------------------------
(* How a handler begins, and goes on *)

\* Downstream documents hear of it only from these.
Telling(d, steps) == IF Status(d) = "APPROVED" THEN Append(steps, "tell") ELSE steps

\* A slot is free, and the handler that takes it may run beside those there are.
Overlapping == \E r \in Request : request[r] # Idle
Free(r) ==
    /\ request[r] = Idle
    /\ Overlapping => overlaps < MaxOverlaps /\ overlaps + aborts < MaxDisturbances

Begin(r, d, op, steps, text, passes) ==
    /\ Exists(d) => documents[d].recordVersion < MaxWrites
    /\ overlaps' = IF Overlapping THEN overlaps + 1 ELSE overlaps
    /\ request' = [request EXCEPT ![r] =
          [op |-> op, doc |-> d, steps |-> steps, read |-> documents[d],
           expected |-> IF Exists(d) THEN documents[d].recordVersion ELSE 0,
           version |-> 0, text |-> text, passes |-> passes,
           against |-> UpstreamFields(d),
           untold |-> DownstreamDocuments(d) \cap Doc, reasons |-> Unread]]
    /\ UNCHANGED <<documents, content, archived, upstream, aborts>>

\* A handler that brings words of its own.
BeginWriting(r, d, op, steps) ==
    /\ NextVersion(d) <= MaxVersion
    /\ texts < MaxTexts /\ texts' = texts + 1
    /\ Begin(r, d, op, steps, texts + 1, FALSE)

\* A handler that copies words, or only reads them.
BeginCopying(r, d, op, steps, text) ==
    /\ NextVersion(d) <= MaxVersion
    /\ Begin(r, d, op, steps, text, FALSE) /\ UNCHANGED texts

Editable(d) == Exists(d) /\ IsEditable(Status(d)) /\ Unlocked(d)

Generate(r, d) ==
    /\ Unlocked(d)
    /\ \/ /\ Exists(d) /\ CanGenerate(Status(d))
          /\ BeginWriting(r, d, "generate", <<"archive", "plan", "commit", "write", "record">>)
       \/ /\ ~Exists(d)
          /\ BeginWriting(r, d, "generate", <<"plan", "create", "write", "record">>)

\* The handlers that change words where they are stored, and the documents that
\* have them; moveDependency is one of a row's.
EditSection(d) == d \notin RowDocument \cup {"FEATURE_LISTING"}
EditFeature(d) == d = "FEATURE_LISTING"
ResolveFeatureProposal(d) == d = "FEATURE_LISTING"
EditRow(d) == d \in RowDocument
RemoveRow(d) == d \in RowDocument
ResolveRowProposal(d) == d \in RowDocument
SettleAssumption(d) == d = "ASSUMPTIONS"

\* They all go on to cut a version with afterContentChange.
EditInPlace(r, d) ==
    /\ \/ EditSection(d) \/ EditFeature(d) \/ ResolveFeatureProposal(d)
       \/ EditRow(d) \/ RemoveRow(d) \/ ResolveRowProposal(d) \/ SettleAssumption(d)
    /\ Editable(d)
    /\ BeginWriting(r, d, "edit",
          Telling(d, <<"change", "read", "plan", "live", "commit", "write", "record">>))

ExcludeRequirement(r, d) ==
    /\ Editable(d)
    /\ BeginCopying(r, d, "exclude",
          Telling(d, <<"exclude", "read", "plan", "live", "commit", "write", "record">>), 0)

AddAssumptionCandidates(r, d) ==
    /\ d = "ASSUMPTIONS" /\ Editable(d)
    /\ BeginWriting(r, d, "suggest", <<"change">>)

\* What writing all rows, or all features, again goes through: rows tell nobody.
RegenerateRows(d) == <<"plan", "archive", "commit", "write", "record">>
RegenerateFeatures(d) == Telling(d, <<"archive", "plan", "commit", "write">>)

Regenerate(r, d) ==
    /\ d \in RowDocument \cup {"FEATURE_LISTING"} /\ Editable(d) /\ CurrentText(d) # 0
    /\ IF d \in RowDocument
       THEN BeginWriting(r, d, "regenerateRows", RegenerateRows(d))
       ELSE BeginWriting(r, d, "regenerateFeatures", RegenerateFeatures(d))

Restore(r, d) ==
    /\ Editable(d)
    /\ \E v \in Version :
          /\ archived[d][v] # Absent
          /\ BeginCopying(r, d, "restore",
                <<"archive", "plan", "commit", "write", "record">>, archived[d][v].text)

\* validate asks for no status and no expected version: it takes what it finds.
Validate(r, d) ==
    /\ Exists(d)
    /\ \E passes \in BOOLEAN : Begin(r, d, "validate", <<"read", "commit">>, 0, passes)
    /\ UNCHANGED texts

AcknowledgeFinding(r, d) ==
    /\ Editable(d) /\ documents[d].validation # NoValidation
    /\ Begin(r, d, "acknowledge", <<"commit">>, 0, FALSE) /\ UNCHANGED texts

Approve(r, d) ==
    /\ Exists(d) /\ Reasons(d) = {}
    /\ CanTransition(Status(d), "APPROVED")
    /\ ValidationPermits(documents[d])
    /\ CurrentText(d) # 0 \/ d \in MayBeEmpty
    /\ \A p \in Prerequisites(d) : Exists(p) => Authoritative(p)
    /\ Begin(r, d, "approve", <<"commit", "record">>, 0, FALSE) /\ UNCHANGED texts

MarkFinal(r, d) ==
    /\ Exists(d) /\ Reasons(d) = {} /\ CanTransition(Status(d), "FINAL")
    /\ Begin(r, d, "markFinal", <<"commit", "record">>, 0, FALSE) /\ UNCHANGED texts

ReopenSilently(r, d) == \* faulty: nobody downstream is told
    /\ Exists(d) /\ Status(d) = "APPROVED"
    /\ BeginCopying(r, d, "reopen", <<"archive", "plan", "write", "commit", "record">>, 0)

\* reopen and revise write the copy before the record.
Reopen(r, d) ==
    /\ Exists(d) /\ Status(d) = "APPROVED"
    /\ BeginCopying(r, d, "reopen",
          <<"archive", "plan", "write", "commit", "record", "tell">>, 0)

Revise(r, d) ==
    /\ Exists(d) /\ Status(d) = "FINAL"
    /\ BeginCopying(r, d, "revise",
          <<"archive", "plan", "write", "commit", "record", "tell">>, 0)

-----------------------------------------------------------------------------
(* The steps *)

At(r, step) == request[r] # Idle /\ request[r].steps # <<>> /\ Head(request[r].steps) = step
\* The handler with its first step taken; it is over when none is left.
Advance(r, h) ==
    request' = [request EXCEPT ![r] =
        IF Tail(h.steps) = <<>> THEN Idle ELSE [h EXCEPT !.steps = Tail(@)]]
Done(r) == request' = [request EXCEPT ![r] = Idle]
Words(h) == content[h.doc][h.read.version]

\* create, under the unique index on the document's type.
CreateRecord(r) ==
    /\ At(r, "create")
    /\ LET h == request[r]
           record == Created(h.version, h.against)
       IN  IF Exists(h.doc)
           THEN Done(r) /\ UNCHANGED documents
           ELSE /\ documents' = [documents EXCEPT ![h.doc] = record]
                /\ Advance(r, [h EXCEPT !.read = record])
    /\ UNCHANGED <<content, archived, upstream, texts, overlaps, aborts>>

\* updateSection, updateFeature, updateRow: in place, if it is there. Rows are
\* added whatever is there.
ChangeContent(r) ==
    /\ At(r, "change")
    /\ LET h == request[r]
       IN  IF Words(h) = 0 /\ h.doc \notin RowDocument
           THEN Done(r) /\ UNCHANGED content
           ELSE /\ content' = [content EXCEPT ![h.doc][h.read.version] = h.text]
                /\ Advance(r, h)
    /\ UNCHANGED <<documents, archived, upstream, texts, overlaps, aborts>>

\* currentContent, at the version the handler began with.
ReadContent(r) ==
    /\ At(r, "read")
    /\ Advance(r, [request[r] EXCEPT !.text = Words(request[r])])
    /\ UNCHANGED <<documents, content, archived, upstream, texts, overlaps, aborts>>

PlanVersion(r) ==
    /\ At(r, "plan") /\ NextVersion(request[r].doc) <= MaxVersion
    /\ Advance(r, [request[r] EXCEPT !.version = NextVersion(request[r].doc)])
    /\ UNCHANGED <<documents, content, archived, upstream, texts, overlaps, aborts>>

ReadLive(r) ==
    /\ At(r, "live")
    /\ Advance(r, [request[r] EXCEPT !.expected = documents[request[r].doc].recordVersion])
    /\ UNCHANGED <<documents, content, archived, upstream, texts, overlaps, aborts>>

ArchiveRow(d, v, status, text) ==
    archived' = [archived EXCEPT ![d][v] = [status |-> status, text |-> text]]

\* archive, of the version the handler began with; reopen and revise copy it.
ArchivePrevious(r) ==
    /\ At(r, "archive")
    /\ LET h == request[r]
       IN  /\ ArchiveRow(h.doc, h.read.version, h.read.status, Words(h))
           /\ Advance(r, IF h.op \in {"reopen", "revise"} THEN [h EXCEPT !.text = Words(h)] ELSE h)
    /\ UNCHANGED <<documents, content, upstream, texts, overlaps, aborts>>

\* What the handler's update leaves in the record.
Updated(h) ==
    LET record == documents[h.doc]
    IN  CASE h.op = "generate" -> CaughtUp(record, h.version, h.against)
          [] h.op = "revise" -> CaughtUp(record, h.version, h.against)
          [] h.op \in {"restore", "regenerateRows"} -> MovedTo(record, h.version, "DRAFT")
          [] h.op = "reopen" -> MovedTo(record, h.version, "NEEDS_REVISION")
          [] h.op \in {"edit", "exclude", "regenerateFeatures"} ->
                Cut(record, h.version, h.read.status)
          [] h.op = "validate" ->
                Validated(record, [version |-> h.read.version, text |-> h.text,
                                   passes |-> h.passes])
          [] h.op = "acknowledge" -> Validated(record, h.read.validation)
          [] h.op = "approve" -> WithStatus(record, "APPROVED")
          [] h.op = "markFinal" -> WithStatus(record, "FINAL")

CommitAnyway(r) == \* faulty: the filter is on the document alone
    /\ At(r, "commit")
    /\ documents' = [documents EXCEPT ![request[r].doc] = Updated(request[r])]
    /\ Advance(r, request[r])
    /\ UNCHANGED <<content, archived, upstream, texts, overlaps, aborts>>

\* commit: the update filtered by recordVersion. A lost race ends the handler,
\* but reopen and revise do not look at the result.
Commit(r) ==
    /\ At(r, "commit")
    /\ LET h == request[r]
       IN  IF documents[h.doc].recordVersion = h.expected
           THEN /\ documents' = [documents EXCEPT ![h.doc] = Updated(h)]
                /\ Advance(r, IF h.op = "generate" THEN [h EXCEPT !.read = Updated(h)] ELSE h)
           ELSE /\ UNCHANGED documents
                /\ IF h.op \in {"reopen", "revise"} THEN Advance(r, h) ELSE Done(r)
    /\ UNCHANGED <<content, archived, upstream, texts, overlaps, aborts>>

\* excludeRequirement commits its exclusion first.
CommitExclusion(r) ==
    /\ At(r, "exclude")
    /\ LET h == request[r]
       IN  IF documents[h.doc].recordVersion = h.expected
           THEN documents' = [documents EXCEPT ![h.doc] = Bumped(@)] /\ Advance(r, h)
           ELSE Done(r) /\ UNCHANGED documents
    /\ UNCHANGED <<content, archived, upstream, texts, overlaps, aborts>>

\* replaceSections and replaceFeatures empty the version they fill; replaceRows
\* empties every version. revise copies no rows.
WriteContent(r) ==
    /\ At(r, "write")
    /\ LET h == request[r]
       IN  /\ content' =
                IF h.doc \notin RowDocument
                THEN [content EXCEPT ![h.doc][h.version] = h.text]
                ELSE IF h.op = "revise" THEN content
                ELSE [content EXCEPT ![h.doc] =
                        [v \in Version |-> IF v = h.version THEN h.text ELSE 0]]
           /\ Advance(r, h)
    /\ UNCHANGED <<documents, archived, upstream, texts, overlaps, aborts>>

\* archive, of the version just made or approved. Most handlers read the record
\* again; markFinal only sets the status of the row.
RecordVersion(r) ==
    /\ At(r, "record")
    /\ LET h == request[r]
           d == h.doc
       IN  /\ CASE h.op = "generate" -> ArchiveRow(d, h.read.version, h.read.status, Words(h))
                [] h.op = "approve" -> ArchiveRow(d, h.read.version, "APPROVED", Words(h))
                [] h.op = "markFinal" ->
                      archived' = IF archived[d][h.read.version] = Absent THEN archived
                                  ELSE [archived EXCEPT ![d][h.read.version].status = "FINAL"]
                [] OTHER -> ArchiveRow(d, documents[d].version, Status(d), CurrentText(d))
           /\ Advance(r, h)
    /\ UNCHANGED <<documents, content, upstream, texts, overlaps, aborts>>

\* markDependentsOutdated: for each document downstream, in order, read its
\* reasons and write them back with one more.
NextToTell(S) ==
    CHOOSE d \in S : \E i \in 1..7 :
        DocumentTypes[i] = d /\ \A j \in 1..(i - 1) : DocumentTypes[j] \notin S

\* The telling goes on, or was the last.
Tell(r, h) ==
    IF h.untold = {} THEN Advance(r, h) ELSE request' = [request EXCEPT ![r] = h]

TellNobody(r) ==
    /\ At(r, "tell") /\ request[r].untold = {}
    /\ Advance(r, request[r])
    /\ UNCHANGED <<documents, content, archived, upstream, texts, overlaps, aborts>>

ReadDependent(r) ==
    /\ At(r, "tell") /\ request[r].untold # {} /\ request[r].reasons = Unread
    /\ LET h == request[r]
           e == NextToTell(h.untold)
       IN  IF Exists(e)
           THEN request' = [request EXCEPT ![r].reasons = documents[e].outdated \cup {h.doc}]
           ELSE Tell(r, [h EXCEPT !.untold = @ \ {e}])
    /\ UNCHANGED <<documents, content, archived, upstream, texts, overlaps, aborts>>

TouchDependent(r) ==
    /\ At(r, "tell") /\ request[r].untold # {} /\ request[r].reasons # Unread
    /\ LET h == request[r]
           e == NextToTell(h.untold)
       IN  /\ documents' = [documents EXCEPT ![e] = Touched(@, h.reasons)]
           /\ Tell(r, [h EXCEPT !.untold = @ \ {e}, !.reasons = Unread])
    /\ UNCHANGED <<content, archived, upstream, texts, overlaps, aborts>>

\* The process dies, or an operation fails, and the rest is never done.
Abort(r) ==
    /\ request[r] # Idle
    /\ aborts < MaxAborts /\ overlaps + aborts < MaxDisturbances
    /\ aborts' = aborts + 1
    /\ Done(r)
    /\ UNCHANGED <<documents, content, archived, upstream, texts, overlaps>>

-----------------------------------------------------------------------------
(* The baseline, the stack and the estimate, as the engine sees them *)

SupersedeUpstream(k) ==
    /\ upstream[k].version < MaxUpstream
    /\ upstream' = [upstream EXCEPT ![k] = [version |-> @.version + 1, state |-> "current"]]
    /\ UNCHANGED <<documents, content, archived, request, texts, overlaps, aborts>>

\* An approved baseline goes out of date and keeps its version; a stack is
\* unlocked or an estimate reopened.
InvalidateUpstream(k) ==
    /\ upstream[k].state = "current"
    /\ upstream' = [upstream EXCEPT ![k].state =
          IF k = "REQUIREMENT_BASELINE" THEN "stale" ELSE "withdrawn"]
    /\ UNCHANGED <<documents, content, archived, request, texts, overlaps, aborts>>

-----------------------------------------------------------------------------

Ask(r) ==
    /\ Free(r)
    /\ \E d \in Doc :
        \/ Generate(r, d) \/ EditInPlace(r, d) \/ ExcludeRequirement(r, d)
        \/ AddAssumptionCandidates(r, d) \/ Regenerate(r, d)
        \/ Restore(r, d) \/ Validate(r, d) \/ AcknowledgeFinding(r, d) \/ Approve(r, d)
        \/ MarkFinal(r, d) \/ Reopen(r, d) \/ Revise(r, d)

Handle(r) ==
    \/ CreateRecord(r) \/ ChangeContent(r) \/ ReadContent(r) \/ PlanVersion(r) \/ ReadLive(r)
    \/ ArchivePrevious(r) \/ Commit(r) \/ CommitExclusion(r) \/ WriteContent(r)
    \/ RecordVersion(r) \/ TellNobody(r) \/ ReadDependent(r) \/ TouchDependent(r)

Next ==
    \/ \E r \in Request : Ask(r) \/ Handle(r) \/ Abort(r)
    \/ \E k \in Kind : SupersedeUpstream(k) \/ InvalidateUpstream(k)

Spec == Init /\ [][Next]_vars

-----------------------------------------------------------------------------
(* Properties *)

Busy(d) == \E r \in Request : request[r] # Idle /\ request[r].doc = d
Alone == overlaps = 0 /\ aborts = 0

\* One request at a time: what is approved or issued is what was validated, to
\* the word. Suggested assumptions are added after it. (a validation is kept in
\* the record, the words elsewhere, and every change has to drop it)
ApprovedAsValidated ==
    Alone => \A d \in Doc \ {"ASSUMPTIONS"} :
        Exists(d) /\ IsAuthoritative(Status(d)) /\ ~Busy(d) =>
            /\ documents[d].validation # NoValidation
            /\ documents[d].validation.version = documents[d].version
            /\ documents[d].validation.text = CurrentText(d)

\* One request at a time: a version that was approved keeps its words in the
\* history, and stays approved or is issued. (archive overwrites the row of the
\* version; reopen and every edit must have cut a new one first)
HistoryStep ==
    Alone => \A d \in Doc \ {"ASSUMPTIONS"} : \A v \in Version :
        archived[d][v] # Absent /\ IsAuthoritative(archived[d][v].status) =>
            /\ archived'[d][v].text = archived[d][v].text
            /\ archived'[d][v].status \in {archived[d][v].status, "FINAL"}
HistoryStands == [][HistoryStep]_vars

\* Unless a handler was cut short: once a reopened document's dependents were
\* told, none of them is approved and current. (the update of the record and of
\* each dependent are separate, and each races with approvals and generations)
WithdrawnIsTold ==
    aborts = 0 => \A p \in Doc :
        Exists(p) /\ Status(p) = "NEEDS_REVISION" /\ ~Busy(p) =>
            \A d \in DownstreamDocuments(p) \cap Doc : ~Authoritative(d)

\* Whatever happened since the handler read it, a document is approved or issued
\* only if it then has no reason to be out of date that it was told, and is
\* approved only on a validation of its version. (the checks precede the update
\* by several operations; the recordVersion has to make up for that)
ApprovalStep ==
    \A d \in Doc :
        Exists(d) /\ IsAuthoritative(documents'[d].status) /\ documents'[d].status # Status(d) =>
            /\ documents[d].outdated = {}
            /\ documents'[d].status = "APPROVED" => ValidationPermits(documents[d])
ApprovedOnCheckedRecord == [][ApprovalStep]_vars

-----------------------------------------------------------------------------
(* What the documentation says, and the code does not do *)

\* One request at a time: a document that is approved and current rests on
\* prerequisites that are. (docs/architecture/documents.md:67: a prerequisite that
\* changes is recorded on every document downstream of it when it happens; but
\* generate, restore and regenerateRows tell nobody)
CurrentRestsOnCurrent ==
    Alone /\ (\A r \in Request : request[r] = Idle) =>
        \A d \in Doc : Authoritative(d) => \A p \in Prerequisites(d) : Authoritative(p)

=============================================================================
