------------------------------ MODULE DocumentAi ------------------------------
(***************************************************************************)
(* DocumentsAiService over one document: each request makes a run record,  *)
(* composes from the upstream it reads, lets a model write for minutes,    *)
(* and then hands the result to the document engine, which accepts or      *)
(* refuses it. A correction is a record around such a request.             *)
(*                                                                         *)
(* The engine's operations are one step each here (DocumentEngine has      *)
(* their steps), and what the model writes is not looked at: only whether  *)
(* it answered. The approved baseline stands for all that is upstream.     *)
(***************************************************************************)
EXTENDS Naturals, Sequences, Corrections

CONSTANTS
    Caller,         \* slots for requests in progress
    Nothing,        \* no document, no request
    MaxRuns, MaxCorrections, MaxBaselines, MaxWrites, MaxFaults  \* bounds

Operation == {"generate", "section", "features", "rows", "suggest"}
RunStatus == {"RUNNING", "COMPLETED", "FAILED"}
Stages == {"open", "check", "create", "write", "engine", "finish", "close", "notApplied"}

\* What of the record and its words the service depends on.
Document ==
    [status : {"DRAFT", "APPROVED", "FINAL"},
     recordVersion : Nat,
     written : Nat,         \* the baseline its words were composed from
     stamped : Nat,         \* the baseline version in its record
     protected : BOOLEAN]   \* a person has written in it

\* A request: the steps it still has to take, and what it has in its memory.
Call ==
    [op : Operation, steps : Seq(Stages), expected : Nat, composed : Nat,
     run : Nat, correction : Nat, protected : BOOLEAN, effect : Effect]

VARIABLES
    document,
    baseline,       \* version of the approved baseline
    unlocked,       \* whether the prerequisites of the document are approved
    runs,           \* the status of each run record
    calls,          \* calls[c]: its Call, or Nothing
    faults

vars == <<shape, document, baseline, unlocked, runs, corrections, calls, faults>>

Init ==
    /\ shape \in {"sections", "features", "rows"}
    /\ document = Nothing /\ baseline = 1 /\ unlocked = TRUE
    /\ runs = <<>> /\ corrections = <<>>
    /\ calls = [c \in Caller |-> Nothing]
    /\ faults = 0

Exists == document # Nothing
At(c, step) == calls[c] # Nothing /\ Head(calls[c].steps) = step
Return(c) == calls' = [calls EXCEPT ![c] = Nothing]
Advance(c, request) ==
    calls' = [calls EXCEPT ![c] =
        IF Tail(request.steps) = <<>> THEN Nothing ELSE [request EXCEPT !.steps = Tail(@)]]

\* The request throws; a correction's catch closes its record first.
Throw(c) ==
    IF calls[c].correction = 0 THEN Return(c)
    ELSE calls' = [calls EXCEPT ![c].steps = <<"notApplied">>]

-----------------------------------------------------------------------------
(* The requests *)

\* Only generate asks whether a run is active, and a section's run is over before
\* the engine is asked.
Steps(op) ==
    CASE op = "generate" -> <<"check", "create", "write", "engine", "finish">>
      [] op = "section" -> <<"create", "write", "finish", "engine">>
      [] OTHER -> <<"create", "write", "engine", "finish">>

\* expected is the recordVersion the caller last saw.
Begin(c, op, steps, expected) ==
    /\ calls[c] = Nothing
    /\ calls' = [calls EXCEPT ![c] =
          [op |-> op, steps |-> steps, expected |-> expected, composed |-> 0, run |-> 0,
           correction |-> 0, protected |-> FALSE, effect |-> "none"]]
    /\ UNCHANGED <<shape, document, baseline, unlocked, runs, corrections, faults>>

Seen == IF Exists THEN 0..document.recordVersion ELSE {0}

Generate(c) == \E v \in Seen : Begin(c, "generate", Steps("generate"), v)
RegenerateSection(c) ==
    Exists /\ shape = "sections" /\ \E v \in Seen : Begin(c, "section", Steps("section"), v)
RegenerateFeatures(c) == \E v \in Seen : Begin(c, "features", Steps("features"), v)
RegenerateRows(c) == \E v \in Seen : Begin(c, "rows", Steps("rows"), v)
SuggestAssumptions(c) ==
    shape = "rows" /\ \E v \in Seen : Begin(c, "suggest", Steps("suggest"), v)

ApplyCorrection(c) ==
    /\ Exists /\ Len(corrections) < MaxCorrections
    /\ \E op \in {"generate", "section", "features"}, v \in Seen :
          /\ op = "section" => shape = "sections"
          /\ Begin(c, op, <<"open">> \o Steps(op) \o <<"close">>, v)

-----------------------------------------------------------------------------
(* Their steps *)

\* openCorrection, recorded before it is carried out; currentSections follows.
OpenCorrection(c) ==
    /\ At(c, "open") /\ Len(corrections) < MaxCorrections
    /\ corrections' = Append(corrections, [outcome |-> "NOT_APPLIED", effect |-> "none"])
    /\ Advance(c, [calls[c] EXCEPT !.correction = Len(corrections) + 1,
                                   !.protected = document.protected])
    /\ UNCHANGED <<shape, document, baseline, unlocked, runs, faults>>

\* activeRun
CheckActiveRun(c) ==
    /\ At(c, "check")
    /\ IF \E i \in DOMAIN runs : runs[i] = "RUNNING" THEN Throw(c) ELSE Advance(c, calls[c])
    /\ UNCHANGED <<shape, document, baseline, unlocked, runs, corrections, faults>>

\* readUpstream and compose, then createRun.
CreateRun(c) ==
    /\ At(c, "create") /\ Len(runs) < MaxRuns
    /\ runs' = Append(runs, "RUNNING")
    /\ Advance(c, [calls[c] EXCEPT !.composed = baseline, !.run = Len(runs) + 1])
    /\ UNCHANGED <<shape, document, baseline, unlocked, corrections, faults>>

\* The model answers, or the composition stands; a suggestion has nothing to fall
\* back to.
Write(c) ==
    /\ At(c, "write")
    /\ \/ Advance(c, calls[c]) /\ UNCHANGED runs
       \/ /\ calls[c].op = "suggest"
          /\ runs' = [runs EXCEPT ![calls[c].run] = "FAILED"]
          /\ Return(c)
    /\ UNCHANGED <<shape, document, baseline, unlocked, corrections, faults>>

HasShape(op) ==
    CASE op = "features" -> shape = "features"
      [] op = "rows" -> shape = "rows"
      [] OTHER -> TRUE

AcceptsAnyVersion(request) == \* faulty: expectedVersion is not compared
    /\ unlocked /\ HasShape(request.op)
    /\ IF Exists THEN document.status # "FINAL" ELSE request.op = "generate"

\* assertUnlocked, and what generate and editableDocument ask of the record.
Accepts(request) ==
    /\ unlocked /\ HasShape(request.op)
    /\ IF Exists
       THEN document.recordVersion = request.expected /\ document.status # "FINAL"
       ELSE request.op = "generate"

\* The engine reads upstream again, and stamps the record with what it then finds.
Generated(request) ==
    [status |-> "DRAFT",
     recordVersion |-> IF Exists THEN document.recordVersion + 1 ELSE 0,
     written |-> request.composed, stamped |-> baseline,
     protected |-> Exists /\ document.protected]

Rewritten ==
    [document EXCEPT !.status = "DRAFT", !.recordVersion = @ + 1]

\* What a person wrote stays and has the new words beside it.
EffectOf(request) == IF Exists /\ document.protected THEN "proposed" ELSE "replaced"

\* The engine takes the result, or throws.
AskEngine(c) ==
    /\ At(c, "engine")
    /\ LET request == calls[c]
       IN  IF ~Accepts(request)
           THEN Throw(c) /\ UNCHANGED <<document, corrections>>
           ELSE /\ document' = CASE request.op = "generate" -> Generated(request)
                                 [] request.op = "suggest" -> document
                                 [] OTHER -> Rewritten
                /\ corrections' = IF request.correction = 0 THEN corrections
                     ELSE [corrections EXCEPT ![request.correction].effect = EffectOf(request)]
                /\ Advance(c, [request EXCEPT !.effect = EffectOf(request)])
    /\ UNCHANGED <<shape, baseline, unlocked, runs, faults>>

\* finishRun
FinishRun(c) ==
    /\ At(c, "finish")
    /\ runs' = [runs EXCEPT ![calls[c].run] = "COMPLETED"]
    /\ Advance(c, calls[c])
    /\ UNCHANGED <<shape, document, baseline, unlocked, corrections, faults>>

\* A section's outcome is told from its origin before the run, that of features from
\* what the engine returned, and that of a whole document from its sections.
CloseCorrection(c) ==
    /\ At(c, "close")
    /\ LET request == calls[c]
           proposed == CASE request.op = "section" -> request.protected
                         [] request.op = "features" -> request.effect = "proposed"
                         [] OTHER -> request.effect = "proposed" /\ shape = "sections"
       IN  corrections' = [corrections EXCEPT ![request.correction].outcome =
               IF proposed THEN "PROPOSED" ELSE "APPLIED"]
    /\ Return(c)
    /\ UNCHANGED <<shape, document, baseline, unlocked, runs, faults>>

RejectCorrection(c) ==
    /\ At(c, "notApplied")
    /\ corrections' = [corrections EXCEPT ![calls[c].correction].outcome = "NOT_APPLIED"]
    /\ Return(c)
    /\ UNCHANGED <<shape, document, baseline, unlocked, runs, faults>>

\* An operation throws, in the database or in the runner.
Stumble(c) ==
    /\ calls[c] # Nothing /\ ~At(c, "notApplied")
    /\ faults < MaxFaults /\ faults' = faults + 1
    /\ Throw(c)
    /\ UNCHANGED <<shape, document, baseline, unlocked, runs, corrections>>

\* The process dies with its requests.
Crash ==
    /\ faults < MaxFaults /\ faults' = faults + 1
    /\ calls' = [c \in Caller |-> Nothing]
    /\ UNCHANGED <<shape, document, baseline, unlocked, runs, corrections>>

-----------------------------------------------------------------------------
(* What others do meanwhile *)

Writable == Exists /\ document.recordVersion < MaxWrites

EditByHand ==
    /\ Writable /\ unlocked /\ document.status # "FINAL"
    /\ document' = [Rewritten EXCEPT !.protected = TRUE]
    /\ UNCHANGED <<shape, baseline, unlocked, runs, corrections, calls, faults>>

\* approve and markFinal, of a document that is not out of date.
Settle ==
    /\ Writable /\ unlocked /\ document.stamped = baseline
    /\ \/ document.status = "DRAFT"
          /\ document' = [document EXCEPT !.status = "APPROVED", !.recordVersion = @ + 1]
       \/ document.status = "APPROVED"
          /\ document' = [document EXCEPT !.status = "FINAL", !.recordVersion = @ + 1]
    /\ UNCHANGED <<shape, baseline, unlocked, runs, corrections, calls, faults>>

\* revise copies the words as a person's, and states today's baseline on purpose.
Revise ==
    /\ Writable /\ document.status = "FINAL"
    /\ document' = [document EXCEPT !.status = "DRAFT", !.recordVersion = @ + 1,
                       !.written = baseline, !.stamped = baseline, !.protected = TRUE]
    /\ UNCHANGED <<shape, baseline, unlocked, runs, corrections, calls, faults>>

ApproveBaseline ==
    /\ baseline < MaxBaselines /\ baseline' = baseline + 1
    /\ UNCHANGED <<shape, document, unlocked, runs, corrections, calls, faults>>

\* A prerequisite is reopened, or approved again.
ChangeLock ==
    /\ unlocked' = ~unlocked
    /\ UNCHANGED <<shape, document, baseline, runs, corrections, calls, faults>>

-----------------------------------------------------------------------------
Ask(c) ==
    \/ Generate(c) \/ RegenerateSection(c) \/ RegenerateFeatures(c) \/ RegenerateRows(c)
    \/ SuggestAssumptions(c) \/ ApplyCorrection(c)

Handle(c) ==
    \/ OpenCorrection(c) \/ CheckActiveRun(c) \/ CreateRun(c) \/ Write(c) \/ AskEngine(c)
    \/ FinishRun(c) \/ CloseCorrection(c) \/ RejectCorrection(c)

Next ==
    \/ \E c \in Caller : Ask(c) \/ Handle(c) \/ Stumble(c)
    \/ Crash \/ EditByHand \/ Settle \/ Revise \/ ApproveBaseline \/ ChangeLock

Spec == Init /\ [][Next]_vars

\* Every await of a request resolves or rejects. Nothing is assumed of people.
FairSpec == Spec /\ \A c \in Caller : WF_vars(Handle(c))

-----------------------------------------------------------------------------
(* What the documentation says, and the code does not do *)

\* While nothing fails: a run that has begun ends, so that the next generation is
\* not refused. ("Nothing was changed, and you can try again",
\* packages/contracts/src/documents/document-errors.ts:87; a refusal by the engine
\* leaves the run RUNNING)
EveryGenerationEnds ==
    \A i \in 1..MaxRuns :
        (i \in DOMAIN runs) ~> (faults > 0 \/ (i \in DOMAIN runs /\ runs[i] # "RUNNING"))

\* The versions in a document's record are those "a document was written against"
\* (docs/architecture/documents.md:57), by which it is told whether it is out of
\* date; but the words are composed from an earlier read.
StampedAsWritten == Exists => document.written = document.stamped

===============================================================================
