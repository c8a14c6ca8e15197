--------------------------- MODULE Clarifications ---------------------------
(***************************************************************************)
(* A conflict between requirements, the question raised about it, and the  *)
(* folding of a confirmed answer into the requirements. Confirming starts  *)
(* an integration that asks the model, rewrites the requirements nobody    *)
(* has decided about, proposes a rewriting of the others, records the      *)
(* outcome on the question and re-evaluates the conflict. Reviewers edit,  *)
(* answer again, decide and dismiss meanwhile.                             *)
(*                                                                         *)
(* Every record has a version; a conditional update is lost when the       *)
(* version has moved on.                                                   *)
(***************************************************************************)
EXTENDS Naturals, Sequences, FiniteSets

CONSTANTS
    Clients,
    Items,         \* the requirements in conflict, all linked to the question
    MaxAnswers,    \* bound: answers given
    MaxVersion,    \* bound: decisions about one requirement
    MaxRequests    \* bound: the question's version up to which it is answered, confirmed, dismissed

ASSUME ClarificationAssumption ==
    /\ Items # {} /\ IsFiniteSet(Items) /\ MaxAnswers \in Nat
    /\ MaxVersion \in Nat /\ MaxRequests \in Nat

VARIABLES
    item,      \* per requirement, the record
    question,  \* the question's record
    conflict,  \* the conflict's record
    baseline,  \* status of the current baseline, whose requirements these are
    asking       \* per client, the request it is in

questionVars == <<item, question, conflict, baseline, asking>>

QuestionStatus == {"UNANSWERED", "ANSWERED", "INTEGRATING", "INTEGRATED", "NEEDS_REVIEW", "FAILED",
                   "DISMISSED"}
Settled == {"INTEGRATED", "DISMISSED"}
ConflictStatus == {"open", "resolved_by_clarification", "still_conflicting", "needs_review",
                   "resolved", "dismissed", "accepted_risk"}
HumanSettled == {"resolved", "dismissed", "accepted_risk"}
BlockingConflict == {"open", "still_conflicting", "needs_review"}

\* words: who wrote the statement; cites: the answer cited, 0 if none; proposal: whether a
\* rewriting awaits a decision.
Item == [status : {"draft", "accepted", "edited", "rejected"}, words : {"model", "person", "answer"},
         editedByUser : BOOLEAN, cites : 0 .. MaxAnswers, proposal : BOOLEAN,
         needsRevalidation : BOOLEAN, version : Nat]
Answer == [isAssumption : BOOLEAN, confirmed : BOOLEAN, affected : SUBSET Items]
Question == [status : QuestionStatus, answers : Seq(Answer), version : Nat]
Conflict == [status : ConflictStatus, version : Nat]

AskingStages == {"idle", "flag", "assume", "integrate", "write", "latest", "record",
           "conflicts", "settle", "proposals", "sweep", "outdate", "choose"}
\* answer: the one confirmed; read: the requirements as loaded; todo: those still to write;
\* applied, proposed: the impacts reported; outcome: the resulting status; version: of a record
\* read; agreed: the model's opinion of the conflict.
Asking == [at : AskingStages, answer : 0 .. MaxAnswers, read : [Items -> 0 .. MaxVersion + MaxAnswers],
         protected : SUBSET Items, todo : SUBSET Items, applied : SUBSET Items,
         proposed : SUBSET Items, outcome : QuestionStatus, version : Nat, status : ConflictStatus,
         flagged : SUBSET Items]
AtRest == [at |-> "idle", answer |-> 0, read |-> [i \in Items |-> 0], protected |-> {}, todo |-> {},
         applied |-> {}, proposed |-> {}, outcome |-> "UNANSWERED", version |-> 0,
         status |-> "open", flagged |-> {}]

Doing(c, stage) == asking[c].at = stage
Become(c, p) == asking' = [asking EXCEPT ![c] = p]
Proceed(c, stage) == asking' = [asking EXCEPT ![c].at = stage]

\* The answer that is not superseded is the last.
LastAnswer == Len(question.answers)

-----------------------------------------------------------------------------
(* Conditional updates *)

UpdateItemAnyVersion(i, version, record) == \* faulty: the version is not compared
    item' = [item EXCEPT ![i] = [record EXCEPT !.version = item[i].version + 1]]
UpdateItem(i, version, record) ==
    item' = IF item[i].version = version
            THEN [item EXCEPT ![i] = [record EXCEPT !.version = version + 1]] ELSE item

UpdateQuestion(version, record) ==
    question' = IF question.version = version
                THEN [record EXCEPT !.version = version + 1] ELSE question

UpdateConflict(version, status) ==
    conflict' = IF conflict.version = version
                THEN [status |-> status, version |-> version + 1] ELSE conflict

-----------------------------------------------------------------------------
QuestionInit ==
    /\ item = [i \in Items |-> [status |-> "draft", words |-> "model", editedByUser |-> FALSE,
                                cites |-> 0, proposal |-> FALSE, needsRevalidation |-> FALSE,
                                version |-> 0]]
    /\ question = [status |-> "UNANSWERED", answers |-> <<>>, version |-> 0]
    /\ conflict = [status |-> "open", version |-> 0]
    /\ baseline = "draft"
    /\ asking = [c \in Clients |-> AtRest]

(* Requirements *)

\* editRequirement: new wording, or a status.
EditRequirement(c, i) ==
    /\ Doing(c, "idle") /\ item[i].version < MaxVersion
    /\ \/ UpdateItem(i, item[i].version,
             [item[i] EXCEPT !.words = "person", !.status = "edited", !.editedByUser = TRUE])
       \/ \E status \in {"accepted", "rejected"} :
             UpdateItem(i, item[i].version, [item[i] EXCEPT !.status = status])
    /\ UNCHANGED <<question, conflict, baseline, asking>>

(* Answering *)

\* The new answer supersedes the previous one ...
AnswerClarification(c) ==
    /\ Doing(c, "idle") /\ LastAnswer < MaxAnswers /\ question.version < MaxRequests
    /\ \E assumption \in BOOLEAN :
         UpdateQuestion(question.version,
            [question EXCEPT !.status = "ANSWERED",
                             !.answers = Append(@, [isAssumption |-> assumption,
                                                    confirmed |-> FALSE, affected |-> {}])])
    /\ IF LastAnswer > 0
       THEN Become(c, [AtRest EXCEPT !.at = "flag", !.flagged = question.answers[LastAnswer].affected])
       ELSE UNCHANGED asking
    /\ UNCHANGED <<item, conflict, baseline>>

OutdatedBaseline == IF baseline = "approved" THEN "outdated" ELSE baseline

\* ... and what that one changed is flagged (no version is taken), and the baseline outdated.
FlagPrevious(c) ==
    /\ Doing(c, "flag")
    /\ item' = [i \in Items |-> [item[i] EXCEPT !.needsRevalidation = @ \/ i \in asking[c].flagged]]
    /\ baseline' = OutdatedBaseline
    /\ Become(c, AtRest)
    /\ UNCHANGED <<question, conflict>>

DismissForgetting(c) == \* faulty: the answers go with the question
    /\ Doing(c, "idle") /\ question.status # "DISMISSED" /\ question.version < MaxRequests
    /\ UpdateQuestion(question.version, [question EXCEPT !.status = "DISMISSED", !.answers = <<>>])
    /\ UNCHANGED <<item, conflict, baseline, asking>>
\* dismissClarification
DismissClarification(c) ==
    /\ Doing(c, "idle") /\ question.status # "DISMISSED" /\ question.version < MaxRequests
    /\ UpdateQuestion(question.version, [question EXCEPT !.status = "DISMISSED"])
    /\ UNCHANGED <<item, conflict, baseline, asking>>

\* confirmClarification: the answer is confirmed, then recorded as an assumption or integrated.
ConfirmClarification(c) ==
    /\ Doing(c, "idle") /\ LastAnswer > 0 /\ question.version < MaxRequests
    /\ ~(question.status = "INTEGRATED" /\ question.answers[LastAnswer].confirmed)
    /\ UpdateQuestion(question.version,
          [question EXCEPT !.status = "INTEGRATING", !.answers[LastAnswer].confirmed = TRUE])
    /\ Become(c, [AtRest EXCEPT !.at = IF question.answers[LastAnswer].isAssumption
                                     THEN "assume" ELSE "integrate",
                              !.answer = LastAnswer, !.version = question.version + 1])
    /\ UNCHANGED <<item, conflict, baseline>>

\* An assumption becomes a requirement of its own and rewrites nothing.
RecordAssumption(c) ==
    /\ Doing(c, "assume")
    /\ UpdateQuestion(asking[c].version, [question EXCEPT !.status = "INTEGRATED"])
    /\ Become(c, AtRest)
    /\ UNCHANGED <<item, conflict, baseline>>

-----------------------------------------------------------------------------
(* Integration *)

\* protectionFor, with the requirements of an approved or outdated baseline.
Protected(i) ==
    baseline \in {"approved", "outdated"} \/ item[i].editedByUser \/ item[i].status = "accepted"

\* The requirements are loaded and the model asked. It may fail; else it rewrites some of them.
Integrate(c) ==
    /\ Doing(c, "integrate")
    /\ LET affected == {i \in Items : item[i].status # "rejected"}
           loaded == [asking[c] EXCEPT !.read = [i \in Items |-> item[i].version],
                                     !.protected = {i \in Items : Protected(i)}]
       IN  \/ Become(c, [loaded EXCEPT !.at = "latest", !.outcome = "FAILED"])
           \/ \E changed \in SUBSET affected :
                Become(c, [loaded EXCEPT !.at = IF changed = {} THEN "latest" ELSE "write",
                                         !.todo = changed, !.outcome = "INTEGRATED"])
    /\ UNCHANGED <<item, question, conflict, baseline>>

\* One requirement is rewritten, or the rewriting proposed. Whether the update took is not looked
\* at: the impact is reported all the same.
WriteItem(c, i) ==
    /\ Doing(c, "write") /\ i \in asking[c].todo
    /\ LET protect == i \in asking[c].protected
           todo == asking[c].todo \ {i}
           at == IF todo = {} THEN "latest" ELSE "write"
       IN  /\ UpdateItem(i, asking[c].read[i],
                IF protect THEN [item[i] EXCEPT !.proposal = TRUE]
                ELSE [item[i] EXCEPT !.words = "answer", !.cites = asking[c].answer,
                                     !.needsRevalidation = FALSE])
           /\ Become(c, IF protect
                        THEN [asking[c] EXCEPT !.todo = todo, !.at = at, !.proposed = @ \cup {i},
                                             !.outcome = "NEEDS_REVIEW"]
                        ELSE [asking[c] EXCEPT !.todo = todo, !.at = at, !.applied = @ \cup {i}])
    /\ UNCHANGED <<question, conflict, baseline>>

\* The question is read again ...
ReadLatest(c) ==
    /\ Doing(c, "latest")
    /\ Become(c, [asking[c] EXCEPT !.at = "record", !.version = question.version])
    /\ UNCHANGED <<item, question, conflict, baseline>>

RecordSuccessOnly(c) == \* faulty: a failed integration is not recorded
    /\ Doing(c, "record")
    /\ IF asking[c].outcome = "FAILED" THEN UNCHANGED question
       ELSE UpdateQuestion(asking[c].version, [question EXCEPT !.status = asking[c].outcome])
    /\ Proceed(c, "conflicts")
    /\ UNCHANGED <<item, conflict, baseline>>

\* ... and the outcome written to it, under the version just read.
RecordOutcome(c) ==
    /\ Doing(c, "record")
    /\ UpdateQuestion(asking[c].version,
          [question EXCEPT !.status = asking[c].outcome,
                           !.answers[asking[c].answer].affected = asking[c].applied \cup asking[c].proposed])
    /\ Proceed(c, "conflicts")
    /\ UNCHANGED <<item, conflict, baseline>>

MarkOutdatedIfApplied(c) == \* faulty: proposals are forgotten
    /\ Doing(c, "outdate")
    /\ baseline' = IF asking[c].applied = {} THEN baseline ELSE OutdatedBaseline
    /\ Become(c, AtRest)
    /\ UNCHANGED <<item, question, conflict>>
\* A baseline built before the answer no longer reflects it.
OutdateBaseline(c) ==
    /\ Doing(c, "outdate")
    /\ baseline' = IF asking[c].applied \cup asking[c].proposed = {} THEN baseline ELSE OutdatedBaseline
    /\ Become(c, AtRest)
    /\ UNCHANGED <<item, question, conflict>>

-----------------------------------------------------------------------------
(* Re-evaluation of the conflict *)

Positions == Items

\* evaluateConflictAgainstClarification, for a conflict the question is linked to.
Evaluate(confirmed, assumption, applied, proposed, agreed) ==
    IF confirmed /\ ~assumption /\ Positions \subseteq applied /\ agreed
    THEN "resolved_by_clarification"
    ELSE IF Positions \subseteq applied \cup proposed THEN "needs_review" ELSE "still_conflicting"

\* The conflict is read and the model asked; what a person settled is left alone.
ReadConflict(c) ==
    /\ Doing(c, "conflicts")
    /\ LET after == IF asking[c].outcome = "UNANSWERED" THEN "proposals" ELSE "outdate"
           answer == question.answers[asking[c].answer]
       IN  IF conflict.status \in HumanSettled
           THEN Proceed(c, after)
           ELSE \E agreed \in BOOLEAN :
                  Become(c, [asking[c] EXCEPT !.at = "settle", !.version = conflict.version,
                               !.status = Evaluate(answer.confirmed, answer.isAssumption,
                                                   asking[c].applied, asking[c].proposed, agreed)])
    /\ UNCHANGED <<item, question, conflict, baseline>>

Settle(c) ==
    /\ Doing(c, "settle")
    /\ UpdateConflict(asking[c].version, asking[c].status)
    /\ Proceed(c, IF asking[c].outcome = "UNANSWERED" THEN "proposals" ELSE "outdate")
    /\ UNCHANGED <<item, question, baseline>>

-----------------------------------------------------------------------------
(* Proposals *)

\* Accepted, with or without an edit: a person's wording, citing the answer that is current now.
AcceptProposal(c, i) ==
    /\ Doing(c, "idle") /\ item[i].proposal
    /\ UpdateItem(i, item[i].version,
          [item[i] EXCEPT !.words = "person", !.status = "edited", !.editedByUser = TRUE,
                          !.needsRevalidation = FALSE, !.proposal = FALSE, !.cites = LastAnswer])
    /\ Become(c, [AtRest EXCEPT !.at = "conflicts", !.answer = LastAnswer,
                              !.applied = {j \in Items : item'[j].cites > 0}])
    /\ UNCHANGED <<question, conflict, baseline>>

RejectProposal(c, i) ==
    /\ Doing(c, "idle") /\ item[i].proposal
    /\ UpdateItem(i, item[i].version,
          [item[i] EXCEPT !.needsRevalidation = FALSE, !.proposal = FALSE])
    /\ Proceed(c, "proposals")
    /\ UNCHANGED <<question, conflict, baseline>>

\* afterProposalDecision lists what is outstanding ...
ListProposals(c) ==
    /\ Doing(c, "proposals")
    /\ Become(c, IF \E i \in Items : item[i].proposal THEN AtRest ELSE [AtRest EXCEPT !.at = "sweep"])
    /\ UNCHANGED <<item, question, conflict, baseline>>

\* ... and closes the question when nothing is.
SweepQuestions(c) ==
    /\ Doing(c, "sweep")
    /\ question' = IF question.status = "NEEDS_REVIEW"
                   THEN [question EXCEPT !.status = "INTEGRATED", !.version = @ + 1] ELSE question
    /\ Become(c, AtRest)
    /\ UNCHANGED <<item, conflict, baseline>>

-----------------------------------------------------------------------------
(* Deciding the conflict *)

\* resolveConflict: the requirements are changed first; the primary is kept or rewritten.
ResolveConflict(c, primary) ==
    /\ Doing(c, "idle") /\ conflict.status = "open"
    /\ \A i \in Items : item[i].version < MaxVersion
    /\ \E rewrite \in BOOLEAN :
         item' = [i \in Items |->
            IF i # primary
            THEN [item[i] EXCEPT !.status = "rejected", !.editedByUser = TRUE, !.version = @ + 1]
            ELSE IF rewrite
            THEN [item[i] EXCEPT !.words = "person", !.status = "edited", !.editedByUser = TRUE,
                                 !.version = @ + 1]
            ELSE item[i]]
    /\ Become(c, [AtRest EXCEPT !.at = "choose", !.version = conflict.version])
    /\ UNCHANGED <<question, conflict, baseline>>

ResolveConflictWrite(c) ==
    /\ Doing(c, "choose")
    /\ UpdateConflict(asking[c].version, "resolved")
    /\ Become(c, AtRest)
    /\ UNCHANGED <<item, question, baseline>>

\* resolveFinding
ResolveFinding(c) ==
    /\ Doing(c, "idle") /\ conflict.status \notin HumanSettled
    /\ \E status \in HumanSettled : UpdateConflict(conflict.version, status)
    /\ UNCHANGED <<item, question, baseline, asking>>

\* approve, under the blockers of calculateBlockers this module has.
ApproveBaseline ==
    /\ baseline = "draft"
    /\ question.status \in Settled /\ conflict.status \notin BlockingConflict
    /\ \E i \in Items : item[i].status # "rejected"
    /\ baseline' = "approved"
    /\ UNCHANGED <<item, question, conflict, asking>>

-----------------------------------------------------------------------------
\* What a request does after its first write, without a person.
Continue(c) ==
    \/ FlagPrevious(c) \/ RecordAssumption(c)
    \/ Integrate(c) \/ (\E i \in Items : WriteItem(c, i)) \/ ReadLatest(c) \/ RecordOutcome(c)
    \/ OutdateBaseline(c) \/ ReadConflict(c) \/ Settle(c)
    \/ ListProposals(c) \/ SweepQuestions(c) \/ ResolveConflictWrite(c)

Request(c) ==
    \/ AnswerClarification(c) \/ ConfirmClarification(c) \/ DismissClarification(c)
    \/ \E i \in Items : \/ EditRequirement(c, i) \/ AcceptProposal(c, i)
                        \/ RejectProposal(c, i) \/ ResolveConflict(c, i)
    \/ ResolveFinding(c)

QuestionNext == ApproveBaseline \/ \E c \in Clients : Request(c) \/ Continue(c)

QuestionSpec == QuestionInit /\ [][QuestionNext]_questionVars
FairQuestionSpec == QuestionSpec /\ \A c \in Clients : WF_questionVars(Continue(c))

-----------------------------------------------------------------------------
(* Properties *)

\* Every record keeps its shape, and a versioned record's version moves with every decision.
QuestionTypeInv ==
    /\ item \in [Items -> Item] /\ question \in Question /\ conflict \in Conflict
    /\ Len(question.answers) <= MaxAnswers
    /\ baseline \in {"draft", "approved", "outdated"}
    /\ \A c \in Clients : asking[c].at \in AskingStages /\ asking[c].answer <= LastAnswer

\* An integration proposes to, and never rewrites, a requirement a person has edited or accepted,
\* and never reopens a conflict a person has settled, however the person's decision and the minutes
\* the model takes overlap.
PersonsWordsKept ==
    [][/\ \A i \in Items :
            item'[i].words = "answer" /\ item'[i] # item[i] /\ item[i].words # "answer" =>
                ~item[i].editedByUser /\ item[i].status # "accepted"
       /\ conflict.status \in HumanSettled => conflict'.status \in HumanSettled]_questionVars

\* An integration that rewrote a requirement, or proposed to, leaves no approved baseline behind,
\* even one approved while the model was working.
IntegrationOutdates ==
    [][\A c \in Clients :
          /\ asking[c].applied \cup asking[c].proposed # {} /\ asking[c].outcome # "UNANSWERED"
          /\ asking[c].at # "idle" /\ asking'[c].at = "idle"
          => baseline' # "approved"]_questionVars

\* Once everybody has finished, lost updates and answers given meanwhile included, no question is
\* left INTEGRATING, as if a model were still at work for it: only a new answer, another
\* confirmation or a dismissal would take it from there. (confirmClarification's last write)
NothingLeftIntegrating ==
    (\A c \in Clients : asking[c].at = "idle") => question.status # "INTEGRATING"

-----------------------------------------------------------------------------
(* What a comment says, and the code does not do *)

\* Claimed by CLARIFICATION_TRANSITIONS ("A new answer on a confirmed or integrated question sends
\* it back to ANSWERED: ... the new one has to be confirmed on its own account"): a question that
\* counts as integrated has a confirmed current answer.
IntegratedIsConfirmed ==
    question.status \in {"INTEGRATED", "NEEDS_REVIEW"} => question.answers[LastAnswer].confirmed
=============================================================================
