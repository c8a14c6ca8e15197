----------------------------- MODULE Readiness ------------------------------
(***************************************************************************)
(* What a baseline may say of itself: how much of the documents was read,  *)
(* how well its requirements are evidenced, how complete it is, and what   *)
(* keeps it from being approved. Ratios and scores are in thousandths.     *)
(*                                                                         *)
(* A requirement is a record of what it cites and whether it is in the     *)
(* baseline; a citation is of a document or of a clarification, and says   *)
(* whether the document is the project's, whether the block was found,     *)
(* whether the quotation is verbatim, partial or absent, and whether it    *)
(* has a location. What is found has further marks, set on the block.      *)
(***************************************************************************)
EXTENDS Integers, FiniteSets, Sequences, FiniteSetsExt

Within(low, high, n) == Max({low, Min({high, n})})
Ratio(part, total) ==
    IF total = 0 THEN 0 ELSE Within(0, 1000, (2000 * part + total) \div (2 * total))

-----------------------------------------------------------------------------
(* calculateCoverage: dispositions by <<document, block>>, blocks counted by document *)

Coverage(dispositions, blockCount) ==
    LET with(d) == {k \in DOMAIN dispositions : dispositions[k] = d}
        total == MapThenSumSet(LAMBDA s : blockCount[s], DOMAIN blockCount)
        unrecorded == Max({0, total - Cardinality(DOMAIN dispositions)})
        notAnalysed == Cardinality(with("not_analysed")) + unrecorded
        accounted(s) == Cardinality({k \in DOMAIN dispositions \ with("not_analysed") : k[1] = s})
    IN  [total |-> total, covered |-> Cardinality(with("covered")), notAnalysed |-> notAnalysed,
         ratio |-> Ratio(total - notAnalysed, total),
         bySource |-> [s \in DOMAIN blockCount |-> Ratio(accounted(s), blockCount[s])]]

-----------------------------------------------------------------------------
(* calculateEvidenceConfidence *)

Documents(references) == {r \in references : r.kind = "document"}
Answers(references) == references \ Documents(references)
FoundBlocks(references) == {r \in Documents(references) : r.found}

\* No document cited is where it is said to be, and no answer is cited either.
HasUnknownSource(references) ==
    /\ Documents(references) # {} /\ FoundBlocks(references) = {} /\ Answers(references) = {}
AllSourcesReviewed(references) ==
    /\ FoundBlocks(references) \cup Answers(references) # {}
    /\ \A r \in FoundBlocks(references) : r.reviewed

\* The rules that apply, by what they weigh.
Signals(references, human, conflict, ambiguity) ==
    LET verified == {r \in references : r.support = "verbatim"}
        partial == {r \in FoundBlocks(references) : r.support = "partial"}
        ocr == \E r \in FoundBlocks(references) : r.ocr
        unsure == \E r \in FoundBlocks(references) : r.lowConfidence
        sources == {r.source : r \in FoundBlocks(references) \cup Answers(references)}
        when(applies, weight, signal) == IF applies THEN {<<signal, weight>>} ELSE {}
    IN  when(TRUE, 250, "has_source_reference")
        \cup when(verified # {}, 300, "verbatim_support")
        \cup when(verified = {} /\ partial # {}, 120, "partial_support")
        \cup when(\E r \in Documents(references) : r.located, 120, "precise_location")
        \cup when(Cardinality(sources) > 1, 100, "multiple_sources")
        \cup when(AllSourcesReviewed(references), 100, "reviewed_content")
        \cup when(~ocr /\ ~unsure, 80, "high_extraction_confidence")
        \cup when(Answers(references) # {}, 150, "confirmed_clarification")
        \cup when(human, 150, "human_accepted")
        \cup when(verified = {} /\ partial = {}, -200, "unverified_excerpt")
        \cup when(~AllSourcesReviewed(references), -150, "unreviewed_content")
        \cup when(conflict, -150, "conflicting_evidence")
        \cup when(unsure, -100, "low_extraction_confidence")
        \cup when(ocr, -80, "ocr_sourced")
        \cup when(ambiguity, -80, "ambiguous_language")

EvidenceScore(references, human, conflict, ambiguity) ==
    IF references = {} \/ HasUnknownSource(references) THEN 0
    ELSE Within(0, 1000, MapThenSumSet(LAMBDA s : s[2], Signals(references, human, conflict, ambiguity)))

BandFor(score) ==
    IF score >= 750 THEN "high" ELSE IF score >= 500 THEN "medium"
    ELSE IF score >= 250 THEN "low" ELSE "unsupported"

-----------------------------------------------------------------------------
(* calculateAlignment and calculateBlockers. A review is the items in the baseline, each with *)
(* its references and score, the blocks not analysed, and the findings and questions. *)

BlockingConflictStatuses == {"open", "still_conflicting", "needs_review"}
IsBlockingConflict(conflict) ==
    conflict.severity = "blocking" /\ conflict.status \in BlockingConflictStatuses
BlocksBaselineApproval(question) ==
    question.blocksApproval /\ question.status \notin {"INTEGRATED", "DISMISSED"}
Verified(item) == \E r \in item.references : r.support = "verbatim"

IncompleteReasons(review) ==
    LET If(p, reason) == IF p THEN {reason} ELSE {}
    IN  If(review.items = <<>>, "no_requirements")
        \cup If(review.notAnalysed > 0, "not_analysed")
        \cup If(\E i \in DOMAIN review.items : ~Verified(review.items[i]), "not_verified")
        \cup If(\E c \in review.conflicts : IsBlockingConflict(c), "blocking_conflict")
        \cup If(\E q \in review.questions : BlocksBaselineApproval(q), "open_question")

IncompleteAlignmentCap == 850
Capped(weighted, reasons) ==
    Within(0, 1000, IF reasons = {} THEN weighted ELSE Min({weighted, IncompleteAlignmentCap}))

Alignment(review) ==
    LET items == review.items
        share(S, settled(_)) ==
            IF S = {} THEN 1000 ELSE Ratio(Cardinality({x \in S : settled(x)}), Cardinality(S))
        findings == review.conflicts \cup review.duplicates \cup review.ambiguities \cup review.gaps
        traceability == Ratio(Cardinality({i \in DOMAIN items : Verified(items[i])}), Len(items))
        evidence == IF items = <<>> THEN 0
                    ELSE MapThenSumSet(LAMBDA i : items[i].score, DOMAIN items) \div Len(items)
        findingResolution == share(findings, LAMBDA f :
            f.status \notin IF f.kind = "conflict" THEN BlockingConflictStatuses ELSE {"open"})
        questionResolution == share(review.questions, LAMBDA q : q.status \in {"INTEGRATED", "DISMISSED"})
        weighted == (35 * traceability + 35 * evidence + 20 * findingResolution
                       + 10 * questionResolution) \div 100
    IN  [overall |-> Capped(weighted, IncompleteReasons(review)),
         isComplete |-> IncompleteReasons(review) = {}]

\* An empty baseline is told so and nothing else.
ApprovalBlockers(review) ==
    LET If(p, kind) == IF p THEN {kind} ELSE {}
        some(P(_)) == \E i \in DOMAIN review.items : P(review.items[i])
    IN  IF review.items = <<>> THEN {"empty_baseline"}
        ELSE If(some(LAMBDA x : x.references = {}), "untraceable_requirement")
        \cup If(some(LAMBDA x : \E r \in x.references : ~r.known), "hallucinated_reference")
        \cup If(some(LAMBDA x : BandFor(x.score) = "unsupported" /\ x.references # {}),
                "unsupported_requirement")
        \cup If(\E c \in review.conflicts : IsBlockingConflict(c), "blocking_conflict")
        \cup If(\E q \in review.questions : BlocksBaselineApproval(q), "unanswered_clarification")
        \cup If(\E d \in review.duplicates : d.status = "open", "open_duplicate")
        \cup If(\E g \in review.gaps : g.status = "open" /\ g.blocksImplementation, "blocking_gap")
        \cup If(review.notAnalysed > 0, "unanalysed_content")
=============================================================================
