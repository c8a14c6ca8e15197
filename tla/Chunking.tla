------------------------------ MODULE Chunking ------------------------------
(***************************************************************************)
(* How the reviewed documents are cut into chunks for the model, and what  *)
(* an analysis records of every block it was given. A document is the      *)
(* sequence of its blocks, which are not blank, and a block is known by    *)
(* its place in it, which it shares with a block of every other document.  *)
(* A block is its heading flag and the sizes of the pieces it is split     *)
(* into: one for a block within the budget of a chunk.                     *)
(***************************************************************************)
EXTENDS Naturals, FiniteSets, Sequences, FiniteSetsExt, SequencesExt

\* splitBlock: each piece but the last ends past the middle of the budget, where a sentence, a
\* word or the budget itself ends.
Pieces(length, budget) ==
    LET pieces[n \in 0 .. length] ==
            IF n <= budget THEN {<<n>>}
            ELSE UNION {{<<cut>> \o rest : rest \in pieces[n - cut]} :
                          cut \in (budget \div 2 + 1) .. budget}
    IN  pieces[length]

-----------------------------------------------------------------------------
(* planChunks *)

PiecesOf(blocks) ==
    FlattenSeq([b \in DOMAIN blocks |->
        [p \in DOMAIN blocks[b].pieces |->
            [block |-> b, part |-> p, size |-> blocks[b].pieces[p], heading |-> blocks[b].heading]]])

SizeOf(contents) == MapThenSumSet(LAMBDA i : contents[i].size, DOMAIN contents)
BlocksOf(contents) == {contents[i].block : i \in DOMAIN contents}

\* A chunk is sealed when the next piece would not fit, or is of a heading.
PlanSource(blocks, budget) ==
    LET place(chunks, piece) ==
          LET current == Last(chunks)
          IN  IF current # <<>> /\ (SizeOf(current) + piece.size > budget \/ piece.heading)
              THEN Append(chunks, <<piece>>)
              ELSE Append(Front(chunks), Append(current, piece))
    IN  IF blocks = <<>> THEN <<>> ELSE FoldLeft(place, << <<>> >>, PiecesOf(blocks))

\* Of all documents, one after the other; a chunk never holds pieces of two.
AllChunks(documents, budget) ==
    FlattenSeq([s \in DOMAIN documents |->
        LET planned == PlanSource(documents[s], budget)
        IN  [c \in DOMAIN planned |-> [source |-> s, contents |-> planned[c]]]])

\* Chunks past the ceiling are dropped, and their blocks named without their document.
PlanChunks(documents, budget, maxChunks) ==
    LET chunks == AllChunks(documents, budget)
    IN  [chunks |-> SubSeq(chunks, 1, Min({maxChunks, Len(chunks)})),
         unplaced |-> UNION {BlocksOf(chunks[c].contents) : c \in (maxChunks + 1) .. Len(chunks)}]

-----------------------------------------------------------------------------
(* What the pipeline and the reconciler make of the chunks *)

KeyByBlock(source, block) == <<1, block>>     \* faulty: blocks of two documents share a record
BlockKey(source, block) == <<source, block>>

AnalysedBlocks(plan, failed) ==
    UNION {{BlockKey(plan.chunks[c].source, b) : b \in BlocksOf(plan.chunks[c].contents)} :
             c \in DOMAIN plan.chunks \ failed}

\* Blocks of the chunks that failed, and those without a chunk, which are put down to the first
\* document that has a block of that name.
UnanalysedBlocks(documents, plan, failed) ==
    (UNION {{BlockKey(plan.chunks[c].source, b) : b \in BlocksOf(plan.chunks[c].contents)} :
              c \in DOMAIN plan.chunks \cap failed})
    \cup {BlockKey(Min({s \in DOMAIN documents : b \in DOMAIN documents[s]}), b) : b \in plan.unplaced}

\* The run as a whole fails when every chunk has.
AllChunksFailed(plan, failed) == DOMAIN plan.chunks \subseteq failed

\* assignDispositions: one record for every block, and what was analysed comes first. A block no
\* requirement quotes states none, whether the model said so or not.
AssignDispositions(analysed, unanalysed, quoted) ==
    [k \in analysed \cup unanalysed |->
        IF k \notin analysed THEN "not_analysed" ELSE IF k \in quoted THEN "covered" ELSE "no_requirement"]

Dispositions(documents, plan, failed, quoted) ==
    AssignDispositions(AnalysedBlocks(plan, failed), UnanalysedBlocks(documents, plan, failed), quoted)
=============================================================================
