--------------------------- MODULE DocumentAi_proofs ---------------------------
(***************************************************************************)
(* What a correction's record says was done for it is what was done, for   *)
(* any number of requests, people and versions. A section's outcome is     *)
(* told from what was read before the model wrote, and what was done is    *)
(* decided by the document as it is afterwards; the two agree because the  *)
(* engine takes the words only under the record version the request saw.   *)
(***************************************************************************)
EXTENDS DocumentAi, SequenceTheorems, TLAPS

(* The inductive invariant *)

\* No document is told from every document.
NothingIsNoDocument == Nothing \notin Document

Record == [outcome : Outcome, effect : Effect]

Types ==
    /\ shape \in {"sections", "features", "rows"}
    /\ document \in Document \cup {Nothing}
    /\ baseline \in Nat /\ unlocked \in BOOLEAN /\ faults \in Nat
    /\ runs \in Seq(RunStatus) /\ corrections \in Seq(Record)
    /\ calls \in [Caller -> Call \cup {Nothing}]

\* What is left of a request: each step once, the record opened first and closed last.
Has(s, step) == \E i \in DOMAIN s : s[i] = step
InOrder(s) ==
    /\ s \in Seq(Stages) /\ s # <<>>
    /\ \A i, j \in DOMAIN s : s[i] = s[j] => i = j
    /\ \A i \in DOMAIN s : s[i] \in {"open", "notApplied"} => i = 1
    /\ \A i \in DOMAIN s : s[i] \in {"close", "notApplied"} => i = Len(s)
    /\ Has(s, "open") => Has(s, "engine") /\ Has(s, "close")

\* The words are still what the request saw, unless the engine will refuse it.
Unchanged(request) ==
    /\ Exists /\ request.expected <= document.recordVersion
    /\ document.recordVersion = request.expected /\ request.correction # 0 =>
          document.protected = request.protected

\* What the engine did is in the record and in the request's memory.
Told(request) ==
    /\ corrections[request.correction].effect = request.effect /\ request.effect # "none"
    /\ request.op = "section" => (request.effect = "proposed" <=> request.protected)

Fits(request) ==
    /\ request \in Call /\ request.correction <= Len(corrections)
    /\ InOrder(request.steps)
    /\ request.op = "section" => shape = "sections"
    /\ Has(request.steps, "open") => request.correction = 0
    /\ request.correction # 0 =>
          /\ Has(request.steps, "close") \/ Has(request.steps, "notApplied")
          /\ corrections[request.correction].outcome = "NOT_APPLIED"
    /\ Has(request.steps, "close") =>
          /\ request.correction # 0 \/ Has(request.steps, "open")
          /\ IF Has(request.steps, "engine") THEN Unchanged(request) ELSE Told(request)
    /\ Has(request.steps, "notApplied") => request.correction # 0

CallsFit == \A c \in Caller : calls[c] # Nothing => Fits(calls[c])
RecordsApart ==
    \A c, d \in Caller :
        /\ calls[c] # Nothing /\ calls[d] # Nothing
        /\ calls[c].correction = calls[d].correction /\ calls[c].correction # 0
       => c = d

IInv == Types /\ CallsFit /\ RecordsApart /\ CorrectionsTellTheTruth

-----------------------------------------------------------------------------
(* Steps *)

LEMMA TailFacts ==
    ASSUME NEW s, InOrder(s)
    PROVE  /\ Head(s) \in Stages /\ Has(s, Head(s)) /\ Tail(s) \in Seq(Stages)
           /\ ~Has(Tail(s), Head(s))
           /\ \A x \in Stages : Has(Tail(s), x) <=> Has(s, x) /\ x # Head(s)
           /\ Tail(s) # <<>> => InOrder(Tail(s))
           /\ Tail(s) = <<>> => \A x \in Stages : Has(s, x) => x = Head(s)
<1> DEFINE t == Tail(s)
<1>1. /\ s \in Seq(Stages) /\ Len(s) \in Nat /\ Len(s) >= 1 /\ DOMAIN s = 1 .. Len(s)
      /\ Head(s) = s[1] /\ s[1] \in Stages
  BY DEF InOrder
<1>2. /\ t \in Seq(Stages) /\ Len(t) = Len(s) - 1 /\ DOMAIN t = 1 .. Len(t)
      /\ \A i \in DOMAIN t : t[i] = s[i + 1]
  BY <1>1
<1> HIDE DEF t
<1>3. Has(s, Head(s))
  BY <1>1 DEF Has
<1>4. \A i \in DOMAIN t : i + 1 \in DOMAIN s /\ i + 1 # 1 /\ t[i] # s[1]
  BY <1>1, <1>2 DEF InOrder
<1>5. ~Has(t, Head(s))
  BY <1>1, <1>4 DEF Has
<1>6. ASSUME NEW x \in Stages PROVE Has(t, x) <=> Has(s, x) /\ x # Head(s)
  <2>1. Has(t, x) => Has(s, x)
    BY <1>2, <1>4 DEF Has
  <2>2. ASSUME Has(s, x), x # Head(s) PROVE Has(t, x)
    <3>1. PICK i \in DOMAIN s : s[i] = x
      BY <2>2 DEF Has
    <3>2. i # 1 /\ i \in 1 .. Len(s)
      BY <1>1, <2>2, <3>1
    <3>3. i - 1 \in DOMAIN t /\ t[i - 1] = s[i]
      BY <1>1, <1>2, <3>2
    <3>4. QED  BY <3>1, <3>3 DEF Has
  <2>3. QED  BY <1>5, <2>1, <2>2
<1>7. ASSUME t # <<>> PROVE InOrder(t)
  <2>1. \A i, j \in DOMAIN t : t[i] = t[j] => i = j
    <3> SUFFICES ASSUME NEW i \in DOMAIN t, NEW j \in DOMAIN t, t[i] = t[j] PROVE i = j
      OBVIOUS
    <3>1. i + 1 \in DOMAIN s /\ j + 1 \in DOMAIN s /\ s[i + 1] = s[j + 1]
      BY <1>2, <1>4
    <3>2. i + 1 = j + 1 /\ i \in Nat /\ j \in Nat
      BY <1>2, <3>1 DEF InOrder
    <3>3. QED  BY <3>2
  <2>2. \A i \in DOMAIN t : t[i] \notin {"open", "notApplied"}
    BY <1>2, <1>4 DEF InOrder
  <2>3. \A i \in DOMAIN t : t[i] = "close" => i = Len(t)
    <3> SUFFICES ASSUME NEW i \in DOMAIN t, t[i] = "close" PROVE i = Len(t)
      OBVIOUS
    <3>1. i + 1 \in DOMAIN s /\ s[i + 1] = "close" /\ i \in Nat
      BY <1>2, <1>4
    <3>2. i + 1 = Len(s)
      BY <3>1 DEF InOrder
    <3>3. QED  BY <1>1, <1>2, <3>1, <3>2
  <2>4. ~Has(t, "open")
    BY <2>2 DEF Has
  <2>5. QED  BY <1>2, <1>7, <2>1, <2>2, <2>3, <2>4 DEF InOrder
<1>8. ASSUME t = <<>>, NEW x \in Stages, Has(s, x) PROVE x = Head(s)
  <2>1. Len(t) = 0
    BY <1>8
  <2>2. Len(s) \in Nat /\ Len(t) = Len(s) - 1
    BY <1>1, <1>2
  <2>3. Len(s) = 1
    BY <2>1, <2>2
  <2>4. QED  BY <1>1, <1>8, <2>3 DEF Has
<1>9. QED
  BY <1>1, <1>2, <1>3, <1>5, <1>6, <1>7, <1>8 DEF t

LEMMA StepsInOrder ==
    ASSUME NEW op \in Operation
    PROVE  /\ InOrder(Steps(op))
           /\ \A x \in {"open", "close", "notApplied"} : ~Has(Steps(op), x)
<1>1. CASE op = "generate"
  <2> DEFINE s == <<"check", "create", "write", "engine", "finish">>
  <2>1. Steps(op) = s
    BY <1>1 DEF Steps
  <2>2. s \in Seq(Stages) /\ s # <<>> /\ DOMAIN s = 1 .. 5
    BY DEF Stages
  <2>3. QED  BY <2>1, <2>2 DEF InOrder, Has
<1>2. CASE op = "section"
  <2> DEFINE s == <<"create", "write", "finish", "engine">>
  <2>1. Steps(op) = s
    BY <1>2 DEF Steps
  <2>2. s \in Seq(Stages) /\ s # <<>> /\ DOMAIN s = 1 .. 4
    BY DEF Stages
  <2>3. QED  BY <2>1, <2>2 DEF InOrder, Has
<1>3. CASE op \notin {"generate", "section"}
  <2> DEFINE s == <<"create", "write", "engine", "finish">>
  <2>1. Steps(op) = s
    BY <1>3 DEF Steps, Operation
  <2>2. s \in Seq(Stages) /\ s # <<>> /\ DOMAIN s = 1 .. 4
    BY DEF Stages
  <2>3. QED  BY <2>1, <2>2 DEF InOrder, Has
<1>4. QED  BY <1>1, <1>2, <1>3

LEMMA Around ==
    ASSUME NEW s, InOrder(s), Has(s, "engine"), \A x \in {"open", "close", "notApplied"} : ~Has(s, x),
           NEW w, w = <<"open">> \o s \o <<"close">>
    PROVE  InOrder(w) /\ Has(w, "open") /\ ~Has(w, "notApplied")
<1>1. s \in Seq(Stages) /\ Len(s) \in Nat /\ DOMAIN s = 1 .. Len(s)
  BY DEF InOrder
<1>2. /\ w \in Seq(Stages) /\ Len(w) = Len(s) + 2 /\ DOMAIN w = 1 .. Len(s) + 2
      /\ w[1] = "open" /\ w[Len(s) + 2] = "close"
      /\ \A i \in 2 .. Len(s) + 1 : w[i] = s[i - 1]
  BY <1>1 DEF Stages
<1>3. \A i \in 2 .. Len(s) + 1 : i - 1 \in DOMAIN s /\ w[i] \notin {"open", "close", "notApplied"}
  BY <1>1, <1>2 DEF Has
<1>4. \A i \in DOMAIN w : i = 1 \/ i = Len(s) + 2 \/ i \in 2 .. Len(s) + 1
  BY <1>1, <1>2
<1>5. w # <<>>
  BY <1>1, <1>2
<1>6. ASSUME NEW i \in DOMAIN w, NEW j \in DOMAIN w, w[i] = w[j] PROVE i = j
  <2>1. CASE i \in 2 .. Len(s) + 1 /\ j \in 2 .. Len(s) + 1
    <3>1. s[i - 1] = s[j - 1] /\ i - 1 \in DOMAIN s /\ j - 1 \in DOMAIN s
      BY <1>2, <1>3, <1>6, <2>1
    <3>2. i - 1 = j - 1
      BY <3>1 DEF InOrder
    <3>3. QED  BY <2>1, <3>2, <1>1
  <2>2. CASE i \notin 2 .. Len(s) + 1 \/ j \notin 2 .. Len(s) + 1
    BY <1>2, <1>3, <1>4, <1>6, <2>2
  <2>3. QED  BY <2>1, <2>2
<1>7. Has(w, "engine")
  <2>1. PICK i \in DOMAIN s : s[i] = "engine"
    BY DEF Has
  <2>2. i + 1 \in 2 .. Len(s) + 1 /\ i + 1 \in DOMAIN w /\ (i + 1) - 1 = i
    BY <1>1, <1>2
  <2>3. w[i + 1] = "engine"
    BY <1>2, <2>1, <2>2
  <2>4. QED  BY <2>2, <2>3 DEF Has
<1>8. Has(w, "open") /\ Has(w, "close") /\ ~Has(w, "notApplied")
  <2>1. 1 \in DOMAIN w /\ Len(s) + 2 \in DOMAIN w
    BY <1>1, <1>2
  <2>2. \A i \in DOMAIN w : w[i] # "notApplied"
    BY <1>2, <1>3, <1>4
  <2>3. QED  BY <1>2, <2>1, <2>2 DEF Has
<1>9. \A i \in DOMAIN w : (w[i] \in {"open", "notApplied"} => i = 1)
                       /\ (w[i] \in {"close", "notApplied"} => i = Len(w))
  BY <1>2, <1>3, <1>4
<1>10. QED
  BY <1>2, <1>5, <1>6, <1>7, <1>8, <1>9 DEF InOrder

LEMMA StepsEngine == \A op \in Operation : Has(Steps(op), "engine")
<1> SUFFICES ASSUME NEW op \in Operation PROVE Has(Steps(op), "engine")
  OBVIOUS
<1>1. CASE op = "generate"
  <2>1. Steps(op)[4] = "engine" /\ 4 \in DOMAIN Steps(op)
    BY <1>1 DEF Steps
  <2>2. QED  BY <2>1 DEF Has
<1>2. CASE op = "section"
  <2>1. Steps(op)[4] = "engine" /\ 4 \in DOMAIN Steps(op)
    BY <1>2 DEF Steps
  <2>2. QED  BY <2>1 DEF Has
<1>3. CASE op \notin {"generate", "section"}
  <2>1. Steps(op)[3] = "engine" /\ 3 \in DOMAIN Steps(op)
    BY <1>3 DEF Steps, Operation
  <2>2. QED  BY <2>1 DEF Has
<1>4. QED  BY <1>1, <1>2, <1>3

-----------------------------------------------------------------------------
(* What a step may do to those it does not serve *)

\* Words and a person's mark on them move with the record version, and a document stays.
DocumentKept ==
    Exists => /\ document' # Nothing /\ document.recordVersion <= document'.recordVersion
              /\ document'.recordVersion = document.recordVersion => document'.protected = document.protected

Owned(c) == calls[c] # Nothing /\ calls[c].correction # 0
\* Records are added, and only the request's own is changed.
RecordsKept(c) ==
    /\ corrections' \in Seq(Record) /\ Len(corrections) <= Len(corrections')
    /\ \A i \in DOMAIN corrections : corrections'[i] = corrections[i] \/ (Owned(c) /\ i = calls[c].correction)

LEMMA SameDocument == Types /\ document' = document => document' \in Document \cup {Nothing} /\ DocumentKept
<1> SUFFICES ASSUME Types, document' = document PROVE document' \in Document \cup {Nothing} /\ DocumentKept
  OBVIOUS
<1>1. Exists => document.recordVersion \in Nat
  BY DEF Exists, Types, Document
<1>2. DocumentKept
  BY <1>1 DEF DocumentKept, Exists
<1>3. QED  BY <1>2 DEF Types

LEMMA NothingWritten ==
    ASSUME Types, UNCHANGED <<document, corrections>>, NEW c \in Caller
    PROVE  DocumentKept /\ RecordsKept(c)
<1>2. DocumentKept
  BY SameDocument
<1>3. corrections \in Seq(Record) /\ Len(corrections) \in Nat
  BY DEF Types
<1>4. corrections' \in Seq(Record) /\ Len(corrections) <= Len(corrections')
  BY <1>3
<1>5. \A i \in DOMAIN corrections : corrections'[i] = corrections[i]
  OBVIOUS
<1>6. RecordsKept(c)
  BY <1>4, <1>5, Zenon DEF RecordsKept
<1>7. QED  BY <1>2, <1>6

LEMMA StillFits ==
    ASSUME Types, Types', DocumentKept, shape' = shape, NEW request, Fits(request),
           Len(corrections) <= Len(corrections'),
           request.correction # 0 => corrections'[request.correction] = corrections[request.correction]
    PROVE  Fits(request)'
<1>1. /\ request \in Call /\ request.correction \in Nat /\ request.expected \in Nat
      /\ Len(corrections) \in Nat /\ Len(corrections') \in Nat /\ request.correction <= Len(corrections')
  BY DEF Fits, Call, Types
<1>2. ASSUME Unchanged(request) PROVE Unchanged(request)'
  <2>1. Exists /\ Exists' /\ document \in Document /\ document' \in Document
    BY <1>2 DEF Unchanged, DocumentKept, Exists, Types
  <2>2. document.recordVersion \in Nat /\ document'.recordVersion \in Nat
    BY <2>1 DEF Document
  <2>3. document.recordVersion <= document'.recordVersion /\ request.expected <= document.recordVersion
    BY <1>2, <2>1 DEF Unchanged, DocumentKept
  <2>4. request.expected <= document'.recordVersion
    BY <1>1, <2>2, <2>3
  <2>5. ASSUME document'.recordVersion = request.expected, request.correction # 0
        PROVE  document'.protected = request.protected
    <3>1. document.recordVersion = request.expected /\ document'.recordVersion = document.recordVersion
      BY <1>1, <2>2, <2>3, <2>5
    <3>2. QED  BY <1>2, <2>1, <2>5, <3>1 DEF Unchanged, DocumentKept
  <2>6. QED  BY <2>1, <2>4, <2>5 DEF Unchanged
<1>3. request.correction # 0 /\ Told(request) => Told(request)'
  BY DEF Told
<1>4. Has(request.steps, "close") /\ Has(request.steps, "open") => Has(request.steps, "engine")
  BY DEF Fits, InOrder
<1>5. QED
  BY <1>1, <1>2, <1>3, <1>4 DEF Fits

\* The call a step serves goes on with a record of its own, or has none.
LEMMA Together ==
    ASSUME IInv, Types', DocumentKept, shape' = shape, NEW c \in Caller, RecordsKept(c),
           \A d \in Caller : d # c => calls'[d] = calls[d],
           calls'[c] # Nothing =>
              /\ Fits(calls[c])'
              /\ \/ calls'[c].correction = 0
                 \/ Owned(c) /\ calls'[c].correction = calls[c].correction
                 \/ calls'[c].correction > Len(corrections)
    PROVE  CallsFit' /\ RecordsApart'
<1>1. ASSUME NEW d \in Caller, d # c, calls[d] # Nothing
      PROVE  /\ Fits(calls[d]) /\ calls[d].correction \in Nat /\ calls[d].correction <= Len(corrections)
             /\ calls[d].correction # 0 =>
                   /\ corrections'[calls[d].correction] = corrections[calls[d].correction]
                   /\ Owned(c) => calls[d].correction # calls[c].correction
  <2>1. Fits(calls[d]) /\ calls[d] \in Call
    BY <1>1 DEF IInv, CallsFit, Fits
  <2>2. calls[d].correction \in Nat /\ calls[d].correction <= Len(corrections)
    BY <2>1 DEF Fits, Call
  <2>3. Owned(c) /\ calls[d].correction # 0 => calls[d].correction # calls[c].correction
    BY <1>1 DEF IInv, RecordsApart, Owned
  <2>4. calls[d].correction # 0 => calls[d].correction \in DOMAIN corrections
    BY <2>2 DEF IInv, Types
  <2>5. QED  BY <2>1, <2>2, <2>3, <2>4 DEF RecordsKept
<1>2. CallsFit'
  <2> SUFFICES ASSUME NEW d \in Caller, calls'[d] # Nothing PROVE Fits(calls[d])'
    BY DEF CallsFit
  <2>1. CASE d = c
    BY <2>1
  <2>2. CASE d # c
    <3>1. calls[d] # Nothing /\ calls'[d] = calls[d]
      BY <2>2
    <3>2. PICK request : request = calls[d]
      OBVIOUS
    <3>3. Fits(request)'
      BY <1>1, <2>2, <3>1, <3>2, StillFits DEF IInv, RecordsKept
    <3>4. QED  BY <3>1, <3>2, <3>3
  <2>3. QED  BY <2>1, <2>2
<1>3. RecordsApart'
  <2>1. ASSUME NEW d \in Caller, d # c, calls'[d] # Nothing, calls'[c] # Nothing,
               calls'[d].correction = calls'[c].correction, calls'[c].correction # 0
        PROVE  FALSE
    <3>1. calls'[d] = calls[d] /\ calls[d] # Nothing
      BY <2>1
    <3>2. calls[d].correction \in Nat /\ Len(corrections) \in Nat
      BY <1>1, <2>1, <3>1 DEF IInv, Types
    <3>3. QED  BY <1>1, <2>1, <3>1, <3>2
  <2>2. ASSUME NEW d \in Caller, NEW e \in Caller, d # c, e # c, calls'[d] # Nothing, calls'[e] # Nothing,
               calls'[d].correction = calls'[e].correction, calls'[d].correction # 0
        PROVE  d = e
    BY <2>2 DEF IInv, RecordsApart
  <2>3. QED  BY <2>1, <2>2 DEF RecordsApart
<1>4. QED  BY <1>2, <1>3
-----------------------------------------------------------------------------
(* How a request goes on *)

LEMMA Advancing ==
    ASSUME Types, NEW c \in Caller, NEW r \in Call, InOrder(r.steps), Advance(c, r)
    PROVE  /\ calls' \in [Caller -> Call \cup {Nothing}]
           /\ \A d \in Caller : d # c => calls'[d] = calls[d]
           /\ calls'[c] # Nothing =>
                 /\ Tail(r.steps) # <<>>
                 /\ calls'[c] = [r EXCEPT !.steps = Tail(r.steps)]
<1>1. Tail(r.steps) \in Seq(Stages)
  BY TailFacts
<1>2. [r EXCEPT !.steps = Tail(r.steps)] \in Call
  BY <1>1 DEF Call
<1>3. QED  BY <1>2 DEF Advance, Types

LEMMA GoesOn ==
    ASSUME Types, Types', NEW c \in Caller, NEW r \in Call, InOrder(r.steps), Advance(c, r),
           r.correction <= Len(corrections'),
           r.op = "section" => shape' = "sections",
           Head(r.steps) # "notApplied", ~Has(r.steps, "notApplied"),
           r.correction # 0 => Has(r.steps, "close") /\ corrections'[r.correction].outcome = "NOT_APPLIED",
           Has(r.steps, "close") =>
              /\ Head(r.steps) # "close" /\ r.correction # 0
              /\ IF Has(r.steps, "engine") /\ Head(r.steps) # "engine" THEN Unchanged(r)' ELSE Told(r)'
    PROVE  calls'[c] # Nothing => Fits(calls[c])'
<1> SUFFICES ASSUME calls'[c] # Nothing PROVE Fits(calls[c])'
  OBVIOUS
<1> DEFINE t == Tail(r.steps)
<1>1. PICK q : q = [r EXCEPT !.steps = t]
  OBVIOUS
<1>2. t # <<>> /\ calls'[c] = q /\ q \in Call
  <2>1. t # <<>> /\ calls'[c] = q
    BY <1>1, Advancing
  <2>2. t \in Seq(Stages)
    BY TailFacts
  <2>3. q \in Call
    BY <1>1, <2>2 DEF Call
  <2>4. QED  BY <2>1, <2>3
<1>3. /\ InOrder(t) /\ ~Has(t, Head(r.steps))
      /\ \A x \in Stages : Has(t, x) <=> Has(r.steps, x) /\ x # Head(r.steps)
  BY <1>2, TailFacts
<1>4. /\ q.steps = t /\ q.op = r.op /\ q.expected = r.expected /\ q.correction = r.correction
      /\ q.protected = r.protected /\ q.effect = r.effect
  BY <1>1, <1>2 DEF Call
<1>5. ~Has(t, "notApplied") /\ ~Has(t, "open")
  <2>1. Has(r.steps, "open") => Head(r.steps) = "open"
    BY DEF InOrder, Has
  <2>2. QED  BY <1>3, <2>1 DEF Stages
<1> HIDE DEF t
<1>6. Has(t, "close") <=> Has(r.steps, "close")
  BY <1>3 DEF Stages
<1>7. Has(t, "engine") <=> Has(r.steps, "engine") /\ Head(r.steps) # "engine"
  BY <1>3 DEF Stages
<1>8. (Unchanged(r)' => Unchanged(q)') /\ (Told(r)' => Told(q)')
  BY <1>4 DEF Unchanged, Told
<1>9. Fits(q)'
  BY <1>2, <1>3, <1>4, <1>5, <1>6, <1>7, <1>8 DEF Fits
<1>10. QED  BY <1>2, <1>9

\* A step that touches neither the record of a correction nor its words.
LEMMA Passing ==
    ASSUME IInv, Types', NEW c \in Caller, calls[c] # Nothing, NEW r \in Call, Advance(c, r),
           UNCHANGED <<shape, document, corrections>>,
           Head(calls[c].steps) \notin {"open", "engine", "close", "notApplied"},
           \A f \in {"op", "steps", "expected", "correction", "protected", "effect"} : r[f] = calls[c][f]
    PROVE  CallsFit' /\ RecordsApart'
<1> DEFINE old == calls[c]
<1>1. Types /\ Fits(old) /\ old \in Call /\ DocumentKept /\ RecordsKept(c)
  BY NothingWritten DEF IInv, CallsFit, Fits
<1>2. /\ r.op = old.op /\ r.steps = old.steps /\ r.expected = old.expected
      /\ r.correction = old.correction /\ r.protected = old.protected /\ r.effect = old.effect
  OBVIOUS
<1> HIDE DEF old
<1>3. PICK q : q = old
  OBVIOUS
<1>4. Fits(q)'
  BY <1>1, <1>3, StillFits DEF Types
<1>5. (Unchanged(q)' => Unchanged(r)') /\ (Told(q)' => Told(r)')
  BY <1>2, <1>3 DEF Unchanged, Told
<1>6. /\ r.correction <= Len(corrections') /\ InOrder(r.steps)
      /\ r.op = "section" => shape' = "sections"
      /\ Has(r.steps, "open") => r.correction = 0
      /\ r.correction # 0 =>
            /\ Has(r.steps, "close") \/ Has(r.steps, "notApplied")
            /\ corrections'[r.correction].outcome = "NOT_APPLIED"
      /\ Has(r.steps, "close") =>
            /\ r.correction # 0 \/ Has(r.steps, "open")
            /\ IF Has(r.steps, "engine") THEN Unchanged(r)' ELSE Told(r)'
      /\ Head(r.steps) \notin {"open", "engine", "close", "notApplied"}
  BY <1>2, <1>3, <1>4, <1>5 DEF Fits, old
<1>7. ~Has(r.steps, "open") /\ ~Has(r.steps, "notApplied")
  BY <1>6 DEF InOrder, Has
<1>8. calls'[c] # Nothing => Fits(calls[c])'
  BY <1>1, <1>6, <1>7, GoesOn
<1>9. /\ \A d \in Caller : d # c => calls'[d] = calls[d]
      /\ calls'[c] # Nothing => calls'[c].correction = r.correction
  <2>1. calls'[c] # Nothing => calls'[c] = [r EXCEPT !.steps = Tail(r.steps)]
    BY <1>1, <1>6, Advancing
  <2>2. [r EXCEPT !.steps = Tail(r.steps)].correction = r.correction
    BY DEF Call
  <2>3. QED  BY <1>1, <1>6, <2>1, <2>2, Advancing
<1>10. r.correction = 0 \/ (Owned(c) /\ r.correction = calls[c].correction)
  BY <1>2 DEF Owned, old
<1>11. QED
  BY <1>1, <1>8, <1>9, <1>10, Together

LEMMA Returning ==
    ASSUME IInv, Types', NEW c \in Caller, Return(c), DocumentKept, shape' = shape, RecordsKept(c)
    PROVE  CallsFit' /\ RecordsApart'
<1>1. calls'[c] = Nothing /\ \A d \in Caller : d # c => calls'[d] = calls[d]
  BY DEF Return, IInv, Types
<1>2. QED  BY <1>1, Together

LEMMA Closing == InOrder(<<"notApplied">>) /\ \A x : Has(<<"notApplied">>, x) <=> x = "notApplied"
<1>1. <<"notApplied">> \in Seq(Stages) /\ <<"notApplied">> # <<>> /\ DOMAIN <<"notApplied">> = {1}
  BY DEF Stages
<1>2. QED  BY <1>1 DEF InOrder, Has

LEMMA ThrowTyped ==
    ASSUME Types, NEW c \in Caller, calls[c] \in Call, Throw(c),
           UNCHANGED <<shape, document, baseline, unlocked, runs, corrections>>,
           faults' = faults \/ faults' = faults + 1
    PROVE  Types'
<1>1. [calls[c] EXCEPT !.steps = <<"notApplied">>] \in Call
  BY Closing DEF Call, InOrder
<1>2. calls' \in [Caller -> Call \cup {Nothing}]
  BY <1>1 DEF Throw, Return, Types
<1>3. QED  BY <1>2 DEF Types

LEMMA Throwing ==
    ASSUME IInv, Types', NEW c \in Caller, calls[c] # Nothing, Head(calls[c].steps) # "notApplied", Throw(c),
           UNCHANGED <<shape, document, corrections>>
    PROVE  CallsFit' /\ RecordsApart'
<1>1. Types /\ Fits(calls[c]) /\ calls[c] \in Call /\ DocumentKept /\ RecordsKept(c)
  BY NothingWritten DEF IInv, CallsFit, Fits
<1>2. CASE calls[c].correction = 0
  BY <1>1, <1>2, Returning DEF Throw
<1>3. CASE calls[c].correction # 0
  <2>1. PICK q : q = [calls[c] EXCEPT !.steps = <<"notApplied">>]
    OBVIOUS
  <2>2. calls'[c] = q /\ \A d \in Caller : d # c => calls'[d] = calls[d]
    BY <1>1, <1>3, <2>1 DEF Throw, Types
  <2>3. /\ q.steps = <<"notApplied">> /\ q.op = calls[c].op /\ q.correction = calls[c].correction
        /\ q \in Call
    BY <1>1, <2>1, Closing DEF Call, InOrder
  <2>4. Fits(q)'
    BY <1>1, <1>3, <2>3, Closing DEF Fits
  <2>5. Owned(c)
    BY <1>3 DEF Owned
  <2>6. QED  BY <1>1, <2>2, <2>3, <2>4, <2>5, Together
<1>4. QED  BY <1>2, <1>3

-----------------------------------------------------------------------------
(* The actions *)

LEMMA Quiet ==
    ASSUME IInv, Types', calls' = calls, shape' = shape, corrections' = corrections, DocumentKept
    PROVE  CallsFit' /\ RecordsApart'
<1>1. Types /\ Len(corrections) \in Nat
  BY DEF IInv, Types
<1>2. ASSUME NEW c \in Caller, calls'[c] # Nothing PROVE Fits(calls[c])'
  <2>1. PICK q : q = calls[c]
    OBVIOUS
  <2>2. Fits(q)
    BY <1>2, <2>1 DEF IInv, CallsFit
  <2>3. Fits(q)'
    BY <1>1, <2>2, StillFits
  <2>4. QED  BY <2>1, <2>3
<1>3. QED  BY <1>2 DEF CallsFit, RecordsApart, IInv

LEMMA OutcomesStay ==
    CorrectionsTellTheTruth /\ UNCHANGED <<shape, corrections>> => CorrectionsTellTheTruth'
  BY DEF CorrectionsTellTheTruth

\* A request arrives.
LEMMA Beginning ==
    ASSUME IInv, NEW c \in Caller, NEW op \in Operation, NEW steps, NEW expected \in Nat,
           Begin(c, op, steps, expected), InOrder(steps), op = "section" => shape = "sections",
           ~Has(steps, "notApplied"), Has(steps, "close") => Has(steps, "open"),
           Has(steps, "open") => Exists /\ expected <= document.recordVersion
    PROVE  IInv'
<1> DEFINE q == [op |-> op, steps |-> steps, expected |-> expected, composed |-> 0, run |-> 0,
                 correction |-> 0, protected |-> FALSE, effect |-> "none"]
<1>1. Types /\ shape' = shape /\ corrections' = corrections /\ document' = document
  BY DEF IInv, Begin
<1>2. q \in Call /\ q.steps = steps /\ q.op = op /\ q.correction = 0 /\ q.expected = expected
  BY DEF Call, Effect, InOrder
<1>3. calls' = [calls EXCEPT ![c] = q]
  BY DEF Begin
<1> HIDE DEF q
<1>4. Types'
  <2>1. calls' \in [Caller -> Call \cup {Nothing}]
    BY <1>1, <1>2, <1>3 DEF Types
  <2>2. UNCHANGED <<shape, document, baseline, unlocked, runs, corrections, faults>>
    BY DEF Begin
  <2>3. QED  BY <1>1, <2>1, <2>2 DEF Types
<1>5. calls'[c] = q /\ \A d \in Caller : d # c => calls'[d] = calls[d]
  BY <1>1, <1>3 DEF Types
<1>6. DocumentKept /\ RecordsKept(c)
  BY <1>1, NothingWritten
<1>7. Has(steps, "open") => Unchanged(q)'
  BY <1>1, <1>2 DEF Unchanged, Exists
<1>8. Has(steps, "open") => Has(steps, "engine")
  BY DEF InOrder
<1>9. 0 <= Len(corrections')
  BY <1>1 DEF Types
<1>10. Fits(q)'
  <2>1. q.op = "section" => shape' = "sections"
    BY <1>1, <1>2
  <2>2. Has(steps, "close") =>
           (q.correction # 0 \/ Has(steps, "open")) /\ Has(steps, "engine") /\ Unchanged(q)'
    BY <1>7, <1>8
  <2>3. QED  BY <1>2, <1>9, <2>1, <2>2 DEF Fits
<1>11. CallsFit' /\ RecordsApart'
  BY <1>1, <1>2, <1>4, <1>5, <1>6, <1>10, Together
<1>12. QED
  BY <1>1, <1>4, <1>11, OutcomesStay DEF IInv

LEMMA SeenFacts ==
    ASSUME Types, NEW v \in Seen
    PROVE  v \in Nat /\ (Exists => v <= document.recordVersion)
<1>1. CASE Exists
  <2>1. document.recordVersion \in Nat
    BY <1>1 DEF Exists, Types, Document
  <2>2. v \in 0 .. document.recordVersion
    BY <1>1 DEF Seen
  <2>3. QED  BY <2>1, <2>2
<1>2. CASE ~Exists
  BY <1>2 DEF Seen
<1>3. QED  BY <1>1, <1>2

LEMMA AskNext ==
    ASSUME IInv, NEW c \in Caller, Ask(c)
    PROVE  IInv'
<1>1. ASSUME NEW op \in Operation, NEW v \in Seen, Begin(c, op, Steps(op), v), op = "section" => shape = "sections"
      PROVE  IInv'
  <2>1. v \in Nat
    BY SeenFacts DEF IInv
  <2>2. PICK steps : steps = Steps(op)
    OBVIOUS
  <2>3. InOrder(steps) /\ ~Has(steps, "open") /\ ~Has(steps, "close") /\ ~Has(steps, "notApplied")
    BY <2>2, StepsInOrder
  <2>4. QED  BY <1>1, <2>1, <2>2, <2>3, Beginning
<1>2. CASE Generate(c)
  BY <1>1, <1>2 DEF Generate, Operation
<1>3. CASE RegenerateSection(c)
  BY <1>1, <1>3 DEF RegenerateSection, Operation
<1>4. CASE RegenerateFeatures(c)
  BY <1>1, <1>4 DEF RegenerateFeatures, Operation
<1>5. CASE RegenerateRows(c)
  BY <1>1, <1>5 DEF RegenerateRows, Operation
<1>6. CASE SuggestAssumptions(c)
  BY <1>1, <1>6 DEF SuggestAssumptions, Operation
<1>7. CASE ApplyCorrection(c)
  <2>1. PICK op \in {"generate", "section", "features"}, v \in Seen :
           (op = "section" => shape = "sections") /\ Begin(c, op, <<"open">> \o Steps(op) \o <<"close">>, v)
    BY <1>7 DEF ApplyCorrection
  <2>2. op \in Operation
    BY DEF Operation
  <2>3. PICK steps : steps = <<"open">> \o Steps(op) \o <<"close">>
    OBVIOUS
  <2>4. InOrder(steps) /\ Has(steps, "open") /\ ~Has(steps, "notApplied")
    BY <2>2, <2>3, StepsInOrder, StepsEngine, Around
  <2>5. v \in Nat /\ Exists /\ v <= document.recordVersion
    BY <1>7, SeenFacts DEF IInv, ApplyCorrection
  <2>6. QED  BY <2>1, <2>2, <2>3, <2>4, <2>5, Beginning
<1>8. QED
  BY <1>2, <1>3, <1>4, <1>5, <1>6, <1>7 DEF Ask

\* What a caller at a step has.
LEMMA Caught ==
    ASSUME IInv, NEW c \in Caller, calls[c] # Nothing
    PROVE  /\ Types /\ Fits(calls[c]) /\ calls[c] \in Call /\ InOrder(calls[c].steps)
           /\ calls[c].correction \in Nat /\ Len(corrections) \in Nat
           /\ calls[c].correction # 0 =>
                 calls[c].correction \in DOMAIN corrections /\ corrections[calls[c].correction] \in Record
<1>1. Types /\ Fits(calls[c]) /\ calls[c] \in Call
  BY DEF IInv, CallsFit, Fits
<1>2. InOrder(calls[c].steps) /\ calls[c].correction \in Nat /\ calls[c].correction <= Len(corrections)
  BY <1>1 DEF Fits, Call
<1>3. corrections \in Seq(Record)
  BY <1>1 DEF Types
<1>4. QED  BY <1>1, <1>2, <1>3

LEMMA RecordSet ==
    ASSUME Types, NEW c \in Caller, Owned(c), calls[c].correction \in DOMAIN corrections, NEW x \in Record,
           corrections' = [corrections EXCEPT ![calls[c].correction] = x]
    PROVE  RecordsKept(c) /\ corrections'[calls[c].correction] = x /\ Len(corrections') = Len(corrections)
<1>1. corrections \in Seq(Record) /\ Len(corrections) \in Nat
  BY DEF Types
<1>2. corrections' \in Seq(Record) /\ Len(corrections') = Len(corrections)
  BY <1>1
<1>3. \A i \in DOMAIN corrections : corrections'[i] = IF i = calls[c].correction THEN x ELSE corrections[i]
  BY <1>1
<1>4. corrections'[calls[c].correction] = x /\ Len(corrections) <= Len(corrections')
  BY <1>1, <1>2, <1>3
<1>5. \A i \in DOMAIN corrections : corrections'[i] = corrections[i] \/ (Owned(c) /\ i = calls[c].correction)
  BY <1>3, Zenon
<1>6. RecordsKept(c)
  BY <1>2, <1>4, <1>5, Zenon DEF RecordsKept
<1>7. QED  BY <1>2, <1>4, <1>6

\* The record of one correction changes; the others say what they said.
LEMMA OneOutcome ==
    ASSUME Types, CorrectionsTellTheTruth, shape' = shape, NEW n \in DOMAIN corrections, NEW x \in Record,
           corrections' = [corrections EXCEPT ![n] = x],
           x.outcome = "APPLIED" => IF shape = "sections" THEN x.effect = "replaced" ELSE x.effect # "none",
           x.outcome = "PROPOSED" => x.effect = "proposed"
    PROVE  CorrectionsTellTheTruth'
<1>1. corrections \in Seq(Record) /\ DOMAIN corrections' = DOMAIN corrections
  BY DEF Types
<1>2. \A i \in DOMAIN corrections : corrections'[i] = IF i = n THEN x ELSE corrections[i]
  BY <1>1
<1>3. QED  BY <1>1, <1>2 DEF CorrectionsTellTheTruth

\* The head of what is left is a step; the record is opened and closed at its ends.
LEMMA AtHead ==
    ASSUME NEW s, InOrder(s)
    PROVE  /\ Has(s, Head(s))
           /\ Head(s) # "open" => ~Has(s, "open")
           /\ Head(s) # "notApplied" => ~Has(s, "notApplied")
           /\ Head(s) \in {"close", "notApplied"} => \A x : Has(s, x) => x = Head(s)
<1>1. s \in Seq(Stages) /\ Len(s) \in Nat /\ Len(s) >= 1 /\ DOMAIN s = 1 .. Len(s) /\ Head(s) = s[1]
  BY DEF InOrder
<1>2. Has(s, Head(s))
  BY TailFacts
<1>3. /\ Head(s) # "open" => ~Has(s, "open")
      /\ Head(s) # "notApplied" => ~Has(s, "notApplied")
  BY <1>1 DEF InOrder, Has
<1>4. ASSUME Head(s) \in {"close", "notApplied"} PROVE \A x : Has(s, x) => x = Head(s)
  <2>1. 1 \in DOMAIN s
    BY <1>1
  <2>2. 1 = Len(s)
    BY <1>1, <1>4, <2>1 DEF InOrder
  <2>a. DOMAIN s = 1 .. 1
    BY <1>1, <2>2
  <2>3. \A i \in DOMAIN s : i = 1
    BY <2>a
  <2>4. QED  BY <1>1, <2>3 DEF Has
<1>5. QED  BY <1>2, <1>3, <1>4

LEMMA RunSet ==
    ASSUME Types, NEW n, NEW x \in RunStatus
    PROVE  [runs EXCEPT ![n] = x] \in Seq(RunStatus)
<1>1. runs \in [1 .. Len(runs) -> RunStatus] /\ Len(runs) \in Nat
  BY DEF Types
<1>2. [runs EXCEPT ![n] = x] \in [1 .. Len(runs) -> RunStatus]
  BY <1>1
<1>3. QED  BY <1>1, <1>2

LEMMA OpenNext ==
    ASSUME IInv, NEW c \in Caller, OpenCorrection(c)
    PROVE  IInv'
<1> DEFINE x == [outcome |-> "NOT_APPLIED", effect |-> "none"]
<1>1. /\ calls[c] # Nothing /\ Head(calls[c].steps) = "open" /\ corrections' = Append(corrections, x)
      /\ UNCHANGED <<shape, document, baseline, unlocked, runs, faults>>
  BY DEF OpenCorrection, At
<1>2. Types /\ Fits(calls[c]) /\ calls[c] \in Call /\ InOrder(calls[c].steps) /\ Len(corrections) \in Nat
  BY <1>1, Caught
<1>3. /\ Has(calls[c].steps, "open") /\ ~Has(calls[c].steps, "notApplied")
      /\ Has(calls[c].steps, "engine") /\ Has(calls[c].steps, "close")
  BY <1>1, <1>2, AtHead DEF InOrder
<1>4. Unchanged(calls[c]) /\ calls[c].correction = 0
  BY <1>2, <1>3 DEF Fits
<1>5. document \in Document /\ document.protected \in BOOLEAN
  BY <1>2, <1>4 DEF Unchanged, Exists, Types, Document
<1>6. PICK r : r = [calls[c] EXCEPT !.correction = Len(corrections) + 1, !.protected = document.protected]
  OBVIOUS
<1>n. Len(corrections) + 1 \in Nat
  BY <1>2
<1>7. /\ r \in Call /\ r.steps = calls[c].steps /\ r.op = calls[c].op /\ r.expected = calls[c].expected
      /\ r.correction = Len(corrections) + 1 /\ r.protected = document.protected
  BY <1>2, <1>5, <1>6, <1>n DEF Call
<1>8. Advance(c, r)
  BY <1>6 DEF OpenCorrection
<1>9. x \in Record /\ x.outcome = "NOT_APPLIED"
  BY DEF Record, Outcome, Effect
<1> HIDE DEF x
<1>10. /\ corrections' \in Seq(Record) /\ Len(corrections') = Len(corrections) + 1
       /\ corrections'[Len(corrections) + 1] = x
       /\ \A i \in DOMAIN corrections : corrections'[i] = corrections[i]
       /\ DOMAIN corrections' = DOMAIN corrections \cup {Len(corrections) + 1}
  BY <1>1, <1>2, <1>9 DEF Types
<1>11. /\ calls' \in [Caller -> Call \cup {Nothing}] /\ \A d \in Caller : d # c => calls'[d] = calls[d]
       /\ calls'[c] # Nothing => calls'[c] = [r EXCEPT !.steps = Tail(r.steps)]
  BY <1>2, <1>7, <1>8, Advancing
<1>12. Types'
  BY <1>1, <1>2, <1>10, <1>11 DEF Types
<1>13. Unchanged(r)'
  BY <1>1, <1>4, <1>7 DEF Unchanged, Exists
<1>14. r.correction <= Len(corrections') /\ r.correction # 0 /\ corrections'[r.correction].outcome = "NOT_APPLIED"
  BY <1>2, <1>7, <1>9, <1>10
<1>15. r.op = "section" => shape' = "sections"
  BY <1>1, <1>2, <1>7 DEF Fits
<1>16. calls'[c] # Nothing => Fits(calls[c])'
  BY <1>1, <1>2, <1>3, <1>7, <1>8, <1>12, <1>13, <1>14, <1>15, GoesOn
<1>17. DocumentKept
  BY <1>1, <1>5 DEF DocumentKept, Exists, Document
<1>18. Len(corrections) <= Len(corrections')
  BY <1>2, <1>10
<1>19. RecordsKept(c)
  BY <1>10, <1>18, Zenon DEF RecordsKept
<1>20. calls'[c] # Nothing => calls'[c].correction > Len(corrections)
  <2>1. [r EXCEPT !.steps = Tail(r.steps)].correction = r.correction
    BY <1>7 DEF Call
  <2>2. r.correction > Len(corrections)
    BY <1>2, <1>7
  <2>3. QED  BY <1>11, <2>1, <2>2
<1>21. CallsFit' /\ RecordsApart'
  BY <1>1, <1>11, <1>12, <1>16, <1>17, <1>19, <1>20, Together
<1>22. CorrectionsTellTheTruth'
  BY <1>1, <1>9, <1>10 DEF CorrectionsTellTheTruth, IInv
<1>23. QED  BY <1>12, <1>21, <1>22 DEF IInv

LEMMA CheckNext ==
    ASSUME IInv, NEW c \in Caller, CheckActiveRun(c)
    PROVE  IInv'
<1>1. /\ calls[c] # Nothing /\ Head(calls[c].steps) = "check"
      /\ UNCHANGED <<shape, document, baseline, unlocked, runs, corrections, faults>>
      /\ Throw(c) \/ Advance(c, calls[c])
  BY DEF CheckActiveRun, At
<1>2. Types /\ calls[c] \in Call /\ InOrder(calls[c].steps)
  BY <1>1, Caught
<1>3. CASE Throw(c)
  <2>1. Types'
    BY <1>1, <1>2, <1>3, ThrowTyped
  <2>2. QED  BY <1>1, <1>3, <2>1, Throwing, OutcomesStay DEF IInv
<1>4. CASE Advance(c, calls[c])
  <2>1. calls' \in [Caller -> Call \cup {Nothing}]
    BY <1>2, <1>4, Advancing
  <2>2. Types'
    BY <1>1, <1>2, <2>1 DEF Types
  <2>3. CallsFit' /\ RecordsApart'
    BY <1>1, <1>2, <1>4, <2>2, Passing
  <2>4. QED  BY <1>1, <2>2, <2>3, OutcomesStay DEF IInv
<1>5. QED  BY <1>1, <1>3, <1>4

LEMMA CreateNext ==
    ASSUME IInv, NEW c \in Caller, CreateRun(c)
    PROVE  IInv'
<1> DEFINE r == [calls[c] EXCEPT !.composed = baseline, !.run = Len(runs) + 1]
<1>1. /\ calls[c] # Nothing /\ Head(calls[c].steps) = "create" /\ runs' = Append(runs, "RUNNING")
      /\ UNCHANGED <<shape, document, baseline, unlocked, corrections, faults>>
      /\ Advance(c, r)
  BY DEF CreateRun, At
<1>2. Types /\ calls[c] \in Call /\ InOrder(calls[c].steps)
  BY <1>1, Caught
<1>3. Len(runs) + 1 \in Nat /\ baseline \in Nat /\ runs' \in Seq(RunStatus)
  BY <1>1, <1>2 DEF Types, RunStatus
<1>4. /\ r \in Call /\ r.op = calls[c].op /\ r.steps = calls[c].steps /\ r.expected = calls[c].expected
      /\ r.correction = calls[c].correction /\ r.protected = calls[c].protected /\ r.effect = calls[c].effect
  BY <1>2, <1>3 DEF Call
<1> HIDE DEF r
<1>5. calls' \in [Caller -> Call \cup {Nothing}]
  BY <1>1, <1>2, <1>4, Advancing
<1>6. Types'
  BY <1>1, <1>2, <1>3, <1>5 DEF Types
<1>7. CallsFit' /\ RecordsApart'
  BY <1>1, <1>4, <1>6, Passing
<1>8. QED  BY <1>1, <1>6, <1>7, OutcomesStay DEF IInv

LEMMA WriteNext ==
    ASSUME IInv, NEW c \in Caller, Write(c)
    PROVE  IInv'
<1>1. /\ calls[c] # Nothing /\ Head(calls[c].steps) = "write"
      /\ UNCHANGED <<shape, document, baseline, unlocked, corrections, faults>>
      /\ \/ Advance(c, calls[c]) /\ UNCHANGED runs
         \/ runs' = [runs EXCEPT ![calls[c].run] = "FAILED"] /\ Return(c)
  BY DEF Write, At
<1>2. Types /\ calls[c] \in Call /\ InOrder(calls[c].steps)
  BY <1>1, Caught
<1>3. CASE Advance(c, calls[c]) /\ UNCHANGED runs
  <2>1. calls' \in [Caller -> Call \cup {Nothing}]
    BY <1>2, <1>3, Advancing
  <2>2. Types'
    BY <1>1, <1>2, <1>3, <2>1 DEF Types
  <2>3. CallsFit' /\ RecordsApart'
    BY <1>1, <1>2, <1>3, <2>2, Passing
  <2>4. QED  BY <1>1, <2>2, <2>3, OutcomesStay DEF IInv
<1>4. CASE runs' = [runs EXCEPT ![calls[c].run] = "FAILED"] /\ Return(c)
  <2>1. calls' \in [Caller -> Call \cup {Nothing}]
    BY <1>2, <1>4 DEF Return, Types
  <2>2. runs' \in Seq(RunStatus)
    BY <1>2, <1>4, RunSet DEF RunStatus
  <2>3. Types'
    BY <1>1, <1>2, <2>1, <2>2 DEF Types
  <2>4. CallsFit' /\ RecordsApart'
    BY <1>1, <1>2, <1>4, <2>3, Returning, NothingWritten
  <2>5. QED  BY <1>1, <2>3, <2>4, OutcomesStay DEF IInv
<1>5. QED  BY <1>1, <1>3, <1>4

LEMMA FinishNext ==
    ASSUME IInv, NEW c \in Caller, FinishRun(c)
    PROVE  IInv'
<1>1. /\ calls[c] # Nothing /\ Head(calls[c].steps) = "finish"
      /\ UNCHANGED <<shape, document, baseline, unlocked, corrections, faults>>
      /\ Advance(c, calls[c]) /\ runs' = [runs EXCEPT ![calls[c].run] = "COMPLETED"]
  BY DEF FinishRun, At
<1>2. Types /\ calls[c] \in Call /\ InOrder(calls[c].steps)
  BY <1>1, Caught
<1>3. calls' \in [Caller -> Call \cup {Nothing}]
  BY <1>1, <1>2, Advancing
<1>4. runs' \in Seq(RunStatus)
  BY <1>1, <1>2, RunSet DEF RunStatus
<1>5. Types'
  BY <1>1, <1>2, <1>3, <1>4 DEF Types
<1>6. CallsFit' /\ RecordsApart'
  BY <1>1, <1>2, <1>5, Passing
<1>7. QED  BY <1>1, <1>5, <1>6, OutcomesStay DEF IInv

Accepted(r) ==
    CASE r.op = "generate" -> Generated(r)
      [] r.op = "suggest" -> document
      [] OTHER -> Rewritten

LEMMA AcceptedDocument ==
    ASSUME NothingIsNoDocument, Types, NEW r \in Call, Accepts(r), document' = Accepted(r)
    PROVE  document' \in Document \cup {Nothing} /\ DocumentKept
<1>1. r.op # "generate" => Exists
  BY DEF Accepts
<1>2. Exists => document \in Document /\ document.recordVersion \in Nat /\ document.protected \in BOOLEAN
  BY DEF Exists, Types, Document
<1>3. CASE r.op = "generate"
  <2>1. document' = Generated(r)
    BY <1>3 DEF Accepted
  <2>2. Exists => document.recordVersion + 1 \in Nat
    BY <1>2
  <2>3. (IF Exists THEN document.recordVersion + 1 ELSE 0) \in Nat
    BY <2>2
  <2>4. (Exists /\ document.protected) \in BOOLEAN
    OBVIOUS
  <2>5. Generated(r) \in Document
    BY <2>3, <2>4 DEF Generated, Document, Call, Types
  <2>6. Exists => Generated(r).recordVersion = document.recordVersion + 1
    BY DEF Generated
  <2>7. Exists => /\ document.recordVersion <= document'.recordVersion
                  /\ document'.recordVersion # document.recordVersion
    BY <1>2, <2>1, <2>6
  <2>8. document' # Nothing
    BY <2>1, <2>5 DEF NothingIsNoDocument
  <2>9. QED  BY <2>1, <2>5, <2>7, <2>8 DEF DocumentKept
<1>4. CASE r.op = "suggest"
  <2>1. document' = document
    BY <1>4 DEF Accepted
  <2>2. QED  BY <2>1, SameDocument
<1>5. CASE r.op \notin {"generate", "suggest"}
  <2>1. document' = Rewritten
    BY <1>5 DEF Accepted
  <2>a. document \in Document /\ document.recordVersion + 1 \in Nat
    BY <1>1, <1>2, <1>5
  <2>2. /\ Rewritten \in Document /\ Rewritten.recordVersion = document.recordVersion + 1
    BY <2>a DEF Rewritten, Document
  <2>3. /\ document.recordVersion <= document'.recordVersion
        /\ document'.recordVersion # document.recordVersion
    BY <1>1, <1>2, <1>5, <2>1, <2>2
  <2>4. document' # Nothing
    BY <2>1, <2>2 DEF NothingIsNoDocument
  <2>5. QED  BY <2>1, <2>2, <2>3, <2>4 DEF DocumentKept
<1>6. QED  BY <1>3, <1>4, <1>5

LEMMA EngineNext ==
    ASSUME NothingIsNoDocument, IInv, NEW c \in Caller, AskEngine(c)
    PROVE  IInv'
<1> DEFINE old == calls[c]
           effect == EffectOf(old)
           n == old.correction
<1>1. /\ calls[c] # Nothing /\ Head(old.steps) = "engine"
      /\ UNCHANGED <<shape, baseline, unlocked, runs, faults>>
  BY DEF AskEngine, At
<1>2. /\ Types /\ Fits(old) /\ old \in Call /\ InOrder(old.steps) /\ n \in Nat /\ Len(corrections) \in Nat
      /\ n # 0 => n \in DOMAIN corrections /\ corrections[n] \in Record
  BY <1>1, Caught
<1>3. CASE ~Accepts(old)
  <2>1. Throw(c) /\ UNCHANGED <<document, corrections>>
    BY <1>3 DEF AskEngine
  <2>2. Types'
    BY <1>1, <1>2, <2>1, ThrowTyped
  <2>3. CallsFit' /\ RecordsApart'
    BY <1>1, <2>1, <2>2, Throwing
  <2>4. QED  BY <1>1, <2>1, <2>2, <2>3, OutcomesStay DEF IInv
<1>4. CASE Accepts(old)
  <2>1. /\ document' = Accepted(old)
        /\ corrections' = IF n = 0 THEN corrections
                          ELSE [corrections EXCEPT ![n].effect = effect]
        /\ Advance(c, [old EXCEPT !.effect = effect])
    BY <1>4 DEF AskEngine, Accepted
  <2>2. document' \in Document \cup {Nothing} /\ DocumentKept
    BY <1>2, <1>4, <2>1, AcceptedDocument
  <2>3. effect \in Effect /\ effect # "none" /\ (effect = "proposed" <=> Exists /\ document.protected)
    BY DEF EffectOf, Effect
  <2>4. PICK r : r = [old EXCEPT !.effect = effect]
    OBVIOUS
  <2>5. /\ r \in Call /\ r.steps = old.steps /\ r.op = old.op /\ r.expected = old.expected
        /\ r.correction = n /\ r.protected = old.protected /\ r.effect = effect
    BY <1>2, <2>3, <2>4 DEF Call
  <2>6. Has(old.steps, "engine") /\ ~Has(old.steps, "open") /\ ~Has(old.steps, "notApplied")
    BY <1>1, <1>2, AtHead
  <2>7. Has(old.steps, "close") => n # 0 /\ Unchanged(old)
    BY <1>2, <2>6 DEF Fits
  <2>8. /\ old.op = "section" => shape = "sections"
        /\ n # 0 => Has(old.steps, "close") /\ corrections[n].outcome = "NOT_APPLIED"
    BY <1>2, <2>6 DEF Fits
  <2>9. n # 0 => (old.op = "section" => (effect = "proposed" <=> old.protected))
    <3> SUFFICES ASSUME n # 0, old.op = "section" PROVE effect = "proposed" <=> old.protected
      OBVIOUS
    <3>1. Unchanged(old) /\ Exists
      BY <2>7, <2>8 DEF Unchanged
    <3>2. document.recordVersion = old.expected
      BY <1>4, <3>1 DEF Accepts
    <3>3. document.protected = old.protected
      BY <3>1, <3>2 DEF Unchanged
    <3>4. QED  BY <2>3, <3>1, <3>3
  <2>10. PICK x : x = [corrections[n] EXCEPT !.effect = effect]
    OBVIOUS
  <2>11. n # 0 => /\ x \in Record /\ x.outcome = "NOT_APPLIED" /\ x.effect = effect
                  /\ corrections' = [corrections EXCEPT ![n] = x]
    BY <1>2, <2>1, <2>3, <2>8, <2>10 DEF Record
  <2> HIDE DEF effect, n, old
  <2>12. Owned(c) <=> n # 0
    BY <1>1 DEF Owned, n, old
  <2>13. /\ RecordsKept(c) /\ Len(corrections') = Len(corrections)
         /\ n # 0 => corrections'[n] = x
    <3>1. CASE n = 0
      <4>1. corrections' = corrections
        BY <2>1, <3>1
      <4>2. RecordsKept(c)
        <5>1. corrections \in Seq(Record)
          BY <1>2 DEF Types
        <5>2. Len(corrections) <= Len(corrections)
          BY <1>2
        <5>3. QED  BY <4>1, <5>1, <5>2 DEF RecordsKept
      <4>3. QED  BY <3>1, <4>1, <4>2
    <3>2. CASE n # 0
      <4>1. Owned(c) /\ n = calls[c].correction
        BY <2>12, <3>2 DEF n, old
      <4>2. QED  BY <1>2, <2>11, <3>2, <4>1, RecordSet
    <3>3. QED  BY <3>1, <3>2
  <2>14. /\ calls' \in [Caller -> Call \cup {Nothing}] /\ \A d \in Caller : d # c => calls'[d] = calls[d]
         /\ calls'[c] # Nothing => calls'[c] = [r EXCEPT !.steps = Tail(r.steps)]
    BY <1>2, <2>1, <2>4, <2>5, Advancing
  <2>15. Types'
    BY <1>1, <1>2, <2>2, <2>13, <2>14 DEF Types, RecordsKept
  <2>16. Has(old.steps, "close") => Told(r)'
    BY <2>3, <2>5, <2>7, <2>9, <2>11, <2>13 DEF Told
  <2>17. n <= Len(corrections')
    BY <1>2, <2>13 DEF Fits, n
  <2>18. calls'[c] # Nothing => Fits(calls[c])'
    <3>1. r.op = "section" => shape' = "sections"
      BY <1>1, <2>5, <2>8
    <3>2. r.correction # 0 => Has(r.steps, "close") /\ corrections'[r.correction].outcome = "NOT_APPLIED"
      BY <2>5, <2>8, <2>11, <2>13
    <3>3. Has(r.steps, "close") => r.correction # 0 /\ Told(r)'
      BY <2>5, <2>7, <2>16
    <3>4. InOrder(r.steps) /\ Head(r.steps) = "engine" /\ ~Has(r.steps, "notApplied") /\ Advance(c, r)
          /\ r.correction <= Len(corrections')
      BY <1>1, <1>2, <2>1, <2>4, <2>5, <2>6, <2>17
    <3>5. QED  BY <1>2, <2>5, <2>15, <3>1, <3>2, <3>3, <3>4, GoesOn
  <2>19. calls'[c] # Nothing => calls'[c].correction = n
    <3>1. [r EXCEPT !.steps = Tail(r.steps)].correction = r.correction
      BY <2>5 DEF Call
    <3>2. QED  BY <2>5, <2>14, <3>1
  <2>20. n = 0 \/ (Owned(c) /\ n = calls[c].correction)
    BY <2>12 DEF n, old
  <2>21. CallsFit' /\ RecordsApart'
    BY <1>1, <2>2, <2>13, <2>14, <2>15, <2>18, <2>19, <2>20, Together
  <2>22. CorrectionsTellTheTruth'
    <3>1. CASE n = 0
      BY <1>1, <2>1, <3>1, OutcomesStay DEF IInv
    <3>2. CASE n # 0
      BY <1>1, <1>2, <2>11, <3>2, OneOutcome DEF IInv
    <3>3. QED  BY <3>1, <3>2
  <2>23. QED  BY <2>15, <2>21, <2>22 DEF IInv
<1>5. QED  BY <1>3, <1>4

\* A record is closed, as applied or proposed or as neither.
LEMMA Closed ==
    ASSUME IInv, NEW c \in Caller, Owned(c), NEW outcome \in Outcome, Return(c),
           corrections' = [corrections EXCEPT ![calls[c].correction].outcome = outcome],
           UNCHANGED <<shape, document, baseline, unlocked, runs, faults>>,
           outcome = "APPLIED" =>
              IF shape = "sections" THEN corrections[calls[c].correction].effect = "replaced"
              ELSE corrections[calls[c].correction].effect # "none",
           outcome = "PROPOSED" => corrections[calls[c].correction].effect = "proposed"
    PROVE  IInv'
<1> DEFINE n == calls[c].correction
<1>1. Types /\ n \in DOMAIN corrections /\ corrections[n] \in Record
  BY Caught DEF Owned
<1>2. PICK x : x = [corrections[n] EXCEPT !.outcome = outcome]
  OBVIOUS
<1>3. /\ x \in Record /\ x.outcome = outcome /\ x.effect = corrections[n].effect
      /\ corrections' = [corrections EXCEPT ![n] = x]
  BY <1>1, <1>2 DEF Record
<1>4. RecordsKept(c)
  BY <1>1, <1>3, RecordSet
<1>5. DocumentKept
  BY <1>1, SameDocument
<1>6. Types'
  <2>1. calls' \in [Caller -> Call \cup {Nothing}]
    BY <1>1 DEF Types, Return
  <2>2. corrections' \in Seq(Record)
    BY <1>4 DEF RecordsKept
  <2>3. QED  BY <1>1, <2>1, <2>2 DEF Types
<1>7. CallsFit' /\ RecordsApart'
  BY <1>4, <1>5, <1>6, Returning
<1>8. CorrectionsTellTheTruth'
  <2>1. /\ x.outcome = "APPLIED" => IF shape = "sections" THEN x.effect = "replaced" ELSE x.effect # "none"
        /\ x.outcome = "PROPOSED" => x.effect = "proposed"
    BY <1>3
  <2>2. CorrectionsTellTheTruth /\ shape' = shape
    BY DEF IInv
  <2> HIDE DEF n
  <2>3. QED  BY <1>1, <1>3, <2>1, <2>2, OneOutcome
<1>9. QED  BY <1>6, <1>7, <1>8 DEF IInv

LEMMA CloseNext ==
    ASSUME IInv, NEW c \in Caller, CloseCorrection(c)
    PROVE  IInv'
<1> DEFINE old == calls[c]
           proposed == CASE old.op = "section" -> old.protected
                         [] old.op = "features" -> old.effect = "proposed"
                         [] OTHER -> old.effect = "proposed" /\ shape = "sections"
           outcome == IF proposed THEN "PROPOSED" ELSE "APPLIED"
<1>1. /\ calls[c] # Nothing /\ Head(old.steps) = "close" /\ Return(c)
      /\ corrections' = [corrections EXCEPT ![old.correction].outcome = outcome]
      /\ UNCHANGED <<shape, document, baseline, unlocked, runs, faults>>
  BY DEF CloseCorrection, At
<1>2. Fits(old) /\ old \in Call /\ InOrder(old.steps)
  BY <1>1, Caught
<1>3. Has(old.steps, "close") /\ ~Has(old.steps, "open") /\ ~Has(old.steps, "engine")
  BY <1>1, <1>2, AtHead
<1>4. old.correction # 0 /\ Told(old)
  BY <1>2, <1>3 DEF Fits
<1>5. /\ corrections[old.correction].effect = old.effect /\ old.effect \in {"replaced", "proposed"}
      /\ old.op = "section" => shape = "sections" /\ (old.effect = "proposed" <=> old.protected)
  BY <1>2, <1>4 DEF Told, Call, Effect, Fits
<1>6. old.op \in Operation
  BY <1>2 DEF Call
<1>7. outcome \in Outcome
  BY DEF Outcome
<1>8. /\ outcome = "APPLIED" => IF shape = "sections" THEN old.effect = "replaced" ELSE old.effect # "none"
      /\ outcome = "PROPOSED" => old.effect = "proposed"
  <2>1. CASE old.op = "section"
    BY <1>5, <2>1
  <2>2. CASE old.op = "features"
    BY <1>5, <2>2
  <2>3. CASE old.op \notin {"section", "features"}
    BY <1>5, <2>3
  <2>4. QED  BY <2>1, <2>2, <2>3
<1>9. Owned(c)
  BY <1>1, <1>4 DEF Owned
<1> HIDE DEF outcome, proposed
<1>10. QED
  BY <1>1, <1>5, <1>7, <1>8, <1>9, Closed

LEMMA RejectNext ==
    ASSUME IInv, NEW c \in Caller, RejectCorrection(c)
    PROVE  IInv'
<1>1. /\ calls[c] # Nothing /\ Head(calls[c].steps) = "notApplied" /\ Return(c)
      /\ corrections' = [corrections EXCEPT ![calls[c].correction].outcome = "NOT_APPLIED"]
      /\ UNCHANGED <<shape, document, baseline, unlocked, runs, faults>>
  BY DEF RejectCorrection, At
<1>2. Fits(calls[c]) /\ InOrder(calls[c].steps)
  BY <1>1, Caught
<1>3. Has(calls[c].steps, "notApplied")
  BY <1>1, <1>2, AtHead
<1>4. Owned(c)
  BY <1>1, <1>2, <1>3 DEF Owned, Fits
<1>5. QED
  BY <1>1, <1>4, Closed DEF Outcome

LEMMA StumbleNext ==
    ASSUME IInv, NEW c \in Caller, Stumble(c)
    PROVE  IInv'
<1>1. /\ calls[c] # Nothing /\ Head(calls[c].steps) # "notApplied" /\ Throw(c) /\ faults' = faults + 1
      /\ UNCHANGED <<shape, document, baseline, unlocked, runs, corrections>>
  BY DEF Stumble, At
<1>2. Types /\ calls[c] \in Call
  BY <1>1, Caught
<1>3. Types'
  BY <1>1, <1>2, ThrowTyped
<1>4. QED  BY <1>1, <1>3, Throwing, OutcomesStay DEF IInv

LEMMA CrashNext ==
    ASSUME IInv, Crash
    PROVE  IInv'
<1>1. Types'
  BY DEF Crash, IInv, Types
<1>2. CallsFit' /\ RecordsApart'
  BY DEF Crash, CallsFit, RecordsApart
<1>3. QED  BY <1>1, <1>2, OutcomesStay DEF Crash, IInv

LEMMA OthersNext ==
    ASSUME NothingIsNoDocument, IInv, EditByHand \/ Settle \/ Revise \/ ApproveBaseline \/ ChangeLock
    PROVE  IInv'
<1>1. Types /\ (Exists => document \in Document /\ document.recordVersion \in Nat)
  BY DEF IInv, Types, Exists, Document
<1>2. calls' = calls /\ shape' = shape /\ corrections' = corrections /\ runs' = runs /\ faults' = faults
  BY DEF EditByHand, Settle, Revise, ApproveBaseline, ChangeLock
<1>3. baseline' \in Nat /\ unlocked' \in BOOLEAN
  <2>1. baseline \in Nat /\ unlocked \in BOOLEAN
    BY <1>1 DEF Types
  <2>2. CASE ChangeLock
    BY <2>1, <2>2 DEF ChangeLock
  <2>3. CASE ApproveBaseline
    BY <2>1, <2>3 DEF ApproveBaseline
  <2>4. CASE EditByHand \/ Settle \/ Revise
    BY <2>1, <2>4 DEF EditByHand, Settle, Revise
  <2>5. QED  BY <2>2, <2>3, <2>4
<1>4. document' \in Document \cup {Nothing} /\ DocumentKept
  <2>1. CASE EditByHand \/ Settle \/ Revise
    <3>1. Exists
      BY <2>1 DEF EditByHand, Settle, Revise, Writable
    <3>2. document' \in Document /\ document'.recordVersion = document.recordVersion + 1
      <4>1. document \in Document /\ document.recordVersion + 1 \in Nat /\ baseline \in Nat
        BY <1>1, <3>1 DEF Types
      <4>2. CASE EditByHand
        BY <4>1, <4>2 DEF EditByHand, Rewritten, Document
      <4>3. CASE Settle
        BY <4>1, <4>3 DEF Settle, Document
      <4>4. CASE Revise
        BY <4>1, <4>4 DEF Revise, Document
      <4>5. QED  BY <2>1, <4>2, <4>3, <4>4
    <3>3. document' # Nothing
      BY <3>2 DEF NothingIsNoDocument
    <3>4. QED  BY <1>1, <3>1, <3>2, <3>3 DEF DocumentKept
  <2>2. CASE ApproveBaseline \/ ChangeLock
    <3>1. document' = document
      BY <2>2 DEF ApproveBaseline, ChangeLock
    <3>2. QED  BY <1>1, <3>1, SameDocument
  <2>3. QED  BY <2>1, <2>2
<1>5. Types'
  BY <1>1, <1>2, <1>3, <1>4 DEF Types
<1>6. QED  BY <1>2, <1>4, <1>5, Quiet, OutcomesStay DEF IInv

-----------------------------------------------------------------------------
(* The theorems *)

LEMMA Initially == Init => IInv
<1> SUFFICES ASSUME Init PROVE IInv
  OBVIOUS
<1>1. Types
  BY DEF Init, Types
<1>2. CallsFit /\ RecordsApart
  BY DEF Init, CallsFit, RecordsApart
<1>3. DOMAIN corrections = {}
  BY DEF Init
<1>4. CorrectionsTellTheTruth
  BY <1>3 DEF CorrectionsTellTheTruth
<1>5. QED  BY <1>1, <1>2, <1>4 DEF IInv

LEMMA Inductive == NothingIsNoDocument /\ IInv /\ [Next]_vars => IInv'
<1> SUFFICES ASSUME NothingIsNoDocument, IInv, [Next]_vars PROVE IInv'
  OBVIOUS
<1>1. CASE UNCHANGED vars
  <2>1. calls' = calls /\ shape' = shape /\ corrections' = corrections /\ document' = document
    BY <1>1 DEF vars
  <2>2. Types'
    BY <1>1 DEF vars, IInv, Types
  <2>3. DocumentKept
    <3>1. Exists => document.recordVersion \in Nat
      BY DEF Exists, IInv, Types, Document
    <3>2. QED  BY <2>1, <3>1 DEF DocumentKept, Exists
  <2>4. QED  BY <2>1, <2>2, <2>3, Quiet, OutcomesStay DEF IInv
<1>2. ASSUME NEW c \in Caller, Handle(c) PROVE IInv'
  BY <1>2, OpenNext, CheckNext, CreateNext, WriteNext, EngineNext, FinishNext, CloseNext, RejectNext DEF Handle
<1>3. ASSUME NEW c \in Caller, Ask(c) \/ Stumble(c) PROVE IInv'
  BY <1>3, AskNext, StumbleNext
<1>4. CASE Crash
  BY <1>4, CrashNext
<1>5. CASE EditByHand \/ Settle \/ Revise \/ ApproveBaseline \/ ChangeLock
  BY <1>5, OthersNext
<1>6. QED
  BY <1>1, <1>2, <1>3, <1>4, <1>5 DEF Next

\* A correction recorded as proposed left a person's words with a proposal beside them, and one
\* recorded as applied replaced the words (or, of a document without sections, changed it), whoever
\* edits, approves or revises the document while the model writes, and whatever fails.
THEOREM OutcomesAreKept == NothingIsNoDocument => (Spec => []CorrectionsTellTheTruth)
<1> SUFFICES ASSUME NothingIsNoDocument PROVE Spec => []CorrectionsTellTheTruth
  OBVIOUS
<1>1. IInv => CorrectionsTellTheTruth
  BY DEF IInv
<1>2. QED  BY <1>1, Initially, Inductive, PTL DEF Spec
===============================================================================
