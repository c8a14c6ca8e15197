------------------------- MODULE DocumentEngine_proofs -------------------------
(***************************************************************************)
(* What holds of any number of documents, slots, versions and handlers.    *)
(* A handler is followed by the steps it has left (Now, Before, Fits): the *)
(* types need that what a step uses was set by a step before it.  The      *)
(* checks of approve and markFinal outlive the steps between them and      *)
(* their update because the update asks for the recordVersion they saw     *)
(* (Vouches).  With one request at a time the record, its words and its    *)
(* history agree between requests, and in each handler as far as it has    *)
(* come (Settled).  A withdrawal keeps, for each document downstream, a    *)
(* handler that will tell it or a reason it was told, and the lock on      *)
(* prerequisites keeps it from losing that reason (DependentsWarned).      *)
(***************************************************************************)
EXTENDS DocumentEngine, SequenceTheorems, WellFoundedInduction, TLAPS

(* What a handler has left to do *)

\* The step a handler takes next.
Now(h) == Head(h.steps)

\* The order of the steps of each operation, once there is a record.
Cutting == {"generate", "restore", "regenerateRows", "regenerateFeatures", "edit", "exclude",
            "reopen", "revise"}
Copying == {"reopen", "revise"}
InPlace == {"edit", "exclude"}
Before(op, b) == \* the steps that b comes after
    CASE b = "read" -> IF op = "edit" THEN {"change"}
                       ELSE IF op = "exclude" THEN {"exclude"} ELSE {}
      [] b = "plan" -> IF op \in InPlace THEN {"read"}
                       ELSE IF op \in Cutting \ {"regenerateRows"} THEN {"archive"} ELSE {}
      [] b = "archive" -> IF op = "regenerateRows" THEN {"plan"} ELSE {}
      [] b = "live" -> IF op \in InPlace THEN {"plan"} ELSE {}
      [] b = "commit" -> IF op \in InPlace THEN {"live"}
                         ELSE IF op = "regenerateRows" THEN {"archive"}
                         ELSE IF op \in Copying THEN {"write"}
                         ELSE IF op = "validate" THEN {"read"}
                         ELSE IF op \in Cutting THEN {"plan"} ELSE {}
      [] b = "write" -> IF op \in Copying THEN {"plan"}
                        ELSE IF op \in Cutting THEN {"commit"} ELSE {}
      [] b = "record" -> IF op \in Copying \cup {"approve", "markFinal"} THEN {"commit"}
                         ELSE IF op \in Cutting \ {"regenerateFeatures"} THEN {"write"} ELSE {}
      [] b = "tell" -> IF op \in InPlace \cup Copying THEN {"record"}
                       ELSE IF op = "regenerateFeatures" THEN {"write"} ELSE {}
      [] OTHER -> {}
Follows(op, a, b) == a \in Before(op, b)

\* The step an operation may end with.
Ends(op, a) ==
    \/ /\ op \in {"generate", "restore", "regenerateRows", "edit", "exclude", "approve", "markFinal"}
       /\ a = "record"
    \/ op = "regenerateFeatures" /\ a = "write"
    \/ op \in {"edit", "exclude", "regenerateFeatures", "reopen", "revise"} /\ a = "tell"
    \/ op \in {"validate", "acknowledge"} /\ a = "commit"
    \/ op = "suggest" /\ a = "change"

Ordered(op, s) ==
    /\ s \in Seq(Step) /\ s # <<>> /\ Ends(op, s[Len(s)])
    /\ \A i \in 1 .. Len(s) - 1 : Follows(op, s[i], s[i + 1])

\* A first generation creates its record; every other handler has read one.
FirstSteps == {<<"plan", "create", "write", "record">>, <<"create", "write", "record">>}
InOrder(h) ==
    IF h.read = Absent THEN h.op = "generate" /\ h.steps \in FirstSteps /\ h.expected = 0
    ELSE Ordered(h.op, h.steps)

LEMMA OrderedTail ==
    ASSUME NEW op, NEW s, Ordered(op, s)
    PROVE  /\ Head(s) \in Step /\ Tail(s) \in Seq(Step)
           /\ Tail(s) = <<>> => Ends(op, Head(s))
           /\ Tail(s) # <<>> => Ordered(op, Tail(s)) /\ Follows(op, Head(s), Head(Tail(s)))
<1>1. /\ s \in Seq(Step) /\ Len(s) \in Nat /\ Len(s) > 0 /\ Head(s) = s[1] /\ s[1] \in Step
      /\ Tail(s) \in Seq(Step) /\ Len(Tail(s)) = Len(s) - 1
      /\ \A i \in 1 .. Len(s) - 1 : Tail(s)[i] = s[i + 1]
  <2>1. s \in Seq(Step) /\ s # <<>>
    BY DEF Ordered
  <2>2. Head(s) \in Step /\ Tail(s) \in Seq(Step) /\ Len(Tail(s)) = Len(s) - 1
        /\ \A i \in 1 .. Len(Tail(s)) : Tail(s)[i] = s[i + 1]
    BY <2>1, HeadTailProperties
  <2>3. Len(s) \in Nat /\ Len(s) > 0 /\ Head(s) = s[1]
    BY <2>1
  <2>4. QED  BY <2>1, <2>2, <2>3
<1>2. CASE Tail(s) = <<>>
  <2>1. Len(s) = 1
    <3>1. Len(Tail(s)) = 0
      BY <1>2, Len(<<>>) = 0
    <3>2. \A n \in Nat : n - 1 = 0 => n = 1
      OBVIOUS
    <3>3. QED  BY <1>1, <3>1, <3>2
  <2>2. QED  BY <1>1, <1>2, <2>1 DEF Ordered
<1>3. CASE Tail(s) # <<>>
  <2>1. Len(s) > 1 /\ Head(Tail(s)) = s[2]
    BY <1>1, <1>3
  <2>2. Follows(op, s[1], s[2])
    <3>1. 1 \in 1 .. Len(s) - 1
      BY <1>1, <2>1
    <3>2. QED  BY <3>1 DEF Ordered
  <2>3. Ends(op, Tail(s)[Len(Tail(s))])
    BY <1>1, <2>1 DEF Ordered
  <2>4. \A i \in 1 .. Len(Tail(s)) - 1 : Follows(op, Tail(s)[i], Tail(s)[i + 1])
    <3>1. TAKE i \in 1 .. Len(Tail(s)) - 1
    <3>2. i + 1 \in 1 .. Len(s) - 1 /\ i \in 1 .. Len(s) - 1
      BY <1>1
    <3>3. Tail(s)[i] = s[i + 1] /\ Tail(s)[i + 1] = s[(i + 1) + 1]
      BY <1>1, <3>2
    <3>4. Follows(op, s[i + 1], s[(i + 1) + 1])
      BY <3>2 DEF Ordered
    <3>5. QED  BY <3>3, <3>4
  <2>5. QED  BY <1>1, <1>3, <2>1, <2>2, <2>3, <2>4 DEF Ordered
<1>4. QED  BY <1>2, <1>3

\* The plans of section "How a handler begins", and with one more step at the end.
LEMMA OrderedAppend ==
    ASSUME NEW op, NEW s, Ordered(op, s), Follows(op, s[Len(s)], "tell"), Ends(op, "tell")
    PROVE  Ordered(op, Append(s, "tell"))
<1> DEFINE t == Append(s, "tell")
<1>1. s \in Seq(Step) /\ "tell" \in Step /\ Len(s) \in Nat /\ Len(s) > 0
  BY DEF Ordered, Step
<1>2. /\ t \in Seq(Step) /\ t # <<>> /\ Len(t) = Len(s) + 1 /\ t[Len(s) + 1] = "tell"
      /\ \A i \in 1 .. Len(s) : t[i] = s[i]
  BY <1>1, AppendProperties
<1> HIDE DEF t
<1>3. \A i \in 1 .. Len(t) - 1 : Follows(op, t[i], t[i + 1])
  <2>1. TAKE i \in 1 .. Len(t) - 1
  <2>2. CASE i = Len(s)
    BY <1>1, <1>2, <2>2
  <2>3. CASE i # Len(s)
    <3>1. i \in 1 .. Len(s) - 1 /\ i + 1 \in 1 .. Len(s) /\ i \in 1 .. Len(s)
      BY <1>1, <1>2, <2>3
    <3>2. QED  BY <1>2, <3>1 DEF Ordered
  <2>4. QED  BY <2>2, <2>3
<1>4. QED  BY <1>1, <1>2, <1>3 DEF Ordered, t

LEMMA Plans ==
    /\ \A op \in {"generate", "restore"} : Ordered(op, <<"archive", "plan", "commit", "write", "record">>)
    /\ Ordered("regenerateRows", <<"plan", "archive", "commit", "write", "record">>)
    /\ Ordered("regenerateFeatures", <<"archive", "plan", "commit", "write">>)
    /\ Ordered("edit", <<"change", "read", "plan", "live", "commit", "write", "record">>)
    /\ Ordered("exclude", <<"exclude", "read", "plan", "live", "commit", "write", "record">>)
    /\ Ordered("suggest", <<"change">>)
    /\ Ordered("validate", <<"read", "commit">>)
    /\ Ordered("acknowledge", <<"commit">>)
    /\ \A op \in {"approve", "markFinal"} : Ordered(op, <<"commit", "record">>)
    /\ \A op \in {"reopen", "revise"} :
          Ordered(op, <<"archive", "plan", "write", "commit", "record", "tell">>)
<1>1. ASSUME NEW op \in {"generate", "restore"}
      PROVE  Ordered(op, <<"archive", "plan", "commit", "write", "record">>)
  <2> DEFINE s == <<"archive", "plan", "commit", "write", "record">>
  <2>1. s \in Seq(Step) /\ s # <<>> /\ Len(s) = 5 /\ Ends(op, s[5])
    BY <1>1 DEF Step, Ends
  <2>2. /\ s[1] = "archive" /\ s[2] = "plan" /\ s[3] = "commit" /\ s[4] = "write"
        /\ s[5] = "record"
    OBVIOUS
  <2> HIDE DEF s
  <2>3. /\ Follows(op, s[1], s[2]) /\ Follows(op, s[2], s[3]) /\ Follows(op, s[3], s[4])
        /\ Follows(op, s[4], s[5])
    BY <2>2, <1>1 DEF Follows, Before, Cutting, Copying, InPlace
  <2>4. \A i \in 1 .. 4 : i = 1 \/ i = 2 \/ i = 3 \/ i = 4
    OBVIOUS
  <2>5. Ordered(op, s)
    BY <2>1, <2>3, <2>4 DEF Ordered
  <2>6. QED  BY <2>5 DEF s
<1>2. Ordered("regenerateRows", <<"plan", "archive", "commit", "write", "record">>)
  <2> DEFINE s == <<"plan", "archive", "commit", "write", "record">>
  <2>1. s \in Seq(Step) /\ s # <<>> /\ Len(s) = 5 /\ Ends("regenerateRows", s[5])
    BY DEF Step, Ends
  <2>2. /\ s[1] = "plan" /\ s[2] = "archive" /\ s[3] = "commit" /\ s[4] = "write"
        /\ s[5] = "record"
    OBVIOUS
  <2> HIDE DEF s
  <2>3. /\ Follows("regenerateRows", s[1], s[2]) /\ Follows("regenerateRows", s[2], s[3]) /\ Follows("regenerateRows", s[3], s[4])
        /\ Follows("regenerateRows", s[4], s[5])
    BY <2>2 DEF Follows, Before, Cutting, Copying, InPlace
  <2>4. \A i \in 1 .. 4 : i = 1 \/ i = 2 \/ i = 3 \/ i = 4
    OBVIOUS
  <2>5. Ordered("regenerateRows", s)
    BY <2>1, <2>3, <2>4 DEF Ordered
  <2>6. QED  BY <2>5 DEF s
<1>3. Ordered("regenerateFeatures", <<"archive", "plan", "commit", "write">>)
  <2> DEFINE s == <<"archive", "plan", "commit", "write">>
  <2>1. s \in Seq(Step) /\ s # <<>> /\ Len(s) = 4 /\ Ends("regenerateFeatures", s[4])
    BY DEF Step, Ends
  <2>2. s[1] = "archive" /\ s[2] = "plan" /\ s[3] = "commit" /\ s[4] = "write"
    OBVIOUS
  <2> HIDE DEF s
  <2>3. Follows("regenerateFeatures", s[1], s[2]) /\ Follows("regenerateFeatures", s[2], s[3]) /\ Follows("regenerateFeatures", s[3], s[4])
    BY <2>2 DEF Follows, Before, Cutting, Copying, InPlace
  <2>4. \A i \in 1 .. 3 : i = 1 \/ i = 2 \/ i = 3
    OBVIOUS
  <2>5. Ordered("regenerateFeatures", s)
    BY <2>1, <2>3, <2>4 DEF Ordered
  <2>6. QED  BY <2>5 DEF s
<1>4. Ordered("edit", <<"change", "read", "plan", "live", "commit", "write", "record">>)
  <2> DEFINE s == <<"change", "read", "plan", "live", "commit", "write", "record">>
  <2>1. s \in Seq(Step) /\ s # <<>> /\ Len(s) = 7 /\ Ends("edit", s[7])
    BY DEF Step, Ends
  <2>2. /\ s[1] = "change" /\ s[2] = "read" /\ s[3] = "plan" /\ s[4] = "live"
        /\ s[5] = "commit" /\ s[6] = "write" /\ s[7] = "record"
    OBVIOUS
  <2> HIDE DEF s
  <2>3. /\ Follows("edit", s[1], s[2]) /\ Follows("edit", s[2], s[3]) /\ Follows("edit", s[3], s[4])
        /\ Follows("edit", s[4], s[5]) /\ Follows("edit", s[5], s[6]) /\ Follows("edit", s[6], s[7])
    BY <2>2 DEF Follows, Before, Cutting, Copying, InPlace
  <2>4. \A i \in 1 .. 6 : i = 1 \/ i = 2 \/ i = 3 \/ i = 4 \/ i = 5 \/ i = 6
    OBVIOUS
  <2>5. Ordered("edit", s)
    BY <2>1, <2>3, <2>4 DEF Ordered
  <2>6. QED  BY <2>5 DEF s
<1>5. Ordered("exclude", <<"exclude", "read", "plan", "live", "commit", "write", "record">>)
  <2> DEFINE s == <<"exclude", "read", "plan", "live", "commit", "write", "record">>
  <2>1. s \in Seq(Step) /\ s # <<>> /\ Len(s) = 7 /\ Ends("exclude", s[7])
    BY DEF Step, Ends
  <2>2. /\ s[1] = "exclude" /\ s[2] = "read" /\ s[3] = "plan" /\ s[4] = "live"
        /\ s[5] = "commit" /\ s[6] = "write" /\ s[7] = "record"
    OBVIOUS
  <2> HIDE DEF s
  <2>3. /\ Follows("exclude", s[1], s[2]) /\ Follows("exclude", s[2], s[3]) /\ Follows("exclude", s[3], s[4])
        /\ Follows("exclude", s[4], s[5]) /\ Follows("exclude", s[5], s[6]) /\ Follows("exclude", s[6], s[7])
    BY <2>2 DEF Follows, Before, Cutting, Copying, InPlace
  <2>4. \A i \in 1 .. 6 : i = 1 \/ i = 2 \/ i = 3 \/ i = 4 \/ i = 5 \/ i = 6
    OBVIOUS
  <2>5. Ordered("exclude", s)
    BY <2>1, <2>3, <2>4 DEF Ordered
  <2>6. QED  BY <2>5 DEF s
<1>6. Ordered("suggest", <<"change">>) /\ Ordered("acknowledge", <<"commit">>)
  BY DEF Ordered, Follows, Before, Cutting, Copying, InPlace, Ends, Step
<1>7. Ordered("validate", <<"read", "commit">>)
  BY DEF Ordered, Follows, Before, Cutting, Copying, InPlace, Ends, Step
<1>8. ASSUME NEW op \in {"approve", "markFinal"} PROVE Ordered(op, <<"commit", "record">>)
  BY <1>8 DEF Ordered, Follows, Before, Cutting, Copying, InPlace, Ends, Step
<1>9. ASSUME NEW op \in {"reopen", "revise"}
      PROVE  Ordered(op, <<"archive", "plan", "write", "commit", "record", "tell">>)
  <2> DEFINE s == <<"archive", "plan", "write", "commit", "record", "tell">>
  <2>1. s \in Seq(Step) /\ s # <<>> /\ Len(s) = 6 /\ Ends(op, s[6])
    BY <1>9 DEF Step, Ends
  <2>2. /\ s[1] = "archive" /\ s[2] = "plan" /\ s[3] = "write" /\ s[4] = "commit"
        /\ s[5] = "record" /\ s[6] = "tell"
    OBVIOUS
  <2> HIDE DEF s
  <2>3. /\ Follows(op, s[1], s[2]) /\ Follows(op, s[2], s[3]) /\ Follows(op, s[3], s[4])
        /\ Follows(op, s[4], s[5]) /\ Follows(op, s[5], s[6])
    BY <2>2, <1>9 DEF Follows, Before, Cutting, Copying, InPlace
  <2>4. \A i \in 1 .. 5 : i = 1 \/ i = 2 \/ i = 3 \/ i = 4 \/ i = 5
    OBVIOUS
  <2>5. Ordered(op, s)
    BY <2>1, <2>3, <2>4 DEF Ordered
  <2>6. QED  BY <2>5 DEF s
<1>10. QED  BY <1>1, <1>2, <1>3, <1>4, <1>5, <1>6, <1>7, <1>8, <1>9

LEMMA Tellings ==
    ASSUME NEW d \in Doc
    PROVE  /\ Ordered("regenerateFeatures", RegenerateFeatures(d))
           /\ Ordered("edit", Telling(d, <<"change", "read", "plan", "live", "commit", "write", "record">>))
           /\ Ordered("exclude", Telling(d, <<"exclude", "read", "plan", "live", "commit", "write", "record">>))
<1>1. LET s == <<"archive", "plan", "commit", "write">>
      IN  Follows("regenerateFeatures", s[Len(s)], "tell") /\ Ends("regenerateFeatures", "tell")
  BY DEF Follows, Before, Cutting, Copying, InPlace, Ends
<1>2. LET s == <<"change", "read", "plan", "live", "commit", "write", "record">>
      IN  Follows("edit", s[Len(s)], "tell") /\ Ends("edit", "tell")
  BY DEF Follows, Before, Cutting, Copying, InPlace, Ends
<1>3. LET s == <<"exclude", "read", "plan", "live", "commit", "write", "record">>
      IN  Follows("exclude", s[Len(s)], "tell") /\ Ends("exclude", "tell")
  BY DEF Follows, Before, Cutting, Copying, InPlace, Ends
<1>4. QED  BY <1>1, <1>2, <1>3, Plans, OrderedAppend DEF Telling, RegenerateFeatures

-----------------------------------------------------------------------------
(* Records, versions and the order of telling *)

LEMMA Greatest ==
    ASSUME NEW n \in Nat, NEW U \in SUBSET (1 .. n), U # {}
    PROVE  \E v \in U : \A u \in U : u <= v
<1> DEFINE T == {n - u : u \in U}
           R == OpToRel(<, Nat)
<1>1. T \subseteq Nat /\ T # {}
  <2>1. \A u \in U : u \in 1 .. n /\ n - u \in Nat
    OBVIOUS
  <2>2. PICK u \in U : TRUE
    OBVIOUS
  <2>3. n - u \in T
    BY <2>2
  <2>4. QED  BY <2>1, <2>3
<1>2. \A x, y \in Nat : x < y => <<x, y>> \in R
  BY DEF OpToRel
<1> HIDE DEF T, R
<1>3. IsWellFoundedOn(R, Nat)
  BY NatLessThanWellFounded DEF R
<1>4. PICK x \in T : \A y \in T : ~(<<y, x>> \in R)
  BY <1>1, <1>3, WFMin
<1>5. PICK v \in U : x = n - v
  BY DEF T
<1>6. \A u \in U : u <= v
  <2>1. TAKE u \in U
  <2>2. n - u \in T /\ n - u \in Nat /\ x \in Nat
    BY <1>1 DEF T
  <2>3. ~(n - u < x)
    BY <1>2, <1>4, <2>2
  <2>4. QED  BY <1>5, <2>2, <2>3
<1>7. QED  BY <1>6

\* nextVersion is greater than every version of the history.
LEMMA NextVersionFacts ==
    ASSUME NEW d \in Doc
    PROVE  /\ NextVersion(d) \in Nat /\ NextVersion(d) >= 1
           /\ \A v \in Version : archived[d][v] # Absent => v < NextVersion(d)
<1> DEFINE used == {v \in Version : archived[d][v] # Absent}
<1>1. used \in SUBSET (1 .. MaxVersion) /\ MaxVersion \in Nat
  BY EngineAssumption DEF Version
<1>2. NextVersion(d) = IF used = {} THEN 1
                       ELSE 1 + (CHOOSE v \in used : \A u \in used : u <= v)
  BY DEF NextVersion
<1>3. \A v \in Version : archived[d][v] # Absent => v \in used
  OBVIOUS
<1> HIDE DEF used
<1>4. CASE used = {}
  BY <1>2, <1>3, <1>4
<1>5. CASE used # {}
  <2> DEFINE m == CHOOSE v \in used : \A u \in used : u <= v
  <2>1. \E v \in used : \A u \in used : u <= v
    BY <1>1, <1>5, Greatest
  <2>2. m \in used /\ \A u \in used : u <= m
    BY <2>1
  <2> HIDE DEF m
  <2>3. NextVersion(d) = 1 + m
    BY <1>2, <1>5 DEF m
  <2>4. m \in Nat /\ m >= 1 /\ 1 + m \in Nat
    <3>1. m \in 1 .. MaxVersion
      BY <1>1, <2>2
    <3>2. QED  BY <1>1, <3>1
  <2>5. ASSUME NEW v \in Version, archived[d][v] # Absent PROVE v < 1 + m
    <3>1. v \in Nat /\ v <= m
      BY <1>1, <1>3, <2>2, <2>5 DEF Version
    <3>2. QED  BY <2>4, <3>1
  <2>6. QED  BY <2>3, <2>4, <2>5
<1>6. QED  BY <1>4, <1>5

LEMMA FirstToTell ==
    ASSUME NEW S \in SUBSET DocumentType, S # {}
    PROVE  /\ NextToTell(S) \in S
           /\ \E i \in 1 .. 7 : /\ DocumentTypes[i] = NextToTell(S)
                               /\ \A j \in 1 .. (i - 1) : DocumentTypes[j] \notin S
<1> DEFINE First(d) == \E i \in 1 .. 7 :
               DocumentTypes[i] = d /\ \A j \in 1 .. (i - 1) : DocumentTypes[j] \notin S
           I == {i \in 1 .. 7 : DocumentTypes[i] \in S}
           T == {8 - i : i \in I}
<1>1. PICK i \in I : \A j \in I : i <= j
  <2>1. I # {} /\ I \subseteq 1 .. 7
    BY DEF DocumentType
  <2> HIDE DEF I
  <2>2. \A i \in I : i \in 1 .. 7 /\ 8 - i \in 1 .. 7 /\ 8 - i \in T
    BY <2>1
  <2>3. T \in SUBSET (1 .. 7) /\ T # {}
    BY <2>1, <2>2
  <2>5. PICK i \in I : \A u \in T : u <= 8 - i
    <3>1. PICK v \in T : \A u \in T : u <= v
      BY <2>3, Greatest
    <3>2. QED  BY <3>1
  <2> HIDE DEF T
  <2>6. \A j \in I : i <= j
    <3>1. TAKE j \in I
    <3>2. 8 - j <= 8 - i /\ j \in 1 .. 7 /\ i \in 1 .. 7
      BY <2>2, <2>5
    <3>3. QED  BY <3>2
  <2>7. QED  BY <2>6
<1>2. \A j \in 1 .. (i - 1) : DocumentTypes[j] \notin S
  BY <1>1
<1>3. DocumentTypes[i] \in S /\ First(DocumentTypes[i])
  BY <1>1, <1>2
<1> HIDE DEF First, I, T
<1>4. NextToTell(S) = CHOOSE d \in S : First(d)
  BY DEF NextToTell, First
<1>5. NextToTell(S) \in S /\ First(NextToTell(S))
  BY <1>3, <1>4
<1>6. QED  BY <1>5 DEF First

-----------------------------------------------------------------------------
(* How handlers begin *)

New(d, op, steps, text, passes) ==
    [op |-> op, doc |-> d, steps |-> steps, read |-> documents[d],
     expected |-> IF Exists(d) THEN documents[d].recordVersion ELSE 0,
     version |-> 0, text |-> text, passes |-> passes,
     against |-> UpstreamFields(d),
     untold |-> DownstreamDocuments(d) \cap Doc, reasons |-> Unread]

\* The step each operation begins with when there is a record.
Start(op) ==
    CASE op \in {"generate", "restore", "regenerateFeatures", "reopen", "revise"} -> "archive"
      [] op = "regenerateRows" -> "plan"
      [] op \in {"edit", "suggest"} -> "change"
      [] op = "exclude" -> "exclude"
      [] op = "validate" -> "read"
      [] OTHER -> "commit"

\* What an operation has checked in the record.
Checked(d, op) ==
    /\ op \notin {"validate", "approve", "markFinal", "reopen", "revise"} =>
          Status(d) # "FINAL" /\ Unlocked(d)
    /\ op = "suggest" => d = "ASSUMPTIONS"
    /\ op = "regenerateRows" => d \in RowDocument
    /\ op = "regenerateFeatures" => d \notin RowDocument
    /\ op = "acknowledge" => documents[d].validation # NoValidation
    /\ op = "approve" =>
          /\ Status(d) \in {"DRAFT", "NEEDS_REVISION"} /\ Reasons(d) = {}
          /\ ValidationPermits(documents[d])
          /\ \A p \in Prerequisites(d) : Exists(p) => Authoritative(p)
    /\ op = "markFinal" => Status(d) = "APPROVED" /\ Reasons(d) = {}
    /\ op = "reopen" => Status(d) = "APPROVED"
    /\ op = "revise" => Status(d) = "FINAL"

Entered(d, op, steps) ==
    IF Exists(d) THEN Ordered(op, steps) /\ Head(steps) = Start(op) /\ Checked(d, op)
    ELSE op = "generate" /\ steps = <<"plan", "create", "write", "record">> /\ Unlocked(d)

Asked(r, d, op, steps, text, passes) ==
    /\ Free(r)
    /\ request' = [request EXCEPT ![r] = New(d, op, steps, text, passes)]
    /\ Entered(d, op, steps)
    /\ overlaps' = IF Overlapping THEN overlaps + 1 ELSE overlaps
    /\ texts' = texts \/ (texts < MaxTexts /\ texts' = texts + 1)
    /\ UNCHANGED <<documents, content, archived, upstream, aborts>>

Accepted(r) ==
    \E d \in Doc, op \in Operation, steps \in Seq(Step), text \in Nat, passes \in BOOLEAN :
        Asked(r, d, op, steps, text, passes)

LEMMA Starts ==
    /\ \A op \in {"generate", "restore"} :
          Head(<<"archive", "plan", "commit", "write", "record">>) = Start(op)
    /\ Head(<<"plan", "archive", "commit", "write", "record">>) = Start("regenerateRows")
    /\ Head(<<"change">>) = Start("suggest")
    /\ Head(<<"read", "commit">>) = Start("validate")
    /\ Head(<<"commit">>) = Start("acknowledge")
    /\ \A op \in {"approve", "markFinal"} : Head(<<"commit", "record">>) = Start(op)
    /\ \A op \in {"reopen", "revise"} :
          Head(<<"archive", "plan", "write", "commit", "record", "tell">>) = Start(op)
BY DEF Start

LEMMA TellingStarts ==
    ASSUME NEW d \in Doc
    PROVE  /\ Head(RegenerateFeatures(d)) = Start("regenerateFeatures")
           /\ Head(Telling(d, <<"change", "read", "plan", "live", "commit", "write", "record">>))
                = Start("edit")
           /\ Head(Telling(d, <<"exclude", "read", "plan", "live", "commit", "write", "record">>))
                = Start("exclude")
<1>1. Head(RegenerateFeatures(d)) = "archive"
  BY DEF RegenerateFeatures, Telling
<1>2. Head(Telling(d, <<"change", "read", "plan", "live", "commit", "write", "record">>)) = "change"
  BY DEF Telling
<1>3. Head(Telling(d, <<"exclude", "read", "plan", "live", "commit", "write", "record">>)) = "exclude"
  BY DEF Telling
<1>4. QED  BY <1>1, <1>2, <1>3 DEF Start

LEMMA BegunAsked ==
    ASSUME TypeInv, NEW r \in Request, NEW d \in Doc, NEW op, NEW steps, NEW text, NEW passes,
           Free(r), Begin(r, d, op, steps, text, passes), Entered(d, op, steps),
           texts' = texts \/ (texts < MaxTexts /\ texts' = texts + 1)
    PROVE  Asked(r, d, op, steps, text, passes)
BY DEF Asked, Begin, New

LEMMA AskSteps ==
    ASSUME TypeInv, NEW r \in Request, Ask(r)
    PROVE  Accepted(r)
<1>f. Free(r) /\ texts \in Nat /\ MaxTexts \in Nat
  BY EngineAssumption DEF Ask, TypeInv
<1>s. \A op, steps : Ordered(op, steps) => steps \in Seq(Step)
  BY DEF Ordered
<1>p. <<"plan", "create", "write", "record">> \in Seq(Step)
  BY DEF Step
<1>a. ASSUME NEW d \in Doc, NEW op \in Operation, NEW steps, NEW text \in Nat,
             NEW passes \in BOOLEAN, Begin(r, d, op, steps, text, passes), Entered(d, op, steps),
             texts' = texts \/ (texts < MaxTexts /\ texts' = texts + 1)
      PROVE  Accepted(r)
  <2>1. steps \in Seq(Step)
    BY <1>a, <1>s, <1>p DEF Entered
  <2>2. QED  BY <1>a, <1>f, <2>1, BegunAsked DEF Accepted
<1>w. ASSUME NEW d \in Doc, NEW op \in Operation, NEW steps, BeginWriting(r, d, op, steps),
             Entered(d, op, steps)
      PROVE  Accepted(r)
  <2>1. texts + 1 \in Nat /\ FALSE \in BOOLEAN
    BY <1>f
  <2>2. QED  BY <1>a, <1>w, <2>1 DEF BeginWriting
<1>c. ASSUME NEW d \in Doc, NEW op \in Operation, NEW steps, NEW text \in Nat,
             BeginCopying(r, d, op, steps, text), Entered(d, op, steps)
      PROVE  Accepted(r)
  BY <1>a, <1>c DEF BeginCopying
<1>o. /\ {"generate", "restore", "regenerateRows", "regenerateFeatures", "edit", "exclude",
          "suggest", "validate", "acknowledge", "approve", "markFinal", "reopen", "revise"}
            \subseteq Operation
  BY DEF Operation
<1>g. PICK d \in Doc :
        \/ Generate(r, d) \/ EditInPlace(r, d) \/ ExcludeRequirement(r, d)
        \/ AddAssumptionCandidates(r, d) \/ Regenerate(r, d)
        \/ Restore(r, d) \/ Validate(r, d) \/ AcknowledgeFinding(r, d) \/ Approve(r, d)
        \/ MarkFinal(r, d) \/ Reopen(r, d) \/ Revise(r, d)
  BY DEF Ask
<1>e. ASSUME Editable(d), NEW op \in Operation,
             op \notin {"regenerateRows", "regenerateFeatures", "suggest", "acknowledge",
                        "approve", "markFinal", "reopen", "revise"}
      PROVE  Exists(d) /\ Checked(d, op)
  BY <1>e DEF Editable, Checked, IsEditable
<1>1. CASE Generate(r, d)
  <2>1. CASE /\ Exists(d) /\ CanGenerate(Status(d)) /\ Unlocked(d)
             /\ BeginWriting(r, d, "generate", <<"archive", "plan", "commit", "write", "record">>)
    <3>1. Status(d) # "FINAL"
      BY <2>1 DEF CanGenerate, CanTransition
    <3>2. Entered(d, "generate", <<"archive", "plan", "commit", "write", "record">>)
      BY <2>1, <3>1, Plans, Starts DEF Entered, Checked
    <3>3. QED  BY <1>w, <1>o, <2>1, <3>2
  <2>2. CASE /\ ~Exists(d) /\ Unlocked(d)
             /\ BeginWriting(r, d, "generate", <<"plan", "create", "write", "record">>)
    <3>1. Entered(d, "generate", <<"plan", "create", "write", "record">>)
      BY <2>2 DEF Entered
    <3>2. QED  BY <1>w, <1>o, <2>2, <3>1
  <2>3. QED  BY <1>1, <2>1, <2>2 DEF Generate
<1>2. CASE EditInPlace(r, d)
  <2> DEFINE s == Telling(d, <<"change", "read", "plan", "live", "commit", "write", "record">>)
  <2>1. Editable(d) /\ BeginWriting(r, d, "edit", s)
    BY <1>2 DEF EditInPlace
  <2>2. Ordered("edit", s) /\ Head(s) = Start("edit")
    BY Tellings, TellingStarts
  <2> HIDE DEF s
  <2>3. Entered(d, "edit", s)
    BY <1>e, <1>o, <2>1, <2>2 DEF Entered
  <2>4. QED  BY <1>w, <1>o, <2>1, <2>3
<1>3. CASE ExcludeRequirement(r, d)
  <2> DEFINE s == Telling(d, <<"exclude", "read", "plan", "live", "commit", "write", "record">>)
  <2>1. Editable(d) /\ BeginCopying(r, d, "exclude", s, 0)
    BY <1>3 DEF ExcludeRequirement
  <2>2. Ordered("exclude", s) /\ Head(s) = Start("exclude")
    BY Tellings, TellingStarts
  <2> HIDE DEF s
  <2>3. Entered(d, "exclude", s)
    BY <1>e, <1>o, <2>1, <2>2 DEF Entered
  <2>4. QED  BY <1>c, <1>o, <2>1, <2>3
<1>4. CASE AddAssumptionCandidates(r, d)
  <2>1. Editable(d) /\ d = "ASSUMPTIONS" /\ BeginWriting(r, d, "suggest", <<"change">>)
    BY <1>4 DEF AddAssumptionCandidates
  <2>2. Exists(d) /\ Checked(d, "suggest")
    BY <2>1 DEF Editable, IsEditable, Checked
  <2>3. Entered(d, "suggest", <<"change">>)
    BY <2>2, Plans, Starts DEF Entered
  <2>4. QED  BY <1>w, <1>o, <2>1, <2>3
<1>5. CASE Regenerate(r, d)
  <2>1. CASE d \in RowDocument /\ Editable(d) /\ BeginWriting(r, d, "regenerateRows", RegenerateRows(d))
    <3>1. Exists(d) /\ Checked(d, "regenerateRows")
      BY <2>1 DEF Editable, IsEditable, Checked
    <3>2. Entered(d, "regenerateRows", RegenerateRows(d))
      BY <3>1, Plans, Starts DEF Entered, RegenerateRows
    <3>3. QED  BY <1>w, <1>o, <2>1, <3>2
  <2>2. CASE d \notin RowDocument /\ Editable(d)
             /\ BeginWriting(r, d, "regenerateFeatures", RegenerateFeatures(d))
    <3>1. Exists(d) /\ Checked(d, "regenerateFeatures")
      BY <2>2 DEF Editable, IsEditable, Checked
    <3>2. Entered(d, "regenerateFeatures", RegenerateFeatures(d))
      BY <3>1, Tellings, TellingStarts DEF Entered
    <3>3. QED  BY <1>w, <1>o, <2>2, <3>2
  <2>3. QED  BY <1>5, <2>1, <2>2 DEF Regenerate
<1>6. CASE Restore(r, d)
  <2>1. PICK v \in Version :
           /\ archived[d][v] # Absent
           /\ BeginCopying(r, d, "restore",
                <<"archive", "plan", "commit", "write", "record">>, archived[d][v].text)
    BY <1>6 DEF Restore
  <2>2. Editable(d)
    BY <1>6 DEF Restore
  <2>3. archived[d][v] \in Archived
    BY <2>1 DEF TypeInv
  <2>4. archived[d][v].text \in Nat
    BY <2>3 DEF Archived
  <2>5. Entered(d, "restore", <<"archive", "plan", "commit", "write", "record">>)
    BY <1>e, <1>o, <2>2, Plans, Starts DEF Entered
  <2>6. QED  BY <1>c, <1>o, <2>1, <2>4, <2>5
<1>7. CASE Validate(r, d)
  <2>1. Exists(d) /\ UNCHANGED texts
    BY <1>7 DEF Validate
  <2>2. PICK passes \in BOOLEAN : Begin(r, d, "validate", <<"read", "commit">>, 0, passes)
    BY <1>7 DEF Validate
  <2>3. Entered(d, "validate", <<"read", "commit">>)
    BY <2>1, Plans, Starts DEF Entered, Checked
  <2>4. QED  BY <1>a, <1>o, <2>1, <2>2, <2>3
<1>8. CASE AcknowledgeFinding(r, d)
  <2>1. /\ Editable(d) /\ documents[d].validation # NoValidation /\ UNCHANGED texts
        /\ Begin(r, d, "acknowledge", <<"commit">>, 0, FALSE)
    BY <1>8 DEF AcknowledgeFinding
  <2>2. Entered(d, "acknowledge", <<"commit">>)
    BY <2>1, Plans, Starts DEF Entered, Checked, Editable, IsEditable
  <2>3. QED  BY <1>a, <1>o, <2>1, <2>2
<1>9. CASE Approve(r, d)
  <2>1. Begin(r, d, "approve", <<"commit", "record">>, 0, FALSE) /\ UNCHANGED texts
    BY <1>9 DEF Approve
  <2>2. Entered(d, "approve", <<"commit", "record">>)
    <3>1. Exists(d) /\ Checked(d, "approve")
      BY <1>9 DEF Approve, Checked, CanTransition
    <3>2. QED  BY <3>1, Plans, Starts DEF Entered
  <2>3. QED  BY <1>a, <1>o, <2>1, <2>2
<1>10. CASE MarkFinal(r, d)
  <2>1. Begin(r, d, "markFinal", <<"commit", "record">>, 0, FALSE) /\ UNCHANGED texts
    BY <1>10 DEF MarkFinal
  <2>2. Entered(d, "markFinal", <<"commit", "record">>)
    <3>1. Exists(d) /\ Checked(d, "markFinal")
      BY <1>10 DEF MarkFinal, Checked, CanTransition
    <3>2. QED  BY <3>1, Plans, Starts DEF Entered
  <2>3. QED  BY <1>a, <1>o, <2>1, <2>2
<1>11. CASE Reopen(r, d)
  <2> DEFINE s == <<"archive", "plan", "write", "commit", "record", "tell">>
  <2>1. Exists(d) /\ Checked(d, "reopen") /\ BeginCopying(r, d, "reopen", s, 0)
    BY <1>11 DEF Reopen, Checked
  <2>2. Entered(d, "reopen", s)
    BY <2>1, Plans, Starts DEF Entered
  <2> HIDE DEF s
  <2>3. QED  BY <1>c, <1>o, <2>1, <2>2
<1>12. CASE Revise(r, d)
  <2> DEFINE s == <<"archive", "plan", "write", "commit", "record", "tell">>
  <2>1. Exists(d) /\ Checked(d, "revise") /\ BeginCopying(r, d, "revise", s, 0)
    BY <1>12 DEF Revise, Checked
  <2>2. Entered(d, "revise", s)
    BY <2>1, Plans, Starts DEF Entered
  <2> HIDE DEF s
  <2>3. QED  BY <1>c, <1>o, <2>1, <2>2
<1>13. QED
  BY <1>g, <1>1, <1>2, <1>3, <1>4, <1>5, <1>6, <1>7, <1>8, <1>9, <1>10, <1>11, <1>12

-----------------------------------------------------------------------------
(* Types, and what a handler may still rely on *)

\* Whether the version the handler writes has been chosen.
Planned(h) ==
    \/ Now(h) \in {"create", "live", "write"}
    \/ Now(h) = "commit" /\ h.op \in Cutting
    \/ Now(h) = "archive" /\ h.op = "regenerateRows"

\* A handler's record exists and has at least the recordVersion it asks for; so does
\* the dependent it is about to write.
Fits(h) ==
    /\ InOrder(h)
    /\ h.read # Absent =>
          /\ Exists(h.doc) /\ h.read.version \in Version
          /\ h.expected <= documents[h.doc].recordVersion
    /\ Planned(h) => h.version \in Version
    /\ h.reasons # Unread => h.untold # {} /\ Exists(NextToTell(h.untold))

RecordsFit == \A d \in Doc : Exists(d) => documents[d].version \in Version
HandlersFit == \A r \in Request : request[r] # Idle => Fits(request[r])
Types == TypeInv /\ RecordsFit /\ HandlersFit

\* The handler with its next step taken.
Stepped(h) == [h EXCEPT !.steps = Tail(@)]

LEMMA HandlerFacts ==
    ASSUME NEW h \in Handler
    PROVE  /\ h.op \in Operation /\ h.doc \in Doc /\ h.steps \in Seq(Step)
           /\ h.read \in Record \cup {Absent} /\ h.expected \in Nat /\ h.version \in Nat
           /\ h.text \in Nat /\ h.passes \in BOOLEAN /\ h.against \in [Kind -> Nat]
           /\ h.untold \in SUBSET Doc /\ h.reasons \in {Unread} \cup SUBSET DocumentType
BY DEF Handler

LEMMA RecordFacts ==
    ASSUME NEW x \in Record
    PROVE  /\ x.status \in DocumentStatus /\ x.version \in Nat /\ x.recordVersion \in Nat
           /\ x.validation \in Validation \cup {NoValidation} /\ x.outdated \in SUBSET DocumentType
           /\ x.against \in [Kind -> Nat] /\ x # Absent
BY EngineAssumption DEF Record

LEMMA SteppedFacts ==
    ASSUME NEW h \in Handler, Tail(h.steps) \in Seq(Step)
    PROVE  /\ Stepped(h) \in Handler /\ Stepped(h).steps = Tail(h.steps)
           /\ Stepped(h).op = h.op /\ Stepped(h).doc = h.doc /\ Stepped(h).read = h.read
           /\ Stepped(h).expected = h.expected /\ Stepped(h).version = h.version
           /\ Stepped(h).text = h.text /\ Stepped(h).passes = h.passes
           /\ Stepped(h).against = h.against /\ Stepped(h).untold = h.untold
           /\ Stepped(h).reasons = h.reasons
BY DEF Handler, Stepped

LEMMA PlannedBefore ==
    ASSUME NEW g, NEW h, g.op = h.op, Follows(h.op, Now(h), Now(g)), Planned(g)
    PROVE  Planned(h) \/ Now(h) = "plan"
BY DEF Planned, Follows, Before, Cutting, Copying, InPlace

\* What became of the handler that takes a step.
Goes(r, g) ==
    /\ request' = [request EXCEPT ![r] = request'[r]]
    /\ \/ request'[r] = Idle /\ Ends(g.op, Now(g))
       \/ /\ request'[r] = Stepped(g) /\ Stepped(g) \in Handler
          /\ Ordered(g.op, Stepped(g).steps) /\ Follows(g.op, Now(g), Now(Stepped(g)))

LEMMA AdvanceGoes ==
    ASSUME request \in [Request -> Handler \cup {Idle}], NEW r \in Request, NEW g \in Handler,
           Ordered(g.op, g.steps), Advance(r, g)
    PROVE  Goes(r, g)
<1>1. /\ Tail(g.steps) \in Seq(Step)
      /\ Tail(g.steps) = <<>> => Ends(g.op, Now(g))
      /\ Tail(g.steps) # <<>> =>
            Ordered(g.op, Tail(g.steps)) /\ Follows(g.op, Now(g), Head(Tail(g.steps)))
  BY OrderedTail DEF Now
<1>2. Stepped(g) \in Handler /\ Stepped(g).steps = Tail(g.steps)
  BY <1>1, SteppedFacts
<1>3. request' = [request EXCEPT ![r] = IF Tail(g.steps) = <<>> THEN Idle ELSE Stepped(g)]
  BY DEF Advance, Stepped
<1>4. request'[r] = IF Tail(g.steps) = <<>> THEN Idle ELSE Stepped(g)
  BY <1>3
<1>5. QED  BY <1>1, <1>2, <1>3, <1>4 DEF Goes, Now

\* A step leaves a handler that fits, or none.
Kept(r) ==
    /\ request' = [request EXCEPT ![r] = request'[r]]
    /\ request'[r] = Idle \/ \E h \in Handler : request'[r] = h /\ Fits(h)'

LEMMA GoesKept ==
    ASSUME NEW r \in Request, NEW g \in Handler, Goes(r, g),
           g.read # Absent, documents'[g.doc] # Absent, g.read.version \in Version,
           g.expected <= documents'[g.doc].recordVersion,
           Planned(g) \/ Now(g) = "plan" => g.version \in Version,
           g.reasons # Unread => g.untold # {} /\ documents'[NextToTell(g.untold)] # Absent
    PROVE  Kept(r)
<1>1. CASE request'[r] = Idle
  BY <1>1 DEF Goes, Kept
<1>2. CASE /\ request'[r] = Stepped(g) /\ Stepped(g) \in Handler
           /\ Ordered(g.op, Stepped(g).steps) /\ Follows(g.op, Now(g), Now(Stepped(g)))
  <2> DEFINE h == Stepped(g)
  <2>1. /\ h.op = g.op /\ h.doc = g.doc /\ h.read = g.read /\ h.expected = g.expected
        /\ h.version = g.version /\ h.untold = g.untold /\ h.reasons = g.reasons
    BY HandlerFacts, SteppedFacts, <1>2 DEF Handler, Stepped
  <2>2. h \in Handler /\ Ordered(h.op, h.steps) /\ Follows(g.op, Now(g), Now(h))
    BY <1>2, <2>1
  <2> HIDE DEF h
  <2>3. Planned(h) => h.version \in Version
    BY <2>1, <2>2, PlannedBefore
  <2>4. Fits(h)'
    BY <2>1, <2>2, <2>3 DEF Fits, InOrder, Exists
  <2>5. QED  BY <1>2, <2>2, <2>4 DEF Goes, Kept, h
<1>3. QED  BY <1>1, <1>2 DEF Goes

\* What a step does to the records.
DocumentsStep ==
    /\ documents' \in [Doc -> Record \cup {Absent}]
    /\ \A d \in Doc :
          /\ Exists(d) =>
                /\ documents'[d] # Absent
                /\ \/ documents'[d] = documents[d]
                   \/ documents'[d].recordVersion = documents[d].recordVersion + 1
          /\ documents'[d] # Absent => documents'[d].version \in Version

LEMMA FitsKept ==
    ASSUME TypeInv, DocumentsStep, NEW h \in Handler, Fits(h)
    PROVE  Fits(h)'
<1>1. /\ h.doc \in Doc /\ h.untold \in SUBSET Doc /\ h.expected \in Nat
  BY HandlerFacts
<1>2. \A d \in Doc : Exists(d) =>
        /\ documents'[d] # Absent /\ documents[d].recordVersion \in Nat
        /\ documents'[d].recordVersion >= documents[d].recordVersion
  BY RecordFacts DEF TypeInv, DocumentsStep, Exists
<1>3. h.read # Absent => /\ documents'[h.doc] # Absent /\ h.read.version \in Version
                         /\ h.expected <= documents'[h.doc].recordVersion
  <2> SUFFICES ASSUME h.read # Absent
               PROVE  /\ documents'[h.doc] # Absent /\ h.read.version \in Version
                      /\ h.expected <= documents'[h.doc].recordVersion
    OBVIOUS
  <2>1. Exists(h.doc) /\ h.read.version \in Version /\ h.expected <= documents[h.doc].recordVersion
    BY DEF Fits
  <2>2. documents'[h.doc] \in Record /\ documents'[h.doc].recordVersion \in Nat
    BY <1>1, <1>2, <2>1, RecordFacts DEF DocumentsStep
  <2>3. QED  BY <1>1, <1>2, <2>1, <2>2
<1>4. h.reasons # Unread => h.untold # {} /\ documents'[NextToTell(h.untold)] # Absent
  <2> SUFFICES ASSUME h.reasons # Unread
               PROVE  h.untold # {} /\ documents'[NextToTell(h.untold)] # Absent
    OBVIOUS
  <2>1. h.untold # {} /\ Exists(NextToTell(h.untold))
    BY DEF Fits
  <2>2. h.untold \in SUBSET DocumentType
    BY <1>1, EngineAssumption
  <2>3. NextToTell(h.untold) \in Doc
    BY <1>1, <2>1, <2>2, FirstToTell
  <2>4. QED  BY <1>2, <2>1, <2>3
<1>5. QED  BY <1>3, <1>4 DEF Fits, InOrder, Exists


-----------------------------------------------------------------------------
(* Each step keeps the types *)

\* The handler of a step and its record.
LEMMA AtFacts ==
    ASSUME Types, NEW r \in Request, NEW step, At(r, step)
    PROVE  /\ request[r] \in Handler /\ Fits(request[r]) /\ Now(request[r]) = step
           /\ request[r].doc \in Doc
           /\ request \in [Request -> Handler \cup {Idle}]
<1>1. request[r] # Idle /\ Head(request[r].steps) = step
  BY DEF At
<1>2. request \in [Request -> Handler \cup {Idle}]
  BY DEF Types, TypeInv
<1>3. request[r] \in Handler
  BY <1>1, <1>2
<1>4. QED  BY <1>1, <1>2, <1>3, HandlerFacts DEF Types, HandlersFit, Now

\* Once the record is read, the document and its record are there.
LEMMA ReadFacts ==
    ASSUME Types, NEW r \in Request, NEW step, At(r, step), step \notin {"plan", "create"}
    PROVE  /\ request[r].read \in Record /\ Ordered(request[r].op, request[r].steps)
           /\ request[r].read.version \in Version
           /\ documents[request[r].doc] \in Record /\ documents[request[r].doc].version \in Version
           /\ request[r].expected <= documents[request[r].doc].recordVersion
<1> DEFINE h == request[r]
<1>1. h \in Handler /\ Fits(h) /\ Now(h) = step /\ h.doc \in Doc
  BY AtFacts
<1>2. h.read # Absent
  <2> SUFFICES ASSUME h.read = Absent PROVE FALSE
    OBVIOUS
  <2>1. h.steps \in FirstSteps
    BY <1>1 DEF Fits, InOrder
  <2>2. Now(h) \in {"plan", "create"}
    BY <2>1 DEF FirstSteps, Now
  <2>3. QED  BY <1>1, <2>2
<1>3. h.read \in Record
  BY <1>1, <1>2, HandlerFacts
<1>4. /\ Exists(h.doc) /\ h.read.version \in Version
      /\ h.expected <= documents[h.doc].recordVersion /\ Ordered(h.op, h.steps)
  BY <1>1, <1>2 DEF Fits, InOrder
<1>5. documents[h.doc] \in Record /\ documents[h.doc].version \in Version
  BY <1>1, <1>4 DEF Types, TypeInv, RecordsFit, Exists
<1>6. QED  BY <1>3, <1>4, <1>5

LEMMA UnchangedRecords == Types /\ UNCHANGED documents => DocumentsStep
BY DEF Types, TypeInv, RecordsFit, DocumentsStep, Exists

\* A handler that changes no more than what it remembers, and goes on.
LEMMA PlainKept ==
    ASSUME Types, NEW r \in Request, NEW step, At(r, step), step \notin {"plan", "create"},
           NEW g \in Handler, g.op = request[r].op, g.doc = request[r].doc,
           g.steps = request[r].steps, g.read = request[r].read, g.version = request[r].version,
           g.expected <= documents[g.doc].recordVersion, g.untold = request[r].untold,
           g.reasons = request[r].reasons, UNCHANGED documents, Advance(r, g)
    PROVE  Kept(r)
<1> DEFINE h == request[r]
<1>1. h \in Handler /\ Fits(h) /\ Now(h) = step /\ request \in [Request -> Handler \cup {Idle}]
  BY AtFacts
<1>2. h.read \in Record /\ Ordered(h.op, h.steps) /\ h.read.version \in Version
  BY ReadFacts
<1>3. h.read # Absent /\ Exists(h.doc) /\ (Planned(h) => h.version \in Version)
      /\ (h.reasons # Unread => h.untold # {} /\ Exists(NextToTell(h.untold)))
  BY <1>1, <1>2, RecordFacts DEF Fits
<1> HIDE DEF h
<1>4. h = request[r]
  BY DEF h
<1>5. Now(g) = Now(h) /\ (Planned(g) => Planned(h)) /\ Now(g) # "plan"
  BY <1>1, <1>4 DEF Planned, Now
<1>6. Goes(r, g)
  BY <1>1, <1>2, <1>4, AdvanceGoes
<1>7. QED  BY <1>2, <1>3, <1>4, <1>5, <1>6, GoesKept DEF Exists

LEMMA DoneKept ==
    ASSUME request \in [Request -> Handler \cup {Idle}], NEW r \in Request, Done(r)
    PROVE  Kept(r)
BY DEF Done, Kept

LEMMA WordsType ==
    ASSUME Types, NEW d \in Doc, NEW v \in Version
    PROVE  content[d][v] \in Nat
BY DEF Types, TypeInv

LEMMA ArchiveRowType ==
    ASSUME Types, NEW d \in Doc, NEW v, NEW status \in DocumentStatus, NEW text \in Nat,
           ArchiveRow(d, v, status, text)
    PROVE  archived' \in [Doc -> [Version -> Archived \cup {Absent}]]
<1>1. [status |-> status, text |-> text] \in Archived
  BY DEF Archived
<1>2. archived \in [Doc -> [Version -> Archived \cup {Absent}]]
  BY DEF Types, TypeInv
<1>3. QED  BY <1>1, <1>2 DEF ArchiveRow

\* Everything a step of a handler has to keep.
StepKept(r) ==
    /\ Kept(r) /\ DocumentsStep
    /\ content' \in [Doc -> [Version -> Nat]]
    /\ archived' \in [Doc -> [Version -> Archived \cup {Absent}]]
    /\ UNCHANGED <<upstream, texts, overlaps, aborts>>

LEMMA ChangeContentKept ==
    ASSUME Types, NEW r \in Request, ChangeContent(r)
    PROVE  StepKept(r)
<1> DEFINE h == request[r]
<1>1. At(r, "change") /\ UNCHANGED <<documents, archived, upstream, texts, overlaps, aborts>>
  BY DEF ChangeContent
<1>2. /\ h \in Handler /\ h.text \in Nat /\ request \in [Request -> Handler \cup {Idle}]
      /\ h.expected <= documents[h.doc].recordVersion
  BY <1>1, AtFacts, ReadFacts, HandlerFacts
<1>3. Kept(r)
  <2>1. Done(r) \/ Advance(r, h)
    BY DEF ChangeContent
  <2>2. QED  BY <1>1, <1>2, <2>1, DoneKept, PlainKept
<1>4. content' \in [Doc -> [Version -> Nat]]
  <2>1. content \in [Doc -> [Version -> Nat]]
    BY DEF Types, TypeInv
  <2>2. content' = content \/ content' = [content EXCEPT ![h.doc][h.read.version] = h.text]
    BY DEF ChangeContent
  <2>3. QED  BY <1>2, <2>1, <2>2
<1>5. QED  BY <1>1, <1>3, <1>4, UnchangedRecords DEF StepKept, Types, TypeInv

LEMMA ReadContentKept ==
    ASSUME Types, NEW r \in Request, ReadContent(r)
    PROVE  StepKept(r)
<1> DEFINE h == request[r]
           g == [h EXCEPT !.text = Words(h)]
<1>1. At(r, "read") /\ UNCHANGED <<documents, content, archived, upstream, texts, overlaps, aborts>>
      /\ Advance(r, g)
  BY DEF ReadContent
<1>2. /\ h \in Handler /\ h.doc \in Doc /\ h.read.version \in Version
      /\ h.expected <= documents[h.doc].recordVersion
  BY <1>1, AtFacts, ReadFacts
<1>3. Words(h) \in Nat
  BY <1>2, WordsType DEF Words
<1> HIDE DEF h
<1>4. /\ g \in Handler /\ g.op = h.op /\ g.doc = h.doc /\ g.steps = h.steps /\ g.read = h.read
      /\ g.version = h.version /\ g.expected = h.expected /\ g.untold = h.untold
      /\ g.reasons = h.reasons
  BY <1>2, <1>3 DEF Handler
<1> HIDE DEF g
<1>5. Kept(r)
  BY <1>1, <1>2, <1>4, PlainKept DEF h
<1>6. QED  BY <1>1, <1>5, UnchangedRecords DEF StepKept, Types, TypeInv

LEMMA ReadLiveKept ==
    ASSUME Types, NEW r \in Request, ReadLive(r)
    PROVE  StepKept(r)
<1> DEFINE h == request[r]
           g == [h EXCEPT !.expected = documents[h.doc].recordVersion]
<1>1. At(r, "live") /\ UNCHANGED <<documents, content, archived, upstream, texts, overlaps, aborts>>
      /\ Advance(r, g)
  BY DEF ReadLive
<1>2. h \in Handler /\ h.doc \in Doc /\ documents[h.doc] \in Record
  BY <1>1, AtFacts, ReadFacts
<1>3. documents[h.doc].recordVersion \in Nat
  BY <1>2, RecordFacts
<1> HIDE DEF h
<1>4. /\ g \in Handler /\ g.op = h.op /\ g.doc = h.doc /\ g.steps = h.steps /\ g.read = h.read
      /\ g.version = h.version /\ g.expected = documents[h.doc].recordVersion
      /\ g.untold = h.untold /\ g.reasons = h.reasons
  BY <1>2, <1>3 DEF Handler
<1> HIDE DEF g
<1>5. Kept(r)
  BY <1>1, <1>2, <1>3, <1>4, PlainKept DEF h
<1>6. QED  BY <1>1, <1>5, UnchangedRecords DEF StepKept, Types, TypeInv

LEMMA ArchivePreviousKept ==
    ASSUME Types, NEW r \in Request, ArchivePrevious(r)
    PROVE  StepKept(r)
<1> DEFINE h == request[r]
           g == IF h.op \in {"reopen", "revise"} THEN [h EXCEPT !.text = Words(h)] ELSE h
<1>1. /\ At(r, "archive") /\ UNCHANGED <<documents, content, upstream, texts, overlaps, aborts>>
      /\ Advance(r, g) /\ ArchiveRow(h.doc, h.read.version, h.read.status, Words(h))
  BY DEF ArchivePrevious
<1>2. /\ h \in Handler /\ h.doc \in Doc /\ h.read.version \in Version /\ h.read \in Record
      /\ h.expected <= documents[h.doc].recordVersion
  BY <1>1, AtFacts, ReadFacts
<1>3. Words(h) \in Nat /\ h.read.status \in DocumentStatus
  BY <1>2, WordsType, RecordFacts DEF Words
<1> HIDE DEF h
<1>4. /\ g \in Handler /\ g.op = h.op /\ g.doc = h.doc /\ g.steps = h.steps /\ g.read = h.read
      /\ g.version = h.version /\ g.expected = h.expected /\ g.untold = h.untold
      /\ g.reasons = h.reasons
  BY <1>2, <1>3 DEF Handler
<1> HIDE DEF g
<1>5. Kept(r)
  BY <1>1, <1>2, <1>4, PlainKept DEF h
<1>6. archived' \in [Doc -> [Version -> Archived \cup {Absent}]]
  BY <1>1, <1>2, <1>3, ArchiveRowType
<1>7. QED  BY <1>1, <1>5, <1>6, UnchangedRecords DEF StepKept, Types, TypeInv

LEMMA WriteContentKept ==
    ASSUME Types, NEW r \in Request, WriteContent(r)
    PROVE  StepKept(r)
<1> DEFINE h == request[r]
<1>1. /\ At(r, "write") /\ UNCHANGED <<documents, archived, upstream, texts, overlaps, aborts>>
      /\ Advance(r, h)
  BY DEF WriteContent
<1>2. /\ h \in Handler /\ h.doc \in Doc /\ h.text \in Nat
      /\ h.expected <= documents[h.doc].recordVersion
  BY <1>1, AtFacts, ReadFacts, HandlerFacts
<1>3. Kept(r)
  BY <1>1, <1>2, PlainKept
<1>4. content' \in [Doc -> [Version -> Nat]]
  <2>1. content \in [Doc -> [Version -> Nat]]
    BY DEF Types, TypeInv
  <2>2. \/ content' = content
        \/ content' = [content EXCEPT ![h.doc][h.version] = h.text]
        \/ content' = [content EXCEPT ![h.doc] = [v \in Version |-> IF v = h.version THEN h.text ELSE 0]]
    BY DEF WriteContent
  <2>3. [v \in Version |-> IF v = h.version THEN h.text ELSE 0] \in [Version -> Nat]
    BY <1>2
  <2> HIDE DEF h
  <2>4. QED  BY <1>2, <2>1, <2>2, <2>3
<1>5. QED  BY <1>1, <1>3, <1>4, UnchangedRecords DEF StepKept, Types, TypeInv

LEMMA RecordVersionKept ==
    ASSUME Types, NEW r \in Request, RecordVersion(r)
    PROVE  StepKept(r)
<1> DEFINE h == request[r]
           d == h.doc
<1>1. /\ At(r, "record") /\ UNCHANGED <<documents, content, upstream, texts, overlaps, aborts>>
      /\ Advance(r, h)
  BY DEF RecordVersion
<1>2. /\ h \in Handler /\ h.doc \in Doc /\ h.read.version \in Version /\ h.read \in Record
      /\ h.expected <= documents[h.doc].recordVersion
      /\ documents[h.doc] \in Record /\ documents[h.doc].version \in Version
  BY <1>1, AtFacts, ReadFacts
<1>3. Kept(r)
  BY <1>1, <1>2, PlainKept
<1>4. /\ Words(h) \in Nat /\ h.read.status \in DocumentStatus
      /\ CurrentText(d) \in Nat /\ Status(d) \in DocumentStatus
      /\ {"APPROVED", "FINAL"} \subseteq DocumentStatus
  BY <1>2, WordsType, RecordFacts DEF Words, CurrentText, Status, DocumentStatus
<1>5. \/ ArchiveRow(d, h.read.version, h.read.status, Words(h))
      \/ ArchiveRow(d, h.read.version, "APPROVED", Words(h))
      \/ archived' = archived
      \/ /\ archived[d][h.read.version] # Absent
         /\ archived' = [archived EXCEPT ![d][h.read.version].status = "FINAL"]
      \/ ArchiveRow(d, documents[d].version, Status(d), CurrentText(d))
  BY DEF RecordVersion
<1>6. archived' \in [Doc -> [Version -> Archived \cup {Absent}]]
  <2>1. CASE /\ archived[d][h.read.version] # Absent
             /\ archived' = [archived EXCEPT ![d][h.read.version].status = "FINAL"]
    <3>1. archived \in [Doc -> [Version -> Archived \cup {Absent}]]
      BY DEF Types, TypeInv
    <3>2. archived[d][h.read.version] \in Archived
      BY <1>2, <2>1, <3>1
    <3>3. [archived[d][h.read.version] EXCEPT !.status = "FINAL"] \in Archived
      BY <1>4, <3>2 DEF Archived
    <3>4. archived' = [archived EXCEPT ![d] = [archived[d] EXCEPT ![h.read.version] =
                          [archived[d][h.read.version] EXCEPT !.status = "FINAL"]]]
      BY <2>1
    <3> HIDE DEF h, d
    <3>5. QED  BY <3>1, <3>3, <3>4
  <2>2. CASE archived' = archived
    BY <2>2 DEF Types, TypeInv
  <2> HIDE DEF h, d
  <2>3. CASE ArchiveRow(d, h.read.version, h.read.status, Words(h))
    BY <1>2, <1>4, <2>3, ArchiveRowType DEF d
  <2>4. CASE ArchiveRow(d, h.read.version, "APPROVED", Words(h))
    BY <1>2, <1>4, <2>4, ArchiveRowType DEF d
  <2>5. CASE ArchiveRow(d, documents[d].version, Status(d), CurrentText(d))
    BY <1>2, <1>4, <2>5, ArchiveRowType DEF d
  <2>6. QED  BY <1>5, <2>1, <2>2, <2>3, <2>4, <2>5
<1>7. QED  BY <1>1, <1>3, <1>6, UnchangedRecords DEF StepKept, Types, TypeInv


\* Which operations have which steps.
LEMMA StepsOf ==
    ASSUME NEW op \in Operation, NEW s, Ordered(op, s)
    PROVE  /\ Head(s) # "create"
           /\ Head(s) = "change" => op \in {"edit", "suggest"}
           /\ Head(s) = "exclude" => op = "exclude"
           /\ Head(s) = "read" => op \in InPlace \cup {"validate"}
           /\ Head(s) = "archive" => op \in Cutting \ InPlace
           /\ Head(s) = "plan" => op \in Cutting
           /\ Head(s) = "live" => op \in InPlace
           /\ Head(s) = "commit" => op # "suggest"
           /\ Head(s) = "write" => op \in Cutting
           /\ Head(s) = "record" =>
                op \in (Cutting \ {"regenerateFeatures"}) \cup {"approve", "markFinal"}
           /\ Head(s) = "tell" => op \in InPlace \cup Copying \cup {"regenerateFeatures"}
<1>1. \/ Ends(op, Head(s))
      \/ \E b \in Step : Follows(op, Head(s), b)
  <2>1. /\ Tail(s) = <<>> => Ends(op, Head(s))
        /\ Tail(s) # <<>> => Ordered(op, Tail(s)) /\ Follows(op, Head(s), Head(Tail(s)))
    BY OrderedTail
  <2>2. Tail(s) # <<>> => Head(Tail(s)) \in Step
    BY <2>1, OrderedTail
  <2>3. QED  BY <2>1, <2>2
<1>2. CASE Ends(op, Head(s))
  BY <1>2 DEF Ends, Cutting, Copying, InPlace
<1>3. CASE \E b \in Step : Follows(op, Head(s), b)
  <2>1. PICK b \in Step : Head(s) \in Before(op, b)
    BY <1>3 DEF Follows
  <2>2. QED  BY <2>1 DEF Before, Operation, Step, Cutting, Copying, InPlace
<1>4. QED  BY <1>1, <1>2, <1>3

\* What the update of the record writes.
LEMMA UpdatedFacts ==
    ASSUME NEW h \in Handler, h.op # "suggest", h.read \in Record, documents[h.doc] \in Record
    PROVE  LET x == documents[h.doc]
               y == Updated(h)
           IN  /\ y \in Record /\ y.recordVersion = x.recordVersion + 1
               /\ y.version = IF h.op \in Cutting THEN h.version ELSE x.version
               /\ h.op \in Cutting => y.validation = NoValidation
               /\ h.op \in {"generate", "restore", "regenerateRows", "revise"} => y.status = "DRAFT"
               /\ h.op = "reopen" => y.status = "NEEDS_REVISION"
               /\ h.op \in InPlace \cup {"regenerateFeatures"} =>
                     y.status = IF h.read.status = "APPROVED" THEN "DRAFT" ELSE x.status
               /\ h.op \in {"validate", "acknowledge"} => y.status = x.status
               /\ h.op = "validate" =>
                     y.validation = [version |-> h.read.version, text |-> h.text, passes |-> h.passes]
               /\ h.op = "acknowledge" => y.validation = h.read.validation
               /\ h.op \in {"approve", "markFinal"} => y.validation = x.validation
               /\ h.op = "approve" => y.status = "APPROVED"
               /\ h.op = "markFinal" => y.status = "FINAL"
               /\ y.outdated = IF h.op \in {"generate", "revise"} THEN {} ELSE x.outdated
               /\ y.against = IF h.op \in {"generate", "revise"} THEN h.against ELSE x.against
<1> DEFINE x == documents[h.doc]
<1>1. /\ h.op \in Operation /\ h.version \in Nat /\ h.text \in Nat /\ h.passes \in BOOLEAN
      /\ h.against \in [Kind -> Nat] /\ h.read \in Record
  BY HandlerFacts
<1>2. x \in Record /\ x.recordVersion + 1 \in Nat /\ x.status \in DocumentStatus
  BY RecordFacts
<1>3. h.read.validation \in Validation \cup {NoValidation}
  BY RecordFacts
<1>4. [version |-> h.read.version, text |-> h.text, passes |-> h.passes] \in Validation
  BY <1>1, RecordFacts DEF Validation
<1>5. {"DRAFT", "NEEDS_REVISION", "APPROVED", "FINAL"} \subseteq DocumentStatus
  BY DEF DocumentStatus
<1> HIDE DEF x
<1>6. CASE h.op \in {"generate", "revise"}
  <2>1. Updated(h) = CaughtUp(x, h.version, h.against)
    BY <1>6 DEF Updated, x
  <2>2. QED  BY <1>1, <1>2, <1>5, <1>6, <2>1
             DEF CaughtUp, MovedTo, Bumped, Record, Cutting, InPlace, x
<1>7. CASE h.op \in {"restore", "regenerateRows"}
  <2>1. Updated(h) = MovedTo(x, h.version, "DRAFT")
    BY <1>7 DEF Updated, x
  <2>2. QED  BY <1>1, <1>2, <1>5, <1>7, <2>1 DEF MovedTo, Bumped, Record, Cutting, InPlace, x
<1>8. CASE h.op = "reopen"
  <2>1. Updated(h) = MovedTo(x, h.version, "NEEDS_REVISION")
    BY <1>8 DEF Updated, x
  <2>2. QED  BY <1>1, <1>2, <1>5, <1>8, <2>1 DEF MovedTo, Bumped, Record, Cutting, InPlace, x
<1>9. CASE h.op \in InPlace \cup {"regenerateFeatures"}
  <2> DEFINE status == IF h.read.status = "APPROVED" THEN "DRAFT" ELSE x.status
  <2>1. Updated(h) = MovedTo(x, h.version, status) /\ status \in DocumentStatus
    BY <1>2, <1>5, <1>9 DEF Updated, Cut, InPlace, x
  <2> HIDE DEF status
  <2>2. /\ Updated(h) \in Record /\ Updated(h).status = status
        /\ Updated(h).recordVersion = x.recordVersion + 1 /\ Updated(h).version = h.version
        /\ Updated(h).validation = NoValidation /\ Updated(h).outdated = x.outdated
        /\ Updated(h).against = x.against
    BY <1>1, <1>2, <2>1 DEF MovedTo, Bumped, Record
  <2>3. QED  BY <1>9, <2>2 DEF Cutting, InPlace, status, x
<1>10. CASE h.op = "validate"
  <2>1. Updated(h) = Validated(x, [version |-> h.read.version, text |-> h.text, passes |-> h.passes])
    BY <1>10 DEF Updated, x
  <2>2. QED  BY <1>1, <1>2, <1>4, <1>10, <2>1 DEF Validated, Bumped, Record, Cutting, InPlace, x
<1>11. CASE h.op = "acknowledge"
  <2>1. Updated(h) = Validated(x, h.read.validation)
    BY <1>11 DEF Updated, x
  <2>2. QED  BY <1>1, <1>2, <1>3, <1>11, <2>1 DEF Validated, Bumped, Record, Cutting, InPlace, x
<1>12. CASE h.op \in {"approve", "markFinal"}
  <2> DEFINE status == IF h.op = "approve" THEN "APPROVED" ELSE "FINAL"
  <2>1. Updated(h) = WithStatus(x, status) /\ status \in DocumentStatus
    BY <1>5, <1>12 DEF Updated, x
  <2> HIDE DEF status
  <2>2. /\ Updated(h) \in Record /\ Updated(h).status = status
        /\ Updated(h).recordVersion = x.recordVersion + 1 /\ Updated(h).version = x.version
        /\ Updated(h).validation = x.validation /\ Updated(h).outdated = x.outdated
        /\ Updated(h).against = x.against
    BY <1>2, <2>1 DEF WithStatus, Bumped, Record
  <2>3. QED  BY <1>12, <2>2 DEF Cutting, InPlace, status, x
<1>13. QED
  BY <1>1, <1>6, <1>7, <1>8, <1>9, <1>10, <1>11, <1>12 DEF Operation, InPlace

LEMMA BumpedFacts ==
    ASSUME NEW x \in Record
    PROVE  /\ Bumped(x) \in Record /\ Bumped(x).recordVersion = x.recordVersion + 1
           /\ Bumped(x).version = x.version /\ Bumped(x).status = x.status
           /\ Bumped(x).validation = x.validation /\ Bumped(x).outdated = x.outdated
           /\ Bumped(x).against = x.against
<1>1. x.recordVersion + 1 \in Nat
  BY RecordFacts
<1>2. QED  BY <1>1 DEF Bumped, Record

LEMMA TouchedFacts ==
    ASSUME NEW x \in Record, NEW reasons \in SUBSET DocumentType
    PROVE  /\ Touched(x, reasons) \in Record
           /\ Touched(x, reasons).recordVersion = x.recordVersion + 1
           /\ Touched(x, reasons).version = x.version /\ Touched(x, reasons).status = x.status
           /\ Touched(x, reasons).validation = x.validation
           /\ Touched(x, reasons).outdated = reasons /\ Touched(x, reasons).against = x.against
<1>1. x.recordVersion + 1 \in Nat
  BY RecordFacts
<1>2. QED  BY <1>1 DEF Touched, Bumped, Record

\* A record that is written over by one that is one recordVersion on.
LEMMA RecordWritten ==
    ASSUME Types, NEW d \in Doc, Exists(d), NEW y \in Record,
           y.recordVersion = documents[d].recordVersion + 1, y.version \in Version,
           documents' = [documents EXCEPT ![d] = y]
    PROVE  DocumentsStep
<1>1. documents \in [Doc -> Record \cup {Absent}] /\ y # Absent
  BY RecordFacts DEF Types, TypeInv
<1>2. \A e \in Doc : documents'[e] = IF e = d THEN y ELSE documents[e]
  BY <1>1
<1>3. documents' \in [Doc -> Record \cup {Absent}]
  BY <1>1
<1>4. QED  BY <1>1, <1>2, <1>3 DEF DocumentsStep, Exists, Types, RecordsFit

LEMMA CommitExclusionKept ==
    ASSUME Types, NEW r \in Request, CommitExclusion(r)
    PROVE  StepKept(r)
<1>0. PICK h \in Handler : h = request[r]
  BY AtFacts DEF CommitExclusion
<1> DEFINE x == documents[h.doc]
<1>1. /\ At(r, "exclude") /\ UNCHANGED <<content, archived, upstream, texts, overlaps, aborts>>
  BY DEF CommitExclusion
<1>2. /\ h \in Handler /\ Fits(h) /\ Now(h) = "exclude" /\ h.doc \in Doc /\ h.read.version \in Version
      /\ h.read \in Record /\ h.expected <= x.recordVersion /\ x \in Record /\ x.version \in Version
      /\ request \in [Request -> Handler \cup {Idle}] /\ Ordered(h.op, h.steps)
      /\ Exists(h.doc)
  BY <1>0, <1>1, AtFacts, ReadFacts, RecordFacts DEF Exists
<1>3. CASE Done(r) /\ UNCHANGED documents
  BY <1>1, <1>2, <1>3, DoneKept, UnchangedRecords DEF StepKept, Types, TypeInv
<1>4. CASE documents' = [documents EXCEPT ![h.doc] = Bumped(x)] /\ Advance(r, h)
  <2>1. Bumped(x) \in Record /\ Bumped(x).recordVersion = x.recordVersion + 1
        /\ Bumped(x).version \in Version
    BY <1>2, BumpedFacts
  <2> HIDE DEF x
  <2>2. DocumentsStep
    BY <1>2, <1>4, <2>1, RecordWritten DEF x
  <2>3. Goes(r, h)
    BY <1>2, <1>4, AdvanceGoes
  <2>4. Fits(h)'
    BY <1>2, <2>2, FitsKept DEF Types
  <2>5. /\ documents'[h.doc] # Absent /\ h.expected <= documents'[h.doc].recordVersion
        /\ (Planned(h) => h.version \in Version) /\ Now(h) # "plan" /\ h.read # Absent
        /\ (h.reasons # Unread => h.untold # {} /\ documents'[NextToTell(h.untold)] # Absent)
    BY <1>2, <2>4, RecordFacts DEF Fits, Exists
  <2>7. Kept(r)
    BY <1>2, <2>3, <2>5, GoesKept
  <2>8. QED  BY <1>1, <2>2, <2>7 DEF StepKept, Types, TypeInv
<1>5. QED  BY <1>0, <1>3, <1>4 DEF CommitExclusion

LEMMA CommitKept ==
    ASSUME Types, NEW r \in Request, Commit(r)
    PROVE  StepKept(r)
<1>0. PICK h \in Handler : h = request[r]
  BY AtFacts DEF Commit
<1> DEFINE x == documents[h.doc]
           y == Updated(h)
           g == IF h.op = "generate" THEN [h EXCEPT !.read = y] ELSE h
<1>1. /\ At(r, "commit") /\ UNCHANGED <<content, archived, upstream, texts, overlaps, aborts>>
  BY DEF Commit
<1>2. /\ h \in Handler /\ Fits(h) /\ Now(h) = "commit" /\ h.doc \in Doc /\ h.read.version \in Version
      /\ h.read \in Record /\ h.expected <= x.recordVersion /\ x \in Record /\ x.version \in Version
      /\ request \in [Request -> Handler \cup {Idle}] /\ Ordered(h.op, h.steps)
      /\ Exists(h.doc)
  BY <1>0, <1>1, AtFacts, ReadFacts, RecordFacts DEF Exists
<1>3. CASE Done(r) /\ UNCHANGED documents
  BY <1>1, <1>2, <1>3, DoneKept, UnchangedRecords DEF StepKept, Types, TypeInv
<1>4. CASE Advance(r, h) /\ UNCHANGED documents
  <2>1. Kept(r)
    BY <1>0, <1>1, <1>2, <1>4, PlainKept
  <2>2. QED  BY <1>1, <1>4, <2>1, UnchangedRecords DEF StepKept, Types, TypeInv
<1>5. CASE documents' = [documents EXCEPT ![h.doc] = y] /\ Advance(r, g)
  <2>1. h.op # "suggest" /\ h.op \in Operation
    BY <1>2, StepsOf, HandlerFacts DEF Now
  <2>2. h.op \in Cutting => h.version \in Version
    BY <1>2 DEF Fits, Planned
  <2>3. y \in Record /\ y.recordVersion = x.recordVersion + 1 /\ y.version \in Version
    BY <1>2, <2>1, <2>2, UpdatedFacts
  <2> HIDE DEF x, y
  <2>4. DocumentsStep
    BY <1>2, <1>5, <2>3, RecordWritten DEF x
  <2>5. Fits(h)'
    BY <1>2, <2>4, FitsKept DEF Types
  <2>6. /\ g \in Handler /\ g.op = h.op /\ g.doc = h.doc /\ g.steps = h.steps
        /\ g.version = h.version /\ g.expected = h.expected /\ g.untold = h.untold
        /\ g.reasons = h.reasons /\ g.read \in Record /\ g.read.version \in Version
    BY <1>2, <2>3 DEF Handler
  <2> HIDE DEF g
  <2>7. Now(g) = "commit" /\ (Planned(g) => Planned(h))
    BY <1>2, <2>6 DEF Now, Planned
  <2>8. Goes(r, g)
    BY <1>2, <1>5, <2>6, AdvanceGoes
  <2>9. /\ documents'[h.doc] # Absent /\ h.expected <= documents'[h.doc].recordVersion
        /\ (Planned(h) => h.version \in Version)
        /\ (h.reasons # Unread => h.untold # {} /\ documents'[NextToTell(h.untold)] # Absent)
    BY <1>2, <2>5, RecordFacts DEF Fits, Exists
  <2>10. Kept(r)
    BY <2>6, <2>7, <2>8, <2>9, GoesKept, RecordFacts
  <2>11. QED  BY <1>1, <2>4, <2>10 DEF StepKept, Types, TypeInv
<1>6. QED  BY <1>0, <1>3, <1>4, <1>5 DEF Commit


LEMMA FirstStepsFacts ==
    ASSUME NEW s \in FirstSteps
    PROVE  /\ s \in Seq(Step) /\ Tail(s) \in Seq(Step) /\ Tail(s) # <<>>
           /\ Head(s) = "plan" => Tail(s) \in FirstSteps /\ Head(Tail(s)) = "create"
           /\ Head(s) = "create" =>
                 Ordered("generate", Tail(s)) /\ Head(Tail(s)) = "write"
           /\ Head(s) \in {"plan", "create"}
<1>1. CASE s = <<"plan", "create", "write", "record">>
  <2>1. Tail(s) = <<"create", "write", "record">>
    BY <1>1
  <2>2. QED  BY <1>1, <2>1 DEF FirstSteps, Step
<1>2. CASE s = <<"create", "write", "record">>
  <2>1. Tail(s) = <<"write", "record">>
    BY <1>2
  <2>2. Ordered("generate", <<"write", "record">>)
    BY DEF Ordered, Follows, Before, Cutting, Copying, InPlace, Ends, Step
  <2>3. QED  BY <1>2, <2>1, <2>2 DEF FirstSteps, Step
<1>3. QED  BY <1>1, <1>2 DEF FirstSteps

LEMMA CreatedFacts ==
    ASSUME NEW v \in Nat, NEW against \in [Kind -> Nat]
    PROVE  /\ Created(v, against) \in Record /\ Created(v, against) # Absent
           /\ Created(v, against).version = v /\ Created(v, against).recordVersion = 0
           /\ Created(v, against).status = "DRAFT" /\ Created(v, against).validation = NoValidation
           /\ Created(v, against).outdated = {}
<1>1. Created(v, against) \in Record
  BY DEF Created, Record, DocumentStatus
<1>2. QED  BY <1>1, RecordFacts DEF Created

\* The handler of a first generation.
LEMMA FirstFacts ==
    ASSUME Types, NEW r \in Request, At(r, "create")
    PROVE  /\ request[r].read = Absent /\ request[r].op = "generate" /\ request[r].expected = 0
           /\ request[r].steps \in FirstSteps /\ request[r].version \in Version
<1> DEFINE h == request[r]
<1>1. h \in Handler /\ Fits(h) /\ Now(h) = "create" /\ h.op \in Operation
  BY AtFacts, HandlerFacts
<1>2. h.read = Absent
  BY <1>1, StepsOf DEF Fits, InOrder, Now
<1>3. QED  BY <1>1, <1>2 DEF Fits, InOrder, Planned

LEMMA WithRead ==
    ASSUME NEW h \in Handler, NEW y \in Record
    PROVE  LET g == [h EXCEPT !.read = y]
           IN  /\ g \in Handler /\ g.op = h.op /\ g.doc = h.doc /\ g.read = y /\ g.steps = h.steps
               /\ g.version = h.version /\ g.untold = h.untold /\ g.reasons = h.reasons
               /\ g.expected = h.expected /\ g.text = h.text
BY DEF Handler

LEMMA WithVersion ==
    ASSUME NEW h \in Handler, NEW v \in Nat
    PROVE  LET g == [h EXCEPT !.version = v]
           IN  /\ g \in Handler /\ g.op = h.op /\ g.doc = h.doc /\ g.read = h.read
               /\ g.steps = h.steps /\ g.version = v /\ g.untold = h.untold
               /\ g.reasons = h.reasons /\ g.expected = h.expected /\ g.text = h.text
BY DEF Handler

LEMMA CreateRecordKept ==
    ASSUME Types, NEW r \in Request, CreateRecord(r)
    PROVE  StepKept(r)
<1>0. PICK h \in Handler : h = request[r]
  BY AtFacts DEF CreateRecord
<1> DEFINE y == Created(h.version, h.against)
           g == [h EXCEPT !.read = y]
<1>1. /\ At(r, "create") /\ UNCHANGED <<content, archived, upstream, texts, overlaps, aborts>>
  BY DEF CreateRecord
<1>2. /\ Fits(h) /\ Now(h) = "create" /\ h.doc \in Doc /\ h.version \in Nat
      /\ h.against \in [Kind -> Nat] /\ h.untold \in SUBSET Doc
      /\ request \in [Request -> Handler \cup {Idle}]
      /\ h.op = "generate" /\ h.steps \in FirstSteps /\ h.version \in Version
      /\ h.read = Absent /\ h.expected = 0
  BY <1>0, <1>1, AtFacts, FirstFacts, HandlerFacts
<1>3. CASE Done(r) /\ UNCHANGED documents
  BY <1>1, <1>2, <1>3, DoneKept, UnchangedRecords DEF StepKept, Types, TypeInv
<1>4. CASE ~Exists(h.doc) /\ documents' = [documents EXCEPT ![h.doc] = y] /\ Advance(r, g)
  <2>1. y \in Record /\ y # Absent /\ y.version = h.version /\ y.recordVersion = 0
    BY <1>2, CreatedFacts
  <2> HIDE DEF y
  <2>2. /\ documents \in [Doc -> Record \cup {Absent}]
        /\ documents' \in [Doc -> Record \cup {Absent}]
        /\ \A d \in Doc : documents'[d] = IF d = h.doc THEN y ELSE documents[d]
    BY <1>2, <1>4, <2>1 DEF Types, TypeInv
  <2>3. DocumentsStep
    BY <1>2, <1>4, <2>1, <2>2 DEF DocumentsStep, Exists, Types, RecordsFit
  <2>4. Fits(h)'
    BY <1>2, <2>3, FitsKept DEF Types
  <2>5. /\ Tail(h.steps) \in Seq(Step) /\ Tail(h.steps) # <<>>
        /\ Ordered("generate", Tail(h.steps)) /\ Head(Tail(h.steps)) = "write"
    BY <1>2, FirstStepsFacts DEF Now
  <2> DEFINE k == Stepped(g)
  <2>6. /\ k \in Handler
        /\ k.op = h.op /\ k.doc = h.doc /\ k.read = y /\ k.version = h.version
        /\ k.steps = Tail(h.steps) /\ k.untold = h.untold /\ k.reasons = h.reasons
        /\ k.expected = h.expected /\ g.steps = h.steps
    <3>1. /\ g \in Handler /\ g.op = h.op /\ g.doc = h.doc /\ g.read = y /\ g.steps = h.steps
          /\ g.version = h.version /\ g.untold = h.untold /\ g.reasons = h.reasons
          /\ g.expected = h.expected
      BY <2>1, WithRead
    <3> HIDE DEF g
    <3>2. QED  BY <2>5, <3>1, SteppedFacts
  <2>7. request' = [request EXCEPT ![r] = k]
    BY <1>4, <2>5, <2>6 DEF Advance, Stepped
  <2> HIDE DEF k, g
  <2>8. /\ request' = [request EXCEPT ![r] = request'[r]] /\ request'[r] = k
    BY <1>2, <2>7
  <2>9. h.expected <= documents'[h.doc].recordVersion
    BY <1>2, <2>1, <2>2
  <2>10. Fits(k)'
    BY <1>2, <2>1, <2>2, <2>4, <2>5, <2>6, <2>9 DEF Fits, InOrder, Planned, Now, Exists
  <2>11. QED  BY <1>1, <2>3, <2>6, <2>8, <2>10 DEF StepKept, Kept, Types, TypeInv
<1>5. QED  BY <1>0, <1>3, <1>4 DEF CreateRecord

LEMMA PlanVersionKept ==
    ASSUME Types, NEW r \in Request, PlanVersion(r)
    PROVE  StepKept(r)
<1>0. PICK h \in Handler : h = request[r]
  BY AtFacts DEF PlanVersion
<1>1. /\ At(r, "plan") /\ UNCHANGED <<documents, content, archived, upstream, texts, overlaps, aborts>>
      /\ NextVersion(h.doc) <= MaxVersion
      /\ Advance(r, [h EXCEPT !.version = NextVersion(h.doc)])
  BY <1>0 DEF PlanVersion
<1>2. /\ Fits(h) /\ Now(h) = "plan" /\ h.doc \in Doc /\ request \in [Request -> Handler \cup {Idle}]
  BY <1>0, <1>1, AtFacts
<1>3. PICK v \in Version : v = NextVersion(h.doc) /\ v \in Nat
  BY <1>1, <1>2, NextVersionFacts, EngineAssumption DEF Version
<1> DEFINE g == [h EXCEPT !.version = v]
<1>4. /\ g \in Handler
         /\ g.op = h.op /\ g.doc = h.doc /\ g.read = h.read /\ g.version \in Version
         /\ g.steps = h.steps /\ g.untold = h.untold /\ g.reasons = h.reasons
         /\ g.expected = h.expected
  BY <1>3, WithVersion
<1>5. Advance(r, g) /\ Now(g) = "plan"
  BY <1>1, <1>2, <1>3, <1>4 DEF Now
<1> HIDE DEF g
<1>6. Kept(r)
  <2>1. CASE h.read # Absent
    <3>1. Ordered(g.op, g.steps)
      BY <1>2, <1>4, <2>1 DEF Fits, InOrder
    <3>2. Goes(r, g)
      BY <1>2, <1>4, <1>5, <3>1, AdvanceGoes
    <3>3. /\ documents'[g.doc] # Absent /\ g.expected <= documents'[g.doc].recordVersion
          /\ g.read.version \in Version
          /\ (g.reasons # Unread => g.untold # {} /\ documents'[NextToTell(g.untold)] # Absent)
      BY <1>1, <1>2, <1>4, <2>1 DEF Fits, Exists
    <3>4. QED  BY <1>4, <2>1, <3>2, <3>3, GoesKept
  <2>2. CASE h.read = Absent
    <3>1. h.op = "generate" /\ h.steps \in FirstSteps /\ h.expected = 0
      BY <1>2, <2>2 DEF Fits, InOrder
    <3>2. Tail(g.steps) \in Seq(Step) /\ Tail(g.steps) # <<>> /\ Tail(g.steps) \in FirstSteps
      BY <1>2, <1>4, <3>1, FirstStepsFacts DEF Now
    <3> DEFINE k == Stepped(g)
    <3>3. /\ k \in Handler
          /\ k.op = h.op /\ k.doc = h.doc /\ k.read = h.read /\ k.version = g.version
          /\ k.steps = Tail(g.steps) /\ k.untold = h.untold /\ k.reasons = h.reasons
          /\ k.expected = h.expected
      BY <1>4, <3>2, SteppedFacts
    <3>4. request' = [request EXCEPT ![r] = k]
      BY <1>5, <3>2 DEF Advance, Stepped
    <3> HIDE DEF k
    <3>5. /\ request' = [request EXCEPT ![r] = request'[r]] /\ request'[r] = k
      BY <1>2, <3>4
    <3>6. (h.reasons # Unread => h.untold # {} /\ documents'[NextToTell(h.untold)] # Absent)
      BY <1>1, <1>2 DEF Fits, Exists
    <3>7. Fits(k)'
      BY <1>4, <2>2, <3>1, <3>2, <3>3, <3>6 DEF Fits, InOrder, Planned, Exists
    <3>8. QED  BY <3>3, <3>5, <3>7 DEF Kept
  <2>3. QED  BY <2>1, <2>2
<1>7. QED  BY <1>1, <1>6, UnchangedRecords DEF StepKept, Types, TypeInv


\* The handler with these documents still to tell, and these reasons for the next.
ToTell(h, U, R) == [h EXCEPT !.untold = U, !.reasons = R]

LEMMA WithReasons ==
    ASSUME NEW h \in Handler, NEW R \in {Unread} \cup SUBSET DocumentType, NEW U \in SUBSET Doc
    PROVE  LET g == ToTell(h, U, R)
           IN  /\ g \in Handler /\ g.op = h.op /\ g.doc = h.doc /\ g.read = h.read
               /\ g.steps = h.steps /\ g.version = h.version /\ g.untold = U
               /\ g.reasons = R /\ g.expected = h.expected /\ g.text = h.text
               /\ g.passes = h.passes /\ g.against = h.against
BY DEF Handler, ToTell

\* The telling goes on, or ends.
LEMMA TellKept ==
    ASSUME Types, DocumentsStep, NEW r \in Request, At(r, "tell"),
           NEW h \in Handler, h = request[r], NEW U \in SUBSET Doc,
           Tell(r, ToTell(h, U, Unread))
    PROVE  Kept(r)
<1> DEFINE g == ToTell(h, U, Unread)
<1>1. /\ g \in Handler /\ g.op = h.op /\ g.doc = h.doc /\ g.read = h.read
      /\ g.steps = h.steps /\ g.version = h.version /\ g.untold = U
      /\ g.reasons = Unread /\ g.expected = h.expected
  <2>1. Unread \in {Unread} \cup SUBSET DocumentType
    OBVIOUS
  <2>2. QED  BY <2>1, WithReasons
<1>2. /\ Fits(h) /\ Now(h) = "tell" /\ h.read \in Record /\ Ordered(h.op, h.steps)
      /\ request \in [Request -> Handler \cup {Idle}]
  BY AtFacts, ReadFacts
<1>3. Fits(h)'
  BY <1>2, FitsKept DEF Types
<1> HIDE DEF g
<1>4. Now(g) = "tell" /\ ~Planned(g) /\ g.read # Absent /\ Ordered(g.op, g.steps)
  BY <1>1, <1>2, RecordFacts DEF Now, Planned
<1>5. /\ documents'[g.doc] # Absent /\ g.read.version \in Version
      /\ g.expected <= documents'[g.doc].recordVersion
  BY <1>1, <1>3, <1>4 DEF Fits, Exists
<1>6. CASE Advance(r, g)
  <2>1. Goes(r, g)
    BY <1>1, <1>2, <1>4, <1>6, AdvanceGoes
  <2>2. QED  BY <1>1, <1>4, <1>5, <2>1, GoesKept
<1>7. CASE request' = [request EXCEPT ![r] = g]
  <2>1. request' = [request EXCEPT ![r] = request'[r]] /\ request'[r] = g
    BY <1>2, <1>7
  <2>2. Fits(g)'
    BY <1>1, <1>4, <1>5 DEF Fits, InOrder, Exists
  <2>3. QED  BY <1>1, <2>1, <2>2 DEF Kept
<1>8. QED  BY <1>6, <1>7 DEF Tell, g

LEMMA TellNobodyKept ==
    ASSUME Types, NEW r \in Request, TellNobody(r)
    PROVE  StepKept(r)
<1>1. /\ At(r, "tell") /\ UNCHANGED <<documents, content, archived, upstream, texts, overlaps, aborts>>
      /\ Advance(r, request[r])
  BY DEF TellNobody
<1>2. Kept(r)
  BY <1>1, AtFacts, ReadFacts, PlainKept
<1>3. QED  BY <1>1, <1>2, UnchangedRecords DEF StepKept, Types, TypeInv

\* The dependent a handler tells next.
LEMMA NextFacts ==
    ASSUME NEW h \in Handler, h.untold # {}
    PROVE  NextToTell(h.untold) \in h.untold /\ NextToTell(h.untold) \in Doc
<1>1. h.untold \in SUBSET Doc /\ h.untold \in SUBSET DocumentType
  BY HandlerFacts, EngineAssumption
<1>2. QED  BY <1>1, FirstToTell

LEMMA ReadDependentKept ==
    ASSUME Types, NEW r \in Request, ReadDependent(r)
    PROVE  StepKept(r)
<1>0. PICK h \in Handler : h = request[r]
  BY AtFacts DEF ReadDependent
<1> DEFINE e == NextToTell(h.untold)
<1>1. /\ At(r, "tell") /\ h.untold # {} /\ h.reasons = Unread
      /\ UNCHANGED <<documents, content, archived, upstream, texts, overlaps, aborts>>
  BY <1>0 DEF ReadDependent
<1>2. /\ Fits(h) /\ Now(h) = "tell" /\ h.read \in Record /\ Ordered(h.op, h.steps)
      /\ request \in [Request -> Handler \cup {Idle}] /\ h.doc \in Doc /\ h.untold \in SUBSET Doc
  BY <1>0, <1>1, AtFacts, ReadFacts, HandlerFacts
<1>3. e \in h.untold /\ e \in Doc
  BY <1>1, NextFacts
<1>4. DocumentsStep
  BY <1>1, UnchangedRecords
<1>5. CASE Exists(e) /\ request' = [request EXCEPT ![r].reasons = documents[e].outdated \cup {h.doc}]
  <2>1. documents[e] \in Record
    BY <1>3, <1>5 DEF Types, TypeInv, Exists
  <2>2. PICK R \in SUBSET DocumentType : R = documents[e].outdated \cup {h.doc}
    BY <1>2, <2>1, RecordFacts, EngineAssumption
  <2> DEFINE k == [h EXCEPT !.reasons = R]
  <2>3. request' = [request EXCEPT ![r] = k]
    BY <1>0, <1>5, <2>2
  <2>4. k = ToTell(h, h.untold, R) /\ R \in {Unread} \cup SUBSET DocumentType
    BY DEF Handler, ToTell
  <2>5. /\ k \in Handler /\ k.op = h.op /\ k.doc = h.doc /\ k.read = h.read
        /\ k.steps = h.steps /\ k.version = h.version /\ k.untold = h.untold
        /\ k.reasons = R /\ k.expected = h.expected
    BY <1>2, <2>4, WithReasons
  <2> HIDE DEF k, e
  <2>6. request' = [request EXCEPT ![r] = request'[r]] /\ request'[r] = k
    BY <1>2, <2>3
  <2>7. Fits(h)'
    BY <1>2, <1>4, FitsKept DEF Types
  <2>8. documents'[NextToTell(h.untold)] # Absent
    BY <1>1, <1>5 DEF Exists, e
  <2>9. Fits(k)'
    BY <1>1, <2>5, <2>7, <2>8 DEF Fits, InOrder, Planned, Now, Exists
  <2>10. QED  BY <1>1, <1>4, <2>5, <2>6, <2>9 DEF StepKept, Kept, Types, TypeInv
<1>6. CASE Tell(r, [h EXCEPT !.untold = @ \ {e}])
  <2>1. [h EXCEPT !.untold = @ \ {e}] = ToTell(h, h.untold \ {e}, Unread)
    BY <1>1 DEF Handler, ToTell
  <2> h.untold \ {e} \in SUBSET Doc
    BY <1>2
  <2>2. Kept(r)
    BY <1>0, <1>1, <1>2, <1>4, <1>6, <2>1, TellKept
  <2>3. QED  BY <1>1, <1>4, <2>2 DEF StepKept, Types, TypeInv
<1>7. QED  BY <1>0, <1>5, <1>6 DEF ReadDependent

LEMMA TouchDependentKept ==
    ASSUME Types, NEW r \in Request, TouchDependent(r)
    PROVE  StepKept(r)
<1>0. PICK h \in Handler : h = request[r]
  BY AtFacts DEF TouchDependent
<1> DEFINE e == NextToTell(h.untold)
           y == Touched(documents[e], h.reasons)
<1>1. /\ At(r, "tell") /\ h.untold # {} /\ h.reasons # Unread
      /\ UNCHANGED <<content, archived, upstream, texts, overlaps, aborts>>
      /\ documents' = [documents EXCEPT ![e] = y]
      /\ Tell(r, [h EXCEPT !.untold = @ \ {e}, !.reasons = Unread])
  BY <1>0 DEF TouchDependent
<1>2. Fits(h) /\ h.untold \in SUBSET Doc /\ h.reasons \in SUBSET DocumentType
  BY <1>0, <1>1, AtFacts, HandlerFacts
<1>3. e \in Doc /\ Exists(e)
  BY <1>1, <1>2, NextFacts DEF Fits
<1>4. documents[e] \in Record /\ documents[e].version \in Version
  BY <1>3 DEF Types, TypeInv, RecordsFit, Exists
<1>5. y \in Record /\ y.recordVersion = documents[e].recordVersion + 1 /\ y.version \in Version
  BY <1>2, <1>4, TouchedFacts
<1>6. DocumentsStep
  <2> HIDE DEF y, e
  <2>1. QED  BY <1>1, <1>3, <1>5, RecordWritten
<1>7. /\ [h EXCEPT !.untold = @ \ {e}, !.reasons = Unread] = ToTell(h, h.untold \ {e}, Unread)
      /\ h.untold \ {e} \in SUBSET Doc
  BY <1>2 DEF ToTell
<1>8. Kept(r)
  BY <1>0, <1>1, <1>2, <1>6, <1>7, TellKept
<1>9. QED  BY <1>1, <1>6, <1>8 DEF StepKept, Types, TypeInv

LEMMA HandleKept ==
    ASSUME Types, NEW r \in Request, Handle(r)
    PROVE  StepKept(r)
BY CreateRecordKept, ChangeContentKept, ReadContentKept, PlanVersionKept, ReadLiveKept,
   ArchivePreviousKept, CommitKept, CommitExclusionKept, WriteContentKept, RecordVersionKept,
   TellNobodyKept, ReadDependentKept, TouchDependentKept DEF Handle

LEMMA NewFacts ==
    ASSUME Types, NEW r \in Request, NEW d \in Doc, NEW op \in Operation, NEW steps \in Seq(Step),
           NEW text \in Nat, NEW passes \in BOOLEAN, Entered(d, op, steps)
    PROVE  New(d, op, steps, text, passes) \in Handler /\ Fits(New(d, op, steps, text, passes))
<1> DEFINE h == New(d, op, steps, text, passes)
<1>1. documents[d] \in Record \cup {Absent}
  BY DEF Types, TypeInv
<1>2. \A k \in Kind : upstream[k].version \in Nat
  BY DEF Types, TypeInv, Upstream
<1>3. UpstreamFields(d) \in [Kind -> Nat]
  <2>1. Exists(d) => \A k \in Kind : documents[d].against[k] \in Nat
    <3> SUFFICES ASSUME Exists(d), NEW k \in Kind PROVE documents[d].against[k] \in Nat
      OBVIOUS
    <3>1. documents[d].against \in [Kind -> Nat]
      BY <1>1, RecordFacts DEF Exists
    <3>2. QED  BY <3>1
  <2>2. QED  BY <1>2, <2>1 DEF UpstreamFields
<1>4. Exists(d) => documents[d] \in Record /\ documents[d].recordVersion \in Nat
  BY <1>1, RecordFacts DEF Exists
<1>5. h \in Handler
  <2>1. (IF Exists(d) THEN documents[d].recordVersion ELSE 0) \in Nat
    BY <1>4
  <2>2. DownstreamDocuments(d) \cap Doc \in SUBSET Doc
    OBVIOUS
  <2>3. QED  BY <1>1, <1>3, <2>1, <2>2 DEF Handler, New
<1>6. /\ h.op = op /\ h.doc = d /\ h.steps = steps /\ h.read = documents[d] /\ h.reasons = Unread
      /\ h.expected = IF Exists(d) THEN documents[d].recordVersion ELSE 0
  BY DEF New
<1> HIDE DEF h
<1>7. InOrder(h) /\ ~Planned(h)
  <2>1. CASE Exists(d)
    <3>1. Ordered(op, steps) /\ Head(steps) = Start(op)
      BY <2>1 DEF Entered
    <3>2. /\ Start(op) \notin {"create", "live", "write"}
          /\ Start(op) = "commit" => op \notin Cutting
          /\ Start(op) = "archive" => op # "regenerateRows"
      BY DEF Start, Operation, Cutting
    <3>3. QED  BY <1>6, <2>1, <3>1, <3>2 DEF InOrder, Planned, Now, Exists
  <2>2. CASE ~Exists(d)
    <3>1. op = "generate" /\ steps = <<"plan", "create", "write", "record">>
      BY <2>2 DEF Entered
    <3>2. Head(steps) = "plan"
      BY <3>1
    <3>3. QED  BY <1>6, <2>2, <3>1, <3>2 DEF InOrder, FirstSteps, Planned, Now, Exists
  <2>3. QED  BY <2>1, <2>2
<1>8. Fits(h)
  <2>1. h.read # Absent => Exists(h.doc) /\ h.read.version \in Version
                           /\ h.expected <= documents[h.doc].recordVersion
    BY <1>4, <1>6 DEF Exists, Types, RecordsFit
  <2>2. QED  BY <1>6, <1>7, <2>1 DEF Fits
<1>9. QED  BY <1>5, <1>8 DEF h

LEMMA TypesNext == Types /\ [Next]_vars => Types'
<1> SUFFICES ASSUME Types, [Next]_vars PROVE Types'
  OBVIOUS
<1>0. /\ texts \in 0 .. MaxTexts /\ overlaps \in 0 .. MaxOverlaps /\ aborts \in 0 .. MaxAborts
      /\ MaxTexts \in Nat /\ MaxOverlaps \in Nat /\ MaxAborts \in Nat
      /\ request \in [Request -> Handler \cup {Idle}] /\ upstream \in [Kind -> Upstream]
  BY EngineAssumption DEF Types, TypeInv
<1>a. ASSUME DocumentsStep, NEW r \in Request, Kept(r)
      PROVE  RecordsFit' /\ HandlersFit' /\ request' \in [Request -> Handler \cup {Idle}]
  <2>1. RecordsFit'
    BY <1>a DEF DocumentsStep, RecordsFit, Exists
  <2>2. request' \in [Request -> Handler \cup {Idle}]
    BY <1>0, <1>a DEF Kept
  <2>3. \A q \in Request : request'[q] = Idle \/ \E h \in Handler : request'[q] = h /\ Fits(h)'
    <3>1. TAKE q \in Request
    <3>2. CASE q = r
      BY <1>a, <3>2 DEF Kept
    <3>3. CASE q # r /\ request[q] # Idle
      <4>1. PICK h \in Handler : h = request[q] /\ Fits(h)
        BY <1>0, <3>3 DEF Types, HandlersFit
      <4>2. request'[q] = h
        BY <1>0, <1>a, <3>3, <4>1 DEF Kept
      <4>3. QED  BY <1>a, <4>1, <4>2, FitsKept DEF Types
    <3>4. CASE q # r /\ request[q] = Idle
      BY <1>0, <1>a, <3>4 DEF Kept
    <3>5. QED  BY <3>2, <3>3, <3>4
  <2>4. HandlersFit'
    <3>1. \A q \in Request : request'[q] # Idle => Fits(request[q])'
      <4>1. TAKE q \in Request
      <4>2. HAVE request'[q] # Idle
      <4>3. PICK h \in Handler : request'[q] = h /\ Fits(h)'
        BY <2>3, <4>2
      <4>4. QED  BY <4>3 DEF Fits, Exists
    <3>2. QED  BY <3>1 DEF HandlersFit
  <2>5. QED  BY <2>1, <2>2, <2>4
<1>1. CASE \E r \in Request : Handle(r)
  <2>1. PICK r \in Request : StepKept(r)
    BY <1>1, HandleKept
  <2>2. QED  BY <1>0, <1>a, <2>1 DEF StepKept, Types, TypeInv, DocumentsStep
<1>2. CASE \E r \in Request : Abort(r)
  <2>1. PICK r \in Request : Abort(r)
    BY <1>2
  <2>2. DocumentsStep /\ Kept(r)
    BY <1>0, <2>1, DoneKept, UnchangedRecords DEF Abort
  <2>3. aborts' \in 0 .. MaxAborts /\ UNCHANGED <<documents, content, archived, upstream, texts, overlaps>>
    BY <1>0, <2>1 DEF Abort
  <2>4. QED  BY <1>0, <1>a, <2>2, <2>3 DEF Types, TypeInv, DocumentsStep
<1>3. CASE \E r \in Request : Ask(r)
  <2>1. PICK r \in Request : Ask(r)
    BY <1>3
  <2>2. PICK d \in Doc, op \in Operation, steps \in Seq(Step), text \in Nat, passes \in BOOLEAN :
          Asked(r, d, op, steps, text, passes)
    BY <2>1, AskSteps DEF Accepted, Types
  <2>3. PICK h \in Handler : h = New(d, op, steps, text, passes) /\ Fits(h)
    BY <2>2, NewFacts DEF Asked
  <2>4. /\ request' = [request EXCEPT ![r] = h]
        /\ UNCHANGED <<documents, content, archived, upstream, aborts>>
        /\ texts' \in 0 .. MaxTexts /\ overlaps' \in 0 .. MaxOverlaps
    BY <1>0, <2>2, <2>3 DEF Asked, Free
  <2>5. DocumentsStep
    BY <2>4, UnchangedRecords
  <2>6. Fits(h)'
    BY <2>3, <2>5, FitsKept DEF Types
  <2>7. Kept(r)
    BY <1>0, <2>4, <2>6 DEF Kept
  <2>8. QED  BY <1>0, <1>a, <2>4, <2>5, <2>7 DEF Types, TypeInv, DocumentsStep
<1>4. CASE \E k \in Kind : SupersedeUpstream(k) \/ InvalidateUpstream(k)
  <2>1. UNCHANGED <<documents, content, archived, request, texts, overlaps, aborts>>
    BY <1>4 DEF SupersedeUpstream, InvalidateUpstream
  <2>2. upstream' \in [Kind -> Upstream]
    <3>1. PICK k \in Kind : SupersedeUpstream(k) \/ InvalidateUpstream(k)
      BY <1>4
    <3>2. upstream[k] \in Upstream
      BY <1>0
    <3>3. \/ upstream' = [upstream EXCEPT ![k] = [version |-> upstream[k].version + 1, state |-> "current"]]
          \/ upstream' = [upstream EXCEPT ![k] = [upstream[k] EXCEPT !.state = "stale"]]
          \/ upstream' = [upstream EXCEPT ![k] = [upstream[k] EXCEPT !.state = "withdrawn"]]
      BY <3>1 DEF SupersedeUpstream, InvalidateUpstream
    <3>4. /\ [version |-> upstream[k].version + 1, state |-> "current"] \in Upstream
          /\ [upstream[k] EXCEPT !.state = "stale"] \in Upstream
          /\ [upstream[k] EXCEPT !.state = "withdrawn"] \in Upstream
      BY <3>2 DEF Upstream
    <3>5. QED  BY <1>0, <3>3, <3>4
  <2>3. QED  BY <2>1, <2>2 DEF Types, TypeInv, RecordsFit, HandlersFit, Fits, Exists
<1>5. CASE UNCHANGED vars
  BY <1>5 DEF vars, Types, TypeInv, RecordsFit, HandlersFit, Fits, Exists
<1>6. QED  BY <1>1, <1>2, <1>3, <1>4, <1>5 DEF Next

LEMMA TypesInit == Init => Types
<1> SUFFICES ASSUME Init PROVE Types
  OBVIOUS
<1>1. TypeInv
  BY EngineAssumption DEF Init, TypeInv, Upstream
<1>2. RecordsFit /\ HandlersFit
  BY DEF Init, RecordsFit, HandlersFit, Exists
<1>3. QED  BY <1>1, <1>2 DEF Types

LEMMA TypesHold == Spec => []Types
BY TypesInit, TypesNext, PTL DEF Spec

\* TypeInv, for every handler with whatever it has read: records, words, history and
\* handlers keep their types however the handlers' steps interleave.
THEOREM TypeCorrect == Spec => []TypeInv
<1>1. Types => TypeInv
  BY DEF Types
<1>2. QED  BY <1>1, TypesHold, PTL

-----------------------------------------------------------------------------
(* How handlers go on *)

\* The action of each step.
LEMMA HandleAt ==
    ASSUME Types, NEW r \in Request, Handle(r)
    PROVE  /\ request[r] \in Handler /\ Fits(request[r]) /\ request[r].doc \in Doc
           /\ At(r, Now(request[r]))
           /\ LET now == Now(request[r])
              IN  \/ now = "create" /\ CreateRecord(r)
                  \/ now = "change" /\ ChangeContent(r)
                  \/ now = "read" /\ ReadContent(r)
                  \/ now = "plan" /\ PlanVersion(r)
                  \/ now = "live" /\ ReadLive(r)
                  \/ now = "archive" /\ ArchivePrevious(r)
                  \/ now = "commit" /\ Commit(r)
                  \/ now = "exclude" /\ CommitExclusion(r)
                  \/ now = "write" /\ WriteContent(r)
                  \/ now = "record" /\ RecordVersion(r)
                  \/ now = "tell" /\ (TellNobody(r) \/ ReadDependent(r) \/ TouchDependent(r))
<1>1. ASSUME NEW step, At(r, step)
      PROVE  request[r] \in Handler /\ Fits(request[r]) /\ request[r].doc \in Doc
             /\ Now(request[r]) = step /\ At(r, Now(request[r]))
  BY <1>1, AtFacts
<1>2. QED
  BY <1>1 DEF Handle, CreateRecord, ChangeContent, ReadContent, PlanVersion, ReadLive,
              ArchivePrevious, Commit, CommitExclusion, WriteContent, RecordVersion,
              TellNobody, ReadDependent, TouchDependent

\* Which step comes after which.
Then(op, a, b) ==
    \/ Follows(op, a, b)
    \/ op = "generate" /\ ((a = "plan" /\ b = "create") \/ (a = "create" /\ b = "write"))
    \/ a = "tell" /\ b = "tell"

\* Handlers that differ in their steps only.
Alike(g, k) ==
    /\ k.op = g.op /\ k.doc = g.doc /\ k.read = g.read /\ k.expected = g.expected
    /\ k.version = g.version /\ k.text = g.text /\ k.untold = g.untold /\ k.reasons = g.reasons
    /\ k.passes = g.passes /\ k.against = g.against

Gone(r, g) ==
    \/ request'[r] = Idle /\ Ends(g.op, Now(g))
    \/ \E k \in Handler : request'[r] = k /\ Alike(g, k) /\ Then(g.op, Now(g), Now(k))

LEMMA AdvanceGone ==
    ASSUME request \in [Request -> Handler \cup {Idle}], NEW r \in Request, NEW g \in Handler,
           InOrder(g), Advance(r, g)
    PROVE  Gone(r, g)
<1>1. CASE g.read # Absent
  <2>1. Ordered(g.op, g.steps)
    BY <1>1 DEF InOrder
  <2>2. Goes(r, g)
    BY <2>1, AdvanceGoes
  <2>3. CASE request'[r] = Idle /\ Ends(g.op, Now(g))
    BY <2>3 DEF Gone
  <2>4. CASE /\ request'[r] = Stepped(g) /\ Stepped(g) \in Handler
             /\ Ordered(g.op, Stepped(g).steps) /\ Follows(g.op, Now(g), Now(Stepped(g)))
    <3>1. Tail(g.steps) \in Seq(Step)
      BY <2>1, OrderedTail
    <3>2. Alike(g, Stepped(g))
      BY <3>1, SteppedFacts DEF Alike
    <3>3. QED  BY <2>4, <3>2 DEF Gone, Then
  <2>5. QED  BY <2>2, <2>3, <2>4 DEF Goes
<1>2. CASE g.read = Absent
  <2>1. g.op = "generate" /\ g.steps \in FirstSteps
    BY <1>2 DEF InOrder
  <2>2. /\ Tail(g.steps) \in Seq(Step) /\ Tail(g.steps) # <<>>
        /\ Head(g.steps) = "plan" => Head(Tail(g.steps)) = "create"
        /\ Head(g.steps) = "create" => Head(Tail(g.steps)) = "write"
        /\ Head(g.steps) \in {"plan", "create"}
    BY <2>1, FirstStepsFacts
  <2>3. request'[r] = Stepped(g)
    BY <2>2 DEF Advance, Stepped
  <2>4. Stepped(g) \in Handler /\ Stepped(g).steps = Tail(g.steps) /\ Alike(g, Stepped(g))
    BY <2>2, SteppedFacts DEF Alike
  <2>5. QED  BY <2>1, <2>2, <2>3, <2>4 DEF Gone, Then, Now
<1>3. QED  BY <1>1, <1>2

\* A handler from one step to the next, but for what it has still to tell.
Turned(h, k) ==
    /\ k.op = h.op /\ k.doc = h.doc
    /\ k.read = IF Now(h) = "create" \/ (Now(h) = "commit" /\ h.op = "generate")
                THEN documents'[h.doc] ELSE h.read
    /\ k.version = IF Now(h) = "plan" THEN NextVersion(h.doc) ELSE h.version
    /\ k.expected = IF Now(h) = "live" THEN documents[h.doc].recordVersion ELSE h.expected
    /\ k.text = IF Now(h) = "read" \/ (Now(h) = "archive" /\ h.op \in Copying)
                THEN Words(h) ELSE h.text
    /\ k.passes = h.passes /\ k.against = h.against
    /\ Now(h) # "tell" => k.untold = h.untold /\ k.reasons = h.reasons
Onward(h, k) == Turned(h, k) /\ Then(h.op, Now(h), Now(k))

\* A handler that does not go on is over, or has found that it cannot.
Moves(r, h) ==
    \/ /\ request'[r] = Idle
       /\ \/ Ends(h.op, Now(h))
          \/ Now(h) \in {"create", "change", "exclude"} /\ UNCHANGED <<documents, content>>
          \/ /\ Now(h) = "commit" /\ h.op \notin Copying /\ UNCHANGED documents
             /\ documents[h.doc].recordVersion # h.expected
    \/ \E k \in Handler : request'[r] = k /\ Onward(h, k)

LEMMA TurnedMoves ==
    ASSUME NEW r \in Request, NEW h \in Handler, NEW g \in Handler, Turned(h, g),
           g.steps = h.steps, Gone(r, g)
    PROVE  Moves(r, h)
<1>1. g.op = h.op /\ Now(g) = Now(h)
  BY DEF Turned, Now
<1>2. CASE request'[r] = Idle /\ Ends(g.op, Now(g))
  BY <1>1, <1>2 DEF Moves
<1>3. CASE \E k \in Handler : request'[r] = k /\ Alike(g, k) /\ Then(g.op, Now(g), Now(k))
  <2>1. PICK k \in Handler : request'[r] = k /\ Alike(g, k) /\ Then(g.op, Now(g), Now(k))
    BY <1>3
  <2>2. Turned(h, k)
    BY <2>1 DEF Turned, Alike
  <2>3. QED  BY <1>1, <2>1, <2>2 DEF Moves, Onward
<1>4. QED  BY <1>2, <1>3 DEF Gone

\* A handler that forgets and reads nothing with this step.
LEMMA SameMoves ==
    ASSUME Types, NEW r \in Request, NEW h \in Handler, h = request[r], Fits(h), Advance(r, h),
           Now(h) \notin {"create", "plan", "live", "read"},
           Now(h) = "commit" => h.op # "generate",
           Now(h) = "archive" => h.op \notin Copying
    PROVE  Moves(r, h)
<1>1. Turned(h, h)
  BY DEF Turned
<1>2. InOrder(h)
  BY DEF Fits
<1>3. Gone(r, h)
  BY <1>2, AdvanceGone DEF Types, TypeInv
<1>4. QED  BY <1>1, <1>3, TurnedMoves

LEMMA ReadMoves ==
    ASSUME Types, NEW r \in Request, NEW h \in Handler, h = request[r],
           ReadContent(r) \/ ReadLive(r) \/ PlanVersion(r)
    PROVE  Moves(r, h)
<1>r. request \in [Request -> Handler \cup {Idle}]
  BY DEF Types, TypeInv
<1>1. CASE ReadContent(r)
  <2> DEFINE g == [h EXCEPT !.text = Words(h)]
  <2>1. At(r, "read") /\ Advance(r, g)
    BY <1>1 DEF ReadContent
  <2>2. Now(h) = "read" /\ h.doc \in Doc /\ h.read.version \in Version /\ InOrder(h)
    BY <2>1, AtFacts, ReadFacts DEF Fits
  <2>3. Words(h) \in Nat
    BY <2>2, WordsType DEF Words
  <2>4. g \in Handler /\ Turned(h, g) /\ g.steps = h.steps /\ g.op = h.op /\ g.read = h.read
        /\ g.expected = h.expected
    BY <2>2, <2>3 DEF Turned, Handler
  <2> HIDE DEF g
  <2>5. Gone(r, g)
    BY <1>r, <2>1, <2>2, <2>4, AdvanceGone DEF InOrder
  <2>6. QED  BY <2>4, <2>5, TurnedMoves
<1>2. CASE ReadLive(r)
  <2> DEFINE g == [h EXCEPT !.expected = documents[h.doc].recordVersion]
  <2>1. At(r, "live") /\ Advance(r, g)
    BY <1>2 DEF ReadLive
  <2>2. /\ Now(h) = "live" /\ h.doc \in Doc /\ h.read \in Record /\ documents[h.doc] \in Record
        /\ Ordered(h.op, h.steps)
    BY <2>1, AtFacts, ReadFacts
  <2>3. documents[h.doc].recordVersion \in Nat /\ h.read # Absent
    BY <2>2, RecordFacts
  <2>4. g \in Handler /\ Turned(h, g) /\ g.steps = h.steps /\ g.op = h.op /\ g.read = h.read
    BY <2>2, <2>3 DEF Turned, Handler
  <2> HIDE DEF g
  <2>5. Gone(r, g)
    BY <1>r, <2>1, <2>2, <2>3, <2>4, AdvanceGone DEF InOrder
  <2>6. QED  BY <2>4, <2>5, TurnedMoves
<1>3. CASE PlanVersion(r)
  <2>1. At(r, "plan") /\ Advance(r, [h EXCEPT !.version = NextVersion(h.doc)])
    BY <1>3 DEF PlanVersion
  <2>2. Now(h) = "plan" /\ h.doc \in Doc /\ InOrder(h)
    BY <2>1, AtFacts DEF Fits
  <2>3. NextVersion(h.doc) \in Nat
    BY <2>2, NextVersionFacts
  <2> DEFINE g == [h EXCEPT !.version = NextVersion(h.doc)]
  <2>4. g \in Handler /\ Turned(h, g) /\ g.steps = h.steps /\ g.op = h.op /\ g.read = h.read
        /\ g.expected = h.expected
    BY <2>2, <2>3 DEF Turned, Handler
  <2>5. Advance(r, g)
    BY <2>1
  <2> HIDE DEF g
  <2>6. Gone(r, g)
    BY <1>r, <2>2, <2>4, <2>5, AdvanceGone DEF InOrder
  <2>7. QED  BY <2>4, <2>6, TurnedMoves
<1>4. QED  BY <1>1, <1>2, <1>3

LEMMA WriteMoves ==
    ASSUME Types, NEW r \in Request, NEW h \in Handler, h = request[r],
           CreateRecord(r) \/ ArchivePrevious(r) \/ Commit(r)
    PROVE  Moves(r, h)
<1>r. request \in [Request -> Handler \cup {Idle}] /\ documents \in [Doc -> Record \cup {Absent}]
  BY DEF Types, TypeInv
<1>1. CASE ArchivePrevious(r)
  <2> DEFINE g == IF h.op \in {"reopen", "revise"} THEN [h EXCEPT !.text = Words(h)] ELSE h
  <2>1. At(r, "archive") /\ Advance(r, g)
    BY <1>1 DEF ArchivePrevious
  <2>2. Now(h) = "archive" /\ h.doc \in Doc /\ h.read.version \in Version /\ InOrder(h)
    BY <2>1, AtFacts, ReadFacts DEF Fits
  <2>3. Words(h) \in Nat
    BY <2>2, WordsType DEF Words
  <2>4. g \in Handler /\ Turned(h, g) /\ g.steps = h.steps /\ g.op = h.op /\ g.read = h.read
        /\ g.expected = h.expected
    BY <2>2, <2>3 DEF Turned, Handler, Copying
  <2> HIDE DEF g
  <2>5. Gone(r, g)
    BY <1>r, <2>1, <2>2, <2>4, AdvanceGone DEF InOrder
  <2>6. QED  BY <2>4, <2>5, TurnedMoves
<1>2. CASE Commit(r)
  <2>1. At(r, "commit")
    BY <1>2 DEF Commit
  <2>2. /\ Now(h) = "commit" /\ h.doc \in Doc /\ h.read \in Record /\ documents[h.doc] \in Record
        /\ Ordered(h.op, h.steps) /\ Fits(h) /\ InOrder(h)
    BY <2>1, AtFacts, ReadFacts DEF Fits
  <2>3. h.op # "suggest" /\ h.read # Absent
    BY <2>2, StepsOf, HandlerFacts, RecordFacts DEF Now
  <2>4. PICK y \in Record : y = Updated(h)
    BY <2>2, <2>3, UpdatedFacts
  <2>5. CASE documents[h.doc].recordVersion = h.expected
    <3>1. documents' = [documents EXCEPT ![h.doc] = y]
          /\ Advance(r, IF h.op = "generate" THEN [h EXCEPT !.read = y] ELSE h)
      BY <1>2, <2>4, <2>5 DEF Commit
    <3>2. documents'[h.doc] = y
      BY <1>r, <2>2, <3>1
    <3>3. CASE h.op # "generate"
      BY <2>2, <3>1, <3>3, SameMoves
    <3>4. CASE h.op = "generate"
      <4> DEFINE g == [h EXCEPT !.read = y]
      <4>1. g \in Handler /\ Turned(h, g) /\ g.steps = h.steps /\ g.op = h.op /\ g.read = y
        BY <2>2, <3>2, <3>4 DEF Turned, Handler
      <4>2. Advance(r, g) /\ y # Absent
        BY <3>1, <3>4, RecordFacts
      <4> HIDE DEF g
      <4>3. Gone(r, g)
        BY <1>r, <2>2, <4>1, <4>2, AdvanceGone DEF InOrder
      <4>4. QED  BY <4>1, <4>3, TurnedMoves
    <3>5. QED  BY <3>3, <3>4
  <2>6. CASE documents[h.doc].recordVersion # h.expected
    <3>1. UNCHANGED documents /\ IF h.op \in Copying THEN Advance(r, h) ELSE Done(r)
      BY <1>2, <2>6 DEF Commit, Copying
    <3>2. CASE h.op \in Copying
      BY <2>2, <3>1, <3>2, SameMoves DEF Copying
    <3>3. CASE h.op \notin Copying
      BY <1>r, <2>2, <2>6, <3>1, <3>3 DEF Done, Moves
    <3>4. QED  BY <3>2, <3>3
  <2>7. QED  BY <2>5, <2>6
<1>3. CASE CreateRecord(r)
  <2>1. At(r, "create") /\ UNCHANGED content
    BY <1>3 DEF CreateRecord
  <2>2. /\ Now(h) = "create" /\ h.doc \in Doc /\ h.op = "generate" /\ h.steps \in FirstSteps
        /\ h.version \in Nat /\ h.against \in [Kind -> Nat]
    BY <2>1, AtFacts, FirstFacts, HandlerFacts
  <2>3. CASE Exists(h.doc)
    BY <1>r, <1>3, <2>1, <2>2, <2>3 DEF CreateRecord, Done, Moves
  <2>4. CASE ~Exists(h.doc)
    <3>1. PICK y \in Record : y = Created(h.version, h.against)
      BY <2>2, CreatedFacts
    <3> DEFINE g == [h EXCEPT !.read = y]
    <3>2. documents' = [documents EXCEPT ![h.doc] = y] /\ Advance(r, g)
      BY <1>3, <2>4, <3>1 DEF CreateRecord
    <3>3. documents'[h.doc] = y
      BY <1>r, <2>2, <3>2
    <3>4. g \in Handler /\ Turned(h, g) /\ g.steps = h.steps /\ g.op = h.op
      BY <2>2, <3>3 DEF Turned, Handler
    <3>5. /\ Tail(h.steps) \in Seq(Step) /\ Tail(h.steps) # <<>> /\ Head(Tail(h.steps)) = "write"
      BY <2>2, FirstStepsFacts DEF Now
    <3> HIDE DEF g
    <3>6. request'[r] = Stepped(g)
      BY <1>r, <3>2, <3>4, <3>5 DEF Advance, Stepped
    <3>7. /\ Stepped(g) \in Handler /\ Stepped(g).steps = Tail(h.steps) /\ Alike(g, Stepped(g))
          /\ Now(g) = Now(h)
      BY <3>4, <3>5, SteppedFacts DEF Alike, Now
    <3>8. Gone(r, g)
      BY <2>2, <3>4, <3>5, <3>6, <3>7 DEF Gone, Then, Now
    <3>9. QED  BY <3>4, <3>8, TurnedMoves
  <2>5. QED  BY <2>3, <2>4
<1>4. QED  BY <1>1, <1>2, <1>3

\* What telling one more dependent comes to.
Told(r, h) ==
    LET e == NextToTell(h.untold)
    IN  \/ h.untold = {} /\ UNCHANGED documents /\ request'[r] = Idle
        \/ /\ h.untold # {} /\ h.reasons = Unread /\ Exists(e) /\ UNCHANGED documents
           /\ request'[r] = ToTell(h, h.untold, documents[e].outdated \cup {h.doc})
        \/ /\ h.untold # {}
           /\ IF h.reasons = Unread THEN ~Exists(e) /\ UNCHANGED documents
              ELSE documents' = [documents EXCEPT ![e] = Touched(@, h.reasons)]
           /\ request'[r] = IF h.untold \ {e} = {} THEN Idle
                            ELSE ToTell(h, h.untold \ {e}, Unread)

LEMMA TellingIsLast ==
    ASSUME NEW h \in Handler, Fits(h), Now(h) = "tell"
    PROVE  /\ Ordered(h.op, h.steps) /\ Tail(h.steps) = <<>> /\ Ends(h.op, "tell")
           /\ h.op \in InPlace \cup Copying \cup {"regenerateFeatures"}
<1>1. Ordered(h.op, h.steps)
  <2>1. h.read = Absent => Head(h.steps) \in {"plan", "create"}
    BY FirstStepsFacts DEF Fits, InOrder
  <2>2. QED  BY <2>1 DEF Fits, InOrder, Now
<1>2. h.op \in InPlace \cup Copying \cup {"regenerateFeatures"}
  BY <1>1, StepsOf, HandlerFacts DEF Now
<1>3. Ends(h.op, "tell")
  BY <1>2 DEF Ends, InPlace, Copying
<1>4. Tail(h.steps) = <<>>
  <2> SUFFICES ASSUME Tail(h.steps) # <<>> PROVE FALSE
    OBVIOUS
  <2>1. Follows(h.op, "tell", Head(Tail(h.steps)))
    BY <1>1, OrderedTail DEF Now
  <2>2. QED  BY <2>1 DEF Follows, Before, Cutting, Copying, InPlace
<1>5. QED  BY <1>1, <1>2, <1>3, <1>4

LEMMA TellSteps ==
    ASSUME Types, NEW r \in Request, NEW h \in Handler, h = request[r], Fits(h), Now(h) = "tell",
           TellNobody(r) \/ ReadDependent(r) \/ TouchDependent(r)
    PROVE  Told(r, h)
<1> DEFINE e == NextToTell(h.untold)
<1>r. request \in [Request -> Handler \cup {Idle}]
  BY DEF Types, TypeInv
<1>l. Tail(h.steps) = <<>>
  BY TellingIsLast
<1>a. ASSUME NEW g, g.steps = h.steps, Advance(r, g) PROVE request'[r] = Idle
  BY <1>r, <1>l, <1>a DEF Advance
<1>t. ASSUME NEW U, Tell(r, ToTell(h, U, Unread))
      PROVE  request'[r] = IF U = {} THEN Idle ELSE ToTell(h, U, Unread)
  <2>1. ToTell(h, U, Unread).untold = U /\ ToTell(h, U, Unread).steps = h.steps
    BY DEF ToTell, Handler
  <2>2. CASE U = {}
    BY <1>a, <1>t, <2>1, <2>2 DEF Tell
  <2>3. CASE U # {}
    BY <1>r, <1>t, <2>1, <2>3 DEF Tell
  <2>4. QED  BY <2>2, <2>3
<1>1. CASE TellNobody(r)
  <2>1. h.untold = {} /\ UNCHANGED documents /\ Advance(r, h)
    BY <1>1 DEF TellNobody
  <2>2. QED  BY <1>a, <2>1 DEF Told
<1>2. CASE ReadDependent(r)
  <2>1. h.untold # {} /\ h.reasons = Unread /\ UNCHANGED documents
    BY <1>2 DEF ReadDependent
  <2>2. CASE Exists(e)
    <3>1. request' = [request EXCEPT ![r].reasons = documents[e].outdated \cup {h.doc}]
      BY <1>2, <2>2 DEF ReadDependent
    <3> DEFINE R == documents[e].outdated \cup {h.doc}
    <3>2. request'[r] = [h EXCEPT !.reasons = R]
      BY <1>r, <3>1
    <3>3. [h EXCEPT !.reasons = R] = ToTell(h, h.untold, R)
      <4> HIDE DEF R
      <4>1. QED  BY DEF ToTell, Handler
    <3>4. QED  BY <2>1, <2>2, <3>2, <3>3 DEF Told
  <2>3. CASE ~Exists(e)
    <3>1. Tell(r, [h EXCEPT !.untold = @ \ {e}])
      BY <1>2, <2>3 DEF ReadDependent
    <3> DEFINE U == h.untold \ {e}
    <3>2. [h EXCEPT !.untold = @ \ {e}] = ToTell(h, U, Unread)
      BY <2>1 DEF ToTell, Handler
    <3> HIDE DEF e
    <3>3. request'[r] = IF U = {} THEN Idle ELSE ToTell(h, U, Unread)
      BY <1>t, <3>1, <3>2
    <3>4. QED  BY <2>1, <2>3, <3>3 DEF Told, e
  <2>4. QED  BY <2>2, <2>3
<1>3. CASE TouchDependent(r)
  <2>1. /\ h.untold # {} /\ h.reasons # Unread
        /\ documents' = [documents EXCEPT ![e] = Touched(@, h.reasons)]
        /\ Tell(r, [h EXCEPT !.untold = @ \ {e}, !.reasons = Unread])
    BY <1>3 DEF TouchDependent
  <2> DEFINE U == h.untold \ {e}
  <2>2. [h EXCEPT !.untold = @ \ {e}, !.reasons = Unread] = ToTell(h, U, Unread)
    BY DEF ToTell, Handler
  <2> HIDE DEF e
  <2>3. request'[r] = IF U = {} THEN Idle ELSE ToTell(h, U, Unread)
    BY <1>t, <2>1, <2>2
  <2>4. QED  BY <2>1, <2>3 DEF Told, e
<1>4. QED  BY <1>1, <1>2, <1>3

LEMMA ToldMoves ==
    ASSUME Types, NEW r \in Request, NEW h \in Handler, h = request[r], Fits(h), Now(h) = "tell",
           Told(r, h)
    PROVE  Moves(r, h)
<1> DEFINE e == NextToTell(h.untold)
<1>1. Ends(h.op, "tell")
  BY TellingIsLast
<1>2. ASSUME NEW U \in SUBSET Doc, NEW R \in {Unread} \cup SUBSET DocumentType
      PROVE  ToTell(h, U, R) \in Handler /\ Onward(h, ToTell(h, U, R))
  <2>1. PICK g \in Handler : g = ToTell(h, U, R)
    BY WithReasons
  <2>2. /\ g.op = h.op /\ g.doc = h.doc /\ g.read = h.read /\ g.version = h.version
        /\ g.expected = h.expected /\ g.text = h.text /\ g.passes = h.passes
        /\ g.against = h.against /\ g.steps = h.steps
    BY <2>1, WithReasons
  <2>3. Onward(h, g)
    BY <2>2 DEF Onward, Turned, Then, Now
  <2>4. QED  BY <2>1, <2>3
<1>3. h.untold \in SUBSET Doc /\ h.untold \ {e} \in SUBSET Doc /\ h.doc \in DocumentType
      /\ h.reasons \in {Unread} \cup SUBSET DocumentType
  BY HandlerFacts, EngineAssumption
<1>4. CASE request'[r] = Idle
  BY <1>1, <1>4 DEF Moves
<1>5. CASE h.untold # {} /\ Exists(e)
           /\ request'[r] = ToTell(h, h.untold, documents[e].outdated \cup {h.doc})
  <2>1. documents[e] \in Record
    BY <1>5, NextFacts DEF Types, TypeInv, Exists
  <2>2. documents[e].outdated \cup {h.doc} \in SUBSET DocumentType
    BY <1>3, <2>1, RecordFacts
  <2>3. QED  BY <1>2, <1>3, <1>5, <2>2 DEF Moves
<1>6. CASE request'[r] = ToTell(h, h.untold \ {e}, Unread)
  <2>1. Unread \in {Unread} \cup SUBSET DocumentType
    OBVIOUS
  <2> HIDE DEF e
  <2>2. QED  BY <1>2, <1>3, <1>6, <2>1 DEF Moves
<1>7. QED  BY <1>4, <1>5, <1>6 DEF Told

\* Each step of a handler moves it on; the other handlers stay as they are.
LEMMA HandleMoves ==
    ASSUME Types, NEW r \in Request, Handle(r), NEW h \in Handler, h = request[r]
    PROVE  /\ Moves(r, h)
           /\ \A q \in Request : q # r => request'[q] = request[q]
<1>1. Moves(r, h)
  <2>1. /\ Fits(h) /\ request \in [Request -> Handler \cup {Idle}] /\ documents = documents
    BY HandleAt DEF Types, TypeInv
  <2>2. CASE Now(h) = "change" /\ ChangeContent(r)
    <3>1. Advance(r, h) \/ (Done(r) /\ UNCHANGED <<documents, content>>)
      BY <2>2 DEF ChangeContent
    <3>2. CASE Advance(r, h)
      BY <2>1, <2>2, <3>2, SameMoves
    <3>3. CASE Done(r) /\ UNCHANGED <<documents, content>>
      BY <2>1, <2>2, <3>3 DEF Done, Moves
    <3>4. QED  BY <3>1, <3>2, <3>3
  <2>3. CASE Now(h) = "exclude" /\ CommitExclusion(r)
    <3>1. Advance(r, h) \/ (Done(r) /\ UNCHANGED <<documents, content>>)
      BY <2>3 DEF CommitExclusion
    <3>2. CASE Advance(r, h)
      BY <2>1, <2>3, <3>2, SameMoves
    <3>3. CASE Done(r) /\ UNCHANGED <<documents, content>>
      BY <2>1, <2>3, <3>3 DEF Done, Moves
    <3>4. QED  BY <3>1, <3>2, <3>3
  <2>4. CASE (Now(h) = "write" /\ WriteContent(r)) \/ (Now(h) = "record" /\ RecordVersion(r))
    BY <2>1, <2>4, SameMoves DEF WriteContent, RecordVersion
  <2>5. QED
    BY <2>1, <2>2, <2>3, <2>4, HandleAt, ReadMoves, WriteMoves, TellSteps, ToldMoves
<1>2. \A q \in Request : q # r => request'[q] = request[q]
  <2>1. request' = [request EXCEPT ![r] = request'[r]]
    BY HandleKept DEF StepKept, Kept
  <2>2. QED  BY <2>1 DEF Types, TypeInv
<1>3. QED  BY <1>1, <1>2

\* What a step writes to the records.
Writes(h) ==
    \/ UNCHANGED documents
    \/ /\ Now(h) = "create" /\ ~Exists(h.doc) /\ h.op = "generate"
       /\ documents' = [documents EXCEPT ![h.doc] = Created(h.version, h.against)]
    \/ /\ Now(h) = "exclude" /\ documents[h.doc].recordVersion = h.expected
       /\ documents' = [documents EXCEPT ![h.doc] = Bumped(@)]
    \/ /\ Now(h) = "commit" /\ documents[h.doc].recordVersion = h.expected
       /\ documents' = [documents EXCEPT ![h.doc] = Updated(h)]
    \/ /\ Now(h) = "tell" /\ h.untold # {} /\ h.reasons # Unread
       /\ documents' = [documents EXCEPT ![NextToTell(h.untold)] = Touched(@, h.reasons)]

LEMMA HandleWrites ==
    ASSUME Types, NEW r \in Request, Handle(r), NEW h \in Handler, h = request[r]
    PROVE  Writes(h) /\ UNCHANGED <<upstream, texts, overlaps, aborts>>
<1>1. CASE Now(h) = "create" /\ CreateRecord(r)
  <2>1. h.op = "generate"
    BY <1>1, FirstFacts DEF CreateRecord
  <2>2. QED  BY <1>1, <2>1 DEF CreateRecord, Writes
<1>2. CASE Now(h) = "commit" /\ Commit(r)
  BY <1>2 DEF Commit, Writes
<1>3. CASE Now(h) = "exclude" /\ CommitExclusion(r)
  BY <1>3 DEF CommitExclusion, Writes
<1>4. CASE Now(h) = "tell" /\ TouchDependent(r)
  BY <1>4 DEF TouchDependent, Writes
<1>5. CASE \/ ChangeContent(r) \/ ReadContent(r) \/ PlanVersion(r) \/ ReadLive(r)
           \/ ArchivePrevious(r) \/ WriteContent(r) \/ RecordVersion(r) \/ TellNobody(r)
           \/ ReadDependent(r)
  BY <1>5 DEF ChangeContent, ReadContent, PlanVersion, ReadLive, ArchivePrevious, WriteContent,
              RecordVersion, TellNobody, ReadDependent, Writes
<1>6. QED  BY <1>1, <1>2, <1>3, <1>4, <1>5, HandleAt

-----------------------------------------------------------------------------
(* Approvals rest on the record they checked *)

\* The record a handler is to approve is as it was when the handler checked it, or the
\* update will be refused.
Vouched(h) ==
    h.op \in {"approve", "markFinal"} /\ Now(h) = "commit"
        /\ documents[h.doc].recordVersion = h.expected =>
            /\ documents[h.doc].outdated = {}
            /\ h.op = "approve" => ValidationPermits(documents[h.doc])
            /\ h.op = "markFinal" => documents[h.doc].status = "APPROVED"
Vouches == \A r \in Request : request[r] # Idle => Vouched(request[r])

LEMMA VouchedKept ==
    ASSUME Types, DocumentsStep, NEW h \in Handler, Fits(h), Vouched(h)
    PROVE  Vouched(h)'
<1> SUFFICES ASSUME h.op \in {"approve", "markFinal"}, Now(h) = "commit",
                    documents'[h.doc].recordVersion = h.expected
             PROVE  /\ documents'[h.doc].outdated = {}
                    /\ h.op = "approve" => ValidationPermits(documents'[h.doc])
                    /\ h.op = "markFinal" => documents'[h.doc].status = "APPROVED"
  BY DEF Vouched
<1>1. h.doc \in Doc /\ h.expected \in Nat /\ h.read # Absent
  BY HandlerFacts DEF Fits, InOrder
<1>2. Exists(h.doc) /\ h.expected <= documents[h.doc].recordVersion
  BY <1>1 DEF Fits
<1>3. documents[h.doc].recordVersion \in Nat
  BY <1>1, <1>2, RecordFacts DEF Types, TypeInv, Exists
<1>4. documents'[h.doc] = documents[h.doc]
  BY <1>1, <1>2, <1>3 DEF DocumentsStep
<1>5. QED  BY <1>4 DEF Vouched

LEMMA VouchesNext == Types /\ Vouches /\ [Next]_vars => Vouches'
<1> SUFFICES ASSUME Types, Vouches, [Next]_vars PROVE Vouches'
  OBVIOUS
<1>r. request \in [Request -> Handler \cup {Idle}]
  BY DEF Types, TypeInv
<1>a. ASSUME DocumentsStep, NEW q \in Request, request'[q] = request[q], request'[q] # Idle
      PROVE  Vouched(request[q])'
  <2>1. PICK h \in Handler : h = request[q] /\ Fits(h) /\ Vouched(h)
    BY <1>r, <1>a DEF Types, HandlersFit, Vouches
  <2>2. Vouched(h)'
    BY <1>a, <2>1, VouchedKept
  <2>3. request'[q] = h
    BY <1>a, <2>1
  <2>4. QED  BY <2>2, <2>3 DEF Vouched
<1>1. CASE \E r \in Request : Handle(r)
  <2>1. PICK r \in Request : Handle(r)
    BY <1>1
  <2>2. PICK h \in Handler : h = request[r]
    BY <2>1, HandleAt
  <2>3. Moves(r, h) /\ DocumentsStep /\ \A q \in Request : q # r => request'[q] = request[q]
    BY <2>1, <2>2, HandleMoves, HandleKept DEF StepKept
  <2>4. request'[r] # Idle => Vouched(request[r])'
    <3> SUFFICES ASSUME request'[r] # Idle PROVE Vouched(request[r])'
      OBVIOUS
    <3>1. PICK k \in Handler : request'[r] = k /\ Onward(h, k)
      BY <2>3 DEF Moves
    <3>2. k.op = h.op /\ Then(h.op, Now(h), Now(k))
      BY <3>1 DEF Onward, Turned
    <3>3. ~(k.op \in {"approve", "markFinal"} /\ Now(k) = "commit")
      BY <3>2 DEF Then, Follows, Before, Cutting, Copying, InPlace
    <3>4. Vouched(k)'
      BY <3>3 DEF Vouched
    <3>5. QED  BY <3>1, <3>4 DEF Vouched
  <2>5. QED  BY <1>a, <2>3, <2>4 DEF Vouches
<1>2. CASE \E r \in Request : Ask(r)
  <2>1. PICK r \in Request : Ask(r)
    BY <1>2
  <2>2. PICK d \in Doc, op \in Operation, steps \in Seq(Step), text \in Nat, passes \in BOOLEAN :
          Asked(r, d, op, steps, text, passes)
    BY <2>1, AskSteps DEF Accepted, Types
  <2>3. PICK h \in Handler : h = New(d, op, steps, text, passes)
    BY <2>2, NewFacts DEF Asked
  <2>4. /\ request'[r] = h /\ \A q \in Request : q # r => request'[q] = request[q]
        /\ UNCHANGED documents /\ Entered(d, op, steps)
    BY <1>r, <2>2, <2>3 DEF Asked
  <2>5. Vouched(h)'
    <3>1. h.op = op /\ h.doc = d
      BY <2>3 DEF New
    <3>2. h.op \in {"approve", "markFinal"} =>
            /\ documents[h.doc].outdated = {}
            /\ h.op = "approve" => ValidationPermits(documents[h.doc])
            /\ h.op = "markFinal" => documents[h.doc].status = "APPROVED"
      BY <2>4, <3>1 DEF Entered, Checked, Reasons, Status
    <3>3. QED  BY <2>4, <3>2 DEF Vouched
  <2>6. Vouched(request[r])'
    BY <2>4, <2>5 DEF Vouched
  <2>7. QED  BY <1>a, <2>4, <2>6, UnchangedRecords DEF Vouches
<1>3. CASE \E r \in Request : Abort(r)
  <2>1. PICK r \in Request : Abort(r)
    BY <1>3
  <2>2. UNCHANGED documents /\ \A q \in Request : request'[q] = request[q] \/ request'[q] = Idle
    BY <1>r, <2>1 DEF Abort, Done
  <2>3. QED  BY <1>a, <2>2, UnchangedRecords DEF Vouches
<1>4. CASE \E k \in Kind : SupersedeUpstream(k) \/ InvalidateUpstream(k)
  <2>1. UNCHANGED <<documents, request>>
    BY <1>4 DEF SupersedeUpstream, InvalidateUpstream
  <2>2. QED  BY <1>a, <2>1, UnchangedRecords DEF Vouches
<1>5. CASE UNCHANGED vars
  <2>1. UNCHANGED <<documents, request>>
    BY <1>5 DEF vars
  <2>2. QED  BY <1>a, <2>1, UnchangedRecords DEF Vouches
<1>6. QED  BY <1>1, <1>2, <1>3, <1>4, <1>5 DEF Next

LEMMA ApprovalsChecked == Types /\ Vouches /\ [Next]_vars => ApprovalStep
<1> SUFFICES ASSUME Types, Vouches, [Next]_vars, NEW d \in Doc,
                    Exists(d), IsAuthoritative(documents'[d].status),
                    documents'[d].status # Status(d)
             PROVE  /\ documents[d].outdated = {}
                    /\ documents'[d].status = "APPROVED" => ValidationPermits(documents[d])
  BY DEF ApprovalStep
<1>1. documents'[d] # documents[d]
  BY DEF Status
<1>2. PICK r \in Request : Handle(r)
  <2>1. ASSUME NEW r \in Request, Ask(r) PROVE UNCHANGED documents
    BY <2>1, AskSteps DEF Accepted, Asked, Types
  <2>2. QED  BY <1>1, <2>1 DEF Next, vars, Abort, SupersedeUpstream, InvalidateUpstream
<1>3. PICK h \in Handler : h = request[r] /\ Vouched(h) /\ Fits(h) /\ h.doc \in Doc
  BY <1>2, HandleAt, IdleAssumption DEF Vouches
<1>4. documents \in [Doc -> Record \cup {Absent}] /\ documents[d] \in Record
  BY DEF Types, TypeInv, Exists
<1>5. /\ Now(h) = "commit" /\ documents[h.doc].recordVersion = h.expected
      /\ documents' = [documents EXCEPT ![h.doc] = Updated(h)] /\ d = h.doc
  <2>1. Writes(h)
    BY <1>2, <1>3, HandleWrites
  <2>2. CASE ~Exists(h.doc) /\ documents' = [documents EXCEPT ![h.doc] = Created(h.version, h.against)]
    BY <1>1, <1>3, <1>4, <2>2 DEF Exists
  <2>3. CASE documents' = [documents EXCEPT ![h.doc] = Bumped(@)]
    <3>1. d = h.doc /\ documents'[d] = Bumped(documents[d])
      BY <1>1, <1>3, <1>4, <2>3
    <3>2. QED  BY <1>4, <3>1, BumpedFacts DEF Status
  <2>4. CASE /\ Now(h) = "tell" /\ h.untold # {} /\ h.reasons # Unread
             /\ documents' = [documents EXCEPT ![NextToTell(h.untold)] = Touched(@, h.reasons)]
    <3>1. NextToTell(h.untold) \in Doc /\ h.reasons \in SUBSET DocumentType
      BY <2>4, NextFacts, HandlerFacts
    <3>2. d = NextToTell(h.untold) /\ documents'[d] = Touched(documents[d], h.reasons)
      BY <1>1, <1>4, <2>4, <3>1
    <3>3. QED  BY <1>4, <3>1, <3>2, TouchedFacts DEF Status
  <2>5. CASE /\ Now(h) = "commit" /\ documents[h.doc].recordVersion = h.expected
             /\ documents' = [documents EXCEPT ![h.doc] = Updated(h)]
    BY <1>1, <1>3, <1>4, <2>5
  <2>6. QED  BY <1>1, <2>1, <2>2, <2>3, <2>4, <2>5 DEF Writes
<1>6. At(r, "commit")
  BY <1>2, <1>3, <1>5, HandleAt
<1>7. h.read \in Record /\ Ordered(h.op, h.steps) /\ h.op \in Operation
  BY <1>3, <1>6, ReadFacts, HandlerFacts
<1>8. h.op # "suggest"
  BY <1>5, <1>7, StepsOf DEF Now
<1>9. documents'[d] = Updated(h) /\ documents[h.doc] \in Record
  BY <1>4, <1>5
<1>10. h.op \in {"approve", "markFinal"} /\ (documents'[d].status = "APPROVED" => h.op = "approve")
  <2>1. Updated(h).status # documents[h.doc].status /\ IsAuthoritative(Updated(h).status)
    BY <1>5, <1>9 DEF Status
  <2> DEFINE y == Updated(h)
  <2>2. /\ h.op \in {"generate", "restore", "regenerateRows", "revise"} => y.status = "DRAFT"
        /\ h.op = "reopen" => y.status = "NEEDS_REVISION"
        /\ h.op \in InPlace \cup {"regenerateFeatures"} =>
              y.status = IF h.read.status = "APPROVED" THEN "DRAFT" ELSE documents[h.doc].status
        /\ h.op \in {"validate", "acknowledge"} => y.status = documents[h.doc].status
        /\ h.op = "approve" => y.status = "APPROVED"
        /\ h.op = "markFinal" => y.status = "FINAL"
    BY <1>7, <1>8, <1>9, UpdatedFacts
  <2>3. y.status = documents'[d].status
    BY <1>9
  <2> HIDE DEF y
  <2>4. QED  BY <1>7, <1>8, <2>1, <2>2, <2>3 DEF Operation, InPlace, IsAuthoritative, y
<1>11. QED  BY <1>3, <1>5, <1>10 DEF Vouched

LEMMA VouchesHold == Spec => [](Types /\ Vouches)
<1>1. Init => Vouches
  BY DEF Init, Vouches
<1>2. QED  BY <1>1, TypesInit, TypesNext, VouchesNext, PTL DEF Spec

\* ApprovedOnCheckedRecord, for every instance: whatever was written between the checks
\* of approve and markFinal and their update, the record they update is one that those
\* checks let pass.
THEOREM ApprovalsAreChecked == Spec => ApprovedOnCheckedRecord
BY VouchesHold, ApprovalsChecked, PTL DEF Spec, ApprovedOnCheckedRecord

-----------------------------------------------------------------------------
(* One request at a time *)

\* The steps of each operation, and where they lead.
LEMMA NextStep ==
    ASSUME NEW op \in Operation, NEW a, NEW b, Then(op, a, b)
    PROVE  /\ a = "change" => op = "edit" /\ b = "read"
           /\ a = "exclude" => op = "exclude" /\ b = "read"
           /\ a = "read" => (op \in InPlace /\ b = "plan") \/ (op = "validate" /\ b = "commit")
           /\ a = "plan" => \/ op \in InPlace /\ b = "live"
                            \/ op = "regenerateRows" /\ b = "archive"
                            \/ op \in Copying /\ b = "write"
                            \/ op \in Cutting \ (InPlace \cup Copying) /\ b = "commit"
                            \/ op = "generate" /\ b = "create"
           /\ a = "archive" => op \in Cutting \ InPlace /\ b \in {"commit", "plan"}
           /\ a = "archive" /\ b = "commit" => op = "regenerateRows"
           /\ a = "live" => op \in InPlace /\ b = "commit"
           /\ a = "create" => op = "generate" /\ b = "write"
           /\ a = "commit" => \/ op \in Cutting \ Copying /\ b = "write"
                              \/ op \in Copying \cup {"approve", "markFinal"} /\ b = "record"
           /\ a = "write" => \/ op \in Copying /\ b = "commit"
                             \/ op \in Cutting \ Copying /\ b \in {"record", "tell"}
           /\ a = "record" => op \in InPlace \cup Copying /\ b = "tell"
           /\ a = "tell" => b = "tell"
BY DEF Then, Follows, Before, Operation, Cutting, Copying, InPlace

LEMMA LastStep ==
    ASSUME NEW op \in Operation, NEW a, Ends(op, a)
    PROVE  /\ a \in {"record", "write", "tell", "commit", "change"}
           /\ a = "write" => op = "regenerateFeatures"
           /\ a = "commit" => op \in {"validate", "acknowledge"}
           /\ a = "change" => op = "suggest"
BY DEF Ends

LEMMA OpOf ==
    ASSUME NEW h \in Handler, Fits(h)
    PROVE  /\ h.op \in Operation
           /\ h.read = Absent => h.op = "generate" /\ Now(h) \in {"plan", "create"}
           /\ Now(h) = "create" => h.read = Absent
           /\ h.read # Absent => Ordered(h.op, h.steps) /\ h.read \in Record /\ h.read.version \in Version
           /\ Now(h) = "archive" => h.op \in Cutting \ InPlace
           /\ Now(h) = "write" => h.op \in Cutting
           /\ Now(h) = "record" => h.op \in (Cutting \ {"regenerateFeatures"}) \cup {"approve", "markFinal"}
           /\ Now(h) = "commit" => h.op # "suggest"
           /\ Now(h) = "change" => h.op \in {"edit", "suggest"}
           /\ Now(h) = "exclude" => h.op = "exclude"
           /\ Now(h) = "tell" => h.op \in InPlace \cup Copying \cup {"regenerateFeatures"}
<1>1. h.op \in Operation /\ h.read \in Record \cup {Absent}
  BY HandlerFacts
<1>2. h.read = Absent => h.op = "generate" /\ Now(h) \in {"plan", "create"}
  BY FirstStepsFacts DEF Fits, InOrder, Now
<1>3. h.read # Absent => Ordered(h.op, h.steps) /\ h.read \in Record /\ h.read.version \in Version
  BY <1>1 DEF Fits, InOrder
<1>4. CASE h.read = Absent
  BY <1>1, <1>2, <1>4
<1>5. CASE h.read # Absent
  BY <1>1, <1>3, <1>5, StepsOf DEF Now
<1>6. QED  BY <1>4, <1>5

Settling == DocumentType \ {"ASSUMPTIONS"}

\* Whether a handler has its update of the record, or its check of it, ahead.
Ahead(h) ==
    \/ Now(h) \in {"change", "exclude", "read", "archive", "plan", "live", "commit"}
    \/ Now(h) = "write" /\ h.op \in Copying

\* Words changed before the record: by an edit in place, and by reopen and revise.
Dirty(h) ==
    \/ h.op = "edit" /\ Now(h) \in {"read", "plan", "live", "commit"}
    \/ h.op \in Copying /\ Now(h) = "commit"
Approving(h) == h.op = "approve" /\ Now(h) = "record"
DirtyIn(requests, d) ==
    \E r \in Request : requests[r] # Idle /\ requests[r].doc = d /\ Dirty(requests[r])
ApprovingIn(requests, d) ==
    \E r \in Request : requests[r] # Idle /\ requests[r].doc = d /\ Approving(requests[r])

Signed(row) == row # Absent /\ IsAuthoritative(row.status)

\* Of a document with record x, words c and history a: a validation is of the words
\* there are, what is approved was validated, and the row of a version that is approved
\* says what the record says.
Sound(x, c, a, dirty, approving) ==
    /\ x.validation # NoValidation /\ x.validation.version = x.version /\ ~dirty =>
          x.validation.text = c[x.version]
    /\ IsAuthoritative(x.status) =>
          /\ x.validation # NoValidation /\ x.validation.version = x.version
          /\ Signed(a[x.version]) \/ approving
    /\ Signed(a[x.version]) =>
          /\ x.status \in {a[x.version].status, "FINAL"}
          /\ ~dirty => a[x.version].text = c[x.version]

\* What an operation has checked of the status.
Permitted(op, status) ==
    /\ op \notin {"validate", "approve", "markFinal", "reopen", "revise"} => status # "FINAL"
    /\ op = "approve" => status \in {"DRAFT", "NEEDS_REVISION"}
    /\ op \in {"markFinal", "reopen"} => status = "APPROVED"
    /\ op = "revise" => status = "FINAL"

\* The record is as the handler read it until its update; the version it has planned is
\* signed by nobody; after its update the record is a draft of that version.
Upheld(h, x, c, a) ==
    /\ h.op # "suggest"
    /\ Ahead(h) /\ h.read # Absent =>
          /\ x.version = h.read.version /\ x.status = h.read.status
          /\ x.validation = h.read.validation
          /\ x.recordVersion = h.expected \/ (h.op = "exclude" /\ Now(h) \in {"read", "plan", "live"})
          /\ Permitted(h.op, h.read.status)
          /\ h.op = "approve" => ValidationPermits(h.read)
          /\ h.op = "validate" /\ Now(h) = "commit" => h.text = c[x.version]
          /\ Planned(h) /\ IsAuthoritative(h.read.status) => h.version # h.read.version
    /\ Planned(h) => ~Signed(a[h.version])
    /\ h.op \in Cutting /\ Now(h) \in {"write", "record"} /\ ~Ahead(h) =>
          /\ ~IsAuthoritative(x.status) /\ x.validation = NoValidation
          /\ ~Signed(a[x.version])
          /\ h.op = "generate" => h.read.version = x.version /\ ~IsAuthoritative(h.read.status)
    /\ h.op \in {"approve", "markFinal"} /\ Now(h) = "record" =>
          /\ x.version = h.read.version
          /\ x.status = IF h.op = "approve" THEN "APPROVED" ELSE "FINAL"

\* A handler at work on a document of which all this holds.
Scene(r, h, x, c, a) ==
    /\ h = request[r] /\ Fits(h) /\ h.doc \in Settling
    /\ x = documents[h.doc] /\ c = content[h.doc] /\ a = archived[h.doc]
    /\ Upheld(h, x, c, a)
    /\ x # Absent => Sound(x, c, a, Dirty(h), Approving(h))

\* And of which it holds again after a step.
After(r, h) ==
    LET x == documents'[h.doc]
        c == content'[h.doc]
        a == archived'[h.doc]
    IN  \/ request'[r] = Idle /\ (x # Absent => Sound(x, c, a, FALSE, FALSE))
        \/ \E k \in Handler :
              /\ request'[r] = k /\ k.doc = h.doc /\ Upheld(k, x, c, a)
              /\ x # Absent => Sound(x, c, a, Dirty(k), Approving(k))

\* What happens to the history: a signed row keeps its words, and its status or is issued.
RowsKept(a, b) ==
    \A v \in Version : Signed(a[v]) =>
        b[v].text = a[v].text /\ b[v].status \in {a[v].status, "FINAL"}


\* Steps that change nothing but what the handler remembers.
LEMMA ReadSettles ==
    ASSUME Types, NEW r \in Request, Handle(r), NEW h \in Handler, NEW x, NEW c, NEW a,
           Scene(r, h, x, c, a), Now(h) \in {"read", "live", "plan"}
    PROVE  After(r, h) /\ RowsKept(a, archived'[h.doc])
<1>1. /\ h = request[r] /\ Fits(h) /\ Upheld(h, x, c, a) /\ h.doc \in Doc
      /\ x # Absent => Sound(x, c, a, Dirty(h), Approving(h))
      /\ x = documents[h.doc] /\ c = content[h.doc] /\ a = archived[h.doc]
  BY HandlerFacts DEF Scene
<1>2. UNCHANGED <<documents, content, archived>>
  BY <1>1, HandleAt DEF ReadContent, ReadLive, PlanVersion
<1>3. PICK k \in Handler : request'[r] = k /\ Onward(h, k)
  <2>1. Moves(r, h)
    BY <1>1, HandleMoves
  <2>2. ~Ends(h.op, Now(h))
    BY LastStep, HandlerFacts
  <2>3. QED  BY <2>1, <2>2 DEF Moves
<1>4. /\ k.op = h.op /\ k.doc = h.doc /\ k.read = h.read /\ Then(h.op, Now(h), Now(k))
      /\ k.version = IF Now(h) = "plan" THEN NextVersion(h.doc) ELSE h.version
      /\ k.expected = IF Now(h) = "live" THEN x.recordVersion ELSE h.expected
      /\ Now(h) = "read" => k.text = Words(h)
  BY <1>1, <1>3 DEF Onward, Turned
<1>5. /\ h.op \in Operation
      /\ Now(h) = "read" => (h.op \in InPlace /\ Now(k) = "plan") \/ (h.op = "validate" /\ Now(k) = "commit")
      /\ Now(h) = "plan" => \/ h.op \in InPlace /\ Now(k) = "live"
                            \/ h.op = "regenerateRows" /\ Now(k) = "archive"
                            \/ h.op \in Copying /\ Now(k) = "write"
                            \/ h.op \in Cutting \ (InPlace \cup Copying) /\ Now(k) = "commit"
                            \/ h.op = "generate" /\ Now(k) = "create"
      /\ Now(h) = "live" => h.op \in InPlace /\ Now(k) = "commit"
  BY <1>4, HandlerFacts, NextStep
<1>6. Dirty(k) = Dirty(h) /\ Approving(k) = FALSE /\ Approving(h) = FALSE
  BY <1>4, <1>5 DEF Dirty, Approving, InPlace, Copying, Cutting
<1>7. x # Absent => Sound(x, c, a, Dirty(k), Approving(k))
  BY <1>1, <1>6
<1>8. Upheld(k, x, c, a)
  <2>1. k.op # "suggest"
    BY <1>1, <1>4 DEF Upheld
  <2>2. ASSUME h.read # Absent
        PROVE  /\ x.version = h.read.version /\ x.status = h.read.status
               /\ x.validation = h.read.validation
               /\ x.recordVersion = h.expected \/ (h.op = "exclude" /\ Now(h) \in {"read", "plan", "live"})
               /\ Permitted(h.op, h.read.status)
               /\ h.op = "approve" => ValidationPermits(h.read)
    BY <1>1, <2>2 DEF Upheld, Ahead
  <2>3. Now(h) = "plan" => k.version \in Version /\ a[k.version] = Absent
        /\ \A v \in Version : a[v] # Absent => v # k.version
    <3> SUFFICES ASSUME Now(h) = "plan"
                 PROVE  k.version \in Version /\ a[k.version] = Absent
                        /\ \A v \in Version : a[v] # Absent => v # k.version
      OBVIOUS
    <3>1. k.version = NextVersion(h.doc) /\ NextVersion(h.doc) <= MaxVersion
      BY <1>1, <1>4, HandleAt DEF PlanVersion
    <3>2. k.version \in Version
      BY <1>1, <3>1, NextVersionFacts, EngineAssumption DEF Version
    <3>3. \A v \in Version : a[v] # Absent => v < k.version
      BY <1>1, <3>1, NextVersionFacts
    <3>4. \A v \in Version : v \in Nat
      BY EngineAssumption DEF Version
    <3>5. QED  BY <3>2, <3>3, <3>4
  <2>4. ASSUME Now(h) = "plan", h.read # Absent, IsAuthoritative(h.read.status)
        PROVE  k.version # h.read.version
    <3>1. x # Absent /\ h.read.version \in Version
      BY <1>1, <2>4 DEF Fits, Exists
    <3>2. Signed(a[x.version])
      BY <1>1, <1>6, <2>2, <2>4, <3>1 DEF Sound
    <3>3. QED  BY <2>2, <2>3, <2>4, <3>1, <3>2 DEF Signed
  <2>5. ASSUME Planned(k)
        PROVE  ~Signed(a[k.version])
    <3>1. CASE Now(h) = "plan"
      BY <2>3, <3>1 DEF Signed
    <3>2. CASE Now(h) # "plan"
      BY <1>1, <1>4, <1>5, <2>5, <3>2 DEF Upheld, Planned, InPlace, Cutting
    <3>3. QED  BY <3>1, <3>2
  <2>6. ASSUME Planned(k), h.read # Absent, IsAuthoritative(h.read.status)
        PROVE  k.version # h.read.version
    <3>1. CASE Now(h) = "plan"
      BY <2>4, <2>6, <3>1
    <3>2. CASE Now(h) # "plan"
      BY <1>1, <1>4, <1>5, <2>6, <3>2 DEF Upheld, Planned, Ahead, InPlace, Cutting
    <3>3. QED  BY <3>1, <3>2
  <2>7. ASSUME h.read # Absent
        PROVE  x.recordVersion = k.expected \/ (k.op = "exclude" /\ Now(k) \in {"read", "plan", "live"})
    BY <1>4, <1>5, <2>2, <2>7 DEF InPlace, Copying, Cutting
  <2>8. ASSUME h.read # Absent, k.op = "validate", Now(k) = "commit"
        PROVE  k.text = c[x.version]
    <3>1. Now(h) = "read"
      BY <1>4, <1>5, <2>8 DEF Cutting, InPlace
    <3>2. QED  BY <1>1, <1>4, <2>2, <2>8, <3>1 DEF Words
  <2>9. ~(k.op \in Cutting /\ Now(k) \in {"write", "record"} /\ ~Ahead(k))
    BY <1>4, <1>5 DEF Ahead
  <2>10. ~(k.op \in {"approve", "markFinal"} /\ Now(k) = "record")
    BY <1>4, <1>5
  <2>11. QED
    BY <1>4, <2>1, <2>2, <2>5, <2>6, <2>7, <2>8, <2>9, <2>10 DEF Upheld
<1>9. RowsKept(a, archived'[h.doc])
  BY <1>1, <1>2 DEF RowsKept
<1>10. After(r, h)
  BY <1>1, <1>2, <1>3, <1>4, <1>7, <1>8 DEF After
<1>11. QED  BY <1>9, <1>10


LEMMA ChangeSettles ==
    ASSUME Types, NEW r \in Request, Handle(r), NEW h \in Handler, NEW x, NEW c, NEW a,
           Scene(r, h, x, c, a), Now(h) = "change"
    PROVE  After(r, h) /\ RowsKept(a, archived'[h.doc])
<1>1. /\ h = request[r] /\ Fits(h) /\ Upheld(h, x, c, a) /\ h.doc \in Doc
      /\ x # Absent => Sound(x, c, a, Dirty(h), Approving(h))
      /\ x = documents[h.doc] /\ c = content[h.doc] /\ a = archived[h.doc]
  BY HandlerFacts DEF Scene
<1>2. /\ UNCHANGED <<documents, archived>>
      /\ content' = content \/ content' = [content EXCEPT ![h.doc][h.read.version] = h.text]
  BY <1>1, HandleAt DEF ChangeContent
<1>3. h.op = "edit" /\ h.read # Absent /\ x # Absent /\ ~Dirty(h) /\ ~Approving(h)
  <2>1. h.op = "edit" /\ h.read # Absent
    BY <1>1, OpOf DEF Upheld
  <2>2. QED  BY <1>1, <2>1 DEF Fits, Exists, Dirty, Approving, Copying
<1>4. RowsKept(a, archived'[h.doc])
  BY <1>1, <1>2 DEF RowsKept
<1>5. CASE request'[r] = Idle
  <2>1. ~Ends(h.op, Now(h))
    BY <1>3, LastStep, HandlerFacts
  <2>2. UNCHANGED content
    <3>1. Moves(r, h)
      BY <1>1, HandleMoves
    <3>2. \A k \in Handler : k # Idle
      BY IdleAssumption
    <3>3. QED  BY <1>5, <2>1, <3>1, <3>2 DEF Moves
  <2>3. QED  BY <1>1, <1>2, <1>3, <1>4, <1>5, <2>2 DEF After, Sound
<1>6. CASE request'[r] # Idle
  <2>1. PICK k \in Handler : request'[r] = k /\ Onward(h, k)
    BY <1>1, <1>6, HandleMoves DEF Moves
  <2>2. /\ k.op = h.op /\ k.doc = h.doc /\ k.read = h.read /\ k.version = h.version
        /\ k.expected = h.expected /\ Then(h.op, Now(h), Now(k))
    BY <2>1 DEF Onward, Turned
  <2>3. Now(k) = "read"
    BY <2>2, NextStep, HandlerFacts
  <2>4. Dirty(k) /\ ~Approving(k) /\ ~Planned(k) /\ Ahead(k) /\ Ahead(h)
    BY <1>3, <2>2, <2>3 DEF Dirty, Approving, Planned, Ahead
  <2>5. Upheld(k, x, content'[h.doc], a)
    BY <1>1, <1>3, <2>2, <2>3, <2>4 DEF Upheld
  <2>6. Sound(x, content'[h.doc], a, Dirty(k), Approving(k))
    BY <1>1, <1>3, <2>4 DEF Sound
  <2>7. QED  BY <1>1, <1>2, <1>4, <2>1, <2>2, <2>5, <2>6 DEF After
<1>7. QED  BY <1>5, <1>6

LEMMA ExcludeSettles ==
    ASSUME Types, NEW r \in Request, Handle(r), NEW h \in Handler, NEW x, NEW c, NEW a,
           Scene(r, h, x, c, a), Now(h) = "exclude"
    PROVE  After(r, h) /\ RowsKept(a, archived'[h.doc])
<1>1. /\ h = request[r] /\ Fits(h) /\ Upheld(h, x, c, a) /\ h.doc \in Doc
      /\ x # Absent => Sound(x, c, a, Dirty(h), Approving(h))
      /\ x = documents[h.doc] /\ c = content[h.doc] /\ a = archived[h.doc]
  BY HandlerFacts DEF Scene
<1>2. UNCHANGED <<content, archived>>
  BY <1>1, HandleAt DEF CommitExclusion
<1>3. /\ h.op = "exclude" /\ h.read # Absent /\ x # Absent /\ ~Dirty(h) /\ ~Approving(h)
      /\ x \in Record
  <2>1. h.op = "exclude" /\ h.read # Absent
    BY <1>1, OpOf
  <2>2. QED  BY <1>1, <2>1 DEF Fits, Exists, Dirty, Approving, Copying, Types, TypeInv
<1>4. RowsKept(a, archived'[h.doc])
  BY <1>1, <1>2 DEF RowsKept
<1>5. documents'[h.doc] \in {x, Bumped(x)}
  BY <1>1, <1>2, HandleAt DEF CommitExclusion, Types, TypeInv
<1>6. PICK y \in Record : /\ y = documents'[h.doc] /\ y.version = x.version /\ y.status = x.status
                          /\ y.validation = x.validation
  BY <1>3, <1>5, BumpedFacts
<1>7. Sound(y, c, a, FALSE, FALSE)
  BY <1>1, <1>3, <1>6 DEF Sound
<1>8. CASE request'[r] = Idle
  BY <1>1, <1>2, <1>4, <1>6, <1>7, <1>8 DEF After
<1>9. CASE request'[r] # Idle
  <2>1. PICK k \in Handler : request'[r] = k /\ Onward(h, k)
    BY <1>1, <1>9, HandleMoves DEF Moves
  <2>2. /\ k.op = h.op /\ k.doc = h.doc /\ k.read = h.read /\ k.version = h.version
        /\ k.expected = h.expected /\ Then(h.op, Now(h), Now(k))
    BY <2>1 DEF Onward, Turned
  <2>3. Now(k) = "read"
    BY <2>2, NextStep, HandlerFacts
  <2>4. ~Dirty(k) /\ ~Approving(k) /\ ~Planned(k) /\ Ahead(k) /\ Ahead(h)
    BY <1>3, <2>2, <2>3 DEF Dirty, Approving, Planned, Ahead, Copying
  <2>5. Upheld(k, y, c, a)
    BY <1>1, <1>3, <1>6, <2>2, <2>3, <2>4 DEF Upheld
  <2>6. Sound(y, c, a, Dirty(k), Approving(k))
    BY <1>7, <2>4 DEF Sound
  <2>7. QED  BY <1>1, <1>2, <1>4, <1>6, <2>1, <2>2, <2>5, <2>6 DEF After
<1>10. QED  BY <1>8, <1>9

LEMMA ArchiveSettles ==
    ASSUME Types, NEW r \in Request, Handle(r), NEW h \in Handler, NEW x, NEW c, NEW a,
           Scene(r, h, x, c, a), Now(h) = "archive"
    PROVE  After(r, h) /\ RowsKept(a, archived'[h.doc])
<1>1. /\ h = request[r] /\ Fits(h) /\ Upheld(h, x, c, a) /\ h.doc \in Doc
      /\ x # Absent => Sound(x, c, a, Dirty(h), Approving(h))
      /\ x = documents[h.doc] /\ c = content[h.doc] /\ a = archived[h.doc]
  BY HandlerFacts DEF Scene
<1>2. /\ h.op \in Cutting \ InPlace /\ h.read \in Record /\ h.read # Absent /\ x # Absent
      /\ h.read.version \in Version /\ ~Dirty(h) /\ ~Approving(h) /\ Ahead(h)
  <2>1. h.op \in Cutting \ InPlace /\ h.read # Absent /\ h.read \in Record /\ h.read.version \in Version
    BY <1>1, OpOf
  <2>2. x # Absent
    BY <1>1, <2>1 DEF Fits, Exists
  <2>3. QED  BY <2>1, <2>2 DEF Dirty, Approving, Ahead, InPlace, Copying
<1>3. /\ x.version = h.read.version /\ x.status = h.read.status
  BY <1>1, <1>2 DEF Upheld
<1>4. PICK row : row = [status |-> x.status, text |-> c[x.version]]
  OBVIOUS
<1>5. /\ UNCHANGED <<documents, content>>
      /\ archived'[h.doc] = [a EXCEPT ![x.version] = row]
  <2>1. ArchiveRow(h.doc, h.read.version, h.read.status, Words(h)) /\ UNCHANGED <<documents, content>>
    BY <1>1, HandleAt DEF ArchivePrevious
  <2>2. Words(h) = c[x.version]
    BY <1>1, <1>3 DEF Words
  <2>3. QED  BY <1>1, <1>3, <1>4, <2>1, <2>2 DEF ArchiveRow, Types, TypeInv
<1>6. /\ row.status = x.status /\ row.text = c[x.version] /\ row # Absent
      /\ x.version \in Version
  <2>1. x.status \in DocumentStatus /\ x.version \in Version
    BY <1>2, <1>3, RecordFacts
  <2>2. c[x.version] \in Nat
    BY <1>1, <2>1, WordsType
  <2>3. row \in Archived
    BY <1>4, <2>1, <2>2 DEF Archived
  <2>4. QED  BY <1>4, <2>1, <2>3, EngineAssumption
<1>7. PICK b : b = archived'[h.doc]
  OBVIOUS
<1>8. /\ b[x.version] = row
      /\ \A v \in Version : v # x.version => b[v] = a[v]
  <2>1. a \in [Version -> Archived \cup {Absent}]
    <3>1. archived \in [Doc -> [Version -> Archived \cup {Absent}]]
      BY DEF Types, TypeInv
    <3>2. a = archived[h.doc] /\ h.doc \in Doc
      BY <1>1
    <3>3. QED  BY <3>1, <3>2
  <2>2. b = [a EXCEPT ![x.version] = row] /\ x.version \in Version
    BY <1>5, <1>6, <1>7
  <2>3. QED  BY <2>1, <2>2
<1>9. RowsKept(a, archived'[h.doc])
  <2> SUFFICES ASSUME NEW v \in Version, Signed(a[v])
               PROVE  b[v].text = a[v].text /\ b[v].status \in {a[v].status, "FINAL"}
    BY <1>7 DEF RowsKept
  <2>1. CASE v = x.version
    BY <1>1, <1>2, <1>6, <1>8, <2>1 DEF Sound
  <2>2. CASE v # x.version
    BY <1>8, <2>2
  <2>3. QED  BY <2>1, <2>2
<1>10. PICK k \in Handler : request'[r] = k /\ Onward(h, k)
  <2>1. Moves(r, h) /\ ~Ends(h.op, Now(h))
    BY <1>1, HandleMoves, LastStep, HandlerFacts
  <2>2. QED  BY <2>1 DEF Moves
<1>11. /\ k.op = h.op /\ k.doc = h.doc /\ k.read = h.read /\ k.version = h.version
       /\ k.expected = h.expected /\ Then(h.op, Now(h), Now(k))
  BY <1>10 DEF Onward, Turned
<1>12. Now(k) \in {"commit", "plan"} /\ (Now(k) = "commit" => h.op = "regenerateRows")
  BY <1>11, NextStep, HandlerFacts
<1>13. ~Dirty(k) /\ ~Approving(k) /\ Ahead(k) /\ (Planned(k) => Planned(h))
  BY <1>2, <1>11, <1>12 DEF Dirty, Approving, Ahead, Planned, InPlace, Copying
<1>14. Sound(x, c, b, Dirty(k), Approving(k))
  BY <1>1, <1>2, <1>6, <1>8, <1>13 DEF Sound, Signed
<1>15. Upheld(k, x, c, b)
  <2>1. Planned(k) => ~Signed(b[k.version])
    <3> SUFFICES ASSUME Planned(k) PROVE ~Signed(b[k.version])
      OBVIOUS
    <3>1. /\ ~Signed(a[h.version]) /\ h.version \in Version
          /\ IsAuthoritative(h.read.status) => h.version # h.read.version
      BY <1>1, <1>2, <1>13 DEF Upheld, Fits
    <3>2. QED  BY <1>3, <1>6, <1>8, <1>11, <3>1 DEF Signed
  <2>2. QED  BY <1>1, <1>2, <1>11, <1>12, <1>13, <2>1 DEF Upheld
<1>16. QED  BY <1>1, <1>5, <1>7, <1>9, <1>10, <1>11, <1>14, <1>15 DEF After


LEMMA WriteSettles ==
    ASSUME Types, NEW r \in Request, Handle(r), NEW h \in Handler, NEW x, NEW c, NEW a,
           Scene(r, h, x, c, a), Now(h) = "write"
    PROVE  After(r, h) /\ RowsKept(a, archived'[h.doc])
<1>1. /\ h = request[r] /\ Fits(h) /\ Upheld(h, x, c, a) /\ h.doc \in Doc
      /\ x # Absent => Sound(x, c, a, Dirty(h), Approving(h))
      /\ x = documents[h.doc] /\ c = content[h.doc] /\ a = archived[h.doc]
  BY HandlerFacts DEF Scene
<1>2. UNCHANGED <<documents, archived>>
  BY <1>1, HandleAt DEF WriteContent
<1>3. h.op \in Cutting /\ h.read # Absent /\ x # Absent /\ ~Approving(h)
  <2>1. h.op \in Cutting /\ h.read # Absent
    BY <1>1, OpOf
  <2>2. QED  BY <1>1, <2>1 DEF Fits, Exists, Approving
<1>4. RowsKept(a, archived'[h.doc])
  BY <1>1, <1>2 DEF RowsKept
<1>5. PICK w : w = content'[h.doc]
  OBVIOUS
<1>6. CASE h.op \notin Copying
  <2>1. /\ ~IsAuthoritative(x.status) /\ x.validation = NoValidation /\ ~Signed(a[x.version])
        /\ h.op = "generate" => h.read.version = x.version /\ ~IsAuthoritative(h.read.status)
    BY <1>1, <1>3, <1>6 DEF Upheld, Ahead
  <2>2. \A dirty, approving : Sound(x, w, a, dirty, approving)
    BY <2>1 DEF Sound
  <2>3. CASE request'[r] = Idle
    BY <1>1, <1>2, <1>4, <1>5, <2>2, <2>3 DEF After
  <2>4. CASE request'[r] # Idle
    <3>1. PICK k \in Handler : request'[r] = k /\ Onward(h, k)
      BY <1>1, <2>4, HandleMoves DEF Moves
    <3>2. /\ k.op = h.op /\ k.doc = h.doc /\ k.read = h.read /\ Then(h.op, Now(h), Now(k))
      BY <3>1 DEF Onward, Turned
    <3>3. Now(k) \in {"record", "tell"}
      BY <1>6, <3>2, NextStep, HandlerFacts
    <3>4. ~Planned(k) /\ ~Ahead(k)
      BY <3>3 DEF Planned, Ahead
    <3>5. Upheld(k, x, w, a)
      BY <1>1, <1>3, <2>1, <3>2, <3>3, <3>4 DEF Upheld, Cutting
    <3>6. QED  BY <1>1, <1>2, <1>4, <1>5, <2>2, <3>1, <3>2, <3>5 DEF After
  <2>5. QED  BY <2>3, <2>4
<1>7. CASE h.op \in Copying
  <2>1. PICK k \in Handler : request'[r] = k /\ Onward(h, k)
    <3>1. Moves(r, h) /\ ~Ends(h.op, Now(h))
      BY <1>1, <1>7, HandleMoves, LastStep, HandlerFacts DEF Copying
    <3>2. QED  BY <3>1 DEF Moves
  <2>2. /\ k.op = h.op /\ k.doc = h.doc /\ k.read = h.read /\ k.version = h.version
        /\ k.expected = h.expected /\ Then(h.op, Now(h), Now(k))
    BY <2>1 DEF Onward, Turned
  <2>3. Now(k) = "commit"
    BY <1>7, <2>2, NextStep, HandlerFacts
  <2>4. Dirty(k) /\ ~Approving(k) /\ Ahead(k) /\ Ahead(h) /\ Planned(h)
    BY <1>7, <2>2, <2>3 DEF Dirty, Approving, Planned, Ahead
  <2>5. Upheld(k, x, w, a)
    BY <1>1, <1>3, <1>7, <2>2, <2>3, <2>4 DEF Upheld, Copying
  <2>6. Sound(x, w, a, Dirty(k), Approving(k))
    BY <1>1, <1>3, <2>4 DEF Sound
  <2>7. QED  BY <1>1, <1>2, <1>4, <1>5, <2>1, <2>2, <2>5, <2>6 DEF After
<1>8. QED  BY <1>6, <1>7

LEMMA CreateSettles ==
    ASSUME Types, NEW r \in Request, Handle(r), NEW h \in Handler, NEW x, NEW c, NEW a,
           Scene(r, h, x, c, a), Now(h) = "create"
    PROVE  After(r, h) /\ RowsKept(a, archived'[h.doc])
<1>1. /\ h = request[r] /\ Fits(h) /\ Upheld(h, x, c, a) /\ h.doc \in Doc
      /\ x # Absent => Sound(x, c, a, Dirty(h), Approving(h))
      /\ x = documents[h.doc] /\ c = content[h.doc] /\ a = archived[h.doc]
      /\ h.version \in Nat /\ h.against \in [Kind -> Nat]
  BY HandlerFacts DEF Scene
<1>2. CreateRecord(r) /\ UNCHANGED <<content, archived>>
  BY <1>1, HandleAt DEF CreateRecord
<1>3. h.op = "generate" /\ ~Dirty(h) /\ ~Approving(h)
  BY <1>1, OpOf DEF Dirty, Approving, Copying
<1>4. RowsKept(a, archived'[h.doc])
  BY <1>1, <1>2 DEF RowsKept
<1>5. CASE x # Absent
  <2>1. UNCHANGED documents /\ request'[r] = Idle
    BY <1>1, <1>2, <1>5 DEF CreateRecord, Exists, Done, Types, TypeInv
  <2>2. QED  BY <1>1, <1>2, <1>3, <1>4, <1>5, <2>1 DEF After, Sound
<1>6. CASE x = Absent
  <2>1. PICK y \in Record : y = Created(h.version, h.against)
    BY <1>1, CreatedFacts
  <2>2. documents'[h.doc] = y
    BY <1>1, <1>2, <1>6, <2>1 DEF CreateRecord, Exists, Types, TypeInv
  <2>3. y.version = h.version /\ y.status = "DRAFT" /\ y.validation = NoValidation
    BY <1>1, <2>1, CreatedFacts
  <2>4. ~Signed(a[h.version])
    <3>1. Planned(h)
      BY DEF Planned
    <3>2. QED  BY <1>1, <3>1 DEF Upheld
  <2>5. \A dirty, approving : Sound(y, c, a, dirty, approving)
    BY <2>3, <2>4 DEF Sound, IsAuthoritative
  <2>6. PICK k \in Handler : request'[r] = k /\ Onward(h, k)
    <3>1. Moves(r, h) /\ ~Ends(h.op, Now(h)) /\ ~UNCHANGED documents
      BY <1>1, <1>6, <2>2, HandleMoves, LastStep, HandlerFacts, RecordFacts
    <3>2. QED  BY <3>1 DEF Moves
  <2>7. /\ k.op = h.op /\ k.doc = h.doc /\ k.read = y /\ k.version = h.version
        /\ Then(h.op, Now(h), Now(k))
    BY <2>2, <2>6 DEF Onward, Turned
  <2>8. Now(k) = "write"
    BY <2>7, NextStep, HandlerFacts
  <2>9. ~Ahead(k)
    BY <1>3, <2>7, <2>8 DEF Ahead, Copying
  <2>10. Upheld(k, y, c, a)
    BY <1>3, <2>3, <2>4, <2>7, <2>8, <2>9 DEF Upheld, IsAuthoritative
  <2>11. documents'[h.doc] = y /\ content'[h.doc] = c /\ archived'[h.doc] = a
    BY <1>1, <1>2, <2>2
  <2>12. request'[r] = k /\ k.doc = h.doc /\ Sound(y, c, a, Dirty(k), Approving(k))
    BY <2>5, <2>6, <2>7
  <2>13. After(r, h)
    BY <2>10, <2>11, <2>12 DEF After
  <2>14. QED  BY <1>4, <2>13
<1>7. QED  BY <1>5, <1>6

LEMMA TellSettles ==
    ASSUME Types, NEW r \in Request, Handle(r), NEW h \in Handler, NEW x, NEW c, NEW a,
           Scene(r, h, x, c, a), Now(h) = "tell"
    PROVE  After(r, h) /\ RowsKept(a, archived'[h.doc])
<1>1. /\ h = request[r] /\ Fits(h) /\ Upheld(h, x, c, a) /\ h.doc \in Doc
      /\ x # Absent => Sound(x, c, a, Dirty(h), Approving(h))
      /\ x = documents[h.doc] /\ c = content[h.doc] /\ a = archived[h.doc]
  BY HandlerFacts DEF Scene
<1>2. UNCHANGED <<content, archived>>
  BY <1>1, HandleAt DEF TellNobody, ReadDependent, TouchDependent
<1>3. ~Dirty(h) /\ ~Approving(h) /\ h.read # Absent /\ x # Absent /\ x \in Record
  <2>1. h.read # Absent
    BY <1>1, OpOf
  <2>2. QED  BY <1>1, <2>1 DEF Dirty, Approving, Fits, Exists, Types, TypeInv
<1>4. RowsKept(a, archived'[h.doc])
  BY <1>1, <1>2 DEF RowsKept
<1>5. PICK y : /\ y = documents'[h.doc] /\ y.version = x.version /\ y.status = x.status
               /\ y.validation = x.validation
  <2>1. Writes(h)
    BY <1>1, HandleWrites
  <2>2. CASE UNCHANGED documents
    BY <1>1, <2>2
  <2>3. CASE /\ h.untold # {} /\ h.reasons # Unread
             /\ documents' = [documents EXCEPT ![NextToTell(h.untold)] = Touched(@, h.reasons)]
    <3>1. h.reasons \in SUBSET DocumentType
      BY <2>3, HandlerFacts
    <3>2. documents'[h.doc] \in {x, Touched(x, h.reasons)}
      BY <1>1, <2>3, NextFacts DEF Types, TypeInv
    <3>3. QED  BY <1>3, <3>1, <3>2, TouchedFacts
  <2>4. QED  BY <2>1, <2>2, <2>3 DEF Writes
<1>6. Sound(y, c, a, FALSE, FALSE)
  BY <1>1, <1>3, <1>5 DEF Sound
<1>7. CASE request'[r] = Idle
  BY <1>1, <1>2, <1>4, <1>5, <1>6, <1>7 DEF After
<1>8. CASE request'[r] # Idle
  <2>1. PICK k \in Handler : request'[r] = k /\ Onward(h, k)
    BY <1>1, <1>8, HandleMoves DEF Moves
  <2>2. k.op = h.op /\ k.doc = h.doc /\ Then(h.op, Now(h), Now(k))
    BY <2>1 DEF Onward, Turned
  <2>3. Now(k) = "tell"
    BY <2>2, NextStep, HandlerFacts
  <2>4. ~Dirty(k) /\ ~Approving(k) /\ ~Planned(k) /\ ~Ahead(k)
    BY <2>3 DEF Dirty, Approving, Planned, Ahead
  <2>5. Upheld(k, y, c, a)
    BY <1>1, <2>2, <2>3, <2>4 DEF Upheld
  <2>6. Sound(y, c, a, Dirty(k), Approving(k))
    BY <1>6, <2>4 DEF Sound
  <2>7. QED  BY <1>1, <1>2, <1>4, <1>5, <2>1, <2>2, <2>5, <2>6 DEF After
<1>9. QED  BY <1>7, <1>8


LEMMA CommitSettles ==
    ASSUME Types, NEW r \in Request, Handle(r), NEW h \in Handler, NEW x, NEW c, NEW a,
           Scene(r, h, x, c, a), Now(h) = "commit"
    PROVE  After(r, h) /\ RowsKept(a, archived'[h.doc])
<1>1. /\ h = request[r] /\ Fits(h) /\ Upheld(h, x, c, a) /\ h.doc \in Doc
      /\ x # Absent => Sound(x, c, a, Dirty(h), Approving(h))
      /\ x = documents[h.doc] /\ c = content[h.doc] /\ a = archived[h.doc]
  BY HandlerFacts DEF Scene
<1>2. Commit(r) /\ UNCHANGED <<content, archived>>
  BY <1>1, HandleAt DEF Commit
<1>3. /\ h.read # Absent /\ h.read \in Record /\ x # Absent /\ x \in Record /\ ~Approving(h)
      /\ h.op # "suggest" /\ h.op \in Operation /\ Ahead(h)
  <2>1. h.read # Absent /\ h.read \in Record /\ h.op # "suggest" /\ h.op \in Operation
    BY <1>1, OpOf
  <2>2. QED  BY <1>1, <2>1 DEF Approving, Fits, Exists, Types, TypeInv, Ahead
<1>4. RowsKept(a, archived'[h.doc])
  BY <1>1, <1>2 DEF RowsKept
<1>5. /\ x.version = h.read.version /\ x.status = h.read.status
      /\ x.validation = h.read.validation /\ x.recordVersion = h.expected
      /\ Permitted(h.op, h.read.status)
      /\ h.op = "approve" => ValidationPermits(h.read)
      /\ h.op = "validate" => h.text = c[x.version]
      /\ Planned(h) => ~Signed(a[h.version])
  BY <1>1, <1>3 DEF Upheld
<1>6. PICK y : y = Updated(h) /\ y = documents'[h.doc]
  BY <1>1, <1>2, <1>5 DEF Commit, Types, TypeInv
<1>7. /\ y.version = IF h.op \in Cutting THEN h.version ELSE x.version
      /\ h.op \in Cutting => y.validation = NoValidation
      /\ h.op \in {"generate", "restore", "regenerateRows", "revise"} => y.status = "DRAFT"
      /\ h.op = "reopen" => y.status = "NEEDS_REVISION"
      /\ h.op \in InPlace \cup {"regenerateFeatures"} =>
            y.status = IF h.read.status = "APPROVED" THEN "DRAFT" ELSE x.status
      /\ h.op \in {"validate", "acknowledge"} => y.status = x.status
      /\ h.op = "validate" =>
            y.validation = [version |-> h.read.version, text |-> h.text, passes |-> h.passes]
      /\ h.op = "acknowledge" => y.validation = h.read.validation
      /\ h.op \in {"approve", "markFinal"} => y.validation = x.validation
      /\ h.op = "approve" => y.status = "APPROVED"
      /\ h.op = "markFinal" => y.status = "FINAL"
  <2>1. documents[h.doc] \in Record
    BY <1>1, <1>3
  <2>2. /\ Updated(h).version = IF h.op \in Cutting THEN h.version ELSE documents[h.doc].version
        /\ h.op \in Cutting => Updated(h).validation = NoValidation
        /\ h.op \in {"generate", "restore", "regenerateRows", "revise"} => Updated(h).status = "DRAFT"
        /\ h.op = "reopen" => Updated(h).status = "NEEDS_REVISION"
        /\ h.op \in InPlace \cup {"regenerateFeatures"} =>
              Updated(h).status = IF h.read.status = "APPROVED" THEN "DRAFT" ELSE documents[h.doc].status
        /\ h.op \in {"validate", "acknowledge"} => Updated(h).status = documents[h.doc].status
        /\ h.op = "validate" =>
              Updated(h).validation = [version |-> h.read.version, text |-> h.text, passes |-> h.passes]
        /\ h.op = "acknowledge" => Updated(h).validation = h.read.validation
        /\ h.op \in {"approve", "markFinal"} => Updated(h).validation = documents[h.doc].validation
        /\ h.op = "approve" => Updated(h).status = "APPROVED"
        /\ h.op = "markFinal" => Updated(h).status = "FINAL"
    BY <1>3, <2>1, UpdatedFacts
  <2>3. QED  BY <1>1, <1>6, <2>2
<1>8. ASSUME NEW k \in Handler, request'[r] = k, Onward(h, k)
      PROVE  /\ k.op = h.op /\ k.doc = h.doc /\ k.version = h.version
             /\ k.read = IF h.op = "generate" THEN y ELSE h.read
             /\ \/ h.op \in Cutting \ Copying /\ Now(k) = "write"
                \/ h.op \in Copying \cup {"approve", "markFinal"} /\ Now(k) = "record"
             /\ ~Ahead(k) /\ ~Dirty(k)
  <2>1. /\ k.op = h.op /\ k.doc = h.doc /\ k.version = h.version
        /\ k.read = IF h.op = "generate" THEN y ELSE h.read
        /\ Then(h.op, Now(h), Now(k))
    BY <1>6, <1>8 DEF Onward, Turned
  <2>2. \/ h.op \in Cutting \ Copying /\ Now(k) = "write"
        \/ h.op \in Copying \cup {"approve", "markFinal"} /\ Now(k) = "record"
    BY <1>3, <2>1, NextStep
  <2>3. ~Ahead(k) /\ ~Dirty(k)
    BY <2>1, <2>2 DEF Ahead, Dirty, Copying
  <2>4. QED  BY <2>1, <2>2, <2>3
<1>9. request'[r] = Idle \/ \E k \in Handler : request'[r] = k /\ Onward(h, k)
  BY <1>1, HandleMoves DEF Moves
<1>10. request'[r] = Idle => h.op \in {"validate", "acknowledge"}
  <2>1. \A k \in Handler : k # Idle
    BY IdleAssumption
  <2>2. QED  BY <1>1, <1>3, <1>5, <2>1, HandleMoves, LastStep DEF Moves
<1>11. CASE h.op \in Cutting
  <2>1. Planned(h) /\ y.version = h.version /\ y.validation = NoValidation
    BY <1>7, <1>11 DEF Planned
  <2>2. ~Signed(a[y.version])
    BY <1>5, <2>1
  <2>3. ~IsAuthoritative(y.status)
    <3>1. CASE h.op \in Copying \cup {"generate", "restore", "regenerateRows"}
      BY <1>7, <3>1 DEF Copying, IsAuthoritative
    <3>2. CASE h.op \in InPlace \cup {"regenerateFeatures"}
      <4>1. x.status # "FINAL"
        BY <1>5, <3>2 DEF Permitted, InPlace
      <4>2. QED  BY <1>5, <1>7, <3>2, <4>1 DEF IsAuthoritative
    <3>3. QED  BY <1>11, <3>1, <3>2 DEF Cutting, Copying, InPlace
  <2>4. \A dirty, approving : Sound(y, c, a, dirty, approving)
    BY <2>1, <2>2, <2>3 DEF Sound
  <2>5. PICK k \in Handler : request'[r] = k /\ Onward(h, k)
    BY <1>9, <1>10, <1>11 DEF Cutting
  <2>6. Upheld(k, y, c, a)
    <3>1. k.op # "suggest" /\ ~Ahead(k)
      BY <1>3, <1>8, <2>5
    <3>2. ~Signed(a[k.version])
      BY <1>5, <1>8, <2>1, <2>5
    <3>3. k.op = "generate" => k.read.version = y.version /\ ~IsAuthoritative(k.read.status)
      BY <1>8, <2>3, <2>5
    <3>4. k.op \notin {"approve", "markFinal"}
      BY <1>8, <1>11, <2>5 DEF Cutting
    <3>5. QED  BY <2>1, <2>2, <2>3, <3>1, <3>2, <3>3, <3>4 DEF Upheld
  <2>7. k.doc = h.doc
    BY <1>8, <2>5
  <2>8. QED  BY <1>1, <1>2, <1>4, <1>6, <2>4, <2>5, <2>6, <2>7 DEF After
<1>12. CASE h.op \in {"approve", "markFinal"}
  <2>1. y.version = x.version /\ y.validation = x.validation /\ ~Dirty(h)
    BY <1>7, <1>12 DEF Cutting, Dirty, Copying
  <2>2. PICK k \in Handler : request'[r] = k /\ Onward(h, k)
    BY <1>9, <1>10, <1>12
  <2>3. /\ k.op = h.op /\ k.read = h.read /\ Now(k) = "record" /\ ~Ahead(k) /\ ~Dirty(k)
        /\ (Approving(k) <=> h.op = "approve") /\ ~Planned(k) /\ k.doc = h.doc
    BY <1>8, <1>12, <2>2 DEF Cutting, Approving, Planned
  <2>4. Sound(y, c, a, Dirty(k), Approving(k))
    <3>1. CASE h.op = "approve"
      <4>1. /\ x.status \in {"DRAFT", "NEEDS_REVISION"} /\ x.validation # NoValidation
            /\ x.validation.version = x.version /\ y.status = "APPROVED"
        BY <1>5, <1>7, <3>1 DEF Permitted, ValidationPermits
      <4>2. ~Signed(a[x.version])
        BY <1>1, <1>3, <4>1 DEF Sound, Signed, IsAuthoritative
      <4>3. QED  BY <1>1, <1>3, <2>1, <2>3, <3>1, <4>1, <4>2 DEF Sound
    <3>2. CASE h.op = "markFinal"
      <4>1. x.status = "APPROVED" /\ y.status = "FINAL" /\ IsAuthoritative(x.status)
        BY <1>5, <1>7, <3>2 DEF Permitted, IsAuthoritative
      <4>2. QED  BY <1>1, <1>3, <2>1, <2>3, <3>2, <4>1 DEF Sound
    <3>3. QED  BY <1>12, <3>1, <3>2
  <2>5. Upheld(k, y, c, a)
    BY <1>5, <1>7, <1>12, <2>1, <2>3 DEF Upheld, Cutting
  <2>6. QED  BY <1>1, <1>2, <1>4, <1>6, <2>2, <2>3, <2>4, <2>5 DEF After
<1>13. CASE h.op \in {"validate", "acknowledge"}
  <2>1. y.version = x.version /\ y.status = x.status /\ ~Dirty(h)
    BY <1>7, <1>13 DEF Cutting, Dirty, Copying
  <2>2. request'[r] = Idle
    BY <1>8, <1>9, <1>13 DEF Cutting, Copying
  <2>3. Sound(y, c, a, FALSE, FALSE)
    <3>1. CASE h.op = "acknowledge"
      <4>1. y.validation = x.validation
        BY <1>5, <1>7, <3>1
      <4>2. Sound(x, c, a, FALSE, FALSE)
        <5>1. ~Dirty(h) /\ ~Approving(h)
          BY <2>1, <3>1 DEF Approving
        <5>2. Sound(x, c, a, Dirty(h), Approving(h))
          BY <1>1, <1>3
        <5>3. QED  BY <5>1, <5>2 DEF Sound
      <4>3. QED  BY <2>1, <4>1, <4>2 DEF Sound
    <3>2. CASE h.op = "validate"
      <4>1. /\ y.validation.version = x.version /\ y.validation.text = c[x.version]
        BY <1>5, <1>7, <3>2
      <4>2. y.validation # NoValidation
        <5>1. h.read.version \in Nat /\ h.text \in Nat /\ h.passes \in BOOLEAN
          BY <1>3, RecordFacts, HandlerFacts
        <5>2. y.validation \in Validation
          BY <1>7, <3>2, <5>1 DEF Validation
        <5>3. QED  BY <5>2, NoValidationAssumption
      <4>3. QED  BY <1>1, <1>3, <2>1, <4>1, <4>2 DEF Sound
    <3>3. QED  BY <1>13, <3>1, <3>2
  <2>4. QED  BY <1>1, <1>2, <1>4, <1>6, <2>2, <2>3 DEF After
<1>14. QED  BY <1>3, <1>11, <1>12, <1>13 DEF Operation, Cutting


LEMMA RecordSettles ==
    ASSUME Types, NEW r \in Request, Handle(r), NEW h \in Handler, NEW x, NEW c, NEW a,
           Scene(r, h, x, c, a), Now(h) = "record"
    PROVE  After(r, h) /\ RowsKept(a, archived'[h.doc])
<1>1. /\ h = request[r] /\ Fits(h) /\ Upheld(h, x, c, a) /\ h.doc \in Doc
      /\ x # Absent => Sound(x, c, a, Dirty(h), Approving(h))
      /\ x = documents[h.doc] /\ c = content[h.doc] /\ a = archived[h.doc]
  BY HandlerFacts DEF Scene
<1>2. RecordVersion(r) /\ UNCHANGED <<documents, content>>
  BY <1>1, HandleAt DEF RecordVersion
<1>3. /\ h.read # Absent /\ h.read \in Record /\ x # Absent /\ x \in Record /\ ~Dirty(h)
      /\ x.version \in Version /\ h.read.version \in Version
      /\ h.op \in (Cutting \ {"regenerateFeatures"}) \cup {"approve", "markFinal"}
      /\ archived \in [Doc -> [Version -> Archived \cup {Absent}]]
  <2>1. /\ h.read # Absent /\ h.read \in Record /\ h.read.version \in Version
        /\ h.op \in (Cutting \ {"regenerateFeatures"}) \cup {"approve", "markFinal"}
    BY <1>1, OpOf
  <2>2. x # Absent /\ x \in Record /\ x.version \in Version
    BY <1>1, <2>1 DEF Fits, Exists, Types, TypeInv, RecordsFit
  <2>3. QED  BY <2>1, <2>2 DEF Dirty, Copying, Types, TypeInv
<1>4. Sound(x, c, a, FALSE, Approving(h))
  BY <1>1, <1>3 DEF Sound
<1>5. PICK b : b = archived'[h.doc]
  OBVIOUS
<1>6. ASSUME NEW v \in Version, NEW status \in DocumentStatus, NEW text \in Nat,
             ArchiveRow(h.doc, v, status, text)
      PROVE  /\ b[v].status = status /\ b[v].text = text /\ b[v] # Absent
             /\ \A w \in Version : w # v => b[w] = a[w]
  <2>1. PICK row : row = [status |-> status, text |-> text]
    OBVIOUS
  <2>2. row.status = status /\ row.text = text /\ row # Absent
    <3>1. row \in Archived
      BY <2>1 DEF Archived
    <3>2. QED  BY <2>1, <3>1, EngineAssumption
  <2>3. b[v] = row /\ \A w \in Version : w # v => b[w] = a[w]
    BY <1>1, <1>3, <1>5, <1>6, <2>1 DEF ArchiveRow
  <2>4. QED  BY <2>2, <2>3
<1>7. /\ Words(h) \in Nat /\ CurrentText(h.doc) \in Nat
      /\ h.read.status \in DocumentStatus /\ x.status \in DocumentStatus
      /\ {"APPROVED", "FINAL"} \subseteq DocumentStatus
      /\ CurrentText(h.doc) = c[x.version] /\ Words(h) = c[h.read.version]
  BY <1>1, <1>3, WordsType, RecordFacts DEF Words, CurrentText, DocumentStatus
\* What the row of the record's version says then.
<1>8. /\ RowsKept(a, b)
      /\ Sound(x, c, b, FALSE, FALSE)
      /\ h.op \in Cutting => ~IsAuthoritative(x.status) /\ x.validation = NoValidation
                             /\ ~Signed(b[x.version])
  <2>1. CASE h.op \in Cutting
    <3>1. /\ ~IsAuthoritative(x.status) /\ x.validation = NoValidation /\ ~Signed(a[x.version])
          /\ h.op = "generate" => h.read.version = x.version /\ ~IsAuthoritative(h.read.status)
      BY <1>1, <2>1 DEF Upheld, Ahead
    <3>2. PICK status \in DocumentStatus, text \in Nat :
            ArchiveRow(h.doc, x.version, status, text) /\ ~IsAuthoritative(status)
      <4>1. CASE h.op = "generate"
        BY <1>1, <1>2, <1>7, <3>1, <4>1 DEF RecordVersion
      <4>2. CASE h.op # "generate"
        <5>1. h.op \notin {"generate", "approve", "markFinal"}
          BY <2>1, <4>2 DEF Cutting
        <5>2. ArchiveRow(h.doc, x.version, x.status, CurrentText(h.doc))
          BY <1>1, <1>2, <5>1 DEF RecordVersion, Status
        <5>3. QED  BY <1>7, <3>1, <5>2
      <4>3. QED  BY <4>1, <4>2
    <3>3. ~Signed(b[x.version]) /\ \A w \in Version : w # x.version => b[w] = a[w]
      BY <1>3, <1>6, <3>2 DEF Signed
    <3>4. QED  BY <3>1, <3>3 DEF RowsKept, Sound
  <2>2. CASE h.op = "approve"
    <3>1. x.version = h.read.version /\ x.status = "APPROVED"
      BY <1>1, <2>2 DEF Upheld
    <3>2. ArchiveRow(h.doc, x.version, "APPROVED", c[x.version])
      BY <1>1, <1>2, <1>7, <2>2, <3>1 DEF RecordVersion
    <3>3. /\ b[x.version].status = "APPROVED" /\ b[x.version].text = c[x.version]
          /\ b[x.version] # Absent /\ \A w \in Version : w # x.version => b[w] = a[w]
      BY <1>3, <1>6, <1>7, <3>1, <3>2
    <3>4. QED  BY <1>3, <1>4, <2>2, <3>1, <3>3 DEF RowsKept, Sound, Signed, IsAuthoritative, Cutting
  <2>3. CASE h.op = "markFinal"
    <3>1. x.version = h.read.version /\ x.status = "FINAL" /\ ~Approving(h)
      BY <1>1, <2>3 DEF Upheld, Approving
    <3>2. Signed(a[x.version]) /\ a[x.version].text = c[x.version]
      BY <1>4, <3>1 DEF Sound, IsAuthoritative
    <3>3. a[x.version] \in Archived /\ a[x.version] # Absent
      <4>1. a[x.version] \in Archived \cup {Absent}
        <5>1. a = archived[h.doc] /\ h.doc \in Doc
          BY <1>1
        <5>2. QED  BY <1>3, <5>1
      <4>2. QED  BY <3>2, <4>1 DEF Signed
    <3>4. PICK row : row = [a[x.version] EXCEPT !.status = "FINAL"]
      OBVIOUS
    <3>5. row.status = "FINAL" /\ row.text = a[x.version].text /\ row # Absent
      <4>1. row \in Archived
        BY <1>7, <3>3, <3>4 DEF Archived
      <4>2. QED  BY <3>3, <3>4, <4>1, EngineAssumption DEF Archived
    <3>6. b[x.version] = row /\ \A w \in Version : w # x.version => b[w] = a[w]
      <4>1. archived' = [archived EXCEPT ![h.doc][h.read.version].status = "FINAL"]
        BY <1>1, <1>2, <2>3, <3>1, <3>3 DEF RecordVersion
      <4>2. archived' = [archived EXCEPT ![h.doc] = [a EXCEPT ![x.version] = row]]
        BY <1>1, <3>1, <3>4, <4>1
      <4>3. QED  BY <1>1, <1>3, <1>5, <4>2
    <3>7. QED  BY <1>3, <1>4, <2>3, <3>1, <3>2, <3>5, <3>6 DEF RowsKept, Sound, Signed, IsAuthoritative, Cutting
  <2>4. QED  BY <1>3, <2>1, <2>2, <2>3
<1>9. CASE request'[r] = Idle
  BY <1>1, <1>2, <1>5, <1>8, <1>9 DEF After
<1>10. CASE request'[r] # Idle
  <2>1. PICK k \in Handler : request'[r] = k /\ Onward(h, k)
    BY <1>1, <1>10, HandleMoves DEF Moves
  <2>2. k.op = h.op /\ k.doc = h.doc /\ Then(h.op, Now(h), Now(k))
    BY <2>1 DEF Onward, Turned
  <2>3. Now(k) = "tell"
    BY <2>2, NextStep, HandlerFacts
  <2>4. ~Dirty(k) /\ ~Approving(k) /\ ~Planned(k) /\ ~Ahead(k)
    BY <2>3 DEF Dirty, Approving, Planned, Ahead
  <2>5. Upheld(k, x, c, b)
    BY <1>1, <2>2, <2>3, <2>4 DEF Upheld
  <2>6. Sound(x, c, b, Dirty(k), Approving(k))
    BY <1>8, <2>4 DEF Sound
  <2>7. QED  BY <1>1, <1>2, <1>5, <1>8, <2>1, <2>2, <2>5, <2>6 DEF After
<1>11. QED  BY <1>9, <1>10

LEMMA HandleSettles ==
    ASSUME Types, NEW r \in Request, Handle(r), NEW h \in Handler, NEW x, NEW c, NEW a,
           Scene(r, h, x, c, a)
    PROVE  After(r, h) /\ RowsKept(a, archived'[h.doc])
<1>1. h = request[r]
  BY DEF Scene
<1>2. Now(h) \in {"create", "change", "read", "plan", "live", "archive", "commit", "exclude",
                  "write", "record", "tell"}
  BY <1>1, HandleAt
<1>3. QED
  BY <1>2, ReadSettles, ChangeSettles, ExcludeSettles, ArchiveSettles, WriteSettles,
     CreateSettles, TellSettles, CommitSettles, RecordSettles

\* The other documents: a step writes no more of them than their reasons.
LEMMA OthersSettle ==
    ASSUME Types, NEW r \in Request, Handle(r), NEW h \in Handler, h = request[r],
           NEW d \in Doc, d # h.doc
    PROVE  /\ content'[d] = content[d] /\ archived'[d] = archived[d]
           /\ Exists(d) <=> documents'[d] # Absent
           /\ Exists(d) => /\ documents'[d].version = documents[d].version
                           /\ documents'[d].status = documents[d].status
                           /\ documents'[d].validation = documents[d].validation
<1>1. /\ documents \in [Doc -> Record \cup {Absent}]
      /\ content \in [Doc -> [Version -> Nat]]
      /\ archived \in [Doc -> [Version -> Archived \cup {Absent}]]
      /\ h.doc \in Doc
  BY HandlerFacts DEF Types, TypeInv
<1>2. content'[d] = content[d]
  BY <1>1, HandleAt DEF CreateRecord, ChangeContent, ReadContent, PlanVersion, ReadLive,
     ArchivePrevious, Commit, CommitExclusion, WriteContent, RecordVersion, TellNobody,
     ReadDependent, TouchDependent
<1>3. archived'[d] = archived[d]
  <2>1. CASE Now(h) \notin {"archive", "record"}
    BY <1>1, <2>1, HandleAt DEF CreateRecord, ChangeContent, ReadContent, PlanVersion, ReadLive,
       Commit, CommitExclusion, WriteContent, TellNobody, ReadDependent, TouchDependent
  <2>2. CASE ArchivePrevious(r)
    BY <1>1, <2>2 DEF ArchivePrevious, ArchiveRow
  <2>3. CASE RecordVersion(r)
    BY <1>1, <2>3 DEF RecordVersion, ArchiveRow
  <2>4. QED  BY <2>1, <2>2, <2>3, HandleAt
<1>4. CASE documents'[d] = documents[d]
  BY <1>2, <1>3, <1>4 DEF Exists
<1>5. CASE documents'[d] # documents[d]
  <2>1. Writes(h)
    BY HandleWrites
  <2>2. /\ h.untold # {} /\ h.reasons # Unread
        /\ documents' = [documents EXCEPT ![NextToTell(h.untold)] = Touched(@, h.reasons)]
    BY <1>1, <1>5, <2>1 DEF Writes
  <2>3. h.reasons \in SUBSET DocumentType
    BY <2>2, HandlerFacts
  <2>4. Exists(NextToTell(h.untold)) /\ NextToTell(h.untold) \in Doc
    BY <2>2, HandleAt, NextFacts DEF Fits
  <2>5. d = NextToTell(h.untold) /\ documents'[d] = Touched(documents[d], h.reasons)
    BY <1>1, <1>5, <2>2, <2>4
  <2>6. documents[d] \in Record
    BY <1>1, <2>4, <2>5 DEF Exists
  <2>7. QED  BY <1>2, <1>3, <2>3, <2>5, <2>6, TouchedFacts, RecordFacts DEF Exists
<1>6. QED  BY <1>4, <1>5


\* While no handler has started beside another there is one at a time; and while besides
\* none was cut short, every document but the assumptions is sound.
Sole == \A q, r \in Request : request[q] # Idle /\ request[r] # Idle => q = r
SoundHere ==
    \A d \in Doc \cap Settling :
        documents[d] # Absent =>
            Sound(documents[d], content[d], archived[d], DirtyIn(request, d), ApprovingIn(request, d))
UpheldHere ==
    \A r \in Request : request[r] # Idle /\ request[r].doc \in Settling =>
        Upheld(request[r], documents[request[r].doc], content[request[r].doc],
               archived[request[r].doc])
Settled ==
    /\ overlaps = 0 => Sole
    /\ Alone => SoundHere /\ UpheldHere

LEMMA OneAtWork ==
    ASSUME NEW requests, NEW r \in Request, \A q \in Request : q # r => requests[q] = Idle, NEW d
    PROVE  /\ requests[r] = Idle => ~DirtyIn(requests, d) /\ ~ApprovingIn(requests, d)
           /\ \A h : requests[r] = h /\ h # Idle =>
                 /\ DirtyIn(requests, d) <=> (h.doc = d /\ Dirty(h))
                 /\ ApprovingIn(requests, d) <=> (h.doc = d /\ Approving(h))
BY DEF DirtyIn, ApprovingIn

LEMMA SoundFor ==
    ASSUME NEW x, NEW c, NEW a, NEW dirty, NEW approving, NEW e, NEW p,
           Sound(x, c, a, dirty, approving), dirty <=> e, approving <=> p
    PROVE  Sound(x, c, a, e, p)
BY DEF Sound

\* What a step of the one handler leaves.
LEMMA SoleHandleSettles ==
    ASSUME Types, Settled, Alone, NEW r \in Request, Handle(r)
    PROVE  SoundHere' /\ UpheldHere' /\ HistoryStep
<1>1. PICK h \in Handler : h = request[r] /\ h.doc \in Doc /\ Fits(h)
  BY HandleAt
<1>2. \A q \in Request : q # r => request[q] = Idle /\ request'[q] = Idle
  <2>1. h # Idle
    BY IdleAssumption
  <2>2. QED  BY <1>1, <2>1, HandleMoves DEF Settled, Alone, Sole
<1>3. request'[r] = Idle \/ \E k \in Handler : request'[r] = k /\ k # Idle /\ k.doc = h.doc
  <2>1. \A k \in Handler : k # Idle
    BY IdleAssumption
  <2>2. QED  BY <1>1, <2>1, HandleMoves DEF Moves, Onward, Turned
<1>4. ASSUME h.doc \in Settling
      PROVE  After(r, h) /\ RowsKept(archived[h.doc], archived'[h.doc])
  <2> DEFINE x == documents[h.doc]
             c == content[h.doc]
             a == archived[h.doc]
  <2>1. h # Idle
    BY IdleAssumption
  <2>2. Upheld(h, x, c, a)
    BY <1>1, <1>4, <2>1 DEF Settled, UpheldHere
  <2>3. x # Absent => Sound(x, c, a, Dirty(h), Approving(h))
    <3> SUFFICES ASSUME x # Absent PROVE Sound(x, c, a, Dirty(h), Approving(h))
      OBVIOUS
    <3>1. Sound(x, c, a, DirtyIn(request, h.doc), ApprovingIn(request, h.doc))
      BY <1>1, <1>4 DEF Settled, SoundHere
    <3>2. /\ DirtyIn(request, h.doc) <=> Dirty(h)
          /\ ApprovingIn(request, h.doc) <=> Approving(h)
      BY <1>1, <1>2, <2>1, OneAtWork
    <3> HIDE DEF x, c, a
    <3>3. QED  BY <3>1, <3>2, SoundFor
  <2>4. Scene(r, h, x, c, a)
    BY <1>1, <1>4, <2>2, <2>3 DEF Scene
  <2> HIDE DEF x, c
  <2>5. QED  BY <2>4, HandleSettles
<1>5. SoundHere'
  <2> SUFFICES ASSUME NEW d \in Doc \cap Settling, documents'[d] # Absent
               PROVE  Sound(documents'[d], content'[d], archived'[d],
                            DirtyIn(request', d), ApprovingIn(request', d))
    BY DEF SoundHere
  <2>1. CASE d = h.doc
    <3>1. After(r, h)
      BY <1>4, <2>1
    <3>2. CASE request'[r] = Idle /\ Sound(documents'[d], content'[d], archived'[d], FALSE, FALSE)
      <4>1. ~DirtyIn(request', d) /\ ~ApprovingIn(request', d)
        BY <1>2, <3>2, OneAtWork
      <4>2. QED  BY <3>2, <4>1, SoundFor
    <3>3. CASE \E k \in Handler :
                  /\ request'[r] = k /\ k.doc = d
                  /\ Sound(documents'[d], content'[d], archived'[d], Dirty(k), Approving(k))
      <4>1. PICK k \in Handler :
                  /\ request'[r] = k /\ k.doc = d
                  /\ Sound(documents'[d], content'[d], archived'[d], Dirty(k), Approving(k))
        BY <3>3
      <4>2. /\ DirtyIn(request', d) <=> Dirty(k)
            /\ ApprovingIn(request', d) <=> Approving(k)
        BY <1>2, <4>1, OneAtWork, IdleAssumption
      <4>3. QED  BY <4>1, <4>2, SoundFor
    <3>4. QED  BY <2>1, <3>1, <3>2, <3>3 DEF After
  <2>2. CASE d # h.doc
    <3>1. /\ content'[d] = content[d] /\ archived'[d] = archived[d] /\ documents[d] # Absent
          /\ documents'[d].version = documents[d].version
          /\ documents'[d].status = documents[d].status
          /\ documents'[d].validation = documents[d].validation
      BY <1>1, <2>2, OthersSettle DEF Exists
    <3>2. /\ ~DirtyIn(request, d) /\ ~ApprovingIn(request, d)
          /\ ~DirtyIn(request', d) /\ ~ApprovingIn(request', d)
      BY <1>1, <1>2, <1>3, <2>2, OneAtWork, IdleAssumption
    <3>3. Sound(documents[d], content[d], archived[d], DirtyIn(request, d), ApprovingIn(request, d))
      BY <3>1 DEF Settled, SoundHere
    <3>4. Sound(documents[d], content[d], archived[d], DirtyIn(request', d), ApprovingIn(request', d))
      BY <3>2, <3>3, SoundFor
    <3>5. QED  BY <3>1, <3>4 DEF Sound
  <2>3. QED  BY <2>1, <2>2
<1>6. UpheldHere'
  <2> SUFFICES ASSUME NEW q \in Request, request'[q] # Idle, request'[q].doc \in Settling
               PROVE  Upheld(request'[q], documents'[request'[q].doc],
                             content'[request'[q].doc], archived'[request'[q].doc])
    BY DEF UpheldHere
  <2>1. q = r
    BY <1>2
  <2>2. request'[q].doc = h.doc
    BY <1>3, <2>1
  <2>3. After(r, h)
    BY <1>4, <2>2
  <2>4. QED  BY <2>1, <2>2, <2>3 DEF After
<1>7. HistoryStep
  <2> SUFFICES ASSUME NEW d \in Doc \ {"ASSUMPTIONS"}, NEW v \in Version,
                      archived[d][v] # Absent, IsAuthoritative(archived[d][v].status)
               PROVE  /\ archived'[d][v].text = archived[d][v].text
                      /\ archived'[d][v].status \in {archived[d][v].status, "FINAL"}
    BY DEF HistoryStep
  <2>1. CASE d = h.doc
    <3>1. d \in Settling
      BY EngineAssumption DEF Settling
    <3>2. RowsKept(archived[d], archived'[d])
      BY <1>4, <2>1, <3>1
    <3>3. QED  BY <3>2 DEF RowsKept, Signed
  <2>2. CASE d # h.doc
    BY <1>1, <2>2, OthersSettle
  <2>3. QED  BY <2>1, <2>2
<1>8. QED  BY <1>5, <1>6, <1>7

\* A handler that starts when none is at work.
LEMMA FirstSettles ==
    ASSUME Types, Settled, Alone, NEW r \in Request, Ask(r), \A q \in Request : request[q] = Idle
    PROVE  SoundHere' /\ UpheldHere'
<1>r. request \in [Request -> Handler \cup {Idle}]
  BY DEF Types, TypeInv
<1>1. PICK d \in Doc, op \in Operation, steps \in Seq(Step), text \in Nat, passes \in BOOLEAN :
        Asked(r, d, op, steps, text, passes)
  BY AskSteps DEF Accepted, Types
<1>2. PICK h \in Handler : h = New(d, op, steps, text, passes) /\ Fits(h)
  BY <1>1, NewFacts DEF Asked
<1>3. /\ request'[r] = h /\ h # Idle /\ \A q \in Request : q # r => request'[q] = Idle
      /\ UNCHANGED <<documents, content, archived>> /\ Entered(d, op, steps)
  BY <1>r, <1>1, <1>2, IdleAssumption DEF Asked
<1>4. /\ h.op = op /\ h.doc = d /\ h.read = documents[d] /\ Now(h) = Head(steps)
      /\ h.expected = IF Exists(d) THEN documents[d].recordVersion ELSE 0
  BY <1>2 DEF New, Now
<1>5. /\ Now(h) \notin {"write", "record", "create", "live", "tell"}
      /\ Now(h) = "commit" => op \notin Cutting \cup {"validate"}
      /\ Now(h) = "archive" => op # "regenerateRows"
      /\ Now(h) \in {"read", "plan", "live"} => op # "edit" /\ op # "exclude"
  <2>1. CASE Exists(d)
    BY <1>3, <1>4, <2>1 DEF Entered, Start, Operation, Cutting
  <2>2. CASE ~Exists(d)
    <3>1. op = "generate" /\ Head(steps) = "plan"
      BY <1>3, <2>2 DEF Entered
    <3>2. QED  BY <1>4, <3>1
  <2>3. QED  BY <2>1, <2>2
<1>6. ~Dirty(h) /\ ~Approving(h) /\ ~Planned(h)
  BY <1>4, <1>5 DEF Dirty, Approving, Planned, Copying, Cutting
<1>7. SoundHere'
  <2> SUFFICES ASSUME NEW e \in Doc \cap Settling, documents[e] # Absent
               PROVE  Sound(documents[e], content[e], archived[e],
                            DirtyIn(request', e), ApprovingIn(request', e))
    BY <1>3 DEF SoundHere
  <2>1. /\ ~DirtyIn(request, e) /\ ~ApprovingIn(request, e)
        /\ ~DirtyIn(request', e) /\ ~ApprovingIn(request', e)
    <3>1. ~DirtyIn(request, e) /\ ~ApprovingIn(request, e)
      BY DEF DirtyIn, ApprovingIn
    <3>2. ~DirtyIn(request', e) /\ ~ApprovingIn(request', e)
      BY <1>3, <1>6, OneAtWork
    <3>3. QED  BY <3>1, <3>2
  <2>2. Sound(documents[e], content[e], archived[e], DirtyIn(request, e), ApprovingIn(request, e))
    BY DEF Settled, SoundHere
  <2>3. QED  BY <2>1, <2>2, SoundFor
<1>8. ASSUME d \in Settling
      PROVE  Upheld(h, documents[d], content[d], archived[d])
  <2>1. op # "suggest"
    BY <1>3, <1>8 DEF Entered, Checked, Settling
  <2>2. ASSUME h.read # Absent
        PROVE  /\ documents[d].recordVersion = h.expected
               /\ Permitted(h.op, h.read.status)
               /\ h.op = "approve" => ValidationPermits(h.read)
    BY <1>3, <1>4, <2>2 DEF Entered, Checked, Exists, Status, Permitted
  <2>3. QED  BY <1>4, <1>5, <1>6, <2>1, <2>2 DEF Upheld
<1>9. UpheldHere'
  <2> SUFFICES ASSUME NEW q \in Request, request'[q] # Idle, request'[q].doc \in Settling
               PROVE  Upheld(request'[q], documents'[request'[q].doc],
                             content'[request'[q].doc], archived'[request'[q].doc])
    BY DEF UpheldHere
  <2>1. request'[q] = h
    BY <1>3
  <2>2. QED  BY <1>3, <1>4, <1>8, <2>1
<1>10. QED  BY <1>7, <1>9

LEMMA SettledNext == Types /\ Settled /\ [Next]_vars => Settled'
<1> SUFFICES ASSUME Types, Settled, [Next]_vars PROVE Settled'
  OBVIOUS
<1>r. request \in [Request -> Handler \cup {Idle}] /\ overlaps \in Nat /\ aborts \in Nat
  BY EngineAssumption DEF Types, TypeInv
<1>1. CASE \E r \in Request : Handle(r)
  <2>1. PICK r \in Request : Handle(r)
    BY <1>1
  <2>2. UNCHANGED <<overlaps, aborts>> /\ request[r] # Idle
        /\ \A q \in Request : q # r => request'[q] = request[q]
    BY <2>1, HandleAt, HandleMoves, HandleWrites, IdleAssumption
  <2>3. overlaps' = 0 => Sole'
    BY <2>2 DEF Settled, Sole
  <2>4. QED  BY <2>1, <2>2, <2>3, SoleHandleSettles DEF Settled, Alone
<1>2. CASE \E r \in Request : Ask(r)
  <2>1. PICK r \in Request : Ask(r)
    BY <1>2
  <2>2. /\ \A q \in Request : q # r => request'[q] = request[q]
        /\ overlaps' = IF Overlapping THEN overlaps + 1 ELSE overlaps
        /\ UNCHANGED aborts
    BY <1>r, <2>1, AskSteps DEF Accepted, Asked, Types
  <2>3. overlaps' = 0 => overlaps = 0 /\ \A q \in Request : request[q] = Idle
    BY <1>r, <2>2 DEF Overlapping
  <2>4. overlaps' = 0 => Sole'
    BY <2>2, <2>3 DEF Sole
  <2>5. QED  BY <2>1, <2>2, <2>3, <2>4, FirstSettles DEF Settled, Alone
<1>3. CASE \E r \in Request : Abort(r)
  <2>1. PICK r \in Request : Abort(r)
    BY <1>3
  <2>2. aborts' # 0 /\ overlaps' = overlaps
        /\ \A q \in Request : request'[q] \in {request[q], Idle}
    BY <1>r, <2>1 DEF Abort, Done
  <2>3. QED  BY <2>2 DEF Settled, Sole, Alone
<1>4. CASE UNCHANGED <<documents, content, archived, request, overlaps, aborts>>
  BY <1>4 DEF Settled, Sole, Alone, SoundHere, UpheldHere
<1>5. QED
  BY <1>1, <1>2, <1>3, <1>4 DEF Next, vars, SupersedeUpstream, InvalidateUpstream

LEMMA SettledHolds == Spec => [](Types /\ Settled)
<1>1. Init => Settled
  BY DEF Init, Settled, Sole, SoundHere, UpheldHere
<1>2. QED  BY <1>1, TypesInit, TypesNext, SettledNext, PTL DEF Spec

\* ApprovedAsValidated, for every instance: with one request at a time, what is approved
\* or issued is what was validated, whatever the requests were before.
THEOREM ApprovedWasValidated == Spec => []ApprovedAsValidated
<1>1. Types /\ Settled => ApprovedAsValidated
  <2> SUFFICES ASSUME Settled, Alone, NEW d \in Doc \ {"ASSUMPTIONS"},
                      Exists(d), IsAuthoritative(Status(d)), ~Busy(d)
               PROVE  /\ documents[d].validation # NoValidation
                      /\ documents[d].validation.version = documents[d].version
                      /\ documents[d].validation.text = CurrentText(d)
    BY DEF ApprovedAsValidated
  <2>1. d \in Settling
    BY EngineAssumption DEF Settling
  <2>2. Sound(documents[d], content[d], archived[d], DirtyIn(request, d), ApprovingIn(request, d))
    BY <2>1 DEF Settled, SoundHere, Exists
  <2>3. ~DirtyIn(request, d)
    BY DEF Busy, DirtyIn
  <2>4. QED  BY <2>2, <2>3 DEF Sound, Status, CurrentText
<1>2. QED  BY <1>1, SettledHolds, PTL

\* HistoryStands, for every instance: with one request at a time, the row of a version
\* that was approved keeps its words and its status, or is issued.
THEOREM ApprovedHistoryStands == Spec => HistoryStands
<1>1. Types /\ Settled /\ [Next]_vars => [HistoryStep]_vars
  <2> SUFFICES ASSUME Types, Settled, Alone, Next PROVE HistoryStep
    BY DEF HistoryStep
  <2>1. CASE \E r \in Request : Handle(r)
    BY <2>1, SoleHandleSettles
  <2>2. CASE \E r \in Request : Ask(r)
    BY <2>2, AskSteps DEF Accepted, Asked, Types, HistoryStep
  <2>3. CASE UNCHANGED archived
    BY <2>3 DEF HistoryStep
  <2>4. QED  BY <2>1, <2>2, <2>3 DEF Next, Abort, SupersedeUpstream, InvalidateUpstream
<1>2. QED  BY <1>1, SettledHolds, PTL DEF Spec, HistoryStands


-----------------------------------------------------------------------------
(* Withdrawals *)

\* The order in which documents are told.
Earlier(a, b) == \E i, j \in 1 .. 7 : i < j /\ DocumentTypes[i] = a /\ DocumentTypes[j] = b

\* Who a handler has still to tell: a reopening all of them until its version is in the
\* history, then those from the next one on. What is created first rests on what is there.
Tells(h) ==
    /\ h.op = "reopen" /\ Now(h) # "tell" => h.untold = DownstreamDocuments(h.doc) \cap Doc
    /\ \A a \in h.untold, b \in DownstreamDocuments(h.doc) \cap Doc :
          Earlier(a, b) => b \in h.untold
    /\ h.reasons # Unread => h.doc \in h.reasons
    /\ h.read = Absent => \A p \in Prerequisites(h.doc) : Exists(p)
HandlersTell == \A r \in Request : request[r] # Idle => Tells(request[r])

\* A document's prerequisites are never missing.
Founded == \A e \in Doc : Exists(e) => \A p \in Prerequisites(e) : Exists(p)

\* A handler that reopened p and has e still to tell; a handler about to approve e.
IsTelling(h, p, e) ==
    /\ h # Idle /\ h.doc = p /\ h.op = "reopen"
    /\ Now(h) \in {"record", "tell"} /\ e \in h.untold
StillTelling(p, e) == \E r \in Request : IsTelling(request[r], p, e)
Approves(h, e) == h # Idle /\ h.doc = e /\ h.op = "approve" /\ Now(h) = "commit"

\* Nobody relies on e as it is: not approved and current, nor about to be.
Warned(e) ==
    /\ IsAuthoritative(Status(e)) => documents[e].outdated # {}
    /\ \A r \in Request :
          Approves(request[r], e) => documents[e].recordVersion # request[r].expected

\* Everything downstream of a withdrawn document is warned, or still to be told.
Withdrawn(p) == Exists(p) /\ Status(p) = "NEEDS_REVISION"
DependentsWarned ==
    aborts = 0 => \A p \in Doc : Withdrawn(p) =>
        \A e \in DownstreamDocuments(p) \cap Doc : Exists(e) => StillTelling(p, e) \/ Warned(e)

LEMMA PrerequisitesEarlier ==
    ASSUME NEW e \in Doc, NEW q \in Prerequisites(e)
    PROVE  Earlier(q, e)
<1>1. e \in DocumentType /\ q \in DocumentDependencies[e].documents
  BY EngineAssumption DEF Prerequisites
<1>2. CASE e = "OUR_UNDERSTANDING"
  BY <1>1, <1>2 DEF DocumentDependencies, Needs
<1>3. CASE e = "FEATURE_LISTING"
  <2>1. q = DocumentTypes[1] /\ e = DocumentTypes[2]
    BY <1>1, <1>3 DEF DocumentDependencies, Needs, DocumentTypes
  <2>2. QED  BY <2>1 DEF Earlier
<1>4. CASE e = "ACCEPTANCE_CRITERIA"
  <2>1. q = DocumentTypes[2] /\ e = DocumentTypes[3]
    BY <1>1, <1>4 DEF DocumentDependencies, Needs, DocumentTypes
  <2>2. QED  BY <2>1 DEF Earlier
<1>5. CASE e = "ASSUMPTIONS"
  <2>1. q = DocumentTypes[3] /\ e = DocumentTypes[4]
    BY <1>1, <1>5 DEF DocumentDependencies, Needs, DocumentTypes
  <2>2. QED  BY <2>1 DEF Earlier
<1>6. CASE e = "STATEMENT_OF_WORK"
  <2>1. q = DocumentTypes[4] /\ e = DocumentTypes[5]
    BY <1>1, <1>6 DEF DocumentDependencies, Needs, DocumentTypes
  <2>2. QED  BY <2>1 DEF Earlier
<1>7. CASE e = "WORK_BREAKDOWN_STRUCTURE"
  <2>1. q = DocumentTypes[5] /\ e = DocumentTypes[6]
    BY <1>1, <1>7 DEF DocumentDependencies, Needs, DocumentTypes
  <2>2. QED  BY <2>1 DEF Earlier
<1>8. CASE e = "CLIENT_DEPENDENCY_SHEET"
  <2>1. (q = DocumentTypes[4] \/ q = DocumentTypes[6]) /\ e = DocumentTypes[7]
    BY <1>1, <1>8 DEF DocumentDependencies, Needs, DocumentTypes
  <2>2. QED  BY <2>1 DEF Earlier
<1>9. QED
  BY <1>1, <1>2, <1>3, <1>4, <1>5, <1>6, <1>7, <1>8 DEF DocumentType, DocumentTypes

\* Nobody is told before those that come earlier.
LEMMA FirstIsEarliest ==
    ASSUME NEW S \in SUBSET DocumentType, S # {}, NEW a \in S
    PROVE  ~Earlier(a, NextToTell(S))
<1>1. PICK i \in 1 .. 7 : /\ DocumentTypes[i] = NextToTell(S)
                          /\ \A j \in 1 .. (i - 1) : DocumentTypes[j] \notin S
  BY FirstToTell
<1>2. ASSUME NEW j \in 1 .. 7, NEW k \in 1 .. 7, j < k, DocumentTypes[j] = a,
             DocumentTypes[k] = NextToTell(S)
      PROVE  FALSE
  <2>1. i = k
    <3>1. \A m, n \in 1 .. 7 : DocumentTypes[m] = DocumentTypes[n] => m = n
      BY DEF DocumentTypes
    <3>2. QED  BY <1>1, <1>2, <3>1
  <2>2. j \in 1 .. (i - 1)
    BY <1>2, <2>1
  <2>3. QED  BY <1>1, <1>2, <2>2
<1>3. QED  BY <1>2 DEF Earlier


\* A first generation stops being one when its record is there.
LEMMA ReadStays ==
    ASSUME Types, NEW r \in Request, Handle(r), NEW h \in Handler, h = request[r],
           NEW k \in Handler, request'[r] = k, Onward(h, k), k.read = Absent
    PROVE  h.read = Absent
<1>1. Fits(h) /\ h.doc \in Doc /\ DocumentsStep
  BY HandleAt, HandleKept DEF StepKept
<1>2. CASE Now(h) = "create"
  BY <1>1, <1>2, OpOf
<1>3. CASE Now(h) = "commit" /\ h.op = "generate"
  <2>1. k.read = documents'[h.doc]
    BY <1>3 DEF Onward, Turned
  <2>2. h.read # Absent => documents'[h.doc] # Absent
    BY <1>1 DEF Fits, DocumentsStep
  <2>3. QED  BY <2>1, <2>2
<1>4. QED  BY <1>2, <1>3 DEF Onward, Turned

\* Telling takes the first of those who are left, with the reason, and no other.
LEMMA TellingOn ==
    ASSUME NEW r \in Request, NEW h \in Handler, Told(r, h), Tells(h),
           NEW k \in Handler, request'[r] = k
    PROVE  /\ k.op = h.op /\ k.doc = h.doc /\ Now(k) = Now(h) /\ k.read = h.read
           /\ k.untold \subseteq h.untold /\ h.untold # {}
           /\ h.untold \subseteq k.untold \cup {NextToTell(h.untold)}
           /\ \/ k.untold = h.untold /\ h.doc \in k.reasons
              \/ k.untold = h.untold \ {NextToTell(h.untold)} /\ k.reasons = Unread
<1> DEFINE e == NextToTell(h.untold)
<1>1. \A U, R : LET g == ToTell(h, U, R)
                IN  /\ g.op = h.op /\ g.doc = h.doc /\ g.steps = h.steps /\ g.read = h.read
                    /\ g.untold = U /\ g.reasons = R
  BY DEF ToTell, Handler
<1> HIDE DEF e
<1>2. CASE /\ h.untold # {} /\ h.reasons = Unread
           /\ request'[r] = ToTell(h, h.untold, documents[e].outdated \cup {h.doc})
  <2>1. k = ToTell(h, h.untold, documents[e].outdated \cup {h.doc})
    BY <1>2
  <2>2. QED  BY <1>1, <1>2, <2>1 DEF Now, e
<1>3. CASE /\ h.untold # {}
           /\ request'[r] = IF h.untold \ {e} = {} THEN Idle ELSE ToTell(h, h.untold \ {e}, Unread)
  <2>1. k = ToTell(h, h.untold \ {e}, Unread)
    BY <1>3, IdleAssumption
  <2>2. /\ k.op = h.op /\ k.doc = h.doc /\ k.steps = h.steps /\ k.read = h.read
        /\ k.untold = h.untold \ {e} /\ k.reasons = Unread
    BY <1>1, <2>1
  <2>3. QED  BY <1>3, <2>2 DEF Now, e
<1>4. request'[r] # Idle
  BY IdleAssumption
<1>5. QED  BY <1>2, <1>3, <1>4 DEF Told, e

LEMMA TellsKept ==
    ASSUME Types, NEW r \in Request, Handle(r), NEW h \in Handler, h = request[r], Tells(h),
           NEW k \in Handler, request'[r] = k
    PROVE  Tells(k)'
<1>1. Fits(h) /\ h.doc \in Doc /\ DocumentsStep /\ Moves(r, h)
  BY HandleAt, HandleKept, HandleMoves DEF StepKept
<1>2. Onward(h, k)
  BY <1>1, IdleAssumption DEF Moves
<1>3. k.op = h.op /\ k.doc = h.doc /\ h.op \in Operation
  BY <1>2, HandlerFacts DEF Onward, Turned
<1>4. k.read = Absent => \A p \in Prerequisites(k.doc) : documents'[p] # Absent
  <2> SUFFICES ASSUME k.read = Absent, NEW p \in Prerequisites(k.doc) PROVE documents'[p] # Absent
    OBVIOUS
  <2>1. h.read = Absent
    BY <1>2, ReadStays
  <2>2. Exists(p) /\ p \in Doc
    BY <1>3, <2>1 DEF Tells, Prerequisites
  <2>3. QED  BY <1>1, <2>2 DEF DocumentsStep
<1>5. CASE Now(h) # "tell"
  <2>1. k.untold = h.untold /\ k.reasons = h.reasons
    BY <1>2, <1>5 DEF Onward, Turned
  <2>2. QED  BY <1>3, <1>4, <1>5, <2>1 DEF Tells, Exists
<1>6. CASE Now(h) = "tell"
  <2>1. Told(r, h)
    BY <1>1, <1>6, HandleAt, TellSteps
  <2> DEFINE e == NextToTell(h.untold)
  <2>2. /\ Now(k) = "tell" /\ h.untold # {}
        /\ \/ k.untold = h.untold /\ h.doc \in k.reasons
           \/ k.untold = h.untold \ {e} /\ k.reasons = Unread
    BY <1>6, <2>1, TellingOn
  <2>3. \A a \in h.untold : ~Earlier(a, e)
    <3>1. h.untold \in SUBSET DocumentType
      BY HandlerFacts, EngineAssumption
    <3>2. QED  BY <2>2, <3>1, FirstIsEarliest
  <2> HIDE DEF e
  <2>4. \A a \in k.untold, b \in DownstreamDocuments(k.doc) \cap Doc : Earlier(a, b) => b \in k.untold
    <3>1. TAKE a \in k.untold, b \in DownstreamDocuments(k.doc) \cap Doc
    <3>2. HAVE Earlier(a, b)
    <3>3. a \in h.untold /\ b \in h.untold
      BY <1>3, <2>2, <3>1, <3>2 DEF Tells
    <3>4. b # e
      BY <2>3, <3>2, <3>3
    <3>5. QED  BY <2>2, <3>3, <3>4
  <2>5. QED  BY <1>3, <1>4, <2>2, <2>4 DEF Tells, Exists
<1>7. QED  BY <1>5, <1>6

\* Reopening is over when nobody there is left to tell; those it told have the reason.
LEMMA TellingKept ==
    ASSUME Types, NEW r \in Request, Handle(r), NEW p \in Doc, NEW e \in Doc,
           NEW h \in Handler, h = request[r], Tells(h), IsTelling(h, p, e),
           ~IsTelling(request'[r], p, e), Exists(e)
    PROVE  documents'[e].outdated # {} /\ documents'[e] # documents[e]
<1>1. Fits(h) /\ h.doc = p /\ h.op = "reopen" /\ e \in h.untold /\ Now(h) \in {"record", "tell"}
      /\ Moves(r, h) /\ h.op \in Operation
  BY HandleAt, HandleMoves, HandlerFacts DEF IsTelling
<1>2. CASE Now(h) = "record"
  <2>1. PICK k \in Handler : request'[r] = k /\ Onward(h, k)
    <3>1. ~Ends(h.op, Now(h))
      BY <1>1, <1>2 DEF Ends
    <3>2. QED  BY <1>1, <1>2, <3>1 DEF Moves
  <2>2. k.op = h.op /\ k.doc = h.doc /\ k.untold = h.untold /\ Now(k) = "tell"
    BY <1>1, <1>2, <2>1, NextStep DEF Onward, Turned
  <2>3. IsTelling(request'[r], p, e)
    BY <1>1, <2>1, <2>2, IdleAssumption DEF IsTelling
  <2>4. QED  BY <2>3
<1>3. CASE Now(h) = "tell"
  <2> DEFINE d == NextToTell(h.untold)
  <2>1. Told(r, h)
    BY <1>1, <1>3, HandleAt, TellSteps
  <2>2. d \in h.untold /\ d \in Doc /\ h.untold # {}
    BY <1>1, NextFacts
  <2>3. ASSUME NEW U, NEW R, request'[r] = ToTell(h, U, R), e \in U, ToTell(h, U, R) \in Handler
        PROVE  FALSE
    <3>1. PICK k : k = ToTell(h, U, R)
      OBVIOUS
    <3>2. k.op = h.op /\ k.doc = h.doc /\ k.steps = h.steps /\ k.untold = U
      BY <3>1 DEF ToTell, Handler
    <3>3. IsTelling(request'[r], p, e)
      BY <1>1, <1>3, <2>3, <3>1, <3>2, IdleAssumption DEF IsTelling, Now
    <3>4. QED  BY <3>3
  <2>4. /\ h.untold \in SUBSET Doc /\ h.untold \ {d} \in SUBSET Doc
        /\ h.reasons \in {Unread} \cup SUBSET DocumentType /\ h.doc \in DocumentType
    BY HandlerFacts, EngineAssumption
  <2> HIDE DEF d
  <2>5. CASE /\ Exists(d) /\ h.untold # {}
             /\ request'[r] = ToTell(h, h.untold, documents[d].outdated \cup {h.doc})
    <3>1. documents[d].outdated \cup {h.doc} \in {Unread} \cup SUBSET DocumentType
      BY <2>2, <2>4, <2>5, RecordFacts DEF Types, TypeInv, Exists
    <3>2. ToTell(h, h.untold, documents[d].outdated \cup {h.doc}) \in Handler
      BY <2>4, <3>1, WithReasons
    <3>3. QED  BY <1>1, <2>3, <2>5, <3>2
  <2>6. CASE /\ IF h.reasons = Unread THEN ~Exists(d) /\ UNCHANGED documents
                ELSE documents' = [documents EXCEPT ![d] = Touched(@, h.reasons)]
             /\ request'[r] = IF h.untold \ {d} = {} THEN Idle
                              ELSE ToTell(h, h.untold \ {d}, Unread)
    <3>1. e = d
      <4> SUFFICES ASSUME e # d PROVE FALSE
        OBVIOUS
      <4>1. e \in h.untold \ {d}
        BY <1>1
      <4>2. request'[r] = ToTell(h, h.untold \ {d}, Unread)
        BY <2>6, <4>1
      <4>3. ToTell(h, h.untold \ {d}, Unread) \in Handler
        BY <2>4, WithReasons
      <4>4. QED  BY <2>3, <4>1, <4>2, <4>3
    <3>2. h.reasons # Unread /\ documents' = [documents EXCEPT ![e] = Touched(@, h.reasons)]
      BY <2>6, <3>1
    <3>3. h.reasons \in SUBSET DocumentType /\ h.doc \in h.reasons
      BY <2>4, <3>2 DEF Tells
    <3>4. documents \in [Doc -> Record \cup {Absent}] /\ documents[e] \in Record
      BY DEF Types, TypeInv, Exists
    <3>5. documents'[e] = Touched(documents[e], h.reasons)
      BY <3>2, <3>4
    <3>6. /\ documents'[e].outdated = h.reasons
          /\ documents'[e].recordVersion = documents[e].recordVersion + 1
      BY <3>3, <3>4, <3>5, TouchedFacts
    <3>7. documents[e].recordVersion \in Nat
      BY <3>4, RecordFacts
    <3>8. QED  BY <3>3, <3>6, <3>7
  <2>7. QED  BY <2>1, <2>2, <2>5, <2>6 DEF Told, d
<1>4. QED  BY <1>1, <1>2, <1>3


\* What handlers are to approve when one of them has taken a step.
LEMMA ApprovesKept ==
    ASSUME Types, NEW r \in Request, Handle(r), NEW e \in Doc, NEW q \in Request,
           Approves(request'[q], e)
    PROVE  /\ request'[q] = request[q] /\ Exists(e)
           /\ request[q].expected <= documents[e].recordVersion
<1>r. request \in [Request -> Handler \cup {Idle}]
  BY DEF Types, TypeInv
<1>1. PICK h \in Handler : h = request[r]
  BY HandleAt
<1>2. Moves(r, h) /\ \A s \in Request : s # r => request'[s] = request[s]
  BY <1>1, HandleMoves
<1>3. q # r
  <2> SUFFICES ASSUME q = r PROVE FALSE
    OBVIOUS
  <2>1. PICK k \in Handler : request'[r] = k /\ Onward(h, k)
    BY <1>2 DEF Moves, Approves
  <2>2. k.op = h.op /\ k.op = "approve" /\ Then(h.op, Now(h), "commit")
    BY <2>1 DEF Approves, Onward, Turned
  <2>3. QED  BY <2>2 DEF Then, Follows, Before, Cutting, Copying, InPlace
<1>4. PICK g \in Handler : g = request[q] /\ Fits(g) /\ request'[q] = g
  BY <1>r, <1>2, <1>3 DEF Approves, Types, HandlersFit
<1>5. g.doc = e /\ g.read # Absent
  BY <1>4, OpOf DEF Approves
<1>6. QED  BY <1>4, <1>5 DEF Fits

\* The reasons that an update of the record leaves.
LEMMA UpdatedReasons ==
    ASSUME NEW h \in Handler, h.op \notin {"suggest", "generate", "revise"},
           documents[h.doc] \in Record
    PROVE  Updated(h).outdated = documents[h.doc].outdated
<1>1. h.op \in Operation
  BY HandlerFacts
<1>2. QED
  BY <1>1 DEF Updated, MovedTo, Cut, Validated, WithStatus, Bumped, Record, Operation

\* A handler that commits, and what it commits.
LEMMA Commits ==
    ASSUME Types, NEW r \in Request, Handle(r), NEW h \in Handler, h = request[r],
           Now(h) = "commit"
    PROVE  /\ h.op \in Operation \ {"suggest"} /\ h.read \in Record
           /\ documents[h.doc] \in Record /\ Exists(h.doc)
<1>1. Fits(h) /\ h.doc \in Doc
  BY HandleAt
<1>2. h.op \in Operation \ {"suggest"} /\ h.read # Absent /\ h.read \in Record
  BY <1>1, OpOf
<1>3. Exists(h.doc)
  BY <1>1, <1>2 DEF Fits
<1>4. QED  BY <1>1, <1>2, <1>3 DEF Types, TypeInv, Exists

\* Who is warned stays warned: approve and markFinal let nobody pass who was told, and
\* generate and revise make a draft.
LEMMA WarnedKept ==
    ASSUME Types, Vouches, HandlersTell, NEW r \in Request, Handle(r),
           NEW e \in Doc, Exists(e), Warned(e)
    PROVE  Warned(e)'
<1>1. PICK h \in Handler : h = request[r] /\ Fits(h) /\ h.doc \in Doc /\ Tells(h) /\ Vouched(h)
  BY HandleAt, IdleAssumption DEF HandlersTell, Vouches
<1>2. /\ documents \in [Doc -> Record \cup {Absent}] /\ documents[e] \in Record
      /\ documents[e].recordVersion \in Nat
  BY RecordFacts DEF Types, TypeInv, Exists
<1>3. DocumentsStep
  BY HandleKept DEF StepKept
<1>4. IsAuthoritative(documents'[e].status) => documents'[e].outdated # {}
  <2> SUFFICES ASSUME IsAuthoritative(documents'[e].status), documents'[e] # documents[e]
               PROVE  documents'[e].outdated # {}
    BY DEF Warned, Status
  <2>1. Writes(h)
    BY <1>1, HandleWrites
  <2>2. CASE /\ ~Exists(h.doc)
             /\ documents' = [documents EXCEPT ![h.doc] = Created(h.version, h.against)]
    BY <1>1, <1>2, <2>2 DEF Exists
  <2>3. CASE documents' = [documents EXCEPT ![h.doc] = Bumped(@)]
    <3>1. documents'[e] = Bumped(documents[e])
      BY <1>1, <1>2, <2>3
    <3>2. QED  BY <1>2, <3>1, BumpedFacts DEF Warned, Status
  <2>4. CASE /\ Now(h) = "tell" /\ h.untold # {} /\ h.reasons # Unread
             /\ documents' = [documents EXCEPT ![NextToTell(h.untold)] = Touched(@, h.reasons)]
    <3>1. NextToTell(h.untold) \in Doc /\ h.reasons \in SUBSET DocumentType /\ h.doc \in h.reasons
      BY <1>1, <2>4, NextFacts, HandlerFacts DEF Tells
    <3>2. documents'[e] = Touched(documents[e], h.reasons)
      BY <1>2, <2>4, <3>1
    <3>3. QED  BY <1>2, <3>1, <3>2, TouchedFacts
  <2>5. CASE /\ Now(h) = "commit" /\ documents[h.doc].recordVersion = h.expected
             /\ documents' = [documents EXCEPT ![h.doc] = Updated(h)]
    <3>1. e = h.doc /\ documents'[e] = Updated(h)
      BY <1>1, <1>2, <2>5
    <3>2. h.op \in Operation \ {"suggest"} /\ h.read \in Record /\ documents[h.doc] \in Record
      BY <1>1, <2>5, Commits
    <3> DEFINE y == Updated(h)
    <3>3. /\ h.op \in {"generate", "restore", "regenerateRows", "revise"} => y.status = "DRAFT"
          /\ h.op = "reopen" => y.status = "NEEDS_REVISION"
          /\ h.op \in InPlace \cup {"regenerateFeatures"} =>
                y.status = IF h.read.status = "APPROVED" THEN "DRAFT" ELSE documents[h.doc].status
          /\ h.op \in {"validate", "acknowledge"} => y.status = documents[h.doc].status
      BY <3>2, UpdatedFacts
    <3>4. h.op \notin {"generate", "revise"} => y.outdated = documents[h.doc].outdated
      BY <3>2, UpdatedReasons
    <3>5. y = documents'[e]
      BY <3>1
    <3> HIDE DEF y
    <3>6. CASE h.op \in InPlace \cup {"regenerateFeatures", "validate", "acknowledge"}
      <4>1. y.status # documents[e].status => y.status = "DRAFT"
        BY <3>1, <3>3, <3>6
      <4>2. IsAuthoritative(Status(e))
        BY <3>5, <4>1 DEF IsAuthoritative, Status
      <4>3. QED  BY <3>1, <3>4, <3>5, <3>6, <4>2 DEF Warned, InPlace
    <3>7. CASE h.op = "approve"
      BY <1>1, <2>5, <3>1, <3>7, IdleAssumption DEF Warned, Approves
    <3>8. CASE h.op = "markFinal"
      BY <1>1, <2>5, <3>1, <3>8 DEF Warned, Vouched, Status, IsAuthoritative
    <3>9. CASE h.op \in {"generate", "restore", "regenerateRows", "revise", "reopen"}
      BY <3>3, <3>5, <3>9 DEF IsAuthoritative
    <3>10. QED  BY <3>2, <3>6, <3>7, <3>8, <3>9 DEF Operation, InPlace
  <2>6. QED  BY <2>1, <2>2, <2>3, <2>4, <2>5 DEF Writes
<1>5. \A q \in Request :
        Approves(request'[q], e) => documents'[e].recordVersion # request'[q].expected
  <2>1. TAKE q \in Request
  <2>2. HAVE Approves(request'[q], e)
  <2>3. request'[q] = request[q] /\ request[q].expected <= documents[e].recordVersion
    BY <2>2, ApprovesKept
  <2>4. request[q] \in Handler /\ request[q].expected \in Nat
    BY <2>2, <2>3, HandlerFacts DEF Approves, Types, TypeInv
  <2>5. CASE documents'[e] = documents[e]
    BY <2>2, <2>3, <2>5 DEF Warned
  <2>6. CASE documents'[e].recordVersion = documents[e].recordVersion + 1
    BY <1>2, <2>3, <2>4, <2>6
  <2>7. QED  BY <1>3, <2>5, <2>6 DEF DocumentsStep
<1>6. QED  BY <1>4, <1>5 DEF Warned, Status

\* A document is withdrawn by a reopening that has everyone still to tell.
LEMMA NewlyWithdrawn ==
    ASSUME Types, HandlersTell, NEW r \in Request, Handle(r),
           NEW p \in Doc, ~Withdrawn(p), Withdrawn(p)', NEW e \in DownstreamDocuments(p) \cap Doc
    PROVE  StillTelling(p, e)'
<1>1. PICK h \in Handler : h = request[r] /\ Fits(h) /\ h.doc \in Doc /\ Tells(h) /\ Moves(r, h)
  BY HandleAt, HandleMoves, IdleAssumption DEF HandlersTell
<1>2. documents \in [Doc -> Record \cup {Absent}] /\ documents' # documents
  BY DEF Types, TypeInv, Withdrawn, Exists, Status
<1>3. documents'[p] # Absent /\ documents'[p].status = "NEEDS_REVISION"
  BY DEF Withdrawn, Exists, Status
<1>4. documents[p] # Absent => documents[p] \in Record /\ documents[p].status # "NEEDS_REVISION"
  BY <1>2 DEF Withdrawn, Exists, Status
<1>5. documents'[p] # documents[p]
  BY <1>3, <1>4
<1>6. /\ Now(h) = "commit" /\ documents[h.doc].recordVersion = h.expected
      /\ documents' = [documents EXCEPT ![h.doc] = Updated(h)]
  <2>1. Writes(h)
    BY <1>1, HandleWrites
  <2>2. CASE documents' = [documents EXCEPT ![h.doc] = Created(h.version, h.against)]
    <3>1. h.version \in Nat /\ h.against \in [Kind -> Nat]
      BY HandlerFacts
    <3>2. documents'[p] = Created(h.version, h.against)
      BY <1>1, <1>2, <1>5, <2>2
    <3>3. documents'[p].status = "DRAFT"
      BY <3>1, <3>2, CreatedFacts
    <3>4. QED  BY <1>3, <3>3
  <2>3. CASE Now(h) = "exclude" /\ documents' = [documents EXCEPT ![h.doc] = Bumped(@)]
    <3>1. p = h.doc /\ documents'[p] = Bumped(documents[p])
      BY <1>1, <1>2, <1>5, <2>3
    <3>2. Exists(h.doc)
      BY <1>1, <2>3, OpOf DEF Fits
    <3>3. QED  BY <1>3, <1>4, <3>1, <3>2, BumpedFacts DEF Exists
  <2>4. CASE /\ h.untold # {} /\ h.reasons # Unread
             /\ documents' = [documents EXCEPT ![NextToTell(h.untold)] = Touched(@, h.reasons)]
    <3>1. /\ NextToTell(h.untold) \in Doc /\ h.reasons \in SUBSET DocumentType
          /\ Exists(NextToTell(h.untold))
      BY <1>1, <2>4, NextFacts, HandlerFacts DEF Fits
    <3>2. p = NextToTell(h.untold) /\ documents'[p] = Touched(documents[p], h.reasons)
      BY <1>2, <1>5, <2>4, <3>1
    <3>3. QED  BY <1>3, <1>4, <3>1, <3>2, TouchedFacts DEF Exists
  <2>5. QED  BY <1>2, <2>1, <2>2, <2>3, <2>4 DEF Writes
<1>7. /\ h.op \in Operation \ {"suggest"} /\ h.read \in Record
      /\ documents[h.doc] \in Record /\ Exists(h.doc)
  BY <1>1, <1>6, Commits
<1>8. p = h.doc /\ documents'[p] = Updated(h)
  BY <1>1, <1>2, <1>5, <1>6
<1>9. h.op = "reopen"
  <2> DEFINE y == Updated(h)
  <2>1. /\ h.op \in {"generate", "restore", "regenerateRows", "revise"} => y.status = "DRAFT"
        /\ h.op \in InPlace \cup {"regenerateFeatures"} =>
              y.status = IF h.read.status = "APPROVED" THEN "DRAFT" ELSE documents[h.doc].status
        /\ h.op \in {"validate", "acknowledge"} => y.status = documents[h.doc].status
        /\ h.op = "approve" => y.status = "APPROVED"
        /\ h.op = "markFinal" => y.status = "FINAL"
    BY <1>7, UpdatedFacts
  <2>2. y.status = "NEEDS_REVISION" /\ documents[h.doc].status # "NEEDS_REVISION"
    BY <1>3, <1>4, <1>7, <1>8 DEF Exists
  <2> HIDE DEF y
  <2>3. QED  BY <1>7, <2>1, <2>2 DEF Operation, InPlace
<1>10. PICK k \in Handler : request'[r] = k /\ Onward(h, k)
  <2>1. ~Ends(h.op, Now(h))
    BY <1>6, <1>9 DEF Ends
  <2>2. QED  BY <1>1, <1>6, <1>9, <2>1 DEF Moves, Copying
<1>11. k.op = "reopen" /\ k.doc = p /\ k.untold = h.untold /\ Now(k) = "record"
  BY <1>6, <1>7, <1>8, <1>9, <1>10, NextStep DEF Onward, Turned, Cutting, Copying
<1>12. e \in h.untold
  BY <1>1, <1>6, <1>8, <1>9 DEF Tells
<1>13. IsTelling(request'[r], p, e)
  BY <1>10, <1>11, <1>12, IdleAssumption DEF IsTelling
<1>14. QED  BY <1>13 DEF StillTelling, IsTelling


LEMMA HandlersTellNext == Types /\ HandlersTell /\ [Next]_vars => HandlersTell'
<1> SUFFICES ASSUME Types, HandlersTell, [Next]_vars PROVE HandlersTell'
  OBVIOUS
<1>r. request \in [Request -> Handler \cup {Idle}]
  BY DEF Types, TypeInv
<1>a. ASSUME DocumentsStep, NEW q \in Request, request'[q] = request[q], request'[q] # Idle
      PROVE  Tells(request[q])'
  <2>1. Tells(request[q]) /\ request[q] # Idle
    BY <1>a DEF HandlersTell
  <2>2. \A p \in Doc : Exists(p) => documents'[p] # Absent
    BY <1>a DEF DocumentsStep
  <2>3. QED  BY <1>a, <2>1, <2>2 DEF Tells, Exists, Prerequisites
<1>1. CASE \E r \in Request : Handle(r)
  <2>1. PICK r \in Request : Handle(r)
    BY <1>1
  <2>2. PICK h \in Handler : h = request[r] /\ Tells(h)
    BY <2>1, HandleAt, IdleAssumption DEF HandlersTell
  <2>3. Moves(r, h) /\ DocumentsStep /\ \A q \in Request : q # r => request'[q] = request[q]
    BY <2>1, <2>2, HandleMoves, HandleKept DEF StepKept
  <2>4. request'[r] # Idle => Tells(request[r])'
    <3> SUFFICES ASSUME request'[r] # Idle PROVE Tells(request[r])'
      OBVIOUS
    <3>1. PICK k \in Handler : request'[r] = k
      BY <2>3 DEF Moves
    <3>2. Tells(k)'
      BY <2>1, <2>2, <3>1, TellsKept
    <3>3. QED  BY <3>1, <3>2 DEF Tells, Exists
  <2>5. QED  BY <1>a, <2>3, <2>4 DEF HandlersTell
<1>2. CASE \E r \in Request : Ask(r)
  <2>1. PICK r \in Request : Ask(r)
    BY <1>2
  <2>2. PICK d \in Doc, op \in Operation, steps \in Seq(Step), text \in Nat, passes \in BOOLEAN :
          Asked(r, d, op, steps, text, passes)
    BY <2>1, AskSteps DEF Accepted, Types
  <2>3. PICK h \in Handler : h = New(d, op, steps, text, passes)
    BY <2>2, NewFacts DEF Asked
  <2>4. /\ request'[r] = h /\ \A q \in Request : q # r => request'[q] = request[q]
        /\ UNCHANGED documents /\ Entered(d, op, steps)
    BY <1>r, <2>2, <2>3 DEF Asked
  <2>5. Tells(h)'
    <3>1. /\ h.op = op /\ h.doc = d /\ h.untold = DownstreamDocuments(d) \cap Doc
          /\ h.reasons = Unread /\ h.read = documents[d]
      BY <2>3 DEF New
    <3>2. h.read = Absent => \A p \in Prerequisites(d) : Exists(p)
      BY <2>4, <3>1 DEF Entered, Exists, Unlocked, Authoritative
    <3>3. QED  BY <2>4, <3>1, <3>2 DEF Tells, Exists
  <2>6. Tells(request[r])'
    BY <2>4, <2>5 DEF Tells, Exists
  <2>7. QED  BY <1>a, <2>4, <2>6, UnchangedRecords DEF HandlersTell
<1>3. CASE \E r \in Request : Abort(r)
  <2>1. PICK r \in Request : Abort(r)
    BY <1>3
  <2>2. UNCHANGED documents /\ \A q \in Request : request'[q] = request[q] \/ request'[q] = Idle
    BY <1>r, <2>1 DEF Abort, Done
  <2>3. QED  BY <1>a, <2>2, UnchangedRecords DEF HandlersTell
<1>4. CASE \E k \in Kind : SupersedeUpstream(k) \/ InvalidateUpstream(k)
  <2>1. UNCHANGED <<documents, request>>
    BY <1>4 DEF SupersedeUpstream, InvalidateUpstream
  <2>2. QED  BY <1>a, <2>1, UnchangedRecords DEF HandlersTell
<1>5. CASE UNCHANGED vars
  <2>1. UNCHANGED <<documents, request>>
    BY <1>5 DEF vars
  <2>2. QED  BY <1>a, <2>1, UnchangedRecords DEF HandlersTell
<1>6. QED  BY <1>1, <1>2, <1>3, <1>4, <1>5 DEF Next

LEMMA FoundedNext == Types /\ HandlersTell /\ Founded /\ [Next]_vars => Founded'
<1> SUFFICES ASSUME Types, HandlersTell, Founded, [Next]_vars,
                    NEW e \in Doc, documents'[e] # Absent, NEW p \in Prerequisites(e)
             PROVE  documents'[p] # Absent
  BY DEF Founded, Exists, Prerequisites
<1>0. documents \in [Doc -> Record \cup {Absent}] /\ p \in Doc
  BY DEF Types, TypeInv, Prerequisites
<1>1. CASE UNCHANGED documents
  BY <1>1 DEF Founded, Exists
<1>2. CASE \E r \in Request : Handle(r)
  <2>1. PICK r \in Request : Handle(r)
    BY <1>2
  <2>2. PICK h \in Handler : h = request[r] /\ Tells(h) /\ Fits(h) /\ h.doc \in Doc
    BY <2>1, HandleAt, IdleAssumption DEF HandlersTell
  <2>3. DocumentsStep /\ Writes(h)
    BY <2>1, <2>2, HandleKept, HandleWrites DEF StepKept
  <2>4. Exists(p) => documents'[p] # Absent
    BY <1>0, <2>3 DEF DocumentsStep
  <2>5. CASE Exists(e)
    BY <2>4, <2>5 DEF Founded
  <2>6. CASE ~Exists(e)
    <3>1. e = h.doc /\ Now(h) = "create"
      <4>1. CASE /\ Now(h) = "create"
                 /\ documents' = [documents EXCEPT ![h.doc] = Created(h.version, h.against)]
        BY <1>0, <2>2, <2>6, <4>1 DEF Exists
      <4>2. CASE Now(h) \in {"exclude", "commit"}
        <5>1. Exists(h.doc)
          BY <2>2, <4>2, OpOf DEF Fits
        <5>2. PICK y : documents' = documents \/ documents' = [documents EXCEPT ![h.doc] = y]
          BY <2>3, <4>2 DEF Writes
        <5>3. QED  BY <1>0, <2>2, <2>6, <5>1, <5>2 DEF Exists
      <4>3. CASE /\ h.untold # {} /\ h.reasons # Unread
                 /\ documents' = [documents EXCEPT ![NextToTell(h.untold)] = Touched(@, h.reasons)]
        <5>1. Exists(NextToTell(h.untold)) /\ NextToTell(h.untold) \in Doc
          BY <2>2, <4>3, NextFacts DEF Fits
        <5>2. QED  BY <1>0, <2>6, <4>3, <5>1 DEF Exists
      <4>4. QED  BY <2>3, <2>6, <4>1, <4>2, <4>3 DEF Writes, Exists
    <3>2. h.read = Absent
      BY <2>2, <3>1, OpOf
    <3>3. Exists(p)
      BY <2>2, <3>1, <3>2 DEF Tells
    <3>4. QED  BY <2>4, <3>3
  <2>7. QED  BY <2>5, <2>6
<1>3. ASSUME NEW r \in Request, Ask(r) PROVE UNCHANGED documents
  BY <1>3, AskSteps DEF Accepted, Asked, Types
<1>4. QED
  BY <1>1, <1>2, <1>3 DEF Next, vars, Abort, SupersedeUpstream, InvalidateUpstream

\* A handler that is asked while p is withdrawn does not approve what is downstream of it.
LEMMA NobodyApproves ==
    ASSUME Types, HandlersTell, Founded, DependentsWarned, aborts = 0,
           NEW p \in Doc, Withdrawn(p), NEW e \in DownstreamDocuments(p) \cap Doc, Exists(e),
           ~StillTelling(p, e), \A q \in Prerequisites(e) : Exists(q) => Authoritative(q)
    PROVE  FALSE
<1>1. PICK q \in Prerequisites(e) : q = p \/ q \in DownstreamDocuments(p)
  BY ChainAssumption
<1>2. q \in Doc /\ Exists(q) /\ Authoritative(q)
  BY DEF Founded, Prerequisites
<1>3. q # p
  BY <1>2 DEF Withdrawn, Authoritative, IsAuthoritative
<1>4. ~Warned(q)
  BY <1>2 DEF Warned, Authoritative, Reasons
<1>5. StillTelling(p, q)
  BY <1>1, <1>2, <1>3, <1>4 DEF DependentsWarned
<1>6. PICK r \in Request : IsTelling(request[r], p, q)
  BY <1>5 DEF StillTelling
<1>7. Tells(request[r])
  BY <1>6 DEF IsTelling, HandlersTell
<1>8. Earlier(q, e)
  BY PrerequisitesEarlier
<1>9. e \in request[r].untold
  BY <1>6, <1>7, <1>8 DEF IsTelling, Tells
<1>10. QED  BY <1>6, <1>9 DEF IsTelling, StillTelling

LEMMA DependentsWarnedNext ==
    Types /\ Vouches /\ HandlersTell /\ Founded /\ DependentsWarned /\ [Next]_vars
        => DependentsWarned'
<1> SUFFICES ASSUME Types, Vouches, HandlersTell, Founded, DependentsWarned, [Next]_vars,
                    aborts' = 0, NEW p \in Doc, Withdrawn(p)',
                    NEW e \in DownstreamDocuments(p) \cap Doc, Exists(e)', ~StillTelling(p, e)'
             PROVE  Warned(e)'
  BY DEF DependentsWarned
<1>r. request \in [Request -> Handler \cup {Idle}] /\ aborts \in Nat
  BY EngineAssumption DEF Types, TypeInv
<1>1. CASE \E r \in Request : Handle(r)
  <2>1. PICK r \in Request : Handle(r)
    BY <1>1
  <2>2. PICK h \in Handler : h = request[r] /\ Tells(h)
    BY <2>1, HandleAt, IdleAssumption DEF HandlersTell
  <2>3. /\ \A q \in Request : q # r => request'[q] = request[q]
        /\ DocumentsStep /\ Writes(h) /\ aborts = 0
    BY <2>1, <2>2, HandleMoves, HandleKept, HandleWrites DEF StepKept
  <2>4. Withdrawn(p)
    BY <2>1, NewlyWithdrawn
  <2>5. ASSUME \/ ~Exists(e) /\ documents'[e].status = "DRAFT"
               \/ documents'[e].outdated # {} /\ documents'[e] # documents[e]
        PROVE  Warned(e)'
    <3>1. IsAuthoritative(documents'[e].status) => documents'[e].outdated # {}
      BY <2>5 DEF IsAuthoritative
    <3>2. \A q \in Request :
            Approves(request'[q], e) => documents'[e].recordVersion # request'[q].expected
      <4>1. TAKE q \in Request
      <4>2. HAVE Approves(request'[q], e)
      <4>3. /\ request'[q] = request[q] /\ Exists(e)
            /\ request[q].expected <= documents[e].recordVersion
        BY <2>1, <4>2, ApprovesKept
      <4>4. request[q].expected \in Nat /\ documents[e].recordVersion \in Nat
        BY <1>r, <4>2, <4>3, HandlerFacts, RecordFacts DEF Approves, Types, TypeInv, Exists
      <4>5. documents'[e].recordVersion = documents[e].recordVersion + 1
        BY <2>3, <2>5, <4>3 DEF DocumentsStep
      <4>6. QED  BY <4>3, <4>4, <4>5
    <3>3. QED  BY <3>1, <3>2 DEF Warned, Status
  <2>6. CASE ~Exists(e)
    <3>1. documents \in [Doc -> Record \cup {Absent}] /\ documents[e] = Absent /\ documents'[e] # Absent
      BY <2>6 DEF Types, TypeInv, Exists
    <3>2. Fits(h) /\ h.doc \in Doc
      BY <2>1, <2>2, HandleAt
    <3>3. CASE /\ Now(h) = "create"
               /\ documents' = [documents EXCEPT ![h.doc] = Created(h.version, h.against)]
      <4>1. documents'[e] = Created(h.version, h.against)
        BY <3>1, <3>2, <3>3
      <4>2. documents'[e].status = "DRAFT"
        BY <4>1, HandlerFacts, CreatedFacts
      <4>3. QED  BY <2>5, <2>6, <4>2
    <3>4. CASE Now(h) \in {"exclude", "commit"}
      <4>1. Exists(h.doc)
        BY <3>2, <3>4, OpOf DEF Fits
      <4>2. PICK y : documents' = documents \/ documents' = [documents EXCEPT ![h.doc] = y]
        BY <2>3, <3>4 DEF Writes
      <4>3. QED  BY <3>1, <3>2, <4>1, <4>2 DEF Exists
    <3>5. CASE /\ h.untold # {} /\ h.reasons # Unread
               /\ documents' = [documents EXCEPT ![NextToTell(h.untold)] = Touched(@, h.reasons)]
      <4>1. Exists(NextToTell(h.untold)) /\ NextToTell(h.untold) \in Doc
        BY <3>2, <3>5, NextFacts DEF Fits
      <4>2. QED  BY <3>1, <3>5, <4>1 DEF Exists
    <3>6. QED  BY <2>3, <3>1, <3>3, <3>4, <3>5 DEF Writes
  <2>7. CASE Exists(e) /\ StillTelling(p, e)
    <3>1. PICK q \in Request : IsTelling(request[q], p, e)
      BY <2>7 DEF StillTelling
    <3>2. ~IsTelling(request'[q], p, e)
      <4>1. ASSUME IsTelling(request'[q], p, e) PROVE StillTelling(p, e)'
        BY <4>1 DEF StillTelling, IsTelling
      <4>2. QED  BY <4>1
    <3>3. q = r
      BY <2>3, <3>1, <3>2
    <3>4. documents'[e].outdated # {} /\ documents'[e] # documents[e]
      BY <2>1, <2>2, <2>7, <3>1, <3>2, <3>3, TellingKept
    <3>5. QED  BY <2>5, <3>4
  <2>8. CASE Exists(e) /\ ~StillTelling(p, e)
    <3>1. Warned(e)
      BY <2>3, <2>4, <2>8 DEF DependentsWarned
    <3>2. QED  BY <2>1, <2>8, <3>1, WarnedKept
  <2>9. QED  BY <2>6, <2>7, <2>8
<1>2. CASE \E r \in Request : Ask(r)
  <2>1. PICK r \in Request : Ask(r)
    BY <1>2
  <2>2. PICK d \in Doc, op \in Operation, steps \in Seq(Step), text \in Nat, passes \in BOOLEAN :
          Asked(r, d, op, steps, text, passes)
    BY <2>1, AskSteps DEF Accepted, Types
  <2>3. PICK h \in Handler : h = New(d, op, steps, text, passes)
    BY <2>2, NewFacts DEF Asked
  <2>4. /\ request'[r] = h /\ \A q \in Request : q # r => request'[q] = request[q]
        /\ UNCHANGED <<documents, aborts>> /\ Entered(d, op, steps) /\ request[r] = Idle
    BY <1>r, <2>2, <2>3 DEF Asked, Free
  <2>5. Withdrawn(p) /\ Exists(e) /\ aborts = 0
    BY <2>4 DEF Withdrawn, Exists, Status
  <2>6. ~StillTelling(p, e)
    <3> SUFFICES ASSUME NEW q \in Request, IsTelling(request[q], p, e) PROVE FALSE
      BY DEF StillTelling
    <3>1. q # r
      BY <2>4 DEF IsTelling
    <3>2. IsTelling(request'[q], p, e)
      BY <2>4, <3>1
    <3>3. QED  BY <3>2 DEF StillTelling, IsTelling
  <2>7. Warned(e)
    BY <2>5, <2>6 DEF DependentsWarned
  <2>8. ~Approves(h, e)
    <3> SUFFICES ASSUME Approves(h, e) PROVE FALSE
      OBVIOUS
    <3>1. op = "approve" /\ d = e
      BY <2>3 DEF New, Approves
    <3>2. \A q \in Prerequisites(e) : Exists(q) => Authoritative(q)
      BY <2>4, <3>1 DEF Entered, Checked
    <3>3. QED  BY <2>5, <2>6, <3>2, NobodyApproves
  <2>9. \A q \in Request :
          Approves(request'[q], e) => documents'[e].recordVersion # request'[q].expected
    BY <2>4, <2>7, <2>8 DEF Warned
  <2>10. QED  BY <2>4, <2>7, <2>9 DEF Warned, Status
<1>3. ASSUME UNCHANGED <<documents, request, aborts>> PROVE Warned(e)'
  <2>1. Withdrawn(p) /\ Exists(e) /\ aborts = 0
    BY <1>3 DEF Withdrawn, Exists, Status
  <2>2. ~StillTelling(p, e)
    BY <1>3 DEF StillTelling, IsTelling
  <2>3. Warned(e)
    BY <2>1, <2>2 DEF DependentsWarned
  <2>4. QED  BY <1>3, <2>3 DEF Warned, Status, Approves
<1>4. CASE \E r \in Request : Abort(r)
  BY <1>r, <1>4 DEF Abort
<1>5. CASE \E k \in Kind : SupersedeUpstream(k) \/ InvalidateUpstream(k)
  BY <1>3, <1>5 DEF SupersedeUpstream, InvalidateUpstream
<1>6. CASE UNCHANGED vars
  BY <1>3, <1>6 DEF vars
<1>7. QED  BY <1>1, <1>2, <1>4, <1>5, <1>6 DEF Next

LEMMA WarningsHold == Spec => [](Types /\ Vouches /\ HandlersTell /\ Founded /\ DependentsWarned)
<1>1. Init => HandlersTell /\ Founded /\ DependentsWarned
  BY DEF Init, HandlersTell, Founded, DependentsWarned, Withdrawn, Exists
<1>2. Init => Vouches
  BY DEF Init, Vouches
<1>3. QED
  BY <1>1, <1>2, TypesInit, TypesNext, VouchesNext, HandlersTellNext, FoundedNext,
     DependentsWarnedNext, PTL DEF Spec

\* WithdrawnIsTold, for every instance: unless a handler was cut short, nobody downstream
\* of a reopened document is approved and current once it was told, whatever approvals
\* and generations raced with the telling.
THEOREM WithdrawalsAreTold == Spec => []WithdrawnIsTold
<1>1. DependentsWarned => WithdrawnIsTold
  <2> SUFFICES ASSUME DependentsWarned, aborts = 0, NEW p \in Doc, Withdrawn(p), ~Busy(p),
                      NEW d \in DownstreamDocuments(p) \cap Doc, Authoritative(d)
               PROVE  FALSE
    BY DEF WithdrawnIsTold, Withdrawn
  <2>1. ~StillTelling(p, d)
    BY DEF StillTelling, IsTelling, Busy
  <2>2. Warned(d)
    BY <2>1 DEF DependentsWarned, Authoritative
  <2>3. QED  BY <2>2 DEF Warned, Authoritative, Reasons
<1>2. QED  BY <1>1, WarningsHold, PTL

=============================================================================
