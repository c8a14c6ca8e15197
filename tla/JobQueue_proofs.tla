--------------------------- MODULE JobQueue_proofs ---------------------------
(***************************************************************************)
(* What JobQueue guarantees for every number of workers, jobs, attempts    *)
(* and failures.                                                           *)
(***************************************************************************)
EXTENDS JobQueue, TLAPS

Claim == [job : Job, claim : Nat]

\* A worker's claim is one the document has already counted.
ClaimsCounted ==
    \A w \in Worker : \A j \in Job :
        Holds(w, j) =>
            /\ jobs[j] # Unborn
            /\ Live(j) => holding[w].claim <= jobs[j].attempts

Budget == MaxAttempts + crashes + slips + operatorRetries

\* While no claim has timed out over a living worker, a holder is alone with its
\* job, what fail read is still true when it writes, only an abandoned claim goes
\* stale ...
Owned(j) ==
    \A w \in Worker :
        Holds(w, j) =>
            /\ jobs[j].state = "running" /\ jobs[j].claimedBy = w /\ ~jobs[j].stale
            /\ holding[w].claim = jobs[j].attempts
            /\ failRead[w] \in {NotRead, jobs[j].attempts}

\* ... and a job that has yet to be claimed again has an attempt left.
Idle(j) ==
    \/ jobs[j].state = "queued"
    \/ jobs[j].state = "running" /\ \A w \in Worker : ~Holds(w, j)

WithinBudget(j) ==
    /\ jobs[j].attempts <= Budget
    /\ Idle(j) => jobs[j].attempts < Budget

Undisturbed == \A j \in Job : Live(j) => Owned(j) /\ WithinBudget(j)

IInv == TypeInv /\ ClaimsCounted /\ UniqueClaims /\ (slips = 0 => Undisturbed)

-----------------------------------------------------------------------------
LEMMA DocumentFacts ==
    ASSUME NEW d \in Document
    PROVE  /\ \A w \in Worker : Claimed(d, w) \in Document
           /\ Progressed(d) \in Document
           /\ \A s \in JobState : Released(d, s) \in Document
           /\ Retried(d) \in Document
           /\ CancellationRequested(d) \in Document
           /\ \A n, r : Failed(d, Disposition(n, r)) \in Document
           /\ NewDocument \in Document
  <1>1. \A w \in Worker : Claimed(d, w) \in Document
    <2> SUFFICES ASSUME NEW w \in Worker PROVE Claimed(d, w) \in Document
      OBVIOUS
    <2> DEFINE e == [d EXCEPT !.state = "running", !.claimedBy = w, !.stale = FALSE]
    <2>1. e \in Document /\ e.attempts = d.attempts
      BY DEF Document, JobState
    <2>2. d.attempts + 1 \in Nat
      BY DEF Document
    <2>3. [e EXCEPT !.attempts = d.attempts + 1] \in Document
      <3> HIDE DEF e
      <3> QED  BY <2>1, <2>2 DEF Document
    <2>4. Claimed(d, w) = [e EXCEPT !.attempts = d.attempts + 1]
      BY DEF Document, Claimed
    <2>5. QED  BY <2>3, <2>4
  <1>2. Progressed(d) \in Document
    BY DEF Document, Progressed
  <1>3. \A s \in JobState : Released(d, s) \in Document
    BY DEF Document, Released
  <1>4. Retried(d) \in Document
    <2>1. Released(d, "queued") \in Document
      BY <1>3 DEF JobState
    <2>2. QED  BY <2>1 DEF Document, Retried
  <1>5. CancellationRequested(d) \in Document
    BY DEF Document, CancellationRequested
  <1>6. ASSUME NEW n, NEW r
        PROVE  Failed(d, Disposition(n, r)) \in Document
    <2>1. Disposition(n, r) \in {"queued", "failed", "dead_letter"}
      BY DEF Disposition
    <2>2. Released(d, Disposition(n, r)) \in Document
      BY <1>3, <2>1 DEF JobState
    <2>3. Released(d, "queued") \in Document
      BY <1>3 DEF JobState
    <2>4. [Released(d, "queued") EXCEPT !.due = FALSE] \in Document
      BY <2>3 DEF Document
    <2>5. QED  BY <2>2, <2>4 DEF Failed
  <1>7. NewDocument \in Document
    BY DEF Document, NewDocument, JobState
  <1>8. QED  BY <1>1, <1>2, <1>3, <1>4, <1>5, <1>6, <1>7

LEMMA LiveIsDocument ==
    ASSUME TypeInv, NEW j \in Job
    PROVE  Live(j) <=> jobs[j] \in Document
  BY SentinelAssumption DEF TypeInv, Live

LEMMA HeldJob ==
    ASSUME TypeInv, NEW w \in Worker, holding[w] # NoClaim
    PROVE  holding[w] \in Claim /\ holding[w].job \in Job /\ holding[w].claim \in Nat
  BY DEF TypeInv, Claim

\* An update by a worker touches at most the one document it holds.
LEMMA WriteFacts ==
    ASSUME TypeInv, NEW w \in Worker, holding[w] # NoClaim, NEW d,
           Live(holding[w].job) => d \in Document, Write(w, d)
    PROVE  /\ jobs' \in [Job -> Document \cup {Unborn, Removed}]
           /\ \A j \in Job : j # holding[w].job => jobs'[j] = jobs[j]
           /\ Live(holding[w].job) => jobs'[holding[w].job] = d
           /\ ~Live(holding[w].job) => jobs' = jobs
  BY HeldJob DEF Write, TypeInv

LEMMA LetGoFacts ==
    ASSUME TypeInv, NEW w \in Worker, LetGo(w)
    PROVE  /\ holding' \in [Worker -> Claim \cup {NoClaim}]
           /\ holding'[w] = NoClaim
           /\ \A v \in Worker : v # w => holding'[v] = holding[v]
  BY DEF LetGo, TypeInv, Claim

-----------------------------------------------------------------------------
(* Types *)

LEMMA TypeInvInit == Init => TypeInv
  BY BudgetAssumption DEF Init, TypeInv

LEMMA TypeInvNext == TypeInv /\ [Next]_vars => TypeInv'
<1> SUFFICES ASSUME TypeInv, [Next]_vars PROVE TypeInv'
  OBVIOUS
<1>1. ASSUME NEW w \in Worker, NEW j \in Job, ClaimNext(w, j) PROVE TypeInv'
  <2>1. Live(j) /\ jobs[j] \in Document
    BY <1>1, LiveIsDocument DEF ClaimNext
  <2>2. Claimed(jobs[j], w) \in Document
    BY <2>1, DocumentFacts
  <2>3. jobs[j].attempts + 1 \in Nat
    BY <2>1 DEF Document
  <2>4. QED  BY <1>1, <2>2, <2>3 DEF ClaimNext, TypeInv, budgets
<1>2. ASSUME NEW w \in Worker, ReportProgress(w) PROVE TypeInv'
  <2>1. Live(holding[w].job) => Progressed(jobs[holding[w].job]) \in Document
    BY <1>2, HeldJob, LiveIsDocument, DocumentFacts DEF ReportProgress
  <2>2. jobs' \in [Job -> Document \cup {Unborn, Removed}]
    BY <1>2, <2>1, WriteFacts DEF ReportProgress
  <2>3. QED  BY <1>2, <2>2 DEF ReportProgress, TypeInv, budgets
<1>3. ASSUME NEW w \in Worker, Complete(w) PROVE TypeInv'
  <2>1. Live(holding[w].job) => Completed(jobs[holding[w].job]) \in Document
    BY <1>3, HeldJob, LiveIsDocument, DocumentFacts DEF Complete, Completed, JobState
  <2>2. jobs' \in [Job -> Document \cup {Unborn, Removed}]
    BY <1>3, <2>1, WriteFacts DEF Complete
  <2>3. QED  BY <1>3, <2>2, LetGoFacts DEF Complete, TypeInv, budgets, Claim
<1>4. ASSUME NEW w \in Worker, Cancel(w) PROVE TypeInv'
  <2>1. Live(holding[w].job) => Cancelled(jobs[holding[w].job]) \in Document
    BY <1>4, HeldJob, LiveIsDocument, DocumentFacts DEF Cancel, Cancelled, JobState
  <2>2. jobs' \in [Job -> Document \cup {Unborn, Removed}]
    BY <1>4, <2>1, WriteFacts DEF Cancel
  <2>3. QED  BY <1>4, <2>2, LetGoFacts DEF Cancel, TypeInv, budgets, Claim
<1>5. ASSUME NEW w \in Worker, FailRead(w) PROVE TypeInv'
  <2>1. CASE Live(holding[w].job)
    <3>1. jobs[holding[w].job].attempts \in Nat
      BY <1>5, <2>1, HeldJob, LiveIsDocument DEF FailRead, Document
    <3>2. QED  BY <1>5, <2>1, <3>1 DEF FailRead, TypeInv, budgets
  <2>2. CASE ~Live(holding[w].job)
    BY <1>5, <2>2, LetGoFacts DEF FailRead, TypeInv, budgets, Claim
  <2>3. QED  BY <2>1, <2>2
<1>6. ASSUME NEW w \in Worker, NEW r \in BOOLEAN, FailWrite(w, r) PROVE TypeInv'
  <2> DEFINE d == Failed(jobs[holding[w].job], Disposition(failRead[w], r))
  <2>1. holding[w] # NoClaim
    BY <1>6 DEF FailWrite, TypeInv
  <2>2. Live(holding[w].job) => d \in Document
    BY <2>1, HeldJob, LiveIsDocument, DocumentFacts
  <2>3. jobs' \in [Job -> Document \cup {Unborn, Removed}]
    BY <1>6, <2>1, <2>2, WriteFacts DEF FailWrite
  <2>4. QED  BY <1>6, <2>3, LetGoFacts DEF FailWrite, TypeInv, budgets, Claim
<1>7. ASSUME NEW w \in Worker, WorkerDies(w) PROVE TypeInv'
  BY <1>7, LetGoFacts, BudgetAssumption DEF WorkerDies, TypeInv, Claim
<1>8. ASSUME NEW j \in Job, Enqueue(j) PROVE TypeInv'
  <2>1. NewDocument \in Document
    BY DEF Document, NewDocument, JobState
  <2>2. QED  BY <1>8, <2>1 DEF Enqueue, TypeInv, budgets
<1>9. ASSUME NEW j \in Job, RequestCancellation(j) PROVE TypeInv'
  BY <1>9, LiveIsDocument, DocumentFacts DEF RequestCancellation, TypeInv, budgets
<1>10. ASSUME NEW j \in Job, OperatorRetry(j) PROVE TypeInv'
  BY <1>10, LiveIsDocument, DocumentFacts, BudgetAssumption DEF OperatorRetry, TypeInv
<1>11. ASSUME NEW j \in Job, Remove(j) PROVE TypeInv'
  BY <1>11 DEF Remove, TypeInv, budgets
<1>12. ASSUME NEW j \in Job, ClaimExpires(j) \/ ClaimSlips(j) PROVE TypeInv'
  <2>1. [jobs[j] EXCEPT !.stale = TRUE] \in Document
    BY <1>12, LiveIsDocument DEF ClaimExpires, ClaimSlips, Expire, Document
  <2>2. slips' \in 0..MaxSlips
    BY <1>12, BudgetAssumption DEF ClaimExpires, ClaimSlips, TypeInv
  <2>3. QED
    BY <1>12, <2>1, <2>2 DEF ClaimExpires, ClaimSlips, Expire, TypeInv
<1>13. ASSUME NEW j \in Job, BackoffEnds(j) PROVE TypeInv'
  <2>1. [jobs[j] EXCEPT !.due = TRUE] \in Document
    BY <1>13, LiveIsDocument DEF BackoffEnds, Document
  <2>2. QED  BY <1>13, <2>1 DEF BackoffEnds, TypeInv, budgets
<1>14. ASSUME NEW w \in Worker, NEW j \in Job, LateProgress(w, j) \/ RunawayEnds(w, j)
       PROVE  TypeInv'
  BY <1>14, LiveIsDocument, DocumentFacts DEF LateProgress, RunawayEnds, TypeInv, budgets
<1>15. CASE UNCHANGED vars
  BY <1>15 DEF vars, TypeInv
<1>16. QED
  BY <1>1, <1>2, <1>3, <1>4, <1>5, <1>6, <1>7, <1>8, <1>9, <1>10, <1>11, <1>12, <1>13, <1>14, <1>15
     DEF Next, WorkerStep, JobStep, Settle

\* Every document, claim and counter keeps its type: the states the adapter
\* writes are job states, and a worker inside fail holds the job it is failing.
THEOREM TypeCorrect == Spec => []TypeInv
  BY TypeInvInit, TypeInvNext, PTL DEF Spec

-----------------------------------------------------------------------------
(* Claims *)

\* A document is never undone: it is not inserted twice, a removed one stays
\* removed, and its attempts only grow.
Monotone ==
    \A j \in Job :
        jobs[j] # Unborn =>
            /\ jobs'[j] # Unborn
            /\ Live(j)' => Live(j) /\ jobs[j].attempts <= jobs'[j].attempts

\* e is d rewritten without another attempt being counted.
Keeps(d, e) == e \in Document /\ e.attempts = d.attempts

LEMMA WritesKeep ==
    ASSUME NEW d \in Document
    PROVE  /\ Keeps(d, Progressed(d))
           /\ Keeps(d, Completed(d))
           /\ Keeps(d, Cancelled(d))
           /\ Keeps(d, Retried(d))
           /\ Keeps(d, CancellationRequested(d))
           /\ Keeps(d, [d EXCEPT !.stale = TRUE])
           /\ Keeps(d, [d EXCEPT !.due = TRUE])
           /\ \A n, r : Keeps(d, Failed(d, Disposition(n, r)))
  <1>1. \A s \in JobState : Keeps(d, Released(d, s))
    BY DocumentFacts DEF Keeps, Document, Released
  <1>2. Keeps(d, Completed(d)) /\ Keeps(d, Cancelled(d))
    BY <1>1 DEF Completed, Cancelled, JobState
  <1>3. Keeps(d, Progressed(d))
    BY DEF Keeps, Document, Progressed
  <1>4. Keeps(d, Retried(d))
    BY DocumentFacts DEF Keeps, Document, Released, Retried
  <1>5. Keeps(d, CancellationRequested(d))
    BY DEF Keeps, Document, CancellationRequested
  <1>6. Keeps(d, [d EXCEPT !.stale = TRUE]) /\ Keeps(d, [d EXCEPT !.due = TRUE])
    BY DEF Keeps, Document
  <1>7. ASSUME NEW n, NEW r PROVE Keeps(d, Failed(d, Disposition(n, r)))
    <2>1. [Released(d, "queued") EXCEPT !.due = FALSE].attempts = d.attempts
      BY DEF Document, Released
    <2>2. Released(d, Disposition(n, r)).attempts = d.attempts
      BY DEF Document, Released
    <2>3. Failed(d, Disposition(n, r)).attempts = d.attempts
      BY <2>1, <2>2 DEF Failed
    <2>4. QED  BY <2>3, DocumentFacts DEF Keeps
  <1>8. QED  BY <1>2, <1>3, <1>4, <1>5, <1>6, <1>7

LEMMA WriteMonotone ==
    ASSUME TypeInv, NEW w \in Worker, holding[w] # NoClaim, NEW d,
           Live(holding[w].job) => Keeps(jobs[holding[w].job], d),
           Write(w, d)
    PROVE  Monotone
  <1>1. holding[w].job \in Job
    BY HeldJob
  <1>2. ASSUME NEW j \in Job, jobs[j] # Unborn, j = holding[w].job
        PROVE  jobs'[j] # Unborn /\ (Live(j)' => Live(j) /\ jobs[j].attempts <= jobs'[j].attempts)
    BY <1>1, <1>2, WriteFacts, LiveIsDocument, SentinelAssumption DEF Live, Document, Keeps
  <1>3. ASSUME NEW j \in Job, jobs[j] # Unborn, j # holding[w].job
        PROVE  jobs'[j] # Unborn /\ (Live(j)' => Live(j) /\ jobs[j].attempts <= jobs'[j].attempts)
    BY <1>3, WriteFacts, LiveIsDocument DEF Live, Document, Keeps
  <1>4. QED  BY <1>2, <1>3 DEF Monotone

\* An update of one live document from outside the workers' writes.
LEMMA UpdateMonotone ==
    ASSUME TypeInv, NEW j \in Job, Live(j), NEW d \in Document,
           jobs[j].attempts <= d.attempts, jobs' = [jobs EXCEPT ![j] = d]
    PROVE  Monotone
  BY LiveIsDocument, SentinelAssumption DEF Monotone, Live, TypeInv, Document

LEMMA RewriteMonotone ==
    ASSUME TypeInv, NEW j \in Job, Live(j), NEW d, Keeps(jobs[j], d),
           jobs' = [jobs EXCEPT ![j] = d]
    PROVE  Monotone
  <1>1. jobs[j] \in Document /\ d \in Document
    BY LiveIsDocument DEF Keeps
  <1>2. jobs[j].attempts <= d.attempts
    BY <1>1 DEF Keeps, Document
  <1>3. QED  BY <1>1, <1>2, UpdateMonotone

LEMMA StepMonotone == TypeInv /\ [Next]_vars => Monotone
<1> SUFFICES ASSUME TypeInv, [Next]_vars PROVE Monotone
  OBVIOUS
<1>1. ASSUME UNCHANGED jobs PROVE Monotone
  BY <1>1, LiveIsDocument DEF Monotone, Live, Document
<1>2. ASSUME NEW w \in Worker, NEW j \in Job, ClaimNext(w, j) PROVE Monotone
  <2>1. Live(j) /\ jobs[j] \in Document
    BY <1>2, LiveIsDocument DEF ClaimNext
  <2>2. Claimed(jobs[j], w) \in Document
    BY <2>1, DocumentFacts
  <2>3. jobs[j].attempts <= Claimed(jobs[j], w).attempts
    BY <2>1 DEF Document, Claimed
  <2>4. QED  BY <1>2, <2>1, <2>2, <2>3, UpdateMonotone DEF ClaimNext
<1>3. ASSUME NEW w \in Worker, ReportProgress(w) \/ Complete(w) \/ Cancel(w) PROVE Monotone
  <2>1. Live(holding[w].job) => jobs[holding[w].job] \in Document
    BY <1>3, HeldJob, LiveIsDocument DEF ReportProgress, Complete, Cancel
  <2>2. QED
    BY <1>3, <2>1, WritesKeep, WriteMonotone DEF ReportProgress, Complete, Cancel
<1>4. ASSUME NEW w \in Worker,
             FailRead(w) \/ WorkerDies(w) \/ \E j \in Job : RunawayEnds(w, j)
      PROVE  Monotone
  BY <1>1, <1>4 DEF FailRead, WorkerDies, RunawayEnds
<1>5. ASSUME NEW w \in Worker, NEW r \in BOOLEAN, FailWrite(w, r) PROVE Monotone
  <2>1. holding[w] # NoClaim
    BY <1>5 DEF FailWrite, TypeInv
  <2>2. Live(holding[w].job) => jobs[holding[w].job] \in Document
    BY <2>1, HeldJob, LiveIsDocument
  <2>3. QED  BY <1>5, <2>1, <2>2, WritesKeep, WriteMonotone DEF FailWrite
<1>6. ASSUME NEW j \in Job, Enqueue(j) PROVE Monotone
  BY <1>6, LiveIsDocument DEF Enqueue, Monotone, Live, TypeInv, Document
<1>7. ASSUME NEW j \in Job, RequestCancellation(j) \/ OperatorRetry(j) PROVE Monotone
  <2>1. Live(j) /\ jobs[j] \in Document
    BY <1>7, LiveIsDocument DEF RequestCancellation, OperatorRetry
  <2>2. QED
    BY <1>7, <2>1, WritesKeep, RewriteMonotone DEF RequestCancellation, OperatorRetry
<1>8. ASSUME NEW j \in Job, Remove(j) PROVE Monotone
  BY <1>8, LiveIsDocument, SentinelAssumption DEF Remove, Monotone, Live, TypeInv, Document
<1>9. ASSUME NEW j \in Job, ClaimExpires(j) \/ ClaimSlips(j) \/ BackoffEnds(j) PROVE Monotone
  <2>1. Live(j) /\ jobs[j] \in Document
    BY <1>9, LiveIsDocument DEF ClaimExpires, ClaimSlips, BackoffEnds, Expire
  <2>2. QED
    BY <1>9, <2>1, WritesKeep, RewriteMonotone DEF ClaimExpires, ClaimSlips, BackoffEnds, Expire
<1>10. ASSUME NEW w \in Worker, NEW j \in Job, LateProgress(w, j) PROVE Monotone
  <2>1. Live(j) /\ jobs[j] \in Document
    BY <1>10, LiveIsDocument DEF LateProgress
  <2>2. QED  BY <1>10, <2>1, WritesKeep, RewriteMonotone DEF LateProgress
<1>11. QED
  BY <1>1, <1>2, <1>3, <1>4, <1>5, <1>6, <1>7, <1>8, <1>9, <1>10
     DEF Next, WorkerStep, JobStep, Settle, vars

LEMMA ClaimsInit == Init => ClaimsCounted /\ UniqueClaims
  BY DEF Init, ClaimsCounted, UniqueClaims, Holds

LEMMA ClaimsNext ==
    TypeInv /\ ClaimsCounted /\ UniqueClaims /\ [Next]_vars
        => ClaimsCounted' /\ UniqueClaims'
<1> SUFFICES ASSUME TypeInv, ClaimsCounted, UniqueClaims, [Next]_vars
             PROVE  ClaimsCounted' /\ UniqueClaims'
  OBVIOUS
<1>0. Monotone /\ TypeInv'
  BY StepMonotone, TypeInvNext
\* Claims only disappear, in every step but a claim.
<1>1. ASSUME \A w \in Worker : holding'[w] \in {holding[w], NoClaim}
      PROVE  ClaimsCounted' /\ UniqueClaims'
  <2>1. ASSUME NEW w \in Worker, NEW j \in Job, Holds(w, j)'
        PROVE  jobs'[j] # Unborn /\ (Live(j)' => holding'[w].claim <= jobs'[j].attempts)
    <3>1. holding'[w] = holding[w] /\ Holds(w, j) /\ holding[w] # NoClaim
      BY <1>1, <2>1 DEF Holds
    <3>2. jobs[j] # Unborn /\ (Live(j) => holding[w].claim <= jobs[j].attempts)
      BY <3>1 DEF ClaimsCounted
    <3>3. jobs'[j] # Unborn /\ (Live(j)' => Live(j) /\ jobs[j].attempts <= jobs'[j].attempts)
      BY <1>0, <3>2 DEF Monotone
    <3>4. Live(j)' => jobs[j].attempts \in Nat /\ jobs'[j].attempts \in Nat
      BY <3>3, <1>0 DEF TypeInv, Live, Document
    <3>5. holding[w].claim \in Nat
      BY <3>1, HeldJob
    <3>6. QED  BY <3>1, <3>2, <3>3, <3>4, <3>5
  <2>2. UniqueClaims'
    BY <1>1 DEF UniqueClaims
  <2>3. QED  BY <2>1, <2>2 DEF ClaimsCounted
<1>2. ASSUME NEW w \in Worker, NEW j \in Job, ClaimNext(w, j)
      PROVE  ClaimsCounted' /\ UniqueClaims'
  <2> DEFINE new == [job |-> j, claim |-> jobs[j].attempts + 1]
  <2>1. /\ Live(j) /\ jobs[j] \in Document /\ jobs[j].attempts \in Nat
        /\ jobs'[j] = Claimed(jobs[j], w)
        /\ \A i \in Job : i # j => jobs'[i] = jobs[i]
    BY <1>2, LiveIsDocument DEF ClaimNext, TypeInv, Document
  <2>2. jobs'[j].attempts = jobs[j].attempts + 1
    BY <2>1 DEF Document, Claimed
  <2>3. holding'[w] = new /\ \A v \in Worker : v # w => holding'[v] = holding[v]
    BY <1>2 DEF ClaimNext, TypeInv
  <2>4. ASSUME NEW v \in Worker, v # w, holding[v] # NoClaim PROVE holding[v] # new
    <3>1. SUFFICES ASSUME Holds(v, j) PROVE holding[v].claim # jobs[j].attempts + 1
      BY <2>4 DEF Holds
    <3>2. holding[v].claim <= jobs[j].attempts /\ holding[v].claim \in Nat
      BY <2>1, <2>4, <3>1, HeldJob DEF ClaimsCounted
    <3>3. QED  BY <2>1, <3>2
  <2>5. UniqueClaims'
    BY <2>3, <2>4 DEF UniqueClaims
  <2>6. ASSUME NEW v \in Worker, NEW i \in Job, Holds(v, i)'
        PROVE  jobs'[i] # Unborn /\ (Live(i)' => holding'[v].claim <= jobs'[i].attempts)
    <3>1. CASE v = w
      <4>1. i = j
        BY <2>3, <2>6, <3>1 DEF Holds
      <4>2. jobs'[j] \in Document
        BY <2>1, DocumentFacts
      <4>3. QED  BY <2>1, <2>2, <2>3, <3>1, <4>1, <4>2, SentinelAssumption
    <3>2. CASE v # w
      <4>1. holding'[v] = holding[v] /\ Holds(v, i) /\ holding[v] # NoClaim
        BY <2>3, <2>6, <3>2 DEF Holds
      <4>2. jobs[i] # Unborn /\ (Live(i) => holding[v].claim <= jobs[i].attempts)
        BY <4>1 DEF ClaimsCounted
      <4>3. jobs'[i] # Unborn /\ (Live(i)' => Live(i) /\ jobs[i].attempts <= jobs'[i].attempts)
        BY <1>0, <4>2 DEF Monotone
      <4>4. Live(i)' => jobs[i].attempts \in Nat /\ jobs'[i].attempts \in Nat
        BY <4>3, <1>0 DEF TypeInv, Live, Document
      <4>5. holding[v].claim \in Nat
        BY <4>1, HeldJob
      <4>6. QED  BY <4>1, <4>2, <4>3, <4>4, <4>5
    <3>3. QED  BY <3>1, <3>2
  <2>7. QED  BY <2>5, <2>6 DEF ClaimsCounted
<1>3. ASSUME NEW w \in Worker,
             \/ ReportProgress(w) \/ Settle(w) \/ WorkerDies(w)
             \/ \E j \in Job : LateProgress(w, j) \/ RunawayEnds(w, j)
      PROVE  \A v \in Worker : holding'[v] \in {holding[v], NoClaim}
  BY <1>3 DEF ReportProgress, Settle, Complete, Cancel, FailRead, FailWrite, WorkerDies,
              LateProgress, RunawayEnds, LetGo, TypeInv
<1>4. ASSUME NEW j \in Job, JobStep(j) PROVE holding' = holding
  BY <1>4 DEF JobStep, Enqueue, RequestCancellation, OperatorRetry, Remove, ClaimExpires,
              ClaimSlips, Expire, BackoffEnds
<1>5. CASE UNCHANGED vars
  BY <1>1, <1>5 DEF vars
<1>6. QED  BY <1>1, <1>2, <1>3, <1>4, <1>5 DEF Next, WorkerStep

\* No two workers ever work under the same claim, however many of them lose
\* their job to the claim timeout without noticing (claimNext).
THEOREM ClaimsAreUnique == Spec => []UniqueClaims
<1>1. Init => TypeInv /\ ClaimsCounted /\ UniqueClaims
  BY TypeInvInit, ClaimsInit
<1>2. TypeInv /\ ClaimsCounted /\ UniqueClaims /\ [Next]_vars
        => (TypeInv /\ ClaimsCounted /\ UniqueClaims)'
  BY TypeInvNext, ClaimsNext
<1>3. QED  BY <1>1, <1>2, PTL DEF Spec

-----------------------------------------------------------------------------
(* Keys *)

LEMMA OnePerKeyNext == TypeInv /\ OnePerKey /\ [Next]_vars => OnePerKey'
<1> SUFFICES ASSUME TypeInv, OnePerKey, [Next]_vars PROVE OnePerKey'
  OBVIOUS
<1>1. ASSUME NEW j \in Job, Enqueue(j) PROVE OnePerKey'
  BY <1>1 DEF Enqueue, OnePerKey, Live, TypeInv
\* Every other step leaves what is live live, at most.
<1>2. ASSUME \A j \in Job : Live(j)' => Live(j) PROVE OnePerKey'
  BY <1>2 DEF OnePerKey
<1>3. ASSUME NEW j \in Job, ~Enqueue(j), JobStep(j) PROVE \A i \in Job : Live(i)' => Live(i)
  BY <1>3 DEF JobStep, RequestCancellation, OperatorRetry, Remove, ClaimExpires,
              ClaimSlips, Expire, BackoffEnds, Live, TypeInv
<1>4. ASSUME NEW w \in Worker, WorkerStep(w) PROVE \A i \in Job : Live(i)' => Live(i)
  <2>1. ASSUME holding[w] # NoClaim, NEW d, Write(w, d)
        PROVE  \A i \in Job : Live(i)' => Live(i)
    BY <2>1, HeldJob DEF Write, Live, TypeInv
  <2>2. QED
    BY <1>4, <2>1 DEF WorkerStep, ClaimNext, ReportProgress, Settle, Complete, Cancel,
       FailRead, FailWrite, WorkerDies, LateProgress, RunawayEnds, Live, TypeInv
<1>5. CASE UNCHANGED vars
  BY <1>5 DEF vars, OnePerKey, Live
<1>6. QED  BY <1>1, <1>2, <1>3, <1>4, <1>5 DEF Next

\* An idempotency key never has two documents, across purges (enqueue).
THEOREM KeysAreIdempotent == Spec => []OnePerKey
<1>1. Init => OnePerKey
  BY DEF Init, OnePerKey, Live
<1>2. QED  BY <1>1, TypeInvInit, TypeInvNext, OnePerKeyNext, PTL DEF Spec

-----------------------------------------------------------------------------
(* The queue while no living worker loses its claim *)

LEMMA BudgetIsNat ==
    TypeInv => /\ Budget \in Nat /\ MaxAttempts <= Budget
               /\ crashes \in Nat /\ slips \in Nat /\ operatorRetries \in Nat
  <1>1. TypeInv => crashes \in Nat /\ slips \in Nat /\ operatorRetries \in Nat
    BY BudgetAssumption DEF TypeInv
  <1>2. MaxAttempts \in Nat
    BY MaxAttemptsAssumption
  <1>3. QED  BY <1>1, <1>2 DEF Budget

LEMMA BudgetStaysNat ==
    TypeInv' => Budget' \in Nat /\ crashes' \in Nat /\ slips' \in Nat
  <1>1. TypeInv' => crashes' \in Nat /\ slips' \in Nat /\ operatorRetries' \in Nat
    BY BudgetAssumption DEF TypeInv
  <1>2. MaxAttempts \in Nat
    BY MaxAttemptsAssumption
  <1>3. QED  BY <1>1, <1>2 DEF Budget

LEMMA UndisturbedInit == Init => Undisturbed
  BY DEF Init, Undisturbed, Live

\* A job no step touches stays as it was: its document, its holders, and a
\* budget that only grows.
LEMMA Elsewhere ==
    ASSUME TypeInv, TypeInv', Undisturbed, NEW j \in Job, jobs'[j] = jobs[j],
           Budget <= Budget',
           \A w \in Worker : Holds(w, j) <=> Holds(w, j)',
           \A w \in Worker :
               Holds(w, j) => holding'[w] = holding[w] /\ failRead'[w] = failRead[w]
    PROVE  Live(j)' => Owned(j)' /\ WithinBudget(j)'
  <1> SUFFICES ASSUME Live(j)' PROVE Owned(j)' /\ WithinBudget(j)'
    OBVIOUS
  <1>1. Live(j) /\ jobs[j] \in Document
    BY LiveIsDocument DEF Live
  <1>2. Owned(j) /\ WithinBudget(j)
    BY <1>1 DEF Undisturbed
  <1>3. Owned(j)'
    BY <1>2 DEF Owned
  <1>4. jobs[j].attempts \in Nat
    BY <1>1 DEF Document
  <1>0. Budget \in Nat /\ Budget' \in Nat
    BY BudgetIsNat, BudgetStaysNat
  <1>5. Idle(j)' => Idle(j)
    BY DEF Idle
  <1>6. WithinBudget(j)'
    BY <1>0, <1>2, <1>4, <1>5 DEF WithinBudget
  <1>7. QED  BY <1>3, <1>6

\* The same, for a document rewritten in place with its state, owner and attempts.
LEMMA InPlace ==
    ASSUME TypeInv, TypeInv', Undisturbed, NEW j \in Job, Live(j),
           NEW d, Keeps(jobs[j], d), d.state = jobs[j].state,
           d.claimedBy = jobs[j].claimedBy,
           d.stale => jobs[j].stale \/ \A w \in Worker : ~Holds(w, j),
           jobs' = [jobs EXCEPT ![j] = d], holding' = holding,
           \A w \in Worker : Holds(w, j) => failRead'[w] \in {failRead[w], jobs[j].attempts},
           \A w \in Worker : ~Holds(w, j) => failRead'[w] = failRead[w],
           UNCHANGED budgets
    PROVE  Undisturbed'
  <1>1. jobs[j] \in Document /\ jobs'[j] = d /\ Budget' = Budget
    BY LiveIsDocument DEF TypeInv, Budget, budgets
  <1>2. Owned(j) /\ WithinBudget(j)
    BY DEF Undisturbed
  <1>3. Owned(j)'
    BY <1>1, <1>2 DEF Owned, Keeps, Holds
  <1>4. WithinBudget(j)'
    BY <1>1, <1>2 DEF WithinBudget, Idle, Keeps, Holds
  <1>5. ASSUME NEW i \in Job, i # j PROVE Live(i)' => Owned(i)' /\ WithinBudget(i)'
    <2>1. jobs'[i] = jobs[i] /\ Budget <= Budget'
      BY <1>1, <1>5, BudgetIsNat DEF TypeInv
    <2>2. \A w \in Worker : Holds(w, i) => ~Holds(w, j)
      BY <1>5 DEF Holds
    <2>3. QED  BY <2>1, <2>2, Elsewhere DEF Holds
  <1>6. QED  BY <1>3, <1>4, <1>5 DEF Undisturbed

LEMMA UndisturbedNext ==
    ASSUME IInv, [Next]_vars, slips' = 0
    PROVE  Undisturbed'
<1>0. /\ TypeInv /\ TypeInv' /\ slips = 0 /\ Undisturbed /\ ClaimsCounted
  <2>1. TypeInv /\ TypeInv' /\ ClaimsCounted
    BY TypeInvNext DEF IInv
  <2>2. slips \in Nat
    BY <2>1, BudgetIsNat
  <2>3. slips <= slips'
    BY <2>2 DEF Next, WorkerStep, JobStep, Settle, ClaimNext, ReportProgress, Complete, Cancel,
       FailRead, FailWrite, WorkerDies, Enqueue, RequestCancellation, OperatorRetry, Remove,
       ClaimExpires, ClaimSlips, BackoffEnds, LateProgress, RunawayEnds, budgets, vars
  <2>4. QED  BY <2>1, <2>2, <2>3 DEF IInv
<1>b. /\ Budget \in Nat /\ Budget' \in Nat /\ MaxAttempts <= Budget /\ MaxAttempts > 0
      /\ MaxAttempts \in Nat
  BY <1>0, BudgetIsNat, BudgetStaysNat, MaxAttemptsAssumption
<1>d. \A j \in Job : Live(j) => jobs[j] \in Document /\ jobs[j].attempts \in Nat
  BY <1>0, LiveIsDocument DEF Document
\* A worker that settles its job was alone with it.
<1>1. ASSUME NEW w \in Worker, holding[w] # NoClaim, LetGo(w), NEW d, Write(w, d),
             \A v \in Worker : v # w => failRead'[v] = failRead[v],
             Live(holding[w].job) =>
                 /\ Keeps(jobs[holding[w].job], d)
                 /\ d.state # "running"
                 /\ d.state = "queued" => d.attempts < MaxAttempts,
             UNCHANGED budgets
      PROVE  Undisturbed'
  <2>0. PICK j \in Job : j = holding[w].job
    BY <1>0, <1>1, HeldJob
  <2>1. Holds(w, j) /\ Budget' = Budget
    BY <1>1, <2>0 DEF Holds, Budget, budgets
  <2>2. \A i \in Job : i # j => jobs'[i] = jobs[i]
    BY <1>0, <1>1, <2>0 DEF Write
  <2>3. /\ holding'[w] = NoClaim /\ \A v \in Worker : v # w => holding'[v] = holding[v]
    BY <1>0, <1>1, LetGoFacts
  <2>4. ASSUME Live(j)' PROVE Owned(j)' /\ WithinBudget(j)'
    <3>1. Live(j) /\ jobs'[j] = d
      <4>1. Live(j) => d \in Document
        BY <1>1, <2>0 DEF Keeps
      <4>2. (Live(j) => jobs'[j] = d) /\ (~Live(j) => jobs' = jobs)
        BY <1>0, <1>1, <2>0, <4>1, WriteFacts
      <4>3. QED  BY <2>4, <4>2 DEF Live
    <3>2. Owned(j) /\ WithinBudget(j) /\ Keeps(jobs[j], d) /\ d.state # "running"
      BY <1>0, <1>1, <2>0, <3>1 DEF Undisturbed
    <3>3. \A v \in Worker : v # w => ~Holds(v, j)
      BY <2>1, <3>2 DEF Owned
    <3>4. \A v \in Worker : ~Holds(v, j)'
      BY <2>3, <3>3 DEF Holds
    <3>5. d.attempts \in Nat /\ d.attempts <= Budget
      BY <1>d, <2>1, <3>1, <3>2 DEF Keeps, WithinBudget
    <3>6. Idle(j)' => d.attempts < Budget
      BY <1>1, <1>b, <2>0, <3>1, <3>2, <3>5 DEF Idle
    <3>7. QED  BY <2>1, <3>1, <3>4, <3>5, <3>6 DEF Owned, WithinBudget
  <2>5. ASSUME NEW i \in Job, i # j PROVE Live(i)' => Owned(i)' /\ WithinBudget(i)'
    <3>1. Budget <= Budget'
      BY <1>b, <2>1
    <3>2. \A v \in Worker : Holds(v, i) => v # w
      BY <2>1, <2>5 DEF Holds
    <3>3. \A v \in Worker : Holds(v, i) <=> Holds(v, i)'
      BY <2>1, <2>3, <2>5 DEF Holds
    <3>4. QED  BY <1>0, <1>1, <2>2, <2>3, <2>5, <3>1, <3>2, <3>3, Elsewhere
  <2>6. QED  BY <2>4, <2>5 DEF Undisturbed
<1>2. ASSUME NEW w \in Worker, Complete(w) \/ Cancel(w) PROVE Undisturbed'
  <2>1. ASSUME Live(holding[w].job)
        PROVE  \A s \in {"completed", "cancelled"} :
                 /\ Keeps(jobs[holding[w].job], Released(jobs[holding[w].job], s))
                 /\ Released(jobs[holding[w].job], s).state = s
    <3>1. jobs[holding[w].job] \in Document
      BY <1>0, <1>2, <1>d, <2>1, HeldJob DEF Complete, Cancel
    <3>2. QED
      BY <3>1, WritesKeep DEF Completed, Cancelled, Released, Document
  <2>2. QED
    BY <1>1, <1>2, <2>1 DEF Complete, Cancel, Completed, Cancelled
<1>3. ASSUME NEW w \in Worker, NEW r \in BOOLEAN, FailWrite(w, r) PROVE Undisturbed'
  <2> DEFINE disposition == Disposition(failRead[w], r)
             d == Failed(jobs[holding[w].job], disposition)
  <2>1. holding[w] # NoClaim /\ failRead[w] \in Nat
    BY <1>0, <1>3 DEF FailWrite, TypeInv
  <2>2. ASSUME Live(holding[w].job)
        PROVE  Keeps(jobs[holding[w].job], d) /\ d.state = disposition
    <3>1. jobs[holding[w].job] \in Document
      BY <1>0, <1>d, <2>1, <2>2, HeldJob
    <3>2. Keeps(jobs[holding[w].job], d)
      BY <3>1, WritesKeep
    <3>3. d.state = disposition
      BY <3>1 DEF Failed, Released, Document
    <3>4. QED  BY <3>2, <3>3
  <2>3. ASSUME Live(holding[w].job), disposition = "queued"
        PROVE  d.attempts < MaxAttempts
    <3>1. holding[w].job \in Job /\ Holds(w, holding[w].job)
      BY <1>0, <2>1, HeldJob DEF Holds
    <3>2. failRead[w] = jobs[holding[w].job].attempts
      BY <1>0, <1>3, <2>3, <3>1 DEF Undisturbed, Owned, FailWrite
    <3>3. failRead[w] < MaxAttempts
      BY <1>b, <2>1, <2>3 DEF Disposition
    <3>4. QED  BY <2>2, <2>3, <3>2, <3>3 DEF Keeps
  <2>4. disposition # "running"
    BY DEF Disposition
  <2>5. Write(w, d) /\ LetGo(w) /\ UNCHANGED budgets
        /\ \A v \in Worker : v # w => failRead'[v] = failRead[v]
    BY <1>0, <1>3 DEF FailWrite, TypeInv
  <2> HIDE DEF d, disposition
  <2>6. QED  BY <1>1, <2>1, <2>2, <2>3, <2>4, <2>5
<1>4. ASSUME NEW w \in Worker, NEW j \in Job, ClaimNext(w, j) PROVE Undisturbed'
  <2>1. /\ Live(j) /\ jobs[j] \in Document /\ jobs[j].attempts \in Nat /\ Runnable(jobs[j])
        /\ jobs'[j] = Claimed(jobs[j], w) /\ \A i \in Job : i # j => jobs'[i] = jobs[i]
        /\ Budget' = Budget
    BY <1>0, <1>4, <1>d DEF ClaimNext, TypeInv, Budget, budgets
  <2>2. Owned(j) /\ WithinBudget(j)
    BY <1>0, <2>1 DEF Undisturbed
  <2>3. \A v \in Worker : ~Holds(v, j)
    BY <2>1, <2>2 DEF Owned, Runnable
  <2>4. /\ holding'[w] = [job |-> j, claim |-> jobs[j].attempts + 1]
        /\ \A v \in Worker : v # w => holding'[v] = holding[v]
        /\ holding[w] = NoClaim /\ failRead[w] = NotRead /\ failRead' = failRead
    BY <1>0, <1>4 DEF ClaimNext, TypeInv
  <2>5. /\ jobs'[j].state = "running" /\ jobs'[j].claimedBy = w /\ ~jobs'[j].stale
        /\ jobs'[j].attempts = jobs[j].attempts + 1
    BY <2>1 DEF Claimed, Document
  <2>6. \A v \in Worker : v # w => ~Holds(v, j)'
    BY <2>3, <2>4 DEF Holds
  <2>7. Owned(j)'
    BY <2>4, <2>5, <2>6 DEF Owned
  <2>8. jobs[j].attempts < Budget
    BY <2>1, <2>2, <2>3 DEF WithinBudget, Idle, Runnable
  <2>9. Holds(w, j)'
    BY <2>4, SentinelAssumption, <2>1 DEF Holds
  <2>10. WithinBudget(j)'
    BY <1>b, <2>1, <2>5, <2>8, <2>9 DEF WithinBudget, Idle
  <2>11. ASSUME NEW i \in Job, i # j PROVE Live(i)' => Owned(i)' /\ WithinBudget(i)'
    <3>1. \A v \in Worker : Holds(v, i) <=> Holds(v, i)'
      BY <2>4, <2>11 DEF Holds
    <3>2. \A v \in Worker : Holds(v, i) => v # w
      BY <2>4 DEF Holds
    <3>3. Budget <= Budget'
      BY <1>b, <2>1
    <3>4. QED  BY <1>0, <2>1, <2>4, <2>11, <3>1, <3>2, <3>3, Elsewhere
  <2>12. QED  BY <2>7, <2>10, <2>11 DEF Undisturbed
\* Rewrites that keep state, owner and attempts.
<1>5. ASSUME NEW w \in Worker, ReportProgress(w) PROVE Undisturbed'
  <2>0. PICK j \in Job : j = holding[w].job
    BY <1>0, <1>5, HeldJob DEF ReportProgress
  <2>1. CASE ~Live(j)
    <3>1. UNCHANGED <<jobs, holding, failRead, budgets>>
      BY <1>5, <2>0, <2>1 DEF ReportProgress, Write
    <3>2. QED
      BY <1>0, <3>1 DEF Undisturbed, Live, Owned, WithinBudget, Idle, Holds, Budget, budgets
  <2>2. CASE Live(j)
    <3>1. jobs[j] \in Document
      BY <1>d, <2>2
    <3>2. /\ Keeps(jobs[j], Progressed(jobs[j])) /\ Progressed(jobs[j]).state = jobs[j].state
          /\ Progressed(jobs[j]).claimedBy = jobs[j].claimedBy /\ ~Progressed(jobs[j]).stale
      BY <3>1, WritesKeep DEF Progressed, Document
    <3>3. /\ jobs' = [jobs EXCEPT ![j] = Progressed(jobs[j])]
          /\ holding' = holding /\ failRead' = failRead /\ UNCHANGED budgets
      BY <1>5, <2>0, <2>2 DEF ReportProgress, Write
    <3>4. QED  BY <1>0, <2>2, <3>2, <3>3, InPlace
  <2>3. QED  BY <2>1, <2>2
<1>6. ASSUME NEW j \in Job, RequestCancellation(j) \/ BackoffEnds(j) PROVE Undisturbed'
  <2>1. Live(j) /\ jobs[j] \in Document
    BY <1>6, <1>d DEF RequestCancellation, BackoffEnds
  <2>2. PICK d \in {CancellationRequested(jobs[j]), [jobs[j] EXCEPT !.due = TRUE]} :
           /\ jobs' = [jobs EXCEPT ![j] = d]
           /\ holding' = holding /\ failRead' = failRead /\ UNCHANGED budgets
    BY <1>6 DEF RequestCancellation, BackoffEnds
  <2>3. Keeps(jobs[j], d)
    BY <2>1, <2>2, WritesKeep
  <2>4. d.state = jobs[j].state /\ d.claimedBy = jobs[j].claimedBy /\ d.stale = jobs[j].stale
    BY <2>1, <2>2 DEF CancellationRequested, Document
  <2>5. QED  BY <1>0, <2>1, <2>2, <2>3, <2>4, InPlace
<1>7. ASSUME NEW j \in Job, ClaimExpires(j) \/ ClaimSlips(j) PROVE Undisturbed'
  <2>1. Live(j) /\ jobs[j] \in Document /\ ~Attended(j)
    <3>1. ~ClaimSlips(j)
      BY <1>0, slips' = 0 DEF ClaimSlips
    <3>2. QED  BY <1>7, <1>d, <3>1 DEF ClaimExpires, Expire
  <2>2. \A w \in Worker : ~Holds(w, j)
    BY <1>0, <2>1 DEF Attended, Undisturbed, Owned
  <2>3. /\ jobs' = [jobs EXCEPT ![j] = [jobs[j] EXCEPT !.stale = TRUE]]
        /\ holding' = holding /\ failRead' = failRead /\ UNCHANGED budgets
    BY <1>0, <1>7, slips' = 0 DEF ClaimExpires, ClaimSlips, Expire, budgets
  <2>4. /\ Keeps(jobs[j], [jobs[j] EXCEPT !.stale = TRUE])
        /\ [jobs[j] EXCEPT !.stale = TRUE].state = jobs[j].state
        /\ [jobs[j] EXCEPT !.stale = TRUE].claimedBy = jobs[j].claimedBy
    BY <2>1, WritesKeep DEF Document
  <2>5. QED  BY <1>0, <2>1, <2>2, <2>3, <2>4, InPlace
<1>8. ASSUME NEW w \in Worker, FailRead(w) PROVE Undisturbed'
  <2>0. PICK j \in Job : j = holding[w].job
    BY <1>0, <1>8, HeldJob DEF FailRead
  <2>1. jobs' = jobs /\ Budget' = Budget /\ Budget <= Budget'
    BY <1>b, <1>8 DEF FailRead, Budget, budgets
  <2>2. ASSUME NEW i \in Job, Live(i)' PROVE Owned(i)' /\ WithinBudget(i)'
    <3>1. Live(i) /\ Owned(i) /\ WithinBudget(i)
      BY <1>0, <2>1, <2>2 DEF Live, Undisturbed
    <3>2. CASE Live(j)
      <4>1. holding' = holding /\ failRead' = [failRead EXCEPT ![w] = jobs[j].attempts]
        BY <1>8, <2>0, <3>2 DEF FailRead
      <4>2. Owned(i)'
        BY <1>0, <2>0, <2>1, <3>1, <4>1 DEF Owned, Holds, TypeInv
      <4>3. WithinBudget(i)'
        BY <2>1, <3>1, <4>1 DEF WithinBudget, Idle, Holds
      <4>4. QED  BY <4>2, <4>3
    <3>3. CASE ~Live(j)
      <4>1. LetGo(w) /\ failRead' = failRead
        BY <1>8, <2>0, <3>3 DEF FailRead
      <4>2. \A v \in Worker : v # w => holding'[v] = holding[v]
        BY <1>0, <4>1, LetGoFacts
      <4>3. i # j /\ holding'[w] = NoClaim /\ ~Holds(w, i)
        BY <1>0, <2>0, <3>1, <3>3, <4>1, LetGoFacts DEF Holds
      <4>4. \A v \in Worker : Holds(v, i) <=> Holds(v, i)'
        BY <4>2, <4>3 DEF Holds
      <4>5. \A v \in Worker : Holds(v, i) => v # w
        BY <4>3
      <4>6. QED  BY <1>0, <2>1, <2>2, <4>1, <4>2, <4>4, <4>5, Elsewhere
    <3>4. QED  BY <3>2, <3>3
  <2>3. QED  BY <2>2 DEF Undisturbed
<1>9. ASSUME NEW w \in Worker, WorkerDies(w) PROVE Undisturbed'
  <2>1. /\ jobs' = jobs /\ Budget' = Budget + 1
        /\ holding'[w] = NoClaim /\ \A v \in Worker : v # w => holding'[v] = holding[v]
        /\ \A v \in Worker : v # w => failRead'[v] = failRead[v]
    <3>1. crashes \in Nat /\ slips \in Nat /\ operatorRetries \in Nat
      BY <1>0, BudgetIsNat
    <3>2. Budget' = Budget + 1
      BY <1>9, <1>b, <3>1 DEF WorkerDies, Budget
    <3>3. QED
      BY <1>0, <1>9, <3>2, LetGoFacts DEF WorkerDies, TypeInv
  <2>2. ASSUME NEW i \in Job, Live(i)' PROVE Owned(i)' /\ WithinBudget(i)'
    <3>1. Live(i) /\ Owned(i) /\ WithinBudget(i) /\ jobs[i].attempts \in Nat
      BY <1>0, <1>d, <2>1, <2>2 DEF Live, Undisturbed
    <3>2. \A v \in Worker : Holds(v, i)' => v # w /\ Holds(v, i)
      BY <2>1 DEF Holds
    <3>3. Owned(i)'
      BY <2>1, <3>1, <3>2 DEF Owned
    <3>4. jobs'[i].attempts < Budget'
      BY <1>b, <2>1, <3>1 DEF WithinBudget
    <3>5. QED  BY <1>b, <2>1, <3>1, <3>3, <3>4 DEF WithinBudget
  <2>3. QED  BY <2>2 DEF Undisturbed
<1>10. ASSUME NEW j \in Job, Enqueue(j) PROVE Undisturbed'
  <2>1. /\ jobs'[j] = NewDocument /\ \A i \in Job : i # j => jobs'[i] = jobs[i]
        /\ holding' = holding /\ failRead' = failRead /\ Budget' = Budget
        /\ jobs[j] = Unborn
    BY <1>0, <1>10 DEF Enqueue, TypeInv, Budget, budgets
  <2>2. \A w \in Worker : ~Holds(w, j)'
    BY <1>0, <2>1 DEF ClaimsCounted, Holds
  <2>3. Owned(j)' /\ WithinBudget(j)'
    BY <1>b, <2>1, <2>2 DEF Owned, WithinBudget, NewDocument
  <2>4. ASSUME NEW i \in Job, i # j PROVE Live(i)' => Owned(i)' /\ WithinBudget(i)'
    <3>1. Budget <= Budget' /\ \A v \in Worker : Holds(v, i) <=> Holds(v, i)'
      BY <1>b, <2>1 DEF Holds
    <3>2. QED  BY <1>0, <2>1, <2>4, <3>1, Elsewhere
  <2>5. QED  BY <2>3, <2>4 DEF Undisturbed
<1>11. ASSUME NEW j \in Job, OperatorRetry(j) PROVE Undisturbed'
  <2>1. /\ Live(j) /\ jobs[j] \in Document /\ jobs[j].attempts \in Nat /\ Retryable(jobs[j])
        /\ jobs'[j] = Retried(jobs[j]) /\ \A i \in Job : i # j => jobs'[i] = jobs[i]
        /\ holding' = holding /\ failRead' = failRead
    BY <1>0, <1>11, <1>d DEF OperatorRetry, TypeInv
  <2>2. Budget' = Budget + 1
    <3>1. crashes \in Nat /\ slips \in Nat /\ operatorRetries \in Nat
      BY <1>0, BudgetIsNat
    <3>2. QED  BY <1>11, <1>b, <3>1 DEF OperatorRetry, Budget
  <2>3. Owned(j) /\ WithinBudget(j)
    BY <1>0, <2>1 DEF Undisturbed
  <2>4. \A w \in Worker : ~Holds(w, j)'
    BY <2>1, <2>3 DEF Owned, Retryable, Holds
  <2>5. jobs'[j].attempts = jobs[j].attempts
    BY <2>1, WritesKeep DEF Keeps
  <2>6. Owned(j)' /\ WithinBudget(j)'
    BY <1>b, <2>1, <2>2, <2>3, <2>4, <2>5 DEF Owned, WithinBudget
  <2>7. ASSUME NEW i \in Job, i # j PROVE Live(i)' => Owned(i)' /\ WithinBudget(i)'
    <3>1. Budget <= Budget' /\ \A v \in Worker : Holds(v, i) <=> Holds(v, i)'
      BY <1>b, <2>1, <2>2 DEF Holds
    <3>2. QED  BY <1>0, <2>1, <2>7, <3>1, Elsewhere
  <2>8. QED  BY <2>6, <2>7 DEF Undisturbed
<1>12. ASSUME NEW j \in Job, Remove(j) PROVE Undisturbed'
  <2>1. /\ jobs'[j] = Removed /\ \A i \in Job : i # j => jobs'[i] = jobs[i]
        /\ holding' = holding /\ failRead' = failRead /\ Budget' = Budget
    BY <1>0, <1>12 DEF Remove, TypeInv, Budget, budgets
  <2>2. ASSUME NEW i \in Job, i # j PROVE Live(i)' => Owned(i)' /\ WithinBudget(i)'
    <3>1. Budget <= Budget' /\ \A v \in Worker : Holds(v, i) <=> Holds(v, i)'
      BY <1>b, <2>1 DEF Holds
    <3>2. QED  BY <1>0, <2>1, <2>2, <3>1, Elsewhere
  <2>3. QED  BY <2>1, <2>2 DEF Undisturbed, Live
<1>13. ASSUME UNCHANGED vars \/ \E w \in Worker, j \in Job : RunawayEnds(w, j)
       PROVE  Undisturbed'
  <2>1. Budget' = Budget
    BY <1>13 DEF vars, RunawayEnds, Budget, budgets
  <2>2. UNCHANGED <<jobs, holding, failRead>>
    BY <1>13 DEF vars, RunawayEnds
  <2>3. QED
    BY <1>0, <2>1, <2>2 DEF Undisturbed, Live, Owned, WithinBudget, Idle, Holds
<1>14. ASSUME NEW w \in Worker, NEW j \in Job, LateProgress(w, j) PROVE Undisturbed'
  <2>1. Live(j) /\ jobs[j] \in Document
    BY <1>14, <1>d DEF LateProgress
  <2>2. /\ Keeps(jobs[j], Progressed(jobs[j])) /\ Progressed(jobs[j]).state = jobs[j].state
        /\ Progressed(jobs[j]).claimedBy = jobs[j].claimedBy /\ ~Progressed(jobs[j]).stale
    BY <2>1, WritesKeep DEF Progressed, Document
  <2>3. /\ jobs' = [jobs EXCEPT ![j] = Progressed(jobs[j])]
        /\ holding' = holding /\ failRead' = failRead /\ UNCHANGED budgets
    BY <1>14 DEF LateProgress
  <2>4. QED  BY <1>0, <2>1, <2>2, <2>3, InPlace
<1>15. QED
  BY <1>2, <1>3, <1>4, <1>5, <1>6, <1>7, <1>8, <1>9, <1>10, <1>11, <1>12, <1>13, <1>14
     DEF Next, WorkerStep, JobStep, Settle

LEMMA InductiveInv == Spec => []IInv
<1>1. Init => IInv
  BY TypeInvInit, ClaimsInit, UndisturbedInit DEF IInv
<1>2. IInv /\ [Next]_vars => IInv'
  BY TypeInvNext, ClaimsNext, UndisturbedNext DEF IInv
<1>3. QED  BY <1>1, <1>2, PTL DEF Spec

\* While no claim has timed out over a living worker, the holder of a job is its
\* only owner and the document says so (claimNext, complete, cancel, fail).
THEOREM HoldersOwnTheirJob == Spec => []SoleHolder
<1>1. IInv => SoleHolder
  BY DEF IInv, SoleHolder, Undisturbed, Owned
<1>2. QED  BY <1>1, InductiveInv, PTL

\* Under the same condition a job is attempted at most MaxAttempts times, plus
\* once per dead worker and per operator's retry (claimNext, fail, retry).
THEOREM AttemptsStayBounded == Spec => [](slips = 0 => AttemptsBounded)
<1>1. IInv => (slips = 0 => AttemptsBounded)
  BY DEF IInv, AttemptsBounded, Undisturbed, WithinBudget, Budget
<1>2. QED  BY <1>1, InductiveInv, PTL

\* Only a running job's claim can be stale: every other write clears claimedAt.
StaleOnlyRunning ==
    \A j \in Job : Live(j) /\ jobs[j].stale => jobs[j].state = "running"

LEMMA StaleOnlyRunningNext ==
    IInv /\ StaleOnlyRunning /\ [Next]_vars => StaleOnlyRunning'
<1> SUFFICES ASSUME IInv, StaleOnlyRunning, [Next]_vars, NEW j \in Job,
                    Live(j)', jobs'[j].stale
             PROVE  jobs'[j].state = "running"
  BY DEF StaleOnlyRunning
<1>0. TypeInv
  BY DEF IInv
<1>1. jobs[j] \in Document \cup {Unborn, Removed} /\ (Live(j) <=> jobs[j] \in Document)
  BY <1>0, SentinelAssumption DEF TypeInv, Live
<1>2. ASSUME jobs'[j] = jobs[j] PROVE jobs'[j].state = "running"
  BY <1>2 DEF StaleOnlyRunning, Live
<1>3. ASSUME NEW d \in JobState, Live(j), jobs'[j] = Released(jobs[j], d) PROVE FALSE
  BY <1>1, <1>3 DEF Released, Document
<1>4. ASSUME Live(j), jobs'[j] = Progressed(jobs[j]) PROVE FALSE
  BY <1>1, <1>4 DEF Progressed, Document
<1>5. ASSUME NEW w \in Worker, NEW d, holding[w] # NoClaim, Write(w, d)
      PROVE  jobs'[j] = jobs[j] \/ (Live(j) /\ j = holding[w].job /\ jobs'[j] = d)
  BY <1>0, <1>5 DEF Write, TypeInv
<1>6. ASSUME NEW w \in Worker, WorkerStep(w) PROVE jobs'[j].state = "running"
  <2>1. ASSUME NEW i \in Job, ClaimNext(w, i) PROVE jobs'[j].state = "running"
    <3>1. CASE i = j
      BY <1>0, <1>1, <2>1, <3>1 DEF ClaimNext, Claimed, Document, TypeInv
    <3>2. CASE i # j
      BY <1>0, <1>2, <2>1, <3>2 DEF ClaimNext, TypeInv
    <3>3. QED  BY <3>1, <3>2
  <2>2. ASSUME NEW i \in Job, LateProgress(w, i) PROVE jobs'[j].state = "running"
    <3>1. jobs'[j] = jobs[j] \/ (Live(j) /\ jobs'[j] = Progressed(jobs[j]))
      BY <1>0, <2>2 DEF LateProgress, TypeInv
    <3>2. QED  BY <1>2, <1>4, <3>1
  <2>3. ASSUME NEW i \in Job, RunawayEnds(w, i) PROVE jobs'[j].state = "running"
    BY <1>2, <2>3 DEF RunawayEnds
  <2>4. ASSUME ReportProgress(w) PROVE jobs'[j].state = "running"
    BY <1>2, <1>4, <1>5, <2>4 DEF ReportProgress
  <2>5. ASSUME Complete(w) \/ Cancel(w) PROVE jobs'[j].state = "running"
    <3>1. PICK d \in {"completed", "cancelled"} :
             holding[w] # NoClaim /\ Write(w, Released(jobs[holding[w].job], d))
      BY <2>5 DEF Complete, Cancel, Completed, Cancelled
    <3>2. QED  BY <1>2, <1>3, <1>5, <3>1 DEF JobState
  <2>6. ASSUME FailRead(w) \/ WorkerDies(w) PROVE jobs'[j].state = "running"
    BY <1>2, <2>6 DEF FailRead, WorkerDies
  <2>7. ASSUME NEW r \in BOOLEAN, FailWrite(w, r) PROVE jobs'[j].state = "running"
    <3> DEFINE a == failRead[w]
               d == Disposition(a, r)
    <3>1. holding[w] # NoClaim /\ Write(w, Failed(jobs[holding[w].job], d))
      BY <1>0, <2>7 DEF FailWrite, TypeInv
    <3>2. d \in JobState
      BY DEF Disposition, JobState
    <3>3. ASSUME Live(j), jobs'[j] = Failed(jobs[j], d) PROVE FALSE
      BY <1>1, <3>3 DEF Failed, Released, Document
    <3>4. QED  BY <1>2, <1>5, <3>1, <3>3
  <2>8. QED
    BY <1>6, <2>1, <2>2, <2>3, <2>4, <2>5, <2>6, <2>7 DEF WorkerStep, Settle
<1>7. ASSUME NEW i \in Job, JobStep(i) PROVE jobs'[j].state = "running"
  <2>1. CASE jobs'[j] = jobs[j]
    BY <1>2, <2>1
  <2>2. CASE i = j /\ jobs'[j] # jobs[j]
    <3>1. Enqueue(j) => jobs'[j] = NewDocument
      BY <1>0 DEF Enqueue, TypeInv
    <3>2. RequestCancellation(j) => Live(j) /\ jobs'[j] = CancellationRequested(jobs[j])
      BY <1>0 DEF RequestCancellation, TypeInv
    <3>3. OperatorRetry(j) => Live(j) /\ jobs'[j] = Retried(jobs[j])
      BY <1>0 DEF OperatorRetry, TypeInv
    <3>4. Remove(j) => jobs'[j] = Removed
      BY <1>0 DEF Remove, TypeInv
    <3>5. ClaimExpires(j) \/ ClaimSlips(j) =>
             Live(j) /\ jobs[j].state = "running" /\ jobs'[j] = [jobs[j] EXCEPT !.stale = TRUE]
      BY <1>0 DEF ClaimExpires, ClaimSlips, Expire, TypeInv
    <3>6. BackoffEnds(j) => Live(j) /\ jobs'[j] = [jobs[j] EXCEPT !.due = TRUE]
      BY <1>0 DEF BackoffEnds, TypeInv
    <3>7. ~Enqueue(j) /\ ~Remove(j)
      BY <3>1, <3>4 DEF NewDocument, Live
    <3>8. RequestCancellation(j) \/ BackoffEnds(j) => jobs'[j].state = "running"
      BY <1>1, <3>2, <3>6 DEF CancellationRequested, Document, StaleOnlyRunning
    <3>9. ~OperatorRetry(j)
      BY <1>1, <3>3 DEF Retried, Released, Document
    <3>10. ClaimExpires(j) \/ ClaimSlips(j) => jobs'[j].state = "running"
      BY <1>1, <3>5 DEF Document
    <3>11. QED  BY <1>7, <2>2, <3>7, <3>8, <3>9, <3>10 DEF JobStep
  <2>3. CASE i # j
    BY <1>0, <1>2, <1>7, <2>3
       DEF JobStep, Enqueue, RequestCancellation, OperatorRetry, Remove, ClaimExpires,
           ClaimSlips, Expire, BackoffEnds, TypeInv
  <2>4. QED  BY <2>1, <2>2, <2>3
<1>8. QED  BY <1>2, <1>6, <1>7 DEF Next, vars

LEMMA StaleOnlyRunningInv == Spec => []StaleOnlyRunning
<1>1. Init => StaleOnlyRunning
  BY DEF Init, StaleOnlyRunning, Live
<1>2. QED  BY <1>1, InductiveInv, StaleOnlyRunningNext, PTL DEF Spec

\* Under the same condition nobody but an operator or a purge ever touches a
\* settled job again (complete, cancel, fail and reportProgress filter on jobId).
THEOREM SettledJobsStay == Spec => SettledStays
<1> DEFINE Stays ==
      slips = 0 =>
        \A j \in Job : Live(j) /\ Settled(jobs[j]) =>
            \/ jobs'[j] \in {jobs[j], [jobs[j] EXCEPT !.due = TRUE], Removed}
            \/ OperatorRetry(j)
<1>1. IInv /\ StaleOnlyRunning /\ [Next]_vars => [Stays]_vars
  <2> SUFFICES ASSUME IInv, StaleOnlyRunning, Next, slips = 0, NEW j \in Job, Live(j), Settled(jobs[j])
               PROVE  \/ jobs'[j] \in {jobs[j], [jobs[j] EXCEPT !.due = TRUE], Removed}
                      \/ OperatorRetry(j)
    OBVIOUS
  <2>1. TypeInv /\ \A w \in Worker : ~Holds(w, j)
    BY DEF IInv, Undisturbed, Owned, Settled
  <2>2. ASSUME NEW w \in Worker, WorkerStep(w) PROVE jobs'[j] = jobs[j]
    <3>1. ASSUME holding[w] # NoClaim, NEW d, Write(w, d) PROVE jobs'[j] = jobs[j]
      BY <2>1, <3>1, HeldJob DEF Write, Holds, TypeInv
    <3>2. ASSUME NEW i \in Job, ClaimNext(w, i) PROVE jobs'[j] = jobs[j]
      BY <2>1, <3>2 DEF ClaimNext, Runnable, Settled, TypeInv
    <3>3. ASSUME NEW r \in BOOLEAN, FailWrite(w, r) PROVE jobs'[j] = jobs[j]
      BY <2>1, <3>1, <3>3 DEF FailWrite, TypeInv
    <3>4. ASSUME NEW i \in Job, LateProgress(w, i) PROVE jobs'[j] = jobs[j]
      <4>1. jobs[j] \in Document /\ jobs[j].stale = FALSE
        BY <2>1, SentinelAssumption
           DEF StaleOnlyRunning, Settled, TypeInv, Live, Document
      <4>2. Progressed(jobs[j]) = jobs[j]
        BY <4>1 DEF Progressed, Document
      <4>3. QED  BY <2>1, <3>4, <4>2 DEF LateProgress, TypeInv
    <3>5. ASSUME NEW i \in Job, RunawayEnds(w, i) PROVE jobs'[j] = jobs[j]
      BY <3>5 DEF RunawayEnds
    <3>6. QED
      BY <2>2, <3>1, <3>2, <3>3, <3>4, <3>5
         DEF WorkerStep, ReportProgress, Settle, Complete, Cancel, FailRead, WorkerDies
  <2>3. ASSUME NEW i \in Job, JobStep(i)
        PROVE  \/ jobs'[j] \in {jobs[j], [jobs[j] EXCEPT !.due = TRUE], Removed}
               \/ OperatorRetry(j)
    <3>1. Enqueue(i) => jobs'[j] = jobs[j]
      BY <2>1 DEF Enqueue, Live, TypeInv
    <3>2. RequestCancellation(i) => jobs'[j] = jobs[j]
      BY <2>1 DEF RequestCancellation, CancellationRequested, TypeInv
    <3>3. OperatorRetry(i) => jobs'[j] = jobs[j] \/ OperatorRetry(j)
      BY <2>1 DEF OperatorRetry, TypeInv
    <3>4. Remove(i) => jobs'[j] \in {jobs[j], Removed}
      BY <2>1 DEF Remove, TypeInv
    <3>5. ClaimExpires(i) \/ ClaimSlips(i) => jobs'[j] = jobs[j]
      BY <2>1 DEF ClaimExpires, ClaimSlips, Expire, Settled, TypeInv
    <3>6. BackoffEnds(i) => jobs'[j] \in {jobs[j], [jobs[j] EXCEPT !.due = TRUE]}
      BY <2>1 DEF BackoffEnds, TypeInv
    <3>7. QED  BY <2>3, <3>1, <3>2, <3>3, <3>4, <3>5, <3>6 DEF JobStep
  <2>4. QED  BY <2>2, <2>3 DEF Next
<1>2. QED  BY <1>1, InductiveInv, StaleOnlyRunningInv, PTL DEF Spec, SettledStays

=============================================================================
