----------------------------- MODULE MCJobQueue -----------------------------
(***************************************************************************)
(* Small instances of JobQueue.  Documents j1 and j2 share the key k1, so  *)
(* that one may be removed and the key enqueued again while a worker still *)
(* holds the first; j3 is another job competing for the same workers.      *)
(***************************************************************************)
EXTENDS JobQueue, TLC

CONSTANTS w1, w2, k1, k2, j1, j2, j3

MCWorker == {w1, w2}
MCKey == {k1, k2}

MCOneKey == {j1, j2}
MCOneKeyOf == [j \in MCOneKey |-> k1]

MCTwoKeys == {j1, j3}
MCTwoKeysOf == (j1 :> k1) @@ (j3 :> k2)

MCSymmetry == Permutations(MCWorker)
=============================================================================
