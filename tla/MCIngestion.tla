---------------------------- MODULE MCIngestion ----------------------------
(***************************************************************************)
(* Small instances of Ingestion: f is the one uploaded file, t the one     *)
(* pasted text; each configuration says which of them it has, whether f is *)
(* an image or a legacy file, and what may go wrong.                       *)
(***************************************************************************)
EXTENDS Ingestion, TLC

CONSTANTS w1, w2, r1, r2, f, t

MCWorker == {w1, w2}
MCRequest == {r1, r2}
FirstJob == {<<f, 0>>}
MCSymmetry == Permutations(MCWorker) \cup Permutations(MCRequest)
=============================================================================
