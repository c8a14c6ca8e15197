----------------------------- MODULE MCDocumentAi -----------------------------
(***************************************************************************)
(* A small instance of DocumentAi.                                         *)
(***************************************************************************)
EXTENDS DocumentAi

CONSTANT a1
===============================================================================
