----------------------------- MODULE MCReviewQueue -----------------------------
(***************************************************************************)
(* A small instance of ReviewQueue for TLC.                                *)
(***************************************************************************)
EXTENDS ReviewQueue

===============================================================================
