--------------------------- MODULE MCCandidatePage ---------------------------
(* CandidatePage for TLC.                                                   *)
EXTENDS CandidatePage
=============================================================================
