----------------------------- MODULE MCReports -----------------------------
(* Reports with transactions of three findings, so that a run has a full   *)
(* one and an incomplete one.                                              *)
EXTENDS Reports, TLC

MCSymmetry == Permutations(Keys)
=============================================================================
