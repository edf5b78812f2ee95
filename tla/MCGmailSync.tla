------------------------------ MODULE MCGmailSync ------------------------------
(* GmailSync for TLC. *)
EXTENDS GmailSync, TLC

CONSTANTS w1, w2

WorkerSymmetry == Permutations(Workers)
=============================================================================
