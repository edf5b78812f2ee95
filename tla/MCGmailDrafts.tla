---------------------------- MODULE MCGmailDrafts ----------------------------
(* GmailDrafts for TLC. *)
EXTENDS GmailDrafts, TLC

CONSTANTS h1, h2, c1, c2, d1

DraftSymmetry == Permutations(Handlers) \union Permutations(Contents)
=============================================================================
