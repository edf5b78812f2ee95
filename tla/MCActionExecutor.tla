--------------------------- MODULE MCActionExecutor ---------------------------
(***************************************************************************)
(* ActionExecutor for TLC: one send, whose provider call the client never  *)
(* repeats, and one update, whose call it may repeat, with a few handlers. *)
(***************************************************************************)
EXTENDS ActionExecutor_proofs, TLC

CONSTANTS send, update, h1, h2
=============================================================================
