---------------------------- MODULE MCConversation ----------------------------
(* Conversation for TLC. *)
EXTENDS Conversation

CONSTANTS m1, m2, w1, w2
=============================================================================
