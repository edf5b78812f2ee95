------------------------------- MODULE MCOutbox -------------------------------
(* Outbox for TLC. *)
EXTENDS Outbox, TLC

CONSTANTS r1, r2, m1, m2, m3
=============================================================================
