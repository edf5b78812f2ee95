---------------------------- MODULE MCEventPipeline ----------------------------
(* EventPipeline for TLC. *)
EXTENDS EventPipeline

CONSTANTS p1, p2, o1, r1
=============================================================================
