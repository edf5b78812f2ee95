------------------------------ MODULE ExactSend ------------------------------
(***************************************************************************)
(* What the user is promised about a draft: a content is shown for         *)
(* approval, at most one at a time; an offer that is closed by a revision, *)
(* a discard or its expiry is gone for good; and only the content of the   *)
(* one offer the user approved is ever mailed, once.  Raced stands for     *)
(* what the user's own hand put in its place at the last moment.           *)
(***************************************************************************)
CONSTANTS Drafts, Contents, Nothing, Raced

VARIABLES phase,   \* of each draft's approval
          shown,   \* the content on offer or approved
          mailed   \* the content that left

vars == <<phase, shown, mailed>>

Init ==
  /\ phase = [d \in Drafts |-> "closed"]
  /\ shown = [d \in Drafts |-> Nothing]
  /\ mailed = [d \in Drafts |-> Nothing]

Offer(d, c) ==
  /\ phase[d] = "closed"
  /\ phase' = [phase EXCEPT ![d] = "open"]
  /\ shown' = [shown EXCEPT ![d] = c]
  /\ UNCHANGED mailed

Close(d) ==
  /\ phase[d] = "open"
  /\ phase' = [phase EXCEPT ![d] = "closed"]
  /\ shown' = [shown EXCEPT ![d] = Nothing]
  /\ UNCHANGED mailed

Approve(d) ==
  /\ phase[d] = "open"
  /\ phase' = [phase EXCEPT ![d] = "approved"]
  /\ UNCHANGED <<shown, mailed>>

Mail(d) ==
  /\ phase[d] = "approved"
  /\ phase' = [phase EXCEPT ![d] = "mailed"]
  /\ \E c \in {shown[d], Raced} : mailed' = [mailed EXCEPT ![d] = c]
  /\ UNCHANGED shown

Next == \E d \in Drafts : Close(d) \/ Approve(d) \/ Mail(d) \/ \E c \in Contents : Offer(d, c)

Spec == Init /\ [][Next]_vars
=============================================================================
