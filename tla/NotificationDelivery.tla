------------------------- MODULE NotificationDelivery -------------------------
(***************************************************************************)
(* One Telegram Notification: its row, the delivery messages that ask for  *)
(* it, the delivery workers, and what reaches the chat.  A Notification    *)
(* may carry an approval card, whose buttons hold a callback token: every  *)
(* attempt rotates the token, so only the card of the latest works.        *)
(*                                                                         *)
(* attempt_count grows with every claim and is never reset: it stands for  *)
(* the claim's UUID, for the token the attempt makes, and for its message. *)
(* A committed outbox row is taken to be published (module Outbox).        *)
(***************************************************************************)
EXTENDS Integers, FiniteSets

CONSTANTS Workers,
          MaxAttempts, \* delivery_max_attempts
          MaxRetries,  \* bound on "eva notification retry"
          MaxFaults    \* bound on crashes, slow workers, failed calls, duplicates

ASSUME DeliveryAssumption == MaxAttempts \in Nat \ {0} /\ MaxRetries \in Nat /\ MaxFaults \in Nat

VARIABLES
  note,     \* the notifications row
  card,     \* the approval and its callback_token_digest; "plain" without one
  chat,     \* the attempts whose message reached the user
  paired,   \* the user has an ACTIVE Telegram account
  topic,    \* delivery messages: "none", "out" for delivery, or "acked"
  worker,
  faults

deliveryVars == <<note, card, chat, paired, topic, worker, faults>>

\* the first message is of create_in_session, the others are of retries
Messages == 0 .. MaxRetries

Finished == {"SENT", "PERMANENT_FAILURE"}

Row(status, attempt) ==
  [status |-> status, claim |-> 0, lease |-> "none", attempt |-> attempt, due |-> TRUE]
Waiting == [pc |-> "idle", msg |-> 0, attempt |-> 0, retryable |-> FALSE]

DeliveryInit ==
  /\ note = Row("ABSENT", 0)
  /\ card \in {[status |-> s, token |-> 0] : s \in {"PENDING", "plain"}}
  /\ chat = {} /\ paired = TRUE
  /\ topic = [m \in Messages |-> "none"]
  /\ worker = [w \in Workers |-> Waiting]
  /\ faults = 0

Fault == faults < MaxFaults /\ faults' = faults + 1
Becomes(w, p) == worker' = [worker EXCEPT ![w].pc = p]
Rests(w) == worker' = [worker EXCEPT ![w] = Waiting]

-----------------------------------------------------------------------------
(* create_in_session: a replay of the transaction finds the dedupe key.    *)
Create ==
  /\ note.status = "ABSENT"
  /\ note' = Row("PENDING", 0)
  /\ topic' = [topic EXCEPT ![0] = "out"]
  /\ UNCHANGED <<card, chat, paired, worker, faults>>

(* Bug: a delivery in progress is taken over before its lease lapses.      *)
ClaimableNow ==
  \/ note.status \in {"PENDING", "SENDING"}
  \/ note.status = "RETRYABLE_FAILURE" /\ note.due

(* Bug: the delivery of a worker that died is nobody's.                    *)
ClaimableFresh ==
  \/ note.status = "PENDING"
  \/ note.status = "RETRYABLE_FAILURE" /\ note.due

Claimable ==
  \/ note.status = "PENDING"
  \/ note.status = "RETRYABLE_FAILURE" /\ note.due
  \/ note.status = "SENDING" /\ note.lease = "lapsed"

(* NotificationRepository.claim.                                           *)
ClaimNote(w, m) ==
  /\ worker[w].pc = "idle" /\ topic[m] = "out"
  /\ Claimable
  /\ LET n == note.attempt + 1 IN
       /\ note' = [status |-> "SENDING", claim |-> n, lease |-> "live", attempt |-> n,
                   due |-> TRUE]
       /\ worker' = [worker EXCEPT ![w] =
                       [pc |-> "loading", msg |-> m, attempt |-> n, retryable |-> FALSE]]
  /\ UNCHANGED <<card, chat, paired, topic, faults>>

(* No claim: the message of a finished Notification is acknowledged, any   *)
(* other is deferred, which changes nothing.                               *)
Skip(m) ==
  /\ topic[m] = "out" /\ note.status \in Finished
  /\ topic' = [topic EXCEPT ![m] = "acked"]
  /\ UNCHANGED <<note, card, chat, paired, worker, faults>>

(* _claim_predicate                                                        *)
Owns(w) == note.status = "SENDING" /\ note.claim = worker[w].attempt

Fails(w, retryable) ==
  worker' = [worker EXCEPT ![w].pc = "failing", ![w].retryable = retryable]

(* load_delivery_subject                                                   *)
Load(w) ==
  /\ worker[w].pc = "loading"
  /\ IF Owns(w) /\ paired
       THEN Becomes(w, IF card.status = "plain" THEN "sending" ELSE "preparing")
       ELSE Fails(w, FALSE)
  /\ UNCHANGED <<note, card, chat, paired, topic, faults>>

(* Bug: the token is rotated under a claim that was taken over.            *)
MayPrepareStale(w) == card.status = "PENDING"

MayPrepare(w) == Owns(w) /\ card.status = "PENDING"

(* prepare_approval_card                                                   *)
Prepare(w) ==
  /\ worker[w].pc = "preparing"
  /\ IF MayPrepare(w)
       THEN Becomes(w, "sending") /\ card' = [card EXCEPT !.token = worker[w].attempt]
       ELSE Fails(w, FALSE) /\ UNCHANGED card
  /\ UNCHANGED <<note, chat, paired, topic, faults>>

(* Either of these transactions raises instead.                            *)
Stumble(w) ==
  /\ worker[w].pc \in {"loading", "preparing"} /\ Fault
  /\ Fails(w, TRUE)
  /\ UNCHANGED <<note, card, chat, paired, topic>>

(* send_message is answered.  The segments before the last have no         *)
(* buttons; the message counts with its last one.                          *)
Send(w) ==
  /\ worker[w].pc = "sending"
  /\ Becomes(w, "marking") /\ chat' = chat \union {worker[w].attempt}
  /\ UNCHANGED <<note, card, paired, topic, faults>>

(* It raises, whether the message reached the user or not; the error class *)
(* decides whether a retry is allowed.                                     *)
SendRaises(w) ==
  /\ worker[w].pc = "sending" /\ Fault
  /\ \E retryable \in BOOLEAN : Fails(w, retryable)
  /\ chat' \in {chat, chat \union {worker[w].attempt}}
  /\ UNCHANGED <<note, card, paired, topic>>

(* Bug: the claim stays on the row.                                        *)
SentRowClaimed == [note EXCEPT !.status = "SENT"]

SentRow == Row("SENT", note.attempt)

(* mark_sent: a stale claim is a conflict, which the handler takes for a   *)
(* failure; so is an error of the transaction.                             *)
MarkSent(w) ==
  /\ worker[w].pc = "marking" /\ Owns(w)
  /\ note' = SentRow
  /\ Rests(w) /\ topic' = [topic EXCEPT ![worker[w].msg] = "acked"]
  /\ UNCHANGED <<card, chat, paired, faults>>

MarkSentRaises(w) ==
  /\ worker[w].pc = "marking"
  /\ IF Owns(w) THEN Fault ELSE UNCHANGED faults
  /\ Fails(w, TRUE)
  /\ UNCHANGED <<note, card, chat, paired, topic>>

(* fail: terminal outcomes are acknowledged, retryable ones are not; under *)
(* a stale claim it raises, and the message stays out for delivery.        *)
RecordFailure(w) ==
  /\ worker[w].pc = "failing" /\ Owns(w)
  /\ LET again == worker[w].retryable /\ worker[w].attempt < MaxAttempts IN
       IF again
         THEN /\ note' = [Row("RETRYABLE_FAILURE", note.attempt) EXCEPT !.due = FALSE]
              /\ UNCHANGED topic
         ELSE /\ note' = Row("PERMANENT_FAILURE", note.attempt)
              /\ topic' = [topic EXCEPT ![worker[w].msg] = "acked"]
  /\ Rests(w)
  /\ UNCHANGED <<card, chat, paired, faults>>

RecordNothing(w) ==
  /\ worker[w].pc = "failing" /\ ~Owns(w)
  /\ Rests(w)
  /\ UNCHANGED <<note, card, chat, paired, topic, faults>>

WorkerStep(w) ==
  \/ Load(w) \/ Prepare(w) \/ Send(w) \/ MarkSent(w) \/ MarkSentRaises(w)
  \/ RecordFailure(w) \/ RecordNothing(w)

-----------------------------------------------------------------------------
(* The worker dies, or the transaction that records its failure raises.    *)
Crash(w) ==
  /\ worker[w].pc # "idle" /\ Fault
  /\ Rests(w)
  /\ UNCHANGED <<note, card, chat, paired, topic>>

(* lease_expires_at passes, under a worker that died or is only slow.      *)
Lapse ==
  /\ note.lease = "live"
  /\ note' = [note EXCEPT !.lease = "lapsed"]
  /\ IF \E w \in Workers : worker[w].attempt = note.claim THEN Fault ELSE UNCHANGED faults
  /\ UNCHANGED <<card, chat, paired, topic, worker>>

(* next_retry_at passes.                                                   *)
ComeDue ==
  /\ ~note.due
  /\ note' = [note EXCEPT !.due = TRUE]
  /\ UNCHANGED <<card, chat, paired, topic, worker, faults>>

(* Pub/Sub, or a relay that forgot it had published, delivers once more.   *)
Redeliver(m) ==
  /\ topic[m] = "acked" /\ Fault
  /\ topic' = [topic EXCEPT ![m] = "out"]
  /\ UNCHANGED <<note, card, chat, paired, worker>>

(* NotificationRepository.retry, an operator's command.                    *)
Retry(m) ==
  /\ note.status \in {"RETRYABLE_FAILURE", "PERMANENT_FAILURE"}
  /\ m # 0 /\ topic[m] = "none"
  /\ note' = Row("PENDING", note.attempt)
  /\ topic' = [topic EXCEPT ![m] = "out"]
  /\ UNCHANGED <<card, chat, paired, worker, faults>>

(* The user presses a button: the digest finds the approval of the latest  *)
(* token only (grant_and_queue_send, open_revision, discard_and_queue_delete).   *)
Press(t) ==
  /\ t \in chat /\ t = card.token /\ card.status = "PENDING" /\ paired
  /\ card' = [card EXCEPT !.status = "DECIDED"]
  /\ UNCHANGED <<note, chat, paired, topic, worker, faults>>

(* The approval expires, or its draft is revised or fails.                 *)
Withdraw ==
  /\ card.status = "PENDING"
  /\ card' = [card EXCEPT !.status = "WITHDRAWN"]
  /\ UNCHANGED <<note, chat, paired, topic, worker, faults>>

(* TelegramAccountRepository.revoke and consume_pairing.                   *)
SwitchPairing ==
  /\ paired' = ~paired
  /\ UNCHANGED <<note, card, chat, topic, worker, faults>>

DeliveryNext ==
  \/ Create \/ Lapse \/ ComeDue \/ Withdraw \/ SwitchPairing
  \/ \E t \in chat : Press(t)
  \/ \E m \in Messages : Skip(m) \/ Redeliver(m) \/ Retry(m)
  \/ \E w \in Workers : \/ WorkerStep(w) \/ Stumble(w) \/ SendRaises(w) \/ Crash(w)
                        \/ \E m \in Messages : ClaimNote(w, m)

DeliverySpec == DeliveryInit /\ [][DeliveryNext]_deliveryVars

(* The workers pull for ever, and Pub/Sub delivers what was not            *)
(* acknowledged; clocks advance.                                           *)
DeliveryFairness ==
  /\ WF_deliveryVars(Lapse) /\ WF_deliveryVars(ComeDue)
  /\ \A w \in Workers : WF_deliveryVars(WorkerStep(w))
  /\ \A m \in Messages : WF_deliveryVars(\E w \in Workers : ClaimNote(w, m))

FairDeliverySpec == DeliverySpec /\ DeliveryFairness

-----------------------------------------------------------------------------
DeliveryTypeOK ==
  /\ note \in [status : {"ABSENT", "PENDING", "SENDING", "RETRYABLE_FAILURE"} \union Finished,
               claim : Nat, lease : {"none", "live", "lapsed"}, attempt : Nat, due : BOOLEAN]
  /\ note.claim <= note.attempt
  /\ note.status = "SENDING" <=> note.claim # 0
  /\ note.claim # 0 <=> note.lease # "none"
  /\ note.status = "ABSENT" => note.attempt = 0
  /\ card \in [status : {"plain", "PENDING", "DECIDED", "WITHDRAWN"}, token : 0 .. note.attempt]
  /\ chat \subseteq 1 .. note.attempt /\ paired \in BOOLEAN
  /\ topic \in [Messages -> {"none", "out", "acked"}]
  /\ worker \in [Workers -> [pc : {"idle", "loading", "preparing", "sending", "marking",
                                   "failing"},
                             msg : Messages, attempt : 0 .. note.attempt,
                             retryable : BOOLEAN]]
  /\ faults \in 0 .. MaxFaults

(* A SENT Notification reached the user, and of its cards the user holds   *)
(* the one whose buttons work: no slower attempt rotated the token after   *)
(* it was shown (prepare_approval_card, mark_sent).                        *)
SentCardIsLive ==
  note.status = "SENT" => /\ chat # {}
                          /\ card.status # "plain" => card.token \in chat

(* The user gets a message once, and once more at most for each fault.     *)
OneMessageUnlessFault == Cardinality(chat) <= 1 + faults

(* Every Notification is delivered or given up in the end.                 *)
NoticeSettles == note.status = "PENDING" ~> note.status \in Finished
=============================================================================
