------------------------------ MODULE Conversation ------------------------------
(***************************************************************************)
(* The Telegram conversation of one paired account: the webhook posts each *)
(* message as an Event, Pub/Sub delivers its turn to the conversation      *)
(* workers, a worker puts the turn into a conversation, claims it, answers *)
(* it, by a reply or by a new version of the draft under revision, and     *)
(* commits the assistant turn with its Notification.                       *)
(*                                                                         *)
(* A general conversation is named by the message that began it, and Mail  *)
(* is the conversation about the Situation of a thread Eva gave notice of. *)
(* The rows of a conversation are its log: sequence is the place in it.    *)
(* Transactions that lock the same rows are taken one after the other.     *)
(***************************************************************************)
EXTENDS Naturals, FiniteSets, SequencesExt

CONSTANTS Messages,     \* Telegram updates that carry a text
          Workers,      \* conversation workers
          Mail, None,
          MaxAttempts,  \* telegram_max_attempts
          Cards,        \* bound: how often Change is pressed
          Pairings,     \* bound: pairing codes left to pair the account again
          MaxFaults     \* bound: crashes, failures, slow workers

Convs == Messages \union {Mail}
Requests == Convs \union {"plain", "new"}

ASSUME ConversationAssumption ==
  /\ Mail \notin Messages /\ None \notin Convs \union Workers
  /\ MaxAttempts \in Nat \ {0} /\ {Cards, Pairings, MaxFaults} \subseteq Nat

VARIABLES
  account,  \* telegram_accounts.status
  codes,    \* pairing codes not consumed yet
  post,     \* by message: its delivery and what it asks for
  handled,  \* messages whose event_processing is HANDLED
  turn,     \* conversation_turns of role USER, by message
  log,      \* conversation_turns by conversation, in sequence
  recent,   \* pairs of conversations, the second with the later last_activity_at
  active,   \* conversations with status ACTIVE
  session,  \* action_revision_sessions: the newest one, of the Mail conversation
  worker,   \* what each worker holds in memory
  faults

vars == <<account, codes, post, handled, turn, log, recent, active, session, worker,
          faults>>
rows == <<log, recent, active>>

NoTurn == [status |-> "ABSENT", conv |-> None, attempt |-> 0, claim |-> None,
           timer |-> "none"]
Resting == [pc |-> "idle", msg |-> None, session |-> 0]

Init ==
  /\ account = "ACTIVE" /\ codes = Pairings
  /\ post = [m \in Messages |-> [at |-> "unsent", to |-> "plain"]]
  /\ handled = {}
  /\ turn = [m \in Messages |-> NoTurn]
  /\ log = [c \in Convs |-> <<>>]
  /\ recent = {} /\ active = {}
  /\ session = [number |-> 0, state |-> "none"]
  /\ worker = [w \in Workers |-> Resting]
  /\ faults = 0

Fault == faults < MaxFaults /\ faults' = faults + 1

Ended(m) == turn[m].status \in {"SUCCEEDED", "PERMANENT_FAILURE"}
AssistantTurn(m) == [role |-> "ASSISTANT", of |-> m]
UserTurn(m) == [role |-> "USER", of |-> m]

-----------------------------------------------------------------------------
(* TelegramWebhookService._handle_message and TelegramEventService.ingest; *)
(* a reply is to a Notification the user has been shown.                   *)
Post(m, to) ==
  /\ post[m].at = "unsent" /\ account = "ACTIVE"
  /\ to \in Messages => \E x \in Messages : AssistantTurn(x) \in ToSet(log[to])
  /\ post' = [post EXCEPT ![m] = [at |-> "out", to |-> to]]
  /\ UNCHANGED <<account, codes, handled, turn, rows, session, worker, faults>>

Revoke ==
  /\ account = "ACTIVE"
  /\ account' = "REVOKED"
  /\ UNCHANGED <<codes, post, handled, turn, rows, session, worker, faults>>

(* consume_pairing of the account's own identity.                          *)
PairAgain ==
  /\ codes > 0
  /\ account' = "ACTIVE" /\ codes' = codes - 1
  /\ UNCHANGED <<post, handled, turn, rows, session, worker, faults>>

Touch(c) == {p \in recent : p[1] # c} \union ((Convs \ {c}) \X {c})

(* open_revision, of an offer made in the Mail conversation: the session   *)
(* before is CANCELLED.                                                    *)
PressChange ==
  /\ account = "ACTIVE" /\ session.number < Cards
  /\ session' = [number |-> session.number + 1, state |-> "open"]
  /\ active' = active \union {Mail}
  /\ recent' = Touch(Mail)
  /\ UNCHANGED <<account, codes, post, handled, turn, log, worker, faults>>

SessionLapses ==
  /\ session.state = "open"
  /\ session' = [session EXCEPT !.state = "lapsed"]
  /\ UNCHANGED <<account, codes, post, handled, turn, rows, worker, faults>>

-----------------------------------------------------------------------------
(* _resolve_conversation: without a reply or /new, the latest that is      *)
(* ACTIVE; if none is, a new one.                                          *)
Latest == {c \in active : \A d \in active \ {c} : <<d, c>> \in recent}

Targets(m) ==
  IF post[m].to \in Convs THEN {post[m].to}
  ELSE IF post[m].to = "new" \/ active = {} THEN {m}
  ELSE Latest

StillActive(m) == IF post[m].to = "new" THEN active \intersect {Mail} ELSE active

(* _ensure_notification_turn; the other Notifications have theirs.         *)
NoticeTurn(m) ==
  IF post[m].to = Mail /\ AssistantTurn(Mail) \notin ToSet(log[Mail])
    THEN <<AssistantTurn(Mail)>> ELSE <<>>

Competing(c, m) == \E x \in Messages \ {m} : turn[x].conv = c /\ turn[x].status = "RUNNING"

Claimed(t, w) == [status |-> "RUNNING", conv |-> t.conv, attempt |-> t.attempt + 1,
                  claim |-> w, timer |-> "running"]

Begun(w, m) == worker' = [worker EXCEPT ![w] = [Resting EXCEPT !.pc = "begun", !.msg = m]]

Delivered(w, m) == worker[w].pc = "idle" /\ post[m].at = "out" /\ account = "ACTIVE"

(* The first time resolve_and_claim sees the Event it commits the turn,    *)
(* and claims it unless another turn of the conversation is RUNNING.       *)
TakeUp(w, m) ==
  /\ Delivered(w, m) /\ turn[m].status = "ABSENT"
  /\ \E c \in Targets(m) :
       LET queued == [NoTurn EXCEPT !.status = "QUEUED", !.conv = c]
       IN /\ log' = [log EXCEPT ![c] = @ \o NoticeTurn(m) \o <<UserTurn(m)>>]
          /\ recent' = Touch(c)
          /\ active' = StillActive(m) \union {c}
          /\ IF Competing(c, m)
             THEN turn' = [turn EXCEPT ![m] = queued] /\ UNCHANGED worker
             ELSE turn' = [turn EXCEPT ![m] = Claimed(queued, w)] /\ Begun(w, m)
  /\ UNCHANGED <<account, codes, post, handled, session, faults>>

(* Bug: a RUNNING turn is never claimed again.                             *)
EligibleOnce(m) ==
  \/ turn[m].status = "QUEUED"
  \/ turn[m].status = "RETRYABLE_FAILURE" /\ turn[m].timer = "passed"

Eligible(m) ==
  \/ turn[m].status = "QUEUED"
  \/ turn[m].status \in {"RETRYABLE_FAILURE", "RUNNING"} /\ turn[m].timer = "passed"

(* resolve_and_claim of a turn that is there.                              *)
Claim(w, m) ==
  /\ Delivered(w, m) /\ Eligible(m) /\ ~Competing(turn[m].conv, m)
  /\ turn' = [turn EXCEPT ![m] = Claimed(@, w)]
  /\ Begun(w, m)
  /\ UNCHANGED <<account, codes, post, handled, rows, session, faults>>

(* SUCCEEDED for the worker that ended the turn, TERMINAL for another; when *)
(* the account is gone resolve_and_claim raises and nothing is said.       *)
Acknowledge(m) ==
  /\ post[m].at = "out" /\ account = "ACTIVE" /\ Ended(m)
  /\ post' = [post EXCEPT ![m].at = "acked"]
  /\ UNCHANGED <<account, codes, handled, turn, rows, session, worker, faults>>

-----------------------------------------------------------------------------
(* Bug: complete and fail look for no claim.                               *)
OwnsAny(w) == TRUE

(* _claim_predicate.                                                       *)
Owns(w) == /\ turn[worker[w].msg].status = "RUNNING"
           /\ turn[worker[w].msg].claim = w

(* Bug: the claim of a turn that has ended or waits is kept.               *)
SettledKeepsClaim(m, status) ==
  [turn EXCEPT ![m].status = status,
               ![m].timer = IF status = "RETRYABLE_FAILURE" THEN "running" ELSE "none"]

Settled(m, status) ==
  [turn EXCEPT ![m].status = status, ![m].claim = None,
               ![m].timer = IF status = "RETRYABLE_FAILURE" THEN "running" ELSE "none"]

(* ConversationRepository.complete, for an answer or the fallback.         *)
Complete(w) ==
  LET m == worker[w].msg
      c == turn[m].conv
  IN /\ turn' = Settled(m, "SUCCEEDED")
     /\ log' = [log EXCEPT ![c] = Append(@, AssistantTurn(m))]
     /\ recent' = Touch(c)
     /\ handled' = handled \union {m}
     /\ worker' = [worker EXCEPT ![w] = Resting]
     /\ UNCHANGED active

(* ConversationRepository.fail.                                            *)
Fail(w, status) ==
  /\ turn' = Settled(worker[w].msg, status)
  /\ worker' = [worker EXCEPT ![w] = Resting]
  /\ handled' = IF status = "PERMANENT_FAILURE" THEN handled \union {worker[w].msg} ELSE handled
  /\ UNCHANGED rows

(* ConversationService._retry: the last attempt ends with the fallback.    *)
Retry(w) ==
  IF turn[worker[w].msg].attempt < MaxAttempts THEN Fail(w, "RETRYABLE_FAILURE")
                                               ELSE Complete(w)

InScope(w) == turn[worker[w].msg].conv = Mail

(* load_subject, and load_revision, which ends a session that lapsed.      *)
LookUp(w) ==
  /\ worker[w].pc = "begun" /\ Owns(w)
  /\ IF account # "ACTIVE" \/ (session.state = "open" /\ ~InScope(w))
     THEN Fail(w, "PERMANENT_FAILURE") /\ UNCHANGED session
     ELSE /\ worker' = [worker EXCEPT
                          ![w].pc = IF session.state = "open" THEN "revising" ELSE "answering",
                          ![w].session = IF session.state = "open" THEN session.number ELSE 0]
          /\ session' = IF session.state = "lapsed" THEN [session EXCEPT !.state = "none"]
                                                    ELSE session
          /\ UNCHANGED <<turn, handled, rows>>
  /\ UNCHANGED <<account, codes, post, faults>>

(* The session the worker looked up is the one it would complete.          *)
SessionFound(w) == session.number = worker[w].session /\ session.state # "none"

(* complete_revision asks for no claim on the turn.                        *)
Revise(w) ==
  /\ worker[w].pc = "revising" /\ SessionFound(w) /\ session.state = "open"
  /\ session' = [session EXCEPT !.state = "none"]
  /\ worker' = [worker EXCEPT ![w].pc = "answering"]
  /\ UNCHANGED <<account, codes, post, handled, turn, rows, faults>>

(* A session that lapsed since is a retry, one that is gone INVALID_SCOPE. *)
ReviseTooLate(w) ==
  /\ worker[w].pc = "revising" /\ Owns(w)
  /\ \/ SessionFound(w) /\ session.state = "lapsed" /\ Retry(w)
     \/ ~SessionFound(w) /\ Fail(w, "PERMANENT_FAILURE")
  /\ UNCHANGED <<account, codes, post, session, faults>>

Answer(w) ==
  /\ worker[w].pc = "answering" /\ Owns(w)
  /\ Complete(w)
  /\ UNCHANGED <<account, codes, post, session, faults>>

(* A provider, the model, the preparation or a transaction fails.          *)
ProviderFails(w) ==
  /\ worker[w].pc # "idle" /\ Owns(w) /\ Fault
  /\ Retry(w)
  /\ UNCHANGED <<account, codes, post, session>>

(* A permanent failure of the model: the fallback at once.                 *)
ModelRefuses(w) ==
  /\ worker[w].pc # "idle" /\ Owns(w) /\ Fault
  /\ Complete(w)
  /\ UNCHANGED <<account, codes, post, session>>

(* The worker dies over its message.                                       *)
Crash(w) ==
  /\ worker[w].pc # "idle" /\ Fault
  /\ worker' = [worker EXCEPT ![w] = Resting]
  /\ UNCHANGED <<account, codes, post, handled, turn, rows, session>>

(* A worker whose claim is gone raises ConversationConflictError.          *)
Superseded(w) ==
  /\ worker[w].pc # "idle" /\ ~Owns(w)
  /\ worker[w].pc = "revising" => ~(SessionFound(w) /\ session.state = "open")
  /\ worker' = [worker EXCEPT ![w] = Resting]
  /\ UNCHANGED <<account, codes, post, handled, turn, rows, session, faults>>

(* lease_expires_at or next_retry_at passes; the worker of a RUNNING turn  *)
(* may still be at it.                                                     *)
TimerPasses(m) ==
  /\ turn[m].timer = "running"
  /\ turn' = [turn EXCEPT ![m].timer = "passed"]
  /\ IF \E w \in Workers : turn[m].claim = w /\ worker[w].msg = m THEN Fault
                                                                 ELSE UNCHANGED faults
  /\ UNCHANGED <<account, codes, post, handled, rows, session, worker>>

-----------------------------------------------------------------------------
WorkerStep(w) ==
  LookUp(w) \/ Revise(w) \/ ReviseTooLate(w) \/ Answer(w) \/ Superseded(w)

Delivery(m) == Acknowledge(m) \/ \E w \in Workers : TakeUp(w, m) \/ Claim(w, m)

Next ==
  \/ \E m \in Messages, to \in Requests : Post(m, to)
  \/ \E m \in Messages : Delivery(m) \/ TimerPasses(m)
  \/ \E w \in Workers : \/ WorkerStep(w) \/ ProviderFails(w)
                        \/ ModelRefuses(w) \/ Crash(w)
  \/ PressChange \/ SessionLapses \/ Revoke \/ PairAgain

Spec == Init /\ [][Next]_vars

(* Pub/Sub delivers what is not acknowledged again, in any order; a worker *)
(* goes on with what it began and timers pass.  Nothing is assumed of the  *)
(* user or of faults.                                                      *)
FairSpec ==
  /\ Spec
  /\ \A m \in Messages : WF_vars(Delivery(m)) /\ WF_vars(TimerPasses(m))
  /\ \A w \in Workers : WF_vars(WorkerStep(w))

-----------------------------------------------------------------------------
ConvTypeOK ==
  /\ account \in {"ACTIVE", "REVOKED"} /\ codes \in 0 .. Pairings /\ faults \in 0 .. MaxFaults
  /\ post \in [Messages -> [at : {"unsent", "out", "acked"}, to : Requests]]
  /\ handled \subseteq Messages
  /\ turn \in [Messages ->
       [status : {"ABSENT", "QUEUED", "RUNNING", "RETRYABLE_FAILURE", "SUCCEEDED",
                  "PERMANENT_FAILURE"},
        conv : Convs \union {None}, attempt : Nat, claim : Workers \union {None},
        timer : {"none", "running", "passed"}]]
  /\ \A m \in Messages : turn[m].claim # None <=> turn[m].status = "RUNNING"
  /\ log \in [Convs -> Seq([role : {"USER", "ASSISTANT"}, of : Convs])]
  /\ recent \subseteq Convs \X Convs /\ active \subseteq Convs
  /\ \A c, d \in active : c # d => (<<c, d>> \in recent <=> <<d, c>> \notin recent)
  /\ session \in [number : 0 .. Cards, state : {"none", "open", "lapsed"}]
  /\ worker \in [Workers -> [pc : {"idle", "begun", "revising", "answering"},
                             msg : Messages \union {None}, session : 0 .. Cards]]

Replies(m) ==
  UNION {{<<c, i>> : i \in {j \in 1 .. Len(log[c]) : log[c][j] = AssistantTurn(m)}} : c \in Convs}

(* "Only one worker may generate the next assistant turn at a time": of a  *)
(* conversation's turns one is RUNNING at most.  A turn that SUCCEEDED has *)
(* one reply, after it and in its conversation; no other turn has any,     *)
(* however many workers worked on it; and the Event is HANDLED with the    *)
(* end of its turn and not before (resolve_and_claim, complete, fail).     *)
AnsweredOnce ==
  \A m \in Messages :
    /\ turn[m].status = "RUNNING" =>
         \A x \in Messages \ {m} : turn[x].status = "RUNNING" => turn[x].conv # turn[m].conv
    /\ Cardinality(Replies(m)) = IF turn[m].status = "SUCCEEDED" THEN 1 ELSE 0
    /\ \A r \in Replies(m) :
         r[1] = turn[m].conv /\ \E i \in 1 .. r[2] : log[r[1]][i] = UserTurn(m)
    /\ m \in handled <=> Ended(m)

(* Each message is answered or given up, unless the account is revoked: no *)
(* turn is blocked for ever by one whose worker died, or by a retry.       *)
MessageSettles ==
  \A m \in Messages : post[m].at = "out" ~> Ended(m) \/ account = "REVOKED"

(* "Rapid messages: serialize per conversation and process in sequence     *)
(* order": the replies of a conversation come in the order of its turns.   *)
RepliesInOrder ==
  \A c \in Convs : \A i, j \in 1 .. Len(log[c]) :
    i < j /\ {log[c][i], log[c][j]} \subseteq {AssistantTurn(m) : m \in Messages}
      => \E k, l \in 1 .. Len(log[c]) :
           k < l /\ log[c][k] = UserTurn(log[c][i].of) /\ log[c][l] = UserTurn(log[c][j].of)
=============================================================================
