--------------------- MODULE NotificationDelivery_proofs ---------------------
(***************************************************************************)
(* Proofs about NotificationDelivery for any Workers and any bounds.       *)
(***************************************************************************)
EXTENDS NotificationDelivery, FiniteSetTheorems, TLAPS

(* Every claim has a number of its own, so a worker that lost its claim    *)
(* cannot hold the next one.                                               *)
ClaimsDiffer ==
  /\ \A w \in Workers : worker[w].pc = "idle" <=> worker[w].attempt = 0
  /\ \A v, w \in Workers :
       worker[v].pc # "idle" /\ worker[v].attempt = worker[w].attempt => v = w

(* The token of the card is that of the attempt that holds the claim, from *)
(* its rotation on; and a message is marked after it was shown.            *)
ClaimantKnows ==
  \A w \in Workers :
    /\ worker[w].pc = "marking" => worker[w].attempt \in chat
    /\ worker[w].pc \in {"sending", "marking"} /\ Owns(w) =>
         card.status = "plain" \/ card.token = worker[w].attempt

DeliveryInv == DeliveryTypeOK /\ ClaimsDiffer /\ ClaimantKnows /\ SentCardIsLive

-----------------------------------------------------------------------------
WorkerRecord ==
  [pc : {"idle", "loading", "preparing", "sending", "marking", "failing"},
   msg : Messages, attempt : 0 .. note.attempt, retryable : BOOLEAN]

LEMMA Initial == DeliveryInit => DeliveryInv
  <1> SUFFICES ASSUME DeliveryInit PROVE DeliveryInv
    OBVIOUS
  <1> USE DeliveryAssumption DEF DeliveryInit, Row, Waiting, Messages, Finished
  <1>1. DeliveryTypeOK
    BY DEF DeliveryTypeOK
  <1>2. ClaimsDiffer /\ ClaimantKnows /\ SentCardIsLive
    BY DEF ClaimsDiffer, ClaimantKnows, SentCardIsLive, Owns
  <1> QED  BY <1>1, <1>2 DEF DeliveryInv

-----------------------------------------------------------------------------
(* A step of a worker that claims nothing leaves the others alone, and     *)
(* keeps its attempt or rests.                                             *)
WorkerActs(w) == WorkerStep(w) \/ Stumble(w) \/ SendRaises(w) \/ Crash(w)

Moved(w) ==
  /\ worker' \in [Workers -> WorkerRecord]
  /\ \A v \in Workers : v # w => worker'[v] = worker[v]
  /\ \/ worker'[w].attempt = worker[w].attempt /\ worker'[w].pc # "idle"
     \/ worker'[w].attempt = 0 /\ worker'[w].pc = "idle"

LEMMA WorkerMoves ==
  ASSUME DeliveryInv, NEW w \in Workers, WorkerActs(w)
  PROVE  worker[w].pc # "idle" /\ Moved(w)
  <1>1. worker \in [Workers -> WorkerRecord]
    BY DEF DeliveryInv, DeliveryTypeOK, WorkerRecord
  <1>2. Waiting \in WorkerRecord /\ Waiting.pc = "idle" /\ Waiting.attempt = 0
    BY DeliveryAssumption DEF DeliveryInv, DeliveryTypeOK, WorkerRecord, Waiting, Messages
  <1>3. Rests(w) => Moved(w)
    BY <1>1, <1>2 DEF Rests, Moved
  <1>4. \A p \in {"sending", "preparing", "marking"} : Becomes(w, p) => Moved(w)
    BY <1>1 DEF Becomes, WorkerRecord, Moved
  <1>5. \A r \in BOOLEAN : Fails(w, r) => Moved(w)
    <2> SUFFICES ASSUME NEW r \in BOOLEAN, Fails(w, r) PROVE Moved(w)
      OBVIOUS
    <2> DEFINE x == [worker[w] EXCEPT !.pc = "failing", !.retryable = r]
    <2>1. x \in WorkerRecord /\ x.attempt = worker[w].attempt /\ x.pc = "failing"
      BY <1>1 DEF WorkerRecord
    <2>2. worker' = [worker EXCEPT ![w] = x]
      BY <1>1 DEF Fails, WorkerRecord
    <2> HIDE DEF x
    <2> QED  BY <1>1, <2>1, <2>2 DEF Moved
  <1>6. CASE Load(w)
    BY <1>6, <1>4, <1>5 DEF Load
  <1>7. CASE Prepare(w)
    BY <1>7, <1>4, <1>5 DEF Prepare
  <1>8. CASE Send(w) \/ SendRaises(w)
    BY <1>8, <1>4, <1>5 DEF Send, SendRaises
  <1>9. CASE MarkSent(w) \/ MarkSentRaises(w)
    BY <1>9, <1>3, <1>5 DEF MarkSent, MarkSentRaises
  <1>10. CASE RecordFailure(w) \/ RecordNothing(w) \/ Crash(w)
    BY <1>10, <1>3 DEF RecordFailure, RecordNothing, Crash
  <1>11. CASE Stumble(w)
    BY <1>11, <1>5 DEF Stumble
  <1> QED  BY <1>6, <1>7, <1>8, <1>9, <1>10, <1>11 DEF WorkerActs, WorkerStep, Load, Prepare,
              Send, SendRaises, MarkSent, MarkSentRaises, RecordFailure, RecordNothing, Crash, Stumble

-----------------------------------------------------------------------------
(* What is not the workers'.                                               *)
RowsOK ==
  /\ note \in [status : {"ABSENT", "PENDING", "SENDING", "RETRYABLE_FAILURE"} \union Finished,
               claim : Nat, lease : {"none", "live", "lapsed"}, attempt : Nat, due : BOOLEAN]
  /\ note.claim <= note.attempt
  /\ note.status = "SENDING" <=> note.claim # 0
  /\ note.claim # 0 <=> note.lease # "none"
  /\ note.status = "ABSENT" => note.attempt = 0
  /\ card \in [status : {"plain", "PENDING", "DECIDED", "WITHDRAWN"}, token : 0 .. note.attempt]
  /\ chat \subseteq 1 .. note.attempt /\ paired \in BOOLEAN
  /\ topic \in [Messages -> {"none", "out", "acked"}]
  /\ faults \in 0 .. MaxFaults

LEMMA TypesSplit ==
  DeliveryTypeOK <=> RowsOK /\ worker \in [Workers -> WorkerRecord]
  BY DEF DeliveryTypeOK, RowsOK, WorkerRecord

LEMMA FaultCounted ==
  ASSUME faults \in 0 .. MaxFaults, Fault
  PROVE  faults' \in 0 .. MaxFaults
  BY DeliveryAssumption DEF Fault

LEMMA WorkerKeepsRows ==
  ASSUME DeliveryInv, NEW w \in Workers, WorkerActs(w)
  PROVE  RowsOK' /\ note'.attempt = note.attempt
  <1>1. RowsOK /\ worker[w].attempt \in 1 .. note.attempt /\ worker[w].msg \in Messages
    BY WorkerMoves, TypesSplit DEF DeliveryInv, ClaimsDiffer, WorkerRecord
  <1> USE DEF RowsOK
  <1>2. CASE Load(w)
    BY <1>1, <1>2 DEF Load
  <1>3. CASE Prepare(w)
    <2>1. card' = card \/ card' = [card EXCEPT !.token = worker[w].attempt]
      BY <1>3 DEF Prepare
    <2>2. card' \in [status : {"plain", "PENDING", "DECIDED", "WITHDRAWN"},
                     token : 0 .. note.attempt]
      BY <1>1, <2>1
    <2> QED  BY <1>1, <1>3, <2>2 DEF Prepare
  <1>4. CASE Send(w)
    BY <1>1, <1>4 DEF Send
  <1>5. CASE SendRaises(w)
    BY <1>1, <1>5, FaultCounted DEF SendRaises
  <1>6. CASE MarkSent(w)
    BY <1>1, <1>6 DEF MarkSent, Row, SentRow, Finished
  <1>7. CASE MarkSentRaises(w)
    BY <1>1, <1>7, FaultCounted DEF MarkSentRaises
  <1>8. CASE RecordFailure(w)
    <2>1. /\ note' \in {[Row("RETRYABLE_FAILURE", note.attempt) EXCEPT !.due = FALSE],
                        Row("PERMANENT_FAILURE", note.attempt)}
          /\ topic' = topic \/ topic' = [topic EXCEPT ![worker[w].msg] = "acked"]
          /\ UNCHANGED <<card, chat, paired, faults>>
      BY <1>8 DEF RecordFailure
    <2>2. CASE note' = [Row("RETRYABLE_FAILURE", note.attempt) EXCEPT !.due = FALSE]
      <3>1. note' = [status |-> "RETRYABLE_FAILURE", claim |-> 0, lease |-> "none",
                     attempt |-> note.attempt, due |-> FALSE]
        BY <2>2, Zenon DEF Row
      <3> QED  BY <1>1, <2>1, <3>1
    <2>3. CASE note' = Row("PERMANENT_FAILURE", note.attempt)
      <3>1. note' = [status |-> "PERMANENT_FAILURE", claim |-> 0, lease |-> "none",
                     attempt |-> note.attempt, due |-> TRUE]
        BY <2>3 DEF Row
      <3> QED  BY <1>1, <2>1, <3>1 DEF Finished
    <2> QED  BY <2>1, <2>2, <2>3
  <1>9. CASE RecordNothing(w)
    BY <1>1, <1>9 DEF RecordNothing
  <1>10. CASE Crash(w)
    BY <1>1, <1>10, FaultCounted DEF Crash
  <1>11. CASE Stumble(w)
    BY <1>1, <1>11, FaultCounted DEF Stumble
  <1> QED  BY <1>2, <1>3, <1>4, <1>5, <1>6, <1>7, <1>8, <1>9, <1>10, <1>11
              DEF WorkerActs, WorkerStep

(* A worker that rests or keeps its attempt shares it with nobody still.   *)
LEMMA MoversDiffer ==
  ASSUME DeliveryInv, NEW w \in Workers, worker[w].pc # "idle", Moved(w)
  PROVE  ClaimsDiffer'
  BY DEF DeliveryInv, ClaimsDiffer, Moved

-----------------------------------------------------------------------------
(* Only the holder of the claim rotates the token, and no attempt leaves   *)
(* the chat.                                                               *)
LEMMA WorkerKeepsCards ==
  ASSUME DeliveryInv, NEW w \in Workers, WorkerActs(w)
  PROVE  ClaimantKnows' /\ SentCardIsLive'
  <1>1. /\ RowsOK /\ worker[w].pc # "idle" /\ worker[w].attempt \in 1 .. note.attempt
        /\ \A v \in Workers : v # w => worker'[v] = worker[v]
                                       /\ worker[v].attempt # worker[w].attempt
        /\ worker \in [Workers -> WorkerRecord]
    BY WorkerMoves, TypesSplit DEF DeliveryInv, ClaimsDiffer, WorkerRecord, Moved
  <1>2. ClaimantKnows /\ SentCardIsLive
    BY DEF DeliveryInv
  <1> USE DEF ClaimantKnows, SentCardIsLive, Owns
  <1>3. CASE Load(w)
    BY <1>1, <1>2, <1>3 DEF Load, Becomes, Fails, WorkerRecord
  <1>4. CASE Prepare(w)
    <2>1. CASE MayPrepare(w)
      BY <1>1, <1>2, <1>4, <2>1 DEF Prepare, MayPrepare, Becomes, WorkerRecord, RowsOK
    <2>2. CASE ~MayPrepare(w)
      BY <1>1, <1>2, <1>4, <2>2 DEF Prepare, Fails, WorkerRecord
    <2> QED  BY <2>1, <2>2
  <1>5. CASE Send(w)
    BY <1>1, <1>2, <1>5 DEF Send, Becomes, WorkerRecord
  <1>6. CASE SendRaises(w)
    BY <1>1, <1>2, <1>6 DEF SendRaises, Fails, WorkerRecord
  <1>7. CASE MarkSent(w)
    BY <1>1, <1>2, <1>7 DEF MarkSent, Rests, Waiting, WorkerRecord, Row, SentRow
  <1>8. CASE MarkSentRaises(w) \/ Stumble(w)
    BY <1>1, <1>2, <1>8 DEF MarkSentRaises, Stumble, Fails, WorkerRecord
  <1>9. CASE RecordFailure(w)
    BY <1>1, <1>2, <1>9 DEF RecordFailure, Rests, Waiting, WorkerRecord, Row
  <1>10. CASE RecordNothing(w) \/ Crash(w)
    BY <1>1, <1>2, <1>10 DEF RecordNothing, Crash, Rests, Waiting, WorkerRecord
  <1> QED  BY <1>3, <1>4, <1>5, <1>6, <1>7, <1>8, <1>9, <1>10 DEF WorkerActs, WorkerStep

LEMMA WorkerKeepsInv ==
  ASSUME DeliveryInv, NEW w \in Workers, WorkerActs(w)
  PROVE  DeliveryInv'
  <1>1. RowsOK' /\ note'.attempt = note.attempt
    BY WorkerKeepsRows
  <1>2. worker[w].pc # "idle" /\ Moved(w)
    BY WorkerMoves
  <1>3. DeliveryTypeOK'
    BY <1>1, <1>2, TypesSplit DEF Moved, WorkerRecord, DeliveryTypeOK, RowsOK
  <1> QED  BY <1>2, <1>3, MoversDiffer, WorkerKeepsCards DEF DeliveryInv

-----------------------------------------------------------------------------
(* A claim takes the next number, which no worker has.                     *)
LEMMA ClaimKeepsInv ==
  ASSUME DeliveryInv, NEW w \in Workers, NEW m \in Messages, ClaimNote(w, m)
  PROVE  DeliveryInv'
  <1>1. /\ RowsOK /\ worker \in [Workers -> WorkerRecord]
        /\ ClaimsDiffer /\ ClaimantKnows /\ SentCardIsLive
    BY TypesSplit DEF DeliveryInv
  <1> DEFINE n == note.attempt + 1
             r == [pc |-> "loading", msg |-> m, attempt |-> n, retryable |-> FALSE]
  <1>2. note.attempt \in Nat /\ n \in Nat \ {0} /\ n > note.attempt
    BY <1>1 DEF RowsOK
  <1>3. /\ note' = [status |-> "SENDING", claim |-> n, lease |-> "live", attempt |-> n, due |-> TRUE]
        /\ worker' = [worker EXCEPT ![w] = r]
        /\ UNCHANGED <<card, chat, paired, topic, faults>>
    BY DEF ClaimNote
  <1>4. /\ r.pc = "loading" /\ r.attempt = n
        /\ r \in [pc : {"idle", "loading", "preparing", "sending", "marking", "failing"},
                  msg : Messages, attempt : 0 .. n, retryable : BOOLEAN]
    BY <1>2
  <1>5. /\ \A v \in Workers : worker[v] \in WorkerRecord /\ worker[v].attempt \in 0 .. note.attempt
        /\ worker'[w] = r /\ \A v \in Workers : v # w => worker'[v] = worker[v]
    BY <1>1, <1>3 DEF WorkerRecord
  <1> HIDE DEF n, r
  <1>6. RowsOK'
    BY <1>1, <1>2, <1>3 DEF RowsOK
  <1>7. (worker \in [Workers -> WorkerRecord])'
    BY <1>1, <1>2, <1>3, <1>4, <1>5 DEF WorkerRecord
  <1>8. ClaimsDiffer'
    BY <1>1, <1>2, <1>4, <1>5 DEF ClaimsDiffer
  <1>9. ClaimantKnows' /\ SentCardIsLive'
    BY <1>1, <1>2, <1>3, <1>4, <1>5 DEF ClaimantKnows, SentCardIsLive, Owns
  <1> QED  BY <1>6, <1>7, <1>8, <1>9, TypesSplit DEF DeliveryInv, DeliveryTypeOK, RowsOK, WorkerRecord

(* Nobody else rotates a token or makes a row SENT.                        *)
Elsewhere ==
  \/ Create \/ Lapse \/ ComeDue \/ Withdraw \/ SwitchPairing
  \/ \E t \in chat : Press(t)
  \/ \E m \in Messages : Skip(m) \/ Redeliver(m) \/ Retry(m)

NoNewToken ==
  /\ RowsOK' /\ note'.attempt = note.attempt /\ UNCHANGED <<worker, chat>>
  /\ card'.token = card.token /\ (card.status = "plain" <=> card'.status = "plain")
  /\ \/ note'.status = note.status /\ note'.claim = note.claim
     \/ note'.status = "PENDING"

LEMMA ElsewhereKeepsInv ==
  ASSUME DeliveryInv, Elsewhere
  PROVE  DeliveryInv'
  <1>1. /\ RowsOK /\ worker \in [Workers -> WorkerRecord]
        /\ ClaimsDiffer /\ ClaimantKnows /\ SentCardIsLive
    BY TypesSplit DEF DeliveryInv
  <1>2. NoNewToken
    <2> USE <1>1 DEF NoNewToken, RowsOK, Row
    <2>1. CASE Create
      <3>1. note' = [status |-> "PENDING", claim |-> 0, lease |-> "none",
                     attempt |-> note.attempt, due |-> TRUE]
        BY <2>1 DEF Create
      <3> QED  BY <2>1, <3>1, DeliveryAssumption DEF Create, Messages
    <2>2. CASE Lapse
      BY <2>2, FaultCounted DEF Lapse
    <2>3. CASE ComeDue \/ SwitchPairing
      BY <2>3 DEF ComeDue, SwitchPairing
    <2>4. CASE Withdraw \/ \E t \in chat : Press(t)
      BY <2>4 DEF Withdraw, Press
    <2>5. CASE \E m \in Messages : Skip(m) \/ Redeliver(m)
      BY <2>5, FaultCounted DEF Skip, Redeliver
    <2>6. ASSUME NEW m \in Messages, Retry(m)
          PROVE  NoNewToken
      <3>1. note' = [status |-> "PENDING", claim |-> 0, lease |-> "none",
                     attempt |-> note.attempt, due |-> TRUE]
        BY <2>6 DEF Retry
      <3> QED  BY <2>6, <3>1 DEF Retry
    <2> QED  BY <2>1, <2>2, <2>3, <2>4, <2>5, <2>6 DEF Elsewhere
  <1>3. ClaimsDiffer' /\ ClaimantKnows' /\ SentCardIsLive'
    BY <1>1, <1>2 DEF NoNewToken, ClaimsDiffer, ClaimantKnows, SentCardIsLive, Owns
  <1> QED  BY <1>1, <1>2, <1>3 DEF NoNewToken, DeliveryInv, DeliveryTypeOK, RowsOK, WorkerRecord

-----------------------------------------------------------------------------
LEMMA DeliveryStep == DeliveryInv /\ [DeliveryNext]_deliveryVars => DeliveryInv'
  <1> SUFFICES ASSUME DeliveryInv, [DeliveryNext]_deliveryVars PROVE DeliveryInv'
    OBVIOUS
  <1>1. CASE Elsewhere
    BY <1>1, ElsewhereKeepsInv
  <1>2. CASE \E w \in Workers : WorkerActs(w)
    BY <1>2, WorkerKeepsInv
  <1>3. CASE \E w \in Workers, m \in Messages : ClaimNote(w, m)
    BY <1>3, ClaimKeepsInv
  <1>4. CASE UNCHANGED deliveryVars
    BY <1>4 DEF deliveryVars, DeliveryInv, DeliveryTypeOK, ClaimsDiffer, ClaimantKnows,
                SentCardIsLive, Owns
  <1> QED  BY <1>1, <1>2, <1>3, <1>4 DEF DeliveryNext, Elsewhere, WorkerActs

(* Every reachable state has well-formed rows and claims of one worker     *)
(* each, and keeps the token with the holder of the claim (claim,          *)
(* prepare_approval_card, mark_sent, fail).                                *)
THEOREM DeliveryInvariant == DeliverySpec => []DeliveryInv
  BY Initial, DeliveryStep, PTL DEF DeliverySpec

(* The rows of a Notification are well formed in every reachable state.    *)
THEOREM DeliveryTypes == DeliverySpec => []DeliveryTypeOK
  BY DeliveryInvariant, PTL DEF DeliveryInv

(* However many workers deliver it, and however late, the card of a SENT   *)
(* Notification is one whose buttons work.                                 *)
THEOREM ButtonsWork == DeliverySpec => []SentCardIsLive
  BY DeliveryInvariant, PTL DEF DeliveryInv
-----------------------------------------------------------------------------
(* The messages that the user got, and those that may still be sent.       *)
Unsent(w) == worker[w].pc \in {"loading", "preparing", "sending"}
Attempts == chat \union {worker[w].attempt : w \in {v \in Workers : Unsent(v)}}

(* One of them is free: that of the attempt that made the row SENT, or may *)
(* make it SENT without a fault.                                           *)
FreeAttempt ==
  \/ note.status = "SENT"
  \/ /\ note.status = "SENDING" /\ note.lease = "live"
     /\ \E w \in Workers : worker[w].attempt = note.claim /\ worker[w].pc # "failing"

Budget ==
  /\ \A w \in Workers : Unsent(w) => worker[w].attempt \notin chat
  /\ Cardinality(Attempts) <= faults + (IF FreeAttempt THEN 1 ELSE 0)

LEMMA AttemptsFinite ==
  ASSUME DeliveryInv
  PROVE  IsFiniteSet(Attempts) /\ Cardinality(Attempts) \in Nat /\ faults \in Nat
  <1>1. Attempts \subseteq 0 .. note.attempt /\ note.attempt \in Nat /\ faults \in Nat
    <2>1. \A w \in Workers : worker[w].attempt \in 0 .. note.attempt
      BY DEF DeliveryInv, DeliveryTypeOK
    <2>2. note.attempt \in Nat /\ faults \in Nat /\ chat \subseteq 1 .. note.attempt
      BY DeliveryAssumption DEF DeliveryInv, DeliveryTypeOK
    <2>3. 1 .. note.attempt \subseteq 0 .. note.attempt
      BY <2>2
    <2>4. Attempts \subseteq 0 .. note.attempt
      BY <2>1, <2>2, <2>3, Zenon DEF Attempts
    <2> QED  BY <2>2, <2>4
  <1>2. IsFiniteSet(0 .. note.attempt)
    BY <1>1, FS_Interval
  <1>3. IsFiniteSet(Attempts)
    BY <1>1, <1>2, FS_Subset
  <1> QED  BY <1>1, <1>3, FS_CardinalityType

(* Of every step but a claim: nothing is added, and the free attempt stays, *)
(* is paid for by a fault, or is given up.                                 *)
Paid ==
  /\ \A w \in Workers : (Unsent(w) => worker[w].attempt \notin chat)'
  /\ Attempts' \subseteq Attempts
  /\ \/ (FreeAttempt => FreeAttempt') /\ faults' = faults
     \/ faults' = faults + 1
     \/ faults' = faults /\ \E n \in Attempts : n \notin Attempts'

LEMMA PaidIsEnough ==
  ASSUME DeliveryInv, Budget, Paid
  PROVE  Budget'
  <1>1. IsFiniteSet(Attempts) /\ Cardinality(Attempts) \in Nat /\ faults \in Nat
    BY AttemptsFinite
  <1>2. Cardinality(Attempts') <= Cardinality(Attempts) /\ Cardinality(Attempts') \in Nat
    BY <1>1, FS_Subset, FS_CardinalityType DEF Paid
  <1>3. ASSUME NEW n \in Attempts, n \notin Attempts'
        PROVE  Cardinality(Attempts') <= Cardinality(Attempts) - 1
    <2>1. IsFiniteSet(Attempts \ {n}) /\ Cardinality(Attempts \ {n}) = Cardinality(Attempts) - 1
      BY <1>1, <1>3, FS_RemoveElement
    <2>2. Attempts' \in SUBSET (Attempts \ {n})
      BY <1>3 DEF Paid
    <2> QED  BY <2>1, <2>2, FS_Subset
  <1>4. Cardinality(Attempts)' = Cardinality(Attempts')
    OBVIOUS
  <1>5. Cardinality(Attempts') <= faults' + (IF FreeAttempt' THEN 1 ELSE 0)
    BY <1>1, <1>2, <1>3 DEF Budget, Paid
  <1> QED  BY <1>4, <1>5 DEF Budget, Paid

LEMMA WorkerPays ==
  ASSUME DeliveryInv, Budget, NEW w \in Workers, WorkerActs(w)
  PROVE  Paid
  <1>1. /\ worker[w].pc # "idle"
        /\ \A v \in Workers : v # w => worker'[v] = worker[v]
                                       /\ worker[v].attempt # worker[w].attempt
        /\ worker \in [Workers -> WorkerRecord] /\ faults \in Nat
        /\ \A v \in Workers : Unsent(v) => worker[v].attempt \notin chat
    BY WorkerMoves, TypesSplit, AttemptsFinite DEF DeliveryInv, ClaimsDiffer, Moved, Budget
  <1> DEFINE n == worker[w].attempt
  <1>2. ASSUME UNCHANGED chat, Becomes(w, "sending") \/ Becomes(w, "preparing"),
               Unsent(w), UNCHANGED <<note, faults>>
        PROVE  Paid
    BY <1>1, <1>2 DEF Becomes, Paid, Unsent, Attempts, FreeAttempt, WorkerRecord
  <1>3. ASSUME NEW r \in BOOLEAN, UNCHANGED chat, Fails(w, r), Unsent(w), UNCHANGED <<note, faults>>
        PROVE  Paid
    <2>1. n \in Attempts /\ n \notin Attempts' /\ Attempts' \subseteq Attempts
      BY <1>1, <1>3 DEF Fails, Unsent, Attempts, WorkerRecord
    <2> QED  BY <1>1, <1>3, <2>1 DEF Fails, Paid, Unsent, WorkerRecord
  <1>4. CASE Load(w)
    BY <1>2, <1>3, <1>4 DEF Load, Unsent
  <1>5. CASE Prepare(w)
    BY <1>2, <1>3, <1>5 DEF Prepare, Unsent
  <1>6. CASE Send(w)
    BY <1>1, <1>6 DEF Send, Becomes, Paid, Unsent, Attempts, FreeAttempt, WorkerRecord
  <1>7. CASE SendRaises(w)
    BY <1>1, <1>7 DEF SendRaises, Fails, Fault, Paid, Unsent, Attempts, WorkerRecord
  <1>8. CASE Stumble(w)
    BY <1>1, <1>8 DEF Stumble, Fails, Fault, Paid, Unsent, Attempts, WorkerRecord
  <1>9. CASE Crash(w)
    BY <1>1, <1>9 DEF Crash, Rests, Waiting, Fault, Paid, Unsent, Attempts, WorkerRecord
  <1>10. CASE MarkSent(w)
    BY <1>1, <1>10
       DEF MarkSent, Rests, Waiting, Paid, Unsent, Attempts, FreeAttempt, SentRow, Row
  <1>11. CASE MarkSentRaises(w)
    BY <1>1, <1>11
       DEF MarkSentRaises, Fails, Fault, Owns, Paid, Unsent, Attempts, FreeAttempt, WorkerRecord
  <1>12. CASE RecordFailure(w)
    <2>1. ~FreeAttempt
      BY <1>1, <1>12 DEF RecordFailure, Owns, FreeAttempt
    <2> QED  BY <1>1, <1>12, <2>1 DEF RecordFailure, Rests, Waiting, Paid, Unsent, Attempts
  <1>13. CASE RecordNothing(w)
    BY <1>1, <1>13 DEF RecordNothing, Rests, Waiting, Owns, Paid, Unsent, Attempts, FreeAttempt
  <1> QED  BY <1>4, <1>5, <1>6, <1>7, <1>8, <1>9, <1>10, <1>11, <1>12, <1>13
              DEF WorkerActs, WorkerStep

LEMMA ElsewherePays ==
  ASSUME DeliveryInv, Budget, Elsewhere
  PROVE  Paid
  <1>1. UNCHANGED <<worker, chat>>
    BY DEF Elsewhere, Create, Lapse, ComeDue, Withdraw, SwitchPairing, Press, Skip, Redeliver, Retry
  <1>2. /\ Attempts' = Attempts
        /\ \A w \in Workers : (Unsent(w) => worker[w].attempt \notin chat)'
    BY <1>1 DEF Attempts, Unsent, Budget
  <1>3. \/ (FreeAttempt => FreeAttempt') /\ faults' = faults
        \/ faults' = faults + 1
    <2> USE <1>1 DEF FreeAttempt, Fault
    <2>1. note \in [status : {"ABSENT", "PENDING", "SENDING", "RETRYABLE_FAILURE"} \union Finished,
                    claim : Nat, lease : {"none", "live", "lapsed"}, attempt : Nat, due : BOOLEAN]
      BY DEF DeliveryInv, DeliveryTypeOK
    <2>2. CASE Create \/ \E m \in Messages : Retry(m)
      BY <2>2 DEF Create, Retry
    <2>3. CASE Lapse
      BY <2>3 DEF Lapse
    <2>4. CASE ComeDue
      BY <2>1, <2>4 DEF ComeDue
    <2>5. CASE \/ Withdraw \/ SwitchPairing \/ \E t \in chat : Press(t)
               \/ \E m \in Messages : Skip(m) \/ Redeliver(m)
      BY <2>5 DEF Withdraw, SwitchPairing, Press, Skip, Redeliver
    <2> QED  BY <2>2, <2>3, <2>4, <2>5 DEF Elsewhere
  <1> QED  BY <1>2, <1>3 DEF Paid

(* A claim adds an attempt, which is free: the last has lapsed or failed.  *)
LEMMA ClaimIsFree ==
  ASSUME DeliveryInv, Budget, NEW w \in Workers, NEW m \in Messages, ClaimNote(w, m)
  PROVE  Budget'
  <1> DEFINE n == note.attempt + 1
  <1>1. /\ note.attempt \in Nat /\ n > note.attempt /\ n \in Nat
        /\ chat \subseteq 1 .. note.attempt
        /\ worker \in [Workers -> WorkerRecord]
        /\ IsFiniteSet(Attempts) /\ Cardinality(Attempts) \in Nat /\ faults \in Nat
    BY AttemptsFinite, TypesSplit DEF DeliveryInv, DeliveryTypeOK
  <1>2. /\ ~FreeAttempt /\ worker[w].pc = "idle"
        /\ worker'[w].pc = "loading" /\ worker'[w].attempt = n
        /\ \A v \in Workers : v # w => worker'[v] = worker[v]
        /\ note'.status = "SENDING" /\ note'.lease = "live" /\ note'.claim = n
        /\ UNCHANGED <<chat, faults>>
    BY <1>1 DEF ClaimNote, Claimable, FreeAttempt
  <1>3. FreeAttempt'
    BY <1>2 DEF FreeAttempt
  <1>4. Attempts' = Attempts \union {n}
    BY <1>2 DEF Attempts, Unsent
  <1>5. Cardinality(Attempts') <= Cardinality(Attempts) + 1
    <2>1. Cardinality(Attempts \union {n}) =
            IF n \in Attempts THEN Cardinality(Attempts) ELSE Cardinality(Attempts) + 1
      BY <1>1, FS_AddElement
    <2> HIDE DEF n
    <2> QED  BY <1>1, <1>4, <2>1
  <1>6. Cardinality(Attempts') \in Nat
    BY <1>1, <1>4, FS_AddElement, FS_CardinalityType
  <1>7. \A v \in Workers : (Unsent(v) => worker[v].attempt \notin chat)'
    BY <1>1, <1>2 DEF Budget, Unsent
  <1> QED  BY <1>1, <1>2, <1>3, <1>5, <1>6, <1>7 DEF Budget

LEMMA InitialBudget == DeliveryInit => Budget
  <1> SUFFICES ASSUME DeliveryInit PROVE Budget
    OBVIOUS
  <1>1. Attempts = {} /\ ~FreeAttempt /\ faults = 0
    BY DEF DeliveryInit, Attempts, Unsent, Waiting, FreeAttempt, Row
  <1> QED  BY <1>1, FS_EmptySet DEF Budget, DeliveryInit, Unsent, Waiting

LEMMA BudgetStep == DeliveryInv /\ Budget /\ [DeliveryNext]_deliveryVars => Budget'
  <1> SUFFICES ASSUME DeliveryInv, Budget, [DeliveryNext]_deliveryVars PROVE Budget'
    OBVIOUS
  <1>1. CASE Elsewhere
    BY <1>1, ElsewherePays, PaidIsEnough
  <1>2. CASE \E w \in Workers : WorkerActs(w)
    BY <1>2, WorkerPays, PaidIsEnough
  <1>3. CASE \E w \in Workers, m \in Messages : ClaimNote(w, m)
    BY <1>3, ClaimIsFree
  <1>4. CASE UNCHANGED deliveryVars
    BY <1>4 DEF deliveryVars, Budget, Attempts, Unsent, FreeAttempt
  <1> QED  BY <1>1, <1>2, <1>3, <1>4 DEF DeliveryNext, Elsewhere, WorkerActs

(* Without a fault the user gets one message, and with each fault at most  *)
(* one more, whatever claims lapse or are retried (claim, mark_sent, fail, *)
(* retry).                                                                 *)
THEOREM OneMessage == DeliverySpec => []OneMessageUnlessFault
  <1>1. DeliveryInv /\ Budget => OneMessageUnlessFault
    <2> SUFFICES ASSUME DeliveryInv, Budget PROVE OneMessageUnlessFault
      OBVIOUS
    <2>1. IsFiniteSet(Attempts) /\ Cardinality(Attempts) \in Nat /\ faults \in Nat
      BY AttemptsFinite
    <2>2. Cardinality(chat) <= Cardinality(Attempts) /\ Cardinality(chat) \in Nat
      BY <2>1, FS_Subset, FS_CardinalityType DEF Attempts
    <2> QED  BY <2>1, <2>2 DEF Budget, OneMessageUnlessFault
  <1>2. DeliverySpec => []Budget
    BY InitialBudget, BudgetStep, DeliveryInvariant, PTL DEF DeliverySpec
  <1> QED  BY <1>1, <1>2, DeliveryInvariant, PTL
=============================================================================
