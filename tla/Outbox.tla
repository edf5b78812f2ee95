-------------------------------- MODULE Outbox --------------------------------
(***************************************************************************)
(* The transactional outbox and its relays: a row is written in the        *)
(* transaction of the business change it announces; a relay claims a batch *)
(* of rows under a database lease, publishes each of them outside the      *)
(* transaction, and marks it PUBLISHED only under its own claim.           *)
(*                                                                         *)
(* A relay's name stands for the fresh claim UUIDs of its batch: it works  *)
(* on one batch at a time.                                                 *)
(***************************************************************************)
EXTENDS Integers, FiniteSets

CONSTANTS Rows,       \* outbox messages
          Relays,
          None,
          BatchLimit, \* most rows a relay claims at once
          MaxFaults   \* bound on crashes, errors and slow workers

ASSUME OutboxAssumption ==
  None \notin Relays \union Rows /\ BatchLimit \in Nat \ {0} /\ MaxFaults \in Nat

VARIABLES
  outbox,  \* outbox_messages: state, claim_id and lease
  relay,   \* the claimed rows a relay has yet to settle, and the one it published
  topic,   \* Pub/Sub: "none", "out" for delivery, or "acked"
  faults

outboxVars == <<outbox, relay, topic>>

Absent == [state |-> "ABSENT", claim |-> None, lease |-> "none"]
Asleep == [batch |-> {}, sent |-> None]

OutboxInit ==
  /\ outbox = [m \in Rows |-> Absent]
  /\ relay = [r \in Relays |-> Asleep]
  /\ topic = [m \in Rows |-> "none"]
  /\ faults = 0

Fault == faults < MaxFaults /\ faults' = faults + 1

-----------------------------------------------------------------------------
Pending == [Absent EXCEPT !.state = "PENDING"]

(* The row is added in the caller's transaction.                           *)
Enqueue(m) ==
  /\ outbox[m] = Absent
  /\ outbox' = [outbox EXCEPT ![m] = Pending]

(* Bug: a row whose relay died stays where it is.                          *)
EligibleFresh == {m \in Rows : outbox[m].state = "PENDING"}

Eligible ==
  {m \in Rows : \/ outbox[m].state = "PENDING"
                \/ outbox[m].state = "PUBLISHING" /\ outbox[m].lease = "lapsed"}

(* claim_batch: rows another relay has locked are skipped.                 *)
ClaimBatch(r, batch) ==
  /\ relay[r] = Asleep
  /\ batch # {} /\ batch \subseteq Eligible /\ Cardinality(batch) <= BatchLimit
  /\ outbox' = [m \in Rows |-> IF m \in batch
                                 THEN [state |-> "PUBLISHING", claim |-> r, lease |-> "live"]
                                 ELSE outbox[m]]
  /\ relay' = [relay EXCEPT ![r].batch = batch]
  /\ UNCHANGED <<topic, faults>>

(* Bug: any relay may settle a row that is being published.                *)
HoldsAny(r, m) == outbox[m].state = "PUBLISHING"

(* The predicate of complete_claim and release_claim.                      *)
Holds(r, m) == outbox[m].state = "PUBLISHING" /\ outbox[m].claim = r

(* Bug: the relay forgets to advance past the row it published.            *)
SettledKeepsSent(r, m) == [relay EXCEPT ![r].batch = @ \ {m}]

Settled(r, m) == [relay EXCEPT ![r] = [batch |-> @.batch \ {m}, sent |-> None]]

(* Publisher.publish is accepted.                                          *)
Publish(r, m) ==
  /\ m \in relay[r].batch /\ relay[r].sent = None
  /\ relay' = [relay EXCEPT ![r].sent = m]
  /\ topic' = [topic EXCEPT ![m] = "out"]
  /\ UNCHANGED <<outbox, faults>>

(* Bug: the row is completed before it is published.                       *)
CompleteFirst(r, m) ==
  /\ m \in relay[r].batch
  /\ relay' = Settled(r, m)
  /\ outbox' = IF Holds(r, m) THEN [outbox EXCEPT ![m] = [Absent EXCEPT !.state = "PUBLISHED"]]
                              ELSE outbox
  /\ UNCHANGED <<topic, faults>>

(* complete_claim; a stale relay goes on with its batch.                   *)
Complete(r, m) ==
  /\ relay[r].sent = m
  /\ relay' = Settled(r, m)
  /\ outbox' = IF Holds(r, m) THEN [outbox EXCEPT ![m] = [Absent EXCEPT !.state = "PUBLISHED"]]
                              ELSE outbox
  /\ UNCHANGED <<topic, faults>>

(* Publishing raised, though it may have been accepted, or the completion  *)
(* did: release_claim.                                                     *)
Release(r, m) ==
  /\ m \in relay[r].batch /\ relay[r].sent \in {None, m}
  /\ Fault
  /\ topic' \in {topic, [topic EXCEPT ![m] = "out"]}
  /\ relay' = Settled(r, m)
  /\ outbox' = IF Holds(r, m) THEN [outbox EXCEPT ![m] = Pending] ELSE outbox

(* The relay dies, or a release raises and the rest of the batch is left.  *)
CrashRelay(r) ==
  /\ relay[r] # Asleep /\ Fault
  /\ relay' = [relay EXCEPT ![r] = Asleep]
  /\ UNCHANGED <<outbox, topic>>

(* lease_expires_at passes, under a relay that died or is only slow.       *)
RowLapses(m) ==
  /\ outbox[m].lease = "live"
  /\ outbox' = [outbox EXCEPT ![m].lease = "lapsed"]
  /\ IF m \in relay[outbox[m].claim].batch THEN Fault ELSE UNCHANGED faults
  /\ UNCHANGED <<relay, topic>>

RelayStep(r) == \E m \in Rows : Publish(r, m) \/ Complete(r, m)

RelayNext ==
  \/ \E r \in Relays : \/ RelayStep(r) \/ CrashRelay(r) \/ \E m \in Rows : Release(r, m)
                       \/ \E batch \in SUBSET Rows : ClaimBatch(r, batch)
  \/ \E m \in Rows : RowLapses(m)

(* A subscriber acknowledges a delivery; a lost one is delivered again.    *)
Acknowledge(m) == topic[m] = "out" /\ topic' = [topic EXCEPT ![m] = "acked"]

OutboxNext ==
  \/ RelayNext
  \/ \E m \in Rows : \/ Enqueue(m) /\ UNCHANGED <<relay, topic, faults>>
                     \/ Acknowledge(m) /\ UNCHANGED <<outbox, relay, faults>>

OutboxSpec == OutboxInit /\ [][OutboxNext]_<<outboxVars, faults>>

(* A relay polls for ever; its query takes the rows in the order of their  *)
(* availability, so none is passed over for ever.                          *)
RelayFairness ==
  /\ \A r \in Relays : WF_<<outboxVars, faults>>(RelayStep(r))
  /\ \A m \in Rows :
       /\ WF_<<outboxVars, faults>>(RowLapses(m))
       /\ SF_<<outboxVars, faults>>(\E r \in Relays, batch \in SUBSET Rows :
                                      m \in batch /\ ClaimBatch(r, batch))

FairOutboxSpec == OutboxSpec /\ RelayFairness

-----------------------------------------------------------------------------
OutboxTypeOK ==
  /\ outbox \in [Rows -> [state : {"ABSENT", "PENDING", "PUBLISHING", "PUBLISHED"},
                          claim : Relays \union {None}, lease : {"none", "live", "lapsed"}]]
  /\ \A m \in Rows : /\ outbox[m].state = "PUBLISHING" <=> outbox[m].claim # None
                     /\ outbox[m].claim # None <=> outbox[m].lease # "none"
  /\ relay \in [Relays -> [batch : SUBSET Rows, sent : Rows \union {None}]]
  /\ \A r \in Relays : relay[r].sent \in relay[r].batch \union {None}
  /\ topic \in [Rows -> {"none", "out", "acked"}]
  /\ faults \in 0 .. MaxFaults

(* A row is PUBLISHED only when Pub/Sub accepted its message, and a        *)
(* message is accepted only of a row that was committed (publish_batch).   *)
PublishedWasAccepted ==
  \A m \in Rows : /\ outbox[m].state = "PUBLISHED" => topic[m] # "none"
                  /\ topic[m] # "none" => outbox[m].state # "ABSENT"

(* A relay whose claim on a row is gone, because its lease lapsed and      *)
(* another relay claimed the row, changes nothing of it (complete_claim,   *)
(* release_claim).                                                         *)
StaleRelayOverwritesNothing ==
  [][\A r \in Relays, m \in Rows :
       m \in relay[r].batch /\ m \notin relay'[r].batch /\ outbox[m].claim # r =>
         outbox'[m] = outbox[m]]_outboxVars

(* Every committed row is published in the end, with relays that die, are  *)
(* slow or fail between any two steps.                                     *)
EveryRowPublished == \A m \in Rows : outbox[m].state = "PENDING" ~> outbox[m].state = "PUBLISHED"
=============================================================================
