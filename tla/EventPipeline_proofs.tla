------------------------- MODULE EventPipeline_proofs -------------------------
(***************************************************************************)
(* Proofs about Outbox, for any rows, relays and bounds, and about the     *)
(* EventPipeline built on it, for any processors, operators and evaluation *)
(* keys.                                                                   *)
(***************************************************************************)
EXTENDS EventPipeline, FiniteSetTheorems, TLAPS

-----------------------------------------------------------------------------
(* The outbox and its relays.                                              *)

(* A relay works only on committed rows, and the row it is about to        *)
(* complete was accepted by Pub/Sub.                                       *)
RelayKnows ==
  \A r \in Relays :
    /\ \A m \in relay[r].batch : outbox[m].state # "ABSENT"
    /\ relay[r].sent # None => topic[relay[r].sent] # "none"

(* The inductive invariant: PublishedWasAccepted needs what the relays     *)
(* know, because Complete looks only at the row and its own batch.         *)
OutboxInv == OutboxTypeOK /\ RelayKnows /\ PublishedWasAccepted

RowRecord == [state : {"ABSENT", "PENDING", "PUBLISHING", "PUBLISHED"},
              claim : Relays \union {None}, lease : {"none", "live", "lapsed"}]
RelayRecord == [batch : SUBSET Rows, sent : Rows \union {None}]

-----------------------------------------------------------------------------
LEMMA OutboxInitial == OutboxInit => OutboxInv
  BY OutboxAssumption
     DEF OutboxInit, OutboxInv, OutboxTypeOK, RelayKnows, PublishedWasAccepted, Absent, Asleep

(* A relay that has settled a row: what is left of its batch.              *)
LEMMA SettledRelay ==
  ASSUME NEW r \in Relays, NEW m \in Rows, OutboxTypeOK
  PROVE  /\ Settled(r, m) \in [Relays -> RelayRecord]
         /\ Settled(r, m)[r] = [batch |-> relay[r].batch \ {m}, sent |-> None]
         /\ \A s \in Relays : s # r => Settled(r, m)[s] = relay[s]
  BY DEF Settled, OutboxTypeOK, RelayRecord

LEMMA EnqueueKeeps ==
  ASSUME OutboxInv, NEW m \in Rows, Enqueue(m), UNCHANGED <<relay, topic, faults>>
  PROVE  OutboxInv'
  BY OutboxAssumption
     DEF OutboxInv, OutboxTypeOK, RelayKnows, PublishedWasAccepted, Enqueue, Pending, Absent

LEMMA AcknowledgeKeeps ==
  ASSUME OutboxInv, NEW m \in Rows, Acknowledge(m), UNCHANGED <<outbox, relay, faults>>
  PROVE  OutboxInv'
  BY OutboxAssumption
     DEF OutboxInv, OutboxTypeOK, RelayKnows, PublishedWasAccepted, Acknowledge

LEMMA ClaimBatchKeeps ==
  ASSUME OutboxInv, NEW r \in Relays, NEW batch \in SUBSET Rows, ClaimBatch(r, batch)
  PROVE  OutboxInv'
  <1> USE OutboxAssumption DEF OutboxInv, OutboxTypeOK, ClaimBatch, Eligible
  <1>1. OutboxTypeOK'
    BY DEF Asleep
  <1>2. RelayKnows'
    BY DEF RelayKnows, Asleep
  <1>3. PublishedWasAccepted'
    BY DEF PublishedWasAccepted
  <1> QED  BY <1>1, <1>2, <1>3

LEMMA PublishKeeps ==
  ASSUME OutboxInv, NEW r \in Relays, NEW m \in Rows, Publish(r, m)
  PROVE  OutboxInv'
  <1> USE OutboxAssumption DEF OutboxInv, OutboxTypeOK, Publish
  <1>1. OutboxTypeOK'
    OBVIOUS
  <1>2. RelayKnows'
    BY DEF RelayKnows
  <1>3. PublishedWasAccepted'
    BY DEF PublishedWasAccepted, RelayKnows
  <1> QED  BY <1>1, <1>2, <1>3

(* What settling a row leaves of a relay, whatever becomes of the row.     *)
LEMMA SettleKeeps ==
  ASSUME OutboxInv, NEW r \in Relays, NEW m \in Rows,
         relay' = Settled(r, m), m \in relay[r].batch,
         NEW row \in RowRecord, row.state # "ABSENT",
         row.state = "PUBLISHING" <=> row.claim # None,
         row.claim # None <=> row.lease # "none",
         outbox' \in {outbox, [outbox EXCEPT ![m] = row]},
         row.state = "PUBLISHED" => topic[m] # "none",
         topic' \in {topic, [topic EXCEPT ![m] = "out"]},
         faults' \in 0 .. MaxFaults
  PROVE  OutboxInv'
  <1>0. /\ relay' \in [Relays -> RelayRecord]
        /\ relay'[r] = [batch |-> relay[r].batch \ {m}, sent |-> None]
        /\ \A s \in Relays : s # r => relay'[s] = relay[s]
    BY SettledRelay DEF OutboxInv
  <1>1. /\ outbox' \in [Rows -> RowRecord]
        /\ \A n \in Rows : n # m => outbox'[n] = outbox[n]
        /\ outbox'[m] \in {outbox[m], row}
    BY DEF OutboxInv, OutboxTypeOK, RowRecord
  <1>2. /\ topic' \in [Rows -> {"none", "out", "acked"}]
        /\ \A n \in Rows : topic[n] # "none" => topic'[n] # "none"
        /\ \A n \in Rows : n # m => topic'[n] = topic[n]
    BY DEF OutboxInv, OutboxTypeOK
  <1>3. outbox[m].state # "ABSENT" /\ outbox'[m].state # "ABSENT"
    BY <1>1 DEF OutboxInv, RelayKnows
  <1>4. OutboxTypeOK'
    <2>1. \A n \in Rows : /\ outbox'[n].state = "PUBLISHING" <=> outbox'[n].claim # None
                          /\ outbox'[n].claim # None <=> outbox'[n].lease # "none"
      BY <1>1 DEF OutboxInv, OutboxTypeOK
    <2>2. \A s \in Relays : relay'[s].sent \in relay'[s].batch \union {None}
      BY <1>0 DEF OutboxInv, OutboxTypeOK
    <2> QED  BY <1>0, <1>1, <1>2, <2>1, <2>2 DEF OutboxTypeOK, RowRecord, RelayRecord
  <1>5. RelayKnows'
    <2> SUFFICES ASSUME NEW s \in Relays
                 PROVE  /\ \A n \in relay'[s].batch : outbox'[n].state # "ABSENT"
                        /\ relay'[s].sent # None => topic'[relay'[s].sent] # "none"
      BY DEF RelayKnows
    <2>1. relay'[s].batch \subseteq relay[s].batch /\ relay[s].batch \subseteq Rows
      BY <1>0 DEF OutboxInv, OutboxTypeOK
    <2>2. relay'[s].sent # None => relay'[s].sent = relay[s].sent /\ relay[s].sent \in Rows
      BY <1>0 DEF OutboxInv, OutboxTypeOK
    <2> QED  BY <1>1, <1>2, <1>3, <2>1, <2>2 DEF OutboxInv, RelayKnows
  <1>6. PublishedWasAccepted'
    BY <1>1, <1>2, <1>3 DEF OutboxInv, PublishedWasAccepted
  <1> QED  BY <1>4, <1>5, <1>6 DEF OutboxInv

LEMMA CompleteKeeps ==
  ASSUME OutboxInv, NEW r \in Relays, NEW m \in Rows, Complete(r, m)
  PROVE  OutboxInv'
  <1>1. m \in relay[r].batch /\ topic[m] # "none"
    BY OutboxAssumption DEF Complete, OutboxInv, OutboxTypeOK, RelayKnows
  <1> DEFINE row == [Absent EXCEPT !.state = "PUBLISHED"]
  <1>2. row \in RowRecord /\ row.state = "PUBLISHED" /\ row.claim = None /\ row.lease = "none"
    BY DEF RowRecord, Absent
  <1>3. outbox' \in {outbox, [outbox EXCEPT ![m] = row]}
    BY DEF Complete
  <1>4. relay' = Settled(r, m) /\ topic' = topic /\ faults' \in 0 .. MaxFaults
    BY DEF Complete, OutboxInv, OutboxTypeOK
  <1> HIDE DEF row
  <1> QED  BY <1>1, <1>2, <1>3, <1>4, SettleKeeps

LEMMA ReleaseKeeps ==
  ASSUME OutboxInv, NEW r \in Relays, NEW m \in Rows, Release(r, m)
  PROVE  OutboxInv'
  <1>1. Pending \in RowRecord /\ Pending.state = "PENDING" /\ Pending.claim = None
          /\ Pending.lease = "none"
    BY DEF RowRecord, Pending, Absent
  <1>2. outbox' \in {outbox, [outbox EXCEPT ![m] = Pending]}
    BY DEF Release
  <1>3. /\ m \in relay[r].batch /\ relay' = Settled(r, m)
        /\ topic' \in {topic, [topic EXCEPT ![m] = "out"]}
        /\ faults' \in 0 .. MaxFaults
    BY OutboxAssumption DEF Release, Fault, OutboxInv, OutboxTypeOK
  <1> QED  BY <1>1, <1>2, <1>3, SettleKeeps

LEMMA CrashKeeps ==
  ASSUME OutboxInv, NEW r \in Relays, CrashRelay(r)
  PROVE  OutboxInv'
  BY OutboxAssumption
     DEF OutboxInv, OutboxTypeOK, RelayKnows, PublishedWasAccepted, CrashRelay, Asleep, Fault

LEMMA LapseKeeps ==
  ASSUME OutboxInv, NEW m \in Rows, RowLapses(m)
  PROVE  OutboxInv'
  <1> USE OutboxAssumption DEF OutboxInv, OutboxTypeOK, RowLapses, Fault
  <1>1. OutboxTypeOK'
    OBVIOUS
  <1>2. RelayKnows' /\ PublishedWasAccepted'
    BY DEF RelayKnows, PublishedWasAccepted
  <1> QED  BY <1>1, <1>2

LEMMA OutboxStep ==
  ASSUME OutboxInv, [OutboxNext]_<<outboxVars, faults>>
  PROVE  OutboxInv'
  <1>1. CASE UNCHANGED <<outboxVars, faults>>
    BY <1>1 DEF OutboxInv, OutboxTypeOK, RelayKnows, PublishedWasAccepted, outboxVars
  <1>2. CASE OutboxNext
    BY <1>2, EnqueueKeeps, AcknowledgeKeeps, ClaimBatchKeeps, PublishKeeps, CompleteKeeps,
       ReleaseKeeps, CrashKeeps, LapseKeeps
       DEF OutboxNext, RelayNext, RelayStep
  <1> QED  BY <1>1, <1>2

(* The inductive invariant holds in every reachable state.                 *)
THEOREM OutboxInvariant == OutboxSpec => []OutboxInv
  BY OutboxInitial, OutboxStep, PTL DEF OutboxSpec

(* The types of the rows and the relays.                                   *)
THEOREM OutboxTypes == OutboxSpec => []OutboxTypeOK
  BY OutboxInvariant, PTL DEF OutboxInv

(* A row is PUBLISHED only after Pub/Sub accepted its message.             *)
THEOREM NothingLostUnpublished == OutboxSpec => []PublishedWasAccepted
  BY OutboxInvariant, PTL DEF OutboxInv

-----------------------------------------------------------------------------
(* One step of the outbox, seen by a relay that gives up a row.            *)
StaleKeeps(r, m) ==
  m \in relay[r].batch /\ m \notin relay'[r].batch /\ outbox[m].claim # r =>
    outbox'[m] = outbox[m]

LEMMA StepKeepsStale ==
  ASSUME OutboxInv, OutboxNext, NEW r \in Relays, NEW m \in Rows
  PROVE  StaleKeeps(r, m)
  <1> USE DEF OutboxInv, StaleKeeps
  <1>1. ASSUME NEW s \in Relays, NEW n \in Rows, Publish(s, n) PROVE StaleKeeps(r, m)
    BY <1>1 DEF Publish
  <1>2. ASSUME NEW s \in Relays, NEW n \in Rows, relay' = Settled(s, n),
               \/ outbox' = outbox
               \/ Holds(s, n) /\ (\A k \in Rows : k # n => outbox'[k] = outbox[k])
        PROVE  StaleKeeps(r, m)
    <2>1. OutboxTypeOK
      OBVIOUS
    <2>2. /\ relay'[s] = [batch |-> relay[s].batch \ {n}, sent |-> None]
          /\ \A t \in Relays : t # s => relay'[t] = relay[t]
      BY <1>2, <2>1, SettledRelay
    <2>3. m \in relay[r].batch /\ m \notin relay'[r].batch => r = s /\ m = n
      BY <2>2
    <2> QED  BY <1>2, <2>3 DEF Holds
  <1>3. ASSUME NEW s \in Relays, NEW n \in Rows, Complete(s, n) \/ Release(s, n)
        PROVE  StaleKeeps(r, m)
    <2>1. /\ relay' = Settled(s, n)
          /\ \/ outbox' = outbox
             \/ Holds(s, n) /\ (\A k \in Rows : k # n => outbox'[k] = outbox[k])
      BY <1>3 DEF Complete, Release, OutboxTypeOK
    <2> QED  BY <1>2, <2>1
  <1>4. ASSUME NEW s \in Relays, CrashRelay(s) PROVE StaleKeeps(r, m)
    BY <1>4 DEF CrashRelay
  <1>5. ASSUME NEW s \in Relays, NEW batch \in SUBSET Rows, ClaimBatch(s, batch)
        PROVE  StaleKeeps(r, m)
    BY <1>5 DEF ClaimBatch, Asleep, OutboxTypeOK
  <1>6. ASSUME NEW n \in Rows, RowLapses(n) PROVE StaleKeeps(r, m)
    BY <1>6 DEF RowLapses
  <1>7. ASSUME NEW n \in Rows, Enqueue(n), UNCHANGED <<relay, topic, faults>>
        PROVE  StaleKeeps(r, m)
    BY <1>7 DEF Enqueue
  <1>8. ASSUME NEW n \in Rows, Acknowledge(n), UNCHANGED <<outbox, relay, faults>>
        PROVE  StaleKeeps(r, m)
    BY <1>8
  <1> QED
    BY <1>1, <1>3, <1>4, <1>5, <1>6, <1>7, <1>8 DEF OutboxNext, RelayNext, RelayStep

(* No relay whose claim is gone changes a row.                             *)
THEOREM StaleRelaysHarmless == OutboxSpec => StaleRelayOverwritesNothing
  <1>1. OutboxInv /\ [OutboxNext]_<<outboxVars, faults>>
          => [\A r \in Relays, m \in Rows : StaleKeeps(r, m)]_outboxVars
    BY StepKeepsStale DEF outboxVars
  <1>2. [\A r \in Relays, m \in Rows : StaleKeeps(r, m)]_outboxVars
          <=> [\A r \in Relays, m \in Rows :
                 m \in relay[r].batch /\ m \notin relay'[r].batch /\ outbox[m].claim # r =>
                   outbox'[m] = outbox[m]]_outboxVars
    BY DEF StaleKeeps
  <1> QED
    BY OutboxInvariant, <1>1, <1>2, PTL DEF OutboxSpec, StaleRelayOverwritesNothing

-----------------------------------------------------------------------------
(* The events that come out of it.                                         *)
Statuses == {"STARTED", "SUCCEEDED", "RETRYABLE_FAILURE", "PERMANENT_FAILURE"}
SignalRecord == [key : Keys, run : BOOLEAN, current : BOOLEAN, attempt : 0 .. MaxAttempts]
ProcRecord == [stage : {"ABSENT", "RECEIVED", "HANDLED"}, claim : Processors \union {None},
               lease : {"none", "live", "lapsed"}]
EvalRecord ==
  [pc : {"idle", "begun", "screening", "listing", "starting", "asking", "ready", "review"},
   key : Keys \union {None}, plan : {"none", "existing", "screened", "classified"},
   number : 0 .. MaxAttempts + 1, run : BOOLEAN]

(* The number of an attempt that was made is that of a row; the one to be  *)
(* started is within the bound, and no other is open unless another worker *)
(* took its number.                                                        *)
Knows(e) ==
  /\ eval[e].pc # "idle" => eval[e].key \in Keys
  /\ eval[e].pc = "starting" =>
       LET made == attempts[eval[e].key]
       IN /\ eval[e].number \in 1 .. MaxAttempts /\ eval[e].number <= Len(made) + 1
          /\ eval[e].number = Len(made) + 1 => \A i \in 1 .. Len(made) : made[i] # "STARTED"
  /\ eval[e].pc = "asking" => eval[e].number \in 1 .. Len(attempts[eval[e].key])
  /\ eval[e].pc = "ready" /\ eval[e].plan = "classified" =>
       /\ eval[e].number \in 1 .. Len(attempts[eval[e].key])
       /\ attempts[eval[e].key][eval[e].number] = "SUCCEEDED"
  /\ eval[e].pc # "idle" /\ e \in Processors => topic["event"] # "none"

(* Only the last attempt under a key can be open.                          *)
AttemptsInOrder ==
  \A k \in Keys :
    /\ Len(attempts[k]) <= MaxAttempts
    /\ \A i \in 1 .. Len(attempts[k]) : attempts[k][i] = "STARTED" => i = Len(attempts[k])

(* A run, and a row of the outbox, is that of a Signal.                    *)
RunsFollow ==
  /\ \A k \in runs : Signalled(k)
  /\ \A k \in Keys : k \in runs <=> outbox[k].state # "ABSENT"

PipelineInv ==
  /\ PipelineTypeOK /\ OutboxInv
  /\ \A e \in Evaluators : Knows(e)
  /\ AttemptsInOrder /\ RunsFollow /\ SignalChain

(* The type invariant in parts, each the affair of other steps.            *)
EvalOK == eval \in [Evaluators -> EvalRecord]

ProcOK == proc \in ProcRecord /\ (proc.claim = None <=> proc.lease = "none")

AttemptsOK == attempts \in [Keys -> Seq(Statuses)]

SignalsOK == signals \in Seq(SignalRecord) /\ runs \subseteq Keys

LEMMA TypesSplit == PipelineTypeOK <=> EvalOK /\ ProcOK /\ AttemptsOK /\ SignalsOK
  BY DEF PipelineTypeOK, EvalOK, ProcOK, AttemptsOK, SignalsOK, EvalRecord, ProcRecord,
         SignalRecord, Statuses

LEMMA PipelineInitial == PipelineInit => PipelineInv
  <1> SUFFICES ASSUME PipelineInit PROVE PipelineInv
    OBVIOUS
  <1> USE PipelineAssumption DEF PipelineInit
  <1>1. EvalOK /\ \A e \in Evaluators : Knows(e)
    BY DEF EvalOK, EvalRecord, Resting, Knows
  <1>2. ProcOK /\ AttemptsOK /\ SignalsOK
    BY DEF ProcOK, ProcRecord, AttemptsOK, SignalsOK
  <1>3. OutboxInv
    BY OutboxInitial
  <1>4. AttemptsInOrder /\ SignalChain
    BY DEF AttemptsInOrder, SignalChain
  <1>5. RunsFollow
    BY DEF RunsFollow, OutboxInit, Absent
  <1> QED  BY <1>1, <1>2, <1>3, <1>4, <1>5, TypesSplit DEF PipelineInv

-----------------------------------------------------------------------------
(* What a step does with the outbox, and what the pipeline sees of it.     *)
Writes == \E m \in Rows : Enqueue(m) /\ UNCHANGED <<relay, topic, faults>>
Acks == \E m \in Rows : Acknowledge(m) /\ UNCHANGED <<outbox, relay, faults>>
LeavesOutbox == UNCHANGED outboxVars /\ faults' \in 0 .. MaxFaults

LEMMA RelayMoves ==
  ASSUME OutboxInv, RelayNext
  PROVE  /\ \A m \in Rows : outbox'[m].state = "ABSENT" <=> outbox[m].state = "ABSENT"
         /\ \A m \in Rows : topic[m] # "none" => topic'[m] # "none"
  <1> DEFINE Moves == /\ \A m \in Rows : outbox'[m].state = "ABSENT" <=> outbox[m].state = "ABSENT"
                      /\ \A m \in Rows : topic[m] # "none" => topic'[m] # "none"
  <1> USE DEF OutboxInv, OutboxTypeOK
  <1>1. ASSUME NEW r \in Relays, NEW m \in Rows, Publish(r, m) PROVE Moves
    BY <1>1 DEF Publish
  <1>2. ASSUME NEW r \in Relays, NEW m \in Rows, Complete(r, m) PROVE Moves
    BY <1>2 DEF Complete, Holds, Absent
  <1>3. ASSUME NEW r \in Relays, NEW m \in Rows, Release(r, m) PROVE Moves
    BY <1>3 DEF Release, Holds, Pending, Absent
  <1>4. ASSUME NEW r \in Relays, CrashRelay(r) PROVE Moves
    BY <1>4 DEF CrashRelay
  <1>5. ASSUME NEW r \in Relays, NEW batch \in SUBSET Rows, ClaimBatch(r, batch) PROVE Moves
    BY <1>5 DEF ClaimBatch, Eligible
  <1>6. ASSUME NEW m \in Rows, RowLapses(m) PROVE Moves
    BY <1>6 DEF RowLapses
  <1> QED  BY <1>1, <1>2, <1>3, <1>4, <1>5, <1>6 DEF RelayNext, RelayStep

LEMMA OutboxMoves ==
  ASSUME OutboxInv, RelayNext \/ Writes \/ Acks \/ LeavesOutbox
  PROVE  /\ [OutboxNext]_outboxVars /\ OutboxInv'
         /\ \A m \in Rows : topic[m] # "none" => topic'[m] # "none"
  <1>1. CASE RelayNext
    BY <1>1, OutboxStep, RelayMoves DEF OutboxNext
  <1>2. CASE Writes
    BY <1>2, OutboxStep DEF Writes, OutboxNext
  <1>3. CASE Acks
    <2>1. \A m \in Rows : topic[m] # "none" => topic'[m] # "none"
      BY <1>3 DEF Acks, Acknowledge, OutboxInv, OutboxTypeOK
    <2> QED  BY <1>3, <2>1, OutboxStep DEF Acks, OutboxNext
  <1>4. CASE LeavesOutbox
    BY <1>4
       DEF LeavesOutbox, outboxVars, OutboxInv, OutboxTypeOK, RelayKnows, PublishedWasAccepted
  <1> QED  BY <1>1, <1>2, <1>3, <1>4

LEMMA FaultLeaves ==
  ASSUME OutboxInv, UNCHANGED outboxVars, UNCHANGED faults \/ Fault
  PROVE  LeavesOutbox
  BY OutboxAssumption DEF LeavesOutbox, Fault, OutboxInv, OutboxTypeOK

-----------------------------------------------------------------------------
(* What every step does with the attempts: their number grows, one that    *)
(* SUCCEEDED stays so, and only a new one is open that was not.            *)
AttemptsGrow ==
  \A k \in Keys :
    /\ Len(attempts[k]) <= Len(attempts'[k])
    /\ \A i \in 1 .. Len(attempts[k]) :
         attempts[k][i] = "SUCCEEDED" => attempts'[k][i] = "SUCCEEDED"
    /\ \A i \in 1 .. Len(attempts[k]) :
         attempts'[k][i] = "STARTED" => attempts[k][i] = "STARTED"

LEMMA AttemptsRest ==
  ASSUME AttemptsOK, AttemptsInOrder, UNCHANGED attempts
  PROVE  AttemptsOK' /\ AttemptsInOrder' /\ AttemptsGrow
  BY DEF AttemptsOK, AttemptsInOrder, AttemptsGrow

LEMMA KnowledgeStays ==
  ASSUME AttemptsOK, AttemptsOK', AttemptsGrow, EvalOK, NEW e \in Evaluators, Knows(e),
         eval'[e] = eval[e], topic["event"] # "none" => topic'["event"] # "none"
  PROVE  Knows(e)'
  <1>1. \A k \in Keys : Len(attempts[k]) \in Nat /\ Len(attempts'[k]) \in Nat
    BY DEF AttemptsOK
  <1>2. CASE eval[e].pc = "idle"
    BY <1>2 DEF Knows
  <1>3. CASE eval[e].pc # "idle"
    <2>1. PICK k \in Keys : eval[e].key = k /\ eval'[e].key = k
      BY <1>3 DEF Knows
    <2>2. PICK n \in Nat : eval[e].number = n /\ eval'[e].number = n
      BY DEF EvalOK, EvalRecord
    <2>3. /\ Len(attempts[k]) \in Nat /\ Len(attempts'[k]) \in Nat
          /\ Len(attempts[k]) <= Len(attempts'[k])
      BY <1>1 DEF AttemptsGrow
    <2>4. CASE eval[e].pc = "starting"
      <3>1. /\ n \in 1 .. MaxAttempts /\ n <= Len(attempts[k]) + 1
            /\ n = Len(attempts[k]) + 1 =>
                 \A i \in 1 .. Len(attempts[k]) : attempts[k][i] # "STARTED"
        BY <2>1, <2>2, <2>4 DEF Knows
      <3>2. n <= Len(attempts'[k]) + 1
        BY <2>3, <3>1
      <3>3. n = Len(attempts'[k]) + 1 =>
              \A i \in 1 .. Len(attempts'[k]) : attempts'[k][i] # "STARTED"
        BY <2>3, <3>1 DEF AttemptsGrow
      <3> QED  BY <2>1, <2>2, <2>4, <3>1, <3>2, <3>3 DEF Knows
    <2>5. CASE eval[e].pc # "starting"
      BY <2>1, <2>2, <2>3, <2>5 DEF Knows, AttemptsGrow
    <2> QED  BY <2>4, <2>5
  <1> QED  BY <1>2, <1>3

(* Signals and runs that stay, with rows that stay where they are.         *)
LEMMA ChainRests ==
  ASSUME PipelineInv, UNCHANGED <<signals, runs>>,
         \A k \in Keys : outbox'[k].state = "ABSENT" <=> outbox[k].state = "ABSENT"
  PROVE  SignalsOK' /\ SignalChain' /\ RunsFollow'
  <1>1. SignalsOK
    BY TypesSplit DEF PipelineInv
  <1>2. SignalsOK'
    BY <1>1 DEF SignalsOK
  <1>3. \A i \in 1 .. Len(signals) : signals[i].key \in Keys
    <2>1. \A i \in 1 .. Len(signals) : signals[i] \in SignalRecord
      BY <1>1 DEF SignalsOK
    <2> QED  BY <2>1 DEF SignalRecord
  <1>4. SignalChain'
    BY <1>3 DEF SignalChain, PipelineInv
  <1>5. RunsFollow'
    BY <1>1 DEF RunsFollow, PipelineInv, Signalled
  <1> QED  BY <1>2, <1>4, <1>5

(* The steps of one evaluator; x is its new record.                        *)
LEMMA Concluded ==
  ASSUME PipelineInv, NEW e \in Evaluators, NEW x \in EvalRecord, eval' = [eval EXCEPT ![e] = x],
         ProcOK', OutboxInv', topic["event"] # "none" => topic'["event"] # "none",
         AttemptsOK', AttemptsInOrder', AttemptsGrow, Knows(e)',
         SignalsOK', SignalChain', RunsFollow'
  PROVE  PipelineInv'
  <1>1. EvalOK /\ AttemptsOK /\ \A f \in Evaluators : Knows(f)
    BY TypesSplit DEF PipelineInv
  <1>2. EvalOK'
    BY <1>1 DEF EvalOK
  <1>3. \A f \in Evaluators : Knows(f)'
    <2> SUFFICES ASSUME NEW f \in Evaluators, f # e PROVE Knows(f)'
      OBVIOUS
    <2>1. eval'[f] = eval[f]
      BY <1>1 DEF EvalOK
    <2> QED  BY <1>1, <2>1, KnowledgeStays
  <1>4. PipelineTypeOK'
    BY <1>2, TypesSplit, PTL
  <1> QED  BY <1>3, <1>4 DEF PipelineInv

(* A step of an evaluator that makes no attempt and persists nothing.      *)
LEMMA QuietStep ==
  ASSUME PipelineInv, NEW e \in Evaluators, NEW x \in EvalRecord, eval' = [eval EXCEPT ![e] = x],
         ProcOK', UNCHANGED <<attempts, signals, runs>>,
         LeavesOutbox \/ Acks,
         x.pc # "idle" => x.key \in Keys /\ (e \in Processors => topic["event"] # "none"),
         x.pc \notin {"starting", "asking"},
         x.pc = "ready" => x.plan # "classified"
  PROVE  PipelineInv' /\ [OutboxNext]_outboxVars
  <1>1. EvalOK /\ AttemptsOK /\ AttemptsInOrder /\ OutboxInv
    BY TypesSplit DEF PipelineInv
  <1>2. /\ OutboxInv' /\ [OutboxNext]_outboxVars
        /\ topic["event"] # "none" => topic'["event"] # "none"
    BY <1>1, OutboxMoves, PipelineAssumption
  <1>3. AttemptsOK' /\ AttemptsInOrder' /\ AttemptsGrow
    BY <1>1, AttemptsRest
  <1>4. outbox' = outbox
    BY DEF LeavesOutbox, Acks, outboxVars
  <1>5. SignalsOK' /\ SignalChain' /\ RunsFollow'
    BY <1>4, ChainRests
  <1>6. eval'[e] = x
    BY <1>1 DEF EvalOK
  <1>7. Knows(e)'
    BY <1>2, <1>6 DEF Knows
  <1> QED  BY <1>2, <1>3, <1>5, <1>7, Concluded

LEMMA EvalRests == Resting \in EvalRecord /\ Resting.pc = "idle"
  BY PipelineAssumption DEF Resting, EvalRecord

-----------------------------------------------------------------------------
(* The steps of no evaluator.                                              *)
Around == Ingest \/ SkipDelivery \/ ClaimLapses \/ (RelayNext /\ UNCHANGED pipelineVars)

LEMMA AroundKeeps ==
  ASSUME PipelineInv, Around
  PROVE  PipelineInv' /\ [OutboxNext]_outboxVars
  <1>1. EvalOK /\ ProcOK /\ AttemptsOK /\ AttemptsInOrder /\ OutboxInv
    BY TypesSplit DEF PipelineInv
  <1>2. UNCHANGED <<attempts, signals, runs, eval>>
    BY DEF Around, Ingest, SkipDelivery, ClaimLapses, pipelineVars
  <1>3. "event" \in Rows /\ "event" \notin Keys /\ Keys \subseteq Rows
    BY PipelineAssumption
  <1>4. RelayNext \/ Writes \/ Acks \/ LeavesOutbox
    <2>1. CASE Ingest
      BY <1>3, <2>1 DEF Ingest, Writes
    <2>2. CASE SkipDelivery
      BY <1>3, <2>2 DEF SkipDelivery, Acks
    <2>3. CASE ClaimLapses
      BY <1>1, <2>3, FaultLeaves DEF ClaimLapses
    <2> QED  BY <2>1, <2>2, <2>3 DEF Around
  <1>5. /\ OutboxInv' /\ [OutboxNext]_outboxVars
        /\ topic["event"] # "none" => topic'["event"] # "none"
    BY <1>1, <1>3, <1>4, OutboxMoves
  <1>6. \A k \in Keys : outbox'[k].state = "ABSENT" <=> outbox[k].state = "ABSENT"
    <2>1. CASE Ingest
      BY <1>1, <1>3, <2>1 DEF Ingest, Enqueue, OutboxInv, OutboxTypeOK
    <2>2. CASE SkipDelivery \/ ClaimLapses
      BY <2>2 DEF SkipDelivery, ClaimLapses, outboxVars
    <2>3. CASE RelayNext
      BY <1>1, <1>3, <2>3, RelayMoves
    <2> QED  BY <2>1, <2>2, <2>3 DEF Around
  <1>7. SignalsOK' /\ SignalChain' /\ RunsFollow'
    BY <1>2, <1>6, ChainRests
  <1>8. AttemptsOK' /\ AttemptsInOrder' /\ AttemptsGrow
    BY <1>1, <1>2, AttemptsRest
  <1>9. \A e \in Evaluators : Knows(e)'
    BY <1>1, <1>2, <1>5, <1>8, KnowledgeStays DEF PipelineInv
  <1>10. ProcOK'
    BY <1>1 DEF Around, Ingest, SkipDelivery, ClaimLapses, pipelineVars, ProcOK, ProcRecord
  <1>11. EvalOK'
    BY <1>1, <1>2 DEF EvalOK
  <1>12. PipelineTypeOK'
    BY <1>7, <1>8, <1>10, <1>11, TypesSplit, PTL
  <1> QED  BY <1>5, <1>7, <1>8, <1>9, <1>12 DEF PipelineInv

-----------------------------------------------------------------------------
(* The steps that begin an evaluation, look up, screen, or end without a   *)
(* commit.                                                                 *)
LEMMA BeginKeeps ==
  ASSUME PipelineInv,
         \/ \E p \in Processors : ClaimEvent(p)
         \/ \E o \in Operators, k \in Keys : Command(o, k)
  PROVE  PipelineInv' /\ [OutboxNext]_outboxVars
  <1>1. ProcOK /\ OutboxInv
    BY TypesSplit DEF PipelineInv
  <1>2. UNCHANGED <<attempts, signals, runs, outboxVars, faults>>
    BY DEF ClaimEvent, Command
  <1>3. LeavesOutbox
    BY <1>1, <1>2, FaultLeaves
  <1>4. ASSUME NEW p \in Processors, ClaimEvent(p)
        PROVE  PipelineInv' /\ [OutboxNext]_outboxVars
    <2> DEFINE x == [Resting EXCEPT !.pc = "begun", !.key = "initial"]
    <2>1. x \in EvalRecord /\ x.pc = "begun" /\ x.key = "initial" /\ "initial" \in Keys
      BY EvalRests DEF EvalRecord, Keys
    <2>2. eval' = [eval EXCEPT ![p] = x] /\ topic["event"] # "none"
          /\ proc' = [proc EXCEPT !.claim = p, !.lease = "live"]
      BY <1>4 DEF ClaimEvent
    <2> HIDE DEF x
    <2>3. ProcOK'
      BY <1>1, <2>2, PipelineAssumption DEF ProcOK, ProcRecord, Evaluators
    <2> QED  BY <1>2, <1>3, <2>1, <2>2, <2>3, QuietStep DEF Evaluators
  <1>5. ASSUME NEW o \in Operators, NEW k \in Keys, Command(o, k)
        PROVE  PipelineInv' /\ [OutboxNext]_outboxVars
    <2> DEFINE x == [Resting EXCEPT !.pc = "begun", !.key = k]
    <2>1. x \in EvalRecord /\ x.pc = "begun" /\ x.key = k
      BY EvalRests DEF EvalRecord
    <2>2. eval' = [eval EXCEPT ![o] = x] /\ proc' = proc
      BY <1>5 DEF Command
    <2> HIDE DEF x
    <2>3. ProcOK' /\ o \notin Processors
      BY <1>1, <2>2, PipelineAssumption DEF ProcOK
    <2> QED  BY <1>2, <1>3, <2>1, <2>2, <2>3, QuietStep DEF Evaluators
  <1> QED  BY <1>4, <1>5

LEMMA LookKeeps ==
  ASSUME PipelineInv, NEW e \in Evaluators, LookUp(e) \/ Screen(e)
  PROVE  PipelineInv' /\ [OutboxNext]_outboxVars
  <1>1. /\ ProcOK /\ OutboxInv /\ eval[e] \in EvalRecord /\ eval \in [Evaluators -> EvalRecord]
        /\ Knows(e)
    BY TypesSplit DEF PipelineInv, EvalOK
  <1>2. /\ UNCHANGED <<proc, attempts, signals, runs, outboxVars, faults>>
        /\ eval[e].pc # "idle"
    BY DEF LookUp, Screen
  <1>3. LeavesOutbox /\ ProcOK'
    BY <1>1, <1>2, FaultLeaves DEF ProcOK
  <1>4. ASSUME NEW pc \in {"ready", "screening", "listing"},
               NEW plan \in {"none", "existing", "screened", eval[e].plan},
               eval' = [eval EXCEPT ![e] = [eval[e] EXCEPT !.pc = pc, !.plan = plan]],
               pc = "ready" => plan # "classified"
        PROVE  PipelineInv' /\ [OutboxNext]_outboxVars
    <2> DEFINE x == [eval[e] EXCEPT !.pc = pc, !.plan = plan]
    <2>1. x \in EvalRecord /\ x.pc = pc /\ x.plan = plan /\ x.key = eval[e].key
      BY <1>1 DEF EvalRecord
    <2>2. eval' = [eval EXCEPT ![e] = x]
      BY <1>4
    <2> HIDE DEF x
    <2>3. x.key \in Keys /\ (e \in Processors => topic["event"] # "none")
      BY <1>1, <1>2, <2>1 DEF Knows
    <2> QED  BY <1>2, <1>3, <1>4, <2>1, <2>2, <2>3, QuietStep
  <1>5. CASE LookUp(e)
    <2>1. \/ eval' = [eval EXCEPT ![e].pc = "ready", ![e].plan = "existing"]
          \/ eval' = [eval EXCEPT ![e].pc = "screening", ![e].plan = "none"]
      BY <1>5 DEF LookUp
    <2>2. \/ eval' = [eval EXCEPT ![e] = [eval[e] EXCEPT !.pc = "ready", !.plan = "existing"]]
          \/ eval' = [eval EXCEPT ![e] = [eval[e] EXCEPT !.pc = "screening", !.plan = "none"]]
      BY <1>1, <2>1
    <2> QED  BY <1>4, <2>2
  <1>6. CASE Screen(e)
    <2>1. \/ eval' = [eval EXCEPT ![e].pc = "ready", ![e].plan = "screened"]
          \/ eval' = [eval EXCEPT ![e].pc = "listing"]
      BY <1>6 DEF Screen
    <2>2. [eval[e] EXCEPT !.pc = "listing"]
            = [eval[e] EXCEPT !.pc = "listing", !.plan = eval[e].plan]
      BY <1>1 DEF EvalRecord
    <2>3. \/ eval' = [eval EXCEPT ![e] = [eval[e] EXCEPT !.pc = "ready", !.plan = "screened"]]
          \/ eval' = [eval EXCEPT ![e] = [eval[e] EXCEPT !.pc = "listing", !.plan = eval[e].plan]]
      BY <1>1, <2>1, <2>2
    <2> QED  BY <1>4, <2>3
  <1> QED  BY <1>5, <1>6

Ending(e) == GiveUp(e) \/ CrashEvaluator(e) \/ (e \in Processors /\ Review(e))

LEMMA EndingKeeps ==
  ASSUME PipelineInv, NEW e \in Evaluators, Ending(e)
  PROVE  PipelineInv' /\ [OutboxNext]_outboxVars
  <1>1. ProcOK /\ OutboxInv /\ Knows(e)
    BY TypesSplit DEF PipelineInv
  <1>2. /\ eval' = [eval EXCEPT ![e] = Resting]
        /\ UNCHANGED <<attempts, signals, runs>>
        /\ proc' \in {proc, Released}
    BY DEF Ending, GiveUp, CrashEvaluator, Review
  <1>3. ProcOK'
    BY <1>1, <1>2 DEF ProcOK, ProcRecord, Released
  <1>4. LeavesOutbox \/ Acks
    <2>1. CASE GiveUp(e) \/ CrashEvaluator(e)
      BY <1>1, <2>1, FaultLeaves DEF GiveUp, CrashEvaluator
    <2>2. CASE e \in Processors /\ Review(e)
      <3>1. topic' \in {topic, [topic EXCEPT !["event"] = "acked"]}
            /\ UNCHANGED <<outbox, relay, faults>>
        BY <2>2 DEF Review
      <3>2. topic["event"] \in {"out", "acked"} /\ topic \in [Rows -> {"none", "out", "acked"}]
        BY <1>1, <2>2, PipelineAssumption DEF Knows, Review, OutboxInv, OutboxTypeOK
      <3>3. CASE topic' = topic
        BY <1>1, <3>1, <3>3, FaultLeaves DEF outboxVars
      <3>4. CASE topic["event"] = "out" /\ topic' = [topic EXCEPT !["event"] = "acked"]
        BY <3>1, <3>4, PipelineAssumption DEF Acks, Acknowledge
      <3>5. CASE topic["event"] = "acked" /\ topic' = [topic EXCEPT !["event"] = "acked"]
        <4>1. topic' = topic
          BY <3>2, <3>5
        <4> QED  BY <1>1, <3>1, <4>1, FaultLeaves DEF outboxVars
      <3> QED  BY <3>1, <3>2, <3>3, <3>4, <3>5
    <2> QED  BY <2>1, <2>2 DEF Ending
  <1> QED  BY <1>2, <1>3, <1>4, EvalRests, QuietStep

-----------------------------------------------------------------------------
(* The attempts under one key become s.                                    *)
Continues(k, s) ==
  /\ s \in Seq(Statuses) /\ Len(attempts[k]) <= Len(s) /\ Len(s) <= MaxAttempts
  /\ \A i \in 1 .. Len(attempts[k]) : /\ attempts[k][i] = "SUCCEEDED" => s[i] = "SUCCEEDED"
                                      /\ s[i] = "STARTED" => attempts[k][i] = "STARTED"
  /\ \A i \in 1 .. Len(s) : s[i] = "STARTED" => i = Len(s)

LEMMA AttemptsSet ==
  ASSUME AttemptsOK, AttemptsInOrder, NEW k \in Keys, NEW s, Continues(k, s),
         attempts' = [attempts EXCEPT ![k] = s]
  PROVE  AttemptsOK' /\ AttemptsInOrder' /\ AttemptsGrow /\ attempts'[k] = s
  <1> USE DEF Continues
  <1>1. /\ AttemptsOK' /\ attempts'[k] = s
        /\ \A j \in Keys \ {k} : attempts'[j] = attempts[j]
    BY DEF AttemptsOK
  <1>2. AttemptsInOrder'
    BY <1>1 DEF AttemptsInOrder
  <1>3. AttemptsGrow
    <2>1. \A j \in Keys : Len(attempts[j]) \in Nat
      BY DEF AttemptsOK
    <2> QED  BY <1>1, <2>1 DEF AttemptsGrow
  <1> QED  BY <1>1, <1>2, <1>3

(* The steps of the classifier's runner.                                   *)
LEMMA AttemptStep ==
  ASSUME PipelineInv, NEW e \in Evaluators, NEW x \in EvalRecord, eval' = [eval EXCEPT ![e] = x],
         UNCHANGED <<proc, signals, runs, outboxVars>>, UNCHANGED faults \/ Fault,
         AttemptsOK', AttemptsInOrder', AttemptsGrow, Knows(e)'
  PROVE  PipelineInv' /\ [OutboxNext]_outboxVars
  <1>1. OutboxInv /\ ProcOK
    BY TypesSplit DEF PipelineInv
  <1>2. LeavesOutbox
    BY <1>1, FaultLeaves
  <1>3. /\ OutboxInv' /\ [OutboxNext]_outboxVars
        /\ topic["event"] # "none" => topic'["event"] # "none"
    BY <1>1, <1>2, OutboxMoves, PipelineAssumption
  <1>4. SignalsOK' /\ SignalChain' /\ RunsFollow'
    BY ChainRests DEF outboxVars
  <1>5. ProcOK'
    BY <1>1 DEF ProcOK
  <1> QED  BY <1>3, <1>4, <1>5, Concluded

(* What a step of the runner uses of the invariant, with its key as k.     *)
Begun(e, k) ==
  /\ eval \in [Evaluators -> EvalRecord] /\ eval[e] \in EvalRecord /\ eval[e].key = k
  /\ AttemptsOK /\ AttemptsInOrder
  /\ attempts[k] \in Seq(Statuses) /\ Len(attempts[k]) \in 0 .. MaxAttempts
  /\ MaxAttempts \in Nat \ {0}
  /\ \A i \in 1 .. Len(attempts[k]) : attempts[k][i] \in Statuses
  /\ e \in Processors => topic["event"] # "none"

LEMMA RunnerFacts ==
  ASSUME PipelineInv, NEW e \in Evaluators, eval[e].pc # "idle"
  PROVE  \E k \in Keys : Begun(e, k)
  <1>1. AttemptsOK /\ AttemptsInOrder /\ EvalOK /\ Knows(e)
    BY TypesSplit DEF PipelineInv
  <1>2. PICK k \in Keys : eval[e].key = k
    BY <1>1 DEF Knows
  <1>3. attempts[k] \in Seq(Statuses) /\ Len(attempts[k]) \in 0 .. MaxAttempts
    BY <1>1, PipelineAssumption DEF AttemptsOK, AttemptsInOrder
  <1>4. \A i \in 1 .. Len(attempts[k]) : attempts[k][i] \in Statuses
    BY <1>3
  <1> QED  BY <1>1, <1>2, <1>3, <1>4, PipelineAssumption DEF Begun, EvalOK, Knows

LEMMA ListKeeps ==
  ASSUME PipelineInv, NEW e \in Evaluators, ListAttempts(e)
  PROVE  PipelineInv' /\ [OutboxNext]_outboxVars
  <1>1. PICK k \in Keys : Begun(e, k)
    BY RunnerFacts DEF ListAttempts
  <1> DEFINE n == Len(attempts[k]) + 1
             pc == IF MayStart(n) THEN "starting" ELSE "review"
             x == [eval[e] EXCEPT !.number = n, !.pc = pc]
             s == Interrupted(k)
  <1>2. /\ attempts' = [attempts EXCEPT ![k] = s] /\ eval' = [eval EXCEPT ![e] = x]
        /\ UNCHANGED <<proc, signals, runs, outboxVars, faults>>
    BY <1>1 DEF ListAttempts, Begun
  <1>3. n \in 1 .. MaxAttempts + 1 /\ (pc = "starting" => n <= MaxAttempts)
        /\ pc \in {"starting", "review"}
    BY <1>1 DEF Begun, MayStart
  <1>4. /\ x \in EvalRecord /\ x.pc = pc /\ x.number = n /\ x.key = k
    <2>1. n \in 0 .. MaxAttempts + 1 /\ eval[e] \in EvalRecord /\ eval[e].key = k
      BY <1>1, <1>3 DEF Begun
    <2> HIDE DEF n, pc
    <2> QED  BY <1>3, <2>1 DEF EvalRecord
  <1>5. /\ s \in Seq(Statuses) /\ Len(s) = Len(attempts[k])
        /\ \A i \in 1 .. Len(attempts[k]) :
             s[i] = IF attempts[k][i] = "STARTED" THEN "RETRYABLE_FAILURE" ELSE attempts[k][i]
    BY <1>1 DEF Interrupted, Begun, Statuses
  <1> HIDE DEF s, x, pc
  <1>6. AttemptsOK' /\ AttemptsInOrder' /\ AttemptsGrow /\ attempts'[k] = s
    <2>1. Continues(k, s)
      BY <1>1, <1>5 DEF Continues, Begun
    <2> QED  BY <1>1, <1>2, <2>1, AttemptsSet DEF Begun
  <1>7. eval'[e] = x /\ (e \in Processors => topic'["event"] # "none")
    BY <1>1, <1>2 DEF Begun, outboxVars
  <1>8. \A i \in 1 .. Len(s) : s[i] # "STARTED"
    BY <1>5
  <1>9. Knows(e)'
    BY <1>3, <1>4, <1>5, <1>6, <1>7, <1>8 DEF Knows
  <1> QED  BY <1>2, <1>4, <1>6, <1>9, AttemptStep

LEMMA StartKeeps ==
  ASSUME PipelineInv, NEW e \in Evaluators, StartAttempt(e)
  PROVE  PipelineInv' /\ [OutboxNext]_outboxVars
  <1>1. PICK k \in Keys : Begun(e, k)
    BY RunnerFacts DEF StartAttempt
  <1> DEFINE n == eval[e].number
             x == [eval[e] EXCEPT !.pc = "asking"]
             s == Append(attempts[k], "STARTED")
  <1>2. /\ attempts' = [attempts EXCEPT ![k] = s] /\ eval' = [eval EXCEPT ![e] = x]
        /\ UNCHANGED <<proc, signals, runs, outboxVars, faults>>
        /\ n = Len(attempts[k]) + 1 /\ eval[e].pc = "starting"
    BY <1>1 DEF StartAttempt, Begun
  <1>3. n \in 1 .. MaxAttempts /\ \A i \in 1 .. Len(attempts[k]) : attempts[k][i] # "STARTED"
    BY <1>1, <1>2 DEF PipelineInv, Knows, Begun
  <1>4. /\ x \in EvalRecord /\ x.pc = "asking" /\ x.number = n /\ x.key = k
    BY <1>1 DEF Begun, EvalRecord
  <1>5. /\ s \in Seq(Statuses) /\ Len(s) = n /\ s[n] = "STARTED"
        /\ \A i \in 1 .. Len(attempts[k]) : s[i] = attempts[k][i]
    BY <1>1, <1>2 DEF Begun, Statuses
  <1> HIDE DEF s, x, n
  <1>6. \A i \in 1 .. Len(s) : s[i] = "STARTED" => i = Len(s)
    BY <1>1, <1>2, <1>3, <1>5 DEF Begun
  <1>7. AttemptsOK' /\ AttemptsInOrder' /\ AttemptsGrow /\ attempts'[k] = s
    <2>1. Len(s) <= MaxAttempts /\ Len(attempts[k]) <= Len(s)
      BY <1>1, <1>2, <1>3, <1>5 DEF Begun
    <2>2. Continues(k, s)
      BY <1>3, <1>5, <1>6, <2>1 DEF Continues
    <2> QED  BY <1>1, <1>2, <2>2, AttemptsSet DEF Begun
  <1>8. eval'[e] = x /\ (e \in Processors => topic'["event"] # "none")
    BY <1>1, <1>2 DEF Begun, outboxVars
  <1>9. Knows(e)'
    BY <1>3, <1>4, <1>5, <1>7, <1>8 DEF Knows
  <1> QED  BY <1>2, <1>4, <1>7, <1>9, AttemptStep

(* An attempt that is open is the last, and ends with some status.         *)
LEMMA FinishKeeps ==
  ASSUME PipelineInv, NEW e \in Evaluators, NEW k \in Keys, Begun(e, k),
         NEW status \in Statuses \ {"STARTED"}, FinishAttempt(e, status)
  PROVE  /\ AttemptsOK' /\ AttemptsInOrder' /\ AttemptsGrow
         /\ eval[e].number \in 1 .. Len(attempts'[k])
         /\ Len(attempts'[k]) = Len(attempts[k])
         /\ attempts'[k][eval[e].number] = status
         /\ eval[e].number = Len(attempts[k])
         /\ \A i \in 1 .. Len(attempts'[k]) : attempts'[k][i] # "STARTED"
  <1> DEFINE n == eval[e].number
             s == [attempts[k] EXCEPT ![n] = status]
  <1>1. n \in 1 .. Len(attempts[k]) /\ attempts[k][n] = "STARTED"
    BY DEF FinishAttempt, StillOpen, Begun, PipelineInv, Knows
  <1>2. n = Len(attempts[k]) /\ \A i \in 1 .. Len(attempts[k]) : attempts[k][i] = "STARTED" => i = n
    BY <1>1 DEF Begun, AttemptsInOrder
  <1>3. attempts' = [attempts EXCEPT ![k] = s]
    BY DEF FinishAttempt, Begun, AttemptsOK
  <1>4. /\ s \in Seq(Statuses) /\ Len(s) = Len(attempts[k]) /\ s[n] = status
        /\ \A i \in 1 .. Len(attempts[k]) : i # n => s[i] = attempts[k][i]
    BY <1>1 DEF Begun
  <1> HIDE DEF s, n
  <1>5. AttemptsOK' /\ AttemptsInOrder' /\ AttemptsGrow /\ attempts'[k] = s
    <2>1. Len(s) <= MaxAttempts /\ Len(attempts[k]) <= Len(s)
      BY <1>4 DEF Begun
    <2>2. Continues(k, s)
      BY <1>1, <1>2, <1>4, <2>1 DEF Continues
    <2> QED  BY <1>3, <2>2, AttemptsSet DEF Begun
  <1> QED  BY <1>1, <1>2, <1>4, <1>5 DEF n

LEMMA AnswerKeeps ==
  ASSUME PipelineInv, NEW e \in Evaluators, Classified(e) \/ ClassifierFails(e)
  PROVE  PipelineInv' /\ [OutboxNext]_outboxVars
  <1>1. eval[e].pc = "asking"
    BY DEF Classified, ClassifierFails, FinishAttempt
  <1>2. PICK k \in Keys : Begun(e, k)
    BY <1>1, RunnerFacts
  <1>3. /\ UNCHANGED <<proc, signals, runs, outboxVars>> /\ (UNCHANGED faults \/ Fault)
        /\ topic' = topic
    BY DEF Classified, ClassifierFails, FinishAttempt, outboxVars
  <1>4. eval[e] \in EvalRecord /\ eval[e].key = k /\ (e \in Processors => topic["event"] # "none")
    BY <1>2 DEF Begun
  <1>5. CASE Classified(e)
    <2>1. PICK run \in BOOLEAN :
            eval' = [eval EXCEPT ![e].pc = "ready", ![e].plan = "classified", ![e].run = run]
      BY <1>5 DEF Classified
    <2> DEFINE x == [eval[e] EXCEPT !.pc = "ready", !.plan = "classified", !.run = run]
    <2>2. eval' = [eval EXCEPT ![e] = x]
      BY <1>2, <2>1 DEF Begun
    <2>3. /\ x \in EvalRecord /\ x.pc = "ready" /\ x.number = eval[e].number /\ x.key = k
      BY <1>4 DEF EvalRecord
    <2> HIDE DEF x
    <2>4. /\ AttemptsOK' /\ AttemptsInOrder' /\ AttemptsGrow
          /\ eval[e].number \in 1 .. Len(attempts'[k])
          /\ attempts'[k][eval[e].number] = "SUCCEEDED"
      BY <1>2, <1>5, FinishKeeps DEF Classified, Statuses
    <2>5. eval'[e] = x
      BY <1>2, <2>2 DEF Begun
    <2>6. Knows(e)'
      BY <1>3, <1>4, <2>3, <2>4, <2>5 DEF Knows
    <2> QED  BY <1>3, <2>2, <2>3, <2>4, <2>6, AttemptStep
  <1>6. CASE ClassifierFails(e)
    <2> DEFINE n == IF Final(e) THEN eval[e].number ELSE eval[e].number + 1
               pc == IF Final(e) THEN "review" ELSE "starting"
               x == [eval[e] EXCEPT !.pc = pc, !.number = n]
               status == IF Final(e) THEN "PERMANENT_FAILURE" ELSE "RETRYABLE_FAILURE"
    <2>1. FinishAttempt(e, status) /\ status \in Statuses \ {"STARTED"}
      BY <1>6 DEF ClassifierFails, Statuses
    <2>2. eval' = [eval EXCEPT ![e] = x]
      BY <1>2, <1>6 DEF ClassifierFails, Begun
    <2> HIDE DEF status
    <2>3. /\ AttemptsOK' /\ AttemptsInOrder' /\ AttemptsGrow
          /\ eval[e].number \in 1 .. Len(attempts'[k]) /\ eval[e].number = Len(attempts'[k])
          /\ \A i \in 1 .. Len(attempts'[k]) : attempts'[k][i] # "STARTED"
      BY <1>2, <2>1, FinishKeeps
    <2>4. /\ n \in 0 .. MaxAttempts + 1 /\ pc \in {"review", "starting"}
          /\ pc = "starting" => n \in 1 .. MaxAttempts /\ n = Len(attempts'[k]) + 1
      BY <1>2, <2>3 DEF Begun, Final, MayStart, AttemptsInOrder
    <2> HIDE DEF n, pc
    <2>5. /\ x \in EvalRecord /\ x.pc = pc /\ x.number = n /\ x.key = k
      BY <1>4, <2>4 DEF EvalRecord
    <2> HIDE DEF x
    <2>6. eval'[e] = x
      BY <1>2, <2>2 DEF Begun
    <2>7. Knows(e)'
      BY <1>3, <1>4, <2>3, <2>4, <2>5, <2>6 DEF Knows
    <2> QED  BY <1>3, <2>2, <2>3, <2>5, <2>7, AttemptStep
  <1> QED  BY <1>5, <1>6

-----------------------------------------------------------------------------
(* The Signals that are superseded stay as they are but for that.          *)
LEMMA SupersededChain ==
  ASSUME signals \in Seq(SignalRecord)
  PROVE  /\ Superseded \in Seq(SignalRecord) /\ Len(Superseded) = Len(signals)
         /\ \A i \in 1 .. Len(signals) : /\ Superseded[i].key = signals[i].key
                                         /\ Superseded[i].run = signals[i].run
                                         /\ Superseded[i].current = FALSE
  <1> DEFINE n == Len(signals)
             old(i) == [signals[i] EXCEPT !.current = FALSE]
  <1>1. n \in Nat /\ \A i \in 1 .. n : signals[i] \in SignalRecord
    OBVIOUS
  <1>2. \A i \in 1 .. n : /\ old(i) \in SignalRecord /\ old(i).key = signals[i].key
                         /\ old(i).run = signals[i].run /\ old(i).current = FALSE
    BY <1>1 DEF SignalRecord
  <1>3. Superseded = [i \in 1 .. n |-> old(i)]
    BY DEF Superseded
  <1> HIDE DEF old, n
  <1>4. /\ Superseded \in Seq(SignalRecord) /\ Len(Superseded) = n
        /\ \A i \in 1 .. n : /\ Superseded[i].key = signals[i].key
                             /\ Superseded[i].run = signals[i].run
                             /\ Superseded[i].current = FALSE
    BY <1>1, <1>2, <1>3
  <1> QED  BY <1>4 DEF n

(* The routing transaction: the new Signal ends the chain.                 *)
LEMMA ApplyKeeps ==
  ASSUME PipelineInv, NEW e \in Evaluators, eval[e].pc = "ready", Apply(e),
         UNCHANGED <<relay, topic, faults>>
  PROVE  SignalsOK' /\ SignalChain' /\ RunsFollow' /\ (Writes \/ LeavesOutbox)
  <1>1. OutboxInv /\ SignalsOK /\ SignalChain /\ RunsFollow /\ Knows(e)
    BY TypesSplit DEF PipelineInv
  <1>2. PICK k \in Keys : Begun(e, k)
    BY RunnerFacts
  <1>3. CASE ~Applies(e)
    <2>1. UNCHANGED <<signals, runs, outbox>>
      BY <1>3 DEF Apply
    <2> QED  BY <1>1, <2>1, ChainRests, FaultLeaves DEF outboxVars
  <1>4. CASE Applies(e)
    <2> DEFINE number == IF eval[e].plan = "classified" THEN eval[e].number ELSE 0
               new == [key |-> k, run |-> eval[e].run, current |-> TRUE, attempt |-> number]
               n == Len(signals)
    <2>1. /\ ~Signalled(k) /\ signals' = Append(Superseded, new)
          /\ IF eval[e].run THEN ScheduleRun(k) ELSE UNCHANGED <<runs, outbox>>
      BY <1>2, <1>4 DEF Apply, Applies, PersistSignal, NeedsRun, Begun
    <2>2. k \notin runs /\ outbox[k].state = "ABSENT"
      BY <1>1, <2>1 DEF RunsFollow
    <2>3. /\ n \in Nat /\ \A i \in 1 .. n : signals[i] \in SignalRecord
      BY <1>1 DEF SignalsOK
    <2>4. number \in 0 .. MaxAttempts
      BY <1>1, <1>2 DEF Knows, Begun
    <2>5. /\ new \in SignalRecord /\ new.key = k /\ new.run = eval[e].run /\ new.current = TRUE
      <3>1. eval[e].run \in BOOLEAN
        BY <1>2 DEF Begun, EvalRecord
      <3> HIDE DEF number
      <3> QED  BY <2>4, <3>1 DEF SignalRecord
    <2>6. /\ Superseded \in Seq(SignalRecord) /\ Len(Superseded) = n
          /\ \A i \in 1 .. n : /\ Superseded[i].key = signals[i].key
                               /\ Superseded[i].run = signals[i].run
                               /\ Superseded[i].current = FALSE
      BY <1>1, SupersededChain DEF SignalsOK
    <2> HIDE DEF new, number
    <2>7. /\ signals' \in Seq(SignalRecord) /\ Len(signals') = n + 1 /\ signals'[n + 1] = new
          /\ \A i \in 1 .. n : signals'[i] = Superseded[i]
      BY <2>1, <2>3, <2>5, <2>6
    <2> HIDE DEF n
    <2>8. /\ runs' = IF eval[e].run THEN runs \union {k} ELSE runs
          /\ \A m \in Keys : outbox'[m].state = "ABSENT" <=>
                               outbox[m].state = "ABSENT" /\ ~(m = k /\ eval[e].run)
          /\ Writes \/ LeavesOutbox
      <3>1. CASE eval[e].run
        <4>1. runs' = runs \union {k} /\ Enqueue(k)
          BY <2>1, <2>2, <3>1 DEF ScheduleRun
        <4>2. k \in Rows /\ Keys \subseteq Rows
          BY PipelineAssumption
        <4>3. \A m \in Keys : outbox'[m].state = "ABSENT" <=> outbox[m].state = "ABSENT" /\ m # k
          BY <1>1, <4>1, <4>2 DEF Enqueue, Pending, Absent, OutboxInv, OutboxTypeOK
        <4> QED  BY <3>1, <4>1, <4>2, <4>3 DEF Writes
      <3>2. CASE ~eval[e].run
        BY <1>1, <2>1, <3>2, FaultLeaves DEF outboxVars
      <3> QED  BY <3>1, <3>2
    <2>9. SignalsOK'
      BY <1>1, <2>7, <2>8 DEF SignalsOK
    <2>10. \A i \in 1 .. n : /\ signals'[i].key = signals[i].key /\ signals[i].key # k
                             /\ signals'[i].run = signals[i].run /\ ~signals'[i].current
                             /\ signals[i].key \in Keys
      <3>1. \A i \in 1 .. n : signals[i].key \in Keys /\ signals[i].key # k
        BY <2>1, <2>3 DEF SignalRecord, Signalled, n
      <3> QED  BY <2>6, <2>7, <3>1
    <2>11. SignalChain'
      <3> SUFFICES ASSUME NEW i \in 1 .. n + 1
                   PROVE  /\ signals'[i].current <=> i = n + 1
                          /\ \A j \in 1 .. i - 1 : signals'[i].key # signals'[j].key
                          /\ (signals'[i].run <=> signals'[i].key \in runs')
                          /\ (signals'[i].key \in runs'
                                <=> outbox'[signals'[i].key].state # "ABSENT")
        BY <2>7 DEF SignalChain
      <3>1. CASE i = n + 1
        BY <2>2, <2>3, <2>5, <2>7, <2>8, <2>10, <3>1 DEF n
      <3>2. CASE i \in 1 .. n
        <4>1. /\ (signals[i].run <=> signals[i].key \in runs)
              /\ (signals[i].key \in runs <=> outbox[signals[i].key].state # "ABSENT")
              /\ \A j \in 1 .. i - 1 : signals[i].key # signals[j].key
          BY <1>1, <3>2 DEF SignalChain, n
        <4>2. signals'[i].current <=> i = n + 1
          BY <2>3, <2>10, <3>2 DEF n
        <4>3. \A j \in 1 .. i - 1 : signals'[i].key # signals'[j].key
          BY <2>3, <2>10, <3>2, <4>1 DEF n
        <4> QED  BY <2>8, <2>10, <3>2, <4>1, <4>2, <4>3
      <3> QED  BY <2>3, <3>1, <3>2 DEF n
    <2>12. RunsFollow'
      <3>1. \A m \in runs' : Signalled(m)'
        <4> SUFFICES ASSUME NEW m \in runs' PROVE \E i \in 1 .. n + 1 : signals'[i].key = m
          BY <2>7 DEF Signalled
        <4>1. CASE m = k
          BY <2>3, <2>5, <2>7, <4>1 DEF n
        <4>2. CASE m \in runs
          <5>1. PICK i \in 1 .. n : signals[i].key = m
            BY <1>1, <4>2 DEF RunsFollow, Signalled, n
          <5> QED  BY <2>3, <2>10, <5>1 DEF n
        <4> QED  BY <2>8, <4>1, <4>2
      <3>2. \A m \in Keys : m \in runs' <=> outbox'[m].state # "ABSENT"
        BY <1>1, <2>2, <2>8 DEF RunsFollow
      <3> QED  BY <3>1, <3>2 DEF RunsFollow
    <2> QED  BY <2>8, <2>9, <2>11, <2>12
  <1> QED  BY <1>3, <1>4

LEMMA CommitKeeps ==
  ASSUME PipelineInv, NEW e \in Evaluators, Commit(e) \/ ApplyDirect(e)
  PROVE  PipelineInv' /\ [OutboxNext]_outboxVars
  <1>1. EvalOK /\ AttemptsOK /\ AttemptsInOrder /\ OutboxInv
    BY TypesSplit DEF PipelineInv
  <1>2. /\ eval[e].pc = "ready" /\ Apply(e) /\ proc' = Handled
        /\ eval' = [eval EXCEPT ![e] = Resting] /\ UNCHANGED <<attempts, relay, topic, faults>>
    BY DEF Commit, ApplyDirect
  <1>3. SignalsOK' /\ SignalChain' /\ RunsFollow' /\ (Writes \/ LeavesOutbox)
    BY <1>2, ApplyKeeps
  <1>4. OutboxInv' /\ [OutboxNext]_outboxVars
    BY <1>1, <1>3, OutboxMoves
  <1>5. AttemptsOK' /\ AttemptsInOrder' /\ AttemptsGrow
    BY <1>1, <1>2, AttemptsRest
  <1>6. ProcOK'
    BY <1>2, PipelineAssumption DEF ProcOK, ProcRecord, Handled
  <1>7. Knows(e)'
    BY <1>1, <1>2, EvalRests DEF Knows, EvalOK
  <1> QED  BY <1>2, <1>3, <1>4, <1>5, <1>6, <1>7, EvalRests, Concluded

-----------------------------------------------------------------------------
LEMMA PipelineStep ==
  ASSUME PipelineInv, PipelineNext
  PROVE  PipelineInv' /\ [OutboxNext]_outboxVars
  <1>1. CASE Around
    BY <1>1, AroundKeeps
  <1>2. CASE \/ \E p \in Processors : ClaimEvent(p)
             \/ \E o \in Operators, k \in Keys : Command(o, k)
    BY <1>2, BeginKeeps
  <1>3. ASSUME NEW e \in Evaluators, LookUp(e) \/ Screen(e)
        PROVE  PipelineInv' /\ [OutboxNext]_outboxVars
    BY <1>3, LookKeeps
  <1>4. ASSUME NEW e \in Evaluators, Ending(e)
        PROVE  PipelineInv' /\ [OutboxNext]_outboxVars
    BY <1>4, EndingKeeps
  <1>5. ASSUME NEW e \in Evaluators, ListAttempts(e) \/ StartAttempt(e)
        PROVE  PipelineInv' /\ [OutboxNext]_outboxVars
    BY <1>5, ListKeeps, StartKeeps
  <1>6. ASSUME NEW e \in Evaluators, Classified(e) \/ ClassifierFails(e)
        PROVE  PipelineInv' /\ [OutboxNext]_outboxVars
    BY <1>6, AnswerKeeps
  <1>7. ASSUME NEW e \in Evaluators, Commit(e) \/ ApplyDirect(e)
        PROVE  PipelineInv' /\ [OutboxNext]_outboxVars
    BY <1>7, CommitKeeps
  <1> QED
    BY <1>1, <1>2, <1>3, <1>4, <1>5, <1>6, <1>7
       DEF PipelineNext, EvaluatorStep, Around, Ending

LEMMA PipelineRests ==
  ASSUME PipelineInv, UNCHANGED allVars
  PROVE  PipelineInv' /\ [OutboxNext]_outboxVars
  <1>1. EvalOK /\ ProcOK /\ AttemptsOK /\ AttemptsInOrder /\ OutboxInv
    BY TypesSplit DEF PipelineInv
  <1>2. UNCHANGED <<proc, attempts, signals, runs, eval, outbox, relay, topic, faults>>
    BY DEF allVars, pipelineVars, outboxVars
  <1>3. LeavesOutbox
    BY <1>1, <1>2, FaultLeaves DEF outboxVars
  <1>4. OutboxInv' /\ [OutboxNext]_outboxVars
    BY <1>1, <1>3, OutboxMoves
  <1>5. SignalsOK' /\ SignalChain' /\ RunsFollow'
    BY <1>2, ChainRests
  <1>6. AttemptsOK' /\ AttemptsInOrder' /\ AttemptsGrow
    BY <1>1, <1>2, AttemptsRest
  <1>7. \A e \in Evaluators : Knows(e)'
    BY <1>1, <1>2, <1>6, KnowledgeStays DEF PipelineInv
  <1>8. EvalOK' /\ ProcOK'
    BY <1>1, <1>2 DEF EvalOK, ProcOK
  <1>9. PipelineTypeOK'
    BY <1>5, <1>6, <1>8, TypesSplit, PTL
  <1> QED  BY <1>4, <1>5, <1>6, <1>7, <1>9 DEF PipelineInv

(* In every reachable state the Event's rows are well formed, an evaluator *)
(* holds the number of an attempt that is its own or is taken, and every   *)
(* run and its outbox row are those of a Signal (prepare_evaluation, run,  *)
(* persist_signal_in_session, schedule_in_session).                        *)
THEOREM PipelineInvariant == PipelineSpec => []PipelineInv
  <1>1. PipelineInv /\ [PipelineNext]_allVars => PipelineInv'
    BY PipelineStep, PipelineRests
  <1> QED  BY PipelineInitial, <1>1, PTL DEF PipelineSpec

(* The rows of the Event and the evaluators are well formed in every       *)
(* reachable state.                                                        *)
THEOREM PipelineTypes == PipelineSpec => []PipelineTypeOK
  BY PipelineInvariant, PTL DEF PipelineInv

(* However many evaluators race, the Signals form one chain with one of    *)
(* each key, the newest current, and the runs and their rows are theirs.   *)
THEOREM OneChain == PipelineSpec => []SignalChain
  BY PipelineInvariant, PTL DEF PipelineInv

(* No answer waits without its attempt, and under a key at most one        *)
(* attempt of at most MaxAttempts is open.                                 *)
THEOREM AttemptsCount == PipelineSpec => []AttemptsAccounted
  <1>1. PipelineInv => AttemptsAccounted
    <2> SUFFICES ASSUME PipelineInv PROVE AttemptsAccounted
      OBVIOUS
    <2>1. \A e \in Evaluators : eval[e].pc = "ready" => InScope(e)
      BY DEF PipelineInv, Knows, InScope
    <2>2. ASSUME NEW k \in Keys
          PROVE  /\ Len(attempts[k]) <= MaxAttempts
                 /\ Cardinality({i \in 1 .. Len(attempts[k]) : attempts[k][i] = "STARTED"}) <= 1
      <3> DEFINE open == {i \in 1 .. Len(attempts[k]) : attempts[k][i] = "STARTED"}
      <3>1. open \subseteq {Len(attempts[k])}
        BY DEF PipelineInv, AttemptsInOrder
      <3>2. IsFiniteSet({Len(attempts[k])}) /\ Cardinality({Len(attempts[k])}) = 1
        BY FS_Singleton
      <3>3. Cardinality(open) <= Cardinality({Len(attempts[k])})
        BY <3>1, <3>2, FS_Subset
      <3> QED  BY <3>2, <3>3 DEF PipelineInv, AttemptsInOrder
    <2> QED  BY <2>1, <2>2 DEF AttemptsAccounted
  <1> QED  BY PipelineInvariant, <1>1, PTL

(* Every step of the pipeline is a step of the Outbox or leaves it alone:  *)
(* each row is written once and moved by its relays only.                  *)
THEOREM OutboxImplemented == PipelineSpec => ImplementsOutbox
  <1>1. PipelineInv /\ [PipelineNext]_allVars => [OutboxNext]_outboxVars
    BY PipelineStep, PipelineRests
  <1>2. PipelineInit => OutboxInit
    BY DEF PipelineInit
  <1> QED  BY PipelineInvariant, <1>1, <1>2, PTL DEF PipelineSpec, ImplementsOutbox
-----------------------------------------------------------------------------
(* When a Signal is superseded.  A backfill selects an Event without a     *)
(* current Signal and applies its own after another evaluator did; without *)
(* one, what supersedes is a reevaluation.                                 *)
NoBackfill == \A o \in Operators : ~Command(o, "backfill")

(* The first Signal handles the Event, after which no processor commits;   *)
(* an operator holds a key given to a reevaluation.                        *)
FirstIsAlone ==
  /\ proc.stage # "HANDLED" => signals = <<>>
  /\ \A o \in Operators : eval[o].pc # "idle" => eval[o].key \in Explicit
  /\ OnlyReevaluationSupersedes

HoldsKeys ==
  \A o \in Operators :
    eval'[o].pc # "idle" => eval[o].pc # "idle" /\ eval'[o].key = eval[o].key

LEMMA AloneRests ==
  ASSUME FirstIsAlone, HoldsKeys, signals' = signals,
         proc.stage = "HANDLED" => proc'.stage = "HANDLED"
  PROVE  FirstIsAlone'
  BY DEF FirstIsAlone, HoldsKeys, OnlyReevaluationSupersedes

LEMMA ClaimHolds ==
  ASSUME PipelineInv, FirstIsAlone, NEW p \in Processors, ClaimEvent(p)
  PROVE  FirstIsAlone'
  <1>1. eval \in [Evaluators -> EvalRecord]
    BY TypesSplit DEF PipelineInv, EvalOK
  <1>2. /\ eval' = [eval EXCEPT ![p] = [Resting EXCEPT !.pc = "begun", !.key = "initial"]]
        /\ signals' = signals /\ proc.stage = "RECEIVED"
    BY DEF ClaimEvent, Claimable
  <1>3. \A o \in Operators : eval'[o] = eval[o]
    BY <1>1, <1>2, PipelineAssumption DEF Evaluators
  <1> QED  BY <1>2, <1>3, AloneRests DEF HoldsKeys

LEMMA CommandHolds ==
  ASSUME PipelineInv, FirstIsAlone, NEW o \in Operators, NEW k \in Explicit, Command(o, k)
  PROVE  FirstIsAlone'
  <1>1. eval \in [Evaluators -> EvalRecord]
    BY TypesSplit DEF PipelineInv, EvalOK
  <1>2. /\ eval' = [eval EXCEPT ![o] = [Resting EXCEPT !.pc = "begun", !.key = k]]
        /\ UNCHANGED <<proc, signals>>
    BY DEF Command
  <1>3. eval'[o].key = k /\ \A q \in Operators \ {o} : eval'[q] = eval[q]
    BY <1>1, <1>2 DEF Resting, Evaluators
  <1> QED  BY <1>2, <1>3 DEF FirstIsAlone, OnlyReevaluationSupersedes

(* A step of an evaluator that persists nothing.                           *)
LEMMA EvaluatorHolds ==
  ASSUME PipelineInv, FirstIsAlone, NEW e \in Evaluators,
         \/ LookUp(e) \/ Screen(e) \/ ListAttempts(e) \/ StartAttempt(e)
         \/ Classified(e) \/ ClassifierFails(e) \/ Ending(e)
  PROVE  FirstIsAlone'
  <1>1. eval \in [Evaluators -> EvalRecord] /\ eval[e] \in EvalRecord
    BY TypesSplit DEF PipelineInv, EvalOK
  <1>2. signals' = signals /\ (proc.stage = "HANDLED" => proc'.stage = "HANDLED")
    <2>1. ProcOK
      BY TypesSplit DEF PipelineInv
    <2> QED  BY <2>1 DEF LookUp, Screen, ListAttempts, StartAttempt, Classified, ClassifierFails,
                         FinishAttempt, Ending, GiveUp, CrashEvaluator, Review, Released,
                         ProcOK, ProcRecord
  <1>3. \A f \in Evaluators \ {e} : eval'[f] = eval[f]
    BY <1>1 DEF LookUp, Screen, ListAttempts, StartAttempt, Classified, ClassifierFails,
                Ending, GiveUp, CrashEvaluator, Review
  <1>4. eval'[e].pc # "idle" => eval[e].pc # "idle" /\ eval'[e].key = eval[e].key
    <2>1. CASE Ending(e)
      BY <1>1, <2>1 DEF Ending, GiveUp, CrashEvaluator, Review, Resting
    <2>2. CASE LookUp(e) \/ Screen(e)
      BY <1>1, <2>2 DEF LookUp, Screen, EvalRecord
    <2>3. CASE ListAttempts(e) \/ StartAttempt(e)
      BY <1>1, <2>3 DEF ListAttempts, StartAttempt, EvalRecord
    <2>4. CASE Classified(e) \/ ClassifierFails(e)
      BY <1>1, <2>4 DEF Classified, ClassifierFails, FinishAttempt, EvalRecord
    <2> QED  BY <2>1, <2>2, <2>3, <2>4
  <1>5. HoldsKeys
    BY <1>3, <1>4 DEF HoldsKeys, Evaluators
  <1> QED  BY <1>2, <1>5, AloneRests

LEMMA CommitHolds ==
  ASSUME PipelineInv, FirstIsAlone, NEW e \in Evaluators,
         (e \in Processors /\ Commit(e)) \/ (e \in Operators /\ ApplyDirect(e))
  PROVE  FirstIsAlone'
  <1>1. eval \in [Evaluators -> EvalRecord] /\ signals \in Seq(SignalRecord)
    BY TypesSplit DEF PipelineInv, EvalOK, SignalsOK
  <1>2. Apply(e) /\ proc' = Handled /\ eval' = [eval EXCEPT ![e] = Resting]
        /\ eval[e].pc = "ready"
    BY DEF Commit, ApplyDirect
  <1>3. HoldsKeys /\ proc'.stage = "HANDLED"
    BY <1>1, <1>2 DEF HoldsKeys, Resting, Handled, Evaluators
  <1>4. CASE signals' = signals
    BY <1>3, <1>4, AloneRests
  <1>5. CASE PersistSignal(e)
    <2> DEFINE n == Len(signals)
    <2>1. /\ Len(signals') = n + 1 /\ n \in Nat /\ signals'[n + 1].key = eval[e].key
          /\ \A i \in 1 .. n : signals'[i].key = signals[i].key
      <3> DEFINE new == [key |-> eval[e].key, run |-> eval[e].run, current |-> TRUE,
                         attempt |-> IF eval[e].plan = "classified" THEN eval[e].number ELSE 0]
      <3>1. signals' = Append(Superseded, new) /\ new.key = eval[e].key
        BY <1>5 DEF PersistSignal
      <3>2. /\ Superseded \in Seq(SignalRecord) /\ Len(Superseded) = n
            /\ \A i \in 1 .. n : Superseded[i].key = signals[i].key
        BY <1>1, SupersededChain
      <3> HIDE DEF new
      <3>3. Len(signals') = n + 1 /\ signals'[n + 1] = new
        BY <1>1, <3>1, <3>2
      <3>4. \A i \in 1 .. n : signals'[i] = Superseded[i]
        BY <1>1, <3>1, <3>2
      <3> QED  BY <1>1, <3>1, <3>2, <3>3, <3>4
    <2>2. n = 0 \/ eval[e].key \in Explicit
      <3>1. CASE Commit(e) /\ e \in Processors
        BY <3>1 DEF Commit, Owns, FirstIsAlone
      <3>2. CASE ApplyDirect(e) /\ e \in Operators
        BY <1>2, <3>2 DEF FirstIsAlone
      <3> QED  BY <3>1, <3>2
    <2>3. \A i \in 2 .. n : signals[i].key \in Explicit
      BY DEF FirstIsAlone, OnlyReevaluationSupersedes
    <2>4. OnlyReevaluationSupersedes'
      BY <2>1, <2>2, <2>3 DEF OnlyReevaluationSupersedes
    <2> QED  BY <1>3, <2>4 DEF FirstIsAlone, HoldsKeys
  <1> QED  BY <1>2, <1>4, <1>5 DEF Apply

LEMMA AloneKept ==
  ASSUME PipelineInv, FirstIsAlone, PipelineNext, NoBackfill
  PROVE  FirstIsAlone'
  <1>1. CASE Around
    <2>1. UNCHANGED <<signals, eval>> /\ (proc.stage = "HANDLED" => proc'.stage = "HANDLED")
      <3>1. ProcOK
        BY TypesSplit DEF PipelineInv
      <3> QED  BY <1>1, <3>1 DEF Around, Ingest, SkipDelivery, ClaimLapses, pipelineVars,
                                 ProcOK, ProcRecord
    <2> QED  BY <2>1, AloneRests DEF HoldsKeys
  <1>2. CASE \/ \E p \in Processors : ClaimEvent(p)
             \/ \E o \in Operators, k \in Keys : Command(o, k)
    <2>1. ASSUME NEW p \in Processors, ClaimEvent(p) PROVE FirstIsAlone'
      BY <2>1, ClaimHolds
    <2>2. ASSUME NEW o \in Operators, NEW k \in Keys, Command(o, k) PROVE FirstIsAlone'
      <3>1. k \in Explicit
        BY <2>2 DEF Command, NoBackfill
      <3> QED  BY <2>2, <3>1, CommandHolds
    <2> QED  BY <1>2, <2>1, <2>2
  <1>3. ASSUME NEW e \in Evaluators,
               \/ LookUp(e) \/ Screen(e) \/ ListAttempts(e) \/ StartAttempt(e)
               \/ Classified(e) \/ ClassifierFails(e) \/ Ending(e)
        PROVE  FirstIsAlone'
    BY <1>3, EvaluatorHolds
  <1>4. ASSUME NEW e \in Evaluators,
               (e \in Processors /\ Commit(e)) \/ (e \in Operators /\ ApplyDirect(e))
        PROVE  FirstIsAlone'
    BY <1>4, CommitHolds
  <1> QED
    BY <1>1, <1>2, <1>3, <1>4 DEF PipelineNext, EvaluatorStep, Around, Ending

(* As long as no operator begins a backfill, only a reevaluation           *)
(* supersedes a Signal: reevaluations, processors that lost their lease    *)
(* and crashes do not break what persist_signal_in_session says of it.     *)
THEOREM BackfillAloneSupersedes ==
  PipelineSpec /\ [][NoBackfill]_allVars => []OnlyReevaluationSupersedes
  <1>1. PipelineInit => FirstIsAlone
    BY DEF PipelineInit, FirstIsAlone, OnlyReevaluationSupersedes, Resting, Evaluators
  <1>2. PipelineInv /\ FirstIsAlone /\ [PipelineNext]_allVars /\ [NoBackfill]_allVars
          => FirstIsAlone'
    <2>1. PipelineInv /\ FirstIsAlone /\ UNCHANGED allVars => FirstIsAlone'
      BY DEF FirstIsAlone, OnlyReevaluationSupersedes, allVars, pipelineVars
    <2> QED  BY <2>1, AloneKept
  <1>3. FirstIsAlone => OnlyReevaluationSupersedes
    BY DEF FirstIsAlone
  <1> QED  BY PipelineInvariant, <1>1, <1>2, <1>3, PTL DEF PipelineSpec
=============================================================================
