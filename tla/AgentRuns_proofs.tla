--------------------------- MODULE AgentRuns_proofs ---------------------------
(***************************************************************************)
(* Proofs about AgentRuns for any Runs, Events, Workers and any bounds.    *)
(***************************************************************************)
EXTENDS AgentRuns, TLAPS

Statuses == {"ABSENT", "QUEUED", "RUNNING", "RETRYABLE_FAILURE", "SUCCEEDED", "PERMANENT_FAILURE"}
RunRecord == [status : Statuses, event : Events \union {None}, current : BOOLEAN,
              attempt : Nat, timer : {"none", "running", "passed"}, asks : BOOLEAN]
WorkerRecord == [pc : {"idle", "begun", "asking", "answered", "learning"},
                 run : Runs \union {None}, copy : 0 .. MaxRetries, attempt : Nat,
                 at : 0 .. clock]
FactRecord == [source : Events \union {None}, from : 1 .. clock,
               status : {"ACTIVE", "SUPERSEDED", "RETRACTED"}]

(* A worker that works has a run, and the time of its answer if it has one. *)
WorkersKnow ==
  \A w \in Workers :
    /\ worker[w].pc # "idle" => worker[w].run \in Runs
    /\ worker[w].pc \in {"answered", "learning"} => worker[w].at \in 1 .. clock

AgentInv == AgentTypeOK /\ WorkersKnow /\ OneResult /\ FactsInOrder

(* The type invariant in three parts, each the affair of other steps.      *)
RunsOK ==
  /\ run \in [Runs -> RunRecord]
  /\ \A r \in Runs :
       run[r].timer # "none" <=> run[r].status \in {"RUNNING", "RETRYABLE_FAILURE"}
  /\ intents \subseteq Runs
  /\ retries \in [Runs -> 0 .. MaxRetries]
  /\ mail \subseteq Runs \X (0 .. MaxRetries)
  /\ faults \in 0 .. MaxFaults

MemoryOK == clock \in Nat /\ edits \in 0 .. MaxEdits /\ facts \in Seq(FactRecord)

WorkersOK == worker \in [Workers -> WorkerRecord] /\ WorkersKnow

LEMMA TypesSplit == AgentTypeOK /\ WorkersKnow <=> RunsOK /\ MemoryOK /\ WorkersOK
  BY DEF AgentTypeOK, RunsOK, MemoryOK, WorkersOK, RunRecord, WorkerRecord, FactRecord, Statuses

-----------------------------------------------------------------------------
LEMMA Initial == Init => AgentInv
  <1> SUFFICES ASSUME Init PROVE AgentInv
    OBVIOUS
  <1> USE AgentAssumption DEF Init, NoRun, Resting
  <1>1. RunsOK
    BY DEF RunsOK, RunRecord, Statuses
  <1>2. MemoryOK
    BY DEF MemoryOK
  <1>3. WorkersOK
    BY DEF WorkersOK, WorkersKnow, WorkerRecord
  <1>4. OneResult /\ FactsInOrder
    BY DEF OneResult, FactsInOrder
  <1> QED  BY <1>1, <1>2, <1>3, <1>4, TypesSplit DEF AgentInv

LEMMA FaultCounted ==
  ASSUME faults \in 0 .. MaxFaults, Fault
  PROVE  faults' \in 0 .. MaxFaults
  BY AgentAssumption DEF Fault

-----------------------------------------------------------------------------
(* Only its own worker changes a run that is RUNNING, but for its timer    *)
(* and whether it is still current.                                        *)
RunMoves(r) ==
  /\ run' \in [Runs -> RunRecord]
  /\ \A x \in Runs \ {r} : run'[x] = run[x]
  /\ run'[r].timer # "none" <=> run'[r].status \in {"RUNNING", "RETRYABLE_FAILURE"}

LEMMA OneRunSet ==
  ASSUME RunsOK, NEW r \in Runs, NEW x \in RunRecord, run' = [run EXCEPT ![r] = x],
         x.timer # "none" <=> x.status \in {"RUNNING", "RETRYABLE_FAILURE"}
  PROVE  RunMoves(r) /\ run'[r] = x
  BY DEF RunsOK, RunMoves

LEMMA FailMoves ==
  ASSUME RunsOK, WorkersOK, NEW w \in Workers, worker[w].pc # "idle", Owns(w),
         NEW retryable \in BOOLEAN, Fail(w, retryable)
  PROVE  /\ RunMoves(worker[w].run)
         /\ run'[worker[w].run].status \in {"RETRYABLE_FAILURE", "PERMANENT_FAILURE"}
         /\ mail' \subseteq mail
         /\ worker' = [worker EXCEPT ![w] = Resting]
  <1> DEFINE r == worker[w].run
             again == retryable /\ worker[w].attempt < MaxAttempts
             s == IF again THEN "RETRYABLE_FAILURE" ELSE "PERMANENT_FAILURE"
             t == IF again THEN "running" ELSE "none"
             x == [run[r] EXCEPT !.status = s, !.timer = t]
  <1>1. r \in Runs /\ run[r] \in RunRecord /\ run \in [Runs -> RunRecord]
    BY DEF RunsOK, WorkersOK, WorkersKnow
  <1>2. run' = [run EXCEPT ![r] = x]
    BY <1>1 DEF Fail
  <1>3. /\ x \in RunRecord /\ x.status \in {"RETRYABLE_FAILURE", "PERMANENT_FAILURE"}
        /\ x.timer # "none" <=> x.status = "RETRYABLE_FAILURE"
    BY <1>1 DEF RunRecord, Statuses
  <1>4. mail' \subseteq mail /\ worker' = [worker EXCEPT ![w] = Resting]
    BY DEF Fail, Return
  <1> HIDE DEF x
  <1>5. RunMoves(r) /\ run'[r] = x
    BY <1>1, <1>2, <1>3, OneRunSet
  <1> QED  BY <1>3, <1>4, <1>5

-----------------------------------------------------------------------------
LEMMA RunsKept ==
  ASSUME RunsOK, OneResult, UNCHANGED <<run, intents, retries>>, mail' \subseteq mail,
         faults' \in 0 .. MaxFaults
  PROVE  RunsOK' /\ OneResult'
  BY DEF RunsOK, OneResult

(* A step of a worker leaves a run that it does not own as it is.          *)
LEMMA WorkerRuns ==
  ASSUME RunsOK, WorkersOK, OneResult, NEW w \in Workers,
         \/ WorkerStep(w) \/ Crash(w)
         \/ \E retryable \in BOOLEAN : InvestigationFails(w, retryable)
  PROVE  RunsOK' /\ OneResult'
  <1> DEFINE r == worker[w].run
  <1>1. worker[w].pc # "idle" => r \in Runs
    BY DEF WorkersOK, WorkersKnow
  <1>2. ASSUME NEW retryable \in BOOLEAN, Fail(w, retryable), Owns(w), worker[w].pc # "idle",
               UNCHANGED <<intents, retries>>, faults' \in 0 .. MaxFaults
        PROVE  RunsOK' /\ OneResult'
    <2>1. /\ RunMoves(r) /\ run'[r].status \in {"RETRYABLE_FAILURE", "PERMANENT_FAILURE"}
          /\ mail' \subseteq mail
      BY <1>2, FailMoves
    <2>2. r \notin intents
      BY <1>1, <1>2 DEF OneResult, Owns
    <2> QED  BY <1>1, <1>2, <2>1, <2>2 DEF RunMoves, RunsOK, OneResult
  <1>3. CASE Load(w)
    BY <1>2, <1>3, RunsKept DEF Load, RunsOK
  <1>4. CASE Investigated(w) \/ Superseded(w)
    BY <1>4, RunsKept DEF Investigated, Superseded, RunsOK
  <1>5. CASE Complete(w)
    <2>1. PICK asks \in BOOLEAN :
            /\ run' = [run EXCEPT ![r].status = "SUCCEEDED", ![r].timer = "none", ![r].asks = asks]
            /\ intents' = IF asks THEN intents \union {r} ELSE intents
      BY <1>5 DEF Complete
    <2> DEFINE x == [run[r] EXCEPT !.status = "SUCCEEDED", !.timer = "none", !.asks = asks]
    <2>2. r \in Runs /\ run[r] \in RunRecord /\ run[r].status = "RUNNING" /\ r \notin intents
          /\ UNCHANGED <<retries, mail, faults>>
      BY <1>1, <1>5 DEF Complete, Owns, OneResult, RunsOK
    <2>3. run' = [run EXCEPT ![r] = x]
      BY <2>1, <2>2 DEF RunsOK
    <2>4. /\ x \in RunRecord /\ x.status = "SUCCEEDED" /\ x.asks = asks
          /\ x.timer # "none" <=> x.status \in {"RUNNING", "RETRYABLE_FAILURE"}
      BY <2>2 DEF RunRecord, Statuses
    <2> HIDE DEF x
    <2>5. RunMoves(r) /\ run'[r] = x
      BY <2>2, <2>3, <2>4, OneRunSet
    <2>6. RunsOK'
      BY <2>1, <2>2, <2>5 DEF RunMoves, RunsOK
    <2>7. OneResult'
      BY <2>1, <2>2, <2>4, <2>5 DEF RunMoves, OneResult
    <2> QED  BY <2>6, <2>7
  <1>6. CASE Learn(w)
    BY <1>6, RunsKept DEF Learn, Return, RunsOK
  <1>7. CASE Crash(w)
    BY <1>7, RunsKept, FaultCounted DEF Crash, RunsOK
  <1>8. ASSUME NEW retryable \in BOOLEAN, InvestigationFails(w, retryable)
        PROVE  RunsOK' /\ OneResult'
    BY <1>2, <1>8, FaultCounted DEF InvestigationFails, RunsOK
  <1> QED  BY <1>3, <1>4, <1>5, <1>6, <1>7, <1>8 DEF WorkerStep

(* What happens to a run besides.                                          *)
RunActs(r) ==
  \/ Obsolesce(r) \/ OperatorRetry(r) \/ TimerPasses(r)
  \/ \E e \in Events : Schedule(r, e)
  \/ \E m \in Deliveries(r) : Skip(m) \/ Redeliver(m) \/ \E w \in Workers : Claim(w, m)

(* None of it ends a run, or makes a run that ended run again unless it    *)
(* failed.                                                                 *)
LEMMA NotEnded ==
  ASSUME RunsOK, OneResult, NEW r \in Runs, RunMoves(r),
         run'[r].status = "SUCCEEDED" <=> run[r].status = "SUCCEEDED",
         run'[r].asks = run[r].asks, UNCHANGED <<intents, retries>>,
         mail' \subseteq Runs \X (0 .. MaxRetries), faults' \in 0 .. MaxFaults
  PROVE  RunsOK' /\ OneResult'
  BY DEF RunsOK, OneResult, RunMoves

LEMMA RunsAct ==
  ASSUME RunsOK, OneResult, NEW r \in Runs, RunActs(r)
  PROVE  RunsOK' /\ OneResult'
  <1>1. run \in [Runs -> RunRecord] /\ run[r] \in RunRecord /\ retries[r] \in 0 .. MaxRetries
    BY DEF RunsOK
  <1>2. CASE Obsolesce(r)
    <2> DEFINE x == [run[r] EXCEPT !.current = FALSE]
    <2>1. run' = [run EXCEPT ![r] = x] /\ UNCHANGED <<intents, retries, mail, faults>>
      BY <1>1, <1>2 DEF Obsolesce
    <2>2. /\ x \in RunRecord /\ x.status = run[r].status /\ x.asks = run[r].asks
          /\ x.timer = run[r].timer
      BY <1>1 DEF RunRecord
    <2> HIDE DEF x
    <2>3. RunMoves(r) /\ run'[r] = x
      BY <1>1, <2>1, <2>2, OneRunSet DEF RunsOK
    <2> QED  BY <2>1, <2>2, <2>3, NotEnded DEF RunsOK
  <1>3. CASE OperatorRetry(r)
    <2> DEFINE x == [run[r] EXCEPT !.status = "QUEUED", !.timer = "none"]
    <2>1. /\ run' = [run EXCEPT ![r] = x] /\ UNCHANGED <<intents, faults>>
          /\ retries' = [retries EXCEPT ![r] = @ + 1]
          /\ mail' = mail \union {<<r, retries'[r]>>}
          /\ run[r].status \in {"RETRYABLE_FAILURE", "PERMANENT_FAILURE"}
          /\ retries[r] < MaxRetries
      BY <1>1, <1>3 DEF OperatorRetry
    <2>2. /\ x \in RunRecord /\ x.status = "QUEUED" /\ x.timer = "none"
      BY <1>1 DEF RunRecord, Statuses
    <2> HIDE DEF x
    <2>3. RunMoves(r) /\ run'[r] = x
      BY <2>1, <2>2, OneRunSet
    <2>4. retries' \in [Runs -> 0 .. MaxRetries] /\ retries'[r] \in 0 .. MaxRetries
      BY <1>1, <2>1, AgentAssumption DEF RunsOK
    <2>5. RunsOK'
      BY <2>1, <2>3, <2>4 DEF RunsOK, RunMoves
    <2>6. OneResult'
      BY <2>1, <2>2, <2>3 DEF OneResult, RunMoves
    <2> QED  BY <2>5, <2>6
  <1>4. CASE TimerPasses(r)
    <2> DEFINE x == [run[r] EXCEPT !.timer = "passed"]
    <2>1. /\ run' = [run EXCEPT ![r] = x] /\ UNCHANGED <<intents, retries, mail>>
          /\ faults' \in 0 .. MaxFaults /\ run[r].timer = "running"
      BY <1>1, <1>4, FaultCounted DEF TimerPasses, RunsOK
    <2>2. /\ x \in RunRecord /\ x.status = run[r].status /\ x.asks = run[r].asks
          /\ x.timer = "passed"
      BY <1>1 DEF RunRecord
    <2> HIDE DEF x
    <2>3. RunMoves(r) /\ run'[r] = x
      BY <1>1, <2>1, <2>2, OneRunSet DEF RunsOK
    <2> QED  BY <2>1, <2>2, <2>3, NotEnded DEF RunsOK
  <1>5. ASSUME NEW e \in Events, Schedule(r, e)
        PROVE  RunsOK' /\ OneResult'
    <2> DEFINE x == [NoRun EXCEPT !.status = "QUEUED", !.event = e, !.current = TRUE]
               y(z) == [run[z] EXCEPT !.current = run[z].current /\ run[z].event # e]
    <2>1. /\ run' = [z \in Runs |-> IF z = r THEN x ELSE y(z)]
          /\ run[r].status = "ABSENT" /\ mail' = mail \union {<<r, 0>>}
          /\ UNCHANGED <<intents, retries, faults>>
      BY <1>5 DEF Schedule
    <2>2. x \in RunRecord /\ x.status = "QUEUED" /\ x.timer = "none"
      BY DEF RunRecord, NoRun, Statuses
    <2>3. \A z \in Runs : /\ y(z) \in RunRecord /\ y(z).status = run[z].status
                          /\ y(z).timer = run[z].timer /\ y(z).asks = run[z].asks
      BY <1>1 DEF RunRecord
    <2> HIDE DEF x, y
    <2>4. run' \in [Runs -> RunRecord] /\ run'[r] = x /\ \A z \in Runs \ {r} : run'[z] = y(z)
      BY <2>1, <2>2, <2>3
    <2>5. RunsOK'
      BY <2>1, <2>2, <2>3, <2>4, AgentAssumption DEF RunsOK
    <2>6. OneResult'
      BY <2>1, <2>2, <2>3, <2>4 DEF OneResult
    <2> QED  BY <2>5, <2>6
  <1>6. ASSUME NEW m \in Deliveries(r), Skip(m) \/ Redeliver(m)
        PROVE  RunsOK' /\ OneResult'
    <2>1. m \in Runs \X (0 .. MaxRetries)
      BY <1>6 DEF Deliveries
    <2> QED  BY <1>6, <2>1, FaultCounted DEF Skip, Redeliver, RunsOK, OneResult
  <1>7. ASSUME NEW m \in Deliveries(r), NEW w \in Workers, Claim(w, m)
        PROVE  RunsOK' /\ OneResult'
    <2> DEFINE n == run[r].attempt + 1
               x == [run[r] EXCEPT !.status = "RUNNING", !.attempt = n, !.timer = "running"]
    <2>1. /\ run' = [run EXCEPT ![r] = x] /\ UNCHANGED <<intents, retries, mail, faults>>
          /\ run[r].status # "SUCCEEDED"
      BY <1>1, <1>7 DEF Claim, Deliveries, Eligible
    <2>2. /\ x \in RunRecord /\ x.status = "RUNNING" /\ x.asks = run[r].asks
          /\ x.timer = "running"
      <3>1. n \in Nat
        BY <1>1 DEF RunRecord
      <3> HIDE DEF n
      <3> QED  BY <1>1, <3>1 DEF RunRecord, Statuses
    <2> HIDE DEF x
    <2>3. RunMoves(r) /\ run'[r] = x
      BY <2>1, <2>2, OneRunSet
    <2> QED  BY <2>1, <2>2, <2>3, NotEnded DEF RunsOK
  <1> QED  BY <1>2, <1>3, <1>4, <1>5, <1>6, <1>7 DEF RunActs

-----------------------------------------------------------------------------
(* A fact is put behind the others: the active one is the last, and ends   *)
(* before the new one begins.                                              *)
LEMMA FactPut ==
  ASSUME MemoryOK, FactsInOrder, clock' \in Nat, clock' >= clock,
         NEW source \in Events \union {None}, NEW from \in 1 .. clock',
         source # None => \A i \in 1 .. Len(facts) : facts[i].source # source,
         MayFollow(from), PutFact(source, from)
  PROVE  facts' \in Seq(FactRecord') /\ FactsInOrder'
  <1> DEFINE n == Len(facts)
             old == [i \in 1 .. n |->
                       IF i \in Actives THEN [facts[i] EXCEPT !.status = "SUPERSEDED"]
                                        ELSE facts[i]]
             new == [source |-> source, from |-> from, status |-> "ACTIVE"]
  <1>1. n \in Nat /\ \A i \in 1 .. n : facts[i] \in FactRecord
    BY DEF MemoryOK
  <1>2. \A i \in 1 .. n : facts[i] \in FactRecord'
    BY <1>1 DEF MemoryOK, FactRecord
  <1>3. \A i \in 1 .. n :
          /\ old[i] \in FactRecord'
          /\ old[i].source = facts[i].source /\ old[i].from = facts[i].from
          /\ IF i \in Actives THEN old[i].status = "SUPERSEDED" /\ facts[i].from < from /\ i = n
             ELSE old[i].status = facts[i].status /\ facts[i].status # "ACTIVE"
    <2> SUFFICES ASSUME NEW i \in 1 .. n
                 PROVE  /\ old[i] \in FactRecord'
                        /\ old[i].source = facts[i].source /\ old[i].from = facts[i].from
                        /\ IF i \in Actives
                           THEN old[i].status = "SUPERSEDED" /\ facts[i].from < from /\ i = n
                           ELSE old[i].status = facts[i].status /\ facts[i].status # "ACTIVE"
      OBVIOUS
    <2>1. CASE i \in Actives
      <3>1. old[i] = [facts[i] EXCEPT !.status = "SUPERSEDED"]
        BY <2>1
      <3>2. facts[i].from < from /\ i = n
        BY <2>1 DEF MayFollow, FactsInOrder, Actives
      <3> HIDE DEF old
      <3> QED  BY <1>2, <2>1, <3>1, <3>2 DEF FactRecord
    <2>2. CASE i \notin Actives
      BY <1>2, <2>2 DEF Actives
    <2> QED  BY <2>1, <2>2
  <1>4. old \in Seq(FactRecord') /\ Len(old) = n
    BY <1>1, <1>3
  <1>5. new \in FactRecord' /\ new.source = source /\ new.from = from /\ new.status = "ACTIVE"
    BY DEF FactRecord
  <1>6. facts' = Append(old, new)
    BY DEF PutFact
  <1> HIDE DEF old, new
  <1>7. /\ facts' \in Seq(FactRecord') /\ Len(facts') = n + 1 /\ facts'[n + 1] = new
        /\ \A i \in 1 .. n : facts'[i] = old[i]
    BY <1>1, <1>4, <1>5, <1>6
  <1> HIDE DEF n
  <1>8. FactsInOrder'
    <2> SUFFICES ASSUME NEW i \in 1 .. n + 1
                 PROVE  /\ facts'[i].status = "ACTIVE" => i = n + 1
                        /\ facts'[i].status = "SUPERSEDED" =>
                             i < n + 1 /\ facts'[i].from < facts'[i + 1].from
                        /\ \A j \in 1 .. i - 1 :
                             facts'[i].source = facts'[j].source => facts'[i].source = None
      BY <1>7 DEF FactsInOrder
    <2>1. CASE i = n + 1
      BY <1>1, <1>3, <1>5, <1>7, <2>1 DEF n
    <2>2. CASE i \in 1 .. n
      <3>1. facts'[i] = old[i]
        BY <1>7, <2>2
      <3>2. facts'[i].status = "SUPERSEDED" => facts'[i].from < facts'[i + 1].from
        <4>1. CASE i \in Actives
          BY <1>1, <1>3, <1>5, <1>7, <2>2, <4>1
        <4>2. CASE i \notin Actives
          <5> SUFFICES ASSUME facts[i].status = "SUPERSEDED"
                       PROVE  facts'[i].from < facts'[i + 1].from
            BY <1>3, <2>2, <3>1, <4>2
          <5>1. i < n /\ facts[i].from < facts[i + 1].from
            BY <2>2 DEF FactsInOrder, n
          <5> QED  BY <1>1, <1>3, <1>7, <2>2, <5>1
        <4> QED  BY <4>1, <4>2
      <3>3. facts'[i].status # "ACTIVE"
        BY <1>3, <2>2, <3>1
      <3>4. ASSUME NEW j \in 1 .. i - 1, facts'[i].source = facts'[j].source
            PROVE  facts'[i].source = None
        <4>1. j \in 1 .. n /\ facts'[j] = old[j]
          BY <1>1, <1>7, <2>2
        <4> QED  BY <1>3, <2>2, <3>1, <3>4, <4>1 DEF FactsInOrder, n
      <3> QED  BY <1>1, <2>2, <3>2, <3>3, <3>4
    <2> QED  BY <1>1, <2>1, <2>2
  <1> QED  BY <1>7, <1>8

LEMMA FactRetracted ==
  ASSUME MemoryOK, FactsInOrder, clock' \in Nat, clock' >= clock, NEW i \in Actives,
         facts' = [facts EXCEPT ![i].status = "RETRACTED"]
  PROVE  facts' \in Seq(FactRecord') /\ FactsInOrder'
  <1>1. /\ Len(facts) \in Nat /\ facts \in Seq(FactRecord)
        /\ \A k \in 1 .. Len(facts) : facts[k] \in FactRecord /\ facts[k] \in FactRecord'
    <2>1. facts \in Seq(FactRecord)
      BY DEF MemoryOK
    <2>2. FactRecord \subseteq FactRecord'
      BY DEF MemoryOK, FactRecord
    <2> QED  BY <2>1, <2>2
  <1> DEFINE x == [facts[i] EXCEPT !.status = "RETRACTED"]
  <1>2. i \in 1 .. Len(facts) /\ facts' = [facts EXCEPT ![i] = x]
    BY <1>1 DEF Actives
  <1>3. /\ x \in FactRecord' /\ x.status = "RETRACTED"
        /\ x.source = facts[i].source /\ x.from = facts[i].from
    BY <1>1, <1>2 DEF FactRecord
  <1> HIDE DEF x
  <1>4. /\ facts' \in Seq(FactRecord') /\ Len(facts') = Len(facts) /\ facts'[i] = x
        /\ \A k \in 1 .. Len(facts) : k # i => facts'[k] = facts[k]
    BY <1>1, <1>2, <1>3
  <1>5. \A k \in 1 .. Len(facts) :
          /\ facts'[k].source = facts[k].source /\ facts'[k].from = facts[k].from
          /\ facts'[k].status \in {facts[k].status, "RETRACTED"}
    BY <1>3, <1>4
  <1>6. FactsInOrder'
    BY <1>1, <1>4, <1>5 DEF FactsInOrder
  <1> QED  BY <1>4, <1>6

LEMMA MemoryStep ==
  ASSUME AgentInv, [Next]_vars
  PROVE  MemoryOK' /\ FactsInOrder' /\ clock' >= clock
  <1>1. MemoryOK /\ FactsInOrder /\ RunsOK /\ WorkersOK
    BY TypesSplit DEF AgentInv
  <1>2. CASE UNCHANGED memory
    BY <1>1, <1>2 DEF memory, MemoryOK, FactsInOrder, FactRecord
  <1>3. ASSUME NEW w \in Workers, Investigated(w)
        PROVE  MemoryOK' /\ FactsInOrder' /\ clock' >= clock
    <2>1. UNCHANGED <<facts, edits>> /\ clock' = clock + 1 /\ clock \in Nat
      BY <1>1, <1>3 DEF Investigated, MemoryOK
    <2>2. \A x \in FactRecord : x \in FactRecord'
      BY <2>1 DEF FactRecord
    <2>3. facts \in Seq(FactRecord')
      BY <1>1, <2>2 DEF MemoryOK
    <2> QED  BY <1>1, <2>1, <2>3 DEF MemoryOK, FactsInOrder
  <1>4. ASSUME NEW w \in Workers, Learn(w)
        PROVE  MemoryOK' /\ FactsInOrder' /\ clock' >= clock
    <2> DEFINE e == run[worker[w].run].event
    <2>1. UNCHANGED <<clock, edits>> /\ clock \in Nat /\ clock' >= clock
      BY <1>1, <1>4 DEF Learn, MemoryOK
    <2>2. e \in Events \union {None} /\ worker[w].at \in 1 .. clock
      BY <1>1, <1>4 DEF Learn, WorkersOK, WorkersKnow, RunsOK, RunRecord
    <2>3. CASE UNCHANGED facts
      BY <1>1, <2>1, <2>3 DEF MemoryOK, FactsInOrder, FactRecord
    <2>4. CASE /\ MayFollow(worker[w].at) /\ \A i \in 1 .. Len(facts) : facts[i].source # e
               /\ PutFact(e, worker[w].at)
      <3>1. facts' \in Seq(FactRecord') /\ FactsInOrder'
        BY <1>1, <2>1, <2>2, <2>4, FactPut
      <3> QED  BY <1>1, <2>1, <3>1 DEF MemoryOK
    <2> QED  BY <1>4, <2>3, <2>4 DEF Learn
  <1>5. ASSUME NEW from \in 1 .. clock + 1, Remember(from)
        PROVE  MemoryOK' /\ FactsInOrder' /\ clock' >= clock
    <2>1. /\ clock' = clock + 1 /\ clock \in Nat /\ clock' >= clock /\ clock' \in Nat
          /\ edits' \in 0 .. MaxEdits /\ MayFollow(from) /\ PutFact(None, from)
      BY <1>1, <1>5, AgentAssumption DEF Remember, MemoryOK
    <2>2. facts' \in Seq(FactRecord') /\ FactsInOrder'
      BY <1>1, <2>1, FactPut
    <2> QED  BY <2>1, <2>2 DEF MemoryOK
  <1>6. ASSUME NEW i \in 1 .. Len(facts), Retract(i)
        PROVE  MemoryOK' /\ FactsInOrder' /\ clock' >= clock
    <2>1. /\ clock' = clock + 1 /\ clock \in Nat /\ clock' >= clock /\ clock' \in Nat
          /\ edits' \in 0 .. MaxEdits /\ i \in Actives
          /\ facts' = [facts EXCEPT ![i].status = "RETRACTED"]
      BY <1>1, <1>6, AgentAssumption DEF Retract, MemoryOK
    <2>2. facts' \in Seq(FactRecord') /\ FactsInOrder'
      BY <1>1, <2>1, FactRetracted
    <2> QED  BY <2>1, <2>2 DEF MemoryOK
  <1>7. ASSUME NEW r \in Runs, RunActs(r)
        PROVE  UNCHANGED memory
    BY <1>7 DEF RunActs, Obsolesce, OperatorRetry, TimerPasses, Schedule, Skip, Redeliver, Claim
  <1>8. ASSUME NEW w \in Workers,
               \/ Load(w) \/ Complete(w) \/ Superseded(w) \/ Crash(w)
               \/ \E retryable \in BOOLEAN : InvestigationFails(w, retryable)
        PROVE  UNCHANGED memory
    BY <1>8 DEF Load, Complete, Superseded, Crash, InvestigationFails
  <1>9. CASE UNCHANGED vars
    BY <1>2, <1>9 DEF vars, memory
  <1> QED  BY <1>2, <1>3, <1>4, <1>5, <1>6, <1>7, <1>8, <1>9 DEF Next, RunActs, WorkerStep

-----------------------------------------------------------------------------
LEMMA WorkersKept ==
  ASSUME WorkersOK, clock \in Nat, clock' \in Nat, clock' >= clock, UNCHANGED worker
  PROVE  WorkersOK'
  BY DEF WorkersOK, WorkersKnow, WorkerRecord

LEMMA OneWorkerSet ==
  ASSUME WorkersOK, clock \in Nat, clock' \in Nat, clock' >= clock,
         NEW w \in Workers, NEW x \in WorkerRecord', worker' = [worker EXCEPT ![w] = x],
         x.pc # "idle" => x.run \in Runs,
         x.pc \in {"answered", "learning"} => x.at \in 1 .. clock'
  PROVE  WorkersOK'
  BY DEF WorkersOK, WorkersKnow, WorkerRecord

LEMMA WorkersStep ==
  ASSUME AgentInv, [Next]_vars
  PROVE  WorkersOK'
  <1>1. /\ RunsOK /\ WorkersOK /\ clock \in Nat /\ clock' \in Nat /\ clock' >= clock
        /\ worker \in [Workers -> WorkerRecord]
    BY TypesSplit, MemoryStep DEF AgentInv, MemoryOK, WorkersOK
  <1>2. Resting \in WorkerRecord' /\ Resting.pc = "idle"
    BY <1>1, AgentAssumption DEF Resting, WorkerRecord
  <1>3. ASSUME NEW w \in Workers, worker' = [worker EXCEPT ![w] = Resting]
        PROVE  WorkersOK'
    BY <1>1, <1>2, <1>3, OneWorkerSet
  <1>4. ASSUME NEW w \in Workers, NEW p \in {"asking", "learning"},
               worker' = [worker EXCEPT ![w].pc = p], worker[w].pc # "idle",
               p = "learning" => worker[w].pc = "answered"
        PROVE  WorkersOK'
    <2> DEFINE x == [worker[w] EXCEPT !.pc = p]
    <2>1. worker' = [worker EXCEPT ![w] = x]
      BY <1>1, <1>4
    <2>2. /\ x \in WorkerRecord' /\ x.run \in Runs
          /\ x.pc \in {"answered", "learning"} => x.at \in 1 .. clock'
      BY <1>1, <1>4 DEF WorkersOK, WorkersKnow, WorkerRecord
    <2> HIDE DEF x
    <2> QED  BY <1>1, <2>1, <2>2, OneWorkerSet
  <1>5. ASSUME NEW w \in Workers, Investigated(w)
        PROVE  WorkersOK'
    <2> DEFINE x == [worker[w] EXCEPT !.pc = "answered", !.at = clock']
    <2>1. worker' = [worker EXCEPT ![w] = x] /\ clock' = clock + 1
      BY <1>1, <1>5 DEF Investigated
    <2>2. worker[w] \in WorkerRecord /\ worker[w].run \in Runs
      BY <1>1, <1>5 DEF Investigated, WorkersOK, WorkersKnow
    <2> DEFINE c == clock'
    <2>3. c \in 0 .. c /\ c \in 1 .. c
      BY <1>1, <2>1
    <2> HIDE DEF c
    <2>4. x = [worker[w] EXCEPT !.pc = "answered", !.at = c]
      BY DEF c
    <2>5. /\ x \in [pc : {"idle", "begun", "asking", "answered", "learning"},
                    run : Runs \union {None}, copy : 0 .. MaxRetries, attempt : Nat, at : 0 .. c]
          /\ x.run \in Runs /\ x.at \in 1 .. c
      BY <2>2, <2>3, <2>4 DEF WorkerRecord
    <2>6. x \in WorkerRecord' /\ x.run \in Runs /\ x.at \in 1 .. clock'
      BY <2>5 DEF WorkerRecord, c
    <2> HIDE DEF x
    <2> QED  BY <1>1, <2>1, <2>6, OneWorkerSet
  <1>6. ASSUME NEW w \in Workers, NEW r \in Runs, NEW m \in Deliveries(r), Claim(w, m)
        PROVE  WorkersOK'
    <2> DEFINE n == run'[r].attempt
               x == [pc |-> "begun", run |-> r, copy |-> m[2], attempt |-> n, at |-> 0]
    <2>1. worker' = [worker EXCEPT ![w] = x]
      BY <1>6 DEF Claim, Deliveries
    <2>2. n \in Nat
      BY <1>1, <1>6, RunsAct DEF RunActs, AgentInv, RunsOK, RunRecord
    <2>3. m[2] \in 0 .. MaxRetries
      BY DEF Deliveries
    <2> HIDE DEF n
    <2>4. x \in WorkerRecord' /\ x.pc = "begun" /\ x.run = r
      BY <1>1, <2>2, <2>3 DEF WorkerRecord
    <2> HIDE DEF x
    <2> QED  BY <1>1, <2>1, <2>4, OneWorkerSet
  <1>7. ASSUME NEW w \in Workers, Load(w)
        PROVE  WorkersOK'
    BY <1>1, <1>3, <1>4, <1>7, FailMoves DEF Load
  <1>8. ASSUME NEW w \in Workers, Complete(w)
        PROVE  WorkersOK'
    BY <1>4, <1>8 DEF Complete
  <1>9. ASSUME NEW w \in Workers,
               \/ Superseded(w) \/ Learn(w) \/ Crash(w)
               \/ \E retryable \in BOOLEAN : InvestigationFails(w, retryable)
        PROVE  WorkersOK'
    BY <1>1, <1>3, <1>9, FailMoves DEF Superseded, Learn, Return, Crash, InvestigationFails
  <1>10. CASE UNCHANGED worker
    BY <1>1, <1>10, WorkersKept
  <1>11. ASSUME NEW r \in Runs,
                \/ Obsolesce(r) \/ OperatorRetry(r) \/ TimerPasses(r)
                \/ \E e \in Events : Schedule(r, e)
                \/ \E m \in Deliveries(r) : Skip(m) \/ Redeliver(m)
         PROVE  UNCHANGED worker
    BY <1>11 DEF Obsolesce, OperatorRetry, TimerPasses, Schedule, Skip, Redeliver
  <1>12. CASE \/ \E from \in 1 .. clock + 1 : Remember(from)
              \/ \E i \in 1 .. Len(facts) : Retract(i)
              \/ UNCHANGED vars
    BY <1>10, <1>12 DEF Remember, Retract, vars
  <1> QED  BY <1>5, <1>6, <1>7, <1>8, <1>9, <1>10, <1>11, <1>12 DEF Next, WorkerStep

-----------------------------------------------------------------------------
LEMMA AgentStep == AgentInv /\ [Next]_vars => AgentInv'
  <1> SUFFICES ASSUME AgentInv, [Next]_vars PROVE AgentInv'
    OBVIOUS
  <1>1. RunsOK /\ WorkersOK /\ OneResult
    BY TypesSplit DEF AgentInv
  <1>2. RunsOK' /\ OneResult'
    <2>1. CASE \E r \in Runs : RunActs(r)
      BY <1>1, <2>1, RunsAct
    <2>2. CASE \E w \in Workers : \/ WorkerStep(w) \/ Crash(w)
                                  \/ \E retryable \in BOOLEAN : InvestigationFails(w, retryable)
      BY <1>1, <2>2, WorkerRuns
    <2>3. CASE \/ \E from \in 1 .. clock + 1 : Remember(from)
               \/ \E i \in 1 .. Len(facts) : Retract(i)
               \/ UNCHANGED vars
      BY <1>1, <2>3, RunsKept DEF Remember, Retract, vars, RunsOK
    <2> QED  BY <2>1, <2>2, <2>3 DEF Next, RunActs
  <1> QED  BY <1>2, MemoryStep, WorkersStep, TypesSplit DEF AgentInv, AgentTypeOK, WorkersKnow,
             RunsOK, MemoryOK, WorkersOK, RunRecord, WorkerRecord, FactRecord, Statuses

(* In every reachable state the rows are well formed, a run has its result *)
(* when it asks for it, and the facts are in order (claim, complete, fail, *)
(* learn, put_fact).                                                       *)
THEOREM AgentInvariant == Spec => []AgentInv
  BY Initial, AgentStep, PTL DEF Spec

(* The runs, the slot of memory and the workers are well formed in every   *)
(* reachable state.                                                        *)
THEOREM AgentTypes == Spec => []AgentTypeOK
  BY AgentInvariant, PTL DEF AgentInv

(* A run leaves its Notification and proposals exactly when it SUCCEEDED   *)
(* with a result that asks for them, whoever else was at it.               *)
THEOREM ResultsKept == Spec => []OneResult
  BY AgentInvariant, PTL DEF AgentInv

(* However late a worker learns, and whatever the user writes meanwhile,   *)
(* the facts of the slot form a chain in the order of their times.         *)
THEOREM FactsStayInOrder == Spec => []FactsInOrder
  BY AgentInvariant, PTL DEF AgentInv
=============================================================================
