------------------------------- MODULE AgentRuns -------------------------------
(***************************************************************************)
(* AgentRuns and what they leave behind.  Pub/Sub delivers each run to the *)
(* agent workers; a worker claims it under a lease, investigates, commits  *)
(* the result together with the Notification and the proposals it asks     *)
(* for, and then learns: one fact of the slot of memory all of them know,  *)
(* which the user fills and retracts too.                                  *)
(*                                                                         *)
(* attempt_count grows with every claim and is never reset, so it stands   *)
(* for the claim id of its attempt.  A time is the number of times read.   *)
(***************************************************************************)
EXTENDS Naturals, SequencesExt

CONSTANTS Runs,         \* numbered in the order they are scheduled
          Events, Workers, None,
          MaxAttempts,  \* agent_max_attempts
          MaxRetries,   \* bound: operator retries of a run
          MaxEdits,     \* bound: facts the user writes or retracts
          MaxFaults     \* bound: crashes, failures, slow workers, redeliveries

ASSUME AgentAssumption ==
  /\ Runs \subseteq Nat /\ None \notin Runs \union Events
  /\ MaxAttempts \in Nat \ {0} /\ {MaxRetries, MaxEdits, MaxFaults} \subseteq Nat

VARIABLES
  run,      \* agent_runs
  intents,  \* runs with a Notification and proposals of theirs
  retries,  \* by run, how often an operator retried it
  mail,     \* messages of runs that are not acknowledged
  facts,    \* memory_facts of the slot, as they were inserted
  clock,
  edits,
  worker,   \* what each worker holds in memory
  faults

vars == <<run, intents, retries, mail, facts, clock, edits, worker, faults>>
memory == <<facts, clock, edits>>

NoRun == [status |-> "ABSENT", event |-> None, current |-> FALSE, attempt |-> 0,
          timer |-> "none", asks |-> FALSE]
Resting == [pc |-> "idle", run |-> None, copy |-> 0, attempt |-> 0, at |-> 0]

Init ==
  /\ run = [r \in Runs |-> NoRun]
  /\ intents = {} /\ mail = {} /\ facts = <<>>
  /\ retries = [r \in Runs |-> 0]
  /\ clock = 0 /\ edits = 0 /\ faults = 0
  /\ worker = [w \in Workers |-> Resting]

Fault == faults < MaxFaults /\ faults' = faults + 1

Ended(r) == run[r].status \in {"SUCCEEDED", "PERMANENT_FAILURE"}

-----------------------------------------------------------------------------
(* schedule_in_session, in the transaction that makes the Signal of the    *)
(* run the current one of its Event.                                       *)
Schedule(r, e) ==
  /\ run[r].status = "ABSENT" /\ \A x \in Runs : x < r => run[x].status # "ABSENT"
  /\ run' = [x \in Runs |->
               IF x = r THEN [NoRun EXCEPT !.status = "QUEUED", !.event = e, !.current = TRUE]
               ELSE [run[x] EXCEPT !.current = @ /\ run[x].event # e]]
  /\ mail' = mail \union {<<r, 0>>}
  /\ UNCHANGED <<intents, retries, memory, worker, faults>>

(* A reevaluation that calls for no run.                                   *)
Obsolesce(r) ==
  /\ run[r].current
  /\ run' = [run EXCEPT ![r].current = FALSE]
  /\ UNCHANGED <<intents, retries, mail, memory, worker, faults>>

(* AgentRunRepository.retry: a new message, the attempts go on counting.   *)
OperatorRetry(r) ==
  /\ run[r].status \in {"RETRYABLE_FAILURE", "PERMANENT_FAILURE"} /\ retries[r] < MaxRetries
  /\ run' = [run EXCEPT ![r].status = "QUEUED", ![r].timer = "none"]
  /\ retries' = [retries EXCEPT ![r] = @ + 1]
  /\ mail' = mail \union {<<r, retries'[r]>>}
  /\ UNCHANGED <<intents, memory, worker, faults>>

-----------------------------------------------------------------------------
(* Bug: a RUNNING run is never claimed again.                              *)
EligibleOnce(r) ==
  \/ run[r].status = "QUEUED"
  \/ run[r].status = "RETRYABLE_FAILURE" /\ run[r].timer = "passed"

Eligible(r) ==
  \/ run[r].status = "QUEUED"
  \/ run[r].status \in {"RETRYABLE_FAILURE", "RUNNING"} /\ run[r].timer = "passed"

(* AgentRunRepository.claim; a delivery of a run that is not eligible yet  *)
(* is DEFERRED and changes nothing.                                        *)
Claim(w, m) ==
  LET r == m[1]
  IN /\ worker[w].pc = "idle" /\ m \in mail /\ Eligible(r)
     /\ run' = [run EXCEPT ![r].status = "RUNNING", ![r].attempt = @ + 1,
                           ![r].timer = "running"]
     /\ worker' = [worker EXCEPT ![w] = [pc |-> "begun", run |-> r, copy |-> m[2],
                                            attempt |-> run'[r].attempt, at |-> 0]]
     /\ UNCHANGED <<intents, retries, mail, memory, faults>>

(* TERMINAL: the run has ended.                                            *)
Skip(m) ==
  /\ m \in mail /\ Ended(m[1])
  /\ mail' = mail \ {m}
  /\ UNCHANGED <<run, intents, retries, memory, worker, faults>>

(* A message that was acknowledged is delivered again all the same.        *)
Redeliver(m) ==
  LET r == m[1]
  IN /\ m \notin mail /\ run[r].status # "ABSENT" /\ m[2] <= retries[r] /\ Fault
     /\ mail' = mail \union {m}
     /\ UNCHANGED <<run, intents, retries, memory, worker>>

(* Bug: complete and fail look at no claim.                                *)
OwnsAny(w) == TRUE

(* _claim_predicate.                                                       *)
Owns(w) == LET r == worker[w].run
           IN run[r].status = "RUNNING" /\ run[r].attempt = worker[w].attempt

(* SUCCEEDED or TERMINAL is acknowledged.                                  *)
Return(w) ==
  /\ worker' = [worker EXCEPT ![w] = Resting]
  /\ mail' = mail \ {<<worker[w].run, worker[w].copy>>}

(* Bug: next_retry_at outlives the last attempt.                           *)
FailWaits(w, retryable) ==
  LET again == retryable /\ worker[w].attempt < MaxAttempts
  IN /\ run' = [run EXCEPT ![worker[w].run].status =
                             IF again THEN "RETRYABLE_FAILURE" ELSE "PERMANENT_FAILURE",
                           ![worker[w].run].timer = "running"]
     /\ IF again THEN worker' = [worker EXCEPT ![w] = Resting] /\ UNCHANGED mail
                 ELSE Return(w)

(* AgentRunRepository.fail; RETRY is not acknowledged.                     *)
Fail(w, retryable) ==
  LET again == retryable /\ worker[w].attempt < MaxAttempts
  IN /\ run' = [run EXCEPT ![worker[w].run].status =
                             IF again THEN "RETRYABLE_FAILURE" ELSE "PERMANENT_FAILURE",
                           ![worker[w].run].timer = IF again THEN "running" ELSE "none"]
     /\ IF again THEN worker' = [worker EXCEPT ![w] = Resting] /\ UNCHANGED mail
                 ELSE Return(w)

(* load_subject; OBSOLETE_SIGNAL is looked for here and not again.         *)
Load(w) ==
  /\ worker[w].pc = "begun" /\ Owns(w)
  /\ IF run[worker[w].run].current
     THEN worker' = [worker EXCEPT ![w].pc = "asking"] /\ UNCHANGED <<run, mail>>
     ELSE Fail(w, FALSE)
  /\ UNCHANGED <<intents, retries, memory, faults>>

(* The model has answered, and completed_at is read.                       *)
Investigated(w) ==
  /\ worker[w].pc = "asking"
  /\ clock' = clock + 1
  /\ worker' = [worker EXCEPT ![w].pc = "answered", ![w].at = clock']
  /\ UNCHANGED <<run, intents, retries, mail, facts, edits, faults>>

(* AgentRunRepository.complete: the result, and if it asks for them the    *)
(* Notification and the proposals, in one transaction.                     *)
Complete(w) ==
  LET r == worker[w].run
  IN /\ worker[w].pc = "answered" /\ Owns(w)
     /\ \E asks \in BOOLEAN :
          /\ run' = [run EXCEPT ![r].status = "SUCCEEDED", ![r].timer = "none", ![r].asks = asks]
          /\ intents' = IF asks THEN intents \union {r} ELSE intents
     /\ worker' = [worker EXCEPT ![w].pc = "learning"]
     /\ UNCHANGED <<retries, mail, memory, faults>>

(* A provider or a transaction fails, or nothing can be done (credentials  *)
(* revoked, a scope that is gone): _retry and _record_failure.             *)
InvestigationFails(w, retryable) ==
  /\ worker[w].pc \in {"begun", "asking", "answered"} /\ Owns(w) /\ Fault
  /\ Fail(w, retryable)
  /\ UNCHANGED <<intents, retries, memory>>

(* AgentConflictError: the claim is gone, and so is what was found.        *)
Superseded(w) ==
  /\ worker[w].pc \in {"begun", "answered"} /\ ~Owns(w)
  /\ worker' = [worker EXCEPT ![w] = Resting]
  /\ UNCHANGED <<run, intents, retries, mail, memory, faults>>

-----------------------------------------------------------------------------
Actives == {i \in 1 .. Len(facts) : facts[i].status = "ACTIVE"}

(* Bug: the older of two values supersedes the newer.                      *)
MayFollowAny(from) == TRUE

MayFollow(from) == \A i \in Actives : facts[i].from < from

(* _put_fact_transaction.                                                  *)
PutFact(source, from) ==
  facts' = Append([i \in 1 .. Len(facts) |->
                     IF i \in Actives THEN [facts[i] EXCEPT !.status = "SUPERSEDED"]
                                      ELSE facts[i]],
                  [source |-> source, from |-> from, status |-> "ACTIVE"])

(* MemoryLearner.learn, under the Event's idempotency key and without any  *)
(* claim.  The result may propose no fact; a conflict, the loser of a race *)
(* and an error are skipped.                                               *)
Learn(w) ==
  LET e == run[worker[w].run].event
  IN /\ worker[w].pc = "learning"
     /\ \/ /\ MayFollow(worker[w].at) /\ \A i \in 1 .. Len(facts) : facts[i].source # e
           /\ PutFact(e, worker[w].at)
        \/ UNCHANGED facts
     /\ Return(w)
     /\ UNCHANGED <<run, intents, retries, clock, edits, faults>>

(* The user writes the fact, valid from now or from an earlier time, or    *)
(* retracts it (memory commands of the CLI); a conflict changes nothing.   *)
Remember(from) ==
  /\ edits < MaxEdits /\ MayFollow(from)
  /\ clock' = clock + 1 /\ edits' = edits + 1
  /\ PutFact(None, from)
  /\ UNCHANGED <<run, intents, retries, mail, worker, faults>>

Retract(i) ==
  /\ edits < MaxEdits /\ i \in Actives
  /\ clock' = clock + 1 /\ edits' = edits + 1
  /\ facts' = [facts EXCEPT ![i].status = "RETRACTED"]
  /\ UNCHANGED <<run, intents, retries, mail, worker, faults>>

-----------------------------------------------------------------------------
(* The worker dies over its message.                                       *)
Crash(w) ==
  /\ worker[w].pc # "idle" /\ Fault
  /\ worker' = [worker EXCEPT ![w] = Resting]
  /\ UNCHANGED <<run, intents, retries, mail, memory>>

(* lease_expires_at or next_retry_at passes; the worker of a RUNNING run   *)
(* may still be at it.                                                     *)
TimerPasses(r) ==
  /\ run[r].timer = "running"
  /\ run' = [run EXCEPT ![r].timer = "passed"]
  /\ IF \E w \in Workers : worker[w].run = r /\ worker[w].pc # "idle" /\ Owns(w)
     THEN Fault ELSE UNCHANGED faults
  /\ UNCHANGED <<intents, retries, mail, memory, worker>>

WorkerStep(w) ==
  Load(w) \/ Investigated(w) \/ Complete(w) \/ Superseded(w) \/ Learn(w)

Deliveries(r) == {r} \X (0 .. MaxRetries)

Next ==
  \/ \E r \in Runs : \/ Obsolesce(r) \/ OperatorRetry(r) \/ TimerPasses(r)
                     \/ \E e \in Events : Schedule(r, e)
                     \/ \E m \in Deliveries(r) :
                          Skip(m) \/ Redeliver(m) \/ \E w \in Workers : Claim(w, m)
  \/ \E w \in Workers : \/ WorkerStep(w) \/ Crash(w)
                        \/ \E retryable \in BOOLEAN : InvestigationFails(w, retryable)
  \/ \E from \in 1 .. clock + 1 : Remember(from)
  \/ \E i \in 1 .. Len(facts) : Retract(i)

Spec == Init /\ [][Next]_vars

(* Pub/Sub delivers what is not acknowledged again; workers go on with     *)
(* what they began, and leases and delays pass.                            *)
FairSpec ==
  /\ Spec
  /\ \A w \in Workers : WF_vars(WorkerStep(w))
  /\ \A r \in Runs :
       /\ WF_vars(TimerPasses(r))
       /\ WF_vars(\E w \in Workers, m \in Deliveries(r) : Claim(w, m))

-----------------------------------------------------------------------------
AgentTypeOK ==
  /\ run \in [Runs ->
       [status : {"ABSENT", "QUEUED", "RUNNING", "RETRYABLE_FAILURE", "SUCCEEDED",
                  "PERMANENT_FAILURE"},
        event : Events \union {None}, current : BOOLEAN, attempt : Nat,
        timer : {"none", "running", "passed"}, asks : BOOLEAN]]
  /\ \A r \in Runs :
       run[r].timer # "none" <=> run[r].status \in {"RUNNING", "RETRYABLE_FAILURE"}
  /\ intents \subseteq Runs
  /\ retries \in [Runs -> 0 .. MaxRetries]
  /\ mail \subseteq Runs \X (0 .. MaxRetries)
  /\ facts \in Seq([source : Events \union {None}, from : 1 .. clock,
                    status : {"ACTIVE", "SUPERSEDED", "RETRACTED"}])
  /\ clock \in Nat /\ edits \in 0 .. MaxEdits /\ faults \in 0 .. MaxFaults
  /\ worker \in [Workers ->
       [pc : {"idle", "begun", "asking", "answered", "learning"},
        run : Runs \union {None}, copy : 0 .. MaxRetries, attempt : Nat, at : 0 .. clock]]

(* "A stale claimant cannot overwrite a newer result", and a run that      *)
(* failed leaves nothing: a run has its Notification and proposals exactly *)
(* when it SUCCEEDED with a result that asks for them (complete, fail).    *)
OneResult ==
  \A r \in Runs : r \in intents <=> run[r].status = "SUCCEEDED" /\ run[r].asks

(* The facts of the slot form a chain: a fact is superseded only by the    *)
(* next, which is valid from a later time, the newest alone is active, and *)
(* an Event teaches it once; however late a worker learns (put_fact).      *)
FactsInOrder ==
  \A i \in 1 .. Len(facts) :
    /\ facts[i].status = "ACTIVE" => i = Len(facts)
    /\ facts[i].status = "SUPERSEDED" => i < Len(facts) /\ facts[i].from < facts[i + 1].from
    /\ \A j \in 1 .. i - 1 : facts[i].source = facts[j].source => facts[i].source = None

(* Each run that is scheduled, or retried by an operator, ends.            *)
RunSettles == \A r \in Runs : run[r].status = "QUEUED" ~> Ended(r)
=============================================================================
