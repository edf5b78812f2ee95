---------------------------- MODULE EventPipeline ----------------------------
(***************************************************************************)
(* What becomes of one Event: its ingestion, its delivery over the Outbox, *)
(* the processors that evaluate it under a lease, the operator commands    *)
(* that evaluate it again or fill in a missing evaluation, the numbered    *)
(* attempts at the classifier, the chain of Signals, and the AgentRun      *)
(* scheduled with each Signal that calls for one.                          *)
(*                                                                         *)
(* A Signal is identified by its evaluation key; so is its AgentRun, and   *)
(* the outbox row of that run.  "NOTIFY" and "INVESTIGATE" are one         *)
(* disposition here, as are "IGNORE" and "STORE".                          *)
(***************************************************************************)
EXTENDS Outbox, Sequences

CONSTANTS Processors,  \* relevance workers
          Operators,   \* eva relevance reevaluate and backfill
          Explicit,    \* keys the operator gives to reevaluations
          MaxAttempts  \* relevance_max_attempts

Keys == {"initial", "backfill"} \union Explicit
Evaluators == Processors \union Operators

ASSUME PipelineAssumption ==
  /\ Rows = Keys \union {"event"} /\ "event" \notin Keys
  /\ Processors \intersect Operators = {} /\ None \notin Evaluators \union Keys
  /\ MaxAttempts \in Nat \ {0}

VARIABLES
  proc,      \* event_processing: stage, claim_id and lease
  attempts,  \* relevance_evaluation_attempts: by key, their statuses in order
  signals,   \* signals, oldest first
  runs,      \* agent_runs, by the key of their Signal
  eval       \* what each evaluator holds in memory

pipelineVars == <<proc, attempts, signals, runs, eval>>
allVars == <<pipelineVars, outboxVars, faults>>

Resting == [pc |-> "idle", key |-> None, plan |-> "none", number |-> 0, run |-> FALSE]

PipelineInit ==
  /\ OutboxInit
  /\ proc = [stage |-> "ABSENT", claim |-> None, lease |-> "none"]
  /\ attempts = [k \in Keys |-> <<>>]
  /\ signals = <<>>
  /\ runs = {}
  /\ eval = [e \in Evaluators |-> Resting]

Signalled(k) == \E i \in 1 .. Len(signals) : signals[i].key = k
HasCurrent == \E i \in 1 .. Len(signals) : signals[i].current

(* list_unevaluated_event_ids, by which backfill selects.                  *)
Unevaluated == proc.stage # "ABSENT" /\ ~HasCurrent

-----------------------------------------------------------------------------
(* EventService.ingest; the idempotency key makes a second call no step.   *)
Ingest ==
  /\ proc.stage = "ABSENT"
  /\ proc' = [proc EXCEPT !.stage = "RECEIVED"]
  /\ Enqueue("event")
  /\ UNCHANGED <<attempts, signals, runs, eval, relay, topic, faults>>

(* Bug: the claim of a processor that died is kept.                        *)
ClaimableFree == proc.stage = "RECEIVED" /\ proc.claim = None

Claimable == proc.stage = "RECEIVED" /\ proc.lease # "live"

(* EventProcessor._claim.                                                  *)
ClaimEvent(p) ==
  /\ eval[p].pc = "idle" /\ topic["event"] = "out"
  /\ Claimable
  /\ proc' = [proc EXCEPT !.claim = p, !.lease = "live"]
  /\ eval' = [eval EXCEPT ![p] = [Resting EXCEPT !.pc = "begun", !.key = "initial"]]
  /\ UNCHANGED <<attempts, signals, runs, outboxVars, faults>>

(* The delivery whose Event was committed just now, or was ALREADY_HANDLED *)
(* before, is acknowledged; a BUSY one is not, and comes again.            *)
SkipDelivery ==
  /\ proc.stage = "HANDLED"
  /\ Acknowledge("event")
  /\ UNCHANGED <<pipelineVars, outbox, relay, faults>>

(* RelevanceService.reevaluate and backfill.                               *)
Command(o, k) ==
  /\ eval[o].pc = "idle" /\ proc.stage # "ABSENT"
  /\ k \in Explicit \/ (k = "backfill" /\ Unevaluated)
  /\ eval' = [eval EXCEPT ![o] = [Resting EXCEPT !.pc = "begun", !.key = k]]
  /\ UNCHANGED <<proc, attempts, signals, runs, outboxVars, faults>>

-----------------------------------------------------------------------------
(* prepare_evaluation.  A Signal of the same key, or unless the operator   *)
(* asked for a new one any current Signal, is what the Event already has.  *)
LookUp(e) ==
  /\ eval[e].pc = "begun"
  /\ LET k == eval[e].key
         found == Signalled(k) \/ (k \notin Explicit /\ HasCurrent)
     IN eval' = [eval EXCEPT ![e].pc = IF found THEN "ready" ELSE "screening",
                             ![e].plan = IF found THEN "existing" ELSE "none"]
  /\ UNCHANGED <<proc, attempts, signals, runs, outboxVars, faults>>

(* Screening decides without the classifier, or leaves it to it.           *)
Screen(e) ==
  /\ eval[e].pc = "screening"
  /\ eval' \in {[eval EXCEPT ![e].pc = "ready", ![e].plan = "screened"],
                [eval EXCEPT ![e].pc = "listing"]}
  /\ UNCHANGED <<proc, attempts, signals, runs, outboxVars, faults>>

(* Bug: an attempt a dead worker left open stays open.                     *)
InterruptedNone(k) == attempts[k]

(* interrupt_started_attempts.                                             *)
Interrupted(k) ==
  [i \in 1 .. Len(attempts[k]) |-> IF attempts[k][i] = "STARTED" THEN "RETRYABLE_FAILURE"
                                                                 ELSE attempts[k][i]]

(* Bug: an off-by-one in the bound of the loop.                            *)
MayStartMore(n) == n <= MaxAttempts + 1

MayStart(n) == n <= MaxAttempts

(* The start of RelevanceClassifierRunner.run: the attempts made under     *)
(* this key, by any worker, count.                                         *)
ListAttempts(e) ==
  /\ eval[e].pc = "listing"
  /\ LET k == eval[e].key
         next == Len(attempts[k]) + 1
     IN /\ attempts' = [attempts EXCEPT ![k] = Interrupted(k)]
        /\ eval' = [eval EXCEPT ![e].number = next,
                                ![e].pc = IF MayStart(next) THEN "starting" ELSE "review"]
  /\ UNCHANGED <<proc, signals, runs, outboxVars, faults>>

(* start_attempt; a number that is taken violates its unique constraint,   *)
(* which fails the evaluation (GiveUp).                                    *)
StartAttempt(e) ==
  /\ eval[e].pc = "starting"
  /\ LET k == eval[e].key
     IN /\ eval[e].number = Len(attempts[k]) + 1
        /\ attempts' = [attempts EXCEPT ![k] = Append(@, "STARTED")]
  /\ eval' = [eval EXCEPT ![e].pc = "asking"]
  /\ UNCHANGED <<proc, signals, runs, outboxVars, faults>>

Final(e) == ~MayStart(eval[e].number + 1)

StillOpen(e) == attempts[eval[e].key][eval[e].number] = "STARTED"

FinishAttempt(e, status) ==
  /\ eval[e].pc = "asking" /\ StillOpen(e)
  /\ attempts' = [attempts EXCEPT ![eval[e].key][eval[e].number] = status]
  /\ UNCHANGED <<proc, signals, runs, outboxVars>>

(* The classifier answers, and the policy routes its answer.               *)
Classified(e) ==
  /\ FinishAttempt(e, "SUCCEEDED")
  /\ \E run \in BOOLEAN :
       eval' = [eval EXCEPT ![e].pc = "ready", ![e].plan = "classified", ![e].run = run]
  /\ UNCHANGED faults

(* A transient error or a rejected output: the next number, or review.     *)
ClassifierFails(e) ==
  /\ FinishAttempt(e, IF Final(e) THEN "PERMANENT_FAILURE" ELSE "RETRYABLE_FAILURE")
  /\ eval' = [eval EXCEPT ![e].pc = IF Final(e) THEN "review" ELSE "starting",
                          ![e].number = IF Final(e) THEN @ ELSE @ + 1]
  /\ Fault

-----------------------------------------------------------------------------
(* PreparedRelevanceCommit.apply persists a Signal, unless one of its key  *)
(* was persisted meanwhile; ExistingRelevanceCommit.apply does nothing.    *)
Applies(e) == eval[e].plan # "existing" /\ ~Signalled(eval[e].key)

Superseded == [i \in 1 .. Len(signals) |-> [signals[i] EXCEPT !.current = FALSE]]

(* The scope of successful_attempt_id, which persist_signal_in_session     *)
(* asks for: an attempt under the Signal's key that SUCCEEDED.             *)
InScope(e) == eval[e].plan = "classified" => attempts[eval[e].key][eval[e].number] = "SUCCEEDED"

(* persist_signal_in_session: under the lock of the Event the current      *)
(* Signal is superseded by the new one.                                    *)
PersistSignal(e) ==
  signals' = Append(Superseded, [key |-> eval[e].key, run |-> eval[e].run, current |-> TRUE,
                                 attempt |-> IF eval[e].plan = "classified"
                                               THEN eval[e].number ELSE 0])

(* Bug: a run is scheduled for the first evaluation only.                  *)
NeedsRunInitial(e) == eval[e].run /\ eval[e].key = "initial"

NeedsRun(e) == eval[e].run

(* schedule_in_session: the run and its outbox row, unless they are there. *)
ScheduleRun(k) ==
  IF k \in runs THEN UNCHANGED <<runs, outbox>>
                ELSE runs' = runs \union {k} /\ Enqueue(k)

(* Bug: the row of a run that exists is queued again.                      *)
ApplyRequeues(e) ==
  LET k == eval[e].key
  IN IF ~Applies(e)
     THEN /\ outbox' = IF k \in runs THEN [outbox EXCEPT ![k] = Pending] ELSE outbox
          /\ UNCHANGED <<signals, runs>>
     ELSE /\ InScope(e) /\ PersistSignal(e)
          /\ IF NeedsRun(e) THEN ScheduleRun(k) ELSE UNCHANGED <<runs, outbox>>

(* The routing transaction.                                                *)
Apply(e) ==
  IF ~Applies(e)
  THEN UNCHANGED <<signals, runs, outbox>>
  ELSE /\ InScope(e) /\ PersistSignal(e)
       /\ IF NeedsRun(e) THEN ScheduleRun(eval[e].key) ELSE UNCHANGED <<runs, outbox>>

Handled == [stage |-> "HANDLED", claim |-> None, lease |-> "none"]

(* The predicate of _commit and _release.                                  *)
Owns(p) == proc.stage # "HANDLED" /\ proc.claim = p

(* EventProcessor._commit.                                                 *)
Commit(p) ==
  /\ eval[p].pc = "ready" /\ Owns(p)
  /\ Apply(p)
  /\ proc' = Handled
  /\ eval' = [eval EXCEPT ![p] = Resting]
  /\ UNCHANGED <<attempts, relay, topic, faults>>

MayApplyDirect == proc.stage = "HANDLED" \/ proc.claim = None

(* RelevanceService._apply_direct.                                         *)
ApplyDirect(o) ==
  /\ eval[o].pc = "ready" /\ MayApplyDirect
  /\ Apply(o)
  /\ proc' = Handled
  /\ eval' = [eval EXCEPT ![o] = Resting]
  /\ UNCHANGED <<attempts, relay, topic, faults>>

Released == [proc EXCEPT !.claim = None, !.lease = "none"]

(* EvaluationReviewRequired: the claim is released and the delivery        *)
(* acknowledged, unless the claim is gone.                                 *)
Review(p) ==
  /\ eval[p].pc = "review"
  /\ eval' = [eval EXCEPT ![p] = Resting]
  /\ IF Owns(p) THEN /\ proc' = Released
                     /\ topic' \in {topic, [topic EXCEPT !["event"] = "acked"]}
                ELSE UNCHANGED <<proc, topic>>
  /\ UNCHANGED <<attempts, signals, runs, outbox, relay, faults>>

(* A step cannot be taken: the claim is gone, a processor has one, the     *)
(* Signal is out of scope, the attempt was interrupted or its number is    *)
(* taken, or a review is due.                                              *)
Stuck(e) ==
  \/ /\ eval[e].pc = "ready"
     /\ ~InScope(e) \/ (IF e \in Processors THEN ~Owns(e) ELSE ~MayApplyDirect)
  \/ eval[e].pc = "starting" /\ eval[e].number # Len(attempts[eval[e].key]) + 1
  \/ eval[e].pc = "asking" /\ ~StillOpen(e)
  \/ eval[e].pc = "review" /\ e \in Operators

(* The evaluation raises: _release, and the delivery comes again.  In      *)
(* "asking" it leaves its attempt open.                                    *)
GiveUp(e) ==
  /\ \/ Stuck(e) /\ UNCHANGED faults
     \/ eval[e].pc \notin {"idle", "review"} /\ ~Stuck(e) /\ Fault
  /\ proc' = IF e \in Processors /\ Owns(e) THEN Released ELSE proc
  /\ eval' = [eval EXCEPT ![e] = Resting]
  /\ UNCHANGED <<attempts, signals, runs, outboxVars>>

(* The worker or the command dies.                                         *)
CrashEvaluator(e) ==
  /\ eval[e].pc # "idle" /\ Fault
  /\ eval' = [eval EXCEPT ![e] = Resting]
  /\ UNCHANGED <<proc, attempts, signals, runs, outboxVars>>

(* lease_expires_at passes, under a processor that died or is only slow.   *)
ClaimLapses ==
  /\ proc.lease = "live"
  /\ proc' = [proc EXCEPT !.lease = "lapsed"]
  /\ IF eval[proc.claim].pc # "idle" THEN Fault ELSE UNCHANGED faults
  /\ UNCHANGED <<attempts, signals, runs, eval, outboxVars>>

-----------------------------------------------------------------------------
EvaluatorStep(e) ==
  \/ LookUp(e) \/ Screen(e) \/ ListAttempts(e) \/ StartAttempt(e) \/ Classified(e)
  \/ Stuck(e) /\ GiveUp(e)
  \/ e \in Processors /\ (Commit(e) \/ Review(e))
  \/ e \in Operators /\ ApplyDirect(e)

PipelineNext ==
  \/ Ingest \/ SkipDelivery \/ ClaimLapses
  \/ \E p \in Processors : ClaimEvent(p)
  \/ \E o \in Operators, k \in Keys : Command(o, k)
  \/ \E e \in Evaluators : \/ EvaluatorStep(e) \/ ClassifierFails(e)
                           \/ GiveUp(e) \/ CrashEvaluator(e)
  \/ RelayNext /\ UNCHANGED pipelineVars

PipelineSpec == PipelineInit /\ [][PipelineNext]_allVars

(* Pub/Sub delivers what is not acknowledged again and again, an evaluator *)
(* that has begun goes on, a lease lapses and the relays run.  Nothing is  *)
(* assumed of the operator or of faults.                                   *)
PipelineFairness ==
  /\ WF_allVars(ClaimLapses)
  /\ WF_allVars(\E p \in Processors : ClaimEvent(p))
  /\ \A p \in Processors : WF_allVars(EvaluatorStep(p))
  /\ \A r \in Relays : WF_allVars(RelayStep(r) /\ UNCHANGED pipelineVars)
  /\ WF_allVars(RowLapses("event") /\ UNCHANGED pipelineVars)
  /\ SF_allVars(\E r \in Relays, batch \in SUBSET Rows :
                  "event" \in batch /\ ClaimBatch(r, batch) /\ UNCHANGED pipelineVars)

FairPipelineSpec == PipelineSpec /\ PipelineFairness

-----------------------------------------------------------------------------
PipelineTypeOK ==
  /\ proc \in [stage : {"ABSENT", "RECEIVED", "HANDLED"}, claim : Processors \union {None},
               lease : {"none", "live", "lapsed"}]
  /\ proc.claim = None <=> proc.lease = "none"
  /\ attempts \in [Keys -> Seq({"STARTED", "SUCCEEDED", "RETRYABLE_FAILURE", "PERMANENT_FAILURE"})]
  /\ signals \in Seq([key : Keys, run : BOOLEAN, current : BOOLEAN, attempt : 0 .. MaxAttempts])
  /\ runs \subseteq Keys
  /\ eval \in [Evaluators ->
       [pc : {"idle", "begun", "screening", "listing", "starting", "asking", "ready", "review"},
        key : Keys \union {None}, plan : {"none", "existing", "screened", "classified"},
        number : 0 .. MaxAttempts + 1, run : BOOLEAN]]

(* The Signals of an Event form one chain: one per evaluation key, the     *)
(* newest current and no other, however many evaluators raced to persist   *)
(* theirs, and the AgentRuns are those of the Signals that call for one,   *)
(* each with its outbox row (persist_signal_in_session, schedule_in_session).*)
SignalChain ==
  \A i \in 1 .. Len(signals) :
    /\ signals[i].current <=> i = Len(signals)
    /\ \A j \in 1 .. i - 1 : signals[i].key # signals[j].key
    /\ LET k == signals[i].key
       IN (signals[i].run <=> k \in runs) /\ (k \in runs <=> outbox[k].state # "ABSENT")

Exhausted(k) == Len(attempts[k]) = MaxAttempts

(* Under one key at most one attempt is open, whatever workers died over   *)
(* it or were superseded, and their number stays within the bound (run).   *)
(* An answer that waits to be persisted is the one its attempt recorded,   *)
(* so the scope that persist_signal_in_session asks for is never missed.   *)
AttemptsAccounted ==
  /\ \A e \in Evaluators : eval[e].pc = "ready" => InScope(e)
  /\ \A k \in Keys :
       /\ Len(attempts[k]) <= MaxAttempts
       /\ Cardinality({i \in 1 .. Len(attempts[k]) : attempts[k][i] = "STARTED"}) <= 1

(* What the pipeline does with the outbox is what the Outbox allows: each  *)
(* row is written once, and moved by its relays only.                      *)
ImplementsOutbox == OutboxInit /\ [][OutboxNext]_outboxVars

(* An Event is evaluated in the end, or left to an operator with its       *)
(* attempts used up: no delivery is acknowledged too early, and no claim   *)
(* outlives its processor (_claim, _should_acknowledge).                   *)
EventSettles == proc.stage = "RECEIVED" ~> proc.stage = "HANDLED" \/ Exhausted("initial")

(* "Existing current Signal during initial processing or backfill:         *)
(* idempotent no-op": only a reevaluation an operator asked for supersedes *)
(* a Signal.                                                               *)
OnlyReevaluationSupersedes == \A i \in 2 .. Len(signals) : signals[i].key \in Explicit
=============================================================================
