--------------------------- MODULE ActionExecutor ---------------------------
(***************************************************************************)
(* The private action executor: durable Action rows, the Cloud Task that   *)
(* delivers each of them at least once, the request handlers that claim a  *)
(* row under a lease, cross the provider boundary and record an outcome,   *)
(* and the mutations that reach Gmail meanwhile.                           *)
(*                                                                         *)
(* Every step is one database transaction or one external call, the units  *)
(* between which the code can be interleaved, delayed or killed.  Time is  *)
(* not counted: a lease is live until a step LeaseExpires says it is not.  *)
(* A claim id is a fresh UUID in the code; here the handler that made the  *)
(* claim stands for it, which is as good as fresh because a handler works  *)
(* for one request at a time and a killed request never resumes.           *)
(***************************************************************************)
EXTENDS Naturals, FiniteSets

CONSTANTS Actions,    \* ids of the durable Actions
          Sends,      \* those whose capability is gmail.send_draft
          Once,       \* those whose provider call the Gmail client never retries
          Handlers,   \* concurrent executor requests
          None,       \* no Action / no claim
          MaxFaults   \* bound on crashes, lost replies, errors and slow handlers

ASSUME NoneAssumption == None \notin Actions \union Handlers
ASSUME OnceAssumption == Sends \subseteq Once /\ Once \subseteq Actions
ASSUME FaultsAssumption == MaxFaults \in Nat

VARIABLES
  action,   \* actions table: status, claim_id, lease, provider_call_started_at
  task,     \* the Cloud Task named after the Action
  holder,   \* the handler serving the latest delivery of the task
  pc,       \* where each handler is in ActionExecutor.execute
  job,      \* the Action each handler works on
  verdict,  \* how a failing handler is about to finish its Action
  applied,  \* mutations Gmail has applied for each Action
  missing,  \* Actions whose Gmail draft the user removed or sent by hand
  faults    \* faults that have happened

rowVars == <<action>>
taskVars == <<task, holder>>
handlerVars == <<pc, job, verdict>>
gmailVars == <<applied, missing>>
vars == <<action, task, holder, pc, job, verdict, applied, missing, faults>>

ActionStatus == {"ABSENT", "QUEUED", "RUNNING", "SUCCEEDED", "FAILED", "UNKNOWN"}
Terminal == {"SUCCEEDED", "FAILED", "UNKNOWN"}

(* How execute leaves the happy path: release_pre_provider_failure,        *)
(* fail_validation, mark_execution_unavailable, mark_execution_unknown.    *)
Verdicts == {"release", "validation", "unavailable", "unknown"}

(* Bug: an uncertain outcome reported as an ordinary failure.              *)
OutcomeOfCertain == [release |-> "QUEUED", validation |-> "FAILED",
                     unavailable |-> "FAILED", unknown |-> "FAILED"]
OutcomeOf == [release |-> "QUEUED", validation |-> "FAILED",
              unavailable |-> "FAILED", unknown |-> "UNKNOWN"]

ActionRow == [status : ActionStatus, claim : Handlers \union {None},
              lease : {"none", "live", "lapsed"}, started : BOOLEAN]
NewRow == [status |-> "ABSENT", claim |-> None, lease |-> "none", started |-> FALSE]

Init ==
  /\ action = [a \in Actions |-> NewRow]
  /\ task = [a \in Actions |-> "none"]
  /\ holder = [a \in Actions |-> None]
  /\ pc = [h \in Handlers |-> "idle"]
  /\ job = [h \in Handlers |-> None]
  /\ verdict = [h \in Handlers |-> "none"]
  /\ applied = [a \in Actions |-> 0]
  /\ missing = {}
  /\ faults = 0

-----------------------------------------------------------------------------
(* _claim_predicate: the row still carries the claim this handler made.    *)
Holds(h) ==
  /\ action[job[h]].status = "RUNNING"
  /\ action[job[h]].claim = h

Fault == /\ faults < MaxFaults
         /\ faults' = faults + 1

Working(h, at) == pc[h] = at

Goto(h, at) ==
  /\ pc' = [pc EXCEPT ![h] = at]
  /\ UNCHANGED <<job, verdict>>

FailWith(h, v) ==
  /\ pc' = [pc EXCEPT ![h] = "failing"]
  /\ verdict' = [verdict EXCEPT ![h] = v]
  /\ UNCHANGED job

Idle(h) ==
  /\ pc' = [pc EXCEPT ![h] = "idle"]
  /\ job' = [job EXCEPT ![h] = None]
  /\ verdict' = [verdict EXCEPT ![h] = "none"]

TaskDone(a) ==
  /\ task' = [task EXCEPT ![a] = "done"]
  /\ holder' = [holder EXCEPT ![a] = None]

(* Bug: the status of a notification written to an Action.                 *)
EndedAsSent(a, s) ==
  [action EXCEPT ![a].status = IF s = "SUCCEEDED" THEN "SENT" ELSE s,
                 ![a].claim = None, ![a].lease = "none"]

(* The row gets its outcome and loses its claim.                           *)
Ended(a, s) ==
  [action EXCEPT ![a].status = s, ![a].claim = None, ![a].lease = "none"]

(* A 2xx reply deletes the task, unless Cloud Tasks already gave up on     *)
(* this delivery and made another: then the late reply is ignored.  A      *)
(* reply may also be lost, and then the task is delivered again.           *)
Acknowledge(h, a) ==
  \/ /\ holder[a] = h
     /\ TaskDone(a)
     /\ UNCHANGED faults
  \/ /\ holder[a] # h
     /\ UNCHANGED <<taskVars, faults>>
  \/ Fault /\ UNCHANGED taskVars

-----------------------------------------------------------------------------
(* _queue_action_in_session: the Action row is inserted once, QUEUED, with *)
(* its outbox message.                                                     *)
QueueAction(a) ==
  /\ action[a].status = "ABSENT"
  /\ action' = [action EXCEPT ![a].status = "QUEUED"]
  /\ UNCHANGED <<taskVars, handlerVars, gmailVars, faults>>

(* ActionDispatchPullWorker: a terminal Action is acknowledged without a   *)
(* task; otherwise the deterministically named task is created, and a      *)
(* second creation is the AlreadyExists success.                           *)
EnqueueTask(a) ==
  /\ action[a].status \notin {"ABSENT"} \union Terminal
  /\ task[a] = "none"
  /\ task' = [task EXCEPT ![a] = "pending"]
  /\ UNCHANGED <<holder, rowVars, handlerVars, gmailVars, faults>>

(* Bug: a lapsed claim is never taken over.                                *)
ClaimableFresh(a) == action[a].status = "QUEUED"

(* claim_action on a row that is free, or whose claim lapsed before the    *)
(* provider boundary.                                                      *)
Claimable(a) ==
  \/ action[a].status = "QUEUED"
  \/ action[a].status = "RUNNING" /\ action[a].lease = "lapsed" /\ ~action[a].started

ClaimAction(h, a) ==
  /\ Working(h, "idle") /\ task[a] = "pending"
  /\ Claimable(a)
  /\ action' = [action EXCEPT ![a].status = "RUNNING", ![a].claim = h, ![a].lease = "live"]
  /\ holder' = [holder EXCEPT ![a] = h]
  /\ pc' = [pc EXCEPT ![h] = "claimed"]
  /\ job' = [job EXCEPT ![h] = a]
  /\ UNCHANGED <<task, verdict, gmailVars, faults>>

(* claim_action on a row whose claim lapsed after the boundary: the        *)
(* outcome is uncertain and is recorded as such, never repeated.           *)
ClaimLapsed(h, a) ==
  /\ Working(h, "idle") /\ task[a] = "pending"
  /\ action[a].status = "RUNNING" /\ action[a].lease = "lapsed" /\ action[a].started
  /\ action' = Ended(a, "UNKNOWN")
  /\ \/ TaskDone(a) /\ UNCHANGED faults
     \/ Fault /\ UNCHANGED taskVars
  /\ UNCHANGED <<handlerVars, gmailVars>>

(* Bug: a BUSY claim answered like a terminal one.                         *)
ClaimBusy(h, a) ==
  /\ Working(h, "idle") /\ task[a] = "pending"
  /\ action[a].status \in Terminal \union {"RUNNING"}
  /\ TaskDone(a)
  /\ UNCHANGED <<rowVars, handlerVars, gmailVars, faults>>

(* claim_action on a row that already has its outcome.  A BUSY row is the  *)
(* remaining case; it changes nothing and the task is delivered again.     *)
ClaimTerminal(h, a) ==
  /\ Working(h, "idle") /\ task[a] = "pending"
  /\ action[a].status \in Terminal
  /\ TaskDone(a)
  /\ UNCHANGED <<rowVars, handlerVars, gmailVars, faults>>

(* load_execution_subject and _revalidate.  A stale claim is an            *)
(* ActionConflictError, which the code treats like any infrastructure      *)
(* error: release and let the task be retried.                             *)
LoadSubject(h) ==
  /\ Working(h, "claimed")
  /\ \/ Holds(h) /\ Goto(h, "loaded") /\ UNCHANGED faults
     \/ Holds(h) /\ (\E v \in {"validation", "unavailable"} : FailWith(h, v)) /\ UNCHANGED faults
     \/ ~Holds(h) /\ FailWith(h, "release") /\ UNCHANGED faults
     \/ FailWith(h, "release") /\ Fault
  /\ UNCHANGED <<rowVars, taskVars, gmailVars>>

(* Credentials, the Gmail client and, before a send, get_draft and its     *)
(* comparison with the proposal: only external reads, so only handler      *)
(* state moves.  A draft that is gone is a 404, MessageUnavailable, which  *)
(* execute catches with the infrastructure errors: release and retry.      *)
CheckProvider(h) ==
  /\ Working(h, "loaded")
  /\ \/ job[h] \notin Sends \intersect missing /\ Goto(h, "checked") /\ UNCHANGED faults
     \/ FailWith(h, "unavailable") /\ UNCHANGED faults
     \/ job[h] \in Sends \ missing /\ FailWith(h, "validation") /\ UNCHANGED faults
     \/ job[h] \in Sends \intersect missing /\ FailWith(h, "release") /\ UNCHANGED faults
     \/ FailWith(h, "release") /\ Fault
  /\ UNCHANGED <<rowVars, taskVars, gmailVars>>

(* Bug: provider_call_started_at is not committed before the call.         *)
CrossedLater(h) == action

(* mark_provider_call_started: an UPDATE guarded by the claim and by the   *)
(* boundary not having been crossed; when it matches no row the request    *)
(* ends as TERMINAL.  The transaction may also fail, or commit and its     *)
(* answer be lost, which the code cannot tell apart.                       *)
MayCross(h) == Holds(h) /\ ~action[job[h]].started

Crossed(h) == [action EXCEPT ![job[h]].started = TRUE]

BeginProviderCall(h) ==
  /\ Working(h, "checked")
  /\ \/ /\ MayCross(h)
        /\ action' = Crossed(h)
        /\ Goto(h, "calling")
        /\ UNCHANGED <<taskVars, faults>>
     \/ /\ ~MayCross(h)
        /\ Idle(h) /\ Acknowledge(h, job[h])
        /\ UNCHANGED rowVars
     \/ /\ \/ UNCHANGED action
           \/ MayCross(h) /\ action' = Crossed(h)
        /\ FailWith(h, "release") /\ Fault
        /\ UNCHANGED taskVars
  /\ UNCHANGED gmailVars

(* The Gmail mutation.  It is applied and reported, refused for lack of    *)
(* authority (this attempt did nothing), or ends in an error that says     *)
(* nothing of what Gmail did.  After such an error the client repeats an   *)
(* update or a delete inside the same call; a create or a send it never    *)
(* repeats.  On a draft that is gone, as a repeated delete may find it,    *)
(* nothing is applied.                                                     *)
CallProvider(h) ==
  /\ Working(h, "calling")
  /\ LET done == [applied EXCEPT ![job[h]] = @ + 1]
         reachable == job[h] \notin missing
     IN \/ reachable /\ applied' = done /\ Goto(h, "applied") /\ UNCHANGED faults
        \/ UNCHANGED <<applied, faults>> /\ FailWith(h, "unavailable")
        \/ /\ ~reachable \/ applied[job[h]] > 0
           /\ UNCHANGED <<applied, faults>> /\ FailWith(h, "unknown")
        \/ reachable /\ applied' \in {applied, done} /\ FailWith(h, "unknown") /\ Fault
        \/ /\ reachable /\ job[h] \notin Once
           /\ applied' \in {applied, done} /\ Goto(h, "calling") /\ Fault
  /\ UNCHANGED <<rowVars, taskVars, missing>>

(* complete_*_draft under the claim predicate; a stale claim raises        *)
(* ActionConflictError after the boundary, hence mark_execution_unknown,   *)
(* and so does an error, whether or not the transaction committed.         *)
Complete(h) ==
  /\ Working(h, "applied")
  /\ LET succeeded == Ended(job[h], "SUCCEEDED")
     IN \/ /\ Holds(h)
           /\ action' = succeeded
           /\ Idle(h) /\ Acknowledge(h, job[h])
        \/ /\ ~Holds(h)
           /\ FailWith(h, "unknown")
           /\ UNCHANGED <<rowVars, taskVars, faults>>
        \/ /\ \/ UNCHANGED action
              \/ Holds(h) /\ action' = succeeded
           /\ FailWith(h, "unknown") /\ Fault
           /\ UNCHANGED taskVars
  /\ UNCHANGED gmailVars

(* Bug: the release does not look at provider_call_started_at.             *)
FinishesAlways(h) == Holds(h)

(* The transaction that ends a failing execution.  All four are guarded by *)
(* the claim; a release is also guarded by the boundary, and replies 503   *)
(* so that the task is delivered again.                                    *)
Finishes(h) ==
  Holds(h) /\ (verdict[h] = "release" => ~action[job[h]].started)

Finish(h) ==
  /\ Working(h, "failing")
  /\ action' = IF Finishes(h) THEN Ended(job[h], OutcomeOf[verdict[h]]) ELSE action
  /\ IF verdict[h] = "release" THEN UNCHANGED <<taskVars, faults>> ELSE Acknowledge(h, job[h])
  /\ Idle(h)
  /\ UNCHANGED gmailVars

-----------------------------------------------------------------------------
(* The process dies, or a database error or cancellation escapes execute:  *)
(* nothing is written and no reply is sent.                                *)
Crash(h) ==
  /\ ~Working(h, "idle")
  /\ Idle(h) /\ Fault
  /\ UNCHANGED <<rowVars, taskVars, gmailVars>>

(* lease_expires_at passes.  It may pass under a handler that is only      *)
(* slow, which counts as a fault.                                          *)
LeaseExpires(a) ==
  /\ action[a].status = "RUNNING" /\ action[a].lease = "live"
  /\ action' = [action EXCEPT ![a].lease = "lapsed"]
  /\ IF job[action[a].claim] = a THEN Fault ELSE UNCHANGED faults
  /\ UNCHANGED <<taskVars, handlerVars, gmailVars>>

(* The user deletes drafts in Gmail, or sends them there by hand.          *)
RemoveDrafts(gone) ==
  /\ missing' = missing \union gone
  /\ UNCHANGED <<rowVars, taskVars, handlerVars, applied, faults>>

Step(h) ==
  \/ LoadSubject(h)
  \/ CheckProvider(h)
  \/ BeginProviderCall(h)
  \/ CallProvider(h)
  \/ Complete(h)
  \/ Finish(h)

Deliver(h, a) == ClaimAction(h, a) \/ ClaimLapsed(h, a) \/ ClaimTerminal(h, a)

Next ==
  \/ \E a \in Actions : QueueAction(a) \/ EnqueueTask(a) \/ LeaseExpires(a)
  \/ \E h \in Handlers, a \in Actions : Deliver(h, a)
  \/ \E h \in Handlers : Step(h) \/ Crash(h)
  \/ \E gone \in SUBSET Actions : RemoveDrafts(gone)

Spec == Init /\ [][Next]_vars

(* The relay and the dispatcher keep running, Cloud Tasks delivers a       *)
(* pending task again and again, a handler that is running continues, and  *)
(* time passes.  Nothing is assumed of faults or of who queues an Action.  *)
Fairness ==
  /\ \A a \in Actions : WF_vars(EnqueueTask(a)) /\ WF_vars(LeaseExpires(a))
  /\ \A a \in Actions : WF_vars(\E h \in Handlers : Deliver(h, a))
  /\ \A h \in Handlers : WF_vars(Step(h))

FairSpec == Spec /\ Fairness

-----------------------------------------------------------------------------
(* The types of the tables and of the handlers.                            *)
TypeOK ==
  /\ action \in [Actions -> ActionRow]
  /\ task \in [Actions -> {"none", "pending", "done"}]
  /\ holder \in [Actions -> Handlers \union {None}]
  /\ pc \in [Handlers -> {"idle", "claimed", "loaded", "checked", "calling", "applied",
                          "failing"}]
  /\ job \in [Handlers -> Actions \union {None}]
  /\ verdict \in [Handlers -> Verdicts \union {"none"}]
  /\ applied \in [Actions -> Nat]
  /\ missing \subseteq Actions
  /\ faults \in 0 .. MaxFaults

(* A create or a send reaches Gmail at most once, whatever is lost,        *)
(* delivered twice, or overtaken by a lapsed lease (executor.execute and   *)
(* mark_provider_call_started).                                            *)
AtMostOnce == \A a \in Once : applied[a] <= 1

(* What the Action row says happened is what Gmail did: SUCCEEDED only if  *)
(* the mutation was applied, and FAILED, which lets the user try again,    *)
(* only if a create or a send was not (the outcomes of executor.execute).  *)
OutcomeIsTruthful ==
  /\ \A a \in Actions : action[a].status = "SUCCEEDED" => applied[a] > 0
  /\ \A a \in Once : action[a].status = "FAILED" => applied[a] = 0

(* An Action without its outcome never loses the task that would finish    *)
(* it: the task is acknowledged only by a delivery that saw or wrote the   *)
(* outcome, however late a superseded handler replies (actions/api.py).    *)
NoStrandedAction ==
  \A a \in Actions : task[a] = "done" => action[a].status \in Terminal

(* Once the boundary is crossed the row is never queued again, claimed by  *)
(* another handler, or uncrossed, and an outcome is never replaced         *)
(* (claim_action, release_pre_provider_failure, _finish_failed).           *)
NeverRepeated ==
  [][\A a \in Actions :
       /\ action[a].started => /\ action'[a].started
                               /\ action'[a].claim \in {action[a].claim, None}
                               /\ action'[a].status # "QUEUED"
       /\ action[a].status \in Terminal => action'[a] = action[a]]_vars

Ends(a) == action[a].status \in Terminal /\ task[a] # "pending"

(* Every queued Action gets an outcome, and its task is then acknowledged: *)
(* the reliable execution the lease, the 503 replies and Cloud Tasks give, *)
(* as long as the user leaves the Gmail draft of a send alone.             *)
EveryActionEnds ==
  \A a \in Actions :
    action[a].status = "QUEUED" ~> Ends(a) \/ a \in Sends \intersect missing
=============================================================================
