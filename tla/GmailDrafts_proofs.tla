-------------------------- MODULE GmailDrafts_proofs --------------------------
(***************************************************************************)
(* Proofs about GmailDrafts for any Drafts, Contents, Handlers and bounds: *)
(* the drafts implement the executor and keep the promise of ExactSend.    *)
(*                                                                         *)
(* The executor's invariant comes from ActionExecutor_proofs.  What is     *)
(* added here is in three parts: the tables agree with each other          *)
(* (DecisionInv), the mailbox agrees with the tables and with what a       *)
(* handler knows (MailInv), and the managed status does not lie            *)
(* (UpdatesFit, SentIsDone, AppliedWasSent).                               *)
(***************************************************************************)
EXTENDS GmailDrafts, TLAPS

(* The lemmas about the executor, for the executor of the drafts.          *)
EP == INSTANCE ActionExecutor_proofs
  WITH Actions <- Proposals, Once <- Creates \union Sends, missing <- Missing

-----------------------------------------------------------------------------
(* Every step of the drafts is a step of the executor, or one that it does *)
(* not see: the user's hand on the mailbox shows only when a draft goes.   *)
LEMMA UnseenStep ==
  ASSUME UNCHANGED <<executorVars, gmail>>
  PROVE  UNCHANGED Executor!vars
  BY DEF executorVars, Executor!vars, Missing

LEMMA EditUnseen ==
  ASSUME NEW d \in Drafts, EditInGmail(d),
         gmail \in [Drafts -> Contents \union {"none", "edited", "raced", "removed"}]
  PROVE  UNCHANGED Executor!vars
  <1>1. \A e \in Drafts : gmail'[e] = "removed" <=> gmail[e] = "removed"
    BY ContentAssumption DEF EditInGmail
  <1>2. \A p \in Proposals : Draft(p) \in Drafts
    BY DEF Proposals, Creates, Sends, Updates, Deletes, Draft, Create
  <1>3. Missing' = Missing
    BY <1>1, <1>2, Zenon DEF Missing
  <1> QED  BY <1>3 DEF EditInGmail, executorVars, Executor!vars

LEMMA ExecutorStep ==
  ASSUME gmail \in [Drafts -> Contents \union {"none", "edited", "raced", "removed"}],
         [DraftNext]_draftVars
  PROVE  [Executor!Next]_(Executor!vars)
  <1> USE DEF Executor!Next, Executor!Step, Executor!Deliver
  <1>1. ASSUME NEW d \in Drafts, NEW c \in Contents, ProposeDraft(d, c) PROVE Executor!Next
    BY <1>1 DEF ProposeDraft, Proposals, Creates
  <1>2. ASSUME NEW s \in Sends, Grant(s) PROVE Executor!Next
    BY <1>2 DEF Grant, Proposals
  <1>3. ASSUME NEW s \in Sends, Discard(s) PROVE Executor!Next
    <2>1. Delete(Draft(s), Version(s)) \in Proposals
      BY DEF Proposals, Deletes, Delete, Sends, Draft, Version
    <2> QED  BY <1>3, <2>1 DEF Discard
  <1>4. ASSUME NEW s \in Sends, NEW c \in Contents, CompleteRevision(s, c) PROVE Executor!Next
    <2>1. Update(Draft(s), Version(s)) \in Proposals
      BY <1>4, VersionAssumption
         DEF CompleteRevision, Proposals, Updates, Update, Sends, Draft, Version, Versions
    <2> QED  BY <1>4, <2>1 DEF CompleteRevision
  <1>5. ASSUME NEW s \in Sends,
               OpenRevision(s) \/ PressExpired(s) \/ ExpireRevision(s) \/ TimePasses(s)
        PROVE  UNCHANGED Executor!vars
    <2>1. UNCHANGED <<executorVars, gmail>>
      BY <1>5 DEF OpenRevision, PressExpired, ExpireRevision, TimePasses, mailVars
    <2> QED  BY <2>1, UnseenStep
  <1>6. ASSUME NEW d \in Drafts, RemoveInGmail(d) PROVE Executor!Next
    <2>1. {p \in Proposals \ Creates : Draft(p) = d} \in SUBSET Proposals
      OBVIOUS
    <2> QED  BY <1>6, <2>1 DEF RemoveInGmail
  <1>7. ASSUME NEW p \in Proposals, Schedule(p) PROVE Executor!Next
    BY <1>7 DEF Schedule
  <1>8. ASSUME NEW h \in Handlers, NEW p \in Proposals, Claim(h, p) \/ GiveUpLapsed(h, p)
        PROVE  Executor!Next
    BY <1>8 DEF Claim, GiveUpLapsed
  <1>9. ASSUME NEW h \in Handlers, HandlerStep(h) PROVE Executor!Next
    BY <1>9 DEF HandlerStep, Load, CheckDraft, CrossBoundary, CallGmail, CompleteAction,
                FinishAction, Undisturbed
  <1>10. CASE UNCHANGED draftVars
    BY <1>10, UnseenStep DEF draftVars, mailVars
  <1>11. CASE DraftNext
    BY <1>1, <1>2, <1>3, <1>4, <1>5, <1>6, <1>7, <1>8, <1>9, <1>11, EditUnseen
       DEF DraftNext, UserStep
  <1> QED  BY <1>10, <1>11

(* The executor of the drafts in the lemmas of ActionExecutor_proofs is    *)
(* the Executor of GmailDrafts.                                            *)
LEMMA SameInit == Executor!Init => EP!Init
  BY DEF Executor!Init, EP!Init, EP!NewRow, Executor!NewRow

LEMMA SameNext == Executor!Next => EP!Next
  <1> USE DEF Executor!Working, EP!Working, Executor!Goto, EP!Goto, Executor!FailWith,
              EP!FailWith, Executor!Idle, EP!Idle, Executor!Fault, EP!Fault, Executor!TaskDone,
              EP!TaskDone, Executor!Ended, EP!Ended, Executor!Acknowledge, EP!Acknowledge,
              Executor!Holds, EP!Holds, Executor!rowVars, EP!rowVars, Executor!taskVars,
              EP!taskVars, Executor!handlerVars, EP!handlerVars, Executor!gmailVars,
              EP!gmailVars, Executor!Terminal, EP!Terminal
  <1>1. ASSUME NEW a PROVE Executor!QueueAction(a) => EP!QueueAction(a)
    BY DEF Executor!QueueAction, EP!QueueAction
  <1>2. ASSUME NEW a PROVE Executor!EnqueueTask(a) => EP!EnqueueTask(a)
    BY DEF Executor!EnqueueTask, EP!EnqueueTask
  <1>3. ASSUME NEW a PROVE Executor!LeaseExpires(a) => EP!LeaseExpires(a)
    BY DEF Executor!LeaseExpires, EP!LeaseExpires
  <1>4. ASSUME NEW h, NEW a PROVE Executor!ClaimAction(h, a) => EP!ClaimAction(h, a)
    BY DEF Executor!ClaimAction, EP!ClaimAction, Executor!Claimable, EP!Claimable
  <1>5. ASSUME NEW h, NEW a PROVE Executor!ClaimLapsed(h, a) => EP!ClaimLapsed(h, a)
    BY DEF Executor!ClaimLapsed, EP!ClaimLapsed
  <1>6. ASSUME NEW h, NEW a PROVE Executor!ClaimTerminal(h, a) => EP!ClaimTerminal(h, a)
    BY DEF Executor!ClaimTerminal, EP!ClaimTerminal
  <1>7. ASSUME NEW h PROVE Executor!LoadSubject(h) => EP!LoadSubject(h)
    BY DEF Executor!LoadSubject, EP!LoadSubject
  <1>8. ASSUME NEW h PROVE Executor!CheckProvider(h) => EP!CheckProvider(h)
    BY DEF Executor!CheckProvider, EP!CheckProvider
  <1>9. ASSUME NEW h PROVE Executor!BeginProviderCall(h) => EP!BeginProviderCall(h)
    BY DEF Executor!BeginProviderCall, EP!BeginProviderCall, Executor!MayCross, EP!MayCross,
           Executor!Crossed, EP!Crossed
  <1>10. ASSUME NEW h PROVE Executor!CallProvider(h) => EP!CallProvider(h)
    BY DEF Executor!CallProvider, EP!CallProvider
  <1>11. ASSUME NEW h PROVE Executor!Complete(h) => EP!Complete(h)
    BY DEF Executor!Complete, EP!Complete
  <1>12. ASSUME NEW h PROVE Executor!Finish(h) => EP!Finish(h)
    BY DEF Executor!Finish, EP!Finish, Executor!Finishes, EP!Finishes, Executor!OutcomeOf,
           EP!OutcomeOf
  <1>13. ASSUME NEW h PROVE Executor!Crash(h) => EP!Crash(h)
    BY DEF Executor!Crash, EP!Crash
  <1>14. ASSUME NEW gone PROVE Executor!RemoveDrafts(gone) => EP!RemoveDrafts(gone)
    BY DEF Executor!RemoveDrafts, EP!RemoveDrafts
  <1> QED
    BY <1>1, <1>2, <1>3, <1>4, <1>5, <1>6, <1>7, <1>8, <1>9, <1>10, <1>11, <1>12, <1>13, <1>14
       DEF Executor!Next, EP!Next, Executor!Step, EP!Step, Executor!Deliver, EP!Deliver

LEMMA ExecutorInitial == Executor!Init => EP!ExecutorInv
  BY SameInit, EP!InitInv, NoneAssumption, FaultsAssumption DEF Proposals

LEMMA ExecutorKeeps ==
  EP!ExecutorInv /\ [Executor!Next]_(Executor!vars) => EP!ExecutorInv'
  <1>1. EP!ExecutorInv /\ [EP!Next]_(EP!vars) => EP!ExecutorInv'
    BY EP!NextInv, NoneAssumption, FaultsAssumption DEF Proposals
  <1>2. UNCHANGED Executor!vars => UNCHANGED EP!vars
    BY DEF Executor!vars, EP!vars
  <1> QED  BY <1>1, <1>2, SameNext
-----------------------------------------------------------------------------
(* A proposal and its Action go together: nothing is queued before the     *)
(* proposal is QUEUED or, for a send, APPROVED; an outcome ends both.      *)
Undone(p) == IF p \in Sends THEN "APPROVED" ELSE "QUEUED"

RowsAgree ==
  \A p \in Proposals :
    /\ InFlight(p) <=> proposal[p].status = Undone(p)
    /\ action[p].status = "SUCCEEDED" <=> proposal[p].status = "COMPLETED"
    /\ action[p].status \in {"FAILED", "UNKNOWN"} <=> proposal[p].status = "FAILED"
    /\ p \notin Sends /\ action[p].status = "ABSENT" => proposal[p].status = "ABSENT"
    /\ proposal[p].status # "ABSENT" => proposal[p].content \in Contents

(* A send was queued exactly when the user granted it, and a revision was  *)
(* opened from an approval it superseded.                                  *)
ApprovalsAgree ==
  \A s \in Sends :
    /\ approval[s].status = "ABSENT" <=> proposal[s].status = "ABSENT"
    /\ approval[s].status = "GRANTED" <=> action[s].status # "ABSENT"
    /\ revision[s].status # "ABSENT" => approval[s].status = "SUPERSEDED"

(* The managed row exists once the create succeeded; it carries the        *)
(* content of its active send proposal, the newest one and the only one    *)
(* that can be open or granted.                                            *)
ActiveIsNewest ==
  /\ \A d \in Drafts :
       /\ managed[d].status = "ABSENT" <=> managed[d].active = 0
       /\ managed[d].status # "ABSENT" <=> action[Create(d)].status = "SUCCEEDED"
  /\ \A s \in Sends :
       LET m == managed[Draft(s)] IN
       /\ Version(s) = m.active => approval[s].status # "ABSENT" /\ proposal[s].content = m.content
       /\ Version(s) > m.active => approval[s].status = "ABSENT"
       /\ approval[s].status \in {"PENDING", "GRANTED"} => Version(s) = m.active

(* What an update or a delete replaced stays superseded or rejected.       *)
ReplacedStays ==
  \A p \in Proposals : action[p].status # "ABSENT" =>
    LET was == approval[Send(Draft(p), Version(p))].status
    IN (p \in Updates => was = "SUPERSEDED") /\ (p \in Deletes => was = "REJECTED")

BusyAs(p) ==
  CASE p \in Sends -> "SENDING" [] p \in Updates -> "UPDATING" [] OTHER -> "DELETING"

(* The managed row tells what is in flight, and an uncertain outcome stays *)
(* with it for good.                                                       *)
BusyAgrees ==
  \A p \in Proposals \ Creates :
    LET m == managed[Draft(p)] IN
    /\ InFlight(p) <=> m.active = Version(p) /\ m.status = BusyAs(p)
    /\ action[p].status = "UNKNOWN" => m.active = Version(p) /\ m.status = "UNKNOWN"

(* The draft is at rest while an offer or a revision of it is open.        *)
Open(s) ==
  \/ approval[s].status = "PENDING"
  \/ revision[s].status = "ACTIVE" /\ managed[Draft(s)].active = Version(s)

OpenIsReady == \A s \in Sends : Open(s) => managed[Draft(s)].status = "READY"

(* A handler's job was queued.                                             *)
JobsQueued == \A h \in Handlers : job[h] # None => action[job[h]].status # "ABSENT"

(* Once a handler compared a send with the draft, the draft holds the      *)
(* approved content or what happened to it since.                          *)
SenderKnows ==
  \A h \in Handlers : pc[h] \in {"checked", "calling"} /\ job[h] \in Sends =>
    gmail[Draft(job[h])] \in {proposal[job[h]].content, "raced", "none", "removed"}

(* What was sent was applied, and a draft is sent once.                    *)
SentOnce ==
  \A d \in Drafts :
    /\ \A m \in sent[d] : applied[Send(d, m[1])] > 0
    /\ \A m, n \in sent[d] : m = n

(* The type invariant in parts, each the affair of other steps.            *)
ProposalStatus == {"ABSENT", "WAITING_APPROVAL", "QUEUED", "APPROVED", "COMPLETED", "FAILED",
                   "EXPIRED", "SUPERSEDED", "CANCELLED"}
ProposalRow == [status : ProposalStatus, content : Contents \union {"none"}]
ApprovalStatus == {"ABSENT", "PENDING", "GRANTED", "REJECTED", "EXPIRED", "SUPERSEDED"}
ApprovalRow == [status : ApprovalStatus, lapsed : BOOLEAN]
ManagedStatus == {"ABSENT", "READY", "UPDATING", "SENDING", "SENT", "DELETING", "DELETED",
                  "UNKNOWN"}
ManagedRow == [status : ManagedStatus, active : 0 .. MaxVersion, content : Contents \union {"none"}]
RevisionStatus == {"ABSENT", "ACTIVE", "COMPLETED", "EXPIRED", "CANCELLED"}
RevisionRow == [status : RevisionStatus, lapsed : BOOLEAN]

TablesOK ==
  /\ proposal \in [Proposals -> ProposalRow]
  /\ approval \in [Sends -> ApprovalRow]
  /\ managed \in [Drafts -> ManagedRow]
  /\ revision \in [Sends -> RevisionRow]

GmailOK == gmail \in [Drafts -> Contents \union {"none", "edited", "raced", "removed"}]
SentOK == sent \in [Drafts -> SUBSET (Versions \X (Contents \union {"edited", "raced"}))]

LEMMA TypesSplit == DraftTypeOK <=> Executor!TypeOK /\ TablesOK /\ GmailOK /\ SentOK
  BY DEF DraftTypeOK, TablesOK, GmailOK, SentOK, ProposalRow, ProposalStatus, ApprovalRow,
         ApprovalStatus, ManagedRow, ManagedStatus, RevisionRow, RevisionStatus

(* The inductive invariant, in two halves: the tables, and the mailbox.    *)
DecisionInv ==
  /\ TablesOK
  /\ RowsAgree
  /\ ApprovalsAgree
  /\ ActiveIsNewest
  /\ ReplacedStays
  /\ BusyAgrees
  /\ OpenIsReady

MailInv ==
  /\ GmailOK
  /\ SentOK
  /\ JobsQueued
  /\ SenderKnows
  /\ SentWasApproved
  /\ SentOnce

-----------------------------------------------------------------------------
(* The ids.                                                                *)
LEMMA Ids ==
  /\ \A p \in Proposals : Draft(p) \in Drafts /\ Version(p) \in 0 .. MaxVersion
  /\ \A p \in Proposals : /\ p \in Sends <=> Capability(p) = "SEND"
                          /\ p \in Updates <=> Capability(p) = "UPDATE"
                          /\ p \in Deletes <=> Capability(p) = "DELETE"
                          /\ p \in Creates <=> Capability(p) = "CREATE"
                          /\ Capability(p) \in {"CREATE", "SEND", "UPDATE", "DELETE"}
  /\ \A p, q \in Proposals :
       Draft(p) = Draft(q) /\ Capability(p) = Capability(q) /\ Version(p) = Version(q) => p = q
  /\ \A p \in Sends \union Deletes : p \in Proposals /\ Version(p) \in Versions
  /\ \A p \in Updates : p \in Proposals /\ Version(p) \in 1 .. MaxVersion - 1
  /\ \A p \in Creates : p \in Proposals /\ Version(p) = 0 /\ p = Create(Draft(p))
  BY VersionAssumption
     DEF Proposals, Creates, Sends, Updates, Deletes, Create, Draft, Capability, Version, Versions

LEMMA IdsMade ==
  ASSUME NEW d \in Drafts
  PROVE  /\ Create(d) \in Creates /\ Draft(Create(d)) = d /\ Version(Create(d)) = 0
         /\ \A v \in Versions :
              /\ Send(d, v) \in Sends /\ Draft(Send(d, v)) = d /\ Version(Send(d, v)) = v
              /\ Delete(d, v) \in Deletes /\ Draft(Delete(d, v)) = d /\ Version(Delete(d, v)) = v
              /\ v < MaxVersion => Update(d, v) \in Updates
              /\ Draft(Update(d, v)) = d /\ Version(Update(d, v)) = v
  BY VersionAssumption
     DEF Creates, Sends, Updates, Deletes, Create, Send, Update, Delete, Draft, Version, Versions

LEMMA SendIs ==
  ASSUME NEW s \in Sends
  PROVE  s = Send(Draft(s), Version(s)) /\ s \notin Creates /\ s \in Proposals
  BY DEF Sends, Send, Draft, Version, Creates, Create, Proposals

(* What the lemmas about the executor say of the handlers' jobs.           *)
Executing ==
  /\ Executor!TypeOK
  /\ \A h \in Handlers :
       /\ pc[h] # "idle" => job[h] \in Proposals
       /\ pc[h] = "failing" => verdict[h] \in {"release", "validation", "unavailable", "unknown"}
       /\ pc[h] \in {"calling", "applied"} => action[job[h]].status \in {"RUNNING", "UNKNOWN"}
       /\ pc[h] = "calling" /\ job[h] \in Creates \union Sends => applied[job[h]] = 0

LEMMA ExecutingIs == EP!ExecutorInv => Executing
  <1> SUFFICES ASSUME EP!ExecutorInv PROVE Executing
    OBVIOUS
  <1>1. Executor!TypeOK
    BY DEF EP!ExecutorInv, EP!TypeOK, Executor!TypeOK, EP!ActionRow, EP!ActionStatus, EP!Verdicts,
           Executor!ActionRow, Executor!ActionStatus, Executor!Verdicts
  <1>2. \A h \in Handlers :
          /\ pc[h] # "idle" => job[h] \in Proposals
          /\ pc[h] = "failing" =>
               verdict[h] \in {"release", "validation", "unavailable", "unknown"}
    BY DEF EP!ExecutorInv, EP!HandlerShape, EP!Past, EP!Verdicts
  <1>3. \A h \in Handlers :
          /\ pc[h] \in {"calling", "applied"} => action[job[h]].status \in {"RUNNING", "UNKNOWN"}
          /\ pc[h] = "calling" /\ job[h] \in Creates \union Sends => applied[job[h]] = 0
    BY DEF EP!ExecutorInv, EP!OneCaller, EP!CallerKnows, EP!Past, EP!Holds
  <1> QED  BY <1>1, <1>2, <1>3 DEF Executing

(* The types of the rows and the handlers, without the fields no proof of  *)
(* this module looks at.                                                   *)
LEMMA ExecutorTypes ==
  ASSUME Executor!TypeOK
  PROVE  /\ \A p \in Proposals :
              action[p].status \in {"ABSENT", "QUEUED", "RUNNING", "SUCCEEDED", "FAILED", "UNKNOWN"}
         /\ job \in [Handlers -> Proposals \union {None}]
         /\ pc \in [Handlers -> {"idle", "claimed", "loaded", "checked", "calling", "applied",
                                 "failing"}]
         /\ applied \in [Proposals -> Nat]
         /\ DOMAIN action = Proposals
         /\ \A p \in Proposals : DOMAIN action[p] = {"status", "claim", "lease", "started"}
  BY DEF Executor!TypeOK, Executor!ActionRow, Executor!ActionStatus
-----------------------------------------------------------------------------
(* Steps at which no Action is queued or ends.                             *)
StatusesRest ==
  \A p \in Proposals :
    \/ action'[p].status = action[p].status
    \/ action[p].status \in {"QUEUED", "RUNNING"} /\ action'[p].status \in {"QUEUED", "RUNNING"}

Becomes(p, status) ==
  /\ action'[p].status = status
  /\ \A q \in Proposals : q # p => action'[q].status = action[q].status

(* What was queued stays queued or ends, and what was proposed keeps its   *)
(* content.                                                                *)
RowsKept ==
  \A p \in Proposals :
    /\ action[p].status # "ABSENT" => action'[p].status # "ABSENT"
    /\ proposal[p].status # "ABSENT" => proposal'[p].content = proposal[p].content

LEMMA DecisionsRest ==
  ASSUME DecisionInv, StatusesRest, TablesOK', UNCHANGED <<proposal, managed>>,
         \A s \in Sends : /\ approval'[s].status = approval[s].status
                          /\ revision'[s].status \in {revision[s].status, "EXPIRED"}
                          /\ revision[s].status = "ABSENT" => revision'[s].status = "ABSENT"
  PROVE  DecisionInv' /\ RowsKept
  <1> USE DEF DecisionInv
  <1>1. \A p \in Proposals :
          /\ InFlight(p)' <=> InFlight(p)
          /\ \A st \in {"ABSENT", "SUCCEEDED", "FAILED", "UNKNOWN"} :
               action'[p].status = st <=> action[p].status = st
    BY DEF StatusesRest, InFlight
  <1>2. RowsAgree' /\ ApprovalsAgree'
    BY <1>1, SendIs DEF RowsAgree, ApprovalsAgree, Undone
  <1>3. ActiveIsNewest'
    BY <1>1, Ids, IdsMade DEF ActiveIsNewest
  <1>4. ReplacedStays'
    <2> SUFFICES ASSUME NEW p \in Proposals, action'[p].status # "ABSENT"
                 PROVE  LET was == approval'[Send(Draft(p), Version(p))].status
                        IN  /\ p \in Updates => was = "SUPERSEDED"
                            /\ p \in Deletes => was = "REJECTED"
      BY DEF ReplacedStays
    <2>1. p \in Updates \union Deletes => Send(Draft(p), Version(p)) \in Sends
      BY Ids, IdsMade, VersionAssumption DEF Versions
    <2> QED  BY <1>1, <2>1 DEF ReplacedStays
  <1>5. BusyAgrees'
    BY <1>1 DEF BusyAgrees, BusyAs
  <1>6. OpenIsReady'
    BY DEF OpenIsReady, Open
  <1>7. RowsKept
    BY <1>1 DEF RowsKept
  <1> QED  BY <1>2, <1>3, <1>4, <1>5, <1>6, <1>7

(* What the operators that write the tables do to each row.                *)
LEMMA ProposalAsIs ==
  ASSUME TablesOK, NEW p \in Proposals, NEW st \in ProposalStatus
  PROVE  /\ ProposalAs(p, st) \in [Proposals -> ProposalRow]
         /\ ProposalAs(p, st)[p].status = st
         /\ \A q \in Proposals : /\ ProposalAs(p, st)[q].content = proposal[q].content
                                 /\ q # p => ProposalAs(p, st)[q] = proposal[q]
  BY DEF TablesOK, ProposalAs, ProposalRow

LEMMA QueuedIs ==
  ASSUME TablesOK, NEW p \in Proposals, NEW c \in Contents
  PROVE  /\ Queued(p, c) \in [Proposals -> ProposalRow]
         /\ Queued(p, c)[p].status = "QUEUED" /\ Queued(p, c)[p].content = c
         /\ \A q \in Proposals : q # p => Queued(p, c)[q] = proposal[q]
  BY DEF TablesOK, Queued, ProposalRow, ProposalStatus

LEMMA ManagedAsIs ==
  ASSUME TablesOK, NEW p \in Proposals, NEW st \in ManagedStatus
  PROVE  /\ ManagedAs(p, st) \in [Drafts -> ManagedRow]
         /\ HasManaged(p) => ManagedAs(p, st)[Draft(p)].status = st
         /\ ~HasManaged(p) => ManagedAs(p, st) = managed
         /\ \A d \in Drafts : /\ ManagedAs(p, st)[d].active = managed[d].active
                              /\ ManagedAs(p, st)[d].content = managed[d].content
                              /\ d # Draft(p) => ManagedAs(p, st)[d] = managed[d]
  <1>1. Draft(p) \in Drafts
    BY Ids
  <1>2. HasManaged(p) \in BOOLEAN
    BY DEF HasManaged
  <1> QED  BY <1>1, <1>2 DEF TablesOK, ManagedAs, ManagedRow

LEMMA ApprovalIs ==
  ASSUME TablesOK, NEW s \in Sends, NEW st \in ApprovalStatus
  PROVE  LET new == [approval EXCEPT ![s].status = st]
         IN  /\ new \in [Sends -> ApprovalRow]
             /\ new[s].status = st /\ \A t \in Sends : t # s => new[t] = approval[t]
  BY DEF TablesOK, ApprovalRow

LEMMA RevisionIs ==
  ASSUME TablesOK, NEW s \in Sends, NEW st \in RevisionStatus
  PROVE  LET new == [revision EXCEPT ![s].status = st]
         IN  /\ new \in [Sends -> RevisionRow]
             /\ new[s].status = st /\ \A t \in Sends : t # s => new[t] = revision[t]
  BY DEF TablesOK, RevisionRow

(* A row queued by the executor.                                           *)
LEMMA QueueIs ==
  ASSUME Executor!TypeOK, NEW p \in Proposals, Executor!QueueAction(p)
  PROVE  /\ action[p].status = "ABSENT"
         /\ Becomes(p, "QUEUED")
         /\ UNCHANGED <<task, holder, pc, job, verdict, applied, faults>>
  BY ExecutorTypes
     DEF Executor!QueueAction, Executor!taskVars, Executor!handlerVars, Executor!gmailVars, Becomes
-----------------------------------------------------------------------------
(* Steps that offer no new version, and replace none but with authority.   *)
LEMMA ActiveKeeps ==
  ASSUME DecisionInv,
         \A d \in Drafts : /\ managed'[d].active = managed[d].active
                           /\ managed'[d].content = managed[d].content
                           /\ managed'[d].status = "ABSENT" <=> managed[d].status = "ABSENT",
         \A p \in Creates : action'[p].status = "SUCCEEDED" <=> action[p].status = "SUCCEEDED",
         \A s \in Sends :
           /\ proposal'[s].content = proposal[s].content
           /\ approval'[s].status = "ABSENT" <=> approval[s].status = "ABSENT"
           /\ approval'[s].status \in {"PENDING", "GRANTED"} =>
                approval[s].status \in {"PENDING", "GRANTED"}
  PROVE  ActiveIsNewest'
  <1> USE DEF DecisionInv, ActiveIsNewest
  <1>1. \A d \in Drafts :
          /\ managed'[d].status = "ABSENT" <=> managed'[d].active = 0
          /\ managed'[d].status # "ABSENT" <=> action'[Create(d)].status = "SUCCEEDED"
    BY IdsMade
  <1>2. \A s \in Sends :
          LET m == managed'[Draft(s)] IN
          /\ Version(s) = m.active =>
               approval'[s].status # "ABSENT" /\ proposal'[s].content = m.content
          /\ Version(s) > m.active => approval'[s].status = "ABSENT"
          /\ approval'[s].status \in {"PENDING", "GRANTED"} => Version(s) = m.active
    BY SendIs, Ids
  <1> QED  BY <1>1, <1>2

Replacing(p) == Send(Draft(p), Version(p))

LEMMA ReplacedKeeps ==
  ASSUME DecisionInv,
         \A p \in Updates \union Deletes :
           \/ action'[p].status = "ABSENT" \/ action[p].status # "ABSENT"
           \/ approval'[Replacing(p)].status = IF p \in Updates THEN "SUPERSEDED" ELSE "REJECTED",
         \A s \in Sends : approval[s].status \in {"SUPERSEDED", "REJECTED"} =>
                            approval'[s].status = approval[s].status
  PROVE  ReplacedStays'
  <1> SUFFICES ASSUME NEW p \in Proposals, action'[p].status # "ABSENT"
               PROVE  /\ p \in Updates => approval'[Replacing(p)].status = "SUPERSEDED"
                      /\ p \in Deletes => approval'[Replacing(p)].status = "REJECTED"
    BY DEF ReplacedStays, Replacing
  <1>1. p \in Updates \union Deletes => Replacing(p) \in Sends
    BY Ids, IdsMade, VersionAssumption DEF Versions, Replacing
  <1>2. p \in Updates => p \notin Deletes
    BY Ids
  <1>3. action[p].status # "ABSENT" =>
          /\ p \in Updates => approval[Replacing(p)].status = "SUPERSEDED"
          /\ p \in Deletes => approval[Replacing(p)].status = "REJECTED"
    BY DEF DecisionInv, ReplacedStays, Replacing
  <1> QED  BY <1>1, <1>2, <1>3

-----------------------------------------------------------------------------
(* create_allowed_action.                                                  *)
LEMMA ProposeKeeps ==
  ASSUME DecisionInv, Executor!TypeOK, NEW d \in Drafts, NEW c \in Contents, ProposeDraft(d, c)
  PROVE  DecisionInv' /\ RowsKept
  <1> DEFINE p == Create(d)
  <1>1. p \in Proposals /\ p \in Creates /\ p \notin Sends \union Updates \union Deletes
    BY IdsMade, Ids
  <1>2. Becomes(p, "QUEUED") /\ action[p].status = "ABSENT"
    BY <1>1, QueueIs DEF ProposeDraft
  <1>3. /\ proposal' \in [Proposals -> ProposalRow]
        /\ proposal'[p].status = "QUEUED" /\ proposal'[p].content = c
        /\ \A q \in Proposals : q # p => proposal'[q] = proposal[q]
    BY <1>1, QueuedIs DEF ProposeDraft, DecisionInv
  <1>4. UNCHANGED <<approval, managed, revision>>
    BY DEF ProposeDraft
  <1> HIDE DEF p
  <1> USE <1>1, <1>2, <1>3, <1>4 DEF DecisionInv, Becomes
  <1>5. TablesOK'
    BY DEF TablesOK
  <1>6. RowsAgree' /\ ApprovalsAgree'
    BY SendIs DEF RowsAgree, ApprovalsAgree, Undone, InFlight
  <1>7. ActiveIsNewest'
    BY Ids, IdsMade, SendIs DEF ActiveIsNewest
  <1>8. ReplacedStays'
    BY DEF ReplacedStays
  <1>9. BusyAgrees'
    BY DEF BusyAgrees, BusyAs, InFlight
  <1>10. OpenIsReady'
    BY DEF OpenIsReady, Open
  <1>11. RowsKept
    BY DEF RowsKept, RowsAgree
  <1> QED  BY <1>5, <1>6, <1>7, <1>8, <1>9, <1>10, <1>11

(* Nothing is being done to a draft at rest, or is uncertain about it.     *)
LEMMA ReadyFacts ==
  ASSUME DecisionInv, NEW s \in Sends, managed[Draft(s)].status = "READY"
  PROVE  /\ \A p \in Proposals : Draft(p) = Draft(s) => ~InFlight(p)
         /\ \A p \in Proposals \ Creates :
              Draft(p) = Draft(s) => action[p].status # "UNKNOWN"
  <1> USE DEF DecisionInv
  <1>1. action[Create(Draft(s))].status = "SUCCEEDED"
    BY SendIs, Ids DEF ActiveIsNewest
  <1>2. ASSUME NEW p \in Proposals, Draft(p) = Draft(s) PROVE ~InFlight(p)
    BY <1>1, <1>2, Ids DEF BusyAgrees, BusyAs, InFlight
  <1>3. \A p \in Proposals \ Creates : Draft(p) = Draft(s) => action[p].status # "UNKNOWN"
    BY DEF BusyAgrees
  <1> QED  BY <1>2, <1>3

(* What an open approval says of the other tables.                         *)
LEMMA PendingFacts ==
  ASSUME DecisionInv, NEW s \in Sends, approval[s].status = "PENDING"
  PROVE  /\ managed[Draft(s)].status = "READY" /\ managed[Draft(s)].active = Version(s)
         /\ HasManaged(s)
         /\ action[s].status = "ABSENT" /\ revision[s].status = "ABSENT"
         /\ \A p \in Proposals : Draft(p) = Draft(s) => ~InFlight(p)
         /\ \A p \in Proposals \ Creates :
              Draft(p) = Draft(s) => action[p].status # "UNKNOWN"
  <1> USE DEF DecisionInv
  <1>1. managed[Draft(s)].status = "READY" /\ managed[Draft(s)].active = Version(s)
    BY DEF OpenIsReady, Open, ActiveIsNewest
  <1>2. action[s].status = "ABSENT" /\ revision[s].status = "ABSENT"
    BY DEF ApprovalsAgree
  <1>3. HasManaged(s)
    BY <1>1, SendIs DEF HasManaged
  <1> QED  BY <1>1, <1>2, <1>3, ReadyFacts

(* grant_and_queue_send.                                                   *)
LEMMA GrantKeeps ==
  ASSUME DecisionInv, Executor!TypeOK, NEW s \in Sends, Grant(s)
  PROVE  DecisionInv' /\ RowsKept
  <1>1. s \in Proposals /\ s \notin Creates
    BY SendIs
  <1>2. Becomes(s, "QUEUED") /\ action[s].status = "ABSENT"
    BY <1>1, QueueIs DEF Grant
  <1>3. approval[s].status = "PENDING"
    BY DEF Grant, Decided
  <1>4. /\ approval' \in [Sends -> ApprovalRow]
        /\ approval'[s].status = "GRANTED" /\ \A t \in Sends : t # s => approval'[t] = approval[t]
    BY ApprovalIs DEF Grant, Decided, DecisionInv, ApprovalStatus
  <1>5. /\ proposal' \in [Proposals -> ProposalRow]
        /\ proposal'[s].status = "APPROVED"
        /\ \A q \in Proposals : /\ proposal'[q].content = proposal[q].content
                                /\ q # s => proposal'[q] = proposal[q]
    BY <1>1, ProposalAsIs DEF Grant, Decided, DecisionInv, ProposalStatus
  <1>6. /\ managed' \in [Drafts -> ManagedRow]
        /\ managed'[Draft(s)].status = "SENDING"
        /\ \A d \in Drafts : /\ managed'[d].active = managed[d].active
                             /\ managed'[d].content = managed[d].content
                             /\ d # Draft(s) => managed'[d] = managed[d]
    BY <1>1, <1>3, ManagedAsIs, PendingFacts DEF Grant, DecisionInv, ManagedStatus
  <1>7. UNCHANGED revision
    BY DEF Grant
  <1> USE <1>1, <1>2, <1>3, <1>4, <1>5, <1>6, <1>7 DEF DecisionInv, Becomes
  <1>8. TablesOK'
    BY DEF TablesOK
  <1>9. RowsAgree' /\ ApprovalsAgree'
    BY SendIs, PendingFacts DEF RowsAgree, ApprovalsAgree, Undone, InFlight
  <1>10. ActiveIsNewest'
    BY ActiveKeeps, SendIs, Ids, PendingFacts
  <1>11. ReplacedStays'
    BY ReplacedKeeps, SendIs, Ids
  <1>12. BusyAgrees'
    BY Ids, PendingFacts DEF BusyAgrees, BusyAs, InFlight
  <1>13. OpenIsReady'
    BY Ids, PendingFacts DEF OpenIsReady, Open, ActiveIsNewest
  <1>14. RowsKept
    BY DEF RowsKept, RowsAgree
  <1> QED  BY <1>8, <1>9, <1>10, <1>11, <1>12, <1>13, <1>14

(* An approval that is decided without an Action: open_revision, and any   *)
(* button after expires_at.                                                *)
LEMMA DecidedKeeps ==
  ASSUME DecisionInv, NEW s \in Sends, NEW st \in {"SUPERSEDED", "EXPIRED"}, Decided(s, st, st),
         UNCHANGED <<action, managed>>,
         revision' \in [Sends -> RevisionRow],
         \A t \in Sends :
           /\ revision'[t].status # "ABSENT" =>
                revision[t].status # "ABSENT" \/ (t = s /\ st = "SUPERSEDED")
           /\ revision'[t].status = "ACTIVE" => revision[t].status = "ACTIVE" \/ t = s
  PROVE  DecisionInv' /\ RowsKept
  <1>0. st \in ApprovalStatus /\ st \in ProposalStatus
    BY DEF ApprovalStatus, ProposalStatus
  <1>1. approval[s].status = "PENDING" /\ s \in Proposals
    BY SendIs DEF Decided
  <1>2. /\ approval' \in [Sends -> ApprovalRow]
        /\ approval'[s].status = st /\ \A t \in Sends : t # s => approval'[t] = approval[t]
    BY <1>0, ApprovalIs DEF Decided, DecisionInv
  <1>3. /\ proposal' \in [Proposals -> ProposalRow]
        /\ proposal'[s].status = st
        /\ \A q \in Proposals : /\ proposal'[q].content = proposal[q].content
                                /\ q # s => proposal'[q] = proposal[q]
    BY <1>0, <1>1, ProposalAsIs DEF Decided, DecisionInv
  <1> USE <1>1, <1>2, <1>3 DEF DecisionInv
  <1>4. TablesOK'
    BY DEF TablesOK
  <1>5. RowsAgree' /\ ApprovalsAgree'
    BY SendIs, PendingFacts DEF RowsAgree, ApprovalsAgree, Undone, InFlight
  <1>6. ActiveIsNewest'
    BY ActiveKeeps, SendIs
  <1>7. ReplacedStays'
    BY ReplacedKeeps
  <1>8. BusyAgrees'
    BY DEF BusyAgrees, BusyAs, InFlight
  <1>9. OpenIsReady'
    BY PendingFacts DEF OpenIsReady, Open
  <1>10. RowsKept
    BY DEF RowsKept
  <1> QED  BY <1>4, <1>5, <1>6, <1>7, <1>8, <1>9, <1>10

LEMMA OpenRevisionKeeps ==
  ASSUME DecisionInv, NEW s \in Sends, OpenRevision(s)
  PROVE  DecisionInv' /\ RowsKept
  <1>1. Decided(s, "SUPERSEDED", "SUPERSEDED") /\ UNCHANGED <<action, managed>>
    BY DEF OpenRevision, executorVars
  <1>2. revision' = [t \in Sends |->
          CASE t = s -> [status |-> "ACTIVE", lapsed |-> FALSE]
            [] t # s /\ revision[t].status = "ACTIVE" -> [revision[t] EXCEPT !.status = "CANCELLED"]
            [] OTHER -> revision[t]]
    BY DEF OpenRevision
  <1>3. \A t \in Sends :
          /\ t = s => revision'[t] = [status |-> "ACTIVE", lapsed |-> FALSE]
          /\ t # s /\ revision[t].status = "ACTIVE" =>
               revision'[t] = [revision[t] EXCEPT !.status = "CANCELLED"]
          /\ t # s /\ revision[t].status # "ACTIVE" => revision'[t] = revision[t]
    BY <1>2
  <1>4. \A t \in Sends :
          /\ revision'[t] \in RevisionRow
          /\ t # s /\ revision[t].status = "ACTIVE" => revision'[t].status = "CANCELLED"
    <2>1. [status |-> "ACTIVE", lapsed |-> FALSE] \in RevisionRow
      BY DEF RevisionRow, RevisionStatus
    <2>2. \A t \in Sends : revision[t] \in RevisionRow
      BY DEF DecisionInv, TablesOK
    <2>3. ASSUME NEW t \in Sends, t # s, revision[t].status = "ACTIVE"
          PROVE  revision'[t] \in RevisionRow /\ revision'[t].status = "CANCELLED"
      <3>1. revision[t] \in RevisionRow
        BY <2>2
      <3>2. revision'[t] = [revision[t] EXCEPT !.status = "CANCELLED"]
        BY <1>3, <2>3
      <3> QED  BY <3>1, <3>2 DEF RevisionRow, RevisionStatus
    <2> QED  BY <1>3, <2>1, <2>2, <2>3
  <1>5. revision' \in [Sends -> RevisionRow]
    BY <1>2, <1>4
  <1> QED  BY <1>1, <1>3, <1>4, <1>5, DecidedKeeps

LEMMA PressExpiredKeeps ==
  ASSUME DecisionInv, NEW s \in Sends, PressExpired(s)
  PROVE  DecisionInv' /\ RowsKept
  <1>1. Decided(s, "EXPIRED", "EXPIRED") /\ UNCHANGED <<action, managed, revision>>
    BY DEF PressExpired, executorVars
  <1>2. revision' \in [Sends -> RevisionRow]
    BY <1>1 DEF DecisionInv, TablesOK
  <1> QED  BY <1>1, <1>2, DecidedKeeps

(* expires_at passes, or load_revision finds that it has.                  *)
LEMMA TimeKeeps ==
  ASSUME DecisionInv, NEW s \in Sends, ExpireRevision(s) \/ TimePasses(s)
  PROVE  DecisionInv' /\ RowsKept
  <1>1. UNCHANGED <<action, proposal, managed>>
    BY DEF ExpireRevision, TimePasses, executorVars
  <1>2. /\ approval' \in [Sends -> ApprovalRow]
        /\ \A t \in Sends : approval'[t].status = approval[t].status
    BY DEF ExpireRevision, TimePasses, DecisionInv, TablesOK, ApprovalRow
  <1>3. /\ revision' \in [Sends -> RevisionRow]
        /\ \A t \in Sends : /\ revision'[t].status \in {revision[t].status, "EXPIRED"}
                            /\ revision[t].status = "ABSENT" => revision'[t].status = "ABSENT"
    <2>1. CASE ExpireRevision(s)
      BY <2>1, RevisionIs DEF ExpireRevision, DecisionInv, RevisionStatus
    <2>2. CASE TimePasses(s)
      BY <2>2 DEF TimePasses, DecisionInv, TablesOK, RevisionRow
    <2> QED  BY <2>1, <2>2
  <1>4. TablesOK' /\ StatusesRest
    BY <1>1, <1>2, <1>3 DEF DecisionInv, TablesOK, StatusesRest
  <1> QED  BY <1>1, <1>2, <1>3, <1>4, DecisionsRest

(* discard_and_queue_delete: the authority to send goes as the delete      *)
(* comes.                                                                  *)
LEMMA DiscardKeeps ==
  ASSUME DecisionInv, Executor!TypeOK, NEW s \in Sends, Discard(s)
  PROVE  DecisionInv' /\ RowsKept
  <1> DEFINE p == Delete(Draft(s), Version(s))
  <1>1. /\ p \in Proposals /\ p \in Deletes /\ p \notin Sends \union Updates \union Creates
        /\ Draft(p) = Draft(s) /\ Version(p) = Version(s) /\ Replacing(p) = s
        /\ s \in Proposals /\ s \notin Creates /\ p # s
    BY Ids, IdsMade, SendIs DEF Replacing
  <1>2. Becomes(p, "QUEUED") /\ action[p].status = "ABSENT"
    BY <1>1, QueueIs DEF Discard
  <1>3. approval[s].status = "PENDING" /\ proposal[s].content \in Contents
    BY <1>1 DEF Discard, DecisionInv, ApprovalsAgree, RowsAgree
  <1>4. /\ approval' \in [Sends -> ApprovalRow]
        /\ approval'[s].status = "REJECTED" /\ \A t \in Sends : t # s => approval'[t] = approval[t]
    BY ApprovalIs DEF Discard, DecisionInv, ApprovalStatus
  <1>5. /\ proposal' \in [Proposals -> ProposalRow]
        /\ proposal'[s].status = "CANCELLED" /\ proposal'[p].status = "QUEUED"
        /\ proposal'[s].content = proposal[s].content /\ proposal'[p].content = proposal[s].content
        /\ \A q \in Proposals : q \notin {p, s} => proposal'[q] = proposal[q]
    <2> DEFINE mid == Queued(p, proposal[s].content)
    <2>1. /\ mid \in [Proposals -> ProposalRow]
          /\ mid[p].status = "QUEUED" /\ mid[p].content = proposal[s].content
          /\ \A q \in Proposals : q # p => mid[q] = proposal[q]
      BY <1>1, <1>3, QueuedIs DEF DecisionInv
    <2>2. proposal' = [mid EXCEPT ![s].status = "CANCELLED"]
      BY DEF Discard
    <2> HIDE DEF mid, p
    <2> QED  BY <1>1, <2>1, <2>2 DEF ProposalRow, ProposalStatus
  <1>6. /\ managed' \in [Drafts -> ManagedRow]
        /\ managed'[Draft(s)].status = "DELETING"
        /\ \A d \in Drafts : /\ managed'[d].active = managed[d].active
                             /\ managed'[d].content = managed[d].content
                             /\ d # Draft(s) => managed'[d] = managed[d]
    <2>1. managed' = ManagedAs(p, "DELETING")
      BY DEF Discard
    <2>2. HasManaged(p)
      BY <1>1, <1>3, PendingFacts DEF HasManaged
    <2> QED  BY <1>1, <2>1, <2>2, ManagedAsIs DEF DecisionInv, ManagedStatus
  <1>7. UNCHANGED revision
    BY DEF Discard
  <1> HIDE DEF p
  <1> USE <1>1, <1>2, <1>3, <1>4, <1>5, <1>6, <1>7 DEF DecisionInv, Becomes
  <1>8. TablesOK'
    BY DEF TablesOK
  <1>9. RowsAgree' /\ ApprovalsAgree'
    BY SendIs, PendingFacts DEF RowsAgree, ApprovalsAgree, Undone, InFlight
  <1>10. ActiveIsNewest'
    BY ActiveKeeps, SendIs, Ids, PendingFacts
  <1>11. ReplacedStays'
    BY ReplacedKeeps, SendIs, Ids
  <1>12. BusyAgrees'
    BY Ids, PendingFacts DEF BusyAgrees, BusyAs, InFlight
  <1>13. OpenIsReady'
    BY Ids, PendingFacts DEF OpenIsReady, Open, ActiveIsNewest
  <1>14. RowsKept
    BY DEF RowsKept, RowsAgree
  <1> QED  BY <1>8, <1>9, <1>10, <1>11, <1>12, <1>13, <1>14

(* complete_revision: the approval of s was superseded when the revision   *)
(* opened, and the draft has been at rest since.                           *)
LEMMA CompleteRevisionKeeps ==
  ASSUME DecisionInv, Executor!TypeOK, NEW s \in Sends, NEW c \in Contents, CompleteRevision(s, c)
  PROVE  DecisionInv' /\ RowsKept
  <1> DEFINE p == Update(Draft(s), Version(s))
  <1>1. /\ p \in Proposals /\ p \in Updates /\ p \notin Sends \union Deletes \union Creates
        /\ Draft(p) = Draft(s) /\ Version(p) = Version(s) /\ Replacing(p) = s
        /\ s \in Proposals /\ s \notin Creates /\ p # s /\ Draft(s) \in Drafts
    BY Ids, IdsMade, SendIs DEF Replacing, CompleteRevision
  <1>2. Becomes(p, "QUEUED") /\ action[p].status = "ABSENT"
    BY <1>1, QueueIs DEF CompleteRevision
  <1>3. /\ approval[s].status = "SUPERSEDED" /\ revision[s].status = "ACTIVE"
        /\ managed[Draft(s)].status = "READY" /\ managed[Draft(s)].active = Version(s)
    BY DEF CompleteRevision, Current, HasManaged, DecisionInv, ApprovalsAgree, OpenIsReady, Open
  <1>4. UNCHANGED approval
    BY DEF CompleteRevision
  <1>5. /\ proposal' \in [Proposals -> ProposalRow]
        /\ proposal'[p].status = "QUEUED" /\ proposal'[p].content = c
        /\ \A q \in Proposals : q # p => proposal'[q] = proposal[q]
    BY <1>1, QueuedIs DEF CompleteRevision, DecisionInv
  <1>6. /\ managed' \in [Drafts -> ManagedRow]
        /\ managed'[Draft(s)].status = "UPDATING"
        /\ \A d \in Drafts : /\ managed'[d].active = managed[d].active
                             /\ managed'[d].content = managed[d].content
                             /\ d # Draft(s) => managed'[d] = managed[d]
    <2>1. managed' = ManagedAs(p, "UPDATING")
      BY DEF CompleteRevision
    <2>2. HasManaged(p)
      BY <1>1, <1>3 DEF HasManaged
    <2> QED  BY <1>1, <2>1, <2>2, ManagedAsIs DEF DecisionInv, ManagedStatus
  <1>7. /\ revision' \in [Sends -> RevisionRow]
        /\ revision'[s].status = "COMPLETED" /\ \A t \in Sends : t # s => revision'[t] = revision[t]
    BY RevisionIs DEF CompleteRevision, DecisionInv, RevisionStatus
  <1> HIDE DEF p
  <1> USE <1>1, <1>2, <1>3, <1>4, <1>5, <1>6, <1>7 DEF DecisionInv, Becomes
  <1>8. TablesOK'
    BY DEF TablesOK
  <1>9. RowsAgree' /\ ApprovalsAgree'
    BY SendIs DEF RowsAgree, ApprovalsAgree, Undone, InFlight
  <1>10. ActiveIsNewest'
    BY ActiveKeeps, SendIs, Ids
  <1>11. ReplacedStays'
    BY ReplacedKeeps, SendIs, Ids
  <1>12. BusyAgrees'
    BY Ids, ReadyFacts DEF BusyAgrees, BusyAs, InFlight
  <1>13. OpenIsReady'
    <2> SUFFICES ASSUME NEW t \in Sends, Open(t)' PROVE managed'[Draft(t)].status = "READY"
      BY DEF OpenIsReady
    <2>1. Open(t) /\ Draft(t) \in Drafts
      BY Ids, SendIs DEF Open
    <2>2. t # s
      BY DEF Open
    <2>3. managed[Draft(t)].active = Version(t)
      BY <2>1 DEF Open, ActiveIsNewest
    <2>4. Draft(t) # Draft(s)
      BY <2>2, <2>3, SendIs
    <2> QED  BY <2>1, <2>4 DEF OpenIsReady
  <1>14. RowsKept
    BY DEF RowsKept, RowsAgree
  <1> QED  BY <1>8, <1>9, <1>10, <1>11, <1>12, <1>13, <1>14

-----------------------------------------------------------------------------
(* An Action ends, and no new version of the draft is offered: every       *)
(* failure, a send and a delete that succeeded.                            *)
LEMMA EndKeeps ==
  ASSUME DecisionInv, NEW p \in Proposals, InFlight(p),
         NEW o \in {"SUCCEEDED", "FAILED", "UNKNOWN"}, Becomes(p, o),
         o = "SUCCEEDED" => p \notin Creates \union Updates,
         proposal' = ProposalAs(p, IF o = "SUCCEEDED" THEN "COMPLETED" ELSE "FAILED"),
         NEW st \in {"READY", "UNKNOWN", "SENT", "DELETED"}, o = "UNKNOWN" => st = "UNKNOWN",
         managed' = ManagedAs(p, st),
         UNCHANGED <<approval, revision>>
  PROVE  DecisionInv' /\ RowsKept
  <1>0. st \in ManagedStatus /\ {"COMPLETED", "FAILED"} \subseteq ProposalStatus
    BY DEF ManagedStatus, ProposalStatus
  <1>1. /\ proposal' \in [Proposals -> ProposalRow]
        /\ proposal'[p].status = IF o = "SUCCEEDED" THEN "COMPLETED" ELSE "FAILED"
        /\ \A q \in Proposals : /\ proposal'[q].content = proposal[q].content
                                /\ q # p => proposal'[q] = proposal[q]
    BY <1>0, ProposalAsIs DEF DecisionInv
  <1>2. p \notin Creates => HasManaged(p) /\ managed[Draft(p)].status = BusyAs(p)
    BY DEF HasManaged, DecisionInv, BusyAgrees, BusyAs
  <1>3. p \in Creates => ~HasManaged(p)
    BY DEF HasManaged
  <1>4. /\ managed' \in [Drafts -> ManagedRow]
        /\ p \notin Creates => managed'[Draft(p)].status = st
        /\ p \in Creates => managed' = managed
        /\ \A d \in Drafts : /\ managed'[d].active = managed[d].active
                             /\ managed'[d].content = managed[d].content
                             /\ d # Draft(p) => managed'[d] = managed[d]
    BY <1>0, <1>2, <1>3, ManagedAsIs DEF DecisionInv
  <1> USE <1>1, <1>2, <1>3, <1>4 DEF DecisionInv, Becomes
  <1>5. TablesOK'
    BY DEF TablesOK
  <1>6. RowsAgree' /\ ApprovalsAgree'
    BY SendIs DEF RowsAgree, ApprovalsAgree, Undone, InFlight
  <1>7. ActiveIsNewest'
    <2>1. \A d \in Drafts : managed'[d].status = "ABSENT" <=> managed[d].status = "ABSENT"
      BY DEF BusyAs
    <2>2. \A q \in Creates : action'[q].status = "SUCCEEDED" <=> action[q].status = "SUCCEEDED"
      BY Ids DEF InFlight
    <2> QED  BY <2>1, <2>2, ActiveKeeps, SendIs
  <1>8. ReplacedStays'
    BY ReplacedKeeps, Ids DEF InFlight
  <1>9. BusyAgrees'
    BY Ids DEF BusyAgrees, BusyAs, InFlight
  <1>10. OpenIsReady'
    BY Ids DEF OpenIsReady, Open, BusyAs
  <1>11. RowsKept
    BY DEF RowsKept, RowsAgree
  <1> QED  BY <1>5, <1>6, <1>7, <1>8, <1>9, <1>10, <1>11

(* A create or an update succeeded: complete_create_draft and              *)
(* complete_update_draft offer the next version of the draft.              *)
LEMMA OfferKeeps ==
  ASSUME DecisionInv, NEW p \in Creates \union Updates, InFlight(p),
         Becomes(p, "SUCCEEDED"), Completed(p), UNCHANGED revision
  PROVE  DecisionInv' /\ RowsKept
  <1> DEFINE d == Draft(p)
             next == IF p \in Creates THEN 1 ELSE managed[d].active + 1
             n == Send(d, next)
             c == proposal[p].content
  <1>1. p \in Proposals /\ p \notin Sends \union Deletes /\ d \in Drafts
    BY Ids
  <1>2. p \in Creates => /\ p \notin Updates /\ p = Create(d)
                         /\ managed[d].status = "ABSENT" /\ managed[d].active = 0
    BY <1>1, Ids DEF DecisionInv, ActiveIsNewest, InFlight
  <1>3. p \in Updates => /\ managed[d].status = "UPDATING" /\ managed[d].active = Version(p)
                         /\ Replacing(p) \in Sends /\ Version(Replacing(p)) = Version(p)
                         /\ Draft(Replacing(p)) = d /\ approval[Replacing(p)].status = "SUPERSEDED"
    <2> SUFFICES ASSUME p \in Updates
                 PROVE  /\ managed[d].status = "UPDATING" /\ managed[d].active = Version(p)
                        /\ Replacing(p) \in Sends /\ Version(Replacing(p)) = Version(p)
                        /\ Draft(Replacing(p)) = d /\ approval[Replacing(p)].status = "SUPERSEDED"
      OBVIOUS
    <2>1. p \notin Creates \union Sends /\ Version(p) \in Versions
      BY <1>1, Ids, VersionAssumption DEF Versions
    <2>2. managed[d].status = "UPDATING" /\ managed[d].active = Version(p)
      BY <1>1, <2>1 DEF DecisionInv, BusyAgrees, BusyAs
    <2>3. Replacing(p) \in Sends /\ Version(Replacing(p)) = Version(p) /\ Draft(Replacing(p)) = d
      BY <1>1, <2>1, IdsMade DEF Replacing
    <2>4. approval[Replacing(p)].status = "SUPERSEDED"
      BY <1>1 DEF DecisionInv, ReplacedStays, Replacing, InFlight
    <2> QED  BY <2>2, <2>3, <2>4
  <1>4. /\ next \in Versions /\ next > managed[d].active
        /\ managed[d].status \in {"ABSENT", "UPDATING"}
        /\ p \in Creates => next = 1
    BY <1>2, <1>3, Ids, VersionAssumption DEF Versions
  <1>5. /\ n \in Sends /\ Draft(n) = d /\ Version(n) = next /\ n \in Proposals /\ n # p
        /\ \A s \in Sends : Draft(s) = d /\ Version(s) = next => s = n
    BY <1>1, <1>4, IdsMade, SendIs
  <1>6. /\ approval[n].status = "ABSENT" /\ proposal[n].status = "ABSENT"
        /\ action[n].status = "ABSENT" /\ revision[n].status = "ABSENT"
        /\ c \in Contents
    <2>1. approval[n].status = "ABSENT"
      BY <1>4, <1>5 DEF DecisionInv, ActiveIsNewest
    <2>2. c \in Contents
      BY <1>1 DEF DecisionInv, RowsAgree, Undone
    <2> QED  BY <1>5, <2>1, <2>2 DEF DecisionInv, ApprovalsAgree
  <1>7. /\ proposal' = [ProposalAs(p, "COMPLETED") EXCEPT
                          ![n] = [status |-> "WAITING_APPROVAL", content |-> c]]
        /\ approval' = [approval EXCEPT ![n] = [status |-> "PENDING", lapsed |-> FALSE]]
        /\ managed' = [managed EXCEPT ![d] = [status |-> "READY", active |-> next, content |-> c]]
    BY DEF Completed, Offered, Ask
  <1> HIDE DEF d, next, n, c
  <1>8. /\ proposal' \in [Proposals -> ProposalRow]
        /\ proposal'[p].status = "COMPLETED" /\ proposal'[p].content = c
        /\ proposal'[n].status = "WAITING_APPROVAL" /\ proposal'[n].content = c
        /\ \A q \in Proposals : q \notin {p, n} => proposal'[q] = proposal[q]
    <2> DEFINE done == ProposalAs(p, "COMPLETED")
    <2>1. /\ done \in [Proposals -> ProposalRow]
          /\ done[p].status = "COMPLETED" /\ done[p].content = c
          /\ \A q \in Proposals : q # p => done[q] = proposal[q]
      BY <1>1, ProposalAsIs DEF DecisionInv, ProposalStatus, c
    <2>2. [status |-> "WAITING_APPROVAL", content |-> c] \in ProposalRow
      BY <1>6 DEF ProposalRow, ProposalStatus
    <2>3. proposal' = [done EXCEPT ![n] = [status |-> "WAITING_APPROVAL", content |-> c]]
      BY <1>7
    <2> HIDE DEF done
    <2> QED  BY <1>1, <1>5, <2>1, <2>2, <2>3
  <1>9. /\ approval' \in [Sends -> ApprovalRow]
        /\ approval'[n].status = "PENDING" /\ \A t \in Sends : t # n => approval'[t] = approval[t]
    BY <1>5, <1>7 DEF DecisionInv, TablesOK, ApprovalRow, ApprovalStatus
  <1>10. /\ managed' \in [Drafts -> ManagedRow]
         /\ managed'[d].status = "READY" /\ managed'[d].active = next /\ managed'[d].content = c
         /\ \A e \in Drafts : e # d => managed'[e] = managed[e]
    <2>1. [status |-> "READY", active |-> next, content |-> c] \in ManagedRow
      BY <1>4, <1>6, VersionAssumption DEF ManagedRow, ManagedStatus, Versions
    <2> QED  BY <1>1, <1>7, <2>1 DEF DecisionInv, TablesOK
  <1> USE <1>1, <1>2, <1>3, <1>4, <1>5, <1>6, <1>8, <1>9, <1>10 DEF DecisionInv, Becomes
  <1>11. TablesOK'
    BY DEF TablesOK
  <1>12. RowsAgree' /\ ApprovalsAgree'
    BY SendIs DEF RowsAgree, ApprovalsAgree, Undone, InFlight
  <1>13. ActiveIsNewest'
    <2>1. ASSUME NEW e \in Drafts
          PROVE  /\ managed'[e].status = "ABSENT" <=> managed'[e].active = 0
                 /\ managed'[e].status # "ABSENT" <=> action'[Create(e)].status = "SUCCEEDED"
      BY Ids, IdsMade DEF ActiveIsNewest, Versions
    <2>2. ASSUME NEW s \in Sends
          PROVE  LET m == managed'[Draft(s)] IN
                 /\ Version(s) = m.active =>
                      approval'[s].status # "ABSENT" /\ proposal'[s].content = m.content
                 /\ Version(s) > m.active => approval'[s].status = "ABSENT"
                 /\ approval'[s].status \in {"PENDING", "GRANTED"} => Version(s) = m.active
      <3>1. CASE Draft(s) # d
        BY <3>1, SendIs, Ids DEF ActiveIsNewest
      <3>2. CASE s = n
        BY <3>2, SendIs, Ids DEF Versions
      <3>3. CASE Draft(s) = d /\ s # n
        <4>1. /\ Version(s) # next /\ Version(s) \in Nat /\ Version(s) > 0
              /\ approval'[s] = approval[s]
          BY <3>3, Ids DEF Versions
        <4>2. approval[s].status \notin {"PENDING", "GRANTED"}
          BY <3>3, <4>1, SendIs, Ids DEF ActiveIsNewest
        <4>3. Version(s) > next => approval[s].status = "ABSENT"
          BY <3>3, <4>1, Ids, VersionAssumption DEF ActiveIsNewest, Versions, TablesOK, ManagedRow
        <4> QED  BY <3>3, <4>1, <4>2, <4>3
      <3> QED  BY <3>1, <3>2, <3>3
    <2> QED  BY <2>1, <2>2 DEF ActiveIsNewest
  <1>14. ReplacedStays'
    BY ReplacedKeeps, Ids DEF InFlight
  <1>15. BusyAgrees'
    <2> SUFFICES ASSUME NEW q \in Proposals \ Creates
                 PROVE  LET m == managed'[Draft(q)] IN
                        /\ InFlight(q)' <=> m.active = Version(q) /\ m.status = BusyAs(q)
                        /\ action'[q].status = "UNKNOWN" =>
                             m.active = Version(q) /\ m.status = "UNKNOWN"
      BY DEF BusyAgrees, BusyAs
    <2>1. Draft(q) \in Drafts /\ BusyAs(q) \in {"SENDING", "UPDATING", "DELETING"}
      BY Ids DEF BusyAs
    <2>2. CASE Draft(q) # d
      BY <2>1, <2>2 DEF d, BusyAgrees, InFlight
    <2>3. CASE q = p
      BY <2>1, <2>3 DEF d, InFlight
    <2>4. CASE Draft(q) = d /\ q # p
      <3>1. action[q].status # "UNKNOWN"
        BY <2>4 DEF BusyAgrees
      <3>2. ~InFlight(q)
        <4>1. CASE p \in Creates
          BY <2>1, <2>4, <4>1 DEF BusyAgrees
        <4>2. CASE p \in Updates
          <5>1. InFlight(q) => Version(q) = Version(p) /\ BusyAs(q) = "UPDATING"
            BY <2>4, <4>2 DEF BusyAgrees
          <5>2. BusyAs(q) = "UPDATING" => Capability(q) = Capability(p)
            BY <4>2, Ids DEF BusyAs
          <5> QED  BY <2>4, <5>1, <5>2, Ids DEF d
        <4> QED  BY <4>1, <4>2
      <3> QED  BY <2>1, <2>4, <3>1, <3>2 DEF InFlight
    <2> QED  BY <2>2, <2>3, <2>4
  <1>16. OpenIsReady'
    BY Ids DEF OpenIsReady, Open
  <1>17. RowsKept
    BY DEF RowsKept, InFlight, c
  <1> QED  BY <1>11, <1>12, <1>13, <1>14, <1>15, <1>16, <1>17

-----------------------------------------------------------------------------
(* What the executor's steps do to the statuses of the rows and to the     *)
(* jobs of the handlers.                                                   *)
Onward ==
  \A h \in Handlers :
    /\ job'[h] \in {job[h], None}
    /\ pc'[h] \in {"checked", "calling"} => pc[h] \in {"checked", "calling"} /\ job'[h] = job[h]

LEMMA ScheduleRests ==
  ASSUME Executing, NEW p \in Proposals, Schedule(p)
  PROVE  StatusesRest /\ Onward /\ UNCHANGED applied
  <1> USE DEF Executor!rowVars, Executor!taskVars, Executor!handlerVars, Executor!gmailVars
  <1>1. CASE Executor!EnqueueTask(p)
    BY <1>1 DEF Executor!EnqueueTask, StatusesRest, Onward
  <1>2. CASE Executor!LeaseExpires(p)
    <2>1. action' = [action EXCEPT ![p].lease = "lapsed"] /\ UNCHANGED <<pc, job, applied>>
      BY <1>2 DEF Executor!LeaseExpires
    <2>2. \A q \in Proposals : action'[q].status = action[q].status
      BY <2>1, ExecutorTypes DEF Executing
    <2> QED  BY <2>1, <2>2 DEF StatusesRest, Onward
  <1> QED  BY <1>1, <1>2 DEF Schedule

LEMMA ClaimRests ==
  ASSUME Executing, NEW h \in Handlers, NEW p \in Proposals, Claim(h, p)
  PROVE  /\ StatusesRest /\ UNCHANGED applied
         /\ \A g \in Handlers :
              /\ job'[g] = job[g] \/ (job'[g] = p /\ action[p].status # "ABSENT")
              /\ pc'[g] \in {"checked", "calling"} => pc'[g] = pc[g] /\ job'[g] = job[g]
  <1> USE DEF Executor!rowVars, Executor!taskVars, Executor!handlerVars, Executor!gmailVars
  <1>1. CASE Executor!ClaimAction(h, p)
    <2>1. /\ action' = [action EXCEPT ![p].status = "RUNNING", ![p].claim = h, ![p].lease = "live"]
          /\ action[p].status \in {"QUEUED", "RUNNING"}
          /\ pc' = [pc EXCEPT ![h] = "claimed"] /\ job' = [job EXCEPT ![h] = p]
          /\ UNCHANGED applied
      BY <1>1 DEF Executor!ClaimAction, Executor!Claimable
    <2>2. StatusesRest
      BY <2>1, ExecutorTypes DEF StatusesRest, Executing
    <2> QED  BY <2>1, <2>2, ExecutorTypes DEF Executing
  <1>2. CASE Executor!ClaimTerminal(h, p)
    BY <1>2 DEF Executor!ClaimTerminal, StatusesRest
  <1> QED  BY <1>1, <1>2 DEF Claim

(* The steps of a handler that only move it on.                            *)
LEMMA MoveRests ==
  ASSUME Executing, NEW h \in Handlers, Load(h) \/ CrossBoundary(h) \/ Undisturbed(h)
  PROVE  StatusesRest /\ Onward /\ UNCHANGED applied
  <1> USE DEF Executor!rowVars, Executor!taskVars, Executor!handlerVars, Executor!gmailVars,
              Executor!Goto, Executor!FailWith, Executor!Idle, Executor!Working
  <1>0. \A g \in Handlers : pc[g] # "idle" => job[g] \in Proposals
    BY DEF Executing
  <1>1. CASE Load(h)
    BY <1>1, ExecutorTypes DEF Load, Executor!LoadSubject, Executing, StatusesRest, Onward
  <1>2. CASE CrossBoundary(h)
    <2>1. job[h] \in Proposals
      BY <1>0, <1>2 DEF CrossBoundary, Executor!BeginProviderCall
    <2>2. action' \in {action, [action EXCEPT ![job[h]].started = TRUE]} /\ UNCHANGED applied
      BY <1>2 DEF CrossBoundary, Executor!BeginProviderCall, Executor!Crossed
    <2>3. \A q \in Proposals : action'[q].status = action[q].status
      BY <2>1, <2>2, ExecutorTypes DEF Executing
    <2>4. pc[h] = "checked"
          /\ \/ job' = job /\ pc' \in {[pc EXCEPT ![h] = "calling"], [pc EXCEPT ![h] = "failing"]}
             \/ job' = [job EXCEPT ![h] = None] /\ pc' = [pc EXCEPT ![h] = "idle"]
      BY <1>2 DEF CrossBoundary, Executor!BeginProviderCall
    <2>5. Onward
      BY <2>4, ExecutorTypes DEF Executing, Onward
    <2> QED  BY <2>2, <2>3, <2>5 DEF StatusesRest
  <1>3. CASE Undisturbed(h)
    BY <1>3, ExecutorTypes DEF Undisturbed, Executor!Crash, Executing, StatusesRest, Onward
  <1> QED  BY <1>1, <1>2, <1>3

LEMMA CheckRests ==
  ASSUME Executing, NEW h \in Handlers, CheckDraft(h)
  PROVE  /\ StatusesRest /\ UNCHANGED <<applied, job>>
         /\ \A g \in Handlers : pc'[g] \in {"checked", "calling"} =>
              pc'[g] = pc[g] \/ (g = h /\ (job[h] \in Sends => Matches(job[h])))
  <1> USE DEF Executor!rowVars, Executor!taskVars, Executor!handlerVars, Executor!gmailVars,
              Executor!Goto, Executor!FailWith
  <1>1. UNCHANGED <<applied, job, action>>
    BY DEF CheckDraft, Executor!CheckProvider
  <1>2. pc' \in {[pc EXCEPT ![h] = "checked"], [pc EXCEPT ![h] = "failing"]}
    BY DEF CheckDraft, Executor!CheckProvider
  <1>3. pc'[h] = "checked" /\ job[h] \in Sends => Matches(job[h])
    BY DEF CheckDraft
  <1> QED  BY <1>1, <1>2, <1>3, ExecutorTypes DEF Executing, StatusesRest

LEMMA CallRests ==
  ASSUME Executing, NEW h \in Handlers, CallGmail(h)
  PROVE  /\ StatusesRest /\ Onward /\ pc[h] = "calling" /\ job[h] \in Proposals
         /\ \/ UNCHANGED <<gmail, sent, applied>>
            \/ /\ Mutate(job[h]) /\ job[h] \notin Missing
               /\ applied' = [applied EXCEPT ![job[h]] = @ + 1]
  <1> USE DEF Executor!rowVars, Executor!taskVars, Executor!handlerVars, Executor!gmailVars,
              Executor!Goto, Executor!FailWith, Executor!Working
  <1>1. pc[h] = "calling" /\ job[h] \in Proposals
    BY DEF CallGmail, Executing
  <1>2. Executor!CallProvider(h)
    BY DEF CallGmail
  <1>3. action' = action /\ job' = job
        /\ pc' \in {[pc EXCEPT ![h] = at] : at \in {"applied", "failing", "calling"}}
    BY <1>2 DEF Executor!CallProvider
  <1>4. StatusesRest /\ Onward
    BY <1>1, <1>3, ExecutorTypes DEF Executing, StatusesRest, Onward
  <1>5. applied' # applied =>
          job[h] \notin Missing /\ applied' = [applied EXCEPT ![job[h]] = @ + 1]
    BY <1>2 DEF Executor!CallProvider
  <1>6. \/ UNCHANGED <<gmail, sent, applied>>
        \/ Mutate(job[h]) /\ applied' # applied
    BY DEF CallGmail, mailVars
  <1> QED  BY <1>1, <1>4, <1>5, <1>6

(* An ending of an execution: no outcome, or one the tables record.        *)
LEMMA GiveUpEnds ==
  ASSUME Executing, NEW h \in Handlers, NEW p \in Proposals, GiveUpLapsed(h, p)
  PROVE  InFlight(p) /\ Becomes(p, "UNKNOWN") /\ Onward /\ UNCHANGED applied
  <1>1. /\ action[p].status = "RUNNING"
        /\ action' = [action EXCEPT ![p].status = "UNKNOWN", ![p].claim = None, ![p].lease = "none"]
        /\ UNCHANGED <<pc, job, applied>>
    BY DEF GiveUpLapsed, Executor!ClaimLapsed, Executor!Ended, Executor!handlerVars,
           Executor!gmailVars
  <1>2. Becomes(p, "UNKNOWN")
    BY <1>1, ExecutorTypes DEF Executing, Becomes
  <1> QED  BY <1>1, <1>2 DEF InFlight, Onward

LEMMA CompleteEnds ==
  ASSUME Executing, NEW h \in Handlers, CompleteAction(h)
  PROVE  /\ Onward /\ UNCHANGED applied /\ job[h] \in Proposals
         /\ \/ action' = action
            \/ action' # action /\ InFlight(job[h]) /\ Becomes(job[h], "SUCCEEDED")
  <1> USE DEF Executor!rowVars, Executor!taskVars, Executor!handlerVars, Executor!gmailVars,
              Executor!FailWith, Executor!Idle, Executor!Working
  <1>1. pc[h] = "applied" /\ job[h] \in Proposals /\ UNCHANGED applied
    BY DEF CompleteAction, Executor!Complete, Executing
  <1>2. \/ action' = action
        \/ action' = Executor!Ended(job[h], "SUCCEEDED") /\ action[job[h]].status = "RUNNING"
    BY DEF CompleteAction, Executor!Complete, Executor!Holds
  <1>3. \/ job' = job /\ pc' = [pc EXCEPT ![h] = "failing"]
        \/ job' = [job EXCEPT ![h] = None] /\ pc' = [pc EXCEPT ![h] = "idle"]
    BY DEF CompleteAction, Executor!Complete
  <1>4. Onward
    BY <1>1, <1>3, ExecutorTypes DEF Executing, Onward
  <1>5. action' = Executor!Ended(job[h], "SUCCEEDED") => Becomes(job[h], "SUCCEEDED")
    BY <1>1, ExecutorTypes DEF Executing, Becomes, Executor!Ended
  <1> QED  BY <1>1, <1>2, <1>4, <1>5 DEF InFlight

LEMMA FinishEnds ==
  ASSUME Executing, NEW h \in Handlers, FinishAction(h)
  PROVE  /\ Onward /\ UNCHANGED applied /\ job[h] \in Proposals
         /\ Executor!Finishes(h) /\ verdict[h] # "release" =>
              /\ InFlight(job[h])
              /\ Becomes(job[h], IF verdict[h] = "unknown" THEN "UNKNOWN" ELSE "FAILED")
         /\ ~(Executor!Finishes(h) /\ verdict[h] # "release") => StatusesRest
  <1> USE DEF Executor!taskVars, Executor!gmailVars, Executor!Idle, Executor!Working
  <1>1. /\ pc[h] = "failing" /\ job[h] \in Proposals /\ UNCHANGED applied
        /\ verdict[h] \in {"release", "validation", "unavailable", "unknown"}
    BY DEF FinishAction, Executor!Finish, Executing
  <1>2. action' = IF Executor!Finishes(h)
                    THEN Executor!Ended(job[h], Executor!OutcomeOf[verdict[h]]) ELSE action
    BY DEF FinishAction, Executor!Finish
  <1>3. job' = [job EXCEPT ![h] = None] /\ pc' = [pc EXCEPT ![h] = "idle"]
    BY DEF FinishAction, Executor!Finish
  <1>4. Onward
    BY <1>3, ExecutorTypes DEF Executing, Onward
  <1>5. Executor!OutcomeOf[verdict[h]] = CASE verdict[h] = "release" -> "QUEUED"
                                           [] verdict[h] = "unknown" -> "UNKNOWN"
                                           [] OTHER -> "FAILED"
    BY <1>1 DEF Executor!OutcomeOf
  <1>6. Executor!Finishes(h) => action[job[h]].status = "RUNNING"
    BY DEF Executor!Finishes, Executor!Holds
  <1>7. ASSUME Executor!Finishes(h) PROVE Becomes(job[h], Executor!OutcomeOf[verdict[h]])
    BY <1>1, <1>2, <1>7, ExecutorTypes DEF Executing, Becomes, Executor!Ended
  <1>8. ~Executor!Finishes(h) => StatusesRest
    BY <1>2 DEF StatusesRest
  <1>9. Executor!Finishes(h) /\ verdict[h] = "release" => StatusesRest
    BY <1>5, <1>6, <1>7 DEF StatusesRest, Becomes
  <1> QED  BY <1>1, <1>4, <1>5, <1>6, <1>7, <1>8, <1>9 DEF InFlight

-----------------------------------------------------------------------------
(* What is mailed stays granted, with the content it had.                  *)
LEMMA SentStays ==
  ASSUME DecisionInv, DecisionInv', RowsKept, SentOK, SentWasApproved, UNCHANGED sent
  PROVE  SentOK' /\ SentWasApproved'
  <1>1. SentOK'
    BY DEF SentOK
  <1>2. ASSUME NEW d \in Drafts, NEW m \in sent[d]
        PROVE  /\ approval'[Send(d, m[1])].status = "GRANTED"
               /\ m[2] \in {proposal'[Send(d, m[1])].content, "raced"}
    <2> DEFINE s == Send(d, m[1])
    <2>1. s \in Sends
      BY IdsMade DEF SentOK
    <2>2. approval[s].status = "GRANTED" /\ m[2] \in {proposal[s].content, "raced"}
      BY DEF SentWasApproved
    <2>3. action[s].status # "ABSENT" /\ proposal[s].status # "ABSENT" /\ s \in Proposals
      BY <2>1, <2>2, SendIs DEF DecisionInv, ApprovalsAgree
    <2>4. action'[s].status # "ABSENT" /\ proposal'[s].content = proposal[s].content
      BY <2>3 DEF RowsKept
    <2> QED  BY <2>1, <2>2, <2>4 DEF DecisionInv, ApprovalsAgree
  <1>3. SentWasApproved'
    BY <1>2 DEF SentWasApproved
  <1> QED  BY <1>1, <1>3

(* A step of the tables, or of a handler that moves on, seen from the      *)
(* mailbox.                                                                *)
LEMMA MailRests ==
  ASSUME DecisionInv, DecisionInv', MailInv, Executing, RowsKept, Onward,
         UNCHANGED <<gmail, sent, applied>>
  PROVE  MailInv'
  <1> USE DEF MailInv
  <1>1. GmailOK'
    BY DEF GmailOK
  <1>2. SentOK' /\ SentWasApproved'
    BY SentStays
  <1>3. JobsQueued'
    BY ExecutorTypes DEF Executing, JobsQueued, Onward, RowsKept
  <1>4. SenderKnows'
    <2> SUFFICES ASSUME NEW h \in Handlers, pc'[h] \in {"checked", "calling"}, job'[h] \in Sends
                 PROVE  gmail[Draft(job[h])] \in {proposal'[job[h]].content, "raced", "none",
                                                  "removed"} /\ job'[h] = job[h]
      BY DEF SenderKnows
    <2>1. pc[h] \in {"checked", "calling"} /\ job'[h] = job[h]
      BY DEF Onward
    <2>2. job[h] # None /\ job[h] \in Proposals
      BY <2>1, SendIs, NoneAssumption
    <2>3. proposal'[job[h]].content = proposal[job[h]].content
      <3>1. action[job[h]].status # "ABSENT"
        BY <2>2 DEF JobsQueued
      <3>2. proposal[job[h]].status # "ABSENT"
        BY <2>1, <3>1 DEF DecisionInv, ApprovalsAgree
      <3> QED  BY <2>2, <3>2 DEF RowsKept
    <2> QED  BY <2>1, <2>3 DEF SenderKnows
  <1>5. SentOnce'
    BY DEF SentOnce
  <1> QED  BY <1>1, <1>2, <1>3, <1>4, <1>5

(* A step that changes neither tables nor statuses keeps both halves.      *)
LEMMA QuietStep ==
  ASSUME DecisionInv, MailInv, Executing, StatusesRest, Onward,
         UNCHANGED decisionVars, UNCHANGED <<gmail, sent, applied>>
  PROVE  DecisionInv' /\ MailInv'
  <1>1. DecisionInv' /\ RowsKept
    BY DecisionsRest DEF decisionVars, DecisionInv, TablesOK
  <1> QED  BY <1>1, MailRests DEF decisionVars

LEMMA ClaimKeeps ==
  ASSUME DecisionInv, MailInv, Executing, NEW h \in Handlers, NEW p \in Proposals, Claim(h, p)
  PROVE  DecisionInv' /\ MailInv'
  <1>1. UNCHANGED decisionVars /\ UNCHANGED <<gmail, sent, applied>> /\ StatusesRest
    BY ClaimRests DEF Claim, mailVars
  <1>2. DecisionInv' /\ RowsKept
    BY <1>1, DecisionsRest DEF decisionVars, DecisionInv, TablesOK
  <1> USE <1>1, <1>2 DEF MailInv
  <1>3. GmailOK' /\ SentOK' /\ SentWasApproved' /\ SentOnce'
    BY SentStays DEF GmailOK, SentOnce
  <1>4. JobsQueued'
    BY ClaimRests, ExecutorTypes DEF Executing, JobsQueued, RowsKept
  <1>5. SenderKnows'
    BY ClaimRests DEF SenderKnows, decisionVars
  <1> QED  BY <1>3, <1>4, <1>5

LEMMA CheckKeeps ==
  ASSUME DecisionInv, MailInv, Executing, NEW h \in Handlers, CheckDraft(h)
  PROVE  DecisionInv' /\ MailInv'
  <1>1. UNCHANGED decisionVars /\ UNCHANGED <<gmail, sent, applied>> /\ StatusesRest
        /\ UNCHANGED job
    BY CheckRests DEF CheckDraft, mailVars
  <1>2. DecisionInv' /\ RowsKept
    BY <1>1, DecisionsRest DEF decisionVars, DecisionInv, TablesOK
  <1> USE <1>1, <1>2 DEF MailInv
  <1>3. GmailOK' /\ SentOK' /\ SentWasApproved' /\ SentOnce'
    BY SentStays DEF GmailOK, SentOnce
  <1>4. JobsQueued'
    BY ExecutorTypes DEF Executing, JobsQueued, RowsKept
  <1>5. SenderKnows'
    BY CheckRests DEF SenderKnows, decisionVars, Matches
  <1> QED  BY <1>3, <1>4, <1>5

(* The user's hand.                                                        *)
LEMMA EditKeeps ==
  ASSUME DecisionInv, MailInv, Executing, NEW d \in Drafts, EditInGmail(d)
  PROVE  DecisionInv' /\ MailInv'
  <1>1. UNCHANGED <<executorVars, decisionVars, sent>>
    BY DEF EditInGmail
  <1>2. /\ gmail' = [gmail EXCEPT ![d] = IF Racing(d) THEN "raced" ELSE "edited"]
    BY DEF EditInGmail
  <1>3. StatusesRest
    BY <1>1 DEF executorVars, StatusesRest
  <1>4. DecisionInv' /\ RowsKept
    BY <1>1, <1>3, DecisionsRest DEF decisionVars, DecisionInv, TablesOK
  <1> USE DEF MailInv
  <1>5. GmailOK'
    BY <1>2 DEF GmailOK
  <1>6. SentOK' /\ SentWasApproved' /\ SentOnce' /\ JobsQueued'
    BY <1>1, <1>4, SentStays DEF SentOnce, JobsQueued, executorVars
  <1>7. SenderKnows'
    <2> SUFFICES ASSUME NEW h \in Handlers, pc[h] \in {"checked", "calling"}, job[h] \in Sends
                 PROVE  gmail'[Draft(job[h])] \in {proposal[job[h]].content, "raced", "none",
                                                   "removed"}
      BY <1>1 DEF SenderKnows, executorVars, decisionVars
    <2>1. Draft(job[h]) = d => Racing(d)
      BY DEF Racing
    <2>2. Draft(job[h]) \in Drafts
      BY SendIs, Ids
    <2> QED  BY <1>2, <2>1, <2>2 DEF SenderKnows, GmailOK
  <1> QED  BY <1>4, <1>5, <1>6, <1>7

LEMMA RemoveKeeps ==
  ASSUME DecisionInv, MailInv, Executing, NEW d \in Drafts, RemoveInGmail(d)
  PROVE  DecisionInv' /\ MailInv'
  <1>1. UNCHANGED <<executorVars, decisionVars, sent>>
    BY DEF RemoveInGmail, Executor!RemoveDrafts, executorVars, Executor!rowVars,
           Executor!taskVars, Executor!handlerVars
  <1>2. gmail' = [gmail EXCEPT ![d] = "removed"]
    BY DEF RemoveInGmail
  <1>3. StatusesRest
    BY <1>1 DEF executorVars, StatusesRest
  <1>4. DecisionInv' /\ RowsKept
    BY <1>1, <1>3, DecisionsRest DEF decisionVars, DecisionInv, TablesOK
  <1> USE DEF MailInv
  <1>5. GmailOK'
    BY <1>2 DEF GmailOK
  <1>6. SentOK' /\ SentWasApproved' /\ SentOnce' /\ JobsQueued'
    BY <1>1, <1>4, SentStays DEF SentOnce, JobsQueued, executorVars
  <1>7. SenderKnows'
    <2> SUFFICES ASSUME NEW h \in Handlers, pc[h] \in {"checked", "calling"}, job[h] \in Sends
                 PROVE  gmail'[Draft(job[h])] \in {proposal[job[h]].content, "raced", "none",
                                                   "removed"}
      BY <1>1 DEF SenderKnows, executorVars, decisionVars
    <2>1. Draft(job[h]) \in Drafts
      BY SendIs, Ids
    <2> QED  BY <1>2, <2>1 DEF SenderKnows, GmailOK
  <1> QED  BY <1>4, <1>5, <1>6, <1>7

-----------------------------------------------------------------------------
(* No create or update of a draft is at work, or uncertain, while a send   *)
(* of the draft is.                                                        *)
LEMMA NoneBeside ==
  ASSUME DecisionInv, NEW p \in Creates \union Updates, action[p].status \in {"RUNNING", "UNKNOWN"},
         NEW s \in Sends, action[s].status # "ABSENT"
  PROVE  Draft(s) # Draft(p)
  <1> SUFFICES ASSUME Draft(s) = Draft(p) PROVE FALSE
    OBVIOUS
  <1> USE DEF DecisionInv
  <1>1. approval[s].status = "GRANTED" /\ managed[Draft(p)].active = Version(s)
    BY DEF ApprovalsAgree, ActiveIsNewest
  <1>2. p \in Proposals /\ Draft(p) \in Drafts /\ Version(s) # 0
    BY Ids, SendIs, VersionAssumption DEF Versions
  <1>3. CASE p \in Creates
    <2>1. managed[Draft(p)].status = "ABSENT"
      BY <1>2, <1>3, Ids DEF ActiveIsNewest
    <2> QED  BY <1>1, <1>2, <2>1 DEF ActiveIsNewest
  <1>4. CASE p \in Updates
    <2>1. p \notin Creates
      BY <1>2, <1>4, Ids
    <2>2. managed[Draft(p)].active = Version(p)
      BY <1>2, <2>1 DEF BusyAgrees, InFlight
    <2>3. Replacing(p) = s
      BY <1>1, <2>2, SendIs DEF Replacing
    <2> QED  BY <1>1, <1>2, <1>4, <2>3 DEF ReplacedStays, Replacing
  <1> QED  BY <1>3, <1>4

(* The one send of a draft: the mailbox holds what was approved, or what   *)
(* the user's own hand put there last.                                     *)
LEMMA SendOnce ==
  ASSUME DecisionInv, MailInv, Executing, NEW h \in Handlers, pc[h] = "calling",
         job[h] \in Sends \ Missing, gmail[Draft(job[h])] # "none"
  PROVE  /\ approval[job[h]].status = "GRANTED"
         /\ gmail[Draft(job[h])] \in {proposal[job[h]].content, "raced"}
         /\ sent[Draft(job[h])] = {}
         /\ action[job[h]].status # "ABSENT"
  <1> DEFINE s == job[h]
             d == Draft(s)
  <1>1. /\ s \in Sends /\ s \in Proposals /\ s \notin Creates /\ d \in Drafts
        /\ s = Send(d, Version(s))
    BY SendIs, Ids
  <1>2. action[s].status # "ABSENT" /\ applied[s] = 0
    BY DEF Executing
  <1>3. approval[s].status = "GRANTED" /\ managed[d].active = Version(s)
    BY <1>1, <1>2 DEF DecisionInv, ApprovalsAgree, ActiveIsNewest
  <1>4. gmail[d] # "removed"
    BY <1>1 DEF Missing
  <1>5. gmail[d] \in {proposal[s].content, "raced"}
    BY <1>1, <1>4 DEF MailInv, SenderKnows
  <1>6. ASSUME NEW m \in sent[d] PROVE FALSE
    <2>1. Send(d, m[1]) \in Sends /\ Draft(Send(d, m[1])) = d /\ Version(Send(d, m[1])) = m[1]
      BY <1>1, IdsMade DEF MailInv, SentOK
    <2>2. approval[Send(d, m[1])].status = "GRANTED"
      BY <1>1 DEF MailInv, SentWasApproved
    <2>3. m[1] = Version(s)
      BY <1>3, <2>1, <2>2 DEF DecisionInv, ActiveIsNewest
    <2>4. applied[Send(d, m[1])] > 0
      BY <1>1 DEF MailInv, SentOnce
    <2> QED  BY <1>1, <1>2, <2>3, <2>4
  <1> QED  BY <1>2, <1>3, <1>5, <1>6

(* The call to Gmail.                                                      *)
LEMMA CallKeeps ==
  ASSUME DecisionInv, MailInv, Executing, NEW h \in Handlers, CallGmail(h)
  PROVE  DecisionInv' /\ MailInv'
  <1>1. StatusesRest /\ Onward /\ pc[h] = "calling" /\ job[h] \in Proposals
    BY CallRests
  <1>2. UNCHANGED decisionVars
    BY DEF CallGmail
  <1>3. DecisionInv' /\ RowsKept
    BY <1>1, <1>2, DecisionsRest DEF decisionVars, DecisionInv, TablesOK
  <1>4. CASE UNCHANGED <<gmail, sent, applied>>
    BY <1>1, <1>2, <1>4, QuietStep
  <1>5. CASE /\ Mutate(job[h]) /\ job[h] \notin Missing
             /\ applied' = [applied EXCEPT ![job[h]] = @ + 1]
    <2> DEFINE p == job[h]
               d == Draft(p)
    <2>1. d \in Drafts /\ p \in Proposals /\ action[p].status \in {"RUNNING", "UNKNOWN"}
      BY <1>1, Ids DEF Executing
    <2>2. /\ applied' \in [Proposals -> Nat]
          /\ applied'[p] > 0 /\ \A q \in Proposals : applied'[q] >= applied[q]
      BY <1>1, <1>5, ExecutorTypes DEF Executing
    <2>3. /\ p \in Creates \union Updates => gmail' = [gmail EXCEPT ![d] = proposal[p].content]
          /\ p \in Sends \union Deletes =>
               gmail' = [gmail EXCEPT ![d] = "none"] /\ gmail[d] # "none"
          /\ p \notin Sends => UNCHANGED sent
          /\ p \in Sends => sent' = [sent EXCEPT ![d] = @ \union {<<Version(p), gmail[d]>>}]
      BY <1>1, <1>5, Ids DEF Mutate
    <2>4. p \in Creates \union Updates \/ p \in Sends \union Deletes
      BY <2>1 DEF Proposals
    <2> HIDE DEF d, p
    <2>5. GmailOK'
      <3>1. proposal[p].content \in Contents \union {"none"}
        BY <2>1 DEF DecisionInv, TablesOK, ProposalRow
      <3> QED  BY <2>3, <2>4, <3>1 DEF MailInv, GmailOK
    <2>6. JobsQueued'
      BY <1>1, <1>3, ExecutorTypes DEF Executing, MailInv, JobsQueued, Onward, RowsKept
    <2>7. SenderKnows'
      <3> SUFFICES ASSUME NEW g \in Handlers, pc'[g] \in {"checked", "calling"}, job'[g] \in Sends
                   PROVE  gmail'[Draft(job'[g])] \in {proposal'[job'[g]].content, "raced", "none",
                                                      "removed"}
        BY DEF SenderKnows
      <3>1. /\ pc[g] \in {"checked", "calling"} /\ job'[g] = job[g] /\ proposal' = proposal
            /\ job[g] \in Sends
        BY <1>1, <1>2 DEF Onward, decisionVars
      <3>2. action[job[g]].status # "ABSENT" /\ Draft(job[g]) \in Drafts
        BY <3>1, SendIs, Ids, NoneAssumption DEF MailInv, JobsQueued
      <3>3. gmail[Draft(job[g])] \in {proposal[job[g]].content, "raced", "none", "removed"}
        BY <3>1 DEF MailInv, SenderKnows
      <3>4. p \in Creates \union Updates => Draft(job[g]) # d
        BY <2>1, <3>1, <3>2, NoneBeside DEF d
      <3>5. gmail'[Draft(job[g])] \in {gmail[Draft(job[g])], "none"}
        BY <2>3, <2>4, <3>2, <3>4 DEF MailInv, GmailOK
      <3> QED  BY <3>1, <3>3, <3>5
    <2>8. SentOK' /\ SentWasApproved' /\ SentOnce'
      <3>1. CASE p \notin Sends
        <4>1. SentOK' /\ SentWasApproved'
          BY <1>3, <2>3, <3>1, SentStays DEF MailInv
        <4>2. SentOnce'
          <5> SUFFICES ASSUME NEW e \in Drafts
                       PROVE  /\ \A m \in sent[e] : applied'[Send(e, m[1])] > 0
                              /\ \A m, n \in sent[e] : m = n
            BY <2>3, <3>1 DEF SentOnce
          <5>1. \A m \in sent[e] : Send(e, m[1]) \in Proposals /\ applied[Send(e, m[1])] > 0
            BY IdsMade, SendIs DEF MailInv, SentOK, SentOnce
          <5>2. \A m \in sent[e] : applied[Send(e, m[1])] \in Nat /\ applied'[Send(e, m[1])] \in Nat
            BY <2>2, <5>1, ExecutorTypes DEF Executing
          <5> QED  BY <2>2, <5>1, <5>2 DEF MailInv, SentOnce
        <4> QED  BY <4>1, <4>2
      <3>2. CASE p \in Sends
        <4>1. /\ approval[p].status = "GRANTED" /\ gmail[d] \in {proposal[p].content, "raced"}
              /\ sent[d] = {}
          BY <1>1, <1>5, <2>3, <3>2, SendOnce DEF d, p
        <4>2. /\ Version(p) \in Versions /\ p = Send(d, Version(p))
              /\ proposal[p].content \in Contents
          <5>1. proposal[p].status # "ABSENT"
            BY <3>2, <4>1 DEF DecisionInv, ApprovalsAgree
          <5> QED  BY <2>1, <3>2, <5>1, SendIs, Ids DEF DecisionInv, RowsAgree, d
        <4>3. \A e \in Drafts : \A m \in sent'[e] :
                \/ m \in sent[e] /\ e # d
                \/ e = d /\ m = <<Version(p), gmail[d]>>
          <5>1. sent' = [sent EXCEPT ![d] = {<<Version(p), gmail[d]>>}]
            BY <2>3, <3>2, <4>1
          <5> QED  BY <2>1, <5>1 DEF MailInv, SentOK
        <4>4. SentOK'
          <5>1. <<Version(p), gmail[d]>> \in Versions \X (Contents \union {"edited", "raced"})
            BY <4>1, <4>2
          <5>2. sent \in [Drafts -> SUBSET (Versions \X (Contents \union {"edited", "raced"}))]
            BY DEF MailInv, SentOK
          <5>3. {<<Version(p), gmail[d]>>}
                  \in SUBSET (Versions \X (Contents \union {"edited", "raced"}))
            BY <5>1
          <5>4. sent' = [sent EXCEPT ![d] = {<<Version(p), gmail[d]>>}]
            BY <2>3, <3>2, <4>1
          <5> QED  BY <5>2, <5>3, <5>4 DEF SentOK
        <4>5. SentWasApproved'
          <5> SUFFICES ASSUME NEW e \in Drafts, NEW m \in sent'[e]
                       PROVE  /\ approval[Send(e, m[1])].status = "GRANTED"
                              /\ m[2] \in {proposal[Send(e, m[1])].content, "raced"}
            BY <1>2 DEF SentWasApproved, decisionVars
          <5> QED  BY <4>1, <4>2, <4>3 DEF MailInv, SentWasApproved
        <4>6. SentOnce'
          <5> SUFFICES ASSUME NEW e \in Drafts
                       PROVE  /\ \A m \in sent'[e] : applied'[Send(e, m[1])] > 0
                              /\ \A m, n \in sent'[e] : m = n
            BY DEF SentOnce
          <5>1. CASE e = d
            BY <2>2, <4>2, <4>3, <5>1
          <5>2. CASE e # d
            <6>1. \A m \in sent'[e] : m \in sent[e]
              BY <4>3, <5>2
            <6>2. \A m \in sent[e] : Send(e, m[1]) \in Proposals /\ applied[Send(e, m[1])] > 0
              BY IdsMade, SendIs DEF MailInv, SentOK, SentOnce
            <6>3. \A m \in sent[e] :
                    applied[Send(e, m[1])] \in Nat /\ applied'[Send(e, m[1])] \in Nat
              BY <2>2, <6>2, ExecutorTypes DEF Executing
            <6> QED  BY <2>2, <6>1, <6>2, <6>3 DEF MailInv, SentOnce
          <5> QED  BY <5>1, <5>2
        <4> QED  BY <4>4, <4>5, <4>6
      <3> QED  BY <3>1, <3>2
    <2> QED  BY <1>3, <2>5, <2>6, <2>7, <2>8 DEF MailInv
  <1> QED  BY <1>4, <1>5, CallRests

-----------------------------------------------------------------------------
(* A revision is only taken up while another version may follow.           *)
UpdatesFit == \A d \in Drafts : managed[d].status = "UPDATING" => managed[d].active < MaxVersion

LEMMA FitKeeps ==
  ASSUME TablesOK, UpdatesFit, NEW p \in Proposals, NEW st \in ManagedStatus,
         st = "UPDATING" => p \in Updates, managed' = ManagedAs(p, st)
  PROVE  UpdatesFit'
  <1>1. HasManaged(p) => managed[Draft(p)].active = Version(p)
    BY DEF HasManaged
  <1>2. p \in Updates => Version(p) < MaxVersion
    BY Ids, VersionAssumption
  <1> QED  BY <1>1, <1>2, ManagedAsIs DEF UpdatesFit

LEMMA FitStep ==
  ASSUME TablesOK, Executing, UpdatesFit, [DraftNext]_draftVars
  PROVE  UpdatesFit'
  <1>1. CASE UNCHANGED managed
    BY <1>1 DEF UpdatesFit
  <1>2. ASSUME NEW s \in Sends, Grant(s) PROVE UpdatesFit'
    BY <1>2, FitKeeps, SendIs DEF Grant, ManagedStatus
  <1>3. ASSUME NEW s \in Sends, Discard(s) PROVE UpdatesFit'
    <2>1. Delete(Draft(s), Version(s)) \in Proposals
      BY SendIs, Ids, IdsMade
    <2> QED  BY <1>3, <2>1, FitKeeps DEF Discard, ManagedStatus
  <1>4. ASSUME NEW s \in Sends, NEW c \in Contents, CompleteRevision(s, c) PROVE UpdatesFit'
    <2>1. Update(Draft(s), Version(s)) \in Updates
      BY <1>4, SendIs, Ids, IdsMade DEF CompleteRevision
    <2>2. Update(Draft(s), Version(s)) \in Proposals
      BY <2>1, Ids
    <2> QED  BY <1>4, <2>1, <2>2, FitKeeps DEF CompleteRevision, ManagedStatus
  <1>5. ASSUME NEW h \in Handlers, NEW p \in Proposals, GiveUpLapsed(h, p) PROVE UpdatesFit'
    BY <1>5, FitKeeps DEF GiveUpLapsed, ManagedStatus
  <1>6. ASSUME NEW h \in Handlers, CompleteAction(h), managed' # managed PROVE UpdatesFit'
    <2>1. Completed(job[h]) /\ job[h] \in Proposals
      BY <1>6, CompleteEnds DEF CompleteAction
    <2>2. CASE job[h] \in Creates \union Updates
      BY <2>1, <2>2 DEF Completed, UpdatesFit, TablesOK
    <2>3. CASE job[h] \notin Creates \union Updates
      BY <2>1, <2>3, FitKeeps DEF Completed, ManagedStatus
    <2> QED  BY <2>2, <2>3
  <1>7. ASSUME NEW h \in Handlers, FinishAction(h), managed' # managed PROVE UpdatesFit'
    BY <1>7, FinishEnds, FitKeeps DEF FinishAction, ManagedStatus
  <1>8. CASE UNCHANGED draftVars
    BY <1>1, <1>8 DEF draftVars, decisionVars
  <1>9. CASE DraftNext /\ managed' # managed
    <2>1. ASSUME UserStep PROVE UpdatesFit'
      BY <1>2, <1>3, <1>4, <1>9, <2>1
         DEF UserStep, OpenRevision, PressExpired, ExpireRevision, TimePasses, EditInGmail,
             RemoveInGmail, ProposeDraft, decisionVars
    <2>2. ASSUME NEW h \in Handlers, HandlerStep(h) PROVE UpdatesFit'
      BY <1>6, <1>7, <1>9, <2>2
         DEF HandlerStep, Load, CheckDraft, CrossBoundary, CallGmail, Undisturbed, decisionVars
    <2> QED  BY <1>5, <1>9, <2>1, <2>2 DEF DraftNext, Schedule, Claim, decisionVars
  <1> QED  BY <1>1, <1>8, <1>9

(* A send has succeeded exactly while the managed row says SENT.           *)
SentIsDone ==
  \A s \in Sends :
    action[s].status = "SUCCEEDED" <=>
      managed[Draft(s)].active = Version(s) /\ managed[Draft(s)].status = "SENT"

SendsRest ==
  \A s \in Sends : action'[s].status = "SUCCEEDED" <=> action[s].status = "SUCCEEDED"

LEMMA DoneRests ==
  ASSUME SentIsDone, UNCHANGED managed, StatusesRest \/ SendsRest
  PROVE  SentIsDone'
  BY SendIs DEF SentIsDone, StatusesRest, SendsRest

LEMMA DoneKeeps ==
  ASSUME TablesOK, SentIsDone, NEW p \in Proposals, NEW st \in ManagedStatus,
         managed' = ManagedAs(p, st),
         HasManaged(p) => managed[Draft(p)].status # "SENT",
         \A s \in Sends : s # p =>
           (action'[s].status = "SUCCEEDED" <=> action[s].status = "SUCCEEDED"),
         p \in Sends => HasManaged(p) /\ (action'[p].status = "SUCCEEDED" <=> st = "SENT"),
         p \notin Sends => st # "SENT"
  PROVE  SentIsDone'
  <1> SUFFICES ASSUME NEW s \in Sends
               PROVE  action'[s].status = "SUCCEEDED" <=>
                        managed'[Draft(s)].active = Version(s) /\ managed'[Draft(s)].status = "SENT"
    BY DEF SentIsDone
  <1>1. /\ Draft(p) \in Drafts /\ Draft(s) \in Drafts
        /\ managed'[Draft(s)].active = managed[Draft(s)].active
      BY Ids, SendIs, ManagedAsIs
  <1>2. CASE Draft(s) # Draft(p) \/ ~HasManaged(p)
    <2>1. managed'[Draft(s)] = managed[Draft(s)] /\ s # p
      BY <1>1, <1>2, ManagedAsIs
    <2> QED  BY <2>1 DEF SentIsDone
  <1>3. CASE Draft(s) = Draft(p) /\ HasManaged(p)
    <2>1. /\ managed[Draft(s)].active = Version(p) /\ managed[Draft(s)].status # "SENT"
          /\ managed'[Draft(s)].status = st
      BY <1>3, ManagedAsIs DEF HasManaged
    <2>2. CASE s = p
      BY <1>1, <2>1, <2>2
    <2>3. CASE s # p
      <3>1. p \in Sends => Version(s) # Version(p)
        BY <1>3, <2>3, SendIs
      <3> QED  BY <1>1, <2>1, <2>3, <3>1 DEF SentIsDone
    <2> QED  BY <2>2, <2>3
  <1> QED  BY <1>2, <1>3

LEMMA EndDone ==
  ASSUME DecisionInv, SentIsDone, NEW p \in Proposals, InFlight(p),
         NEW o \in {"SUCCEEDED", "FAILED", "UNKNOWN"}, Becomes(p, o),
         NEW st \in ManagedStatus, managed' = ManagedAs(p, st),
         st = "SENT" <=> p \in Sends /\ o = "SUCCEEDED"
  PROVE  SentIsDone'
  <1>1. p \notin Creates =>
          managed[Draft(p)].active = Version(p) /\ managed[Draft(p)].status = BusyAs(p)
    BY DEF DecisionInv, BusyAgrees
  <1>2. BusyAs(p) \notin {"SENT", "ABSENT"}
    BY DEF BusyAs
  <1>3. p \in Sends => HasManaged(p)
    BY <1>1, <1>2, SendIs DEF HasManaged
  <1>4. HasManaged(p) => managed[Draft(p)].status # "SENT"
    BY <1>1, <1>2 DEF HasManaged
  <1>5. \A s \in Sends : s # p =>
          (action'[s].status = "SUCCEEDED" <=> action[s].status = "SUCCEEDED")
    BY SendIs DEF Becomes
  <1>6. TablesOK /\ (action'[p].status = "SUCCEEDED" <=> o = "SUCCEEDED")
    BY DEF Becomes, DecisionInv
  <1> QED  BY <1>3, <1>4, <1>5, <1>6, DoneKeeps

LEMMA UserDone ==
  ASSUME DecisionInv, Executing, SentIsDone, UserStep
  PROVE  SentIsDone'
  <1>1. \A p \in Proposals : Becomes(p, "QUEUED") /\ action[p].status = "ABSENT" =>
          /\ SendsRest
          /\ \A s \in Sends : action'[s].status = "SUCCEEDED" <=> action[s].status = "SUCCEEDED"
    BY SendIs DEF Becomes, SendsRest
  <1>2. ASSUME NEW s \in Sends, Grant(s) PROVE SentIsDone'
    <2>1. s \in Proposals /\ HasManaged(s) /\ managed[Draft(s)].status # "SENT"
      BY <1>2, SendIs, PendingFacts DEF Grant, Decided, Current
    <2>2. Becomes(s, "QUEUED") /\ action[s].status = "ABSENT"
      BY <1>2, <2>1, QueueIs DEF Grant, Executing
    <2>3. managed' = ManagedAs(s, "SENDING") /\ "SENDING" \in ManagedStatus
      BY <1>2 DEF Grant, ManagedStatus
    <2>4. action'[s].status # "SUCCEEDED"
      BY <2>2 DEF Becomes
    <2> QED  BY <1>1, <2>1, <2>2, <2>3, <2>4, DoneKeeps DEF DecisionInv
  <1>3. ASSUME NEW s \in Sends, Discard(s) PROVE SentIsDone'
    <2>1. PICK p \in Proposals : p = Delete(Draft(s), Version(s))
      BY SendIs, Ids, IdsMade
    <2>2. p \notin Sends /\ Draft(p) = Draft(s)
      BY <2>1, SendIs, Ids, IdsMade
    <2>3. managed[Draft(p)].status # "SENT"
      BY <1>3, <2>2, PendingFacts DEF Discard
    <2>4. Becomes(p, "QUEUED") /\ action[p].status = "ABSENT"
      BY <1>3, <2>1, QueueIs DEF Discard, Executing
    <2>5. managed' = ManagedAs(p, "DELETING") /\ "DELETING" \in ManagedStatus
      BY <1>3, <2>1 DEF Discard, ManagedStatus
    <2> QED  BY <1>1, <2>2, <2>3, <2>4, <2>5, DoneKeeps DEF DecisionInv
  <1>4. ASSUME NEW s \in Sends, NEW c \in Contents, CompleteRevision(s, c) PROVE SentIsDone'
    <2>1. PICK p \in Proposals : p = Update(Draft(s), Version(s))
      BY <1>4, SendIs, Ids, IdsMade DEF CompleteRevision
    <2>2. p \notin Sends /\ Draft(p) = Draft(s)
      BY <1>4, <2>1, SendIs, Ids, IdsMade DEF CompleteRevision
    <2>3. managed[Draft(p)].status # "SENT"
      BY <1>4, <2>2 DEF CompleteRevision, Current, HasManaged, DecisionInv, OpenIsReady, Open
    <2>4. Becomes(p, "QUEUED") /\ action[p].status = "ABSENT"
      BY <1>4, <2>1, QueueIs DEF CompleteRevision, Executing
    <2>5. managed' = ManagedAs(p, "UPDATING") /\ "UPDATING" \in ManagedStatus
      BY <1>4, <2>1 DEF CompleteRevision, ManagedStatus
    <2> QED  BY <1>1, <2>2, <2>3, <2>4, <2>5, DoneKeeps DEF DecisionInv
  <1>5. ASSUME NEW s \in Sends,
               OpenRevision(s) \/ PressExpired(s) \/ ExpireRevision(s) \/ TimePasses(s)
        PROVE  SentIsDone'
    <2>1. UNCHANGED <<action, managed>>
      BY <1>5 DEF OpenRevision, PressExpired, ExpireRevision, TimePasses, executorVars
    <2> QED  BY <2>1, DoneRests DEF SendsRest
  <1>6. ASSUME NEW d \in Drafts, NEW c \in Contents, ProposeDraft(d, c) PROVE SentIsDone'
    <2>1. PICK p \in Proposals : p = Create(d)
      BY Ids, IdsMade
    <2>2. Becomes(p, "QUEUED") /\ action[p].status = "ABSENT"
      BY <1>6, <2>1, QueueIs DEF ProposeDraft, Executing
    <2>3. SendsRest /\ UNCHANGED managed
      BY <1>1, <1>6, <2>2 DEF ProposeDraft
    <2> QED  BY <2>3, DoneRests
  <1>7. ASSUME NEW d \in Drafts, EditInGmail(d) \/ RemoveInGmail(d) PROVE SentIsDone'
    <2>1. UNCHANGED <<action, managed>>
      BY <1>7 DEF EditInGmail, RemoveInGmail, executorVars, decisionVars, Executor!RemoveDrafts,
                  Executor!rowVars
    <2> QED  BY <2>1, DoneRests DEF SendsRest
  <1> QED  BY <1>2, <1>3, <1>4, <1>5, <1>6, <1>7 DEF UserStep

LEMMA DoneStep ==
  ASSUME DecisionInv, Executing, SentIsDone, [DraftNext]_draftVars
  PROVE  SentIsDone'
  <1>1. ASSUME NEW p \in Proposals, Schedule(p) PROVE SentIsDone'
    BY <1>1, ScheduleRests, DoneRests DEF Schedule, decisionVars
  <1>2. ASSUME NEW h \in Handlers, NEW p \in Proposals, Claim(h, p) PROVE SentIsDone'
    BY <1>2, ClaimRests, DoneRests DEF Claim, decisionVars
  <1>3. ASSUME NEW h \in Handlers, NEW p \in Proposals, GiveUpLapsed(h, p) PROVE SentIsDone'
    <2>1. InFlight(p) /\ Becomes(p, "UNKNOWN") /\ managed' = ManagedAs(p, "UNKNOWN")
      BY <1>3, GiveUpEnds DEF GiveUpLapsed
    <2> QED  BY <2>1, EndDone DEF ManagedStatus
  <1>4. ASSUME NEW h \in Handlers,
               Load(h) \/ CheckDraft(h) \/ CrossBoundary(h) \/ CallGmail(h) \/ Undisturbed(h)
        PROVE  SentIsDone'
    <2>1. StatusesRest
      BY <1>4, MoveRests, CheckRests, CallRests
    <2>2. UNCHANGED managed
      BY <1>4 DEF Load, CheckDraft, CrossBoundary, CallGmail, Undisturbed, decisionVars
    <2> QED  BY <2>1, <2>2, DoneRests
  <1>5. ASSUME NEW h \in Handlers, CompleteAction(h) PROVE SentIsDone'
    <2>1. CASE action' = action
      BY <1>5, <2>1, DoneRests DEF CompleteAction, SendsRest
    <2>2. CASE action' # action
      <3>1. PICK p \in Proposals : p = job[h]
        BY <1>5, CompleteEnds
      <3>2. InFlight(p) /\ Becomes(p, "SUCCEEDED") /\ Completed(p)
        BY <1>5, <2>2, <3>1, CompleteEnds DEF CompleteAction
      <3>3. CASE p \notin Creates \union Updates
        BY <3>2, <3>3, EndDone DEF Completed, ManagedStatus
      <3>4. CASE p \in Creates \union Updates
        <4>1. Draft(p) \in Drafts /\ p \notin Sends
          BY <3>4, Ids
        <4>2. managed'[Draft(p)].status = "READY"
              /\ \A d \in Drafts : d # Draft(p) => managed'[d] = managed[d]
          BY <3>2, <3>4, <4>1 DEF Completed, DecisionInv, TablesOK
        <4>3. managed[Draft(p)].status # "SENT"
          BY <3>2, <3>4, <4>1, Ids
             DEF DecisionInv, ActiveIsNewest, BusyAgrees, BusyAs, InFlight
        <4>4. \A s \in Sends : action'[s].status = action[s].status
          BY <3>2, <4>1, SendIs DEF Becomes
        <4>5. \A s \in Sends : Draft(s) \in Drafts
          BY SendIs, Ids
        <4> QED  BY <4>2, <4>3, <4>4, <4>5 DEF SentIsDone
      <3> QED  BY <3>3, <3>4
    <2> QED  BY <2>1, <2>2
  <1>6. ASSUME NEW h \in Handlers, FinishAction(h) PROVE SentIsDone'
    <2>1. CASE ~(Executor!Finishes(h) /\ verdict[h] # "release")
      BY <1>6, <2>1, FinishEnds, DoneRests DEF FinishAction
    <2>2. CASE Executor!Finishes(h) /\ verdict[h] # "release"
      <3>1. PICK o \in {"UNKNOWN", "FAILED"} :
              o = IF verdict[h] = "unknown" THEN "UNKNOWN" ELSE "FAILED"
        OBVIOUS
      <3>2. PICK p \in Proposals : p = job[h]
        BY <1>6, FinishEnds
      <3>3. InFlight(p) /\ Becomes(p, o)
        BY <1>6, <2>2, <3>1, <3>2, FinishEnds
      <3>4. PICK st \in {"UNKNOWN", "READY"} : managed' = ManagedAs(p, st)
        BY <1>6, <2>2, <3>2 DEF FinishAction
      <3> QED  BY <3>3, <3>4, EndDone DEF ManagedStatus
    <2> QED  BY <2>1, <2>2
  <1>7. CASE UNCHANGED draftVars
    BY <1>7, DoneRests DEF draftVars, executorVars, decisionVars, SendsRest
  <1>8. CASE DraftNext
    BY <1>1, <1>2, <1>3, <1>4, <1>5, <1>6, <1>8, UserDone DEF DraftNext, HandlerStep
  <1> QED  BY <1>7, <1>8

(* What Gmail applied of a send, it sent.                                  *)
AppliedWasSent == \A s \in Sends : applied[s] > 0 => sent[Draft(s)] # {}

LEMMA AppliedStep ==
  ASSUME MailInv, Executing, AppliedWasSent, [DraftNext]_draftVars
  PROVE  AppliedWasSent'
  <1>1. ASSUME UNCHANGED <<applied, sent>> PROVE AppliedWasSent'
    BY <1>1 DEF AppliedWasSent
  <1>2. ASSUME NEW h \in Handlers, CallGmail(h), ~UNCHANGED <<applied, sent>>
        PROVE  AppliedWasSent'
    <2>1. PICK p \in Proposals : p = job[h]
      BY <1>2, CallRests
    <2>2. Mutate(p) /\ applied' = [applied EXCEPT ![p] = @ + 1]
      BY <1>2, <2>1, CallRests
    <2>3. Draft(p) \in Drafts /\ \A s \in Sends : Draft(s) \in Drafts /\ s \in Proposals
      BY Ids, SendIs
    <2>4. CASE p \in Sends
      <3>1. sent' = [sent EXCEPT ![Draft(p)] = @ \union {<<Version(p), gmail[Draft(p)]>>}]
        BY <2>2, <2>4, Ids, SendIs DEF Mutate
      <3>2. sent'[Draft(p)] # {} /\ \A d \in Drafts : d # Draft(p) => sent'[d] = sent[d]
        BY <2>3, <3>1 DEF MailInv, SentOK
      <3>3. \A s \in Sends : s # p => applied'[s] = applied[s]
        BY <2>2
      <3> QED  BY <2>3, <3>2, <3>3 DEF AppliedWasSent
    <2>5. CASE p \notin Sends
      <3>1. UNCHANGED sent
        BY <2>2, <2>5 DEF Mutate
      <3>2. \A s \in Sends : applied'[s] = applied[s]
        BY <2>2, <2>5
      <3> QED  BY <3>1, <3>2 DEF AppliedWasSent
    <2> QED  BY <2>4, <2>5
  <1>3. ASSUME NEW s \in Sends,
               \/ Grant(s) \/ OpenRevision(s) \/ Discard(s) \/ PressExpired(s)
               \/ ExpireRevision(s) \/ TimePasses(s)
               \/ \E c \in Contents : CompleteRevision(s, c)
        PROVE  UNCHANGED <<applied, sent>>
    BY <1>3 DEF Grant, OpenRevision, Discard, PressExpired, ExpireRevision, TimePasses,
                CompleteRevision, mailVars, executorVars, Executor!QueueAction, Executor!gmailVars
  <1>4. ASSUME NEW d \in Drafts,
               \/ EditInGmail(d) \/ RemoveInGmail(d)
               \/ \E c \in Contents : ProposeDraft(d, c)
        PROVE  UNCHANGED <<applied, sent>>
    BY <1>4 DEF EditInGmail, RemoveInGmail, ProposeDraft, mailVars, executorVars,
                Executor!QueueAction, Executor!RemoveDrafts, Executor!gmailVars
  <1>5. ASSUME NEW p \in Proposals, Schedule(p) PROVE UNCHANGED <<applied, sent>>
    BY <1>5, ScheduleRests DEF Schedule, mailVars
  <1>6. ASSUME NEW h \in Handlers, NEW p \in Proposals, Claim(h, p) \/ GiveUpLapsed(h, p)
        PROVE  UNCHANGED <<applied, sent>>
    BY <1>6, ClaimRests, GiveUpEnds DEF Claim, GiveUpLapsed, mailVars
  <1>7. ASSUME NEW h \in Handlers, HandlerStep(h), ~CallGmail(h)
        PROVE  UNCHANGED <<applied, sent>>
    BY <1>7, MoveRests, CheckRests, CompleteEnds, FinishEnds
       DEF HandlerStep, Load, CheckDraft, CrossBoundary, CompleteAction, FinishAction,
           Undisturbed, mailVars
  <1>8. CASE UNCHANGED draftVars
    BY <1>1, <1>8 DEF draftVars, executorVars, mailVars
  <1>9. CASE DraftNext
    BY <1>1, <1>2, <1>3, <1>4, <1>5, <1>6, <1>7, <1>9 DEF DraftNext, UserStep
  <1> QED  BY <1>8, <1>9

-----------------------------------------------------------------------------
(* The inductive invariant.                                                *)
DraftInv ==
  /\ EP!ExecutorInv
  /\ DecisionInv
  /\ MailInv
  /\ UpdatesFit
  /\ SentIsDone
  /\ AppliedWasSent

(* A step that queues an Action moves no handler.                          *)
LEMMA QueueStays ==
  ASSUME Executing, NEW p \in Proposals, Executor!QueueAction(p)
  PROVE  Onward /\ UNCHANGED applied
  BY DEF Executor!QueueAction, Executor!handlerVars, Executor!gmailVars, Onward

LEMMA DecisionStep ==
  ASSUME DecisionInv, MailInv, Executing, NEW s \in Sends,
         \/ Grant(s) \/ OpenRevision(s) \/ Discard(s) \/ PressExpired(s)
         \/ ExpireRevision(s) \/ TimePasses(s)
         \/ \E c \in Contents : CompleteRevision(s, c)
  PROVE  DecisionInv' /\ MailInv' /\ RowsKept
  <1>1. DecisionInv' /\ RowsKept
    BY GrantKeeps, OpenRevisionKeeps, DiscardKeeps, PressExpiredKeeps, TimeKeeps,
       CompleteRevisionKeeps DEF Executing
  <1>2. UNCHANGED <<gmail, sent>>
    BY DEF Grant, OpenRevision, Discard, PressExpired, ExpireRevision, TimePasses,
           CompleteRevision, mailVars
  <1>3. Onward /\ UNCHANGED applied
    <2>1. CASE Grant(s)
      BY <2>1, QueueStays, SendIs DEF Grant
    <2>2. CASE Discard(s)
      BY <2>2, QueueStays, SendIs, Ids, IdsMade DEF Discard
    <2>3. CASE \E c \in Contents : CompleteRevision(s, c)
      BY <2>3, QueueStays, SendIs, Ids, IdsMade DEF CompleteRevision
    <2>4. CASE OpenRevision(s) \/ PressExpired(s) \/ ExpireRevision(s) \/ TimePasses(s)
      BY <2>4 DEF OpenRevision, PressExpired, ExpireRevision, TimePasses, executorVars, Onward
    <2> QED  BY <2>1, <2>2, <2>3, <2>4
  <1> QED  BY <1>1, <1>2, <1>3, MailRests

LEMMA ProposeStep ==
  ASSUME DecisionInv, MailInv, Executing, NEW d \in Drafts, NEW c \in Contents, ProposeDraft(d, c)
  PROVE  DecisionInv' /\ MailInv' /\ RowsKept
  <1>1. DecisionInv' /\ RowsKept
    BY ProposeKeeps DEF Executing
  <1>2. UNCHANGED <<gmail, sent>>
    BY DEF ProposeDraft, mailVars
  <1>3. Onward /\ UNCHANGED applied
    BY QueueStays, Ids, IdsMade DEF ProposeDraft
  <1> QED  BY <1>1, <1>2, <1>3, MailRests

(* The outcomes.                                                           *)
LEMMA GiveUpStep ==
  ASSUME DecisionInv, MailInv, Executing, NEW h \in Handlers, NEW p \in Proposals,
         GiveUpLapsed(h, p)
  PROVE  DecisionInv' /\ MailInv' /\ RowsKept
  <1>1. InFlight(p) /\ Becomes(p, "UNKNOWN") /\ Onward /\ UNCHANGED applied
    BY GiveUpEnds
  <1>2. DecisionInv' /\ RowsKept
    BY <1>1, EndKeeps DEF GiveUpLapsed
  <1> QED  BY <1>1, <1>2, MailRests DEF GiveUpLapsed, mailVars

LEMMA CompleteStep ==
  ASSUME DecisionInv, MailInv, Executing, NEW h \in Handlers, CompleteAction(h)
  PROVE  DecisionInv' /\ MailInv' /\ RowsKept
  <1>1. /\ Onward /\ UNCHANGED applied /\ job[h] \in Proposals
        /\ \/ action' = action
           \/ action' # action /\ InFlight(job[h]) /\ Becomes(job[h], "SUCCEEDED")
    BY CompleteEnds
  <1>2. UNCHANGED <<revision, gmail, sent>>
    BY DEF CompleteAction, mailVars
  <1>3. DecisionInv' /\ RowsKept
    <2>1. CASE action' = action
      <3>1. UNCHANGED <<proposal, approval, managed>> /\ StatusesRest
        BY <2>1 DEF CompleteAction, StatusesRest
      <3> QED  BY <1>2, <3>1, DecisionsRest DEF DecisionInv, TablesOK
    <2>2. CASE action' # action
      <3>1. Completed(job[h]) /\ InFlight(job[h]) /\ Becomes(job[h], "SUCCEEDED")
        BY <1>1, <2>2 DEF CompleteAction
      <3>2. CASE job[h] \in Creates \union Updates
        BY <1>2, <3>1, <3>2, OfferKeeps
      <3>3. CASE job[h] \notin Creates \union Updates
        <4>1. /\ proposal' = ProposalAs(job[h], "COMPLETED") /\ UNCHANGED approval
              /\ managed' = ManagedAs(job[h], IF job[h] \in Sends THEN "SENT" ELSE "DELETED")
          BY <3>1, <3>3 DEF Completed
        <4> QED  BY <1>1, <1>2, <3>1, <3>3, <4>1, EndKeeps
      <3> QED  BY <3>2, <3>3
    <2> QED  BY <2>1, <2>2
  <1> QED  BY <1>1, <1>2, <1>3, MailRests

LEMMA FinishStep ==
  ASSUME DecisionInv, MailInv, Executing, NEW h \in Handlers, FinishAction(h)
  PROVE  DecisionInv' /\ MailInv' /\ RowsKept
  <1>1. /\ Onward /\ UNCHANGED applied /\ job[h] \in Proposals
        /\ UNCHANGED <<approval, revision, gmail, sent>>
    BY FinishEnds DEF FinishAction, mailVars
  <1>2. CASE Executor!Finishes(h) /\ verdict[h] # "release"
    <2>1. CASE verdict[h] = "unknown"
      <3>1. InFlight(job[h]) /\ Becomes(job[h], "UNKNOWN")
        BY <1>2, <2>1, FinishEnds
      <3>2. /\ proposal' = ProposalAs(job[h], "FAILED")
            /\ managed' = ManagedAs(job[h], "UNKNOWN")
        BY <1>2, <2>1 DEF FinishAction
      <3>3. DecisionInv' /\ RowsKept
        BY <1>1, <3>1, <3>2, EndKeeps
      <3> QED  BY <1>1, <3>3, MailRests
    <2>2. CASE verdict[h] # "unknown"
      <3>1. InFlight(job[h]) /\ Becomes(job[h], "FAILED")
        BY <1>2, <2>2, FinishEnds
      <3>2. /\ proposal' = ProposalAs(job[h], "FAILED")
            /\ managed' = ManagedAs(job[h], "READY")
        BY <1>2, <2>2 DEF FinishAction
      <3>3. DecisionInv' /\ RowsKept
        BY <1>1, <3>1, <3>2, EndKeeps
      <3> QED  BY <1>1, <3>3, MailRests
    <2> QED  BY <2>1, <2>2
  <1>3. CASE ~(Executor!Finishes(h) /\ verdict[h] # "release")
    <2>1. UNCHANGED <<proposal, managed>> /\ StatusesRest
      BY <1>3, FinishEnds DEF FinishAction
    <2>2. DecisionInv' /\ RowsKept
      BY <1>1, <2>1, DecisionsRest DEF DecisionInv, TablesOK
    <2> QED  BY <1>1, <2>2, MailRests
  <1> QED  BY <1>2, <1>3

LEMMA DraftStep ==
  ASSUME DecisionInv, MailInv, Executing, [DraftNext]_draftVars
  PROVE  DecisionInv' /\ MailInv'
  <1>1. ASSUME NEW p \in Proposals, Schedule(p) PROVE DecisionInv' /\ MailInv'
    BY <1>1, ScheduleRests, QuietStep DEF Schedule, mailVars
  <1>2. ASSUME NEW h \in Handlers, Load(h) \/ CrossBoundary(h) \/ Undisturbed(h)
        PROVE  DecisionInv' /\ MailInv'
    BY <1>2, MoveRests, QuietStep DEF Load, CrossBoundary, Undisturbed, mailVars
  <1>3. CASE UNCHANGED draftVars
    <2>1. /\ StatusesRest /\ Onward
          /\ UNCHANGED decisionVars /\ UNCHANGED <<gmail, sent, applied>>
      BY <1>3 DEF draftVars, executorVars, mailVars, StatusesRest, Onward
    <2> QED  BY <2>1, QuietStep
  <1>4. CASE UserStep
    BY <1>4, DecisionStep, ProposeStep, EditKeeps, RemoveKeeps DEF UserStep
  <1>5. ASSUME NEW h \in Handlers, HandlerStep(h) PROVE DecisionInv' /\ MailInv'
    BY <1>2, <1>5, CheckKeeps, CallKeeps, CompleteStep, FinishStep DEF HandlerStep
  <1>6. CASE DraftNext
    BY <1>1, <1>4, <1>5, <1>6, ClaimKeeps, GiveUpStep DEF DraftNext
  <1> QED  BY <1>3, <1>6

LEMMA DraftInitial == DraftInit => DraftInv
  <1> SUFFICES ASSUME DraftInit PROVE DraftInv
    OBVIOUS
  <1>1. EP!ExecutorInv
    BY ExecutorInitial DEF DraftInit
  <1>2. /\ \A p \in Proposals : action[p].status = "ABSENT" /\ applied[p] = 0
        /\ \A h \in Handlers : pc[h] = "idle" /\ job[h] = None
    BY DEF DraftInit, Executor!Init, Executor!NewRow
  <1>3. /\ \A p \in Proposals : proposal[p].status = "ABSENT"
        /\ \A s \in Sends : approval[s].status = "ABSENT" /\ revision[s].status = "ABSENT"
        /\ \A d \in Drafts : /\ managed[d].status = "ABSENT" /\ managed[d].active = 0
                             /\ sent[d] = {}
    BY DEF DraftInit, NoDraft
  <1>4. TablesOK /\ GmailOK /\ SentOK
    BY VersionAssumption
       DEF DraftInit, NoDraft, TablesOK, GmailOK, SentOK, ProposalRow, ProposalStatus, ApprovalRow,
           ApprovalStatus, ManagedRow, ManagedStatus, RevisionRow, RevisionStatus
  <1>5. DecisionInv
    <2>1. RowsAgree /\ ApprovalsAgree /\ ReplacedStays /\ OpenIsReady
      BY <1>2, <1>3, SendIs
         DEF RowsAgree, ApprovalsAgree, ReplacedStays, OpenIsReady, Open, InFlight, Undone
    <2>2. ActiveIsNewest
      BY <1>2, <1>3, SendIs, Ids, IdsMade DEF ActiveIsNewest, Versions
    <2>3. BusyAgrees
      BY <1>2, <1>3, Ids DEF BusyAgrees, BusyAs, InFlight
    <2> QED  BY <1>4, <2>1, <2>2, <2>3 DEF DecisionInv
  <1>6. MailInv
    BY <1>2, <1>3, <1>4 DEF MailInv, JobsQueued, SenderKnows, SentWasApproved, SentOnce
  <1>7. UpdatesFit
    BY <1>3 DEF UpdatesFit
  <1>8. SentIsDone
    BY <1>2, <1>3, SendIs, Ids DEF SentIsDone
  <1>9. AppliedWasSent
    BY <1>2, SendIs DEF AppliedWasSent
  <1> QED  BY <1>1, <1>5, <1>6, <1>7, <1>8, <1>9 DEF DraftInv

LEMMA DraftNextInv == DraftInv /\ [DraftNext]_draftVars => DraftInv'
  <1> SUFFICES ASSUME DraftInv, [DraftNext]_draftVars PROVE DraftInv'
    OBVIOUS
  <1>1. EP!ExecutorInv'
    BY ExecutorStep, ExecutorKeeps DEF DraftInv, MailInv, GmailOK
  <1>2. Executing
    BY ExecutingIs DEF DraftInv
  <1>3. DecisionInv' /\ MailInv'
    BY <1>2, DraftStep DEF DraftInv
  <1>4. UpdatesFit'
    BY <1>2, FitStep DEF DraftInv, DecisionInv
  <1>5. SentIsDone' /\ AppliedWasSent'
    BY <1>2, DoneStep, AppliedStep DEF DraftInv
  <1> QED  BY <1>1, <1>3, <1>4, <1>5 DEF DraftInv

(* In every reachable state each proposal, its Action, its approval, the   *)
(* managed row and the revision say the same of the draft, and the mailbox *)
(* holds what a handler about to send has compared.                        *)
THEOREM DraftInvariant == DraftSpec => []DraftInv
  BY DraftInitial, DraftNextInv, PTL DEF DraftSpec

(* The rows of the drafts, their approvals and revisions keep their types. *)
THEOREM DraftTypes == DraftSpec => []DraftTypeOK
  <1>1. DraftInv => DraftTypeOK
    BY ExecutingIs, TypesSplit DEF DraftInv, DecisionInv, MailInv, Executing
  <1> QED  BY DraftInvariant, <1>1, PTL

(* Whatever Gmail sent was granted and is what was granted, unless the     *)
(* user's own edit came between the comparison and the send.               *)
THEOREM OnlyApprovedIsSent == DraftSpec => []SentWasApproved
  BY DraftInvariant, PTL DEF DraftInv, MailInv

(* An approval that can still be granted describes a draft at rest as it   *)
(* is, so the stale branch of the three callbacks is dead.                 *)
THEOREM OffersAreCurrent == DraftSpec => []PendingIsCurrent
  <1>1. DraftInv => PendingIsCurrent
    <2> SUFFICES ASSUME DraftInv, NEW s \in Sends, approval[s].status = "PENDING"
                 PROVE  /\ Current(s) /\ managed[Draft(s)].status = "READY"
                        /\ \A p \in Proposals : Draft(p) = Draft(s) => ~InFlight(p)
                        /\ revision[s].status = "ABSENT"
      BY DEF PendingIsCurrent
    <2>1. managed[Draft(s)].content = proposal[s].content
      BY PendingFacts DEF DraftInv, DecisionInv, ActiveIsNewest
    <2> QED  BY <2>1, PendingFacts DEF DraftInv, Current
  <1> QED  BY DraftInvariant, <1>1, PTL

(* One Action at most works on a draft, the one its status names.          *)
LEMMA OneWorks ==
  ASSUME DecisionInv, UpdatesFit, NEW d \in Drafts
  PROVE  LET v == managed[d].active
         IN  {p \in Proposals \ Creates : Draft(p) = d /\ InFlight(p)}
               = CASE managed[d].status = "SENDING" -> {Send(d, v)}
                   [] managed[d].status = "UPDATING" -> {Update(d, v)}
                   [] managed[d].status = "DELETING" -> {Delete(d, v)}
                   [] OTHER -> {}
  <1> DEFINE m == managed[d]
             working == {"SENDING", "UPDATING", "DELETING"}
  <1>1. \A p \in Proposals \ Creates : Draft(p) = d =>
          (InFlight(p) <=> m.active = Version(p) /\ m.status = BusyAs(p))
    BY DEF DecisionInv, BusyAgrees
  <1>2. \A p \in Proposals \ Creates :
          /\ BusyAs(p) \in working
          /\ BusyAs(p) = "SENDING" <=> p \in Sends
          /\ BusyAs(p) = "UPDATING" <=> p \in Updates
          /\ BusyAs(p) = "DELETING" <=> p \in Deletes
    BY Ids DEF BusyAs
  <1>3. CASE m.status \notin working
    BY <1>1, <1>2, <1>3
  <1>4. CASE m.status \in working
    <2>1. m.active \in Versions
      BY <1>4, VersionAssumption
         DEF DecisionInv, ActiveIsNewest, TablesOK, ManagedRow, Versions
    <2>2. m.status = "UPDATING" => m.active < MaxVersion
      BY DEF UpdatesFit
    <2> DEFINE q == CASE m.status = "SENDING" -> Send(d, m.active)
                      [] m.status = "UPDATING" -> Update(d, m.active)
                      [] OTHER -> Delete(d, m.active)
    <2>3. /\ q \in Proposals \ Creates /\ Draft(q) = d /\ Version(q) = m.active
          /\ BusyAs(q) = m.status
      BY <1>2, <1>4, <2>1, <2>2, Ids, IdsMade
    <2> HIDE DEF q
    <2>4. \A p \in Proposals \ Creates : Draft(p) = d => (InFlight(p) <=> p = q)
      BY <1>1, <1>2, <1>4, <2>3, Ids
    <2>5. {p \in Proposals \ Creates : Draft(p) = d /\ InFlight(p)} = {q}
      BY <2>3, <2>4
    <2> QED  BY <1>4, <2>5 DEF q
  <1> QED  BY <1>3, <1>4

(* Nothing was sent unless the one send of the draft is at work, has       *)
(* succeeded or is in doubt: a send that failed sent nothing.              *)
LEMMA StatusTellsSent ==
  ASSUME DraftInv, NEW d \in Drafts
  PROVE  /\ managed[d].status = "SENT" => sent[d] # {}
         /\ sent[d] # {} => managed[d].status \in {"SENDING", "SENT", "UNKNOWN"}
  <1> USE DEF DraftInv
  <1>1. /\ \A s \in Sends : action[s].status = "SUCCEEDED" => applied[s] > 0
        /\ \A s \in Sends : action[s].status = "FAILED" => applied[s] = 0
    BY SendIs DEF EP!ExecutorInv, EP!OutcomeIsTruthful
  <1>2. ASSUME managed[d].status = "SENT" PROVE sent[d] # {}
    <2>1. managed[d].active \in Versions
      BY <1>2, VersionAssumption DEF DecisionInv, ActiveIsNewest, TablesOK, ManagedRow, Versions
    <2>2. PICK s \in Sends : Draft(s) = d /\ Version(s) = managed[d].active
      BY <2>1, IdsMade
    <2> QED  BY <1>1, <1>2, <2>2 DEF SentIsDone, AppliedWasSent
  <1>3. ASSUME NEW m \in sent[d] PROVE managed[d].status \in {"SENDING", "SENT", "UNKNOWN"}
    <2>1. m[1] \in Versions
      BY DEF MailInv, SentOK
    <2>2. PICK s \in Sends : s = Send(d, m[1]) /\ Draft(s) = d
      BY <2>1, IdsMade
    <2>3. approval[s].status = "GRANTED" /\ applied[s] > 0
      BY <2>2 DEF MailInv, SentWasApproved, SentOnce
    <2>4. action[s].status \in {"QUEUED", "RUNNING", "SUCCEEDED", "UNKNOWN"}
      <3>1. action[s].status \in
              {"ABSENT", "QUEUED", "RUNNING", "SUCCEEDED", "FAILED", "UNKNOWN"}
        BY ExecutingIs, ExecutorTypes, SendIs DEF Executing
      <3>2. action[s].status # "ABSENT"
        BY <2>3 DEF DecisionInv, ApprovalsAgree
      <3> QED  BY <1>1, <2>3, <3>1, <3>2
    <2>5. s \in Proposals \ Creates
      BY SendIs
    <2>6. BusyAs(s) = "SENDING"
      BY <2>5, Ids DEF BusyAs
    <2> QED  BY <2>2, <2>4, <2>5, <2>6 DEF DecisionInv, BusyAgrees, InFlight, SentIsDone
  <1> QED  BY <1>2, <1>3 DEF MailInv, SentOK

(* The managed draft's status names the one Action that works on it, and   *)
(* does not lie about what Gmail sent.                                     *)
THEOREM StatusNamesTheWork == DraftSpec => []ManagedStatusAgrees
  <1>1. DraftInv => ManagedStatusAgrees
    BY OneWorks, StatusTellsSent DEF ManagedStatusAgrees, DraftInv
  <1> QED  BY DraftInvariant, <1>1, PTL

(* Every step of the drafts is a step of the executor or one it does not   *)
(* see: the approvals and the mailbox only restrict it.                    *)
THEOREM ExecutorImplemented == DraftSpec => ImplementsExecutor
  <1>1. DraftInv /\ [DraftNext]_draftVars => [Executor!Next]_(Executor!vars)
    BY ExecutorStep DEF DraftInv, MailInv, GmailOK
  <1>2. DraftInit => Executor!Init
    BY DEF DraftInit
  <1> QED  BY DraftInvariant, <1>1, <1>2, PTL DEF DraftSpec, ImplementsExecutor, Executor!Spec

-----------------------------------------------------------------------------
(* The promise about a draft.                                              *)
Alive == {"PENDING", "GRANTED"}

(* What an alive approval makes of its draft, and what none does.          *)
OfferShown ==
  \A d \in Drafts :
    /\ \A v \in Versions : approval[Send(d, v)].status \in Alive =>
         /\ Live(d) = {v} /\ Shown(d) = proposal[Send(d, v)].content
         /\ approval[Send(d, v)].status = "PENDING" => sent[d] = {} /\ Phase(d) = "open"
         /\ approval[Send(d, v)].status = "GRANTED" =>
              Phase(d) = IF sent[d] = {} THEN "approved" ELSE "mailed"
    /\ (\A v \in Versions : approval[Send(d, v)].status \notin Alive) =>
         Phase(d) = "closed" /\ Shown(d) = "none"

LEMMA OfferIsShown == DraftInv => OfferShown
  <1> SUFFICES ASSUME DraftInv, NEW d \in Drafts
               PROVE  /\ \A v \in Versions : approval[Send(d, v)].status \in Alive =>
                           /\ Live(d) = {v} /\ Shown(d) = proposal[Send(d, v)].content
                           /\ approval[Send(d, v)].status = "PENDING" =>
                                sent[d] = {} /\ Phase(d) = "open"
                           /\ approval[Send(d, v)].status = "GRANTED" =>
                                Phase(d) = IF sent[d] = {} THEN "approved" ELSE "mailed"
                      /\ (\A v \in Versions : approval[Send(d, v)].status \notin Alive) =>
                           Phase(d) = "closed" /\ Shown(d) = "none"
    BY DEF OfferShown
  <1>1. \A v \in Versions : approval[Send(d, v)].status \in Alive => v = managed[d].active
    BY IdsMade DEF DraftInv, DecisionInv, ActiveIsNewest, Alive
  <1>2. \A m \in sent[d] : m[1] \in Versions /\ approval[Send(d, m[1])].status = "GRANTED"
    BY DEF DraftInv, MailInv, SentOK, SentWasApproved
  <1>3. ASSUME NEW v \in Versions, approval[Send(d, v)].status \in Alive
        PROVE  /\ Live(d) = {v} /\ Shown(d) = proposal[Send(d, v)].content
               /\ approval[Send(d, v)].status = "PENDING" => sent[d] = {} /\ Phase(d) = "open"
               /\ approval[Send(d, v)].status = "GRANTED" =>
                    Phase(d) = IF sent[d] = {} THEN "approved" ELSE "mailed"
    <2>1. Live(d) = {v}
      BY <1>1, <1>3 DEF Live, Alive
    <2>2. (CHOOSE w \in Live(d) : TRUE) = v
      BY <2>1
    <2>3. Shown(d) = proposal[Send(d, v)].content
      BY <2>1, <2>2 DEF Shown
    <2>4. approval[Send(d, v)].status = "PENDING" => sent[d] = {}
      <3> SUFFICES ASSUME approval[Send(d, v)].status = "PENDING", NEW m \in sent[d] PROVE FALSE
        BY DEF DraftInv, MailInv, SentOK
      <3>1. m[1] = v
        BY <1>1, <1>2, <1>3 DEF Alive
      <3> QED  BY <1>2, <3>1
    <2> QED  BY <2>1, <2>3, <2>4 DEF Phase
  <1>4. ASSUME \A v \in Versions : approval[Send(d, v)].status \notin Alive
        PROVE  Phase(d) = "closed" /\ Shown(d) = "none"
    <2>1. Live(d) = {}
      BY <1>4 DEF Live, Alive
    <2>2. sent[d] = {}
      BY <1>2, <1>4 DEF Alive, DraftInv, MailInv, SentOK
    <2> QED  BY <2>1, <2>2 DEF Phase, Shown
  <1> QED  BY <1>3, <1>4

(* A draft none of whose approvals is asked for or decided.                *)
LEMMA DraftRests ==
  ASSUME NEW d \in Drafts, sent'[d] = sent[d],
         \A v \in Versions :
           /\ approval'[Send(d, v)].status = approval[Send(d, v)].status
           /\ approval[Send(d, v)].status \in Alive =>
                proposal'[Send(d, v)].content = proposal[Send(d, v)].content
  PROVE  Phase(d)' = Phase(d) /\ Shown(d)' = Shown(d) /\ Mailed(d)' = Mailed(d)
  <1>1. Live(d)' = Live(d)
    BY DEF Live
  <1>2. Shown(d)' = Shown(d)
    <2>1. CASE Live(d) = {}
      BY <1>1, <2>1 DEF Shown
    <2>2. CASE Live(d) # {}
      <3> DEFINE w == CHOOSE v \in Live(d) : TRUE
      <3>1. w \in Live(d) /\ w \in Versions
        BY <2>2 DEF Live
      <3>2. (CHOOSE v \in Live(d) : TRUE)' = w
        BY <1>1
      <3>3. proposal'[Send(d, w)].content = proposal[Send(d, w)].content
        BY <3>1 DEF Live, Alive
      <3> HIDE DEF w
      <3> QED  BY <1>1, <2>2, <3>2, <3>3 DEF Shown, w
    <2> QED  BY <2>1, <2>2
  <1>3. Mailed(d)' = Mailed(d)
    BY DEF Mailed
  <1>4. Phase(d)' = Phase(d)
    BY <1>1 DEF Phase, Live
  <1> QED  BY <1>2, <1>3, <1>4

LEMMA PromiseRests ==
  ASSUME UNCHANGED sent,
         \A s \in Sends :
           /\ approval'[s].status = approval[s].status
           /\ approval[s].status \in Alive => proposal'[s].content = proposal[s].content
  PROVE  UNCHANGED Promise!vars
  <1>1. \A d \in Drafts : Phase(d)' = Phase(d) /\ Shown(d)' = Shown(d) /\ Mailed(d)' = Mailed(d)
    BY IdsMade, DraftRests
  <1> QED  BY <1>1 DEF Promise!vars

(* A step that is one draft's affair.                                      *)
LEMMA OthersRest ==
  ASSUME NEW d \in Drafts, NEW v \in Versions,
         \A e \in Drafts : e # d => sent'[e] = sent[e],
         \A s \in Sends : s # Send(d, v) =>
           /\ approval'[s].status = approval[s].status
           /\ approval[s].status \in Alive => proposal'[s].content = proposal[s].content
  PROVE  \A e \in Drafts : e # d =>
           Phase(e)' = Phase(e) /\ Shown(e)' = Shown(e) /\ Mailed(e)' = Mailed(e)
  <1> SUFFICES ASSUME NEW e \in Drafts, e # d
               PROVE  Phase(e)' = Phase(e) /\ Shown(e)' = Shown(e) /\ Mailed(e)' = Mailed(e)
    OBVIOUS
  <1>1. \A w \in Versions : Send(e, w) \in Sends /\ Send(e, w) # Send(d, v)
    BY IdsMade DEF Send
  <1> QED  BY <1>1, DraftRests

(* The user decides an offer: it is approved or closed.                    *)
LEMMA DecisionPromised ==
  ASSUME OfferShown, OfferShown', UNCHANGED sent, NEW d \in Drafts, NEW v \in Versions,
         approval[Send(d, v)].status = "PENDING", approval'[Send(d, v)].status # "PENDING",
         \A s \in Sends :
           /\ s # Send(d, v) => approval'[s].status = approval[s].status
           /\ approval[s].status \in Alive => proposal'[s].content = proposal[s].content
  PROVE  Promise!Next
  <1> DEFINE s == Send(d, v)
  <1>1. s \in Sends
    BY IdsMade
  <1>2. \A e \in Drafts : e # d =>
          Phase(e)' = Phase(e) /\ Shown(e)' = Shown(e) /\ Mailed(e)' = Mailed(e)
    BY OthersRest
  <1>3. Mailed(d)' = Mailed(d)
    BY DEF Mailed
  <1>4. Phase(d) = "open" /\ Shown(d) = proposal[s].content /\ Live(d) = {v} /\ sent[d] = {}
    BY DEF OfferShown, Alive
  <1>5. CASE approval'[s].status = "GRANTED"
    <2>1. Phase(d)' = "approved" /\ Shown(d)' = Shown(d)
      BY <1>1, <1>4, <1>5 DEF OfferShown, Alive
    <2>2. Promise!Approve(d)
      BY <1>2, <1>3, <1>4, <2>1 DEF Promise!Approve
    <2> QED  BY <2>2 DEF Promise!Next
  <1>6. CASE approval'[s].status # "GRANTED"
    <2>1. \A w \in Versions : approval'[Send(d, w)].status \notin Alive
      <3> SUFFICES ASSUME NEW w \in Versions, approval'[Send(d, w)].status \in Alive PROVE FALSE
        OBVIOUS
      <3>1. w # v /\ Send(d, w) \in Sends /\ Send(d, w) # s
        BY <1>6, IdsMade DEF Alive, Send
      <3>2. w \in Live(d)
        BY <3>1 DEF Live, Alive
      <3> QED  BY <1>4, <3>1, <3>2
    <2>2. Phase(d)' = "closed" /\ Shown(d)' = "none"
      BY <2>1 DEF OfferShown
    <2>3. Promise!Close(d)
      BY <1>2, <1>3, <1>4, <2>2 DEF Promise!Close
    <2> QED  BY <2>3 DEF Promise!Next
  <1> QED  BY <1>5, <1>6

(* A completed create or update makes an offer.                            *)
LEMMA OfferPromised ==
  ASSUME OfferShown, OfferShown', UNCHANGED sent, NEW d \in Drafts, NEW v \in Versions,
         approval[Send(d, v)].status \notin Alive, approval'[Send(d, v)].status = "PENDING",
         proposal'[Send(d, v)].content \in Contents,
         \A s \in Sends :
           /\ s # Send(d, v) => approval'[s].status = approval[s].status
           /\ approval[s].status \in Alive => proposal'[s].content = proposal[s].content
  PROVE  Promise!Next
  <1> DEFINE s == Send(d, v)
  <1>1. \A e \in Drafts : e # d =>
          Phase(e)' = Phase(e) /\ Shown(e)' = Shown(e) /\ Mailed(e)' = Mailed(e)
    BY OthersRest
  <1>2. Mailed(d)' = Mailed(d)
    BY DEF Mailed
  <1>3. Phase(d)' = "open" /\ Shown(d)' = proposal'[s].content /\ Live(d)' = {v}
    BY DEF OfferShown, Alive
  <1>4. \A w \in Versions : approval[Send(d, w)].status \notin Alive
    <2> SUFFICES ASSUME NEW w \in Versions, approval[Send(d, w)].status \in Alive PROVE FALSE
      OBVIOUS
    <2>1. w # v /\ Send(d, w) \in Sends /\ Send(d, w) # s
      BY IdsMade DEF Alive, Send
    <2>2. w \in Live(d)'
      BY <2>1 DEF Live, Alive
    <2> QED  BY <1>3, <2>1, <2>2
  <1>5. Phase(d) = "closed" /\ Shown(d) = "none"
    BY <1>4 DEF OfferShown
  <1>6. Promise!Offer(d, proposal'[s].content)
    BY <1>1, <1>2, <1>3, <1>5 DEF Promise!Offer
  <1> QED  BY <1>6 DEF Promise!Next

(* Gmail sends what was approved.                                          *)
LEMMA MailPromised ==
  ASSUME OfferShown, OfferShown', UNCHANGED decisionVars, NEW d \in Drafts, NEW v \in Versions,
         approval[Send(d, v)].status = "GRANTED", sent[d] = {},
         NEW c \in {proposal[Send(d, v)].content, "raced"},
         sent' = [sent EXCEPT ![d] = {<<v, c>>}], SentOK
  PROVE  Promise!Next
  <1>1. \A e \in Drafts : e # d =>
          Phase(e)' = Phase(e) /\ Shown(e)' = Shown(e) /\ Mailed(e)' = Mailed(e)
    BY OthersRest DEF decisionVars, SentOK
  <1>2. sent'[d] = {<<v, c>>}
    BY DEF SentOK
  <1>3. Mailed(d)' = c
    <2>1. (CHOOSE m \in sent'[d] : TRUE) = <<v, c>>
      BY <1>2
    <2> QED  BY <1>2, <2>1 DEF Mailed
  <1>4. Phase(d) = "approved" /\ Shown(d) = proposal[Send(d, v)].content
    BY DEF OfferShown, Alive
  <1>5. Phase(d)' = "mailed" /\ Shown(d)' = Shown(d)
    BY <1>2, <1>4 DEF OfferShown, Alive, decisionVars
  <1>6. Promise!Mail(d)
    BY <1>1, <1>3, <1>4, <1>5 DEF Promise!Mail
  <1> QED  BY <1>6 DEF Promise!Next

(* What was proposed keeps its content at every step.                      *)
LEMMA OffersKept ==
  ASSUME DecisionInv, RowsKept
  PROVE  \A s \in Sends : approval[s].status \in Alive =>
           proposal'[s].content = proposal[s].content
  BY SendIs DEF DecisionInv, ApprovalsAgree, RowsKept, Alive

LEMMA UserPromised ==
  ASSUME DecisionInv, MailInv, Executing, OfferShown, OfferShown', UserStep
  PROVE  [Promise!Next]_(Promise!vars)
  <1>1. ASSUME NEW s \in Sends,
               Grant(s) \/ OpenRevision(s) \/ Discard(s) \/ PressExpired(s)
        PROVE  Promise!Next
    <2>1. /\ Draft(s) \in Drafts /\ Version(s) \in Versions
          /\ s = Send(Draft(s), Version(s))
      BY Ids, SendIs
    <2>2. UNCHANGED sent
      BY <1>1 DEF Grant, OpenRevision, Discard, PressExpired, mailVars
    <2>3. PICK st \in {"GRANTED", "SUPERSEDED", "REJECTED", "EXPIRED"} :
            approval[s].status = "PENDING" /\ approval' = [approval EXCEPT ![s].status = st]
      BY <1>1 DEF Grant, OpenRevision, Discard, PressExpired, Decided
    <2>4. /\ approval'[s].status # "PENDING"
          /\ \A t \in Sends : t # s => approval'[t].status = approval[t].status
      <3>1. st \in ApprovalStatus
        BY DEF ApprovalStatus
      <3> QED  BY <2>3, <3>1, ApprovalIs DEF DecisionInv
    <2>5. \A t \in Sends : approval[t].status \in Alive =>
            proposal'[t].content = proposal[t].content
      BY <1>1, DecisionStep, OffersKept
    <2>6. approval[s].status = "PENDING"
      BY <2>3
    <2> QED  BY <2>1, <2>2, <2>4, <2>5, <2>6, DecisionPromised
  <1>2. ASSUME NEW s \in Sends,
               \/ ExpireRevision(s) \/ TimePasses(s)
               \/ \E c \in Contents : CompleteRevision(s, c)
        PROVE  UNCHANGED Promise!vars
    <2>1. UNCHANGED sent /\ \A t \in Sends : approval'[t].status = approval[t].status
      BY <1>2 DEF ExpireRevision, TimePasses, CompleteRevision, mailVars, DecisionInv, TablesOK,
                  ApprovalRow
    <2>2. \A t \in Sends : approval[t].status \in Alive =>
            proposal'[t].content = proposal[t].content
      BY <1>2, DecisionStep, OffersKept
    <2> QED  BY <2>1, <2>2, PromiseRests
  <1>3. ASSUME NEW d \in Drafts, NEW c \in Contents, ProposeDraft(d, c)
        PROVE  UNCHANGED Promise!vars
    <2>1. UNCHANGED <<sent, approval>>
      BY <1>3 DEF ProposeDraft, mailVars
    <2>2. \A t \in Sends : approval[t].status \in Alive =>
            proposal'[t].content = proposal[t].content
      BY <1>3, ProposeStep, OffersKept
    <2> QED  BY <2>1, <2>2, PromiseRests
  <1>4. ASSUME NEW d \in Drafts, EditInGmail(d) \/ RemoveInGmail(d)
        PROVE  UNCHANGED Promise!vars
    BY <1>4, PromiseRests DEF EditInGmail, RemoveInGmail, decisionVars
  <1> QED  BY <1>1, <1>2, <1>3, <1>4 DEF UserStep

LEMMA CallPromised ==
  ASSUME DecisionInv, MailInv, Executing, OfferShown, OfferShown', NEW h \in Handlers, CallGmail(h)
  PROVE  [Promise!Next]_(Promise!vars)
  <1>1. UNCHANGED decisionVars /\ pc[h] = "calling" /\ job[h] \in Proposals
    BY CallRests DEF CallGmail
  <1>2. CASE UNCHANGED sent
    BY <1>1, <1>2, PromiseRests DEF decisionVars
  <1>3. CASE sent' # sent
    <2>1. Mutate(job[h]) /\ job[h] \notin Missing
      BY <1>3, CallRests
    <2>2. PICK s \in Proposals : s = job[h]
      BY <1>1
    <2>3. /\ s \in Sends \ Missing /\ gmail[Draft(s)] # "none"
          /\ sent' = [sent EXCEPT ![Draft(s)] = @ \union {<<Version(s), gmail[Draft(s)]>>}]
      BY <1>3, <2>1, <2>2 DEF Mutate
    <2>4. /\ Draft(s) \in Drafts /\ Version(s) \in Versions
          /\ s = Send(Draft(s), Version(s))
      BY <2>3, Ids, SendIs
    <2>5. /\ approval[s].status = "GRANTED"
          /\ gmail[Draft(s)] \in {proposal[s].content, "raced"}
          /\ sent[Draft(s)] = {}
      BY <1>1, <2>2, <2>3, SendOnce
    <2>6. PICK c \in {proposal[s].content, "raced"} : c = gmail[Draft(s)]
      BY <2>5
    <2>7. sent' = [sent EXCEPT ![Draft(s)] = {<<Version(s), c>>}]
      BY <2>3, <2>5, <2>6
    <2>8. SentOK
      BY DEF MailInv
    <2> QED  BY <1>1, <2>4, <2>5, <2>7, <2>8, MailPromised
  <1> QED  BY <1>2, <1>3

LEMMA CompletePromised ==
  ASSUME DraftInv, DraftInv', OfferShown, OfferShown', NEW h \in Handlers, CompleteAction(h)
  PROVE  [Promise!Next]_(Promise!vars)
  <1>1. UNCHANGED <<revision, sent>>
    BY DEF CompleteAction, mailVars
  <1>2. DecisionInv /\ MailInv /\ Executing /\ DecisionInv'
    BY ExecutingIs DEF DraftInv
  <1>3. \A s \in Sends : approval[s].status \in Alive =>
          proposal'[s].content = proposal[s].content
    BY <1>2, CompleteStep, OffersKept
  <1>4. CASE UNCHANGED approval
    BY <1>1, <1>3, <1>4, PromiseRests
  <1>5. CASE approval' # approval
    <2>1. PICK p \in Proposals : p = job[h]
      BY <1>2, CompleteEnds
    <2>2. Completed(p) /\ p \in Creates \union Updates
      BY <1>5, <2>1 DEF CompleteAction, Completed
    <2>3. PICK v \in Nat : v = IF p \in Creates THEN 1 ELSE managed[Draft(p)].active + 1
      BY <1>2, Ids, VersionAssumption DEF DecisionInv, TablesOK, ManagedRow
    <2> DEFINE d == Draft(p)
               s == Send(d, v)
    <2>4. /\ proposal' = Offered(ProposalAs(p, "COMPLETED"), s, proposal[p].content)
          /\ approval' = Ask(s)
          /\ managed' = [managed EXCEPT ![d] = [status |-> "READY", active |-> v,
                                                content |-> proposal[p].content]]
      BY <2>2, <2>3 DEF Completed
    <2>5. d \in Drafts
      BY Ids
    <2>6. v \in Versions
      <3>1. managed'[d].active = v /\ managed'[d].active \in 0 .. MaxVersion
        BY <1>2, <2>4, <2>5 DEF DecisionInv, TablesOK, ManagedRow
      <3>2. v # 0
        BY <1>2, <2>3, <2>5 DEF DecisionInv, TablesOK, ManagedRow
      <3> QED  BY <3>1, <3>2, VersionAssumption DEF Versions
    <2>7. s \in Sends /\ s \in Proposals
      BY <2>5, <2>6, IdsMade, SendIs
    <2>8. approval[s].status = "ABSENT"
      <3>1. InFlight(p)
        BY <1>2, <1>5, <2>1, CompleteEnds DEF CompleteAction
      <3>2. p \in Creates => managed[d].active = 0
        <4>1. p \in Creates => p = Create(d) /\ action[Create(d)].status # "SUCCEEDED"
          BY <3>1, Ids DEF InFlight
        <4> QED  BY <1>2, <2>5, <4>1 DEF DecisionInv, ActiveIsNewest
      <3>3. managed[d].active \in Nat
        BY <1>2, <2>5, VersionAssumption DEF DecisionInv, TablesOK, ManagedRow
      <3>4. v > managed[d].active /\ Draft(s) = d /\ Version(s) = v
        BY <2>3, <2>5, <2>6, <3>2, <3>3, IdsMade
      <3> QED  BY <1>2, <2>7, <3>4 DEF DecisionInv, ActiveIsNewest
    <2>9. /\ approval'[s].status = "PENDING"
          /\ \A t \in Sends : t # s => approval'[t].status = approval[t].status
      BY <1>2, <2>4, <2>7 DEF Ask, DecisionInv, TablesOK
    <2>10. proposal'[s].content \in Contents
      BY <1>2, <2>7, <2>9 DEF DecisionInv, ApprovalsAgree, RowsAgree
    <2> HIDE DEF d
    <2> QED  BY <1>1, <1>3, <2>5, <2>6, <2>8, <2>9, <2>10, OfferPromised DEF Alive
  <1> QED  BY <1>4, <1>5

LEMMA PromiseStep ==
  ASSUME DraftInv, DraftInv', OfferShown, OfferShown', [DraftNext]_draftVars
  PROVE  [Promise!Next]_(Promise!vars)
  <1>1. DecisionInv /\ MailInv /\ Executing /\ DecisionInv'
    BY ExecutingIs DEF DraftInv
  <1>2. ASSUME UNCHANGED <<sent, approval, proposal>>
        PROVE  UNCHANGED Promise!vars
    BY <1>2, PromiseRests
  <1>3. ASSUME NEW p \in Proposals, Schedule(p) PROVE UNCHANGED Promise!vars
    BY <1>2, <1>3 DEF Schedule, decisionVars, mailVars
  <1>4. ASSUME NEW h \in Handlers, NEW p \in Proposals, Claim(h, p)
        PROVE  UNCHANGED Promise!vars
    BY <1>2, <1>4 DEF Claim, decisionVars, mailVars
  <1>5. ASSUME NEW h \in Handlers, NEW p \in Proposals, GiveUpLapsed(h, p)
        PROVE  UNCHANGED Promise!vars
    <2>1. UNCHANGED <<sent, approval>>
      BY <1>5 DEF GiveUpLapsed, mailVars
    <2>2. RowsKept
      BY <1>1, <1>5, GiveUpStep
    <2> QED  BY <1>1, <2>1, <2>2, OffersKept, PromiseRests
  <1>6. ASSUME NEW h \in Handlers, FinishAction(h) PROVE UNCHANGED Promise!vars
    <2>1. UNCHANGED <<sent, approval>>
      BY <1>6 DEF FinishAction, mailVars
    <2>2. RowsKept
      BY <1>1, <1>6, FinishStep
    <2> QED  BY <1>1, <2>1, <2>2, OffersKept, PromiseRests
  <1>7. ASSUME NEW h \in Handlers,
               Load(h) \/ CheckDraft(h) \/ CrossBoundary(h) \/ Undisturbed(h)
        PROVE  UNCHANGED Promise!vars
    BY <1>2, <1>7 DEF Load, CheckDraft, CrossBoundary, Undisturbed, decisionVars, mailVars
  <1>8. ASSUME NEW h \in Handlers, HandlerStep(h) PROVE [Promise!Next]_(Promise!vars)
    BY <1>1, <1>6, <1>7, <1>8, CallPromised, CompletePromised DEF HandlerStep
  <1>9. CASE UNCHANGED draftVars
    BY <1>2, <1>9 DEF draftVars, decisionVars, mailVars
  <1>10. CASE UserStep
    BY <1>1, <1>10, UserPromised
  <1>11. CASE DraftNext
    BY <1>3, <1>4, <1>5, <1>8, <1>10, <1>11 DEF DraftNext
  <1> QED  BY <1>9, <1>11

LEMMA PromiseInitial == DraftInit => Promise!Init
  <1> SUFFICES ASSUME DraftInit PROVE Promise!Init
    OBVIOUS
  <1>1. OfferShown
    BY DraftInitial, OfferIsShown
  <1>2. \A d \in Drafts :
          sent[d] = {} /\ \A v \in Versions : approval[Send(d, v)].status \notin Alive
    BY IdsMade DEF DraftInit, Alive
  <1>3. \A d \in Drafts : Phase(d) = "closed" /\ Shown(d) = "none" /\ Mailed(d) = "none"
    BY <1>1, <1>2 DEF OfferShown, Mailed
  <1> QED  BY <1>3 DEF Promise!Init

(* The promise about a draft holds of the approvals, the executor and the  *)
(* mailbox together: one offer at a time, never reopened, and only what    *)
(* the user approved leaves, once.                                         *)
THEOREM PromiseKept == DraftSpec => ImplementsPromise
  <1>1. DraftInv /\ DraftInv' /\ [DraftNext]_draftVars => [Promise!Next]_(Promise!vars)
    <2>1. DraftInv /\ DraftInv' => OfferShown /\ OfferShown'
      BY OfferIsShown, PTL
    <2> QED  BY <2>1, PromiseStep
  <1> QED  BY DraftInvariant, PromiseInitial, <1>1, PTL
              DEF DraftSpec, ImplementsPromise, Promise!Spec
=============================================================================
