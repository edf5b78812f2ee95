----------------------------- MODULE GmailDrafts -----------------------------
(***************************************************************************)
(* Eva-managed Gmail drafts: the proposals, approvals and revision         *)
(* sessions that decide what may be done to a draft, composed with the     *)
(* executor that does it and with the user, who presses the buttons of an  *)
(* approval card and also owns the mailbox.                                *)
(*                                                                         *)
(* A proposal and its only Action share one id, <<draft, capability,       *)
(* version>>, because the code derives each uuid5 key from the other: the  *)
(* version of a send counts the draft's contents, and an update or delete  *)
(* carries the version of the send proposal it supersedes.  All drafts     *)
(* belong to one user with one paired Telegram account.  A content stands  *)
(* for its canonical hash.                                                 *)
(***************************************************************************)
EXTENDS Naturals, FiniteSets

CONSTANTS Drafts, Contents, Handlers, None,
          MaxVersion,   \* bound on the versions of a draft
          MaxFaults     \* bound on the executor's faults

ASSUME FaultsAssumption == MaxFaults \in Nat
ASSUME VersionAssumption == MaxVersion \in Nat \ {0}
ASSUME ContentAssumption == Contents \intersect {"none", "edited", "raced", "removed"} = {}

VARIABLES
  action, task, holder, pc, job, verdict, applied, faults,  \* see ActionExecutor
  proposal,   \* action_proposals: status and message
  approval,   \* action_approvals: status, and whether expires_at has passed
  managed,    \* managed_gmail_drafts: status, active send version, content hash
  revision,   \* action_revision_sessions, named after the approval they opened from
  gmail,      \* the draft in the mailbox
  sent        \* what Gmail sent: version and the content it had at that moment

executorVars == <<action, task, holder, pc, job, verdict, applied, faults>>
decisionVars == <<proposal, approval, managed, revision>>
mailVars == <<gmail, sent>>
draftVars == <<executorVars, decisionVars, mailVars>>

Versions == 1 .. MaxVersion
Create(d) == <<d, "CREATE", 0>>
Send(d, v) == <<d, "SEND", v>>
Update(d, v) == <<d, "UPDATE", v>>
Delete(d, v) == <<d, "DELETE", v>>

Creates == {Create(d) : d \in Drafts}
Sends == Drafts \X {"SEND"} \X Versions
Updates == Drafts \X {"UPDATE"} \X (1 .. MaxVersion - 1)
Deletes == Drafts \X {"DELETE"} \X Versions
Proposals == Creates \union Sends \union Updates \union Deletes
ASSUME NoneAssumption == None \notin Proposals \union Handlers

Draft(p) == p[1]
Capability(p) == p[2]
Version(p) == p[3]

(* The Actions whose Gmail draft the user took away.                       *)
Missing == {p \in Proposals \ Creates : gmail[Draft(p)] = "removed"}

Executor == INSTANCE ActionExecutor
  WITH Actions <- Proposals, Once <- Creates \union Sends, missing <- Missing

InFlight(p) == action[p].status \in {"QUEUED", "RUNNING"}
NoDraft == [status |-> "ABSENT", active |-> 0, content |-> "none"]

DraftInit ==
  /\ proposal = [p \in Proposals |-> [status |-> "ABSENT", content |-> "none"]]
  /\ approval = [s \in Sends |-> [status |-> "ABSENT", lapsed |-> FALSE]]
  /\ managed = [d \in Drafts |-> NoDraft]
  /\ revision = [s \in Sends |-> [status |-> "ABSENT", lapsed |-> FALSE]]
  /\ gmail = [d \in Drafts |-> "none"]
  /\ sent = [d \in Drafts |-> {}]
  /\ Executor!Init

-----------------------------------------------------------------------------
(* The row that _managed_draft_for_proposal, load_execution_subject and    *)
(* the completions select: the draft whose active send proposal is the one *)
(* this proposal is, or supersedes.                                        *)
HasManaged(p) ==
  /\ p \notin Creates
  /\ managed[Draft(p)].status # "ABSENT"
  /\ managed[Draft(p)].active = Version(p)

ManagedAs(p, s) ==
  IF HasManaged(p) THEN [managed EXCEPT ![Draft(p)].status = s] ELSE managed

ProposalAs(p, s) == [proposal EXCEPT ![p].status = s]

(* A proposal inserted with its message, and its Action queued.            *)
Queued(p, c) == [proposal EXCEPT ![p] = [status |-> "QUEUED", content |-> c]]

(* create_allowed_action: the agent or a conversation proposes a draft.    *)
ProposeDraft(d, c) ==
  /\ proposal[Create(d)].status = "ABSENT"
  /\ proposal' = Queued(Create(d), c)
  /\ UNCHANGED <<approval, managed, revision, mailVars>>
  /\ Executor!QueueAction(Create(d))

-----------------------------------------------------------------------------
(* Bug: the statuses of the approval and the proposal swapped.             *)
DecidedSwapped(s, approvalStatus, proposalStatus) ==
  /\ approval[s].status = "PENDING"
  /\ approval' = [approval EXCEPT ![s].status = proposalStatus]
  /\ proposal' = ProposalAs(s, approvalStatus)

(* The buttons of an approval card.  Each callback locks the approval and  *)
(* its proposal; only a PENDING approval is decided, and a repeated press  *)
(* changes nothing.                                                        *)
Decided(s, approvalStatus, proposalStatus) ==
  /\ approval[s].status = "PENDING"
  /\ approval' = [approval EXCEPT ![s].status = approvalStatus]
  /\ proposal' = ProposalAs(s, proposalStatus)

Timely(s) == ~approval[s].lapsed

(* The approval and its proposal still describe the managed draft; if not  *)
(* the code supersedes both instead of acting (PendingIsCurrent shows that *)
(* branch is never taken).                                                 *)
Current(s) == HasManaged(s) /\ managed[Draft(s)].content = proposal[s].content

(* grant_and_queue_send.                                                   *)
Grant(s) ==
  /\ Timely(s) /\ Current(s)
  /\ Decided(s, "GRANTED", "APPROVED")
  /\ managed' = ManagedAs(s, "SENDING")
  /\ UNCHANGED <<revision, mailVars>>
  /\ Executor!QueueAction(s)

(* Bug: the offer stays open.                                              *)
OpenRevisionKeepsOffer(s) ==
  /\ Timely(s) /\ Current(s)
  /\ Decided(s, "PENDING", "WAITING_APPROVAL")
  /\ revision[s].status = "ABSENT"
  /\ revision' = [revision EXCEPT ![s] = [status |-> "ACTIVE", lapsed |-> FALSE]]
  /\ UNCHANGED <<managed, executorVars, mailVars>>

(* open_revision: the account's other session is cancelled first.          *)
OpenRevision(s) ==
  /\ Timely(s) /\ Current(s)
  /\ Decided(s, "SUPERSEDED", "SUPERSEDED")
  /\ revision' = [t \in Sends |->
       CASE t = s -> [status |-> "ACTIVE", lapsed |-> FALSE]
         [] t # s /\ revision[t].status = "ACTIVE" -> [revision[t] EXCEPT !.status = "CANCELLED"]
         [] OTHER -> revision[t]]
  /\ UNCHANGED <<managed, executorVars, mailVars>>

(* discard_and_queue_delete: the authority to send goes before the delete  *)
(* proposal is inserted and queued.                                        *)
Discard(s) ==
  LET p == Delete(Draft(s), Version(s)) IN
  /\ Timely(s) /\ Current(s)
  /\ approval[s].status = "PENDING"
  /\ approval' = [approval EXCEPT ![s].status = "REJECTED"]
  /\ proposal' = [Queued(p, proposal[s].content) EXCEPT ![s].status = "CANCELLED"]
  /\ managed' = ManagedAs(p, "DELETING")
  /\ UNCHANGED <<revision, mailVars>>
  /\ Executor!QueueAction(p)

(* Any button after expires_at.                                            *)
PressExpired(s) ==
  /\ ~Timely(s)
  /\ Decided(s, "EXPIRED", "EXPIRED")
  /\ UNCHANGED <<managed, revision, executorVars, mailVars>>

(* complete_revision: the user's next message became a replacement.        *)
(* MaxVersion bounds how often a draft is revised.                         *)
CompleteRevision(s, c) ==
  LET p == Update(Draft(s), Version(s)) IN
  /\ revision[s].status = "ACTIVE" /\ ~revision[s].lapsed
  /\ Current(s)
  /\ Version(s) < MaxVersion
  /\ proposal' = Queued(p, c)
  /\ managed' = ManagedAs(p, "UPDATING")
  /\ revision' = [revision EXCEPT ![s].status = "COMPLETED"]
  /\ UNCHANGED <<approval, mailVars>>
  /\ Executor!QueueAction(p)

(* load_revision on a session whose time has passed.                       *)
ExpireRevision(s) ==
  /\ revision[s].status = "ACTIVE" /\ revision[s].lapsed
  /\ revision' = [revision EXCEPT ![s].status = "EXPIRED"]
  /\ UNCHANGED <<proposal, approval, managed, executorVars, mailVars>>

(* expires_at of an approval (and of its proposal) or of a session passes. *)
TimePasses(s) ==
  /\ \/ /\ approval[s].status \in {"PENDING", "GRANTED"} /\ Timely(s)
        /\ approval' = [approval EXCEPT ![s].lapsed = TRUE]
        /\ UNCHANGED revision
     \/ /\ revision[s].status = "ACTIVE" /\ ~revision[s].lapsed
        /\ revision' = [revision EXCEPT ![s].lapsed = TRUE]
        /\ UNCHANGED approval
  /\ UNCHANGED <<proposal, managed, executorVars, mailVars>>

-----------------------------------------------------------------------------
(* The executor's steps, with what each transaction does to the other      *)
(* tables and each call to the mailbox.                                    *)
Claim(h, p) ==
  /\ UNCHANGED <<decisionVars, mailVars>>
  /\ Executor!ClaimAction(h, p) \/ Executor!ClaimTerminal(h, p)

(* Bug: a lapsed claim is queued again, boundary or not.                   *)
RequeueLapsed(h, p) ==
  /\ action[p].status = "RUNNING" /\ action[p].lease = "lapsed"
  /\ action' = Executor!Ended(p, "QUEUED")
  /\ UNCHANGED <<task, holder, pc, job, verdict, applied, faults, decisionVars, mailVars>>

GiveUpLapsed(h, p) ==
  /\ proposal' = ProposalAs(p, "FAILED")
  /\ managed' = ManagedAs(p, "UNKNOWN")
  /\ UNCHANGED <<approval, revision, mailVars>>
  /\ Executor!ClaimLapsed(h, p)

(* _revalidate, for an Action whose claim is still held.                   *)
Revalidates(p) ==
  CASE p \in Creates -> proposal[p].status = "QUEUED"
    [] p \in Sends ->
         /\ proposal[p].status = "APPROVED"
         /\ approval[p].status = "GRANTED" /\ Timely(p)
         /\ Current(p)
    [] OTHER -> proposal[p].status = "QUEUED" /\ HasManaged(p)

(* A create or update is also refused while no Telegram account is active, *)
(* since nobody could be asked to approve the result.                      *)
MayRefuse(p) == ~Revalidates(p) \/ p \in Creates \union Updates

Load(h) ==
  /\ UNCHANGED <<decisionVars, mailVars>>
  /\ Executor!LoadSubject(h)
  /\ pc'[h] = "loaded" => Revalidates(job[h])
  /\ verdict'[h] = "validation" => MayRefuse(job[h])

(* Before a send, _provider_draft_matches compares Gmail's draft with the  *)
(* proposal.                                                               *)
Matches(p) == gmail[Draft(p)] = proposal[p].content

(* Bug: the draft is fetched and not compared.                             *)
CheckDraftBlind(h) ==
  /\ UNCHANGED <<decisionVars, mailVars>>
  /\ Executor!CheckProvider(h)
  /\ verdict'[h] # "validation"

CheckDraft(h) ==
  /\ UNCHANGED <<decisionVars, mailVars>>
  /\ Executor!CheckProvider(h)
  /\ pc'[h] = "checked" /\ job[h] \in Sends => Matches(job[h])
  /\ verdict'[h] = "validation" => ~Matches(job[h])

CrossBoundary(h) ==
  /\ UNCHANGED <<decisionVars, mailVars>>
  /\ Executor!BeginProviderCall(h)

(* What one successful Gmail request does to the mailbox.                  *)
Mutate(p) ==
  LET d == Draft(p) IN
  \/ /\ p \in Creates \union Updates
     /\ gmail[d] # "none" \/ p \in Creates
     /\ gmail' = [gmail EXCEPT ![d] = proposal[p].content]
     /\ UNCHANGED sent
  \/ /\ p \in Deletes /\ gmail[d] # "none"
     /\ gmail' = [gmail EXCEPT ![d] = "none"]
     /\ UNCHANGED sent
  \/ /\ p \in Sends /\ gmail[d] # "none"
     /\ gmail' = [gmail EXCEPT ![d] = "none"]
     /\ sent' = [sent EXCEPT ![d] = @ \union {<<Version(p), gmail[d]>>}]

CallGmail(h) ==
  /\ Executor!Working(h, "calling")
  /\ UNCHANGED decisionVars
  /\ \/ /\ Mutate(job[h])
        /\ Executor!CallProvider(h)
        /\ applied' # applied
     \/ /\ UNCHANGED mailVars
        /\ Executor!CallProvider(h)
        /\ applied' = applied

(* A fresh send proposal and approval for the content now in Gmail.        *)
Offered(tables, s, c) == [tables EXCEPT ![s] = [status |-> "WAITING_APPROVAL", content |-> c]]

Ask(s) == [approval EXCEPT ![s] = [status |-> "PENDING", lapsed |-> FALSE]]

(* Bug: the managed draft keeps the hash of the content it had.            *)
CompletedKeepsHash(p) ==
  LET d == Draft(p)
      next == IF p \in Creates THEN 1 ELSE managed[d].active + 1
  IN IF p \in Creates \union Updates
       THEN /\ proposal' = Offered(ProposalAs(p, "COMPLETED"), Send(d, next), proposal[p].content)
            /\ approval' = Ask(Send(d, next))
            /\ managed' = [managed EXCEPT ![d].status = "READY", ![d].active = next]
       ELSE /\ proposal' = ProposalAs(p, "COMPLETED")
            /\ managed' = ManagedAs(p, IF p \in Sends THEN "SENT" ELSE "DELETED")
            /\ UNCHANGED approval

(* complete_create_draft and complete_update_draft, complete_send_draft    *)
(* and complete_delete_draft, when the claim is still held.                *)
Completed(p) ==
  LET d == Draft(p)
      done == ProposalAs(p, "COMPLETED")
      next == IF p \in Creates THEN 1 ELSE managed[d].active + 1
  IN IF p \in Creates \union Updates
       THEN /\ proposal' = Offered(done, Send(d, next), proposal[p].content)
            /\ approval' = Ask(Send(d, next))
            /\ managed' = [managed EXCEPT ![d] = [status |-> "READY", active |-> next,
                                                  content |-> proposal[p].content]]
       ELSE /\ proposal' = done
            /\ managed' = ManagedAs(p, IF p \in Sends THEN "SENT" ELSE "DELETED")
            /\ UNCHANGED approval

CompleteAction(h) ==
  /\ UNCHANGED <<revision, mailVars>>
  /\ Executor!Complete(h)
  /\ IF action' # action THEN Completed(job[h]) ELSE UNCHANGED <<proposal, approval, managed>>

(* Bug: a failure leaves the managed draft as it was.                      *)
FinishActionOnly(h) ==
  /\ UNCHANGED <<approval, managed, revision, mailVars>>
  /\ Executor!Finish(h)
  /\ proposal' = IF Executor!Finishes(h) /\ verdict[h] # "release"
                   THEN ProposalAs(job[h], "FAILED") ELSE proposal

(* A release leaves the tables alone; a failure makes the draft READY      *)
(* again, and an uncertain outcome makes it UNKNOWN.                       *)
FinishAction(h) ==
  /\ UNCHANGED <<approval, revision, mailVars>>
  /\ Executor!Finish(h)
  /\ IF Executor!Finishes(h) /\ verdict[h] # "release"
       THEN /\ proposal' = ProposalAs(job[h], "FAILED")
            /\ managed' = ManagedAs(job[h], IF verdict[h] = "unknown" THEN "UNKNOWN" ELSE "READY")
       ELSE UNCHANGED <<proposal, managed>>

Undisturbed(h) == UNCHANGED <<decisionVars, mailVars>> /\ Executor!Crash(h)

Schedule(p) ==
  /\ UNCHANGED <<decisionVars, mailVars>>
  /\ Executor!EnqueueTask(p) \/ Executor!LeaseExpires(p)

-----------------------------------------------------------------------------
(* The user edits the draft in Gmail.  "raced" marks an edit made after a  *)
(* send has compared the draft and before Gmail has sent it.               *)
Racing(d) ==
  \E h \in Handlers : pc[h] \in {"checked", "calling"} /\ job[h] \in Sends /\ Draft(job[h]) = d

EditInGmail(d) ==
  /\ gmail[d] \in Contents
  /\ gmail' = [gmail EXCEPT ![d] = IF Racing(d) THEN "raced" ELSE "edited"]
  /\ UNCHANGED <<executorVars, decisionVars, sent>>

(* The user deletes the draft, or sends it by hand.                        *)
RemoveInGmail(d) ==
  /\ gmail[d] \in Contents \union {"edited", "raced"}
  /\ gmail' = [gmail EXCEPT ![d] = "removed"]
  /\ UNCHANGED <<decisionVars, sent>>
  /\ Executor!RemoveDrafts({p \in Proposals \ Creates : Draft(p) = d})

HandlerStep(h) ==
  \/ Load(h) \/ CheckDraft(h) \/ CrossBoundary(h) \/ CallGmail(h)
  \/ CompleteAction(h) \/ FinishAction(h) \/ Undisturbed(h)

UserStep ==
  \/ \E s \in Sends : \/ Grant(s) \/ OpenRevision(s) \/ Discard(s) \/ PressExpired(s)
                      \/ ExpireRevision(s) \/ TimePasses(s)
                      \/ \E c \in Contents : CompleteRevision(s, c)
  \/ \E d \in Drafts : \/ EditInGmail(d) \/ RemoveInGmail(d)
                       \/ \E c \in Contents : ProposeDraft(d, c)

DraftNext ==
  \/ UserStep
  \/ \E p \in Proposals : Schedule(p)
  \/ \E h \in Handlers, p \in Proposals : Claim(h, p) \/ GiveUpLapsed(h, p)
  \/ \E h \in Handlers : HandlerStep(h)

DraftSpec == DraftInit /\ [][DraftNext]_draftVars

-----------------------------------------------------------------------------
DraftTypeOK ==
  /\ Executor!TypeOK
  /\ proposal \in [Proposals ->
       [status : {"ABSENT", "WAITING_APPROVAL", "QUEUED", "APPROVED", "COMPLETED", "FAILED",
                  "EXPIRED", "SUPERSEDED", "CANCELLED"}, content : Contents \union {"none"}]]
  /\ approval \in [Sends ->
       [status : {"ABSENT", "PENDING", "GRANTED", "REJECTED", "EXPIRED", "SUPERSEDED"},
        lapsed : BOOLEAN]]
  /\ managed \in [Drafts ->
       [status : {"ABSENT", "READY", "UPDATING", "SENDING", "SENT", "DELETING", "DELETED",
                  "UNKNOWN"}, active : 0 .. MaxVersion, content : Contents \union {"none"}]]
  /\ revision \in [Sends ->
       [status : {"ABSENT", "ACTIVE", "COMPLETED", "EXPIRED", "CANCELLED"}, lapsed : BOOLEAN]]
  /\ gmail \in [Drafts -> Contents \union {"none", "edited", "raced", "removed"}]
  /\ sent \in [Drafts -> SUBSET (Versions \X (Contents \union {"edited", "raced"}))]

(* Whatever Gmail sent, the user had granted that version and Gmail sent   *)
(* its exact content, unless the user edited the draft between the         *)
(* executor's comparison and the send (executor.execute, README 253).      *)
SentWasApproved ==
  \A d \in Drafts : \A m \in sent[d] :
    LET s == Send(d, m[1]) IN
    /\ approval[s].status = "GRANTED"
    /\ m[2] \in {proposal[s].content, "raced"}

(* An approval that can still be granted describes the draft as it is:     *)
(* nothing is being done to it, and its active version and content are     *)
(* the approval's.  So the stale branch of the three callbacks is dead.    *)
PendingIsCurrent ==
  \A s \in Sends : approval[s].status = "PENDING" =>
    /\ Current(s) /\ managed[Draft(s)].status = "READY"
    /\ \A p \in Proposals : Draft(p) = Draft(s) => ~InFlight(p)
    /\ revision[s].status = "ABSENT"

(* The managed draft's status tells which Action is working on it, and at  *)
(* most one is; it is SENT only if Gmail sent the draft, and open to       *)
(* another try or gone only if Gmail did not (the status writes of         *)
(* grant_and_queue_send, complete_revision, discard_and_queue_delete and   *)
(* the outcomes).                                                          *)
ManagedStatusAgrees ==
  \A d \in Drafts :
    LET v == managed[d].active
        busy == {p \in Proposals \ Creates : Draft(p) = d /\ InFlight(p)}
    IN /\ busy = CASE managed[d].status = "SENDING" -> {Send(d, v)}
                   [] managed[d].status = "UPDATING" -> {Update(d, v)}
                   [] managed[d].status = "DELETING" -> {Delete(d, v)}
                   [] OTHER -> {}
       /\ managed[d].status = "SENT" => sent[d] # {}
       /\ sent[d] # {} => managed[d].status \in {"SENDING", "SENT", "UNKNOWN"}

(* The drafts' steps are steps of the executor (actions/executor.py under  *)
(* actions/repository.py): the other tables only restrict it.              *)
ImplementsExecutor == Executor!Spec

(* And they keep the promise about a draft: its offer is the approval that *)
(* is PENDING or GRANTED (grant_and_queue_send to CallGmail).              *)
Live(d) == {v \in Versions : approval[Send(d, v)].status \in {"PENDING", "GRANTED"}}

Phase(d) ==
  CASE sent[d] # {} -> "mailed"
    [] sent[d] = {} /\ (\E v \in Live(d) : approval[Send(d, v)].status = "GRANTED") -> "approved"
    [] sent[d] = {} /\ (\E v \in Live(d) : approval[Send(d, v)].status = "PENDING") -> "open"
    [] OTHER -> "closed"

Shown(d) ==
  IF Live(d) = {} THEN "none" ELSE proposal[Send(d, CHOOSE v \in Live(d) : TRUE)].content

Mailed(d) == IF sent[d] = {} THEN "none" ELSE (CHOOSE m \in sent[d] : TRUE)[2]

Promise == INSTANCE ExactSend
  WITH Nothing <- "none", Raced <- "raced",
       phase <- [d \in Drafts |-> Phase(d)],
       shown <- [d \in Drafts |-> Shown(d)],
       mailed <- [d \in Drafts |-> Mailed(d)]

ImplementsPromise == Promise!Spec
=============================================================================
