------------------------------ MODULE GmailSync ------------------------------
(***************************************************************************)
(* Ingestion of one Gmail mailbox: the connector account and its sync      *)
(* state, the workers that synchronise it under a database lease, the      *)
(* recovery from an expired history cursor, the watch renewal, and the     *)
(* bootstrap command that connects the account and connects it again after *)
(* its authorization was revoked.                                          *)
(*                                                                         *)
(* A message is named by the history id at which it was added, and times   *)
(* are ordered as history is, so connected_at is the history id at which   *)
(* its clock was read.  A worker's name stands for the fresh UUID of its   *)
(* claim: it works on one claim at a time.  A grant is an OAuth consent.   *)
(***************************************************************************)
EXTENDS Integers, FiniteSets

CONSTANTS Workers, None,
          Old,         \* history id before Eva is first connected
          MaxMail,     \* bound on history ids
          Malformed,   \* messages normalize_message cannot represent
          MaxGrants,   \* bound on consents
          MaxFaults    \* bound on crashes, errors, expired cursors and slow workers

ASSUME MailAssumption ==
  /\ MaxMail \in Nat /\ Old \in 0 .. MaxMail /\ Malformed \subseteq 1 .. MaxMail
  /\ None \notin Workers /\ MaxGrants \in Nat /\ MaxFaults \in Nat

VARIABLES
  account,   \* connector_accounts: status, connected_at; gmail_sync_states: history_id
  sync,      \* gmail_sync_states: claim_id and lease
  worker,    \* what each worker holds in memory
  boot,      \* the connect command
  secret,    \* the latest version in Secret Manager
  revoked,   \* grants the user revoked
  arrived,   \* the mailbox's history id
  inbox,     \* messages that carry the INBOX label
  events,    \* messages with a durable Event
  notices,   \* Pub/Sub notifications, by the history id they carry
  faults

mailVars == <<arrived, inbox>>
grantVars == <<secret, revoked>>
syncVars == <<account, sync, worker, boot, grantVars, mailVars, events, notices, faults>>

Unset == -1   \* a NULL history_id or connected_at
Ids == 1 .. MaxMail
Free == [claim |-> None, lease |-> "none"]
Idle == [pc |-> "idle", notice |-> 0, grant |-> 0, read |-> Unset, listed |-> {}, final |-> Unset]
NoBoot == [pc |-> "idle", grant |-> 0, boundary |-> Unset, profile |-> Unset]

SyncInit ==
  /\ account = [status |-> "ABSENT", connected |-> Unset, cursor |-> Unset]
  /\ sync = Free
  /\ worker = [w \in Workers |-> Idle]
  /\ boot = NoBoot
  /\ secret = 0 /\ revoked = {}
  /\ arrived = Old /\ inbox = 1 .. Old
  /\ events = {}
  /\ notices = [n \in Ids |-> "none"]
  /\ faults = 0

Fault == faults < MaxFaults /\ faults' = faults + 1

-----------------------------------------------------------------------------
(* The mailbox, the user and Pub/Sub.  Mail that is not for the inbox      *)
(* (sent mail, drafts) is in the history too.  A message that leaves the   *)
(* inbox is archived or deleted; it does not come back.                    *)
NewMail ==
  /\ arrived < MaxMail
  /\ arrived' = arrived + 1
  /\ inbox' \in {inbox, inbox \union {arrived + 1}}
  /\ notices' \in {notices, [notices EXCEPT ![arrived + 1] = "out"]}
  /\ UNCHANGED <<account, sync, worker, boot, grantVars, events, faults>>

LeaveInbox(i) ==
  /\ i \in inbox /\ i > Old
  /\ inbox' = inbox \ {i}
  /\ UNCHANGED <<account, sync, worker, boot, grantVars, arrived, events, notices, faults>>

RevokeGrant ==
  /\ secret \notin revoked \union {0}
  /\ revoked' = revoked \union {secret}
  /\ UNCHANGED <<account, sync, worker, boot, secret, mailVars, events, notices, faults>>

-----------------------------------------------------------------------------
(* The repository's transitions.                                           *)
MayClaim ==
  /\ account.status = "ACTIVE"
  /\ sync.claim = None \/ sync.lease = "lapsed"

Claimed(w) == [claim |-> w, lease |-> "live"]

(* complete_sync and complete_recovery.                                    *)
MayComplete(w, final) ==
  /\ sync.claim = w
  /\ account.cursor <= final

(* Bug: the lease of a released claim stays.                               *)
ReleasedClaim(w) == IF sync.claim = w THEN [sync EXCEPT !.claim = None] ELSE sync

(* release_sync, and the end of record_watch_renewal.                      *)
Released(w) == IF sync.claim = w THEN Free ELSE sync

(* mark_reauthorization_required and mark_error clear any claim.           *)
MarkStatus(s) ==
  /\ account' = [account EXCEPT !.status = s]
  /\ sync' = Free

-----------------------------------------------------------------------------
(* A notification that needs no synchronization is acknowledged.  While    *)
(* the connector is CONNECTING or in ERROR, or another worker is BUSY, it  *)
(* is not, and comes again.  (GmailSyncService.handle)                     *)
DropNotice(n) ==
  /\ notices[n] = "out"
  /\ \/ /\ account.status = "REAUTHORIZATION_REQUIRED"
        /\ notices' = [notices EXCEPT ![n] = "none"]
     \/ /\ account.status = "ACTIVE" /\ account.cursor >= n
        /\ notices' = [notices EXCEPT ![n] = "acked"]
  /\ UNCHANGED <<account, sync, worker, boot, grantVars, mailVars, events, faults>>

(* sync_connector, for a notification the cursor does not cover (n), or    *)
(* for the safety sync and the sync command (0); claim_sync.               *)
ClaimSync(w, n) ==
  /\ worker[w].pc = "idle" /\ MayClaim
  /\ n # 0 => notices[n] = "out" /\ account.cursor < n
  /\ sync' = Claimed(w)
  /\ worker' = [worker EXCEPT ![w] = [Idle EXCEPT !.pc = "claimed", !.notice = n,
                                                   !.read = account.cursor]]
  /\ UNCHANGED <<account, boot, grantVars, mailVars, events, notices, faults>>

(* GmailMaintenanceService._renew.                                         *)
ClaimRenewal(w) ==
  /\ worker[w].pc = "idle" /\ MayClaim
  /\ sync' = Claimed(w)
  /\ worker' = [worker EXCEPT ![w] = [Idle EXCEPT !.pc = "renewing", !.grant = secret]]
  /\ UNCHANGED <<account, boot, grantVars, mailVars, events, notices, faults>>

(* CredentialStore.get reads the latest secret version.                    *)
LoadCredentials(w) ==
  /\ worker[w].pc = "claimed"
  /\ worker' = [worker EXCEPT ![w].pc = "listing", ![w].grant = secret]
  /\ UNCHANGED <<account, sync, boot, grantVars, mailVars, events, notices, faults>>

Authorized(w) == worker[w].grant \notin revoked

(* One page of list_history: the next records, and the mailbox's history   *)
(* id; the last page reaches that id.                                      *)
ListPage(w) ==
  /\ worker[w].pc = "listing" /\ Authorized(w)
  /\ LET seen == worker[w]
     IN \E upto \in (seen.read + 1 .. arrived) \union {arrived} :
          worker' = [worker EXCEPT ![w] =
            [seen EXCEPT !.listed = seen.listed \union (seen.read + 1 .. upto), !.final = arrived,
                         !.read = IF upto = arrived THEN Unset ELSE upto,
                         !.pc = IF upto = arrived THEN "fetching" ELSE "listing"]]
  /\ UNCHANGED <<account, sync, boot, grantVars, mailVars, events, notices, faults>>

(* list_history answers 404: the cursor is too old.  recover first sets up *)
(* the watch whose history id will be the new cursor, then scans the inbox *)
(* from connected_at; the query counts in whole seconds.                   *)
HistoryExpired(w) ==
  /\ worker[w].pc = "listing" /\ Authorized(w) /\ Fault
  /\ worker' = [worker EXCEPT ![w].pc = "scanning", ![w].read = Unset,
                              ![w].listed = {}, ![w].final = arrived]
  /\ UNCHANGED <<account, sync, boot, grantVars, mailVars, events, notices>>

ScanInbox(w) ==
  /\ worker[w].pc = "scanning" /\ Authorized(w)
  /\ worker' = [worker EXCEPT ![w].pc = "fetching",
                              ![w].listed = {i \in inbox : i >= account.connected}]
  /\ UNCHANGED <<account, sync, boot, grantVars, mailVars, events, notices, faults>>

(* Bug: mail from before the connection is not filtered out.               *)
WantedAny(i) == i \in inbox

(* A message that is gone, has left the inbox, or was received before      *)
(* connected_at becomes no Event.                                          *)
Wanted(i) == i \in inbox /\ i > account.connected

(* get_message, normalize_message and EventService.ingest, for one of the  *)
(* listed messages.                                                        *)
FetchMessage(w, i) ==
  /\ worker[w].pc = "fetching" /\ Authorized(w)
  /\ i \in worker[w].listed
  /\ i \in inbox => i \notin Malformed
  /\ worker' = [worker EXCEPT ![w].listed = @ \ {i}]
  /\ events' = IF Wanted(i) THEN events \union {i} ELSE events
  /\ UNCHANGED <<account, sync, boot, grantVars, mailVars, notices, faults>>

(* Bug: the cutover is taken after the scan.                               *)
NewCursorLate(w) == arrived

(* final_history_id, or the history id of the watch a recovery set up.     *)
NewCursor(w) == worker[w].final

(* complete_sync or complete_recovery after the last Event, and then the   *)
(* acknowledgement, which may be lost.  If the row is not updated the      *)
(* attempt fails and its own claim, if still there, is released.           *)
CompleteSync(w) ==
  /\ worker[w].pc = "fetching" /\ worker[w].listed = {}
  /\ worker' = [worker EXCEPT ![w] = Idle]
  /\ \/ /\ MayComplete(w, NewCursor(w))
        /\ account' = [account EXCEPT !.cursor = NewCursor(w)]
        /\ sync' = Free
        /\ notices' \in {notices} \union
             {[notices EXCEPT ![n] = "acked"] : n \in {worker[w].notice} \ {0}}
     \/ /\ ~MayComplete(w, NewCursor(w))
        /\ sync' = Released(w)
        /\ UNCHANGED <<account, notices>>
  /\ UNCHANGED <<boot, grantVars, mailVars, events, faults>>

(* watch and record_watch_renewal; or the renewal is found not to be due.  *)
RenewWatch(w) ==
  /\ worker[w].pc = "renewing"
  /\ worker' = [worker EXCEPT ![w] = Idle]
  /\ sync' = Released(w)
  /\ UNCHANGED <<account, boot, grantVars, mailVars, events, notices, faults>>

(* A transient provider or database error, or a message that cannot be     *)
(* normalized: the claim is released and the notification comes again.     *)
FailSync(w) ==
  /\ worker[w].pc \notin {"idle", "marking"}
  /\ worker' = [worker EXCEPT ![w] = Idle]
  /\ sync' = Released(w)
  /\ \/ /\ worker[w].pc = "fetching" /\ worker[w].listed \intersect inbox \intersect Malformed # {}
        /\ UNCHANGED faults
     \/ Fault
  /\ UNCHANGED <<account, boot, grantVars, mailVars, events, notices>>

(* Gmail answers that the grant is revoked.                                *)
FindRevoked(w) ==
  /\ worker[w].pc \in {"listing", "scanning", "fetching", "renewing"} /\ ~Authorized(w)
  /\ worker' = [worker EXCEPT ![w].pc = "marking"]
  /\ UNCHANGED <<account, sync, boot, grantVars, mailVars, events, notices, faults>>

(* _mark_reauthorization, whoever has the claim by now; the notification   *)
(* is then acknowledged.                                                   *)
MarkReauthorization(w) ==
  /\ worker[w].pc = "marking"
  /\ worker' = [worker EXCEPT ![w] = Idle]
  /\ MarkStatus("REAUTHORIZATION_REQUIRED")
  /\ notices' \in {notices} \union
       {[notices EXCEPT ![n] = "none"] : n \in {worker[w].notice} \ {0}}
  /\ UNCHANGED <<boot, grantVars, mailVars, events, faults>>

(* The worker process dies, or its release fails.                          *)
CrashWorker(w) ==
  /\ worker[w].pc # "idle" /\ Fault
  /\ worker' = [worker EXCEPT ![w] = Idle]
  /\ UNCHANGED <<account, sync, boot, grantVars, mailVars, events, notices>>

(* lease_expires_at passes, under a worker that died or is only slow.      *)
LeaseExpires ==
  /\ sync.lease = "live"
  /\ sync' = [sync EXCEPT !.lease = "lapsed"]
  /\ IF worker[sync.claim].pc # "idle" THEN Fault ELSE UNCHANGED faults
  /\ UNCHANGED <<account, worker, boot, grantVars, mailVars, events, notices>>

-----------------------------------------------------------------------------
(* GmailBootstrapService.connect: the user consents again and again, at    *)
(* most MaxGrants times.  The clock is read before the profile.            *)
Consent ==
  /\ boot.pc = "idle" /\ secret < MaxGrants
  /\ boot' = [NoBoot EXCEPT !.pc = "consented", !.grant = secret + 1, !.boundary = arrived]
  /\ UNCHANGED <<account, sync, worker, grantVars, mailVars, events, notices, faults>>

(* get_profile and reserve_gmail, which moves only an ERROR connector.     *)
Reserve ==
  /\ boot.pc = "consented"
  /\ boot' = [boot EXCEPT !.pc = "reserved", !.profile = arrived]
  /\ account' = [account EXCEPT !.status = IF @ \in {"ABSENT", "ERROR"} THEN "CONNECTING" ELSE @]
  /\ UNCHANGED <<sync, worker, grantVars, mailVars, events, notices, faults>>

(* CredentialStore.put and attach_secret: the new version is the latest.   *)
StoreGrant ==
  /\ boot.pc = "reserved"
  /\ boot' = [boot EXCEPT !.pc = "stored"]
  /\ secret' = boot.grant
  /\ UNCHANGED <<account, sync, worker, revoked, mailVars, events, notices, faults>>

(* Bug: a new connection starts from the present.                          *)
PrepareWatchAnew ==
  /\ boot.pc = "stored"
  /\ boot' = [boot EXCEPT !.pc = "prepared"]
  /\ account' = [account EXCEPT !.connected = boot.boundary, !.cursor = boot.profile]
  /\ UNCHANGED <<sync, worker, grantVars, mailVars, events, notices, faults>>

(* prepare_initial_watch: the first boundary is kept for ever.             *)
PrepareWatch ==
  /\ boot.pc = "stored"
  /\ boot' = [boot EXCEPT !.pc = "prepared"]
  /\ account' = [account EXCEPT !.connected = IF @ = Unset THEN boot.boundary ELSE @,
                                !.cursor = IF @ = Unset THEN boot.profile ELSE @]
  /\ UNCHANGED <<sync, worker, grantVars, mailVars, events, notices, faults>>

(* watch, unless the grant was revoked already, and activate_initial_watch *)
Activate ==
  /\ boot.pc = "prepared" /\ boot.grant \notin revoked
  /\ boot' = NoBoot
  /\ account' = [account EXCEPT !.status = IF @ = "ERROR" THEN @ ELSE "ACTIVE"]
  /\ UNCHANGED <<sync, worker, grantVars, mailVars, events, notices, faults>>

(* _persist_failure_state.  Before the reservation nothing is written, and *)
(* nothing is when the command is killed.                                  *)
FailBoot ==
  /\ boot.pc # "idle"
  /\ boot' = NoBoot
  /\ \/ /\ boot.pc = "prepared" /\ boot.grant \in revoked
        /\ MarkStatus("REAUTHORIZATION_REQUIRED") /\ UNCHANGED faults
     \/ boot.pc \in {"reserved", "stored", "prepared"} /\ MarkStatus("ERROR") /\ Fault
     \/ UNCHANGED <<account, sync>> /\ Fault
  /\ UNCHANGED <<worker, grantVars, mailVars, events, notices>>

(* mark_execution_unavailable: the executor found the grant revoked, or    *)
(* found that one it had loaded earlier was.  It leaves the claim alone.   *)
ActionFindsRevoked ==
  /\ revoked # {} /\ account.status = "ACTIVE"
  /\ account' = [account EXCEPT !.status = "REAUTHORIZATION_REQUIRED"]
  /\ UNCHANGED <<sync, worker, boot, grantVars, mailVars, events, notices, faults>>

-----------------------------------------------------------------------------
WorkerStep(w) ==
  \/ LoadCredentials(w) \/ ListPage(w) \/ ScanInbox(w) \/ CompleteSync(w) \/ RenewWatch(w)
  \/ FindRevoked(w) \/ MarkReauthorization(w) \/ \E i \in Ids : FetchMessage(w, i)

Setback(w) == HistoryExpired(w) \/ FailSync(w) \/ CrashWorker(w)

Bootstrap ==
  Consent \/ Reserve \/ StoreGrant \/ PrepareWatch \/ Activate \/ FailBoot

SyncNext ==
  \/ NewMail \/ RevokeGrant \/ LeaseExpires \/ Bootstrap \/ ActionFindsRevoked
  \/ \E n \in Ids : LeaveInbox(n) \/ DropNotice(n)
  \/ \E w \in Workers : \/ WorkerStep(w) \/ Setback(w) \/ ClaimRenewal(w)
                        \/ \E n \in Ids \union {0} : ClaimSync(w, n)

SyncSpec == SyncInit /\ [][SyncNext]_syncVars

(* A worker that has begun goes on, and a lease lapses.  The safety sync   *)
(* comes round every hour and right after any renewal, which is due once a *)
(* day, so renewals cannot keep it from the claim for ever.  Nothing is    *)
(* assumed of notifications, of the user or of faults.                     *)
SyncFairness ==
  /\ WF_syncVars(LeaseExpires)
  /\ SF_syncVars(\E w \in Workers : ClaimSync(w, 0))
  /\ \A w \in Workers : WF_syncVars(WorkerStep(w))

FairSyncSpec == SyncSpec /\ SyncFairness

-----------------------------------------------------------------------------
SyncTypeOK ==
  /\ account \in [status : {"ABSENT", "CONNECTING", "ACTIVE", "REAUTHORIZATION_REQUIRED", "ERROR"},
                  connected : Ids \union {0, Unset}, cursor : Ids \union {0, Unset}]
  /\ sync \in [claim : Workers \union {None}, lease : {"none", "live", "lapsed"}]
  /\ sync.claim = None <=> sync.lease = "none"
  /\ worker \in [Workers -> [pc : {"idle", "claimed", "listing", "scanning", "fetching",
                                   "renewing", "marking"},
                             notice : Ids \union {0}, grant : 0 .. MaxGrants,
                             read : Ids \union {0, Unset}, listed : SUBSET (Ids \union {0}),
                             final : Ids \union {0, Unset}]]
  /\ boot \in [pc : {"idle", "consented", "reserved", "stored", "prepared"}, grant : 0 .. MaxGrants,
              boundary : Ids \union {0, Unset}, profile : Ids \union {0, Unset}]
  /\ secret \in 0 .. MaxGrants /\ revoked \subseteq 1 .. MaxGrants
  /\ arrived \in Old .. MaxMail /\ inbox \subseteq 1 .. arrived /\ events \subseteq 1 .. arrived
  /\ notices \in [Ids -> {"none", "out", "acked"}]
  /\ faults \in 0 .. MaxFaults

(* The durable cursor moves only forward, however late a completion comes, *)
(* and it passes a message only when it has its Event or is no longer in   *)
(* the inbox: pages, expiry, recovery, superseded workers and              *)
(* reconnections lose no mail (_synchronize_claim, recover,                *)
(* prepare_initial_watch).                                                 *)
CursorCoversMail ==
  [][/\ account'.cursor >= account.cursor
     /\ account.cursor # Unset =>
          \A i \in account.cursor + 1 .. account'.cursor :
            i \in events' \/ i \notin inbox']_syncVars

(* Mail received before the first connection is never imported, not by a   *)
(* recovery scan and not after a reconnection.                             *)
NothingBeforeConnection == \A i \in events : i > Old /\ i > account.connected

(* While the connector stays ACTIVE every message that stays in the inbox  *)
(* gets its Event, with notices lost, workers dead and cursors expired.    *)
EveryMailArrives ==
  <>[](account.status = "ACTIVE") =>
    \A i \in Ids :
      i \in inbox /\ account.cursor \in 0 .. i - 1 ~> i \in events \/ i \notin inbox
=============================================================================
