--------------------------- MODULE GmailSync_proofs ---------------------------
(***************************************************************************)
(* Proofs about GmailSync for any Workers, mailbox and bounds.             *)
(***************************************************************************)
EXTENDS GmailSync, TLAPS

Positions == Ids \union {0, Unset}
AccountRecord == [status : {"ABSENT", "CONNECTING", "ACTIVE", "REAUTHORIZATION_REQUIRED", "ERROR"},
                  connected : Positions, cursor : Positions]
WorkerRecord == [pc : {"idle", "claimed", "listing", "scanning", "fetching", "renewing", "marking"},
                 notice : Ids \union {0}, grant : 0 .. MaxGrants, read : Positions,
                 listed : SUBSET (Ids \union {0}), final : Positions]
BootRecord == [pc : {"idle", "consented", "reserved", "stored", "prepared"},
               grant : 0 .. MaxGrants, boundary : Positions, profile : Positions]

(* Mail after the cursor and up to some id is listed, has its Event, or is *)
(* not in the inbox.                                                       *)
CoveredUpTo(w, upto) ==
  \A i \in account.cursor + 1 .. upto : i \in worker[w].listed \union events \/ i \notin inbox

(* What a worker has seen of the mailbox, from the cursor as it is now.    *)
(* The cursor only grows, so a worker whose claim is gone knows it too.    *)
Knows(w) ==
  /\ worker[w].pc # "idle" => account.cursor # Unset
  /\ worker[w].pc \in {"claimed", "listing"} =>
       worker[w].read <= arrived /\ CoveredUpTo(w, worker[w].read)
  /\ worker[w].pc \in {"scanning", "fetching"} => worker[w].final <= arrived
  /\ worker[w].pc = "fetching" => CoveredUpTo(w, worker[w].final)

(* The cursor does not begin before connected_at, so what was received     *)
(* before the connection is behind the cursor.                             *)
AccountKnows ==
  /\ account.connected = Unset <=> account.cursor = Unset
  /\ account.cursor # Unset =>
       Old <= account.connected /\ account.connected <= account.cursor /\ account.cursor <= arrived
  /\ account.status = "ACTIVE" \/ events # {} => account.cursor # Unset

BootKnows ==
  /\ boot.pc # "idle" => Old <= boot.boundary /\ boot.boundary <= arrived
  /\ boot.pc \in {"reserved", "stored", "prepared"} =>
       boot.boundary <= boot.profile /\ boot.profile <= arrived
  /\ boot.pc = "prepared" => account.cursor # Unset

SyncInv ==
  /\ SyncTypeOK /\ AccountKnows /\ BootKnows /\ NothingBeforeConnection
  /\ \A w \in Workers : Knows(w)

(* The type invariant in parts, each the affair of other steps.            *)
LockOK ==
  /\ sync \in [claim : Workers \union {None}, lease : {"none", "live", "lapsed"}]
  /\ sync.claim = None <=> sync.lease = "none"

MailOK ==
  /\ secret \in 0 .. MaxGrants /\ revoked \subseteq 1 .. MaxGrants
  /\ arrived \in Old .. MaxMail /\ inbox \subseteq 1 .. arrived /\ events \subseteq 1 .. arrived
  /\ notices \in [Ids -> {"none", "out", "acked"}]
  /\ faults \in 0 .. MaxFaults

Typed ==
  /\ account \in AccountRecord /\ LockOK /\ worker \in [Workers -> WorkerRecord]
  /\ boot \in BootRecord /\ MailOK

LEMMA TypesSplit == SyncTypeOK <=> Typed
  BY DEF SyncTypeOK, Typed, LockOK, MailOK, AccountRecord, WorkerRecord, BootRecord, Positions

LEMMA Initial == SyncInit => SyncInv
  <1> SUFFICES ASSUME SyncInit PROVE SyncInv
    OBVIOUS
  <1> USE MailAssumption DEF SyncInit, Ids, Unset, Free, Idle, NoBoot
  <1>1. Typed
    BY DEF Typed, LockOK, MailOK, AccountRecord, WorkerRecord, BootRecord, Positions
  <1>2. AccountKnows /\ BootKnows /\ NothingBeforeConnection
    BY DEF AccountKnows, BootKnows, NothingBeforeConnection
  <1>3. \A w \in Workers : Knows(w)
    BY DEF Knows
  <1> QED  BY <1>1, <1>2, <1>3, TypesSplit DEF SyncInv

LEMMA FaultCounted ==
  ASSUME MailOK, Fault
  PROVE  faults' \in 0 .. MaxFaults
  BY MailAssumption DEF MailOK, Fault

-----------------------------------------------------------------------------
(* What every step does: the cursor, the Events and the mailbox grow, and  *)
(* only new mail comes to the inbox.                                       *)
Grows ==
  /\ account'.cursor >= account.cursor
  /\ events \subseteq events'
  /\ arrived' >= arrived
  /\ \A i \in inbox' : i \in inbox \/ i > arrived

LEMMA Numbers ==
  ASSUME Typed
  PROVE  /\ account.cursor \in Int /\ account.connected \in Int /\ account.cursor >= Unset
         /\ account.connected >= Unset
         /\ arrived \in Nat /\ Old \in Nat /\ arrived >= Old
         /\ boot.boundary \in Int /\ boot.profile \in Int
         /\ \A w \in Workers : worker[w].read \in Int /\ worker[w].final \in Int
         /\ \A i \in inbox \union events : i \in Nat /\ i >= 1 /\ i <= arrived
  BY MailAssumption
     DEF Typed, MailOK, AccountRecord, BootRecord, WorkerRecord, Positions, Ids, Unset

LEMMA KnowledgeStays ==
  ASSUME Typed, Typed', Grows, NEW w \in Workers, Knows(w), worker'[w] = worker[w]
  PROVE  Knows(w)'
  <1>1. account'.cursor \in Int /\ arrived' \in Int
    BY MailAssumption DEF Typed, MailOK, AccountRecord, Positions, Ids, Unset
  <1>2. account.cursor # Unset => account'.cursor # Unset
    BY <1>1, Numbers DEF Grows, Unset
  <1>3. ASSUME NEW upto \in Int, upto <= arrived, CoveredUpTo(w, upto)
        PROVE  upto <= arrived' /\ CoveredUpTo(w, upto)'
    BY <1>1, <1>3, Numbers DEF Grows, CoveredUpTo
  <1> QED  BY <1>1, <1>2, <1>3, Numbers DEF Knows, Grows

(* A step of one worker, with its own knowledge, keeps that of the others. *)
LEMMA OthersKnow ==
  ASSUME Typed, Typed', Grows, \A v \in Workers : Knows(v), NEW w \in Workers,
         \A v \in Workers \ {w} : worker'[v] = worker[v], Knows(w)'
  PROVE  \A v \in Workers : Knows(v)'
  <1> SUFFICES ASSUME NEW v \in Workers PROVE Knows(v)'
    OBVIOUS
  <1>1. CASE v = w
    BY <1>1
  <1>2. CASE v # w
    BY <1>2, KnowledgeStays
  <1> QED  BY <1>1, <1>2

LEMMA AllKnow ==
  ASSUME Typed, Typed', Grows, \A v \in Workers : Knows(v), UNCHANGED worker
  PROVE  \A v \in Workers : Knows(v)'
  BY KnowledgeStays

(* A step that leaves the two positions of the account alone, and adds no  *)
(* Event.                                                                  *)
AccountStays ==
  /\ account'.cursor = account.cursor /\ account'.connected = account.connected
  /\ account'.status = "ACTIVE" => account.cursor # Unset
  /\ UNCHANGED events
  /\ arrived' >= arrived

LEMMA AccountKept ==
  ASSUME SyncInv, Typed, Typed', AccountStays
  PROVE  AccountKnows' /\ NothingBeforeConnection'
  <1> arrived' >= arrived
    BY DEF AccountStays
  <1>1. AccountKnows'
    <2> USE DEF SyncInv, AccountKnows, AccountStays
    <2>1. account'.connected = Unset <=> account'.cursor = Unset
      OBVIOUS
    <2>2. account'.status = "ACTIVE" \/ events' # {} => account'.cursor # Unset
      OBVIOUS
    <2>3. account.cursor # Unset =>
            /\ Old <= account.connected /\ account.connected <= account.cursor
            /\ account.cursor <= arrived
      OBVIOUS
    <2>4. arrived' \in Int
      BY MailAssumption DEF Typed, MailOK
    <2> QED  BY <2>1, <2>2, <2>3, <2>4, Numbers
  <1>2. NothingBeforeConnection'
    BY DEF SyncInv, NothingBeforeConnection, AccountStays
  <1> QED  BY <1>1, <1>2

LEMMA BootKept ==
  ASSUME BootKnows, Typed, Typed', UNCHANGED boot, Grows
  PROVE  BootKnows'
  <1>1. arrived' \in Int /\ account'.cursor \in Int
    BY MailAssumption DEF Typed, MailOK, AccountRecord, Positions, Ids, Unset
  <1> QED  BY <1>1, Numbers DEF BootKnows, Grows, Unset

-----------------------------------------------------------------------------
(* The mailbox, the user, Pub/Sub and the clock.                           *)
Outside ==
  \/ NewMail \/ RevokeGrant \/ LeaseExpires
  \/ \E n \in Ids : LeaveInbox(n) \/ DropNotice(n)

LEMMA OutsideKeeps ==
  ASSUME SyncInv, Outside
  PROVE  SyncInv'
  <1>1. Typed
    BY TypesSplit DEF SyncInv
  <1>2. UNCHANGED <<account, worker, boot, events>>
    BY DEF Outside, NewMail, RevokeGrant, LeaseExpires, LeaveInbox, DropNotice
  <1>3. LockOK' /\ MailOK'
    <2> USE <1>1, <1>2 DEF Typed
    <2>1. CASE NewMail
      <3>1. arrived + 1 \in Ids /\ arrived' = arrived + 1 /\ arrived' \in Old .. MaxMail
        BY <2>1, MailAssumption DEF NewMail, MailOK, Ids
      <3>2. inbox' \subseteq 1 .. arrived' /\ events' \subseteq 1 .. arrived'
        BY <2>1, <3>1, MailAssumption DEF NewMail, MailOK
      <3> QED  BY <2>1, <3>1, <3>2 DEF NewMail, MailOK, LockOK, grantVars
    <2>2. CASE RevokeGrant
      BY <2>2, MailAssumption DEF RevokeGrant, MailOK, LockOK, mailVars
    <2>3. CASE LeaseExpires
      <3>1. LockOK'
        BY <2>3, MailAssumption DEF LeaseExpires, LockOK
      <3>2. faults' \in 0 .. MaxFaults
        BY <2>3, FaultCounted DEF LeaseExpires, MailOK
      <3> QED  BY <2>3, <3>1, <3>2 DEF LeaseExpires, MailOK, mailVars, grantVars
    <2>4. ASSUME NEW n \in Ids, LeaveInbox(n) \/ DropNotice(n)
          PROVE  LockOK' /\ MailOK'
      BY <2>4 DEF LeaveInbox, DropNotice, MailOK, LockOK, mailVars, grantVars
    <2> QED  BY <2>1, <2>2, <2>3, <2>4 DEF Outside
  <1>4. Typed'
    BY <1>1, <1>2, <1>3 DEF Typed
  <1>5. Grows
    <2>1. /\ arrived' >= arrived
          /\ \A i \in inbox' : i \in inbox \/ i > arrived
      BY <1>1, Numbers
         DEF Outside, NewMail, RevokeGrant, LeaseExpires, LeaveInbox, DropNotice, mailVars
    <2> QED  BY <1>1, <1>2, <2>1, Numbers DEF Grows
  <1>6. AccountStays
    BY <1>2, <1>5 DEF AccountStays, Grows, SyncInv, AccountKnows
  <1>7. SyncTypeOK'
    BY <1>4, TypesSplit, PTL
  <1>8. AccountKnows' /\ NothingBeforeConnection'
    BY <1>1, <1>4, <1>6, AccountKept
  <1>9. BootKnows'
    BY <1>1, <1>2, <1>4, <1>5, BootKept DEF SyncInv
  <1>10. \A w \in Workers : Knows(w)'
    BY <1>1, <1>2, <1>4, <1>5, AllKnow DEF SyncInv
  <1> QED  BY <1>7, <1>8, <1>9, <1>10 DEF SyncInv

-----------------------------------------------------------------------------
(* The connect command, and the executor's finding.                        *)
LEMMA PositionsOf == Typed => arrived \in Positions
  BY MailAssumption DEF Typed, MailOK, Positions, Ids

(* A step of the command that moves neither position of the account.       *)
LEMMA BootStepKeeps ==
  ASSUME SyncInv, UNCHANGED <<worker, revoked, mailVars, events, notices>>,
         account' \in AccountRecord, AccountStays, LockOK',
         boot' \in BootRecord, BootKnows', secret' \in 0 .. MaxGrants, faults' \in 0 .. MaxFaults
  PROVE  SyncInv'
  <1>1. Typed
    BY TypesSplit DEF SyncInv
  <1>2. Typed'
    BY <1>1 DEF Typed, MailOK, mailVars
  <1>3. SyncTypeOK'
    BY <1>2, TypesSplit, PTL
  <1>4. AccountKnows' /\ NothingBeforeConnection'
    BY <1>1, <1>2, AccountKept
  <1>5. Grows
    BY <1>1, Numbers DEF Grows, AccountStays, mailVars
  <1>6. \A w \in Workers : Knows(w)'
    BY <1>1, <1>2, <1>5, AllKnow DEF SyncInv
  <1> QED  BY <1>3, <1>4, <1>6 DEF SyncInv

LEMMA FreeLock == LockOK /\ sync' \in {sync, Free} => LockOK'
  BY MailAssumption DEF LockOK, Free

LEMMA BootstrapKeeps ==
  ASSUME SyncInv, Bootstrap \/ ActionFindsRevoked
  PROVE  SyncInv'
  <1>1. Typed
    BY TypesSplit DEF SyncInv
  <1>2. /\ account \in AccountRecord /\ boot \in BootRecord /\ LockOK /\ secret \in 0 .. MaxGrants
        /\ arrived \in Int /\ arrived \in Positions /\ Old <= arrived /\ faults \in 0 .. MaxFaults
    BY <1>1, Numbers, PositionsOf DEF Typed, MailOK
  <1>3. ASSUME NEW s \in {"CONNECTING", "REAUTHORIZATION_REQUIRED", "ERROR", account.status},
               account' = [account EXCEPT !.status = s], UNCHANGED <<mailVars, events>>
        PROVE  account' \in AccountRecord /\ AccountStays
    BY <1>2, <1>3 DEF AccountRecord, AccountStays, AccountKnows, SyncInv, mailVars
  <1>4. ASSUME UNCHANGED <<account, mailVars, events>>
        PROVE  account' \in AccountRecord /\ AccountStays
    BY <1>2, <1>4 DEF AccountStays, AccountKnows, SyncInv, mailVars
  <1>5. UNCHANGED sync => LockOK'
    BY <1>2, FreeLock
  <1>6. CASE Consent
    <2> DEFINE x == [NoBoot EXCEPT !.pc = "consented", !.grant = secret + 1, !.boundary = arrived]
    <2>1. secret + 1 \in 0 .. MaxGrants
      BY <1>2, <1>6, MailAssumption DEF Consent
    <2>2. x \in BootRecord /\ x.pc = "consented" /\ x.boundary = arrived
      BY <1>2, <2>1 DEF BootRecord, NoBoot, Positions
    <2>3. boot' = x
      BY <1>6 DEF Consent
    <2> HIDE DEF x
    <2>4. BootKnows'
      BY <1>2, <1>6, <2>2, <2>3 DEF BootKnows, Consent, mailVars
    <2> QED  BY <1>2, <1>4, <1>5, <1>6, <2>2, <2>3, <2>4, BootStepKeeps DEF Consent, grantVars
  <1>7. CASE Reserve
    <2> DEFINE x == [boot EXCEPT !.pc = "reserved", !.profile = arrived]
               s == IF account.status \in {"ABSENT", "ERROR"} THEN "CONNECTING" ELSE account.status
    <2>1. x \in BootRecord /\ x.pc = "reserved" /\ x.boundary = boot.boundary /\ x.profile = arrived
      BY <1>2 DEF BootRecord
    <2>2. boot' = x /\ account' = [account EXCEPT !.status = s]
          /\ s \in {"CONNECTING", "REAUTHORIZATION_REQUIRED", "ERROR", account.status}
      BY <1>2, <1>7 DEF Reserve
    <2> HIDE DEF x, s
    <2>3. BootKnows'
      BY <1>2, <1>7, <2>1, <2>2 DEF BootKnows, Reserve, mailVars, SyncInv
    <2> QED  BY <1>2, <1>3, <1>5, <1>7, <2>1, <2>2, <2>3, BootStepKeeps DEF Reserve, grantVars
  <1>8. CASE StoreGrant
    <2> DEFINE x == [boot EXCEPT !.pc = "stored"]
    <2>1. /\ x \in BootRecord /\ x.pc = "stored"
          /\ x.boundary = boot.boundary /\ x.profile = boot.profile
          /\ boot.grant \in 0 .. MaxGrants
      BY <1>2 DEF BootRecord
    <2>2. boot' = x
      BY <1>8 DEF StoreGrant
    <2> HIDE DEF x
    <2>3. BootKnows'
      BY <1>2, <1>8, <2>1, <2>2 DEF BootKnows, StoreGrant, mailVars, SyncInv
    <2> QED  BY <1>2, <1>4, <1>5, <1>8, <2>1, <2>2, <2>3, BootStepKeeps DEF StoreGrant
  <1>9. CASE PrepareWatch
    <2> DEFINE x == [boot EXCEPT !.pc = "prepared"]
               c == IF account.connected = Unset THEN boot.boundary ELSE account.connected
               d == IF account.cursor = Unset THEN boot.profile ELSE account.cursor
               y == [account EXCEPT !.connected = c, !.cursor = d]
    <2>1. /\ x \in BootRecord /\ x.pc = "prepared"
          /\ x.boundary = boot.boundary /\ x.profile = boot.profile
      BY <1>2 DEF BootRecord
    <2>2. c \in Positions /\ d \in Positions
      BY <1>2 DEF BootRecord, AccountRecord
    <2>3. y \in AccountRecord /\ y.connected = c /\ y.cursor = d /\ y.status = account.status
      BY <1>2, <2>2 DEF AccountRecord
    <2>4. /\ boot' = x /\ account' = y
          /\ UNCHANGED <<sync, worker, grantVars, mailVars, events, notices, faults>>
      BY <1>9 DEF PrepareWatch
    <2>5. boot.pc = "stored"
      BY <1>9 DEF PrepareWatch
    <2>6. /\ Old <= boot.boundary /\ boot.boundary <= boot.profile /\ boot.profile <= arrived
      BY <2>5 DEF SyncInv, BootKnows
    <2>7. /\ c # Unset /\ d # Unset /\ Old <= c /\ c <= d /\ d <= arrived
          /\ d >= account.cursor /\ (account.cursor # Unset => c = account.connected)
      BY <1>1, <2>6, Numbers DEF SyncInv, AccountKnows, Unset
    <2> HIDE DEF x, y, c, d
    <2>8. Typed'
      BY <1>1, <2>1, <2>3, <2>4 DEF Typed, LockOK, MailOK, mailVars, grantVars
    <2>9. SyncTypeOK'
      BY <2>8, TypesSplit, PTL
    <2>10. Grows
      BY <1>1, <2>3, <2>4, <2>7, Numbers DEF Grows, mailVars
    <2>11. AccountKnows' /\ BootKnows'
      <3>1. boot.boundary <= arrived
        BY <1>1, <2>6, Numbers
      <3>2. account'.connected = c /\ account'.cursor = d /\ arrived' = arrived
        BY <2>3, <2>4 DEF mailVars
      <3>3. AccountKnows'
        BY <2>7, <3>2 DEF AccountKnows
      <3>4. BootKnows'
        BY <2>1, <2>4, <2>6, <2>7, <3>1, <3>2 DEF BootKnows
      <3> QED  BY <3>3, <3>4
    <2>12. NothingBeforeConnection'
      BY <2>3, <2>4, <2>7 DEF SyncInv, NothingBeforeConnection, AccountKnows
    <2>13. \A w \in Workers : Knows(w)'
      BY <1>1, <2>4, <2>8, <2>10, AllKnow DEF SyncInv
    <2> QED  BY <2>9, <2>11, <2>12, <2>13 DEF SyncInv
  <1>10. boot' = NoBoot => boot' \in BootRecord /\ BootKnows'
    BY MailAssumption DEF NoBoot, BootRecord, BootKnows, Positions
  <1>11. CASE Activate
    <2> DEFINE s == IF account.status = "ERROR" THEN "ERROR" ELSE "ACTIVE"
    <2>1. account' = [account EXCEPT !.status = s] /\ s \in {"ERROR", "ACTIVE"}
      BY <1>11 DEF Activate
    <2> HIDE DEF s
    <2>2. account.cursor # Unset
      BY <1>11 DEF Activate, SyncInv, BootKnows
    <2>3. account' \in AccountRecord /\ AccountStays
      BY <1>2, <1>11, <2>1, <2>2 DEF Activate, AccountRecord, AccountStays, mailVars
    <2> QED  BY <1>2, <1>5, <1>10, <1>11, <2>3, BootStepKeeps DEF Activate, grantVars
  <1>12. CASE FailBoot
    <2>1. boot' = NoBoot /\ UNCHANGED <<worker, grantVars, mailVars, events, notices>>
          /\ faults' \in 0 .. MaxFaults
      BY <1>1, <1>2, <1>12, FaultCounted DEF FailBoot, Typed
    <2>2. CASE UNCHANGED <<account, sync>>
      BY <1>2, <1>4, <1>5, <1>10, <2>1, <2>2, BootStepKeeps DEF grantVars
    <2>3. ASSUME NEW s \in {"REAUTHORIZATION_REQUIRED", "ERROR"}, MarkStatus(s)
          PROVE  SyncInv'
      <3>1. LockOK'
        BY <1>2, <2>3, FreeLock DEF MarkStatus
      <3>2. account' \in AccountRecord /\ AccountStays
        BY <1>3, <2>1, <2>3 DEF MarkStatus
      <3> QED  BY <1>2, <1>10, <2>1, <3>1, <3>2, BootStepKeeps DEF grantVars
    <2> QED  BY <1>12, <2>2, <2>3 DEF FailBoot
  <1>13. CASE ActionFindsRevoked
    <2>1. BootKnows'
      BY <1>13 DEF ActionFindsRevoked, BootKnows, SyncInv, mailVars
    <2> QED  BY <1>2, <1>3, <1>5, <1>13, <2>1, BootStepKeeps DEF ActionFindsRevoked, grantVars
  <1> QED  BY <1>6, <1>7, <1>8, <1>9, <1>11, <1>12, <1>13 DEF Bootstrap

-----------------------------------------------------------------------------
(* A worker that leaves the account alone and adds no Event.               *)
LEMMA WorkerStepKeeps ==
  ASSUME SyncInv, NEW w \in Workers, UNCHANGED <<boot, grantVars, mailVars, events>>,
         \A v \in Workers \ {w} : worker'[v] = worker[v], worker' \in [Workers -> WorkerRecord],
         account' \in AccountRecord, AccountStays, LockOK',
         notices' \in [Ids -> {"none", "out", "acked"}], faults' \in 0 .. MaxFaults, Knows(w)'
  PROVE  SyncInv'
  <1>1. Typed
    BY TypesSplit DEF SyncInv
  <1>2. Typed'
    BY <1>1 DEF Typed, MailOK, mailVars, grantVars
  <1>3. SyncTypeOK'
    BY <1>2, TypesSplit, PTL
  <1>4. AccountKnows' /\ NothingBeforeConnection'
    BY <1>1, <1>2, AccountKept
  <1>5. Grows
    BY <1>1, Numbers DEF Grows, AccountStays, mailVars
  <1>6. BootKnows'
    BY <1>1, <1>2, <1>5, BootKept DEF SyncInv
  <1>7. \A v \in Workers : Knows(v)'
    BY <1>1, <1>2, <1>5, OthersKnow DEF SyncInv
  <1> QED  BY <1>3, <1>4, <1>6, <1>7 DEF SyncInv

(* A worker that puts its work down.                                       *)
LEMMA Rests ==
  ASSUME SyncInv, NEW w \in Workers, worker' = [worker EXCEPT ![w] = Idle]
  PROVE  /\ worker' \in [Workers -> WorkerRecord] /\ worker'[w] = Idle /\ Knows(w)'
         /\ \A v \in Workers \ {w} : worker'[v] = worker[v]
  <1>1. worker \in [Workers -> WorkerRecord] /\ Idle \in WorkerRecord /\ Idle.pc = "idle"
    BY TypesSplit, MailAssumption DEF SyncInv, Typed, Idle, WorkerRecord, Positions
  <1>2. /\ worker' \in [Workers -> WorkerRecord] /\ worker'[w] = Idle
        /\ \A v \in Workers \ {w} : worker'[v] = worker[v]
    BY <1>1
  <1> QED  BY <1>1, <1>2 DEF Knows

(* A worker with a new record x.                                           *)
LEMMA WorkerSet ==
  ASSUME SyncInv, NEW w \in Workers, NEW x \in WorkerRecord, worker' = [worker EXCEPT ![w] = x]
  PROVE  /\ worker' \in [Workers -> WorkerRecord] /\ worker'[w] = x
         /\ \A v \in Workers \ {w} : worker'[v] = worker[v]
  BY TypesSplit DEF SyncInv, Typed

(* What of the invariant a worker's step uses.                             *)
Facts(w) ==
  /\ Typed /\ account \in AccountRecord /\ LockOK /\ worker[w] \in WorkerRecord
  /\ notices \in [Ids -> {"none", "out", "acked"}] /\ faults \in 0 .. MaxFaults
  /\ secret \in 0 .. MaxGrants
  /\ arrived \in Int /\ arrived \in Positions /\ inbox \subseteq Ids
  /\ worker[w].read \in Int /\ worker[w].final \in Int /\ account.cursor \in Positions
  /\ account.cursor \in Int /\ account.connected \in Int
  /\ worker[w].listed \subseteq Ids \union {0}
  /\ worker[w].read >= Unset /\ worker[w].read \in Positions
  /\ AccountKnows /\ Knows(w)

LEMMA WorkerFacts ==
  ASSUME SyncInv, NEW w \in Workers
  PROVE  Facts(w)
  <1>1. Typed
    BY TypesSplit DEF SyncInv
  <1>2. AccountKnows /\ Knows(w)
    BY DEF SyncInv
  <1>3. /\ account \in AccountRecord /\ LockOK /\ worker[w] \in WorkerRecord
        /\ notices \in [Ids -> {"none", "out", "acked"}] /\ faults \in 0 .. MaxFaults
        /\ secret \in 0 .. MaxGrants
    BY <1>1 DEF Typed, MailOK
  <1>4. /\ arrived \in Int /\ arrived \in Positions
        /\ worker[w].read \in Int /\ worker[w].final \in Int
        /\ account.cursor \in Int /\ account.connected \in Int
    BY <1>1, Numbers, PositionsOf
  <1>5. inbox \subseteq Ids
    BY <1>1, MailAssumption DEF Typed, MailOK, Ids
  <1>6. /\ worker[w].listed \subseteq Ids \union {0} /\ worker[w].read \in Positions
        /\ account.cursor \in Positions
    BY <1>3 DEF WorkerRecord, AccountRecord
  <1>7. worker[w].read >= Unset
    BY <1>6 DEF Positions, Ids, Unset
  <1> QED  BY <1>1, <1>2, <1>3, <1>4, <1>5, <1>6, <1>7 DEF Facts

(* Claims: ClaimSync and ClaimRenewal.                                     *)
LEMMA ClaimKeeps ==
  ASSUME SyncInv, NEW w \in Workers, ClaimRenewal(w) \/ \E n \in Ids \union {0} : ClaimSync(w, n)
  PROVE  SyncInv'
  <1>0. Facts(w)
    BY WorkerFacts
  <1>1. /\ Typed /\ account \in AccountRecord /\ account.cursor # Unset /\ AccountStays
        /\ UNCHANGED <<account, boot, grantVars, mailVars, events, notices, faults>>
    <2>1. /\ UNCHANGED <<account, boot, grantVars, mailVars, events, notices, faults>>
          /\ account.status = "ACTIVE"
      BY DEF ClaimRenewal, ClaimSync, MayClaim
    <2>2. account.cursor # Unset
      BY <1>0, <2>1 DEF Facts, AccountKnows
    <2>3. AccountStays
      BY <1>0, <2>1, <2>2 DEF Facts, AccountStays, mailVars
    <2> QED  BY <1>0, <2>1, <2>2, <2>3 DEF Facts
  <1>2. LockOK'
    <2>1. sync' = Claimed(w)
      BY DEF ClaimRenewal, ClaimSync
    <2> QED  BY <2>1, MailAssumption DEF Claimed, LockOK
  <1>3. CASE ClaimRenewal(w)
    <2> DEFINE x == [Idle EXCEPT !.pc = "renewing", !.grant = secret]
    <2>1. x \in WorkerRecord /\ x.pc = "renewing"
      BY <1>0, MailAssumption DEF Facts, Idle, WorkerRecord, Positions
    <2>2. worker' = [worker EXCEPT ![w] = x]
      BY <1>3 DEF ClaimRenewal
    <2> HIDE DEF x
    <2>3. worker'[w] = x /\ account' = account
      BY <1>1, <2>1, <2>2, WorkerSet
    <2>4. Knows(w)'
      BY <1>1, <2>1, <2>3 DEF Knows
    <2> QED  BY <1>1, <1>2, <2>1, <2>2, <2>4, <1>0, WorkerSet, WorkerStepKeeps DEF Facts
  <1>4. ASSUME NEW n \in Ids \union {0}, ClaimSync(w, n)
        PROVE  SyncInv'
    <2> DEFINE x == [Idle EXCEPT !.pc = "claimed", !.notice = n, !.read = account.cursor]
    <2>1. x \in WorkerRecord /\ x.pc = "claimed" /\ x.read = account.cursor
      <3>1. Idle \in WorkerRecord /\ account.cursor \in Positions
        BY <1>0, MailAssumption DEF Facts, Idle, WorkerRecord, Positions
      <3> QED  BY <3>1 DEF WorkerRecord
    <2>2. worker' = [worker EXCEPT ![w] = x]
      BY <1>4 DEF ClaimSync
    <2> HIDE DEF x
    <2>3. worker'[w] = x /\ account' = account /\ arrived' = arrived
      BY <1>1, <2>1, <2>2, WorkerSet DEF mailVars
    <2>4. account.cursor <= arrived
      BY <1>1, <1>0 DEF Facts, AccountKnows
    <2>5. Knows(w)'
      BY <1>1, <2>1, <2>3, <2>4, <1>0 DEF Facts, Knows, CoveredUpTo
    <2> QED  BY <1>1, <1>2, <2>1, <2>2, <2>5, <1>0, WorkerSet, WorkerStepKeeps DEF Facts
  <1> QED  BY <1>3, <1>4

(* Steps that end the work: the claim is released, or any claim is.        *)
Ending(w) == RenewWatch(w) \/ FailSync(w) \/ MarkReauthorization(w) \/ CrashWorker(w)

LEMMA EndingKeeps ==
  ASSUME SyncInv, NEW w \in Workers, Ending(w)
  PROVE  SyncInv'
  <1>0. Facts(w)
    BY WorkerFacts
  <1>1. /\ worker' = [worker EXCEPT ![w] = Idle]
        /\ UNCHANGED <<boot, grantVars, mailVars, events>>
    BY DEF Ending, RenewWatch, FailSync, MarkReauthorization, CrashWorker
  <1>2. LockOK' /\ faults' \in 0 .. MaxFaults
    BY <1>0, FreeLock, FaultCounted
       DEF Facts, Ending, RenewWatch, FailSync, MarkReauthorization, CrashWorker, Released,
           MarkStatus, Typed
  <1>3. account' \in AccountRecord /\ AccountStays
    BY <1>0
       DEF Facts, Ending, RenewWatch, FailSync, MarkReauthorization, CrashWorker, MarkStatus,
           AccountRecord, AccountStays, AccountKnows, mailVars
  <1>4. notices' \in [Ids -> {"none", "out", "acked"}]
    BY <1>0 DEF Facts, Ending, RenewWatch, FailSync, MarkReauthorization, CrashWorker
  <1> QED  BY <1>1, <1>2, <1>3, <1>4, Rests, WorkerStepKeeps

-----------------------------------------------------------------------------
(* Steps that read: credentials, history, the inbox.                       *)
Reading(w) ==
  LoadCredentials(w) \/ ListPage(w) \/ HistoryExpired(w) \/ ScanInbox(w) \/ FindRevoked(w)

LEMMA ReadingKeeps ==
  ASSUME SyncInv, NEW w \in Workers, Reading(w)
  PROVE  SyncInv'
  <1>0. Facts(w)
    BY WorkerFacts
  <1>1. UNCHANGED <<account, sync, boot, grantVars, mailVars, events, notices>>
    BY DEF Reading, LoadCredentials, ListPage, HistoryExpired, ScanInbox, FindRevoked
  <1>2. /\ faults' \in 0 .. MaxFaults /\ account' \in AccountRecord /\ LockOK' /\ AccountStays
        /\ notices' \in [Ids -> {"none", "out", "acked"}] /\ inbox' = inbox /\ arrived' = arrived
    <2>1. faults' \in 0 .. MaxFaults
      BY <1>0, FaultCounted
         DEF Facts, Typed, Reading, LoadCredentials, ListPage, HistoryExpired, ScanInbox,
             FindRevoked
    <2>2. LockOK'
      BY <1>0, <1>1, FreeLock DEF Facts
    <2>3. AccountStays
      BY <1>0, <1>1 DEF Facts, AccountStays, AccountKnows, mailVars
    <2> QED  BY <1>0, <1>1, <2>1, <2>2, <2>3 DEF Facts, mailVars
  <1>3. ASSUME NEW x \in WorkerRecord, worker' = [worker EXCEPT ![w] = x],
               x.pc # "idle" => account.cursor # Unset,
               x.pc \in {"claimed", "listing"} =>
                 /\ x.read <= arrived
                 /\ \A i \in account.cursor + 1 .. x.read :
                      i \in x.listed \union events \/ i \notin inbox,
               x.pc \in {"scanning", "fetching"} => x.final <= arrived,
               x.pc = "fetching" =>
                 \A i \in account.cursor + 1 .. x.final :
                   i \in x.listed \union events \/ i \notin inbox
        PROVE  SyncInv'
    <2>1. worker'[w] = x
      BY <1>3, WorkerSet
    <2>2. Knows(w)'
      BY <1>1, <1>2, <1>3, <2>1 DEF Knows, CoveredUpTo
    <2> QED  BY <1>1, <1>2, <1>3, <2>2, WorkerSet, WorkerStepKeeps
  <1>4. worker[w] \in WorkerRecord /\ worker[w].listed \subseteq Ids \union {0}
    BY <1>0 DEF Facts
  <1>5. worker[w].pc # "idle" => account.cursor # Unset
    BY <1>0 DEF Facts, Knows
  <1>6. CASE LoadCredentials(w)
    <2> DEFINE x == [worker[w] EXCEPT !.pc = "listing", !.grant = secret]
    <2>1. /\ x \in WorkerRecord /\ x.pc = "listing" /\ x.read = worker[w].read
          /\ x.listed = worker[w].listed
      BY <1>0, <1>4 DEF Facts, WorkerRecord
    <2>2. worker' = [worker EXCEPT ![w] = x]
      BY <1>4, <1>6 DEF LoadCredentials
    <2> HIDE DEF x
    <2>3. worker[w].pc = "claimed"
      BY <1>6 DEF LoadCredentials
    <2>4. x.read <= arrived
          /\ \A i \in account.cursor + 1 .. x.read : i \in x.listed \union events \/ i \notin inbox
      BY <1>0, <2>1, <2>3 DEF Facts, Knows, CoveredUpTo
    <2> QED  BY <1>3, <1>5, <2>1, <2>2, <2>3, <2>4
  <1>7. CASE FindRevoked(w)
    <2> DEFINE x == [worker[w] EXCEPT !.pc = "marking"]
    <2>1. x \in WorkerRecord /\ x.pc = "marking"
      BY <1>4 DEF WorkerRecord
    <2>2. worker' = [worker EXCEPT ![w] = x] /\ worker[w].pc # "idle"
      BY <1>4, <1>7 DEF FindRevoked
    <2> HIDE DEF x
    <2> QED  BY <1>3, <1>5, <2>1, <2>2
  <1>8. CASE HistoryExpired(w)
    <2> DEFINE x == [worker[w] EXCEPT !.pc = "scanning", !.read = Unset, !.listed = {},
                                      !.final = arrived]
    <2>1. x \in WorkerRecord /\ x.pc = "scanning" /\ x.final = arrived
      BY <1>0, <1>4 DEF Facts, WorkerRecord, Positions
    <2>2. worker' = [worker EXCEPT ![w] = x] /\ worker[w].pc # "idle"
      BY <1>4, <1>8 DEF HistoryExpired
    <2> HIDE DEF x
    <2>3. x.final <= arrived
      BY <1>0, <2>1 DEF Facts
    <2> QED  BY <1>3, <1>5, <2>1, <2>2, <2>3
  <1>9. CASE ScanInbox(w)
    <2> DEFINE found == {i \in inbox : i >= account.connected}
               x == [worker[w] EXCEPT !.pc = "fetching", !.listed = found]
    <2>1. found \subseteq Ids
      BY <1>0 DEF Facts
    <2>2. x \in WorkerRecord /\ x.pc = "fetching" /\ x.final = worker[w].final /\ x.listed = found
      BY <1>4, <2>1 DEF WorkerRecord
    <2>3. worker' = [worker EXCEPT ![w] = x] /\ worker[w].pc = "scanning"
      BY <1>4, <1>9 DEF ScanInbox
    <2>4. \A i \in account.cursor + 1 .. worker[w].final : i \in found \/ i \notin inbox
      BY <1>0, <1>5, <2>3 DEF Facts, AccountKnows
    <2> HIDE DEF x, found
    <2> QED  BY <1>0, <1>3, <1>5, <2>2, <2>3, <2>4 DEF Facts, Knows
  <1>10. CASE ListPage(w)
    <2>1. worker[w].pc = "listing"
      BY <1>10 DEF ListPage
    <2>2. PICK upto \in (worker[w].read + 1 .. arrived) \union {arrived} :
            worker' = [worker EXCEPT ![w] =
              [worker[w] EXCEPT !.listed = worker[w].listed \union (worker[w].read + 1 .. upto),
                                !.final = arrived,
                                !.read = IF upto = arrived THEN Unset ELSE upto,
                                !.pc = IF upto = arrived THEN "fetching" ELSE "listing"]]
      BY <1>10 DEF ListPage
    <2> DEFINE page == worker[w].listed \union (worker[w].read + 1 .. upto)
               r == IF upto = arrived THEN Unset ELSE upto
               p == IF upto = arrived THEN "fetching" ELSE "listing"
               x == [worker[w] EXCEPT !.listed = page, !.final = arrived, !.read = r, !.pc = p]
    <2>3. worker' = [worker EXCEPT ![w] = x]
      BY <1>4, <2>2
    <2>4. /\ upto \in Int /\ upto <= arrived /\ worker[w].read <= arrived /\ arrived \in Int
          /\ worker[w].read \in Int /\ worker[w].read >= Unset
          /\ arrived \in Positions
      BY <1>0, <2>1 DEF Facts, Knows
    <2>5. page \subseteq Ids \union {0} /\ r \in Positions /\ p \in {"fetching", "listing"}
      BY <1>4, <2>4, MailAssumption DEF Positions, Ids, Unset
    <2>6. /\ x \in WorkerRecord /\ x.listed = page /\ x.final = arrived /\ x.read = r /\ x.pc = p
      BY <1>4, <2>4, <2>5 DEF WorkerRecord
    <2>7. \A i \in account.cursor + 1 .. upto : i \in page \union events \/ i \notin inbox
      BY <1>0, <2>1, <2>4 DEF Facts, Knows, CoveredUpTo
    <2>8. p = "fetching" <=> upto = arrived
      BY <2>1
    <2> HIDE DEF x, page
    <2> QED  BY <1>3, <1>5, <2>1, <2>3, <2>4, <2>6, <2>7, <2>8
  <1> QED  BY <1>6, <1>7, <1>8, <1>9, <1>10 DEF Reading

-----------------------------------------------------------------------------
LEMMA FetchKeeps ==
  ASSUME SyncInv, NEW w \in Workers, NEW i \in Ids, FetchMessage(w, i)
  PROVE  SyncInv'
  <1> DEFINE x == [worker[w] EXCEPT !.listed = worker[w].listed \ {i}]
  <1>0. Facts(w)
    BY WorkerFacts
  <1>1. /\ UNCHANGED <<account, sync, boot, grantVars, mailVars, notices, faults>>
        /\ worker[w].pc = "fetching" /\ worker' = [worker EXCEPT ![w] = x]
        /\ events' = IF Wanted(i) THEN events \union {i} ELSE events
    BY <1>0 DEF FetchMessage, Facts
  <1>2. /\ x \in WorkerRecord /\ x.pc = "fetching" /\ x.final = worker[w].final
        /\ x.listed = worker[w].listed \ {i}
    BY <1>0, <1>1 DEF Facts, WorkerRecord
  <1> HIDE DEF x
  <1>3. /\ worker' \in [Workers -> WorkerRecord] /\ worker'[w] = x
        /\ \A v \in Workers \ {w} : worker'[v] = worker[v]
    BY <1>1, <1>2, WorkerSet
  <1>4. /\ account.cursor # Unset /\ Old <= account.connected /\ account.connected <= account.cursor
        /\ account.cursor <= arrived /\ Typed
    BY <1>0, <1>1 DEF Facts, Knows, AccountKnows
  <1>5. Wanted(i) => i \in inbox /\ i > account.connected /\ i > Old
    BY <1>0, <1>4, MailAssumption DEF Wanted, Facts, Ids
  <1>6. Typed'
    <2>1. events' \subseteq 1 .. arrived
      BY <1>1, <1>4, <1>5 DEF Typed, MailOK
    <2>2. MailOK'
      BY <1>1, <1>4, <2>1 DEF Typed, MailOK, mailVars, grantVars
    <2> QED  BY <1>1, <1>3, <1>4, <2>2 DEF Typed, LockOK
  <1>7. SyncTypeOK'
    BY <1>6, TypesSplit, PTL
  <1>8. Grows
    BY <1>1, <1>4, Numbers DEF Grows, mailVars
  <1>9. AccountKnows'
    BY <1>1, <1>4 DEF AccountKnows, SyncInv, mailVars
  <1>10. NothingBeforeConnection'
    BY <1>1, <1>5 DEF NothingBeforeConnection, SyncInv
  <1>11. BootKnows'
    BY <1>1, <1>4, <1>6, <1>8, BootKept DEF SyncInv
  <1>12. Knows(w)'
    <2>1. CoveredUpTo(w, worker[w].final) /\ worker[w].final <= arrived
      BY <1>0, <1>1 DEF Facts, Knows
    <2>2. ASSUME NEW j \in account.cursor + 1 .. worker[w].final
          PROVE  j \in x.listed \union events' \/ j \notin inbox
      BY <1>0, <1>1, <1>2, <1>4, <2>1, <2>2 DEF CoveredUpTo, Wanted, Facts
    <2> QED  BY <1>1, <1>2, <1>3, <1>4, <2>1, <2>2 DEF Knows, CoveredUpTo, mailVars
  <1>13. \A v \in Workers : Knows(v)'
    BY <1>3, <1>4, <1>6, <1>8, <1>12, OthersKnow DEF SyncInv
  <1> QED  BY <1>7, <1>9, <1>10, <1>11, <1>13 DEF SyncInv

(* The new cursor is not behind the old one, and passes no message that    *)
(* lacks its Event.                                                        *)
Covers ==
  /\ account'.cursor >= account.cursor
  /\ account.cursor # Unset =>
       \A i \in account.cursor + 1 .. account'.cursor : i \in events' \/ i \notin inbox'

LEMMA CompleteKeeps ==
  ASSUME SyncInv, NEW w \in Workers, CompleteSync(w)
  PROVE  SyncInv' /\ Covers
  <1>0. Facts(w)
    BY WorkerFacts
  <1>1. /\ UNCHANGED <<boot, grantVars, mailVars, events, faults>>
        /\ worker[w].pc = "fetching" /\ worker[w].listed = {}
        /\ worker' = [worker EXCEPT ![w] = Idle]
    BY DEF CompleteSync
  <1>2. /\ worker' \in [Workers -> WorkerRecord] /\ worker'[w] = Idle /\ Knows(w)'
        /\ \A v \in Workers \ {w} : worker'[v] = worker[v]
    BY <1>1, Rests
  <1>3. LockOK' /\ notices' \in [Ids -> {"none", "out", "acked"}]
    BY <1>0, FreeLock DEF CompleteSync, Released, Facts
  <1>4. CASE account' = account
    <2>1. AccountStays
      BY <1>0, <1>1, <1>4 DEF Facts, AccountStays, AccountKnows, mailVars
    <2>2. SyncInv'
      BY <1>0, <1>1, <1>2, <1>3, <1>4, <2>1, WorkerStepKeeps DEF Facts
    <2> QED  BY <1>0, <1>4, <2>2 DEF Covers, Facts
  <1>5. CASE account.cursor <= worker[w].final
             /\ account' = [account EXCEPT !.cursor = worker[w].final]
    <2> DEFINE c == worker[w].final
    <2>1. /\ account.cursor # Unset /\ account.cursor <= c /\ c <= arrived /\ c \in Positions
          /\ c \in Int /\ CoveredUpTo(w, c) /\ Typed
          /\ Old <= account.connected /\ account.connected <= account.cursor
      BY <1>0, <1>1, <1>5 DEF Facts, Knows, AccountKnows, WorkerRecord
    <2>2. /\ account' \in AccountRecord /\ account'.cursor = c
          /\ account'.connected = account.connected /\ account'.status = account.status
      BY <1>0, <1>5, <2>1 DEF Facts, AccountRecord
    <2> HIDE DEF c
    <2>3. Typed'
      BY <1>1, <1>2, <1>3, <2>1, <2>2 DEF Typed, MailOK, mailVars, grantVars
    <2>4. SyncTypeOK'
      BY <2>3, TypesSplit, PTL
    <2>5. Grows
      BY <1>1, <2>1, <2>2, Numbers DEF Grows, mailVars
    <2>6. c # Unset /\ account.connected <= c /\ account.connected # Unset
      BY <1>0, <2>1 DEF Facts, Unset, AccountKnows, AccountRecord, Positions, Ids
    <2>7. AccountKnows'
      BY <1>1, <2>1, <2>2, <2>6 DEF AccountKnows, mailVars
    <2>8. BootKnows'
      BY <1>1, <2>1, <2>3, <2>5, BootKept DEF SyncInv
    <2>9. NothingBeforeConnection'
      BY <1>1, <2>2 DEF SyncInv, NothingBeforeConnection
    <2>10. \A v \in Workers : Knows(v)'
      BY <1>2, <2>1, <2>3, <2>5, OthersKnow DEF SyncInv
    <2>11. Covers
      BY <1>1, <2>1, <2>2 DEF Covers, CoveredUpTo, mailVars
    <2> QED  BY <2>4, <2>7, <2>8, <2>9, <2>10, <2>11 DEF SyncInv
  <1> QED  BY <1>4, <1>5 DEF CompleteSync, MayComplete, NewCursor

-----------------------------------------------------------------------------
(* No other step moves a cursor that is set.                               *)
LEMMA CursorStays ==
  ASSUME SyncInv,
         \/ Outside \/ Bootstrap \/ ActionFindsRevoked
         \/ \E w \in Workers : \/ Reading(w) \/ Ending(w) \/ ClaimRenewal(w)
                               \/ \E n \in Ids \union {0} : ClaimSync(w, n)
                               \/ \E i \in Ids : FetchMessage(w, i)
  PROVE  Covers
  <1>1. Typed /\ account \in AccountRecord /\ account.cursor \in Int
    BY TypesSplit, Numbers DEF SyncInv, Typed
  <1>2. account'.cursor = account.cursor => Covers
    BY <1>1 DEF Covers
  <1>3. CASE PrepareWatch
    <2> DEFINE c == IF account.connected = Unset THEN boot.boundary ELSE account.connected
               d == IF account.cursor = Unset THEN boot.profile ELSE account.cursor
    <2>1. account' = [account EXCEPT !.connected = c, !.cursor = d] /\ boot \in BootRecord
      BY <1>1, <1>3 DEF PrepareWatch, Typed
    <2>2. account'.cursor = d
      BY <1>1, <2>1 DEF AccountRecord
    <2>3. d >= account.cursor /\ (account.cursor # Unset => d = account.cursor)
      BY <1>1, <2>1, MailAssumption DEF BootRecord, Positions, Ids, Unset
    <2> QED  BY <1>1, <2>2, <2>3 DEF Covers
  <1>4. CASE Outside
    BY <1>2, <1>4 DEF Outside, NewMail, RevokeGrant, LeaseExpires, LeaveInbox, DropNotice
  <1>5. CASE Bootstrap /\ ~PrepareWatch
    BY <1>1, <1>2, <1>5
       DEF Bootstrap, Consent, Reserve, StoreGrant, Activate, FailBoot, MarkStatus, AccountRecord
  <1>6. CASE ActionFindsRevoked
    BY <1>1, <1>2, <1>6 DEF ActionFindsRevoked, AccountRecord
  <1>7. ASSUME NEW w \in Workers, Reading(w)
        PROVE  Covers
    BY <1>2, <1>7
       DEF Reading, LoadCredentials, ListPage, HistoryExpired, ScanInbox, FindRevoked
  <1>8. ASSUME NEW w \in Workers, Ending(w)
        PROVE  Covers
    BY <1>1, <1>2, <1>8
       DEF Ending, RenewWatch, FailSync, MarkReauthorization, CrashWorker, MarkStatus, AccountRecord
  <1>9. ASSUME NEW w \in Workers,
               \/ ClaimRenewal(w) \/ \E n \in Ids \union {0} : ClaimSync(w, n)
               \/ \E i \in Ids : FetchMessage(w, i)
        PROVE  Covers
    BY <1>2, <1>9 DEF ClaimRenewal, ClaimSync, FetchMessage
  <1> QED  BY <1>3, <1>4, <1>5, <1>6, <1>7, <1>8, <1>9

LEMMA SyncStep ==
  ASSUME SyncInv, SyncNext
  PROVE  SyncInv' /\ Covers
  <1>1. CASE Outside
    BY <1>1, OutsideKeeps, CursorStays
  <1>2. CASE Bootstrap \/ ActionFindsRevoked
    BY <1>2, BootstrapKeeps, CursorStays
  <1>3. ASSUME NEW w \in Workers, Reading(w)
        PROVE  SyncInv' /\ Covers
    BY <1>3, ReadingKeeps, CursorStays
  <1>4. ASSUME NEW w \in Workers, Ending(w)
        PROVE  SyncInv' /\ Covers
    BY <1>4, EndingKeeps, CursorStays
  <1>5. ASSUME NEW w \in Workers, ClaimRenewal(w) \/ \E n \in Ids \union {0} : ClaimSync(w, n)
        PROVE  SyncInv' /\ Covers
    BY <1>5, ClaimKeeps, CursorStays
  <1>6. ASSUME NEW w \in Workers, NEW i \in Ids, FetchMessage(w, i)
        PROVE  SyncInv' /\ Covers
    BY <1>6, FetchKeeps, CursorStays
  <1>7. ASSUME NEW w \in Workers, CompleteSync(w)
        PROVE  SyncInv' /\ Covers
    BY <1>7, CompleteKeeps
  <1> QED
    BY <1>1, <1>2, <1>3, <1>4, <1>5, <1>6, <1>7
       DEF SyncNext, Outside, WorkerStep, Setback, Reading, Ending

LEMMA SyncRests ==
  ASSUME SyncInv, UNCHANGED syncVars
  PROVE  SyncInv'
  <1>1. UNCHANGED <<account, sync, worker, boot, secret, revoked, arrived, inbox, events, notices,
                    faults>>
    BY DEF syncVars, grantVars, mailVars
  <1>2. Typed /\ Typed'
    BY <1>1, TypesSplit DEF SyncInv, Typed, LockOK, MailOK
  <1>3. SyncTypeOK'
    BY <1>2, TypesSplit, PTL
  <1> QED
    BY <1>1, <1>3
       DEF SyncInv, AccountKnows, BootKnows, NothingBeforeConnection, Knows, CoveredUpTo

(* In every reachable state the connector is well formed and a worker that *)
(* synchronises has listed, or seen to, all mail from the cursor to where  *)
(* it is (claim_sync, _synchronize_claim, recover).                        *)
THEOREM SyncInvariant == SyncSpec => []SyncInv
  <1>1. SyncInv /\ [SyncNext]_syncVars => SyncInv'
    BY SyncStep, SyncRests
  <1> QED  BY Initial, <1>1, PTL DEF SyncSpec

(* The account, its claim, the workers and the command are well formed in  *)
(* every reachable state.                                                  *)
THEOREM SyncTypes == SyncSpec => []SyncTypeOK
  BY SyncInvariant, PTL DEF SyncInv

(* The cursor passes no message that should have an Event and has none,    *)
(* with any number of workers, pages, expiries and reconnections.          *)
THEOREM NoMailPassed == SyncSpec => CursorCoversMail
  <1>1. SyncInv /\ [SyncNext]_syncVars => [Covers]_syncVars
    BY SyncStep
  <1>2. [Covers]_syncVars
          <=> [/\ account'.cursor >= account.cursor
               /\ account.cursor # Unset =>
                    \A i \in account.cursor + 1 .. account'.cursor :
                      i \in events' \/ i \notin inbox']_syncVars
    BY DEF Covers
  <1> QED  BY SyncInvariant, <1>1, <1>2, PTL DEF SyncSpec, CursorCoversMail

(* No message from before the first connection becomes an Event.           *)
THEOREM NothingImported == SyncSpec => []NothingBeforeConnection
  BY SyncInvariant, PTL DEF SyncInv
=============================================================================
