-------------------------- MODULE Conversation_proofs --------------------------
(***************************************************************************)
(* Proofs about Conversation for any Messages, Workers and any bounds.     *)
(***************************************************************************)
EXTENDS Conversation, FiniteSetTheorems, TLAPS

LogRecord == [role : {"USER", "ASSISTANT"}, of : Convs]
TurnRecord ==
  [status : {"ABSENT", "QUEUED", "RUNNING", "RETRYABLE_FAILURE", "SUCCEEDED",
             "PERMANENT_FAILURE"},
   conv : Convs \union {None}, attempt : Nat, claim : Workers \union {None},
   timer : {"none", "running", "passed"}]
WorkerRecord == [pc : {"idle", "begun", "revising", "answering"},
                 msg : Messages \union {None}, session : 0 .. Cards]

(* The rows besides the turns.                                             *)
RowsOK ==
  /\ account \in {"ACTIVE", "REVOKED"} /\ codes \in 0 .. Pairings /\ faults \in 0 .. MaxFaults
  /\ post \in [Messages -> [at : {"unsent", "out", "acked"}, to : Requests]]
  /\ recent \subseteq Convs \X Convs /\ active \subseteq Convs
  /\ \A c, d \in active : c # d => (<<c, d>> \in recent <=> <<d, c>> \notin recent)
  /\ session \in [number : 0 .. Cards, state : {"none", "open", "lapsed"}]

TurnsOK ==
  /\ handled \subseteq Messages
  /\ turn \in [Messages -> TurnRecord]
  /\ \A m \in Messages : turn[m].claim # None <=> turn[m].status = "RUNNING"
  /\ log \in [Convs -> Seq(LogRecord)]

WorkersOK ==
  /\ worker \in [Workers -> WorkerRecord]
  /\ \A w \in Workers : worker[w].pc # "idle" => worker[w].msg \in Messages

(* A turn is in the log of its conversation from the time it is known.     *)
TurnsLogged ==
  \A m \in Messages : turn[m].status # "ABSENT" =>
    /\ turn[m].conv \in Convs
    /\ \E i \in 1 .. Len(log[turn[m].conv]) : log[turn[m].conv][i] = UserTurn(m)

OneRunning ==
  \A m, x \in Messages :
    turn[m].status = "RUNNING" /\ turn[x].status = "RUNNING" /\ m # x => turn[x].conv # turn[m].conv

(* No turn has a reply before it SUCCEEDED, so the one that ends it is its *)
(* first.                                                                  *)
RepliesKnown ==
  \A m \in Messages :
    IF turn[m].status = "SUCCEEDED" THEN \E r : Replies(m) = {r} ELSE Replies(m) = {}

RepliesFollow ==
  \A m \in Messages : \A r \in Replies(m) :
    r[1] = turn[m].conv /\ \E i \in 1 .. r[2] : log[r[1]][i] = UserTurn(m)

HandledWithTurn == \A m \in Messages : m \in handled <=> Ended(m)

AnswersInv == TurnsLogged /\ OneRunning /\ RepliesKnown /\ RepliesFollow /\ HandledWithTurn
TurnInv == TurnsOK /\ AnswersInv
ConvInv == RowsOK /\ WorkersOK /\ TurnInv

LEMMA TypesSplit == RowsOK /\ TurnsOK /\ WorkersOK => ConvTypeOK
  BY DEF ConvTypeOK, RowsOK, TurnsOK, WorkersOK, LogRecord, TurnRecord, WorkerRecord

-----------------------------------------------------------------------------
(* What a reply is.                                                        *)
LEMMA RepliesAre ==
  ASSUME NEW m \in Messages, NEW r
  PROVE  r \in Replies(m) <=>
           \E c \in Convs : \E i \in 1 .. Len(log[c]) : r = <<c, i>> /\ log[c][i] = AssistantTurn(m)
  BY DEF Replies

LEMMA RepliesWere ==
  ASSUME NEW m \in Messages, NEW r
  PROVE  r \in Replies(m)' <=>
           \E c \in Convs : \E i \in 1 .. Len(log'[c]) :
             r = <<c, i>> /\ log'[c][i] = AssistantTurn(m)
  BY DEF Replies, AssistantTurn

LEMMA Answered == ConvInv => AnsweredOnce
  <1> SUFFICES ASSUME ConvInv, NEW m \in Messages
               PROVE  Cardinality(Replies(m)) = IF turn[m].status = "SUCCEEDED" THEN 1 ELSE 0
    BY DEF AnsweredOnce, ConvInv, TurnInv, AnswersInv, OneRunning, RepliesFollow, HandledWithTurn
  <1> QED  BY FS_EmptySet, FS_Singleton DEF ConvInv, TurnInv, AnswersInv, RepliesKnown

-----------------------------------------------------------------------------
(* Rows are only added to a log, behind the others.                        *)
LogGrows(c, s) == log' = [log EXCEPT ![c] = log[c] \o s]

Grown(d, c, s) ==
  /\ Len(log'[d]) \in Nat /\ Len(log[d]) <= Len(log'[d])
  /\ \A i \in 1 .. Len(log[d]) : i \in 1 .. Len(log'[d]) /\ log'[d][i] = log[d][i]
  /\ \A j \in 1 .. Len(log'[d]) :
       \/ j \in 1 .. Len(log[d])
       \/ d = c /\ j - Len(log[c]) \in 1 .. Len(s) /\ log'[d][j] = s[j - Len(log[c])]

LEMMA Growth ==
  ASSUME TurnsOK, NEW c \in Convs, NEW s \in Seq(LogRecord), LogGrows(c, s)
  PROVE  log' \in [Convs -> Seq(LogRecord)] /\ \A d \in Convs : Grown(d, c, s)
  <1>1. log \in [Convs -> Seq(LogRecord)] /\ log[c] \in Seq(LogRecord)
    BY DEF TurnsOK
  <1>2. log'[c] = log[c] \o s /\ \A d \in Convs : d # c => log'[d] = log[d]
    BY <1>1 DEF LogGrows
  <1>3. /\ log[c] \o s \in Seq(LogRecord) /\ Len(log[c] \o s) = Len(log[c]) + Len(s)
        /\ \A i \in 1 .. Len(log[c]) : (log[c] \o s)[i] = log[c][i]
        /\ \A j \in 1 .. Len(log[c]) + Len(s) :
             j > Len(log[c]) => (log[c] \o s)[j] = s[j - Len(log[c])]
        /\ Len(log[c]) \in Nat /\ Len(s) \in Nat
    BY <1>1
  <1>4. log' \in [Convs -> Seq(LogRecord)]
    BY <1>1, <1>3 DEF LogGrows
  <1>5. \A d \in Convs : Len(log[d]) \in Nat
    BY <1>1
  <1>6. Grown(c, c, s)
    BY <1>2, <1>3 DEF Grown
  <1>7. \A d \in Convs : d # c => Grown(d, c, s)
    BY <1>2, <1>5 DEF Grown
  <1> QED  BY <1>4, <1>6, <1>7

LEMMA NoReplyAdded ==
  ASSUME TurnsOK, NEW c \in Convs, NEW s \in Seq(LogRecord), LogGrows(c, s),
         NEW m \in Messages, \A k \in 1 .. Len(s) : s[k] # AssistantTurn(m)
  PROVE  Replies(m)' = Replies(m)
  <1>1. ASSUME NEW r PROVE r \in Replies(m)' <=> r \in Replies(m)
    <2>1. \A d \in Convs : Grown(d, c, s) /\ Len(log[d]) \in Nat
      BY Growth DEF TurnsOK
    <2>2. ASSUME r \in Replies(m)' PROVE r \in Replies(m)
      <3>1. PICK d \in Convs : \E i \in 1 .. Len(log'[d]) :
              r = <<d, i>> /\ log'[d][i] = AssistantTurn(m)
        BY <2>2, RepliesWere
      <3>2. PICK i \in 1 .. Len(log'[d]) : r = <<d, i>> /\ log'[d][i] = AssistantTurn(m)
        BY <3>1
      <3>3. i \in 1 .. Len(log[d]) /\ log[d][i] = AssistantTurn(m)
        BY <2>1, <3>2 DEF Grown
      <3> QED  BY <3>2, <3>3, RepliesAre
    <2>3. ASSUME r \in Replies(m) PROVE r \in Replies(m)'
      <3>1. PICK d \in Convs : \E i \in 1 .. Len(log[d]) :
              r = <<d, i>> /\ log[d][i] = AssistantTurn(m)
        BY <2>3, RepliesAre
      <3>2. PICK i \in 1 .. Len(log[d]) : r = <<d, i>> /\ log[d][i] = AssistantTurn(m)
        BY <3>1
      <3>3. i \in 1 .. Len(log'[d]) /\ log'[d][i] = AssistantTurn(m)
        BY <2>1, <3>2 DEF Grown
      <3> QED  BY <3>2, <3>3, RepliesWere
    <2> QED  BY <2>2, <2>3
  <1> QED  BY <1>1

LEMMA ReplyAdded ==
  ASSUME TurnsOK, NEW c \in Convs, NEW m \in Messages, LogGrows(c, <<AssistantTurn(m)>>),
         Replies(m) = {}
  PROVE  Replies(m)' = {<<c, Len(log[c]) + 1>>}
  <1> DEFINE s == <<AssistantTurn(m)>>
  <1>1. s \in Seq(LogRecord) /\ Len(s) = 1 /\ s[1] = AssistantTurn(m)
    BY DEF AssistantTurn, LogRecord, Convs
  <1>2. Len(log[c]) \in Nat /\ log[c] \in Seq(LogRecord)
    BY DEF TurnsOK
  <1> HIDE DEF s
  <1>3. /\ log'[c] = log[c] \o s /\ Len(log'[c]) = Len(log[c]) + 1
        /\ log'[c][Len(log[c]) + 1] = AssistantTurn(m)
    BY <1>1, <1>2 DEF LogGrows, TurnsOK, s
  <1>4. ASSUME NEW r PROVE r \in Replies(m)' <=> r = <<c, Len(log[c]) + 1>>
    <2>1. CASE r = <<c, Len(log[c]) + 1>>
      BY <1>2, <1>3, <2>1, RepliesWere
    <2>2. ASSUME r \in Replies(m)' PROVE r = <<c, Len(log[c]) + 1>>
      <3>1. PICK d \in Convs : \E i \in 1 .. Len(log'[d]) :
              r = <<d, i>> /\ log'[d][i] = AssistantTurn(m)
        BY <2>2, RepliesWere
      <3>2. PICK i \in 1 .. Len(log'[d]) : r = <<d, i>> /\ log'[d][i] = AssistantTurn(m)
        BY <3>1
      <3>3. i \notin 1 .. Len(log[d])
        <4> SUFFICES ASSUME i \in 1 .. Len(log[d]) PROVE FALSE
          OBVIOUS
        <4>1. log[d][i] = AssistantTurn(m)
          BY <1>1, <3>2, Growth DEF s, Grown
        <4>2. r \in Replies(m)
          BY <3>2, <4>1, RepliesAre
        <4> QED  BY <4>2
      <3>4. d = c /\ i - Len(log[c]) \in 1 .. 1
        BY <1>1, <3>2, <3>3, Growth DEF s, Grown
      <3> QED  BY <1>2, <3>2, <3>4
    <2> QED  BY <2>1, <2>2
  <1> QED  BY <1>4

(* What was in the log stays where it was.                                 *)
LEMMA LoggedStays ==
  ASSUME TurnInv, NEW c \in Convs, NEW s \in Seq(LogRecord), LogGrows(c, s), NEW m \in Messages
  PROVE  /\ turn[m].status # "ABSENT" =>
              \E i \in 1 .. Len(log'[turn[m].conv]) : log'[turn[m].conv][i] = UserTurn(m)
         /\ \A r \in Replies(m) :
              r[1] = turn[m].conv /\ \E i \in 1 .. r[2] : log'[r[1]][i] = UserTurn(m)
  <1>1. \A d \in Convs : Grown(d, c, s) /\ Len(log[d]) \in Nat
    BY Growth DEF TurnInv, TurnsOK
  <1>2. turn[m].status # "ABSENT" =>
          \E i \in 1 .. Len(log'[turn[m].conv]) : log'[turn[m].conv][i] = UserTurn(m)
    BY <1>1 DEF TurnInv, AnswersInv, TurnsLogged, Grown
  <1>3. ASSUME NEW r \in Replies(m)
        PROVE  r[1] = turn[m].conv /\ \E i \in 1 .. r[2] : log'[r[1]][i] = UserTurn(m)
    <2>1. PICK d \in Convs : \E k \in 1 .. Len(log[d]) : r = <<d, k>>
      BY RepliesAre
    <2>2. PICK k \in 1 .. Len(log[d]) : r = <<d, k>>
      BY <2>1
    <2>3. PICK i \in 1 .. k : log[d][i] = UserTurn(m) /\ d = turn[m].conv
      BY <2>2 DEF TurnInv, AnswersInv, RepliesFollow
    <2>4. i \in 1 .. Len(log[d]) /\ log'[d][i] = UserTurn(m)
      BY <1>1, <2>2, <2>3 DEF Grown
    <2> QED  BY <2>2, <2>3, <2>4
  <1> QED  BY <1>2, <1>3

-----------------------------------------------------------------------------
LEMMA TurnsKept ==
  ASSUME TurnInv, UNCHANGED <<turn, log, handled>>
  PROVE  TurnInv'
  <1>1. \A m \in Messages : Replies(m)' = Replies(m)
    BY DEF Replies, AssistantTurn
  <1>2. \A m \in Messages : UserTurn(m)' = UserTurn(m)
    BY DEF UserTurn
  <1> QED  BY <1>1, <1>2 DEF TurnInv, AnswersInv, TurnsOK, TurnsLogged, OneRunning, RepliesKnown,
              RepliesFollow, HandledWithTurn, Ended

(* A turn that has not ended goes on, waits or is given up: nothing is     *)
(* said.                                                                   *)
GoesOn(m, x) ==
  /\ turn[m].status \in {"QUEUED", "RUNNING", "RETRYABLE_FAILURE"}
  /\ x \in TurnRecord /\ x.conv = turn[m].conv
  /\ x.status \in {"RUNNING", "RETRYABLE_FAILURE", "PERMANENT_FAILURE"}
  /\ x.claim # None <=> x.status = "RUNNING"
  /\ x.status = "RUNNING" => turn[m].status = "RUNNING" \/ ~Competing(x.conv, m)
  /\ turn' = [turn EXCEPT ![m] = x]
  /\ handled' = IF x.status = "PERMANENT_FAILURE" THEN handled \union {m} ELSE handled
  /\ UNCHANGED log

LEMMA TurnGoesOn ==
  ASSUME TurnInv, NEW m \in Messages, NEW x, GoesOn(m, x)
  PROVE  TurnInv'
  <1>1. /\ turn'[m] = x /\ \A y \in Messages : y # m => turn'[y] = turn[y]
        /\ turn' \in [Messages -> TurnRecord]
    BY DEF GoesOn, TurnInv, TurnsOK
  <1>2. \A y \in Messages : Replies(y)' = Replies(y) /\ turn'[y].conv = turn[y].conv
    BY <1>1 DEF GoesOn, Replies, AssistantTurn
  <1>3. TurnsOK'
    BY <1>1 DEF GoesOn, TurnInv, TurnsOK
  <1>4. TurnsLogged'
    <2> SUFFICES ASSUME NEW y \in Messages, turn'[y].status # "ABSENT"
                 PROVE  /\ turn'[y].conv \in Convs
                        /\ \E i \in 1 .. Len(log'[turn'[y].conv]) :
                             log'[turn'[y].conv][i] = UserTurn(y)
      BY DEF TurnsLogged, UserTurn
    <2>1. turn[y].status # "ABSENT" /\ turn'[y].conv = turn[y].conv /\ log' = log
      BY <1>1, <1>2 DEF GoesOn
    <2> QED  BY <2>1 DEF TurnInv, AnswersInv, TurnsLogged
  <1>5. OneRunning'
    <2> SUFFICES ASSUME NEW y \in Messages, NEW z \in Messages, y # z,
                        turn'[y].status = "RUNNING", turn'[z].status = "RUNNING"
                 PROVE  turn'[z].conv # turn'[y].conv
      BY DEF OneRunning
    <2> QED  BY <1>1, <1>2 DEF GoesOn, TurnInv, AnswersInv, OneRunning, Competing
  <1>6. RepliesKnown'
    BY <1>1, <1>2 DEF GoesOn, TurnInv, AnswersInv, RepliesKnown
  <1>7. RepliesFollow'
    BY <1>2 DEF GoesOn, TurnInv, AnswersInv, RepliesFollow, UserTurn
  <1>8. HandledWithTurn'
    BY <1>1 DEF GoesOn, TurnInv, AnswersInv, HandledWithTurn, Ended
  <1> QED  BY <1>3, <1>4, <1>5, <1>6, <1>7, <1>8 DEF TurnInv, AnswersInv

-----------------------------------------------------------------------------
(* The owner of a RUNNING turn ends it with its first reply.               *)
LEMMA TurnCompletes ==
  ASSUME TurnInv, NEW m \in Messages, NEW c \in Convs,
         turn[m].status = "RUNNING", turn[m].conv = c,
         turn' = Settled(m, "SUCCEEDED"), handled' = handled \union {m},
         log' = [log EXCEPT ![c] = Append(@, AssistantTurn(m))]
  PROVE  TurnInv'
  <1> DEFINE x == [turn[m] EXCEPT !.status = "SUCCEEDED", !.claim = None, !.timer = "none"]
             s == <<AssistantTurn(m)>>
  <1>1. turn \in [Messages -> TurnRecord] /\ turn[m] \in TurnRecord
    BY DEF TurnInv, TurnsOK
  <1>2. Replies(m) = {} /\ log \in [Convs -> Seq(LogRecord)] /\ log[c] \in Seq(LogRecord)
    BY <1>1 DEF TurnInv, TurnsOK, AnswersInv, RepliesKnown
  <1>3. turn' = [turn EXCEPT ![m] = x]
    BY <1>1 DEF Settled
  <1>4. x \in TurnRecord /\ x.status = "SUCCEEDED" /\ x.claim = None /\ x.conv = c
    BY <1>1 DEF TurnRecord
  <1>5. s \in Seq(LogRecord) /\ Len(s) = 1 /\ s[1] = AssistantTurn(m)
    BY DEF AssistantTurn, LogRecord, Convs
  <1>6. LogGrows(c, s)
    <2>1. Append(log[c], AssistantTurn(m)) = log[c] \o s
      BY <1>2, <1>5
    <2> QED  BY <2>1 DEF LogGrows
  <1>7. Replies(m)' = {<<c, Len(log[c]) + 1>>}
    BY <1>1, <1>2, <1>6, ReplyAdded DEF TurnInv
  <1>8. ASSUME NEW y \in Messages, y # m
        PROVE  Replies(y)' = Replies(y)
    <2>1. \A k \in 1 .. Len(s) : s[k] # AssistantTurn(y)
      BY <1>5, <1>8 DEF AssistantTurn
    <2> HIDE DEF s
    <2> QED  BY <1>5, <1>6, <2>1, NoReplyAdded DEF TurnInv
  <1> HIDE DEF x, s
  <1>9. /\ turn'[m] = x /\ \A y \in Messages : y # m => turn'[y] = turn[y]
        /\ turn' \in [Messages -> TurnRecord]
    BY <1>1, <1>3, <1>4 DEF TurnInv, TurnsOK
  <1>10. \A y \in Messages : turn'[y].conv = turn[y].conv
    BY <1>4, <1>9
  <1>11. TurnsOK'
    BY <1>1, <1>2, <1>3, <1>4, <1>5, <1>6, <1>9, Growth DEF TurnInv, TurnsOK
  <1>12. TurnsLogged'
    <2> SUFFICES ASSUME NEW y \in Messages, turn'[y].status # "ABSENT"
                 PROVE  /\ turn'[y].conv \in Convs
                        /\ \E i \in 1 .. Len(log'[turn'[y].conv]) :
                             log'[turn'[y].conv][i] = UserTurn(y)
      BY DEF TurnsLogged, UserTurn
    <2>1. turn[y].status # "ABSENT" /\ turn'[y].conv = turn[y].conv
      BY <1>9, <1>10
    <2>2. turn[y].conv \in Convs
      BY <2>1 DEF TurnInv, AnswersInv, TurnsLogged
    <2> QED  BY <1>5, <1>6, <2>1, <2>2, LoggedStays
  <1>13. OneRunning'
    BY <1>4, <1>9 DEF TurnInv, AnswersInv, OneRunning
  <1>14. RepliesKnown'
    BY <1>4, <1>7, <1>8, <1>9 DEF TurnInv, AnswersInv, RepliesKnown
  <1>15. RepliesFollow'
    <2> SUFFICES ASSUME NEW y \in Messages, NEW r \in Replies(y)'
                 PROVE  r[1] = turn'[y].conv /\ \E i \in 1 .. r[2] : log'[r[1]][i] = UserTurn(y)
      BY DEF RepliesFollow, UserTurn
    <2>1. CASE y # m
      <3>1. r \in Replies(y)
        BY <1>8, <2>1
      <3>2. r[1] = turn[y].conv /\ \E i \in 1 .. r[2] : log'[r[1]][i] = UserTurn(y)
        BY <1>5, <1>6, <3>1, LoggedStays
      <3> QED  BY <1>10, <3>2
    <2>2. CASE y = m
      <3>1. r[1] = c /\ r[2] = Len(log[c]) + 1
        BY <1>7, <2>2
      <3>2. PICK i \in 1 .. Len(log[c]) : log[c][i] = UserTurn(m)
        BY <1>1 DEF TurnInv, AnswersInv, TurnsLogged
      <3>3. log'[c][i] = UserTurn(m) /\ i \in 1 .. Len(log[c]) + 1
        BY <1>2, <1>5, <1>6, <3>2, Growth DEF Grown, TurnInv
      <3> QED  BY <1>10, <2>2, <3>1, <3>3
    <2> QED  BY <2>1, <2>2
  <1>16. HandledWithTurn'
    BY <1>1, <1>3, <1>4, <1>9 DEF TurnInv, AnswersInv, HandledWithTurn, Ended
  <1> QED  BY <1>11, <1>12, <1>13, <1>14, <1>15, <1>16 DEF TurnInv, AnswersInv

(* A new turn goes to the end of the log of its conversation, behind the   *)
(* Notification it answers if that is not there yet.                       *)
LEMMA NewRows ==
  ASSUME TurnsOK, NEW m \in Messages, NEW c \in Convs,
         log' = [log EXCEPT ![c] = @ \o NoticeTurn(m) \o <<UserTurn(m)>>]
  PROVE  \E s \in Seq(LogRecord) :
           /\ LogGrows(c, s) /\ Len(s) \in 1 .. 2 /\ s[Len(s)] = UserTurn(m)
           /\ \A k \in 1 .. Len(s) : s[k] \in {AssistantTurn(Mail), UserTurn(m)}
  <1> DEFINE s == NoticeTurn(m) \o <<UserTurn(m)>>
  <1>1. /\ NoticeTurn(m) \in Seq(LogRecord) /\ Len(NoticeTurn(m)) \in 0 .. 1
        /\ \A k \in 1 .. Len(NoticeTurn(m)) : NoticeTurn(m)[k] = AssistantTurn(Mail)
    <2>1. AssistantTurn(Mail) \in LogRecord
      BY DEF AssistantTurn, LogRecord, Convs
    <2> QED  BY <2>1 DEF NoticeTurn
  <1>2. UserTurn(m) \in LogRecord
    BY DEF UserTurn, LogRecord, Convs
  <1>3. /\ s \in Seq(LogRecord) /\ Len(s) \in 1 .. 2 /\ s[Len(s)] = UserTurn(m)
        /\ \A k \in 1 .. Len(s) : s[k] \in {AssistantTurn(Mail), UserTurn(m)}
    BY <1>1, <1>2
  <1>4. log \in [Convs -> Seq(LogRecord)] /\ log[c] \in Seq(LogRecord) /\ Len(log[c]) \in Nat
    BY DEF TurnsOK
  <1>5. (log[c] \o NoticeTurn(m)) \o <<UserTurn(m)>> = log[c] \o s
    BY <1>1, <1>2, <1>4
  <1>6. LogGrows(c, s)
    BY <1>5 DEF LogGrows
  <1> HIDE DEF s
  <1> QED  BY <1>3, <1>6

LEMMA TurnTakenUp ==
  ASSUME TurnInv, NEW m \in Messages, NEW c \in Convs, NEW x \in TurnRecord,
         turn[m].status = "ABSENT", turn' = [turn EXCEPT ![m] = x], x.conv = c,
         \/ x.status = "QUEUED" /\ x.claim = None
         \/ x.status = "RUNNING" /\ x.claim # None /\ ~Competing(c, m),
         UNCHANGED handled,
         log' = [log EXCEPT ![c] = @ \o NoticeTurn(m) \o <<UserTurn(m)>>]
  PROVE  TurnInv'
  <1>1. PICK s \in Seq(LogRecord) :
          /\ LogGrows(c, s) /\ Len(s) \in 1 .. 2 /\ s[Len(s)] = UserTurn(m)
          /\ \A k \in 1 .. Len(s) : s[k] \in {AssistantTurn(Mail), UserTurn(m)}
    BY NewRows DEF TurnInv
  <1> DEFINE n == Len(s)
  <1>3. n \in 1 .. 2 /\ s[n] = UserTurn(m)
        /\ \A k \in 1 .. n : s[k] \in {AssistantTurn(Mail), UserTurn(m)}
    BY <1>1
  <1>4. log \in [Convs -> Seq(LogRecord)] /\ log[c] \in Seq(LogRecord) /\ Len(log[c]) \in Nat
    BY DEF TurnInv, TurnsOK
  <1>5. LogGrows(c, s)
    BY <1>1
  <1>6. log'[c][Len(log[c]) + n] = UserTurn(m) /\ Len(log[c]) + n \in 1 .. Len(log'[c])
    BY <1>3, <1>4, <1>5 DEF LogGrows
  <1>7. ASSUME NEW y \in Messages
        PROVE  Replies(y)' = Replies(y)
    <2>1. \A k \in 1 .. n : s[k] # AssistantTurn(y)
      BY <1>3, ConversationAssumption DEF AssistantTurn, UserTurn
    <2> QED  BY <1>3, <1>5, <2>1, NoReplyAdded DEF TurnInv
  <1>8. /\ turn'[m] = x /\ \A y \in Messages : y # m => turn'[y] = turn[y]
        /\ turn' \in [Messages -> TurnRecord]
    BY DEF TurnInv, TurnsOK
  <1>9. TurnsOK'
    BY <1>3, <1>5, <1>8, Growth DEF TurnInv, TurnsOK
  <1>10. TurnsLogged'
    <2> SUFFICES ASSUME NEW y \in Messages, turn'[y].status # "ABSENT"
                 PROVE  /\ turn'[y].conv \in Convs
                        /\ \E i \in 1 .. Len(log'[turn'[y].conv]) :
                             log'[turn'[y].conv][i] = UserTurn(y)
      BY DEF TurnsLogged, UserTurn
    <2>1. CASE y = m
      BY <1>6, <1>8, <2>1
    <2>2. CASE y # m
      <3>1. turn'[y] = turn[y] /\ turn[y].conv \in Convs
        BY <1>8, <2>2 DEF TurnInv, AnswersInv, TurnsLogged
      <3> QED  BY <1>3, <1>5, <3>1, LoggedStays
    <2> QED  BY <2>1, <2>2
  <1>11. OneRunning'
    <2> SUFFICES ASSUME NEW y \in Messages, NEW z \in Messages, y # z,
                        turn'[y].status = "RUNNING", turn'[z].status = "RUNNING"
                 PROVE  turn'[z].conv # turn'[y].conv
      BY DEF OneRunning
    <2> QED  BY <1>8 DEF TurnInv, AnswersInv, OneRunning, Competing
  <1>12. Replies(m) = {}
    BY DEF TurnInv, AnswersInv, RepliesKnown
  <1>13. RepliesKnown'
    BY <1>7, <1>8, <1>12 DEF TurnInv, AnswersInv, RepliesKnown
  <1>14. RepliesFollow'
    <2> SUFFICES ASSUME NEW y \in Messages, NEW r \in Replies(y)'
                 PROVE  r[1] = turn'[y].conv /\ \E i \in 1 .. r[2] : log'[r[1]][i] = UserTurn(y)
      BY DEF RepliesFollow, UserTurn
    <2>1. r \in Replies(y) /\ y # m
      BY <1>7, <1>12
    <2>2. r[1] = turn[y].conv /\ \E i \in 1 .. r[2] : log'[r[1]][i] = UserTurn(y)
      BY <1>3, <1>5, <2>1, LoggedStays
    <2> QED  BY <1>8, <2>1, <2>2
  <1>15. HandledWithTurn'
    BY <1>8 DEF TurnInv, AnswersInv, HandledWithTurn, Ended
  <1> QED  BY <1>9, <1>10, <1>11, <1>13, <1>14, <1>15 DEF TurnInv, AnswersInv

-----------------------------------------------------------------------------
LEMMA Initial == Init => ConvInv
  <1> SUFFICES ASSUME Init PROVE ConvInv
    OBVIOUS
  <1> USE ConversationAssumption DEF Init, NoTurn, Resting
  <1>1. RowsOK
    BY DEF RowsOK, Requests
  <1>2. WorkersOK
    BY DEF WorkersOK, WorkerRecord
  <1>3. TurnsOK
    BY DEF TurnsOK, TurnRecord
  <1>4. \A m \in Messages : Replies(m) = {}
    BY DEF Replies
  <1>5. AnswersInv
    BY <1>4 DEF AnswersInv, TurnsLogged, OneRunning, RepliesKnown, RepliesFollow, HandledWithTurn,
               Ended
  <1> QED  BY <1>1, <1>2, <1>3, <1>5 DEF ConvInv, TurnInv

(* What ends the attempt of an owner.                                      *)
Ends(w) == Complete(w) \/ \E status \in {"RETRYABLE_FAILURE", "PERMANENT_FAILURE"} : Fail(w, status)

LEMMA OwnerEnds ==
  ASSUME ConvInv, NEW w \in Workers, worker[w].pc # "idle", Owns(w), Ends(w)
  PROVE  TurnInv'
  <1>1. PICK m \in Messages : m = worker[w].msg
    BY DEF ConvInv, WorkersOK
  <1>2. turn[m].status = "RUNNING" /\ turn[m] \in TurnRecord /\ turn \in [Messages -> TurnRecord]
    BY <1>1 DEF Owns, ConvInv, TurnInv, TurnsOK
  <1>3. CASE Complete(w)
    <2>1. PICK c \in Convs : c = turn[m].conv
      BY <1>2 DEF ConvInv, TurnInv, AnswersInv, TurnsLogged
    <2> QED  BY <1>1, <1>2, <1>3, <2>1, TurnCompletes DEF Complete, ConvInv
  <1>4. ASSUME NEW status \in {"RETRYABLE_FAILURE", "PERMANENT_FAILURE"}, Fail(w, status)
        PROVE  TurnInv'
    <2> DEFINE t == IF status = "RETRYABLE_FAILURE" THEN "running" ELSE "none"
               x == [turn[m] EXCEPT !.status = status, !.claim = None, !.timer = t]
    <2>1. turn' = [turn EXCEPT ![m] = x]
      BY <1>1, <1>2, <1>4 DEF Fail, Settled
    <2>2. x \in TurnRecord /\ x.conv = turn[m].conv /\ x.status = status /\ x.claim = None
      BY <1>2 DEF TurnRecord
    <2> HIDE DEF x
    <2>3. GoesOn(m, x)
      BY <1>1, <1>2, <1>4, <2>1, <2>2 DEF GoesOn, Fail, rows
    <2> QED  BY <2>3, TurnGoesOn DEF ConvInv
  <1> QED  BY <1>3, <1>4 DEF Ends

LEMMA RetryEnds ==
  ASSUME NEW w \in Workers, Retry(w)
  PROVE  Ends(w)
  BY DEF Retry, Ends

LEMMA ClaimedIs ==
  ASSUME NEW t \in TurnRecord, NEW w \in Workers
  PROVE  /\ Claimed(t, w) \in TurnRecord /\ Claimed(t, w).status = "RUNNING"
         /\ Claimed(t, w).claim = w /\ Claimed(t, w).conv = t.conv
  BY DEF Claimed, TurnRecord

TakenUp(m, c, x) ==
  /\ turn[m].status = "ABSENT" /\ turn' = [turn EXCEPT ![m] = x] /\ x.conv = c
  /\ \/ x.status = "QUEUED" /\ x.claim = None
     \/ x.status = "RUNNING" /\ x.claim # None /\ ~Competing(c, m)
  /\ UNCHANGED handled
  /\ log' = [log EXCEPT ![c] = @ \o NoticeTurn(m) \o <<UserTurn(m)>>]

LEMMA TakeUpTakes ==
  ASSUME ConvInv, NEW m \in Messages, NEW w \in Workers, TakeUp(w, m)
  PROVE  \E c \in Convs, x \in TurnRecord : TakenUp(m, c, x)
  <1>1. Targets(m) \subseteq Convs
    BY DEF Targets, Latest, ConvInv, RowsOK, Convs
  <1>2. PICK c \in Convs :
          LET queued == [NoTurn EXCEPT !.status = "QUEUED", !.conv = c]
          IN /\ log' = [log EXCEPT ![c] = @ \o NoticeTurn(m) \o <<UserTurn(m)>>]
             /\ IF Competing(c, m)
                THEN turn' = [turn EXCEPT ![m] = queued]
                ELSE turn' = [turn EXCEPT ![m] = Claimed(queued, w)]
    BY <1>1 DEF TakeUp
  <1> DEFINE q == [NoTurn EXCEPT !.status = "QUEUED", !.conv = c]
             x == IF Competing(c, m) THEN q ELSE Claimed(q, w)
  <1>3. q \in TurnRecord /\ q.status = "QUEUED" /\ q.conv = c /\ q.claim = None
    BY DEF NoTurn, TurnRecord
  <1>4. turn' = [turn EXCEPT ![m] = x]
    BY <1>2
  <1> HIDE DEF q
  <1>5. /\ x \in TurnRecord /\ x.conv = c
        /\ \/ x.status = "QUEUED" /\ x.claim = None
           \/ x.status = "RUNNING" /\ x.claim # None /\ ~Competing(c, m)
    BY <1>3, ClaimedIs, ConversationAssumption
  <1> HIDE DEF x
  <1>6. turn[m].status = "ABSENT" /\ UNCHANGED handled
    BY DEF TakeUp
  <1> QED  BY <1>2, <1>4, <1>5, <1>6 DEF TakenUp

LEMMA TurnStep ==
  ASSUME ConvInv, [Next]_vars
  PROVE  TurnInv'
  <1>1. /\ turn \in [Messages -> TurnRecord] /\ None \notin Workers /\ TurnInv
        /\ \A m \in Messages : turn[m] \in TurnRecord
    BY ConversationAssumption DEF ConvInv, TurnInv, TurnsOK
  <1>2. ASSUME NEW m \in Messages, NEW w \in Workers, TakeUp(w, m)
        PROVE  TurnInv'
    <2>1. PICK c \in Convs, x \in TurnRecord : TakenUp(m, c, x)
      BY <1>2, TakeUpTakes
    <2> QED  BY <1>1, <1>2, <2>1, TurnTakenUp DEF TakenUp
  <1>3. ASSUME NEW m \in Messages, NEW w \in Workers, Claim(w, m)
        PROVE  TurnInv'
    <2> DEFINE x == Claimed(turn[m], w)
    <2>1. x \in TurnRecord /\ x.status = "RUNNING" /\ x.claim # None /\ x.conv = turn[m].conv
      BY <1>1, ClaimedIs
    <2>2. turn' = [turn EXCEPT ![m] = x]
      BY <1>3 DEF Claim
    <2> HIDE DEF x
    <2>3. GoesOn(m, x)
      BY <1>3, <2>1, <2>2 DEF Claim, Eligible, GoesOn, rows
    <2> QED  BY <1>1, <2>3, TurnGoesOn
  <1>4. ASSUME NEW m \in Messages, TimerPasses(m)
        PROVE  TurnInv'
    <2> DEFINE x == [turn[m] EXCEPT !.timer = "passed"]
    <2>1. turn' = [turn EXCEPT ![m] = x] /\ UNCHANGED <<handled, log>>
      BY <1>1, <1>4 DEF TimerPasses, rows
    <2>2. /\ x \in TurnRecord /\ x.conv = turn[m].conv /\ x.status = turn[m].status
          /\ x.claim = turn[m].claim
      BY <1>1 DEF TurnRecord
    <2> HIDE DEF x
    <2>3. turn'[m] = x /\ \A y \in Messages : y # m => turn'[y] = turn[y]
      BY <1>1, <2>1
    <2>4. /\ turn' \in [Messages -> TurnRecord]
          /\ \A y \in Messages : /\ turn'[y].status = turn[y].status /\ turn'[y].conv = turn[y].conv
                                 /\ turn'[y].claim = turn[y].claim
      BY <1>1, <2>1, <2>2, <2>3
    <2>5. \A y \in Messages : Replies(y)' = Replies(y)
      BY <2>1 DEF Replies, AssistantTurn
    <2>6. TurnsOK' /\ TurnsLogged' /\ OneRunning'
      BY <1>1, <2>1, <2>4 DEF TurnInv, TurnsOK, AnswersInv, TurnsLogged, OneRunning, UserTurn
    <2>7. RepliesKnown'
      BY <1>1, <2>4, <2>5 DEF TurnInv, AnswersInv, RepliesKnown
    <2>8. RepliesFollow'
      BY <1>1, <2>1, <2>4, <2>5 DEF TurnInv, AnswersInv, RepliesFollow, UserTurn
    <2>9. HandledWithTurn'
      BY <1>1, <2>1, <2>4 DEF TurnInv, AnswersInv, HandledWithTurn, Ended
    <2> QED  BY <2>6, <2>7, <2>8, <2>9 DEF TurnInv, AnswersInv
  <1>5. ASSUME NEW w \in Workers,
               \/ LookUp(w) \/ Revise(w) \/ ReviseTooLate(w) \/ Answer(w) \/ Superseded(w)
               \/ ProviderFails(w) \/ ModelRefuses(w) \/ Crash(w)
        PROVE  TurnInv'
    <2>1. \/ worker[w].pc # "idle" /\ Owns(w) /\ Ends(w)
          \/ UNCHANGED <<turn, log, handled>>
      BY <1>5, RetryEnds
         DEF LookUp, Revise, ReviseTooLate, Answer, Superseded, ProviderFails, ModelRefuses, Crash,
             Ends, rows
    <2> QED  BY <1>1, <2>1, OwnerEnds, TurnsKept
  <1>6. CASE \/ \E m \in Messages, to \in Requests : Post(m, to)
             \/ \E m \in Messages : Acknowledge(m)
             \/ PressChange \/ SessionLapses \/ Revoke \/ PairAgain \/ UNCHANGED vars
    <2>1. UNCHANGED <<turn, log, handled>>
      BY <1>6 DEF Post, Acknowledge, PressChange, SessionLapses, Revoke, PairAgain, vars, rows
    <2> QED  BY <1>1, <2>1, TurnsKept
  <1> QED  BY <1>2, <1>3, <1>4, <1>5, <1>6 DEF Next, Delivery, WorkerStep

-----------------------------------------------------------------------------
LEMMA WorkersKept ==
  ASSUME WorkersOK, UNCHANGED worker
  PROVE  WorkersOK'
  BY DEF WorkersOK, WorkerRecord

LEMMA OneWorkerSet ==
  ASSUME WorkersOK, NEW w \in Workers, NEW x \in WorkerRecord, worker' = [worker EXCEPT ![w] = x],
         x.pc # "idle" => x.msg \in Messages
  PROVE  WorkersOK'
  BY DEF WorkersOK, WorkerRecord

LEMMA WorkersStep ==
  ASSUME ConvInv, [Next]_vars
  PROVE  WorkersOK'
  <1>1. /\ WorkersOK /\ worker \in [Workers -> WorkerRecord]
        /\ session.number \in 0 .. Cards /\ 0 \in 0 .. Cards
    BY ConversationAssumption DEF ConvInv, WorkersOK, RowsOK
  <1>2. Resting \in WorkerRecord /\ Resting.pc = "idle"
    BY <1>1 DEF Resting, WorkerRecord
  <1>3. ASSUME NEW w \in Workers, worker' = [worker EXCEPT ![w] = Resting]
        PROVE  WorkersOK'
    BY <1>1, <1>2, <1>3, OneWorkerSet
  <1>4. ASSUME NEW w \in Workers, NEW m \in Messages, Begun(w, m)
        PROVE  WorkersOK'
    <2> DEFINE x == [Resting EXCEPT !.pc = "begun", !.msg = m]
    <2>1. x \in WorkerRecord /\ x.msg = m
      BY <1>1 DEF Resting, WorkerRecord
    <2>2. worker' = [worker EXCEPT ![w] = x]
      BY <1>4 DEF Begun
    <2> HIDE DEF x
    <2> QED  BY <1>1, <2>1, <2>2, OneWorkerSet
  <1>5. ASSUME NEW w \in Workers, NEW p \in {"revising", "answering"}, NEW n \in 0 .. Cards,
               worker[w].pc # "idle", worker' = [worker EXCEPT ![w].pc = p, ![w].session = n]
        PROVE  WorkersOK'
    <2> DEFINE x == [worker[w] EXCEPT !.pc = p, !.session = n]
    <2>1. x \in WorkerRecord /\ x.msg \in Messages
      BY <1>1, <1>5 DEF WorkersOK, WorkerRecord
    <2>2. worker' = [worker EXCEPT ![w] = x]
      BY <1>1, <1>5
    <2> HIDE DEF x
    <2> QED  BY <1>1, <2>1, <2>2, OneWorkerSet
  <1>6. ASSUME NEW w \in Workers, Ends(w)
        PROVE  WorkersOK'
    BY <1>3, <1>6 DEF Ends, Complete, Fail
  <1>7. CASE UNCHANGED worker
    BY <1>1, <1>7, WorkersKept
  <1>8. ASSUME NEW w \in Workers, LookUp(w)
        PROVE  WorkersOK'
    <2>1. CASE Fail(w, "PERMANENT_FAILURE")
      BY <1>6, <2>1 DEF Ends
    <2>2. CASE ~Fail(w, "PERMANENT_FAILURE")
      <3> DEFINE p == IF session.state = "open" THEN "revising" ELSE "answering"
                 n == IF session.state = "open" THEN session.number ELSE 0
      <3>1. worker[w].pc # "idle" /\ worker' = [worker EXCEPT ![w].pc = p, ![w].session = n]
        BY <1>8, <2>2 DEF LookUp
      <3>2. p \in {"revising", "answering"} /\ n \in 0 .. Cards
        BY <1>1
      <3> HIDE DEF p, n
      <3> QED  BY <1>5, <3>1, <3>2
    <2> QED  BY <2>1, <2>2
  <1>9. ASSUME NEW w \in Workers, Revise(w)
        PROVE  WorkersOK'
    <2> DEFINE x == [worker[w] EXCEPT !.pc = "answering"]
    <2>1. x \in WorkerRecord /\ x.msg \in Messages
      BY <1>1, <1>9 DEF Revise, WorkersOK, WorkerRecord
    <2>2. worker' = [worker EXCEPT ![w] = x]
      BY <1>1, <1>9 DEF Revise
    <2> HIDE DEF x
    <2> QED  BY <1>1, <2>1, <2>2, OneWorkerSet
  <1>10. ASSUME NEW w \in Workers,
                \/ ReviseTooLate(w) \/ Answer(w) \/ ProviderFails(w) \/ ModelRefuses(w)
         PROVE  WorkersOK'
    <2>1. Ends(w)
      BY <1>10, RetryEnds DEF ReviseTooLate, Answer, ProviderFails, ModelRefuses, Ends
    <2> QED  BY <1>6, <2>1
  <1>11. ASSUME NEW w \in Workers, Superseded(w) \/ Crash(w)
         PROVE  WorkersOK'
    BY <1>3, <1>11 DEF Superseded, Crash
  <1>12. ASSUME NEW w \in Workers, NEW m \in Messages, TakeUp(w, m) \/ Claim(w, m)
         PROVE  WorkersOK'
    <2>1. Begun(w, m) \/ UNCHANGED worker
      BY <1>12 DEF TakeUp, Claim
    <2> QED  BY <1>4, <1>7, <2>1
  <1>13. CASE \/ \E m \in Messages, to \in Requests : Post(m, to)
              \/ \E m \in Messages : Acknowledge(m) \/ TimerPasses(m)
              \/ PressChange \/ SessionLapses \/ Revoke \/ PairAgain \/ UNCHANGED vars
    BY <1>7, <1>13 DEF Post, Acknowledge, TimerPasses, PressChange, SessionLapses, Revoke,
                       PairAgain, vars
  <1> QED  BY <1>8, <1>9, <1>10, <1>11, <1>12, <1>13 DEF Next, Delivery, WorkerStep

-----------------------------------------------------------------------------
(* A conversation that is touched is the latest of all.                    *)
LEMMA TouchOrders ==
  ASSUME RowsOK, NEW c \in Convs, recent' = Touch(c), active' \subseteq active \union {c}
  PROVE  /\ recent' \subseteq Convs \X Convs /\ active' \subseteq Convs
         /\ \A a, b \in active' : a # b => (<<a, b>> \in recent' <=> <<b, a>> \notin recent')
  <1>1. recent \subseteq Convs \X Convs /\ active \subseteq Convs
    BY DEF RowsOK
  <1>2. \A a, b \in Convs :
          <<a, b>> \in recent' <=> a # c /\ (b = c \/ <<a, b>> \in recent)
    BY <1>1 DEF Touch
  <1>3. recent' \subseteq Convs \X Convs
    BY <1>1 DEF Touch
  <1> QED  BY <1>1, <1>2, <1>3 DEF RowsOK

LEMMA FaultCounted ==
  ASSUME faults \in 0 .. MaxFaults, Fault
  PROVE  faults' \in 0 .. MaxFaults
  BY ConversationAssumption DEF Fault

LEMMA EndsKeepRows ==
  ASSUME ConvInv, NEW w \in Workers, worker[w].pc # "idle", Owns(w), Ends(w),
         UNCHANGED <<account, codes, post, session>>, faults' \in 0 .. MaxFaults
  PROVE  RowsOK'
  <1>1. CASE Complete(w)
    <2>1. PICK c \in Convs : c = turn[worker[w].msg].conv
      BY DEF Owns, ConvInv, WorkersOK, TurnInv, AnswersInv, TurnsLogged
    <2>2. recent' = Touch(c) /\ UNCHANGED active
      BY <1>1, <2>1 DEF Complete
    <2> QED  BY <2>2, TouchOrders DEF ConvInv, RowsOK
  <1>2. CASE ~Complete(w)
    BY <1>2 DEF Ends, Fail, rows, ConvInv, RowsOK
  <1> QED  BY <1>1, <1>2

LEMMA RowsStep ==
  ASSUME ConvInv, [Next]_vars
  PROVE  RowsOK'
  <1>1. RowsOK /\ faults \in 0 .. MaxFaults
    BY DEF ConvInv, RowsOK
  <1>2. CASE UNCHANGED <<account, codes, post, recent, active, session>> /\ faults' \in 0 .. MaxFaults
    BY <1>1, <1>2 DEF RowsOK
  <1>3. ASSUME NEW m \in Messages, NEW to \in Requests, Post(m, to)
        PROVE  RowsOK'
    BY <1>1, <1>3 DEF Post, RowsOK, rows
  <1>4. CASE PressChange
    <2>1. /\ session' \in [number : 0 .. Cards, state : {"none", "open", "lapsed"}]
          /\ recent' = Touch(Mail) /\ active' = active \union {Mail} /\ Mail \in Convs
          /\ UNCHANGED <<account, codes, post, faults>>
      BY <1>1, <1>4, ConversationAssumption DEF PressChange, RowsOK, Convs
    <2> QED  BY <1>1, <2>1, TouchOrders DEF RowsOK
  <1>5. CASE SessionLapses
    BY <1>1, <1>5 DEF SessionLapses, RowsOK, rows
  <1>6. CASE Revoke \/ PairAgain
    BY <1>1, <1>6, ConversationAssumption DEF Revoke, PairAgain, RowsOK, rows
  <1>7. ASSUME NEW m \in Messages, Acknowledge(m)
        PROVE  RowsOK'
    BY <1>1, <1>7 DEF Acknowledge, RowsOK, rows
  <1>8. ASSUME NEW m \in Messages, NEW w \in Workers, TakeUp(w, m)
        PROVE  RowsOK'
    <2>1. Targets(m) \subseteq Convs
      BY <1>1 DEF Targets, Latest, RowsOK, Convs
    <2>2. PICK c \in Convs : recent' = Touch(c) /\ active' = StillActive(m) \union {c}
      BY <1>8, <2>1 DEF TakeUp
    <2> QED  BY <1>1, <1>8, <2>2, TouchOrders DEF TakeUp, StillActive, RowsOK
  <1>9. ASSUME NEW m \in Messages, TimerPasses(m) \/ \E w \in Workers : Claim(w, m)
        PROVE  RowsOK'
    BY <1>1, <1>2, <1>9, FaultCounted DEF TimerPasses, Claim, rows
  <1>10. ASSUME NEW w \in Workers, LookUp(w)
         PROVE  RowsOK'
    <2>1. CASE Fail(w, "PERMANENT_FAILURE") /\ UNCHANGED session
      BY <1>1, <1>2, <1>10, <2>1 DEF LookUp, Fail, rows
    <2>2. CASE ~(Fail(w, "PERMANENT_FAILURE") /\ UNCHANGED session)
      <3>1. /\ UNCHANGED <<account, codes, post, recent, active, faults>>
            /\ session' = session \/ session' = [session EXCEPT !.state = "none"]
        BY <1>10, <2>2 DEF LookUp, rows
      <3> QED  BY <1>1, <3>1 DEF RowsOK
    <2> QED  BY <2>1, <2>2
  <1>11. ASSUME NEW w \in Workers, Revise(w)
         PROVE  RowsOK'
    BY <1>1, <1>11 DEF Revise, RowsOK, rows
  <1>12. ASSUME NEW w \in Workers,
                \/ ReviseTooLate(w) \/ Answer(w) \/ ProviderFails(w) \/ ModelRefuses(w)
         PROVE  RowsOK'
    <2>1. /\ worker[w].pc # "idle" /\ Owns(w) /\ Ends(w)
          /\ UNCHANGED <<account, codes, post, session>> /\ faults' \in 0 .. MaxFaults
      BY <1>1, <1>12, RetryEnds, FaultCounted
         DEF ReviseTooLate, Answer, ProviderFails, ModelRefuses, Ends
    <2> QED  BY <2>1, EndsKeepRows
  <1>13. ASSUME NEW w \in Workers, Superseded(w) \/ Crash(w)
         PROVE  RowsOK'
    BY <1>1, <1>2, <1>13, FaultCounted DEF Superseded, Crash, rows
  <1>14. CASE UNCHANGED vars
    BY <1>1, <1>2, <1>14 DEF vars
  <1> QED  BY <1>3, <1>4, <1>5, <1>6, <1>7, <1>8, <1>9, <1>10, <1>11, <1>12, <1>13, <1>14
              DEF Next, Delivery, WorkerStep

-----------------------------------------------------------------------------
LEMMA ConvStep == ConvInv /\ [Next]_vars => ConvInv'
  BY TurnStep, WorkersStep, RowsStep DEF ConvInv

(* In every reachable state one turn of a conversation is RUNNING at most, *)
(* and a turn has its one reply when it SUCCEEDED (resolve_and_claim,      *)
(* complete, fail).                                                        *)
THEOREM ConversationInvariant == Spec => []ConvInv
  BY Initial, ConvStep, PTL DEF Spec

(* The rows and the workers are well formed in every reachable state.      *)
THEOREM ConversationTypes == Spec => []ConvTypeOK
  <1>1. ConvInv => ConvTypeOK
    BY TypesSplit DEF ConvInv, TurnInv
  <1> QED  BY <1>1, ConversationInvariant, PTL

(* However many workers take a message up, it is answered once, in its     *)
(* conversation and after it, and its Event is HANDLED then.               *)
THEOREM OneAnswer == Spec => []AnsweredOnce
  BY Answered, ConversationInvariant, PTL
-----------------------------------------------------------------------------
(* What RepliesInOrder needs.  resolve_and_claim looks only at whether     *)
(* another turn of the conversation is RUNNING, not at those before it in  *)
(* the sequence.                                                           *)
Before(x, m) ==
  \E c \in Convs : \E k, l \in 1 .. Len(log[c]) :
    k < l /\ log[c][k] = UserTurn(x) /\ log[c][l] = UserTurn(m)

InTurn(m) == \A x \in Messages \ {m} : Before(x, m) => Ended(x)

Unclaimed(m) == turn[m].status \in {"ABSENT", "QUEUED"}

(* A turn is first claimed when those before it in its conversation ended. *)
ClaimedInTurn == \A m \in Messages : Unclaimed(m) => (Unclaimed(m) \/ InTurn(m))'

UsersKnown ==
  \A m \in Messages : \A c \in Convs : \A i \in 1 .. Len(log[c]) :
    log[c][i] = UserTurn(m) => turn[m].status # "ABSENT"

RepliesOrdered ==
  \A c \in Convs : \A i, j \in 1 .. Len(log[c]) : \A x, y \in Messages :
    i < j /\ log[c][i] = AssistantTurn(x) /\ log[c][j] = AssistantTurn(y)
      => \E k, l \in 1 .. Len(log[c]) :
           k < l /\ log[c][k] = UserTurn(x) /\ log[c][l] = UserTurn(y)

OrderInv == UsersKnown /\ (\A m \in Messages : Unclaimed(m) \/ InTurn(m)) /\ RepliesOrdered

LEMMA OrderedReplies == RepliesOrdered => RepliesInOrder
  <1> SUFFICES ASSUME RepliesOrdered, NEW c \in Convs,
                      NEW i \in 1 .. Len(log[c]), NEW j \in 1 .. Len(log[c]), i < j,
                      {log[c][i], log[c][j]} \subseteq {AssistantTurn(m) : m \in Messages}
               PROVE  \E k, l \in 1 .. Len(log[c]) :
                        k < l /\ log[c][k] = UserTurn(log[c][i].of)
                              /\ log[c][l] = UserTurn(log[c][j].of)
    BY DEF RepliesInOrder
  <1>1. PICK x \in Messages : log[c][i] = AssistantTurn(x)
    OBVIOUS
  <1>2. PICK y \in Messages : log[c][j] = AssistantTurn(y)
    OBVIOUS
  <1>3. log[c][i].of = x /\ log[c][j].of = y
    BY <1>1, <1>2 DEF AssistantTurn
  <1> QED  BY <1>1, <1>2, <1>3 DEF RepliesOrdered

(* What a step does to the turns and the log.                              *)
TakesUp(m, c) ==
  /\ turn[m].status = "ABSENT" /\ turn'[m].status # "ABSENT"
  /\ \A y \in Messages \ {m} : turn'[y] = turn[y]
  /\ \E s \in Seq(LogRecord) :
       /\ LogGrows(c, s)
       /\ \A k \in 1 .. Len(s) : s[k] \in {AssistantTurn(Mail), UserTurn(m)}

Completes(m) ==
  /\ turn[m].status = "RUNNING" /\ turn'[m].status = "SUCCEEDED"
  /\ \A y \in Messages \ {m} : turn'[y] = turn[y]
  /\ LogGrows(turn[m].conv, <<AssistantTurn(m)>>)

Moves(m) ==
  \/ turn'[m].status = turn[m].status
  \/ turn[m].status # "ABSENT" /\ ~Ended(m) /\ turn'[m].status # "ABSENT"

LEMMA EndMoves ==
  ASSUME ConvInv, NEW w \in Workers, worker[w].pc # "idle", Owns(w), Ends(w)
  PROVE  \/ \E m \in Messages : Completes(m)
         \/ UNCHANGED log /\ \A m \in Messages : Moves(m)
  <1>1. PICK m \in Messages : m = worker[w].msg
    BY DEF ConvInv, WorkersOK
  <1>2. turn[m].status = "RUNNING" /\ turn[m] \in TurnRecord /\ turn \in [Messages -> TurnRecord]
    BY <1>1 DEF Owns, ConvInv, TurnInv, TurnsOK
  <1>3. ASSUME NEW status, turn' = Settled(m, status)
        PROVE  turn'[m].status = status /\ \A y \in Messages \ {m} : turn'[y] = turn[y]
    <2> DEFINE t == IF status = "RETRYABLE_FAILURE" THEN "running" ELSE "none"
               x == [turn[m] EXCEPT !.status = status, !.claim = None, !.timer = t]
    <2>1. turn' = [turn EXCEPT ![m] = x]
      BY <1>2, <1>3 DEF Settled
    <2>2. x.status = status
      BY <1>2 DEF TurnRecord
    <2> HIDE DEF x
    <2> QED  BY <1>2, <2>1, <2>2
  <1>4. CASE Complete(w)
    <2>1. PICK c \in Convs : c = turn[m].conv
      BY <1>2 DEF ConvInv, TurnInv, AnswersInv, TurnsLogged
    <2>2. log' = [log EXCEPT ![c] = Append(@, AssistantTurn(m))] /\ turn' = Settled(m, "SUCCEEDED")
      BY <1>1, <1>4, <2>1 DEF Complete
    <2>3. log[c] \in Seq(LogRecord) /\ AssistantTurn(m) \in LogRecord
      BY DEF AssistantTurn, LogRecord, Convs, ConvInv, TurnInv, TurnsOK
    <2>4. Append(log[c], AssistantTurn(m)) = log[c] \o <<AssistantTurn(m)>>
      BY <2>3
    <2>5. LogGrows(c, <<AssistantTurn(m)>>)
      BY <2>2, <2>4 DEF LogGrows
    <2> QED  BY <1>2, <1>3, <2>1, <2>2, <2>5 DEF Completes
  <1>5. ASSUME NEW status \in {"RETRYABLE_FAILURE", "PERMANENT_FAILURE"}, Fail(w, status)
        PROVE  UNCHANGED log /\ \A y \in Messages : Moves(y)
    BY <1>1, <1>2, <1>3, <1>5 DEF Fail, Moves, Ended, rows
  <1> QED  BY <1>4, <1>5 DEF Ends

LEMMA StepMoves ==
  ASSUME ConvInv, [Next]_vars
  PROVE  \/ \E m \in Messages, c \in Convs : TakesUp(m, c)
         \/ \E m \in Messages : Completes(m)
         \/ UNCHANGED log /\ \A m \in Messages : Moves(m)
  <1>1. /\ turn \in [Messages -> TurnRecord] /\ \A m \in Messages : turn[m] \in TurnRecord
        /\ log \in [Convs -> Seq(LogRecord)]
    BY DEF ConvInv, TurnInv, TurnsOK
  <1>2. ASSUME NEW m \in Messages, NEW w \in Workers, TakeUp(w, m)
        PROVE  \E c \in Convs : TakesUp(m, c)
    <2>1. PICK c \in Convs, x \in TurnRecord : TakenUp(m, c, x)
      BY <1>2, TakeUpTakes
    <2>2. turn'[m].status # "ABSENT" /\ \A y \in Messages \ {m} : turn'[y] = turn[y]
      BY <1>1, <2>1 DEF TakenUp
    <2>3. log' = [log EXCEPT ![c] = @ \o NoticeTurn(m) \o <<UserTurn(m)>>] /\ TurnsOK
      BY <2>1 DEF TakenUp, ConvInv, TurnInv
    <2> QED  BY <2>1, <2>2, <2>3, NewRows DEF TakesUp, TakenUp
  <1>3. ASSUME NEW m \in Messages, NEW w \in Workers, Claim(w, m)
        PROVE  UNCHANGED log /\ \A y \in Messages : Moves(y)
    <2>1. turn' = [turn EXCEPT ![m] = Claimed(turn[m], w)] /\ log' = log /\ Eligible(m)
      BY <1>3 DEF Claim, rows
    <2>2. Claimed(turn[m], w).status = "RUNNING"
      BY DEF Claimed
    <2> QED  BY <1>1, <2>1, <2>2 DEF Moves, Eligible, Ended
  <1>4. ASSUME NEW m \in Messages, TimerPasses(m)
        PROVE  UNCHANGED log /\ \A y \in Messages : Moves(y)
    <2> DEFINE x == [turn[m] EXCEPT !.timer = "passed"]
    <2>1. turn' = [turn EXCEPT ![m] = x] /\ log' = log
      BY <1>1, <1>4 DEF TimerPasses, rows
    <2>2. x.status = turn[m].status
      BY <1>1 DEF TurnRecord
    <2> HIDE DEF x
    <2> QED  BY <1>1, <2>1, <2>2 DEF Moves
  <1>5. ASSUME NEW w \in Workers,
               \/ LookUp(w) \/ Revise(w) \/ ReviseTooLate(w) \/ Answer(w) \/ Superseded(w)
               \/ ProviderFails(w) \/ ModelRefuses(w) \/ Crash(w)
        PROVE  \/ \E m \in Messages : Completes(m)
               \/ UNCHANGED log /\ \A m \in Messages : Moves(m)
    <2>1. \/ worker[w].pc # "idle" /\ Owns(w) /\ Ends(w)
          \/ UNCHANGED <<turn, log>>
      BY <1>5, RetryEnds
         DEF LookUp, Revise, ReviseTooLate, Answer, Superseded, ProviderFails, ModelRefuses, Crash,
             Ends, rows
    <2> QED  BY <2>1, EndMoves DEF Moves
  <1>6. CASE \/ \E m \in Messages, to \in Requests : Post(m, to)
             \/ \E m \in Messages : Acknowledge(m)
             \/ PressChange \/ SessionLapses \/ Revoke \/ PairAgain \/ UNCHANGED vars
    <2>1. UNCHANGED <<turn, log>>
      BY <1>6 DEF Post, Acknowledge, PressChange, SessionLapses, Revoke, PairAgain, vars, rows
    <2> QED  BY <2>1 DEF Moves
  <1> QED  BY <1>2, <1>3, <1>4, <1>5, <1>6 DEF Next, Delivery, WorkerStep

LEMMA MovesKeepOrder ==
  ASSUME OrderInv, ClaimedInTurn, UNCHANGED log, \A m \in Messages : Moves(m)
  PROVE  OrderInv'
  <1>1. UsersKnown' /\ RepliesOrdered'
    BY DEF OrderInv, UsersKnown, RepliesOrdered, Moves, UserTurn, AssistantTurn
  <1>2. ASSUME NEW m \in Messages, ~Unclaimed(m)
        PROVE  InTurn(m)'
    <2>1. \A x \in Messages : Before(x, m)' => Before(x, m)
      BY DEF Before, UserTurn
    <2>2. \A x \in Messages : Ended(x) => Ended(x)'
      BY DEF Moves, Ended
    <2> QED  BY <1>2, <2>1, <2>2 DEF OrderInv, InTurn
  <1> QED  BY <1>1, <1>2 DEF OrderInv, ClaimedInTurn

(* User turns that were in a log are there, in their order.                *)
LEMMA UsersStay ==
  ASSUME TurnsOK, NEW c \in Convs, NEW s \in Seq(LogRecord), LogGrows(c, s),
         NEW x \in Messages, NEW y \in Messages
  PROVE  /\ (\A k \in 1 .. Len(s) : s[k] # UserTurn(y)) /\ Before(x, y)' => Before(x, y)
         /\ \A d \in Convs : \A k, l \in 1 .. Len(log[d]) :
              k < l /\ log[d][k] = UserTurn(x) /\ log[d][l] = UserTurn(y) =>
                \E a, b \in 1 .. Len(log'[d]) :
                  a < b /\ log'[d][a] = UserTurn(x) /\ log'[d][b] = UserTurn(y)
  <1>1. \A d \in Convs : Grown(d, c, s) /\ Len(log[d]) \in Nat
    BY Growth DEF TurnsOK
  <1>2. ASSUME \A k \in 1 .. Len(s) : s[k] # UserTurn(y), Before(x, y)'
        PROVE  Before(x, y)
    <2>1. PICK d \in Convs : \E k, l \in 1 .. Len(log'[d]) :
            k < l /\ log'[d][k] = UserTurn(x) /\ log'[d][l] = UserTurn(y)
      BY <1>2 DEF Before, UserTurn
    <2>2. PICK k \in 1 .. Len(log'[d]), l \in 1 .. Len(log'[d]) :
            k < l /\ log'[d][k] = UserTurn(x) /\ log'[d][l] = UserTurn(y)
      BY <2>1
    <2>3. Grown(d, c, s) /\ Len(log[d]) \in Nat
      BY <1>1
    <2>4. \A i \in 1 .. Len(s) : s[i] # log'[d][l]
      BY <1>2, <2>2
    <2>5. l \in 1 .. Len(log[d]) /\ k \in 1 .. Len(log[d])
      <3>1. l \in 1 .. Len(log[d])
        BY <2>3, <2>4 DEF Grown
      <3> QED  BY <2>2, <2>3, <3>1
    <2>6. log[d][k] = UserTurn(x) /\ log[d][l] = UserTurn(y)
      BY <2>2, <2>3, <2>5 DEF Grown
    <2> QED  BY <2>2, <2>5, <2>6 DEF Before
  <1>3. \A d \in Convs : \A k, l \in 1 .. Len(log[d]) :
          k < l /\ log[d][k] = UserTurn(x) /\ log[d][l] = UserTurn(y) =>
            \E a, b \in 1 .. Len(log'[d]) :
              a < b /\ log'[d][a] = UserTurn(x) /\ log'[d][b] = UserTurn(y)
    BY <1>1 DEF Grown
  <1> QED  BY <1>2, <1>3

LEMMA OrderedNext ==
  ASSUME \A d \in Convs : \A i, j \in 1 .. Len(log'[d]) : \A x, y \in Messages :
           i < j /\ log'[d][i] = AssistantTurn(x) /\ log'[d][j] = AssistantTurn(y)
             => \E k, l \in 1 .. Len(log'[d]) :
                  k < l /\ log'[d][k] = UserTurn(x) /\ log'[d][l] = UserTurn(y)
  PROVE  RepliesOrdered'
  BY Zenon DEF RepliesOrdered, UserTurn, AssistantTurn

LEMMA TakesUpKeepsOrder ==
  ASSUME ConvInv, OrderInv, ClaimedInTurn, NEW m \in Messages, NEW c \in Convs, TakesUp(m, c)
  PROVE  OrderInv'
  <1>1. PICK s \in Seq(LogRecord) :
          LogGrows(c, s) /\ \A k \in 1 .. Len(s) : s[k] \in {AssistantTurn(Mail), UserTurn(m)}
    BY DEF TakesUp
  <1>2. /\ TurnsOK /\ \A d \in Convs : Grown(d, c, s) /\ Len(log[d]) \in Nat
    BY <1>1, Growth DEF ConvInv, TurnInv, TurnsOK
  <1>3. \A y \in Messages : /\ \A k \in 1 .. Len(s) : s[k] # AssistantTurn(y)
                            /\ y # m => \A k \in 1 .. Len(s) : s[k] # UserTurn(y)
    BY <1>1, ConversationAssumption DEF AssistantTurn, UserTurn
  <1>4. UsersKnown'
    <2> SUFFICES ASSUME NEW y \in Messages, NEW d \in Convs, NEW i \in 1 .. Len(log'[d]),
                        log'[d][i] = UserTurn(y), y # m
                 PROVE  turn'[y].status # "ABSENT"
      BY DEF UsersKnown, UserTurn, TakesUp
    <2>1. i \in 1 .. Len(log[d]) /\ log[d][i] = UserTurn(y)
      <3>1. Grown(d, c, s) /\ \A k \in 1 .. Len(s) : s[k] # log'[d][i]
        BY <1>2, <1>3
      <3> QED  BY <3>1 DEF Grown
    <2> QED  BY <2>1 DEF OrderInv, UsersKnown, TakesUp
  <1>5. ASSUME NEW y \in Messages
        PROVE  (Unclaimed(y) \/ InTurn(y))'
    <2>1. CASE y = m
      BY <2>1 DEF ClaimedInTurn, TakesUp, Unclaimed
    <2>2. CASE y # m /\ ~Unclaimed(y)
      <3>1. ASSUME NEW x \in Messages, x # y, Before(x, y)'
            PROVE  Ended(x)'
        <4>1. Before(x, y)
          BY <1>1, <1>2, <1>3, <2>2, <3>1, UsersStay
        <4>2. Ended(x)
          BY <2>2, <3>1, <4>1 DEF OrderInv, InTurn
        <4> QED  BY <4>2 DEF TakesUp, Ended
      <3> QED  BY <3>1 DEF InTurn
    <2>3. CASE y # m /\ Unclaimed(y)
      BY <2>3 DEF ClaimedInTurn
    <2> QED  BY <2>1, <2>2, <2>3
  <1>6. RepliesOrdered'
    <2> SUFFICES ASSUME NEW d \in Convs, NEW i \in 1 .. Len(log'[d]), NEW j \in 1 .. Len(log'[d]),
                        NEW x \in Messages, NEW y \in Messages, i < j,
                        log'[d][i] = AssistantTurn(x), log'[d][j] = AssistantTurn(y)
                 PROVE  \E k, l \in 1 .. Len(log'[d]) :
                          k < l /\ log'[d][k] = UserTurn(x) /\ log'[d][l] = UserTurn(y)
      BY OrderedNext
    <2>1. /\ i \in 1 .. Len(log[d]) /\ log[d][i] = AssistantTurn(x)
          /\ j \in 1 .. Len(log[d]) /\ log[d][j] = AssistantTurn(y)
      <3>1. Grown(d, c, s)
        BY <1>2
      <3>2. \A k \in 1 .. Len(s) : s[k] # log'[d][i] /\ s[k] # log'[d][j]
        BY <1>3
      <3>3. i \in 1 .. Len(log[d]) /\ j \in 1 .. Len(log[d])
        BY <3>1, <3>2 DEF Grown
      <3> QED  BY <3>1, <3>3 DEF Grown
    <2>2. \E k, l \in 1 .. Len(log[d]) :
            k < l /\ log[d][k] = UserTurn(x) /\ log[d][l] = UserTurn(y)
      BY <2>1 DEF OrderInv, RepliesOrdered
    <2> QED  BY <1>1, <1>2, <2>2, UsersStay
  <1> QED  BY <1>4, <1>5, <1>6 DEF OrderInv

LEMMA CompletesKeepsOrder ==
  ASSUME ConvInv, OrderInv, NEW m \in Messages, Completes(m)
  PROVE  OrderInv'
  <1> DEFINE s == <<AssistantTurn(m)>>
  <1>1. PICK c \in Convs : c = turn[m].conv /\ \E q \in 1 .. Len(log[c]) : log[c][q] = UserTurn(m)
    BY DEF Completes, ConvInv, TurnInv, AnswersInv, TurnsLogged
  <1>2. /\ s \in Seq(LogRecord) /\ Len(s) = 1 /\ s[1] = AssistantTurn(m) /\ LogGrows(c, s)
    BY <1>1 DEF AssistantTurn, LogRecord, Convs, Completes
  <1> HIDE DEF s
  <1>3. TurnsOK /\ \A d \in Convs : Grown(d, c, s) /\ Len(log[d]) \in Nat
    BY <1>2, Growth DEF ConvInv, TurnInv, TurnsOK
  <1>4. \A y \in Messages : \A k \in 1 .. Len(s) : s[k] # UserTurn(y)
    BY <1>2 DEF AssistantTurn, UserTurn
  <1>5. UsersKnown'
    <2> SUFFICES ASSUME NEW y \in Messages, NEW d \in Convs, NEW i \in 1 .. Len(log'[d]),
                        log'[d][i] = UserTurn(y)
                 PROVE  turn'[y].status # "ABSENT"
      BY DEF UsersKnown, UserTurn
    <2>1. i \in 1 .. Len(log[d]) /\ log[d][i] = UserTurn(y)
      BY <1>3, <1>4 DEF Grown
    <2> QED  BY <2>1 DEF OrderInv, UsersKnown, Completes
  <1>6. ASSUME NEW y \in Messages
        PROVE  (Unclaimed(y) \/ InTurn(y))'
    <2>1. CASE Unclaimed(y)
      BY <2>1 DEF Unclaimed, Completes
    <2>2. CASE ~Unclaimed(y)
      <3>1. ASSUME NEW x \in Messages, x # y, Before(x, y)'
            PROVE  Ended(x)'
        <4>1. Before(x, y)
          BY <1>2, <1>3, <1>4, <3>1, UsersStay
        <4>2. Ended(x)
          BY <2>2, <3>1, <4>1 DEF OrderInv, InTurn
        <4> QED  BY <4>2 DEF Completes, Ended
      <3> QED  BY <3>1 DEF InTurn
    <2> QED  BY <2>1, <2>2
  <1>7. RepliesOrdered'
    <2> SUFFICES ASSUME NEW d \in Convs, NEW i \in 1 .. Len(log'[d]), NEW j \in 1 .. Len(log'[d]),
                        NEW x \in Messages, NEW y \in Messages, i < j,
                        log'[d][i] = AssistantTurn(x), log'[d][j] = AssistantTurn(y)
                 PROVE  \E k, l \in 1 .. Len(log'[d]) :
                          k < l /\ log'[d][k] = UserTurn(x) /\ log'[d][l] = UserTurn(y)
      BY OrderedNext
    <2>1. i \in 1 .. Len(log[d]) /\ log[d][i] = AssistantTurn(x)
      <3>1. Grown(d, c, s) /\ Len(log[d]) \in Nat /\ Len(log[c]) \in Nat
        BY <1>3
      <3>2. i \in 1 .. Len(log[d])
        BY <1>2, <3>1 DEF Grown
      <3> QED  BY <3>1, <3>2 DEF Grown
    <2>2. \E k, l \in 1 .. Len(log[d]) :
            k < l /\ log[d][k] = UserTurn(x) /\ log[d][l] = UserTurn(y)
      <3>1. CASE j \in 1 .. Len(log[d])
        <4>1. log[d][j] = AssistantTurn(y)
          BY <1>3, <3>1 DEF Grown
        <4> QED  BY <2>1, <3>1, <4>1 DEF OrderInv, RepliesOrdered
      <3>2. CASE j \notin 1 .. Len(log[d])
        <4>1. d = c /\ y = m
          BY <1>2, <1>3, <3>2 DEF Grown, AssistantTurn
        <4>2. <<d, i>> \in Replies(x)
          BY <2>1, RepliesAre
        <4>3. turn[x].status = "SUCCEEDED" /\ x # m
          BY <4>2 DEF ConvInv, TurnInv, AnswersInv, RepliesKnown, Completes
        <4>4. PICK p \in 1 .. i : log[d][p] = UserTurn(x)
          BY <4>2 DEF ConvInv, TurnInv, AnswersInv, RepliesFollow
        <4>5. PICK q \in 1 .. Len(log[d]) : log[d][q] = UserTurn(m)
          BY <1>1, <4>1
        <4>6. p \in 1 .. Len(log[d]) /\ p # q
          BY <1>3, <2>1, <4>3, <4>4, <4>5 DEF UserTurn
        <4>7. ~(q < p)
          <5> SUFFICES ASSUME q < p PROVE FALSE
            OBVIOUS
          <5>1. Before(m, x)
            BY <4>4, <4>5, <4>6 DEF Before
          <5>2. Ended(m)
            BY <4>3, <5>1 DEF OrderInv, InTurn, Unclaimed
          <5> QED  BY <5>2 DEF Ended, Completes
        <4>8. p < q
          BY <1>3, <4>6, <4>7
        <4> QED  BY <4>1, <4>4, <4>5, <4>6, <4>8
      <3> QED  BY <3>1, <3>2
    <2> QED  BY <1>2, <1>3, <2>2, UsersStay
  <1> QED  BY <1>5, <1>6, <1>7 DEF OrderInv

(* If a turn is first claimed when those before it in its conversation have *)
(* ended, the replies come in the order of the turns, whatever workers      *)
(* crash, are slow or retry: only that guard is missing from the claim.     *)
THEOREM ClaimsInTurnKeepOrder == Spec /\ [][ClaimedInTurn]_vars => []RepliesInOrder
  <1>1. Init => OrderInv
    BY DEF Init, NoTurn, OrderInv, UsersKnown, Unclaimed, RepliesOrdered
  <1>2. ConvInv /\ OrderInv /\ [Next]_vars /\ [ClaimedInTurn]_vars => OrderInv'
    <2>1. ASSUME ConvInv, OrderInv, [Next]_vars, ClaimedInTurn PROVE OrderInv'
      BY <2>1, StepMoves, TakesUpKeepsOrder, CompletesKeepsOrder, MovesKeepOrder
    <2>2. ASSUME OrderInv, UNCHANGED vars PROVE OrderInv'
      BY <2>2 DEF vars, rows, OrderInv, UsersKnown, Unclaimed, InTurn, Before, RepliesOrdered,
                  Ended, UserTurn, AssistantTurn
    <2> QED  BY <2>1, <2>2
  <1>3. OrderInv => RepliesInOrder
    BY OrderedReplies DEF OrderInv
  <1> QED  BY ConversationInvariant, <1>1, <1>2, <1>3, PTL DEF Spec
=============================================================================
