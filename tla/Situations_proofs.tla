-------------------------- MODULE Situations_proofs --------------------------
(***************************************************************************)
(* Proofs about Situations for any Events, Threads, Goals, Editors and     *)
(* MaxExtras.                                                              *)
(***************************************************************************)
EXTENDS Situations, TLAPS

Holding == {"linking", "ready"}

(* What a routing transaction has found is still so: keys are never taken  *)
(* back, and a key that it reserves is not there yet.                      *)
RouterKnows ==
  \A e \in Events :
    /\ tx[e].by # "none" <=> tx[e].pc \in {"found"} \union Holding
    /\ tx[e].by \in {"key", "conflict"} => tx[e].sit = key[thread[e]]
    /\ tx[e].by = "reservation" =>
         tx[e].pc \in Holding /\ key[thread[e]] = None /\ tx[e].sit = e

(* One transaction reserves the key of a thread, one holds a Situation.    *)
OneReserves ==
  \A e, f \in Events :
    /\ tx[e].by = "reservation" /\ tx[f].by = "reservation" /\ thread[e] = thread[f] => e = f
    /\ tx[e].pc \in Holding /\ tx[f].pc \in Holding /\ tx[e].sit = tx[f].sit => e = f

RoutingInv == RouterKnows /\ OneReserves /\ OneSituationPerThread

(* While a transaction holds a Situation, what it read of its activity is  *)
(* what the row says; and the row names an Event that is linked.           *)
ActivityKnown ==
  /\ \A e \in Events :
       tx[e].pc \in Holding /\ tx[e].by # "reservation" =>
         tx[e].activity = situation[tx[e].sit].activity
  /\ \A s \in Events : Exists(s) =>
       /\ situation[s].activity \in Events /\ <<s, situation[s].activity>> \in links
       /\ \A e \in Events : <<s, e>> \in links => e <= situation[s].activity

(* What an editor has read is there, and is as it was while it is locked.  *)
EditorKnows ==
  \A d \in Editors :
    /\ editor[d].sit # None => Exists(editor[d].sit)
    /\ editor[d].goal # None => goal[editor[d].goal] # "ABSENT"
    /\ editor[d].pc = "writing" => editor[d].sit # None
    /\ editor[d].pc = "linking" => editor[d].sit # None /\ editor[d].goal # None
    /\ editor[d].pc = "changing" =>
         \/ /\ editor[d].goal = None /\ editor[d].sit # None
            /\ editor[d].old = situation[editor[d].sit].lifecycle
         \/ /\ editor[d].sit = None /\ editor[d].goal # None
            /\ editor[d].old = goal[editor[d].goal]

OneChanger ==
  \A c, d \in Editors :
    /\ editor[c].pc = "changing" /\ editor[d].pc = "changing" /\ c # d =>
         /\ editor[c].sit # None => editor[c].sit # editor[d].sit
         /\ editor[c].goal # None => editor[c].goal # editor[d].goal

SituationInv ==
  SituationTypeOK /\ RoutingInv /\ ActivityKnown /\ EditorKnows /\ OneChanger

-----------------------------------------------------------------------------
SituationRecord == [lifecycle : Open \union Closed \union {"ABSENT"},
                    attention : {"NORMAL", "URGENT"}, version : Nat,
                    activity : Events \union {0}]
TxRecord == [pc : {"idle", "begun", "candidate", "found", "linking", "ready"},
             sit : Events \union {None}, by : {"none", "key", "conflict", "reservation"},
             goals : SUBSET Goals, activity : Events \union {0}]
EditorRecord == [pc : {"idle", "writing", "changing", "linking"},
                 sit : Events \union {None}, goal : Goals \union {None}, version : Nat,
                 old : Open \union Closed \union Statuses \union {"ABSENT"}]

LEMMA Initial == Init => SituationInv
  <1> SUFFICES ASSUME Init PROVE SituationInv
    OBVIOUS
  <1> USE DEF Init, SituationInit, GoalInit
  <1>1. SituationTypeOK
    BY BoundAssumption, NoneAssumption
       DEF SituationTypeOK, Absent, Idle, Resting, Statuses, Open, Closed
  <1>2. RoutingInv
    BY NoneAssumption
       DEF RoutingInv, RouterKnows, OneReserves, OneSituationPerThread, Exists, Absent, Idle,
           Holding
  <1>3. ActivityKnown
    BY DEF ActivityKnown, Exists, Absent, Idle, Holding
  <1>4. EditorKnows /\ OneChanger
    BY DEF EditorKnows, OneChanger, Resting
  <1> QED  BY <1>1, <1>2, <1>3, <1>4 DEF SituationInv

-----------------------------------------------------------------------------
(* Editors leave the keys, the links and the routings alone, and of a      *)
(* Situation they change neither its existence nor its activity.           *)
EditorsOnly ==
  \/ \E d \in Editors : EditorStep(d)
  \/ \E g \in Goals : CreateGoal(g)
  \/ AtRest

LEMMA EditorsFrame ==
  ASSUME SituationInv, EditorsOnly
  PROVE  /\ UNCHANGED <<thread, key, links, tx>>
         /\ \A s \in Events : /\ situation'[s].activity = situation[s].activity
                              /\ situation'[s].lifecycle = "ABSENT" <=>
                                   situation[s].lifecycle = "ABSENT"
  <1> USE DEF SituationInv, SituationTypeOK, tables, vars
  <1>1. ASSUME NEW d \in Editors, EditorStep(d)
        PROVE  /\ UNCHANGED <<thread, key, links, tx>>
               /\ \A s \in Events : /\ situation'[s].activity = situation[s].activity
                                    /\ situation'[s].lifecycle = "ABSENT" <=>
                                         situation[s].lifecycle = "ABSENT"
    <2>1. CASE UpdateSnapshot(d)
      BY <2>1 DEF UpdateSnapshot
    <2>2. CASE UpdateLifecycle(d)
      BY <2>2 DEF UpdateLifecycle, EditorKnows, Exists, Open, Closed
    <2>3. CASE LinkGoal(d) \/ UpdateGoal(d) \/ RollBackEdit(d)
      BY <2>3 DEF LinkGoal, UpdateGoal, RollBackEdit
    <2>4. CASE \E s \in Events : ReadSnapshot(d, s) \/ LockLifecycle(d, s)
      BY <2>4 DEF ReadSnapshot, LockLifecycle
    <2>5. CASE \E s \in Events : UpdateAttention(d, s)
      BY <2>5 DEF UpdateAttention
    <2>6. CASE \E s \in Events, g \in Goals : InsertGoalLink(d, s, g) \/ ReplaceGoalLink(d, s, g)
      BY <2>6 DEF InsertGoalLink, ReplaceGoalLink
    <2>7. CASE \E g \in Goals : LockGoal(d, g)
      BY <2>7 DEF LockGoal
    <2> QED  BY <1>1, <2>1, <2>2, <2>3, <2>4, <2>5, <2>6, <2>7 DEF EditorStep
  <1>2. ASSUME NEW g \in Goals, CreateGoal(g)
        PROVE  UNCHANGED <<thread, key, links, tx, situation>>
    BY <1>2 DEF CreateGoal
  <1>3. CASE AtRest
    BY <1>3 DEF AtRest
  <1> QED  BY <1>1, <1>2, <1>3 DEF EditorsOnly

-----------------------------------------------------------------------------
LEMMA RouterTypes ==
  ASSUME SituationInv, NEW e \in Events,
         \/ Begin(e) \/ LookUpKey(e) \/ Reserve(e) \/ LockSituation(e) \/ InsertLinks(e)
         \/ Commit(e) \/ RollBack(e)
  PROVE  /\ tx' \in [Events -> TxRecord]
         /\ tx'[e].sit # None <=> tx'[e].pc \in {"found", "linking", "ready"}
         /\ \A f \in Events : f # e => tx'[f] = tx[f]
  <1>1. /\ tx \in [Events -> TxRecord]
        /\ tx[e].sit # None <=> tx[e].pc \in {"found", "linking", "ready"}
    BY DEF SituationInv, SituationTypeOK, TxRecord
  <1>2. key \in [Threads -> Events \union {None}] /\ thread[e] \in Threads
    BY DEF SituationInv, SituationTypeOK
  <1>3. Idle \in TxRecord /\ Idle.sit = None /\ Idle.pc = "idle"
    BY DEF Idle, TxRecord
  <1>4. CASE Begin(e)
    <2>1. PICK matched \in SUBSET Goals :
            tx' = [tx EXCEPT ![e] = [Idle EXCEPT !.pc = "begun", !.goals = matched]]
      BY <1>4 DEF Begin
    <2> DEFINE x == [Idle EXCEPT !.pc = "begun", !.goals = matched]
    <2>2. x \in TxRecord /\ x.sit = None /\ x.pc = "begun"
      BY DEF Idle, TxRecord
    <2> HIDE DEF x
    <2>3. tx' = [tx EXCEPT ![e] = x]
      BY <2>1 DEF x
    <2> QED  BY <2>2, <2>3, <1>1
  <1>5. CASE LookUpKey(e)
    BY <1>5, <1>1, <1>2, NoneAssumption DEF LookUpKey, TxRecord
  <1>6. CASE Reserve(e)
    BY <1>6, <1>1, <1>2, NoneAssumption DEF Reserve, TxRecord
  <1>7. CASE LockSituation(e)
    <2>1. situation[tx[e].sit].activity \in Events \union {0}
      BY <1>7, <1>1, NoneAssumption DEF LockSituation, SituationInv, SituationTypeOK, TxRecord
    <2> QED  BY <1>7, <2>1, <1>1 DEF LockSituation, TxRecord
  <1>8. CASE InsertLinks(e)
    BY <1>8, <1>1 DEF InsertLinks, TxRecord
  <1>9. CASE Commit(e) \/ RollBack(e)
    BY <1>9, <1>1, <1>3 DEF Commit, RollBack
  <1> QED  BY <1>4, <1>5, <1>6, <1>7, <1>8, <1>9

OnlyMoves(d) ==
  editor' \in [Editors -> EditorRecord] /\ \A c \in Editors : c # d => editor'[c] = editor[c]

(* A step of an editor puts one record in the place of its last.           *)
LEMMA EditorTypes ==
  ASSUME SituationInv, NEW d \in Editors, EditorStep(d)
  PROVE  OnlyMoves(d)
  <1>1. editor \in [Editors -> EditorRecord]
    BY DEF SituationInv, SituationTypeOK, EditorRecord
  <1>2. Resting \in EditorRecord
    BY DEF Resting, EditorRecord
  <1>3. /\ \A s \in Events : situation[s].lifecycle \in Open \union Closed \union {"ABSENT"}
                           /\ situation[s].version \in Nat
        /\ \A g \in Goals : goal[g] \in Statuses \union {"ABSENT"}
    BY DEF SituationInv, SituationTypeOK
  <1>4. ASSUME NEW x \in EditorRecord, editor' = [editor EXCEPT ![d] = x]
        PROVE  OnlyMoves(d)
    BY <1>1, <1>4 DEF OnlyMoves
  <1>5. CASE \/ UpdateSnapshot(d) \/ UpdateLifecycle(d) \/ LinkGoal(d) \/ UpdateGoal(d)
             \/ RollBackEdit(d)
    BY <1>5, <1>2, <1>4 DEF UpdateSnapshot, UpdateLifecycle, LinkGoal, UpdateGoal, RollBackEdit
  <1>6. ASSUME NEW s \in Events, ReadSnapshot(d, s)
        PROVE  OnlyMoves(d)
    <2>1. [Resting EXCEPT !.pc = "writing", !.sit = s, !.version = situation[s].version]
            \in EditorRecord
      BY <1>2, <1>3 DEF EditorRecord
    <2> QED  BY <2>1, <1>4, <1>6 DEF ReadSnapshot
  <1>7. ASSUME NEW s \in Events, LockLifecycle(d, s)
        PROVE  OnlyMoves(d)
    <2>1. [Resting EXCEPT !.pc = "changing", !.sit = s, !.old = situation[s].lifecycle]
            \in EditorRecord
      BY <1>2, <1>3 DEF EditorRecord
    <2> QED  BY <2>1, <1>4, <1>7 DEF LockLifecycle
  <1>8. ASSUME NEW s \in Events, NEW g \in Goals, InsertGoalLink(d, s, g)
        PROVE  OnlyMoves(d)
    <2>1. [Resting EXCEPT !.pc = "linking", !.sit = s, !.goal = g] \in EditorRecord
      BY <1>2 DEF EditorRecord
    <2> QED  BY <2>1, <1>4, <1>8 DEF InsertGoalLink
  <1>9. ASSUME NEW g \in Goals, LockGoal(d, g)
        PROVE  OnlyMoves(d)
    <2>1. [Resting EXCEPT !.pc = "changing", !.goal = g, !.old = goal[g]] \in EditorRecord
      BY <1>2, <1>3 DEF EditorRecord
    <2> QED  BY <2>1, <1>4, <1>9 DEF LockGoal
  <1>10. CASE \E s \in Events : UpdateAttention(d, s)
    BY <1>10, <1>1 DEF UpdateAttention, OnlyMoves
  <1>11. CASE \E s \in Events, g \in Goals : ReplaceGoalLink(d, s, g)
    BY <1>11, <1>1 DEF ReplaceGoalLink, OnlyMoves
  <1> QED  BY <1>5, <1>6, <1>7, <1>8, <1>9, <1>10, <1>11 DEF EditorStep

TablesTyped ==
  /\ thread \in [Events -> Threads] /\ key \in [Threads -> Events \union {None}]
  /\ situation \in [Events -> SituationRecord] /\ links \subseteq Events \X Events
  /\ goalLink \in [Events \X Goals -> {"none", "resolver", "editor"}]
  /\ goal \in [Goals -> Statuses \union {"ABSENT"}]

LEMMA TablesKept ==
  ASSUME SituationInv, Next
  PROVE  TablesTyped'
  <1>1. TablesTyped
    BY DEF SituationInv, SituationTypeOK, TablesTyped, SituationRecord
  <1>2. ASSUME UNCHANGED tables
        PROVE  TablesTyped'
    BY <1>1, <1>2 DEF TablesTyped, tables
  <1>3. ASSUME NEW s \in Events, NEW row \in SituationRecord,
               situation' = [situation EXCEPT ![s] = row],
               UNCHANGED <<thread, key, links, goalLink, goal>>
        PROVE  TablesTyped'
    BY <1>1, <1>3 DEF TablesTyped
  <1>4. \A s \in Events : situation[s] \in SituationRecord
    BY <1>1 DEF TablesTyped
  <1>5. ASSUME NEW e \in Events, Commit(e)
        PROVE  TablesTyped'
    <2>1. tx[e].sit \in Events /\ tx[e].activity \in Events \union {0}
      BY <1>5, NoneAssumption DEF Commit, SituationInv, SituationTypeOK
    <2>2. situation' \in [Events -> SituationRecord]
      <3>1. Candidate(e) \in SituationRecord
        BY DEF Candidate, SituationRecord, Open
      <3>2. [situation[tx[e].sit] EXCEPT !.activity = ActivityAfter(e)] \in SituationRecord
        BY <1>4, <2>1 DEF ActivityAfter, SituationRecord
      <3> QED  BY <1>1, <1>5, <2>1, <3>1, <3>2 DEF Commit, TablesTyped
    <2>3. key' \in [Threads -> Events \union {None}]
      BY <1>1, <1>5, <2>1 DEF Commit, TablesTyped
    <2>4. links' \subseteq Events \X Events
      BY <1>1, <1>5, <2>1 DEF Commit, TablesTyped
    <2>5. goalLink' \in [Events \X Goals -> {"none", "resolver", "editor"}]
      BY <1>1, <1>5 DEF Commit, TablesTyped, Linked
    <2>6. UNCHANGED <<thread, goal>>
      BY <1>5 DEF Commit
    <2> QED  BY <1>1, <2>2, <2>3, <2>4, <2>5, <2>6 DEF TablesTyped
  <1>6. ASSUME NEW d \in Editors, EditorStep(d)
        PROVE  TablesTyped'
    <2>0. /\ editor[d] \in EditorRecord
          /\ editor[d].pc = "writing" => editor[d].sit \in Events
          /\ editor[d].pc = "linking" => editor[d].sit \in Events /\ editor[d].goal \in Goals
      BY NoneAssumption DEF SituationInv, SituationTypeOK, EditorKnows, EditorRecord
    <2>1. CASE UpdateSnapshot(d)
      <3> DEFINE s == editor[d].sit
      <3>1. [situation[s] EXCEPT !.version = @ + 1] \in SituationRecord
        BY <2>0, <2>1, <1>4 DEF UpdateSnapshot, SituationRecord
      <3>2. CASE situation' = situation
        BY <2>1, <3>2, <1>2 DEF UpdateSnapshot, tables
      <3>3. CASE situation' = [situation EXCEPT ![s] = [situation[s] EXCEPT !.version = @ + 1]]
        BY <2>0, <2>1, <3>1, <3>3, <1>3 DEF UpdateSnapshot
      <3> QED  BY <2>1, <2>0, <1>1, <3>2, <3>3 DEF UpdateSnapshot, TablesTyped
    <2>2. CASE UpdateLifecycle(d)
      <3> DEFINE s == editor[d].sit
      <3>1. s \in Events
        BY <2>0, <2>2 DEF UpdateLifecycle, EditorRecord
      <3>2. PICK new \in Open \union Closed :
              situation' = [situation EXCEPT ![s].lifecycle = new]
        BY <2>2 DEF UpdateLifecycle
      <3>3. [situation[s] EXCEPT !.lifecycle = new] \in SituationRecord
        BY <3>1, <1>4 DEF SituationRecord
      <3> QED  BY <2>2, <3>1, <3>2, <3>3, <1>1, <1>3 DEF UpdateLifecycle, TablesTyped
    <2>3. CASE LinkGoal(d)
      BY <2>3, <2>0, <1>1 DEF LinkGoal, TablesTyped
    <2>4. CASE UpdateGoal(d)
      BY <2>4, <2>0, <1>1 DEF UpdateGoal, TablesTyped, EditorRecord
    <2>5. CASE \/ RollBackEdit(d)
               \/ \E s \in Events : ReadSnapshot(d, s) \/ LockLifecycle(d, s)
               \/ \E s \in Events, g \in Goals : InsertGoalLink(d, s, g)
               \/ \E g \in Goals : LockGoal(d, g)
      BY <2>5, <1>2 DEF RollBackEdit, ReadSnapshot, LockLifecycle, InsertGoalLink, LockGoal
    <2>6. ASSUME NEW s \in Events, UpdateAttention(d, s)
          PROVE  TablesTyped'
      <3>1. [situation[s] EXCEPT !.attention = "URGENT"] \in SituationRecord
        BY <1>4 DEF SituationRecord
      <3> QED  BY <2>6, <3>1, <1>1, <1>3 DEF UpdateAttention, TablesTyped
    <2>7. ASSUME NEW s \in Events, NEW g \in Goals, ReplaceGoalLink(d, s, g)
          PROVE  TablesTyped'
      BY <2>7, <1>1 DEF ReplaceGoalLink, TablesTyped
    <2> QED  BY <1>6, <2>1, <2>2, <2>3, <2>4, <2>5, <2>6, <2>7 DEF EditorStep
  <1>7. ASSUME NEW g \in Goals, CreateGoal(g)
        PROVE  TablesTyped'
    BY <1>7, <1>1 DEF CreateGoal, TablesTyped, NewStatuses, Statuses
  <1>8. ASSUME NEW e \in Events,
               \/ Begin(e) \/ LookUpKey(e) \/ Reserve(e) \/ LockSituation(e) \/ InsertLinks(e)
               \/ RollBack(e) \/ \E d \in Editors : BreakDeadlock(e, d)
        PROVE  TablesTyped'
    BY <1>8, <1>2
       DEF Begin, LookUpKey, Reserve, LockSituation, InsertLinks, RollBack, BreakDeadlock
  <1>9. CASE AtRest
    BY <1>9, <1>2 DEF AtRest, vars
  <1> QED  BY <1>5, <1>6, <1>7, <1>8, <1>9 DEF Next, RouterStep

(* Who moves in a step, and who does not.                                  *)
LEMMA WhoMoves ==
  ASSUME SituationInv, Next
  PROVE  \/ \E e \in Events : RouterStep(e) /\ UNCHANGED editor
         \/ EditorsOnly /\ UNCHANGED tx
         \/ \E e \in Events, d \in Editors : BreakDeadlock(e, d)
  <1>1. ASSUME NEW e \in Events, RouterStep(e)
        PROVE  UNCHANGED editor
    BY <1>1 DEF RouterStep, Begin, LookUpKey, Reserve, LockSituation, InsertLinks, Commit, RollBack
  <1>2. EditorsOnly => UNCHANGED tx
    BY EditorsFrame
  <1> QED  BY <1>1, <1>2 DEF Next, EditorsOnly

LEMMA ExtrasKept ==
  ASSUME SituationInv, Next
  PROVE  extras' \in 0 .. MaxExtras
  <1>1. extras' = extras \/ Extra
    BY DEF Next, RouterStep, EditorStep, Edit, Begin, LookUpKey, Reserve, LockSituation,
           InsertLinks, Commit, RollBack, ReadSnapshot, UpdateSnapshot, UpdateAttention,
           LockLifecycle, UpdateLifecycle, InsertGoalLink, LinkGoal, ReplaceGoalLink, RollBackEdit,
           BreakDeadlock, CreateGoal, LockGoal, UpdateGoal, AtRest, vars
  <1> QED  BY <1>1, BoundAssumption DEF Extra, SituationInv, SituationTypeOK

LEMMA TypesKept ==
  ASSUME SituationInv, Next
  PROVE  SituationTypeOK'
  <1>1. /\ tx \in [Events -> TxRecord] /\ editor \in [Editors -> EditorRecord]
        /\ \A e \in Events : tx[e].sit # None <=> tx[e].pc \in {"found", "linking", "ready"}
    BY DEF SituationInv, SituationTypeOK, TxRecord, EditorRecord
  <1>2. /\ tx' \in [Events -> TxRecord]
        /\ \A e \in Events : tx'[e].sit # None <=> tx'[e].pc \in {"found", "linking", "ready"}
    <2>1. CASE \E e \in Events : RouterStep(e)
      BY <2>1, <1>1, RouterTypes DEF RouterStep
    <2>2. CASE \E e \in Events, d \in Editors : BreakDeadlock(e, d)
      <3>1. Idle \in TxRecord /\ Idle.sit = None /\ Idle.pc = "idle"
        BY DEF Idle, TxRecord
      <3> QED  BY <2>2, <3>1, <1>1 DEF BreakDeadlock
    <2> QED  BY <2>1, <2>2, <1>1, WhoMoves
  <1>3. editor' \in [Editors -> EditorRecord]
    <2>1. CASE \E d \in Editors : EditorStep(d)
      BY <2>1, EditorTypes DEF OnlyMoves
    <2>2. CASE \E e \in Events, d \in Editors : BreakDeadlock(e, d)
      <3>1. Resting \in EditorRecord
        BY DEF Resting, EditorRecord
      <3> QED  BY <2>2, <3>1, <1>1 DEF BreakDeadlock
    <2>3. CASE (\E g \in Goals : CreateGoal(g)) \/ AtRest
      BY <2>3, <1>1 DEF CreateGoal, AtRest, vars
    <2> QED  BY <2>1, <2>2, <2>3, <1>1, WhoMoves DEF EditorsOnly
  <1> QED  BY <1>2, <1>3, TablesKept, ExtrasKept
           DEF SituationTypeOK, TablesTyped, SituationRecord, TxRecord, EditorRecord

-----------------------------------------------------------------------------
(* A routing that starts over, rolls back or has ended knows nothing.      *)
LEMMA StartsOver ==
  ASSUME SituationInv, NEW e \in Events, NEW x \in TxRecord,
         x.by = "none", x.pc \notin {"found"} \union Holding,
         tx' = [tx EXCEPT ![e] = x], UNCHANGED tables
  PROVE  RoutingInv' /\ ActivityKnown'
  <1>1. tx'[e] = x /\ \A f \in Events : f # e => tx'[f] = tx[f]
    BY DEF SituationInv, SituationTypeOK
  <1>2. UNCHANGED <<thread, key, situation, links>>
    BY DEF tables
  <1>3. RouterKnows'
    BY <1>1, <1>2 DEF SituationInv, RoutingInv, RouterKnows
  <1>4. OneReserves'
    BY <1>1, <1>2 DEF SituationInv, RoutingInv, OneReserves, Holding
  <1>5. OneSituationPerThread'
    BY <1>2 DEF SituationInv, RoutingInv, OneSituationPerThread, Exists
  <1>6. ActivityKnown'
    BY <1>1, <1>2 DEF SituationInv, ActivityKnown, Exists, Holding
  <1> QED  BY <1>3, <1>4, <1>5, <1>6 DEF RoutingInv

(* The facts about routings that every case below starts from.             *)
LEMMA RoutingFacts ==
  ASSUME SituationInv
  PROVE  /\ thread \in [Events -> Threads] /\ key \in [Threads -> Events \union {None}]
         /\ situation \in [Events -> SituationRecord] /\ links \subseteq Events \X Events
         /\ tx \in [Events -> TxRecord]
         /\ \A e \in Events : tx[e].sit # None <=> tx[e].pc \in {"found", "linking", "ready"}
         /\ RouterKnows /\ OneReserves /\ OneSituationPerThread /\ ActivityKnown
  BY DEF SituationInv, RoutingInv, SituationTypeOK, SituationRecord, TxRecord

(* The commit of a candidate: the key was free, and nothing was linked.    *)
LEMMA CandidateCommitted ==
  ASSUME SituationInv, NEW e \in Events, Commit(e), tx[e].by = "reservation"
  PROVE  RoutingInv' /\ ActivityKnown'
  <1> USE RoutingFacts
  <1>1. /\ key[thread[e]] = None /\ tx[e].sit = e /\ tx[e].pc \in Holding
        /\ \A f \in Events : f # e /\ thread[f] = thread[e] => tx[f].by # "reservation"
        /\ \A f \in Events : f # e /\ tx[f].pc \in Holding => tx[f].sit # e
    BY DEF RouterKnows, OneReserves, Commit, Holding
  <1>2. /\ thread' = thread
        /\ key'[thread[e]] = e
        /\ \A t \in Threads : t # thread[e] => key'[t] = key[t]
        /\ situation'[e].lifecycle = "OPEN" /\ situation'[e].activity = e
        /\ \A s \in Events : s # e => situation'[s] = situation[s]
        /\ links' = links \union {<<e, e>>}
    BY <1>1 DEF Commit, Candidate
  <1>3. /\ tx'[e].pc = "idle" /\ tx'[e].by = "none"
        /\ \A f \in Events : f # e => tx'[f] = tx[f]
    BY DEF Commit, Idle
  <1>4. \A f \in Events : key[thread[f]] \in Events => thread[f] # thread[e]
    BY <1>1, NoneAssumption
  <1>5. RouterKnows'
    <2> SUFFICES ASSUME NEW f \in Events, f # e
                 PROVE  /\ tx[f].by # "none" <=> tx[f].pc \in {"found"} \union Holding
                        /\ tx[f].by \in {"key", "conflict"} => tx[f].sit = key'[thread[f]]
                        /\ tx[f].by = "reservation" =>
                             tx[f].pc \in Holding /\ key'[thread[f]] = None /\ tx[f].sit = f
      BY <1>2, <1>3 DEF RouterKnows, Holding
    <2>1. ASSUME tx[f].by \in {"key", "conflict"}
          PROVE  tx[f].sit = key'[thread[f]]
      <3>1. tx[f].sit = key[thread[f]] /\ tx[f].sit # None
        BY <2>1 DEF RouterKnows, Holding
      <3> QED  BY <3>1, <1>2, <1>4
    <2>2. ASSUME tx[f].by = "reservation"
          PROVE  tx[f].pc \in Holding /\ key'[thread[f]] = None /\ tx[f].sit = f
      BY <2>2, <1>1, <1>2 DEF RouterKnows
    <2> QED  BY <2>1, <2>2 DEF RouterKnows
  <1>6. OneReserves'
    BY <1>2, <1>3 DEF OneReserves, Holding
  <1>7. \A s, x \in Events : <<s, x>> \in links => s # e /\ thread[x] # thread[e]
    <2> SUFFICES ASSUME NEW s \in Events, NEW x \in Events, <<s, x>> \in links
                 PROVE  s # e /\ thread[x] # thread[e]
      OBVIOUS
    <2>1. key[thread[x]] = s /\ thread[s] = thread[x]
      BY NoneAssumption DEF OneSituationPerThread
    <2> QED  BY <2>1, <1>4
  <1>8. OneSituationPerThread'
    <2>1. \A s \in Events : Exists(s)' <=> key'[thread'[s]] = s
      <3> SUFFICES ASSUME NEW s \in Events, s # e
                   PROVE  Exists(s)' <=> key'[thread[s]] = s
        BY <1>2 DEF Exists
      <3>1. Exists(s)' <=> Exists(s)
        BY <1>2 DEF Exists
      <3>2. CASE thread[s] = thread[e]
        BY <3>1, <3>2, <1>1, <1>2, NoneAssumption DEF OneSituationPerThread
      <3>3. CASE thread[s] # thread[e]
        BY <3>1, <3>3, <1>2 DEF OneSituationPerThread
      <3> QED  BY <3>2, <3>3
    <2>2. \A t \in Threads : key'[t] # None => thread'[key'[t]] = t
      BY <1>2 DEF OneSituationPerThread
    <2>3. \A s, x \in Events : <<s, x>> \in links' => key'[thread'[x]] = s
      BY <1>2, <1>7 DEF OneSituationPerThread
    <2> QED  BY <2>1, <2>2, <2>3 DEF OneSituationPerThread
  <1>9. ActivityKnown'
    <2>1. \A f \in Events : tx'[f].pc \in Holding /\ tx'[f].by # "reservation" =>
                             tx'[f].activity = situation'[tx'[f].sit].activity
      <3> SUFFICES ASSUME NEW f \in Events, f # e, tx[f].pc \in Holding, tx[f].by # "reservation"
                   PROVE  tx[f].activity = situation'[tx[f].sit].activity
        BY <1>3 DEF Holding
      <3>1. tx[f].sit \in Events /\ tx[f].sit # e
        BY <1>1 DEF Holding, TxRecord
      <3> QED  BY <3>1, <1>2 DEF ActivityKnown
    <2>2. ASSUME NEW s \in Events, Exists(s)'
          PROVE  /\ situation'[s].activity \in Events /\ <<s, situation'[s].activity>> \in links'
                 /\ \A x \in Events : <<s, x>> \in links' => x <= situation'[s].activity
      <3>1. CASE s = e
        BY <3>1, <1>2, <1>7, EventsAssumption
      <3>2. CASE s # e
        BY <2>2, <3>2, <1>2 DEF ActivityKnown, Exists
      <3> QED  BY <3>1, <3>2
    <2> QED  BY <2>1, <2>2 DEF ActivityKnown
  <1> QED  BY <1>5, <1>6, <1>8, <1>9 DEF RoutingInv

(* The commit to a Situation that is there: the later of its activity and  *)
(* the Event's time is what it has now, because what was read still holds. *)
LEMMA LinkCommitted ==
  ASSUME SituationInv, NEW e \in Events, Commit(e), tx[e].by # "reservation"
  PROVE  RoutingInv' /\ ActivityKnown'
  <1> USE RoutingFacts
  <1> DEFINE s == tx[e].sit
  <1>1. /\ s \in Events /\ key[thread[e]] = s /\ tx[e].pc \in Holding
        /\ \A f \in Events : f # e /\ tx[f].pc \in Holding => tx[f].sit # s
    <2>1. tx[e].by \in {"key", "conflict"} /\ tx[e].pc \in Holding /\ s # None
      BY DEF Commit, RouterKnows, Holding, TxRecord
    <2> QED  BY <2>1 DEF RouterKnows, OneReserves, TxRecord
  <1>2. Exists(s)
    BY <1>1, NoneAssumption DEF OneSituationPerThread
  <1>3. /\ UNCHANGED <<thread, key>>
        /\ situation'[s].lifecycle = situation[s].lifecycle
        /\ situation'[s].activity = ActivityAfter(e)
        /\ \A z \in Events : z # s => situation'[z] = situation[z]
        /\ links' = links \union {<<s, e>>}
    BY <1>1 DEF Commit, SituationRecord
  <1>4. /\ tx'[e].pc = "idle" /\ tx'[e].by = "none"
        /\ \A f \in Events : f # e => tx'[f] = tx[f]
    BY DEF Commit, Idle
  <1> HIDE DEF s
  <1>5. RouterKnows'
    BY <1>3, <1>4 DEF RouterKnows, Holding
  <1>6. OneReserves'
    BY <1>3, <1>4 DEF OneReserves, Holding
  <1>7. OneSituationPerThread'
    BY <1>1, <1>3 DEF OneSituationPerThread, Exists
  <1>8. ActivityKnown'
    <2>1. \A f \in Events : tx'[f].pc \in Holding /\ tx'[f].by # "reservation" =>
                             tx'[f].activity = situation'[tx'[f].sit].activity
      <3> SUFFICES ASSUME NEW f \in Events, f # e, tx[f].pc \in Holding, tx[f].by # "reservation"
                   PROVE  tx[f].activity = situation'[tx[f].sit].activity
        BY <1>4 DEF Holding
      <3>1. tx[f].sit \in Events /\ tx[f].sit # s
        BY <1>1 DEF Holding, TxRecord
      <3> QED  BY <3>1, <1>3 DEF ActivityKnown
    <2>2. /\ situation'[s].activity \in Events /\ <<s, situation'[s].activity>> \in links'
          /\ \A x \in Events : <<s, x>> \in links' => x <= situation'[s].activity
      <3> DEFINE a == situation[s].activity
      <3>1. /\ a \in Events /\ <<s, a>> \in links
            /\ \A x \in Events : <<s, x>> \in links => x <= a
        BY <1>1, <1>2 DEF ActivityKnown
      <3>2. situation'[s].activity = IF e > a THEN e ELSE a
        BY <1>1, <1>3 DEF ActivityAfter, ActivityKnown, s
      <3> HIDE DEF a
      <3>3. e \in Nat /\ a \in Nat
        BY <3>1, EventsAssumption
      <3>4. \A x \in Events : <<s, x>> \in links' => <<s, x>> \in links \/ x = e
        BY <1>3
      <3>5. \A x \in Events : x \in Nat
        BY EventsAssumption
      <3>6. CASE e > a
        BY <3>1, <3>2, <3>3, <3>4, <3>5, <3>6, <1>3
      <3>7. CASE ~(e > a)
        BY <3>1, <3>2, <3>3, <3>4, <3>5, <3>7, <1>3
      <3> QED  BY <3>6, <3>7
    <2>3. ASSUME NEW z \in Events, z # s, Exists(z)'
          PROVE  /\ situation'[z].activity \in Events /\ <<z, situation'[z].activity>> \in links'
                 /\ \A x \in Events : <<z, x>> \in links' => x <= situation'[z].activity
      BY <2>3, <1>3 DEF ActivityKnown, Exists
    <2> QED  BY <2>1, <2>2, <2>3 DEF ActivityKnown
  <1> QED  BY <1>5, <1>6, <1>7, <1>8 DEF RoutingInv

LEMMA RoutingKept ==
  ASSUME SituationInv, NEW e \in Events, RouterStep(e)
  PROVE  RoutingInv' /\ ActivityKnown'
  <1> USE RoutingFacts
  <1>0. Idle \in TxRecord /\ Idle.by = "none" /\ Idle.pc = "idle"
    BY DEF Idle, TxRecord
  <1>1. CASE Begin(e)
    <2>1. PICK matched \in SUBSET Goals :
            tx' = [tx EXCEPT ![e] = [Idle EXCEPT !.pc = "begun", !.goals = matched]]
      BY <1>1 DEF Begin
    <2> DEFINE x == [Idle EXCEPT !.pc = "begun", !.goals = matched]
    <2>2. x \in TxRecord /\ x.by = "none" /\ x.pc = "begun"
      BY DEF Idle, TxRecord
    <2> HIDE DEF x
    <2>3. tx' = [tx EXCEPT ![e] = x] /\ UNCHANGED tables
      BY <1>1, <2>1 DEF x, Begin
    <2> QED  BY <2>2, <2>3, StartsOver DEF Holding
  <1>2. CASE RollBack(e)
    BY <1>2, <1>0, StartsOver DEF RollBack, Holding
  <1>3. CASE LookUpKey(e)
    <2>1. UNCHANGED <<thread, key, situation, links>>
      BY <1>3 DEF LookUpKey, tables
    <2>2. \A f \in Events : f # e => tx'[f] = tx[f]
      BY <1>3 DEF LookUpKey
    <2>3. \/ tx'[e].pc = "candidate" /\ tx'[e].by = tx[e].by
          \/ /\ tx'[e].pc = "found" /\ tx'[e].by = "key" /\ tx'[e].sit = key[thread[e]]
      BY <1>3 DEF LookUpKey, TxRecord
    <2>4. tx[e].by = "none"
      BY <1>3 DEF LookUpKey, RouterKnows, Holding
    <2>5. RouterKnows'
      BY <2>1, <2>2, <2>3, <2>4 DEF RouterKnows, Holding
    <2>6. OneReserves'
      BY <2>1, <2>2, <2>3, <2>4 DEF OneReserves, Holding
    <2>7. OneSituationPerThread'
      BY <2>1 DEF OneSituationPerThread, Exists
    <2>8. ActivityKnown'
      BY <2>1, <2>2, <2>3 DEF ActivityKnown, Exists, Holding
    <2> QED  BY <2>5, <2>6, <2>7, <2>8 DEF RoutingInv
  <1>4. CASE Reserve(e)
    <2>1. UNCHANGED <<thread, key, situation, links>>
      BY <1>4 DEF Reserve, tables
    <2>2. \A f \in Events : f # e => tx'[f] = tx[f]
      BY <1>4 DEF Reserve
    <2>3. \/ /\ key[thread[e]] = None /\ tx'[e].pc = "linking" /\ tx'[e].by = "reservation"
             /\ tx'[e].sit = e
          \/ /\ tx'[e].pc = "found" /\ tx'[e].by = "conflict" /\ tx'[e].sit = key[thread[e]]
      BY <1>4 DEF Reserve, TxRecord
    <2>4. \A f \in Events : thread[f] = thread[e] => tx[f].by # "reservation"
      BY <1>4 DEF Reserve, NoneReserves
    <2>5. RouterKnows'
      BY <2>1, <2>2, <2>3 DEF RouterKnows, Holding
    <2>6. \A f \in Events : f # e /\ tx[f].pc \in Holding /\ key[thread[e]] = None => tx[f].sit # e
      <3> SUFFICES ASSUME NEW f \in Events, f # e, tx[f].pc \in Holding, tx[f].sit = e,
                          key[thread[e]] = None
                   PROVE  FALSE
        OBVIOUS
      <3>1. tx[f].by \in {"key", "conflict"}
        BY DEF RouterKnows, TxRecord
      <3>2. key[thread[f]] = e
        BY <3>1 DEF RouterKnows
      <3> QED  BY <3>2, NoneAssumption DEF OneSituationPerThread
    <2>7. OneReserves'
      BY <2>1, <2>2, <2>3, <2>4, <2>6 DEF OneReserves, Holding
    <2>8. OneSituationPerThread'
      BY <2>1 DEF OneSituationPerThread, Exists
    <2>9. ActivityKnown'
      BY <2>1, <2>2, <2>3 DEF ActivityKnown, Exists, Holding
    <2> QED  BY <2>5, <2>7, <2>8, <2>9 DEF RoutingInv
  <1>5. CASE LockSituation(e)
    <2>1. UNCHANGED <<thread, key, situation, links>>
      BY <1>5 DEF LockSituation, tables
    <2>2. \A f \in Events : f # e => tx'[f] = tx[f]
      BY <1>5 DEF LockSituation
    <2>3. /\ tx'[e].pc = "linking" /\ tx'[e].by = tx[e].by /\ tx'[e].sit = tx[e].sit
          /\ tx'[e].activity = situation[tx[e].sit].activity /\ tx[e].pc = "found"
      BY <1>5 DEF LockSituation, TxRecord
    <2>4. \A f \in Events : tx[f].pc \in Holding => tx[f].sit # tx[e].sit
      BY <1>5 DEF LockSituation, SituationFree, Holding
    <2>5. RouterKnows'
      BY <2>1, <2>2, <2>3 DEF RouterKnows, Holding
    <2>6. OneReserves'
      BY <2>1, <2>2, <2>3, <2>4 DEF OneReserves, Holding
    <2>7. OneSituationPerThread'
      BY <2>1 DEF OneSituationPerThread, Exists
    <2>8. ActivityKnown'
      BY <2>1, <2>2, <2>3 DEF ActivityKnown, Exists, Holding
    <2> QED  BY <2>5, <2>6, <2>7, <2>8 DEF RoutingInv
  <1>6. CASE InsertLinks(e)
    <2>1. UNCHANGED <<thread, key, situation, links>>
      BY <1>6 DEF InsertLinks, tables
    <2>2. \A f \in Events : /\ tx'[f].by = tx[f].by /\ tx'[f].sit = tx[f].sit
                            /\ tx'[f].activity = tx[f].activity
                            /\ tx'[f].pc \in Holding <=> tx[f].pc \in Holding
                            /\ tx'[f].pc = "found" <=> tx[f].pc = "found"
      BY <1>6 DEF InsertLinks, TxRecord, Holding
    <2>3. RouterKnows'
      BY <2>1, <2>2 DEF RouterKnows
    <2>4. OneReserves'
      BY <2>1, <2>2 DEF OneReserves
    <2>5. OneSituationPerThread'
      BY <2>1 DEF OneSituationPerThread, Exists
    <2>6. ActivityKnown'
      BY <2>1, <2>2 DEF ActivityKnown, Exists
    <2> QED  BY <2>3, <2>4, <2>5, <2>6 DEF RoutingInv
  <1>7. CASE Commit(e)
    BY <1>7, CandidateCommitted, LinkCommitted
  <1> QED  BY <1>1, <1>2, <1>3, <1>4, <1>5, <1>6, <1>7 DEF RouterStep

LEMMA RoutingUntouched ==
  ASSUME SituationInv, UNCHANGED <<thread, key, links, tx>>,
         \A s \in Events : /\ situation'[s].activity = situation[s].activity
                           /\ situation'[s].lifecycle = "ABSENT" <=>
                                situation[s].lifecycle = "ABSENT"
  PROVE  RoutingInv' /\ ActivityKnown'
  <1> USE RoutingFacts
  <1>1. RouterKnows' /\ OneReserves' /\ OneSituationPerThread'
    BY DEF RouterKnows, OneReserves, OneSituationPerThread, Exists
  <1>2. \A f \in Events : tx'[f].pc \in Holding /\ tx'[f].by # "reservation" =>
                           tx'[f].activity = situation'[tx'[f].sit].activity
    <2> SUFFICES ASSUME NEW f \in Events, tx[f].pc \in Holding, tx[f].by # "reservation"
                 PROVE  tx[f].activity = situation'[tx[f].sit].activity
      OBVIOUS
    <2>1. tx[f].sit \in Events
      BY DEF Holding, TxRecord
    <2> QED  BY <2>1 DEF ActivityKnown
  <1> QED  BY <1>1, <1>2 DEF RoutingInv, ActivityKnown, Exists

-----------------------------------------------------------------------------
(* A routing changes nothing an editor decides on.                         *)
LEMMA RouterFrame ==
  ASSUME SituationInv, NEW e \in Events, RouterStep(e)
  PROVE  /\ UNCHANGED <<goal, editor>>
         /\ \A s \in Events : Exists(s) => /\ situation'[s].lifecycle = situation[s].lifecycle
                                           /\ situation'[s].version = situation[s].version
         /\ \A sg \in Events \X Goals : goalLink[sg] = "editor" => goalLink'[sg] = "editor"
  <1>1. CASE Commit(e)
    <2>1. tx[e].by = "reservation" => tx[e].sit = e /\ ~Exists(e)
      <3> SUFFICES ASSUME tx[e].by = "reservation"
                   PROVE  tx[e].sit = e /\ ~Exists(e)
        OBVIOUS
      <3>1. key[thread[e]] = None /\ tx[e].sit = e
        BY RoutingFacts DEF RouterKnows
      <3> QED  BY <3>1, RoutingFacts, NoneAssumption DEF OneSituationPerThread
    <2>2. tx[e].sit \in Events
      BY <1>1, RoutingFacts DEF Commit, TxRecord
    <2>3. \A s \in Events : Exists(s) => /\ situation'[s].lifecycle = situation[s].lifecycle
                                         /\ situation'[s].version = situation[s].version
      BY <1>1, <2>1, <2>2, RoutingFacts DEF Commit, SituationRecord
    <2> QED  BY <1>1, <2>3 DEF Commit, Linked
  <1>2. CASE ~Commit(e)
    BY <1>2 DEF RouterStep, Begin, LookUpKey, Reserve, LockSituation, InsertLinks, RollBack, tables
  <1> QED  BY <1>1, <1>2

(* The facts about editors that every case below starts from.              *)
LEMMA EditorFacts ==
  ASSUME SituationInv
  PROVE  /\ situation \in [Events -> SituationRecord] /\ editor \in [Editors -> EditorRecord]
         /\ goal \in [Goals -> Statuses \union {"ABSENT"}]
         /\ goalLink \in [Events \X Goals -> {"none", "resolver", "editor"}]
         /\ EditorKnows /\ OneChanger
  BY DEF SituationInv, SituationTypeOK, SituationRecord, EditorRecord

(* An editor that rests again.                                             *)
LEMMA EditorRests ==
  ASSUME SituationInv, NEW d \in Editors, editor' = [editor EXCEPT ![d] = Resting],
         \A c \in Editors \ {d} :
           /\ editor[c].sit # None =>
                /\ situation'[editor[c].sit].lifecycle # "ABSENT"
                /\ editor[c].pc = "changing" =>
                     situation'[editor[c].sit].lifecycle = situation[editor[c].sit].lifecycle
           /\ editor[c].goal # None =>
                /\ goal'[editor[c].goal] # "ABSENT"
                /\ editor[c].pc = "changing" => goal'[editor[c].goal] = goal[editor[c].goal]
  PROVE  EditorKnows' /\ OneChanger'
  <1> USE EditorFacts
  <1>1. /\ editor'[d] = Resting
        /\ \A c \in Editors : c # d => editor'[c] = editor[c]
    OBVIOUS
  <1>2. EditorKnows'
    BY <1>1 DEF EditorKnows, Exists, Resting
  <1>3. OneChanger'
    BY <1>1 DEF OneChanger, Resting
  <1> QED  BY <1>2, <1>3

(* An editor that was resting, and begins.                                 *)
LEMMA EditorBegins ==
  ASSUME SituationInv, NEW d \in Editors, NEW x \in EditorRecord,
         editor' = [editor EXCEPT ![d] = x], UNCHANGED <<situation, goal>>,
         x.sit # None => Exists(x.sit), x.goal # None => goal[x.goal] # "ABSENT",
         x.pc = "writing" => x.sit # None, x.pc = "linking" => x.sit # None /\ x.goal # None,
         x.pc = "changing" =>
           \/ x.goal = None /\ x.sit # None /\ x.old = situation[x.sit].lifecycle
                /\ \A c \in Editors : editor[c].pc = "changing" => editor[c].sit # x.sit
           \/ x.sit = None /\ x.goal # None /\ x.old = goal[x.goal]
                /\ \A c \in Editors : editor[c].pc = "changing" => editor[c].goal # x.goal
  PROVE  EditorKnows' /\ OneChanger'
  <1> USE EditorFacts
  <1>1. /\ editor'[d] = x
        /\ \A c \in Editors : c # d => editor'[c] = editor[c]
    OBVIOUS
  <1>2. EditorKnows'
    BY <1>1 DEF EditorKnows, Exists
  <1>3. OneChanger'
    BY <1>1 DEF OneChanger
  <1> QED  BY <1>2, <1>3

LEMMA EditorStepKept ==
  ASSUME SituationInv, NEW d \in Editors, EditorStep(d)
  PROVE  EditorKnows' /\ OneChanger'
  <1> USE EditorFacts
  <1>0. /\ \A s \in Events : Exists(s) => Exists(s)'
    BY EditorsFrame DEF EditorsOnly, Exists
  <1>1. CASE RollBackEdit(d) \/ LinkGoal(d)
    <2>1. editor' = [editor EXCEPT ![d] = Resting] /\ UNCHANGED <<situation, goal>>
      BY <1>1 DEF RollBackEdit, LinkGoal, tables
    <2>2. \A c \in Editors : editor[c].sit # None => situation'[editor[c].sit].lifecycle # "ABSENT"
      BY <2>1 DEF EditorKnows, Exists
    <2> QED  BY <2>1, <2>2, EditorRests DEF EditorKnows
  <1>2. CASE UpdateSnapshot(d)
    <2>1. editor' = [editor EXCEPT ![d] = Resting] /\ UNCHANGED goal
      BY <1>2 DEF UpdateSnapshot
    <2>2. \A s \in Events : situation'[s].lifecycle = situation[s].lifecycle
      BY <1>2 DEF UpdateSnapshot, SituationRecord
    <2>3. \A c \in Editors : editor[c].sit # None => editor[c].sit \in Events
      BY DEF EditorRecord
    <2> QED  BY <2>1, <2>2, <2>3, EditorRests DEF EditorKnows, Exists
  <1>3. CASE UpdateLifecycle(d)
    <2>1. /\ editor' = [editor EXCEPT ![d] = Resting] /\ UNCHANGED goal
          /\ editor[d].pc = "changing" /\ editor[d].sit # None
      BY <1>3 DEF UpdateLifecycle
    <2>2. \A s \in Events : s # editor[d].sit => situation'[s] = situation[s]
      BY <1>3 DEF UpdateLifecycle
    <2>3. \A c \in Editors : editor[c].sit # None => editor[c].sit \in Events
      BY DEF EditorRecord
    <2>4. \A c \in Editors \ {d} : editor[c].sit # None /\ editor[c].pc = "changing" =>
            situation'[editor[c].sit].lifecycle = situation[editor[c].sit].lifecycle
      BY <2>1, <2>2, <2>3 DEF OneChanger
    <2> QED  BY <2>1, <2>3, <2>4, <1>0, EditorRests DEF EditorKnows, Exists
  <1>4. CASE UpdateGoal(d)
    <2>1. /\ editor' = [editor EXCEPT ![d] = Resting] /\ UNCHANGED situation
          /\ editor[d].pc = "changing" /\ editor[d].goal # None
      BY <1>4 DEF UpdateGoal
    <2>2. /\ \A g \in Goals : g # editor[d].goal => goal'[g] = goal[g]
          /\ \A g \in Goals : goal[g] # "ABSENT" => goal'[g] # "ABSENT"
      BY <1>4 DEF UpdateGoal, Statuses
    <2>3. \A c \in Editors : editor[c].goal # None => editor[c].goal \in Goals
      BY DEF EditorRecord
    <2>4. \A c \in Editors \ {d} : editor[c].goal # None /\ editor[c].pc = "changing" =>
            goal'[editor[c].goal] = goal[editor[c].goal]
      BY <2>1, <2>2, <2>3 DEF OneChanger
    <2> QED  BY <2>1, <2>2, <2>3, <2>4, EditorRests DEF EditorKnows, Exists
  <1>5. ASSUME NEW s \in Events, ReadSnapshot(d, s)
        PROVE  EditorKnows' /\ OneChanger'
    <2> DEFINE x == [Resting EXCEPT !.pc = "writing", !.sit = s, !.version = situation[s].version]
    <2>1. x \in EditorRecord /\ x.pc = "writing" /\ x.sit = s /\ x.goal = None
      BY DEF EditorRecord, Resting, SituationRecord
    <2>2. Exists(s) /\ editor' = [editor EXCEPT ![d] = x] /\ UNCHANGED <<situation, goal>>
      BY <1>5 DEF ReadSnapshot, tables
    <2> HIDE DEF x
    <2> QED  BY <2>1, <2>2, NoneAssumption, EditorBegins
  <1>6. ASSUME NEW s \in Events, LockLifecycle(d, s)
        PROVE  EditorKnows' /\ OneChanger'
    <2> DEFINE x == [Resting EXCEPT !.pc = "changing", !.sit = s, !.old = situation[s].lifecycle]
    <2>1. /\ x \in EditorRecord /\ x.pc = "changing" /\ x.sit = s /\ x.goal = None
          /\ x.old = situation[s].lifecycle
      BY DEF EditorRecord, Resting, SituationRecord
    <2>2. /\ Exists(s) /\ editor' = [editor EXCEPT ![d] = x] /\ UNCHANGED <<situation, goal>>
          /\ \A c \in Editors : editor[c].pc = "changing" => editor[c].sit # s
      BY <1>6 DEF LockLifecycle, SituationFree, tables
    <2> HIDE DEF x
    <2> QED  BY <2>1, <2>2, NoneAssumption, EditorBegins
  <1>7. ASSUME NEW s \in Events, NEW g \in Goals, InsertGoalLink(d, s, g)
        PROVE  EditorKnows' /\ OneChanger'
    <2> DEFINE x == [Resting EXCEPT !.pc = "linking", !.sit = s, !.goal = g]
    <2>1. x \in EditorRecord /\ x.pc = "linking" /\ x.sit = s /\ x.goal = g
      BY DEF EditorRecord, Resting
    <2>2. /\ Exists(s) /\ goal[g] # "ABSENT" /\ editor' = [editor EXCEPT ![d] = x]
          /\ UNCHANGED <<situation, goal>>
      BY <1>7 DEF InsertGoalLink, tables
    <2> HIDE DEF x
    <2> QED  BY <2>1, <2>2, NoneAssumption, EditorBegins
  <1>8. ASSUME NEW g \in Goals, LockGoal(d, g)
        PROVE  EditorKnows' /\ OneChanger'
    <2> DEFINE x == [Resting EXCEPT !.pc = "changing", !.goal = g, !.old = goal[g]]
    <2>1. /\ x \in EditorRecord /\ x.pc = "changing" /\ x.sit = None /\ x.goal = g
          /\ x.old = goal[g]
      BY DEF EditorRecord, Resting, Statuses
    <2>2. /\ goal[g] # "ABSENT" /\ editor' = [editor EXCEPT ![d] = x]
          /\ UNCHANGED <<situation, goal>>
          /\ \A c \in Editors : editor[c].pc = "changing" => editor[c].goal # g
      BY <1>8 DEF LockGoal, GoalFree, tables
    <2> HIDE DEF x
    <2> QED  BY <2>1, <2>2, NoneAssumption, EditorBegins
  <1>9. CASE \/ \E s \in Events : UpdateAttention(d, s)
             \/ \E s \in Events, g \in Goals : ReplaceGoalLink(d, s, g)
    <2>1. /\ UNCHANGED <<editor, goal>>
          /\ \A s \in Events : situation'[s].lifecycle = situation[s].lifecycle
      <3>1. ASSUME NEW z \in Events, UpdateAttention(d, z)
            PROVE  \A s \in Events : situation'[s].lifecycle = situation[s].lifecycle
        BY <3>1 DEF UpdateAttention, SituationRecord
      <3> QED  BY <1>9, <3>1 DEF UpdateAttention, ReplaceGoalLink
    <2>2. \A c \in Editors : editor[c].sit # None => editor[c].sit \in Events
      BY DEF EditorRecord
    <2> QED  BY <2>1, <2>2 DEF EditorKnows, OneChanger, Exists
  <1> QED  BY <1>1, <1>2, <1>3, <1>4, <1>5, <1>6, <1>7, <1>8, <1>9 DEF EditorStep

-----------------------------------------------------------------------------
LEMMA SituationStep == SituationInv /\ [Next]_vars => SituationInv'
  <1> SUFFICES ASSUME SituationInv, [Next]_vars PROVE SituationInv'
    OBVIOUS
  <1>1. CASE Next
    <2>1. SituationTypeOK'
      BY <1>1, TypesKept
    <2>2. RoutingInv' /\ ActivityKnown' /\ EditorKnows' /\ OneChanger'
      <3>1. ASSUME NEW e \in Events, RouterStep(e)
            PROVE  RoutingInv' /\ ActivityKnown' /\ EditorKnows' /\ OneChanger'
        <4>1. UNCHANGED <<goal, editor>>
          BY <3>1, RouterFrame
        <4>2. \A c \in Editors : editor[c].sit # None => editor[c].sit \in Events
          BY EditorFacts DEF EditorRecord
        <4>3. EditorKnows' /\ OneChanger'
          BY <3>1, <4>1, <4>2, RouterFrame, EditorFacts DEF EditorKnows, OneChanger, Exists
        <4> QED  BY <3>1, <4>3, RoutingKept
      <3>2. ASSUME EditorsOnly
            PROVE  RoutingInv' /\ ActivityKnown' /\ EditorKnows' /\ OneChanger'
        <4>1. RoutingInv' /\ ActivityKnown'
          BY <3>2, EditorsFrame, RoutingUntouched
        <4>2. ASSUME NEW g \in Goals, CreateGoal(g)
              PROVE  EditorKnows' /\ OneChanger'
          <5>1. \A h \in Goals : goal[h] # "ABSENT" => goal'[h] = goal[h]
            BY <4>2, EditorFacts DEF CreateGoal
          <5>2. \A c \in Editors : editor[c].goal # None => editor[c].goal \in Goals
            BY EditorFacts DEF EditorRecord
          <5>3. UNCHANGED <<situation, editor>>
            BY <4>2 DEF CreateGoal
          <5>4. EditorKnows'
            BY <5>1, <5>2, <5>3, EditorFacts DEF EditorKnows, Exists
          <5>5. OneChanger'
            BY <5>3, EditorFacts DEF OneChanger
          <5> QED  BY <5>4, <5>5
        <4>3. CASE AtRest
          <5>1. UNCHANGED <<situation, goal, editor>>
            BY <4>3 DEF AtRest, vars, tables
          <5>2. EditorKnows'
            BY <5>1, EditorFacts DEF EditorKnows, Exists
          <5>3. OneChanger'
            BY <5>1, EditorFacts DEF OneChanger
          <5> QED  BY <4>1, <5>2, <5>3
        <4>4. ASSUME NEW d \in Editors, EditorStep(d)
              PROVE  EditorKnows' /\ OneChanger'
          BY <4>4, EditorStepKept
        <4> QED  BY <3>2, <4>1, <4>2, <4>3, <4>4 DEF EditorsOnly
      <3>3. ASSUME NEW e \in Events, NEW d \in Editors, BreakDeadlock(e, d)
            PROVE  RoutingInv' /\ ActivityKnown' /\ EditorKnows' /\ OneChanger'
        <4>1. UNCHANGED tables
          BY <3>3 DEF BreakDeadlock, tables
        <4>2. CASE tx' = [tx EXCEPT ![e] = Idle] /\ UNCHANGED editor
          <5>1. Idle \in TxRecord /\ Idle.by = "none" /\ Idle.pc = "idle"
            BY DEF Idle, TxRecord
          <5>2. RoutingInv' /\ ActivityKnown'
            BY <4>1, <4>2, <5>1, StartsOver DEF Holding
          <5> QED  BY <4>1, <4>2, <5>2, EditorFacts DEF tables, EditorKnows, OneChanger, Exists
        <4>3. CASE editor' = [editor EXCEPT ![d] = Resting] /\ UNCHANGED tx
          <5>1. RoutingInv' /\ ActivityKnown'
            BY <4>1, <4>3, RoutingUntouched DEF tables
          <5>2. EditorKnows' /\ OneChanger'
            BY <4>1, <4>3, EditorFacts, EditorRests DEF tables, EditorKnows, Exists
          <5> QED  BY <5>1, <5>2
        <4> QED  BY <3>3, <4>2, <4>3 DEF BreakDeadlock
      <3> QED  BY <1>1, <3>1, <3>2, <3>3, WhoMoves
    <2> QED  BY <2>1, <2>2 DEF SituationInv
  <1>2. CASE UNCHANGED vars
    BY <1>2 DEF vars, tables, SituationInv, SituationTypeOK, RoutingInv, RouterKnows, OneReserves,
                OneSituationPerThread, ActivityKnown, EditorKnows, OneChanger, Exists
  <1> QED  BY <1>1, <1>2

(* The inductive invariant holds in every reachable state.                 *)
THEOREM SituationInvariant == Spec => []SituationInv
  BY Initial, SituationStep, PTL DEF Spec

(* The types of the tables and of what each transaction holds.             *)
THEOREM SituationTypes == Spec => []SituationTypeOK
  BY SituationInvariant, PTL DEF SituationInv

(* However the Events of a thread race, they get one Situation, and no     *)
(* candidate is left without its key.                                      *)
THEOREM ResolutionConverges == Spec => []OneSituationPerThread
  BY SituationInvariant, PTL DEF SituationInv, RoutingInv

(* No Event that is committed late moves last_activity_at back, and none   *)
(* that is later is missed.                                                *)
THEOREM ActivityNeverLost == Spec => []ActivityIsLatest
  <1>1. SituationInv => ActivityIsLatest
    <2> SUFFICES ASSUME SituationInv, NEW s \in Events, Exists(s)
                 PROVE  situation[s].activity = Max({e \in Events : <<s, e>> \in links})
      BY DEF ActivityIsLatest
    <2> DEFINE E == {e \in Events : <<s, e>> \in links}
               a == situation[s].activity
    <2>1. a \in E /\ \A x \in E : x <= a
      BY DEF SituationInv, ActivityKnown
    <2>2. \A x \in E : x \in Nat
      BY EventsAssumption
    <2> HIDE DEF E, a
    <2>3. a = Max(E)
      BY <2>1, <2>2 DEF Max
    <2> QED  BY <2>3 DEF E, a
  <1> QED  BY <1>1, SituationInvariant, PTL

-----------------------------------------------------------------------------
(* A step of an editor reopens nothing and overwrites no version but the   *)
(* one it read.                                                            *)
LEMMA EditorKeepsDecisions ==
  ASSUME SituationInv, NEW d \in Editors, EditorStep(d)
  PROVE  DecisionKept
  <1> USE EditorFacts
  <1>1. ASSUME UNCHANGED <<situation, goal, goalLink>>
        PROVE  DecisionKept
    BY <1>1 DEF DecisionKept
  <1>2. CASE \/ RollBackEdit(d)
             \/ \E s \in Events : ReadSnapshot(d, s) \/ LockLifecycle(d, s)
             \/ \E s \in Events, g \in Goals : InsertGoalLink(d, s, g)
             \/ \E g \in Goals : LockGoal(d, g)
    BY <1>1, <1>2
       DEF RollBackEdit, ReadSnapshot, LockLifecycle, InsertGoalLink, LockGoal, tables
  <1>3. CASE UpdateSnapshot(d)
    <2>1. editor[d].sit \in Events
      BY <1>3 DEF UpdateSnapshot, EditorKnows, EditorRecord
    <2>2. /\ \A s \in Events : situation'[s].lifecycle = situation[s].lifecycle
          /\ \A s \in Events : situation'[s].version # situation[s].version =>
               editor[d].sit = s /\ editor[d].version = situation[s].version
      BY <1>3, <2>1 DEF UpdateSnapshot, SituationRecord
    <2> QED  BY <1>3, <2>2 DEF UpdateSnapshot, DecisionKept
  <1>4. CASE UpdateLifecycle(d)
    <2>1. /\ editor[d].sit \in Events
          /\ editor[d].old = situation[editor[d].sit].lifecycle
      BY <1>4 DEF UpdateLifecycle, EditorKnows, EditorRecord
    <2>2. PICK new \in Open \union Closed :
            /\ MayFollow(editor[d].old, new)
            /\ situation' = [situation EXCEPT ![editor[d].sit].lifecycle = new]
      BY <1>4 DEF UpdateLifecycle
    <2>3. \A s \in Events : situation'[s].version = situation[s].version
      BY <2>1, <2>2 DEF SituationRecord
    <2>4. \A s \in Events : situation[s].lifecycle \in Closed =>
                             situation'[s].lifecycle = situation[s].lifecycle
      BY <2>1, <2>2 DEF SituationRecord, MayFollow, Open, Closed
    <2> QED  BY <1>4, <2>3, <2>4 DEF UpdateLifecycle, DecisionKept
  <1>5. CASE UpdateGoal(d)
    <2>1. editor[d].goal \in Goals /\ editor[d].old = goal[editor[d].goal]
      BY <1>5 DEF UpdateGoal, EditorKnows, EditorRecord
    <2>2. \A g \in Goals : goal[g] \in {"COMPLETED", "ABANDONED"} => goal'[g] = goal[g]
      BY <1>5, <2>1 DEF UpdateGoal, GoalMayFollow
    <2> QED  BY <1>5, <2>2 DEF UpdateGoal, DecisionKept
  <1>6. CASE LinkGoal(d)
    BY <1>6 DEF LinkGoal, DecisionKept
  <1>7. ASSUME NEW s \in Events, NEW g \in Goals, ReplaceGoalLink(d, s, g)
        PROVE  DecisionKept
    BY <1>7 DEF ReplaceGoalLink, DecisionKept
  <1>8. ASSUME NEW z \in Events, UpdateAttention(d, z)
        PROVE  DecisionKept
    <2>1. \A s \in Events : /\ situation'[s].lifecycle = situation[s].lifecycle
                            /\ situation'[s].version = situation[s].version
      BY <1>8 DEF UpdateAttention, SituationRecord
    <2> QED  BY <1>8, <2>1 DEF UpdateAttention, DecisionKept
  <1> QED  BY <1>2, <1>3, <1>4, <1>5, <1>6, <1>7, <1>8 DEF EditorStep

(* Nothing closed is reopened, no link of an editor overwritten and no     *)
(* snapshot lost, by whoever writes at the same time.                      *)
THEOREM NoDecisionLost == Spec => DecisionsStand
  <1>1. SituationInv /\ [Next]_vars => [DecisionKept]_vars
    <2> SUFFICES ASSUME SituationInv, Next PROVE DecisionKept
      OBVIOUS
    <2>1. ASSUME NEW e \in Events, RouterStep(e) PROVE DecisionKept
      <3>1. \A s \in Events : situation[s].lifecycle \in Closed => Exists(s)
        BY DEF Closed, Exists
      <3> QED  BY <2>1, <3>1, RouterFrame DEF DecisionKept
    <2>2. ASSUME NEW g \in Goals, CreateGoal(g) PROVE DecisionKept
      BY <2>2, EditorFacts DEF CreateGoal, DecisionKept
    <2>3. CASE AtRest \/ \E e \in Events, d \in Editors : BreakDeadlock(e, d)
      BY <2>3 DEF AtRest, BreakDeadlock, vars, tables, DecisionKept
    <2> QED  BY <2>1, <2>2, <2>3, EditorKeepsDecisions DEF Next
  <1> QED  BY <1>1, SituationInvariant, PTL DEF Spec, DecisionsStand
=============================================================================
