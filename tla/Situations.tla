------------------------------ MODULE Situations ------------------------------
(***************************************************************************)
(* Situations and Goals under READ COMMITTED: the routing transactions     *)
(* that resolve each Event to the one Situation of its mail thread, and    *)
(* the transactions that curate Situations, Goals and their links.         *)
(*                                                                         *)
(* The variables are the committed rows; what a transaction has written    *)
(* and not yet committed is in its own record, where nobody reads it.  Row *)
(* locks follow from those records.  A Situation is named by the Event     *)
(* whose transaction creates it, and an Event by its occurred_at.          *)
(***************************************************************************)
EXTENDS Integers, FiniteSets, FiniteSetsExt

CONSTANTS Events,    \* Events routed to a Situation, as occurrence times
          Threads,   \* gmail-thread: correlation keys
          Goals, Editors, None,
          MaxExtras  \* bound: reevaluations, edits and failures, together

ASSUME EventsAssumption == Events \subseteq Nat \ {0}
ASSUME NoneAssumption == None \notin Events \union Goals
ASSUME BoundAssumption == MaxExtras \in Nat

VARIABLES
  thread,     \* the thread of each Event
  key,        \* situation_correlation_keys
  situation,  \* situations
  links,      \* situation_events
  goalLink,   \* situation_goals: who wrote the link
  goal,       \* goals.status
  tx,         \* the routing transaction of each Event
  editor,     \* what each editor has read or begun
  extras

tables == <<thread, key, situation, links, goalLink, goal>>
vars == <<tables, tx, editor, extras>>

(* WAITING_USER and WAITING_EXTERNAL move as ACTIVE does, and PAUSED Goals *)
(* as ACTIVE ones.                                                         *)
Open == {"OPEN", "ACTIVE"}
Closed == {"RESOLVED", "ABANDONED"}
Statuses == {"CANDIDATE", "ACTIVE", "COMPLETED", "ABANDONED"}

Absent == [lifecycle |-> "ABSENT", attention |-> "NORMAL", version |-> 0, activity |-> 0]

(* The candidate: _initial_snapshot and the first version.                 *)
Candidate(e) == [lifecycle |-> "OPEN", attention |-> "NORMAL", version |-> 1, activity |-> e]

Idle == [pc |-> "idle", sit |-> None, by |-> "none", goals |-> {}, activity |-> 0]
Resting == [pc |-> "idle", sit |-> None, goal |-> None, version |-> 0, old |-> "ABSENT"]

SituationInit ==
  /\ key = [t \in Threads |-> None]
  /\ situation = [s \in Events |-> Absent]
  /\ links = {}
  /\ goalLink = [sg \in Events \X Goals |-> "none"]

GoalInit == goal = [g \in Goals |-> "ABSENT"]

Init ==
  /\ thread \in [Events -> Threads]
  /\ SituationInit /\ GoalInit
  /\ tx = [e \in Events |-> Idle]
  /\ editor = [d \in Editors |-> Resting]
  /\ extras = 0

-----------------------------------------------------------------------------
Exists(s) == situation[s].lifecycle # "ABSENT"

(* A key row locked FOR UPDATE, and one inserted but not committed.        *)
KeyFree(t) == \A e \in Events : ~(thread[e] = t /\ tx[e].by = "key")
NoneReserves(t) == \A e \in Events : ~(thread[e] = t /\ tx[e].by = "reservation")

(* A Situation row that no routing and no update_lifecycle holds FOR       *)
(* UPDATE; a Goal row that no GoalRepository.update does.                  *)
SituationFree(s) ==
  /\ \A e \in Events : ~(tx[e].pc \in {"linking", "ready"} /\ tx[e].sit = s)
  /\ \A d \in Editors : ~(editor[d].pc = "changing" /\ editor[d].sit = s)
GoalFree(g) == \A d \in Editors : ~(editor[d].pc = "changing" /\ editor[d].goal = g)

(* A situation_goals row inserted and not committed.                       *)
EditorInserts(d, s, g) == editor[d].pc = "linking" /\ editor[d].sit = s /\ editor[d].goal = g
RouterInserts(e, s, g) ==
  tx[e].pc = "ready" /\ tx[e].sit = s /\ g \in tx[e].goals /\ goalLink[<<s, g>>] = "none"

Extra == extras < MaxExtras /\ extras' = extras + 1

-----------------------------------------------------------------------------
(* A routing transaction, one at a time for an Event as it holds the lock  *)
(* of its event_processing row; the Goals that were matched must be there. *)
Begin(e) ==
  /\ tx[e].pc = "idle"
  /\ IF \A s \in Events : <<s, e>> \notin links THEN UNCHANGED extras ELSE Extra
  /\ \E matched \in SUBSET {g \in Goals : goal[g] # "ABSENT"} :
       tx' = [tx EXCEPT ![e] = [Idle EXCEPT !.pc = "begun", !.goals = matched]]
  /\ UNCHANGED <<tables, editor>>

(* The key is looked up and locked; no committed one makes a candidate.    *)
LookUpKey(e) ==
  LET t == thread[e]
  IN /\ tx[e].pc = "begun"
     /\ IF key[t] = None
        THEN tx' = [tx EXCEPT ![e].pc = "candidate"]
        ELSE /\ KeyFree(t)
             /\ tx' = [tx EXCEPT ![e].pc = "found", ![e].by = "key", ![e].sit = key[t]]
     /\ UNCHANGED <<tables, editor, extras>>

(* Bug: ON CONFLICT DO UPDATE, so a late candidate takes the key over.     *)
ReserveAnyway(e) ==
  /\ tx[e].pc = "candidate" /\ NoneReserves(thread[e])
  /\ tx' = [tx EXCEPT ![e].pc = "linking", ![e].by = "reservation", ![e].sit = e]
  /\ UNCHANGED <<tables, editor, extras>>

(* Bug: what the insertion returned is used, which a conflict leaves empty. *)
ReserveReturned(e) ==
  /\ tx[e].pc = "candidate" /\ NoneReserves(thread[e])
  /\ tx' = IF key[thread[e]] = None
           THEN [tx EXCEPT ![e].pc = "linking", ![e].by = "reservation", ![e].sit = e]
           ELSE [tx EXCEPT ![e].pc = "found", ![e].by = "conflict"]
  /\ UNCHANGED <<tables, editor, extras>>

(* The candidate and its reservation, ON CONFLICT DO NOTHING: it waits for *)
(* a reservation that may yet be rolled back; when one is committed the    *)
(* candidate is deleted and the winner's Situation taken.                  *)
Reserve(e) ==
  LET t == thread[e]
  IN /\ tx[e].pc = "candidate" /\ NoneReserves(t)
     /\ tx' = IF key[t] = None
              THEN [tx EXCEPT ![e].pc = "linking", ![e].by = "reservation", ![e].sit = e]
              ELSE [tx EXCEPT ![e].pc = "found", ![e].by = "conflict", ![e].sit = key[t]]
     /\ UNCHANGED <<tables, editor, extras>>

(* Bug: the Situation is read without its lock.                            *)
ReadSituation(e) ==
  /\ tx[e].pc = "found"
  /\ tx' = [tx EXCEPT ![e].pc = "linking", ![e].activity = situation[tx[e].sit].activity]
  /\ UNCHANGED <<tables, editor, extras>>

(* _locked_situation: last_activity_at as of the lock.                     *)
LockSituation(e) ==
  /\ tx[e].pc = "found" /\ SituationFree(tx[e].sit)
  /\ tx' = [tx EXCEPT ![e].pc = "linking", ![e].activity = situation[tx[e].sit].activity]
  /\ UNCHANGED <<tables, editor, extras>>

(* The links, ON CONFLICT DO NOTHING: it waits for an editor's insertion   *)
(* of the same link, and for a Goal whose row is locked.                   *)
InsertLinks(e) ==
  /\ tx[e].pc = "linking"
  /\ \A g \in tx[e].goals :
       GoalFree(g) /\ \A d \in Editors : ~EditorInserts(d, tx[e].sit, g)
  /\ tx' = [tx EXCEPT ![e].pc = "ready"]
  /\ UNCHANGED <<tables, editor, extras>>

(* What the insertion leaves: the links that were there stand.             *)
Linked(e) ==
  [sg \in Events \X Goals |->
     IF sg \in {tx[e].sit} \X tx[e].goals /\ goalLink[sg] = "none" THEN "resolver"
                                                                  ELSE goalLink[sg]]

(* last_activity_at is written if the Event is later than what was read.   *)
ActivityAfter(e) == IF e > tx[e].activity THEN e ELSE situation[tx[e].sit].activity

(* The commit of what the transaction wrote.                               *)
Commit(e) ==
  LET s == tx[e].sit
  IN /\ tx[e].pc = "ready"
     /\ IF tx[e].by = "reservation"
        THEN /\ situation' = [situation EXCEPT ![s] = Candidate(e)]
             /\ key' = [key EXCEPT ![thread[e]] = s]
        ELSE /\ situation' = [situation EXCEPT ![s].activity = ActivityAfter(e)]
             /\ UNCHANGED key
     /\ links' = links \union {<<s, e>>}
     /\ goalLink' = Linked(e)
     /\ tx' = [tx EXCEPT ![e] = Idle]
     /\ UNCHANGED <<thread, goal, editor, extras>>

(* The transaction is rolled back: a lost connection, a claim that is gone *)
(* or a dead worker.  The delivery comes again, or the operator.           *)
RollBack(e) ==
  /\ tx[e].pc # "idle" /\ Extra
  /\ tx' = [tx EXCEPT ![e] = Idle]
  /\ UNCHANGED <<tables, editor>>

-----------------------------------------------------------------------------
Edit(d) == editor[d].pc = "idle" /\ Extra

(* SituationService.get, on which a caller bases a new snapshot.           *)
ReadSnapshot(d, s) ==
  /\ Edit(d) /\ Exists(s)
  /\ editor' = [editor EXCEPT ![d] = [Resting EXCEPT !.pc = "writing", !.sit = s,
                                                     !.version = situation[s].version]]
  /\ UNCHANGED <<tables, tx>>

(* update_snapshot: one conditional update, judged on the row as it is     *)
(* when its lock is free; a version that moved on is a conflict.           *)
UpdateSnapshot(d) ==
  LET s == editor[d].sit
  IN /\ editor[d].pc = "writing" /\ SituationFree(s)
     /\ situation' = IF situation[s].version = editor[d].version
                     THEN [situation EXCEPT ![s].version = @ + 1] ELSE situation
     /\ editor' = [editor EXCEPT ![d] = Resting]
     /\ UNCHANGED <<thread, key, links, goalLink, goal, tx, extras>>

(* update_attention: an unconditional update.                              *)
UpdateAttention(d, s) ==
  /\ Edit(d) /\ Exists(s) /\ SituationFree(s)
  /\ situation' = [situation EXCEPT ![s].attention = "URGENT"]
  /\ UNCHANGED <<thread, key, links, goalLink, goal, tx, editor>>

(* Bug: the row is read without its lock.                                  *)
ReadLifecycle(d, s) ==
  /\ Edit(d) /\ Exists(s)
  /\ editor' = [editor EXCEPT ![d] = [Resting EXCEPT !.pc = "changing", !.sit = s,
                                                     !.old = situation[s].lifecycle]]
  /\ UNCHANGED <<tables, tx>>

(* update_lifecycle: the row is locked and read, and the new value written *)
(* if it may follow; one that may not changes nothing.                     *)
LockLifecycle(d, s) ==
  /\ Edit(d) /\ Exists(s) /\ SituationFree(s)
  /\ editor' = [editor EXCEPT ![d] = [Resting EXCEPT !.pc = "changing", !.sit = s,
                                                     !.old = situation[s].lifecycle]]
  /\ UNCHANGED <<tables, tx>>

(* validate_situation_transition.                                          *)
MayFollow(old, new) == new = old \/ (old \in Open /\ new # "OPEN")

UpdateLifecycle(d) ==
  LET s == editor[d].sit
  IN /\ editor[d].pc = "changing" /\ s # None
     /\ \E new \in Open \union Closed :
          /\ MayFollow(editor[d].old, new)
          /\ situation' = [situation EXCEPT ![s].lifecycle = new]
     /\ editor' = [editor EXCEPT ![d] = Resting]
     /\ UNCHANGED <<thread, key, links, goalLink, goal, tx, extras>>

(* link_goal, ON CONFLICT DO UPDATE.  A new row is inserted, and waits for *)
(* the Situation and the Goal it refers to if those are locked.            *)
InsertGoalLink(d, s, g) ==
  /\ Edit(d) /\ Exists(s) /\ goal[g] # "ABSENT" /\ goalLink[<<s, g>>] = "none"
  /\ \A x \in Editors : ~EditorInserts(x, s, g)
  /\ \A e \in Events : ~RouterInserts(e, s, g)
  /\ editor' = [editor EXCEPT ![d] = [Resting EXCEPT !.pc = "linking", !.sit = s, !.goal = g]]
  /\ UNCHANGED <<tables, tx>>

LinkGoal(d) ==
  LET s == editor[d].sit
      g == editor[d].goal
  IN /\ editor[d].pc = "linking" /\ SituationFree(s) /\ GoalFree(g)
     /\ goalLink' = [goalLink EXCEPT ![<<s, g>>] = "editor"]
     /\ editor' = [editor EXCEPT ![d] = Resting]
     /\ UNCHANGED <<thread, key, situation, links, goal, tx, extras>>

(* A row that is there is replaced.                                        *)
ReplaceGoalLink(d, s, g) ==
  /\ Edit(d) /\ goalLink[<<s, g>>] # "none"
  /\ goalLink' = [goalLink EXCEPT ![<<s, g>>] = "editor"]
  /\ UNCHANGED <<thread, key, situation, links, goal, tx, editor>>

(* An editor's transaction is rolled back.                                 *)
RollBackEdit(d) ==
  /\ editor[d].pc # "idle" /\ Extra
  /\ editor' = [editor EXCEPT ![d] = Resting]
  /\ UNCHANGED <<tables, tx>>

(* A routing holds the Situation and wants the link that an editor has     *)
(* inserted, who wants the Situation: PostgreSQL rolls one of them back.   *)
BreakDeadlock(e, d) ==
  /\ tx[e].pc = "linking"
  /\ \E g \in tx[e].goals : EditorInserts(d, tx[e].sit, g)
  /\ \/ tx' = [tx EXCEPT ![e] = Idle] /\ UNCHANGED editor
     \/ editor' = [editor EXCEPT ![d] = Resting] /\ UNCHANGED tx
  /\ UNCHANGED <<tables, extras>>

-----------------------------------------------------------------------------
(* create_explicit and create_inferred.                                    *)
NewStatuses == {"ACTIVE", "CANDIDATE"}

CreateGoal(g) ==
  /\ goal[g] = "ABSENT"
  /\ \E status \in NewStatuses : goal' = [goal EXCEPT ![g] = status]
  /\ UNCHANGED <<thread, key, situation, links, goalLink, tx, editor, extras>>

(* GoalRepository.update locks the row, and changes the status if the new  *)
(* one may follow.                                                         *)
LockGoal(d, g) ==
  /\ Edit(d) /\ goal[g] # "ABSENT" /\ GoalFree(g)
  /\ editor' = [editor EXCEPT ![d] = [Resting EXCEPT !.pc = "changing", !.goal = g,
                                                     !.old = goal[g]]]
  /\ UNCHANGED <<tables, tx>>

(* validate_goal_transition.                                               *)
GoalMayFollow(old, new) ==
  \/ new = old
  \/ old = "CANDIDATE" /\ new \in {"ACTIVE", "ABANDONED"}
  \/ old = "ACTIVE" /\ new \in {"COMPLETED", "ABANDONED"}

UpdateGoal(d) ==
  LET g == editor[d].goal
  IN /\ editor[d].pc = "changing" /\ g # None
     /\ \E new \in Statuses :
          GoalMayFollow(editor[d].old, new) /\ goal' = [goal EXCEPT ![g] = new]
     /\ editor' = [editor EXCEPT ![d] = Resting]
     /\ UNCHANGED <<thread, key, situation, links, goalLink, tx, extras>>

-----------------------------------------------------------------------------
RouterStep(e) ==
  \/ Begin(e) \/ LookUpKey(e) \/ Reserve(e) \/ LockSituation(e) \/ InsertLinks(e) \/ Commit(e)
  \/ RollBack(e)

EditorStep(d) ==
  \/ UpdateSnapshot(d) \/ UpdateLifecycle(d) \/ LinkGoal(d) \/ UpdateGoal(d) \/ RollBackEdit(d)
  \/ \E s \in Events : \/ ReadSnapshot(d, s) \/ UpdateAttention(d, s) \/ LockLifecycle(d, s)
                       \/ \E g \in Goals : InsertGoalLink(d, s, g) \/ ReplaceGoalLink(d, s, g)
  \/ \E g \in Goals : LockGoal(d, g)

(* Nothing is under way: anything else that stops is a deadlock.           *)
AtRest ==
  /\ \A e \in Events : tx[e].pc = "idle"
  /\ \A d \in Editors : editor[d].pc = "idle"
  /\ UNCHANGED vars

Next ==
  \/ \E e \in Events : RouterStep(e) \/ \E d \in Editors : BreakDeadlock(e, d)
  \/ \E d \in Editors : EditorStep(d)
  \/ \E g \in Goals : CreateGoal(g)
  \/ AtRest

Spec == Init /\ [][Next]_vars

-----------------------------------------------------------------------------
SituationTypeOK ==
  /\ thread \in [Events -> Threads] /\ key \in [Threads -> Events \union {None}]
  /\ situation \in [Events -> [lifecycle : Open \union Closed \union {"ABSENT"},
                               attention : {"NORMAL", "URGENT"}, version : Nat,
                               activity : Events \union {0}]]
  /\ links \subseteq Events \X Events
  /\ goalLink \in [Events \X Goals -> {"none", "resolver", "editor"}]
  /\ goal \in [Goals -> Statuses \union {"ABSENT"}]
  /\ tx \in [Events -> [pc : {"idle", "begun", "candidate", "found", "linking", "ready"},
                        sit : Events \union {None},
                        by : {"none", "key", "conflict", "reservation"},
                        goals : SUBSET Goals, activity : Events \union {0}]]
  /\ editor \in [Editors -> [pc : {"idle", "writing", "changing", "linking"},
                             sit : Events \union {None}, goal : Goals \union {None},
                             version : Nat,
                             old : Open \union Closed \union Statuses \union {"ABSENT"}]]
  /\ \A e \in Events : tx[e].sit # None <=> tx[e].pc \in {"found", "linking", "ready"}
  /\ extras \in 0 .. MaxExtras

(* "Concurrent resolution must converge on one Situation and leave no      *)
(* orphan candidate": each Situation is that of its own thread's           *)
(* reservation, and each Event is linked to that of its thread             *)
(* (resolve_gmail_event_in_session).                                       *)
OneSituationPerThread ==
  /\ \A s \in Events : Exists(s) <=> key[thread[s]] = s
  /\ \A t \in Threads : key[t] # None => thread[key[t]] = t
  /\ \A s, e \in Events : <<s, e>> \in links => key[thread[e]] = s

(* last_activity_at is the latest occurrence among the Events linked, in   *)
(* whatever order they were routed and whoever wrote the row meanwhile.    *)
ActivityIsLatest ==
  \A s \in Events : Exists(s) =>
    situation[s].activity = Max({e \in Events : <<s, e>> \in links})

(* What was decided stands, whoever writes at the same time: a terminal    *)
(* Situation or Goal is never reopened, a link that an editor wrote is not *)
(* overwritten by a routing, and a snapshot is replaced only by one that   *)
(* was based on it.                                                        *)
DecisionKept ==
  /\ \A s \in Events :
       /\ situation[s].lifecycle \in Closed => situation'[s].lifecycle = situation[s].lifecycle
       /\ Exists(s) /\ situation'[s].version # situation[s].version =>
            \E d \in Editors : editor[d].sit = s /\ editor[d].version = situation[s].version
  /\ \A g \in Goals : goal[g] \in {"COMPLETED", "ABANDONED"} => goal'[g] = goal[g]
  /\ \A sg \in Events \X Goals : goalLink[sg] = "editor" => goalLink'[sg] = "editor"

DecisionsStand == [][DecisionKept]_vars
=============================================================================
