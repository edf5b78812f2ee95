------------------------ MODULE ActionExecutor_proofs ------------------------
(***************************************************************************)
(* Proofs about ActionExecutor for any Actions, Handlers and MaxFaults:    *)
(* the types, and the three safety invariants, from one inductive          *)
(* invariant.                                                              *)
(***************************************************************************)
EXTENDS ActionExecutor, TLAPS

Past(h, stages) == pc[h] \in stages

(* A row has a claim exactly while it is RUNNING, and no boundary is       *)
(* crossed before the first claim.                                         *)
RowShape ==
  \A a \in Actions :
    /\ action[a].claim # None <=> action[a].status = "RUNNING"
    /\ action[a].status \in {"ABSENT", "QUEUED"} => ~action[a].started

(* A busy handler has a job, and a failing one a verdict.                  *)
HandlerShape ==
  \A h \in Handlers :
    /\ ~Past(h, {"idle"}) => job[h] \in Actions
    /\ Past(h, {"failing"}) => verdict[h] \in Verdicts

(* Nothing reaches Gmail before the boundary, and a handler that still     *)
(* holds its claim before the boundary finds it uncrossed.                 *)
BoundaryFirst ==
  /\ \A a \in Actions : ~action[a].started => applied[a] = 0
  /\ \A h \in Handlers :
       Past(h, {"claimed", "loaded", "checked"}) /\ Holds(h) => ~action[job[h]].started

(* Behind the boundary of an Action there is one handler; it keeps its     *)
(* claim unless its lease lapsed and the row became UNKNOWN.               *)
OneCaller ==
  \A h \in Handlers : Past(h, {"calling", "applied"}) =>
    /\ action[job[h]].started
    /\ Holds(h) \/ action[job[h]].status = "UNKNOWN"
    /\ \A g \in Handlers : Past(g, {"calling", "applied"}) /\ job[g] = job[h] => g = h

(* What the one caller has done so far, and what a handler that fails with *)
(* its claim in hand is entitled to report.                                *)
CallerKnows ==
  \A h \in Handlers :
    /\ Past(h, {"calling"}) /\ job[h] \in Once => applied[job[h]] = 0
    /\ Past(h, {"applied"}) => applied[job[h]] > 0
    /\ Past(h, {"failing"}) /\ verdict[h] # "unknown" /\ Holds(h) /\ job[h] \in Once
         => applied[job[h]] = 0

(* The handler whose reply counts still holds the claim, or the outcome is *)
(* already recorded.                                                       *)
HolderIsCurrent ==
  \A h \in Handlers :
    ~Past(h, {"idle"}) /\ holder[job[h]] = h =>
      Holds(h) \/ action[job[h]].status \in Terminal

(* The inductive invariant.                                                *)
ExecutorInv ==
  /\ TypeOK
  /\ RowShape
  /\ HandlerShape
  /\ BoundaryFirst
  /\ OneCaller
  /\ CallerKnows
  /\ HolderIsCurrent
  /\ AtMostOnce
  /\ OutcomeIsTruthful
  /\ NoStrandedAction
-----------------------------------------------------------------------------
(* What a claim and a crossing do to one row.                              *)
LEMMA ClaimedRow ==
  ASSUME NEW r \in ActionRow, NEW h \in Handlers
  PROVE  [r EXCEPT !.status = "RUNNING", !.claim = h, !.lease = "live"] \in ActionRow
  BY DEF ActionRow, ActionStatus

LEMMA StartedRow ==
  ASSUME NEW r \in ActionRow
  PROVE  [r EXCEPT !.started = TRUE] \in ActionRow
  BY DEF ActionRow

(* The base case.                                                          *)
LEMMA InitInv == Init => ExecutorInv
  <1> SUFFICES ASSUME Init PROVE ExecutorInv
    OBVIOUS
  <1>1. TypeOK
    BY FaultsAssumption, NoneAssumption DEF Init, NewRow, TypeOK, ActionRow, ActionStatus, Verdicts
  <1>2. RowShape /\ HandlerShape /\ BoundaryFirst /\ OneCaller /\ CallerKnows
    BY NoneAssumption DEF Init, NewRow, RowShape, HandlerShape, BoundaryFirst, OneCaller,
                          CallerKnows, Past
  <1>3. HolderIsCurrent /\ AtMostOnce /\ OutcomeIsTruthful /\ NoStrandedAction
    BY OnceAssumption DEF Init, NewRow, HolderIsCurrent, AtMostOnce, OutcomeIsTruthful,
                          NoStrandedAction, Past, Terminal
  <1> QED  BY <1>1, <1>2, <1>3 DEF ExecutorInv

(* The inductive step, one case per action.                                *)
LEMMA NextInv == ExecutorInv /\ [Next]_vars => ExecutorInv'
  <1> SUFFICES ASSUME ExecutorInv, [Next]_vars PROVE ExecutorInv'
    OBVIOUS
  <1> USE NoneAssumption, OnceAssumption, FaultsAssumption
      DEF ExecutorInv, Working, Holds, Past, Fault, Terminal, Verdicts, ActionStatus,
          rowVars, taskVars, handlerVars, gmailVars
  <1>1. ASSUME NEW a \in Actions, QueueAction(a) PROVE ExecutorInv'
    <2>1. TypeOK'
      BY <1>1
      DEF QueueAction, TypeOK, ActionRow, HandlerShape
    <2>2. (RowShape /\ HandlerShape /\ BoundaryFirst)'
      BY <1>1
      DEF QueueAction, TypeOK, ActionRow, RowShape, HandlerShape, BoundaryFirst,
          OneCaller
    <2>3. (OneCaller /\ CallerKnows)'
      BY <1>1
      DEF QueueAction, TypeOK, ActionRow, RowShape, HandlerShape, BoundaryFirst,
          OneCaller, CallerKnows
    <2>4. (HolderIsCurrent /\ NoStrandedAction)'
      BY <1>1
      DEF QueueAction, TypeOK, ActionRow, RowShape, HandlerShape, BoundaryFirst,
          HolderIsCurrent, NoStrandedAction
    <2>5. (AtMostOnce /\ OutcomeIsTruthful)'
      BY <1>1
      DEF QueueAction, TypeOK, ActionRow, RowShape, HandlerShape, BoundaryFirst,
          OneCaller, CallerKnows, AtMostOnce, OutcomeIsTruthful
    <2> QED  BY <2>1, <2>2, <2>3, <2>4, <2>5
  <1>2. ASSUME NEW a \in Actions, EnqueueTask(a) PROVE ExecutorInv'
    <2>1. TypeOK'
      BY <1>2
      DEF EnqueueTask, TypeOK, ActionRow, HandlerShape
    <2>2. (RowShape /\ HandlerShape /\ BoundaryFirst)'
      BY <1>2
      DEF EnqueueTask, TypeOK, ActionRow, RowShape, HandlerShape, BoundaryFirst,
          OneCaller
    <2>3. (OneCaller /\ CallerKnows)'
      BY <1>2
      DEF EnqueueTask, TypeOK, ActionRow, RowShape, HandlerShape, BoundaryFirst,
          OneCaller, CallerKnows
    <2>4. (HolderIsCurrent /\ NoStrandedAction)'
      BY <1>2
      DEF EnqueueTask, TypeOK, ActionRow, RowShape, HandlerShape, BoundaryFirst,
          HolderIsCurrent, NoStrandedAction
    <2>5. (AtMostOnce /\ OutcomeIsTruthful)'
      BY <1>2
      DEF EnqueueTask, TypeOK, ActionRow, RowShape, HandlerShape, BoundaryFirst,
          OneCaller, CallerKnows, AtMostOnce, OutcomeIsTruthful
    <2> QED  BY <2>1, <2>2, <2>3, <2>4, <2>5
  <1>3. ASSUME NEW a \in Actions, LeaseExpires(a) PROVE ExecutorInv'
    <2>1. TypeOK'
      BY <1>3
      DEF LeaseExpires, TypeOK, ActionRow, HandlerShape
    <2>2. (RowShape /\ HandlerShape /\ BoundaryFirst)'
      BY <1>3
      DEF LeaseExpires, TypeOK, ActionRow, RowShape, HandlerShape, BoundaryFirst,
          OneCaller
    <2>3. (OneCaller /\ CallerKnows)'
      BY <1>3
      DEF LeaseExpires, TypeOK, ActionRow, RowShape, HandlerShape, BoundaryFirst,
          OneCaller, CallerKnows
    <2>4. (HolderIsCurrent /\ NoStrandedAction)'
      BY <1>3
      DEF LeaseExpires, TypeOK, ActionRow, RowShape, HandlerShape, BoundaryFirst,
          HolderIsCurrent, NoStrandedAction
    <2>5. (AtMostOnce /\ OutcomeIsTruthful)'
      BY <1>3
      DEF LeaseExpires, TypeOK, ActionRow, RowShape, HandlerShape, BoundaryFirst,
          OneCaller, CallerKnows, AtMostOnce, OutcomeIsTruthful
    <2> QED  BY <2>1, <2>2, <2>3, <2>4, <2>5
  <1>4. ASSUME NEW h \in Handlers, NEW a \in Actions, ClaimAction(h, a) PROVE ExecutorInv'
    <2>1. TypeOK'
      <3> DEFINE row == [action[a] EXCEPT !.status = "RUNNING", !.claim = h, !.lease = "live"]
      <3>1. row \in ActionRow
        BY ClaimedRow DEF TypeOK
      <3>2. action' = [action EXCEPT ![a] = row]
        BY <1>4 DEF ClaimAction
      <3> QED  BY <1>4, <3>1, <3>2 DEF ClaimAction, TypeOK
    <2>2. (RowShape /\ HandlerShape /\ BoundaryFirst)'
      BY <1>4
      DEF ClaimAction, Claimable, TypeOK, ActionRow, RowShape, HandlerShape,
          BoundaryFirst, OneCaller
    <2>3. (OneCaller /\ CallerKnows)'
      BY <1>4
      DEF ClaimAction, Claimable, TypeOK, ActionRow, RowShape, HandlerShape,
          BoundaryFirst, OneCaller, CallerKnows
    <2>4. (HolderIsCurrent /\ NoStrandedAction)'
      BY <1>4
      DEF ClaimAction, Claimable, TypeOK, ActionRow, RowShape, HandlerShape,
          BoundaryFirst, HolderIsCurrent, NoStrandedAction
    <2>5. (AtMostOnce /\ OutcomeIsTruthful)'
      BY <1>4
      DEF ClaimAction, Claimable, TypeOK, ActionRow, RowShape, HandlerShape,
          BoundaryFirst, OneCaller, CallerKnows, AtMostOnce, OutcomeIsTruthful
    <2> QED  BY <2>1, <2>2, <2>3, <2>4, <2>5
  <1>5. ASSUME NEW h \in Handlers, NEW a \in Actions, ClaimLapsed(h, a) PROVE ExecutorInv'
    <2>1. TypeOK'
      BY <1>5
      DEF ClaimLapsed, Ended, TaskDone, TypeOK, ActionRow, HandlerShape
    <2>2. (RowShape /\ HandlerShape /\ BoundaryFirst)'
      BY <1>5
      DEF ClaimLapsed, Ended, TaskDone, TypeOK, ActionRow, RowShape, HandlerShape,
          BoundaryFirst, OneCaller
    <2>3. (OneCaller /\ CallerKnows)'
      BY <1>5
      DEF ClaimLapsed, Ended, TaskDone, TypeOK, ActionRow, RowShape, HandlerShape,
          BoundaryFirst, OneCaller, CallerKnows
    <2>4. (HolderIsCurrent /\ NoStrandedAction)'
      BY <1>5
      DEF ClaimLapsed, Ended, TaskDone, TypeOK, ActionRow, RowShape, HandlerShape,
          BoundaryFirst, HolderIsCurrent, NoStrandedAction
    <2>5. (AtMostOnce /\ OutcomeIsTruthful)'
      BY <1>5
      DEF ClaimLapsed, Ended, TaskDone, TypeOK, ActionRow, RowShape, HandlerShape,
          BoundaryFirst, OneCaller, CallerKnows, AtMostOnce, OutcomeIsTruthful
    <2> QED  BY <2>1, <2>2, <2>3, <2>4, <2>5
  <1>6. ASSUME NEW h \in Handlers, NEW a \in Actions, ClaimTerminal(h, a) PROVE ExecutorInv'
    <2>1. TypeOK'
      BY <1>6
      DEF ClaimTerminal, TaskDone, TypeOK, ActionRow, HandlerShape
    <2>2. (RowShape /\ HandlerShape /\ BoundaryFirst)'
      BY <1>6
      DEF ClaimTerminal, TaskDone, TypeOK, ActionRow, RowShape, HandlerShape,
          BoundaryFirst, OneCaller
    <2>3. (OneCaller /\ CallerKnows)'
      BY <1>6
      DEF ClaimTerminal, TaskDone, TypeOK, ActionRow, RowShape, HandlerShape,
          BoundaryFirst, OneCaller, CallerKnows
    <2>4. (HolderIsCurrent /\ NoStrandedAction)'
      BY <1>6
      DEF ClaimTerminal, TaskDone, TypeOK, ActionRow, RowShape, HandlerShape,
          BoundaryFirst, HolderIsCurrent, NoStrandedAction
    <2>5. (AtMostOnce /\ OutcomeIsTruthful)'
      BY <1>6
      DEF ClaimTerminal, TaskDone, TypeOK, ActionRow, RowShape, HandlerShape,
          BoundaryFirst, OneCaller, CallerKnows, AtMostOnce, OutcomeIsTruthful
    <2> QED  BY <2>1, <2>2, <2>3, <2>4, <2>5
  <1>7. ASSUME NEW h \in Handlers, LoadSubject(h) PROVE ExecutorInv'
    <2>1. TypeOK'
      <3>1. action' \in [Actions -> ActionRow]
        BY <1>7 DEF LoadSubject, TypeOK
      <3>2. task' \in [Actions -> {"none", "pending", "done"}] /\ holder' \in [Actions -> Handlers \union {None}]
        BY <1>7 DEF LoadSubject, TypeOK
      <3>3. faults' \in 0 .. MaxFaults
        BY <1>7 DEF LoadSubject, TypeOK
      <3> QED
        BY <1>7, <3>1, <3>2, <3>3 DEF LoadSubject, Goto, FailWith, TypeOK
    <2>2. (RowShape /\ HandlerShape /\ BoundaryFirst)'
      BY <1>7
      DEF LoadSubject, Goto, FailWith, TypeOK, ActionRow, RowShape, HandlerShape,
          BoundaryFirst, OneCaller
    <2>3. (OneCaller /\ CallerKnows)'
      BY <1>7
      DEF LoadSubject, Goto, FailWith, TypeOK, ActionRow, RowShape, HandlerShape,
          BoundaryFirst, OneCaller, CallerKnows
    <2>4. (HolderIsCurrent /\ NoStrandedAction)'
      BY <1>7
      DEF LoadSubject, Goto, FailWith, TypeOK, ActionRow, RowShape, HandlerShape,
          BoundaryFirst, HolderIsCurrent, NoStrandedAction
    <2>5. (AtMostOnce /\ OutcomeIsTruthful)'
      BY <1>7
      DEF LoadSubject, Goto, FailWith, TypeOK, ActionRow, RowShape, HandlerShape,
          BoundaryFirst, OneCaller, CallerKnows, AtMostOnce, OutcomeIsTruthful
    <2> QED  BY <2>1, <2>2, <2>3, <2>4, <2>5
  <1>8. ASSUME NEW h \in Handlers, CheckProvider(h) PROVE ExecutorInv'
    <2>1. TypeOK'
      BY <1>8
      DEF CheckProvider, Goto, FailWith, TypeOK, ActionRow, HandlerShape
    <2>2. (RowShape /\ HandlerShape /\ BoundaryFirst)'
      BY <1>8
      DEF CheckProvider, Goto, FailWith, TypeOK, ActionRow, RowShape, HandlerShape,
          BoundaryFirst, OneCaller
    <2>3. (OneCaller /\ CallerKnows)'
      BY <1>8
      DEF CheckProvider, Goto, FailWith, TypeOK, ActionRow, RowShape, HandlerShape,
          BoundaryFirst, OneCaller, CallerKnows
    <2>4. (HolderIsCurrent /\ NoStrandedAction)'
      BY <1>8
      DEF CheckProvider, Goto, FailWith, TypeOK, ActionRow, RowShape, HandlerShape,
          BoundaryFirst, HolderIsCurrent, NoStrandedAction
    <2>5. (AtMostOnce /\ OutcomeIsTruthful)'
      BY <1>8
      DEF CheckProvider, Goto, FailWith, TypeOK, ActionRow, RowShape, HandlerShape,
          BoundaryFirst, OneCaller, CallerKnows, AtMostOnce, OutcomeIsTruthful
    <2> QED  BY <2>1, <2>2, <2>3, <2>4, <2>5
  <1>9. ASSUME NEW h \in Handlers, BeginProviderCall(h) PROVE ExecutorInv'
    <2>0. pc[h] = "checked" /\ job[h] \in Actions
      BY <1>9 DEF BeginProviderCall, HandlerShape
    <2>1. CASE /\ MayCross(h)
               /\ action' = Crossed(h)
               /\ Goto(h, "calling")
               /\ UNCHANGED <<taskVars, gmailVars, faults>>
      <3>1. TypeOK'
        <4>1. [action[job[h]] EXCEPT !.started = TRUE] \in ActionRow
          BY <2>0, StartedRow DEF TypeOK
        <4>2. action' \in [Actions -> ActionRow]
          BY <2>0, <2>1, <4>1 DEF TypeOK, Crossed
        <4> QED
          BY <2>0, <2>1, <4>2 DEF TypeOK, Goto
      <3>2. (RowShape /\ HandlerShape /\ BoundaryFirst)'
        BY <2>0, <2>1
        DEF MayCross, Crossed, Goto, TypeOK, ActionRow, RowShape, HandlerShape,
            BoundaryFirst, OneCaller
      <3>3. (OneCaller /\ CallerKnows)'
        BY <2>0, <2>1
        DEF MayCross, Crossed, Goto, TypeOK, ActionRow, RowShape, HandlerShape,
            BoundaryFirst, OneCaller, CallerKnows
      <3>4. (HolderIsCurrent /\ NoStrandedAction)'
        BY <2>0, <2>1
        DEF MayCross, Crossed, Goto, TypeOK, ActionRow, RowShape, HandlerShape,
            BoundaryFirst, HolderIsCurrent, NoStrandedAction
      <3>5. (AtMostOnce /\ OutcomeIsTruthful)'
        BY <2>0, <2>1
        DEF MayCross, Crossed, Goto, TypeOK, ActionRow, RowShape, HandlerShape,
            BoundaryFirst, OneCaller, CallerKnows, AtMostOnce, OutcomeIsTruthful
      <3> QED  BY <3>1, <3>2, <3>3, <3>4, <3>5
    <2>2. CASE /\ ~MayCross(h)
               /\ Idle(h)
               /\ Acknowledge(h, job[h])
               /\ UNCHANGED <<rowVars, gmailVars>>
      <3>1. TypeOK'
        <4>1. task' \in [Actions -> {"none", "pending", "done"}] /\ holder' \in [Actions -> Handlers \union {None}]
          BY <2>2 DEF TypeOK, Acknowledge, TaskDone
        <4>2. faults' \in 0 .. MaxFaults
          BY <2>2 DEF TypeOK, Acknowledge
        <4> QED
          BY <2>2, <4>1, <4>2 DEF TypeOK, Idle
      <3>2. (RowShape /\ HandlerShape /\ BoundaryFirst)'
        BY <2>0, <2>2
        DEF MayCross, Idle, Acknowledge, TaskDone, TypeOK, ActionRow, RowShape,
            HandlerShape, BoundaryFirst, OneCaller
      <3>3. (OneCaller /\ CallerKnows)'
        BY <2>0, <2>2
        DEF MayCross, Idle, Acknowledge, TaskDone, TypeOK, ActionRow, RowShape,
            HandlerShape, BoundaryFirst, OneCaller, CallerKnows
      <3>4. (HolderIsCurrent /\ NoStrandedAction)'
        BY <2>0, <2>2
        DEF MayCross, Idle, Acknowledge, TaskDone, TypeOK, ActionRow, RowShape,
            HandlerShape, BoundaryFirst, HolderIsCurrent, NoStrandedAction
      <3>5. (AtMostOnce /\ OutcomeIsTruthful)'
        BY <2>0, <2>2
        DEF MayCross, Idle, Acknowledge, TaskDone, TypeOK, ActionRow, RowShape,
            HandlerShape, BoundaryFirst, OneCaller, CallerKnows, AtMostOnce,
            OutcomeIsTruthful
      <3> QED  BY <3>1, <3>2, <3>3, <3>4, <3>5
    <2>3. CASE /\ MayCross(h)
               /\ action' = Crossed(h)
               /\ FailWith(h, "release")
               /\ Fault
               /\ UNCHANGED <<taskVars, gmailVars>>
      <3>1. TypeOK'
        <4>1. [action[job[h]] EXCEPT !.started = TRUE] \in ActionRow
          BY <2>0, StartedRow DEF TypeOK
        <4>2. action' \in [Actions -> ActionRow]
          BY <2>0, <2>3, <4>1 DEF TypeOK, Crossed
        <4> QED
          BY <2>0, <2>3, <4>2 DEF TypeOK, FailWith
      <3>2. (RowShape /\ HandlerShape /\ BoundaryFirst)'
        BY <2>0, <2>3
        DEF MayCross, Crossed, FailWith, TypeOK, ActionRow, RowShape, HandlerShape,
            BoundaryFirst, OneCaller
      <3>3. (OneCaller /\ CallerKnows)'
        BY <2>0, <2>3
        DEF MayCross, Crossed, FailWith, TypeOK, ActionRow, RowShape, HandlerShape,
            BoundaryFirst, OneCaller, CallerKnows
      <3>4. (HolderIsCurrent /\ NoStrandedAction)'
        BY <2>0, <2>3
        DEF MayCross, Crossed, FailWith, TypeOK, ActionRow, RowShape, HandlerShape,
            BoundaryFirst, HolderIsCurrent, NoStrandedAction
      <3>5. (AtMostOnce /\ OutcomeIsTruthful)'
        BY <2>0, <2>3
        DEF MayCross, Crossed, FailWith, TypeOK, ActionRow, RowShape, HandlerShape,
            BoundaryFirst, OneCaller, CallerKnows, AtMostOnce, OutcomeIsTruthful
      <3> QED  BY <3>1, <3>2, <3>3, <3>4, <3>5
    <2>4. CASE /\ FailWith(h, "release")
               /\ Fault
               /\ UNCHANGED <<rowVars, taskVars, gmailVars>>
      <3>1. TypeOK'
        BY <2>0, <2>4 DEF TypeOK, FailWith
      <3>2. (RowShape /\ HandlerShape /\ BoundaryFirst)'
        BY <2>0, <2>4
        DEF FailWith, TypeOK, ActionRow, RowShape, HandlerShape, BoundaryFirst,
            OneCaller
      <3>3. (OneCaller /\ CallerKnows)'
        BY <2>0, <2>4
        DEF FailWith, TypeOK, ActionRow, RowShape, HandlerShape, BoundaryFirst,
            OneCaller, CallerKnows
      <3>4. (HolderIsCurrent /\ NoStrandedAction)'
        BY <2>0, <2>4
        DEF FailWith, TypeOK, ActionRow, RowShape, HandlerShape, BoundaryFirst,
            HolderIsCurrent, NoStrandedAction
      <3>5. (AtMostOnce /\ OutcomeIsTruthful)'
        BY <2>0, <2>4
        DEF FailWith, TypeOK, ActionRow, RowShape, HandlerShape, BoundaryFirst,
            OneCaller, CallerKnows, AtMostOnce, OutcomeIsTruthful
      <3> QED  BY <3>1, <3>2, <3>3, <3>4, <3>5
    <2> QED  BY <1>9, <2>1, <2>2, <2>3, <2>4 DEF BeginProviderCall
  <1>10. ASSUME NEW h \in Handlers, CallProvider(h) PROVE ExecutorInv'
    <2>1. TypeOK'
      BY <1>10
      DEF CallProvider, Goto, FailWith, TypeOK, ActionRow, HandlerShape
    <2>2. (RowShape /\ HandlerShape /\ BoundaryFirst)'
      BY <1>10
      DEF CallProvider, Goto, FailWith, TypeOK, ActionRow, RowShape, HandlerShape,
          BoundaryFirst, OneCaller
    <2>3. OneCaller'
      BY <1>10
      DEF CallProvider, Goto, FailWith, TypeOK, ActionRow, RowShape, HandlerShape,
          BoundaryFirst, OneCaller, CallerKnows
    <2>4. CallerKnows'
      BY <1>10
      DEF CallProvider, Goto, FailWith, TypeOK, ActionRow, RowShape, HandlerShape,
          BoundaryFirst, OneCaller, CallerKnows
    <2>5. (HolderIsCurrent /\ NoStrandedAction)'
      BY <1>10
      DEF CallProvider, Goto, FailWith, TypeOK, ActionRow, RowShape, HandlerShape,
          BoundaryFirst, HolderIsCurrent, NoStrandedAction
    <2>6. AtMostOnce'
      BY <1>10
      DEF CallProvider, Goto, FailWith, TypeOK, ActionRow, RowShape, HandlerShape,
          BoundaryFirst, OneCaller, CallerKnows, AtMostOnce, OutcomeIsTruthful
    <2>7. OutcomeIsTruthful'
      <3>1. action' = action
        BY <1>10 DEF CallProvider
      <3>2. \A a \in Actions : applied'[a] # applied[a] => a = job[h] /\ applied'[a] > 0
        <4>1. applied' \in {applied, [applied EXCEPT ![job[h]] = @ + 1]}
          BY <1>10 DEF CallProvider
        <4>2. applied \in [Actions -> Nat]
          BY DEF TypeOK
        <4> QED
          BY <4>1, <4>2
      <3>3. action[job[h]].status \in {"RUNNING", "UNKNOWN"}
        BY <1>10 DEF CallProvider, OneCaller, Holds
      <3> QED
        BY OnceAssumption, <3>1, <3>2, <3>3 DEF OutcomeIsTruthful
    <2> QED  BY <2>1, <2>2, <2>3, <2>4, <2>5, <2>6, <2>7
  <1>11. ASSUME NEW h \in Handlers, Complete(h) PROVE ExecutorInv'
    <2>1. TypeOK'
      BY <1>11
      DEF Complete, Ended, FailWith, Acknowledge, TaskDone, Idle, TypeOK, ActionRow,
          HandlerShape
    <2>2. (RowShape /\ HandlerShape /\ BoundaryFirst)'
      BY <1>11
      DEF Complete, Ended, FailWith, Acknowledge, TaskDone, Idle, TypeOK, ActionRow,
          RowShape, HandlerShape, BoundaryFirst, OneCaller
    <2>3. (OneCaller /\ CallerKnows)'
      BY <1>11
      DEF Complete, Ended, FailWith, Acknowledge, TaskDone, Idle, TypeOK, ActionRow,
          RowShape, HandlerShape, BoundaryFirst, OneCaller, CallerKnows
    <2>4. (HolderIsCurrent /\ NoStrandedAction)'
      BY <1>11
      DEF Complete, Ended, FailWith, Acknowledge, TaskDone, Idle, TypeOK, ActionRow,
          RowShape, HandlerShape, BoundaryFirst, HolderIsCurrent, NoStrandedAction
    <2>5. (AtMostOnce /\ OutcomeIsTruthful)'
      BY <1>11
      DEF Complete, Ended, FailWith, Acknowledge, TaskDone, Idle, TypeOK, ActionRow,
          RowShape, HandlerShape, BoundaryFirst, OneCaller, CallerKnows, AtMostOnce,
          OutcomeIsTruthful
    <2> QED  BY <2>1, <2>2, <2>3, <2>4, <2>5
  <1>12. ASSUME NEW h \in Handlers, Finish(h) PROVE ExecutorInv'
    <2>1. TypeOK'
      <3>1. action' \in [Actions -> ActionRow]
        BY <1>12 DEF Finish, Finishes, Ended, OutcomeOf, TypeOK, ActionRow, HandlerShape
      <3>2. task' \in [Actions -> {"none", "pending", "done"}] /\ holder' \in [Actions -> Handlers \union {None}]
        BY <1>12 DEF Finish, Acknowledge, TaskDone, TypeOK
      <3>3. faults' \in 0 .. MaxFaults
        BY <1>12 DEF Finish, Acknowledge, TypeOK
      <3> QED
        BY <1>12, <3>1, <3>2, <3>3 DEF Finish, Idle, TypeOK
    <2>2. (RowShape /\ HandlerShape /\ BoundaryFirst)'
      BY <1>12
      DEF Finish, Finishes, Ended, OutcomeOf, Acknowledge, TaskDone, Idle, TypeOK,
          ActionRow, RowShape, HandlerShape, BoundaryFirst, OneCaller
    <2>3. (OneCaller /\ CallerKnows)'
      BY <1>12
      DEF Finish, Finishes, Ended, OutcomeOf, Acknowledge, TaskDone, Idle, TypeOK,
          ActionRow, RowShape, HandlerShape, BoundaryFirst, OneCaller, CallerKnows
    <2>4. (HolderIsCurrent /\ NoStrandedAction)'
      BY <1>12
      DEF Finish, Finishes, Ended, OutcomeOf, Acknowledge, TaskDone, Idle, TypeOK,
          ActionRow, RowShape, HandlerShape, BoundaryFirst, HolderIsCurrent,
          NoStrandedAction
    <2>5. (AtMostOnce /\ OutcomeIsTruthful)'
      BY <1>12
      DEF Finish, Finishes, Ended, OutcomeOf, Acknowledge, TaskDone, Idle, TypeOK,
          ActionRow, RowShape, HandlerShape, BoundaryFirst, OneCaller, CallerKnows,
          AtMostOnce, OutcomeIsTruthful
    <2> QED  BY <2>1, <2>2, <2>3, <2>4, <2>5
  <1>13. ASSUME NEW h \in Handlers, Crash(h) PROVE ExecutorInv'
    <2>1. TypeOK'
      BY <1>13
      DEF Crash, Idle, TypeOK, ActionRow, HandlerShape
    <2>2. (RowShape /\ HandlerShape /\ BoundaryFirst)'
      BY <1>13
      DEF Crash, Idle, TypeOK, ActionRow, RowShape, HandlerShape, BoundaryFirst,
          OneCaller
    <2>3. (OneCaller /\ CallerKnows)'
      BY <1>13
      DEF Crash, Idle, TypeOK, ActionRow, RowShape, HandlerShape, BoundaryFirst,
          OneCaller, CallerKnows
    <2>4. (HolderIsCurrent /\ NoStrandedAction)'
      BY <1>13
      DEF Crash, Idle, TypeOK, ActionRow, RowShape, HandlerShape, BoundaryFirst,
          HolderIsCurrent, NoStrandedAction
    <2>5. (AtMostOnce /\ OutcomeIsTruthful)'
      BY <1>13
      DEF Crash, Idle, TypeOK, ActionRow, RowShape, HandlerShape, BoundaryFirst,
          OneCaller, CallerKnows, AtMostOnce, OutcomeIsTruthful
    <2> QED  BY <2>1, <2>2, <2>3, <2>4, <2>5
  <1>14. ASSUME NEW gone \in SUBSET Actions, RemoveDrafts(gone) PROVE ExecutorInv'
    <2>1. TypeOK'
      BY <1>14
      DEF RemoveDrafts, TypeOK, ActionRow, HandlerShape
    <2>2. (RowShape /\ HandlerShape /\ BoundaryFirst)'
      BY <1>14
      DEF RemoveDrafts, TypeOK, ActionRow, RowShape, HandlerShape, BoundaryFirst,
          OneCaller
    <2>3. (OneCaller /\ CallerKnows)'
      BY <1>14
      DEF RemoveDrafts, TypeOK, ActionRow, RowShape, HandlerShape, BoundaryFirst,
          OneCaller, CallerKnows
    <2>4. (HolderIsCurrent /\ NoStrandedAction)'
      BY <1>14
      DEF RemoveDrafts, TypeOK, ActionRow, RowShape, HandlerShape, BoundaryFirst,
          HolderIsCurrent, NoStrandedAction
    <2>5. (AtMostOnce /\ OutcomeIsTruthful)'
      BY <1>14
      DEF RemoveDrafts, TypeOK, ActionRow, RowShape, HandlerShape, BoundaryFirst,
          OneCaller, CallerKnows, AtMostOnce, OutcomeIsTruthful
    <2> QED  BY <2>1, <2>2, <2>3, <2>4, <2>5
  <1>15. CASE UNCHANGED vars
    BY <1>15 DEF vars, TypeOK, RowShape, HandlerShape, BoundaryFirst, OneCaller, CallerKnows,
                     HolderIsCurrent, AtMostOnce, OutcomeIsTruthful, NoStrandedAction
  <1> QED
    BY <1>1, <1>2, <1>3, <1>4, <1>5, <1>6, <1>7, <1>8, <1>9, <1>10, <1>11, <1>12, <1>13, <1>14, <1>15 DEF Next, Step, Deliver

-----------------------------------------------------------------------------
(* The invariant holds in every reachable state of the executor.           *)
THEOREM ExecutorInvariant == Spec => []ExecutorInv
  BY InitInv, NextInv, PTL DEF Spec

(* The tables and the handlers keep their types.                           *)
THEOREM TypeCorrect == Spec => []TypeOK
  BY ExecutorInvariant, PTL DEF ExecutorInv

(* A create or a send is applied by Gmail at most once, for any number of  *)
(* handlers and faults.                                                    *)
THEOREM MutationsAtMostOnce == Spec => []AtMostOnce
  BY ExecutorInvariant, PTL DEF ExecutorInv

(* The outcome recorded for an Action is what happened in Gmail.           *)
THEOREM OutcomesTruthful == Spec => []OutcomeIsTruthful
  BY ExecutorInvariant, PTL DEF ExecutorInv

(* A task is acknowledged only once its Action has an outcome.             *)
THEOREM NoActionStranded == Spec => []NoStrandedAction
  BY ExecutorInvariant, PTL DEF ExecutorInv

(* One step neither repeats a crossed Action nor replaces an outcome.      *)
Settled(a) ==
  /\ action[a].started => /\ action'[a].started
                          /\ action'[a].claim \in {action[a].claim, None}
                          /\ action'[a].status # "QUEUED"
  /\ action[a].status \in Terminal => action'[a] = action[a]

LEMMA StepSettled ==
  ASSUME ExecutorInv, Next, NEW b \in Actions
  PROVE  Settled(b)
  <1> USE NoneAssumption
      DEF ExecutorInv, Settled, Working, Terminal, rowVars, TypeOK, ActionRow
  <1>1. ASSUME NEW a \in Actions, QueueAction(a) PROVE Settled(b)
    BY <1>1 DEF QueueAction, RowShape
  <1>2. ASSUME NEW a \in Actions, EnqueueTask(a) PROVE Settled(b)
    BY <1>2 DEF EnqueueTask, RowShape
  <1>3. ASSUME NEW a \in Actions, LeaseExpires(a) PROVE Settled(b)
    BY <1>3 DEF LeaseExpires, RowShape
  <1>4. ASSUME NEW h \in Handlers, NEW a \in Actions, ClaimAction(h, a) PROVE Settled(b)
    BY <1>4 DEF ClaimAction, Claimable, RowShape
  <1>5. ASSUME NEW h \in Handlers, NEW a \in Actions, ClaimLapsed(h, a) PROVE Settled(b)
    BY <1>5 DEF ClaimLapsed, Ended, RowShape
  <1>6. ASSUME NEW h \in Handlers, NEW a \in Actions, ClaimTerminal(h, a) PROVE Settled(b)
    BY <1>6 DEF ClaimTerminal, RowShape
  <1>7. ASSUME NEW h \in Handlers, LoadSubject(h) PROVE Settled(b)
    BY <1>7 DEF LoadSubject, RowShape
  <1>8. ASSUME NEW h \in Handlers, CheckProvider(h) PROVE Settled(b)
    BY <1>8 DEF CheckProvider, RowShape
  <1>9. ASSUME NEW h \in Handlers, BeginProviderCall(h) PROVE Settled(b)
    BY <1>9 DEF BeginProviderCall, RowShape, MayCross, Crossed, Holds, HandlerShape, Past
  <1>10. ASSUME NEW h \in Handlers, CallProvider(h) PROVE Settled(b)
    BY <1>10 DEF CallProvider, RowShape
  <1>11. ASSUME NEW h \in Handlers, Complete(h) PROVE Settled(b)
    BY <1>11 DEF Complete, RowShape, Ended, Holds, HandlerShape, Past
  <1>12. ASSUME NEW h \in Handlers, Finish(h) PROVE Settled(b)
    BY <1>12 DEF Finish, RowShape, Finishes, Ended, OutcomeOf, Holds, HandlerShape, Past, Verdicts
  <1>13. ASSUME NEW h \in Handlers, Crash(h) PROVE Settled(b)
    BY <1>13 DEF Crash, RowShape
  <1>14. ASSUME NEW gone \in SUBSET Actions, RemoveDrafts(gone) PROVE Settled(b)
    BY <1>14 DEF RemoveDrafts, RowShape
  <1> QED
    BY <1>1, <1>2, <1>3, <1>4, <1>5, <1>6, <1>7, <1>8, <1>9, <1>10, <1>11, <1>12, <1>13, <1>14 DEF Next, Step, Deliver

(* No step of the executor repeats a crossed Action or replaces an outcome. *)
THEOREM NothingRepeated == Spec => NeverRepeated
  <1>1. ExecutorInv /\ [Next]_vars => [\A a \in Actions : Settled(a)]_vars
    BY StepSettled
  <1>2. [\A a \in Actions : Settled(a)]_vars
          <=> [\A a \in Actions :
                 /\ action[a].started => /\ action'[a].started
                                         /\ action'[a].claim \in {action[a].claim, None}
                                         /\ action'[a].status # "QUEUED"
                 /\ action[a].status \in Terminal => action'[a] = action[a]]_vars
    BY DEF Settled
  <1> QED
    BY ExecutorInvariant, <1>1, <1>2, PTL DEF Spec, NeverRepeated
=============================================================================
