----------------------------- MODULE OnePodProofs -----------------------------
(***************************************************************************)
(* With a single backend pod the event loop serialises the approve, reject *)
(* and reset handlers, and AdminAlerts implements AlertLifecycle.  The     *)
(* argument: a handler holds the loop from its first statement to its      *)
(* broadcast, so the status it read still holds at its UPDATE and at its   *)
(* rotation.                                                               *)
(***************************************************************************)
EXTENDS AdminAlertsProofs

OnePod == \A p, q \in Pods : p = q

\* At most one handler of a pod is between its first statement and its broadcast,
\* and none while a reset is.
Exclusive ==
  /\ \A r, q \in Requests :
       pc[r] \in Held /\ pc[q] \in Held /\ call[r].pod = call[q].pod => r = q
  /\ \A r \in Requests : pc[r] \in Held => resetPc[call[r].pod] \notin ResetHeld

\* One step keeps the event loop of each pod exclusive: entering it needs it free.
LEMMA ExclusiveStep ==
  ASSUME TypeOK, Exclusive, [Next]_vars
  PROVE  Exclusive'
<1> USE DEF handlers, seedVars, budget
<1>0. /\ pc \in [Requests -> HandlerPc]
      /\ call \in [Requests -> [op : Decision, alert : Alerts, pod : Pods]]
      /\ resetPc \in [Pods -> {"idle"} \union ResetHeld]
  BY DEF TypeOK
\* Handlers only leave the loop, resets only go on.
<1>1. CASE /\ call' = call
           /\ \A r \in Requests : pc'[r] \in Held => pc[r] \in Held
           /\ \A p \in Pods : resetPc'[p] \in ResetHeld => resetPc[p] \in ResetHeld
  BY <1>0, <1>1 DEF Exclusive
<1>2. ASSUME NEW r \in Requests, Arrive(r) PROVE Exclusive'
  <2>1. /\ LoopFree(call[r].pod)
        /\ pc' = [pc EXCEPT ![r] = "read"] /\ call' = call /\ resetPc' = resetPc
    BY <1>2 DEF Arrive, Goto
  <2>2. \A q \in Requests \ {r} : pc'[q] = pc[q]
    BY <1>0, <2>1
  <2> QED BY <1>0, <2>1, <2>2 DEF Exclusive, LoopFree
<1>3. ASSUME NEW r \in Requests, Handle(r)
      PROVE  /\ call' = call
             /\ \A q \in Requests : pc'[q] \in Held => pc[q] \in Held
             /\ \A p \in Pods : resetPc'[p] \in ResetHeld => resetPc[p] \in ResetHeld
  BY <1>0, <1>3 DEF Handle, ReadAlert, UpdateStatus, InsertAudit, CountDecision,
     DecrPending, ClampPending, MirrorDecision, ClampCritical, ReReadAlert, Rotate,
     SetResult, Broadcast, UpdateThreat, Answer, Goto, Held
<1>4. ASSUME NEW r \in Requests, DbError(r) \/ RedisError(r)
      PROVE  /\ call' = call
             /\ \A q \in Requests : pc'[q] \in Held => pc[q] \in Held
             /\ \A p \in Pods : resetPc'[p] \in ResetHeld => resetPc[p] \in ResetHeld
  BY <1>0, <1>4 DEF DbError, RedisError, Answer, Goto, Held
<1>5. ASSUME NEW p \in Pods, ResetTruncate(p) PROVE Exclusive'
  <2>1. /\ LoopFree(p) /\ pc' = pc /\ call' = call
        /\ resetPc' = [resetPc EXCEPT ![p] = "zero"]
    BY <1>5 DEF ResetTruncate, ResetGoto
  <2> QED BY <1>0, <2>1 DEF Exclusive, LoopFree
<1>6. ASSUME NEW p \in Pods, FinishReset(p) \/ ResetError(p)
      PROVE  /\ call' = call
             /\ \A q \in Requests : pc'[q] \in Held => pc[q] \in Held
             /\ \A s \in Pods : resetPc'[s] \in ResetHeld => resetPc[s] \in ResetHeld
  BY <1>0, <1>6 DEF FinishReset, ResetStats, ResetDeleteKeys, ResetMirror, ResetThreats,
     ResetError, ResetGoto, ResetHeld
<1>7. ASSUME NEW p \in Pods, PodCrash(p)
      PROVE  /\ call' = call
             /\ \A q \in Requests : pc'[q] \in Held => pc[q] \in Held
             /\ \A s \in Pods : resetPc'[s] \in ResetHeld => resetPc[s] \in ResetHeld
  BY <1>0, <1>7 DEF PodCrash, Held, ResetHeld
<1>8. ASSUME \/ \E a \in Alerts : Detect(a) \/ Create(a) \/ CreateError(a)
             \/ \E p \in Pods : SeedRead(p) \/ SeedWrite(p)
             \/ AllowEvent \/ RedisRestart \/ UNCHANGED vars
      PROVE  UNCHANGED <<call, pc, resetPc>>
  BY <1>8 DEF Detect, Create, InsertAlert, CountCreated, MirrorCreated, CreateError,
     SeedRead, SeedWrite, AllowEvent, RedisRestart, vars
<1> QED BY <1>1, <1>2, <1>3, <1>4, <1>5, <1>6, <1>7, <1>8 DEF Next

-----------------------------------------------------------------------------
(* What a handler knows of its alert while it holds the loop *)

\* The early return of the store still holds at the UPDATE.
PendingAtUpdate ==
  \A r \in Requests : pc[r] = "update" => row[call[r].alert] = "pending"

\* The status test of the approve handler still holds at the rotation.
ApprovedAtRotation ==
  \A r \in Requests : pc[r] \in {"rotate", "result"} => row[call[r].alert] = "approved"

RotationInv ==
  /\ TypeOK
  /\ Exclusive
  /\ PendingAtUpdate
  /\ ApprovedAtRotation
  /\ QueueOrder
  /\ RotatedWasApproved

\* The inductive invariant holds before the first alert.
LEMMA RotationInit == Init => RotationInv
<1> SUFFICES ASSUME Init PROVE RotationInv
  OBVIOUS
<1>1. TypeOK
  BY TypeInit
<1>2. Exclusive /\ PendingAtUpdate /\ ApprovedAtRotation
  BY DEF Init, Exclusive, PendingAtUpdate, ApprovedAtRotation, Held
<1>3. RotatedWasApproved
  BY DEF Init, RotatedWasApproved
<1> QED BY <1>1, <1>2, <1>3, OrderInit DEF RotationInv

\* Where a call stands after a step that does not touch the alerts: it entered
\* "update" or "rotate" from the status it read.
Entered(r) ==
  /\ pc'[r] = "update" => pc[r] = "update" \/ row[call[r].alert] = "pending"
  /\ pc'[r] \in {"rotate", "result"} =>
       pc[r] \in {"rotate", "result"} \/ row[call[r].alert] = "approved"

\* A handler enters its UPDATE or its rotation only from the status it has read.
LEMMA EnteredStep ==
  ASSUME TypeOK, [Next]_vars, NEW r \in Requests
  PROVE  Entered(r) /\ UNCHANGED call
<1> USE DEF handlers
<1>0. /\ pc \in [Requests -> HandlerPc]
      /\ call \in [Requests -> [op : Decision, alert : Alerts, pod : Pods]]
  BY DEF TypeOK
<1>1. ASSUME NEW q \in Requests, Handle(q) PROVE Entered(r) /\ UNCHANGED call
  <2>1. CASE q # r
    BY <1>1, <2>1, OthersStay DEF Entered
  <2>2. CASE q = r
    <3>1. CASE ReadAlert(r)
      BY <1>0, <3>1 DEF Entered, ReadAlert, StillPending, AfterStore, MayRotate, Goto
    <3>2. CASE ReReadAlert(r)
      BY <1>0, <3>2 DEF Entered, ReReadAlert, AfterStore, MayRotate, Goto
    <3>3. CASE Rotate(r) \/ SetResult(r)
      BY <1>0, <3>3 DEF Entered, Rotate, SetResult, Goto
    <3>4. CASE ~ (ReadAlert(r) \/ ReReadAlert(r) \/ Rotate(r) \/ SetResult(r))
      BY <1>0, <1>1, <2>2, <3>4 DEF Entered, Handle, UpdateStatus, InsertAudit,
         CountDecision, DecrPending, ClampPending, MirrorDecision, ClampCritical,
         Broadcast, UpdateThreat, Answer, Goto
    <3> QED BY <3>1, <3>2, <3>3, <3>4
  <2> QED BY <2>1, <2>2
<1>2. ASSUME NEW q \in Requests, Arrive(q) PROVE Entered(r) /\ UNCHANGED call
  BY <1>0, <1>2 DEF Entered, Arrive, Goto
<1>3. ASSUME NEW q \in Requests, DbError(q) \/ RedisError(q)
      PROVE  Entered(r) /\ UNCHANGED call
  BY <1>0, <1>3 DEF Entered, DbError, RedisError, Answer, Goto
<1>4. ASSUME NEW p \in Pods, PodCrash(p) PROVE Entered(r) /\ UNCHANGED call
  BY <1>0, <1>4 DEF Entered, PodCrash
<1>5. ASSUME \/ \E a \in Alerts : Detect(a) \/ Create(a) \/ CreateError(a)
             \/ \E p \in Pods : \/ SeedRead(p) \/ SeedWrite(p) \/ ResetTruncate(p)
                               \/ FinishReset(p) \/ ResetError(p)
             \/ AllowEvent \/ RedisRestart \/ UNCHANGED vars
      PROVE  Entered(r) /\ UNCHANGED call
  <2>1. UNCHANGED <<call, pc>>
    BY <1>5 DEF Detect, Create, InsertAlert, CountCreated, MirrorCreated, CreateError,
       SeedRead, SeedWrite, ResetTruncate, FinishReset, ResetStats, ResetDeleteKeys,
       ResetMirror, ResetThreats, ResetError, AllowEvent, RedisRestart, vars
  <2> QED BY <2>1 DEF Entered
<1> QED BY <1>1, <1>2, <1>3, <1>4, <1>5 DEF Next

\* The core of the argument: with one pod, whoever changes the status of an alert
\* finds no handler at its UPDATE or its rotation.
LEMMA HandlerKnowledgeStep ==
  ASSUME OnePod, RotationInv, [Next]_vars
  PROVE  PendingAtUpdate' /\ ApprovedAtRotation'
<1>0. /\ TypeOK /\ Exclusive /\ PendingAtUpdate /\ ApprovedAtRotation /\ FreshAlerts
      /\ pc \in [Requests -> HandlerPc]
      /\ row \in [Alerts -> Status]
      /\ call \in [Requests -> [op : Decision, alert : Alerts, pod : Pods]]
      /\ resetPc \in [Pods -> {"idle"} \union ResetHeld]
  BY DEF RotationInv, QueueOrder, TypeOK
<1>1. \A r \in Requests : Entered(r) /\ call' = call
  BY <1>0, EnteredStep
<1>2. CASE UNCHANGED row
  BY <1>0, <1>1, <1>2 DEF Entered, PendingAtUpdate, ApprovedAtRotation
<1>3. ASSUME NEW a \in Alerts, InsertAlert(a)
      PROVE  PendingAtUpdate' /\ ApprovedAtRotation'
  <2>1. row[a] = "none" /\ row' = [row EXCEPT ![a] = "pending"] /\ pc' = pc
    BY <1>0, <1>3 DEF InsertAlert, FreshAlerts, handlers
  <2> QED BY <1>0, <1>1, <2>1 DEF PendingAtUpdate, ApprovedAtRotation
<1>4. ASSUME NEW r \in Requests, UpdateStatus(r)
      PROVE  PendingAtUpdate' /\ ApprovedAtRotation'
  <2>1. /\ pc[r] = "update" /\ pc' = [pc EXCEPT ![r] = "audit"]
        /\ \A a \in Alerts \ {call[r].alert} : row'[a] = row[a]
    BY <1>0, <1>4 DEF UpdateStatus, Goto
  <2>2. \A q \in Requests \ {r} : pc[q] \notin Held
    BY <1>0, <2>1 DEF Exclusive, OnePod, Held
  <2> QED BY <1>0, <1>1, <2>1, <2>2 DEF PendingAtUpdate, ApprovedAtRotation, Held
<1>5. ASSUME NEW p \in Pods, ResetTruncate(p)
      PROVE  PendingAtUpdate' /\ ApprovedAtRotation'
  <2>1. LoopFree(p) /\ pc' = pc
    BY <1>5 DEF ResetTruncate, handlers
  <2>2. \A q \in Requests : pc[q] \notin Held
    BY <1>0, <2>1 DEF LoopFree, OnePod
  <2> QED BY <2>1, <2>2 DEF PendingAtUpdate, ApprovedAtRotation, Held
<1> QED BY <1>2, <1>3, <1>4, <1>5, RowChanges

\* The alert whose credentials or result a step records is approved.
LEMMA RotationRecords ==
  ASSUME RotationInv, [Next]_vars, NEW a \in Alerts
  PROVE  \/ UNCHANGED <<userRotations[a], infraRotations[a]>>
            /\ (a \in hasResult' => a \in hasResult)
         \/ row[a] = "approved"
<1> USE DEF vaultVars, pgVars
<1>0. /\ TypeOK /\ ApprovedAtRotation
      /\ userRotations \in [Alerts -> Nat] /\ infraRotations \in [Alerts -> Nat]
  BY DEF RotationInv, QueueOrder, TypeOK
<1>1. ASSUME NEW r \in Requests, Rotate(r) \/ SetResult(r)
      PROVE  \/ UNCHANGED <<userRotations[a], infraRotations[a]>>
                /\ (a \in hasResult' => a \in hasResult)
             \/ row[a] = "approved"
  <2>1. row[call[r].alert] = "approved"
    BY <1>0, <1>1 DEF Rotate, SetResult, Goto, ApprovedAtRotation
  <2>2. CASE a = call[r].alert
    BY <2>1, <2>2
  <2>3. CASE a # call[r].alert
    BY <1>0, <1>1, <2>3 DEF Rotate, SetResult
  <2> QED BY <2>2, <2>3
<1>2. ASSUME NEW r \in Requests, Handle(r), ~ Rotate(r), ~ SetResult(r)
      PROVE  UNCHANGED <<userRotations, infraRotations, hasResult>>
  BY <1>2 DEF Handle, ReadAlert, UpdateStatus, InsertAudit, CountDecision, DecrPending,
     ClampPending, MirrorDecision, ClampCritical, ReReadAlert, Broadcast, UpdateThreat
<1>3. ASSUME NEW p \in Pods, ResetTruncate(p)
      PROVE  UNCHANGED <<userRotations, infraRotations>> /\ hasResult' = {}
  BY <1>3 DEF ResetTruncate
<1>4. ASSUME \/ \E r \in Requests : Arrive(r) \/ DbError(r) \/ RedisError(r)
             \/ \E b \in Alerts : Detect(b) \/ Create(b) \/ CreateError(b)
             \/ \E p \in Pods : \/ SeedRead(p) \/ SeedWrite(p) \/ FinishReset(p)
                               \/ ResetError(p) \/ PodCrash(p)
             \/ AllowEvent \/ RedisRestart \/ UNCHANGED vars
      PROVE  UNCHANGED <<userRotations, infraRotations, hasResult>>
  BY <1>4 DEF Arrive, DbError, RedisError, Detect, Create, InsertAlert, CountCreated,
     MirrorCreated, CreateError, SeedRead, SeedWrite, FinishReset, ResetStats,
     ResetDeleteKeys, ResetMirror, ResetThreats, ResetError, PodCrash, AllowEvent,
     RedisRestart, vars
<1> QED BY <1>1, <1>2, <1>3, <1>4 DEF Next

\* An alert only moves forward: inserted once, decided once, deleted by a reset.
LEMMA LifecycleOfRow ==
  ASSUME RotationInv, [Next]_vars, NEW a \in Alerts
  PROVE  \/ row'[a] = row[a]
         \/ row[a] = "none" /\ row'[a] = "pending"
         \/ row[a] = "pending" /\ row'[a] \in Decision
         \/ row[a] # "none" /\ row'[a] = "deleted"
<1>0. /\ TypeOK /\ PendingAtUpdate /\ FreshAlerts
      /\ row \in [Alerts -> Status]
      /\ call \in [Requests -> [op : Decision, alert : Alerts, pod : Pods]]
  BY DEF RotationInv, QueueOrder, TypeOK
<1>1. ASSUME NEW b \in Alerts, InsertAlert(b)
      PROVE  row'[a] = row[a] \/ (row[a] = "none" /\ row'[a] = "pending")
  BY <1>0, <1>1 DEF InsertAlert, FreshAlerts
<1>2. ASSUME NEW r \in Requests, UpdateStatus(r)
      PROVE  row'[a] = row[a] \/ (row[a] = "pending" /\ row'[a] \in Decision)
  BY <1>0, <1>2 DEF UpdateStatus, Goto, PendingAtUpdate, StatusOf
<1>3. ASSUME NEW p \in Pods, ResetTruncate(p)
      PROVE  row'[a] = row[a] \/ (row[a] # "none" /\ row'[a] = "deleted")
  BY <1>3 DEF ResetTruncate
<1> QED BY <1>1, <1>2, <1>3, RowChanges

\* One step keeps rotations with approved alerts: a rotation is recorded for an
\* approved alert, and an approved alert is never rejected.
LEMMA RotatedStep ==
  ASSUME RotationInv, [Next]_vars
  PROVE  RotatedWasApproved'
<1> SUFFICES ASSUME NEW a \in Alerts,
                    userRotations'[a] + infraRotations'[a] > 0 \/ a \in hasResult'
             PROVE  row'[a] \in {"approved", "deleted"}
  BY DEF RotatedWasApproved
<1>1. row[a] \in {"approved", "deleted"}
  BY RotationRecords DEF RotationInv, RotatedWasApproved
<1> QED BY <1>1, LifecycleOfRow

\* The inductive invariant survives every step, given a single pod.
LEMMA RotationStep ==
  ASSUME OnePod, RotationInv, [Next]_vars
  PROVE  RotationInv'
<1>1. TypeOK'
  BY TypeStep DEF RotationInv
<1>2. Exclusive'
  BY ExclusiveStep DEF RotationInv
<1>3. QueueOrder'
  BY OrderStep DEF RotationInv
<1> QED BY <1>1, <1>2, <1>3, HandlerKnowledgeStep, RotatedStep DEF RotationInv

\* With one pod, what a handler read of its alert still holds when it acts on it.
THEOREM RotationInvHolds == ASSUME OnePod PROVE Spec => []RotationInv
<1>1. RotationInv /\ [Next]_vars => RotationInv'
  BY RotationStep
<1> QED BY <1>1, RotationInit, PTL DEF Spec

\* One pod: what an approval rotates, or records as rotated, belongs to an alert
\* that is still approved: no rejection slips between the UPDATE and the rotation.
THEOREM OnlyApprovedRotate == ASSUME OnePod PROVE Spec => []RotatedWasApproved
<1>1. RotationInv => RotatedWasApproved
  BY DEF RotationInv
<1> QED BY <1>1, RotationInvHolds, PTL

\* One pod: a decision is never replaced by another one.
THEOREM DecisionsAreFinal == ASSUME OnePod PROVE Spec => ResolutionIsFinal
<1>1. RotationInv /\ [Next]_vars
        => [\A a \in Alerts :
              row[a] \in Decision => row'[a] \in {row[a], "deleted"}]_vars
  BY LifecycleOfRow DEF Decision
<1> QED BY <1>1, RotationInvHolds, PTL DEF Spec, ResolutionIsFinal

-----------------------------------------------------------------------------
(* The audit log and the statistics *)

Auditors(a, d) ==
  {r \in Requests : pc[r] = "audit" /\ call[r].op = d /\ call[r].alert = a}

AuditInv == faults = 0 => AuditMatchesDecision

\* The handlers of an alert and a decision at their INSERT are finitely many.
LEMMA AuditorsFinite ==
  ASSUME IsFiniteSet(Arrived), NEW a \in Alerts, NEW d \in Decision
  PROVE  IsFiniteSet(Auditors(a, d)) /\ Cardinality(Auditors(a, d)) \in Nat
<1>1. Auditors(a, d) \subseteq Arrived
  BY DEF Auditors, Arrived
<1> QED BY <1>1, FS_Subset, FS_CardinalityType

\* A step that is neither an UPDATE of the status nor an INSERT into the audit log
\* changes neither the log nor the handlers about to write to it.
LEMMA AuditQuiet ==
  ASSUME TypeOK, [Next]_vars, faults' = 0,
         ~ \E r \in Requests : UpdateStatus(r) \/ InsertAudit(r)
  PROVE  /\ UNCHANGED <<audit, call>>
         /\ \A r \in Requests : pc'[r] = "audit" <=> pc[r] = "audit"
<1> USE DEF pgVars, handlers
<1>0. pc \in [Requests -> HandlerPc]
  BY DEF TypeOK
<1>1. ASSUME NEW r \in Requests, Handle(r), ~ UpdateStatus(r), ~ InsertAudit(r)
      PROVE  /\ UNCHANGED <<audit, call>>
             /\ \A q \in Requests : pc'[q] = "audit" <=> pc[q] = "audit"
  <2>1. UNCHANGED audit /\ (pc'[r] = "audit" <=> pc[r] = "audit")
    BY <1>0, <1>1 DEF Handle, ReadAlert, CountDecision, DecrPending, ClampPending,
       MirrorDecision, ClampCritical, ReReadAlert, AfterStore, Rotate, SetResult,
       Broadcast, UpdateThreat, Answer, Goto
  <2> QED BY <1>1, <2>1, OthersStay
<1>2. ASSUME NEW r \in Requests, Arrive(r)
      PROVE  /\ UNCHANGED <<audit, call>>
             /\ \A q \in Requests : pc'[q] = "audit" <=> pc[q] = "audit"
  BY <1>0, <1>2 DEF Arrive, Goto
<1>3. ASSUME \/ \E b \in Alerts : Detect(b) \/ Create(b)
             \/ \E p \in Pods : \/ SeedRead(p) \/ SeedWrite(p) \/ ResetTruncate(p)
                               \/ FinishReset(p)
             \/ AllowEvent \/ RedisRestart \/ UNCHANGED vars
      PROVE  UNCHANGED <<audit, call, pc>>
  BY <1>3 DEF Detect, Create, InsertAlert, CountCreated, MirrorCreated, SeedRead,
     SeedWrite, ResetTruncate, KeptAudit, FinishReset, ResetStats, ResetDeleteKeys,
     ResetMirror, ResetThreats, AllowEvent, RedisRestart, vars
<1> QED BY <1>1, <1>2, <1>3, NoFaultStep DEF Next

\* One step keeps one audit entry per decision: the UPDATE finds a pending alert,
\* which has none, and its handler inserts one.
LEMMA AuditStep ==
  ASSUME OnePod, RotationInv, IsFiniteSet(Arrived), AuditInv, [Next]_vars
  PROVE  AuditInv'
<1> SUFFICES ASSUME faults' = 0, NEW a \in Alerts, NEW d \in Decision,
                    row'[a] # "deleted"
             PROVE  audit'[a][d] + Cardinality(Auditors(a, d)')
                      = IF row'[a] = d THEN 1 ELSE 0
  BY DEF AuditInv, AuditMatchesDecision, Auditors
<1>0. /\ TypeOK /\ PendingAtUpdate
      /\ row \in [Alerts -> Status] /\ pc \in [Requests -> HandlerPc]
      /\ audit \in [Alerts -> [Decision -> Nat]]
      /\ call \in [Requests -> [op : Decision, alert : Alerts, pod : Pods]]
      /\ IsFiniteSet(Auditors(a, d)) /\ Cardinality(Auditors(a, d)) \in Nat
      /\ audit[a][d] \in Nat
  BY AuditorsFinite DEF RotationInv, TypeOK
<1>1. row[a] # "deleted"
  BY <1>0, LifecycleOfRow DEF Decision
<1>2. audit[a][d] + Cardinality(Auditors(a, d)) = IF row[a] = d THEN 1 ELSE 0
  BY <1>0, <1>1, NoFaultStep DEF AuditInv, AuditMatchesDecision, Auditors
<1>3. ASSUME NEW r \in Requests, UpdateStatus(r)
      PROVE  audit'[a][d] + Cardinality(Auditors(a, d)') = IF row'[a] = d THEN 1 ELSE 0
  <2>1. /\ pc[r] = "update" /\ pc'[r] = "audit" /\ call' = call /\ audit' = audit
        /\ row[call[r].alert] = "pending"
        /\ row' = [row EXCEPT ![call[r].alert] = call[r].op]
        /\ \A q \in Requests \ {r} : pc'[q] = pc[q]
    BY <1>0, <1>3 DEF UpdateStatus, Goto, PendingAtUpdate, StatusOf
  <2>2. CASE call[r].alert = a /\ call[r].op = d
    <3>1. Auditors(a, d)' = Auditors(a, d) \union {r} /\ r \notin Auditors(a, d)
      BY <2>1, <2>2 DEF Auditors
    <3>2. Cardinality(Auditors(a, d)') = Cardinality(Auditors(a, d)) + 1
      BY <1>0, <3>1, FS_AddElement
    <3> QED BY <1>0, <1>2, <2>1, <2>2, <3>2 DEF Decision
  <2>3. CASE call[r].alert # a \/ call[r].op # d
    <3>1. Auditors(a, d)' = Auditors(a, d)
      BY <2>1, <2>3 DEF Auditors
    <3>2. row'[a] = d <=> row[a] = d
      BY <1>0, <2>1, <2>3 DEF Decision
    <3> QED BY <1>2, <2>1, <3>1, <3>2
  <2> QED BY <2>2, <2>3
<1>4. ASSUME NEW r \in Requests, InsertAudit(r)
      PROVE  audit'[a][d] + Cardinality(Auditors(a, d)') = IF row'[a] = d THEN 1 ELSE 0
  <2>1. /\ pc[r] = "audit" /\ pc'[r] = "stats" /\ call' = call /\ row' = row
        /\ audit' = [audit EXCEPT ![call[r].alert][call[r].op] = @ + 1]
        /\ \A q \in Requests \ {r} : pc'[q] = pc[q]
    BY <1>0, <1>4 DEF InsertAudit, Goto, WithEntry
  <2>2. CASE call[r].alert = a /\ call[r].op = d
    <3>1. Auditors(a, d)' = Auditors(a, d) \ {r} /\ r \in Auditors(a, d)
      BY <2>1, <2>2 DEF Auditors
    <3>2. Cardinality(Auditors(a, d)') = Cardinality(Auditors(a, d)) - 1
      BY <1>0, <3>1, FS_RemoveElement
    <3>3. audit'[a][d] = audit[a][d] + 1
      BY <1>0, <2>1, <2>2
    <3> QED BY <1>0, <1>2, <2>1, <3>2, <3>3
  <2>3. CASE call[r].alert # a \/ call[r].op # d
    <3>1. Auditors(a, d)' = Auditors(a, d)
      BY <2>1, <2>3 DEF Auditors
    <3>2. audit'[a][d] = audit[a][d]
      BY <1>0, <2>1, <2>3
    <3> QED BY <1>2, <2>1, <3>1, <3>2
  <2> QED BY <2>2, <2>3
<1>5. CASE ~ \E r \in Requests : UpdateStatus(r) \/ InsertAudit(r)
  <2>1. audit' = audit /\ Auditors(a, d)' = Auditors(a, d)
    BY <1>0, <1>5, AuditQuiet DEF Auditors
  <2>2. ASSUME NEW b \in Alerts, InsertAlert(b) PROVE row'[a] = d <=> row[a] = d
    BY <1>0, <2>2, LifecycleOfRow DEF InsertAlert, Decision
  <2>3. ASSUME NEW p \in Pods, ResetTruncate(p) PROVE row'[a] = d <=> row[a] = d
    BY <2>3 DEF ResetTruncate, Decision
  <2>4. row'[a] = d <=> row[a] = d
    BY <1>5, <2>2, <2>3, RowChanges
  <2> QED BY <1>2, <2>1, <2>4
<1> QED BY <1>3, <1>4, <1>5

\* One pod, no statement failing: the audit log has each decision exactly once, and
\* none that the alert did not get.
THEOREM AuditIsExact == ASSUME OnePod PROVE Spec => [](faults = 0 => AuditMatchesDecision)
<1>1. Init => AuditInv
  <2> SUFFICES ASSUME Init, NEW a \in Alerts, NEW d \in Decision
               PROVE  audit[a][d] + Cardinality(Auditors(a, d))
                        = IF row[a] = d THEN 1 ELSE 0
    BY DEF AuditInv, AuditMatchesDecision, Auditors
  <2>1. Auditors(a, d) = {} /\ audit[a][d] = 0 /\ row[a] # d
    BY DEF Init, Auditors, Decision
  <2> QED BY <2>1, FS_EmptySet
<1>2. RotationInv /\ IsFiniteSet(Arrived) /\ AuditInv /\ [Next]_vars => AuditInv'
  BY AuditStep
<1>3. AuditInv => (faults = 0 => AuditMatchesDecision)
  BY DEF AuditInv
<1> QED BY <1>1, <1>2, <1>3, RotationInvHolds, ArrivalsAreFinite, PTL DEF Spec

\* Alerts with a decision, and the handlers that have yet to count it.
Decided(d)  == {a \in Alerts : row[a] = d}
Counting(d) == {r \in Requests : pc[r] \in {"audit", "stats"} /\ call[r].op = d}

DecisionsCounted ==
  \A d \in Decision :
    Cardinality(Decided(d)) = stats[Total[d]] + Cardinality(Counting(d))

\* Detections that rotated nobody.
Unrotated == {a \in Alerts : maker[a] # "idle" /\ a \notin autoRotated}

AllowedCounted ==
  /\ \A a \in autoRotated : maker[a] # "idle"
  /\ stats["total_auto_allowed"] = benign + Cardinality(Unrotated)

StatsInv ==
  faults = 0 /\ resets = 0 =>
    /\ \A p \in Pods : resetPc[p] = "idle"
    /\ DecisionsCounted
    /\ AllowedCounted

\* What a step does before any fault or reset.
LEMMA StatsSteps ==
  ASSUME TypeOK, StatsInv, [Next]_vars, faults' = 0, resets' = 0
  PROVE  /\ faults = 0 /\ resets = 0 /\ UNCHANGED resetPc
         /\ \/ AllowEvent
            \/ \E a \in Alerts : Detect(a) \/ Create(a)
            \/ \E r \in Requests : Arrive(r) \/ Handle(r)
            \/ \E p \in Pods : SeedRead(p) \/ SeedWrite(p)
            \/ RedisRestart \/ UNCHANGED vars
<1> USE DEF budget
<1>1. ASSUME NEW p \in Pods, ResetTruncate(p) PROVE FALSE
  BY <1>1 DEF ResetTruncate, TypeOK
<1>2. ASSUME \/ AllowEvent
             \/ \E a \in Alerts : Detect(a) \/ Create(a)
             \/ \E r \in Requests : Arrive(r) \/ Handle(r)
             \/ \E p \in Pods : SeedRead(p) \/ SeedWrite(p)
             \/ RedisRestart \/ UNCHANGED vars
      PROVE  UNCHANGED <<resets, resetPc>>
  BY <1>2 DEF AllowEvent, Detect, Create, InsertAlert, CountCreated, MirrorCreated,
     Arrive, Handle, ReadAlert, UpdateStatus, InsertAudit, CountDecision, DecrPending,
     ClampPending, MirrorDecision, ClampCritical, ReReadAlert, Rotate, SetResult,
     Broadcast, UpdateThreat, SeedRead, SeedWrite, RedisRestart, vars
<1>3. ASSUME NEW p \in Pods, FinishReset(p) PROVE resets' = resets /\ resetPc[p] # "idle"
  BY <1>3 DEF FinishReset, ResetStats, ResetDeleteKeys, ResetMirror, ResetThreats,
     ResetGoto
<1>4. ~ \E p \in Pods : ResetTruncate(p)
  BY <1>1
<1>5. ~ \E p \in Pods : FinishReset(p)
  BY <1>3, NoFaultStep DEF StatsInv
<1> QED BY <1>2, <1>4, <1>5, NoFaultStep DEF Next

\* One step keeps the decided alerts counted.
LEMMA DecisionsCountedStep ==
  ASSUME OnePod, RotationInv, IsFiniteSet(Arrived), DecisionsCounted, StatsInv,
         [Next]_vars, faults' = 0, resets' = 0
  PROVE  DecisionsCounted'
<1> USE DEF handlers, pgVars
<1> SUFFICES ASSUME NEW d \in Decision
             PROVE  Cardinality(Decided(d)') = stats'[Total[d]] + Cardinality(Counting(d)')
  BY DEF DecisionsCounted
<1>0. /\ TypeOK /\ PendingAtUpdate
      /\ row \in [Alerts -> Status] /\ pc \in [Requests -> HandlerPc]
      /\ stats \in [Columns -> Nat]
      /\ call \in [Requests -> [op : Decision, alert : Alerts, pod : Pods]]
      /\ Total[d] \in Columns /\ Total[d] \in {"total_approved", "total_rejected"}
  BY DEF RotationInv, TypeOK, Total, Decision, Columns
<1>1. /\ IsFiniteSet(Decided(d)) /\ Cardinality(Decided(d)) \in Nat
      /\ IsFiniteSet(Counting(d)) /\ Cardinality(Counting(d)) \in Nat
  <2>1. Decided(d) \subseteq Alerts /\ Counting(d) \subseteq Arrived
    BY DEF Decided, Counting, Arrived
  <2> QED BY <2>1, ConstantsOK, FS_Subset, FS_CardinalityType
<1>2. /\ Cardinality(Decided(d)) = stats[Total[d]] + Cardinality(Counting(d))
      /\ stats[Total[d]] \in Nat
  BY <1>0 DEF DecisionsCounted
<1>3. ASSUME NEW r \in Requests, UpdateStatus(r)
      PROVE  Cardinality(Decided(d)') = stats'[Total[d]] + Cardinality(Counting(d)')
  <2>1. /\ pc[r] = "update" /\ pc'[r] = "audit" /\ call' = call /\ stats' = stats
        /\ row[call[r].alert] = "pending" /\ call[r].alert \in Alerts
        /\ row' = [row EXCEPT ![call[r].alert] = call[r].op]
        /\ \A q \in Requests \ {r} : pc'[q] = pc[q]
    BY <1>0, <1>3 DEF UpdateStatus, Goto, PendingAtUpdate, StatusOf
  <2>2. CASE call[r].op = d
    <3>1. /\ Counting(d)' = Counting(d) \union {r} /\ r \notin Counting(d)
          /\ Decided(d)' = Decided(d) \union {call[r].alert}
          /\ call[r].alert \notin Decided(d)
      BY <1>0, <2>1, <2>2 DEF Counting, Decided, Decision
    <3>2. /\ Cardinality(Counting(d)') = Cardinality(Counting(d)) + 1
          /\ Cardinality(Decided(d)') = Cardinality(Decided(d)) + 1
      BY <1>1, <3>1, FS_AddElement
    <3> QED BY <1>1, <1>2, <2>1, <3>2
  <2>3. CASE call[r].op # d
    <3>1. Counting(d)' = Counting(d) /\ Decided(d)' = Decided(d)
      BY <1>0, <2>1, <2>3 DEF Counting, Decided, Decision
    <3> QED BY <1>2, <2>1, <3>1
  <2> QED BY <2>2, <2>3
<1>4. ASSUME NEW r \in Requests, CountDecision(r)
      PROVE  Cardinality(Decided(d)') = stats'[Total[d]] + Cardinality(Counting(d)')
  <2>1. /\ pc[r] = "stats" /\ pc'[r] = "decr" /\ call' = call
        /\ stats' = [stats EXCEPT ![Total[call[r].op]] = @ + 1]
        /\ Decided(d)' = Decided(d) /\ call[r].op \in Decision
        /\ \A q \in Requests \ {r} : pc'[q] = pc[q]
    BY <1>0, <1>4, StatIsTotal DEF CountDecision, Goto, Decided
  <2>2. CASE call[r].op = d
    <3>1. Counting(d)' = Counting(d) \ {r} /\ r \in Counting(d)
      BY <2>1, <2>2 DEF Counting
    <3>2. Cardinality(Counting(d)') = Cardinality(Counting(d)) - 1
      BY <1>1, <3>1, FS_RemoveElement
    <3>3. stats'[Total[d]] = stats[Total[d]] + 1
      BY <1>0, <2>1, <2>2
    <3> QED BY <1>1, <1>2, <2>1, <3>2, <3>3
  <2>3. CASE call[r].op # d
    <3>1. Counting(d)' = Counting(d)
      BY <2>1, <2>3 DEF Counting
    <3>2. stats'[Total[d]] = stats[Total[d]]
      BY <1>0, <2>1, <2>3 DEF Total, Decision
    <3> QED BY <1>2, <2>1, <3>1, <3>2
  <2> QED BY <2>2, <2>3
<1>5. ASSUME NEW r \in Requests, Arrive(r) \/ Handle(r),
             ~ UpdateStatus(r), ~ CountDecision(r)
      PROVE  UNCHANGED stats /\ Counting(d)' = Counting(d)
  <2>1. /\ UNCHANGED stats
        /\ pc'[r] \in {"audit", "stats"} <=> pc[r] \in {"audit", "stats"}
    BY <1>0, <1>5 DEF Arrive, Handle, ReadAlert, AfterStore, InsertAudit, DecrPending,
       ClampPending, MirrorDecision, ClampCritical, ReReadAlert, Rotate, SetResult,
       Broadcast, UpdateThreat, Answer, Goto
  <2> QED BY <1>0, <1>5, <2>1, OthersStay DEF Counting
<1>6. ASSUME \/ \E b \in Alerts : Detect(b) \/ Create(b)
             \/ \E p \in Pods : SeedRead(p) \/ SeedWrite(p)
             \/ AllowEvent \/ RedisRestart \/ UNCHANGED vars
      PROVE  stats'[Total[d]] = stats[Total[d]] /\ UNCHANGED <<call, pc>>
  BY <1>0, <1>6 DEF Detect, CountAutoAllowed, Create, InsertAlert, CountCreated,
     MirrorCreated, SeedRead, SeedWrite, AllowEvent, RedisRestart, vars
<1>7. CASE ~ \E r \in Requests : UpdateStatus(r) \/ CountDecision(r)
  <2>1. stats'[Total[d]] = stats[Total[d]] /\ Counting(d)' = Counting(d)
    BY <1>0, <1>5, <1>6, <1>7, StatsSteps DEF Counting
  <2>2. ASSUME NEW b \in Alerts, InsertAlert(b) PROVE Decided(d)' = Decided(d)
    BY <1>0, <2>2 DEF RotationInv, QueueOrder, FreshAlerts, InsertAlert, Decided, Decision
  <2>3. ASSUME NEW p \in Pods, ResetTruncate(p) PROVE FALSE
    BY <1>0, <2>3 DEF ResetTruncate, TypeOK
  <2>4. Decided(d)' = Decided(d)
    BY <1>7, <2>2, <2>3, RowChanges DEF Decided
  <2> QED BY <1>2, <2>1, <2>4
<1> QED BY <1>3, <1>4, <1>7

\* One step keeps the detections that rotated nobody counted as allowed.
LEMMA AllowedCountedStep ==
  ASSUME TypeOK, AllowedCounted, StatsInv, [Next]_vars, faults' = 0, resets' = 0
  PROVE  AllowedCounted'
<1> USE DEF handlers, pgVars, vaultVars, budget
<1>0. /\ maker \in [Alerts -> {"idle", "insert", "count", "mirror", "done"}]
      /\ stats \in [Columns -> Nat] /\ benign \in Nat
      /\ autoRotated \subseteq Alerts /\ "total_auto_allowed" \in Columns
  BY DEF TypeOK, Columns
<1>1. IsFiniteSet(Unrotated) /\ Cardinality(Unrotated) \in Nat
  <2>1. Unrotated \subseteq Alerts
    BY DEF Unrotated
  <2> QED BY <2>1, ConstantsOK, FS_Subset, FS_CardinalityType
<1>2. CASE AllowEvent
  BY <1>0, <1>1, <1>2 DEF AllowEvent, CountAutoAllowed, AllowedCounted, Unrotated
<1>3. ASSUME NEW a \in Alerts, Detect(a) PROVE AllowedCounted'
  <2>1. /\ maker[a] = "idle" /\ maker' = [maker EXCEPT ![a] = "insert"]
        /\ a \notin autoRotated /\ benign' = benign
    BY <1>3 DEF Detect, AllowedCounted
  <2>2. CASE autoRotated' = autoRotated \union {a} /\ stats' = stats
    <3>1. Unrotated' = Unrotated
      BY <1>0, <2>1, <2>2 DEF Unrotated
    <3> QED BY <1>0, <2>1, <2>2, <3>1 DEF AllowedCounted
  <2>3. CASE autoRotated' = autoRotated /\ CountAutoAllowed
    <3>1. Unrotated' = Unrotated \union {a} /\ a \notin Unrotated
      BY <1>0, <2>1, <2>3 DEF Unrotated
    <3>2. Cardinality(Unrotated') = Cardinality(Unrotated) + 1
      BY <1>1, <3>1, FS_AddElement
    <3>3. stats'["total_auto_allowed"] = stats["total_auto_allowed"] + 1
      BY <1>0, <2>3 DEF CountAutoAllowed
    <3> QED BY <1>0, <1>1, <2>1, <2>3, <3>2, <3>3 DEF AllowedCounted
  <2> QED BY <1>3, <2>2, <2>3 DEF Detect
<1>4. ASSUME NEW a \in Alerts, Create(a) PROVE AllowedCounted'
  <2>1. /\ \A b \in Alerts : maker'[b] # "idle" <=> maker[b] # "idle"
        /\ stats'["total_auto_allowed"] = stats["total_auto_allowed"]
        /\ UNCHANGED <<autoRotated, benign>>
    BY <1>0, <1>4 DEF Create, InsertAlert, CountCreated, MirrorCreated
  <2> QED BY <1>0, <2>1 DEF AllowedCounted, Unrotated
<1>5. ASSUME NEW r \in Requests, Arrive(r) \/ Handle(r) PROVE AllowedCounted'
  <2>1. UNCHANGED <<maker, autoRotated, benign>>
    BY <1>5 DEF Arrive, Handle, ReadAlert, UpdateStatus, InsertAudit, CountDecision,
       DecrPending, ClampPending, MirrorDecision, ClampCritical, ReReadAlert, Rotate,
       SetResult, Broadcast, UpdateThreat
  <2>2. stats'["total_auto_allowed"] = stats["total_auto_allowed"]
    BY <1>0, <1>5 DEF Arrive, Handle, ReadAlert, UpdateStatus, InsertAudit,
       CountDecision, StatOf, DecrPending, ClampPending, MirrorDecision, ClampCritical,
       ReReadAlert, Rotate, SetResult, Broadcast, UpdateThreat
  <2> QED BY <2>1, <2>2 DEF AllowedCounted, Unrotated
<1>6. ASSUME \/ \E p \in Pods : SeedRead(p) \/ SeedWrite(p)
             \/ RedisRestart \/ UNCHANGED vars
      PROVE  AllowedCounted'
  BY <1>6 DEF SeedRead, SeedWrite, RedisRestart, vars, AllowedCounted, Unrotated
<1> QED BY <1>2, <1>3, <1>4, <1>5, <1>6, StatsSteps DEF Create

\* One pod, before any fault or reset: the statistics count alerts, not clicks, and a
\* detection is counted as allowed exactly if it rotated nobody.
THEOREM StatsAreExact ==
  ASSUME OnePod PROVE Spec => [](faults = 0 /\ resets = 0 => StatsMatchDecisions)
<1>1. Init => StatsInv
  <2> SUFFICES ASSUME Init PROVE StatsInv
    OBVIOUS
  <2>1. /\ \A d \in Decision : Decided(d) = {} /\ Counting(d) = {}
        /\ Unrotated = {} /\ autoRotated = {} /\ benign = 0
        /\ \A p \in Pods : resetPc[p] = "idle"
    BY DEF Init, Decided, Counting, Unrotated, Decision
  <2>2. /\ \A d \in Decision : stats[Total[d]] = 0
        /\ stats["total_auto_allowed"] = 0
    BY DEF Init, Total, Decision, Columns
  <2> QED BY <2>1, <2>2, FS_EmptySet DEF StatsInv, DecisionsCounted, AllowedCounted
<1>2. RotationInv /\ IsFiniteSet(Arrived) /\ StatsInv /\ [Next]_vars => StatsInv'
  <2> SUFFICES ASSUME RotationInv, IsFiniteSet(Arrived), StatsInv, [Next]_vars,
                      faults' = 0, resets' = 0
               PROVE  /\ \A p \in Pods : resetPc'[p] = "idle"
                      /\ DecisionsCounted' /\ AllowedCounted'
    BY DEF StatsInv
  <2>1. TypeOK
    BY DEF RotationInv
  <2>2. /\ \A p \in Pods : resetPc'[p] = "idle"
        /\ DecisionsCounted /\ AllowedCounted
    BY <2>1, StatsSteps DEF StatsInv
  <2> QED BY <2>1, <2>2, DecisionsCountedStep, AllowedCountedStep
<1>3. StatsInv => (faults = 0 /\ resets = 0 => StatsMatchDecisions)
  BY DEF StatsInv, DecisionsCounted, AllowedCounted, StatsMatchDecisions, Decided,
     Counting, Unrotated
<1> QED BY <1>1, <1>2, <1>3, RotationInvHolds, ArrivalsAreFinite, PTL DEF Spec

-----------------------------------------------------------------------------
(* Refinement *)

RotatedAlerts == {a \in Alerts : userRotations[a] + infraRotations[a] > 0}

\* The queue starts as the abstract lifecycle does.
LEMMA RefinementInit == Init => Lifecycle!Init
  BY DEF Init, Lifecycle!Init

\* Every step of the queue is a step of the abstract lifecycle or a stutter.
LEMMA RefinementStep ==
  ASSUME RotationInv, [Next]_vars
  PROVE  [Lifecycle!Next]_(Lifecycle!vars)
<1> USE DEF vaultVars, pgVars
<1>0. /\ TypeOK /\ PendingAtUpdate /\ FreshAlerts /\ ApprovedAtRotation
      /\ row \in [Alerts -> Status]
      /\ call \in [Requests -> [op : Decision, alert : Alerts, pod : Pods]]
      /\ userRotations \in [Alerts -> Nat] /\ infraRotations \in [Alerts -> Nat]
  BY DEF RotationInv, QueueOrder, TypeOK
<1>1. ASSUME NEW a \in Alerts, InsertAlert(a) PROVE Lifecycle!Raise(a)
  BY <1>0, <1>1 DEF InsertAlert, FreshAlerts, Lifecycle!Raise
<1>2. ASSUME NEW r \in Requests, UpdateStatus(r)
      PROVE  Lifecycle!Decide(call[r].alert, call[r].op)
  BY <1>0, <1>2 DEF UpdateStatus, Goto, PendingAtUpdate, StatusOf, Lifecycle!Decide
<1>3. ASSUME NEW r \in Requests, Rotate(r), NEW a \in Alerts, a = call[r].alert
      PROVE  Lifecycle!Rotate(a) \/ UNCHANGED Lifecycle!vars
  <2>1. row[a] = "approved" /\ row' = row
    BY <1>0, <1>3 DEF Rotate, Goto, ApprovedAtRotation
  <2>2. \A b \in Alerts \ {a} : /\ userRotations'[b] = userRotations[b]
                               /\ infraRotations'[b] = infraRotations[b]
    BY <1>0, <1>3 DEF Rotate
  <2>3. /\ userRotations'[a] \in {userRotations[a], userRotations[a] + 1}
        /\ infraRotations'[a] \in {infraRotations[a], infraRotations[a] + 1}
    BY <1>0, <1>3, <2>1 DEF Rotate
  <2>4. RotatedAlerts' \in {RotatedAlerts, RotatedAlerts \union {a}}
    BY <1>0, <2>1, <2>2, <2>3 DEF RotatedAlerts
  <2> QED BY <2>1, <2>4 DEF RotatedAlerts, Lifecycle!Rotate, Lifecycle!vars
<1>4. ASSUME NEW p \in Pods, ResetTruncate(p) PROVE Lifecycle!Wipe
  BY <1>4 DEF ResetTruncate, Lifecycle!Wipe
<1>5. ASSUME UNCHANGED row, UNCHANGED <<userRotations, infraRotations>>
      PROVE  UNCHANGED Lifecycle!vars
  BY <1>5 DEF Lifecycle!vars
<1>6. CASE \/ \E a \in Alerts : InsertAlert(a)
           \/ \E r \in Requests : UpdateStatus(r) \/ Rotate(r)
           \/ \E p \in Pods : ResetTruncate(p)
  <2>1. ASSUME NEW a \in Alerts, InsertAlert(a) PROVE Lifecycle!Next
    BY <1>1, <2>1 DEF Lifecycle!Next
  <2>2. ASSUME NEW r \in Requests, UpdateStatus(r) PROVE Lifecycle!Next
    BY <1>0, <1>2, <2>2 DEF Lifecycle!Next, Decision
  <2>3. ASSUME NEW r \in Requests, Rotate(r)
        PROVE  Lifecycle!Next \/ UNCHANGED Lifecycle!vars
    <3>1. PICK a \in Alerts : a = call[r].alert
      BY <1>0
    <3>2. Lifecycle!Rotate(a) \/ UNCHANGED Lifecycle!vars
      BY <1>3, <2>3, <3>1
    <3>3. ASSUME Lifecycle!Rotate(a) PROVE Lifecycle!Next
      BY <3>3 DEF Lifecycle!Next
    <3> QED BY <3>2, <3>3
  <2>4. ASSUME NEW p \in Pods, ResetTruncate(p) PROVE Lifecycle!Next
    BY <1>4, <2>4 DEF Lifecycle!Next
  <2> QED BY <1>6, <2>1, <2>2, <2>3, <2>4
<1>7. CASE ~ \/ \E a \in Alerts : InsertAlert(a)
             \/ \E r \in Requests : UpdateStatus(r) \/ Rotate(r)
             \/ \E p \in Pods : ResetTruncate(p)
  <2>1. UNCHANGED row
    BY <1>7, RowChanges
  <2>2. UNCHANGED <<userRotations, infraRotations>>
    BY <1>7 DEF Next, Handle, ReadAlert, InsertAudit, CountDecision, DecrPending,
       ClampPending, MirrorDecision, ClampCritical, ReReadAlert, SetResult, Broadcast,
       UpdateThreat, Arrive, DbError, RedisError, Detect, Create, CountCreated,
       MirrorCreated, CreateError, SeedRead, SeedWrite, FinishReset, ResetStats,
       ResetDeleteKeys, ResetMirror, ResetThreats, ResetError, PodCrash, AllowEvent,
       RedisRestart, vars
  <2> QED BY <1>5, <2>1, <2>2
<1> QED BY <1>6, <1>7

\* One pod: the handlers, the reset, the faults and the crashes implement the
\* lifecycle that AlertLifecycle promises.
THEOREM ImplementsLifecycle == ASSUME OnePod PROVE Spec => LifecycleSpec
<1>1. RotationInv /\ [Next]_vars => [Lifecycle!Next]_(Lifecycle!vars)
  BY RefinementStep
<1> QED BY <1>1, RefinementInit, RotationInvHolds, PTL
        DEF Spec, LifecycleSpec, Lifecycle!Spec
=============================================================================
