--------------------------- MODULE AdminAlertsProofs ---------------------------
(***************************************************************************)
(* Theorems about AdminAlerts, for any set of alerts, calls and pods.      *)
(***************************************************************************)
EXTENDS AdminAlerts, FiniteSetTheorems, TLAPS

-----------------------------------------------------------------------------
(* Type correctness *)

\* What get_stats reads from PostgreSQL are counts: a natural number per statistic.
LEMMA PgStatsType ==
  ASSUME TypeOK
  PROVE  PgStats \in [Fields -> Nat]
<1>1. /\ IsFiniteSet(Pending) /\ IsFiniteSet(Existing)
      /\ IsFiniteSet(Pending \intersect Critical)
  <2>1. /\ Pending \subseteq Alerts /\ Existing \subseteq Alerts
        /\ Pending \intersect Critical \subseteq Alerts
    BY DEF Pending, Existing
  <2> QED BY <2>1, ConstantsOK, FS_Subset
<1>2. /\ Cardinality(Pending) \in Nat /\ Cardinality(Existing) \in Nat
      /\ Cardinality(Pending \intersect Critical) \in Nat
  BY <1>1, FS_CardinalityType
<1>3. \A f \in Fields \ {"pending_count", "critical_pending", "total_alerts"} :
        f \in Columns /\ stats[f] \in Nat
  BY DEF TypeOK, Fields, Columns
<1> QED BY <1>2, <1>3 DEF PgStats, Fields

\* The initial state is well typed.
LEMMA TypeInit == Init => TypeOK
<1> SUFFICES ASSUME Init PROVE TypeOK
  OBVIOUS
<1>1. ZeroFields \in [Fields -> Nat] /\ ZeroFields \in [Fields -> Int]
  BY DEF ZeroFields
<1> QED
  BY <1>1, ConstantsOK DEF Init, TypeOK, Status, HandlerPc, ResetHeld

\* A handler that goes to a known point stays at a known point.
LEMMA GotoType ==
  ASSUME pc \in [Requests -> HandlerPc], NEW r \in Requests, NEW from,
         NEW to \in HandlerPc, Goto(r, from, to)
  PROVE  pc' \in [Requests -> HandlerPc]
BY DEF Goto

\* Every handler, detection, reset and fault step keeps the types.
LEMMA TypeStep == TypeOK /\ [Next]_vars => TypeOK'
<1> SUFFICES ASSUME TypeOK, [Next]_vars PROVE TypeOK'
  OBVIOUS
<1> USE DEF TypeOK, pgVars, redisVars, vaultVars, handlers, seedVars, budget
<1>1. CASE AllowEvent
  BY <1>1 DEF AllowEvent, CountAutoAllowed, Incr, Columns, Fields
<1>2. ASSUME NEW a \in Alerts, Detect(a) PROVE TypeOK'
  <2>1. /\ maker' \in [Alerts -> {"idle", "insert", "count", "mirror", "done"}]
        /\ es' \in [Alerts -> {"none", "open"} \union Decision]
        /\ autoRotated' \subseteq Alerts
    BY <1>2 DEF Detect
  <2>2. stats' \in [Columns -> Nat]
    BY <1>2 DEF Detect, CountAutoAllowed, Columns
  <2>3. mirror' \in [Fields -> Int] /\ keys' \subseteq Fields
    <3>1. CASE CountAutoAllowed
      BY <3>1 DEF CountAutoAllowed, Incr, Fields
    <3>2. CASE UNCHANGED <<stats, mirror, keys>>
      BY <3>2
    <3> QED BY <1>2, <3>1, <3>2 DEF Detect
  <2>4. UNCHANGED <<row, hasResult, audit, userRotations, infraRotations, handlers,
                    resetPc, seedVars, budget>>
    BY <1>2 DEF Detect
  <2> QED BY <2>1, <2>2, <2>3, <2>4
<1>3. ASSUME NEW a \in Alerts, Create(a) PROVE TypeOK'
  <2>1. CASE InsertAlert(a)
    BY <2>1 DEF InsertAlert, Status
  <2>2. CASE CountCreated(a)
    BY <2>2 DEF CountCreated, Columns
  <2>3. CASE MirrorCreated(a)
    BY <2>3 DEF MirrorCreated, Fields
  <2> QED BY <1>3, <2>1, <2>2, <2>3 DEF Create
<1>4. ASSUME NEW a \in Alerts, CreateError(a) PROVE TypeOK'
  BY <1>4 DEF CreateError
<1>5. ASSUME NEW r \in Requests, Arrive(r) PROVE TypeOK'
  BY <1>5 DEF Arrive, Goto, HandlerPc, Held
<1>6. ASSUME NEW r \in Requests, Handle(r) PROVE TypeOK'
  <2>0. call[r].alert \in Alerts /\ call[r].op \in Decision /\ call[r].pod \in Pods
    OBVIOUS
  <2>1. AfterStore(r) \in HandlerPc
    BY DEF AfterStore, HandlerPc, Held
  <2>2. CASE ReadAlert(r)
    BY <2>1, <2>2 DEF ReadAlert, Goto, HandlerPc, Held
  <2>3. CASE UpdateStatus(r)
    BY <2>0, <2>3 DEF UpdateStatus, Goto, StatusOf, HandlerPc, Held, Status
  <2>4. CASE InsertAudit(r)
    BY <2>0, <2>4 DEF InsertAudit, Goto, WithEntry, HandlerPc, Held
  <2>5. CASE CountDecision(r)
    BY <2>0, <2>5 DEF CountDecision, Goto, StatOf, HandlerPc, Held, Columns
  <2>6. CASE DecrPending(r)
    BY <2>6 DEF DecrPending, Goto, Decr, HandlerPc, Held, Fields
  <2>7. CASE ClampPending(r)
    BY <2>7 DEF ClampPending, Goto, HandlerPc, Held, Fields
  <2>8. CASE MirrorDecision(r)
    BY <2>8 DEF MirrorDecision, Goto, Decr, Incr, StatOf, HandlerPc, Held, Fields
  <2>9. CASE ClampCritical(r)
    BY <2>9 DEF ClampCritical, Goto, HandlerPc, Held, Fields
  <2>10. CASE ReReadAlert(r)
    BY <2>1, <2>10 DEF ReReadAlert, Goto, HandlerPc, Held
  <2>11. CASE Rotate(r)
    BY <2>0, <2>11 DEF Rotate, Goto, HandlerPc, Held
  <2>12. CASE SetResult(r)
    BY <2>0, <2>12 DEF SetResult, Goto, HandlerPc, Held
  <2>13. CASE Broadcast(r)
    BY <2>13 DEF Broadcast, Goto, HandlerPc
  <2>14. CASE UpdateThreat(r)
    BY <2>0, <2>14 DEF UpdateThreat, Answer, Goto, HandlerPc
  <2> QED BY <1>6, <2>2, <2>3, <2>4, <2>5, <2>6, <2>7, <2>8, <2>9, <2>10, <2>11,
             <2>12, <2>13, <2>14 DEF Handle
<1>7. ASSUME NEW r \in Requests, DbError(r) PROVE TypeOK'
  <2>1. pc \in [Requests -> HandlerPc]
        /\ reply \in [Requests -> {"none", "ok", "resolved", "notFound", "lost"}]
    BY DEF TypeOK
  <2>2. "done" \in HandlerPc /\ "broadcast" \in HandlerPc
    BY DEF HandlerPc, Held
  <2>3. CASE Answer(r, pc[r], "notFound")
    <3>1. Goto(r, pc[r], "done") /\ reply' = [reply EXCEPT ![r] = "notFound"]
      BY <2>3 DEF Answer
    <3>2. pc' \in [Requests -> HandlerPc]
      BY <2>1, <2>2, <3>1, GotoType
    <3>3. reply' \in [Requests -> {"none", "ok", "resolved", "notFound", "lost"}]
      BY <2>1, <3>1
    <3> QED BY <1>7, <3>2, <3>3 DEF DbError
  <2>4. CASE Goto(r, "result", "broadcast") /\ UNCHANGED reply
    <3>1. pc' \in [Requests -> HandlerPc]
      BY <2>1, <2>2, <2>4, GotoType
    <3> QED BY <1>7, <2>4, <3>1 DEF DbError
  <2> QED BY <1>7, <2>3, <2>4 DEF DbError
<1>8. ASSUME NEW r \in Requests, RedisError(r) PROVE TypeOK'
  <2>1. "incr" \in HandlerPc /\ "reread" \in HandlerPc /\ pc \in [Requests -> HandlerPc]
    BY DEF TypeOK, HandlerPc, Held
  <2>2. \E from \in {"decr", "clamp", "incr", "clampCritical"}, to \in {"incr", "reread"} :
          Goto(r, from, to)
    BY <1>8 DEF RedisError
  <2>3. pc' \in [Requests -> HandlerPc]
    BY <2>1, <2>2, GotoType
  <2> QED BY <1>8, <2>3 DEF RedisError
<1>9. ASSUME NEW p \in Pods, ResetTruncate(p) PROVE TypeOK'
  BY <1>9 DEF ResetTruncate, ResetGoto, KeptAudit, Status, ResetHeld
<1>10. ASSUME NEW p \in Pods, FinishReset(p) PROVE TypeOK'
  <2>1. ZeroFields \in [Fields -> Int]
    BY DEF ZeroFields
  <2>2. CASE ResetStats(p)
    BY <2>2 DEF ResetStats, ResetGoto, ResetHeld, Columns
  <2>3. CASE ResetDeleteKeys(p)
    BY <2>1, <2>3 DEF ResetDeleteKeys, ResetGoto, ResetHeld
  <2>4. CASE ResetMirror(p)
    BY <2>1, <2>4 DEF ResetMirror, ResetGoto, ResetHeld
  <2>5. CASE ResetThreats(p)
    BY <2>5 DEF ResetThreats, ResetGoto, ResetHeld
  <2> QED BY <1>10, <2>2, <2>3, <2>4, <2>5 DEF FinishReset
<1>11. ASSUME NEW p \in Pods, ResetError(p) PROVE TypeOK'
  BY <1>11 DEF ResetError, ResetGoto
<1>12. ASSUME NEW p \in Pods, SeedRead(p) PROVE TypeOK'
  BY <1>12, PgStatsType DEF SeedRead
<1>13. ASSUME NEW p \in Pods, SeedWrite(p) PROVE TypeOK'
  <2>1. ZeroFields \in [Fields -> Nat]
    BY DEF ZeroFields
  <2> QED BY <1>13, <2>1 DEF SeedWrite
<1>14. ASSUME NEW p \in Pods, PodCrash(p) PROVE TypeOK'
  BY <1>14 DEF PodCrash, HandlerPc
<1>15. CASE RedisRestart
  <2>1. ZeroFields \in [Fields -> Int]
    BY DEF ZeroFields
  <2> QED BY <1>15, <2>1 DEF RedisRestart
<1>16. CASE UNCHANGED vars
  BY <1>16 DEF vars
<1> QED BY <1>1, <1>2, <1>3, <1>4, <1>5, <1>6, <1>7, <1>8, <1>9, <1>10, <1>11, <1>12,
           <1>13, <1>14, <1>15, <1>16 DEF Next

\* Every variable of the alert queue keeps its type, whatever the bounds.
THEOREM TypeCorrect == Spec => []TypeOK
  BY TypeInit, TypeStep, PTL DEF Spec

-----------------------------------------------------------------------------
(* The order of an alert's life, kept by every pod *)

\* No step but these three touches the status of an alert.
LEMMA RowChanges ==
  ASSUME [Next]_vars
  PROVE  \/ \E a \in Alerts : InsertAlert(a)
         \/ \E r \in Requests : UpdateStatus(r)
         \/ \E p \in Pods : ResetTruncate(p)
         \/ UNCHANGED row
<1> USE DEF pgVars
<1>1. ASSUME NEW r \in Requests, Handle(r), ~ UpdateStatus(r) PROVE UNCHANGED row
  BY <1>1 DEF Handle, ReadAlert, InsertAudit, CountDecision, DecrPending, ClampPending,
     MirrorDecision, ClampCritical, ReReadAlert, Rotate, SetResult, Broadcast,
     UpdateThreat
<1>2. ASSUME NEW r \in Requests, Arrive(r) \/ DbError(r) \/ RedisError(r)
      PROVE  UNCHANGED row
  BY <1>2 DEF Arrive, DbError, RedisError
<1>3. ASSUME NEW a \in Alerts, Detect(a) \/ Create(a) \/ CreateError(a), ~ InsertAlert(a)
      PROVE  UNCHANGED row
  BY <1>3 DEF Detect, Create, CountCreated, MirrorCreated, CreateError
<1>4. ASSUME NEW p \in Pods, FinishReset(p) \/ ResetError(p) \/ SeedRead(p)
                             \/ SeedWrite(p) \/ PodCrash(p)
      PROVE  UNCHANGED row
  BY <1>4 DEF FinishReset, ResetStats, ResetDeleteKeys, ResetMirror, ResetThreats,
     ResetError, SeedRead, SeedWrite, PodCrash
<1>5. ASSUME AllowEvent \/ RedisRestart \/ UNCHANGED vars PROVE UNCHANGED row
  BY <1>5 DEF AllowEvent, RedisRestart, vars
<1> QED BY <1>1, <1>2, <1>3, <1>4, <1>5 DEF Next

\* How the handler of one call moves the others: not at all.
LEMMA OthersStay ==
  ASSUME TypeOK, NEW r \in Requests, Handle(r) \/ Arrive(r)
  PROVE  /\ \A q \in Requests \ {r} : pc'[q] = pc[q]
         /\ UNCHANGED <<call, maker>>
  BY DEF TypeOK, handlers, Handle, Arrive, ReadAlert, UpdateStatus, InsertAudit, CountDecision,
     DecrPending, ClampPending, MirrorDecision, ClampCritical, ReReadAlert, Rotate,
     SetResult, Broadcast, UpdateThreat, Answer, Goto

\* A step after which no fault has happened is not one.
LEMMA NoFaultStep ==
  ASSUME TypeOK, [Next]_vars, faults' = 0
  PROVE  /\ faults = 0
         /\ ~ \E r \in Requests : DbError(r) \/ RedisError(r)
         /\ ~ \E b \in Alerts : CreateError(b)
         /\ ~ \E p \in Pods : ResetError(p) \/ PodCrash(p)
<1> USE DEF budget
<1>0. faults \in Nat
  BY DEF TypeOK
<1>1. ASSUME \/ \E r \in Requests : DbError(r) \/ RedisError(r)
             \/ \E b \in Alerts : CreateError(b)
             \/ \E p \in Pods : ResetError(p) \/ PodCrash(p)
      PROVE  FALSE
  BY <1>0, <1>1 DEF DbError, RedisError, CreateError, ResetError, PodCrash
<1>2. ASSUME \/ AllowEvent
             \/ \E a \in Alerts : Detect(a) \/ Create(a)
             \/ \E r \in Requests : Arrive(r) \/ Handle(r)
             \/ \E p \in Pods : \/ ResetTruncate(p) \/ FinishReset(p)
                               \/ SeedRead(p) \/ SeedWrite(p)
             \/ RedisRestart \/ UNCHANGED vars
      PROVE  UNCHANGED faults
  BY <1>2 DEF AllowEvent, Detect, Create, InsertAlert, CountCreated, MirrorCreated,
     Arrive, Handle, ReadAlert, UpdateStatus, InsertAudit, CountDecision, DecrPending,
     ClampPending, MirrorDecision, ClampCritical, ReReadAlert, Rotate, SetResult,
     Broadcast, UpdateThreat, ResetTruncate, FinishReset, ResetStats, ResetDeleteKeys,
     ResetMirror, ResetThreats, SeedRead, SeedWrite, RedisRestart, vars
<1> QED BY <1>1, <1>2 DEF Next

\* A call comes for an alert that was inserted.
ArrivedHaveRow == \A r \in Requests : pc[r] # "new" => row[call[r].alert] # "none"

\* An alert that is still to be inserted has no row.
FreshAlerts == \A a \in Alerts : maker[a] \in {"idle", "insert"} => row[a] = "none"

\* Points of a handler that come after a decision on its alert: its own UPDATE or
\* the status it read.
AfterDecision == {"audit", "stats", "decr", "clamp", "incr", "clampCritical", "reread",
                  "rotate", "result", "broadcast", "es"}

\* A handler past its decision finds its alert decided, or deleted by a reset.
DecidedBehind ==
  \A r \in Requests : pc[r] \in AfterDecision
                        => row[call[r].alert] \in Decision \union {"deleted"}

QueueOrder == ArrivedHaveRow /\ FreshAlerts /\ DecidedBehind /\ ThreatNotAheadOfAlert

\* Before the first alert there is nothing to be out of order.
LEMMA OrderInit == Init => QueueOrder
  BY DEF Init, QueueOrder, ArrivedHaveRow, FreshAlerts, DecidedBehind, AfterDecision,
     ThreatNotAheadOfAlert, Decision

\* How a step moves the handler of one call: it reads the alert first, and gets
\* past the decision by its own UPDATE or by reading a decided alert.
LEMMA HandlerMoves ==
  ASSUME TypeOK, QueueOrder, [Next]_vars, NEW r \in Requests
  PROVE  /\ call' = call
         /\ pc'[r] # "new" => row[call[r].alert] # "none"
         /\ pc'[r] \in AfterDecision =>
              \/ pc[r] \in AfterDecision
              \/ UpdateStatus(r)
              \/ row[call[r].alert] \in Decision
<1> USE DEF handlers
<1> DEFINE Fine == /\ call' = call
                   /\ pc'[r] # "new" => row[call[r].alert] # "none"
                   /\ pc'[r] \in AfterDecision =>
                        \/ pc[r] \in AfterDecision
                        \/ UpdateStatus(r)
                        \/ row[call[r].alert] \in Decision
<1>0. /\ pc \in [Requests -> HandlerPc]
      /\ row \in [Alerts -> Status]
      /\ call \in [Requests -> [op : Decision, alert : Alerts, pod : Pods]]
      /\ ArrivedHaveRow
  BY DEF TypeOK, QueueOrder
<1>1. CASE UNCHANGED <<call, pc>>
  BY <1>0, <1>1 DEF ArrivedHaveRow
<1>2. ASSUME NEW q \in Requests, Handle(q) \/ Arrive(q), q # r PROVE Fine
  BY <1>0, <1>2, OthersStay DEF ArrivedHaveRow
<1>3. CASE Arrive(r)
  BY <1>0, <1>3 DEF Arrive, Goto, AfterDecision
<1>4. CASE ReadAlert(r)
  <2>1. row[call[r].alert] # "none" /\ pc[r] = "read" /\ row[call[r].alert] \in Status
    BY <1>0, <1>4 DEF ReadAlert, Goto, ArrivedHaveRow
  <2> QED BY <1>0, <1>4, <2>1 DEF ReadAlert, Goto, AfterDecision, StillPending, Status
<1>5. ASSUME Handle(r), ~ ReadAlert(r) PROVE Fine
  <2>1. pc[r] # "new" /\ row[call[r].alert] # "none"
    BY <1>0, <1>5 DEF Handle, ReadAlert, UpdateStatus, InsertAudit, CountDecision,
       DecrPending, ClampPending, MirrorDecision, ClampCritical, ReReadAlert, Rotate,
       SetResult, Broadcast, UpdateThreat, Answer, Goto, ArrivedHaveRow
  <2>2. call' = call
    BY <1>5, OthersStay
  <2>3. pc[r] \in AfterDecision \/ UpdateStatus(r)
    BY <1>0, <1>5 DEF Handle, ReadAlert, InsertAudit, CountDecision, DecrPending,
       ClampPending, MirrorDecision, ClampCritical, ReReadAlert, Rotate, SetResult,
       Broadcast, UpdateThreat, Answer, Goto, AfterDecision
  <2> QED BY <2>1, <2>2, <2>3
<1>6. ASSUME NEW q \in Requests, DbError(q) \/ RedisError(q) PROVE Fine
  BY <1>0, <1>6 DEF DbError, RedisError, Answer, Goto, ArrivedHaveRow, AfterDecision
<1>7. ASSUME NEW p \in Pods, PodCrash(p) PROVE Fine
  BY <1>0, <1>7 DEF PodCrash, ArrivedHaveRow, AfterDecision
<1>8. ASSUME \/ \E a \in Alerts : Detect(a) \/ Create(a) \/ CreateError(a)
             \/ \E p \in Pods : \/ SeedRead(p) \/ SeedWrite(p) \/ ResetTruncate(p)
                               \/ FinishReset(p) \/ ResetError(p)
             \/ AllowEvent \/ RedisRestart \/ UNCHANGED vars
      PROVE  UNCHANGED <<call, pc>>
  BY <1>8 DEF Detect, Create, InsertAlert, CountCreated, MirrorCreated, CreateError,
     SeedRead, SeedWrite, ResetTruncate, FinishReset, ResetStats, ResetDeleteKeys,
     ResetMirror, ResetThreats, ResetError, AllowEvent, RedisRestart, vars
<1> QED BY <1>1, <1>2, <1>3, <1>4, <1>5, <1>6, <1>7, <1>8 DEF Next

\* No step returns a detection to a point before its INSERT.
LEMMA MakersAdvance ==
  ASSUME TypeOK, [Next]_vars, NEW a \in Alerts, maker'[a] \in {"idle", "insert"}
  PROVE  maker[a] \in {"idle", "insert"} /\ ~ InsertAlert(a)
<1> USE DEF handlers
<1>0. maker \in [Alerts -> {"idle", "insert", "count", "mirror", "done"}]
  BY DEF TypeOK
<1>1. ASSUME NEW b \in Alerts, Detect(b) \/ Create(b) \/ CreateError(b)
      PROVE  maker[a] \in {"idle", "insert"}
  BY <1>0, <1>1 DEF Detect, Create, InsertAlert, CountCreated, MirrorCreated, CreateError
<1>2. ASSUME NEW p \in Pods, PodCrash(p) PROVE maker[a] \in {"idle", "insert"}
  BY <1>0, <1>2 DEF PodCrash
<1>3. ASSUME NEW r \in Requests, Arrive(r) \/ Handle(r) PROVE UNCHANGED maker
  BY <1>3, OthersStay
<1>4. ASSUME \/ \E r \in Requests : DbError(r) \/ RedisError(r)
             \/ \E p \in Pods : \/ SeedRead(p) \/ SeedWrite(p) \/ ResetTruncate(p)
                               \/ FinishReset(p) \/ ResetError(p)
             \/ AllowEvent \/ RedisRestart \/ UNCHANGED vars
      PROVE  UNCHANGED maker
  BY <1>4 DEF DbError, RedisError, SeedRead, SeedWrite, ResetTruncate, FinishReset,
     ResetStats, ResetDeleteKeys, ResetMirror, ResetThreats, ResetError, AllowEvent,
     RedisRestart, vars
<1>5. ~ InsertAlert(a)
  BY <1>0 DEF InsertAlert
<1> QED BY <1>1, <1>2, <1>3, <1>4, <1>5 DEF Next

\* An alert with a row keeps one, and one that is decided or deleted stays so: the
\* INSERT of an alert finds no row, whichever pod updates what meanwhile.
LEMMA RowsAdvance ==
  ASSUME TypeOK, QueueOrder, [Next]_vars, NEW a \in Alerts
  PROVE  /\ row[a] # "none" => row'[a] # "none"
         /\ row[a] \in Decision \union {"deleted"} => row'[a] \in Decision \union {"deleted"}
<1>0. /\ row \in [Alerts -> Status] /\ FreshAlerts
      /\ call \in [Requests -> [op : Decision, alert : Alerts, pod : Pods]]
  BY DEF TypeOK, QueueOrder
<1>1. ASSUME NEW b \in Alerts, InsertAlert(b)
      PROVE  row'[a] = row[a] \/ (row[a] = "none" /\ row'[a] = "pending")
  BY <1>0, <1>1 DEF InsertAlert, FreshAlerts
<1>2. ASSUME NEW r \in Requests, UpdateStatus(r)
      PROVE  row'[a] = row[a] \/ row'[a] \in Decision
  BY <1>0, <1>2 DEF UpdateStatus, StatusOf
<1>3. ASSUME NEW p \in Pods, ResetTruncate(p)
      PROVE  row'[a] = IF row[a] = "none" THEN "none" ELSE "deleted"
  BY <1>3 DEF ResetTruncate
<1> QED BY <1>1, <1>2, <1>3, RowChanges DEF Decision

\* Every step keeps the order, whatever the pods do.
LEMMA OrderStep ==
  ASSUME TypeOK, QueueOrder, [Next]_vars
  PROVE  QueueOrder'
<1>0. /\ row \in [Alerts -> Status]
      /\ pc \in [Requests -> HandlerPc]
      /\ call \in [Requests -> [op : Decision, alert : Alerts, pod : Pods]]
      /\ ArrivedHaveRow /\ FreshAlerts /\ DecidedBehind /\ ThreatNotAheadOfAlert
  BY DEF TypeOK, QueueOrder
<1>1. ArrivedHaveRow'
  BY <1>0, HandlerMoves, RowsAdvance DEF ArrivedHaveRow
<1>2. FreshAlerts'
  <2> SUFFICES ASSUME NEW a \in Alerts, maker'[a] \in {"idle", "insert"}
               PROVE  row'[a] = "none"
    BY DEF FreshAlerts
  <2>1. row[a] = "none" /\ ~ InsertAlert(a)
    BY <1>0, MakersAdvance DEF FreshAlerts
  <2>2. ASSUME NEW b \in Alerts, InsertAlert(b) PROVE row'[a] = row[a]
    BY <1>0, <2>1, <2>2 DEF InsertAlert
  <2>3. ASSUME NEW r \in Requests, UpdateStatus(r) PROVE row'[a] = row[a]
    BY <1>0, <2>1, <2>3 DEF UpdateStatus, Goto, ArrivedHaveRow
  <2>4. ASSUME NEW p \in Pods, ResetTruncate(p) PROVE row'[a] = row[a]
    BY <2>1, <2>4 DEF ResetTruncate
  <2> QED BY <2>1, <2>2, <2>3, <2>4, RowChanges
<1>3. ASSUME NEW r \in Requests, UpdateStatus(r)
      PROVE  row'[call[r].alert] \in Decision \union {"deleted"}
  BY <1>0, <1>3 DEF UpdateStatus, StatusOf
<1>4. DecidedBehind'
  <2> SUFFICES ASSUME NEW r \in Requests, pc'[r] \in AfterDecision
               PROVE  row'[call'[r].alert] \in Decision \union {"deleted"}
    BY DEF DecidedBehind
  <2>1. call' = call /\ call[r].alert \in Alerts
    BY <1>0, HandlerMoves
  <2>2. CASE UpdateStatus(r)
    BY <1>3, <2>1, <2>2 DEF UpdateStatus, Goto
  <2>3. CASE row[call[r].alert] \in Decision \union {"deleted"}
    BY <2>1, <2>3, RowsAdvance
  <2> QED BY <1>0, <2>1, <2>2, <2>3, HandlerMoves DEF DecidedBehind
<1>5. ThreatNotAheadOfAlert'
  <2> SUFFICES ASSUME NEW a \in Alerts, es'[a] \in Decision
               PROVE  row'[a] \in Decision \union {"deleted"}
    BY DEF ThreatNotAheadOfAlert
  <2>1. \/ es[a] \in Decision
        \/ \E r \in Requests : pc[r] = "es" /\ call[r].alert = a
    <3> USE DEF pgVars, Decision
    <3>0. es \in [Alerts -> {"none", "open"} \union Decision]
      BY DEF TypeOK
    <3>1. ASSUME NEW r \in Requests, UpdateThreat(r)
          PROVE  es[a] \in Decision \/ (pc[r] = "es" /\ call[r].alert = a)
      BY <3>0, <3>1 DEF UpdateThreat, Answer, Goto
    <3>2. ASSUME NEW r \in Requests, Handle(r), ~ UpdateThreat(r) PROVE UNCHANGED es
      BY <3>2 DEF Handle, ReadAlert, UpdateStatus, InsertAudit, CountDecision,
         DecrPending, ClampPending, MirrorDecision, ClampCritical, ReReadAlert, Rotate,
         SetResult, Broadcast
    <3>3. ASSUME NEW b \in Alerts, Detect(b) PROVE es[a] \in Decision
      BY <3>0, <3>3 DEF Detect
    <3>4. ASSUME NEW p \in Pods, ResetThreats(p) PROVE FALSE
      BY <3>4 DEF ResetThreats
    <3>5. ASSUME \/ \E r \in Requests : Arrive(r) \/ DbError(r) \/ RedisError(r)
                 \/ \E b \in Alerts : Create(b) \/ CreateError(b)
                 \/ \E p \in Pods : \/ SeedRead(p) \/ SeedWrite(p) \/ ResetTruncate(p)
                                   \/ (FinishReset(p) /\ ~ ResetThreats(p))
                                   \/ ResetError(p) \/ PodCrash(p)
                 \/ AllowEvent \/ RedisRestart \/ UNCHANGED vars
          PROVE  UNCHANGED es
      BY <3>5 DEF Arrive, DbError, RedisError, Create, InsertAlert, CountCreated,
         MirrorCreated, CreateError, SeedRead, SeedWrite, ResetTruncate, FinishReset,
         ResetStats, ResetDeleteKeys, ResetMirror, ResetError, PodCrash, AllowEvent,
         RedisRestart, vars
    <3> QED BY <3>1, <3>2, <3>3, <3>4, <3>5 DEF Next
  <2>2. row[a] \in Decision \union {"deleted"}
    BY <1>0, <2>1 DEF DecidedBehind, AfterDecision, ThreatNotAheadOfAlert
  <2> QED BY <2>2, RowsAdvance
<1> QED BY <1>1, <1>2, <1>4, <1>5 DEF QueueOrder

\* Every pod finds the order kept.
THEOREM OrderInvariant == Spec => []QueueOrder
<1>1. TypeOK /\ QueueOrder /\ [Next]_vars => QueueOrder'
  BY OrderStep
<1> QED BY <1>1, OrderInit, TypeCorrect, PTL DEF Spec

\* For any number of pods, and with faults, crashes and resets: Elasticsearch never
\* shows a resolution for an alert that still waits in PostgreSQL.
THEOREM ThreatsFollowAlerts == Spec => []ThreatNotAheadOfAlert
<1>1. QueueOrder => ThreatNotAheadOfAlert
  BY DEF QueueOrder
<1> QED BY <1>1, OrderInvariant, PTL

-----------------------------------------------------------------------------
(* The audit log *)

\* One step never lowers the number of audit entries of an alert.
LEMMA NextKeepsAudit ==
  ASSUME TypeOK, [Next]_vars, NEW a \in Alerts, NEW d \in Decision
  PROVE  audit'[a][d] >= audit[a][d]
<1>1. audit[a][d] \in Nat
  BY DEF TypeOK
<1>2. CASE \E r \in Requests : InsertAudit(r)
  BY <1>1, <1>2 DEF InsertAudit, WithEntry, TypeOK
<1>3. CASE UNCHANGED audit
  BY <1>1, <1>3
<1>4. (\E r \in Requests : InsertAudit(r)) \/ UNCHANGED audit
  <2> USE DEF pgVars
  <2>1. ASSUME NEW r \in Requests, Handle(r), ~ InsertAudit(r) PROVE UNCHANGED audit
    BY <2>1 DEF Handle, ReadAlert, UpdateStatus, CountDecision, DecrPending,
       ClampPending, MirrorDecision, ClampCritical, ReReadAlert, Rotate, SetResult,
       Broadcast, UpdateThreat
  <2>2. ASSUME NEW r \in Requests, Arrive(r) \/ DbError(r) \/ RedisError(r)
        PROVE  UNCHANGED audit
    BY <2>2 DEF Arrive, DbError, RedisError
  <2>3. ASSUME NEW b \in Alerts, Detect(b) \/ Create(b) \/ CreateError(b)
        PROVE  UNCHANGED audit
    BY <2>3 DEF Detect, Create, InsertAlert, CountCreated, MirrorCreated, CreateError
  <2>4. ASSUME NEW p \in Pods,
               ResetTruncate(p) \/ FinishReset(p) \/ ResetError(p)
        PROVE  UNCHANGED audit
    BY <2>4 DEF ResetTruncate, KeptAudit, FinishReset, ResetStats, ResetDeleteKeys,
       ResetMirror, ResetThreats, ResetError
  <2>5. ASSUME NEW p \in Pods, SeedRead(p) \/ SeedWrite(p) \/ PodCrash(p)
        PROVE  UNCHANGED audit
    BY <2>5 DEF SeedRead, SeedWrite, PodCrash
  <2>6. ASSUME AllowEvent \/ RedisRestart \/ UNCHANGED vars PROVE UNCHANGED audit
    BY <2>6 DEF AllowEvent, RedisRestart, vars
  <2> QED BY <2>1, <2>2, <2>3, <2>4, <2>5, <2>6 DEF Next
<1> QED BY <1>2, <1>3, <1>4

\* No step removes an audit entry: not the reset, which truncates the alerts, and
\* no interleaving of handlers, faults or crashes.
THEOREM AuditIsAppendOnly == Spec => AuditAppendOnly
<1>1. TypeOK /\ [Next]_vars
        => [\A a \in Alerts, d \in Decision : audit'[a][d] >= audit[a][d]]_vars
  BY NextKeepsAudit
<1> QED BY <1>1, TypeCorrect, PTL DEF Spec, AuditAppendOnly

\* Steps that keep every running INSERT into the audit log running.
AuditersStay == \A r \in Requests : pc[r] = "audit" => pc'[r] = "audit"

\* One step keeps decided alerts covered by the audit log: the UPDATE of a status
\* leaves its handler at the INSERT, and only that INSERT takes it away.
LEMMA CoverageStep ==
  ASSUME TypeOK, AuditCoversStatus, [Next]_vars
  PROVE  AuditCoversStatus'
<1> SUFFICES ASSUME faults' = 0, NEW a \in Alerts, row'[a] \in Decision
             PROVE  \/ audit'[a][row'[a]] > 0
                    \/ \E r \in Requests : pc'[r] = "audit" /\ call'[r].op = row'[a]
                                             /\ call'[r].alert = a
  BY DEF AuditCoversStatus
<1> USE DEF pgVars, handlers, budget
<1>0. faults \in Nat /\ audit \in [Alerts -> [Decision -> Nat]]
      /\ row \in [Alerts -> Status] /\ pc \in [Requests -> HandlerPc]
      /\ call \in [Requests -> [op : Decision, alert : Alerts, pod : Pods]]
  BY DEF TypeOK
<1>1. CASE row'[a] = row[a] /\ UNCHANGED <<audit, call, faults>> /\ AuditersStay
  BY <1>0, <1>1 DEF AuditCoversStatus, AuditersStay
<1>2. ASSUME NEW r \in Requests, UpdateStatus(r)
      PROVE  \/ row'[a] = row[a] /\ UNCHANGED <<audit, call, faults>> /\ AuditersStay
             \/ pc'[r] = "audit" /\ call'[r].op = row'[a] /\ call'[r].alert = a
  BY <1>0, <1>2 DEF UpdateStatus, Goto, StatusOf, Decision, AuditersStay
<1>3. ASSUME NEW r \in Requests, InsertAudit(r)
      PROVE  \/ audit'[a][row'[a]] > 0
             \/ \E q \in Requests : pc'[q] = "audit" /\ call'[q].op = row'[a]
                                      /\ call'[q].alert = a
  <2>1. /\ row' = row /\ call' = call /\ faults = 0
        /\ audit' = [audit EXCEPT ![call[r].alert][call[r].op] = @ + 1]
        /\ \A q \in Requests \ {r} : pc'[q] = pc[q]
    BY <1>0, <1>3 DEF InsertAudit, Goto, WithEntry
  <2>2. audit'[a][row[a]] >= audit[a][row[a]]
    BY <2>1, NextKeepsAudit
  <2>3. CASE audit[a][row[a]] > 0
    BY <1>0, <2>1, <2>2, <2>3
  <2>4. CASE \E q \in Requests : pc[q] = "audit" /\ call[q].op = row[a]
                                  /\ call[q].alert = a
    <3>1. PICK q \in Requests : pc[q] = "audit" /\ call[q].op = row[a]
                                /\ call[q].alert = a
      BY <2>4
    <3>2. CASE q = r
      BY <1>0, <2>1, <3>1, <3>2
    <3>3. CASE q # r
      BY <2>1, <3>1, <3>3
    <3> QED BY <3>2, <3>3
  <2> QED BY <2>1, <2>3, <2>4 DEF AuditCoversStatus
<1>4. ASSUME NEW r \in Requests, Handle(r), ~ UpdateStatus(r), ~ InsertAudit(r)
      PROVE  row'[a] = row[a] /\ UNCHANGED <<audit, call, faults>> /\ AuditersStay
  BY <1>0, <1>4 DEF Handle, ReadAlert, CountDecision, DecrPending, ClampPending,
     MirrorDecision, ClampCritical, ReReadAlert, Rotate, SetResult, Broadcast,
     UpdateThreat, Answer, Goto, AuditersStay
<1>5. ASSUME NEW r \in Requests, Arrive(r)
      PROVE  row'[a] = row[a] /\ UNCHANGED <<audit, call, faults>> /\ AuditersStay
  BY <1>0, <1>5 DEF Arrive, Goto, AuditersStay
<1>6. ASSUME NEW b \in Alerts, Detect(b) \/ Create(b)
      PROVE  row'[a] = row[a] /\ UNCHANGED <<audit, call, faults>> /\ AuditersStay
  BY <1>0, <1>6 DEF Detect, Create, InsertAlert, CountCreated, MirrorCreated, Decision,
     AuditersStay
<1>7. ASSUME NEW p \in Pods, FinishReset(p) \/ SeedRead(p) \/ SeedWrite(p)
      PROVE  row'[a] = row[a] /\ UNCHANGED <<audit, call, faults>> /\ AuditersStay
  BY <1>7 DEF FinishReset, ResetStats, ResetDeleteKeys, ResetMirror, ResetThreats,
     SeedRead, SeedWrite, AuditersStay
<1>8. ASSUME NEW p \in Pods, ResetTruncate(p) PROVE FALSE
  BY <1>8 DEF ResetTruncate, Decision
<1>9. ASSUME AllowEvent \/ RedisRestart \/ UNCHANGED vars
      PROVE  row'[a] = row[a] /\ UNCHANGED <<audit, call, faults>> /\ AuditersStay
  BY <1>9 DEF AllowEvent, RedisRestart, vars, AuditersStay
<1>10. ASSUME \/ \E r \in Requests : DbError(r) \/ RedisError(r)
              \/ \E b \in Alerts : CreateError(b)
              \/ \E p \in Pods : ResetError(p) \/ PodCrash(p)
       PROVE  FALSE
  BY <1>0, <1>10 DEF DbError, RedisError, CreateError, ResetError, PodCrash
<1> QED BY <1>1, <1>2, <1>3, <1>4, <1>5, <1>6, <1>7, <1>8, <1>9, <1>10 DEF Next

\* For any number of pods: the decision an alert carries is in the audit log or
\* about to be, as long as no statement fails and no pod dies.
THEOREM DecisionsAreAudited == Spec => []AuditCoversStatus
<1>1. Init => AuditCoversStatus
  BY DEF Init, AuditCoversStatus, Decision
<1>2. TypeOK /\ AuditCoversStatus /\ [Next]_vars => AuditCoversStatus'
  BY CoverageStep
<1> QED BY <1>1, <1>2, TypeCorrect, PTL DEF Spec

\* A decision on the alert is in the audit log or about to be.
Covered(a) ==
  \/ \E d \in Decision : audit[a][d] > 0
  \/ \E q \in Requests : pc[q] = "audit" /\ call[q].alert = a

\* An alert that is covered stays so: the handler at its INSERT leaves an entry.
LEMMA CoveredStays ==
  ASSUME TypeOK, [Next]_vars, faults' = 0, NEW a \in Alerts, Covered(a)
  PROVE  Covered(a)'
<1> USE DEF handlers, budget
<1>0. /\ pc \in [Requests -> HandlerPc] /\ faults \in Nat
      /\ audit \in [Alerts -> [Decision -> Nat]]
      /\ call \in [Requests -> [op : Decision, alert : Alerts, pod : Pods]]
  BY DEF TypeOK
<1>1. CASE \E d \in Decision : audit[a][d] > 0
  <2>1. PICK d \in Decision : audit[a][d] > 0
    BY <1>1
  <2>2. audit'[a][d] >= audit[a][d]
    BY NextKeepsAudit
  <2>3. audit'[a][d] \in Nat
    BY TypeStep DEF TypeOK
  <2> QED BY <1>0, <2>1, <2>2, <2>3 DEF Covered
<1>2. ASSUME NEW q \in Requests, pc[q] = "audit", call[q].alert = a
      PROVE  Covered(a)'
  <2>1. CASE InsertAudit(q)
    <3>1. audit'[a][call[q].op] = audit[a][call[q].op] + 1 /\ call[q].op \in Decision
      BY <1>0, <1>2, <2>1 DEF InsertAudit, WithEntry
    <3> QED BY <1>0, <3>1 DEF Covered
  <2>2. CASE call' = call /\ pc'[q] = "audit"
    BY <1>2, <2>2 DEF Covered
  <2>3. ASSUME NEW r \in Requests, Handle(r) \/ Arrive(r)
        PROVE  InsertAudit(q) \/ (call' = call /\ pc'[q] = "audit")
    <3>1. CASE r # q
      BY <1>2, <2>3, <3>1, OthersStay
    <3>2. CASE r = q
      BY <1>0, <1>2, <2>3, <3>2 DEF Handle, Arrive, ReadAlert, UpdateStatus,
         CountDecision, DecrPending, ClampPending, MirrorDecision, ClampCritical,
         ReReadAlert, Rotate, SetResult, Broadcast, UpdateThreat, Answer, Goto
    <3> QED BY <3>1, <3>2
  <2>4. ASSUME \/ \E b \in Alerts : Detect(b) \/ Create(b)
               \/ \E p \in Pods : \/ SeedRead(p) \/ SeedWrite(p) \/ ResetTruncate(p)
                                 \/ FinishReset(p)
               \/ AllowEvent \/ RedisRestart \/ UNCHANGED vars
        PROVE  UNCHANGED <<call, pc>>
    BY <2>4 DEF Detect, Create, InsertAlert, CountCreated, MirrorCreated, SeedRead,
       SeedWrite, ResetTruncate, FinishReset, ResetStats, ResetDeleteKeys, ResetMirror,
       ResetThreats, AllowEvent, RedisRestart, vars
  <2> QED BY <1>2, <2>1, <2>2, <2>3, <2>4, NoFaultStep DEF Next
<1> QED BY <1>1, <1>2 DEF Covered

\* While no statement fails, every handler past its decision, and every admin who
\* was told that a decision succeeded, finds the alert covered by the audit log.
AnswersCovered ==
  faults = 0 => \A r \in Requests :
    pc[r] \in AfterDecision \/ reply[r] = "ok" => Covered(call[r].alert)

\* A handler answers "ok" after its decision only.
LEMMA AnswersMove ==
  ASSUME TypeOK, [Next]_vars, faults' = 0, NEW r \in Requests, reply'[r] = "ok"
  PROVE  reply[r] = "ok" \/ pc[r] = "es"
<1> USE DEF handlers, budget
<1>0. /\ reply \in [Requests -> {"none", "ok", "resolved", "notFound", "lost"}]
      /\ pc \in [Requests -> HandlerPc]
  BY DEF TypeOK
<1>1. ASSUME NEW q \in Requests, Handle(q) PROVE reply[r] = "ok" \/ pc[r] = "es"
  BY <1>0, <1>1 DEF Handle, ReadAlert, UpdateStatus, InsertAudit, CountDecision,
     DecrPending, ClampPending, MirrorDecision, ClampCritical, ReReadAlert, Rotate,
     SetResult, Broadcast, UpdateThreat, Answer, Goto
<1>2. ASSUME \/ \E q \in Requests : Arrive(q)
             \/ \E b \in Alerts : Detect(b) \/ Create(b)
             \/ \E p \in Pods : \/ SeedRead(p) \/ SeedWrite(p) \/ ResetTruncate(p)
                               \/ FinishReset(p)
             \/ AllowEvent \/ RedisRestart \/ UNCHANGED vars
      PROVE  UNCHANGED reply
  BY <1>2 DEF Arrive, Detect, Create, InsertAlert, CountCreated, MirrorCreated,
     SeedRead, SeedWrite, ResetTruncate, FinishReset, ResetStats, ResetDeleteKeys,
     ResetMirror, ResetThreats, AllowEvent, RedisRestart, vars
<1> QED BY <1>1, <1>2, NoFaultStep DEF Next

\* One step keeps decisions and answers covered: the handler that reads a decided
\* alert finds that decision in the log or another handler at its INSERT.
LEMMA AnswersStep ==
  ASSUME TypeOK, QueueOrder, AuditCoversStatus, AnswersCovered, [Next]_vars
  PROVE  AnswersCovered'
<1> SUFFICES ASSUME faults' = 0, NEW r \in Requests, NEW a \in Alerts,
                    a = call[r].alert, pc'[r] \in AfterDecision \/ reply'[r] = "ok"
             PROVE  Covered(a)'
  <2>1. \A r \in Requests : call'[r] = call[r] /\ call[r].alert \in Alerts
    BY HandlerMoves DEF TypeOK
  <2> QED BY <2>1 DEF AnswersCovered, Covered
<1>1. faults = 0
  BY NoFaultStep
<1>2. CASE UpdateStatus(r)
  <2>1. pc'[r] = "audit" /\ call' = call
    BY <1>2, HandlerMoves DEF UpdateStatus, Goto, TypeOK
  <2> QED BY <2>1 DEF Covered
<1>3. CASE Covered(a)
  BY <1>3, CoveredStays
<1>4. CASE row[a] \in Decision
  <2>1. Covered(a)
    BY <1>1, <1>4 DEF AuditCoversStatus, Covered
  <2> QED BY <1>3, <2>1
<1>5. pc[r] \in AfterDecision \/ reply[r] = "ok" => Covered(a)
  BY <1>1 DEF AnswersCovered
<1>6. pc[r] = "es" => pc[r] \in AfterDecision
  BY DEF AfterDecision
<1> QED BY <1>2, <1>3, <1>4, <1>5, <1>6, HandlerMoves, AnswersMove

\* For any number of pods: an admin told that a decision succeeded finds one in the
\* audit log, or a handler about to insert it, as long as no statement fails.
THEOREM AnswersAreAudited == Spec => []AuditCoversAnswer
<1>1. Init => AnswersCovered
  BY DEF Init, AnswersCovered, AfterDecision
<1>2. TypeOK /\ QueueOrder /\ AuditCoversStatus /\ AnswersCovered /\ [Next]_vars
        => AnswersCovered'
  BY AnswersStep
<1>3. AnswersCovered => AuditCoversAnswer
  BY DEF AnswersCovered, AuditCoversAnswer, Covered
<1> QED BY <1>1, <1>2, <1>3, TypeCorrect, OrderInvariant, DecisionsAreAudited, PTL DEF Spec

-----------------------------------------------------------------------------
(* Redis against PostgreSQL *)

Arrived == {r \in Requests : pc[r] # "new"}

\* At any time finitely many calls have arrived, however many there may be.
THEOREM ArrivalsAreFinite == Spec => []IsFiniteSet(Arrived)
<1>1. Init => IsFiniteSet(Arrived)
  <2> SUFFICES ASSUME Init PROVE IsFiniteSet(Arrived)
    OBVIOUS
  <2>1. Arrived = {}
    BY DEF Init, Arrived
  <2> QED BY <2>1, FS_EmptySet
<1>2. TypeOK /\ IsFiniteSet(Arrived) /\ [Next]_vars => IsFiniteSet(Arrived)'
  <2> SUFFICES ASSUME TypeOK, IsFiniteSet(Arrived), [Next]_vars
               PROVE  IsFiniteSet(Arrived')
    OBVIOUS
  <2> USE DEF handlers
  <2>0. pc \in [Requests -> HandlerPc]
    BY DEF TypeOK
  <2>1. ASSUME NEW r \in Requests, Arrive(r) \/ Handle(r) PROVE IsFiniteSet(Arrived')
    <3>1. Arrived' \subseteq Arrived \union {r}
      BY <2>1, OthersStay DEF Arrived
    <3>2. IsFiniteSet(Arrived \union {r})
      BY FS_AddElement
    <3> QED BY <3>1, <3>2, FS_Subset
  <2>2. ASSUME NEW r \in Requests, DbError(r) \/ RedisError(r)
        PROVE  Arrived' \subseteq Arrived
    BY <2>0, <2>2 DEF DbError, RedisError, Answer, Goto, Arrived
  <2>3. ASSUME NEW p \in Pods, PodCrash(p) PROVE Arrived' \subseteq Arrived
    BY <2>0, <2>3 DEF PodCrash, Arrived
  <2>4. ASSUME \/ \E b \in Alerts : Detect(b) \/ Create(b) \/ CreateError(b)
               \/ \E p \in Pods : \/ SeedRead(p) \/ SeedWrite(p) \/ ResetTruncate(p)
                                 \/ FinishReset(p) \/ ResetError(p)
               \/ AllowEvent \/ RedisRestart \/ UNCHANGED vars
        PROVE  UNCHANGED pc
    BY <2>4 DEF Detect, Create, InsertAlert, CountCreated, MirrorCreated, CreateError,
       SeedRead, SeedWrite, ResetTruncate, FinishReset, ResetStats, ResetDeleteKeys,
       ResetMirror, ResetThreats, ResetError, AllowEvent, RedisRestart, vars
  <2>5. Arrived' \subseteq Arrived => IsFiniteSet(Arrived')
    BY FS_Subset
  <2>6. UNCHANGED pc => Arrived' \subseteq Arrived
    BY DEF Arrived
  <2> QED BY <2>1, <2>2, <2>3, <2>4, <2>5, <2>6 DEF Next
<1> QED BY <1>1, <1>2, TypeCorrect, PTL DEF Spec

\* Decisions counted in PostgreSQL whose INCR of Redis is outstanding, and alerts
\* counted as created there and not yet here.
Uncounted(d) == {r \in Requests : pc[r] \in {"decr", "clamp", "incr"} /\ call[r].op = d}
Unmirrored == {a \in Alerts : maker[a] = "mirror"}

Undisturbed == WarmMirror /\ faults = 0 /\ resets = 0 /\ restarts = 0

\* Nothing but the handlers and the detections writes to Redis: the keys exist, so
\* no get_stats seeds them, and no reset runs.
NoOtherWriter ==
  /\ keys = Fields
  /\ \A p \in Pods : seedPc[p] = "idle" /\ resetPc[p] = "idle"

Mirrored ==
  /\ \A d \in Decision :
       mirror[Total[d]] + Cardinality(Uncounted(d)) = stats[Total[d]]
  /\ mirror["total_alerts_created"] + Cardinality(Unmirrored)
       = stats["total_alerts_created"]

MirrorInv == Undisturbed => NoOtherWriter /\ Mirrored

\* The initial keys are warm or the statement is empty.
LEMMA MirrorInit == Init => MirrorInv
<1> SUFFICES ASSUME Init, WarmMirror PROVE NoOtherWriter /\ Mirrored
  BY DEF MirrorInv, Undisturbed
<1>1. NoOtherWriter
  BY DEF Init, NoOtherWriter
<1>2. Unmirrored = {} /\ \A d \in Decision : Uncounted(d) = {}
  BY DEF Init, Unmirrored, Uncounted
<1>3. /\ \A d \in Decision : mirror[Total[d]] = 0 /\ stats[Total[d]] = 0
      /\ mirror["total_alerts_created"] = 0 /\ stats["total_alerts_created"] = 0
  BY DEF Init, ZeroFields, Total, Decision, Fields, Columns
<1> QED BY <1>1, <1>2, <1>3, FS_EmptySet DEF Mirrored

\* What an undisturbed step is.
LEMMA UndisturbedStep ==
  ASSUME TypeOK, MirrorInv, [Next]_vars, Undisturbed'
  PROVE  /\ Undisturbed /\ NoOtherWriter
         /\ \/ \E a \in Alerts : Detect(a) \/ Create(a)
            \/ \E r \in Requests : Arrive(r) \/ Handle(r)
            \/ AllowEvent \/ UNCHANGED vars
<1> USE DEF budget
<1>0. /\ faults \in Nat /\ resets \in Nat /\ restarts \in Nat
      /\ faults' = 0 /\ resets' = 0 /\ restarts' = 0
  BY DEF TypeOK, Undisturbed
<1>1. ASSUME \/ AllowEvent
             \/ \E a \in Alerts : Detect(a) \/ Create(a)
             \/ \E r \in Requests : Arrive(r) \/ Handle(r)
             \/ \E p \in Pods : FinishReset(p) \/ SeedRead(p) \/ SeedWrite(p)
             \/ UNCHANGED vars
      PROVE  UNCHANGED <<faults, resets, restarts>>
  BY <1>1 DEF AllowEvent, Detect, Create, InsertAlert, CountCreated, MirrorCreated,
     Arrive, Handle, ReadAlert, UpdateStatus, InsertAudit, CountDecision, DecrPending,
     ClampPending, MirrorDecision, ClampCritical, ReReadAlert, Rotate, SetResult,
     Broadcast, UpdateThreat, FinishReset, ResetStats, ResetDeleteKeys, ResetMirror,
     ResetThreats, SeedRead, SeedWrite, vars
<1>2. ASSUME RedisRestart \/ \E p \in Pods : ResetTruncate(p) PROVE FALSE
  BY <1>0, <1>2 DEF RedisRestart, ResetTruncate
<1>3. Undisturbed
  BY <1>0, <1>1, <1>2, NoFaultStep DEF Next, Undisturbed
<1>4. NoOtherWriter
  BY <1>3 DEF MirrorInv
<1>5. ASSUME NEW p \in Pods, FinishReset(p) \/ SeedRead(p) \/ SeedWrite(p)
      PROVE  FALSE
  BY <1>4, <1>5 DEF NoOtherWriter, FinishReset, ResetStats, ResetDeleteKeys, ResetMirror,
     ResetThreats, ResetGoto, SeedRead, SeedWrite
<1>6. ~ RedisRestart /\ ~ \E p \in Pods : ResetTruncate(p)
  BY <1>2
<1>7. ~ \E p \in Pods : FinishReset(p) \/ SeedRead(p) \/ SeedWrite(p)
  BY <1>5
<1> QED BY <1>0, <1>3, <1>4, <1>6, <1>7, NoFaultStep DEF Next

\* An undisturbed step leaves Redis without other writers.
LEMMA NoOtherWriterStep ==
  ASSUME TypeOK, MirrorInv, [Next]_vars, Undisturbed'
  PROVE  NoOtherWriter'
<1> USE DEF pgVars, redisVars, seedVars, vaultVars, handlers
<1>0. NoOtherWriter
  BY UndisturbedStep
<1>1. ASSUME NEW a \in Alerts, Detect(a) \/ Create(a) PROVE NoOtherWriter'
  BY <1>0, <1>1 DEF Detect, CountAutoAllowed, Create, InsertAlert, CountCreated,
     MirrorCreated, NoOtherWriter, Fields
<1>2. ASSUME NEW r \in Requests, Arrive(r) \/ Handle(r) PROVE NoOtherWriter'
  <2>1. UNCHANGED <<seedPc, resetPc>>
    BY <1>2 DEF Arrive, Handle, ReadAlert, UpdateStatus, InsertAudit, CountDecision,
       DecrPending, ClampPending, MirrorDecision, ClampCritical, ReReadAlert, Rotate,
       SetResult, Broadcast, UpdateThreat
  <2>2. keys' = Fields
    BY <1>0, <1>2 DEF Arrive, Handle, ReadAlert, UpdateStatus, InsertAudit,
       CountDecision, DecrPending, ClampPending, MirrorDecision, ClampCritical, StatOf,
       ReReadAlert, Rotate, SetResult, Broadcast, UpdateThreat, NoOtherWriter, Fields
  <2> QED BY <1>0, <2>1, <2>2 DEF NoOtherWriter
<1>3. CASE AllowEvent
  BY <1>0, <1>3 DEF AllowEvent, CountAutoAllowed, NoOtherWriter, Fields
<1>4. CASE UNCHANGED vars
  BY <1>0, <1>4 DEF vars, NoOtherWriter
<1> QED BY <1>1, <1>2, <1>3, <1>4, UndisturbedStep

\* The counters of a decision have the same name in both stores.
LEMMA StatIsTotal == \A d \in Decision : StatOf(d) = Total[d]
  BY DEF StatOf, Total, Decision

\* A handler counts its decision in PostgreSQL, then in Redis.
LEMMA HandlersMirror ==
  ASSUME TypeOK, IsFiniteSet(Arrived), Mirrored,
         NEW r \in Requests, Arrive(r) \/ Handle(r)
  PROVE  Mirrored'
<1> USE DEF pgVars, redisVars
<1>0. /\ call \in [Requests -> [op : Decision, alert : Alerts, pod : Pods]]
      /\ pc \in [Requests -> HandlerPc]
      /\ mirror \in [Fields -> Int] /\ stats \in [Columns -> Nat]
      /\ call[r].op \in Decision
  BY DEF TypeOK
<1>1. /\ \A q \in Requests \ {r} : pc'[q] = pc[q]
      /\ UNCHANGED <<call, maker>>
  BY OthersStay
<1>2. Unmirrored' = Unmirrored
  BY <1>1 DEF Unmirrored
<1>3. \A d \in Decision : /\ IsFiniteSet(Uncounted(d))
                          /\ Cardinality(Uncounted(d)) \in Nat
  <2> TAKE d \in Decision
  <2>1. Uncounted(d) \subseteq Arrived
    BY DEF Uncounted, Arrived
  <2> QED BY <2>1, FS_Subset, FS_CardinalityType
<1>4. CASE CountDecision(r)
  <2>1. /\ pc[r] = "stats" /\ pc'[r] = "decr" /\ mirror' = mirror
        /\ stats' = [stats EXCEPT ![Total[call[r].op]] = @ + 1]
    BY <1>0, <1>4, StatIsTotal DEF CountDecision, Goto
  <2>2. stats'["total_alerts_created"] = stats["total_alerts_created"]
    BY <1>0, <2>1 DEF Total, Decision, Columns
  <2>3. ASSUME NEW d \in Decision
        PROVE  mirror'[Total[d]] + Cardinality(Uncounted(d)') = stats'[Total[d]]
    <3>1. CASE d = call[r].op
      <4>1. Uncounted(d)' = Uncounted(d) \union {r} /\ r \notin Uncounted(d)
        BY <1>1, <2>1, <3>1 DEF Uncounted
      <4>2. Cardinality(Uncounted(d)') = Cardinality(Uncounted(d)) + 1
        BY <1>3, <4>1, FS_AddElement
      <4>3. stats'[Total[d]] = stats[Total[d]] + 1 /\ mirror[Total[d]] \in Int
        BY <1>0, <2>1, <3>1 DEF Total, Decision, Columns, Fields
      <4> QED BY <1>3, <2>1, <4>2, <4>3 DEF Mirrored
    <3>2. CASE d # call[r].op
      <4>1. Uncounted(d)' = Uncounted(d)
        BY <1>1, <2>1, <3>2 DEF Uncounted
      <4>2. stats'[Total[d]] = stats[Total[d]]
        BY <1>0, <2>1, <3>2 DEF Total, Decision, Columns
      <4> QED BY <2>1, <4>1, <4>2 DEF Mirrored
    <3> QED BY <3>1, <3>2
  <2> QED BY <1>2, <2>1, <2>2, <2>3 DEF Mirrored
<1>5. CASE MirrorDecision(r)
  <2>1. /\ pc[r] = "incr" /\ pc'[r] \in {"clampCritical", "reread"} /\ stats' = stats
        /\ mirror' \in {[mirror EXCEPT ![Total[call[r].op]] = @ + 1],
                        [[mirror EXCEPT ![Total[call[r].op]] = @ + 1]
                           EXCEPT !["critical_pending"] = @ - 1]}
    BY <1>0, <1>5, StatIsTotal DEF MirrorDecision, Goto, Incr, Decr
  <2>2. mirror'["total_alerts_created"] = mirror["total_alerts_created"]
    BY <1>0, <2>1 DEF Total, Decision, Fields
  <2>3. ASSUME NEW d \in Decision
        PROVE  mirror'[Total[d]] + Cardinality(Uncounted(d)') = stats'[Total[d]]
    <3>1. CASE d = call[r].op
      <4>1. Uncounted(d)' = Uncounted(d) \ {r} /\ r \in Uncounted(d)
        BY <1>1, <2>1, <3>1 DEF Uncounted
      <4>2. Cardinality(Uncounted(d)') = Cardinality(Uncounted(d)) - 1
        BY <1>3, <4>1, FS_RemoveElement
      <4>3. mirror'[Total[d]] = mirror[Total[d]] + 1 /\ mirror[Total[d]] \in Int
        BY <1>0, <2>1, <3>1 DEF Total, Decision, Fields
      <4> QED BY <1>3, <2>1, <4>2, <4>3 DEF Mirrored
    <3>2. CASE d # call[r].op
      <4>1. Uncounted(d)' = Uncounted(d)
        BY <1>1, <2>1, <3>2 DEF Uncounted
      <4>2. mirror'[Total[d]] = mirror[Total[d]]
        BY <1>0, <2>1, <3>2 DEF Total, Decision, Fields
      <4> QED BY <2>1, <4>1, <4>2 DEF Mirrored
    <3> QED BY <3>1, <3>2
  <2> QED BY <1>2, <2>1, <2>2, <2>3 DEF Mirrored
<1>6. CASE ~ CountDecision(r) /\ ~ MirrorDecision(r)
  <2>1. pc[r] \in {"decr", "clamp", "incr"} <=> pc'[r] \in {"decr", "clamp", "incr"}
    BY <1>0, <1>6 DEF Arrive, Handle, ReadAlert, StillPending, AfterStore, UpdateStatus,
       InsertAudit, DecrPending, ClampPending, ClampCritical, ReReadAlert, Rotate,
       SetResult, Broadcast, UpdateThreat, Answer, Goto
  <2>2. \A d \in Decision : Uncounted(d)' = Uncounted(d)
    BY <1>1, <2>1 DEF Uncounted
  <2>3. /\ stats' = stats
        /\ \A f \in Fields \ {"pending_count", "critical_pending"} : mirror'[f] = mirror[f]
    BY <1>0, <1>6 DEF Arrive, Handle, ReadAlert, UpdateStatus, InsertAudit, DecrPending,
       Decr, ClampPending, ClampCritical, ReReadAlert, Rotate, SetResult, Broadcast,
       UpdateThreat
  <2>4. /\ \A d \in Decision : mirror'[Total[d]] = mirror[Total[d]]
        /\ mirror'["total_alerts_created"] = mirror["total_alerts_created"]
    BY <2>3 DEF Total, Decision, Fields
  <2> QED BY <1>2, <2>2, <2>3, <2>4 DEF Mirrored
<1> QED BY <1>4, <1>5, <1>6

\* A detection counts its alert in PostgreSQL, then in Redis.
LEMMA DetectionsMirror ==
  ASSUME TypeOK, Mirrored, NEW a \in Alerts, Detect(a) \/ Create(a)
  PROVE  Mirrored'
<1> USE DEF pgVars, redisVars, handlers
<1>0. /\ mirror \in [Fields -> Int] /\ stats \in [Columns -> Nat]
      /\ maker \in [Alerts -> {"idle", "insert", "count", "mirror", "done"}]
  BY DEF TypeOK
<1>1. \A d \in Decision : Uncounted(d)' = Uncounted(d)
  BY DEF Uncounted, Detect, Create, InsertAlert, CountCreated, MirrorCreated
<1>2. \A b \in Alerts \ {a} : maker'[b] = maker[b]
  BY <1>0 DEF Detect, Create, InsertAlert, CountCreated, MirrorCreated
<1>3. IsFiniteSet(Unmirrored) /\ Cardinality(Unmirrored) \in Nat
  <2>1. Unmirrored \subseteq Alerts
    BY DEF Unmirrored
  <2> QED BY <2>1, ConstantsOK, FS_Subset, FS_CardinalityType
<1>4. \A d \in Decision : mirror'[Total[d]] = mirror[Total[d]]
                            /\ stats'[Total[d]] = stats[Total[d]]
  BY <1>0 DEF Detect, CountAutoAllowed, Incr, Create, InsertAlert, CountCreated,
     MirrorCreated, Total, Decision, Fields, Columns
<1>5. CASE CountCreated(a)
  <2>1. Unmirrored' = Unmirrored \union {a} /\ a \notin Unmirrored
    BY <1>0, <1>2, <1>5 DEF CountCreated, Unmirrored
  <2>2. Cardinality(Unmirrored') = Cardinality(Unmirrored) + 1
    BY <1>3, <2>1, FS_AddElement
  <2>3. /\ stats'["total_alerts_created"] = stats["total_alerts_created"] + 1
        /\ mirror' = mirror /\ mirror["total_alerts_created"] \in Int
    BY <1>0, <1>5 DEF CountCreated, Columns, Fields
  <2> QED BY <1>1, <1>3, <1>4, <2>2, <2>3 DEF Mirrored
<1>6. CASE MirrorCreated(a)
  <2>1. Unmirrored' = Unmirrored \ {a} /\ a \in Unmirrored
    BY <1>0, <1>2, <1>6 DEF MirrorCreated, Unmirrored
  <2>2. Cardinality(Unmirrored') = Cardinality(Unmirrored) - 1
    BY <1>3, <2>1, FS_RemoveElement
  <2>3. /\ mirror'["total_alerts_created"] = mirror["total_alerts_created"] + 1
        /\ stats' = stats /\ mirror["total_alerts_created"] \in Int
    BY <1>0, <1>6 DEF MirrorCreated, Fields
  <2> QED BY <1>1, <1>3, <1>4, <2>2, <2>3 DEF Mirrored
<1>7. CASE Detect(a) \/ InsertAlert(a)
  <2>1. Unmirrored' = Unmirrored
    BY <1>0, <1>2, <1>7 DEF Detect, InsertAlert, Unmirrored
  <2>2. /\ stats'["total_alerts_created"] = stats["total_alerts_created"]
        /\ mirror'["total_alerts_created"] = mirror["total_alerts_created"]
    BY <1>0, <1>7 DEF Detect, CountAutoAllowed, Incr, InsertAlert, Columns, Fields
  <2> QED BY <1>1, <1>4, <2>1, <2>2 DEF Mirrored
<1> QED BY <1>5, <1>6, <1>7 DEF Create

\* An undisturbed step keeps Redis level with PostgreSQL.
LEMMA MirrorStep ==
  ASSUME TypeOK, IsFiniteSet(Arrived), MirrorInv, [Next]_vars
  PROVE  MirrorInv'
<1> SUFFICES ASSUME Undisturbed' PROVE Mirrored'
  BY NoOtherWriterStep DEF MirrorInv
<1>0. /\ Mirrored
      /\ mirror \in [Fields -> Int] /\ stats \in [Columns -> Nat]
  BY UndisturbedStep DEF MirrorInv, TypeOK
<1>1. CASE AllowEvent
  <2>1. Unmirrored' = Unmirrored /\ \A d \in Decision : Uncounted(d)' = Uncounted(d)
    BY <1>1 DEF AllowEvent, Unmirrored, Uncounted, handlers
  <2>2. /\ \A d \in Decision : mirror'[Total[d]] = mirror[Total[d]]
                                 /\ stats'[Total[d]] = stats[Total[d]]
        /\ stats'["total_alerts_created"] = stats["total_alerts_created"]
        /\ mirror'["total_alerts_created"] = mirror["total_alerts_created"]
    BY <1>0, <1>1 DEF AllowEvent, CountAutoAllowed, Incr, Total, Decision, Fields, Columns
  <2> QED BY <1>0, <2>1, <2>2 DEF Mirrored
<1>2. CASE UNCHANGED vars
  BY <1>0, <1>2 DEF vars, pgVars, redisVars, handlers, Mirrored, Unmirrored, Uncounted
<1> QED BY <1>0, <1>1, <1>2, UndisturbedStep, HandlersMirror, DetectionsMirror

\* For any number of pods, calls and alerts: with warm keys, and no failure, reset or
\* Redis restart, Redis counts the decisions and the alerts that PostgreSQL counts,
\* up to those whose two statements are between.
THEOREM RedisFollowsPostgres == Spec => []TotalsMirrored
<1>1. TypeOK /\ IsFiniteSet(Arrived) /\ MirrorInv /\ [Next]_vars => MirrorInv'
  BY MirrorStep
<1>2. MirrorInv => TotalsMirrored
  BY DEF MirrorInv, Undisturbed, Mirrored, Uncounted, Unmirrored, TotalsMirrored
<1> QED BY <1>1, <1>2, MirrorInit, TypeCorrect, ArrivalsAreFinite, PTL DEF Spec
=============================================================================
