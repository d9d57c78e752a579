----------------------------- MODULE AdminAlerts -----------------------------
(***************************************************************************)
(* The admin alert queue: backend/app/admin_store.py and the alert and     *)
(* reset handlers of backend/app/routes/admin.py, served by several pods   *)
(* that share PostgreSQL, Redis and Elasticsearch.                         *)
(*                                                                         *)
(* The handlers are coroutines that call blocking clients: a pod's event   *)
(* loop runs one of them at a time, from its first statement to its        *)
(* `await admin_manager.broadcast`, and another handler may run before it  *)
(* resumes.  Handlers of different pods interleave at every statement, and *)
(* so do the threads that detect threats (Kafka consumer, /simulate).      *)
(* Each db.execute_query is one committed statement, each Redis command is *)
(* atomic.                                                                 *)
(***************************************************************************)
EXTENDS Integers, FiniteSets

CONSTANTS Alerts,        \* alert ids (fresh uuids: an id is never used twice)
          Critical,      \* those raised with threat_action CRITICAL_ALERT
          Forced,        \* those raised by process_event(force_rotation=True)
          Requests,      \* approve and reject calls; each arrives at most once
          Pods,          \* backend replicas
          AutoRotation,  \* config.ENABLE_AUTO_USER_ROTATION
          WarmMirror,    \* the Redis keys exist in the initial state
          MaxBenign,     \* bound: ALLOW events
          MaxResets,     \* bound: pipeline resets
          MaxSeedings,   \* bound: get_stats calls that miss Redis
          MaxRestarts,   \* bound: restarts of the Redis pod
          MaxFaults      \* bound: database errors and pod crashes

ASSUME ConstantsOK ==
  /\ IsFiniteSet(Alerts)
  /\ Critical \subseteq Alerts
  /\ Forced \subseteq Alerts
  /\ Pods # {}
  /\ AutoRotation \in BOOLEAN
  /\ WarmMirror \in BOOLEAN
  /\ {MaxBenign, MaxResets, MaxSeedings, MaxRestarts, MaxFaults} \subseteq Nat

Decision == {"approved", "rejected"}
Status   == {"none", "pending", "deleted"} \union Decision

\* redis_client.ADMIN_STAT_KEYS
Fields == {"total_alerts", "pending_count", "critical_pending", "total_approved",
           "total_rejected", "total_auto_allowed", "total_alerts_created"}
\* The columns of hpe_admin_stats.
Columns == {"total_approved", "total_rejected", "total_auto_allowed",
            "total_alerts_created"}

\* Points of a handler at which its pod's event loop is taken.
Held == {"read", "update", "audit", "stats", "decr", "clamp", "incr",
         "clampCritical", "reread", "rotate", "result", "broadcast"}
HandlerPc == {"new", "es", "done"} \union Held
ResetHeld == {"zero", "redis", "seedzero", "es"}

VARIABLES
  row,            \* hpe_admin_alerts.status, "none" before the INSERT
  hasResult,      \* alerts whose rotation_result column is set
  audit,          \* hpe_admin_audit_log: entries per alert and decision
  stats,          \* hpe_admin_stats
  mirror, keys,   \* Redis hpe:stats:* values, and the keys that exist
  es,             \* hpe-threats document: "none", "open", or its resolution
  autoRotated,    \* alerts whose user was rotated at detection
  userRotations,  \* user rotations run by approvals, per alert
  infraRotations, \* infrastructure rotations run by approvals, per alert
  maker,          \* progress of the detection that raises the alert
  call,           \* the admin calls that will arrive: [op, alert, pod]
  pc, reply,      \* their progress and answer
  resetPc,        \* the reset handler of each pod
  seedPc, snap,   \* the get_stats call of each pod, and what it has read
  benign, resets, seedings, restarts, faults  \* what the bounds count

pgVars    == <<row, hasResult, audit, stats>>
redisVars == <<mirror, keys>>
vaultVars == <<autoRotated, userRotations, infraRotations>>
handlers  == <<call, pc, reply>>
seedVars  == <<seedPc, snap>>
budget    == <<benign, resets, seedings, restarts, faults>>
vars == <<pgVars, redisVars, es, vaultVars, maker, handlers, resetPc, seedVars,
          budget>>

-----------------------------------------------------------------------------
(* Redis and PostgreSQL primitives *)

\* admin_incr: INCRBY creates a missing key.
Incr_Set(m, f) == [m EXCEPT ![f] = 1]
Incr(m, f) == [m EXCEPT ![f] = @ + 1]
\* The DECRBY of admin_decr; clamping a negative value is a second command.
Decr(m, f) == [m EXCEPT ![f] = @ - 1]

ZeroFields == [f \in Fields |-> 0]

\* The statistic that an approval or a rejection counts.
StatOf_Swapped(d) == IF d = "approved" THEN "total_rejected" ELSE "total_approved"
StatOf(d) == IF d = "approved" THEN "total_approved" ELSE "total_rejected"

\* INSERT INTO hpe_admin_audit_log.
WithEntry_Approve(log, a, d) == [log EXCEPT ![a]["approved"] = @ + 1]
WithEntry_ApprovalsOnly(log, a, d) ==
  IF d = "approved" THEN [log EXCEPT ![a][d] = @ + 1] ELSE log
WithEntry(log, a, d) == [log EXCEPT ![a][d] = @ + 1]

\* What get_stats computes from PostgreSQL.
Existing == {a \in Alerts : row[a] \in {"pending"} \union Decision}
Pending  == {a \in Alerts : row[a] = "pending"}
PgStats ==
  [f \in Fields |->
     CASE f = "pending_count"    -> Cardinality(Pending)
       [] f = "critical_pending" -> Cardinality(Pending \intersect Critical)
       [] f = "total_alerts"     -> Cardinality(Existing)
       [] OTHER                  -> stats[f]]

\* Event loop: nothing else of the pod is between two awaits.
LoopFree_Yielding(p) == TRUE
LoopFree(p) ==
  /\ \A r \in Requests : call[r].pod = p => pc[r] \notin Held
  /\ resetPc[p] \notin ResetHeld
  /\ seedPc[p] # "write"

Goto(r, from, to) == pc[r] = from /\ pc' = [pc EXCEPT ![r] = to]
Answer(r, from, what) ==
  /\ Goto(r, from, "done")
  /\ reply' = [reply EXCEPT ![r] = what]

-----------------------------------------------------------------------------
Init ==
  /\ row = [a \in Alerts |-> "none"]
  /\ hasResult = {}
  /\ audit = [a \in Alerts |-> [d \in Decision |-> 0]]
  /\ stats = [c \in Columns |-> 0]
  /\ mirror = ZeroFields
  /\ keys = IF WarmMirror THEN Fields ELSE {}
  /\ es = [a \in Alerts |-> "none"]
  /\ autoRotated = {}
  /\ userRotations = [a \in Alerts |-> 0]
  /\ infraRotations = [a \in Alerts |-> 0]
  /\ maker = [a \in Alerts |-> "idle"]
  /\ call \in [Requests -> [op : Decision, alert : Alerts, pod : Pods]]
  /\ pc = [r \in Requests |-> "new"]
  /\ reply = [r \in Requests |-> "none"]
  /\ resetPc = [p \in Pods |-> "idle"]
  /\ seedPc = [p \in Pods |-> "idle"] /\ snap = [p \in Pods |-> ZeroFields]
  /\ benign = 0 /\ resets = 0 /\ seedings = 0 /\ restarts = 0 /\ faults = 0

-----------------------------------------------------------------------------
(* Detection: process_event from stage 7 on, and admin_store.create_alert. *)

\* increment_auto_allowed; its two statements are taken as one step.
CountAutoAllowed ==
  /\ stats' = [stats EXCEPT !["total_auto_allowed"] = @ + 1]
  /\ mirror' = Incr(mirror, "total_auto_allowed")
  /\ keys' = keys \union {"total_auto_allowed"}

\* An event scored ALLOW.
AllowEvent ==
  /\ benign < MaxBenign
  /\ benign' = benign + 1
  /\ CountAutoAllowed
  /\ UNCHANGED <<row, hasResult, audit, es, vaultVars, maker, handlers, resetPc,
                 seedVars, resets, seedings, restarts, faults>>

\* A BLOCK or CRITICAL_ALERT event: the user is rotated now if the mode or the
\* caller asks for it, otherwise control falls to the branch that counts the
\* event as auto-allowed; then the threat document is indexed.
Detect(a) ==
  /\ maker[a] = "idle"
  /\ maker' = [maker EXCEPT ![a] = "insert"]
  /\ es' = [es EXCEPT ![a] = "open"]
  /\ \/ /\ AutoRotation \/ a \in Forced
        /\ autoRotated' = autoRotated \union {a}
        /\ UNCHANGED <<stats, mirror, keys>>
     \/ /\ ~ (AutoRotation \/ a \in Forced)
        /\ CountAutoAllowed
        /\ UNCHANGED autoRotated
  /\ UNCHANGED <<row, hasResult, audit, userRotations, infraRotations, handlers,
                 resetPc, seedVars, budget>>

InsertAlert(a) ==
  /\ maker[a] = "insert"
  /\ maker' = [maker EXCEPT ![a] = "count"]
  /\ row' = [row EXCEPT ![a] = "pending"]
  /\ UNCHANGED <<hasResult, audit, stats, redisVars, es, vaultVars, handlers,
                 resetPc, seedVars, budget>>

CountCreated(a) ==
  /\ maker[a] = "count"
  /\ maker' = [maker EXCEPT ![a] = "mirror"]
  /\ stats' = [stats EXCEPT !["total_alerts_created"] = @ + 1]
  /\ UNCHANGED <<row, hasResult, audit, redisVars, es, vaultVars, handlers,
                 resetPc, seedVars, budget>>

\* The INCRs of create_alert touch different keys and are taken as one step.
MirrorCreated(a) ==
  LET touched == {"total_alerts", "total_alerts_created", "pending_count"}
                 \union (IF a \in Critical THEN {"critical_pending"} ELSE {})
  IN /\ maker[a] = "mirror"
     /\ maker' = [maker EXCEPT ![a] = "done"]
     /\ mirror' = [f \in Fields |-> IF f \in touched THEN mirror[f] + 1 ELSE mirror[f]]
     /\ keys' = keys \union touched
     /\ UNCHANGED <<pgVars, es, vaultVars, handlers, resetPc, seedVars, budget>>

-----------------------------------------------------------------------------
(* POST /alerts/{id}/approve and /reject: one action per statement.  The   *)
(* two handlers share the store's statements and differ in what follows.   *)

\* A call for an alert the console has shown reaches its pod.
Arrive(r) ==
  /\ row[call[r].alert] # "none"
  /\ LoopFree(call[r].pod)
  /\ Goto(r, "new", "read")
  /\ UNCHANGED <<pgVars, redisVars, es, vaultVars, maker, call, reply, resetPc,
                 seedVars, budget>>

\* Where the handler goes once the store has returned the alert: approve acts
\* only on an approved one, reject never looks at the status.
MayRotate_Always(status) == TRUE
MayRotate(status) == status = "approved"
AfterStore(r) ==
  IF call[r].op = "rejected" THEN "broadcast"
  ELSE IF MayRotate(row[call[r].alert]) THEN "rotate" ELSE "done"

\* get_alert, then the early returns of approve_alert / reject_alert.
StillPending_Any(status) == status \notin {"none", "deleted"}
StillPending_Renamed(status) == status = "open"
StillPending(status) == status = "pending"
ReadAlert(r) ==
  LET status == row[call[r].alert]
      next   == IF status = "deleted" THEN "done"
                ELSE IF StillPending(status) THEN "update" ELSE AfterStore(r)
  IN /\ Goto(r, "read", next)
     /\ reply' = [reply EXCEPT ![r] =
                    IF next # "done" THEN "none"
                    ELSE IF status = "deleted" THEN "notFound" ELSE "resolved"]
     /\ UNCHANGED <<pgVars, redisVars, es, vaultVars, maker, call, resetPc,
                    seedVars, budget>>

\* UPDATE ... SET status WHERE alert_id: no condition on the old status.
StatusOf_Verb(d) == IF d = "approved" THEN "approve" ELSE "reject"
StatusOf(d) == d
UpdateStatus(r) ==
  LET a == call[r].alert
  IN /\ Goto(r, "update", "audit")
     /\ row' = [row EXCEPT ![a] =
                  IF @ = "deleted" THEN @ ELSE StatusOf(call[r].op)]
     /\ UNCHANGED <<hasResult, audit, stats, redisVars, es, vaultVars, maker, call,
                    reply, resetPc, seedVars, budget>>

InsertAudit(r) ==
  /\ Goto(r, "audit", "stats")
  /\ audit' = WithEntry(audit, call[r].alert, call[r].op)
  /\ UNCHANGED <<row, hasResult, stats, redisVars, es, vaultVars, maker, call,
                 reply, resetPc, seedVars, budget>>

CountDecision(r) ==
  /\ Goto(r, "stats", "decr")
  /\ stats' = [stats EXCEPT ![StatOf(call[r].op)] = @ + 1]
  /\ UNCHANGED <<row, hasResult, audit, redisVars, es, vaultVars, maker, call,
                 reply, resetPc, seedVars, budget>>

DecrPending(r) ==
  /\ Goto(r, "decr", IF mirror["pending_count"] - 1 < 0 THEN "clamp" ELSE "incr")
  /\ mirror' = Decr(mirror, "pending_count")
  /\ keys' = keys \union {"pending_count"}
  /\ UNCHANGED <<pgVars, es, vaultVars, maker, call, reply, resetPc, seedVars,
                 budget>>

ClampPending(r) ==
  /\ Goto(r, "clamp", "incr")
  /\ mirror' = [mirror EXCEPT !["pending_count"] = 0]
  /\ keys' = keys \union {"pending_count"}
  /\ UNCHANGED <<pgVars, es, vaultVars, maker, call, reply, resetPc, seedVars,
                 budget>>

\* INCR of the decision's total, then DECRBY of critical_pending.
MirrorDecision(r) ==
  LET total    == StatOf(call[r].op)
      counted  == Incr(mirror, total)
      critical == call[r].alert \in Critical
      next     == IF critical /\ mirror["critical_pending"] - 1 < 0
                  THEN "clampCritical" ELSE "reread"
  IN /\ Goto(r, "incr", next)
     /\ mirror' = IF critical THEN Decr(counted, "critical_pending") ELSE counted
     /\ keys' = keys \union {total} \union
                (IF critical THEN {"critical_pending"} ELSE {})
     /\ UNCHANGED <<pgVars, es, vaultVars, maker, call, reply, resetPc, seedVars,
                    budget>>

ClampCritical(r) ==
  /\ Goto(r, "clampCritical", "reread")
  /\ mirror' = [mirror EXCEPT !["critical_pending"] = 0]
  /\ keys' = keys \union {"critical_pending"}
  /\ UNCHANGED <<pgVars, es, vaultVars, maker, call, reply, resetPc, seedVars,
                 budget>>

\* The get_alert that ends approve_alert / reject_alert.
ReReadAlert(r) ==
  LET deleted == row[call[r].alert] = "deleted"
      next    == IF deleted THEN "done" ELSE AfterStore(r)
  IN /\ Goto(r, "reread", next)
     /\ reply' = [reply EXCEPT ![r] =
                    IF next # "done" THEN "none"
                    ELSE IF deleted THEN "notFound" ELSE "resolved"]
     /\ UNCHANGED <<pgVars, redisVars, es, vaultVars, maker, call, resetPc,
                    seedVars, budget>>

\* User rotation unless it ran at detection; infrastructure rotation of a
\* critical alert, skipped when the infrastructure client is not connected.
Rotate(r) ==
  LET a == call[r].alert
  IN /\ Goto(r, "rotate", "result")
     /\ userRotations' = IF AutoRotation THEN userRotations
                         ELSE [userRotations EXCEPT ![a] = @ + 1]
     /\ \/ /\ a \in Critical
           /\ infraRotations' = [infraRotations EXCEPT ![a] = @ + 1]
        \/ UNCHANGED infraRotations
     /\ UNCHANGED <<pgVars, redisVars, es, autoRotated, maker, call, reply,
                    resetPc, seedVars, budget>>

\* set_rotation_result: no row, no effect.
SetResult(r) ==
  LET a == call[r].alert
  IN /\ Goto(r, "result", "broadcast")
     /\ hasResult' = IF row[a] = "deleted" THEN hasResult ELSE hasResult \union {a}
     /\ UNCHANGED <<row, audit, stats, redisVars, es, vaultVars, maker, call, reply,
                    resetPc, seedVars, budget>>

\* await admin_manager.broadcast: the loop is given up.
Broadcast(r) ==
  /\ Goto(r, "broadcast", "es")
  /\ UNCHANGED <<pgVars, redisVars, es, vaultVars, maker, call, reply, resetPc,
                 seedVars, budget>>

\* Resumed: update_threat_resolution, then the answer.  The search misses a
\* document not yet refreshed, and an Elasticsearch error is swallowed.
ResumesWhen_Held(p) == LoopFree(p) /\ \A r \in Requests : call[r].pod = p => pc[r] # "es"
ResumesWhen(p) == LoopFree(p)
UpdateThreat(r) ==
  LET a == call[r].alert
  IN /\ ResumesWhen(call[r].pod)
     /\ Answer(r, "es", "ok")
     /\ \/ es[a] # "none" /\ es' = [es EXCEPT ![a] = call[r].op]
        \/ UNCHANGED es
     /\ UNCHANGED <<pgVars, redisVars, vaultVars, maker, call, resetPc, seedVars,
                    budget>>

-----------------------------------------------------------------------------
(* POST /reset/confirm, after its token was accepted: the statements that  *)
(* touch this state, on one pod's loop.                                    *)

\* TRUNCATE of the alerts; the audit log is kept.
KeptAudit_Cascaded(log) == [a \in Alerts |-> [d \in Decision |-> 0]]
KeptAudit(log) == log

ResetGoto(p, from, to) ==
  resetPc[p] = from /\ resetPc' = [resetPc EXCEPT ![p] = to]

ResetTruncate(p) ==
  /\ resets < MaxResets
  /\ LoopFree(p)
  /\ ResetGoto(p, "idle", "zero")
  /\ resets' = resets + 1
  /\ row' = [a \in Alerts |-> IF row[a] = "none" THEN "none" ELSE "deleted"]
  /\ hasResult' = {}
  /\ audit' = KeptAudit(audit)
  /\ UNCHANGED <<stats, redisVars, es, vaultVars, maker, handlers, seedVars, benign,
                 seedings, restarts, faults>>

ResetStats(p) ==
  /\ ResetGoto(p, "zero", "redis")
  /\ stats' = [c \in Columns |-> 0]
  /\ UNCHANGED <<row, hasResult, audit, redisVars, es, vaultVars, maker, handlers,
                 seedVars, budget>>

ResetDeleteKeys(p) ==
  /\ ResetGoto(p, "redis", "seedzero")
  /\ keys' = {} /\ mirror' = ZeroFields
  /\ UNCHANGED <<pgVars, es, vaultVars, maker, handlers, seedVars, budget>>

\* reset_admin_stats: SET, not SETNX.
ResetMirror(p) ==
  /\ ResetGoto(p, "seedzero", "es")
  /\ keys' = Fields /\ mirror' = ZeroFields
  /\ UNCHANGED <<pgVars, es, vaultVars, maker, handlers, seedVars, budget>>

ResetThreats(p) ==
  /\ ResetGoto(p, "es", "idle")
  /\ es' = [a \in Alerts |-> "none"]
  /\ UNCHANGED <<pgVars, redisVars, vaultVars, maker, handlers, seedVars,
                 budget>>

-----------------------------------------------------------------------------
(* get_stats on a Redis miss: read PostgreSQL, then SETNX every key.        *)

SeedRead(p) ==
  /\ seedings < MaxSeedings
  /\ LoopFree(p)
  /\ keys # Fields
  /\ seedPc[p] = "idle" /\ seedPc' = [seedPc EXCEPT ![p] = "write"]
  /\ seedings' = seedings + 1
  /\ snap' = [snap EXCEPT ![p] = PgStats]
  /\ UNCHANGED <<pgVars, redisVars, es, vaultVars, maker, handlers, resetPc,
                 benign, resets, restarts, faults>>

SeedWrite(p) ==
  /\ seedPc[p] = "write" /\ seedPc' = [seedPc EXCEPT ![p] = "idle"]
  /\ mirror' = [f \in Fields |-> IF f \in keys THEN mirror[f] ELSE snap[p][f]]
  /\ keys' = Fields
  /\ snap' = [snap EXCEPT ![p] = ZeroFields]
  /\ UNCHANGED <<pgVars, es, vaultVars, maker, handlers, resetPc, budget>>

-----------------------------------------------------------------------------
(* Faults *)

\* A statement of the handler raises, or get_alert swallows the error and
\* returns None: either way the admin is told the alert was not found.  The
\* error of set_rotation_result is swallowed and the handler goes on.
DbError(r) ==
  /\ faults < MaxFaults
  /\ faults' = faults + 1
  /\ \/ /\ pc[r] \in {"read", "update", "audit", "stats", "reread"}
        /\ Answer(r, pc[r], "notFound")
     \/ /\ Goto(r, "result", "broadcast")
        /\ UNCHANGED reply
  /\ UNCHANGED <<pgVars, redisVars, es, vaultVars, maker, call, resetPc, seedVars,
                 benign, resets, seedings, restarts>>

\* admin_incr and admin_decr swallow a Redis error: the mirror misses a count.
RedisError(r) ==
  /\ faults < MaxFaults
  /\ faults' = faults + 1
  /\ \/ Goto(r, "decr", "incr") \/ Goto(r, "clamp", "incr")
     \/ Goto(r, "incr", "reread") \/ Goto(r, "clampCritical", "reread")
  /\ UNCHANGED <<pgVars, redisVars, es, vaultVars, maker, call, reply, resetPc,
                 seedVars, benign, resets, seedings, restarts>>

\* A statement of the reset raises: the rest of it is skipped.
ResetError(p) ==
  /\ faults < MaxFaults
  /\ faults' = faults + 1
  /\ ResetGoto(p, "zero", "idle")
  /\ UNCHANGED <<pgVars, redisVars, es, vaultVars, maker, handlers, seedVars,
                 benign, resets, seedings, restarts>>

\* create_alert logs a database error and skips what remains.
CreateError(a) ==
  /\ faults < MaxFaults
  /\ faults' = faults + 1
  /\ maker[a] \in {"insert", "count"}
  /\ maker' = [maker EXCEPT ![a] = "done"]
  /\ UNCHANGED <<pgVars, redisVars, es, vaultVars, handlers, resetPc, seedVars,
                 benign, resets, seedings, restarts>>

\* A pod dies: its calls get no answer, its detections stop where they are.
PodCrash(p) ==
  /\ faults < MaxFaults
  /\ faults' = faults + 1
  /\ LET lost == {r \in Requests : call[r].pod = p /\ pc[r] \notin {"new", "done"}}
     IN /\ pc' = [r \in Requests |-> IF r \in lost THEN "done" ELSE pc[r]]
        /\ reply' = [r \in Requests |-> IF r \in lost THEN "lost" ELSE reply[r]]
  /\ \E dead \in SUBSET {a \in Alerts : maker[a] # "idle"} :
       maker' = [a \in Alerts |-> IF a \in dead THEN "done" ELSE maker[a]]
  /\ resetPc' = [resetPc EXCEPT ![p] = "idle"]
  /\ seedPc' = [seedPc EXCEPT ![p] = "idle"]
  /\ UNCHANGED <<pgVars, redisVars, es, vaultVars, call, snap,
                 benign, resets, seedings, restarts>>

\* The Redis pod has no volume: a restart starts empty.
RedisRestart ==
  /\ restarts < MaxRestarts
  /\ restarts' = restarts + 1
  /\ keys' = {} /\ mirror' = ZeroFields
  /\ UNCHANGED <<pgVars, es, vaultVars, maker, handlers, resetPc, seedVars,
                 benign, resets, seedings, faults>>

-----------------------------------------------------------------------------
Handle(r) ==
  \/ ReadAlert(r)     \/ UpdateStatus(r)  \/ InsertAudit(r)   \/ CountDecision(r)
  \/ DecrPending(r)   \/ ClampPending(r)  \/ MirrorDecision(r) \/ ClampCritical(r)
  \/ ReReadAlert(r)   \/ Rotate(r)        \/ SetResult(r)     \/ Broadcast(r)
  \/ UpdateThreat(r)

Create(a) == InsertAlert(a) \/ CountCreated(a) \/ MirrorCreated(a)

FinishReset(p) == ResetStats(p) \/ ResetDeleteKeys(p) \/ ResetMirror(p) \/ ResetThreats(p)

Next ==
  \/ AllowEvent
  \/ \E a \in Alerts : Detect(a) \/ Create(a) \/ CreateError(a)
  \/ \E r \in Requests : Arrive(r) \/ Handle(r) \/ DbError(r) \/ RedisError(r)
  \/ \E p \in Pods :
       \/ ResetTruncate(p) \/ FinishReset(p) \/ ResetError(p)
       \/ SeedRead(p) \/ SeedWrite(p)
       \/ PodCrash(p)
  \/ RedisRestart

Spec == Init /\ [][Next]_vars

\* The event loop resumes a ready handler and threads are scheduled; threats,
\* clicks and faults need not happen.
Fairness ==
  /\ \A r \in Requests : WF_vars(Handle(r))
  /\ \A a \in Alerts : WF_vars(Create(a))
  /\ \A p \in Pods : WF_vars(FinishReset(p)) /\ WF_vars(SeedWrite(p))

FairSpec == Spec /\ Fairness

-----------------------------------------------------------------------------
(* Properties *)

Total == [approved |-> "total_approved", rejected |-> "total_rejected"]

\* Type invariant: every variable ranges over the values the code gives it.
TypeOK ==
  /\ row \in [Alerts -> Status]
  /\ hasResult \subseteq Alerts
  /\ audit \in [Alerts -> [Decision -> Nat]]
  /\ stats \in [Columns -> Nat]
  /\ mirror \in [Fields -> Int] /\ keys \subseteq Fields
  /\ es \in [Alerts -> {"none", "open"} \union Decision]
  /\ autoRotated \subseteq Alerts
  /\ userRotations \in [Alerts -> Nat] /\ infraRotations \in [Alerts -> Nat]
  /\ maker \in [Alerts -> {"idle", "insert", "count", "mirror", "done"}]
  /\ call \in [Requests -> [op : Decision, alert : Alerts, pod : Pods]]
  /\ pc \in [Requests -> HandlerPc]
  /\ reply \in [Requests -> {"none", "ok", "resolved", "notFound", "lost"}]
  /\ resetPc \in [Pods -> {"idle"} \union ResetHeld]
  /\ seedPc \in [Pods -> {"idle", "write"}]
  /\ snap \in [Pods -> [Fields -> Nat]]
  /\ benign \in Nat /\ resets \in Nat /\ seedings \in Nat
  /\ restarts \in Nat /\ faults \in Nat

\* A decided alert keeps its decision until a reset deletes it: the status check
\* of approve_alert / reject_alert still holds at their UPDATE.
ResolutionIsFinal ==
  [][\A a \in Alerts : row[a] \in Decision => row'[a] \in {row[a], "deleted"}]_vars

\* Credentials rotated by an approval, and the result attached to the alert,
\* belong to an alert that stays approved: no rejection overtakes the approval
\* between its UPDATE and its rotation.
RotatedWasApproved ==
  \A a \in Alerts :
    userRotations[a] + infraRotations[a] > 0 \/ a \in hasResult
      => row[a] \in {"approved", "deleted"}

\* The audit log records each decision exactly once, and no decision that the
\* alert did not get; the INSERT of a decision just made may be outstanding.
AuditMatchesDecision ==
  \A a \in Alerts, d \in Decision :
    row[a] # "deleted" =>
      audit[a][d] + Cardinality({r \in Requests : pc[r] = "audit" /\
                                   call[r].op = d /\ call[r].alert = a})
        = IF row[a] = d THEN 1 ELSE 0

\* The statistics count alerts, not clicks: hpe_admin_stats agrees with the
\* number of alerts in each decided status, up to handlers still counting; and a
\* detection is counted as auto-allowed exactly if it rotated nobody.
StatsMatchDecisions ==
  /\ \A d \in Decision :
       Cardinality({a \in Alerts : row[a] = d}) =
         stats[Total[d]] + Cardinality({r \in Requests :
                               pc[r] \in {"audit", "stats"} /\ call[r].op = d})
  /\ stats["total_auto_allowed"] =
       benign + Cardinality({a \in Alerts : maker[a] # "idle" /\ a \notin autoRotated})

\* Whatever the pods do, the decision an alert carries is one that the audit log
\* holds or that a running handler is about to insert (no statement failing).
AuditCoversStatus ==
  faults = 0 =>
    \A a \in Alerts : row[a] \in Decision =>
      \/ audit[a][row[a]] > 0
      \/ \E r \in Requests : pc[r] = "audit" /\ call[r].op = row[a]
                               /\ call[r].alert = a

\* An admin who is told that an approval or rejection succeeded finds a decision
\* on that alert in the audit log, or one about to be inserted (no statement
\* failing: an error between the UPDATE and the INSERT loses the entry for good).
AuditCoversAnswer ==
  faults = 0 =>
    \A r \in Requests : reply[r] = "ok" =>
      \/ \E d \in Decision : audit[call[r].alert][d] > 0
      \/ \E q \in Requests : pc[q] = "audit" /\ call[q].alert = call[r].alert

\* Redis and PostgreSQL count the same decisions and alerts, up to the handlers
\* and detections between the two statements (warm keys, nothing failing, no
\* reset and no Redis restart).
TotalsMirrored ==
  WarmMirror /\ faults = 0 /\ resets = 0 /\ restarts = 0 =>
    /\ \A d \in Decision :
         mirror[Total[d]] + Cardinality({r \in Requests :
             pc[r] \in {"decr", "clamp", "incr"} /\ call[r].op = d})
           = stats[Total[d]]
    /\ mirror["total_alerts_created"] + Cardinality({a \in Alerts : maker[a] = "mirror"})
         = stats["total_alerts_created"]

\* The audit log is append-only: no step, a reset included, removes an entry.
AuditAppendOnly ==
  [][\A a \in Alerts, d \in Decision : audit'[a][d] >= audit[a][d]]_vars

\* Elasticsearch never shows a resolution for an alert still waiting in
\* PostgreSQL, through resets, crashes and late updates.
ThreatNotAheadOfAlert ==
  \A a \in Alerts : es[a] \in Decision => row[a] \in Decision \union {"deleted"}

\* A call that reached its pod is answered: handlers that share an event loop
\* with a reset and with each other do not block each other for ever.
EveryCallAnswered == \A r \in Requests : pc[r] = "read" ~> pc[r] = "done"

\* A single pod implements the abstract alert lifecycle.
Lifecycle ==
  INSTANCE AlertLifecycle WITH
    status <- row,
    rotated <- {a \in Alerts : userRotations[a] + infraRotations[a] > 0}
LifecycleSpec == Lifecycle!Spec

=============================================================================
