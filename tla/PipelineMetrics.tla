-------------------------- MODULE PipelineMetrics --------------------------
(***************************************************************************)
(* The pipeline counters of backend/app/threat_engine.py: those in Redis,  *)
(* the local deltas of each pod, and the row of hpe_pipeline_metrics that  *)
(* the deltas are flushed to.  A counter is the set of the events that it  *)
(* has counted.  In each pod several threads process events: the Kafka     *)
(* thread and those of requests.  They share _local_deltas under a lock    *)
(* and _pending_updates without one.                                       *)
(***************************************************************************)
EXTENDS Integers, FiniteSets

CONSTANTS Replicas,   \* pods
          Lanes,      \* threads of a pod; "main" is the one that shuts it down
          Counted,    \* events to be processed
          Threats,    \* those that are counted by attack type too
          BatchSize,  \* _BATCH_SIZE
          MaxMishaps, \* bound: failures
          MaxResets   \* bound: steps of resets

ASSUME MetricsConstantsOK ==
  /\ BatchSize \in Nat \ {0} /\ {MaxMishaps, MaxResets} \subseteq Nat
  /\ Threats \subseteq Counted /\ "main" \in Lanes

VARIABLES
  row,      \* PostgreSQL: total_requests and attack_types
  redis,    \* total_requests in Redis
  deltas,   \* per pod: _local_deltas
  pending,  \* per pod: _pending_updates
  step,     \* per thread: where it stands in process_event
  work,     \* per thread: its event, at most one
  held,     \* per thread: the deltas it took and has not written
  number,   \* per thread: the value of _pending_updates it read
  types,    \* per thread: the attack types it read
  pool,     \* pods with a connection pool
  ending,   \* pods whose shutdown has begun
  begun,    \* events that some thread began to process
  gone,     \* events erased from the totals: by a reset, a failed UPDATE, a dead pod
  late,     \* events in hand when the last flush of their pod began, or later ones
  mishaps,  \* failures so far
  resets    \* steps of resets so far

storeVars   == <<row, redis>>
bufferVars  == <<deltas, pending>>
threadVars  == <<work, held, number, types>>
lifeVars    == <<pool, ending>>
ledgerVars  == <<begun, gone, late>>
metricsVars == <<storeVars, bufferVars, step, threadVars, lifeVars, ledgerVars, mishaps, resets>>

Thread == Replicas \X Lanes
Pod(t) == t[1]

Steps == {"idle", "redis", "deltas", "read", "write", "full", "check", "flush",
          "readTypes", "writeTypes"}

MetricsTypeOK ==
  /\ row \in [total : SUBSET Counted, attacks : SUBSET Threats] /\ redis \subseteq Counted
  /\ deltas \in [Replicas -> SUBSET Counted] /\ pending \in [Replicas -> Nat]
  /\ step \in [Thread -> Steps] /\ work \in [Thread -> SUBSET Counted]
  /\ held \in [Thread -> SUBSET Counted] /\ number \in [Thread -> Nat]
  /\ types \in [Thread -> SUBSET Threats]
  /\ pool \subseteq Replicas /\ ending \subseteq Replicas
  /\ begun \subseteq Counted /\ gone \subseteq begun /\ late \subseteq begun
  /\ mishaps \in Nat /\ resets \in Nat

MetricsInit ==
  /\ row = [total |-> {}, attacks |-> {}] /\ redis = {}
  /\ deltas = [p \in Replicas |-> {}] /\ pending = [p \in Replicas |-> 0]
  /\ step = [t \in Thread |-> "idle"] /\ work = [t \in Thread |-> {}]
  /\ held = [t \in Thread |-> {}] /\ number = [t \in Thread |-> 0]
  /\ types = [t \in Thread |-> {}]
  /\ pool = Replicas /\ ending = {} /\ begun = {} /\ gone = {} /\ late = {}
  /\ mishaps = 0 /\ resets = 0

InHand(p) == UNION {work[t] \union held[t] : t \in {u \in Thread : Pod(u) = p}}

Goto(t, from, to) == step[t] = from /\ step' = [step EXCEPT ![t] = to]
Mishap == mishaps < MaxMishaps /\ mishaps' = mishaps + 1

-----------------------------------------------------------------------------
(* process_event: the counters *)

Begin(t, e) ==
  /\ t[2] # "main" /\ e \notin begun /\ Goto(t, "idle", "redis")
  /\ work' = [work EXCEPT ![t] = {e}] /\ begun' = begun \union {e}
  /\ late' = IF Pod(t) \in ending /\ step[<<Pod(t), "main">>] # "check"
             THEN late \union {e} ELSE late
  /\ UNCHANGED <<storeVars, bufferVars, held, number, types, lifeVars, gone, mishaps, resets>>

\* Redis swallows an error: the live counter then misses the event.
IncrementRedis(t) ==
  /\ Goto(t, "redis", "deltas")
  /\ \/ redis' = redis \union work[t] /\ UNCHANGED mishaps
     \/ Mishap /\ UNCHANGED redis
  /\ UNCHANGED <<row, bufferVars, threadVars, lifeVars, ledgerVars, resets>>

AddDelta(t) ==
  /\ Goto(t, "deltas", "read")
  /\ deltas' = [deltas EXCEPT ![Pod(t)] = @ \union work[t]]
  /\ UNCHANGED <<storeVars, pending, threadVars, lifeVars, ledgerVars, mishaps, resets>>

\* _pending_updates += 1 is a read and a write, outside the lock.
ReadPending(t) ==
  /\ Goto(t, "read", "write") /\ number' = [number EXCEPT ![t] = pending[Pod(t)]]
  /\ UNCHANGED <<storeVars, bufferVars, work, held, types, lifeVars, ledgerVars, mishaps, resets>>

WritePending(t) ==
  /\ Goto(t, "write", "full") /\ pending' = [pending EXCEPT ![Pod(t)] = number[t] + 1]
  /\ number' = [number EXCEPT ![t] = 0]
  /\ UNCHANGED <<storeVars, deltas, work, held, types, lifeVars, ledgerVars, mishaps, resets>>

\* The counter is read again: a full batch is flushed.
Full(t) ==
  /\ Goto(t, "full", IF pending[Pod(t)] >= BatchSize THEN "check" ELSE "idle")
  /\ work' = [work EXCEPT ![t] = {}]
  /\ UNCHANGED <<storeVars, bufferVars, held, number, types, lifeVars, ledgerVars, mishaps, resets>>

-----------------------------------------------------------------------------
(* flush_metrics_to_db *)

\* Nothing pending: nothing to do.  Otherwise the deltas are taken and zeroed,
\* and _pending_updates with them, under the lock.
LeftBehind_All(p) == deltas[p]
LeftBehind(p) == {}

Check(t) ==
  /\ IF pending[Pod(t)] = 0
     THEN Goto(t, "check", "idle") /\ UNCHANGED <<bufferVars, held>>
     ELSE /\ Goto(t, "check", "flush")
          /\ held' = [held EXCEPT ![t] = deltas[Pod(t)]]
          /\ deltas' = [deltas EXCEPT ![Pod(t)] = LeftBehind(Pod(t))]
          /\ pending' = [pending EXCEPT ![Pod(t)] = 0]
  /\ late' = IF t[2] = "main" THEN late \union InHand(Pod(t)) ELSE late
  /\ UNCHANGED <<storeVars, work, number, types, lifeVars, begun, gone, mishaps, resets>>

\* UPDATE ... total = total + delta, one statement; then, if some of the deltas
\* have attack types, the JSON of those is read, merged and written back.
Total_Overwritten(t) == held[t]
Total(t) == row.total \union held[t]

AddToRow(t) ==
  /\ Pod(t) \in pool
  /\ \/ Goto(t, "flush", "idle") /\ held[t] \intersect Threats = {}
        /\ held' = [held EXCEPT ![t] = {}]
     \/ Goto(t, "flush", "readTypes") /\ held[t] \intersect Threats # {}
        /\ held' = [held EXCEPT ![t] = @ \intersect Threats]
  /\ row' = [row EXCEPT !.total = Total(t)]
  /\ UNCHANGED <<redis, bufferVars, work, number, types, lifeVars, ledgerVars, mishaps, resets>>

ReadTypes(t) ==
  /\ Pod(t) \in pool /\ Goto(t, "readTypes", "writeTypes")
  /\ types' = [types EXCEPT ![t] = row.attacks]
  /\ UNCHANGED <<storeVars, bufferVars, work, held, number, lifeVars, ledgerVars, mishaps, resets>>

WriteTypes(t) ==
  /\ Pod(t) \in pool /\ Goto(t, "writeTypes", "idle")
  /\ row' = [row EXCEPT !.attacks = types[t] \union held[t]]
  /\ held' = [held EXCEPT ![t] = {}] /\ types' = [types EXCEPT ![t] = {}]
  /\ UNCHANGED <<redis, bufferVars, work, number, lifeVars, ledgerVars, mishaps, resets>>

\* A statement raises (no connection left, the pool closed, no database): the
\* error is logged, and what was taken is not put back.
FlushFails(t) ==
  /\ step[t] \in {"flush", "readTypes", "writeTypes"}
  /\ IF Pod(t) \in pool THEN Mishap ELSE UNCHANGED mishaps
  /\ step' = [step EXCEPT ![t] = "idle"]
  /\ gone' = IF step[t] = "flush" THEN gone \union held[t] ELSE gone
  /\ held' = [held EXCEPT ![t] = {}]
  /\ types' = [types EXCEPT ![t] = {}]
  /\ UNCHANGED <<storeVars, bufferVars, work, number, lifeVars, begun, late, resets>>

-----------------------------------------------------------------------------
(* Shutdown in the order of main.py, the death of a pod, and a reset *)

\* The metrics are flushed first, by the main thread, then the pool is closed.
\* The other threads work on: the Kafka consumer is stopped after that.
FirstOfShutdown_NoFlush == "idle"
FirstOfShutdown == "check"

BeginShutdown(p) ==
  /\ p \in pool \ ending /\ Goto(<<p, "main">>, "idle", FirstOfShutdown)
  /\ ending' = ending \union {p}
  /\ UNCHANGED <<storeVars, bufferVars, threadVars, pool, ledgerVars, mishaps, resets>>

ClosePool(p) ==
  /\ p \in pool \intersect ending /\ step[<<p, "main">>] = "idle"
  /\ pool' = pool \ {p}
  /\ UNCHANGED <<storeVars, bufferVars, step, threadVars, ending, ledgerVars, mishaps, resets>>

\* The process ends, after a shutdown or by a crash, and a new one starts.
Restart(p) ==
  /\ IF p \in pool THEN Mishap ELSE UNCHANGED mishaps
  /\ gone' = gone \union deltas[p] \union (InHand(p) \ row.total)
  /\ deltas' = [deltas EXCEPT ![p] = {}] /\ pending' = [pending EXCEPT ![p] = 0]
  /\ step' = [t \in Thread |-> IF Pod(t) = p THEN "idle" ELSE step[t]]
  /\ work' = [t \in Thread |-> IF Pod(t) = p THEN {} ELSE work[t]]
  /\ held' = [t \in Thread |-> IF Pod(t) = p THEN {} ELSE held[t]]
  /\ types' = [t \in Thread |-> IF Pod(t) = p THEN {} ELSE types[t]]
  /\ number' = [t \in Thread |-> IF Pod(t) = p THEN 0 ELSE number[t]]
  /\ pool' = pool \union {p} /\ ending' = ending \ {p}
  /\ UNCHANGED <<storeVars, begun, late, resets>>

\* The reset of the administrator, as far as the metrics go: the row, later the
\* deltas of the pod that serves it, later the Redis counters.  The other pods
\* keep their deltas.
ResetStep(n) == resets = n /\ resets < MaxResets /\ resets' = n + 1

ResetRow ==
  /\ ResetStep(0) /\ row' = [total |-> {}, attacks |-> {}]
  /\ gone' = gone \union row.total
  /\ UNCHANGED <<redis, bufferVars, step, threadVars, lifeVars, begun, late, mishaps>>

ResetDeltas(p) ==
  /\ ResetStep(1) /\ gone' = gone \union deltas[p]
  /\ deltas' = [deltas EXCEPT ![p] = {}] /\ pending' = [pending EXCEPT ![p] = 0]
  /\ UNCHANGED <<storeVars, step, threadVars, lifeVars, begun, late, mishaps>>

ResetRedis ==
  /\ ResetStep(2) /\ redis' = {}
  /\ UNCHANGED <<row, bufferVars, step, threadVars, lifeVars, ledgerVars, mishaps>>

-----------------------------------------------------------------------------
Process(t) ==
  \/ \E e \in Counted : Begin(t, e)
  \/ IncrementRedis(t) \/ AddDelta(t) \/ ReadPending(t) \/ WritePending(t) \/ Full(t)
Flush(t) == Check(t) \/ AddToRow(t) \/ ReadTypes(t) \/ WriteTypes(t) \/ FlushFails(t)

MetricsNext ==
  \/ \E t \in Thread : Process(t) \/ Flush(t)
  \/ \E p \in Replicas : BeginShutdown(p) \/ ClosePool(p) \/ Restart(p) \/ ResetDeltas(p)
  \/ ResetRow \/ ResetRedis

MetricsSpec == MetricsInit /\ [][MetricsNext]_metricsVars

-----------------------------------------------------------------------------
(* Properties *)

Disjoint(parts) == \A i, j \in DOMAIN parts : i # j => parts[i] \intersect parts[j] = {}

\* What a thread took and has not yet added to the row.
Unwritten(t) == IF step[t] = "flush" THEN held[t] ELSE {}
\* An event that is not in the deltas yet.
Uncounted(t) == IF step[t] \in {"redis", "deltas"} THEN work[t] ELSE {}

\* Whatever the threads do, each event is in one place at most: in hand, in the
\* deltas, with a flush, in the row or gone, so none is counted twice; and each
\* is in some place.
CountedOnce ==
  LET buffered == [p \in Replicas |-> deltas[p]]
      flushed  == [t \in Thread |-> Unwritten(t)]
      inHand   == [t \in Thread |-> Uncounted(t)]
      all(f)   == UNION {f[x] : x \in DOMAIN f}
  IN /\ Disjoint(buffered) /\ Disjoint(flushed) /\ Disjoint(inHand)
     /\ Disjoint(<<all(buffered), all(flushed), all(inHand), row.total, gone>>)
     /\ begun = all(buffered) \union all(flushed) \union all(inHand) \union row.total \union gone

\* The unlocked counter never hides a delta: while it is 0, each delta belongs to
\* a thread that has not counted up yet, so a later flush does not skip it.
PendingCoversDeltas ==
  \A p \in Replicas : pending[p] = 0 =>
    \A e \in deltas[p] : \E t \in Thread :
      Pod(t) = p /\ work[t] = {e} /\ step[t] \in {"read", "write"}

\* A clean shutdown loses only what a thread of the pod had in hand, its event or
\* its batch, or received later: everything else is in the row.
ShutdownLosesOnlyWorkInHand == mishaps = 0 /\ resets = 0 => gone \subseteq late
=============================================================================
