---------------------------- MODULE UserHistory ----------------------------
(***************************************************************************)
(* The rolling counters of one user that feed the scoring models:          *)
(* get_user_history, save_user_history and the stateful part of            *)
(* engineer_single_event in backend/app/inference.py.                      *)
(*                                                                         *)
(* A thread reads the history from Redis, or from the memory of its pod    *)
(* when Redis fails or has none, changes it and writes it back.  The       *)
(* dictionary in memory is shared: it is changed in place.                 *)
(***************************************************************************)
EXTENDS Integers

CONSTANTS Workers,      \* threads that score events
          PodOf,        \* the pod of each
          MaxEvents,    \* bound: events of the user
          HistoryTimes,     \* bound: the clock
          Lags,         \* how far behind the clock the timestamp of an event may be
          FailWindow, EventWindow  \* 30 and 60 minutes, in ticks

ASSUME HistoryConstantsOK ==
  /\ {FailWindow, EventWindow} \subseteq Nat \ {0}
  /\ DOMAIN PodOf = Workers /\ {MaxEvents, HistoryTimes} \subseteq Nat /\ Lags \subseteq Nat

VARIABLES
  clock,       \* the clock
  shared,    \* the Redis hash of the user: a set of at most one history
  local,     \* per pod: the entry of _user_history
  read,      \* per thread: the history it read from Redis, at most one
  aliased,   \* threads whose history is the dictionary in memory
  scored,    \* events that were counted, by kind
  late       \* an event older than the last one of its history was counted

historyVars == <<clock, shared, local, read, aliased, scored, late>>

Never   == -1   \* last_event_time None
Missing == -2   \* NaT: the event had no timestamp

\* failed_30m and events_1h; ip_hops_30m and admin_actions_15m are kept as
\* failed_30m is, for other kinds of events.
Counters == {"failed", "events"}
Replicas == {PodOf[t] : t \in Workers}
Window == [failed |-> FailWindow, events |-> EventWindow]

History == [last : Int, count : [Counters -> Nat]]
Blank == [last |-> Never, count |-> [k \in Counters |-> 0]]

HistoryTypeOK ==
  /\ clock \in Nat
  /\ shared \subseteq History /\ local \in [Replicas -> History]
  /\ read \in [Workers -> SUBSET History] /\ aliased \subseteq Workers
  /\ scored \in [Counters -> Nat] /\ late \in BOOLEAN

HistoryInit ==
  /\ clock = 0 /\ shared = {} /\ local = [p \in Replicas |-> Blank]
  /\ read = [t \in Workers |-> {}] /\ aliased = {}
  /\ scored = [k \in Counters |-> 0] /\ late = FALSE

-----------------------------------------------------------------------------
\* int(count * max(0, 1 - elapsed / window)); an event older than the last one
\* has a negative elapsed time and a factor above 1, and without a timestamp
\* the elapsed time is NaN and the factor 0.
Decayed_Unclamped(n, elapsed, window) == (n * (window - elapsed)) \div window
Decayed_SignError(n, elapsed, window) ==
  IF elapsed >= window THEN 0 ELSE (n * (window + elapsed)) \div window
Decayed(n, elapsed, window) ==
  IF elapsed >= window THEN 0 ELSE (n * (window - elapsed)) \div window

\* What an event adds to each counter.
Adds(ev) == [failed |-> IF ev.success THEN 0 ELSE 1,
             events |-> 1]

Elapsed(h, ev) == IF h.last = Never THEN 0 ELSE ev.time - h.last
Kept(h, ev, k) ==
  IF Missing \in {h.last, ev.time} /\ h.last # Never THEN 0
  ELSE Decayed(h.count[k], Elapsed(h, ev), Window[k])

After(h, ev) ==
  [last  |-> ev.time,
   count |-> [k \in Counters |-> Kept(h, ev, k) + Adds(ev)[k]]]

\* With an event older than the last one the counters grow instead of decaying.
Late(h, ev) == Missing \notin {h.last, ev.time} /\ Elapsed(h, ev) < 0

-----------------------------------------------------------------------------
Free(t) == read[t] = {} /\ t \notin aliased

\* get_user_history: from Redis.
ReadShared(t) ==
  /\ Free(t) /\ shared # {} /\ read' = [read EXCEPT ![t] = shared]
  /\ UNCHANGED <<clock, shared, local, aliased, scored, late>>

\* get_user_history: no hash in Redis, or no Redis; the caller gets the
\* dictionary of its pod itself.
ReadLocal(t) ==
  /\ Free(t) /\ aliased' = aliased \union {t}
  /\ UNCHANGED <<clock, shared, local, read, scored, late>>

\* The counters are brought up to date and saved: in Redis if it answers,
\* otherwise in memory.
Update(t, ev, redisAnswers) ==
  /\ ~ Free(t) /\ scored["events"] < MaxEvents
  /\ \E old \in IF t \in aliased THEN {local[PodOf[t]]} ELSE read[t] :
       /\ shared' = IF redisAnswers THEN {After(old, ev)} ELSE shared
       /\ local' = IF t \in aliased \/ ~ redisAnswers
                   THEN [local EXCEPT ![PodOf[t]] = After(old, ev)] ELSE local
       /\ late' = (late \/ Late(old, ev))
  /\ scored' = [k \in Counters |-> scored[k] + Adds(ev)[k]]
  /\ aliased' = aliased \ {t} /\ read' = [read EXCEPT ![t] = {}] /\ UNCHANGED clock

\* The hash expires after an hour without events, or Redis restarts empty.
HistoryExpires ==
  /\ shared # {} /\ shared' = {}
  /\ UNCHANGED <<clock, local, read, aliased, scored, late>>

\* Events of the portal carry the time, replayed ones an older time, and those
\* that come back as Zeek lines none.
Stamps == {Missing} \union {clock - lag : lag \in {l \in Lags : l <= clock}}
Events == [time : Stamps, success : BOOLEAN]

Score(t) == \E ev \in Events, redisAnswers \in BOOLEAN : Update(t, ev, redisAnswers)

\* A pod restarts with an empty memory.
ForgetHistory(p) ==
  /\ local' = [local EXCEPT ![p] = Blank]
  /\ aliased' = {t \in aliased : PodOf[t] # p}
  /\ read' = [t \in Workers |-> IF PodOf[t] = p THEN {} ELSE read[t]]
  /\ UNCHANGED <<clock, shared, scored, late>>

\* Scoring takes less than a tick.
HistoryTick ==
  /\ clock < HistoryTimes /\ \A t \in Workers : Free(t)
  /\ clock' = clock + 1 /\ UNCHANGED <<shared, local, read, aliased, scored, late>>

HistoryNext ==
  \/ \E t \in Workers : ReadShared(t) \/ ReadLocal(t) \/ Score(t)
  \/ HistoryExpires \/ HistoryTick
  \/ \E p \in Replicas : ForgetHistory(p)

HistorySpec == HistoryInit /\ [][HistoryNext]_historyVars

-----------------------------------------------------------------------------
\* A rolling counter never exceeds the number of events that it counted,
\* wherever the history is kept, lost or brought back from a pod's memory, as
\* long as the events of the user come in the order of their timestamps.
CountersWithinEvents ==
  ~ late => \A h \in shared \union {local[p] : p \in Replicas} :
              \A k \in Counters : h.count[k] <= scored[k]
=============================================================================
