----------------------- MODULE PipelineMetricsProofs ------------------------
(***************************************************************************)
(* Where the events are that the pipeline counters count, for any pods,    *)
(* threads, events and failures: each in one place, and none of them in    *)
(* deltas that the next flush would pass over.                             *)
(***************************************************************************)
EXTENDS KafkaIngestProofs, TLAPS

\* The row, the buffers and the threads have the shape of their types.
Shapes ==
  /\ row = [total |-> row.total, attacks |-> row.attacks]
  /\ deltas \in [Replicas -> SUBSET Counted] /\ pending \in [Replicas -> Nat]
  /\ step \in [Thread -> Steps] /\ work \in [Thread -> SUBSET Counted]
  /\ held \in [Thread -> SUBSET Counted] /\ number \in [Thread -> Nat]

Processing == {"redis", "deltas", "read", "write", "full"}
Flushing   == {"flush", "readTypes", "writeTypes"}

\* A thread has an event while it processes one, deltas while it flushes, and
\* nothing otherwise.
Hands ==
  \A t \in Thread :
    /\ step[t] \in Processing => held[t] = {} /\ \E e \in Counted : work[t] = {e}
    /\ step[t] \in Flushing => work[t] = {}
    /\ step[t] \in {"idle", "check"} => work[t] = {} /\ held[t] = {}

\* An event is in no two of the places.
OnePlace ==
  \A e \in Counted :
    /\ \A p, q \in Replicas : e \in deltas[p] /\ e \in deltas[q] => p = q
    /\ \A t, u \in Thread : e \in Unwritten(t) /\ e \in Unwritten(u) => t = u
    /\ \A t, u \in Thread : e \in Uncounted(t) /\ e \in Uncounted(u) => t = u
    /\ \A t, u \in Thread : ~ (e \in Unwritten(t) /\ e \in Uncounted(u))
    /\ \A p \in Replicas : e \in deltas[p] =>
         /\ e \notin row.total /\ e \notin gone
         /\ \A t \in Thread : e \notin Unwritten(t) /\ e \notin Uncounted(t)
    /\ \A t \in Thread : e \in Unwritten(t) \/ e \in Uncounted(t) => e \notin row.total /\ e \notin gone
    /\ ~ (e \in row.total /\ e \in gone)

Placed(e) ==
  \/ \E p \in Replicas : e \in deltas[p]
  \/ \E t \in Thread : e \in Unwritten(t) \/ e \in Uncounted(t)
  \/ e \in row.total \/ e \in gone

\* The events in some place are those that were begun.
AllPlaced == \A e : e \in begun <=> Placed(e)

\* An event in hand that is counted already is known to the deltas of its pod, to
\* a flush of its pod, or to have left them.
Traced ==
  \A t \in Thread :
    /\ step[t] \in {"read", "write", "full"} => \A e \in work[t] :
         \/ e \in deltas[Pod(t)] \/ e \in row.total \/ e \in gone
         \/ \E u \in Thread : Pod(u) = Pod(t) /\ e \in Unwritten(u)
    /\ step[t] \in {"readTypes", "writeTypes"} => \A e \in held[t] : e \in row.total \/ e \in gone

MetricsInv == Shapes /\ Hands /\ OnePlace /\ AllPlaced /\ Traced /\ PendingCoversDeltas /\ begun \subseteq Counted

-----------------------------------------------------------------------------
\* At the start no event has been begun.
LEMMA MetricsStart == MetricsInit => MetricsInv
<1> SUFFICES ASSUME MetricsInit PROVE MetricsInv
  OBVIOUS
<1>1. Shapes
  BY DEF MetricsInit, Shapes, Steps
<1>2. /\ \A t \in Thread : step[t] = "idle" /\ work[t] = {} /\ held[t] = {}
      /\ \A p \in Replicas : deltas[p] = {}
      /\ row.total = {} /\ gone = {} /\ begun = {}
  BY DEF MetricsInit
<1>3. \A t \in Thread : Unwritten(t) = {} /\ Uncounted(t) = {}
  BY <1>2 DEF Unwritten, Uncounted
<1>4. Hands
  BY <1>2 DEF Hands, Processing, Flushing
<1>5. OnePlace /\ AllPlaced
  BY <1>2, <1>3 DEF OnePlace, AllPlaced, Placed
<1>6. Traced /\ PendingCoversDeltas
  BY <1>2 DEF Traced, PendingCoversDeltas
<1>7. QED
  BY <1>1, <1>2, <1>4, <1>5, <1>6 DEF MetricsInv

\* Events stay where they are when neither the stores, the deltas nor what the
\* threads have in hand or take to the row changes.
LEMMA NothingMoves ==
  ASSUME MetricsInv, UNCHANGED <<deltas, gone, begun>>, row'.total = row.total,
         \A t \in Thread : Unwritten(t)' = Unwritten(t) /\ Uncounted(t)' = Uncounted(t)
  PROVE  OnePlace' /\ AllPlaced' /\ begun' \subseteq Counted
<1>1. OnePlace'
  BY DEF MetricsInv, OnePlace
<1>2. \A e : Placed(e)' <=> Placed(e)
  BY DEF Placed
<1>3. QED
  BY <1>1, <1>2 DEF MetricsInv, AllPlaced

\* The steps of a thread that has an event and moves it nowhere.
LEMMA HandlingKeeps ==
  ASSUME MetricsInv, NEW t \in Thread,
         IncrementRedis(t) \/ ReadPending(t) \/ WritePending(t) \/ Full(t)
  PROVE  MetricsInv'
<1> USE DEF MetricsInv
<1>1. UNCHANGED <<row, deltas, gone, begun, held>>
  BY DEF IncrementRedis, ReadPending, WritePending, Full, storeVars, bufferVars, threadVars, ledgerVars
<1>2. PICK to \in Steps : /\ step' = [step EXCEPT ![t] = to]
                          /\ \/ step[t] = "redis" /\ to = "deltas" /\ work' = work
                             \/ step[t] = "read" /\ to = "write" /\ work' = work
                             \/ step[t] = "write" /\ to = "full" /\ work' = work
                             \/ step[t] = "full" /\ to \in {"check", "idle"}
                                /\ work' = [work EXCEPT ![t] = {}]
  BY DEF IncrementRedis, ReadPending, WritePending, Full, Goto, threadVars, Steps
<1>3. pending' \in [Replicas -> Nat] /\ number' \in [Thread -> Nat]
  BY DEF IncrementRedis, ReadPending, WritePending, Full, Goto, bufferVars, threadVars, Shapes, Thread, Pod
<1>4. Shapes'
  BY <1>1, <1>2, <1>3 DEF Shapes
<1>5. Hands'
  BY <1>1, <1>2 DEF Hands, Shapes, Processing, Flushing
<1>6. \A u \in Thread : Unwritten(u)' = Unwritten(u) /\ Uncounted(u)' = Uncounted(u)
  BY <1>1, <1>2 DEF Unwritten, Uncounted, Shapes
<1>7. OnePlace' /\ AllPlaced' /\ begun' \subseteq Counted
  BY <1>1, <1>6, NothingMoves
<1>8. Traced'
  <2>1. \A u \in Thread : step'[u] \in {"read", "write", "full"} =>
          step[u] \in {"read", "write", "full"} /\ work'[u] = work[u]
    BY <1>2 DEF Shapes
  <2>2. \A u \in Thread : step'[u] \in {"readTypes", "writeTypes"} => step[u] = step'[u]
    BY <1>2 DEF Shapes
  <2>3. QED
    BY <1>1, <1>6, <2>1, <2>2 DEF Traced
<1>9. PendingCoversDeltas'
  <2>1. CASE WritePending(t)
    <3>1. /\ pending' = [pending EXCEPT ![Pod(t)] = number[t] + 1] /\ number[t] + 1 # 0
          /\ work' = work /\ step' = [step EXCEPT ![t] = "full"]
      BY <2>1 DEF WritePending, Goto, Shapes
    <3>2. \A u \in Thread : Pod(u) # Pod(t) => step'[u] = step[u]
      BY <3>1 DEF Shapes
    <3>3. ASSUME NEW p \in Replicas, pending'[p] = 0 PROVE p # Pod(t) /\ pending[p] = 0
      BY <3>1, <3>3 DEF Shapes
    <3>4. QED
      BY <1>1, <3>1, <3>2, <3>3 DEF PendingCoversDeltas
  <2>2. CASE ~ WritePending(t)
    <3>1. pending' = pending
      BY <2>2 DEF IncrementRedis, ReadPending, Full, bufferVars
    <3>2. /\ step[t] # "write" \/ to # "full"
          /\ step[t] \in {"redis", "read", "full"}
      BY <2>2 DEF IncrementRedis, ReadPending, Full, Goto
    <3>3. \A u \in Thread : step[u] \in {"read", "write"} => step'[u] \in {"read", "write"} /\ work'[u] = work[u]
      BY <1>2, <3>2 DEF Shapes
    <3>4. QED
      BY <1>1, <3>1, <3>3 DEF PendingCoversDeltas
  <2>3. QED
    BY <2>1, <2>2
<1>10. QED
  BY <1>4, <1>5, <1>7, <1>8, <1>9

\* A thread begins to process an event that is in no place yet.
LEMMA BeginKeeps ==
  ASSUME MetricsInv, NEW t \in Thread, NEW e \in Counted, Begin(t, e)
  PROVE  MetricsInv'
<1> USE DEF MetricsInv
<1>1. /\ UNCHANGED <<row, deltas, pending, held, number, gone>>
      /\ e \notin begun /\ begun' = begun \union {e}
      /\ step[t] = "idle" /\ step' = [step EXCEPT ![t] = "redis"]
      /\ work' = [work EXCEPT ![t] = {e}]
  BY DEF Begin, Goto, storeVars, bufferVars
<1>2. Shapes'
  BY <1>1 DEF Shapes, Steps
<1>3. Hands'
  BY <1>1 DEF Hands, Shapes, Processing, Flushing
<1>4. /\ \A u \in Thread : Unwritten(u)' = Unwritten(u)
      /\ \A u \in Thread \ {t} : Uncounted(u)' = Uncounted(u)
      /\ Uncounted(t)' = {e} /\ Uncounted(t) = {}
  BY <1>1 DEF Unwritten, Uncounted, Shapes
<1>5. ~ Placed(e)
  BY <1>1 DEF AllPlaced
<1>6. OnePlace'
  BY <1>1, <1>4, <1>5 DEF OnePlace, Placed
<1>7. \A x : Placed(x)' <=> Placed(x) \/ x = e
  BY <1>1, <1>4 DEF Placed
<1>8. AllPlaced'
  BY <1>1, <1>7 DEF AllPlaced
<1>9. Traced'
  BY <1>1, <1>4 DEF Traced, Shapes
<1>10. PendingCoversDeltas'
  <2>1. \A u \in Thread : step[u] \in {"read", "write"} => step'[u] = step[u] /\ work'[u] = work[u]
    BY <1>1 DEF Shapes
  <2>2. QED
    BY <1>1, <2>1 DEF PendingCoversDeltas
<1>11. QED
  BY <1>1, <1>2, <1>3, <1>6, <1>8, <1>9, <1>10

\* The event goes from the hand of the thread to the deltas of its pod.
LEMMA AddDeltaKeeps ==
  ASSUME MetricsInv, NEW t \in Thread, AddDelta(t)
  PROVE  MetricsInv'
<1> USE DEF MetricsInv
<1>1. /\ UNCHANGED <<row, pending, work, held, number, gone, begun>>
      /\ step[t] = "deltas" /\ step' = [step EXCEPT ![t] = "read"]
      /\ deltas' = [deltas EXCEPT ![Pod(t)] = @ \union work[t]]
  BY DEF AddDelta, Goto, storeVars, threadVars, ledgerVars
<1>2. Pod(t) \in Replicas
  BY DEF Thread, Pod
<1>3. PICK e \in Counted : work[t] = {e}
  BY <1>1 DEF Hands, Processing
<1>4. Shapes'
  BY <1>1, <1>2 DEF Shapes, Steps
<1>5. Hands'
  BY <1>1 DEF Hands, Shapes, Processing, Flushing
<1>6. /\ \A u \in Thread : Unwritten(u)' = Unwritten(u)
      /\ \A u \in Thread \ {t} : Uncounted(u)' = Uncounted(u)
      /\ Uncounted(t) = {e} /\ Uncounted(t)' = {}
      /\ deltas'[Pod(t)] = deltas[Pod(t)] \union {e}
      /\ \A p \in Replicas \ {Pod(t)} : deltas'[p] = deltas[p]
  BY <1>1, <1>2, <1>3 DEF Unwritten, Uncounted, Shapes
<1>7. OnePlace'
  BY <1>1, <1>2, <1>6 DEF OnePlace
<1>8. AllPlaced'
  <2>1. \A x : Placed(x)' <=> Placed(x)
    BY <1>1, <1>2, <1>6 DEF Placed
  <2>2. QED
    BY <1>1, <2>1 DEF AllPlaced
<1>9. Traced'
  <2>1. ASSUME NEW u \in Thread, step'[u] \in {"read", "write", "full"}, NEW x \in work'[u]
        PROVE  \/ x \in deltas'[Pod(u)] \/ x \in row'.total \/ x \in gone'
               \/ \E w \in Thread : Pod(w) = Pod(u) /\ x \in Unwritten(w)'
    <3>1. CASE u = t
      BY <1>1, <1>3, <1>6, <2>1, <3>1
    <3>2. CASE u # t
      <4>1. step[u] \in {"read", "write", "full"} /\ x \in work[u] /\ Pod(u) \in Replicas
        BY <1>1, <2>1, <3>2 DEF Shapes, Thread, Pod
      <4>2. deltas[Pod(u)] \subseteq deltas'[Pod(u)]
        BY <1>6, <4>1
      <4>3. QED
        BY <1>1, <1>6, <4>1, <4>2 DEF Traced
    <3>3. QED
      BY <3>1, <3>2
  <2>2. \A u \in Thread : step'[u] \in {"readTypes", "writeTypes"} => step[u] = step'[u]
    BY <1>1 DEF Shapes
  <2>3. QED
    BY <1>1, <2>1, <2>2 DEF Traced
<1>10. PendingCoversDeltas'
  <2>1. ASSUME NEW p \in Replicas, pending'[p] = 0, NEW x \in deltas'[p]
        PROVE  \E u \in Thread : Pod(u) = p /\ work'[u] = {x} /\ step'[u] \in {"read", "write"}
    <3>1. CASE p = Pod(t) /\ x = e
      BY <1>1, <1>3, <3>1 DEF Shapes
    <3>2. CASE ~ (p = Pod(t) /\ x = e)
      <4>1. x \in deltas[p]
        BY <1>6, <2>1, <3>2
      <4>2. PICK u \in Thread : Pod(u) = p /\ work[u] = {x} /\ step[u] \in {"read", "write"}
        BY <1>1, <2>1, <4>1 DEF PendingCoversDeltas
      <4>3. step'[u] = step[u] /\ work'[u] = work[u]
        BY <1>1, <4>2 DEF Shapes
      <4>4. QED
        BY <4>2, <4>3
    <3>3. QED
      BY <3>1, <3>2
  <2>2. QED
    BY <2>1 DEF PendingCoversDeltas
<1>11. QED
  BY <1>1, <1>4, <1>5, <1>7, <1>8, <1>9, <1>10

\* A flush takes all the deltas of its pod, or finds nothing pending.
LEMMA CheckKeeps ==
  ASSUME MetricsInv, NEW t \in Thread, Check(t)
  PROVE  MetricsInv'
<1> USE DEF MetricsInv
<1>1. /\ UNCHANGED <<row, work, number, gone, begun>>
      /\ step[t] = "check" /\ Pod(t) \in Replicas /\ work[t] = {} /\ held[t] = {}
  BY DEF Check, Goto, storeVars, Hands, Thread, Pod
<1>2. CASE pending[Pod(t)] = 0
  <2>1. UNCHANGED <<deltas, pending, held>> /\ step' = [step EXCEPT ![t] = "idle"]
    BY <1>2 DEF Check, Goto, bufferVars
  <2>2. Shapes' /\ Hands'
    BY <1>1, <2>1 DEF Shapes, Hands, Steps, Processing, Flushing
  <2>3. \A u \in Thread : Unwritten(u)' = Unwritten(u) /\ Uncounted(u)' = Uncounted(u)
    BY <1>1, <2>1 DEF Unwritten, Uncounted, Shapes
  <2>4. OnePlace' /\ AllPlaced' /\ begun' \subseteq Counted
    BY <1>1, <2>1, <2>3, NothingMoves
  <2>5. \A u \in Thread : step'[u] # "idle" => step'[u] = step[u]
    BY <2>1 DEF Shapes
  <2>6. \A u \in Thread : step[u] \in {"read", "write"} => step'[u] = step[u]
    BY <1>1, <2>1 DEF Shapes
  <2>7. Traced' /\ PendingCoversDeltas'
    BY <1>1, <2>1, <2>3, <2>5, <2>6 DEF Traced, PendingCoversDeltas
  <2>8. QED
    BY <2>2, <2>4, <2>7
<1>3. CASE pending[Pod(t)] # 0
  <2>1. /\ step' = [step EXCEPT ![t] = "flush"]
        /\ held' = [held EXCEPT ![t] = deltas[Pod(t)]]
        /\ deltas' = [deltas EXCEPT ![Pod(t)] = {}]
        /\ pending' = [pending EXCEPT ![Pod(t)] = 0]
    BY <1>3 DEF Check, Goto, LeftBehind
  <2>2. Shapes'
    BY <1>1, <2>1 DEF Shapes, Steps
  <2>3. Hands'
    BY <1>1, <2>1 DEF Shapes, Hands, Processing, Flushing
  <2>4. /\ \A u \in Thread \ {t} : Unwritten(u)' = Unwritten(u)
        /\ Unwritten(t) = {} /\ Unwritten(t)' = deltas[Pod(t)]
        /\ \A u \in Thread : Uncounted(u)' = Uncounted(u)
        /\ deltas'[Pod(t)] = {} /\ \A p \in Replicas \ {Pod(t)} : deltas'[p] = deltas[p]
    BY <1>1, <2>1 DEF Unwritten, Uncounted, Shapes
  <2>5. OnePlace'
    BY <1>1, <2>4 DEF OnePlace
  <2>6. AllPlaced'
    <3>1. \A x : Placed(x)' <=> Placed(x)
      BY <1>1, <2>4 DEF Placed
    <3>2. QED
      BY <1>1, <3>1 DEF AllPlaced
  <2>7. Traced'
    <3>1. ASSUME NEW u \in Thread, step'[u] \in {"read", "write", "full"}, NEW x \in work'[u]
          PROVE  \/ x \in deltas'[Pod(u)] \/ x \in row'.total \/ x \in gone'
                 \/ \E w \in Thread : Pod(w) = Pod(u) /\ x \in Unwritten(w)'
      <4>1. step[u] \in {"read", "write", "full"} /\ x \in work[u] /\ Pod(u) \in Replicas
        BY <1>1, <2>1, <3>1 DEF Shapes, Thread, Pod
      <4>2. CASE x \in deltas[Pod(u)]
        BY <2>4, <4>1, <4>2
      <4>3. CASE \E w \in Thread : Pod(w) = Pod(u) /\ x \in Unwritten(w)
        BY <2>4, <4>3
      <4>4. QED
        BY <1>1, <4>1, <4>2, <4>3 DEF Traced
    <3>2. \A u \in Thread : step'[u] \in {"readTypes", "writeTypes"} => step[u] = step'[u] /\ held'[u] = held[u]
      BY <2>1 DEF Shapes
    <3>3. QED
      BY <1>1, <3>1, <3>2 DEF Traced
  <2>8. PendingCoversDeltas'
    <3>1. \A u \in Thread : step[u] \in {"read", "write"} => step'[u] = step[u]
      BY <1>1, <2>1 DEF Shapes
    <3>2. \A p \in Replicas \ {Pod(t)} : pending'[p] = pending[p]
      BY <2>1 DEF Shapes
    <3>3. QED
      BY <1>1, <2>4, <3>1, <3>2 DEF PendingCoversDeltas
  <2>9. QED
    BY <1>1, <2>2, <2>3, <2>5, <2>6, <2>7, <2>8
<1>4. QED
  BY <1>2, <1>3

\* What a flush holds goes to the row, or is lost when its UPDATE fails.
LEMMA UpdateKeeps ==
  ASSUME MetricsInv, NEW t \in Thread, step[t] = "flush", AddToRow(t) \/ FlushFails(t)
  PROVE  MetricsInv'
<1> USE DEF MetricsInv
<1>1. /\ UNCHANGED <<deltas, pending, work, number, begun>> /\ Unwritten(t) = held[t]
      /\ work[t] = {}
  BY DEF AddToRow, FlushFails, bufferVars, ledgerVars, Unwritten, Hands, Flushing
<1>2. PICK to \in {"idle", "readTypes"}, kept \in SUBSET held[t] :
        /\ step' = [step EXCEPT ![t] = to] /\ held' = [held EXCEPT ![t] = kept]
        /\ to = "idle" => kept = {}
  <2>1. CASE AddToRow(t)
    BY <2>1 DEF AddToRow, Goto
  <2>2. CASE FlushFails(t)
    BY <2>2 DEF FlushFails
  <2>3. QED
    BY <2>1, <2>2
<1>3. /\ row' = [total |-> row'.total, attacks |-> row'.attacks]
      /\ \/ row'.total = row.total \union held[t] /\ gone' = gone
         \/ row'.total = row.total /\ gone' = gone \union held[t]
  <2>1. CASE AddToRow(t)
    BY <2>1 DEF AddToRow, Total, ledgerVars, Shapes
  <2>2. CASE FlushFails(t)
    BY <2>2 DEF FlushFails, storeVars, Shapes
  <2>3. QED
    BY <2>1, <2>2
<1>4. Shapes'
  BY <1>1, <1>2, <1>3 DEF Shapes, Steps
<1>5. Hands'
  BY <1>1, <1>2 DEF Shapes, Hands, Processing, Flushing
<1>6. /\ \A u \in Thread \ {t} : Unwritten(u)' = Unwritten(u)
      /\ Unwritten(t)' = {} /\ Uncounted(t) = {}
      /\ \A u \in Thread : Uncounted(u)' = Uncounted(u)
  BY <1>1, <1>2 DEF Unwritten, Uncounted, Shapes
<1>7. OnePlace'
  BY <1>1, <1>3, <1>6 DEF OnePlace
<1>8. AllPlaced'
  <2>1. \A x : Placed(x)' <=> Placed(x)
    BY <1>1, <1>3, <1>6 DEF Placed
  <2>2. QED
    BY <1>1, <2>1 DEF AllPlaced
<1>9. Traced'
  <2>1. ASSUME NEW u \in Thread, step'[u] \in {"read", "write", "full"}, NEW x \in work'[u]
        PROVE  \/ x \in deltas'[Pod(u)] \/ x \in row'.total \/ x \in gone'
               \/ \E w \in Thread : Pod(w) = Pod(u) /\ x \in Unwritten(w)'
    <3>1. step[u] \in {"read", "write", "full"} /\ x \in work[u]
      BY <1>1, <1>2, <2>1 DEF Shapes
    <3>2. CASE \E w \in Thread : Pod(w) = Pod(u) /\ x \in Unwritten(w)
      BY <1>1, <1>3, <1>6, <3>2
    <3>3. QED
      BY <1>1, <1>3, <3>1, <3>2 DEF Traced
  <2>2. ASSUME NEW u \in Thread, step'[u] \in {"readTypes", "writeTypes"}, NEW x \in held'[u]
        PROVE  x \in row'.total \/ x \in gone'
    <3>1. CASE u = t
      BY <1>2, <1>3, <2>2, <3>1 DEF Shapes
    <3>2. CASE u # t
      BY <1>2, <1>3, <2>2, <3>2 DEF Shapes, Traced
    <3>3. QED
      BY <3>1, <3>2
  <2>3. QED
    BY <2>1, <2>2 DEF Traced
<1>10. PendingCoversDeltas'
  <2>1. \A u \in Thread : step[u] \in {"read", "write"} => step'[u] = step[u]
    BY <1>2 DEF Shapes
  <2>2. QED
    BY <1>1, <2>1 DEF PendingCoversDeltas
<1>11. QED
  BY <1>1, <1>4, <1>5, <1>7, <1>8, <1>9, <1>10

\* The attack types are merged, or that fails; shutdowns; the reset of Redis:
\* none of these moves an event.
LEMMA AsideKeeps ==
  ASSUME MetricsInv, NEW t \in Thread,
         \/ ReadTypes(t) \/ WriteTypes(t) \/ (FlushFails(t) /\ step[t] # "flush")
         \/ \E p \in Replicas : BeginShutdown(p) \/ ClosePool(p)
         \/ ResetRedis
  PROVE  MetricsInv'
<1> USE DEF MetricsInv
<1>1. UNCHANGED <<deltas, pending, work, number, gone, begun>> /\ row'.total = row.total
      /\ row' = [total |-> row'.total, attacks |-> row'.attacks]
  BY DEF ReadTypes, WriteTypes, FlushFails, BeginShutdown, ClosePool, ResetRedis,
         storeVars, bufferVars, threadVars, ledgerVars, Shapes
<1>2. \/ UNCHANGED <<step, held>>
      \/ \E u \in Thread : /\ step[u] = "idle" /\ step' = [step EXCEPT ![u] = "check"] /\ held' = held
      \/ \E u \in Thread : /\ step[u] = "readTypes" /\ step' = [step EXCEPT ![u] = "writeTypes"] /\ held' = held
      \/ \E u \in Thread : /\ step[u] \in {"readTypes", "writeTypes"}
                            /\ step' = [step EXCEPT ![u] = "idle"] /\ held' = [held EXCEPT ![u] = {}]
  <2>1. CASE ReadTypes(t)
    BY <2>1 DEF ReadTypes, Goto
  <2>2. CASE WriteTypes(t)
    BY <2>2 DEF WriteTypes, Goto
  <2>3. CASE FlushFails(t) /\ step[t] # "flush"
    BY <2>3 DEF FlushFails
  <2>4. ASSUME NEW p \in Replicas, BeginShutdown(p)
        PROVE  \E u \in Thread : /\ step[u] = "idle" /\ step' = [step EXCEPT ![u] = "check"]
                                 /\ held' = held
    <3>1. <<p, "main">> \in Thread
      BY MetricsConstantsOK DEF Thread
    <3>2. QED
      BY <2>4, <3>1 DEF BeginShutdown, Goto, FirstOfShutdown, threadVars
  <2>5. CASE ResetRedis \/ \E p \in Replicas : ClosePool(p)
    BY <2>5 DEF ResetRedis, ClosePool, threadVars
  <2>6. QED
    BY <2>1, <2>2, <2>3, <2>4, <2>5
<1>3. Shapes'
  BY <1>1, <1>2 DEF Shapes, Steps
<1>4. Hands'
  BY <1>1, <1>2 DEF Shapes, Hands, Processing, Flushing
<1>5. \A u \in Thread : Unwritten(u)' = Unwritten(u) /\ Uncounted(u)' = Uncounted(u)
  BY <1>1, <1>2 DEF Unwritten, Uncounted, Shapes
<1>6. OnePlace' /\ AllPlaced' /\ begun' \subseteq Counted
  BY <1>1, <1>5, NothingMoves
<1>7. /\ \A u \in Thread : step'[u] \in {"read", "write", "full"} <=> step[u] \in {"read", "write", "full"}
      /\ \A u \in Thread : step[u] \in {"read", "write"} => step'[u] = step[u]
      /\ \A u \in Thread : step'[u] \in {"readTypes", "writeTypes"} =>
           step[u] \in {"readTypes", "writeTypes"} /\ held'[u] = held[u]
  BY <1>2 DEF Shapes
<1>8. Traced'
  BY <1>1, <1>5, <1>7 DEF Traced
<1>9. PendingCoversDeltas'
  BY <1>1, <1>7 DEF PendingCoversDeltas
<1>10. QED
  BY <1>3, <1>4, <1>6, <1>8, <1>9

\* A reset erases the row, and the deltas of one pod.
LEMMA ResetKeeps ==
  ASSUME MetricsInv, NEW p \in Replicas, ResetRow \/ ResetDeltas(p)
  PROVE  MetricsInv'
<1> USE DEF MetricsInv
<1>1. UNCHANGED <<step, work, held, number, begun>>
  BY DEF ResetRow, ResetDeltas, threadVars
<1>2. \A u \in Thread : Unwritten(u)' = Unwritten(u) /\ Uncounted(u)' = Uncounted(u)
  BY <1>1 DEF Unwritten, Uncounted
<1>3. CASE ResetRow
  <2>1. /\ UNCHANGED <<deltas, pending>> /\ gone' = gone \union row.total
        /\ row'.total = {} /\ row' = [total |-> row'.total, attacks |-> row'.attacks]
    BY <1>3 DEF ResetRow, bufferVars
  <2>2. OnePlace'
    BY <1>2, <2>1 DEF OnePlace
  <2>3. \A x : Placed(x)' <=> Placed(x)
    BY <1>2, <2>1 DEF Placed
  <2>4. Shapes' /\ Hands' /\ PendingCoversDeltas'
    BY <1>1, <2>1 DEF Shapes, Hands, PendingCoversDeltas
  <2>5. Traced'
    BY <1>1, <1>2, <2>1 DEF Traced
  <2>6. QED
    BY <1>1, <2>2, <2>3, <2>4, <2>5 DEF AllPlaced
<1>4. CASE ResetDeltas(p)
  <2>1. /\ row' = row /\ gone' = gone \union deltas[p]
        /\ deltas' = [deltas EXCEPT ![p] = {}] /\ pending' = [pending EXCEPT ![p] = 0]
    BY <1>4 DEF ResetDeltas, storeVars
  <2>2. deltas'[p] = {} /\ \A q \in Replicas \ {p} : deltas'[q] = deltas[q] /\ pending'[q] = pending[q]
    BY <2>1 DEF Shapes
  <2>3. OnePlace'
    BY <1>2, <2>1, <2>2 DEF OnePlace
  <2>4. \A x : Placed(x)' <=> Placed(x)
    BY <1>2, <2>1, <2>2 DEF Placed
  <2>5. Shapes' /\ Hands'
    BY <1>1, <2>1 DEF Shapes, Hands
  <2>6. PendingCoversDeltas'
    BY <1>1, <2>2 DEF PendingCoversDeltas
  <2>7. Traced'
    <3>1. \A u \in Thread : Pod(u) \in Replicas
      BY DEF Thread, Pod
    <3>2. \A q \in Replicas : \A x \in deltas[q] : x \in deltas'[q] \/ x \in gone'
      BY <2>1, <2>2
    <3>3. QED
      BY <1>1, <1>2, <2>1, <3>1, <3>2 DEF Traced
  <2>8. QED
    BY <1>1, <2>3, <2>4, <2>5, <2>6, <2>7 DEF AllPlaced
<1>5. QED
  BY <1>3, <1>4

\* What a pod that dies has in its deltas or in hand, and not in the row, is gone.
LEMMA RestartKeeps ==
  ASSUME MetricsInv, NEW p \in Replicas, Restart(p)
  PROVE  MetricsInv'
<1> USE DEF MetricsInv
<1> DEFINE Ours == {u \in Thread : Pod(u) = p}
<1>1. /\ UNCHANGED <<row, begun>>
      /\ gone' = gone \union deltas[p] \union (InHand(p) \ row.total)
      /\ deltas' = [deltas EXCEPT ![p] = {}] /\ pending' = [pending EXCEPT ![p] = 0]
      /\ step' = [t \in Thread |-> IF Pod(t) = p THEN "idle" ELSE step[t]]
      /\ work' = [t \in Thread |-> IF Pod(t) = p THEN {} ELSE work[t]]
      /\ held' = [t \in Thread |-> IF Pod(t) = p THEN {} ELSE held[t]]
      /\ number' = [t \in Thread |-> IF Pod(t) = p THEN 0 ELSE number[t]]
  BY DEF Restart, storeVars
<1>2. /\ deltas'[p] = {} /\ pending'[p] = 0
      /\ \A q \in Replicas \ {p} : deltas'[q] = deltas[q] /\ pending'[q] = pending[q]
      /\ \A u \in Ours : step'[u] = "idle" /\ work'[u] = {} /\ held'[u] = {}
      /\ \A u \in Thread \ Ours : step'[u] = step[u] /\ work'[u] = work[u] /\ held'[u] = held[u]
  BY <1>1 DEF Shapes
<1>3. Shapes' /\ Hands'
  <2>1. Shapes'
    BY <1>1 DEF Shapes, Steps
  <2>2. Hands'
    BY <1>2 DEF Hands, Processing, Flushing
  <2>3. QED
    BY <2>1, <2>2
<1>4. /\ \A u \in Ours : Unwritten(u)' = {} /\ Uncounted(u)' = {}
      /\ \A u \in Thread \ Ours : Unwritten(u)' = Unwritten(u) /\ Uncounted(u)' = Uncounted(u)
  BY <1>2 DEF Unwritten, Uncounted
<1>5. \A x : x \in InHand(p) <=> \E u \in Ours : x \in work[u] \/ x \in held[u]
  BY DEF InHand
\* What is in hand is on its way to the deltas or the row, or traced.
<1>6. ASSUME NEW x, NEW u \in Ours, x \in work[u] \/ x \in held[u]
      PROVE  \/ x \in deltas[p] \/ x \in row.total \/ x \in gone
             \/ \E w \in Ours : x \in Unwritten(w) \/ x \in Uncounted(w)
  <2>1. step[u] \in Processing \union Flushing \union {"idle", "check"}
    BY DEF Shapes, Steps, Processing, Flushing
  <2>2. CASE step[u] \in {"read", "write", "full"}
    <3>1. x \in work[u]
      BY <1>6, <2>2 DEF Hands, Processing
    <3>2. QED
      BY <2>2, <3>1 DEF Traced
  <2>3. CASE step[u] \in {"readTypes", "writeTypes"}
    <3>1. x \in held[u]
      BY <1>6, <2>3 DEF Hands, Flushing
    <3>2. QED
      BY <2>3, <3>1 DEF Traced
  <2>4. CASE step[u] \in {"redis", "deltas"}
    BY <1>6, <2>4 DEF Hands, Processing, Uncounted
  <2>5. CASE step[u] = "flush"
    BY <1>6, <2>5 DEF Hands, Flushing, Unwritten
  <2>6. CASE step[u] \in {"idle", "check"}
    BY <1>6, <2>6 DEF Hands
  <2>7. QED
    BY <2>1, <2>2, <2>3, <2>4, <2>5, <2>6 DEF Processing, Flushing
<1>7. \A u \in Ours : Unwritten(u) \subseteq held[u] /\ Uncounted(u) \subseteq work[u]
  BY DEF Unwritten, Uncounted
<1>8. \A x : x \in gone' <=>
        \/ x \in gone \/ x \in deltas[p]
        \/ \E u \in Ours : x \in Unwritten(u) \/ x \in Uncounted(u)
  <2>1. ASSUME NEW x, x \in gone'
        PROVE  \/ x \in gone \/ x \in deltas[p]
               \/ \E u \in Ours : x \in Unwritten(u) \/ x \in Uncounted(u)
    BY <1>1, <1>5, <1>6, <2>1
  <2>2. ASSUME NEW x, NEW u \in Ours, x \in Unwritten(u) \/ x \in Uncounted(u)
        PROVE  x \in gone'
    <3>1. x \in InHand(p)
      BY <1>5, <1>7, <2>2
    <3>2. x \in Counted
      BY <1>7, <2>2 DEF Shapes
    <3>3. x \notin row.total
      BY <2>2, <3>2 DEF OnePlace
    <3>4. QED
      BY <1>1, <3>1, <3>3
  <2>3. QED
    BY <1>1, <2>1, <2>2
<1>9. OnePlace'
  BY <1>1, <1>2, <1>4, <1>8 DEF OnePlace
<1>10. AllPlaced'
  <2>1. \A x : Placed(x)' <=> Placed(x)
    BY <1>1, <1>2, <1>4, <1>8 DEF Placed
  <2>2. QED
    BY <1>1, <2>1 DEF AllPlaced
<1>11. Traced'
  <2>1. \A u \in Thread \ Ours : Pod(u) \in Replicas \ {p}
    BY DEF Thread, Pod
  <2>2. ASSUME NEW u \in Thread, step'[u] \in {"read", "write", "full"}, NEW x \in work'[u]
        PROVE  \/ x \in deltas'[Pod(u)] \/ x \in row'.total \/ x \in gone'
               \/ \E w \in Thread : Pod(w) = Pod(u) /\ x \in Unwritten(w)'
    <3>1. u \in Thread \ Ours /\ step[u] \in {"read", "write", "full"} /\ x \in work[u]
      BY <1>2, <2>2
    <3>2. CASE \E w \in Thread : Pod(w) = Pod(u) /\ x \in Unwritten(w)
      BY <1>4, <3>1, <3>2
    <3>3. QED
      BY <1>1, <1>2, <1>8, <2>1, <3>1, <3>2 DEF Traced
  <2>3. ASSUME NEW u \in Thread, step'[u] \in {"readTypes", "writeTypes"}, NEW x \in held'[u]
        PROVE  x \in row'.total \/ x \in gone'
    BY <1>1, <1>2, <1>8, <2>3 DEF Traced
  <2>4. QED
    BY <2>2, <2>3 DEF Traced
<1>12. PendingCoversDeltas'
  BY <1>2 DEF PendingCoversDeltas
<1>13. QED
  BY <1>1, <1>3, <1>9, <1>10, <1>11, <1>12

\* Every step keeps the invariant.
LEMMA MetricsStep == MetricsInv /\ [MetricsNext]_metricsVars => MetricsInv'
<1> SUFFICES ASSUME MetricsInv, [MetricsNext]_metricsVars PROVE MetricsInv'
  OBVIOUS
<1>1. ASSUME NEW t \in Thread, Process(t) PROVE MetricsInv'
  BY <1>1, BeginKeeps, AddDeltaKeeps, HandlingKeeps DEF Process
<1>2. ASSUME NEW t \in Thread, Flush(t) PROVE MetricsInv'
  <2>1. AddToRow(t) => step[t] = "flush"
    BY DEF AddToRow, Goto
  <2>2. CASE Check(t)
    BY <2>2, CheckKeeps
  <2>3. CASE step[t] = "flush" /\ (AddToRow(t) \/ FlushFails(t))
    BY <2>3, UpdateKeeps
  <2>4. CASE ReadTypes(t) \/ WriteTypes(t) \/ (FlushFails(t) /\ step[t] # "flush")
    BY <2>4, AsideKeeps
  <2>5. QED
    BY <1>2, <2>1, <2>2, <2>3, <2>4 DEF Flush
<1>3. ASSUME NEW p \in Replicas, BeginShutdown(p) \/ ClosePool(p) PROVE MetricsInv'
  <2>1. <<p, "main">> \in Thread
    BY MetricsConstantsOK DEF Thread
  <2>2. QED
    BY <1>3, <2>1, AsideKeeps
<1>4. ASSUME NEW p \in Replicas, Restart(p) \/ ResetDeltas(p) PROVE MetricsInv'
  BY <1>4, RestartKeeps, ResetKeeps
<1>5. CASE ResetRow \/ ResetRedis
  <2>1. CASE Replicas = {}
    <3>1. /\ row' = [total |-> row'.total, attacks |-> row'.attacks]
          /\ UNCHANGED <<deltas, pending, step, work, held, number, begun>>
          /\ \/ row'.total = {} /\ gone' = gone \union row.total
             \/ row'.total = row.total /\ gone' = gone
      BY <1>5 DEF ResetRow, ResetRedis, bufferVars, threadVars, ledgerVars, MetricsInv, Shapes
    <3>2. Thread = {}
      BY <2>1 DEF Thread
    <3>3. Shapes' /\ Hands' /\ Traced' /\ PendingCoversDeltas'
      BY <2>1, <3>1, <3>2 DEF MetricsInv, Shapes, Hands, Traced, PendingCoversDeltas
    <3>4. OnePlace' /\ AllPlaced'
      BY <2>1, <3>1, <3>2 DEF MetricsInv, OnePlace, AllPlaced, Placed
    <3>5. QED
      BY <3>1, <3>3, <3>4 DEF MetricsInv
  <2>2. CASE Replicas # {}
    <3>1. PICK p \in Replicas : TRUE
      BY <2>2
    <3>2. <<p, "main">> \in Thread
      BY MetricsConstantsOK DEF Thread
    <3>3. QED
      BY <1>5, <3>2, ResetKeeps, AsideKeeps
  <2>3. QED
    BY <2>1, <2>2
<1>6. CASE UNCHANGED metricsVars
  <2>1. UNCHANGED <<row, deltas, pending, step, work, held, number, gone, begun>>
    BY <1>6 DEF metricsVars, storeVars, bufferVars, threadVars, ledgerVars
  <2>2. \A t \in Thread : Unwritten(t)' = Unwritten(t) /\ Uncounted(t)' = Uncounted(t)
    BY <2>1 DEF Unwritten, Uncounted
  <2>3. OnePlace' /\ AllPlaced' /\ begun' \subseteq Counted
    BY <2>1, <2>2, NothingMoves
  <2>4. Shapes' /\ Hands' /\ PendingCoversDeltas'
    BY <2>1 DEF MetricsInv, Shapes, Hands, PendingCoversDeltas
  <2>5. Traced'
    BY <2>1, <2>2 DEF MetricsInv, Traced
  <2>6. QED
    BY <2>3, <2>4, <2>5 DEF MetricsInv
<1>7. QED
  BY <1>1, <1>2, <1>3, <1>4, <1>5, <1>6 DEF MetricsNext

\* It holds throughout.
LEMMA MetricsInvariant == MetricsSpec => []MetricsInv
BY MetricsStart, MetricsStep, PTL DEF MetricsSpec

\* While the unlocked counter of a pod is 0, its deltas belong to threads that
\* will count up yet: no flush passes over deltas for good.
THEOREM FlushesPassOverNothing == MetricsSpec => []PendingCoversDeltas
<1>1. MetricsInv => PendingCoversDeltas
  BY DEF MetricsInv
<1>2. QED
  BY <1>1, MetricsInvariant, PTL

\* In terms of the five places, an event is in at most one of each kind.
LEMMA OneOfAKind ==
  ASSUME MetricsInv
  PROVE  /\ Disjoint([p \in Replicas |-> deltas[p]])
         /\ Disjoint([t \in Thread |-> Unwritten(t)])
         /\ Disjoint([t \in Thread |-> Uncounted(t)])
<1>1. \A p \in Replicas : deltas[p] \subseteq Counted
  BY DEF MetricsInv, Shapes
<1>2. \A t \in Thread : Unwritten(t) \subseteq Counted /\ Uncounted(t) \subseteq Counted
  BY DEF MetricsInv, Shapes, Unwritten, Uncounted
<1>3. QED
  BY <1>1, <1>2 DEF MetricsInv, OnePlace, Disjoint

\* Whatever the threads of any number of pods do, fail or lose, each event is
\* counted at most once, and is somewhere.
THEOREM EventsCountOnce == MetricsSpec => []CountedOnce
<1>1. ASSUME MetricsInv PROVE CountedOnce
  <2> DEFINE A == UNION {deltas[p] : p \in Replicas}
             B == UNION {Unwritten(t) : t \in Thread}
             C == UNION {Uncounted(t) : t \in Thread}
             D == row.total
             G == gone
  <2>1. \A x : Placed(x) <=> x \in A \/ x \in B \/ x \in C \/ x \in D \/ x \in G
    BY DEF Placed
  <2>2. \A x : x \in begun <=> x \in A \/ x \in B \/ x \in C \/ x \in D \/ x \in G
    BY <1>1, <2>1 DEF MetricsInv, AllPlaced
  <2>3. begun \subseteq Counted
    BY <1>1 DEF MetricsInv
  <2>4. /\ A \intersect B = {} /\ A \intersect C = {} /\ A \intersect D = {} /\ A \intersect G = {}
        /\ B \intersect C = {} /\ B \intersect D = {} /\ B \intersect G = {}
        /\ C \intersect D = {} /\ C \intersect G = {} /\ D \intersect G = {}
    BY <1>1, <2>2, <2>3 DEF MetricsInv, OnePlace
  <2>5. begun = A \union B \union C \union D \union G
    BY <2>2
  <2> HIDE DEF A, B, C, D, G
  <2>6. Disjoint(<<A, B, C, D, G>>)
    BY <2>4 DEF Disjoint
  <2>7. /\ A = UNION {[p \in Replicas |-> deltas[p]][x] : x \in DOMAIN [p \in Replicas |-> deltas[p]]}
        /\ B = UNION {[t \in Thread |-> Unwritten(t)][x] : x \in DOMAIN [t \in Thread |-> Unwritten(t)]}
        /\ C = UNION {[t \in Thread |-> Uncounted(t)][x] : x \in DOMAIN [t \in Thread |-> Uncounted(t)]}
        /\ D = row.total /\ G = gone
    BY DEF A, B, C, D, G
  <2>8. QED
    BY <1>1, <2>5, <2>6, <2>7, OneOfAKind DEF CountedOnce
<1>2. QED
  BY <1>1, MetricsInvariant, PTL

-----------------------------------------------------------------------------
(* What a clean shutdown loses *)

Main(p) == <<p, "main">>

\* The thread that shuts a pod down processes no event.
MainOnlyFlushes == \A p \in Replicas : step[Main(p)] \notin Processing

\* The pool is closed after the last flush.
PoolClosedLast == \A p \in Replicas \ pool : p \in ending /\ step[Main(p)] = "idle"

\* Once the last flush of a pod has begun, what is in its deltas or in hand of its
\* other threads was in hand then, or came later.
LateKnown ==
  \A p \in Replicas \intersect ending : step[Main(p)] # "check" =>
    /\ deltas[p] \subseteq late
    /\ \A t \in Thread \ {Main(p)} : Pod(t) = p => work[t] \subseteq late /\ held[t] \subseteq late

LossInv ==
  /\ MetricsInv /\ mishaps \in Nat /\ resets \in Nat
  /\ MainOnlyFlushes /\ PoolClosedLast /\ LateKnown /\ ShutdownLosesOnlyWorkInHand

\* At the start nothing is lost and no pod is ending.
LEMMA LossStart == MetricsInit => LossInv
<1> SUFFICES ASSUME MetricsInit PROVE LossInv
  OBVIOUS
<1>1. MetricsInv
  BY MetricsStart
<1>2. /\ \A p \in Replicas : Main(p) \in Thread
      /\ \A t \in Thread : step[t] = "idle"
  BY MetricsConstantsOK DEF Main, Thread, MetricsInit
<1>3. mishaps = 0 /\ resets = 0 /\ ending = {} /\ pool = Replicas /\ gone = {}
  BY DEF MetricsInit
<1>4. MainOnlyFlushes /\ PoolClosedLast /\ LateKnown /\ ShutdownLosesOnlyWorkInHand
  BY <1>2, <1>3 DEF MainOnlyFlushes, PoolClosedLast, LateKnown, ShutdownLosesOnlyWorkInHand, Processing
<1>5. QED
  BY <1>1, <1>3, <1>4 DEF LossInv

\* The main threads of the pods are threads, each of its pod.
LEMMA MainThreads == \A p \in Replicas : Main(p) \in Thread /\ Pod(Main(p)) = p /\ Main(p)[2] = "main"
BY MetricsConstantsOK DEF Main, Thread, Pod

\* A thread processes an event: what it takes in hand late is late.
LEMMA ProcessLoses ==
  ASSUME LossInv, MetricsInv', NEW t \in Thread, Process(t)
  PROVE  LossInv'
<1> USE DEF LossInv
<1>1. /\ UNCHANGED <<pool, ending, gone, resets, held>> /\ late \subseteq late'
      /\ mishaps' \in Nat /\ (mishaps' = 0 => mishaps = 0)
  BY DEF Process, Begin, IncrementRedis, AddDelta, ReadPending, WritePending, Full, Mishap,
         lifeVars, ledgerVars, threadVars
<1>2. t # Main(Pod(t)) /\ \E to \in Steps : step' = [step EXCEPT ![t] = to]
  <2>1. CASE \E e \in Counted : Begin(t, e)
    BY <2>1 DEF Begin, Goto, Main, Steps
  <2>2. CASE ~ \E e \in Counted : Begin(t, e)
    <3>1. step[t] \in Processing /\ \E to \in Steps : step' = [step EXCEPT ![t] = to]
      BY <2>2 DEF Process, IncrementRedis, AddDelta, ReadPending, WritePending, Full, Goto, Steps, Processing
    <3>2. Pod(t) \in Replicas
      BY DEF Thread, Pod
    <3>3. QED
      BY <3>1, <3>2 DEF MainOnlyFlushes
  <2>3. QED
    BY <2>1, <2>2
<1>3. \A p \in Replicas : step'[Main(p)] = step[Main(p)]
  BY <1>2, MainThreads DEF MetricsInv, Shapes
<1>4. MainOnlyFlushes' /\ PoolClosedLast' /\ ShutdownLosesOnlyWorkInHand'
  BY <1>1, <1>3 DEF MainOnlyFlushes, PoolClosedLast, ShutdownLosesOnlyWorkInHand
<1>5. LateKnown'
  <2>1. CASE \E e \in Counted : Begin(t, e)
    <3>1. PICK e \in Counted : Begin(t, e)
      BY <2>1
    <3>2. /\ deltas' = deltas /\ work' = [work EXCEPT ![t] = {e}]
          /\ (Pod(t) \in ending /\ step[Main(Pod(t))] # "check" => e \in late')
      BY <3>1 DEF Begin, bufferVars, Main
    <3>3. \A u \in Thread : work'[u] = IF u = t THEN {e} ELSE work[u]
      BY <3>2 DEF MetricsInv, Shapes
    <3>4. QED
      BY <1>1, <1>3, <3>2, <3>3 DEF LateKnown
  <2>2. CASE AddDelta(t)
    <3>1. work' = work /\ late' = late
      BY <2>2 DEF AddDelta, threadVars, ledgerVars
    <3>2. \A p \in Replicas : deltas'[p] = IF p = Pod(t) THEN deltas[p] \union work[t] ELSE deltas[p]
      BY <2>2 DEF AddDelta, MetricsInv, Shapes
    <3>3. ASSUME NEW p \in Replicas \intersect ending, step[Main(p)] # "check" PROVE deltas'[p] \subseteq late
      <4>1. deltas[p] \subseteq late
        BY <3>3 DEF LateKnown
      <4>2. p = Pod(t) => work[t] \subseteq late
        BY <1>2, <3>3 DEF LateKnown
      <4>3. QED
        BY <3>2, <4>1, <4>2
    <3>4. QED
      BY <1>1, <1>3, <3>1, <3>3 DEF LateKnown
  <2>3. CASE IncrementRedis(t) \/ ReadPending(t) \/ WritePending(t) \/ Full(t)
    <3>1. deltas' = deltas /\ late' = late
      BY <2>3 DEF IncrementRedis, ReadPending, WritePending, Full, bufferVars, ledgerVars
    <3>2. \A u \in Thread : work'[u] \subseteq work[u]
      BY <2>3 DEF IncrementRedis, ReadPending, WritePending, Full, threadVars, MetricsInv, Shapes
    <3>3. QED
      BY <1>1, <1>3, <3>1, <3>2 DEF LateKnown
  <2>4. QED
    BY <2>1, <2>2, <2>3 DEF Process
<1>6. QED
  BY <1>1, <1>4, <1>5

\* The last flush of a pod leaves nothing behind that was not in hand.
LEMMA CheckLoses ==
  ASSUME LossInv, MetricsInv', NEW t \in Thread, Check(t)
  PROVE  LossInv'
<1> USE DEF LossInv
<1>1. /\ UNCHANGED <<pool, ending, gone, mishaps, resets, work>> /\ late \subseteq late'
      /\ step[t] = "check" /\ \E to \in {"idle", "flush"} : step' = [step EXCEPT ![t] = to]
  BY DEF Check, Goto, lifeVars
<1>2. Pod(t) \in Replicas
  BY DEF Thread, Pod
<1>3. \A p \in Replicas : /\ step'[Main(p)] = step[Main(p)] \/ (t = Main(p) /\ p = Pod(t))
                          /\ step'[Main(p)] \in Processing => step[Main(p)] \in Processing
  BY <1>1, MainThreads DEF MetricsInv, Shapes, Processing
<1>4. PoolClosedLast'
  <2>1. \A p \in Replicas \ pool : t # Main(p)
    BY <1>1 DEF PoolClosedLast
  <2>2. QED
    BY <1>1, <1>3, <2>1 DEF PoolClosedLast
<1>5. MainOnlyFlushes' /\ ShutdownLosesOnlyWorkInHand'
  BY <1>1, <1>3 DEF MainOnlyFlushes, ShutdownLosesOnlyWorkInHand
<1>6. /\ \A u \in Thread : held'[u] \subseteq held[u] \/ (u = t /\ held'[u] \subseteq deltas[Pod(t)])
      /\ \A p \in Replicas : deltas'[p] \subseteq deltas[p]
      /\ pending[Pod(t)] # 0 => deltas'[Pod(t)] = {}
  BY <1>2 DEF Check, bufferVars, LeftBehind, MetricsInv, Shapes
<1>7. LateKnown'
  <2>1. ASSUME NEW p \in Replicas \intersect ending, step'[Main(p)] # "check"
        PROVE  /\ deltas'[p] \subseteq late'
               /\ \A u \in Thread \ {Main(p)} : Pod(u) = p => work'[u] \subseteq late' /\ held'[u] \subseteq late'
    <3>1. CASE t = Main(p)
      <4>1. late' = late \union InHand(p) /\ p = Pod(t)
        BY <3>1, MainThreads DEF Check
      <4>2. \A u \in Thread : Pod(u) = p => work[u] \subseteq InHand(p) /\ held[u] \subseteq InHand(p)
        BY DEF InHand
      <4>3. CASE pending[p] = 0
        <5>1. \A e \in deltas[p] : \E u \in Thread : Pod(u) = p /\ work[u] = {e}
          BY <4>3 DEF MetricsInv, PendingCoversDeltas
        <5>2. deltas[p] \subseteq InHand(p)
          BY <4>2, <5>1
        <5>3. QED
          BY <1>1, <1>6, <3>1, <4>1, <4>2, <5>2
      <4>4. CASE pending[p] # 0
        BY <1>1, <1>6, <3>1, <4>1, <4>2, <4>4
      <4>5. QED
        BY <4>3, <4>4
    <3>2. CASE t # Main(p)
      BY <1>1, <1>3, <1>6, <2>1, <3>2 DEF LateKnown
    <3>3. QED
      BY <3>1, <3>2
  <2>2. QED
    BY <1>1, <2>1 DEF LateKnown
<1>8. QED
  BY <1>1, <1>4, <1>5, <1>7

\* With a closed pool the flush of another thread loses what it took late.
LEMMA FlushLoses ==
  ASSUME LossInv, MetricsInv', NEW t \in Thread,
         AddToRow(t) \/ ReadTypes(t) \/ WriteTypes(t) \/ FlushFails(t)
  PROVE  LossInv'
<1> USE DEF LossInv
<1>1. /\ UNCHANGED <<pool, ending, late, resets, work, deltas>>
      /\ step[t] \in Flushing
      /\ \E to \in {"idle", "readTypes", "writeTypes"} : step' = [step EXCEPT ![t] = to]
      /\ \A u \in Thread : held'[u] \subseteq held[u]
  BY DEF AddToRow, ReadTypes, WriteTypes, FlushFails, Goto, lifeVars, ledgerVars, bufferVars,
         threadVars, Flushing, MetricsInv, Shapes
<1>2. Pod(t) \in Replicas
  BY DEF Thread, Pod
<1>3. \A p \in Replicas : /\ step'[Main(p)] = "check" <=> step[Main(p)] = "check"
                          /\ step'[Main(p)] \in Processing => step[Main(p)] \in Processing
                          /\ step[Main(p)] = "idle" => step'[Main(p)] = "idle"
  BY <1>1, MainThreads DEF MetricsInv, Shapes, Flushing, Processing
<1>4. MainOnlyFlushes' /\ PoolClosedLast' /\ LateKnown'
  BY <1>1, <1>3 DEF MainOnlyFlushes, PoolClosedLast, LateKnown
<1>5. /\ mishaps' \in Nat /\ (mishaps' = 0 => mishaps = 0)
      /\ \/ gone' = gone
         \/ gone' = gone \union held[t] /\ (Pod(t) \in pool => mishaps' # 0)
  BY DEF AddToRow, ReadTypes, WriteTypes, FlushFails, Mishap, ledgerVars
<1>6. Pod(t) \notin pool => held[t] \subseteq late
  <2>1. Pod(t) \notin pool => Pod(t) \in ending /\ step[Main(Pod(t))] = "idle"
    BY <1>2 DEF PoolClosedLast
  <2>2. step[t] # "idle"
    BY <1>1 DEF Flushing
  <2>3. QED
    BY <1>2, <2>1, <2>2 DEF LateKnown
<1>7. ShutdownLosesOnlyWorkInHand'
  BY <1>1, <1>5, <1>6 DEF ShutdownLosesOnlyWorkInHand
<1>8. QED
  BY <1>1, <1>4, <1>5, <1>7

\* A pod that ends after its shutdown loses what is late.
LEMMA RestartLoses ==
  ASSUME LossInv, MetricsInv', NEW p \in Replicas, Restart(p)
  PROVE  LossInv'
<1> USE DEF LossInv
<1>1. /\ ending' = ending \ {p} /\ pool' = pool \union {p} /\ UNCHANGED <<late, resets>>
      /\ gone' = gone \union deltas[p] \union (InHand(p) \ row.total)
      /\ mishaps' \in Nat /\ (mishaps' = 0 => mishaps = 0 /\ p \notin pool)
  BY DEF Restart, Mishap
<1>2. /\ \A q \in Replicas \ {p} : deltas'[q] = deltas[q]
      /\ \A t \in Thread : IF Pod(t) = p THEN step'[t] = "idle"
                            ELSE step'[t] = step[t] /\ work'[t] = work[t] /\ held'[t] = held[t]
  BY DEF Restart, MetricsInv, Shapes
<1>3. MainOnlyFlushes' /\ PoolClosedLast'
  BY <1>1, <1>2, MainThreads DEF MainOnlyFlushes, PoolClosedLast, Processing
<1>4. LateKnown'
  BY <1>1, <1>2, MainThreads DEF LateKnown
<1>5. p \notin pool => deltas[p] \subseteq late /\ InHand(p) \subseteq late
  <2>1. SUFFICES ASSUME p \notin pool PROVE deltas[p] \subseteq late /\ InHand(p) \subseteq late
    OBVIOUS
  <2>2. p \in ending /\ step[Main(p)] = "idle"
    BY <2>1 DEF PoolClosedLast
  <2>3. work[Main(p)] = {} /\ held[Main(p)] = {}
    BY <2>2, MainThreads DEF MetricsInv, Hands
  <2>4. \A t \in Thread : Pod(t) = p => work[t] \subseteq late /\ held[t] \subseteq late
    BY <2>2, <2>3 DEF LateKnown
  <2>5. QED
    BY <2>2, <2>4 DEF InHand, LateKnown
<1>6. ShutdownLosesOnlyWorkInHand'
  BY <1>1, <1>5 DEF ShutdownLosesOnlyWorkInHand
<1>7. QED
  BY <1>1, <1>3, <1>4, <1>6

\* A shutdown begins, the pool is closed, or a reset takes a step.
LEMMA OthersLose ==
  ASSUME LossInv, MetricsInv',
         \/ ResetRow \/ ResetRedis
         \/ \E p \in Replicas : BeginShutdown(p) \/ ClosePool(p) \/ ResetDeltas(p)
  PROVE  LossInv'
<1> USE DEF LossInv
<1>1. CASE ResetRow \/ ResetRedis \/ \E p \in Replicas : ResetDeltas(p)
  <2>1. /\ UNCHANGED <<step, work, held, pool, ending, late, mishaps>>
        /\ resets' \in Nat \ {0}
        /\ \A p \in Replicas : deltas'[p] \subseteq deltas[p]
    BY <1>1 DEF ResetRow, ResetRedis, ResetDeltas, ResetStep, bufferVars, threadVars, lifeVars, ledgerVars,
                MetricsInv, Shapes
  <2>2. QED
    BY <2>1 DEF MainOnlyFlushes, PoolClosedLast, LateKnown, ShutdownLosesOnlyWorkInHand
<1>2. ASSUME NEW p \in Replicas, BeginShutdown(p) PROVE LossInv'
  <2>1. /\ UNCHANGED <<deltas, work, held, pool, late, gone, mishaps, resets>> /\ ending' = ending \union {p}
        /\ p \in pool /\ step' = [step EXCEPT ![Main(p)] = "check"]
    BY <1>2 DEF BeginShutdown, Goto, FirstOfShutdown, bufferVars, threadVars, ledgerVars, Main
  <2>2. \A q \in Replicas : step'[Main(q)] = IF q = p THEN "check" ELSE step[Main(q)]
    BY <2>1, MainThreads DEF MetricsInv, Shapes
  <2>3. QED
    BY <2>1, <2>2 DEF MainOnlyFlushes, PoolClosedLast, LateKnown, ShutdownLosesOnlyWorkInHand, Processing
<1>3. ASSUME NEW p \in Replicas, ClosePool(p) PROVE LossInv'
  <2>1. /\ UNCHANGED <<deltas, step, work, held, ending, late, gone, mishaps, resets>> /\ pool' = pool \ {p}
        /\ p \in ending /\ step[Main(p)] = "idle"
    BY <1>3 DEF ClosePool, bufferVars, threadVars, ledgerVars, Main
  <2>2. QED
    BY <2>1 DEF MainOnlyFlushes, PoolClosedLast, LateKnown, ShutdownLosesOnlyWorkInHand
<1>4. QED
  BY <1>1, <1>2, <1>3

\* A clean shutdown, without failures and resets, loses only events that were in
\* hand when the last flush began or that came later, for any pods and threads.
THEOREM ShutdownsLoseLittle == MetricsSpec => []ShutdownLosesOnlyWorkInHand
<1>1. LossInv /\ [MetricsNext]_metricsVars => LossInv'
  <2> SUFFICES ASSUME LossInv, [MetricsNext]_metricsVars PROVE LossInv'
    OBVIOUS
  <2>1. MetricsInv'
    BY MetricsStep DEF LossInv
  <2>2. CASE \E t \in Thread : Process(t) \/ Flush(t)
    BY <2>1, <2>2, ProcessLoses, CheckLoses, FlushLoses DEF Flush
  <2>3. CASE \E p \in Replicas : BeginShutdown(p) \/ ClosePool(p) \/ Restart(p) \/ ResetDeltas(p)
    BY <2>1, <2>3, RestartLoses, OthersLose
  <2>4. CASE ResetRow \/ ResetRedis
    BY <2>1, <2>4, OthersLose
  <2>5. CASE UNCHANGED metricsVars
    <3>1. UNCHANGED <<deltas, step, work, held, pool, ending, late, gone, mishaps, resets>>
      BY <2>5 DEF metricsVars, bufferVars, threadVars, lifeVars, ledgerVars
    <3>2. QED
      BY <2>1, <3>1 DEF LossInv, MainOnlyFlushes, PoolClosedLast, LateKnown, ShutdownLosesOnlyWorkInHand
  <2>6. QED
    BY <2>2, <2>3, <2>4, <2>5 DEF MetricsNext
<1>2. LossInv => ShutdownLosesOnlyWorkInHand
  BY DEF LossInv
<1>3. QED
  BY <1>1, <1>2, LossStart, PTL DEF MetricsSpec

-----------------------------------------------------------------------------
(* The types of the pipeline *)

\* The rest of the types: attack types are written for threats only, and what is
\* late was begun.
RestInv ==
  /\ row.attacks \subseteq Threats /\ redis \subseteq Counted /\ types \in [Thread -> SUBSET Threats]
  /\ \A t \in Thread : step[t] \in {"readTypes", "writeTypes"} => held[t] \subseteq Threats
  /\ pool \subseteq Replicas /\ ending \subseteq Replicas /\ late \subseteq begun
  /\ mishaps \in Nat /\ resets \in Nat

\* What a thread has in hand was begun.
LEMMA HandsBegan ==
  ASSUME MetricsInv, NEW t \in Thread
  PROVE  work[t] \subseteq begun /\ held[t] \subseteq begun
<1>1. step[t] \in Steps
  BY DEF MetricsInv, Shapes
<1>2. \A e : Placed(e) => e \in begun
  BY DEF MetricsInv, AllPlaced
<1>3. (step[t] \in Processing => held[t] = {}) /\ (step[t] \in Flushing => work[t] = {})
      /\ (step[t] \in {"idle", "check"} => work[t] = {} /\ held[t] = {})
  BY DEF MetricsInv, Hands
<1>4. CASE step[t] \in {"redis", "deltas"}
  <2>1. \A e \in work[t] : Placed(e)
    BY <1>4 DEF Placed, Uncounted
  <2>2. QED
    BY <1>2, <1>3, <1>4, <2>1 DEF Processing
<1>5. CASE step[t] \in {"read", "write", "full"}
  <2>1. \A e \in work[t] : \/ e \in deltas[Pod(t)] \/ e \in row.total \/ e \in gone
                           \/ \E u \in Thread : e \in Unwritten(u)
    BY <1>5 DEF MetricsInv, Traced
  <2>2. Pod(t) \in Replicas
    BY DEF Thread, Pod
  <2>3. \A e \in work[t] : Placed(e)
    BY <2>1, <2>2 DEF Placed
  <2>4. QED
    BY <1>2, <1>3, <1>5, <2>3 DEF Processing
<1>6. CASE step[t] = "flush"
  <2>1. \A e \in held[t] : Placed(e)
    BY <1>6 DEF Placed, Unwritten
  <2>2. QED
    BY <1>2, <1>3, <1>6, <2>1 DEF Flushing
<1>7. CASE step[t] \in {"readTypes", "writeTypes"}
  <2>1. \A e \in held[t] : Placed(e)
    BY <1>7 DEF MetricsInv, Traced, Placed
  <2>2. QED
    BY <1>2, <1>3, <1>7, <2>1 DEF Flushing
<1>8. QED
  BY <1>1, <1>3, <1>4, <1>5, <1>6, <1>7 DEF Steps

\* The steps of a thread keep the rest of the types.
LEMMA ThreadTypes ==
  ASSUME MetricsInv, RestInv, NEW t \in Thread, Process(t) \/ Flush(t)
  PROVE  RestInv'
<1> USE DEF RestInv
<1>1. /\ \A u \in Thread : work[u] \subseteq begun /\ held[u] \subseteq begun
      /\ step \in [Thread -> Steps] /\ held \in [Thread -> SUBSET Counted]
      /\ work \in [Thread -> SUBSET Counted]
      /\ row = [total |-> row.total, attacks |-> row.attacks]
  BY HandsBegan DEF MetricsInv, Shapes
<1>2. ASSUME NEW e \in Counted, Begin(t, e) PROVE RestInv'
  <2>1. /\ begun' = begun \union {e} /\ late' \subseteq late \union {e}
        /\ step' = [step EXCEPT ![t] = "redis"]
        /\ UNCHANGED <<row, redis, types, held, pool, ending, mishaps, resets>>
    BY <1>2 DEF Begin, Goto, storeVars, lifeVars
  <2>2. QED
    BY <1>1, <2>1
<1>3. CASE IncrementRedis(t)
  <2>1. /\ redis' \subseteq redis \union work[t] /\ mishaps' \in {mishaps, mishaps + 1}
        /\ step' = [step EXCEPT ![t] = "deltas"]
        /\ UNCHANGED <<row, types, held, pool, ending, late, begun, resets>>
    BY <1>3 DEF IncrementRedis, Mishap, Goto, threadVars, lifeVars, ledgerVars
  <2>2. QED
    BY <1>1, <2>1
<1>4. CASE AddDelta(t) \/ ReadPending(t) \/ WritePending(t) \/ Full(t)
  <2>1. /\ \E to \in {"read", "write", "full", "check", "idle"} : step' = [step EXCEPT ![t] = to]
        /\ UNCHANGED <<row, redis, types, held, pool, ending, late, begun, mishaps, resets>>
    BY <1>4 DEF AddDelta, ReadPending, WritePending, Full, Goto, storeVars, threadVars, lifeVars, ledgerVars
  <2>2. QED
    BY <1>1, <2>1
<1>5. CASE Check(t)
  <2>1. /\ late' \in {late, late \union InHand(Pod(t))} /\ begun' = begun
        /\ UNCHANGED <<row, redis, types, pool, ending, mishaps, resets>>
        /\ \/ step' = [step EXCEPT ![t] = "idle"] /\ held' = held
           \/ step' = [step EXCEPT ![t] = "flush"] /\ held' = [held EXCEPT ![t] = deltas[Pod(t)]]
    BY <1>5 DEF Check, Goto, storeVars, bufferVars, lifeVars
  <2>2. InHand(Pod(t)) \subseteq begun
    BY <1>1 DEF InHand
  <2>3. \A u \in Thread : u # t => step'[u] = step[u] /\ held'[u] = held[u]
    BY <1>1, <2>1
  <2>4. step'[t] \in {"idle", "flush"}
    BY <1>1, <2>1
  <2>5. QED
    BY <2>1, <2>2, <2>3, <2>4
<1>6. CASE AddToRow(t)
  <2>1. /\ row' = [row EXCEPT !.total = Total(t)]
        /\ UNCHANGED <<redis, types, pool, ending, late, begun, mishaps, resets>>
        /\ \/ step' = [step EXCEPT ![t] = "idle"] /\ held' = [held EXCEPT ![t] = {}]
           \/ step' = [step EXCEPT ![t] = "readTypes"] /\ held' = [held EXCEPT ![t] = @ \intersect Threats]
    BY <1>6 DEF AddToRow, Goto, lifeVars, ledgerVars
  <2>2. row'.attacks = row.attacks
    BY <1>1, <2>1
  <2>3. \A u \in Thread : u # t => step'[u] = step[u] /\ held'[u] = held[u]
    BY <1>1, <2>1
  <2>4. held'[t] \subseteq Threats
    BY <1>1, <2>1
  <2>5. QED
    BY <2>1, <2>2, <2>3, <2>4
<1>7. CASE ReadTypes(t)
  <2>1. /\ types' = [types EXCEPT ![t] = row.attacks] /\ step[t] = "readTypes"
        /\ step' = [step EXCEPT ![t] = "writeTypes"]
        /\ UNCHANGED <<row, redis, held, pool, ending, late, begun, mishaps, resets>>
    BY <1>7 DEF ReadTypes, Goto, storeVars, lifeVars, ledgerVars
  <2>2. types' \in [Thread -> SUBSET Threats]
    BY <2>1
  <2>3. QED
    BY <1>1, <2>1, <2>2
<1>8. CASE WriteTypes(t)
  <2>1. /\ types' = [types EXCEPT ![t] = {}] /\ step[t] = "writeTypes"
        /\ step' = [step EXCEPT ![t] = "idle"] /\ held' = [held EXCEPT ![t] = {}]
        /\ row' = [row EXCEPT !.attacks = types[t] \union held[t]]
        /\ UNCHANGED <<redis, pool, ending, late, begun, mishaps, resets>>
    BY <1>8 DEF WriteTypes, Goto, lifeVars, ledgerVars
  <2>2. row'.attacks \subseteq Threats
    BY <1>1, <2>1
  <2>3. types' \in [Thread -> SUBSET Threats]
    BY <2>1
  <2>4. \A u \in Thread : u # t => step'[u] = step[u] /\ held'[u] = held[u]
    BY <1>1, <2>1
  <2>5. held'[t] = {}
    BY <1>1, <2>1
  <2>6. QED
    BY <2>1, <2>2, <2>3, <2>4, <2>5
<1>9. CASE FlushFails(t)
  <2>1. /\ types' = [types EXCEPT ![t] = {}] /\ mishaps' \in {mishaps, mishaps + 1}
        /\ step' = [step EXCEPT ![t] = "idle"] /\ held' = [held EXCEPT ![t] = {}]
        /\ UNCHANGED <<row, redis, pool, ending, late, begun, resets>>
    BY <1>9 DEF FlushFails, Mishap, storeVars, lifeVars
  <2>2. types' \in [Thread -> SUBSET Threats] /\ mishaps' \in Nat
    BY <2>1
  <2>3. \A u \in Thread : held'[u] \subseteq held[u] /\ (step'[u] = step[u] \/ step'[u] = "idle")
    BY <1>1, <2>1
  <2>4. QED
    BY <2>1, <2>2, <2>3
<1>10. QED
  BY <1>2, <1>3, <1>4, <1>5, <1>6, <1>7, <1>8, <1>9 DEF Process, Flush

\* Shutdowns, restarts and resets keep them.
LEMMA LifeTypes ==
  ASSUME MetricsInv, RestInv,
         \/ ResetRow \/ ResetRedis
         \/ \E p \in Replicas : BeginShutdown(p) \/ ClosePool(p) \/ Restart(p) \/ ResetDeltas(p)
  PROVE  RestInv'
<1> USE DEF RestInv
<1>1. step \in [Thread -> Steps] /\ held \in [Thread -> SUBSET Counted]
  BY DEF MetricsInv, Shapes
<1>2. CASE ResetRow \/ ResetRedis \/ \E p \in Replicas : ResetDeltas(p)
  <2>1. /\ UNCHANGED <<step, held, types, pool, ending, late, begun, mishaps>> /\ resets' = resets + 1
        /\ row'.attacks \in {row.attacks, {}} /\ redis' \in {redis, {}}
    BY <1>2 DEF ResetRow, ResetRedis, ResetDeltas, ResetStep, bufferVars, threadVars, lifeVars, ledgerVars,
                storeVars
  <2>2. QED
    BY <2>1
<1>3. ASSUME NEW p \in Replicas, BeginShutdown(p) PROVE RestInv'
  <2>1. /\ UNCHANGED <<row, redis, held, types, pool, late, begun, mishaps, resets>>
        /\ ending' = ending \union {p} /\ step' = [step EXCEPT ![<<p, "main">>] = "check"]
    BY <1>3 DEF BeginShutdown, Goto, FirstOfShutdown, storeVars, threadVars, ledgerVars
  <2>2. QED
    BY <1>1, <2>1
<1>4. ASSUME NEW p \in Replicas, ClosePool(p) PROVE RestInv'
  BY <1>4 DEF ClosePool, storeVars, threadVars, ledgerVars
<1>5. ASSUME NEW p \in Replicas, Restart(p) PROVE RestInv'
  <2>1. /\ UNCHANGED <<row, redis, late, begun, resets>> /\ mishaps' \in {mishaps, mishaps + 1}
        /\ pool' = pool \union {p} /\ ending' = ending \ {p}
        /\ types' = [t \in Thread |-> IF Pod(t) = p THEN {} ELSE types[t]]
        /\ step' = [t \in Thread |-> IF Pod(t) = p THEN "idle" ELSE step[t]]
        /\ held' = [t \in Thread |-> IF Pod(t) = p THEN {} ELSE held[t]]
    BY <1>5 DEF Restart, Mishap, storeVars
  <2>2. types' \in [Thread -> SUBSET Threats]
    BY <2>1
  <2>3. \A t \in Thread : step'[t] \in {"readTypes", "writeTypes"} => held'[t] \subseteq Threats
    BY <2>1
  <2>4. QED
    BY <2>1, <2>2, <2>3
<1>6. QED
  BY <1>2, <1>3, <1>4, <1>5

\* They hold throughout.
LEMMA RestInvariant == MetricsSpec => []RestInv
<1>1. MetricsInit => RestInv
  BY DEF MetricsInit, RestInv
<1>2. MetricsInv /\ RestInv /\ [MetricsNext]_metricsVars => RestInv'
  <2> SUFFICES ASSUME MetricsInv, RestInv, [MetricsNext]_metricsVars PROVE RestInv'
    OBVIOUS
  <2>1. CASE MetricsNext
    BY <2>1, ThreadTypes, LifeTypes DEF MetricsNext
  <2>2. CASE UNCHANGED metricsVars
    BY <2>2 DEF metricsVars, storeVars, threadVars, lifeVars, ledgerVars, RestInv
  <2>3. QED
    BY <2>1, <2>2
<1>3. QED
  BY <1>1, <1>2, MetricsInvariant, PTL DEF MetricsSpec

\* The composition moves the events or the counters and leaves the others: what is
\* proved of the two parts holds of it.
THEOREM PipelineKeepsSpecs == Spec => IngestSpec /\ MetricsSpec
<1>1. Init => IngestInit /\ MetricsInit
  BY DEF Init
<1>2. [Next]_vars => [IngestNext]_ingestVars /\ [MetricsNext]_metricsVars
  BY DEF Next, vars
<1>3. QED
  BY <1>1, <1>2, PTL DEF Spec, IngestSpec, MetricsSpec

\* The variables of both modules keep their types.
THEOREM PipelineTypesKept == Spec => []TypeOK
<1>1. MetricsInv /\ RestInv => MetricsTypeOK
  <2> SUFFICES ASSUME MetricsInv, RestInv PROVE MetricsTypeOK
    OBVIOUS
  <2>1. gone \subseteq begun /\ row.total \subseteq begun
    BY DEF MetricsInv, AllPlaced, Placed
  <2>2. row \in [total : SUBSET Counted, attacks : SUBSET Threats]
    <3>1. row = [total |-> row.total, attacks |-> row.attacks] /\ row.total \subseteq Counted
      BY <2>1 DEF MetricsInv, Shapes
    <3>2. row.attacks \subseteq Threats
      BY DEF RestInv
    <3>3. QED
      BY <3>1, <3>2
  <2>3. QED
    BY <2>1, <2>2 DEF MetricsInv, Shapes, RestInv, MetricsTypeOK
<1>2. IngestInv => IngestTypeOK
  BY DEF IngestInv
<1>3. QED
  BY <1>1, <1>2, PipelineKeepsSpecs, MetricsInvariant, RestInvariant, IngestInvariant, PTL DEF TypeOK
=============================================================================
