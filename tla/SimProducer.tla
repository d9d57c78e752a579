----------------------------- MODULE SimProducer -----------------------------
(***************************************************************************)
(* backend/app/routes/simulate.py: the producer that streams the test      *)
(* events while dashboards are connected, and its position, which is kept  *)
(* in memory and saved to the database every few events.  All of it runs   *)
(* on the event loop of a pod: a step here lasts until the code awaits.    *)
(***************************************************************************)
EXTENDS Integers

CONSTANTS SimPods,   \* pods
          Watchers,  \* dashboards
          SaveEvery, \* _SIM_BATCH_SIZE
          MaxIndex,  \* bound: position in the stream
          MaxErrors, \* bound: failures of the database or of an event
          MaxSimResets \* bound: resets and restarts

ASSUME ProducerConstantsOK ==
  SaveEvery \in Nat \ {0} /\ {MaxIndex, MaxErrors, MaxSimResets} \subseteq Nat

VARIABLES
  index,     \* per pod: _sim_index
  batch,     \* per pod: _sim_batch_count
  saved,     \* sim_index in the database
  watching,  \* per pod: dashboards in the connection list
  greeting,  \* per pod: dashboards that are told the position, not listed yet
  producers, \* per pod: producer tasks that have not ended, and how far each is
  produced,  \* positions whose event was ever produced
  errors, simResets \* counts

positionVars == <<index, batch, saved>>
watcherVars   == <<watching, greeting>>
simVars      == <<positionVars, watcherVars, producers, produced, errors, simResets>>

\* A task is created, then between two events, or inside one that it processes
\* itself because Kafka is down.
TaskStates == {"created", "looping", "inline"}

SimTypeOK ==
  /\ index \in [SimPods -> Nat] /\ batch \in [SimPods -> Nat] /\ saved \in Nat
  /\ watching \in [SimPods -> SUBSET Watchers] /\ greeting \in [SimPods -> SUBSET Watchers]
  /\ \A p \in SimPods : \A s \in TaskStates : producers[p][s] \in Nat
  /\ produced \subseteq Nat /\ errors \in Nat /\ simResets \in Nat

NoTask == [s \in TaskStates |-> 0]

SimInit ==
  /\ index = [p \in SimPods |-> 0] /\ batch = [p \in SimPods |-> 0] /\ saved = 0
  /\ watching = [p \in SimPods |-> {}] /\ greeting = [p \in SimPods |-> {}]
  /\ producers = [p \in SimPods |-> NoTask] /\ produced = {} /\ errors = 0 /\ simResets = 0

Running(p) == producers[p]["created"] + producers[p]["looping"] + producers[p]["inline"]
SimError == errors < MaxErrors /\ errors' = errors + 1
Moves(p, from, to) ==
  /\ producers[p][from] > 0
  /\ producers' = [producers EXCEPT ![p] =
       [s \in TaskStates |-> @[s] - (IF s = from THEN 1 ELSE 0) + (IF s = to THEN 1 ELSE 0)]]

-----------------------------------------------------------------------------
(* simulate_stream *)

\* A dashboard connects: _load_sim_index, behind the producer that is running.
\* If the database fails the position is left.
Load(p) ==
  \/ index' = [index EXCEPT ![p] = saved] /\ UNCHANGED errors
  \/ SimError /\ UNCHANGED index

Greet(p, w) ==
  /\ \A q \in SimPods : w \notin watching[q] \union greeting[q]
  /\ greeting' = [greeting EXCEPT ![p] = @ \union {w}] /\ Load(p)
  /\ UNCHANGED <<batch, saved, watching, producers, produced, simResets>>

\* It has its greeting: it is listed, and the producer started unless one runs.
MayStart_Always(p) == TRUE
MayStart(p) == Running(p) = 0

Greeted(p, w) ==
  /\ w \in greeting[p] /\ greeting' = [greeting EXCEPT ![p] = @ \ {w}]
  /\ watching' = [watching EXCEPT ![p] = @ \union {w}]
  /\ producers' = IF MayStart(p) THEN [producers EXCEPT ![p]["created"] = @ + 1] ELSE producers
  /\ UNCHANGED <<positionVars, produced, errors, simResets>>

\* It goes, during the greeting or later.
Disconnect(p, w) ==
  /\ w \in watching[p] \union greeting[p]
  /\ watching' = [watching EXCEPT ![p] = @ \ {w}] /\ greeting' = [greeting EXCEPT ![p] = @ \ {w}]
  /\ UNCHANGED <<positionVars, producers, produced, errors, simResets>>

-----------------------------------------------------------------------------
(* _producer_loop *)

\* The task begins by loading the position.
BeginLoop(p) ==
  /\ Moves(p, "created", "looping") /\ Load(p)
  /\ UNCHANGED <<batch, saved, watcherVars, produced, simResets>>

\* The loop ends once nobody watches.
StopsWhen(p) == watching[p] = {}

EndLoop(p) ==
  /\ StopsWhen(p) /\ Moves(p, "looping", "ended")
  /\ UNCHANGED <<positionVars, watcherVars, produced, errors, simResets>>

\* _save_sim_index: every SaveEvery events; if that fails, again at the next one.
SaveDue_Late(p) == batch[p] + 1 > SaveEvery
SaveDue(p) == batch[p] + 1 >= SaveEvery

Position_BatchStart(p) == index[p] - batch[p] - 1
Position(p) == index[p] + 1

Advance(p) ==
  /\ index' = [index EXCEPT ![p] = @ + 1]
  /\ \/ ~ SaveDue(p) /\ batch' = [batch EXCEPT ![p] = @ + 1] /\ UNCHANGED <<saved, errors>>
     \/ SaveDue(p) /\ batch' = [batch EXCEPT ![p] = 0] /\ saved' = Position(p) /\ UNCHANGED errors
     \/ SaveDue(p) /\ batch' = [batch EXCEPT ![p] = @ + 1] /\ SimError /\ UNCHANGED saved

\* Kafka takes the event, or loses it, at once.
Produce(p) ==
  /\ ~ StopsWhen(p) /\ index[p] < MaxIndex /\ Moves(p, "looping", "looping")
  /\ produced' = produced \union {index[p]} /\ Advance(p)
  /\ UNCHANGED <<watcherVars, simResets>>

\* Without Kafka it is processed here and broadcast, which awaits; the position
\* moves on after that.  An error leaves it, and the event is tried again.
Process(p) ==
  /\ ~ StopsWhen(p) /\ index[p] < MaxIndex /\ Moves(p, "looping", "inline")
  /\ produced' = produced \union {index[p]}
  /\ UNCHANGED <<positionVars, watcherVars, errors, simResets>>

Broadcasted(p) ==
  /\ Moves(p, "inline", "looping")
  /\ \/ Advance(p)
     \/ SimError /\ UNCHANGED positionVars
  /\ UNCHANGED <<watcherVars, produced, simResets>>

-----------------------------------------------------------------------------
\* The reset of the administrator: the position in the database and in the pod
\* that serves it; its producer goes on from there.
ResetSim(p) ==
  /\ simResets < MaxSimResets /\ simResets' = simResets + 1
  /\ saved' = 0 /\ index' = [index EXCEPT ![p] = 0] /\ batch' = [batch EXCEPT ![p] = 0]
  /\ UNCHANGED <<watcherVars, producers, produced, errors>>

SimPodRestarts(p) ==
  /\ simResets < MaxSimResets /\ simResets' = simResets + 1
  /\ index' = [index EXCEPT ![p] = 0] /\ batch' = [batch EXCEPT ![p] = 0]
  /\ watching' = [watching EXCEPT ![p] = {}] /\ greeting' = [greeting EXCEPT ![p] = {}]
  /\ producers' = [producers EXCEPT ![p] = NoTask] /\ UNCHANGED <<saved, produced, errors>>

SimNext ==
  \E p \in SimPods :
    \/ \E w \in Watchers : Greet(p, w) \/ Greeted(p, w) \/ Disconnect(p, w)
    \/ BeginLoop(p) \/ EndLoop(p) \/ Produce(p) \/ Process(p) \/ Broadcasted(p)
    \/ ResetSim(p) \/ SimPodRestarts(p)

SimSpec == SimInit /\ [][SimNext]_simVars

-----------------------------------------------------------------------------
(* Properties *)

\* A pod has one producer at most, and one whenever a dashboard of its watches,
\* however connections, disconnections and the end of the loop interleave.
OneProducerPerPod ==
  \A p \in SimPods : Running(p) <= 1 /\ (watching[p] # {} => Running(p) = 1)

\* A pod alone plays the stream without a gap, and repeats little of it: the events
\* before its position have been produced, whatever is loaded while an event is
\* being broadcast, and if the database works, a dashboard that connects takes it
\* back by fewer than SaveEvery events.  (A pod that has restarted and whose first
\* loads failed plays from the start until a dashboard loads the saved position,
\* ahead of it: an event that is being broadcast then is counted as that one.)
SeamlessStream ==
  (\A p, q \in SimPods : p = q) =>
    \A p \in SimPods :
      /\ errors = 0 \/ simResets = 0 => 0 .. index[p] - 1 \subseteq produced
      /\ errors = 0 /\ index[p] > 0 => index[p] - saved \in 0 .. SaveEvery - 1
=============================================================================
