----------------------------- MODULE WsBroadcast -----------------------------
(***************************************************************************)
(* backend/app/ws_manager.py: a message for the dashboards is published to *)
(* Redis, whose subscribers, a thread in each pod, hand it to the event    *)
(* loop of their pod; without Redis it is sent to the dashboards of the    *)
(* sending pod.  A local broadcast goes through the list of connections by *)
(* position and gives up the loop at each send, and the list changes       *)
(* meanwhile.                                                              *)
(***************************************************************************)
EXTENDS Integers, Sequences, FiniteSets

CONSTANTS Replicas,  \* pods
          Sockets,   \* connections of dashboards, each opened once
          Messages,  \* messages, each broadcast once
          MaxStops,  \* bound: how often Redis stops
          MaxUnsure  \* bound: publications whose answer is lost

ASSUME BroadcastConstantsOK == {MaxStops, MaxUnsure} \subseteq Nat

VARIABLES
  redisUp,     \* Redis runs
  subscribed,  \* pods that Redis knows as subscribers
  listening,   \* pods whose listener thread believes to be one
  available,   \* pods with _redis_available
  connections, \* per pod: the list of sockets
  left,        \* sockets whose dashboard has gone
  opened,      \* sockets opened so far
  scheduled,   \* pairs of a pod and a message: its listener has handed it over
  position,    \* per pod, message and origin: where its local broadcast stands, 0 if none
  dead,        \* the same: sockets that raised
  sent,        \* messages broadcast so far
  audience,    \* per message: the sockets connected when it was broadcast
  received,    \* per socket and message: how many times it was sent
  excused,     \* pairs of a socket and a message with a reason for missing it
  stops, unsure, doubtful \* counts, and the messages whose answer was lost

redisVars  == <<redisUp, subscribed, listening, available, stops>>
socketVars == <<connections, left, opened>>
taskVars   == <<scheduled, position, dead>>
mailVars   == <<sent, audience, received, excused, unsure, doubtful>>
broadcastVars == <<redisVars, socketVars, taskVars, mailVars>>

Task == Replicas \X Messages \X {"redis", "local"}
Connected(p) == {connections[p][i] : i \in DOMAIN connections[p]}

BroadcastTypeOK ==
  /\ redisUp \in BOOLEAN /\ subscribed \subseteq Replicas
  /\ listening \subseteq Replicas /\ available \subseteq Replicas
  /\ \A p \in Replicas : connections[p] \in Seq(Sockets)
  /\ left \subseteq opened /\ opened \subseteq Sockets /\ scheduled \subseteq Replicas \X Messages
  /\ \A t \in Task : position[t] \in Nat /\ dead[t] \subseteq Sockets
  /\ sent \subseteq Messages /\ audience \in [Messages -> SUBSET Sockets]
  /\ received \in [Sockets \X Messages -> Nat] /\ excused \subseteq Sockets \X Messages
  /\ stops \in Nat /\ unsure \in Nat /\ doubtful \subseteq sent

BroadcastInit ==
  /\ redisUp = TRUE /\ subscribed = Replicas /\ listening = Replicas /\ available = Replicas
  /\ connections = [p \in Replicas |-> <<>>] /\ left = {} /\ opened = {}
  /\ scheduled = {} /\ position = [t \in Task |-> 0] /\ dead = [t \in Task |-> {}]
  /\ sent = {} /\ audience = [m \in Messages |-> {}]
  /\ received = [wm \in Sockets \X Messages |-> 0] /\ excused = {}
  /\ stops = 0 /\ unsure = 0 /\ doubtful = {}

-----------------------------------------------------------------------------
(* Redis and the listener threads *)

RedisStops ==
  /\ redisUp /\ stops < MaxStops /\ stops' = stops + 1
  /\ redisUp' = FALSE /\ subscribed' = {}
  /\ UNCHANGED <<listening, available, socketVars, taskVars, mailVars>>

RedisStarts ==
  /\ ~ redisUp /\ redisUp' = TRUE
  /\ UNCHANGED <<subscribed, listening, available, stops, socketVars, taskVars, mailVars>>

ListenerFails(p) ==
  /\ p \in listening \ subscribed
  /\ listening' = listening \ {p} /\ available' = available \ {p}
  /\ UNCHANGED <<redisUp, subscribed, stops, socketVars, taskVars, mailVars>>

ListenerSubscribes(p) ==
  /\ redisUp /\ p \notin listening
  /\ subscribed' = subscribed \union {p} /\ listening' = listening \union {p}
  /\ available' = available \union {p}
  /\ UNCHANGED <<redisUp, stops, socketVars, taskVars, mailVars>>

\* The listener of the other manager sets the flag that both share.
OtherListener(p) ==
  /\ available' = IF redisUp THEN available \union {p} ELSE available \ {p}
  /\ UNCHANGED <<redisUp, subscribed, listening, stops, socketVars, taskVars, mailVars>>

\* The listener hands a message to the event loop.
Start(p, m) ==
  /\ <<p, m>> \in scheduled /\ scheduled' = scheduled \ {<<p, m>>}
  /\ position' = [position EXCEPT ![<<p, m, "redis">>] = 1]
  /\ UNCHANGED <<redisVars, socketVars, dead, mailVars>>

-----------------------------------------------------------------------------
(* broadcast *)

StartLocal(p, m) == position' = [position EXCEPT ![<<p, m, "local">>] = 1]
OthersMiss(m, pods) ==
  excused' = excused \union ((UNION {Connected(q) : q \in pods}) \X {m})

Published(p, m) ==
  /\ scheduled' = scheduled \union (subscribed \X {m})
  /\ OthersMiss(m, Replicas \ subscribed)

Broadcast(p, m) ==
  /\ m \notin sent /\ sent' = sent \union {m}
  /\ audience' = [audience EXCEPT ![m] = UNION {Connected(q) : q \in Replicas}]
  /\ \/ /\ p \in available /\ redisUp /\ Published(p, m)
        /\ UNCHANGED <<available, position, unsure, doubtful>>
     \/ /\ p \in available /\ redisUp /\ unsure < MaxUnsure /\ unsure' = unsure + 1
        /\ doubtful' = doubtful \union {m} /\ available' = available \ {p}
        /\ Published(p, m) /\ StartLocal(p, m)
     \/ /\ ~ (p \in available /\ redisUp) /\ available' = available \ {p}
        /\ StartLocal(p, m) /\ OthersMiss(m, Replicas \ {p})
        /\ UNCHANGED <<scheduled, unsure, doubtful>>
  /\ UNCHANGED <<redisUp, subscribed, listening, stops, socketVars, dead, received>>

-----------------------------------------------------------------------------
(* _local_broadcast *)

\* Those who may be passed over when the list of p becomes shorter.
Shortened(p) ==
  excused' = excused \union
    {wm \in Connected(p) \X Messages : \E o \in {"redis", "local"} : position[p, wm[2], o] > 0}

\* A socket that raises is only noted; the list is left alone during the loop.
RemovedAtOnce_Dead(w) == {w}
RemovedAtOnce(w) == {}

\* What is left of a list, in its order: the nth of those that stay.
Others(s, gone) ==
  LET stay    == {i \in DOMAIN s : s[i] \notin gone}
      rank(i) == Cardinality({j \in stay : j <= i})
  IN  [n \in 1 .. Cardinality(stay) |-> s[CHOOSE i \in stay : rank(i) = n]]

Without(p, gone) == [connections EXCEPT ![p] = Others(@, gone)]

Send(t) ==
  LET p == t[1]
      w == connections[p][position[t]]
  IN /\ position[t] \in DOMAIN connections[p]
     /\ position' = [position EXCEPT ![t] = @ + 1]
     /\ \/ received' = [received EXCEPT ![<<w, t[2]>>] = @ + 1] /\ UNCHANGED <<connections, dead>>
        \/ /\ w \in left /\ dead' = [dead EXCEPT ![t] = @ \union {w}]
           /\ connections' = Without(p, RemovedAtOnce(w)) /\ UNCHANGED received
     /\ UNCHANGED <<redisVars, left, opened, scheduled, sent, audience, excused, unsure, doubtful>>

\* After the loop the sockets that raised are removed.
Finish(t) ==
  /\ position[t] > Len(connections[t[1]])
  /\ position' = [position EXCEPT ![t] = 0] /\ dead' = [dead EXCEPT ![t] = {}]
  /\ connections' = Without(t[1], dead[t])
  /\ IF connections' = connections THEN UNCHANGED excused ELSE Shortened(t[1])
  /\ UNCHANGED <<redisVars, left, opened, scheduled, sent, audience, received, unsure, doubtful>>

-----------------------------------------------------------------------------
(* add and remove *)

Open(p, w) ==
  /\ w \notin opened /\ opened' = opened \union {w}
  /\ connections' = [connections EXCEPT ![p] = Append(@, w)]
  /\ UNCHANGED <<redisVars, left, taskVars, mailVars>>

Leave(w) ==
  /\ w \in opened \ left /\ left' = left \union {w}
  /\ UNCHANGED <<redisVars, connections, opened, taskVars, mailVars>>

\* The handler of the socket notices; remove() of a socket that a broadcast has
\* removed already does nothing.
Remove(p, w) ==
  /\ w \in left \intersect Connected(p) /\ connections' = Without(p, {w}) /\ Shortened(p)
  /\ UNCHANGED <<redisVars, left, opened, taskVars, sent, audience, received, unsure, doubtful>>

BroadcastNext ==
  \/ RedisStops \/ RedisStarts
  \/ \E p \in Replicas : ListenerFails(p) \/ ListenerSubscribes(p) \/ OtherListener(p)
  \/ \E p \in Replicas, m \in Messages : Start(p, m) \/ Broadcast(p, m)
  \/ \E t \in Task : position[t] > 0 /\ (Send(t) \/ Finish(t))
  \/ \E p \in Replicas, w \in Sockets : Open(p, w) \/ Remove(p, w)
  \/ \E w \in Sockets : Leave(w)

BroadcastSpec == BroadcastInit /\ [][BroadcastNext]_broadcastVars

-----------------------------------------------------------------------------
(* Properties *)

Done(m) == m \in sent /\ (\A p \in Replicas : <<p, m>> \notin scheduled)
                      /\ (\A t \in Task : t[2] = m => position[t] = 0)

\* A dashboard that was connected when a message was broadcast and stays gets it,
\* though the list moves under the broadcast, unless Redis or the listener of its
\* pod was down, or a connection of its pod was removed while the broadcast went
\* through the list.  None gets it twice, unless the publication worked and its
\* answer was lost.
DeliveredOnce ==
  \A m \in Messages :
    /\ Done(m) => \A w \in audience[m] \ left : received[w, m] > 0 \/ <<w, m>> \in excused
    /\ \A w \in Sockets : received[w, m] > 1 => m \in doubtful
=============================================================================
