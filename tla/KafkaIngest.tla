---------------------------- MODULE KafkaIngest ----------------------------
(***************************************************************************)
(* How events reach the pods: the Elasticsearch bridge                     *)
(* (scripts/es_to_kafka.py) copies recent documents to a topic, and the    *)
(* consumer thread of one pod (backend/app/kafka_client.py) polls it.  The *)
(* topic has one partition here; a message is known by its offset.         *)
(***************************************************************************)
EXTENDS Integers, Sequences

CONSTANTS Pods,        \* backend replicas
          Docs,        \* documents of the index
          MaxMessages, \* bound: length of the topic
          MaxAssigns,  \* bound: how often the group is rebalanced
          MaxRestarts  \* bound: restarts of the bridge

ASSUME IngestConstantsOK == {MaxMessages, MaxAssigns, MaxRestarts} \subseteq Nat

VARIABLES
  age,        \* per document: "future", "recent" (the last 30 s) or "old"
  seen,       \* seen_ids of the bridge
  bridges,    \* restarts of the bridge
  topic,      \* the messages
  committed,  \* offset the group has committed
  consumer,   \* per pod: its _consumer is "none", "new", "subscribed", "assigned"
  position,   \* per pod: the next offset
  taken,      \* offsets that some thread has polled
  assigns,    \* rebalances
  replayed,   \* an offset was polled twice
  seekFailed  \* a watermark query failed while a partition was assigned

bridgeVars   == <<age, seen, bridges>>
consumerVars == <<committed, consumer, position, taken, assigns, replayed, seekFailed>>
ingestVars   == <<bridgeVars, topic, consumerVars>>

IngestTypeOK ==
  /\ age \in [Docs -> {"future", "recent", "old"}] /\ seen \subseteq Docs /\ bridges \in Nat
  /\ topic \in Seq(Docs) /\ committed \in 0 .. Len(topic)
  /\ consumer \in [Pods -> {"none", "new", "subscribed", "assigned"}]
  /\ position \in [Pods -> 0 .. Len(topic)]
  /\ taken \subseteq 1 .. Len(topic) /\ assigns \in Nat
  /\ replayed \in BOOLEAN /\ seekFailed \in BOOLEAN

IngestInit ==
  /\ age = [d \in Docs |-> "future"] /\ seen = {} /\ bridges = 0
  /\ topic = <<>> /\ committed = 0
  /\ consumer = [p \in Pods |-> "none"] /\ position = [p \in Pods |-> 0]
  /\ taken = {} /\ assigns = 0 /\ replayed = FALSE /\ seekFailed = FALSE

-----------------------------------------------------------------------------
(* es_to_kafka.py in watch mode *)

\* A document is indexed, and leaves the range "now-30s" later.
Age(d) ==
  /\ age[d] # "old"
  /\ age' = [age EXCEPT ![d] = IF @ = "future" THEN "recent" ELSE "old"]
  /\ UNCHANGED <<seen, bridges, topic, consumerVars>>

\* transfer_batch: an id is remembered before its document is produced, and a
\* delivery that fails is only logged.
Unseen_Always(d) == TRUE
Unseen(d) == d \notin seen

Transfer(d) ==
  /\ age[d] = "recent" /\ Unseen(d) /\ Len(topic) < MaxMessages
  /\ seen' = seen \union {d}
  /\ topic' \in {topic, Append(topic, d)}
  /\ UNCHANGED <<age, bridges, consumerVars>>

\* seen_ids is in memory only.
BridgeRestarts ==
  /\ bridges < MaxRestarts /\ bridges' = bridges + 1 /\ seen' = {}
  /\ UNCHANGED <<age, topic, consumerVars>>

-----------------------------------------------------------------------------
(* kafka_client.py *)

\* connect_kafka, and start_consumer with the subscription of _consumer_loop.
\* Without a consumer the loop ends and the pod never consumes.
Connect(p) ==
  /\ consumer[p] = "none" /\ consumer' = [consumer EXCEPT ![p] = "subscribed"]
  /\ UNCHANGED <<bridgeVars, topic, committed, position, taken, assigns, replayed, seekFailed>>

\* The group gives the partition to a pod; _on_assign moves to the end of the
\* topic.  If the end cannot be asked for, the committed offset is used.
Seek_Committed == committed
Seek_Beyond == Len(topic) + 1
Seek == Len(topic)

Assign(p) ==
  /\ consumer[p] = "subscribed" /\ assigns < MaxAssigns /\ assigns' = assigns + 1
  /\ consumer' = [q \in Pods |->
       IF q = p THEN "assigned" ELSE IF consumer[q] = "assigned" THEN "subscribed" ELSE consumer[q]]
  /\ \E fails \in BOOLEAN :
       /\ position' = [position EXCEPT ![p] = IF fails THEN committed ELSE Seek]
       /\ seekFailed' = (seekFailed \/ fails)
  /\ UNCHANGED <<bridgeVars, topic, committed, taken, replayed>>

\* The loop polls the next message.
Poll(p, offset) ==
  /\ consumer[p] = "assigned" /\ position[p] < Len(topic) /\ offset = position[p] + 1
  /\ position' = [position EXCEPT ![p] = offset]
  /\ taken' = taken \union {offset} /\ replayed' = (replayed \/ offset \in taken)
  /\ UNCHANGED <<bridgeVars, topic, committed, consumer, assigns, seekFailed>>

\* The client commits in the background the position its pod has reached.
Commit(p) ==
  /\ consumer[p] = "assigned" /\ committed < position[p] /\ committed' = position[p]
  /\ UNCHANGED <<bridgeVars, topic, consumer, position, taken, assigns, replayed, seekFailed>>

\* reconnect_kafka, after a rotation of the Kafka credential: the old consumer
\* leaves and the new one is never subscribed, because _consumer_loop is past
\* its subscription.
Reconnect(p) ==
  /\ consumer[p] \in {"subscribed", "assigned"} /\ consumer' = [consumer EXCEPT ![p] = "new"]
  /\ UNCHANGED <<bridgeVars, topic, committed, position, taken, assigns, replayed, seekFailed>>

\* disconnect_kafka, or the pod dies.
Leave(p) ==
  /\ consumer' = [consumer EXCEPT ![p] = "none"]
  /\ UNCHANGED <<bridgeVars, topic, committed, position, taken, assigns, replayed, seekFailed>>

IngestNext ==
  \/ \E d \in Docs : Age(d) \/ Transfer(d)
  \/ BridgeRestarts
  \/ \E p \in Pods :
       \/ Connect(p) \/ Assign(p) \/ Commit(p) \/ Reconnect(p) \/ Leave(p)
       \/ \E offset \in 1 .. MaxMessages : Poll(p, offset)

IngestSpec == IngestInit /\ [][IngestNext]_ingestVars

\* The consumer thread of a pod and its client library keep running.
Consume(p) == Connect(p) \/ Assign(p) \/ Commit(p) \/ \E offset \in 1 .. MaxMessages : Poll(p, offset)
IngestFairSpec == IngestSpec /\ \A p \in Pods : WF_ingestVars(Consume(p))

-----------------------------------------------------------------------------
(* Properties *)

\* Rebalances, reconnections and restarts skip messages and never repeat one,
\* unless a pod failed to ask for the end of the topic.
OnlyAFailedSeekReplays == replayed => seekFailed

\* A document is produced again only by a bridge that forgot it in a restart,
\* however often the index is polled within the thirty seconds.
RepeatsNeedABridgeRestart ==
  \A i, j \in DOMAIN topic : i # j /\ topic[i] = topic[j] => bridges > 0

\* The promise of the docstring of reconnect_kafka (kafka_client.py:229): the
\* consumer loop detects the reconnection and subscribes again.
Resubscribes == \A p \in Pods : consumer[p] = "new" ~> consumer[p] # "new"
=============================================================================
