------------------------- MODULE KafkaIngestProofs -------------------------
(***************************************************************************)
(* Messages repeat for the two reasons that KafkaIngest names and for no   *)
(* other, for any pods, documents and bounds.                              *)
(***************************************************************************)
EXTENDS MCPipeline, TLAPS

\* The group gives the partition to one pod at a time.
OneReader ==
  \A p, q \in Pods : consumer[p] = "assigned" /\ consumer[q] = "assigned" => p = q

\* As long as each assignment began at the end of the topic, the reader has
\* everything that was polled behind it.
ReaderIsAhead ==
  ~ seekFailed => \A p \in Pods : consumer[p] = "assigned" =>
                    \A offset \in taken : offset <= position[p]

\* A bridge that was never restarted remembers what it produced, once each.
BridgeRemembers ==
  bridges = 0 => /\ \A i \in DOMAIN topic : topic[i] \in seen
                 /\ \A i, j \in DOMAIN topic : i # j => topic[i] # topic[j]

IngestInv ==
  IngestTypeOK /\ OneReader /\ ReaderIsAhead /\ OnlyAFailedSeekReplays /\ BridgeRemembers

\* What a message appended to a topic leaves as it was.
LEMMA AppendedTopic ==
  ASSUME NEW T, NEW s \in Seq(T), NEW d \in T
  PROVE  /\ Append(s, d) \in Seq(T) /\ Len(s) \in Nat /\ Len(Append(s, d)) = Len(s) + 1
         /\ DOMAIN Append(s, d) = DOMAIN s \union {Len(s) + 1} /\ Len(s) + 1 \notin DOMAIN s
         /\ \A i \in DOMAIN s : Append(s, d)[i] = s[i]
         /\ Append(s, d)[Len(s) + 1] = d
OBVIOUS

\* At the start the topic is empty and nobody reads.
LEMMA IngestStart == IngestInit => IngestInv
<1> SUFFICES ASSUME IngestInit PROVE IngestInv
  OBVIOUS
<1>1. topic = <<>> /\ topic \in Seq(Docs) /\ Len(topic) = 0 /\ DOMAIN topic = {}
  BY DEF IngestInit
<1>2. IngestTypeOK
  <2>1. /\ age \in [Docs -> {"future", "recent", "old"}] /\ seen \subseteq Docs
        /\ consumer \in [Pods -> {"none", "new", "subscribed", "assigned"}]
    BY DEF IngestInit
  <2>2. /\ bridges \in Nat /\ committed \in 0 .. Len(topic) /\ assigns \in Nat
        /\ taken \subseteq 1 .. Len(topic)
    BY <1>1 DEF IngestInit
  <2>3. position \in [Pods -> 0 .. Len(topic)]
    BY <1>1 DEF IngestInit
  <2>4. replayed \in BOOLEAN /\ seekFailed \in BOOLEAN
    BY DEF IngestInit
  <2>5. QED
    BY <1>1, <2>1, <2>2, <2>3, <2>4 DEF IngestTypeOK
<1>3. OneReader /\ ReaderIsAhead /\ OnlyAFailedSeekReplays
  BY DEF IngestInit, OneReader, ReaderIsAhead, OnlyAFailedSeekReplays
<1>4. BridgeRemembers
  BY <1>1 DEF BridgeRemembers
<1>5. QED
  BY <1>2, <1>3, <1>4 DEF IngestInv

\* The bridge produces only what it has not seen; readers are not touched.
LEMMA TransferKeeps ==
  ASSUME IngestInv, NEW d \in Docs, Transfer(d)
  PROVE  IngestInv'
<1> USE DEF IngestInv, IngestTypeOK
<1>1. /\ seen' = seen \union {d} /\ topic' \in {topic, Append(topic, d)} /\ d \notin seen
      /\ UNCHANGED <<age, bridges, committed, consumer, position, taken, assigns, replayed, seekFailed>>
  BY DEF Transfer, Unseen, consumerVars
<1>2. /\ Append(topic, d) \in Seq(Docs) /\ Len(topic) \in Nat
      /\ Len(Append(topic, d)) = Len(topic) + 1
      /\ DOMAIN Append(topic, d) = DOMAIN topic \union {Len(topic) + 1}
      /\ Len(topic) + 1 \notin DOMAIN topic
      /\ \A i \in DOMAIN topic : Append(topic, d)[i] = topic[i]
      /\ Append(topic, d)[Len(topic) + 1] = d
  BY AppendedTopic
<1>3. topic' \in Seq(Docs) /\ Len(topic') \in Nat /\ Len(topic) <= Len(topic')
  <2>1. CASE topic' = topic
    BY <1>2, <2>1
  <2>2. CASE topic' = Append(topic, d)
    BY <1>2, <2>2
  <2>3. QED
    BY <1>1, <2>1, <2>2
<1>4. IngestTypeOK'
  <2>1. seen' \subseteq Docs /\ seen' = seen \union {d}
    BY <1>1
  <2>2. QED
    BY <1>1, <1>3, <2>1
<1>5. (OneReader /\ ReaderIsAhead /\ OnlyAFailedSeekReplays)'
  BY <1>1 DEF OneReader, ReaderIsAhead, OnlyAFailedSeekReplays
<1>6. BridgeRemembers'
  <2>1. CASE topic' = topic
    BY <1>1, <2>1 DEF BridgeRemembers
  <2>2. CASE topic' = Append(topic, d)
    BY <1>1, <1>2, <2>2 DEF BridgeRemembers
  <2>3. QED
    BY <1>1, <2>1, <2>2
<1>7. QED
  BY <1>4, <1>5, <1>6

\* Documents age and the bridge restarts; after that it may repeat itself.
LEMMA BridgeKeeps ==
  ASSUME IngestInv, BridgeRestarts \/ \E d \in Docs : Age(d)
  PROVE  IngestInv'
<1>1. CASE BridgeRestarts
  <2>1. bridges' = bridges + 1 /\ bridges' # 0 /\ seen' = {} /\ UNCHANGED <<age, topic, consumerVars>>
    BY <1>1 DEF BridgeRestarts, IngestInv, IngestTypeOK
  <2>2. QED
    BY <2>1 DEF IngestInv, IngestTypeOK, OneReader, ReaderIsAhead, OnlyAFailedSeekReplays,
                BridgeRemembers, consumerVars
<1>2. CASE \E d \in Docs : Age(d)
  BY <1>2 DEF Age, IngestInv, IngestTypeOK, OneReader, ReaderIsAhead, OnlyAFailedSeekReplays,
              BridgeRemembers, consumerVars
<1>3. QED
  BY <1>1, <1>2

\* The partition moves to a pod, which begins at the end of the topic unless it
\* cannot ask for it.
LEMMA AssignKeeps ==
  ASSUME IngestInv, NEW p \in Pods, Assign(p)
  PROVE  IngestInv'
<1> USE DEF IngestInv, IngestTypeOK
<1>1. PICK fails \in BOOLEAN :
        /\ position' = [position EXCEPT ![p] = IF fails THEN committed ELSE Len(topic)]
        /\ seekFailed' = (seekFailed \/ fails)
  BY DEF Assign, Seek
<1>2. /\ UNCHANGED <<age, seen, bridges, topic, committed, taken, replayed>> /\ assigns' \in Nat
      /\ consumer' = [q \in Pods |-> IF q = p THEN "assigned"
                                     ELSE IF consumer[q] = "assigned" THEN "subscribed" ELSE consumer[q]]
  BY DEF Assign, bridgeVars
<1>3. Len(topic) \in 0 .. Len(topic)
  OBVIOUS
<1>4. seekFailed' \in BOOLEAN
  BY <1>1
<1>5. IngestTypeOK'
  BY <1>1, <1>2, <1>3, <1>4
<1>6. \A q \in Pods : consumer'[q] = "assigned" => q = p
  BY <1>2
<1>7. OneReader'
  BY <1>6 DEF OneReader
<1>8. ReaderIsAhead'
  BY <1>1, <1>2, <1>6 DEF ReaderIsAhead
<1>9. OnlyAFailedSeekReplays' /\ BridgeRemembers'
  BY <1>1, <1>2 DEF OnlyAFailedSeekReplays, BridgeRemembers
<1>10. QED
  BY <1>5, <1>7, <1>8, <1>9

\* The reader polls the next offset, which nobody has polled if it is ahead.
LEMMA PollKeeps ==
  ASSUME IngestInv, NEW p \in Pods, NEW offset \in Nat, Poll(p, offset)
  PROVE  IngestInv'
<1> USE DEF IngestInv, IngestTypeOK
<1>1. /\ consumer[p] = "assigned" /\ position[p] < Len(topic) /\ offset = position[p] + 1
      /\ position' = [position EXCEPT ![p] = offset] /\ taken' = taken \union {offset}
      /\ replayed' = (replayed \/ offset \in taken)
      /\ UNCHANGED <<age, seen, bridges, topic, committed, consumer, assigns, seekFailed>>
  BY DEF Poll, bridgeVars
<1>2. offset \in 1 .. Len(topic) /\ offset \in 0 .. Len(topic)
  BY <1>1
<1>3. replayed' \in BOOLEAN
  BY <1>1
<1>4. IngestTypeOK'
  BY <1>1, <1>2, <1>3
<1>5. OneReader' /\ BridgeRemembers'
  BY <1>1 DEF OneReader, BridgeRemembers
<1>6. ReaderIsAhead'
  <2>1. ASSUME ~ seekFailed', NEW q \in Pods, consumer'[q] = "assigned", NEW o \in taken'
        PROVE  o <= position'[q]
    <3>1. q = p /\ position'[q] = offset /\ o \in taken \union {offset}
      BY <1>1, <2>1 DEF OneReader
    <3>2. o \in taken => o <= position[p]
      BY <1>1, <2>1 DEF ReaderIsAhead
    <3>3. QED
      BY <1>1, <3>1, <3>2
  <2>2. QED
    BY <2>1 DEF ReaderIsAhead
<1>7. OnlyAFailedSeekReplays'
  <2>1. ~ seekFailed => offset \notin taken
    BY <1>1 DEF ReaderIsAhead
  <2>2. QED
    BY <1>1, <2>1 DEF OnlyAFailedSeekReplays
<1>8. QED
  BY <1>4, <1>5, <1>6, <1>7

\* A consumer is made, commits, is replaced or closed: nobody becomes a reader.
LEMMA ConsumerKeeps ==
  ASSUME IngestInv, NEW p \in Pods, Connect(p) \/ Commit(p) \/ Reconnect(p) \/ Leave(p)
  PROVE  IngestInv'
<1> USE DEF IngestInv, IngestTypeOK, OneReader, ReaderIsAhead, OnlyAFailedSeekReplays,
            BridgeRemembers, bridgeVars
<1>1. CASE Connect(p)
  BY <1>1 DEF Connect
<1>2. CASE Commit(p)
  BY <1>2 DEF Commit
<1>3. CASE Reconnect(p)
  BY <1>3 DEF Reconnect
<1>4. CASE Leave(p)
  BY <1>4 DEF Leave
<1>5. QED
  BY <1>1, <1>2, <1>3, <1>4

\* Every step of the bridge, the topic and the consumers keeps the invariant.
LEMMA IngestStep == IngestInv /\ [IngestNext]_ingestVars => IngestInv'
<1> SUFFICES ASSUME IngestInv, [IngestNext]_ingestVars
             PROVE  IngestInv'
  OBVIOUS
<1>1. CASE \E d \in Docs : Transfer(d)
  BY <1>1, TransferKeeps
<1>2. CASE BridgeRestarts \/ \E d \in Docs : Age(d)
  BY <1>2, BridgeKeeps
<1>3. CASE \E p \in Pods : Assign(p)
  BY <1>3, AssignKeeps
<1>4. CASE \E p \in Pods : \E offset \in 1 .. MaxMessages : Poll(p, offset)
  BY <1>4, PollKeeps, IngestConstantsOK
<1>5. CASE \E p \in Pods : Connect(p) \/ Commit(p) \/ Reconnect(p) \/ Leave(p)
  BY <1>5, ConsumerKeeps
<1>6. CASE UNCHANGED ingestVars
  BY <1>6 DEF ingestVars, bridgeVars, consumerVars, IngestInv, IngestTypeOK, OneReader,
     ReaderIsAhead, OnlyAFailedSeekReplays, BridgeRemembers
<1>7. QED
  BY <1>1, <1>2, <1>3, <1>4, <1>5, <1>6 DEF IngestNext

\* It holds throughout.
LEMMA IngestInvariant == IngestSpec => []IngestInv
BY IngestStart, IngestStep, PTL DEF IngestSpec

\* _on_assign seeks to the end of the topic: rebalances, reconnections and
\* restarts of pods repeat no message, unless a watermark query failed.
THEOREM ReplaysNeedAFailedSeek == IngestSpec => []OnlyAFailedSeekReplays
BY IngestInvariant, PTL DEF IngestInv

\* transfer_batch remembers an id before it produces its document: a document is
\* produced again only by a bridge that was restarted.
THEOREM RepeatsNeedARestart == IngestSpec => []RepeatsNeedABridgeRestart
<1>1. IngestInv => RepeatsNeedABridgeRestart
  BY DEF IngestInv, IngestTypeOK, BridgeRemembers, RepeatsNeedABridgeRestart
<1>2. QED
  BY <1>1, IngestInvariant, PTL
=============================================================================
