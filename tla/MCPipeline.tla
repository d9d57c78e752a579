----------------------------- MODULE MCPipeline -----------------------------
(***************************************************************************)
(* The way of the events to the pods and the counters they end in.  The    *)
(* counters depend on which thread processes an event when, not on how it  *)
(* came, and the way of the events not on the counters: a behaviour moves  *)
(* one of them.                                                            *)
(***************************************************************************)
EXTENDS KafkaIngest, PipelineMetrics, TLC

VARIABLE moves

vars == <<ingestVars, metricsVars, moves>>

Init == IngestInit /\ MetricsInit /\ moves \in {"events", "counters"}

Next ==
  \/ moves = "events" /\ IngestNext /\ UNCHANGED <<metricsVars, moves>>
  \/ moves = "counters" /\ MetricsNext /\ UNCHANGED <<ingestVars, moves>>

Spec == Init /\ [][Next]_vars

\* The types of the variables of both modules.
TypeOK == IngestTypeOK /\ MetricsTypeOK

Interchangeable == Permutations(Docs) \union Permutations(Pods)
=============================================================================
