----------------------------- MODULE MCConsole ------------------------------
(***************************************************************************)
(* What serves the dashboards and the administrators beside the pipeline.  *)
(* These parts share no state: a behaviour moves one of them.              *)
(***************************************************************************)
EXTENDS WsBroadcast, SimProducer, AdminAuth, ModeSwitcher, TLC

VARIABLE moves

vars == <<broadcastVars, simVars, authVars, switcherVars, moves>>

Init ==
  /\ BroadcastInit /\ SimInit /\ AuthInit /\ SwitcherInit
  /\ moves \in {"broadcast", "producer", "administrators", "stacks"}

Next ==
  /\ UNCHANGED moves
  /\ \/ moves = "broadcast" /\ BroadcastNext /\ UNCHANGED <<simVars, authVars, switcherVars>>
     \/ moves = "producer" /\ SimNext /\ UNCHANGED <<broadcastVars, authVars, switcherVars>>
     \/ moves = "administrators" /\ AuthNext /\ UNCHANGED <<broadcastVars, simVars, switcherVars>>
     \/ moves = "stacks" /\ SwitcherNext /\ UNCHANGED <<broadcastVars, simVars, authVars>>

Spec == Init /\ [][Next]_vars

\* The types of the variables of the four modules.
TypeOK == BroadcastTypeOK /\ SimTypeOK /\ AuthTypeOK /\ SwitcherTypeOK

Interchangeable == Permutations(Replicas) \union Permutations(Sockets)
=============================================================================
