----------------------------- MODULE MCScoring -----------------------------
(***************************************************************************)
(* Scoring: the way of an event from the portal to its verdict, the cached *)
(* verdicts on addresses and the history of a user.  The three share no    *)
(* variable, so a behaviour moves one of them and the others stand still   *)
(* in one of their initial states.                                         *)
(***************************************************************************)
EXTENDS Detection, VpnCache, UserHistory, TLC

CONSTANTS p1, p2, t1, t2, t3

VARIABLE moves

MCNames    == {<<"alice">>, <<"vpnbot">>, <<"bob", "ross">>}
MCVpnWords == {"vpn", "vpnbot"}

\* The Kafka thread and a request of one pod, and the Kafka thread of another.
MCPodOf == t1 :> p1 @@ t2 :> p1 @@ t3 :> p2

vars == <<detectionVars, vpnVars, historyVars, moves>>

StandStill ==
  auto /\ call = [c \in Calls |-> [kind |-> "login", pod |-> p1, name |-> <<"alice">>,
                                   addr |-> "plain", ok |-> TRUE]]

Init ==
  /\ DetectionInit /\ VpnInit /\ HistoryInit
  /\ moves \in {"event", "verdicts", "history"}
  /\ moves # "event" => StandStill
  /\ moves # "verdicts" => ~ proxied

Next ==
  \/ moves = "event" /\ DetectionNext /\ UNCHANGED <<vpnVars, historyVars, moves>>
  \/ moves = "verdicts" /\ VpnNext /\ UNCHANGED <<detectionVars, historyVars, moves>>
  \/ moves = "history" /\ HistoryNext /\ UNCHANGED <<detectionVars, vpnVars, moves>>

Spec == Init /\ [][Next]_vars

\* The types of the variables of the three modules.
TypeOK == DetectionTypeOK /\ VpnTypeOK /\ HistoryTypeOK
=============================================================================
