--------------------------- MODULE ThreatDecision ---------------------------
(***************************************************************************)
(* What backend/app/threat_engine.py makes of one scored event: the action *)
(* levels, the classification, the override for events without an anomaly  *)
(* and the three VPN cases of process_event, in the order of the code.     *)
(*                                                                         *)
(* Scores and thresholds are in thousandths.  An event is a record of the  *)
(* NetworkEvent fields that the decision reads:                            *)
(*   anomaly "None" or a label given by the caller; geo geo_mismatch;      *)
(*   travel impossible_travel; vpn is_vpn; failed                          *)
(*   failed_attempts_last_15m; mb data_downloaded_mb; source event_source. *)
(***************************************************************************)
EXTENDS Integers

CONSTANTS Threshold, \* _best_threshold of the loaded models
          Scores     \* what the ensemble may answer

ASSUME DecisionConstantsOK ==
  /\ Threshold \in 0 .. 1000
  /\ Scores \subseteq 0 .. 1000

Actions == {"ALLOW", "MONITOR", "BLOCK", "CRITICAL_ALERT"}

\* determine_action, with the THREAT_LEVELS of config.py.
Level(score) ==
  CASE score < 300                  -> "ALLOW"
    [] score >= 300 /\ score < 600  -> "MONITOR"
    [] score >= 600 /\ score < 850  -> "BLOCK"
    [] score >= 850                 -> "CRITICAL_ALERT"

-----------------------------------------------------------------------------
(* inference.predict *)

Scored(s) == [threat |-> s >= Threshold, score |-> s, threshold |-> Threshold]

\* No models, or predict_proba raises.
Unscored == [threat |-> FALSE, score |-> 0, threshold |-> 500]

Predictions == {Scored(s) : s \in Scores} \union {Unscored}

-----------------------------------------------------------------------------
(* process_event, stage 5 *)

\* The label is computed only when the caller gave none.
Label(e) ==
  CASE e.anomaly # "None"                         -> e.anomaly
    [] e.anomaly = "None" /\ e.travel             -> "Impossible Travel"
    [] e.anomaly = "None" /\ ~ e.travel /\ e.geo  ->
         IF e.vpn THEN "VPN with Geographic Anomaly" ELSE "Geographic Anomaly"
    [] e.anomaly = "None" /\ ~ e.travel /\ ~ e.geo ->
         IF e.mb > 200 THEN "Data Exfiltration"
         ELSE IF e.failed > 3 THEN "Credential Stuffing" ELSE "None"

RealAnomaly(e) == e.geo \/ e.travel \/ e.failed >= 5 \/ e.mb > 200

Cleared(v, cap) == [v EXCEPT !.threat = FALSE, !.action = "ALLOW", !.score = cap]
Raised(v, action, floor) ==
  [v EXCEPT !.threat = TRUE, !.action = action,
            !.score = IF @ < floor THEN floor ELSE @]

\* No label and nothing measured: a high score is overruled.
Override_Never(e, v) == v
Override(e, v) ==
  IF Label(e) = "None" /\ ~ RealAnomaly(e) /\ v.score > v.threshold
  THEN Cleared(v, v.threshold \div 2) ELSE v

\* Cases 1, 2a and 2b.
VpnCase_GeoFirst(e, v) ==
  CASE ~ e.vpn                            -> v
    [] e.vpn /\ e.geo                     -> Raised(v, "BLOCK", 750)
    [] e.vpn /\ e.travel /\ ~ e.geo       -> Raised(v, "CRITICAL_ALERT", 900)
    [] e.vpn /\ ~ e.travel /\ ~ e.geo     -> v
VpnCase(e, v) ==
  CASE ~ e.vpn                            -> v
    [] e.vpn /\ e.travel                  -> Raised(v, "CRITICAL_ALERT", 900)
    [] e.vpn /\ ~ e.travel /\ e.geo       -> Raised(v, "BLOCK", 750)
    [] e.vpn /\ ~ e.travel /\ ~ e.geo     ->
         IF ~ RealAnomaly(e) /\ v.score > v.threshold
         THEN Cleared(v, (4 * v.threshold) \div 5) ELSE v

Decide(e, p) ==
  LET v == [threat |-> p.threat, score |-> p.score, threshold |-> p.threshold,
            action |-> Level(p.score)]
  IN VpnCase(e, Override(e, v))

-----------------------------------------------------------------------------
(* process_event, stages 7 to 10 *)

HighSeverity(v) == v.threat /\ v.action \in {"BLOCK", "CRITICAL_ALERT"}

\* Stage 7: rotate the user, only observe, or count the event as auto-allowed.
Response(v, auto, forced) ==
  CASE HighSeverity(v) /\ (auto \/ forced)        -> "rotate"
    [] v.threat /\ v.action = "MONITOR"           -> "observe"
    [] OTHER                                      -> "autoAllow"

\* Portal logins are answered in the portal: no alert for the administrator.
RaisesAlert_Always(e, v) == HighSeverity(v)
RaisesAlert(e, v) == HighSeverity(v) /\ e.source # "live_portal"

-----------------------------------------------------------------------------
(* The policy that these stages add up to, stated by outcome *)

\* Evidence of a hijacked session, of a displaced one, and none at all.
Hijack(e)    == e.vpn /\ e.travel
Displaced(e) == e.vpn /\ e.geo /\ ~ e.travel
Harmless(e)  == ~ RealAnomaly(e) /\ (e.vpn \/ Label(e) = "None")

PolicyThreat(e, p) ==
  Hijack(e) \/ Displaced(e) \/ (p.threat /\ ~ (Harmless(e) /\ p.score > p.threshold))

PolicyAction(e, p) ==
  CASE Hijack(e)                               -> "CRITICAL_ALERT"
    [] Displaced(e)                            -> "BLOCK"
    [] Harmless(e) /\ p.score > p.threshold    -> "ALLOW"
    [] ~ Hijack(e) /\ ~ Displaced(e) /\ ~ (Harmless(e) /\ p.score > p.threshold)
                                               -> Level(p.score)
=============================================================================
