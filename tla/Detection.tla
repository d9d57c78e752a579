----------------------------- MODULE Detection -----------------------------
(***************************************************************************)
(* From a password to a verdict: login and simulate of                     *)
(* backend/app/routes/auth.py, the Zeek line they write, process_raw_event *)
(* that reads it back in the Kafka thread of some pod, and process_event   *)
(* of backend/app/threat_engine.py.                                        *)
(*                                                                         *)
(* A portal login by VPN and a simulation are scored twice: at once in the *)
(* request, and again when their line comes back through Kafka.  Replayed  *)
(* connections are scored once.  What check_vpn_ip answers and what the    *)
(* models predict is arbitrary here; VpnCache and UserHistory have the     *)
(* state they read.                                                        *)
(***************************************************************************)
EXTENDS ThreatDecision, Sequences, FiniteSets

CONSTANTS Pods,     \* backend replicas
          Calls,    \* requests of the portal and replayed connections
          Names,    \* user names, as the sequences of their words between "_"
          VpnWords  \* the words with the letters "vpn" in them

ASSUME DetectionConstantsOK ==
  /\ Names # {} /\ \A name \in Names : name \in Seq(STRING) /\ Len(name) > 0
  /\ "vpn" \in VpnWords /\ {"auth", "success", "failure"} \intersect VpnWords = {}

\* Client addresses by what the code reads off their prefix: private ones; those
\* it knows nothing of; 104. and 198. (a guess of check_vpn_ip only); 45., 82.
\* and 185., outside the home region of the user or in it.
Addresses == {"private", "plain", "hosting", "vpnAway", "vpnHome"}

Call == [kind : {"login", "simulate", "replay"}, pod : Pods, name : Names,
         addr : Addresses, ok : BOOLEAN]

VARIABLES
  auto,    \* ENABLE_AUTO_USER_ROTATION
  call,    \* the calls
  pc,      \* where each of them stands
  at,      \* the pod that works on it
  vpn,     \* is_vpn, once the request knows
  line,    \* the service field of its Zeek line: at most one
  event,   \* the NetworkEvent being scored
  score,   \* what inference.predict answered
  alerts,  \* administrator alerts raised by the call
  rotated  \* users whose credentials it rotated

callVars   == <<auto, call>>
effectVars == <<alerts, rotated>>
detectionVars == <<callVars, pc, at, vpn, line, event, score, effectVars>>

Steps == {"new", "auth", "predict", "decide", "log", "line", "done"}

\* A NetworkEvent, here with the defaults of its fields.
NoEvent == [user |-> <<>>, anomaly |-> "None", geo |-> FALSE, travel |-> FALSE,
            vpn |-> FALSE, failed |-> 0, mb |-> 0, source |-> "replayed_dataset"]

DetectionInit ==
  /\ auto \in BOOLEAN /\ call \in [Calls -> Call]
  /\ pc = [c \in Calls |-> "new"]
  /\ at = [c \in Calls |-> call[c].pod]
  /\ vpn = [c \in Calls |-> FALSE]
  /\ line = [c \in Calls |-> {}]
  /\ event = [c \in Calls |-> NoEvent] /\ score = [c \in Calls |-> Unscored]
  /\ alerts = [c \in Calls |-> 0] /\ rotated = [c \in Calls |-> {}]

Goto(c, from, to) == pc[c] = from /\ pc' = [pc EXCEPT ![c] = to]

-----------------------------------------------------------------------------
(* login: the address and the password *)

\* check_vpn_ip: private addresses are never VPNs; for others the provider, a
\* cache or, when the lookup fails, the prefix says.
CheckVpn(c) ==
  /\ call[c].kind = "login" /\ Goto(c, "new", "auth")
  /\ \E says \in IF call[c].addr = "private" THEN {FALSE} ELSE BOOLEAN :
       vpn' = [vpn EXCEPT ![c] = says]
  /\ UNCHANGED <<callVars, at, line, event, score, effectVars>>

\* _process_vpn_login_event: labelled by hand, whatever the regions are.
VpnLoginEvent(c) ==
  [NoEvent EXCEPT !.user = call[c].name, !.geo = TRUE, !.vpn = TRUE, !.mb = 10,
                  !.anomaly = "VPN with Geographic Anomaly", !.source = "vpn_login"]

\* An accepted login by VPN is scored at once; any other only leaves its line.
ScoredNow(c) == vpn[c] /\ call[c].ok

Authenticate(c) ==
  /\ \/ ScoredNow(c) /\ Goto(c, "auth", "predict")
        /\ event' = [event EXCEPT ![c] = VpnLoginEvent(c)]
     \/ ~ ScoredNow(c) /\ Goto(c, "auth", "log") /\ UNCHANGED event
  /\ UNCHANGED <<callVars, at, vpn, line, score, effectVars>>

-----------------------------------------------------------------------------
(* simulate *)

\* The regions, the volume and the VPN flag are fields of the request; the
\* label is computed from them as process_event does.
Simulated(c, geo, travel, byVpn, failed, mb) ==
  LET e == [NoEvent EXCEPT !.user = call[c].name, !.geo = geo, !.travel = travel,
                           !.vpn = byVpn, !.failed = failed, !.mb = mb,
                           !.source = "threat_simulation_portal"]
  IN [e EXCEPT !.anomaly = Label(e)]
SimulatedEvents(c) ==
  {Simulated(c, geo, travel, byVpn, failed, mb) :
     geo, travel, byVpn \in BOOLEAN, failed \in {0, 4, 5}, mb \in {10, 201}}

\* A simulation without the password is refused.
Simulate(c) ==
  /\ call[c].kind = "simulate"
  /\ \/ ~ call[c].ok /\ Goto(c, "new", "done") /\ UNCHANGED <<event, vpn>>
     \/ \E e \in SimulatedEvents(c) :
          /\ call[c].ok /\ Goto(c, "new", "predict")
          /\ event' = [event EXCEPT ![c] = e] /\ vpn' = [vpn EXCEPT ![c] = e.vpn]
  /\ UNCHANGED <<callVars, at, line, score, effectVars>>

-----------------------------------------------------------------------------
(* The Zeek line of a login or a simulation *)

\* The name, the outcome and the VPN mark are joined with "_".
Service(name, ok, byVpn) ==
  <<"auth">> \o name \o <<IF ok THEN "success" ELSE "failure">>
             \o (IF byVpn THEN <<"vpn">> ELSE <<>>)

\* write_zeek_log; a file that cannot be written is only logged.
WriteZeekLog(c) ==
  /\ \/ Goto(c, "log", "line")
        /\ line' = [line EXCEPT ![c] = {Service(call[c].name, call[c].ok, vpn[c])}]
     \/ Goto(c, "log", "done") /\ UNCHANGED line
  /\ UNCHANGED <<callVars, at, vpn, event, score, effectVars>>

\* process_raw_event: the service field is split at each "_"; the second part
\* is the user and the third one the outcome.
Parts(service) ==
  IF service[Len(service)] = "vpn" THEN SubSeq(service, 1, Len(service) - 1) ELSE service
NamesVpn(words) == \E i \in DOMAIN words : words[i] \in VpnWords
UserPart(parts) == parts[2]

Decode(service, addr) ==
  [NoEvent EXCEPT
     !.user = <<UserPart(Parts(service))>>, !.source = "live_portal",
     !.failed = IF Parts(service)[3] = "success" THEN 0 ELSE 5,
     !.geo = addr = "vpnAway",
     !.vpn = addr \in {"vpnAway", "vpnHome"} \/ NamesVpn(service)]

\* A replayed connection takes its fields from the data set.
ReplayedLabels == {"None", "Credential Stuffing"}
Replayed(c, geo, travel, mb, label) ==
  [NoEvent EXCEPT !.user = call[c].name, !.geo = geo, !.travel = travel, !.mb = mb,
                  !.anomaly = label,
                  !.vpn = call[c].addr \in {"vpnAway", "vpnHome"} \/ NamesVpn(call[c].name)]
ReplayedEvents(c) ==
  {Replayed(c, geo, travel, mb, label) :
     geo, travel \in BOOLEAN, mb \in {10, 201}, label \in ReplayedLabels}

\* The Kafka thread of a pod takes one event at a time.
ByKafka(c) == event[c].source \in {"live_portal", "replayed_dataset"}
Idle(p) == \A c \in Calls : at[c] = p /\ pc[c] \in {"predict", "decide"} => ~ ByKafka(c)

ConsumeLine(c, p) ==
  /\ Idle(p) /\ Goto(c, "line", "predict") /\ at' = [at EXCEPT ![c] = p]
  /\ \E service \in line[c] : event' = [event EXCEPT ![c] = Decode(service, call[c].addr)]
  /\ line' = [line EXCEPT ![c] = {}]
  /\ UNCHANGED <<callVars, vpn, score, effectVars>>

ConsumeReplay(c) ==
  /\ call[c].kind = "replay" /\ Idle(at[c]) /\ Goto(c, "new", "predict")
  /\ \E e \in ReplayedEvents(c) : event' = [event EXCEPT ![c] = e]
  /\ UNCHANGED <<callVars, at, vpn, line, score, effectVars>>

-----------------------------------------------------------------------------
(* process_event *)

Predict(c) ==
  /\ Goto(c, "predict", "decide")
  /\ \E p \in Predictions : score' = [score EXCEPT ![c] = p]
  /\ UNCHANGED <<callVars, at, vpn, line, event, effectVars>>

Decided(c) == Decide(event[c], score[c])
Forced(c) == event[c].source = "threat_simulation_portal"
Rotates(c) == Response(Decided(c), auto, Forced(c)) = "rotate"

\* The verdict and what follows from it; a request goes on to write its line.
Act(c) ==
  /\ Goto(c, "decide", IF ByKafka(c) THEN "done" ELSE "log")
  /\ rotated' = [rotated EXCEPT ![c] = IF Rotates(c) THEN @ \union {event[c].user} ELSE @]
  /\ alerts' = [alerts EXCEPT ![c] = IF RaisesAlert(event[c], Decided(c)) THEN @ + 1 ELSE @]
  /\ event' = [event EXCEPT ![c] = NoEvent] /\ score' = [score EXCEPT ![c] = Unscored]
  /\ UNCHANGED <<callVars, at, vpn, line>>

\* The pod dies, with its requests; the line of an event in its Kafka thread is
\* not read again, since a restarted consumer begins at the end of the topic.
PodDies(p) ==
  /\ \E c \in Calls : at[c] = p /\ pc[c] \notin {"new", "line", "done"}
  /\ pc' = [c \in Calls |-> IF at[c] = p /\ pc[c] \notin {"new", "line"} THEN "done" ELSE pc[c]]
  /\ event' = [c \in Calls |-> IF at[c] = p THEN NoEvent ELSE event[c]]
  /\ score' = [c \in Calls |-> IF at[c] = p THEN Unscored ELSE score[c]]
  /\ UNCHANGED <<callVars, at, vpn, line, effectVars>>

-----------------------------------------------------------------------------
Request(c) == CheckVpn(c) \/ Authenticate(c) \/ Simulate(c) \/ WriteZeekLog(c)
Kafka(c) == ConsumeReplay(c) \/ \E p \in Pods : ConsumeLine(c, p)
ProcessEvent(c) == Predict(c) \/ Act(c)

DetectionNext == \/ \E c \in Calls : Request(c) \/ Kafka(c) \/ ProcessEvent(c)
        \/ \E p \in Pods : PodDies(p)

DetectionSpec == DetectionInit /\ [][DetectionNext]_detectionVars

-----------------------------------------------------------------------------
(* Properties *)

DetectionTypeOK ==
  /\ auto \in BOOLEAN /\ call \in [Calls -> Call]
  /\ pc \in [Calls -> Steps] /\ at \in [Calls -> Pods] /\ vpn \in [Calls -> BOOLEAN]
  /\ \A c \in Calls :
       /\ \A service \in line[c] : service = Service(call[c].name, call[c].ok, vpn[c])
       /\ pc[c] = "line" <=> line[c] # {}
       /\ event[c].source = "threat_simulation_portal" => call[c].kind = "simulate"
       /\ score[c] \in Predictions
  /\ alerts \in [Calls -> Nat] /\ DOMAIN rotated = Calls

\* What an event causes follows the policy stated by outcome: credentials are
\* rotated and administrators alerted exactly for a hijacked or displaced VPN
\* session, or for a score in the two upper levels that some evidence backs.
EffectsFollowPolicy ==
  [][\A c \in Calls :
       LET e == event[c]
           grave == /\ PolicyThreat(e, score[c])
                    /\ PolicyAction(e, score[c]) \in {"BLOCK", "CRITICAL_ALERT"}
       IN /\ rotated'[c] # rotated[c] => grave /\ (auto \/ Forced(c))
          /\ alerts'[c] # alerts[c] => grave /\ e.source # "live_portal"
          /\ pc[c] = "decide" /\ pc'[c] # "decide" /\ grave =>
               \/ PodDies(at[c])
               \/ /\ auto \/ Forced(c) => e.user \in rotated'[c]
                  /\ e.source # "live_portal" => alerts'[c] = alerts[c] + 1]_detectionVars

\* A login by VPN alerts the administrators once, although it is scored in the
\* request and again from its line, and whatever the models say.
VpnLoginAlertsOnce ==
  \A c \in Calls : call[c].kind = "login" =>
    /\ alerts[c] <= IF vpn[c] /\ call[c].ok THEN 1 ELSE 0
    /\ pc[c] \in {"log", "line"} /\ vpn[c] /\ call[c].ok => alerts[c] = 1

\* A login with the right password, from an address that nobody takes for a
\* VPN, costs a user nothing, whatever the models say.  (At a threshold of 600
\* or more a score equal to it would: the override asks for a higher one.)
CleanLoginIsAllowed ==
  \A c \in Calls :
    /\ call[c].kind = "login" /\ call[c].ok /\ Len(call[c].name) = 1
    /\ call[c].addr \notin {"vpnAway", "vpnHome"} /\ ~ vpn[c] /\ Threshold < 600
    => rotated[c] = {} /\ alerts[c] = 0
=============================================================================
