---------------------------- MODULE VaultSession ----------------------------
(***************************************************************************)
(* The Vault session of a pod: the client of vault_client.py, which        *)
(* whatever thread needs it first replaces when it no longer works, the    *)
(* renewal of its token, and vault_infra_client.py, which is given the     *)
(* client once the pod has started.  Clients are numbered in the order     *)
(* they are made.  The operations that use the session are in InfraLeases. *)
(***************************************************************************)
EXTENDS Integers, FiniteSets

CONSTANTS Lanes,       \* threads; "main" starts the pod and serves approvals
          StaticToken, \* VAULT_TOKEN is set
          MaxClients,  \* bound: clients made
          MaxOutages,  \* bound: changes between Vault up and down
          MaxExpiries, \* bound: tokens that expire or are revoked
          MaxRestarts  \* bound: restarts of the pod

ASSUME SessionConstantsOK ==
  /\ "main" \in Lanes /\ StaticToken \in BOOLEAN
  /\ {MaxClients, MaxOutages, MaxExpiries, MaxRestarts} \subseteq Nat

VARIABLES
  server,    \* Vault is up
  client,    \* _client: 0 is None
  made,      \* clients made so far
  authentic, \* clients whose token Vault accepts
  connected, \* _connected
  infra,     \* _client of vault_infra_client
  infraUp,   \* its _connected
  renewers,  \* renewal threads
  stage,     \* per thread: where it stands in connect_vault
  answer,    \* what ensure_connected answered to the startup
  boot,      \* how far the startup of the pod is
  outages, expiries, restarts \* counts of the environment's actions

sessionVars == <<client, made, authentic, connected>>
infraVars   == <<infra, infraUp>>
threadVars  == <<stage, answer>>
envVars     == <<server, outages, expiries, restarts>>
vaultVars   == <<sessionVars, infraVars, renewers, threadVars, boot, envVars>>

SessionTypeOK ==
  /\ server \in BOOLEAN /\ connected \in BOOLEAN /\ infraUp \in BOOLEAN
  /\ made \in Nat /\ client \in 0 .. made /\ infra \in 0 .. made
  /\ authentic \subseteq 1 .. made /\ renewers \in Nat
  /\ stage \in [Lanes -> {"idle", "approle", "static", "sync", "infra"}]
  /\ answer \in {"none", "yes", "no"}
  /\ boot \in {"vault", "infra", "up"} /\ {outages, expiries, restarts} \subseteq Nat

SessionInit ==
  /\ server = TRUE /\ client = 0 /\ made = 0 /\ authentic = {} /\ connected = FALSE
  /\ infra = 0 /\ infraUp = FALSE /\ renewers = 0
  /\ stage = [t \in Lanes |-> "idle"] /\ answer = "none"
  /\ boot = "vault" /\ outages = 0 /\ expiries = 0 /\ restarts = 0

Goto(t, from, to) == stage[t] = from /\ stage' = [stage EXCEPT ![t] = to]
Answer(is) == answer' = IF boot = "up" THEN "none" ELSE is
MayCall(t) == IF boot = "up" THEN TRUE ELSE t = "main" /\ answer = "none"
Works(c) == server /\ c \in authentic

-----------------------------------------------------------------------------
(* ensure_connected and connect_vault *)

\* A client is global as soon as it is made.  A new AppRole token is good; a
\* client made of the static token is as good as that.
NewClient ==
  /\ made < MaxClients /\ made' = made + 1 /\ client' = made + 1
  /\ authentic' = authentic \union {made + 1}

\* A call finds a client that works.
AlreadyConnected(t) ==
  /\ MayCall(t) /\ stage[t] = "idle" /\ connected /\ Works(client) /\ Answer("yes")
  /\ UNCHANGED <<sessionVars, infraVars, renewers, stage, boot, envVars>>

\* Otherwise it connects, with the AppRole or else with the static token.
Authenticate(t) ==
  /\ MayCall(t) /\ ~ (connected /\ Works(client))
  /\ \/ server /\ NewClient /\ Goto(t, "idle", "approle") /\ UNCHANGED <<connected, answer>>
     \/ ~ server /\ StaticToken /\ NewClient /\ Goto(t, "idle", "static")
        /\ UNCHANGED <<connected, answer>>
     \/ ~ server /\ ~ StaticToken /\ Goto(t, "idle", "idle")
        /\ connected' = FALSE /\ Answer("no") /\ UNCHANGED <<client, made, authentic>>
  /\ UNCHANGED <<infraVars, renewers, boot, envVars>>

\* _client.is_authenticated(): of the client that is global by now.  With an
\* AppRole a renewal thread starts, whether or not there is one already.
Authenticated(t) ==
  /\ Works(client) /\ stage[t] \in {"approle", "static"} /\ Goto(t, stage[t], "sync")
  /\ renewers' = IF stage[t] = "approle" THEN renewers + 1 ELSE renewers
  /\ UNCHANGED <<sessionVars, infraVars, answer, boot, envVars>>

\* It raises, or the token is no longer accepted: that of the AppRole leaves the
\* static token to be tried, unless Vault does not answer.
NotAuthenticated(t) ==
  /\ ~ Works(client) /\ stage[t] \in {"approle", "static"}
  /\ IF server /\ StaticToken /\ stage[t] = "approle"
     THEN NewClient /\ Goto(t, "approle", "static") /\ UNCHANGED <<connected, answer>>
     ELSE /\ Goto(t, stage[t], "idle") /\ connected' = FALSE /\ Answer("no")
          /\ UNCHANGED <<client, made, authentic>>
  /\ UNCHANGED <<infraVars, renewers, boot, envVars>>

\* The profiles are loaded and the accounts synced (errors are only logged).
Synced(t) ==
  /\ Goto(t, "sync", "infra") /\ connected' = TRUE
  /\ UNCHANGED <<client, made, authentic, infraVars, renewers, answer, boot, envVars>>

\* connect of vault_infra_client
GivenToInfra_Never == infra
GivenToInfra == client

GiveToInfra == infra' = GivenToInfra /\ infraUp' = Works(client)

\* A session made anew is passed on, if the infra client had one.
PassOn(t) ==
  /\ Goto(t, "infra", "idle") /\ Answer("yes")
  /\ IF infraUp THEN GiveToInfra ELSE UNCHANGED infraVars
  /\ UNCHANGED <<sessionVars, renewers, boot, envVars>>

-----------------------------------------------------------------------------
(* Startup, renewal, and the environment *)

\* connect_vault, and later the infra client if the session still works.
Booting ==
  /\ answer # "none" /\ answer' = "none"
  /\ \/ boot = "vault" /\ boot' = "infra" /\ UNCHANGED infraVars
     \/ /\ boot = "infra" /\ boot' = "up"
        /\ IF answer = "yes" THEN GiveToInfra ELSE UNCHANGED infraVars
  /\ UNCHANGED <<sessionVars, renewers, stage, envVars>>

\* A renewal thread wakes: it renews the token of the client, or sets a new one.
Renew ==
  /\ renewers > 0 /\ client # 0 /\ server /\ client \notin authentic
  /\ authentic' = authentic \union {client}
  /\ UNCHANGED <<client, made, connected, infraVars, renewers, threadVars, boot, envVars>>

TokenExpires ==
  /\ expiries < MaxExpiries /\ expiries' = expiries + 1
  /\ \E c \in authentic : authentic' = authentic \ {c}
  /\ UNCHANGED <<client, made, connected, infraVars, renewers, threadVars, boot,
                 server, outages, restarts>>

Outage ==
  /\ outages < MaxOutages /\ outages' = outages + 1 /\ server' = ~ server
  /\ UNCHANGED <<sessionVars, infraVars, renewers, threadVars, boot, expiries, restarts>>

\* disconnect_vault and a new process; clients go on being numbered.
PodRestarts ==
  /\ restarts < MaxRestarts /\ restarts' = restarts + 1
  /\ client' = 0 /\ connected' = FALSE /\ infra' = 0 /\ infraUp' = FALSE /\ renewers' = 0
  /\ stage' = [t \in Lanes |-> "idle"] /\ answer' = "none"
  /\ boot' = "vault" /\ UNCHANGED <<made, authentic, server, outages, expiries>>

Connect(t) ==
  \/ AlreadyConnected(t) \/ Authenticate(t) \/ Authenticated(t) \/ NotAuthenticated(t)
  \/ Synced(t) \/ PassOn(t)

-----------------------------------------------------------------------------
(* Properties *)

\* Once no thread is connecting, the infra client has the client that
\* vault_client uses, whoever replaced it, or has given up: a rotation of the
\* infrastructure never runs on a session that was replaced.
InfraFollowsSession ==
  connected /\ infraUp /\ (\A t \in Lanes : stage[t] = "idle") => infra = client
=============================================================================
