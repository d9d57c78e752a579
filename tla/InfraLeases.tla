----------------------------- MODULE InfraLeases -----------------------------
(***************************************************************************)
(* rotate_infrastructure_credentials of backend/app/vault_infra_client.py, *)
(* on the session of VaultSession.  A rotation revokes the lease that the  *)
(* pod tracks for a service and obtains a new one; that of Kafka replaces  *)
(* a secret.  The main thread runs rotations one at a time, between them   *)
(* and inside them the other threads replace the session.                  *)
(***************************************************************************)
EXTENDS VaultSession

CONSTANTS Services,   \* those with a lease: elasticsearch, database, readonly
          MaxLeases,  \* bound: leases issued
          MaxRotations, \* bound: rotations
          MaxFailures \* bound: failures of Vault other than an outage

ASSUME LeaseConstantsOK == {MaxLeases, MaxRotations, MaxFailures} \subseteq Nat

VARIABLES
  job,       \* the rotation that runs: what it does next, and for which service
  lease,     \* per service: the lease in _active_leases, 0 if there is none
  issued,    \* leases issued so far, by number
  live,      \* leases that Vault has not revoked; their TTL ends later than a behaviour
  rotations, \* _infra_rotation_count
  stray,     \* leases that no rotation can revoke any more, by a failure
  failures   \* failures so far

ownVars == <<job, lease, issued, live, rotations, stray, failures>>
leasesVars      == <<vaultVars, ownVars>>

NoJob   == [at |-> "idle"]
Doing(step, s) == [at |-> step, service |-> s]
Tracked == {lease[s] : s \in Services} \ {0}

LeasesTypeOK ==
  /\ SessionTypeOK
  /\ job \in {NoJob, Doing("kafka", "kafka")} \union
            [at : {"revoke", "obtain"}, service : Services]
  /\ issued \in Nat /\ lease \in [Services -> 0 .. issued] /\ live \subseteq 1 .. issued
  /\ stray \subseteq 1 .. issued /\ {rotations, failures} \subseteq Nat

LeasesInit ==
  /\ SessionInit /\ job = NoJob /\ lease = [s \in Services |-> 0] /\ issued = 0 /\ live = {}
  /\ rotations = 0 /\ stray = {} /\ failures = 0

Reachable == Works(infra)
Fails == \/ ~ Reachable /\ UNCHANGED failures
         \/ Reachable /\ failures < MaxFailures /\ failures' = failures + 1

-----------------------------------------------------------------------------
(* A rotation *)

\* A tracked lease is revoked first.
FirstStep_Obtain(s) == "obtain"
FirstStep(s) == IF lease[s] # 0 THEN "revoke" ELSE "obtain"

\* Without an infra session nothing is rotated.
BeginRotation ==
  /\ boot = "up" /\ stage["main"] = "idle" /\ job = NoJob /\ infraUp /\ rotations < MaxRotations
  /\ job' \in {Doing(FirstStep(s), s) : s \in Services}
       \union {Doing("kafka", "kafka")}
  /\ UNCHANGED <<vaultVars, lease, issued, live, rotations, stray, failures>>

\* A revocation that fails is only logged.
Revoke ==
  /\ job.at = "revoke"
  /\ \/ /\ Reachable /\ live' = live \ {lease[job.service]}
        /\ job' = Doing("obtain", job.service) /\ UNCHANGED <<stray, failures>>
     \/ /\ Fails /\ stray' = stray \union {lease[job.service]}
        /\ job' = Doing("obtain", job.service) /\ UNCHANGED live
  /\ UNCHANGED <<vaultVars, lease, issued, rotations>>

\* get_dynamic_credential, whose answer is tracked at once in the place of the
\* lease of before.
Obtain ==
  /\ job.at = "obtain" /\ job' = NoJob /\ issued < MaxLeases /\ Reachable
  /\ issued' = issued + 1 /\ live' = live \union {issued + 1}
  /\ lease' = [lease EXCEPT ![job.service] = issued + 1]
  /\ rotations' = rotations + 1
  /\ UNCHANGED <<vaultVars, stray, failures>>

\* No credential: the lease that was revoked goes on being tracked.  Vault may
\* have issued one whose answer is lost.
ObtainFails ==
  /\ job.at = "obtain" /\ job' = NoJob /\ Fails
  /\ \/ UNCHANGED <<issued, live, stray>>
     \/ /\ Reachable /\ issued < MaxLeases /\ issued' = issued + 1
        /\ live' = live \union {issued + 1} /\ stray' = stray \union {issued + 1}
  /\ UNCHANGED <<vaultVars, lease, rotations>>

\* _rotate_kafka_credential writes a new secret and reconnects (KafkaIngest); it
\* counts whether or not that succeeds.
RotateKafka ==
  /\ job.at = "kafka" /\ job' = NoJob /\ rotations' = rotations + 1
  /\ (Reachable /\ UNCHANGED failures) \/ Fails
  /\ UNCHANGED <<vaultVars, lease, issued, live, stray>>

\* _active_leases is in memory only.
Restart ==
  /\ PodRestarts /\ job' = NoJob /\ lease' = [s \in Services |-> 0] /\ rotations' = 0
  /\ stray' = stray \union Tracked
  /\ UNCHANGED <<issued, live, failures>>

\* The main thread serves one handler at a time.
SessionMoves ==
  /\ UNCHANGED ownVars
  /\ \/ \E t \in Lanes : (t = "main" => job = NoJob) /\ Connect(t)
     \/ Booting \/ Renew \/ TokenExpires \/ Outage

LeasesNext ==
  \/ SessionMoves \/ Restart
  \/ BeginRotation \/ Revoke \/ Obtain \/ ObtainFails \/ RotateKafka

LeasesSpec == LeasesInit /\ [][LeasesNext]_leasesVars

-----------------------------------------------------------------------------
(* Properties *)

\* A credential that works is one the pod can still revoke, unless a failure or
\* a restart took it out of its reach: rotations do not pile up credentials.
NoStrayCredential == live \subseteq Tracked \union stray
=============================================================================
