---------------------------- MODULE AccountsProofs ----------------------------
(***************************************************************************)
(* How accounts come into being and keep the same password in both stores, *)
(* how the infrastructure client follows the session of its pod, and that  *)
(* its leases stay revocable: for any pods, users, threads, services and   *)
(* bounds.                                                                 *)
(***************************************************************************)
EXTENDS MCAccounts, TLAPS

-----------------------------------------------------------------------------
(* Accounts *)


\* An approval that runs was made by an administrator.
RunningAreApproved == \A p \in Replicas : approval[p] # Rest => approval[p].user \in approved

Approving(p, u) == approval[p] # Rest /\ approval[p].user = u
Syncing(p, u) == sync[p] # Rest /\ sync[p].user = u

\* A user who was never contended is worked on by one approval or sync at most.
OneWorker ==
  \A u \in Users \ contended : \A p, q \in Replicas :
    /\ Approving(p, u) /\ Approving(q, u) => p = q
    /\ Syncing(p, u) /\ Syncing(q, u) => p = q
    /\ ~ (Approving(p, u) /\ Syncing(q, u))

\* What is about to be stored in the database is in Vault already.
SecretFirst ==
  \A u \in Users \ (contended \union failed) : \A p \in Replicas :
    /\ approval[p] = Job("activate", u) => secret[u] = p
    /\ Syncing(p, u) /\ sync[p].at = "store" => secret[u] = sync[p].password

\* A password that is yet to be written is a new one.
WritesGenerated ==
  \A p \in Replicas : sync[p] # Rest /\ sync[p].at = "write" => sync[p].password = "generated"

AccountsInv ==
  /\ AccountsTypeOK /\ NewcomersAreApproved /\ RunningAreApproved
  /\ OneWorker /\ SecretFirst /\ WritesGenerated /\ StoresAgreeWithoutContention

\* A running approval or sync is not at rest, and says whom it works on.
LEMMA JobsAreNoRest ==
  ASSUME NEW step \in {"provision", "activate", "write", "store"}, NEW u, NEW w
  PROVE  /\ Job(step, u) # Rest /\ Job(step, u).at = step /\ Job(step, u).user = u
         /\ Sync(step, u, w) # Rest /\ Sync(step, u, w).at = step
         /\ Sync(step, u, w).user = u /\ Sync(step, u, w).password = w
<1>1. Rest.at = "idle" /\ Job(step, u).at = step /\ Sync(step, u, w).at = step
  BY DEF Rest, Job, Sync
<1>2. QED
  BY <1>1 DEF Job, Sync

\* The two steps of an approval are told apart.
LEMMA JobsDiffer == \A u, v : Job("provision", u) # Job("activate", v)
<1>1. \A u, v : Job("provision", u).at = "provision" /\ Job("activate", v).at = "activate"
  BY DEF Job
<1>2. QED
  BY <1>1

\* Being busy, in terms of those who work.
LEMMA BusyMeans ==
  ASSUME NEW u
  PROVE  Busy(u) <=> \E p \in Replicas : Approving(p, u) \/ Syncing(p, u)
BY DEF Busy, Works_on, Approving, Syncing

\* At the start there are no accounts and nothing runs.
LEMMA AccountsStart == AccountsInit => AccountsInv
<1> SUFFICES ASSUME AccountsInit PROVE AccountsInv
  OBVIOUS
<1>1. AccountsTypeOK
  BY DEF AccountsInit, AccountsTypeOK
<1>2. \A u \in Users : row[u].status # "active"
  BY DEF AccountsInit, NoRow
<1>3. \A p \in Replicas : approval[p] = Rest /\ sync[p] = Rest
  BY DEF AccountsInit
<1>4. NewcomersAreApproved /\ StoresAgreeWithoutContention
  BY <1>2 DEF NewcomersAreApproved, StoresAgreeWithoutContention, Users
<1>5. RunningAreApproved /\ OneWorker
  BY <1>3 DEF RunningAreApproved, OneWorker, Approving, Syncing
<1>6. SecretFirst
  <2>1. \A p \in Replicas, u \in Users : ~ Syncing(p, u)
    BY <1>3 DEF Syncing
  <2>2. ASSUME NEW p \in Replicas, NEW u \in Users PROVE approval[p] # Job("activate", u)
    BY <1>3, JobsAreNoRest
  <2>3. QED
    BY <2>1, <2>2 DEF SecretFirst
<1>7. QED
  BY <1>1, <1>3, <1>4, <1>5, <1>6 DEF AccountsInv, WritesGenerated

\* The statuses of the rows tell them apart.
LEMMA Statuses ==
  /\ NoRow.status = "none" /\ Pending.status = "pending"
  /\ \A w : Active(w).status = "active" /\ Active(w).password = w
BY DEF NoRow, Pending, Active

\* A registration, at most a pending row, and a rejection.
LEMMA RegistrationKeeps ==
  ASSUME AccountsInv, NEW u \in Users, Ask(u) \/ Insert(u) \/ Reject(u)
  PROVE  AccountsInv'
<1>1. /\ UNCHANGED <<secret, known, approval, sync, noteVars, syncs, faults>>
      /\ asking' \in [Users -> Nat] /\ registered' \in Nat
  <2>1. CASE Ask(u)
    BY <2>1 DEF Ask, accountVars, noteVars, AccountsInv, AccountsTypeOK
  <2>2. CASE Insert(u)
    BY <2>2 DEF Insert, noteVars, countVars, AccountsInv, AccountsTypeOK
  <2>3. CASE Reject(u)
    BY <2>3 DEF Reject, actorVars, noteVars, countVars, AccountsInv, AccountsTypeOK
  <2>4. QED
    BY <2>1, <2>2, <2>3
<1>2. \E r \in {row[u], NoRow, Pending} : row' = [row EXCEPT ![u] = r]
  <2>1. CASE Ask(u)
    BY <2>1 DEF Ask, accountVars, AccountsInv, AccountsTypeOK
  <2>2. CASE Insert(u)
    BY <2>2 DEF Insert, Inserted
  <2>3. CASE Reject(u)
    BY <2>3 DEF Reject
  <2>4. QED
    BY <2>1, <2>2, <2>3
<1>3. AccountsTypeOK'
  BY <1>1, <1>2 DEF AccountsInv, AccountsTypeOK, noteVars
<1>4. \A w \in Users : row'[w].status = "active" => row'[w] = row[w]
  BY <1>2, Statuses DEF AccountsInv, AccountsTypeOK
<1>5. NewcomersAreApproved' /\ StoresAgreeWithoutContention'
  BY <1>1, <1>4 DEF AccountsInv, NewcomersAreApproved, StoresAgreeWithoutContention, Users,
                    noteVars, Busy, Works_on
<1>6. RunningAreApproved' /\ OneWorker' /\ SecretFirst'
  BY <1>1 DEF AccountsInv, RunningAreApproved, OneWorker, SecretFirst, Approving, Syncing, noteVars
<1>7. QED
  BY <1>1, <1>3, <1>5, <1>6 DEF AccountsInv, WritesGenerated

\* An approval begins: of a user whom nobody works on, or who is contended.
LEMMA ApproveKeeps ==
  ASSUME AccountsInv, NEW p \in Replicas, NEW u \in Users, Approve(p, u)
  PROVE  AccountsInv'
<1> USE DEF AccountsInv, AccountsTypeOK
<1>1. /\ approval[p] = Rest /\ approval' = [approval EXCEPT ![p] = Job("provision", u)]
      /\ approved' = approved \union {u}
      /\ contended' = IF Busy(u) THEN contended \union {u} ELSE contended
      /\ UNCHANGED <<row, secret, known, asking, sync, failed, registered, syncs, faults>>
  BY DEF Approve, Note, accountVars, countVars
<1>2. /\ Job("provision", u) # Rest /\ Job("provision", u).user = u
      /\ \A v : Job("provision", u) # Job("activate", v)
  BY JobsAreNoRest, JobsDiffer
<1>3. Job("provision", u) \in [at : {"provision", "activate"}, user : Users]
  BY DEF Job
<1>4. AccountsTypeOK'
  BY <1>1, <1>3
<1>5. /\ \A q \in Replicas, v \in Users : Approving(q, v)' <=> Approving(q, v) \/ (q = p /\ v = u)
      /\ \A q \in Replicas, v \in Users : Syncing(q, v)' <=> Syncing(q, v)
      /\ \A v \in Users : ~ Approving(p, v)
  BY <1>1, <1>2 DEF Approving, Syncing
<1>6. \A v \in Users : ~ Busy(v)' => ~ Busy(v) /\ v # u
  BY <1>5, BusyMeans DEF Busy, Works_on, Approving, Syncing
<1>7. (NewcomersAreApproved /\ RunningAreApproved /\ WritesGenerated)'
  BY <1>1, <1>2 DEF NewcomersAreApproved, RunningAreApproved, WritesGenerated
<1>8. OneWorker'
  <2>1. u \notin contended' => \A q \in Replicas : ~ Approving(q, u) /\ ~ Syncing(q, u)
    BY <1>1, BusyMeans
  <2>2. QED
    BY <1>1, <1>5, <2>1 DEF OneWorker
<1>9. SecretFirst'
  BY <1>1, <1>2, <1>5 DEF SecretFirst
<1>10. StoresAgreeWithoutContention'
  BY <1>1, <1>6 DEF StoresAgreeWithoutContention
<1>11. QED
  BY <1>4, <1>7, <1>8, <1>9, <1>10

\* The secret of the user is set before its row, unless Vault fails.
LEMMA ProvisionKeeps ==
  ASSUME AccountsInv, NEW p \in Replicas, NEW u \in Users, Provision(p, u)
  PROVE  AccountsInv'
<1> USE DEF AccountsInv, AccountsTypeOK
<1>1. /\ approval[p] = Job("provision", u)
      /\ approval' = [approval EXCEPT ![p] = Job("activate", u)]
      /\ known' = known \union {<<p, u>>}
      /\ UNCHANGED <<row, asking, sync, contended, approved, registered, syncs>>
  BY DEF Provision
<1>2. \/ secret' = [secret EXCEPT ![u] = p] /\ UNCHANGED <<failed, faults>>
      \/ failed' = failed \union {u} /\ faults' \in Nat /\ UNCHANGED secret
  BY DEF Provision, Provisioned, VaultFault
<1>3. /\ Job("activate", u) # Rest /\ Job("activate", u).user = u
      /\ Job("provision", u) # Rest /\ Job("provision", u).user = u
  BY JobsAreNoRest
<1>4. Job("activate", u) \in [at : {"provision", "activate"}, user : Users]
  BY DEF Job
<1>5. AccountsTypeOK'
  BY <1>1, <1>2, <1>4 DEF Passwords
<1>6. /\ \A q \in Replicas, v \in Users : Approving(q, v)' <=> Approving(q, v)
      /\ \A q \in Replicas, v \in Users : Syncing(q, v)' <=> Syncing(q, v)
      /\ Approving(p, u)
  BY <1>1, <1>3 DEF Approving, Syncing
<1>7. \A v \in Users : ~ Busy(v)' => ~ Busy(v) /\ v # u
  BY <1>1, <1>3 DEF Busy, Works_on
<1>8. (NewcomersAreApproved /\ RunningAreApproved /\ WritesGenerated /\ OneWorker)'
  BY <1>1, <1>3, <1>6 DEF NewcomersAreApproved, RunningAreApproved, WritesGenerated, OneWorker
<1>9. SecretFirst'
  <2>1. ASSUME NEW v \in Users \ (contended' \union failed'), NEW q \in Replicas,
               approval'[q] = Job("activate", v)
        PROVE  secret'[v] = q
    <3>1. Job("activate", v) # Rest /\ Job("activate", v).user = v
      BY JobsAreNoRest
    <3>2. v = u => q = p
      BY <1>1, <1>6, <2>1, <3>1 DEF OneWorker, Approving
    <3>3. q = p => v = u
      BY <1>1, <1>3, <2>1, <3>1
    <3>4. q # p => approval[q] = Job("activate", v)
      BY <1>1, <2>1
    <3>5. v \in Users \ (contended \union failed)
      BY <1>1, <1>2, <2>1
    <3>6. QED
      BY <1>2, <2>1, <3>2, <3>3, <3>4, <3>5 DEF SecretFirst
  <2>2. ASSUME NEW v \in Users \ (contended' \union failed'), NEW q \in Replicas,
               Syncing(q, v)', sync'[q].at = "store"
        PROVE  secret'[v] = sync'[q].password
    <3>1. v # u /\ Syncing(q, v) /\ v \in Users \ (contended \union failed)
      BY <1>1, <1>2, <1>6, <2>2 DEF OneWorker
    <3>2. QED
      BY <1>1, <1>2, <2>2, <3>1 DEF SecretFirst
  <2>3. QED
    BY <2>1, <2>2 DEF SecretFirst
<1>10. StoresAgreeWithoutContention'
  BY <1>1, <1>2, <1>7 DEF StoresAgreeWithoutContention
<1>11. QED
  BY <1>5, <1>8, <1>9, <1>10
\* The row gets the password that Vault has got.
LEMMA ActivateKeeps ==
  ASSUME AccountsInv, NEW p \in Replicas, NEW u \in Users, Activate(p, u)
  PROVE  AccountsInv'
<1> USE DEF AccountsInv, AccountsTypeOK
<1>1. /\ approval[p] = Job("activate", u) /\ approval' = [approval EXCEPT ![p] = Rest]
      /\ row' = [row EXCEPT ![u] = Activated(p, u)]
      /\ UNCHANGED <<secret, known, asking, sync, contended, failed, approved, registered, syncs, faults>>
  BY DEF Activate, noteVars, countVars
<1>2. Job("activate", u) # Rest /\ Job("activate", u).user = u
  BY JobsAreNoRest
<1>3. Activated(p, u) \in {NoRow, Active(p)} /\ p \in Passwords
  BY DEF Activated, Passwords
<1>4. AccountsTypeOK'
  BY <1>1, <1>3
<1>5. /\ \A q \in Replicas, v \in Users : Approving(q, v)' => Approving(q, v)
      /\ \A q \in Replicas, v \in Users : Syncing(q, v)' <=> Syncing(q, v)
      /\ \A v \in Users \ {u} : Busy(v)' <=> Busy(v)
  BY <1>1, <1>2 DEF Approving, Syncing, Busy, Works_on
<1>6. NewcomersAreApproved'
  <2>1. u \in approved
    BY <1>1, <1>2 DEF RunningAreApproved
  <2>2. \A v \in Newcomers : v # u => row'[v] = row[v]
    BY <1>1 DEF Users
  <2>3. row'[u] \in {NoRow, Active(p)}
    BY <1>1, <1>3
  <2>4. QED
    BY <1>1, <2>1, <2>2, <2>3, Statuses DEF NewcomersAreApproved
<1>7. (RunningAreApproved /\ WritesGenerated /\ OneWorker)'
  BY <1>1, <1>5 DEF RunningAreApproved, WritesGenerated, OneWorker
<1>8. SecretFirst'
  <2>1. ASSUME NEW v \in Users, NEW q \in Replicas, approval'[q] = Job("activate", v)
        PROVE  approval[q] = Job("activate", v)
    <3>1. Job("activate", v) # Rest
      BY JobsAreNoRest
    <3>2. QED
      BY <1>1, <2>1, <3>1
  <2>2. QED
    BY <1>1, <1>5, <2>1 DEF SecretFirst
<1>9. StoresAgreeWithoutContention'
  <2>1. u \notin contended \union failed => secret[u] = p
    BY <1>1 DEF SecretFirst
  <2>2. row'[u].status = "active" => row'[u].password = p
    BY <1>1, <1>3, Statuses
  <2>3. \A v \in Users \ {u} : row'[v] = row[v]
    BY <1>1
  <2>4. QED
    BY <1>1, <1>5, <2>1, <2>2, <2>3 DEF StoresAgreeWithoutContention
<1>10. QED
  BY <1>4, <1>6, <1>7, <1>8, <1>9

\* A sync of a user begins with the password that Vault shows, if any.
LEMMA LoadKeeps ==
  ASSUME AccountsInv, NEW p \in Replicas, NEW u \in Users, Load(p, u)
  PROVE  AccountsInv'
<1> USE DEF AccountsInv, AccountsTypeOK
<1>1. /\ sync[p] = Rest /\ u \in Directory /\ syncs < MaxSyncs /\ syncs' = syncs + 1
      /\ known' = {k \in known : k[1] # p} \union ({p} \X Directory)
      /\ contended' = IF Busy(u) THEN contended \union {u} ELSE contended
      /\ UNCHANGED <<row, secret, asking, approval, approved, registered>>
  BY DEF Load, Note
<1>2. \/ UNCHANGED <<failed, faults>>
      \/ failed' = failed \union {u} /\ faults' = faults + 1
  BY DEF Load, VaultFault
<1>3. PICK task : /\ sync' = [sync EXCEPT ![p] = task]
                  /\ \/ task = Sync("store", u, secret[u]) /\ secret[u] # "none"
                     \/ task = Sync("write", u, "generated")
  BY DEF Load
<1>4. /\ task # Rest /\ task.user = u
      /\ task.at = "store" => task.password = secret[u]
      /\ task.at = "write" => task.password = "generated"
  BY <1>3, JobsAreNoRest
<1>5. AccountsTypeOK'
  <2>1. task \in [at : {"write", "store"}, user : Directory, password : Passwords]
    BY <1>1, <1>3 DEF Sync, Passwords
  <2>2. sync' \in [Replicas -> {Rest} \union
                    [at : {"write", "store"}, user : Directory, password : Passwords]]
    BY <1>3, <2>1
  <2>3. known' \subseteq Replicas \X Users
    BY <1>1 DEF Users
  <2>4. contended' \subseteq Users /\ failed' \subseteq Users /\ faults' \in Nat /\ syncs' \in Nat
    BY <1>1, <1>2
  <2>5. QED
    BY <1>1, <2>2, <2>3, <2>4
<1>6. /\ \A q \in Replicas, v \in Users : Approving(q, v)' <=> Approving(q, v)
      /\ \A q \in Replicas, v \in Users : Syncing(q, v)' <=> Syncing(q, v) \/ (q = p /\ v = u)
      /\ \A v \in Users : ~ Syncing(p, v)
  BY <1>1, <1>3, <1>4 DEF Approving, Syncing
<1>7. \A v \in Users : ~ Busy(v)' => ~ Busy(v) /\ v # u
  BY <1>6, BusyMeans DEF Busy, Works_on, Approving, Syncing
<1>8. (NewcomersAreApproved /\ RunningAreApproved)'
  BY <1>1 DEF NewcomersAreApproved, RunningAreApproved
<1>9. WritesGenerated'
  BY <1>3, <1>4 DEF WritesGenerated
<1>10. OneWorker'
  <2>1. u \notin contended' => \A q \in Replicas : ~ Approving(q, u) /\ ~ Syncing(q, u)
    BY <1>1, BusyMeans
  <2>2. QED
    BY <1>1, <1>6, <2>1 DEF OneWorker
<1>11. SecretFirst'
  <2>1. \A v \in Users \ (contended' \union failed') : v \in Users \ (contended \union failed)
    BY <1>1, <1>2
  <2>2. ASSUME NEW v \in Users \ (contended' \union failed'), NEW q \in Replicas,
               Syncing(q, v)', sync'[q].at = "store"
        PROVE  secret'[v] = sync'[q].password
    <3>1. CASE q = p
      BY <1>1, <1>3, <1>4, <1>6, <2>2, <3>1
    <3>2. CASE q # p
      BY <1>1, <1>3, <1>6, <2>1, <2>2, <3>2 DEF SecretFirst
    <3>3. QED
      BY <3>1, <3>2
  <2>3. QED
    BY <1>1, <2>1, <2>2 DEF SecretFirst
<1>12. StoresAgreeWithoutContention'
  BY <1>1, <1>2, <1>7 DEF StoresAgreeWithoutContention
<1>13. QED
  BY <1>5, <1>8, <1>9, <1>10, <1>11, <1>12

\* A sync writes the new secret, which it then stores, or gives up.
LEMMA WriteSecretKeeps ==
  ASSUME AccountsInv, NEW p \in Replicas, WriteSecret(p)
  PROVE  AccountsInv'
<1> USE DEF AccountsInv, AccountsTypeOK
<1> DEFINE u == sync[p].user
<1>1. /\ sync[p] # Rest /\ sync[p].at = "write" /\ u \in Directory /\ u \in Users
      /\ sync[p] \in [at : {"write", "store"}, user : Directory, password : Passwords]
      /\ UNCHANGED <<row, known, asking, approval, contended, approved, registered, syncs>>
  BY DEF WriteSecret, Users
<1>2. sync[p].password = "generated" /\ Syncing(p, u)
  BY <1>1 DEF WritesGenerated, Syncing
<1>3. CASE /\ secret' = [secret EXCEPT ![u] = "generated"]
           /\ sync' = [sync EXCEPT ![p].at = "store"] /\ UNCHANGED <<failed, faults>>
  <2>1. /\ sync'[p] \in [at : {"write", "store"}, user : Directory, password : Passwords]
        /\ sync'[p].at = "store" /\ sync'[p].user = u /\ sync'[p].password = "generated"
        /\ \A q \in Replicas \ {p} : sync'[q] = sync[q]
    BY <1>1, <1>2, <1>3
  <2>2. sync'[p] # Rest
    BY <2>1 DEF Rest
  <2>3. AccountsTypeOK'
    BY <1>1, <1>3, <2>1 DEF Passwords
  <2>4. /\ \A q \in Replicas, v \in Users : Approving(q, v)' <=> Approving(q, v)
        /\ \A q \in Replicas, v \in Users : Syncing(q, v)' <=> Syncing(q, v)
        /\ \A v \in Users : Busy(v)' <=> Busy(v)
        /\ Busy(u)
    BY <1>1, <1>2, <2>1, <2>2 DEF Approving, Syncing, Busy, Works_on
  <2>5. (NewcomersAreApproved /\ RunningAreApproved /\ WritesGenerated /\ OneWorker)'
    BY <1>1, <2>1, <2>4 DEF NewcomersAreApproved, RunningAreApproved, WritesGenerated, OneWorker
  <2>6. SecretFirst'
    <3>1. ASSUME NEW v \in Users \ (contended \union failed), NEW q \in Replicas,
                 approval[q] = Job("activate", v)
          PROVE  v # u /\ secret[v] = q
      <4>1. Job("activate", v) # Rest /\ Job("activate", v).user = v
        BY JobsAreNoRest
      <4>2. Approving(q, v)
        BY <3>1, <4>1 DEF Approving
      <4>3. QED
        BY <1>1, <1>2, <3>1, <4>2 DEF OneWorker, SecretFirst
    <3>2. ASSUME NEW v \in Users \ (contended \union failed), NEW q \in Replicas,
                 Syncing(q, v)', sync'[q].at = "store"
          PROVE  secret'[v] = sync'[q].password
      <4>1. CASE v = u
        BY <1>1, <1>2, <1>3, <2>1, <2>4, <3>2, <4>1 DEF OneWorker
      <4>2. CASE v # u
        <5>1. q # p
          BY <2>1, <3>2, <4>2 DEF Syncing
        <5>2. QED
          BY <1>3, <2>1, <2>4, <3>2, <4>2, <5>1 DEF SecretFirst
      <4>3. QED
        BY <4>1, <4>2
    <3>3. QED
      BY <1>1, <1>3, <3>1, <3>2 DEF SecretFirst
  <2>7. StoresAgreeWithoutContention'
    BY <1>1, <1>3, <2>4 DEF StoresAgreeWithoutContention
  <2>8. QED
    BY <2>3, <2>5, <2>6, <2>7
<1>4. CASE VaultFault(u) /\ sync' = [sync EXCEPT ![p] = Rest] /\ UNCHANGED secret
  <2>1. failed' = failed \union {u} /\ faults' = faults + 1
    BY <1>4 DEF VaultFault
  <2>2. AccountsTypeOK'
    BY <1>1, <1>4, <2>1
  <2>3. /\ \A q \in Replicas, v \in Users : Approving(q, v)' <=> Approving(q, v)
        /\ \A q \in Replicas, v \in Users : Syncing(q, v)' <=> Syncing(q, v) /\ q # p
        /\ \A v \in Users \ {u} : Busy(v)' <=> Busy(v)
    BY <1>1, <1>4 DEF Approving, Syncing, Busy, Works_on
  <2>4. (NewcomersAreApproved /\ RunningAreApproved /\ WritesGenerated /\ OneWorker)'
    BY <1>1, <1>4, <2>3 DEF NewcomersAreApproved, RunningAreApproved, WritesGenerated, OneWorker
  <2>5. SecretFirst'
    BY <1>1, <1>4, <2>1, <2>3 DEF SecretFirst
  <2>6. StoresAgreeWithoutContention'
    BY <1>1, <1>4, <2>1, <2>3 DEF StoresAgreeWithoutContention
  <2>7. QED
    BY <2>2, <2>4, <2>5, <2>6
<1>5. QED
  BY <1>3, <1>4 DEF WriteSecret

\* The row of a directory user gets the password that the sync has read or written.
LEMMA StoreRowKeeps ==
  ASSUME AccountsInv, NEW p \in Replicas, StoreRow(p)
  PROVE  AccountsInv'
<1> USE DEF AccountsInv, AccountsTypeOK
<1> DEFINE u == sync[p].user
           w == sync[p].password
<1>1. /\ sync[p] # Rest /\ sync[p].at = "store" /\ sync' = [sync EXCEPT ![p] = Rest]
      /\ row' = [row EXCEPT ![u] = Active(w)]
      /\ UNCHANGED <<secret, known, asking, approval, contended, failed, approved, registered, syncs, faults>>
  BY DEF StoreRow, noteVars, countVars
<1>2. u \in Directory /\ u \in Users /\ w \in Passwords /\ Syncing(p, u)
  BY <1>1 DEF Users, Syncing
<1>3. AccountsTypeOK'
  BY <1>1, <1>2
<1>4. /\ \A q \in Replicas, v \in Users : Approving(q, v)' <=> Approving(q, v)
      /\ \A q \in Replicas, v \in Users : Syncing(q, v)' <=> Syncing(q, v) /\ q # p
      /\ \A v \in Users \ {u} : Busy(v)' <=> Busy(v)
  BY <1>1 DEF Approving, Syncing, Busy, Works_on
<1>5. NewcomersAreApproved'
  <2>1. \A v \in Newcomers : row'[v] = row[v]
    BY <1>1, <1>2, AccountConstantsOK DEF Users
  <2>2. QED
    BY <1>1, <2>1 DEF NewcomersAreApproved
<1>6. (RunningAreApproved /\ WritesGenerated /\ OneWorker /\ SecretFirst)'
  BY <1>1, <1>4 DEF RunningAreApproved, WritesGenerated, OneWorker, SecretFirst
<1>7. StoresAgreeWithoutContention'
  <2>1. u \notin contended \union failed => secret[u] = w
    BY <1>1, <1>2 DEF SecretFirst
  <2>2. row'[u].password = w /\ \A v \in Users \ {u} : row'[v] = row[v]
    BY <1>1, <1>2, Statuses
  <2>3. QED
    BY <1>1, <1>4, <2>1, <2>2 DEF StoresAgreeWithoutContention
<1>8. QED
  BY <1>3, <1>5, <1>6, <1>7

\* Every step keeps the invariant.
LEMMA AccountsStep == AccountsInv /\ [AccountsNext]_registrationVars => AccountsInv'
<1> SUFFICES ASSUME AccountsInv, [AccountsNext]_registrationVars PROVE AccountsInv'
  OBVIOUS
<1>1. ASSUME NEW u \in Users, Ask(u) \/ Insert(u) \/ Reject(u) PROVE AccountsInv'
  BY <1>1, RegistrationKeeps
<1>2. ASSUME NEW p \in Replicas, NEW u \in Users,
             Approve(p, u) \/ Provision(p, u) \/ Activate(p, u) \/ Load(p, u)
      PROVE  AccountsInv'
  BY <1>2, ApproveKeeps, ProvisionKeeps, ActivateKeeps, LoadKeeps
<1>3. ASSUME NEW p \in Replicas, WriteSecret(p) \/ StoreRow(p) PROVE AccountsInv'
  BY <1>3, WriteSecretKeeps, StoreRowKeeps
<1>4. CASE UNCHANGED registrationVars
  BY <1>4 DEF registrationVars, accountVars, actorVars, noteVars, countVars, AccountsInv,
    AccountsTypeOK, NewcomersAreApproved, RunningAreApproved, OneWorker, SecretFirst,
    WritesGenerated, StoresAgreeWithoutContention, Approving, Syncing, Busy, Works_on
<1>5. QED
  BY <1>1, <1>2, <1>3, <1>4 DEF AccountsNext

\* It holds throughout.
LEMMA AccountsInvariant == AccountsSpec => []AccountsInv
BY AccountsStart, AccountsStep, PTL DEF AccountsSpec

\* A newcomer becomes active only by an administrator's approval, with the
\* password of that approval.
THEOREM NewcomersNeedApproval == AccountsSpec => []NewcomersAreApproved
<1>1. AccountsInv => NewcomersAreApproved
  BY DEF AccountsInv
<1>2. QED
  BY <1>1, AccountsInvariant, PTL

\* Vault shows the password that logs a user in, unless two workers overlapped
\* on the user or a call to Vault failed.
THEOREM StoresStayTogether == AccountsSpec => []StoresAgreeWithoutContention
<1>1. AccountsInv => StoresAgreeWithoutContention
  BY DEF AccountsInv
<1>2. QED
  BY <1>1, AccountsInvariant, PTL

\* No step of a registration, an approval, a rejection or a sync takes an
\* active account away or back to pending.
THEOREM ActiveAccountsStay == AccountsSpec => ActiveStaysActive
<1> DEFINE Stay == \A u \in Users : row[u].status = "active" => row'[u].status = "active"
<1>1. ASSUME AccountsInv, [AccountsNext]_registrationVars PROVE [Stay]_registrationVars
  <2>1. ASSUME NEW u \in Users, Ask(u) \/ Insert(u) \/ Reject(u) PROVE Stay
    BY <1>1, <2>1, Statuses DEF Ask, Insert, Inserted, Reject, MayDelete, accountVars,
                                AccountsInv, AccountsTypeOK
  <2>2. ASSUME NEW p \in Replicas, NEW u \in Users,
               Approve(p, u) \/ Provision(p, u) \/ Activate(p, u) \/ Load(p, u)
        PROVE  Stay
    BY <1>1, <2>2, Statuses DEF Approve, Provision, Activate, Activated, Load, accountVars,
                                AccountsInv, AccountsTypeOK
  <2>3. ASSUME NEW p \in Replicas, WriteSecret(p) \/ StoreRow(p) PROVE Stay
    BY <1>1, <2>3, Statuses DEF WriteSecret, StoreRow, AccountsInv, AccountsTypeOK
  <2>4. QED
    BY <1>1, <2>1, <2>2, <2>3 DEF AccountsNext
<1>2. QED
  BY <1>1, AccountsInvariant, PTL DEF AccountsSpec, ActiveStaysActive


-----------------------------------------------------------------------------
(* The session *)

\* The variables of a session that only some of its steps assign.
LEMMA SessionStart == SessionInit => SessionTypeOK
<1> SUFFICES ASSUME SessionInit PROVE SessionTypeOK
  OBVIOUS
<1>1. stage \in [Lanes -> {"idle", "approle", "static", "sync", "infra"}]
  BY DEF SessionInit
<1>2. server \in BOOLEAN /\ connected \in BOOLEAN /\ infraUp \in BOOLEAN
  BY DEF SessionInit
<1> QED
  BY <1>1, <1>2 DEF SessionInit, SessionTypeOK

\* A new client has the next number.
LEMMA NewClientType ==
  ASSUME SessionTypeOK, NewClient
  PROVE  /\ made' \in Nat /\ client' \in 0 .. made' /\ authentic' \subseteq 1 .. made'
         /\ 0 .. made \subseteq 0 .. made' /\ 1 .. made \subseteq 1 .. made'
BY DEF SessionTypeOK, NewClient

\* Whatever connects, renews, expires or restarts keeps the types.
LEMMA ConnectType ==
  ASSUME SessionTypeOK, NEW t \in Lanes, Connect(t)
  PROVE  SessionTypeOK'
<1> USE DEF SessionTypeOK, sessionVars, infraVars, threadVars, envVars
<1>1. CASE AlreadyConnected(t)
  BY <1>1 DEF AlreadyConnected, Answer
<1>2. CASE Authenticate(t)
  <2>1. CASE NewClient
    BY <1>2, <2>1, NewClientType DEF Authenticate, Goto, Answer
  <2>2. CASE ~ NewClient
    BY <1>2, <2>2 DEF Authenticate, Goto, Answer
  <2>3. QED
    BY <2>1, <2>2
<1>3. CASE Authenticated(t)
  BY <1>3 DEF Authenticated, Goto
<1>4. CASE NotAuthenticated(t)
  <2>1. CASE NewClient
    BY <1>4, <2>1, NewClientType DEF NotAuthenticated, Goto, Answer
  <2>2. CASE ~ NewClient
    BY <1>4, <2>2 DEF NotAuthenticated, Goto, Answer
  <2>3. QED
    BY <2>1, <2>2
<1>5. CASE Synced(t)
  BY <1>5 DEF Synced, Goto
<1>6. CASE PassOn(t)
  BY <1>6 DEF PassOn, Goto, Answer, GiveToInfra, GivenToInfra, Works
<1>7. QED
  BY <1>1, <1>2, <1>3, <1>4, <1>5, <1>6 DEF Connect

\* The boot, a renewal, an expiry, an outage and a restart keep the types.
LEMMA EnvironmentType ==
  ASSUME SessionTypeOK, Booting \/ Renew \/ TokenExpires \/ Outage \/ PodRestarts \/ UNCHANGED vaultVars
  PROVE  SessionTypeOK'
<1> USE DEF SessionTypeOK, sessionVars, infraVars, threadVars, envVars
<1>1. CASE Booting
  BY <1>1 DEF Booting, GiveToInfra, GivenToInfra, Works
<1>2. CASE Renew
  BY <1>2 DEF Renew
<1>3. CASE TokenExpires
  BY <1>3 DEF TokenExpires
<1>4. CASE Outage
  BY <1>4 DEF Outage
<1>5. CASE PodRestarts
  <2>1. stage' \in [Lanes -> {"idle", "approle", "static", "sync", "infra"}]
    BY <1>5 DEF PodRestarts
  <2>2. server' \in BOOLEAN /\ connected' \in BOOLEAN /\ infraUp' \in BOOLEAN
    BY <1>5 DEF PodRestarts
  <2>3. /\ client' = 0 /\ infra' = 0 /\ renewers' = 0 /\ answer' = "none" /\ boot' = "vault"
        /\ restarts' = restarts + 1 /\ UNCHANGED <<made, authentic, outages, expiries>>
    BY <1>5 DEF PodRestarts
  <2>4. QED
    BY <2>1, <2>2, <2>3
<1>6. CASE UNCHANGED vaultVars
  BY <1>6 DEF vaultVars
<1>7. QED
  BY <1>1, <1>2, <1>3, <1>4, <1>5, <1>6

\* Every way out of connect_vault leaves the infra client with the client that
\* is global then, or the session marked as disconnected.
LEMMA SessionStep ==
  ASSUME SessionTypeOK, InfraFollowsSession,
         \/ \E t \in Lanes : Connect(t)
         \/ Booting \/ Renew \/ TokenExpires \/ Outage \/ PodRestarts \/ UNCHANGED vaultVars
  PROVE  InfraFollowsSession'
<1> USE DEF SessionTypeOK, InfraFollowsSession, sessionVars, infraVars, threadVars, envVars
<1>1. ASSUME NEW t \in Lanes, AlreadyConnected(t) PROVE InfraFollowsSession'
  BY <1>1 DEF AlreadyConnected
<1>2. ASSUME NEW t \in Lanes, Authenticate(t) PROVE InfraFollowsSession'
  BY <1>2 DEF Authenticate, Goto
<1>3. ASSUME NEW t \in Lanes, Authenticated(t) \/ Synced(t) PROVE InfraFollowsSession'
  BY <1>3 DEF Authenticated, Synced, Goto
<1>4. ASSUME NEW t \in Lanes, NotAuthenticated(t) PROVE InfraFollowsSession'
  BY <1>4 DEF NotAuthenticated, Goto
<1>5. ASSUME NEW t \in Lanes, PassOn(t) PROVE InfraFollowsSession'
  BY <1>5 DEF PassOn, GiveToInfra, GivenToInfra
<1>6. CASE Booting
  BY <1>6 DEF Booting, GiveToInfra, GivenToInfra
<1>7. CASE Renew \/ TokenExpires \/ Outage \/ PodRestarts \/ UNCHANGED vaultVars
  BY <1>7 DEF Renew, TokenExpires, Outage, PodRestarts, vaultVars
<1>8. QED
  BY <1>1, <1>2, <1>3, <1>4, <1>5, <1>6, <1>7 DEF Connect

-----------------------------------------------------------------------------
(* The leases *)

\* A lease about to be replaced does not work any more, or was given up; one
\* that is about to be revoked exists.
ReplacedIsDead ==
  /\ job.at = "obtain" => lease[job.service] \notin live \ stray
  /\ job.at = "revoke" => lease[job.service] # 0

LeasesInv == LeasesTypeOK /\ InfraFollowsSession /\ ReplacedIsDead /\ NoStrayCredential

\* At the start nothing is leased and no job is running.
LEMMA LeasesStart == LeasesInit => LeasesInv
BY SessionStart DEF LeasesInit, LeasesInv, LeasesTypeOK, ReplacedIsDead, NoStrayCredential, NoJob,
   InfraFollowsSession, SessionInit

\* The steps of a rotation, which the session does not take part in.
RotationStep == BeginRotation \/ Revoke \/ Obtain \/ ObtainFails \/ RotateKafka

\* Which jobs there are.
LeaseJobs == {NoJob, Doing("kafka", "kafka")} \union [at : {"revoke", "obtain"}, service : Services]

\* The jobs are of that form, so the steps of a rotation can tell them apart.
LEMMA LeaseJobsMean ==
  /\ NoJob \in LeaseJobs /\ NoJob.at = "idle"
  /\ Doing("kafka", "kafka") \in LeaseJobs /\ Doing("kafka", "kafka").at = "kafka"
  /\ \A s \in Services, step \in {"revoke", "obtain"} :
       Doing(step, s) \in LeaseJobs /\ Doing(step, s).at = step /\ Doing(step, s).service = s
  /\ \A j \in LeaseJobs : j.at \in {"revoke", "obtain"} => j.service \in Services
BY DEF LeaseJobs, NoJob, Doing

\* A rotation keeps track of what it obtains: a credential is replaced after it
\* was revoked, or has been given up.
LEMMA RotationKeepsInv ==
  ASSUME LeasesInv, RotationStep
  PROVE  LeasesTypeOK' /\ ReplacedIsDead' /\ NoStrayCredential'
<1>0. /\ SessionTypeOK /\ job \in LeaseJobs /\ issued \in Nat /\ lease \in [Services -> 0 .. issued]
      /\ live \subseteq 1 .. issued /\ stray \subseteq 1 .. issued
      /\ rotations \in Nat /\ failures \in Nat
      /\ ReplacedIsDead /\ NoStrayCredential
  BY DEF LeasesInv, LeasesTypeOK, LeaseJobs
<1>a. SUFFICES /\ SessionTypeOK' /\ job' \in LeaseJobs /\ issued' \in Nat
             /\ lease' \in [Services -> 0 .. issued']
             /\ live' \subseteq 1 .. issued' /\ stray' \subseteq 1 .. issued'
             /\ rotations' \in Nat /\ failures' \in Nat
             /\ ReplacedIsDead' /\ NoStrayCredential'
  BY DEF LeasesTypeOK, LeaseJobs
<1> USE DEF ReplacedIsDead, NoStrayCredential, Tracked
<1>v. UNCHANGED vaultVars => SessionTypeOK'
  BY <1>0, EnvironmentType
<1>f. Fails => failures' \in Nat
  BY <1>0 DEF Fails
<1>1. CASE BeginRotation
  <2>1. /\ UNCHANGED <<vaultVars, lease, issued, live, rotations, stray, failures>>
        /\ \/ job' = Doing("kafka", "kafka")
           \/ \E s \in Services : lease[s] # 0 /\ job' = Doing("revoke", s)
           \/ \E s \in Services : lease[s] = 0 /\ job' = Doing("obtain", s)
    BY <1>1 DEF BeginRotation, FirstStep
  <2>2. job' \in LeaseJobs /\ ReplacedIsDead'
    BY <1>0, <2>1, LeaseJobsMean
  <2> QED
    BY <1>0, <1>v, <2>1, <2>2
<1>2. CASE Revoke
  <2>1. /\ job.service \in Services /\ job' = Doing("obtain", job.service)
        /\ UNCHANGED <<vaultVars, lease, issued, rotations>>
    BY <1>0, <1>2, LeaseJobsMean DEF Revoke
  <2>2. /\ job' \in LeaseJobs /\ job'.service = job.service /\ job'.at = "obtain"
    BY <2>1, LeaseJobsMean
  <2>3. lease[job.service] \in 1 .. issued
    <3>1. lease[job.service] \in 0 .. issued /\ lease[job.service] # 0
      BY <1>0, <1>2, <2>1 DEF Revoke
    <3>2. QED
      BY <1>0, <3>1
  <2>4. CASE live' = live \ {lease[job.service]} /\ UNCHANGED <<stray, failures>>
    BY <1>0, <1>v, <2>1, <2>2, <2>3, <2>4
  <2>5. CASE Fails /\ stray' = stray \union {lease[job.service]} /\ UNCHANGED live
    <3>1. stray' \subseteq 1 .. issued
      BY <1>0, <2>3, <2>5
    <3>2. ReplacedIsDead' /\ NoStrayCredential'
      BY <1>0, <2>1, <2>2, <2>5
    <3>3. QED
      BY <1>0, <1>v, <1>f, <2>1, <2>2, <2>5, <3>1, <3>2
  <2> QED
    BY <1>2, <2>4, <2>5 DEF Revoke
<1>3. CASE Obtain
  <2>1. /\ job.service \in Services /\ job' = NoJob /\ issued' = issued + 1
        /\ live' = live \union {issued + 1} /\ lease' = [lease EXCEPT ![job.service] = issued + 1]
        /\ rotations' = rotations + 1 /\ UNCHANGED <<vaultVars, stray, failures>>
        /\ lease[job.service] \notin live \ stray
    BY <1>0, <1>3, LeaseJobsMean DEF Obtain
  <2>2. /\ lease' \in [Services -> 0 .. issued'] /\ live' \subseteq 1 .. issued'
        /\ stray' \subseteq 1 .. issued'
    <3>1. 0 .. issued \subseteq 0 .. issued' /\ 1 .. issued \subseteq 1 .. issued'
          /\ issued + 1 \in 0 .. issued' /\ issued + 1 \in 1 .. issued'
      BY <1>0, <2>1
    <3>2. QED
      BY <1>0, <2>1, <3>1
  <2>3. NoStrayCredential'
    <3>1. Tracked \ {lease[job.service]} \subseteq Tracked' /\ issued + 1 \in Tracked'
      BY <1>0, <2>1
    <3>2. QED
      BY <1>0, <2>1, <3>1 DEF NoStrayCredential
  <2>4. job' \in LeaseJobs /\ ReplacedIsDead'
    BY <2>1, LeaseJobsMean
  <2> QED
    BY <1>0, <1>v, <2>1, <2>2, <2>3, <2>4
<1>4. CASE ObtainFails
  <2>1. job' = NoJob /\ Fails /\ UNCHANGED <<vaultVars, lease, rotations>>
    BY <1>4 DEF ObtainFails
  <2>2. CASE UNCHANGED <<issued, live, stray>>
    BY <1>0, <1>v, <1>f, <2>1, <2>2, LeaseJobsMean
  <2>3. CASE /\ issued' = issued + 1
             /\ live' = live \union {issued + 1} /\ stray' = stray \union {issued + 1}
    BY <1>0, <1>v, <1>f, <2>1, <2>3, LeaseJobsMean
  <2> QED
    BY <1>4, <2>2, <2>3 DEF ObtainFails
<1>5. CASE RotateKafka
  BY <1>0, <1>5, <1>v, <1>f, LeaseJobsMean DEF RotateKafka
<1> QED
  BY <1>1, <1>2, <1>3, <1>4, <1>5 DEF RotationStep

\* A restart forgets the leases it tracks, and says so.
LEMMA RestartKeepsInv ==
  ASSUME LeasesInv, Restart
  PROVE  LeasesTypeOK' /\ ReplacedIsDead' /\ NoStrayCredential'
<1>1. SessionTypeOK'
  BY EnvironmentType DEF Restart, LeasesInv, LeasesTypeOK
<1>2. /\ job' = NoJob /\ lease' = [s \in Services |-> 0] /\ rotations' = 0
      /\ stray' = stray \union Tracked /\ UNCHANGED <<issued, live, failures>>
  BY DEF Restart
<1>3. Tracked \subseteq 1 .. issued /\ live \subseteq Tracked \union stray
  BY DEF LeasesInv, LeasesTypeOK, NoStrayCredential, Tracked
<1>4. LeasesTypeOK'
  BY <1>1, <1>2, <1>3 DEF LeasesInv, LeasesTypeOK
<1>5. NoStrayCredential'
  BY <1>2, <1>3 DEF NoStrayCredential
<1> QED
  BY <1>2, <1>4, <1>5, LeaseJobsMean DEF ReplacedIsDead

\* Every step of the session and of the leases keeps the invariant.
LEMMA LeasesStep == LeasesInv /\ [LeasesNext]_leasesVars => LeasesInv'
<1> SUFFICES ASSUME LeasesInv, [LeasesNext]_leasesVars PROVE LeasesInv'
  OBVIOUS
<1>1. CASE RotationStep
  <2>1. UNCHANGED vaultVars
    BY <1>1 DEF RotationStep, BeginRotation, Revoke, Obtain, ObtainFails, RotateKafka
  <2>2. QED
    BY <1>1, <2>1, RotationKeepsInv, SessionStep DEF LeasesInv, LeasesTypeOK
<1>2. CASE Restart
  BY <1>2, RestartKeepsInv, SessionStep DEF LeasesInv, LeasesTypeOK, Restart
<1>3. CASE SessionMoves \/ UNCHANGED leasesVars
  <2>1. /\ UNCHANGED ownVars
        /\ \/ \E t \in Lanes : Connect(t)
           \/ Booting \/ Renew \/ TokenExpires \/ Outage \/ UNCHANGED vaultVars
    BY <1>3 DEF SessionMoves, leasesVars
  <2>2. SessionTypeOK' /\ InfraFollowsSession'
    BY <2>1, ConnectType, EnvironmentType, SessionStep DEF LeasesInv, LeasesTypeOK
  <2>3. QED
    BY <2>1, <2>2 DEF LeasesInv, LeasesTypeOK, ReplacedIsDead, NoStrayCredential, Tracked, ownVars
<1> QED
  BY <1>1, <1>2, <1>3 DEF LeasesNext, RotationStep

\* It holds throughout.
LEMMA LeasesInvariant == LeasesSpec => []LeasesInv
BY LeasesStart, LeasesStep, PTL DEF LeasesSpec

\* Whatever the threads, Vault and the failures do, a lease that works is tracked,
\* or a failure or a restart took it out of reach.
THEOREM CredentialsStayRevocable == LeasesSpec => []NoStrayCredential
<1>1. LeasesInv => NoStrayCredential
  BY DEF LeasesInv
<1> QED
  BY <1>1, LeasesInvariant, PTL

\* However many threads replace the session at once, the infra client ends up
\* with the client that vault_client has.
THEOREM InfraKeepsUp == LeasesSpec => []InfraFollowsSession
<1>1. LeasesInv => InfraFollowsSession
  BY DEF LeasesInv
<1> QED
  BY <1>1, LeasesInvariant, PTL

\* Session, leases and accounts keep their types in every behaviour of both.
THEOREM TypesKept == Spec => []TypeOK
<1>1. Init => AccountsInv /\ LeasesInv
  BY AccountsStart, LeasesStart DEF Init
<1>2. AccountsInv /\ LeasesInv /\ [Next]_vars => (AccountsInv /\ LeasesInv)'
  BY AccountsStep, LeasesStep DEF Next, vars
<1>3. AccountsInv /\ LeasesInv => TypeOK
  BY DEF AccountsInv, LeasesInv, TypeOK
<1> QED
  BY <1>1, <1>2, <1>3, PTL DEF Spec
===============================================================================
