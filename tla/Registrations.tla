---------------------------- MODULE Registrations ----------------------------
(***************************************************************************)
(* The accounts: registration in the portal (routes/auth.py), the decision *)
(* of an administrator (routes/admin.py) with the provisioning in Vault    *)
(* (vault_client.py), and the sync of the directory, the users of the      *)
(* profiles file, by a pod that connects to Vault.                         *)
(*                                                                         *)
(* An approval runs on the event loop of its pod, one at a time; requests  *)
(* to register and syncs run in other threads, any number of them.         *)
(***************************************************************************)
EXTENDS Integers

CONSTANTS Replicas,         \* pods
          Directory,        \* users of the profiles file
          Newcomers,        \* other user names
          MaxRegistrations, \* bound: registrations
          MaxSyncs,         \* bound: connections to Vault
          MaxVaultFaults    \* bound: Vault calls that fail

ASSUME AccountConstantsOK ==
  /\ Directory \intersect Newcomers = {}
  /\ {MaxRegistrations, MaxSyncs, MaxVaultFaults} \subseteq Nat

VARIABLES
  row,        \* per user: its row of hpe_users
  secret,     \* per user: the login password that Vault has
  known,      \* pairs of a pod and a user: the pod has the profile in memory
  asking,     \* per user: registrations that have found the name free
  approval,   \* per pod: the approval it is running
  sync,       \* per pod: the sync of a directory user that it is running
  contended,  \* users with two of these at once, or a sync during an approval
  failed,     \* users for whom a call to Vault failed
  approved,   \* users that an administrator has approved
  registered, syncs, faults \* counts

accountVars == <<row, secret, known>>
actorVars   == <<asking, approval, sync>>
noteVars    == <<contended, failed, approved>>
countVars   == <<registered, syncs, faults>>
registrationVars == <<accountVars, actorVars, noteVars, countVars>>

Users == Directory \union Newcomers
\* A password is named after the pod that sets it, or after the sync that made it.
Passwords == Replicas \union {"generated"}
NoRow     == [status |-> "none", password |-> "none"]
Pending   == [status |-> "pending", password |-> "none"]
Active(w) == [status |-> "active", password |-> w]
Rest      == [at |-> "idle"]
Job(step, u) == [at |-> step, user |-> u]
Sync(step, u, w) == [at |-> step, user |-> u, password |-> w]

AccountsTypeOK ==
  /\ row \in [Users -> {NoRow, Pending} \union {Active(w) : w \in Passwords}]
  /\ secret \in [Users -> Passwords \union {"none"}] /\ known \subseteq Replicas \X Users
  /\ asking \in [Users -> Nat]
  /\ approval \in [Replicas -> {Rest} \union [at : {"provision", "activate"}, user : Users]]
  /\ sync \in [Replicas -> {Rest} \union
                [at : {"write", "store"}, user : Directory, password : Passwords]]
  /\ contended \subseteq Users /\ failed \subseteq Users /\ approved \subseteq Users
  /\ registered \in Nat /\ syncs \in Nat /\ faults \in Nat

AccountsInit ==
  /\ row = [u \in Users |-> NoRow] /\ secret = [u \in Users |-> "none"] /\ known = {}
  /\ asking = [u \in Users |-> 0] /\ approval = [p \in Replicas |-> Rest] /\ sync = [p \in Replicas |-> Rest]
  /\ contended = {} /\ failed = {} /\ approved = {} /\ registered = 0 /\ syncs = 0 /\ faults = 0

Works_on(f, u) == \E p \in Replicas : f[p] # Rest /\ f[p].user = u
Busy(u) == Works_on(approval, u) \/ Works_on(sync, u)
Note(u) == contended' = IF Busy(u) THEN contended \union {u} ELSE contended
VaultFault(u) ==
  /\ faults < MaxVaultFaults /\ faults' = faults + 1 /\ failed' = failed \union {u}

-----------------------------------------------------------------------------
(* register *)

\* The name is free.
Ask(u) ==
  /\ row[u] = NoRow /\ registered < MaxRegistrations
  /\ registered' = registered + 1 /\ asking' = [asking EXCEPT ![u] = @ + 1]
  /\ UNCHANGED <<accountVars, approval, sync, noteVars, syncs, faults>>

\* The INSERT; it fails on a name that has been taken meanwhile.
Inserted_WithPassword(u) == [Pending EXCEPT !.password = "generated"]
Inserted_Active(u) == IF row[u] = NoRow THEN Active("generated") ELSE row[u]
Inserted(u) == IF row[u] = NoRow THEN Pending ELSE row[u]

Insert(u) ==
  /\ asking[u] > 0 /\ asking' = [asking EXCEPT ![u] = @ - 1]
  /\ row' = [row EXCEPT ![u] = Inserted(u)]
  /\ UNCHANGED <<secret, known, approval, sync, noteVars, countVars>>

-----------------------------------------------------------------------------
(* approve_registration and reject_registration *)

\* The SELECT; without a pending row the answer is an error.
Approve(p, u) ==
  /\ approval[p] = Rest /\ row[u] = Pending
  /\ approval' = [approval EXCEPT ![p] = Job("provision", u)]
  /\ approved' = approved \union {u} /\ Note(u)
  /\ UNCHANGED <<accountVars, asking, sync, failed, countVars>>

\* provision_approved_user: the secret, if Vault takes it, and the profile.
Provisioned_Generated(p) == "generated"
Provisioned(p) == p

Provision(p, u) ==
  /\ approval[p] = Job("provision", u)
  /\ approval' = [approval EXCEPT ![p] = Job("activate", u)]
  /\ \/ secret' = [secret EXCEPT ![u] = Provisioned(p)] /\ UNCHANGED <<failed, faults>>
     \/ VaultFault(u) /\ UNCHANGED secret
  /\ known' = known \union {<<p, u>>}
  /\ UNCHANGED <<row, asking, sync, contended, approved, registered, syncs>>

\* UPDATE ... WHERE username, whatever the status; no row, no effect.
Activated(p, u) == IF row[u] = NoRow THEN NoRow ELSE Active(p)

Activate(p, u) ==
  /\ approval[p] = Job("activate", u) /\ approval' = [approval EXCEPT ![p] = Rest]
  /\ row' = [row EXCEPT ![u] = Activated(p, u)]
  /\ UNCHANGED <<secret, known, asking, sync, noteVars, countVars>>

\* DELETE ... AND status = 'pending'
MayDelete_Any(u) == TRUE
MayDelete(u) == row[u] = Pending

Reject(u) ==
  /\ MayDelete(u) /\ row[u] # NoRow /\ row' = [row EXCEPT ![u] = NoRow]
  /\ UNCHANGED <<secret, known, actorVars, noteVars, countVars>>

-----------------------------------------------------------------------------
(* connect_vault: the profiles and the sync *)

\* _load_user_profiles forgets the profiles that approvals added, then
\* _init_all_user_secrets goes through the directory.
Load(p, u) ==
  /\ sync[p] = Rest /\ u \in Directory /\ syncs < MaxSyncs /\ syncs' = syncs + 1
  /\ known' = {k \in known : k[1] # p} \union ({p} \X Directory)
  /\ \/ /\ sync' = [sync EXCEPT ![p] =
             IF secret[u] # "none" THEN Sync("store", u, secret[u])
             ELSE Sync("write", u, "generated")]
        /\ UNCHANGED <<failed, faults>>
     \/ /\ VaultFault(u) \* an error counts as a missing secret
        /\ sync' = [sync EXCEPT ![p] = Sync("write", u, "generated")]
  /\ Note(u) /\ UNCHANGED <<row, secret, asking, approval, approved, registered>>

\* A new secret; without it the user is skipped.
WriteSecret(p) ==
  /\ sync[p] # Rest /\ sync[p].at = "write"
  /\ LET u == sync[p].user IN
       \/ /\ secret' = [secret EXCEPT ![u] = "generated"]
          /\ sync' = [sync EXCEPT ![p].at = "store"] /\ UNCHANGED <<failed, faults>>
       \/ VaultFault(u) /\ sync' = [sync EXCEPT ![p] = Rest] /\ UNCHANGED secret
  /\ UNCHANGED <<row, known, asking, approval, contended, approved, registered, syncs>>

\* INSERT ... ON CONFLICT DO UPDATE, which also activates a pending row.
StoreRow(p) ==
  /\ sync[p] # Rest /\ sync[p].at = "store" /\ sync' = [sync EXCEPT ![p] = Rest]
  /\ row' = [row EXCEPT ![sync[p].user] = Active(sync[p].password)]
  /\ UNCHANGED <<secret, known, asking, approval, noteVars, countVars>>

AccountsNext ==
  \/ \E u \in Users : Ask(u) \/ Insert(u) \/ Reject(u)
  \/ \E p \in Replicas, u \in Users : Approve(p, u) \/ Provision(p, u) \/ Activate(p, u) \/ Load(p, u)
  \/ \E p \in Replicas : WriteSecret(p) \/ StoreRow(p)

AccountsSpec == AccountsInit /\ [][AccountsNext]_registrationVars

-----------------------------------------------------------------------------
(* Properties *)

\* An account, once active, stays: neither a late rejection nor a registration
\* that found the name free takes it away or back to pending.
ActiveStaysActive ==
  [][\A u \in Users : row[u].status = "active" => row'[u].status = "active"]_registrationVars

\* A newcomer gets in only through an approval, with the password that its
\* approval set.
NewcomersAreApproved ==
  \A u \in Newcomers : row[u].status = "active" => u \in approved /\ row[u].password \in Replicas

\* The password that Vault shows is the one that logs the user in, unless two
\* approvals, or an approval and a sync, of the user overlapped or Vault failed.
\* In particular decisions and registrations that follow one another never
\* separate the two, in whatever order.
StoresAgreeWithoutContention ==
  \A u \in Users : row[u].status = "active" /\ ~ Busy(u) /\ u \notin contended \union failed =>
    row[u].password = secret[u]
=============================================================================
