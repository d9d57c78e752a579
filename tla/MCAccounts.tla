----------------------------- MODULE MCAccounts -----------------------------
(***************************************************************************)
(* The two users of a Vault session: the rotations of the infrastructure,  *)
(* with the session in full, and the accounts, to which it is a sync and   *)
(* calls that may fail.  They share nothing else: a behaviour moves one.   *)
(***************************************************************************)
EXTENDS InfraLeases, Registrations, TLC

VARIABLE moves

vars == <<leasesVars, registrationVars, moves>>

Init == LeasesInit /\ AccountsInit /\ moves \in {"leases", "accounts"}

Next ==
  \/ moves = "leases" /\ LeasesNext /\ UNCHANGED <<registrationVars, moves>>
  \/ moves = "accounts" /\ AccountsNext /\ UNCHANGED <<leasesVars, moves>>

Spec == Init /\ [][Next]_vars

\* The types of the variables of both modules.
TypeOK == LeasesTypeOK /\ AccountsTypeOK

Interchangeable == Permutations(Services) \union Permutations(Replicas)
=============================================================================
