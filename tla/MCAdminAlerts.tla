---------------------------- MODULE MCAdminAlerts ----------------------------
(* Instances of AdminAlerts for TLC. *)
EXTENDS AdminAlerts, TLC

\* Calls and pods are interchangeable; alerts are not (Critical, Forced).
Interchangeable == Permutations(Requests) \union Permutations(Pods)
=============================================================================
