--------------------------- MODULE AlertLifecycle ---------------------------
(***************************************************************************)
(* What the admin alert queue promises, without handlers, pods or stores:  *)
(* an alert is raised once, decided at most once, and only an approved     *)
(* alert leads to a credential rotation.  A pipeline reset removes every   *)
(* alert.  AdminAlerts implements this specification when one pod serves   *)
(* the admin console.                                                      *)
(***************************************************************************)
CONSTANT Alerts

VARIABLES status,   \* status[a]: "none", "pending", "approved", "rejected", "deleted"
          rotated   \* alerts whose approval has rotated credentials

vars == <<status, rotated>>

Init ==
  /\ status = [a \in Alerts |-> "none"]
  /\ rotated = {}

\* A threat is detected and queued for a decision.
Raise(a) ==
  /\ status[a] = "none"
  /\ status' = [status EXCEPT ![a] = "pending"]
  /\ UNCHANGED rotated

\* The one decision an alert gets.
Decide(a, d) ==
  /\ status[a] = "pending"
  /\ status' = [status EXCEPT ![a] = d]
  /\ UNCHANGED rotated

\* The rotation that an approval authorises.
Rotate(a) ==
  /\ status[a] = "approved"
  /\ rotated' = rotated \union {a}
  /\ UNCHANGED status

\* A pipeline reset empties the queue; ids are never used again.
Wipe ==
  /\ status' = [a \in Alerts |-> IF status[a] = "none" THEN "none" ELSE "deleted"]
  /\ UNCHANGED rotated

Next ==
  \/ \E a \in Alerts :
       \/ Raise(a)
       \/ \E d \in {"approved", "rejected"} : Decide(a, d)
       \/ Rotate(a)
  \/ Wipe

Spec == Init /\ [][Next]_vars
=============================================================================
