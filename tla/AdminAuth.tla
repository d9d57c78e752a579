------------------------------ MODULE AdminAuth ------------------------------
(***************************************************************************)
(* backend/app/auth_admin.py: the sessions of administrators, signed with  *)
(* a secret from Vault or, without Vault, one that the pod makes up, and   *)
(* the one-time tokens that confirm a reset, which the pod that issued     *)
(* them keeps in memory.                                                   *)
(***************************************************************************)
EXTENDS Integers, Sequences

CONSTANTS Backends,   \* pods
          SessionTTL, \* ADMIN_JWT_TTL_MINUTES
          TokenTTL,   \* ADMIN_RESET_TOKEN_TTL_SECONDS
          MaxTime,    \* bound: time
          MaxTokens,  \* bound: reset tokens
          MaxSigns    \* bound: logins and starts of a pod

ASSUME AuthConstantsOK == {SessionTTL, TokenTTL, MaxTime, MaxTokens, MaxSigns} \subseteq Nat

VARIABLES
  time,     \* clock of all pods
  key,      \* per pod: _jwt_secret; 0 is that of Vault, the others are made up
  keys,     \* secrets made up so far
  sessions, \* tokens that administrators hold: the secret and the end
  tokens,   \* per pod: _pending_reset_tokens, with the time at which each ends
  issued,   \* per reset token: when it was issued
  wiped,    \* the resets: token and time
  signs     \* logins and starts

authVars == <<time, key, keys, sessions, tokens, issued, wiped, signs>>

AuthTypeOK ==
  /\ {time, keys, signs} \subseteq Nat /\ key \in [Backends -> 0 .. keys]
  /\ sessions \subseteq [key : 0 .. keys, until : Nat]
  /\ tokens \in [Backends -> SUBSET [id : 1 .. MaxTokens, until : Nat]]
  /\ issued \in Seq(Nat) /\ Len(issued) <= MaxTokens
  /\ wiped \in Seq([id : 1 .. MaxTokens, at : Nat])

AuthInit ==
  /\ time = 0 /\ key = [p \in Backends |-> 0] /\ keys = 0 /\ sessions = {}
  /\ tokens = [p \in Backends |-> {}] /\ issued = <<>> /\ wiped = <<>> /\ signs = 0

AuthTick ==
  /\ time < MaxTime /\ time' = time + 1
  /\ UNCHANGED <<key, keys, sessions, tokens, issued, wiped, signs>>

\* load_jwt_secret, when a pod starts: its tokens are lost.
LoadSecret(p) ==
  /\ signs < MaxSigns /\ signs' = signs + 1 /\ tokens' = [tokens EXCEPT ![p] = {}]
  /\ \/ key' = [key EXCEPT ![p] = 0] /\ UNCHANGED keys
     \/ keys' = keys + 1 /\ key' = [key EXCEPT ![p] = keys + 1]
  /\ UNCHANGED <<time, sessions, issued, wiped>>

\* create_admin_token, at a login
Login(p) ==
  /\ signs < MaxSigns /\ signs' = signs + 1
  /\ sessions' = sessions \union {[key |-> key[p], until |-> time + SessionTTL]}
  /\ UNCHANGED <<time, key, keys, tokens, issued, wiped>>

\* get_current_admin
Admitted(p, s) == s.key = key[p] /\ time < s.until

\* request_reset
RequestReset(p, s) ==
  /\ Admitted(p, s) /\ Len(issued) < MaxTokens
  /\ issued' = Append(issued, time)
  /\ tokens' = [tokens EXCEPT ![p] = @ \union {[id |-> Len(issued) + 1, until |-> time + TokenTTL]}]
  /\ UNCHANGED <<time, key, keys, sessions, wiped, signs>>

\* confirm_reset: the token is taken from those of this pod, then its age is
\* looked at.  A token of another pod is an error, without effect.
Consumed_Peeked(p, token) == tokens[p]
Consumed(p, token) == tokens[p] \ {token}

ConfirmReset(p, s, token) ==
  /\ Admitted(p, s) /\ token \in tokens[p] /\ Len(wiped) < MaxTokens
  /\ tokens' = [tokens EXCEPT ![p] = Consumed(p, token)]
  /\ wiped' = IF time < token.until
              THEN Append(wiped, [id |-> token.id, at |-> time]) ELSE wiped
  /\ UNCHANGED <<time, key, keys, sessions, issued, signs>>

AuthNext ==
  \/ AuthTick
  \/ \E p \in Backends :
       \/ LoadSecret(p) \/ Login(p)
       \/ \E s \in sessions : RequestReset(p, s) \/ \E token \in tokens[p] : ConfirmReset(p, s, token)

AuthSpec == AuthInit /\ [][AuthNext]_authVars

-----------------------------------------------------------------------------
(* Properties *)

\* A confirmation resets once, within the minute, whoever sends it again, to
\* whichever pod, and whatever restarts meanwhile.
TokensResetOnce ==
  \A i, j \in DOMAIN wiped :
    /\ wiped[i].id = wiped[j].id => i = j
    /\ wiped[i].at - issued[wiped[i].id] \in 0 .. TokenTTL - 1
=============================================================================
