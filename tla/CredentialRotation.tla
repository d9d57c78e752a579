-------------------------- MODULE CredentialRotation --------------------------
(***************************************************************************)
(* One portal user's password: the Vault KV secret, the hash in hpe_users, *)
(* the Redis copy of the hpe_users row, and the code that moves them:      *)
(* rotate_credentials and _init_all_user_secrets of vault_client.py,       *)
(* login, simulate and the user cache of routes/auth.py.                   *)
(*                                                                         *)
(* Login and simulate run in worker threads of several pods, rotations in  *)
(* those threads, in the Kafka consumer and in the admin handlers: every   *)
(* Vault, SQL or Redis call is one atomic step and nothing orders them.    *)
(***************************************************************************)
EXTENDS Integers, Sequences

CONSTANTS Threads,          \* whatever runs this code, on any pod
          CacheOn,          \* Redis is reachable
          LockoutThreshold, \* the 5 of login's brute-force test
          MaxLogins, MaxSimulations, MaxRotations, MaxResyncs, MaxFaults \* bounds

ASSUME RotationConstantsOK ==
  /\ CacheOn \in BOOLEAN
  /\ {LockoutThreshold, MaxLogins, MaxSimulations, MaxRotations, MaxResyncs,
      MaxFaults} \subseteq Nat

\* Passwords are numbered as they are generated; 0 is the provisioned one and
\* Wrong is any that was never issued.
Wrong == -1

VARIABLES
  issued,   \* passwords generated so far
  kv,       \* login_password in the versions of hpe/users/<user> (KV version 2)
  hashes,   \* values hpe_users.password_hash has had; the last is current
  fails, lastFail,  \* failed_attempts; which failure last_failed_attempt is
  failures, \* failed logins so far: the clock of last_failed_attempt
  stale,    \* failures up to this one are over five minutes old
  cache,    \* the row under user:<username>, {} when there is none
  job, pc,  \* what a thread runs, and how far it is
  typed,    \* the password of the request
  since,    \* Len(hashes) when the request arrived
  seen,     \* the row the thread read
  brute,    \* login's brute_force_login
  held,     \* password that a rotation generated or a resync read
  outcome,  \* how the thread's last job ended
  used      \* what the bounds count

dbVars    == <<hashes, fails, lastFail, failures>>
callVars  == <<typed, since, seen, brute>>
vars == <<issued, kv, dbVars, stale, cache, job, pc, callVars, held, outcome, used>>

Final(s) == s[Len(s)]
Row == [hash : Nat, fails : Nat, lastFail : Nat]
CurrentRow == [hash |-> Final(hashes), fails |-> fails, lastFail |-> lastFail]
Jobs == {"login", "simulate", "rotate", "resync"}
Bound == [login |-> MaxLogins, simulate |-> MaxSimulations, rotate |-> MaxRotations,
          resync |-> MaxResyncs, fault |-> MaxFaults]

\* The failure happened in the last five minutes.
Recent(failure) == failure > stale

Goto(t, from, to) == pc[t] = from /\ pc' = [pc EXCEPT ![t] = to]
Finish(t, from, how) ==
  /\ Goto(t, from, "idle")
  /\ outcome' = [outcome EXCEPT ![t] = how]
Use(what) == used[what] < Bound[what] /\ used' = [used EXCEPT ![what] = @ + 1]

Init ==
  /\ issued = 0
  /\ kv = <<0>>
  /\ hashes = <<0>>
  /\ fails = 0 /\ lastFail = 0 /\ failures = 0 /\ stale = 0
  /\ cache = {}
  /\ job = [t \in Threads |-> "login"]
  /\ pc = [t \in Threads |-> "idle"]
  /\ typed = [t \in Threads |-> Wrong]
  /\ since = [t \in Threads |-> 1]
  /\ seen = [t \in Threads |-> [hash |-> 0, fails |-> 0, lastFail |-> 0]]
  /\ brute = [t \in Threads |-> FALSE]
  /\ held = [t \in Threads |-> 0]
  /\ outcome = [t \in Threads |-> "none"]
  /\ used = [k \in DOMAIN Bound |-> 0]

-----------------------------------------------------------------------------
(* A thread takes a job *)

Start(t, j, first) ==
  /\ Use(j)
  /\ Goto(t, "idle", first)
  /\ job' = [job EXCEPT ![t] = j]
  /\ outcome' = [outcome EXCEPT ![t] = "none"]
  /\ UNCHANGED <<issued, kv, dbVars, stale, cache, held>>

\* POST /login or /simulate with some password: a wrong one, or one that the
\* user was once given.
Request(t) ==
  \E j \in {"login", "simulate"}, p \in {Wrong} \union {kv[i] : i \in DOMAIN kv} :
    /\ Start(t, j, "lookup")
    /\ typed' = [typed EXCEPT ![t] = p]
    /\ since' = [since EXCEPT ![t] = Len(hashes)]
    /\ brute' = [brute EXCEPT ![t] = FALSE]
    /\ UNCHANGED seen

\* An approval in demo mode, or a detection in production mode.
BeginRotation(t) == Start(t, "rotate", "rotate") /\ UNCHANGED callVars

\* connect_vault on a pod's start, or from ensure_connected: the user's turn in
\* the loop of _init_all_user_secrets.
BeginResync(t) == Start(t, "resync", "readSecret") /\ UNCHANGED callVars

-----------------------------------------------------------------------------
(* login and simulate *)

\* get_cached_user
Lookup(t) ==
  /\ \/ /\ cache # {}
        /\ Goto(t, "lookup", "check")
        /\ \E row \in cache : seen' = [seen EXCEPT ![t] = row]
     \/ /\ cache = {}
        /\ Goto(t, "lookup", "select")
        /\ UNCHANGED seen
  /\ UNCHANGED <<issued, kv, dbVars, stale, cache, job, typed, since, brute, held,
                 outcome, used>>

Select(t) ==
  /\ Goto(t, "select", IF CacheOn THEN "fill" ELSE "check")
  /\ seen' = [seen EXCEPT ![t] = CurrentRow]
  /\ UNCHANGED <<issued, kv, dbVars, stale, cache, job, typed, since, brute, held,
                 outcome, used>>

\* cache_user stores the row that was read, whatever happened to it since.
Fill(t) ==
  /\ Goto(t, "fill", "check")
  /\ cache' = {seen[t]}
  /\ UNCHANGED <<issued, kv, dbVars, stale, job, callVars, held, outcome, used>>

\* user['password_hash'] == pass_hash
Matches_AnyVersion(p, row) == p \in {hashes[i] : i \in DOMAIN hashes}
Matches(p, row) == p = row.hash

\* More than five failures, the last of them within five minutes.
BruteForce(row) ==
  row.fails > LockoutThreshold /\ row.lastFail # 0 /\ Recent(row.lastFail)

AcceptLogin(t) ==
  /\ job[t] = "login" /\ Goto(t, "check", "drop")
  /\ Matches(typed[t], seen[t])
  /\ brute' = [brute EXCEPT ![t] = BruteForce(seen[t])]
  /\ outcome' = [outcome EXCEPT ![t] = "ok"]
  /\ fails' = 0
  /\ UNCHANGED <<issued, kv, hashes, lastFail, failures, stale, cache, job, typed,
                 since, seen, held, used>>

\* The windowed UPDATE of failed_attempts.
DenyLogin(t) ==
  /\ job[t] = "login" /\ Goto(t, "check", "drop")
  /\ ~ Matches(typed[t], seen[t])
  /\ outcome' = [outcome EXCEPT ![t] = "denied"]
  /\ fails' = IF Recent(lastFail) THEN fails + 1 ELSE 1
  /\ failures' = failures + 1
  /\ lastFail' = failures + 1
  /\ UNCHANGED <<issued, kv, hashes, stale, cache, job, callVars, held, used>>

\* simulate: the event is processed with force_rotation, which rotates when the
\* engine scores it BLOCK or CRITICAL_ALERT.
AcceptSimulation(t) ==
  /\ job[t] = "simulate"
  /\ Goto(t, "check", "rotate") \/ Goto(t, "check", "memory")
  /\ Matches(typed[t], seen[t])
  /\ outcome' = [outcome EXCEPT ![t] = "ok"]
  /\ UNCHANGED <<issued, kv, dbVars, stale, cache, job, callVars, held, used>>

DenySimulation(t) ==
  /\ job[t] = "simulate" /\ ~ Matches(typed[t], seen[t])
  /\ Finish(t, "check", "denied")
  /\ UNCHANGED <<issued, kv, dbVars, stale, cache, job, callVars, held, used>>

\* simulate 7b: a rotation also clears the failed attempts.
UpdateMemory(t) ==
  /\ Goto(t, "memory", "drop")
  /\ fails' = IF outcome[t] = "rotated" THEN 0 ELSE fails
  /\ UNCHANGED <<issued, kv, hashes, lastFail, failures, stale, cache, job, callVars,
                 held, outcome, used>>

\* invalidate_user_cache, then the answer or the brute-force rotation.
AfterDrop(t) == IF job[t] = "login" /\ brute[t] THEN "rotate" ELSE "idle"
Drop(t) ==
  /\ Goto(t, "drop", AfterDrop(t))
  /\ cache' = {}
  /\ UNCHANGED <<issued, kv, dbVars, stale, job, callVars, held, outcome, used>>

-----------------------------------------------------------------------------
(* rotate_credentials *)

\* What follows a rotation: simulate goes on, the other callers are done.
AfterRotation_Returned(t) == IF job[t] = "simulate" THEN "memory" ELSE "returned"
AfterRotation(t) == IF job[t] = "simulate" THEN "memory" ELSE "idle"

\* _generate_password and create_or_update_secret; the read before it only
\* numbers the rotation.
NewPassword_Preserved == Final(kv)
NewPassword == issued + 1
Generate(t) ==
  /\ issued' = issued + 1
  /\ held' = [held EXCEPT ![t] = NewPassword]
Stored_Lazily(versions, p) == versions
Stored(versions, p) == Append(versions, p)
StoreSecret(t) ==
  /\ Goto(t, "rotate", "hash")
  /\ Generate(t)
  /\ kv' = Stored(kv, NewPassword)
  /\ UNCHANGED <<dbVars, stale, cache, job, callVars, outcome, used>>

\* UPDATE hpe_users SET password_hash
WrittenHash(p) == p
WriteHash(t) ==
  /\ Goto(t, "hash", "clear")
  /\ hashes' = Append(hashes, WrittenHash(held[t]))
  /\ UNCHANGED <<issued, kv, fails, lastFail, failures, stale, cache, job, callVars,
                 held, outcome, used>>

\* failed_attempts = 0, the email, and the caller told of the success.
ClearMemory(t) ==
  /\ Goto(t, "clear", AfterRotation(t))
  /\ fails' = 0
  /\ outcome' = [outcome EXCEPT ![t] = "rotated"]
  /\ UNCHANGED <<issued, kv, hashes, lastFail, failures, stale, cache, job, callVars,
                 held, used>>

-----------------------------------------------------------------------------
(* _init_all_user_secrets for a user whose secret exists and is complete *)

ResyncRead(t) ==
  /\ Goto(t, "readSecret", "syncHash")
  /\ held' = [held EXCEPT ![t] = Final(kv)]
  /\ UNCHANGED <<issued, kv, dbVars, stale, cache, job, callVars, outcome, used>>

\* The read raises, the error is swallowed, and the secret is taken for missing:
\* a new one is created over it.
ResyncCreate(t) ==
  /\ Use("fault")
  /\ Goto(t, "readSecret", "syncHash")
  /\ Generate(t)
  /\ kv' = Stored(kv, NewPassword)
  /\ UNCHANGED <<dbVars, stale, cache, job, callVars, outcome>>

ResyncWrite(t) ==
  /\ Finish(t, "syncHash", "synced")
  /\ hashes' = Append(hashes, held[t])
  /\ UNCHANGED <<issued, kv, fails, lastFail, failures, stale, cache, job, callVars,
                 held, used>>

-----------------------------------------------------------------------------
(* Time and faults *)

\* The 300 s of setex run out.
CacheExpires ==
  /\ cache # {} /\ cache' = {}
  /\ UNCHANGED <<issued, kv, dbVars, stale, job, pc, callVars, held, outcome, used>>

\* Five minutes pass since some failure.
TimePasses ==
  /\ stale < failures /\ stale' \in stale + 1 .. failures
  /\ UNCHANGED <<issued, kv, dbVars, cache, job, pc, callVars, held, outcome, used>>

\* rotate_credentials catches what a Vault or SQL call raises and reports a
\* failure; the error of the last UPDATE is only logged.
RotationError(t) ==
  /\ Use("fault")
  /\ \/ /\ \E from \in {"rotate", "hash"} : Goto(t, from, AfterRotation(t))
        /\ outcome' = [outcome EXCEPT ![t] = IF job[t] = "rotate" THEN "failed" ELSE @]
     \/ /\ Goto(t, "clear", AfterRotation(t))
        /\ outcome' = [outcome EXCEPT ![t] = "rotated"]
  /\ UNCHANGED <<issued, kv, dbVars, stale, cache, job, callVars, held>>

\* A statement of login, simulate or the resync raises: 500, or a logged skip.
\* simulate swallows the error of its last UPDATE, and invalidates nothing.
RequestError(t) ==
  /\ Use("fault")
  /\ \/ \E from \in {"select", "check", "syncHash"} : Finish(t, from, "error")
     \/ Finish(t, "memory", outcome[t])
  /\ UNCHANGED <<issued, kv, dbVars, stale, cache, job, callVars, held>>

\* The user cache swallows a Redis error: a hit is missed, a row is not stored, or
\* an outdated one is left for the TTL to remove.
CacheError(t) ==
  /\ CacheOn
  /\ Use("fault")
  /\ \/ Goto(t, "lookup", "select") \/ Goto(t, "fill", "check")
     \/ Goto(t, "drop", AfterDrop(t))
  /\ UNCHANGED <<issued, kv, dbVars, stale, cache, job, callVars, held, outcome>>

\* The pod dies.
Crash(t) ==
  /\ Use("fault")
  /\ pc[t] # "idle"
  /\ Finish(t, pc[t], "lost")
  /\ UNCHANGED <<issued, kv, dbVars, stale, cache, job, callVars, held>>

-----------------------------------------------------------------------------
Work(t) ==
  \/ Lookup(t)      \/ Select(t)     \/ Fill(t)
  \/ AcceptLogin(t) \/ DenyLogin(t)  \/ AcceptSimulation(t) \/ DenySimulation(t)
  \/ UpdateMemory(t) \/ Drop(t)
  \/ StoreSecret(t) \/ WriteHash(t) \/ ClearMemory(t)
  \/ ResyncRead(t)  \/ ResyncWrite(t)

Next ==
  \/ \E t \in Threads :
       \/ Request(t) \/ BeginRotation(t) \/ BeginResync(t)
       \/ Work(t)
       \/ ResyncCreate(t) \/ RotationError(t) \/ RequestError(t) \/ CacheError(t)
       \/ Crash(t)
  \/ CacheExpires \/ TimePasses

Spec == Init /\ [][Next]_vars

-----------------------------------------------------------------------------
(* Properties *)

\* Type invariant.
TypeOK ==
  /\ issued \in Nat /\ failures \in Nat /\ stale \in Nat
  /\ kv \in Seq(Nat) /\ kv # <<>>
  /\ hashes \in Seq(Nat) /\ hashes # <<>>
  /\ fails \in Nat /\ lastFail \in Nat
  /\ cache \subseteq Row
  /\ job \in [Threads -> Jobs]
  /\ pc \in [Threads -> {"idle", "lookup", "select", "fill", "check", "drop", "memory",
                         "rotate", "hash", "clear", "readSecret", "syncHash"}]
  /\ typed \in [Threads -> Int]
  /\ since \in [Threads -> Nat \ {0}]
  /\ seen \in [Threads -> Row]
  /\ brute \in [Threads -> BOOLEAN]
  /\ held \in [Threads -> Nat]
  /\ outcome \in [Threads -> {"none", "ok", "denied", "rotated", "failed", "synced",
                              "error", "lost"}]
  /\ used \in [DOMAIN Bound -> Nat]

\* The password that the portal accepts is in some version of the Vault secret:
\* whatever overlaps, fails or crashes between the two writes, it can be read back.
PasswordRecoverable == \E v \in DOMAIN kv : kv[v] = Final(hashes)

\* A request is served only with a password that PostgreSQL held at some moment
\* since the request arrived: one replaced before that is refused.
OldPasswordRefused ==
  \A t \in Threads :
    job[t] \in {"login", "simulate"} /\ outcome[t] \in {"ok", "rotated"} =>
      \E i \in since[t] .. Len(hashes) : hashes[i] = typed[t]

\* The password that a brute-force login or a rotating simulation used is out of
\* both stores for good once its caller has been told of the rotation.
LockoutHolds ==
  \A t \in Threads :
    job[t] \in {"login", "simulate"} /\ outcome[t] = "rotated" =>
      typed[t] \notin {Final(kv), Final(hashes)}

=============================================================================
