----------------------- MODULE CredentialRotationProofs -----------------------
(***************************************************************************)
(* Theorems about CredentialRotation, for any threads, threshold and       *)
(* bounds.  The argument for recovery: a rotation and a resync write a     *)
(* hash only from the password they hold, they hold only what the secret   *)
(* has in some version, and versions are only added.                       *)
(***************************************************************************)
EXTENDS CredentialRotation, TLAPS

\* The initial state is well typed.
LEMMA TypeInit == Init => TypeOK
  BY RotationConstantsOK DEF Init, TypeOK, Row, Jobs, Bound, Wrong

\* The version appended last is the final one, the earlier ones stay in place.
LEMMA AppendKeeps ==
  ASSUME NEW s \in Seq(Nat), NEW n \in Nat
  PROVE  /\ Append(s, n) \in Seq(Nat) /\ Append(s, n) # <<>>
         /\ DOMAIN s \subseteq DOMAIN Append(s, n)
         /\ \A i \in DOMAIN s : Append(s, n)[i] = s[i]
         /\ Len(Append(s, n)) = Len(s) + 1
         /\ DOMAIN Append(s, n) = DOMAIN s \union {Len(s) + 1}
         /\ Append(s, n)[Len(s) + 1] = n
  OBVIOUS

\* A non-empty sequence of passwords ends with a password.
LEMMA FinalType ==
  ASSUME NEW s \in Seq(Nat), s # <<>>
  PROVE  Final(s) \in Nat /\ Len(s) \in DOMAIN s
  BY DEF Final

\* Spending a bound keeps its counter a natural number.
LEMMA UseType ==
  ASSUME TypeOK, NEW what \in DOMAIN Bound, Use(what)
  PROVE  used' \in [DOMAIN Bound -> Nat]
  BY DEF TypeOK, Use

\* The kinds of jobs and the faults are what the bounds count.
LEMMA Counted == Jobs \union {"fault"} \subseteq DOMAIN Bound
  BY DEF Jobs, Bound

\* Every step of a login, a simulation, a rotation, a resync or a fault keeps the
\* types.
LEMMA TypeStep == TypeOK /\ [Next]_vars => TypeOK'
<1> SUFFICES ASSUME TypeOK, [Next]_vars PROVE TypeOK'
  OBVIOUS
<1> USE DEF TypeOK, dbVars, callVars
<1>0. /\ CurrentRow \in Row /\ Final(kv) \in Nat
  BY FinalType DEF CurrentRow, Row
<1>1. ASSUME NEW t \in Threads, Request(t) PROVE TypeOK'
  <2>1. PICK j \in {"login", "simulate"}, p \in {Wrong} \union {kv[i] : i \in DOMAIN kv} :
          /\ Start(t, j, "lookup")
          /\ typed' = [typed EXCEPT ![t] = p]
          /\ since' = [since EXCEPT ![t] = Len(hashes)]
          /\ brute' = [brute EXCEPT ![t] = FALSE]
          /\ UNCHANGED seen
    BY <1>1 DEF Request
  <2>2. p \in Int
    BY DEF Wrong
  <2>3. Len(hashes) \in Nat \ {0}
    OBVIOUS
  <2>4. used' \in [DOMAIN Bound -> Nat]
    BY <2>1, UseType, Counted DEF Start, Jobs
  <2> QED BY <2>1, <2>2, <2>3, <2>4 DEF Start, Goto, Jobs
<1>2. ASSUME NEW t \in Threads, BeginRotation(t) \/ BeginResync(t) PROVE TypeOK'
  <2>1. used' \in [DOMAIN Bound -> Nat]
    BY <1>2, UseType, Counted DEF BeginRotation, BeginResync, Start, Jobs
  <2> QED BY <1>2, <2>1 DEF BeginRotation, BeginResync, Start, Goto, Jobs
<1>3. ASSUME NEW t \in Threads, Lookup(t) \/ Select(t) \/ Fill(t) PROVE TypeOK'
  <2>1. CASE Lookup(t)
    BY <2>1 DEF Lookup, Goto
  <2>2. CASE Select(t)
    BY <1>0, <2>2 DEF Select, Goto
  <2>3. CASE Fill(t)
    BY <2>3 DEF Fill, Goto
  <2> QED BY <1>3, <2>1, <2>2, <2>3
<1>4. ASSUME NEW t \in Threads, AcceptLogin(t) \/ DenyLogin(t) PROVE TypeOK'
  <2>1. BruteForce(seen[t]) \in BOOLEAN
    BY DEF BruteForce
  <2>2. CASE AcceptLogin(t)
    <3>1. /\ brute' = [brute EXCEPT ![t] = BruteForce(seen[t])] /\ fails' = 0
          /\ outcome' = [outcome EXCEPT ![t] = "ok"] /\ pc' = [pc EXCEPT ![t] = "drop"]
          /\ UNCHANGED <<issued, kv, hashes, lastFail, failures, stale, cache, job, typed,
                         since, seen, held, used>>
      BY <2>2 DEF AcceptLogin, Goto
    <3>2. brute' \in [Threads -> BOOLEAN]
      BY <2>1, <3>1
    <3> QED BY <3>1, <3>2
  <2>3. CASE DenyLogin(t)
    BY <2>3 DEF DenyLogin, Goto
  <2> QED BY <1>4, <2>2, <2>3
<1>5. ASSUME NEW t \in Threads,
             AcceptSimulation(t) \/ DenySimulation(t) \/ UpdateMemory(t) \/ Drop(t)
      PROVE  TypeOK'
  <2>1. CASE AcceptSimulation(t)
    BY <2>1 DEF AcceptSimulation, Goto
  <2>2. CASE DenySimulation(t)
    BY <2>2 DEF DenySimulation, Finish, Goto
  <2>3. CASE UpdateMemory(t)
    BY <2>3 DEF UpdateMemory, Goto
  <2>4. CASE Drop(t)
    BY <2>4 DEF Drop, AfterDrop, Goto
  <2> QED BY <1>5, <2>1, <2>2, <2>3, <2>4
<1>6. ASSUME NEW t \in Threads, StoreSecret(t) \/ ResyncCreate(t) PROVE TypeOK'
  <2>1. NewPassword \in Nat
    BY DEF NewPassword
  <2>2. kv' = Append(kv, NewPassword)
    BY <1>6 DEF StoreSecret, ResyncCreate, Stored
  <2>3. kv' \in Seq(Nat) /\ kv' # <<>>
    BY <2>1, <2>2, AppendKeeps
  <2>4. used' \in [DOMAIN Bound -> Nat]
    BY <1>6, UseType, Counted DEF StoreSecret, ResyncCreate
  <2>5. issued' \in Nat /\ held' \in [Threads -> Nat]
    <3>1. issued' = issued + 1 /\ held' = [held EXCEPT ![t] = NewPassword]
      BY <1>6 DEF StoreSecret, ResyncCreate, Generate
    <3>2. issued \in Nat /\ held \in [Threads -> Nat]
      OBVIOUS
    <3> HIDE DEF TypeOK
    <3> QED BY <2>1, <3>1, <3>2
  <2>6. pc' \in [Threads -> {"idle", "lookup", "select", "fill", "check", "drop", "memory",
                            "rotate", "hash", "clear", "readSecret", "syncHash"}]
    BY <1>6 DEF StoreSecret, ResyncCreate, Goto
  <2> QED BY <1>6, <2>3, <2>4, <2>5, <2>6 DEF StoreSecret, ResyncCreate
<1>7. ASSUME NEW t \in Threads, WriteHash(t) \/ ResyncWrite(t) PROVE TypeOK'
  <2>1. hashes' = Append(hashes, held[t])
    BY <1>7 DEF WriteHash, WrittenHash, ResyncWrite
  <2>2. hashes' \in Seq(Nat) /\ hashes' # <<>>
    BY <2>1, AppendKeeps
  <2> QED BY <1>7, <2>2 DEF WriteHash, ResyncWrite, Finish, Goto
<1>8. ASSUME NEW t \in Threads, ClearMemory(t) \/ ResyncRead(t) PROVE TypeOK'
  <2>1. CASE ClearMemory(t)
    BY <2>1 DEF ClearMemory, AfterRotation, Goto
  <2>2. CASE ResyncRead(t)
    BY <1>0, <2>2 DEF ResyncRead, Goto
  <2> QED BY <1>8, <2>1, <2>2
<1>9. ASSUME NEW t \in Threads, RotationError(t) \/ RequestError(t) \/ CacheError(t)
                              \/ Crash(t)
      PROVE  TypeOK'
  <2>1. used' \in [DOMAIN Bound -> Nat]
    BY <1>9, UseType, Counted DEF RotationError, RequestError, CacheError, Crash
  <2>2. CASE CacheError(t)
    BY <2>1, <2>2 DEF CacheError, AfterDrop, Goto
  <2>3. CASE RotationError(t)
    <3>1. CASE \E from \in {"rotate", "hash"} : Goto(t, from, AfterRotation(t))
      BY <2>1, <2>3, <3>1 DEF RotationError, AfterRotation, Goto
    <3>2. CASE Goto(t, "clear", AfterRotation(t))
      BY <2>1, <2>3, <3>2 DEF RotationError, AfterRotation, Goto
    <3> QED BY <2>3, <3>1, <3>2 DEF RotationError
  <2>4. CASE RequestError(t)
    <3>1. CASE Finish(t, "memory", outcome[t])
      BY <2>1, <2>4, <3>1 DEF RequestError, Finish, Goto
    <3>2. CASE \E from \in {"select", "check", "syncHash"} : Finish(t, from, "error")
      BY <2>1, <2>4, <3>2 DEF RequestError, Finish, Goto
    <3> QED BY <2>4, <3>1, <3>2 DEF RequestError
  <2>5. CASE Crash(t)
    <3>1. Finish(t, pc[t], "lost") /\ UNCHANGED <<issued, kv, hashes, fails, lastFail,
            failures, stale, cache, job, typed, since, seen, brute, held>>
      BY <2>5 DEF Crash
    <3>2. pc' = [pc EXCEPT ![t] = "idle"] /\ outcome' = [outcome EXCEPT ![t] = "lost"]
      BY <3>1 DEF Finish, Goto
    <3> QED BY <2>1, <3>1, <3>2
  <2> QED BY <1>9, <2>2, <2>3, <2>4, <2>5
<1>10. CASE CacheExpires \/ TimePasses
  <2>1. CASE CacheExpires
    BY <2>1 DEF CacheExpires
  <2>2. CASE TimePasses
    <3>1. stale' \in Nat
      BY <2>2 DEF TimePasses
    <3> QED BY <2>2, <3>1 DEF TimePasses
  <2> QED BY <1>10, <2>1, <2>2
<1>11. CASE UNCHANGED vars
  BY <1>11 DEF vars
<1> QED BY <1>1, <1>2, <1>3, <1>4, <1>5, <1>6, <1>7, <1>8, <1>9, <1>10, <1>11
    DEF Next, Work

\* The stores, the cache and the threads keep their types, whatever the bounds.
THEOREM TypeCorrect == Spec => []TypeOK
  BY TypeInit, TypeStep, PTL DEF Spec

-----------------------------------------------------------------------------
(* A password in the database is in Vault *)

\* Some version of the secret holds p.
InVault(p) == \E v \in DOMAIN kv : kv[v] = p

\* Every password the database has held is a version of the secret.
HistoryInVault == \A i \in DOMAIN hashes : InVault(hashes[i])

\* What a rotation generated, or a resync read, is a version of the secret.
RecoveryInv ==
  /\ TypeOK
  /\ HistoryInVault
  /\ \A t \in Threads : InVault(held[t])

\* The provisioned password is in both stores and is what the threads hold.
LEMMA RecoveryInit == Init => RecoveryInv
<1> SUFFICES ASSUME Init PROVE RecoveryInv
  OBVIOUS
<1>1. TypeOK
  BY TypeInit
<1>2. kv = <<0>> /\ hashes = <<0>> /\ held = [t \in Threads |-> 0]
  BY DEF Init
<1>3. InVault(0)
  BY <1>2 DEF InVault
<1>4. \A i \in DOMAIN hashes : hashes[i] = 0
  BY <1>2
<1> QED BY <1>1, <1>2, <1>3, <1>4 DEF RecoveryInv, HistoryInVault, InVault

\* What a step does to the two stores and to the password a thread holds.
LEMMA StoreChanges ==
  ASSUME TypeOK, [Next]_vars
  PROVE  \/ UNCHANGED <<kv, hashes, held>>
         \/ \E t \in Threads :
              /\ kv' = Append(kv, NewPassword) /\ hashes' = hashes
              /\ held' = [held EXCEPT ![t] = NewPassword]
         \/ \E t \in Threads :
              /\ hashes' = Append(hashes, held[t]) /\ UNCHANGED <<kv, held>>
         \/ \E t \in Threads :
              /\ held' = [held EXCEPT ![t] = Final(kv)] /\ UNCHANGED <<kv, hashes>>
<1> USE DEF dbVars, callVars
<1>1. ASSUME NEW t \in Threads, StoreSecret(t) \/ ResyncCreate(t)
      PROVE  /\ kv' = Append(kv, NewPassword) /\ hashes' = hashes
             /\ held' = [held EXCEPT ![t] = NewPassword]
  BY <1>1 DEF StoreSecret, ResyncCreate, Generate, Stored
<1>2. ASSUME NEW t \in Threads, WriteHash(t) \/ ResyncWrite(t)
      PROVE  hashes' = Append(hashes, held[t]) /\ UNCHANGED <<kv, held>>
  BY <1>2 DEF WriteHash, WrittenHash, ResyncWrite
<1>3. ASSUME NEW t \in Threads, ResyncRead(t)
      PROVE  held' = [held EXCEPT ![t] = Final(kv)] /\ UNCHANGED <<kv, hashes>>
  BY <1>3 DEF ResyncRead
<1>4. ASSUME NEW t \in Threads, Request(t) \/ BeginRotation(t) \/ BeginResync(t)
      PROVE  UNCHANGED <<kv, hashes, held>>
  BY <1>4 DEF Request, BeginRotation, BeginResync, Start
<1>5. ASSUME NEW t \in Threads,
             \/ Lookup(t) \/ Select(t) \/ Fill(t) \/ AcceptLogin(t) \/ DenyLogin(t)
             \/ AcceptSimulation(t) \/ DenySimulation(t) \/ UpdateMemory(t) \/ Drop(t)
             \/ ClearMemory(t)
      PROVE  UNCHANGED <<kv, hashes, held>>
  BY <1>5 DEF Lookup, Select, Fill, AcceptLogin, DenyLogin, AcceptSimulation,
     DenySimulation, UpdateMemory, Drop, ClearMemory
<1>6. ASSUME NEW t \in Threads,
             RotationError(t) \/ RequestError(t) \/ CacheError(t) \/ Crash(t)
      PROVE  UNCHANGED <<kv, hashes, held>>
  BY <1>6 DEF RotationError, RequestError, CacheError, Crash
<1>7. CacheExpires \/ TimePasses \/ UNCHANGED vars => UNCHANGED <<kv, hashes, held>>
  BY DEF CacheExpires, TimePasses, vars
<1> QED BY <1>1, <1>2, <1>3, <1>4, <1>5, <1>6, <1>7 DEF Next, Work

\* One step adds versions and never loses one, so what was recoverable stays so.
LEMMA RecoveryStep == RecoveryInv /\ [Next]_vars => RecoveryInv'
<1> SUFFICES ASSUME RecoveryInv, [Next]_vars PROVE RecoveryInv'
  OBVIOUS
<1>0. /\ TypeOK' /\ kv \in Seq(Nat) /\ kv # <<>> /\ hashes \in Seq(Nat)
      /\ held \in [Threads -> Nat] /\ NewPassword \in Nat
  <2>1. TypeOK
    BY DEF RecoveryInv
  <2>2. TypeOK'
    BY <2>1, TypeStep
  <2>3. NewPassword \in Nat
    BY <2>1 DEF TypeOK, NewPassword
  <2>4. /\ kv \in Seq(Nat) /\ kv # <<>> /\ hashes \in Seq(Nat)
        /\ held \in [Threads -> Nat]
    BY <2>1 DEF TypeOK
  <2> QED BY <2>2, <2>3, <2>4
<1>1. CASE UNCHANGED <<kv, hashes, held>>
  BY <1>0, <1>1 DEF RecoveryInv, HistoryInVault, InVault
<1>2. ASSUME NEW t \in Threads,
             kv' = Append(kv, NewPassword), hashes' = hashes,
             held' = [held EXCEPT ![t] = NewPassword]
      PROVE  RecoveryInv'
  <2>1. \A p : InVault(p) => \E v \in DOMAIN kv' : kv'[v] = p
    BY <1>0, <1>2, AppendKeeps DEF InVault
  <2>2. \E v \in DOMAIN kv' : kv'[v] = NewPassword
    <3>1. kv'[Len(kv) + 1] = NewPassword /\ Len(kv) + 1 \in DOMAIN kv'
      BY <1>0, <1>2, AppendKeeps
    <3> QED BY <3>1
  <2>3. \A s \in Threads : InVault(held[s])'
    BY <1>0, <1>2, <2>1, <2>2 DEF RecoveryInv, InVault
  <2>4. HistoryInVault'
    BY <1>2, <2>1 DEF RecoveryInv, HistoryInVault, InVault
  <2> QED BY <1>0, <2>3, <2>4 DEF RecoveryInv
<1>3. ASSUME NEW t \in Threads, hashes' = Append(hashes, held[t]), UNCHANGED <<kv, held>>
      PROVE  RecoveryInv'
  <2>1. \A i \in DOMAIN hashes' : InVault(hashes'[i])
    <3>1. ASSUME NEW i \in DOMAIN hashes' PROVE InVault(hashes'[i])
      <4>1. held[t] \in Nat
        BY <1>0
      <4>2. CASE i \in DOMAIN hashes
        BY <1>0, <1>3, <4>1, <4>2, AppendKeeps
           DEF RecoveryInv, HistoryInVault, InVault
      <4>3. CASE i = Len(hashes) + 1
        BY <1>0, <1>3, <4>1, <4>3, AppendKeeps DEF RecoveryInv
      <4> QED BY <1>0, <1>3, <4>1, <4>2, <4>3, AppendKeeps
    <3> QED BY <3>1
  <2> QED BY <1>0, <1>3, <2>1 DEF RecoveryInv, HistoryInVault, InVault
<1>4. ASSUME NEW t \in Threads, held' = [held EXCEPT ![t] = Final(kv)],
             UNCHANGED <<kv, hashes>>
      PROVE  RecoveryInv'
  <2>1. InVault(Final(kv))
    BY <1>0, FinalType DEF InVault, Final
  <2> QED BY <1>0, <1>4, <2>1 DEF RecoveryInv, HistoryInVault, InVault
<1> QED BY <1>1, <1>2, <1>3, <1>4, StoreChanges DEF RecoveryInv

\* The password that the portal accepts can always be read back from Vault: any
\* rotations, resyncs, requests, failures and crashes on any number of pods.
THEOREM PasswordsAreRecoverable == Spec => []PasswordRecoverable
<1>1. RecoveryInv => PasswordRecoverable
  <2> SUFFICES ASSUME RecoveryInv PROVE InVault(Final(hashes))
    BY DEF PasswordRecoverable, InVault
  <2>1. hashes \in Seq(Nat) /\ hashes # <<>>
    BY DEF RecoveryInv, TypeOK
  <2> QED BY <2>1, FinalType DEF RecoveryInv, HistoryInVault, Final
<1> QED BY <1>1, RecoveryInit, RecoveryStep, PTL DEF Spec

-----------------------------------------------------------------------------
(* Without the user cache, an old password is refused                      *)
(*                                                                         *)
(* A request compares with the row it read after it arrived; that row was  *)
(* current then.  The cache is what breaks this: see OldPasswordRefused    *)
(* with CacheOn = TRUE.                                                    *)

Asking == {"login", "simulate"}

\* PostgreSQL held p at some moment since the request of t arrived.
HeldSince(t, p) == \E i \in since[t] .. Len(hashes) : hashes[i] = p

\* What thread t knows, and has answered, is backed by the database.
ServesCurrent(t) ==
  /\ since[t] <= Len(hashes)
  /\ pc[t] # "fill"
  /\ pc[t] = "check" => HeldSince(t, seen[t].hash)
  /\ pc[t] \in {"lookup", "select", "check"} => ~ brute[t]
  /\ pc[t] = "memory" => job[t] = "simulate"
  /\ job[t] = "login" /\ pc[t] = "drop" /\ brute[t] => outcome[t] = "ok"
  /\ job[t] \in Asking /\ pc[t] \in {"rotate", "hash", "clear", "memory"} =>
       outcome[t] \in {"ok", "rotated"}
  /\ job[t] \in Asking /\ outcome[t] \in {"ok", "rotated"} => HeldSince(t, typed[t])

ServingInv ==
  /\ TypeOK
  /\ cache = {}
  /\ \A t \in Threads : ServesCurrent(t)

\* Nothing has been asked or cached initially.
LEMMA ServingInit == Init => ServingInv
<1> SUFFICES ASSUME Init PROVE ServingInv
  OBVIOUS
<1>1. TypeOK
  BY TypeInit
<1>2. Len(hashes) = 1
  BY DEF Init
<1> QED BY <1>1, <1>2 DEF Init, ServingInv, ServesCurrent, Asking

\* The database forgets no password it has held: a request that was in order stays
\* in order while others run.
LEMMA HeldSinceStays ==
  ASSUME TypeOK, NEW n \in Nat, hashes' = hashes \/ hashes' = Append(hashes, n),
         NEW t \in Threads, since'[t] = since[t], NEW p, HeldSince(t, p)
  PROVE  HeldSince(t, p)'
<1>1. hashes \in Seq(Nat) /\ since[t] \in Nat \ {0}
  BY DEF TypeOK
<1>2. CASE hashes' = hashes
  BY <1>2 DEF HeldSince
<1>3. CASE hashes' = Append(hashes, n)
  <2>1. PICK i \in since[t] .. Len(hashes) : hashes[i] = p
    BY DEF HeldSince
  <2>2. i \in DOMAIN hashes /\ i \in since[t] .. Len(hashes) + 1
    BY <1>1, <2>1
  <2>3. hashes'[i] = p /\ Len(hashes') = Len(hashes) + 1
    BY <1>1, <1>3, <2>1, <2>2, AppendKeeps
  <2> QED BY <2>2, <2>3 DEF HeldSince
<1> QED BY <1>2, <1>3

\* What a step leaves of a thread: everything its requests are judged by.
Untouched(t) ==
  /\ since'[t] = since[t] /\ pc'[t] = pc[t] /\ seen'[t] = seen[t]
  /\ brute'[t] = brute[t] /\ job'[t] = job[t] /\ outcome'[t] = outcome[t]
  /\ typed'[t] = typed[t]

\* A thread that a step does not touch keeps serving what the database held.
LEMMA UntouchedServes ==
  ASSUME TypeOK, NEW n \in Nat, hashes' = hashes \/ hashes' = Append(hashes, n),
         NEW t \in Threads, Untouched(t), ServesCurrent(t)
  PROVE  ServesCurrent(t)'
<1>1. Len(hashes) \in Nat /\ hashes \in Seq(Nat) /\ since[t] \in Nat \ {0}
  BY DEF TypeOK
<1>2. since'[t] <= Len(hashes')
  <2>1. Len(hashes') \in {Len(hashes), Len(hashes) + 1}
    BY <1>1, AppendKeeps
  <2> QED BY <1>1, <2>1 DEF ServesCurrent, Untouched
<1>3. pc'[t] = "check" => HeldSince(t, seen[t].hash)'
  <2> SUFFICES ASSUME pc[t] = "check" PROVE HeldSince(t, seen[t].hash)'
    BY DEF Untouched
  <2>1. PICK h : h = seen[t].hash
    OBVIOUS
  <2>2. HeldSince(t, h)
    BY <2>1 DEF ServesCurrent
  <2>3. HeldSince(t, h)'
    BY <2>2, HeldSinceStays DEF Untouched
  <2> QED BY <2>1, <2>3 DEF HeldSince, Untouched
<1>4. job'[t] \in Asking /\ outcome'[t] \in {"ok", "rotated"} => HeldSince(t, typed[t])'
  <2> SUFFICES ASSUME job[t] \in Asking, outcome[t] \in {"ok", "rotated"}
               PROVE  HeldSince(t, typed[t])'
    BY DEF Untouched
  <2>1. PICK p : p = typed[t]
    OBVIOUS
  <2>2. HeldSince(t, p)
    BY <2>1 DEF ServesCurrent
  <2>3. HeldSince(t, p)'
    BY <2>2, HeldSinceStays DEF Untouched
  <2> QED BY <2>1, <2>3 DEF HeldSince, Untouched
<1> QED BY <1>2, <1>3, <1>4 DEF ServesCurrent, Untouched

NoCache == CacheOn = FALSE

\* What a step changes, when it concerns thread t only.
Local(t) ==
  /\ cache' = {}
  /\ \E n \in Nat : hashes' = hashes \/ hashes' = Append(hashes, n)
  /\ \A s \in Threads \ {t} : Untouched(s)

\* A request, a rotation or a resync that starts has answered nothing yet.
LEMMA StartServes ==
  ASSUME ServingInv, NEW t \in Threads, Request(t) \/ BeginRotation(t) \/ BeginResync(t)
  PROVE  Local(t) /\ ServesCurrent(t)'
<1> USE DEF dbVars, callVars, Asking
<1>0. /\ TypeOK /\ cache = {} /\ ServesCurrent(t)
  BY DEF ServingInv
<1>1. CASE Request(t)
  <2>1. /\ cache' = {} /\ hashes' = hashes /\ Len(hashes) \in Nat
        /\ \A s \in Threads \ {t} : Untouched(s)
    BY <1>0, <1>1 DEF Request, Start, Goto, Untouched, TypeOK
  <2>2. /\ since'[t] = Len(hashes) /\ pc'[t] = "lookup" /\ brute'[t] = FALSE
        /\ outcome'[t] = "none"
    BY <1>0, <1>1 DEF Request, Start, Goto, TypeOK
  <2> QED BY <2>1, <2>2 DEF Local, ServesCurrent
<1>2. CASE BeginRotation(t)
  BY <1>0, <1>2 DEF BeginRotation, Start, Goto, Local, Untouched, ServesCurrent, TypeOK
<1>3. CASE BeginResync(t)
  BY <1>0, <1>3 DEF BeginResync, Start, Goto, Local, Untouched, ServesCurrent, TypeOK
<1> QED BY <1>1, <1>2, <1>3

\* Without a cache, a request judges the password by a row read after it arrived.
LEMMA RequestServes ==
  ASSUME NoCache, ServingInv, NEW t \in Threads,
         \/ Lookup(t) \/ Select(t) \/ Fill(t) \/ AcceptLogin(t) \/ DenyLogin(t)
         \/ AcceptSimulation(t) \/ DenySimulation(t) \/ UpdateMemory(t) \/ Drop(t)
  PROVE  Local(t) /\ ServesCurrent(t)'
<1> USE DEF dbVars, callVars, Asking, Goto, Local, Untouched
<1>0. /\ TypeOK /\ cache = {} /\ ServesCurrent(t)
  BY DEF ServingInv
<1>1. CASE Lookup(t)
  BY <1>0, <1>1 DEF Lookup, ServesCurrent, TypeOK, HeldSince
<1>2. CASE Select(t)
  <2>1. HeldSince(t, Final(hashes))
    BY <1>0 DEF HeldSince, Final, ServesCurrent, TypeOK
  <2> QED BY <1>0, <1>2, <2>1
          DEF Select, NoCache, CurrentRow, ServesCurrent, TypeOK, HeldSince
<1>3. CASE Fill(t)
  BY <1>0, <1>3 DEF Fill, ServesCurrent
<1>4. CASE AcceptLogin(t)
  BY <1>0, <1>4 DEF AcceptLogin, Matches, ServesCurrent, TypeOK, HeldSince
<1>5. CASE DenyLogin(t)
  BY <1>0, <1>5 DEF DenyLogin, ServesCurrent, TypeOK, HeldSince
<1>6. CASE AcceptSimulation(t)
  BY <1>0, <1>6 DEF AcceptSimulation, Matches, ServesCurrent, TypeOK, HeldSince
<1>7. CASE DenySimulation(t)
  BY <1>0, <1>7 DEF DenySimulation, Finish, ServesCurrent, TypeOK, HeldSince
<1>8. CASE UpdateMemory(t)
  BY <1>0, <1>8 DEF UpdateMemory, ServesCurrent, TypeOK, HeldSince
<1>9. CASE Drop(t)
  <2>1. CASE job[t] = "login" /\ brute[t]
    <3>1. outcome[t] = "ok" /\ pc'[t] = "rotate"
      BY <1>0, <1>9, <2>1 DEF Drop, AfterDrop, ServesCurrent, TypeOK
    <3> QED BY <1>0, <1>9, <3>1 DEF Drop, ServesCurrent, TypeOK, HeldSince
  <2>2. CASE ~ (job[t] = "login" /\ brute[t])
    <3>1. pc'[t] = "idle"
      BY <1>0, <1>9, <2>2 DEF Drop, AfterDrop, TypeOK
    <3> QED BY <1>0, <1>9, <3>1 DEF Drop, ServesCurrent, TypeOK, HeldSince
  <2> QED BY <2>1, <2>2
<1> QED BY <1>1, <1>2, <1>3, <1>4, <1>5, <1>6, <1>7, <1>8, <1>9

\* A rotation or a resync adds to what the database held, and tells a request it
\* was served only if it was.
LEMMA RotationServes ==
  ASSUME ServingInv, NEW t \in Threads,
         \/ StoreSecret(t) \/ WriteHash(t) \/ ClearMemory(t)
         \/ ResyncRead(t) \/ ResyncCreate(t) \/ ResyncWrite(t)
  PROVE  Local(t) /\ ServesCurrent(t)'
<1> USE DEF dbVars, callVars, Asking, Goto
<1>0. /\ TypeOK /\ cache = {} /\ ServesCurrent(t)
  BY DEF ServingInv
<1>1. CASE StoreSecret(t)
  BY <1>0, <1>1 DEF StoreSecret, Local, Untouched, ServesCurrent, TypeOK, HeldSince
<1>2. CASE WriteHash(t) \/ ResyncWrite(t)
  <2>1. held[t] \in Nat /\ hashes' = Append(hashes, held[t])
    BY <1>0, <1>2 DEF WriteHash, WrittenHash, ResyncWrite, TypeOK
  <2>2. Local(t)
    BY <1>0, <1>2, <2>1 DEF WriteHash, ResyncWrite, Finish, Local, Untouched, TypeOK
  <2>3. since'[t] = since[t] /\ job'[t] = job[t] /\ typed'[t] = typed[t]
    BY <1>2 DEF WriteHash, ResyncWrite
  <2>4. since'[t] <= Len(hashes')
    BY <1>0, <2>1, <2>3, AppendKeeps DEF ServesCurrent, TypeOK
  <2>5. HeldSince(t, typed[t]) => HeldSince(t, typed[t])'
    <3>1. ASSUME NEW p, p = typed[t], HeldSince(t, p) PROVE HeldSince(t, p)'
      BY <1>0, <2>1, <2>3, <3>1, HeldSinceStays
    <3> QED BY <2>3, <3>1 DEF HeldSince
  <2>6. \/ pc'[t] = "clear" /\ pc[t] = "hash" /\ outcome'[t] = outcome[t]
        \/ pc'[t] = "idle" /\ outcome'[t] = "synced"
    BY <1>0, <1>2 DEF WriteHash, ResyncWrite, Finish, TypeOK
  <2> QED BY <1>0, <2>2, <2>3, <2>4, <2>5, <2>6 DEF ServesCurrent
<1>3. CASE ClearMemory(t)
  BY <1>0, <1>3 DEF ClearMemory, AfterRotation, Local, Untouched, ServesCurrent, TypeOK,
     HeldSince
<1>4. CASE ResyncRead(t) \/ ResyncCreate(t)
  BY <1>0, <1>4 DEF ResyncRead, ResyncCreate, Local, Untouched, ServesCurrent, TypeOK,
     HeldSince
<1> QED BY <1>1, <1>2, <1>3, <1>4

\* An error or a crash serves nobody who was not served before.
LEMMA FaultServes ==
  ASSUME NoCache, ServingInv, NEW t \in Threads,
         RotationError(t) \/ RequestError(t) \/ CacheError(t) \/ Crash(t)
  PROVE  Local(t) /\ ServesCurrent(t)'
<1> USE DEF dbVars, callVars, Asking, Goto, Finish, Local, Untouched
<1>0. /\ TypeOK /\ cache = {} /\ ServesCurrent(t)
  BY DEF ServingInv
<1>1. CASE RotationError(t)
  BY <1>0, <1>1 DEF RotationError, AfterRotation, ServesCurrent, TypeOK, HeldSince
<1>2. CASE RequestError(t)
  BY <1>0, <1>2 DEF RequestError, ServesCurrent, TypeOK, HeldSince
<1>3. CASE Crash(t)
  BY <1>0, <1>3 DEF Crash, ServesCurrent, TypeOK, HeldSince
<1>4. CASE CacheError(t)
  BY <1>4 DEF CacheError, NoCache
<1> QED BY <1>1, <1>2, <1>3, <1>4

\* No step makes a thread serve a password that the database did not hold.
LEMMA ServingStep == NoCache /\ ServingInv /\ [Next]_vars => ServingInv'
<1> SUFFICES ASSUME NoCache, ServingInv, [Next]_vars PROVE ServingInv'
  OBVIOUS
<1>0. TypeOK /\ TypeOK' /\ cache = {}
  BY TypeStep DEF ServingInv
<1>1. ASSUME NEW t \in Threads, Local(t), ServesCurrent(t)' PROVE ServingInv'
  <2>1. PICK n \in Nat : hashes' = hashes \/ hashes' = Append(hashes, n)
    BY <1>1 DEF Local
  <2>2. ASSUME NEW s \in Threads \ {t} PROVE ServesCurrent(s)'
    <3>1. Untouched(s) /\ ServesCurrent(s)
      BY <1>1 DEF Local, ServingInv
    <3> QED BY <1>0, <2>1, <3>1, UntouchedServes
  <2>3. cache' = {}
    BY <1>1 DEF Local
  <2> QED BY <1>0, <1>1, <2>2, <2>3 DEF ServingInv
<1>2. CASE \E t \in Threads : Local(t) /\ ServesCurrent(t)'
  BY <1>1, <1>2
<1>3. CASE CacheExpires \/ TimePasses \/ UNCHANGED vars
  <2>1. /\ UNCHANGED <<hashes, since, pc, seen, brute, job, outcome, typed>>
        /\ cache' = {}
    BY <1>0, <1>3 DEF CacheExpires, TimePasses, vars, dbVars, callVars
  <2>2. \A t \in Threads : ServesCurrent(t)'
    BY <2>1 DEF ServingInv, ServesCurrent, HeldSince
  <2> QED BY <1>0, <2>1, <2>2 DEF ServingInv
<1> QED BY <1>2, <1>3, StartServes, RequestServes, RotationServes, FaultServes
        DEF Next, Work

\* Without Redis, no login or simulation succeeds with a password that was already
\* replaced in PostgreSQL when the request arrived, whatever overlaps it.
THEOREM ReplacedPasswordsAreRefused ==
  ASSUME NoCache PROVE Spec => []OldPasswordRefused
<1>1. ServingInv => OldPasswordRefused
  BY DEF ServingInv, ServesCurrent, OldPasswordRefused, Asking, HeldSince
<1>2. ServingInv /\ [Next]_vars => ServingInv'
  BY ServingStep
<1> QED BY <1>1, <1>2, ServingInit, PTL DEF Spec

-----------------------------------------------------------------------------
(* The password that a brute-force login or a simulation used is gone      *)
(*                                                                         *)
(* Passwords are generated once and written to the database at most once,  *)
(* by the rotation that generated them; a request rotates only after its   *)
(* password matched a row, so that password is in the database's past by   *)
(* the time its caller is told.  A resync breaks this: it writes again     *)
(* what it read from Vault.                                                *)

NoResync == used["resync"] = 0

\* The database has held p; it has held it and something else since.
WasHash(p)  == \E i \in DOMAIN hashes : hashes[i] = p
Replaced(p) == \E i \in 1 .. Len(hashes) - 1 : hashes[i] = p

\* Vault's last version is the last password generated; the database holds no
\* password twice and none that was not generated.
StoreOrder ==
  /\ Final(kv) = issued
  /\ \A i \in DOMAIN hashes : hashes[i] <= issued
  /\ \A i, j \in DOMAIN hashes : hashes[i] = hashes[j] => i = j

\* Rotations that are to write their hash hold different passwords.
HeldApart ==
  \A s, t \in Threads :
    pc[s] = "hash" /\ pc[t] = "hash" /\ held[s] = held[t] => s = t

\* What a thread knows: the password it is to write is new, the rows it reads are
\* the database's, and the password of its request is on its way out.
Guarded(t) ==
  /\ pc[t] \notin {"readSecret", "syncHash"}
  /\ pc[t] = "hash" => held[t] <= issued /\ ~ WasHash(held[t])
  /\ WasHash(seen[t].hash)
  /\ job[t] \in Asking =>
       /\ outcome[t] \in {"ok", "rotated"} \/ brute[t] \/ pc[t] \in {"rotate", "hash", "clear"}
            => WasHash(typed[t])
       /\ pc[t] = "hash" => typed[t] < issued
       /\ pc[t] = "clear" \/ outcome[t] = "rotated"
            => typed[t] < issued /\ Replaced(typed[t])

Lock ==
  /\ StoreOrder
  /\ HeldApart
  /\ \A row \in cache : WasHash(row.hash)
  /\ \A t \in Threads : Guarded(t)

LockInv == TypeOK /\ (NoResync => Lock)

\* Initially both stores hold the provisioned password and nobody asks.
LEMMA LockInit == Init => LockInv
<1> SUFFICES ASSUME Init PROVE TypeOK /\ Lock
  BY DEF LockInv
<1>1. TypeOK
  BY TypeInit
<1>2. /\ kv = <<0>> /\ hashes = <<0>> /\ issued = 0 /\ cache = {}
      /\ WasHash(0) /\ DOMAIN hashes = {1}
  BY DEF Init, WasHash
<1>3. StoreOrder /\ HeldApart
  BY <1>2 DEF StoreOrder, HeldApart, Final, Init
<1>4. \A t \in Threads : Guarded(t)
  BY <1>2 DEF Guarded, Init, Asking
<1> QED BY <1>1, <1>2, <1>3, <1>4 DEF Lock

\* The step leaves the stores and the passwords held alone.
Quiet == UNCHANGED <<issued, kv, hashes, held>>

\* No step takes a resync back.
LEMMA ResyncsStay ==
  ASSUME TypeOK, [Next]_vars, NoResync'
  PROVE  NoResync /\ ~ \E t \in Threads : BeginResync(t)
<1>0. used \in [DOMAIN Bound -> Nat] /\ "resync" \in DOMAIN Bound
  BY Counted DEF TypeOK, Jobs
<1>1. ASSUME NEW what \in DOMAIN Bound, Use(what)
      PROVE  used["resync"] = 0 /\ what # "resync"
  BY <1>0, <1>1 DEF Use, NoResync
<1>2. ASSUME NEW t \in Threads, Request(t) \/ BeginRotation(t) \/ BeginResync(t)
      PROVE  \E j \in Jobs : Use(j) /\ (BeginResync(t) => j = "resync")
  BY <1>2 DEF Request, BeginRotation, BeginResync, Start, Jobs
<1>3. ASSUME NEW t \in Threads,
             ResyncCreate(t) \/ RotationError(t) \/ RequestError(t) \/ CacheError(t)
             \/ Crash(t)
      PROVE  Use("fault")
  BY <1>3 DEF ResyncCreate, RotationError, RequestError, CacheError, Crash
<1>4. ASSUME CacheExpires \/ TimePasses \/ (\E t \in Threads : Work(t)) \/ UNCHANGED vars
      PROVE  UNCHANGED used
  BY <1>4 DEF CacheExpires, TimePasses, Work, Lookup, Select, Fill, AcceptLogin,
     DenyLogin, AcceptSimulation, DenySimulation, UpdateMemory, Drop, StoreSecret,
     WriteHash, ClearMemory, ResyncRead, ResyncWrite, vars
<1>5. CASE \E t \in Threads : Request(t) \/ BeginRotation(t) \/ BeginResync(t)
  BY <1>1, <1>2, <1>5, Counted DEF NoResync
<1>6. CASE \E t \in Threads : ResyncCreate(t) \/ RotationError(t) \/ RequestError(t)
                               \/ CacheError(t) \/ Crash(t)
  <2>1. Use("fault") /\ "fault" \in DOMAIN Bound
    BY <1>3, <1>6, Counted
  <2>2. \A t \in Threads : ~ BeginResync(t)
    <3>1. ASSUME NEW t \in Threads, BeginResync(t) PROVE FALSE
      <4>1. used' = [used EXCEPT !["resync"] = @ + 1] /\ used["resync"] \in Nat
        BY <1>0, <3>1 DEF BeginResync, Start, Use
      <4> QED BY <1>0, <4>1 DEF NoResync
    <3> QED BY <3>1
  <2> QED BY <1>1, <2>1, <2>2 DEF NoResync
<1>7. CASE UNCHANGED used
  <2>1. ASSUME NEW t \in Threads, BeginResync(t) PROVE FALSE
    BY <1>0, <1>7, <2>1 DEF BeginResync, Start, Use
  <2> QED BY <1>7, <2>1 DEF NoResync
<1> QED BY <1>4, <1>5, <1>6, <1>7 DEF Next

\* What the database has held it goes on having held, and what is no longer current
\* does not become so by a later write.
LEMMA HistoryGrows ==
  ASSUME hashes \in Seq(Nat), NEW n \in Nat,
         hashes' = hashes \/ hashes' = Append(hashes, n), NEW p
  PROVE  /\ WasHash(p) => WasHash(p)'
         /\ Replaced(p) => Replaced(p)'
         /\ WasHash(p) /\ hashes' = Append(hashes, n) => Replaced(p)'
         /\ WasHash(p)' => WasHash(p) \/ (hashes' = Append(hashes, n) /\ p = n)
<1>1. CASE hashes' = hashes
  <2>1. hashes' # Append(hashes, n)
    <3>1. Len(Append(hashes, n)) # Len(hashes)
      BY AppendKeeps
    <3> QED BY <1>1, <3>1
  <2> QED BY <1>1, <2>1 DEF WasHash, Replaced
<1>2. CASE hashes' = Append(hashes, n)
  <2>1. /\ DOMAIN hashes = 1 .. Len(hashes) /\ Len(hashes) \in Nat
        /\ Len(hashes') = Len(hashes) + 1
        /\ DOMAIN hashes' = 1 .. Len(hashes) + 1
        /\ \A i \in 1 .. Len(hashes) : hashes'[i] = hashes[i]
        /\ hashes'[Len(hashes) + 1] = n
    BY <1>2
  <2> QED BY <1>2, <2>1 DEF WasHash, Replaced
<1> QED BY <1>1, <1>2

\* Every step but these two leaves the stores and the held passwords alone.
LEMMA StoreMoves ==
  ASSUME TypeOK, Lock, NoResync', [Next]_vars
  PROVE  \/ Quiet
         \/ \E t \in Threads : StoreSecret(t) \/ WriteHash(t)
<1> USE DEF dbVars, callVars
<1>1. ASSUME NEW t \in Threads, ResyncRead(t) \/ ResyncCreate(t) \/ ResyncWrite(t)
      PROVE  FALSE
  BY <1>1 DEF ResyncRead, ResyncCreate, ResyncWrite, Finish, Goto, Lock, Guarded
<1>2. ASSUME NEW t \in Threads,
             \/ Request(t) \/ BeginRotation(t) \/ BeginResync(t)
             \/ Lookup(t) \/ Select(t) \/ Fill(t) \/ AcceptLogin(t) \/ DenyLogin(t)
             \/ AcceptSimulation(t) \/ DenySimulation(t) \/ UpdateMemory(t) \/ Drop(t)
             \/ ClearMemory(t)
             \/ RotationError(t) \/ RequestError(t) \/ CacheError(t) \/ Crash(t)
      PROVE  Quiet
  BY <1>2 DEF Quiet, Request, BeginRotation, BeginResync, Start, Lookup, Select, Fill,
     AcceptLogin, DenyLogin, AcceptSimulation, DenySimulation, UpdateMemory, Drop,
     ClearMemory, RotationError, RequestError, CacheError, Crash
<1>3. CacheExpires \/ TimePasses \/ UNCHANGED vars => Quiet
  BY DEF Quiet, CacheExpires, TimePasses, vars
<1> QED BY <1>1, <1>2, <1>3 DEF Next, Work

\* A quiet step of a thread: its own new state is guarded, a thread gets to its hash
\* by a rotation's first write only, and the cache gets rows that were read.
QuietMove(t) ==
  /\ \A s \in Threads \ {t} : Untouched(s)
  /\ pc'[t] # "hash" \/ pc[t] = "hash"
  /\ cache' \subseteq cache \union {seen[t]}
  /\ Guarded(t)'

\* A job that starts knows nothing of the passwords.
LEMMA StartGuarded ==
  ASSUME TypeOK, Quiet, NEW t \in Threads, Guarded(t), Request(t) \/ BeginRotation(t)
  PROVE  QuietMove(t)
<1> USE DEF dbVars, callVars, Goto, Untouched, Asking, Quiet
<1>1. CASE Request(t)
  <2>1. /\ pc'[t] = "lookup" /\ outcome'[t] = "none" /\ brute'[t] = FALSE
        /\ seen' = seen /\ cache' = cache /\ hashes' = hashes
        /\ \A s \in Threads \ {t} : Untouched(s)
    BY <1>1 DEF Request, Start, TypeOK
  <2> QED BY <2>1 DEF QuietMove, Guarded, WasHash, Replaced
<1>2. CASE BeginRotation(t)
  <2>1. /\ pc'[t] = "rotate" /\ job'[t] = "rotate"
        /\ seen' = seen /\ cache' = cache /\ hashes' = hashes
        /\ \A s \in Threads \ {t} : Untouched(s)
    BY <1>2 DEF BeginRotation, Start, TypeOK
  <2> QED BY <2>1 DEF QuietMove, Guarded, WasHash, Replaced
<1> QED BY <1>1, <1>2

\* A request is accepted for a password that matches a row of the database.
LEMMA RequestGuarded ==
  ASSUME TypeOK, Lock, Quiet, NEW t \in Threads,
         \/ Lookup(t) \/ Select(t) \/ Fill(t) \/ AcceptLogin(t) \/ DenyLogin(t)
         \/ AcceptSimulation(t) \/ DenySimulation(t) \/ UpdateMemory(t) \/ Drop(t)
  PROVE  QuietMove(t)
<1> USE DEF dbVars, callVars, Goto, Untouched, Asking, Quiet, QuietMove
<1>0. Guarded(t) /\ \A row \in cache : WasHash(row.hash)
  BY DEF Lock
<1>1. \A p : (WasHash(p)' <=> WasHash(p)) /\ (Replaced(p)' <=> Replaced(p))
  BY DEF WasHash, Replaced
<1>2. CASE Lookup(t)
  <2>1. /\ \E row \in cache \union {seen[t]} : seen'[t] = row
        /\ pc'[t] \in {"check", "select"} /\ cache' = cache
        /\ UNCHANGED <<job, outcome, brute, typed>>
        /\ \A s \in Threads \ {t} : Untouched(s)
    BY <1>2 DEF Lookup, TypeOK
  <2> QED BY <1>0, <1>1, <2>1 DEF Guarded
<1>3. CASE Select(t)
  <2>1. WasHash(Final(hashes))
    <3>1. Len(hashes) \in DOMAIN hashes
      BY FinalType DEF TypeOK
    <3> QED BY <3>1 DEF WasHash, Final
  <2>2. /\ seen'[t].hash = Final(hashes)
        /\ pc'[t] \in {"check", "fill"} /\ cache' = cache
        /\ UNCHANGED <<job, outcome, brute, typed>>
        /\ \A s \in Threads \ {t} : Untouched(s)
    BY <1>3 DEF Select, TypeOK, CurrentRow
  <2> QED BY <1>0, <1>1, <2>1, <2>2 DEF Guarded
<1>4. CASE Fill(t)
  BY <1>0, <1>1, <1>4 DEF Fill, TypeOK, Guarded
<1>5. CASE AcceptLogin(t)
  <2>1. /\ typed[t] = seen[t].hash /\ pc'[t] = "drop" /\ outcome'[t] = "ok"
        /\ UNCHANGED <<job, typed, seen, cache>>
        /\ \A s \in Threads \ {t} : Untouched(s)
    BY <1>5 DEF AcceptLogin, Matches, TypeOK
  <2> QED BY <1>0, <1>1, <2>1 DEF Guarded
<1>6. CASE DenyLogin(t)
  <2>1. /\ pc'[t] = "drop" /\ outcome'[t] = "denied"
        /\ UNCHANGED <<job, typed, seen, cache, brute>>
        /\ \A s \in Threads \ {t} : Untouched(s)
    BY <1>6 DEF DenyLogin, TypeOK
  <2> QED BY <1>0, <1>1, <2>1 DEF Guarded
<1>7. CASE AcceptSimulation(t)
  <2>1. /\ typed[t] = seen[t].hash /\ pc'[t] \in {"rotate", "memory"} /\ outcome'[t] = "ok"
        /\ UNCHANGED <<job, typed, seen, cache, brute>>
        /\ \A s \in Threads \ {t} : Untouched(s)
    BY <1>7 DEF AcceptSimulation, Matches, TypeOK
  <2> QED BY <1>0, <1>1, <2>1 DEF Guarded
<1>8. CASE DenySimulation(t)
  <2>1. /\ pc'[t] = "idle" /\ outcome'[t] = "denied"
        /\ UNCHANGED <<job, typed, seen, cache, brute>>
        /\ \A s \in Threads \ {t} : Untouched(s)
    BY <1>8 DEF DenySimulation, Finish, TypeOK
  <2> QED BY <1>0, <1>1, <2>1 DEF Guarded
<1>9. CASE UpdateMemory(t)
  <2>1. /\ pc'[t] = "drop"
        /\ UNCHANGED <<job, outcome, typed, seen, cache, brute>>
        /\ \A s \in Threads \ {t} : Untouched(s)
    BY <1>9 DEF UpdateMemory, TypeOK
  <2> QED BY <1>0, <1>1, <2>1 DEF Guarded
<1>10. CASE Drop(t)
  <2>1. /\ pc'[t] = "idle" \/ (pc'[t] = "rotate" /\ brute[t])
        /\ cache' = {} /\ UNCHANGED <<job, outcome, typed, seen, brute>>
        /\ \A s \in Threads \ {t} : Untouched(s)
    BY <1>10 DEF Drop, AfterDrop, TypeOK
  <2> QED BY <1>0, <1>1, <2>1 DEF Guarded
<1> QED BY <1>2, <1>3, <1>4, <1>5, <1>6, <1>7, <1>8, <1>9, <1>10

\* A caller is told of a rotation only after both writes; an error tells it of none.
LEMMA EndGuarded ==
  ASSUME TypeOK, Lock, Quiet, NEW t \in Threads,
         \/ ClearMemory(t) \/ RotationError(t) \/ RequestError(t) \/ CacheError(t)
         \/ Crash(t)
  PROVE  QuietMove(t)
<1> USE DEF dbVars, callVars, Goto, Finish, Untouched, Asking, Quiet, QuietMove
<1>0. Guarded(t)
  BY DEF Lock
<1>1. \A p : (WasHash(p)' <=> WasHash(p)) /\ (Replaced(p)' <=> Replaced(p))
  BY DEF WasHash, Replaced
<1>2. /\ UNCHANGED <<job, typed, seen, cache, brute>>
      /\ \A s \in Threads \ {t} : Untouched(s)
  BY DEF ClearMemory, RotationError, RequestError, CacheError, Crash, TypeOK
<1>3. CASE ClearMemory(t)
  <2>1. pc[t] = "clear" /\ pc'[t] \in {"memory", "idle"} /\ outcome'[t] = "rotated"
    BY <1>3 DEF ClearMemory, AfterRotation, TypeOK
  <2> QED BY <1>0, <1>1, <1>2, <2>1 DEF Guarded
<1>4. CASE RotationError(t)
  <2>1. /\ pc'[t] \in {"memory", "idle"}
        /\ \/ outcome'[t] = outcome[t] \/ outcome'[t] = "failed"
           \/ pc[t] = "clear" /\ outcome'[t] = "rotated"
    BY <1>4 DEF RotationError, AfterRotation, TypeOK
  <2> QED BY <1>0, <1>1, <1>2, <2>1 DEF Guarded
<1>5. CASE RequestError(t) \/ Crash(t)
  <2>1. pc'[t] = "idle" /\ outcome'[t] \in {outcome[t], "error", "lost"}
    BY <1>5 DEF RequestError, Crash, TypeOK
  <2> QED BY <1>0, <1>1, <1>2, <2>1 DEF Guarded
<1>6. CASE CacheError(t)
  <2>1. /\ outcome' = outcome
        /\ pc'[t] \in {"select", "check", "idle"} \/ (pc'[t] = "rotate" /\ brute[t])
    BY <1>6 DEF CacheError, AfterDrop, TypeOK
  <2> QED BY <1>0, <1>1, <1>2, <2>1 DEF Guarded
<1> QED BY <1>3, <1>4, <1>5, <1>6

\* A quiet step keeps the lock.
LEMMA QuietLock ==
  ASSUME TypeOK, Lock, NoResync', Quiet, [Next]_vars
  PROVE  Lock'
<1>1. /\ StoreOrder'
      /\ \A p : (WasHash(p)' <=> WasHash(p)) /\ (Replaced(p)' <=> Replaced(p))
  BY DEF Quiet, Lock, StoreOrder, Final, WasHash, Replaced
<1>2. ASSUME NEW t \in Threads, QuietMove(t) PROVE Lock'
  <2>1. \A s \in Threads : Guarded(s)'
    <3>1. ASSUME NEW s \in Threads \ {t} PROVE Guarded(s)'
      <4>1. Untouched(s) /\ Guarded(s) /\ held'[s] = held[s] /\ issued' = issued
        BY <1>2 DEF QuietMove, Lock, Quiet
      <4> QED BY <1>1, <4>1 DEF Guarded, Untouched
    <3> QED BY <1>2, <3>1 DEF QuietMove
  <2>2. \A s \in Threads : pc'[s] = "hash" => pc[s] = "hash"
    BY <1>2 DEF QuietMove, Untouched
  <2>3. HeldApart'
    BY <2>2 DEF HeldApart, Quiet, Lock
  <2>4. \A row \in cache' : WasHash(row.hash)'
    BY <1>1, <1>2 DEF QuietMove, Lock, Guarded
  <2> QED BY <1>1, <2>1, <2>3, <2>4 DEF Lock
<1>3. CASE CacheExpires \/ TimePasses \/ UNCHANGED vars
  <2>1. /\ UNCHANGED <<pc, job, outcome, brute, typed, seen, held, issued>>
        /\ cache' \subseteq cache
    BY <1>3 DEF CacheExpires, TimePasses, vars, callVars
  <2>2. \A t \in Threads : Guarded(t)'
    BY <1>1, <2>1 DEF Lock, Guarded
  <2>3. HeldApart' /\ \A row \in cache' : WasHash(row.hash)'
    BY <1>1, <2>1 DEF Lock, HeldApart
  <2> QED BY <1>1, <2>2, <2>3 DEF Lock
<1>4. ASSUME NEW t \in Threads,
             StoreSecret(t) \/ WriteHash(t)
      PROVE  FALSE
  <2>1. issued' = issued /\ hashes' = hashes /\ issued \in Nat /\ hashes \in Seq(Nat)
        /\ held[t] \in Nat
    BY DEF Quiet, TypeOK
  <2>2. CASE StoreSecret(t)
    BY <2>1, <2>2 DEF StoreSecret, Generate
  <2>3. CASE WriteHash(t)
    <3>1. hashes' = Append(hashes, held[t])
      BY <2>3 DEF WriteHash, WrittenHash
    <3>2. Len(Append(hashes, held[t])) = Len(hashes) + 1 /\ Len(hashes) \in Nat
      BY <2>1, AppendKeeps
    <3> QED BY <2>1, <3>1, <3>2
  <2> QED BY <1>4, <2>2, <2>3
<1>5. ASSUME NEW t \in Threads, ResyncRead(t) \/ ResyncCreate(t) \/ ResyncWrite(t)
      PROVE  FALSE
  BY <1>5 DEF ResyncRead, ResyncCreate, ResyncWrite, Finish, Goto, Lock, Guarded
<1>6. ASSUME NEW t \in Threads, Request(t) \/ BeginRotation(t) PROVE Lock'
  <2>1. Guarded(t)
    BY DEF Lock
  <2> QED BY <1>2, <1>6, <2>1, StartGuarded
<1>7. ASSUME NEW t \in Threads,
             \/ Lookup(t) \/ Select(t) \/ Fill(t) \/ AcceptLogin(t) \/ DenyLogin(t)
             \/ AcceptSimulation(t) \/ DenySimulation(t) \/ UpdateMemory(t) \/ Drop(t)
      PROVE  Lock'
  BY <1>2, <1>7, RequestGuarded
<1>8. ASSUME NEW t \in Threads,
             \/ ClearMemory(t) \/ RotationError(t) \/ RequestError(t) \/ CacheError(t)
             \/ Crash(t)
      PROVE  Lock'
  BY <1>2, <1>8, EndGuarded
<1> QED BY <1>3, <1>4, <1>5, <1>6, <1>7, <1>8, ResyncsStay DEF Next, Work

\* A rotation's first write: the password is newer than all others.
LEMMA StoreLock ==
  ASSUME TypeOK, Lock, NEW t \in Threads, StoreSecret(t)
  PROVE  Lock'
<1> USE DEF dbVars, callVars, Goto
<1>0. /\ issued \in Nat /\ kv \in Seq(Nat) /\ hashes \in Seq(Nat)
      /\ held \in [Threads -> Nat] /\ pc[t] = "rotate"
      /\ \A s \in Threads : typed[s] \in Int
      /\ \A i \in DOMAIN hashes : hashes[i] \in Nat /\ hashes[i] <= issued
  BY DEF TypeOK, StoreSecret, Lock, StoreOrder
<1>1. /\ issued' = issued + 1 /\ kv' = Append(kv, issued + 1) /\ hashes' = hashes
      /\ held' = [held EXCEPT ![t] = issued + 1] /\ pc' = [pc EXCEPT ![t] = "hash"]
      /\ UNCHANGED <<cache, job, outcome, brute, typed, seen>>
  BY DEF StoreSecret, Generate, NewPassword, Stored
<1>2. \A p : (WasHash(p)' <=> WasHash(p)) /\ (Replaced(p)' <=> Replaced(p))
  BY <1>1 DEF WasHash, Replaced
<1>3. /\ pc'[t] = "hash" /\ held'[t] = issued + 1
      /\ \A s \in Threads \ {t} : pc'[s] = pc[s] /\ held'[s] = held[s]
  BY <1>0, <1>1 DEF TypeOK
<1>4. StoreOrder'
  <2>1. Final(kv') = issued + 1
    BY <1>0, <1>1, AppendKeeps DEF Final
  <2>2. Final(kv)' = Final(kv')
    BY DEF Final
  <2> QED BY <1>0, <1>1, <2>1, <2>2 DEF Lock, StoreOrder
<1>5. HeldApart'
  <2>1. \A s \in Threads \ {t} : pc[s] = "hash" => held[s] # issued + 1
    BY <1>0 DEF Lock, Guarded
  <2> QED BY <1>3, <2>1 DEF HeldApart, Lock
<1>6. ASSUME NEW s \in Threads, s # t PROVE Guarded(s)'
  <2>1. Guarded(s) /\ typed[s] \in Int /\ held[s] \in Nat
    BY <1>0 DEF Lock
  <2>2. pc'[s] = pc[s] /\ held'[s] = held[s]
    BY <1>3, <1>6
  <2> QED BY <1>0, <1>1, <1>2, <2>1, <2>2 DEF Guarded
<1>7. Guarded(t)'
  <2>1. Guarded(t) /\ typed[t] \in Int
    BY <1>0 DEF Lock
  <2>2. \A p \in Int : WasHash(p) => p < issued + 1
    BY <1>0 DEF WasHash
  <2>3. ~ WasHash(held[t])'
    BY <1>0, <1>1, <1>3 DEF WasHash
  <2>4. WasHash(seen[t].hash)' /\ (WasHash(typed[t])' <=> WasHash(typed[t]))
    BY <1>1, <2>1 DEF Guarded, WasHash
  <2>5. job[t] \in Asking => WasHash(typed[t]) /\ typed[t] < issued + 1
    BY <1>0, <2>1, <2>2 DEF Guarded
  <2>6. job[t] \in Asking /\ outcome[t] = "rotated" => Replaced(typed[t])'
    BY <1>1, <2>1 DEF Guarded, Replaced
  <2>7. /\ job'[t] = job[t] /\ outcome'[t] = outcome[t] /\ brute'[t] = brute[t]
        /\ typed'[t] = typed[t]
    BY <1>1
  <2> QED BY <1>0, <1>1, <1>3, <2>3, <2>4, <2>5, <2>6, <2>7 DEF Guarded
<1> QED BY <1>1, <1>2, <1>4, <1>5, <1>6, <1>7 DEF Lock

\* A rotation's second write: the password is one the database never held, so what
\* it held before is replaced.
LEMMA WriteLock ==
  ASSUME TypeOK, Lock, NEW t \in Threads, WriteHash(t)
  PROVE  Lock'
<1> USE DEF dbVars, callVars, Goto
<1>0. /\ issued \in Nat /\ hashes \in Seq(Nat)
      /\ held[t] \in Nat /\ pc[t] = "hash"
      /\ Guarded(t)
  BY DEF TypeOK, WriteHash, Lock
<1>1. /\ hashes' = Append(hashes, held[t]) /\ pc' = [pc EXCEPT ![t] = "clear"]
      /\ UNCHANGED <<issued, kv, held, cache, job, outcome, brute, typed, seen>>
  BY DEF WriteHash, WrittenHash
<1>2. \A p : /\ WasHash(p) => WasHash(p)'
             /\ Replaced(p) => Replaced(p)'
             /\ WasHash(p) => Replaced(p)'
             /\ WasHash(p)' => WasHash(p) \/ p = held[t]
  <2>1. ASSUME NEW n \in Nat, n = held[t], NEW p
        PROVE  /\ WasHash(p) => WasHash(p)'
               /\ Replaced(p) => Replaced(p)'
               /\ WasHash(p) => Replaced(p)'
               /\ WasHash(p)' => WasHash(p) \/ p = n
    <3>1. hashes' = Append(hashes, n)
      BY <1>1, <2>1
    <3> QED BY <1>0, <3>1, HistoryGrows
  <2> QED BY <1>0, <2>1
<1>3. /\ pc'[t] = "clear"
      /\ \A s \in Threads \ {t} : pc'[s] = pc[s]
  BY <1>1 DEF TypeOK
<1>4. StoreOrder'
  <2>1. /\ DOMAIN hashes = 1 .. Len(hashes) /\ Len(hashes) \in Nat
        /\ DOMAIN hashes' = 1 .. Len(hashes) + 1
        /\ \A i \in 1 .. Len(hashes) : hashes'[i] = hashes[i]
        /\ hashes'[Len(hashes) + 1] = held[t]
    BY <1>0, <1>1
  <2>2. \A i \in DOMAIN hashes : hashes[i] # held[t]
    BY <1>0 DEF Guarded, WasHash
  <2>3. \A i \in DOMAIN hashes' : hashes'[i] <= issued
    BY <1>0, <2>1 DEF Lock, StoreOrder, Guarded
  <2>4. \A i, j \in DOMAIN hashes' : hashes'[i] = hashes'[j] => i = j
    BY <2>1, <2>2 DEF Lock, StoreOrder
  <2>5. Final(kv)' = issued'
    BY <1>1 DEF Lock, StoreOrder, Final
  <2> QED BY <1>1, <2>3, <2>4, <2>5 DEF StoreOrder
<1>5. HeldApart'
  BY <1>1, <1>3 DEF HeldApart, Lock
<1>6. ASSUME NEW s \in Threads, s # t PROVE Guarded(s)'
  <2>1. Guarded(s) /\ pc'[s] = pc[s]
    BY <1>3, <1>6 DEF Lock
  <2>2. pc[s] = "hash" => ~ WasHash(held[s])'
    <3>1. pc[s] = "hash" => held[s] # held[t]
      BY <1>0, <1>6 DEF Lock, HeldApart
    <3>2. ASSUME NEW p, p = held[s] PROVE WasHash(p)' => WasHash(p) \/ p = held[t]
      BY <1>2
    <3>3. WasHash(held[s])' => WasHash(held[s]) \/ held[s] = held[t]
      BY <1>1, <3>2 DEF WasHash
    <3> QED BY <2>1, <3>1, <3>3 DEF Guarded
  <2>3. /\ WasHash(seen[s].hash) => WasHash(seen[s].hash)'
        /\ WasHash(typed[s]) => WasHash(typed[s])'
        /\ Replaced(typed[s]) => Replaced(typed[s])'
    BY <1>1, <1>2 DEF WasHash, Replaced
  <2> QED BY <1>1, <2>1, <2>2, <2>3 DEF Guarded
<1>7. Guarded(t)'
  <2>1. /\ WasHash(seen[t].hash) => WasHash(seen[t].hash)'
        /\ WasHash(typed[t]) => WasHash(typed[t])'
        /\ WasHash(typed[t]) => Replaced(typed[t])'
    BY <1>1, <1>2 DEF WasHash, Replaced
  <2>2. /\ job'[t] = job[t] /\ outcome'[t] = outcome[t] /\ brute'[t] = brute[t]
        /\ typed'[t] = typed[t] /\ issued' = issued
    BY <1>1
  <2>3. /\ WasHash(seen[t].hash)
        /\ job[t] \in Asking => WasHash(typed[t]) /\ typed[t] < issued
    BY <1>0 DEF Guarded
  <2> QED BY <1>3, <2>1, <2>2, <2>3 DEF Guarded
<1>8. \A row \in cache' : WasHash(row.hash)'
  BY <1>1, <1>2 DEF Lock
<1> QED BY <1>4, <1>5, <1>6, <1>7, <1>8 DEF Lock

\* Any threads, any faults and crashes, with or without the cache: as long as no pod
\* resynchronises, whoever is told of a rotation has used a password that neither
\* store accepts any more, now or later.
THEOREM UsedPasswordsAreGone == Spec => [](NoResync => LockoutHolds)
<1>1. LockInv /\ [Next]_vars => LockInv'
  <2> SUFFICES ASSUME LockInv, [Next]_vars, NoResync' PROVE Lock'
    BY TypeStep DEF LockInv
  <2>1. TypeOK /\ Lock
    BY ResyncsStay DEF LockInv
  <2> QED BY <2>1, StoreMoves, QuietLock, StoreLock, WriteLock
<1>2. LockInv => (NoResync => LockoutHolds)
  <2> SUFFICES ASSUME TypeOK, Lock, NEW t \in Threads,
                      job[t] \in Asking, outcome[t] = "rotated"
               PROVE  typed[t] \notin {Final(kv), Final(hashes)}
    BY DEF LockInv, LockoutHolds, Asking
  <2>1. typed[t] < issued /\ Replaced(typed[t]) /\ Final(kv) = issued
    BY DEF Lock, Guarded, StoreOrder
  <2>2. PICK i \in 1 .. Len(hashes) - 1 : hashes[i] = typed[t]
    BY <2>1 DEF Replaced
  <2>3. /\ i \in DOMAIN hashes /\ Len(hashes) \in DOMAIN hashes /\ i # Len(hashes)
        /\ issued \in Nat /\ typed[t] \in Int
    BY DEF TypeOK
  <2>4. hashes[Len(hashes)] # hashes[i]
    BY <2>3 DEF Lock, StoreOrder
  <2> QED BY <2>1, <2>2, <2>3, <2>4 DEF Final
<1> QED BY <1>1, <1>2, LockInit, PTL DEF Spec
=============================================================================
