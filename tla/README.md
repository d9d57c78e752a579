# A TLA+ verification of the hp-intern threat platform

The repository is a user-behaviour threat detection platform. Events reach a FastAPI
backend from Kafka, from a simulation stream and from a login portal; a scoring engine
decides ALLOW, STEP_UP_AUTH, BLOCK or CRITICAL_ALERT; threats are queued for an
administrator; an approval rotates credentials in HashiCorp Vault. State lives in
PostgreSQL, Redis, Elasticsearch, Vault and the memory of two backend pods
(`k8s/backend/backend-deployment.yaml`, `replicas: 2`).

This directory holds TLA+ modules translated from the source, TLC configurations that check
them on small instances, and TLAPS proofs that hold for every instance. `PROJECT.json` links
each definition to the lines it models. Paths below are relative to `src/`; those
without a directory are under `backend/app/`.

## 1. Inventory

| Component | State it keeps | Operations | Talks to |
|---|---|---|---|
| Admin alert queue (`admin_store.py`, `routes/admin.py`) | `hpe_admin_alerts`, `hpe_admin_audit_log`, `hpe_admin_stats` | `create_alert`, `approve_alert`, `reject_alert`, `set_rotation_result`, `get_stats`, pipeline reset | Redis mirror, Vault rotation, Elasticsearch, WebSocket |
| Redis admin statistics (`redis_client.py`) | `hpe:stats:*`, no volume | `admin_incr`, `admin_decr` (with a clamp at 0), SETNX seeding, SET on reset | alert queue |
| User credential rotation (`vault_client.py`) | KV secret `hpe/users/<user>`, `hpe_users.password_hash` | `rotate_credentials`, `_init_all_user_secrets`, `provision_approved_user`, AppRole session | portal, engine, admin handlers |
| Portal login and simulation (`routes/auth.py`) | `hpe_users` (failed attempts, last region), Redis `user:<username>` | `login`, `simulate`, user cache | rotation, engine |
| Elasticsearch threat documents (`elastic_client.py`) | index `hpe-threats` | index, `update_threat_resolution`, delete on reset | alert queue, dashboard |
| Threat engine (`threat_engine.py`, `inference.py`) | per-user history in Redis or memory | `process_event`, `process_raw_event`, `determine_action` | everything |
| Pipeline metrics (`threat_engine.py`, `redis_client.py`) | local deltas, `hpe_pipeline_metrics`, Redis `metrics:*` | increment, flush, reset, `get_metrics` | engine, Kafka thread |
| Kafka ingest (`kafka_client.py`) | producer, consumer, loop thread | connect, reconnect, `_consumer_loop`, stop | infrastructure credentials, engine |
| Infrastructure credentials (`vault_infra_client.py`) | dynamic leases, Kafka secret | fetch, rotate, list leases | approval handler, Kafka |
| Registrations (`routes/auth.py`, `routes/admin.py`) | `hpe_users.status` | register, approve, reject | Vault, admin console |
| Admin authentication and reset tokens (`auth_admin.py`) | tokens in one pod's memory | JWT, token issue and consumption | reset |
| WebSocket broadcast (`ws_manager.py`) | connection lists, Redis pub/sub | connect, broadcast, listener | engine, handlers |
| Simulation producer (`routes/simulate.py`) | shared index, paused flag | produce, pause, reset | engine, dashboard |
| Drift monitor (`drift_monitor.py`) | nothing between checks | PSI check, retraining trigger | model |
| Database pool (`db.py`, `main.py`) | ten connections | acquire, release, shutdown order | everything |
| Dashboard, portal (`frontend/`, `public-login/`) | client-side lists | merge, session watcher | HTTP, WebSocket |
| Bridge and mode switcher (`scripts/`) | cursor, seen ids, child processes | poll, produce, switch | Elasticsearch, Kafka |
| E-mail, health routes, schemas, migrations, generators, init scripts | none the program depends on later | formatting, one-shot provisioning | |

### What is hard here

- **Two pods, one event loop each.** The admin handlers are `async def` functions that call
  blocking clients. On one pod a handler therefore runs alone from its first statement to its
  `await admin_manager.broadcast(...)`; on two pods every statement interleaves with the other
  pod's. `login` and `simulate` are plain `def` functions: they run in worker threads and
  interleave everywhere. Detection runs in the Kafka thread or in a request's thread.
- **No transaction is wider than a statement.** `db.execute_query` commits each statement. A
  decision is an UPDATE, an audit INSERT, a statistic, three Redis commands, a rotation, a
  result, a broadcast and an Elasticsearch update.
- **The same fact is kept in two or three stores** (PostgreSQL and Redis counts; Vault, SQL
  and Redis copies of a password; PostgreSQL and Elasticsearch resolutions), without locks or
  compare-and-set.
- **Errors are swallowed** almost everywhere, so a failed statement is rarely visible to the
  code that runs next.

### What would make each component correct

- *Alert queue*: a decision is made once and is final; only approved alerts rotate; every
  decision is audited exactly once; statistics count alerts and not clicks; Redis and
  Elasticsearch do not contradict PostgreSQL; every call is answered.
- *Rotation and portal*: a replaced password is refused; the accepted password can be
  recovered from Vault; a lockout is not undone; the stores agree when nothing runs.
- *Threat engine*: what an event causes (rotation, alert) follows from its evidence and its score
  by a policy one can state; an event that reaches the engine twice does not count twice; a
  harmless login costs nothing; cached verdicts and rolling counters stay bounded.
- *Pipeline*: no event counted twice; none lost but by a failure, a reset or a crash; no message
  repeated without a cause; a consumer that still consumes after a reconnection.
- *Vault session and leases*: rotations run on the session in use and leave no working credential
  that the pod cannot revoke.
- *Accounts*: a newcomer gets in by an approval only; an active account stays; Vault shows the
  password that logs the user in.
- *Console*: a message reaches each connection once; one producer per pod and a stream without
  gaps; a reset token used at most once and in time; one stack of containers at a time.

The hazards, each at its line, are listed in `PROJECT.json` with the properties that cover them,
or the reason why none does.

## 2. Modules

| Module | What it is |
|---|---|
| `AlertLifecycle` | Abstract: an alert is raised once, decided at most once, rotates only when approved; a reset wipes the queue. |
| `AdminAlerts` | The alert queue with its handlers, stores, resets, seedings, faults and crashes. |
| `CredentialRotation` | One user's password in Vault, PostgreSQL and the Redis user cache, under login, simulate, rotation and resync. |
| `ThreatDecision` | What the engine makes of one scored event: levels, label, overrides, VPN cases, response; and the policy by outcome. |
| `Detection` | From a login, a simulation or a replayed connection to verdicts: the request, the Zeek line, the Kafka threads, `process_event`. Extends `ThreatDecision`. |
| `VpnCache` | The verdict on an address: process dictionary, Redis key, provider. |
| `UserHistory` | The rolling counters of a user in Redis and in the memory of the pods. |
| `KafkaIngest` | The Elasticsearch bridge, the topic, the consumer of each pod. |
| `PipelineMetrics` | Counters of events: Redis, local deltas, flush, shutdown, crash, reset. |
| `VaultSession` | The Vault client of a pod: connection by any thread, renewal, outage, the hand-over to the infrastructure client. |
| `InfraLeases` | Rotation of infrastructure credentials on that session. Extends `VaultSession`. |
| `Registrations` | Accounts: register, approve with provisioning, reject, directory sync. |
| `WsBroadcast` | Broadcast through Redis to changing lists of connections. |
| `SimProducer` | The simulation stream: index, saved position, dashboards, task. |
| `AdminAuth` | Administrator sessions and one-time reset tokens. |
| `ModeSwitcher` | The HTTP server that switches between two stacks of containers. |
| `MC...` | Symmetry sets, and the composition of the modules that one run checks. |
| `...Proofs` | The theorems of section 5. |

`MCScoring`, `MCPipeline`, `MCAccounts` and `MCConsole` put several modules into one run. Where the
modules share no state the variable `moves` says which of them a behaviour moves: their
product would only multiply states that no property relates. Where they do share state they
are one specification: `Detection` with `ThreatDecision`, `InfraLeases` with `VaultSession`, the
bridge with the consumers in `KafkaIngest`.

### AdminAlerts

`row`, `hasResult`, `audit`, `stats` are the PostgreSQL tables; `mirror` and `keys` are the
Redis statistics and which keys exist; `es` is the threat document. `maker` follows a
detection from `process_event`'s stage 7 through `create_alert`. `call`, `pc`, `reply` are the
admin calls: `call` is a constant of a behaviour, chosen in `Init`, so that which call arrives
at which pod for which alert is arbitrary. `resetPc`, `seedPc`, `snap` follow a reset and a
`get_stats` call on each pod.

One action stands for one committed statement or one Redis command. `LoopFree(p)` is the event
loop: a handler arrives at a pod, or resumes after its `await`, only when no other handler of
that pod is between two awaits. A reset holds its loop too; its broadcast at the end touches
nothing modelled. Detection does not take the loop. The approve and reject handlers share the
statements of the store and differ in `AfterStore`: approve acts only on an alert that the
store returns as approved, reject never looks at the status it gets back.

Abstractions, beyond payloads and wording: the four SELECTs of `get_stats` are one snapshot, the
INCRs of `create_alert` (distinct keys, each commuting with the others) are one step, and so are
the key deletions of a reset and the two statements of `increment_auto_allowed`; Redis errors
are modelled in the decision path (`RedisError`), not in `create_alert`; the outcome of a
commit is never in doubt; times-to-live, e-mail, message contents and the read-only routes are
left out; a rotation is counted when it is attempted, whatever Vault answers, since the queue
uses the answer only as text.

### CredentialRotation

Passwords are numbered as they are generated; 0 is the provisioned one, `Wrong` was never
issued. `kv` is the sequence of versions of the secret, `hashes` the sequence of values
`password_hash` has had, so that "held since the request arrived" can be stated. `cache` is the
row under `user:<username>`. A thread runs one `job` at a time; the thread set stands for the
worker threads, Kafka threads and admin handlers of all pods. A login whose VPN detection
rotates is the same steps on a second thread: the engine and the login share no local state
afterwards.

`stale` abstracts the five-minute window of failed attempts: failures are numbered and `stale`
is the last one that is too old; time may pass at any moment. `LockoutThreshold` is the `5` of
`auth.py:444`; the TTL of 300 s is `CacheExpires`, possible at any moment. Left out: the rewrite of
a secret whose role differs from the database, the limit Vault may set on kept versions, the
effect of a pipeline reset on `hpe_users`, and the login-region columns. A resync that finds
an error reading the secret creates a new one (`ResyncCreate`), as the code does.

### ThreatDecision, Detection, VpnCache, UserHistory

`ThreatDecision` has no variables: `Label`, `Override`, `VpnCase`, `Decide`, `Response` and
`RaisesAlert` are stages 5 to 10 of `process_event` in the order of the code, scores in thousandths.
`PolicyThreat` and `PolicyAction` say by outcome what they should add up to, and
`EffectsFollowPolicy` compares the two on every event that a behaviour produces.

In `Detection` a call is a login, a simulation or a replayed connection, chosen in `Init`. `pc`
follows it from the password through its scoring in the request to its Zeek line, which the
Kafka thread of some pod takes (`ConsumeLine`) and scores again, with the fields that
`process_raw_event` can read back from it. User names are sequences of the words between
underscores because the service field is split there. Addresses are the classes of prefix that
the code tells apart; what `check_vpn_ip` answers for a public one and what the models predict
are arbitrary. The ids of test events that `predict` treats specially are left out.

`VpnCache` has one address, entries with times, and a provider that changes its mind. The
clearing of the dictionary by a reset is a `Prune`. In `UserHistory` a thread reads a history from
Redis or gets the dictionary of its pod itself (`aliased`), which others may change before it
writes. The counters for changed addresses and administrator actions are kept as the failure
counter is and left out; the clearing of the cache by a reset is `HistoryExpires` with
`ForgetHistory`.

### KafkaIngest, PipelineMetrics

A message is known by its offset, the topic has one partition. `age` is the only thing the range
`now-30s` sees of a document. `consumer` tells a consumer without a subscription ("new") from
one that waits for the group and one that has the partition; `Consume` is the consumer thread
and its client library, the part that fairness is about.

In `PipelineMetrics` a counter is the set of the events it counted, so that counting twice and
losing can be told from each other. `step`, `work`, `held`, `number`, `types` are the local variables of
the threads. `_pending_updates += 1` is a read and a write. `begun`, `gone`, `late` record what
the properties speak of: what was begun, what a failure, a reset or a crash erased, and
what was in hand when a pod flushed for the last time. A shutdown flushes, closes the pool
and only then stops the consumer, as `main.py` does.

### VaultSession, InfraLeases, Registrations

Clients are numbered as they are made and become global at once, before they are authenticated;
`stage` is where each thread stands in `connect_vault`, `boot` how far the startup is. A lease is
a number, `live` are those Vault has not revoked; `stray` those a failure or a restart took out
of the pod's reach. Approvals, and with them rotations, run one at a time on the main thread
between whose statements the other threads replace the session.

In `Registrations` passwords are named after the pod that set them, or "generated". An approval
is three steps (SELECT, secret and profile, UPDATE), a sync two or three; `contended` and
`failed` record the users for whom the code promises nothing. To `Registrations` the session
of `VaultSession` is a sync that starts and calls that may fail.

### WsBroadcast, SimProducer, AdminAuth, ModeSwitcher

`position` is where a local broadcast stands in a list that changes while it awaits; `audience`
and `excused` record who was connected at the time of a message, and who has a reason to miss
it (Redis stopped, the list got shorter under the loop, the pod did not listen). `SimProducer`
has the index in memory and the saved one, the dashboards that are being greeted, and the states
of the producer task (the loop awaits only in the inline path, where Kafka is down).
`AdminAuth` has one clock for all pods and keeps tokens per pod. `ModeSwitcher` has the busy
flag, the threads and the stacks that run.

## 3. Runs

Every cfg has `CHECK_DEADLOCK FALSE`: each run has a finite supply of alerts, calls, messages,
resets and faults, and once they are spent the system rightly stops. That nothing *hangs* before
that is what `EveryCallAnswered` says.

| Run | Instance | What it shows |
|---|---|---|
| `alerts_one_pod` | 1 pod, 2 alerts (one critical), 3 calls | Decisions are final, rotations belong to approved alerts, each decision is audited and counted exactly once, and the queue implements `AlertLifecycle`. |
| `alerts_two_pods` | 2 pods, 1 critical alert, 2 calls, 1 ALLOW event, 1 reset, 1 fault, automatic rotation | What survives interleaving statements: audit coverage of statuses and answers, Redis totals, Elasticsearch never ahead, audit never shrinking. |
| `alerts_liveness` | 1 pod, 1 forced critical alert, 2 calls, a reset, a seeding of a cold Redis, a Redis restart, a fault | Every call that reached its pod is answered, under `FairSpec`. |
| `alerts_race` | 2 pods, 1 alert, 2 calls | *Violation*: the second decision replaces the first. |
| `rotation_threads` | 2 threads, cache on, threshold 0, 3 logins, 1 simulation, 1 fault | A password that a lockout replaced is out of Vault and PostgreSQL, whatever the threads interleave. |
| `rotation_no_cache` | 2 threads, cache off, 1 of each job, 1 fault | No replaced password is accepted; the accepted one is in Vault. |
| `rotation_cached` | 1 thread, cache on, 1 login, 1 simulation, 1 rotation | *Violation*: the cached row keeps the old password alive. |
| `scoring` | 1 call of any kind, user and address on 2 pods, four scores and no score; 2 processes and three lifetimes of a verdict; 3 scoring threads on 2 pods, 3 events, in and out of order | Effects follow the policy, a VPN login alerts once, a clean login costs nothing, cached verdicts die out, counters stay within the events they counted. |
| `pipeline` | 2 documents, 2 pods, 3 messages, 3 assignments, 1 restart of the bridge; 1 pod with 3 threads, 3 events, batch of 2, 1 mishap, a reset | Nothing repeats without a cause, no event is counted twice, no deltas are passed over, a clean shutdown loses only work in hand. |
| `accounts` | 2 threads, 3 clients, 2 outage changes, 1 expiry, 1 restart, 2 services, 3 leases, 1 failure; 2 pods, 1 directory user, 1 newcomer, 3 registrations, 2 syncs, 1 Vault fault | Rotations use the session in use and leave no stray credential; approvals only; active accounts stay; the stores agree unless contended. |
| `console` | 2 pods, 2 sockets, 1 message, 1 stop of Redis; 1 producer pod, 2 dashboards, an index up to 7, 2 failures; 2 pods, 2 tokens, time up to 3; 2 callers, 3 switches, 2 failing commands | Each message once, one producer per pod, no gap in the stream, tokens reset once, stacks exclude each other. |
| `ingest_reconnect` | 1 pod, 1 document, fair consumer | *Violation*: the consumer made by a reconnection is never subscribed. |

Why these bounds are enough for the questions asked. Two pods are what the deployment has, and
two calls on one alert are the least that can conflict; three calls on one pod let two of them
meet on an alert while the third is on the other. One alert suffices on two pods because no
statement touches two alerts except the reset, which treats them alike. A single fault at every
possible statement covers each error path. Login needs a threshold of 0 so that one failure
followed by a success is a lockout: the threshold only says how many identical steps come
first. Three logins are a failure, the login that locks out, and one that interleaves with
it. Events meet in the engine only in caches and histories, which have parts of their own in `scoring`:
one call is enough for its way. The scores there lie in each level and on the threshold. Three
lifetimes let a verdict be copied from Redis at the end of its first. A batch of two with three
events lets a flush run while a thread counts. Three clients are two that race and one after
an outage. A newcomer and a directory user are all the kinds of users there are. An index up to 7 with
a position saved every 3 (the code saves every 10) contains two saves and a reload behind them. In
`console` a single message suffices as broadcasts of different messages only share the list,
and changes of the list are free. Where pods, services, sockets, documents are interchangeable the
configurations use them as symmetry sets; no liveness property is checked under symmetry.

`Lags = {0, 1}` in `scoring`: an event may carry the time of the moment or one before it. An event older
than the last one of its history makes the decay factor of `inference.py` larger than 1, and the
counters then do exceed the events; the variable `late` remembers it, and `CountersWithinEvents` speaks
of behaviours in which time goes forward from event to event. `MaxErrors = 2` in `console`: two failures
in the producer are a load that fails and another failure after it, which is what a stream with a gap needs.

Some properties are conditional, and say so in their comments. `AuditCoversStatus` and
`AuditCoversAnswer` speak of behaviours without faults: an error between the UPDATE and the
INSERT loses the entry for good. `TotalsMirrored` speaks of warm Redis keys without a reset,
a restart or a fault: each of these makes the mirror drift, by design of the mirror.
`AuditMatchesDecision` and `StatsMatchDecisions` are checked on one pod without resets and faults: with
two pods they fail for the reason `alerts_race` shows. `ShutdownLosesOnlyWorkInHand` is
about clean shutdowns. `SeamlessStream` is about a pod alone, and `DeliveredOnce` about connections
without an excuse. The runs that contain them go through faults and resets for their
other properties.

### Fairness

`FairSpec` of `AdminAlerts` assumes weak fairness of each handler, of each detection under way, of
a reset under way and of a seeding under way. An event loop resumes a ready coroutine and an
operating system schedules a thread; blocking clients return or raise. Nothing is assumed of
threats, clicks, resets, restarts or faults, which need not happen. Weak fairness is enough
although handlers compete for the loop: whoever holds it gives it up after finitely many steps,
and the supply of calls is finite. `IngestFairSpec` assumes weak fairness of the consumer thread of
each pod with its client library, which polls in an endless loop; nothing of documents,
reconnections and shutdowns.

### Findings

Each violation run checks one statement found in the repository.

1. `admin_store.py:175` (`alerts_race`): the UPDATE has no condition on the status; on two pods a
   decision is replaced, although `routes/admin.py:135` answers "Alert already resolved as: ...".
2. `vault_client.py:430` (`rotation_cached`): the rotation leaves the cached row; the old password
   works until the TTL, although the e-mail (`soar_email.py:356`) says it is invalid.
3. `kafka_client.py:258` (`ingest_reconnect`): the consumer made by `reconnect_kafka` is never
   subscribed, although the docstring (line 229) says the loop resubscribes automatically.

Read in the code while modelling, without a run of their own. Alerts and passwords:

- `routes/admin.py:130`: a repeated approve call rotates a second time;
- `routes/admin.py:313`: rejecting an approved alert answers success and marks the threat
  document rejected while PostgreSQL keeps the approval;
- `routes/auth.py:743`: `force_rotation=True` rotates before approval in demo mode;
  `docs/DEMO_MODE_GUIDE.md:22` says "ONLY after admin approval";
- `redis_client.py:247`: decrement and clamp are two commands, and a decision may come before
  the INCR of `create_alert`; the clamp then makes the counter drift;
- `vault_client.py:422`: overlapping rotations leave Vault and PostgreSQL apart;
- `vault_client.py:332`: a resync writes back a password rotated since it read it;
- `vault_client.py:278-328`: an error reading a secret creates a new one, while line 299 means
  to preserve credentials;
- `README.md:83` says 5+ failed attempts, `auth.py:444` and `README.md:748` say more than 5.

Detection:

- `routes/auth.py:282-291`: a VPN login is documented as CRITICAL and without automatic rotation;
  its event yields BLOCK, and with `ENABLE_AUTO_USER_ROTATION` it rotates, once more from its Zeek line
  when the address is one of 45., 82. or 185.;
- a VPN user with four failed attempts, or with a label set by the caller, is cleared to ALLOW, which
  the labels elsewhere count as an anomaly; a score equal to the threshold is a threat (`>=`) but is
  not overruled (`>`);
- `threat_engine.py:380-385`: user names with an underscore are split, and the event is attributed
  to their first word;
- `threat_engine.py:734-755`: in demo mode a BLOCK event falls to the branch that counts it
  as auto-allowed, the branch meant for it being unreachable;
- events without a timestamp zero the rolling counters, older events raise them.

Pipeline, accounts and console:

- the merge of attack types is a read and a write: two flushes may lose types, or one may bring
  back those that a reset erased;
- `main.py:247` closes the pool before the consumer stops, so events processed meanwhile are not
  counted;
- `vault_client.py:105`: each reconnection starts another renewal thread and none ends; the
  infrastructure client, once without a session, gets none until the pod restarts (lines 180, 203);
- other pods go on tracking a lease that one pod has rotated; a lease whose answer is lost lives on;
- a reconnection reloads the profiles and forgets approved registrants; a user of the directory who
  registers before the first sync is activated by it without approval; overlapping
  approvals of one registration separate Vault from PostgreSQL;
- `register` broadcasts from a worker thread with `asyncio.get_event_loop()`, which raises there: the
  announcement is never sent;
- `routes/simulate.py:78` promises one producer for the whole backend; each pod has its own. With two
  pods, or after a reset during an inline broadcast, events of the stream are skipped;
- a health route reads keys of `get_metrics`, which is empty after an error.

## 4. What is not modelled, and why

- *E-mail, health, prediction and pipeline routes*: no state that later code depends on.
- *Drift monitor*: nothing is kept between two checks but a time; statistics and an external service.
- *Dashboard and portal in the browser*: views of what the server sends, without state of their own
  that anything depends on.
- *Database pool*: its exhaustion is one of the failed statements that the models have anyway; its
  closing is in `PipelineMetrics`.
- *The model's arithmetic* (a joblib artefact), *configuration*, *migrations*, *initialisation*,
  *data generators*: constants, one-shot work, or numbers that TLC has no use for.

## 5. Proofs

| Theorem | Statement | Assumes |
|---|---|---|
| `AdminAlertsProofs!TypeCorrect` | `Spec => []TypeOK` | `ConstantsOK` |
| `AdminAlertsProofs!AuditIsAppendOnly` | `Spec => AuditAppendOnly` | `ConstantsOK` |
| `AdminAlertsProofs!DecisionsAreAudited` | `Spec => []AuditCoversStatus` | `ConstantsOK` |
| `AdminAlertsProofs!AnswersAreAudited` | `Spec => []AuditCoversAnswer` | `ConstantsOK` |
| `AdminAlertsProofs!ThreatsFollowAlerts` | `Spec => []ThreatNotAheadOfAlert` | `ConstantsOK` |
| `AdminAlertsProofs!RedisFollowsPostgres` | `Spec => []TotalsMirrored` | `ConstantsOK` |
| `OnePodProofs!OnlyApprovedRotate` | `Spec => []RotatedWasApproved` | one pod |
| `OnePodProofs!DecisionsAreFinal` | `Spec => ResolutionIsFinal` | one pod |
| `OnePodProofs!AuditIsExact` | `Spec => [](faults = 0 => AuditMatchesDecision)` | one pod |
| `OnePodProofs!StatsAreExact` | `Spec => [](faults = 0 /\ resets = 0 => StatsMatchDecisions)` | one pod |
| `OnePodProofs!ImplementsLifecycle` | `Spec => LifecycleSpec` | one pod |
| `CredentialRotationProofs!TypeCorrect` | `Spec => []TypeOK` | `RotationConstantsOK` |
| `CredentialRotationProofs!PasswordsAreRecoverable` | `Spec => []PasswordRecoverable` | `RotationConstantsOK` |
| `CredentialRotationProofs!ReplacedPasswordsAreRefused` | `Spec => []OldPasswordRefused` | `CacheOn = FALSE` |
| `CredentialRotationProofs!UsedPasswordsAreGone` | `Spec => [](NoResync => LockoutHolds)` | `RotationConstantsOK` |
| `ScoringProofs!VpnLoginsAlertOnce` | `DetectionSpec => []VpnLoginAlertsOnce` | `DetectionConstantsOK` |
| `ScoringProofs!CleanLoginsPass` | `DetectionSpec => []CleanLoginIsAllowed` | `DetectionConstantsOK` |
| `ScoringProofs!EffectsAreThePolicy` | `DetectionSpec => EffectsFollowPolicy` | `DetectionConstantsOK` |
| `ScoringProofs!VerdictsDieOut` | `VpnSpec => []ReclassificationReachesAll` | `VpnConstantsOK` |
| `ScoringProofs!CountersStayBounded` | `HistorySpec => []CountersWithinEvents` | `HistoryConstantsOK` |
| `ScoringProofs!ScoringTypesKept` | `Spec => []TypeOK` of `MCScoring` | those of its parts |
| `KafkaIngestProofs!ReplaysNeedAFailedSeek` | `IngestSpec => []OnlyAFailedSeekReplays` | `IngestConstantsOK` |
| `KafkaIngestProofs!RepeatsNeedARestart` | `IngestSpec => []RepeatsNeedABridgeRestart` | `IngestConstantsOK` |
| `PipelineMetricsProofs!EventsCountOnce` | `MetricsSpec => []CountedOnce` | `MetricsConstantsOK` |
| `PipelineMetricsProofs!FlushesPassOverNothing` | `MetricsSpec => []PendingCoversDeltas` | `MetricsConstantsOK` |
| `PipelineMetricsProofs!ShutdownsLoseLittle` | `MetricsSpec => []ShutdownLosesOnlyWorkInHand` | `MetricsConstantsOK` |
| `PipelineMetricsProofs!PipelineKeepsSpecs` | `Spec => IngestSpec /\ MetricsSpec` of `MCPipeline` | those of its parts |
| `PipelineMetricsProofs!PipelineTypesKept` | `Spec => []TypeOK` of `MCPipeline` | those of its parts |
| `AccountsProofs!NewcomersNeedApproval` | `AccountsSpec => []NewcomersAreApproved` | `AccountConstantsOK` |
| `AccountsProofs!StoresStayTogether` | `AccountsSpec => []StoresAgreeWithoutContention` | `AccountConstantsOK` |
| `AccountsProofs!ActiveAccountsStay` | `AccountsSpec => ActiveStaysActive` | `AccountConstantsOK` |
| `AccountsProofs!CredentialsStayRevocable` | `LeasesSpec => []NoStrayCredential` | `SessionConstantsOK`, `LeaseConstantsOK` |
| `AccountsProofs!InfraKeepsUp` | `LeasesSpec => []InfraFollowsSession` | `SessionConstantsOK`, `LeaseConstantsOK` |
| `AccountsProofs!TypesKept` | `Spec => []TypeOK` of `MCAccounts` | those of its parts |
| `ConsoleProofs!BroadcastsArriveOnce` | `BroadcastSpec => []DeliveredOnce` | `BroadcastConstantsOK` |
| `ConsoleProofs!OneProducerRuns` | `SimSpec => []OneProducerPerPod` | `ProducerConstantsOK` |
| `ConsoleProofs!StreamIsSeamless` | `SimSpec => []SeamlessStream` | `ProducerConstantsOK` |
| `ConsoleProofs!ResetsAreConfirmedOnce` | `AuthSpec => []TokensResetOnce` | `AuthConstantsOK` |
| `ConsoleProofs!SwitchesExclude` | `SwitcherSpec => []OneSwitchAtATime` | - |
| `ConsoleProofs!StacksAreExclusive` | `SwitcherSpec => []StacksExclude` | - |
| `ConsoleProofs!PartsKeepTheirSpecs` | `Spec =>` the four specifications above, of `MCConsole` | those of its parts |
| `ConsoleProofs!ConsoleTypesKept` | `Spec => []TypeOK` of `MCConsole` | those of its parts |

They hold for any alerts, calls, pods, threads, users, sockets, events, scores and bounds. The
assumptions about constants only say what kind of value each is; those of `ThreatDecision` add that scores
and the threshold are thousandths, those of `Detection` that a name has a word. One pod is
`\A p, q \in Pods : p = q`. The runs check the parts of a composition by one specification; the theorems
about compositions say that it adds nothing to the parts.

### Alerts

**Audit.** `AuditCoversStatus` is inductive together with the types. An UPDATE leaves its
handler at `pc = "audit"`, which is the second disjunct; the INSERT turns it into the first;
entries never go; `faults = 0` excludes the steps that leave `"audit"` otherwise. For an answer
the invariant (`AnswersCovered`) starts before it: as soon as a handler is past the decision of its alert, an entry
for the alert is there or some handler waits to insert one.

**Order.** `QueueOrder`, for any number of pods: an alert is there before a call for it comes (`ArrivedHaveRow`), no
INSERT meets a row (`FreshAlerts`), and a handler past the decision finds its alert decided or wiped
(`DecidedBehind`). The last part is why Elasticsearch is never ahead: only such a handler writes to it, and
nothing turns a decided alert back to pending.

**Redis.** `Mirrored` is an equation: the statistic of PostgreSQL is the one of Redis plus the number of handlers
(for alerts: detections) between the two increments. Each step moves one member across it, so the proof is about
sets that gain or lose one element. They are finite because at any time finitely many calls
have arrived (`ArrivalsAreFinite`), which is an invariant of its own as `Requests` may be infinite.

**One pod.** `RotatedWasApproved` alone is not inductive: a handler at `"update"` could reject
an alert whose rotation has run. `RotationInv` adds what the loop gives: `Exclusive` (at most
one handler, and no reset, holds the loop), `PendingAtUpdate` and `ApprovedAtRotation` (what
the handler read still holds, since nobody else on the loop wrote), and `QueueOrder`. `ResolutionIsFinal`
follows step by step, and so does the refinement: INSERT maps to `Raise`, UPDATE to `Decide`, the
rotation to `Rotate`, the TRUNCATE to `Wipe`, all else to a stutter. With two pods
`PendingAtUpdate` fails, which is what `alerts_race` shows. On the same invariant rest the exact audit (the
entries of a decision plus the handlers at their INSERT are one if the alert has that decision and none otherwise) and
the exact statistics (`DecisionsCounted`, `AllowedCounted`). The hypotheses `faults = 0` and `resets = 0` are
the bounds of the run that checks the two: a failed INSERT or a reset does make them wrong.

### Passwords

**Recoverability.** `PasswordRecoverable` is not inductive: an old hash may be written back by
a slow thread. `RecoveryInv` says that every value the hash ever had, and every password a
thread holds, is a version of the secret. The code stores the secret before the hash, and
versions are only appended.

**Refusal.** `ServingInv` says that the cache stays empty and, for each thread, that the row it
compares with was current at some moment since its request arrived. The first part is what
the cache breaks (`rotation_cached`).

**Lockout.** With the cache on a row may be old, but it was the database's once. `LockInv` orders the passwords: Vault
ends with the last one generated, no hash comes twice, a password that a thread is still to write is
in no row yet and no other thread holds it (`StoreOrder`, `HeldApart`); and what a thread was asked with
was a hash, smaller than the one it is about to write (`Guarded`). So a rotation on a stale row replaces
the password anyway. `NoResync` is needed and is the bound of the run: a resync writes back what it read
(`vault_client.py:332`), and the property fails.

### Detection, histories, verdicts

**Policy.** `DecideIsPolicy` compares `Decide` and the policy by cases on the evidence (`CasesByEvidence`), once for every
label and score; it needs no invariant but the shape of events (`Readable`). `EffectsFollowPolicy` then
says that the step `Act` does what it decided.

**Logins.** `Story(c)` says what a call has caused at each point of its way: an event of a login is either the one of
the request, scored before any alert, or the one of its line, and the line of a VPN login finds one alert made. A
clean login carries no evidence (`Quiet`) whether it is scored in the request or read back from Zeek
(`CleanLine`, `DecodeReads`), and without evidence the score is overruled (`QuietIsNotGrave`).

**Verdicts.** What Redis has of an old verdict ends within one lifetime of the change; a process copies it
before that and keeps it for one lifetime more. The inductive invariant states the two bounds (`RedisEntriesAge`,
`ProcessEntriesAge`) and that a verdict on its way to Redis is the current one (`SharingIsCurrent`).

**Counters.** `HistoriesBounded` extends the bound to every copy of a history: in Redis, in memory, in the hands of a
thread. The arithmetic is in three lemmas: truncating a share of a counter does not raise it as
long as no time is negative (`Truncated`, `DecayBounds`, `AfterBounds`).

### Pipeline

**Ingest.** While no seek has failed, what was polled lies at or below the position of the pod that has the
partition (`ReaderIsAhead`), and one pod has it at most (`OneReader`). For the bridge, a document in the topic is
remembered until a restart (`BridgeRemembers`).

**Metrics.** `CountedOnce` is inductive only with `Hands` (what a thread has at each step) and `Traced`: an
event that a thread still has in hand after counting it is in the deltas of its pod, with a flush of its
pod, in the row or gone; so the death of the pod erases nothing twice. `PendingCoversDeltas` rests on the
order "delta first, counter second" and on the read and the write of the counter both leaving it above 0.
For shutdowns `LossInv` adds that a pool is closed only when the last flush is over (`PoolClosedLast`) and
that afterwards deltas and hands hold late events only (`LateKnown`); when that flush finds nothing pending,
`PendingCoversDeltas` says why nothing is left behind.

### Accounts, session, leases

**Accounts.** `AccountsInv` adds `RunningAreApproved`, `OneWorker` (an uncontended user is worked on by
one approval or sync at most), `SecretFirst` (whoever is about to write the row has the password that Vault
has) and `WritesGenerated`. `SecretFirst` is the order of statements in the code; `OneWorker` is where
contention breaks the agreement of the stores.

**Session.** `InfraFollowsSession` is inductive with the types: the thread that replaces the client is not idle again before
it has handed on the client it then finds, and a thread on its way keeps the premise false. **Leases.** `NoStrayCredential` needs `ReplacedIsDead`: a lease is
overwritten only when it has been revoked or given up as stray. The steps of the session leave the leases alone, except a
restart of the pod, which declares all that was tracked stray.

### Console

**Broadcast.** What makes `DeliveredOnce` hard is a list that gets shorter under the loop. `BroadcastInv` has, for each
message, `Reaches` (a dashboard of the audience that stays has it, is excused, or stands ahead of a broadcast:
`Awaits`) and `OneWay` (one broadcast per pod, past every dashboard that has the message), and `Listed` (a socket stands
once in the lists). What removal does to a list is the lemma `OthersStay`: who stays keeps the order, and nobody
moves backwards. The operator `Others` is defined by rank, not by `SelectSeq`, whose recursive definition is out
of reach here; the lemma uses the cardinality theorems of the library.

**Producer.** `SimInv` has, for a pod alone, what is saved and what is in memory against what was produced. The proof
attempt corrected the property: after a restart with failed loads the stream plays from the start, and a
load that works during a broadcast skips events, which `MaxErrors = 2` now shows to TLC.

**Tokens.** Of each token there is one copy in one pod, or one wipe, never both (`TokenInv`, `WipeInv`), and the wipe came
within the lifetime.

**Switcher.** Exclusion is inductive with the flag: `busy` is set in the same step in which the
thread starts and cleared in the one in which it ends. For the stacks the invariant adds what a
switch past its "down" knows of the other stack.

### What stays with TLC

Every invariant and every action property that a passing run checks has a theorem. `EveryCallAnswered` has none:
liveness under fairness is out of the prover's reach. The three violations are TLC's by nature: `Resubscribes` is a
liveness property too, and the other two are shown by one counterexample. No module uses a RECURSIVE operator; the
counters are the only arithmetic on data of any size, and sequences are treated by their indices.

## 6. Plan

The modules of the inventory are written and what they check is proved. What could be added:

1. Theorems under weaker hypotheses: what of `StatsMatchDecisions` and `TotalsMirrored` survives a reset or a fault, as an
   inequality instead of an equation; `LockoutHolds` with resyncs of other users only.
2. `AlertLifecycle` with two pods: the abstract specification in which a decision may be replaced, and the refinement
   of it by `AdminAlerts` for any number of pods.
3. Further parts of the code: the pause of the producer, the rewrite of a secret whose role changed, the
   detector of drift with its repeated triggers.
