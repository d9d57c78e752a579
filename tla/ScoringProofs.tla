--------------------------- MODULE ScoringProofs ---------------------------
(***************************************************************************)
(* Scoring, for any number of pods, threads, calls, names and scores: how  *)
(* long a verdict on an address outlives its reclassification, what the    *)
(* rolling counters of a user are bounded by, and what a scored event may  *)
(* cause.                                                                  *)
(***************************************************************************)
EXTENDS MCScoring, SequenceTheorems, TLAPS

(* check_vpn_ip *)

\* An entry that contradicts the provider was looked up, or copied from Redis,
\* within a lifetime of the reclassification.
ProcessEntriesAge ==
  \A p \in Processes : \A entry \in l1[p] :
    entry.ts <= now /\ (entry.vpn # proxied => entry.ts < changed + VpnTTL)

\* One in Redis was written before it.
RedisEntriesAge ==
  \A entry \in l2 :
    entry.until <= now + VpnTTL /\ (entry.vpn # proxied => entry.until <= changed + VpnTTL)

\* A verdict on its way to Redis is the current one.
SharingIsCurrent == \A p \in Processes : \A verdict \in sharing[p] : verdict = proxied

CacheInv ==
  /\ VpnTypeOK /\ changed <= now
  /\ ProcessEntriesAge /\ RedisEntriesAge /\ SharingIsCurrent

\* At the start nothing is cached and nothing looked up.
LEMMA CacheInit == VpnInit => CacheInv
BY VpnConstantsOK DEF VpnInit, CacheInv, VpnTypeOK, ProcessEntriesAge, RedisEntriesAge,
                      SharingIsCurrent

\* A hit in Redis starts a new lifetime in the process, but only while the
\* entry of Redis is alive.
LEMMA HitKeepsAges ==
  ASSUME CacheInv, NEW p \in Processes, HitL2(p), UNCHANGED now
  PROVE  CacheInv'
<1>1. PICK entry \in L2Fresh : l1' = [l1 EXCEPT ![p] = {[vpn |-> entry.vpn, ts |-> now]}]
  BY DEF HitL2
<1>2. /\ entry \in l2 /\ now < entry.until /\ entry.vpn \in BOOLEAN /\ entry.until \in Nat
      /\ UNCHANGED <<now, proxied, changed, l2, sharing>>
  BY <1>1 DEF L2Fresh, HitL2, CacheInv, VpnTypeOK, L2Entry
<1>3. VpnTypeOK'
  BY <1>1, <1>2 DEF CacheInv, VpnTypeOK, L1Entry
<1>4. ProcessEntriesAge'
  BY <1>1, <1>2, VpnConstantsOK DEF CacheInv, VpnTypeOK, ProcessEntriesAge, RedisEntriesAge
<1>5. QED
  BY <1>2, <1>3, <1>4 DEF CacheInv, RedisEntriesAge, SharingIsCurrent

\* The lookup, its publication, and whatever drops entries.
LEMMA OtherKeepsAges ==
  ASSUME CacheInv, UNCHANGED now, NEW p \in Processes,
         LookUp(p) \/ ShareVerdict(p) \/ Prune(p) \/ ForgetVpns(p) \/ RedisForgets
  PROVE  CacheInv'
<1> USE DEF CacheInv, VpnTypeOK, ProcessEntriesAge, RedisEntriesAge, SharingIsCurrent
<1>1. CASE LookUp(p)
  BY <1>1, VpnConstantsOK DEF LookUp, L1Entry
<1>2. CASE ShareVerdict(p)
  BY <1>2, VpnConstantsOK DEF ShareVerdict, L2Entry
<1>3. CASE Prune(p)
  BY <1>3 DEF Prune
<1>4. CASE ForgetVpns(p)
  BY <1>4 DEF ForgetVpns
<1>5. CASE RedisForgets
  BY <1>5 DEF RedisForgets
<1>6. QED
  BY <1>1, <1>2, <1>3, <1>4, <1>5

\* A reclassification makes every entry contradict the provider, none of which
\* is younger than it.
LEMMA ReclassifyKeepsAges ==
  ASSUME CacheInv, Reclassify, UNCHANGED now
  PROVE  CacheInv'
BY VpnConstantsOK DEF Reclassify, CacheInv, VpnTypeOK, ProcessEntriesAge, RedisEntriesAge,
                      SharingIsCurrent, L1Entry, L2Entry

\* Every step of the caches keeps the ages.
LEMMA CacheStep == CacheInv /\ [VpnNext]_vpnVars => CacheInv'
<1> SUFFICES ASSUME CacheInv, [VpnNext]_vpnVars
             PROVE  CacheInv'
  OBVIOUS
<1>1. CASE \E p \in Processes : HitL2(p) /\ UNCHANGED now
  BY <1>1, HitKeepsAges
<1>2. CASE \E p \in Processes :
             (LookUp(p) \/ ShareVerdict(p) \/ Prune(p) \/ ForgetVpns(p)) /\ UNCHANGED now
  BY <1>2, OtherKeepsAges
<1>3. CASE RedisForgets /\ UNCHANGED now
  BY <1>3, VpnConstantsOK, OtherKeepsAges
<1>4. CASE Reclassify /\ UNCHANGED now
  BY <1>4, ReclassifyKeepsAges
<1>5. CASE VpnTick \/ UNCHANGED vpnVars
  BY <1>5, VpnConstantsOK DEF VpnTick, vpnVars, cacheVars, CacheInv, VpnTypeOK,
     ProcessEntriesAge, RedisEntriesAge, SharingIsCurrent, L1Entry, L2Entry
<1>6. QED
  BY <1>1, <1>2, <1>3, <1>4, <1>5 DEF VpnNext

\* An entry that is still fresh two lifetimes after the reclassification is
\* younger than one lifetime after it.
LEMMA AgesSuffice == CacheInv => ReclassificationReachesAll
BY VpnConstantsOK DEF CacheInv, VpnTypeOK, ProcessEntriesAge, ReclassificationReachesAll,
                      L1Fresh, L1Entry

\* Two lifetimes after ip-api.com changed its verdict on an address, no process
\* answers check_vpn_ip with the old one.
THEOREM VerdictsDieOut == VpnSpec => []ReclassificationReachesAll
<1>1. VpnSpec => []CacheInv
  BY CacheInit, CacheStep, PTL DEF VpnSpec
<1>2. QED
  BY <1>1, AgesSuffice, PTL

-----------------------------------------------------------------------------
(* The rolling counters *)

\* Every history, in Redis, in memory or in the hands of a thread, counts at
\* most the events that were scored.
Bounded(h) == \A k \in Counters : h.count[k] <= scored[k]
HistoriesBounded ==
  ~ late => /\ \A h \in shared : Bounded(h)
            /\ \A p \in Replicas : Bounded(local[p])
            /\ \A t \in Workers : \A h \in read[t] : Bounded(h)

HistoryInv == HistoryTypeOK /\ HistoriesBounded

\* Truncating the quotient of a number below n windows gives at most n.
LEMMA Truncated ==
  ASSUME NEW n \in Nat, NEW w \in Nat \ {0}, NEW a \in Nat
  PROVE  a \div w \in Nat /\ (a <= n * w => a \div w <= n)
<1> DEFINE q == a \div w
<1>1. q \in Int /\ q * w <= a /\ a < (q + 1) * w
  OBVIOUS
<1>2. q >= 0
  <2>1. ASSUME q + 1 <= 0 PROVE FALSE
    <3>1. (q + 1) * w <= 0 
      BY <1>1, <2>1
    <3>2. QED
      BY <1>1, <3>1
  <2>2. QED
    BY <1>1, <2>1
<1>3. ASSUME a <= n * w, q > n PROVE FALSE
  <2>1. (n + 1) * w <= q * w
    BY <1>1, <1>3
  <2>2. (n + 1) * w = n * w + w
    OBVIOUS
  <2>3. QED
    BY <1>1, <1>3, <2>1, <2>2
<1>4. QED
  BY <1>1, <1>2, <1>3

\* The decay leaves a natural number, and never more than there was unless the
\* elapsed time is negative.
LEMMA DecayBounds ==
  ASSUME NEW n \in Nat, NEW e \in Int, NEW w \in Nat \ {0}
  PROVE  Decayed(n, e, w) \in Nat /\ (e >= 0 => Decayed(n, e, w) <= n)
<1>1. CASE e >= w
  BY <1>1 DEF Decayed
<1>2. CASE e < w
  <2>1. w - e \in Nat /\ n * (w - e) \in Nat
    BY <1>2
  <2>2. e >= 0 => n * (w - e) <= n * w
    <3>1. n * (w - e) = n * w - n * e /\ (e >= 0 => n * e >= 0)
      OBVIOUS
    <3>2. QED
      BY <3>1
  <2>3. QED
    BY <1>2, <2>1, <2>2, Truncated DEF Decayed
<1>3. QED
  BY <1>1, <1>2

\* What an event makes of a history has the shape of one; it counts the event
\* and, in order, nothing that was not counted before.
LEMMA AfterBounds ==
  ASSUME NEW h \in History, NEW t \in Int, NEW ok \in BOOLEAN, NEW ev,
         ev = [time |-> t, success |-> ok]
  PROVE  /\ After(h, ev) \in History /\ Adds(ev) \in [Counters -> Nat]
         /\ ~ Late(h, ev) =>
              \A k \in Counters : After(h, ev).count[k] <= h.count[k] + Adds(ev)[k]
<1>1. ev.time = t /\ ev.success = ok /\ t \in Int
  OBVIOUS
<1>2. Adds(ev) \in [Counters -> Nat]
  BY <1>1 DEF Adds, Counters
<1>3. h.last \in Int /\ h.count \in [Counters -> Nat] /\ Elapsed(h, ev) \in Int
  BY <1>1 DEF History, Elapsed
<1>4. ASSUME NEW k \in Counters
      PROVE  Kept(h, ev, k) \in Nat /\ (~ Late(h, ev) => Kept(h, ev, k) <= h.count[k])
  <2>1. Window[k] \in Nat \ {0} /\ h.count[k] \in Nat
    BY <1>3, HistoryConstantsOK DEF Window, Counters
  <2>2. CASE Missing \in {h.last, ev.time} /\ h.last # Never
    BY <2>1, <2>2 DEF Kept
  <2>3. CASE ~ (Missing \in {h.last, ev.time} /\ h.last # Never)
    <3>1. Kept(h, ev, k) = Decayed(h.count[k], Elapsed(h, ev), Window[k])
      BY <2>3 DEF Kept
    <3>2. ~ Late(h, ev) => Elapsed(h, ev) >= 0
      BY <1>3, <2>3 DEF Late, Elapsed
    <3>3. QED
      BY <1>3, <2>1, <3>1, <3>2, DecayBounds
  <2>4. QED
    BY <2>2, <2>3
<1>5. \A k \in Counters : After(h, ev).count[k] = Kept(h, ev, k) + Adds(ev)[k]
  BY DEF After
<1>6. After(h, ev) \in History
  BY <1>1, <1>2, <1>4 DEF After, History
<1>7. QED
  BY <1>2, <1>3, <1>4, <1>5, <1>6

\* Nothing is counted at the start.
LEMMA HistoryStart == HistoryInit => HistoryInv
<1>1. Blank \in History /\ \A k \in Counters : Blank.count[k] = 0
  BY DEF Blank, History, Counters, Never
<1>2. HistoryInit => HistoryTypeOK
  <2>1. SUFFICES ASSUME HistoryInit PROVE HistoryTypeOK
    OBVIOUS
  <2>2. local \in [Replicas -> History] /\ read \in [Workers -> SUBSET History]
    BY <1>1, <2>1 DEF HistoryInit
  <2>3. clock \in Nat /\ shared \subseteq History /\ aliased \subseteq Workers
    BY <2>1 DEF HistoryInit
  <2>4. scored \in [Counters -> Nat] /\ late \in BOOLEAN
    BY <2>1 DEF HistoryInit
  <2>5. QED
    BY <2>2, <2>3, <2>4 DEF HistoryTypeOK
<1>3. HistoryInit => HistoriesBounded
  BY <1>1 DEF HistoryInit, HistoriesBounded, Bounded
<1>4. QED
  BY <1>2, <1>3 DEF HistoryInv

\* Time stamps of events are integers.
LEMMA EventShape ==
  ASSUME HistoryTypeOK, NEW ev \in Events
  PROVE  \E t \in Int, ok \in BOOLEAN : ev = [time |-> t, success |-> ok]
BY HistoryConstantsOK DEF HistoryTypeOK, Events, Stamps, Missing

\* Scoring an event: the history that was read, wherever it came from, counted
\* at most what had been scored, and both count the event.
LEMMA ScoreKeepsBounds ==
  ASSUME HistoryInv, NEW t \in Workers, Score(t)
  PROVE  HistoryInv'
<1>1. PICK ev \in Events, redisAnswers \in BOOLEAN : Update(t, ev, redisAnswers)
  BY DEF Score
<1>2. PICK old \in IF t \in aliased THEN {local[PodOf[t]]} ELSE read[t] :
        /\ shared' = IF redisAnswers THEN {After(old, ev)} ELSE shared
        /\ local' = IF t \in aliased \/ ~ redisAnswers
                    THEN [local EXCEPT ![PodOf[t]] = After(old, ev)] ELSE local
        /\ late' = (late \/ Late(old, ev))
  BY <1>1 DEF Update
<1>3. /\ scored' = [k \in Counters |-> scored[k] + Adds(ev)[k]]
      /\ aliased' = aliased \ {t} /\ read' = [read EXCEPT ![t] = {}] /\ clock' = clock
  BY <1>1 DEF Update
<1>4. PodOf[t] \in Replicas
  BY DEF Replicas
<1>5. old \in History /\ (~ late => Bounded(old))
  BY <1>2, <1>4 DEF HistoryInv, HistoryTypeOK, HistoriesBounded
<1>6. PICK new, adds, behind : new = After(old, ev) /\ adds = Adds(ev) /\ behind = Late(old, ev)
  OBVIOUS
<1>7. /\ new \in History /\ adds \in [Counters -> Nat] /\ behind \in BOOLEAN
      /\ ~ behind => \A k \in Counters : new.count[k] <= old.count[k] + adds[k]
  <2>1. PICK tm \in Int, ok \in BOOLEAN : ev = [time |-> tm, success |-> ok]
    BY EventShape DEF HistoryInv
  <2>2. behind \in BOOLEAN
    BY <1>6 DEF Late
  <2>3. QED
    BY <1>5, <1>6, <2>1, <2>2, AfterBounds
<1>8. HistoryTypeOK'
  BY <1>2, <1>3, <1>4, <1>6, <1>7 DEF HistoryInv, HistoryTypeOK
<1>9. ASSUME ~ late', NEW h \in History, Bounded(h)
      PROVE  Bounded(h)'
  BY <1>3, <1>6, <1>7, <1>9 DEF Bounded, HistoryInv, HistoryTypeOK, History
<1>10. ASSUME ~ late'
       PROVE  /\ \A k \in Counters : new.count[k] <= scored'[k]
              /\ Bounded(old)
  BY <1>2, <1>3, <1>5, <1>6, <1>7, <1>10 DEF Bounded, HistoryInv, HistoryTypeOK, History
<1>11. HistoriesBounded'
  <2>1. SUFFICES ASSUME ~ late'
                 PROVE  /\ \A h \in shared' : Bounded(h)'
                        /\ \A p \in Replicas : \A k \in Counters : local'[p].count[k] <= scored'[k]
                        /\ \A u \in Workers : \A h \in read'[u] : Bounded(h)'
    BY DEF HistoriesBounded, Bounded
  <2>2. ~ late
    BY <1>2, <1>6, <1>7, <2>1 DEF HistoryInv, HistoryTypeOK
  <2>3. \A h \in shared' : Bounded(h)'
    BY <1>2, <1>6, <1>9, <1>10, <2>1, <2>2 DEF HistoryInv, HistoriesBounded, HistoryTypeOK, Bounded
  <2>4. \A p \in Replicas : \A k \in Counters : local'[p].count[k] <= scored'[k]
    <3>1. ASSUME NEW p \in Replicas
          PROVE  \A k \in Counters : local'[p].count[k] <= scored'[k]
      <4>1. local'[p] = new \/ local'[p] = local[p]
        BY <1>2, <1>6, <3>1 DEF HistoryInv, HistoryTypeOK
      <4>2. PICK h \in History : h = local[p] /\ Bounded(h)
        BY <2>2, <3>1 DEF HistoryInv, HistoryTypeOK, HistoriesBounded
      <4>3. QED
        BY <1>9, <1>10, <2>1, <4>1, <4>2 DEF Bounded
    <3>2. QED
      BY <3>1
  <2>5. \A u \in Workers : \A h \in read'[u] : Bounded(h)'
    BY <1>3, <1>9, <2>1, <2>2 DEF HistoryInv, HistoriesBounded, HistoryTypeOK
  <2>6. QED
    BY <2>3, <2>4, <2>5
<1>12. QED
  BY <1>8, <1>11 DEF HistoryInv

\* Whatever else happens only moves histories, drops them or starts new ones.
LEMMA HistoryStep == HistoryInv /\ [HistoryNext]_historyVars => HistoryInv'
<1> SUFFICES ASSUME HistoryInv, [HistoryNext]_historyVars
             PROVE  HistoryInv'
  OBVIOUS
<1> USE DEF HistoryInv, HistoryTypeOK, HistoriesBounded, Bounded
<1>1. CASE \E t \in Workers : ReadShared(t)
  BY <1>1 DEF ReadShared
<1>2. CASE \E t \in Workers : ReadLocal(t)
  BY <1>2 DEF ReadLocal
<1>3. CASE \E t \in Workers : Score(t)
  BY <1>3, ScoreKeepsBounds
<1>4. CASE HistoryExpires
  BY <1>4 DEF HistoryExpires
<1>5. CASE \E p \in Replicas : ForgetHistory(p)
  BY <1>5 DEF ForgetHistory, Blank, History, Counters, Never
<1>6. CASE HistoryTick \/ UNCHANGED historyVars
  BY <1>6 DEF HistoryTick, historyVars
<1>7. QED
  BY <1>1, <1>2, <1>3, <1>4, <1>5, <1>6 DEF HistoryNext

\* As long as the events of a user are scored in the order of their timestamps,
\* no rolling counter exceeds what was counted, for any number of threads and
\* pods, whichever way the history is read, lost and written back.
THEOREM CountersStayBounded == HistorySpec => []CountersWithinEvents
<1>1. HistorySpec => []HistoryInv
  BY HistoryStart, HistoryStep, PTL DEF HistorySpec
<1>2. HistoryInv => CountersWithinEvents
  BY DEF HistoryInv, HistoriesBounded, Bounded, CountersWithinEvents
<1>3. QED
  BY <1>1, <1>2, PTL

-----------------------------------------------------------------------------
(* process_event *)

\* What the decision reads of an event.
Readable(e) == e.geo \in BOOLEAN /\ e.travel \in BOOLEAN /\ e.vpn \in BOOLEAN
               /\ e.failed \in Int /\ e.mb \in Int

\* Predictions are scores between 0 and 1000, with the threshold of the models
\* or, without models, a score of 0 that is no threat.
LEMMA PredictionsRange ==
  ASSUME NEW p \in Predictions
  PROVE  /\ p.threat \in BOOLEAN /\ p.score \in Nat /\ p.threshold \in Nat
         /\ p.threat => p.threshold = Threshold /\ p.score >= Threshold
         /\ p.score > p.threshold => p.threat
<1> DEFINE Good == /\ p.threat \in BOOLEAN /\ p.score \in Nat /\ p.threshold \in Nat
                   /\ p.threat => p.threshold = Threshold /\ p.score >= Threshold
                   /\ p.score > p.threshold => p.threat
<1>1. ASSUME p = Unscored PROVE Good
  BY <1>1 DEF Unscored
<1>2. ASSUME NEW s \in Scores, p = Scored(s) PROVE Good
  <2>1. s \in Nat /\ Threshold \in Nat
    BY DecisionConstantsOK
  <2>2. p = [threat |-> s >= Threshold, score |-> s, threshold |-> Threshold]
    BY <1>2 DEF Scored
  <2>3. p.score = s /\ p.threshold = Threshold /\ p.threat \in BOOLEAN
    BY <2>1, <2>2
  <2>4. p.threat <=> s >= Threshold
    BY <2>1, <2>2
  <2>5. QED
    BY <2>1, <2>3, <2>4
<1>3. p = Unscored \/ \E s \in Scores : p = Scored(s)
  BY DEF Predictions
<1>4. QED
  BY <1>1, <1>2, <1>3

Verdict == [threat : BOOLEAN, score : Int, threshold : Nat, action : Actions]

\* A verdict that is raised or cleared is one, with the action it is given.
LEMMA VerdictsChange ==
  ASSUME NEW v \in Verdict, NEW action, NEW n \in Int
  PROVE  /\ Raised(v, action, n).threat /\ Raised(v, action, n).action = action
         /\ ~ Cleared(v, n).threat /\ Cleared(v, n).action = "ALLOW"
         /\ Cleared(v, n).score = n /\ Cleared(v, n).threshold = v.threshold
<1>1. Raised(v, action, n).threat
  BY DEF Raised, Verdict
<1>2. Raised(v, action, n).action = action
  BY DEF Raised, Verdict
<1>3. ~ Cleared(v, n).threat
  BY DEF Cleared, Verdict
<1>4. Cleared(v, n).action = "ALLOW" /\ Cleared(v, n).score = n
  BY DEF Cleared, Verdict
<1>5. Cleared(v, n).threshold = v.threshold
  BY DEF Cleared, Verdict
<1>6. QED
  BY <1>1, <1>2, <1>3, <1>4, <1>5

\* Override and the VPN cases: the evidence of the event decides, and where it
\* says nothing the score.
LEMMA CasesByEvidence ==
  ASSUME NEW e, Readable(e), NEW v \in Verdict, NEW w, w = VpnCase(e, Override(e, v))
  PROVE  /\ Hijack(e) => w.threat /\ w.action = "CRITICAL_ALERT"
         /\ Displaced(e) => w.threat /\ w.action = "BLOCK"
         /\ ~ Hijack(e) /\ ~ Displaced(e) =>
              IF Harmless(e) /\ v.score > v.threshold
              THEN ~ w.threat /\ w.action = "ALLOW" ELSE w = v
<1> DEFINE overruled == Label(e) = "None" /\ ~ RealAnomaly(e) /\ v.score > v.threshold
<1>1. ~ overruled => Override(e, v) = v
  BY DEF Override
<1>2. v.threshold \in Nat /\ v.score \in Int
  BY DEF Verdict
<1>3. ASSUME Hijack(e)
      PROVE  w.threat /\ w.action = "CRITICAL_ALERT"
  <2>1. w = Raised(v, "CRITICAL_ALERT", 900)
    BY <1>1, <1>3 DEF Hijack, RealAnomaly, VpnCase, Readable
  <2>2. QED
    BY <2>1, VerdictsChange
<1>4. ASSUME Displaced(e)
      PROVE  w.threat /\ w.action = "BLOCK"
  <2>1. w = Raised(v, "BLOCK", 750)
    BY <1>1, <1>4 DEF Displaced, RealAnomaly, VpnCase, Readable
  <2>2. QED
    BY <2>1, VerdictsChange
<1>5. ASSUME ~ Hijack(e), ~ Displaced(e), Harmless(e), v.score > v.threshold
      PROVE  ~ w.threat /\ w.action = "ALLOW"
  <2>1. CASE overruled
    <3>1. PICK half \in Nat : half = v.threshold \div 2 /\ half <= v.threshold
      BY <1>2
    <3>2. PICK u : u = Override(e, v)
      OBVIOUS
    <3>3. u = Cleared(v, half)
      BY <2>1, <3>1, <3>2 DEF Override
    <3>4. /\ ~ u.threat /\ u.action = "ALLOW"
          /\ u.score = half /\ u.threshold = v.threshold
      BY <3>3, VerdictsChange
    <3>5. ~ (u.score > u.threshold)
      BY <1>2, <3>1, <3>4
    <3>6. w = u
      BY <1>5, <3>2, <3>5 DEF VpnCase, Hijack, Displaced, Readable
    <3>7. QED
      BY <3>4, <3>6
  <2>2. CASE ~ overruled
    <3>1. e.vpn /\ ~ e.travel /\ ~ e.geo /\ ~ RealAnomaly(e)
      BY <1>5, <2>2 DEF Harmless, Hijack, Displaced, Readable
    <3>2. PICK cap \in Int : cap = (4 * v.threshold) \div 5
      BY <1>2
    <3>3. w = Cleared(v, cap)
      BY <1>1, <1>5, <2>2, <3>1, <3>2 DEF VpnCase
    <3>4. QED
      BY <3>3, VerdictsChange
  <2>3. QED
    BY <2>1, <2>2
<1>6. ASSUME ~ Hijack(e), ~ Displaced(e), ~ (Harmless(e) /\ v.score > v.threshold)
      PROVE  w = v
  <2>1. ~ overruled
    BY <1>6 DEF Harmless
  <2>2. QED
    BY <1>1, <1>6, <2>1 DEF VpnCase, Harmless, Hijack, Displaced, Readable
<1>7. QED
  BY <1>3, <1>4, <1>5, <1>6

\* The stages of process_event, taken in the order of the code, add up to the
\* policy stated by outcome.
LEMMA DecideIsPolicy ==
  ASSUME NEW e, Readable(e), NEW p \in Predictions
  PROVE  /\ Decide(e, p).threat <=> PolicyThreat(e, p)
         /\ Decide(e, p).action = PolicyAction(e, p)
<1>1. PICK v : v = [threat |-> p.threat, score |-> p.score, threshold |-> p.threshold,
                    action |-> Level(p.score)]
  OBVIOUS
<1>2. /\ p.threat \in BOOLEAN /\ p.score \in Int /\ p.threshold \in Nat
      /\ p.score > p.threshold => p.threat
  BY PredictionsRange
<1>3. /\ v.threat = p.threat /\ v.score = p.score /\ v.threshold = p.threshold
      /\ v.action = Level(p.score)
  BY <1>1
<1>4. v \in Verdict
  <2>1. Level(p.score) \in Actions
    BY <1>2 DEF Level, Actions
  <2>2. QED
    BY <1>1, <1>2, <2>1 DEF Verdict
<1>5. PICK w : w = VpnCase(e, Override(e, v))
  OBVIOUS
<1>6. Decide(e, p) = w
  BY <1>1, <1>5 DEF Decide
<1>7. /\ Hijack(e) => ~ Displaced(e) /\ ~ Harmless(e)
      /\ Displaced(e) => ~ Harmless(e)
  BY DEF Hijack, Displaced, Harmless, RealAnomaly
<1>8. CASE Hijack(e)
  <2>1. Decide(e, p).threat /\ Decide(e, p).action = "CRITICAL_ALERT"
    BY <1>4, <1>5, <1>6, <1>8, CasesByEvidence
  <2>2. PolicyThreat(e, p)
    BY <1>8 DEF PolicyThreat
  <2>3. PolicyAction(e, p) = "CRITICAL_ALERT"
    BY <1>7, <1>8 DEF PolicyAction
  <2>4. QED
    BY <2>1, <2>2, <2>3
<1>9. CASE Displaced(e)
  <2>1. Decide(e, p).threat /\ Decide(e, p).action = "BLOCK"
    BY <1>4, <1>5, <1>6, <1>9, CasesByEvidence
  <2>2. PolicyThreat(e, p)
    BY <1>9 DEF PolicyThreat
  <2>3. PolicyAction(e, p) = "BLOCK"
    BY <1>7, <1>9 DEF PolicyAction
  <2>4. QED
    BY <2>1, <2>2, <2>3
<1>10. CASE ~ Hijack(e) /\ ~ Displaced(e)
  BY <1>3, <1>4, <1>5, <1>6, <1>10, CasesByEvidence DEF PolicyThreat, PolicyAction
<1>11. QED
  BY <1>8, <1>9, <1>10

\* Credentials are rotated exactly for a severe threat when rotation is automatic
\* or asked for.
LEMMA RotationResponse ==
  ASSUME NEW v, NEW a \in BOOLEAN, NEW f \in BOOLEAN
  PROVE  Response(v, a, f) = "rotate" <=> HighSeverity(v) /\ (a \/ f)
BY DEF Response, HighSeverity

-----------------------------------------------------------------------------
(* From the portal to the verdict *)

\* The right password, from an address that nobody takes for a VPN.
Clean(c) ==
  /\ call[c].kind = "login" /\ call[c].ok /\ Len(call[c].name) = 1
  /\ call[c].addr \notin {"vpnAway", "vpnHome"} /\ ~ vpn[c] /\ Threshold < 600

\* Nothing is measured, and no label is given.
Quiet(e) == e.anomaly = "None" /\ ~ e.geo /\ ~ e.travel /\ e.failed = 0 /\ e.mb <= 200

\* A login is scored as the labelled event of the request, before any alert, or
\* as the event of its line.
LoginEvent(c) ==
  \/ event[c].source = "live_portal"
  \/ /\ event[c].source = "vpn_login" /\ event[c].geo /\ event[c].vpn /\ ~ event[c].travel
     /\ ScoredNow(c) /\ alerts[c] = 0

\* How far a call is, and what it has caused.
Story(c) ==
  /\ pc[c] = "new" => ~ vpn[c]
  /\ pc[c] \in {"new", "auth"} => alerts[c] = 0
  /\ call[c].kind = "login" =>
       /\ alerts[c] <= (IF ScoredNow(c) THEN 1 ELSE 0)
       /\ pc[c] \in {"predict", "decide"} => LoginEvent(c)
       /\ pc[c] \in {"log", "line"} /\ ScoredNow(c) => alerts[c] = 1
  /\ Clean(c) => Quiet(event[c]) /\ rotated[c] = {} /\ alerts[c] = 0

DetectionTyped ==
  /\ DetectionTypeOK /\ DOMAIN line = Calls /\ DOMAIN event = Calls /\ DOMAIN score = Calls
  /\ \A c \in Calls : Readable(event[c])

DetectionInv == DetectionTyped /\ \A c \in Calls : Story(c)

\* What a call starts from.
LEMMA BlankEvent == Readable(NoEvent) /\ Quiet(NoEvent) /\ NoEvent.source = "replayed_dataset"
BY DEF NoEvent, Readable, Quiet

\* At the start no call has an event.
LEMMA DetectionStart == DetectionInit => DetectionInv
<1> SUFFICES ASSUME DetectionInit PROVE DetectionInv
  OBVIOUS
<1>1. \A c \in Calls : event[c] = NoEvent /\ score[c] = Unscored /\ line[c] = {} /\ pc[c] = "new"
                       /\ vpn[c] = FALSE /\ alerts[c] = 0 /\ rotated[c] = {}
  BY DEF DetectionInit
<1>2. DetectionTypeOK
  <2>1. \A c \in Calls : call[c].pod \in Pods
    BY DEF DetectionInit, Call
  <2>2. at \in [Calls -> Pods] /\ pc \in [Calls -> Steps] /\ vpn \in [Calls -> BOOLEAN]
    BY <2>1 DEF DetectionInit, Steps
  <2>3. alerts \in [Calls -> Nat] /\ DOMAIN rotated = Calls
    BY DEF DetectionInit
  <2>4. \A c \in Calls : score[c] \in Predictions
    BY <1>1 DEF Predictions
  <2>5. QED
    BY <1>1, <2>2, <2>3, <2>4, BlankEvent DEF DetectionInit, DetectionTypeOK
<1>3. DetectionTyped
  BY <1>1, <1>2, BlankEvent DEF DetectionInit, DetectionTyped
<1>4. \A c \in Calls : Story(c)
  BY <1>1, BlankEvent DEF Story
<1>5. QED
  BY <1>3, <1>4 DEF DetectionInv

\* A step of one call leaves the stories of the others.
LEMMA OtherStories ==
  ASSUME NEW c \in Calls, Story(c), UNCHANGED callVars,
         UNCHANGED <<pc[c], vpn[c], event[c], alerts[c], rotated[c]>>
  PROVE  Story(c)'
BY DEF Story, LoginEvent, Clean, ScoredNow, callVars

\* check_vpn_ip.
LEMMA CheckKeeps ==
  ASSUME DetectionInv, NEW c \in Calls, CheckVpn(c)
  PROVE  DetectionInv'
<1>1. /\ call[c].kind = "login" /\ pc[c] = "new" /\ pc' = [pc EXCEPT ![c] = "auth"]
      /\ UNCHANGED <<callVars, at, line, event, score, effectVars>>
  BY DEF CheckVpn, Goto
<1>2. PICK says \in BOOLEAN : vpn' = [vpn EXCEPT ![c] = says]
  BY DEF CheckVpn
<1>3. DetectionTyped'
  BY <1>1, <1>2 DEF DetectionInv, DetectionTyped, DetectionTypeOK, callVars, effectVars, Steps, Readable
<1>4. Story(c)'
  BY <1>1, <1>2 DEF DetectionInv, DetectionTyped, DetectionTypeOK, Story, Clean, ScoredNow,
     LoginEvent, callVars, effectVars
<1>5. ASSUME NEW d \in Calls, d # c PROVE Story(d)'
  BY <1>1, <1>2, <1>5, OtherStories DEF DetectionInv, DetectionTyped, DetectionTypeOK, callVars, effectVars
<1>6. QED
  BY <1>3, <1>4, <1>5 DEF DetectionInv

\* The password: an accepted login by VPN is scored before it caused anything.
LEMMA AuthenticateKeeps ==
  ASSUME DetectionInv, NEW c \in Calls, Authenticate(c)
  PROVE  DetectionInv'
<1>1. pc[c] = "auth" /\ UNCHANGED <<callVars, at, vpn, line, score, effectVars>>
  BY DEF Authenticate, Goto
<1>2. PICK e : e = VpnLoginEvent(c)
  OBVIOUS
<1>3. /\ e.geo /\ e.vpn /\ ~ e.travel /\ {e.geo, e.vpn, e.travel} \subseteq BOOLEAN
      /\ e.source = "vpn_login" /\ e.failed = 0 /\ e.mb = 10
  BY <1>2 DEF VpnLoginEvent, NoEvent
<1>4. \/ /\ ScoredNow(c) /\ pc' = [pc EXCEPT ![c] = "predict"] /\ event' = [event EXCEPT ![c] = e]
      \/ /\ ~ ScoredNow(c) /\ pc' = [pc EXCEPT ![c] = "log"] /\ UNCHANGED event
  BY <1>2 DEF Authenticate, Goto
<1>5. DetectionTyped'
  <2>1. /\ pc' \in [Calls -> Steps] /\ \A d \in Calls : pc'[d] = "line" <=> pc[d] = "line"
    BY <1>1, <1>4 DEF DetectionInv, DetectionTyped, DetectionTypeOK, Steps
  <2>2. DOMAIN event' = Calls /\ \A d \in Calls : event'[d] = event[d] \/ event'[d] = e
    BY <1>4 DEF DetectionInv, DetectionTyped
  <2>3. \A d \in Calls : /\ Readable(event[d])'
                         /\ event'[d].source = "threat_simulation_portal" => call[d].kind = "simulate"
    <3>1. Readable(e)
      BY <1>3 DEF Readable
    <3>2. e.source # "threat_simulation_portal"
      BY <1>3
    <3>3. QED
      BY <2>2, <3>1, <3>2 DEF DetectionInv, DetectionTyped, DetectionTypeOK, Readable
  <2>4. QED
    BY <1>1, <2>1, <2>2, <2>3 DEF DetectionInv, DetectionTyped, DetectionTypeOK, callVars, effectVars
<1>6. Story(c)'
  BY <1>1, <1>3, <1>4 DEF DetectionInv, DetectionTyped, DetectionTypeOK, Story, Clean, ScoredNow,
     LoginEvent, callVars, effectVars
<1>7. ASSUME NEW d \in Calls, d # c PROVE Story(d)'
  BY <1>1, <1>4, <1>7, OtherStories DEF DetectionInv, DetectionTyped, DetectionTypeOK, callVars, effectVars
<1>8. QED
  BY <1>5, <1>6, <1>7 DEF DetectionInv

\* A simulation; it is nobody's login.
LEMMA SimulateKeeps ==
  ASSUME DetectionInv, NEW c \in Calls, Simulate(c)
  PROVE  DetectionInv'
<1>1. /\ call[c].kind = "simulate" /\ pc[c] = "new" /\ UNCHANGED <<callVars, at, line, score, effectVars>>
  BY DEF Simulate, Goto
<1>2. CASE pc' = [pc EXCEPT ![c] = "done"] /\ UNCHANGED <<event, vpn>>
  <2>1. DetectionTyped'
    BY <1>1, <1>2 DEF DetectionInv, DetectionTyped, DetectionTypeOK, callVars, effectVars, Steps, Readable
  <2>2. Story(c)'
    BY <1>1, <1>2 DEF DetectionInv, DetectionTyped, DetectionTypeOK, Story, Clean, callVars, effectVars
  <2>3. ASSUME NEW d \in Calls, d # c PROVE Story(d)'
    BY <1>1, <1>2, <2>3, OtherStories DEF DetectionInv, DetectionTyped, DetectionTypeOK, callVars, effectVars
  <2>4. QED
    BY <2>1, <2>2, <2>3 DEF DetectionInv
<1>3. CASE ~ (pc' = [pc EXCEPT ![c] = "done"] /\ UNCHANGED <<event, vpn>>)
  <2>1. PICK e \in SimulatedEvents(c) :
          /\ pc' = [pc EXCEPT ![c] = "predict"]
          /\ event' = [event EXCEPT ![c] = e] /\ vpn' = [vpn EXCEPT ![c] = e.vpn]
    BY <1>3 DEF Simulate, Goto
  <2>2. Readable(e) /\ e.vpn \in BOOLEAN
    <3>1. PICK geo \in BOOLEAN, travel \in BOOLEAN, byVpn \in BOOLEAN, failed \in {0, 4, 5},
               mb \in {10, 201} : e = Simulated(c, geo, travel, byVpn, failed, mb)
      BY DEF SimulatedEvents
    <3>2. e.geo \in BOOLEAN /\ e.travel \in BOOLEAN /\ e.vpn \in BOOLEAN
      BY <3>1 DEF Simulated, NoEvent
    <3>3. e.failed \in Int /\ e.mb \in Int
      BY <3>1 DEF Simulated, NoEvent
    <3>4. QED
      BY <3>2, <3>3 DEF Readable
  <2>3. /\ pc' \in [Calls -> Steps] /\ vpn' \in [Calls -> BOOLEAN]
        /\ \A d \in Calls : pc'[d] = "line" <=> pc[d] = "line"
    BY <1>1, <2>1, <2>2 DEF DetectionInv, DetectionTyped, DetectionTypeOK, Steps
  <2>4. DOMAIN event' = Calls /\ \A d \in Calls : event'[d] = IF d = c THEN e ELSE event[d]
    BY <2>1 DEF DetectionInv, DetectionTyped
  <2>5. \A d \in Calls : /\ Readable(event[d])'
                         /\ event'[d].source = "threat_simulation_portal" => call[d].kind = "simulate"
    BY <1>1, <2>2, <2>4 DEF DetectionInv, DetectionTyped, DetectionTypeOK, Readable
  <2>6. \A d \in Calls : \A service \in line[d] : d # c /\ vpn'[d] = vpn[d]
    BY <1>1, <2>1 DEF DetectionInv, DetectionTyped, DetectionTypeOK
  <2>7. DetectionTyped'
    BY <1>1, <2>3, <2>4, <2>5, <2>6 DEF DetectionInv, DetectionTyped, DetectionTypeOK, callVars, effectVars
  <2>8. Story(c)'
    BY <1>1, <2>1, <2>2, <2>3 DEF DetectionInv, DetectionTyped, DetectionTypeOK, Story, Clean, callVars, effectVars
  <2>9. ASSUME NEW d \in Calls, d # c PROVE Story(d)'
    BY <1>1, <2>1, <2>9, OtherStories DEF DetectionInv, DetectionTyped, DetectionTypeOK, callVars, effectVars
  <2>10. QED
    BY <2>7, <2>8, <2>9 DEF DetectionInv
<1>4. QED
  BY <1>2, <1>3

\* The Zeek line says what the portal found.
LEMMA WriteKeeps ==
  ASSUME DetectionInv, NEW c \in Calls, WriteZeekLog(c)
  PROVE  DetectionInv'
<1>1. pc[c] = "log" /\ UNCHANGED <<callVars, at, vpn, event, score, effectVars>>
  BY DEF WriteZeekLog, Goto
<1>2. PICK written : written = Service(call[c].name, call[c].ok, vpn[c])
  OBVIOUS
<1>3. \/ pc' = [pc EXCEPT ![c] = "line"] /\ line' = [line EXCEPT ![c] = {written}]
      \/ pc' = [pc EXCEPT ![c] = "done"] /\ UNCHANGED line
  BY <1>2 DEF WriteZeekLog, Goto
<1>4. DetectionTyped'
  <2>1. /\ pc' \in [Calls -> Steps] /\ DOMAIN line' = Calls
        /\ \A d \in Calls : pc'[d] = "line" <=> line'[d] # {}
    <3>1. CASE pc' = [pc EXCEPT ![c] = "line"] /\ line' = [line EXCEPT ![c] = {written}]
      BY <1>1, <3>1 DEF DetectionInv, DetectionTyped, DetectionTypeOK, Steps
    <3>2. CASE pc' = [pc EXCEPT ![c] = "done"] /\ UNCHANGED line
      BY <1>1, <3>2 DEF DetectionInv, DetectionTyped, DetectionTypeOK, Steps
    <3>3. QED
      BY <1>3, <3>1, <3>2
  <2>2. \A d \in Calls : \A service \in line'[d] : service = Service(call[d].name, call[d].ok, vpn[d])
    BY <1>2, <1>3 DEF DetectionInv, DetectionTyped, DetectionTypeOK
  <2>3. QED
    BY <1>1, <2>1, <2>2 DEF DetectionInv, DetectionTyped, DetectionTypeOK, callVars, effectVars, Readable, Service
<1>5. Story(c)'
  BY <1>1, <1>3 DEF DetectionInv, DetectionTyped, DetectionTypeOK, Story, Clean, ScoredNow,
     LoginEvent, callVars, effectVars
<1>6. ASSUME NEW d \in Calls, d # c PROVE Story(d)'
  BY <1>1, <1>3, <1>6, OtherStories DEF DetectionInv, DetectionTyped, DetectionTypeOK, callVars, effectVars
<1>7. QED
  BY <1>4, <1>5, <1>6 DEF DetectionInv

\* The models answer.
LEMMA PredictKeeps ==
  ASSUME DetectionInv, NEW c \in Calls, Predict(c)
  PROVE  DetectionInv'
<1>1. /\ pc[c] = "predict" /\ pc' = [pc EXCEPT ![c] = "decide"]
      /\ UNCHANGED <<callVars, at, vpn, line, event, effectVars>>
  BY DEF Predict, Goto
<1>2. PICK p \in Predictions : score' = [score EXCEPT ![c] = p]
  BY DEF Predict
<1>3. DetectionTyped'
  BY <1>1, <1>2 DEF DetectionInv, DetectionTyped, DetectionTypeOK, callVars, effectVars, Steps, Readable
<1>4. Story(c)'
  BY <1>1 DEF DetectionInv, DetectionTyped, DetectionTypeOK, Story, Clean, ScoredNow,
     LoginEvent, callVars, effectVars
<1>5. ASSUME NEW d \in Calls, d # c PROVE Story(d)'
  BY <1>1, <1>5, OtherStories DEF DetectionInv, DetectionTyped, DetectionTypeOK, callVars, effectVars
<1>6. QED
  BY <1>3, <1>4, <1>5 DEF DetectionInv

\* The line of a successful login without a VPN mark, of a name without "_",
\* says "success" where process_raw_event looks for it.
LEMMA CleanLine ==
  ASSUME NEW name \in Seq(STRING), Len(name) = 1, NEW service, service = Service(name, TRUE, FALSE)
  PROVE  Parts(service)[3] = "success"
<1> DEFINE W == STRING \union {"auth", "success"}
<1>1. PICK first, last : first = <<"auth">> /\ last = <<"success">>
  OBVIOUS
<1>2. PICK a, b : a = first \o name /\ b = a \o last
  OBVIOUS
<1>3. /\ name \in Seq(W)
      /\ first \in Seq(W) /\ Len(first) = 1
      /\ last \in Seq(W) /\ Len(last) = 1 /\ last[1] = "success"
  BY <1>1
<1> HIDE DEF W
<1>4. b \in Seq(W) /\ Len(b) = 3 /\ b[3] = "success"
  <2>1. \A s, t \in Seq(W) :
          /\ s \o t \in Seq(W) /\ Len(s \o t) = Len(s) + Len(t)
          /\ \A i \in 1 .. Len(s) + Len(t) :
               (s \o t)[i] = IF i <= Len(s) THEN s[i] ELSE t[i - Len(s)]
    BY ConcatProperties
  <2>2. a \in Seq(W) /\ Len(a) = 2
    <3>1. a \in Seq(W) /\ Len(a) = Len(first) + Len(name)
      BY <1>2, <1>3, <2>1, Zenon
    <3>2. QED
      BY <1>3, <3>1
  <2>3. b \in Seq(W) /\ Len(b) = 3
    <3>1. b \in Seq(W) /\ Len(b) = Len(a) + Len(last)
      BY <1>2, <1>3, <2>1, <2>2, Zenon
    <3>2. QED
      BY <1>3, <2>2, <3>1
  <2>4. b[3] = last[3 - Len(a)]
    <3>1. 3 \in 1 .. Len(a) + Len(last) /\ ~ (3 <= Len(a))
      BY <1>3, <2>2
    <3>2. b[3] = IF 3 <= Len(a) THEN a[3] ELSE last[3 - Len(a)]
      BY <1>2, <1>3, <2>1, <2>2, <3>1, Zenon
    <3>3. QED
      BY <3>1, <3>2
  <2>5. QED
    BY <1>3, <2>2, <2>3, <2>4
<1>5. service = b
  <2>1. service = b \o <<>>
    BY <1>1, <1>2 DEF Service
  <2>2. QED
    BY <1>4, <2>1, ConcatEmptySeq
<1>6. QED
  BY <1>4, <1>5 DEF Parts

\* What process_raw_event reads off a line.
LEMMA DecodeReads ==
  ASSUME NEW service, NEW addr, NEW e, e = Decode(service, addr)
  PROVE  /\ Readable(e) /\ e.source = "live_portal"
         /\ addr \notin {"vpnAway", "vpnHome"} /\ Parts(service)[3] = "success" => Quiet(e)
<1>1. /\ e.source = "live_portal" /\ e.travel \in BOOLEAN /\ ~ e.travel /\ e.mb = 0
      /\ e.anomaly = "None" /\ e.geo \in BOOLEAN /\ e.vpn \in BOOLEAN
  BY DEF Decode, NoEvent
<1>2. e.geo <=> addr = "vpnAway"
  BY DEF Decode, NoEvent
<1>3. e.failed = IF Parts(service)[3] = "success" THEN 0 ELSE 5
  BY DEF Decode, NoEvent
<1>4. QED
  BY <1>1, <1>2, <1>3 DEF Readable, Quiet

\* The Kafka thread of a pod takes the line of a call.
LEMMA ConsumeKeeps ==
  ASSUME DetectionInv, NEW c \in Calls, NEW p \in Pods, ConsumeLine(c, p)
  PROVE  DetectionInv'
<1>1. /\ pc[c] = "line" /\ pc' = [pc EXCEPT ![c] = "predict"] /\ at' = [at EXCEPT ![c] = p]
      /\ line' = [line EXCEPT ![c] = {}] /\ UNCHANGED <<callVars, vpn, score, effectVars>>
  BY DEF ConsumeLine, Goto
<1>2. PICK service \in line[c] : event' = [event EXCEPT ![c] = Decode(service, call[c].addr)]
  BY DEF ConsumeLine
<1>3. PICK e, addr : addr = call[c].addr /\ e = Decode(service, addr)
  OBVIOUS
<1>4. /\ Readable(e) /\ e.source = "live_portal"
      /\ addr \notin {"vpnAway", "vpnHome"} /\ Parts(service)[3] = "success" => Quiet(e)
  BY <1>3, DecodeReads
<1>5. Clean(c) => Quiet(e)
  <2>1. SUFFICES ASSUME Clean(c) PROVE Parts(service)[3] = "success"
    BY <1>3, <1>4 DEF Clean
  <2>2. call[c].name \in Names /\ call[c].ok \in BOOLEAN /\ vpn[c] \in BOOLEAN
    BY DEF DetectionInv, DetectionTyped, DetectionTypeOK, Call
  <2>3. PICK name \in Seq(STRING) : name = call[c].name /\ Len(name) = 1
    BY <2>1, <2>2, DetectionConstantsOK DEF Clean
  <2>4. call[c].ok = TRUE /\ vpn[c] = FALSE
    BY <2>1, <2>2 DEF Clean
  <2>5. service = Service(name, TRUE, FALSE)
    BY <2>3, <2>4 DEF DetectionInv, DetectionTyped, DetectionTypeOK
  <2>6. QED
    BY <2>3, <2>5, CleanLine
<1>6. \A d \in Calls : event'[d] = IF d = c THEN e ELSE event[d]
  BY <1>2, <1>3 DEF DetectionInv, DetectionTyped
<1>7. DetectionTyped'
  <2>1. /\ pc' \in [Calls -> Steps] /\ at' \in [Calls -> Pods]
        /\ DOMAIN line' = Calls /\ DOMAIN event' = Calls
    BY <1>1, <1>2 DEF DetectionInv, DetectionTyped, DetectionTypeOK, Steps
  <2>2. \A d \in Calls : /\ line'[d] = IF d = c THEN {} ELSE line[d]
                         /\ pc'[d] = IF d = c THEN "predict" ELSE pc[d]
    BY <1>1 DEF DetectionInv, DetectionTyped, DetectionTypeOK
  <2>3. \A d \in Calls : /\ Readable(event'[d])
                         /\ event'[d].source = "threat_simulation_portal" => call[d].kind = "simulate"
    BY <1>4, <1>6 DEF DetectionInv, DetectionTyped, DetectionTypeOK
  <2>4. QED
    BY <1>1, <2>1, <2>2, <2>3 DEF DetectionInv, DetectionTyped, DetectionTypeOK, callVars, effectVars, Readable
<1>8. Story(c)'
  BY <1>1, <1>4, <1>5, <1>6 DEF DetectionInv, DetectionTyped, DetectionTypeOK, Story, Clean, ScoredNow,
     LoginEvent, callVars, effectVars, Quiet
<1>9. ASSUME NEW d \in Calls, d # c PROVE Story(d)'
  BY <1>1, <1>6, <1>9, OtherStories DEF DetectionInv, DetectionTyped, DetectionTypeOK, callVars, effectVars
<1>10. QED
  BY <1>7, <1>8, <1>9 DEF DetectionInv

\* A replayed connection; it is nobody's login.
LEMMA ReplayKeeps ==
  ASSUME DetectionInv, NEW c \in Calls, ConsumeReplay(c)
  PROVE  DetectionInv'
<1>1. /\ call[c].kind = "replay" /\ pc[c] = "new" /\ pc' = [pc EXCEPT ![c] = "predict"]
      /\ UNCHANGED <<callVars, at, vpn, line, score, effectVars>>
  BY DEF ConsumeReplay, Goto
<1>2. PICK e \in ReplayedEvents(c) : event' = [event EXCEPT ![c] = e]
  BY DEF ConsumeReplay
<1>3. Readable(e) /\ e.source = "replayed_dataset"
  <2>1. PICK geo \in BOOLEAN, travel \in BOOLEAN, mb \in {10, 201},
               label \in ReplayedLabels : e = Replayed(c, geo, travel, mb, label)
    BY DEF ReplayedEvents
  <2>2. e.geo \in BOOLEAN /\ e.travel \in BOOLEAN /\ e.vpn \in BOOLEAN
    BY <2>1 DEF Replayed, NoEvent
  <2>3. e.failed \in Int /\ e.mb \in Int /\ e.source = "replayed_dataset"
    BY <2>1 DEF Replayed, NoEvent
  <2>4. QED
    BY <2>2, <2>3 DEF Readable
<1>4. \A d \in Calls : event'[d] = IF d = c THEN e ELSE event[d]
  BY <1>2 DEF DetectionInv, DetectionTyped
<1>5. DetectionTyped'
  <2>1. /\ pc' \in [Calls -> Steps] /\ DOMAIN event' = Calls
        /\ \A d \in Calls : pc'[d] = "line" <=> pc[d] = "line"
    BY <1>1, <1>2 DEF DetectionInv, DetectionTyped, DetectionTypeOK, Steps
  <2>2. \A d \in Calls : /\ Readable(event'[d])
                         /\ event'[d].source = "threat_simulation_portal" => call[d].kind = "simulate"
    BY <1>3, <1>4 DEF DetectionInv, DetectionTyped, DetectionTypeOK
  <2>3. QED
    BY <1>1, <2>1, <2>2 DEF DetectionInv, DetectionTyped, DetectionTypeOK, callVars, effectVars, Readable
<1>6. Story(c)'
  BY <1>1 DEF DetectionInv, DetectionTyped, DetectionTypeOK, Story, Clean, callVars, effectVars
<1>7. ASSUME NEW d \in Calls, d # c PROVE Story(d)'
  BY <1>1, <1>4, <1>7, OtherStories DEF DetectionInv, DetectionTyped, DetectionTypeOK, callVars, effectVars
<1>8. QED
  BY <1>5, <1>6, <1>7 DEF DetectionInv

\* The pod dies: what it worked on has no more effects.
LEMMA DeathKeeps ==
  ASSUME DetectionInv, NEW p \in Pods, PodDies(p)
  PROVE  DetectionInv'
<1>1. /\ pc' = [c \in Calls |-> IF at[c] = p /\ pc[c] \notin {"new", "line"} THEN "done" ELSE pc[c]]
      /\ event' = [c \in Calls |-> IF at[c] = p THEN NoEvent ELSE event[c]]
      /\ score' = [c \in Calls |-> IF at[c] = p THEN Unscored ELSE score[c]]
      /\ UNCHANGED <<callVars, at, vpn, line, effectVars>>
  BY DEF PodDies
<1>2. DetectionTyped'
  <2>1. /\ pc' \in [Calls -> Steps] /\ DOMAIN event' = Calls /\ DOMAIN score' = Calls
        /\ \A c \in Calls : pc'[c] = "line" <=> pc[c] = "line"
    BY <1>1 DEF DetectionInv, DetectionTyped, DetectionTypeOK, Steps
  <2>2. \A c \in Calls : /\ Readable(event'[c])
                         /\ event'[c].source = "threat_simulation_portal" => call[c].kind = "simulate"
    BY <1>1, BlankEvent DEF DetectionInv, DetectionTyped, DetectionTypeOK
  <2>3. \A c \in Calls : score'[c] \in Predictions
    BY <1>1 DEF DetectionInv, DetectionTyped, DetectionTypeOK, Predictions
  <2>4. QED
    BY <1>1, <2>1, <2>2, <2>3 DEF DetectionInv, DetectionTyped, DetectionTypeOK, callVars, effectVars, Readable
<1>3. ASSUME NEW c \in Calls PROVE Story(c)'
  BY <1>1, BlankEvent DEF DetectionInv, DetectionTyped, DetectionTypeOK, Story, Clean, ScoredNow,
     LoginEvent, callVars, effectVars
<1>4. QED
  BY <1>2, <1>3 DEF DetectionInv

\* By the policy, the event of a call is severe.
Grave(c) ==
  /\ PolicyThreat(event[c], score[c])
  /\ PolicyAction(event[c], score[c]) \in {"BLOCK", "CRITICAL_ALERT"}

\* What follows from a verdict is what the policy asks for.
LEMMA ActByPolicy ==
  ASSUME DetectionInv, NEW c \in Calls, Act(c)
  PROVE  /\ rotated' = [rotated EXCEPT ![c] = IF Grave(c) /\ (auto \/ Forced(c))
                                             THEN @ \union {event[c].user} ELSE @]
         /\ alerts' = [alerts EXCEPT ![c] = IF Grave(c) /\ event[c].source # "live_portal"
                                           THEN @ + 1 ELSE @]
<1>1. PICK e, p : e = event[c] /\ p = score[c]
  OBVIOUS
<1>2. Readable(e) /\ p \in Predictions
  BY <1>1 DEF DetectionInv, DetectionTyped, DetectionTypeOK
<1>3. PICK v : v = Decide(e, p)
  OBVIOUS
<1>4. HighSeverity(v) <=> Grave(c)
  <2>1. (v.threat <=> PolicyThreat(e, p)) /\ v.action = PolicyAction(e, p)
    BY <1>2, <1>3, DecideIsPolicy
  <2>2. QED
    BY <1>1, <2>1 DEF HighSeverity, Grave
<1>5. PICK a \in BOOLEAN, f \in BOOLEAN : a = auto /\ f = Forced(c)
  BY DEF DetectionInv, DetectionTyped, DetectionTypeOK, Forced
<1>6. Rotates(c) <=> Grave(c) /\ (auto \/ Forced(c))
  BY <1>1, <1>3, <1>4, <1>5, RotationResponse DEF Rotates, Decided
<1>7. RaisesAlert(event[c], Decided(c)) <=> Grave(c) /\ event[c].source # "live_portal"
  BY <1>1, <1>3, <1>4 DEF RaisesAlert, Decided
<1>8. QED
  BY <1>6, <1>7 DEF Act

\* The event of a login by VPN that is scored in the request is severe, whatever
\* the models predict.
LEMMA VpnLoginIsGrave ==
  ASSUME NEW c \in Calls, event[c].geo, event[c].vpn, ~ event[c].travel
  PROVE  Grave(c)
<1>1. Displaced(event[c]) /\ ~ Hijack(event[c]) /\ ~ Harmless(event[c])
  BY DEF Displaced, Hijack, Harmless, RealAnomaly
<1>2. PolicyThreat(event[c], score[c])
  BY <1>1 DEF PolicyThreat
<1>3. PolicyAction(event[c], score[c]) = "BLOCK"
  BY <1>1 DEF PolicyAction
<1>4. QED
  BY <1>2, <1>3 DEF Grave

\* Where nothing is measured only a score equal to the threshold is a threat,
\* and below 600 that is none to act on.
LEMMA QuietIsNotGrave ==
  ASSUME DetectionInv, NEW c \in Calls, Quiet(event[c]), Threshold < 600
  PROVE  ~ Grave(c)
<1>1. PICK e, p : e = event[c] /\ p = score[c]
  OBVIOUS
<1>2. Readable(e) /\ p \in Predictions /\ Quiet(e)
  BY <1>1 DEF DetectionInv, DetectionTyped, DetectionTypeOK
<1>3. ~ Hijack(e) /\ ~ Displaced(e)
  BY <1>2 DEF Quiet, Hijack, Displaced
<1>4. Harmless(e)
  <2>1. Label(e) = "None"
    BY <1>2 DEF Quiet, Readable, Label
  <2>2. ~ RealAnomaly(e)
    BY <1>2 DEF Quiet, Readable, RealAnomaly
  <2>3. QED
    BY <2>1, <2>2 DEF Harmless
<1>5. SUFFICES ASSUME PolicyThreat(e, p)
               PROVE  PolicyAction(e, p) \notin {"BLOCK", "CRITICAL_ALERT"}
  BY <1>1 DEF Grave
<1>6. p.threat /\ ~ (p.score > p.threshold)
  BY <1>3, <1>4, <1>5 DEF PolicyThreat
<1>7. p.score \in Nat /\ p.score < 600
  BY <1>2, <1>6, PredictionsRange, DecisionConstantsOK
<1>8. PolicyAction(e, p) = Level(p.score)
  BY <1>3, <1>4, <1>6 DEF PolicyAction
<1>9. Level(p.score) \in {"ALLOW", "MONITOR"}
  BY <1>7 DEF Level
<1>10. QED
  BY <1>8, <1>9

\* The verdict: it alerts once for the labelled login, never for a line of the
\* portal, and spares a clean login.
LEMMA ActKeeps ==
  ASSUME DetectionInv, NEW c \in Calls, Act(c)
  PROVE  DetectionInv'
<1>1. /\ pc[c] = "decide" /\ pc' = [pc EXCEPT ![c] = IF ByKafka(c) THEN "done" ELSE "log"]
      /\ event' = [event EXCEPT ![c] = NoEvent] /\ score' = [score EXCEPT ![c] = Unscored]
      /\ UNCHANGED <<callVars, at, vpn, line>>
  BY DEF Act, Goto
<1>2. DetectionTyped'
  <2>1. /\ pc' \in [Calls -> Steps] /\ DOMAIN event' = Calls /\ DOMAIN score' = Calls
        /\ \A d \in Calls : pc'[d] = "line" <=> pc[d] = "line"
    BY <1>1 DEF DetectionInv, DetectionTyped, DetectionTypeOK, Steps
  <2>2. \A d \in Calls : /\ Readable(event'[d])
                         /\ event'[d].source = "threat_simulation_portal" => call[d].kind = "simulate"
    BY <1>1, BlankEvent DEF DetectionInv, DetectionTyped, DetectionTypeOK
  <2>3. \A d \in Calls : score'[d] \in Predictions
    BY <1>1 DEF DetectionInv, DetectionTyped, DetectionTypeOK, Predictions
  <2>4. alerts' \in [Calls -> Nat] /\ DOMAIN rotated' = Calls
    BY ActByPolicy DEF DetectionInv, DetectionTyped, DetectionTypeOK
  <2>5. QED
    BY <1>1, <2>1, <2>2, <2>3, <2>4 DEF DetectionInv, DetectionTyped, DetectionTypeOK, callVars, Readable
<1>3. /\ alerts'[c] = IF Grave(c) /\ event[c].source # "live_portal" THEN alerts[c] + 1 ELSE alerts[c]
      /\ ~ Grave(c) => rotated'[c] = rotated[c]
      /\ \A d \in Calls : d # c => alerts'[d] = alerts[d] /\ rotated'[d] = rotated[d]
  BY ActByPolicy DEF DetectionInv, DetectionTyped, DetectionTypeOK
<1>4. Story(c)'
  <2>1. event'[c] = NoEvent /\ pc'[c] = (IF ByKafka(c) THEN "done" ELSE "log")
    BY <1>1 DEF DetectionInv, DetectionTyped, DetectionTypeOK
  <2>2. Clean(c) => ~ Grave(c)
    BY QuietIsNotGrave DEF DetectionInv, Story, Clean
  <2>3. ASSUME call[c].kind = "login"
        PROVE  /\ alerts'[c] <= (IF ScoredNow(c) THEN 1 ELSE 0)
               /\ pc'[c] = "log" => alerts'[c] = 1
    <3>1. CASE event[c].source = "live_portal"
      BY <1>3, <2>1, <2>3, <3>1 DEF DetectionInv, Story, ByKafka
    <3>2. CASE event[c].source # "live_portal"
      <4>1. /\ event[c].source = "vpn_login" /\ event[c].geo /\ event[c].vpn /\ ~ event[c].travel
            /\ ScoredNow(c) /\ alerts[c] = 0
        BY <1>1, <2>3, <3>2 DEF DetectionInv, Story, LoginEvent
      <4>2. alerts'[c] = 1
        BY <1>3, <3>2, <4>1, VpnLoginIsGrave
      <4>3. QED
        BY <4>1, <4>2
    <3>3. QED
      BY <3>1, <3>2
  <2>4. QED
    BY <1>1, <1>3, <2>1, <2>2, <2>3, BlankEvent
       DEF DetectionInv, DetectionTyped, DetectionTypeOK, Story, Clean, ScoredNow, LoginEvent, callVars
<1>5. ASSUME NEW d \in Calls, d # c PROVE Story(d)'
  BY <1>1, <1>3, <1>5, OtherStories DEF DetectionInv, DetectionTyped, DetectionTypeOK
<1>6. QED
  BY <1>2, <1>4, <1>5 DEF DetectionInv

\* Every step keeps the stories.
LEMMA DetectionStep == DetectionInv /\ [DetectionNext]_detectionVars => DetectionInv'
<1> SUFFICES ASSUME DetectionInv, [DetectionNext]_detectionVars
             PROVE  DetectionInv'
  OBVIOUS
<1>1. ASSUME NEW c \in Calls, Request(c) PROVE DetectionInv'
  BY <1>1, CheckKeeps, AuthenticateKeeps, SimulateKeeps, WriteKeeps DEF Request
<1>2. ASSUME NEW c \in Calls, Kafka(c) PROVE DetectionInv'
  BY <1>2, ConsumeKeeps, ReplayKeeps DEF Kafka
<1>3. ASSUME NEW c \in Calls, ProcessEvent(c) PROVE DetectionInv'
  BY <1>3, PredictKeeps, ActKeeps DEF ProcessEvent
<1>4. ASSUME NEW p \in Pods, PodDies(p) PROVE DetectionInv'
  BY <1>4, DeathKeeps
<1>5. CASE UNCHANGED detectionVars
  <2>1. DetectionTyped'
    BY <1>5 DEF detectionVars, callVars, effectVars, DetectionInv, DetectionTyped, DetectionTypeOK, Readable
  <2>2. \A c \in Calls : Story(c)'
    BY <1>5, OtherStories DEF detectionVars, callVars, effectVars, DetectionInv
  <2>3. QED
    BY <2>1, <2>2 DEF DetectionInv
<1>6. QED
  BY <1>1, <1>2, <1>3, <1>4, <1>5 DEF DetectionNext

\* The stories hold throughout.
LEMMA DetectionInvariant == DetectionSpec => []DetectionInv
BY DetectionStart, DetectionStep, PTL DEF DetectionSpec

\* A login by VPN alerts the administrators once and no other login does, for any
\* number of pods and calls, whatever check_vpn_ip says and the models predict.
THEOREM VpnLoginsAlertOnce == DetectionSpec => []VpnLoginAlertsOnce
<1>1. DetectionInv => VpnLoginAlertsOnce
  BY DEF DetectionInv, DetectionTyped, DetectionTypeOK, Story, ScoredNow, VpnLoginAlertsOnce
<1>2. QED
  BY <1>1, DetectionInvariant, PTL

\* A login with the right password from an address that nobody takes for a VPN
\* neither rotates credentials nor alerts, for any threshold below 600 and
\* whatever the models predict.
THEOREM CleanLoginsPass == DetectionSpec => []CleanLoginIsAllowed
<1>1. DetectionInv => CleanLoginIsAllowed
  BY DEF DetectionInv, Story, Clean, CleanLoginIsAllowed
<1>2. QED
  BY <1>1, DetectionInvariant, PTL
\* What a step may cause, call by call.
FollowsPolicy(c) ==
  /\ rotated'[c] # rotated[c] => Grave(c) /\ (auto \/ Forced(c))
  /\ alerts'[c] # alerts[c] => Grave(c) /\ event[c].source # "live_portal"
  /\ pc[c] = "decide" /\ pc'[c] # "decide" /\ Grave(c) =>
       \/ PodDies(at[c])
       \/ /\ auto \/ Forced(c) => event[c].user \in rotated'[c]
          /\ event[c].source # "live_portal" => alerts'[c] = alerts[c] + 1

\* The verdict does exactly what the policy asks for.
LEMMA ActFollowsPolicy ==
  ASSUME DetectionInv, NEW c \in Calls, Act(c), NEW d \in Calls
  PROVE  FollowsPolicy(d)
<1>1. /\ rotated' = [rotated EXCEPT ![c] = IF Grave(c) /\ (auto \/ Forced(c))
                                          THEN @ \union {event[c].user} ELSE @]
      /\ alerts' = [alerts EXCEPT ![c] = IF Grave(c) /\ event[c].source # "live_portal"
                                        THEN @ + 1 ELSE @]
  BY ActByPolicy
<1>2. /\ DOMAIN rotated = Calls /\ alerts \in [Calls -> Nat] /\ pc \in [Calls -> Steps]
      /\ \E to : pc' = [pc EXCEPT ![c] = to]
  BY DEF DetectionInv, DetectionTyped, DetectionTypeOK, Act, Goto
<1>3. CASE d = c
  BY <1>1, <1>2, <1>3 DEF FollowsPolicy
<1>4. CASE d # c
  BY <1>1, <1>2, <1>4 DEF FollowsPolicy
<1>5. QED
  BY <1>3, <1>4

\* No other step has any effect, or takes a call from its verdict.
LEMMA OthersFollowPolicy ==
  ASSUME DetectionInv, NEW c \in Calls, Request(c) \/ Kafka(c) \/ Predict(c), NEW d \in Calls
  PROVE  FollowsPolicy(d)
<1>1. UNCHANGED effectVars
  BY DEF Request, CheckVpn, Authenticate, Simulate, WriteZeekLog, Kafka, ConsumeReplay, ConsumeLine, Predict
<1>2. pc[c] # "decide" /\ \E to : pc' = [pc EXCEPT ![c] = to]
  BY DEF Request, CheckVpn, Authenticate, Simulate, WriteZeekLog, Kafka, ConsumeReplay, ConsumeLine,
         Predict, Goto
<1>3. pc \in [Calls -> Steps]
  BY DEF DetectionInv, DetectionTyped, DetectionTypeOK
<1>4. QED
  BY <1>1, <1>2, <1>3 DEF FollowsPolicy, effectVars

\* Credentials are rotated and administrators alerted exactly for a hijacked or a
\* displaced VPN session, or for a severe score that some evidence backs, for any
\* scores and any threshold of the models.
THEOREM EffectsAreThePolicy == DetectionSpec => EffectsFollowPolicy
<1>1. ASSUME DetectionInv, DetectionNext, NEW d \in Calls
      PROVE  FollowsPolicy(d)
  <2>1. CASE \E c \in Calls : Request(c) \/ Kafka(c) \/ Predict(c)
    BY <1>1, <2>1, OthersFollowPolicy
  <2>2. CASE \E c \in Calls : Act(c)
    BY <1>1, <2>2, ActFollowsPolicy
  <2>3. CASE \E p \in Pods : PodDies(p)
    <3>1. PICK p \in Pods : PodDies(p)
      BY <2>3
    <3>2. UNCHANGED effectVars /\ (pc'[d] # pc[d] => at[d] = p)
      BY <1>1, <3>1 DEF PodDies
    <3>3. QED
      BY <3>1, <3>2 DEF FollowsPolicy, effectVars
  <2>4. QED
    BY <1>1, <2>1, <2>2, <2>3 DEF DetectionNext, ProcessEvent
<1>2. DetectionInv /\ [DetectionNext]_detectionVars
        => [\A c \in Calls : FollowsPolicy(c)]_detectionVars
  BY <1>1
<1>3. (\A c \in Calls : FollowsPolicy(c)) =>
        \A c \in Calls :
          LET e == event[c]
              grave == /\ PolicyThreat(e, score[c])
                       /\ PolicyAction(e, score[c]) \in {"BLOCK", "CRITICAL_ALERT"}
          IN /\ rotated'[c] # rotated[c] => grave /\ (auto \/ Forced(c))
             /\ alerts'[c] # alerts[c] => grave /\ e.source # "live_portal"
             /\ pc[c] = "decide" /\ pc'[c] # "decide" /\ grave =>
                  \/ PodDies(at[c])
                  \/ /\ auto \/ Forced(c) => e.user \in rotated'[c]
                     /\ e.source # "live_portal" => alerts'[c] = alerts[c] + 1
  BY DEF FollowsPolicy, Grave
<1>4. DetectionSpec => [][\A c \in Calls : FollowsPolicy(c)]_detectionVars
  BY <1>2, DetectionInvariant, PTL DEF DetectionSpec
<1>5. QED
  BY <1>3, <1>4, PTL DEF EffectsFollowPolicy

-----------------------------------------------------------------------------
(* The composition *)

\* The composition runs the three components and nothing else.
LEMMA ScoringRunsThree == Spec => DetectionSpec /\ VpnSpec /\ HistorySpec
<1>1. Init => DetectionInit /\ VpnInit /\ HistoryInit
  BY DEF Init
<1>2. [Next]_vars => [DetectionNext]_detectionVars /\ [VpnNext]_vpnVars /\ [HistoryNext]_historyVars
  BY DEF Next, vars
<1>3. QED
  BY <1>1, <1>2, PTL DEF Spec, DetectionSpec, VpnSpec, HistorySpec

\* The variables of the three components keep their types.
THEOREM ScoringTypesKept == Spec => []TypeOK
<1>1. VpnSpec => []CacheInv
  BY CacheInit, CacheStep, PTL DEF VpnSpec
<1>2. HistorySpec => []HistoryInv
  BY HistoryStart, HistoryStep, PTL DEF HistorySpec
<1>3. DetectionInv /\ CacheInv /\ HistoryInv => TypeOK
  BY DEF DetectionInv, DetectionTyped, CacheInv, HistoryInv, TypeOK
<1>4. QED
  BY <1>1, <1>2, <1>3, DetectionInvariant, ScoringRunsThree, PTL
=============================================================================
