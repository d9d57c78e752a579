------------------------------ MODULE VpnCache ------------------------------
(***************************************************************************)
(* check_vpn_ip of backend/app/routes/auth.py for one public address: a    *)
(* dictionary in each process (L1), the Redis key vpn:<ip> shared by the   *)
(* pods (L2), and the ip-api.com lookup, whose verdict on an address may   *)
(* change.  A fresh L1 entry is returned as it is, and the guess made when *)
(* the lookup fails is cached nowhere: neither changes any state.          *)
(***************************************************************************)
EXTENDS Integers

CONSTANTS Processes,  \* backend processes, one per pod
          VpnTTL,     \* _VPN_CACHE_TTL (ten minutes), in ticks of the clock
          VpnTimes    \* bound: the clock

ASSUME VpnConstantsOK == VpnTTL \in Nat \ {0} /\ VpnTimes \in Nat /\ Processes # {}

VARIABLES
  now,      \* the clock
  proxied,  \* what ip-api.com answers now
  changed,  \* when it last changed its answer
  l1,       \* per pod: the entries of _vpn_cache for the address, at most one
  l2,       \* the Redis entries for it, at most one
  sharing   \* per pod: verdicts looked up and not yet written to Redis

cacheVars == <<proxied, changed, l1, l2, sharing>>
vpnVars == <<now, cacheVars>>

L1Entry == [vpn : BOOLEAN, ts : Nat]
L2Entry == [vpn : BOOLEAN, until : Nat]

VpnTypeOK ==
  /\ now \in Nat /\ proxied \in BOOLEAN /\ changed \in Nat
  /\ l1 \in [Processes -> SUBSET L1Entry] /\ l2 \subseteq L2Entry
  /\ sharing \in [Processes -> SUBSET BOOLEAN]

VpnInit ==
  /\ now = 0 /\ proxied \in BOOLEAN /\ changed = 0
  /\ l1 = [p \in Processes |-> {}] /\ l2 = {} /\ sharing = [p \in Processes |-> {}]

-----------------------------------------------------------------------------
\* Entries that a request is answered from.
L1Fresh_Unbounded(p) == l1[p]
L1Fresh(p) == {entry \in l1[p] : now - entry.ts < VpnTTL}
L2Fresh    == {entry \in l2 : now < entry.until}

\* A Redis hit is copied into the process with a new timestamp.
HitL2(p) ==
  /\ L1Fresh(p) = {}
  /\ \E entry \in L2Fresh : l1' = [l1 EXCEPT ![p] = {[vpn |-> entry.vpn, ts |-> now]}]
  /\ UNCHANGED <<proxied, changed, l2, sharing>>

\* The lookup; Redis had no entry, or did not answer.
LookUp(p) ==
  /\ L1Fresh(p) = {} /\ sharing[p] = {}
  /\ l1' = [l1 EXCEPT ![p] = {[vpn |-> proxied, ts |-> now]}]
  /\ sharing' = [sharing EXCEPT ![p] = {proxied}]
  /\ UNCHANGED <<proxied, changed, l2>>

\* SETEX of a looked-up verdict, unless Redis fails.
ShareVerdict(p) ==
  /\ \E verdict \in sharing[p] :
       l2' \in {l2, {[vpn |-> verdict, until |-> now + VpnTTL]}}
  /\ sharing' = [sharing EXCEPT ![p] = {}]
  /\ UNCHANGED <<proxied, changed, l1>>

\* The dictionary drops its oldest entries when it is full.
Prune(p) ==
  /\ l1[p] # {} /\ l1' = [l1 EXCEPT ![p] = {}]
  /\ UNCHANGED <<proxied, changed, l2, sharing>>

\* The provider reclassifies the address; requests in progress are short.
Reclassify ==
  /\ \A p \in Processes : sharing[p] = {}
  /\ proxied' = ~ proxied /\ changed' = now /\ UNCHANGED <<l1, l2, sharing>>

\* Redis drops the entry at its time, or restarts without its data.
RedisForgets == l2 # {} /\ l2' = {} /\ UNCHANGED <<proxied, changed, l1, sharing>>

\* A pod restarts.
ForgetVpns(p) ==
  /\ l1' = [l1 EXCEPT ![p] = {}] /\ sharing' = [sharing EXCEPT ![p] = {}]
  /\ UNCHANGED <<proxied, changed, l2>>

\* A request takes less than a tick.
VpnTick ==
  /\ now < VpnTimes /\ \A p \in Processes : sharing[p] = {}
  /\ now' = now + 1 /\ UNCHANGED cacheVars

VpnNext ==
  \/ /\ \/ \E p \in Processes : HitL2(p) \/ LookUp(p) \/ ShareVerdict(p) \/ Prune(p) \/ ForgetVpns(p)
        \/ Reclassify \/ RedisForgets
     /\ UNCHANGED now
  \/ VpnTick

VpnSpec == VpnInit /\ [][VpnNext]_vpnVars

-----------------------------------------------------------------------------
\* Two lifetimes of an entry after ip-api.com changed its verdict, no pod is
\* answered with the old one any more: a Redis hit starts a second lifetime in
\* the process, and that is the longest that a verdict can live.
ReclassificationReachesAll ==
  now - changed >= 2 * VpnTTL =>
    \A p \in Processes : \A entry \in L1Fresh(p) : entry.vpn = proxied
=============================================================================
