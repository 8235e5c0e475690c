---------------------------- MODULE AutoProvAggr ----------------------------
(***************************************************************************)
(* The region-level auto-provisioning aggregator (spec sections 3, 4.2, 5, *)
(* 7).  Its implementation is not part of this source tree: the module is *)
(* modelled from the specification and from the test that drives it       *)
(* (pkg/autoprov/autoprov_test.go: runIter, allStats, zones, policies,     *)
(* zoneTrackers, deployIntervalsMet).                                      *)
(*                                                                         *)
(* Go maps are modelled as functions whose domain is the set of keys       *)
(* present: stats is appStats.zones flattened to (app, zone) keys, and     *)
(* trackers is zoneTrackers[z].deployIntervalsMet flattened to (app,       *)
(* policy, zone) keys.  An AppDemandState exists iff some key of its app   *)
(* is present.                                                             *)
(*                                                                         *)
(* Actors: the evaluation loop (IterStart, Query, Apply, SinkReply,        *)
(* IterEnd), the Cache Mirror callbacks (AppUpdate, PolicyUpdate,          *)
(* PolicyDelete), the Metrics Store receiving traffic, operators deleting  *)
(* instances, and process restarts.                                        *)
(***************************************************************************)
EXTENDS Integers, FiniteSets

CONSTANTS
    Apps,         \* application keys (model values)
    Zones,        \* zone keys (model values)
    PolicyNames,  \* policy keys (model values)
    PolicyCfgs,   \* the [c, k, zones] values a policy can be configured with
    MaxStore,     \* bound: cumulative count in the Metrics Store per key
    MaxIters,     \* bound: evaluation iterations
    MaxChanges,   \* bound: Cache Mirror configuration callbacks
    MaxRestarts   \* bound: aggregator restarts

AZ == Apps \X Zones

ASSUME PolicyCfgs \subseteq [c : Nat \ {0}, k : Nat \ {0}, zones : SUBSET Zones]
ASSUME \A n \in {MaxStore, MaxIters, MaxChanges, MaxRestarts} : n \in Nat

\* A failed Metrics Store query.
Fail == -1

VARIABLES
    appPolicies,  \* Cache Mirror: the policy names each App lists
    policies,     \* Cache Mirror: AutoProvPolicy thresholds and Zones
    policyExists, \* Cache Mirror: the policies present in the cache
    store,        \* Metrics Store: cumulative count per (app, zone)
    stats,        \* allStats[a].zones[z]: [count, lastCount]
    trackers,     \* allStats[a].policies[p].zoneTrackers[z].deployIntervalsMet
    initIter,     \* the next iteration only takes baselines
    pc,           \* evaluation loop: "idle", "query", "trigger"
    snapshot,     \* the (app, zone) keys this iteration queries
    results,      \* query answers of this iteration, Fail on error
    pending,      \* creates issued by this iteration awaiting the sink
    appInsts,     \* live application instances
    iters, changes, restarts

vars == <<appPolicies, policies, policyExists, store, stats, trackers, initIter,
          pc, snapshot, results, pending, appInsts, iters,
          changes, restarts>>

cfgVars == <<appPolicies, policies, policyExists>>

TypeOK ==
    /\ appPolicies \in [Apps -> SUBSET PolicyNames]
    /\ policies \in [PolicyNames -> PolicyCfgs]
    /\ policyExists \subseteq PolicyNames
    /\ store \in [AZ -> 0..MaxStore]
    /\ DOMAIN stats \subseteq AZ
    /\ \A x \in DOMAIN stats : stats[x] \in [count : 0..MaxStore, lastCount : 0..MaxStore]
    /\ DOMAIN trackers \subseteq Apps \X PolicyNames \X Zones
    /\ \A t \in DOMAIN trackers : trackers[t] \in 0..MaxIters
    /\ initIter \in BOOLEAN
    /\ pc \in {"idle", "query", "trigger"}
    /\ snapshot \subseteq AZ
    /\ DOMAIN results \subseteq snapshot
    /\ \A x \in DOMAIN results : results[x] \in {Fail} \cup 0..MaxStore
    /\ pending \subseteq AZ
    /\ appInsts \subseteq AZ
    /\ iters \in 0..MaxIters /\ changes \in 0..MaxChanges /\ restarts \in 0..MaxRestarts

-----------------------------------------------------------------------------
(* Reconciliation (spec 4.2 step 5, 9): a diff of the tracking maps        *)
(* against the configuration, applied atomically under the aggregator lock. *)

\* An App is tracked iff it lists a policy and every policy it lists exists.
Tracked(ap, pe, a) == ap[a] # {} /\ ap[a] \subseteq pe

WantedTrackers(ap, pe, pol) ==
    {t \in Apps \X PolicyNames \X Zones :
        Tracked(ap, pe, t[1]) /\ t[2] \in ap[t[1]] /\ t[3] \in pol[t[2]].zones}

ZoneOf(t) == <<t[1], t[3]>>

\* A zone entry created by reconciliation is a fresh AutoProvCounts value.
NewZoneStats == [count |-> 0, lastCount |-> 0]

Reconcile(ap, pe, pol) ==
    LET T == WantedTrackers(ap, pe, pol)
        Z == {ZoneOf(t) : t \in T}
    IN /\ trackers' = [t \in T |-> IF t \in DOMAIN trackers THEN trackers[t] ELSE 0]
       /\ stats' = [x \in Z |-> IF x \in DOMAIN stats THEN stats[x] ELSE NewZoneStats]

Init ==
    /\ appPolicies \in [Apps -> SUBSET PolicyNames]
    /\ policies \in [PolicyNames -> PolicyCfgs]
    /\ policyExists = PolicyNames
    /\ store \in [AZ -> 0..1]
    /\ LET T == WantedTrackers(appPolicies, policyExists, policies)
           Z == {ZoneOf(t) : t \in T}
       IN /\ trackers = [t \in T |-> 0]
          /\ stats = [x \in Z |-> NewZoneStats]
    /\ initIter = TRUE
    /\ pc = "idle"
    /\ snapshot = {}
    /\ results = [x \in {} |-> Fail]
    /\ pending = {}
    /\ appInsts = {}
    /\ iters = 0 /\ changes = 0 /\ restarts = 0

-----------------------------------------------------------------------------
(* Cache Mirror callbacks, each reconciling under the aggregator lock.     *)

\* App updated (policy list changed) or deleted (empty list).
AppUpdate(a, ps) ==
    /\ changes < MaxChanges
    /\ ps # appPolicies[a]
    /\ changes' = changes + 1
    /\ appPolicies' = [appPolicies EXCEPT ![a] = ps]
    /\ Reconcile(appPolicies', policyExists, policies)
    /\ UNCHANGED <<policies, policyExists, store, initIter, pc, snapshot,
                   results, pending, appInsts, iters, restarts>>

\* AutoProvPolicy created or updated: thresholds and Zones refreshed.
PolicyUpdate(p, cfg) ==
    /\ changes < MaxChanges
    /\ p \notin policyExists \/ cfg # policies[p]
    /\ changes' = changes + 1
    /\ policies' = [policies EXCEPT ![p] = cfg]
    /\ policyExists' = policyExists \cup {p}
    /\ Reconcile(appPolicies, policyExists', policies')
    /\ UNCHANGED <<appPolicies, store, initIter, pc, snapshot, results,
                   pending, appInsts, iters, restarts>>

PolicyDelete(p) ==
    /\ changes < MaxChanges
    /\ p \in policyExists
    /\ changes' = changes + 1
    /\ policyExists' = policyExists \ {p}
    /\ Reconcile(appPolicies, policyExists', policies)
    /\ UNCHANGED <<appPolicies, policies, store, initIter, pc, snapshot,
                   results, pending, appInsts, iters, restarts>>

-----------------------------------------------------------------------------
(* Environment                                                             *)

\* Client traffic reaches the Metrics Store: the cumulative count grows.
Traffic(x) ==
    /\ store[x] < MaxStore
    /\ store' = [store EXCEPT ![x] = @ + 1]
    /\ UNCHANGED <<cfgVars, stats, trackers, initIter, pc, snapshot, results,
                   pending, appInsts, iters, changes, restarts>>

\* An operator deletes a live instance.
AppInstDelete(x) ==
    /\ x \in appInsts
    /\ appInsts' = appInsts \ {x}
    /\ UNCHANGED <<cfgVars, store, stats, trackers, initIter, pc, snapshot,
                   results, pending, iters, changes, restarts>>

\* The aggregator process restarts: tracking state is rebuilt from the
\* caches, the next iteration takes baselines, and an in-flight create
\* may or may not have reached the sink.
Restart ==
    /\ restarts < MaxRestarts
    /\ restarts' = restarts + 1
    /\ LET T == WantedTrackers(appPolicies, policyExists, policies)
           Z == {ZoneOf(t) : t \in T}
       IN /\ trackers' = [t \in T |-> 0]
          /\ stats' = [x \in Z |-> NewZoneStats]
    /\ initIter' = TRUE
    /\ pc' = "idle"
    /\ snapshot' = {}
    /\ results' = [x \in {} |-> Fail]
    /\ pending' = {}
    /\ \E done \in SUBSET pending : appInsts' = appInsts \cup done
    /\ UNCHANGED <<cfgVars, store, iters, changes>>

-----------------------------------------------------------------------------
(* The evaluation loop: one iteration at a time.                           *)

\* Under the lock: the keys to query are the zones of the tracked Apps.
IterStart ==
    /\ pc = "idle"
    /\ iters < MaxIters
    /\ iters' = iters + 1
    /\ pc' = "query"
    /\ snapshot' = DOMAIN stats
    /\ results' = [x \in {} |-> Fail]
    /\ UNCHANGED <<cfgVars, store, stats, trackers, initIter, pending,
                   appInsts, changes, restarts>>

\* Mutant: the Metrics Store answers with a value older than the one the
\* previous iteration read.
QueryLagging(x) ==
    /\ pc = "query"
    /\ x \in snapshot \ DOMAIN results
    /\ \E v \in {Fail} \cup 0..store[x] :
          results' = [y \in DOMAIN results \cup {x} |-> IF y = x THEN v ELSE results[y]]
    /\ UNCHANGED <<cfgVars, store, stats, trackers, initIter, pc, snapshot,
                   pending, appInsts, iters, changes, restarts>>

\* Outside the lock: GetCount for one key, which may fail.
Query(x) ==
    /\ pc = "query"
    /\ x \in snapshot \ DOMAIN results
    /\ \E v \in {store[x], Fail} :
          results' = [y \in DOMAIN results \cup {x} |-> IF y = x THEN v ELSE results[y]]
    /\ UNCHANGED <<cfgVars, store, stats, trackers, initIter, pc, snapshot,
                   pending, appInsts, iters, changes, restarts>>

\* Mutant: an answer is applied even when its key was removed by a callback
\* since the snapshot was taken (the map write recreates the entry).
UsableStale(x) == results[x] # Fail

\* An answer is applied only when it did not fail and its entry still exists.
Usable(x) == results[x] # Fail /\ x \in DOMAIN stats

OldStats(x) == IF x \in DOMAIN stats THEN stats[x] ELSE NewZoneStats

\* delta = count - zones[zone].lastCount, computed once per (app, zone).
Delta(x) == results[x] - OldStats(x).lastCount

\* What the lifetime count of a zone gains in one iteration.
CountGain(x) == Delta(x)

MetNext(t) ==
    IF Delta(ZoneOf(t)) >= policies[t[2]].c THEN trackers[t] + 1 ELSE 0

\* deployIntervalsMet reaches deployIntervalCount and no instance is live.
Fire(t) == MetNext(t) = policies[t[2]].k /\ ZoneOf(t) \notin appInsts

\* Under the lock, once every key is answered: the init iteration takes
\* baselines only; any other iteration adds each delta to the lifetime count,
\* advances or resets every tracker of the zone, and on a trigger resets the
\* tracker and issues a create.
Apply ==
    /\ pc = "query"
    /\ DOMAIN results = snapshot
    /\ LET ok == {x \in DOMAIN results : Usable(x)}
           evaluated == {t \in DOMAIN trackers : ZoneOf(t) \in ok /\ ~initIter}
       IN /\ stats' = [x \in DOMAIN stats \cup ok |->
                         IF x \in ok
                         THEN [count |-> IF initIter THEN OldStats(x).count
                                         ELSE OldStats(x).count + CountGain(x),
                               lastCount |-> results[x]]
                         ELSE stats[x]]
          /\ trackers' = [t \in DOMAIN trackers |->
                            IF t \notin evaluated THEN trackers[t]
                            ELSE IF Fire(t) THEN 0 ELSE MetNext(t)]
          /\ pending' = {ZoneOf(t) : t \in {u \in evaluated : Fire(u)}}
    /\ initIter' = FALSE
    /\ pc' = "trigger"
    /\ UNCHANGED <<cfgVars, store, snapshot, results, appInsts, iters,
                   changes, restarts>>

\* Outside the lock: CreateAppInst for one issued create, which may fail.
SinkReply(x) ==
    /\ pc = "trigger"
    /\ x \in pending
    /\ pending' = pending \ {x}
    /\ \E success \in BOOLEAN :
          appInsts' = IF success THEN appInsts \cup {x} ELSE appInsts
    /\ UNCHANGED <<cfgVars, store, stats, trackers, initIter, pc, snapshot,
                   results, iters, changes, restarts>>

IterEnd ==
    /\ pc = "trigger"
    /\ pending = {}
    /\ pc' = "idle"
    /\ UNCHANGED <<cfgVars, store, stats, trackers, initIter, snapshot, results,
                   pending, appInsts, iters, changes, restarts>>

\* The iteration bound is reached: the model's horizon.
Horizon ==
    /\ pc = "idle"
    /\ iters = MaxIters
    /\ UNCHANGED vars

LoopStep ==
    \/ IterStart
    \/ \E x \in AZ : Query(x)
    \/ Apply
    \/ \E x \in AZ : SinkReply(x)
    \/ IterEnd

Next ==
    \/ LoopStep
    \/ \E a \in Apps, ps \in SUBSET PolicyNames : AppUpdate(a, ps)
    \/ \E p \in PolicyNames, cfg \in PolicyCfgs : PolicyUpdate(p, cfg)
    \/ \E p \in PolicyNames : PolicyDelete(p)
    \/ \E x \in AZ : Traffic(x) \/ AppInstDelete(x)
    \/ Restart
    \/ Horizon

\* The evaluation loop is timer driven and never blocks on the lock for
\* long; callbacks, traffic and restarts are up to the environment.
Spec == Init /\ [][Next]_vars /\ WF_vars(LoopStep)

-----------------------------------------------------------------------------
(* Properties                                                              *)

\* Spec section 3: zoneTrackers of every tracked policy equal the policy's
\* current Zones, an AppDemandState exists iff its App lists policies that
\* all exist, and zone counters exist exactly for the tracked zones -- even
\* though queries run outside the lock and callbacks reconcile between the
\* snapshot and the application of the answers.
TrackingMatchesConfig ==
    /\ DOMAIN trackers = WantedTrackers(appPolicies, policyExists, policies)
    /\ DOMAIN stats = {ZoneOf(t) : t \in DOMAIN trackers}

====
