------------------------------ MODULE Shepherd ------------------------------
(***************************************************************************)
(* The metrics workers of Shepherd, src/cmd/ccme/shepherd/shepherd.go.     *)
(* Shepherd mirrors the cloudlet's ClusterInsts, AppInsts and Settings     *)
(* through the notify client and keeps one worker per scrape target:       *)
(*   workerMap       a ClusterWorker per Docker cluster (clusterInstCb)    *)
(*                   or per Kubernetes cluster whose Prometheus AppInst    *)
(*                   is READY (appInstCb);                                 *)
(*   vmAppWorkerMap  an AppInstWorker per READY VM AppInst (appInstCb).    *)
(* Every callback runs on the notify client's single receive goroutine,    *)
(* so callbacks are atomic steps here.  Notify sends the latest version of *)
(* an object, not every version: updates of one object coalesce, and a     *)
(* delete may arrive with no earlier non-READY update (the comment above   *)
(* appInstDeletedCb says so).  A delivery therefore carries the state the  *)
(* object has when it is sent, and a present object may be sent again at  *)
(* any time with its state unchanged (an update of other fields).         *)
(*                                                                         *)
(* A worker is abstracted to whether it runs and its collection interval;  *)
(* the worker code (cluster-worker.go, appinst-worker.go) is not in this   *)
(* tree, so NewClusterWorker and NewAppInstWorker may fail or succeed.     *)
(***************************************************************************)
EXTENDS Naturals, FiniteSets

CONSTANTS
    DockerClusters, \* ClusterInsts with Deployment == "docker"
    KubeClusters,   \* ClusterInsts with Deployment == "kubernetes"
    PromInsts,      \* AppInsts of MEXPrometheusAppName
    KubeInsts,      \* AppInsts of an App with Deployment == "kubernetes"
    VMInsts,        \* AppInsts of an App with Deployment == "vm"
    ClusterOf,      \* the ClusterKey of each Prometheus / Kubernetes AppInst
    Intervals,      \* values of Settings.ShepherdMetricsCollectionInterval
    MaxSettings     \* bound on Settings updates

Clusters == DockerClusters \cup KubeClusters
AppInsts == PromInsts \cup KubeInsts \cup VMInsts
Objs == Clusters \cup AppInsts
WorkerKeys == Clusters \cup VMInsts
\* TrackedState, with every state other than READY folded into "Pending"
\* (CREATE_REQUESTED, CREATING, UPDATING, DELETE_REQUESTED, DELETING...).
States == {"Absent", "Pending", "Ready"}

ASSUME ClusterOf \in [PromInsts \cup KubeInsts -> KubeClusters]

VARIABLES
    state,          \* Objs -> the object's state at the controller/CRM
    cache,          \* Objs -> the state in Shepherd's cache ("Absent": none)
    ctrlSettings,   \* the collection interval at the controller
    settingsOps,
    settings,       \* shepherd's global `settings`
    workerMap,      \* DOMAIN of workerMap (ClusterKeys)
    vmAppWorkerMap, \* DOMAIN of vmAppWorkerMap (AppInst key strings)
    running,        \* WorkerKeys -> started and not stopped workers
    interval,       \* a map's worker -> its collection interval
    tracked,        \* KubeClusters -> AppInsts its clusterStat tracks
    cloudletWait,   \* the value buffered in chan bool of capacity 1
    phase           \* start() waiting, running, exited by FatalLog, stopped

vars == <<state, cache, ctrlSettings, settingsOps, settings,
          workerMap, vmAppWorkerMap, running, interval, tracked, cloudletWait,
          phase>>
workerVars == <<workerMap, vmAppWorkerMap, running, interval, tracked>>

TypeOK ==
    /\ state \in [Objs -> States]
    /\ cache \in [Objs -> States]
    /\ ctrlSettings \in Intervals /\ settings \in Intervals
    /\ settingsOps \in 0..MaxSettings
    /\ workerMap \subseteq Clusters
    /\ vmAppWorkerMap \subseteq VMInsts
    /\ running \in [WorkerKeys -> Nat]
    /\ DOMAIN interval = workerMap \cup vmAppWorkerMap
    /\ \A k \in DOMAIN interval : interval[k] \in Intervals
    /\ tracked \in [KubeClusters -> SUBSET KubeInsts]
    /\ cloudletWait \in BOOLEAN
    /\ phase \in {"wait", "running", "fatal", "stopped"}

Init ==
    /\ state = [o \in Objs |-> "Absent"]
    /\ cache = [o \in Objs |-> "Absent"]
    /\ ctrlSettings \in Intervals
    /\ settings = ctrlSettings
    /\ settingsOps = 0
    /\ workerMap = {} /\ vmAppWorkerMap = {}
    /\ running = [k \in WorkerKeys |-> 0]
    /\ interval = <<>>
    /\ tracked = [c \in KubeClusters |-> {}]
    /\ cloudletWait = FALSE
    /\ phase = "wait"

(***************************************************************************)
(* The controller and CRM side.  An AppInst is created on a READY cluster *)
(* and a cluster is deleted only once its AppInsts are gone.              *)
(***************************************************************************)
Create(o) ==
    /\ state[o] = "Absent"
    /\ o \in PromInsts \cup KubeInsts => state[ClusterOf[o]] = "Ready"
    /\ state' = [state EXCEPT ![o] = "Pending"]
    /\ UNCHANGED <<cache, ctrlSettings, settingsOps, settings, workerVars,
                   cloudletWait, phase>>

\* Create done, update or delete requested, update done.
Update(o) ==
    /\ state[o] # "Absent"
    /\ state' = [state EXCEPT ![o] = IF @ = "Ready" THEN "Pending" ELSE "Ready"]
    /\ UNCHANGED <<cache, ctrlSettings, settingsOps, settings, workerVars,
                   cloudletWait, phase>>

\* Deletion ends a non-READY state (DELETING, or a failed create).
Delete(o) ==
    /\ state[o] = "Pending"
    /\ o \in Clusters =>
          \A a \in PromInsts \cup KubeInsts :
              ClusterOf[a] = o => state[a] = "Absent"
    /\ state' = [state EXCEPT ![o] = "Absent"]
    /\ UNCHANGED <<cache, ctrlSettings, settingsOps, settings, workerVars,
                   cloudletWait, phase>>

UpdateSettings ==
    /\ settingsOps < MaxSettings
    /\ ctrlSettings' \in Intervals \ {ctrlSettings}
    /\ settingsOps' = settingsOps + 1
    /\ UNCHANGED <<state, cache, settings, workerVars,
                   cloudletWait, phase>>

(***************************************************************************)
(* Workers.  Start and Stop of a worker; the worker's own goroutines are  *)
(* not modelled, only that it runs.                                       *)
(***************************************************************************)
NoWorkerChange == UNCHANGED <<workerMap, vmAppWorkerMap, running, interval, tracked>>

StartWorker(k) ==
    /\ running' = [running EXCEPT ![k] = @ + 1]
    /\ interval' = [x \in DOMAIN interval \cup {k} |->
                      IF x = k THEN settings ELSE interval[x]]

StopWorker(k) ==
    /\ running' = [running EXCEPT ![k] = @ - 1]
    /\ interval' = [x \in DOMAIN interval \ {k} |-> interval[x]]

\* NewClusterWorker succeeded: store it in workerMap and Start it.  Its
\* clusterStat starts with no tracked AppInsts.
NewClusterWorker(c) ==
    /\ workerMap' = workerMap \cup {c}
    /\ StartWorker(c)
    /\ tracked' = IF c \in KubeClusters THEN [tracked EXCEPT ![c] = {}]
                                       ELSE tracked
    /\ UNCHANGED vmAppWorkerMap

RemoveClusterWorker(c) ==
    /\ workerMap' = workerMap \ {c}
    /\ StopWorker(c)
    /\ UNCHANGED <<vmAppWorkerMap, tracked>>

(***************************************************************************)
(* appInstCb(ctx, old, new), one operator per branch on the App's         *)
(* deployment.  `old` is "nil" when the cache held no earlier version and *)
(* "NotPresent" when called from appInstDeletedCb.                         *)
(***************************************************************************)
\* Mutant: the removal branch without `&& exists` (Stop on a nil worker).
VmAppCbStopUnchecked(o, new) ==
    LET exists == o \in vmAppWorkerMap IN
    \/ /\ new = "Ready" /\ ~exists
       /\ vmAppWorkerMap' = vmAppWorkerMap \cup {o}
       /\ StartWorker(o)
       /\ UNCHANGED <<workerMap, tracked>>
    \/ /\ new # "Ready"
       /\ vmAppWorkerMap' = vmAppWorkerMap \ {o}
       /\ StopWorker(o)
       /\ UNCHANGED <<workerMap, tracked>>
    \/ /\ new = "Ready" /\ exists
       /\ NoWorkerChange

VmAppCb(o, new) ==
    LET exists == o \in vmAppWorkerMap IN
    \/ /\ new = "Ready" /\ ~exists
       /\ vmAppWorkerMap' = vmAppWorkerMap \cup {o}
       /\ StartWorker(o)
       /\ UNCHANGED <<workerMap, tracked>>
    \/ /\ new = "Ready" /\ ~exists       \* NewAppInstWorker returned nil
       /\ NoWorkerChange
    \/ /\ new # "Ready" /\ exists
       /\ vmAppWorkerMap' = vmAppWorkerMap \ {o}
       /\ StopWorker(o)
       /\ UNCHANGED <<workerMap, tracked>>
    \/ /\ (new = "Ready") = exists
       /\ NoWorkerChange

PromAppCb(o, old, new) ==
    LET c == ClusterOf[o]
        exists == c \in workerMap
    IN
    \/ /\ new = "Ready" /\ cache[c] = "Absent"   \* clusterInst not in cache
       /\ NoWorkerChange
    \/ /\ new = "Ready" /\ cache[c] # "Absent" /\ ~exists
       /\ NewClusterWorker(c)
    \/ /\ new = "Ready" /\ cache[c] # "Absent"
       /\ NoWorkerChange   \* NewClusterWorker failed, or already registered
    \/ /\ new # "Ready" /\ old = "NotPresent" /\ exists
       /\ RemoveClusterWorker(c)
    \/ /\ new # "Ready" /\ ~(old = "NotPresent" /\ exists)
       /\ NoWorkerChange

KubeAppCb(o, new) ==
    LET c == ClusterOf[o] IN
    \/ /\ c \notin workerMap      \* no cluster worker for the new AppInst
       /\ NoWorkerChange
    \/ /\ c \in workerMap
       /\ tracked' = [tracked EXCEPT ![c] =
                        IF new = "Ready" THEN @ \cup {o} ELSE @ \ {o}]
       /\ UNCHANGED <<workerMap, vmAppWorkerMap, running, interval>>

appInstCb(o, old, new) ==
    CASE o \in VMInsts   -> VmAppCb(o, new)
      [] o \in PromInsts -> PromAppCb(o, old, new)
      [] o \in KubeInsts -> KubeAppCb(o, new)

\* It may miss READY -> other before the delete, so the delete is handled.
\* Mutant: without `old.State = NOT_PRESENT`, the cached version is passed.
appInstDeletedCbKeepState(o) == appInstCb(o, cache[o], cache[o])

appInstDeletedCb(o) == appInstCb(o, "NotPresent", "NotPresent")

\* Mutant: no early return for a READY cluster already in workerMap.
clusterInstCbOverwrite(c, new) ==
    LET exists == c \in workerMap IN
    \/ /\ c \notin DockerClusters
       /\ NoWorkerChange
    \/ /\ c \in DockerClusters /\ new = "Ready"
       /\ NewClusterWorker(c)
    \/ /\ c \in DockerClusters /\ new # "Ready" /\ exists
       /\ RemoveClusterWorker(c)
    \/ /\ c \in DockerClusters /\ new # "Ready" /\ ~exists
       /\ NoWorkerChange

clusterInstCb(c, new) ==
    LET exists == c \in workerMap IN
    \/ /\ new = "Ready" /\ exists       \* update reservedBy / policyName
       /\ NoWorkerChange
    \/ /\ ~(new = "Ready" /\ exists) /\ c \notin DockerClusters
       /\ NoWorkerChange
    \/ /\ c \in DockerClusters /\ new = "Ready" /\ ~exists
       /\ \/ NewClusterWorker(c)
          \/ NoWorkerChange             \* NewClusterWorker failed
    \/ /\ c \in DockerClusters /\ new # "Ready" /\ exists
       /\ RemoveClusterWorker(c)
    \/ /\ c \in DockerClusters /\ new # "Ready" /\ ~exists
       /\ NoWorkerChange

\* clusterInstDeletedCb only sets ChangeSinceLastPlatformStats.
clusterInstDeletedCb(c) == NoWorkerChange

(***************************************************************************)
(* The notify client delivers the latest version of an object: an update *)
(* callback, or the deleted callback if the cache held it.                *)
(***************************************************************************)
Deliver(o) ==
    /\ phase = "running"
    /\ cache[o] # "Absent" \/ state[o] # "Absent"
    /\ cache' = [cache EXCEPT ![o] = state[o]]
    /\ UNCHANGED <<state, ctrlSettings, settingsOps, settings, cloudletWait,
                   phase>>

DeliverAppInst(o) ==
    /\ Deliver(o)
    /\ IF state[o] = "Absent"
         THEN IF cache[o] = "Absent" THEN NoWorkerChange
                                     ELSE appInstDeletedCb(o)
         ELSE appInstCb(o, IF cache[o] = "Absent" THEN "nil" ELSE cache[o],
                        state[o])

DeliverClusterInst(c) ==
    /\ Deliver(c)
    /\ IF state[c] = "Absent" THEN clusterInstDeletedCb(c)
                              ELSE clusterInstCb(c, state[c])

\* settingsCb: a changed collection interval reaches the cluster workers
\* through updateClusterWorkers, under workerMapMutex.
settingsCb ==
    /\ phase \in {"wait", "running"} /\ settings # ctrlSettings
    /\ settings' = ctrlSettings
    /\ interval' = [k \in DOMAIN interval |->
                      IF k \in workerMap THEN ctrlSettings ELSE interval[k]]
    /\ UNCHANGED <<state, cache, ctrlSettings, settingsOps, workerMap,
                   vmAppWorkerMap, running, tracked, cloudletWait, phase>>

\* stop(): notifyClient.Stop() ends the callbacks, then every worker of
\* both maps is stopped; the maps themselves are left as they are.
stop ==
    /\ phase = "running"
    /\ phase' = "stopped"
    /\ running' = [k \in WorkerKeys |->
                     IF k \in workerMap \cup vmAppWorkerMap THEN running[k] - 1
                                                            ELSE running[k]]
    /\ UNCHANGED <<state, cache, ctrlSettings, settingsOps,
                   settings, workerMap, vmAppWorkerMap, interval, tracked,
                   cloudletWait>>

(***************************************************************************)
(* start(): the notify client is started before start() waits for the    *)
(* cloudlet; ClusterInsts and AppInsts come only after start() has sent   *)
(* CloudletInfo READY, Settings and the Cloudlet at any time.             *)
(***************************************************************************)
\* cloudletCb: a non-blocking send on cloudletWait. Only start() receives
\* from the channel, once; a send after it changes nothing the model tracks
\* (ChangeSinceLastPlatformStats is not modelled).
cloudletCb ==
    /\ phase = "wait"
    /\ cloudletWait' = TRUE
    /\ UNCHANGED <<state, cache, ctrlSettings, settingsOps, settings,
                   workerMap, vmAppWorkerMap, running, interval, tracked, phase>>

\* The select receives from cloudletWait; FatalLog if the cloudlet is not
\* in CloudletCache, otherwise platform set-up and CloudletInfo READY.
StartCloudlet ==
    /\ phase = "wait" /\ cloudletWait
    /\ cloudletWait' = FALSE
    /\ phase' \in {"running", "fatal"}
    /\ UNCHANGED <<state, cache, ctrlSettings, settingsOps, settings,
                   workerMap, vmAppWorkerMap, running, interval, tracked>>

\* time.After(CRMTimeout) wins the select: FatalLog exits, stop() is not run.
StartTimeout ==
    /\ phase = "wait"
    /\ phase' = "fatal"
    /\ UNCHANGED <<state, cache, ctrlSettings, settingsOps, settings,
                   workerMap, vmAppWorkerMap, running, interval, tracked,
                   cloudletWait>>

Finished == phase \in {"stopped", "fatal"} /\ UNCHANGED vars

\* Objects change once Shepherd is up (what it finds then is as if created
\* since); Settings may change while start() still waits.
Env ==
    \/ phase = "running" /\ \E o \in Objs : Create(o) \/ Update(o) \/ Delete(o)
    \/ phase \in {"wait", "running"} /\ UpdateSettings

Next ==
    \/ Env
    \/ \E o \in AppInsts : DeliverAppInst(o)
    \/ \E c \in Clusters : DeliverClusterInst(c)
    \/ settingsCb
    \/ cloudletCb
    \/ StartCloudlet
    \/ StartTimeout
    \/ stop
    \/ Finished

Spec == Init /\ [][Next]_vars

(***************************************************************************)
(* Properties.                                                             *)
(***************************************************************************)
\* Every worker that runs is the one a map holds for its key, and stop()
\* stops them all: the callbacks never start a second worker for a key
\* already in workerMap or vmAppWorkerMap, never drop a key from a map
\* without Stop, and stop() leaves no worker running.
WorkersAccounted ==
    \A k \in WorkerKeys :
        running[k] = IF phase = "running" /\ k \in workerMap \cup vmAppWorkerMap
                     THEN 1 ELSE 0

\* Once notify has delivered every change, no VM AppInst worker runs for
\* an AppInst that is not READY, and no Prometheus cluster worker runs for
\* a cluster whose Prometheus AppInst is gone, although the delete may
\* arrive without the READY -> DELETING update (appInstDeletedCb).
NoStaleWorker ==
    (phase = "running" /\ cache = state) =>
        /\ \A v \in vmAppWorkerMap : state[v] = "Ready"
        /\ \A c \in workerMap \cap KubeClusters :
              \E p \in PromInsts : ClusterOf[p] = c /\ state[p] # "Absent"

====
