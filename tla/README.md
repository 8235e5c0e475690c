# TLA+ models of the edge-cloud platform

This directory holds TLA+ models of the repository's auto-provisioning pipeline, which is the core named by `spec.md`. It will grow to cover the other concurrent components under `src/`. Every module is checked with TLC. `PROJECT.json` lists the components, runs, mutants, the source lines each definition models, the findings, and the hazards.

## The system

The auto-provisioning pipeline decides when to create an application instance in a zone from client demand:

```
Count Generator (one per DME)  --AutoProvCounts-->  Metrics Store
        |                                                |  GetCount
   Increment from FindCloudlet                        Aggregator  <-- Cache Mirror (App, AutoProvPolicy callbacks)
                                                         |
                                                   Trigger Sink (CreateAppInst)
```

**Count Generator** (`src/pkg/uaem-common/autoprov-stats.go`, driven by `src/cmd/uaem/dme/dme-main.go` lines 697-705):

- Counters are kept per (app, zone) in shards, each shard under its own mutex.
- `Increment` bumps a counter. When a single-interval policy's threshold is met, it sends a `ProcessNow` report at once.
- The `RunNotify` goroutine wakes on a timer and visits the shards one lock at a time. It collects every counter whose `count` moved since `lastCount`, sets `lastCount = count`, and sends the batch after all locks are released.
- `Start` and `Stop` manage the loop through the `stop` channel and a wait group.
- `UpdateSettings` restarts the loop when the interval changes.
- `Clear` and `Prune` delete counters shard by shard.

**Aggregator.** Its implementation is not in this tree. The spec (sections 3-7) and `src/pkg/autoprov/autoprov_test.go` describe it:

- Each iteration queries the Metrics Store outside the lock for every tracked (app, zone).
- Under the lock it turns the answers into deltas, adds them to the zone's lifetime count, and advances or resets `deployIntervalsMet` of every policy tracking the zone.
- When a tracker reaches the policy's `DeployIntervalCount` and no instance is live, it resets the tracker and issues a create.
- The first iteration after a (re)start only takes baselines.
- Callbacks from the Cache Mirror reconcile the tracking maps with the configuration, under the same lock.

**EdgeTurn** (`src/cmd/edgeturn/server.go`) lets users reach a shell or console on a cloudlet:

- A CRM dials in and sends an `ExecReqInfo`. `handleConnection` stores a `ProxyValue` under a fresh token in `TurnProxy` and writes the token back.
- For a shell, the handler waits on the unbuffered `Connected` channel, or times out after `ShellConnTimeout`, closing the connection and removing the token.
- For a console, the handler keeps the token for `ConsoleConnTimeout`.
- Clients present the token:
  - `/edgeshell` sends on `Connected` and relays the websocket to the CRM connection with two goroutines. Each goroutine reports its end on `closeChan`.
  - `/edgeconsole` redirects to the console URL.
  - The reverse proxy's `RoundTrip` opens an smux stream.
  - The last two remove entries they cannot use.

**VM pool API** (`src/pkg/controller/vmpool_api.go`):

- Each call runs one or more etcd STM transactions.
- When the cloudlet cache shows a cloudlet using the pool, `UpdateVMPool`, `AddVMPoolMember` and `RemoveVMPoolMember` go through `updateVMPoolInternal`:
  1. A transaction merges the request and marks the pool `UPDATE_REQUESTED`.
  2. The call starts a stream and waits (with a timeout) for the CRM's `VMPoolInfo`, which `UpdateFromInfo` writes back.
  3. A last transaction resets the state.
- `DeleteVMPool` runs three steps: it marks `DeletePrepare` in one transaction, checks cloudlet use in the cache, then deletes in a second transaction. A deferred undo runs on error.

**Kafka event bus** (`src/pkg/cloudcommon/svcnode/kafka_bus.go`):

- Every event tagged with a cloudlet runs `kafkaSend`. It reads the cloudlet's producer from the package map `producers` under `producerLock`, releases the lock, and looks the cloudlet up.
- It then keeps the producer, builds a new one (`newProducer`: fetch credentials and build outside the lock, then close the old producer and install the new one under it), or removes it when the cloudlet no longer names a cluster.
- It hands the message to a `sendMessage` goroutine. That goroutine writes to the producer's `Input()` and waits on its `Successes()`/`Errors()` channels, retrying once with a new producer after an error.

**Access key server** (`src/pkg/cloudcommon/svcnode/accesskey_server.go`):

- A CRM authenticates each gRPC call by signing with its access key, or with Vault AppRole credentials. The interceptor checks the signature against the cloudlet's primary key, then its secondary key.
- When the matched slot says an upgrade is required, `UpgradeAccessKey` reads the CRM's first message and sends it a fresh private key. It waits for an ack, commits the public key into the slot of the HA role the CRM named, and sends `commit-complete`.

**Shepherd** (`src/cmd/ccme/shepherd/shepherd.go`) collects a cloudlet's metrics:

- `start()` starts the notify client and sends CloudletInfo INIT. It then waits on the one-slot channel `cloudletWait`, which `cloudletCb` fills with a non-blocking send. If `CRMTimeout` passes first, it ends with `FatalLog`. Once the Cloudlet arrives it sends READY, and the CRM then sends ClusterInsts and AppInsts.
- The notify callbacks run one at a time on the client's receive goroutine:
  - `clusterInstCb` starts a cluster worker in `workerMap` for a READY Docker cluster.
  - `appInstCb` starts a VM app worker in `vmAppWorkerMap`, or a cluster worker for the cluster of a Prometheus instance. For other Kubernetes instances it tells the cluster's worker to track or untrack them.
  - `settingsCb` passes a new collection interval to every cluster worker.
- Notify coalesces updates, so a callback may see an object's delete without its earlier changes.
- `stop()` stops every worker.

**Deployment validation** (`src/pkg/cloudcommon/deployment.go`) checks an App before it is created:

- `IsValidDeploymentManifest` accepts a VM App only with a `#cloud-config` manifest and no command.
- For Kubernetes it decodes the manifest and collects the (protocol, port) pairs of LoadBalancer and ClusterIP services. An empty protocol counts as TCP.
- It then walks the App's AccessPorts. It expands port ranges, counts HTTP as TCP, and accepts ClusterIP ports for HTTP only. A UDP range longer than `MaxK8sUdpPorts` returns an error at once. Other misses are collected and reported together.
- Finally it runs the GPU check of `isValidKubernetesManifestForResources`. `IsValidDeploymentManifestForResources` runs the same check on its own.

**DME FindCloudlet** (`src/cmd/uaem/dme/dme-main.go`, lines 94-329) serves an App a validated manifest admitted:

- A request without a cookie or with a bad location returns an error. A failed or empty cloudlet search, or no `-qosSesAddr`, gives `QOS_NOT_ATTEMPTED`.
- A found cloudlet takes `app.Lock()` and keeps it, by `defer`, until the handler returns. It holds it across the DNS lookup of the FQDN and the operator gateway's `CreatePrioritySession`.
- Under the lock, a `DEFAULT` profile returns at once. Otherwise `app.Ports[0]` is read before any other check. Then come `QOS_NO_PRIORITY`, the `ip_user_equipment` tag, the IPv4 address and the protocol, and finally the gateway call.
- `QosPrioritySessionCreate` and `QosPrioritySessionDelete` pass a client's request to the gateway without the App lock.
- The gRPC server has no panic-recovery interceptor, so a panic in a handler ends the DME.

## Modules

### `AutoProvStats` (source: autoprov-stats.go)

State: `count`/`lastCount` per key. A map entry is present iff its count is non-zero; deletion resets both to 0 and bumps a ghost `epoch` of the key. The rest of the state:

- `stop`: nil, open or closed.
- `loop`: the RunNotify goroutine's position, with `cursor` (the next shard) and `batch` (the `sendCounts` being built).
- `ctl`/`caller`/`newInterval`: the lifecycle caller inside Stop, and why Stop was called.
- `pruner`: a Clear/Prune call in progress, as its shard cursor.
- `panicked`.
- Ghosts: `exported`, the latest periodic export per key with its epoch, and `fastSent`.

Actions map one to one onto the code:

| Action | Code |
|---|---|
| `Start` / `StartBody` | `Start` |
| `StopClose`, `StopWait`, `StopNil` | the three steps of `Stop`: close under the mutex, `waitGroup.Wait`, set nil under the mutex. `StopNil` then returns to the caller: shutdown exits, `UpdateSettings` goes on. |
| `UpdateSettings(iv)`, `UpdateSetInterval`, `UpdateRestart` | `UpdateSettings`: the unlocked reads and the Stop call; setting the interval under the mutex; `Start` again. Each critical section is its own step. |
| `Increment(k, p)` | `Increment`, including the fast path |
| `TimerFires`, `CollectShard`, `SendBatch`, `LoopExit` | `RunNotify` |
| `CallPruner`, `PruneShard` | `Clear` and `Prune` |

The caller is dme-main. It calls `Start`, then settings updates, then the deferred `Stop`. `caller` records which of the two called `Stop`.

### `AutoProvAggr` (modelled from the spec; see PROJECT.json `spec_modelled`)

Go maps are functions whose domain is the set of present keys:

- `stats` holds `zones[z]` per (app, zone).
- `trackers` holds `deployIntervalsMet` per (app, policy, zone).

The configuration (`appPolicies`, `policies`, `policyExists`), the Metrics Store (`store`) and live instances (`appInsts`) are environment.

The iteration is split at the points where the lock is released:

1. `IterStart` takes the snapshot under the lock.
2. `Query(x)` runs outside the lock and may fail.
3. `Apply` evaluates under the lock.
4. `SinkReply(x)` runs outside the lock and may fail.
5. `IterEnd` finishes the iteration.

`Reconcile` is the diff function of spec section 9. It is used by `AppUpdate`, `PolicyUpdate`, `PolicyDelete` and, from scratch, by `Restart`. The ghost `origin` records where each zone entry started.

### `EdgeTurn` (source: server.go)

- **Program counters:**
  - `crm` is the program counter of each `handleConnection` goroutine;
  - `cl` is the program counter of each client request;
  - `relay` is the program counter of each request's two copy goroutines.
- **The map:** `proxyMap` is `TurnProxy.proxyMap`, a function from tokens to `ProxyValue` records. Every method is one atomic step, as they run under `cp.mux`. A session is its own token.
- **Closed connections:** `crmOpen` records which CRM connections EdgeTurn has not closed.
- **Actions:**
  - `CrmAccept` (decode, smux setup, `Add`);
  - `CrmWrite`;
  - `CrmTimeout` and `CrmRemove`, the two steps of either timeout branch;
  - `ClientRequest` with `EdgeShell`, `EdgeConsole` and `RoundTrip`;
  - `ShellConnected`, the rendezvous on `Connected`;
  - `RelayError`, `RelayClosed` (`<-closeChan` and `crmConn.Close`) and `RelayRemove`.
- **Properties:** a goroutine blocked on a channel that no goroutine will ever read is stated as a safety invariant, `SendsHaveReceiver`: the blocked sender has no possible receiver.
- **Refinement:** `RefinesSessions` states that EdgeTurn implements `EdgeTurnSessions` under this mapping:
  - a token's phase comes from its handler's program counter, with `SessionPhase`;
  - `registered` is the domain of `proxyMap`;
  - a token's owners are the requests relaying for it.
- **Deadlock checking:** the bounded workload ends, and the real server then waits in `Accept`. The cfgs therefore say `CHECK_DEADLOCK FALSE`. Goroutines stuck for ever are what the violation run checks.

### `EdgeTurnSessions` (abstract)

This module is what the proxy promises of a token, with no goroutines or channels:

- a token is registered (`Register`) or refused (`Refuse`), then offered to its CRM (`Offer`);
- an offered shell token is handed to one client that holds no other (`Take`), unless it expires first (`Expire`);
- a token offered, handed or expired may be deregistered (`Deregister`);
- the client holding a shell releases it, which also deregisters the token (`Release`).

A `Take` is allowed only from `offered`. So a second hand-over, a hand-over after the timeout, and a hand-over of a console token are all refinement violations.

### `Deployment` (source: deployment.go)

- **Operators:** `IsValidDeploymentManifest`, `IsValidDeploymentManifestForResources` and their parts are operators:
  - `PortMap` is the service loop;
  - `PortLoop` is the AccessPorts loop, `RECURSIVE` because of its early return;
  - `RangeMissing` is the range expansion;
  - `RequestedGPUs` is the GPU sum.
- **Inputs:**
  - a manifest is cloud-init text, other text, or YAML that decodes to a set of objects;
  - a GPU limit is absent, an integer, or fractional (which `AsInt64` refuses);
  - errors are their kinds, not their texts.
- **Reference:** `ReferenceVerdict` says declaratively what the error texts promise. They quantify over the ports each AccessPort stands for, with no loop and no maps.
- **State machine:** `CheckManifest` and `CheckResources` are the two calls a caller makes on one App. The callers (the controller's App API) are not in this tree.
- **Helpers not in this tree:** `DecodeK8SYaml` and `GetLProto` are modelled from their call sites (`spec_modelled`). The model assumes that `dme.AppPort.String()`, which fills the maps, and `edgeproto.InstPort.String()`, which looks up a single port, print the same key for the same protocol and port. Their generated code is not in this tree.

### `DmeFind` (source: dme-main.go)

- **State:**
  - `dmeApp` is the App as the DME cache holds it: its profile and the protocol of its first port (`"none"` with no ports);
  - `lock` is the holder of `app.Lock()`;
  - `pc` and `result` are each client's place in FindCloudlet and its reply's `QosResult`;
  - `session` and `direct` are the gateway sessions made through FindCloudlet and through `QosPrioritySessionCreate`;
  - `crashed` is the process having exited on a panic.
- **Actions:**
  - `FindCloudlet` is the handler up to the QOS block;
  - `AppLock` is `app.Lock()`;
  - `QosDecide` is the decision under the lock, with the `Ports[0]` panic as a disjunct;
  - `GatewayReply` is the gateway's answer: an error, an empty id or an id;
  - `Return` is the return with the deferred `Unlock`;
  - `NextRequest` is a client, having its reply, sending its next FindCloudlet, so that one client can retake the lock again and again while another waits;
  - `QosPrioritySessionCreate` and `QosPrioritySessionDelete` are the session handlers. They take no lock, and no property is about them.
  - The ip_user_equipment tag and the DNS answer are request inputs chosen with `\E`.
- **Environment:** the gateway and `uaemcommon.FindCloudlet` are not in this tree. They are their possible outcomes.

### `AppServe` (composition of `Deployment` and `DmeFind`)

- `Validate` runs the manifest checks while the App is unpublished.
- `Publish` hands an accepted App to the DME cache with one of the profiles `DEFAULT`, `QOS_NO_PRIORITY` or `QOS_LOW_LATENCY`, its ports in AccessPorts order. It then settles the validation inputs to one fixed value, because the DME reads nothing else of them. So the serving phase is added to the validation states rather than multiplied by them.
- `Serve` is a `DmeFind` step.
- The controller's App API and notify path that carry the App to the DME are not in this tree (`spec_modelled`).

### `VMPoolApi` (source: vmpool_api.go)

- **The pool:** one pool key, held as `exists`, `vms` (a sequence of name/state records), `state` and `deletePrepare`.
- **Callers:** each caller is a goroutine with a program counter `pc`. Each transaction is one step.
- **Actions:**
  - `Begin` runs a call up to the end of its first transaction: `CreateVMPool`, `UpdateVMPool`, `AddVMPoolMember` and `RemoveVMPoolMember`, each with its direct or CRM branch, and `DeletePrepareTxn`.
  - `StartStream`, `WaitForInfo` and `ResetState` are the rest of `updateVMPoolInternal`.
  - `DeleteCheckInUse`, `DeleteTxn` and `UndoDeletePrepare` are the rest of `DeleteVMPool`.
- **Environment:**
  - the CRM (`CrmPick` reports `UPDATING`; `CrmReply` reports the applied list or an error), both through `UpdateFromInfo`;
  - cloudlets that start or stop using the pool;
  - `CacheSync`, which brings the controller's cloudlet cache up to date.
- **Helpers not in this tree:** `ignoreCRM`, `ignoreTransient`, `GetCloudletForVMPool` and `WaitForVMPoolInfo` are modelled from their call sites.
- **Left out:** the network-address check of `validateVMNetInfo`, which only adds rejections.
- **Termination:** `Finished` is the stutter after the bounded calls, so deadlock checking stays on.

### `KafkaBus` (source: kafka_bus.go)

- **Scope:** one cloudlet key, since the map is per key. Each `Sender` is one event: its `kafkaSend` followed by its `sendMessage` goroutine, with a program counter `pc` and its local producer `ref`.
- **Producers:** `installed` is `producers[cloudletKey]`. Producers are numbered `1..MaxProducers`. Each has a lifecycle `pstate` (unused, open, closing, closed), the endpoint `paddr` it was built for, and counts of messages in flight and of values buffered on its two channels.
- **Actions:**
  - `Start`, `Decide` and `Check` are the three parts of `kafkaSend`. `Untagged` is its early return for an event without the org, cloudlet or region tags.
  - `CreateProducer`/`CreateFails` and `InstallProducer` are the two halves of `newProducer`; `removeProducer` is part of `Decide`. The credentials come from the controller or Vault, not the cloudlet cache, so a new producer may be built for any endpoint, current or not.
  - `SendInput`, `TakeSuccess` and `TakeError` are `sendMessage`.
- **sarama** is vendored and not in this tree. `Deliver` and `Shutdown` model what its documentation promises:
  - every input yields one success or error;
  - `AsyncClose` answers later input with `ErrShuttingDown`, then closes all channels once nothing is in flight;
  - a send on a closed `Input()` panics.
- **Environment:** `UpdateCloudlet` changes the cluster endpoint or removes the cloudlet.
- **Termination:** `Finished` is the stutter once every event has returned, or waits on a producer that has nothing left for it, or the process has panicked.

### `AccessKey` (source: accesskey_server.go)

- **The cloudlet:** `pub` and `upReq` are its primary and secondary key slots with their upgrade flags.
- **Streams:** each stream slot in `Sess` is one server goroutine with a program counter `spc`. It records:
  - the role and credential it was opened with;
  - the verified `UpgradeRequired` (`sup`);
  - the key it generated (`snew`);
  - one pending message in each direction.
- **Server actions:**
  - `StreamRequireAccessKey` (with `Verify` for `VerifyAccessKeySig`);
  - `UpgradeRecvHello` and `UpgradeRecvAck` (the two halves of `UpgradeAccessKey`, the second reading the ack and starting `commitKey`);
  - `commitKey`, the rest of `BasicUpgradeHandler.commitKey`. The handler copies the cloudlet out of the cache in `UpgradeRecvAck` (`copy`) and writes the whole copy back here, so a commit of the other slot in between is lost, as in the code. Then `commit-complete` is sent;
  - `RecvFails`.
- **The CRM client** is not in this tree. `Connect`, `ClientRecv` and `ClientAbandon` model a client that:
  - signs with any credential it holds;
  - stores a new key before acking it;
  - keeps only the new key after `commit-complete`;
  - may abandon a stream at most `MaxFailures` times. Bytes it sent before abandoning may still reach the server.

### `Shepherd` (source: shepherd.go)

- **Controller state:** `state` is the controller's view of each ClusterInst and AppInst (Absent, Pending, Ready). `Create`, `Update` and `Delete` change it. An instance lives on a Ready cluster, and a cluster is deleted only after its instances. `UpdateSettings` changes the interval, at most `MaxSettings` times.
- **Shepherd's cache:** `cache` is what the callbacks have seen. `DeliverAppInst` and `DeliverClusterInst` deliver the current controller state of one object: an update with the cached old state, or the deleted callback. A present object may be re-delivered at any time, because an update of other fields also reaches the callbacks.
- **The worker maps:** `workerMap` and `vmAppWorkerMap` are the maps' key sets. `running` counts the live worker goroutines per key. `interval` is each worker's collection interval. `tracked` is the Kubernetes instances a cluster worker tracks.
- **Intervals:** `settingsCb` pushes a new interval to the cluster workers only (`updateClusterWorkers`). A VM app worker keeps the interval it started with: TLC finds such a worker after a settings change, and no run states either choice as correct.
- **Workers:** `cluster-worker.go` and `appinst-worker.go` are not in this tree. So `NewClusterWorker` and `NewAppInstWorker` may succeed or fail, and a worker is a running count and an interval.
- **Start-up and shutdown:** `phase` is start()'s wait, running, an exit by `FatalLog`, or stopped. `cloudletCb`, `StartCloudlet` and `StartTimeout` model the wait. `stop` is `stop()`.

## Runs

| Run | Result | What it shows |
|---|---|---|
| `stats_core` | pass | Every change collected by RunNotify is exported once, with strictly increasing counts per entry (`ExportsIncrease`). This holds although collection and send are split across lock releases and Clear/Prune interleave. Between ticks `lastCount` equals what was exported (`LastCountExported`). Every count is eventually exported unless its entry is deleted or the process shuts down (`ExportsEventually`). This includes counts made while `UpdateSettings` has stopped the loop and not yet restarted it. |
| `edgeturn_core` | pass | Every token in the proxy map has a goroutine that will remove it (`EntriesHaveOwner`): its handler before or inside the timeout branch, or the shell request relaying for it. The handlers implement `EdgeTurnSessions` (`RefinesSessions`): a shell connection is handed to one client, once, and only before its timeout. Both hold although `/edgeconsole` and `RoundTrip` remove entries concurrently. |
| `edgeturn_blocked_send` | violation | A goroutine blocks for ever on a send over an unbuffered channel (`SendsHaveReceiver`). It can be an `/edgeshell` request on `Connected <- true`: with a console token, with a timed-out token not yet removed, or as a second client. It can also be the second relay goroutine on `closeChan`, which leaks with every shell session. TLC's shortest trace is the console case. |
| `app_validate_serve` | pass | Over every App of up to two AccessPorts and every manifest of up to two objects, `IsValidDeploymentManifest` returns exactly the verdict its error texts promise (`ManifestVerdictMatchesReference`). An accepted App is then served to two clients, each sending request after request. Every request that reaches `app.Lock()` returns, or the process has exited (`RequestsReturn`). This holds although the other client keeps retaking the lock, and only because the lock is strongly fair: with weak fairness TLC finds the waiting client starved. |
| `aggr_core` | pass | The tracking maps always match the configuration, although queries run outside the lock while callbacks reconcile (`TrackingMatchesConfig`). |
| `vmpool_core` | pass | Two callers make any API calls under any `CrmOverride`, while a cloudlet comes and goes and the CRM answers. A pool never lists a VM name twice (`UniqueVMNames`), across direct adds, merges of CRM-bound updates and the CRM's list written back. `DeletePrepare` is set only while a `DeleteVMPool` call runs, because every error path undoes it (`DeletePrepareHasOwner`). |
| `kafka_core` | pass | Two events racing on one cloudlet, whose cluster changes or disappears, never leave an open producer outside the map (`NoLeakedProducer`). |
| `kafka_closed_input` | violation | A `sendMessage` goroutine writes to the `Input()` of a producer that another event's `removeProducer` or `newProducer` closed after the first read the map. The send panics. |
| `accesskey_core` | pass | Every step of the exchange keeps the state well formed (`TypeOK`), with primary and secondary CRMs upgrading at once and streams abandoned mid-exchange. The run exercises every action that `accesskey_late_ack` relies on. |
| `accesskey_late_ack` | violation | A stream abandoned after the ack commits its key after a newer upgrade completed. The cloudlet then registers a key the CRM has thrown away. |
| `shepherd_core` | pass | Exactly the workers in the two maps run, each once, while Shepherd runs, and none after `stop()` (`WorkersAccounted`). Once every change has been delivered, no VM app worker outlives its instance, and no Kubernetes cluster worker outlives its Prometheus instance (`NoStaleWorker`). This holds although deletes arrive coalesced. |
| `vmpool_update_overlap` | violation | Even without any override, a second update reaches the CRM while the first is in progress. Once the CRM has reported `UPDATING`, the "Action already in progress" check no longer applies. |

Some hazards the models reach are not the subject of a run. `PROJECT.json` lists them with a note:

- a `sendMessage` goroutine waiting for ever after its retry producer answered with an error, or after another goroutine took its answer from the shared channels;
- a batch refused by `s.send` is never re-sent;
- lowering `DeployIntervalCount` below the progress made;
- a zone tracked late counting its historic traffic;
- a failed VM pool stream start leaving the pool `UPDATE_REQUESTED`;
- `DeleteVMPool`'s in-use check reading a cache that lags etcd;
- Shepherd's `clusterInstDeletedCb` never stopping a Docker cluster's worker. `NoStaleWorker` stated over Docker clusters fails in `MCShepherd`, but no run slot is spent on it;
- FindCloudlet's `app.Ports[0]` on an App with no ports, which panics and ends the DME. `MCAppServe` reaches it in a few steps: a Kubernetes App with no AccessPorts and an empty manifest passes validation, and a non-`DEFAULT` profile does the rest. Whether the controller lets such an App carry a profile is decided outside this tree, so no run states it;
- `BasicUpgradeHandler.commitKey` (test-only, by its comment) losing one role's key when the primary and the secondary commit at once. With both roles and no abandoned stream, `RegisteredKeyHeld` fails in 13 steps;
- `handleConnection` returning on a decode, marshal or smux error without closing the CRM connection. The model reaches it, since `crmOpen` keeps the connection, but no run slot is spent on it.

Every property of a passing run has a mutant in `PROJECT.json`: a plausible bug in the mapped code that TLC must catch. Examples:

- dropping RunNotify's unchanged-entry skip;
- sending only batches of more than one entry;
- `UpdateSettings` not restarting the loop after its Stop;
- an off-by-one shard loop;
- a lagging store answer;
- applying an answer to an entry removed meanwhile;
- forgetting `TurnProxy.Remove` in the timeout branch;
- a for-select loop on `Connected`;
- overwriting a proxy entry with nil instead of deleting it;
- appending a merged VM again;
- the in-use error path of `DeleteVMPool` skipping its undo;
- stopping a VM app worker not in the map;
- handling a deleted AppInst with its cached state instead of "not present";
- dropping `clusterInstCb`'s READY-and-exists early return;
- expanding a port range one port short of `EndPort`;
- `commitKey` storing the stream's credential instead of the key it generated;
- retrying the gateway call under the lock after an error.

## Bounds and why they suffice

- **Generator:**
  - two apps on two shards, so a collection interleaves with changes to the other shard;
  - two policies, one on the fast path and one not;
  - two intervals, so an update restarts the loop;
  - `MaxCount = 2` increments per key, enough for two exports of one entry to be compared;
  - one Clear/Prune call, which deletes between collection and send;
  - one settings update.
- **Aggregator:**
  - one app, two zones, two policies sharing one zone, so a delta can be double counted;
  - store counts up to 2;
  - three iterations: an init iteration, then two evaluations, enough for a tracker to reach `k = 2` or to trigger with `k = 1`;
  - one configuration change and one restart.
- **EdgeTurn:**
  - two sessions, so that two tokens of different types exist;
  - three client requests of any handler on any issued token, so that two requests can race for one shell token while a third removes it.
  - The passing run reaches about 355,000 states in about a minute, most of it spent checking the refinement.
- **Kafka:**
  - two events, so that one can hold a producer while the other replaces or removes it;
  - three producers, enough for two rebuilds and a retry;
  - two endpoints and two cloudlet changes, so that an endpoint change and a removal can both happen.
  - The run reaches about 550,000 states in 10 s. Three events take minutes and add no new kind of interleaving.
- **Access key:**
  - both HA roles, so that the secondary-slot fallback and per-role commits are exercised;
  - two stream slots, so that an abandoned stream and its replacement coexist;
  - two abandoned streams, and keys enough that generation never runs out.
  - The run reaches about 310,000 states in under 10 s. `accesskey_late_ack` runs the primary CRM alone, so the trace TLC gives is the stale ack, not two roles' commits overwriting each other.
- **VM pool:**
  - one pool key, since every operation is per key;
  - two VM names, so that merges can replace one VM and append another;
  - two callers with two calls each, so that two updates, or an update and a delete, overlap;
  - all four `CrmOverride` values;
  - two cloudlet events, so that a cloudlet can take the pool and leave it.
  - The run reaches about 2.9 million states in under two minutes.
- **Shepherd:**
  - one Docker and one Kubernetes cluster, so both branches of `clusterInstCb` run;
  - on the Kubernetes cluster, one Prometheus instance (its cluster worker) and one other instance (tracked by it);
  - one VM instance;
  - two intervals and one settings change.
  - The run reaches about 3.5 million states in under two minutes.
- **Deployment:**
  - three service types, one with a port of no protocol and one UDP port, so the TCP default, the LoadBalancer/ClusterIP split and NodePort skipping are all used;
  - two workloads with an integer, a fractional and an AMD limit, and flavors with 0, 1 and 2 GPUs, so the sum reaches, meets and exceeds the count;
  - ports 1 and 2 with ranges, so ranges of one and two ports, and empty ranges, occur;
  - `MaxK8sUdpPorts = 1`, so a two-port UDP range exceeds it.
  - All four deployment types and both command values are used.
- **DME (with Deployment, in `MCAppServe`):**
  - two clients sending requests one after another, so one waits on the lock the other holds and retakes;
  - three profiles, so the `DEFAULT` return, the `QOS_NO_PRIORITY` result and the gateway call all run;
  - every first-port protocol an accepted App can have, and no ports;
  - `-qosSesAddr` set, since without it the QOS block is never entered.
  - The run checks about 620,000 states, with liveness, in about 75 s.
- Each passing run finishes in under three minutes.

## Fairness

- The generator's export loop is timer driven (`WF` on its steps). So are a Stop in progress (it only waits for the loop), a Clear/Prune in progress (a plain loop over shards) and the Start that dme-main performs at boot.
- Request arrival, settings changes and shutdown are up to the environment.
- FindCloudlet: `app.Lock()` is strongly fair (`SF`). Go's `sync.Mutex` switches to starvation mode once a waiter has waited over 1 ms and then hands the lock to the longest waiter, so a handler that keeps finding the lock free now and then does get it. The model needs this: with `WF`, TLC finds a client starved by the other client's repeated requests. The steps under the lock are weakly fair. That the gateway call returns rests on the request's gRPC deadline. Clients and the gateway's outcome are not assumed to do anything in particular.
- The Kafka, access-key and Shepherd runs check safety only and assume no fairness.
- The aggregator's iteration is timer driven (`WF` on the loop). Callbacks, traffic and restarts are not assumed to happen.

## Not modelled, and why

- Generated code, tests, process bootstrap, debug commands and the thin latency RPC: they carry no concurrent state.
- The aggregator's undeploy counting: the spec says it is never acted on.
- Its live interval changes: they move no tracked state.
- Kafka topic naming, YAML encoding and TLS/SASL setup: they decide what is sent, not when or on which producer.
- Shepherd's worker goroutines (their code is not in this tree) and its alert workers fed by `autoProvPolicyCb`, `alertPolicyCb` and `appUpdateCb`. These only queue work for those workers.
- Shepherd's `vmPoolInfoCb`, its platform and Prometheus set-up in `start()`, and the scrape interval and Prometheus config rewrite in `settingsCb`. They configure collection and change no worker map.
- Deployment validation's `DownloadFile`, `GetTimeout` and the image-type and deployment-type helpers: HTTP and string handling with no state.
- The DME's `RegisterClient` and `PlatformFindCloudlet`: request-field checks that delegate to `uaemcommon` (cookies, tokens, the app cache), which is not in this tree. Its rate-limit and TLS set-up in `main`: configuration.
- The access-key server's unary interceptors, the `VerifyOnly` branch (used by other services, not the CRM), `isTlsAccessKeyRequired` (certificate inspection) and the gRPC server start/stop.

## Plan

1. Done: the generator and the aggregator, with the runs above.
2. A pipeline module that composes the generator's exports with a Metrics Store summing the latest count per DME, and the aggregator reading it. It checks what the decreasing count of Clear/Prune and the fast path do downstream.
3. An abstract per-(app, policy, zone) tracker of consecutive qualifying intervals, and a refinement from `AutoProvAggr`.
4. Done: EdgeTurn, the VM pool API, the Kafka producer map and the access-key upgrade exchange. Done: Shepherd's worker maps. Done: deployment validation and the EdgeTurn session refinement. Done: FindCloudlet's QOS block and session handlers, composed with validation in `AppServe`.
5. Liveness for `sendMessage` (every event's goroutine returns under fair delivery), which the shared answer channels break.
