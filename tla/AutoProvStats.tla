--------------------------- MODULE AutoProvStats ---------------------------
(***************************************************************************)
(* The auto-provisioning count generator of a DME process                  *)
(* (pkg/uaem-common/autoprov-stats.go).                                    *)
(*                                                                         *)
(* Actors:                                                                 *)
(*   - request handlers calling Increment for an (app, zone) key, each     *)
(*     call atomic under the lock of the key's shard;                      *)
(*   - the RunNotify goroutine, which on every timer tick visits the       *)
(*     shards one at a time, collects the changed counters and then sends  *)
(*     the batch after all shard locks are released;                       *)
(*   - the lifecycle caller: dme-main calls Start before the notify client *)
(*     starts, the settings callback calls UpdateSettings, and the         *)
(*     deferred Stop runs at shutdown after the callbacks have stopped;    *)
(*   - the app-cache callbacks calling Clear and Prune, which also visit   *)
(*     the shards one at a time.                                           *)
(*                                                                         *)
(* A counter map entry is present iff its count is non-zero: an entry is   *)
(* created by Increment (count becomes 1) and deleted by Clear/Prune,      *)
(* which is modelled as resetting both fields to 0.                        *)
(***************************************************************************)
EXTENDS Integers, Sequences, FiniteSets

LOCAL INSTANCE SequencesExt

CONSTANTS
    Apps,            \* application keys (model values)
    Zones,           \* zone keys (model values)
    NumShards,       \* s.numShards
    ShardIndex,      \* util.GetShardIndex: a fixed function Keys -> 1..NumShards
    Policies,        \* the policies a request can be governed by
    Intervals,       \* the values the settings callback may set intervalSec to
    MaxCount,        \* bound: increments per key
    MaxClears,       \* bound: Clear/Prune calls
    MaxUpdates       \* bound: interval changes by the settings callback

Keys == Apps \X Zones

ASSUME NumShards \in Nat \ {0}
ASSUME ShardIndex \in [Keys -> 1..NumShards]
ASSUME Policies \subseteq [DeployClientCount : Nat, IntervalCount : Nat]
ASSUME MaxCount \in Nat /\ MaxClears \in Nat /\ MaxUpdates \in Nat

VARIABLES
    count,       \* AutoProvCounts.count per key
    lastCount,   \* AutoProvCounts.lastCount per key
    intervalSec, \* s.intervalSec
    stop,        \* s.stop: "nil", "open" or "closed"
    loop,        \* RunNotify goroutine: "none", "wait", "collect", "send"
    cursor,      \* RunNotify: next shard to visit
    batch,       \* RunNotify: the counts collected so far (sendCounts.Counts)
    ctl,         \* lifecycle caller's program counter
    caller,      \* why Stop is running: "update", "shutdown", or "none"
    newInterval, \* UpdateSettings argument while its restart is in progress
    pruner,      \* Clear/Prune in progress: [op, apps, cur]
    clears,      \* number of Clear/Prune calls made (bounded)
    updates,     \* number of interval changes made (bounded)
    epoch,       \* ghost: number of times a key's entry was deleted
    exported,    \* ghost: latest periodic export of each key, [count, epoch]
    fastSent,    \* ghost: count of the latest ProcessNow report of each entry
    panicked     \* a close of a nil or closed channel crashed the process

vars == <<count, lastCount, intervalSec, stop, loop, cursor, batch, ctl,
          caller, newInterval, pruner, clears, updates, epoch, exported, fastSent, panicked>>

KeysOfShard(i) == {k \in Keys : ShardIndex[k] = i}

Present(k) == count[k] > 0

NoPruner == [op |-> "none", apps |-> {}, cur |-> 1]

TypeOK ==
    /\ count \in [Keys -> 0..MaxCount]
    /\ lastCount \in [Keys -> 0..MaxCount]
    /\ intervalSec \in Intervals
    /\ stop \in {"nil", "open", "closed"}
    /\ loop \in {"none", "wait", "collect", "send"}
    /\ cursor \in 1..(NumShards + 1)
    /\ batch \subseteq [key : Keys, count : 0..MaxCount, epoch : 0..MaxClears]
    /\ ctl \in {"init", "serving", "stop_close", "stop_wait", "stop_nil",
                "upd_set", "upd_start", "exited"}
    /\ caller \in {"update", "shutdown", "none"}
    /\ newInterval \in Intervals
    /\ pruner \in [op : {"none", "clear", "prune"}, apps : SUBSET Apps,
                   cur : 1..NumShards]
    /\ clears \in 0..MaxClears
    /\ updates \in 0..MaxUpdates
    /\ epoch \in [Keys -> 0..MaxClears]
    /\ exported \in [Keys -> [count : 0..MaxCount, epoch : 0..MaxClears]]
    /\ fastSent \in [Keys -> 0..MaxCount]
    /\ panicked \in BOOLEAN

Init ==
    /\ count = [k \in Keys |-> 0]
    /\ lastCount = [k \in Keys |-> 0]
    /\ intervalSec \in Intervals
    /\ stop = "nil"
    /\ loop = "none"
    /\ cursor = 1
    /\ batch = {}
    /\ ctl = "init"
    /\ caller = "none"
    /\ newInterval = intervalSec
    /\ pruner = NoPruner
    /\ clears = 0
    /\ updates = 0
    /\ epoch = [k \in Keys |-> 0]
    /\ exported = [k \in Keys |-> [count |-> 0, epoch |-> 0]]
    /\ fastSent = [k \in Keys |-> 0]
    /\ panicked = FALSE

Alive == ~panicked

\* Requests are served between Start and the shutdown Stop.
Serving == ctl \notin {"init", "exited"} /\ caller # "shutdown"

-----------------------------------------------------------------------------
(* Lifecycle                                                               *)

\* Start: under s.mux, return if already running, else make the stop
\* channel and launch RunNotify.
StartBody ==
    IF stop # "nil"
    THEN UNCHANGED <<stop, loop>>
    ELSE /\ stop' = "open"
         /\ loop' = "wait"

Start ==
    /\ Alive
    /\ ctl = "init"
    /\ StartBody
    /\ ctl' = "serving"
    /\ UNCHANGED <<count, lastCount, intervalSec, cursor, batch, caller,
                   newInterval, pruner, clears, updates, epoch, exported, fastSent, panicked>>

\* Stop, first critical section: close(s.stop).  Closing a nil or an
\* already closed channel panics.
StopClose ==
    /\ Alive
    /\ ctl = "stop_close"
    /\ IF stop = "open"
       THEN /\ stop' = "closed"
            /\ ctl' = "stop_wait"
            /\ UNCHANGED panicked
       ELSE /\ panicked' = TRUE
            /\ UNCHANGED <<stop, ctl>>
    /\ UNCHANGED <<count, lastCount, intervalSec, loop, cursor, batch, caller,
                   newInterval, pruner, clears, updates, epoch, exported, fastSent>>

\* Stop: s.waitGroup.Wait() returns once RunNotify has exited.
StopWait ==
    /\ Alive
    /\ ctl = "stop_wait"
    /\ loop = "none"
    /\ ctl' = "stop_nil"
    /\ UNCHANGED <<count, lastCount, intervalSec, stop, loop, cursor, batch,
                   caller, newInterval, pruner, clears, updates, epoch, exported, fastSent, panicked>>

\* Stop, second critical section: s.stop = nil.  Stop then returns to its
\* caller: UpdateSettings goes on to set the interval, the shutdown path
\* lets the process exit.
StopNil ==
    /\ Alive
    /\ ctl = "stop_nil"
    /\ stop' = "nil"
    /\ ctl' = IF caller = "update" THEN "upd_set" ELSE "exited"
    /\ UNCHANGED <<count, lastCount, intervalSec, loop, cursor, batch, caller,
                   newInterval, pruner, clears, updates, epoch, exported,
                   fastSent, panicked>>

\* UpdateSettings after its Stop: s.intervalSec = intervalSec under s.mux.
UpdateSetInterval ==
    /\ Alive
    /\ ctl = "upd_set"
    /\ intervalSec' = newInterval
    /\ ctl' = "upd_start"
    /\ UNCHANGED <<count, lastCount, stop, loop, cursor, batch, caller,
                   newInterval, pruner, clears, updates, epoch, exported,
                   fastSent, panicked>>

\* UpdateSettings: restart was true, so Start, in its own critical section.
UpdateRestart ==
    /\ Alive
    /\ ctl = "upd_start"
    /\ StartBody
    /\ ctl' = "serving"
    /\ caller' = "none"
    /\ UNCHANGED <<count, lastCount, intervalSec, cursor, batch, newInterval,
                   pruner, clears, updates, epoch, exported, fastSent, panicked>>

\* UpdateSettings(iv): returns when the interval is unchanged; otherwise
\* restart := s.stop != nil, Stop if running, set the interval, Start if
\* it was running.
UpdateSettings(iv) ==
    /\ Alive
    /\ ctl = "serving"
    /\ iv # intervalSec
    /\ updates < MaxUpdates
    /\ updates' = updates + 1
    /\ IF stop # "nil"
       THEN /\ ctl' = "stop_close"
            /\ caller' = "update"
            /\ newInterval' = iv
            /\ UNCHANGED intervalSec
       ELSE /\ intervalSec' = iv
            /\ UNCHANGED <<ctl, caller, newInterval>>
    /\ UNCHANGED <<count, lastCount, stop, loop, cursor, batch, pruner,
                   clears, epoch, exported, fastSent, panicked>>

\* The deferred Stop in dme-main.
CallStop(why) ==
    /\ Alive
    /\ ctl = "serving"
    /\ ctl' = "stop_close"
    /\ caller' = why
    /\ UNCHANGED <<count, lastCount, intervalSec, stop, loop, cursor, batch,
                   newInterval, pruner, clears, updates, epoch, exported, fastSent, panicked>>

-----------------------------------------------------------------------------
(* Increment: one request handler call, atomic under the shard lock.       *)

FastPathDue(k, c, p) ==
    /\ c - lastCount[k] >= p.DeployClientCount
    /\ p.IntervalCount <= 1

Increment(k, p) ==
    /\ Alive
    /\ Serving
    /\ count[k] < MaxCount
    /\ count' = [count EXCEPT ![k] = @ + 1]
    /\ IF FastPathDue(k, count[k] + 1, p)
       THEN fastSent' = [fastSent EXCEPT ![k] = count[k] + 1]
       ELSE UNCHANGED fastSent
    /\ UNCHANGED <<lastCount, intervalSec, stop, loop, cursor, batch, ctl,
                   caller, newInterval, pruner, clears, updates, epoch, exported,
                   panicked>>

-----------------------------------------------------------------------------
(* RunNotify                                                               *)

\* time.After(waitTime) fires: start a new, empty sendCounts (the previous
\* one was dropped by SendBatch).
TimerFires ==
    /\ Alive
    /\ loop = "wait"
    /\ loop' = "collect"
    /\ UNCHANGED <<count, lastCount, intervalSec, stop, cursor, batch, ctl, caller,
                   newInterval, pruner, clears, updates, epoch, exported, fastSent, panicked>>

\* Visit one shard under its lock: every entry whose count moved since the
\* last collection is added to the batch and its lastCount catches up.
\* Mutant: the unchanged-entry skip is dropped.
ChangedAll(i) == {k \in KeysOfShard(i) : Present(k)}

\* Mutant: an entry is exported only when it moved by more than one.
ChangedByMoreThanOne(i) == {k \in KeysOfShard(i) : count[k] > lastCount[k] + 1}

Changed(i) == {k \in KeysOfShard(i) : count[k] # lastCount[k]}

CollectShard ==
    /\ Alive
    /\ loop = "collect"
    /\ cursor <= NumShards
    /\ batch' = batch \cup {[key |-> k, count |-> count[k], epoch |-> epoch[k]]
                             : k \in Changed(cursor)}
    /\ lastCount' = [k \in Keys |-> IF k \in Changed(cursor) THEN count[k]
                                                            ELSE lastCount[k]]
    /\ cursor' = cursor + 1
    /\ UNCHANGED <<count, intervalSec, stop, loop, ctl, caller, newInterval,
                   pruner, clears, updates, epoch, exported, fastSent, panicked>>

\* Mutant: len(sendCounts.Counts) > 1 instead of > 0.
ShouldSendMoreThanOne(b) == Cardinality(b) > 1

\* All shards visited: send the batch if it is not empty.
ShouldSend(b) == b # {}

SendBatch ==
    /\ Alive
    /\ loop = "collect"
    /\ cursor > NumShards
    /\ IF ShouldSend(batch)
       THEN exported' = [k \in Keys |->
                           IF \E b \in batch : b.key = k
                           THEN LET b == CHOOSE b \in batch : b.key = k
                                IN [count |-> b.count, epoch |-> b.epoch]
                           ELSE exported[k]]
       ELSE UNCHANGED exported
    /\ loop' = "wait"
    /\ cursor' = 1
    /\ batch' = {}
    /\ UNCHANGED <<count, lastCount, intervalSec, stop, ctl, caller, newInterval,
                   pruner, clears, updates, epoch, fastSent, panicked>>

\* case <-s.stop: the loop ends and calls s.waitGroup.Done().
LoopExit ==
    /\ Alive
    /\ loop = "wait"
    /\ stop = "closed"
    /\ loop' = "none"
    /\ UNCHANGED <<count, lastCount, intervalSec, stop, cursor, batch, ctl,
                   caller, newInterval, pruner, clears, updates, epoch, exported, fastSent, panicked>>

-----------------------------------------------------------------------------
(* Clear and Prune, called from the app-cache callbacks.                   *)

\* Clear(appKey) deletes the entries of one app; Prune(apps) deletes the
\* entries of every app not in apps.
Doomed(k) ==
    \/ pruner.op = "clear" /\ k[1] \in pruner.apps
    \/ pruner.op = "prune" /\ k[1] \notin pruner.apps

CallPruner ==
    /\ Alive
    /\ Serving
    /\ pruner.op = "none"
    /\ clears < MaxClears
    /\ \/ \E a \in Apps : pruner' = [op |-> "clear", apps |-> {a}, cur |-> 1]
       \/ \E S \in SUBSET Apps : pruner' = [op |-> "prune", apps |-> S, cur |-> 1]
    /\ clears' = clears + 1
    /\ UNCHANGED <<count, lastCount, intervalSec, stop, loop, cursor, batch,
                   ctl, caller, newInterval, updates, epoch, exported, fastSent, panicked>>

\* Mutant: the shard loop runs one index too far.
LastShardDoneLate == pruner.cur > NumShards

LastShardDone == pruner.cur = NumShards

\* One shard under its lock.
PruneShard ==
    /\ Alive
    /\ pruner.op # "none"
    /\ LET gone == {k \in KeysOfShard(pruner.cur) : Doomed(k) /\ Present(k)}
       IN /\ count' = [k \in Keys |-> IF k \in gone THEN 0 ELSE count[k]]
          /\ lastCount' = [k \in Keys |-> IF k \in gone THEN 0 ELSE lastCount[k]]
          /\ epoch' = [k \in Keys |-> IF k \in gone THEN epoch[k] + 1 ELSE epoch[k]]
          /\ fastSent' = [k \in Keys |-> IF k \in gone THEN 0 ELSE fastSent[k]]
    /\ pruner' = IF LastShardDone THEN NoPruner
                 ELSE [pruner EXCEPT !.cur = @ + 1]
    /\ UNCHANGED <<intervalSec, stop, loop, cursor, batch, ctl, caller,
                   newInterval, clears, updates, exported, panicked>>

-----------------------------------------------------------------------------

\* The process has exited after the shutdown Stop, or crashed on a panic:
\* nothing more happens.
Halted ==
    /\ ctl = "exited" \/ panicked
    /\ UNCHANGED vars

LoopStep == TimerFires \/ CollectShard \/ SendBatch \/ LoopExit

StopStep == StopClose \/ StopWait \/ StopNil

UpdateStep == UpdateSetInterval \/ UpdateRestart

Next ==
    \/ Start
    \/ StopStep
    \/ UpdateStep
    \/ \E iv \in Intervals : UpdateSettings(iv)
    \/ CallStop("shutdown")
    \/ \E k \in Keys, p \in Policies : Increment(k, p)
    \/ LoopStep
    \/ CallPruner
    \/ PruneShard
    \/ Halted

\* The export loop is driven by a timer and runs while it is started; a
\* Stop or a Clear/Prune call, once made, runs to completion.  Request
\* arrival, settings changes and shutdown are up to the environment.
Fairness ==
    /\ WF_vars(LoopStep)
    /\ WF_vars(StopStep)
    /\ WF_vars(UpdateStep)
    /\ WF_vars(PruneShard)
    /\ WF_vars(Start)

Spec == Init /\ [][Next]_vars /\ Fairness

-----------------------------------------------------------------------------
(* Properties                                                              *)

\* The count of the latest periodic export of k's current map entry.
Reported(k) == IF exported[k].epoch = epoch[k] THEN exported[k].count ELSE 0

\* The step of RunNotify that hands the batch to s.send, and the batch
\* entry it exports for key k.
ExportOf(b) ==
    /\ loop = "collect" /\ loop' = "wait"
    /\ exported'[b.key] = [count |-> b.count, epoch |-> b.epoch]

\* For one counter map entry, the periodic exports of RunNotify carry
\* strictly increasing cumulative counts: an entry is exported only when it
\* changed since the last collection, even though the batch is sent after
\* every shard lock is released and Clear/Prune may delete entries between
\* the collection and the send.
ExportsIncrease ==
    [][\A b \in batch :
          (ExportOf(b) /\ exported[b.key].epoch = b.epoch)
              => b.count > exported[b.key].count]_vars

\* Between two timer ticks, lastCount of every entry is exactly the count
\* the aggregator has been sent for it: collecting an entry advances
\* lastCount under the shard lock, so the batch must then be sent, and a
\* deleted entry restarts from zero on both sides.
LastCountExported ==
    loop = "wait" => \A k \in Keys : lastCount[k] = Reported(k)

\* Every increment of a counter is eventually carried by a periodic export,
\* unless its entry is deleted by Clear/Prune or the process shuts down.
\* Increments made while UpdateSettings has stopped the loop and not yet
\* restarted it are exported by the restarted loop.
ExportsEventually ==
    \A k \in Keys, n \in 1..MaxCount :
        (count[k] = n) ~> (Reported(k) >= n \/ count[k] < n \/ caller = "shutdown")

====
