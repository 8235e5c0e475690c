------------------------------ MODULE KafkaBus ------------------------------
(***************************************************************************)
(* The Kafka event bus of src/pkg/cloudcommon/svcnode/kafka_bus.go, for   *)
(* one cloudlet key.  Every event runs kafkaSend in the caller's          *)
(* goroutine, which then starts a sendMessage goroutine; a Sender here is *)
(* the pair.  The package-level map `producers` (guarded by producerLock) *)
(* holds at most one producer per cloudlet; here it is `installed`.       *)
(*                                                                         *)
(* A sarama AsyncProducer (vendored, not in this tree) is modelled by     *)
(* what its documentation promises: every message written to Input()     *)
(* yields one value on Successes() or Errors(); AsyncClose() shuts the    *)
(* producer down in the background, answering later input with            *)
(* ErrShuttingDown, then closes Input, Errors and Successes once nothing  *)
(* is in flight.  A send on the closed Input channel panics.              *)
(***************************************************************************)
EXTENDS Naturals, FiniteSets

CONSTANTS
    Senders,      \* concurrent kafkaSend calls for the cloudlet
    Addrs,        \* Kafka cluster endpoints a cloudlet may name
    None,         \* an empty KafkaCluster / no credentials in vault
    MaxProducers, \* bound on sarama producers created
    MaxEnvOps     \* bound on UpdateCloudlet / DeleteCloudlet steps

Ids == 1..MaxProducers
NoProducer == 0
PStates == {"unused", "open", "closing", "closed"}
PCs == {"idle", "decide", "create", "install", "check", "send", "wait",
        "send2", "wait2", "done", "panic"}

VARIABLES
    pc,         \* Senders -> where the goroutine is
    ref,        \* Senders -> the producer the goroutine holds (local var)
    newp,       \* Senders -> producer being built by newProducer
    retry,      \* Senders -> newProducer was called from sendMessage
    installed,  \* producers[cloudletKey], NoProducer when absent
    pstate,     \* Ids -> sarama producer lifecycle
    paddr,      \* Ids -> the endpoint a producer was built for
    inflight,   \* Ids -> messages accepted on Input and not yet answered
    succ,       \* Ids -> values buffered in the Successes() channel
    errs,       \* Ids -> values buffered in the Errors() channel
    cluster,    \* the cloudlet's KafkaCluster as CloudletLookup sees it
    found,      \* CloudletLookup.GetCloudlet finds the cloudlet
    envOps

vars == <<pc, ref, newp, retry, installed, pstate, paddr, inflight, succ,
          errs, cluster, found, envOps>>

Init ==
    /\ pc = [s \in Senders |-> "idle"]
    /\ ref = [s \in Senders |-> NoProducer]
    /\ newp = [s \in Senders |-> NoProducer]
    /\ retry = [s \in Senders |-> FALSE]
    /\ installed = NoProducer
    /\ pstate = [p \in Ids |-> "unused"]
    /\ paddr = [p \in Ids |-> None]
    /\ inflight = [p \in Ids |-> 0]
    /\ succ = [p \in Ids |-> 0]
    /\ errs = [p \in Ids |-> 0]
    /\ cluster \in Addrs
    /\ found = TRUE
    /\ envOps = 0

Goto(s, l) == pc' = [pc EXCEPT ![s] = l]

\* AsyncClose() of a producer: starts the background shutdown.
AsyncClose(p) ==
    pstate' = [pstate EXCEPT ![p] = IF @ = "open" THEN "closing" ELSE @]

(***************************************************************************)
(* kafkaSend, lines 76-78: read producers[cloudletKey] under the lock.    *)
(* The key-tag checks before it only return early and are left out.      *)
(***************************************************************************)
\* kafkaSend returns at once for an event with no cloudletorg/org, cloudlet
\* or (outside a region) region tag.
Untagged(s) ==
    /\ pc[s] = "idle"
    /\ Goto(s, "done")
    /\ UNCHANGED <<ref, newp, retry, installed, pstate, paddr, inflight, succ,
                   errs, cluster, found, envOps>>

Start(s) ==
    /\ pc[s] = "idle"
    /\ ref' = [ref EXCEPT ![s] = installed]
    /\ Goto(s, "decide")
    /\ UNCHANGED <<newp, retry, installed, pstate, paddr, inflight, succ,
                   errs, cluster, found, envOps>>

\* removeProducer: close and delete the map entry under the lock.
removeProducer ==
    /\ IF installed # NoProducer THEN AsyncClose(installed)
                                 ELSE UNCHANGED pstate
    /\ installed' = NoProducer

(***************************************************************************)
(* kafkaSend, lines 80-106: decide, from the lookup of the cloudlet made  *)
(* after the lock was released, whether to keep the producer read, build  *)
(* a new one, or drop the producer and return.                            *)
(***************************************************************************)
Decide(s) ==
    /\ pc[s] = "decide"
    /\ retry' = [retry EXCEPT ![s] = FALSE]
    /\ \/ /\ ref[s] = NoProducer
          /\ IF ~found \/ cluster = None THEN Goto(s, "done")
                                        ELSE Goto(s, "create")
          /\ UNCHANGED <<installed, pstate>>
       \/ /\ ref[s] # NoProducer /\ found /\ cluster = None
          /\ removeProducer
          /\ Goto(s, "done")
       \/ /\ ref[s] # NoProducer /\ found /\ cluster # None
          /\ IF paddr[ref[s]] # cluster THEN Goto(s, "create")
                                        ELSE Goto(s, "check")
          /\ UNCHANGED <<installed, pstate>>
       \/ /\ ref[s] # NoProducer /\ ~found
          /\ Goto(s, "check")
          /\ UNCHANGED <<installed, pstate>>
    /\ UNCHANGED <<ref, newp, paddr, inflight, succ, errs, cluster, found,
                   envOps>>

(***************************************************************************)
(* newProducer, lines 167-217: fetch the credentials (from the controller *)
(* or vault) and build a sarama producer for their endpoint, outside the  *)
(* lock.  The credentials' store is not the cloudlet cache: its endpoint  *)
(* may be any cluster address, the cache's current one or not.  Any fetch *)
(* or build error returns, and both callers then return (lines 89-91,     *)
(* 100-103, 148-151).                                                     *)
(* A fresh producer is only available while the MaxProducers bound lasts; *)
(* past it only the error branch remains.                                 *)
(***************************************************************************)
CreateFails(s) ==
    /\ pc[s] = "create"
    /\ Goto(s, "done")
    /\ UNCHANGED <<ref, newp, retry, installed, pstate, paddr, inflight,
                   succ, errs, cluster, found, envOps>>

CreateProducer(s) ==
    /\ pc[s] = "create"
    /\ \E p \in Ids, a \in Addrs :
          /\ pstate[p] = "unused"
          /\ \A q \in Ids : pstate[q] = "unused" => p <= q
          /\ pstate' = [pstate EXCEPT ![p] = "open"]
          /\ paddr' = [paddr EXCEPT ![p] = a]
          /\ newp' = [newp EXCEPT ![s] = p]
    /\ Goto(s, "install")
    /\ UNCHANGED <<ref, retry, installed, inflight, succ, errs, cluster,
                   found, envOps>>

(***************************************************************************)
(* newProducer, lines 218-226: under the lock, AsyncClose the producer    *)
(* the map holds, which may be one another goroutine is using, and put    *)
(* the new one in.  The caller carries on with the new producer.          *)
(***************************************************************************)
InstallNoClose(s) ==
    /\ pc[s] = "install"
    /\ installed' = newp[s]
    /\ ref' = [ref EXCEPT ![s] = newp[s]]
    /\ Goto(s, IF retry[s] THEN "send2" ELSE "check")
    /\ UNCHANGED <<newp, retry, pstate, paddr, inflight, succ, errs, cluster,
                   found, envOps>>

InstallProducer(s) ==
    /\ pc[s] = "install"
    /\ IF installed # NoProducer THEN AsyncClose(installed)
                                 ELSE UNCHANGED pstate
    /\ installed' = newp[s]
    /\ ref' = [ref EXCEPT ![s] = newp[s]]
    /\ Goto(s, IF retry[s] THEN "send2" ELSE "check")
    /\ UNCHANGED <<newp, retry, paddr, inflight, succ, errs, cluster, found,
                   envOps>>

(***************************************************************************)
(* kafkaSend, lines 110-138: the event is sent only when the cloudlet's   *)
(* operator is among its orgs; the topic and YAML encoding do not change  *)
(* what happens next and are left out.                                    *)
(***************************************************************************)
Check(s) ==
    /\ pc[s] = "check"
    /\ \E allowed \in BOOLEAN : Goto(s, IF allowed THEN "send" ELSE "done")
    /\ UNCHANGED <<ref, newp, retry, installed, pstate, paddr, inflight,
                   succ, errs, cluster, found, envOps>>

(***************************************************************************)
(* sendMessage, lines 142 and 152: write the message to Input() of the    *)
(* producer held.  A producer shutting down answers with ErrShuttingDown; *)
(* a closed Input channel panics, which ends the whole process.           *)
(***************************************************************************)
SendInput(s) ==
    LET p == ref[s] IN
    /\ pc[s] \in {"send", "send2"}
    /\ CASE pstate[p] = "closed"  ->
              /\ Goto(s, "panic")
              /\ UNCHANGED <<inflight, errs>>
         [] pstate[p] = "closing" ->
              /\ errs' = [errs EXCEPT ![p] = @ + 1]
              /\ Goto(s, IF pc[s] = "send" THEN "wait" ELSE "wait2")
              /\ UNCHANGED inflight
         [] OTHER ->
              /\ inflight' = [inflight EXCEPT ![p] = @ + 1]
              /\ Goto(s, IF pc[s] = "send" THEN "wait" ELSE "wait2")
              /\ UNCHANGED errs
    /\ UNCHANGED <<ref, newp, retry, installed, pstate, paddr, succ, cluster,
                   found, envOps>>

(***************************************************************************)
(* sendMessage, lines 143-164: select on Successes() and Errors() of the  *)
(* producer held.  The channels are shared by every goroutine using that  *)
(* producer, so a goroutine may take another message's answer; a closed  *)
(* channel is always ready and yields a zero value.  An error on the     *)
(* first producer retries once with a new producer (line 147); an error  *)
(* on that one is logged and the goroutine keeps waiting (line 156).     *)
(* The zero-value read of a closed Errors() in the inner loop changes     *)
(* nothing and is left out.                                               *)
(***************************************************************************)
Readable(ch, p) == ch[p] > 0 \/ pstate[p] = "closed"
Take(ch, p) == [ch EXCEPT ![p] = IF @ > 0 THEN @ - 1 ELSE 0]

TakeSuccess(s) ==
    LET p == ref[s] IN
    /\ pc[s] \in {"wait", "wait2"}
    /\ Readable(succ, p)
    /\ succ' = Take(succ, p)
    /\ Goto(s, "done")
    /\ UNCHANGED <<ref, newp, retry, installed, pstate, paddr, inflight,
                   errs, cluster, found, envOps>>

TakeError(s) ==
    LET p == ref[s] IN
    /\ \/ pc[s] = "wait" /\ Readable(errs, p)
       \/ pc[s] = "wait2" /\ errs[p] > 0
    /\ errs' = Take(errs, p)
    /\ IF pc[s] = "wait" THEN Goto(s, "create") ELSE UNCHANGED pc
    /\ retry' = [retry EXCEPT ![s] = pc[s] = "wait"]
    /\ UNCHANGED <<ref, newp, installed, pstate, paddr, inflight, succ,
                   cluster, found, envOps>>

(***************************************************************************)
(* The sarama producer and the Kafka cluster: a message in flight is      *)
(* answered on one of the two channels; a closing producer closes its    *)
(* channels once nothing is in flight.                                    *)
(***************************************************************************)
Deliver(p) ==
    /\ inflight[p] > 0
    /\ inflight' = [inflight EXCEPT ![p] = @ - 1]
    /\ \/ succ' = [succ EXCEPT ![p] = @ + 1] /\ UNCHANGED errs
       \/ errs' = [errs EXCEPT ![p] = @ + 1] /\ UNCHANGED succ
    /\ UNCHANGED <<pc, ref, newp, retry, installed, pstate, paddr, cluster,
                   found, envOps>>

Shutdown(p) ==
    /\ pstate[p] = "closing"
    /\ inflight[p] = 0
    /\ pstate' = [pstate EXCEPT ![p] = "closed"]
    /\ UNCHANGED <<pc, ref, newp, retry, installed, paddr, inflight, succ,
                   errs, cluster, found, envOps>>

\* UpdateCloudlet / DeleteCloudlet elsewhere change what the lookup sees.
UpdateCloudlet ==
    /\ envOps < MaxEnvOps
    /\ \E c \in Addrs \cup {None}, f \in BOOLEAN :
          /\ <<c, f>> # <<cluster, found>>
          /\ cluster' = c
          /\ found' = f
    /\ envOps' = envOps + 1
    /\ UNCHANGED <<pc, ref, newp, retry, installed, pstate, paddr, inflight,
                   succ, errs>>

Crashed == \E s \in Senders : pc[s] = "panic"

\* The bounded events are over: every goroutine has returned or waits on a
\* producer with nothing left to answer it, or the process has panicked.
Finished ==
    /\ \/ Crashed
       \/ /\ \A s \in Senders : pc[s] \in {"done", "wait", "wait2"}
          /\ \A p \in Ids : inflight[p] = 0 /\ pstate[p] # "closing"
    /\ UNCHANGED vars

Next ==
    \/ /\ ~Crashed
       /\ \/ \E s \in Senders :
                \/ Untagged(s) \/ Start(s) \/ Decide(s) \/ CreateFails(s)
                \/ CreateProducer(s) \/ InstallProducer(s) \/ Check(s)
                \/ SendInput(s) \/ TakeSuccess(s) \/ TakeError(s)
          \/ \E p \in Ids : Deliver(p) \/ Shutdown(p)
          \/ UpdateCloudlet
    \/ Finished

Spec == Init /\ [][Next]_vars

-----------------------------------------------------------------------------
(***************************************************************************)
(* Every sarama producer left open is the one in the producers map, or    *)
(* one a newProducer call has built and is about to put in: concurrent    *)
(* kafkaSend / sendMessage calls that each build a producer never leave   *)
(* an open producer (with its goroutines and broker connections) behind. *)
(***************************************************************************)
NoLeakedProducer ==
    \A p \in Ids :
        pstate[p] = "open" =>
            \/ p = installed
            \/ \E s \in Senders : pc[s] = "install" /\ newp[s] = p

(***************************************************************************)
(* sendMessage never writes to the Input() channel of a producer that     *)
(* another goroutine's newProducer or removeProducer has closed: such a   *)
(* send panics and takes the process down.                                *)
(***************************************************************************)
NoSendOnClosedInput == ~Crashed
=============================================================================
