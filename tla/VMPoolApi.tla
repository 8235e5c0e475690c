------------------------------ MODULE VMPoolApi ------------------------------
(***************************************************************************)
(* The controller's VM pool API (pkg/controller/vmpool_api.go) for one     *)
(* pool key.                                                               *)
(*                                                                         *)
(* Each ApplySTMWait is a serialisable etcd transaction: one atomic step.  *)
(* An API call is a goroutine that runs several of them, and reads the     *)
(* cloudlet cache (GetCloudletForVMPool) outside any transaction.  The CRM *)
(* of the cloudlet using the pool answers an update by VMPoolInfo messages *)
(* that UpdateFromInfo writes back.  Cloudlets that start or stop using    *)
(* the pool are the environment; the cache catches up with etcd later.    *)
(*                                                                         *)
(* A VM is reduced to its name and state (its network info, which         *)
(* validateVMNetInfo compares, is left out: it only adds rejections).      *)
(* ignoreCRM, ignoreTransient, GetCloudletForVMPool and WaitForVMPoolInfo  *)
(* are not in this tree; they are modelled from their call sites.          *)
(***************************************************************************)
EXTENDS Naturals, Sequences, SequencesExt

CONSTANTS
    Names,       \* VM names (model values)
    Callers,     \* concurrent API calls (model values)
    CrmOnEdge,   \* cloudlet.CrmOnEdge of the cloudlet using the pool
    MaxCalls,    \* API calls each caller makes
    MaxCloudletOps,  \* cloudlet create/delete events of the environment
    Overrides    \* the CrmOverride values callers use

ASSUME Overrides \subseteq
    {"none", "ignore_crm", "ignore_transient", "ignore_crm_and_transient"}
IgnoreCRM(ov) == ov \in {"ignore_crm", "ignore_crm_and_transient"}
IgnoreTransient(ov) == ov \in {"ignore_transient", "ignore_crm_and_transient"}
IgnoreCRMTransient(ov) == ov = "ignore_crm_and_transient"

VMStates == {"FREE", "ADD", "REMOVE", "UPDATE", "FORCE_FREE"}
PoolStates == {"UNKNOWN", "READY", "UPDATE_REQUESTED", "UPDATING", "UPDATE_ERROR"}
VM == [name : Names, st : VMStates]

\* The VM lists a request may carry: distinct names, in one order.
InputLists(st) == {[i \in 1..Cardinality(S) |-> [name |-> SetToSeq(S)[i], st |-> st]] :
                       S \in SUBSET Names}

Ops == {"create", "update", "delete", "add", "remove"}

VARIABLES
    exists,         \* the pool key is in etcd
    vms,            \* VMPool.Vms, a sequence of VM
    state,          \* VMPool.State
    deletePrepare,  \* VMPool.DeletePrepare
    used,           \* a cloudlet in etcd uses the pool
    usedCache,      \* ... as the controller's cloudlet cache shows it
    crm,            \* the CRM: "idle" or "busy" with an update
    crmVms,         \* the pool the CRM is applying
    pc,             \* each caller's position in its API call
    ov,             \* the call's CrmOverride
    calls,          \* calls made per caller
    envOps          \* cloudlet events so far

vars == <<exists, vms, state, deletePrepare, used, usedCache, crm, crmVms,
          pc, ov, calls, envOps>>

CallerPCs == {"idle", "stream", "wait", "reset", "dcheck", "ddel", "undo"}

TypeOK ==
    /\ exists \in BOOLEAN
    /\ vms \in BoundedSeq(VM, Cardinality(Names))
    /\ state \in PoolStates
    /\ deletePrepare \in BOOLEAN
    /\ used \in BOOLEAN /\ usedCache \in BOOLEAN
    /\ crm \in {"idle", "busy"}
    /\ crmVms \in BoundedSeq(VM, Cardinality(Names))
    /\ pc \in [Callers -> CallerPCs]
    /\ ov \in [Callers -> Overrides]
    /\ calls \in [Callers -> 0..MaxCalls]
    /\ envOps \in 0..MaxCloudletOps

Init ==
    /\ exists = FALSE
    /\ vms = <<>>
    /\ state = "UNKNOWN"
    /\ deletePrepare = FALSE
    /\ used = FALSE /\ usedCache = FALSE
    /\ crm = "idle" /\ crmVms = <<>>
    /\ pc = [u \in Callers |-> "idle"]
    /\ ov = [u \in Callers |-> "none"]
    /\ calls = [u \in Callers |-> 0]
    /\ envOps = 0

NamesOf(s) == {s[i].name : i \in DOMAIN s}

pool == <<exists, vms, state, deletePrepare>>

\* A caller finishes its call (returns a result or an error).
Return(u) == pc' = [pc EXCEPT ![u] = "idle"]

-----------------------------------------------------------------------------
(* Direct updates, when no cloudlet uses the pool or the CRM is ignored.    *)

\* CreateVMPool: one transaction; an existing key is an error.
CreateVMPool(in) ==
    IF exists THEN UNCHANGED pool
    ELSE /\ exists' = TRUE /\ vms' = in /\ state' = "UNKNOWN"
         /\ deletePrepare' = FALSE

\* The STM branch of UpdateVMPool: copy in the VMs, turn FORCE_FREE into
\* FREE, and store with state READY if anything changed.
UpdateDirect(in) ==
    LET freed == [i \in DOMAIN in |->
                    IF in[i].st = "FORCE_FREE" THEN [in[i] EXCEPT !.st = "FREE"] ELSE in[i]]
        changed == vms # in \/ \E i \in DOMAIN in : in[i].st = "FORCE_FREE"
    IN IF exists /\ changed
       THEN /\ vms' = freed /\ state' = "READY"
            /\ UNCHANGED <<exists, deletePrepare>>
       ELSE UNCHANGED pool

\* Mutant: the same-name check of the loop is dropped.
AddDirectNoNameCheck(v) ==
    IF exists
    THEN /\ vms' = Append(vms, [name |-> v, st |-> "FREE"]) /\ state' = "READY"
         /\ UNCHANGED <<exists, deletePrepare>>
    ELSE UNCHANGED pool

\* The STM branch of AddVMPoolMember: a VM of the same name is an error.
AddDirect(v) ==
    IF exists /\ v \notin NamesOf(vms)
    THEN /\ vms' = Append(vms, [name |-> v, st |-> "FREE"]) /\ state' = "READY"
         /\ UNCHANGED <<exists, deletePrepare>>
    ELSE UNCHANGED pool

\* The STM branch of RemoveVMPoolMember: drop the first VM of that name.
RemoveDirect(v) ==
    IF exists /\ v \in NamesOf(vms)
    THEN LET i == CHOOSE j \in DOMAIN vms : vms[j].name = v
                    /\ \A k \in 1..(j - 1) : vms[k].name # v
         IN /\ vms' = SubSeq(vms, 1, i - 1) \o SubSeq(vms, i + 1, Len(vms))
            /\ state' = "READY"
            /\ UNCHANGED <<exists, deletePrepare>>
    ELSE UNCHANGED pool

-----------------------------------------------------------------------------
(* updateVMPoolInternal: the first transaction merges the requested VMs    *)
(* (a function name -> VM state) into the pool and marks it                *)
(* UPDATE_REQUESTED for the CRM.                                           *)

\* "no VMs specified" before the transaction, then the transaction's
\* NotFound, action-in-progress, VM-exists and VM-does-not-exist errors.
MergeRejected(upd, o) ==
    \/ DOMAIN upd = {}
    \/ ~exists
    \/ state = "UPDATE_REQUESTED" /\ ~IgnoreTransient(o)
    \/ \E i \in DOMAIN vms : vms[i].name \in DOMAIN upd /\ upd[vms[i].name] = "ADD"
    \/ \E n \in DOMAIN upd \ NamesOf(vms) : upd[n] = "REMOVE"

\* Mutant: the matched VM is not deleted from the request map, so it is
\* appended again after being replaced in place.
MergedKeepMatched(cur, upd) ==
    LET rest == SetToSeq(DOMAIN upd)
    IN [i \in DOMAIN cur |-> IF cur[i].name \in DOMAIN upd
                            THEN [name |-> cur[i].name, st |-> upd[cur[i].name]]
                            ELSE cur[i]]
       \o [i \in DOMAIN rest |-> [name |-> rest[i], st |-> upd[rest[i]]]]

\* VMs of the pool named in the request are replaced in place and deleted
\* from the request; the remaining ones are appended (in Go's map order,
\* here one fixed order: no property depends on it).
Merged(cur, upd) ==
    LET rest == SetToSeq(DOMAIN upd \ NamesOf(cur))
    IN [i \in DOMAIN cur |-> IF cur[i].name \in DOMAIN upd
                            THEN [name |-> cur[i].name, st |-> upd[cur[i].name]]
                            ELSE cur[i]]
       \o [i \in DOMAIN rest |-> [name |-> rest[i], st |-> upd[rest[i]]]]

UpdateInternal(u, o, upd) ==
    IF MergeRejected(upd, o)
    THEN UNCHANGED pool /\ Return(u)
    ELSE /\ vms' = Merged(vms, upd)
         /\ state' = "UPDATE_REQUESTED"
         /\ pc' = [pc EXCEPT ![u] = "stream"]
         /\ UNCHANGED <<exists, deletePrepare>>

\* The API entry points choose the CRM path from the cloudlet cache.
ViaCrm(o) == usedCache /\ ~IgnoreCRM(o)

UpdateVMPool(u, o, in) ==
    IF ViaCrm(o)
    THEN UpdateInternal(u, o, [n \in NamesOf(in) |->
             IF \E i \in DOMAIN in : in[i].name = n /\ in[i].st = "FORCE_FREE"
             THEN "FORCE_FREE" ELSE "UPDATE"])
    ELSE UpdateDirect(in) /\ Return(u)

AddVMPoolMember(u, o, v) ==
    IF ViaCrm(o) THEN UpdateInternal(u, o, v :> "ADD")
    ELSE AddDirect(v) /\ Return(u)

RemoveVMPoolMember(u, o, v) ==
    IF ViaCrm(o) THEN UpdateInternal(u, o, v :> "REMOVE")
    ELSE RemoveDirect(v) /\ Return(u)

\* DeleteVMPool's first transaction: mark DeletePrepare.
DeletePrepareTxn(u, o) ==
    IF ~exists \/ (deletePrepare /\ ~IgnoreCRMTransient(o))
    THEN UNCHANGED pool /\ Return(u)
    ELSE /\ deletePrepare' = TRUE
         /\ pc' = [pc EXCEPT ![u] = "dcheck"]
         /\ UNCHANGED <<exists, vms, state>>

\* A caller starts an API call with its inputs and runs it up to the end
\* of its first transaction.
Begin(u) ==
    /\ pc[u] = "idle"
    /\ calls[u] < MaxCalls
    /\ calls' = [calls EXCEPT ![u] = @ + 1]
    /\ \E o \in Overrides :
        /\ ov' = [ov EXCEPT ![u] = o]
        /\ \/ \E in \in InputLists("FREE") : CreateVMPool(in) /\ Return(u)
           \/ \E in \in InputLists("FREE") \cup InputLists("FORCE_FREE") :
                  UpdateVMPool(u, o, in)
           \/ \E v \in Names : AddVMPoolMember(u, o, v)
           \/ \E v \in Names : RemoveVMPoolMember(u, o, v)
           \/ DeletePrepareTxn(u, o)
    /\ UNCHANGED <<used, usedCache, crm, crmVms, envOps>>

\* startVMPoolStream may fail; an off-edge CRM is refused.  Both return
\* before the state is reset.
StartStream(u) ==
    /\ pc[u] = "stream"
    /\ \/ Return(u)                                   \* startStream error
       \/ pc' = [pc EXCEPT ![u] = IF CrmOnEdge THEN "wait" ELSE "idle"]
    /\ UNCHANGED <<pool, used, usedCache, crm, crmVms, ov, calls, envOps>>

\* WaitForVMPoolInfo returns on READY or UPDATE_ERROR, or when
\* UpdateVmPoolTimeout expires.
WaitForInfo(u) ==
    /\ pc[u] = "wait"
    /\ \/ state \in {"READY", "UPDATE_ERROR"}
       \/ TRUE                                        \* reqCtx timeout
    /\ pc' = [pc EXCEPT ![u] = "reset"]
    /\ UNCHANGED <<pool, used, usedCache, crm, crmVms, ov, calls, envOps>>

\* The last transaction sets the state back to UNKNOWN.
ResetState(u) ==
    /\ pc[u] = "reset"
    /\ IF exists THEN state' = "UNKNOWN" ELSE UNCHANGED state
    /\ Return(u)
    /\ UNCHANGED <<exists, vms, deletePrepare, used, usedCache, crm, crmVms,
                   ov, calls, envOps>>

\* Mutant: the in-use error returns without the deferred undo.
DeleteCheckNoUndo(u) ==
    /\ pc[u] = "dcheck"
    /\ pc' = [pc EXCEPT ![u] = IF usedCache THEN "idle" ELSE "ddel"]
    /\ UNCHANGED <<pool, used, usedCache, crm, crmVms, ov, calls, envOps>>

\* DeleteVMPool: a pool in use by a cloudlet (in the cache) is an error.
DeleteCheckInUse(u) ==
    /\ pc[u] = "dcheck"
    /\ pc' = [pc EXCEPT ![u] = IF usedCache THEN "undo" ELSE "ddel"]
    /\ UNCHANGED <<pool, used, usedCache, crm, crmVms, ov, calls, envOps>>

\* The delete transaction; a key gone meanwhile is an error (undone).
DeleteTxn(u) ==
    /\ pc[u] = "ddel"
    /\ IF exists
       THEN /\ exists' = FALSE /\ vms' = <<>> /\ state' = "UNKNOWN"
            /\ deletePrepare' = FALSE
            /\ Return(u)
       ELSE /\ UNCHANGED pool
            /\ pc' = [pc EXCEPT ![u] = "undo"]
    /\ UNCHANGED <<used, usedCache, crm, crmVms, ov, calls, envOps>>

\* The deferred undo on error clears DeletePrepare.
UndoDeletePrepare(u) ==
    /\ pc[u] = "undo"
    /\ IF exists /\ deletePrepare THEN deletePrepare' = FALSE ELSE UNCHANGED deletePrepare
    /\ Return(u)
    /\ UNCHANGED <<exists, vms, state, used, usedCache, crm, crmVms, ov, calls, envOps>>

-----------------------------------------------------------------------------
(* The CRM and the cloudlets (environment).                               *)

\* The CRM applies a VM's requested change.
Applied(s) ==
    LET kept == SelectSeq(s, LAMBDA x : x.st # "REMOVE")
    IN [i \in DOMAIN kept |-> [kept[i] EXCEPT !.st = "FREE"]]

\* UpdateFromInfo: a VMPoolInfo for a pool deleted meanwhile is dropped.
UpdateFromInfo(newVms, newState) ==
    IF exists
    THEN /\ vms' = newVms /\ state' = newState
         /\ UNCHANGED <<exists, deletePrepare>>
    ELSE UNCHANGED pool

\* The CRM sees the pool in UPDATE_REQUESTED and reports UPDATING.
CrmPick ==
    /\ crm = "idle" /\ used /\ exists /\ state = "UPDATE_REQUESTED"
    /\ crm' = "busy" /\ crmVms' = vms
    /\ UpdateFromInfo(vms, "UPDATING")
    /\ UNCHANGED <<used, usedCache, pc, ov, calls, envOps>>

\* The CRM reports the pool it applied, or an error.
CrmReply ==
    /\ crm = "busy"
    /\ crm' = "idle"
    /\ \/ UpdateFromInfo(Applied(crmVms), "READY")
       \/ UpdateFromInfo(vms, "UPDATE_ERROR")
    /\ UNCHANGED <<crmVms, used, usedCache, pc, ov, calls, envOps>>

\* A cloudlet starts using the pool.  The cloudlet API is assumed to refuse
\* a pool that is missing or marked DeletePrepare, in its own transaction.
CloudletCreate ==
    /\ envOps < MaxCloudletOps
    /\ ~used /\ exists /\ ~deletePrepare
    /\ used' = TRUE /\ envOps' = envOps + 1
    /\ UNCHANGED <<pool, usedCache, crm, crmVms, pc, ov, calls>>

CloudletDelete ==
    /\ envOps < MaxCloudletOps
    /\ used /\ crm = "idle"
    /\ used' = FALSE /\ envOps' = envOps + 1
    /\ UNCHANGED <<pool, usedCache, crm, crmVms, pc, ov, calls>>

\* The controller's cloudlet cache catches up with etcd.
CacheSync ==
    /\ usedCache # used
    /\ usedCache' = used
    /\ UNCHANGED <<pool, used, crm, crmVms, pc, ov, calls, envOps>>

\* Every caller has made its calls.
Finished ==
    /\ \A u \in Callers : pc[u] = "idle" /\ calls[u] = MaxCalls
    /\ UNCHANGED vars

Next ==
    \/ \E u \in Callers :
          \/ Begin(u) \/ StartStream(u) \/ WaitForInfo(u) \/ ResetState(u)
          \/ DeleteCheckInUse(u) \/ DeleteTxn(u) \/ UndoDeletePrepare(u)
    \/ CrmPick \/ CrmReply
    \/ CloudletCreate \/ CloudletDelete \/ CacheSync
    \/ Finished

Spec == Init /\ [][Next]_vars

-----------------------------------------------------------------------------
(* Properties                                                              *)

\* VM names in a pool stay unique through direct adds, merges of CRM-bound
\* updates and the CRM's VMPoolInfo written back.
UniqueVMNames == IsInjective([i \in DOMAIN vms |-> vms[i].name])

\* A pool marked DeletePrepare is being deleted: some DeleteVMPool call is
\* between its first transaction and its delete or undo.  A stale mark
\* would make every later delete fail with BeingDeletedError.
DeletePrepareHasOwner ==
    (exists /\ deletePrepare) => \E u \in Callers : pc[u] \in {"dcheck", "ddel", "undo"}

\* At most one update is handed to the CRM at a time, which is what the
\* "Action already in progress" check is for (unless a call overrides it
\* with an ignore-transient-state CrmOverride).
OneUpdateInFlight ==
    \A u1, u2 \in Callers :
        (/\ u1 # u2
         /\ pc[u1] \in {"stream", "wait"} /\ pc[u2] \in {"stream", "wait"})
            => IgnoreTransient(ov[u1]) \/ IgnoreTransient(ov[u2])

====
