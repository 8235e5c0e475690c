------------------------------ MODULE AccessKey ------------------------------
(***************************************************************************)
(* The access-key check and key-upgrade exchange of                       *)
(* src/pkg/cloudcommon/svcnode/accesskey_server.go, for one cloudlet.     *)
(*                                                                         *)
(* Server side (the code): every UpgradeAccessKey stream is a session.   *)
(* StreamRequireAccessKey runs VerifyAccessKeySig against the cloudlet    *)
(* cache, then UpgradeAccessKey receives the client's first message,     *)
(* sends a fresh key, waits for the ack and commits the new public key   *)
(* with commitKey (the one in this tree is BasicUpgradeHandler's).       *)
(*                                                                         *)
(* Client side (the CRM, not in this tree): it connects with any          *)
(* credential it holds (an access key, or its Vault AppRole when it has  *)
(* one), stores a key it is sent before acking it, and forgets every     *)
(* other key once commit-complete says the new one is registered.  A     *)
(* client may give up on a stream at any time (timeout, restart,         *)
(* lost connection), at most MaxFailures times; bytes it sent before     *)
(* that may still reach the server.                                       *)
(***************************************************************************)
EXTENDS Naturals, FiniteSets

CONSTANTS
    Crms,         \* HA roles that run a CRM: subset of {"primary","secondary"}
    Sess,         \* stream slots the server may serve at once
    MaxKeys,      \* bound on key pairs ever generated
    MaxFailures,  \* bound on streams a client abandons
    None,         \* empty public key
    Vault         \* the Vault AppRole credential

Roles == {"primary", "secondary"}
Keys == 1..MaxKeys
NoSess == 0
SPCs == {"free", "verify", "recv", "waitack", "commit", "end"}
CPCs == {"idle", "wait", "acked", "done"}
ToServer == {"none", "hello", "ack"}
ToClient == {"none", "new-key", "not-needed", "commit-complete", "error"}

\* A copy not taken, or written back.
NoCopy == [pub |-> [r \in Roles |-> None], upReq |-> [r \in Roles |-> FALSE]]

ASSUME Crms \subseteq Roles /\ MaxKeys >= Cardinality(Crms)

VARIABLES
    pub,       \* Cloudlet.(Secondary)CrmAccessPublicKey per role
    upReq,     \* Cloudlet.(Secondary)CrmAccessKeyUpgradeRequired per role
    hasVault,  \* the CRM of a role holds Vault AppRole credentials
    nextKey,   \* next key GenerateAccessKey returns
    held,      \* Crms -> private keys the CRM holds
    cpc,       \* Crms -> client state
    conn,      \* Crms -> stream the client uses, NoSess when none
    spc,       \* Sess -> server goroutine state
    srole,     \* Sess -> role of the client of the stream
    scred,     \* Sess -> credential the client signed with
    sup,       \* Sess -> verified.UpgradeRequired
    snew,      \* Sess -> keyPair generated for the stream
    toS,       \* Sess -> message from the client not yet read
    toC,       \* Sess -> message to the client not yet read
    broken,    \* Sess -> the client has gone
    copy,      \* Sess -> the cloudlet as commitKey copied it from the cache
    failures

vars == <<pub, upReq, hasVault, nextKey, held, cpc, conn, spc, srole, scred,
          sup, snew, toS, toC, broken, copy, failures>>

TypeOK ==
    /\ pub \in [Roles -> Keys \cup {None}]
    /\ upReq \in [Roles -> BOOLEAN]
    /\ hasVault \in [Crms -> BOOLEAN]
    /\ nextKey \in 1..MaxKeys + 1
    /\ held \in [Crms -> SUBSET Keys]
    /\ cpc \in [Crms -> CPCs]
    /\ conn \in [Crms -> Sess \cup {NoSess}]
    /\ spc \in [Sess -> SPCs]
    /\ srole \in [Sess -> Roles]
    /\ scred \in [Sess -> Keys \cup {Vault, None}]
    /\ sup \in [Sess -> BOOLEAN]
    /\ snew \in [Sess -> Keys \cup {None}]
    /\ toS \in [Sess -> ToServer]
    /\ toC \in [Sess -> ToClient]
    /\ broken \in [Sess -> BOOLEAN]
    /\ copy \in [Sess -> [pub : [Roles -> Keys \cup {None}], upReq : [Roles -> BOOLEAN]]]
    /\ failures \in 0..MaxFailures

(***************************************************************************)
(* Each CRM starts with its own registered key, with the upgrade flag     *)
(* either set or clear, and with or without Vault credentials.            *)
(***************************************************************************)
InitialKey == CHOOSE f \in [Crms -> 1..Cardinality(Crms)] :
                  \A a, b \in Crms : a # b => f[a] # f[b]

Init ==
    /\ pub = [r \in Roles |-> IF r \in Crms THEN InitialKey[r] ELSE None]
    /\ upReq \in [Roles -> BOOLEAN]
    /\ hasVault \in [Crms -> BOOLEAN]
    /\ nextKey = Cardinality(Crms) + 1
    /\ held = [r \in Crms |-> {InitialKey[r]}]
    /\ cpc = [r \in Crms |-> "idle"]
    /\ conn = [r \in Crms |-> NoSess]
    /\ spc = [x \in Sess |-> "free"]
    /\ srole = [x \in Sess |-> "primary"]
    /\ scred = [x \in Sess |-> None]
    /\ sup = [x \in Sess |-> FALSE]
    /\ snew = [x \in Sess |-> None]
    /\ toS = [x \in Sess |-> "none"]
    /\ toC = [x \in Sess |-> "none"]
    /\ broken = [x \in Sess |-> FALSE]
    /\ copy = [x \in Sess |-> NoCopy]
    /\ failures = 0

(***************************************************************************)
(* VerifyAccessKeySig for the UpgradeAccessKey method, lines 107-190, with *)
(* verifyPublicKey (93-104): "fail", or whether UpgradeRequired is set    *)
(* ("upgrade") or not ("current").  A key signature is checked against the primary key, then the  *)
(* secondary one, and the flag comes from the slot that matched; a Vault   *)
(* signature always requires an upgrade.                                   *)
(***************************************************************************)
Verify(c) ==
    LET Flag(r) == IF upReq[r] THEN "upgrade" ELSE "current" IN
    CASE c = Vault -> "upgrade"
      [] pub["primary"] = None /\ pub["secondary"] = None -> "fail"
      [] pub["primary"] = c -> Flag("primary")
      [] pub["secondary"] # None /\ pub["secondary"] = c -> Flag("secondary")
      [] OTHER -> "fail"

Creds(r) == held[r] \cup (IF hasVault[r] THEN {Vault} ELSE {})

FreeSess(x) == spc[x] \in {"free", "end"} /\ \A r \in Crms : conn[r] # x

(* The CRM opens a stream signed with credential c and sends its first   *)
(* message (VerifyOnly false, HaRole its role).                          *)
Connect(r, c, x) ==
    /\ cpc[r] = "idle"
    /\ spc' = [spc EXCEPT ![x] = "verify"]
    /\ srole' = [srole EXCEPT ![x] = r]
    /\ scred' = [scred EXCEPT ![x] = c]
    /\ sup' = [sup EXCEPT ![x] = FALSE]
    /\ snew' = [snew EXCEPT ![x] = None]
    /\ toS' = [toS EXCEPT ![x] = "hello"]
    /\ toC' = [toC EXCEPT ![x] = "none"]
    /\ broken' = [broken EXCEPT ![x] = FALSE]
    /\ conn' = [conn EXCEPT ![r] = x]
    /\ cpc' = [cpc EXCEPT ![r] = "wait"]
    /\ UNCHANGED <<pub, upReq, hasVault, nextKey, held, failures, copy>>

(***************************************************************************)
(* StreamRequireAccessKey, lines 209-223: verify the signature against the *)
(* cache; on failure the stream ends with the error (after BadAuthDelay). *)
(***************************************************************************)
StreamRequireAccessKey(x) ==
    /\ spc[x] = "verify"
    /\ LET v == Verify(scred[x]) IN
         IF v = "fail"
         THEN /\ spc' = [spc EXCEPT ![x] = "end"]
              /\ toC' = [toC EXCEPT ![x] = "error"]
              /\ UNCHANGED sup
         ELSE /\ spc' = [spc EXCEPT ![x] = "recv"]
              /\ sup' = [sup EXCEPT ![x] = v = "upgrade"]
              /\ UNCHANGED toC
    /\ UNCHANGED <<pub, upReq, hasVault, nextKey, held, cpc, conn, srole,
                   scred, snew, toS, broken, failures, copy>>

(* stream.Send: the message is lost when the client has gone. *)
SendToClient(x, m) ==
    toC' = [toC EXCEPT ![x] = IF broken[x] THEN "none" ELSE m]

(* stream.Recv fails once the client has gone and nothing it sent is left. *)
RecvFails(x) ==
    /\ spc[x] \in {"recv", "waitack"}
    /\ toS[x] = "none" /\ broken[x]
    /\ spc' = [spc EXCEPT ![x] = "end"]
    /\ UNCHANGED <<pub, upReq, hasVault, nextKey, held, cpc, conn, srole,
                   scred, sup, snew, toS, toC, broken, failures, copy>>

(***************************************************************************)
(* UpgradeAccessKey, lines 277-323: read the first message; without an    *)
(* upgrade required answer upgrade-not-needed and end; otherwise generate *)
(* a key pair and send the private key.  Past MaxKeys GenerateAccessKey    *)
(* is not modelled, so the step waits.  The VerifyOnly branch (289-299)   *)
(* serves other services, not the CRM, and is left out.                   *)
(***************************************************************************)
UpgradeRecvHello(x) ==
    /\ spc[x] = "recv"
    /\ toS[x] = "hello"
    /\ toS' = [toS EXCEPT ![x] = "none"]
    /\ IF ~sup[x]
       THEN /\ SendToClient(x, "not-needed")
            /\ spc' = [spc EXCEPT ![x] = "end"]
            /\ UNCHANGED <<nextKey, snew>>
       ELSE /\ nextKey <= MaxKeys
            /\ snew' = [snew EXCEPT ![x] = nextKey]
            /\ nextKey' = nextKey + 1
            /\ SendToClient(x, "new-key")
            /\ spc' = [spc EXCEPT ![x] = IF broken[x] THEN "end" ELSE "waitack"]
    /\ UNCHANGED <<pub, upReq, hasVault, held, cpc, conn, srole, scred, sup,
                   broken, failures, copy>>

(***************************************************************************)
(* UpgradeAccessKey, lines 324-332: read the ack and call commitKey.      *)
(* BasicUpgradeHandler.commitKey ("Not thread safe, unit-test only")      *)
(* first copies the cloudlet out of the cache (lines 414-419) ...         *)
(***************************************************************************)
UpgradeRecvAck(x) ==
    /\ spc[x] = "waitack"
    /\ toS[x] = "ack"
    /\ toS' = [toS EXCEPT ![x] = "none"]
    /\ copy' = [copy EXCEPT ![x] = [pub |-> pub, upReq |-> upReq]]
    /\ spc' = [spc EXCEPT ![x] = "commit"]
    /\ UNCHANGED <<pub, upReq, hasVault, nextKey, held, cpc, conn, srole,
                   scred, sup, snew, toC, broken, failures>>

\* Mutant: the stream's signing credential is committed, not its new key.
commitKeyCred(x) ==
    /\ spc[x] = "commit"
    /\ pub' = [copy[x].pub EXCEPT ![srole[x]] = scred[x]]
    /\ upReq' = [copy[x].upReq EXCEPT ![srole[x]] = FALSE]
    /\ copy' = [copy EXCEPT ![x] = NoCopy]
    /\ SendToClient(x, "commit-complete")
    /\ spc' = [spc EXCEPT ![x] = "end"]
    /\ UNCHANGED <<hasVault, nextKey, held, cpc, conn, srole, scred, sup,
                   snew, toS, broken, failures>>

(***************************************************************************)
(* ... then sets the key slot of the role the client named, clears its    *)
(* upgrade flag and writes the whole copy back (lines 420-428); a slot    *)
(* another stream committed in between is overwritten.  UpgradeAccessKey  *)
(* then sends commit-complete (lines 336-342).                            *)
(***************************************************************************)
commitKey(x) ==
    /\ spc[x] = "commit"
    /\ pub' = [copy[x].pub EXCEPT ![srole[x]] = snew[x]]
    /\ upReq' = [copy[x].upReq EXCEPT ![srole[x]] = FALSE]
    /\ copy' = [copy EXCEPT ![x] = NoCopy]
    /\ SendToClient(x, "commit-complete")
    /\ spc' = [spc EXCEPT ![x] = "end"]
    /\ UNCHANGED <<hasVault, nextKey, held, cpc, conn, srole, scred, sup,
                   snew, toS, broken, failures>>

(***************************************************************************)
(* The CRM reads the server's answer: it stores a new key and acks it,    *)
(* keeps only the new key once it is committed, is done when no upgrade  *)
(* is needed, and retries after an error.                                 *)
(***************************************************************************)
ClientRecv(r) ==
    LET x == conn[r] IN
    /\ cpc[r] \in {"wait", "acked"}
    /\ toC[x] # "none"
    /\ toC' = [toC EXCEPT ![x] = "none"]
    /\ CASE toC[x] = "new-key" ->
              /\ held' = [held EXCEPT ![r] = @ \cup {snew[x]}]
              /\ toS' = [toS EXCEPT ![x] = "ack"]
              /\ cpc' = [cpc EXCEPT ![r] = "acked"]
              /\ UNCHANGED conn
         [] toC[x] = "commit-complete" ->
              /\ held' = [held EXCEPT ![r] = {snew[x]}]
              /\ cpc' = [cpc EXCEPT ![r] = "done"]
              /\ UNCHANGED <<toS, conn>>
         [] toC[x] = "not-needed" ->
              /\ cpc' = [cpc EXCEPT ![r] = "done"]
              /\ UNCHANGED <<held, toS, conn>>
         [] toC[x] = "error" ->
              /\ cpc' = [cpc EXCEPT ![r] = "idle"]
              /\ conn' = [conn EXCEPT ![r] = NoSess]
              /\ UNCHANGED <<held, toS>>
    /\ UNCHANGED <<pub, upReq, hasVault, nextKey, spc, srole, scred, sup,
                   snew, broken, failures, copy>>

(* The CRM gives up on its stream (timeout, restart, lost connection);    *)
(* what it already sent may still be read by the server.                  *)
ClientAbandon(r) ==
    /\ cpc[r] \in {"wait", "acked"}
    /\ failures < MaxFailures
    /\ broken' = [broken EXCEPT ![conn[r]] = TRUE]
    /\ cpc' = [cpc EXCEPT ![r] = "idle"]
    /\ conn' = [conn EXCEPT ![r] = NoSess]
    /\ failures' = failures + 1
    /\ UNCHANGED <<pub, upReq, hasVault, nextKey, held, spc, srole, scred,
                   sup, snew, toS, toC, copy>>

\* Every CRM is done and every server goroutine has returned.
Finished ==
    /\ \A r \in Crms : cpc[r] = "done"
    /\ \A x \in Sess : spc[x] \in {"free", "end"}
    /\ UNCHANGED vars

Next ==
    \/ \E r \in Crms, x \in Sess :
          \E c \in Creds(r) : FreeSess(x) /\ Connect(r, c, x)
    \/ \E x \in Sess :
          \/ StreamRequireAccessKey(x) \/ UpgradeRecvHello(x)
          \/ UpgradeRecvAck(x) \/ commitKey(x) \/ RecvFails(x)
    \/ \E r \in Crms : ClientRecv(r) \/ ClientAbandon(r)
    \/ Finished

Spec == Init /\ [][Next]_vars

-----------------------------------------------------------------------------
(***************************************************************************)
(* The key registered for a CRM's role is always one the CRM holds: the    *)
(* CRM can always authenticate with an access key, never left with keys    *)
(* the cloudlet no longer accepts.                                         *)
(***************************************************************************)
RegisteredKeyHeld ==
    \A r \in Crms : pub[r] \in held[r]
=============================================================================
