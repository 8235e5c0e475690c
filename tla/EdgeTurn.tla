------------------------------ MODULE EdgeTurn ------------------------------
(***************************************************************************)
(* The EdgeTurn proxy (cmd/edgeturn/server.go).                            *)
(*                                                                         *)
(* A CRM opens a connection and sends an ExecReqInfo; handleConnection     *)
(* issues a token, stores a ProxyValue under it in TurnProxy and writes    *)
(* the token back.  For a shell it waits on the unbuffered Connected       *)
(* channel or ShellConnTimeout; for a console it keeps the entry for       *)
(* ConsoleConnTimeout.  Clients present the token: /edgeshell sends on     *)
(* Connected and relays the websocket to the CRM connection with two       *)
(* goroutines that report on the unbuffered closeChan; /edgeconsole and    *)
(* the reverse proxy's RoundTrip look the entry up and may remove it.      *)
(*                                                                         *)
(* The token of a session is the session itself (ksuid tokens are unique). *)
(* Byte streams are not modelled: a relay goroutine ends on some I/O       *)
(* error, which the environment may cause at any time.                     *)
(***************************************************************************)
EXTENDS FiniteSets

CONSTANTS
    Sessions,   \* CRM connections (model values); each is also its token
    Clients,    \* client HTTP requests (model values), one request each
    Nil         \* a model value: Go's nil, and the empty token

ASSUME Nil \notin Sessions

ReqTypes == {"shell", "console"}        \* cloudcommon.ExecReqShell/Console
Kinds == {"edgeshell", "edgeconsole", "proxy"}  \* the handlers of the mux
Relays == {1, 2}                        \* websocket->CRM, CRM->websocket

VARIABLES
    crm,       \* handleConnection of each session: its program counter
    reqType,   \* execReqInfo.Type of each session
    hasURL,    \* execReqInfo.InitURL != nil
    proxyMap,  \* TurnProxy.proxyMap: token -> ProxyValue
    issued,    \* tokens written back to the CRM, so clients can know them
    crmOpen,   \* CRM connections not yet closed by EdgeTurn
    cl,        \* each client request's handler: its program counter
    kind,      \* which handler serves the request
    tk,        \* the token the request presents
    relay      \* the two relay goroutines of an /edgeshell request

vars == <<crm, reqType, hasURL, proxyMap, issued, crmOpen, cl, kind, tk, relay>>

CrmPCs == {"idle", "added", "waiting", "closing", "done"}
ClientPCs == {"idle", "sending", "relay", "closing", "done"}
RelayPCs == {"idle", "run", "sending", "done"}

\* ProxyValue: CrmConn is the session's connection; ProxySess and InitURL
\* are reduced to whether they are non-nil.
ProxyValues == [crmConn : Sessions, proxySess : BOOLEAN, initURL : BOOLEAN]

TypeOK ==
    /\ crm \in [Sessions -> CrmPCs]
    /\ reqType \in [Sessions -> ReqTypes]
    /\ hasURL \in [Sessions -> BOOLEAN]
    /\ DOMAIN proxyMap \subseteq Sessions
    /\ \A t \in DOMAIN proxyMap : proxyMap[t] \in ProxyValues
    /\ issued \subseteq Sessions
    /\ crmOpen \subseteq Sessions
    /\ cl \in [Clients -> ClientPCs]
    /\ kind \in [Clients -> Kinds]
    /\ tk \in [Clients -> Sessions \cup {Nil}]
    /\ relay \in [Clients -> [Relays -> RelayPCs]]

Init ==
    /\ crm = [s \in Sessions |-> "idle"]
    /\ reqType \in [Sessions -> ReqTypes]
    /\ hasURL \in [Sessions -> BOOLEAN]
    /\ proxyMap = [t \in {} |-> Nil]
    /\ issued = {}
    /\ crmOpen = {}
    /\ cl = [c \in Clients |-> "idle"]
    /\ kind = [c \in Clients |-> "edgeshell"]
    /\ tk = [c \in Clients |-> Nil]
    /\ relay = [c \in Clients |-> [i \in Relays |-> "idle"]]

-----------------------------------------------------------------------------
(* TurnProxyObj, each operation atomic under cp.mux.                       *)

Add(t, v) == proxyMap' = [x \in DOMAIN proxyMap \cup {t} |->
                             IF x = t THEN v ELSE proxyMap[x]]

\* Mutant: the entry is overwritten with nil instead of deleted.
RemoveToNil(t) == proxyMap' = [proxyMap EXCEPT ![t] = Nil]

Remove(t) == proxyMap' = [x \in DOMAIN proxyMap \ {t} |-> proxyMap[x]]

Get(t) == IF t \in DOMAIN proxyMap THEN proxyMap[t] ELSE Nil

\* The ProxyValue handleConnection builds for session s; a console entry
\* gets its smux session before it is added.
NewProxyValue(s) ==
    [crmConn |-> s, proxySess |-> reqType[s] = "console", initURL |-> hasURL[s]]

-----------------------------------------------------------------------------
(* handleConnection, one goroutine per accepted CRM connection.            *)

\* Accept, decode the ExecReqInfo, marshal the SessionInfo, for a console
\* set up the smux client, and Add the ProxyValue.  Decode, json.Marshal
\* and smux.Client may fail, and the handler then returns without closing
\* crmConn; the Decode and Marshal returns leave the same state.
CrmAccept(s) ==
    /\ crm[s] = "idle"
    /\ crmOpen' = crmOpen \cup {s}
    /\ \/ /\ crm' = [crm EXCEPT ![s] = "done"]           \* Decode or Marshal error
          /\ UNCHANGED proxyMap
       \/ /\ reqType[s] = "console"                      \* smux.Client error
          /\ crm' = [crm EXCEPT ![s] = "done"]
          /\ UNCHANGED proxyMap
       \/ /\ crm' = [crm EXCEPT ![s] = "added"]
          /\ Add(s, NewProxyValue(s))
    /\ UNCHANGED <<reqType, hasURL, issued, cl, kind, tk, relay>>

\* crmConn.Write(out): the token reaches the CRM, and through it clients.
CrmWrite(s) ==
    /\ crm[s] = "added"
    /\ crm' = [crm EXCEPT ![s] = "waiting"]
    /\ issued' = issued \cup {s}
    /\ UNCHANGED <<reqType, hasURL, proxyMap, crmOpen, cl, kind, tk, relay>>

\* The time.After case of either select: close the CRM connection.
CrmTimeout(s) ==
    /\ crm[s] = "waiting"
    /\ crm' = [crm EXCEPT ![s] = "closing"]
    /\ crmOpen' = crmOpen \ {s}
    /\ UNCHANGED <<reqType, hasURL, proxyMap, issued, cl, kind, tk, relay>>

\* Mutant: the timeout branch returns without TurnProxy.Remove(token).
CrmRemoveForgotten(s) ==
    /\ crm[s] = "closing"
    /\ crm' = [crm EXCEPT ![s] = "done"]
    /\ UNCHANGED <<reqType, hasURL, proxyMap, issued, crmOpen, cl, kind, tk, relay>>

\* ... then TurnProxy.Remove(token) and return.
CrmRemove(s) ==
    /\ crm[s] = "closing"
    /\ crm' = [crm EXCEPT ![s] = "done"]
    /\ Remove(s)
    /\ UNCHANGED <<reqType, hasURL, issued, crmOpen, cl, kind, tk, relay>>

-----------------------------------------------------------------------------
(* The client-facing handlers.  A request presents a token a CRM was given *)
(* (possibly one that has expired since).                                  *)

\* /edgeshell up to the send on Connected: Upgrade may fail; a missing
\* entry ends the request.  (CrmConn is never nil in a stored entry.)
EdgeShell(c, t) ==
    /\ \/ cl' = [cl EXCEPT ![c] = "done"]                \* Upgrade error
       \/ cl' = [cl EXCEPT ![c] = IF Get(t) # Nil THEN "sending" ELSE "done"]
    /\ UNCHANGED proxyMap

\* /edgeconsole: a missing entry, or one without InitURL, is removed;
\* otherwise the client is redirected.
EdgeConsole(c, t) ==
    /\ cl' = [cl EXCEPT ![c] = "done"]
    /\ IF Get(t) = Nil \/ ~Get(t).initURL THEN Remove(t) ELSE UNCHANGED proxyMap

\* HttpTransport.RoundTrip of the reverse proxy on "/": an entry without
\* ProxySess is removed; otherwise a stream is opened (its errors change
\* no state).
RoundTrip(c, t) ==
    /\ cl' = [cl EXCEPT ![c] = "done"]
    /\ IF Get(t) # Nil /\ ~Get(t).proxySess THEN Remove(t) ELSE UNCHANGED proxyMap

ClientRequest(c, k, t) ==
    /\ cl[c] = "idle"
    /\ kind' = [kind EXCEPT ![c] = k]
    /\ tk' = [tk EXCEPT ![c] = t]
    /\ CASE k = "edgeshell"   -> EdgeShell(c, t)
         [] k = "edgeconsole" -> EdgeConsole(c, t)
         [] k = "proxy"       -> RoundTrip(c, t)
    /\ UNCHANGED <<crm, reqType, hasURL, issued, crmOpen, relay>>

\* Mutant: handleConnection keeps selecting on Connected after a client
\* connected (a for-select loop), so a second client is accepted too.
ShellConnectedKeepWaiting(c) ==
    /\ cl[c] = "sending"
    /\ crm[tk[c]] = "waiting"
    /\ reqType[tk[c]] = "shell"
    /\ cl' = [cl EXCEPT ![c] = "relay"]
    /\ relay' = [relay EXCEPT ![c] = [i \in Relays |-> "run"]]
    /\ UNCHANGED <<crm, reqType, hasURL, proxyMap, issued, crmOpen, kind, tk>>

\* proxyVal.Connected <- true meets handleConnection's receive: the
\* unbuffered channel is a rendezvous.  The handler returns and leaves the
\* CRM connection to this request, which starts its two relay goroutines.
ShellConnected(c) ==
    /\ cl[c] = "sending"
    /\ crm[tk[c]] = "waiting"
    /\ reqType[tk[c]] = "shell"
    /\ crm' = [crm EXCEPT ![tk[c]] = "done"]
    /\ cl' = [cl EXCEPT ![c] = "relay"]
    /\ relay' = [relay EXCEPT ![c] = [i \in Relays |-> "run"]]
    /\ UNCHANGED <<reqType, hasURL, proxyMap, issued, crmOpen, kind, tk>>

\* A relay goroutine meets a read or write error (peer closed, or EdgeTurn
\* closed one side) and blocks on closeChan <- true.
RelayError(c, i) ==
    /\ relay[c][i] = "run"
    /\ relay' = [relay EXCEPT ![c][i] = "sending"]
    /\ UNCHANGED <<crm, reqType, hasURL, proxyMap, issued, crmOpen, cl, kind, tk>>

\* <-closeChan takes ONE report, then crmConn.Close().
RelayClosed(c, i) ==
    /\ cl[c] = "relay"
    /\ relay[c][i] = "sending"
    /\ relay' = [relay EXCEPT ![c][i] = "done"]
    /\ cl' = [cl EXCEPT ![c] = "closing"]
    /\ crmOpen' = crmOpen \ {tk[c]}
    /\ UNCHANGED <<crm, reqType, hasURL, proxyMap, issued, kind, tk>>

\* ... then TurnProxy.Remove(token), and the deferred c.Close().
RelayRemove(c) ==
    /\ cl[c] = "closing"
    /\ cl' = [cl EXCEPT ![c] = "done"]
    /\ Remove(tk[c])
    /\ UNCHANGED <<crm, reqType, hasURL, issued, crmOpen, kind, tk, relay>>

Next ==
    \/ \E s \in Sessions : CrmAccept(s) \/ CrmWrite(s) \/ CrmTimeout(s) \/ CrmRemove(s)
    \/ \E c \in Clients, k \in Kinds, t \in issued : ClientRequest(c, k, t)
    \/ \E c \in Clients : ShellConnected(c) \/ RelayRemove(c)
    \/ \E c \in Clients, i \in Relays : RelayError(c, i) \/ RelayClosed(c, i)

Spec == Init /\ [][Next]_vars

-----------------------------------------------------------------------------
(* Properties                                                              *)

\* A request serving a shell token, or relaying for it.
Relaying(c, t) == tk[c] = t /\ cl[c] \in {"relay", "closing"}

\* No stale entry: every token in TurnProxy has a goroutine that will
\* remove it, either its handleConnection before or inside the timeout
\* branch, or the /edgeshell request relaying for it.  A leaked entry keeps
\* a dead CRM connection reachable by clients for ever.
EntriesHaveOwner ==
    \A t \in DOMAIN proxyMap :
        \/ crm[t] \in {"added", "waiting", "closing"}
        \/ \E c \in Clients : Relaying(c, t)

\* Every goroutine blocked on a send over an unbuffered channel still has
\* its receiver.  An /edgeshell request blocked on proxyVal.Connected <- true
\* needs the token's handleConnection to be a shell handler that has not
\* left its select; a relay goroutine blocked on closeChan <- true needs its
\* request to be still waiting in <-closeChan.  Otherwise the goroutine
\* blocks for ever.
SendsHaveReceiver ==
    /\ \A c \in Clients :
          cl[c] = "sending" =>
              /\ reqType[tk[c]] = "shell"
              /\ crm[tk[c]] \in {"added", "waiting"}
    /\ \A c \in Clients, i \in Relays :
          relay[c][i] = "sending" => cl[c] = "relay"

-----------------------------------------------------------------------------
(* Refinement of the session promise (EdgeTurnSessions).                   *)

\* A session's connection was handed to a client by the Connected handshake.
Handed(s) == \E c \in Clients : tk[c] = s /\ relay[c][1] # "idle"

\* A token is new until its handler writes it back, offered while the
\* handler waits, and afterwards handed, expired (written back, timed out)
\* or refused (the handler failed before writing it).
SessionPhase(s) ==
    CASE crm[s] \in {"idle", "added"} -> "new"
      [] crm[s] = "waiting"           -> "offered"
      [] Handed(s)                    -> "handed"
      [] s \in issued                 -> "expired"
      [] OTHER                        -> "refused"

Sessions_ == INSTANCE EdgeTurnSessions WITH
    shell      <- {s \in Sessions : reqType[s] = "shell"},
    phase      <- [s \in Sessions |-> SessionPhase(s)],
    registered <- DOMAIN proxyMap,
    owners     <- [s \in Sessions |-> {c \in Clients : Relaying(c, s)}]

\* The handlers together implement the session promise: a token is
\* registered before it is written back; handleConnection hands a shell
\* connection to one /edgeshell request, once, only while it waits in its
\* select, and never after its timeout; a request relays for one token;
\* only a relaying request's exit, or a removal by a handler, deregisters
\* a token; and a token once removed is never registered again.
RefinesSessions == Sessions_!Spec

====
