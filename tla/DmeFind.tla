------------------------------ MODULE DmeFind ------------------------------
(***************************************************************************)
(* The DME's FindCloudlet QOS block and the QOS priority session handlers  *)
(* (cmd/uaem/dme/dme-main.go).  Each client sends FindCloudlet requests    *)
(* for the App, one at a time; once the App is found, the handler takes    *)
(* the App's lock and decides whether to ask the operator gateway for a    *)
(* priority session, holding the lock across the DNS lookup and the        *)
(* gateway call (deferred Unlock).  The gateway is the environment: a call *)
(* returns an error, a session id, or an empty id.  The process has no     *)
(* panic recovery interceptor, so a panic in a handler ends the process.   *)
(*                                                                         *)
(* The App as the DME cache holds it is dmeApp: its QosSessionProfile and *)
(* the protocol of its first port ("none" when it has no ports).          *)
(***************************************************************************)
EXTENDS Naturals, FiniteSets

CONSTANTS
    Clients,     \* clients, each sending FindCloudlet requests one after another
    NoClient,    \* nobody holds the App lock
    NoApp,       \* the App is not in the DME cache yet
    QosSesAddr   \* TRUE when the -qosSesAddr flag is set

Results == {"unset", "NOT_ATTEMPTED", "SESSION_FAILED", "SESSION_CREATED"}
PortProtos == {"TCP", "UDP", "HTTP", "none"}

VARIABLES
    dmeApp,    \* [qos, proto] of the App, or NoApp
    lock,      \* the holder of app.Lock(), or NoClient
    pc,        \* where each client's FindCloudlet is
    result,    \* reply.QosResult of each client's reply
    session,   \* gateway session of the client's FindCloudlet
    direct,    \* gateway session of the client's QosPrioritySessionCreate
    crashed    \* a handler panicked and the process exited

dmeVars == <<dmeApp, lock, pc, result, session, direct, crashed>>

DmeInit ==
    /\ dmeApp = NoApp
    /\ lock = NoClient
    /\ pc = [c \in Clients |-> "idle"]
    /\ result = [c \in Clients |-> "unset"]
    /\ session = [c \in Clients |-> "none"]
    /\ direct = [c \in Clients |-> "none"]
    /\ crashed = FALSE

\* A handler runs only while the process is up and the App is cached.
Serving == ~crashed /\ dmeApp # NoApp

\* FindCloudlet up to the QOS block: a request without a session cookie or
\* with an invalid location returns an error and leaves QosResult unset;
\* uaemcommon.FindCloudlet failing, not finding a cloudlet, or no
\* -qosSesAddr gives QOS_NOT_ATTEMPTED; a FIND_FOUND reply goes on to
\* app.Lock().
FindCloudlet(c) ==
    /\ Serving
    /\ pc[c] = "idle"
    /\ \/ /\ pc' = [pc EXCEPT ![c] = "done"]
          /\ UNCHANGED result
       \/ /\ pc' = [pc EXCEPT ![c] = "done"]
          /\ result' = [result EXCEPT ![c] = "NOT_ATTEMPTED"]
       \/ /\ QosSesAddr
          /\ pc' = [pc EXCEPT ![c] = "waiting"]
          /\ UNCHANGED result
    /\ UNCHANGED <<dmeApp, lock, session, direct, crashed>>

\* app.Lock(): the handler blocks until the lock is free.
AppLock(c) ==
    /\ Serving
    /\ pc[c] = "waiting"
    /\ lock = NoClient
    /\ lock' = c
    /\ pc' = [pc EXCEPT ![c] = "locked"]
    /\ UNCHANGED <<dmeApp, result, session, direct, crashed>>

\* Return from the QOS block with a result: the deferred app.Unlock().
Return(c, r) ==
    /\ pc' = [pc EXCEPT ![c] = "done"]
    /\ result' = [result EXCEPT ![c] = r]
    /\ lock' = NoClient

\* The decision under the lock.  A DEFAULT profile returns at once.
\* Otherwise app.Ports[0] is read before any check: an App with no ports
\* panics and the process exits with the lock held.  Then, in order:
\* QOS_NO_PRIORITY, no ip_user_equipment tag, no IPv4 address for the
\* FQDN, an unknown protocol; else CreatePrioritySession is called.  The
\* tag and the DNS answer are inputs of the request.
QosDecide(c) ==
    /\ Serving
    /\ pc[c] = "locked"
    /\ \/ /\ dmeApp.qos = "DEFAULT"
          /\ Return(c, "unset")
          /\ UNCHANGED crashed
       \/ /\ dmeApp.qos # "DEFAULT"
          /\ dmeApp.proto = "none"
          /\ crashed' = TRUE
          /\ UNCHANGED <<lock, pc, result>>
       \/ /\ dmeApp.qos # "DEFAULT"
          /\ dmeApp.proto # "none"
          /\ \E ueTag, asAddr \in BOOLEAN :
               IF dmeApp.qos = "QOS_NO_PRIORITY" THEN Return(c, "NOT_ATTEMPTED")
               ELSE IF ~ueTag \/ ~asAddr \/ dmeApp.proto \notin {"TCP", "UDP", "HTTP"}
                    THEN Return(c, "SESSION_FAILED")
               ELSE /\ pc' = [pc EXCEPT ![c] = "calling"]
                    /\ UNCHANGED <<lock, result>>
          /\ UNCHANGED crashed
    /\ UNCHANGED <<dmeApp, session, direct>>

\* Mutant: a gateway error sends the handler back to build and send the
\* request again, still under the App lock.
GatewayReplyRetryOnError(c) ==
    /\ Serving
    /\ pc[c] = "calling"
    /\ \/ /\ pc' = [pc EXCEPT ![c] = "locked"]
          /\ UNCHANGED <<lock, result, session>>
       \/ /\ Return(c, "SESSION_CREATED")
          /\ session' = [session EXCEPT ![c] = "active"]
    /\ UNCHANGED <<dmeApp, direct, crashed>>

\* operatorApiGw.CreatePrioritySession returns, still under the lock: an
\* error or an empty session id is SESSION_FAILED; a session id is
\* SESSION_CREATED and the id is returned in the reply's tags.
GatewayReply(c) ==
    /\ Serving
    /\ pc[c] = "calling"
    /\ \/ /\ Return(c, "SESSION_FAILED")
          /\ UNCHANGED session
       \/ /\ Return(c, "SESSION_CREATED")
          /\ session' = [session EXCEPT ![c] = "active"]
    /\ UNCHANGED <<dmeApp, direct, crashed>>

\* The client, having its reply, sends its next FindCloudlet.
NextRequest(c) ==
    /\ Serving
    /\ pc[c] = "done"
    /\ pc' = [pc EXCEPT ![c] = "idle"]
    /\ result' = [result EXCEPT ![c] = "unset"]
    /\ UNCHANGED <<dmeApp, lock, session, direct, crashed>>

\* QosPrioritySessionCreate passes the request to the gateway when
\* -qosSesAddr is set, without the App lock; an error leaves no session.
QosPrioritySessionCreate(c) ==
    /\ Serving
    /\ QosSesAddr
    /\ direct[c] = "none"
    /\ direct' \in {[direct EXCEPT ![c] = "active"],
                    [direct EXCEPT ![c] = "failed"]}
    /\ UNCHANGED <<dmeApp, lock, pc, result, session, crashed>>

\* QosPrioritySessionDelete of a session id the client was given; a
\* gateway error changes nothing and is not a step.
QosPrioritySessionDelete(c) ==
    /\ Serving
    /\ QosSesAddr
    /\ \/ /\ session[c] = "active"
          /\ session' = [session EXCEPT ![c] = "deleted"]
          /\ UNCHANGED direct
       \/ /\ direct[c] = "active"
          /\ direct' = [direct EXCEPT ![c] = "deleted"]
          /\ UNCHANGED session
    /\ UNCHANGED <<dmeApp, lock, pc, result, crashed>>

DmeNext ==
    \E c \in Clients :
        \/ FindCloudlet(c)
        \/ AppLock(c)
        \/ QosDecide(c)
        \/ GatewayReply(c)
        \/ NextRequest(c)
        \/ QosPrioritySessionCreate(c)
        \/ QosPrioritySessionDelete(c)

\* Go's sync.Mutex hands the lock to the longest waiter once a waiter has
\* waited over 1ms (starvation mode): a handler that is intermittently able
\* to take the lock eventually takes it.  Steps under the lock are fair;
\* that the gateway call returns is the request's gRPC deadline.
DmeFairness ==
    \A c \in Clients :
        /\ SF_dmeVars(AppLock(c))
        /\ WF_dmeVars(QosDecide(c))
        /\ WF_dmeVars(GatewayReply(c))

-----------------------------------------------------------------------------
\* Every FindCloudlet that reaches app.Lock() returns, unless the process
\* has exited: a client whose request waits on the lock is not starved by
\* another client that keeps sending requests and retaking the lock, and
\* every path out of the QOS block releases it (the deferred Unlock).
RequestsReturn ==
    \A c \in Clients : pc[c] = "waiting" ~> (pc[c] = "done" \/ crashed)

====
