-------------------------- MODULE EdgeTurnSessions --------------------------
(***************************************************************************)
(* What the EdgeTurn proxy promises of a session token.  A CRM session is *)
(* registered under its token, and may be refused instead.  A registered   *)
(* token is offered to the CRM.  An offered shell token is handed to one   *)
(* client, at most once and only before it expires.  A token may be        *)
(* deregistered at any time after it is offered.  The client holding a     *)
(* shell releases it, which also deregisters the token.                    *)
(***************************************************************************)
CONSTANTS Sessions, Clients

VARIABLES
    shell,       \* the tokens of shell sessions
    phase,       \* each token's place in its life
    registered,  \* the tokens that can be looked up
    owners       \* the clients a token's connection is handed to

vars == <<shell, phase, registered, owners>>

Phases == {"new", "offered", "handed", "expired", "refused"}

Init ==
    /\ shell \in SUBSET Sessions
    /\ phase = [s \in Sessions |-> "new"]
    /\ registered = {}
    /\ owners = [s \in Sessions |-> {}]

Register(s) ==
    /\ phase[s] = "new" /\ s \notin registered
    /\ registered' = registered \cup {s}
    /\ UNCHANGED <<shell, phase, owners>>

Refuse(s) ==
    /\ phase[s] = "new" /\ s \notin registered
    /\ phase' = [phase EXCEPT ![s] = "refused"]
    /\ UNCHANGED <<shell, registered, owners>>

Offer(s) ==
    /\ phase[s] = "new" /\ s \in registered
    /\ phase' = [phase EXCEPT ![s] = "offered"]
    /\ UNCHANGED <<shell, registered, owners>>

Expire(s) ==
    /\ phase[s] = "offered"
    /\ phase' = [phase EXCEPT ![s] = "expired"]
    /\ UNCHANGED <<shell, registered, owners>>

\* A client holds at most one connection.
Held == UNION {owners[s] : s \in Sessions}

Take(s, c) ==
    /\ s \in shell /\ phase[s] = "offered"
    /\ c \notin Held
    /\ phase' = [phase EXCEPT ![s] = "handed"]
    /\ owners' = [owners EXCEPT ![s] = {c}]
    /\ UNCHANGED <<shell, registered>>

Deregister(s) ==
    /\ s \in registered /\ phase[s] \in {"offered", "handed", "expired"}
    /\ registered' = registered \ {s}
    /\ UNCHANGED <<shell, phase, owners>>

Release(s, c) ==
    /\ c \in owners[s]
    /\ owners' = [owners EXCEPT ![s] = @ \ {c}]
    /\ registered' = registered \ {s}
    /\ UNCHANGED <<shell, phase>>

Next ==
    \E s \in Sessions :
        \/ Register(s) \/ Refuse(s) \/ Offer(s) \/ Expire(s) \/ Deregister(s)
        \/ \E c \in Clients : Take(s, c) \/ Release(s, c)

Spec == Init /\ [][Next]_vars

====
