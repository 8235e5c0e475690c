\* Two CRM sessions, three client requests.  The bounded workload ends with
\* every request served; the real server then waits in Accept.
CONSTANTS
    s1 = s1
    s2 = s2
    c1 = c1
    c2 = c2
    c3 = c3
    Nil = Nil
    Sessions <- MCSessions
    Clients <- MCClients
SPECIFICATION Spec
INVARIANT TypeOK
INVARIANT EntriesHaveOwner
PROPERTY RefinesSessions
CHECK_DEADLOCK FALSE
