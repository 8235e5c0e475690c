\* Two VM names, two concurrent API callers making two calls each, and a
\* cloudlet that may start and stop using the pool.
CONSTANTS
    v1 = v1
    v2 = v2
    u1 = u1
    u2 = u2
    Names <- MCNames
    Callers <- MCCallers
    CrmOnEdge = TRUE
    MaxCalls = 2
    MaxCloudletOps = 2
    Overrides = {"none"}
SPECIFICATION Spec
INVARIANT OneUpdateInFlight
