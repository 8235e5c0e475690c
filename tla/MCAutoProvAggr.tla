--------------------------- MODULE MCAutoProvAggr ---------------------------
EXTENDS AutoProvAggr

CONSTANTS a1, z1, z2, p1, p2

MCApps == {a1}
MCZones == {z1, z2}
MCPolicyNames == {p1, p2}

\* A two-interval policy on one zone and a single-interval policy with a
\* higher client threshold on both zones, so that two policies share z1.
MCPolicyCfgs == {[c |-> 1, k |-> 2, zones |-> {z1}],
                 [c |-> 2, k |-> 1, zones |-> {z1, z2}]}
=============================================================================
