--------------------------- MODULE MCAutoProvStats ---------------------------
EXTENDS AutoProvStats

CONSTANTS a1, a2, z1

MCApps == {a1, a2}
MCZones == {z1}

\* The two keys hash to different shards.
MCShardIndex == [k \in MCApps \X MCZones |-> IF k[1] = a1 THEN 1 ELSE 2]

\* A single-interval policy that takes the fast path at 2 new requests,
\* and a three-interval policy that never does.
MCPolicies == {[DeployClientCount |-> 2, IntervalCount |-> 1],
               [DeployClientCount |-> 1, IntervalCount |-> 3]}
=============================================================================
