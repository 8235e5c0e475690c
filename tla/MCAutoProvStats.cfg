CONSTANTS
    a1 = a1
    a2 = a2
    z1 = z1
    Apps <- MCApps
    Zones <- MCZones
    NumShards = 2
    ShardIndex <- MCShardIndex
    Policies <- MCPolicies
    Intervals = {1, 2}
    MaxCount = 2
    MaxClears = 1
    MaxUpdates = 1

SPECIFICATION Spec

INVARIANT TypeOK
INVARIANT LastCountExported
PROPERTY ExportsIncrease
PROPERTY ExportsEventually
