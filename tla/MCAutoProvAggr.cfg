CONSTANTS
    a1 = a1
    z1 = z1
    z2 = z2
    p1 = p1
    p2 = p2
    Apps <- MCApps
    Zones <- MCZones
    PolicyNames <- MCPolicyNames
    PolicyCfgs <- MCPolicyCfgs
    MaxStore = 2
    MaxIters = 3
    MaxChanges = 1
    MaxRestarts = 1

SPECIFICATION Spec

INVARIANT TypeOK
INVARIANT TrackingMatchesConfig
