\* The manifests and Apps of MCDeployment (manifests of up to two objects,
\* Apps of up to two AccessPorts on ports 1..2, flavors with 0, 1 or 2
\* GPUs, a UDP range limit of one port), the three QOS profiles, and two
\* clients with -qosSesAddr set.
CONSTANTS
    Objects <- MCObjects
    MaxObjects = 2
    PortNums = {1, 2}
    MaxAppPorts = 2
    GPUCounts = {0, 1, 2}
    MaxK8sUdpPorts = 1
    Clients <- MCClients
    NoClient = NoClient
    NoApp = NoApp
    QosSesAddr = TRUE
SPECIFICATION ServeSpec
INVARIANTS
    ManifestVerdictMatchesReference
PROPERTIES
    RequestsReturn
\* A rejected App is never served, and a crashed DME does nothing more.
CHECK_DEADLOCK FALSE
