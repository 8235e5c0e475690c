\* Every kind of worker target, two collection intervals.
CONSTANTS
    d1 = d1
    k1 = k1
    p1 = p1
    a1 = a1
    v1 = v1
    i1 = i1
    i2 = i2
    DockerClusters = {d1}
    KubeClusters = {k1}
    PromInsts = {p1}
    KubeInsts = {a1}
    VMInsts = {v1}
    ClusterOf <- MCClusterOf
    Intervals = {i1, i2}
    MaxSettings = 1
SPECIFICATION Spec
INVARIANTS
    TypeOK
    WorkersAccounted
    NoStaleWorker
