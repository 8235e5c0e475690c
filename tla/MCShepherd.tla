----------------------------- MODULE MCShepherd -----------------------------
EXTENDS Shepherd

CONSTANTS d1, k1, p1, a1, v1, i1, i2

\* One Docker cluster, one Kubernetes cluster with its Prometheus AppInst
\* and one Kubernetes AppInst, and one VM AppInst.
MCClusterOf == [x \in {p1, a1} |-> k1]
=============================================================================
