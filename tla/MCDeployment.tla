---------------------------- MODULE MCDeployment ----------------------------
EXTENDS Deployment

\* The objects manifests are built from: a LoadBalancer service with a port
\* of no protocol and a UDP port, a ClusterIP service and a NodePort service
\* on TCP, a Deployment with two containers (an integer nvidia limit, then a
\* fractional nvidia and an integer amd limit) and a DaemonSet with one GPU.
NoPorts == {}
NoContainers == <<>>
None == [q |-> "none"]
Frac == [q |-> "frac"]
Int1 == [q |-> "int", n |-> 1]
MCObjects ==
    { [kind |-> "Service", type |-> "LoadBalancer", containers |-> NoContainers,
       ports |-> {[proto |-> "", port |-> 1], [proto |-> "UDP", port |-> 2]}],
      [kind |-> "Service", type |-> "ClusterIP", containers |-> NoContainers,
       ports |-> {[proto |-> "TCP", port |-> 2]}],
      [kind |-> "Service", type |-> "NodePort", containers |-> NoContainers,
       ports |-> {[proto |-> "TCP", port |-> 1]}],
      [kind |-> "Deployment", type |-> "", ports |-> NoPorts,
       containers |-> << [nvidia |-> Int1, amd |-> None],
                         [nvidia |-> Frac, amd |-> Int1] >>],
      [kind |-> "DaemonSet", type |-> "", ports |-> NoPorts,
       containers |-> << [nvidia |-> Int1, amd |-> None] >>] }
=============================================================================
