----------------------------- MODULE Deployment -----------------------------
(***************************************************************************)
(* App manifest validation (pkg/cloudcommon/deployment.go):               *)
(* IsValidDeploymentManifest, IsValidDeploymentManifestForResources and    *)
(* isValidKubernetesManifestForResources, as operators over a bounded set *)
(* of inputs, each compared with a reference definition of what the check *)
(* promises.                                                               *)
(*                                                                         *)
(* A decoded Kubernetes manifest is a set of objects: a Service with its   *)
(* type and ports (protocol, port), or a workload (Deployment, DaemonSet,  *)
(* StatefulSet) with the GPU limits of its containers, or another object.  *)
(* A manifest that is not Kubernetes YAML fails DecodeK8SYaml.  The keys   *)
(* of lbPorts and clusterPorts, AppPort.String() and InstPort.String(),    *)
(* are the (protocol, port) pairs they print.  An error is the kind of the *)
(* error, not its text.                                                    *)
(***************************************************************************)
EXTENDS Integers, Sequences, FiniteSets, FiniteSetsExt

CONSTANTS
    Objects,         \* the Kubernetes objects manifests are made of
    MaxObjects,      \* bound: objects in one manifest
    PortNums,        \* port numbers of AccessPorts and services
    MaxAppPorts,     \* bound: AccessPorts of one App
    GPUCounts,       \* GPU counts of the flavor's KubernetesResources
    MaxK8sUdpPorts   \* util.MaxK8sUdpPorts

DeploymentTypes == {"kubernetes", "vm", "helm", "docker"}
Commands == {"", "cmd"}

\* A manifest text starts with "#cloud-config", or is other text that is
\* not Kubernetes YAML, or is Kubernetes YAML decoding to a set of objects.
Manifests == {[text |-> t, objs |-> {}] : t \in {"cloud-config", "other-text"}} \cup
             {[text |-> "yaml", objs |-> S] :
                 S \in {S \in SUBSET Objects : Cardinality(S) <= MaxObjects}}

\* dme.AppPort of App.AccessPorts: EndPort 0 is a single port.
AppPorts == [proto : {"TCP", "UDP", "HTTP"}, internal : PortNums,
             end : {0} \cup PortNums]
PortLists == UNION {[1..n -> AppPorts] : n \in 0..MaxAppPorts}

Inputs == [deployment : DeploymentTypes, command : Commands,
           manifest : Manifests, ports : PortLists, gpus : GPUCounts]

Workloads == {"Deployment", "DaemonSet", "StatefulSet"}
GPUResources == {"nvidia", "amd"}

-----------------------------------------------------------------------------
(* DecodeK8SYaml and edgeproto.GetLProto.                                  *)

Decodes(m) == m.text = "yaml"

\* The protocols edgeproto.GetLProto accepts from a Kubernetes port.
LProtos == {"TCP", "UDP"}

-----------------------------------------------------------------------------
(* IsValidDeploymentManifest, Kubernetes branch.                           *)

\* An empty protocol defaults to TCP, as Kubernetes does.
ServicePortProto(kp) == IF kp.proto = "" THEN "TCP" ELSE kp.proto

\* The loop over objs filling lbPorts (LoadBalancer) or clusterPorts
\* (ClusterIP); other objects and service types are skipped, and so is a
\* port whose protocol GetLProto refuses.
PortMap(objs, svcType) ==
    {<<ServicePortProto(kp), kp.port>> :
        kp \in UNION {o.ports : o \in {x \in objs : x.kind = "Service" /\ x.type = svcType}}}
    \cap (LProtos \X PortNums)

\* HTTP ports are TCP ports in Kubernetes services.
K8sProto(ap) == IF ap.proto = "HTTP" THEN "TCP" ELSE ap.proto

\* A port is found in lbPorts, or, for an HTTP AccessPort, in clusterPorts.
Found(lb, cluster, ap, n) ==
    \/ <<K8sProto(ap), n>> \in lb
    \/ ap.proto = "HTTP" /\ <<K8sProto(ap), n>> \in cluster

\* Mutant: the expanded range stops one port short of EndPort.
RangeMissingShort(lb, cluster, ap) ==
    {n \in ap.internal..(ap.end - 1) : ~Found(lb, cluster, ap, n)}

\* The ports of a range AccessPort that are found in neither map.
RangeMissing(lb, cluster, ap) ==
    {n \in ap.internal..ap.end : ~Found(lb, cluster, ap, n)}

\* for _, appPort := range ports: a UDP range of more than MaxK8sUdpPorts
\* ports returns at once; every other port missing from the maps is
\* appended to missingPorts.
RECURSIVE PortLoop(_, _, _, _, _)
PortLoop(lb, cluster, ports, i, missing) ==
    IF i > Len(ports) THEN [tooMany |-> FALSE, missing |-> missing]
    ELSE LET ap == ports[i] IN
         IF ap.end # 0
         THEN IF ap.proto = "UDP" /\ ap.end - ap.internal + 1 > MaxK8sUdpPorts
              THEN [tooMany |-> TRUE, missing |-> missing]
              ELSE PortLoop(lb, cluster, ports, i + 1,
                            missing \cup {<<ap, n>> : n \in RangeMissing(lb, cluster, ap)})
         ELSE PortLoop(lb, cluster, ports, i + 1,
                       IF Found(lb, cluster, ap, ap.internal) THEN missing
                       ELSE missing \cup {<<ap, ap.internal>>})

-----------------------------------------------------------------------------
(* isValidKubernetesManifestForResources                                   *)

\* A container's limit of a GPU resource is absent ("none"), an integer
\* quantity ("int", n) or a fractional one ("frac").
\* The integer GPU limits of one container: qty.AsInt64 fails on a
\* fractional quantity, which is then not counted.
ContainerGPUs(ct) ==
    MapThenSumSet(LAMBDA r : ct[r].n, {r \in GPUResources : ct[r].q = "int"})

\* requestedGPUCount: the containers of every workload's pod template.
RequestedGPUs(objs) ==
    MapThenSumSet(LAMBDA o : MapThenSumSet(LAMBDA j : ContainerGPUs(o.containers[j]),
                                           DOMAIN o.containers),
                  {o \in objs : o.kind \in Workloads})

\* Only GPU resources are validated, and only for a flavor with GPUs.
ResourcesVerdict(objs, gpus) ==
    IF gpus = 0 THEN "ok"
    ELSE IF RequestedGPUs(objs) > gpus THEN "err_gpu" ELSE "ok"

\* IsValidDeploymentManifestForResources: Kubernetes manifests only.
IsValidDeploymentManifestForResources(in) ==
    IF in.deployment # "kubernetes" THEN "ok"
    ELSE IF ~Decodes(in.manifest) THEN "err_decode"
    ELSE ResourcesVerdict(in.manifest.objs, in.gpus)

\* IsValidDeploymentManifest: the VM branch, the Kubernetes branch, and
\* no check for helm and docker.
IsValidDeploymentManifest(in) ==
    CASE in.deployment = "vm" ->
            IF in.command # "" THEN "err_command"
            ELSE IF in.manifest.text = "cloud-config" THEN "ok" ELSE "err_cloudinit"
      [] in.deployment = "kubernetes" ->
            IF ~Decodes(in.manifest) THEN "err_decode"
            ELSE LET objs == in.manifest.objs
                     r == PortLoop(PortMap(objs, "LoadBalancer"),
                                   PortMap(objs, "ClusterIP"), in.ports, 1, {})
                 IN IF r.tooMany THEN "err_udp_count"
                    ELSE IF r.missing # {} THEN "err_missing_ports"
                    ELSE ResourcesVerdict(objs, in.gpus)
      [] OTHER -> "ok"

-----------------------------------------------------------------------------
(* Reference definitions: what the checks promise, by their error texts.  *)

\* The ports an AccessPort stands for: InternalPort, or InternalPort to
\* EndPort.
PortsOf(ap) == IF ap.end = 0 THEN {ap.internal} ELSE ap.internal..ap.end

\* "defined in AccessPorts but missing from kubernetes manifest in a
\* LoadBalancer service (TCP/UDP/HTTP) or ClusterIP service (HTTP only)".
Served(objs, ap, n) ==
    \E o \in {x \in objs : x.kind = "Service"} : \E kp \in o.ports :
        /\ kp.port = n
        /\ (IF kp.proto = "" THEN "TCP" ELSE kp.proto)
              = (IF ap.proto = "HTTP" THEN "TCP" ELSE ap.proto)
        /\ \/ o.type = "LoadBalancer"
           \/ o.type = "ClusterIP" /\ ap.proto = "HTTP"

\* "not allowed to specify more than MaxK8sUdpPorts udp ports" (per range).
TooManyUdp(ap) == ap.proto = "UDP" /\ ap.end # 0 /\ Cardinality(PortsOf(ap)) > MaxK8sUdpPorts

\* "GPU resource limit exceeds flavor specified count", checked for a
\* flavor with GPUs.
GPUsFit(objs, gpus) ==
    gpus = 0 \/
    LET limits == {l \in UNION {{<<o, j, r>> : j \in DOMAIN o.containers, r \in GPUResources} :
                                   o \in {x \in objs : x.kind \in Workloads}} :
                      l[1].containers[l[2]][l[3]].q = "int"}
    IN MapThenSumSet(LAMBDA l : l[1].containers[l[2]][l[3]].n, limits) <= gpus

ReferenceVerdict(in) ==
    CASE in.deployment = "vm" ->
            IF in.command # "" THEN "err_command"
            ELSE IF in.manifest.text = "cloud-config" THEN "ok" ELSE "err_cloudinit"
      [] in.deployment = "kubernetes" /\ ~Decodes(in.manifest) -> "err_decode"
      [] in.deployment = "kubernetes" ->
            IF \E i \in DOMAIN in.ports : TooManyUdp(in.ports[i]) THEN "err_udp_count"
            ELSE IF \E i \in DOMAIN in.ports, n \in PortNums :
                        n \in PortsOf(in.ports[i]) /\ ~Served(in.manifest.objs, in.ports[i], n)
                 THEN "err_missing_ports"
            ELSE IF GPUsFit(in.manifest.objs, in.gpus) THEN "ok" ELSE "err_gpu"
      [] OTHER -> "ok"

-----------------------------------------------------------------------------
(* A caller validating one App: the manifest check on create, the         *)
(* resources check against a flavor, in either order.                      *)

VARIABLES app, verdict, resVerdict
vars == <<app, verdict, resVerdict>>

Init ==
    /\ app \in Inputs
    /\ verdict = "unchecked"
    /\ resVerdict = "unchecked"

CheckManifest ==
    /\ verdict = "unchecked"
    /\ verdict' = IsValidDeploymentManifest(app)
    /\ UNCHANGED <<app, resVerdict>>

CheckResources ==
    /\ resVerdict = "unchecked"
    /\ resVerdict' = IsValidDeploymentManifestForResources(app)
    /\ UNCHANGED <<app, verdict>>

Next == CheckManifest \/ CheckResources

Spec == Init /\ [][Next]_vars

-----------------------------------------------------------------------------
\* IsValidDeploymentManifest accepts exactly the manifests its error texts
\* describe: a VM cloud-init script without a command, or a Kubernetes
\* manifest in which every port of every AccessPort range, HTTP as TCP, is
\* in a LoadBalancer service, or in a ClusterIP service for HTTP, no UDP
\* range exceeds MaxK8sUdpPorts, and the GPU limits fit the flavor; and it
\* reports the error the first failing condition names (service-port
\* protocol defaulting, range expansion, the UDP early return).
ManifestVerdictMatchesReference ==
    verdict # "unchecked" => verdict = ReferenceVerdict(app)

====
