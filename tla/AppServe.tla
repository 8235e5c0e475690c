------------------------------ MODULE AppServe ------------------------------
(***************************************************************************)
(* An App from creation to FindCloudlet: the controller validates its     *)
(* manifest against its AccessPorts (Deployment), an accepted App reaches *)
(* the DME's cache, and clients' FindCloudlet requests for it run the QOS *)
(* block (DmeFind).                                                       *)
(*                                                                         *)
(* Once published, the DME reads only the App's QOS profile and the       *)
(* protocol of its first port; the validation inputs are then replaced by *)
(* one fixed value, so that the serving phase is not multiplied by every  *)
(* manifest that leads to the same App.                                   *)
(***************************************************************************)
EXTENDS Deployment, DmeFind, Sequences

\* QosSessionProfile values the controller passes to the DME.
QosProfiles == {"DEFAULT", "QOS_NO_PRIORITY", "QOS_LOW_LATENCY"}

\* The validation inputs after publication.
Settled == [deployment |-> "docker", command |-> "",
            manifest |-> [text |-> "other-text", objs |-> {}],
            ports |-> <<>>, gpus |-> Min(GPUCounts)]

allVars == <<app, verdict, resVerdict, dmeApp, lock, pc, result, session,
             direct, crashed>>

ServeInit == Init /\ DmeInit

\* A manifest check runs while the App is not yet published.
Validate ==
    /\ dmeApp = NoApp
    /\ Next
    /\ UNCHANGED dmeVars

\* The controller accepted the App and the DME's cache receives it: the
\* profile is the App's QosSessionProfile, the ports its AccessPorts in
\* order.
Publish ==
    /\ dmeApp = NoApp
    /\ verdict = "ok"
    /\ \E qos \in QosProfiles :
         dmeApp' = [qos |-> qos,
                    proto |-> IF app.ports = <<>> THEN "none"
                              ELSE app.ports[1].proto]
    /\ app' = Settled
    /\ verdict' = "unchecked"
    /\ resVerdict' = "unchecked"
    /\ UNCHANGED <<lock, pc, result, session, direct, crashed>>

Serve ==
    /\ DmeNext
    /\ UNCHANGED <<app, verdict, resVerdict>>

ServeNext == Validate \/ Publish \/ Serve

ServeSpec == ServeInit /\ [][ServeNext]_allVars /\ DmeFairness

====
