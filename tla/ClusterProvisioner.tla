------------------------ MODULE ClusterProvisioner ------------------------
(***************************************************************************)
(* pkg/provisioner/cluster.go and the scripts it runs on the nodes: base   *)
(* dependencies and Kubernetes binaries on all nodes at once, kubeadm init *)
(* on the first control-plane node, joins one by one, labels.              *)
(*                                                                         *)
(* "holodeck update --reprovision" runs all of it again, on nodes that     *)
(* keep what earlier runs did.  The scripts decide what to skip by files   *)
(* and answers that an interrupted script leaves behind too.               *)
(*                                                                         *)
(* Left out: the CNI plugins and crictl, downloaded in the same way, since *)
(* Calico brings the plugins it uses and no script asks crictl; and what a *)
(* repetition of the base scripts cannot repair, which Provisioner shows:  *)
(* here a base script that fails again and again is trouble.               *)
(***************************************************************************)
EXTENDS Naturals

CONSTANTS
  First,      \* the first control-plane node
  OtherCP,    \* the other control-plane nodes
  Worker,     \* the worker nodes
  HA,         \* highAvailability.enabled
  Docker      \* the runtime is Docker, which brings a containerd along

ASSUME NodesAssumption ==
  /\ First \notin OtherCP \cup Worker /\ OtherCP \cap Worker = {}
  /\ OtherCP \cup Worker # {}
ASSUME HAAssumption == HA \in BOOLEAN
ASSUME DockerAssumption == Docker \in BOOLEAN

Joiner == OtherCP \cup Worker
Node   == {First} \cup Joiner

VARIABLES
  base,       \* nodes on which the base dependencies are installed
  tools,      \* node -> how far the download of kubeadm, kubelet and kubectl has
              \* come: "none", "kubeadm" (that file is there), "kubelet" (and that
              \* one), "files" (all three, not yet executable), "all"
  unit,       \* node -> kubelet.service: "none", "empty" (the file is there), "all"
  control,    \* how far kubeadm init has come: "none", "files" (admin.conf),
              \* "pods" (the API server starts), "full"
  apiUp,      \* the API server of the first node answers
  calico,     \* "none", "operator", "all"
  conf,       \* nodes with a kubelet.conf
  cplane,     \* joined nodes that run the control plane
  registered, \* nodes the API server lists
  labelled,   \* nodes with their labels
  phase,      \* the function the provisioner is in
  task,       \* node -> its goroutine in phases "base" and "prereq"
  step,       \* where the script of the other phases is
  togo,       \* nodes that this run has still to join
  target,     \* the node it joins
  token,      \* cp.JoinToken: "none", "valid", "bad"
  key,        \* whether cp.CertificateKey is set
  result,     \* what the last run returned
  trouble,    \* history: something failed without reason in this run
  cut         \* history: nodes on which their installation was cut off in any run

files   == <<tools, unit>>
nodes   == <<base, files, conf, cplane, registered, labelled>>
cluster == <<control, apiUp, calico>>
creds   == <<token, key>>
joining == <<togo, target>>
vars    == <<nodes, cluster, phase, task, step, joining, creds, result, trouble, cut>>

\* What kubeadm and the kubelet need on their node.
Complete(n) == tools[n] = "all" /\ unit[n] = "all"

Init ==
  /\ base = {} /\ tools = [n \in Node |-> "none"] /\ unit = [n \in Node |-> "none"]
  /\ conf = {} /\ cplane = {}
  /\ registered = {} /\ labelled = {}
  /\ control = "none" /\ apiUp = FALSE /\ calico = "none"
  /\ phase = "idle" /\ task = [n \in Node |-> "none"] /\ step = "none"
  /\ togo = {} /\ target = First /\ token = "none" /\ key = FALSE
  /\ result = "none" /\ trouble = FALSE /\ cut = {}

-----------------------------------------------------------------------------
(* ProvisionCluster                                                        *)

\* "holodeck create" or "holodeck update --reprovision".
StartRun ==
  /\ phase = "idle"
  /\ phase' = "base" /\ task' = [n \in Node |-> "running"] /\ step' = "none"
  /\ togo' = Joiner /\ target' = First /\ token' = "none" /\ key' = FALSE
  /\ result' = "none" /\ trouble' = FALSE
  /\ UNCHANGED <<nodes, cluster, cut>>

\* The run ends, and with it the scripts whose sessions it held.
End(r) ==
  /\ phase' = "idle" /\ result' = r
  /\ task' = [n \in Node |-> "none"] /\ step' = "none"
  /\ UNCHANGED <<joining, creds>>

\* The next phase begins at a step of its script.
Go(p, s) ==
  /\ phase' = p /\ step' = s
  /\ task' = [n \in Node |-> IF p = "prereq" THEN "running" ELSE "none"]

\* The nodes whose script installs binaries or the service now.
Installing ==
  {n \in Node : \/ task[n] \in {"tools", "service", "unit"}
                \/ n = First /\ phase = "init" /\ step \in {"download", "service", "unit"}}

\* The process is killed.  A script dies at the next line it writes.
Kill ==
  /\ phase # "idle" /\ End("failure") /\ trouble' = TRUE
  /\ cut' = cut \cup Installing
  /\ UNCHANGED <<nodes, cluster>>

-----------------------------------------------------------------------------
(* provisionBaseOnAllNodes, installK8sPrereqs                              *)

TaskIs(n, s) == task' = [task EXCEPT ![n] = s]

InTasks == UNCHANGED <<cluster, phase, step, joining, creds, result>>

BaseSucceeds(n) ==
  /\ phase = "base" /\ task[n] = "running"
  /\ base' = base \cup {n} /\ TaskIs(n, "ok")
  /\ InTasks /\ UNCHANGED <<files, conf, cplane, registered, labelled, trouble, cut>>

TaskFails(n) ==
  /\ task[n] \in {"running", "tools", "service", "unit"}
  /\ TaskIs(n, "failed") /\ trouble' = TRUE
  /\ cut' = cut \cup ({n} \cap Installing)
  /\ InTasks /\ UNCHANGED nodes

InPrereq(n, s) == phase = "prereq" /\ task[n] = s

\* kubeadm and kubelet are there: what follows them is taken to be there, too.
PrereqSkips(n) ==
  /\ InPrereq(n, "running") /\ tools[n] \notin {"none", "kubeadm"}
  /\ TaskIs(n, "ok")
  /\ InTasks /\ UNCHANGED <<nodes, trouble, cut>>

\* A node is left with kubeadm alone: its download is taken to be done.
PrereqGoesOn(n) ==
  /\ InPrereq(n, "running") /\ tools[n] = "kubeadm"
  /\ TaskIs(n, "service")
  /\ InTasks /\ UNCHANGED <<nodes, trouble, cut>>

PrereqDownloads(n) ==
  /\ InPrereq(n, "running") /\ tools[n] = "none"
  /\ tools' = [tools EXCEPT ![n] = "kubeadm"] /\ TaskIs(n, "tools")
  /\ InTasks /\ UNCHANGED <<base, unit, conf, cplane, registered, labelled, trouble, cut>>

\* One curl writes the three files one after the other; chmod ends it.
Further(t) ==
  CASE t = "none" -> "kubeadm" [] t = "kubeadm" -> "kubelet" [] t = "kubelet" -> "files"
    [] OTHER -> "all"

PrereqTools(n) ==
  /\ InPrereq(n, "tools") /\ tools' = [tools EXCEPT ![n] = Further(@)]
  /\ TaskIs(n, IF tools[n] = "files" THEN "service" ELSE "tools")
  /\ InTasks /\ UNCHANGED <<base, unit, conf, cplane, registered, labelled, trouble, cut>>

\* tee creates the file of the unit, unless there is one.  So it does with the
\* unit's drop-in, which is part of it here.
PrereqUnit(n) ==
  /\ InPrereq(n, "service")
  /\ IF unit[n] = "none" THEN unit' = [unit EXCEPT ![n] = "empty"] /\ TaskIs(n, "unit")
     ELSE UNCHANGED unit /\ TaskIs(n, "ok")
  /\ InTasks /\ UNCHANGED <<base, tools, conf, cplane, registered, labelled, trouble, cut>>

PrereqConfigures(n) ==
  /\ InPrereq(n, "unit") /\ unit' = [unit EXCEPT ![n] = "all"] /\ TaskIs(n, "ok")
  /\ InTasks /\ UNCHANGED <<base, tools, conf, cplane, registered, labelled, trouble, cut>>

\* A curl that fails in the pipeline leaves the file empty and the script going.
PrereqUnitLost(n) ==
  /\ InPrereq(n, "unit") /\ TaskIs(n, "ok")
  /\ cut' = cut \cup {n} /\ trouble' = TRUE
  /\ InTasks /\ UNCHANGED nodes

\* A faulty variant: the result of a goroutine is not looked at.
FailureDropped ==
  /\ phase \in {"base", "prereq"} /\ \A n \in Node : task[n] \in {"ok", "failed"}
  /\ IF phase = "base" THEN Go("prereq", "none") ELSE Go("init", "check")
  /\ UNCHANGED <<nodes, cluster, joining, creds, result, trouble, cut>>

\* errgroup's Wait: goroutines run to their end after one has failed.
TasksDone ==
  /\ phase \in {"base", "prereq"} /\ \A n \in Node : task[n] \in {"ok", "failed"}
  /\ IF \E n \in Node : task[n] = "failed" THEN End("failure")
     ELSE /\ IF phase = "base" THEN Go("prereq", "none") ELSE Go("init", "check")
          /\ UNCHANGED <<joining, creds, result>>
  /\ UNCHANGED <<nodes, cluster, trouble, cut>>

-----------------------------------------------------------------------------
(* initFirstControlPlane: the script                                       *)

InInit(s) == phase = "init" /\ step = s

To(s) == step' = s /\ UNCHANGED <<phase, task, joining, creds, result>>

\* kubectl get nodes answers: the script believes that init has been done.
InitSkipped ==
  /\ InInit("check") /\ control # "none" /\ apiUp
  /\ Go("creds", "none")
  /\ UNCHANGED <<nodes, cluster, joining, creds, result, trouble, cut>>

InitBegins ==
  /\ InInit("check") /\ ~(control # "none" /\ apiUp) /\ To("tools")
  /\ UNCHANGED <<nodes, cluster, trouble, cut>>

\* Unlike the script before it, this one looks for all three files.
InitTools ==
  /\ InInit("tools")
  /\ To(IF tools[First] \in {"files", "all"} THEN "service" ELSE "download")
  /\ UNCHANGED <<nodes, cluster, trouble, cut>>

InitDownloads ==
  /\ InInit("download") /\ tools' = [tools EXCEPT ![First] = Further(@)]
  /\ To(IF tools[First] = "files" THEN "service" ELSE "download")
  /\ UNCHANGED <<base, unit, conf, cplane, registered, labelled, cluster, trouble, cut>>

InitUnit ==
  /\ InInit("service")
  /\ IF unit[First] = "none" THEN unit' = [unit EXCEPT ![First] = "empty"] /\ To("unit")
     ELSE UNCHANGED unit /\ To("init")
  /\ UNCHANGED <<base, tools, conf, cplane, registered, labelled, cluster, trouble, cut>>

InitConfigures ==
  /\ InInit("unit") /\ unit' = [unit EXCEPT ![First] = "all"] /\ To("init")
  /\ UNCHANGED <<base, tools, conf, cplane, registered, labelled, cluster, trouble, cut>>

InitUnitLost ==
  /\ InInit("unit") /\ To("init")
  /\ cut' = cut \cup {First} /\ trouble' = TRUE
  /\ UNCHANGED <<nodes, cluster>>

\* A faulty variant: kubeadm init is not guarded by admin.conf.
InitUnguarded ==
  /\ InInit("init") /\ To("kubeadm")
  /\ UNCHANGED <<nodes, cluster, trouble, cut>>

\* kubeadm init is skipped if there is an admin.conf.
DecideInit ==
  /\ InInit("init") /\ To(IF control = "none" THEN "kubeadm" ELSE "verify")
  /\ UNCHANGED <<nodes, cluster, trouble, cut>>

\* kubeadm init and join do not say which runtime to use and refuse to choose.
CanInit == ~Docker /\ Complete(First)

KubeadmInit ==
  /\ InInit("kubeadm") /\ CanInit /\ To("verify")
  /\ control' = "full" /\ apiUp' = TRUE
  /\ conf' = conf \cup {First} /\ registered' = registered \cup {First}
  /\ UNCHANGED <<base, files, cplane, labelled, calico, trouble, cut>>

\* An attempt fails somewhere; the script repeats it, or is over (InitFails).
KubeadmInitFails ==
  /\ InInit("kubeadm") /\ CanInit /\ trouble' = TRUE
  /\ \E c \in {"none", "files", "pods"} :
       /\ control = "pods" => c = "pods"
       /\ control = "files" => c # "none"
       /\ control' = c
       /\ apiUp' \in {FALSE, c = "pods"}
       /\ conf' = IF c = "none" THEN conf ELSE conf \cup {First}
  /\ UNCHANGED <<base, files, cplane, registered, labelled, calico>>
  /\ UNCHANGED <<phase, task, step, joining, creds, result, cut>>

VerifyAPI ==
  /\ InInit("verify") /\ apiUp /\ To("operator")
  /\ UNCHANGED <<nodes, cluster, trouble, cut>>

InstallOperator ==
  /\ InInit("operator") /\ apiUp /\ To("resources")
  /\ calico' = IF calico = "none" THEN "operator" ELSE calico
  /\ UNCHANGED <<nodes, control, apiUp, trouble, cut>>

InstallCalico ==
  /\ InInit("resources") /\ apiUp /\ To("ready")
  /\ calico' = "all"
  /\ UNCHANGED <<nodes, control, apiUp, trouble, cut>>

FirstReady ==
  /\ InInit("ready") /\ apiUp
  /\ Go("creds", "none")
  /\ UNCHANGED <<nodes, cluster, joining, creds, result, trouble, cut>>

\* What was left half done makes the script fail every time.
InitFails ==
  /\ phase = "init" /\ End("failure")
  /\ trouble' = \/ trouble
                \/ ~(step = "verify" /\ control \in {"files", "pods"})
                     /\ ~(step = "kubeadm" /\ ~CanInit)
  /\ cut' = cut \cup Installing
  /\ UNCHANGED <<nodes, cluster>>

-----------------------------------------------------------------------------
(* extractJoinInfo                                                         *)

\* kubeadm's warnings are part of the output that is parsed, and a failing
\* upload of the certificates leaves an empty key and no error.
ExtractJoinInfo ==
  /\ phase = "creds" /\ apiUp
  /\ token' \in {"valid", "bad"} /\ key' \in {HA, FALSE}
  /\ trouble' = (trouble \/ token' = "bad" \/ key' # HA)
  /\ Go("join", "pick")
  /\ UNCHANGED <<nodes, cluster, joining, result, cut>>

ExtractFails ==
  /\ phase = "creds" /\ End("failure") /\ trouble' = (trouble \/ apiUp)
  /\ UNCHANGED <<nodes, cluster, cut>>

\* The token lives for two hours.
TokenExpires ==
  /\ phase = "join" /\ token = "valid" /\ token' = "bad" /\ trouble' = TRUE
  /\ UNCHANGED <<nodes, cluster, phase, task, step, joining, key, result, cut>>

-----------------------------------------------------------------------------
(* joinControlPlane, joinWorker                                            *)

InJoin(s) == phase = "join" /\ step = s

PickNext ==
  /\ InJoin("pick") /\ togo # {}
  /\ target' \in IF togo \cap OtherCP # {} THEN togo \cap OtherCP ELSE togo
  /\ togo' = togo \ {target'} /\ step' = "check"
  /\ UNCHANGED <<nodes, cluster, phase, task, creds, result, trouble, cut>>

\* A faulty variant: the script does not look for a kubelet.conf.
JoinRepeated ==
  /\ InJoin("check") /\ target \in conf /\ To("join")
  /\ UNCHANGED <<nodes, cluster, trouble, cut>>

\* Whoever has a kubelet.conf is taken to have joined.
JoinSkipped ==
  /\ InJoin("check") /\ target \in conf /\ To("pick")
  /\ UNCHANGED <<nodes, cluster, trouble, cut>>

JoinBegins ==
  /\ InJoin("check") /\ target \notin conf /\ To("join")
  /\ UNCHANGED <<nodes, cluster, trouble, cut>>

\* What kubeadm join needs.
CanJoin ==
  /\ ~Docker /\ Complete(target) /\ target \notin registered
  /\ control = "full" /\ apiUp /\ token = "valid"
  /\ target \in OtherCP => key

KubeadmJoin ==
  /\ InJoin("join") /\ CanJoin /\ To("pick")
  /\ conf' = conf \cup {target} /\ registered' = registered \cup {target}
  /\ cplane' = cplane \cup ({target} \cap OtherCP)
  /\ UNCHANGED <<base, files, labelled, cluster, trouble, cut>>

\* The kubelet has its certificate, and kubeadm join fails after that: before
\* the node is registered, or before it runs the control plane.
KubeadmJoinFails ==
  /\ InJoin("join") /\ CanJoin /\ trouble' = TRUE
  /\ conf' = conf \cup {target}
  /\ UNCHANGED <<base, files, cplane, registered, labelled, cluster>>
  /\ UNCHANGED <<phase, task, step, joining, creds, result, cut>>

JoinFails ==
  /\ InJoin("join") /\ End("failure") /\ trouble' = (trouble \/ CanJoin)
  /\ UNCHANGED <<nodes, cluster, cut>>

JoinsDone ==
  /\ InJoin("pick") /\ togo = {} /\ Go("configure", "await")
  /\ UNCHANGED <<nodes, cluster, joining, creds, result, trouble, cut>>

-----------------------------------------------------------------------------
(* configureNodes                                                          *)

InConfigure(s) == phase = "configure" /\ step = s

\* All nodes are registered, or the loop has made its 60 rounds.
AwaitNodes ==
  /\ InConfigure("await") /\ To("label")
  /\ UNCHANGED <<nodes, cluster, trouble, cut>>

\* A faulty variant: the nodes of the list are taken to be registered.
AllLabelled ==
  /\ InConfigure("label") /\ apiUp /\ To("ready")
  /\ labelled' = Node
  /\ UNCHANGED <<base, files, conf, cplane, registered, cluster, trouble, cut>>

\* Nodes that are not listed are passed over.
LabelNodes ==
  /\ InConfigure("label") /\ apiUp /\ To("ready")
  /\ labelled' = labelled \cup registered
  /\ UNCHANGED <<base, files, conf, cplane, registered, cluster, trouble, cut>>

\* A faulty variant: nobody waits for the nodes to be ready.
NodesNotAwaited ==
  /\ InConfigure("ready") /\ apiUp /\ End("success")
  /\ UNCHANGED <<nodes, cluster, trouble, cut>>

\* Nodes that are registered are ready when there is a pod network.
NodesReady ==
  /\ InConfigure("ready") /\ apiUp /\ calico = "all" /\ End("success")
  /\ UNCHANGED <<nodes, cluster, trouble, cut>>

ConfigureFails ==
  /\ phase = "configure" /\ End("failure")
  /\ trouble' = (trouble \/ ~(step = "ready" /\ calico # "all"))
  /\ UNCHANGED <<nodes, cluster, cut>>

-----------------------------------------------------------------------------
(* The nodes                                                               *)

InNodes == UNCHANGED <<phase, task, step, joining, creds, result>>

\* A kubelet that has its certificate registers its node.
Register(n) ==
  /\ n \in conf \ registered /\ apiUp
  /\ registered' = registered \cup {n}
  /\ InNodes /\ UNCHANGED <<base, files, conf, cplane, labelled, cluster, trouble, cut>>

APIStops ==
  /\ apiUp /\ apiUp' = FALSE /\ trouble' = TRUE
  /\ InNodes /\ UNCHANGED <<nodes, control, calico, cut>>

APIAnswers ==
  /\ ~apiUp /\ control \in {"pods", "full"} /\ apiUp' = TRUE
  /\ InNodes /\ UNCHANGED <<nodes, control, calico, trouble, cut>>

-----------------------------------------------------------------------------

Base ==
  \/ \E n \in Node : \/ BaseSucceeds(n) \/ TaskFails(n) \/ PrereqSkips(n) \/ PrereqGoesOn(n)
                     \/ PrereqDownloads(n) \/ PrereqTools(n) \/ PrereqUnit(n)
                     \/ PrereqConfigures(n) \/ PrereqUnitLost(n)
  \/ TasksDone

InitFirst ==
  \/ InitSkipped \/ InitBegins \/ InitTools \/ InitDownloads \/ InitUnit \/ InitConfigures
  \/ InitUnitLost \/ DecideInit \/ KubeadmInit \/ KubeadmInitFails
  \/ VerifyAPI \/ InstallOperator \/ InstallCalico \/ FirstReady \/ InitFails
  \/ ExtractJoinInfo \/ ExtractFails

Join ==
  \/ PickNext \/ JoinSkipped \/ JoinBegins \/ KubeadmJoin \/ KubeadmJoinFails
  \/ JoinFails \/ JoinsDone

Configure == AwaitNodes \/ LabelNodes \/ NodesReady \/ ConfigureFails

Run == Base \/ InitFirst \/ Join \/ Configure

Environment == (\E n \in Node : Register(n)) \/ APIStops \/ APIAnswers \/ TokenExpires

Next == StartRun \/ Kill \/ Run \/ Environment

Spec == Init /\ [][Next]_vars

\* Fairness: a running provisioner goes on, the user repeats the command, the
\* API server comes back, and from some time on nothing fails without reason.
Fairness ==
  /\ WF_vars(Run) /\ WF_vars(StartRun)
  /\ WF_vars(\E n \in Node : Register(n)) /\ WF_vars(APIAnswers)
  /\ <>[](~trouble)

FairSpec == Spec /\ Fairness

-----------------------------------------------------------------------------
(* Properties                                                              *)

Step == {"none", "check", "tools", "download", "service", "unit", "init", "kubeadm", "verify",
         "operator", "resources", "ready", "pick", "join", "await", "label"}

\* Every variable has the type its declaration announces.
TypeOK ==
  /\ base \subseteq Node /\ cut \subseteq Node
  /\ tools \in [Node -> {"none", "kubeadm", "kubelet", "files", "all"}]
  /\ unit \in [Node -> {"none", "empty", "all"}]
  /\ conf \subseteq Node /\ cplane \subseteq OtherCP
  /\ registered \subseteq conf /\ labelled \subseteq registered
  /\ control \in {"none", "files", "pods", "full"} /\ apiUp \in BOOLEAN
  /\ calico \in {"none", "operator", "all"}
  /\ phase \in {"idle", "base", "prereq", "init", "creds", "join", "configure"}
  /\ task \in [Node -> {"none", "running", "tools", "service", "unit", "ok", "failed"}]
  /\ step \in Step /\ togo \subseteq Joiner /\ target \in Node
  /\ token \in {"none", "valid", "bad"} /\ key \in BOOLEAN
  /\ result \in {"none", "success", "failure"} /\ trouble \in BOOLEAN

\* The barrier of ProvisionCluster, as far as it goes: Kubernetes is started on a
\* node only when every node has its base dependencies and all of the binaries
\* and the service, except where their installation was cut off: a repetition, which
\* takes the file that is there for the whole, lets such a node pass.
KubernetesOnFullBase ==
  phase \in {"init", "creds", "join", "configure"} =>
    base = Node /\ \A n \in Node \ cut : Complete(n)

\* A cluster that is up is never initialised again, also if its API server does
\* not answer when the script looks (the guards of the init script).
NeverInitialisedTwice == control = "full" => ~InInit("kubeadm")

\* A run that returns nil has a complete control plane and a pod network on the
\* first node, although a repeated init script may skip both.
SuccessMeansNetworked == result = "success" => control = "full" /\ calico = "all"

\* What a repetition does not repair: kubeadm init or the installation of Calico
\* interrupted, on the first node binaries that were never made executable or an
\* empty service, on a node that has not joined anything less than all; and
\* kubeadm that finds Docker's cri-dockerd and containerd side by side.
HalfDone ==
  \/ Docker
  \/ control \in {"files", "pods"}
  \/ control = "full" /\ calico # "all"
  \/ control = "none" /\ (tools[First] = "files" \/ unit[First] = "empty")
  \/ \E n \in Joiner \ conf : tools[n] # "none" /\ ~Complete(n)

\* From everything else a repetition of the command recovers: again and again
\* it succeeds, unless from some time on the cluster is half done for ever.
RepetitionCompletes == []<>(result = "success") \/ <>[]HalfDone

=============================================================================
