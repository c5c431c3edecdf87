--------------------- MODULE ClusterProvisionerProofs ---------------------
(***************************************************************************)
(* Theorems about ClusterProvisioner, for any nodes and with or without    *)
(* high availability, all from one inductive invariant.                    *)
(***************************************************************************)
EXTENDS ClusterProvisioner, TLAPS

\* A goroutine that reports success has done its part, and the phase after the
\* base dependencies finds them on all nodes.
TasksTellTruth ==
  /\ phase # "base" => \/ phase = "idle"
                       \/ base = Node
  /\ \A n \in Node :
       /\ phase = "base" /\ task[n] = "ok" => n \in base
       /\ phase = "prereq" /\ task[n] = "ok" => Complete(n) \/ n \in cut
       /\ task[n] \in {"tools", "service", "unit"} => phase = "prereq"
       /\ task[n] # "none" => phase \in {"base", "prereq"}

\* What a node has, if no installation was cut off there: nothing, what the
\* script that works on it has come to, or everything.
FilesTellTruth ==
  \A n \in Node \ cut :
    CASE task[n] = "tools" -> tools[n] \in {"kubeadm", "kubelet", "files"} /\ unit[n] = "none"
      [] task[n] = "service" -> tools[n] = "all" /\ unit[n] = "none"
      [] task[n] = "unit" -> tools[n] = "all" /\ unit[n] = "empty"
      [] OTHER -> Complete(n) \/ (tools[n] = "none" /\ unit[n] = "none")

\* Nobody but the first node has a kubelet.conf before the cluster is complete.
JoinedLater == conf \cap Joiner # {} => control = "full"

\* What the run has passed in its list of nodes has a kubelet.conf.
JoinProgress ==
  /\ phase \in {"base", "prereq", "init", "creds"} => togo = Joiner
  /\ phase = "join" =>
       Joiner \subseteq conf \cup togo \cup (IF step = "pick" THEN {} ELSE {target})
  /\ phase = "configure" => Joiner \subseteq conf

IInv ==
  /\ TypeOK /\ KubernetesOnFullBase /\ NeverInitialisedTwice /\ SuccessMeansNetworked
  /\ TasksTellTruth /\ FilesTellTruth /\ JoinedLater /\ JoinProgress

-----------------------------------------------------------------------------

LEMMA Initially == Init => IInv
  BY NodesAssumption, HAAssumption
  DEF Init, IInv, TypeOK, KubernetesOnFullBase, NeverInitialisedTwice, SuccessMeansNetworked,
      TasksTellTruth, FilesTellTruth, Complete, JoinedLater, JoinProgress, InInit, Node, Joiner,
      Step

\* The beginning and the end of a run: a script whose session ends while it
\* installs leaves a mark.
LEMMA Ends ==
  ASSUME IInv, NEW r \in {"success", "failure"}, End(r), UNCHANGED <<nodes, cluster>>,
         trouble' \in BOOLEAN, r = "success" => control = "full" /\ calico = "all",
         cut \subseteq cut', cut' \subseteq Node,
         \A n \in Node : task[n] \in {"tools", "service", "unit"} => n \in cut'
  PROVE  IInv'
  BY DEF End, IInv, TypeOK, KubernetesOnFullBase, NeverInitialisedTwice, SuccessMeansNetworked,
         TasksTellTruth, FilesTellTruth, Complete, JoinedLater, JoinProgress, InInit, Node,
         Joiner, Step, nodes, files, cluster,
         joining, creds

LEMMA Starts == ASSUME IInv, StartRun PROVE IInv'
  BY DEF StartRun, IInv, TypeOK, KubernetesOnFullBase, NeverInitialisedTwice, SuccessMeansNetworked,
         TasksTellTruth, FilesTellTruth, Complete, JoinedLater, JoinProgress, InInit, Node,
         Joiner, Step, nodes, files, cluster

\* The parallel phases: what a goroutine does, and the barrier.
LEMMA BaseSteps == ASSUME IInv, Base PROVE IInv'
<1> USE DEF InTasks, TaskIs, nodes, files, cluster, joining, creds
<1> DEFINE Kept == IInv'
<1>1. ASSUME NEW n \in Node,
             \/ BaseSucceeds(n) \/ TaskFails(n) \/ PrereqSkips(n) \/ PrereqGoesOn(n)
             \/ PrereqDownloads(n) \/ PrereqTools(n) \/ PrereqUnit(n)
             \/ PrereqConfigures(n) \/ PrereqUnitLost(n)
      PROVE  Kept
  <2>1. phase \in {"base", "prereq"} /\ phase' = phase /\ step' = step
    BY <1>1 DEF BaseSucceeds, TaskFails, PrereqSkips, PrereqGoesOn, PrereqDownloads,
         PrereqTools, PrereqUnit, PrereqConfigures, PrereqUnitLost, InPrereq, Installing,
                IInv, TasksTellTruth
  <2>2. TypeOK'
    <3>1. CASE BaseSucceeds(n)
      BY <3>1 DEF BaseSucceeds, IInv, TypeOK
    <3>2. CASE TaskFails(n)
      BY <3>2 DEF TaskFails, Installing, IInv, TypeOK
    <3>3. CASE PrereqSkips(n)
      BY <3>3 DEF PrereqSkips, InPrereq, IInv, TypeOK
    <3>4. CASE PrereqGoesOn(n)
      BY <3>4 DEF PrereqGoesOn, InPrereq, Further, IInv, TypeOK
    <3>5. CASE PrereqDownloads(n)
      BY <3>5 DEF PrereqDownloads, InPrereq, Further, IInv, TypeOK
    <3>6. CASE PrereqTools(n)
      BY <3>6 DEF PrereqTools, InPrereq, Further, IInv, TypeOK
    <3>7. CASE PrereqUnit(n)
      BY <3>7 DEF PrereqUnit, InPrereq, Further, IInv, TypeOK
    <3>8. CASE PrereqConfigures(n)
      BY <3>8 DEF PrereqConfigures, InPrereq, Further, IInv, TypeOK
    <3>9. CASE PrereqUnitLost(n)
      BY <3>9 DEF PrereqUnitLost, InPrereq, Further, IInv, TypeOK
    <3>10. QED  BY <1>1, <3>1, <3>2, <3>3, <3>4, <3>5, <3>6, <3>7, <3>8, <3>9
  <2>3. TasksTellTruth' /\ FilesTellTruth'
    <3>1. CASE BaseSucceeds(n)
      BY <3>1, <2>1 DEF BaseSucceeds, InPrereq, Installing, Further, Complete, IInv, TypeOK,
           TasksTellTruth, FilesTellTruth
    <3>2. CASE TaskFails(n)
      BY <3>2, <2>1 DEF TaskFails, InPrereq, Installing, Further, Complete, IInv, TypeOK,
           TasksTellTruth, FilesTellTruth
    <3>3. CASE PrereqSkips(n)
      BY <3>3, <2>1 DEF PrereqSkips, InPrereq, Installing, Further, Complete, IInv, TypeOK,
           TasksTellTruth, FilesTellTruth
    <3>4. CASE PrereqGoesOn(n)
      BY <3>4, <2>1 DEF PrereqGoesOn, InPrereq, Installing, Further, Complete, IInv, TypeOK,
           TasksTellTruth, FilesTellTruth
    <3>5. CASE PrereqDownloads(n)
      BY <3>5, <2>1 DEF PrereqDownloads, InPrereq, Installing, Further, Complete, IInv, TypeOK,
           TasksTellTruth, FilesTellTruth
    <3>6. CASE PrereqTools(n)
      BY <3>6, <2>1 DEF PrereqTools, InPrereq, Installing, Further, Complete, IInv, TypeOK,
           TasksTellTruth, FilesTellTruth
    <3>7. CASE PrereqUnit(n)
      BY <3>7, <2>1 DEF PrereqUnit, InPrereq, Installing, Further, Complete, IInv, TypeOK,
           TasksTellTruth, FilesTellTruth
    <3>8. CASE PrereqConfigures(n)
      BY <3>8, <2>1 DEF PrereqConfigures, InPrereq, Installing, Further, Complete, IInv, TypeOK,
           TasksTellTruth, FilesTellTruth
    <3>9. CASE PrereqUnitLost(n)
      BY <3>9, <2>1 DEF PrereqUnitLost, InPrereq, Installing, Further, Complete, IInv, TypeOK,
           TasksTellTruth, FilesTellTruth
    <3>10. QED  BY <1>1, <3>1, <3>2, <3>3, <3>4, <3>5, <3>6, <3>7, <3>8, <3>9
  <2>4. /\ KubernetesOnFullBase' /\ NeverInitialisedTwice' /\ SuccessMeansNetworked'
        /\ JoinedLater' /\ JoinProgress'
    BY <1>1, <2>1 DEF BaseSucceeds, TaskFails, PrereqSkips, PrereqGoesOn, PrereqDownloads,
         PrereqTools, PrereqUnit, PrereqConfigures, PrereqUnitLost, InPrereq, Installing,
                      IInv, KubernetesOnFullBase, NeverInitialisedTwice, SuccessMeansNetworked,
                      JoinedLater, JoinProgress, InInit
  <2>5. QED  BY <2>2, <2>3, <2>4 DEF IInv
<1>2. ASSUME TasksDone PROVE Kept
  <2>1. CASE \E n \in Node : task[n] = "failed"
    <3>1. /\ End("failure") /\ UNCHANGED <<nodes, cluster, cut>> /\ trouble' = trouble
          /\ \A n \in Node : task[n] \in {"ok", "failed"}
      BY <1>2, <2>1 DEF TasksDone
    <3>2. QED  BY <3>1, Ends DEF IInv, TypeOK
  <2>2. CASE ~\E n \in Node : task[n] = "failed"
    <3>1. /\ phase \in {"base", "prereq"} /\ \A n \in Node : task[n] = "ok"
          /\ IF phase = "base" THEN Go("prereq", "none") ELSE Go("init", "check")
          /\ UNCHANGED <<nodes, cluster, joining, creds, result, trouble, cut>>
      BY <1>2, <2>2 DEF TasksDone
    <3>2. CASE phase = "base"
      <4>1. base = Node
        BY <3>1, <3>2 DEF IInv, TypeOK, TasksTellTruth
      <4>2. QED
        BY <3>1, <3>2, <4>1 DEF Go, IInv, TypeOK, KubernetesOnFullBase, NeverInitialisedTwice,
             SuccessMeansNetworked, TasksTellTruth, FilesTellTruth, Complete, JoinedLater,
             JoinProgress, InInit, Step
    <3>3. CASE phase = "prereq"
      BY <3>1, <3>3 DEF Go, IInv, TypeOK, KubernetesOnFullBase, NeverInitialisedTwice,
           SuccessMeansNetworked, TasksTellTruth, FilesTellTruth, Complete, JoinedLater,
           JoinProgress, InInit, Step
    <3>4. QED  BY <3>1, <3>2, <3>3
  <2>3. QED  BY <2>1, <2>2
<1>3. QED  BY <1>1, <1>2 DEF Base

\* The init script: only an attempt of kubeadm init changes how far the cluster
\* has come, and no attempt begins when it is complete.
LEMMA InitSteps == ASSUME IInv, InitFirst PROVE IInv'
<1> USE DEF To, Go, InInit, nodes, files, cluster, joining, creds
<1>1. CASE \/ InitSkipped \/ InitBegins \/ InitTools \/ DecideInit
           \/ VerifyAPI \/ InstallOperator \/ InstallCalico \/ FirstReady
  BY <1>1 DEF InitSkipped, InitBegins, InitTools, DecideInit, VerifyAPI, InstallOperator,
       InstallCalico,
       FirstReady, IInv, TypeOK, KubernetesOnFullBase, NeverInitialisedTwice,
       SuccessMeansNetworked, TasksTellTruth, FilesTellTruth, Complete, JoinedLater,
       JoinProgress, Step, Node, Joiner
<1>2. CASE KubeadmInit
  BY <1>2 DEF KubeadmInit, IInv, TypeOK, KubernetesOnFullBase, NeverInitialisedTwice,
       SuccessMeansNetworked, TasksTellTruth, FilesTellTruth, Complete, JoinedLater,
       JoinProgress, Step, Node, Joiner
<1>3. CASE KubeadmInitFails
  <2>1. control # "full" /\ conf \cap Joiner = {} /\ result # "success"
    BY <1>3 DEF KubeadmInitFails, IInv, NeverInitialisedTwice, JoinedLater, SuccessMeansNetworked
  <2>2. conf' \cap Joiner = {}
    BY <1>3, <2>1, NodesAssumption DEF KubeadmInitFails, Joiner
  <2>3. QED
    BY <1>3, <2>1, <2>2 DEF KubeadmInitFails, IInv, TypeOK, KubernetesOnFullBase,
         NeverInitialisedTwice, SuccessMeansNetworked, TasksTellTruth, FilesTellTruth, Complete,
         JoinedLater, JoinProgress,
         Step, Node
<1>4. CASE InitFails \/ ExtractFails
  <2>1. End("failure") /\ UNCHANGED <<nodes, cluster>> /\ trouble' \in BOOLEAN
    BY <1>4 DEF InitFails, ExtractFails, IInv, TypeOK
  <2>2. cut \subseteq cut' /\ cut' \subseteq Node
    BY <1>4 DEF InitFails, ExtractFails, Installing, IInv, TypeOK
  <2>3. \A n \in Node : task[n] = "none"
    BY <1>4 DEF InitFails, ExtractFails, IInv, TasksTellTruth
  <2>4. QED  BY <2>1, <2>2, <2>3, Ends
<1>5. CASE ExtractJoinInfo
  BY <1>5, HAAssumption DEF ExtractJoinInfo, IInv, TypeOK, KubernetesOnFullBase,
       NeverInitialisedTwice, SuccessMeansNetworked, TasksTellTruth, FilesTellTruth, Complete,
       JoinedLater, JoinProgress, Step
<1>6. CASE InitDownloads \/ InitUnit \/ InitConfigures \/ InitUnitLost
  <2> DEFINE rest == <<base, conf, cplane, registered, labelled, cluster, phase, task, joining,
                      creds, result>>
  <2>1. /\ phase = "init" /\ UNCHANGED rest /\ cut \subseteq cut' /\ cut' \subseteq Node
        /\ step' \in {"download", "service", "unit", "init"} /\ trouble' \in BOOLEAN
    BY <1>6 DEF InitDownloads, InitUnit, InitConfigures, InitUnitLost, IInv, TypeOK, Node
  <2>2. /\ tools' \in [Node -> {"none", "kubeadm", "kubelet", "files", "all"}]
        /\ unit' \in [Node -> {"none", "empty", "all"}]
    BY <1>6 DEF InitDownloads, InitUnit, InitConfigures, InitUnitLost, Further, IInv, TypeOK
  <2>3. \A n \in Node \ cut : Complete(n) /\ Complete(n)'
    BY <1>6, <2>1 DEF InitDownloads, InitUnit, InitConfigures, InitUnitLost, Further, IInv, TypeOK,
         KubernetesOnFullBase, Complete
  <2>4. TypeOK' /\ TasksTellTruth' /\ KubernetesOnFullBase'
    BY <2>1, <2>2, <2>3 DEF IInv, TypeOK, TasksTellTruth, KubernetesOnFullBase, Step
  <2>5. FilesTellTruth'
    <3>1. \A n \in Node : task'[n] = "none"
      BY <2>1 DEF IInv, TasksTellTruth
    <3>2. QED  BY <2>1, <2>3, <3>1 DEF FilesTellTruth
  <2>6. NeverInitialisedTwice' /\ SuccessMeansNetworked' /\ JoinedLater' /\ JoinProgress'
    BY <2>1 DEF IInv, NeverInitialisedTwice, SuccessMeansNetworked, JoinedLater, JoinProgress
  <2>7. QED  BY <2>4, <2>5, <2>6 DEF IInv
<1>7. QED  BY <1>1, <1>2, <1>3, <1>4, <1>5, <1>6 DEF InitFirst

\* The joins: a node is passed only when it has a kubelet.conf, and it gets one
\* only from a complete cluster.
LEMMA JoinSteps == ASSUME IInv, Join PROVE IInv'
<1> USE DEF To, Go, InInit, InJoin, nodes, files, cluster, joining, creds
<1>1. CASE PickNext
  <2>1. target' \in togo /\ target' \in Joiner
    BY <1>1 DEF PickNext, IInv, TypeOK
  <2>2. QED
    BY <1>1, <2>1 DEF PickNext, IInv, TypeOK, KubernetesOnFullBase, NeverInitialisedTwice,
         SuccessMeansNetworked, TasksTellTruth, FilesTellTruth, Complete, JoinedLater,
         JoinProgress, Step, Node
<1>2. CASE JoinSkipped \/ JoinBegins \/ JoinsDone
  BY <1>2 DEF JoinSkipped, JoinBegins, JoinsDone, IInv, TypeOK, KubernetesOnFullBase,
       NeverInitialisedTwice, SuccessMeansNetworked, TasksTellTruth, FilesTellTruth, Complete,
       JoinedLater, JoinProgress, Step
<1>3. CASE KubeadmJoin \/ KubeadmJoinFails
  <2>1. /\ control = "full"
        /\ UNCHANGED <<base, files, cut, labelled, control, calico, phase, task, result>>
    BY <1>3 DEF KubeadmJoin, KubeadmJoinFails, CanJoin
  <2>2. TypeOK'
    BY <1>3, <2>1 DEF KubeadmJoin, KubeadmJoinFails, IInv, TypeOK, Step
  <2>3. JoinProgress'
    BY <1>3, <2>1 DEF KubeadmJoin, KubeadmJoinFails, IInv, TypeOK, JoinProgress
  <2>4. /\ KubernetesOnFullBase' /\ NeverInitialisedTwice' /\ SuccessMeansNetworked'
        /\ TasksTellTruth' /\ FilesTellTruth' /\ JoinedLater'
    BY <1>3, <2>1 DEF KubeadmJoin, KubeadmJoinFails, IInv, KubernetesOnFullBase,
         NeverInitialisedTwice, SuccessMeansNetworked, TasksTellTruth, FilesTellTruth, Complete,
         JoinedLater
  <2>5. QED  BY <2>2, <2>3, <2>4 DEF IInv
<1>4. CASE JoinFails
  <2>1. /\ End("failure") /\ UNCHANGED <<nodes, cluster, cut>>
        /\ trouble' = (trouble \/ CanJoin)
    BY <1>4 DEF JoinFails
  <2>2. trouble' \in BOOLEAN /\ cut \subseteq Node
    BY <2>1 DEF IInv, TypeOK
  <2>3. \A n \in Node : task[n] = "none"
    BY <1>4 DEF JoinFails, IInv, TasksTellTruth
  <2>4. QED  BY <2>1, <2>2, <2>3, Ends
<1>5. QED  BY <1>1, <1>2, <1>3, <1>4 DEF Join

\* The labels: success needs all joiners, hence a complete cluster, and Calico.
LEMMA ConfigureSteps == ASSUME IInv, Configure PROVE IInv'
<1> USE DEF To, InConfigure
<1>1. CASE AwaitNodes \/ LabelNodes
  BY <1>1 DEF AwaitNodes, LabelNodes, InInit, IInv, TypeOK, KubernetesOnFullBase,
       NeverInitialisedTwice, SuccessMeansNetworked, TasksTellTruth, FilesTellTruth, Complete,
       JoinedLater, JoinProgress,
       Step, nodes, files, cluster, joining, creds
<1>2. CASE NodesReady
  <2>1. control = "full"
    BY <1>2, NodesAssumption DEF NodesReady, IInv, JoinedLater, JoinProgress, Joiner
  <2>2. \A n \in Node : task[n] = "none"
    BY <1>2 DEF NodesReady, IInv, TasksTellTruth
  <2>3. QED  BY <1>2, <2>1, <2>2, Ends DEF NodesReady, IInv, TypeOK
<1>3. CASE ConfigureFails
  <2>1. /\ End("failure") /\ UNCHANGED <<nodes, cluster, cut>> /\ trouble' \in BOOLEAN
        /\ cut \subseteq Node
    BY <1>3 DEF ConfigureFails, IInv, TypeOK
  <2>2. \A n \in Node : task[n] = "none"
    BY <1>3 DEF ConfigureFails, IInv, TasksTellTruth
  <2>3. QED  BY <2>1, <2>2, Ends
<1>4. QED  BY <1>1, <1>2, <1>3 DEF Configure

\* What happens without the provisioner.
LEMMA EnvironmentSteps == ASSUME IInv, Environment PROVE IInv'
<1> USE DEF InNodes, nodes, files, cluster, joining, creds
<1>1. /\ UNCHANGED <<base, files, cut, conf, control, calico, phase, task, step, joining, result>>
      /\ trouble' \in BOOLEAN
  BY DEF Environment, Register, APIStops, APIAnswers, TokenExpires, IInv, TypeOK
<1>2. TypeOK'
  <2>1. CASE \E n \in Node : Register(n)
    BY <2>1 DEF Register, IInv, TypeOK
  <2>2. CASE APIStops \/ APIAnswers \/ TokenExpires
    <3>1. TypeOK
      BY DEF IInv
    <3>2. CASE APIStops \/ APIAnswers
      <4>1. /\ UNCHANGED <<base, files, cut, conf, cplane, registered, labelled, control, calico,
                           phase, task, step, togo, target, token, key, result>>
            /\ apiUp' \in BOOLEAN /\ trouble' \in BOOLEAN
        BY <3>1, <3>2 DEF APIStops, APIAnswers, TypeOK
      <4> QED  BY <3>1, <4>1 DEF TypeOK
    <3>3. CASE TokenExpires
      BY <3>1, <3>3 DEF TokenExpires, TypeOK
    <3> QED  BY <2>2, <3>2, <3>3
  <2>3. QED  BY <2>1, <2>2 DEF Environment
<1>3. /\ KubernetesOnFullBase' /\ NeverInitialisedTwice' /\ SuccessMeansNetworked'
      /\ TasksTellTruth' /\ FilesTellTruth' /\ JoinedLater' /\ JoinProgress'
  BY <1>1 DEF InInit, IInv, KubernetesOnFullBase, NeverInitialisedTwice, SuccessMeansNetworked,
              TasksTellTruth, FilesTellTruth, Complete, JoinedLater, JoinProgress
<1>4. QED  BY <1>2, <1>3 DEF IInv

LEMMA NextStep == ASSUME IInv, [Next]_vars PROVE IInv'
<1>1. CASE UNCHANGED vars
  BY <1>1 DEF vars, nodes, files, cluster, joining, creds, IInv, TypeOK, KubernetesOnFullBase,
       NeverInitialisedTwice, SuccessMeansNetworked, TasksTellTruth, FilesTellTruth, Complete,
       JoinedLater, JoinProgress,
       InInit, Step
<1>2. CASE Kill
  <2>1. /\ cut \subseteq cut' /\ cut' \subseteq Node
        /\ \A n \in Node : task[n] \in {"tools", "service", "unit"} => n \in cut'
    BY <1>2 DEF Kill, Installing, IInv, TypeOK
  <2>2. QED  BY <1>2, <2>1, Ends DEF Kill
<1>3. CASE StartRun
  BY <1>3, Starts
<1>4. CASE Run
  BY <1>4, BaseSteps, InitSteps, JoinSteps, ConfigureSteps DEF Run
<1>5. CASE Environment
  BY <1>5, EnvironmentSteps
<1>6. QED  BY <1>1, <1>2, <1>3, <1>4, <1>5 DEF Next

-----------------------------------------------------------------------------

\* The invariant holds in every reachable state.
THEOREM Inductive == Spec => []IInv
<1>1. IInv /\ [Next]_vars => IInv'
  BY NextStep
<1>2. QED  BY Initially, <1>1, PTL DEF Spec

\* Every variable has its type; labels are on registered nodes, and those have
\* a kubelet.conf (ProvisionCluster and its scripts).
THEOREM TypeCorrect == Spec => []TypeOK
<1>1. IInv => TypeOK
  BY DEF IInv
<1>2. QED  BY Inductive, <1>1, PTL

\* The barrier of ProvisionCluster holds for any number of nodes.
THEOREM BarrierHolds == Spec => []KubernetesOnFullBase
<1>1. IInv => KubernetesOnFullBase
  BY DEF IInv
<1>2. QED  BY Inductive, <1>1, PTL

\* kubeadm init is never run on a complete cluster, whatever was interrupted and
\* whenever the API server answered.
THEOREM InitOnce == Spec => []NeverInitialisedTwice
<1>1. IInv => NeverInitialisedTwice
  BY DEF IInv
<1>2. QED  BY Inductive, <1>1, PTL

\* A run that returns nil has a complete first node and a pod network.
THEOREM SuccessIsTrue == Spec => []SuccessMeansNetworked
<1>1. IInv => SuccessMeansNetworked
  BY DEF IInv
<1>2. QED  BY Inductive, <1>1, PTL

=============================================================================
