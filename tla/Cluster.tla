------------------------------ MODULE Cluster ------------------------------
(***************************************************************************)
(* cluster.go, nlb.go: CreateCluster of a multinode environment, and the   *)
(* deletions that follow it.                                               *)
(*                                                                         *)
(* The resources are created one after the other, the nodes of a pool      *)
(* concurrently (one goroutine each).  There is no cleanup stack: after a  *)
(* failure everything stays, and a later Delete works from the cache file. *)
(* The file learns of the network and of the groups step by step, of the   *)
(* nodes and of the load balancer only at the end.                         *)
(***************************************************************************)
EXTENDS ProviderDelete

CONSTANTS
  ControlPlane, Worker,  \* the instances of the two pools
  HA                     \* spec.cluster.highAvailability.enabled

ASSUME ClusterAssumption ==
  /\ Multinode /\ HA \in BOOLEAN
  /\ ControlPlane # {} /\ ControlPlane \cap Worker = {}
  /\ Instance = ControlPlane \cup Worker

VARIABLES
  node,      \* what the goroutine of each instance has reached
  members,   \* ClusterCache beside the AWS struct: nodes, balancer, target group
  crashed    \* history: a process was killed

vars == <<cloud, disk, proc, rolling, mode, node, members, crashed>>

Infra == {"vpc", "subnet", "igw", "pubsubnet", "pubrtb", "cpsg", "workersg"}

\* createControlPlaneInstances and createWorkerInstances.
Pool == [cps |-> ControlPlane, workers |-> Worker]

\* The step that follows step s of CreateCluster.
NextCreate(s) ==
  CASE s = "vpc"       -> "subnet"
    [] s = "subnet"    -> "igw"
    [] s = "igw"       -> "pubsubnet"
    [] s = "pubsubnet" -> "pubrtb"
    [] s = "pubrtb"    -> "cpsg"
    [] s = "cpsg"      -> "workersg"
    [] s = "workersg"  -> IF HA THEN "nlb" ELSE "cps"
    [] s = "nlb"       -> "tg"
    [] s = "tg"        -> "listener"
    [] s = "listener"  -> "cps"
    [] s = "cps" /\ HA -> "targets"
    [] s \in {"cps", "targets"} /\ ~(s = "cps" /\ HA)
                       -> IF Worker # {} THEN "workers" ELSE "check"
    [] s = "workers"   -> "check"
    [] s = "check"     -> "status"

NoNode == [i \in Instance |-> "none"]

Init ==
  /\ live = {} /\ links = {} /\ stopping = {} /\ enis = {} /\ known = {}
  /\ exists = FALSE /\ file = NoStatus /\ torn = FALSE
  /\ env = NoStatus /\ cache = {} /\ pc = "idle" /\ at = "vpc" /\ tries = 0
  /\ rolling = FALSE /\ mode = "none"
  /\ node = NoNode /\ members = {} /\ crashed = FALSE

-----------------------------------------------------------------------------
(* CreateCluster, one resource at a time                                   *)

StartCreate ==
  /\ pc = "idle" /\ mode = "none"
  /\ mode' \in Modes
  /\ env' = NoStatus /\ cache' = {}
  /\ LoggedUpdate(cache', "Creating")
  /\ Goto("create", "vpc")
  /\ UNCHANGED <<cloud, tries, rolling, node, members, crashed>>

\* The id of a new resource is held in the AWS struct, twice for the
\* control-plane group, or beside it for the balancer and its target group;
\* that of the listener is not held.
CreateResource ==
  /\ pc = "create" /\ at \in Infra \cup Balancer
  /\ live' = live \cup {at}
  /\ cache' = cache \cup (Infra \cap {at}) \cup (IF at = "cpsg" THEN {"sg"} ELSE {})
  /\ members' = members \cup ({"nlb", "tg"} \cap {at})
  /\ Goto("complete", at)
  /\ UNCHANGED <<links, stopping, enis, known, disk, env, tries, rolling, mode, node, crashed>>

\* The creating call, the image lookup before the nodes of a pool are
\* launched, RegisterTargets or ModifyNetworkInterfaceAttribute fails.
CreateFails ==
  /\ pc = "create" /\ at # "status"
  /\ Goto("degrade", at)
  /\ UNCHANGED <<cloud, disk, env, cache, tries, rolling, mode, node, members, crashed>>

\* The stages the links of resource r reach, in order.
FollowUps(r) ==
  CASE r = "igw"      -> {{}, {"igw-vpc"}}
    [] r = "pubrtb"   -> {{}, {"pubrtb-pubsubnet"}}
    [] r = "workersg" -> {{}, {"workersg-cpsg"}, {"workersg-cpsg", "cpsg-workersg"}}
    [] OTHER          -> {{}}

CompleteResource ==
  /\ pc = "complete"
  /\ links' = links \cup UNION FollowUps(at)
  /\ Goto("record", at)
  /\ UNCHANGED <<live, stopping, enis, known, disk, env, cache, tries, rolling, mode, node,
                 members, crashed>>

\* A follow-up call fails; a subnet and the balancer's parts have none.
CompleteFails ==
  /\ pc = "complete" /\ at \notin {"subnet", "pubsubnet"} \cup Balancer
  /\ \E stage \in FollowUps(at) : links' = links \cup stage
  /\ Goto("degrade", at)
  /\ UNCHANGED <<live, stopping, enis, known, disk, env, cache, tries, rolling, mode, node,
                 members, crashed>>

\* A faulty variant: the progress of the groups is not written.
RecordProgressUnsaved ==
  /\ pc = "record"
  /\ IF at \in {"cpsg", "workersg"} THEN UNCHANGED disk ELSE LoggedUpdate(cache, "Creating")
  /\ Goto("create", NextCreate(at))
  /\ UNCHANGED <<cloud, env, cache, tries, rolling, mode, node, members, crashed>>

\* The progress is recorded, except within the load balancer phase and after
\* the targets are registered.
RecordProgress ==
  /\ pc = "record"
  /\ IF at \in {"nlb", "tg", "targets"} THEN UNCHANGED disk ELSE LoggedUpdate(cache, "Creating")
  /\ Goto("create", NextCreate(at))
  /\ UNCHANGED <<cloud, env, cache, tries, rolling, mode, node, members, crashed>>

\* registerTargets and disableSourceDestCheck leave no trace here.
Configure ==
  /\ pc = "create" /\ at \in {"targets", "check"}
  /\ Goto("record", at)
  /\ UNCHANGED <<cloud, disk, env, cache, tries, rolling, mode, node, members, crashed>>

-----------------------------------------------------------------------------
(* createInstances: the goroutines of one pool                             *)

LaunchPool ==
  /\ pc = "create" /\ at \in DOMAIN Pool
  /\ Goto("launch", at)
  /\ UNCHANGED <<cloud, disk, env, cache, tries, rolling, mode, node, members, crashed>>

LaunchNode(i) ==
  /\ pc = "launch" /\ i \in Pool[at] /\ node[i] = "none"
  /\ live' = live \cup {i} /\ enis' = enis \cup {i} /\ known' = known \cup {i}
  /\ node' = [node EXCEPT ![i] = "launched"]
  /\ UNCHANGED <<links, stopping, disk, proc, rolling, mode, members, crashed>>

\* The waiter sees the instance running.
NodeRuns(i) ==
  /\ pc = "launch" /\ i \in Pool[at] /\ node[i] = "launched" /\ i \in live \ stopping
  /\ node' = [node EXCEPT ![i] = "running"]
  /\ UNCHANGED <<cloud, disk, proc, rolling, mode, members, crashed>>

\* RunInstances, the waiter or DescribeInstances fails.
NodeFails(i) ==
  /\ pc = "launch" /\ i \in Pool[at] /\ node[i] \in {"none", "launched"}
  /\ node' = [node EXCEPT ![i] = "failed"]
  /\ UNCHANGED <<cloud, disk, proc, rolling, mode, members, crashed>>

PoolIs(states) == \A i \in Pool[at] : node[i] \in states

\* All goroutines succeeded; the first control-plane node to finish becomes
\* the primary instance.
PoolReady ==
  /\ pc = "launch" /\ PoolIs({"running"})
  /\ members' = members \cup Pool[at]
  /\ \/ at = "cps" /\ \E i \in ControlPlane : cache' = cache \cup {i}
     \/ at = "workers" /\ UNCHANGED cache
  /\ Goto("record", at)
  /\ UNCHANGED <<cloud, disk, env, tries, rolling, mode, node, crashed>>

\* After the last goroutine ended one error is enough to drop the ids of the
\* nodes that run.
PoolFails ==
  /\ pc = "launch" /\ PoolIs({"running", "failed"}) /\ ~PoolIs({"running"})
  /\ Goto("degrade", at)
  /\ UNCHANGED <<cloud, disk, env, cache, tries, rolling, mode, node, members, crashed>>

-----------------------------------------------------------------------------
(* The end of CreateCluster                                                *)

Forgets == node' = NoNode /\ members' = {}

\* A faulty variant: the workers are not listed.
ClusterStatusWithoutWorkers ==
  /\ pc = "create" /\ at = "status"
  /\ \/ WriteFile([Updated(cache, "Available") EXCEPT !.cluster = members \ ({"tg"} \cup Worker)])
     \/ WriteFails
  /\ Exit /\ Forgets
  /\ UNCHANGED <<cloud, rolling, mode, crashed>>

\* updateClusterStatus: the nodes and the balancer's DNS name are written
\* with the Available condition; an error is returned as it is.
UpdateClusterStatus ==
  /\ pc = "create" /\ at = "status"
  /\ \/ WriteFile([Updated(cache, "Available") EXCEPT !.cluster = members \ {"tg"}])
     \/ WriteFails
  /\ Exit /\ Forgets
  /\ UNCHANGED <<cloud, rolling, mode, crashed>>

\* A faulty variant: the failure is not recorded.
RecordDegradedUnsaved ==
  /\ pc = "degrade"
  /\ Exit /\ Forgets
  /\ UNCHANGED <<cloud, disk, rolling, mode, crashed>>

\* The failure is recorded with the ids known so far; its error is returned.
RecordDegraded ==
  /\ pc = "degrade"
  /\ LoggedUpdate(cache, "Degraded")
  /\ Exit /\ Forgets
  /\ UNCHANGED <<cloud, rolling, mode, crashed>>

\* After a successful Create the CLI provisions the cluster and rewrites the
\* file, with the condition Degraded when provisioning failed.
Provision ==
  /\ mode = "cli" /\ pc = "idle" /\ exists /\ file.cond = "Available"
  /\ \/ \E c \in {"Available", "Degraded"} : WriteFile([file EXCEPT !.cond = c])
     \/ WriteFails
  /\ UNCHANGED <<cloud, proc, rolling, mode, node, members, crashed>>

\* The process is killed.
Crash ==
  /\ pc # "idle"
  /\ Exit /\ Forgets
  /\ crashed' = TRUE
  /\ UNCHANGED <<cloud, disk, rolling, mode>>

\* What AWS does on its own.
Environment ==
  /\ \E i \in Instance : Stop(i) \/ DrainENI(i) \/ SelfTerminate(i) \/ Forget(i)
  /\ UNCHANGED <<disk, proc, rolling, mode, node, members, crashed>>

Launch == \E i \in Instance : LaunchNode(i) \/ NodeRuns(i) \/ NodeFails(i)

CreateCluster ==
  \/ StartCreate \/ CreateResource \/ CreateFails \/ CompleteResource \/ CompleteFails
  \/ RecordProgress \/ Configure \/ LaunchPool \/ Launch \/ PoolReady \/ PoolFails
  \/ UpdateClusterStatus \/ RecordDegraded

Next ==
  \/ CreateCluster
  \/ Delete /\ UNCHANGED <<mode, node, members, crashed>>
  \/ Provision \/ Crash \/ Environment

Spec == Init /\ [][Next]_vars

-----------------------------------------------------------------------------
(* Properties                                                              *)

Step  == Infra \cup Balancer \cup {"cps", "targets", "workers", "check", "status"}

Place == {"idle", "create", "complete", "record", "degrade", "launch", "balancer",
          "deleteNLB", "terminate", "terminateCall", "await", "drain", "groups",
          "delete", "network", "finish", "deleted"}

Held == Infra \cup {"sg"} \cup ControlPlane

\* Every variable has the type its declaration announces.
TypeOK ==
  /\ live \subseteq Infra \cup Balancer \cup Instance /\ links \subseteq Link
  /\ stopping \subseteq Instance /\ enis \subseteq Instance /\ known \subseteq Instance
  /\ exists \in BOOLEAN /\ file \in Status /\ env \in Status
  /\ cache \subseteq Held /\ pc \in Place
  /\ at \in Step \cup DeleteStep /\ tries \in 0 .. MaxRetries - 1
  /\ rolling = FALSE /\ mode \in Modes \cup {"none"} /\ torn \in BOOLEAN
  /\ node \in [Instance -> {"none", "launched", "running", "failed"}]
  /\ members \subseteq Instance \cup {"nlb", "tg"} /\ crashed \in BOOLEAN

\* The network and the groups that exist and that the cache file does not name.
Untracked == (live \cap Infra) \ file.props

\* As long as the file can be written, a killed CreateCluster loses track of
\* one network resource at most, and one that merely fails of none (the status
\* updates between the steps).
InfraIsTracked ==
  ~torn =>
    /\ \E r \in Infra : Untracked \subseteq {r}
    /\ ~crashed /\ pc \notin {"complete", "record", "degrade"} => Untracked = {}

\* When the file says Terminated, no node and no balancer is left, whatever
\* became of the list of nodes: the action deletes without it, a failed pool
\* never entered it.
TerminatedMeansNoNode ==
  ~torn /\ exists /\ file.cond = "Terminated" =>
    live \cap (file.props \cup Instance \cup {"nlb", "listener"}) = {}

\* A file with the condition Available names every node and the balancer, and
\* its network is complete: it was written last, and Delete withdraws the
\* condition before it touches a node or the network.
AvailableMeansRecorded ==
  ~torn /\ exists /\ file.cond = "Available" =>
    /\ file.cluster = Instance \cup (IF HA THEN {"nlb"} ELSE {})
    /\ Infra \subseteq live \cap file.props
    /\ links = {"igw-vpc", "pubrtb-pubsubnet", "workersg-cpsg", "cpsg-workersg"}

\* When the nodes and the balancer are gone and the groups no longer refer to
\* each other, the order of Delete's calls never meets a DependencyViolation.
DeleteOrderRespectsDependencies ==
  /\ Runs /\ ~torn /\ Untracked = {} /\ enis = {} /\ "nlb" \notin live
  /\ links \cap {"workersg-cpsg", "cpsg-workersg"} = {}
  => Gone(at) \/ ~Blocked(at)

\* The CLI gives the cache file of a cluster up only when the nodes, the
\* balancer and all that the file names are gone.
FileOutlivesCluster ==
  [][exists /\ ~exists' /\ ~torn =>
       live' \cap (file.props \cup Instance \cup {"nlb", "listener"}) = {}]_vars

\* The places of CreateCluster.
Creating == {"create", "complete", "record", "launch", "degrade"}

\* How the cache file, with the place in CreateCluster, shows the phase of the
\* life of a cluster.
Phase ==
  IF mode = "none" THEN "absent"
  ELSE IF pc \in Creating THEN "creating"
  ELSE IF ~exists \/ file.cond = "Terminated" THEN "closed"
  ELSE IF file.cond = "Available" THEN "available"
  ELSE "partial"

\* The nodes and the balancer are made without being noted one by one: the
\* promise is about the network and the groups.
Promise == INSTANCE Lifecycle WITH
  Item <- Infra, Volatile <- {},
  phase <- Phase, stock <- live \cap Infra, book <- file.props \cap Infra,
  damaged <- torn, killed <- crashed

\* CreateCluster, Delete, the CLI and the action keep the promise of a provider
\* for the network and the groups of a cluster, whatever fails and whenever they
\* are killed: what exists is in the file before the next of them is made, only
\* what the file names is deleted, and nothing before Available is withdrawn.
KeepsPromise == Promise!Spec

=============================================================================
