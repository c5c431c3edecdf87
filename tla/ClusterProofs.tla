--------------------------- MODULE ClusterProofs ---------------------------
(***************************************************************************)
(* Proofs about Cluster, for every pair of pools, with and without a load  *)
(* balancer: the types, InfraIsTracked, TerminatedMeansNoNode,             *)
(* AvailableMeansRecorded, DeleteOrderRespectsDependencies and             *)
(* FileOutlivesCluster, all from one inductive invariant, and KeepsPromise *)
(* from that and FileInv: Cluster implements Lifecycle.                    *)
(***************************************************************************)
EXTENDS Cluster, TLAPS

-----------------------------------------------------------------------------
(* The inductive invariant                                                 *)

\* The phases of a deletion before the groups are touched, and all of them.
Early    == {"balancer", "deleteNLB", "terminate", "terminateCall", "await", "drain", "groups"}
Deleting == Early \cup {"delete", "network", "finish", "deleted"}

\* What holds where: Create runs once, on an empty status.
Control ==
  /\ mode = "none" =>
       /\ pc = "idle" /\ live = {} /\ links = {} /\ enis = {} /\ members = {}
       /\ file = NoStatus /\ ~exists /\ env = NoStatus /\ ~crashed
  /\ pc \in Creating => env = NoStatus /\ ~crashed /\ (at \in Balancer => HA)
  /\ pc = "create" => at \in Step
  /\ pc = "complete" => at \in Infra \cup Balancer
  /\ pc = "record" => at \in Step \ {"status"}
  /\ pc = "launch" => at \in {"cps", "workers"}
  /\ pc = "delete" => at \in DeleteStep
  /\ env.props \subseteq Held /\ file.props \subseteq Held

\* The network and the groups, the links and the members that CreateCluster
\* has made when it comes to step s.
Made(s) ==
  CASE s = "vpc"       -> {}
    [] s = "subnet"    -> {"vpc"}
    [] s = "igw"       -> {"vpc", "subnet"}
    [] s = "pubsubnet" -> {"vpc", "subnet", "igw"}
    [] s = "pubrtb"    -> {"vpc", "subnet", "igw", "pubsubnet"}
    [] s = "cpsg"      -> {"vpc", "subnet", "igw", "pubsubnet", "pubrtb"}
    [] s = "workersg"  -> {"vpc", "subnet", "igw", "pubsubnet", "pubrtb", "cpsg"}
    [] OTHER           -> Infra

AllLinks == {"igw-vpc", "pubrtb-pubsubnet", "workersg-cpsg", "cpsg-workersg"}

Linked(s) ==
  CASE s \in {"vpc", "subnet", "igw"} -> {}
    [] s \in {"pubsubnet", "pubrtb"}  -> {"igw-vpc"}
    [] s \in {"cpsg", "workersg"}     -> {"igw-vpc", "pubrtb-pubsubnet"}
    [] OTHER                          -> AllLinks

Balanced == IF HA THEN {"nlb", "tg"} ELSE {}

Joined(s) ==
  CASE s \in Infra \cup {"nlb"}     -> {}
    [] s = "tg"                     -> {"nlb"}
    [] s = "listener"               -> {"nlb", "tg"}
    [] s = "cps"                    -> Balanced
    [] s \in {"targets", "workers"} -> Balanced \cup ControlPlane
    [] OTHER                        -> Balanced \cup Instance

Holds(s) == live \cap Infra = Made(s) /\ cache \cap Infra = Made(s)

\* How far CreateCluster is.
CreateProgress ==
  /\ pc \in {"create", "launch"} =>
       Holds(at) /\ links = Linked(at) /\ members = Joined(at)
  /\ pc = "complete" =>
       Holds(NextCreate(at)) /\ links = Linked(at) /\ members = Joined(NextCreate(at))
  /\ pc = "record" =>
       /\ Holds(NextCreate(at)) /\ links = Linked(NextCreate(at))
       /\ members = Joined(NextCreate(at))
  /\ pc \in Creating => live \cap Infra \subseteq cache /\ members \cap {"nlb"} \subseteq live
  /\ pc = "create" /\ at = "vpc" => live = {}

\* What needs what in AWS: nodes, their interfaces and the balancer are in
\* the public subnet, all but the gateway in the VPC, and what a link holds
\* together exists.
Needs ==
  /\ live \cap Instance \subseteq enis
  /\ enis # {} \/ "nlb" \in live => "pubsubnet" \in live
  /\ live \cap (Infra \ {"vpc", "igw"}) # {} => "vpc" \in live
  /\ "listener" \in live => "nlb" \in live
  /\ "igw-vpc" \in links => {"igw", "vpc"} \subseteq live
  /\ "pubrtb-pubsubnet" \in links => "pubsubnet" \in live

\* What a deletion has still to remove.
ToGo ==
  CASE pc = "delete" /\ at = "cpsg"   -> Infra \ {"workersg"}
    [] pc = "network" \/ (pc = "delete" /\ at \in {"sg", "pubsubnet"})
                                      -> Infra \ {"workersg", "cpsg"}
    [] pc = "delete" /\ at = "pubrtb" -> {"vpc", "subnet", "igw", "pubrtb"}
    [] pc = "delete" /\ at = "subnet" -> {"vpc", "subnet", "igw"}
    [] pc = "delete" /\ at \in {"rtb", "detach", "igw"} -> {"vpc", "igw"}
    [] pc = "delete" /\ at = "vpc"    -> {"vpc"}
    [] pc \in {"finish", "deleted"}   -> {}
    [] OTHER                          -> Infra

DeletionProgress ==
  pc \in Deleting =>
    /\ cache \cap live \cap Infra \subseteq ToGo
    /\ pc = "delete" /\ at = "igw" /\ {"igw", "vpc"} \subseteq cache => "igw-vpc" \notin links

\* The ids without the one that SkipStep clears.
Ids(S) == S \ {"sg"}

\* The cache file a deletion works on names what the deletion works on.
DeletionKnowsFile ==
  pc \in Deleting =>
    /\ Ids(file.props) = Ids(cache)
    /\ env.saved => Ids(env.props) = Ids(cache)

\* The file names what exists, except what a kill left behind and, during
\* CreateCluster, the resource of the current step; while the VPC itself is
\* not named nothing else exists.
Tracked ==
  /\ pc \in {"create", "launch"} => live \cap Infra \subseteq file.props
  /\ pc \in {"complete", "record", "degrade"} => live \cap Infra \subseteq file.props \cup {at}
  /\ pc \notin Creating /\ ~crashed => live \cap Infra \subseteq file.props
  /\ \E r \in Infra : live \cap Infra \subseteq file.props \cup {r}
  /\ "vpc" \in live /\ "vpc" \notin file.props => live \subseteq {"vpc"}

\* What a file that says Available, and one that says Terminated, promise.
Complete ==
  /\ file.cluster = Instance \cup (IF HA THEN {"nlb"} ELSE {})
  /\ Infra \subseteq live \cap file.props
  /\ links = AllLinks

AllGone == live \cap (file.props \cup Instance \cup {"nlb", "listener"}) = {}

Conditions ==
  /\ IF exists THEN file.saved ELSE file = NoStatus
  /\ pc \in Creating => file.cond \in {"none", "Creating"}
  /\ pc \in Deleting /\ file.cond = "Available" =>
       pc \in Early /\ (env.saved => env.cond = "Available")
  /\ file.cond = "Available" => Complete
  /\ file.cond = "Terminated" => AllGone

\* A torn file promises nothing.
Books == ~torn => DeletionKnowsFile /\ Tracked /\ Conditions

IInv == TypeOK /\ Control /\ CreateProgress /\ Needs /\ DeletionProgress /\ Books

-----------------------------------------------------------------------------
(* Lemmas about the constants and the operators of the model               *)

\* The names of a cluster are those the assumptions separate.
LEMMA Names ==
  /\ Infra \subseteq Resource /\ Balancer \subseteq Resource /\ Instance \subseteq Resource
  /\ Held \subseteq Resource /\ Infra \subseteq Held /\ Held \subseteq Infra \cup {"sg"} \cup Instance
  /\ Infra \cap Instance = {} /\ Balancer \cap Instance = {} /\ Infra \cap Balancer = {}
  /\ Instance \cap ({"sg", "detach", "rtb"} \cup DeleteStep) = {}
  /\ Instance = ControlPlane \cup Worker /\ ControlPlane \subseteq Held
  /\ Multinode /\ HA \in BOOLEAN
BY InstanceAssumption, ClusterAssumption
   DEF Infra, Resource, Network, Groups, Balancer, Held, DeleteStep, GroupSteps, NetworkSteps

\* A call that was not tried yet is within the bound.
LEMMA NoTries == 0 \in 0 .. MaxRetries - 1
BY RetriesAssumption

\* The empty status is a status.
LEMMA NoStatusType == NoStatus \in Status /\ NoStatus.props = {} /\ NoStatus.cluster = {}
                      /\ NoStatus.cond = "none" /\ ~NoStatus.saved
BY DEF NoStatus, Status, Condition

\* What a write of the status puts into the file.
LEMMA UpdatedFields ==
  ASSUME env \in Status, NEW c \in SUBSET Resource, NEW k \in Condition
  PROVE  /\ Updated(c, k) \in Status
         /\ Updated(c, k).saved
         /\ Updated(c, k).props = IF env.saved THEN env.props ELSE c
         /\ Updated(c, k).cluster = env.cluster
         /\ Updated(c, k).cond = k
BY DEF Updated, Status

\* The file after an update with the ids c and the condition k.
Written(c, k) ==
  /\ file'.saved /\ file'.cond = k /\ file'.cluster = env.cluster
  /\ file'.props = IF env.saved THEN env.props ELSE c
  /\ exists'

\* A successful update leaves the file when nothing changes, or writes the
\* status.
LEMMA UpdateStatusEffect ==
  ASSUME TypeOK, NEW c \in SUBSET Held, NEW k \in Condition, UpdateStatus(c, k)
  PROVE  /\ exists' \in BOOLEAN /\ torn' = torn /\ file' \in Status
         /\ (file' = file /\ exists' = exists /\ Unmodified(c, k)) \/ Written(c, k)
<1>. env \in Status /\ file \in Status /\ exists \in BOOLEAN /\ c \subseteq Resource
  BY Names DEF TypeOK
<1>1. CASE Unmodified(c, k)
  BY <1>1 DEF UpdateStatus, disk
<1>2. CASE ~Unmodified(c, k)
  <2>1. exists' = TRUE /\ file' = Updated(c, k) /\ torn' = torn
    BY <1>2 DEF UpdateStatus, WriteFile
  <2>. QED
    BY <2>1, UpdatedFields DEF Written
<1>. QED
  BY <1>1, <1>2

\* An update whose error is only logged may also leave the file as it was
\* because the write failed, or tear it.
Logged(c, k) ==
  \/ file' = file /\ exists' = exists /\ (~torn' => Unmodified(c, k))
  \/ file' = NoStatus /\ torn'
  \/ Written(c, k)

LEMMA LoggedUpdateEffect ==
  ASSUME TypeOK, NEW c \in SUBSET Held, NEW k \in Condition, LoggedUpdate(c, k)
  PROVE  /\ exists' \in BOOLEAN /\ torn' \in BOOLEAN /\ file' \in Status
         /\ torn => torn'
         /\ Logged(c, k)
<1>1. CASE UpdateStatus(c, k)
  BY <1>1, UpdateStatusEffect DEF TypeOK, Logged
<1>2. CASE ~Unmodified(c, k) /\ WriteFails
  BY <1>2, NoStatusType DEF WriteFails, TypeOK, Logged
<1>. QED
  BY <1>1, <1>2 DEF LoggedUpdate

\* The links of a resource, all follow-up calls done.
LEMMA AllFollowUps ==
  ASSUME NEW r
  PROVE  /\ r = "igw" => UNION FollowUps(r) = {"igw-vpc"}
         /\ r = "pubrtb" => UNION FollowUps(r) = {"pubrtb-pubsubnet"}
         /\ r = "workersg" => UNION FollowUps(r) = {"workersg-cpsg", "cpsg-workersg"}
         /\ r \notin {"igw", "pubrtb", "workersg"} => UNION FollowUps(r) = {}
         /\ UNION FollowUps(r) \subseteq AllLinks
         /\ \A stage \in FollowUps(r) : stage \subseteq UNION FollowUps(r)
<1>1. CASE r = "igw"
  BY <1>1 DEF FollowUps, AllLinks
<1>2. CASE r = "pubrtb"
  BY <1>2 DEF FollowUps, AllLinks
<1>3. CASE r = "workersg"
  BY <1>3 DEF FollowUps, AllLinks
<1>4. CASE r \notin {"igw", "pubrtb", "workersg"}
  BY <1>4 DEF FollowUps, AllLinks
<1>. QED
  BY <1>1, <1>2, <1>3, <1>4

\* What one step of CreateCluster adds to the ones before it.
LEMMA Advance ==
  ASSUME NEW s \in Step \ {"status"}, s \in Balancer => HA
  PROVE  /\ NextCreate(s) \in Step /\ NextCreate(s) # "vpc"
         /\ NextCreate(s) \in Balancer => HA
         /\ Made(NextCreate(s)) = Made(s) \cup (Infra \cap {s})
         /\ Joined(NextCreate(s)) = Joined(s) \cup ({"nlb", "tg"} \cap {s})
                                     \cup (IF s \in {"cps", "workers"} THEN Pool[s] ELSE {})
         /\ Linked(NextCreate(s)) = Linked(s) \cup UNION FollowUps(s)
<1>. DEFINE n == NextCreate(s)
<1>1. CASE s \in {"vpc", "subnet", "igw", "pubsubnet", "pubrtb", "cpsg"}
  <2>1. /\ s = "vpc" => n = "subnet"
        /\ s = "subnet" => n = "igw"
        /\ s = "igw" => n = "pubsubnet"
        /\ s = "pubsubnet" => n = "pubrtb"
        /\ s = "pubrtb" => n = "cpsg"
        /\ s = "cpsg" => n = "workersg"
    BY <1>1 DEF NextCreate
  <2>. HIDE DEF n
  <2>2. n \in Step /\ n # "vpc" /\ n \notin Balancer /\ n \in Infra /\ s \in Infra
    BY <1>1, <2>1 DEF Step, Infra, Balancer
  <2>3. Made(n) = Made(s) \cup (Infra \cap {s})
    BY <1>1, <2>1 DEF Made, Infra
  <2>4. Joined(n) = {} /\ Joined(s) = {}
    BY <1>1, <2>2 DEF Joined, Infra
  <2>5. Linked(n) = Linked(s) \cup UNION FollowUps(s)
    BY <1>1, <2>1, AllFollowUps DEF Linked
  <2>. QED
    BY <1>1, <2>2, <2>3, <2>4, <2>5 DEF n
<1>2. CASE s = "workersg"
  <2>1. n = IF HA THEN "nlb" ELSE "cps"
    BY <1>2 DEF NextCreate
  <2>. HIDE DEF n
  <2>2. n \in Step /\ n # "vpc" /\ (n \in Balancer => HA) /\ n \notin Infra
    BY <2>1 DEF Step, Infra, Balancer
  <2>3. Made(n) = Made(s) \cup (Infra \cap {s})
    BY <1>2, <2>1 DEF Made, Infra
  <2>4. Joined(n) = {} /\ Joined(s) = {}
    BY <1>2, <2>1 DEF Joined, Infra, Balanced
  <2>5. Linked(n) = Linked(s) \cup UNION FollowUps(s)
    BY <1>2, <2>1, AllFollowUps DEF Linked, AllLinks
  <2>. QED
    BY <1>2, <2>2, <2>3, <2>4, <2>5 DEF n
<1>3. CASE s \in {"nlb", "tg", "listener", "cps", "targets", "workers", "check"}
  <2>1. /\ s = "nlb" => n = "tg"
        /\ s = "tg" => n = "listener"
        /\ s = "listener" => n = "cps"
        /\ s = "cps" /\ HA => n = "targets"
        /\ (s = "cps" /\ ~HA) \/ s = "targets" => n = IF Worker # {} THEN "workers" ELSE "check"
        /\ s = "workers" => n = "check"
        /\ s = "check" => n = "status"
    BY <1>3 DEF NextCreate
  <2>. HIDE DEF n
  <2>2. n \in Step /\ n # "vpc" /\ (n \in Balancer => HA) /\ n \notin Infra
    BY <1>3, <2>1 DEF Step, Infra, Balancer
  <2>3. Made(n) = Infra /\ Made(s) = Infra /\ s \notin Infra
    BY <1>3, <2>2 DEF Made, Infra
  <2>4. Linked(n) = AllLinks /\ Linked(s) = AllLinks /\ UNION FollowUps(s) = {}
    BY <1>3, <2>2, AllFollowUps DEF Linked, Infra
  <2>5. Joined(n) = Joined(s) \cup ({"nlb", "tg"} \cap {s})
                      \cup (IF s \in {"cps", "workers"} THEN Pool[s] ELSE {})
    <3>1. CASE s \in {"nlb", "tg", "listener"}
      BY <3>1, <2>1 DEF Joined, Infra, Balanced, Balancer
    <3>2. CASE s = "cps"
      BY <3>2, <2>1, Names DEF Joined, Infra, Pool
    <3>3. CASE s = "targets"
      BY <3>3, <2>1, Names DEF Joined, Infra
    <3>4. CASE s \in {"workers", "check"}
      BY <3>4, <2>1, Names DEF Joined, Infra, Pool
    <3>. QED
      BY <1>3, <3>1, <3>2, <3>3, <3>4
  <2>. QED
    BY <1>3, <2>2, <2>3, <2>4, <2>5 DEF n
<1>. QED
  BY <1>1, <1>2, <1>3 DEF Step, Infra, Balancer

\* A delete call of r takes r away, or found it gone; it takes nothing that
\* something else needs.
LEMMA DeletedEffect ==
  ASSUME TypeOK, Needs, NEW r \in DeleteStep \cup Balancer, Deleted(r)
  PROVE  /\ live' \subseteq live /\ links' \subseteq links
         /\ stopping' = stopping /\ enis' = enis /\ known' = known
         /\ r # "detach" => live' \cap {r} = {}
         /\ r = "detach" => "igw-vpc" \notin links'
         /\ r \in Balancer => live' \cap Infra = live \cap Infra /\ links' = links
         /\ Needs'
<1>1. /\ live' \subseteq live /\ links' \subseteq links
      /\ stopping' = stopping /\ enis' = enis /\ known' = known
      /\ live' = live \ Victims(r) /\ links' = links \ LinksOf(r)
      /\ Gone(r) \/ ~Blocked(r)
  BY DEF Deleted
<1>2. r \notin Instance
  BY Names
<1>3. /\ r # "detach" => live' \cap {r} = {}
      /\ r = "detach" => "igw-vpc" \notin links'
      /\ r \in Balancer => live' \cap Infra = live \cap Infra /\ links' = links
  BY <1>1 DEF Victims, LinksOf, Balancer, Infra
<1>4. Needs'
  <2>1. CASE r = "vpc"
    <3>1. CASE Gone(r)
      BY <2>1, <1>1, <3>1 DEF Needs, Gone, Victims, LinksOf
    <3>2. CASE ~Gone(r) /\ ~Blocked(r)
      <4>1. /\ live \cap ((Network \cup Groups) \ {"vpc", "igw"}) = {}
            /\ "igw-vpc" \notin links /\ enis = {} /\ "nlb" \notin live
        BY <2>1, <3>2 DEF Blocked
      <4>2. Infra \ {"vpc", "igw"} \subseteq (Network \cup Groups) \ {"vpc", "igw"}
        BY DEF Infra, Network, Groups
      <4>. QED
        BY <2>1, <1>1, <1>2, <4>1, <4>2 DEF Needs, Victims, LinksOf
    <3>. QED
      BY <1>1, <3>1, <3>2
  <2>2. CASE r = "pubsubnet"
    BY <2>2, <1>1, <1>2, Names DEF Needs, Blocked, Gone, HostSubnet, Victims, LinksOf
  <2>3. CASE r \in {"detach", "igw", "nlb", "listener"}
    BY <2>3, <1>1, <1>2 DEF Needs, Victims, LinksOf
  <2>4. CASE r \notin {"vpc", "detach", "igw", "pubsubnet", "nlb", "listener"}
    BY <2>4, <1>1, <1>2 DEF Needs, Victims, LinksOf
  <2>. QED
    BY <2>1, <2>2, <2>3, <2>4
<1>. QED
  BY <1>1, <1>3, <1>4

\* A call that fails has no effect, or that of a deletion.
LEMMA FailedEffect ==
  ASSUME TypeOK, Needs, NEW r \in DeleteStep \cup Balancer, Failed(r)
  PROVE  /\ live' \subseteq live /\ links' \subseteq links
         /\ stopping' = stopping /\ enis' = enis /\ known' = known
         /\ r \in Balancer => live' \cap Infra = live \cap Infra /\ links' = links
         /\ Needs'
<1>1. CASE UNCHANGED cloud
  BY <1>1 DEF cloud, Needs
<1>2. CASE Deleted(r)
  BY <1>2, DeletedEffect
<1>. QED
  BY <1>1, <1>2 DEF Failed

\* Where a finished step of the delete sequence leads.
LEMMA StepDoneEffect ==
  ASSUME TypeOK, at \in DeleteStep, StepDone(at)
  PROVE  \/ /\ pc' = "delete"
            /\ \/ at = "workersg" /\ at' = "cpsg"
               \/ at = "cpsg" /\ at' = "sg"
               \/ at = "pubsubnet" /\ at' = "pubrtb"
               \/ at = "pubrtb" /\ at' = "subnet"
               \/ at = "subnet" /\ at' = "rtb"
               \/ at = "rtb" /\ at' = "detach"
               \/ at = "detach" /\ at' = "igw"
               \/ at = "igw" /\ at' = "vpc"
         \/ pc' = "network" /\ at = "sg" /\ at' = at
         \/ pc' = "finish" /\ at = "vpc" /\ at' = at
BY DEF StepDone, NextStep, Goto, DeleteStep, GroupSteps, NetworkSteps, TypeOK

-----------------------------------------------------------------------------
(* What a deletion does to the books                                       *)

\* A step of a deletion that leaves the file alone and only takes away, which
\* an available file does not survive unless no network resource goes.
LEMMA BooksShrink ==
  ASSUME IInv, pc \in Deleting, pc' \in Deleting \cup {"idle"}, UNCHANGED <<disk, crashed>>,
         live' \subseteq live, links' \subseteq links,
         pc \in Early => /\ live' \cap Infra = live \cap Infra /\ links' = links
                         /\ pc' \in Early \cup {"idle"},
         pc' = "idle" \/ (env' = env /\ Ids(cache') = Ids(cache))
  PROVE  Books'
<1>. SUFFICES ASSUME ~torn PROVE Books'
  BY DEF Books, disk
<1>. file' = file /\ exists' = exists /\ torn' = torn /\ crashed' = crashed
  BY DEF disk
<1>. DeletionKnowsFile /\ Tracked /\ Conditions
  BY DEF IInv, Books
<1>. pc \notin Creating /\ pc' \notin Creating
  BY DEF Creating, Deleting, Early
<1>1. DeletionKnowsFile'
  BY DEF DeletionKnowsFile, Deleting, Early
<1>2. Tracked'
  BY DEF Tracked, Creating, Deleting, Early
<1>3. Conditions'
  <2>1. file.cond = "Available" => pc \in Early /\ (env.saved => env.cond = "Available")
    BY DEF Conditions
  <2>2. file.cond = "Available" => Complete'
    BY <2>1 DEF Conditions, Complete
  <2>3. file.cond = "Terminated" => AllGone'
    BY DEF Conditions, AllGone
  <2>. QED
    BY <2>1, <2>2, <2>3 DEF Conditions, Deleting, Early
<1>. QED
  BY <1>1, <1>2, <1>3 DEF Books

\* A step that also updates the status withdraws the condition Available.
LEMMA BooksLogged ==
  ASSUME IInv, pc \in Deleting, pc' \in Deleting \cup {"idle"}, crashed' = crashed,
         live' \subseteq live, links' \subseteq links,
         NEW k \in {"Terminating", "DeletingGroups", "DeletingVPC", "DegradedEC2",
                    "DegradedGroup"},
         Logged(cache, k), torn => torn',
         pc' = "idle" \/ (env' = env /\ cache' = cache)
  PROVE  Books'
<1>. SUFFICES ASSUME ~torn' PROVE Books'
  BY DEF Books
<1>. ~torn
  OBVIOUS
<1>. DeletionKnowsFile /\ Tracked /\ Conditions
  BY DEF IInv, Books
<1>. pc \notin Creating /\ pc' \notin Creating
  BY DEF Creating, Deleting, Early
<1>1. /\ Ids(file'.props) = Ids(cache) /\ Ids(file'.props) = Ids(file.props)
      /\ (file' = file /\ exists' = exists) \/ (file'.cond = k /\ file'.saved /\ exists')
      /\ file'.cond # "Available"
  BY DEF Logged, Written, Unmodified, DeletionKnowsFile, Conditions
<1>2. DeletionKnowsFile'
  BY <1>1 DEF DeletionKnowsFile, Deleting, Early
<1>3. \A r \in Infra : r \in file'.props <=> r \in file.props
  BY <1>1 DEF Ids, Infra
<1>4. Tracked'
  BY <1>3 DEF Tracked, Creating, Deleting, Early, Infra
<1>5. Conditions'
  <2>1. file'.cond = "Terminated" => file' = file
    BY <1>1
  <2>2. file'.cond = "Terminated" => AllGone'
    BY <2>1 DEF Conditions, AllGone
  <2>. QED
    BY <1>1, <2>1, <2>2 DEF Conditions
<1>. QED
  BY <1>2, <1>4, <1>5 DEF Books

-----------------------------------------------------------------------------
(* Every step of a deletion preserves the invariant                        *)

Rest == <<mode, node, members, crashed>>

\* Delete ends, having changed nothing but what exists.
LEMMA QuitPreserves ==
  ASSUME IInv, pc \in Deleting, Exit, UNCHANGED <<disk, rolling>>, UNCHANGED Rest,
         live' \subseteq live, links' \subseteq links, stopping' \subseteq Instance,
         UNCHANGED <<enis, known>>, Needs',
         pc \in Early => live' \cap Infra = live \cap Infra /\ links' = links
  PROVE  IInv'
<1>. USE DEF IInv, disk, Rest, Exit
<1>1. TypeOK' /\ Control'
  BY NoTries, NoStatusType DEF TypeOK, Control, Creating, Deleting, Early, Place
<1>2. CreateProgress' /\ DeletionProgress'
  BY DEF CreateProgress, DeletionProgress, Creating, Deleting, Early
<1>3. Books'
  BY BooksShrink
<1>. QED
  BY <1>1, <1>2, <1>3

\* Delete moves on before the groups, having told instances to terminate at
\* most.
LEMMA MovePreserves ==
  ASSUME IInv, pc \in Early, pc' \in Early, at' \in Step \cup DeleteStep,
         tries' \in 0 .. MaxRetries - 1, stopping' \subseteq Instance,
         UNCHANGED <<live, links, enis, known, disk, env, cache, rolling>>, UNCHANGED Rest
  PROVE  IInv'
<1>. USE DEF IInv, disk, Rest
<1>1. TypeOK' /\ Control'
  BY DEF TypeOK, Control, Creating, Early, Place
<1>2. CreateProgress' /\ Needs'
  BY DEF CreateProgress, Needs, Creating, Early
<1>3. DeletionProgress'
  BY DEF DeletionProgress, Deleting, Early, ToGo
<1>4. Books'
  BY BooksShrink DEF Deleting
<1>. QED
  BY <1>1, <1>2, <1>3, <1>4

\* The three ways a deletion starts.
LEMMA StartPreserves ==
  ASSUME IInv, StartDelete, UNCHANGED Rest
  PROVE  IInv'
<1>. USE DEF IInv, cloud, disk, proc, Rest, Goto
<1>1. CASE StartDeleteCLI \/ StartDeleteCI
  <2>1. /\ pc = "idle" /\ mode # "none" /\ pc' = "balancer" /\ at' = "nlb"
        /\ exists /\ cache' = file.props
        /\ env' = file \/ env' = NoStatus
        /\ UNCHANGED <<cloud, disk, tries, rolling, mode, node, members, crashed>>
    BY <1>1, ModesAssumption DEF StartDeleteCLI, StartDeleteCI
  <2>2. TypeOK' /\ Control'
    BY <2>1, NoStatusType
       DEF TypeOK, Control, Creating, Place, Step, Balancer
  <2>3. CreateProgress' /\ Needs'
    BY <2>1 DEF CreateProgress, Needs, Creating
  <2>4. DeletionProgress'
    BY <2>1 DEF DeletionProgress, Deleting, Early, ToGo
  <2>5. Books'
    <3>. SUFFICES ASSUME ~torn PROVE Books'
      BY <2>1 DEF Books
    <3>1. DeletionKnowsFile'
      BY <2>1, NoStatusType DEF DeletionKnowsFile
    <3>2. Tracked'
      BY <2>1 DEF Books, Tracked, Creating
    <3>3. Conditions'
      BY <2>1, NoStatusType
         DEF Books, Conditions, Complete, AllGone, Creating, Early
    <3>. QED
      BY <3>1, <3>2, <3>3 DEF Books
  <2>. QED
    BY <2>2, <2>3, <2>4, <2>5
<1>2. CASE ForgetTornFile
  <2>1. /\ mode # "none" /\ pc = "idle" /\ exists /\ ~file.saved
        /\ ~exists' /\ exists' \in BOOLEAN /\ file' = NoStatus /\ torn' = torn
        /\ UNCHANGED <<cloud, proc, rolling, mode, node, members, crashed>>
    BY <1>2, ModesAssumption DEF ForgetTornFile, RemoveFile
  <2>2. TypeOK' /\ Control'
    BY <2>1, NoStatusType DEF TypeOK, Control, Creating
  <2>3. CreateProgress' /\ Needs' /\ DeletionProgress'
    BY <2>1 DEF CreateProgress, Needs, Creating, DeletionProgress, Deleting, Early
  <2>4. Books'
    BY <2>1 DEF Books, Conditions
  <2>. QED
    BY <2>2, <2>3, <2>4
<1>. QED
  BY <1>1, <1>2 DEF StartDelete

\* The load balancer's phase.
LEMMA BalancerPreserves ==
  ASSUME IInv, DeleteBalancer, UNCHANGED Rest
  PROVE  IInv'
<1>. USE DEF cloud, disk, Goto
<1>0. TypeOK /\ Needs /\ at \in Step \cup DeleteStep /\ tries \in 0 .. MaxRetries - 1
      /\ stopping \subseteq Instance /\ {"nlb", "listener", "tg"} \subseteq Step
  BY DEF IInv, TypeOK, Step, Balancer
<1>1. CASE NoBalancer \/ BalancerNotFound
  BY <1>0, <1>1, MovePreserves DEF NoBalancer, BalancerNotFound, Early
<1>2. CASE BalancerFound
  BY <1>0, <1>2, MovePreserves DEF BalancerFound, Early
<1>3. CASE BalancerLookupFails
  BY <1>0, <1>3, QuitPreserves DEF BalancerLookupFails, Deleting, Early, Needs
<1>4. CASE DeleteNLBPart \/ (DeleteNLB /\ pc' = "terminate")
  <2>1. PICK r \in Balancer : Deleted(r) \/ Failed(r)
    BY <1>4 DEF DeleteNLBPart, DeleteNLB, Balancer, Exit
  <2>2. /\ live' \subseteq live /\ links' = links /\ live' \cap Infra = live \cap Infra
        /\ stopping' = stopping /\ enis' = enis /\ known' = known /\ Needs'
    BY <1>0, <2>1, DeletedEffect, FailedEffect
  <2>3. /\ pc = "deleteNLB" /\ pc' \in {"deleteNLB", "terminate"}
        /\ at' \in {"listener", "tg", "nlb"}
        /\ UNCHANGED <<disk, env, cache, tries, rolling>> /\ UNCHANGED Rest
    BY <1>4 DEF DeleteNLBPart, DeleteNLB, Exit
  <2>4. TypeOK' /\ Control'
    BY <2>2, <2>3 DEF IInv, TypeOK, Control, Creating, Place, Step, Balancer, Rest
  <2>5. CreateProgress' /\ DeletionProgress'
    BY <2>2, <2>3
       DEF IInv, CreateProgress, DeletionProgress, Creating, Deleting, Early, ToGo
  <2>6. Books'
    BY <2>2, <2>3, BooksShrink DEF Deleting, Early, Rest
  <2>. QED
    BY <2>2, <2>4, <2>5, <2>6 DEF IInv
<1>5. CASE DeleteNLB /\ pc' # "terminate"
  <2>1. pc = "deleteNLB" /\ Failed("nlb") /\ Exit /\ UNCHANGED <<disk, rolling>>
    BY <1>5 DEF DeleteNLB
  <2>2. /\ live' \subseteq live /\ links' = links /\ live' \cap Infra = live \cap Infra
        /\ stopping' = stopping /\ enis' = enis /\ known' = known /\ Needs'
    BY <1>0, <2>1, FailedEffect DEF Balancer
  <2>. QED
    BY <1>0, <2>1, <2>2, QuitPreserves DEF Deleting, Early
<1>. QED
  BY <1>1, <1>2, <1>3, <1>4, <1>5 DEF DeleteBalancer

\* The instances' phase.
LEMMA InstancesPreserve ==
  ASSUME IInv, DeleteInstances, UNCHANGED Rest
  PROVE  IInv'
<1>. USE DEF cloud, disk, Goto
<1>0. /\ TypeOK /\ Needs /\ at \in Step \cup DeleteStep /\ tries \in 0 .. MaxRetries - 1
      /\ stopping \subseteq Instance /\ cache \in SUBSET Held
      /\ {"Terminating", "DegradedEC2"} \subseteq Condition
  BY DEF IInv, TypeOK, Condition
<1>1. CASE NoInstances \/ AwaitTermination \/ DrainENIs
  BY <1>0, <1>1, MovePreserves DEF NoInstances, AwaitTermination, DrainENIs, Early
<1>2. CASE AnnounceTermination
  <2>1. /\ pc = "terminate" /\ pc' = "terminateCall" /\ at' = at
        /\ UNCHANGED <<cloud, env, cache, tries, rolling>> /\ UNCHANGED Rest
        /\ exists' \in BOOLEAN /\ torn' \in BOOLEAN /\ file' \in Status
        /\ torn => torn'
        /\ Logged(cache, "Terminating")
    BY <1>0, <1>2, LoggedUpdateEffect DEF AnnounceTermination
  <2>2. file'.props \subseteq Held
    BY <2>1, <1>0, NoStatusType DEF IInv, Control, Logged, Written
  <2>3. TypeOK' /\ Control'
    BY <2>1, <2>2 DEF IInv, TypeOK, Control, Creating, Place, Rest
  <2>4. CreateProgress' /\ Needs' /\ DeletionProgress'
    BY <2>1 DEF IInv, CreateProgress, Needs, DeletionProgress, Creating, Deleting, Early, ToGo
  <2>5. Books'
    BY <2>1, BooksLogged DEF Deleting, Early, Rest
  <2>. QED
    BY <2>3, <2>4, <2>5 DEF IInv
<1>3. CASE TerminateInstances \/ TerminateRetry
  <2>1. stopping' \subseteq Instance /\ UNCHANGED <<live, links, enis, known>>
    BY <1>0, <1>3 DEF TerminateInstances, TerminateRetry, Terminated, InstanceIDs
  <2>2. tries' \in 0 .. MaxRetries - 1
    BY <1>0, <1>3, RetriesAssumption DEF TerminateInstances, TerminateRetry
  <2>. QED
    BY <1>0, <1>3, <2>1, <2>2, MovePreserves DEF TerminateInstances, TerminateRetry, Early
<1>4. CASE TerminateFails
  <2>1. /\ pc = "terminateCall" /\ Exit /\ UNCHANGED rolling /\ UNCHANGED Rest
        /\ exists' \in BOOLEAN /\ torn' \in BOOLEAN /\ file' \in Status
        /\ torn => torn'
        /\ Logged(cache, "DegradedEC2")
    BY <1>0, <1>4, LoggedUpdateEffect DEF TerminateFails
  <2>2. stopping' \subseteq Instance /\ UNCHANGED <<live, links, enis, known>>
    BY <1>0, <1>4 DEF TerminateFails, Terminated, InstanceIDs
  <2>3. file'.props \subseteq Held
    BY <2>1, <1>0, NoStatusType DEF IInv, Control, Logged, Written
  <2>4. TypeOK' /\ Control'
    BY <2>1, <2>2, <2>3, NoTries, NoStatusType
       DEF IInv, TypeOK, Control, Creating, Place, Exit, Rest
  <2>5. CreateProgress' /\ Needs' /\ DeletionProgress'
    BY <2>1, <2>2
       DEF IInv, CreateProgress, Needs, DeletionProgress, Creating, Deleting, Early, Exit
  <2>6. Books'
    BY <2>1, <2>2, BooksLogged DEF Deleting, Early, Exit, Rest
  <2>. QED
    BY <2>4, <2>5, <2>6 DEF IInv
<1>5. CASE AwaitTimeout
  BY <1>0, <1>5, QuitPreserves DEF AwaitTimeout, Deleting, Early, Needs
<1>. QED
  BY <1>1, <1>2, <1>3, <1>4, <1>5 DEF DeleteInstances

\* Nothing is left of what the file of a finished deletion names, nor any
\* node or balancer: those cannot outlive the VPC.
LEMMA FinishedMeansGone ==
  ASSUME IInv, ~torn, pc \in {"finish", "deleted"}
  PROVE  AllGone
<1>1. cache \cap live \cap Infra = {}
  BY DEF IInv, DeletionProgress, Deleting, Early, ToGo
<1>2. \A r \in Infra : r \in file.props => r \in cache
  BY DEF IInv, Books, DeletionKnowsFile, Deleting, Early, Ids, Infra
<1>3. live \cap (file.props \cap Infra) = {}
  BY <1>1, <1>2
<1>4. "vpc" \in live => live \subseteq {"vpc"}
  BY <1>3 DEF IInv, Books, Tracked, Infra
<1>5. live \cap (Instance \cup {"nlb", "listener"}) = {}
  <2>1. "pubsubnet" \notin live /\ "nlb" \notin live
    BY <1>4 DEF IInv, Needs, Infra
  <2>. QED
    BY <2>1 DEF IInv, Needs
<1>6. file.props \subseteq Infra \cup {"sg"} \cup Instance /\ "sg" \notin live
  BY Names DEF IInv, Control, TypeOK, Infra, Balancer
<1>. QED
  BY <1>3, <1>5, <1>6 DEF AllGone

\* The groups', the network's and the last phase.
LEMMA ResourcesPreserve ==
  ASSUME IInv, DeleteResources, UNCHANGED Rest
  PROVE  IInv'
<1>. USE DEF cloud, disk, Goto
<1>0. /\ TypeOK /\ Needs /\ at \in Step \cup DeleteStep /\ tries \in 0 .. MaxRetries - 1
      /\ stopping \subseteq Instance /\ cache \in SUBSET Held
      /\ {"DeletingGroups", "DeletingVPC", "DegradedGroup", "Terminated"} \subseteq Condition
  BY DEF IInv, TypeOK, Condition
<1>1. CASE DeleteSecurityGroups
  <2>1. /\ pc = "groups" /\ pc' = "delete" /\ at' = "workersg" /\ links' \subseteq links
        /\ UNCHANGED <<live, stopping, enis, known, env, cache, tries, rolling>>
        /\ UNCHANGED Rest
        /\ exists' \in BOOLEAN /\ torn' \in BOOLEAN /\ file' \in Status
        /\ torn => torn'
        /\ Logged(cache, "DeletingGroups")
    BY <1>0, <1>1, LoggedUpdateEffect DEF DeleteSecurityGroups
  <2>2. file'.props \subseteq Held
    BY <2>1, <1>0, NoStatusType DEF IInv, Control, Logged, Written
  <2>3. TypeOK' /\ Control'
    BY <2>1, <2>2
       DEF IInv, TypeOK, Control, Creating, Place, DeleteStep, GroupSteps, Rest
  <2>4. CreateProgress' /\ Needs' /\ DeletionProgress'
    BY <2>1 DEF IInv, CreateProgress, Needs, DeletionProgress, Creating, Deleting, Early, ToGo
  <2>5. Books'
    <3>. SUFFICES ASSUME ~torn' PROVE Books'
      BY DEF Books
    <3>1. file.cond = "Available" => file'.cond = "DeletingGroups"
      BY <2>1 DEF IInv, Books, Conditions, Deleting, Early, Logged, Written, Unmodified
    <3>. QED
      BY <2>1, <3>1, BooksLogged DEF Deleting, Early, Rest
  <2>. QED
    BY <2>3, <2>4, <2>5 DEF IInv
<1>2. CASE DeleteVPCResources
  <2>1. /\ pc = "network" /\ pc' = "delete" /\ at' = "pubsubnet"
        /\ UNCHANGED <<cloud, env, cache, tries, rolling>> /\ UNCHANGED Rest
        /\ exists' \in BOOLEAN /\ torn' \in BOOLEAN /\ file' \in Status
        /\ torn => torn'
        /\ Logged(cache, "DeletingVPC")
    BY <1>0, <1>2, LoggedUpdateEffect DEF DeleteVPCResources
  <2>2. file'.props \subseteq Held
    BY <2>1, <1>0, NoStatusType DEF IInv, Control, Logged, Written
  <2>3. TypeOK' /\ Control'
    BY <2>1, <2>2
       DEF IInv, TypeOK, Control, Creating, Place, DeleteStep, NetworkSteps, Rest
  <2>4. CreateProgress' /\ Needs' /\ DeletionProgress'
    BY <2>1 DEF IInv, CreateProgress, Needs, DeletionProgress, Creating, Deleting, Early, ToGo
  <2>5. Books'
    BY <2>1, BooksLogged DEF Deleting, Early, Rest
  <2>. QED
    BY <2>3, <2>4, <2>5 DEF IInv
<1>3. CASE SkipStep \/ StepSucceeds
  <2>1. /\ pc = "delete" /\ at \in DeleteStep /\ at \in Step \cup DeleteStep
        /\ cache' \subseteq cache /\ Ids(cache') = Ids(cache)
        /\ UNCHANGED <<disk, env, rolling>> /\ UNCHANGED Rest
        /\ tries' \in 0 .. MaxRetries - 1
    BY <1>0, <1>3, NoTries DEF IInv, Control, SkipStep, StepSucceeds, Runs, Ids
  <2>2. /\ live' \subseteq live /\ links' \subseteq links
        /\ stopping' = stopping /\ enis' = enis /\ known' = known /\ Needs'
        /\ at \notin {"detach", "sg"} => at \notin cache' \cap live'
        /\ at = "detach" => "igw-vpc" \notin links' \/ ~({"igw", "vpc"} \subseteq cache')
    <3>1. CASE SkipStep
      BY <1>0, <3>1 DEF SkipStep, Applies, Needs
    <3>2. CASE StepSucceeds
      BY <1>0, <3>2, <2>1, DeletedEffect DEF StepSucceeds
    <3>. QED
      BY <1>3, <3>1, <3>2
  <2>3. StepDone(at)
    BY <1>3 DEF SkipStep, StepSucceeds
  <2>4. /\ pc' \in {"delete", "network", "finish"} /\ (pc' = "delete" => at' \in DeleteStep)
        /\ at' \in Step \cup DeleteStep
    BY <1>0, <2>1, <2>3, StepDoneEffect DEF DeleteStep, GroupSteps, NetworkSteps
  <2>5. TypeOK' /\ Control'
    BY <2>1, <2>2, <2>4 DEF IInv, TypeOK, Control, Creating, Place, Rest
  <2>6. CreateProgress'
    BY <2>4 DEF CreateProgress, Creating
  <2>7. DeletionProgress'
    <3>1. cache' \cap live' \cap Infra \subseteq ToGo'
      BY <1>0, <2>1, <2>2, <2>3, StepDoneEffect
         DEF IInv, DeletionProgress, Deleting, Early, ToGo, Infra
    <3>2. pc' = "delete" /\ at' = "igw" => at = "detach"
      BY <1>0, <2>1, <2>3, StepDoneEffect
    <3>. QED
      BY <2>2, <3>1, <3>2 DEF DeletionProgress
  <2>8. Books'
    BY <2>1, <2>2, <2>4, BooksShrink DEF Deleting, Early, Rest
  <2>. QED
    BY <2>2, <2>5, <2>6, <2>7, <2>8 DEF IInv
<1>4. CASE StepRetried
  <2>1. /\ pc = "delete" /\ pc' = pc /\ at' = at /\ at \in DeleteStep
        /\ UNCHANGED <<disk, env, cache, rolling>> /\ UNCHANGED Rest
        /\ tries' \in 0 .. MaxRetries - 1
    BY <1>0, <1>4, RetriesAssumption DEF IInv, Control, StepRetried, Runs
  <2>2. /\ live' \subseteq live /\ links' \subseteq links
        /\ stopping' = stopping /\ enis' = enis /\ known' = known /\ Needs'
    BY <1>0, <1>4, <2>1, FailedEffect DEF StepRetried
  <2>3. TypeOK' /\ Control'
    BY <2>1, <2>2 DEF IInv, TypeOK, Control, Creating, Rest
  <2>4. CreateProgress' /\ DeletionProgress'
    BY <2>1, <2>2
       DEF IInv, CreateProgress, DeletionProgress, Creating, Deleting, Early, ToGo
  <2>5. Books'
    BY <2>1, <2>2, BooksShrink DEF Deleting, Early, Rest
  <2>. QED
    BY <2>2, <2>3, <2>4, <2>5 DEF IInv
<1>5. CASE StepFails
  <2>1. /\ pc = "delete" /\ at \in DeleteStep /\ Exit /\ UNCHANGED rolling
        /\ UNCHANGED Rest
    BY <1>0, <1>5 DEF IInv, Control, StepFails, Runs, TypeOK
  <2>2. /\ live' \subseteq live /\ links' \subseteq links
        /\ stopping' = stopping /\ enis' = enis /\ known' = known /\ Needs'
    BY <1>0, <1>5, <2>1, FailedEffect DEF StepFails
  <2>3. CASE UNCHANGED disk
    BY <1>0, <2>1, <2>2, <2>3, QuitPreserves DEF Deleting, Early
  <2>4. CASE LoggedUpdate(cache, "DegradedGroup")
    <3>1. /\ exists' \in BOOLEAN /\ torn' \in BOOLEAN /\ file' \in Status
          /\ torn => torn'
          /\ Logged(cache, "DegradedGroup")
      BY <1>0, <2>4, LoggedUpdateEffect
    <3>2. file'.props \subseteq Held
      BY <3>1, <1>0, NoStatusType DEF IInv, Control, Logged, Written
    <3>3. TypeOK' /\ Control'
      BY <2>1, <2>2, <3>1, <3>2, NoTries, NoStatusType
         DEF IInv, TypeOK, Control, Creating, Place, Exit, Rest
    <3>4. CreateProgress' /\ DeletionProgress'
      BY <2>1 DEF IInv, CreateProgress, DeletionProgress, Creating, Deleting, Early, Exit
    <3>5. Books'
      BY <2>1, <2>2, <3>1, BooksLogged DEF Deleting, Early, Exit, Rest
    <3>. QED
      BY <2>2, <3>3, <3>4, <3>5 DEF IInv
  <2>. QED
    BY <1>5, <2>3, <2>4 DEF StepFails
<1>6. CASE Finish
  <2>1. CASE pc' = "deleted"
    <3>1. /\ pc = "finish" /\ at' = at
          /\ UNCHANGED <<cloud, env, cache, tries, rolling>> /\ UNCHANGED Rest
          /\ exists' \in BOOLEAN /\ torn' = torn /\ file' \in Status
          /\ \/ file' = file /\ exists' = exists /\ Unmodified(cache, "Terminated")
             \/ Written(cache, "Terminated")
      BY <1>0, <1>6, <2>1, UpdateStatusEffect DEF Finish, Exit
    <3>2. file'.props \subseteq Held
      BY <3>1, <1>0, NoStatusType DEF IInv, Control, Written
    <3>3. TypeOK' /\ Control'
      BY <2>1, <3>1, <3>2 DEF IInv, TypeOK, Control, Creating, Place, Rest
    <3>4. CreateProgress' /\ Needs' /\ DeletionProgress'
      BY <2>1, <3>1
         DEF IInv, CreateProgress, Needs, DeletionProgress, Creating, Deleting, Early, ToGo
    <3>5. Books'
      <4>. SUFFICES ASSUME ~torn PROVE Books'
        BY <3>1 DEF Books
      <4>. DeletionKnowsFile /\ Tracked /\ Conditions /\ AllGone
        BY <3>1, FinishedMeansGone DEF IInv, Books
      <4>1. Ids(file'.props) = Ids(cache) /\ Ids(file'.props) = Ids(file.props)
        BY <3>1 DEF DeletionKnowsFile, Deleting, Early, Written
      <4>2. DeletionKnowsFile'
        BY <3>1, <4>1 DEF DeletionKnowsFile, Deleting, Early
      <4>3. \A r \in Infra : r \in file'.props <=> r \in file.props
        BY <4>1 DEF Ids, Infra
      <4>4. Tracked'
        BY <2>1, <3>1, <4>3 DEF Tracked, Creating, Deleting, Early, Infra, Rest
      <4>5. AllGone'
        <5>1. file'.props \subseteq file.props \cup {"sg"}
          BY <4>1 DEF Ids
        <5>2. "sg" \notin live
          BY <1>0, Names DEF TypeOK, Infra, Balancer
        <5>. QED
          BY <3>1, <5>1, <5>2 DEF AllGone
      <4>6. file.cond # "Available" /\ file'.cond # "Available"
        BY <3>1 DEF Conditions, Deleting, Early, Written
      <4>7. IF exists' THEN file'.saved ELSE file' = NoStatus
        BY <3>1 DEF Conditions, Written
      <4>. QED
        BY <2>1, <4>2, <4>4, <4>5, <4>6, <4>7 DEF Books, Conditions, Creating
    <3>. QED
      BY <3>3, <3>4, <3>5 DEF IInv
  <2>2. CASE pc' # "deleted"
    <3>1. /\ pc = "finish" /\ WriteFails /\ Exit
          /\ UNCHANGED <<cloud, rolling>> /\ UNCHANGED Rest
      BY <1>6, <2>2 DEF Finish
    <3>2. /\ exists' \in BOOLEAN /\ torn' /\ torn' \in BOOLEAN /\ file' \in Status
          /\ file'.props \subseteq Held
      BY <3>1, <1>0, NoStatusType DEF WriteFails, IInv, TypeOK, Control
    <3>3. TypeOK' /\ Control'
      BY <3>1, <3>2, NoTries, NoStatusType
         DEF IInv, TypeOK, Control, Creating, Place, Exit, Rest
    <3>4. CreateProgress' /\ Needs' /\ DeletionProgress' /\ Books'
      BY <3>1, <3>2
         DEF IInv, CreateProgress, Needs, DeletionProgress, Books, Creating, Deleting,
             Early, Exit
    <3>. QED
      BY <3>3, <3>4 DEF IInv
  <2>. QED
    BY <2>1, <2>2
<1>7. CASE Deregister
  <2>1. CASE UNCHANGED disk
    BY <1>0, <1>7, <2>1, QuitPreserves DEF Deregister, Deleting, Early, Needs
  <2>2. CASE RemoveFile
    <3>1. /\ pc = "deleted" /\ Exit /\ UNCHANGED <<cloud, rolling>> /\ UNCHANGED Rest
          /\ exists' \in BOOLEAN /\ ~exists' /\ file' = NoStatus /\ torn' = torn
      BY <1>7, <2>2 DEF Deregister, RemoveFile
    <3>2. TypeOK' /\ Control'
      BY <3>1, NoTries, NoStatusType
         DEF IInv, TypeOK, Control, Creating, Place, Exit, Rest
    <3>3. CreateProgress' /\ Needs' /\ DeletionProgress'
      BY <3>1
         DEF IInv, CreateProgress, Needs, DeletionProgress, Creating, Deleting, Early, Exit
    <3>4. Books'
      <4>. SUFFICES ASSUME ~torn PROVE Books'
        BY <3>1 DEF Books
      <4>. Tracked /\ AllGone
        BY <3>1, FinishedMeansGone DEF IInv, Books
      <4>1. Tracked'
        BY <3>1, NoStatusType DEF Tracked, AllGone, Creating, Exit, Rest, Infra
      <4>2. DeletionKnowsFile' /\ Conditions'
        BY <3>1, NoStatusType DEF DeletionKnowsFile, Conditions, Creating, Deleting, Early, Exit
      <4>. QED
        BY <4>1, <4>2 DEF Books
    <3>. QED
      BY <3>2, <3>3, <3>4 DEF IInv
  <2>. QED
    BY <1>7, <2>1, <2>2 DEF Deregister
<1>. QED
  BY <1>1, <1>2, <1>3, <1>4, <1>5, <1>6, <1>7 DEF DeleteResources

-----------------------------------------------------------------------------
(* Every other step preserves the invariant                                *)

\* A step of CreateCluster is no step of a deletion.
LEMMA NoDeletion ==
  ASSUME pc' \in Creating \cup {"idle"}
  PROVE  DeletionProgress' /\ DeletionKnowsFile'
BY DEF DeletionProgress, DeletionKnowsFile, Creating, Deleting, Early

\* A step of CreateCluster that leaves the file alone keeps what it promises:
\* nothing but progress.
LEMMA ConditionsKept ==
  ASSUME Conditions, pc \in Creating, UNCHANGED <<file, exists>>, pc' \in Creating \cup {"idle"}
  PROVE  Conditions'
BY DEF Conditions, Complete, AllGone, Creating, Deleting, Early

\* A status that CreateCluster has written names what its cache holds.
LEMMA CreateWrites ==
  ASSUME IInv, pc \in Creating, NEW k \in {"Creating", "Degraded"}, LoggedUpdate(cache, k)
  PROVE  /\ exists' \in BOOLEAN /\ torn' \in BOOLEAN /\ file' \in Status
         /\ torn => torn'
         /\ file'.props \subseteq Held
         /\ ~torn' => exists' /\ file'.saved /\ file'.cond = k /\ file'.props = cache
<1>1. TypeOK /\ cache \in SUBSET Held /\ k \in Condition /\ env = NoStatus
  BY DEF IInv, TypeOK, Control, Condition
<1>2. /\ exists' \in BOOLEAN /\ torn' \in BOOLEAN /\ file' \in Status
      /\ torn => torn'
      /\ Logged(cache, k)
  BY <1>1, LoggedUpdateEffect
<1>. QED
  BY <1>1, <1>2, NoStatusType DEF Logged, Written, Unmodified, IInv, Control

\* CreateCluster up to the nodes.
LEMMA CreatePreserves ==
  ASSUME IInv,
         StartCreate \/ CreateResource \/ CreateFails \/ CompleteResource \/ CompleteFails
           \/ RecordProgress \/ Configure \/ LaunchPool
  PROVE  IInv'
<1>. USE DEF cloud, disk, Goto
<1>0. TypeOK /\ Control /\ CreateProgress /\ Needs /\ Books
  BY DEF IInv
<1>1. CASE StartCreate
  <2>1. /\ pc = "idle" /\ mode = "none" /\ mode' \in Modes
        /\ env' = NoStatus /\ cache' = {} /\ pc' = "create" /\ at' = "vpc"
        /\ UNCHANGED <<cloud, tries, rolling, node, members, crashed>>
    BY <1>1 DEF StartCreate
  <2>2. /\ live = {} /\ links = {} /\ enis = {} /\ members = {} /\ file = NoStatus
        /\ ~exists /\ env = NoStatus /\ ~crashed
    BY <1>0, <2>1 DEF Control
  <2>3. /\ exists' \in BOOLEAN /\ torn' \in BOOLEAN /\ file' \in Status
        /\ torn => torn'
        /\ Logged({}, "Creating")
    BY <1>0, <1>1, <2>1, LoggedUpdateEffect DEF StartCreate, Condition
  <2>4. /\ file'.props = {} /\ file'.cond \in {"none", "Creating"}
        /\ ~torn' => (IF exists' THEN file'.saved ELSE file' = NoStatus)
    BY <2>2, <2>3, NoStatusType, <1>0 DEF Logged, Written, Unmodified, Control, Books, Conditions
  <2>5. TypeOK' /\ Control'
    BY <1>0, <2>1, <2>2, <2>3, <2>4, NoStatusType, ModesAssumption
       DEF TypeOK, Control, Creating, Place, Step, Infra, Balancer
  <2>6. CreateProgress' /\ Needs' /\ DeletionProgress'
    BY <2>1, <2>2, NoDeletion, Names
       DEF CreateProgress, Holds, Made, Linked, Joined, Needs, Creating, Infra
  <2>7. Books'
    <3>1. Tracked'
      BY <2>1, <2>2, <2>4 DEF Tracked, Infra, Creating
    <3>2. torn' \/ Conditions'
      BY <2>1, <2>4 DEF Conditions, Deleting, Early
    <3>. QED
      BY <2>1, <3>1, <3>2, NoDeletion DEF Books, Creating
  <2>. QED
    BY <2>5, <2>6, <2>7 DEF IInv
<1>2. CASE CreateResource
  <2>1. /\ pc = "create" /\ pc' = "complete" /\ at' = at /\ at \in Infra \cup Balancer
        /\ live' = live \cup {at}
        /\ cache' = cache \cup (Infra \cap {at}) \cup (IF at = "cpsg" THEN {"sg"} ELSE {})
        /\ members' = members \cup ({"nlb", "tg"} \cap {at})
        /\ UNCHANGED <<links, stopping, enis, known, disk, env, tries, rolling, mode, node,
                       crashed>>
    BY <1>2 DEF CreateResource
  <2>2. /\ at \in Step \ {"status"} /\ (at \in Balancer => HA)
        /\ Made(NextCreate(at)) = Made(at) \cup (Infra \cap {at})
        /\ Joined(NextCreate(at)) = Joined(at) \cup ({"nlb", "tg"} \cap {at})
    <3>1. at \in Step \ {"status", "cps", "workers"} /\ (at \in Balancer => HA)
      BY <1>0, <2>1 DEF Control, Creating, Step, Infra, Balancer
    <3>. QED
      BY <3>1, Advance
  <2>3. Holds(at) /\ links = Linked(at) /\ members = Joined(at)
    BY <1>0, <2>1 DEF CreateProgress
  <2>4. TypeOK' /\ Control'
    BY <1>0, <2>1, Names
       DEF TypeOK, Control, Creating, Place, Step, Held, Balancer
  <2>5. CreateProgress'
    BY <1>0, <2>1, <2>2, <2>3, Names DEF CreateProgress, Holds, Creating, Infra, Balancer
  <2>6. at \notin {"vpc"} => "vpc" \in live
    BY <2>1, <2>3 DEF Holds, Made, Infra, Balancer
  <2>7. /\ at = "listener" => "nlb" \in live
        /\ at = "nlb" => "pubsubnet" \in live
    BY <1>0, <2>1, <2>3 DEF CreateProgress, Creating, Joined, Holds, Made, Infra
  <2>8. Needs'
    BY <1>0, <2>1, <2>6, <2>7, Names DEF Needs
  <2>9. Books'
    <3>. SUFFICES ASSUME ~torn PROVE Books'
      BY <2>1 DEF Books
    <3>1. Tracked'
      <4>1. live \cap Infra \subseteq file.props
        BY <1>0, <2>1 DEF Books, Tracked
      <4>2. at = "vpc" => live = {}
        BY <1>0, <2>1 DEF CreateProgress
      <4>3. "vpc" \in live => "vpc" \in file.props
        BY <4>1 DEF Infra
      <4>4. \E r \in Infra : live' \cap Infra \subseteq file.props \cup {r}
        BY <2>1, <4>1 DEF Infra, Balancer
      <4>. QED
        BY <2>1, <2>6, <4>1, <4>2, <4>3, <4>4 DEF Tracked, Creating
    <3>2. Conditions'
      BY <1>0, <2>1, ConditionsKept DEF Books, Creating
    <3>. QED
      BY <2>1, <3>1, <3>2, NoDeletion DEF Books, Creating
  <2>. QED
    BY <2>1, <2>4, <2>5, <2>8, <2>9, NoDeletion DEF IInv, Creating
<1>3. CASE CreateFails
  <2>1. /\ pc = "create" /\ pc' = "degrade" /\ at' = at
        /\ UNCHANGED <<cloud, disk, env, cache, tries, rolling, mode, node, members, crashed>>
    BY <1>3 DEF CreateFails
  <2>2. TypeOK' /\ Control'
    BY <1>0, <2>1 DEF TypeOK, Control, Creating, Place
  <2>3. CreateProgress' /\ Needs'
    BY <1>0, <2>1 DEF CreateProgress, Needs, Creating
  <2>4. Books'
    BY <1>0, <2>1, ConditionsKept, NoDeletion DEF Books, Tracked, Creating
  <2>. QED
    BY <2>1, <2>2, <2>3, <2>4, NoDeletion DEF IInv, Creating
<1>4. CASE CompleteResource \/ CompleteFails
  <2>1. /\ pc = "complete" /\ pc' \in {"record", "degrade"} /\ at' = at
        /\ at \in Infra \cup Balancer
        /\ links' \subseteq links \cup UNION FollowUps(at)
        /\ pc' = "record" => links' = links \cup UNION FollowUps(at)
        /\ UNCHANGED <<live, stopping, enis, known, disk, env, cache, tries, rolling, mode,
                       node, members, crashed>>
    <3>1. CASE CompleteResource
      BY <1>0, <3>1 DEF CompleteResource, Control
    <3>2. CASE CompleteFails
      BY <1>0, <3>2, AllFollowUps DEF CompleteFails, Control
    <3>. QED
      BY <1>4, <3>1, <3>2
  <2>2. /\ at \in Step \ {"status"} /\ (at \in Balancer => HA)
        /\ Made(NextCreate(at)) = Made(at) \cup (Infra \cap {at})
        /\ Linked(NextCreate(at)) = Linked(at) \cup UNION FollowUps(at)
    <3>1. at \in Step \ {"status"} /\ (at \in Balancer => HA)
      BY <1>0, <2>1 DEF Control, Creating, Step, Infra, Balancer
    <3>. QED
      BY <3>1, Advance
  <2>3. TypeOK' /\ Control'
    BY <1>0, <2>1, <2>2, AllFollowUps DEF TypeOK, Control, Creating, Place, Link, AllLinks
  <2>4. CreateProgress'
    BY <1>0, <2>1, <2>2 DEF CreateProgress, Holds, Creating
  <2>5. /\ at \in Infra => at \in live
        /\ at # "vpc" => "vpc" \in live
        /\ at = "pubrtb" => "pubsubnet" \in live
    BY <1>0, <2>1, <2>2 DEF CreateProgress, Holds, Made, Infra, Balancer
  <2>6. Needs'
    BY <1>0, <2>1, <2>5, AllFollowUps DEF Needs, Infra
  <2>7. Books'
    BY <1>0, <2>1, ConditionsKept, NoDeletion DEF Books, Tracked, Creating
  <2>. QED
    BY <2>1, <2>3, <2>4, <2>6, <2>7, NoDeletion DEF IInv, Creating
<1>5. CASE RecordProgress
  <2>1. /\ pc = "record" /\ pc' = "create" /\ at' = NextCreate(at)
        /\ UNCHANGED <<cloud, env, cache, tries, rolling, mode, node, members, crashed>>
    BY <1>5 DEF RecordProgress
  <2>2. /\ at \in Step \ {"status"} /\ (at \in Balancer => HA)
        /\ at' \in Step /\ at' # "vpc" /\ (at' \in Balancer => HA)
    <3>1. at \in Step \ {"status"} /\ (at \in Balancer => HA)
      BY <1>0, <2>1 DEF Control, Creating
    <3>. QED
      BY <2>1, <3>1, Advance
  <2>3. CreateProgress' /\ Needs'
    BY <1>0, <2>1, <2>2 DEF CreateProgress, Holds, Needs, Creating
  <2>4. live \cap Infra \subseteq cache
    BY <1>0, <2>1 DEF CreateProgress, Creating
  <2>5. CASE at \in {"nlb", "tg", "targets"} /\ UNCHANGED disk
    <3>1. TypeOK' /\ Control'
      BY <1>0, <2>1, <2>2, <2>5 DEF TypeOK, Control, Creating, Place
    <3>2. Books'
      BY <1>0, <2>1, <2>5, ConditionsKept, NoDeletion DEF Books, Tracked, Creating, Infra
    <3>. QED
      BY <2>1, <2>3, <3>1, <3>2, NoDeletion DEF IInv, Creating
  <2>6. CASE LoggedUpdate(cache, "Creating")
    <3>1. /\ exists' \in BOOLEAN /\ torn' \in BOOLEAN /\ file' \in Status
          /\ torn => torn'
          /\ file'.props \subseteq Held
          /\ ~torn' => exists' /\ file'.saved /\ file'.cond = "Creating" /\ file'.props = cache
      BY <2>1, <2>6, CreateWrites DEF Creating
    <3>2. TypeOK' /\ Control'
      BY <1>0, <2>1, <2>2, <3>1 DEF TypeOK, Control, Creating, Place
    <3>3. Books'
      BY <2>1, <2>4, <3>1, NoDeletion DEF Books, Tracked, Conditions, Creating, Deleting, Early, Infra
    <3>. QED
      BY <2>1, <2>3, <3>2, <3>3, NoDeletion DEF IInv, Creating
  <2>. QED
    BY <1>5, <2>5, <2>6 DEF RecordProgress
<1>6. CASE Configure
  <2>1. /\ pc = "create" /\ pc' = "record" /\ at' = at /\ at \in {"targets", "check"}
        /\ UNCHANGED <<cloud, disk, env, cache, tries, rolling, mode, node, members, crashed>>
    BY <1>6 DEF Configure
  <2>2. /\ Made(NextCreate(at)) = Made(at) /\ Linked(NextCreate(at)) = Linked(at)
        /\ Joined(NextCreate(at)) = Joined(at)
    <3>1. /\ at \in Step \ {"status"} /\ at \notin Infra \cup Balancer
          /\ at \notin {"cps", "workers", "igw", "pubrtb", "workersg"}
      BY <2>1 DEF Step, Infra, Balancer
    <3>2. UNION FollowUps(at) = {} /\ Infra \cap {at} = {} /\ {"nlb", "tg"} \cap {at} = {}
      BY <3>1, AllFollowUps DEF Balancer
    <3>. QED
      BY <3>1, <3>2, Advance, ZenonT(30)
  <2>3. TypeOK' /\ Control'
    BY <1>0, <2>1 DEF TypeOK, Control, Creating, Place
  <2>4. CreateProgress' /\ Needs'
    BY <1>0, <2>1, <2>2 DEF CreateProgress, Holds, Needs, Creating
  <2>5. Books'
    BY <1>0, <2>1, ConditionsKept, NoDeletion DEF Books, Tracked, Creating
  <2>. QED
    BY <2>1, <2>3, <2>4, <2>5, NoDeletion DEF IInv, Creating
<1>7. CASE LaunchPool
  <2>1. /\ pc = "create" /\ pc' = "launch" /\ at' = at /\ at \in {"cps", "workers"}
        /\ UNCHANGED <<cloud, disk, env, cache, tries, rolling, mode, node, members, crashed>>
    BY <1>7 DEF LaunchPool, Pool
  <2>2. TypeOK' /\ Control'
    BY <1>0, <2>1 DEF TypeOK, Control, Creating, Place
  <2>3. CreateProgress' /\ Needs'
    BY <1>0, <2>1 DEF CreateProgress, Holds, Needs, Creating
  <2>4. Books'
    BY <1>0, <2>1, ConditionsKept, NoDeletion DEF Books, Tracked, Creating
  <2>. QED
    BY <2>1, <2>2, <2>3, <2>4, NoDeletion DEF IInv, Creating
<1>. QED
  BY <1>1, <1>2, <1>3, <1>4, <1>5, <1>6, <1>7

\* The goroutines of a pool, and their end.
LEMMA PoolPreserves ==
  ASSUME IInv, Launch \/ PoolReady \/ PoolFails
  PROVE  IInv'
<1>. USE DEF cloud, disk, proc, Goto
<1>0. TypeOK /\ Control /\ CreateProgress /\ Needs /\ Books
  BY DEF IInv
<1>1. pc = "launch" /\ at \in {"cps", "workers"} /\ Pool[at] \subseteq Instance
  <2>1. pc = "launch"
    BY DEF Launch, LaunchNode, NodeRuns, NodeFails, PoolReady, PoolFails
  <2>. QED
    BY <1>0, <2>1, Names DEF Control, Pool
<1>2. /\ Holds(at) /\ links = Linked(at) /\ members = Joined(at) /\ Infra \subseteq live
      /\ {"vpc", "pubsubnet"} \subseteq live /\ at \notin Infra \cup Balancer
  BY <1>0, <1>1 DEF CreateProgress, Holds, Made, Infra, Balancer
<1>3. ~torn => Infra \subseteq file.props
  BY <1>0, <1>1, <1>2 DEF Books, Tracked
<1>4. CASE Launch
  <2>. PICK i \in Instance : LaunchNode(i) \/ NodeRuns(i) \/ NodeFails(i)
    BY <1>4 DEF Launch
  <2>1. /\ live \subseteq live' /\ live' \subseteq live \cup {i}
        /\ enis \subseteq enis' /\ enis' \subseteq enis \cup {i} /\ (i \in live' => i \in enis')
        /\ known' \subseteq known \cup {i}
        /\ node' \in [Instance -> {"none", "launched", "running", "failed"}]
        /\ UNCHANGED <<links, stopping, disk, proc, rolling, mode, members, crashed>>
    BY <1>0 DEF LaunchNode, NodeRuns, NodeFails, TypeOK, Needs
  <2>2. i \notin Infra \cup Balancer
    BY Names
  <2>3. TypeOK' /\ Control'
    BY <1>0, <1>1, <2>1 DEF TypeOK, Control, Creating
  <2>4. CreateProgress' /\ Needs'
    BY <1>0, <1>1, <1>2, <2>1, <2>2 DEF CreateProgress, Holds, Needs, Creating, Balancer
  <2>5. Books'
    BY <1>0, <1>1, <1>3, <2>1, <2>2, ConditionsKept, NoDeletion
       DEF Books, Tracked, Creating, Infra
  <2>. QED
    BY <1>1, <2>1, <2>3, <2>4, <2>5, NoDeletion DEF IInv, Creating
<1>5. CASE PoolReady
  <2>1. /\ pc' = "record" /\ at' = at /\ members' = members \cup Pool[at]
        /\ cache \subseteq cache' /\ cache' \subseteq cache \cup ControlPlane
        /\ UNCHANGED <<cloud, disk, env, tries, rolling, mode, node, crashed>>
    BY <1>5 DEF PoolReady
  <2>2. /\ Made(NextCreate(at)) = Made(at) /\ Linked(NextCreate(at)) = Linked(at)
        /\ Joined(NextCreate(at)) = Joined(at) \cup Pool[at]
    <3>1. /\ at \in Step \ {"status"} /\ at \notin {"igw", "pubrtb", "workersg"}
      BY <1>1 DEF Step
    <3>2. UNION FollowUps(at) = {} /\ Infra \cap {at} = {} /\ {"nlb", "tg"} \cap {at} = {}
      BY <1>2, <3>1, AllFollowUps DEF Balancer
    <3>3. /\ Made(NextCreate(at)) = Made(at) \cup (Infra \cap {at})
          /\ Joined(NextCreate(at)) = Joined(at) \cup ({"nlb", "tg"} \cap {at})
                                       \cup (IF at \in {"cps", "workers"} THEN Pool[at] ELSE {})
          /\ Linked(NextCreate(at)) = Linked(at) \cup UNION FollowUps(at)
      BY <1>2, <3>1, Advance
    <3>. QED
      BY <1>1, <3>2, <3>3
  <2>3. cache' \cap Infra = cache \cap Infra /\ "nlb" \notin Pool[at]
    BY <1>1, <2>1, Names DEF Balancer
  <2>4. TypeOK' /\ Control'
    BY <1>0, <1>1, <2>1, Names DEF TypeOK, Control, Creating, Place, Step
  <2>5. CreateProgress' /\ Needs'
    BY <1>0, <1>1, <1>2, <2>1, <2>2, <2>3 DEF CreateProgress, Holds, Needs, Creating
  <2>6. Books'
    BY <1>0, <1>1, <2>1, ConditionsKept, NoDeletion DEF Books, Tracked, Creating
  <2>. QED
    BY <2>1, <2>4, <2>5, <2>6, NoDeletion DEF IInv, Creating
<1>6. CASE PoolFails
  <2>1. /\ pc' = "degrade" /\ at' = at
        /\ UNCHANGED <<cloud, disk, env, cache, tries, rolling, mode, node, members, crashed>>
    BY <1>6 DEF PoolFails
  <2>2. TypeOK' /\ Control'
    BY <1>0, <1>1, <2>1 DEF TypeOK, Control, Creating, Place
  <2>3. CreateProgress' /\ Needs'
    BY <1>0, <1>1, <2>1 DEF CreateProgress, Needs, Creating
  <2>4. Books'
    BY <1>0, <1>1, <2>1, ConditionsKept, NoDeletion DEF Books, Tracked, Creating
  <2>. QED
    BY <2>1, <2>2, <2>3, <2>4, NoDeletion DEF IInv, Creating
<1>. QED
  BY <1>4, <1>5, <1>6

\* The end of CreateCluster.
LEMMA EndPreserves ==
  ASSUME IInv, UpdateClusterStatus \/ RecordDegraded
  PROVE  IInv'
<1>. USE DEF cloud, disk, Exit, Forgets
<1>0. TypeOK /\ Control /\ CreateProgress /\ Needs /\ Books
  BY DEF IInv
<1>1. /\ pc \in Creating /\ pc' = "idle" /\ env = NoStatus /\ env' = NoStatus /\ cache' = {}
      /\ tries' = 0 /\ at' = at /\ node' = NoNode /\ members' = {}
      /\ UNCHANGED <<cloud, rolling, mode, crashed>>
  <2>1. pc \in Creating
    BY DEF UpdateClusterStatus, RecordDegraded, Creating
  <2>. QED
    BY <1>0, <2>1 DEF UpdateClusterStatus, RecordDegraded, Control
<1>2. CreateProgress' /\ Needs' /\ DeletionProgress' /\ DeletionKnowsFile'
  BY <1>0, <1>1, NoDeletion DEF CreateProgress, Needs, Creating
<1>3. mode' # "none" /\ ~crashed'
  BY <1>0, <1>1 DEF Control, Creating
<1>4. ASSUME exists' \in BOOLEAN, torn' \in BOOLEAN, file' \in Status, file'.props \subseteq Held
      PROVE  TypeOK' /\ Control'
  BY <1>0, <1>1, <1>3, <1>4, NoTries, NoStatusType
     DEF TypeOK, Control, Creating, Place, NoNode
<1>5. CASE UpdateClusterStatus
  <2>1. CASE WriteFails
    <3>1. /\ exists' \in BOOLEAN /\ torn' /\ torn' \in BOOLEAN /\ file' \in Status
          /\ file'.props \subseteq Held
      BY <1>0, <2>1, NoStatusType DEF WriteFails, TypeOK, Control
    <3>. QED
      BY <1>2, <1>4, <3>1 DEF IInv, Books
  <2>2. CASE WriteFile([Updated(cache, "Available") EXCEPT !.cluster = members \ {"tg"}])
    <3>1. pc = "create" /\ at = "status" /\ cache \in SUBSET Held /\ "Available" \in Condition
      BY <1>0, <1>5 DEF UpdateClusterStatus, TypeOK, Condition
    <3>2. /\ live \cap Infra = Infra /\ cache \cap Infra = Infra
          /\ links = AllLinks /\ members = Balanced \cup Instance
      BY <1>0, <3>1 DEF CreateProgress, Holds, Made, Linked, Joined, Infra
    <3>3. members \ {"tg"} = Instance \cup (IF HA THEN {"nlb"} ELSE {})
      BY <3>2, Names DEF Balanced, Balancer
    <3>4. members \ {"tg"} \in SUBSET Resource
      BY <3>3, Names DEF Balancer
    <3>5. /\ exists' /\ exists' \in BOOLEAN /\ torn' = torn /\ torn' \in BOOLEAN
          /\ file' \in Status /\ file'.saved /\ file'.props = cache
          /\ file'.cond = "Available" /\ file'.cluster = members \ {"tg"}
      <4>1. Updated(cache, "Available") \in Status
            /\ Updated(cache, "Available").saved
            /\ Updated(cache, "Available").props = cache
            /\ Updated(cache, "Available").cond = "Available"
        <5>1. cache \in SUBSET Resource /\ env \in Status /\ ~env.saved
          BY <1>0, <1>1, <3>1, Names, NoStatusType DEF TypeOK
        <5>. QED
          BY <3>1, <5>1, UpdatedFields
      <4>. QED
        BY <1>0, <2>2, <3>4, <4>1 DEF WriteFile, Status, TypeOK
    <3>6. Tracked'
      BY <1>1, <1>3, <3>2, <3>5 DEF Tracked, Creating, Infra
    <3>7. Conditions'
      BY <1>1, <3>2, <3>3, <3>5 DEF Conditions, Complete, Creating, Deleting, Early
    <3>. QED
      BY <1>2, <1>4, <3>1, <3>5, <3>6, <3>7 DEF IInv, Books
  <2>. QED
    BY <1>5, <2>1, <2>2 DEF UpdateClusterStatus
<1>6. CASE RecordDegraded
  <2>1. /\ exists' \in BOOLEAN /\ torn' \in BOOLEAN /\ file' \in Status
        /\ torn => torn'
        /\ file'.props \subseteq Held
        /\ ~torn' => exists' /\ file'.saved /\ file'.cond = "Degraded" /\ file'.props = cache
    BY <1>1, <1>6, CreateWrites DEF RecordDegraded
  <2>2. live \cap Infra \subseteq cache
    BY <1>0, <1>1 DEF CreateProgress
  <2>3. ~torn' => Tracked'
    <3>1. "vpc" \in live /\ ~torn' => "vpc" \in file'.props
      BY <2>1, <2>2 DEF Infra
    <3>. QED
      BY <1>1, <2>1, <2>2, <3>1 DEF Tracked, Creating, Infra
  <2>4. ~torn' => Conditions'
    BY <1>1, <2>1 DEF Conditions, Creating, Deleting, Early
  <2>. QED
    BY <1>2, <1>4, <2>1, <2>3, <2>4 DEF IInv, Books
<1>. QED
  BY <1>5, <1>6

\* What AWS does on its own takes instances and interfaces only.
LEMMA EnvironmentEffect ==
  ASSUME TypeOK, Needs, Environment
  PROVE  /\ live' \subseteq live /\ live' \cap (Infra \cup Balancer) = live \cap (Infra \cup Balancer)
         /\ links' = links /\ enis' \subseteq enis
         /\ UNCHANGED <<disk, proc, rolling, mode, node, members, crashed>>
         /\ TypeOK' /\ Needs'
<1>. PICK i \in Instance : Stop(i) \/ DrainENI(i) \/ SelfTerminate(i) \/ Forget(i)
  BY DEF Environment
<1>1. /\ live \ {i} \subseteq live' /\ live' \subseteq live
      /\ enis \ {i} \subseteq enis' /\ enis' \subseteq enis
      /\ i \in enis => i \in enis' \/ i \notin live
      /\ stopping' \subseteq stopping \cup {i} /\ known' \subseteq known /\ links' = links
      /\ UNCHANGED <<disk, proc, rolling, mode, node, members, crashed>>
  BY DEF Environment, Stop, DrainENI, SelfTerminate, Forget
<1>2. i \notin Infra \cup Balancer
  BY Names
<1>3. live' \cap (Infra \cup Balancer) = live \cap (Infra \cup Balancer)
  BY <1>1, <1>2
<1>4. TypeOK'
  BY <1>1 DEF TypeOK, disk, proc
<1>5. Needs'
  BY <1>1, <1>2 DEF Needs, Infra, Balancer
<1>. QED
  BY <1>1, <1>3, <1>4, <1>5

\* Provisioning, a kill, and what AWS does on its own.
LEMMA OtherPreserves ==
  ASSUME IInv, Provision \/ Crash \/ Environment
  PROVE  IInv'
<1>. USE DEF cloud, disk, proc
<1>0. TypeOK /\ Control /\ CreateProgress /\ Needs /\ DeletionProgress /\ Books
  BY DEF IInv
<1>1. CASE Provision
  <2>1. /\ mode = "cli" /\ pc = "idle" /\ exists /\ file.cond = "Available"
        /\ UNCHANGED <<cloud, proc, rolling, mode, node, members, crashed>>
    BY <1>1 DEF Provision
  <2>2. CreateProgress' /\ Needs' /\ DeletionProgress' /\ DeletionKnowsFile'
    BY <1>0, <2>1, NoDeletion DEF CreateProgress, Needs, Creating
  <2>3. CASE WriteFails
    <3>1. /\ exists' \in BOOLEAN /\ torn' /\ torn' \in BOOLEAN /\ file' \in Status
          /\ file'.props \subseteq Held
      BY <1>0, <2>3, NoStatusType DEF WriteFails, TypeOK, Control
    <3>2. TypeOK' /\ Control'
      BY <1>0, <2>1, <3>1 DEF TypeOK, Control, Creating
    <3>. QED
      BY <2>2, <3>1, <3>2 DEF IInv, Books
  <2>4. CASE \E c \in {"Available", "Degraded"} : WriteFile([file EXCEPT !.cond = c])
    <3>. PICK c \in {"Available", "Degraded"} : WriteFile([file EXCEPT !.cond = c])
      BY <2>4
    <3>1. /\ exists' /\ exists' \in BOOLEAN /\ torn' = torn /\ file' \in Status
          /\ file'.saved = file.saved /\ file'.props = file.props
          /\ file'.cluster = file.cluster /\ file'.cond = c
      BY <1>0 DEF WriteFile, TypeOK, Status, Condition
    <3>2. TypeOK' /\ Control'
      BY <1>0, <2>1, <3>1 DEF TypeOK, Control, Creating
    <3>3. Books'
      BY <1>0, <2>1, <2>2, <3>1
         DEF Books, Tracked, Conditions, Complete, Creating, Deleting, Early
    <3>. QED
      BY <2>2, <3>2, <3>3 DEF IInv
  <2>. QED
    BY <1>1, <2>3, <2>4 DEF Provision
<1>2. CASE Crash
  <2>1. /\ pc # "idle" /\ pc' = "idle" /\ env' = NoStatus /\ cache' = {} /\ tries' = 0
        /\ at' = at /\ node' = NoNode /\ members' = {} /\ crashed' = TRUE
        /\ UNCHANGED <<cloud, disk, rolling, mode>>
    BY <1>2 DEF Crash, Exit, Forgets
  <2>2. TypeOK' /\ Control'
    BY <1>0, <2>1, NoTries, NoStatusType DEF TypeOK, Control, Creating, Place, NoNode
  <2>3. CreateProgress' /\ Needs' /\ DeletionProgress' /\ DeletionKnowsFile'
    BY <1>0, <2>1, NoDeletion DEF CreateProgress, Needs, Creating
  <2>4. Books'
    BY <1>0, <2>1, <2>3
       DEF Books, Tracked, Conditions, Complete, AllGone, Creating, Deleting, Early
  <2>. QED
    BY <2>2, <2>3, <2>4 DEF IInv
<1>3. CASE Environment
  <2>1. /\ live' \subseteq live /\ live' \cap (Infra \cup Balancer) = live \cap (Infra \cup Balancer)
        /\ links' = links /\ enis' \subseteq enis
        /\ UNCHANGED <<disk, proc, rolling, mode, node, members, crashed>>
        /\ TypeOK' /\ Needs'
    BY <1>0, <1>3, EnvironmentEffect
  <2>2. live' \cap Infra = live \cap Infra /\ ("nlb" \in live => "nlb" \in live')
    BY <2>1 DEF Balancer
  <2>3. Control'
    BY <1>0, <2>1 DEF Control, Creating
  <2>4. CreateProgress' /\ DeletionProgress'
    BY <1>0, <2>1, <2>2 DEF CreateProgress, Holds, DeletionProgress, ToGo
  <2>5. Books'
    BY <1>0, <2>1, <2>2
       DEF Books, DeletionKnowsFile, Tracked, Conditions, Complete, AllGone, Infra
  <2>. QED
    BY <2>1, <2>3, <2>4, <2>5 DEF IInv
<1>. QED
  BY <1>1, <1>2, <1>3

\* Nothing exists, nothing runs.
LEMMA IInvInit == Init => IInv
<1>. SUFFICES ASSUME Init PROVE IInv
  OBVIOUS
<1>1. TypeOK /\ Control
  BY NoTries, NoStatusType
     DEF Init, TypeOK, Control, Creating, Place, Step, Infra, NoNode
<1>2. CreateProgress /\ Needs /\ DeletionProgress
  BY DEF Init, CreateProgress, Needs, DeletionProgress, Creating, Deleting, Early
<1>3. Books
  BY NoStatusType
     DEF Init, Books, DeletionKnowsFile, Tracked, Conditions, Creating, Deleting, Early, Infra
<1>. QED
  BY <1>1, <1>2, <1>3 DEF IInv

LEMMA IInvNext == IInv /\ [Next]_vars => IInv'
<1>. SUFFICES ASSUME IInv, [Next]_vars PROVE IInv'
  OBVIOUS
<1>1. CASE CreateCluster
  BY <1>1, CreatePreserves, PoolPreserves, EndPreserves DEF CreateCluster
<1>2. CASE Delete /\ UNCHANGED <<mode, node, members, crashed>>
  BY <1>2, StartPreserves, BalancerPreserves, InstancesPreserve, ResourcesPreserve
     DEF Delete, Rest
<1>3. CASE Provision \/ Crash \/ Environment
  BY <1>3, OtherPreserves
<1>4. CASE UNCHANGED vars
  BY <1>4
     DEF vars, cloud, disk, proc, IInv, TypeOK, Control, CreateProgress, Holds, Needs,
         DeletionProgress, ToGo, Books, DeletionKnowsFile, Tracked, Conditions, Complete,
         AllGone
<1>. QED
  BY <1>1, <1>2, <1>3, <1>4 DEF Next

-----------------------------------------------------------------------------
(* The theorems                                                            *)

\* Every reachable state satisfies the invariant: whatever fails, is killed
\* or is repeated in CreateCluster and the deletions that follow it.
THEOREM Inductive == Spec => []IInv
<1>1. Init => IInv
  BY IInvInit
<1>2. IInv /\ [Next]_vars => IInv'
  BY IInvNext
<1>. QED
  BY <1>1, <1>2, PTL DEF Spec

\* The variables of CreateCluster and of the deletion keep their types.
THEOREM TypeCorrect == Spec => []TypeOK
<1>1. IInv => TypeOK
  BY DEF IInv
<1>. QED
  BY <1>1, Inductive, PTL

\* The status updates between the steps of CreateCluster lose track of one
\* network resource at most when the process is killed, of none otherwise.
THEOREM TrackOfInfra == Spec => []InfraIsTracked
<1>1. IInv => InfraIsTracked
  <2>. SUFFICES ASSUME IInv, ~torn PROVE InfraIsTracked
    BY DEF InfraIsTracked
  <2>1. Tracked
    BY DEF IInv, Books
  <2>2. \E r \in Infra : Untracked \subseteq {r}
    BY <2>1 DEF Tracked, Untracked
  <2>3. ~crashed /\ pc \notin {"complete", "record", "degrade"} => Untracked = {}
    BY <2>1 DEF Tracked, Untracked, Creating
  <2>. QED
    BY <2>2, <2>3 DEF InfraIsTracked
<1>. QED
  BY <1>1, Inductive, PTL

\* A file that says Terminated is true of the nodes and of the balancer too,
\* although no file may ever have named them.
THEOREM TerminatedIsTrue == Spec => []TerminatedMeansNoNode
<1>1. IInv => TerminatedMeansNoNode
  BY DEF IInv, Books, Conditions, AllGone, TerminatedMeansNoNode
<1>. QED
  BY <1>1, Inductive, PTL

\* A file that says Available names a complete cluster.
THEOREM AvailableIsTrue == Spec => []AvailableMeansRecorded
<1>1. IInv => AvailableMeansRecorded
  BY DEF IInv, Books, Conditions, Complete, AllLinks, AvailableMeansRecorded
<1>. QED
  BY <1>1, Inductive, PTL

\* The order of Delete's calls is that of the dependencies.
THEOREM OrderIsRight == Spec => []DeleteOrderRespectsDependencies
<1>1. IInv => DeleteOrderRespectsDependencies
  <2>. SUFFICES ASSUME IInv, Runs, ~torn, Untracked = {}, enis = {}, "nlb" \notin live,
                       links \cap {"workersg-cpsg", "cpsg-workersg"} = {},
                       ~Gone(at), Blocked(at)
                PROVE  FALSE
    BY DEF DeleteOrderRespectsDependencies
  <2>1. pc = "delete" /\ at \in DeleteStep /\ Applies(at)
    BY DEF IInv, Control, Runs
  <2>2. live \cap Infra \subseteq cache
    <3>1. live \cap Infra \subseteq file.props
      BY DEF Untracked
    <3>2. \A r \in Infra : r \in file.props => r \in cache
      BY <2>1 DEF IInv, Books, DeletionKnowsFile, Deleting, Early, Ids, Infra
    <3>. QED
      BY <3>1, <3>2
  <2>3. /\ live \cap Infra \subseteq ToGo
        /\ at = "igw" /\ {"igw", "vpc"} \subseteq cache => "igw-vpc" \notin links
    BY <2>1, <2>2 DEF IInv, DeletionProgress, Deleting, Early
  <2>4. Needs /\ live \cap (Network \cup Groups) \subseteq Infra /\ "rtb" \notin cache
    BY Names DEF IInv, TypeOK, Held, Infra, Network, Groups, Balancer, DeleteStep, GroupSteps, NetworkSteps
  <2>5. CASE at \in {"workersg", "cpsg", "sg", "detach", "pubsubnet", "subnet", "rtb"}
    BY <2>1, <2>4, <2>5, Names DEF Blocked, HostSubnet, Applies
  <2>6. CASE at = "pubrtb"
    BY <2>1, <2>3, <2>4, <2>6 DEF Blocked, Needs, ToGo, Infra
  <2>7. CASE at = "igw"
    BY <2>1, <2>2, <2>3, <2>4, <2>7 DEF Blocked, Needs, Infra
  <2>8. CASE at = "vpc"
    BY <2>1, <2>3, <2>4, <2>8 DEF Blocked, Needs, ToGo, Infra
  <2>. QED
    BY <2>1, <2>5, <2>6, <2>7, <2>8 DEF DeleteStep, GroupSteps, NetworkSteps
<1>. QED
  BY <1>1, Inductive, PTL

\* The CLI removes the cache file of a cluster only when all that it names,
\* the nodes and the balancer are gone.
THEOREM FileIsKept == Spec => FileOutlivesCluster
<1>. DEFINE Kept == exists /\ ~exists' /\ ~torn =>
                      live' \cap (file.props \cup Instance \cup {"nlb", "listener"}) = {}
<1>1. IInv /\ [Next]_vars => [Kept]_vars
  <2>. SUFFICES ASSUME IInv, Next, exists, ~exists', ~torn
                PROVE  live' \cap (file.props \cup Instance \cup {"nlb", "listener"}) = {}
    OBVIOUS
  <2>1. Deregister \/ ForgetTornFile
    BY DEF Next, CreateCluster, StartCreate, CreateResource, CreateFails, CompleteResource,
           CompleteFails, RecordProgress, Configure, LaunchPool, Launch, LaunchNode, NodeRuns,
           NodeFails, PoolReady, PoolFails, UpdateClusterStatus, RecordDegraded, Delete,
           StartDelete, StartDeleteCLI, StartDeleteCI, DeleteBalancer, NoBalancer,
           BalancerNotFound, BalancerFound, BalancerLookupFails, DeleteNLBPart, DeleteNLB,
           DeleteInstances, NoInstances, AnnounceTermination, TerminateInstances,
           TerminateRetry, TerminateFails, AwaitTermination, AwaitTimeout, DrainENIs,
           DeleteResources, DeleteSecurityGroups, DeleteVPCResources, SkipStep, StepSucceeds,
           StepRetried, StepFails, Finish, Provision, Crash, Environment, LoggedUpdate,
           UpdateStatus, WriteFile, WriteFails, disk
  <2>2. ~ForgetTornFile
    BY DEF IInv, Books, Conditions, ForgetTornFile
  <2>3. pc = "deleted" /\ live' = live
    BY <2>1, <2>2 DEF Deregister, cloud
  <2>. QED
    BY <2>3, FinishedMeansGone DEF AllGone
<1>. QED
  BY <1>1, Inductive, PTL DEF Spec, FileOutlivesCluster

-----------------------------------------------------------------------------
(* Every step of Cluster is a step of Lifecycle, or changes nothing         *)

\* What the cache file holds also when a write has failed.
FileInv ==
  /\ ~exists => file = NoStatus
  /\ pc \in Creating =>
       /\ file.props \subseteq cache /\ file.cond \in {"none", "Creating"}
       /\ ~torn => exists
  /\ pc \in Deleting /\ env.saved => Ids(env.props) = Ids(cache)
  /\ file.cond = "Terminated" => file.props \cap live \cap Infra = {}

\* A file that is not there is not made by a write that fails.
LEMMA LoggedKeepsFile ==
  ASSUME NEW c, NEW k, LoggedUpdate(c, k)
  PROVE  exists' \/ (exists' = exists /\ file' = file)
BY DEF LoggedUpdate, UpdateStatus, WriteFile, WriteFails, disk

Midway == {"Terminating", "DeletingGroups", "DeletingVPC", "DegradedEC2", "DegradedGroup"}

\* What a step of a deletion does to the file: nothing, or an update with a
\* condition of its own; the last two announce the end and remove the file.
FileStep ==
  \/ UNCHANGED disk
  \/ /\ torn => torn'
     /\ exists' \/ (exists' = exists /\ file' = file)
     /\ \/ \E k \in Midway : Logged(cache, k)
        \/ pc = "finish" /\ Logged(cache, "Terminated")
  \/ pc = "deleted" /\ RemoveFile

\* A delete call takes no part of the network but the one of its step.
LEMMA OneTaken ==
  ASSUME TypeOK, NEW r \in DeleteStep \cup Balancer, Deleted(r) \/ Failed(r)
  PROVE  live' \subseteq live /\ (live \cap Infra) \ live' \subseteq {r}
BY Names DEF Deleted, Failed, cloud, Victims, Balancer

\* A step of a deletion takes from the network what it knows, after the phase
\* of the nodes.
LEMMA DeletionTakes ==
  ASSUME IInv, DeleteBalancer \/ DeleteInstances \/ DeleteResources
  PROVE  /\ pc \in Deleting /\ pc' \in Deleting \cup {"idle"}
         /\ pc' \in Deleting => env' = env /\ Ids(cache') = Ids(cache)
         /\ live' \subseteq live /\ (live \cap Infra) \ live' \subseteq Ids(cache)
         /\ pc \in Early \cup {"finish", "deleted"} => live' \cap Infra = live \cap Infra
         /\ FileStep
<1>. USE DEF cloud, Goto, Exit
<1>0. TypeOK /\ cache \in SUBSET Held /\ Midway \cup {"Terminated"} \subseteq Condition
  BY DEF IInv, TypeOK, Condition, Midway
<1>1. ASSUME NEW k \in Midway \cup {"Terminated"}, LoggedUpdate(cache, k)
      PROVE  /\ torn => torn'
             /\ exists' \/ (exists' = exists /\ file' = file)
             /\ Logged(cache, k)
  BY <1>0, <1>1, LoggedUpdateEffect, LoggedKeepsFile
<1>2. CASE DeleteBalancer
  <2>1. CASE NoBalancer \/ BalancerNotFound \/ BalancerFound \/ BalancerLookupFails
    BY <2>1
       DEF NoBalancer, BalancerNotFound, BalancerFound, BalancerLookupFails, Deleting, Early,
           FileStep
  <2>2. CASE DeleteNLBPart
    <3>1. /\ pc = "deleteNLB" /\ pc' = "deleteNLB" /\ at \in {"listener", "tg"}
          /\ Deleted(at) \/ Failed(at)
          /\ UNCHANGED <<disk, env, cache>>
      BY <2>2 DEF DeleteNLBPart
    <3>2. live' \subseteq live /\ (live \cap Infra) \ live' \subseteq {at} /\ at \notin Infra
      BY <1>0, <3>1, OneTaken DEF Balancer, Infra
    <3>. QED
      BY <3>1, <3>2 DEF Deleting, Early, FileStep
  <2>3. CASE DeleteNLB
    <3>1. /\ pc = "deleteNLB" /\ pc' \in {"terminate", "idle"}
          /\ Deleted("nlb") \/ Failed("nlb")
          /\ UNCHANGED disk
          /\ pc' # "idle" => UNCHANGED <<env, cache>>
      BY <2>3 DEF DeleteNLB
    <3>2. live' \subseteq live /\ (live \cap Infra) \ live' \subseteq {"nlb"} /\ "nlb" \notin Infra
      BY <1>0, <3>1, OneTaken DEF Balancer, Infra
    <3>. QED
      BY <3>1, <3>2 DEF Deleting, Early, FileStep
  <2>. QED
    BY <1>2, <2>1, <2>2, <2>3 DEF DeleteBalancer
<1>3. CASE DeleteInstances
  <2>1. CASE AnnounceTermination
    <3>1. FileStep
      BY <1>1, <2>1 DEF AnnounceTermination, FileStep, Midway
    <3>. QED
      BY <2>1, <3>1 DEF AnnounceTermination, Deleting, Early
  <2>2. CASE TerminateFails
    <3>1. FileStep
      BY <1>1, <2>2 DEF TerminateFails, FileStep, Midway
    <3>. QED
      BY <2>2, <3>1 DEF TerminateFails, Terminated, Deleting, Early
  <2>3. CASE NoInstances \/ TerminateInstances \/ TerminateRetry \/ AwaitTermination
               \/ AwaitTimeout \/ DrainENIs
    BY <2>3
       DEF NoInstances, TerminateInstances, TerminateRetry, AwaitTermination, AwaitTimeout,
           DrainENIs, Terminated, Deleting, Early, FileStep
  <2>. QED
    BY <1>3, <2>1, <2>2, <2>3 DEF DeleteInstances
<1>4. CASE DeleteSecurityGroups \/ DeleteVPCResources
  <2>1. FileStep
    BY <1>1, <1>4 DEF DeleteSecurityGroups, DeleteVPCResources, FileStep, Midway
  <2>. QED
    BY <1>4, <2>1 DEF DeleteSecurityGroups, DeleteVPCResources, Deleting, Early
<1>5. CASE SkipStep
  <2>1. /\ pc = "delete" /\ at \in DeleteStep /\ StepDone(at) /\ UNCHANGED <<live, disk, env>>
        /\ Ids(cache') = Ids(cache)
    BY <1>5 DEF SkipStep, IInv, Control, Ids
  <2>2. pc' \in {"delete", "network", "finish"}
    BY <1>0, <2>1, StepDoneEffect
  <2>. QED
    BY <2>1, <2>2 DEF Deleting, Early, FileStep
<1>6. CASE StepSucceeds \/ StepRetried \/ StepFails
  <2>1. /\ pc = "delete" /\ Runs /\ at \in DeleteStep
        /\ Deleted(at) \/ Failed(at)
    BY <1>6 DEF StepSucceeds, StepRetried, StepFails, Runs, IInv, Control
  <2>2. (live \cap Infra) \ live' \subseteq Ids(cache) /\ live' \subseteq live
    <3>1. live' \subseteq live /\ (live \cap Infra) \ live' \subseteq {at}
      BY <1>0, <2>1, OneTaken
    <3>2. at \in Infra => at \in Ids(cache)
      BY <2>1 DEF Runs, Applies, Ids, Infra
    <3>. QED
      BY <3>1, <3>2
  <2>3. CASE StepSucceeds \/ StepRetried
    <3>1. pc' \in Deleting /\ UNCHANGED <<disk, env, cache>>
      BY <1>0, <2>1, <2>3, StepDoneEffect DEF StepSucceeds, StepRetried, Deleting
    <3>. QED
      BY <2>1, <2>2, <3>1 DEF Deleting, Early, FileStep
  <2>4. CASE StepFails
    <3>1. pc' = "idle"
      BY <1>0, <2>4 DEF StepFails, TypeOK
    <3>2. FileStep
      BY <1>1, <2>4 DEF StepFails, FileStep, Midway
    <3>. QED
      BY <2>1, <2>2, <3>1, <3>2 DEF Deleting, Early
  <2>. QED
    BY <1>6, <2>3, <2>4
<1>7. CASE Finish
  <2>1. LoggedUpdate(cache, "Terminated")
    BY <1>7 DEF Finish, LoggedUpdate
  <2>. QED
    BY <1>1, <1>7, <2>1 DEF Finish, FileStep, Deleting, Early
<1>8. CASE Deregister
  BY <1>8 DEF Deregister, FileStep, Deleting, Early
<1>. QED
  BY <1>2, <1>3, <1>4, <1>5, <1>6, <1>7, <1>8 DEF DeleteResources

\* What CreateCluster writes, the first time and later.
LEMMA CreationWrites ==
  ASSUME IInv, FileInv, StartCreate \/ RecordProgress \/ RecordDegraded
  PROVE  /\ mode = "none" \/ pc \in Creating
         /\ mode' # "none" /\ pc' \in {"create", "idle"} /\ live' = live /\ crashed' = crashed
         /\ pc' = "create" => cache' = IF mode = "none" THEN {} ELSE cache
         /\ torn => torn'
         /\ exists' \/ (exists' = exists /\ file' = file)
         /\ ~torn' =>
              \/ /\ UNCHANGED disk /\ pc' = "create" /\ mode # "none"
              \/ /\ exists' /\ file'.props = IF mode = "none" THEN {} ELSE cache
                 /\ file'.cond = IF pc' = "create" THEN "Creating" ELSE "Degraded"
         /\ torn' => \/ file' = file
                     \/ file' = NoStatus
                     \/ /\ file'.props = IF mode = "none" THEN {} ELSE cache
                        /\ file'.cond = IF pc' = "create" THEN "Creating" ELSE "Degraded"
<1>. USE DEF cloud, disk, Goto, Exit
<1>0. TypeOK /\ cache \in SUBSET Held /\ {} \in SUBSET Held
      /\ "Creating" \in Condition /\ "Degraded" \in Condition
  BY DEF IInv, TypeOK, Condition
<1>1. CASE StartCreate
  <2>1. /\ mode = "none" /\ mode' # "none" /\ pc' = "create" /\ cache' = {} /\ env = NoStatus
        /\ LoggedUpdate({}, "Creating") /\ UNCHANGED <<live, crashed>>
    BY <1>1, ModesAssumption DEF StartCreate, IInv, Control
  <2>2. /\ torn => torn'
        /\ exists' \/ (exists' = exists /\ file' = file)
        /\ Logged({}, "Creating")
    BY <1>0, <2>1, LoggedUpdateEffect, LoggedKeepsFile
  <2>. QED
    BY <2>1, <2>2, NoStatusType DEF Logged, Written, Unmodified
<1>2. CASE RecordProgress \/ RecordDegraded
  <2>1. /\ pc \in Creating /\ mode # "none" /\ mode' = mode /\ env = NoStatus
        /\ UNCHANGED <<live, crashed>>
        /\ pc' = "create" => cache' = cache
    BY <1>2 DEF RecordProgress, RecordDegraded, IInv, Control, Creating
  <2>2. CASE UNCHANGED disk /\ pc' = "create"
    BY <2>1, <2>2
  <2>3. ASSUME NEW k \in {"Creating", "Degraded"}, LoggedUpdate(cache, k),
               pc' = IF k = "Creating" THEN "create" ELSE "idle"
        PROVE  /\ torn => torn'
               /\ exists' \/ (exists' = exists /\ file' = file)
               /\ Logged(cache, k)
    BY <1>0, <2>3, LoggedUpdateEffect, LoggedKeepsFile
  <2>4. \/ UNCHANGED disk /\ pc' = "create"
        \/ \E k \in {"Creating", "Degraded"} :
             LoggedUpdate(cache, k) /\ pc' = IF k = "Creating" THEN "create" ELSE "idle"
    BY <1>2 DEF RecordProgress, RecordDegraded
  <2>5. CASE \E k \in {"Creating", "Degraded"} :
               LoggedUpdate(cache, k) /\ pc' = IF k = "Creating" THEN "create" ELSE "idle"
    BY <2>1, <2>3, <2>5, NoStatusType DEF Logged, Written, Unmodified
  <2>. QED
    BY <2>2, <2>4, <2>5
<1>. QED
  BY <1>1, <1>2

\* The last step of a successful CreateCluster.
LEMMA EndWrites ==
  ASSUME IInv, UpdateClusterStatus
  PROVE  /\ pc = "create" /\ pc' = "idle" /\ mode # "none"
         /\ UNCHANGED <<live, mode, crashed>>
         /\ \/ /\ exists' /\ torn' = torn /\ file'.cond = "Available" /\ file'.props = cache
               /\ cache \cap Infra = Infra /\ live \cap Infra = Infra
            \/ WriteFails
<1>. USE DEF cloud, disk, Exit
<1>1. /\ pc = "create" /\ at = "status" /\ pc' = "idle" /\ mode # "none" /\ env = NoStatus
      /\ UNCHANGED <<live, mode, crashed>>
  BY DEF UpdateClusterStatus, IInv, Control, Creating
<1>2. cache \cap Infra = Infra /\ live \cap Infra = Infra
  BY <1>1 DEF IInv, CreateProgress, Holds, Made, Infra
<1>3. Updated(cache, "Available").props = cache /\ Updated(cache, "Available").cond = "Available"
      /\ Updated(cache, "Available") \in Status
  BY <1>1, UpdatedFields, NoStatusType, Names DEF IInv, TypeOK, Condition
<1>. QED
  BY <1>1, <1>2, <1>3 DEF UpdateClusterStatus, WriteFile, Status

\* Every step preserves it.
LEMMA FileInvNext ==
  ASSUME IInv, FileInv, [Next]_vars
  PROVE  FileInv'
<1>. USE DEF cloud, disk, Goto, Exit
<1>1. CASE StartCreate \/ RecordProgress \/ RecordDegraded
  <2>1. file.props = {} \/ mode # "none"
    BY NoStatusType DEF IInv, Control
  <2>2. file.cond = "none" \/ mode # "none"
    BY NoStatusType DEF IInv, Control
  <2>. QED
    BY <1>1, <2>1, <2>2, CreationWrites, NoStatusType
       DEF FileInv, Creating, Deleting, Early
<1>2. CASE CreateResource \/ CreateFails \/ CompleteResource \/ CompleteFails \/ Configure
           \/ LaunchPool \/ Launch \/ PoolReady \/ PoolFails
  <2>1. pc \in Creating /\ pc' \in Creating /\ cache \subseteq cache' /\ UNCHANGED disk
    BY <1>2
       DEF CreateResource, CreateFails, CompleteResource, CompleteFails, Configure, LaunchPool,
           Launch, LaunchNode, NodeRuns, NodeFails, PoolReady, PoolFails, Creating, proc
  <2>. QED
    BY <2>1 DEF FileInv, Creating, Deleting, Early
<1>3. CASE UpdateClusterStatus
  BY <1>3, EndWrites, NoStatusType DEF FileInv, Creating, Deleting, Early, WriteFails
<1>4. CASE StartDelete
  <2>1. CASE StartDeleteCLI \/ StartDeleteCI
    <3>1. /\ pc' = "balancer" /\ UNCHANGED <<live, disk>>
          /\ env'.saved => env'.props = cache'
      BY <2>1, NoStatusType DEF StartDeleteCLI, StartDeleteCI
    <3>. QED
      BY <3>1 DEF FileInv, Creating
  <2>2. CASE ForgetTornFile
    BY <2>2, NoStatusType DEF ForgetTornFile, RemoveFile, FileInv, proc, Creating, Deleting, Early
  <2>. QED
    BY <1>4, <2>1, <2>2 DEF StartDelete
<1>5. CASE DeleteBalancer \/ DeleteInstances \/ DeleteResources
  <2>1. /\ pc \in Deleting /\ pc' \in Deleting \cup {"idle"}
        /\ pc' \in Deleting => env' = env /\ Ids(cache') = Ids(cache)
        /\ live' \subseteq live
        /\ FileStep
    BY <1>5, DeletionTakes
  <2>2. ~exists' => file' = NoStatus
    BY <2>1 DEF FileStep, RemoveFile, FileInv
  <2>3. file'.cond = "Terminated" => file'.props \cap live' \cap Infra = {}
    <3>1. CASE file' = file \/ file' = NoStatus
      BY <2>1, <3>1, NoStatusType DEF FileInv
    <3>2. CASE pc = "finish" /\ Written(cache, "Terminated")
      <4>1. cache \cap live \cap Infra = {}
        BY <3>2 DEF IInv, DeletionProgress, Deleting, ToGo
      <4>2. Infra \cap file'.props \subseteq Ids(cache)
        BY <2>1, <3>2 DEF Written, FileInv, Ids, Infra
      <4>. QED
        BY <2>1, <4>1, <4>2 DEF Ids
    <3>. QED
      BY <2>1, <3>1, <3>2, NoStatusType DEF FileStep, Logged, Written, RemoveFile, Midway
  <2>. QED
    BY <2>1, <2>2, <2>3 DEF FileInv, Creating, Deleting, Early
<1>6. CASE Provision
  <2>1. /\ pc = "idle" /\ exists /\ file.cond = "Available" /\ pc' = pc
    BY <1>6 DEF Provision, proc
  <2>2. \/ exists' /\ file'.cond \in {"Available", "Degraded"}
        \/ UNCHANGED <<exists, file>>
        \/ exists' /\ file' = NoStatus
    BY <1>6 DEF Provision, WriteFile, WriteFails, IInv, TypeOK, Status
  <2>. QED
    BY <2>1, <2>2, NoStatusType DEF FileInv, Creating, Deleting, Early
<1>7. CASE Crash
  BY <1>7 DEF Crash, FileInv, Creating, Deleting, Early
<1>8. CASE Environment
  <2>1. live' \subseteq live /\ UNCHANGED <<disk, proc>>
    BY <1>8, EnvironmentEffect DEF IInv
  <2>. QED
    BY <2>1 DEF FileInv, proc
<1>9. CASE UNCHANGED vars
  BY <1>9 DEF vars, proc, FileInv
<1>. QED
  BY <1>1, <1>2, <1>3, <1>4, <1>5, <1>6, <1>7, <1>8, <1>9 DEF Next, CreateCluster, Delete

\* What a step of Lifecycle may look like.
Kept == [Promise!Next]_(Promise!vars)

\* A step that leaves the network, the file and the place in CreateCluster
\* alone is hidden.
LEMMA HiddenStep ==
  ASSUME UNCHANGED <<disk, mode, crashed>>, live' \cap Infra = live \cap Infra,
         pc \in Creating <=> pc' \in Creating
  PROVE  Kept
BY DEF Kept, Promise!vars, Phase, disk

\* Once the file is damaged, a step need only keep the order of the phases.
LEMMA DamagedStep ==
  ASSUME FileInv, FileInv', torn', torn' \in BOOLEAN, live' \cap Infra \subseteq live,
         crashed' \in {crashed, TRUE}, mode' # "none",
         mode = "none" => pc' \in Creating,
         pc' \in Creating => mode = "none" \/ pc \in Creating,
         exists' /\ file'.cond = "Available" => exists /\ file.cond = "Available"
  PROVE  Kept
<1>1. Phase' \in {Phase} \cup Promise!Later[Phase]
  <2>1. CASE Phase = "absent"
    BY <2>1 DEF Phase, Promise!Later, Creating
  <2>2. CASE Phase = "creating"
    BY <2>2 DEF Phase, Promise!Later, FileInv
  <2>3. CASE Phase \in {"available", "partial", "closed"}
    BY <2>3 DEF Phase, Promise!Later
  <2>. QED
    BY <2>1, <2>2, <2>3 DEF Phase
<1>2. Phase' = "closed" => (file'.props \cap Infra) \cap (live' \cap Infra) = {}
  BY NoStatusType DEF Phase, FileInv
<1>. QED
  BY <1>1, <1>2 DEF Kept, Promise!Next, Promise!Damage

\* The steps of CreateCluster.
LEMMA CreateKeeps ==
  ASSUME IInv, FileInv, FileInv', CreateCluster
  PROVE  Kept
<1>. USE DEF cloud, disk, Goto, Exit
<1>1. CASE StartCreate \/ RecordProgress \/ RecordDegraded
  <2>1. /\ mode = "none" \/ pc \in Creating
        /\ mode' # "none" /\ pc' \in {"create", "idle"} /\ live' = live /\ crashed' = crashed
        /\ torn => torn'
        /\ torn \in BOOLEAN /\ torn' \in BOOLEAN
    BY <1>1, CreationWrites DEF IInv, TypeOK, FileInv, StartCreate, RecordProgress,
         RecordDegraded, LoggedUpdate, UpdateStatus, WriteFile, WriteFails
  <2>2. mode = "none" => /\ file = NoStatus /\ live = {} /\ pc' = "create" /\ pc \notin Creating
    BY <1>1 DEF IInv, Control, StartCreate, RecordProgress, RecordDegraded, Creating
  <2>3. CASE torn'
    <3>1. file'.cond = "Available" => file' = file
      BY <1>1, <2>3, CreationWrites, NoStatusType
    <3>2. file.cond # "Available"
      BY <2>1, <2>2, NoStatusType DEF FileInv
    <3>. QED
      BY <2>1, <2>2, <2>3, <3>1, <3>2, DamagedStep DEF Creating
  <2>4. CASE ~torn' /\ UNCHANGED disk /\ pc' = "create" /\ mode # "none"
    <3>1. mode' = mode
      BY <1>1, <2>4 DEF StartCreate, RecordProgress, RecordDegraded
    <3>. QED
      BY <2>1, <2>4, <3>1, HiddenStep DEF Creating
  <2>5. CASE /\ ~torn' /\ exists' /\ file'.props = IF mode = "none" THEN {} ELSE cache
             /\ file'.cond = IF pc' = "create" THEN "Creating" ELSE "Degraded"
    <3>1. torn' = torn
      BY <2>1, <2>5
    <3>2. CASE mode = "none"
      <4>1. Phase = "absent" /\ Phase' = "creating"
        BY <2>1, <2>2, <3>2 DEF Phase, Creating
      <4>. QED
        BY <2>1, <2>2, <2>5, <3>1, <3>2, <4>1, NoStatusType DEF Kept, Promise!Next, Promise!Open
    <3>3. CASE mode # "none"
      <4>1. Phase = "creating" /\ Phase' \in {"creating", "partial"}
        BY <2>1, <2>5, <3>3 DEF Phase, Creating
      <4>2. live \cap Infra \subseteq cache /\ file.props \subseteq cache
        BY <2>1, <3>3 DEF IInv, CreateProgress, FileInv
      <4>. QED
        BY <2>1, <2>5, <3>1, <3>3, <4>1, <4>2 DEF Kept, Promise!Next, Promise!Enter, Promise!Note
    <3>. QED
      BY <3>2, <3>3
  <2>. QED
    BY <1>1, <2>3, <2>4, <2>5, CreationWrites
<1>2. CASE CreateResource
  <2>1. /\ pc = "create" /\ pc' = "complete" /\ mode # "none"
        /\ live' = live \cup {at} /\ UNCHANGED <<disk, mode, crashed>>
    BY <1>2 DEF CreateResource, IInv, Control
  <2>2. Phase = "creating" /\ Phase' = "creating"
    BY <2>1 DEF Phase, Creating
  <2>3. torn \/ live \cap Infra \subseteq file.props \cap Infra
    BY <2>1 DEF IInv, Books, Tracked
  <2>4. CASE at \in Infra
    <3>1. live' \cap Infra = (live \cap Infra) \cup {at}
      BY <2>1, <2>4
    <3>. QED
      BY <2>1, <2>2, <2>3, <2>4, <3>1 DEF Kept, Promise!Next, Promise!Acquire
  <2>5. CASE at \notin Infra
    <3>1. live' \cap Infra = live \cap Infra
      BY <2>1, <2>5
    <3>. QED
      BY <2>1, <2>2, <3>1 DEF Kept, Promise!vars
  <2>. QED
    BY <2>4, <2>5
<1>3. CASE CreateFails \/ CompleteResource \/ CompleteFails \/ Configure \/ LaunchPool \/ PoolReady
           \/ PoolFails
  BY <1>3, HiddenStep
     DEF CreateFails, CompleteResource, CompleteFails, Configure, LaunchPool, PoolReady,
         PoolFails, Creating
<1>4. CASE Launch
  <2>1. PICK i \in Instance : LaunchNode(i) \/ NodeRuns(i) \/ NodeFails(i)
    BY <1>4 DEF Launch
  <2>2. live' \cap Infra = live \cap Infra /\ pc' = pc /\ UNCHANGED <<disk, mode, crashed>>
    BY <2>1, Names DEF LaunchNode, NodeRuns, NodeFails, proc
  <2>. QED
    BY <2>2, HiddenStep
<1>5. CASE UpdateClusterStatus
  <2>1. /\ pc = "create" /\ pc' = "idle" /\ mode # "none"
        /\ UNCHANGED <<live, mode, crashed>>
    BY <1>5, EndWrites
  <2>2. CASE WriteFails
    BY <2>1, <2>2, DamagedStep, NoStatusType DEF WriteFails, Creating
  <2>3. CASE /\ exists' /\ torn' = torn /\ file'.cond = "Available" /\ file'.props = cache
             /\ cache \cap Infra = Infra /\ live \cap Infra = Infra
    <3>1. Phase = "creating" /\ Phase' = "available"
      BY <2>1, <2>3 DEF Phase, Creating
    <3>. QED
      BY <2>1, <2>3, <3>1 DEF Kept, Promise!Next, Promise!Publish
  <2>. QED
    BY <1>5, <2>2, <2>3, EndWrites
<1>. QED
  BY <1>1, <1>2, <1>3, <1>4, <1>5 DEF CreateCluster

\* The phases of a deletion take what the file names, withdraw what it offers
\* before that, and close it when nothing in it is left.
LEMMA DeletionKeeps ==
  ASSUME IInv, IInv', FileInv, FileInv', DeleteBalancer \/ DeleteInstances \/ DeleteResources,
         UNCHANGED <<mode, crashed>>
  PROVE  Kept
<1>. USE DEF disk
<1>1. /\ pc \in Deleting /\ pc' \in Deleting \cup {"idle"}
      /\ live' \subseteq live /\ (live \cap Infra) \ live' \subseteq Ids(cache)
      /\ pc \in Early \cup {"finish", "deleted"} => live' \cap Infra = live \cap Infra
      /\ FileStep
  BY DeletionTakes
<1>2. mode # "none" /\ pc \notin Creating /\ pc' \notin Creating
  BY <1>1 DEF IInv, Control, Deleting, Early, Creating
<1>3. torn \in BOOLEAN /\ torn' \in BOOLEAN
  BY DEF IInv, TypeOK
<1>4. CASE torn'
  <2>1. exists' /\ file'.cond = "Available" => exists /\ file.cond = "Available"
    BY <1>1, NoStatusType DEF FileStep, Logged, Written, RemoveFile, Midway
  <2>. QED
    BY <1>1, <1>2, <1>3, <1>4, <2>1, DamagedStep
<1>5. CASE ~torn'
  <2>0. torn' = torn /\ ~torn
    BY <1>1, <1>3, <1>5 DEF FileStep, RemoveFile
  <2>1. /\ Ids(file.props) = Ids(cache) /\ (env.saved => Ids(env.props) = Ids(cache))
        /\ ~exists => file.props = {}
        /\ file.cond = "Terminated" => file.props \cap live \cap Infra = {}
        /\ file.cond = "Available" => pc \in Early
    BY <1>1, <2>0, NoStatusType DEF IInv, Books, DeletionKnowsFile, Conditions, FileInv
  <2>2. /\ live' \cap Infra \subseteq live \cap Infra
        /\ (live \cap Infra) \ (live' \cap Infra) \subseteq file.props \cap Infra
    BY <1>1, <2>1 DEF Ids, Infra
  <2>3. Phase \in {"available", "partial", "closed"}
    BY <1>2 DEF Phase
  <2>4. Phase # "partial" => live' \cap Infra = live \cap Infra
    BY <1>1, <1>2, <2>1, <2>2 DEF Phase
  <2>5. CASE UNCHANGED <<file, exists>>
    <3>1. Phase' = Phase
      BY <1>2, <2>5 DEF Phase
    <3>2. CASE Phase = "partial"
      BY <2>0, <2>2, <2>5, <3>1, <3>2 DEF Kept, Promise!Next, Promise!Release
    <3>3. CASE Phase # "partial"
      BY <2>0, <2>4, <2>5, <3>1, <3>3 DEF Kept, Promise!vars
    <3>. QED
      BY <3>2, <3>3
  <2>6. ASSUME NEW k \in Midway \cup {"Terminated"}, Written(cache, k)
        PROVE  /\ exists' /\ file'.cond = k
               /\ file'.props \cap Infra = file.props \cap Infra
    BY <2>1, <2>6 DEF Written, Ids, Infra
  <2>7. CASE \E k \in Midway : Written(cache, k)
    <3>1. PICK k \in Midway : Written(cache, k)
      BY <2>7
    <3>2. Phase' = "partial" /\ file'.props \cap Infra = file.props \cap Infra
      BY <1>2, <2>6, <3>1 DEF Phase, Midway
    <3>3. CASE Phase = "partial"
      BY <2>0, <2>2, <3>2, <3>3 DEF Kept, Promise!Next, Promise!Release
    <3>4. CASE Phase = "available"
      BY <2>0, <2>4, <3>2, <3>4 DEF Kept, Promise!Next, Promise!Withdraw
    <3>5. CASE Phase = "closed"
      BY <2>0, <2>4, <3>2, <3>5 DEF Kept, Promise!Next, Promise!Reopen
    <3>. QED
      BY <2>3, <3>3, <3>4, <3>5
  <2>8. CASE pc \in {"finish", "deleted"} /\ (Written(cache, "Terminated") \/ RemoveFile)
    <3>1. Phase \in {"partial", "closed"}
      BY <1>2, <2>1, <2>3, <2>8 DEF Phase, Early
    <3>2. Phase' = "closed"
      BY <1>2, <2>6, <2>8 DEF Phase, RemoveFile
    <3>3. file'.props \cap Infra \in {file.props \cap Infra, {}}
      BY <2>6, <2>8, NoStatusType DEF RemoveFile
    <3>4. (file.props \cap Infra) \cap (live \cap Infra) = {}
      BY <2>0, <2>8, FinishedMeansGone DEF AllGone
    <3>5. live' \cap Infra = live \cap Infra
      BY <1>1, <2>8
    <3>. QED
      BY <2>0, <3>1, <3>2, <3>3, <3>4, <3>5 DEF Kept, Promise!Next, Promise!Close
  <2>. QED
    BY <1>1, <1>5, <2>5, <2>7, <2>8 DEF FileStep, Logged
<1>. QED
  BY <1>3, <1>4, <1>5

\* The start of a deletion; a damaged file may be thrown away.
LEMMA StartKeeps ==
  ASSUME IInv, IInv', FileInv, FileInv', StartDelete, UNCHANGED <<mode, crashed>>
  PROVE  Kept
<1>. USE DEF cloud, disk, proc, Goto
<1>1. CASE StartDeleteCLI \/ StartDeleteCI
  BY <1>1, HiddenStep DEF StartDeleteCLI, StartDeleteCI, Creating
<1>2. CASE ForgetTornFile
  <2>1. /\ mode = "cli" /\ pc = "idle" /\ pc' = pc /\ exists /\ ~file.saved /\ ~exists'
        /\ UNCHANGED <<live, torn>>
    BY <1>2 DEF ForgetTornFile, RemoveFile
  <2>2. torn /\ torn' /\ torn' \in BOOLEAN
    BY <2>1 DEF IInv, Books, Conditions, TypeOK
  <2>. QED
    BY <2>1, <2>2, DamagedStep DEF Creating
<1>. QED
  BY <1>1, <1>2 DEF StartDelete

\* Provisioning, a kill, and what AWS does on its own.
LEMMA OthersKeep ==
  ASSUME IInv, IInv', FileInv, FileInv', Provision \/ Crash \/ Environment
  PROVE  Kept
<1>. USE DEF cloud, disk, proc, Exit
<1>1. CASE Provision
  <2>1. /\ mode = "cli" /\ pc = "idle" /\ pc' = pc /\ exists /\ file.cond = "Available"
        /\ UNCHANGED <<live, mode, crashed>>
    BY <1>1 DEF Provision
  <2>2. \/ /\ exists' /\ torn' = torn /\ file'.props = file.props
           /\ file'.cond \in {"Available", "Degraded"}
        \/ torn'
    BY <1>1 DEF Provision, WriteFile, WriteFails, IInv, TypeOK, Status
  <2>3. CASE torn'
    BY <2>1, <2>3, DamagedStep DEF Creating, IInv, TypeOK
  <2>4. CASE /\ exists' /\ torn' = torn /\ file'.props = file.props
             /\ file'.cond \in {"Available", "Degraded"}
    <3>1. Phase = "available" /\ Phase' \in {"available", "partial"}
      BY <2>1, <2>4 DEF Phase, Creating
    <3>2. CASE Phase' = "partial"
      BY <2>1, <2>4, <3>1, <3>2 DEF Kept, Promise!Next, Promise!Withdraw
    <3>3. CASE Phase' = "available"
      BY <2>1, <2>4, <3>1, <3>3 DEF Kept, Promise!vars
    <3>. QED
      BY <3>1, <3>2, <3>3
  <2>. QED
    BY <2>2, <2>3, <2>4
<1>2. CASE Crash
  <2>1. /\ pc # "idle" /\ pc' = "idle" /\ mode # "none" /\ crashed' = TRUE
        /\ UNCHANGED <<live, disk, mode>>
    BY <1>2 DEF Crash, IInv, Control
  <2>2. CASE torn
    BY <2>1, <2>2, DamagedStep DEF Creating, IInv, TypeOK
  <2>3. CASE ~torn
    <3>1. Phase' = IF Phase = "creating" THEN "partial" ELSE Phase
      BY <2>1, <2>3 DEF Phase, Creating, FileInv
    <3>. QED
      BY <2>1, <3>1 DEF Kept, Promise!Next, Promise!Kill
  <2>. QED
    BY <2>2, <2>3
<1>3. CASE Environment
  <2>1. live' \cap Infra = live \cap Infra /\ pc' = pc /\ UNCHANGED <<disk, mode, crashed>>
    BY <1>3, EnvironmentEffect DEF IInv
  <2>. QED
    BY <2>1, HiddenStep
<1>. QED
  BY <1>1, <1>2, <1>3

\* Nothing is written, nothing exists.
LEMMA FileInvInit == Init => FileInv
BY NoStatusType DEF Init, FileInv, Creating, Deleting, Early

\* CreateCluster, the deletions that follow, the rewriting of the file after
\* provisioning and every kill of them are, for the network and the groups, a
\* life of an environment as module Lifecycle promises it.
THEOREM Refinement == Spec => KeepsPromise
<1>1. Init => Promise!Init
  BY NoStatusType DEF Init, Promise!Init, Phase
<1>2. FileInv /\ IInv /\ [Next]_vars => FileInv'
  BY FileInvNext
<1>3. IInv /\ IInv' /\ FileInv /\ FileInv' /\ [Next]_vars => [Promise!Next]_(Promise!vars)
  <2>. SUFFICES ASSUME IInv, IInv', FileInv, FileInv', [Next]_vars PROVE Kept
    BY DEF Kept
  <2>1. CASE CreateCluster
    BY <2>1, CreateKeeps
  <2>2. CASE Delete /\ UNCHANGED <<mode, node, members, crashed>>
    BY <2>2, StartKeeps, DeletionKeeps DEF Delete
  <2>3. CASE Provision \/ Crash \/ Environment
    BY <2>3, OthersKeep
  <2>4. CASE UNCHANGED vars
    BY <2>4, HiddenStep DEF vars, cloud, proc, disk
  <2>. QED
    BY <2>1, <2>2, <2>3, <2>4 DEF Next
<1>. QED
  BY <1>1, <1>2, <1>3, FileInvInit, Inductive, PTL DEF Spec, KeepsPromise, Promise!Spec

=============================================================================
