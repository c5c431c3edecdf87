------------------------------ MODULE Provider ------------------------------
(***************************************************************************)
(* The state every command of the AWS provider works on: the resources of  *)
(* one environment as AWS sees them, the cache file that remembers their   *)
(* ids, and the process (CLI or GitHub action) that reads and writes both. *)
(* Modules ProviderDelete, SingleNode and Cluster add the commands.        *)
(*                                                                         *)
(* What AWS allows (Blocked, Forget, the asynchronous actions) is the EC2 *)
(* API as pkg/provider/aws uses it, with its dependency rules; it is not   *)
(* code of this repository.                                                *)
(***************************************************************************)
EXTENDS Naturals, FiniteSets

CONSTANTS
  Instance,      \* the EC2 instances the environment asks for
  Multinode,     \* TRUE when spec.cluster is set (IsMultinode)
  Modes,         \* "cli" (holodeck create/delete), "ci" (the GitHub action)
  MaxRetries,    \* attempts of one delete call (10 in the code)
  DiskFaults     \* TRUE when writing the cache file may fail or be torn

ASSUME ModesAssumption   == Modes \subseteq {"cli", "ci"}
ASSUME RetriesAssumption == MaxRetries \in Nat \ {0}
ASSUME FlagsAssumption   == Multinode \in BOOLEAN /\ DiskFaults \in BOOLEAN

Network  == {"vpc", "subnet", "igw", "rtb", "pubsubnet", "pubrtb"}
Groups   == {"sg", "cpsg", "workersg"}
Balancer == {"nlb", "tg", "listener"}
Resource == Network \cup Groups \cup Balancer \cup Instance

ASSUME InstanceAssumption ==
  Instance \cap (Network \cup Groups \cup Balancer \cup {"detach"}) = {}

\* Relations between two resources that make the second one undeletable.
Link == {"igw-vpc", "rtb-subnet", "pubrtb-pubsubnet", "workersg-cpsg", "cpsg-workersg"}

\* The condition that is True in a status, with the message that tells one
\* Progressing or Degraded condition from another (updateStatus compares it).
Condition == {"none", "Creating", "Available", "Terminating", "DeletingGroups",
              "DeletingVPC", "Degraded", "DegradedEC2", "DegradedGroup", "Terminated"}

\* Status of an Environment. "saved" says that Status.Properties is not
\* empty, "props" holds the ids it carries, "cluster" the ids in
\* Status.Cluster (the nodes' instances, and "nlb" for LoadBalancerDNS).
Status == [saved : BOOLEAN, props : SUBSET Resource,
           cluster : SUBSET Resource, cond : Condition]

NoStatus == [saved |-> FALSE, props |-> {}, cluster |-> {}, cond |-> "none"]

VARIABLES
  mode,       \* what called Create ("none" until it is called)
  live,       \* resources that exist in AWS
  links,      \* relations that hold between live resources
  stopping,   \* instances told to terminate that have not stopped yet
  enis,       \* instances whose network interface is still in use
  known,      \* instances whose id AWS knows: launched, and not long gone
  exists,     \* the cache file exists
  file,       \* the status it holds
  torn,       \* history: a write of the cache file has failed
  env,        \* p.Environment.Status in the running process
  cache,      \* the AWS struct: resources whose id the process holds
  pc,         \* where the process is ("idle": no process runs)
  at,         \* the step of the create or delete sequence it is in
  tries       \* failed attempts of the current delete call

cloud == <<live, links, stopping, enis, known>>
disk  == <<exists, file, torn>>
proc  == <<env, cache, pc, at, tries>>

-----------------------------------------------------------------------------
(* Assumed behaviour of EC2                                                *)

\* The subnet instances (and the load balancer) are placed in.
HostSubnet == IF Multinode THEN "pubsubnet" ELSE "subnet"

\* What must be gone before AWS deletes r; everything else is a
\* DependencyViolation (ResourceInUse for a target group).
Blocked(r) ==
  CASE r = "vpc"       -> \/ live \cap ((Network \cup Groups) \ {"vpc", "igw"}) # {}
                          \/ "igw-vpc" \in links
                          \/ enis # {} \/ "nlb" \in live
    [] r \in {"subnet", "pubsubnet"} -> /\ r = HostSubnet
                                        /\ enis # {} \/ "nlb" \in live
    [] r = "rtb"       -> "rtb-subnet" \in links
    [] r = "pubrtb"    -> "pubrtb-pubsubnet" \in links
    [] r = "detach"    -> enis # {}
    [] r = "igw"       -> "igw-vpc" \in links
    [] r = "sg"        -> enis # {}
    [] r = "cpsg"      -> enis # {} \/ "workersg-cpsg" \in links
    [] r = "workersg"  -> enis # {} \/ "cpsg-workersg" \in links
    [] r = "tg"        -> "listener" \in live
    [] OTHER           -> FALSE

\* What disappears with r: a load balancer takes its listeners along, and
\* detaching a gateway deletes nothing.
Victims(r) ==
  CASE r = "nlb"    -> {"nlb", "listener"}
    [] r = "detach" -> {}
    [] OTHER        -> {r}

\* The links that end when r is deleted.
LinksOf(r) ==
  CASE r \in {"detach", "igw"} -> {"igw-vpc"}
    [] r = "subnet"    -> {"rtb-subnet"}
    [] r = "pubsubnet" -> {"pubrtb-pubsubnet"}
    [] r = "workersg"  -> {"workersg-cpsg"}
    [] r = "cpsg"      -> {"cpsg-workersg"}
    [] OTHER           -> {}

\* Nothing is left for the call that deletes r: AWS answers NotFound.
Gone(r) == IF r = "detach" THEN "igw-vpc" \notin links ELSE r \notin live

\* The call deletes r, or finds it gone.
Deleted(r) ==
  /\ Gone(r) \/ ~Blocked(r)
  /\ live' = live \ Victims(r)
  /\ links' = links \ LinksOf(r)
  /\ UNCHANGED <<stopping, enis, known>>

\* The call returns an error: it had no effect, or its answer was lost.
Failed(r) == UNCHANGED cloud \/ Deleted(r)

\* An instance that was told to terminate stops after a while.
Stop(i) ==
  /\ i \in stopping
  /\ stopping' = stopping \ {i}
  /\ live' = live \ {i}
  /\ UNCHANGED <<links, enis, known>>

\* The network interface of a stopped instance lingers, then goes away.
DrainENI(i) ==
  /\ i \in enis \ live
  /\ enis' = enis \ {i}
  /\ UNCHANGED <<live, links, stopping, known>>

\* A running instance shuts itself down; it was launched with
\* InstanceInitiatedShutdownBehavior = terminate.
SelfTerminate(i) ==
  /\ i \in live \ stopping
  /\ stopping' = stopping \cup {i}
  /\ UNCHANGED <<live, links, enis, known>>

\* About an hour after termination AWS stops knowing the instance.
Forget(i) ==
  /\ i \in known \ (live \cup enis)
  /\ known' = known \ {i}
  /\ UNCHANGED <<live, links, stopping, enis>>

-----------------------------------------------------------------------------
(* status.go: the cache file                                               *)

\* os.WriteFile truncates the file before it writes it: a failed write
\* leaves it as it was or empty, and an empty file reads as an empty status.
WriteFails ==
  /\ DiskFaults
  /\ \/ UNCHANGED <<exists, file>>
     \/ exists' = TRUE /\ file' = NoStatus
  /\ torn' = TRUE

WriteFile(s) == exists' = TRUE /\ file' = s /\ UNCHANGED torn

RemoveFile == exists' = FALSE /\ file' = NoStatus /\ UNCHANGED torn

\* What updateStatus writes for the ids c and the condition. Properties that
\* are already there are compared but never changed: the range variable of
\* the loop is a copy.
Updated(c, cond) ==
  [env EXCEPT !.saved = TRUE, !.props = IF env.saved THEN env.props ELSE c, !.cond = cond]

\* A faulty variant: the comparison leaves the conditions out.
SameProperties(c, cond) == env.saved /\ env.props = c

Unmodified(c, cond) == env.saved /\ env.props = c /\ env.cond = cond

UpdateStatus(c, cond) ==
  IF Unmodified(c, cond) THEN UNCHANGED disk ELSE WriteFile(Updated(c, cond))

\* An update whose error the caller only logs.
LoggedUpdate(c, cond) ==
  \/ UpdateStatus(c, cond)
  \/ ~Unmodified(c, cond) /\ WriteFails

-----------------------------------------------------------------------------
(* The process                                                             *)

\* The process ends, by returning or by being killed: its memory is gone.
Exit ==
  /\ pc' = "idle"
  /\ env' = NoStatus
  /\ cache' = {}
  /\ tries' = 0
  /\ UNCHANGED at

=============================================================================
