--------------------------- MODULE ProviderDelete ---------------------------
(***************************************************************************)
(* delete.go: Delete tears the environment down in phases (load balancer,  *)
(* instances, network interfaces, security groups, network), each call     *)
(* retried and idempotent.  Create's rollback (module SingleNode) runs the *)
(* same handlers on a cache of its own; "rolling" tells the two apart.     *)
(***************************************************************************)
EXTENDS Provider

CONSTANT NameFits   \* TRUE when createNLB did not truncate the name

ASSUME NameAssumption == NameFits \in BOOLEAN

VARIABLE rolling    \* the handlers run inside Create's rollback

\* The order of the delete calls. "detach" is the first half of
\* deleteInternetGateway.
GroupSteps   == {"workersg", "cpsg", "sg"}
NetworkSteps == {"pubsubnet", "pubrtb", "subnet", "rtb", "detach", "igw", "vpc"}
DeleteStep   == GroupSteps \cup NetworkSteps

\* Faulty variants: the route table goes before the subnet, the gateway is
\* left attached.
RouteTableFirst ==
  [workersg |-> "cpsg", cpsg |-> "sg", pubsubnet |-> "pubrtb", pubrtb |-> "rtb",
   rtb |-> "subnet", subnet |-> "detach", detach |-> "igw", igw |-> "vpc"]

GatewayForgotten ==
  [workersg |-> "cpsg", cpsg |-> "sg", pubsubnet |-> "pubrtb", pubrtb |-> "subnet",
   subnet |-> "rtb", rtb |-> "vpc", detach |-> "igw", igw |-> "vpc"]

NextStep == [workersg |-> "cpsg", cpsg |-> "sg",
             pubsubnet |-> "pubrtb", pubrtb |-> "subnet", subnet |-> "rtb",
             rtb |-> "detach", detach |-> "igw", igw |-> "vpc"]

\* The handler has an id to work on.
Applies(r) == IF r = "detach" THEN {"igw", "vpc"} \subseteq cache ELSE r \in cache

Goto(place, step) == pc' = place /\ at' = step

-----------------------------------------------------------------------------
(* Starting a deletion                                                     *)

\* "holodeck delete": Manager.DeleteInstance reads the environment, with its
\* status, from the cache file.
StartDeleteCLI ==
  /\ mode = "cli" /\ pc = "idle" /\ exists /\ file.saved
  /\ env' = file /\ cache' = file.props
  /\ Goto("balancer", "nlb")
  /\ UNCHANGED <<cloud, disk, tries, rolling>>

\* A torn cache file names no provider: nothing is deleted in AWS and the
\* file is removed.
ForgetTornFile ==
  /\ mode = "cli" /\ pc = "idle" /\ exists /\ ~file.saved
  /\ RemoveFile
  /\ UNCHANGED <<cloud, proc, rolling>>

\* The GitHub action's second run: unless the cached condition is
\* Terminated, the provider is built from the workflow's config file, whose
\* status is empty, and only the ids come from the cache file.
StartDeleteCI ==
  /\ mode = "ci" /\ pc = "idle" /\ exists /\ file.cond # "Terminated"
  /\ env' = NoStatus /\ cache' = file.props
  /\ Goto("balancer", "nlb")
  /\ UNCHANGED <<cloud, disk, tries, rolling>>

-----------------------------------------------------------------------------
(* Phase 0: the load balancer                                              *)

NoBalancer ==
  /\ pc = "balancer"
  /\ ~Multinode \/ "nlb" \notin env.cluster
  /\ Goto("terminate", at)
  /\ UNCHANGED <<cloud, disk, env, cache, tries, rolling>>

\* The lookup by name finds nothing when the balancer is gone or when its
\* name was truncated on creation.
BalancerNotFound ==
  /\ pc = "balancer" /\ Multinode /\ "nlb" \in env.cluster
  /\ "nlb" \notin live \/ ~NameFits
  /\ Goto("terminate", at)
  /\ UNCHANGED <<cloud, disk, env, cache, tries, rolling>>

\* DescribeTargetGroups finds the target group through the listener; when
\* that lookup fails only the balancer itself is deleted.
BalancerFound ==
  /\ pc = "balancer" /\ Multinode /\ "nlb" \in env.cluster
  /\ "nlb" \in live /\ NameFits
  /\ \/ Goto("deleteNLB", "nlb")
     \/ "listener" \in live /\ Goto("deleteNLB", "listener")
  /\ UNCHANGED <<cloud, disk, env, cache, tries, rolling>>

BalancerLookupFails ==
  /\ pc = "balancer" /\ Multinode /\ "nlb" \in env.cluster
  /\ Exit /\ UNCHANGED <<cloud, disk, rolling>>

\* deleteListener and deleteTargetGroup: one attempt, errors are logged.
DeleteNLBPart ==
  /\ pc = "deleteNLB" /\ at \in {"listener", "tg"}
  /\ Deleted(at) \/ Failed(at)
  /\ Goto("deleteNLB", IF at = "listener" THEN "tg" ELSE "nlb")
  /\ UNCHANGED <<disk, env, cache, tries, rolling>>

DeleteNLB ==
  /\ pc = "deleteNLB" /\ at = "nlb"
  /\ \/ Deleted("nlb") /\ Goto("terminate", at) /\ UNCHANGED <<env, cache, tries>>
     \/ Failed("nlb") /\ Exit
  /\ UNCHANGED <<disk, rolling>>

-----------------------------------------------------------------------------
(* Phase 1: the instances                                                  *)

InstanceIDs == Instance \cap (env.cluster \cup cache)

NoInstances ==
  /\ pc = "terminate" /\ InstanceIDs = {}
  /\ Goto("drain", at)
  /\ UNCHANGED <<cloud, disk, env, cache, tries, rolling>>

AnnounceTermination ==
  /\ pc = "terminate" /\ InstanceIDs # {}
  /\ LoggedUpdate(cache, "Terminating")
  /\ Goto("terminateCall", at)
  /\ UNCHANGED <<cloud, env, cache, tries, rolling>>

\* One TerminateInstances call covers all ids: if AWS does not know one of
\* them it refuses the call, and the error is taken for "already terminated".
Terminated ==
  /\ IF InstanceIDs \subseteq known
     THEN stopping' = stopping \cup (InstanceIDs \cap live)
     ELSE UNCHANGED stopping
  /\ UNCHANGED <<live, links, enis, known>>

TerminateInstances ==
  /\ pc = "terminateCall"
  /\ Terminated
  /\ tries' = 0 /\ Goto("await", at)
  /\ UNCHANGED <<disk, env, cache, rolling>>

TerminateRetry ==
  /\ pc = "terminateCall"
  /\ UNCHANGED cloud \/ Terminated
  /\ tries + 1 < MaxRetries
  /\ tries' = tries + 1
  /\ UNCHANGED <<disk, env, cache, pc, at, rolling>>

TerminateFails ==
  /\ pc = "terminateCall"
  /\ UNCHANGED cloud \/ Terminated
  /\ tries + 1 >= MaxRetries
  /\ LoggedUpdate(cache, "DegradedEC2")
  /\ Exit /\ UNCHANGED rolling

\* One goroutine per instance waits for the state "terminated"; an id AWS
\* has forgotten counts as terminated. Delete goes on when all agree ...
AwaitTermination ==
  /\ pc = "await"
  /\ InstanceIDs \cap live = {}
  /\ Goto("drain", at)
  /\ UNCHANGED <<cloud, disk, env, cache, tries, rolling>>

\* ... and gives up when one of them times out.
AwaitTimeout ==
  /\ pc = "await"
  /\ Exit /\ UNCHANGED <<cloud, disk, rolling>>

\* Phase 1.5: the wait for the interfaces ends when they are gone, or after
\* five minutes; Delete continues either way.
DrainENIs ==
  /\ pc = "drain"
  /\ Goto("groups", at)
  /\ UNCHANGED <<cloud, disk, env, cache, tries, rolling>>

-----------------------------------------------------------------------------
(* Phases 2 and 3: security groups and network                             *)

\* deleteSecurityGroups first revokes the rules by which the two cluster
\* groups reference each other; errors there are logged.
DeleteSecurityGroups ==
  /\ pc = "groups"
  /\ LoggedUpdate(cache, "DeletingGroups")
  /\ links' \in IF {"cpsg", "workersg"} \subseteq cache
                THEN {links \ S : S \in SUBSET {"workersg-cpsg", "cpsg-workersg"}}
                ELSE {links}
  /\ Goto("delete", "workersg")
  /\ UNCHANGED <<live, stopping, enis, known, env, cache, tries, rolling>>

DeleteVPCResources ==
  /\ pc = "network"
  /\ LoggedUpdate(cache, "DeletingVPC")
  /\ Goto("delete", "pubsubnet")
  /\ UNCHANGED <<cloud, env, cache, tries, rolling>>

\* Where the process is after step r succeeded.
StepDone(r) ==
  \/ /\ r \in DOMAIN NextStep /\ (rolling => r \in {"workersg", "cpsg", "detach"})
     /\ Goto("delete", NextStep[r])
  \/ rolling /\ r \notin {"workersg", "cpsg", "detach"} /\ Goto("rollback", r)
  \/ ~rolling /\ r = "sg" /\ Goto("network", r)
  \/ ~rolling /\ r = "vpc" /\ Goto("finish", r)

\* No id, or (in a cluster) the shared group is the control-plane group that
\* is already deleted; its id is cleared.
SkipStep ==
  /\ pc = "delete"
  /\ \/ ~Applies(at) /\ UNCHANGED cache
     \/ at = "sg" /\ "cpsg" \in cache /\ cache' = cache \ {"sg"}
  /\ StepDone(at)
  /\ UNCHANGED <<cloud, disk, env, tries, rolling>>

Runs == pc = "delete" /\ Applies(at) /\ ~(at = "sg" /\ "cpsg" \in cache)

StepSucceeds ==
  /\ Runs
  /\ Deleted(at)
  /\ tries' = 0 /\ StepDone(at)
  /\ UNCHANGED <<disk, env, cache, rolling>>

\* A faulty variant: the loop makes attempts too many.
StepRetriedTooOften ==
  /\ Runs
  /\ Failed(at)
  /\ tries <= MaxRetries
  /\ tries' = tries + 1
  /\ UNCHANGED <<disk, env, cache, pc, at, rolling>>

StepRetried ==
  /\ Runs
  /\ Failed(at)
  /\ tries + 1 < MaxRetries
  /\ tries' = tries + 1
  /\ UNCHANGED <<disk, env, cache, pc, at, rolling>>

\* Faulty variants: the error of the last attempt is only logged, and Delete
\* goes on to the next step or returns no error.
StepFailsGoesOn ==
  /\ Runs
  /\ Failed(at)
  /\ tries + 1 >= MaxRetries
  /\ tries' = 0 /\ StepDone(at)
  /\ UNCHANGED <<disk, env, cache, rolling>>

StepFailsSilently ==
  /\ Runs
  /\ Failed(at)
  /\ tries + 1 >= MaxRetries
  /\ tries' = 0 /\ Goto("deleted", at)
  /\ UNCHANGED <<disk, env, cache, rolling>>

\* Out of attempts: a group's failure is recorded, the error is returned.
\* Delete stops there, a rollback goes on with the next cleanup function.
StepFails ==
  /\ Runs
  /\ Failed(at)
  /\ tries + 1 >= MaxRetries
  /\ IF at \in GroupSteps THEN LoggedUpdate(cache, "DegradedGroup") ELSE UNCHANGED disk
  /\ IF rolling
     THEN tries' = 0 /\ Goto("rollback", at) /\ UNCHANGED <<env, cache>>
     ELSE Exit
  /\ UNCHANGED rolling

\* The last update of the status: its error fails Delete.
Finish ==
  /\ pc = "finish"
  /\ \/ UpdateStatus(cache, "Terminated") /\ Goto("deleted", at)
                                          /\ UNCHANGED <<env, cache, tries>>
     \/ ~Unmodified(cache, "Terminated") /\ WriteFails /\ Exit
  /\ UNCHANGED <<cloud, rolling>>

\* Delete returned without error: the CLI removes the cache file (which may
\* fail), the action keeps it.
Deregister ==
  /\ pc = "deleted"
  /\ \/ mode = "cli" /\ RemoveFile
     \/ (mode = "ci" \/ DiskFaults) /\ UNCHANGED disk
  /\ Exit
  /\ UNCHANGED <<cloud, rolling>>

-----------------------------------------------------------------------------

StartDelete == StartDeleteCLI \/ ForgetTornFile \/ StartDeleteCI

DeleteBalancer ==
  \/ NoBalancer \/ BalancerNotFound \/ BalancerFound \/ BalancerLookupFails
  \/ DeleteNLBPart \/ DeleteNLB

DeleteInstances ==
  \/ NoInstances \/ AnnounceTermination \/ TerminateInstances \/ TerminateRetry
  \/ TerminateFails \/ AwaitTermination \/ AwaitTimeout \/ DrainENIs

DeleteResources ==
  \/ DeleteSecurityGroups \/ DeleteVPCResources \/ SkipStep
  \/ StepSucceeds \/ StepRetried \/ StepFails \/ Finish \/ Deregister

Delete == StartDelete \/ DeleteBalancer \/ DeleteInstances \/ DeleteResources

=============================================================================
