------------------------------ MODULE Cleaner ------------------------------
(***************************************************************************)
(* pkg/cleanup: the VPC cleaner, run by the periodic workflow (or "holodeck *)
(* cleanup") on the VPCs that jobs left behind.  The job is a GitHub       *)
(* action run of module Cluster on a runner of its own: when the job ends, *)
(* the cache file is gone, and only what AWS lists is left to work from.   *)
(*                                                                         *)
(* The cleaner goes through the stages of DeleteVPCResources.  In a stage  *)
(* it lists the resources of one kind, loosens what holds them and deletes *)
(* them one by one; errors of the last two are logged and nothing else.    *)
(***************************************************************************)
EXTENDS Cluster

CONSTANT LookupMayFail  \* TRUE when GitHub may give no answer about the job

ASSUME LookupAssumption == LookupMayFail \in BOOLEAN

VARIABLES
  job,        \* the GitHub job: "running" or "completed"
  stage,      \* the function of DeleteVPCResources the cleaner is in
  phase,      \* "list", "loosen" or "delete", within a stage
  found,      \* listed resources that are still to be deleted
  regrouped,  \* instances whose interface is in the default group of the VPC
  attempts,   \* failed calls of DeleteVpc
  trouble     \* history: the worst failure of this sweep so far: "none", a call
              \* AWS had to refuse, or one that failed without reason

cleaner   == <<stage, phase, found, attempts, trouble>>
sweepVars == <<vars, job, regrouped, cleaner>>

-----------------------------------------------------------------------------
(* The job                                                                 *)

\* The runner is discarded with its disk.
JobEnds ==
  /\ job = "running" /\ mode # "none" /\ pc = "idle"
  /\ job' = "completed"
  /\ exists' = FALSE /\ file' = NoStatus /\ torn' = FALSE /\ crashed' = FALSE /\ at' = "vpc"
  /\ UNCHANGED <<cloud, env, cache, pc, tries, rolling, mode, node, members, regrouped, cleaner>>

JobRuns ==
  /\ job = "running" /\ Next
  /\ regrouped' = regrouped \cap enis'
  /\ UNCHANGED <<job, cleaner>>

\* What AWS does on its own goes on.
AWSActs ==
  /\ job = "completed" /\ Environment
  /\ regrouped' = regrouped \cap enis'
  /\ UNCHANGED <<job, cleaner>>

-----------------------------------------------------------------------------
(* The cleaner's calls                                                     *)

Others == <<disk, proc, rolling, mode, node, members, crashed, job>>

\* A group is free once no rule refers to it and the interfaces that were in
\* it are gone or moved.
GroupIsFree(r) ==
  /\ enis \subseteq regrouped
  /\ r = "cpsg"     => "workersg-cpsg" \notin links
  /\ r = "workersg" => "cpsg-workersg" \notin links

Refused(r) == IF r \in Groups THEN ~GroupIsFree(r) ELSE Blocked(r)

\* The call for r cannot be refused.
Sound(r) == Gone(r) \/ ~Refused(r)

SweepDeletes(r) ==
  /\ Sound(r)
  /\ live' = live \ Victims(r)
  /\ links' = links \ LinksOf(r)
  /\ UNCHANGED <<stopping, enis, known>>

\* The call fails.
Fails(r) == trouble' = IF trouble = "failed" \/ Sound(r) THEN "failed" ELSE "refused"

TroubleUnless(ok) == trouble' = IF ok THEN trouble ELSE "failed"

\* A call for r succeeds or fails.
Attempt(r) ==
  \/ SweepDeletes(r) /\ UNCHANGED trouble
  \/ UNCHANGED cloud /\ Fails(r)

-----------------------------------------------------------------------------
(* CleanupVPC                                                              *)

\* The job is known to be over, or its status is not known: a lookup that
\* fails is only logged.
MayProceed == job = "completed" \/ LookupMayFail

StartSweep ==
  /\ stage = "idle" /\ "vpc" \in live
  /\ MayProceed
  /\ stage' = "balancer" /\ phase' = "list" /\ trouble' = "none"
  /\ UNCHANGED <<cloud, Others, found, regrouped, attempts>>

\* The context is cancelled, a listing, the termination or the wait for it
\* fails, or the process is killed: the sweep ends with an error.
AbortSweep ==
  /\ stage \notin {"idle", "done"}
  /\ stage' = "idle" /\ phase' = "list" /\ found' = {} /\ attempts' = 0
  /\ TroubleUnless(stage = "await" /\ found \cap live # {})
  /\ UNCHANGED <<cloud, Others, regrouped>>

-----------------------------------------------------------------------------
(* deleteLoadBalancers                                                     *)

\* A failed listing is logged like everything in this stage.
FindBalancer ==
  /\ stage = "balancer"
  /\ \/ "nlb" \in live /\ stage' = "listener" /\ UNCHANGED trouble
     \/ stage' = "instances" /\ TroubleUnless("nlb" \notin live)
  /\ UNCHANGED <<cloud, Others, phase, found, regrouped, attempts>>

DeleteListener ==
  /\ stage = "listener"
  /\ Attempt("listener")
  /\ stage' = "tg"
  /\ UNCHANGED <<Others, phase, found, regrouped, attempts>>

\* The target group is found through the listener, which is gone by now: if
\* it is not, the target group is in use.
DeleteTargetGroup ==
  /\ stage = "tg"
  /\ IF "listener" \in live THEN Attempt("tg") ELSE UNCHANGED <<cloud, trouble>>
  /\ stage' = "nlb"
  /\ UNCHANGED <<Others, phase, found, regrouped, attempts>>

SweepBalancer ==
  /\ stage = "nlb"
  /\ Attempt("nlb")
  /\ stage' = "instances"
  /\ UNCHANGED <<Others, phase, found, regrouped, attempts>>

-----------------------------------------------------------------------------
(* deleteInstances                                                         *)

FindInstances ==
  /\ stage = "instances"
  /\ found' = live \cap Instance
  /\ stage' = IF found' = {} THEN "groups" ELSE "terminate"
  /\ UNCHANGED <<cloud, Others, phase, regrouped, attempts, trouble>>

TerminateFound ==
  /\ stage = "terminate" /\ found \subseteq known
  /\ stopping' = stopping \cup (found \cap live)
  /\ stage' \in {"await", "idle"}
  /\ found' = IF stage' = "idle" THEN {} ELSE found
  /\ TroubleUnless(stage' = "await")
  /\ UNCHANGED <<live, links, enis, known, Others, phase, regrouped, attempts>>

AwaitTerminated ==
  /\ stage = "await" /\ found \cap live = {} /\ found \subseteq known
  /\ stage' = "groups" /\ found' = {}
  /\ UNCHANGED <<cloud, Others, phase, regrouped, attempts, trouble>>

-----------------------------------------------------------------------------
(* deleteSecurityGroups, deleteSubnets, deleteRouteTables,                 *)
(* deleteInternetGateways                                                  *)

NextStage ==
  [groups |-> "subnets", subnets |-> "tables", tables |-> "gateways", gateways |-> "vpc"]

\* The listing finds gateways by their attachment.
Listed ==
  CASE stage = "groups"   -> live \cap Groups
    [] stage = "subnets"  -> live \cap {"subnet", "pubsubnet"}
    [] stage = "tables"   -> live \cap {"rtb", "pubrtb"}
    [] stage = "gateways" -> IF "igw-vpc" \in links THEN live \cap {"igw"} ELSE {}

\* Faulty variants: the rules of the groups are not revoked; the gateway is
\* not detached.
RulesKept ==
  CASE stage = "tables"   -> {"rtb-subnet", "pubrtb-pubsubnet"}
    [] stage = "gateways" -> IF Blocked("detach") THEN {} ELSE {"igw-vpc"}
    [] OTHER              -> {}

GatewayKept ==
  CASE stage = "groups" -> {"cpsg-workersg", "workersg-cpsg"}
    [] stage = "tables" -> {"rtb-subnet", "pubrtb-pubsubnet"}
    [] OTHER            -> {}

\* The links the stage ends before it deletes: the groups' rules, the tables'
\* associations (moved to the main table), the gateway's attachment.
Loosened ==
  CASE stage = "groups"   -> {"cpsg-workersg", "workersg-cpsg"}
    [] stage = "tables"   -> {"rtb-subnet", "pubrtb-pubsubnet"}
    [] stage = "gateways" -> IF Blocked("detach") THEN {} ELSE {"igw-vpc"}
    [] OTHER              -> {}

List ==
  /\ stage \in DOMAIN NextStage /\ phase = "list"
  /\ found' = Listed
  /\ phase' = "loosen"
  /\ UNCHANGED <<cloud, Others, stage, regrouped, attempts, trouble>>

\* Every call may fail, which is logged. Only groups have interfaces to move.
Loosen ==
  /\ stage \in DOMAIN NextStage /\ phase = "loosen"
  /\ \E L \in SUBSET (IF found = {} THEN {} ELSE Loosened) :
     \E E \in SUBSET (IF stage = "groups" /\ found # {} THEN enis ELSE {}) :
       /\ links' = links \ L
       /\ regrouped' = regrouped \cup E
       /\ TroubleUnless(found # {} => L = Loosened /\ (stage = "groups" => E = enis))
  /\ phase' = "delete"
  /\ UNCHANGED <<live, stopping, enis, known, Others, stage, found, attempts>>

DeleteListed ==
  /\ stage \in DOMAIN NextStage /\ phase = "delete"
  /\ \E r \in found : Attempt(r) /\ found' = found \ {r}
  /\ UNCHANGED <<Others, stage, phase, regrouped, attempts>>

StageDone ==
  /\ stage \in DOMAIN NextStage /\ phase = "delete" /\ found = {}
  /\ stage' = NextStage[stage] /\ phase' = "list"
  /\ UNCHANGED <<cloud, Others, found, regrouped, attempts, trouble>>

-----------------------------------------------------------------------------
(* deleteVPC                                                               *)

VPCAttempts == 3

DeleteVPC ==
  /\ stage = "vpc"
  /\ SweepDeletes("vpc")
  /\ stage' = "done" /\ attempts' = 0
  /\ UNCHANGED <<Others, phase, found, regrouped, trouble>>

DeleteVPCRetried ==
  /\ stage = "vpc" /\ attempts + 1 < VPCAttempts
  /\ UNCHANGED cloud \/ SweepDeletes("vpc")
  /\ attempts' = attempts + 1
  /\ Fails("vpc")
  /\ UNCHANGED <<Others, stage, phase, found, regrouped>>

\* A faulty variant: the failure of the last attempt is only logged.
VPCFailsSilently ==
  /\ stage = "vpc" /\ attempts + 1 >= VPCAttempts
  /\ stage' = "done" /\ attempts' = 0
  /\ UNCHANGED <<cloud, Others, phase, found, regrouped, trouble>>

DeleteVPCFails ==
  /\ stage = "vpc" /\ attempts + 1 >= VPCAttempts
  /\ UNCHANGED cloud \/ SweepDeletes("vpc")
  /\ stage' = "idle" /\ attempts' = 0
  /\ Fails("vpc")
  /\ UNCHANGED <<Others, phase, found, regrouped>>

EndSweep ==
  /\ stage = "done" /\ stage' = "idle"
  /\ UNCHANGED <<cloud, Others, phase, found, regrouped, attempts, trouble>>

-----------------------------------------------------------------------------

Sweep ==
  \/ StartSweep \/ AbortSweep
  \/ FindBalancer \/ DeleteListener \/ DeleteTargetGroup \/ SweepBalancer
  \/ FindInstances \/ TerminateFound \/ AwaitTerminated
  \/ List \/ Loosen \/ DeleteListed \/ StageDone
  \/ DeleteVPC \/ DeleteVPCRetried \/ DeleteVPCFails \/ EndSweep

SweepInit ==
  /\ Init
  /\ job = "running" /\ stage = "idle" /\ phase = "list" /\ found = {}
  /\ regrouped = {} /\ attempts = 0 /\ trouble = "none"

SweepNext == JobRuns \/ JobEnds \/ AWSActs \/ Sweep

SweepSpec == SweepInit /\ [][SweepNext]_sweepVars

\* Fairness: the workflow is run again as long as it finds the VPC, a running
\* cleaner goes on, AWS finishes what it started, and from some time on no
\* call fails without reason.
SweepFairness ==
  /\ WF_sweepVars(AWSActs)
  /\ WF_sweepVars(Sweep)
  /\ <>[](trouble # "failed")

FairSweepSpec == SweepSpec /\ SweepFairness

-----------------------------------------------------------------------------
(* Properties                                                              *)

Stage == {"idle", "balancer", "listener", "tg", "nlb", "instances", "terminate",
          "await", "vpc", "done"} \cup DOMAIN NextStage

\* Every variable has the type its declaration announces.
SweepTypeOK ==
  /\ TypeOK
  /\ job \in {"running", "completed"} /\ stage \in Stage
  /\ phase \in {"list", "loosen", "delete"}
  /\ found \subseteq Network \cup Groups \cup Instance /\ regrouped \subseteq Instance
  /\ attempts \in 0 .. VPCAttempts - 1 /\ trouble \in {"none", "refused", "failed"}

\* Only the gateway and the target group may outlive a sweep that reports
\* success, whatever it logged and swallowed on the way (DeleteVPCResources).
SweptMeansGone == stage = "done" => live \subseteq {"igw", "tg"}

\* As long as no call has failed, once the interfaces are drained AWS refuses no
\* call of the cleaner: the order of the stages, and of the
\* loosening before the deletions, respects the dependencies.
SweepRespectsDependencies ==
  trouble = "none" /\ enis = {} /\ "nlb" \notin live =>
    /\ phase = "delete" => \A r \in found : Sound(r)
    /\ stage = "vpc" => Sound("vpc")

\* Whatever a killed or failed job left, also what its cache file never named,
\* repeated sweeps remove it, except a gateway or target group that lost what
\* the cleaner finds it by.
LeftoversAreSwept == (job = "completed") ~> (live \subseteq {"igw", "tg"})

=============================================================================
