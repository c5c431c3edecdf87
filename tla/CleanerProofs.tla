--------------------------- MODULE CleanerProofs ---------------------------
(***************************************************************************)
(* Proofs about Cleaner, for every cluster whose job's status is known:    *)
(* the types, SweptMeansGone and SweepRespectsDependencies.  While the job *)
(* runs, the invariant of ClusterProofs holds; when it ends, its file is   *)
(* gone, and what AWS needs is all that is left to argue from.             *)
(***************************************************************************)
EXTENDS Cleaner, ClusterProofs

-----------------------------------------------------------------------------
(* The inductive invariant                                                 *)

\* The cleaner starts after the job has ended, deletes and loosens in the
\* stages that list, and has found what the stage deletes.
SweepControl ==
  /\ job = "running" => IInv /\ stage = "idle"
  /\ phase # "list" => stage \in DOMAIN NextStage
  /\ phase # "list" /\ stage = "groups"   => found \subseteq Groups
  /\ phase # "list" /\ stage = "subnets"  => found \subseteq {"subnet", "pubsubnet"}
  /\ phase # "list" /\ stage = "tables"   => found \subseteq {"rtb", "pubrtb"}
  /\ phase # "list" /\ stage = "gateways" => found \subseteq {"igw"}

Rules == {"workersg-cpsg", "cpsg-workersg"}

\* What the stages before the current one, and the phases within it, have
\* removed if no call has failed.
Cleared ==
  /\ stage \in {"subnets", "tables", "gateways", "vpc"} => live \cap Groups = {}
  /\ stage \in {"tables", "gateways", "vpc"} => live \cap {"subnet", "pubsubnet"} = {}
  /\ stage \in {"gateways", "vpc"} => live \cap {"rtb", "pubrtb"} = {}
  /\ stage = "vpc" => "igw-vpc" \notin links
  /\ phase # "list" =>
       /\ stage = "groups"   => live \cap Groups \subseteq found
       /\ stage = "subnets"  => live \cap {"subnet", "pubsubnet"} \subseteq found
       /\ stage = "tables"   => live \cap {"rtb", "pubrtb"} \subseteq found
       /\ stage = "gateways" => ("igw-vpc" \in links => found # {})
  /\ phase = "delete" =>
       /\ stage = "groups"   => found = {} \/ links \cap Rules = {}
       /\ stage = "tables"   => found = {} \/ links \cap {"rtb-subnet", "pubrtb-pubsubnet"} = {}
       /\ stage = "gateways" => "igw-vpc" \notin links

SweepIInv ==
  /\ SweepTypeOK /\ Needs /\ SweepControl /\ SweptMeansGone
  /\ trouble = "none" => Cleared

-----------------------------------------------------------------------------
(* Lemmas about the operators of the model                                 *)

Listing == {"groups", "subnets", "tables", "gateways"}

LEMMA Stages ==
  /\ DOMAIN NextStage = Listing
  /\ NextStage["groups"] = "subnets" /\ NextStage["subnets"] = "tables"
  /\ NextStage["tables"] = "gateways" /\ NextStage["gateways"] = "vpc"
  /\ Stage = {"idle", "balancer", "listener", "tg", "nlb", "instances", "terminate",
              "await", "vpc", "done"} \cup Listing
BY DEF NextStage, Stage, Listing

\* A call that AWS grants takes r and nothing that something else needs.
LEMMA SweepCall ==
  ASSUME TypeOK, Needs, NEW r \in Network \cup Groups \cup Balancer, SweepDeletes(r)
  PROVE  /\ live' \subseteq live /\ links' \subseteq links
         /\ stopping' = stopping /\ enis' = enis /\ known' = known
         /\ r \notin live'
         /\ Needs'
<1>1. CASE r \in Groups
  BY <1>1, Names DEF SweepDeletes, Victims, LinksOf, Needs, Groups, Infra, Balancer, Held,
     DeleteStep, GroupSteps
<1>2. CASE r \notin Groups
  <2>1. Deleted(r)
    BY <1>2 DEF SweepDeletes, Sound, Refused, Deleted
  <2>2. r \in DeleteStep \cup Balancer /\ r # "detach"
    BY <1>2 DEF Network, DeleteStep, NetworkSteps, Balancer
  <2>. QED
    BY <2>1, <2>2, DeletedEffect
<1>. QED
  BY <1>1, <1>2

\* A failed call is remembered, the others have done their work.
LEMMA AttemptEffect ==
  ASSUME TypeOK, Needs, NEW r \in Network \cup Groups \cup Balancer, Attempt(r),
         trouble \in {"none", "refused", "failed"}
  PROVE  /\ live' \subseteq live /\ links' \subseteq links
         /\ stopping' = stopping /\ enis' = enis /\ known' = known
         /\ Needs'
         /\ trouble' \in {"none", "refused", "failed"}
         /\ trouble' = "none" => trouble = "none" /\ r \notin live'
<1>1. CASE SweepDeletes(r) /\ UNCHANGED trouble
  BY <1>1, SweepCall
<1>2. CASE UNCHANGED cloud /\ Fails(r)
  BY <1>2 DEF cloud, Fails, Needs
<1>. QED
  BY <1>1, <1>2 DEF Attempt

\* The cleaner has no effect on the job's variables, and takes away at most.
LEMMA SweepKeepsTypes ==
  ASSUME TypeOK, UNCHANGED Others, live' \subseteq live, links' \subseteq links,
         stopping' \subseteq Instance, enis' = enis, known' = known
  PROVE  TypeOK'
BY DEF TypeOK, Others, disk, proc

\* Without a VPC nothing is left but what the cleaner may leave.
LEMMA NothingOutlivesTheVPC ==
  ASSUME TypeOK', Needs', "vpc" \notin live'
  PROVE  SweptMeansGone'
<1>1. live' \cap (Infra \ {"vpc", "igw"}) = {}
  BY DEF Needs
<1>2. "pubsubnet" \notin live'
  BY <1>1 DEF Infra
<1>3. enis' = {} /\ "nlb" \notin live'
  BY <1>2 DEF Needs
<1>4. live' \cap Instance = {} /\ "listener" \notin live'
  BY <1>3 DEF Needs
<1>. QED
  BY <1>1, <1>3, <1>4 DEF TypeOK, Balancer, SweptMeansGone

-----------------------------------------------------------------------------
(* The invariant holds initially, and every step preserves it              *)

LEMMA SweepInvInit == SweepInit => SweepIInv
<1>. SUFFICES ASSUME SweepInit PROVE SweepIInv
  OBVIOUS
<1>1. IInv
  BY IInvInit DEF SweepInit
<1>. QED
  BY <1>1, Stages
     DEF SweepInit, SweepIInv, IInv, SweepTypeOK, SweepControl, SweptMeansGone, Cleared,
         VPCAttempts

\* The job goes on, ends, or AWS acts after its end.
LEMMA JobPreserves ==
  ASSUME SweepIInv, JobRuns \/ JobEnds \/ AWSActs
  PROVE  SweepIInv'
<1>. USE DEF cleaner
<1>0. TypeOK /\ Needs /\ SweepTypeOK /\ SweepControl
  BY DEF SweepIInv, SweepTypeOK
<1>1. CASE JobRuns
  <2>1. IInv' /\ stage' = "idle" /\ UNCHANGED <<job, cleaner>> /\ job = "running"
    BY <1>0, <1>1, IInvNext DEF JobRuns, SweepControl
  <2>2. TypeOK' /\ Needs' /\ regrouped' \subseteq Instance
    BY <1>1, <2>1 DEF JobRuns, IInv, TypeOK
  <2>. QED
    BY <1>0, <2>1, <2>2, Stages
       DEF SweepIInv, SweepTypeOK, SweepControl, SweptMeansGone, Cleared, Listing
<1>2. CASE JobEnds
  <2>1. /\ stage = "idle" /\ job' = "completed" /\ UNCHANGED <<cloud, regrouped, cleaner>>
    BY <1>0, <1>2 DEF JobEnds, SweepControl
  <2>2. TypeOK' /\ Needs'
    BY <1>0, <1>2, NoStatusType DEF JobEnds, TypeOK, Needs, cloud, Step, Infra
  <2>. QED
    BY <1>0, <2>1, <2>2, Stages
       DEF SweepIInv, SweepTypeOK, SweepControl, SweptMeansGone, Cleared, Listing
<1>3. CASE AWSActs
  <2>1. /\ TypeOK' /\ Needs' /\ live' \subseteq live /\ links' = links
        /\ job = "completed" /\ UNCHANGED <<job, cleaner>> /\ regrouped' \subseteq Instance
    BY <1>0, <1>3, EnvironmentEffect DEF AWSActs, SweepTypeOK
  <2>. QED
    BY <1>0, <2>1 DEF SweepIInv, SweepTypeOK, SweepControl, SweptMeansGone, Cleared
<1>. QED
  BY <1>1, <1>2, <1>3

\* The first stages and the ends of a sweep: nothing is cleared yet.
LEMMA SweepStartPreserves ==
  ASSUME ~LookupMayFail, SweepIInv,
         \/ StartSweep \/ AbortSweep \/ FindBalancer \/ DeleteListener \/ DeleteTargetGroup
         \/ SweepBalancer \/ FindInstances \/ TerminateFound \/ AwaitTerminated
         \/ DeleteVPCFails \/ EndSweep
  PROVE  SweepIInv'
<1>. USE DEF cloud
<1>0. TypeOK /\ Needs /\ SweepTypeOK /\ SweepControl
  BY DEF SweepIInv, SweepTypeOK
<1>1. /\ UNCHANGED Others /\ job' = "completed" /\ phase' = "list"
      /\ stage' \in {"idle", "balancer", "listener", "tg", "nlb", "instances", "terminate",
                     "await", "groups"}
  <2>1. UNCHANGED Others /\ job = "completed"
    BY <1>0
       DEF StartSweep, MayProceed, AbortSweep, FindBalancer, DeleteListener,
           DeleteTargetGroup, SweepBalancer, FindInstances, TerminateFound,
           AwaitTerminated, DeleteVPCFails, EndSweep, SweepControl, SweepTypeOK
  <2>2. phase = "list" \/ stage \in Listing
    BY <1>0, Stages DEF SweepControl, SweepTypeOK
  <2>. QED
    BY <2>1, <2>2
       DEF StartSweep, AbortSweep, FindBalancer, DeleteListener,
           DeleteTargetGroup, SweepBalancer, FindInstances, TerminateFound,
           AwaitTerminated, DeleteVPCFails, EndSweep, Others, Listing
<1>2. /\ live' \subseteq live /\ links' \subseteq links /\ stopping' \subseteq Instance
      /\ enis' = enis /\ known' = known /\ Needs'
      /\ trouble' \in {"none", "refused", "failed"}
  <2>1. CASE DeleteListener \/ DeleteTargetGroup \/ SweepBalancer
    <3>1. UNCHANGED <<cloud, trouble>> \/ (\E r \in Balancer : Attempt(r))
      BY <2>1 DEF DeleteListener, DeleteTargetGroup, SweepBalancer, Balancer
    <3>. QED
      BY <1>0, <3>1, AttemptEffect DEF SweepTypeOK, TypeOK, Needs
  <2>2. CASE DeleteVPCFails
    <3>1. UNCHANGED cloud \/ SweepDeletes("vpc")
      BY <2>2 DEF DeleteVPCFails
    <3>2. trouble' \in {"none", "refused", "failed"}
      BY <2>2 DEF DeleteVPCFails, Fails
    <3>. QED
      BY <1>0, <3>1, <3>2, SweepCall DEF TypeOK, Needs, Network
  <2>3. CASE TerminateFound
    BY <1>0, <2>3 DEF TerminateFound, TroubleUnless, SweepTypeOK, TypeOK, Needs
  <2>4. CASE StartSweep \/ AbortSweep \/ FindBalancer \/ FindInstances \/ AwaitTerminated
               \/ EndSweep
    BY <1>0, <2>4
       DEF StartSweep, AbortSweep, FindBalancer, FindInstances, AwaitTerminated, EndSweep,
           TroubleUnless, SweepTypeOK, TypeOK, Needs
  <2>. QED
    BY <2>1, <2>2, <2>3, <2>4
<1>3. /\ found' \subseteq Network \cup Groups \cup Instance /\ regrouped' \subseteq Instance
      /\ attempts' \in 0 .. VPCAttempts - 1
  BY <1>0
     DEF StartSweep, AbortSweep, FindBalancer, DeleteListener,
         DeleteTargetGroup, SweepBalancer, FindInstances, TerminateFound,
         AwaitTerminated, DeleteVPCFails, EndSweep, SweepTypeOK, VPCAttempts
<1>. QED
  BY <1>1, <1>2, <1>3, SweepKeepsTypes, Stages
     DEF SweepIInv, SweepTypeOK, SweepControl, SweptMeansGone, Cleared, Listing

\* The stages that list, loosen and delete.
LEMMA StagesPreserve ==
  ASSUME ~LookupMayFail, SweepIInv, List \/ Loosen \/ DeleteListed \/ StageDone
  PROVE  SweepIInv'
<1>. USE DEF cloud
<1>0. /\ TypeOK /\ Needs /\ SweepTypeOK /\ SweepControl /\ stage \in Listing
      /\ UNCHANGED Others /\ job = "completed" /\ job' = "completed"
      /\ trouble = "none" => Cleared
  <2>1. stage \in Listing /\ UNCHANGED Others
    BY Stages DEF List, Loosen, DeleteListed, StageDone
  <2>. QED
    BY <2>1 DEF SweepIInv, SweepTypeOK, SweepControl, Others, Listing
<1>1. CASE List
  <2>1. /\ phase = "list" /\ phase' = "loosen" /\ found' = Listed
        /\ UNCHANGED <<cloud, stage, regrouped, attempts, trouble>>
    BY <1>1 DEF List
  <2>2. /\ stage = "groups"   => found' = live \cap Groups
        /\ stage = "subnets"  => found' = live \cap {"subnet", "pubsubnet"}
        /\ stage = "tables"   => found' = live \cap {"rtb", "pubrtb"}
        /\ stage = "gateways" => found' \subseteq {"igw"}
        /\ stage = "gateways" /\ "igw-vpc" \in links => found' = {"igw"}
    <3>1. "igw-vpc" \in links => live \cap {"igw"} = {"igw"}
      BY <1>0 DEF Needs
    <3>. QED
      BY <2>1, <3>1 DEF Listed
  <2>3. TypeOK' /\ Needs'
    BY <1>0, <2>1, SweepKeepsTypes DEF TypeOK, Needs
  <2>4. found' \subseteq Network \cup Groups \cup Instance
    BY <1>0, <2>2 DEF Listing, Network
  <2>5. SweepTypeOK' /\ SweepControl' /\ SweptMeansGone'
    BY <1>0, <2>1, <2>2, <2>3, <2>4, Stages
       DEF SweepTypeOK, SweepControl, SweptMeansGone, Listing
  <2>6. trouble' = "none" => Cleared'
    BY <1>0, <2>1, <2>2 DEF Cleared
  <2>. QED
    BY <2>3, <2>5, <2>6 DEF SweepIInv
<1>2. CASE Loosen
  <2>. PICK L \in SUBSET (IF found = {} THEN {} ELSE Loosened),
            E \in SUBSET (IF stage = "groups" /\ found # {} THEN enis ELSE {}) :
         /\ links' = links \ L
         /\ regrouped' = regrouped \cup E
         /\ TroubleUnless(found # {} => L = Loosened /\ (stage = "groups" => E = enis))
    BY <1>2 DEF Loosen
  <2>1. /\ phase = "loosen" /\ phase' = "delete" /\ links' \subseteq links
        /\ regrouped' \subseteq Instance
        /\ trouble' \in {"none", "refused", "failed"}
        /\ trouble' = "none" => trouble = "none" /\ (found # {} => L = Loosened)
        /\ UNCHANGED <<live, stopping, enis, known, stage, found, attempts>>
    BY <1>0, <1>2 DEF Loosen, TroubleUnless, SweepTypeOK, TypeOK
  <2>2. TypeOK' /\ Needs'
    BY <1>0, <2>1, SweepKeepsTypes DEF TypeOK, Needs
  <2>3. SweepTypeOK' /\ SweepControl' /\ SweptMeansGone'
    BY <1>0, <2>1, <2>2, Stages DEF SweepTypeOK, SweepControl, SweptMeansGone, Listing
  <2>4. ASSUME trouble' = "none" PROVE Cleared'
    <3>1. trouble = "none" /\ Cleared /\ (found # {} => links' = links \ Loosened)
      BY <1>0, <2>1, <2>4
    <3>2. stage = "groups" => found = {} \/ links' \cap Rules = {}
      BY <3>1 DEF Loosened, Rules
    <3>3. stage = "tables" => found = {} \/ links' \cap {"rtb-subnet", "pubrtb-pubsubnet"} = {}
      BY <3>1 DEF Loosened
    <3>4. stage = "gateways" => "igw-vpc" \notin links'
      <4>1. stage = "gateways" => enis = {}
        BY <1>0, <3>1 DEF Cleared, Needs
      <4>2. stage = "gateways" => Loosened = {"igw-vpc"}
        BY <4>1 DEF Loosened, Blocked
      <4>. QED
        BY <2>1, <3>1, <4>2 DEF Cleared
    <3>. QED
      BY <2>1, <3>1, <3>2, <3>3, <3>4 DEF Cleared
  <2>. QED
    BY <2>2, <2>3, <2>4 DEF SweepIInv
<1>3. CASE DeleteListed
  <2>. PICK r \in found : Attempt(r) /\ found' = found \ {r}
    BY <1>3 DEF DeleteListed
  <2>1. phase = "delete" /\ UNCHANGED <<stage, phase, regrouped, attempts>>
    BY <1>3 DEF DeleteListed
  <2>2. r \in Network \cup Groups
    BY <1>0, <2>1 DEF SweepControl, Listing, Network
  <2>3. /\ live' \subseteq live /\ links' \subseteq links
        /\ stopping' = stopping /\ enis' = enis /\ known' = known /\ Needs'
        /\ trouble' \in {"none", "refused", "failed"}
        /\ trouble' = "none" => trouble = "none" /\ r \notin live'
    BY <1>0, <2>2, AttemptEffect DEF SweepTypeOK
  <2>4. TypeOK'
    BY <1>0, <2>3, SweepKeepsTypes DEF TypeOK
  <2>5. SweepTypeOK' /\ SweepControl' /\ SweptMeansGone'
    BY <1>0, <2>1, <2>3, <2>4, Stages DEF SweepTypeOK, SweepControl, SweptMeansGone, Listing
  <2>6. trouble' = "none" => Cleared'
    BY <1>0, <2>1, <2>3 DEF Cleared
  <2>. QED
    BY <2>3, <2>5, <2>6 DEF SweepIInv
<1>4. CASE StageDone
  <2>1. /\ phase = "delete" /\ found = {} /\ stage' = NextStage[stage] /\ phase' = "list"
        /\ UNCHANGED <<cloud, found, regrouped, attempts, trouble>>
    BY <1>4 DEF StageDone
  <2>2. TypeOK' /\ Needs'
    BY <1>0, <2>1, SweepKeepsTypes DEF TypeOK, Needs
  <2>3. SweepTypeOK' /\ SweepControl' /\ SweptMeansGone'
    BY <1>0, <2>1, <2>2, Stages DEF SweepTypeOK, SweepControl, SweptMeansGone, Listing
  <2>4. trouble' = "none" => Cleared'
    BY <1>0, <2>1, Stages DEF Cleared, Listing
  <2>. QED
    BY <2>2, <2>3, <2>4 DEF SweepIInv
<1>. QED
  BY <1>1, <1>2, <1>3, <1>4

\* The VPC is deleted, or tried again.
LEMMA VPCPreserves ==
  ASSUME ~LookupMayFail, SweepIInv, DeleteVPC \/ DeleteVPCRetried
  PROVE  SweepIInv'
<1>. USE DEF cloud
<1>0. /\ TypeOK /\ Needs /\ SweepTypeOK /\ SweepControl /\ stage = "vpc"
      /\ UNCHANGED Others /\ job = "completed" /\ job' = "completed" /\ phase = "list"
      /\ UNCHANGED <<phase, found, regrouped>>
      /\ trouble = "none" => Cleared
  BY Stages
     DEF DeleteVPC, DeleteVPCRetried, SweepIInv, SweepTypeOK, SweepControl, Others, Listing
<1>1. CASE DeleteVPC
  <2>1. /\ stage' = "done" /\ attempts' = 0 /\ trouble' = trouble
        /\ live' \subseteq live /\ links' \subseteq links /\ "vpc" \notin live'
        /\ stopping' = stopping /\ enis' = enis /\ known' = known /\ Needs'
    BY <1>0, <1>1, SweepCall DEF DeleteVPC, Network
  <2>2. TypeOK'
    BY <1>0, <2>1, SweepKeepsTypes DEF TypeOK
  <2>3. SweptMeansGone'
    BY <2>1, <2>2, NothingOutlivesTheVPC
  <2>. QED
    BY <1>0, <2>1, <2>2, <2>3, Stages
       DEF SweepIInv, SweepTypeOK, SweepControl, Cleared, VPCAttempts, Listing
<1>2. CASE DeleteVPCRetried
  <2>1. /\ stage' = stage /\ attempts' \in 0 .. VPCAttempts - 1
        /\ trouble' \in {"refused", "failed"}
    BY <1>0, <1>2 DEF DeleteVPCRetried, Fails, SweepTypeOK, VPCAttempts
  <2>2. /\ live' \subseteq live /\ links' \subseteq links
        /\ stopping' = stopping /\ enis' = enis /\ known' = known /\ Needs'
    <3>1. UNCHANGED cloud \/ SweepDeletes("vpc")
      BY <1>2 DEF DeleteVPCRetried
    <3>. QED
      BY <1>0, <3>1, SweepCall DEF Network, Needs
  <2>3. TypeOK'
    BY <1>0, <2>2, SweepKeepsTypes DEF TypeOK
  <2>. QED
    BY <1>0, <2>1, <2>2, <2>3, Stages
       DEF SweepIInv, SweepTypeOK, SweepControl, SweptMeansGone, Listing
<1>. QED
  BY <1>1, <1>2

LEMMA SweepInvNext ==
  ASSUME ~LookupMayFail
  PROVE  SweepIInv /\ [SweepNext]_sweepVars => SweepIInv'
<1>. SUFFICES ASSUME SweepIInv, [SweepNext]_sweepVars PROVE SweepIInv'
  OBVIOUS
<1>1. CASE JobRuns \/ JobEnds \/ AWSActs
  BY <1>1, JobPreserves
<1>2. CASE Sweep
  BY <1>2, SweepStartPreserves, StagesPreserve, VPCPreserves DEF Sweep
<1>3. CASE UNCHANGED sweepVars
  <2>1. UNCHANGED vars /\ UNCHANGED <<job, regrouped, cleaner>>
    BY <1>3 DEF sweepVars
  <2>2. job = "running" => IInv'
    BY <2>1, IInvNext DEF SweepIInv, SweepControl
  <2>. QED
    BY <2>1, <2>2
       DEF vars, cloud, disk, proc, cleaner, SweepIInv, SweepTypeOK, TypeOK, Needs,
           SweepControl, SweptMeansGone, Cleared
<1>. QED
  BY <1>1, <1>2, <1>3 DEF SweepNext

-----------------------------------------------------------------------------
(* The theorems                                                            *)

\* Every reachable state satisfies the invariant: the job may have been
\* killed anywhere in CreateCluster or a deletion before the cleaner comes.
THEOREM SweepInductive ==
  ASSUME ~LookupMayFail
  PROVE  SweepSpec => []SweepIInv
<1>1. SweepInit => SweepIInv
  BY SweepInvInit
<1>2. SweepIInv /\ [SweepNext]_sweepVars => SweepIInv'
  BY SweepInvNext
<1>. QED
  BY <1>1, <1>2, PTL DEF SweepSpec

\* The variables of the cleaner and of the job keep their types.
THEOREM SweepTypeCorrect ==
  ASSUME ~LookupMayFail
  PROVE  SweepSpec => []SweepTypeOK
<1>1. SweepIInv => SweepTypeOK
  BY DEF SweepIInv
<1>. QED
  BY <1>1, SweepInductive, PTL

\* A sweep that reports success has left a gateway or a target group at most.
THEOREM SweptIsTrue ==
  ASSUME ~LookupMayFail
  PROVE  SweepSpec => []SweptMeansGone
<1>1. SweepIInv => SweptMeansGone
  BY DEF SweepIInv
<1>. QED
  BY <1>1, SweepInductive, PTL

\* The order of DeleteVPCResources is that of the dependencies: while no call
\* has failed, AWS refuses none.
THEOREM SweepOrderIsRight ==
  ASSUME ~LookupMayFail
  PROVE  SweepSpec => []SweepRespectsDependencies
<1>1. SweepIInv => SweepRespectsDependencies
  <2>. SUFFICES ASSUME SweepIInv, trouble = "none", enis = {}, "nlb" \notin live
                PROVE  /\ phase = "delete" => \A r \in found : Sound(r)
                       /\ stage = "vpc" => Sound("vpc")
    BY DEF SweepRespectsDependencies
  <2>. Cleared /\ SweepControl /\ TypeOK /\ Needs
    BY DEF SweepIInv, SweepTypeOK
  <2>1. ASSUME phase = "delete", NEW r \in found PROVE Sound(r)
    <3>1. stage \in Listing
      BY <2>1, Stages DEF SweepControl
    <3>2. CASE stage = "groups"
      BY <2>1, <3>2 DEF SweepControl, Cleared, Rules, Sound, Refused, GroupIsFree
    <3>3. CASE stage = "subnets"
      BY <2>1, <3>3 DEF SweepControl, Sound, Refused, Blocked, Groups
    <3>4. CASE stage = "tables"
      BY <2>1, <3>4 DEF SweepControl, Cleared, Sound, Refused, Blocked, Groups
    <3>5. CASE stage = "gateways"
      BY <2>1, <3>5 DEF SweepControl, Cleared, Sound, Refused, Blocked, Groups
    <3>. QED
      BY <3>1, <3>2, <3>3, <3>4, <3>5 DEF Listing
  <2>2. ASSUME stage = "vpc" PROVE Sound("vpc")
    <3>1. live \cap ((Network \cup Groups) \ {"vpc", "igw"}) = {}
      BY <2>2 DEF Cleared, Network
    <3>. QED
      BY <2>2, <3>1 DEF Cleared, Sound, Refused, Blocked, Groups
  <2>. QED
    BY <2>1, <2>2
<1>. QED
  BY <1>1, SweepInductive, PTL

=============================================================================
