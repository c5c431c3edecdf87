--------------------------- MODULE SingleNodeProofs ---------------------------
(***************************************************************************)
(* Proofs about SingleNode, for every value of the constants:              *)
(*   - from one inductive invariant the types, TerminatedMeansGone,        *)
(*     FileOutlivesResources and UntrackedOnlyInFlight;                    *)
(*   - with what it leaves open, the refinement of module Lifecycle, that  *)
(*     a file that says Available names a complete environment, and the    *)
(*     order of Delete's calls.                                            *)
(***************************************************************************)
EXTENDS SingleNode, TLAPS

-----------------------------------------------------------------------------
(* The inductive invariant                                                 *)

Deleting == {"balancer", "deleteNLB", "terminate", "terminateCall", "await", "drain",
             "groups", "delete", "network", "finish", "deleted"}

\* What holds where: Create runs once, on an empty status; the rollback is
\* inside it, and its group handler has overwritten the file.
Control ==
  /\ mode = "none" =>
       pc = "idle" /\ live = {} /\ file = NoStatus /\ ~clobbered /\ ~crashed
  /\ pc = "idle" => ~rolling /\ env = NoStatus /\ cache = {}
  /\ pc \in Creating => ~rolling /\ env = NoStatus /\ at \in Created /\ ~crashed
  /\ pc = "rollback" => rolling
  /\ rolling => env = NoStatus /\ pc \in {"rollback", "groups", "delete"}
  /\ rolling /\ pc = "groups" => clobbered
  /\ rolling /\ pc = "delete" /\ at \in GroupSteps => clobbered
  /\ pc = "delete" => at \in DeleteStep

\* Statuses of a single node name no cluster; an empty one is empty.
Statuses ==
  /\ env.props \subseteq Created /\ file.props \subseteq Created
  /\ env.cluster = {} /\ file.cluster = {}
  /\ ~file.saved => file.props = {} /\ file.cond = "none"

\* The cache file a deletion works on names what the deletion works on, or
\* was torn.
DeletionKnowsFile ==
  pc \in Deleting /\ ~rolling =>
    /\ env.saved => env.props = cache
    /\ file.props = cache \/ (torn /\ file.props = {})

\* What a deletion has still to remove.
ToGo ==
  CASE pc \in {"balancer", "deleteNLB", "terminate", "terminateCall", "await"} -> Created
    [] pc \in {"drain", "groups"}            -> Infra
    [] pc = "delete" /\ at \in GroupSteps    -> Infra
    [] pc = "network"                        -> {"subnet", "rtb", "igw", "vpc"}
    [] pc = "delete" /\ at \in {"pubsubnet", "pubrtb", "subnet"}
                                             -> {"subnet", "rtb", "igw", "vpc"}
    [] pc = "delete" /\ at = "rtb"           -> {"rtb", "igw", "vpc"}
    [] pc = "delete" /\ at \in {"detach", "igw"} -> {"igw", "vpc"}
    [] pc = "delete" /\ at = "vpc"           -> {"vpc"}
    [] OTHER                                 -> {}

DeletionProgress == pc \in Deleting /\ ~rolling => cache \cap live \subseteq ToGo

\* Before a deletion succeeds no file says Terminated, and afterwards nothing
\* the file names comes back.
TerminatedIsGone ==
  /\ pc \in Creating => file.cond \in {"none", "Creating"}
  /\ file.cond = "Terminated" => file.props \cap live = {}

\* The file names what exists, except what a kill left behind and, during
\* Create, the resource of the current step, which the cache names.
Tracked ==
  /\ pc \in Creating => live \subseteq cache /\ ~clobbered
  /\ ~torn /\ ~clobbered =>
       /\ pc = "create" => live \subseteq file.props
       /\ pc \in {"complete", "record", "degrade"} => live \subseteq file.props \cup {at}
       /\ pc \notin Creating /\ ~crashed => live \subseteq file.props
       /\ \E r \in Created : live \subseteq file.props \cup {r}

IInv ==
  /\ TypeOK /\ Control /\ Statuses /\ DeletionKnowsFile
  /\ DeletionProgress /\ TerminatedIsGone /\ Tracked

-----------------------------------------------------------------------------
(* Lemmas about the constants and the operators of the model               *)

\* The single node's names are those the assumptions separate.
LEMMA Names ==
  /\ Created \subseteq Resource
  /\ Created \cap {"cpsg", "workersg", "pubsubnet", "pubrtb", "nlb", "tg", "listener", "detach"} = {}
  /\ TheInstance \in Instance /\ Instance = {TheInstance}
  /\ ~Multinode
BY InstanceAssumption, SingleNodeAssumption
   DEF Created, Infra, Resource, Network, Groups, Balancer, TheInstance

\* Every step a command may be at is in the type of "at".
LEMMA Steps ==
  /\ Created \cup DeleteStep \cup {"nlb", "tg", "listener"} \subseteq Resource \cup DeleteStep
  /\ {"workersg", "pubsubnet", "detach", "vpc"} \subseteq DeleteStep
  /\ \A r \in Infra : NextCreate[r] \in Created
  /\ Infra \subseteq Created /\ "vpc" \in Infra
BY Names DEF DeleteStep, GroupSteps, NetworkSteps, NextCreate, Infra, Created,
             Resource, Balancer

\* A call that was not tried yet is within the bound.
LEMMA NoTries == 0 \in 0 .. MaxRetries
BY RetriesAssumption

\* The empty status is a status.
LEMMA NoStatusType == NoStatus \in Status /\ NoStatus.props = {} /\ NoStatus.cluster = {}
                      /\ NoStatus.cond = "none" /\ ~NoStatus.saved
BY DEF NoStatus, Status, Condition

\* What a write of the status puts into the file.
LEMMA UpdatedFields ==
  ASSUME env \in Status, NEW c \in SUBSET Resource, NEW k \in Condition
  PROVE  /\ Updated(c, k) \in Status
         /\ Updated(c, k).saved
         /\ Updated(c, k).props = IF env.saved THEN env.props ELSE c
         /\ Updated(c, k).cluster = env.cluster
         /\ Updated(c, k).cond = k
BY DEF Updated, Status

\* The file after an update with the ids c and the condition k.
Written(c, k) ==
  /\ file'.saved /\ file'.cond = k /\ file'.cluster = env.cluster
  /\ file'.props = IF env.saved THEN env.props ELSE c

\* A successful update leaves the file when nothing changes, or writes the
\* status.
LEMMA UpdateStatusEffect ==
  ASSUME TypeOK, NEW c \in SUBSET Created, NEW k \in Condition, UpdateStatus(c, k)
  PROVE  /\ exists' \in BOOLEAN /\ torn' = torn /\ file' \in Status
         /\ (file' = file /\ Unmodified(c, k)) \/ Written(c, k)
<1>. env \in Status /\ file \in Status /\ exists \in BOOLEAN /\ c \subseteq Resource
  BY Names DEF TypeOK
<1>1. CASE Unmodified(c, k)
  BY <1>1 DEF UpdateStatus, disk
<1>2. CASE ~Unmodified(c, k)
  <2>1. exists' = TRUE /\ file' = Updated(c, k) /\ torn' = torn
    BY <1>2 DEF UpdateStatus, WriteFile
  <2>. QED
    BY <2>1, UpdatedFields DEF Written
<1>. QED
  BY <1>1, <1>2

\* An update whose error is only logged may also leave the file as it was
\* because the write failed, or tear it.
Logged(c, k) ==
  \/ file' = file /\ (~torn' => Unmodified(c, k))
  \/ file' = NoStatus /\ torn'
  \/ Written(c, k)

LEMMA LoggedUpdateEffect ==
  ASSUME TypeOK, NEW c \in SUBSET Created, NEW k \in Condition, LoggedUpdate(c, k)
  PROVE  /\ exists' \in BOOLEAN /\ torn' \in BOOLEAN /\ file' \in Status
         /\ torn => torn'
         /\ Logged(c, k)
<1>1. CASE UpdateStatus(c, k)
  BY <1>1, UpdateStatusEffect DEF TypeOK, Logged
<1>2. CASE ~Unmodified(c, k) /\ WriteFails
  BY <1>2, NoStatusType DEF WriteFails, TypeOK, Logged
<1>. QED
  BY <1>1, <1>2 DEF LoggedUpdate

\* A delete call, whatever its answer, only takes away.
LEMMA DeletedShrinks ==
  ASSUME NEW r, Deleted(r) \/ Failed(r)
  PROVE  /\ live' \subseteq live /\ links' \subseteq links
         /\ stopping' = stopping /\ enis' = enis /\ known' = known
BY DEF Deleted, Failed, cloud

\* Where a finished step of the delete sequence leads.
LEMMA StepDoneEffect ==
  ASSUME at \in DeleteStep, StepDone(at)
  PROVE  \/ pc' = "delete" /\ at = "workersg" /\ at' = "cpsg"
         \/ pc' = "delete" /\ at = "cpsg" /\ at' = "sg"
         \/ pc' = "delete" /\ at = "detach" /\ at' = "igw"
         \/ pc' = "rollback" /\ at' = at /\ rolling
         \/ pc' = "network" /\ at = "sg" /\ at' = at /\ ~rolling
         \/ pc' = "finish" /\ at = "vpc" /\ at' = at /\ ~rolling
         \/ /\ pc' = "delete" /\ ~rolling
            /\ \/ at = "pubsubnet" /\ at' = "pubrtb"
               \/ at = "pubrtb" /\ at' = "subnet"
               \/ at = "subnet" /\ at' = "rtb"
               \/ at = "rtb" /\ at' = "detach"
               \/ at = "igw" /\ at' = "vpc"
BY DEF StepDone, NextStep, Goto, DeleteStep, GroupSteps, NetworkSteps

-----------------------------------------------------------------------------
(* The invariant holds initially, and every step preserves it              *)

\* Nothing exists, nothing runs.
LEMMA IInvInit == Init => IInv
<1>. SUFFICES ASSUME Init PROVE IInv
  OBVIOUS
<1>1. TypeOK /\ Control /\ Statuses
  BY NoTries, NoStatusType, Names, Steps
     DEF Init, TypeOK, Control, Statuses, Creating, Place
<1>2. DeletionKnowsFile /\ DeletionProgress /\ TerminatedIsGone
  BY NoStatusType DEF Init, DeletionKnowsFile, DeletionProgress, TerminatedIsGone, Creating,
                      Deleting
<1>3. Tracked
  BY Steps DEF Init, Tracked, Creating
<1>. QED
  BY <1>1, <1>2, <1>3 DEF IInv

\* The steps of Create and of its rollback.
LEMMA CreatePreserves ==
  ASSUME IInv, Create
  PROVE  IInv'
<1>. USE DEF IInv, cloud, disk, proc, history, Goto, Exit
<1>1. CASE StartCreate
  <2>1. /\ exists' \in BOOLEAN /\ torn' \in BOOLEAN /\ file' \in Status
        /\ torn => torn'
        /\ Logged({}, "Creating")
    BY <1>1, LoggedUpdateEffect DEF StartCreate, TypeOK, Condition
  <2>2. /\ pc = "idle" /\ mode = "none" /\ mode' \in Modes
        /\ env' = NoStatus /\ cache' = {} /\ pc' = "create" /\ at' = "vpc"
        /\ UNCHANGED <<cloud, tries, rolling, undo, clobbered, crashed>>
    BY <1>1 DEF StartCreate
  <2>3. TypeOK'
    BY <2>2, <2>1, Steps, NoStatusType DEF TypeOK, Place
  <2>4. Control' /\ Statuses'
    BY <2>2, <2>1, Names, NoStatusType, Steps, ModesAssumption
       DEF Logged, Written, Unmodified, TypeOK, Control, Statuses, Creating
  <2>5. DeletionKnowsFile' /\ DeletionProgress' /\ TerminatedIsGone' /\ Tracked'
    BY <2>2, <2>1, NoStatusType, Steps
       DEF Logged, Written, Unmodified, DeletionKnowsFile, DeletionProgress,
           TerminatedIsGone, Tracked, Deleting, Control, Creating
  <2>. QED
    BY <2>3, <2>4, <2>5 DEF IInv
<1>2. CASE CreateResource
  <2>1. TypeOK' /\ Control' /\ Statuses'
    BY <1>2, Names, NoStatusType, Steps, RetriesAssumption
       DEF CreateResource, TypeOK, Control, Statuses, Creating, Place
  <2>2. DeletionKnowsFile' /\ DeletionProgress' /\ TerminatedIsGone' /\ Tracked'
    BY <1>2, Names, NoStatusType
       DEF CreateResource, DeletionKnowsFile, DeletionProgress, TerminatedIsGone,
           Tracked, ToGo, Deleting, TypeOK, Control, Statuses, Creating, Created,
           GroupSteps
  <2>. QED
    BY <2>1, <2>2 DEF IInv
<1>3. CASE CreateFails
  <2>1. TypeOK' /\ Control' /\ Statuses'
    BY <1>3, Names, NoStatusType, Steps, RetriesAssumption
       DEF CreateFails, TypeOK, Control, Statuses, Creating, Place
  <2>2. DeletionKnowsFile' /\ DeletionProgress' /\ TerminatedIsGone' /\ Tracked'
    BY <1>3, Names, NoStatusType
       DEF CreateFails, DeletionKnowsFile, DeletionProgress, TerminatedIsGone, Tracked,
           ToGo, Deleting, TypeOK, Control, Statuses, Creating, Created, GroupSteps
  <2>. QED
    BY <2>1, <2>2 DEF IInv
<1>4. CASE CompleteResource
  <2>1. TypeOK' /\ Control' /\ Statuses'
    BY <1>4, Names, NoStatusType, Steps, RetriesAssumption
       DEF CompleteResource, FollowUp, Link, TypeOK, Control, Statuses, Creating,
           Place
  <2>2. DeletionKnowsFile' /\ DeletionProgress' /\ TerminatedIsGone' /\ Tracked'
    BY <1>4, Names, NoStatusType
       DEF CompleteResource, FollowUp, Link, DeletionKnowsFile, DeletionProgress,
           TerminatedIsGone, Tracked, ToGo, Deleting, TypeOK, Control, Statuses,
           Creating, Created, GroupSteps
  <2>. QED
    BY <2>1, <2>2 DEF IInv
<1>5. CASE CompleteFails
  <2>1. TypeOK' /\ Control' /\ Statuses'
    BY <1>5, Names, NoStatusType, Steps, RetriesAssumption
       DEF CompleteFails, FollowUp, Link, TypeOK, Control, Statuses, Creating, Place
  <2>2. DeletionKnowsFile' /\ DeletionProgress' /\ TerminatedIsGone' /\ Tracked'
    BY <1>5, Names, NoStatusType
       DEF CompleteFails, FollowUp, Link, DeletionKnowsFile, DeletionProgress,
           TerminatedIsGone, Tracked, ToGo, Deleting, TypeOK, Control, Statuses,
           Creating, Created, GroupSteps
  <2>. QED
    BY <2>1, <2>2 DEF IInv
<1>6. CASE RecordProgress
  <2>1. /\ exists' \in BOOLEAN /\ torn' \in BOOLEAN /\ file' \in Status
        /\ torn => torn'
        /\ Logged(cache, "Creating")
    BY <1>6, LoggedUpdateEffect DEF RecordProgress, TypeOK, Condition
  <2>2. TypeOK' /\ Control' /\ Statuses'
    BY <1>6, <2>1, Names, NoStatusType, Steps, RetriesAssumption
       DEF RecordProgress, Logged, Written, Unmodified, TypeOK, Control, Statuses,
           Creating, Place
  <2>3. DeletionKnowsFile' /\ DeletionProgress' /\ TerminatedIsGone' /\ Tracked'
    BY <1>6, <2>1, Names, NoStatusType
       DEF RecordProgress, Logged, Written, Unmodified, DeletionKnowsFile,
           DeletionProgress, TerminatedIsGone, Tracked, ToGo, Deleting, TypeOK,
           Control, Statuses, Creating, Created, GroupSteps
  <2>. QED
    BY <2>2, <2>3 DEF IInv
<1>7. CASE RecordAvailable
  <2>1. /\ exists' \in BOOLEAN /\ torn' = torn /\ file' \in Status
        /\ (file' = file /\ Unmodified(cache, "Available")) \/ Written(cache, "Available")
    BY <1>7, UpdateStatusEffect DEF RecordAvailable, TypeOK, Condition
  <2>2. TypeOK' /\ Control' /\ Statuses'
    BY <1>7, <2>1, Names, NoStatusType, Steps, RetriesAssumption
       DEF RecordAvailable, Written, Unmodified, TypeOK, Control, Statuses, Creating,
           Place
  <2>3. DeletionKnowsFile' /\ DeletionProgress' /\ TerminatedIsGone' /\ Tracked'
    BY <1>7, <2>1, Names, NoStatusType
       DEF RecordAvailable, Written, Unmodified, DeletionKnowsFile, DeletionProgress,
           TerminatedIsGone, Tracked, ToGo, Deleting, TypeOK, Control, Statuses,
           Creating, Created, GroupSteps
  <2>. QED
    BY <2>2, <2>3 DEF IInv
<1>8. CASE RecordAvailableFails
  <2>1. TypeOK' /\ Control' /\ Statuses'
    BY <1>8, Names, NoStatusType, Steps, RetriesAssumption
       DEF RecordAvailableFails, WriteFails, TypeOK, Control, Statuses, Creating,
           Place
  <2>2. DeletionKnowsFile' /\ DeletionProgress' /\ TerminatedIsGone' /\ Tracked'
    BY <1>8, Names, NoStatusType
       DEF RecordAvailableFails, WriteFails, DeletionKnowsFile, DeletionProgress,
           TerminatedIsGone, Tracked, ToGo, Deleting, TypeOK, Control, Statuses,
           Creating, Created, GroupSteps
  <2>. QED
    BY <2>1, <2>2 DEF IInv
<1>9. CASE RecordDegraded
  <2>1. /\ exists' \in BOOLEAN /\ torn' \in BOOLEAN /\ file' \in Status
        /\ torn => torn'
        /\ Logged(cache, "Degraded")
    BY <1>9, LoggedUpdateEffect DEF RecordDegraded, TypeOK, Condition
  <2>2. TypeOK' /\ Control' /\ Statuses'
    BY <1>9, <2>1, Names, NoStatusType, Steps, RetriesAssumption
       DEF RecordDegraded, Logged, Written, Unmodified, TypeOK, Control, Statuses,
           Creating, Place
  <2>3. DeletionKnowsFile' /\ DeletionProgress' /\ TerminatedIsGone' /\ Tracked'
    BY <1>9, <2>1, Names, NoStatusType
       DEF RecordDegraded, Logged, Written, Unmodified, DeletionKnowsFile,
           DeletionProgress, TerminatedIsGone, Tracked, ToGo, Deleting, TypeOK,
           Control, Statuses, Creating, Created, GroupSteps
  <2>. QED
    BY <2>2, <2>3 DEF IInv
<1>10. CASE Cleanup
  <2>. PICK r \in undo : /\ cache' = CleanupCache(r) /\ undo' = undo \ {r} /\ Handler(r)
                         /\ clobbered' = (clobbered \/ r = "sg")
    BY <1>10 DEF Cleanup
  <2>. r \in Infra
    BY DEF TypeOK
  <2>1. /\ r = "sg" => pc' = "groups" /\ at' = "sg"
        /\ r = "igw" => pc' = "delete" /\ at' = "detach"
        /\ r \in {"vpc", "subnet", "rtb"} => pc' = "delete" /\ at' = r
    BY DEF Handler
  <2>2. TypeOK' /\ Control' /\ Statuses'
    BY <1>10, <2>1, Names, Steps
       DEF Cleanup, CleanupCache, TypeOK, Control, Statuses, Creating, Place, Infra,
           Created, DeleteStep, GroupSteps, NetworkSteps
  <2>3. DeletionKnowsFile' /\ DeletionProgress' /\ TerminatedIsGone' /\ Tracked'
    BY <1>10, <2>1, Names
       DEF Cleanup, DeletionKnowsFile, DeletionProgress, TerminatedIsGone, Tracked, ToGo,
           Deleting, TypeOK, Control, Creating, Infra
  <2>. QED
    BY <2>2, <2>3 DEF IInv
<1>11. CASE RollbackDone
  <2>1. TypeOK' /\ Control' /\ Statuses'
    BY <1>11, Names, NoStatusType, Steps, NoTries
       DEF RollbackDone, TypeOK, Control, Statuses, Creating, Place
  <2>2. DeletionKnowsFile' /\ DeletionProgress' /\ TerminatedIsGone' /\ Tracked'
    BY <1>11, Names, NoStatusType
       DEF RollbackDone, DeletionKnowsFile, DeletionProgress, TerminatedIsGone,
           Tracked, ToGo, Deleting, TypeOK, Control, Statuses, Creating, Created,
           GroupSteps
  <2>. QED
    BY <2>1, <2>2 DEF IInv
<1>. QED
  BY <1>1, <1>2, <1>3, <1>4, <1>5, <1>6, <1>7, <1>8, <1>9, <1>10, <1>11 DEF Create

\* The three ways a deletion starts.
LEMMA StartPreserves ==
  ASSUME IInv, StartDelete, UNCHANGED <<undo, history>>
  PROVE  IInv'
<1>. USE DEF IInv, cloud, disk, proc, history, Goto, Exit
<1>1. CASE StartDeleteCLI
  <2>1. TypeOK' /\ Control' /\ Statuses'
    BY <1>1, Names, NoStatusType, Steps, RetriesAssumption
       DEF StartDeleteCLI, TypeOK, Control, Statuses, Creating, Place
  <2>2. DeletionKnowsFile' /\ DeletionProgress' /\ TerminatedIsGone' /\ Tracked'
    BY <1>1, Names, NoStatusType
       DEF StartDeleteCLI, DeletionKnowsFile, DeletionProgress, TerminatedIsGone,
           Tracked, ToGo, Deleting, TypeOK, Control, Statuses, Creating, Created,
           GroupSteps
  <2>. QED
    BY <2>1, <2>2 DEF IInv
<1>2. CASE ForgetTornFile
  <2>1. TypeOK' /\ Control' /\ Statuses'
    BY <1>2, Names, NoStatusType, Steps, RetriesAssumption
       DEF ForgetTornFile, RemoveFile, TypeOK, Control, Statuses, Creating, Place
  <2>2. DeletionKnowsFile' /\ DeletionProgress' /\ TerminatedIsGone' /\ Tracked'
    BY <1>2, Names, NoStatusType
       DEF ForgetTornFile, RemoveFile, DeletionKnowsFile, DeletionProgress,
           TerminatedIsGone, Tracked, ToGo, Deleting, TypeOK, Control, Statuses,
           Creating, Created, GroupSteps
  <2>. QED
    BY <2>1, <2>2 DEF IInv
<1>3. CASE StartDeleteCI
  <2>1. TypeOK' /\ Control' /\ Statuses'
    BY <1>3, Names, NoStatusType, Steps, RetriesAssumption
       DEF StartDeleteCI, TypeOK, Control, Statuses, Creating, Place
  <2>2. DeletionKnowsFile' /\ DeletionProgress' /\ TerminatedIsGone' /\ Tracked'
    BY <1>3, Names, NoStatusType
       DEF StartDeleteCI, DeletionKnowsFile, DeletionProgress, TerminatedIsGone,
           Tracked, ToGo, Deleting, TypeOK, Control, Statuses, Creating, Created,
           GroupSteps
  <2>. QED
    BY <2>1, <2>2 DEF IInv
<1>. QED
  BY <1>1, <1>2, <1>3 DEF StartDelete

\* The load balancer's phase.
LEMMA BalancerPreserves ==
  ASSUME IInv, DeleteBalancer, UNCHANGED <<undo, history>>
  PROVE  IInv'
<1>. USE DEF IInv, cloud, disk, proc, history, Goto, Exit
<1>1. CASE NoBalancer
  <2>1. TypeOK' /\ Control' /\ Statuses'
    BY <1>1, Names, NoStatusType, Steps, RetriesAssumption
       DEF NoBalancer, TypeOK, Control, Statuses, Creating, Place
  <2>2. DeletionKnowsFile' /\ DeletionProgress' /\ TerminatedIsGone' /\ Tracked'
    BY <1>1, Names, NoStatusType
       DEF NoBalancer, DeletionKnowsFile, DeletionProgress, TerminatedIsGone, Tracked,
           ToGo, Deleting, TypeOK, Control, Statuses, Creating, Created, GroupSteps
  <2>. QED
    BY <2>1, <2>2 DEF IInv
<1>2. CASE BalancerNotFound
  <2>1. TypeOK' /\ Control' /\ Statuses'
    BY <1>2, Names, NoStatusType, Steps, RetriesAssumption
       DEF BalancerNotFound, TypeOK, Control, Statuses, Creating, Place
  <2>2. DeletionKnowsFile' /\ DeletionProgress' /\ TerminatedIsGone' /\ Tracked'
    BY <1>2, Names, NoStatusType
       DEF BalancerNotFound, DeletionKnowsFile, DeletionProgress, TerminatedIsGone,
           Tracked, ToGo, Deleting, TypeOK, Control, Statuses, Creating, Created,
           GroupSteps
  <2>. QED
    BY <2>1, <2>2 DEF IInv
<1>3. CASE BalancerFound
  <2>1. TypeOK' /\ Control' /\ Statuses'
    BY <1>3, Names, NoStatusType, Steps, RetriesAssumption
       DEF BalancerFound, TypeOK, Control, Statuses, Creating, Place
  <2>2. DeletionKnowsFile' /\ DeletionProgress' /\ TerminatedIsGone' /\ Tracked'
    BY <1>3, Names, NoStatusType
       DEF BalancerFound, DeletionKnowsFile, DeletionProgress, TerminatedIsGone,
           Tracked, ToGo, Deleting, TypeOK, Control, Statuses, Creating, Created,
           GroupSteps
  <2>. QED
    BY <2>1, <2>2 DEF IInv
<1>4. CASE BalancerLookupFails
  <2>1. TypeOK' /\ Control' /\ Statuses'
    BY <1>4, Names, NoStatusType, Steps, RetriesAssumption
       DEF BalancerLookupFails, TypeOK, Control, Statuses, Creating, Place
  <2>2. DeletionKnowsFile' /\ DeletionProgress' /\ TerminatedIsGone' /\ Tracked'
    BY <1>4, Names, NoStatusType
       DEF BalancerLookupFails, DeletionKnowsFile, DeletionProgress, TerminatedIsGone,
           Tracked, ToGo, Deleting, TypeOK, Control, Statuses, Creating, Created,
           GroupSteps
  <2>. QED
    BY <2>1, <2>2 DEF IInv
<1>5. CASE DeleteNLBPart
  <2>1. TypeOK' /\ Control' /\ Statuses'
    BY <1>5, DeletedShrinks, Names, NoStatusType, Steps, RetriesAssumption
       DEF DeleteNLBPart, TypeOK, Control, Statuses, Creating, Place
  <2>2. DeletionKnowsFile' /\ DeletionProgress' /\ TerminatedIsGone' /\ Tracked'
    BY <1>5, DeletedShrinks, Names, NoStatusType
       DEF DeleteNLBPart, DeletionKnowsFile, DeletionProgress, TerminatedIsGone,
           Tracked, ToGo, Deleting, TypeOK, Control, Statuses, Creating, Created,
           GroupSteps
  <2>. QED
    BY <2>1, <2>2 DEF IInv
<1>6. CASE DeleteNLB
  <2>1. TypeOK' /\ Control' /\ Statuses'
    BY <1>6, DeletedShrinks, Names, NoStatusType, Steps, NoTries
       DEF DeleteNLB, TypeOK, Control, Statuses, Creating, Place
  <2>2. DeletionKnowsFile' /\ DeletionProgress' /\ TerminatedIsGone' /\ Tracked'
    BY <1>6, DeletedShrinks, Names, NoStatusType
       DEF DeleteNLB, DeletionKnowsFile, DeletionProgress, TerminatedIsGone, Tracked,
           ToGo, Deleting, TypeOK, Control, Statuses, Creating, Created, GroupSteps
  <2>. QED
    BY <2>1, <2>2 DEF IInv
<1>. QED
  BY <1>1, <1>2, <1>3, <1>4, <1>5, <1>6 DEF DeleteBalancer

\* The instances' phase.
LEMMA InstancesPreserve ==
  ASSUME IInv, DeleteInstances, UNCHANGED <<undo, history>>
  PROVE  IInv'
<1>. USE DEF IInv, cloud, disk, proc, history, Goto, Exit
<1>1. CASE NoInstances
  <2>1. TypeOK' /\ Control' /\ Statuses'
    BY <1>1, Names, NoStatusType, Steps, RetriesAssumption
       DEF NoInstances, InstanceIDs, TypeOK, Control, Statuses, Creating, Place
  <2>2. DeletionKnowsFile' /\ DeletionProgress' /\ TerminatedIsGone' /\ Tracked'
    BY <1>1, Names, NoStatusType
       DEF NoInstances, InstanceIDs, DeletionKnowsFile, DeletionProgress,
           TerminatedIsGone, Tracked, ToGo, Deleting, TypeOK, Control, Statuses,
           Creating, Created, GroupSteps
  <2>. QED
    BY <2>1, <2>2 DEF IInv
<1>2. CASE AnnounceTermination
  <2>1. /\ exists' \in BOOLEAN /\ torn' \in BOOLEAN /\ file' \in Status
        /\ torn => torn'
        /\ Logged(cache, "Terminating")
    BY <1>2, LoggedUpdateEffect DEF AnnounceTermination, TypeOK, Condition
  <2>2. TypeOK' /\ Control' /\ Statuses'
    BY <1>2, <2>1, Names, NoStatusType, Steps, RetriesAssumption
       DEF AnnounceTermination, Logged, Written, Unmodified, TypeOK, Control, Statuses,
           Creating, Place
  <2>3. DeletionKnowsFile' /\ DeletionProgress' /\ TerminatedIsGone' /\ Tracked'
    BY <1>2, <2>1, Names, NoStatusType
       DEF AnnounceTermination, Logged, Written, Unmodified, DeletionKnowsFile,
           DeletionProgress, TerminatedIsGone, Tracked, ToGo, Deleting, TypeOK,
           Control, Statuses, Creating, Created, GroupSteps
  <2>. QED
    BY <2>2, <2>3 DEF IInv
<1>3. CASE TerminateInstances
  <2>1. TypeOK' /\ Control' /\ Statuses'
    BY <1>3, Names, NoStatusType, Steps, RetriesAssumption
       DEF TerminateInstances, Terminated, TypeOK, Control, Statuses, Creating, Place
  <2>2. DeletionKnowsFile' /\ DeletionProgress' /\ TerminatedIsGone' /\ Tracked'
    BY <1>3, Names, NoStatusType
       DEF TerminateInstances, Terminated, DeletionKnowsFile, DeletionProgress,
           TerminatedIsGone, Tracked, ToGo, Deleting, TypeOK, Control, Statuses,
           Creating, Created, GroupSteps
  <2>. QED
    BY <2>1, <2>2 DEF IInv
<1>4. CASE TerminateRetry
  <2>1. TypeOK' /\ Control' /\ Statuses'
    BY <1>4, Names, NoStatusType, Steps, RetriesAssumption
       DEF TerminateRetry, Terminated, TypeOK, Control, Statuses, Creating, Place
  <2>2. DeletionKnowsFile' /\ DeletionProgress' /\ TerminatedIsGone' /\ Tracked'
    BY <1>4, Names, NoStatusType
       DEF TerminateRetry, Terminated, DeletionKnowsFile, DeletionProgress,
           TerminatedIsGone, Tracked, ToGo, Deleting, TypeOK, Control, Statuses,
           Creating, Created, GroupSteps
  <2>. QED
    BY <2>1, <2>2 DEF IInv
<1>5. CASE TerminateFails
  <2>1. /\ exists' \in BOOLEAN /\ torn' \in BOOLEAN /\ file' \in Status
        /\ torn => torn'
        /\ Logged(cache, "DegradedEC2")
    BY <1>5, LoggedUpdateEffect DEF TerminateFails, TypeOK, Condition
  <2>2. TypeOK' /\ Control' /\ Statuses'
    BY <1>5, <2>1, Names, NoStatusType, Steps, RetriesAssumption
       DEF TerminateFails, Logged, Written, Unmodified, Terminated, TypeOK, Control,
           Statuses, Creating, Place
  <2>3. DeletionKnowsFile' /\ DeletionProgress' /\ TerminatedIsGone' /\ Tracked'
    BY <1>5, <2>1, Names, NoStatusType
       DEF TerminateFails, Logged, Written, Unmodified, Terminated, DeletionKnowsFile,
           DeletionProgress, TerminatedIsGone, Tracked, ToGo, Deleting, TypeOK,
           Control, Statuses, Creating, Created, GroupSteps
  <2>. QED
    BY <2>2, <2>3 DEF IInv
<1>6. CASE AwaitTermination
  <2>1. TypeOK' /\ Control' /\ Statuses'
    BY <1>6, Names, NoStatusType, Steps, RetriesAssumption
       DEF AwaitTermination, InstanceIDs, TypeOK, Control, Statuses, Creating, Place
  <2>2. DeletionKnowsFile' /\ DeletionProgress' /\ TerminatedIsGone' /\ Tracked'
    BY <1>6, Names, NoStatusType
       DEF AwaitTermination, InstanceIDs, DeletionKnowsFile, DeletionProgress,
           TerminatedIsGone, Tracked, ToGo, Deleting, TypeOK, Control, Statuses,
           Creating, Created, GroupSteps
  <2>. QED
    BY <2>1, <2>2 DEF IInv
<1>7. CASE AwaitTimeout
  <2>1. TypeOK' /\ Control' /\ Statuses'
    BY <1>7, Names, NoStatusType, Steps, RetriesAssumption
       DEF AwaitTimeout, TypeOK, Control, Statuses, Creating, Place
  <2>2. DeletionKnowsFile' /\ DeletionProgress' /\ TerminatedIsGone' /\ Tracked'
    BY <1>7, Names, NoStatusType
       DEF AwaitTimeout, DeletionKnowsFile, DeletionProgress, TerminatedIsGone,
           Tracked, ToGo, Deleting, TypeOK, Control, Statuses, Creating, Created,
           GroupSteps
  <2>. QED
    BY <2>1, <2>2 DEF IInv
<1>8. CASE DrainENIs
  <2>1. TypeOK' /\ Control' /\ Statuses'
    BY <1>8, Names, NoStatusType, Steps, RetriesAssumption
       DEF DrainENIs, TypeOK, Control, Statuses, Creating, Place
  <2>2. DeletionKnowsFile' /\ DeletionProgress' /\ TerminatedIsGone' /\ Tracked'
    BY <1>8, Names, NoStatusType
       DEF DrainENIs, DeletionKnowsFile, DeletionProgress, TerminatedIsGone, Tracked,
           ToGo, Deleting, TypeOK, Control, Statuses, Creating, Created, GroupSteps
  <2>. QED
    BY <2>1, <2>2 DEF IInv
<1>. QED
  BY <1>1, <1>2, <1>3, <1>4, <1>5, <1>6, <1>7, <1>8 DEF DeleteInstances

\* Security groups, network, and the end of a deletion.
LEMMA ResourcesPreserve ==
  ASSUME IInv, DeleteResources, UNCHANGED <<undo, history>>
  PROVE  IInv'
<1>. USE DEF IInv, cloud, disk, proc, history, Goto, Exit
<1>1. CASE DeleteSecurityGroups
  <2>1. /\ exists' \in BOOLEAN /\ torn' \in BOOLEAN /\ file' \in Status
        /\ torn => torn'
        /\ Logged(cache, "DeletingGroups")
    BY <1>1, LoggedUpdateEffect DEF DeleteSecurityGroups, TypeOK, Condition
  <2>2. TypeOK' /\ Control' /\ Statuses'
    BY <1>1, <2>1, Names, NoStatusType, Steps, RetriesAssumption
       DEF DeleteSecurityGroups, Logged, Written, Unmodified, TypeOK, Control,
           Statuses, Creating, Place
  <2>3. DeletionKnowsFile' /\ DeletionProgress' /\ TerminatedIsGone' /\ Tracked'
    BY <1>1, <2>1, Names, NoStatusType
       DEF DeleteSecurityGroups, Logged, Written, Unmodified, DeletionKnowsFile,
           DeletionProgress, TerminatedIsGone, Tracked, ToGo, Deleting, TypeOK,
           Control, Statuses, Creating, Created, GroupSteps
  <2>. QED
    BY <2>2, <2>3 DEF IInv
<1>2. CASE DeleteVPCResources
  <2>1. /\ exists' \in BOOLEAN /\ torn' \in BOOLEAN /\ file' \in Status
        /\ torn => torn'
        /\ Logged(cache, "DeletingVPC")
    BY <1>2, LoggedUpdateEffect DEF DeleteVPCResources, TypeOK, Condition
  <2>2. TypeOK' /\ Control' /\ Statuses'
    BY <1>2, <2>1, Names, NoStatusType, Steps, RetriesAssumption
       DEF DeleteVPCResources, Logged, Written, Unmodified, TypeOK, Control, Statuses,
           Creating, Place
  <2>3. DeletionKnowsFile' /\ DeletionProgress' /\ TerminatedIsGone' /\ Tracked'
    BY <1>2, <2>1, Names, NoStatusType
       DEF DeleteVPCResources, Logged, Written, Unmodified, DeletionKnowsFile,
           DeletionProgress, TerminatedIsGone, Tracked, ToGo, Deleting, TypeOK,
           Control, Statuses, Creating, Created, GroupSteps
  <2>. QED
    BY <2>2, <2>3 DEF IInv
<1>3. CASE SkipStep
  <2>1. ~Applies(at) /\ cache' = cache /\ at \in DeleteStep /\ pc = "delete"
    BY <1>3, Names DEF SkipStep, TypeOK, Control
  <2>2. at \in Created => at \notin cache
    BY <2>1, Names DEF Applies
  <2>3. at = "detach" => ~({"igw", "vpc"} \subseteq cache)
    BY <2>1 DEF Applies
  <2>4. TypeOK' /\ Control' /\ Statuses'
    BY <1>3, <2>1, StepDoneEffect, Names, Steps
       DEF SkipStep, TypeOK, Control, Statuses, Creating, Place, DeleteStep, GroupSteps,
           NetworkSteps
  <2>5. DeletionKnowsFile' /\ DeletionProgress' /\ TerminatedIsGone' /\ Tracked'
    BY <1>3, <2>1, <2>2, StepDoneEffect, Names
       DEF SkipStep, DeletionKnowsFile, DeletionProgress, TerminatedIsGone, Tracked,
           ToGo, Deleting, TypeOK, Control, Creating, Created, Infra, GroupSteps
  <2>. QED
    BY <2>4, <2>5 DEF IInv
<1>4. CASE StepSucceeds
  <2>1. pc = "delete" /\ at \in DeleteStep /\ Deleted(at) /\ StepDone(at)
    BY <1>4 DEF StepSucceeds, Runs, Control
  <2>2. at \in Created => at \notin live'
    BY <2>1, Names DEF Deleted, Gone, Victims
  <2>3. TypeOK' /\ Control' /\ Statuses'
    BY <1>4, <2>1, DeletedShrinks, StepDoneEffect, Names, Steps, NoTries, ZenonT(30)
       DEF StepSucceeds, TypeOK, Control, Statuses, Creating, Place, DeleteStep, GroupSteps,
           NetworkSteps
  <2>4. DeletionKnowsFile' /\ DeletionProgress' /\ TerminatedIsGone' /\ Tracked'
    BY <1>4, <2>1, <2>2, DeletedShrinks, StepDoneEffect, Names
       DEF StepSucceeds, DeletionKnowsFile, DeletionProgress, TerminatedIsGone, Tracked,
           ToGo, Deleting, TypeOK, Control, Creating, Created, Infra, GroupSteps
  <2>. QED
    BY <2>3, <2>4 DEF IInv
<1>5. CASE StepRetried
  <2>1. TypeOK' /\ Control' /\ Statuses'
    BY <1>5, DeletedShrinks, Names, NoStatusType, Steps, RetriesAssumption
       DEF StepRetried, Runs, TypeOK, Control, Statuses, Creating, Place
  <2>2. DeletionKnowsFile' /\ DeletionProgress' /\ TerminatedIsGone' /\ Tracked'
    BY <1>5, DeletedShrinks, Names, NoStatusType
       DEF StepRetried, Runs, DeletionKnowsFile, DeletionProgress, TerminatedIsGone,
           Tracked, ToGo, Deleting, TypeOK, Control, Statuses, Creating, Created,
           GroupSteps
  <2>. QED
    BY <2>1, <2>2 DEF IInv
<1>6. CASE StepFails
  <2>1. /\ pc = "delete" /\ live' \subseteq live /\ links' \subseteq links
        /\ stopping' = stopping /\ enis' = enis /\ known' = known
        /\ UNCHANGED <<rolling, undo, mode, clobbered, crashed>>
    BY <1>6, DeletedShrinks DEF StepFails, Runs
  <2>2. /\ exists' \in BOOLEAN /\ torn' \in BOOLEAN /\ file' \in Status
        /\ torn => torn'
        /\ UNCHANGED <<file, torn>> \/ (at \in GroupSteps /\ Logged(cache, "DegradedGroup"))
    BY <1>6, LoggedUpdateEffect DEF StepFails, TypeOK, Condition
  <2>3. /\ rolling => pc' = "rollback" /\ tries' = 0 /\ at' = at /\ UNCHANGED <<env, cache>>
        /\ ~rolling => Exit
    BY <1>6 DEF StepFails
  <2>4. TypeOK' /\ Control' /\ Statuses'
    BY <2>1, <2>2, <2>3, NoStatusType, RetriesAssumption
       DEF Logged, Written, Unmodified, TypeOK, Control, Statuses, Creating, Place
  <2>5. DeletionKnowsFile' /\ DeletionProgress' /\ TerminatedIsGone' /\ Tracked'
    BY <2>1, <2>2, <2>3, NoStatusType
       DEF Logged, Written, Unmodified, DeletionKnowsFile, DeletionProgress, TerminatedIsGone,
           Tracked, Deleting, TypeOK, Control, Statuses, Creating
  <2>. QED
    BY <2>4, <2>5 DEF IInv
<1>7. CASE Finish
  <2>1. CASE UpdateStatus(cache, "Terminated") /\ Goto("deleted", at)
    <3>1. /\ exists' \in BOOLEAN /\ torn' = torn /\ file' \in Status
          /\ (file' = file /\ Unmodified(cache, "Terminated")) \/ Written(cache, "Terminated")
      BY <2>1, UpdateStatusEffect DEF TypeOK, Condition
    <3>2. UNCHANGED <<env, cache, tries>>
      BY <1>7, <2>1 DEF Finish
    <3>3. TypeOK' /\ Control' /\ Statuses'
      BY <1>7, <2>1, <3>1, <3>2
         DEF Finish, Written, Unmodified, TypeOK, Control, Statuses, Creating, Place
    <3>4. DeletionKnowsFile' /\ DeletionProgress' /\ TerminatedIsGone' /\ Tracked'
      BY <1>7, <2>1, <3>1, <3>2
         DEF Finish, Written, Unmodified, DeletionKnowsFile, DeletionProgress, TerminatedIsGone,
             Tracked, ToGo, Deleting, TypeOK, Control, Statuses, Creating
    <3>. QED
      BY <3>3, <3>4 DEF IInv
  <2>2. CASE WriteFails /\ Exit
    <3>1. TypeOK' /\ Control' /\ Statuses'
      BY <1>7, <2>2, NoStatusType, NoTries
         DEF Finish, WriteFails, TypeOK, Control, Statuses, Creating, Place
    <3>2. DeletionKnowsFile' /\ DeletionProgress' /\ TerminatedIsGone' /\ Tracked'
      BY <1>7, <2>2, NoStatusType
         DEF Finish, WriteFails, DeletionKnowsFile, DeletionProgress, TerminatedIsGone, Tracked,
             Deleting, TypeOK, Control, Statuses, Creating
    <3>. QED
      BY <3>1, <3>2 DEF IInv
  <2>. QED
    BY <1>7, <2>1, <2>2 DEF Finish
<1>8. CASE Deregister
  <2>1. TypeOK' /\ Control' /\ Statuses'
    BY <1>8, Names, NoStatusType, Steps, NoTries
       DEF Deregister, RemoveFile, TypeOK, Control, Statuses, Creating, Place
  <2>2. DeletionKnowsFile' /\ DeletionProgress' /\ TerminatedIsGone' /\ Tracked'
    BY <1>8, Names, NoStatusType
       DEF Deregister, RemoveFile, DeletionKnowsFile, DeletionProgress,
           TerminatedIsGone, Tracked, ToGo, Deleting, TypeOK, Control, Statuses,
           Creating, Created, GroupSteps
  <2>. QED
    BY <2>1, <2>2 DEF IInv
<1>. QED
  BY <1>1, <1>2, <1>3, <1>4, <1>5, <1>6, <1>7, <1>8 DEF DeleteResources

\* The provisioning that follows a creation changes the condition only.
LEMMA ProvisionPreserves ==
  ASSUME IInv, Provision
  PROVE  IInv'
<1>. USE DEF IInv, cloud, disk, proc, history
<1>1. /\ exists' \in BOOLEAN /\ torn' \in BOOLEAN /\ file' \in Status
      /\ torn => torn'
      /\ \/ /\ file'.saved = file.saved /\ file'.props = file.props
            /\ file'.cluster = file.cluster /\ file'.cond \in {"Available", "Degraded"}
         \/ file' = file
         \/ file' = NoStatus /\ torn'
  <2>1. CASE \E c \in {"Available", "Degraded"} : WriteFile([file EXCEPT !.cond = c])
    BY <2>1 DEF WriteFile, Status, Condition, TypeOK
  <2>2. CASE WriteFails
    BY <2>2, NoStatusType DEF WriteFails, TypeOK
  <2>. QED
    BY <2>1, <2>2 DEF Provision
<1>2. /\ pc = "idle" /\ mode = "cli" /\ file.cond = "Available"
      /\ UNCHANGED <<cloud, proc, rolling, undo, history>>
  BY DEF Provision
<1>3. TypeOK' /\ Control' /\ Statuses'
  BY <1>1, <1>2, NoStatusType DEF TypeOK, Control, Statuses, Creating
<1>4. DeletionKnowsFile' /\ DeletionProgress' /\ TerminatedIsGone' /\ Tracked'
  BY <1>1, <1>2, NoStatusType
     DEF DeletionKnowsFile, DeletionProgress, TerminatedIsGone, Tracked, Deleting, Creating
<1>. QED
  BY <1>3, <1>4 DEF IInv

\* A kill loses the process and nothing else.
LEMMA CrashPreserves ==
  ASSUME IInv, Crash
  PROVE  IInv'
<1>. USE DEF IInv, Crash, cloud, disk, Exit
<1>1. TypeOK' /\ Control' /\ Statuses'
  BY NoStatusType, NoTries DEF TypeOK, Control, Statuses, Creating, Place
<1>2. DeletionKnowsFile' /\ DeletionProgress' /\ TerminatedIsGone' /\ Tracked'
  BY NoStatusType
     DEF DeletionKnowsFile, DeletionProgress, TerminatedIsGone, Tracked, Deleting, TypeOK,
         Control, Creating
<1>. QED
  BY <1>1, <1>2 DEF IInv

\* What AWS does on its own only takes away.
LEMMA EnvironmentPreserves ==
  ASSUME IInv, Environment
  PROVE  IInv'
<1>. USE DEF IInv, Environment, disk, proc, history
<1>1. /\ live' \subseteq live /\ links' = links /\ stopping' \subseteq Instance
      /\ enis' \subseteq enis /\ known' \subseteq known
  BY DEF Stop, DrainENI, SelfTerminate, Forget, TypeOK
<1>2. TypeOK' /\ Control' /\ Statuses'
  BY <1>1 DEF TypeOK, Control, Statuses, Creating
<1>3. DeletionKnowsFile' /\ DeletionProgress' /\ TerminatedIsGone' /\ Tracked'
  BY <1>1
     DEF DeletionKnowsFile, DeletionProgress, TerminatedIsGone, Tracked, ToGo, TypeOK, Control
<1>. QED
  BY <1>2, <1>3 DEF IInv

\* Every step preserves the invariant.
LEMMA IInvNext == IInv /\ [Next]_vars => IInv'
<1>. SUFFICES ASSUME IInv, [Next]_vars PROVE IInv'
  OBVIOUS
<1>1. CASE Create
  BY <1>1, CreatePreserves
<1>2. CASE Delete /\ UNCHANGED <<undo, history>>
  BY <1>2, StartPreserves, BalancerPreserves, InstancesPreserve, ResourcesPreserve DEF Delete
<1>3. CASE Provision
  BY <1>3, ProvisionPreserves
<1>4. CASE Crash
  BY <1>4, CrashPreserves
<1>5. CASE Environment
  BY <1>5, EnvironmentPreserves
<1>6. CASE UNCHANGED vars
  BY <1>6
     DEF vars, cloud, disk, proc, history, IInv, TypeOK, Control, Statuses, DeletionKnowsFile,
         DeletionProgress, TerminatedIsGone, Tracked, ToGo
<1>. QED
  BY <1>1, <1>2, <1>3, <1>4, <1>5, <1>6 DEF Next

\* The invariant holds in every reachable state.
THEOREM Inductive == Spec => []IInv
  BY IInvInit, IInvNext, PTL DEF Spec

-----------------------------------------------------------------------------
(* The properties of the runs, for every value of the constants            *)

\* Every variable of create.go's and delete.go's model keeps its type.
THEOREM TypeCorrect == Spec => []TypeOK
<1>1. IInv => TypeOK
  BY DEF IInv
<1>. QED
  BY <1>1, Inductive, PTL

\* A file that says Terminated names nothing that exists, however many
\* attempts a call has, whatever fails and whenever the process is killed.
THEOREM TerminatedIsTrue == Spec => []TerminatedMeansGone
<1>1. IInv => TerminatedMeansGone
  BY DEF IInv, TerminatedIsGone, TerminatedMeansGone
<1>. QED
  BY <1>1, Inductive, PTL

\* Until the rollback overwrites the cache file, or a write fails, at most one
\* resource is missing from it, and only while its step is under way or after
\* a kill.
THEOREM NothingIsLost == Spec => []UntrackedOnlyInFlight
<1>1. IInv => UntrackedOnlyInFlight
  BY DEF IInv, Tracked, UntrackedOnlyInFlight, Untracked, Creating
<1>. QED
  BY <1>1, Inductive, PTL

\* Two actions remove the cache file; every update writes it or leaves it.
LEMMA OnlyTheseRemove ==
  ASSUME TypeOK, Next, exists, ~exists'
  PROVE  Deregister \/ ForgetTornFile
<1>. USE DEF disk
<1>1. \A c, k : ~UpdateStatus(c, k) /\ ~LoggedUpdate(c, k)
  BY DEF LoggedUpdate, UpdateStatus, WriteFile, WriteFails
<1>2. ~WriteFails /\ \A t : ~WriteFile(t)
  BY DEF WriteFile, WriteFails
<1>3. ~Create
  BY <1>1, <1>2
     DEF Create, StartCreate, CreateResource, CreateFails, CompleteResource, CompleteFails,
         RecordProgress, RecordAvailable, RecordAvailableFails, RecordDegraded, Cleanup,
         RollbackDone
<1>4. ~Provision /\ ~Crash /\ ~Environment
  BY <1>2 DEF Provision, Crash, Environment
<1>5. ~DeleteBalancer
  BY DEF DeleteBalancer, NoBalancer, BalancerNotFound, BalancerFound, BalancerLookupFails,
         DeleteNLBPart, DeleteNLB
<1>6. ~DeleteInstances
  BY <1>1
     DEF DeleteInstances, NoInstances, AnnounceTermination, TerminateInstances, TerminateRetry,
         TerminateFails, AwaitTermination, AwaitTimeout, DrainENIs
<1>7. DeleteResources => Deregister
  BY <1>1, <1>2
     DEF DeleteResources, DeleteSecurityGroups, DeleteVPCResources, SkipStep, StepSucceeds,
         StepRetried, StepFails, Finish
<1>8. StartDelete => ForgetTornFile
  BY DEF StartDelete, StartDeleteCLI, StartDeleteCI
<1>. QED
  BY <1>3, <1>4, <1>5, <1>6, <1>7, <1>8 DEF Next, Delete

\* The file is removed only when nothing it names exists.
THEOREM FileIsKept == Spec => FileOutlivesResources
<1>1. IInv /\ [Next]_vars => [exists /\ ~exists' => file.props \cap live' = {}]_vars
  <2>. SUFFICES ASSUME IInv, Next, exists, ~exists'
                PROVE  file.props \cap live' = {}
    BY DEF vars, disk
  <2>1. CASE Deregister
    BY <2>1 DEF Deregister, IInv, DeletionKnowsFile, DeletionProgress, Control, Deleting, ToGo,
                cloud
  <2>2. CASE ForgetTornFile
    BY <2>2 DEF ForgetTornFile, IInv, Statuses
  <2>. QED
    BY <2>1, <2>2, OnlyTheseRemove DEF IInv
<1>. QED
  BY <1>1, Inductive, PTL DEF Spec, FileOutlivesResources

-----------------------------------------------------------------------------
(* What the refinement needs besides IInv                                  *)

\* The resources made before the step r of Create, and the links.
Before(r) ==
  CASE r = "vpc"    -> {}
    [] r = "subnet" -> {"vpc"}
    [] r = "igw"    -> {"vpc", "subnet"}
    [] r = "rtb"    -> {"vpc", "subnet", "igw"}
    [] r = "sg"     -> {"vpc", "subnet", "igw", "rtb"}
    [] OTHER        -> Infra

LinksBefore(r) ==
  CASE r \in {"vpc", "subnet", "igw"} -> {}
    [] r = "rtb"                      -> {"igw-vpc"}
    [] OTHER                          -> {"igw-vpc", "rtb-subnet"}

\* Create has made what its steps so far make, and keeps it.
CreateProgress ==
  /\ mode = "none" => links = {}
  /\ pc \in Creating => cache \cap Infra \subseteq live /\ file.props \subseteq cache
  /\ pc \in {"create", "complete"} => Before(at) \subseteq cache /\ links = LinksBefore(at)
  /\ pc = "record" =>
       Before(at) \subseteq cache /\ links = LinksBefore(at) \cup FollowUp(at)
  /\ pc \in {"complete", "record"} => at \in cache

\* A file that is missing holds nothing, and is missing during Create only
\* when a write failed.
FileThere ==
  /\ ~exists => file = NoStatus
  /\ ~torn /\ (pc \in Creating \/ rolling) => exists

\* The rollback works on resources the file names, until it overwrites them.
RollbackNamed ==
  /\ pc \in Creating => undo \subseteq cache
  /\ pc \notin Creating /\ ~rolling => undo = {}
  /\ ~torn /\ ~clobbered /\ (pc \in Creating \/ rolling) => undo \subseteq file.props
  /\ ~torn /\ ~clobbered /\ rolling /\ pc = "delete" =>
       IF at = "detach" THEN "igw" \in file.props ELSE at \in file.props

\* The condition Available is there from the end of Create to the first
\* update of Delete, and all is in place meanwhile.
AvailableStays ==
  ~torn /\ file.cond = "Available" =>
    /\ pc \in {"idle", "balancer", "terminate"}
    /\ file.props = Created /\ Infra \subseteq live /\ links = {"igw-vpc", "rtb-subnet"}

\* Until then Delete's status is the one in the file, or empty.
EnvironmentRead ==
  /\ pc # "deleteNLB"
  /\ pc \in {"balancer", "terminate"} /\ ~rolling => env = file \/ env = NoStatus

RInv ==
  /\ CreateProgress /\ FileThere /\ RollbackNamed /\ AvailableStays /\ EnvironmentRead

-----------------------------------------------------------------------------
(* Lemmas                                                                  *)

\* What an update, logged or not, does to the file: nothing, because nothing
\* changes; a write; or a failed write.
WriteFailed == torn' /\ (UNCHANGED <<exists, file>> \/ (exists' /\ file' = NoStatus))

LEMMA FileEffect ==
  ASSUME TypeOK, NEW c \in SUBSET Created, NEW k \in Condition,
         LoggedUpdate(c, k) \/ UpdateStatus(c, k)
  PROVE  \/ Unmodified(c, k) /\ UNCHANGED disk
         \/ exists' /\ Written(c, k) /\ torn' = torn
         \/ WriteFailed
<1>. env \in Status /\ c \subseteq Resource
  BY Names DEF TypeOK
<1>1. CASE UpdateStatus(c, k) /\ Unmodified(c, k)
  BY <1>1 DEF UpdateStatus
<1>2. CASE UpdateStatus(c, k) /\ ~Unmodified(c, k)
  BY <1>2, UpdatedFields DEF UpdateStatus, WriteFile, Written
<1>3. CASE WriteFails
  BY <1>3 DEF WriteFails, WriteFailed
<1>. QED
  BY <1>1, <1>2, <1>3 DEF LoggedUpdate

\* The order of Create's steps.
LEMMA CreateOrder ==
  /\ \A r \in Infra : /\ Before(NextCreate[r]) \subseteq Before(r) \cup {r}
                      /\ LinksBefore(NextCreate[r]) = LinksBefore(r) \cup FollowUp(r)
                      /\ Before(r) \subseteq Infra /\ r \notin Instance
  /\ Before("vpc") = {} /\ LinksBefore("vpc") = {}
  /\ \A r \in Instance :
       /\ Before(r) = Infra /\ FollowUp(r) = {} /\ LinksBefore(r) = {"igw-vpc", "rtb-subnet"}
  /\ \A r \in Created : Before(r) \subseteq Infra
<1>. /\ Instance \cap Infra = {} /\ "igw" \notin Instance /\ "rtb" \notin Instance
     /\ TheInstance \in Instance
  BY Names, InstanceAssumption DEF Infra, Network, Groups
<1>1. \A r \in Instance :
       /\ Before(r) = Infra /\ FollowUp(r) = {} /\ LinksBefore(r) = {"igw-vpc", "rtb-subnet"}
  BY DEF Before, FollowUp, LinksBefore, Infra
<1>2. Before("vpc") = {} /\ LinksBefore("vpc") = {}
  BY DEF Before, LinksBefore
<1>3. \A r \in Infra : /\ Before(NextCreate[r]) \subseteq Before(r) \cup {r}
                       /\ LinksBefore(NextCreate[r]) = LinksBefore(r) \cup FollowUp(r)
                       /\ Before(r) \subseteq Infra /\ r \notin Instance
  BY <1>1 DEF Before, LinksBefore, FollowUp, NextCreate, Infra
<1>. QED
  BY <1>1, <1>2, <1>3 DEF Created

-----------------------------------------------------------------------------
(* RInv holds initially, and every step preserves it                       *)

LEMMA RInvInit == Init => RInv
BY CreateOrder, NoStatusType
   DEF Init, RInv, CreateProgress, FileThere, RollbackNamed, AvailableStays, EnvironmentRead,
       Creating

\* When Create records the instance, everything is in the cache and in place.
LEMMA CompleteCache ==
  ASSUME IInv, RInv, RecordAvailable
  PROVE  /\ at \in Instance /\ cache = Created /\ Infra \subseteq live
         /\ links = {"igw-vpc", "rtb-subnet"}
<1>. USE DEF IInv, RInv
<1>1. pc = "record" /\ at \in Instance /\ Before(at) = Infra /\ FollowUp(at) = {}
  BY CreateOrder DEF RecordAvailable
<1>2. Infra \subseteq cache /\ Instance \subseteq cache
  BY <1>1, Names DEF CreateProgress
<1>3. cache = Created
  BY <1>2 DEF TypeOK, Created
<1>4. Infra \subseteq live /\ links = {"igw-vpc", "rtb-subnet"}
  BY <1>1, <1>2, CreateOrder DEF CreateProgress, Creating
<1>. QED
  BY <1>1, <1>3, <1>4

\* The steps that make the environment.
LEMMA CreatePreservesR ==
  ASSUME IInv, RInv, Create, pc \in Creating \cup {"idle"}
  PROVE  RInv'
<1>. USE DEF IInv, RInv, cloud, disk, proc, history, Goto, Exit
<1>1. CASE StartCreate
  <2>1. \/ Unmodified({}, "Creating") /\ UNCHANGED disk
        \/ exists' /\ Written({}, "Creating") /\ torn' = torn
        \/ WriteFailed
    BY <1>1, FileEffect DEF StartCreate, TypeOK, Condition, Unmodified
  <2>2. /\ mode = "none" /\ mode' \in Modes /\ env' = NoStatus /\ cache' = {}
        /\ pc' = "create" /\ at' = "vpc" /\ links = {} /\ live = {} /\ file = NoStatus
        /\ undo = {} /\ ~rolling /\ env = NoStatus
        /\ UNCHANGED <<live, links, undo, rolling, clobbered>>
    BY <1>1 DEF StartCreate, CreateProgress, Control, RollbackNamed, Creating
  <2>. QED
    BY <2>1, <2>2, CreateOrder, NoStatusType, ModesAssumption
       DEF CreateProgress, FileThere, RollbackNamed, AvailableStays, EnvironmentRead,
           Creating, WriteFailed, Written, Unmodified
<1>2. CASE CreateResource
  BY <1>2, CreateOrder
     DEF CreateResource, CreateProgress, FileThere, RollbackNamed, AvailableStays,
         EnvironmentRead, Creating, Control, TerminatedIsGone
<1>3. CASE CreateFails
  BY <1>3
     DEF CreateFails, CreateProgress, FileThere, RollbackNamed, AvailableStays,
         EnvironmentRead, Creating, Control, TerminatedIsGone
<1>4. CASE CompleteResource
  BY <1>4
     DEF CompleteResource, CreateProgress, FileThere, RollbackNamed, AvailableStays,
         EnvironmentRead, Creating, Control, TerminatedIsGone
<1>5. CASE CompleteFails
  BY <1>5
     DEF CompleteFails, CreateProgress, FileThere, RollbackNamed, AvailableStays,
         EnvironmentRead, Creating, Control, TerminatedIsGone
<1>6. CASE RecordProgress
  <2>1. \/ exists' /\ Written(cache, "Creating") /\ torn' = torn
        \/ WriteFailed
    BY <1>6, FileEffect, NoStatusType
       DEF RecordProgress, TypeOK, Condition, Unmodified, Control, Creating
  <2>2. /\ pc = "record" /\ at \in Infra /\ undo' = undo \cup {at} /\ at \in cache
        /\ pc' = "create" /\ at' = NextCreate[at] /\ ~env.saved
        /\ mode # "none" /\ file.cond \in {"none", "Creating"} /\ ~rolling
        /\ UNCHANGED <<cloud, env, cache, rolling, history>>
    BY <1>6, NoStatusType
       DEF RecordProgress, CreateProgress, Control, Creating, TerminatedIsGone
  <2>3. CreateProgress'
    BY <2>1, <2>2, CreateOrder, NoStatusType
       DEF CreateProgress, Creating, WriteFailed, Written, RollbackNamed
  <2>4. FileThere' /\ RollbackNamed' /\ AvailableStays' /\ EnvironmentRead'
    BY <2>1, <2>2, NoStatusType
       DEF FileThere, RollbackNamed, AvailableStays, EnvironmentRead, Creating, WriteFailed,
           Written
  <2>. QED
    BY <2>3, <2>4
<1>7. CASE RecordAvailable
  <2>1. exists' /\ Written(cache, "Available") /\ torn' = torn
    <3>1. UpdateStatus(cache, "Available") /\ env = NoStatus
      BY <1>7 DEF RecordAvailable, Control, Creating
    <3>2. ~WriteFailed \/ torn' = torn
      BY <3>1, UpdateStatusEffect DEF TypeOK, Condition
    <3>3. ~Unmodified(cache, "Available")
      BY <3>1, NoStatusType DEF Unmodified
    <3>. QED
      BY <3>1, <3>3, UpdatedFields, Names
         DEF UpdateStatus, WriteFile, Written, TypeOK, Condition
  <2>2. /\ at \in Instance /\ cache = Created /\ Infra \subseteq live
        /\ links = {"igw-vpc", "rtb-subnet"}
    BY <1>7, CompleteCache
  <2>. QED
    BY <1>7, <2>1, <2>2, NoStatusType
       DEF RecordAvailable, Written, CreateProgress, FileThere, RollbackNamed, AvailableStays,
           EnvironmentRead, Creating, Control
<1>8. CASE RecordAvailableFails
  BY <1>8, NoStatusType
     DEF RecordAvailableFails, WriteFails, CreateProgress, FileThere, RollbackNamed,
         AvailableStays, EnvironmentRead, Creating, Control, TerminatedIsGone
<1>9. CASE RecordDegraded
  <2>1. \/ exists' /\ Written(cache, "Degraded") /\ torn' = torn
        \/ WriteFailed
    BY <1>9, FileEffect, NoStatusType
       DEF RecordDegraded, TypeOK, Condition, Unmodified, Control, Creating
  <2>. QED
    BY <1>9, <2>1, NoStatusType
       DEF RecordDegraded, Written, WriteFailed, CreateProgress, FileThere, RollbackNamed,
           AvailableStays, EnvironmentRead, Creating, Control
<1>10. CASE Cleanup \/ RollbackDone
  BY <1>10 DEF Cleanup, RollbackDone, Creating
<1>. QED
  BY <1>1, <1>2, <1>3, <1>4, <1>5, <1>6, <1>7, <1>8, <1>9, <1>10 DEF Create

\* The rollback's own steps.
LEMMA RollbackPreservesR ==
  ASSUME IInv, RInv, Cleanup \/ RollbackDone
  PROVE  RInv'
<1>. USE DEF IInv, RInv, cloud, disk, proc, history, Goto, Exit
<1>1. CASE Cleanup
  <2>. PICK r \in undo : /\ undo' = undo \ {r} /\ Handler(r)
                         /\ clobbered' = (clobbered \/ r = "sg")
    BY <1>1 DEF Cleanup
  <2>1. /\ r = "sg" => pc' = "groups"
        /\ r = "igw" => pc' = "delete" /\ at' = "detach"
        /\ r \in {"vpc", "subnet", "rtb"} => pc' = "delete" /\ at' = r
        /\ r \in Infra
    BY DEF Handler, TypeOK
  <2>2. pc = "rollback" /\ rolling /\ UNCHANGED <<cloud, disk, env, rolling, mode>>
    BY <1>1 DEF Cleanup, Control
  <2>. QED
    BY <2>1, <2>2
       DEF CreateProgress, FileThere, RollbackNamed, AvailableStays, EnvironmentRead,
           Creating, Infra
<1>2. CASE RollbackDone
  BY <1>2, NoStatusType
     DEF RollbackDone, CreateProgress, FileThere, RollbackNamed, AvailableStays,
         EnvironmentRead, Creating, Control
<1>. QED
  BY <1>1, <1>2

\* A step of a deletion or of a rollback's handler that leaves AWS and the file
\* alone.
LEMMA QuietPreservesR ==
  ASSUME IInv, RInv, pc \notin Creating, pc' \notin Creating \cup {"deleteNLB"},
         UNCHANGED <<live, links, disk, undo, history, rolling>>,
         pc' = "delete" => ~rolling,
         ~torn /\ file.cond = "Available" => pc' \in {"idle", "balancer", "terminate"},
         pc' \in {"balancer", "terminate"} => env' = file \/ env' = NoStatus
  PROVE  RInv'
BY DEF RInv, disk, history, CreateProgress, FileThere, RollbackNamed, AvailableStays,
       EnvironmentRead, Creating

\* A deletion that reads the file finds the instance named in it as long as
\* the condition is Available.
LEMMA AvailableNamesInstance ==
  ASSUME IInv, RInv, ~torn, file.cond = "Available", pc = "terminate"
  PROVE  InstanceIDs # {}
<1>1. ~rolling /\ file.props = Created
  BY DEF IInv, RInv, Control, AvailableStays
<1>2. cache = file.props
  BY <1>1 DEF IInv, DeletionKnowsFile, Deleting
<1>. QED
  BY <1>1, <1>2, Names DEF InstanceIDs, Created

\* The starts of a deletion.
LEMMA StartPreservesR ==
  ASSUME IInv, RInv, StartDelete, UNCHANGED <<undo, history>>
  PROVE  RInv'
<1>. USE DEF IInv, RInv, cloud, disk, proc, history, Goto, Exit
<1>1. CASE StartDeleteCLI \/ StartDeleteCI
  BY <1>1, QuietPreservesR DEF StartDeleteCLI, StartDeleteCI, Creating
<1>2. CASE ForgetTornFile
  BY <1>2, NoStatusType
     DEF ForgetTornFile, RemoveFile, CreateProgress, FileThere, RollbackNamed, AvailableStays,
         EnvironmentRead, Creating, Control
<1>. QED
  BY <1>1, <1>2 DEF StartDelete

\* The load balancer's phase does nothing for a single node.
LEMMA BalancerPreservesR ==
  ASSUME IInv, RInv, DeleteBalancer, UNCHANGED <<undo, history>>
  PROVE  RInv'
<1>1. NoBalancer
  BY Names
     DEF DeleteBalancer, BalancerNotFound, BalancerFound, BalancerLookupFails, DeleteNLBPart,
         DeleteNLB, RInv, EnvironmentRead
<1>2. pc = "balancer" /\ pc' = "terminate" /\ ~rolling /\ UNCHANGED <<cloud, disk, env, rolling>>
  BY <1>1 DEF NoBalancer, Goto, IInv, Control
<1>. QED
  BY <1>2, QuietPreservesR DEF RInv, EnvironmentRead, Creating, cloud, disk

\* After an update with another condition no file says Available, unless a
\* write failed.
LEMMA UpdateWithdraws ==
  ASSUME IInv, RInv, NEW c \in SUBSET Created, NEW k \in Condition \ {"Available"},
         LoggedUpdate(c, k) \/ UpdateStatus(c, k), pc \notin Creating \cup {"idle"}
  PROVE  /\ torn => torn'
         /\ ~exists' => file' = NoStatus /\ ~exists
         /\ ~torn' => file'.cond # "Available"
<1>1. \/ Unmodified(c, k) /\ UNCHANGED disk
      \/ exists' /\ Written(c, k) /\ torn' = torn
      \/ WriteFailed
  BY FileEffect DEF IInv
<1>2. ASSUME Unmodified(c, k), UNCHANGED disk, ~torn'
      PROVE  file'.cond # "Available"
  <2>1. SUFFICES ASSUME file.cond = "Available" PROVE FALSE
    BY <1>2 DEF disk
  <2>2. pc \in {"balancer", "terminate"} /\ ~rolling
    BY <1>2, <2>1 DEF RInv, AvailableStays, disk, IInv, Control
  <2>3. env = file
    BY <1>2, <2>2, NoStatusType DEF RInv, EnvironmentRead, Unmodified
  <2>. QED
    BY <1>2, <2>1, <2>3 DEF Unmodified
<1>. QED
  BY <1>1, <1>2 DEF disk, Written, WriteFailed, RInv, FileThere

\* The instances' phase.
LEMMA InstancesPreserveR ==
  ASSUME IInv, RInv, DeleteInstances, UNCHANGED <<undo, history>>
  PROVE  RInv'
<1>. USE DEF IInv, RInv, cloud, disk, proc, history, Goto, Exit
<1>. ~rolling /\ pc \in Deleting /\ mode # "none"
  BY DEF DeleteInstances, NoInstances, AnnounceTermination, TerminateInstances,
         TerminateRetry, TerminateFails, AwaitTermination, AwaitTimeout, DrainENIs, Control,
         Deleting
<1>1. CASE NoInstances
  BY <1>1, QuietPreservesR, AvailableNamesInstance DEF NoInstances, Creating, AvailableStays
<1>2. CASE AnnounceTermination
  <2>1. /\ torn => torn'
        /\ ~exists' => file' = NoStatus /\ ~exists
        /\ ~torn' => file'.cond # "Available"
    BY <1>2, UpdateWithdraws DEF AnnounceTermination, TypeOK, Condition, Creating
  <2>. QED
    BY <1>2, <2>1
       DEF AnnounceTermination, CreateProgress, FileThere, RollbackNamed, AvailableStays,
           EnvironmentRead, Creating
<1>3. CASE TerminateInstances \/ TerminateRetry
  BY <1>3, QuietPreservesR
     DEF TerminateInstances, TerminateRetry, Terminated, Creating, AvailableStays
<1>4. CASE TerminateFails
  <2>1. /\ torn => torn'
        /\ ~exists' => file' = NoStatus /\ ~exists
        /\ ~torn' => file'.cond # "Available"
    BY <1>4, UpdateWithdraws DEF TerminateFails, TypeOK, Condition, Creating
  <2>2. live' = live /\ links' = links
    BY <1>4 DEF TerminateFails, Terminated
  <2>. QED
    BY <1>4, <2>1, <2>2
       DEF TerminateFails, CreateProgress, FileThere, RollbackNamed, AvailableStays,
           EnvironmentRead, Creating
<1>5. CASE AwaitTermination \/ AwaitTimeout \/ DrainENIs
  BY <1>5, QuietPreservesR
     DEF AwaitTermination, AwaitTimeout, DrainENIs, Creating, AvailableStays
<1>. QED
  BY <1>1, <1>2, <1>3, <1>4, <1>5 DEF DeleteInstances

\* A group or network step of Delete or of the rollback.
LEMMA ResourcesPreserveR ==
  ASSUME IInv, RInv, DeleteResources, UNCHANGED <<undo, history>>
  PROVE  RInv'
<1>. USE DEF IInv, RInv, cloud, disk, proc, history, Goto, Exit
<1>. pc \in {"groups", "network", "delete", "finish", "deleted"} /\ mode # "none"
  BY DEF DeleteResources, DeleteSecurityGroups, DeleteVPCResources, SkipStep, StepSucceeds,
         StepRetried, StepFails, Finish, Deregister, Control, Runs
<1>. ~torn => file.cond # "Available"
  BY DEF AvailableStays
<1>1. CASE DeleteSecurityGroups \/ DeleteVPCResources
  <2>1. /\ torn => torn'
        /\ ~exists' => file' = NoStatus /\ ~exists
        /\ ~torn' => file'.cond # "Available"
    BY <1>1, UpdateWithdraws
       DEF DeleteSecurityGroups, DeleteVPCResources, TypeOK, Condition, Creating
  <2>. QED
    BY <1>1, <2>1
       DEF DeleteSecurityGroups, DeleteVPCResources, CreateProgress, FileThere, RollbackNamed,
           AvailableStays, EnvironmentRead, Creating, Control
<1>2. CASE SkipStep \/ StepSucceeds
  <2>1. /\ pc = "delete" /\ UNCHANGED <<disk, env, rolling>> /\ StepDone(at)
        /\ at \in DeleteStep
    BY <1>2 DEF SkipStep, StepSucceeds, Runs, Control
  <2>2. /\ pc' \in {"delete", "rollback", "network", "finish"}
        /\ pc' = "delete" /\ rolling => \/ at = "detach" /\ at' = "igw"
                                       \/ at \in GroupSteps
        /\ pc' \in {"network", "finish"} => ~rolling
    BY <2>1, StepDoneEffect DEF GroupSteps
  <2>3. rolling /\ at \in GroupSteps => clobbered
    BY <2>1 DEF Control
  <2>. QED
    BY <2>1, <2>2, <2>3
       DEF CreateProgress, FileThere, RollbackNamed, AvailableStays, EnvironmentRead, Creating
<1>3. CASE StepRetried
  BY <1>3
     DEF StepRetried, Runs, CreateProgress, FileThere, RollbackNamed, AvailableStays,
         EnvironmentRead, Creating
<1>4. CASE StepFails
  <2>1. /\ torn => torn'
        /\ ~exists' => file' = NoStatus /\ ~exists
        /\ ~torn' => file'.cond # "Available"
        /\ UNCHANGED disk \/ at \in GroupSteps
    BY <1>4, UpdateWithdraws DEF StepFails, TypeOK, Condition, Creating, Runs, FileThere
  <2>2. /\ pc = "delete" /\ rolling' = rolling
        /\ pc' = (IF rolling THEN "rollback" ELSE "idle")
    BY <1>4 DEF StepFails, Runs
  <2>3. rolling /\ at \in GroupSteps => clobbered
    BY <2>2 DEF Control
  <2>. QED
    BY <2>1, <2>2, <2>3
       DEF CreateProgress, FileThere, RollbackNamed, AvailableStays, EnvironmentRead, Creating
<1>5. CASE Finish
  <2>1. /\ torn => torn'
        /\ ~exists' => file' = NoStatus /\ ~exists
        /\ ~torn' => file'.cond # "Available"
    BY <1>5, UpdateWithdraws DEF Finish, LoggedUpdate, TypeOK, Condition, Creating
  <2>2. pc' \in {"deleted", "idle"} /\ rolling' = rolling /\ ~rolling
    BY <1>5 DEF Finish, Control
  <2>. QED
    BY <2>1, <2>2
       DEF CreateProgress, FileThere, RollbackNamed, AvailableStays, EnvironmentRead, Creating
<1>6. CASE Deregister
  BY <1>6, NoStatusType
     DEF Deregister, RemoveFile, CreateProgress, FileThere, RollbackNamed, AvailableStays,
         EnvironmentRead, Creating, Control
<1>. QED
  BY <1>1, <1>2, <1>3, <1>4, <1>5, <1>6 DEF DeleteResources

\* Provisioning leaves the ids in the file, a kill leaves the file, and AWS
\* takes away no more than instances.
LEMMA OthersPreserveR ==
  ASSUME IInv, RInv, Provision \/ Crash \/ Environment
  PROVE  RInv'
<1>. USE DEF IInv, RInv, cloud, disk, proc, history, Exit
<1>1. CASE Provision
  <2>1. /\ exists' /\ torn' = torn /\ file'.props = file.props
        \/ WriteFailed
    BY <1>1 DEF Provision, WriteFile, WriteFails, WriteFailed, TypeOK, Status
  <2>. QED
    BY <1>1, <2>1, NoStatusType
       DEF Provision, WriteFailed, CreateProgress, FileThere, RollbackNamed, AvailableStays,
           EnvironmentRead, Creating, Control
<1>2. CASE Crash
  BY <1>2, NoStatusType
     DEF Crash, CreateProgress, FileThere, RollbackNamed, AvailableStays, EnvironmentRead,
         Creating, TerminatedIsGone, Control
<1>3. CASE Environment
  <2>1. live' \subseteq live /\ live \ live' \subseteq Instance /\ links' = links
    BY <1>3 DEF Environment, Stop, DrainENI, SelfTerminate, Forget
  <2>2. Infra \cap Instance = {}
    BY CreateOrder
  <2>. QED
    BY <1>3, <2>1, <2>2
       DEF Environment, CreateProgress, FileThere, RollbackNamed, AvailableStays,
           EnvironmentRead, Creating
<1>. QED
  BY <1>1, <1>2, <1>3

\* Every step preserves RInv.
LEMMA RInvNext == IInv /\ RInv /\ [Next]_vars => RInv'
<1>. SUFFICES ASSUME IInv, RInv, [Next]_vars PROVE RInv'
  OBVIOUS
<1>1. CASE Create
  <2>1. pc \in Creating \cup {"idle"} \/ Cleanup \/ RollbackDone
    BY <1>1
       DEF Create, StartCreate, CreateResource, CreateFails, CompleteResource, CompleteFails,
           RecordProgress, RecordAvailable, RecordAvailableFails, RecordDegraded, Creating
  <2>. QED
    BY <1>1, <2>1, CreatePreservesR, RollbackPreservesR
<1>2. CASE Delete /\ UNCHANGED <<undo, history>>
  BY <1>2, StartPreservesR, BalancerPreservesR, InstancesPreserveR, ResourcesPreserveR
     DEF Delete
<1>3. CASE Provision \/ Crash \/ Environment
  BY <1>3, OthersPreserveR
<1>4. CASE UNCHANGED vars
  BY <1>4
     DEF vars, cloud, disk, proc, history, RInv, CreateProgress, FileThere, RollbackNamed,
         AvailableStays, EnvironmentRead
<1>. QED
  BY <1>1, <1>2, <1>3, <1>4 DEF Next

\* Both invariants hold in every reachable state.
LEMMA Reachable == Spec => [](IInv /\ RInv)
  BY IInvInit, RInvInit, IInvNext, RInvNext, PTL DEF Spec

\* Unless a write failed, a file that says Available names a complete
\* environment, in every state create.go, delete.go and their kills lead to.
THEOREM AvailableIsTrue == Spec => []AvailableMeansIntact
<1>1. RInv => AvailableMeansIntact
  BY DEF RInv, AvailableStays, AvailableMeansIntact
<1>. QED
  BY <1>1, Reachable, PTL

-----------------------------------------------------------------------------
(* Every step of SingleNode is a step of Lifecycle, or changes nothing     *)

\* What a step of Lifecycle may look like.
Kept == [Promise!Next]_(Promise!vars)

\* A step that leaves AWS, the file and the place in Create alone is hidden.
LEMMA HiddenStep ==
  ASSUME UNCHANGED <<live, disk, mode, clobbered, crashed>>,
         pc \in Creating <=> pc' \in Creating
  PROVE  Kept
BY DEF Kept, Promise!vars, Phase, disk

\* Once the file is damaged, a step need only keep the order of the phases.
LEMMA DamagedStep ==
  ASSUME IInv, IInv', RInv', torn' \/ clobbered', live' \subseteq live,
         crashed' \in {crashed, TRUE}, mode' # "none",
         mode = "none" => pc' \in Creating,
         pc' \in Creating => mode = "none" \/ pc \in Creating,
         exists' /\ file'.cond = "Available" => exists /\ file.cond = "Available"
  PROVE  Kept
<1>1. Phase' \in {Phase} \cup Promise!Later[Phase]
  <2>1. CASE Phase = "absent"
    BY <2>1 DEF Phase, Promise!Later, Creating
  <2>2. CASE Phase = "creating"
    BY <2>2 DEF Phase, Promise!Later, IInv, TerminatedIsGone
  <2>3. CASE Phase \in {"available", "partial", "closed"}
    BY <2>3 DEF Phase, Promise!Later
  <2>. QED
    BY <2>1, <2>2, <2>3 DEF Phase
<1>2. Phase' = "closed" => file'.props \cap live' = {}
  BY NoStatusType DEF Phase, IInv, RInv, TerminatedIsGone, FileThere
<1>3. file'.props \subseteq Created
  BY DEF IInv, Statuses
<1>4. (torn \/ clobbered)' = TRUE
  BY DEF IInv, TypeOK
<1>. QED
  BY <1>1, <1>2, <1>3, <1>4 DEF Kept, Promise!Next, Promise!Damage

\* The steps of Create.
LEMMA CreateKeeps ==
  ASSUME IInv, RInv, IInv', RInv', Create
  PROVE  Kept
<1>. USE DEF IInv, cloud, disk, proc, history, Goto, Exit
<1>1. CASE StartCreate
  <2>1. \/ exists' /\ Written({}, "Creating") /\ torn' = torn
        \/ WriteFailed
    BY <1>1, FileEffect, NoStatusType
       DEF StartCreate, TypeOK, Condition, Unmodified, Control
  <2>2. /\ mode = "none" /\ mode' # "none" /\ pc' = "create" /\ file = NoStatus
        /\ UNCHANGED <<live, clobbered, crashed>>
    BY <1>1, ModesAssumption DEF StartCreate, Control
  <2>3. CASE WriteFailed
    BY <2>2, <2>3, DamagedStep, NoStatusType DEF WriteFailed, Creating
  <2>4. CASE ~WriteFailed
    <3>1. file'.props = {} /\ torn' = torn
      BY <1>1, <2>1, <2>4, NoStatusType DEF Written, StartCreate, Control
    <3>2. Phase = "absent" /\ Phase' = "creating"
      BY <2>2 DEF Phase, Creating
    <3>. QED
      BY <2>2, <3>1, <3>2, NoStatusType DEF Kept, Promise!Next, Promise!Open
  <2>. QED
    BY <2>3, <2>4
<1>2. CASE CreateResource
  BY <1>2, Steps
     DEF CreateResource, Kept, Promise!Next, Promise!Acquire, Phase, Creating, Tracked, Control,
         TypeOK
<1>3. CASE CreateFails \/ CompleteResource \/ CompleteFails \/ RollbackDone
  BY <1>3, HiddenStep DEF CreateFails, CompleteResource, CompleteFails, RollbackDone, Creating
<1>4. CASE RecordProgress \/ RecordDegraded
  <2>1. \E k \in {"Creating", "Degraded"} :
           \/ exists' /\ Written(cache, k) /\ torn' = torn
           \/ WriteFailed
    BY <1>4, FileEffect, NoStatusType
       DEF RecordProgress, RecordDegraded, TypeOK, Condition, Unmodified, Control, Creating
  <2>2. /\ pc \in Creating /\ env = NoStatus /\ mode # "none" /\ ~rolling
        /\ pc' \in {"create", "rollback"} /\ file.props \subseteq cache /\ live \subseteq cache
        /\ UNCHANGED <<live, cache, history>>
    BY <1>4
       DEF RecordProgress, RecordDegraded, Creating, Control, RInv, CreateProgress, Tracked
  <2>3. CASE WriteFailed
    BY <2>2, <2>3, DamagedStep, NoStatusType DEF WriteFailed, Creating
  <2>4. CASE ~WriteFailed
    <3>1. /\ exists' /\ torn' = torn /\ file'.props = cache
          /\ file'.cond \in {"Creating", "Degraded"}
      BY <2>1, <2>2, <2>4, NoStatusType DEF Written
    <3>2. Phase = "creating" /\ Phase' \in {"creating", "partial"}
      BY <2>2, <3>1 DEF Phase, Creating
    <3>. QED
      BY <2>2, <3>1, <3>2 DEF Kept, Promise!Next, Promise!Enter, Promise!Note, TypeOK
  <2>. QED
    BY <2>3, <2>4
<1>5. CASE RecordAvailable
  <2>1. /\ pc = "record" /\ pc' = "idle" /\ mode # "none" /\ mode' = mode /\ env = NoStatus
        /\ UpdateStatus(cache, "Available")
        /\ UNCHANGED <<live, clobbered, crashed>>
    BY <1>5 DEF RecordAvailable, Control, Creating
  <2>2. exists' /\ file'.props = cache /\ file'.cond = "Available" /\ torn' = torn
    BY <2>1, UpdatedFields, NoStatusType, Names
       DEF UpdateStatus, Unmodified, WriteFile, TypeOK, Condition
  <2>3. at \in Instance /\ cache = Created /\ Infra \subseteq live
    BY <1>5, CompleteCache DEF RInv
  <2>4. Phase = "creating" /\ Phase' = "available"
    BY <2>1, <2>2 DEF Phase, Creating
  <2>5. Created \ Instance \subseteq live
    BY <2>3 DEF Created
  <2>. QED
    BY <2>1, <2>2, <2>3, <2>4, <2>5 DEF Kept, Promise!Next, Promise!Publish
<1>6. CASE RecordAvailableFails
  BY <1>6, DamagedStep, NoStatusType
     DEF RecordAvailableFails, WriteFails, Creating, Control
<1>7. CASE Cleanup
  <2>. PICK r \in undo : clobbered' = (clobbered \/ r = "sg") /\ Handler(r)
    BY <1>7 DEF Cleanup
  <2>. /\ pc = "rollback" /\ pc' \notin Creating /\ mode # "none"
       /\ UNCHANGED <<live, disk, mode, crashed>>
    BY <1>7 DEF Cleanup, Handler, Creating, Control
  <2>1. CASE clobbered'
    BY <2>1, DamagedStep DEF Creating
  <2>2. CASE ~clobbered'
    BY <2>2, HiddenStep DEF Creating, TypeOK
  <2>. QED
    BY <2>1, <2>2
<1>. QED
  BY <1>1, <1>2, <1>3, <1>4, <1>5, <1>6, <1>7 DEF Create

\* A delete call takes away nothing but what the file names.
LEMMA NamedTaken ==
  ASSUME IInv, RInv, Runs, Deleted(at) \/ Failed(at), ~torn, ~clobbered
  PROVE  live' \subseteq live /\ live \ live' \subseteq file.props
<1>. USE DEF IInv, RInv
<1>1. live' \subseteq live /\ live \ live' \subseteq Victims(at)
  BY DEF Deleted, Failed, cloud
<1>2. pc = "delete" /\ at \in DeleteStep /\ Applies(at)
  BY DEF Runs, Control
<1>3. CASE at = "detach"
  BY <1>1, <1>3 DEF Victims
<1>4. CASE at # "detach"
  <2>1. Victims(at) = {at}
    BY <1>2, <1>4 DEF Victims, DeleteStep, GroupSteps, NetworkSteps
  <2>2. at \in file.props
    <3>1. CASE rolling
      BY <3>1, <1>2, <1>4 DEF RollbackNamed
    <3>2. CASE ~rolling
      BY <3>2, <1>2, <1>4 DEF Applies, DeletionKnowsFile, Deleting
    <3>. QED
      BY <3>1, <3>2
  <2>. QED
    BY <1>1, <2>1, <2>2
<1>. QED
  BY <1>3, <1>4

\* A step of a deletion or a rollback that takes away what the file names and
\* updates the file with a condition of its own, or leaves the file alone.
LEMMA TakingKeeps ==
  ASSUME IInv, RInv, IInv', RInv', NEW k \in Condition \ {"Available", "Terminated"},
         pc \in Deleting, pc' \notin Creating, UNCHANGED history, live' \subseteq live,
         ~torn /\ ~clobbered => live \ live' \subseteq file.props,
         ~torn /\ file.cond = "Available" => live' = live,
         \/ UNCHANGED disk
         \/ exists' /\ Written(cache, k) /\ torn' = torn /\ (rolling => clobbered)
         \/ WriteFailed
  PROVE  Kept
<1>. USE DEF IInv, disk, history
<1>1. mode # "none" /\ pc \notin Creating
  BY DEF Control, Deleting, Creating
<1>2. CASE torn' \/ clobbered'
  BY <1>1, <1>2, DamagedStep, NoStatusType DEF Written, WriteFailed
<1>3. CASE ~torn' /\ ~clobbered' /\ UNCHANGED disk
  <2>1. Phase' = Phase /\ Phase \in {"partial", "available", "closed"}
    BY <1>1, <1>3 DEF Phase
  <2>2. CASE Phase = "partial"
    BY <1>3, <2>1, <2>2 DEF Kept, Promise!Next, Promise!Release
  <2>3. CASE Phase # "partial"
    <3>1. live' = live
      BY <1>1, <1>3, <2>3, NoStatusType DEF Phase, TerminatedIsGone, RInv, FileThere
    <3>. QED
      BY <3>1, <2>1, <1>3 DEF Kept, Promise!vars
  <2>. QED
    BY <2>2, <2>3
<1>4. CASE ~torn' /\ ~clobbered' /\ exists' /\ Written(cache, k) /\ torn' = torn /\ ~rolling
  <2>1. file'.props = file.props
    BY <1>4 DEF Written, DeletionKnowsFile
  <2>2. Phase' = "partial" /\ Phase \in {"partial", "available", "closed"}
    BY <1>1, <1>4 DEF Phase, Written
  <2>3. CASE Phase = "partial"
    BY <1>4, <2>1, <2>2, <2>3 DEF Kept, Promise!Next, Promise!Release
  <2>4. CASE Phase # "partial"
    <3>1. live' = live
      BY <1>1, <1>4, <2>4, NoStatusType DEF Phase, TerminatedIsGone, RInv, FileThere
    <3>. QED
      BY <1>4, <2>1, <2>2, <2>4, <3>1 DEF Kept, Promise!Next, Promise!Withdraw, Promise!Reopen
  <2>. QED
    BY <2>3, <2>4
<1>. QED
  BY <1>2, <1>3, <1>4 DEF WriteFailed

\* The starts of a deletion, and the removal of an empty file.
LEMMA StartKeeps ==
  ASSUME IInv, RInv, IInv', RInv', StartDelete, UNCHANGED <<undo, history>>
  PROVE  Kept
<1>. USE DEF IInv, cloud, disk, proc, history, Goto
<1>1. CASE StartDeleteCLI \/ StartDeleteCI
  BY <1>1, HiddenStep DEF StartDeleteCLI, StartDeleteCI, Creating
<1>2. CASE ForgetTornFile
  <2>1. /\ mode = "cli" /\ mode' = mode /\ pc \notin Creating /\ pc' = pc /\ exists /\ ~exists'
        /\ file.cond = "none" /\ file.props = {} /\ file'.props = {}
        /\ UNCHANGED <<live, torn, clobbered, crashed>>
    BY <1>2, NoStatusType DEF ForgetTornFile, RemoveFile, Statuses, Creating
  <2>2. Phase = "partial" /\ Phase' = "closed"
    BY <2>1 DEF Phase
  <2>. QED
    BY <2>1, <2>2 DEF Kept, Promise!Next, Promise!Close
<1>. QED
  BY <1>1, <1>2 DEF StartDelete

\* The phases before the groups take nothing away.
LEMMA InstancesKeep ==
  ASSUME IInv, RInv, IInv', RInv', DeleteBalancer \/ DeleteInstances,
         UNCHANGED <<undo, history>>
  PROVE  Kept
<1>. USE DEF cloud, disk, proc, history, Goto, Exit
<1>1. CASE DeleteBalancer
  <2>1. NoBalancer
    BY <1>1, Names
       DEF DeleteBalancer, BalancerNotFound, BalancerFound, BalancerLookupFails, DeleteNLBPart,
           DeleteNLB, RInv, EnvironmentRead
  <2>. QED
    BY <2>1, HiddenStep DEF NoBalancer, Creating
<1>2. CASE NoInstances \/ TerminateInstances \/ TerminateRetry \/ AwaitTermination
           \/ AwaitTimeout \/ DrainENIs
  BY <1>2, HiddenStep
     DEF NoInstances, TerminateInstances, TerminateRetry, Terminated, AwaitTermination,
         AwaitTimeout, DrainENIs, Creating
<1>3. CASE AnnounceTermination \/ TerminateFails
  <2>1. \E k \in {"Terminating", "DegradedEC2"} :
          /\ k \in Condition \ {"Available", "Terminated"}
          /\ \/ UNCHANGED disk
             \/ exists' /\ Written(cache, k) /\ torn' = torn
             \/ WriteFailed
    BY <1>3, FileEffect DEF AnnounceTermination, TerminateFails, IInv, TypeOK, Condition
  <2>2. live' = live /\ pc \in Deleting /\ pc' \notin Creating /\ ~rolling
    BY <1>3
       DEF AnnounceTermination, TerminateFails, Terminated, Creating, Deleting, IInv, Control
  <2>. QED
    BY <2>1, <2>2, TakingKeeps
<1>. QED
  BY <1>1, <1>2, <1>3 DEF DeleteInstances

\* The groups and the network of a deletion, or of a rollback.
LEMMA ResourcesKeep ==
  ASSUME IInv, RInv, IInv', RInv', DeleteResources, UNCHANGED <<undo, history>>
  PROVE  Kept
<1>. USE DEF IInv, cloud, disk, proc, history, Goto, Exit
<1>. pc \in {"groups", "network", "delete", "finish", "deleted"} /\ mode # "none"
  BY DEF DeleteResources, DeleteSecurityGroups, DeleteVPCResources, SkipStep, StepSucceeds,
         StepRetried, StepFails, Finish, Deregister, Control, Runs
<1>. pc \in Deleting /\ pc \notin Creating
  BY DEF Deleting, Creating
<1>0. ~torn => file.cond # "Available"
  BY DEF RInv, AvailableStays
<1>1. CASE DeleteSecurityGroups \/ DeleteVPCResources
  <2>1. \E k \in {"DeletingGroups", "DeletingVPC"} :
          /\ k \in Condition \ {"Available", "Terminated"}
          /\ \/ UNCHANGED disk
             \/ exists' /\ Written(cache, k) /\ torn' = torn
             \/ WriteFailed
    BY <1>1, FileEffect DEF DeleteSecurityGroups, DeleteVPCResources, TypeOK, Condition
  <2>2. live' = live /\ pc' \notin Creating /\ (rolling => clobbered)
    BY <1>1 DEF DeleteSecurityGroups, DeleteVPCResources, Control, Creating
  <2>. QED
    BY <2>1, <2>2, TakingKeeps
<1>2. CASE SkipStep
  <2>1. pc' \notin Creating
    BY <1>2 DEF SkipStep, StepDone, Creating
  <2>. QED
    BY <1>2, <2>1, HiddenStep DEF SkipStep
<1>3. CASE StepSucceeds \/ StepRetried
  <2>1. /\ Runs
        /\ Deleted(at) \/ Failed(at)
        /\ live' \subseteq live /\ UNCHANGED disk
    BY <1>3, DeletedShrinks DEF StepSucceeds, StepRetried
  <2>2. pc' \notin Creating
    BY <1>3 DEF StepSucceeds, StepRetried, StepDone, Creating
  <2>3. "Creating" \in Condition \ {"Available", "Terminated"}
    BY DEF Condition
  <2>4. ~torn /\ ~clobbered => live \ live' \subseteq file.props
    BY <2>1, NamedTaken
  <2>. QED
    BY <1>0, <2>1, <2>2, <2>3, <2>4, TakingKeeps
<1>4. CASE StepFails
  <2>1. Runs /\ Failed(at) /\ live' \subseteq live /\ pc' \notin Creating
    BY <1>4, DeletedShrinks DEF StepFails, Creating
  <2>2. "DegradedGroup" \in Condition \ {"Available", "Terminated"}
    BY DEF Condition
  <2>3. \/ UNCHANGED disk
        \/ /\ exists' /\ Written(cache, "DegradedGroup") /\ torn' = torn
           /\ (rolling => clobbered)
        \/ WriteFailed
    <3>1. CASE at \in GroupSteps
      BY <1>4, <2>1, <2>2, <3>1, FileEffect DEF StepFails, TypeOK, Control, Runs
    <3>2. CASE at \notin GroupSteps
      BY <1>4, <3>2 DEF StepFails
    <3>. QED
      BY <3>1, <3>2
  <2>. QED
    BY <1>0, <2>1, <2>2, <2>3, NamedTaken, TakingKeeps
<1>5. CASE Finish
  <2>1. /\ pc = "finish" /\ pc' \notin Creating /\ live' = live /\ ~rolling
        /\ cache \cap live = {}
    BY <1>5 DEF Finish, Creating, Control, DeletionProgress, ToGo
  <2>2. "Terminated" \in Condition
    BY DEF Condition
  <2>3. \/ UNCHANGED disk
        \/ exists' /\ Written(cache, "Terminated") /\ torn' = torn
        \/ WriteFailed
    BY <1>5, <2>2, FileEffect DEF Finish, LoggedUpdate, TypeOK
  <2>4. CASE torn' \/ clobbered'
    BY <2>1, <2>3, <2>4, DamagedStep, NoStatusType DEF Written, WriteFailed
  <2>5. CASE ~torn' /\ ~clobbered' /\ UNCHANGED disk
    BY <2>1, <2>5, HiddenStep
  <2>6. CASE ~torn' /\ ~clobbered' /\ exists' /\ Written(cache, "Terminated") /\ torn' = torn
    <3>1. file.props = cache /\ file'.props = cache
      BY <2>1, <2>6 DEF Written, DeletionKnowsFile
    <3>2. Phase \in {"partial", "closed"} /\ Phase' = "closed"
      BY <1>0, <2>1, <2>6 DEF Phase, Written
    <3>. QED
      BY <2>1, <2>6, <3>1, <3>2 DEF Kept, Promise!Next, Promise!Close
  <2>. QED
    BY <2>3, <2>4, <2>5, <2>6 DEF WriteFailed
<1>6. CASE Deregister
  <2>1. /\ pc = "deleted" /\ pc' \notin Creating /\ live' = live /\ ~rolling
        /\ file.props \cap live = {} /\ torn' = torn
    BY <1>6
       DEF Deregister, RemoveFile, Creating, Control, DeletionProgress, ToGo, DeletionKnowsFile
  <2>2. CASE UNCHANGED disk
    BY <2>1, <2>2, HiddenStep
  <2>3. CASE RemoveFile
    <3>1. CASE torn \/ clobbered
      BY <2>1, <2>3, <3>1, DamagedStep DEF RemoveFile
    <3>2. CASE ~torn /\ ~clobbered
      <4>1. Phase \in {"partial", "closed"} /\ Phase' = "closed" /\ file'.props = {}
        BY <1>0, <2>1, <2>3, <3>2, NoStatusType DEF Phase, RemoveFile
      <4>. QED
        BY <2>1, <3>2, <4>1 DEF Kept, Promise!Next, Promise!Close
    <3>. QED
      BY <3>1, <3>2
  <2>. QED
    BY <1>6, <2>2, <2>3 DEF Deregister
<1>. QED
  BY <1>1, <1>2, <1>3, <1>4, <1>5, <1>6 DEF DeleteResources

\* Provisioning, kills and what AWS does on its own.
LEMMA OthersKeep ==
  ASSUME IInv, RInv, IInv', RInv', Provision \/ Crash \/ Environment
  PROVE  Kept
<1>. USE DEF IInv, cloud, disk, proc, history, Exit
<1>1. CASE Provision
  <2>1. /\ mode = "cli" /\ pc = "idle" /\ exists /\ file.cond = "Available"
        /\ UNCHANGED <<live, mode, pc, clobbered, crashed>>
    BY <1>1 DEF Provision
  <2>2. \/ /\ exists' /\ torn' = torn /\ file'.props = file.props
           /\ file'.cond \in {"Available", "Degraded"}
        \/ WriteFailed
    BY <1>1 DEF Provision, WriteFile, WriteFails, WriteFailed, TypeOK, Status, Condition
  <2>3. CASE torn' \/ clobbered'
    BY <2>1, <2>2, <2>3, DamagedStep, NoStatusType DEF Creating, WriteFailed
  <2>4. CASE ~torn' /\ ~clobbered'
    <3>1. Phase = "available" /\ Phase' \in {"available", "partial"}
      BY <2>1, <2>2, <2>4 DEF Phase, Creating, WriteFailed
    <3>2. file'.props = file.props /\ torn' = torn
      BY <2>2, <2>4 DEF WriteFailed
    <3>3. CASE Phase' = "partial"
      BY <2>1, <3>1, <3>2, <3>3 DEF Kept, Promise!Next, Promise!Withdraw
    <3>4. CASE Phase' = "available"
      BY <2>1, <3>1, <3>2, <3>4 DEF Kept, Promise!vars
    <3>. QED
      BY <3>1, <3>3, <3>4
  <2>. QED
    BY <2>3, <2>4
<1>2. CASE Crash
  <2>1. /\ pc # "idle" /\ pc' = "idle" /\ mode # "none" /\ crashed' = TRUE
        /\ UNCHANGED <<live, disk, mode, clobbered>>
    BY <1>2 DEF Crash, Control
  <2>2. CASE torn \/ clobbered
    BY <2>1, <2>2, DamagedStep DEF Creating
  <2>3. CASE ~torn /\ ~clobbered
    <3>1. Phase' = IF Phase = "creating" THEN "partial" ELSE Phase
      BY <2>1, <2>3 DEF Phase, Creating, TerminatedIsGone, RInv, FileThere
    <3>. QED
      BY <2>1, <2>3, <3>1 DEF Kept, Promise!Next, Promise!Kill
  <2>. QED
    BY <2>2, <2>3
<1>3. CASE Environment
  <2>1. /\ live' \subseteq live /\ live \ live' \subseteq Instance
        /\ UNCHANGED <<disk, mode, pc, clobbered, crashed>>
    BY <1>3 DEF Environment, Stop, DrainENI, SelfTerminate, Forget
  <2>2. Phase' = Phase
    BY <2>1 DEF Phase
  <2>. QED
    BY <2>1, <2>2 DEF Kept, Promise!Next, Promise!Vanish
<1>. QED
  BY <1>1, <1>2, <1>3

\* A creation, its rollback, the deletions that follow and every kill of them
\* are a life of an environment as module Lifecycle promises it.
THEOREM Refinement == Spec => KeepsPromise
<1>1. Init => Promise!Init
  BY NoStatusType DEF Init, Promise!Init, Phase
<1>2. IInv /\ RInv /\ IInv' /\ RInv' /\ [Next]_vars => [Promise!Next]_(Promise!vars)
  <2>. SUFFICES ASSUME IInv, RInv, IInv', RInv', [Next]_vars PROVE Kept
    BY DEF Kept
  <2>1. CASE Create
    BY <2>1, CreateKeeps
  <2>2. CASE Delete /\ UNCHANGED <<undo, history>>
    BY <2>2, StartKeeps, InstancesKeep, ResourcesKeep DEF Delete
  <2>3. CASE Provision \/ Crash \/ Environment
    BY <2>3, OthersKeep
  <2>4. CASE UNCHANGED vars
    BY <2>4, HiddenStep DEF vars, cloud, proc, disk, history
  <2>. QED
    BY <2>1, <2>2, <2>3, <2>4 DEF Next
<1>. QED
  BY <1>1, <1>2, Reachable, PTL DEF Spec, KeepsPromise, Promise!Spec

-----------------------------------------------------------------------------
(* The order of a deletion                                                 *)

\* A gateway is attached, a route table associated, only while both ends exist.
LinkEnds ==
  /\ links \subseteq {"igw-vpc", "rtb-subnet"}
  /\ "igw-vpc" \in links => {"igw", "vpc"} \subseteq live
  /\ "rtb-subnet" \in links => {"rtb", "subnet"} \subseteq live

\* A deletion that knows both ends has detached the gateway before it deletes
\* either.
Detached ==
  ~rolling /\ pc = "delete" /\ at \in {"igw", "vpc"} /\ {"igw", "vpc"} \subseteq cache =>
    "igw-vpc" \notin links

OInv == LinkEnds /\ Detached

\* No call leaves a link with an end missing: EC2 refuses it.
LEMMA CallKeepsEnds ==
  ASSUME LinkEnds, at \in DeleteStep, Deleted(at) \/ Failed(at)
  PROVE  LinkEnds' /\ links' \subseteq links
<1>1. CASE UNCHANGED cloud
  BY <1>1 DEF cloud, LinkEnds
<1>2. CASE Deleted(at)
  <2>1. live' = live \ Victims(at) /\ links' = links \ LinksOf(at) /\ (Gone(at) \/ ~Blocked(at))
    BY <1>2 DEF Deleted
  <2>2. Victims(at) = (IF at = "detach" THEN {} ELSE {at})
    BY DEF Victims, DeleteStep, GroupSteps, NetworkSteps
  <2>3. CASE at = "detach" \/ at \notin live
    BY <2>1, <2>2, <2>3 DEF LinkEnds
  <2>4. CASE at # "detach" /\ at \in live
    <3>1. ~Blocked(at)
      BY <2>1, <2>4 DEF Gone
    <3>2. CASE at = "vpc"
      BY <2>1, <2>2, <3>1, <3>2 DEF LinkEnds, Blocked, Network
    <3>3. CASE at = "subnet"
      BY <2>1, <2>2, <3>3 DEF LinkEnds, LinksOf
    <3>4. CASE at \in {"igw", "rtb"}
      BY <2>1, <2>2, <3>1, <3>4 DEF LinkEnds, Blocked
    <3>5. CASE at \notin {"vpc", "subnet", "igw", "rtb"}
      BY <2>1, <2>2, <3>5 DEF LinkEnds
    <3>. QED
      BY <3>2, <3>3, <3>4, <3>5
  <2>. QED
    BY <2>3, <2>4
<1>. QED
  BY <1>1, <1>2 DEF Failed

\* Create links only what it has made.
LEMMA CreateKeepsOrder ==
  ASSUME IInv, RInv, OInv, Create
  PROVE  OInv'
<1>. USE DEF OInv, cloud, Goto, Exit, proc
<1>1. CASE CreateResource
  BY <1>1 DEF CreateResource, LinkEnds, Detached
<1>2. CASE CompleteResource \/ CompleteFails
  <2>1. /\ pc = "complete" /\ pc' # "delete" /\ live' = live
        /\ links' \in {links, links \cup FollowUp(at)}
    BY <1>2 DEF CompleteResource, CompleteFails
  <2>2. /\ at = "igw" => {"igw", "vpc"} \subseteq live
        /\ at = "rtb" => {"rtb", "subnet"} \subseteq live
    BY <2>1 DEF RInv, CreateProgress, Before, Creating, Infra
  <2>. QED
    BY <2>1, <2>2 DEF LinkEnds, Detached, FollowUp
<1>3. CASE StartCreate \/ CreateFails \/ RecordProgress \/ RecordAvailable
           \/ RecordAvailableFails \/ RecordDegraded \/ RollbackDone
  BY <1>3
     DEF StartCreate, CreateFails, RecordProgress, RecordAvailable, RecordAvailableFails,
         RecordDegraded, RollbackDone, LinkEnds, Detached
<1>4. CASE Cleanup
  <2>1. rolling' /\ UNCHANGED <<live, links>>
    BY <1>4 DEF Cleanup, IInv, Control, TypeOK
  <2>. QED
    BY <2>1 DEF LinkEnds, Detached
<1>. QED
  BY <1>1, <1>2, <1>3, <1>4 DEF Create

\* Delete detaches the gateway when its turn comes.
LEMMA DeleteKeepsOrder ==
  ASSUME IInv, RInv, OInv, Delete
  PROVE  OInv'
<1>. USE DEF OInv, cloud, Goto, Exit, proc
<1>1. CASE StartDelete
  BY <1>1 DEF StartDelete, StartDeleteCLI, ForgetTornFile, StartDeleteCI, LinkEnds, Detached,
              IInv, Control
<1>2. CASE DeleteBalancer
  <2>1. NoBalancer
    BY <1>2, Names
       DEF DeleteBalancer, BalancerNotFound, BalancerFound, BalancerLookupFails, DeleteNLBPart,
           DeleteNLB, RInv, EnvironmentRead
  <2>. QED
    BY <2>1 DEF NoBalancer, LinkEnds, Detached
<1>3. CASE DeleteInstances
  BY <1>3
     DEF DeleteInstances, NoInstances, AnnounceTermination, TerminateInstances, TerminateRetry,
         TerminateFails, AwaitTermination, AwaitTimeout, DrainENIs, Terminated, LinkEnds,
         Detached
<1>4. CASE DeleteSecurityGroups \/ DeleteVPCResources
  BY <1>4 DEF DeleteSecurityGroups, DeleteVPCResources, LinkEnds, Detached
<1>5. CASE SkipStep
  <2>1. /\ pc = "delete" /\ at \in DeleteStep /\ StepDone(at)
        /\ UNCHANGED <<live, links, rolling>>
        /\ at \in {"detach", "igw"} => cache' = cache
        /\ at = "detach" => ~({"igw", "vpc"} \subseteq cache)
    BY <1>5 DEF SkipStep, IInv, Control, Applies
  <2>2. pc' = "delete" /\ at' \in {"igw", "vpc"} /\ ~rolling => at \in {"detach", "igw"}
    BY <2>1, StepDoneEffect
  <2>3. pc' = "delete" /\ at' = "igw" => at = "detach"
    BY <2>1, StepDoneEffect
  <2>. QED
    BY <2>1, <2>2, <2>3 DEF LinkEnds, Detached
<1>6. CASE StepSucceeds
  <2>1. /\ pc = "delete" /\ at \in DeleteStep /\ StepDone(at) /\ Deleted(at)
        /\ UNCHANGED <<cache, rolling>>
    BY <1>6 DEF StepSucceeds, Runs, IInv, Control
  <2>2. LinkEnds' /\ links' \subseteq links
    BY <2>1, CallKeepsEnds
  <2>3. pc' = "delete" /\ at' \in {"igw", "vpc"} /\ ~rolling => at \in {"detach", "igw"}
    BY <2>1, StepDoneEffect
  <2>4. at = "detach" => "igw-vpc" \notin links'
    BY <2>1 DEF Deleted, LinksOf
  <2>. QED
    BY <2>1, <2>2, <2>3, <2>4 DEF Detached
<1>7. CASE StepRetried \/ StepFails
  <2>1. /\ pc = "delete" /\ at \in DeleteStep /\ Failed(at)
        /\ UNCHANGED <<cache, pc, at, rolling>> \/ pc' # "delete"
    BY <1>7 DEF StepRetried, StepFails, Runs, IInv, Control
  <2>2. LinkEnds' /\ links' \subseteq links
    BY <2>1, CallKeepsEnds
  <2>. QED
    BY <2>1, <2>2 DEF Detached
<1>8. CASE Finish \/ Deregister
  BY <1>8 DEF Finish, Deregister, LinkEnds, Detached
<1>. QED
  BY <1>1, <1>2, <1>3, <1>4, <1>5, <1>6, <1>7, <1>8 DEF Delete, DeleteResources

\* Every step preserves OInv.
LEMMA OInvNext == IInv /\ RInv /\ OInv /\ [Next]_vars => OInv'
<1>. SUFFICES ASSUME IInv, RInv, OInv, [Next]_vars PROVE OInv'
  OBVIOUS
<1>1. CASE Create
  BY <1>1, CreateKeepsOrder
<1>2. CASE Delete /\ UNCHANGED <<undo, history>>
  BY <1>2, DeleteKeepsOrder
<1>3. CASE Provision \/ Crash \/ UNCHANGED vars
  BY <1>3 DEF Provision, Crash, Exit, vars, cloud, proc, OInv, LinkEnds, Detached
<1>4. CASE Environment
  <2>1. live \ live' \subseteq Instance /\ links' = links /\ UNCHANGED <<cache, pc, at, rolling>>
    BY <1>4 DEF Environment, Stop, DrainENI, SelfTerminate, Forget, proc
  <2>2. Instance \cap Infra = {}
    BY CreateOrder
  <2>. QED
    BY <2>1, <2>2 DEF OInv, LinkEnds, Detached, Infra
<1>. QED
  BY <1>1, <1>2, <1>3, <1>4 DEF Next

\* When the file names all that exists and no interface is in use, none of
\* Delete's calls meets a DependencyViolation, whatever the calls before it
\* answered.
THEOREM OrderIsRight == Spec => []DeleteOrderRespectsDependencies
<1>1. Init => OInv
  BY DEF Init, OInv, LinkEnds, Detached
<1>2. IInv /\ RInv /\ OInv => DeleteOrderRespectsDependencies
  <2>. SUFFICES ASSUME IInv, RInv, OInv, Runs, ~rolling, live \subseteq file.props, enis = {}
                PROVE  Gone(at) \/ ~Blocked(at)
    BY DEF DeleteOrderRespectsDependencies, Untracked
  <2>. USE DEF IInv
  <2>1. pc = "delete" /\ at \in DeleteStep /\ Applies(at) /\ pc \in Deleting
    BY DEF Runs, Control, Deleting
  <2>2. live \subseteq cache /\ live \subseteq ToGo /\ live \subseteq Created
    BY <2>1 DEF DeletionKnowsFile, DeletionProgress, TypeOK
  <2>3. "nlb" \notin live /\ at \notin {"workersg", "cpsg", "pubsubnet", "pubrtb"}
    BY <2>1, <2>2, Names DEF Applies, TypeOK
  <2>4. CASE at \in {"sg", "subnet", "detach"}
    BY <2>3, <2>4 DEF Blocked
  <2>5. CASE at = "rtb"
    BY <2>1, <2>2, <2>5 DEF Blocked, ToGo, OInv, LinkEnds, GroupSteps
  <2>6. CASE at = "igw"
    BY <2>1, <2>2, <2>6 DEF Blocked, OInv, LinkEnds, Detached
  <2>7. CASE at = "vpc"
    BY <2>1, <2>2, <2>3, <2>7
       DEF Blocked, ToGo, OInv, LinkEnds, GroupSteps, Network, Groups
  <2>. QED
    BY <2>1, <2>3, <2>4, <2>5, <2>6, <2>7 DEF DeleteStep, GroupSteps, NetworkSteps
<1>. QED
  BY <1>1, <1>2, Reachable, OInvNext, PTL DEF Spec

=============================================================================
