----------------------------- MODULE SingleNode -----------------------------
(***************************************************************************)
(* create.go: Create of a single-node environment, with the cleanup stack  *)
(* that rolls a failed creation back, and the deletions that follow it.    *)
(*                                                                         *)
(* Every step creates one resource, remembers its id in the in-memory      *)
(* cache, does some follow-up calls that may fail, pushes the cleanup      *)
(* function and rewrites the cache file.  The process may be killed        *)
(* anywhere.                                                               *)
(***************************************************************************)
EXTENDS ProviderDelete

VARIABLES
  undo,       \* resources whose cleanup function is on the cleanup stack
  clobbered,  \* history: the rollback has overwritten the cache file's ids
  crashed     \* history: a process was killed

history == <<mode, clobbered, crashed>>
vars    == <<cloud, disk, proc, rolling, undo, history>>

ASSUME SingleNodeAssumption == ~Multinode /\ \E i \in Instance : Instance = {i}

TheInstance == CHOOSE i \in Instance : TRUE

\* What Create makes besides the instance, with a cleanup function each.
Infra   == {"vpc", "subnet", "igw", "rtb", "sg"}
Created == Infra \cup Instance

\* The order of the steps, which is that of the cleanup stack.
Rank       == [vpc |-> 1, subnet |-> 2, igw |-> 3, rtb |-> 4, sg |-> 5]
NextCreate == [vpc |-> "subnet", subnet |-> "igw", igw |-> "rtb", rtb |-> "sg",
               sg |-> TheInstance]

Init ==
  /\ live = {} /\ links = {} /\ stopping = {} /\ enis = {} /\ known = {}
  /\ exists = FALSE /\ file = NoStatus /\ torn = FALSE
  /\ env = NoStatus /\ cache = {} /\ pc = "idle" /\ at = "vpc" /\ tries = 0
  /\ rolling = FALSE /\ undo = {}
  /\ mode = "none" /\ clobbered = FALSE /\ crashed = FALSE

-----------------------------------------------------------------------------
(* Create                                                                  *)

\* The pre-flight check passed; the first status is written before anything
\* is created.
StartCreate ==
  /\ pc = "idle" /\ mode = "none"
  /\ mode' \in Modes
  /\ env' = NoStatus /\ cache' = {}
  /\ LoggedUpdate(cache', "Creating")
  /\ Goto("create", "vpc")
  /\ UNCHANGED <<cloud, tries, rolling, undo, clobbered, crashed>>

\* The call that brings the resource into being; the id reaches the cache
\* as soon as the call returns.
CreateResource ==
  /\ pc = "create"
  /\ live' = live \cup {at} /\ cache' = cache \cup {at}
  /\ enis' = enis \cup (Instance \cap {at})
  /\ known' = known \cup (Instance \cap {at})
  /\ Goto("complete", at)
  /\ UNCHANGED <<links, stopping, disk, env, tries, rolling, undo, history>>

\* A call made before the resource exists (or that call itself) fails.
CreateFails ==
  /\ pc = "create"
  /\ Goto("degrade", at)
  /\ UNCHANGED <<cloud, disk, env, cache, tries, rolling, undo, history>>

\* What the follow-up calls of a step establish: the gateway is attached,
\* the route table associated with the subnet.
FollowUp(r) ==
  CASE r = "igw" -> {"igw-vpc"}
    [] r = "rtb" -> {"rtb-subnet"}
    [] OTHER     -> {}

CompleteResource ==
  /\ pc = "complete"
  /\ links' = links \cup FollowUp(at)
  /\ Goto("record", at)
  /\ UNCHANGED <<live, stopping, enis, known, disk, env, cache, tries, rolling, undo, history>>

\* ModifyVpcAttribute, AttachInternetGateway, AssociateRouteTable or
\* CreateRoute, the public IP lookup or AuthorizeSecurityGroupIngress, the
\* instance waiter, CreateTags or ModifyNetworkInterfaceAttribute fails,
\* before or after the follow-up took effect. A subnet has no follow-up.
CompleteFails ==
  /\ pc = "complete" /\ at # "subnet"
  /\ links' \in {links, links \cup FollowUp(at)}
  /\ Goto("degrade", at)
  /\ UNCHANGED <<live, stopping, enis, known, disk, env, cache, tries, rolling, undo, history>>

\* A faulty variant: the progress is not written.
RecordProgressUnsaved ==
  /\ pc = "record" /\ at \in Infra
  /\ undo' = undo \cup {at}
  /\ Goto("create", NextCreate[at])
  /\ UNCHANGED <<cloud, disk, env, cache, tries, rolling, history>>

\* The cleanup function is pushed and the progress recorded.
RecordProgress ==
  /\ pc = "record" /\ at \in Infra
  /\ undo' = undo \cup {at}
  /\ LoggedUpdate(cache, "Creating")
  /\ Goto("create", NextCreate[at])
  /\ UNCHANGED <<cloud, env, cache, tries, rolling, history>>

\* After the instance the file is written a last time ...
RecordAvailable ==
  /\ pc = "record" /\ at \in Instance
  /\ UpdateStatus(cache, "Available")
  /\ Exit /\ undo' = {}
  /\ UNCHANGED <<cloud, rolling, history>>

\* ... and when that fails Create rolls back; the instance has no cleanup
\* function.
RecordAvailableFails ==
  /\ pc = "record" /\ at \in Instance
  /\ WriteFails
  /\ rolling' = TRUE
  /\ Goto("rollback", at)
  /\ UNCHANGED <<cloud, env, cache, tries, undo, history>>

\* A faulty variant: the failed step's resource is not noted.
RecordDegradedUnsaved ==
  /\ pc = "degrade"
  /\ rolling' = TRUE
  /\ Goto("rollback", at)
  /\ UNCHANGED <<cloud, disk, env, cache, tries, undo, history>>

\* A failed step records the Degraded condition, with the ids so far.
RecordDegraded ==
  /\ pc = "degrade"
  /\ LoggedUpdate(cache, "Degraded")
  /\ rolling' = TRUE
  /\ Goto("rollback", at)
  /\ UNCHANGED <<cloud, env, cache, tries, undo, history>>

-----------------------------------------------------------------------------
(* The rollback                                                            *)

\* The cache each cleanup function builds for the delete handler.
CleanupCache(r) == IF r \in {"igw", "rtb"} THEN {r, "vpc"} ELSE {r}

Handler(r) ==
  CASE r = "sg"  -> Goto("groups", r)
    [] r = "igw" -> Goto("delete", "detach")
    [] OTHER     -> Goto("delete", r)

\* The cleanup functions run in the reverse order of creation.
Cleanup ==
  /\ pc = "rollback" /\ undo # {}
  /\ \E r \in undo :
       /\ \A s \in undo : Rank[s] <= Rank[r]
       /\ cache' = CleanupCache(r)
       /\ undo' = undo \ {r}
       /\ Handler(r)
       /\ clobbered' = (clobbered \/ r = "sg")
  /\ UNCHANGED <<cloud, disk, env, tries, rolling, mode, crashed>>

RollbackDone ==
  /\ pc = "rollback" /\ undo = {}
  /\ rolling' = FALSE
  /\ Exit /\ UNCHANGED <<cloud, disk, undo, history>>

-----------------------------------------------------------------------------

\* After a successful Create the CLI provisions the instance and rewrites
\* the file, with the condition Degraded when provisioning failed.
Provision ==
  /\ mode = "cli" /\ pc = "idle" /\ exists /\ file.cond = "Available"
  /\ \/ \E c \in {"Available", "Degraded"} : WriteFile([file EXCEPT !.cond = c])
     \/ WriteFails
  /\ UNCHANGED <<cloud, proc, rolling, undo, history>>

\* The process is killed.
Crash ==
  /\ pc # "idle"
  /\ Exit /\ undo' = {} /\ rolling' = FALSE
  /\ crashed' = TRUE
  /\ UNCHANGED <<cloud, disk, mode, clobbered>>

\* What AWS does on its own.
Environment ==
  /\ \E i \in Instance : Stop(i) \/ DrainENI(i) \/ SelfTerminate(i) \/ Forget(i)
  /\ UNCHANGED <<disk, proc, rolling, undo, history>>

Create ==
  \/ StartCreate \/ CreateResource \/ CreateFails \/ CompleteResource \/ CompleteFails
  \/ RecordProgress \/ RecordAvailable \/ RecordAvailableFails \/ RecordDegraded
  \/ Cleanup \/ RollbackDone

Next ==
  \/ Create
  \/ Delete /\ UNCHANGED <<undo, history>>
  \/ Provision \/ Crash \/ Environment

Spec == Init /\ [][Next]_vars

\* A call fails although AWS has no reason to refuse it, or the process is
\* killed.
Fault ==
  \/ Crash
  \/ BalancerLookupFails \/ TerminateRetry \/ TerminateFails
  \/ AwaitTimeout /\ InstanceIDs \cap live = {}
  \/ (StepRetried \/ StepFails) /\ ~Blocked(at)

\* Fairness: a running process goes on, AWS finishes what it started, the
\* user (or the next run of the action) repeats a deletion that did not
\* finish, and from some time on there are no faults.
Fairness ==
  /\ WF_vars(Environment)
  /\ WF_vars(Create \/ (Delete /\ UNCHANGED <<undo, history>>))
  /\ <>[][~Fault]_vars

FairSpec == Spec /\ Fairness

-----------------------------------------------------------------------------
(* Properties                                                              *)

Place == {"idle", "create", "complete", "record", "degrade", "rollback", "balancer",
          "deleteNLB", "terminate", "terminateCall", "await", "drain", "groups",
          "delete", "network", "finish", "deleted"}

\* Every variable has the type its declaration announces.
TypeOK ==
  /\ live \subseteq Created /\ links \subseteq Link
  /\ stopping \subseteq Instance /\ enis \subseteq Instance /\ known \subseteq Instance
  /\ exists \in BOOLEAN /\ file \in Status /\ env \in Status
  /\ cache \subseteq Created /\ pc \in Place
  /\ at \in Resource \cup DeleteStep /\ tries \in 0 .. MaxRetries
  /\ rolling \in BOOLEAN /\ undo \subseteq Infra
  /\ mode \in Modes \cup {"none"} /\ torn \in BOOLEAN /\ clobbered \in BOOLEAN /\ crashed \in BOOLEAN

\* Resources that exist and that the cache file does not name.
Untracked == live \ file.props

\* As long as the file can be written, and until a rollback reaches the
\* security group, a kill loses track of one resource at most, and without a
\* kill nothing is untracked outside the step that creates it (the status
\* updates between the steps of Create).
UntrackedOnlyInFlight ==
  ~torn /\ ~clobbered =>
    /\ \E r \in Created : Untracked \subseteq {r}
    /\ ~crashed /\ pc \notin {"complete", "record", "degrade"} => Untracked = {}

\* Whatever failed, was retried, was killed and was run again before: a file
\* with the condition Terminated names nothing that still exists (Delete and
\* the action's isTerminated short cut).
TerminatedMeansGone ==
  exists /\ file.cond = "Terminated" => file.props \cap live = {}

\* Unless a write failed, a file with the condition Available names a complete
\* environment: Delete withdraws the condition before it removes anything.
AvailableMeansIntact ==
  ~torn /\ exists /\ file.cond = "Available" =>
    /\ file.props = Created
    /\ Infra \subseteq live
    /\ links = {"igw-vpc", "rtb-subnet"}

\* When the file names all that exists and the interfaces are drained, the
\* order of Delete's calls never meets a DependencyViolation.
DeleteOrderRespectsDependencies ==
  Runs /\ ~rolling /\ Untracked = {} /\ enis = {} => Gone(at) \/ ~Blocked(at)

\* The CLI gives the cache file up only when nothing it names exists.
FileOutlivesResources ==
  [][exists /\ ~exists' => file.props \cap live' = {}]_vars

\* The places of Create before its rollback.
Creating == {"create", "complete", "record", "degrade"}

\* How the cache file, with the place in Create, shows the phase of the life
\* of an environment.
Phase ==
  IF mode = "none" THEN "absent"
  ELSE IF pc \in Creating THEN "creating"
  ELSE IF ~exists \/ file.cond = "Terminated" THEN "closed"
  ELSE IF file.cond = "Available" THEN "available"
  ELSE "partial"

Promise == INSTANCE Lifecycle WITH
  Item <- Created, Volatile <- Instance,
  phase <- Phase, stock <- live, book <- file.props,
  damaged <- torn \/ clobbered, killed <- crashed

\* Create, its rollback, Delete, the CLI and the action keep the promise of a
\* provider, whatever fails and whenever they are killed: what exists is in the
\* file before the next resource is made, only what the file names is deleted,
\* and nothing is deleted before Available is withdrawn.
KeepsPromise == Promise!Spec

\* Repeating the deletion of an environment whose file names everything that
\* exists removes all of it, however the earlier attempts and their calls
\* failed, unless a failing disk tears the file meanwhile.
DeletionCompletes ==
  (pc = "idle" /\ exists /\ Untracked = {} /\ ~torn) ~> (live = {} \/ torn)

=============================================================================
