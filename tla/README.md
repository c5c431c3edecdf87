# A verification project for Holodeck

Holodeck creates and destroys GPU test environments: a single EC2 instance or a
Kubernetes cluster on AWS, or an existing host reached over SSH.  It runs as a
CLI (`holodeck create`, `holodeck delete`) and as a GitHub action whose second
invocation cleans up after the first.  What makes it hard is not any single
call but that dozens of AWS calls, each of which can fail, time out or lose its
answer, have to leave either an environment the cache file knows completely or
no environment at all - across kills of the process and repeated deletions.

This directory holds TLA+ models of that behaviour, TLC configurations that
check them, and TLAPS proofs.  Source paths are relative to the repository.

## 1. Inventory

| Component | State | Operations | Hard because |
|---|---|---|---|
| Cache file and status (`pkg/provider/aws/status.go`, `aws.go`) | one YAML file: `Status.Properties` (ids), `Status.Cluster` (nodes, balancer), conditions | `updateStatus`, `unmarsalCache` | not atomic; compares but never changes ids already there; conditions decide what later runs do |
| Single-node creation (`create.go`) | the in-memory `AWS` struct, the cleanup stack | `Create`: VPC, subnet, gateway, route table, security group, instance | failure after a resource exists; rollback in dependency order; kill between call and write |
| Deletion (`delete.go`, part of `nlb.go`) | ids from file and status | balancer, instances, interface wait, groups, network | asynchronous termination, dependencies, retries, lost answers, idempotence |
| Cluster creation (`cluster.go`, `nlb.go`) | `ClusterCache` | network, two groups, balancer, pools of nodes, status | concurrent launches; no rollback; ids recorded at the end only |
| CLI (`cmd/cli/create`, `cmd/cli/delete`, `internal/instances`) | one cache file per environment | create, provision, delete, list | removes the file after a deletion |
| GitHub action (`cmd/action/ci`) | one cache file per workspace | entrypoint, cleanup | second run finds what the first left; starts from the config file, not from the recorded status |
| VPC cleaner (`pkg/cleanup`) | none; reads AWS and the GitHub API | `CleanupVPC`, `DeleteVPCResources` | decides from a job status that may be unknown; races a running job |
| Provisioner (`pkg/provisioner/provisioner.go`) | SSH client, transport, script buffer | `Run`, `provision`, `resetConnection`, `waitForNodeReboot` | reconnects, reboots, partial provisioning |
| Cluster provisioner (`pkg/provisioner/cluster.go`) | join credentials | base phase on all nodes at once, init, joins, labels | parallel failures, credentials that expire, repetition |
| SSH layer (`pkg/sshutil`) | `known_hosts`, hop-1 client | `Dial`, `HostKeyCallback`, `BastionTransport` | several processes on one file, dead hops, retry delays |
| Logger (`internal/logger`) | list of active animations, `exited` | `Loading`, cancel, `Exit` | mutex, wait group and goroutines |
| Script templates (`pkg/provisioner/templates`) | what is on the node: packages, builds, configuration files, running daemons, a cluster | one shell script per dependency, source and installer | scripts decide by what they find what to skip; interrupted ones leave halves; they edit each other's files |
| AMI lookup, API types, queries, skills, utilities | none | pure functions and I/O | - |

How they interact: a command (CLI or action) builds a provider with the name
of the cache file; `Create` calls AWS and rewrites the file after every step;
the command then reads the file back, provisions the nodes over SSH and (CLI)
rewrites the file.  `Delete` reads ids from the file; the CLI also starts from
the status in it, the action from the empty status of the config file.  AWS
acts on its own: instances stop some time after they were told to, their network
interfaces linger and block groups, subnets and the VPC, an instance that shuts
itself down is terminated, and terminated instances are forgotten.

What makes each part correct:

* file and creation - whatever exists is named by the file, up to the one
  resource in flight when the process is killed;
* conditions - `Available` means complete, `Terminated` means gone;
* rollback - a failed creation leaves nothing (the code does not achieve this);
* deletion - never a call that AWS must refuse, never a success while something
  is left, and repeated often enough it succeeds;
* CLI - the file is not removed while it is needed;
* cleaner - no VPC of a running job is deleted; dependencies come first;
* provisioner - scripts run in dependency order, each on a connection opened
  after the one before; nobody joins before the first control plane is up;
* scripts - a first run, a repetition after any interruption and an update leave
  what the document asks for running, or say that they failed;
* SSH - one key per address; whoever a client talks to presented it; a dial ends,
  and gives up only for a reason;
* logger - `Exit` waits for every animation and never for ever; a verdict is the
  caller's own.

## 2. Modules

| Module | Models | Extends |
|---|---|---|
| `Provider` | state shared by all commands; EC2's dependency rules and asynchronous behaviour; the cache file and `updateStatus` | - |
| `ProviderDelete` | `delete.go`, the deletion half of `nlb.go`, how the CLI and the action start and end a deletion | `Provider` |
| `SingleNode` | `Create` with its cleanup stack, composed with deletion, provisioning, kill and AWS | `ProviderDelete`, `Lifecycle` |
| `Lifecycle` | the abstract promise of a provider: phases of an environment, what exists, what the book (the file) names | - |
| `SingleNodeClaims` | what a test says and the code does not do | `SingleNode` |
| `SingleNodeProofs` | theorems about `SingleNode`: types and the cache file, that it implements `Lifecycle`, that `Available` is true, and that the order of `Delete` respects EC2's dependencies | `SingleNode`, `TLAPS` |
| `Cluster` | `CreateCluster` with the goroutines of `createInstances`, composed likewise | `ProviderDelete`, `Lifecycle` |
| `ClusterProofs` | theorems about `Cluster`, and that it implements `Lifecycle` | `Cluster`, `TLAPS` |
| `Cleaner` | `pkg/cleanup`: repeated sweeps over the VPC of a job, composed with the job (a run of `Cluster`) and AWS | `Cluster` |
| `CleanerProofs` | theorems about `Cleaner` | `Cleaner`, `ClusterProofs` |
| `CleanerClaims` | what the command's guide says and the code does not do | `Cleaner` |
| `ClusterProvisioner` | `ProvisionCluster`, the kubeadm scripts on the nodes, and the repetition of both | - |
| `ClusterProvisionerClaims` | what a guide says of that repetition and the code does not do | `ClusterProvisioner` |
| `ClusterProvisionerProofs` | theorems about `ClusterProvisioner` | `ClusterProvisioner`, `TLAPS` |
| `NodeScripts` | a node as the scripts see it, and the steps a script is made of | - |
| `RuntimeScripts`, `GPUScripts`, `KubernetesScripts` | the templates: containerd, Docker, CRI-O; kernel, driver, toolkit; kubeadm, kind, MicroK8s | `NodeScripts` |
| `Provisioner` | `Run` with its dependencies, one script at a time, on a node with faults and reboots; repetitions and `holodeck update` | the three above |
| `ProvisionerProofs` | theorems about `Provisioner` and its scripts, over every fault | `Provisioner`, `SequenceTheorems`, `TLAPS` |
| `UndisturbedProofs` | theorems about `Provisioner` as long as nothing goes wrong | `ProvisionerProofs` |
| `MCProvisioner` | seventeen documents that together use every template | `Provisioner` |
| `ProvisionerClaims` | what the help of `update` says and the code does not do | `MCProvisioner` |
| `KnownHosts` | the host key callback: threads of several processes on one file, a mutex and a file lock | - |
| `Connection` | the dialer, the three transports and how a provisioner uses them, composed with `KnownHosts`, hosts and network | `KnownHosts` |
| `MCConnection` | two provisioners, in one process or two, three ways to connect | `Connection` |
| `ConnectionProofs` | theorems about `KnownHosts` and `Connection` | `Connection`, `TLAPS` |
| `ConnectionClaims` | what a comment says and the code does not do | `MCConnection` |
| `Logger` | loading animations, their cancel functions, `Exit` | - |
| `LoggerProofs` | theorems about `Logger` | `Logger`, `TLAPS` |

### State and code

* `live`, `links`, `stopping`, `enis`, `known` are AWS: which resources exist,
  which associations make one undeletable, which instances are shutting down,
  whose interface is still there, and which instance ids AWS still recognises.
  One resource of each kind exists per environment, so a kind is its own id.
* `exists`, `file` are the cache file: `props` the ids of `Status.Properties`,
  `cluster` those of `Status.Cluster`, `saved` whether there are properties at
  all, `cond` the condition that is true, with as much of its message as
  `updateStatus` tells apart.  `torn` and `clobbered` and `crashed` are history:
  a write failed, the rollback overwrote the ids, a process was killed.  Only
  properties read them.
* `env` is `p.Environment.Status` in the running process, `cache` the `AWS`
  struct, `members` the rest of `ClusterCache`, `node` the goroutines.
* `pc`, `at`, `tries` say where the process is: `pc` the function, `at` the
  resource it works on, `tries` the attempts `retryWithBackoff` has spent.
* `rolling` tells the delete handlers run by the cleanup stack, with a cache of
  their own, from those run by `Delete`.

A creation step is three actions: `CreateResource` (the call, and the id in the
cache), `CompleteResource` (follow-up calls: attach, associate, authorise, wait)
and `RecordProgress` (push the cleanup function, write the file).  Either of the
first two may fail, and the process may be killed between any two.  A delete
call succeeds, finds nothing, or fails; a failing call has had its effect or
not (`Failed`), which is a lost answer.  The checks after a delete call ("still
exists after deletion") can only add an error answer and are part of that.

In `Cleaner`, `job` is the GitHub job: when it ends, the runner goes with its
cache file (`JobEnds`), wherever the creation or deletion had got to.  `stage`
and `phase` say where in `DeleteVPCResources` the cleaner is (a stage lists,
loosens, deletes), `found` what the listing of the stage returned, `attempts`
the spent attempts of `deleteVPC`, `regrouped` the instances whose interface was
moved to the default group.  `trouble` is history: whether a call failed without
reason in this sweep.  Calls of the cleaner that fail are logged and the sweep
goes on, except a failed listing, termination or wait, and the VPC itself.

In `ClusterProvisioner`, `base`, `tools`, `unit`, `conf`, `cplane`, `registered`,
`labelled`, `control` and `calico` are what is on the nodes and in the cluster;
they outlive the process.  `tools` is how far the one `curl` that downloads
kubeadm, kubelet and kubectl and the `chmod` behind it have come, `unit` whether
`tee` has created the kubelet's service and whether `curl` has filled it; the two
scripts that install them ask different questions before they skip them (that of
the first node for all three files, that of the others for kubeadm and kubelet, and
before the download for kubeadm alone).  `cut` is history: the nodes whose
installation was cut off.  `phase` is the function of `cluster.go` that runs,
`task` the goroutines of its parallel phases, `step` the line group of the
script in the others, `togo` and `target` the loops over the nodes, `token` and
`key` the join information.  A script's step has happened or not when its
session ends; a script whose session is gone dies at the next line it writes.
The scripts decide by `control`, `apiUp`, `tools`, `unit` and `conf` what to skip,
as they do by `admin.conf`, `kubectl get nodes`, the binaries, the service's file
and `kubelet.conf`.  `Docker` says whether Docker is the runtime of the nodes: it
brings a containerd along beside cri-dockerd, and neither `kubeadm init` nor
`kubeadm join` is told which to use (`CanInit`, `CanJoin`).  What the scripts of the
base dependencies leave when they are cut off is the subject of `Provisioner`; here
a base script that can never succeed again counts as one that fails without reason
(`trouble`), which the fairness of `RepetitionCompletes` excludes.
The order of the nodes within a pool is left open.

In `NodeScripts`, `disk` is what installations leave behind (a build, or how far
it has come), `config` the settings in each runtime's configuration file, `proc`
what runs, from which build and with which settings read: a daemon knows its file
as it was when it started.  A template is an operator that returns the steps of
its script: the empty sequence when it finds its work done (`...Skips`), else what
is put on the disk, written to a configuration, restarted and verified, in the
order of the lines.  A step that takes several system calls (a download, a
package, `kubeadm init`) can be cut off inside.  What a script downloads only if its
file is not there (`Fetch`) is `"partial"` when it was cut off, and stays so: the
next run looks at the name of the file only, and whatever uses the part fails
(`Whole`, `CanInit`, `Started`).  `<<c, "fetched">>` stands for the key and list of a
package repository, or for the Go a build needs.  A check of a record needs `jq`,
which a machine image has or has not.  Docker says its version without the prefix
and suffix its package is named with, unless `PlainNames`: a pinned Docker is never
recognised.  When Docker is restarted, cri-dockerd and the containers of kind may
stop with it (`LostWith`).  `kubeadm init` that is not told a socket refuses to
choose on Docker (`KubeadmInitSearches`, `SocketKnown`).  `doc` is the document, with the
component's source and reference; `todo` the dependencies left, `phase` whether
the run is idle, between scripts, in one, or waiting for a reboot, `power` the
node; `fresh` and `disturbed` are history.  `Blocked` is the verification that
fails (`holodeck_verify_*`, `holodeck_retry`): the script ends with an error.
Versions are two, the newest and an older one; of Kubernetes the older one is
from before 1.32, when kubeadm needs no configuration file.

In `KnownHosts`, `known` are the lines of the file, `mutex` is `tofuMu` of each
process, `flock` the lock of the file, and `at` the line of the callback a thread
is at, `loaded` the file as it read it.  A host's key is the host.  In
`Connection`, `pc` is the function a provisioner is in, `mode` the caller of
`ensureClient`, `tries` the attempts left for the target and (another dialer) for
the bastion, `conn` the connection of the handshake (open, closed, or silent: the
other side is gone without a word), `client` the SSH client, `hop1` the client of
the bastion transport, `session` the aws process of the SSM transport.  `outage`
is history.  A host that falls silent under an idle client counts as noticed.

In `Logger`, `activeCancels`, `exited` and `wg` are the fields of `FunLogger`,
`cause` the first cause a context was cancelled with, `shown` what the terminal
shows; `said` is history.  What happens under the mutex is one action; the cancel
function is two (`Cancel`, `FreeSlot`), as in the code.

`SingleNode` instantiates `Lifecycle` with `stock` the live resources, `book` the
ids in the file and `phase` computed by `Phase` from the file's condition and the
place in `Create`.  `damaged` is `torn \/ clobbered`: what the promise still says
then is the order of the phases, that nothing is made after the creation, and that
the book is closed only when nothing in it exists.  Each action of `Lifecycle` is
needed: without any one of them TLC finds a step of `SingleNode` that has no image.
`Cluster` instantiates it too, for its network and groups: the nodes and the
balancer are made without being noted one by one, and enter the file at the end.
Nothing writes over its file, so `damaged` is `torn`, and the network does not go
away on its own (`Volatile` is empty).

`mode` is chosen when `Create` is called.  Deletions start from whatever the
file holds, in any state the earlier actions left, any number of times.

The EC2 rules (`Blocked`, `Victims`, `LinksOf`, `Stop`, `DrainENI`,
`SelfTerminate`, `Forget`) are external: they state how the code expects AWS to
behave (its comments name the dependencies, its error handling the answers).
The in-memory AWS of the tests enforces none of the dependencies.

Each module holds a few definitions marked as faulty variants.  No specification
uses them; `PROJECT.json` names, for every property, the definition to replace
by a variant so that TLC finds the property violated.

## 3. Runs

| Run | Checks | Bounds |
|---|---|---|
| `single_node` | the safety properties of `SingleNode`, that it implements `Lifecycle` (`KeepsPromise`), and `DeletionCompletes` | one instance, both modes, 2 attempts per call, failing writes: 252 thousand states |
| `cluster` | the safety properties of `Cluster`, and that it implements `Lifecycle` (`KeepsPromise`) | 2 control-plane nodes, 1 worker, HA, both modes, 2 attempts, failing writes: 1.8 million states |
| `cleaner` | the safety properties of `Cleaner` and `LeftoversAreSwept` | a job with 1 control-plane node, 1 worker, HA, 1 attempt per call: 99 thousand states |
| `cluster_provisioner` | the properties of `ClusterProvisioner` | 2 control-plane nodes, 1 worker, HA, containerd: 354 thousand states |
| `provisioner` | the properties of `Provisioner` | seventeen documents, 1 fault, 1 edit, any number of runs, with a GPU, with and without `jq`: 677 thousand states |
| `ssh` | the properties of `KnownHosts` and `Connection` | 2 threads, 1 or 2 processes, 3 setups, 2 attempts, 2 rounds, 1 script, 1 fault: 266 thousand states |
| `logger` | the properties of `Logger` | 2 callers, 2 animations each: 92 thousand states |
| `rollback_claim` | violated: `RollbackLeavesNothing` | one injected failure of a creating call, as in the test it quotes |
| `running_job_claim` | violated: `SweepSparesRunningJob` | as `cleaner`, without HA, GitHub may give no answer |
| `reprovision_claim` | violated: `SuccessMeansControlPlane` | as `cluster_provisioner` |
| `idempotent_claim` | violated: `TemplatesAreIdempotent` | one document, no fault, no edit |
| `heal_claim` | violated: `DeadClientsAreReplaced` | as `ssh`, both threads behind the bastion |

Bounds.  Attempts of a call behave alike except the first and the last, so two
show what ten do (`MaxRetries`); how often a deletion is repeated is not
bounded.  Two nodes of a pool are the least for one to fail while another runs,
a third of another pool for a completed pool beside a failing one.  The cleaner
treats all instances as one set, and what a job leaves does not depend on how
often a call was tried: two nodes and one attempt are enough for it.  For provisioning, one
node of each kind is there: the first control-plane node, another one, a worker.
The validation of a document wants at least three control-plane nodes for high
availability (`validation.go`); the second stands for all that are not the first,
which run the same script one after the other and know nothing of each other.  How
often a run is interrupted and repeated is not bounded.  One fault and one edit bring a script
to every line it can be cut off at, and every template to a node that another
version of itself has been run on; how often the run is repeated is not bounded.
Two threads are the least that race for a host key, one fault cuts any
connection, host or process at any point, and attempts behave alike except the
last.  In the `ssh` run one thread forwards a port: two threads that choose the
same one (`DialTunnel`) are in the model, and left out of the run for their
number of states.  Two animations per caller are the least for a slot to be
freed before another is taken.  `NameFits`
is TRUE: with a truncated name the balancer is never found (see the hazards).
Deadlock is not checked: after the environment is gone nothing is left to do.

What the passing runs show:

* `UntrackedOnlyInFlight`, `InfraIsTracked`: a kill loses one resource at most;
  without a kill, and until a rollback reaches the security group, the file
  names everything.
* `TerminatedMeansGone`, `TerminatedMeansNoNode`: no sequence of failures,
  kills, retries and repetitions makes `Terminated` a lie - even for the
  action's deletion of a cluster, which does not know the nodes: AWS refuses to
  delete a network that is in use.
* `AvailableMeansIntact`, `AvailableMeansRecorded`: the condition appears last
  and is withdrawn before a node or the network is touched.  The load balancer
  is not part of it: phase 0 of `Delete` removes it first.
* `DeleteOrderRespectsDependencies`: with interfaces drained, group rules
  revoked and the file complete, no delete call meets a DependencyViolation.
* `FileOutlivesResources`, `FileOutlivesCluster`: the CLI removes the file only
  when what it names is gone.  A target group may survive: its deletion is only
  logged.
* `KeepsPromise`: the steps of creation, rollback, deletion, provisioning and
  kills, taken together, are those of `Lifecycle`.  Beyond the invariants above it
  says that, with an intact file, no resource is made before the one before it is in it, that
  only what the file names is deleted, that `Available` is reached from a creation
  alone, and never again once it was withdrawn.  For a cluster it says so of the
  network and the groups.
* `DeletionCompletes`: a deletion that is repeated gets everything, from every
  state an earlier attempt can leave.

* `SweptMeansGone`: although the cleaner swallows most errors, a sweep that
  reports success leaves at most a gateway or a target group: AWS would not have
  deleted the VPC otherwise.
* `SweepRespectsDependencies`: as long as nothing failed, no call of a sweep has
  to be refused once interfaces are drained.
* `LeftoversAreSwept`: from every state a job can be killed in, including
  resources its file never named, repeated sweeps remove all but those two.

* `KubernetesOnFullBase`: the barriers between the phases hold whoever fails: no node
  is initialised or joined before all have their base dependencies, and all of the
  binaries and the service - except the nodes in `cut`, on which a repetition takes
  the part of a download for the whole and passes with a node without a kubelet.
* `NeverInitialisedTwice`, `SuccessMeansNetworked`: the two guards of the init
  script keep it from initialising a complete cluster; and since the last step
  waits for the nodes, a run that skipped half of the init script by mistake
  does not return nil.
* `RepetitionCompletes` (of `ClusterProvisioner`): repeating an interrupted
  provisioning succeeds again and again, unless from some time on the cluster is
  `HalfDone` for ever: `kubeadm init` or Calico interrupted, binaries that were never
  made executable or an empty service on the first node, anything less than a
  complete installation on a node that has not joined, or Docker as the runtime.
  Each of these disjuncts but the last is needed in the run: without any one of them
  TLC finds a run that is repeated for ever (and with `Docker` TRUE, none succeeds).

* `FirstRunServes`: on a fresh node, the scripts that edit one configuration file
  after another leave every runtime with all its settings read.
* `SuccessMeansKubernetes`, `SuccessMeansDriver`: a run that succeeds after any
  interruption has a ready cluster and a loaded driver of the pinned version: what
  scripts skip is complete, or a later check of the same script fails.
* `KernelPromise`: the provisioner cannot tell a node that has rebooted from one
  that is about to, but then the marker of the kernel script says so.
* `UndisturbedRunSucceeds`: without faults a run fails only for the documents that
  `MayFail` lists (among them `--add-kubernetes` without an installer, which the
  kubeadm template cannot serve, a kernel, whose reboot may come when the next
  script runs, Docker and CRI-O from a branch, which have no template, and on Docker
  kubeadm from source, which is not told the socket, or a cri-dockerd without a
  unit).
* `ClusterIsKept`: an undisturbed repetition or update takes nothing of a complete
  cluster of kubeadm apart.  Of a cluster of kind this is true only if the scripts
  recognise what they find (`Harmless`): otherwise an undisturbed repetition does
  delete it, because the record of its commit cannot be read without `jq`, or because
  a pinned Docker (or a toolkit that is configured again) is restarted below it and
  the script asks the cluster once.  With `Harmless` replaced by TRUE TLC shows such
  a run.
* `RepetitionCompletes` (of `Provisioner`): repetition gets over every
  interruption, except from the states of `Stuck`: documents that may fail anyway; a
  part of a download that is taken for the whole (`Truncated`); a containerd that
  runs, is found installed, and has never read the configuration the kubelet needs,
  with no toolkit to restart it (`Unread`); and an `admin.conf` without a cluster.
* `OneKeyPerAddress`, `ClientsAreVerified`, `CallbacksReturn`: reading, verifying
  and appending are one step for other threads and processes, no client exists
  whose key is not in the file, and no thread waits for ever for a lock, also when
  its holder is killed or refused.
* `GivesUpWithReason`: a dial fails only if something on the way failed, if the
  address is recorded with another host's key (a reused address is refused for
  ever), or if the bastion's client is dead.
* `DialsEnd`: every dial ends, except a handshake through a bastion with a node
  that falls silent: such a connection ignores `SetDeadline` (`Hangs`).
* `VerdictIsTheCallers`, `WaitsEnd`: a cross means that the caller reported a
  failure, a failure reported in time is never overwritten by `Exit`, and `Exit`
  returns whatever callers start, cancel or leave at the same time.

Fairness (`SingleNode!Fairness`).  A running process takes its next step; AWS
finishes terminations and releases interfaces; the deletion is started again
after it failed (the user, or the next run of the action) - nothing in the code
repeats it; and from some point on there are no kills and no refusals without
reason.  Without the last assumption every attempt could be interrupted.

`Cleaner!SweepFairness` is the same for the cleaner: the periodic workflow runs
it again while the VPC is there, AWS finishes what it started, and from some
time on no call fails unless AWS has to refuse it.

`ClusterProvisioner!Fairness`: a running provisioner goes on, the user repeats the
command (nothing in the code does), kubelets register their nodes, the API
server comes back, and from some time on nothing fails without reason.

`Provisioner!Fairness`: the run goes on, the user repeats a run that failed, and
a node that was told to reboot does; `Faults` bounds what goes wrong.
`Connection!FairSpec`: every goroutine goes on and hosts come back.
`Logger!FairSpec`: the main goroutine and the animations are scheduled; callers
need not be.

The violated claims are findings (`PROJECT.json`): the rollback order, the cleaner
that goes ahead when the status of a job is unknown, the control-plane node that
counts as joined because it has a `kubelet.conf`, the repetition that takes the
nvidia runtime out of containerd's configuration, and the client of a bastion
that is kept when it is dead.

Other places where the code does less than its documents say are excluded from
the properties by name, so that the runs show that there are no more:

* `clobbered` (`SingleNode`): the rollback's security group handler overwrites the
  ids in the file; a later cleanup of the action can report success with the VPC
  alive (`create.go:154`, `docs/guides/github-action.md:189`).
* The nodes of a pool of which one failed are dropped (`cluster.go:785`), and one
  unknown id keeps AWS from terminating all others (`delete.go:189`): `Cluster`
  shows that `Terminated` is not claimed then, not that `Delete` gets further.
* A gateway that is not attached is invisible to the cleaner (`cleanup.go:606`):
  `SweptMeansGone` and `LeftoversAreSwept` leave it out.
* Docker and CRI-O are accepted with the source `latest` although only containerd
  has a template for it, and Docker with kubeadm from source although its templates
  name no socket (`MayFail`).
* What a cut-off download leaves (`cut` in `ClusterProvisioner`), and the clusters of
  kind that scripts do not recognise (`Harmless` in `Provisioner`).
* The rest of `MayFail`, and `Stuck` (`Provisioner`), `HalfDone` (`ClusterProvisioner`), `Hangs`
  (`Connection`), and in `Logger` the check that `Exit` shows for an animation
  that was left.

## 4. Proofs

`SingleNodeProofs` proves for every instance name, every `Modes`, `MaxRetries`
and `DiskFaults` allowed by the assumptions of `Provider`:

* `TypeCorrect`: `Spec => []TypeOK`
* `TerminatedIsTrue`: `Spec => []TerminatedMeansGone`
* `NothingIsLost`: `Spec => []UntrackedOnlyInFlight`
* `FileIsKept`: `Spec => FileOutlivesResources`

all from `Inductive`: `Spec => []IInv`.  None of the properties is inductive by
itself.  `IInv` adds

* `Control`: which `at`, `cache`, `rolling` and `undo` go with each `pc`;
* `Statuses`: which ids a status can hold at all (those of the network, a group
  and the instance, no cluster), and that a status that was never saved has
  neither ids nor a condition;
* `DeletionKnowsFile`: a running deletion's cache holds what the file names;
* `DeletionProgress`: the resources the deletion has passed (`ToGo` is what
  remains) no longer exist;
* `TerminatedIsGone` (with: a creation has no other condition than its own) and
  `Tracked`: the two state properties in the form the steps need.

One lemma per group of actions shows that it preserves `IInv`; `UpdatedFields`,
`UpdateStatusEffect` and `LoggedUpdateEffect` say what a status update leaves in
the file, `DeletedShrinks` and `StepDoneEffect` what a delete call and the move
to the next one do, and `OnlyTheseRemove` which actions remove the file.
Assumed: the named assumptions of the modules (the instance is not named like a
network resource, `MaxRetries` is a positive number, ...), and EC2's rules as
written in `Provider`.

It also proves `Refinement`: `Spec => KeepsPromise`, the refinement
mapping being the `INSTANCE` in `SingleNode`, and `AvailableIsTrue`: `Spec =>
[]AvailableMeansIntact`.  `IInv` says what a file may name, not what `Create` has
achieved or when a condition is withdrawn, so a second invariant `RInv` is proved
on top of it:

* `CreateProgress`: before each step, what the earlier steps made is in the
  cache, exists and is linked (`Before`, `LinksBefore`), and the file names
  nothing else: `Publish` needs it;
* `RollbackNamed`: until the rollback overwrites the file, what it deletes is
  named there: `Release` needs it;
* `AvailableStays`, `EnvironmentRead`: the condition `Available` is left only by
  an update that really writes, because the status the process compares with is
  the one in the file;
* `FileThere`: a missing file holds nothing.

`TakingKeeps` then maps every step of a deletion that takes something away or
updates the file (to `Release`, `Withdraw`, `Reopen` or nothing), `DamagedStep`
every step after a failed write or a rollback's overwriting (to `Damage`), and the
remaining steps have one case each.

The third is `OrderIsRight`: `Spec =>
[]DeleteOrderRespectsDependencies`, from `LinkEnds` (EC2 lets no association lose
an end, `CallKeepsEnds`), `Detached` (a deletion that knows gateway and VPC has
detached them before it deletes either) and `DeletionProgress`.

`ClusterProvisionerProofs` proves, for any set of nodes, with and without high
availability, that every reachable state satisfies `TypeOK` (`TypeCorrect`),
`KubernetesOnFullBase` (`BarrierHolds`), `NeverInitialisedTwice` (`InitOnce`) and
`SuccessMeansNetworked` (`SuccessIsTrue`).  `IInv` adds what goroutines that
report success have done (`TasksTellTruth`), what is on a node whose installation
was never cut off (`FilesTellTruth`: nothing, everything, or exactly what the script
at work there has come to), that nobody else has a
`kubelet.conf` before the cluster is complete (`JoinedLater`: this is why a
success implies a complete first node, the joins would have failed), and which
nodes the run has passed (`JoinProgress`).  One lemma per phase, `Ends` for all
ways a run can end.  It assumes at least one node besides the first: alone, the
first node is not proved complete, since nobody joins.

`ClusterProofs` proves, for any two pools of nodes, with and without a balancer,
every safety property of the `cluster` run: `TypeCorrect`, `TrackOfInfra`
(`InfraIsTracked`), `TerminatedIsTrue` (`TerminatedMeansNoNode`),
`AvailableIsTrue` (`AvailableMeansRecorded`), `OrderIsRight`
(`DeleteOrderRespectsDependencies`) and `FileIsKept` (`FileOutlivesCluster`).
`IInv` consists of

* `Control`: what goes with each `pc`; `CreateCluster` runs once, on nothing;
* `CreateProgress`: what the steps before the current one have made, linked and
  registered (`Made`, `Linked`, `Joined`), exactly: at the last step this is what
  `Available` promises;
* `Needs`: what EC2's rules keep in place - nodes and balancer in the public
  subnet, everything but the gateway in the VPC, links between things that exist.
  This is why the deletion may be ignorant of the nodes and still tell the
  truth: whoever could delete the network has no node left;
* `DeletionProgress`: what a deletion has passed no longer exists, and a gateway
  is detached before it is deleted;
* `Books`, unless a write failed: a deletion works on what the file names
  (`DeletionKnowsFile`), the file misses one network resource at most and nothing
  at all exists beside an unnamed VPC (`Tracked`), and the conditions are true
  (`Conditions`: `Available` is withdrawn before anything it promises is touched).

It also proves `Refinement`: `Spec => KeepsPromise`, the mapping being the
`INSTANCE` in `Cluster`.  `IInv` promises nothing of a file that a write has
failed on, but even then the phases keep their order: `FileInv` says what holds
of such a file too (a missing one is empty, `CreateCluster` has written nothing
but what it holds, and a `Terminated` one names nothing that exists).
`DeletionTakes` sums up what any step of a deletion takes and writes, so that
`DeletionKeeps` maps all of them at once (to `Release`, `Withdraw`, `Reopen`,
`Close` or nothing); `DamagedStep` maps every step after a failed write.

`Advance` carries `CreateProgress` from one step to the next; `BooksShrink` and
`BooksLogged` say that deleting what the file names, and writing what the process
has, keep the books; `FinishedMeansGone` is the end of a deletion.

`CleanerProofs` proves of the sweeps, whatever the job was doing when it ended,
`SweepTypeCorrect`, `SweptIsTrue` (`SweptMeansGone`) and `SweepOrderIsRight`
(`SweepRespectsDependencies`).  The job is the specification `Cluster`, so that
`IInv` of `ClusterProofs` holds until it ends; after that only `Needs` is left of
it, since no file says anything any more, and it is all the cleaner relies on:
a VPC that AWS deletes was empty.  `Cleared` says which kinds the stages behind
the current one have removed if no call failed.  All theorems assume
`~LookupMayFail`: otherwise the cleaner may sweep the VPC of a running job
(`running_job_claim`), whose creation goes on between its calls.

`ConnectionProofs` proves, for any threads, processes, hosts, placements and
bounds, `TypeCorrect`, `OneKey` (`OneKeyPerAddress`), `Verification`
(`ClientsAreVerified`) and `ReasonForFailure` (`GivesUpWithReason`).  `HostsInv`
is about the callback alone: who is past a lock holds it (`Locks`), so what was
read from the file is still in it when it is used, and an answer is what the file
says (`Answers`).  `ThreadInv` adds for each provisioner that the callback
answers about the other side of this handshake (`Handshake`), which attempts are
left and that a dial that has met no outage finds its way up (`Dials`).  As the
file only grows (`Grows`), and all that another thread's step does is to add to
it, a lemma per action covers the thread that moves and `SameKeeps` the others.

`LoggerProofs` proves, for any number of callers and animations, `TypeCorrect`
(with the wait group equal to the number of animations that spin), `VerdictIsTrue`
(`VerdictIsTheCallers`) and, which no run states, `ExitWaitsForAll`: when the
process ends no animation spins.  `Listed` is the invariant that `Exit` relies
on: until it has taken the list, whatever nobody has cancelled is in it.

`ProvisionerProofs` proves, for any set of documents of the shape `Document`
(`DocumentAssumption`: what the schema and the defaults of the code leave), any
bounds of faults and edits, with and without a GPU, `TypeCorrect`,
`KernelIsPromised` (`KernelPromise`), `DriverIsServed` (`SuccessMeansDriver`),
`FirstServes` (`FirstRunServes`) and `KubernetesIsServed`
(`SuccessMeansKubernetes`).  `UndisturbedProofs` proves on top of it, for the runs
without faults, `UndisturbedSucceeds` (`UndisturbedRunSucceeds`) and, of
`ClusterIsKept`, what it says of kubeadm (`KubeadmStays`).
A script is a sequence that each line shortens (or, in
the middle of a download, keeps), so what a script still brings about has to be
read from the lines that are left.  The invariants come in layers, each proved
with the help of those before:

* `Based`: types; the dependencies left are in the order of `Resolve` and those
  that are expected and not left come before all that are (`TodoInv`: while one
  part is at work, those before it are done); and every line of a script is one
  that this part can have (`ScriptInv`, `StepOf`), so that each line changes only
  the items, settings and daemons of its part (`EffectChange`);
* `WhatRunsIsThere`: a daemon that runs has something to be started from, and
  containerd has read no setting its file lacks: a reboot is no loss;
* `Kernel`: how far the kernel's script has come, with what the marker says;
* `Driver`: at every line, what is on the disk and loaded (`DriverLines`: what
  remains of the script is the end of the program it began as); that no driver is
  recorded with a commit it was not built from (`NoCommits`); and that a node
  which reboots for its kernel has no driver to lose yet;
* `First`, for the first run: a script of the runtime or the toolkit has reached
  its end, or a line that starts the runtime with its settings is still to come;
* `Kubernetes`, for every run: only the document's own runtime is ever installed
  (`RuntimeInv`: an update cannot change it) and the run that has passed it left
  it running (`RuntimeUp`); a provenance file is evidence of a complete cluster
  (`ClusterInv`), because it is written directly after the check that the
  cluster answers (`Follows`), and a kind cluster is stopped before it is deleted;
  nobody but a script that has a runtime initialises a cluster, and never one from
  source on Docker (`AdminInv`);
  a script that is not empty ends with that check or with the file
  (`KubernetesLines`); an empty one was right to find its work done
  (`FoundServes`); and whatever serves comes back after a reboot
  (`ServesBoots`, `BootsServe`);
* `UndisturbedSucceeds`, for runs of documents without a kernel and without faults
  (`Quiet`), where no script is ever cut off and no daemon lost (`Calm`): what a
  run finds is what finished scripts of earlier documents left.  For each part, the
  lines that are left need nothing that neither the node has nor an earlier one of
  them brings (`RuntimeSupplied`, `DriverKnown`, `ToolkitSupplied`,
  `KubernetesSupplied`), and between two lines no download is there in part
  (`PartsKnown`); the scripts of the installers are counted from their end,
  because what they skip is their beginning (`KubeadmReached`, `MicroReached`).
  A unit of cri-dockerd that an earlier run started is still there (`CriKept`).
  The `*GoesOn` lemmas then say that the next line is not `Blocked` for any document
  that `MayFail` does not list, and `FailsOnlyThen` that nothing else ends a run.
* `Kept` and `KubeadmStays`, for every run as long as nothing goes wrong, with a
  kernel and its reboots too.  An update adds Kubernetes where there is none and
  changes neither its installer nor its source, and without faults the branch stands
  still.  So the tools and the record on the node are what the document's source
  gives (`SourceKept`): a build from source replaces its tools by the same ones, and
  a release downloads only what is missing.  Certificates and network are never
  written over.  `ClusterIsKept` says more, of kind: that part is model-checked.

Several of these proofs changed the model.  The steps of `Verify` in `KnownHosts`
had been a CASE whose guards overlap, of which TLC took the first; the property
`GivesUpWithReason` named only the target's address as a reason for a refused
key, not the bastion's.  `Provisioner` had been checked with documents that the
proofs found to be a selection: Docker and CRI-O could be asked for from a branch,
and Docker could be combined with kubeadm from source.  The model now has these
documents, and `MayFail` names them.

Only model-checked: `DeletionCompletes`, `LeftoversAreSwept`, both
`RepetitionCompletes`, `CallbacksReturn`, `DialsEnd` and `WaitsEnd`: liveness
under fairness is out of the prover's reach; and the part of `ClusterIsKept` about
clusters of kind under `Harmless`, which the prover could reach.

## 5. Not modelled

* NAT gateways, Elastic IPs and private route tables: no creation path makes
  them; the deletion steps for them find no id.
* A create call that fails but had an effect: its id is lost to every component
  but the VPC cleaner, which works from tags.
* A partially written cache file that still parses: the write is all, nothing or
  an empty file.
* `WithRetry` (`retry.go`): no caller.
* The switch of kubeadm's configuration to the balancer's name, and taints.  In
  `ClusterProvisioner` the base dependencies of a node are one step; what their
  scripts do is in `Provisioner`, for one node.
* Of the templates: the addresses and contents of package repositories, feature
  gates, architectures, the markers nobody reads, and what a custom template does (it may do anything).
* How `create` and `update` choose a transport for a node: the repetition builds
  its nodes without one (`update.go:391`), so that a node without public address
  cannot be reached by it.
* Authentication, and the time a keepalive takes to notice a silent host.
* `dialer.go`'s exponential delay: no caller asks for it.
* The in-memory AWS of the tests, the AMI lookups, validation of documents,
  listings, `ssh`/`scp` and the skill installer: test doubles, reads and I/O.
* An impatient repetition while a script of the run before still executes its
  last command.
* The pre-flight check, image lookups and key files: they fail before any state.
* Several environments at once: each has its own file and its own VPC.

## 6. Plan

Done first, because everything else depends on it: the life of an environment
(`Provider`, `ProviderDelete`, `SingleNode`, `Cluster`), and the first proofs.
Next, in this order:

1. (done) `Lifecycle`: the abstract promise of a provider, with `SingleNode` and
   `Cluster` shown to implement it.
2. (done) `Cleaner`: the periodic VPC cleaner over the EC2 rules of `Provider`.
3. (done) `Logger`.
4. (done) `KnownHosts` and `Connection`.
5. (done) `ClusterProvisioner`; the templates and `Provisioner`.
6. Left: the choice of transports, labels and tags of `holodeck update`.
7. Proofs: (done) every safety property of `SingleNode`, `Cluster`, `Cleaner`,
   `Connection` with `KnownHosts`, `Logger`, `ClusterProvisioner` and `Provisioner`,
   and the refinements of 1, except what `ClusterIsKept` says of kind.  What is left
   to TLC otherwise is liveness.
