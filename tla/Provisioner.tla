---------------------------- MODULE Provisioner ----------------------------
(***************************************************************************)
(* pkg/provisioner/provisioner.go and dependency.go: `holodeck create      *)
(* --provision` and its repetitions on one node.  A run asks the document  *)
(* for its dependencies and executes one script for each, over a fresh     *)
(* connection; when the document names a kernel, it waits for the node     *)
(* after every script.  Sessions are cut, daemons stop, the node reboots,  *)
(* the branch that "latest" tracks moves, and the document is edited.      *)
(***************************************************************************)
EXTENDS RuntimeScripts, GPUScripts, KubernetesScripts, FiniteSets

CONSTANTS
  Documents,   \* the documents that are asked for
  Faults,      \* bound of what goes wrong: cuts, stopped daemons, reboots
  Edits        \* bound of the edits of the document

\* Where a component can come from, and what a document can ask for.
Sources(first) ==
  ({first} \X Version) \cup ({"git"} \X Commit) \cup {<<"latest", "branch">>}

Named(names, sources) == {<<n, s[1], s[2]>> : n \in names, s \in sources}

Document ==
  [kernel     : Version \cup {"none"},
   driver     : {<<"none", "none">>} \cup ({"package", "runfile"} \X Version)
                \cup ({"git"} \X Commit),
   runtime    : {<<"none", "none", "none">>}
                \cup Named({"", "containerd", "docker", "crio"}, Sources("package")),
   toolkit    : {<<"none", "none">>} \cup Sources("package"),
   kubernetes : {<<"none", "none", "none">>}
                \cup Named({"", "kubeadm", "kind"}, Sources("release"))
                \cup Named({"microk8s"}, {"release"} \X Version),
   custom     : SUBSET {"pre-install", "post-runtime", "post-toolkit", "post-kubernetes",
                        "post-install"}]

ASSUME DocumentAssumption == Documents \subseteq Document
ASSUME BoundAssumption == Faults \in Nat /\ Edits \in Nat

VARIABLES
  doc,       \* the document; microk8s and the version of an empty source are explicit
  todo,      \* the dependencies that the run has still to install
  phase,     \* "idle", "next" dependency, "script", "reboot" (waiting for the node)
  power,     \* "up", "leaving" (a reboot has been asked for), "down"
  result,    \* of the last run: "none", "success", "failure"
  faults,    \* what has gone wrong so far
  disturbed, \* something went wrong since the run began
  fresh,     \* no run has ended yet
  edits      \* edits of the document so far

run  == <<doc, todo, phase, power, result, faults, disturbed, fresh, edits>>
vars == <<disk, config, proc, script, branch, doc, todo, phase, power, result,
          faults, disturbed, fresh, edits>>

Asked(part) == part[1] # "none"

\* The runtime that is installed if none is named, as the toolkit has it.
RuntimeOf(d) == IF d.runtime[1] \in {"", "none"} THEN "containerd" ELSE d.runtime[1]

\* The order of the dependencies.  MicroK8s replaces all that come before it.
Resolve(d) ==
  LET custom(at) == IF at \in d.custom THEN << <<"custom", at>> >> ELSE << >>
      part(name, asked) == IF asked THEN << <<"install", name>> >> ELSE << >>
      before == custom("pre-install") \o part("kernel", d.kernel # "none")
                \o part("driver", Asked(d.driver)) \o part("runtime", Asked(d.runtime))
                \o custom("post-runtime") \o part("toolkit", Asked(d.toolkit))
                \o custom("post-toolkit")
  IN (IF d.kubernetes[1] = "microk8s" THEN << >> ELSE before)
       \o part("kubernetes", Asked(d.kubernetes))
       \o custom("post-kubernetes") \o custom("post-install")

\* The script of a dependency, as the node is now.  A custom template is taken
\* to leave the components alone.
ScriptOf(dep) ==
  CASE dep[1] = "custom" -> << >>
    [] dep = <<"install", "kernel">> -> KernelScript(doc.kernel)
    [] dep = <<"install", "driver">> -> DriverScript(doc.driver[1], doc.driver[2])
    [] dep = <<"install", "runtime">> /\ RuntimeOf(doc) = "containerd" ->
         ContainerdScript(doc.runtime[2], doc.runtime[3])
    [] dep = <<"install", "runtime">> /\ RuntimeOf(doc) = "docker" ->
         DockerScript(doc.runtime[2], doc.runtime[3])
    [] dep = <<"install", "runtime">> /\ RuntimeOf(doc) = "crio" ->
         CrioScript(doc.runtime[2], doc.runtime[3])
    [] dep = <<"install", "toolkit">> ->
         ToolkitScript(doc.toolkit[1], doc.toolkit[2], RuntimeOf(doc))
    [] dep = <<"install", "kubernetes">> ->
         KubernetesScript(doc.kubernetes[1], doc.kubernetes[2], doc.kubernetes[3], RuntimeOf(doc))

\* NewKubernetes needs the socket of a runtime that is named; only containerd
\* has a template that tracks a branch.
TemplateRefuses(dep) ==
  \/ dep = <<"install", "kubernetes">> /\ doc.runtime[1] \in {"", "none"}
  \/ dep = <<"install", "runtime">> /\ doc.runtime[2] = "latest" /\ RuntimeOf(doc) # "containerd"

\* kubeadm reads its configuration from a file, unless the version is old.
NeedsConfigFile ==
  doc.kubernetes[1] = "kubeadm"
    /\ ~(doc.kubernetes[2] = "release" /\ doc.kubernetes[3] \in Legacy)

Init ==
  /\ NodeInit /\ script = << >> /\ branch \in Commit
  /\ doc \in Documents /\ todo = << >> /\ phase = "idle" /\ power = "up"
  /\ result = "none" /\ faults = 0 /\ disturbed = FALSE /\ fresh = TRUE
  /\ edits = 0

-----------------------------------------------------------------------------
(* The run                                                                 *)

\* Mutant: the list of dependencies outlives the run.
EndRunUnfinished(how) ==
  /\ phase' = "idle" /\ result' = how /\ script' = << >> /\ fresh' = FALSE
  /\ UNCHANGED <<branch, doc, todo, power, edits>>

EndRun(how) ==
  /\ phase' = "idle" /\ result' = how /\ script' = << >> /\ todo' = << >>
  /\ fresh' = FALSE
  /\ UNCHANGED <<branch, doc, power, edits>>

\* New connects, and Run prepares the configuration of kubeadm.
StartRun ==
  /\ phase = "idle" /\ power # "down"
  /\ ~(doc.kubernetes[1] = "kubeadm" /\ TemplateRefuses(<<"install", "kubernetes">>))
  /\ phase' = "next" /\ todo' = Resolve(doc) /\ result' = "none"
  /\ disturbed' = (power = "leaving")
  /\ disk' = IF NeedsConfigFile THEN [disk EXCEPT ![<<"kube", "config">>] = "config"] ELSE disk
  /\ UNCHANGED <<config, proc, script, branch, doc, power, faults, fresh, edits>>

RefuseRun ==
  /\ phase = "idle" /\ result # "failure"
  /\ doc.kubernetes[1] = "kubeadm" /\ TemplateRefuses(<<"install", "kubernetes">>)
  /\ EndRun("failure") /\ UNCHANGED <<node, faults, disturbed>>

\* The connection is healed, the template rendered and the session started.
BeginScript ==
  /\ phase = "next" /\ todo # << >> /\ power # "down" /\ ~TemplateRefuses(Head(todo))
  /\ phase' = "script" /\ script' = ScriptOf(Head(todo))
  /\ UNCHANGED <<node, branch, doc, todo, power, result, faults, disturbed, fresh, edits>>

TemplateFails ==
  /\ phase = "next" /\ todo # << >> /\ TemplateRefuses(Head(todo))
  /\ EndRun("failure") /\ UNCHANGED <<node, faults, disturbed>>

RunningScript == phase = "script" /\ power # "down" /\ script # << >>

ScriptStep ==
  /\ RunningScript /\ Effect
  /\ UNCHANGED <<branch, run>>

\* The last line of the kernel's script.
RebootStep ==
  /\ RunningScript /\ Step.do = "reboot" /\ Pass
  /\ power' = "leaving"
  /\ UNCHANGED <<node, branch, doc, todo, phase, result, faults, disturbed, fresh, edits>>

\* The step cannot succeed on this node, or its wait runs out.
Blocked ==
  CASE Step.do = "need" -> \E c \in Step.at : ~Holds(c)
    [] Step.do = "pinned" -> proc["driver"].build \notin Step.val
    [] Step.do = "whole" -> \E i \in Step.at : disk[i] # "whole"
    [] Step.do \in {"restart", "start"} -> \E d \in Step.at : Started(d).build = "none"
    [] Step.do = "init" -> disk[<<"kube", "admin">>] = "none" /\ ~CanInit
    [] OTHER -> FALSE

ScriptFails ==
  /\ RunningScript /\ Blocked
  /\ EndRun("failure") /\ UNCHANGED <<node, faults, disturbed>>

Disturb == faults < Faults /\ faults' = faults + 1 /\ disturbed' = TRUE

\* The session or the process is lost, or a download fails: the script stops
\* where it is.
CutOff ==
  /\ phase = "script" /\ Disturb
  /\ EndRun("failure") /\ UNCHANGED node

InitFails ==
  /\ RunningScript /\ InitBreaks /\ Disturb
  /\ EndRun("failure")

\* Without a kernel the connection is closed, for the next to be a new login.
ScriptEnds ==
  /\ phase = "script" /\ script = << >> /\ power # "down"
  /\ todo' = Tail(todo)
  /\ phase' = IF doc.kernel = "none" THEN "next" ELSE "reboot"
  /\ UNCHANGED <<node, script, branch, doc, power, result, faults, disturbed, fresh, edits>>

\* 30 seconds later: whatever answers is taken for the node that has rebooted.
Reconnect ==
  /\ phase = "reboot" /\ power # "down" /\ phase' = "next"
  /\ UNCHANGED <<node, script, branch, doc, todo, power, result, faults, disturbed, fresh, edits>>

\* Ten attempts after a reboot, twenty of the dialer before a script.
GiveUp ==
  /\ phase \in {"reboot", "next"} /\ power = "down" /\ todo # << >> /\ Disturb
  /\ EndRun("failure") /\ UNCHANGED node

Finish ==
  /\ phase = "next" /\ todo = << >>
  /\ EndRun("success") /\ UNCHANGED <<node, faults, disturbed>>

-----------------------------------------------------------------------------
(* The node and the world                                                  *)

\* A script that still runs is lost with its session.
NodeGoesDown ==
  /\ power = "leaving" /\ power' = "down"
  /\ proc' = [d \in Daemon |-> Off]
  /\ IF phase = "script"
     THEN /\ phase' = "idle" /\ result' = "failure" /\ script' = << >> /\ todo' = << >>
          /\ fresh' = FALSE
     ELSE UNCHANGED <<phase, result, script, todo, fresh>>
  /\ disturbed' = (disturbed \/ phase # "reboot")
  /\ UNCHANGED <<disk, config, branch, doc, faults, edits>>

NodeComesUp ==
  /\ power = "down" /\ power' = "up" /\ proc' = Booted
  /\ UNCHANGED <<disk, config, script, branch, doc, todo, phase, result, faults, disturbed, fresh, edits>>

\* A user reboots the node, as the script of the kernel may tell them to.
UserReboots ==
  /\ power = "up" /\ phase = "idle" /\ Disturb /\ power' = "leaving"
  /\ UNCHANGED <<node, script, branch, doc, todo, phase, result, fresh, edits>>

\* Systemd starts a daemon that has died, which then reads its configuration;
\* nothing starts the cluster of kind.  A check in between fails as in CutOff.
DaemonDies ==
  /\ power = "up" /\ Disturb
  /\ \E d \in Runtime \cup {"kube", "kind"} :
       /\ Up(d)
       /\ \E lost \in LostWith(d) :
            proc' = WithStarted(d, IF d = "kind" THEN Off ELSE Started(d), lost)
  /\ UNCHANGED <<disk, config, script, branch, doc, todo, phase, power, result, fresh, edits>>

BranchMoves ==
  /\ \E c \in Commit \ {branch} : branch' = c
  /\ Disturb
  /\ UNCHANGED <<node, script, doc, todo, phase, power, result, fresh, edits>>

\* `holodeck update`: a component is added with what the flags say, or has its
\* version changed.  The flags' own defaults are not written into the document.
Updated(d) ==
  {[d EXCEPT !.driver = <<IF Asked(d.driver) THEN d.driver[1] ELSE "package", v>>] :
     v \in IF d.driver[1] \in {"none", "package"} THEN Version ELSE {}}
  \cup {[d EXCEPT !.runtime = r] :
     r \in IF Asked(d.runtime) THEN {}
           ELSE Named({"", "containerd", "docker"}, {"package"} \X Version)}
  \cup {[d EXCEPT !.toolkit = <<"package", v>>] :
     v \in IF d.toolkit[1] \in {"none", "package"} THEN Version ELSE {}}
  \cup {[d EXCEPT !.kubernetes = k] :
     k \in IF Asked(d.kubernetes) THEN {}
           ELSE Named({"", "kubeadm", "kind", "microk8s"}, {"release"} \X Version)}

Update ==
  /\ phase = "idle" /\ edits < Edits /\ edits' = edits + 1
  /\ doc' \in Updated(doc) \ {doc} /\ result' = "none"
  /\ UNCHANGED <<node, script, branch, todo, phase, power, faults, disturbed, fresh>>

Run ==
  \/ StartRun \/ RefuseRun \/ BeginScript \/ TemplateFails \/ ScriptStep \/ RebootStep
  \/ ScriptFails \/ ScriptEnds \/ Reconnect \/ Finish

Next ==
  \/ Run \/ CutOff \/ InitFails \/ GiveUp
  \/ NodeGoesDown \/ NodeComesUp \/ UserReboots \/ DaemonDies \/ BranchMoves
  \/ Update

Spec == Init /\ [][Next]_vars

\* A process goes on as long as nothing happens to it, a node that reboots
\* comes back, and the user repeats a run that has not succeeded.
Fairness ==
  /\ WF_vars(NodeGoesDown) /\ WF_vars(NodeComesUp)
  /\ WF_vars(result # "success" /\ StartRun)
  /\ WF_vars(BeginScript \/ ScriptStep \/ RebootStep \/ ScriptFails \/ ScriptEnds
              \/ Reconnect \/ Finish)

FairSpec == Spec /\ Fairness

-----------------------------------------------------------------------------
(* Properties                                                              *)

TypeOK ==
  /\ \A i \in Item : disk[i] \in Build \cup
       {"none", "partial", "whole", "files", "pods", "operator", "calico", "binary", "unit",
        "config", "package", "jq"}
  /\ DOMAIN disk = Item
  /\ config \in [Runtime -> SUBSET {"cri", "nvidia"}]
  /\ DOMAIN proc = Daemon /\ branch \in Commit /\ (edits = 0 => doc \in Documents)
  /\ phase \in {"idle", "next", "script", "reboot"} /\ power \in {"up", "leaving", "down"}
  /\ result \in {"none", "success", "failure"}
  /\ faults \in 0..Faults /\ edits \in 0..Edits /\ disturbed \in BOOLEAN
  /\ phase = "idle" => todo = << >>
  /\ phase # "script" => script = << >>

\* What the document asks for is on the node and runs.
DriverServes  == Asked(doc.driver) /\ GPU => DriverWorks
RuntimeServes == Asked(doc.runtime) =>
  LET r == RuntimeOf(doc) IN Up(r) /\ (r = "containerd" => "cri" \in proc[r].config)
ToolkitServes == Asked(doc.toolkit) /\ GPU => "nvidia" \in proc[RuntimeOf(doc)].config
KubernetesServes ==
  CASE doc.kubernetes[1] = "none" -> TRUE
    [] doc.kubernetes[1] \in {"kubeadm", ""} -> NodesReady
    [] doc.kubernetes[1] = "kind" -> Up("kind")
    [] doc.kubernetes[1] = "microk8s" -> Up("microk8s")

\* A run is about to report success, and nothing has gone wrong in it.
Done == phase = "next" /\ todo = << >> /\ power = "up" /\ ~disturbed

\* MicroK8s drops the dependencies before it from the list.
Full == doc.kubernetes[1] # "microk8s"

\* The first run on a node leaves a runtime that serves the kubelet and the GPU:
\* the scripts that edit one configuration file after another do not undo each
\* other's settings, and every daemon has read the last of them.
FirstRunServes == Done /\ fresh /\ Full => RuntimeServes /\ ToolkitServes

\* A run that succeeds leaves the cluster that was asked for ready, whatever
\* earlier runs that were cut off left behind: no script that finds its work
\* done takes half of it for the whole.
SuccessMeansKubernetes == Done => KubernetesServes

\* A run that succeeds leaves a driver that works, and a pinned version is the
\* one that is loaded, also after an upgrade over a loaded module.
SuccessMeansDriver ==
  Done /\ Full =>
    /\ DriverServes
    /\ GPU /\ doc.driver[1] = "package" => proc["driver"].build = doc.driver[2]

\* A run that succeeds, also while the node has still to go down, leaves the
\* kernel that was asked for running, or a marker that says that a kernel waits
\* for its reboot: the provisioner itself cannot tell a node that has rebooted
\* from one that has not.
KernelPromise ==
  phase = "next" /\ todo = << >> /\ ~disturbed /\ Full /\ doc.kernel # "none" =>
    proc["kernel"].build = doc.kernel \/ disk[<<"kernel", "pending">>] # "none"

\* The documents that a run can fail on although nothing goes wrong: a kernel
\* (the reboot may come when the next script runs), a driver whose user space
\* nobody installs, whose version the repository does not have or which would
\* replace a loaded one, a part without the runtime it works on, a runtime
\* without such a template, kubeadm by default without its file, and on Docker
\* kubeadm from source, which is not told the socket, or a cri-dockerd without a
\* unit.
MayFail(d) ==
  \/ d.kernel # "none"
  \/ GPU /\ d.driver[1] = "git"
  \/ GPU /\ d.driver[1] = "package" /\ d.driver[2] # Newest
  \/ GPU /\ d.driver[1] = "package" /\ Up("driver") /\ proc["driver"].build # d.driver[2]
  \/ Asked(d.kubernetes) /\ d.runtime[1] \in {"", "none"}
  \/ Asked(d.toolkit) /\ d.runtime[1] = "none"
  \/ d.kubernetes[1] = "kind" /\ d.runtime[1] # "docker"
  \/ d.kubernetes[1] = "" /\ d.kubernetes[3] \notin Legacy
  \/ d.runtime[1] \in {"docker", "crio"} /\ d.runtime[2] = "latest"
  \/ /\ d.kubernetes[1] \in {"kubeadm", ""} /\ d.runtime[1] = "docker"
     /\ d.runtime[2] = "git" \/ d.kubernetes[2] # "release"

\* With any other document every run succeeds, the first and the repetitions,
\* also after an update: each script finds what it needs from those before it.
UndisturbedRunSucceeds == result = "failure" /\ faults = 0 => MayFail(doc)

\* The script of a part can tell that what it installed is there.
Recognised(source, version) ==
  IF source \in {"git", "latest"} THEN disk[<<"jq", "package">>] # "none"
  ELSE version = Newest \/ PlainNames

\* Then no script of an unchanged document restarts Docker below a cluster of kind
\* or deletes it; a release of kind is asked whether it answers.
Harmless ==
  /\ edits = 0 /\ doc.kernel = "none"
  /\ Recognised(doc.runtime[2], doc.runtime[3])
  /\ Asked(doc.toolkit) => Recognised(doc.toolkit[1], doc.toolkit[2])
  /\ doc.kubernetes[2] # "release" => disk[<<"jq", "package">>] # "none"

\* What has been put together to its end is not taken apart again by a run that
\* nothing disturbs: a cluster of kubeadm also not if an update has changed the
\* document, and a cluster of kind if the scripts recognise what they find.
ClusterItems == {<<"kube", "tools">>, <<"kube", "admin">>, <<"kube", "network">>}
PutTogether(i) == disk[i] \in (IF i = <<"kube", "network">> THEN {"calico"} ELSE Build)
ClusterIsKept ==
  [][ faults = 0 /\ ~fresh =>
        \A i \in ClusterItems \cup (IF Harmless THEN {<<"kind", "cluster">>} ELSE {}) :
          PutTogether(i) => disk'[i] = disk[i] ]_vars

\* A part of a file or namespace that is taken for the whole.  A cluster of kind
\* that is a part is deleted; nothing starts the cri-dockerd of a Docker from source.
Truncated ==
  {i \in Item \ {<<"kind", "cluster">>} :
     disk[i] = "partial" /\ (i[1] = "cri-docker" => doc.runtime[2] # "git")}

\* A containerd that is taken for installed and was interrupted before it had the
\* configuration the kubelet needs, or had read it: then only the toolkit's script
\* restarts it.
Unread ==
  LET toolkit == IF Asked(doc.toolkit) THEN ScriptOf(<<"install", "toolkit">>) ELSE << >>
  IN /\ doc.kubernetes[1] \in {"kubeadm", ""} /\ RuntimeOf(doc) = "containerd"
     /\ Up("containerd") /\ ScriptOf(<<"install", "runtime">>) = << >>
     /\ \/ "cri" \notin config["containerd"]
        \/ /\ "cri" \notin proc["containerd"].config
           /\ \A k \in DOMAIN toolkit : toolkit[k] # Restart("containerd")

\* What no repetition gets out of: these, and an admin.conf without a cluster.
Stuck ==
  \/ MayFail(doc) \/ Truncated # {} \/ Unread
  \/ disk[<<"kube", "admin">>] \in {"files", "pods"}

\* Repeating a run that failed leads to success, from wherever it was cut off,
\* unless it ends in one of those states.
RepetitionCompletes == result = "failure" ~> result = "success" \/ (phase = "idle" /\ Stuck)

=============================================================================
