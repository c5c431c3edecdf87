---------------------------- MODULE NodeScripts ----------------------------
(***************************************************************************)
(* A node as the installation scripts see it, and what the lines of a      *)
(* script do to it.  A script is a sequence of steps; the steps that only  *)
(* fetch or build something have no record of their own: the script can be *)
(* cut off before and after every step.                                    *)
(*                                                                         *)
(* A build is the version of a package or the commit something was built   *)
(* from.  The markers of holodeck_mark_installed are left out: no script   *)
(* reads them, except the kernel's.  What a script downloads only if it is *)
(* not there is "partial" when the download was cut off; no script looks   *)
(* at more than the name of the file.                                      *)
(***************************************************************************)
EXTENDS Naturals, Sequences

CONSTANTS
  Version,   \* versions of packages
  Newest,    \* the version a package manager takes if none is named
  Legacy,    \* the versions of Kubernetes before 1.32
  Commit,    \* commits of the source repositories
  GPU,       \* whether the node has an NVIDIA GPU
  PlainNames \* whether a program says its version as its package is named, which
             \* it does not on Debian: "5:24.0.0-1~ubuntu.22.04~jammy" is 24.0.0

ASSUME BuildAssumption ==
  /\ Newest \in Version /\ Legacy \subseteq Version /\ Version \cap Commit = {}
  /\ {"none", "partial", "whole", "files", "pods", "operator", "calico"}
       \cap (Version \cup Commit) = {}
ASSUME GPUAssumption == GPU \in BOOLEAN
ASSUME NamesAssumption == PlainNames \in BOOLEAN

Runtime == {"containerd", "docker", "crio"}

\* What runs: the kernel, its NVIDIA module, daemons, and API servers.
Daemon == Runtime \cup {"kernel", "driver", "cri-docker", "kube", "kind", "microk8s"}

\* What the scripts leave on the disk.  "package" is what a package manager
\* installs below /usr, "local" what a build installs below /usr/local, "fetched"
\* what is downloaded before: the key and list of a repository, or Go.
Item ==
  ({"containerd", "docker", "crio", "toolkit"}
     \X {"fetched", "package", "local", "provenance"})
  \cup ({"driver"} \X {"userland", "module", "provenance"})
  \cup ({"kernel"} \X {"image", "pending"})
  \cup {<<"cri-docker", "binary">>, <<"cri-docker", "unit">>}
  \cup ({"kube"} \X {"fetched", "tools", "unit", "config", "admin", "network", "provenance"})
  \cup {<<"kind", "kubectl">>, <<"kind", "cluster">>, <<"microk8s", "snap">>, <<"jq", "package">>}

Build == Version \cup Commit

VARIABLES
  disk,    \* item -> "none", a build, or how far its installation has come
  config,  \* runtime -> the settings in its configuration file
  proc,    \* daemon -> the build it was started from and the settings it read
  script,  \* what remains of the script that runs
  branch   \* the commit at the head of the branch that "latest" tracks

node == <<disk, config, proc>>

Off == [build |-> "none", config |-> {}]

Up(d) == proc[d] # Off

\* The program that the name of the component stands for: /usr/local precedes.
Binary(c) ==
  IF disk[<<c, "local">>] # "none" THEN disk[<<c, "local">>] ELSE disk[<<c, "package">>]

\* What a daemon is when it starts now.
Started(d) ==
  CASE d = "kernel" -> [build |-> disk[<<"kernel", "image">>], config |-> {}]
    [] d = "driver" -> [build |-> disk[<<"driver", "module">>], config |-> {}]
    [] d \in Runtime -> [build |-> Binary(d), config |-> config[d]]
    [] d = "cri-docker" -> IF disk[<<"cri-docker", "binary">>] # "binary" THEN Off
                           ELSE [build |-> disk[<<"cri-docker", "unit">>], config |-> {}]
    [] d = "kube" -> IF disk[<<"kube", "admin">>] \in {"none", "files"} THEN Off
                     ELSE [build |-> disk[<<"kube", "admin">>], config |-> {}]
    [] d = "kind" -> [build |-> disk[<<"kind", "cluster">>], config |-> {}]
    [] d = "microk8s" -> [build |-> disk[<<"microk8s", "snap">>], config |-> {}]

\* Whether the machine image has jq is its own business.
NodeInit ==
  /\ \E jq \in {"none", "jq"} :
       disk = [i \in Item |-> CASE i = <<"kernel", "image">> -> Newest
                                [] i = <<"jq", "package">> -> jq
                                [] OTHER -> "none"]
  /\ config = [r \in Runtime |-> {}]
  /\ proc = [d \in Daemon |->
               IF d = "kernel" THEN [build |-> Newest, config |-> {}] ELSE Off]

-----------------------------------------------------------------------------
(* Steps                                                                   *)

\* One of the items becomes one of the values.
PutOneOf(items, values) == [do |-> "put", at |-> items, val |-> values]
Put(c, p, v)   == PutOneOf({<<c, p>>}, {v})
\* Only if it is not there.
Keep(c, p, v)  == [do |-> "keep", at |-> {<<c, p>>}, val |-> {v}]
\* Only if it is not there, and in a way that leaves a part when it is cut off.
Fetch(c, p, v) == [do |-> "fetch", at |-> {<<c, p>>}, val |-> {v}]
\* What was downloaded is used: a part of it fails.
Whole(c, p)    == [do |-> "whole", at |-> {<<c, p>>}, val |-> {}]
Fetched(c)     == << Fetch(c, "fetched", "whole"), Whole(c, "fetched") >>
\* What the branch holds when the script clones it.
Clone(items)   == [do |-> "clone", at |-> items, val |-> {}]
\* One item becomes what another one is.
Copy(from, to) == [do |-> "copy", at |-> {to}, val |-> {from}]
\* A package, which on Debian also starts its service.
Package(c, values) == [do |-> "package", at |-> {<<c, "package">>}, val |-> values]
\* The configuration file is replaced; settings are added to it.
Overwrite(r, s) == [do |-> "overwrite", at |-> {r}, val |-> s]
Add(r, s)       == [do |-> "add", at |-> {r}, val |-> s]
Restart(d)      == [do |-> "restart", at |-> {d}, val |-> {}]
Start(d)        == [do |-> "start", at |-> {d}, val |-> {}]
Stop(d)         == [do |-> "stop", at |-> {d}, val |-> {}]
\* A wait or a check: the script fails if the condition does not become true.
Need(c)         == [do |-> "need", at |-> {c}, val |-> {}]
\* The check that the driver has the version that was asked for.
Pinned(v)       == [do |-> "pinned", at |-> {}, val |-> {v}]
\* kubeadm init on the given runtime, with or without a configuration file, or
\* left to find the socket of the runtime.
KubeadmInit(r, file) == [do |-> "init", at |-> {r}, val |-> IF file THEN {"config"} ELSE {}]
KubeadmInitSearches(r) == [do |-> "init", at |-> {r}, val |-> {"socket"}]
Reboot          == [do |-> "reboot", at |-> {}, val |-> {}]

-----------------------------------------------------------------------------
(* Conditions of the checks                                                *)

\* nvidia-smi: the user space is there and fits the module that is loaded.
\* A module built from a commit is taken to fit.
DriverWorks ==
  /\ disk[<<"driver", "userland">>] # "none" /\ Up("driver")
  /\ proc["driver"].build \in {disk[<<"driver", "userland">>]} \cup Commit

\* The kubelet can use the runtime.
CRI(r) ==
  CASE r = "containerd" -> "cri" \in proc[r].config
    [] r = "docker" -> Up("docker") /\ Up("cri-docker")
    [] r = "crio" -> Up("crio")

\* kubeadm init has run to its end: kube-proxy and CoreDNS are its last steps.
Initialised == disk[<<"kube", "admin">>] \in Build

NodesReady ==
  Up("kube") /\ Initialised /\ disk[<<"kube", "network">>] = "calico" /\ \E r \in Runtime : CRI(r)

Holds(c) ==
  CASE c = "driver" -> DriverWorks
    [] c = "toolkit" -> Binary("toolkit") # "none"
    [] c \in Daemon \ {"driver"} -> Up(c)
    [] c = "tools" -> disk[<<"kube", "tools">>] \in Build
    [] c = "operator" -> Up("kube") /\ disk[<<"kube", "network">>] \in {"operator", "calico"}
    [] c = "nodes" -> NodesReady

-----------------------------------------------------------------------------
(* Effects of the step the script is at                                    *)

\* What may be gone when a daemon has been restarted: cri-dockerd loses its
\* connection to dockerd and may give up, and the containers of kind stop.
LostWith(d) == IF d = "docker" THEN SUBSET {"cri-docker", "kind"} ELSE {{}}

WithStarted(d, p, lost) ==
  [e \in Daemon |-> IF e = d THEN p ELSE IF e \in lost THEN Off ELSE proc[e]]

Step == Head(script)
Pass == script' = Tail(script)

PutStep ==
  /\ Step.do \in {"put", "keep"} /\ Pass
  /\ \E i \in Step.at, v \in Step.val :
       disk' = [disk EXCEPT ![i] = IF Step.do = "keep" /\ @ # "none" THEN @ ELSE v]
  /\ UNCHANGED <<config, proc>>

FetchStep ==
  /\ Step.do = "fetch" /\ UNCHANGED <<config, proc>>
  /\ \E i \in Step.at :
       IF disk[i] = "none"
       THEN /\ disk' = [disk EXCEPT ![i] = "partial"]
            /\ script' = <<PutOneOf(Step.at, Step.val)>> \o Tail(script)
       ELSE UNCHANGED disk /\ Pass

CloneStep ==
  /\ Step.do = "clone" /\ Pass /\ UNCHANGED <<config, proc>>
  /\ \E i \in Step.at : disk' = [disk EXCEPT ![i] = branch]

CopyStep ==
  /\ Step.do = "copy" /\ Pass /\ UNCHANGED <<config, proc>>
  /\ \E i \in Step.at, j \in Step.val : disk' = [disk EXCEPT ![i] = disk[j]]

PackageStep ==
  /\ Step.do = "package" /\ Pass /\ UNCHANGED config
  /\ \E i \in Step.at, v \in Step.val :
       /\ disk' = [disk EXCEPT ![i] = v]
       /\ \/ UNCHANGED proc
          \/ /\ i[1] \in Runtime /\ disk[<<i[1], "local">>] = "none"
             /\ \E lost \in LostWith(i[1]) :
                  proc' = WithStarted(i[1], [build |-> v, config |-> config[i[1]]], lost)

ConfigStep ==
  /\ Step.do \in {"overwrite", "add"} /\ Pass /\ UNCHANGED <<disk, proc>>
  /\ \E r \in Step.at :
       config' = [config EXCEPT ![r] =
                    IF Step.do = "add" THEN @ \cup Step.val ELSE Step.val]

DaemonStep ==
  /\ Step.do \in {"restart", "start"} /\ Pass /\ UNCHANGED <<disk, config>>
  /\ \E d \in Step.at :
       /\ Started(d).build # "none"
       /\ IF Step.do = "start" /\ Up(d) THEN UNCHANGED proc
          ELSE \E lost \in LostWith(d) : proc' = WithStarted(d, Started(d), lost)

StopStep ==
  /\ Step.do = "stop" /\ Pass /\ UNCHANGED <<disk, config>>
  /\ proc' = [d \in Daemon |-> IF d \in Step.at THEN Off ELSE proc[d]]

CheckStep ==
  /\ \/ Step.do = "need" /\ \A c \in Step.at : Holds(c)
     \/ Step.do = "pinned" /\ proc["driver"].build \in Step.val
     \/ Step.do = "whole" /\ \A i \in Step.at : disk[i] = "whole"
  /\ Pass /\ UNCHANGED node

\* kubeadm refuses to choose between two sockets: Docker brings a containerd along.
SocketKnown == "socket" \in Step.val => "docker" \notin Step.at

\* kubeadm init, unless there is an admin.conf.
CanInit ==
  /\ SocketKnown /\ \A r \in Step.at : CRI(r)
  /\ \A p \in {"tools", "unit"} \cup (Step.val \ {"socket"}) :
       disk[<<"kube", p>>] \notin {"none", "partial"}

InitStep ==
  /\ Step.do = "init" /\ Pass /\ UNCHANGED config
  /\ IF disk[<<"kube", "admin">>] # "none" THEN UNCHANGED <<disk, proc>>
     ELSE /\ CanInit
          /\ disk' = [disk EXCEPT ![<<"kube", "admin">>] = disk[<<"kube", "tools">>]]
          /\ proc' = [proc EXCEPT !["kube"] =
                        [build |-> disk[<<"kube", "tools">>], config |-> {}]]

Effect ==
  \/ PutStep \/ FetchStep \/ CloneStep \/ CopyStep \/ PackageStep \/ ConfigStep
  \/ DaemonStep \/ StopStep \/ CheckStep \/ InitStep

\* An attempt of kubeadm init fails after it has written admin.conf, with or
\* without the static pods, and it was the last attempt.
InitBreaks ==
  /\ Step.do = "init" /\ disk[<<"kube", "admin">>] = "none" /\ SocketKnown
  /\ \E a \in {"files", "pods"} :
       /\ a = "pods" => CanInit
       /\ disk' = [disk EXCEPT ![<<"kube", "admin">>] = a]
       /\ \/ UNCHANGED proc
          \/ a = "pods" /\ proc' = [proc EXCEPT !["kube"] = [build |-> a, config |-> {}]]
  /\ UNCHANGED config

\* Every daemon that is installed comes up with the node.
Booted == [d \in Daemon |-> IF Started(d).build = "none" THEN Off ELSE Started(d)]

=============================================================================
