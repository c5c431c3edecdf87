-------------------------- MODULE KubernetesScripts --------------------------
(***************************************************************************)
(* The scripts of Kubernetes on one node, on the runtime r:                *)
(* templates/kubernetes.go.                                                *)
(***************************************************************************)
EXTENDS NodeScripts

\* Mutant: a cluster that has been initialised is taken for complete.
KubeadmFound == disk[<<"kube", "admin">>] # "none"

\* A cluster that answers and whose nodes are ready, of whatever version.
KubeadmSkips == disk[<<"kube", "admin">>] # "none" /\ NodesReady

\* System settings, CNI plugins, binaries and the kubelet service: what is
\* there is taken to be complete.
KubeadmTools(v) == << Fetch("kube", "tools", v), Fetch("kube", "unit", "unit") >>

\* Mutant: cri-dockerd is expected to have survived.
KubeadmAsIs(v, r) == << KubeadmInit(r, v \notin Legacy), Need("kube") >>

\* cri-dockerd may not have survived the restart of Docker by the toolkit.
\* Old versions are initialised with flags, the others with the file.
KubeadmCluster(v, r) ==
  (IF r = "docker" THEN << Restart("cri-docker") >> ELSE << >>)
    \o << KubeadmInit(r, v \notin Legacy), Need("kube") >>

\* The Tigera operator, Calico, labels, and the wait for nodes and CoreDNS.
KubeadmNetwork ==
  << Fetch("kube", "network", "operator"), Need("operator"),
     Put("kube", "network", "calico"), Need("nodes") >>

KubeadmRelease(v, r) == KubeadmTools(v) \o KubeadmCluster(v, r) \o KubeadmNetwork

\* The provenance file says what was built, not what the cluster runs.
KubeadmGitSkips(c) ==
  /\ disk[<<"jq", "package">>] # "none" /\ disk[<<"kube", "provenance">>] = c
  /\ disk[<<"kube", "admin">>] # "none" /\ Up("kube")

\* What a build needs: packages, and Go in the version it asks for.
KubeadmBuilder == << Put("jq", "package", "jq") >> \o Fetched("kube")

KubeadmGitTools(c) ==
  KubeadmBuilder \o << Put("kube", "tools", c), Fetch("kube", "unit", "unit") >>

\* The cluster is initialised only if there is none, on whatever runtime is found.
KubeadmGitCluster(c, r) ==
  << KubeadmInitSearches(r), Need("kube") >> \o KubeadmNetwork
    \o << Put("kube", "provenance", c) >>

\* The same with what the branch holds when the script clones it.
KubeadmLatestTools ==
  KubeadmBuilder \o << Clone({<<"kube", "tools">>}), Fetch("kube", "unit", "unit") >>

KubeadmLatestCluster(c, r) ==
  << KubeadmInitSearches(r), Need("kube") >> \o KubeadmNetwork
    \o << Put("kube", "provenance", c) >>

-----------------------------------------------------------------------------
(* kind                                                                    *)

\* Mutant: the cluster is made anew by every run.
KindNeverFound == FALSE

\* The cluster exists, and kubectl gets its nodes from it.
KindSkips ==
  disk[<<"kind", "cluster">>] # "none" /\ Up("kind") /\ disk[<<"kind", "kubectl">>] = "whole"

\* nvidia-ctk, if it is there, configures Docker; then the cluster is created
\* from what was put together.
KindCluster(make) ==
  (IF Binary("toolkit") # "none" THEN << Add("docker", {"nvidia"}), Restart("docker") >>
   ELSE << >>)
    \o << Need("docker"), Put("kind", "cluster", "partial"), make,
          Start("kind"), Whole("kind", "kubectl"), Need("kind") >>

DeleteCluster == << Stop("kind"), Put("kind", "cluster", "none") >>

\* kubectl is downloaded to where it is used.
KindRelease(v) ==
  (IF disk[<<"kind", "cluster">>] # "none" THEN DeleteCluster ELSE << >>)
    \o << Fetch("kind", "kubectl", "whole") >> \o KindCluster(Put("kind", "cluster", v))

\* No script for kind installs jq.
KindGitSkips(c) ==
  disk[<<"jq", "package">>] # "none" /\ disk[<<"kube", "provenance">>] = c /\ KindSkips

\* The old cluster is deleted before the image of the new one is built.  kubectl
\* is installed when its download has come to its end.
KindBuilder == DeleteCluster \o << Keep("kind", "kubectl", "whole") >>

KindGit(c) ==
  KindBuilder \o KindCluster(Put("kind", "cluster", c)) \o << Put("kube", "provenance", c) >>

KindLatest(c) ==
  KindBuilder \o KindCluster(Clone({<<"kind", "cluster">>}))
    \o << Put("kube", "provenance", c) >>

-----------------------------------------------------------------------------
(* MicroK8s                                                                *)

Microk8sSkips == disk[<<"microk8s", "snap">>] # "none" /\ Up("microk8s")

Microk8s(v) ==
  << Keep("microk8s", "snap", v), Start("microk8s"), Need("microk8s") >>

-----------------------------------------------------------------------------

KubernetesScript(installer, source, ref, r) ==
  CASE installer = "microk8s" -> IF Microk8sSkips THEN << >> ELSE Microk8s(ref)
    [] installer = "kind" /\ source = "release" -> IF KindSkips THEN << >> ELSE KindRelease(ref)
    [] installer = "kind" /\ source = "git" -> IF KindGitSkips(ref) THEN << >> ELSE KindGit(ref)
    [] installer = "kind" /\ source = "latest" ->
         IF KindGitSkips(branch) THEN << >> ELSE KindLatest(branch)
    [] installer \in {"kubeadm", ""} /\ source = "release" ->
         IF KubeadmSkips THEN << >> ELSE KubeadmRelease(ref, r)
    [] installer \in {"kubeadm", ""} /\ source = "git" ->
         IF KubeadmGitSkips(ref) THEN << >> ELSE KubeadmGitTools(ref) \o KubeadmGitCluster(ref, r)
    [] installer \in {"kubeadm", ""} /\ source = "latest" ->
         IF KubeadmGitSkips(branch) THEN << >>
         ELSE KubeadmLatestTools \o KubeadmLatestCluster(branch, r)

=============================================================================
