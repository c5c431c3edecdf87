--------------------------- MODULE RuntimeScripts ---------------------------
(***************************************************************************)
(* The scripts of the container runtimes: templates/containerd.go,         *)
(* docker.go and crio.go.  A request is a pair of a source and a version   *)
(* or commit.  For every template: when the script exits because it finds  *)
(* the runtime installed, and the steps it takes otherwise.                *)
(***************************************************************************)
EXTENDS NodeScripts

\* What is asked for, and what a package manager that cannot deliver it takes.
OrNewest(v) == {v, Newest}

\* The script finds the commit in the provenance file and the runtime alive.  It
\* needs jq to read the file, and does not install it.
FromCommit(r, c) ==
  /\ Binary(r) # "none" /\ Up(r)
  /\ disk[<<"jq", "package">>] # "none" /\ disk[<<r, "provenance">>] = c

-----------------------------------------------------------------------------
(* containerd                                                              *)

ContainerdPackageSkips(v) == Up("containerd") /\ Binary("containerd") = v

ContainerdPackage(v) ==
  Fetched("containerd") \o
  << Package("containerd", OrNewest(v)), Overwrite("containerd", {"cri"}),
     Restart("containerd"), Need("containerd") >>

\* The unit of a running daemon is enabled, which does not restart it.
ContainerdGit(c) ==
  Fetched("containerd") \o
  << Put("containerd", "local", c), Overwrite("containerd", {"cri"}),
     Start("containerd"), Need("containerd"), Put("containerd", "provenance", c) >>

\* c is the head of the branch when the script began.
ContainerdLatest(c) ==
  Fetched("containerd") \o
  << Clone({<<"containerd", "local">>}), Overwrite("containerd", {"cri"}),
     Start("containerd"), Need("containerd"), Put("containerd", "provenance", c) >>

ContainerdScript(source, ref) ==
  CASE source = "package" -> IF ContainerdPackageSkips(ref) THEN << >> ELSE ContainerdPackage(ref)
    [] source = "git" -> IF FromCommit("containerd", ref) THEN << >> ELSE ContainerdGit(ref)
    [] source = "latest" ->
         IF FromCommit("containerd", branch) THEN << >> ELSE ContainerdLatest(branch)

-----------------------------------------------------------------------------
(* Docker and cri-dockerd                                                  *)

\* docker version asks the running daemon.  To ask for the newest version is to
\* name none, and then any will do; a pinned one is named as its package is.
DockerPackageSkips(v) ==
  Up("docker") /\ (v = Newest \/ (PlainNames /\ proc["docker"].build = v))

DockerPackage(v) ==
  Fetched("docker") \o
  << Package("docker", {v}), Add("docker", {"cri"}), Restart("docker"), Need("docker") >>

\* This part is run also if Docker was found installed.
CriDockerd ==
  << Fetch("cri-docker", "binary", "binary"), Keep("cri-docker", "unit", "unit"),
     Start("cri-docker"), Need("docker") >>

DockerGit(c) ==
  Fetched("docker") \o
  << Put("docker", "local", c), Add("docker", {"cri"}), Start("docker") >>

\* The build from source brings the program of cri-dockerd without a unit.
CriDockerdGit(c) ==
  << Fetch("cri-docker", "binary", "binary"), Need("docker"),
     Put("docker", "provenance", c) >>

\* Mutant: a Docker that is found installed ends the script.
DockerAlone(source, ref) ==
  CASE source = "package" ->
         IF DockerPackageSkips(ref) THEN << >> ELSE DockerPackage(ref) \o CriDockerd
    [] source = "git" ->
         (IF FromCommit("docker", ref) THEN << >> ELSE DockerGit(ref)) \o CriDockerdGit(ref)

DockerScript(source, ref) ==
  CASE source = "package" ->
         (IF DockerPackageSkips(ref) THEN << >> ELSE DockerPackage(ref)) \o CriDockerd
    [] source = "git" ->
         (IF FromCommit("docker", ref) THEN << >> ELSE DockerGit(ref)) \o CriDockerdGit(ref)

-----------------------------------------------------------------------------
(* CRI-O                                                                   *)

CrioPackageSkips(v) == Up("crio") /\ Binary("crio") = v

\* Which version the repository holds was decided when it was added first.
CrioPackage(v) ==
  Fetched("crio") \o << Package("crio", OrNewest(v)), Start("crio"), Need("crio") >>

CrioGit(c) ==
  Fetched("crio") \o
  << Put("crio", "local", c), Add("crio", {"cri"}), Start("crio"), Need("crio"),
     Put("crio", "provenance", c) >>

CrioScript(source, ref) ==
  CASE source = "package" -> IF CrioPackageSkips(ref) THEN << >> ELSE CrioPackage(ref)
    [] source = "git" -> IF FromCommit("crio", ref) THEN << >> ELSE CrioGit(ref)

=============================================================================
