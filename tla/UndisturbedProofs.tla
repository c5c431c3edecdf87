-------------------------- MODULE UndisturbedProofs --------------------------
(***************************************************************************)
(* Proofs about Provisioner as long as nothing goes wrong, for every set   *)
(* of documents and every bound of edits, on the layers of module          *)
(* ProvisionerProofs:                                                      *)
(*   - every line that can fail finds what a line before it has brought    *)
(*     (UndisturbedRunSucceeds);                                           *)
(*   - what a cluster of kubeadm is made of (its tools, its certificates   *)
(*     and its network) is not taken apart once it was put together:       *)
(*     the part of ClusterIsKept that is about kubeadm (KubeadmStays).     *)
(***************************************************************************)
EXTENDS ProvisionerProofs

-----------------------------------------------------------------------------
(* Runs that nothing disturbs                                              *)

\* Nothing has gone wrong so far, and the document has no kernel.
Quiet == faults = 0 /\ doc.kernel = "none"

\* Then the node stays up, and no run is disturbed or waits for a reboot.
Calm == power = "up" /\ disturbed = FALSE /\ phase # "reboot"

Ends == RefuseRun \/ TemplateFails \/ ScriptFails \/ Finish

\* What can happen then.
LEMMA QuietSteps ==
  ASSUME BaseInv, BaseInv', Quiet => Calm, [Next]_vars, Quiet'
  PROVE  /\ Quiet /\ Calm /\ Calm'
         /\ \/ StartRun \/ BeginScript \/ ScriptStep \/ ScriptEnds \/ Update \/ Ends
            \/ UNCHANGED vars
<1>1. doc.kernel = "none"
  BY SameKernel DEF Quiet
<1>2. faults \in Nat /\ ~Disturb
  BY DEF BaseInv, Types, Quiet, Disturb
<1>3. ~RebootStep
  <2> SUFFICES ASSUME RebootStep PROVE FALSE
    OBVIOUS
  <2>1. PICK c \in Part : At(c) /\ StepOf(c, Step)
    BY RunningLine DEF RebootStep, BaseInv
  <2>2. At("kernel")
    BY <2>1 DEF StepOf, RebootStep
  <2>3. Expected("kernel")
    BY <2>2, Order DEF BaseInv, Part
  <2> QED  BY <2>3, <1>1 DEF Expected
<1>4. /\ ~CutOff /\ ~InitFails /\ ~GiveUp /\ ~UserReboots /\ ~DaemonDies /\ ~BranchMoves
  BY <1>2 DEF CutOff, InitFails, GiveUp, UserReboots, DaemonDies, BranchMoves
<1>5. faults = 0
  BY <1>2, <1>3, <1>4 DEF Next, Run, vars, Quiet, StartRun, RefuseRun, BeginScript, TemplateFails, ScriptStep, run,
     ScriptFails, ScriptEnds, Reconnect, Finish, NodeGoesDown, NodeComesUp, Update, EndRun
<1>6. Quiet /\ Calm
  BY <1>1, <1>5 DEF Quiet
<1>7. ~NodeGoesDown /\ ~NodeComesUp /\ ~Reconnect
  BY <1>6 DEF Calm, NodeGoesDown, NodeComesUp, Reconnect
<1>8. CASE StartRun
  BY <1>6, <1>8 DEF Calm, StartRun
<1>9. CASE BeginScript
  BY <1>6, <1>9 DEF Calm, BeginScript
<1>10. CASE ScriptStep
  BY <1>6, <1>10 DEF Calm, ScriptStep, run
<1>11. CASE ScriptEnds
  BY <1>1, <1>6, <1>11 DEF Calm, ScriptEnds
<1>12. CASE Update
  BY <1>6, <1>12 DEF Calm, Update
<1>13. CASE RefuseRun \/ TemplateFails \/ ScriptFails \/ Finish
  BY <1>6, <1>13 DEF Calm, Ends, RefuseRun, TemplateFails, ScriptFails, Finish, EndRun
<1>14. CASE UNCHANGED vars
  BY <1>6, <1>14 DEF Calm, vars
<1> QED  BY <1>3, <1>4, <1>7, <1>8, <1>9, <1>10, <1>11, <1>12, <1>13, <1>14 DEF Next, Run

\* Where the run then is.
LEMMA QuietPlaces ==
  ASSUME BaseInv, BaseInv', [Next]_vars, NEW c \in Part
  PROVE  /\ StartRun \/ Update \/ Ends => ~At(c)' /\ ~Passed(c)'
         /\ Ends => /\ UNCHANGED <<node, branch, doc, power>> /\ phase' = "idle" /\ ~ScriptStep
                    /\ At(c) => RunningScript /\ Blocked
         /\ BeginScript => /\ UNCHANGED <<node, branch, doc>>
                           /\ Passed(c)' => Passed(c)
                           /\ At(c)' => Head(todo) = Install(c) /\ Expected(c)
                           /\ ~At(c)
         /\ ScriptStep => /\ RunningScript /\ Effect /\ UNCHANGED <<doc, branch, power, phase, todo, disturbed>>
                          /\ Passed(c)' <=> Passed(c)
                          /\ At(c)' <=> At(c)
         /\ ScriptEnds => /\ UNCHANGED <<node, branch, doc>> /\ ~At(c)'
                          /\ Passed(c)' => Passed(c) \/ At(c)
                          /\ Len(script) = 0
<1> USE DEF BaseInv
<1>1. StartRun \/ Update \/ Ends => ~At(c)' /\ ~Passed(c)'
  <2>1. CASE StartRun
    BY <2>1, AtStart
  <2>2. CASE Update \/ Ends
    <3>1. phase' = "idle"
      BY <2>2 DEF Update, Ends, RefuseRun, TemplateFails, ScriptFails, Finish, EndRun
    <3> QED  BY <3>1 DEF At, Passed
  <2> QED  BY <2>1, <2>2
<1>5. ASSUME Ends
      PROVE  /\ UNCHANGED <<node, branch, doc, power>> /\ phase' = "idle" /\ ~ScriptStep
             /\ At(c) => RunningScript /\ Blocked
  <2>1. phase' = "idle" /\ UNCHANGED <<node, branch, doc, power>>
    BY <1>5 DEF Ends, RefuseRun, TemplateFails, ScriptFails, Finish, EndRun
  <2>2. ~ScriptStep
    BY <2>1 DEF ScriptStep, RunningScript, run
  <2>3. At(c) => ScriptFails
    BY <1>5 DEF Ends, RefuseRun, TemplateFails, Finish, At
  <2> QED  BY <2>1, <2>2, <2>3 DEF ScriptFails
<1>2. ASSUME BeginScript
      PROVE  /\ UNCHANGED <<node, branch, doc>>
             /\ Passed(c)' => Passed(c)
             /\ At(c)' => Head(todo) = Install(c) /\ Expected(c)
             /\ ~At(c)
  <2>1. /\ UNCHANGED <<node, branch, doc, todo>> /\ phase = "next" /\ phase' = "script" /\ Len(todo) # 0
    BY <1>2, EmptySeq, LenProperties DEF BeginScript, TodoInv, Within
  <2>2. Passed(c)' => Passed(c)
    BY <2>1, SamePlace
  <2>3. ASSUME At(c)' PROVE Head(todo) = Install(c) /\ Expected(c)
    <3>1. Head(todo) = Install(c) /\ Head(todo) = todo[1] /\ 1 \in 1..Len(todo)
      BY <2>1, <2>3, LenProperties DEF At, TodoInv, Within
    <3> QED  BY <3>1 DEF TodoInv, Has, In
  <2> QED  BY <2>1, <2>2, <2>3 DEF At
<1>3. ASSUME ScriptStep
      PROVE  /\ RunningScript /\ Effect /\ UNCHANGED <<doc, branch, power, phase, todo, disturbed>>
             /\ Passed(c)' <=> Passed(c)
             /\ At(c)' <=> At(c)
  <2>1. /\ RunningScript /\ Effect /\ UNCHANGED <<doc, branch, power, phase, todo, disturbed>>
        /\ phase = "script"
    BY <1>3 DEF ScriptStep, run, RunningScript
  <2> QED  BY <2>1, SamePlace
<1>4. ASSUME ScriptEnds
      PROVE  /\ UNCHANGED <<node, branch, doc>> /\ ~At(c)'
             /\ Passed(c)' => Passed(c) \/ At(c)
             /\ Len(script) = 0
  <2>1. UNCHANGED <<node, branch, doc>>
    BY <1>4 DEF ScriptEnds
  <2> QED  BY <1>4, <2>1, AtEnd
<1> QED  BY <1>1, <1>2, <1>3, <1>4, <1>5

-----------------------------------------------------------------------------
(* Downloads in such runs                                                  *)

\* The line x puts the item there, if it is not.
Gets(x, i) == x.do \in {"put", "keep", "fetch"} /\ x.at = {i}

\* What is used as it was downloaded was there before the lines, or is brought
\* by a line before.
Brought(s, there) ==
  /\ Sequence(s)
  /\ \A k \in 1..Len(s) : s[k].do = "whole" =>
       \E i \in UsedWhole : s[k].at = {i} /\ (i \in there \/ \E j \in 1..(k - 1) : Gets(s[j], i))

There == {i \in Item : disk[i] # "none"}

\* A part of a download is there only while its line is at work.
PartsKnown ==
  /\ Brought(script, There)
  /\ \A i \in UsedWhole : disk[i] \in {"none", "partial", "whole"}
  /\ disk[<<"cri-docker", "binary">>] \in {"none", "partial", "binary"}
  /\ \A i \in Downloads : disk[i] = "partial" => Len(script) # 0 /\ script[1].do = "put" /\ script[1].at = {i}

LEMMA BroughtJoined ==
  ASSUME NEW s, NEW t, NEW there, NEW also, Brought(s, there), Brought(t, also),
         \A i \in also : i \in there \/ \E j \in 1..Len(s) : Gets(s[j], i)
  PROVE  Brought(s \o t, there)
<1>0. Sequence(s) /\ Sequence(t)
  BY DEF Brought
<1>1. /\ Sequence(s \o t) /\ Len(s) \in Nat /\ Len(t) \in Nat /\ Len(s \o t) = Len(s) + Len(t)
      /\ \A i \in 1..Len(s) : (s \o t)[i] = s[i]
      /\ \A i \in 1..Len(t) : (s \o t)[Len(s) + i] = t[i]
  BY <1>0, Joined
<1> DEFINE u == s \o t
<1> HIDE DEF u
<1>2. ASSUME NEW k \in 1..Len(u), u[k].do = "whole"
      PROVE  \E i \in UsedWhole : u[k].at = {i} /\ (i \in there \/ \E j \in 1..(k - 1) : Gets(u[j], i))
  <2>1. CASE k \in 1..Len(s)
    <3>1. u[k] = s[k] /\ \A j \in 1..(k - 1) : u[j] = s[j]
      BY <1>1, <2>1 DEF u
    <3>2. PICK i \in UsedWhole : s[k].at = {i} /\ (i \in there \/ \E j \in 1..(k - 1) : Gets(s[j], i))
      BY <1>2, <2>1, <3>1 DEF Brought
    <3>3. (\E j \in 1..(k - 1) : Gets(s[j], i)) => \E j \in 1..(k - 1) : Gets(u[j], i)
      BY <3>1
    <3> QED  BY <3>1, <3>2, <3>3
  <2>2. CASE k \notin 1..Len(s)
    <3> DEFINE m == k - Len(s)
    <3>1. m \in 1..Len(t) /\ Len(s) + m = k
      BY <1>1, <1>2, <2>2 DEF u
    <3> HIDE DEF m
    <3>2. u[k] = t[m]
      BY <1>1, <3>1 DEF u
    <3>3. PICK i \in UsedWhole : t[m].at = {i} /\ (i \in also \/ \E j \in 1..(m - 1) : Gets(t[j], i))
      BY <1>2, <3>1, <3>2 DEF Brought
    <3>4. CASE \E j \in 1..(m - 1) : Gets(t[j], i)
      <4>1. PICK j \in 1..(m - 1) : Gets(t[j], i)
        BY <3>4
      <4>2. j \in 1..Len(t) /\ Len(s) + j \in 1..(k - 1)
        BY <1>1, <3>1
      <4>3. u[Len(s) + j] = t[j]
        BY <1>1, <4>2 DEF u
      <4> QED  BY <3>2, <3>3, <4>1, <4>2, <4>3
    <3>5. CASE \E j \in 1..Len(s) : Gets(s[j], i)
      <4>1. PICK j \in 1..Len(s) : Gets(s[j], i)
        BY <3>5
      <4>2. j \in 1..(k - 1) /\ u[j] = s[j]
        BY <1>1, <3>1 DEF u
      <4> QED  BY <3>2, <3>3, <4>1, <4>2
    <3> QED  BY <3>2, <3>3, <3>4, <3>5
  <2> QED  BY <2>1, <2>2
<1> QED  BY <1>1, <1>2 DEF Brought, u

LEMMA BroughtFew ==
  ASSUME NEW there
  PROVE  /\ Brought(<< >>, there)
         /\ \A x : x.do # "whole" => Brought(<<x>>, there)
         /\ \A x, y : x.do # "whole" /\ y.do # "whole" => Brought(<<x, y>>, there)
         /\ \A x, y, z : x.do # "whole" /\ y.do # "whole" /\ z.do # "whole" => Brought(<<x, y, z>>, there)
         /\ \A x, y, z, u :
              x.do # "whole" /\ y.do # "whole" /\ z.do # "whole" /\ u.do # "whole"
              => Brought(<<x, y, z, u>>, there)
         /\ \A x, y, z, u, w :
              x.do # "whole" /\ y.do # "whole" /\ z.do # "whole" /\ u.do # "whole" /\ w.do # "whole"
              => Brought(<<x, y, z, u, w>>, there)
BY Literals DEF Brought

LEMMA BroughtFetched ==
  ASSUME NEW c, <<c, "fetched">> \in Item, NEW there, NEW t, Brought(t, there)
  PROVE  Brought(Fetched(c), there) /\ Brought(Fetched(c) \o t, there)
<1>1. /\ Sequence(Fetched(c)) /\ Len(Fetched(c)) = 2 /\ Fetched(c)[1] = Fetch(c, "fetched", "whole")
      /\ Fetched(c)[2] = Whole(c, "fetched")
  BY Literals DEF Fetched
<1>2. Gets(Fetched(c)[1], <<c, "fetched">>) /\ Fetched(c)[1].do # "whole"
  BY <1>1 DEF Gets, Fetch
<1>3. Fetched(c)[2].at = {<<c, "fetched">>} /\ <<c, "fetched">> \in UsedWhole
  BY <1>1 DEF Whole, UsedWhole
<1>4. ASSUME NEW k \in 1..2, Fetched(c)[k].do = "whole"
      PROVE  \E i \in UsedWhole : /\ Fetched(c)[k].at = {i}
                                  /\ i \in there \/ \E j \in 1..(k - 1) : Gets(Fetched(c)[j], i)
  <2>1. k = 2
    BY <1>2, <1>4
  <2>2. 1 \in 1..(k - 1)
    BY <2>1
  <2> QED  BY <1>2, <1>3, <2>1, <2>2
<1>5. Brought(Fetched(c), there)
  BY <1>1, <1>4 DEF Brought
<1> QED  BY <1>5, BroughtJoined

\* The scripts of every part are such scripts.
LEMMA BroughtRuntime ==
  ASSUME NEW there, doc \in Document, Asked(doc.runtime), ~TemplateRefuses(<<"install", "runtime">>)
  PROVE  Brought(ScriptOf(<<"install", "runtime">>), there)
<1> DEFINE v == doc.runtime[3]  r == OwnRuntime  all == ScriptOf(<<"install", "runtime">>)
<1>1. /\ doc.runtime[2] \in {"package", "git", "latest"} /\ r \in Runtime
      /\ doc.runtime[2] = "latest" => r = "containerd"
  BY DocumentShape DEF OwnRuntime, Asked, TemplateRefuses
<1>2. /\ \A c, p, w : Put(c, p, w).do # "whole" /\ Keep(c, p, w).do # "whole" /\ Fetch(c, p, w).do # "whole"
      /\ \A c, w : Package(c, w).do # "whole" /\ Overwrite(c, w).do # "whole" /\ Add(c, w).do # "whole"
      /\ \A c : Restart(c).do # "whole" /\ Start(c).do # "whole" /\ Need(c).do # "whole" /\ Clone(c).do # "whole"
  BY DEF Put, PutOneOf, Keep, Fetch, Package, Overwrite, Add, Restart, Start, Need, Clone
<1>3. /\ \A x, y, z, u : x.do # "whole" /\ y.do # "whole" /\ z.do # "whole" /\ u.do # "whole"
           => Brought(<<x, y, z, u>>, there)
      /\ \A x, y, z : x.do # "whole" /\ y.do # "whole" /\ z.do # "whole" => Brought(<<x, y, z>>, there)
      /\ \A x, y, z, u, w :
           x.do # "whole" /\ y.do # "whole" /\ z.do # "whole" /\ u.do # "whole" /\ w.do # "whole"
           => Brought(<<x, y, z, u, w>>, there)
      /\ Brought(<< >>, there)
  BY BroughtFew
<1>4. ASSUME NEW c \in Runtime, NEW t, Brought(t, there) PROVE Brought(Fetched(c) \o t, there)
  <2>1. <<c, "fetched">> \in Item
    BY DEF Item, Runtime
  <2> QED  BY <1>4, <2>1, BroughtFetched
<1>5. CASE r = "containerd"
  <2>1. all = ContainerdScript(doc.runtime[2], v)
    BY <1>5 DEF ScriptOf, OwnRuntime
  <2>2. /\ Brought(ContainerdPackage(v), there) /\ Brought(ContainerdGit(v), there)
        /\ Brought(ContainerdLatest(branch), there)
    BY <1>2, <1>3, <1>4 DEF ContainerdPackage, ContainerdGit, ContainerdLatest, Runtime
  <2> QED  BY <1>1, <1>3, <2>1, <2>2 DEF ContainerdScript
<1>6. CASE r = "docker"
  <2>1. all = DockerScript(doc.runtime[2], v) /\ doc.runtime[2] # "latest"
    BY <1>1, <1>6 DEF ScriptOf, OwnRuntime
  <2>2. Brought(DockerPackage(v), there) /\ Brought(DockerGit(v), there)
    BY <1>2, <1>3, <1>4 DEF DockerPackage, DockerGit, Runtime
  <2>3. Brought(CriDockerd, there) /\ Brought(CriDockerdGit(v), there)
    BY <1>2, <1>3 DEF CriDockerd, CriDockerdGit
  <2>4. \A s, t : Brought(s, there) /\ Brought(t, there) => Brought(s \o t, there)
    BY BroughtJoined
  <2> QED  BY <1>1, <1>3, <2>1, <2>2, <2>3, <2>4 DEF DockerScript
<1>7. CASE r = "crio"
  <2>1. all = CrioScript(doc.runtime[2], v) /\ doc.runtime[2] # "latest"
    BY <1>1, <1>7 DEF ScriptOf, OwnRuntime
  <2>2. Brought(CrioPackage(v), there) /\ Brought(CrioGit(v), there)
    BY <1>2, <1>3, <1>4 DEF CrioPackage, CrioGit, Runtime
  <2> QED  BY <1>1, <1>3, <2>1, <2>2 DEF CrioScript
<1> QED  BY <1>1, <1>5, <1>6, <1>7 DEF Runtime

LEMMA BroughtOthers ==
  ASSUME NEW there, doc \in Document
  PROVE  /\ doc.kernel \in Version => Brought(KernelScript(doc.kernel), there)
         /\ Asked(doc.driver) => Brought(DriverScript(doc.driver[1], doc.driver[2]), there)
         /\ Asked(doc.toolkit) => Brought(ToolkitScript(doc.toolkit[1], doc.toolkit[2], OwnRuntime), there)
<1>2. /\ \A c, p, w : Put(c, p, w).do # "whole"
      /\ \A c, w : PutOneOf(c, w).do # "whole" /\ Add(c, w).do # "whole" /\ Copy(c, w).do # "whole"
      /\ \A c : Restart(c).do # "whole" /\ Start(c).do # "whole" /\ Need(c).do # "whole" /\ Clone(c).do # "whole"
      /\ \A w : Pinned(w).do # "whole"
      /\ Reboot.do # "whole"
  BY DEF Put, PutOneOf, Copy, Add, Restart, Start, Need, Clone, Pinned, Reboot
<1>3. /\ Brought(<< >>, there)
      /\ \A x : x.do # "whole" => Brought(<<x>>, there)
      /\ \A x, y : x.do # "whole" /\ y.do # "whole" => Brought(<<x, y>>, there)
      /\ \A x, y, z : x.do # "whole" /\ y.do # "whole" /\ z.do # "whole" => Brought(<<x, y, z>>, there)
      /\ \A x, y, z, u : x.do # "whole" /\ y.do # "whole" /\ z.do # "whole" /\ u.do # "whole"
           => Brought(<<x, y, z, u>>, there)
      /\ \A x, y, z, u, w :
           x.do # "whole" /\ y.do # "whole" /\ z.do # "whole" /\ u.do # "whole" /\ w.do # "whole"
           => Brought(<<x, y, z, u, w>>, there)
  BY BroughtFew
<1>4. \A s, t : Brought(s, there) /\ Brought(t, there) => Brought(s \o t, there)
  BY BroughtJoined
<1>5. Brought(Fetched("toolkit"), there)
  <2>1. <<"toolkit", "fetched">> \in Item
    BY DEF Item
  <2> QED  BY <1>3, <2>1, BroughtFetched
<1>6. Brought(KernelScript(doc.kernel), there)
  BY <1>2, <1>3 DEF KernelScript
<1>7. ASSUME Asked(doc.driver) PROVE Brought(DriverScript(doc.driver[1], doc.driver[2]), there)
  <2> DEFINE v == doc.driver[2]
  <2>1. /\ Brought(DriverPackages(v), there) /\ Brought(DriverModule(v), there)
        /\ Brought(DriverRunfile(v), there) /\ Brought(DriverGit(v), there)
    BY <1>2, <1>3 DEF DriverPackages, DriverModule, DriverRunfile, DriverGit
  <2>2. doc.driver[1] \in {"package", "runfile", "git"}
    BY <1>7, DocumentShape DEF Asked
  <2> QED  BY <1>3, <1>4, <2>1, <2>2, GPUAssumption DEF DriverScript
<1>8. ASSUME Asked(doc.toolkit)
      PROVE  Brought(ToolkitScript(doc.toolkit[1], doc.toolkit[2], OwnRuntime), there)
  <2> DEFINE v == doc.toolkit[2]  r == OwnRuntime
  <2>1. Brought(ConfigureRuntime(r), there)
    BY <1>2, <1>3 DEF ConfigureRuntime
  <2>2. Brought(ToolkitPackage(v, r), there)
    BY <1>2, <1>3, <1>4, <1>5, <2>1 DEF ToolkitPackage
  <2>3. Brought(ToolkitGit(v, r), there)
    BY <1>2, <1>3, <1>4, <1>5, <2>1 DEF ToolkitGit
  <2>4. Brought(ToolkitLatest(branch, r), there)
    BY <1>2, <1>3, <1>4, <1>5, <2>1 DEF ToolkitLatest
  <2>5. doc.toolkit[1] \in {"package", "git", "latest"}
    BY <1>8, DocumentShape DEF Asked
  <2> QED  BY <1>3, <2>2, <2>3, <2>4, <2>5 DEF ToolkitScript
<1> QED  BY <1>6, <1>7, <1>8

LEMMA BroughtKubernetes ==
  ASSUME NEW there, doc \in Document, Asked(doc.kubernetes)
  PROVE  Brought(ScriptOf(<<"install", "kubernetes">>), there)
<1> DEFINE v == doc.kubernetes[3]  r == OwnRuntime  all == ScriptOf(<<"install", "kubernetes">>)
<1>1. /\ doc.kubernetes[1] \in {"", "kubeadm", "kind", "microk8s"}
      /\ doc.kubernetes[2] \in {"release", "git", "latest"}
      /\ doc.kubernetes[1] = "microk8s" => doc.kubernetes[2] = "release"
  BY DocumentShape DEF Asked
<1>2. /\ \A c, p, w : Put(c, p, w).do # "whole" /\ Keep(c, p, w).do # "whole" /\ Fetch(c, p, w).do # "whole"
      /\ \A c, w : Add(c, w).do # "whole" /\ KubeadmInit(c, w).do # "whole"
      /\ \A c : /\ Restart(c).do # "whole" /\ Start(c).do # "whole" /\ Need(c).do # "whole"
                /\ Clone(c).do # "whole" /\ Stop(c).do # "whole" /\ KubeadmInitSearches(c).do # "whole"
  BY DEF Put, PutOneOf, Keep, Fetch, Add, KubeadmInit, KubeadmInitSearches, Restart, Start, Need, Clone, Stop
<1>3. ASSUME NEW h
      PROVE  /\ Brought(<< >>, h)
             /\ \A x : x.do # "whole" => Brought(<<x>>, h)
             /\ \A x, y : x.do # "whole" /\ y.do # "whole" => Brought(<<x, y>>, h)
             /\ \A x, y, z : x.do # "whole" /\ y.do # "whole" /\ z.do # "whole" => Brought(<<x, y, z>>, h)
             /\ \A x, y, z, u : x.do # "whole" /\ y.do # "whole" /\ z.do # "whole" /\ u.do # "whole"
                  => Brought(<<x, y, z, u>>, h)
  BY BroughtFew
<1>4. \A h : \A s, t : Brought(s, h) /\ Brought(t, h) => Brought(s \o t, h)
  BY BroughtJoined
<1>5. Brought(Fetched("kube"), there)
  <2>1. <<"kube", "fetched">> \in Item
    BY DEF Item
  <2> QED  BY <1>3, <2>1, BroughtFetched
<1>6. Brought(KubeadmNetwork, there)
  BY <1>2, <1>3 DEF KubeadmNetwork
<1>7. Brought(KubeadmRelease(v, r), there)
  <2>1. Brought(KubeadmTools(v), there) /\ Brought(KubeadmCluster(v, r), there)
    BY <1>2, <1>3, <1>4 DEF KubeadmTools, KubeadmCluster
  <2> QED  BY <1>4, <1>6, <2>1 DEF KubeadmRelease
<1>8. ASSUME NEW c
      PROVE  /\ Brought(KubeadmGitTools(c) \o KubeadmGitCluster(c, r), there)
             /\ Brought(KubeadmLatestTools \o KubeadmLatestCluster(c, r), there)
  <2>1. Brought(KubeadmBuilder, there)
    BY <1>2, <1>3, <1>4, <1>5 DEF KubeadmBuilder
  <2>2. Brought(KubeadmGitTools(c), there) /\ Brought(KubeadmLatestTools, there)
    BY <1>2, <1>3, <1>4, <2>1 DEF KubeadmGitTools, KubeadmLatestTools
  <2>3. Brought(KubeadmGitCluster(c, r), there) /\ Brought(KubeadmLatestCluster(c, r), there)
    BY <1>2, <1>3, <1>4, <1>6 DEF KubeadmGitCluster, KubeadmLatestCluster
  <2> QED  BY <1>4, <2>2, <2>3
<1> DEFINE item == <<"kind", "kubectl">>  also == {item}
<1>9. ASSUME NEW make, make.do # "whole" PROVE Brought(KindCluster(make), also)
  <2> DEFINE last == << Need("docker"), Put("kind", "cluster", "partial"), make,
                        Start("kind"), Whole("kind", "kubectl"), Need("kind") >>
  <2>1. /\ Sequence(last) /\ Len(last) = 6
        /\ last[1].do # "whole" /\ last[2].do # "whole" /\ last[3].do # "whole"
        /\ last[4].do # "whole" /\ last[6].do # "whole"
        /\ last[5].at = {item}
    BY <1>2, <1>9, Literals DEF Whole
  <2>2. item \in UsedWhole /\ item \in also
    BY DEF UsedWhole
  <2> HIDE DEF last, item, also
  <2>3. Brought(last, also)
    <3>1. ASSUME NEW k \in 1..6, last[k].do = "whole" PROVE k = 5
      BY <2>1, <3>1
    <3> QED  BY <2>1, <2>2, <3>1 DEF Brought
  <2>4. Brought(IF Binary("toolkit") # "none" THEN << Add("docker", {"nvidia"}), Restart("docker") >>
                ELSE << >>, also)
    BY <1>2, <1>3
  <2> QED  BY <1>4, <2>3, <2>4 DEF KindCluster, last
<1>10. ASSUME NEW make, make.do # "whole", NEW s, Brought(s, there),
              NEW x \in {Fetch("kind", "kubectl", "whole"), Keep("kind", "kubectl", "whole")}
       PROVE  Brought((s \o <<x>>) \o KindCluster(make), there)
  <2> DEFINE all2 == KindCluster(make)  t == <<x>>  u == s \o t
  <2>1. Brought(all2, also)
    BY <1>9, <1>10
  <2>2. Brought(t, there) /\ Len(t) = 1 /\ t[1] = x
    BY <1>2, <1>3
  <2>3. Gets(x, item)
    BY DEF Gets, Fetch, Keep
  <2> HIDE DEF all2, item, t
  <2>4. Sequence(s) /\ Sequence(t)
    BY <1>10, <2>2 DEF Brought
  <2>5. /\ Len(s) \in Nat /\ Len(u) = Len(s) + Len(t)
        /\ \A i \in 1..Len(t) : u[Len(s) + i] = t[i]
    BY <2>4, Joined
  <2>6. Len(s) + 1 \in 1..Len(u) /\ u[Len(s) + 1] = x
    BY <2>2, <2>5
  <2>7. Brought(u, there)
    BY <1>4, <1>10, <2>2
  <2> HIDE DEF u
  <2>8. \A i \in also : i \in there \/ \E j \in 1..Len(u) : Gets(u[j], i)
    BY <2>3, <2>6
  <2>9. Brought(u \o all2, there)
    BY <2>1, <2>7, <2>8, BroughtJoined
  <2> QED  BY <2>9 DEF all2, u, t
<1>11. ASSUME NEW c
       PROVE  Brought(KindRelease(c), there) /\ Brought(KindGit(c), there) /\ Brought(KindLatest(c), there)
  <2>1. Put("kind", "cluster", c).do # "whole" /\ Clone({<<"kind", "cluster">>}).do # "whole"
    BY <1>2
  <2>2. Brought(DeleteCluster, there)
        /\ Brought(IF disk[<<"kind", "cluster">>] # "none" THEN DeleteCluster ELSE << >>, there)
    BY <1>2, <1>3 DEF DeleteCluster
  <2>3. Brought(<< Put("kube", "provenance", c) >>, there)
    BY <1>2, <1>3
  <2>4. Brought(KindRelease(c), there)
    BY <1>10, <2>1, <2>2 DEF KindRelease
  <2>5. /\ Brought(KindBuilder \o KindCluster(Put("kind", "cluster", c)), there)
        /\ Brought(KindBuilder \o KindCluster(Clone({<<"kind", "cluster">>})), there)
    BY <1>10, <2>1, <2>2 DEF KindBuilder
  <2>6. Brought(KindGit(c), there) /\ Brought(KindLatest(c), there)
    BY <1>4, <2>3, <2>5 DEF KindGit, KindLatest
  <2> QED  BY <2>4, <2>6
<1>12. ASSUME NEW c PROVE Brought(Microk8s(c), there)
  BY <1>2, <1>3 DEF Microk8s
<1>13. all = KubernetesScript(doc.kubernetes[1], doc.kubernetes[2], v, r)
  BY DEF ScriptOf, OwnRuntime
<1> DEFINE i == doc.kubernetes[1]  source == doc.kubernetes[2]
<1>14. /\ i \in {"", "kubeadm"} => all \in {<< >>, KubeadmRelease(v, r),
            KubeadmGitTools(v) \o KubeadmGitCluster(v, r),
            KubeadmLatestTools \o KubeadmLatestCluster(branch, r)}
       /\ i = "kind" => all \in {<< >>, KindRelease(v), KindGit(v), KindLatest(branch)}
       /\ i = "microk8s" => all \in {<< >>, Microk8s(v)}
  BY <1>1, <1>13 DEF KubernetesScript
<1> HIDE DEF all, i
<1>15. Brought(all, there)
  BY <1>1, <1>3, <1>7, <1>8, <1>11, <1>12, <1>14 DEF i
<1> QED  BY <1>15 DEF all

LEMMA BroughtAtOnce ==
  ASSUME BaseInv, BeginScript
  PROVE  Brought(script', There')
<1>1. script' = ScriptOf(Head(todo)) /\ doc \in Document /\ ~TemplateRefuses(Head(todo))
  BY DEF BeginScript, BaseInv, Types
<1>2. Head(todo) \in Dependency /\ \A c \in Part : Head(todo) = Install(c) => Expected(c)
  <2>1. 1 \in 1..Len(todo) /\ todo[1] = Head(todo) /\ todo[1] \in Dependency
    BY EmptySeq, LenProperties, HeadTailProperties, ElementOfSeq DEF BaseInv, TodoInv, Within, BeginScript
  <2> QED  BY <2>1 DEF BaseInv, TodoInv, Has, In
<1>3. CASE Head(todo)[1] = "custom"
  <2>1. script' = << >>
    BY <1>1, <1>3 DEF ScriptOf
  <2> QED  BY <2>1, BroughtFew
<1>4. ASSUME NEW c \in Part, Head(todo) = Install(c) PROVE Brought(script', There')
  <2>1. Expected(c)
    BY <1>2, <1>4
  <2>3. CASE c = "kernel"
    <3>1. doc.kernel \in Version
      BY <1>1, <2>1, <2>3, DocumentShape DEF Expected
    <3>2. script' = KernelScript(doc.kernel)
      BY <1>1, <1>4, <2>3 DEF ScriptOf, Install
    <3> QED  BY <1>1, <3>1, <3>2, BroughtOthers
  <2>4. CASE c = "driver"
    <3>1. Asked(doc.driver) /\ script' = DriverScript(doc.driver[1], doc.driver[2])
      BY <1>1, <1>4, <2>1, <2>4 DEF Expected, ScriptOf, Install
    <3> QED  BY <1>1, <3>1, BroughtOthers
  <2>5. CASE c = "runtime"
    <3>1. Asked(doc.runtime) /\ script' = ScriptOf(<<"install", "runtime">>)
          /\ ~TemplateRefuses(<<"install", "runtime">>)
      BY <1>1, <1>4, <2>1, <2>5 DEF Expected, Install
    <3> QED  BY <1>1, <3>1, BroughtRuntime
  <2>6. CASE c = "toolkit"
    <3>1. Asked(doc.toolkit) /\ script' = ToolkitScript(doc.toolkit[1], doc.toolkit[2], OwnRuntime)
      BY <1>1, <1>4, <2>1, <2>6 DEF Expected, ScriptOf, Install, OwnRuntime
    <3> QED  BY <1>1, <3>1, BroughtOthers
  <2>7. CASE c = "kubernetes"
    <3>1. Asked(doc.kubernetes) /\ script' = ScriptOf(<<"install", "kubernetes">>)
      BY <1>1, <1>4, <2>1, <2>7 DEF Expected, Install
    <3> QED  BY <1>1, <3>1, BroughtKubernetes
  <2> QED  BY <2>3, <2>4, <2>5, <2>6, <2>7 DEF Part
<1>5. Head(todo)[1] = "custom" \/ \E c \in Part : Head(todo) = Install(c)
  BY <1>2 DEF Dependency, Install
<1> QED  BY <1>3, <1>4, <1>5

\* What a line does to a download.
LEMMA DownloadLine ==
  ASSUME BaseInv, RunningScript, Effect, NEW i \in Downloads
  PROVE  /\ disk'[i] = "partial" =>
              \/ disk[i] = "partial" /\ ~(Step.do = "put" /\ Step.at = {i})
              \/ Refetches /\ Step.at = {i}
         /\ disk[i] # "none" \/ Gets(Step, i) => disk'[i] # "none"
         /\ i \in UsedWhole => disk'[i] \in {disk[i], "partial", "whole"}
         /\ i = <<"cri-docker", "binary">> => disk'[i] \in {disk[i], "partial", "binary"}
<1> USE DEF BaseInv, NodeTypes
<1>1. Sequence(script) /\ Len(script) \in Nat \ {0} /\ Step = script[1]
  BY RunningLine
<1>2. PICK c \in Part : At(c) /\ StepOf(c, Step)
  BY RunningLine
<1>3. i \in Item /\ i \notin Removable /\ i # <<"kube", "admin">> /\ i[2] # "package"
  BY DEF Downloads, Item, Removable
<1>4. CASE PutStep
  <2>1. PICK j \in Step.at, v \in Step.val :
          disk' = [disk EXCEPT ![j] = IF Step.do = "keep" /\ @ # "none" THEN @ ELSE v]
    BY <1>4 DEF PutStep
  <2>2. CASE j = i
    <3>1. v # "partial" /\ v # "none" /\ (i \in UsedWhole => v = "whole")
          /\ (i = <<"cri-docker", "binary">> => v = "binary")
      BY <1>2, <1>3, <1>4, <2>2 DEF StepOf, PutStep
    <3>2. disk'[i] = IF Step.do = "keep" /\ disk[i] # "none" THEN disk[i] ELSE v
      BY <1>3, <2>1, <2>2
    <3> QED  BY <3>1, <3>2
  <2>3. CASE j # i
    <3>1. disk'[i] = disk[i] /\ Step.at # {i}
      BY <1>3, <2>1, <2>3
    <3> QED  BY <3>1 DEF Gets
  <2> QED  BY <2>2, <2>3
<1>5. CASE FetchStep
  <2>1. PICK j \in Step.at :
          IF disk[j] = "none"
          THEN /\ disk' = [disk EXCEPT ![j] = "partial"]
               /\ script' = <<PutOneOf(Step.at, Step.val)>> \o Tail(script)
          ELSE UNCHANGED disk
    BY <1>5 DEF FetchStep
  <2>2. Step.do = "fetch" /\ Step.at = {j}
    BY <1>2, <1>5, <2>1 DEF FetchStep, StepOf
  <2>3. CASE disk[j] = "none"
    <3>1. Refetches
      BY <1>1, <2>1, <2>2, <2>3, FetchRefetches
    <3>2. \A k \in Item : disk'[k] = IF k = j THEN "partial" ELSE disk[k]
      BY <2>1, <2>3
    <3> QED  BY <1>3, <2>2, <3>1, <3>2 DEF Gets
  <2>4. CASE disk[j] # "none"
    <3>1. UNCHANGED disk
      BY <2>1, <2>4
    <3> QED  BY <2>2, <2>4, <3>1 DEF Gets
  <2> QED  BY <2>3, <2>4
<1>6. CASE CloneStep
  <2>1. PICK j \in Step.at : disk' = [disk EXCEPT ![j] = branch]
    BY <1>6 DEF CloneStep
  <2>2. i \in UsedWhole \cup {<<"cri-docker", "binary">>} => j # i
    BY <1>2, <1>6 DEF CloneStep, StepOf
  <2>3. branch # "none" /\ branch # "partial" /\ Step.do = "clone"
    BY <1>6, BuildAssumption DEF CloneStep
  <2>4. disk'[i] = IF j = i THEN branch ELSE disk[i]
    BY <1>3, <2>1
  <2> QED  BY <2>2, <2>3, <2>4 DEF Gets
<1>7. CASE ~PutStep /\ ~FetchStep /\ ~CloneStep
  <2>1. Step.do \notin {"put", "keep", "fetch", "clone"}
    BY <1>7 DEF Effect, PutStep, FetchStep, CloneStep, CopyStep, PackageStep, ConfigStep, DaemonStep,
                StopStep, CheckStep, InitStep
  <2>2. Step.do \in {"copy", "package"} => i \notin Step.at
    BY <1>2, <1>3 DEF StepOf, Downloads
  <2>3. disk'[i] = disk[i]
    BY <1>3, <2>1, <2>2, OnDisk
  <2> QED  BY <2>1, <2>3 DEF Gets
<1> QED  BY <1>4, <1>5, <1>6, <1>7

LEMMA BroughtOn ==
  ASSUME BaseInv, PartsKnown, RunningScript, Effect
  PROVE  Brought(script', There')
<1> USE DEF BaseInv
<1>1. Sequence(script) /\ Len(script) \in Nat \ {0} /\ Step = script[1]
  BY RunningLine
<1>2. Moves \/ Refetches
  BY EffectMoves
<1>3. Sequence(script') /\ Len(script') \in Nat
  BY <1>1, <1>2, SequenceFacts DEF Moves, Refetches
<1>4. UsedWhole \subseteq Downloads /\ UsedWhole \subseteq Item
  BY DEF UsedWhole, Downloads, Item
<1>5. ASSUME NEW i \in UsedWhole, i \in There \/ Gets(Step, i) PROVE i \in There'
  BY <1>4, <1>5, DownloadLine DEF There
<1>6. ASSUME NEW k \in 1..Len(script'), script'[k].do = "whole"
      PROVE  \E i \in UsedWhole :
               script'[k].at = {i} /\ (i \in There' \/ \E j \in 1..(k - 1) : Gets(script'[j], i))
  <2>1. CASE Moves
    <3>1. script'[k] = script[k + 1] /\ k + 1 \in 1..Len(script)
      BY <1>1, <1>3, <2>1 DEF Moves
    <3>2. PICK i \in UsedWhole : /\ script[k + 1].at = {i}
                                 /\ i \in There \/ \E j \in 1..((k + 1) - 1) : Gets(script[j], i)
      BY <1>6, <3>1 DEF PartsKnown, Brought
    <3>3. CASE i \in There \/ Gets(Step, i)
      BY <1>5, <3>1, <3>2, <3>3
    <3>4. CASE ~(i \in There \/ Gets(Step, i))
      <4>1. PICK j \in 1..k : Gets(script[j], i)
        BY <3>2, <3>4
      <4>2. j # 1
        BY <1>1, <3>4, <4>1
      <4>3. j - 1 \in 1..(k - 1) /\ j - 1 \in 1..Len(script') /\ (j - 1) + 1 = j
        BY <1>3, <4>2
      <4>4. script'[j - 1] = script[j]
        BY <2>1, <4>3 DEF Moves
      <4> QED  BY <3>1, <3>2, <4>1, <4>3, <4>4
    <3> QED  BY <3>3, <3>4
  <2>2. CASE Refetches
    <3>1. k \in 2..Len(script)
      BY <1>1, <1>3, <1>6, <2>2 DEF Refetches, PutOneOf
    <3>2. script'[k] = script[k] /\ k \in 1..Len(script)
      BY <1>1, <2>2, <3>1 DEF Refetches
    <3>3. PICK i \in UsedWhole : script[k].at = {i} /\ (i \in There \/ \E j \in 1..(k - 1) : Gets(script[j], i))
      BY <1>6, <3>2 DEF PartsKnown, Brought
    <3>4. CASE i \in There
      BY <1>5, <3>2, <3>3, <3>4
    <3>5. ASSUME NEW j \in 1..(k - 1), Gets(script[j], i) PROVE Gets(script'[j], i)
      <4>1. CASE j = 1
        BY <1>1, <2>2, <3>5, <4>1 DEF Gets, Refetches, PutOneOf
      <4>2. CASE j # 1
        <5>1. j \in 2..Len(script)
          BY <1>1, <3>1, <4>2
        <5> QED  BY <2>2, <3>5, <5>1 DEF Refetches
      <4> QED  BY <4>1, <4>2
    <3> QED  BY <3>2, <3>3, <3>4, <3>5
  <2> QED  BY <1>2, <2>1, <2>2
<1> QED  BY <1>3, <1>6 DEF Brought

LEMMA PartsKnownStep ==
  ASSUME BaseInv, BaseInv', PartsKnown, Quiet => Calm, [Next]_vars, Quiet'
  PROVE  PartsKnown'
<1> USE DEF BaseInv
<1> DEFINE binary == <<"cri-docker", "binary">>
<1>0. /\ UsedWhole \subseteq Downloads /\ Downloads \subseteq Item /\ binary \in Downloads
      /\ <<"kube", "config">> \in Item \ Downloads
  BY DEF UsedWhole, Downloads, Item
<1>1. \/ StartRun \/ BeginScript \/ ScriptStep \/ ScriptEnds \/ Update \/ Ends
      \/ UNCHANGED vars
  BY QuietSteps
<1>2. ASSUME \A i \in Downloads : disk'[i] = disk[i], Brought(script', There'),
             (\E i \in Downloads : disk[i] = "partial") => UNCHANGED script
      PROVE  PartsKnown'
  BY <1>0, <1>2 DEF PartsKnown
<1>3. ASSUME UNCHANGED <<disk, script>> PROVE PartsKnown'
  BY <1>3 DEF PartsKnown, There, Brought
<1>4. CASE UNCHANGED vars \/ Update \/ ScriptEnds
  <2>1. UNCHANGED <<disk, script>>
    BY <1>4 DEF vars, Update, ScriptEnds, node
  <2> QED  BY <2>1, <1>3
<1>5. CASE StartRun
  <2>1. script' = << >>
    BY <1>5 DEF StartRun, Types
  <2>2. \A i \in Downloads : disk'[i] = disk[i]
    BY <1>0, <1>5 DEF StartRun, NodeTypes
  <2> QED  BY <1>2, <1>5, <2>1, <2>2, BroughtFew DEF StartRun
<1>6. CASE BeginScript
  <2>1. script = << >> /\ UNCHANGED disk
    BY <1>6 DEF BeginScript, Types, node
  <2>2. ~\E i \in Downloads : disk[i] = "partial"
    BY <2>1, EmptySeq DEF PartsKnown
  <2>3. Brought(script', There')
    BY <1>6, BroughtAtOnce
  <2> QED  BY <1>2, <2>1, <2>2, <2>3
<1>7. CASE Ends
  <2>1. script' = << >> /\ UNCHANGED disk
    BY <1>7 DEF Ends, RefuseRun, TemplateFails, ScriptFails, Finish, EndRun, node
  <2>2. script = << >> \/ (Blocked /\ RunningScript)
    BY <1>7 DEF Ends, RefuseRun, TemplateFails, ScriptFails, Finish, Types
  <2>3. Blocked /\ RunningScript => Len(script) # 0 /\ script[1].do # "put"
    BY RunningLine DEF Blocked
  <2>4. ~\E i \in Downloads : disk[i] = "partial"
    BY <2>2, <2>3, EmptySeq DEF PartsKnown
  <2> QED  BY <1>2, <2>1, <2>4, BroughtFew
<1>8. CASE ScriptStep
  <2>1. RunningScript /\ Effect
    BY <1>8 DEF ScriptStep
  <2>2. Sequence(script) /\ Len(script) \in Nat \ {0} /\ Step = script[1]
    BY <2>1, RunningLine
  <2>3. Brought(script', There')
    BY <2>1, BroughtOn
  <2>4. ASSUME NEW i \in Downloads
        PROVE  /\ disk'[i] = "partial" =>
                    \/ disk[i] = "partial" /\ ~(Step.do = "put" /\ Step.at = {i})
                    \/ Refetches /\ Step.at = {i}
               /\ i \in UsedWhole => disk'[i] \in {disk[i], "partial", "whole"}
               /\ i = binary => disk'[i] \in {disk[i], "partial", "binary"}
    BY <2>1, DownloadLine
  <2>5. ASSUME NEW i \in Downloads, disk'[i] = "partial"
        PROVE  Len(script') # 0 /\ script'[1].do = "put" /\ script'[1].at = {i}
    <3>1. Refetches /\ Step.at = {i}
      BY <2>2, <2>4, <2>5 DEF PartsKnown
    <3> QED  BY <2>2, <3>1 DEF Refetches, PutOneOf
  <2>6. disk'[binary] \in {"none", "partial", "binary"}
    BY <1>0, <2>4 DEF PartsKnown
  <2>7. \A i \in UsedWhole : disk'[i] \in {"none", "partial", "whole"}
    BY <1>0, <2>4 DEF PartsKnown
  <2> QED  BY <2>3, <2>5, <2>6, <2>7 DEF PartsKnown
<1> QED  BY <1>1, <1>4, <1>5, <1>6, <1>7, <1>8

LEMMA PartsKnownInit ==
  ASSUME Init
  PROVE  PartsKnown
<1>1. \A i \in Item : i[1] \notin {"kernel", "jq"} => disk[i] = "none"
  BY DEF Init, NodeInit
<1>2. \A i \in Downloads : i \in Item /\ i[1] \notin {"kernel", "jq"}
  BY DEF Downloads, Item
<1>3. UsedWhole \subseteq Downloads /\ <<"cri-docker", "binary">> \in Downloads
  BY DEF UsedWhole, Downloads, Item
<1>4. Brought(script, There)
  BY BroughtFew DEF Init
<1> QED  BY <1>1, <1>2, <1>3, <1>4 DEF PartsKnown

\* What is used as it was downloaded is whole.
LEMMA WholeCarries ==
  ASSUME BaseInv, PartsKnown, RunningScript, Step.do = "whole"
  PROVE  ~Blocked
<1>1. Len(script) \in Nat \ {0} /\ Step = script[1]
  BY RunningLine DEF BaseInv
<1>2. PICK i \in UsedWhole : Step.at = {i} /\ i \in There
  BY <1>1 DEF PartsKnown, Brought
<1>3. i \in Downloads
  BY DEF UsedWhole, Downloads, Item
<1>4. disk[i] = "whole"
  BY <1>1, <1>2, <1>3 DEF PartsKnown, There
<1> QED  BY <1>2, <1>4 DEF Blocked

\* A line that downloads goes on only if what it downloads is there and whole.
LEMMA FetchPasses ==
  ASSUME BaseInv, PartsKnown, RunningScript, Effect, Step.do = "fetch"
  PROVE  /\ UNCHANGED <<config, proc>>
         /\ \A j \in Item \ Step.at : disk'[j] = disk[j]
         /\ Moves => UNCHANGED disk /\ \A i \in Step.at : disk[i] \notin {"none", "partial"}
<1> USE DEF BaseInv, NodeTypes
<1>1. Sequence(script) /\ Len(script) \in Nat \ {0} /\ Step = script[1]
  BY RunningLine
<1>2. PICK c \in Part : At(c) /\ StepOf(c, Step)
  BY RunningLine
<1>3. FetchStep
  BY DEF Effect, PutStep, CloneStep, CopyStep, PackageStep, ConfigStep, DaemonStep, StopStep,
         CheckStep, InitStep
<1>4. PICK i \in Step.at :
        IF disk[i] = "none"
        THEN /\ disk' = [disk EXCEPT ![i] = "partial"]
             /\ script' = <<PutOneOf(Step.at, Step.val)>> \o Tail(script)
        ELSE UNCHANGED disk
  BY <1>3 DEF FetchStep
<1>5. Step.at = {i} /\ i \in Downloads /\ i \in Item
  BY <1>2, <1>4 DEF StepOf, Downloads, Item
<1>6. ASSUME Moves PROVE UNCHANGED disk /\ disk[i] \notin {"none", "partial"}
  <2>1. disk[i] # "none"
    <3> SUFFICES ASSUME disk[i] = "none" PROVE FALSE
      OBVIOUS
    <3>1. Refetches
      BY <1>1, <1>4, FetchRefetches
    <3> QED  BY <1>1, <1>6, <3>1 DEF Moves, Refetches
  <2> QED  BY <1>1, <1>4, <1>5, <2>1 DEF PartsKnown
<1> QED  BY <1>3, <1>4, <1>5, <1>6 DEF FetchStep

LEMMA ThreeJoined ==
  ASSUME NEW s, NEW t, NEW u, Sequence(s), Sequence(t), Sequence(u)
  PROVE  (s \o t) \o u = s \o (t \o u)
<1> PICK S : s \in Seq(S)
  BY DEF Sequence
<1> PICK T : t \in Seq(T)
  BY DEF Sequence
<1> PICK U : u \in Seq(U)
  BY DEF Sequence
<1> DEFINE V == S \cup T \cup U
<1>1. s \in Seq(V) /\ t \in Seq(V) /\ u \in Seq(V)
  BY SeqMonotonic
<1> HIDE DEF V
<1> QED  BY <1>1, ConcatAssociative

-----------------------------------------------------------------------------
(* The runtime in such runs                                                *)

\* The line puts something where the program c is looked for; it starts the runtime.
Fills(x, c) ==
  /\ x.do \in {"put", "clone", "package"} /\ "none" \notin x.val
  /\ x.at \subseteq {<<c, "package">>, <<c, "local">>}
StartsOwn(x) == x.do \in {"restart", "start"} /\ x.at = {OwnRuntime}
\* The line cannot be blocked, as every download it uses is whole.
Carries(x) ==
  x.do \in {"put", "clone", "package", "keep", "fetch", "whole", "overwrite", "add"}

\* Only this script brings a unit for cri-dockerd, and starts it.
DockerPackaged == OwnRuntime = "docker" /\ doc.runtime[2] = "package"

GetsBinary == {Fetch("cri-docker", "binary", "binary"), Put("cri-docker", "binary", "binary")}

\* The lines that may be blocked find what they need, or come after one that
\* brings it.
RuntimeSupplied(s) ==
  LET n == Len(s) IN
  /\ \A i \in 1..n :
       /\ \/ Carries(s[i])
          \/ StartsOwn(s[i])
          \/ s[i] = Need(OwnRuntime)
          \/ (s[i] = Start("cri-docker") /\ DockerPackaged /\ i = n - 1)
       /\ s[i] = Need(OwnRuntime) => Up(OwnRuntime) \/ \E j \in 1..(i - 1) : StartsOwn(s[j])
       /\ StartsOwn(s[i]) => Binary(OwnRuntime) # "none" \/ \E j \in 1..(i - 1) : Fills(s[j], OwnRuntime)
  /\ DockerPackaged =>
       /\ n >= 1 => s[n] = Need("docker")
       /\ n >= 2 => s[n - 1] = Start("cri-docker")
       /\ n >= 3 => s[n - 2] = Keep("cri-docker", "unit", "unit")
       /\ n >= 4 => s[n - 3] \in GetsBinary
       /\ n <= 3 => disk[<<"cri-docker", "binary">>] = "binary"
       /\ n <= 2 => disk[<<"cri-docker", "unit">>] # "none"
       /\ n <= 1 => Up("cri-docker")

\* What the lines are.
LEMMA LineKinds ==
  /\ \A c, p, v : Carries(Put(c, p, v)) /\ Carries(Keep(c, p, v)) /\ Carries(Fetch(c, p, v))
  /\ \A c, p : Carries(Whole(c, p))
  /\ \A c, v : Carries(Package(c, v)) /\ Carries(Overwrite(c, v)) /\ Carries(Add(c, v)) /\ Carries(Clone(c))
  /\ StartsOwn(Restart(OwnRuntime)) /\ StartsOwn(Start(OwnRuntime))
  /\ \A x, c : Carries(x) \/ StartsOwn(x) => x # Need(c)
  /\ \A x : Carries(x) => ~StartsOwn(x)
  /\ \A c, d : ~StartsOwn(Need(c)) /\ (d # OwnRuntime => ~StartsOwn(Start(d)))
  /\ \A c, p, v : p \in {"package", "local"} /\ v # "none" => Fills(Put(c, p, v), c)
  /\ \A c, v : "none" \notin v => Fills(Package(c, v), c)
  /\ \A c : Fills(Clone({<<c, "local">>}), c)
  /\ \A c, d : Start(c) # Need(d)
BY DEF Carries, StartsOwn, Fills, Put, PutOneOf, Keep, Fetch, Whole, Package, Overwrite, Add, Clone,
       Restart, Start, Need

\* Lines of which one starts the runtime, before anything asks for it.
LEMMA SuppliedByStart ==
  ASSUME NEW s, ~DockerPackaged, Len(s) \in Nat, NEW k \in 1..Len(s),
         \A i \in 1..Len(s) : Carries(s[i]) \/ StartsOwn(s[i]) \/ s[i] = Need(OwnRuntime),
         \A i \in 1..k : Carries(s[i]) \/ StartsOwn(s[i]),
         Up(OwnRuntime) \/ StartsOwn(s[k]),
         Binary(OwnRuntime) # "none" \/ (Fills(s[1], OwnRuntime) /\ Carries(s[1]))
  PROVE  RuntimeSupplied(s)
<1>1. ASSUME NEW i \in 1..Len(s), s[i] = Need(OwnRuntime), ~Up(OwnRuntime)
      PROVE  \E j \in 1..(i - 1) : StartsOwn(s[j])
  <2>1. i \notin 1..k
    BY <1>1, LineKinds
  <2>2. k \in 1..(i - 1)
    BY <2>1
  <2> QED  BY <1>1, <2>2
<1>2. ASSUME NEW i \in 1..Len(s), StartsOwn(s[i]), Binary(OwnRuntime) = "none"
      PROVE  \E j \in 1..(i - 1) : Fills(s[j], OwnRuntime)
  <2>1. i # 1
    BY <1>2, LineKinds
  <2>2. 1 \in 1..(i - 1)
    BY <2>1
  <2> QED  BY <1>2, <2>2
<1> QED  BY <1>1, <1>2 DEF RuntimeSupplied

\* The same with the lines that start cri-dockerd.
LEMMA SuppliedWithUnit ==
  ASSUME NEW s, Len(s) \in Nat, Len(s) >= 4,
         \A i \in 1..Len(s) : \/ Carries(s[i])
                        \/ StartsOwn(s[i])
                        \/ s[i] = Need(OwnRuntime)
                        \/ (s[i] = Start("cri-docker") /\ DockerPackaged /\ i = Len(s) - 1),
         \A i \in 1..Len(s) : s[i] = Need(OwnRuntime) => (Up(OwnRuntime) \/ \E j \in 1..(i - 1) : StartsOwn(s[j])),
         Binary(OwnRuntime) # "none" \/ (Fills(s[1], OwnRuntime) /\ Carries(s[1])),
         s[Len(s)] = Need("docker"), s[Len(s) - 1] = Start("cri-docker"),
         s[Len(s) - 2] = Keep("cri-docker", "unit", "unit"), s[Len(s) - 3] \in GetsBinary
  PROVE  RuntimeSupplied(s)
<1>1. Len(s) # 0 /\ ~(Len(s) <= 3) /\ ~(Len(s) <= 2) /\ ~(Len(s) <= 1)
  OBVIOUS
<1>2. ASSUME NEW i \in 1..Len(s), StartsOwn(s[i]), Binary(OwnRuntime) = "none"
      PROVE  \E j \in 1..(i - 1) : Fills(s[j], OwnRuntime)
  <2>1. i # 1
    BY <1>2, LineKinds
  <2>2. 1 \in 1..(i - 1)
    BY <2>1
  <2> QED  BY <1>2, <2>2
<1> QED  BY <1>1, <1>2 DEF RuntimeSupplied

\* What is downloaded first does not change that.
LEMMA SuppliedFetched ==
  ASSUME NEW c, NEW t, Sequence(t), RuntimeSupplied(t), DockerPackaged => Len(t) >= 4
  PROVE  RuntimeSupplied(Fetched(c) \o t)
<1> DEFINE s == Fetched(c) \o t  m == Len(t)
<1>1. /\ Sequence(s) /\ m \in Nat /\ Len(s) = 2 + m /\ s[1] = Fetch(c, "fetched", "whole")
      /\ s[2] = Whole(c, "fetched")
      /\ \A i \in 1..m : s[2 + i] = t[i]
  <2>1. Sequence(t)
    OBVIOUS
  <2> QED  BY <2>1, AfterFetched
<1> HIDE DEF s
<1>2. Carries(s[1]) /\ Carries(s[2])
  BY <1>1, LineKinds
<1>3. ASSUME NEW i \in 1..Len(s), i # 1, i # 2
      PROVE  i - 2 \in 1..m /\ s[i] = t[i - 2]
  <2>1. i - 2 \in 1..m /\ 2 + (i - 2) = i
    BY <1>1, <1>3
  <2>2. s[2 + (i - 2)] = t[i - 2]
    BY <1>1, <2>1
  <2> QED  BY <2>1, <2>2
<1>4. ASSUME NEW i \in 1..Len(s)
      PROVE  /\ \/ Carries(s[i])
                \/ StartsOwn(s[i])
                \/ s[i] = Need(OwnRuntime)
                \/ (s[i] = Start("cri-docker") /\ DockerPackaged /\ i = Len(s) - 1)
             /\ s[i] = Need(OwnRuntime) => Up(OwnRuntime) \/ \E j \in 1..(i - 1) : StartsOwn(s[j])
             /\ StartsOwn(s[i]) => Binary(OwnRuntime) # "none" \/ \E j \in 1..(i - 1) : Fills(s[j], OwnRuntime)
  <2>1. CASE i = 1 \/ i = 2
    BY <1>2, <2>1, LineKinds
  <2>2. CASE i # 1 /\ i # 2
    <3> DEFINE k == i - 2
    <3>1. k \in 1..m /\ s[i] = t[k] /\ k \in Nat
      BY <1>1, <1>3, <2>2
    <3>2. /\ \/ Carries(t[k])
             \/ StartsOwn(t[k])
             \/ t[k] = Need(OwnRuntime)
             \/ (t[k] = Start("cri-docker") /\ DockerPackaged /\ k = m - 1)
          /\ t[k] = Need(OwnRuntime) => Up(OwnRuntime) \/ \E j \in 1..(k - 1) : StartsOwn(t[j])
          /\ StartsOwn(t[k]) => Binary(OwnRuntime) # "none" \/ \E j \in 1..(k - 1) : Fills(t[j], OwnRuntime)
      BY <3>1 DEF RuntimeSupplied
    <3>3. k = m - 1 => i = Len(s) - 1
      BY <1>1, <3>1
    <3>4. ASSUME NEW j \in 1..(k - 1) PROVE 2 + j \in 1..(i - 1) /\ s[2 + j] = t[j]
      BY <1>1, <3>1
    <3> HIDE DEF k
    <3> QED  BY <3>1, <3>2, <3>3, <3>4
  <2> QED  BY <2>1, <2>2
<1>5. ASSUME DockerPackaged
      PROVE  /\ s[Len(s)] = Need("docker") /\ s[Len(s) - 1] = Start("cri-docker")
             /\ s[Len(s) - 2] = Keep("cri-docker", "unit", "unit") /\ s[Len(s) - 3] \in GetsBinary
             /\ Len(s) \in Nat /\ ~(Len(s) <= 3) /\ ~(Len(s) <= 2) /\ ~(Len(s) <= 1)
  <2>1. /\ t[m] = Need("docker") /\ t[m - 1] = Start("cri-docker")
        /\ t[m - 2] = Keep("cri-docker", "unit", "unit") /\ t[m - 3] \in GetsBinary
    BY <1>1, <1>5 DEF RuntimeSupplied
  <2>2. /\ Len(s) = 2 + m /\ Len(s) - 1 = 2 + (m - 1) /\ Len(s) - 2 = 2 + (m - 2)
        /\ Len(s) - 3 = 2 + (m - 3)
        /\ m \in 1..m /\ m - 1 \in 1..m /\ m - 2 \in 1..m /\ m - 3 \in 1..m
    BY <1>1, <1>5
  <2>3. /\ s[2 + m] = t[m] /\ s[2 + (m - 1)] = t[m - 1] /\ s[2 + (m - 2)] = t[m - 2]
        /\ s[2 + (m - 3)] = t[m - 3]
    BY <1>1, <2>2
  <2> QED  BY <1>1, <1>5, <2>1, <2>2, <2>3
<1>6. RuntimeSupplied(s)
  BY <1>4, <1>5 DEF RuntimeSupplied
<1> QED  BY <1>6 DEF s

\* The script that is chosen for the runtime has its lines in such an order.
LEMMA RuntimeSuppliedAtOnce ==
  ASSUME BaseInv, RunningInv, BeginScript, Head(todo) = Install("runtime"), Expected("runtime")
  PROVE  RuntimeSupplied(script')
<1> DEFINE v == doc.runtime[3]  r == OwnRuntime
<1>1. /\ script' = ScriptOf(<<"install", "runtime">>) /\ ~TemplateRefuses(<<"install", "runtime">>)
      /\ doc \in Document /\ Asked(doc.runtime)
  BY DEF BeginScript, Install, BaseInv, Types, Expected
<1>2. /\ doc.runtime[2] \in {"package", "git", "latest"} /\ r \in Runtime
      /\ doc.runtime[2] = "latest" => r = "containerd"
      /\ doc.runtime[2] = "package" => v \in Version
      /\ doc.runtime[2] = "git" => v \in Commit
      /\ branch \in Commit /\ "none" \notin Version /\ "none" \notin Commit
      /\ Newest \in Version
  BY <1>1, DocumentShape, BuildAssumption DEF OwnRuntime, Asked, TemplateRefuses, BaseInv, NodeTypes
<1>3. Up(r) => Binary(r) # "none"
  BY <1>2, UpServes DEF Serves
<1>4. CASE r = "containerd"
  <2>1. script' = ContainerdScript(doc.runtime[2], v) /\ ~DockerPackaged
    BY <1>1, <1>4 DEF ScriptOf, OwnRuntime, DockerPackaged
  <2>2. CASE script' = << >>
    BY <2>1, <2>2 DEF RuntimeSupplied
  <2>3. ASSUME NEW t, NEW x, NEW y, NEW z, NEW u,
               t = <<x, y, z, u>> \/ \E w : Carries(w) /\ t = <<x, y, z, u, w>>,
               Carries(x), Fills(x, r), Carries(y), StartsOwn(z), u = Need(r)
        PROVE  RuntimeSupplied(Fetched("containerd") \o t)
    <3>1. /\ Len(t) \in {4, 5} /\ t[1] = x /\ t[2] = y /\ t[3] = z /\ t[4] = u
          /\ Len(t) = 5 => Carries(t[5])
      BY <2>3
    <3>2. \A i \in 1..Len(t) : i \in {1, 2, 3, 4} \/ (i = 5 /\ Len(t) = 5)
      <4>1. CASE Len(t) = 4
        BY <4>1
      <4>2. CASE Len(t) = 5
        BY <4>2
      <4> QED  BY <3>1, <4>1, <4>2
    <3>3. 3 \in 1..Len(t) /\ (\A i \in 1..3 : i \in {1, 2, 3})
      BY <3>1
    <3>4. Sequence(t)
      BY <2>3, Literals
    <3>5. RuntimeSupplied(t)
      BY <2>1, <2>3, <3>1, <3>2, <3>3, SuppliedByStart
    <3> QED  BY <2>1, <3>4, <3>5, SuppliedFetched
  <2>4. CASE script' = ContainerdPackage(v) /\ doc.runtime[2] = "package"
    <3>1. "none" \notin OrNewest(v)
      BY <1>2, <1>4, <2>4 DEF OrNewest
    <3> QED  BY <1>4, <2>3, <2>4, <3>1, LineKinds DEF ContainerdPackage
  <2>5. CASE script' = ContainerdGit(v) /\ doc.runtime[2] = "git"
    <3>1. v # "none"
      BY <1>2, <2>5
    <3> QED  BY <1>4, <2>3, <2>5, <3>1, LineKinds DEF ContainerdGit
  <2>6. CASE script' = ContainerdLatest(branch)
    BY <1>4, <2>3, <2>6, LineKinds DEF ContainerdLatest
  <2> QED  BY <1>2, <2>1, <2>2, <2>4, <2>5, <2>6 DEF ContainerdScript
<1>5. CASE r = "crio"
  <2>1. script' = CrioScript(doc.runtime[2], v) /\ ~DockerPackaged
    BY <1>1, <1>5 DEF ScriptOf, OwnRuntime, DockerPackaged
  <2>2. CASE script' = << >>
    BY <2>1, <2>2 DEF RuntimeSupplied
  <2>3. CASE script' = CrioPackage(v) /\ doc.runtime[2] = "package"
    <3> DEFINE t == << Package("crio", OrNewest(v)), Start("crio"), Need("crio") >>
    <3>1. /\ Len(t) = 3 /\ t[1] = Package("crio", OrNewest(v))
          /\ t[2] = Start("crio") /\ t[3] = Need("crio") /\ Sequence(t)
      BY Literals
    <3>2. "none" \notin OrNewest(v)
      BY <1>2, <2>3 DEF OrNewest
    <3>3. (\A i \in 1..3 : i \in {1, 2, 3}) /\ (\A i \in 1..2 : i \in {1, 2}) /\ 2 \in 1..3
      OBVIOUS
    <3>4. script' = Fetched("crio") \o t
      BY <2>3 DEF CrioPackage
    <3> HIDE DEF t
    <3>5. RuntimeSupplied(t)
      BY <1>5, <2>1, <3>1, <3>2, <3>3, SuppliedByStart, LineKinds
    <3> QED  BY <2>1, <3>1, <3>4, <3>5, SuppliedFetched
  <2>4. CASE script' = CrioGit(v) /\ doc.runtime[2] = "git"
    <3> DEFINE t == << Put("crio", "local", v), Add("crio", {"cri"}), Start("crio"), Need("crio"),
                       Put("crio", "provenance", v) >>
    <3>1. /\ Len(t) = 5 /\ t[1] = Put("crio", "local", v) /\ t[2] = Add("crio", {"cri"})
          /\ t[3] = Start("crio") /\ t[4] = Need("crio")
          /\ t[5] = Put("crio", "provenance", v) /\ Sequence(t)
      BY Literals
    <3>2. (\A i \in 1..5 : i \in {1, 2, 3, 4, 5}) /\ (\A i \in 1..3 : i \in {1, 2, 3}) /\ 3 \in 1..5
      OBVIOUS
    <3>3. v # "none"
      BY <1>2, <2>4
    <3>4. script' = Fetched("crio") \o t
      BY <2>4 DEF CrioGit
    <3> HIDE DEF t
    <3>5. RuntimeSupplied(t)
      BY <1>5, <2>1, <3>1, <3>2, <3>3, SuppliedByStart, LineKinds
    <3> QED  BY <2>1, <3>1, <3>4, <3>5, SuppliedFetched
  <2> QED  BY <1>2, <1>5, <2>1, <2>2, <2>3, <2>4 DEF CrioScript
<1>6. CASE r = "docker" /\ doc.runtime[2] = "package"
  <2>1. DockerPackaged /\ script' = DockerScript("package", v)
    BY <1>1, <1>6 DEF ScriptOf, OwnRuntime, DockerPackaged
  <2> DEFINE p == << Package("docker", {v}), Add("docker", {"cri"}), Restart("docker"), Need("docker") >>
  <2>2. /\ Sequence(p) /\ Len(p) = 4 /\ p[1] = Package("docker", {v})
        /\ p[2] = Add("docker", {"cri"}) /\ p[3] = Restart("docker") /\ p[4] = Need("docker")
    BY Literals
  <2> DEFINE t == CriDockerd
  <2>3. /\ Sequence(t) /\ Len(t) = 4 /\ t[1] = Fetch("cri-docker", "binary", "binary")
        /\ t[2] = Keep("cri-docker", "unit", "unit") /\ t[3] = Start("cri-docker") /\ t[4] = Need("docker")
    BY Literals DEF CriDockerd
  <2>4. CASE DockerPackageSkips(v)
    <3>1. script' = t
      <4>1. script' = << >> \o t
        BY <2>1, <2>4 DEF DockerScript
      <4> QED  BY <2>3, <4>1 DEF Sequence
    <3>2. Up("docker")
      BY <1>2, <1>6, <2>4 DEF DockerPackageSkips, Up, Off
    <3> HIDE DEF t
    <3>3. \A i \in 1..4 : i \in {1, 2, 3, 4}
      OBVIOUS
    <3>4. \A i \in 1..4 : \/ Carries(script'[i])
                            \/ script'[i] = Need(r)
                            \/ (script'[i] = Start("cri-docker") /\ i = 4 - 1)
      <4>1. Carries(script'[1]) /\ Carries(script'[2]) /\ script'[3] = Start("cri-docker") /\ script'[4] = Need(r)
        BY <1>6, <2>3, <3>1, LineKinds
      <4>2. 4 - 1 = 3
        OBVIOUS
      <4> HIDE DEF r
      <4> QED  BY <3>3, <4>1, <4>2
    <3>5. Len(script') = 4 /\ script'[4] = Need("docker") /\ script'[4 - 1] = Start("cri-docker")
          /\ script'[4 - 2] = Keep("cri-docker", "unit", "unit") /\ script'[4 - 3] \in GetsBinary
          /\ Up(OwnRuntime) /\ Binary(OwnRuntime) # "none"
      BY <1>3, <1>6, <2>3, <3>1, <3>2 DEF GetsBinary
    <3> HIDE DEF r
    <3> DEFINE n == Len(script')
    <3>6. /\ n \in Nat /\ n >= 4 /\ script'[n] = Need("docker") /\ script'[n - 1] = Start("cri-docker")
          /\ script'[n - 2] = Keep("cri-docker", "unit", "unit") /\ script'[n - 3] \in GetsBinary
      BY <3>5
    <3>7. \A i \in 1..n : \/ Carries(script'[i])
                          \/ StartsOwn(script'[i])
                          \/ script'[i] = Need(OwnRuntime)
                          \/ (script'[i] = Start("cri-docker") /\ DockerPackaged /\ i = n - 1)
      BY <2>1, <3>4, <3>5 DEF r
    <3> QED  BY <3>5, <3>6, <3>7, SuppliedWithUnit
  <2>5. CASE ~DockerPackageSkips(v)
    <3> DEFINE u == p \o t
    <3>1. script' = Fetched("docker") \o u
      <4>1. script' = (Fetched("docker") \o p) \o t
        BY <2>1, <2>5 DEF DockerScript, DockerPackage
      <4>2. Sequence(Fetched("docker")) /\ Sequence(p) /\ Sequence(t)
        BY <2>2, <2>3, Literals DEF Fetched
      <4> HIDE DEF p, t
      <4> QED  BY <4>1, <4>2, ThreeJoined
    <3> HIDE DEF p, t
    <3>2. /\ Sequence(u) /\ Len(u) = 8 /\ \A i \in 1..4 : u[i] = p[i] /\ u[4 + i] = t[i]
      <4>1. /\ Sequence(u) /\ Len(u) = Len(p) + Len(t) /\ \A i \in 1..Len(p) : u[i] = p[i]
            /\ \A i \in 1..Len(t) : u[Len(p) + i] = t[i]
        <5>1. Sequence(p) /\ Sequence(t)
          BY <2>2, <2>3
        <5> QED  BY <5>1, Joined
      <4> QED  BY <2>2, <2>3, <4>1
    <3> HIDE DEF u
    <3>3. /\ u[1] = p[1] /\ u[2] = p[2] /\ u[3] = p[3] /\ u[4] = p[4]
          /\ u[5] = t[1] /\ u[6] = t[2] /\ u[7] = t[3] /\ u[8] = t[4]
      <4>1. u[4 + 1] = t[1] /\ u[4 + 2] = t[2] /\ u[4 + 3] = t[3] /\ u[4 + 4] = t[4]
        BY <3>2
      <4> QED  BY <3>2, <4>1
    <3>4. /\ Fills(p[1], r) /\ Carries(p[1]) /\ Carries(p[2]) /\ StartsOwn(p[3]) /\ p[4] = Need(r)
          /\ Carries(t[1]) /\ Carries(t[2]) /\ t[4] = Need(r)
      BY <1>2, <1>6, <2>2, <2>3, LineKinds
    <3>5. \A i \in 1..8 : i \in {1, 2, 3, 4, 5, 6, 7, 8}
      OBVIOUS
    <3>6. \A i \in 1..8 : u[i] = Need(r) => 3 \in 1..(i - 1)
      BY <3>3, <3>4, <3>5, LineKinds
    <3>7. \A i \in 1..8 : \/ Carries(u[i])
                            \/ StartsOwn(u[i])
                            \/ u[i] = Need(r)
                            \/ (u[i] = Start("cri-docker") /\ i = 8 - 1)
      <4>1. /\ Carries(u[1]) /\ Carries(u[2]) /\ StartsOwn(u[3]) /\ u[4] = Need(r)
            /\ Carries(u[5]) /\ Carries(u[6]) /\ u[7] = Start("cri-docker") /\ u[8] = Need(r)
        BY <2>3, <3>3, <3>4
      <4>2. 8 - 1 = 7
        OBVIOUS
      <4> HIDE DEF r
      <4> QED  BY <3>5, <4>1, <4>2
    <3>8. Len(u) = 8 /\ u[8] = Need("docker") /\ u[8 - 1] = Start("cri-docker")
          /\ u[8 - 2] = Keep("cri-docker", "unit", "unit") /\ u[8 - 3] \in GetsBinary /\ StartsOwn(u[3])
          /\ Fills(u[1], r) /\ Carries(u[1])
      BY <1>6, <2>3, <3>2, <3>3, <3>4 DEF GetsBinary
    <3> HIDE DEF r
    <3>9. \A i \in 1..8 : u[i] = Need(r) => \E j \in 1..(i - 1) : StartsOwn(u[j])
      BY <3>6, <3>8
    <3> DEFINE n == Len(u)
    <3>10. /\ n \in Nat /\ n >= 4 /\ u[n] = Need("docker") /\ u[n - 1] = Start("cri-docker")
           /\ u[n - 2] = Keep("cri-docker", "unit", "unit") /\ u[n - 3] \in GetsBinary
      BY <3>8
    <3>11. \A i \in 1..n : \/ Carries(u[i])
                           \/ StartsOwn(u[i])
                           \/ u[i] = Need(OwnRuntime)
                           \/ (u[i] = Start("cri-docker") /\ DockerPackaged /\ i = n - 1)
      BY <2>1, <3>7, <3>8 DEF r
    <3>12. RuntimeSupplied(u)
      BY <3>8, <3>9, <3>10, <3>11, SuppliedWithUnit DEF r
    <3>13. Sequence(u) /\ Len(u) >= 4
      BY <3>2
    <3> HIDE DEF n
    <3>14. RuntimeSupplied(Fetched("docker") \o u)
      BY <3>12, <3>13, SuppliedFetched
    <3> QED  BY <3>1, <3>14
  <2> QED  BY <2>4, <2>5
<1>7. CASE r = "docker" /\ doc.runtime[2] = "git"
  <2>1. ~DockerPackaged /\ script' = DockerScript("git", v)
    BY <1>1, <1>7 DEF ScriptOf, OwnRuntime, DockerPackaged
  <2> DEFINE p == << Put("docker", "local", v), Add("docker", {"cri"}), Start("docker") >>
  <2>2. /\ Sequence(p) /\ Len(p) = 3 /\ p[1] = Put("docker", "local", v)
        /\ p[2] = Add("docker", {"cri"}) /\ p[3] = Start("docker")
    BY Literals
  <2> DEFINE t == CriDockerdGit(v)
  <2>3. /\ Sequence(t) /\ Len(t) = 3 /\ t[1] = Fetch("cri-docker", "binary", "binary")
        /\ t[2] = Need("docker") /\ t[3] = Put("docker", "provenance", v)
    BY Literals DEF CriDockerdGit
  <2>4. CASE FromCommit("docker", v)
    <3>1. script' = t
      <4>1. script' = << >> \o t
        BY <2>1, <2>4 DEF DockerScript
      <4> QED  BY <2>3, <4>1 DEF Sequence
    <3>2. Up("docker")
      BY <2>4 DEF FromCommit
    <3> HIDE DEF t
    <3>3. \A i \in 1..3 : i \in {1, 2, 3}
      OBVIOUS
    <3> QED  BY <1>3, <1>7, <2>1, <2>3, <3>1, <3>2, <3>3, LineKinds DEF RuntimeSupplied
  <2>5. CASE ~FromCommit("docker", v)
    <3> DEFINE u == p \o t
    <3>1. script' = Fetched("docker") \o u
      <4>1. script' = (Fetched("docker") \o p) \o t
        BY <2>1, <2>5 DEF DockerScript, DockerGit
      <4>2. Sequence(Fetched("docker")) /\ Sequence(p) /\ Sequence(t)
        BY <2>2, <2>3, Literals DEF Fetched
      <4> HIDE DEF p, t
      <4> QED  BY <4>1, <4>2, ThreeJoined
    <3> HIDE DEF p, t
    <3>2. /\ Sequence(u) /\ Len(u) = 6 /\ \A i \in 1..3 : u[i] = p[i] /\ u[3 + i] = t[i]
      <4>1. /\ Sequence(u) /\ Len(u) = Len(p) + Len(t) /\ \A i \in 1..Len(p) : u[i] = p[i]
            /\ \A i \in 1..Len(t) : u[Len(p) + i] = t[i]
        <5>1. Sequence(p) /\ Sequence(t)
          BY <2>2, <2>3
        <5> QED  BY <5>1, Joined
      <4> QED  BY <2>2, <2>3, <4>1
    <3> HIDE DEF u
    <3>3. /\ u[1] = p[1] /\ u[2] = p[2] /\ u[3] = p[3]
          /\ u[4] = t[1] /\ u[5] = t[2] /\ u[6] = t[3]
      <4>1. u[3 + 1] = t[1] /\ u[3 + 2] = t[2] /\ u[3 + 3] = t[3]
        BY <3>2
      <4> QED  BY <3>2, <4>1
    <3>4. /\ Fills(p[1], r) /\ Carries(p[1]) /\ Carries(p[2]) /\ StartsOwn(p[3])
          /\ Carries(t[1]) /\ t[2] = Need(r) /\ Carries(t[3])
      BY <1>2, <1>7, <2>2, <2>3, LineKinds
    <3>5. /\ \A i \in 1..6 : i \in {1, 2, 3, 4, 5, 6}
          /\ \A i \in 1..3 : i \in {1, 2, 3}
          /\ 3 \in 1..6
      OBVIOUS
    <3>6. \A i \in 1..6 : Carries(u[i]) \/ StartsOwn(u[i]) \/ u[i] = Need(r)
      BY <3>3, <3>4, <3>5
    <3>7. \A i \in 1..3 : Carries(u[i]) \/ StartsOwn(u[i])
      BY <3>3, <3>4, <3>5
    <3>8. Len(u) = 6 /\ 3 \in 1..Len(u) /\ StartsOwn(u[3]) /\ Fills(u[1], r) /\ Carries(u[1])
      BY <3>2, <3>3, <3>4, <3>5
    <3>9. ~DockerPackaged
      BY <2>1 DEF DockerPackaged
    <3> DEFINE s == u
    <3>10. /\ Len(s) \in Nat /\ 3 \in 1..Len(s) /\ StartsOwn(s[3]) /\ Fills(s[1], r) /\ Carries(s[1])
           /\ \A i \in 1..Len(s) : Carries(s[i]) \/ StartsOwn(s[i]) \/ s[i] = Need(r)
           /\ \A i \in 1..3 : Carries(s[i]) \/ StartsOwn(s[i])
      BY <3>6, <3>7, <3>8
    <3> HIDE DEF s
    <3>11. RuntimeSupplied(s)
      BY <3>9, <3>10, SuppliedByStart
    <3>12. RuntimeSupplied(u)
      BY <3>11 DEF s
    <3> QED  BY <2>1, <3>1, <3>2, <3>12, SuppliedFetched
  <2> QED  BY <2>4, <2>5
<1> QED  BY <1>2, <1>4, <1>5, <1>6, <1>7 DEF Runtime

\* A runtime that runs goes on while nothing disturbs the node.
LEMMA RunsOn ==
  ASSUME BaseInv, RunningInv, Calm', [Next]_vars, NEW r \in Runtime, Up(r)
  PROVE  Up(r)'
<1>1. Serves(r, {})
  BY UpServes
<1>2. Serves(r, {})'
  <2>1. {} \in SUBSET Setting /\ {} \subseteq {"cri"}
    OBVIOUS
  <2> QED  BY <1>1, <2>1, ServesStays
<1> QED  BY <1>2 DEF Serves, Calm

\* What the lines that a line may depend on bring about.
LEMMA Brings ==
  ASSUME BaseInv, RunningScript, Effect, UNCHANGED doc
  PROVE  /\ \A c \in Runtime \cup {"toolkit"} : Fills(Step, c) => (Binary(c) # "none")'
         /\ StartsOwn(Step) => Up(OwnRuntime)'
         /\ \A c, p, v : Step = Keep(c, p, v) /\ v # "none" /\ <<c, p>> \in Item => disk'[<<c, p>>] # "none"
         /\ \A d : Step = Start(d) /\ d \in Daemon => Up(d)' /\ UNCHANGED disk
<1> USE DEF BaseInv, NodeTypes
<1>1. ASSUME NEW c \in Runtime \cup {"toolkit"}, Fills(Step, c) PROVE (Binary(c) # "none")'
  <2>1. PICK i, v : i \in {<<c, "package">>, <<c, "local">>} /\ disk' = [disk EXCEPT ![i] = v] /\ v # "none"
    <3>1. Step.do \in {"put", "clone", "package"} /\ "none" \notin Step.val
          /\ Step.at \subseteq {<<c, "package">>, <<c, "local">>}
      BY <1>1 DEF Fills
    <3>2. CASE Step.do = "put"
      <4>1. PutStep
        BY <3>2 DEF Effect, FetchStep, CloneStep, CopyStep, PackageStep, ConfigStep, DaemonStep,
                    StopStep, CheckStep, InitStep
      <4> QED  BY <3>1, <3>2, <4>1 DEF PutStep
    <3>3. CASE Step.do = "clone"
      <4>1. CloneStep
        BY <3>3 DEF Effect, FetchStep, PutStep, CopyStep, PackageStep, ConfigStep, DaemonStep,
                    StopStep, CheckStep, InitStep
      <4> QED  BY <3>1, <3>3, <4>1, BuildAssumption DEF CloneStep
    <3>4. CASE Step.do = "package"
      <4>1. PackageStep
        BY <3>4 DEF Effect, FetchStep, PutStep, CopyStep, CloneStep, ConfigStep, DaemonStep,
                    StopStep, CheckStep, InitStep
      <4>2. PICK i \in Step.at, v \in Step.val : disk' = [disk EXCEPT ![i] = v]
        BY <4>1 DEF PackageStep
      <4> QED  BY <3>1, <4>2
    <3> QED  BY <3>1, <3>2, <3>3, <3>4
  <2>2. <<c, "package">> \in Item /\ <<c, "local">> \in Item
    BY DEF Item, Runtime
  <2>3. CASE i = <<c, "local">>
    BY <2>1, <2>2, <2>3 DEF Binary
  <2>4. CASE i = <<c, "package">>
    BY <2>1, <2>2, <2>4 DEF Binary
  <2> QED  BY <2>1, <2>3, <2>4
<1>2. ASSUME StartsOwn(Step) PROVE Up(OwnRuntime)'
  <2>1. PICK r \in Runtime : r = OwnRuntime /\ r = OwnRuntime'
    BY OwnIsRuntime DEF OwnRuntime, RuntimeOf
  <2>2. Step.do \in {"restart", "start"} /\ Step.at = {r}
    BY <1>2, <2>1 DEF StartsOwn
  <2>3. /\ Binary(r) # "none"
        /\ proc'[r] = IF Step.do = "start" /\ Up(r) THEN proc[r]
                      ELSE [build |-> Binary(r), config |-> config[r]]
    BY <2>2, StartsIt
  <2> QED  BY <2>1, <2>3 DEF Up, Off
<1>3. ASSUME NEW c, NEW p, NEW v, Step = Keep(c, p, v), v # "none", <<c, p>> \in Item
      PROVE  disk'[<<c, p>>] # "none"
  <2>1. PutStep /\ Step.at = {<<c, p>>} /\ Step.val = {v}
    BY <1>3 DEF Keep, Effect, FetchStep, CloneStep, CopyStep, PackageStep, ConfigStep, DaemonStep,
                StopStep, CheckStep, InitStep
  <2> QED  BY <1>3, <2>1 DEF PutStep
<1>4. ASSUME NEW d \in Daemon, Step = Start(d) PROVE Up(d)' /\ UNCHANGED disk
  <2>1. DaemonStep /\ Step.do = "start" /\ Step.at = {d}
    BY <1>4 DEF Start, Effect, FetchStep, CloneStep, CopyStep, PackageStep, ConfigStep, PutStep,
                StopStep, CheckStep, InitStep
  <2>2. /\ Started(d).build # "none"
        /\ IF Up(d) THEN UNCHANGED proc
           ELSE \E lost \in LostWith(d) : proc' = WithStarted(d, Started(d), lost)
    BY <2>1 DEF DaemonStep
  <2>4. proc'[d] = Started(d) \/ (Up(d) /\ proc'[d] = proc[d])
    BY <2>2 DEF WithStarted
  <2> QED  BY <2>1, <2>2, <2>4 DEF Up, Off, DaemonStep
<1> QED  BY <1>1, <1>2, <1>3, <1>4

\* It keeps them in order line by line, as what a line brings is there after it.
LEMMA RuntimeSuppliedMoves ==
  ASSUME BaseInv, RunningInv, PartsKnown, Calm', ScriptStep, At("runtime"), RuntimeSupplied(script),
         Moves
  PROVE  RuntimeSupplied(script)'
<1> DEFINE n == Len(script)  unit == <<"cri-docker", "unit">>  binary == <<"cri-docker", "binary">>
<1>0. PICK r \in Runtime : r = OwnRuntime
  BY OwnIsRuntime
<1>1. /\ RunningScript /\ Effect /\ UNCHANGED <<branch, doc, power, phase>> /\ [Next]_vars
      /\ "runtime" \in Part
  BY DEF ScriptStep, run, Next, Run, Part
<1>2. /\ Sequence(script) /\ n \in Nat \ {0} /\ Step = script[1] /\ StepOf("runtime", Step)
  <2>1. Sequence(script) /\ n \in Nat \ {0} /\ Step = script[1] /\ 1 \in 1..n
    BY <1>1, RunningLine DEF BaseInv
  <2>2. StepOf("runtime", Step)
    BY <1>1, <2>1 DEF BaseInv, ScriptInv
  <2> QED  BY <2>1, <2>2
<1>3. Len(script') = n - 1 /\ \A i \in 1..(n - 1) : script'[i] = script[i + 1]
  BY <1>2 DEF Moves
<1>4. Change("runtime")
  BY <1>1, EffectChange DEF BaseInv
<1>5. /\ OwnRuntime' = r /\ (DockerPackaged' <=> DockerPackaged)
      /\ \A x : StartsOwn(x)' <=> StartsOwn(x)
  BY <1>0, <1>1 DEF OwnRuntime, RuntimeOf, DockerPackaged, StartsOwn
<1>6. Up(r) => Up(r)'
  BY <1>1, RunsOn
<1>7. /\ Binary(r) # "none" => Binary(r)' # "none"
      /\ disk[unit] # "none" => disk'[unit] # "none"
  <2>1. <<r, "package">> \in Item \ Removable /\ <<r, "local">> \in Item \ Removable /\ unit \in Item \ Removable
    BY <1>1 DEF Item, Removable, Runtime
  <2> QED  BY <1>4, <2>1 DEF Change, Binary
<1>8. /\ Fills(Step, r) => Binary(r)' # "none"
      /\ StartsOwn(Step) => Up(r)'
      /\ Step = Keep("cri-docker", "unit", "unit") => disk'[unit] # "none"
      /\ Step = Start("cri-docker") => Up("cri-docker")'
  <2>1. unit \in Item /\ "unit" # "none" /\ "cri-docker" \in Daemon
    BY DEF Item, Daemon
  <2> QED  BY <1>0, <1>1, <1>5, <2>1, Brings
<1>9. ASSUME NEW i \in 1..Len(script')
      PROVE  /\ \/ Carries(script'[i])
                \/ StartsOwn(script'[i])
                \/ script'[i] = Need(r)
                \/ (script'[i] = Start("cri-docker") /\ DockerPackaged /\ i = Len(script') - 1)
             /\ script'[i] = Need(r) => (Up(r)' \/ \E j \in 1..(i - 1) : StartsOwn(script'[j]))
             /\ StartsOwn(script'[i]) => (Binary(r)' # "none" \/ \E j \in 1..(i - 1) : Fills(script'[j], r))
  <2>1. i + 1 \in 1..n /\ script'[i] = script[i + 1]
    BY <1>2, <1>3
  <2>2. /\ \/ Carries(script'[i])
           \/ StartsOwn(script'[i])
           \/ script'[i] = Need(r)
           \/ (script'[i] = Start("cri-docker") /\ DockerPackaged /\ i + 1 = n - 1)
        /\ script'[i] = Need(r) => (Up(r) \/ \E j \in 1..((i + 1) - 1) : StartsOwn(script[j]))
        /\ StartsOwn(script'[i]) => (Binary(r) # "none" \/ \E j \in 1..((i + 1) - 1) : Fills(script[j], r))
    BY <1>0, <2>1 DEF RuntimeSupplied
  <2>3. ASSUME NEW j \in 1..((i + 1) - 1), StartsOwn(script[j])
        PROVE  Up(r)' \/ \E k \in 1..(i - 1) : StartsOwn(script'[k])
    <3>1. CASE j = 1
      BY <1>2, <1>8, <2>3, <3>1
    <3>2. CASE j # 1
      <4>1. j - 1 \in 1..(i - 1) /\ script'[j - 1] = script[j]
        BY <1>2, <1>3, <3>2
      <4> QED  BY <2>3, <4>1
    <3> QED  BY <3>1, <3>2
  <2>4. ASSUME NEW j \in 1..((i + 1) - 1), Fills(script[j], r)
        PROVE  Binary(r)' # "none" \/ \E k \in 1..(i - 1) : Fills(script'[k], r)
    <3>1. CASE j = 1
      BY <1>2, <1>8, <2>4, <3>1
    <3>2. CASE j # 1
      <4>1. j - 1 \in 1..(i - 1) /\ script'[j - 1] = script[j]
        BY <1>2, <1>3, <3>2
      <4> QED  BY <2>4, <4>1
    <3> QED  BY <3>1, <3>2
  <2>5. script'[i] = Need(r) => (Up(r)' \/ \E j \in 1..(i - 1) : StartsOwn(script'[j]))
    BY <1>6, <2>2, <2>3
  <2>6. StartsOwn(script'[i]) => (Binary(r)' # "none" \/ \E j \in 1..(i - 1) : Fills(script'[j], r))
    BY <1>7, <2>2, <2>4
  <2>7. i + 1 = n - 1 => i = Len(script') - 1
    BY <1>2, <1>3
  <2> QED  BY <2>2, <2>5, <2>6, <2>7
<1>11. ASSUME DockerPackaged
       PROVE  LET m == Len(script') IN
              /\ m >= 1 => script'[m] = Need("docker")
              /\ m >= 2 => script'[m - 1] = Start("cri-docker")
              /\ m >= 3 => script'[m - 2] = Keep("cri-docker", "unit", "unit")
              /\ m >= 4 => script'[m - 3] \in GetsBinary
              /\ m <= 3 => disk'[binary] = "binary"
              /\ m <= 2 => disk'[unit] # "none"
              /\ m <= 1 => Up("cri-docker")'
  <2>1. /\ n >= 1 => script[n] = Need("docker")
        /\ n >= 2 => script[n - 1] = Start("cri-docker")
        /\ n >= 3 => script[n - 2] = Keep("cri-docker", "unit", "unit")
        /\ n >= 4 => script[n - 3] \in GetsBinary
        /\ n <= 3 => disk[binary] = "binary"
        /\ n <= 2 => disk[unit] # "none"
        /\ n <= 1 => Up("cri-docker")
    BY <1>11 DEF RuntimeSupplied
  <2> DEFINE m == Len(script')
  <2>2. m = n - 1 /\ m \in Nat
    BY <1>2, <1>3
  <2>3. m >= 1 => script'[m] = Need("docker")
    BY <1>2, <1>3, <2>1, <2>2
  <2>4. m >= 2 => script'[m - 1] = Start("cri-docker")
    BY <1>2, <1>3, <2>1, <2>2
  <2>5. m >= 3 => script'[m - 2] = Keep("cri-docker", "unit", "unit")
    BY <1>2, <1>3, <2>1, <2>2
  <2>6. m <= 2 => disk'[unit] # "none"
    <3>1. n <= 2 \/ (n = 3 /\ n - 2 = 1) \/ m > 2
      BY <1>2, <2>2
    <3> QED  BY <1>2, <1>7, <1>8, <2>1, <2>2, <3>1
  <2>7. m <= 1 => Up("cri-docker")'
    <3>1. CASE n = 1
      <4>1. UNCHANGED proc
        BY <1>1, <1>2, <2>1, <3>1, KnownLines
      <4> QED  BY <2>1, <3>1, <4>1 DEF Up, Off
    <3>2. CASE n = 2
      BY <1>2, <1>8, <2>1, <3>2
    <3> QED  BY <1>2, <2>2, <3>1, <3>2
  <2>8. m >= 4 => script'[m - 3] \in GetsBinary
    BY <1>2, <1>3, <2>1, <2>2
  <2>9. m <= 3 => disk'[binary] = "binary"
    <3>1. binary \in Item
      BY DEF Item
    <3>2. CASE n <= 3
      BY <1>4, <2>1, <3>2 DEF Change
    <3>3. CASE n = 4
      <4>1. Step \in GetsBinary
        BY <1>2, <2>1, <3>3
      <4>2. CASE Step = Put("cri-docker", "binary", "binary")
        <5>1. disk' = [disk EXCEPT ![binary] = "binary"]
          BY <1>1, <4>2, KnownLines
        <5> QED  BY <3>1, <5>1 DEF BaseInv, NodeTypes
      <4>3. CASE Step = Fetch("cri-docker", "binary", "binary")
        <5>1. Step.do = "fetch" /\ Step.at = {binary}
          BY <4>3 DEF Fetch
        <5>2. UNCHANGED disk /\ disk[binary] \notin {"none", "partial"}
          BY <1>1, <5>1, FetchPasses
        <5> QED  BY <5>2 DEF PartsKnown
      <4> QED  BY <4>1, <4>2, <4>3 DEF GetsBinary
    <3> QED  BY <1>2, <2>2, <3>2, <3>3
  <2> QED  BY <2>3, <2>4, <2>5, <2>6, <2>7, <2>8, <2>9
<1> QED  BY <1>5, <1>9, <1>11 DEF RuntimeSupplied

\* Also while something is downloaded.
LEMMA RuntimeSuppliedFetches ==
  ASSUME BaseInv, RunningInv, PartsKnown, Calm', ScriptStep, At("runtime"), RuntimeSupplied(script),
         Refetches
  PROVE  RuntimeSupplied(script)'
<1> DEFINE n == Len(script)  unit == <<"cri-docker", "unit">>  binary == <<"cri-docker", "binary">>
<1>0. PICK r \in Runtime : r = OwnRuntime
  BY OwnIsRuntime
<1>1. /\ RunningScript /\ Effect /\ UNCHANGED <<branch, doc, power, phase>> /\ [Next]_vars
      /\ n \in Nat \ {0} /\ Step = script[1] /\ 1 \in 1..n /\ "runtime" \in Part
  BY RunningLine DEF ScriptStep, run, Next, Run, BaseInv, Part
<1>2. /\ Step.do = "fetch" /\ Len(script') = n
      /\ script'[1] = PutOneOf(Step.at, Step.val)
      /\ \A i \in 2..n : script'[i] = script[i]
  BY DEF Refetches
<1>3. /\ Carries(Step) /\ Carries(script'[1]) /\ ~Fills(Step, r) /\ ~StartsOwn(Step)
      /\ ~StartsOwn(script'[1])
      /\ \A c : Step # Need(c) /\ Step # Start(c)
      /\ \A c, p, v : Step # Keep(c, p, v)
      /\ \A c : script'[1] # Need(c)
  BY <1>2 DEF Carries, Fills, StartsOwn, PutOneOf, Need, Start, Keep
<1>4. /\ OwnRuntime' = r /\ (DockerPackaged' <=> DockerPackaged)
      /\ \A x : StartsOwn(x)' <=> StartsOwn(x)
  BY <1>0, <1>1 DEF OwnRuntime, RuntimeOf, DockerPackaged, StartsOwn
<1>5. Up(r) => Up(r)'
  BY <1>1, RunsOn
<1>6. Binary(r) # "none" => Binary(r)' # "none"
  <2>1. Change("runtime")
    BY <1>1, EffectChange DEF BaseInv, ScriptInv
  <2>2. <<r, "package">> \in Item \ Removable /\ <<r, "local">> \in Item \ Removable
    BY DEF Item, Removable, Runtime
  <2> QED  BY <2>1, <2>2 DEF Change, Binary
<1>7. ASSUME NEW i \in 1..n
      PROVE  /\ \/ Carries(script'[i])
                \/ StartsOwn(script'[i])
                \/ script'[i] = Need(r)
                \/ (script'[i] = Start("cri-docker") /\ DockerPackaged /\ i = n - 1)
             /\ script'[i] = Need(r) => (Up(r)' \/ \E j \in 1..(i - 1) : StartsOwn(script'[j]))
             /\ StartsOwn(script'[i]) => (Binary(r)' # "none" \/ \E j \in 1..(i - 1) : Fills(script'[j], r))
  <2>1. CASE i = 1
    BY <1>3, <2>1
  <2>2. CASE i # 1
    <3>1. i \in 2..n /\ script'[i] = script[i]
      BY <1>1, <1>2, <2>2
    <3>2. /\ \/ Carries(script[i])
             \/ StartsOwn(script[i])
             \/ script[i] = Need(r)
             \/ (script[i] = Start("cri-docker") /\ DockerPackaged /\ i = n - 1)
          /\ script[i] = Need(r) => (Up(r) \/ \E j \in 1..(i - 1) : StartsOwn(script[j]))
          /\ StartsOwn(script[i]) => (Binary(r) # "none" \/ \E j \in 1..(i - 1) : Fills(script[j], r))
      BY <1>0 DEF RuntimeSupplied
    <3>3. ASSUME NEW j \in 1..(i - 1), j # 1 PROVE script'[j] = script[j]
      <4>1. j \in 2..n
        BY <1>1, <3>3
      <4> QED  BY <1>2, <4>1
    <3>4. \A j \in 1..(i - 1) : StartsOwn(script[j]) => j # 1
      BY <1>1, <1>3
    <3>5. \A j \in 1..(i - 1) : Fills(script[j], r) => j # 1
      BY <1>1, <1>3
    <3>6. script'[i] = Need(r) => (Up(r)' \/ \E j \in 1..(i - 1) : StartsOwn(script'[j]))
      BY <1>5, <3>1, <3>2, <3>3, <3>4
    <3>7. StartsOwn(script'[i]) => (Binary(r)' # "none" \/ \E j \in 1..(i - 1) : Fills(script'[j], r))
      BY <1>6, <3>1, <3>2, <3>3, <3>5
    <3> QED  BY <3>1, <3>2, <3>6, <3>7
  <2> QED  BY <2>1, <2>2
<1>8. ASSUME DockerPackaged
      PROVE  /\ n >= 4 /\ script'[n] = Need("docker") /\ script'[n - 1] = Start("cri-docker")
             /\ script'[n - 2] = Keep("cri-docker", "unit", "unit") /\ script'[n - 3] \in GetsBinary
  <2>1. /\ script[n] = Need("docker")
        /\ n >= 2 => script[n - 1] = Start("cri-docker")
        /\ n >= 3 => script[n - 2] = Keep("cri-docker", "unit", "unit")
        /\ n >= 4 => script[n - 3] \in GetsBinary
    BY <1>1, <1>8 DEF RuntimeSupplied
  <2>2. n >= 4
    <3>1. n # 1 /\ n # 2 /\ n # 3
      BY <1>1, <1>3, <2>1
    <3>2. n \in Nat /\ n # 0
      BY <1>1
    <3> HIDE DEF n
    <3> QED  BY <3>1, <3>2
  <2>3. n \in 2..n /\ n - 1 \in 2..n /\ n - 2 \in 2..n
    BY <1>1, <2>2
  <2>4. script'[n - 3] \in GetsBinary
    <3>1. CASE n = 4
      <4>1. Step \in GetsBinary
        BY <1>1, <2>1, <3>1
      <4>2. Step.at = {binary} /\ Step.val = {"binary"}
        BY <4>1 DEF GetsBinary, Fetch, Put, PutOneOf
      <4> QED  BY <1>2, <3>1, <4>2 DEF GetsBinary, Put
    <3>2. CASE n # 4
      <4>1. n - 3 \in 2..n
        <5>1. n \in Nat /\ n >= 4 /\ n # 4
          BY <1>1, <2>2, <3>2
        <5> HIDE DEF n
        <5> QED  BY <5>1
      <4> QED  BY <1>2, <2>1, <2>2, <4>1
    <3> QED  BY <3>1, <3>2
  <2> QED  BY <1>2, <2>1, <2>2, <2>3, <2>4
<1>9. DockerPackaged => ~(n <= 3) /\ ~(n <= 2) /\ ~(n <= 1)
  BY <1>1, <1>8
<1> QED  BY <1>2, <1>4, <1>7, <1>8, <1>9 DEF RuntimeSupplied

LEMMA RuntimeSuppliedLine ==
  ASSUME BaseInv, RunningInv, PartsKnown, Calm', ScriptStep, At("runtime"), RuntimeSupplied(script)
  PROVE  RuntimeSupplied(script)'
<1>1. Moves \/ Refetches
  BY EffectMoves DEF ScriptStep, BaseInv
<1> QED  BY <1>1, RuntimeSuppliedMoves, RuntimeSuppliedFetches

\* So the script of a runtime never fails.
LEMMA RuntimeGoesOn ==
  ASSUME BaseInv, PartsKnown, RunningScript, At("runtime"), RuntimeSupplied(script)
  PROVE  ~Blocked
<1> DEFINE n == Len(script)  r == OwnRuntime
<1>1. Sequence(script) /\ n \in Nat \ {0} /\ Step = script[1] /\ 1 \in 1..n /\ r \in Runtime
  BY RunningLine, OwnIsRuntime DEF BaseInv
<1>2. /\ \/ Carries(Step)
         \/ StartsOwn(Step)
         \/ Step = Need(r)
         \/ (Step = Start("cri-docker") /\ DockerPackaged /\ 1 = n - 1)
      /\ Step = Need(r) => Up(r)
      /\ StartsOwn(Step) => Binary(r) # "none"
  <2>1. 1..(1 - 1) = {}
    OBVIOUS
  <2> QED  BY <1>1, <2>1 DEF RuntimeSupplied
<1> HIDE DEF r
<1>3. CASE Carries(Step)
  <2>1. CASE Step.do = "whole"
    BY <2>1, WholeCarries
  <2>2. CASE Step.do # "whole"
    BY <1>3, <2>2 DEF Blocked, Carries
  <2> QED  BY <2>1, <2>2
<1>4. CASE StartsOwn(Step)
  <2>1. Step.do \in {"restart", "start"} /\ Step.at = {r}
    BY <1>4 DEF StartsOwn, r
  <2>2. Binary(r) # "none"
    BY <1>2, <1>4
  <2>3. Started(r).build = Binary(r)
    BY <1>1 DEF Started, Runtime
  <2> QED  BY <2>1, <2>2, <2>3 DEF Blocked
<1>5. CASE Step = Need(r)
  <2>1. Step.do = "need" /\ Step.at = {r}
    BY <1>5 DEF Need
  <2>2. Holds(r) <=> Up(r)
    BY <1>1 DEF Holds, Runtime, Daemon
  <2> QED  BY <1>2, <1>5, <2>1, <2>2 DEF Blocked
<1>6. CASE Step = Start("cri-docker") /\ DockerPackaged /\ 1 = n - 1
  <2>1. disk[<<"cri-docker", "unit">>] # "none" /\ disk[<<"cri-docker", "binary">>] = "binary"
    <3>1. n <= 2 /\ n <= 3
      <4>1. n \in Nat /\ 1 = n - 1
        BY <1>1, <1>6
      <4> HIDE DEF n
      <4> QED  BY <4>1
    <3> QED  BY <1>6, <3>1 DEF RuntimeSupplied
  <2>2. Step.do = "start" /\ Step.at = {"cri-docker"}
    BY <1>6 DEF Start
  <2>3. Started("cri-docker").build = disk[<<"cri-docker", "unit">>]
    BY <2>1 DEF Started, Runtime
  <2> QED  BY <2>1, <2>2, <2>3 DEF Blocked
<1> QED  BY <1>2, <1>3, <1>4, <1>5, <1>6

\* Until the script of the runtime, there is none, or it is complete.
NoRuntime == \A r \in Runtime : NotInstalled(r)

\* No script of a runtime is left in the middle: there is none, or it serves.
RuntimeKnown ==
  IF At("runtime") THEN RuntimeLines /\ RuntimeSupplied(script) ELSE NoRuntime \/ RuntimeDone

\* It depends on the node and the document.
LEMMA SuppliedStays ==
  ASSUME UNCHANGED <<node, doc>>
  PROVE  RuntimeSupplied(script)' <=> RuntimeSupplied(script')
<1>1. /\ OwnRuntime' = OwnRuntime /\ (DockerPackaged' <=> DockerPackaged)
      /\ \A x : StartsOwn(x)' <=> StartsOwn(x)
  BY DEF OwnRuntime, RuntimeOf, DockerPackaged, StartsOwn
<1>2. /\ Up(OwnRuntime)' <=> Up(OwnRuntime)
      /\ Up("cri-docker")' <=> Up("cri-docker")
      /\ Binary(OwnRuntime)' = Binary(OwnRuntime) /\ disk' = disk
  BY <1>1 DEF node, Up, Off, Binary
<1> QED  BY <1>1, <1>2 DEF RuntimeSupplied

\* What is known of the runtime outlives every step of such a run.
LEMMA RuntimeKnownStep ==
  ASSUME BaseInv, BaseInv', RunningInv, RuntimeInv, Quiet => Calm /\ PartsKnown /\ RuntimeKnown,
         [Next]_vars, Quiet'
  PROVE  RuntimeKnown'
<1> DEFINE c == "runtime"
<1>1. /\ RuntimeKnown /\ PartsKnown /\ Calm /\ Calm' /\ c \in Part
      /\ \/ StartRun \/ BeginScript \/ ScriptStep \/ ScriptEnds \/ Update \/ Ends
         \/ UNCHANGED vars
  BY QuietSteps DEF Part
<1>2. ~(ScriptStep /\ At(c)) => (NoRuntime => NoRuntime')
  BY InstalledOnlyThere DEF NoRuntime
<1>3. UNCHANGED doc => (RuntimeDone => RuntimeDone')
  BY DoneStays
<1>4. CASE StartRun
  <2>1. UNCHANGED doc /\ ~At(c) /\ ~At(c)' /\ ~ScriptStep
    <3>1. UNCHANGED doc /\ phase = "idle"
      BY <1>4 DEF StartRun
    <3> QED  BY <1>1, <1>4, <3>1, QuietPlaces DEF At, ScriptStep, RunningScript
  <2> QED  BY <1>1, <1>2, <1>3, <2>1 DEF RuntimeKnown
<1>5. CASE BeginScript
  <2>1. /\ UNCHANGED <<node, branch, doc>> /\ ~At(c) /\ ~ScriptStep
        /\ At(c)' => Head(todo) = Install(c) /\ Expected(c)
    <3>1. ~ScriptStep
      BY <1>5 DEF BeginScript, ScriptStep, RunningScript
    <3> QED  BY <1>1, <1>5, <3>1, QuietPlaces
  <2>2. NoRuntime' \/ RuntimeDone'
    BY <1>1, <1>2, <1>3, <2>1 DEF RuntimeKnown
  <2>3. ASSUME At(c)' PROVE RuntimeLines' /\ RuntimeSupplied(script)'
    <3>1. NoRuntime => RuntimeLines'
      BY <1>5, <2>1, <2>3, RuntimeBegins DEF NoRuntime
    <3>2. RuntimeLines'
      BY <1>1, <1>3, <2>1, <3>1 DEF RuntimeKnown, RuntimeLines
    <3>3. RuntimeSupplied(script')
      BY <1>5, <2>1, <2>3, RuntimeSuppliedAtOnce
    <3>4. RuntimeSupplied(script)'
      BY <2>1, <3>3, SuppliedStays
    <3> QED  BY <3>2, <3>4
  <2> QED  BY <2>2, <2>3 DEF RuntimeKnown
<1>6. CASE ScriptStep
  <2>1. UNCHANGED doc /\ (At(c)' <=> At(c))
    BY <1>1, <1>6, QuietPlaces
  <2>2. CASE At(c)
    BY <1>1, <1>6, <2>1, <2>2, RuntimeLine, RuntimeSuppliedLine DEF RuntimeKnown
  <2>3. CASE ~At(c)
    BY <1>1, <1>2, <1>3, <2>1, <2>3 DEF RuntimeKnown
  <2> QED  BY <2>2, <2>3
<1>7. CASE ScriptEnds
  <2>1. UNCHANGED doc /\ ~At(c)' /\ Len(script) = 0 /\ ~ScriptStep
    <3>1. ~ScriptStep
      BY <1>7 DEF ScriptEnds, ScriptStep, RunningScript
    <3> QED  BY <1>1, <1>7, <3>1, QuietPlaces
  <2>2. RuntimeLines => RuntimeDone
    BY <2>1 DEF RuntimeLines
  <2> QED  BY <1>1, <1>2, <1>3, <2>1, <2>2 DEF RuntimeKnown
<1>8. CASE Update
  <2>1. phase = "idle" /\ phase' = "idle" /\ ~ScriptStep /\ UNCHANGED <<node, power>>
    BY <1>8 DEF Update, ScriptStep, RunningScript
  <2>2. ~At(c) /\ ~At(c)'
    BY <2>1 DEF At
  <2>3. ASSUME RuntimeDone PROVE RuntimeDone'
    <3>1. Asked(doc.runtime)
      <4>1. Binary(OwnRuntime) # "none" /\ OwnRuntime \in Runtime
        BY <2>3, OwnIsRuntime DEF RuntimeDone, Serves
      <4>2. ~NotInstalled(OwnRuntime)
        BY <4>1 DEF NotInstalled, Binary
      <4> QED  BY <4>1, <4>2 DEF RuntimeInv
    <3>2. OwnRuntime' = OwnRuntime
      BY <3>1, DocumentKept DEF OwnRuntime, RuntimeOf
    <3>3. PICK r \in Runtime : r = OwnRuntime /\ r = OwnRuntime'
      BY <3>2, OwnIsRuntime
    <3> QED  BY <2>1, <2>3, <3>3 DEF RuntimeDone, Serves, node, Binary, Up, Off
  <2> QED  BY <1>1, <1>2, <2>1, <2>2, <2>3 DEF RuntimeKnown
<1>9. CASE Ends
  <2>1. UNCHANGED doc /\ ~At(c)' /\ ~ScriptStep /\ ~At(c)
    <3>1. ~ScriptStep
      BY <1>1, <1>9, QuietPlaces DEF ScriptStep, RunningScript
    <3>2. ~At(c)
      BY <1>1, <1>9, QuietPlaces, RuntimeGoesOn DEF RuntimeKnown
    <3> QED  BY <1>1, <1>9, <3>1, <3>2, QuietPlaces
  <2> QED  BY <1>1, <1>2, <1>3, <2>1 DEF RuntimeKnown
<1>10. CASE UNCHANGED vars /\ ~ScriptStep
  <2>1. UNCHANGED doc /\ (At(c)' <=> At(c)) /\ UNCHANGED <<script, node>>
    BY <1>10 DEF vars, At, node
  <2>2. RuntimeSupplied(script)' <=> RuntimeSupplied(script)
    BY <2>1, SuppliedStays
  <2>3. RuntimeLines => RuntimeLines'
    BY <2>1, LinesStay
  <2> QED  BY <1>1, <1>2, <1>3, <1>10, <2>1, <2>2, <2>3 DEF RuntimeKnown
<1> QED  BY <1>1, <1>4, <1>5, <1>6, <1>7, <1>8, <1>9, <1>10

-----------------------------------------------------------------------------
(* The driver in such runs                                                 *)

\* A document with a runfile keeps it, and a script that has started the driver
\* has it running, from what it has put there.
DriverKnown ==
  LET n == Len(script)  v == doc.driver[2] IN
  /\ doc.driver[1] = "runfile" =>
       disk[<<"driver", "module">>] \in {"none", v} /\ proc["driver"].build \in {"none", v}
  /\ At("driver") /\ n # 0 /\ doc.driver[1] = "package" =>
       /\ n <= 5 /\ v = Newest => disk[<<"driver", "userland">>] = Newest
       /\ n <= 3 => Up("driver")
  /\ At("driver") /\ n # 0 /\ doc.driver[1] = "runfile" => (n <= 2 => Up("driver"))

\* Where the script of a driver is in its program.
LEMMA DriverPlace ==
  ASSUME BaseInv, At("driver"), DriverLines, Len(script) # 0
  PROVE  LET n == Len(script)  v == doc.driver[2] IN
         /\ GPU /\ n \in Nat
         /\ doc.driver[1] = "package" =>
              /\ n \in 1..6 /\ v \in Version
              /\ n = 6 => Step = PutOneOf({<<"driver", "userland">>}, {v, Newest})
              /\ n = 5 => Step = Copy(<<"driver", "userland">>, <<"driver", "module">>)
              /\ n = 4 => Step = Start("driver")
              /\ n = 3 => Step = Need("driver")
              /\ n = 2 => Step = Pinned(v)
              /\ n = 1 => Step = Put("driver", "provenance", "package")
         /\ doc.driver[1] = "runfile" =>
              /\ n \in 1..5 /\ v \in Version
              /\ n = 5 => Step = Put("driver", "userland", v)
              /\ n = 4 => Step = Put("driver", "module", v)
              /\ n = 3 => Step = Start("driver")
              /\ n = 2 => Step = Need("driver")
              /\ n = 1 => Step = Put("driver", "provenance", v)
<1> DEFINE n == Len(script)  v == doc.driver[2]
<1>1. n \in Nat /\ n # 0 /\ Step = script[1]
  <2>1. Sequence(script)
    BY DEF BaseInv, ScriptInv
  <2> QED  BY <2>1, SequenceFacts DEF Step
<1>2. GPU /\ n <= Len(DriverProgram) /\ \A i \in 1..n : script[i] = DriverProgram[i + (Len(DriverProgram) - n)]
  BY <1>1 DEF DriverLines, Remains
<1>3. Step = DriverProgram[1 + (Len(DriverProgram) - n)]
  BY <1>1, <1>2
<1>4. ASSUME doc.driver[1] = "package"
      PROVE  /\ n \in 1..6 /\ v \in Version
             /\ n = 6 => Step = PutOneOf({<<"driver", "userland">>}, {v, Newest})
             /\ n = 5 => Step = Copy(<<"driver", "userland">>, <<"driver", "module">>)
             /\ n = 4 => Step = Start("driver")
             /\ n = 3 => Step = Need("driver")
             /\ n = 2 => Step = Pinned(v)
             /\ n = 1 => Step = Put("driver", "provenance", "package")
  <2> DEFINE p == DriverProgram
  <2>1. /\ Len(p) = 6 /\ v \in Version
        /\ p[1] = PutOneOf({<<"driver", "userland">>}, {v, Newest})
        /\ p[2] = Copy(<<"driver", "userland">>, <<"driver", "module">>)
        /\ p[3] = Start("driver") /\ p[4] = Need("driver") /\ p[5] = Pinned(v)
        /\ p[6] = Put("driver", "provenance", "package")
    BY <1>4, DriverPrograms DEF BaseInv, Types
  <2> HIDE DEF p
  <2>2. n \in 1..6
    <3>1. n <= 6
      BY <1>2, <2>1 DEF p
    <3>2. n \in Nat /\ n # 0
      BY <1>1
    <3> HIDE DEF n
    <3> QED  BY <3>1, <3>2
  <2>3. Step = p[1 + (6 - n)]
    BY <1>3, <2>1 DEF p
  <2>4. /\ 1 + (6 - 6) = 1 /\ 1 + (6 - 5) = 2 /\ 1 + (6 - 4) = 3
        /\ 1 + (6 - 3) = 4 /\ 1 + (6 - 2) = 5 /\ 1 + (6 - 1) = 6
    OBVIOUS
  <2> QED  BY <2>1, <2>2, <2>3, <2>4
<1>5. ASSUME doc.driver[1] = "runfile"
      PROVE  /\ n \in 1..5 /\ v \in Version
             /\ n = 5 => Step = Put("driver", "userland", v)
             /\ n = 4 => Step = Put("driver", "module", v)
             /\ n = 3 => Step = Start("driver")
             /\ n = 2 => Step = Need("driver")
             /\ n = 1 => Step = Put("driver", "provenance", v)
  <2> DEFINE p == DriverProgram
  <2>1. /\ Len(p) = 5 /\ v \in Version
        /\ p[1] = Put("driver", "userland", v) /\ p[2] = Put("driver", "module", v)
        /\ p[3] = Start("driver") /\ p[4] = Need("driver")
        /\ p[5] = Put("driver", "provenance", v)
    BY <1>5, DriverPrograms DEF BaseInv, Types
  <2> HIDE DEF p
  <2>2. n \in 1..5
    <3>1. n <= 5
      BY <1>2, <2>1 DEF p
    <3>2. n \in Nat /\ n # 0
      BY <1>1
    <3> HIDE DEF n
    <3> QED  BY <3>1, <3>2
  <2>3. Step = p[1 + (5 - n)]
    BY <1>3, <2>1 DEF p
  <2>4. /\ 1 + (5 - 5) = 1 /\ 1 + (5 - 4) = 2 /\ 1 + (5 - 3) = 3
        /\ 1 + (5 - 2) = 4 /\ 1 + (5 - 1) = 5
    OBVIOUS
  <2> QED  BY <2>1, <2>2, <2>3, <2>4
<1> QED  BY <1>1, <1>2, <1>4, <1>5

\* What is known of the driver outlives a line of its script.
LEMMA DriverKnownLine ==
  ASSUME BaseInv, ScriptStep, At("driver"), DriverLines, DriverKnown
  PROVE  DriverKnown'
<1> DEFINE n == Len(script)  v == doc.driver[2]  userland == <<"driver", "userland">>
           module == <<"driver", "module">>
<1>1. /\ RunningScript /\ Effect /\ UNCHANGED <<doc, branch>> /\ "driver" \in Daemon
  BY DEF ScriptStep, run, Daemon
<1>2. n \in Nat \ {0} /\ Sequence(script) /\ Moves
  BY <1>1, RunningLine, DriverEffects DEF BaseInv
<1>3. Len(script') = n - 1
  BY <1>2 DEF Moves
<1>4. CASE doc.driver[1] = "package"
  <2>1. /\ n \in 1..6
        /\ n = 6 => disk'[userland] \in {v, Newest}
        /\ n = 5 => UNCHANGED <<disk[userland], proc["driver"]>>
        /\ n = 4 => UNCHANGED disk[userland] /\ Up("driver")'
        /\ n <= 3 => UNCHANGED <<disk[userland], proc["driver"]>>
    <3>1. n \in 1..6 /\ (n <= 3 => n \in {1, 2, 3})
      <4>1. n \in 1..6
        BY <1>2, <1>4, DriverPlace
      <4> QED  BY <4>1
    <3>2. n = 6 => disk'[userland] \in {v, Newest}
      BY <1>1, <1>2, <1>4, DriverPlace, DriverEffects
    <3>3. n = 5 => UNCHANGED <<disk[userland], proc["driver"]>>
      <4>1. n = 5 => Step = Copy(userland, module)
        BY <1>2, <1>4, DriverPlace
      <4>2. Step = Copy(userland, module) => UNCHANGED <<disk[userland], proc["driver"]>>
        BY <1>1, DriverEffects
      <4> QED  BY <4>1, <4>2
    <3>4. n = 4 => UNCHANGED disk[userland] /\ Up("driver")'
      BY <1>1, <1>2, <1>4, DriverPlace, Brings
    <3>5. n <= 3 => UNCHANGED <<disk[userland], proc["driver"]>>
      BY <1>1, <1>2, <1>4, <3>1, DriverPlace, DriverEffects
    <3> QED  BY <3>1, <3>2, <3>3, <3>4, <3>5
  <2> QED  BY <1>1, <1>3, <1>4, <2>1 DEF DriverKnown, Up, Off, At
<1>5. CASE doc.driver[1] = "runfile"
  <2>1. /\ n \in 1..5
        /\ n = 5 => UNCHANGED <<disk[module], proc["driver"]>>
        /\ n = 4 => disk'[module] = v /\ UNCHANGED proc["driver"]
        /\ n = 3 => /\ UNCHANGED disk[module] /\ Up("driver")'
                    /\ proc'["driver"] = proc["driver"] \/ proc'["driver"].build = disk[module]
        /\ n <= 2 => UNCHANGED <<disk[module], proc["driver"]>>
    <3>1. n \in 1..5 /\ (n <= 2 => n \in {1, 2})
      <4>1. n \in 1..5
        BY <1>2, <1>5, DriverPlace
      <4> QED  BY <4>1
    <3>2. n = 5 => UNCHANGED <<disk[module], proc["driver"]>>
      BY <1>1, <1>2, <1>5, DriverPlace, DriverEffects
    <3>3. n = 4 => disk'[module] = v /\ UNCHANGED proc["driver"]
      BY <1>1, <1>2, <1>5, DriverPlace, DriverEffects
    <3>4. n = 3 => /\ UNCHANGED disk[module] /\ Up("driver")'
                   /\ proc'["driver"] = proc["driver"] \/ proc'["driver"].build = disk[module]
      BY <1>1, <1>2, <1>5, DriverPlace, DriverEffects, Brings
    <3>5. n <= 2 => UNCHANGED <<disk[module], proc["driver"]>>
      BY <1>1, <1>2, <1>5, <3>1, DriverPlace, DriverEffects
    <3> QED  BY <3>1, <3>2, <3>3, <3>4, <3>5
  <2>2. disk[module] \in {"none", v} /\ proc["driver"].build \in {"none", v} /\ (n <= 2 => Up("driver"))
    BY <1>2, <1>5 DEF DriverKnown
  <2>3. disk'[module] \in {"none", v} /\ proc'["driver"].build \in {"none", v}
    <3>1. n \in 1..5
      BY <2>1
    <3>2. n = 5 \/ n = 4 \/ n = 3 \/ n <= 2
      <4> HIDE DEF n
      <4> QED  BY <3>1
    <3>3. CASE n = 5 \/ n <= 2
      <4>1. UNCHANGED <<disk[module], proc["driver"]>>
        BY <2>1, <3>3
      <4> QED  BY <2>2, <4>1
    <3>4. CASE n = 4 \/ n = 3
      BY <2>1, <2>2, <3>4
    <3> QED  BY <3>1, <3>2, <3>3, <3>4
  <2>4. Len(script') <= 2 => Up("driver")'
    BY <1>3, <2>1, <2>2 DEF Up, Off
  <2> QED  BY <1>1, <1>5, <2>3, <2>4 DEF DriverKnown
<1> QED  BY <1>1, <1>4, <1>5 DEF DriverKnown

\* It outlives every other step, an update included: that keeps a runfile.
LEMMA DriverKnownStep ==
  ASSUME BaseInv, BaseInv', DriverInv, Quiet => Calm /\ DriverKnown, [Next]_vars, Quiet'
  PROVE  DriverKnown'
<1> DEFINE c == "driver"  n == Len(script)
<1>1. /\ DriverKnown /\ Calm /\ c \in Part
      /\ \/ StartRun \/ BeginScript \/ ScriptStep \/ ScriptEnds \/ Update \/ Ends
         \/ UNCHANGED vars
  BY QuietSteps DEF Part
<1>2. CASE ScriptStep /\ At(c)
  BY <1>1, <1>2, DriverKnownLine DEF DriverInv
<1>3. CASE ~(ScriptStep /\ At(c))
  <2>1. UNCHANGED <<disk[<<"driver", "userland">>], disk[<<"driver", "module">>], proc["driver"]>>
    <3>1. ~NodeGoesDown /\ ~NodeComesUp
      BY <1>1 DEF Calm, NodeGoesDown, NodeComesUp
    <3> QED  BY <1>3, <3>1, DriverStays
  <2>2. doc'.driver[1] = "runfile" => doc'.driver = doc.driver
    <3>1. UNCHANGED doc \/ (doc \in Document /\ doc' \in Updated(doc))
      BY DocumentKept DEF Update, BaseInv, Types
    <3>2. CASE doc \in Document /\ doc' \in Updated(doc)
      <4>1. \/ \E x : doc' = [doc EXCEPT !.driver = x] /\ x[1] = "package"
            \/ \E x : doc' = [doc EXCEPT !.runtime = x]
            \/ \E x : doc' = [doc EXCEPT !.toolkit = x]
            \/ \E x : doc' = [doc EXCEPT !.kubernetes = x]
        BY <3>2, UpdatedDocuments
      <4> QED  BY <3>2, <4>1 DEF Document
    <3> QED  BY <3>1, <3>2
  <2>3. ASSUME At(c)', Len(script') # 0, doc.driver[1] \in {"package", "runfile"}, UNCHANGED doc
        PROVE  /\ doc.driver[1] = "package" =>
                    /\ Len(script') <= 5 /\ doc.driver[2] = Newest => disk[<<"driver", "userland">>] = Newest
                    /\ Len(script') <= 3 => Up("driver")
               /\ doc.driver[1] = "runfile" => (Len(script') <= 2 => Up("driver"))
    <3>1. CASE BeginScript
      <4>1. /\ script' = ScriptOf(Install(c))
        BY <1>1, <2>3, <3>1, QuietPlaces DEF BeginScript
      <4>2. script' = << >> \/ script' = DriverProgram
        BY <2>3, <4>1 DEF ScriptOf, Install, DriverScript, DriverProgram
      <4>3. Len(<< >>) = 0
        OBVIOUS
      <4> QED  BY <2>3, <4>2, <4>3, DriverPrograms DEF BaseInv, Types
    <3>2. CASE ~BeginScript
      <4>1. At(c) /\ UNCHANGED script
        <5>1. phase' = "script"
          BY <2>3 DEF At
        <5>2. UNCHANGED vars \/ ScriptStep
          BY <1>1, <3>2, <5>1, QuietPlaces DEF Update, StartRun, ScriptEnds
        <5> QED  BY <1>1, <1>3, <2>3, <5>2, QuietPlaces DEF vars, At
      <4> QED  BY <1>1, <2>3, <4>1 DEF DriverKnown
    <3> QED  BY <3>1, <3>2
  <2>4. At(c)' => UNCHANGED doc
    BY <1>1, QuietPlaces, DocumentKept
  <2>5. Up("driver")' <=> Up("driver")
    BY <2>1 DEF Up, Off
  <2>6. doc'.driver[1] = "runfile" =>
          /\ disk'[<<"driver", "module">>] \in {"none", doc'.driver[2]}
          /\ proc'["driver"].build \in {"none", doc'.driver[2]}
    BY <1>1, <2>1, <2>2 DEF DriverKnown
  <2> QED  BY <2>1, <2>3, <2>4, <2>5, <2>6 DEF DriverKnown
<1> QED  BY <1>2, <1>3

\* The script of a driver fails for the documents only of which it is said.
LEMMA DriverGoesOn ==
  ASSUME BaseInv, RunningInv, DriverInv, DriverKnown, RunningScript, At("driver"), ~MayFail(doc)
  PROVE  ~Blocked
<1> DEFINE n == Len(script)  v == doc.driver[2]
<1>1. n \in Nat /\ n # 0 /\ DriverLines
  BY RunningLine DEF BaseInv, DriverInv
<1>2. /\ GPU /\ DriverOnDisk(n)
      /\ doc.driver[1] \in {"package", "runfile"} /\ "none" \notin Version
      /\ doc.driver[1] = "package" => v = Newest /\ (Up("driver") => proc["driver"].build = v)
      /\ Up("driver") => proc["driver"].build # "none"
  <2>1. GPU /\ DriverOnDisk(n)
    BY <1>1 DEF DriverLines
  <2>2. Asked(doc.driver)
    BY Order DEF BaseInv, Part, Expected
  <2>3. doc.driver[1] \in {"none", "package", "runfile", "git"}
    BY DocumentShape DEF BaseInv, Types
  <2>4. "driver" \in Daemon
    BY DEF Daemon
  <2> QED  BY <2>1, <2>2, <2>3, <2>4, BuildAssumption DEF Asked, MayFail, RunningInv, Startable, Up
<1>3. /\ \A x : Step = Start(x) => Step.do = "start" /\ Step.at = {x}
      /\ \A x : Step = Need(x) => Step.do = "need" /\ Step.at = {x}
      /\ \A x : Step = Pinned(x) => Step.do = "pinned" /\ Step.val = {x}
      /\ \A a, b : Step = PutOneOf(a, b) => Step.do = "put"
      /\ \A a, b, x : Step = Put(a, b, x) => Step.do = "put"
      /\ \A a, b : Step = Copy(a, b) => Step.do = "copy"
  BY DEF Start, Need, Pinned, PutOneOf, Put, Copy
<1>4. Started("driver").build = disk[<<"driver", "module">>]
  BY DEF Started, Runtime
<1>5. Holds("driver") <=> DriverWorks
  BY DEF Holds
<1>6. CASE doc.driver[1] = "package"
  <2>1. n \in 1..6 /\ v \in Version
    BY <1>1, <1>6, DriverPlace
  <2>2. CASE n \in {1, 5, 6}
    <3>1. Step.do \in {"put", "copy"}
      BY <1>1, <1>3, <1>6, <2>2, DriverPlace
    <3> QED  BY <3>1 DEF Blocked
  <2>3. CASE n = 4
    <3>1. Step.do = "start" /\ Step.at = {"driver"}
      BY <1>1, <1>3, <1>6, <2>3, DriverPlace
    <3>2. disk[<<"driver", "module">>] # "none"
      BY <1>2, <1>6, <2>3 DEF DriverOnDisk
    <3> QED  BY <1>4, <3>1, <3>2 DEF Blocked
  <2>4. CASE n = 3
    <3>1. Step.do = "need" /\ Step.at = {"driver"}
      BY <1>1, <1>3, <1>6, <2>4, DriverPlace
    <3>2. Up("driver") /\ disk[<<"driver", "userland">>] = Newest
      BY <1>2, <1>6, <2>4 DEF DriverKnown
    <3>3. DriverWorks
      BY <1>2, <1>6, <3>2, BuildAssumption DEF DriverWorks
    <3> QED  BY <1>5, <3>1, <3>3 DEF Blocked
  <2>5. CASE n = 2
    <3>1. Step.do = "pinned" /\ Step.val = {v}
      BY <1>1, <1>3, <1>6, <2>5, DriverPlace
    <3>2. Up("driver")
      BY <1>6, <2>5 DEF DriverKnown
    <3> QED  BY <1>2, <1>6, <3>1, <3>2 DEF Blocked
  <2> QED  BY <2>1, <2>2, <2>3, <2>4, <2>5
<1>7. CASE doc.driver[1] = "runfile"
  <2>1. n \in 1..5 /\ v \in Version
    BY <1>1, <1>7, DriverPlace
  <2>2. CASE n \in {1, 4, 5}
    <3>1. Step.do = "put"
      BY <1>1, <1>3, <1>7, <2>2, DriverPlace
    <3> QED  BY <3>1 DEF Blocked
  <2>3. CASE n = 3
    <3>1. Step.do = "start" /\ Step.at = {"driver"}
      BY <1>1, <1>3, <1>7, <2>3, DriverPlace
    <3>2. disk[<<"driver", "module">>] # "none"
      BY <1>2, <1>7, <2>1, <2>3 DEF DriverOnDisk
    <3> QED  BY <1>4, <3>1, <3>2 DEF Blocked
  <2>4. CASE n = 2
    <3>1. Step.do = "need" /\ Step.at = {"driver"}
      BY <1>1, <1>3, <1>7, <2>4, DriverPlace
    <3>2. Up("driver") /\ disk[<<"driver", "userland">>] = v /\ proc["driver"].build = v
      BY <1>2, <1>7, <2>4 DEF DriverKnown, DriverOnDisk
    <3>3. DriverWorks
      BY <1>2, <2>1, <3>2 DEF DriverWorks
    <3> QED  BY <1>5, <3>1, <3>3 DEF Blocked
  <2> QED  BY <2>1, <2>2, <2>3, <2>4
<1> QED  BY <1>2, <1>6, <1>7

-----------------------------------------------------------------------------
(* The toolkit in such runs                                                *)

\* What the line of a script is and what it does, in one place.
LEMMA ScriptLine ==
  ASSUME BaseInv, ScriptStep, NEW c \in Part, At(c)
  PROVE  /\ RunningScript /\ Effect /\ UNCHANGED <<doc, branch, power, phase, todo>> /\ [Next]_vars
         /\ Sequence(script) /\ Len(script) \in Nat \ {0} /\ Step = script[1] /\ 1 \in 1..Len(script)
         /\ StepOf(c, Step) /\ Change(c)
         /\ Moves \/ Refetches
         /\ Refetches => /\ Step.do = "fetch" /\ Len(script') = Len(script)
                         /\ script'[1] = PutOneOf(Step.at, Step.val)
                         /\ \A i \in 2..Len(script) : script'[i] = script[i]
         /\ Moves => Len(script') = Len(script) - 1
                     /\ \A i \in 1..(Len(script) - 1) : script'[i] = script[i + 1]
<1>1. /\ RunningScript /\ Effect /\ UNCHANGED <<doc, branch, power, phase, todo>> /\ [Next]_vars
  BY DEF ScriptStep, run, Next, Run
<1>2. Sequence(script) /\ Len(script) \in Nat \ {0} /\ Step = script[1] /\ 1 \in 1..Len(script)
  BY <1>1, RunningLine DEF BaseInv
<1>3. StepOf(c, Step)
  BY <1>1, <1>2 DEF BaseInv, ScriptInv
<1>4. Change(c)
  BY <1>1, EffectChange DEF BaseInv
<1>5. /\ Moves \/ Refetches
      /\ Refetches => /\ Step.do = "fetch" /\ Len(script') = Len(script)
                      /\ script'[1] = PutOneOf(Step.at, Step.val)
                      /\ \A i \in 2..Len(script) : script'[i] = script[i]
  BY <1>1, EffectMoves DEF BaseInv, Refetches
<1>6. Moves => Len(script') = Len(script) - 1 /\ \A i \in 1..(Len(script) - 1) : script'[i] = script[i + 1]
  BY DEF Moves
<1> QED  BY <1>1, <1>2, <1>3, <1>4, <1>5, <1>6

\* The runtime is restarted with the settings; the toolkit is looked for after
\* it has been put there.
SuppliesToolkit(x) == Carries(x) \/ x = Restart(OwnRuntime) \/ x = Need("toolkit")
ToolkitSupplied(s) ==
  \A i \in 1..Len(s) :
    /\ SuppliesToolkit(s[i])
    /\ s[i] = Need("toolkit") => Binary("toolkit") # "none" \/ \E j \in 1..(i - 1) : Fills(s[j], "toolkit")

\* The script that is chosen for the toolkit has its lines in such an order.
LEMMA ToolkitSuppliedAtOnce ==
  ASSUME BaseInv, BeginScript, Head(todo) = Install("toolkit"), Expected("toolkit")
  PROVE  ToolkitSupplied(script')
<1> DEFINE v == doc.toolkit[2]  r == OwnRuntime  c == ConfigureRuntime(r)  f == Fetched("toolkit")
<1>1. /\ script' = ToolkitScript(doc.toolkit[1], v, r)
      /\ doc \in Document /\ Asked(doc.toolkit) /\ branch \in Commit
  BY DEF BeginScript, Install, BaseInv, Types, NodeTypes, Expected, ScriptOf, OwnRuntime
<1>2. /\ doc.toolkit[1] \in {"package", "git", "latest"}
      /\ doc.toolkit[1] = "package" => v \in Version
      /\ doc.toolkit[1] = "git" => v \in Commit
  BY <1>1, DocumentShape DEF Asked
<1>3. "none" \notin Version /\ "none" \notin Commit
  BY BuildAssumption
<1>4. CASE script' = << >>
  BY <1>4 DEF ToolkitSupplied
<1>5. /\ Sequence(c) /\ Len(c) = 2 /\ c[1] = Add(r, {"nvidia"}) /\ c[2] = Restart(r)
  BY Literals DEF ConfigureRuntime
<1>12. Sequence(f) /\ Len(f) = 2 /\ f[1] = Fetch("toolkit", "fetched", "whole") /\ f[2] = Whole("toolkit", "fetched")
  BY Literals DEF Fetched
<1> HIDE DEF c, f
<1>6. ASSUME NEW x, NEW t, Sequence(t), script' = f \o <<x>> \o c \o t, Carries(x), Fills(x, "toolkit"),
             \A i \in 1..Len(t) : SuppliesToolkit(t[i])
      PROVE  ToolkitSupplied(script')
  <2> DEFINE s == <<x>>  h == f \o s  u == h \o c
  <2>1. Sequence(s) /\ Len(s) = 1 /\ s[1] = x
    BY Literals
  <2>2. script' = u \o t
    BY <1>6
  <2> HIDE DEF s
  <2>8. /\ Sequence(h) /\ Len(h) = Len(f) + Len(s) /\ \A i \in 1..Len(s) : h[Len(f) + i] = s[i]
        /\ \A i \in 1..Len(f) : h[i] = f[i]
    <3>1. Sequence(f) /\ Sequence(s)
      BY <1>12, <2>1
    <3> QED  BY <3>1, Joined
  <2> HIDE DEF h
  <2>9. Len(h) = 3 /\ h[1] = f[1] /\ h[2] = f[2] /\ h[3] = x
    <3>1. Len(f) + 1 = 3 /\ 1 \in 1..Len(s) /\ 1 \in 1..Len(f) /\ 2 \in 1..Len(f)
      BY <1>12, <2>1
    <3>2. h[Len(f) + 1] = s[1] /\ h[1] = f[1] /\ h[2] = f[2]
      BY <2>8, <3>1
    <3> QED  BY <1>12, <2>1, <2>8, <3>1, <3>2
  <2>3. /\ Sequence(u) /\ Len(u) = Len(h) + Len(c) /\ \A i \in 1..Len(c) : u[Len(h) + i] = c[i]
        /\ \A i \in 1..Len(h) : u[i] = h[i]
    <3>1. Sequence(h) /\ Sequence(c)
      BY <1>5, <2>8
    <3> QED  BY <3>1, Joined
  <2> HIDE DEF u
  <2>4. Len(u) = 5 /\ u[1] = f[1] /\ u[2] = f[2] /\ u[3] = x /\ u[4] = c[1] /\ u[5] = c[2]
    <3>1. /\ Len(h) + 1 = 4 /\ Len(h) + 2 = 5 /\ 1 \in 1..Len(c) /\ 2 \in 1..Len(c)
          /\ 1 \in 1..Len(h) /\ 2 \in 1..Len(h) /\ 3 \in 1..Len(h)
      BY <1>5, <2>9
    <3>2. u[Len(h) + 1] = c[1] /\ u[Len(h) + 2] = c[2] /\ u[1] = h[1] /\ u[2] = h[2] /\ u[3] = h[3]
      BY <2>3, <3>1
    <3> QED  BY <1>5, <2>9, <2>3, <3>1, <3>2
  <2>5. /\ Len(script') = Len(u) + Len(t) /\ Len(t) \in Nat
        /\ \A i \in 1..Len(u) : script'[i] = u[i]
        /\ \A i \in 1..Len(t) : script'[Len(u) + i] = t[i]
    <3>1. Sequence(u) /\ Sequence(t)
      BY <1>6, <2>3
    <3> QED  BY <2>2, <3>1, Joined
  <2>6. \A i \in 1..5 : SuppliesToolkit(u[i]) /\ u[i] # Need("toolkit")
    <3>1. /\ Carries(f[1]) /\ Carries(f[2]) /\ Carries(c[1]) /\ \A d : Restart(d) # Need("toolkit")
          /\ \A y : Carries(y) => y # Need("toolkit")
      <4>1. \A d : Restart(d) # Need("toolkit")
        BY DEF Restart, Need
      <4> QED  BY <1>5, <1>12, <4>1, LineKinds
    <3>2. \A i \in 1..5 : i = 1 \/ i = 2 \/ i = 3 \/ i = 4 \/ i = 5
      OBVIOUS
    <3> QED  BY <1>5, <1>6, <2>4, <3>1, <3>2 DEF SuppliesToolkit
  <2>7. ASSUME NEW i \in 1..Len(script')
        PROVE  /\ SuppliesToolkit(script'[i])
               /\ script'[i] = Need("toolkit") => \E j \in 1..(i - 1) : Fills(script'[j], "toolkit")
    <3>1. CASE i \in 1..5
      BY <2>4, <2>5, <2>6, <3>1
    <3>2. CASE i \notin 1..5
      <4>1. i - 5 \in 1..Len(t) /\ 5 + (i - 5) = i /\ 3 \in 1..(i - 1) /\ 3 \in 1..5
        BY <2>4, <2>5, <3>2
      <4>2. script'[5 + (i - 5)] = t[i - 5] /\ script'[3] = x
        BY <2>4, <2>5, <4>1
      <4> QED  BY <1>6, <4>1, <4>2
    <3> QED  BY <3>1, <3>2
  <2> QED  BY <2>7 DEF ToolkitSupplied
<1>7. ASSUME NEW y PROVE SuppliesToolkit(Put("toolkit", "provenance", y)) /\ SuppliesToolkit(Need("toolkit"))
  BY LineKinds DEF SuppliesToolkit
<1>8. ASSUME NEW y
      PROVE  LET p == << Put("toolkit", "provenance", y) >>
                 q == << Need("toolkit"), Put("toolkit", "provenance", y) >>
             IN /\ Sequence(p) /\ Sequence(q)
                /\ \A i \in 1..Len(p) : SuppliesToolkit(p[i])
                /\ \A i \in 1..Len(q) : SuppliesToolkit(q[i])
  BY <1>7, Literals
<1>9. CASE script' = ToolkitPackage(v, r) /\ doc.toolkit[1] = "package"
  <2> DEFINE x == Put("toolkit", "package", v)
  <2>1. Fills(x, "toolkit") /\ Carries(x)
    BY <1>2, <1>3, <1>9, LineKinds
  <2>2. script' = f \o <<x>> \o c \o << Put("toolkit", "provenance", "package") >>
    BY <1>9 DEF ToolkitPackage, c, f
  <2> HIDE DEF x
  <2> QED  BY <1>6, <1>8, <2>1, <2>2
<1>10. CASE script' = ToolkitGit(v, r) /\ doc.toolkit[1] = "git"
  <2> DEFINE x == PutOneOf({<<"toolkit", "package">>, <<"toolkit", "local">>}, {v})
  <2>1. Fills(x, "toolkit") /\ Carries(x)
    BY <1>2, <1>3, <1>10 DEF Fills, Carries, PutOneOf
  <2>2. script' = f \o <<x>> \o c \o << Need("toolkit"), Put("toolkit", "provenance", v) >>
    BY <1>10 DEF ToolkitGit, c, f
  <2> HIDE DEF x
  <2> QED  BY <1>6, <1>8, <2>1, <2>2
<1>11. CASE script' = ToolkitLatest(branch, r)
  <2> DEFINE x == Clone({<<"toolkit", "local">>})
  <2>1. Fills(x, "toolkit") /\ Carries(x)
    BY LineKinds
  <2>2. script' = f \o <<x>> \o c \o << Need("toolkit"), Put("toolkit", "provenance", branch) >>
    BY <1>11 DEF ToolkitLatest, c, f
  <2> HIDE DEF x
  <2> QED  BY <1>6, <1>8, <2>1, <2>2
<1> QED  BY <1>1, <1>2, <1>4, <1>9, <1>10, <1>11 DEF ToolkitScript

\* It keeps them in order line by line.
LEMMA ToolkitSuppliedLine ==
  ASSUME BaseInv, ScriptStep, At("toolkit"), ToolkitSupplied(script)
  PROVE  ToolkitSupplied(script)'
<1> DEFINE n == Len(script)
<1>1. /\ RunningScript /\ Effect /\ UNCHANGED doc /\ n \in Nat \ {0} /\ Step = script[1]
      /\ Change("toolkit") /\ (Moves \/ Refetches)
      /\ Moves => Len(script') = n - 1 /\ \A i \in 1..(n - 1) : script'[i] = script[i + 1]
      /\ Refetches => /\ Step.do = "fetch" /\ Len(script') = n
                      /\ script'[1] = PutOneOf(Step.at, Step.val)
                      /\ \A i \in 2..n : script'[i] = script[i]
  BY ScriptLine DEF Part
<1>2. \A x : SuppliesToolkit(x)' <=> SuppliesToolkit(x)
  BY <1>1 DEF SuppliesToolkit, OwnRuntime, RuntimeOf
<1>3. Binary("toolkit") # "none" \/ Fills(Step, "toolkit") => Binary("toolkit")' # "none"
  <2>1. <<"toolkit", "package">> \in Item \ Removable /\ <<"toolkit", "local">> \in Item \ Removable
    BY DEF Item, Removable
  <2>2. Binary("toolkit") # "none" => Binary("toolkit")' # "none"
    BY <1>1, <2>1 DEF Change, Binary
  <2> QED  BY <1>1, <2>2, Brings
<1>4. CASE Moves
  <2>1. ASSUME NEW i \in 1..(n - 1)
        PROVE  /\ SuppliesToolkit(script'[i])
               /\ script'[i] = Need("toolkit") =>
                    Binary("toolkit")' # "none" \/ \E j \in 1..(i - 1) : Fills(script'[j], "toolkit")
    <3>1. i + 1 \in 1..n /\ script'[i] = script[i + 1] /\ (i + 1) - 1 = i
      BY <1>1, <1>4
    <3>2. /\ SuppliesToolkit(script[i + 1])
          /\ script[i + 1] = Need("toolkit") =>
               Binary("toolkit") # "none" \/ \E j \in 1..((i + 1) - 1) : Fills(script[j], "toolkit")
      BY <3>1 DEF ToolkitSupplied
    <3>3. ASSUME NEW j \in 1..i, Fills(script[j], "toolkit"), j # 1
          PROVE  \E k \in 1..(i - 1) : Fills(script'[k], "toolkit")
      <4>1. j - 1 \in 1..(i - 1) /\ j - 1 \in 1..(n - 1) /\ (j - 1) + 1 = j
        BY <1>1, <3>3
      <4>2. script'[j - 1] = script[(j - 1) + 1]
        BY <1>1, <1>4, <4>1
      <4> QED  BY <3>3, <4>1, <4>2
    <3> QED  BY <1>1, <1>3, <3>1, <3>2, <3>3
  <2> QED  BY <1>1, <1>2, <1>4, <2>1 DEF ToolkitSupplied
<1>5. CASE Refetches
  <2>1. Carries(script'[1]) /\ ~Fills(Step, "toolkit")
    BY <1>1, <1>5 DEF Carries, PutOneOf, Fills
  <2>2. ASSUME NEW i \in 1..n
        PROVE  /\ SuppliesToolkit(script'[i])
               /\ script'[i] = Need("toolkit") =>
                    Binary("toolkit")' # "none" \/ \E j \in 1..(i - 1) : Fills(script'[j], "toolkit")
    <3>1. CASE i = 1
      BY <2>1, <3>1, LineKinds DEF SuppliesToolkit
    <3>2. CASE i # 1
      <4>1. i \in 2..n /\ i \in 1..n
        BY <1>1, <3>2
      <4>2. /\ SuppliesToolkit(script[i]) /\ script'[i] = script[i]
            /\ script[i] = Need("toolkit") =>
                 Binary("toolkit") # "none" \/ \E j \in 1..(i - 1) : Fills(script[j], "toolkit")
        BY <1>1, <1>5, <4>1 DEF ToolkitSupplied
      <4>3. ASSUME NEW j \in 1..(i - 1), Fills(script[j], "toolkit") PROVE Fills(script'[j], "toolkit")
        <5>1. j # 1
          BY <1>1, <2>1, <4>3
        <5>2. j \in 2..n
          BY <1>1, <4>1, <5>1
        <5> QED  BY <1>1, <1>5, <4>3, <5>2
      <4> QED  BY <1>3, <4>2, <4>3
    <3> QED  BY <3>1, <3>2
  <2> QED  BY <1>1, <1>2, <1>5, <2>2 DEF ToolkitSupplied
<1> QED  BY <1>1, <1>4, <1>5

\* The runtime is there when the toolkit is installed, or the document may fail.
LEMMA OwnServes ==
  ASSUME BaseInv, RuntimeUp, NEW c \in {"toolkit", "kubernetes"}, At(c), Full, Asked(doc.runtime)
  PROVE  Passed("runtime") /\ Serves(OwnRuntime, {})
<1>1. c \in Part /\ "runtime" \in Part /\ Rank(Install("runtime")) < Rank(Install(c)) /\ c # "runtime"
  BY Ranks DEF Part
<1>2. ~Waits("runtime") /\ ~At("runtime") /\ phase # "idle"
  BY <1>1, Order DEF BaseInv, At
<1>3. Expected("runtime")
  BY DEF Expected
<1>4. Passed("runtime")
  BY <1>2, <1>3 DEF Waits, Passed
<1> QED  BY <1>4 DEF RuntimeUp

\* No line of it fails: the runtime that it restarts has been installed before.
LEMMA ToolkitGoesOn ==
  ASSUME BaseInv, PartsKnown, RuntimeUp, RunningScript, At("toolkit"), ToolkitSupplied(script), ~MayFail(doc)
  PROVE  ~Blocked
<1> DEFINE n == Len(script)  r == OwnRuntime
<1>1. Sequence(script) /\ n \in Nat \ {0} /\ Step = script[1] /\ 1 \in 1..n /\ r \in Runtime
  BY RunningLine, OwnIsRuntime DEF BaseInv
<1>2. SuppliesToolkit(Step) /\ (Step = Need("toolkit") => Binary("toolkit") # "none")
  <2>1. 1..(1 - 1) = {}
    OBVIOUS
  <2> QED  BY <1>1, <2>1 DEF ToolkitSupplied
<1> HIDE DEF r
<1>3. CASE Carries(Step)
  <2>1. CASE Step.do = "whole"
    BY <2>1, WholeCarries
  <2>2. CASE Step.do # "whole"
    BY <1>3, <2>2 DEF Blocked, Carries
  <2> QED  BY <2>1, <2>2
<1>4. CASE Step = Restart(r)
  <2>1. Step.do = "restart" /\ Step.at = {r}
    BY <1>4 DEF Restart
  <2>2. Full /\ Asked(doc.runtime)
    <3>1. Expected("toolkit")
      BY Order DEF BaseInv, Part
    <3> QED  BY <3>1 DEF Expected, MayFail, Asked
  <2>3. Binary(r) # "none"
    BY <2>2, OwnServes DEF Serves, r
  <2>4. Started(r).build = Binary(r)
    BY <1>1 DEF Started, Runtime
  <2> QED  BY <2>1, <2>3, <2>4 DEF Blocked
<1>5. CASE Step = Need("toolkit")
  <2>1. Step.do = "need" /\ Step.at = {"toolkit"}
    BY <1>5 DEF Need
  <2>2. Holds("toolkit") <=> Binary("toolkit") # "none"
    BY DEF Holds, Daemon, Runtime
  <2> QED  BY <1>2, <1>5, <2>1, <2>2 DEF Blocked
<1> QED  BY <1>2, <1>3, <1>4, <1>5 DEF SuppliesToolkit, r

-----------------------------------------------------------------------------
(* kubeadm in such runs                                                    *)

\* The line k from the end of s.
FromEnd(s, k) == s[1 + Len(s) - k]

\* The lines of a script that is put together from two, from its end.
LEMMA EndJoined ==
  ASSUME NEW s, NEW t, Sequence(s), Sequence(t)
  PROVE  /\ Sequence(s \o t) /\ Len(s) \in Nat /\ Len(t) \in Nat
         /\ Len(s \o t) = Len(s) + Len(t)
         /\ \A k \in 1..Len(t) : FromEnd(s \o t, k) = FromEnd(t, k)
         /\ \A k \in 1..Len(s) : FromEnd(s \o t, Len(t) + k) = FromEnd(s, k)
<1> DEFINE u == s \o t
<1>1. /\ Sequence(u) /\ Len(s) \in Nat /\ Len(t) \in Nat
      /\ Len(u) = Len(s) + Len(t)
      /\ \A i \in 1..Len(s) : u[i] = s[i]
      /\ \A i \in 1..Len(t) : u[Len(s) + i] = t[i]
  BY Joined
<1> HIDE DEF u
<1>2. ASSUME NEW k \in 1..Len(t) PROVE FromEnd(u, k) = FromEnd(t, k)
  <2>1. /\ 1 + Len(t) - k \in 1..Len(t)
        /\ 1 + Len(u) - k = Len(s) + (1 + Len(t) - k)
    BY <1>1
  <2> QED  BY <1>1, <2>1 DEF FromEnd
<1>3. ASSUME NEW k \in 1..Len(s) PROVE FromEnd(u, Len(t) + k) = FromEnd(s, k)
  <2>1. /\ 1 + Len(s) - k \in 1..Len(s)
        /\ 1 + Len(u) - (Len(t) + k) = 1 + Len(s) - k
    BY <1>1
  <2> QED  BY <1>1, <2>1 DEF FromEnd
<1> QED  BY <1>1, <1>2, <1>3 DEF u

Release == doc.kubernetes[2] = "release"
\* Only a release on Docker starts cri-dockerd again.
Again == IF Release /\ OwnRuntime = "docker" THEN 1 ELSE 0
\* After the check of the nodes there is only the record of the source.
Recorded == IF Release THEN 0 ELSE 1
\* Before the tools are built, packages and Go are installed.
Built == IF Release THEN 0 ELSE 3
InitFile == Release /\ doc.kubernetes[3] \notin Legacy
Initialises ==
  IF Release THEN KubeadmInit(OwnRuntime, InitFile) ELSE KubeadmInitSearches(OwnRuntime)

\* The files a kubeadm script puts on the node.
Tools   == <<"kube", "tools">>
Unit    == <<"kube", "unit">>
Admin   == <<"kube", "admin">>
Network == <<"kube", "network">>

\* The line installs what a build needs; it downloads something, or puts the
\* second half of it there.
Prepares(x) ==
  x.do \in {"put", "fetch", "whole"} /\ x.at \in {{<<"kube", "fetched">>}, {<<"jq", "package">>}}
Loads(x, i, v) == x.do \in {"put", "fetch"} /\ x.at = {i} /\ x.val = {v}

\* The lines before the record, counted from the end.
KubeadmLine(k, x) ==
  /\ k = 1 => x = Need("nodes")
  /\ k = 2 => x = Put("kube", "network", "calico")
  /\ k = 3 => x = Need("operator")
  /\ k = 4 => Loads(x, Network, "operator")
  /\ k = 5 => x = Need("kube")
  /\ k = 6 => x = Initialises
  /\ k = 7 /\ Again = 1 => x = Restart("cri-docker")
  /\ k = 7 + Again => Loads(x, Unit, "unit")
  /\ k = 8 + Again => x.do \in {"put", "fetch", "clone"} /\ x.at = {Tools}
  /\ k > 8 + Again => Prepares(x)

\* How far a script is whose next line is the line l from the end.
KubeadmReached(l) ==
  /\ l < 8 + Again => disk[Tools] \in Build
  /\ l < 7 + Again => disk[Unit] = "unit"
  /\ l < 7 /\ Again = 1 => Up("cri-docker")
  /\ l < 6 => disk[Admin] # "none"
  /\ l < 4 => disk[Network] \in {"operator", "calico"}
  /\ l < 2 => disk[Network] = "calico"

KubeadmSupplied(s) ==
  LET l == Len(s) - Recorded IN
  Len(s) # 0 =>
    /\ l <= 8 + Again + Built /\ KubeadmReached(l)
    /\ \A k \in 1..l : KubeadmLine(k, FromEnd(s, k + Recorded))
    /\ Recorded = 1 => FromEnd(s, 1).do = "put" /\ FromEnd(s, 1).at = {<<"kube", "provenance">>}

\* A program of so many lines, to begin with.
LEMMA KubeadmWhole ==
  ASSUME NEW s, Len(s) = 8 + Again + Built + Recorded,
         \A k \in 1..(8 + Again + Built) : KubeadmLine(k, FromEnd(s, k + Recorded)),
         Recorded = 1 => FromEnd(s, 1).do = "put" /\ FromEnd(s, 1).at = {<<"kube", "provenance">>}
  PROVE  KubeadmSupplied(s)
<1>1. Again \in {0, 1} /\ Recorded \in {0, 1} /\ Built \in {0, 3}
  BY DEF Again, Recorded, Built
<1> DEFINE l == Len(s) - Recorded
<1>2. l = 8 + Again + Built
  BY <1>1
<1>3. KubeadmReached(l)
  BY <1>1, <1>2 DEF KubeadmReached
<1>4. ASSUME NEW k \in 1..l PROVE KubeadmLine(k, FromEnd(s, k + Recorded))
  BY <1>2
<1> HIDE DEF l
<1>5. l <= 8 + Again + Built
  BY <1>1, <1>2
<1> QED  BY <1>3, <1>4, <1>5 DEF KubeadmSupplied, l

\* What a build begins with, from its end.
LEMMA BuilderLines ==
  ASSUME NEW x, NEW T, T = KubeadmBuilder \o << x, Fetch("kube", "unit", "unit") >>
  PROVE  /\ Sequence(T) /\ Len(T) = 5
         /\ FromEnd(T, 1) = Fetch("kube", "unit", "unit") /\ FromEnd(T, 2) = x
         /\ \A k \in 3..5 : Prepares(FromEnd(T, k))
<1> DEFINE a == << Put("jq", "package", "jq") >>  f == Fetched("kube")  b == a \o f
           c == << x, Fetch("kube", "unit", "unit") >>
<1>1. Sequence(a) /\ Len(a) = 1 /\ FromEnd(a, 1) = Put("jq", "package", "jq")
  <2>1. Sequence(a) /\ Len(a) = 1 /\ a[1] = Put("jq", "package", "jq")
    BY Literals
  <2> HIDE DEF a
  <2> QED  BY <2>1 DEF FromEnd
<1>2. /\ Sequence(f) /\ Len(f) = 2 /\ FromEnd(f, 1) = Whole("kube", "fetched")
      /\ FromEnd(f, 2) = Fetch("kube", "fetched", "whole")
  BY Literals DEF Fetched, FromEnd
<1>3. /\ Sequence(c) /\ Len(c) = 2 /\ FromEnd(c, 1) = Fetch("kube", "unit", "unit")
      /\ FromEnd(c, 2) = x
  BY Literals DEF FromEnd
<1>4. T = b \o c
  BY DEF KubeadmBuilder
<1> HIDE DEF a, f, c
<1>5. /\ Sequence(b) /\ Len(b) = 3 /\ FromEnd(b, 1) = FromEnd(f, 1) /\ FromEnd(b, 2) = FromEnd(f, 2)
      /\ FromEnd(b, 3) = FromEnd(a, 1)
  <2>1. /\ Sequence(b) /\ Len(b) = Len(a) + Len(f)
        /\ \A k \in 1..Len(f) : FromEnd(b, k) = FromEnd(f, k)
        /\ \A k \in 1..Len(a) : FromEnd(b, Len(f) + k) = FromEnd(a, k)
    <3>1. Sequence(a) /\ Sequence(f)
      BY <1>1, <1>2
    <3> QED  BY <3>1, EndJoined
  <2> HIDE DEF b
  <2>2. FromEnd(b, Len(f) + 1) = FromEnd(a, 1) /\ Len(f) + 1 = 3
    BY <1>1, <1>2, <2>1
  <2> QED  BY <1>1, <1>2, <2>1, <2>2
<1> HIDE DEF b
<1>6. /\ Sequence(T) /\ Len(T) = Len(b) + Len(c)
      /\ \A k \in 1..Len(c) : FromEnd(T, k) = FromEnd(c, k)
      /\ \A k \in 1..Len(b) : FromEnd(T, Len(c) + k) = FromEnd(b, k)
  <2>1. Sequence(b) /\ Sequence(c)
    BY <1>3, <1>5
  <2>2. /\ Sequence(b \o c) /\ Len(b \o c) = Len(b) + Len(c)
        /\ \A k \in 1..Len(c) : FromEnd(b \o c, k) = FromEnd(c, k)
        /\ \A k \in 1..Len(b) : FromEnd(b \o c, Len(c) + k) = FromEnd(b, k)
    BY <2>1, EndJoined
  <2> QED  BY <1>4, <2>2
<1>7. /\ FromEnd(T, 1) = FromEnd(c, 1) /\ FromEnd(T, 2) = FromEnd(c, 2)
      /\ FromEnd(T, Len(c) + 1) = FromEnd(b, 1) /\ FromEnd(T, Len(c) + 2) = FromEnd(b, 2)
      /\ FromEnd(T, Len(c) + 3) = FromEnd(b, 3)
      /\ Len(c) + 1 = 3 /\ Len(c) + 2 = 4 /\ Len(c) + 3 = 5
  BY <1>3, <1>5, <1>6
<1>8. Prepares(FromEnd(a, 1)) /\ Prepares(FromEnd(f, 1)) /\ Prepares(FromEnd(f, 2))
  BY <1>1, <1>2 DEF Prepares, Put, PutOneOf, Whole, Fetch
<1>9. \A k \in 3..5 : k = 3 \/ k = 4 \/ k = 5
  OBVIOUS
<1> QED  BY <1>3, <1>5, <1>6, <1>7, <1>8, <1>9

\* The three scripts of kubeadm are such programs, whatever the node holds.
LEMMA KubeadmSuppliedAtOnce ==
  ASSUME BaseInv, BeginScript, Head(todo) = Install("kubernetes"), Expected("kubernetes"), Kubeadm
  PROVE  KubeadmSupplied(script')
<1> DEFINE v == doc.kubernetes[3]  r == OwnRuntime  source == doc.kubernetes[2]
           N == KubeadmNetwork
<1>1. /\ script' = ScriptOf(<<"install", "kubernetes">>)
      /\ doc \in Document /\ Asked(doc.kubernetes) /\ branch \in Commit
  BY DEF BeginScript, Install, BaseInv, Types, NodeTypes, Expected
<1>2. source \in {"release", "git", "latest"}
  BY <1>1, DocumentShape DEF Asked
<1>3. script' = KubernetesScript(doc.kubernetes[1], source, v, r)
  BY <1>1 DEF ScriptOf, OwnRuntime
<1>4. CASE script' = << >>
  BY <1>4 DEF KubeadmSupplied
<1>5. /\ Sequence(N) /\ Len(N) = 4
      /\ FromEnd(N, 1) = Need("nodes") /\ FromEnd(N, 2) = Put("kube", "network", "calico")
      /\ FromEnd(N, 3) = Need("operator") /\ FromEnd(N, 4) = Fetch("kube", "network", "operator")
  BY Literals DEF KubeadmNetwork, FromEnd
<1> HIDE DEF N
<1>6. CASE source = "release" /\ script' = KubeadmRelease(v, r)
  <2> DEFINE T == KubeadmTools(v)  c == KubeadmCluster(v, r)  b == << KubeadmInit(r, v \notin Legacy), Need("kube") >>
             a == IF r = "docker" THEN << Restart("cri-docker") >> ELSE << >>
             p == T \o c  q == p \o N
  <2>1. /\ Sequence(T) /\ Len(T) = 2 /\ FromEnd(T, 1) = Fetch("kube", "unit", "unit")
        /\ FromEnd(T, 2) = Fetch("kube", "tools", v)
    BY Literals DEF KubeadmTools, FromEnd
  <2>2. /\ Sequence(b) /\ Len(b) = 2 /\ FromEnd(b, 1) = Need("kube")
        /\ FromEnd(b, 2) = KubeadmInit(r, InitFile)
    BY <1>6, Literals DEF FromEnd, InitFile, Release
  <2>3. /\ Sequence(a) /\ Len(a) = Again /\ (Again = 1 => FromEnd(a, 1) = Restart("cri-docker"))
    BY <1>6, Literals DEF FromEnd, Again, Release
  <2>4. /\ Again \in {0, 1} /\ Recorded = 0 /\ Built = 0
        /\ Initialises = KubeadmInit(r, InitFile)
    BY <1>6 DEF Again, Recorded, Release, Built, Initialises
  <2>5. c = a \o b
    BY DEF KubeadmCluster
  <2>6. script' = q
    BY <1>6 DEF KubeadmRelease, N
  <2> HIDE DEF T, a, b, c
  <2>7. /\ Sequence(c) /\ Len(c) = 2 + Again
        /\ FromEnd(c, 1) = FromEnd(b, 1) /\ FromEnd(c, 2) = FromEnd(b, 2)
        /\ Again = 1 => FromEnd(c, 3) = FromEnd(a, 1)
    <3>1. /\ Sequence(c) /\ Len(c) = Len(a) + Len(b)
          /\ \A k \in 1..Len(b) : FromEnd(c, k) = FromEnd(b, k)
          /\ \A k \in 1..Len(a) : FromEnd(c, Len(b) + k) = FromEnd(a, k)
      <4>1. Sequence(a) /\ Sequence(b)
        BY <2>2, <2>3
      <4> QED  BY <2>5, <4>1, EndJoined
    <3>2. Again = 1 => FromEnd(c, Len(b) + 1) = FromEnd(a, 1)
      BY <2>3, <3>1
    <3> QED  BY <2>2, <2>3, <2>4, <3>1, <3>2
  <2>8. /\ Sequence(p) /\ Len(p) = 4 + Again
        /\ \A k \in 1..(2 + Again) : FromEnd(p, k) = FromEnd(c, k)
        /\ FromEnd(p, 3 + Again) = FromEnd(T, 1) /\ FromEnd(p, 4 + Again) = FromEnd(T, 2)
    <3>1. /\ Sequence(p) /\ Len(p) = Len(T) + Len(c)
          /\ \A k \in 1..Len(c) : FromEnd(p, k) = FromEnd(c, k)
          /\ \A k \in 1..Len(T) : FromEnd(p, Len(c) + k) = FromEnd(T, k)
      <4>1. Sequence(T) /\ Sequence(c)
        BY <2>1, <2>7
      <4> QED  BY <4>1, EndJoined
    <3> HIDE DEF p
    <3>2. FromEnd(p, Len(c) + 1) = FromEnd(T, 1) /\ FromEnd(p, Len(c) + 2) = FromEnd(T, 2)
      BY <2>1, <3>1
    <3>3. Len(c) + 1 = 3 + Again /\ Len(c) + 2 = 4 + Again
      BY <2>4, <2>7
    <3> QED  BY <2>1, <2>4, <2>7, <3>1, <3>2, <3>3
  <2> HIDE DEF p
  <2>9. /\ Len(q) = 8 + Again
        /\ \A k \in 1..4 : FromEnd(q, k) = FromEnd(N, k)
        /\ \A k \in 1..(4 + Again) : FromEnd(q, 4 + k) = FromEnd(p, k)
    <3>1. /\ Sequence(q) /\ Len(q) = Len(p) + Len(N)
          /\ \A k \in 1..Len(N) : FromEnd(q, k) = FromEnd(N, k)
          /\ \A k \in 1..Len(p) : FromEnd(q, Len(N) + k) = FromEnd(p, k)
      <4>1. Sequence(p) /\ Sequence(N)
        BY <1>5, <2>8
      <4> QED  BY <4>1, EndJoined
    <3> HIDE DEF q
    <3> QED  BY <1>5, <2>4, <2>8, <3>1
  <2> HIDE DEF q
  <2>10. /\ FromEnd(q, 1) = Need("nodes") /\ FromEnd(q, 2) = Put("kube", "network", "calico")
         /\ FromEnd(q, 3) = Need("operator") /\ FromEnd(q, 4) = Fetch("kube", "network", "operator")
         /\ FromEnd(q, 5) = Need("kube") /\ FromEnd(q, 6) = KubeadmInit(r, InitFile)
         /\ Again = 1 => FromEnd(q, 7) = Restart("cri-docker")
         /\ FromEnd(q, 7 + Again) = Fetch("kube", "unit", "unit")
         /\ FromEnd(q, 8 + Again) = Fetch("kube", "tools", v)
    <3>1. /\ FromEnd(q, 4 + 1) = FromEnd(p, 1) /\ FromEnd(q, 4 + 2) = FromEnd(p, 2)
          /\ Again = 1 => FromEnd(q, 4 + 3) = FromEnd(p, 3)
          /\ FromEnd(q, 4 + (3 + Again)) = FromEnd(p, 3 + Again)
          /\ FromEnd(q, 4 + (4 + Again)) = FromEnd(p, 4 + Again)
      BY <2>4, <2>9
    <3>2. /\ FromEnd(p, 1) = FromEnd(c, 1) /\ FromEnd(p, 2) = FromEnd(c, 2)
          /\ Again = 1 => FromEnd(p, 3) = FromEnd(c, 3)
      BY <2>4, <2>8
    <3>3. 4 + (3 + Again) = 7 + Again /\ 4 + (4 + Again) = 8 + Again
      BY <2>4
    <3> QED  BY <1>5, <2>1, <2>2, <2>3, <2>7, <2>8, <2>9, <3>1, <3>2, <3>3
  <2>11. \A k \in 1..(8 + Again) : KubeadmLine(k, FromEnd(q, k))
    <3>1. LET x == Fetch("kube", "tools", v) IN x.do = "fetch" /\ x.at = {Tools}
      BY DEF Fetch, Tools
    <3>2. /\ Loads(Fetch("kube", "unit", "unit"), Unit, "unit")
          /\ Loads(Fetch("kube", "network", "operator"), Network, "operator")
      BY DEF Loads, Fetch, Unit, Network
    <3> QED  BY <2>4, <2>10, <3>1, <3>2 DEF KubeadmLine
  <2>12. /\ Len(q) = 8 + Again + Built + Recorded /\ 8 + Again + Built = 8 + Again
         /\ \A k \in 1..(8 + Again) : k + Recorded = k
    BY <2>4, <2>9
  <2> QED  BY <2>4, <2>6, <2>11, <2>12, KubeadmWhole
<1>7. ASSUME source # "release", NEW T, NEW x, NEW y, Sequence(T), Len(T) = 5,
             FromEnd(T, 1) = Fetch("kube", "unit", "unit"), FromEnd(T, 2) = x,
             \A k \in 3..5 : Prepares(FromEnd(T, k)),
             x.do \in {"put", "clone"}, x.at = {Tools},
             script' = T \o (<< KubeadmInitSearches(r), Need("kube") >> \o N \o << Put("kube", "provenance", y) >>)
      PROVE  KubeadmSupplied(script')
  <2> DEFINE a == << KubeadmInitSearches(r), Need("kube") >>  p == a \o N
             b == << Put("kube", "provenance", y) >>  c == p \o b  q == T \o c
  <2>1. /\ Sequence(a) /\ Len(a) = 2 /\ FromEnd(a, 1) = Need("kube") /\ FromEnd(a, 2) = KubeadmInitSearches(r)
    <3> DEFINE i == KubeadmInitSearches(r)  s == << i, Need("kube") >>
    <3> HIDE DEF i
    <3>1. Sequence(s) /\ Len(s) = 2 /\ FromEnd(s, 1) = Need("kube") /\ FromEnd(s, 2) = i
      BY Literals DEF FromEnd
    <3> QED  BY <3>1 DEF i
  <2>0. Sequence(b) /\ Len(b) = 1 /\ FromEnd(b, 1) = Put("kube", "provenance", y)
    <3>1. Sequence(b) /\ Len(b) = 1 /\ b[1] = Put("kube", "provenance", y)
      BY Literals
    <3> HIDE DEF b
    <3> QED  BY <3>1 DEF FromEnd
  <2>2. /\ Again = 0 /\ Recorded = 1 /\ Built = 3 /\ script' = q
        /\ Initialises = KubeadmInitSearches(r)
    BY <1>7 DEF Again, Recorded, Release, Built, Initialises
  <2> HIDE DEF a, b
  <2>3. /\ Sequence(p) /\ Len(p) = 6
        /\ \A k \in 1..4 : FromEnd(p, k) = FromEnd(N, k)
        /\ \A k \in 1..2 : FromEnd(p, 4 + k) = FromEnd(a, k)
    <3>1. Sequence(a) /\ Sequence(N)
      BY <1>5, <2>1
    <3>2. /\ Sequence(p) /\ Len(p) = Len(a) + Len(N)
          /\ \A k \in 1..Len(N) : FromEnd(p, k) = FromEnd(N, k)
          /\ \A k \in 1..Len(a) : FromEnd(p, Len(N) + k) = FromEnd(a, k)
      BY <3>1, EndJoined
    <3> HIDE DEF p
    <3> QED  BY <1>5, <2>1, <3>2
  <2> HIDE DEF p
  <2>4. /\ Sequence(c) /\ Len(c) = 7
        /\ \A k \in 1..1 : FromEnd(c, k) = FromEnd(b, k)
        /\ \A k \in 1..6 : FromEnd(c, 1 + k) = FromEnd(p, k)
    <3>1. Sequence(p) /\ Sequence(b)
      BY <2>0, <2>3
    <3>2. /\ Sequence(c) /\ Len(c) = Len(p) + Len(b)
          /\ \A k \in 1..Len(b) : FromEnd(c, k) = FromEnd(b, k)
          /\ \A k \in 1..Len(p) : FromEnd(c, Len(b) + k) = FromEnd(p, k)
      BY <3>1, EndJoined
    <3> HIDE DEF c
    <3> QED  BY <2>0, <2>3, <3>2
  <2> HIDE DEF c
  <2>5. /\ Sequence(q) /\ Len(q) = 12
        /\ \A k \in 1..7 : FromEnd(q, k) = FromEnd(c, k)
        /\ \A k \in 1..5 : FromEnd(q, 7 + k) = FromEnd(T, k)
    <3>1. Sequence(T) /\ Sequence(c)
      BY <1>7, <2>4
    <3>2. /\ Sequence(q) /\ Len(q) = Len(T) + Len(c)
          /\ \A k \in 1..Len(c) : FromEnd(q, k) = FromEnd(c, k)
          /\ \A k \in 1..Len(T) : FromEnd(q, Len(c) + k) = FromEnd(T, k)
      BY <3>1, EndJoined
    <3> HIDE DEF q
    <3> QED  BY <1>7, <2>4, <3>2
  <2> HIDE DEF q
  <2>6. /\ FromEnd(q, 1) = Put("kube", "provenance", y)
        /\ FromEnd(q, 1 + 1) = Need("nodes") /\ FromEnd(q, 2 + 1) = Put("kube", "network", "calico")
        /\ FromEnd(q, 3 + 1) = Need("operator") /\ FromEnd(q, 4 + 1) = Fetch("kube", "network", "operator")
        /\ FromEnd(q, 5 + 1) = Need("kube") /\ FromEnd(q, 6 + 1) = KubeadmInitSearches(r)
        /\ FromEnd(q, 7 + 1) = Fetch("kube", "unit", "unit")
        /\ FromEnd(q, 8 + 1) = x
        /\ Prepares(FromEnd(q, 9 + 1)) /\ Prepares(FromEnd(q, 10 + 1)) /\ Prepares(FromEnd(q, 11 + 1))
    <3>1. /\ FromEnd(q, 1) = FromEnd(c, 1) /\ FromEnd(q, 2) = FromEnd(c, 1 + 1) /\ FromEnd(q, 3) = FromEnd(c, 1 + 2)
          /\ FromEnd(q, 4) = FromEnd(c, 1 + 3) /\ FromEnd(q, 5) = FromEnd(c, 1 + 4)
          /\ FromEnd(q, 6) = FromEnd(c, 1 + 5) /\ FromEnd(q, 7) = FromEnd(c, 1 + 6)
          /\ FromEnd(q, 7 + 1) = FromEnd(T, 1) /\ FromEnd(q, 7 + 2) = FromEnd(T, 2)
          /\ FromEnd(q, 7 + 3) = FromEnd(T, 3) /\ FromEnd(q, 7 + 4) = FromEnd(T, 4)
          /\ FromEnd(q, 7 + 5) = FromEnd(T, 5)
      BY <2>5
    <3>2. /\ FromEnd(c, 1) = FromEnd(b, 1) /\ FromEnd(c, 1 + 1) = FromEnd(p, 1) /\ FromEnd(c, 1 + 2) = FromEnd(p, 2)
          /\ FromEnd(c, 1 + 3) = FromEnd(p, 3) /\ FromEnd(c, 1 + 4) = FromEnd(p, 4)
          /\ FromEnd(c, 1 + 5) = FromEnd(p, 4 + 1) /\ FromEnd(c, 1 + 6) = FromEnd(p, 4 + 2)
      BY <2>4
    <3>3. /\ FromEnd(p, 1) = FromEnd(N, 1) /\ FromEnd(p, 2) = FromEnd(N, 2) /\ FromEnd(p, 3) = FromEnd(N, 3)
          /\ FromEnd(p, 4) = FromEnd(N, 4) /\ FromEnd(p, 4 + 1) = FromEnd(a, 1) /\ FromEnd(p, 4 + 2) = FromEnd(a, 2)
      BY <2>3
    <3>4. /\ 1 + 1 = 2 /\ 2 + 1 = 3 /\ 3 + 1 = 4 /\ 4 + 1 = 5 /\ 5 + 1 = 6 /\ 6 + 1 = 7
          /\ 7 + 1 = 8 /\ 7 + 2 = 9 /\ 8 + 1 = 9
          /\ 7 + 3 = 10 /\ 7 + 4 = 11 /\ 7 + 5 = 12 /\ 9 + 1 = 10 /\ 10 + 1 = 11 /\ 11 + 1 = 12
          /\ 3 \in 3..5 /\ 4 \in 3..5 /\ 5 \in 3..5
      OBVIOUS
    <3>5. /\ FromEnd(q, 1) = FromEnd(b, 1)
          /\ FromEnd(q, 2) = FromEnd(N, 1) /\ FromEnd(q, 3) = FromEnd(N, 2) /\ FromEnd(q, 4) = FromEnd(N, 3)
          /\ FromEnd(q, 5) = FromEnd(N, 4) /\ FromEnd(q, 6) = FromEnd(a, 1) /\ FromEnd(q, 7) = FromEnd(a, 2)
          /\ FromEnd(q, 8) = FromEnd(T, 1) /\ FromEnd(q, 9) = FromEnd(T, 2)
          /\ FromEnd(q, 10) = FromEnd(T, 3) /\ FromEnd(q, 11) = FromEnd(T, 4) /\ FromEnd(q, 12) = FromEnd(T, 5)
      BY <3>1, <3>2, <3>3, <3>4
    <3> HIDE DEF r
    <3> QED  BY <1>5, <1>7, <2>1, <2>0, <2>2, <3>4, <3>5
  <2>7. \A k \in 1..(8 + Again + Built) : KubeadmLine(k, FromEnd(q, k + Recorded))
    <3>1. /\ Loads(Fetch("kube", "unit", "unit"), Unit, "unit")
          /\ Loads(Fetch("kube", "network", "operator"), Network, "operator")
      BY DEF Loads, Fetch, Unit, Network
    <3>2. 8 + Again + Built = 11 /\ 8 + Again = 8 /\ 7 + Again = 7 /\ Again # 1
      BY <2>2
    <3>3. ASSUME NEW k \in 1..11 PROVE KubeadmLine(k, FromEnd(q, k + 1))
      <4> HIDE DEF r
      <4>1. \/ k = 1 \/ k = 2 \/ k = 3 \/ k = 4 \/ k = 5 \/ k = 6 \/ k = 7 \/ k = 8
            \/ k = 9 \/ k = 10 \/ k = 11
        OBVIOUS
      <4>2. CASE k \in {1, 2, 3, 4, 5}
        BY <2>6, <3>1, <3>2, <4>2 DEF KubeadmLine
      <4>3. CASE k \in {6, 7, 8}
        BY <1>7, <2>2, <2>6, <3>1, <3>2, <4>3 DEF KubeadmLine
      <4>4. CASE k \in {9, 10, 11}
        BY <2>6, <3>2, <4>4 DEF KubeadmLine
      <4> QED  BY <4>1, <4>2, <4>3, <4>4
    <3> QED  BY <2>2, <3>2, <3>3
  <2>8. Len(q) = 8 + Again + Built + Recorded
    BY <2>2, <2>5
  <2>9. FromEnd(q, 1).do = "put" /\ FromEnd(q, 1).at = {<<"kube", "provenance">>}
    BY <2>6 DEF Put, PutOneOf
  <2> QED  BY <2>2, <2>7, <2>8, <2>9, KubeadmWhole
<1>8. CASE source = "git" /\ script' = KubeadmGitTools(v) \o KubeadmGitCluster(v, r)
  <2> DEFINE T == KubeadmGitTools(v)  x == Put("kube", "tools", v)
  <2>1. /\ Sequence(T) /\ Len(T) = 5 /\ FromEnd(T, 1) = Fetch("kube", "unit", "unit")
        /\ FromEnd(T, 2) = x /\ \A k \in 3..5 : Prepares(FromEnd(T, k))
    BY BuilderLines DEF KubeadmGitTools
  <2>2. x.do = "put" /\ x.at = {Tools}
    BY DEF Put, PutOneOf, Tools
  <2>3. script' = T \o (<< KubeadmInitSearches(r), Need("kube") >> \o N \o << Put("kube", "provenance", v) >>)
    BY <1>8 DEF KubeadmGitCluster, N
  <2> HIDE DEF T, x
  <2> QED  BY <1>7, <1>8, <2>1, <2>2, <2>3
<1>9. CASE source = "latest" /\ script' = KubeadmLatestTools \o KubeadmLatestCluster(branch, r)
  <2> DEFINE T == KubeadmLatestTools  x == Clone({<<"kube", "tools">>})
  <2>1. /\ Sequence(T) /\ Len(T) = 5 /\ FromEnd(T, 1) = Fetch("kube", "unit", "unit")
        /\ FromEnd(T, 2) = x /\ \A k \in 3..5 : Prepares(FromEnd(T, k))
    BY BuilderLines DEF KubeadmLatestTools
  <2>2. x.do = "clone" /\ x.at = {Tools}
    BY DEF Clone, Tools
  <2>3. script' = T \o (<< KubeadmInitSearches(r), Need("kube") >> \o N \o << Put("kube", "provenance", branch) >>)
    BY <1>9 DEF KubeadmLatestCluster, N
  <2> HIDE DEF T, x
  <2> QED  BY <1>7, <1>9, <2>1, <2>2, <2>3
<1>10. doc.kubernetes[1] \in {"kubeadm", ""}
  BY DEF Kubeadm
<1> QED  BY <1>2, <1>3, <1>4, <1>6, <1>8, <1>9, <1>10 DEF KubernetesScript

\* What the lines of a script of Kubernetes do.
LEMMA LineEffects ==
  ASSUME BaseInv, RunningScript, Effect
  PROVE  /\ \A i : Step.do = "put" /\ Step.at = {i} =>
              /\ Moves /\ UNCHANGED <<config, proc>>
              /\ \E v \in Step.val : disk' = [disk EXCEPT ![i] = v]
         /\ \A c, p, v : Step = Keep(c, p, v) =>
              /\ Moves /\ UNCHANGED <<config, proc>>
              /\ disk' = [disk EXCEPT ![<<c, p>>] = IF @ # "none" THEN @ ELSE v]
         /\ \A i : Step.do = "fetch" /\ Step.at = {i} =>
              /\ UNCHANGED <<config, proc>>
              /\ \/ (disk[i] = "none" /\ disk' = [disk EXCEPT ![i] = "partial"] /\ Refetches)
                 \/ (disk[i] # "none" /\ UNCHANGED disk /\ Moves)
         /\ \A i : Step.do = "clone" /\ Step.at = {i} =>
              /\ Moves /\ UNCHANGED <<config, proc>>
              /\ disk' = [disk EXCEPT ![i] = branch]
         /\ \A c : Step = Need(c) => Moves /\ UNCHANGED <<disk, config, proc>> /\ Holds(c)
         /\ \A d : Step = Restart(d) =>
              /\ Moves /\ UNCHANGED <<disk, config>> /\ Started(d).build # "none"
              /\ d = "cri-docker" => proc' = [proc EXCEPT ![d] = Started(d)]
         /\ Step.do \in {"stop", "add"} => Moves
         /\ Step.do = "whole" => Moves /\ UNCHANGED <<disk, config, proc>>
         /\ Step.do = "init" =>
              /\ Moves /\ UNCHANGED config
              /\ IF disk[Admin] # "none" THEN UNCHANGED <<disk, proc>>
                 ELSE /\ disk[Tools] \notin {"none", "partial"}
                      /\ disk' = [disk EXCEPT ![Admin] = disk[Tools]]
                      /\ proc' = [proc EXCEPT !["kube"] = [build |-> disk[Tools], config |-> {}]]
<1>1. Sequence(script) /\ Len(script) # 0 /\ (Pass => Moves)
  BY RunningLine, PassMoves DEF BaseInv
<1>2. ASSUME NEW i, Step.do = "put", Step.at = {i}
      PROVE  /\ Moves /\ UNCHANGED <<config, proc>>
             /\ \E v \in Step.val : disk' = [disk EXCEPT ![i] = v]
  <2>1. PutStep
    BY <1>2 DEF Effect, FetchStep, CloneStep, CopyStep, PackageStep,
       ConfigStep, DaemonStep, StopStep, CheckStep, InitStep
  <2> QED  BY <1>1, <1>2, <2>1 DEF PutStep
<1>3. ASSUME NEW c, NEW p, NEW v, Step = Keep(c, p, v)
      PROVE  /\ Moves /\ UNCHANGED <<config, proc>>
             /\ disk' = [disk EXCEPT ![<<c, p>>] = IF @ # "none" THEN @ ELSE v]
  <2>1. Step.do = "keep" /\ Step.at = {<<c, p>>} /\ Step.val = {v}
    BY <1>3 DEF Keep
  <2>2. PutStep
    BY <2>1 DEF Effect, FetchStep, CloneStep, CopyStep, PackageStep,
       ConfigStep, DaemonStep, StopStep, CheckStep, InitStep
  <2> QED  BY <1>1, <2>1, <2>2 DEF PutStep
<1>4. ASSUME NEW i, Step.do = "fetch", Step.at = {i}
      PROVE  /\ UNCHANGED <<config, proc>>
             /\ \/ (disk[i] = "none" /\ disk' = [disk EXCEPT ![i] = "partial"] /\ Refetches)
                \/ (disk[i] # "none" /\ UNCHANGED disk /\ Moves)
  <2>1. FetchStep
    BY <1>4 DEF Effect, PutStep, CloneStep, CopyStep, PackageStep, ConfigStep, DaemonStep, StopStep, CheckStep, InitStep
  <2>2. script' = <<PutOneOf(Step.at, Step.val)>> \o Tail(script) => Refetches
    BY <1>1, <1>4, FetchRefetches
  <2> QED  BY <1>1, <1>4, <2>1, <2>2 DEF FetchStep
<1>5. ASSUME NEW i, Step.do = "clone", Step.at = {i}
      PROVE  Moves /\ UNCHANGED <<config, proc>> /\ disk' = [disk EXCEPT ![i] = branch]
  <2>1. CloneStep
    BY <1>5 DEF Effect, FetchStep, PutStep, CopyStep, PackageStep, ConfigStep, DaemonStep, StopStep, CheckStep, InitStep
  <2> QED  BY <1>1, <1>5, <2>1 DEF CloneStep
<1>6. ASSUME NEW c, Step = Need(c) PROVE Moves /\ UNCHANGED <<disk, config, proc>> /\ Holds(c)
  BY <1>1, <1>6, KnownLines
<1>7. ASSUME NEW d, Step = Restart(d)
      PROVE  /\ Moves /\ UNCHANGED <<disk, config>> /\ Started(d).build # "none"
             /\ d = "cri-docker" => proc' = [proc EXCEPT ![d] = Started(d)]
  <2>1. Step.do = "restart" /\ Step.at = {d}
    BY <1>7 DEF Restart
  <2>2. DaemonStep
    BY <2>1 DEF Effect, FetchStep, PutStep, CopyStep, PackageStep, ConfigStep, CloneStep, StopStep, CheckStep, InitStep
  <2>3. Started(d).build # "none" /\ \E lost \in LostWith(d) : proc' = WithStarted(d, Started(d), lost)
    BY <2>1, <2>2 DEF DaemonStep
  <2>4. d = "cri-docker" => proc' = [proc EXCEPT ![d] = Started(d)]
    BY <2>3 DEF BaseInv, NodeTypes, LostWith, WithStarted
  <2> QED  BY <1>1, <2>2, <2>3, <2>4 DEF DaemonStep
<1>8. Step.do \in {"stop", "add"} => Moves
  BY <1>1 DEF Effect, FetchStep, PutStep, CloneStep, CopyStep, PackageStep,
     ConfigStep, DaemonStep, StopStep, CheckStep, InitStep
<1>10. ASSUME Step.do = "whole" PROVE Moves /\ UNCHANGED <<disk, config, proc>>
  <2>1. CheckStep
    BY <1>10 DEF Effect, FetchStep, PutStep, CloneStep, CopyStep, PackageStep,
       ConfigStep, DaemonStep, StopStep, InitStep
  <2> QED  BY <1>1, <2>1 DEF CheckStep, node
<1>9. ASSUME Step.do = "init"
      PROVE  /\ Moves /\ UNCHANGED config
             /\ IF disk[Admin] # "none" THEN UNCHANGED <<disk, proc>>
                ELSE /\ disk[Tools] \notin {"none", "partial"}
                     /\ disk' = [disk EXCEPT ![Admin] = disk[Tools]]
                     /\ proc' = [proc EXCEPT !["kube"] = [build |-> disk[Tools], config |-> {}]]
  <2>2. InitStep
    BY <1>9 DEF Effect, FetchStep, PutStep, CopyStep, PackageStep,
       ConfigStep, CloneStep, StopStep, CheckStep, DaemonStep
  <2>3. CanInit => disk[Tools] \notin {"none", "partial"}
    BY DEF CanInit, Tools
  <2> QED  BY <1>1, <2>2, <2>3 DEF InitStep, Tools, Admin
<1> QED  BY <1>2, <1>3, <1>4, <1>5, <1>6, <1>7, <1>8, <1>9, <1>10

\* The line that a script of kubeadm is at.
LEMMA KubeadmHead ==
  ASSUME BaseInv, RunningScript, KubeadmSupplied(script)
  PROVE  LET l == Len(script) - Recorded IN
         /\ l \in 0..(8 + Again + Built) /\ Again \in {0, 1} /\ Recorded \in {0, 1} /\ Built \in {0, 3}
         /\ KubeadmReached(l)
         /\ l # 0 => KubeadmLine(l, Step)
         /\ l = 0 => Recorded = 1 /\ Step.do = "put" /\ Step.at = {<<"kube", "provenance">>}
<1> DEFINE n == Len(script)  l == n - Recorded
<1>1. n \in Nat \ {0} /\ Step = script[1] /\ Again \in {0, 1} /\ Recorded \in {0, 1} /\ Built \in {0, 3}
  BY RunningLine DEF BaseInv, Again, Recorded, Built
<1>2. l <= 8 + Again + Built /\ KubeadmReached(l)
  BY <1>1 DEF KubeadmSupplied
<1> HIDE DEF n
<1>3. l \in 0..(8 + Again + Built)
  BY <1>1, <1>2
<1>4. FromEnd(script, n) = Step
  BY <1>1 DEF FromEnd, n
<1>5. l + Recorded = n
  BY <1>1
<1>6. l # 0 => KubeadmLine(l, Step)
  <2>1. l # 0 => l \in 1..l
    BY <1>3
  <2>2. \A k \in 1..l : KubeadmLine(k, FromEnd(script, k + Recorded))
    BY <1>1 DEF KubeadmSupplied, n
  <2> HIDE DEF l
  <2> QED  BY <1>4, <1>5, <2>1, <2>2
<1>7. l = 0 => Recorded = 1 /\ Step.do = "put" /\ Step.at = {<<"kube", "provenance">>}
  <2> SUFFICES ASSUME l = 0 PROVE Recorded = 1 /\ Step.do = "put" /\ Step.at = {<<"kube", "provenance">>}
    OBVIOUS
  <2>1. n = 1 /\ Recorded = 1
    BY <1>1
  <2>2. FromEnd(script, 1).do = "put" /\ FromEnd(script, 1).at = {<<"kube", "provenance">>}
    BY <2>1 DEF KubeadmSupplied, n
  <2> QED  BY <1>4, <2>1, <2>2
<1> QED  BY <1>1, <1>2, <1>3, <1>6, <1>7 DEF n

\* The rest of the program is one again, if what its next line needs is there.
LEMMA KubeadmMovesOn ==
  ASSUME BaseInv, ScriptStep, At("kubernetes"), KubeadmSupplied(script), Moves \/ Refetches,
         (Len(script) # 0 => KubeadmReached(Len(script) - Recorded))'
  PROVE  KubeadmSupplied(script)'
<1> DEFINE n == Len(script)  l == n - Recorded  m == Len(script')
<1>1. /\ RunningScript /\ UNCHANGED doc /\ n \in Nat \ {0} /\ Step = script[1]
  BY ScriptLine DEF Part
<1>2. /\ Again' = Again /\ Recorded' = Recorded /\ Built' = Built
      /\ \A k, x : KubeadmLine(k, x)' <=> KubeadmLine(k, x)
  <2>1. /\ Again' = Again /\ Recorded' = Recorded /\ Built' = Built
        /\ OwnRuntime' = OwnRuntime /\ (InitFile' <=> InitFile) /\ (Release' <=> Release)
    BY <1>1 DEF Again, Recorded, Built, Release, OwnRuntime, RuntimeOf, InitFile
  <2>2. Initialises' = Initialises
    BY <2>1 DEF KubeadmInit, Initialises
  <2> QED  BY <2>1, <2>2 DEF KubeadmLine
<1>3. /\ l \in 0..(8 + Again + Built) /\ Again \in {0, 1} /\ Recorded \in {0, 1} /\ Built \in {0, 3}
      /\ l # 0 => KubeadmLine(l, Step)
  BY <1>1, KubeadmHead
<1>4. ASSUME NEW k \in 1..(l - 1) PROVE KubeadmLine(k, FromEnd(script, k + Recorded))
  <2>1. k \in 1..l /\ k # l
    BY <1>1, <1>3
  <2> QED  BY <1>1, <2>1 DEF KubeadmSupplied
<1>5. Recorded = 1 => FromEnd(script, 1).do = "put" /\ FromEnd(script, 1).at = {<<"kube", "provenance">>}
  BY <1>1 DEF KubeadmSupplied
<1>8. ASSUME m # 0 => m - Recorded <= 8 + Again + Built,
             \A k \in 1..(m - Recorded) : KubeadmLine(k, FromEnd(script', k + Recorded)),
             m # 0 /\ Recorded = 1 =>
               FromEnd(script', 1).do = "put" /\ FromEnd(script', 1).at = {<<"kube", "provenance">>}
      PROVE  KubeadmSupplied(script)'
  <2>1. m # 0 => KubeadmReached(Len(script) - Recorded)'
    OBVIOUS
  <2>2. \A k : FromEnd(script, k)' = FromEnd(script', k)
    BY DEF FromEnd
  <2>3. (Len(script) - Recorded)' = m - Recorded
    BY <1>2
  <2> HIDE DEF l, n
  <2> QED  BY <1>2, <1>8, <2>1, <2>2, <2>3 DEF KubeadmSupplied
<1>6. CASE Moves
  <2>1. m = n - 1 /\ \A i \in 1..m : script'[i] = script[i + 1]
    BY <1>6 DEF Moves
  <2>2. ASSUME NEW k \in 1..m PROVE FromEnd(script', k) = FromEnd(script, k)
    <3>1. 1 + m - k \in 1..m /\ (1 + m - k) + 1 = 1 + n - k
      BY <1>1, <2>1
    <3> QED  BY <2>1, <3>1 DEF FromEnd
  <2>3. \A k \in 1..(m - Recorded) : k \in 1..(l - 1) /\ k + Recorded \in 1..m
    BY <1>1, <1>3, <2>1
  <2>4. ASSUME NEW k \in 1..(m - Recorded) PROVE KubeadmLine(k, FromEnd(script', k + Recorded))
    BY <1>4, <2>2, <2>3
  <2>5. m # 0 => m - Recorded <= 8 + Again + Built /\ 1 \in 1..m
    BY <1>1, <1>3, <2>1
  <2> HIDE DEF m
  <2> QED  BY <1>5, <1>8, <2>2, <2>4, <2>5
<1>7. CASE Refetches
  <2>1. /\ m = n /\ script'[1] = PutOneOf(Step.at, Step.val) /\ Step.do = "fetch"
        /\ \A i \in 2..n : script'[i] = script[i]
    BY <1>7 DEF Refetches
  <2>2. ASSUME NEW k \in 1..(n - 1) PROVE FromEnd(script', k) = FromEnd(script, k)
    <3>1. 1 + n - k \in 2..n
      BY <1>1
    <3> QED  BY <2>1, <3>1 DEF FromEnd
  <2>3. l # 0
    <3>1. Step.do # "put"
      BY <2>1
    <3> QED  BY <1>1, <3>1, KubeadmHead
  <2>4. KubeadmLine(l, Step)
    BY <1>3, <2>3
  <2>5. KubeadmLine(l, script'[1])
    <3>1. /\ \A c : Need(c).do # "fetch"
          /\ \A c, p, v : Put(c, p, v).do # "fetch"
          /\ \A c : Restart(c).do # "fetch"
          /\ Initialises.do # "fetch"
      BY DEF Need, Put, PutOneOf, KubeadmInit, KubeadmInitSearches, Restart, Initialises
    <3>2. script'[1].do = "put" /\ script'[1].at = Step.at /\ script'[1].val = Step.val
      BY <2>1 DEF PutOneOf
    <3> HIDE DEF l
    <3>3. /\ \A i, v : Loads(Step, i, v) => Loads(script'[1], i, v)
          /\ Prepares(Step) => Prepares(script'[1])
      BY <3>2 DEF Loads, Prepares
    <3> QED  BY <2>1, <2>4, <3>1, <3>2, <3>3 DEF KubeadmLine
  <2>6. FromEnd(script', n) = script'[1]
    BY <1>1, <2>1 DEF FromEnd
  <2>8. ASSUME NEW k \in 1..l PROVE KubeadmLine(k, FromEnd(script', k + Recorded))
    <3>1. CASE k = l
      <4>1. k + Recorded = n
        BY <1>1, <1>3, <3>1
      <4> QED  BY <2>5, <2>6, <3>1, <4>1
    <3>2. CASE k # l
      <4>1. k \in 1..(l - 1) /\ k + Recorded \in 1..(n - 1)
        BY <1>1, <1>3, <3>2
      <4> QED  BY <1>4, <2>2, <4>1
    <3> QED  BY <3>1, <3>2
  <2>9. l <= 8 + Again + Built /\ m - Recorded = l /\ (Recorded = 1 => 1 \in 1..(n - 1))
    BY <1>1, <1>3, <2>1, <2>3
  <2>10. m # 0 /\ Recorded = 1 => FromEnd(script', 1) = FromEnd(script, 1)
    BY <2>2, <2>9
  <2> HIDE DEF l, m, n
  <2> QED  BY <1>5, <1>8, <2>8, <2>9, <2>10
<1> QED  BY <1>6, <1>7

KubeKnown ==
  /\ disk[Tools] \in Build \cup {"none", "partial"}
  /\ disk[Network] \in {"none", "partial", "operator", "calico"}
  /\ disk[Unit] \in {"none", "partial", "unit"}
  /\ disk[Admin] \in Build \cup {"none"}
  /\ disk[Admin] # "none" => Up("kube")

\* The items of kubeadm are different ones, and nothing removes them.
LEMMA KubeItems ==
  /\ Tools \in Item \ Removable /\ Unit \in Item \ Removable
  /\ Admin \in Item \ Removable /\ Network \in Item \ Removable
  /\ Tools # Unit /\ Tools # Admin /\ Tools # Network /\ Unit # Admin /\ Unit # Network /\ Admin # Network
  /\ "none" \notin Build /\ "partial" \notin Build
  /\ {Tools} # {Unit} /\ {Tools} # {Admin} /\ {Tools} # {Network} /\ {Unit} # {Network}
  /\ <<"kube", "provenance">> \notin {Tools, Unit, Admin, Network}
<1>1. /\ Tools \in Item \ Removable /\ Unit \in Item \ Removable
      /\ Admin \in Item \ Removable /\ Network \in Item \ Removable
  BY DEF Tools, Unit, Admin, Network, Item, Removable
<1>2. /\ Tools # Unit /\ Tools # Admin /\ Tools # Network /\ Unit # Admin /\ Unit # Network /\ Admin # Network
      /\ <<"kube", "provenance">> \notin {Tools, Unit, Admin, Network}
  BY DEF Tools, Unit, Admin, Network
<1>3. "none" \notin Build /\ "partial" \notin Build
  BY BuildAssumption DEF Build
<1> HIDE DEF Tools, Unit, Admin, Network
<1>4. {Tools} # {Unit} /\ {Tools} # {Admin} /\ {Tools} # {Network} /\ {Unit} # {Network}
  BY <1>2
<1> QED  BY <1>1, <1>2, <1>3, <1>4

\* What the line l of kubeadm from the end changes of what KubeadmReached and
\* KubeKnown speak of.
LEMMA KubeadmWrites ==
  ASSUME BaseInv, PartsKnown, ScriptStep, At("kubernetes"), Kubeadm, KubeadmSupplied(script), KubeKnown
  PROVE  LET l == Len(script) - Recorded IN
         /\ l # 8 + Again => UNCHANGED disk[Tools]
         /\ l = 8 + Again =>
              \/ disk'[Tools] \in Build
              \/ (disk[Tools] = "none" /\ disk'[Tools] = "partial" /\ Refetches)
         /\ l # 7 + Again => UNCHANGED disk[Unit]
         /\ l = 7 + Again => disk'[Unit] = "unit" \/ (disk'[Unit] = "partial" /\ Refetches)
         /\ l # 6 => UNCHANGED disk[Admin] /\ UNCHANGED proc["kube"]
         /\ l = 6 => disk'[Admin] \in Build /\ Up("kube")' 
         /\ l \notin {2, 4} => UNCHANGED disk[Network]
         /\ l = 4 =>
              \/ disk'[Network] \in {"operator", "calico"}
              \/ (disk[Network] = "none" /\ disk'[Network] = "partial" /\ Refetches)
         /\ l = 2 => disk'[Network] = "calico"
         /\ Up("cri-docker") \/ (l = 7 /\ Again = 1) => Up("cri-docker")'
         /\ Moves \/ Refetches
<1> DEFINE l == Len(script) - Recorded
<1>1. /\ RunningScript /\ Effect /\ UNCHANGED doc /\ StepOf("kubernetes", Step)
  BY ScriptLine DEF Part
<1>2. /\ l \in 0..(8 + Again + Built) /\ Again \in {0, 1} /\ Recorded \in {0, 1} /\ Built \in {0, 3}
      /\ KubeadmReached(l)
      /\ l # 0 => KubeadmLine(l, Step)
      /\ l = 0 => Step.do = "put" /\ Step.at = {<<"kube", "provenance">>}
  BY <1>1, KubeadmHead
<1>3. /\ disk \in [Item -> Content] /\ branch \in Commit
      /\ proc \in [Daemon -> [build : Content, config : SUBSET Setting]]
  BY DEF BaseInv, NodeTypes
<1>4. {"kube", "cri-docker"} \subseteq Daemon
  BY DEF Daemon
<1> HIDE DEF l
<1>14. ASSUME NEW i, NEW v, Loads(Step, i, v)
       PROVE  /\ UNCHANGED <<config, proc>>
              /\ \/ (Moves /\ disk' = [disk EXCEPT ![i] = v])
                 \/ (disk[i] = "none" /\ disk' = [disk EXCEPT ![i] = "partial"] /\ Refetches)
                 \/ (Moves /\ disk[i] \notin {"none", "partial"} /\ UNCHANGED disk)
  <2>1. Step.do \in {"put", "fetch"} /\ Step.at = {i} /\ Step.val = {v}
    BY <1>14 DEF Loads
  <2>2. CASE Step.do = "put"
    BY <1>1, <2>1, <2>2, LineEffects
  <2>3. CASE Step.do = "fetch"
    <3>1. /\ UNCHANGED <<config, proc>>
          /\ \/ (disk[i] = "none" /\ disk' = [disk EXCEPT ![i] = "partial"] /\ Refetches)
             \/ (disk[i] # "none" /\ UNCHANGED disk /\ Moves)
      BY <1>1, <2>1, <2>3, LineEffects
    <3>2. Moves => disk[i] \notin {"none", "partial"}
      BY <1>1, <2>1, <2>3, FetchPasses
    <3> QED  BY <3>1, <3>2
  <2> QED  BY <2>1, <2>2, <2>3
<1>5. CASE l = 0
  <2>1. /\ Moves /\ UNCHANGED <<config, proc>>
        /\ \E v \in Step.val : disk' = [disk EXCEPT ![<<"kube", "provenance">>] = v]
    BY <1>1, <1>2, <1>5, LineEffects
  <2>2. l # 8 + Again /\ l # 7 + Again /\ l # 6 /\ l # 4 /\ l # 2 /\ l # 7
    BY <1>2, <1>5
  <2>3. UNCHANGED <<disk[Tools], disk[Unit], disk[Admin], disk[Network]>>
    BY <1>3, <2>1, KubeItems
  <2> QED  BY <2>1, <2>2, <2>3 DEF l, Up, Off
<1>6. CASE l \in {1, 3, 5}
  <2>1. \E c : Step = Need(c)
    BY <1>2, <1>6, KubeItems DEF KubeadmLine
  <2>2. Moves /\ UNCHANGED <<disk, config, proc>>
    BY <1>1, <2>1, LineEffects
  <2>3. l # 8 + Again /\ l # 7 + Again /\ l # 6 /\ l # 4 /\ l # 2 /\ l # 7
    BY <1>2, <1>6
  <2> QED  BY <2>2, <2>3 DEF l, Up, Off
<1>7. CASE l = 2
  <2>1. Step = Put("kube", "network", "calico")
    BY <1>2, <1>7 DEF KubeadmLine
  <2>2. Step.do = "put" /\ Step.at = {Network} /\ Step.val = {"calico"}
    BY <2>1 DEF Put, PutOneOf, Network
  <2>3. /\ Moves /\ UNCHANGED <<config, proc>>
        /\ disk' = [disk EXCEPT ![Network] = "calico"]
    BY <1>1, <2>2, LineEffects
  <2>4. l # 8 + Again /\ l # 7 + Again /\ l # 6 /\ l # 4 /\ l # 7
    BY <1>2, <1>7
  <2>5. UNCHANGED <<disk[Tools], disk[Unit], disk[Admin]>> /\ disk'[Network] = "calico"
    BY <1>3, <2>3, KubeItems
  <2> QED  BY <1>7, <2>3, <2>4, <2>5 DEF l, Up, Off
<1>8. CASE l = 4
  <2>1. Loads(Step, Network, "operator")
    BY <1>2, <1>8 DEF KubeadmLine
  <2>2. /\ UNCHANGED <<config, proc>>
        /\ \/ (Moves /\ disk' = [disk EXCEPT ![Network] = "operator"])
           \/ (disk[Network] = "none" /\ disk' = [disk EXCEPT ![Network] = "partial"] /\ Refetches)
           \/ (Moves /\ disk[Network] \notin {"none", "partial"} /\ UNCHANGED disk)
    BY <1>14, <2>1
  <2>3. l # 8 + Again /\ l # 7 + Again /\ l # 6 /\ l # 2 /\ l # 7
    BY <1>2, <1>8
  <2>4. UNCHANGED <<disk[Tools], disk[Unit], disk[Admin]>>
    BY <1>3, <2>2, KubeItems
  <2>5. disk[Network] \notin {"none", "partial"} => disk[Network] \in {"operator", "calico"}
    BY DEF KubeKnown
  <2>6. disk'[Network] \in {"operator", "calico"} \/ (disk[Network] = "none" /\ disk'[Network] = "partial" /\ Refetches)
    BY <1>3, <2>2, <2>5, KubeItems
  <2> QED  BY <1>8, <2>2, <2>3, <2>4, <2>6 DEF l, Up, Off
<1>9. CASE l = 6
  <2>1. Step.do = "init"
    BY <1>2, <1>9 DEF KubeadmLine, Initialises, KubeadmInit, KubeadmInitSearches
  <2>2. /\ Moves /\ UNCHANGED config
        /\ IF disk[Admin] # "none" THEN UNCHANGED <<disk, proc>>
           ELSE /\ disk[Tools] \notin {"none", "partial"}
                /\ disk' = [disk EXCEPT ![Admin] = disk[Tools]]
                /\ proc' = [proc EXCEPT !["kube"] = [build |-> disk[Tools], config |-> {}]]
    BY <1>1, <2>1, LineEffects
  <2>3. l # 8 + Again /\ l # 7 + Again /\ l # 4 /\ l # 2 /\ l # 7
    BY <1>2, <1>9
  <2>4. disk[Tools] \in Build
    BY <1>2, <1>9 DEF KubeadmReached
  <2>5. UNCHANGED <<disk[Tools], disk[Unit], disk[Network], proc["cri-docker"]>>
    <3>1. UNCHANGED <<disk[Tools], disk[Unit], disk[Network]>>
      BY <1>3, <2>2, KubeItems
    <3>2. UNCHANGED proc["cri-docker"]
      BY <1>3, <1>4, <2>2
    <3> QED  BY <3>1, <3>2
  <2>6. disk'[Admin] \in Build /\ Up("kube")'
    <3>1. CASE disk[Admin] # "none"
      BY <2>2, <3>1 DEF KubeKnown, Up, Off
    <3>2. CASE disk[Admin] = "none"
      BY <1>3, <1>4, <2>2, <2>4, <3>2, KubeItems DEF Up, Off
    <3> QED  BY <3>1, <3>2
  <2> QED  BY <1>9, <2>2, <2>3, <2>5, <2>6 DEF l, Up, Off
<1>10. CASE l = 7 /\ Again = 1
  <2>1. Step = Restart("cri-docker")
    BY <1>2, <1>10 DEF KubeadmLine
  <2>2. /\ Moves /\ UNCHANGED <<disk, config>> /\ Started("cri-docker").build # "none"
        /\ proc' = [proc EXCEPT !["cri-docker"] = Started("cri-docker")]
    BY <1>1, <2>1, LineEffects
  <2>3. l # 8 + Again /\ l # 7 + Again /\ l # 6 /\ l # 4 /\ l # 2
    BY <1>2, <1>10
  <2>4. Up("cri-docker")' /\ UNCHANGED proc["kube"]
    BY <1>3, <1>4, <2>2 DEF Up, Off
  <2> QED  BY <2>2, <2>3, <2>4 DEF l
<1>11. CASE l = 7 + Again
  <2>1. Loads(Step, Unit, "unit")
    <3>1. l # 0
      BY <1>2, <1>11
    <3> QED  BY <1>2, <1>11, <3>1 DEF KubeadmLine
  <2>2. /\ UNCHANGED <<config, proc>>
        /\ \/ (Moves /\ disk' = [disk EXCEPT ![Unit] = "unit"])
           \/ (disk[Unit] = "none" /\ disk' = [disk EXCEPT ![Unit] = "partial"] /\ Refetches)
           \/ (Moves /\ disk[Unit] \notin {"none", "partial"} /\ UNCHANGED disk)
    BY <1>14, <2>1
  <2>3. l # 8 + Again /\ l # 6 /\ l # 4 /\ l # 2 /\ ~(l = 7 /\ Again = 1)
    BY <1>2, <1>11
  <2>4. UNCHANGED <<disk[Tools], disk[Admin], disk[Network]>>
    BY <1>3, <2>2, KubeItems
  <2>5. disk'[Unit] = "unit" \/ (disk'[Unit] = "partial" /\ Refetches)
    BY <1>3, <2>2, KubeItems DEF KubeKnown
  <2> QED  BY <1>11, <2>2, <2>3, <2>4, <2>5 DEF l, Up, Off
<1>12. CASE l = 8 + Again
  <2>1. Step.do \in {"put", "fetch", "clone"} /\ Step.at = {Tools}
    <3>1. l # 0 /\ l # 4
      BY <1>2, <1>12
    <3> QED  BY <1>2, <1>12, <3>1 DEF KubeadmLine
  <2>2. /\ UNCHANGED <<config, proc>>
        /\ \/ (Moves /\ Step.do = "put" /\ \E v \in Step.val : disk' = [disk EXCEPT ![Tools] = v])
           \/ (Moves /\ Step.do = "clone" /\ disk' = [disk EXCEPT ![Tools] = branch])
           \/ (Step.do = "fetch" /\ disk[Tools] = "none" /\ disk' = [disk EXCEPT ![Tools] = "partial"] /\ Refetches)
           \/ (Step.do = "fetch" /\ disk[Tools] # "none" /\ UNCHANGED disk /\ Moves)
    BY <1>1, <2>1, LineEffects
  <2>9. Step.do = "fetch" /\ Moves => disk[Tools] \notin {"none", "partial"}
    BY <1>1, <2>1, FetchPasses
  <2>3. l # 7 + Again /\ l # 6 /\ l # 4 /\ l # 2 /\ ~(l = 7 /\ Again = 1)
    BY <1>2, <1>12
  <2>4. UNCHANGED <<disk[Unit], disk[Admin], disk[Network]>>
    BY <1>3, <2>2, KubeItems
  <2>5. Step.do = "put" => Step.val \subseteq Build
    BY <1>1, <2>1 DEF StepOf, Tools
  <2>6. Step.do = "fetch" /\ Moves => disk[Tools] \in Build
    BY <2>9 DEF KubeKnown
  <2>7. branch \in Build
    BY <1>3 DEF Build
  <2>8. disk'[Tools] \in Build \/ (disk[Tools] = "none" /\ disk'[Tools] = "partial" /\ Refetches)
    BY <1>3, <2>2, <2>5, <2>6, <2>7, KubeItems
  <2> QED  BY <1>12, <2>1, <2>2, <2>3, <2>4, <2>8 DEF l, Up, Off
<1>15. CASE l > 8 + Again
  <2>1. l # 0 /\ l # 8 + Again /\ l # 7 + Again /\ l # 6 /\ l # 4 /\ l # 2 /\ ~(l = 7 /\ Again = 1)
    BY <1>2, <1>15
  <2>2. Prepares(Step)
    BY <1>2, <1>15, <2>1 DEF KubeadmLine
  <2>3. PICK i \in {<<"kube", "fetched">>, <<"jq", "package">>} :
          Step.do \in {"put", "fetch", "whole"} /\ Step.at = {i}
    BY <2>2 DEF Prepares
  <2>4. i \notin {Tools, Unit, Admin, Network}
    BY <2>3 DEF Tools, Unit, Admin, Network
  <2>5. /\ UNCHANGED <<config, proc>> /\ (Moves \/ Refetches)
        /\ \/ UNCHANGED disk
           \/ \E v : disk' = [disk EXCEPT ![i] = v]
    BY <1>1, <2>3, LineEffects
  <2>6. UNCHANGED <<disk[Tools], disk[Unit], disk[Admin], disk[Network]>>
    BY <1>3, <2>4, <2>5, KubeItems
  <2> QED  BY <2>1, <2>5, <2>6 DEF l, Up, Off
<1>13. \/ l = 0 \/ l \in {1, 3, 5} \/ l = 2 \/ l = 4 \/ l = 6
       \/ (l = 7 /\ Again = 1)
       \/ l = 7 + Again \/ l = 8 + Again \/ l > 8 + Again
  BY <1>2
<1> QED  BY <1>5, <1>6, <1>7, <1>8, <1>9, <1>10, <1>11, <1>12, <1>13, <1>15 DEF l

\* After the line, the script has what its next one takes for done.
LEMMA KubeadmLineOn ==
  ASSUME BaseInv, BaseInv', PartsKnown, ScriptStep, At("kubernetes"), Kubeadm, KubeadmSupplied(script), KubeKnown
  PROVE  KubeadmSupplied(script)' /\ KubeKnown' /\ (Up("cri-docker") => Up("cri-docker")')
<1> DEFINE n == Len(script)  l == n - Recorded  m == Len(script')
<1>1. /\ RunningScript /\ Effect /\ UNCHANGED doc /\ n \in Nat \ {0} /\ At("kubernetes")'
  <2>1. UNCHANGED <<phase, todo>>
    BY ScriptLine DEF Part
  <2> QED  BY <2>1, ScriptLine DEF Part, At
<1>2. /\ l \in 0..(8 + Again + Built) /\ Again \in {0, 1} /\ Recorded \in {0, 1} /\ Built \in {0, 3}
      /\ KubeadmReached(l)
  BY <1>1, KubeadmHead
<1>3. /\ l # 8 + Again => UNCHANGED disk[Tools]
      /\ l = 8 + Again =>
           \/ disk'[Tools] \in Build
           \/ (disk[Tools] = "none" /\ disk'[Tools] = "partial" /\ Refetches)
      /\ l # 7 + Again => UNCHANGED disk[Unit]
      /\ l = 7 + Again => disk'[Unit] = "unit" \/ (disk'[Unit] = "partial" /\ Refetches)
      /\ l # 6 => UNCHANGED disk[Admin] /\ UNCHANGED proc["kube"]
      /\ l = 6 => disk'[Admin] \in Build /\ Up("kube")'
      /\ l \notin {2, 4} => UNCHANGED disk[Network]
      /\ l = 4 =>
           \/ disk'[Network] \in {"operator", "calico"}
           \/ (disk[Network] = "none" /\ disk'[Network] = "partial" /\ Refetches)
      /\ l = 2 => disk'[Network] = "calico"
      /\ Up("cri-docker") \/ (l = 7 /\ Again = 1) => Up("cri-docker")'
      /\ Moves \/ Refetches
  BY KubeadmWrites
<1>4. Again' = Again /\ Recorded' = Recorded
  BY <1>1 DEF Again, Recorded, Release, OwnRuntime, RuntimeOf
<1>5. Moves => m = n - 1
  BY DEF Moves
<1>6. Refetches => m = n
  BY DEF Refetches
<1> HIDE DEF n, m
<1> DEFINE k == m - Recorded
<1>8. /\ k <= l
      /\ k < l \/ (Refetches /\ k = l)
      /\ k < l => k = l - 1
      /\ k \in Int
  BY <1>1, <1>2, <1>3, <1>5, <1>6
<1> HIDE DEF l, k
<1>9. /\ k < 8 + Again => disk'[Tools] \in Build
      /\ k < 7 + Again => disk'[Unit] = "unit"
      /\ k < 7 /\ Again = 1 => Up("cri-docker")'
      /\ k < 6 => disk'[Admin] # "none"
      /\ k < 4 => disk'[Network] \in {"operator", "calico"}
      /\ k < 2 => disk'[Network] = "calico"
  <2>1. k < 8 + Again => disk'[Tools] \in Build
    <3>1. CASE l = 8 + Again /\ k < l
      <4>1. ~Refetches
        BY <1>5, <1>6, <1>8, <3>1 DEF l, k
      <4> QED  BY <1>3, <3>1, <4>1
    <3>2. CASE l # 8 + Again
      BY <1>2, <1>3, <1>8, <3>2 DEF KubeadmReached
    <3>3. CASE l = 8 + Again /\ ~(k < l)
      BY <3>3
    <3> QED  BY <3>1, <3>2, <3>3
  <2>2. k < 7 + Again => disk'[Unit] = "unit"
    <3>1. CASE l = 7 + Again /\ k < l
      <4>1. ~Refetches
        BY <1>5, <1>6, <1>8, <3>1 DEF l, k
      <4> QED  BY <1>3, <3>1, <4>1
    <3>2. CASE l # 7 + Again
      BY <1>2, <1>3, <1>8, <3>2 DEF KubeadmReached
    <3>3. CASE l = 7 + Again /\ ~(k < l)
      BY <3>3
    <3> QED  BY <3>1, <3>2, <3>3
  <2>3. k < 7 /\ Again = 1 => Up("cri-docker")'
    BY <1>2, <1>3, <1>8 DEF KubeadmReached
  <2>4. k < 6 => disk'[Admin] # "none"
    BY <1>2, <1>3, <1>8, KubeItems DEF KubeadmReached
  <2>5. k < 4 => disk'[Network] \in {"operator", "calico"}
    <3>1. CASE l = 4 /\ k < l
      <4>1. ~Refetches
        BY <1>5, <1>6, <1>8, <3>1 DEF l, k
      <4> QED  BY <1>3, <3>1, <4>1
    <3>2. CASE l # 4
      BY <1>2, <1>3, <1>8, <3>2 DEF KubeadmReached
    <3> QED  BY <1>8, <3>1, <3>2
  <2>6. k < 2 => disk'[Network] = "calico"
    BY <1>2, <1>3, <1>8 DEF KubeadmReached
  <2> QED  BY <2>1, <2>2, <2>3, <2>4, <2>5, <2>6
<1>10. (Len(script) # 0 => KubeadmReached(Len(script) - Recorded))'
  <2>1. (Len(script) - Recorded)' = k
    BY <1>4 DEF k, m
  <2> QED  BY <1>4, <1>9, <2>1 DEF KubeadmReached
<1>11. KubeadmSupplied(script)'
  BY <1>3, <1>10, KubeadmMovesOn
<1>13. disk'[Tools] \in Build \cup {"none", "partial"}
  BY <1>3 DEF KubeKnown
<1>14. disk'[Network] \in {"none", "partial", "operator", "calico"}
  <2>1. CASE l \in {2, 4}
    BY <1>3, <2>1
  <2>2. CASE l \notin {2, 4}
    BY <1>3, <2>2 DEF KubeKnown
  <2> QED  BY <2>1, <2>2
<1>15. disk'[Unit] \in {"none", "partial", "unit"}
  BY <1>3 DEF KubeKnown
<1>16. disk'[Admin] \in Build \cup {"none"} /\ (disk'[Admin] # "none" => Up("kube")')
  BY <1>3 DEF KubeKnown, Up, Off
<1> QED  BY <1>3, <1>11, <1>13, <1>14, <1>15, <1>16 DEF KubeKnown

-----------------------------------------------------------------------------
(* kind and MicroK8s in such runs                                          *)

\* What the kind scripts make, and the lines that make it.
Cluster == <<"kind", "cluster">>
MakesKind(x) == x.do \in {"put", "clone"} /\ x.at = {Cluster} /\ "none" \notin x.val

\* kubectl is used after kind has started; the lines that download it.
UsesKubectl == Whole("kind", "kubectl")
LoadsKubectl(x) == x.do \in {"keep", "fetch", "put"} /\ x.at = {<<"kind", "kubectl">>}

\* kind is started after the cluster is made, and waited for after that.
KindFollows(x, y) ==
  /\ y = Start("kind") => MakesKind(x)
  /\ y = UsesKubectl => x = Start("kind")
  /\ y = Need("kind") => x = UsesKubectl
KindLine(x) ==
  \/ x.do \in {"put", "clone"} /\ x.at \in {{Cluster}, {<<"kube", "provenance">>}}
  \/ x.do \in {"stop", "add"}
  \/ LoadsKubectl(x)
  \/ x \in {Restart("docker"), Need("docker"), Start("kind"), UsesKubectl, Need("kind")}
KindChain(s) ==
  /\ Sequence(s)
  /\ \A i \in 1..Len(s) : KindLine(s[i]) /\ (i > 1 => KindFollows(s[i - 1], s[i]))
KindSupplied(s) ==
  /\ KindChain(s)
  /\ Len(s) # 0 => /\ s[1] = Start("kind") => disk[Cluster] # "none"
                   /\ s[1] \in {UsesKubectl, Need("kind")} => Up("kind")

\* The chain t can come after another one.
KindHead(t) == Len(t) # 0 => t[1] \notin {Start("kind"), UsesKubectl, Need("kind")}

\* Chains are joined to a chain.
LEMMA KindJoined ==
  ASSUME NEW s, NEW t, KindChain(s), KindChain(t), KindHead(t)
  PROVE  KindChain(s \o t) /\ (KindHead(s) => KindHead(s \o t))
<1> DEFINE u == s \o t
<1>1. Sequence(s) /\ Sequence(t)
  BY DEF KindChain
<1>2. /\ Sequence(u) /\ Len(s) \in Nat /\ Len(t) \in Nat
      /\ Len(u) = Len(s) + Len(t)
      /\ \A i \in 1..Len(s) : u[i] = s[i]
      /\ \A i \in 1..Len(t) : u[Len(s) + i] = t[i]
  BY <1>1, Joined
<1> HIDE DEF u
<1>3. ASSUME NEW i \in 1..Len(u) PROVE KindLine(u[i]) /\ (i > 1 => KindFollows(u[i - 1], u[i]))
  <2>1. CASE i \in 1..Len(s)
    <3>1. i > 1 => i - 1 \in 1..Len(s)
      BY <1>2, <2>1
    <3> QED  BY <1>2, <2>1, <3>1 DEF KindChain
  <2>2. CASE i = Len(s) + 1
    <3>1. 1 \in 1..Len(t) /\ u[i] = t[1]
      BY <1>2, <2>2
    <3>2. t[1] \notin {Start("kind"), UsesKubectl, Need("kind")}
      BY <3>1 DEF KindHead
    <3> QED  BY <3>1, <3>2 DEF KindChain, KindFollows
  <2>3. CASE i > Len(s) + 1
    <3> DEFINE j == i - Len(s)
    <3>1. j \in 1..Len(t) /\ j > 1 /\ j - 1 \in 1..Len(t) /\ Len(s) + j = i /\ Len(s) + (j - 1) = i - 1
      BY <1>2, <2>3
    <3> HIDE DEF j
    <3>2. u[i] = t[j] /\ u[i - 1] = t[j - 1]
      BY <1>2, <3>1
    <3> QED  BY <3>1, <3>2 DEF KindChain
  <2> QED  BY <1>2, <2>1, <2>2, <2>3
<1>4. KindHead(s) => KindHead(u)
  <2>1. CASE Len(s) = 0
    <3>1. Len(u) # 0 => 1 \in 1..Len(t) /\ u[1] = t[1]
      BY <1>2, <2>1
    <3> QED  BY <1>2, <2>1, <3>1 DEF KindHead
  <2>2. CASE Len(s) # 0
    <3>1. 1 \in 1..Len(s)
      BY <1>2, <2>2
    <3> QED  BY <1>2, <2>2, <3>1 DEF KindHead
  <2> QED  BY <2>1, <2>2
<1> QED  BY <1>2, <1>3, <1>4 DEF KindChain, u

\* The scripts of kind are such chains.
LEMMA KindSuppliedAtOnce ==
  ASSUME BaseInv, BeginScript, Head(todo) = Install("kubernetes"), Expected("kubernetes"),
         doc.kubernetes[1] = "kind"
  PROVE  KindSupplied(script')
<1> DEFINE v == doc.kubernetes[3]  source == doc.kubernetes[2]
<1>1. /\ script' = ScriptOf(<<"install", "kubernetes">>)
      /\ doc \in Document /\ Asked(doc.kubernetes) /\ branch \in Commit
  BY DEF BeginScript, Install, BaseInv, Types, NodeTypes, Expected
<1>2. /\ source \in {"release", "git", "latest"} /\ "none" \notin Version /\ "none" \notin Commit
      /\ source = "release" => v \in Version
      /\ source = "git" => v \in Commit
  BY <1>1, DocumentShape, BuildAssumption DEF Asked
<1>3. script' = KubernetesScript("kind", source, v, OwnRuntime)
  BY <1>1 DEF ScriptOf, OwnRuntime
<1>4. /\ \A x, y : \A z \in {Start("kind"), UsesKubectl, Need("kind")} :
           /\ Put("kind", "cluster", x) # z /\ Put("kube", "provenance", x) # z
           /\ Stop(x) # z /\ Add(x, y) # z /\ Restart(x) # z
           /\ LoadsKubectl(x) => x # z
           /\ MakesKind(x) => x # z
      /\ Need("docker") \notin {Start("kind"), UsesKubectl, Need("kind")}
      /\ Start("kind") \notin {UsesKubectl, Need("kind")} /\ UsesKubectl # Need("kind")
      /\ \A x, c : /\ KindLine(Put("kind", "cluster", x)) /\ KindLine(Stop(c))
                   /\ KindLine(Add(c, x)) /\ KindLine(Put("kube", "provenance", x))
      /\ \A x : MakesKind(x) \/ LoadsKubectl(x) => KindLine(x)
      /\ LoadsKubectl(Fetch("kind", "kubectl", "whole")) /\ LoadsKubectl(Keep("kind", "kubectl", "whole"))
  <2>1. /\ \A x, y : \A z \in {Start("kind"), UsesKubectl, Need("kind")} :
             /\ Put("kind", "cluster", x) # z /\ Put("kube", "provenance", x) # z
             /\ Stop(x) # z /\ Add(x, y) # z /\ Restart(x) # z
             /\ LoadsKubectl(x) => x # z
             /\ MakesKind(x) => x # z
    BY DEF Put, PutOneOf, Start, Need, Stop, Add, Restart, MakesKind, LoadsKubectl, UsesKubectl, Whole
  <2>2. /\ Need("docker") \notin {Start("kind"), UsesKubectl, Need("kind")}
        /\ Start("kind") \notin {UsesKubectl, Need("kind")} /\ UsesKubectl # Need("kind")
    BY DEF Start, Need, UsesKubectl, Whole
  <2>3. /\ \A x, c : /\ KindLine(Put("kind", "cluster", x)) /\ KindLine(Stop(c))
                     /\ KindLine(Add(c, x)) /\ KindLine(Put("kube", "provenance", x))
        /\ \A x : MakesKind(x) \/ LoadsKubectl(x) => KindLine(x)
        /\ LoadsKubectl(Fetch("kind", "kubectl", "whole")) /\ LoadsKubectl(Keep("kind", "kubectl", "whole"))
    BY DEF Put, PutOneOf, Stop, Add, KindLine, MakesKind, Cluster, LoadsKubectl, Fetch, Keep
  <2> QED  BY <2>1, <2>2, <2>3
<1>5. KindChain(<< >>) /\ KindHead(<< >>)
  BY Literals DEF KindChain, KindHead
<1>6. ASSUME NEW make, MakesKind(make)
      PROVE  KindChain(KindCluster(make)) /\ KindHead(KindCluster(make))
  <2> DEFINE a == IF Binary("toolkit") # "none" THEN << Add("docker", {"nvidia"}), Restart("docker") >> ELSE << >>
             p == Put("kind", "cluster", "partial")
             b == << Need("docker"), p, make, Start("kind"), UsesKubectl, Need("kind") >>
  <2>1. KindChain(a) /\ KindHead(a)
    <3>1. LET s == << Add("docker", {"nvidia"}), Restart("docker") >> IN KindChain(s) /\ KindHead(s)
      <4> DEFINE s == << Add("docker", {"nvidia"}), Restart("docker") >>
      <4>1. Sequence(s) /\ Len(s) = 2 /\ s[1] = Add("docker", {"nvidia"}) /\ s[2] = Restart("docker")
        BY Literals
      <4> HIDE DEF s
      <4>2. KindLine(s[1]) /\ KindLine(s[2]) /\ KindFollows(s[1], s[2])
        BY <1>4, <4>1 DEF KindLine, KindFollows
      <4>3. \A i \in 1..Len(s) : i = 1 \/ (i = 2 /\ i - 1 = 1)
        BY <4>1
      <4>4. KindChain(s)
        BY <4>1, <4>2, <4>3 DEF KindChain
      <4> QED  BY <1>4, <4>1, <4>4 DEF KindHead, s
    <3> QED  BY <1>5, <3>1
  <2>2. KindChain(b) /\ KindHead(b)
    <3>1. /\ Sequence(b) /\ Len(b) = 6 /\ b[1] = Need("docker") /\ b[2] = p /\ b[3] = make
          /\ b[4] = Start("kind") /\ b[5] = UsesKubectl /\ b[6] = Need("kind")
      <4> HIDE DEF p
      <4> QED  BY Literals
    <3> HIDE DEF b
    <3>2. /\ KindLine(b[1]) /\ KindLine(b[2]) /\ KindLine(b[3]) /\ KindLine(b[4]) /\ KindLine(b[5])
          /\ KindLine(b[6])
      BY <1>4, <1>6, <3>1 DEF KindLine
    <3>3. /\ KindFollows(b[1], b[2]) /\ KindFollows(b[2], b[3]) /\ KindFollows(b[3], b[4])
          /\ KindFollows(b[4], b[5]) /\ KindFollows(b[5], b[6])
      BY <1>4, <1>6, <3>1 DEF KindFollows
    <3>4. \A i \in 1..Len(b) : \/ i = 1
                               \/ (i = 2 /\ i - 1 = 1)
                               \/ (i = 3 /\ i - 1 = 2)
                               \/ (i = 4 /\ i - 1 = 3)
                               \/ (i = 5 /\ i - 1 = 4)
                               \/ (i = 6 /\ i - 1 = 5)
      BY <3>1
    <3>5. KindChain(b)
      BY <3>1, <3>2, <3>3, <3>4 DEF KindChain
    <3> QED  BY <1>4, <3>1, <3>5 DEF KindHead
  <2>3. KindCluster(make) = a \o b
    BY DEF KindCluster, UsesKubectl
  <2> HIDE DEF a, b
  <2> QED  BY <2>1, <2>2, <2>3, KindJoined
<1>7. KindChain(DeleteCluster) /\ KindHead(DeleteCluster)
  <2> DEFINE s == << Stop("kind"), Put("kind", "cluster", "none") >>
  <2>1. Sequence(s) /\ Len(s) = 2 /\ s[1] = Stop("kind") /\ s[2] = Put("kind", "cluster", "none")
    BY Literals
  <2>2. DeleteCluster = s
    BY DEF DeleteCluster
  <2> HIDE DEF s
  <2>3. KindLine(s[1]) /\ KindLine(s[2]) /\ KindFollows(s[1], s[2])
    BY <1>4, <2>1 DEF KindFollows
  <2>4. \A i \in 1..Len(s) : i = 1 \/ (i = 2 /\ i - 1 = 1)
    BY <2>1
  <2>5. KindChain(s)
    BY <2>1, <2>3, <2>4 DEF KindChain
  <2> QED  BY <1>4, <2>1, <2>2, <2>5 DEF KindHead
<1>8. ASSUME NEW y PROVE KindChain(<< Put("kube", "provenance", y) >>) /\ KindHead(<< Put("kube", "provenance", y) >>)
  <2> DEFINE x == Put("kube", "provenance", y)  s == <<x>>
  <2>1. Sequence(s) /\ Len(s) = 1 /\ s[1] = x
    BY Literals
  <2> HIDE DEF s
  <2>2. \A i \in 1..Len(s) : i = 1
    BY <2>1
  <2>3. KindChain(s)
    BY <1>4, <2>1, <2>2 DEF KindChain
  <2>4. KindHead(s)
    BY <1>4, <2>1 DEF KindHead
  <2> QED  BY <2>3, <2>4 DEF s
<1>15. ASSUME NEW x, LoadsKubectl(x) PROVE KindChain(<<x>>) /\ KindHead(<<x>>)
  <2> DEFINE s == <<x>>
  <2>1. Sequence(s) /\ Len(s) = 1 /\ s[1] = x
    BY Literals
  <2> HIDE DEF s
  <2>2. \A i \in 1..Len(s) : i = 1
    BY <2>1
  <2>3. KindChain(s)
    BY <1>4, <1>15, <2>1, <2>2 DEF KindChain
  <2>4. KindHead(s)
    BY <1>4, <1>15, <2>1 DEF KindHead
  <2> QED  BY <2>3, <2>4 DEF s
<1>9. ASSUME NEW s, KindChain(s), KindHead(s), s = script' PROVE KindSupplied(script')
  BY <1>9 DEF KindSupplied, KindHead
<1>10. CASE script' = << >>
  BY <1>5, <1>9, <1>10
<1>11. CASE source = "release" /\ script' = KindRelease(v)
  <2> DEFINE d == IF disk[<<"kind", "cluster">>] # "none" THEN DeleteCluster ELSE << >>
             make == Put("kind", "cluster", v)  c == KindCluster(make)
  <2>1. MakesKind(make)
    BY <1>2, <1>11 DEF MakesKind, Put, PutOneOf, Cluster
  <2>2. KindChain(c) /\ KindHead(c)
    BY <1>6, <2>1
  <2>3. KindChain(d) /\ KindHead(d)
    BY <1>5, <1>7
  <2> DEFINE f == << Fetch("kind", "kubectl", "whole") >>  e == d \o f
  <2>4. script' = e \o c
    BY <1>11 DEF KindRelease
  <2>5. KindChain(f) /\ KindHead(f)
    BY <1>4, <1>15
  <2> HIDE DEF c, d, f
  <2>6. KindChain(e) /\ KindHead(e)
    BY <2>3, <2>5, KindJoined
  <2> HIDE DEF e
  <2> QED  BY <1>9, <2>2, <2>4, <2>6, KindJoined
<1>12. ASSUME NEW make, NEW y, MakesKind(make),
              script' = KindBuilder \o KindCluster(make) \o << Put("kube", "provenance", y) >>
       PROVE  KindSupplied(script')
  <2> DEFINE d == DeleteCluster  f == << Keep("kind", "kubectl", "whole") >>  e == d \o f
             c == KindCluster(make)  p == KindBuilder \o c  q == << Put("kube", "provenance", y) >>
  <2>4. KindChain(f) /\ KindHead(f)
    BY <1>4, <1>15
  <2>5. KindChain(d) /\ KindHead(d) /\ KindChain(c) /\ KindHead(c)
    BY <1>6, <1>7, <1>12
  <2>6. KindBuilder = e
    BY DEF KindBuilder
  <2> HIDE DEF c, d, f
  <2>7. KindChain(e) /\ KindHead(e)
    BY <2>4, <2>5, KindJoined
  <2> HIDE DEF e
  <2>1. KindChain(p) /\ KindHead(p)
    BY <2>5, <2>6, <2>7, KindJoined
  <2>2. script' = p \o q
    BY <1>12 DEF c
  <2>3. KindChain(q) /\ KindHead(q)
    BY <1>8
  <2> HIDE DEF p, q
  <2> QED  BY <1>9, <2>1, <2>2, <2>3, KindJoined
<1>13. CASE source = "git" /\ script' = KindGit(v)
  <2> DEFINE make == Put("kind", "cluster", v)
  <2>1. MakesKind(make)
    BY <1>2, <1>13 DEF MakesKind, Put, PutOneOf, Cluster
  <2> QED  BY <1>12, <1>13, <2>1 DEF KindGit
<1>14. CASE source = "latest" /\ script' = KindLatest(branch)
  <2> DEFINE make == Clone({<<"kind", "cluster">>})
  <2>1. MakesKind(make)
    BY DEF MakesKind, Clone, Cluster
  <2> QED  BY <1>12, <1>14, <2>1 DEF KindLatest
<1> QED  BY <1>2, <1>3, <1>10, <1>11, <1>13, <1>14 DEF KubernetesScript

\* They are chains line by line, with the cluster made before it is started.
LEMMA KindSuppliedLine ==
  ASSUME BaseInv, ScriptStep, At("kubernetes"), KindSupplied(script)
  PROVE  KindSupplied(script)'
<1> DEFINE n == Len(script)
<1>1. /\ RunningScript /\ Effect /\ UNCHANGED doc /\ n \in Nat \ {0} /\ Step = script[1] /\ 1 \in 1..n
      /\ Moves \/ Refetches
      /\ Moves => Len(script') = n - 1 /\ \A i \in 1..(n - 1) : script'[i] = script[i + 1]
      /\ Refetches => /\ Step.do = "fetch" /\ Len(script') = n
                      /\ script'[1] = PutOneOf(Step.at, Step.val)
                      /\ \A i \in 2..n : script'[i] = script[i]
  BY ScriptLine DEF Part
<1>3. \A i \in 1..n : KindLine(script[i]) /\ (i > 1 => KindFollows(script[i - 1], script[i]))
  BY DEF KindSupplied, KindChain
<1>6. CASE Refetches
  <2>1. LoadsKubectl(Step) /\ Step \notin {Start("kind"), UsesKubectl} /\ ~MakesKind(Step)
    <3>1. KindLine(Step) /\ Step.do = "fetch"
      BY <1>1, <1>3, <1>6
    <3> QED  BY <3>1 DEF KindLine, Restart, Need, Start, UsesKubectl, Whole, MakesKind
  <2>2. LoadsKubectl(script'[1]) /\ script'[1] \notin {Start("kind"), UsesKubectl, Need("kind")}
    BY <1>1, <1>6, <2>1 DEF LoadsKubectl, PutOneOf, Start, UsesKubectl, Whole, Need
  <2>3. ASSUME NEW i \in 1..n
        PROVE  KindLine(script'[i]) /\ (i > 1 => KindFollows(script'[i - 1], script'[i]))
    <3>1. CASE i = 1
      BY <2>2, <3>1 DEF KindLine
    <3>2. CASE i = 2
      <4>1. 2 \in 2..n /\ 2 > 1 /\ 2 - 1 = 1
        BY <3>2
      <4>2. script'[2] = script[2] /\ KindLine(script[2]) /\ KindFollows(Step, script[2])
        BY <1>1, <1>3, <1>6, <3>2, <4>1
      <4>3. script[2] \notin {Start("kind"), UsesKubectl, Need("kind")}
        BY <2>1, <4>2 DEF KindFollows
      <4> QED  BY <3>2, <4>1, <4>2, <4>3 DEF KindFollows
    <3>3. CASE i # 1 /\ i # 2
      <4>1. i \in 2..n /\ i - 1 \in 2..n
        BY <1>1, <3>3
      <4>2. script'[i] = script[i] /\ script'[i - 1] = script[i - 1]
        BY <1>1, <1>6, <4>1
      <4> QED  BY <1>3, <4>2
    <3> QED  BY <3>1, <3>2, <3>3
  <2>4. KindChain(script')
    BY <1>1, <1>6, <2>3 DEF KindChain, Refetches
  <2> QED  BY <2>2, <2>4 DEF KindSupplied, KindChain, KindLine, KindFollows, MakesKind, LoadsKubectl, UsesKubectl, Up, Off
<1>2. CASE Moves
  <2>4. KindChain(script')
    <3>1. ASSUME NEW i \in 1..(n - 1)
          PROVE  KindLine(script'[i]) /\ (i > 1 => KindFollows(script'[i - 1], script'[i]))
      <4>1. i + 1 \in 1..n /\ i + 1 > 1 /\ (i + 1) - 1 = i /\ (i > 1 => i - 1 \in 1..(n - 1) /\ (i - 1) + 1 = i)
        BY <1>1
      <4>2. script'[i] = script[i + 1] /\ (i > 1 => script'[i - 1] = script[i])
        BY <1>1, <1>2, <4>1
      <4>3. KindLine(script[i + 1]) /\ KindFollows(script[i], script[i + 1])
        BY <1>3, <4>1
      <4> QED  BY <4>2, <4>3
    <3> QED  BY <1>1, <1>2, <3>1 DEF KindChain, Moves
  <2>5. ASSUME Len(script') # 0
        PROVE  /\ script'[1] = Start("kind") => disk'[Cluster] # "none"
               /\ script'[1] \in {UsesKubectl, Need("kind")} => Up("kind")'
    <3>1. 1 \in 1..(n - 1) /\ 2 \in 1..n /\ 2 - 1 = 1 /\ 1 + 1 = 2 /\ 2 > 1
      BY <1>1, <1>2, <2>5
    <3>2. script'[1] = script[2]
      BY <1>1, <1>2, <3>1
    <3>3. KindFollows(Step, script[2])
      BY <1>1, <1>3, <3>1
    <3>4. ASSUME MakesKind(Step) PROVE disk'[Cluster] # "none"
      <4>1. disk \in [Item -> Content] /\ branch # "none"
        BY BuildAssumption DEF BaseInv, NodeTypes
      <4>2. /\ Step.do = "put" => \E v \in Step.val : disk' = [disk EXCEPT ![Cluster] = v]
            /\ Step.do = "clone" => disk' = [disk EXCEPT ![Cluster] = branch]
        BY <1>1, <3>4, LineEffects DEF MakesKind
      <4>3. Cluster \in Item
        BY DEF Cluster, Item
      <4> QED  BY <3>4, <4>1, <4>2, <4>3 DEF MakesKind
    <3>5. Step = Start("kind") => Up("kind")'
      BY <1>1, Brings DEF Daemon
    <3>6. Step = UsesKubectl => Up("kind")'
      <4>1. Step = UsesKubectl => Up("kind") /\ UNCHANGED proc
        BY <1>1, LineEffects DEF KindSupplied, UsesKubectl, Whole
      <4> QED  BY <4>1 DEF Up, Off
    <3> QED  BY <3>2, <3>3, <3>4, <3>5, <3>6 DEF KindFollows
  <2> QED  BY <2>4, <2>5 DEF KindSupplied, KindChain, KindLine, KindFollows, MakesKind, LoadsKubectl, UsesKubectl, Up, Off
<1> QED  BY <1>1, <1>2, <1>6

\* kind needs Docker, which the document then has; otherwise it may fail.
LEMMA KindGoesOn ==
  ASSUME BaseInv, PartsKnown, RuntimeUp, RunningScript, At("kubernetes"), KindSupplied(script),
         doc.kubernetes[1] = "kind", ~MayFail(doc)
  PROVE  ~Blocked
<1>1. Sequence(script) /\ Len(script) \in Nat \ {0} /\ Step = script[1] /\ 1 \in 1..Len(script)
  BY RunningLine DEF BaseInv
<1>2. /\ KindLine(Step)
      /\ Step = Start("kind") => disk[Cluster] # "none"
      /\ Step \in {UsesKubectl, Need("kind")} => Up("kind")
  BY <1>1 DEF KindSupplied, KindChain
<1>3. Binary("docker") # "none" /\ Up("docker")
  <2>1. doc.runtime[1] = "docker" /\ OwnRuntime = "docker" /\ Asked(doc.runtime) /\ Full
    BY DEF MayFail, OwnRuntime, RuntimeOf, Asked, Full
  <2> QED  BY <2>1, OwnServes DEF Serves, RunningScript
<1>4. /\ Started("docker").build = Binary("docker")
      /\ Started("kind").build = disk[Cluster]
      /\ Holds("docker") <=> Up("docker")
      /\ Holds("kind") <=> Up("kind")
  BY DEF Started, Holds, Daemon, Runtime, Cluster
<1>5. /\ \A d : Restart(d).do = "restart" /\ Restart(d).at = {d} /\ Start(d).do = "start" /\ Start(d).at = {d}
      /\ \A d : Need(d).do = "need" /\ Need(d).at = {d}
  BY DEF Restart, Start, Need
<1>6. CASE Step.do \in {"put", "clone", "stop", "add", "keep", "fetch"}
  BY <1>6 DEF Blocked
<1>7. CASE Step \in {Restart("docker"), Start("kind")}
  BY <1>2, <1>3, <1>4, <1>5, <1>7 DEF Blocked
<1>8. CASE Step \in {Need("docker"), Need("kind")}
  BY <1>2, <1>3, <1>4, <1>5, <1>8 DEF Blocked
<1>9. CASE Step = UsesKubectl
  BY <1>9, WholeCarries DEF UsesKubectl, Whole
<1> QED  BY <1>2, <1>6, <1>7, <1>8, <1>9 DEF KindLine, LoadsKubectl

\* The three lines of a MicroK8s script, counted from the end.
Snap == <<"microk8s", "snap">>
MicroLine(k, x) ==
  /\ k = 3 => x = Keep("microk8s", "snap", doc.kubernetes[3])
  /\ k = 2 => x = Start("microk8s")
  /\ k = 1 => x = Need("microk8s")
\* What has been done when l of them are left.
MicroReached(l) ==
  /\ l < 3 => disk[Snap] # "none"
  /\ l < 2 => Up("microk8s")
\* So the rest of such a script, with the node, needs nothing more.
MicroSupplied(s) ==
  Len(s) # 0 =>
    /\ Len(s) <= 3 /\ MicroReached(Len(s))
    /\ \A k \in 1..Len(s) : MicroLine(k, FromEnd(s, k))

\* The script of MicroK8s is such a program, or is empty.
LEMMA MicroSuppliedAtOnce ==
  ASSUME BaseInv, BeginScript, Head(todo) = Install("kubernetes"), doc.kubernetes[1] = "microk8s"
  PROVE  MicroSupplied(script')
<1> DEFINE x == Keep("microk8s", "snap", doc.kubernetes[3])  s == << x, Start("microk8s"), Need("microk8s") >>
<1>1. script' = << >> \/ script' = s
  BY DEF BeginScript, Install, ScriptOf, KubernetesScript, Microk8s
<1>2. Len(s) = 3 /\ s[1] = x /\ s[2] = Start("microk8s") /\ s[3] = Need("microk8s") /\ Len(<< >>) = 0
  BY Literals
<1> HIDE DEF s
<1>3. \A k \in 1..3 : MicroLine(k, FromEnd(s, k))
  <2>1. FromEnd(s, 1) = s[3] /\ FromEnd(s, 2) = s[2] /\ FromEnd(s, 3) = s[1]
    BY <1>2 DEF FromEnd
  <2> QED  BY <1>2, <2>1 DEF MicroLine
<1>4. MicroSupplied(s)
  BY <1>2, <1>3 DEF MicroSupplied, MicroReached
<1>5. MicroSupplied(<< >>)
  BY <1>2 DEF MicroSupplied
<1> QED  BY <1>1, <1>4, <1>5

\* The line that a script of MicroK8s is at.
LEMMA MicroHead ==
  ASSUME BaseInv, RunningScript, MicroSupplied(script)
  PROVE  /\ Len(script) \in 1..3 /\ MicroReached(Len(script)) /\ MicroLine(Len(script), Step)
         /\ Len(script) = 3 \/ Len(script) = 2 \/ Len(script) = 1
<1> DEFINE n == Len(script)
<1>1. n \in Nat \ {0} /\ Step = script[1]
  BY RunningLine DEF BaseInv
<1>2. n <= 3 /\ MicroReached(n) /\ \A k \in 1..n : MicroLine(k, FromEnd(script, k))
  BY <1>1 DEF MicroSupplied
<1>3. FromEnd(script, n) = Step
  BY <1>1 DEF FromEnd
<1> HIDE DEF n
<1>4. n \in 1..n /\ n \in 1..3 /\ (n = 3 \/ n = 2 \/ n = 1)
  BY <1>1, <1>2
<1>5. MicroLine(n, Step)
  BY <1>2, <1>3, <1>4
<1> QED  BY <1>2, <1>4, <1>5 DEF n

\* It is one line by line.
LEMMA MicroSuppliedLine ==
  ASSUME BaseInv, ScriptStep, At("kubernetes"), MicroSupplied(script)
  PROVE  MicroSupplied(script)'
<1> DEFINE n == Len(script)  m == Len(script')
<1>1. /\ RunningScript /\ Effect /\ UNCHANGED doc /\ n \in Nat \ {0}
      /\ Moves => m = n - 1 /\ \A i \in 1..(n - 1) : script'[i] = script[i + 1]
  BY ScriptLine DEF Part
<1>2. n \in 1..3 /\ MicroReached(n) /\ MicroLine(n, Step) /\ (n = 3 \/ n = 2 \/ n = 1)
  BY <1>1, MicroHead
<1>3. Moves
  <2>1. Step.do # "fetch"
    BY <1>2 DEF MicroLine, Keep, Start, Need
  <2> QED  BY <1>1, <2>1, EffectMoves DEF BaseInv, Refetches
<1>4. \A k, x : MicroLine(k, x)' <=> MicroLine(k, x)
  BY <1>1 DEF MicroLine, Keep
<1>5. ASSUME NEW k \in 1..(n - 1) PROVE MicroLine(k, FromEnd(script', k))
  <2>1. 1 + m - k \in 1..(n - 1) /\ (1 + m - k) + 1 = 1 + n - k /\ k \in 1..n
    <3>1. m = n - 1 /\ n \in Nat
      BY <1>1, <1>3
    <3> HIDE DEF m, n
    <3> QED  BY <3>1
  <2>2. FromEnd(script', k) = FromEnd(script, k)
    BY <1>1, <1>3, <2>1 DEF FromEnd
  <2> QED  BY <1>1, <2>1, <2>2 DEF MicroSupplied
<1>6. /\ n = 3 => disk'[Snap] # "none"
      /\ n = 2 => disk'[Snap] # "none" /\ Up("microk8s")'
  <2>1. Snap \in Item /\ "microk8s" \in Daemon /\ Snap \notin Removable
    BY DEF Snap, Item, Daemon, Removable
  <2>2. n = 3 => disk'[Snap] # "none"
    <3> SUFFICES ASSUME n = 3 PROVE disk'[Snap] # "none"
      OBVIOUS
    <3>1. Step = Keep("microk8s", "snap", doc.kubernetes[3])
      BY <1>2 DEF MicroLine
    <3>2. doc.kubernetes[3] # "none"
      <4>1. /\ Step.val \subseteq Content /\ ("none" \in Step.val => Step.at \subseteq Removable)
            /\ Step.at = {Snap} /\ Step.val = {doc.kubernetes[3]}
        <5>1. StepOf("kubernetes", Step)
          BY ScriptLine DEF Part
        <5> QED  BY <3>1, <5>1 DEF StepOf, Keep, Snap
      <4> QED  BY <2>1, <4>1
    <3> QED  BY <1>1, <2>1, <3>1, <3>2, Brings DEF Snap
  <2>3. n = 2 => disk'[Snap] # "none" /\ Up("microk8s")'
    <3>1. n = 2 => Step = Start("microk8s") /\ disk[Snap] # "none"
      BY <1>2 DEF MicroLine, MicroReached
    <3> QED  BY <1>1, <2>1, <3>1, Brings
  <2> QED  BY <2>2, <2>3
<1>7. \A k : FromEnd(script, k)' = FromEnd(script', k)
  BY DEF FromEnd
<1>8. m = n - 1
  BY <1>1, <1>3
<1> HIDE DEF n, m
<1>9. m # 0 => m <= 3 /\ (m < 3 => n = 3 \/ n = 2) /\ (m < 2 => n = 2)
  BY <1>2, <1>8
<1>10. m # 0 => (m < 3 => disk'[Snap] # "none") /\ (m < 2 => Up("microk8s")')
  BY <1>6, <1>9
<1> QED  BY <1>4, <1>5, <1>7, <1>8, <1>9, <1>10 DEF MicroSupplied, MicroReached, m

\* No line of it fails.
LEMMA MicroGoesOn ==
  ASSUME BaseInv, RunningScript, MicroSupplied(script)
  PROVE  ~Blocked
<1> DEFINE n == Len(script)
<1>1. MicroReached(n) /\ MicroLine(n, Step) /\ (n = 3 \/ n = 2 \/ n = 1)
  BY MicroHead
<1> HIDE DEF n
<1>2. CASE n = 3
  BY <1>1, <1>2 DEF MicroLine, Keep, Blocked
<1>3. CASE n = 2
  <2>1. Step.do = "start" /\ Step.at = {"microk8s"}
    BY <1>1, <1>3 DEF MicroLine, Start
  <2>2. Started("microk8s").build # "none"
    BY <1>1, <1>3 DEF MicroReached, Started, Snap, Runtime
  <2> QED  BY <2>1, <2>2 DEF Blocked
<1>4. CASE n = 1
  <2>1. Step.do = "need" /\ Step.at = {"microk8s"}
    BY <1>1, <1>4 DEF MicroLine, Need
  <2>2. Holds("microk8s")
    BY <1>1, <1>4 DEF MicroReached, Holds, Daemon
  <2> QED  BY <2>1, <2>2 DEF Blocked
<1> QED  BY <1>1, <1>2, <1>3, <1>4

-----------------------------------------------------------------------------
(* Kubernetes, the toolkit and cri-dockerd over such runs                  *)

\* The rest of the Kubernetes script needs nothing that is not there.
KubernetesSupplied(s) ==
  /\ Kubeadm => KubeadmSupplied(s)
  /\ doc.kubernetes[1] = "kind" => KindSupplied(s)
  /\ doc.kubernetes[1] = "microk8s" => MicroSupplied(s)

\* The configuration kubeadm is started with.
File == <<"kube", "config">>

\* Run has written the configuration of kubeadm, which no script changes.
KubernetesKnown ==
  /\ KubeKnown
  /\ phase # "idle" /\ NeedsConfigFile => disk[File] = "config"
  /\ At("kubernetes") => KubernetesSupplied(script)

\* What is known of kubeadm outlives a step that leaves its items alone.
LEMMA KubeStays ==
  ASSUME UNCHANGED <<disk[Tools], disk[Unit], disk[Admin], disk[Network]>>,
         Up("kube") => Up("kube")', KubeKnown
  PROVE  KubeKnown'
BY DEF KubeKnown

\* A script is supplied as long as the node and the document stay.
LEMMA KubernetesSuppliedStays ==
  ASSUME UNCHANGED <<node, doc>>
  PROVE  KubernetesSupplied(script)' <=> KubernetesSupplied(script')
<1>1. /\ (Kubeadm' <=> Kubeadm) /\ Again' = Again /\ Recorded' = Recorded /\ OwnRuntime' = OwnRuntime
      /\ (InitFile' <=> InitFile)
      /\ UNCHANGED <<disk, proc>> /\ \A d : Up(d)' <=> Up(d)
      /\ Built' = Built /\ (Release' <=> Release)
  BY DEF Kubeadm, Again, Recorded, Release, OwnRuntime, RuntimeOf, InitFile, Built, node, Up, Off
<1>2. \A k : FromEnd(script, k)' = FromEnd(script', k)
  BY DEF FromEnd
<1>3. \A k, x : KubeadmLine(k, x)' <=> KubeadmLine(k, x)
  <2>1. Initialises' = Initialises
    BY <1>1 DEF Initialises, KubeadmInit, KubeadmInitSearches
  <2> QED  BY <1>1, <2>1 DEF KubeadmLine, Loads, Prepares
<1>4. KubeadmReached(Len(script) - Recorded)' <=> KubeadmReached(Len(script') - Recorded)
  BY <1>1 DEF KubeadmReached
<1>5. KubeadmSupplied(script)' <=> KubeadmSupplied(script')
  BY <1>1, <1>2, <1>3, <1>4 DEF KubeadmSupplied
<1>6. KindSupplied(script)' <=> KindSupplied(script')
  BY <1>1 DEF KindSupplied, KindChain, KindLine, KindFollows, MakesKind, LoadsKubectl, UsesKubectl
<1>7. \A k, x : MicroLine(k, x)' <=> MicroLine(k, x)
  BY DEF MicroLine, Keep
<1>8. MicroSupplied(script)' <=> MicroSupplied(script')
  BY <1>1, <1>2, <1>7 DEF MicroSupplied, MicroReached
<1> QED  BY <1>1, <1>5, <1>6, <1>8 DEF KubernetesSupplied

\* What the lines of the other scripts, and all lines, leave alone.
LEMMA OtherLines ==
  ASSUME BaseInv, ScriptStep, NEW c \in Part, At(c), KubeKnown,
         c = "kubernetes" => KubernetesSupplied(script)
  PROVE  /\ UNCHANGED disk[File] /\ (Up("kube") => Up("kube")')
         /\ c # "kubernetes" \/ ~Kubeadm =>
              /\ UNCHANGED <<disk[Tools], disk[Unit], disk[Admin], disk[Network]>>
<1>1. /\ RunningScript /\ Effect /\ StepOf(c, Step) /\ Change(c)
  BY ScriptLine
<1>2. {File, Tools, Unit, Admin, Network} \subseteq Item /\ "kube" \in Daemon
  BY DEF File, Tools, Unit, Admin, Network, Item, Daemon
<1>3. Up("kube") => Up("kube")'
  BY <1>1, <1>2 DEF Change, StartedNow, Up, Off
<1>4. CASE c # "kubernetes"
  <2>1. \A i \in {File, Tools, Unit, Admin, Network} : i \notin ItemsOf(c)
    <3>1. OwnRuntime \in Runtime
      BY OwnIsRuntime
    <3> QED  BY <1>4, <3>1 DEF ItemsOf, Part, File, Tools, Unit, Admin, Network, Runtime
  <2> QED  BY <1>1, <1>2, <1>3, <1>4, <2>1 DEF Change
<1>5. CASE c = "kubernetes" /\ doc.kubernetes[1] \in {"kind", "microk8s"}
  <2>1. \A i \in {File, Tools, Unit, Admin, Network} :
          ~(Step.do = "init") /\ (Step.do \in {"put", "keep", "fetch", "clone", "copy", "package"} => i \notin Step.at)
    <3>1. CASE doc.kubernetes[1] = "kind"
      <4>1. KindLine(Step)
        <5>1. Sequence(script) /\ Step = script[1] /\ 1 \in 1..Len(script)
          BY ScriptLine
        <5> QED  BY <1>5, <3>1, <5>1 DEF KubernetesSupplied, KindSupplied, KindChain
      <4>2. \A i \in {File, Tools, Unit, Admin, Network} :
              i # Cluster /\ i # <<"kube", "provenance">> /\ i # <<"kind", "kubectl">>
        BY DEF File, Tools, Unit, Admin, Network, Cluster
      <4>3. /\ \A d : Restart(d).do = "restart" /\ Start(d).do = "start" /\ Need(d).do = "need"
            /\ UsesKubectl.do = "whole"
        BY DEF Restart, Start, Need, UsesKubectl, Whole
      <4> QED  BY <4>1, <4>2, <4>3 DEF KindLine, LoadsKubectl
    <3>2. CASE doc.kubernetes[1] = "microk8s"
      <4>1. MicroLine(Len(script), Step) /\ (Len(script) = 3 \/ Len(script) = 2 \/ Len(script) = 1)
        BY <1>1, <1>5, <3>2, MicroHead DEF KubernetesSupplied
      <4>2. Step.do \in {"keep", "start", "need"} /\ (Step.do = "keep" => Step.at = {Snap})
        BY <4>1 DEF MicroLine, Keep, Start, Need, Snap
      <4>3. \A i \in {File, Tools, Unit, Admin, Network} : i # Snap
        BY DEF File, Tools, Unit, Admin, Network, Snap
      <4> QED  BY <4>2, <4>3
    <3> QED  BY <1>5, <3>1, <3>2
  <2>2. \A i \in {File, Tools, Unit, Admin, Network} : disk'[i] = disk[i]
    BY <1>1, <1>2, <2>1, OnDisk
  <2> QED  BY <1>3, <2>2
<1>6. CASE c = "kubernetes" /\ Kubeadm
  <2> DEFINE l == Len(script) - Recorded
  <2>1. /\ l \in 0..(8 + Again + Built) /\ Again \in {0, 1} /\ Built \in {0, 3}
        /\ l # 0 => KubeadmLine(l, Step)
        /\ l = 0 => Step.at = {<<"kube", "provenance">>}
    BY <1>1, <1>6, KubeadmHead DEF KubernetesSupplied
  <2> HIDE DEF l
  <2>2. \/ l = 0 \/ l \in {1, 3, 5} \/ l = 2 \/ l = 4 \/ l = 6
        \/ (l = 7 /\ Again = 1)
        \/ l = 7 + Again \/ l = 8 + Again \/ l > 8 + Again
    BY <2>1
  <2>3. \/ Step.at \in {{<<"kube", "provenance">>}, {Network}, {Unit}, {Tools},
                       {<<"kube", "fetched">>}, {<<"jq", "package">>}}
        \/ Step.do \in {"need", "init", "restart"}
    <3>1. CASE l = 0
      BY <2>1, <3>1
    <3>2. CASE l \in {1, 3, 5}
      BY <2>1, <3>2 DEF KubeadmLine, Need
    <3>3. CASE l \in {2, 4}
      BY <2>1, <3>3 DEF KubeadmLine, Put, PutOneOf, Loads, Network
    <3>4. CASE l = 6
      BY <2>1, <3>4 DEF KubeadmLine, Initialises, KubeadmInit, KubeadmInitSearches
    <3>5. CASE l = 7 /\ Again = 1
      BY <2>1, <3>5 DEF KubeadmLine, Restart
    <3>6. CASE l = 7 + Again
      <4>1. l # 0
        BY <2>1, <3>6
      <4> QED  BY <2>1, <3>6, <4>1 DEF KubeadmLine, Loads
    <3>7. CASE l = 8 + Again
      <4>1. l # 0
        BY <2>1, <3>7
      <4> QED  BY <2>1, <3>7, <4>1 DEF KubeadmLine
    <3>8. CASE l > 8 + Again
      <4>1. l # 0
        BY <2>1, <3>8
      <4> QED  BY <2>1, <3>8, <4>1 DEF KubeadmLine, Prepares
    <3> QED  BY <2>2, <3>1, <3>2, <3>3, <3>4, <3>5, <3>6, <3>7, <3>8
  <2>4. File \notin {<<"kube", "provenance">>, Network, Unit, Tools, <<"kube", "fetched">>, <<"jq", "package">>} /\ File # <<"kube", "admin">>
    BY DEF File, Tools, Unit, Network
  <2>5. UNCHANGED disk[File]
    BY <1>1, <1>2, <2>3, <2>4, OnDisk
  <2> QED  BY <1>3, <1>6, <2>5
<1>7. c = "kubernetes" => doc.kubernetes[1] \in {"kind", "microk8s"} \/ Kubeadm
  <2> SUFFICES ASSUME c = "kubernetes" PROVE doc.kubernetes[1] \in {"kind", "microk8s"} \/ Kubeadm
    OBVIOUS
  <2>1. Asked(doc.kubernetes)
    BY Order DEF BaseInv, Expected
  <2> QED  BY <2>1, DocumentShape DEF BaseInv, Types, Kubeadm, Asked
<1>8. Kubeadm => doc.kubernetes[1] \notin {"kind", "microk8s"}
  BY DEF Kubeadm
<1> QED  BY <1>4, <1>5, <1>6, <1>7, <1>8

\* What is known of Kubernetes outlives every step of such a run.
LEMMA KubernetesKnownStep ==
  ASSUME BaseInv, BaseInv', Quiet => Calm /\ PartsKnown /\ KubernetesKnown, [Next]_vars, Quiet'
  PROVE  KubernetesKnown'
<1> DEFINE c == "kubernetes"
<1>1. /\ KubernetesKnown /\ PartsKnown /\ Calm /\ c \in Part
      /\ \/ StartRun \/ BeginScript \/ ScriptStep \/ ScriptEnds \/ Update \/ Ends
         \/ UNCHANGED vars
  BY QuietSteps DEF Part
<1>2. KubeKnown /\ (phase # "idle" /\ NeedsConfigFile => disk[File] = "config")
  BY <1>1 DEF KubernetesKnown
<1>4. UNCHANGED node => UNCHANGED <<disk[Tools], disk[Unit], disk[Admin], disk[Network]>> /\ (Up("kube") => Up("kube")')
  BY DEF node, Up, Off
<1>5. UNCHANGED doc => (NeedsConfigFile' <=> NeedsConfigFile)
  BY DEF NeedsConfigFile
<1>6. CASE StartRun
  <2>1. /\ UNCHANGED <<doc, proc>> /\ phase = "idle"
        /\ disk' = IF NeedsConfigFile THEN [disk EXCEPT ![File] = "config"] ELSE disk
    BY <1>6 DEF StartRun, File
  <2>2. ~At(c) /\ ~At(c)'
    BY <1>1, <1>6, <2>1, QuietPlaces DEF At
  <2>3. File \in Item /\ File \notin {Tools, Unit, Admin, Network} /\ disk \in [Item -> Content]
    BY DEF File, Item, Tools, Unit, Admin, Network, BaseInv, NodeTypes
  <2>4. UNCHANGED <<disk[Tools], disk[Unit], disk[Admin], disk[Network]>> /\ (NeedsConfigFile => disk'[File] = "config")
    BY <2>1, <2>3
  <2>5. KubeKnown'
    BY <1>2, <2>1, <2>4, KubeStays DEF Up, Off
  <2> QED  BY <1>5, <2>1, <2>2, <2>4, <2>5 DEF KubernetesKnown
<1>7. CASE BeginScript
  <2>1. /\ UNCHANGED <<node, branch, doc>> /\ ~At(c)
        /\ At(c)' => Head(todo) = Install(c) /\ Expected(c)
    BY <1>1, <1>7, QuietPlaces
  <2>2. KubeKnown'
    BY <1>2, <1>4, <2>1, KubeStays
  <2>3. phase # "idle" /\ UNCHANGED disk
    BY <1>7 DEF BeginScript, node
  <2>4. ASSUME At(c)' PROVE KubernetesSupplied(script)'
    <3>1. KubernetesSupplied(script')
      BY <1>7, <2>1, <2>4, KubeadmSuppliedAtOnce, KindSuppliedAtOnce, MicroSuppliedAtOnce DEF KubernetesSupplied
    <3> QED  BY <2>1, <3>1, KubernetesSuppliedStays
  <2> QED  BY <1>2, <1>5, <2>1, <2>2, <2>3, <2>4 DEF KubernetesKnown
<1>8. CASE ScriptStep
  <2>1. UNCHANGED <<doc, phase>> /\ (At(c)' <=> At(c)) /\ phase # "idle"
    <3>1. phase # "idle"
      BY <1>8 DEF ScriptStep, RunningScript
    <3> QED  BY <1>1, <1>8, <3>1, QuietPlaces
  <2>2. PICK e \in Part : At(e)
    BY <1>8, RunningLine DEF ScriptStep, BaseInv
  <2>3. e = c <=> At(c)
    BY <2>2, <1>1, Order DEF BaseInv
  <2>4. UNCHANGED disk[File]
    BY <1>1, <1>2, <1>8, <2>2, OtherLines DEF KubernetesKnown
  <2>5. (Kubeadm' <=> Kubeadm) /\ (doc'.kubernetes[1] = doc.kubernetes[1])
    BY <2>1 DEF Kubeadm
  <2>6. CASE At(c) /\ Kubeadm
    <3>1. KubeadmSupplied(script)' /\ KubeKnown'
      BY <1>1, <1>2, <1>8, <2>6, KubeadmLineOn DEF KubernetesKnown, KubernetesSupplied
    <3>2. doc.kubernetes[1] \notin {"kind", "microk8s"}
      BY <2>6 DEF Kubeadm
    <3> QED  BY <1>2, <1>5, <2>1, <2>4, <2>5, <3>1, <3>2 DEF KubernetesKnown, KubernetesSupplied
  <2>7. CASE ~(At(c) /\ Kubeadm)
    <3>1. /\ UNCHANGED <<disk[Tools], disk[Unit], disk[Admin], disk[Network]>>
          /\ Up("kube") => Up("kube")'
      <4>1. e # c \/ ~Kubeadm
        BY <2>3, <2>7
      <4>2. e = c => KubernetesSupplied(script)
        BY <1>1, <2>3 DEF KubernetesKnown
      <4> QED  BY <1>2, <1>8, <2>2, <4>1, <4>2, OtherLines
    <3>3. KubeKnown'
      BY <1>2, <3>1, KubeStays
    <3>4. At(c) => KubernetesSupplied(script)'
      BY <1>1, <1>8, <2>5, <2>7, KindSuppliedLine, MicroSuppliedLine DEF KubernetesKnown, KubernetesSupplied
    <3> QED  BY <1>2, <1>5, <2>1, <2>4, <3>3, <3>4 DEF KubernetesKnown
  <2> QED  BY <2>6, <2>7
<1>9. CASE ScriptEnds
  <2>1. UNCHANGED <<node, doc>> /\ ~At(c)' /\ Len(script) = 0 /\ phase = "script" /\ UNCHANGED disk
    <3>1. phase = "script" /\ UNCHANGED disk
      BY <1>9 DEF ScriptEnds, node
    <3> QED  BY <1>1, <1>9, <3>1, QuietPlaces
  <2>3. KubeKnown'
    BY <1>2, <1>4, <2>1, KubeStays
  <2> QED  BY <1>2, <1>5, <2>1, <2>3 DEF KubernetesKnown
<1>10. CASE Update
  <2>1. phase = "idle" /\ phase' = "idle" /\ UNCHANGED node /\ ~At(c)
    BY <1>10 DEF Update, At
  <2>2. KubeKnown'
    BY <1>2, <1>4, <2>1, KubeStays
  <2> QED  BY <2>1, <2>2 DEF KubernetesKnown, At
<1>11. CASE Ends
  <2>1. UNCHANGED node /\ ~At(c)' /\ phase' = "idle" /\ (At(c) => Blocked)
    BY <1>1, <1>11, QuietPlaces
  <2>3. KubeKnown'
    BY <1>2, <1>4, <2>1, KubeStays
  <2> QED  BY <2>1, <2>3 DEF KubernetesKnown
<1>12. CASE UNCHANGED vars
  <2>1. UNCHANGED <<node, doc, script, phase, disk, proc>> /\ (At(c)' <=> At(c))
    BY <1>12 DEF vars, At, node
  <2>2. KubernetesSupplied(script)' <=> KubernetesSupplied(script)
    BY <2>1, KubernetesSuppliedStays
  <2>4. KubeKnown'
    BY <1>2, <2>1 DEF KubeKnown, Up, Off
  <2> QED  BY <1>1, <1>5, <2>1, <2>2, <2>4 DEF KubernetesKnown
<1> QED  BY <1>1, <1>6, <1>7, <1>8, <1>9, <1>10, <1>11, <1>12

\* So does the rest of the toolkit script.
ToolkitKnown == At("toolkit") => ToolkitSupplied(script)

\* So does what is known of the toolkit.
LEMMA ToolkitKnownStep ==
  ASSUME BaseInv, BaseInv', Quiet => Calm /\ ToolkitKnown, [Next]_vars, Quiet'
  PROVE  ToolkitKnown'
<1> DEFINE c == "toolkit"
<1>1. /\ ToolkitKnown /\ Calm /\ c \in Part
      /\ \/ StartRun \/ BeginScript \/ ScriptStep \/ ScriptEnds \/ Update \/ Ends
         \/ UNCHANGED vars
  BY QuietSteps DEF Part
<1>2. ASSUME UNCHANGED <<node, doc>> PROVE ToolkitSupplied(script)' <=> ToolkitSupplied(script')
  <2>1. UNCHANGED disk /\ \A x : SuppliesToolkit(x)' <=> SuppliesToolkit(x)
    BY <1>2 DEF SuppliesToolkit, OwnRuntime, RuntimeOf, node
  <2> QED  BY <2>1 DEF ToolkitSupplied, Binary
<1>3. CASE BeginScript
  <2> SUFFICES ASSUME At(c)' PROVE ToolkitSupplied(script)'
    BY DEF ToolkitKnown
  <2>1. UNCHANGED <<node, doc>> /\ Head(todo) = Install(c) /\ Expected(c)
    BY <1>1, <1>3, QuietPlaces
  <2> QED  BY <1>2, <1>3, <2>1, ToolkitSuppliedAtOnce
<1>4. CASE ScriptStep
  <2>1. At(c)' <=> At(c)
    BY <1>1, <1>4, QuietPlaces
  <2> QED  BY <1>1, <1>4, <2>1, ToolkitSuppliedLine DEF ToolkitKnown
<1>5. CASE StartRun \/ Update \/ Ends \/ ScriptEnds
  <2>1. ~At(c)'
    BY <1>1, <1>5, QuietPlaces
  <2> QED  BY <2>1 DEF ToolkitKnown
<1>6. CASE UNCHANGED vars
  <2>1. UNCHANGED <<node, doc, script>> /\ (At(c)' <=> At(c))
    BY <1>6 DEF vars, At, node
  <2> QED  BY <1>1, <1>2, <2>1 DEF ToolkitKnown
<1> QED  BY <1>1, <1>3, <1>4, <1>5, <1>6

CriUnit == <<"cri-docker", "unit">>
CriBinary == <<"cri-docker", "binary">>

\* cri-dockerd keeps its program and unit, and runs on until the toolkit restarts Docker.
CriKept ==
  DockerPackaged /\ Passed("runtime") =>
    /\ disk[CriUnit] # "none" /\ disk[CriBinary] = "binary"
    /\ Asked(doc.toolkit) \/ doc.kubernetes[1] = "kind" \/ Up("cri-docker")

\* Only the script of the runtime and a restart of Docker by the toolkit or by
\* kind touch cri-dockerd.
LEMMA CriKeptStep ==
  ASSUME BaseInv, BaseInv', Quiet => Calm /\ PartsKnown /\ CriKept /\ RuntimeKnown /\ KubernetesKnown,
         [Next]_vars, Quiet'
  PROVE  CriKept'
<1> DEFINE c == "runtime"
<1>1. /\ CriKept /\ PartsKnown /\ RuntimeKnown /\ KubernetesKnown /\ Calm /\ c \in Part
      /\ \/ StartRun \/ BeginScript \/ ScriptStep \/ ScriptEnds \/ Update \/ Ends
         \/ UNCHANGED vars
  BY QuietSteps DEF Part
<1>2. UNCHANGED doc => (DockerPackaged' <=> DockerPackaged)
  BY DEF DockerPackaged, OwnRuntime, RuntimeOf
<1>3. UNCHANGED node => UNCHANGED disk /\ (Up("cri-docker")' <=> Up("cri-docker"))
  BY DEF node, Up, Off
<1>4. CASE StartRun \/ Update \/ Ends
  <2>1. ~Passed(c)'
    BY <1>1, <1>4, QuietPlaces
  <2> QED  BY <2>1 DEF CriKept
<1>5. CASE BeginScript
  <2>1. UNCHANGED <<node, doc>> /\ (Passed(c)' => Passed(c))
    BY <1>1, <1>5, QuietPlaces
  <2> QED  BY <1>1, <1>2, <1>3, <2>1 DEF CriKept
<1>6. CASE ScriptStep
  <2>1. UNCHANGED doc /\ (Passed(c)' <=> Passed(c))
    BY <1>1, <1>6, QuietPlaces
  <2> SUFFICES ASSUME DockerPackaged, Passed(c)
               PROVE  /\ disk'[CriUnit] # "none" /\ disk'[CriBinary] = "binary"
                      /\ Asked(doc.toolkit) \/ doc.kubernetes[1] = "kind" \/ Up("cri-docker")'
    BY <1>2, <2>1 DEF CriKept
  <2>2. PICK e \in Part : At(e)
    BY <1>6, RunningLine DEF ScriptStep, BaseInv
  <2>3. Change(e)
    BY <1>6, <2>2, ScriptLine
  <2>4. disk'[CriUnit] # "none" /\ disk'[CriBinary] = "binary"
    <3>1. CriUnit \in Item \ Removable
      BY DEF CriUnit, Item, Removable
    <3> QED  BY <1>1, <2>3, <3>1 DEF Change, CriKept, CriBinary
  <2>5. e \notin {"kernel", "driver", "runtime"}
    <3>1. ~(Rank(Install(c)) > Rank(Install(e))) /\ e # c
      BY <1>1, <2>2, Order DEF BaseInv
    <3> QED  BY <3>1, Ranks
  <2>6. CASE e = "toolkit"
    <3>1. Expected("toolkit")
      BY <2>2, <2>6, Order DEF BaseInv
    <3> QED  BY <2>4, <3>1 DEF Expected
  <2>7. CASE e = "kubernetes"
    <3>1. Expected("kubernetes") /\ Expected(c)
      BY <2>2, <2>7, Order DEF BaseInv, Passed
    <3>2. Kubeadm \/ doc.kubernetes[1] = "kind"
      <4>1. Asked(doc.kubernetes) /\ Full
        BY <3>1 DEF Expected
      <4> QED  BY <4>1, DocumentShape DEF BaseInv, Types, Kubeadm, Asked, Full
    <3>3. Kubeadm => (Up("cri-docker") => Up("cri-docker")')
      BY <1>1, <1>6, <2>2, <2>7, KubeadmLineOn DEF KubernetesKnown, KubernetesSupplied
    <3> QED  BY <1>1, <2>4, <3>2, <3>3 DEF CriKept
  <2> QED  BY <2>5, <2>6, <2>7 DEF Part
<1>7. CASE ScriptEnds
  <2>1. UNCHANGED <<node, doc>> /\ (Passed(c)' => Passed(c) \/ At(c)) /\ Len(script) = 0
    BY <1>1, <1>7, QuietPlaces
  <2>2. At(c) /\ DockerPackaged => disk[CriUnit] # "none" /\ disk[CriBinary] = "binary" /\ Up("cri-docker")
    BY <1>1, <2>1 DEF RuntimeKnown, RuntimeSupplied, CriUnit, CriBinary
  <2> QED  BY <1>1, <1>2, <1>3, <2>1, <2>2 DEF CriKept
<1>8. CASE UNCHANGED vars
  <2>1. UNCHANGED <<node, doc>> /\ (Passed(c)' <=> Passed(c))
    BY <1>8 DEF vars, Passed, Expected, Full, Has, In, node
  <2> QED  BY <1>1, <1>2, <1>3, <2>1 DEF CriKept
<1> QED  BY <1>1, <1>4, <1>5, <1>6, <1>7, <1>8

\* The document's runtime serves the kubelet when kubeadm runs.
LEMMA RuntimeForKubelet ==
  ASSUME BaseInv, RuntimeUp, RuntimeKnown, CriKept, power # "down", At("kubernetes"), Kubeadm, ~MayFail(doc)
  PROVE  /\ OwnRuntime = "docker" => disk[CriUnit] # "none" /\ disk[CriBinary] = "binary" /\ Again = 1
         /\ Up("cri-docker") \/ OwnRuntime # "docker" => CRI(OwnRuntime)
<1>1. Asked(doc.kubernetes) /\ Full
  BY Order DEF BaseInv, Part, Expected, Kubeadm, Full, Asked
<1>2. doc.runtime[1] \in {"containerd", "docker", "crio"} /\ Asked(doc.runtime) /\ OwnRuntime = doc.runtime[1]
  BY <1>1, DocumentShape DEF MayFail, BaseInv, Types, Asked, OwnRuntime, RuntimeOf
<1>3. Passed("runtime") /\ Serves(OwnRuntime, {}) /\ ~At("runtime")
  <2>1. ~At("runtime")
    BY Order DEF BaseInv, Part
  <2> QED  BY <1>1, <1>2, <2>1, OwnServes
<1>4. CASE OwnRuntime = "containerd"
  <2>1. ~NoRuntime
    BY <1>3, <1>4 DEF NoRuntime, NotInstalled, Serves, Binary, Runtime
  <2>2. RuntimeDone
    BY <1>3, <2>1 DEF RuntimeKnown
  <2> QED  BY <1>4, <2>2 DEF RuntimeDone, Serves, CRI
<1>5. CASE OwnRuntime = "crio"
  BY <1>3, <1>5 DEF Serves, CRI
<1>6. CASE OwnRuntime = "docker"
  <2>1. doc.runtime[2] = "package" /\ doc.kubernetes[2] = "release"
    <3>1. doc.runtime[2] \in {"package", "git", "latest"}
      BY <1>2, DocumentShape DEF BaseInv, Types
    <3>2. doc.kubernetes[1] \in {"kubeadm", ""} /\ doc.runtime[1] = "docker"
      BY <1>2, <1>6 DEF Kubeadm
    <3> QED  BY <3>1, <3>2 DEF MayFail
  <2>2. DockerPackaged /\ doc.kubernetes[1] # "kind"
    BY <1>6, <2>1 DEF DockerPackaged, Kubeadm
  <2>3. disk[CriUnit] # "none" /\ disk[CriBinary] = "binary"
    BY <1>3, <2>2 DEF CriKept
  <2>4. Again = 1
    BY <1>6, <2>1 DEF Again, Release
  <2>5. Up("docker")
    BY <1>3, <1>6 DEF Serves
  <2> QED  BY <1>6, <2>3, <2>4, <2>5 DEF CRI
<1> QED  BY <1>2, <1>4, <1>5, <1>6

\* No line of kubeadm fails: its runtime serves the kubelet, its file has been
\* written, and its binaries are whole.
LEMMA KubeadmGoesOn ==
  ASSUME BaseInv, PartsKnown, RuntimeUp, RuntimeKnown, CriKept, KubernetesKnown, RunningScript, At("kubernetes"),
         Kubeadm, ~MayFail(doc)
  PROVE  ~Blocked
<1> DEFINE l == Len(script) - Recorded  r == OwnRuntime
<1>1. KubeadmSupplied(script) /\ KubeKnown /\ power # "down" /\ r \in Runtime
  BY OwnIsRuntime DEF KubernetesKnown, KubernetesSupplied, RunningScript
<1>2. /\ l \in 0..(8 + Again + Built) /\ Again \in {0, 1} /\ Built \in {0, 3} /\ KubeadmReached(l)
      /\ l # 0 => KubeadmLine(l, Step)
      /\ l = 0 => Step.do = "put"
  BY <1>1, KubeadmHead
<1>3. /\ r = "docker" => disk[CriUnit] # "none" /\ disk[CriBinary] = "binary" /\ Again = 1
      /\ Up("cri-docker") \/ r # "docker" => CRI(r)
  BY <1>1, RuntimeForKubelet
<1> HIDE DEF l, r
<1>4. l < 7 => CRI(r)
  BY <1>2, <1>3 DEF KubeadmReached
<1>5. l < 6 => Up("kube") /\ disk[Admin] \in Build
  BY <1>1, <1>2 DEF KubeadmReached, KubeKnown
<1>6. CASE l = 0
  BY <1>2, <1>6 DEF Blocked
<1>7. CASE l = 1
  <2>1. Step.do = "need" /\ Step.at = {"nodes"}
    BY <1>2, <1>7 DEF KubeadmLine, Need
  <2>2. NodesReady
    BY <1>1, <1>2, <1>4, <1>5, <1>7 DEF NodesReady, Initialised, KubeadmReached, Admin, Network
  <2>3. Holds("nodes")
    BY <2>2 DEF Holds, Daemon, Runtime
  <2> QED  BY <2>1, <2>3 DEF Blocked
<1>8. CASE l = 2 \/ l = 4
  BY <1>2, <1>8 DEF KubeadmLine, Put, PutOneOf, Loads, Blocked
<1>9. CASE l = 3
  <2>1. Step.do = "need" /\ Step.at = {"operator"}
    BY <1>2, <1>9 DEF KubeadmLine, Need
  <2>2. Holds("operator")
    BY <1>2, <1>5, <1>9 DEF KubeadmReached, Holds, Daemon, Runtime, Network
  <2> QED  BY <2>1, <2>2 DEF Blocked
<1>10. CASE l = 5
  <2>1. Step.do = "need" /\ Step.at = {"kube"}
    BY <1>2, <1>10 DEF KubeadmLine, Need
  <2>2. Holds("kube")
    BY <1>5, <1>10 DEF Holds, Daemon
  <2> QED  BY <2>1, <2>2 DEF Blocked
<1>11. CASE l = 6
  <2>1. Step = Initialises
    BY <1>2, <1>11 DEF KubeadmLine
  <2>2. /\ Step.do = "init" /\ Step.at = {r}
        /\ Step.val = IF Release THEN (IF InitFile THEN {"config"} ELSE {}) ELSE {"socket"}
    BY <2>1 DEF Initialises, KubeadmInit, KubeadmInitSearches, r
  <2>3. InitFile => disk[File] = "config"
    <3> SUFFICES ASSUME InitFile PROVE disk[File] = "config"
      OBVIOUS
    <3>1. doc.kubernetes[2] = "release" /\ doc.kubernetes[3] \notin Legacy
      BY DEF InitFile, Release
    <3>2. doc.kubernetes[1] = "kubeadm"
      BY <3>1 DEF Kubeadm, MayFail
    <3>3. NeedsConfigFile /\ phase # "idle"
      BY <3>1, <3>2 DEF NeedsConfigFile, RunningScript
    <3> QED  BY <3>3 DEF KubernetesKnown
  <2>4. disk[Tools] \in Build /\ disk[Unit] = "unit"
    BY <1>2, <1>11 DEF KubeadmReached
  <2>5. disk[Tools] \notin {"none", "partial"} /\ disk[Unit] \notin {"none", "partial"}
    BY <2>4, KubeItems
  <2>7. SocketKnown
    <3>1. ~Release => r # "docker"
      BY <1>2, <1>3 DEF Again
    <3> QED  BY <2>2, <3>1 DEF SocketKnown
  <2>8. \A p \in {"tools", "unit"} \cup (Step.val \ {"socket"}) :
          p = "tools" \/ p = "unit" \/ (p = "config" /\ InitFile)
    BY <2>2
  <2>6. CanInit
    <3>1. \A q \in Step.at : CRI(q)
      BY <1>4, <1>11, <2>2
    <3>2. ASSUME NEW p \in {"tools", "unit"} \cup (Step.val \ {"socket"})
          PROVE  disk[<<"kube", p>>] \notin {"none", "partial"}
      BY <2>3, <2>5, <2>8 DEF Tools, Unit, File
    <3> QED  BY <2>7, <3>1, <3>2 DEF CanInit
  <2> QED  BY <2>2, <2>6 DEF Blocked
<1>12. CASE l = 7 /\ Again = 1
  <2>1. Step.do = "restart" /\ Step.at = {"cri-docker"}
    BY <1>2, <1>12 DEF KubeadmLine, Restart
  <2>2. r = "docker"
    BY <1>12 DEF Again, r
  <2>3. Started("cri-docker").build # "none"
    BY <1>3, <2>2 DEF Started, CriUnit, CriBinary, Runtime
  <2> QED  BY <2>1, <2>3 DEF Blocked
<1>13. CASE l = 7 + Again
  <2>1. Step.do \in {"put", "fetch"}
    <3>1. l # 0
      BY <1>2, <1>13
    <3> QED  BY <1>2, <1>13, <3>1 DEF KubeadmLine, Loads
  <2> QED  BY <2>1 DEF Blocked
<1>14. CASE l = 8 + Again
  <2>1. Step.do \in {"put", "fetch", "clone"}
    <3>1. l # 0
      BY <1>2, <1>14
    <3> QED  BY <1>2, <1>14, <3>1 DEF KubeadmLine
  <2> QED  BY <2>1 DEF Blocked
<1>16. CASE l > 8 + Again
  <2>1. Prepares(Step)
    <3>1. l # 0
      BY <1>2, <1>16
    <3> QED  BY <1>2, <1>16, <3>1 DEF KubeadmLine
  <2> QED  BY <2>1, WholeCarries DEF Prepares, Blocked
<1>15. \/ l = 0 \/ l = 1 \/ l = 2 \/ l = 3 \/ l = 4 \/ l = 5 \/ l = 6
       \/ (l = 7 /\ Again = 1)
       \/ l = 7 + Again \/ l = 8 + Again \/ l > 8 + Again
  BY <1>2
<1> QED  BY <1>6, <1>7, <1>8, <1>9, <1>10, <1>11, <1>12, <1>13, <1>14, <1>15, <1>16

-----------------------------------------------------------------------------
(* The promise of such runs                                                *)

\* What is known of a run that no fault and no reboot has disturbed.
QuietInv ==
  Quiet => /\ Calm /\ PartsKnown
           /\ RuntimeKnown /\ DriverKnown /\ ToolkitKnown /\ KubernetesKnown /\ CriKept

\* All that is known of such runs outlives every step.
LEMMA QuietStep ==
  ASSUME BaseInv, BaseInv', RunningInv, DriverInv, RuntimeInv, QuietInv, [Next]_vars
  PROVE  QuietInv'
<1> SUFFICES ASSUME Quiet'
             PROVE  /\ Calm' /\ PartsKnown'
                    /\ RuntimeKnown' /\ DriverKnown' /\ ToolkitKnown' /\ KubernetesKnown' /\ CriKept'
  BY DEF QuietInv
<1>1. Calm'
  BY QuietSteps DEF QuietInv
<1>2. RuntimeKnown'
  BY RuntimeKnownStep DEF QuietInv
<1>3. DriverKnown'
  BY DriverKnownStep DEF QuietInv
<1>4. ToolkitKnown'
  BY ToolkitKnownStep DEF QuietInv
<1>5. KubernetesKnown'
  BY KubernetesKnownStep DEF QuietInv
<1>6. CriKept'
  BY CriKeptStep DEF QuietInv
<1>7. PartsKnown'
  <2>1. Quiet => Calm /\ PartsKnown
    BY DEF QuietInv
  <2>2. Quiet
    BY <2>1, QuietSteps
  <2> QED  BY <2>1, <2>2, PartsKnownStep
<1> QED  BY <1>1, <1>2, <1>3, <1>4, <1>5, <1>6, <1>7

\* No script of such a run is at a line that fails.
LEMMA ScriptsGoOn ==
  ASSUME BaseInv, RunningInv, DriverInv, RuntimeUp, QuietInv, Quiet, RunningScript, ~MayFail(doc)
  PROVE  ~Blocked
<1>1. PartsKnown /\ RuntimeKnown /\ DriverKnown /\ ToolkitKnown /\ KubernetesKnown /\ CriKept
  BY DEF QuietInv
<1>2. PICK c \in Part : At(c)
  BY RunningLine DEF BaseInv
<1>3. CASE c = "kernel"
  <2>1. Expected("kernel")
    BY <1>2, <1>3, Order DEF BaseInv
  <2> QED  BY <2>1 DEF Expected, Quiet
<1>4. CASE c = "driver"
  BY <1>1, <1>2, <1>4, DriverGoesOn
<1>5. CASE c = "runtime"
  BY <1>1, <1>2, <1>5, RuntimeGoesOn DEF RuntimeKnown
<1>6. CASE c = "toolkit"
  BY <1>1, <1>2, <1>6, ToolkitGoesOn DEF ToolkitKnown
<1>7. CASE c = "kubernetes"
  <2>1. Kubeadm \/ doc.kubernetes[1] \in {"kind", "microk8s"}
    <3>1. Asked(doc.kubernetes)
      BY <1>2, <1>7, Order DEF BaseInv, Expected
    <3> QED  BY <3>1, DocumentShape DEF BaseInv, Types, Kubeadm, Asked
  <2>2. At("kubernetes") /\ KubernetesSupplied(script)
    BY <1>1, <1>2, <1>7 DEF KubernetesKnown
  <2> QED  BY <1>1, <2>1, <2>2, KubeadmGoesOn, KindGoesOn, MicroGoesOn DEF KubernetesSupplied
<1> QED  BY <1>2, <1>3, <1>4, <1>5, <1>6, <1>7 DEF Part

\* There is no result before the run has ended.
LEMMA ResultAtEnd ==
  ASSUME phase # "idle" => result = "none", [Next]_vars
  PROVE  (phase # "idle" => result = "none")'
BY DEF Next, Run, vars, StartRun, RefuseRun, BeginScript, TemplateFails, ScriptStep, run, RebootStep,
   ScriptFails, ScriptEnds, Reconnect, Finish, CutOff, InitFails, GiveUp, NodeGoesDown, NodeComesUp,
   UserReboots, DaemonDies, BranchMoves, Update, EndRun, RunningScript

\* A run ends in failure only with a document that may fail.
LEMMA FailsOnlyThen ==
  ASSUME BaseInv, BaseInv', RunningInv, DriverInv, RuntimeUp, QuietInv, [Next]_vars,
         phase # "idle" => result = "none", UndisturbedRunSucceeds
  PROVE  UndisturbedRunSucceeds'
<1> SUFFICES ASSUME result' = "failure", faults' = 0 PROVE MayFail(doc)'
  BY DEF UndisturbedRunSucceeds
<1>1. CASE (doc.kernel # "none")'
  BY <1>1 DEF MayFail
<1>2. CASE (doc.kernel = "none")'
  <2>1. /\ Quiet /\ Calm
        /\ \/ StartRun \/ BeginScript \/ ScriptStep \/ ScriptEnds \/ Update \/ Ends
           \/ UNCHANGED vars
    BY <1>2, QuietSteps DEF QuietInv, Quiet
  <2>2. CASE result = "failure" /\ UNCHANGED <<doc, proc>>
    <3>1. MayFail(doc)
      BY <2>1, <2>2 DEF UndisturbedRunSucceeds, Quiet
    <3> QED  BY <2>2, <3>1 DEF MayFail, Up, Off, Asked
  <2>3. CASE StartRun \/ Update
    BY <2>3 DEF StartRun, Update
  <2>4. CASE RefuseRun \/ TemplateFails
    <3>1. \E dep : TemplateRefuses(dep) /\ (dep = <<"install", "kubernetes">> => Asked(doc.kubernetes))
      <4>1. CASE RefuseRun
        BY <4>1 DEF RefuseRun, Asked
      <4>2. CASE TemplateFails
        <5>1. TemplateRefuses(Head(todo)) /\ Len(todo) # 0 /\ todo \in Seq(Dependency)
          BY <4>2, EmptySeq DEF TemplateFails, BaseInv, TodoInv, Within
        <5>2. Head(todo) = Install("kubernetes") => Has(todo, "kubernetes")
          BY <5>1, LenProperties, HeadTailProperties DEF Has, In
        <5>3. Head(todo) = <<"install", "kubernetes">> => Asked(doc.kubernetes)
          BY <5>2 DEF Install, BaseInv, TodoInv, Part, Expected
        <5> QED  BY <5>1, <5>3
      <4> QED  BY <2>4, <4>1, <4>2
    <3>2. MayFail(doc)
      BY <3>1, DocumentShape DEF TemplateRefuses, MayFail, RuntimeOf, BaseInv, Types
    <3>3. UNCHANGED <<doc, proc>>
      BY <2>4 DEF RefuseRun, TemplateFails, EndRun, node
    <3> QED  BY <3>2, <3>3 DEF MayFail, Up, Off, Asked
  <2>5. CASE ScriptFails
    <3>1. RunningScript /\ Blocked /\ UNCHANGED <<doc, proc>>
      BY <2>5 DEF ScriptFails, EndRun, node
    <3>2. MayFail(doc)
      BY <2>1, <3>1, ScriptsGoOn
    <3> QED  BY <3>1, <3>2 DEF MayFail, Up, Off, Asked
  <2>6. CASE Finish
    BY <2>6 DEF Finish, EndRun
  <2>7. CASE BeginScript \/ ScriptEnds \/ UNCHANGED vars
    <3>1. UNCHANGED <<result, doc, proc>>
      BY <2>7 DEF BeginScript, ScriptEnds, vars, node
    <3> QED  BY <2>2, <3>1
  <2>8. CASE ScriptStep
    <3>1. phase = "script" /\ UNCHANGED result
      BY <2>8 DEF ScriptStep, RunningScript, run
    <3> QED  BY <3>1
  <2> QED  BY <2>1, <2>3, <2>4, <2>5, <2>6, <2>7, <2>8 DEF Ends
<1> QED  BY <1>1, <1>2

\* With it, a run that has not ended has no result, and one that has did not fail.
SucceedsInv == QuietInv /\ (phase # "idle" => result = "none") /\ UndisturbedRunSucceeds

\* A run that nothing has disturbed fails only for a document that is known not
\* to work on a node: with any other every script finds what it needs from those
\* before it, the first time, in every repetition, and after every update.
THEOREM UndisturbedSucceeds == Spec => []UndisturbedRunSucceeds
<1>1. Init => SucceedsInv
  <2> SUFFICES ASSUME Init PROVE SucceedsInv
    OBVIOUS
  <2>1. /\ \A r \in Runtime : <<r, "package">> \in Item /\ <<r, "local">> \in Item
        /\ {Tools, Unit, Admin, Network, <<"driver", "module">>} \subseteq Item /\ "driver" \in Daemon
        /\ <<"kernel", "image">> \notin {Tools, Unit, Admin, Network, <<"driver", "module">>}
    BY DEF Item, Runtime, Daemon, Tools, Unit, Admin, Network
  <2>2. /\ \A r \in Runtime : NotInstalled(r)
        /\ \A i \in {Tools, Unit, Admin, Network, <<"driver", "module">>} : disk[i] = "none"
        /\ proc["driver"].build = "none"
        /\ phase = "idle" /\ power = "up" /\ disturbed = FALSE /\ result = "none"
    <3>1. \A i \in Item : i # <<"kernel", "image">> /\ i # <<"jq", "package">> => disk[i] = "none"
      BY DEF Init, NodeInit
    <3>2. /\ \A r \in Runtime, x \in {"package", "local"} :
               <<r, x>> # <<"kernel", "image">> /\ <<r, x>> # <<"jq", "package">>
          /\ <<"jq", "package">> \notin {Tools, Unit, Admin, Network, <<"driver", "module">>}
      BY DEF Runtime, Tools, Unit, Admin, Network
    <3>3. /\ proc["driver"].build = "none"
          /\ phase = "idle" /\ power = "up" /\ disturbed = FALSE /\ result = "none"
      BY <2>1 DEF Init, NodeInit, Off
    <3>4. \A i \in {Tools, Unit, Admin, Network, <<"driver", "module">>} : disk[i] = "none"
      BY <2>1, <3>1, <3>2
    <3> QED  BY <2>1, <3>1, <3>2, <3>3, <3>4 DEF NotInstalled
  <2>3. NoRuntime /\ ~At("runtime") /\ ~At("driver") /\ ~At("toolkit") /\ ~At("kubernetes")
    BY <2>2 DEF NoRuntime, At
  <2>4. Calm /\ RuntimeKnown /\ ToolkitKnown
    BY <2>2, <2>3 DEF Calm, RuntimeKnown, ToolkitKnown
  <2>5. DriverKnown
    BY <2>2, <2>3 DEF DriverKnown
  <2>6. KubernetesKnown
    BY <2>2, <2>3 DEF KubernetesKnown, KubeKnown
  <2>7. CriKept
    BY <2>2 DEF CriKept, Passed
  <2>8. PartsKnown
    BY PartsKnownInit
  <2> QED  BY <2>2, <2>4, <2>5, <2>6, <2>7, <2>8 DEF SucceedsInv, QuietInv, UndisturbedRunSucceeds
<1>2. BaseInv /\ BaseInv' /\ RunningInv /\ DriverInv /\ KubernetesInv /\ SucceedsInv /\ [Next]_vars => SucceedsInv'
  BY QuietStep, ResultAtEnd, FailsOnlyThen DEF SucceedsInv, KubernetesInv
<1>3. SucceedsInv => UndisturbedRunSucceeds
  BY DEF SucceedsInv
<1> QED  BY <1>1, <1>2, <1>3, Based, WhatRunsIsThere, Driver, Kubernetes, PTL DEF Spec

-----------------------------------------------------------------------------
(* What the cluster is made of, without faults                             *)

\* The record of a cluster's source, and what it says now.
Record == <<"kube", "provenance">>
Ref == IF doc.kubernetes[2] = "latest" THEN branch ELSE doc.kubernetes[3]

\* Tools from source are replaced by the same ones; a release fetches none if it
\* has some.
Fits(x) ==
  /\ Marks(x) => x = Put("kube", "provenance", Ref)
  /\ Writes(x) /\ Tools \in x.at =>
       IF Release THEN x.do = "fetch" /\ x.at = {Tools}
       ELSE x = Put("kube", "tools", Ref) \/ (x = Clone({Tools}) /\ Ref = branch)
  /\ Writes(x) /\ Cluster \in x.at => doc.kubernetes[1] = "kind"
Fitted(s) == Sequence(s) /\ \A i \in 1..Len(s) : Fits(s[i])

\* A document's installer and source never change, nor does the branch.
SourceKept ==
  faults = 0 =>
    /\ disk[Record] \in {"none", Ref} /\ (~Release => disk[Tools] \in {"none", Ref})
    /\ disk[Cluster] # "none" => doc.kubernetes[1] = "kind"
    /\ At("kubernetes") => \A i \in 1..Len(script) :
         \/ Fits(script[i])
         \/ i = 1 /\ Release /\ disk[Tools] = "partial" /\ script[i].do = "put" /\ script[i].at = {Tools}

\* Sequences of such lines, put together from others and from few lines.
LEMMA FitJoined ==
  ASSUME NEW s, NEW t, Fitted(s), Fitted(t)
  PROVE  Fitted(s \o t)
<1>1. /\ Sequence(s \o t) /\ Len(s) \in Nat /\ Len(t) \in Nat
      /\ Len(s \o t) = Len(s) + Len(t)
      /\ \A i \in 1..Len(s) : (s \o t)[i] = s[i]
      /\ \A i \in 1..Len(t) : (s \o t)[Len(s) + i] = t[i]
  BY Joined DEF Fitted
<1>2. ASSUME NEW i \in 1..Len(s \o t) PROVE Fits((s \o t)[i])
  <2>1. CASE i \in 1..Len(s)
    BY <1>1, <2>1 DEF Fitted
  <2>2. CASE i \notin 1..Len(s)
    <3>1. i - Len(s) \in 1..Len(t) /\ Len(s) + (i - Len(s)) = i
      BY <1>1, <2>2
    <3>2. (s \o t)[i] = t[i - Len(s)]
      BY <1>1, <3>1
    <3> QED  BY <3>1, <3>2 DEF Fitted
  <2> QED  BY <2>1, <2>2
<1> QED  BY <1>1, <1>2 DEF Fitted

LEMMA FitFew ==
  /\ Fitted(<< >>)
  /\ \A x : Fits(x) => Fitted(<<x>>)
  /\ \A x, y : Fits(x) /\ Fits(y) => Fitted(<<x, y>>)
  /\ \A x, y, z : Fits(x) /\ Fits(y) /\ Fits(z) => Fitted(<<x, y, z>>)
  /\ \A x, y, z, u : Fits(x) /\ Fits(y) /\ Fits(z) /\ Fits(u) => Fitted(<<x, y, z, u>>)
  /\ \A x, y, z, u, w :
       Fits(x) /\ Fits(y) /\ Fits(z) /\ Fits(u) /\ Fits(w) => Fitted(<<x, y, z, u, w>>)
  /\ \A x, y, z, u, w, t :
       Fits(x) /\ Fits(y) /\ Fits(z) /\ Fits(u) /\ Fits(w) /\ Fits(t) => Fitted(<<x, y, z, u, w, t>>)
<1> HIDE DEF Fits
<1> QED
  BY Literals DEF Fitted

\* The scripts that are chosen for the document have such lines only.
LEMMA FitsAtOnce ==
  ASSUME BaseInv, BeginScript, Head(todo) = Install("kubernetes"), Expected("kubernetes")
  PROVE  Fitted(script')
<1> DEFINE v == doc.kubernetes[3]  r == OwnRuntime  i == doc.kubernetes[1]  source == doc.kubernetes[2]
           all == KubernetesScript(i, source, v, r)
<1>1. /\ script' = ScriptOf(<<"install", "kubernetes">>)
      /\ doc \in Document /\ Asked(doc.kubernetes) /\ branch \in Commit
  BY DEF BeginScript, Install, BaseInv, Types, NodeTypes, Expected
<1>2. /\ i \in {"", "kubeadm", "kind", "microk8s"} /\ source \in {"release", "git", "latest"}
      /\ i = "microk8s" => source = "release"
      /\ source = "latest" => Ref = branch
      /\ source # "latest" => Ref = v
      /\ Release <=> source = "release"
  BY <1>1, DocumentShape DEF Asked, Ref, Release
<1>3. script' = all
  BY <1>1 DEF ScriptOf, OwnRuntime
<1>4. /\ Fits(Fetch("kube", "unit", "unit")) /\ Fits(Fetch("kube", "network", "operator"))
      /\ Fits(Put("kube", "network", "calico")) /\ Fits(Put("jq", "package", "jq"))
      /\ Fits(Fetch("kube", "fetched", "whole")) /\ Fits(Whole("kube", "fetched"))
      /\ Fits(Fetch("kind", "kubectl", "whole")) /\ Fits(Keep("kind", "kubectl", "whole"))
      /\ Fits(Whole("kind", "kubectl"))
      /\ \A c, f : Fits(KubeadmInit(c, f)) /\ Fits(KubeadmInitSearches(c))
      /\ \A c : Fits(Need(c)) /\ Fits(Restart(c)) /\ Fits(Start(c)) /\ Fits(Stop(c))
      /\ Fits(Add("docker", {"nvidia"}))
      /\ \A c : Fits(Keep("microk8s", "snap", c))
  BY DEF Fits, Marks, Writes, Tools, Cluster, Put, PutOneOf, Keep, Fetch, Whole, KubeadmInit,
     KubeadmInitSearches, Need, Restart, Start, Stop, Add
<1>5. Fits(Put("kube", "provenance", Ref))
  BY DEF Fits, Marks, Writes, Tools, Cluster, Put, PutOneOf
<1>6. \A c : Release => Fits(Fetch("kube", "tools", c))
  BY DEF Fits, Marks, Writes, Tools, Cluster, Fetch
<1>7. /\ ~Release => Fits(Put("kube", "tools", Ref))
      /\ ~Release /\ Ref = branch => Fits(Clone({<<"kube", "tools">>}))
  BY DEF Fits, Marks, Writes, Tools, Cluster, Put, PutOneOf, Clone
<1>8. i = "kind" => /\ \A c : Fits(Put("kind", "cluster", c))
                    /\ Fits(Clone({<<"kind", "cluster">>}))
  BY DEF Fits, Marks, Writes, Tools, Cluster, Put, PutOneOf, Clone
<1> HIDE DEF all, i, source, v, r
<1> HIDE DEF Fits
<1>9. Fitted(KubeadmNetwork)
  BY <1>4, FitFew DEF KubeadmNetwork
<1>10. Fitted(<< Put("kube", "provenance", Ref) >>) /\ Fitted(<< KubeadmInitSearches(r), Need("kube") >>)
  BY <1>4, <1>5, FitFew
<1>11. CASE i \in {"", "kubeadm"}
  <2>1. /\ source = "release" => all \in {<< >>, KubeadmRelease(v, r)}
        /\ source = "git" => all \in {<< >>, KubeadmGitTools(Ref) \o KubeadmGitCluster(Ref, r)}
        /\ source = "latest" => all \in {<< >>, KubeadmLatestTools \o KubeadmLatestCluster(Ref, r)}
    BY <1>2, <1>11 DEF KubernetesScript, all
  <2>2. CASE source = "release"
    <3>1. Fitted(KubeadmTools(v))
      BY <1>2, <1>4, <1>6, <2>2, FitFew DEF KubeadmTools
    <3>2. Fitted(KubeadmCluster(v, r))
      BY <1>4, FitFew, FitJoined DEF KubeadmCluster
    <3> QED  BY <1>3, <1>9, <2>1, <2>2, <3>1, <3>2, FitFew, FitJoined DEF KubeadmRelease
  <2>3. CASE source # "release"
    <3>4. Fitted(KubeadmBuilder)
      BY <1>4, FitFew, FitJoined DEF KubeadmBuilder, Fetched
    <3>1. source = "git" => Fitted(KubeadmGitTools(Ref))
      BY <1>2, <1>4, <1>7, <2>3, <3>4, FitFew, FitJoined DEF KubeadmGitTools
    <3>2. source = "latest" => Fitted(KubeadmLatestTools)
      BY <1>2, <1>4, <1>7, <2>3, <3>4, FitFew, FitJoined DEF KubeadmLatestTools
    <3>3. Fitted(KubeadmGitCluster(Ref, r)) /\ Fitted(KubeadmLatestCluster(Ref, r))
      BY <1>9, <1>10, FitJoined DEF KubeadmGitCluster, KubeadmLatestCluster
    <3> QED  BY <1>2, <1>3, <2>1, <2>3, <3>1, <3>2, <3>3, FitFew, FitJoined
  <2> QED  BY <2>2, <2>3
<1>12. CASE i = "kind"
  <2>1. /\ source = "release" => all \in {<< >>, KindRelease(v)}
        /\ source = "git" => all \in {<< >>, KindGit(Ref)}
        /\ source = "latest" => all \in {<< >>, KindLatest(Ref)}
    BY <1>2, <1>12 DEF KubernetesScript, all
  <2>2. ASSUME NEW make, Fits(make) PROVE Fitted(KindCluster(make))
    <3>1. Fitted(<< Need("docker"), Put("kind", "cluster", "partial"), make,
                    Start("kind"), Whole("kind", "kubectl"), Need("kind") >>)
      BY <1>4, <1>8, <1>12, <2>2, FitFew
    <3>2. Fitted(IF Binary("toolkit") # "none" THEN << Add("docker", {"nvidia"}), Restart("docker") >>
                 ELSE << >>)
      BY <1>4, FitFew
    <3> QED  BY <3>1, <3>2, FitJoined DEF KindCluster
  <2>3. Fitted(DeleteCluster)
    BY <1>4, <1>8, <1>12, FitFew DEF DeleteCluster
  <2>4. /\ \A c : Fitted(KindCluster(Put("kind", "cluster", c)))
        /\ Fitted(KindCluster(Clone({<<"kind", "cluster">>})))
    BY <1>8, <1>12, <2>2
  <2>5. Fitted(IF disk[<<"kind", "cluster">>] # "none" THEN DeleteCluster ELSE << >>)
    BY <2>3, FitFew
  <2>6. Fitted(KindRelease(v))
    <3>1. Fitted(<< Fetch("kind", "kubectl", "whole") >>)
      BY <1>4, FitFew
    <3> QED  BY <2>4, <2>5, <3>1, FitJoined DEF KindRelease
  <2>7. Fitted(KindGit(Ref)) /\ Fitted(KindLatest(Ref))
    <3>1. Fitted(KindBuilder)
      BY <1>4, <2>3, FitFew, FitJoined DEF KindBuilder
    <3> QED  BY <1>10, <2>4, <3>1, FitJoined DEF KindGit, KindLatest
  <2> QED  BY <1>2, <1>3, <2>1, <2>6, <2>7, FitFew
<1>13. CASE i = "microk8s"
  <2>1. all \in {<< >>, Microk8s(v)}
    BY <1>13 DEF KubernetesScript, all
  <2> QED  BY <1>3, <1>4, <2>1, FitFew DEF Microk8s
<1> QED  BY <1>2, <1>11, <1>12, <1>13

\* A cluster of kind that is there and does not run.
Unstarted == disk[Cluster] # "none" /\ ~Up("kind")

\* What can happen as long as nothing goes wrong; a kernel may ask for reboots.
LEMMA FaultlessSteps ==
  ASSUME BaseInv, BaseInv', [Next]_vars, faults' = 0
  PROVE  /\ faults = 0 /\ UNCHANGED branch
         /\ \/ BeginScript \/ ScriptStep \/ ScriptEnds \/ UNCHANGED vars
            \/ /\ ~At("kubernetes")' /\ UNCHANGED <<disk[Tools], disk[Record], disk[Cluster]>>
               /\ \/ NodeGoesDown \/ NodeComesUp
                  \/ ScriptFails /\ UNCHANGED <<node, power>>
                  \/ ~At("kubernetes") /\ UNCHANGED proc /\ (power = "down" => power' = "down")
<1>1. faults \in Nat /\ ~Disturb
  BY DEF BaseInv, Types, Disturb
<1>2. /\ ~CutOff /\ ~InitFails /\ ~GiveUp /\ ~UserReboots /\ ~DaemonDies /\ ~BranchMoves
  BY <1>1 DEF CutOff, InitFails, GiveUp, UserReboots, DaemonDies, BranchMoves
<1>3. faults = 0 /\ UNCHANGED branch
  BY <1>2 DEF Next, Run, vars, StartRun, RefuseRun, BeginScript, TemplateFails, ScriptStep, run,
     RebootStep, ScriptFails, ScriptEnds, Reconnect, Finish, NodeGoesDown, NodeComesUp, Update, EndRun
<1>4. /\ Tools \in Item /\ Record \in Item /\ Cluster \in Item
      /\ <<"kube", "config">> \notin {Tools, Record, Cluster}
  BY DEF Tools, Record, Cluster, Item
<1>5. \A p : p # "script" => (phase = p => ~At("kubernetes")) /\ (phase' = p => ~At("kubernetes")')
  BY DEF At
<1>6. CASE StartRun
  <2>1. UNCHANGED <<disk[Tools], disk[Record], disk[Cluster]>>
    BY <1>4, <1>6 DEF StartRun, BaseInv, NodeTypes
  <2> QED  BY <1>3, <1>5, <1>6, <2>1 DEF StartRun
<1>7. CASE RefuseRun \/ TemplateFails \/ Finish
  BY <1>3, <1>5, <1>7 DEF RefuseRun, TemplateFails, Finish, EndRun, node
<1>8. CASE ScriptFails
  BY <1>3, <1>5, <1>8 DEF ScriptFails, EndRun, node
<1>9. CASE Reconnect \/ Update
  BY <1>3, <1>5, <1>9 DEF Reconnect, Update, node
<1>10. CASE RebootStep
  <2>1. PICK c \in Part : At(c) /\ StepOf(c, Step)
    BY <1>10, RunningLine DEF RebootStep, BaseInv
  <2>2. At("kernel")
    BY <1>10, <2>1 DEF StepOf, RebootStep
  <2>3. ~At("kubernetes")
    BY <2>2, Order DEF BaseInv, Part
  <2>4. UNCHANGED <<disk, proc, todo, phase>> /\ power # "down"
    BY <1>10 DEF RebootStep, RunningScript, node
  <2>5. ~At("kubernetes")'
    BY <2>3, <2>4 DEF At
  <2> QED  BY <1>3, <2>3, <2>4, <2>5
<1>11. CASE NodeGoesDown
  <2>1. phase' # "script" /\ UNCHANGED disk
    BY <1>11 DEF NodeGoesDown
  <2> QED  BY <1>3, <1>5, <1>11, <2>1
<1>12. CASE NodeComesUp
  <2>1. phase' # "script" /\ UNCHANGED disk
    BY <1>12 DEF NodeComesUp, BaseInv, PowerInv
  <2> QED  BY <1>3, <1>5, <1>12, <2>1
<1> QED  BY <1>2, <1>3, <1>6, <1>7, <1>8, <1>9, <1>10, <1>11, <1>12 DEF Next, Run

\* The installer and its source stay what they are, once there is one.
LEMMA SameInstaller ==
  ASSUME BaseInv, [Next]_vars
  PROVE  \/ doc'.kubernetes = doc.kubernetes
         \/ Update /\ doc.kubernetes = <<"none", "none", "none">>
<1>1. doc \in Document
  BY DEF BaseInv, Types
<1>2. ASSUME ~Asked(doc.kubernetes) PROVE doc.kubernetes = <<"none", "none", "none">>
  <2>1. \A names, sources : \A x \in Named(names, sources) : x[1] \in names
    BY DEF Named
  <2>2. doc.kubernetes \in {<<"none", "none", "none">>}
                \cup Named({"", "kubeadm", "kind"}, Sources("release"))
                \cup Named({"microk8s"}, {"release"} \X Version)
    BY <1>1 DEF Document
  <2> QED  BY <1>2, <2>1, <2>2 DEF Asked
<1> QED  BY <1>2, DocumentKept

\* Then a line that fits still does.
LEMMA StillFits ==
  ASSUME doc'.kubernetes = doc.kubernetes, UNCHANGED branch
  PROVE  /\ Ref' = Ref /\ (Release' <=> Release) /\ Recorded' = Recorded
         /\ \A x : Fits(x)' <=> Fits(x)
BY DEF Ref, Release, Recorded, Fits, Marks, Writes

\* The line of a script that writes an item of the cluster.
LEMMA WritingLine ==
  ASSUME BaseInv, [Next]_vars, SourceKept, faults = 0, NEW i \in {Tools, Record, Cluster}, disk'[i] # disk[i]
  PROVE  /\ ScriptStep /\ At("kubernetes") /\ RunningScript /\ Effect /\ Step = script[1]
         /\ 1 \in 1..Len(script) /\ i \in Item
         /\ \/ Fits(Step) /\ Writes(Step) /\ i \in Step.at
            \/ Release /\ disk[Tools] = "partial" /\ Step.do = "put" /\ Step.at = {Tools} /\ i = Tools
<1>1. /\ ScriptStep /\ At("kubernetes") /\ RunningScript /\ Effect /\ Step = script[1]
      /\ Writes(Step) /\ i \in Step.at
  BY Written DEF Tools, Record, Cluster
<1>2. 1 \in 1..Len(script)
  BY <1>1, RunningLine DEF BaseInv
<1>3. i \in Item
  BY DEF Tools, Record, Cluster, Item
<1> QED  BY <1>1, <1>2, <1>3 DEF SourceKept

\* What is written is what was there or what the document's source says.
LEMMA SourceWritten ==
  ASSUME BaseInv, [Next]_vars, SourceKept, faults = 0
  PROVE  /\ disk'[Record] # disk[Record] => disk'[Record] = Ref
         /\ disk'[Tools] # disk[Tools] =>
              IF Release THEN disk[Tools] \in {"none", "partial"} ELSE disk'[Tools] = Ref
         /\ disk'[Cluster] # disk[Cluster] => doc.kubernetes[1] = "kind"
<1>1. disk \in [Item -> Content] /\ Tools # Record /\ Tools # Cluster
  BY DEF BaseInv, NodeTypes, Tools, Record, Cluster
<1>2. ASSUME disk'[Record] # disk[Record] PROVE disk'[Record] = Ref
  <2>1. RunningScript /\ Effect /\ Record \in Item /\ Fits(Step) /\ Writes(Step) /\ Record \in Step.at
    BY <1>1, <1>2, WritingLine
  <2>2. Step = Put("kube", "provenance", Ref)
    BY <2>1 DEF Fits, Marks, Record
  <2>3. disk' = [disk EXCEPT ![Record] = Ref]
    BY <2>1, <2>2, KnownLines DEF Record
  <2> QED  BY <1>1, <2>1, <2>3
<1>3. ASSUME disk'[Tools] # disk[Tools]
      PROVE  IF Release THEN disk[Tools] \in {"none", "partial"} ELSE disk'[Tools] = Ref
  <2>1. /\ RunningScript /\ Effect /\ Tools \in Item
        /\ \/ Fits(Step) /\ Writes(Step) /\ Tools \in Step.at
           \/ Release /\ disk[Tools] = "partial"
    BY <1>3, WritingLine
  <2>2. CASE Release
    <3>1. CASE disk[Tools] = "partial"
      BY <2>2, <3>1
    <3>2. CASE Step.do = "fetch" /\ Step.at = {Tools}
      BY <1>3, <2>1, <2>2, <3>2, LineEffects
    <3> QED  BY <2>1, <2>2, <3>1, <3>2 DEF Fits
  <2>3. CASE ~Release
    <3>1. Step = Put("kube", "tools", Ref) \/ (Step = Clone({Tools}) /\ Ref = branch)
      BY <2>1, <2>3 DEF Fits
    <3>2. CASE Step = Put("kube", "tools", Ref)
      <4>1. disk' = [disk EXCEPT ![Tools] = Ref]
        BY <2>1, <3>2, KnownLines DEF Tools
      <4> QED  BY <1>1, <2>1, <2>3, <4>1
    <3>3. CASE Step = Clone({Tools}) /\ Ref = branch
      <4>1. Step.do = "clone" /\ Step.at = {Tools}
        BY <3>3 DEF Clone
      <4>2. disk' = [disk EXCEPT ![Tools] = branch]
        BY <2>1, <4>1, LineEffects
      <4> QED  BY <1>1, <2>1, <2>3, <3>3, <4>2
    <3> QED  BY <3>1, <3>2, <3>3
  <2> QED  BY <2>2, <2>3
<1>4. ASSUME disk'[Cluster] # disk[Cluster] PROVE doc.kubernetes[1] = "kind"
  <2>1. Fits(Step) /\ Writes(Step) /\ Cluster \in Step.at
    BY <1>1, <1>4, WritingLine
  <2> QED  BY <2>1 DEF Fits
<1> QED  BY <1>2, <1>3, <1>4

\* SourceKept is inductive.
LEMMA SourceStep ==
  ASSUME BaseInv, BaseInv', SourceKept, [Next]_vars
  PROVE  SourceKept'
<1> SUFFICES ASSUME faults' = 0 PROVE SourceKept'
  BY DEF SourceKept
<1>1. faults = 0 /\ UNCHANGED branch
  BY FaultlessSteps
<1>2. /\ disk[Record] \in {"none", Ref} /\ (~Release => disk[Tools] \in {"none", Ref})
      /\ disk[Cluster] # "none" => doc.kubernetes[1] = "kind"
  BY <1>1 DEF SourceKept
<1>3. CASE Update /\ doc.kubernetes = <<"none", "none", "none">>
  <2>1. UNCHANGED disk /\ ~At("kubernetes")'
    BY <1>3 DEF Update, node, At
  <2>2. ~Release /\ Ref = "none" /\ doc.kubernetes[1] # "kind"
    BY <1>3 DEF Release, Ref
  <2>3. disk'[Record] = "none" /\ disk'[Tools] = "none" /\ disk'[Cluster] = "none"
    BY <1>2, <2>1, <2>2
  <2> QED  BY <2>1, <2>3 DEF SourceKept
<1>4. CASE doc'.kubernetes = doc.kubernetes
  <2>1. /\ Ref' = Ref /\ (Release' <=> Release)
        /\ \A x : Fits(x)' <=> Fits(x)
    BY <1>1, <1>4, StillFits
  <2>2. /\ disk'[Record] \in {"none", Ref'} /\ (~Release' => disk'[Tools] \in {"none", Ref'})
        /\ disk'[Cluster] # "none" => doc'.kubernetes[1] = "kind"
    BY <1>1, <1>2, <1>4, <2>1, SourceWritten
  <2>3. ASSUME At("kubernetes")', NEW j \in 1..Len(script')
        PROVE  \/ Fits(script'[j])
               \/ j = 1 /\ Release /\ disk'[Tools] = "partial" /\ script'[j].do = "put" /\ script'[j].at = {Tools}
    <3>1. CASE BeginScript
      <4>1. Head(todo) = Install("kubernetes") /\ Expected("kubernetes")
        BY <2>3, <3>1, QuietPlaces DEF Part
      <4> QED  BY <2>3, <3>1, <4>1, FitsAtOnce DEF Fitted
    <3>2. CASE ScriptStep
      <4>1. At("kubernetes")
        BY <2>3, <3>2, QuietPlaces DEF Part
      <4>2. /\ RunningScript /\ Effect /\ Sequence(script) /\ Len(script) \in Nat \ {0}
            /\ Step = script[1] /\ 1 \in 1..Len(script)
            /\ Moves => Len(script') = Len(script) - 1
                        /\ \A k \in 1..(Len(script) - 1) : script'[k] = script[k + 1]
        BY <3>2, <4>1, ScriptLine DEF Part
      <4>3. \A k \in 1..Len(script) :
              \/ Fits(script[k])
              \/ k = 1 /\ Release /\ disk[Tools] = "partial" /\ script[k].do = "put" /\ script[k].at = {Tools}
        BY <1>1, <4>1 DEF SourceKept
      <4>4. CASE Moves
        <5>1. j + 1 \in 1..Len(script) /\ j + 1 # 1 /\ script'[j] = script[j + 1]
          BY <2>3, <4>2, <4>4
        <5> QED  BY <4>3, <5>1
      <4>5. CASE Refetches
        <5>1. /\ Step.do = "fetch" /\ Len(script') = Len(script) /\ script'[1] = PutOneOf(Step.at, Step.val)
              /\ \A k \in 2..Len(script) : script'[k] = script[k]
          BY <4>5 DEF Refetches
        <5>2. CASE j # 1
          <6>1. j \in 2..Len(script) /\ j \in 1..Len(script)
            BY <2>3, <4>2, <5>1, <5>2
          <6> QED  BY <4>3, <5>1, <5>2, <6>1
        <5>3. CASE j = 1
          <6>1. Fits(Step)
            BY <4>2, <4>3, <5>1
          <6>2. script'[1].do = "put" /\ script'[1].at = Step.at
            BY <5>1 DEF PutOneOf
          <6>3. CASE Tools \in Step.at
            <7>1. Release /\ Step.at = {Tools}
              BY <5>1, <6>1, <6>3 DEF Fits, Writes, Put, PutOneOf, Clone
            <7>2. disk' = [disk EXCEPT ![Tools] = "partial"]
              <8>1. ~Moves
                BY <4>2, <5>1
              <8>2. (disk' = [disk EXCEPT ![Tools] = "partial"] /\ Refetches) \/ Moves
                BY <4>2, <5>1, <7>1, LineEffects
              <8> QED  BY <8>1, <8>2
            <7>3. disk'[Tools] = "partial"
              BY <7>2 DEF BaseInv, NodeTypes, Tools, Item
            <7> QED  BY <5>3, <6>2, <7>1, <7>3
          <6>4. CASE Tools \notin Step.at
            <7>1. Record \notin Step.at
              BY <5>1, <6>1 DEF Fits, Marks, Writes, Record, Put, PutOneOf
            <7>2. Cluster \in Step.at => doc.kubernetes[1] = "kind"
              BY <5>1, <6>1 DEF Fits, Writes
            <7> QED  BY <5>3, <6>2, <6>4, <7>1, <7>2 DEF Fits, Marks, Record
          <6> QED  BY <6>3, <6>4
        <5> QED  BY <5>2, <5>3
      <4> QED  BY <4>2, <4>4, <4>5, EffectMoves DEF BaseInv
    <3>3. CASE UNCHANGED vars
      <4>1. UNCHANGED <<disk, script, phase, todo>>
        BY <3>3 DEF vars
      <4> QED  BY <1>1, <2>3, <4>1 DEF SourceKept, At
    <3>4. CASE ScriptEnds
      BY <2>3, <3>4, QuietPlaces DEF Part
    <3> QED  BY <2>3, <3>1, <3>2, <3>3, <3>4, FaultlessSteps
  <2> QED  BY <1>1, <2>1, <2>2, <2>3 DEF SourceKept
<1> QED  BY <1>3, <1>4, SameInstaller

\* What no step takes apart, as long as nothing has gone wrong before it.
LEMMA KeptStep ==
  ASSUME BaseInv, At("kubernetes") => KubernetesLines, SourceKept, [Next]_vars,
         faults = 0, NEW i \in ClusterItems, PutTogether(i)
  PROVE  disk'[i] = disk[i]
<1>1. "none" \notin Build /\ "partial" \notin Build
  BY BuildAssumption DEF Build
<1>2. CASE i = <<"kube", "network">>
  <2>1. disk[i] = "calico"
    BY <1>2 DEF PutTogether
  <2> QED  BY <1>2, <2>1, NetworkStays
<1>3. CASE i = <<"kube", "admin">>
  <2>1. disk[i] # "none"
    BY <1>1, <1>3 DEF PutTogether
  <2>2. \A c \in Part : Change(c) => disk'[i] = disk[i]
    BY <1>3, <2>1 DEF Change
  <2> QED  BY <2>2, NodeSteps DEF Part, node, NodeGoesDown, NodeComesUp, DaemonDies
<1>4. CASE i = Tools
  <2>1. disk[Tools] \in Build
    BY <1>4 DEF PutTogether, Tools
  <2>2. ~Release => disk[Tools] = Ref
    BY <1>1, <2>1 DEF SourceKept
  <2> QED  BY <1>1, <1>4, <2>1, <2>2, SourceWritten
<1> QED  BY <1>2, <1>3, <1>4 DEF ClusterItems, Tools

\* As long as nothing has gone wrong, what is recorded and built on a node comes
\* from the document's source, and only the installer kind makes a cluster of kind.
THEOREM Kept == Spec => []SourceKept
<1>1. Init => SourceKept
  <2> SUFFICES ASSUME Init PROVE SourceKept
    OBVIOUS
  <2>1. /\ {Tools, Record, Cluster} \subseteq Item
        /\ {<<"kernel", "image">>, <<"jq", "package">>} \cap {Tools, Record, Cluster} = {}
    BY DEF Tools, Record, Cluster, Item
  <2>2. disk[Tools] = "none" /\ disk[Record] = "none" /\ disk[Cluster] = "none"
    BY <2>1 DEF Init, NodeInit
  <2>3. ~At("kubernetes")
    BY DEF Init, At
  <2> QED  BY <2>2, <2>3 DEF SourceKept
<1>2. BaseInv /\ BaseInv' /\ SourceKept /\ [Next]_vars => SourceKept'
  BY SourceStep
<1> QED  BY <1>1, <1>2, Based, PTL DEF Spec

\* No run that nothing disturbs takes apart the cluster of kubeadm: the tools it
\* was made with, its certificates and its network.
THEOREM KubeadmStays ==
  Spec => [][ faults = 0 /\ ~fresh =>
                \A i \in ClusterItems : PutTogether(i) => disk'[i] = disk[i] ]_vars
<1> DEFINE Stays == faults = 0 /\ ~fresh =>
                     \A i \in ClusterItems : PutTogether(i) => disk'[i] = disk[i]
<1>1. BaseInv /\ KubernetesInv /\ SourceKept /\ [Next]_vars => [Stays]_vars
  <2> SUFFICES ASSUME BaseInv, KubernetesInv, SourceKept, [Next]_vars, faults = 0, NEW i \in ClusterItems, PutTogether(i)
               PROVE  disk'[i] = disk[i]
    OBVIOUS
  <2> QED  BY KeptStep DEF KubernetesInv
<1> QED  BY <1>1, Based, Kubernetes, Kept, PTL DEF Spec

=============================================================================
