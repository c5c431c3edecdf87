--------------------------- MODULE MCProvisioner ---------------------------
(***************************************************************************)
(* The documents for the runs of Provisioner: together they ask for every  *)
(* template.                                                               *)
(***************************************************************************)
EXTENDS Provisioner

CONSTANTS old, new, c1, c2

Nothing == [kernel |-> "none", driver |-> <<"none", "none">>,
            runtime |-> <<"none", "none", "none">>, toolkit |-> <<"none", "none">>,
            kubernetes |-> <<"none", "none", "none">>, custom |-> {}]

\* What an environment for GPU work asks for.
Stack(runtime, kubernetes) ==
  [Nothing EXCEPT !.driver = <<"package", new>>, !.runtime = runtime,
     !.toolkit = <<"package", new>>, !.kubernetes = kubernetes]

Containerd == <<"containerd", "package", old>>
Docker     == <<"docker", "package", new>>
OldDocker    == <<"docker", "package", old>>

AllDocuments ==
  { Nothing,
    Stack(Containerd, <<"kubeadm", "release", new>>),
    [Stack(Containerd, <<"kubeadm", "release", new>>) EXCEPT !.toolkit = <<"none", "none">>],
    Stack(Docker, <<"kubeadm", "release", old>>),
    Stack(<<"crio", "package", old>>, <<"kubeadm", "latest", "branch">>),
    Stack(Docker, <<"kind", "release", new>>),
    [Stack(OldDocker, <<"kubeadm", "release", new>>) EXCEPT !.toolkit = <<"package", old>>],
    [Stack(Docker, <<"kubeadm", "git", c1>>) EXCEPT !.toolkit = <<"none", "none">>],
    Stack(<<"docker", "latest", "branch">>, <<"none", "none", "none">>),
    [Stack(OldDocker, <<"kind", "git", c1>>) EXCEPT !.driver = <<"runfile", old>>],
    [Nothing EXCEPT !.kernel = new, !.runtime = Docker, !.kubernetes = <<"kind", "git", c1>>],
    [Stack(Docker, <<"kind", "latest", "branch">>) EXCEPT !.toolkit = <<"git", c1>>],
    [Stack(<<"containerd", "git", c1>>, <<"kubeadm", "git", c1>>) EXCEPT
       !.toolkit = <<"latest", "branch">>],
    [Stack(<<"containerd", "latest", "branch">>, <<"none", "none", "none">>) EXCEPT
       !.kernel = old, !.custom = {"post-runtime"}],
    [Stack(<<"crio", "git", c1>>, <<"none", "none", "none">>) EXCEPT !.kernel = new],
    [Stack(<<"docker", "git", c1>>, <<"none", "none", "none">>) EXCEPT
       !.driver = <<"git", c1>>],
    [Nothing EXCEPT !.kubernetes = <<"microk8s", "release", new>>, !.runtime = Containerd,
       !.custom = {"pre-install", "post-install"}] }

=============================================================================
