--------------------- MODULE ClusterProvisionerClaims ---------------------
(***************************************************************************)
(* What a guide says of repeating the provisioning, and what               *)
(* ClusterProvisioner shows the code not to guarantee.                     *)
(***************************************************************************)
EXTENDS ClusterProvisioner

\* pkg/skill/data/skills/using-holodeck/SKILL.md:119: "holodeck update <id>
\* --reprovision   # re-run all installers (idempotent)".  A repetition returns
\* nil for a cluster whose control-plane nodes do not all run the control plane:
\* a node on which kubeadm join failed after it wrote kubelet.conf counts as
\* joined (templates/kubeadm_cluster.go:313-318).
SuccessMeansControlPlane == result = "success" => OtherCP \subseteq cplane

=============================================================================
