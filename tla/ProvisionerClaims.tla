------------------------- MODULE ProvisionerClaims -------------------------
(***************************************************************************)
(* What the repository says of repeated and extended provisioning, and the *)
(* code does not do.                                                       *)
(***************************************************************************)
EXTENDS MCProvisioner

OneDocument == {Stack(Containerd, <<"none", "none", "none">>)}

\* "Because provisioning templates are idempotent": what the first run has put
\* on the node is there after every further run.
TemplatesAreIdempotent == Done /\ faults = 0 /\ edits = 0 => RuntimeServes /\ ToolkitServes

=============================================================================
