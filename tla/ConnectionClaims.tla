-------------------------- MODULE ConnectionClaims --------------------------
(***************************************************************************)
(* What a comment of the repository says of a connection that was lost,    *)
(* and what Connection shows the code not to guarantee.                    *)
(***************************************************************************)
EXTENDS MCConnection

OneBastion == {s \in AllSetups : s[t1].via = "bastion"}

\* pkg/provisioner/provisioner.go:114-116: "ensureClient guarantees p.Client is a
\* live SSH connection [...] a dead one is closed and re-dialed through
\* p.transport."  With every host up and no connection lost during the dial, and
\* with the right keys recorded, the dial does not give up.  But the bastion
\* transport keeps its client of the bastion when that is dead.
DeadClientsAreReplaced ==
  \A t \in Thread : pc[t] = "failed" => outage[t] \/ Mistrusted(t)

=============================================================================
