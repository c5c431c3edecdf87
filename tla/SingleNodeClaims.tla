-------------------------- MODULE SingleNodeClaims --------------------------
(***************************************************************************)
(* What the tests and the guides of the repository say of creation and     *)
(* deletion, and what SingleNode shows the code not to guarantee.          *)
(***************************************************************************)
EXTENDS SingleNode

\* tests/e2e_mock_test.go:115-127 injects one failure into a create call: no
\* other call fails for a reason of its own, nothing is killed.
InjectedFailure == Next /\ ~CompleteFails /\ ~Fault

InjectedSpec == Init /\ [][InjectedFailure]_vars

\* "single-node create rolls back cleanly on injected API failure": once the
\* cleanup stack is empty no resource is left. The code deletes the route
\* table before the subnet it is associated with, which AWS refuses (and which
\* delete.go:373-393 takes care to avoid); then the VPC cannot go either.
RollbackLeavesNothing == pc = "rollback" /\ undo = {} => live = {}

=============================================================================
