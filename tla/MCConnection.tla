---------------------------- MODULE MCConnection ----------------------------
(***************************************************************************)
(* Two provisioners, of one process or of two.                             *)
(***************************************************************************)
EXTENDS Connection, TLC

CONSTANTS t1, t2, p1, p2, n1, n2, b, a1, a2, q1, q2

OneOrTwo == {(t1 :> p1 @@ t2 :> p1), (t1 :> p1 @@ t2 :> p2)}

Line(via, node, address) == [via |-> via, node |-> node, address |-> address]

\* Two nodes with one address (one had it before the other, or each has it in a
\* network of its own), met at the same time, directly or through one bastion
\* that is met at the same time; and a forwarded port beside a bastion.
AllSetups ==
  { (t1 :> Line("direct", n1, a1) @@ t2 :> Line("direct", n2, a1)),
    (t1 :> Line("bastion", n1, a1) @@ t2 :> Line("bastion", n2, a1)),
    (t1 :> Line("ssm", n1, a1) @@ t2 :> Line("bastion", n2, a2)) }

=============================================================================
