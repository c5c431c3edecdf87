------------------------------ MODULE Lifecycle ------------------------------
(***************************************************************************)
(* What a provider promises for one environment: resources come into being *)
(* in one creation, one at a time and each noted in a book before the      *)
(* next; an environment is published as available when it is complete;     *)
(* nothing is taken away from one that is published; only what the book    *)
(* names is taken away; and the book is closed when nothing in it exists.  *)
(*                                                                         *)
(* The promise is given up in part when the book is damaged (the disk      *)
(* failed, or a rollback wrote over it): then anything may be noted or     *)
(* forgotten.  What a damaged book still guarantees is the order of the    *)
(* phases, that nothing is made after the creation, and that it is closed  *)
(* only when nothing in it exists.                                         *)
(***************************************************************************)
CONSTANTS
  Item,       \* the resources of the environment
  Volatile    \* those that may go away on their own

VARIABLES
  phase,      \* "absent", "creating", "available", "partial", "closed"
  stock,      \* the resources that exist
  book,       \* the resources the book names
  damaged,    \* the book was damaged
  killed      \* a process was killed

vars == <<phase, stock, book, damaged, killed>>

\* The phases a damaged book may move to from each phase.
Later == [absent |-> {"creating"}, creating |-> {"partial", "closed"},
          available |-> {"partial", "closed"}, partial |-> {"closed"},
          closed |-> {"partial"}]

Init ==
  /\ phase = "absent" /\ stock = {} /\ book = {}
  /\ damaged = FALSE /\ killed = FALSE

\* The one creation begins.
Open ==
  /\ phase = "absent" /\ phase' = "creating"
  /\ UNCHANGED <<stock, book, damaged, killed>>

\* A resource is made, after the ones before it were noted.
Acquire ==
  /\ phase = "creating"
  /\ damaged \/ stock \subseteq book
  /\ \E x \in Item : stock' = stock \cup {x}
  /\ UNCHANGED <<phase, book, damaged, killed>>

\* All that exists is noted, and nothing is forgotten ...
Note == stock \cup book \subseteq book' /\ book' \subseteq Item

\* ... while the creation goes on, or when it gives up.
Enter ==
  /\ phase = "creating" /\ phase' \in {"creating", "partial"}
  /\ Note
  /\ UNCHANGED <<stock, damaged, killed>>

\* The creation is complete.
Publish ==
  /\ phase = "creating" /\ phase' = "available"
  /\ book' = Item /\ Item \ Volatile \subseteq stock
  /\ UNCHANGED <<stock, damaged, killed>>

\* An environment is no longer offered. Nothing else leads away from
\* "available", and nothing leads back.
Withdraw ==
  /\ phase = "available" /\ phase' = "partial"
  /\ UNCHANGED <<stock, book, damaged, killed>>

\* Something the book names is taken away.
Release ==
  /\ phase = "partial"
  /\ stock' \subseteq stock /\ stock \ stock' \subseteq book
  /\ UNCHANGED <<phase, book, damaged, killed>>

\* A volatile resource goes away.
Vanish ==
  /\ stock' \subseteq stock /\ stock \ stock' \subseteq Volatile
  /\ UNCHANGED <<phase, book, damaged, killed>>

\* The book is closed; it may be thrown away then.
Close ==
  /\ phase \in {"partial", "closed"} /\ phase' = "closed"
  /\ book \cap stock = {} /\ book' \in {book, {}}
  /\ UNCHANGED <<stock, damaged, killed>>

\* A closed book that was not thrown away is worked through again.
Reopen ==
  /\ phase = "closed" /\ phase' = "partial"
  /\ UNCHANGED <<stock, book, damaged, killed>>

\* A process is killed: a creation ends where it was.
Kill ==
  /\ killed' = TRUE
  /\ phase' = IF phase = "creating" THEN "partial" ELSE phase
  /\ UNCHANGED <<stock, book, damaged>>

\* The book is, or was, damaged.
Damage ==
  /\ damaged' = TRUE
  /\ phase' \in {phase} \cup Later[phase]
  /\ stock' \subseteq stock /\ book' \subseteq Item
  /\ phase' = "closed" => book' \cap stock' = {}
  /\ killed' \in {killed, TRUE}

Next ==
  \/ Open \/ Acquire \/ Enter \/ Publish \/ Withdraw \/ Release \/ Vanish
  \/ Close \/ Reopen \/ Kill \/ Damage

Spec == Init /\ [][Next]_vars

=============================================================================
