------------------------------- MODULE Logger -------------------------------
(***************************************************************************)
(* internal/logger/logger.go: the loading animations of an interactive     *)
(* terminal.  Goroutines start animations and cancel them with a verdict,  *)
(* some return without doing so; the main goroutine waits for the          *)
(* animations at the end of a dry run, or exits.  What Loading, a cancel   *)
(* function and Exit do under the logger's mutex is one step.              *)
(***************************************************************************)
EXTENDS Naturals, FiniteSets, Sequences

CONSTANTS
  Caller,  \* goroutines that use the logger
  Calls    \* bound of the animations that each of them starts

ASSUME CallAssumption == Calls \in Nat

None == <<>>
Animation == Caller \X (1..Calls)

VARIABLES
  exited,         \* Exit has begun
  activeCancels,  \* slots: an animation, or None
  wg,             \* counter of the wait group
  cause,          \* animation -> why it was cancelled first: "none", "ok", "failed", "exit"
  shown,          \* animation -> "new", "refused", "spins", "check", "cross"
  said,           \* animation -> its caller: "none", "ok", "failed", "late", "left"
  pc,             \* caller -> "idle", "work", "free"
  calls,          \* caller -> animations so far
  idx,            \* caller -> slot of the current one
  main            \* "run", "drain" (dry run), "wait" (Exit), "gone"

vars == <<exited, activeCancels, wg, cause, shown, said, pc, calls, idx, main>>

Init ==
  /\ exited = FALSE /\ activeCancels = <<>> /\ wg = 0 /\ main = "run"
  /\ cause = [a \in Animation |-> "none"] /\ said = [a \in Animation |-> "none"]
  /\ shown = [a \in Animation |-> "new"]
  /\ pc = [c \in Caller |-> "idle"] /\ calls = [c \in Caller |-> 0] /\ idx = [c \in Caller |-> 0]

Current(c) == <<c, calls[c]>>
\* Others than the main goroutine do something: before a dry run ends its work,
\* and until Exit ends the process.
Alive == main \in {"run", "wait"}

Go(c, where) == pc' = [pc EXCEPT ![c] = where]

\* Mutant: the wait group counts the animation before Exit is asked about.
LoadingCounted(c) ==
  /\ Alive /\ pc[c] = "idle" /\ calls[c] < Calls /\ Go(c, "work") /\ wg' = wg + 1
  /\ calls' = [calls EXCEPT ![c] = @ + 1]
  /\ LET a == <<c, calls[c] + 1>> IN
       IF exited
       THEN /\ shown' = [shown EXCEPT ![a] = "refused"] /\ cause' = [cause EXCEPT ![a] = "ok"]
            /\ UNCHANGED <<activeCancels, idx>>
       ELSE /\ shown' = [shown EXCEPT ![a] = "spins"]
            /\ activeCancels' = Append(activeCancels, a) /\ UNCHANGED cause
            /\ idx' = [idx EXCEPT ![c] = Len(activeCancels) + 1]
  /\ UNCHANGED <<exited, said, main>>

\* After Exit no animation starts any more.
Loading(c) ==
  /\ Alive /\ pc[c] = "idle" /\ calls[c] < Calls /\ Go(c, "work")
  /\ calls' = [calls EXCEPT ![c] = @ + 1]
  /\ LET a == <<c, calls[c] + 1>> IN
       IF exited
       THEN /\ shown' = [shown EXCEPT ![a] = "refused"] /\ cause' = [cause EXCEPT ![a] = "ok"]
            /\ UNCHANGED <<wg, activeCancels, idx>>
       ELSE /\ shown' = [shown EXCEPT ![a] = "spins"] /\ wg' = wg + 1
            /\ activeCancels' = Append(activeCancels, a) /\ UNCHANGED cause
            /\ idx' = [idx EXCEPT ![c] = Len(activeCancels) + 1]
  /\ UNCHANGED <<exited, said, main>>

\* Mutant: the last cause counts.
CancelledAgain(set, why) ==
  cause' = [a \in Animation |-> IF a \in set THEN why ELSE cause[a]]

\* Only the first cause of a context counts.
Cancelled(set, why) ==
  cause' = [a \in Animation |-> IF a \in set /\ cause[a] = "none" THEN why ELSE cause[a]]

\* The caller's function cancels the context, and then frees the slot.
Cancel(c, why) ==
  /\ Alive /\ pc[c] = "work"
  /\ Cancelled({Current(c)}, why) /\ said' = [said EXCEPT ![Current(c)] = IF exited THEN "late" ELSE why]
  /\ Go(c, IF shown[Current(c)] = "refused" THEN "idle" ELSE "free")
  /\ UNCHANGED <<exited, activeCancels, wg, shown, calls, idx, main>>

\* Mutant: the slot is cut out, and the numbers of the later ones are not.
FreeShifts(c) ==
  /\ Alive /\ pc[c] = "free" /\ Go(c, "idle")
  /\ activeCancels' = IF idx[c] <= Len(activeCancels)
                      THEN SubSeq(activeCancels, 1, idx[c] - 1)
                           \o SubSeq(activeCancels, idx[c] + 1, Len(activeCancels))
                      ELSE activeCancels
  /\ UNCHANGED <<exited, wg, cause, shown, said, calls, idx, main>>

FreeSlot(c) ==
  /\ Alive /\ pc[c] = "free" /\ Go(c, "idle")
  /\ activeCancels' = IF idx[c] <= Len(activeCancels)
                      THEN [activeCancels EXCEPT ![idx[c]] = None] ELSE activeCancels
  /\ UNCHANGED <<exited, wg, cause, shown, said, calls, idx, main>>

\* createSecurityGroup returns without a verdict when it cannot find out the
\* address of the user.
Abandon(c) ==
  /\ Alive /\ pc[c] = "work" /\ Go(c, "idle")
  /\ said' = [said EXCEPT ![Current(c)] = "left"]
  /\ UNCHANGED <<exited, activeCancels, wg, cause, shown, calls, idx, main>>

\* The animation sees the cancelled context, shows the verdict and ends.
Show(a) ==
  /\ main # "gone" /\ shown[a] = "spins" /\ cause[a] # "none" /\ wg' = wg - 1
  /\ shown' = [shown EXCEPT ![a] = IF cause[a] = "failed" THEN "cross" ELSE "check"]
  /\ UNCHANGED <<exited, activeCancels, cause, said, pc, calls, idx, main>>

Exit ==
  /\ main = "run" /\ main' = "wait" /\ exited' = TRUE
  /\ Cancelled({activeCancels[i] : i \in DOMAIN activeCancels} \ {None}, "exit")
  /\ activeCancels' = <<>>
  /\ UNCHANGED <<wg, shown, said, pc, calls, idx>>

\* The dry run waits for the animations when its work is done.
Drain ==
  /\ main = "run" /\ main' = "drain" /\ \A c \in Caller : pc[c] = "idle"
  /\ UNCHANGED <<exited, activeCancels, wg, cause, shown, said, pc, calls, idx>>

Waited ==
  /\ main \in {"drain", "wait"} /\ wg = 0 /\ main' = IF main = "wait" THEN "gone" ELSE "run"
  /\ UNCHANGED <<exited, activeCancels, wg, cause, shown, said, pc, calls, idx>>

Next ==
  \/ \E c \in Caller :
       \/ Loading(c) \/ Cancel(c, "ok") \/ Cancel(c, "failed") \/ FreeSlot(c) \/ Abandon(c)
  \/ \E a \in Animation : Show(a)
  \/ Exit \/ Drain \/ Waited

\* The goroutines of the animations and the main one are scheduled.
FairSpec ==
  Init /\ [][Next]_vars /\ WF_vars(Waited) /\ \A a \in Animation : WF_vars(Show(a))

-----------------------------------------------------------------------------

Spinning == {a \in Animation : shown[a] = "spins"}

TypeOK ==
  /\ exited \in BOOLEAN /\ activeCancels \in Seq(Animation \cup {None})
  /\ wg = Cardinality(Spinning)
  /\ cause \in [Animation -> {"none", "ok", "failed", "exit"}]
  /\ said \in [Animation -> {"none", "ok", "failed", "late", "left"}]
  /\ pc \in [Caller -> {"idle", "work", "free"}] /\ calls \in [Caller -> 0..Calls]
  /\ main \in {"run", "drain", "wait", "gone"}

\* A cross is shown to the user if and only if the animation's own caller
\* reported a failure in time; a check that its caller did not report is the
\* work of Exit.
VerdictIsTheCallers ==
  \A a \in Animation :
    /\ shown[a] = "cross" => said[a] = "failed"
    /\ shown[a] = "check" => said[a] = "ok" \/ (exited /\ said[a] # "failed")

\* Exit ends the process whatever the callers do at the same time, also with
\* animations that were left; the end of a dry run needs that none was.
WaitsEnd ==
  /\ main = "wait" ~> main = "gone"
  /\ main = "drain" ~> main # "drain" \/ \E a \in Animation : said[a] = "left"

=============================================================================
