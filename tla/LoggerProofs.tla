----------------------------- MODULE LoggerProofs -----------------------------
(***************************************************************************)
(* Proofs about Logger, for any callers and any number of animations: the  *)
(* wait group counts what spins, verdicts are the callers', and the        *)
(* process does not end while an animation spins.                          *)
(***************************************************************************)
EXTENDS Logger, FiniteSetTheorems, TLAPS

-----------------------------------------------------------------------------
(* The inductive invariant                                                 *)

\* What TypeOK leaves out: slots, and that finitely many animations spin.
Types ==
  /\ idx \in [Caller -> Nat] /\ IsFiniteSet(Spinning)
  /\ shown \in [Animation -> {"new", "refused", "spins", "check", "cross"}]

\* An animation is new until its caller has come to it.
NewOnes ==
  \A c \in Caller, n \in 1..Calls :
    n > calls[c] => shown[<<c, n>>] = "new" /\ cause[<<c, n>>] = "none" /\ said[<<c, n>>] = "none"

\* A caller at work has an animation, about which it has said nothing yet.
\* Until Exit takes the list, the caller's slot is that animation's.
Slot(c) ==
  /\ calls[c] >= 1 /\ shown[Current(c)] # "new"
  /\ pc[c] = "work" => said[Current(c)] = "none"
  /\ pc[c] = "free" => cause[Current(c)] # "none" /\ shown[Current(c)] # "refused"
  /\ \/ exited
     \/ idx[c] \in DOMAIN activeCancels /\ activeCancels[idx[c]] = Current(c)

Slots == \A c \in Caller : pc[c] # "idle" => Slot(c)

\* An animation that nobody has cancelled is in the list, for Exit to find.
Listed ==
  /\ exited => activeCancels = <<>>
  /\ exited <=> main \in {"wait", "gone"}
  /\ \A i \in DOMAIN activeCancels :
       activeCancels[i] # None => activeCancels[i] \in Animation /\ shown[activeCancels[i]] # "new"
  /\ \A a \in Animation :
       /\ shown[a] = "spins" /\ cause[a] = "none" =>
            ~exited /\ \E i \in DOMAIN activeCancels : activeCancels[i] = a
       /\ shown[a] = "refused" => exited /\ cause[a] # "none"
       /\ shown[a] \in {"check", "cross"} => cause[a] # "none"

\* Why an animation was cancelled, and what its caller said.
Causes ==
  \A a \in Animation :
    /\ cause[a] = "failed" => said[a] = "failed"
    /\ cause[a] = "ok" => said[a] = "ok" \/ shown[a] = "refused"
    /\ cause[a] = "exit" => exited /\ said[a] # "failed"
    /\ said[a] \in {"ok", "failed"} => cause[a] # "none"

\* When the process has ended, no animation spins.
GoneMeansStill == main = "gone" => Spinning = {}

IInv ==
  /\ TypeOK /\ Types /\ NewOnes /\ Slots /\ Listed /\ Causes
  /\ VerdictIsTheCallers /\ GoneMeansStill

-----------------------------------------------------------------------------
(* Lemmas                                                                  *)

\* An empty slot is told from every animation.
LEMMA NoneIsNoAnimation == \A a \in Animation : a # None
BY DEF Animation, None

\* The animation of a caller that is not idle is one of its own.
LEMMA CurrentIsAnimation ==
  ASSUME IInv, NEW c \in Caller, pc[c] # "idle"
  PROVE  Current(c) \in Animation /\ Current(c) = <<c, calls[c]>>
BY CallAssumption DEF IInv, TypeOK, Slots, Slot, Current, Animation

\* The counter keeps its meaning when the set it counts does not change.
LEMMA StillSpinning ==
  ASSUME IInv, wg' = wg, Spinning' = Spinning
  PROVE  wg' = Cardinality(Spinning') /\ IsFiniteSet(Spinning')
BY DEF IInv, TypeOK, Types, Spinning

-----------------------------------------------------------------------------
(* The invariant holds initially, and every step preserves it              *)

\* Nothing was started yet.
LEMMA IInvInit == Init => IInv
<1>. SUFFICES ASSUME Init PROVE IInv
  OBVIOUS
<1>1. Spinning = {} /\ IsFiniteSet(Spinning) /\ Cardinality(Spinning) = 0
  BY FS_EmptySet DEF Init, Spinning
<1>2. TypeOK /\ Types
  <2>1. wg = Cardinality(Spinning) /\ IsFiniteSet(Spinning)
    BY <1>1 DEF Init
  <2>2. activeCancels \in Seq(Animation \cup {None})
    BY DEF Init
  <2>3. calls \in [Caller -> 0..Calls] /\ idx \in [Caller -> Nat]
    BY CallAssumption DEF Init
  <2>4. /\ cause \in [Animation -> {"none", "ok", "failed", "exit"}]
        /\ said \in [Animation -> {"none", "ok", "failed", "late", "left"}]
        /\ shown \in [Animation -> {"new", "refused", "spins", "check", "cross"}]
    BY DEF Init
  <2>. QED
    BY <2>1, <2>2, <2>3, <2>4 DEF Init, TypeOK, Types
<1>3. NewOnes /\ Slots /\ Listed /\ Causes /\ VerdictIsTheCallers /\ GoneMeansStill
  BY DEF Init, NewOnes, Slots, Listed, Causes, VerdictIsTheCallers, GoneMeansStill, Animation
<1>. QED
  BY <1>2, <1>3 DEF IInv

\* An animation starts, or is refused because the process exits.
LEMMA LoadingKeeps ==
  ASSUME IInv, NEW c \in Caller, Loading(c)
  PROVE  IInv'
<1>. DEFINE n == calls[c] + 1
            a == <<c, n>>
<1>1. n \in 1..Calls /\ a \in Animation /\ n > calls[c] /\ calls[c] \in Nat
  BY CallAssumption DEF IInv, TypeOK, Loading, Animation
<1>2. shown[a] = "new" /\ cause[a] = "none" /\ said[a] = "none"
  BY <1>1 DEF IInv, NewOnes
<1>3. /\ pc' = [pc EXCEPT ![c] = "work"] /\ calls' = [calls EXCEPT ![c] = n]
      /\ said' = said /\ exited' = exited /\ main' = main /\ Alive
      /\ Current(c)' = a /\ \A d \in Caller \ {c} : Current(d)' = Current(d)
  BY <1>1 DEF IInv, TypeOK, Loading, Go, Current
<1>4. CASE exited
  <2>1. /\ shown' = [shown EXCEPT ![a] = "refused"] /\ cause' = [cause EXCEPT ![a] = "ok"]
        /\ wg' = wg /\ activeCancels' = activeCancels /\ idx' = idx
    BY <1>4 DEF Loading
  <2>2. Spinning' = Spinning
    BY <2>1, <1>1, <1>2 DEF IInv, Types, Spinning
  <2>3. TypeOK' /\ Types'
    BY <2>1, <2>2, <1>1, <1>3, StillSpinning DEF IInv, TypeOK, Types, Spinning
  <2>4. NewOnes'
    BY <2>1, <1>1, <1>3 DEF IInv, TypeOK, Types, NewOnes, Animation
  <2>5. Slots'
    <3>. SUFFICES ASSUME NEW d \in Caller, pc'[d] # "idle"
                  PROVE  Slot(d)'
      BY DEF Slots
    <3>1. CASE d = c
      BY <3>1, <2>1, <1>1, <1>2, <1>3, <1>4 DEF IInv, TypeOK, Types, Slot
    <3>2. CASE d # c
      <4>1. Slot(d) /\ pc[d] # "idle" /\ Current(d) \in Animation /\ Current(d) # a
        BY <3>2, <1>3, CurrentIsAnimation DEF IInv, TypeOK, Slots
      <4>. QED
        BY <4>1, <3>2, <2>1, <1>1, <1>3, <1>4 DEF IInv, TypeOK, Types, Slot
    <3>. QED
      BY <3>1, <3>2
  <2>6. Listed' /\ Causes' /\ VerdictIsTheCallers' /\ GoneMeansStill'
    BY <2>1, <2>2, <1>1, <1>2, <1>3, <1>4
       DEF IInv, TypeOK, Types, Listed, Causes, VerdictIsTheCallers, GoneMeansStill, Alive
  <2>. QED
    BY <2>3, <2>4, <2>5, <2>6 DEF IInv
<1>5. CASE ~exited
  <2>. DEFINE k == Len(activeCancels) + 1
  <2>1. /\ shown' = [shown EXCEPT ![a] = "spins"] /\ cause' = cause /\ wg' = wg + 1
        /\ activeCancels' = Append(activeCancels, a) /\ idx' = [idx EXCEPT ![c] = k]
    BY <1>5 DEF Loading
  <2>2. Spinning' = Spinning \cup {a} /\ a \notin Spinning
    BY <2>1, <1>1, <1>2 DEF IInv, Types, Spinning
  <2>3. wg' = Cardinality(Spinning') /\ IsFiniteSet(Spinning')
    BY <2>1, <2>2, FS_AddElement DEF IInv, TypeOK, Types
  <2>4. activeCancels \in Seq(Animation \cup {None})
    BY DEF IInv, TypeOK
  <2>5. /\ activeCancels' \in Seq(Animation \cup {None}) /\ k \in Nat /\ k \in DOMAIN activeCancels'
        /\ activeCancels'[k] = a
        /\ \A i \in DOMAIN activeCancels :
             i \in DOMAIN activeCancels' /\ activeCancels'[i] = activeCancels[i]
    BY <2>1, <2>4, <1>1
  <2>6. TypeOK' /\ Types'
    BY <2>1, <2>3, <2>5, <1>1, <1>3 DEF IInv, TypeOK, Types
  <2>7. NewOnes'
    BY <2>1, <1>1, <1>3 DEF IInv, TypeOK, Types, NewOnes, Animation
  <2>8. Slots'
    <3>. SUFFICES ASSUME NEW d \in Caller, pc'[d] # "idle"
                  PROVE  Slot(d)'
      BY DEF Slots
    <3>1. CASE d = c
      BY <3>1, <2>1, <2>5, <1>1, <1>2, <1>3 DEF IInv, TypeOK, Types, Slot
    <3>2. CASE d # c
      <4>1. Slot(d) /\ pc[d] # "idle" /\ Current(d) \in Animation /\ Current(d) # a
        BY <3>2, <1>3, CurrentIsAnimation DEF IInv, TypeOK, Slots
      <4>. QED
        BY <4>1, <3>2, <2>1, <2>5, <1>1, <1>3, <1>5 DEF IInv, TypeOK, Types, Slot
    <3>. QED
      BY <3>1, <3>2
  <2>9. Listed' /\ Causes' /\ VerdictIsTheCallers' /\ GoneMeansStill'
    <3>1. Listed'
      BY <2>1, <2>5, <1>1, <1>2, <1>3, <1>5 DEF IInv, TypeOK, Types, Listed, Alive
    <3>2. Causes' /\ VerdictIsTheCallers' /\ GoneMeansStill'
      BY <2>1, <1>1, <1>2, <1>3, <1>5
         DEF IInv, TypeOK, Types, Causes, VerdictIsTheCallers, GoneMeansStill, Alive
    <3>. QED
      BY <3>1, <3>2
  <2>. QED
    BY <2>3, <2>6, <2>7, <2>8, <2>9 DEF IInv
<1>. QED
  BY <1>4, <1>5

\* A caller reports how its work went.
LEMMA CancelKeeps ==
  ASSUME IInv, NEW c \in Caller, NEW why \in {"ok", "failed"}, Cancel(c, why)
  PROVE  IInv'
<1>. DEFINE a == Current(c)
<1>1. a \in Animation /\ pc[c] = "work" /\ Slot(c)
  BY CurrentIsAnimation DEF Cancel, IInv, Slots
<1>2. /\ cause' = [x \in Animation |-> IF x = a /\ cause[x] = "none" THEN why ELSE cause[x]]
      /\ said' = [said EXCEPT ![a] = IF exited THEN "late" ELSE why]
      /\ pc' = [pc EXCEPT ![c] = IF shown[a] = "refused" THEN "idle" ELSE "free"]
      /\ exited' = exited /\ activeCancels' = activeCancels /\ wg' = wg /\ shown' = shown
      /\ calls' = calls /\ idx' = idx /\ main' = main
  BY DEF Cancel, Cancelled, Go
<1>3. Spinning' = Spinning
  BY <1>2 DEF Spinning
<1>4. TypeOK' /\ Types'
  BY <1>1, <1>2, <1>3, StillSpinning DEF IInv, TypeOK, Types
<1>5. said[a] = "none" /\ shown[a] # "new"
  BY <1>1 DEF Slot
<1>6. NewOnes'
  BY <1>1, <1>2, <1>5 DEF IInv, TypeOK, Types, NewOnes, Animation
<1>7. \A d \in Caller : Current(d)' = Current(d) /\ (Current(d) = a => d = c)
  BY <1>2 DEF Current
<1>8. Slots'
  <2>. SUFFICES ASSUME NEW d \in Caller, pc'[d] # "idle"
                PROVE  Slot(d)'
    BY DEF Slots
  <2>1. Slot(d) /\ pc[d] # "idle" /\ Current(d) \in Animation
    BY <1>1, <1>2, CurrentIsAnimation DEF IInv, TypeOK, Slots
  <2>. QED
    BY <2>1, <1>1, <1>2, <1>7 DEF IInv, TypeOK, Types, Slot
<1>9. \A x \in Animation : shown[x] = "spins" /\ cause[x] = "none" => ~exited
  BY DEF IInv, Listed
<1>10. Listed' /\ Causes' /\ VerdictIsTheCallers' /\ GoneMeansStill'
  <2>1. Listed'
    BY <1>1, <1>2 DEF IInv, TypeOK, Types, Listed
  <2>2. cause[a] = "none" => ~exited
    BY <1>1, <1>5 DEF IInv, Types, Listed
  <2>3. Causes' /\ VerdictIsTheCallers' /\ GoneMeansStill'
    BY <1>1, <1>2, <1>3, <1>5, <2>2
       DEF IInv, TypeOK, Types, Listed, Causes, VerdictIsTheCallers, GoneMeansStill
  <2>. QED
    BY <2>1, <2>3
<1>. QED
  BY <1>4, <1>6, <1>8, <1>10 DEF IInv

\* The cancel function gives the slot back.
LEMMA FreeSlotKeeps ==
  ASSUME IInv, NEW c \in Caller, FreeSlot(c)
  PROVE  IInv'
<1>. DEFINE a == Current(c)
<1>1. a \in Animation /\ pc[c] = "free" /\ Slot(c) /\ cause[a] # "none"
  BY CurrentIsAnimation DEF FreeSlot, IInv, Slots, Slot
<1>2. /\ pc' = [pc EXCEPT ![c] = "idle"] /\ said' = said /\ cause' = cause
      /\ exited' = exited /\ wg' = wg /\ shown' = shown
      /\ calls' = calls /\ idx' = idx /\ main' = main
  BY DEF FreeSlot, Go
<1>3. activeCancels \in Seq(Animation \cup {None}) /\ idx[c] \in Nat
  BY DEF IInv, TypeOK, Types
<1>4. /\ activeCancels' \in Seq(Animation \cup {None})
      /\ DOMAIN activeCancels' = DOMAIN activeCancels
      /\ \A i \in DOMAIN activeCancels :
           activeCancels'[i] = IF i = idx[c] THEN None ELSE activeCancels[i]
  BY <1>3 DEF FreeSlot
<1>5. Spinning' = Spinning
  BY <1>2 DEF Spinning
<1>6. TypeOK' /\ Types'
  BY <1>2, <1>4, <1>5, StillSpinning DEF IInv, TypeOK, Types
<1>7. NewOnes' /\ Causes' /\ VerdictIsTheCallers' /\ GoneMeansStill'
  BY <1>2, <1>5 DEF IInv, NewOnes, Causes, VerdictIsTheCallers, GoneMeansStill
<1>8. ~exited => idx[c] \in DOMAIN activeCancels /\ activeCancels[idx[c]] = a
  BY <1>1 DEF Slot
<1>9. Slots'
  <2>. SUFFICES ASSUME NEW d \in Caller, pc'[d] # "idle"
                PROVE  Slot(d)'
    BY DEF Slots
  <2>1. d # c /\ pc[d] # "idle" /\ Slot(d) /\ Current(d)' = Current(d) /\ Current(d) # a
    BY <1>2 DEF IInv, TypeOK, Slots, Current
  <2>. QED
    BY <2>1, <1>2, <1>4, <1>8 DEF Slot
<1>10. Listed'
  <2>1. exited => activeCancels' = <<>>
    BY <1>3, <1>4 DEF IInv, Listed
  <2>. QED
    BY <2>1, <1>1, <1>2, <1>4, <1>8 DEF IInv, Listed
<1>. QED
  BY <1>6, <1>7, <1>9, <1>10 DEF IInv

\* A caller leaves without a verdict.
LEMMA AbandonKeeps ==
  ASSUME IInv, NEW c \in Caller, Abandon(c)
  PROVE  IInv'
<1>. DEFINE a == Current(c)
<1>1. a \in Animation /\ pc[c] = "work" /\ Slot(c)
  BY CurrentIsAnimation DEF Abandon, IInv, Slots
<1>2. /\ pc' = [pc EXCEPT ![c] = "idle"] /\ said' = [said EXCEPT ![a] = "left"]
      /\ exited' = exited /\ activeCancels' = activeCancels /\ wg' = wg /\ shown' = shown
      /\ cause' = cause /\ calls' = calls /\ idx' = idx /\ main' = main
  BY DEF Abandon, Go
<1>3. Spinning' = Spinning /\ said[a] = "none" /\ shown[a] # "new"
  BY <1>1, <1>2 DEF Spinning, Slot
<1>4. TypeOK' /\ Types'
  BY <1>1, <1>2, <1>3, StillSpinning DEF IInv, TypeOK, Types
<1>5. NewOnes'
  BY <1>1, <1>2, <1>3 DEF IInv, TypeOK, Types, NewOnes, Animation
<1>6. Slots'
  <2>. SUFFICES ASSUME NEW d \in Caller, pc'[d] # "idle"
                PROVE  Slot(d)'
    BY DEF Slots
  <2>1. d # c /\ pc[d] # "idle" /\ Slot(d) /\ Current(d)' = Current(d) /\ Current(d) # a
    BY <1>2 DEF IInv, TypeOK, Slots, Current
  <2>. QED
    BY <2>1, <1>1, <1>2, CurrentIsAnimation DEF IInv, TypeOK, Slot
<1>7. Listed' /\ Causes' /\ VerdictIsTheCallers' /\ GoneMeansStill'
  BY <1>1, <1>2, <1>3
     DEF IInv, TypeOK, Types, Listed, Causes, VerdictIsTheCallers, GoneMeansStill
<1>. QED
  BY <1>4, <1>5, <1>6, <1>7 DEF IInv

\* An animation ends with the verdict of its context.
LEMMA ShowKeeps ==
  ASSUME IInv, NEW a \in Animation, Show(a)
  PROVE  IInv'
<1>1. /\ shown[a] = "spins" /\ cause[a] # "none" /\ wg' = wg - 1 /\ main # "gone"
      /\ shown' = [shown EXCEPT ![a] = IF cause[a] = "failed" THEN "cross" ELSE "check"]
      /\ exited' = exited /\ activeCancels' = activeCancels /\ cause' = cause /\ said' = said
      /\ pc' = pc /\ calls' = calls /\ idx' = idx /\ main' = main
  BY DEF Show
<1>2. Spinning' = Spinning \ {a} /\ a \in Spinning
  BY <1>1 DEF IInv, Types, Spinning
<1>3. wg' = Cardinality(Spinning') /\ IsFiniteSet(Spinning')
  BY <1>1, <1>2, FS_RemoveElement DEF IInv, TypeOK, Types
<1>4. TypeOK' /\ Types'
  BY <1>1, <1>3 DEF IInv, TypeOK, Types
<1>5. NewOnes'
  BY <1>1 DEF IInv, TypeOK, Types, NewOnes, Animation
<1>6. Slots'
  <2>. SUFFICES ASSUME NEW d \in Caller, pc'[d] # "idle"
                PROVE  Slot(d)'
    BY DEF Slots
  <2>1. pc[d] # "idle" /\ Slot(d) /\ Current(d)' = Current(d) /\ Current(d) \in Animation
    BY <1>1, CurrentIsAnimation DEF IInv, Slots, Current
  <2>. QED
    BY <2>1, <1>1 DEF IInv, Types, Slot
<1>7. Listed' /\ Causes' /\ VerdictIsTheCallers' /\ GoneMeansStill'
  BY <1>1, <1>2
     DEF IInv, TypeOK, Types, Listed, Causes, VerdictIsTheCallers, GoneMeansStill
<1>. QED
  BY <1>4, <1>5, <1>6, <1>7 DEF IInv

\* Exit cancels what is in the list.
LEMMA ExitKeeps ==
  ASSUME IInv, Exit
  PROVE  IInv'
<1>. DEFINE listed == {activeCancels[i] : i \in DOMAIN activeCancels} \ {None}
<1>1. /\ main = "run" /\ main' = "wait" /\ exited' = TRUE /\ activeCancels' = <<>>
      /\ cause' = [x \in Animation |-> IF x \in listed /\ cause[x] = "none" THEN "exit" ELSE cause[x]]
      /\ wg' = wg /\ shown' = shown /\ said' = said /\ pc' = pc /\ calls' = calls /\ idx' = idx
  BY DEF Exit, Cancelled
<1>2. Spinning' = Spinning /\ ~exited
  BY <1>1 DEF Spinning, IInv, Listed
<1>3. TypeOK' /\ Types'
  <2>1. activeCancels' \in Seq(Animation \cup {None})
    BY <1>1
  <2>. QED
    BY <2>1, <1>1, <1>2, StillSpinning DEF IInv, TypeOK, Types
<1>4. \A x \in Animation : shown[x] = "spins" /\ cause[x] = "none" => x \in listed
  BY NoneIsNoAnimation DEF IInv, Listed
<1>5. \A x \in listed : \E i \in DOMAIN activeCancels : activeCancels[i] = x
  OBVIOUS
<1>6. \A x \in listed : x \in Animation /\ shown[x] # "new"
  BY <1>5 DEF IInv, Listed
<1>7. NewOnes'
  <2>1. \A x \in Animation : shown[x] = "new" => cause'[x] = cause[x]
    BY <1>1, <1>6
  <2>. QED
    BY <2>1, <1>1, CallAssumption DEF IInv, TypeOK, NewOnes, Animation
<1>8. Slots'
  <2>. SUFFICES ASSUME NEW c \in Caller, pc'[c] # "idle"
                PROVE  Slot(c)'
    BY DEF Slots
  <2>1. pc[c] # "idle" /\ Slot(c) /\ Current(c)' = Current(c) /\ Current(c) \in Animation
    BY <1>1, CurrentIsAnimation DEF IInv, Slots, Current
  <2>. QED
    BY <2>1, <1>1 DEF Slot
<1>9. Listed'
  <2>1. \A x \in Animation : cause[x] # "none" => cause'[x] # "none"
    BY <1>1
  <2>2. \A x \in Animation : shown[x] = "spins" => cause'[x] # "none"
    BY <1>1, <1>4
  <2>3. DOMAIN activeCancels' = {}
    BY <1>1
  <2>. QED
    BY <2>1, <2>2, <2>3, <1>1, <1>2 DEF IInv, Listed
<1>10. Causes' /\ VerdictIsTheCallers' /\ GoneMeansStill'
  BY <1>1, <1>2 DEF IInv, TypeOK, Causes, VerdictIsTheCallers, GoneMeansStill
<1>. QED
  BY <1>3, <1>7, <1>8, <1>9, <1>10 DEF IInv

\* The main goroutine waits, and goes on when the counter is 0.
LEMMA WaitKeeps ==
  ASSUME IInv, Drain \/ Waited
  PROVE  IInv'
<1>1. /\ exited' = exited /\ activeCancels' = activeCancels /\ wg' = wg /\ cause' = cause
      /\ shown' = shown /\ said' = said /\ pc' = pc /\ calls' = calls /\ idx' = idx
      /\ main' \in {"run", "drain", "wait", "gone"}
      /\ main' \in {"wait", "gone"} <=> main \in {"wait", "gone"}
      /\ main' = "gone" => wg = 0
  BY DEF Drain, Waited
<1>2. Spinning' = Spinning
  BY <1>1 DEF Spinning
<1>3. TypeOK' /\ Types'
  BY <1>1, <1>2, StillSpinning DEF IInv, TypeOK, Types
<1>4. GoneMeansStill'
  <2>1. wg = 0 => Spinning = {}
    BY FS_EmptySet DEF IInv, TypeOK, Types
  <2>. QED
    BY <2>1, <1>1, <1>2 DEF GoneMeansStill
<1>5. NewOnes' /\ Slots' /\ Listed' /\ Causes' /\ VerdictIsTheCallers'
  BY <1>1 DEF IInv, NewOnes, Slots, Slot, Current, Listed, Causes, VerdictIsTheCallers
<1>. QED
  BY <1>3, <1>4, <1>5 DEF IInv

\* Every step of the specification preserves the invariant.
LEMMA IInvStep == IInv /\ [Next]_vars => IInv'
<1>. SUFFICES ASSUME IInv, [Next]_vars PROVE IInv'
  OBVIOUS
<1>1. ASSUME NEW c \in Caller,
             Loading(c) \/ Cancel(c, "ok") \/ Cancel(c, "failed") \/ FreeSlot(c) \/ Abandon(c)
      PROVE  IInv'
  BY <1>1, LoadingKeeps, CancelKeeps, FreeSlotKeeps, AbandonKeeps
<1>2. ASSUME NEW a \in Animation, Show(a)
      PROVE  IInv'
  BY <1>2, ShowKeeps
<1>3. CASE Exit \/ Drain \/ Waited
  BY <1>3, ExitKeeps, WaitKeeps
<1>4. CASE UNCHANGED vars
  <2>1. Spinning' = Spinning
    BY <1>4 DEF vars, Spinning
  <2>. QED
    BY <2>1, <1>4 DEF vars, IInv, TypeOK, Types, NewOnes, Slots, Slot, Current, Listed, Causes,
                      VerdictIsTheCallers, GoneMeansStill
<1>. QED
  BY <1>1, <1>2, <1>3, <1>4 DEF Next

-----------------------------------------------------------------------------
(* Theorems                                                                *)

\* The invariant holds in every state of the logger.
THEOREM Inductive == FairSpec => []IInv
<1>. QED
  BY IInvInit, IInvStep, PTL DEF FairSpec

\* The variables keep their types, and the wait group counts the animations
\* that spin: no Done is lost, and none is one too many.
THEOREM TypeCorrect == FairSpec => []TypeOK
<1>1. IInv => TypeOK
  BY DEF IInv
<1>. QED
  BY <1>1, Inductive, PTL

\* A cross is the failure that the animation's own caller reported in time, and
\* no such failure is covered by Exit, whatever happens at the same time.
THEOREM VerdictIsTrue == FairSpec => []VerdictIsTheCallers
<1>1. IInv => VerdictIsTheCallers
  BY DEF IInv
<1>. QED
  BY <1>1, Inductive, PTL

\* Exit does not end the process before every animation has ended: none is
\* started behind its back.
THEOREM ExitWaitsForAll == FairSpec => [](main = "gone" => Spinning = {})
<1>1. IInv => (main = "gone" => Spinning = {})
  BY DEF IInv, GoneMeansStill
<1>. QED
  BY <1>1, Inductive, PTL

=============================================================================
