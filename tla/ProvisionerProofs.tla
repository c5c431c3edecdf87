-------------------------- MODULE ProvisionerProofs --------------------------
(***************************************************************************)
(* Proofs about Provisioner, for every set of documents and every bound of *)
(* faults and edits, in layers that each rest on the ones before:          *)
(*   - the types, and that a script holds only lines of its dependency;    *)
(*   - what runs has something on the disk to be started from again;       *)
(*   - the kernel, with the lines its script has left (KernelPromise);     *)
(*   - the driver, over what other documents left (SuccessMeansDriver);    *)
(*   - the runtime and the toolkit of the first run (FirstRunServes);      *)
(*   - the runtime in every run, and the cluster on it, over what was cut  *)
(*     off, stopped or rebooted before (SuccessMeansKubernetes).           *)
(***************************************************************************)
EXTENDS Provisioner, SequenceTheorems, TLAPS

-----------------------------------------------------------------------------
(* Sequences                                                               *)

Sequence(s) == \E S : s \in Seq(S)

\* Taking the first element of a sequence off.
LEMMA SequenceFacts ==
  ASSUME NEW s, Sequence(s)
  PROVE  /\ Len(s) \in Nat
         /\ s = << >> <=> Len(s) = 0
         /\ Len(s) # 0 =>
              /\ Sequence(Tail(s)) /\ Len(Tail(s)) = Len(s) - 1 /\ Head(s) = s[1]
              /\ \A i \in 1..(Len(s) - 1) : Tail(s)[i] = s[i + 1]
<1> PICK S : s \in Seq(S)
  BY DEF Sequence
<1>1. Len(s) \in Nat /\ Len(<< >>) = 0 /\ (s # << >> => Len(s) # 0)
  BY EmptySeq, LenProperties
<1>2. ASSUME s # << >>
      PROVE  /\ Tail(s) \in Seq(S) /\ Len(Tail(s)) = Len(s) - 1 /\ Head(s) = s[1]
             /\ \A i \in 1..(Len(s) - 1) : Tail(s)[i] = s[i + 1]
  BY <1>2, HeadTailProperties
<1> QED
  BY <1>1, <1>2 DEF Sequence

\* Elements of a concatenation.
LEMMA Joined ==
  ASSUME NEW s, NEW t, Sequence(s), Sequence(t)
  PROVE  /\ Sequence(s \o t) /\ Len(s) \in Nat /\ Len(t) \in Nat
         /\ Len(s \o t) = Len(s) + Len(t)
         /\ \A i \in 1..Len(s) : (s \o t)[i] = s[i]
         /\ \A i \in 1..Len(t) : (s \o t)[Len(s) + i] = t[i]
<1> PICK S : s \in Seq(S)
  BY DEF Sequence
<1> PICK T : t \in Seq(T)
  BY DEF Sequence
<1> DEFINE U == S \cup T
<1>1. s \in Seq(U) /\ t \in Seq(U)
  BY SeqMonotonic
<1> HIDE DEF U
<1>2. /\ s \o t \in Seq(U) /\ Len(s \o t) = Len(s) + Len(t)
      /\ \A i \in 1..(Len(s) + Len(t)) :
           (s \o t)[i] = IF i <= Len(s) THEN s[i] ELSE t[i - Len(s)]
      /\ Len(s) \in Nat /\ Len(t) \in Nat
  BY <1>1, ConcatProperties, LenProperties
<1> QED
  BY <1>2 DEF Sequence

\* Literal sequences are sequences.
LEMMA Literals ==
  /\ Sequence(<< >>) /\ Len(<< >>) = 0
  /\ \A a : Sequence(<<a>>)
  /\ \A a, b : Sequence(<<a, b>>)
  /\ \A a, b, c : Sequence(<<a, b, c>>)
  /\ \A a, b, c, d : Sequence(<<a, b, c, d>>)
  /\ \A a, b, c, d, e : Sequence(<<a, b, c, d, e>>)
  /\ \A a, b, c, d, e, f : Sequence(<<a, b, c, d, e, f>>)
<1>1. Sequence(<< >>) /\ Len(<< >>) = 0
  BY EmptySeq DEF Sequence
<1>2. ASSUME NEW a PROVE Sequence(<<a>>)
  <2> <<a>> \in Seq({a})
    OBVIOUS
  <2> QED  BY DEF Sequence
<1>3. ASSUME NEW a, NEW b PROVE Sequence(<<a, b>>)
  <2> <<a, b>> \in Seq({a, b})
    OBVIOUS
  <2> QED  BY DEF Sequence
<1>4. ASSUME NEW a, NEW b, NEW c PROVE Sequence(<<a, b, c>>)
  <2> <<a, b, c>> \in Seq({a, b, c})
    OBVIOUS
  <2> QED  BY DEF Sequence
<1>5. ASSUME NEW a, NEW b, NEW c, NEW d PROVE Sequence(<<a, b, c, d>>)
  <2> <<a, b, c, d>> \in Seq({a, b, c, d})
    OBVIOUS
  <2> QED  BY DEF Sequence
<1>6. ASSUME NEW a, NEW b, NEW c, NEW d, NEW e PROVE Sequence(<<a, b, c, d, e>>)
  <2> <<a, b, c, d, e>> \in Seq({a, b, c, d, e})
    OBVIOUS
  <2> QED  BY DEF Sequence
<1>7. ASSUME NEW a, NEW b, NEW c, NEW d, NEW e, NEW f PROVE Sequence(<<a, b, c, d, e, f>>)
  <2> <<a, b, c, d, e, f>> \in Seq({a, b, c, d, e, f})
    OBVIOUS
  <2> QED  BY DEF Sequence
<1> QED
  BY <1>1, <1>2, <1>3, <1>4, <1>5, <1>6, <1>7

-----------------------------------------------------------------------------
(* The dependencies of a run                                               *)

Part == {"kernel", "driver", "runtime", "toolkit", "kubernetes"}
Install(c) == <<"install", c>>

Dependency ==
  ({"custom"} \X {"pre-install", "post-runtime", "post-toolkit", "post-kubernetes",
                  "post-install"})
  \cup ({"install"} \X Part)

\* The place of a dependency in the order.
Rank(dep) ==
  CASE dep = <<"custom", "pre-install">>     -> 1
    [] dep = Install("kernel")               -> 2
    [] dep = Install("driver")               -> 3
    [] dep = Install("runtime")              -> 4
    [] dep = <<"custom", "post-runtime">>    -> 5
    [] dep = Install("toolkit")              -> 6
    [] dep = <<"custom", "post-toolkit">>    -> 7
    [] dep = Install("kubernetes")           -> 8
    [] dep = <<"custom", "post-kubernetes">> -> 9
    [] OTHER                                 -> 10

Within(s, low, high) ==
  /\ s \in Seq(Dependency)
  /\ \A i \in 1..Len(s) : Rank(s[i]) \in low..high
  /\ \A i, j \in 1..Len(s) : i < j => Rank(s[i]) < Rank(s[j])

In(s, x)  == \E i \in 1..Len(s) : s[i] = x
Has(s, c) == In(s, Install(c))

\* What a run installs: with MicroK8s nothing else.
Expected(c) ==
  CASE c = "kernel"     -> Full /\ doc.kernel # "none"
    [] c = "driver"     -> Full /\ Asked(doc.driver)
    [] c = "runtime"    -> Full /\ Asked(doc.runtime)
    [] c = "toolkit"    -> Full /\ Asked(doc.toolkit)
    [] c = "kubernetes" -> Asked(doc.kubernetes)

\* The script of c runs; the run has still to begin with c; it has done c.
At(c)     == phase = "script" /\ Head(todo) = Install(c)
Waits(c)  == phase # "idle" /\ Has(todo, c) /\ ~At(c)
Passed(c) == phase # "idle" /\ Expected(c) /\ ~Has(todo, c)

TodoInv ==
  /\ Within(todo, 1, 10)
  /\ phase = "script" => Len(todo) # 0
  /\ \A c \in Part : Has(todo, c) => Expected(c)
  /\ \A c \in Part : Expected(c) /\ ~Has(todo, c) =>
       \A i \in 1..Len(todo) : Rank(todo[i]) > Rank(Install(c))

LEMMA Ranks ==
  /\ \A dep \in Dependency : Rank(dep) \in 1..10
  /\ \A dep, other \in Dependency : Rank(dep) = Rank(other) => dep = other
  /\ Rank(<<"custom", "pre-install">>) = 1 /\ Rank(Install("kernel")) = 2
  /\ Rank(Install("driver")) = 3 /\ Rank(Install("runtime")) = 4
  /\ Rank(<<"custom", "post-runtime">>) = 5 /\ Rank(Install("toolkit")) = 6
  /\ Rank(<<"custom", "post-toolkit">>) = 7 /\ Rank(Install("kubernetes")) = 8
  /\ Rank(<<"custom", "post-kubernetes">>) = 9 /\ Rank(<<"custom", "post-install">>) = 10
  BY DEF Rank, Install, Dependency, Part

\* A part of the list that there is or is not.
LEMMA OnePart ==
  ASSUME NEW asked, NEW dep \in Dependency
  PROVE  LET s == IF asked THEN <<dep>> ELSE << >> IN
         /\ Within(s, Rank(dep), Rank(dep))
         /\ \A x : In(s, x) <=> asked /\ x = dep
<1>1. CASE asked
  <2>1. Within(<<dep>>, Rank(dep), Rank(dep))
    BY Ranks DEF Within
  <2> QED  BY <1>1, <2>1 DEF In
<1>2. CASE ~asked
  <2>1. << >> \in Seq(Dependency) /\ Len(<< >>) = 0
    BY EmptySeq
  <2> QED  BY <1>2, <2>1 DEF Within, In
<1> QED  BY <1>1, <1>2

\* Parts that follow each other in the order make a list in that order.
LEMMA PartsJoined ==
  ASSUME NEW low \in Nat, NEW mid \in Nat, NEW high \in Nat, low <= mid + 1, mid <= high,
         NEW s, NEW t, Within(s, low, mid), Within(t, mid + 1, high)
  PROVE  /\ Within(s \o t, low, high)
         /\ \A x : In(s \o t, x) <=> In(s, x) \/ In(t, x)
<1> DEFINE u == s \o t
<1>1. /\ s \in Seq(Dependency) /\ t \in Seq(Dependency) /\ u \in Seq(Dependency)
      /\ Len(u) = Len(s) + Len(t) /\ Len(s) \in Nat /\ Len(t) \in Nat
      /\ \A i \in 1..Len(u) : u[i] = IF i <= Len(s) THEN s[i] ELSE t[i - Len(s)]
  BY ConcatProperties, LenProperties DEF Within
<1> HIDE DEF u
<1>2. ASSUME NEW i \in 1..Len(u)
      PROVE  \/ i <= Len(s) /\ i \in 1..Len(s) /\ u[i] = s[i]
             \/ i > Len(s) /\ i - Len(s) \in 1..Len(t) /\ u[i] = t[i - Len(s)]
  BY <1>1
<1>3. \A i \in 1..Len(u) : u[i] \in Dependency
  BY <1>1, ElementOfSeq
<1>4. \A i \in 1..Len(u) : Rank(u[i]) \in low..high
  BY <1>2, SMTT(30) DEF Within
<1>5. ASSUME NEW i \in 1..Len(u), NEW j \in 1..Len(u), i < j
      PROVE  Rank(u[i]) < Rank(u[j])
  <2> Len(s) \in Nat /\ Len(u) \in Nat /\ i \in Nat /\ j \in Nat
    BY <1>1
  <2>1. CASE j <= Len(s)
    <3>1. i \in 1..Len(s) /\ j \in 1..Len(s) /\ u[i] = s[i] /\ u[j] = s[j]
      BY <1>2, <1>5, <2>1
    <3> QED  BY <1>5, <3>1 DEF Within
  <2>2. CASE i > Len(s)
    <3>1. /\ i - Len(s) \in 1..Len(t) /\ u[i] = t[i - Len(s)]
          /\ j - Len(s) \in 1..Len(t) /\ u[j] = t[j - Len(s)] /\ i - Len(s) < j - Len(s)
      BY <1>1, <1>2, <1>5, <2>2
    <3> QED  BY <3>1 DEF Within
  <2>3. CASE i <= Len(s) /\ j > Len(s)
    <3>1. i \in 1..Len(s) /\ u[i] = s[i] /\ j - Len(s) \in 1..Len(t) /\ u[j] = t[j - Len(s)]
      BY <1>2, <2>3
    <3>2. Rank(u[i]) \in low..mid /\ Rank(u[j]) \in (mid + 1)..high
      BY <3>1 DEF Within
    <3> QED  BY <3>2
  <2> QED  BY <2>1, <2>2, <2>3
<1>6. ASSUME NEW x PROVE In(u, x) <=> In(s, x) \/ In(t, x)
  <2>1. In(u, x) => In(s, x) \/ In(t, x)
    BY <1>2 DEF In
  <2>2. In(s, x) => In(u, x)
    BY <1>1 DEF In
  <2>3. ASSUME In(t, x) PROVE In(u, x)
    <3>1. PICK i \in 1..Len(t) : t[i] = x
      BY <2>3 DEF In
    <3>2. Len(s) + i \in 1..Len(u) /\ Len(s) + i > Len(s) /\ (Len(s) + i) - Len(s) = i
      BY <1>1
    <3>3. u[Len(s) + i] = t[i]
      BY <1>2, <3>2
    <3> QED  BY <3>1, <3>2, <3>3 DEF In
  <2> QED  BY <2>1, <2>2, <2>3
<1> QED
  BY <1>1, <1>4, <1>5, <1>6 DEF Within, u

\* The list of a run is in the order, and holds what the document asks for.
LEMMA ResolveFacts ==
  ASSUME NEW d
  PROVE  /\ Within(Resolve(d), 1, 10)
         /\ LET full == d.kubernetes[1] # "microk8s" IN
            /\ Has(Resolve(d), "kernel") <=> full /\ d.kernel # "none"
            /\ Has(Resolve(d), "driver") <=> full /\ Asked(d.driver)
            /\ Has(Resolve(d), "runtime") <=> full /\ Asked(d.runtime)
            /\ Has(Resolve(d), "toolkit") <=> full /\ Asked(d.toolkit)
            /\ Has(Resolve(d), "kubernetes") <=> Asked(d.kubernetes)
<1> DEFINE custom(at) == IF at \in d.custom THEN << <<"custom", at>> >> ELSE << >>
           part(name, asked) == IF asked THEN << <<"install", name>> >> ELSE << >>
           p1 == custom("pre-install")
           p2 == part("kernel", d.kernel # "none")
           p3 == part("driver", Asked(d.driver))
           p4 == part("runtime", Asked(d.runtime))
           p5 == custom("post-runtime")
           p6 == part("toolkit", Asked(d.toolkit))
           p7 == custom("post-toolkit")
           p8 == part("kubernetes", Asked(d.kubernetes))
           p9 == custom("post-kubernetes")
           p10 == custom("post-install")
           before == p1 \o p2 \o p3 \o p4 \o p5 \o p6 \o p7
           full == d.kubernetes[1] # "microk8s"
           all == (IF d.kubernetes[1] = "microk8s" THEN << >> ELSE before) \o p8 \o p9 \o p10
<1>0. Resolve(d) = all
  BY Zenon DEF Resolve
<1>c. ASSUME NEW at, <<"custom", at>> \in Dependency
      PROVE  /\ Within(custom(at), Rank(<<"custom", at>>), Rank(<<"custom", at>>))
             /\ \A x : In(custom(at), x) <=> at \in d.custom /\ x = <<"custom", at>>
  BY <1>c, OnePart, Zenon
<1>p. ASSUME NEW name \in Part, NEW asked
      PROVE  /\ Within(part(name, asked), Rank(Install(name)), Rank(Install(name)))
             /\ \A x : In(part(name, asked), x) <=> asked /\ x = Install(name)
  <2>1. Install(name) \in Dependency
    BY DEF Install, Dependency
  <2> QED  BY <2>1, OnePart, Zenon DEF Install
<1>d. \A at \in {"pre-install", "post-runtime", "post-toolkit", "post-kubernetes", "post-install"} :
        <<"custom", at>> \in Dependency
  BY DEF Dependency
<1>1. Within(p1, 1, 1) /\ \A x : In(p1, x) => x[1] = "custom"
  BY <1>c, <1>d, Ranks
<1>2. Within(p2, 2, 2) /\ \A x : In(p2, x) <=> d.kernel # "none" /\ x = Install("kernel")
  BY <1>p, Ranks DEF Part
<1>3. Within(p3, 3, 3) /\ \A x : In(p3, x) <=> Asked(d.driver) /\ x = Install("driver")
  BY <1>p, Ranks DEF Part
<1>4. Within(p4, 4, 4) /\ \A x : In(p4, x) <=> Asked(d.runtime) /\ x = Install("runtime")
  BY <1>p, Ranks DEF Part
<1>5. Within(p5, 5, 5) /\ \A x : In(p5, x) => x[1] = "custom"
  BY <1>c, <1>d, Ranks
<1>6. Within(p6, 6, 6) /\ \A x : In(p6, x) <=> Asked(d.toolkit) /\ x = Install("toolkit")
  BY <1>p, Ranks DEF Part
<1>7. Within(p7, 7, 7) /\ \A x : In(p7, x) => x[1] = "custom"
  BY <1>c, <1>d, Ranks
<1>8. Within(p8, 8, 8) /\ \A x : In(p8, x) <=> Asked(d.kubernetes) /\ x = Install("kubernetes")
  BY <1>p, Ranks DEF Part
<1>9. Within(p9, 9, 9) /\ \A x : In(p9, x) => x[1] = "custom"
  BY <1>c, <1>d, Ranks
<1>10. Within(p10, 10, 10) /\ \A x : In(p10, x) => x[1] = "custom"
  BY <1>c, <1>d, Ranks
<1> HIDE DEF p1, p2, p3, p4, p5, p6, p7, p8, p9, p10
<1>11. /\ Within(p1 \o p2, 1, 2)
       /\ \A x : In(p1 \o p2, x) <=> In(p1, x) \/ In(p2, x)
  BY <1>1, <1>2, PartsJoined
<1>12. /\ Within(p1 \o p2 \o p3, 1, 3)
       /\ \A x : In(p1 \o p2 \o p3, x) <=> In(p1 \o p2, x) \/ In(p3, x)
  BY <1>11, <1>3, PartsJoined
<1>13. /\ Within(p1 \o p2 \o p3 \o p4, 1, 4)
       /\ \A x : In(p1 \o p2 \o p3 \o p4, x) <=> In(p1 \o p2 \o p3, x) \/ In(p4, x)
  BY <1>12, <1>4, PartsJoined
<1>14. /\ Within(p1 \o p2 \o p3 \o p4 \o p5, 1, 5)
       /\ \A x : In(p1 \o p2 \o p3 \o p4 \o p5, x) <=> In(p1 \o p2 \o p3 \o p4, x) \/ In(p5, x)
  BY <1>13, <1>5, PartsJoined
<1>15. /\ Within(p1 \o p2 \o p3 \o p4 \o p5 \o p6, 1, 6)
       /\ \A x : In(p1 \o p2 \o p3 \o p4 \o p5 \o p6, x) <=>
                   In(p1 \o p2 \o p3 \o p4 \o p5, x) \/ In(p6, x)
  BY <1>14, <1>6, PartsJoined
<1>16. /\ Within(before, 1, 7)
       /\ \A x : In(before, x) <=> In(p1 \o p2 \o p3 \o p4 \o p5 \o p6, x) \/ In(p7, x)
  BY <1>15, <1>7, PartsJoined
<1>17. \A c \in Part : Has(before, c) <=>
         \/ c = "kernel" /\ d.kernel # "none"
         \/ c = "driver" /\ Asked(d.driver)
         \/ c = "runtime" /\ Asked(d.runtime)
         \/ c = "toolkit" /\ Asked(d.toolkit)
  BY <1>1, <1>2, <1>3, <1>4, <1>5, <1>6, <1>7, <1>11, <1>12, <1>13, <1>14, <1>15, <1>16
     DEF Has, Install, Part
<1>18. Within(<< >>, 1, 7) /\ \A x : ~In(<< >>, x)
  BY EmptySeq DEF Within, In
<1> HIDE DEF before
<1> DEFINE first == IF d.kubernetes[1] = "microk8s" THEN << >> ELSE before
<1>19. Within(first, 1, 7) /\ \A x : In(first, x) <=> full /\ In(before, x)
  BY <1>16, <1>18
<1>20. all = first \o p8 \o p9 \o p10
  OBVIOUS
<1> HIDE DEF first, all
<1>21. Within(first \o p8, 1, 8) /\ \A x : In(first \o p8, x) <=> In(first, x) \/ In(p8, x)
  BY <1>19, <1>8, PartsJoined
<1>22. /\ Within(first \o p8 \o p9, 1, 9)
       /\ \A x : In(first \o p8 \o p9, x) <=> In(first \o p8, x) \/ In(p9, x)
  BY <1>21, <1>9, PartsJoined
<1>23. /\ Within(all, 1, 10)
       /\ \A x : In(all, x) <=> In(first \o p8 \o p9, x) \/ In(p10, x)
  BY <1>20, <1>22, <1>10, PartsJoined
<1>24. \A c \in Part : Has(all, c) <=>
         (full /\ Has(before, c)) \/ (c = "kubernetes" /\ Asked(d.kubernetes))
  BY <1>8, <1>9, <1>10, <1>19, <1>21, <1>22, <1>23 DEF Has, Install, Part
<1> QED
  BY <1>0, <1>17, <1>23, <1>24 DEF Part

\* While the script of a part runs, the run has done the parts before it, and
\* has still to do those after it.
LEMMA Order ==
  ASSUME TodoInv, NEW c \in Part, At(c)
  PROVE  /\ Has(todo, c) /\ Expected(c) /\ ~Passed(c) /\ ~Waits(c)
         /\ \A e \in Part \ {c} : ~At(e)
         /\ \A e \in Part : Rank(Install(e)) < Rank(Install(c)) => ~Waits(e)
         /\ \A e \in Part : Rank(Install(e)) > Rank(Install(c)) => ~Passed(e)
<1>1. todo \in Seq(Dependency) /\ Len(todo) \in Nat /\ Len(todo) # 0
  BY LenProperties DEF TodoInv, Within, At
<1>2. Head(todo) = todo[1] /\ 1 \in 1..Len(todo)
  BY <1>1
<1>3. Has(todo, c) /\ Expected(c)
  BY <1>2 DEF Has, In, At, TodoInv
<1>4. \A e \in Part \ {c} : ~At(e)
  BY DEF At, Install
<1>5. ASSUME NEW e \in Part, Rank(Install(e)) < Rank(Install(c)), Waits(e) PROVE FALSE
  <2>1. PICK i \in 1..Len(todo) : todo[i] = Install(e)
    BY <1>5 DEF Waits, Has, In
  <2>2. i = 1 \/ Rank(todo[1]) < Rank(todo[i])
    BY <1>1, <1>2 DEF TodoInv, Within
  <2>3. Rank(Install(e)) \in 1..10 /\ Rank(Install(c)) \in 1..10
    BY Ranks DEF Install, Dependency
  <2> QED  BY <1>2, <1>5, <2>1, <2>2, <2>3 DEF At
<1>6. ASSUME NEW e \in Part, Rank(Install(e)) > Rank(Install(c)), Passed(e) PROVE FALSE
  <2>1. Rank(todo[1]) > Rank(Install(e))
    BY <1>2, <1>6 DEF TodoInv, Passed
  <2>2. Rank(Install(e)) \in 1..10 /\ Rank(Install(c)) \in 1..10
    BY Ranks DEF Install, Dependency
  <2> QED  BY <1>2, <1>6, <2>1, <2>2 DEF At
<1> QED
  BY <1>3, <1>4, <1>5, <1>6 DEF Passed, Waits

\* What a run still has to do without its first dependency.
LEMMA TodoTail ==
  ASSUME TodoInv, Len(todo) # 0
  PROVE  /\ Within(Tail(todo), 1, 10)
         /\ \A c : Has(Tail(todo), c) <=> Has(todo, c) /\ Head(todo) # Install(c)
         /\ \A i \in 1..Len(Tail(todo)) : Rank(Tail(todo)[i]) > Rank(Head(todo))
         /\ \A i \in 1..Len(Tail(todo)) : i + 1 \in 1..Len(todo) /\ Tail(todo)[i] = todo[i + 1]
<1>1. todo \in Seq(Dependency) /\ Len(todo) \in Nat /\ todo # << >>
  BY LenProperties, EmptySeq DEF TodoInv, Within
<1>2. /\ Tail(todo) \in Seq(Dependency) /\ Len(Tail(todo)) = Len(todo) - 1
      /\ Head(todo) = todo[1]
      /\ \A i \in 1..Len(Tail(todo)) : Tail(todo)[i] = todo[i + 1]
  BY <1>1, HeadTailProperties
<1> DEFINE rest == Tail(todo)
<1> HIDE DEF rest
<1>3. \A i \in 1..Len(rest) : i + 1 \in 1..Len(todo) /\ i + 1 > 1 /\ rest[i] = todo[i + 1]
  BY <1>1, <1>2 DEF rest
<1>4. \A i, j \in 1..Len(todo) : i < j => Rank(todo[i]) < Rank(todo[j])
  BY DEF TodoInv, Within
<1>5. 1 \in 1..Len(todo)
  BY <1>1
<1>6. ASSUME NEW i \in 1..Len(rest) PROVE Rank(rest[i]) > Rank(todo[1])
  <2>1. Rank(todo[1]) < Rank(todo[i + 1])
    BY <1>3, <1>4, <1>5
  <2>2. Rank(todo[1]) \in 1..10 /\ Rank(todo[i + 1]) \in 1..10
    BY <1>3, <1>5 DEF TodoInv, Within
  <2> QED  BY <1>3, <2>1, <2>2
<1>7. Within(rest, 1, 10)
  <2>1. \A i \in 1..Len(rest) : Rank(rest[i]) \in 1..10
    BY <1>3 DEF TodoInv, Within
  <2>2. \A i, j \in 1..Len(rest) : i < j => Rank(rest[i]) < Rank(rest[j])
    BY <1>3, <1>4
  <2> QED  BY <1>2, <2>1, <2>2 DEF Within, rest
<1>8. ASSUME NEW x PROVE In(rest, x) <=> In(todo, x) /\ todo[1] # x
  <2>1. ASSUME In(rest, x) PROVE In(todo, x) /\ todo[1] # x
    <3>1. PICK i \in 1..Len(rest) : rest[i] = x
      BY <2>1 DEF In
    <3>2. Rank(rest[i]) > Rank(todo[1]) /\ Rank(todo[1]) \in 1..10
      BY <1>5, <1>6 DEF TodoInv, Within
    <3> QED  BY <1>3, <3>1, <3>2 DEF In
  <2>2. ASSUME In(todo, x), todo[1] # x PROVE In(rest, x)
    <3>1. PICK i \in 1..Len(todo) : todo[i] = x
      BY <2>2 DEF In
    <3>2. i - 1 \in 1..Len(rest) /\ (i - 1) + 1 = i
      BY <1>1, <1>2, <2>2, <3>1 DEF rest
    <3> QED  BY <1>3, <3>1, <3>2 DEF In
  <2> QED  BY <2>1, <2>2
<1> QED
  BY <1>2, <1>3, <1>6, <1>7, <1>8 DEF Has, rest

-----------------------------------------------------------------------------
(* What a line of a script can change                                      *)

Content == Build \cup {"none", "partial", "whole", "files", "pods", "operator", "calico",
                       "binary", "unit", "config", "package", "jq"}
Setting == {"cri", "nvidia"}

OwnRuntime == RuntimeOf(doc)

ItemsOf(c) ==
  CASE c = "kernel"  -> {i \in Item : i[1] = "kernel"}
    [] c = "driver"  -> {i \in Item : i[1] = "driver"}
    [] c = "runtime" -> {i \in Item : i[1] \in {OwnRuntime, "cri-docker"}}
    [] c = "toolkit" -> {i \in Item : i[1] = "toolkit"}
    [] c = "kubernetes" -> {i \in Item : i[1] \in {"kube", "kind", "microk8s", "jq"}}

FilesOf(c) ==
  CASE c \in {"runtime", "toolkit"} -> {OwnRuntime}
    [] c = "kubernetes" -> {"docker"}
    [] OTHER -> {}

DaemonsOf(c) ==
  CASE c = "driver" -> {"driver"}
    [] c \in {"runtime", "toolkit"} -> {OwnRuntime, "cri-docker", "kind"}
    [] c = "kubernetes" -> {"docker", "cri-docker", "kube", "kind", "microk8s"}
    [] OTHER -> {}

\* What the script downloads only if it is not there.
Downloads ==
  {i \in Item : i[2] = "fetched"}
    \cup {<<"cri-docker", "binary">>, <<"kube", "tools">>, <<"kube", "unit">>,
           <<"kube", "network">>, <<"kind", "kubectl">>}

\* What nobody looks into once it is there, except by using it.
UsedWhole == {i \in Item : i[2] = "fetched"} \cup {<<"kind", "kubectl">>}

\* What a script takes away again: the marker of the kernel, the cluster of
\* kind.  (That the driver's copy is of something is for later.)
Removable == {<<"kernel", "pending">>, <<"kind", "cluster">>, <<"driver", "module">>}

\* The line is one of a script of c.
StepOf(c, s) ==
  /\ s.do \in {"put", "keep", "fetch", "clone"} =>
       s.at \subseteq ItemsOf(c) /\ <<"kube", "admin">> \notin s.at
  /\ s.do \in {"put", "keep", "fetch"} =>
       /\ s.val \subseteq Content
       /\ <<"kube", "tools">> \in s.at => s.val \subseteq Build
       /\ <<"cri-docker", "binary">> \in s.at => s.val = {"binary"}
       /\ s.at \cap Downloads # {} => "partial" \notin s.val
       /\ s.at \cap UsedWhole # {} => s.val = {"whole"}
       /\ "none" \in s.val => s.at \subseteq Removable
  /\ s.do = "fetch" => s.at \subseteq Downloads /\ \E i \in Item : s.at = {i}
  /\ s.do = "clone" => <<"cri-docker", "binary">> \notin s.at /\ s.at \cap UsedWhole = {}
  /\ s.do = "package" => c = "runtime" /\ s.at = {<<OwnRuntime, "package">>} /\ s.val \subseteq Version
  /\ s.do = "copy" =>
       c = "driver" /\ s.at = {<<"driver", "module">>} /\ s.val = {<<"driver", "userland">>}
  /\ s.do \in {"overwrite", "add"} => s.at = FilesOf(c) /\ s.val \subseteq Setting
  /\ s.do = "overwrite" => c = "runtime" /\ s.val = {"cri"}
  /\ s.do \in {"restart", "start"} => s.at \subseteq DaemonsOf(c)
  /\ s.do = "stop" => c = "kubernetes" /\ s.at = {"kind"}
  /\ s.do = "init" =>
       /\ c = "kubernetes"
       /\ doc.kubernetes[2] # "release" => s.at = {OwnRuntime} /\ s.val = {"socket"}
  /\ s.do = "reboot" => c = "kernel"

ScriptOfPart(c, s) == Sequence(s) /\ \A i \in 1..Len(s) : StepOf(c, s[i])

LEMMA ScriptsJoined ==
  ASSUME NEW c, NEW s, NEW t, ScriptOfPart(c, s), ScriptOfPart(c, t)
  PROVE  ScriptOfPart(c, s \o t)
<1>1. /\ Sequence(s \o t) /\ Len(s) \in Nat /\ Len(t) \in Nat
      /\ Len(s \o t) = Len(s) + Len(t)
      /\ \A i \in 1..Len(s) : (s \o t)[i] = s[i]
      /\ \A i \in 1..Len(t) : (s \o t)[Len(s) + i] = t[i]
  BY Joined DEF ScriptOfPart
<1>2. ASSUME NEW i \in 1..Len(s \o t) PROVE StepOf(c, (s \o t)[i])
  <2>1. CASE i \in 1..Len(s)
    BY <1>1, <2>1 DEF ScriptOfPart
  <2>2. CASE i \notin 1..Len(s)
    <3>1. i - Len(s) \in 1..Len(t) /\ Len(s) + (i - Len(s)) = i
      BY <1>1, <2>2
    <3>2. (s \o t)[i] = t[i - Len(s)]
      BY <1>1, <3>1
    <3> QED  BY <3>1, <3>2 DEF ScriptOfPart
  <2> QED  BY <2>1, <2>2
<1> QED  BY <1>1, <1>2 DEF ScriptOfPart

LEMMA ScriptsOfFew ==
  ASSUME NEW c
  PROVE  /\ ScriptOfPart(c, << >>)
         /\ \A x : StepOf(c, x) => ScriptOfPart(c, <<x>>)
         /\ \A x, y : StepOf(c, x) /\ StepOf(c, y) => ScriptOfPart(c, <<x, y>>)
         /\ \A x, y, z : StepOf(c, x) /\ StepOf(c, y) /\ StepOf(c, z) => ScriptOfPart(c, <<x, y, z>>)
         /\ \A x, y, z, u : StepOf(c, x) /\ StepOf(c, y) /\ StepOf(c, z) /\ StepOf(c, u)
              => ScriptOfPart(c, <<x, y, z, u>>)
         /\ \A x, y, z, u, w :
              StepOf(c, x) /\ StepOf(c, y) /\ StepOf(c, z) /\ StepOf(c, u) /\ StepOf(c, w)
              => ScriptOfPart(c, <<x, y, z, u, w>>)
         /\ \A x, y, z, u, w, l :
              /\ StepOf(c, x) /\ StepOf(c, y) /\ StepOf(c, z)
              /\ StepOf(c, u) /\ StepOf(c, w) /\ StepOf(c, l)
              => ScriptOfPart(c, <<x, y, z, u, w, l>>)
<1> HIDE DEF StepOf
<1> QED
  BY Literals DEF ScriptOfPart

\* A download and its use.
LEMMA FetchedLines ==
  ASSUME NEW p, NEW c, <<c, "fetched">> \in ItemsOf(p), <<c, "fetched">> \in Item
  PROVE  ScriptOfPart(p, Fetched(c))
<1>1. StepOf(p, Fetch(c, "fetched", "whole"))
  BY BuildAssumption DEF StepOf, UsedWhole, Downloads, Fetch, Content, Build
<1>2. StepOf(p, Whole(c, "fetched"))
  BY DEF StepOf, Whole
<1> QED
  BY <1>1, <1>2, ScriptsOfFew DEF Fetched

\* What the document's values are.
LEMMA DocumentShape ==
  ASSUME NEW d \in Document
  PROVE  /\ d.kernel \in Version \cup {"none"}
         /\ d.driver[1] \in {"none", "package", "runfile", "git"}
         /\ d.driver[1] \in {"package", "runfile"} => d.driver[2] \in Version
         /\ d.driver[1] = "git" => d.driver[2] \in Commit
         /\ d.runtime[1] \in {"none", "", "containerd", "docker", "crio"}
         /\ d.runtime[1] # "none" =>
              /\ d.runtime[2] \in {"package", "git", "latest"}
              /\ d.runtime[2] = "package" => d.runtime[3] \in Version
              /\ d.runtime[2] = "git" => d.runtime[3] \in Commit
         /\ d.toolkit[1] \in {"none", "package", "git", "latest"}
         /\ d.toolkit[1] = "package" => d.toolkit[2] \in Version
         /\ d.toolkit[1] = "git" => d.toolkit[2] \in Commit
         /\ d.kubernetes[1] \in {"none", "", "kubeadm", "kind", "microk8s"}
         /\ d.kubernetes[1] # "none" =>
              /\ d.kubernetes[2] \in {"release", "git", "latest"}
              /\ d.kubernetes[2] = "release" => d.kubernetes[3] \in Version
              /\ d.kubernetes[2] = "git" => d.kubernetes[3] \in Commit
              /\ d.kubernetes[1] = "microk8s" => d.kubernetes[2] = "release"
         /\ RuntimeOf(d) \in Runtime
<1>1. /\ d.kernel \in Version \cup {"none"}
      /\ d.driver \in {<<"none", "none">>} \cup ({"package", "runfile"} \X Version)
                \cup ({"git"} \X Commit)
      /\ d.toolkit \in {<<"none", "none">>} \cup Sources("package")
  BY DEF Document
<1>2. d.runtime \in {<<"none", "none", "none">>}
                \cup Named({"", "containerd", "docker", "crio"}, Sources("package"))
  BY DEF Document
<1>3. d.kubernetes \in {<<"none", "none", "none">>}
                \cup Named({"", "kubeadm", "kind"}, Sources("release"))
                \cup Named({"microk8s"}, {"release"} \X Version)
  BY DEF Document
<1>n. ASSUME NEW names, NEW sources, NEW x \in Named(names, sources)
      PROVE  \E n \in names, s \in sources : x[1] = n /\ x[2] = s[1] /\ x[3] = s[2]
  BY DEF Named
<1>4. d.runtime = <<"none", "none", "none">> \/
        \E n \in {"", "containerd", "docker", "crio"}, s \in Sources("package") :
           d.runtime[1] = n /\ d.runtime[2] = s[1] /\ d.runtime[3] = s[2]
  <2> DEFINE names == {"", "containerd", "docker", "crio"}  sources == Sources("package")
  <2>1. d.runtime = <<"none", "none", "none">> \/ d.runtime \in Named(names, sources)
    BY <1>2
  <2> HIDE DEF names, sources
  <2>2. d.runtime = <<"none", "none", "none">> \/ \E n \in names, s \in sources :
          d.runtime[1] = n /\ d.runtime[2] = s[1] /\ d.runtime[3] = s[2]
    BY <1>n, <2>1
  <2> QED  BY <2>2 DEF names, sources
<1>5. \/ d.kubernetes = <<"none", "none", "none">>
      \/ \E n \in {"", "kubeadm", "kind"}, s \in Sources("release") :
           d.kubernetes[1] = n /\ d.kubernetes[2] = s[1] /\ d.kubernetes[3] = s[2]
      \/ \E n \in {"microk8s"}, s \in {"release"} \X Version :
           d.kubernetes[1] = n /\ d.kubernetes[2] = s[1] /\ d.kubernetes[3] = s[2]
  <2> DEFINE names == {"", "kubeadm", "kind"}  sources == Sources("release")
             only == {"microk8s"}  releases == {"release"} \X Version
  <2>1. \/ d.kubernetes = <<"none", "none", "none">>
        \/ d.kubernetes \in Named(names, sources) \/ d.kubernetes \in Named(only, releases)
    BY <1>3
  <2> HIDE DEF names, sources, only, releases
  <2>2. \/ d.kubernetes = <<"none", "none", "none">>
        \/ \E n \in names, s \in sources :
             d.kubernetes[1] = n /\ d.kubernetes[2] = s[1] /\ d.kubernetes[3] = s[2]
        \/ \E n \in only, s \in releases :
             d.kubernetes[1] = n /\ d.kubernetes[2] = s[1] /\ d.kubernetes[3] = s[2]
    BY <1>n, <2>1
  <2> QED  BY <2>2 DEF names, sources, only, releases
<1>6. ASSUME NEW first \in {"package", "release"}, NEW s \in Sources(first)
      PROVE  /\ s[1] \in {first, "git", "latest"}
             /\ s[1] = first => s[2] \in Version
             /\ s[1] = "git" => s[2] \in Commit
  BY <1>6 DEF Sources
<1>s. /\ \A s \in Sources("package") :
           /\ s[1] \in {"package", "git", "latest"} /\ (s[1] = "package" => s[2] \in Version)
           /\ s[1] = "git" => s[2] \in Commit
      /\ \A s \in Sources("release") :
           /\ s[1] \in {"release", "git", "latest"} /\ (s[1] = "release" => s[2] \in Version)
           /\ s[1] = "git" => s[2] \in Commit
  BY <1>6
<1>7. /\ d.runtime[1] \in {"none", "", "containerd", "docker", "crio"}
      /\ d.runtime[1] # "none" =>
           /\ d.runtime[2] \in {"package", "git", "latest"}
           /\ d.runtime[2] = "package" => d.runtime[3] \in Version
           /\ d.runtime[2] = "git" => d.runtime[3] \in Commit
  <2>1. CASE d.runtime = <<"none", "none", "none">>
    BY <2>1
  <2>2. CASE d.runtime # <<"none", "none", "none">>
    BY <1>4, <1>s, <2>2
  <2> QED  BY <2>1, <2>2
<1>8. /\ d.kubernetes[1] \in {"none", "", "kubeadm", "kind", "microk8s"}
      /\ d.kubernetes[1] # "none" =>
           /\ d.kubernetes[2] \in {"release", "git", "latest"}
           /\ d.kubernetes[2] = "release" => d.kubernetes[3] \in Version
           /\ d.kubernetes[2] = "git" => d.kubernetes[3] \in Commit
           /\ d.kubernetes[1] = "microk8s" => d.kubernetes[2] = "release"
  <2>1. CASE d.kubernetes = <<"none", "none", "none">>
    BY <2>1
  <2>2. CASE d.kubernetes # <<"none", "none", "none">>
    BY <1>5, <1>s, <2>2
  <2> QED  BY <2>1, <2>2
<1>9. /\ d.driver[1] \in {"none", "package", "runfile", "git"}
      /\ d.driver[1] \in {"package", "runfile"} => d.driver[2] \in Version
      /\ d.driver[1] = "git" => d.driver[2] \in Commit
  BY <1>1
<1>10. /\ d.toolkit[1] \in {"none", "package", "git", "latest"}
       /\ d.toolkit[1] = "package" => d.toolkit[2] \in Version
       /\ d.toolkit[1] = "git" => d.toolkit[2] \in Commit
  BY <1>1, <1>6
<1>11. RuntimeOf(d) \in Runtime
  BY <1>7 DEF RuntimeOf, Runtime
<1> QED
  BY <1>1, <1>7, <1>8, <1>9, <1>10, <1>11

\* The scripts that the templates make are made of such lines.
LEMMA KernelLinesAre ==
  ASSUME doc.kernel \in Version
  PROVE  ScriptOfPart("kernel", KernelScript(doc.kernel))
<1> DEFINE v == doc.kernel
<1>1. /\ StepOf("kernel", Put("kernel", "pending", "none"))
      /\ StepOf("kernel", Put("kernel", "pending", v))
      /\ StepOf("kernel", Put("kernel", "image", v)) /\ StepOf("kernel", Reboot)
  BY BuildAssumption DEF StepOf, UsedWhole, Downloads, ItemsOf, Item, Put, PutOneOf, Reboot, Content, Build, Removable
<1> QED
  BY <1>1, ScriptsOfFew DEF KernelScript

LEMMA DriverLinesAre ==
  ASSUME doc \in Document, Asked(doc.driver)
  PROVE  ScriptOfPart("driver", DriverScript(doc.driver[1], doc.driver[2]))
<1> DEFINE v == doc.driver[2]
<1>1. v \in Build /\ Newest \in Build /\ "none" \notin Build /\ "partial" \notin Build
  BY DocumentShape, BuildAssumption DEF Build, Asked
<1>2. ASSUME NEW ref \in Build \cup {"package"}
      PROVE  /\ StepOf("driver", Put("driver", "provenance", ref))
             /\ StepOf("driver", Put("driver", "userland", v))
             /\ StepOf("driver", Put("driver", "module", v))
             /\ StepOf("driver", PutOneOf({<<"driver", "userland">>}, {v, Newest}))
  BY <1>1, <1>2 DEF StepOf, UsedWhole, Downloads, ItemsOf, Item, Put, PutOneOf, Content, Removable
<1>3. /\ StepOf("driver", Copy(<<"driver", "userland">>, <<"driver", "module">>))
      /\ StepOf("driver", Start("driver")) /\ StepOf("driver", Need("driver"))
      /\ StepOf("driver", Pinned(v))
  BY DEF StepOf, ItemsOf, Item, Copy, Start, Need, Pinned, DaemonsOf
<1>4. /\ ScriptOfPart("driver", DriverPackages(v)) /\ ScriptOfPart("driver", DriverModule(v))
      /\ ScriptOfPart("driver", DriverRunfile(v)) /\ ScriptOfPart("driver", DriverGit(v))
  BY <1>1, <1>2, <1>3, ScriptsOfFew DEF DriverPackages, DriverModule, DriverRunfile, DriverGit
<1>5. ScriptOfPart("driver", DriverPackages(v) \o DriverModule(v)) /\ ScriptOfPart("driver", << >>)
  BY <1>4, ScriptsJoined, ScriptsOfFew
<1> QED
  BY <1>4, <1>5, DocumentShape, GPUAssumption DEF DriverScript, Asked

LEMMA ToolkitLinesAre ==
  ASSUME doc \in Document, Asked(doc.toolkit), branch \in Commit
  PROVE  ScriptOfPart("toolkit", ToolkitScript(doc.toolkit[1], doc.toolkit[2], OwnRuntime))
<1> DEFINE v == doc.toolkit[2]  r == OwnRuntime
<1>1. doc.toolkit[1] \in {"package", "git"} => v \in Build
  BY DocumentShape DEF Build
<1>2. "none" \notin Build /\ "partial" \notin Build /\ branch \in Build
  BY BuildAssumption DEF Build
<1>3. ASSUME NEW ref \in Build \cup {"package"}
      PROVE  /\ StepOf("toolkit", Put("toolkit", "package", ref))
             /\ StepOf("toolkit", Put("toolkit", "provenance", ref))
             /\ StepOf("toolkit", PutOneOf({<<"toolkit", "package">>, <<"toolkit", "local">>}, {ref}))
  BY <1>2, <1>3 DEF StepOf, UsedWhole, Downloads, ItemsOf, Item, Put, PutOneOf, Content, Removable
<1>4. /\ StepOf("toolkit", Clone({<<"toolkit", "local">>}))
      /\ StepOf("toolkit", Add(r, {"nvidia"})) /\ StepOf("toolkit", Restart(r))
      /\ StepOf("toolkit", Need("toolkit"))
  BY DEF StepOf, UsedWhole, Downloads, ItemsOf, Item, Clone, Add, Restart, Need, FilesOf, DaemonsOf, Setting
<1>f. ScriptOfPart("toolkit", Fetched("toolkit"))
  BY FetchedLines DEF ItemsOf, Item
<1>5. ScriptOfPart("toolkit", ConfigureRuntime(r))
  BY <1>4, ScriptsOfFew DEF ConfigureRuntime
<1>6. v \in Build => ScriptOfPart("toolkit", ToolkitPackage(v, r))
  BY <1>3, <1>5, <1>f, ScriptsOfFew, ScriptsJoined DEF ToolkitPackage
<1>7. v \in Build => ScriptOfPart("toolkit", ToolkitGit(v, r))
  BY <1>3, <1>4, <1>5, <1>f, ScriptsOfFew, ScriptsJoined DEF ToolkitGit
<1>8. ScriptOfPart("toolkit", ToolkitLatest(branch, r))
  BY <1>2, <1>3, <1>4, <1>5, <1>f, ScriptsOfFew, ScriptsJoined DEF ToolkitLatest
<1> QED
  BY <1>1, <1>6, <1>7, <1>8, DocumentShape, ScriptsOfFew DEF ToolkitScript, Asked

LEMMA RuntimeLinesAre ==
  ASSUME doc \in Document, Asked(doc.runtime), branch \in Commit,
         ~TemplateRefuses(<<"install", "runtime">>)
  PROVE  ScriptOfPart("runtime", ScriptOf(<<"install", "runtime">>))
<1> DEFINE v == doc.runtime[3]  r == OwnRuntime
<1>1. /\ doc.runtime[2] \in {"package", "git", "latest"} /\ r \in Runtime
      /\ doc.runtime[2] = "package" => v \in Version
      /\ doc.runtime[2] = "git" => v \in Commit
      /\ doc.runtime[2] = "latest" => r = "containerd"
  BY DocumentShape DEF OwnRuntime, Asked, TemplateRefuses
<1>2. "none" \notin Build /\ "partial" \notin Build /\ branch \in Build
      /\ Version \subseteq Build /\ Commit \subseteq Build
      /\ Newest \in Version
  BY BuildAssumption DEF Build
<1>3. /\ StepOf("runtime", Overwrite(r, {"cri"})) /\ StepOf("runtime", Add(r, {"cri"}))
      /\ StepOf("runtime", Restart(r)) /\ StepOf("runtime", Start(r))
      /\ StepOf("runtime", Start("cri-docker")) /\ StepOf("runtime", Need(r))
  BY DEF StepOf, UsedWhole, Downloads, Overwrite, Add, Restart, Start, Need, FilesOf, DaemonsOf, Setting
<1>4. /\ StepOf("runtime", Fetch("cri-docker", "binary", "binary"))
      /\ StepOf("runtime", Keep("cri-docker", "unit", "unit"))
  BY BuildAssumption DEF StepOf, UsedWhole, Downloads, Fetch, Keep, ItemsOf, Item, Content
<1>f. ScriptOfPart("runtime", Fetched(r))
  BY <1>1, FetchedLines DEF ItemsOf, Item, Runtime
<1>5. ASSUME NEW c \in Commit
      PROVE  /\ StepOf("runtime", Put(r, "local", c)) /\ StepOf("runtime", Put(r, "provenance", c))
             /\ StepOf("runtime", Clone({<<r, "local">>}))
  BY <1>1, <1>2 DEF StepOf, UsedWhole, Downloads, Put, PutOneOf, Clone, ItemsOf, Item, Content, Runtime
<1>6. ASSUME v \in Version
      PROVE  StepOf("runtime", Package(r, {v})) /\ StepOf("runtime", Package(r, OrNewest(v)))
  BY <1>2, <1>6 DEF StepOf, Package, OrNewest
<1>7. CASE r = "containerd"
  <2>1. doc.runtime[2] = "package" => ScriptOfPart("runtime", ContainerdPackage(v))
    BY <1>1, <1>3, <1>6, <1>7, <1>f, ScriptsOfFew, ScriptsJoined DEF ContainerdPackage
  <2>2. doc.runtime[2] = "git" => ScriptOfPart("runtime", ContainerdGit(v))
    BY <1>1, <1>3, <1>5, <1>7, <1>f, ScriptsOfFew, ScriptsJoined DEF ContainerdGit
  <2>3. doc.runtime[2] = "latest" => ScriptOfPart("runtime", ContainerdLatest(branch))
    BY <1>1, <1>3, <1>5, <1>7, <1>f, ScriptsOfFew, ScriptsJoined DEF ContainerdLatest
  <2>4. ScriptOf(<<"install", "runtime">>) = ContainerdScript(doc.runtime[2], v)
    BY <1>7 DEF ScriptOf, OwnRuntime
  <2> QED
    BY <1>1, <2>1, <2>2, <2>3, <2>4, ScriptsOfFew DEF ContainerdScript
<1>8. CASE r = "docker"
  <2>1. doc.runtime[2] = "package" => ScriptOfPart("runtime", DockerPackage(v))
    BY <1>1, <1>3, <1>6, <1>8, <1>f, ScriptsOfFew, ScriptsJoined DEF DockerPackage
  <2>2. doc.runtime[2] = "git" => ScriptOfPart("runtime", DockerGit(v)) /\ ScriptOfPart("runtime", CriDockerdGit(v))
    BY <1>1, <1>3, <1>4, <1>5, <1>8, <1>f, ScriptsOfFew, ScriptsJoined DEF DockerGit, CriDockerdGit
  <2>3. ScriptOfPart("runtime", CriDockerd)
    BY <1>3, <1>4, <1>8, ScriptsOfFew DEF CriDockerd
  <2>4. ScriptOf(<<"install", "runtime">>) = DockerScript(doc.runtime[2], v)
    BY <1>8 DEF ScriptOf, OwnRuntime
  <2>5. doc.runtime[2] \in {"package", "git"}
    BY <1>1, <1>8
  <2> QED
    BY <2>1, <2>2, <2>3, <2>4, <2>5, ScriptsOfFew, ScriptsJoined DEF DockerScript
<1>9. CASE r = "crio"
  <2>1. doc.runtime[2] = "package" => ScriptOfPart("runtime", CrioPackage(v))
    BY <1>1, <1>3, <1>6, <1>9, <1>f, ScriptsOfFew, ScriptsJoined DEF CrioPackage
  <2>2. doc.runtime[2] = "git" => ScriptOfPart("runtime", CrioGit(v))
    BY <1>1, <1>3, <1>5, <1>9, <1>f, ScriptsOfFew, ScriptsJoined DEF CrioGit
  <2>4. ScriptOf(<<"install", "runtime">>) = CrioScript(doc.runtime[2], v)
    BY <1>9 DEF ScriptOf, OwnRuntime
  <2>5. doc.runtime[2] \in {"package", "git"}
    BY <1>1, <1>9
  <2> QED
    BY <2>1, <2>2, <2>4, <2>5, ScriptsOfFew DEF CrioScript
<1> QED  BY <1>1, <1>7, <1>8, <1>9 DEF Runtime

LEMMA KubernetesLinesAre ==
  ASSUME doc \in Document, Asked(doc.kubernetes), branch \in Commit
  PROVE  ScriptOfPart("kubernetes", ScriptOf(<<"install", "kubernetes">>))
<1> DEFINE v == doc.kubernetes[3]  r == OwnRuntime  k == "kubernetes"
<1>1. /\ doc.kubernetes[1] \in {"", "kubeadm", "kind", "microk8s"}
      /\ doc.kubernetes[2] \in {"release", "git", "latest"}
      /\ doc.kubernetes[2] \in {"release", "git"} => v \in Build
      /\ doc.kubernetes[1] = "microk8s" => doc.kubernetes[2] = "release"
  BY DocumentShape DEF Asked, Build
<1>2. "none" \notin Build /\ "partial" \notin Build /\ branch \in Build
  BY BuildAssumption DEF Build
<1>3. /\ StepOf(k, Fetch("kube", "unit", "unit")) /\ StepOf(k, Fetch("kube", "network", "operator"))
      /\ StepOf(k, Put("kube", "network", "calico")) /\ StepOf(k, Clone({<<"kube", "tools">>}))
      /\ StepOf(k, Put("jq", "package", "jq"))
      /\ StepOf(k, Fetch("kind", "kubectl", "whole")) /\ StepOf(k, Keep("kind", "kubectl", "whole"))
  BY BuildAssumption
  DEF StepOf, UsedWhole, Downloads, ItemsOf, Item, Put, PutOneOf, Keep, Fetch, Clone, Content
<1>f. ScriptOfPart(k, Fetched("kube"))
  BY FetchedLines DEF ItemsOf, Item
<1>4. ASSUME NEW c \in Build
      PROVE  /\ StepOf(k, Fetch("kube", "tools", c)) /\ StepOf(k, Put("kube", "tools", c))
             /\ StepOf(k, Put("kube", "provenance", c))
             /\ StepOf(k, Put("kind", "cluster", c)) /\ StepOf(k, Keep("microk8s", "snap", c))
  BY <1>2 DEF StepOf, UsedWhole, Downloads, ItemsOf, Item, Put, PutOneOf, Keep, Fetch, Content
<1>5. /\ StepOf(k, Put("kind", "cluster", "none")) /\ StepOf(k, Put("kind", "cluster", "partial"))
      /\ StepOf(k, Clone({<<"kind", "cluster">>})) /\ StepOf(k, Stop("kind"))
  BY DEF StepOf, UsedWhole, Downloads, ItemsOf, Item, Put, PutOneOf, Clone, Stop, Content, Removable
<1>6. /\ doc.kubernetes[2] = "release" => \A c, f : StepOf(k, KubeadmInit(c, f))
      /\ StepOf(k, KubeadmInitSearches(r))
      /\ \A c : StepOf(k, Need(c))
      /\ \A c, p : StepOf(k, Whole(c, p))
      /\ StepOf(k, Restart("cri-docker")) /\ StepOf(k, Restart("docker"))
      /\ StepOf(k, Start("kind")) /\ StepOf(k, Start("microk8s"))
      /\ StepOf(k, Add("docker", {"nvidia"}))
  BY DEF StepOf, KubeadmInit, KubeadmInitSearches, Need, Whole, Restart, Start, Add, DaemonsOf,
         FilesOf, Setting
<1> HIDE DEF k
<1>7. ScriptOfPart(k, KubeadmNetwork)
  BY <1>3, <1>6, ScriptsOfFew DEF KubeadmNetwork
<1>8. doc.kubernetes[2] = "release" => \A c : ScriptOfPart(k, KubeadmCluster(c, r))
  BY <1>6, ScriptsOfFew, ScriptsJoined DEF KubeadmCluster
<1>9. ASSUME NEW c \in Build
      PROVE  /\ doc.kubernetes[2] = "release" => ScriptOfPart(k, KubeadmRelease(c, r))
             /\ ScriptOfPart(k, KubeadmGitTools(c) \o KubeadmGitCluster(c, r))
             /\ ScriptOfPart(k, KubeadmLatestTools \o KubeadmLatestCluster(c, r))
  <2>1. ScriptOfPart(k, KubeadmTools(c)) /\ ScriptOfPart(k, KubeadmGitTools(c))
        /\ ScriptOfPart(k, KubeadmLatestTools)
    BY <1>3, <1>4, <1>f, ScriptsOfFew, ScriptsJoined
    DEF KubeadmTools, KubeadmGitTools, KubeadmLatestTools, KubeadmBuilder
  <2>2. ScriptOfPart(k, << KubeadmInitSearches(r), Need("kube") >>)
        /\ ScriptOfPart(k, << Put("kube", "provenance", c) >>)
    BY <1>4, <1>6, ScriptsOfFew
  <2>3. ScriptOfPart(k, KubeadmGitCluster(c, r)) /\ ScriptOfPart(k, KubeadmLatestCluster(c, r))
    BY <1>7, <2>2, ScriptsJoined DEF KubeadmGitCluster, KubeadmLatestCluster
  <2> QED
    BY <1>7, <1>8, <2>1, <2>3, ScriptsJoined DEF KubeadmRelease
<1>10. ScriptOfPart(k, DeleteCluster)
  BY <1>5, ScriptsOfFew DEF DeleteCluster
<1>b. ScriptOfPart(k, KindBuilder) /\ ScriptOfPart(k, << Fetch("kind", "kubectl", "whole") >>)
  BY <1>3, <1>10, ScriptsOfFew, ScriptsJoined DEF KindBuilder
<1>11. ASSUME NEW make, StepOf(k, make) PROVE ScriptOfPart(k, KindCluster(make))
  <2>1. ScriptOfPart(k, << Need("docker"), Put("kind", "cluster", "partial"), make,
                           Start("kind"), Whole("kind", "kubectl"), Need("kind") >>)
    BY <1>5, <1>6, <1>11, ScriptsOfFew
  <2>2. ScriptOfPart(k, IF Binary("toolkit") # "none" THEN << Add("docker", {"nvidia"}), Restart("docker") >>
                        ELSE << >>)
    BY <1>6, ScriptsOfFew
  <2> QED  BY <2>1, <2>2, ScriptsJoined DEF KindCluster
<1>12. ASSUME NEW c \in Build
       PROVE  ScriptOfPart(k, KindRelease(c)) /\ ScriptOfPart(k, KindGit(c)) /\ ScriptOfPart(k, KindLatest(c))
  <2>1. ScriptOfPart(k, KindCluster(Put("kind", "cluster", c)))
        /\ ScriptOfPart(k, KindCluster(Clone({<<"kind", "cluster">>})))
    BY <1>4, <1>5, <1>11
  <2>2. ScriptOfPart(k, << Put("kube", "provenance", c) >>)
    BY <1>4, ScriptsOfFew
  <2>3. ScriptOfPart(k, IF disk[<<"kind", "cluster">>] # "none" THEN DeleteCluster ELSE << >>)
    BY <1>10, ScriptsOfFew
  <2> QED
    BY <1>b, <2>1, <2>2, <2>3, ScriptsJoined DEF KindRelease, KindGit, KindLatest
<1>13. ASSUME NEW c \in Build PROVE ScriptOfPart(k, Microk8s(c))
  BY <1>4, <1>6, ScriptsOfFew DEF Microk8s
<1>14. ScriptOf(<<"install", "kubernetes">>) =
         KubernetesScript(doc.kubernetes[1], doc.kubernetes[2], v, r)
  BY DEF ScriptOf, OwnRuntime
<1> DEFINE i == doc.kubernetes[1]  source == doc.kubernetes[2]  all == KubernetesScript(i, source, v, r)
<1>15. ASSUME i \in {"", "kubeadm"} PROVE ScriptOfPart(k, all)
  <2>1. /\ source = "release" => all \in {<< >>, KubeadmRelease(v, r)}
        /\ source = "git" => all \in {<< >>, KubeadmGitTools(v) \o KubeadmGitCluster(v, r)}
        /\ source = "latest" => all \in {<< >>, KubeadmLatestTools \o KubeadmLatestCluster(branch, r)}
    BY <1>15 DEF KubernetesScript
  <2> HIDE DEF all, i, source
  <2> QED
    BY <1>1, <1>2, <1>9, <2>1, ScriptsOfFew DEF i, source
<1>16. ASSUME i = "kind" PROVE ScriptOfPart(k, all)
  <2>1. /\ source = "release" => all \in {<< >>, KindRelease(v)}
        /\ source = "git" => all \in {<< >>, KindGit(v)}
        /\ source = "latest" => all \in {<< >>, KindLatest(branch)}
    BY <1>16 DEF KubernetesScript
  <2> HIDE DEF all, i, source
  <2> QED
    BY <1>1, <1>2, <1>12, <2>1, ScriptsOfFew DEF i, source
<1>17. ASSUME i = "microk8s" PROVE ScriptOfPart(k, all)
  <2>1. all \in {<< >>, Microk8s(v)}
    BY <1>17 DEF KubernetesScript
  <2> HIDE DEF all
  <2> QED
    BY <1>1, <1>13, <1>17, <2>1, ScriptsOfFew
<1> QED
  BY <1>1, <1>14, <1>15, <1>16, <1>17 DEF k

-----------------------------------------------------------------------------
(* Types                                                                   *)

NodeTypes ==
  /\ disk \in [Item -> Content] /\ config \in [Runtime -> SUBSET Setting]
  /\ proc \in [Daemon -> [build : Content, config : SUBSET Setting]]
  /\ branch \in Commit
  /\ disk[<<"kube", "tools">>] \in Build \cup {"none", "partial"}

Types ==
  /\ doc \in Document /\ phase \in {"idle", "next", "script", "reboot"}
  /\ power \in {"up", "leaving", "down"} /\ result \in {"none", "success", "failure"}
  /\ faults \in 0..Faults /\ edits \in 0..Edits /\ (edits = 0 => doc \in Documents)
  /\ disturbed \in BOOLEAN /\ fresh \in BOOLEAN
  /\ phase = "idle" => todo = << >>
  /\ phase # "script" => script = << >>

\* The script consists of lines of the part that is at the head of the list.
ScriptInv ==
  /\ Sequence(script)
  /\ phase = "script" /\ Len(script) # 0 => \E c \in Part : Head(todo) = Install(c)
  /\ \A c \in Part : At(c) => \A i \in 1..Len(script) : StepOf(c, script[i])

\* While the node is down no script runs, and a run that starts one is told.
PowerInv ==
  power = "down" => phase # "script" /\ (phase = "next" => disturbed)

BaseInv == Types /\ TodoInv /\ ScriptInv /\ NodeTypes /\ PowerInv

\* What becomes of the script: its first line is done, or the second half of
\* a download is left.
Moves ==
  /\ Sequence(script') /\ Len(script') = Len(script) - 1
  /\ \A i \in 1..Len(script') : script'[i] = script[i + 1]
Refetches ==
  /\ Step.do = "fetch" /\ Sequence(script') /\ Len(script') = Len(script)
  /\ script'[1] = PutOneOf(Step.at, Step.val)
  /\ \A i \in 2..Len(script) : script'[i] = script[i]

\* d has been started, and is what it would be if it started now.
StartedNow(d) == proc'[d] = Started(d)' /\ proc'[d].build # "none"

\* What a line of c does to the node.
Change(c) ==
  /\ \A i \in Item : disk'[i] # disk[i] => i \in ItemsOf(c)
  /\ \A r \in Runtime : config'[r] # config[r] => r \in FilesOf(c)
  /\ \A d \in Daemon : proc'[d] # proc[d] => d \in DaemonsOf(c)
  /\ \A i \in Item \ Removable : disk[i] # "none" => disk'[i] # "none"
  /\ disk[<<"kube", "admin">>] # "none" => disk'[<<"kube", "admin">>] = disk[<<"kube", "admin">>]
  /\ disk[<<"cri-docker", "binary">>] = "binary" => disk'[<<"cri-docker", "binary">>] = "binary"
  /\ \A r \in Runtime : "cri" \in config[r] => "cri" \in config'[r]
  /\ c # "runtime" => \A r \in Runtime : config[r] \subseteq config'[r]
  /\ \A d \in Daemon : proc'[d] # proc[d] =>
       StartedNow(d) \/ (d \in {"cri-docker", "kind"} /\ proc'[d] = Off)

\* The line a running script is at.
LEMMA RunningLine ==
  ASSUME TodoInv, ScriptInv, RunningScript
  PROVE  /\ Sequence(script) /\ Len(script) \in Nat \ {0} /\ Step = script[1]
         /\ \E c \in Part : At(c) /\ StepOf(c, Step)
<1>1. Sequence(script) /\ Len(script) \in Nat \ {0} /\ Step = script[1] /\ 1 \in 1..Len(script)
  BY SequenceFacts DEF ScriptInv, RunningScript, Step
<1>2. PICK c \in Part : At(c)
  BY <1>1 DEF ScriptInv, RunningScript, At
<1> QED  BY <1>1, <1>2 DEF ScriptInv

LEMMA PassMoves ==
  ASSUME Sequence(script), Len(script) # 0, Pass
  PROVE  Moves
  BY SequenceFacts DEF Pass, Moves

LEMMA FetchRefetches ==
  ASSUME Sequence(script), Len(script) # 0, Step.do = "fetch",
         script' = <<PutOneOf(Step.at, Step.val)>> \o Tail(script)
  PROVE  Refetches
<1> DEFINE x == <<PutOneOf(Step.at, Step.val)>>
<1>1. Sequence(x) /\ Len(x) = 1 /\ x[1] = PutOneOf(Step.at, Step.val)
  BY Literals
<1>2. /\ Sequence(Tail(script)) /\ Len(Tail(script)) = Len(script) - 1 /\ Len(script) \in Nat
      /\ \A i \in 1..(Len(script) - 1) : Tail(script)[i] = script[i + 1]
  BY SequenceFacts
<1> HIDE DEF x
<1>3. /\ Sequence(script') /\ Len(script') = Len(script) /\ script'[1] = x[1]
      /\ \A i \in 1..Len(Tail(script)) : script'[1 + i] = Tail(script)[i]
  BY <1>1, <1>2, Joined DEF x
<1>4. ASSUME NEW i \in 2..Len(script) PROVE script'[i] = script[i]
  <2>1. i - 1 \in 1..(Len(script) - 1) /\ 1 + (i - 1) = i /\ (i - 1) + 1 = i
    BY <1>2
  <2>2. script'[1 + (i - 1)] = Tail(script)[i - 1]
    BY <1>2, <1>3, <2>1
  <2> QED  BY <1>2, <2>1, <2>2
<1> QED
  BY <1>1, <1>3, <1>4 DEF Refetches

LEMMA EffectMoves ==
  ASSUME TodoInv, ScriptInv, RunningScript, Effect
  PROVE  Moves \/ Refetches
<1>1. Sequence(script) /\ Len(script) # 0
  BY RunningLine
<1>2. Pass \/ (Step.do = "fetch" /\ script' = <<PutOneOf(Step.at, Step.val)>> \o Tail(script))
  BY DEF Effect, PutStep, FetchStep, CloneStep, CopyStep, PackageStep, ConfigStep, DaemonStep,
         StopStep, CheckStep, InitStep
<1> QED  BY <1>1, <1>2, PassMoves, FetchRefetches

LEMMA ItemsOfAreItems ==
  ASSUME NEW c \in Part
  PROVE  ItemsOf(c) \subseteq Item
  BY DEF ItemsOf, Part

\* Effects on the disk.
LEMMA DiskChange ==
  ASSUME NodeTypes, NEW c \in Part, NEW i \in ItemsOf(c), i # <<"kube", "admin">>,
         NEW v \in Content, disk' = [disk EXCEPT ![i] = v], UNCHANGED <<config, proc, branch>>,
         v = "none" => i \in Removable \/ disk[i] = "none",
         i = <<"kube", "tools">> => v \in Build \cup {"none", "partial"},
         i = <<"cri-docker", "binary">> /\ disk[i] = "binary" => v = "binary"
  PROVE  Change(c) /\ NodeTypes'
<1>1. i \in Item
  BY ItemsOfAreItems
<1>2. disk' \in [Item -> Content] /\ disk'[i] = v /\ \A j \in Item : j # i => disk'[j] = disk[j]
  BY <1>1 DEF NodeTypes
<1>3. <<"kube", "admin">> \in Item /\ <<"kube", "tools">> \in Item
      /\ <<"cri-docker", "binary">> \in Item
  BY DEF Item
<1>4. NodeTypes'
  BY <1>2, <1>3 DEF NodeTypes
<1> QED
  BY <1>1, <1>2, <1>3, <1>4 DEF Change, Removable

LEMMA PutChange ==
  ASSUME NodeTypes, NEW c \in Part, StepOf(c, Step), PutStep, UNCHANGED branch
  PROVE  Change(c) /\ NodeTypes'
<1>1. PICK i \in Step.at, v \in Step.val :
        disk' = [disk EXCEPT ![i] = IF Step.do = "keep" /\ @ # "none" THEN @ ELSE v]
  BY DEF PutStep
<1>2. /\ i \in ItemsOf(c) /\ i # <<"kube", "admin">> /\ v \in Content
      /\ v = "none" => i \in Removable
      /\ i = <<"kube", "tools">> => v \in Build
      /\ i = <<"cri-docker", "binary">> => v = "binary"
  BY DEF StepOf, PutStep
<1> DEFINE w == IF Step.do = "keep" /\ disk[i] # "none" THEN disk[i] ELSE v
<1>3. i \in Item /\ disk[i] \in Content
  BY <1>2, ItemsOfAreItems DEF NodeTypes
<1>4. /\ w \in Content /\ (w = "none" => i \in Removable)
      /\ i = <<"kube", "tools">> => w \in Build \cup {"none", "partial"}
      /\ i = <<"cri-docker", "binary">> /\ disk[i] = "binary" => w = "binary"
  BY <1>2, <1>3 DEF NodeTypes
<1>5. disk' = [disk EXCEPT ![i] = w]
  BY <1>1
<1> HIDE DEF w
<1> QED
  BY <1>2, <1>4, <1>5, DiskChange DEF PutStep

LEMMA FetchChange ==
  ASSUME NodeTypes, NEW c \in Part, StepOf(c, Step), FetchStep, UNCHANGED branch
  PROVE  Change(c) /\ NodeTypes'
<1>1. PICK i \in Step.at :
        \/ disk[i] = "none" /\ disk' = [disk EXCEPT ![i] = "partial"]
        \/ UNCHANGED disk
  BY DEF FetchStep
<1>2. i \in ItemsOf(c) /\ i # <<"kube", "admin">> /\ "partial" \in Content /\ "partial" # "none"
  BY DEF StepOf, FetchStep, Content
<1>3. CASE disk[i] = "none" /\ disk' = [disk EXCEPT ![i] = "partial"]
  BY <1>2, <1>3, DiskChange DEF FetchStep
<1>4. CASE UNCHANGED disk
  BY <1>4 DEF FetchStep, Change, NodeTypes
<1> QED  BY <1>1, <1>3, <1>4

LEMMA CloneChange ==
  ASSUME NodeTypes, NEW c \in Part, StepOf(c, Step), CloneStep, UNCHANGED branch
  PROVE  Change(c) /\ NodeTypes'
<1>1. PICK i \in Step.at : disk' = [disk EXCEPT ![i] = branch]
  BY DEF CloneStep
<1>2. /\ i \in ItemsOf(c) /\ i # <<"kube", "admin">> /\ branch \in Content /\ branch # "none"
      /\ branch \in Build /\ i # <<"cri-docker", "binary">>
  BY BuildAssumption DEF StepOf, CloneStep, Content, Build, NodeTypes
<1> QED  BY <1>1, <1>2, DiskChange DEF CloneStep

LEMMA CopyChange ==
  ASSUME NodeTypes, NEW c \in Part, StepOf(c, Step), CopyStep, UNCHANGED branch
  PROVE  Change(c) /\ NodeTypes'
<1>1. /\ c = "driver"
      /\ disk' = [disk EXCEPT ![<<"driver", "module">>] = disk[<<"driver", "userland">>]]
  BY DEF CopyStep, StepOf
<1>2. /\ <<"driver", "module">> \in ItemsOf(c) /\ disk[<<"driver", "userland">>] \in Content
      /\ <<"driver", "module">> \in Removable
  BY <1>1 DEF ItemsOf, Item, NodeTypes, Removable
<1> QED  BY <1>1, <1>2, DiskChange DEF CopyStep

\* A daemon that is started, and those that are lost with it.
LEMMA StartedWith ==
  ASSUME NodeTypes, NEW d \in Daemon, NEW p \in [build : Content, config : SUBSET Setting],
         NEW lost \in LostWith(d), proc' = WithStarted(d, p, lost)
  PROVE  /\ proc' \in [Daemon -> [build : Content, config : SUBSET Setting]]
         /\ proc'[d] = p
         /\ \A e \in Daemon \ {d} :
              \/ proc'[e] = proc[e]
              \/ d = "docker" /\ e \in {"cri-docker", "kind"} /\ proc'[e] = Off
<1>1. Off \in [build : Content, config : SUBSET Setting]
  BY DEF Off, Content
<1>2. \A e \in Daemon : proc'[e] = IF e = d THEN p ELSE IF e \in lost THEN Off ELSE proc[e]
  BY DEF WithStarted
<1>3. proc' \in [Daemon -> [build : Content, config : SUBSET Setting]]
  BY <1>1 DEF WithStarted, NodeTypes
<1>4. \A e \in lost : d = "docker" /\ e \in {"cri-docker", "kind"}
  BY DEF LostWith
<1> QED  BY <1>2, <1>3, <1>4

LEMMA PackageChange ==
  ASSUME NodeTypes, NEW c \in Part, StepOf(c, Step), PackageStep, UNCHANGED branch, OwnRuntime \in Runtime
  PROVE  Change(c) /\ NodeTypes'
<1> PICK r \in Runtime : r = OwnRuntime
  OBVIOUS
<1> DEFINE i == <<r, "package">>
<1>1. c = "runtime" /\ Step.at = {i} /\ Step.val \subseteq Version
  BY DEF StepOf, PackageStep
<1>2. PICK v \in Version :
        /\ disk' = [disk EXCEPT ![i] = v]
        /\ \/ UNCHANGED proc
           \/ /\ disk[<<r, "local">>] = "none"
              /\ \E lost \in LostWith(r) :
                   proc' = WithStarted(r, [build |-> v, config |-> config[r]], lost)
  <2>1. PICK j \in Step.at, v \in Step.val :
          /\ disk' = [disk EXCEPT ![j] = v]
          /\ \/ UNCHANGED proc
             \/ /\ disk[<<j[1], "local">>] = "none"
                /\ \E lost \in LostWith(j[1]) :
                     proc' = WithStarted(j[1], [build |-> v, config |-> config[j[1]]], lost)
    BY DEF PackageStep
  <2>2. j = i /\ j[1] = r /\ v \in Version
    BY <1>1, <2>1
  <2> QED  BY <2>1, <2>2
<1>3. /\ i \in Item /\ i \in ItemsOf(c) /\ v # "none" /\ v \in Content /\ r \in Runtime
      /\ <<r, "local">> \in Item /\ <<r, "local">> # i /\ <<"kube", "admin">> # i
      /\ <<"kube", "tools">> # i
  BY <1>1, BuildAssumption DEF ItemsOf, Item, Runtime, Content, Build
<1>4. disk' \in [Item -> Content] /\ disk'[i] = v /\ \A j \in Item : j # i => disk'[j] = disk[j]
  BY <1>2, <1>3 DEF NodeTypes
<1>5. UNCHANGED config
  BY DEF PackageStep
<1>6. CASE UNCHANGED proc
  <2>1. NodeTypes'
    BY <1>4, <1>5, <1>6, <1>3 DEF NodeTypes, Item
  <2> QED  BY <1>3, <1>4, <1>5, <1>6, <2>1 DEF Change, Item
<1>7. ASSUME disk[<<r, "local">>] = "none", NEW lost \in LostWith(r),
             proc' = WithStarted(r, [build |-> v, config |-> config[r]], lost)
      PROVE  Change(c) /\ NodeTypes'
  <2>1. r \in Daemon /\ [build |-> v, config |-> config[r]] \in [build : Content, config : SUBSET Setting]
    BY <1>3 DEF Daemon, NodeTypes
  <2>2. /\ proc' \in [Daemon -> [build : Content, config : SUBSET Setting]]
        /\ proc'[r] = [build |-> v, config |-> config[r]]
        /\ \A d \in Daemon : d # r =>
             proc'[d] = proc[d] \/ (d \in {"cri-docker", "kind"} /\ proc'[d] = Off)
    BY <1>7, <2>1, StartedWith
  <2>3. NodeTypes'
    BY <1>3, <1>4, <1>5, <2>2 DEF NodeTypes, Item
  <2>4. Started(r)' = [build |-> v, config |-> config[r]]
    BY <1>3, <1>4, <1>5, <1>7 DEF Started, Binary, Runtime
  <2>5. StartedNow(r) /\ {r, "cri-docker", "kind"} \subseteq DaemonsOf(c)
    BY <1>1, <1>3, <2>2, <2>4 DEF StartedNow, DaemonsOf
  <2> QED  BY <1>3, <1>4, <1>5, <2>2, <2>3, <2>5 DEF Change, Item
<1> QED  BY <1>2, <1>6, <1>7

LEMMA ConfigChange ==
  ASSUME NodeTypes, NEW c \in Part, StepOf(c, Step), ConfigStep, UNCHANGED branch, OwnRuntime \in Runtime
  PROVE  Change(c) /\ NodeTypes'
<1>1. PICK r \in Step.at :
        config' = [config EXCEPT ![r] = IF Step.do = "add" THEN config[r] \cup Step.val ELSE Step.val]
  BY DEF ConfigStep
<1>2. /\ Step.val \subseteq Setting /\ r \in FilesOf(c)
      /\ Step.do = "overwrite" => c = "runtime" /\ Step.val = {"cri"}
      /\ Step.do \in {"overwrite", "add"} /\ UNCHANGED <<disk, proc>>
  BY DEF StepOf, ConfigStep
<1>3. r \in Runtime
  BY <1>2 DEF FilesOf, Part, Runtime
<1> DEFINE s == IF Step.do = "add" THEN config[r] \cup Step.val ELSE Step.val
<1>4. /\ s \in SUBSET Setting /\ ("cri" \in config[r] => "cri" \in s)
      /\ c # "runtime" => config[r] \subseteq s
  BY <1>2, <1>3 DEF NodeTypes
<1>5. config' = [config EXCEPT ![r] = s]
  BY <1>1
<1> HIDE DEF s
<1>6. config' \in [Runtime -> SUBSET Setting] /\ config'[r] = s /\ \A q \in Runtime : q # r => config'[q] = config[q]
  BY <1>3, <1>4, <1>5 DEF NodeTypes
<1> QED
  BY <1>2, <1>3, <1>4, <1>6 DEF Change, NodeTypes

LEMMA DaemonChange ==
  ASSUME NodeTypes, NEW c \in Part, StepOf(c, Step), DaemonStep, UNCHANGED branch, OwnRuntime \in Runtime
  PROVE  Change(c) /\ NodeTypes'
<1>1. PICK d \in Step.at :
        /\ Started(d).build # "none"
        /\ \/ UNCHANGED proc
           \/ \E lost \in LostWith(d) : proc' = WithStarted(d, Started(d), lost)
  BY DEF DaemonStep
<1>2. UNCHANGED <<disk, config>>
  BY DEF DaemonStep
<1>3. d \in DaemonsOf(c) /\ d \in Daemon /\ (d = "docker" => {"cri-docker", "kind"} \subseteq DaemonsOf(c))
  BY DEF StepOf, DaemonStep, DaemonsOf, Part, Daemon, Runtime
<1>4. /\ Started(d)' = Started(d)
      /\ Started(d) \in [build : Content, config : SUBSET Setting]
  BY <1>2, <1>3 DEF Started, Binary, Off, Daemon, Runtime, NodeTypes, Item, Content
<1>5. CASE UNCHANGED proc
  BY <1>2, <1>5 DEF Change, NodeTypes
<1>6. ASSUME NEW lost \in LostWith(d), proc' = WithStarted(d, Started(d), lost)
      PROVE  Change(c) /\ NodeTypes'
  <2>1. /\ proc' \in [Daemon -> [build : Content, config : SUBSET Setting]]
        /\ proc'[d] = Started(d)
        /\ \A e \in Daemon \ {d} :
             \/ proc'[e] = proc[e]
             \/ d = "docker" /\ e \in {"cri-docker", "kind"} /\ proc'[e] = Off
    BY <1>3, <1>4, <1>6, StartedWith
  <2>2. NodeTypes'
    BY <1>2, <2>1 DEF NodeTypes
  <2>3. \A e \in Daemon : proc'[e] # proc[e] =>
          e \in DaemonsOf(c) /\ (StartedNow(e) \/ (e \in {"cri-docker", "kind"} /\ proc'[e] = Off))
    BY <1>1, <1>3, <1>4, <2>1 DEF StartedNow
  <2> QED  BY <1>2, <2>2, <2>3 DEF Change
<1> QED
  BY <1>1, <1>5, <1>6

LEMMA OtherChange ==
  ASSUME NodeTypes, NEW c \in Part, StepOf(c, Step), StopStep \/ CheckStep, UNCHANGED branch
  PROVE  Change(c) /\ NodeTypes'
<1>1. CASE StopStep
  <2>1. /\ c = "kubernetes" /\ UNCHANGED <<disk, config>>
        /\ proc' = [d \in Daemon |-> IF d = "kind" THEN Off ELSE proc[d]]
    BY <1>1 DEF StopStep, StepOf
  <2>2. Off \in [build : Content, config : SUBSET Setting]
    BY DEF Off, Content
  <2>3. NodeTypes'
    BY <2>1, <2>2 DEF NodeTypes
  <2> QED  BY <2>1, <2>3 DEF Change, DaemonsOf
<1>2. CASE CheckStep
  BY <1>2 DEF CheckStep, Change, NodeTypes, node
<1> QED  BY <1>1, <1>2

LEMMA InitChange ==
  ASSUME NodeTypes, NEW c \in Part, StepOf(c, Step), InitStep \/ InitBreaks, UNCHANGED branch
  PROVE  Change(c) /\ NodeTypes'
<1>0. /\ c = "kubernetes" /\ UNCHANGED config
      /\ <<"kube", "admin">> \in Item /\ <<"kube", "tools">> \in Item /\ "kube" \in Daemon
      /\ <<"kube", "admin">> \in ItemsOf(c) /\ "kube" \in DaemonsOf(c)
      /\ <<"kube", "admin">> \notin Removable /\ "kube" \notin Runtime
      /\ <<"cri-docker", "binary">> \in Item
  BY DEF StepOf, InitStep, InitBreaks, ItemsOf, Item, Daemon, DaemonsOf, Removable, Runtime
<1>1. \/ UNCHANGED <<disk, proc>>
      \/ /\ disk[<<"kube", "admin">>] = "none"
         /\ \E a \in Build \cup {"files", "pods"} :
              /\ disk' = [disk EXCEPT ![<<"kube", "admin">>] = a]
              /\ \/ UNCHANGED proc
                 \/ a # "files" /\ proc' = [proc EXCEPT !["kube"] = [build |-> a, config |-> {}]]
  <2>1. CASE InitBreaks
    BY <2>1 DEF InitBreaks
  <2>2. CASE InitStep
    <3>1. CASE disk[<<"kube", "admin">>] # "none"
      BY <2>2, <3>1 DEF InitStep
    <3>2. CASE disk[<<"kube", "admin">>] = "none"
      <4>1. CanInit /\ disk[<<"kube", "tools">>] \notin {"none", "partial"}
        BY <2>2, <3>2 DEF InitStep, CanInit
      <4>2. disk[<<"kube", "tools">>] \in Build /\ disk[<<"kube", "tools">>] # "files"
        BY <4>1, BuildAssumption DEF NodeTypes, Build
      <4> QED  BY <2>2, <3>2, <4>2 DEF InitStep
    <3> QED  BY <3>1, <3>2
  <2> QED  BY <2>1, <2>2
<1>2. CASE UNCHANGED <<disk, proc>>
  BY <1>0, <1>2 DEF Change, NodeTypes
<1>3. ASSUME NEW a \in Build \cup {"files", "pods"}, disk[<<"kube", "admin">>] = "none",
             disk' = [disk EXCEPT ![<<"kube", "admin">>] = a],
             UNCHANGED proc \/ (a # "files" /\ proc' = [proc EXCEPT !["kube"] = [build |-> a, config |-> {}]])
      PROVE  Change(c) /\ NodeTypes'
  <2>1. a \in Content /\ a # "none"
    BY BuildAssumption DEF Content, Build
  <2>2. /\ disk' \in [Item -> Content] /\ disk'[<<"kube", "admin">>] = a
        /\ \A j \in Item : j # <<"kube", "admin">> => disk'[j] = disk[j]
    BY <1>0, <1>3, <2>1 DEF NodeTypes
  <2>3. /\ proc' \in [Daemon -> [build : Content, config : SUBSET Setting]]
        /\ \A d \in Daemon : d # "kube" => proc'[d] = proc[d]
        /\ proc'["kube"] # proc["kube"] => a # "files" /\ proc'["kube"] = [build |-> a, config |-> {}]
    <3>1. CASE UNCHANGED proc
      BY <3>1 DEF NodeTypes
    <3>2. CASE a # "files" /\ proc' = [proc EXCEPT !["kube"] = [build |-> a, config |-> {}]]
      <4>1. [build |-> a, config |-> {}] \in [build : Content, config : SUBSET Setting]
        BY <2>1
      <4> QED  BY <1>0, <3>2, <4>1 DEF NodeTypes
    <3> QED  BY <1>3, <3>1, <3>2
  <2>4. a # "files" => Started("kube")' = [build |-> a, config |-> {}]
    BY <2>1, <2>2 DEF Started, Runtime
  <2>5. proc'["kube"] # proc["kube"] => StartedNow("kube")
    BY <2>1, <2>3, <2>4, SMTT(30) DEF StartedNow
  <2>6. NodeTypes'
    BY <1>0, <2>2, <2>3 DEF NodeTypes
  <2> QED
    BY <1>0, <1>3, <2>1, <2>2, <2>3, <2>5, <2>6 DEF Change
<1> QED  BY <1>1, <1>2, <1>3

\* What a step of a script does.
LEMMA EffectChange ==
  ASSUME Types, TodoInv, ScriptInv, NodeTypes, RunningScript, Effect, UNCHANGED branch,
         NEW c \in Part, At(c)
  PROVE  Change(c) /\ NodeTypes'
<1>1. StepOf(c, Step)
  <2>1. Step = script[1] /\ 1 \in 1..Len(script)
    BY RunningLine
  <2> QED  BY <2>1 DEF ScriptInv
<1>2. OwnRuntime \in Runtime
  BY DocumentShape DEF Types, OwnRuntime
<1> QED
  BY <1>1, <1>2, PutChange, FetchChange, CloneChange, CopyChange, PackageChange, ConfigChange,
     DaemonChange, OtherChange, InitChange DEF Effect

LEMMA StartedTypes ==
  ASSUME NodeTypes, NEW d \in Daemon
  PROVE  Started(d) \in [build : Content, config : SUBSET Setting]
  BY DEF Started, Binary, Off, Daemon, Runtime, NodeTypes, Item, Content

\* A daemon that dies comes up with what is there; cri-dockerd and the cluster of
\* kind are lost, at most.
LEMMA DaemonLost ==
  ASSUME NodeTypes, DaemonDies
  PROVE  /\ UNCHANGED <<disk, config>> /\ UNCHANGED <<proc["kernel"], proc["driver"], proc["microk8s"]>>
         /\ \A e \in Daemon :
              \/ proc'[e] = proc[e]
              \/ e \in Runtime \cup {"kube"} /\ Up(e) /\ proc'[e] = Started(e)
              \/ e \in {"cri-docker", "kind"} /\ proc'[e] = Off
<1>1. UNCHANGED <<disk, config>>
  BY DEF DaemonDies
<1>2. PICK d \in Runtime \cup {"kube", "kind"} :
        /\ Up(d)
        /\ \E lost \in LostWith(d) :
             proc' = WithStarted(d, IF d = "kind" THEN Off ELSE Started(d), lost)
  BY DEF DaemonDies
<1>3. /\ d \in Daemon /\ d \notin {"kernel", "driver", "microk8s"}
      /\ {"kernel", "driver", "microk8s"} \subseteq Daemon
      /\ (IF d = "kind" THEN Off ELSE Started(d)) \in [build : Content, config : SUBSET Setting]
  BY StartedTypes DEF Daemon, Runtime, Off, Content
<1>4. /\ proc'[d] = IF d = "kind" THEN Off ELSE Started(d)
      /\ \A e \in Daemon \ {d} :
           proc'[e] = proc[e] \/ (e \in {"cri-docker", "kind"} /\ proc'[e] = Off)
  BY <1>2, <1>3, StartedWith
<1> QED  BY <1>1, <1>2, <1>3, <1>4

\* An update of a document makes a document.
LEMMA UpdatedDocuments ==
  ASSUME NEW d \in Document, NEW e \in Updated(d)
  PROVE  /\ e \in Document
         /\ \/ \E x : e = [d EXCEPT !.driver = x] /\ d.driver[1] \in {"none", "package"} /\ x[1] = "package"
            \/ \E x : e = [d EXCEPT !.runtime = x] /\ ~Asked(d.runtime) /\ Asked(x)
            \/ \E x : e = [d EXCEPT !.toolkit = x] /\ Asked(x)
            \/ \E x : e = [d EXCEPT !.kubernetes = x] /\ ~Asked(d.kubernetes) /\ Asked(x)
<1> DEFINE runtimes == Named({"", "containerd", "docker"}, {"package"} \X Version)
           clusters == Named({"", "kubeadm", "kind", "microk8s"}, {"release"} \X Version)
<1>1. \/ \E x \in {"package"} \X Version :
           e = [d EXCEPT !.driver = x] /\ d.driver[1] \in {"none", "package"}
      \/ \E x \in runtimes : e = [d EXCEPT !.runtime = x] /\ ~Asked(d.runtime)
      \/ \E x \in {"package"} \X Version : e = [d EXCEPT !.toolkit = x]
      \/ \E x \in clusters : e = [d EXCEPT !.kubernetes = x] /\ ~Asked(d.kubernetes)
  BY DEF Updated, Asked
<1>2. ASSUME NEW names, NEW sources, NEW x \in Named(names, sources)
      PROVE  \E n \in names, s \in sources : x = <<n, s[1], s[2]>>
  BY DEF Named
<1>3. ASSUME NEW names, NEW sources, NEW n \in names, NEW s \in sources
      PROVE  <<n, s[1], s[2]>> \in Named(names, sources)
  BY DEF Named
<1>4. ASSUME NEW x \in {"package"} \X Version
      PROVE  /\ [d EXCEPT !.driver = x] \in Document /\ [d EXCEPT !.toolkit = x] \in Document
             /\ x[1] = "package"
  BY <1>4, ZenonT(30) DEF Document, Sources
<1>5. ASSUME NEW x \in runtimes
      PROVE  [d EXCEPT !.runtime = x] \in Document /\ Asked(x)
  <2> DEFINE few == {"", "containerd", "docker"}  all == {"", "containerd", "docker", "crio"}
             packages == {"package"} \X Version  sources == Sources("package")
  <2>1. few \subseteq all /\ packages \subseteq sources /\ "none" \notin few
    BY DEF Sources
  <2>0. x \in Named(few, packages)
    BY <1>5
  <2> HIDE DEF few, all, packages, sources, runtimes
  <2>2. PICK n \in few, s \in packages : x = <<n, s[1], s[2]>>
    BY <1>2, <2>0
  <2>3. x \in Named(all, sources)
    BY <1>3, <2>1, <2>2
  <2>4. Asked(x)
    BY <2>1, <2>2 DEF Asked
  <2> QED  BY <2>3, <2>4 DEF Document, all, sources
<1>6. ASSUME NEW x \in clusters
      PROVE  [d EXCEPT !.kubernetes = x] \in Document /\ Asked(x)
  <2> DEFINE all == {"", "kubeadm", "kind", "microk8s"}
             most == {"", "kubeadm", "kind"}  only == {"microk8s"}
             releases == {"release"} \X Version  sources == Sources("release")
  <2>1. all \subseteq most \cup only /\ releases \subseteq sources /\ "none" \notin all
    BY DEF Sources
  <2>0. x \in Named(all, releases)
    BY <1>6
  <2> HIDE DEF all, most, only, releases, sources, clusters
  <2>2. PICK n \in all, s \in releases : x = <<n, s[1], s[2]>>
    BY <1>2, <2>0
  <2>3. x \in Named(most, sources) \/ x \in Named(only, releases)
    BY <1>3, <2>1, <2>2
  <2>4. Asked(x)
    BY <2>1, <2>2 DEF Asked
  <2> QED  BY <2>3, <2>4 DEF Document, most, only, sources, releases
<1> HIDE DEF runtimes, clusters
<1> QED
  BY <1>1, <1>4, <1>5, <1>6 DEF Asked

LEMMA BaseInit ==
  ASSUME Init
  PROVE  BaseInv
<1>1. Types
  <2>1. 0 \in 0..Faults /\ 0 \in 0..Edits
    BY BoundAssumption
  <2> QED  BY <2>1, DocumentAssumption DEF Init, Types
<1>2. << >> \in Seq(Dependency) /\ Len(<< >>) = 0
  BY EmptySeq
<1>3. TodoInv
  BY <1>2 DEF Init, TodoInv, Within, Has, In
<1>4. ScriptInv
  BY <1>2 DEF Init, ScriptInv, Sequence, At
<1>5. NodeTypes
  <2>1. Newest \in Content /\ "none" \in Content /\ "jq" \in Content
    BY BuildAssumption DEF Content, Build
  <2>2. [build |-> Newest, config |-> {}] \in [build : Content, config : SUBSET Setting]
        /\ Off \in [build : Content, config : SUBSET Setting]
    BY <2>1 DEF Off
  <2>3. disk \in [Item -> Content] /\ config \in [Runtime -> SUBSET Setting]
    BY <2>1 DEF Init, NodeInit
  <2>4. proc \in [Daemon -> [build : Content, config : SUBSET Setting]]
    BY <2>2 DEF Init, NodeInit
  <2>5. disk[<<"kube", "tools">>] = "none"
    BY DEF Init, NodeInit, Item
  <2> QED
    BY <2>3, <2>4, <2>5 DEF Init, NodeTypes
<1> QED
  BY <1>1, <1>3, <1>4, <1>5 DEF BaseInv, PowerInv, Init

\* A run that has ended.
LEMMA RunEnded ==
  ASSUME phase' = "idle", script' = << >>, todo' = << >>
  PROVE  TodoInv' /\ ScriptInv' /\ PowerInv'
<1>1. << >> \in Seq(Dependency) /\ Len(<< >>) = 0
  BY EmptySeq
<1> QED
  BY <1>1 DEF TodoInv, Within, Has, In, ScriptInv, Sequence, At, PowerInv

\* A list that stays what it is.
LEMMA SameTodo ==
  ASSUME TodoInv, UNCHANGED <<todo, doc>>, phase' = "script" => Len(todo) # 0
  PROVE  TodoInv'
  BY DEF TodoInv, Has, In, Within, Expected, Full, Asked

\* A script that is not there.
LEMMA NoScript ==
  ASSUME phase' # "script", script' = << >>
  PROVE  ScriptInv'
<1>1. << >> \in Seq({}) /\ Len(<< >>) = 0
  BY EmptySeq
<1> QED
  BY <1>1 DEF ScriptInv, Sequence, At

\* What a line may do depends on the document only.
LEMMA SameLines ==
  ASSUME UNCHANGED doc
  PROVE  /\ OwnRuntime' = OwnRuntime
         /\ \A c : ItemsOf(c)' = ItemsOf(c) /\ FilesOf(c)' = FilesOf(c) /\ DaemonsOf(c)' = DaemonsOf(c)
         /\ \A c, s : StepOf(c, s)' <=> StepOf(c, s)
<1>1. OwnRuntime' = OwnRuntime
  BY DEF OwnRuntime, RuntimeOf
<1>2. \A c : ItemsOf(c)' = ItemsOf(c) /\ FilesOf(c)' = FilesOf(c) /\ DaemonsOf(c)' = DaemonsOf(c)
  BY <1>1 DEF ItemsOf, FilesOf, DaemonsOf
<1> QED
  BY <1>1, <1>2 DEF StepOf

LEMMA BeginBase ==
  ASSUME BaseInv, BeginScript
  PROVE  BaseInv'
<1> USE DEF BaseInv
<1>1. Types' /\ NodeTypes' /\ PowerInv'
  BY DEF BeginScript, Types, node, NodeTypes, PowerInv
<1>2. todo \in Seq(Dependency) /\ Len(todo) # 0 /\ Head(todo) = todo[1] /\ 1 \in 1..Len(todo)
  BY EmptySeq, LenProperties DEF BeginScript, TodoInv, Within
<1>3. TodoInv'
  BY <1>2, SameTodo DEF BeginScript
<1>4. Head(todo) \in Dependency
  BY <1>2, ElementOfSeq
<1>5. UNCHANGED doc /\ UNCHANGED todo /\ script' = ScriptOf(Head(todo))
  BY DEF BeginScript
<1>6. ASSUME NEW c \in Part, Head(todo) = Install(c)
      PROVE  ScriptOfPart(c, script')
  <2>1. Expected(c)
    BY <1>2, <1>6 DEF TodoInv, Has, In
  <2>2. doc \in Document /\ branch \in Commit
    BY DEF Types, NodeTypes
  <2>3. CASE c = "kernel"
    <3>1. doc.kernel \in Version
      BY <2>1, <2>2, <2>3, DocumentShape DEF Expected
    <3>2. script' = KernelScript(doc.kernel)
      BY <1>5, <1>6, <2>3 DEF ScriptOf, Install
    <3> QED  BY <2>3, <3>1, <3>2, KernelLinesAre
  <2>4. CASE c = "driver"
    <3>1. Asked(doc.driver)
      BY <2>1, <2>4 DEF Expected
    <3>2. script' = DriverScript(doc.driver[1], doc.driver[2])
      BY <1>5, <1>6, <2>4 DEF ScriptOf, Install
    <3> QED  BY <2>2, <2>4, <3>1, <3>2, DriverLinesAre
  <2>5. CASE c = "runtime"
    <3>1. Asked(doc.runtime)
      BY <2>1, <2>5 DEF Expected
    <3>2. script' = ScriptOf(<<"install", "runtime">>) /\ ~TemplateRefuses(<<"install", "runtime">>)
      BY <1>5, <1>6, <2>5 DEF Install, BeginScript
    <3> QED  BY <2>2, <2>5, <3>1, <3>2, RuntimeLinesAre
  <2>6. CASE c = "toolkit"
    <3>1. Asked(doc.toolkit)
      BY <2>1, <2>6 DEF Expected
    <3>2. script' = ToolkitScript(doc.toolkit[1], doc.toolkit[2], OwnRuntime)
      BY <1>5, <1>6, <2>6 DEF ScriptOf, Install, OwnRuntime
    <3> QED  BY <2>2, <2>6, <3>1, <3>2, ToolkitLinesAre
  <2>7. CASE c = "kubernetes"
    <3>1. Asked(doc.kubernetes)
      BY <2>1, <2>7 DEF Expected
    <3>2. script' = ScriptOf(<<"install", "kubernetes">>)
      BY <1>5, <1>6, <2>7 DEF Install
    <3> QED  BY <2>2, <2>7, <3>1, <3>2, KubernetesLinesAre
  <2> QED  BY <2>3, <2>4, <2>5, <2>6, <2>7 DEF Part
<1>7. CASE \E c \in Part : Head(todo) = Install(c)
  <2>1. PICK c \in Part : Head(todo) = Install(c)
    BY <1>7
  <2>2. \A e \in Part : At(e)' => e = c
    BY <1>5, <2>1 DEF At, Install
  <2>3. Sequence(script') /\ \A i \in 1..Len(script') : StepOf(c, script'[i])
    BY <1>6, <2>1 DEF ScriptOfPart
  <2>4. \A s : StepOf(c, s) => StepOf(c, s)'
    BY <1>5, SameLines
  <2>5. ScriptInv'
    BY <1>5, <1>7, <2>2, <2>3, <2>4 DEF ScriptInv
  <2> QED  BY <1>1, <1>3, <2>5
<1>8. CASE ~\E c \in Part : Head(todo) = Install(c)
  <2>1. Head(todo)[1] = "custom"
    BY <1>4, <1>8 DEF Dependency, Install, Part
  <2>2. script' = << >>
    BY <1>5, <2>1 DEF ScriptOf
  <2>3. Sequence(script') /\ Len(script') = 0
    BY <2>2, Literals
  <2>4. ScriptInv'
    BY <1>5, <1>8, <2>3 DEF ScriptInv, At
  <2> QED  BY <1>1, <1>3, <2>4
<1> QED  BY <1>7, <1>8

\* A script that goes on.
LEMMA ScriptGoesOn ==
  ASSUME TodoInv, ScriptInv, RunningScript, Moves \/ Refetches, UNCHANGED <<doc, todo, phase>>
  PROVE  ScriptInv'
<1>1. /\ Sequence(script) /\ Len(script) \in Nat \ {0} /\ Step = script[1]
      /\ \E c \in Part : At(c) /\ StepOf(c, Step)
  BY RunningLine
<1>2. PICK c \in Part : At(c) /\ StepOf(c, Step)
  BY <1>1
<1>3. \A i \in 1..Len(script) : StepOf(c, script[i])
  BY <1>2 DEF ScriptInv
<1>4. Sequence(script') /\ Len(script') \in Nat
  BY SequenceFacts DEF Moves, Refetches
<1>5. ASSUME NEW i \in 1..Len(script') PROVE StepOf(c, script'[i])
  <2>1. CASE Moves
    <3>1. script'[i] = script[i + 1] /\ i + 1 \in 1..Len(script)
      BY <1>1, <1>4, <2>1 DEF Moves
    <3> QED  BY <1>3, <3>1
  <2>2. CASE Refetches
    <3>1. CASE i = 1
      <4>1. StepOf(c, PutOneOf(Step.at, Step.val))
        BY <1>2, <2>2 DEF Refetches, StepOf, PutOneOf
      <4> QED  BY <2>2, <3>1, <4>1 DEF Refetches
    <3>2. CASE i # 1
      <4>1. i \in 2..Len(script)
        BY <1>4, <2>2, <3>2 DEF Refetches
      <4>2. script'[i] = script[i] /\ i \in 1..Len(script)
        BY <1>1, <2>2, <4>1 DEF Refetches
      <4> QED  BY <1>3, <4>2
    <3> QED  BY <3>1, <3>2
  <2> QED  BY <2>1, <2>2
<1>6. \A e \in Part : At(e)' => e = c
  BY <1>2 DEF At, Install
<1>7. (\A i \in 1..Len(script) : StepOf(c, script[i]))'
  BY <1>5, SameLines
<1> QED
  BY <1>2, <1>4, <1>6, <1>7 DEF ScriptInv, At

LEMMA BaseStep ==
  ASSUME BaseInv, [Next]_vars
  PROVE  BaseInv'
<1> USE DEF BaseInv
<1>0. doc \in Document /\ disturbed \in BOOLEAN
  BY DEF Types
<1>1. CASE UNCHANGED vars
  <2>1. UNCHANGED <<disk, config, proc, script, branch, doc, todo, phase, power, result, faults,
                    disturbed, fresh, edits>>
    BY <1>1 DEF vars
  <2>2. TodoInv'
    BY <2>1, SameTodo DEF TodoInv
  <2>3. ScriptInv'
    BY <2>1, SameLines DEF ScriptInv, At, Sequence
  <2> QED  BY <2>1, <2>2, <2>3 DEF Types, NodeTypes, PowerInv
<1>2. CASE StartRun
  <2>1. Types' /\ PowerInv'
    BY <1>2 DEF StartRun, Types, PowerInv
  <2>2. NodeTypes'
    <3>1. "config" \in Content /\ <<"kube", "config">> \in Item /\ <<"kube", "tools">> \in Item
      BY DEF Content, Item
    <3> QED  BY <1>2, <3>1 DEF StartRun, NodeTypes
  <2>3. Within(Resolve(doc), 1, 10) /\ \A c \in Part : Has(Resolve(doc), c) <=> Expected(c)
    BY ResolveFacts DEF Expected, Full, Part
  <2>4. todo' = Resolve(doc) /\ UNCHANGED doc /\ phase' = "next"
    BY <1>2 DEF StartRun
  <2>5. \A c \in Part : Expected(c)' <=> Expected(c)
    BY <2>4 DEF Expected, Full, Part
  <2>6. TodoInv'
    BY <2>3, <2>4, <2>5 DEF TodoInv, Has, In, Within
  <2>7. ScriptInv'
    BY <1>2, NoScript DEF StartRun, Types
  <2> QED  BY <2>1, <2>2, <2>6, <2>7
<1>3. ASSUME phase' = "idle", script' = << >>, todo' = << >>, UNCHANGED <<doc, branch, power, edits>>,
             result' \in {"success", "failure"}, faults' \in 0..Faults, disturbed' \in BOOLEAN,
             fresh' = FALSE, NodeTypes'
      PROVE  BaseInv'
  BY <1>3, RunEnded DEF Types
<1>4. ASSUME EndRun("failure") \/ EndRun("success"), UNCHANGED <<node, faults, disturbed>>
      PROVE  BaseInv'
  BY <1>3, <1>4 DEF EndRun, node, NodeTypes, Types
<1>5. CASE RefuseRun \/ TemplateFails \/ ScriptFails \/ Finish
  BY <1>4, <1>5 DEF RefuseRun, TemplateFails, ScriptFails, Finish
<1>6. Disturb => faults' \in 0..Faults /\ disturbed' \in BOOLEAN
  BY BoundAssumption DEF Disturb, Types
<1>7. CASE CutOff \/ GiveUp
  BY <1>3, <1>6, <1>7 DEF CutOff, GiveUp, EndRun, node, NodeTypes
<1>8. CASE InitFails
  <2>1. RunningScript /\ InitBreaks /\ UNCHANGED branch
    BY <1>8 DEF InitFails, EndRun
  <2>2. PICK c \in Part : StepOf(c, Step)
    BY <2>1, RunningLine
  <2>3. NodeTypes'
    BY <2>1, <2>2, InitChange
  <2> QED  BY <1>3, <1>6, <1>8, <2>3 DEF InitFails, EndRun
<1>9. CASE BeginScript
  BY <1>9, BeginBase
<1>10. CASE ScriptStep
  <2>1. RunningScript /\ Effect /\ UNCHANGED <<branch, doc, todo, phase, power, result, faults, disturbed, fresh, edits>>
    BY <1>10 DEF ScriptStep, run
  <2>2. PICK c \in Part : At(c)
    BY <2>1, RunningLine
  <2>3. NodeTypes'
    BY <2>1, <2>2, EffectChange
  <2>4. TodoInv'
    BY <2>1, SameTodo DEF TodoInv
  <2>5. ScriptInv'
    BY <2>1, EffectMoves, ScriptGoesOn
  <2>6. Types' /\ PowerInv'
    BY <2>1 DEF Types, PowerInv, RunningScript
  <2> QED  BY <2>3, <2>4, <2>5, <2>6
<1>11. CASE RebootStep
  <2>1. RunningScript /\ Pass /\ power' = "leaving"
        /\ UNCHANGED <<node, branch, doc, todo, phase, result, faults, disturbed, fresh, edits>>
    BY <1>11 DEF RebootStep
  <2>2. Moves
    BY <2>1, RunningLine, PassMoves
  <2>3. ScriptInv'
    BY <2>1, <2>2, ScriptGoesOn
  <2>4. TodoInv'
    BY <2>1, SameTodo DEF TodoInv
  <2>5. Types' /\ PowerInv' /\ NodeTypes'
    BY <2>1 DEF Types, PowerInv, NodeTypes, node, RunningScript
  <2> QED  BY <2>3, <2>4, <2>5
<1>12. CASE ScriptEnds
  <2>1. phase = "script" /\ Len(todo) # 0 /\ todo' = Tail(todo) /\ UNCHANGED <<node, script, branch, doc>>
        /\ script = << >> /\ power # "down" /\ phase' \in {"next", "reboot"}
        /\ UNCHANGED <<power, result, faults, disturbed, fresh, edits>>
    BY <1>12 DEF ScriptEnds, TodoInv
  <2>2. \A c \in Part : Expected(c)' <=> Expected(c)
    BY <2>1 DEF Expected, Full, Part
  <2>3. ASSUME NEW c \in Part, Expected(c), ~Has(Tail(todo), c)
        PROVE  \A i \in 1..Len(Tail(todo)) : Rank(Tail(todo)[i]) > Rank(Install(c))
    <3>1. CASE Has(todo, c)
      <4>1. Head(todo) = Install(c)
        BY <2>1, <2>3, <3>1, TodoTail
      <4> QED  BY <2>1, <4>1, TodoTail
    <3>2. CASE ~Has(todo, c)
      <4>1. \A i \in 1..Len(todo) : Rank(todo[i]) > Rank(Install(c))
        BY <2>3, <3>2 DEF TodoInv
      <4> QED  BY <2>1, <4>1, TodoTail
    <3> QED  BY <3>1, <3>2
  <2>4. /\ Within(Tail(todo), 1, 10)
        /\ \A c \in Part : Has(Tail(todo), c) => Expected(c)
    BY <2>1, TodoTail DEF TodoInv
  <2>5. TodoInv'
    BY <2>1, <2>2, <2>3, <2>4 DEF TodoInv, Has, In, Within
  <2>6. ScriptInv'
    BY <2>1, NoScript
  <2>7. Types' /\ PowerInv' /\ NodeTypes'
    BY <2>1 DEF Types, PowerInv, NodeTypes, node
  <2> QED  BY <2>5, <2>6, <2>7
<1>13. CASE Reconnect
  <2>1. TodoInv' /\ ScriptInv'
    BY <1>13, SameTodo, NoScript DEF Reconnect, Types
  <2> QED  BY <1>13, <2>1 DEF Reconnect, Types, PowerInv, NodeTypes, node
<1>14. Off \in [build : Content, config : SUBSET Setting]
  BY DEF Off, Content
<1>15. CASE NodeGoesDown
  <2>1. proc' \in [Daemon -> [build : Content, config : SUBSET Setting]]
    BY <1>14, <1>15 DEF NodeGoesDown
  <2>2. NodeTypes'
    BY <1>15, <2>1 DEF NodeGoesDown, NodeTypes
  <2>3. CASE phase = "script"
    BY <1>0, <1>15, <2>2, <2>3, RunEnded DEF NodeGoesDown, Types
  <2>4. CASE phase # "script"
    <3>1. UNCHANGED <<phase, result, script, todo, fresh, doc, faults, edits>> /\ power' = "down"
          /\ disturbed' = (disturbed \/ phase # "reboot")
      BY <1>15, <2>4 DEF NodeGoesDown
    <3>2. TodoInv' /\ ScriptInv'
      BY <2>4, <3>1, SameTodo, NoScript DEF Types
    <3> QED  BY <2>2, <2>4, <3>1, <3>2 DEF Types, PowerInv
  <2> QED  BY <2>3, <2>4
<1>16. CASE NodeComesUp
  <2>1. Booted \in [Daemon -> [build : Content, config : SUBSET Setting]]
    BY <1>14, StartedTypes DEF Booted
  <2>2. NodeTypes'
    BY <1>16, <2>1 DEF NodeComesUp, NodeTypes
  <2>3. phase # "script" /\ script = << >>
    BY <1>16 DEF NodeComesUp, PowerInv, Types
  <2>4. TodoInv' /\ ScriptInv'
    BY <1>16, <2>3, SameTodo, NoScript DEF NodeComesUp
  <2> QED  BY <1>16, <2>2, <2>4 DEF NodeComesUp, Types, PowerInv
<1>17. CASE UserReboots
  <2>1. TodoInv' /\ ScriptInv'
    BY <1>17, SameTodo, NoScript DEF UserReboots, Types
  <2> QED  BY <1>6, <1>17, <2>1 DEF UserReboots, Types, PowerInv, NodeTypes, node
<1>18. CASE DaemonDies
  <2>1. UNCHANGED <<disk, config, script, branch, doc, todo, phase, power, result, fresh, edits>>
        /\ power = "up" /\ Disturb
    BY <1>18 DEF DaemonDies
  <2>2. PICK d \in Runtime \cup {"kube", "kind"} :
          \E lost \in LostWith(d) :
            proc' = WithStarted(d, IF d = "kind" THEN Off ELSE Started(d), lost)
    BY <1>18 DEF DaemonDies
  <2>3. /\ d \in Daemon
        /\ (IF d = "kind" THEN Off ELSE Started(d)) \in [build : Content, config : SUBSET Setting]
    BY <1>14, StartedTypes DEF Daemon
  <2>4. proc' \in [Daemon -> [build : Content, config : SUBSET Setting]]
    BY <2>2, <2>3, StartedWith
  <2>5. NodeTypes'
    BY <2>1, <2>4 DEF NodeTypes
  <2>6. TodoInv'
    BY <2>1, SameTodo DEF TodoInv
  <2>7. ScriptInv'
    BY <2>1, SameLines DEF ScriptInv, At, Sequence
  <2> QED  BY <1>6, <2>1, <2>5, <2>6, <2>7 DEF Types, PowerInv
<1>19. CASE BranchMoves
  <2>1. UNCHANGED <<node, script, doc, todo, phase, power, result, fresh, edits>> /\ Disturb
        /\ branch' \in Commit
    BY <1>19 DEF BranchMoves
  <2>2. TodoInv'
    BY <2>1, SameTodo DEF TodoInv
  <2>3. ScriptInv'
    BY <2>1, SameLines DEF ScriptInv, At, Sequence
  <2> QED  BY <1>6, <2>1, <2>2, <2>3 DEF Types, PowerInv, NodeTypes, node, Disturb
<1>20. CASE Update
  <2>1. UNCHANGED <<node, script, branch, todo, phase, power, faults, disturbed, fresh>>
        /\ phase = "idle" /\ edits' = edits + 1 /\ edits < Edits /\ result' = "none" /\ doc' \in Updated(doc)
    BY <1>20 DEF Update
  <2>2. doc' \in Document
    BY <1>0, <2>1, UpdatedDocuments
  <2>3. TodoInv' /\ ScriptInv' /\ PowerInv'
    BY <2>1, RunEnded DEF Types
  <2>4. edits' \in 0..Edits /\ edits' # 0
    BY <2>1, BoundAssumption DEF Types
  <2> QED  BY <2>1, <2>2, <2>3, <2>4 DEF Types, NodeTypes, node
<1> QED
  BY <1>1, <1>2, <1>5, <1>7, <1>8, <1>9, <1>10, <1>11, <1>12, <1>13, <1>15, <1>16, <1>17, <1>18,
     <1>19, <1>20 DEF Next, Run

\* The types, and that the script belongs to the dependency the run is at, for
\* every set of documents and every bound.
THEOREM Based == Spec => []BaseInv
<1>1. Init => BaseInv
  BY BaseInit
<1>2. BaseInv /\ [Next]_vars => BaseInv'
  BY BaseStep
<1> QED  BY <1>1, <1>2, PTL DEF Spec

\* Every state has the types that the runs check.
THEOREM TypeCorrect == Spec => []TypeOK
<1>1. BaseInv => TypeOK
  BY DEF BaseInv, Types, NodeTypes, TypeOK, Content, Setting
<1> QED  BY <1>1, Based, PTL

-----------------------------------------------------------------------------
(* What runs                                                               *)

\* What runs was started from something, which is still there.  (The cluster
\* of kind is taken down before it is put together.)
Startable ==
  /\ \A d \in Daemon : proc[d] = Off \/ proc[d].build # "none"
  /\ \A d \in Daemon \ {"kind", "driver"} : Up(d) => Started(d).build # "none"

\* containerd has read its settings for the kubelet from the file.
SettingsRead == "cri" \in proc["containerd"].config => "cri" \in config["containerd"]

RunningInv == Startable /\ SettingsRead

\* What a step can do to the node.
LEMMA NodeSteps ==
  ASSUME BaseInv, [Next]_vars
  PROVE  \/ UNCHANGED node
         \/ ScriptStep /\ \E c \in Part : At(c) /\ Change(c)
         \/ (StartRun \/ InitFails) /\ Change("kubernetes")
         \/ NodeGoesDown \/ NodeComesUp \/ DaemonDies
<1> USE DEF BaseInv
<1>1. CASE UNCHANGED vars
  BY <1>1 DEF vars, node
<1>2. CASE StartRun
  <2>1. /\ UNCHANGED <<config, proc>>
        /\ disk' = disk \/ disk' = [disk EXCEPT ![<<"kube", "config">>] = "config"]
    BY <1>2 DEF StartRun
  <2>2. /\ <<"kube", "config">> \in ItemsOf("kubernetes") /\ <<"kube", "config">> # <<"kube", "admin">>
        /\ <<"kube", "config">> # <<"kube", "tools">> /\ "config" \in Content /\ "kubernetes" \in Part
        /\ "config" # "none"
    BY DEF ItemsOf, Item, Content, Part
  <2>3. UNCHANGED branch
    BY <1>2 DEF StartRun
  <2> QED  BY <1>2, <2>1, <2>2, <2>3, DiskChange DEF node
<1>3. CASE InitFails
  <2>1. RunningScript /\ InitBreaks /\ UNCHANGED branch
    BY <1>3 DEF InitFails, EndRun
  <2>2. PICK c \in Part : StepOf(c, Step)
    BY <2>1, RunningLine
  <2>3. c = "kubernetes"
    BY <2>1, <2>2 DEF StepOf, InitBreaks
  <2> QED  BY <1>3, <2>1, <2>2, <2>3, InitChange
<1>4. CASE ScriptStep
  <2>1. RunningScript /\ Effect /\ UNCHANGED branch
    BY <1>4 DEF ScriptStep
  <2>2. PICK c \in Part : At(c)
    BY <2>1, RunningLine
  <2> QED  BY <1>4, <2>1, <2>2, EffectChange
<1> QED
  BY <1>1, <1>2, <1>3, <1>4
  DEF Next, Run, RefuseRun, BeginScript, TemplateFails, RebootStep, ScriptFails, ScriptEnds,
      Reconnect, Finish, CutOff, GiveUp, UserReboots, BranchMoves, Update

\* What an installed daemon would be, when nothing is taken away.
LEMMA StillStartable ==
  ASSUME NodeTypes, NEW c \in Part, Change(c), NEW d \in Daemon \ {"kind", "driver"},
         Started(d).build # "none"
  PROVE  Started(d)'.build # "none"
<1>1. \A i \in Item \ Removable : disk[i] # "none" => disk'[i] # "none"
  BY DEF Change
<1>2. CASE d = "kernel"
  <2>1. <<"kernel", "image">> \in Item \ Removable
    BY DEF Item, Removable
  <2> QED  BY <1>1, <1>2, <2>1 DEF Started, Runtime
<1>3. CASE d \in Runtime
  <2>1. <<d, "package">> \in Item \ Removable /\ <<d, "local">> \in Item \ Removable
    BY <1>3 DEF Item, Removable, Runtime
  <2>2. Started(d).build = Binary(d) /\ Started(d)'.build = Binary(d)'
    BY <1>3 DEF Started, Runtime
  <2>3. disk[<<d, "local">>] # "none" \/ disk[<<d, "package">>] # "none"
    BY <2>2 DEF Binary
  <2>4. disk'[<<d, "local">>] # "none" \/ disk'[<<d, "package">>] # "none"
    BY <1>1, <2>1, <2>3
  <2> QED  BY <2>2, <2>4 DEF Binary
<1>4. CASE d = "cri-docker"
  <2>1. <<"cri-docker", "unit">> \in Item \ Removable
    BY DEF Item, Removable
  <2>2. disk[<<"cri-docker", "binary">>] = "binary" /\ disk[<<"cri-docker", "unit">>] # "none"
    BY <1>4 DEF Started, Runtime, Off
  <2>3. disk'[<<"cri-docker", "binary">>] = "binary" /\ disk'[<<"cri-docker", "unit">>] # "none"
    BY <1>1, <2>1, <2>2 DEF Change
  <2> QED  BY <1>4, <2>3 DEF Started, Runtime
<1>5. CASE d = "kube"
  <2>1. disk'[<<"kube", "admin">>] = disk[<<"kube", "admin">>]
    BY <1>5 DEF Change, Started, Off, Runtime
  <2> QED  BY <1>5, <2>1 DEF Started, Runtime, Off
<1>6. CASE d = "microk8s"
  <2>1. <<"microk8s", "snap">> \in Item \ Removable
    BY DEF Item, Removable
  <2> QED  BY <1>1, <1>6, <2>1 DEF Started, Runtime
<1> QED
  BY <1>2, <1>3, <1>4, <1>5, <1>6 DEF Daemon

LEMMA RunningStep ==
  ASSUME BaseInv, BaseInv', RunningInv, [Next]_vars
  PROVE  RunningInv'
<1> USE DEF BaseInv
<1>1. CASE UNCHANGED node
  <2>1. \A d \in Daemon : Started(d)' = Started(d)
    BY <1>1 DEF node, Started, Binary
  <2> QED  BY <1>1, <2>1 DEF node, RunningInv, Startable, SettingsRead, Up
<1>2. ASSUME NEW c \in Part, Change(c) PROVE RunningInv'
  <2>1. \A d \in Daemon : proc'[d] = proc[d] \/ StartedNow(d) \/ proc'[d] = Off
    BY <1>2 DEF Change
  <2>2. \A d \in Daemon : proc'[d] = Off \/ proc'[d].build # "none"
    BY <2>1 DEF RunningInv, Startable, StartedNow
  <2>3. ASSUME NEW d \in Daemon \ {"kind", "driver"}, Up(d)' PROVE Started(d)'.build # "none"
    <3>1. CASE proc'[d] = proc[d]
      <4>1. Started(d).build # "none"
        BY <2>3, <3>1 DEF RunningInv, Startable, Up
      <4> QED  BY <1>2, <4>1, StillStartable
    <3>2. CASE StartedNow(d)
      BY <3>2 DEF StartedNow
    <3> QED  BY <2>1, <2>3, <3>1, <3>2 DEF Up
  <2>4. SettingsRead'
    <3>1. "containerd" \in Daemon /\ "containerd" \in Runtime
      BY DEF Daemon, Runtime
    <3>2. CASE proc'["containerd"] = proc["containerd"]
      BY <1>2, <3>1, <3>2 DEF RunningInv, SettingsRead, Change
    <3>3. CASE StartedNow("containerd")
      BY <3>1, <3>3 DEF SettingsRead, StartedNow, Started, Runtime
    <3>4. CASE proc'["containerd"] = Off
      BY <3>4 DEF SettingsRead, Off
    <3> QED  BY <2>1, <3>1, <3>2, <3>3, <3>4
  <2> QED  BY <2>2, <2>3, <2>4 DEF RunningInv, Startable
<1>3. CASE NodeGoesDown
  <2>1. \A d \in Daemon : proc'[d] = Off
    BY <1>3 DEF NodeGoesDown
  <2>2. "containerd" \in Daemon
    BY DEF Daemon, Runtime
  <2> QED  BY <2>1, <2>2 DEF RunningInv, Startable, SettingsRead, Up, Off
<1>4. CASE NodeComesUp
  <2>1. UNCHANGED <<disk, config>>
    BY <1>4 DEF NodeComesUp
  <2>2. \A d \in Daemon : proc'[d] = IF Started(d).build = "none" THEN Off ELSE Started(d)
    BY <1>4 DEF NodeComesUp, Booted
  <2>3. \A d \in Daemon : Started(d)' = Started(d)
    BY <2>1 DEF Started, Binary
  <2>4. "containerd" \in Daemon /\ "containerd" \in Runtime
    BY DEF Daemon, Runtime
  <2>5. SettingsRead'
    <3>1. Started("containerd").config = config["containerd"]
      BY DEF Started, Runtime
    <3>2. "cri" \in proc'["containerd"].config => proc'["containerd"] = Started("containerd")
      BY <2>2, <2>4 DEF Off
    <3> QED  BY <2>1, <3>1, <3>2 DEF SettingsRead
  <2> QED  BY <2>2, <2>3, <2>5 DEF RunningInv, Startable, Up
<1>5. CASE DaemonDies
  <2>1. UNCHANGED <<disk, config>>
    BY <1>5 DEF DaemonDies
  <2>2. PICK d \in Runtime \cup {"kube", "kind"} :
          /\ Up(d)
          /\ \E lost \in LostWith(d) :
               proc' = WithStarted(d, IF d = "kind" THEN Off ELSE Started(d), lost)
    BY <1>5 DEF DaemonDies
  <2>3. d \in Daemon /\ "containerd" \in Daemon /\ "containerd" \in Runtime /\ d # "driver"
    BY DEF Daemon, Runtime
  <2>t. (IF d = "kind" THEN Off ELSE Started(d)) \in [build : Content, config : SUBSET Setting]
    BY <2>3, StartedTypes DEF Off, Content
  <2>4. /\ proc'[d] = IF d = "kind" THEN Off ELSE Started(d)
        /\ \A e \in Daemon \ {d} :
             proc'[e] = proc[e] \/ (e \in {"cri-docker", "kind"} /\ proc'[e] = Off)
    BY <2>2, <2>3, <2>t, StartedWith
  <2>5. \A e \in Daemon : Started(e)' = Started(e)
    BY <2>1 DEF Started, Binary
  <2>6. d # "kind" => Started(d).build # "none"
    BY <2>2, <2>3 DEF RunningInv, Startable
  <2>7. SettingsRead'
    BY <2>1, <2>3, <2>4 DEF RunningInv, SettingsRead, Started, Off, Runtime
  <2>8. Startable'
    BY <2>4, <2>5, <2>6 DEF RunningInv, Startable, Up
  <2> QED  BY <2>7, <2>8 DEF RunningInv
<1> QED
  <2>1. "kubernetes" \in Part
    BY DEF Part
  <2> QED  BY <1>1, <1>2, <1>3, <1>4, <1>5, <2>1, NodeSteps

\* A daemon that runs finds its build on the disk when it is started again, and
\* containerd has never settings that its file does not have.
THEOREM WhatRunsIsThere == Spec => []RunningInv
<1>1. Init => RunningInv
  <2> SUFFICES ASSUME Init PROVE RunningInv
    OBVIOUS
  <2>1. \A d \in Daemon : proc[d] = IF d = "kernel" THEN [build |-> Newest, config |-> {}] ELSE Off
    BY DEF Init, NodeInit
  <2>2. disk[<<"kernel", "image">>] = Newest /\ Newest # "none"
    BY BuildAssumption DEF Init, NodeInit, Item
  <2>3. "containerd" \in Daemon
    BY DEF Daemon, Runtime
  <2> QED  BY <2>1, <2>2, <2>3 DEF RunningInv, Startable, SettingsRead, Up, Started, Off, Runtime
<1>2. BaseInv /\ BaseInv' /\ RunningInv /\ [Next]_vars => RunningInv'
  BY RunningStep
<1> QED  BY <1>1, <1>2, Based, PTL DEF Spec

-----------------------------------------------------------------------------
(* How a run proceeds                                                      *)

LEMMA SamePlace ==
  ASSUME UNCHANGED <<todo, doc>>, phase # "idle", phase' # "idle"
  PROVE  \A c \in Part : /\ Passed(c)' <=> Passed(c)
                         /\ Expected(c)' <=> Expected(c)
                         /\ phase # "script" => (Waits(c)' => Waits(c))
                         /\ UNCHANGED phase => (At(c)' <=> At(c)) /\ (Waits(c)' <=> Waits(c))
<1>1. \A c \in Part : Expected(c)' <=> Expected(c)
  BY DEF Expected, Full, Part
<1>2. \A c \in Part : Has(todo, c)' <=> Has(todo, c)
  BY DEF Has, In
<1>3. /\ \A c \in Part : phase # "script" => ~At(c)
      /\ \A c \in Part : UNCHANGED phase => (At(c)' <=> At(c))
  BY DEF At
<1>4. ASSUME NEW c \in Part
      PROVE  /\ Passed(c)' <=> Passed(c)
             /\ phase # "script" => (Waits(c)' => Waits(c))
             /\ UNCHANGED phase => (Waits(c)' <=> Waits(c))
  <2>1. Passed(c)' <=> Passed(c)
    BY <1>1, <1>2 DEF Passed
  <2>2. Waits(c)' => phase' # "idle" /\ Has(todo, c)' /\ ~At(c)'
    BY DEF Waits
  <2>3. phase # "script" => (Waits(c)' => Waits(c))
    BY <1>2, <1>3, <2>2 DEF Waits
  <2>4. UNCHANGED phase => (Waits(c)' <=> Waits(c))
    BY <1>2, <1>3 DEF Waits
  <2> QED  BY <2>1, <2>3, <2>4
<1> QED
  BY <1>1, <1>3, <1>4

LEMMA AtStart ==
  ASSUME BaseInv, StartRun
  PROVE  \A c \in Part : ~Passed(c)' /\ ~At(c)'
<1>1. \A c \in Part : Has(Resolve(doc), c) <=> Expected(c)
  BY ResolveFacts DEF Expected, Full, Part
<1>2. todo' = Resolve(doc) /\ UNCHANGED doc /\ phase' = "next"
  BY DEF StartRun
<1>3. \A c \in Part : Expected(c)' <=> Expected(c)
  BY <1>2 DEF Expected, Full, Part
<1> QED
  BY <1>1, <1>2, <1>3 DEF Passed, At, Has, In

LEMMA AtEnd ==
  ASSUME BaseInv, ScriptEnds
  PROVE  /\ \A c \in Part : Passed(c)' => Passed(c) \/ At(c)
         /\ \A c \in Part : ~At(c)' /\ (Waits(c)' => Waits(c))
         /\ Len(script) = 0
<1>1. /\ TodoInv /\ Len(todo) # 0 /\ phase = "script" /\ phase' \in {"next", "reboot"}
      /\ todo' = Tail(todo) /\ UNCHANGED doc
  BY DEF BaseInv, ScriptEnds, TodoInv
<1>2. \A c : Has(Tail(todo), c) <=> Has(todo, c) /\ Head(todo) # Install(c)
  BY <1>1, TodoTail
<1>3. \A c \in Part : Expected(c)' <=> Expected(c)
  BY <1>1 DEF Expected, Full, Part
<1>4. \A c \in Part : Has(todo, c)' <=> Has(Tail(todo), c)
  BY <1>1 DEF Has, In
<1>5. Len(script) = 0
  BY Literals DEF ScriptEnds
<1> QED
  BY <1>1, <1>2, <1>3, <1>4, <1>5 DEF Passed, Waits, At

\* The steps in which no script begins, goes on or ends.
LEMMA ControlSteps ==
  ASSUME BaseInv, BaseInv', [Next]_vars
  PROVE  \/ phase' = "idle"
         \/ StartRun \/ BeginScript \/ ScriptStep \/ RebootStep \/ ScriptEnds
         \/ /\ phase # "idle" /\ UNCHANGED <<todo, doc, script, fresh>>
            /\ phase' = phase \/ (phase = "reboot" /\ phase' = "next")
            /\ disturbed' = FALSE => disturbed = FALSE
            /\ \/ UNCHANGED <<node, power>>
               \/ NodeGoesDown /\ phase # "script"
               \/ (NodeComesUp /\ phase # "script") \/ DaemonDies
<1> USE DEF BaseInv
<1>1. CASE UNCHANGED vars
  BY <1>1 DEF vars, node
<1>2. CASE RefuseRun \/ TemplateFails \/ ScriptFails \/ Finish \/ CutOff \/ GiveUp \/ InitFails
  BY <1>2 DEF RefuseRun, TemplateFails, ScriptFails, Finish, CutOff, GiveUp, InitFails, EndRun
<1>3. CASE UserReboots \/ Update
  BY <1>3 DEF UserReboots, Update
<1>4. CASE Reconnect
  BY <1>4 DEF Reconnect
<1>5. CASE NodeGoesDown
  <2>1. phase = "script" => phase' = "idle"
    BY <1>5 DEF NodeGoesDown
  <2>2. phase # "script" =>
          UNCHANGED <<todo, doc, script, fresh, phase>> /\ (disturbed' = FALSE => disturbed = FALSE)
    BY <1>5 DEF NodeGoesDown, Types
  <2> QED  BY <1>5, <2>1, <2>2
<1>6. CASE NodeComesUp
  <2>1. phase # "script" /\ UNCHANGED <<todo, doc, script, fresh, phase, disturbed>>
    BY <1>6 DEF NodeComesUp, PowerInv
  <2> QED  BY <1>6, <2>1
<1>7. CASE DaemonDies
  BY <1>7 DEF DaemonDies, Disturb
<1>8. CASE BranchMoves
  BY <1>8 DEF BranchMoves, Disturb
<1> QED
  BY <1>1, <1>2, <1>3, <1>4, <1>5, <1>6, <1>7, <1>8 DEF Next, Run

\* The effects of lines that are known.
LEMMA KnownLines ==
  ASSUME Effect
  PROVE  /\ \A a, b, v : Step = Put(a, b, v) =>
              disk' = [disk EXCEPT ![<<a, b>>] = v] /\ UNCHANGED <<config, proc>> /\ Pass
         /\ \A x, y : Step = Copy(x, y) =>
              disk' = [disk EXCEPT ![y] = disk[x]] /\ UNCHANGED <<config, proc>> /\ Pass
         /\ \A x : Step = Need(x) => Holds(x) /\ UNCHANGED <<disk, config, proc>> /\ Pass
         /\ \A x : Step = Pinned(x) =>
              proc["driver"].build = x /\ UNCHANGED <<disk, config, proc>> /\ Pass
         /\ Step # Reboot
<1> USE DEF Effect, PutStep, FetchStep, CloneStep, CopyStep, PackageStep, ConfigStep,
            DaemonStep, StopStep, CheckStep, InitStep
<1>1. ASSUME NEW a, NEW b, NEW v, Step = Put(a, b, v)
      PROVE  disk' = [disk EXCEPT ![<<a, b>>] = v] /\ UNCHANGED <<config, proc>> /\ Pass
  <2>1. Step.do = "put" /\ Step.at = {<<a, b>>} /\ Step.val = {v}
    BY <1>1 DEF Put, PutOneOf
  <2> QED  BY <2>1
<1>2. ASSUME NEW x, NEW y, Step = Copy(x, y)
      PROVE  disk' = [disk EXCEPT ![y] = disk[x]] /\ UNCHANGED <<config, proc>> /\ Pass
  <2>1. Step.do = "copy" /\ Step.at = {y} /\ Step.val = {x}
    BY <1>2 DEF Copy
  <2> QED  BY <2>1
<1>3. ASSUME NEW x, Step = Need(x)
      PROVE  Holds(x) /\ UNCHANGED <<disk, config, proc>> /\ Pass
  <2>1. Step.do = "need" /\ Step.at = {x}
    BY <1>3 DEF Need
  <2> QED  BY <2>1 DEF node
<1>4. ASSUME NEW x, Step = Pinned(x)
      PROVE  proc["driver"].build = x /\ UNCHANGED <<disk, config, proc>> /\ Pass
  <2>1. Step.do = "pinned" /\ Step.val = {x}
    BY <1>4 DEF Pinned
  <2> QED  BY <2>1 DEF node
<1>5. Step # Reboot
  BY DEF Reboot
<1> QED  BY <1>1, <1>2, <1>3, <1>4, <1>5

-----------------------------------------------------------------------------
(* The kernel                                                              *)

\* No driver was ever installed.
NoDriver == disk[<<"driver", "userland">>] = "none" /\ disk[<<"driver", "module">>] = "none"

\* The kernel that was asked for runs or will run, or is announced.
KernelDone ==
  \/ disk[<<"kernel", "pending">>] # "none"
  \/ /\ disk[<<"kernel", "image">>] = doc.kernel
     /\ power = "down" \/ proc["kernel"].build = doc.kernel

\* How far the script of the kernel has come.
KernelLines ==
  LET v == doc.kernel IN
  \/ Len(script) = 0 /\ KernelDone
  \/ Len(script) = 1 /\ script[1] = Put("kernel", "pending", "none") /\ proc["kernel"].build = v
  \/ /\ NoDriver
     /\ \/ /\ Len(script) = 3 /\ script[1] = Put("kernel", "image", v)
           /\ script[2] = Put("kernel", "pending", v) /\ script[3] = Reboot
        \/ /\ Len(script) = 2 /\ disk[<<"kernel", "image">>] = v
           /\ script[1] = Put("kernel", "pending", v) /\ script[2] = Reboot
        \/ Len(script) = 1 /\ script[1] = Reboot /\ disk[<<"kernel", "pending">>] = v

\* A kernel that runs is the one on the disk, and a node gets its driver after
\* its kernel.
KernelKnown ==
  doc.kernel # "none" =>
    /\ proc["kernel"].build = doc.kernel => disk[<<"kernel", "image">>] = doc.kernel
    /\ ~NoDriver => KernelDone

KernelInv ==
  /\ KernelKnown
  /\ At("kernel") => KernelLines
  /\ Passed("kernel") => KernelDone

\* What a step can do to the power.
LEMMA PowerSteps ==
  ASSUME [Next]_vars
  PROVE  power' = power \/ (power' = "leaving" /\ power = "up" /\ UserReboots) \/ (power' = "leaving" /\ RebootStep)
           \/ NodeGoesDown \/ NodeComesUp
  BY DEF Next, Run, vars, StartRun, RefuseRun, BeginScript, TemplateFails, ScriptStep, run,
         RebootStep, ScriptFails, ScriptEnds, Reconnect, Finish, CutOff, InitFails, GiveUp,
         UserReboots, DaemonDies, BranchMoves, Update, EndRun

\* The document's kernel does not change.
LEMMA SameKernel ==
  ASSUME BaseInv, [Next]_vars
  PROVE  doc'.kernel = doc.kernel
<1>1. CASE Update
  <2>1. doc \in Document /\ doc' \in Updated(doc)
    BY <1>1 DEF Update, BaseInv, Types
  <2>2. doc' \in Document /\ \E x : \/ doc' = [doc EXCEPT !.driver = x] \/ doc' = [doc EXCEPT !.runtime = x]
                   \/ doc' = [doc EXCEPT !.toolkit = x] \/ doc' = [doc EXCEPT !.kubernetes = x]
    BY <2>1, UpdatedDocuments
  <2> QED  BY <2>1, <2>2 DEF Document
<1>2. CASE ~Update
  <2>1. UNCHANGED doc
    BY <1>2 DEF Next, Run, vars, StartRun, RefuseRun, BeginScript, TemplateFails, ScriptStep, run,
         RebootStep, ScriptFails, ScriptEnds, Reconnect, Finish, CutOff, InitFails, GiveUp,
         NodeGoesDown, NodeComesUp, UserReboots, DaemonDies, BranchMoves, EndRun
  <2> QED  BY <2>1
<1> QED  BY <1>1, <1>2

\* Only the script of the kernel changes what is known of the kernel.
LEMMA KernelStays ==
  ASSUME BaseInv, BaseInv', [Next]_vars, ~(ScriptStep /\ At("kernel")), doc.kernel # "none"
  PROVE  /\ UNCHANGED disk[<<"kernel", "pending">>] /\ UNCHANGED disk[<<"kernel", "image">>]
         /\ KernelDone => KernelDone'
         /\ (proc["kernel"].build = doc.kernel => disk[<<"kernel", "image">>] = doc.kernel) =>
              (proc["kernel"].build = doc.kernel => disk[<<"kernel", "image">>] = doc.kernel)'
<1> USE DEF BaseInv
<1>0. doc'.kernel = doc.kernel
  BY SameKernel
<1>1. /\ <<"kernel", "pending">> \in Item /\ <<"kernel", "image">> \in Item /\ "kernel" \in Daemon
      /\ \A c \in Part \ {"kernel"} : /\ <<"kernel", "pending">> \notin ItemsOf(c)
                                       /\ <<"kernel", "image">> \notin ItemsOf(c)
      /\ \A c \in Part : "kernel" \notin DaemonsOf(c)
  <2>1. OwnRuntime \in Runtime
    BY DocumentShape DEF Types, OwnRuntime
  <2> QED  BY <2>1 DEF Item, Daemon, Part, ItemsOf, DaemonsOf, Runtime
<1>2. ASSUME NEW c \in Part \ {"kernel"}, Change(c)
      PROVE  /\ UNCHANGED <<disk[<<"kernel", "pending">>], disk[<<"kernel", "image">>], proc["kernel"]>>
  BY <1>1, <1>2 DEF Change
<1>3. CASE NodeGoesDown
  <2>1. UNCHANGED disk /\ power' = "down" /\ proc'["kernel"] = Off
    BY <1>1, <1>3 DEF NodeGoesDown
  <2> QED  BY <1>0, <2>1 DEF KernelDone, Off
<1>4. CASE NodeComesUp
  <2>1. /\ UNCHANGED disk /\ power' = "up" /\ power = "down"
        /\ proc'["kernel"] = IF Started("kernel").build = "none" THEN Off ELSE Started("kernel")
    BY <1>1, <1>4 DEF NodeComesUp, Booted
  <2>2. Started("kernel").build = disk[<<"kernel", "image">>]
    BY DEF Started, Runtime
  <2> QED  BY <1>0, <2>1, <2>2 DEF KernelDone, Off
<1>5. CASE ~NodeGoesDown /\ ~NodeComesUp
  <2>1. UNCHANGED <<disk[<<"kernel", "pending">>], disk[<<"kernel", "image">>], proc["kernel"]>>
    <3>1. CASE UNCHANGED node
      BY <3>1 DEF node
    <3>2. CASE DaemonDies
      BY <3>2, DaemonLost
    <3> QED  BY <1>2, <1>5, <3>1, <3>2, NodeSteps DEF Part
  <2>2. power' = "down" <=> power = "down"
    BY <1>5, PowerSteps DEF RebootStep, RunningScript
  <2> QED  BY <1>0, <2>1, <2>2 DEF KernelDone
<1> QED  BY <1>3, <1>4, <1>5

\* The lines of the kernel's script.
LEMMA KernelLine ==
  ASSUME BaseInv, BaseInv', ScriptStep, At("kernel"), KernelKnown, KernelLines, doc.kernel # "none"
  PROVE  KernelKnown' /\ KernelLines'
<1> DEFINE v == doc.kernel  pending == <<"kernel", "pending">>  image == <<"kernel", "image">>
<1>1. /\ RunningScript /\ Effect /\ UNCHANGED <<doc, power, phase>>
  BY DEF ScriptStep, run
<1>2. /\ Sequence(script) /\ Len(script) \in Nat \ {0} /\ Step = script[1]
      /\ Moves \/ Refetches
  BY <1>1, RunningLine, EffectMoves DEF BaseInv
<1>3. /\ pending \in Item /\ image \in Item /\ pending # image
      /\ <<"driver", "userland">> \in Item /\ <<"driver", "module">> \in Item /\ disk \in [Item -> Content]
  BY DEF Item, BaseInv, NodeTypes
<1>4. v # "none" /\ Put("kernel", "pending", v) # Reboot /\ Put("kernel", "pending", "none") # Reboot
  BY DEF Put, PutOneOf, Reboot
<1>5. ASSUME Pass
      PROVE  Len(script') = Len(script) - 1 /\ \A i \in 1..Len(script') : script'[i] = script[i + 1]
  BY <1>2, <1>5, PassMoves DEF Moves
<1>6. CASE Len(script) = 1 /\ script[1] = Put("kernel", "pending", "none") /\ proc["kernel"].build = v
  <2>1. disk' = [disk EXCEPT ![pending] = "none"] /\ UNCHANGED <<config, proc>> /\ Pass
    BY <1>1, <1>2, <1>6, KnownLines
  <2>2. disk'[image] = disk[image] /\ disk[image] = v /\ proc' = proc
    BY <1>3, <1>6, <2>1 DEF KernelKnown
  <2>3. Len(script') = 0 /\ KernelDone'
    BY <1>1, <1>5, <1>6, <2>1, <2>2 DEF KernelDone
  <2> QED  BY <1>1, <2>1, <2>2, <2>3 DEF KernelLines, KernelKnown
<1>7. CASE NoDriver /\ Len(script) = 3 /\ script[1] = Put("kernel", "image", v)
             /\ script[2] = Put("kernel", "pending", v) /\ script[3] = Reboot
  <2>1. disk' = [disk EXCEPT ![image] = v] /\ UNCHANGED <<config, proc>> /\ Pass
    BY <1>1, <1>2, <1>7, KnownLines
  <2>2. disk'[image] = v /\ NoDriver'
    BY <1>3, <1>7, <2>1 DEF NoDriver
  <2>3. Len(script') = 2 /\ script'[1] = script[2] /\ script'[2] = script[3]
    BY <1>5, <1>7, <2>1
  <2>4. KernelLines'
    BY <1>1, <1>7, <2>2, <2>3 DEF KernelLines
  <2> QED  BY <1>1, <2>2, <2>4 DEF KernelKnown
<1>8. CASE NoDriver /\ Len(script) = 2 /\ disk[image] = v
             /\ script[1] = Put("kernel", "pending", v) /\ script[2] = Reboot
  <2>1. disk' = [disk EXCEPT ![pending] = v] /\ UNCHANGED <<config, proc>> /\ Pass
    BY <1>1, <1>2, <1>8, KnownLines
  <2>2. disk'[image] = v /\ disk'[pending] = v /\ NoDriver'
    BY <1>3, <1>8, <2>1 DEF NoDriver
  <2>3. Len(script') = 1 /\ script'[1] = script[2]
    BY <1>5, <1>8, <2>1
  <2>4. KernelLines'
    BY <1>1, <1>8, <2>2, <2>3 DEF KernelLines
  <2> QED  BY <1>1, <2>2, <2>4 DEF KernelKnown
<1>9. CASE Len(script) = 1 /\ script[1] = Reboot
  BY <1>1, <1>2, <1>9, KnownLines
<1> QED  BY <1>2, <1>6, <1>7, <1>8, <1>9 DEF KernelLines

\* The script of the kernel as it is made.
LEMMA KernelBegins ==
  ASSUME BaseInv, BaseInv', BeginScript, Head(todo) = Install("kernel"), KernelKnown, doc.kernel # "none"
  PROVE  KernelLines'
<1> DEFINE v == doc.kernel
<1>1. /\ script' = KernelScript(v) /\ UNCHANGED <<disk, config, proc, doc, power>> /\ power # "down"
  BY DEF BeginScript, ScriptOf, Install, node
<1>2. CASE proc["kernel"].build = v
  <2>1. script' = << Put("kernel", "pending", "none") >>
    BY <1>1, <1>2 DEF KernelScript
  <2> QED  BY <1>1, <1>2, <2>1 DEF KernelLines
<1>3. CASE proc["kernel"].build # v /\ disk[<<"kernel", "pending">>] # "none"
  <2>1. Len(script') = 0
    BY <1>1, <1>3, Literals DEF KernelScript, KernelSkips
  <2> QED  BY <1>1, <1>3, <2>1 DEF KernelLines, KernelDone
<1>4. CASE proc["kernel"].build # v /\ disk[<<"kernel", "pending">>] = "none"
  <2>1. script' = << Put("kernel", "image", v), Put("kernel", "pending", v), Reboot >>
    BY <1>1, <1>4 DEF KernelScript, KernelSkips
  <2>2. NoDriver'
    BY <1>1, <1>4 DEF KernelKnown, KernelDone, NoDriver
  <2> QED  BY <1>1, <2>1, <2>2 DEF KernelLines
<1> QED  BY <1>2, <1>3, <1>4

LEMMA KernelStep ==
  ASSUME BaseInv, BaseInv', KernelInv, [Next]_vars
  PROVE  KernelInv'
<1> USE DEF BaseInv
<1>0. doc'.kernel = doc.kernel /\ "kernel" \in Part /\ "driver" \in Part
  BY SameKernel DEF Part
<1>e. Expected("kernel") => doc.kernel # "none"
  BY DEF Expected
<1>a. At("kernel") \/ Passed("kernel") => doc.kernel # "none"
  BY <1>0, <1>e, Order DEF Passed
<1>1. KernelKnown'
  <2> SUFFICES ASSUME doc.kernel # "none" PROVE KernelKnown'
    BY <1>0 DEF KernelKnown
  <2>1. CASE ScriptStep /\ At("kernel")
    BY <2>1, KernelLine DEF KernelInv
  <2>2. CASE ~(ScriptStep /\ At("kernel"))
    <3>1. (proc["kernel"].build = doc.kernel => disk[<<"kernel", "image">>] = doc.kernel)'
      BY <2>2, KernelStays DEF KernelInv, KernelKnown
    <3>2. CASE ~NoDriver
      BY <1>0, <2>2, <3>1, <3>2, KernelStays DEF KernelInv, KernelKnown
    <3>3. CASE NoDriver /\ ~NoDriver'
      <4>1. PICK i \in {<<"driver", "userland">>, <<"driver", "module">>} : disk'[i] # disk[i]
        BY <3>3 DEF NoDriver
      <4>2. i \in Item /\ i \notin ItemsOf("kubernetes")
        BY DEF Item, ItemsOf
      <4>3. PICK c \in Part : ScriptStep /\ At(c) /\ Change(c)
        BY <4>1, <4>2, NodeSteps DEF node, Change, NodeGoesDown, NodeComesUp, DaemonDies
      <4>4. OwnRuntime \in Runtime
        BY DocumentShape DEF Types, OwnRuntime
      <4>5. c = "driver"
        BY <4>1, <4>2, <4>3, <4>4 DEF Change, Part, ItemsOf, Runtime
      <4>6. Expected("driver") /\ ~Waits("kernel") /\ ~At("kernel")
        BY <1>0, <4>3, <4>5, Order, Ranks
      <4>7. Expected("kernel")
        BY <4>6 DEF Expected
      <4>8. Passed("kernel")
        BY <4>3, <4>6, <4>7 DEF Passed, Waits, At
      <4> QED  BY <1>0, <2>2, <3>1, <4>8, KernelStays DEF KernelInv, KernelKnown
    <3> QED  BY <1>0, <3>1, <3>2, <3>3 DEF KernelKnown
  <2> QED  BY <2>1, <2>2
<1>2. ASSUME ~(ScriptStep /\ At("kernel")), KernelDone, doc.kernel # "none" PROVE KernelDone'
  BY <1>2, KernelStays
<1>3. (At("kernel") => KernelLines)' /\ (Passed("kernel") => KernelDone)'
  <2>1. CASE phase' = "idle"
    BY <2>1 DEF At, Passed
  <2>2. CASE StartRun
    BY <1>0, <2>2, AtStart
  <2>3. CASE BeginScript
    <3>1. UNCHANGED <<node, doc, todo, power>> /\ phase = "next" /\ phase' = "script"
      BY <2>3 DEF BeginScript
    <3>2. Passed("kernel")' => Passed("kernel")
      BY <1>0, <3>1, SamePlace
    <3>3. At("kernel")' => Head(todo) = Install("kernel") /\ Expected("kernel")
      <4>1. At("kernel")' => Head(todo) = Install("kernel")
        BY <3>1 DEF At
      <4>2. Head(todo) = todo[1] /\ 1 \in 1..Len(todo)
        BY <2>3, EmptySeq, LenProperties DEF BeginScript, TodoInv, Within
      <4> QED  BY <1>0, <4>1, <4>2 DEF TodoInv, Has, In
    <3>4. At("kernel")' => KernelLines'
      BY <1>e, <2>3, <3>3, KernelBegins DEF KernelInv
    <3>5. KernelDone => KernelDone'
      BY <3>1 DEF KernelDone, node
    <3> QED  BY <3>2, <3>4, <3>5 DEF KernelInv
  <2>4. CASE ScriptStep
    <3>1. UNCHANGED <<doc, todo, power, phase>> /\ phase = "script"
      BY <2>4 DEF ScriptStep, run, RunningScript
    <3>2. (Passed("kernel")' => Passed("kernel")) /\ (At("kernel")' => At("kernel"))
      BY <1>0, <3>1, SamePlace
    <3>3. At("kernel") => KernelLines'
      BY <1>a, <2>4, KernelLine DEF KernelInv
    <3>4. Passed("kernel") => KernelDone'
      <4>1. Passed("kernel") => ~At("kernel")
        BY <1>0, Order
      <4> QED  BY <1>2, <1>a, <4>1 DEF KernelInv
    <3> QED  BY <3>2, <3>3, <3>4
  <2>5. CASE RebootStep
    <3>1. /\ UNCHANGED <<node, doc, todo, phase>> /\ phase = "script" /\ RunningScript /\ Pass
          /\ power' = "leaving" /\ power # "down" /\ Step.do = "reboot"
      BY <2>5 DEF RebootStep, RunningScript
    <3>2. (Passed("kernel")' => Passed("kernel")) /\ (At("kernel")' => At("kernel"))
      BY <1>0, <3>1, SamePlace
    <3>3. KernelDone => KernelDone'
      BY <3>1 DEF KernelDone, node
    <3>4. ASSUME At("kernel") PROVE KernelLines'
      <4>1. Sequence(script) /\ Len(script) \in Nat \ {0} /\ Step = script[1]
        BY <3>1, RunningLine
      <4>2. Len(script') = Len(script) - 1
        BY <3>1, <4>1, PassMoves DEF Moves
      <4>3. Len(script) = 1 /\ disk[<<"kernel", "pending">>] = doc.kernel
        BY <3>1, <3>4, <4>1 DEF KernelInv, KernelLines, Put, PutOneOf
      <4>4. KernelDone'
        BY <1>a, <3>1, <3>4, <4>3 DEF KernelDone, node
      <4> QED  BY <4>2, <4>3, <4>4 DEF KernelLines
    <3> QED  BY <3>2, <3>3, <3>4 DEF KernelInv
  <2>6. CASE ScriptEnds
    <3>1. (Passed("kernel")' => Passed("kernel") \/ At("kernel")) /\ ~At("kernel")' /\ Len(script) = 0
      BY <1>0, <2>6, AtEnd
    <3>2. At("kernel") => KernelDone
      BY <3>1 DEF KernelInv, KernelLines
    <3>3. KernelDone => KernelDone'
      BY <2>6 DEF ScriptEnds, KernelDone, node
    <3> QED  BY <3>1, <3>2, <3>3 DEF KernelInv
  <2>7. CASE /\ phase # "idle" /\ UNCHANGED <<todo, doc, script, fresh>>
             /\ phase' = phase \/ (phase = "reboot" /\ phase' = "next")
             /\ \/ UNCHANGED <<node, power>>
                \/ NodeGoesDown /\ phase # "script"
                \/ (NodeComesUp /\ phase # "script") \/ DaemonDies
    <3>1. (Passed("kernel")' => Passed("kernel")) /\ (At("kernel")' => At("kernel") /\ UNCHANGED phase)
      <4>1. phase' # "idle"
        BY <2>7
      <4>2. At("kernel")' => UNCHANGED phase
        BY <2>7 DEF At
      <4> QED  BY <1>0, <2>7, <4>1, <4>2, SamePlace
    <3>2. CASE ~ScriptStep
      <4>1. Passed("kernel") => KernelDone'
        BY <1>2, <1>a, <3>2 DEF KernelInv
      <4>2. At("kernel") => KernelLines'
        <5> SUFFICES ASSUME At("kernel") PROVE KernelLines'
          OBVIOUS
        <5>1. doc.kernel # "none" /\ KernelLines
          BY <1>a DEF KernelInv
        <5>2. phase = "script" /\ (UNCHANGED node \/ DaemonDies)
          BY <2>7 DEF At, node
        <5>3. /\ UNCHANGED <<disk, proc["kernel"]>>
          BY <5>2, DaemonLost DEF node
        <5>4. KernelDone => KernelDone'
          BY <1>2, <3>2, <5>1
        <5> QED  BY <2>7, <5>1, <5>3, <5>4 DEF KernelLines, NoDriver
      <4> QED  BY <3>1, <4>1, <4>2
    <3> QED  BY <2>4, <3>2
  <2> QED  BY <2>1, <2>2, <2>3, <2>4, <2>5, <2>6, <2>7, ControlSteps
<1> QED  BY <1>1, <1>3 DEF KernelInv

\* The kernel's script in all its stages: what its remaining lines are, and what
\* the image, the marker and the running kernel are with them.
THEOREM Kernel == Spec => []KernelInv
<1>1. Init => KernelInv
  BY DEF Init, NodeInit, Item, Daemon, KernelInv, KernelKnown, NoDriver, At, Passed
<1>2. BaseInv /\ BaseInv' /\ KernelInv /\ [Next]_vars => KernelInv'
  BY KernelStep
<1> QED  BY <1>1, <1>2, Based, PTL DEF Spec

\* A run that is about to report success leaves the kernel that was asked for
\* running, or the marker of a kernel that waits for its reboot: whatever was
\* cut off, and whenever the node goes down and comes back.
THEOREM KernelIsPromised == Spec => []KernelPromise
<1>1. BaseInv /\ KernelInv => KernelPromise
  <2> SUFFICES ASSUME BaseInv, KernelInv, phase = "next", todo = << >>, Full, doc.kernel # "none",
                      ~disturbed
               PROVE  proc["kernel"].build = doc.kernel \/ disk[<<"kernel", "pending">>] # "none"
    BY DEF KernelPromise
  <2>1. Len(todo) = 0
    BY EmptySeq
  <2>2. Passed("kernel")
    BY <2>1 DEF Passed, Has, In, Expected
  <2>3. power # "down"
    BY DEF BaseInv, PowerInv
  <2> QED  BY <2>2, <2>3 DEF KernelInv, KernelDone
<1> QED  BY <1>1, Based, Kernel, PTL

-----------------------------------------------------------------------------
(* The driver                                                              *)

\* What the driver survives a reboot with; what it works with.
DriverBoots ==
  /\ disk[<<"driver", "userland">>] # "none" /\ disk[<<"driver", "module">>] # "none"
  /\ disk[<<"driver", "module">>] \in {disk[<<"driver", "userland">>]} \cup Commit
  /\ doc.driver[1] = "package" => disk[<<"driver", "module">>] = doc.driver[2]

DriverRuns ==
  DriverWorks /\ (doc.driver[1] = "package" => proc["driver"].build = doc.driver[2])

\* While the node is about to reboot, the driver must also survive that.
DriverDone ==
  GPU => (power # "down" => DriverRuns) /\ (power # "up" => DriverBoots)

\* Packages are not built from commits.
NoCommits ==
  doc.driver[1] \in {"none", "package"} =>
    /\ disk[<<"driver", "userland">>] \notin Commit /\ disk[<<"driver", "module">>] \notin Commit
    /\ proc["driver"].build \notin Commit

\* s is what remains of p.
Remains(s, p) ==
  Len(s) <= Len(p) /\ \A i \in 1..Len(s) : s[i] = p[i + (Len(p) - Len(s))]

DriverProgram ==
  LET v == doc.driver[2] IN
  CASE doc.driver[1] = "package" -> DriverPackages(v) \o DriverModule(v)
    [] doc.driver[1] = "runfile" -> DriverRunfile(v)
    [] doc.driver[1] = "git" -> DriverGit(v)

\* What is on the disk when n lines remain.
DriverOnDisk(n) ==
  LET v == doc.driver[2]
      userland == disk[<<"driver", "userland">>]
      module == disk[<<"driver", "module">>]
  IN CASE doc.driver[1] = "package" -> (n <= 5 => userland # "none") /\ (n <= 4 => module = userland)
       [] doc.driver[1] = "runfile" -> (n <= 4 => userland = v) /\ (n <= 3 => module = v)
       [] doc.driver[1] = "git" -> n <= 3 => module = v

DriverLines ==
  IF Len(script) = 0 THEN ~disturbed => DriverDone
  ELSE /\ GPU /\ Remains(script, DriverProgram) /\ DriverOnDisk(Len(script))
       /\ doc.driver[1] = "package" /\ Len(script) <= 2 => DriverWorks
       /\ Len(script) <= 1 => DriverRuns /\ DriverBoots

Undisturbed == phase # "idle" /\ ~disturbed

\* A node that reboots under an undisturbed run does so for its kernel, before
\* it has a driver.
DriverInv ==
  /\ NoCommits
  /\ At("driver") => DriverLines
  /\ Undisturbed /\ Passed("driver") => DriverDone
  /\ Undisturbed /\ power # "up" /\ Waits("driver") => NoDriver

LEMMA RemainsMoves ==
  ASSUME NEW p, Sequence(p), Sequence(script), Len(script) # 0, Remains(script, p), Moves
  PROVE  Remains(script', p) /\ script[1] = p[1 + (Len(p) - Len(script))]
<1>1. Len(script) \in Nat \ {0} /\ Len(p) \in Nat /\ Len(script') = Len(script) - 1
  BY SequenceFacts DEF Moves
<1>2. ASSUME NEW i \in 1..Len(script') PROVE script'[i] = p[i + (Len(p) - Len(script'))]
  <2>1. script'[i] = script[i + 1] /\ i + 1 \in 1..Len(script)
    BY <1>1 DEF Moves
  <2>2. script[i + 1] = p[(i + 1) + (Len(p) - Len(script))]
    BY <2>1 DEF Remains
  <2>3. (i + 1) + (Len(p) - Len(script)) = i + (Len(p) - Len(script'))
    BY <1>1
  <2> QED  BY <2>1, <2>2, <2>3
<1> QED  BY <1>1, <1>2 DEF Remains

LEMMA DriverPrograms ==
  ASSUME doc \in Document
  PROVE  LET v == doc.driver[2]  p == DriverProgram IN
         /\ doc.driver[1] = "package" =>
              /\ Sequence(p) /\ Len(p) = 6 /\ v \in Version
              /\ p[1] = PutOneOf({<<"driver", "userland">>}, {v, Newest})
              /\ p[2] = Copy(<<"driver", "userland">>, <<"driver", "module">>)
              /\ p[3] = Start("driver") /\ p[4] = Need("driver") /\ p[5] = Pinned(v)
              /\ p[6] = Put("driver", "provenance", "package")
         /\ doc.driver[1] = "runfile" =>
              /\ Sequence(p) /\ Len(p) = 5 /\ v \in Version
              /\ p[1] = Put("driver", "userland", v) /\ p[2] = Put("driver", "module", v)
              /\ p[3] = Start("driver") /\ p[4] = Need("driver")
              /\ p[5] = Put("driver", "provenance", v)
         /\ doc.driver[1] = "git" =>
              /\ Sequence(p) /\ Len(p) = 4 /\ v \in Commit
              /\ p[1] = Put("driver", "module", v)
              /\ p[2] = Start("driver") /\ p[3] = Need("driver")
              /\ p[4] = Put("driver", "provenance", v)
<1> DEFINE v == doc.driver[2]  p == DriverProgram
<1>1. CASE doc.driver[1] = "package"
  <2>0. p = DriverPackages(v) \o DriverModule(v)
    BY <1>1 DEF DriverProgram
  <2> DEFINE s == DriverPackages(v)  t == DriverModule(v)
  <2>1. Sequence(s) /\ Len(s) = 1 /\ s[1] = PutOneOf({<<"driver", "userland">>}, {v, Newest})
    BY Literals DEF DriverPackages
  <2>2. /\ Sequence(t) /\ Len(t) = 5
        /\ t[1] = Copy(<<"driver", "userland">>, <<"driver", "module">>)
        /\ t[2] = Start("driver") /\ t[3] = Need("driver") /\ t[4] = Pinned(v)
        /\ t[5] = Put("driver", "provenance", "package")
    BY Literals DEF DriverModule
  <2> HIDE DEF s, t
  <2> DEFINE u == s \o t
  <2>3. /\ Sequence(u) /\ Len(u) = Len(s) + Len(t)
        /\ \A i \in 1..Len(s) : u[i] = s[i]
        /\ \A i \in 1..Len(t) : u[Len(s) + i] = t[i]
    <3>1. Sequence(s) /\ Sequence(t)
      BY <2>1, <2>2
    <3> QED  BY <3>1, Joined
  <2> HIDE DEF u
  <2>4. /\ Len(u) = 6 /\ u[1] = s[1] /\ u[2] = t[1] /\ u[3] = t[2] /\ u[4] = t[3]
        /\ u[5] = t[4] /\ u[6] = t[5]
    <3>1. Len(s) + 1 = 2 /\ Len(s) + 2 = 3 /\ Len(s) + 3 = 4 /\ Len(s) + 4 = 5 /\ Len(s) + 5 = 6
      BY <2>1
    <3>2. \A i \in 1..5 : u[Len(s) + i] = t[i]
      BY <2>2, <2>3
    <3>3. u[Len(s) + 1] = t[1] /\ u[Len(s) + 2] = t[2] /\ u[Len(s) + 3] = t[3]
          /\ u[Len(s) + 4] = t[4] /\ u[Len(s) + 5] = t[5]
      BY <3>2
    <3> QED  BY <2>1, <2>2, <2>3, <3>1, <3>3
  <2>5. p = u
    BY <2>0 DEF s, t, u
  <2> HIDE DEF p
  <2> QED  BY <1>1, <2>1, <2>2, <2>3, <2>4, <2>5, DocumentShape DEF p
<1>2. CASE doc.driver[1] = "runfile"
  BY <1>2, Literals, DocumentShape DEF DriverProgram, DriverRunfile
<1>3. CASE doc.driver[1] = "git"
  BY <1>3, Literals, DocumentShape DEF DriverProgram, DriverGit
<1> QED  BY <1>1, <1>2, <1>3

\* The effects of the lines of a driver's script.
LEMMA DriverEffects ==
  ASSUME BaseInv, RunningScript, Effect, UNCHANGED branch, At("driver")
  PROVE  LET userland == <<"driver", "userland">>  module == <<"driver", "module">> IN
         /\ Moves
         /\ \A a, b : Step = PutOneOf({userland}, {a, b}) =>
              UNCHANGED <<disk[module], proc["driver"]>> /\ disk'[userland] \in {a, b}
         /\ \A v : Step = Put("driver", "userland", v) =>
              UNCHANGED <<disk[module], proc["driver"]>> /\ disk'[userland] = v
         /\ \A v : Step = Put("driver", "module", v) =>
              UNCHANGED <<disk[userland], proc["driver"]>> /\ disk'[module] = v
         /\ Step = Copy(userland, module) =>
              UNCHANGED <<disk[userland], proc["driver"]>> /\ disk'[module] = disk[userland]
         /\ \A v : Step = Put("driver", "provenance", v) =>
              UNCHANGED <<disk[userland], disk[module], proc["driver"]>>
         /\ Step = Start("driver") =>
              /\ UNCHANGED <<disk[userland], disk[module]>>
              /\ proc'["driver"] = proc["driver"] \/ proc'["driver"].build = disk[module]
         /\ Step = Need("driver") =>
              UNCHANGED <<disk[userland], disk[module], proc["driver"]>> /\ DriverWorks
         /\ \A v : Step = Pinned(v) =>
              UNCHANGED <<disk[userland], disk[module], proc["driver"]>> /\ proc["driver"].build = v
<1> DEFINE userland == <<"driver", "userland">>  module == <<"driver", "module">>
           provenance == <<"driver", "provenance">>
<1>0. /\ disk \in [Item -> Content] /\ userland \in Item /\ module \in Item /\ provenance \in Item
      /\ "driver" \in Daemon /\ "driver" \in Part /\ userland # module
      /\ userland # provenance /\ module # provenance
  BY DEF BaseInv, NodeTypes, Item, Daemon, Part
<1>1. Moves
  <2>1. StepOf("driver", Step)
    <3>1. Step = script[1] /\ 1 \in 1..Len(script)
      BY RunningLine DEF BaseInv
    <3> QED  BY <1>0, <3>1 DEF BaseInv, ScriptInv
  <2>2. Step.do # "fetch"
    BY <2>1 DEF StepOf, Downloads, ItemsOf, Item
  <2> QED  BY <2>2, EffectMoves DEF BaseInv, Refetches
<1>2. ASSUME NEW a, NEW b, Step = PutOneOf({userland}, {a, b})
      PROVE  UNCHANGED <<disk[module], proc["driver"]>> /\ disk'[userland] \in {a, b}
  <2>1. Step.do = "put" /\ Step.at = {userland} /\ Step.val = {a, b}
    BY <1>2 DEF PutOneOf
  <2>2. PutStep
    BY <2>1 DEF Effect, FetchStep, CloneStep, CopyStep, PackageStep, ConfigStep, DaemonStep,
                StopStep, CheckStep, InitStep
  <2>3. PICK v \in {a, b} : disk' = [disk EXCEPT ![userland] = v]
    BY <2>1, <2>2 DEF PutStep
  <2>4. UNCHANGED proc
    BY <2>2 DEF PutStep
  <2> QED  BY <1>0, <2>3, <2>4
<1>3. ASSUME NEW p, NEW v, Step = Put("driver", p, v)
      PROVE  disk' = [disk EXCEPT ![<<"driver", p>>] = v] /\ UNCHANGED proc
  BY <1>3, KnownLines
<1>4. Step = Copy(userland, module) =>
        disk' = [disk EXCEPT ![module] = disk[userland]] /\ UNCHANGED proc
  BY KnownLines
<1>5. ASSUME Step = Start("driver")
      PROVE  /\ UNCHANGED <<disk[userland], disk[module]>>
             /\ proc'["driver"] = proc["driver"] \/ proc'["driver"].build = disk[module]
  <2>1. Step.do = "start"
    BY <1>5 DEF Start
  <2>2. UNCHANGED disk
    BY <2>1 DEF Effect, PutStep, FetchStep, CloneStep, CopyStep, PackageStep, ConfigStep, DaemonStep,
                StopStep, CheckStep, InitStep
  <2>3. Change("driver")
    BY <1>0, EffectChange DEF BaseInv
  <2>4. proc'["driver"] = proc["driver"] \/ StartedNow("driver")
    BY <1>0, <2>3 DEF Change
  <2>5. Started("driver")'.build = disk'[module]
    BY DEF Started, Runtime
  <2> QED  BY <2>2, <2>4, <2>5 DEF StartedNow
<1>6. Step = Need("driver") => UNCHANGED <<disk, proc>> /\ DriverWorks
  BY KnownLines DEF Holds
<1>7. ASSUME NEW v, Step = Pinned(v) PROVE UNCHANGED <<disk, proc>> /\ proc["driver"].build = v
  BY <1>7, KnownLines
<1>8. /\ \A v : Step = Put("driver", "userland", v) =>
              UNCHANGED <<disk[module], proc["driver"]>> /\ disk'[userland] = v
      /\ \A v : Step = Put("driver", "module", v) =>
              UNCHANGED <<disk[userland], proc["driver"]>> /\ disk'[module] = v
      /\ \A v : Step = Put("driver", "provenance", v) =>
              UNCHANGED <<disk[userland], disk[module], proc["driver"]>>
  BY <1>0, <1>3
<1>9. Step = Copy(userland, module) =>
        UNCHANGED <<disk[userland], proc["driver"]>> /\ disk'[module] = disk[userland]
  BY <1>0, <1>4
<1> QED  BY <1>1, <1>2, <1>5, <1>6, <1>7, <1>8, <1>9

LEMMA DriverLine ==
  ASSUME BaseInv, BaseInv', ScriptStep, At("driver"), NoCommits, DriverLines
  PROVE  NoCommits' /\ DriverLines'
<1> DEFINE v == doc.driver[2]  userland == <<"driver", "userland">>  module == <<"driver", "module">>
           p == DriverProgram  n == Len(script)
<1>1. /\ RunningScript /\ Effect /\ UNCHANGED <<branch, doc, power, phase, disturbed>>
      /\ doc \in Document
  BY DEF ScriptStep, run, BaseInv, Types
<1>2. /\ Sequence(script) /\ n \in Nat \ {0} /\ Step = script[1] /\ Moves
      /\ Len(script') = n - 1
  BY <1>1, RunningLine, DriverEffects DEF BaseInv, Moves
<1>3. /\ GPU /\ Remains(script, p) /\ DriverOnDisk(n)
      /\ doc.driver[1] = "package" /\ n <= 2 => DriverWorks
      /\ n <= 1 => DriverRuns /\ DriverBoots
  BY <1>2 DEF DriverLines
<1>4. Asked(doc.driver) /\ doc.driver[1] \in {"package", "runfile", "git"}
  <2>1. Expected("driver") /\ "driver" \in Part
    BY Order DEF Part, BaseInv
  <2> QED  BY <1>1, <2>1, DocumentShape DEF Expected, Asked
<1>5. p' = p
  BY <1>1 DEF DriverProgram, DriverPackages, DriverModule, DriverRunfile, DriverGit
<1>6. Sequence(p) /\ Len(p) \in Nat
  BY <1>1, <1>4, DriverPrograms
<1>7. Remains(script', p) /\ Step = p[1 + (Len(p) - n)] /\ n <= Len(p)
  BY <1>2, <1>3, <1>6, RemainsMoves DEF Remains
<1>e. /\ \A a, b : Step = PutOneOf({userland}, {a, b}) =>
              UNCHANGED <<disk[module], proc["driver"]>> /\ disk'[userland] \in {a, b}
      /\ \A x : Step = Put("driver", "userland", x) =>
              UNCHANGED <<disk[module], proc["driver"]>> /\ disk'[userland] = x
      /\ \A x : Step = Put("driver", "module", x) =>
              UNCHANGED <<disk[userland], proc["driver"]>> /\ disk'[module] = x
      /\ Step = Copy(userland, module) =>
              UNCHANGED <<disk[userland], proc["driver"]>> /\ disk'[module] = disk[userland]
      /\ \A x : Step = Put("driver", "provenance", x) =>
              UNCHANGED <<disk[userland], disk[module], proc["driver"]>>
      /\ Step = Start("driver") =>
              /\ UNCHANGED <<disk[userland], disk[module]>>
              /\ proc'["driver"] = proc["driver"] \/ proc'["driver"].build = disk[module]
      /\ Step = Need("driver") =>
              UNCHANGED <<disk[userland], disk[module], proc["driver"]>> /\ DriverWorks
      /\ \A x : Step = Pinned(x) =>
              UNCHANGED <<disk[userland], disk[module], proc["driver"]>> /\ proc["driver"].build = x
  BY <1>1, DriverEffects
<1>b. "none" \notin Version /\ "none" \notin Commit /\ Version \cap Commit = {} /\ Newest \in Version
  BY BuildAssumption
<1> DEFINE same == UNCHANGED <<disk[userland], disk[module], proc["driver"]>>
<1>8. same => (DriverWorks' <=> DriverWorks) /\ (DriverRuns' <=> DriverRuns) /\ (DriverBoots' <=> DriverBoots)
  BY <1>1 DEF DriverWorks, DriverRuns, DriverBoots, Up, Off
<1>9. (n = 1 \/ (DriverRuns' /\ DriverBoots')) /\ n > 1 =>
        (Len(script') <= 1 => DriverRuns' /\ DriverBoots')
  BY <1>2
<1>10. CASE n = 1
  <2>1. same
    BY <1>1, <1>4, <1>7, <1>e, <1>10, DriverPrograms
  <2>2. DriverLines'
    BY <1>1, <1>2, <1>3, <1>8, <1>10, <2>1 DEF DriverLines, DriverDone
  <2> QED  BY <1>1, <2>1, <2>2 DEF NoCommits
<1>11. CASE n > 1 /\ doc.driver[1] = "package"
  <2>a. /\ Len(p) = 6 /\ v \in Version
        /\ p[1] = PutOneOf({userland}, {v, Newest}) /\ p[2] = Copy(userland, module)
        /\ p[3] = Start("driver") /\ p[4] = Need("driver") /\ p[5] = Pinned(v)
    BY <1>1, <1>11, DriverPrograms
  <2> HIDE DEF p
  <2>1. /\ Len(p) = 6 /\ v \in Version /\ n \in 2..6
        /\ p[1] = PutOneOf({userland}, {v, Newest}) /\ p[2] = Copy(userland, module)
        /\ p[3] = Start("driver") /\ p[4] = Need("driver") /\ p[5] = Pinned(v)
    BY <1>2, <1>7, <1>11, <2>a
  <2>2. /\ n <= 5 => disk[userland] # "none"
        /\ n <= 4 => disk[module] = disk[userland]
        /\ disk[userland] \notin Commit /\ disk[module] \notin Commit /\ proc["driver"].build \notin Commit
    BY <1>3, <1>11 DEF DriverOnDisk, NoCommits
  <2> SUFFICES /\ disk'[userland] \notin Commit /\ disk'[module] \notin Commit
               /\ proc'["driver"].build \notin Commit
               /\ n - 1 <= 5 => disk'[userland] # "none"
               /\ n - 1 <= 4 => disk'[module] = disk'[userland]
               /\ n - 1 <= 2 => DriverWorks'
               /\ n - 1 <= 1 => DriverRuns' /\ DriverBoots'
    <3>1. ASSUME n - 1 <= 5 => disk'[userland] # "none", n - 1 <= 4 => disk'[module] = disk'[userland]
          PROVE  DriverOnDisk(Len(script))'
      BY <1>1, <1>2, <1>11, <3>1 DEF DriverOnDisk
    <3>2. NoCommits'
      BY DEF NoCommits
    <3>3. Remains(script, DriverProgram)'
      BY <1>5, <1>7 DEF p
    <3>4. n - 1 <= 2 => DriverWorks'
      OBVIOUS
    <3>5. n - 1 <= 1 => DriverRuns' /\ DriverBoots'
      OBVIOUS
    <3>6. DriverOnDisk(Len(script))'
      BY <3>1
    <3> HIDE DEF n
    <3>7. Len(script') = n - 1 /\ n - 1 # 0
      BY <1>2, <1>11 DEF n
    <3> QED  BY <1>1, <1>3, <3>2, <3>3, <3>4, <3>5, <3>6, <3>7 DEF DriverLines
  <2>3. CASE n = 6
    <3>1. UNCHANGED <<disk[module], proc["driver"]>> /\ disk'[userland] \in {v, Newest}
      <4>1. Step = PutOneOf({userland}, {v, Newest})
        BY <1>7, <2>1, <2>3
      <4> QED  BY <1>e, <4>1
    <3> QED  BY <1>b, <2>1, <2>2, <2>3, <3>1
  <2>4. CASE n = 5
    <3>1. UNCHANGED <<disk[userland], proc["driver"]>> /\ disk'[module] = disk[userland]
      BY <1>7, <1>e, <2>1, <2>4
    <3> QED  BY <2>2, <2>4, <3>1
  <2>5. CASE n = 4
    <3>1. /\ UNCHANGED <<disk[userland], disk[module]>>
          /\ proc'["driver"] = proc["driver"] \/ proc'["driver"].build = disk[module]
      BY <1>7, <1>e, <2>1, <2>5
    <3> QED  BY <2>2, <2>5, <3>1
  <2>6. CASE n = 3
    <3>1. same /\ DriverWorks
      BY <1>7, <1>e, <2>1, <2>6
    <3> QED  BY <1>8, <2>2, <2>6, <3>1
  <2>7. CASE n = 2
    <3>1. same /\ proc["driver"].build = v /\ DriverWorks
      BY <1>3, <1>7, <1>e, <1>11, <2>1, <2>7
    <3>2. disk[userland] = v
      BY <1>b, <2>1, <3>1 DEF DriverWorks
    <3>3. DriverRuns /\ DriverBoots
      BY <2>2, <2>7, <3>1, <3>2 DEF DriverRuns, DriverBoots
    <3> QED  BY <1>8, <2>2, <2>7, <3>1, <3>3
  <2> QED  BY <2>1, <2>3, <2>4, <2>5, <2>6, <2>7
<1>12. CASE n > 1 /\ doc.driver[1] = "runfile"
  <2>a. /\ Len(p) = 5 /\ v \in Version
        /\ p[1] = Put("driver", "userland", v) /\ p[2] = Put("driver", "module", v)
        /\ p[3] = Start("driver") /\ p[4] = Need("driver")
    BY <1>1, <1>12, DriverPrograms
  <2> HIDE DEF p
  <2>1. /\ Len(p) = 5 /\ v \in Version /\ n \in 2..5
        /\ p[1] = Put("driver", "userland", v) /\ p[2] = Put("driver", "module", v)
        /\ p[3] = Start("driver") /\ p[4] = Need("driver")
    BY <1>2, <1>7, <1>12, <2>a
  <2>2. (n <= 4 => disk[userland] = v) /\ (n <= 3 => disk[module] = v)
    BY <1>3, <1>12 DEF DriverOnDisk
  <2> SUFFICES /\ n - 1 <= 4 => disk'[userland] = v
               /\ n - 1 <= 3 => disk'[module] = v
               /\ n - 1 <= 1 => DriverRuns' /\ DriverBoots'
    <3>1. ASSUME n - 1 <= 4 => disk'[userland] = v, n - 1 <= 3 => disk'[module] = v PROVE DriverOnDisk(Len(script))'
      BY <1>1, <1>2, <1>12, <3>1 DEF DriverOnDisk
    <3>2. DriverOnDisk(Len(script))'
      BY <3>1
    <3>3. /\ Remains(script, DriverProgram)'
          /\ NoCommits'
      <4>1. Remains(script', p) /\ p' = p
        BY <1>5, <1>7
      <4>2. NoCommits'
        BY <1>1, <1>12 DEF NoCommits
      <4> QED  BY <4>1, <4>2 DEF p
    <3> HIDE DEF n
    <3>4. Len(script') = n - 1 /\ n - 1 # 0
      BY <1>2, <1>12 DEF n
    <3> QED  BY <1>1, <1>3, <1>12, <3>2, <3>3, <3>4 DEF DriverLines
  <2>3. CASE n = 5
    BY <1>7, <1>e, <2>1, <2>3
  <2>4. CASE n = 4
    BY <1>7, <1>e, <2>1, <2>2, <2>4
  <2>5. CASE n = 3
    BY <1>7, <1>e, <2>1, <2>2, <2>5
  <2>6. CASE n = 2
    <3>1. same /\ DriverWorks
      BY <1>7, <1>e, <2>1, <2>6
    <3>2. DriverRuns /\ DriverBoots
      BY <1>b, <1>12, <2>1, <2>2, <2>6, <3>1 DEF DriverRuns, DriverBoots
    <3> QED  BY <1>8, <2>2, <2>6, <3>1, <3>2
  <2> QED  BY <2>1, <2>3, <2>4, <2>5, <2>6
<1>13. CASE n > 1 /\ doc.driver[1] = "git"
  <2>a. /\ Len(p) = 4 /\ v \in Commit
        /\ p[1] = Put("driver", "module", v) /\ p[2] = Start("driver") /\ p[3] = Need("driver")
    BY <1>1, <1>13, DriverPrograms
  <2> HIDE DEF p
  <2>1. /\ Len(p) = 4 /\ v \in Commit /\ n \in 2..4
        /\ p[1] = Put("driver", "module", v) /\ p[2] = Start("driver") /\ p[3] = Need("driver")
    BY <1>2, <1>7, <1>13, <2>a
  <2>2. n <= 3 => disk[module] = v
    BY <1>3, <1>13 DEF DriverOnDisk
  <2> SUFFICES /\ n - 1 <= 3 => disk'[module] = v
               /\ n - 1 <= 1 => DriverRuns' /\ DriverBoots'
    <3>1. ASSUME n - 1 <= 3 => disk'[module] = v PROVE DriverOnDisk(Len(script))'
      BY <1>1, <1>2, <1>13, <3>1 DEF DriverOnDisk
    <3>2. DriverOnDisk(Len(script))'
      BY <3>1
    <3>3. /\ Remains(script, DriverProgram)'
          /\ NoCommits'
      <4>1. Remains(script', p) /\ p' = p
        BY <1>5, <1>7
      <4>2. NoCommits'
        BY <1>1, <1>13 DEF NoCommits
      <4> QED  BY <4>1, <4>2 DEF p
    <3> HIDE DEF n
    <3>4. Len(script') = n - 1 /\ n - 1 # 0
      BY <1>2, <1>13 DEF n
    <3> QED  BY <1>1, <1>3, <1>13, <3>2, <3>3, <3>4 DEF DriverLines
  <2>3. CASE n = 4
    BY <1>7, <1>e, <2>1, <2>3
  <2>4. CASE n = 3
    BY <1>7, <1>e, <2>1, <2>2, <2>4
  <2>5. CASE n = 2
    <3>1. same /\ DriverWorks
      BY <1>7, <1>e, <2>1, <2>5
    <3>2. DriverRuns /\ DriverBoots
      BY <1>b, <1>13, <2>1, <2>2, <2>5, <3>1 DEF DriverRuns, DriverBoots, DriverWorks
    <3> QED  BY <1>8, <2>2, <2>5, <3>1, <3>2
  <2> QED  BY <2>1, <2>3, <2>4, <2>5
<1> QED  BY <1>2, <1>4, <1>10, <1>11, <1>12, <1>13

\* The script of a driver as it is made: with nothing to do, if the driver works.
LEMMA DriverBegins ==
  ASSUME BaseInv, BeginScript, Head(todo) = Install("driver"), Expected("driver"), NoCommits,
         Undisturbed /\ power # "up" => NoDriver
  PROVE  DriverLines'
<1> DEFINE v == doc.driver[2]  p == DriverProgram
<1>1. /\ script' = DriverScript(doc.driver[1], v)
      /\ UNCHANGED <<disk, config, proc, doc, power, disturbed>> /\ power # "down" /\ phase = "next"
      /\ doc \in Document
  BY DEF BeginScript, ScriptOf, Install, node, BaseInv, Types
<1>2. doc.driver[1] \in {"package", "runfile", "git"}
  BY <1>1, DocumentShape DEF Expected, Asked
<1>3. ASSUME ~GPU \/ (DriverWorks /\ (doc.driver[1] = "package" => disk[<<"driver", "userland">>] = v)),
             script' = << >>
      PROVE  DriverLines'
  <2>1. Len(script') = 0
    BY <1>3, Literals
  <2> SUFFICES ASSUME GPU, ~disturbed PROVE DriverDone'
    BY <1>1, <2>1 DEF DriverLines, DriverDone
  <2>2. power = "up"
    BY <1>1, <1>3 DEF Undisturbed, NoDriver, DriverWorks, BaseInv, Types
  <2>3. DriverRuns
    <3>1. DriverWorks
      BY <1>3
    <3>2. ASSUME doc.driver[1] = "package" PROVE proc["driver"].build = v
      BY <1>3, <3>2 DEF NoCommits, DriverWorks
    <3> QED  BY <3>1, <3>2 DEF DriverRuns
  <2> QED  BY <1>1, <2>2, <2>3 DEF DriverDone, DriverRuns, DriverWorks, Up, Off
<1>4. ASSUME GPU, script' = p PROVE DriverLines'
  <2>1. Sequence(p) /\ Len(p) \in Nat \ {0} /\ (doc.driver[1] = "package" => Len(p) = 6)
        /\ (doc.driver[1] = "runfile" => Len(p) = 5) /\ (doc.driver[1] = "git" => Len(p) = 4)
    BY <1>1, <1>2, DriverPrograms
  <2>2. p' = p
    BY <1>1 DEF DriverProgram, DriverPackages, DriverModule, DriverRunfile, DriverGit
  <2> HIDE DEF p
  <2>3. Remains(p, p)
    BY <2>1 DEF Remains
  <2>4. Remains(script, DriverProgram)'
    BY <1>4, <2>2, <2>3 DEF p
  <2>5. DriverOnDisk(Len(script))'
    <3>1. UNCHANGED doc /\ Len(script') = Len(p)
      BY <1>1, <1>4
    <3>2. CASE doc.driver[1] = "package"
      <4>1. Len(script') = 6 /\ doc' = doc
        BY <2>1, <3>1, <3>2
      <4>2. ~(Len(script') <= 5) /\ ~(Len(script') <= 4) /\ doc'.driver[1] = "package"
        BY <3>2, <4>1
      <4> QED  BY <4>2 DEF DriverOnDisk
    <3>3. CASE doc.driver[1] = "runfile"
      <4>1. Len(script') = 5 /\ doc' = doc
        BY <2>1, <3>1, <3>3
      <4>2. ~(Len(script') <= 4) /\ ~(Len(script') <= 3) /\ doc'.driver[1] = "runfile"
        BY <3>3, <4>1
      <4> QED  BY <4>2 DEF DriverOnDisk
    <3>4. CASE doc.driver[1] = "git"
      <4>1. Len(script') = 4 /\ doc' = doc
        BY <2>1, <3>1, <3>4
      <4>2. ~(Len(script') <= 3) /\ doc'.driver[1] = "git"
        BY <3>4, <4>1
      <4> QED  BY <4>2 DEF DriverOnDisk
    <3> QED  BY <1>2, <3>2, <3>3, <3>4
  <2>6. \E m \in {4, 5, 6} : Len(script') = m
    BY <1>2, <1>4, <2>1
  <2>7. Len(script') # 0 /\ ~(Len(script') <= 2) /\ ~(Len(script') <= 1)
    BY <2>6
  <2> QED  BY <1>4, <2>4, <2>5, <2>7 DEF DriverLines
<1>5. CASE ~GPU
  BY <1>1, <1>3, <1>5 DEF DriverScript
<1>6. CASE GPU /\ doc.driver[1] = "package"
  <2>1. script' = IF DriverPackageSkips(v) THEN << >> ELSE p
    BY <1>1, <1>6 DEF DriverScript, DriverProgram
  <2> QED  BY <1>3, <1>4, <1>6, <2>1 DEF DriverPackageSkips
<1>7. CASE GPU /\ doc.driver[1] = "runfile"
  <2>1. script' = IF DriverRunfileSkips THEN << >> ELSE p
    BY <1>1, <1>7 DEF DriverScript, DriverProgram
  <2> QED  BY <1>3, <1>4, <1>7, <2>1 DEF DriverRunfileSkips
<1>8. CASE GPU /\ doc.driver[1] = "git"
  <2>1. script' = IF DriverGitSkips(v) THEN << >> ELSE p
    BY <1>1, <1>8 DEF DriverScript, DriverProgram
  <2> QED  BY <1>3, <1>4, <1>8, <2>1 DEF DriverGitSkips
<1> QED  BY <1>2, <1>5, <1>6, <1>7, <1>8, GPUAssumption

\* Only the script of the driver, and the power, change what is known of it.
LEMMA DriverStays ==
  ASSUME BaseInv, [Next]_vars, ~(ScriptStep /\ At("driver")), ~NodeGoesDown, ~NodeComesUp
  PROVE  UNCHANGED <<disk[<<"driver", "userland">>], disk[<<"driver", "module">>], proc["driver"]>>
<1> USE DEF BaseInv
<1>1. /\ <<"driver", "userland">> \in Item /\ <<"driver", "module">> \in Item /\ "driver" \in Daemon
      /\ \A c \in Part \ {"driver"} : /\ <<"driver", "userland">> \notin ItemsOf(c)
                                       /\ <<"driver", "module">> \notin ItemsOf(c)
                                       /\ "driver" \notin DaemonsOf(c)
  <2>1. OwnRuntime \in Runtime
    BY DocumentShape DEF Types, OwnRuntime
  <2> QED  BY <2>1 DEF Item, Daemon, Part, ItemsOf, DaemonsOf, Runtime
<1>2. ASSUME NEW c \in Part \ {"driver"}, Change(c)
      PROVE  UNCHANGED <<disk[<<"driver", "userland">>], disk[<<"driver", "module">>], proc["driver"]>>
  BY <1>1, <1>2 DEF Change
<1>3. CASE UNCHANGED node
  BY <1>3 DEF node
<1>4. CASE DaemonDies
  BY <1>4, DaemonLost
<1> QED  BY <1>2, <1>3, <1>4, NodeSteps DEF Part

\* The same document, driver and power: the same is achieved.
LEMMA DriverSame ==
  ASSUME UNCHANGED <<disk[<<"driver", "userland">>], disk[<<"driver", "module">>], proc["driver"]>>,
         UNCHANGED doc
  PROVE  /\ DriverRuns' <=> DriverRuns
         /\ DriverBoots' <=> DriverBoots
         /\ DriverWorks' <=> DriverWorks
         /\ NoDriver' <=> NoDriver
         /\ UNCHANGED power => (DriverDone' <=> DriverDone)
  BY DEF DriverRuns, DriverBoots, DriverWorks, NoDriver, DriverDone, Up, Off

LEMMA NoCommitsStep ==
  ASSUME BaseInv, BaseInv', DriverInv, [Next]_vars
  PROVE  NoCommits'
<1> USE DEF BaseInv
<1>1. CASE ScriptStep /\ At("driver")
  BY <1>1, DriverLine DEF DriverInv
<1>2. "driver" \in Daemon /\ "none" \notin Commit
  BY BuildAssumption DEF Daemon
<1>3. CASE NodeGoesDown
  <2>1. UNCHANGED <<disk, doc>> /\ proc'["driver"] = Off
    BY <1>2, <1>3 DEF NodeGoesDown
  <2> QED  BY <1>2, <2>1 DEF DriverInv, NoCommits, Off
<1>4. CASE NodeComesUp
  <2>1. /\ UNCHANGED <<disk, doc>>
        /\ proc'["driver"] = IF Started("driver").build = "none" THEN Off ELSE Started("driver")
    BY <1>2, <1>4 DEF NodeComesUp, Booted
  <2>2. Started("driver").build = disk[<<"driver", "module">>]
    BY DEF Started, Runtime
  <2> QED  BY <1>2, <2>1, <2>2 DEF DriverInv, NoCommits, Off
<1>5. CASE ~(ScriptStep /\ At("driver")) /\ ~NodeGoesDown /\ ~NodeComesUp
  <2>1. UNCHANGED <<disk[<<"driver", "userland">>], disk[<<"driver", "module">>], proc["driver"]>>
    BY <1>5, DriverStays
  <2>2. doc'.driver[1] \in {"none", "package"} => doc.driver[1] \in {"none", "package"}
    <3>1. CASE Update
      <4>1. doc \in Document /\ doc' \in Updated(doc)
        BY <3>1 DEF Update, Types
      <4>2. \E x : \/ doc' = [doc EXCEPT !.driver = x] /\ doc.driver[1] \in {"none", "package"}
                   \/ doc' = [doc EXCEPT !.runtime = x]
                   \/ doc' = [doc EXCEPT !.toolkit = x] \/ doc' = [doc EXCEPT !.kubernetes = x]
        BY <4>1, UpdatedDocuments
      <4> QED  BY <4>1, <4>2 DEF Document
    <3>2. CASE ~Update
      <4>1. UNCHANGED doc
        BY <3>2 DEF Next, Run, vars, StartRun, RefuseRun, BeginScript, TemplateFails, ScriptStep, run,
         RebootStep, ScriptFails, ScriptEnds, Reconnect, Finish, CutOff, InitFails, GiveUp,
         NodeGoesDown, NodeComesUp, UserReboots, DaemonDies, BranchMoves, EndRun
      <4> QED  BY <4>1
    <3> QED  BY <3>1, <3>2
  <2> QED  BY <2>1, <2>2 DEF DriverInv, NoCommits
<1> QED  BY <1>1, <1>3, <1>4, <1>5

LEMMA DriverStep ==
  ASSUME BaseInv, BaseInv', KernelInv, DriverInv, [Next]_vars
  PROVE  DriverInv'
<1> USE DEF BaseInv
<1>0. "kernel" \in Part /\ "driver" \in Part /\ Rank(Install("kernel")) < Rank(Install("driver"))
  BY Ranks DEF Part
<1>1. NoCommits'
  BY NoCommitsStep
<1> DEFINE lines == At("driver") => DriverLines
           done == Undisturbed /\ Passed("driver") => DriverDone
           before == Undisturbed /\ power # "up" /\ Waits("driver") => NoDriver
<1>2. lines /\ done /\ before
  BY DEF DriverInv
<1>3. lines' /\ done' /\ before'
  <2>1. CASE phase' = "idle"
    BY <2>1 DEF At, Undisturbed
  <2>2. CASE StartRun
    <3>1. ~Passed("driver")' /\ ~At("driver")'
      BY <1>0, <2>2, AtStart
    <3>2. disturbed' \/ power' = "up"
      BY <2>2 DEF StartRun, Types
    <3> QED  BY <3>1, <3>2 DEF Undisturbed
  <2>3. CASE BeginScript
    <3>1. UNCHANGED <<node, doc, todo, power, disturbed>> /\ phase = "next" /\ phase' = "script"
      BY <2>3 DEF BeginScript
    <3>2. (Passed("driver")' => Passed("driver")) /\ (Waits("driver")' => Waits("driver"))
      BY <1>0, <3>1, SamePlace
    <3>3. /\ DriverDone' <=> DriverDone
          /\ NoDriver' <=> NoDriver
      BY <3>1, DriverSame DEF node
    <3>4. Undisturbed' <=> Undisturbed
      BY <3>1 DEF Undisturbed
    <3>5. ASSUME At("driver")' PROVE DriverLines'
      <4>1. Head(todo) = Install("driver")
        BY <3>1, <3>5 DEF At
      <4>2. Head(todo) = todo[1] /\ 1 \in 1..Len(todo)
        BY <2>3, EmptySeq, LenProperties DEF BeginScript, TodoInv, Within
      <4>3. Has(todo, "driver") /\ Expected("driver")
        BY <1>0, <4>1, <4>2 DEF TodoInv, Has, In
      <4>4. Waits("driver")
        BY <3>1, <4>3 DEF Waits, At
      <4> QED  BY <1>2, <2>3, <4>1, <4>3, <4>4, DriverBegins DEF DriverInv
    <3> QED  BY <1>2, <3>1, <3>2, <3>3, <3>4, <3>5
  <2>4. CASE ScriptStep
    <3>1. UNCHANGED <<doc, todo, power, phase, disturbed>> /\ phase = "script"
      BY <2>4 DEF ScriptStep, run, RunningScript
    <3>2. /\ Passed("driver")' => Passed("driver")
          /\ At("driver")' => At("driver")
          /\ Waits("driver")' => Waits("driver")
          /\ Passed("driver") \/ Waits("driver") => ~At("driver")
      BY <1>0, <3>1, SamePlace, Order
    <3>3. At("driver") => DriverLines'
      BY <2>4, DriverLine DEF DriverInv
    <3>4. ~At("driver") => (DriverDone' <=> DriverDone) /\ (NoDriver' <=> NoDriver)
      <4>1. ~NodeGoesDown /\ ~NodeComesUp
        BY <3>1 DEF NodeGoesDown, NodeComesUp
      <4> QED  BY <3>1, <4>1, DriverStays, DriverSame
    <3>5. Undisturbed' <=> Undisturbed
      BY <3>1 DEF Undisturbed
    <3> QED  BY <1>2, <3>1, <3>2, <3>3, <3>4, <3>5
  <2>5. CASE RebootStep
    <3>1. /\ UNCHANGED <<node, doc, todo, phase>> /\ phase = "script" /\ RunningScript
          /\ Step.do = "reboot"
      BY <2>5 DEF RebootStep, RunningScript
    <3>2. PICK c \in Part : At(c) /\ StepOf(c, Step)
      BY <3>1, RunningLine
    <3>3. At("kernel")
      BY <3>1, <3>2 DEF StepOf
    <3>4. ~Passed("driver") /\ ~At("driver")
      BY <1>0, <3>3, Order
    <3>5. ~Passed("driver")' /\ ~At("driver")'
      BY <1>0, <3>1, <3>4, SamePlace
    <3>6. NoDriver
      <4>1. Len(script) \in Nat \ {0} /\ Step = script[1]
        BY <3>1, RunningLine
      <4> QED  BY <3>1, <3>3, <4>1 DEF KernelInv, KernelLines, Put, PutOneOf
    <3>7. NoDriver'
      BY <3>1, <3>6 DEF NoDriver, node
    <3> QED  BY <3>5, <3>7
  <2>6. CASE ScriptEnds
    <3>1. /\ Passed("driver")' => Passed("driver") \/ At("driver")
          /\ ~At("driver")' /\ (Waits("driver")' => Waits("driver")) /\ Len(script) = 0
      BY <1>0, <2>6, AtEnd
    <3>2. UNCHANGED <<node, doc, power, disturbed>> /\ phase = "script"
      BY <2>6 DEF ScriptEnds
    <3>3. (DriverDone' <=> DriverDone) /\ (NoDriver' <=> NoDriver)
      BY <3>2, DriverSame DEF node
    <3>4. Undisturbed' => Undisturbed
      BY <3>2 DEF Undisturbed
    <3>5. Undisturbed /\ At("driver") => DriverDone
      BY <1>2, <3>1 DEF DriverLines, Undisturbed
    <3> QED  BY <1>2, <3>1, <3>2, <3>3, <3>4, <3>5
  <2>7. CASE /\ phase # "idle" /\ UNCHANGED <<todo, doc, script, fresh>>
             /\ phase' = phase \/ (phase = "reboot" /\ phase' = "next")
             /\ disturbed' = FALSE => disturbed = FALSE
             /\ \/ UNCHANGED <<node, power>>
                \/ NodeGoesDown /\ phase # "script"
                \/ (NodeComesUp /\ phase # "script") \/ DaemonDies
    <3>0. phase' # "idle"
      BY <2>7
    <3>1. /\ Passed("driver")' => Passed("driver")
          /\ At("driver")' => At("driver") /\ UNCHANGED phase /\ phase = "script"
          /\ Waits("driver")' => Waits("driver")
      <4>1. At("driver")' => UNCHANGED phase /\ phase = "script"
        BY <2>7 DEF At
      <4>2. phase = "script" => UNCHANGED phase
        BY <2>7
      <4> QED  BY <1>0, <2>7, <3>0, <4>1, <4>2, SamePlace
    <3>2. Undisturbed' => Undisturbed
      BY <2>7 DEF Undisturbed, Types
    <3>3. CASE UNCHANGED <<node, power>> \/ DaemonDies
      <4>1. UNCHANGED power
        BY <3>3 DEF DaemonDies
      <4>2. UNCHANGED <<disk[<<"driver", "userland">>], disk[<<"driver", "module">>], proc["driver"]>>
        BY <3>3, DaemonLost DEF node
      <4>3. /\ (DriverDone' <=> DriverDone) /\ (NoDriver' <=> NoDriver)
            /\ (DriverRuns' <=> DriverRuns) /\ (DriverBoots' <=> DriverBoots)
            /\ (DriverWorks' <=> DriverWorks)
        BY <2>7, <4>1, <4>2, DriverSame
      <4>4. ASSUME At("driver"), UNCHANGED phase, phase = "script" PROVE DriverLines'
        <5>1. UNCHANGED <<script, doc>> /\ DriverLines /\ (~disturbed' => ~disturbed)
          BY <1>2, <2>7, <4>4 DEF Types
        <5>2. DriverProgram' = DriverProgram
          BY <5>1 DEF DriverProgram, DriverPackages, DriverModule, DriverRunfile, DriverGit
        <5>3. Remains(script, DriverProgram)' <=> Remains(script, DriverProgram)
          BY <5>1, <5>2 DEF Remains
        <5>4. DriverOnDisk(Len(script))' <=> DriverOnDisk(Len(script))
          BY <4>2, <5>1 DEF DriverOnDisk
        <5> QED  BY <4>3, <5>1, <5>3, <5>4 DEF DriverLines
      <4> QED  BY <1>2, <3>1, <3>2, <4>1, <4>3, <4>4
    <3>4. CASE NodeGoesDown /\ phase # "script"
      <4>1. power = "leaving" /\ power' = "down" /\ UNCHANGED disk
        BY <3>4 DEF NodeGoesDown
      <4>2. (DriverBoots => DriverBoots') /\ (NoDriver => NoDriver')
        BY <2>7, <4>1 DEF DriverBoots, NoDriver
      <4>3. DriverDone => DriverDone'
        BY <4>1, <4>2 DEF DriverDone
      <4> QED  BY <1>2, <3>1, <3>2, <3>4, <4>1, <4>2, <4>3
    <3>5. CASE NodeComesUp /\ phase # "script"
      <4>1. /\ power = "down" /\ power' = "up" /\ UNCHANGED disk
            /\ proc'["driver"] = IF Started("driver").build = "none" THEN Off ELSE Started("driver")
        BY <3>5 DEF NodeComesUp, Booted, Daemon
      <4>2. Started("driver") = [build |-> disk[<<"driver", "module">>], config |-> {}]
        BY DEF Started, Runtime
      <4>3. DriverBoots => DriverRuns'
        BY <2>7, <4>1, <4>2 DEF DriverBoots, DriverRuns, DriverWorks, Up, Off
      <4>4. DriverDone => DriverDone'
        BY <4>1, <4>3 DEF DriverDone
      <4> QED  BY <1>2, <3>1, <3>2, <3>5, <4>1, <4>4
    <3> QED  BY <2>7, <3>3, <3>4, <3>5
  <2> HIDE DEF lines, done, before
  <2> QED  BY <2>1, <2>2, <2>3, <2>4, <2>5, <2>6, <2>7, ControlSteps
<1> QED  BY <1>1, <1>3 DEF DriverInv

\* The driver's script in all its stages, and that until a document with a
\* kernel has got its kernel, no reboot finds a driver to lose.
THEOREM Driver == Spec => []DriverInv
<1>1. Init => DriverInv
  <2> SUFFICES ASSUME Init PROVE DriverInv
    OBVIOUS
  <2>1. disk[<<"driver", "userland">>] = "none" /\ disk[<<"driver", "module">>] = "none"
        /\ proc["driver"].build = "none" /\ phase = "idle"
    BY DEF Init, NodeInit, Item, Daemon, Off
  <2>2. "none" \notin Commit
    BY BuildAssumption
  <2> QED  BY <2>1, <2>2 DEF DriverInv, NoCommits, At, Undisturbed
<1>2. BaseInv /\ BaseInv' /\ KernelInv /\ DriverInv /\ [Next]_vars => DriverInv'
  BY DriverStep
<1> QED  BY <1>1, <1>2, Based, Kernel, PTL DEF Spec

\* A run that is about to report success, and that nothing has disturbed,
\* leaves a driver that works, of the version that is pinned: over whatever
\* earlier runs, reboots and updates left of other drivers.
THEOREM DriverIsServed == Spec => []SuccessMeansDriver
<1>1. BaseInv /\ DriverInv => SuccessMeansDriver
  <2> SUFFICES ASSUME BaseInv, DriverInv, Done, Full, GPU, Asked(doc.driver)
               PROVE  DriverRuns
    BY DEF SuccessMeansDriver, DriverServes, DriverRuns, Asked
  <2>1. Len(todo) = 0 /\ phase = "next" /\ ~disturbed /\ power = "up"
    BY EmptySeq DEF Done
  <2>2. Passed("driver") /\ Undisturbed
    BY <2>1 DEF Passed, Has, In, Expected, Undisturbed
  <2> QED  BY <2>1, <2>2 DEF DriverInv, DriverDone
<1> QED  BY <1>1, Based, Driver, PTL

-----------------------------------------------------------------------------
(* The runtime and the toolkit, in the first run                           *)

NotInstalled(c) == disk[<<c, "package">>] = "none" /\ disk[<<c, "local">>] = "none"

\* The runtime r is there and, unless the node is down, runs with the settings s.
Serves(r, s) ==
  /\ Binary(r) # "none" /\ s \subseteq config[r]
  /\ power # "down" => Up(r) /\ s \subseteq proc[r].config

RuntimeDone == Serves(OwnRuntime, IF OwnRuntime = "containerd" THEN {"cri"} ELSE {})
ToolkitDone == Serves(OwnRuntime, {"nvidia"})

\* Lines that start nothing.
Silent == {"fetch", "whole", "put", "clone", "overwrite"}

\* The line i starts the runtime, and containerd with its settings: a daemon
\* that runs already would not read them when it is started.
StartsRuntime(i) ==
  LET c == "containerd" IN
  /\ script[i].do \in {"restart", "start"} /\ script[i].at = {OwnRuntime}
  /\ OwnRuntime = c =>
       /\ IF i = 1 THEN "cri" \in config[c] ELSE script[i - 1].do = "overwrite"
       /\ script[i].do = "start" =>
            ~Up(c) /\ \A j \in 1..(i - 1) : script[j].do \in Silent

\* The line i starts the runtime again, with the settings of the toolkit.
RestartsRuntime(i) ==
  /\ script[i] = Restart(OwnRuntime)
  /\ IF i = 1 THEN "nvidia" \in config[OwnRuntime] ELSE script[i - 1] = Add(OwnRuntime, {"nvidia"})

RuntimeLines == RuntimeDone \/ \E i \in 1..Len(script) : StartsRuntime(i)
ToolkitLines == ToolkitDone \/ \E i \in 1..Len(script) : RestartsRuntime(i)

\* Until the first run comes to them there are no runtime and no toolkit.
FirstInv ==
  fresh =>
    /\ phase = "idle" \/ Waits("runtime") => \A r \in Runtime : NotInstalled(r)
    /\ phase = "idle" \/ Waits("toolkit") => NotInstalled("toolkit")
    /\ At("runtime") => RuntimeLines
    /\ Passed("runtime") => RuntimeDone
    /\ GPU /\ At("toolkit") => ToolkitLines
    /\ GPU /\ Passed("toolkit") => ToolkitDone

LEMMA OwnIsRuntime ==
  ASSUME BaseInv
  PROVE  OwnRuntime \in Runtime
  BY DocumentShape DEF BaseInv, Types, OwnRuntime

\* A runtime that serves goes on doing so, over every fault; but the script of
\* the runtime removes the settings of the toolkit.
LEMMA ServesStays ==
  ASSUME BaseInv, [Next]_vars, NEW r \in Runtime, NEW s \in SUBSET Setting,
         s \subseteq {"cri"} \/ ~(ScriptStep /\ At("runtime")), Serves(r, s)
  PROVE  Serves(r, s)'
<1> USE DEF BaseInv
<1>1. /\ r \in Daemon /\ r \notin {"cri-docker", "kind", "driver", "kube"}
      /\ <<r, "package">> \in Item \ Removable /\ <<r, "local">> \in Item \ Removable
      /\ "kubernetes" # "runtime" /\ "kubernetes" \in Part
  BY DEF Daemon, Item, Removable, Runtime, Part
<1>2. Started(r) = [build |-> Binary(r), config |-> config[r]]
      /\ Started(r)' = [build |-> Binary(r)', config |-> config'[r]]
  BY DEF Started, Runtime
<1>3. CASE UNCHANGED node /\ (power' = "down" <=> power = "down")
  BY <1>3 DEF node, Serves, Binary, Up
<1>4. ASSUME NEW c \in Part, Change(c), power' = "down" <=> power = "down",
             c # "runtime" \/ s \subseteq {"cri"}
      PROVE  Serves(r, s)'
  <2>1. Binary(r)' # "none"
    BY <1>1, <1>4 DEF Serves, Binary, Change
  <2>2. s \subseteq config'[r]
    BY <1>4 DEF Serves, Change
  <2>3. proc'[r] = proc[r] \/ (proc'[r] = Started(r)' /\ proc'[r].build # "none")
    BY <1>1, <1>4 DEF Change, StartedNow
  <2>4. CASE proc'[r] = proc[r]
    BY <1>4, <2>1, <2>2, <2>4 DEF Serves, Up, Off
  <2>5. CASE proc'[r] = Started(r)' /\ proc'[r].build # "none"
    BY <1>2, <2>1, <2>2, <2>5 DEF Serves, Up, Off
  <2> QED  BY <2>3, <2>4, <2>5
<1>5. CASE NodeGoesDown
  BY <1>5 DEF NodeGoesDown, Serves, Binary
<1>6. CASE NodeComesUp
  <2>1. UNCHANGED <<disk, config>> /\ proc'[r] = IF Started(r).build = "none" THEN Off ELSE Started(r)
    BY <1>1, <1>6 DEF NodeComesUp, Booted
  <2> QED  BY <1>2, <2>1 DEF Serves, Binary, Up, Off
<1>7. CASE DaemonDies
  <2>1. UNCHANGED <<disk, config, power>>
    BY <1>7 DEF DaemonDies
  <2>3. proc'[r] = proc[r] \/ proc'[r] = Started(r)
    BY <1>1, <1>7, DaemonLost
  <2> QED  BY <1>2, <2>1, <2>3 DEF Serves, Binary, Up, Off
<1>8. NodeGoesDown \/ NodeComesUp \/ (power' = "down" <=> power = "down")
  BY PowerSteps DEF RebootStep, RunningScript
<1> QED  BY <1>1, <1>3, <1>4, <1>5, <1>6, <1>7, <1>8, NodeSteps

\* Only its own script installs a runtime or the toolkit.
LEMMA InstalledOnlyThere ==
  ASSUME BaseInv, [Next]_vars
  PROVE  /\ ~(ScriptStep /\ At("runtime")) => \A r \in Runtime : NotInstalled(r) => NotInstalled(r)'
         /\ ~(ScriptStep /\ At("toolkit")) => (NotInstalled("toolkit") => NotInstalled("toolkit")')
<1> USE DEF BaseInv
<1>1. ASSUME UNCHANGED disk PROVE \A c : NotInstalled(c) => NotInstalled(c)'
  BY <1>1 DEF NotInstalled
<1>2. ASSUME NEW c \in Part, Change(c), NEW t, NEW e \in Part, e # c,
             (t \in Runtime /\ e = "runtime") \/ (t = "toolkit" /\ e = "toolkit"), NotInstalled(t)
      PROVE  NotInstalled(t)'
  <2>1. /\ <<t, "package">> \in Item /\ <<t, "local">> \in Item
        /\ <<t, "package">> \notin ItemsOf(c) /\ <<t, "local">> \notin ItemsOf(c)
    BY <1>2, OwnIsRuntime DEF Item, ItemsOf, Runtime, Part
  <2> QED  BY <1>2, <2>1 DEF NotInstalled, Change
<1>3. UNCHANGED disk \/ (\E c \in Part : Change(c) /\ (c = "kubernetes" \/ (ScriptStep /\ At(c))))
  BY NodeSteps DEF node, NodeGoesDown, NodeComesUp, DaemonDies, Part
<1>4. CASE UNCHANGED disk
  BY <1>1, <1>4
<1>5. CASE \E c \in Part : Change(c) /\ (c = "kubernetes" \/ (ScriptStep /\ At(c)))
  <2>1. PICK c \in Part : Change(c) /\ (c = "kubernetes" \/ (ScriptStep /\ At(c)))
    BY <1>5
  <2>2. "runtime" \in Part /\ "toolkit" \in Part /\ "kubernetes" \notin {"runtime", "toolkit"}
    BY DEF Part
  <2>3. c # "runtime" => \A r \in Runtime : NotInstalled(r) => NotInstalled(r)'
    BY <1>2, <2>1, <2>2
  <2>4. c # "toolkit" => (NotInstalled("toolkit") => NotInstalled("toolkit")')
    BY <1>2, <2>1, <2>2
  <2> QED  BY <2>1, <2>2, <2>3, <2>4
<1> QED  BY <1>3, <1>4, <1>5

\* A first run that has ended is not fresh.
LEMMA StillFresh ==
  ASSUME BaseInv, [Next]_vars, fresh'
  PROVE  fresh /\ (phase' = "idle" => phase = "idle" /\ ~ScriptStep /\ UNCHANGED disk)
<1>1. fresh
  BY DEF Next, Run, vars, StartRun, RefuseRun, BeginScript, TemplateFails, ScriptStep, run,
         RebootStep, ScriptFails, ScriptEnds, Reconnect, Finish, CutOff, InitFails, GiveUp,
         NodeGoesDown, NodeComesUp, UserReboots, DaemonDies, BranchMoves, Update, EndRun
<1>2. phase' = "idle" => phase = "idle"
  BY DEF Next, Run, vars, StartRun, RefuseRun, BeginScript, TemplateFails, ScriptStep, run,
         RebootStep, ScriptFails, ScriptEnds, Reconnect, Finish, CutOff, InitFails, GiveUp,
         NodeGoesDown, NodeComesUp, UserReboots, DaemonDies, BranchMoves, Update, EndRun
<1>3. phase = "idle" => ~ScriptStep /\ ~InitFails
  BY DEF ScriptStep, InitFails, RunningScript
<1>4. phase' = "idle" => ~StartRun
  BY DEF StartRun
<1> QED
  BY <1>1, <1>2, <1>3, <1>4, NodeSteps DEF node, NodeGoesDown, NodeComesUp, DaemonDies

\* What follows after a download and its use.
LEMMA AfterFetched ==
  ASSUME NEW c, NEW t, Sequence(t)
  PROVE  /\ Sequence(Fetched(c) \o t) /\ Len(t) \in Nat /\ Len(Fetched(c) \o t) = 2 + Len(t)
         /\ (Fetched(c) \o t)[1] = Fetch(c, "fetched", "whole")
         /\ (Fetched(c) \o t)[2] = Whole(c, "fetched")
         /\ \A i \in 1..Len(t) : (Fetched(c) \o t)[2 + i] = t[i]
<1> DEFINE f == Fetched(c)
<1>1. Sequence(f) /\ Len(f) = 2 /\ f[1] = Fetch(c, "fetched", "whole") /\ f[2] = Whole(c, "fetched")
  BY Literals DEF Fetched
<1> HIDE DEF f
<1>2. /\ Sequence(f \o t) /\ Len(t) \in Nat /\ Len(f \o t) = Len(f) + Len(t)
      /\ \A i \in 1..Len(f) : (f \o t)[i] = f[i]
      /\ \A i \in 1..Len(t) : (f \o t)[Len(f) + i] = t[i]
  <2>1. Sequence(f) /\ Sequence(t)
    BY <1>1
  <2> QED  BY <2>1, Joined
<1> QED  BY <1>1, <1>2 DEF f

\* The script of a runtime on a node that has none: its fourth or fifth line
\* starts the runtime.
LEMMA RuntimeBegins ==
  ASSUME BaseInv, RunningInv, BeginScript, Head(todo) = Install("runtime"), Expected("runtime"),
         \A r \in Runtime : NotInstalled(r)
  PROVE  RuntimeLines'
<1> DEFINE v == doc.runtime[3]  r == OwnRuntime
<1>1. /\ script' = ScriptOf(<<"install", "runtime">>) /\ ~TemplateRefuses(<<"install", "runtime">>)
      /\ UNCHANGED <<disk, config, proc, doc>> /\ doc \in Document /\ Asked(doc.runtime)
  BY DEF BeginScript, Install, node, BaseInv, Types, Expected
<1>2. /\ doc.runtime[2] \in {"package", "git", "latest"} /\ r \in Runtime
      /\ doc.runtime[2] = "package" => v \in Version
      /\ doc.runtime[2] = "latest" => r = "containerd"
  BY <1>1, DocumentShape DEF OwnRuntime, Asked, TemplateRefuses
<1>3. \A q \in Runtime : ~Up(q) /\ proc[q] = Off
  <2> SUFFICES ASSUME NEW q \in Runtime, Up(q) PROVE FALSE
    BY DEF Up
  <2>1. q \in Daemon \ {"kind", "driver"}
    BY DEF Daemon, Runtime
  <2>2. Started(q).build = Binary(q) /\ Binary(q) = "none"
    BY DEF Started, Binary, NotInstalled, Runtime
  <2> QED  BY <2>1, <2>2 DEF RunningInv, Startable
<1>4. \A q \in Runtime : \A c : ~FromCommit(q, c)
  BY <1>3 DEF FromCommit
<1>5. OwnRuntime' = r /\ (r \in Runtime => (~Up(r))')
  BY <1>1, <1>3 DEF OwnRuntime, RuntimeOf, Up, Off
<1>6. CASE r = "containerd"
  <2>1. script' = ContainerdScript(doc.runtime[2], v)
    BY <1>1, <1>6 DEF ScriptOf, OwnRuntime
  <2>2. \/ script' = ContainerdPackage(v) \/ script' = ContainerdGit(v)
        \/ script' = ContainerdLatest(branch)
    <3>1. "containerd" \in Runtime
      BY DEF Runtime
    <3>2. ~FromCommit("containerd", v) /\ ~FromCommit("containerd", branch) /\ ~Up("containerd")
      BY <1>3, <1>4, <3>1
    <3> QED  BY <1>2, <2>1, <3>2 DEF ContainerdScript, ContainerdPackageSkips
  <2>4. ASSUME NEW t, Sequence(t), 3 \in 1..Len(t), script' = Fetched("containerd") \o t,
               t[3].do \in {"restart", "start"}, t[3].at = {r}, t[2].do = "overwrite",
               t[3].do = "start" => t[1].do \in {"put", "clone"}
        PROVE  RuntimeLines'
    <3>1. /\ Len(script') = 2 + Len(t) /\ Len(t) \in Nat
          /\ script'[1] = Fetch("containerd", "fetched", "whole")
          /\ script'[2] = Whole("containerd", "fetched")
          /\ \A i \in 1..Len(t) : script'[2 + i] = t[i]
      <4>1. Sequence(t)
        BY <2>4
      <4>2. script' = Fetched("containerd") \o t
        BY <2>4
      <4> QED  BY <4>1, <4>2, AfterFetched
    <3>2. /\ script'[3] = t[1] /\ script'[4] = t[2] /\ script'[5] = t[3] /\ 5 \in 1..Len(script')
          /\ script'[1].do = "fetch" /\ script'[2].do = "whole"
      <4>1. 2 + 1 = 3 /\ 2 + 2 = 4 /\ 2 + 3 = 5 /\ {1, 2, 3} \subseteq 1..Len(t)
        BY <2>4, <3>1
      <4>2. script'[2 + 1] = t[1] /\ script'[2 + 2] = t[2] /\ script'[2 + 3] = t[3]
        BY <3>1, <4>1
      <4> QED  BY <3>1, <4>1, <4>2 DEF Fetch, Whole
    <3>3. script'[5].do = "start" => \A j \in 1..(5 - 1) : script'[j].do \in Silent
      <4>1. \A j \in 1..(5 - 1) : j = 1 \/ j = 2 \/ j = 3 \/ j = 4
        OBVIOUS
      <4> QED  BY <2>4, <3>2, <4>1 DEF Silent
    <3>4. StartsRuntime(5)'
      BY <1>2, <1>5, <1>6, <2>4, <3>2, <3>3 DEF StartsRuntime
    <3> QED  BY <3>2, <3>4 DEF RuntimeLines
  <2>5. CASE script' = ContainerdPackage(v)
    <3> DEFINE t == << Package("containerd", OrNewest(v)), Overwrite("containerd", {"cri"}),
                       Restart("containerd"), Need("containerd") >>
    <3>1. /\ Sequence(t) /\ 3 \in 1..Len(t) /\ t[3].do = "restart" /\ t[3].at = {r}
          /\ t[2].do = "overwrite"
      BY <1>6, Literals DEF Overwrite, Restart
    <3>2. script' = Fetched("containerd") \o t
      BY <2>5 DEF ContainerdPackage
    <3> HIDE DEF t
    <3> QED  BY <2>4, <3>1, <3>2
  <2>6. CASE script' = ContainerdGit(v)
    <3> DEFINE t == << Put("containerd", "local", v), Overwrite("containerd", {"cri"}),
                       Start("containerd"), Need("containerd"), Put("containerd", "provenance", v) >>
    <3>1. /\ Sequence(t) /\ 3 \in 1..Len(t) /\ t[3].do = "start" /\ t[3].at = {r}
          /\ t[2].do = "overwrite" /\ t[1].do = "put"
      BY <1>6, Literals DEF Put, PutOneOf, Overwrite, Start
    <3>2. script' = Fetched("containerd") \o t
      BY <2>6 DEF ContainerdGit
    <3> HIDE DEF t
    <3> QED  BY <2>4, <3>1, <3>2
  <2>7. CASE script' = ContainerdLatest(branch)
    <3> DEFINE t == << Clone({<<"containerd", "local">>}), Overwrite("containerd", {"cri"}),
                       Start("containerd"), Need("containerd"),
                       Put("containerd", "provenance", branch) >>
    <3>1. /\ Sequence(t) /\ 3 \in 1..Len(t) /\ t[3].do = "start" /\ t[3].at = {r}
          /\ t[2].do = "overwrite" /\ t[1].do = "clone"
      BY <1>6, Literals DEF Clone, Overwrite, Start
    <3>2. script' = Fetched("containerd") \o t
      BY <2>7 DEF ContainerdLatest
    <3> HIDE DEF t
    <3> QED  BY <2>4, <3>1, <3>2
  <2> QED  BY <2>2, <2>5, <2>6, <2>7
<1>7. ASSUME r # "containerd", NEW i \in 1..Len(script'), script'[i].do \in {"restart", "start"},
             script'[i].at = {r}
      PROVE  RuntimeLines'
  <2>1. StartsRuntime(i)'
    BY <1>5, <1>7 DEF StartsRuntime
  <2> QED  BY <2>1 DEF RuntimeLines
<1>8. CASE r = "docker"
  <2>1. script' = DockerScript(doc.runtime[2], v) /\ doc.runtime[2] \in {"package", "git"}
    BY <1>1, <1>2, <1>8 DEF ScriptOf, OwnRuntime
  <2>2. script' = DockerPackage(v) \o CriDockerd \/ script' = DockerGit(v) \o CriDockerdGit(v)
    <3>1. "docker" \in Runtime /\ "none" \notin Version
      BY BuildAssumption DEF Runtime
    <3>2. ~FromCommit("docker", v) /\ ~Up("docker")
      BY <1>3, <1>4, <3>1
    <3> QED  BY <2>1, <3>2 DEF DockerScript, DockerPackageSkips
  <2>3. ASSUME NEW x, NEW y, NEW z, NEW t, NEW u, Sequence(t), Sequence(u), script' = u \o t,
               u = Fetched("docker") \o <<x, y, z>> \/ \E w : u = Fetched("docker") \o <<x, y, z, w>>
        PROVE  5 \in 1..Len(script') /\ script'[5] = z
    <3>1. 5 \in 1..Len(u) /\ u[5] = z
      <4>1. ASSUME NEW q, Sequence(q), Len(q) \in {3, 4}, q[3] = z, u = Fetched("docker") \o q
            PROVE  5 \in 1..Len(u) /\ u[5] = z
        <5>1. Len(u) = 2 + Len(q) /\ 3 \in 1..Len(q) /\ \A i \in 1..Len(q) : u[2 + i] = q[i]
          <6>1. Sequence(q)
            BY <4>1
          <6>2. u = Fetched("docker") \o q
            BY <4>1
          <6>3. Len(u) = 2 + Len(q) /\ \A i \in 1..Len(q) : u[2 + i] = q[i]
            <7>1. /\ Len(Fetched("docker") \o q) = 2 + Len(q)
                  /\ \A i \in 1..Len(q) : (Fetched("docker") \o q)[2 + i] = q[i]
              BY <6>1, AfterFetched
            <7> QED  BY <6>2, <7>1
          <6>4. Len(q) = 3 \/ Len(q) = 4
            BY <4>1
          <6>5. 3 \in 1..Len(q)
            <7>1. \A n : n = 3 \/ n = 4 => 3 \in 1..n
              OBVIOUS
            <7> QED  BY <6>4, <7>1, Zenon
          <6> QED  BY <6>3, <6>5
        <5>2. u[2 + 3] = q[3] /\ 2 + 3 = 5
          BY <5>1
        <5> QED  BY <4>1, <5>1, <5>2
      <4>2. Sequence(<<x, y, z>>) /\ \A w : Sequence(<<x, y, z, w>>)
        BY Literals
      <4>3. CASE u = Fetched("docker") \o <<x, y, z>>
        <5> DEFINE q == <<x, y, z>>
        <5>1. Sequence(q) /\ Len(q) \in {3, 4} /\ q[3] = z /\ u = Fetched("docker") \o q
          BY <4>2, <4>3
        <5> HIDE DEF q
        <5> QED  BY <4>1, <5>1
      <4>4. ASSUME NEW w, u = Fetched("docker") \o <<x, y, z, w>>
            PROVE  5 \in 1..Len(u) /\ u[5] = z
        <5> DEFINE q == <<x, y, z, w>>
        <5>1. Sequence(q) /\ Len(q) \in {3, 4} /\ q[3] = z /\ u = Fetched("docker") \o q
          BY <4>2, <4>4
        <5> HIDE DEF q
        <5> QED  BY <4>1, <5>1
      <4> QED  BY <2>3, <4>3, <4>4
    <3> QED  BY <2>3, <3>1, Joined
  <2>4. CASE script' = DockerPackage(v) \o CriDockerd
    <3>1. Sequence(CriDockerd) /\ Sequence(DockerPackage(v))
      BY Literals, AfterFetched DEF DockerPackage, CriDockerd
    <3>2. 5 \in 1..Len(script') /\ script'[5] = Restart("docker")
      <4>1. DockerPackage(v) = Fetched("docker")
              \o << Package("docker", {v}), Add("docker", {"cri"}), Restart("docker"), Need("docker") >>
        BY DEF DockerPackage
      <4> QED  BY <2>3, <2>4, <3>1, <4>1
    <3> QED  BY <1>7, <1>8, <3>2 DEF Restart
  <2>5. CASE script' = DockerGit(v) \o CriDockerdGit(v)
    <3>1. Sequence(CriDockerdGit(v)) /\ Sequence(DockerGit(v))
      BY Literals, AfterFetched DEF DockerGit, CriDockerdGit
    <3>2. 5 \in 1..Len(script') /\ script'[5] = Start("docker")
      <4>1. DockerGit(v) = Fetched("docker")
              \o << Put("docker", "local", v), Add("docker", {"cri"}), Start("docker") >>
        BY DEF DockerGit
      <4> QED  BY <2>3, <2>5, <3>1, <4>1
    <3> QED  BY <1>7, <1>8, <3>2 DEF Start
  <2> QED  BY <2>2, <2>4, <2>5
<1>9. CASE r = "crio"
  <2>1. script' = CrioScript(doc.runtime[2], v) /\ doc.runtime[2] \in {"package", "git"}
    BY <1>1, <1>2, <1>9 DEF ScriptOf, OwnRuntime
  <2>2. script' = CrioPackage(v) \/ script' = CrioGit(v)
    <3>1. ~FromCommit("crio", v) /\ ~Up("crio")
      BY <1>3, <1>4 DEF Runtime
    <3> QED  BY <2>1, <3>1 DEF CrioScript, CrioPackageSkips
  <2>3. CASE script' = CrioPackage(v)
    <3> DEFINE t == << Package("crio", OrNewest(v)), Start("crio"), Need("crio") >>
    <3>1. Sequence(t) /\ Len(t) = 3 /\ t[2] = Start("crio") /\ script' = Fetched("crio") \o t
      BY <2>3, Literals DEF CrioPackage
    <3> HIDE DEF t
    <3>2. Len(script') = 2 + Len(t) /\ script'[2 + 2] = t[2]
      <4>1. Sequence(t) /\ 2 \in 1..Len(t)
        BY <3>1
      <4>2. Len(script') = 2 + Len(t) /\ \A i \in 1..Len(t) : script'[2 + i] = t[i]
        BY <3>1, <4>1, AfterFetched
      <4> QED  BY <4>1, <4>2
    <3>3. 4 \in 1..Len(script') /\ script'[4] = Start("crio")
      BY <3>1, <3>2
    <3> QED  BY <1>7, <1>9, <3>3 DEF Start
  <2>4. CASE script' = CrioGit(v)
    <3> DEFINE t == << Put("crio", "local", v), Add("crio", {"cri"}), Start("crio"), Need("crio"),
                       Put("crio", "provenance", v) >>
    <3>1. Sequence(t) /\ Len(t) = 5 /\ t[3] = Start("crio") /\ script' = Fetched("crio") \o t
      BY <2>4, Literals DEF CrioGit
    <3> HIDE DEF t
    <3>2. Len(script') = 2 + Len(t) /\ script'[2 + 3] = t[3]
      <4>1. Sequence(t) /\ 3 \in 1..Len(t)
        BY <3>1
      <4>2. Len(script') = 2 + Len(t) /\ \A i \in 1..Len(t) : script'[2 + i] = t[i]
        BY <3>1, <4>1, AfterFetched
      <4> QED  BY <4>1, <4>2
    <3>3. 5 \in 1..Len(script') /\ script'[5] = Start("crio")
      BY <3>1, <3>2
    <3> QED  BY <1>7, <1>9, <3>3 DEF Start
  <2> QED  BY <2>2, <2>3, <2>4
<1> QED  BY <1>2, <1>6, <1>8, <1>9 DEF Runtime

\* The script of the toolkit on a node that has none: one of its lines restarts
\* the runtime.
LEMMA ToolkitBegins ==
  ASSUME BaseInv, BeginScript, Head(todo) = Install("toolkit"), Expected("toolkit"), GPU,
         NotInstalled("toolkit")
  PROVE  ToolkitLines'
<1> DEFINE v == doc.toolkit[2]  r == OwnRuntime  c == ConfigureRuntime(r)
<1>1. /\ script' = ToolkitScript(doc.toolkit[1], v, r)
      /\ UNCHANGED <<disk, config, proc, doc>> /\ doc \in Document /\ Asked(doc.toolkit)
  BY DEF BeginScript, Install, node, BaseInv, Types, Expected, ScriptOf, OwnRuntime
<1>2. /\ doc.toolkit[1] \in {"package", "git", "latest"}
      /\ doc.toolkit[1] = "package" => v \in Version
  BY <1>1, DocumentShape DEF Asked
<1>3. Binary("toolkit") = "none" /\ "none" \notin Version
  BY BuildAssumption DEF Binary, NotInstalled
<1>4. \/ script' = ToolkitPackage(v, r) \/ script' = ToolkitGit(v, r)
      \/ script' = ToolkitLatest(branch, r)
  BY <1>1, <1>2, <1>3 DEF ToolkitScript, ToolkitPackageSkips, ToolkitGitSkips
<1>5. OwnRuntime' = r
  BY <1>1 DEF OwnRuntime, RuntimeOf
<1>6. Sequence(c) /\ Len(c) = 2 /\ c[1] = Add(r, {"nvidia"}) /\ c[2] = Restart(r)
  BY Literals DEF ConfigureRuntime
<1> HIDE DEF r, c
<1>7. ASSUME NEW s, NEW t, Sequence(s), Sequence(t), script' = s \o c \o t PROVE ToolkitLines'
  <2> DEFINE u == s \o c  i == Len(s) + 2
  <2>2. /\ Sequence(u) /\ Len(u) = Len(s) + Len(c) /\ Len(s) \in Nat
        /\ \A k \in 1..Len(c) : u[Len(s) + k] = c[k]
    <3>1. Sequence(s) /\ Sequence(c)
      BY <1>6, <1>7
    <3> QED  BY <3>1, Joined
  <2> HIDE DEF u
  <2>3. Len(u) = i /\ u[Len(s) + 1] = c[1] /\ u[Len(s) + 2] = c[2]
    <3>1. 1 \in 1..Len(c) /\ 2 \in 1..Len(c)
      BY <1>6
    <3> QED  BY <1>6, <2>2, <3>1
  <2>4. script' = u \o t
    BY <1>7 DEF u
  <2>5. /\ Len(script') = Len(u) + Len(t) /\ Len(t) \in Nat
        /\ \A k \in 1..Len(u) : script'[k] = u[k]
    <3>1. Sequence(u) /\ Sequence(t)
      BY <1>7, <2>2
    <3> QED  BY <2>4, <3>1, Joined
  <2>6. /\ i \in 1..Len(script') /\ i # 1 /\ i - 1 = Len(s) + 1
        /\ script'[Len(s) + 1] = Add(r, {"nvidia"}) /\ script'[i] = Restart(r)
    BY <1>6, <2>2, <2>3, <2>5
  <2>7. RestartsRuntime(i)'
    BY <1>5, <2>6 DEF RestartsRuntime
  <2> HIDE DEF i
  <2> QED  BY <2>6, <2>7 DEF ToolkitLines
<1>f. \A x : Sequence(Fetched("toolkit") \o <<x>>)
  BY Literals, AfterFetched
<1>8. CASE script' = ToolkitPackage(v, r)
  BY <1>7, <1>8, <1>f, Literals DEF ToolkitPackage, c
<1>9. CASE script' = ToolkitGit(v, r)
  BY <1>7, <1>9, <1>f, Literals DEF ToolkitGit, c
<1>10. CASE script' = ToolkitLatest(branch, r)
  BY <1>7, <1>10, <1>f, Literals DEF ToolkitLatest, c
<1> QED  BY <1>4, <1>8, <1>9, <1>10

\* What starting a daemon comes to.
LEMMA StartsIt ==
  ASSUME BaseInv, RunningScript, Effect, Step.do \in {"restart", "start"}, NEW r \in Runtime,
         Step.at = {r}
  PROVE  /\ Binary(r) # "none" /\ UNCHANGED <<disk, config>>
         /\ proc'[r] = IF Step.do = "start" /\ Up(r) THEN proc[r]
                       ELSE [build |-> Binary(r), config |-> config[r]]
<1>1. DaemonStep
  BY DEF Effect, PutStep, FetchStep, CloneStep, CopyStep, PackageStep, ConfigStep, StopStep,
         CheckStep, InitStep
<1>2. /\ Started(r).build # "none"
      /\ IF Step.do = "start" /\ Up(r) THEN UNCHANGED proc
         ELSE \E lost \in LostWith(r) : proc' = WithStarted(r, Started(r), lost)
  BY <1>1 DEF DaemonStep
<1>3. r \in Daemon /\ Started(r) \in [build : Content, config : SUBSET Setting]
  BY StartedTypes DEF Daemon, BaseInv
<1>4. Started(r) = [build |-> Binary(r), config |-> config[r]]
  BY DEF Started, Runtime
<1>5. proc'[r] = IF Step.do = "start" /\ Up(r) THEN proc[r] ELSE Started(r)
  BY <1>2, <1>3, StartedWith DEF BaseInv
<1> QED  BY <1>1, <1>2, <1>4, <1>5 DEF DaemonStep

LEMMA RuntimeLine ==
  ASSUME BaseInv, ScriptStep, At("runtime"), RuntimeLines
  PROVE  RuntimeLines'
<1> DEFINE c == "containerd"  n == Len(script)
<1>0. /\ RunningScript /\ Effect /\ UNCHANGED <<branch, doc, power, phase>> /\ [Next]_vars
      /\ "runtime" \in Part /\ c \in Runtime
  BY DEF ScriptStep, run, Next, Run, Part, Runtime
<1>1. PICK r \in Runtime : r = OwnRuntime
  BY OwnIsRuntime
<1>2. OwnRuntime' = r
  BY <1>0, <1>1 DEF OwnRuntime, RuntimeOf
<1>3. /\ Sequence(script) /\ n \in Nat \ {0} /\ Step = script[1] /\ StepOf("runtime", Step)
      /\ Moves \/ Refetches
  <2>1. Sequence(script) /\ n \in Nat \ {0} /\ Step = script[1] /\ 1 \in 1..n
    BY <1>0, RunningLine DEF BaseInv
  <2>2. StepOf("runtime", Step)
    BY <1>0, <2>1 DEF BaseInv, ScriptInv
  <2> QED  BY <1>0, <2>1, <2>2, EffectMoves DEF BaseInv
<1>4. Moves => Len(script') = n - 1 /\ \A i \in 1..(n - 1) : script'[i] = script[i + 1]
  BY <1>3 DEF Moves
<1>5. CASE RuntimeDone
  <2>1. RuntimeDone'
    <3> DEFINE s == IF r = "containerd" THEN {"cri"} ELSE {}
    <3>1. s \in SUBSET Setting /\ s \subseteq {"cri"} /\ Serves(r, s)
      BY <1>1, <1>5 DEF RuntimeDone, Setting
    <3> HIDE DEF s
    <3>2. Serves(r, s)'
      BY <1>0, <3>1, ServesStays
    <3> QED  BY <1>2, <3>2 DEF RuntimeDone, s
  <2> QED  BY <2>1 DEF RuntimeLines
<1>6. ASSUME NEW i \in 1..n, StartsRuntime(i) PROVE RuntimeLines'
  <2>1. /\ script[i].do \in {"restart", "start"} /\ script[i].at = {r}
        /\ r = c => /\ i = 1 => "cri" \in config[c]
                    /\ i # 1 => script[i - 1].do = "overwrite"
                    /\ script[i].do = "start" =>
                         ~Up(c) /\ \A j \in 1..(i - 1) : script[j].do \in Silent
    BY <1>1, <1>6 DEF StartsRuntime
  <2>r. CASE Refetches
    <3>1. /\ Step.do = "fetch" /\ UNCHANGED <<config, proc>>
          /\ Len(script') = n /\ script'[1].do = "put"
          /\ \A j \in 2..n : script'[j] = script[j]
      <4>1. Step.do = "fetch"
        BY <2>r DEF Refetches
      <4>2. FetchStep
        BY <1>0, <4>1 DEF Effect, PutStep, CloneStep, CopyStep, PackageStep, ConfigStep, DaemonStep,
                          StopStep, CheckStep, InitStep
      <4> QED  BY <2>r, <4>2 DEF Refetches, FetchStep, PutOneOf
    <3>2. i # 1 /\ i \in 2..n /\ (r = c => i - 1 # 1 /\ i - 1 \in 2..n)
      BY <1>3, <2>1, <3>1
    <3>3. /\ script'[i] = script[i] /\ i \in 1..Len(script')
          /\ r = c => script'[i - 1] = script[i - 1]
      BY <3>1, <3>2
    <3>4. \A j \in 1..(i - 1) : script'[j] = script[j] \/ script'[j].do = "put"
      <4> SUFFICES ASSUME NEW j \in 1..(i - 1) PROVE script'[j] = script[j] \/ script'[j].do = "put"
        OBVIOUS
      <4>1. j = 1 \/ j \in 2..n
        BY <1>3
      <4> QED  BY <3>1, <4>1
    <3>5. r = c /\ script[i].do = "start" =>
            ~Up(c)' /\ \A j \in 1..(i - 1) : script'[j].do \in Silent
      BY <2>1, <3>1, <3>4 DEF Silent, Up, Off
    <3>6. StartsRuntime(i)'
      BY <1>2, <2>1, <3>2, <3>3, <3>5 DEF StartsRuntime
    <3> QED  BY <3>3, <3>6 DEF RuntimeLines
  <2>2. CASE i = 1
    <3>1. /\ Binary(r) # "none" /\ UNCHANGED <<disk, config>>
          /\ proc'[r] = IF Step.do = "start" /\ Up(r) THEN proc[r]
                        ELSE [build |-> Binary(r), config |-> config[r]]
      BY <1>0, <1>3, <2>1, <2>2, StartsIt
    <3>2. Up(r)' /\ Binary(r)' # "none"
      BY <3>1 DEF Up, Off, Binary
    <3>3. r = c => "cri" \in config'[c] /\ "cri" \in proc'[c].config
      BY <1>3, <2>1, <2>2, <3>1
    <3>4. RuntimeDone'
      BY <1>2, <3>2, <3>3 DEF RuntimeDone, Serves
    <3> QED  BY <3>4 DEF RuntimeLines
  <2>3. CASE i # 1 /\ Moves
    <3>1. /\ i - 1 \in 1..(n - 1) /\ script'[i - 1] = script[i]
          /\ i - 1 \in 1..Len(script')
          /\ i - 1 # 1 => script'[(i - 1) - 1] = script[i - 1]
          /\ \A j \in 1..((i - 1) - 1) : j + 1 \in 1..(i - 1) /\ script'[j] = script[j + 1]
          /\ 1 \in 1..(i - 1)
      BY <1>3, <1>4, <2>3
    <3>2. r = c /\ i - 1 = 1 => "cri" \in config'[c]
      <4> SUFFICES ASSUME r = c, i - 1 = 1 PROVE "cri" \in config'[c]
        OBVIOUS
      <4>1. Step.do = "overwrite" /\ Step.at = {c} /\ Step.val = {"cri"}
        BY <1>1, <1>3, <2>1, <2>3 DEF StepOf, FilesOf
      <4>2. ConfigStep
        BY <1>0, <4>1 DEF Effect, PutStep, FetchStep, CloneStep, CopyStep, PackageStep, DaemonStep,
                          StopStep, CheckStep, InitStep
      <4> QED  BY <1>0, <4>1, <4>2 DEF ConfigStep, BaseInv, NodeTypes
    <3>3. r = c /\ script[i].do = "start" => ~Up(c)'
      <4> SUFFICES ASSUME r = c, script[i].do = "start" PROVE ~Up(c)'
        OBVIOUS
      <4>1. ~Up(c) /\ Step.do \in Silent
        BY <1>3, <2>1, <3>1
      <4>2. UNCHANGED proc
        BY <1>0, <4>1 DEF Silent, node, Effect, PutStep, FetchStep, CloneStep, CopyStep, PackageStep, ConfigStep,
                          DaemonStep, StopStep, CheckStep, InitStep
      <4> QED  BY <4>1, <4>2 DEF Up, Off
    <3>4. StartsRuntime(i - 1)'
      <4>1. r = c => IF i - 1 = 1 THEN "cri" \in config'[c] ELSE script'[(i - 1) - 1].do = "overwrite"
        BY <2>1, <2>3, <3>1, <3>2
      <4>2. r = c /\ script[i].do = "start" =>
              \A j \in 1..((i - 1) - 1) : script'[j].do \in Silent
        BY <2>1, <3>1
      <4> QED  BY <1>2, <2>1, <3>1, <3>3, <4>1, <4>2 DEF StartsRuntime
    <3> QED  BY <3>1, <3>4 DEF RuntimeLines
  <2> QED  BY <1>3, <2>r, <2>2, <2>3
<1> QED  BY <1>5, <1>6 DEF RuntimeLines

LEMMA ToolkitLine ==
  ASSUME BaseInv, ScriptStep, At("toolkit"), ToolkitLines
  PROVE  ToolkitLines'
<1> DEFINE n == Len(script)  nvidia == {"nvidia"}
<1>0. /\ RunningScript /\ Effect /\ UNCHANGED <<branch, doc, power, phase>> /\ [Next]_vars
      /\ "toolkit" \in Part /\ "runtime" \in Part \ {"toolkit"}
  BY DEF ScriptStep, run, Next, Run, Part
<1>1. PICK r \in Runtime : r = OwnRuntime
  BY OwnIsRuntime
<1>2. OwnRuntime' = r
  BY <1>0, <1>1 DEF OwnRuntime, RuntimeOf
<1>3. Sequence(script) /\ n \in Nat \ {0} /\ Step = script[1] /\ (Moves \/ Refetches)
  BY <1>0, RunningLine, EffectMoves DEF BaseInv
<1>4. Moves => Len(script') = n - 1 /\ \A i \in 1..(n - 1) : script'[i] = script[i + 1]
  BY <1>3 DEF Moves
<1>5. CASE ToolkitDone
  <2>1. ~At("runtime")
    BY <1>0, Order DEF BaseInv
  <2>2. nvidia \in SUBSET Setting /\ Serves(r, nvidia)
    BY <1>1, <1>5 DEF ToolkitDone, Setting
  <2> HIDE DEF nvidia
  <2>3. Serves(r, nvidia)'
    BY <1>0, <2>1, <2>2, ServesStays
  <2> QED  BY <1>2, <2>3 DEF ToolkitDone, ToolkitLines, nvidia
<1>6. ASSUME NEW i \in 1..n, RestartsRuntime(i) PROVE ToolkitLines'
  <2>1. /\ script[i] = Restart(r) /\ (i = 1 => "nvidia" \in config[r])
        /\ i # 1 => script[i - 1] = Add(r, {"nvidia"})
    BY <1>1, <1>6 DEF RestartsRuntime
  <2>r. CASE Refetches
    <3>1. /\ Step.do = "fetch" /\ Len(script') = n /\ \A j \in 2..n : script'[j] = script[j]
      BY <2>r DEF Refetches
    <3>2. i # 1 /\ i - 1 # 1 /\ i \in 2..n /\ i - 1 \in 2..n
      BY <1>3, <2>1, <3>1 DEF Add, Restart
    <3>3. RestartsRuntime(i)'
      BY <1>2, <2>1, <3>1, <3>2 DEF RestartsRuntime
    <3> QED  BY <3>1, <3>3 DEF ToolkitLines
  <2>2. CASE i = 1
    <3>0. Step.do = "restart" /\ Step.at = {r}
      BY <1>3, <2>1, <2>2 DEF Restart
    <3>1. /\ Binary(r) # "none" /\ UNCHANGED <<disk, config>>
          /\ proc'[r] = [build |-> Binary(r), config |-> config[r]]
      BY <1>0, <3>0, StartsIt
    <3>2. Up(r)' /\ Binary(r)' # "none" /\ "nvidia" \in config'[r] /\ "nvidia" \in proc'[r].config
      BY <2>1, <2>2, <3>1 DEF Up, Off, Binary
    <3> QED  BY <1>2, <3>2 DEF ToolkitDone, Serves, ToolkitLines
  <2>3. CASE i # 1 /\ Moves
    <3>1. /\ i - 1 \in 1..(n - 1) /\ script'[i - 1] = script[i]
          /\ i - 1 \in 1..Len(script')
          /\ i - 1 # 1 => script'[(i - 1) - 1] = script[i - 1]
      BY <1>3, <1>4, <2>3
    <3>2. i - 1 = 1 => "nvidia" \in config'[r]
      <4> SUFFICES ASSUME i - 1 = 1 PROVE "nvidia" \in config'[r]
        OBVIOUS
      <4>1. Step.do = "add" /\ Step.at = {r} /\ Step.val = {"nvidia"}
        BY <1>3, <2>1, <2>3 DEF Add
      <4>2. ConfigStep
        BY <1>0, <4>1 DEF Effect, PutStep, FetchStep, CloneStep, CopyStep, PackageStep, DaemonStep,
                          StopStep, CheckStep, InitStep
      <4> QED  BY <4>1, <4>2 DEF ConfigStep, BaseInv, NodeTypes
    <3>3. RestartsRuntime(i - 1)'
      <4>1. IF i - 1 = 1 THEN "nvidia" \in config'[r] ELSE script'[(i - 1) - 1] = Add(r, {"nvidia"})
        BY <2>1, <2>3, <3>1, <3>2
      <4> QED  BY <1>2, <2>1, <3>1, <4>1 DEF RestartsRuntime
    <3> QED  BY <3>1, <3>3 DEF ToolkitLines
  <2> QED  BY <1>3, <2>r, <2>2, <2>3
<1> QED  BY <1>5, <1>6 DEF ToolkitLines

\* The two together, when the place in the run and the document are the same.
LEMMA DoneStays ==
  ASSUME BaseInv, [Next]_vars, UNCHANGED doc
  PROVE  /\ RuntimeDone => RuntimeDone'
         /\ ~(ScriptStep /\ At("runtime")) => (ToolkitDone => ToolkitDone')
<1>1. PICK r \in Runtime : r = OwnRuntime
  BY OwnIsRuntime
<1>2. OwnRuntime' = r
  BY <1>1 DEF OwnRuntime, RuntimeOf
<1> DEFINE s == IF r = "containerd" THEN {"cri"} ELSE {}  nvidia == {"nvidia"}
<1>3. s \in SUBSET Setting /\ s \subseteq {"cri"} /\ nvidia \in SUBSET Setting
  BY DEF Setting
<1>4. /\ RuntimeDone <=> Serves(r, s)
      /\ RuntimeDone' <=> Serves(r, s)'
      /\ ToolkitDone <=> Serves(r, nvidia)
      /\ ToolkitDone' <=> Serves(r, nvidia)'
  BY <1>1, <1>2 DEF RuntimeDone, ToolkitDone
<1> HIDE DEF s, nvidia
<1> QED  BY <1>3, <1>4, ServesStays

\* Nothing but its own lines takes a script that has still to start the runtime
\* to something else.
LEMMA LinesStay ==
  ASSUME BaseInv, [Next]_vars, UNCHANGED <<doc, script>>, UNCHANGED node \/ DaemonDies
  PROVE  /\ RuntimeLines => RuntimeLines'
         /\ ~(ScriptStep /\ At("runtime")) => (ToolkitLines => ToolkitLines')
<1>1. OwnRuntime' = OwnRuntime
  BY DEF OwnRuntime, RuntimeOf
<1>2. UNCHANGED config
  BY DEF node, DaemonDies
<1>3. ~Up("containerd") => ~Up("containerd")'
  <2>1. CASE UNCHANGED node
    BY <2>1 DEF node, Up, Off
  <2>2. CASE DaemonDies
    <3>1. "containerd" \in Daemon /\ "containerd" \notin {"cri-docker", "kind"}
      BY DEF Daemon, Runtime
    <3>2. ~Up("containerd") => proc'["containerd"] = proc["containerd"]
      BY <2>2, <3>1, DaemonLost DEF BaseInv
    <3> QED  BY <3>2 DEF Up, Off
  <2> QED  BY <2>1, <2>2
<1>4. ASSUME NEW i \in 1..Len(script), StartsRuntime(i) PROVE StartsRuntime(i)'
  BY <1>1, <1>2, <1>3, <1>4 DEF StartsRuntime
<1>5. ASSUME NEW i \in 1..Len(script), RestartsRuntime(i) PROVE RestartsRuntime(i)'
  BY <1>1, <1>2, <1>5 DEF RestartsRuntime
<1>6. RuntimeLines => RuntimeLines'
  BY <1>4, DoneStays DEF RuntimeLines
<1>7. ~(ScriptStep /\ At("runtime")) => (ToolkitLines => ToolkitLines')
  BY <1>5, DoneStays DEF ToolkitLines
<1> QED  BY <1>6, <1>7

LEMMA FirstStep ==
  ASSUME BaseInv, BaseInv', RunningInv, FirstInv, [Next]_vars
  PROVE  FirstInv'
<1> USE DEF BaseInv
<1>0. /\ "runtime" \in Part /\ "toolkit" \in Part
      /\ Rank(Install("runtime")) < Rank(Install("toolkit")) /\ "runtime" # "toolkit"
  BY Ranks DEF Part
<1> SUFFICES ASSUME fresh' PROVE FirstInv'
  BY DEF FirstInv
<1>1. fresh
  BY StillFresh
<1> DEFINE none == \A r \in Runtime : NotInstalled(r)
           here == /\ phase = "idle" \/ Waits("runtime") => none
                   /\ phase = "idle" \/ Waits("toolkit") => NotInstalled("toolkit")
                   /\ At("runtime") => RuntimeLines
                   /\ Passed("runtime") => RuntimeDone
                   /\ GPU /\ At("toolkit") => ToolkitLines
                   /\ GPU /\ Passed("toolkit") => ToolkitDone
<1>2. here
  BY <1>1 DEF FirstInv
<1>3. /\ ~(ScriptStep /\ At("runtime")) => (none => none')
      /\ ~(ScriptStep /\ At("toolkit")) => (NotInstalled("toolkit") => NotInstalled("toolkit")')
  BY InstalledOnlyThere
<1>4. here'
  <2>1. CASE phase' = "idle"
    <3>1. phase = "idle" /\ ~ScriptStep
      BY <2>1, StillFresh
    <3> QED  BY <1>2, <1>3, <2>1, <3>1 DEF At, Passed
  <2>2. CASE StartRun
    <3>1. \A c \in Part : ~Passed(c)' /\ ~At(c)'
      BY <2>2, AtStart
    <3>2. phase = "idle" /\ ~ScriptStep
      BY <2>2 DEF StartRun, ScriptStep, RunningScript
    <3> QED  BY <1>0, <1>2, <1>3, <3>1, <3>2
  <2>3. CASE BeginScript
    <3>1. UNCHANGED <<node, doc, todo, power>> /\ phase = "next" /\ phase' = "script" /\ ~ScriptStep
      BY <2>3 DEF BeginScript, ScriptStep, RunningScript
    <3>2. \A c \in Part : (Passed(c)' => Passed(c)) /\ (Waits(c)' => Waits(c))
      BY <3>1, SamePlace
    <3>3. \A c \in Part : At(c)' => Head(todo) = Install(c) /\ Waits(c) /\ Expected(c)
      <4> SUFFICES ASSUME NEW c \in Part, At(c)' PROVE Head(todo) = Install(c) /\ Waits(c) /\ Expected(c)
        OBVIOUS
      <4>1. Head(todo) = Install(c)
        BY <3>1 DEF At
      <4>2. Head(todo) = todo[1] /\ 1 \in 1..Len(todo)
        BY <2>3, EmptySeq, LenProperties DEF BeginScript, TodoInv, Within
      <4>3. Has(todo, c) /\ Expected(c)
        BY <4>1, <4>2 DEF TodoInv, Has, In
      <4> QED  BY <3>1, <4>1, <4>3 DEF Waits, At
    <3>4. At("runtime")' => RuntimeLines'
      BY <1>0, <1>2, <2>3, <3>3, RuntimeBegins
    <3>5. GPU /\ At("toolkit")' => ToolkitLines'
      BY <1>0, <1>2, <2>3, <3>3, ToolkitBegins
    <3>6. (RuntimeDone => RuntimeDone') /\ (ToolkitDone => ToolkitDone')
      BY <3>1, DoneStays
    <3> QED  BY <1>0, <1>2, <1>3, <3>1, <3>2, <3>4, <3>5, <3>6
  <2>4. CASE ScriptStep
    <3>1. UNCHANGED <<doc, todo, power, phase>> /\ phase = "script"
      BY <2>4 DEF ScriptStep, run, RunningScript
    <3>2. \A c \in Part : (Passed(c)' => Passed(c)) /\ (At(c)' => At(c)) /\ (Waits(c)' => Waits(c))
      BY <3>1, SamePlace
    <3>3. /\ Waits("runtime") => ~At("runtime")
          /\ Waits("toolkit") => ~At("toolkit")
          /\ Passed("toolkit") => ~At("runtime")
      BY <1>0, Order
    <3>4. At("runtime") => RuntimeLines'
      BY <1>2, <2>4, RuntimeLine
    <3>5. GPU /\ At("toolkit") => ToolkitLines'
      BY <1>2, <2>4, ToolkitLine
    <3>6. (RuntimeDone => RuntimeDone') /\ (Passed("toolkit") /\ ToolkitDone => ToolkitDone')
      BY <3>1, <3>3, DoneStays
    <3> QED  BY <1>0, <1>2, <1>3, <3>1, <3>2, <3>3, <3>4, <3>5, <3>6
  <2>5. CASE RebootStep
    <3>1. /\ UNCHANGED <<node, doc, todo, phase>> /\ phase = "script" /\ RunningScript
          /\ Step.do = "reboot"
      BY <2>5 DEF RebootStep, RunningScript
    <3>2. PICK c \in Part : At(c) /\ StepOf(c, Step)
      BY <3>1, RunningLine
    <3>3. c = "kernel" /\ "kernel" \notin {"runtime", "toolkit"}
      BY <3>1, <3>2 DEF StepOf
    <3>4. ~At("runtime") /\ ~At("toolkit")
      BY <1>0, <3>2, <3>3, Order
    <3>5. \A e \in Part : (Passed(e)' => Passed(e)) /\ (At(e)' => At(e)) /\ (Waits(e)' => Waits(e))
      BY <3>1, SamePlace
    <3>6. (RuntimeDone => RuntimeDone') /\ (ToolkitDone => ToolkitDone')
      BY <3>1, <3>4, DoneStays
    <3> QED  BY <1>0, <1>2, <1>3, <3>1, <3>4, <3>5, <3>6
  <2>6. CASE ScriptEnds
    <3>1. /\ \A c \in Part : (Passed(c)' => Passed(c) \/ At(c)) /\ ~At(c)' /\ (Waits(c)' => Waits(c))
          /\ Len(script) = 0
      BY <2>6, AtEnd
    <3>2. UNCHANGED <<node, doc>> /\ phase = "script" /\ ~ScriptStep /\ phase' # "idle"
      BY <2>6 DEF ScriptEnds, ScriptStep, RunningScript
    <3>3. (RuntimeLines => RuntimeDone) /\ (ToolkitLines => ToolkitDone)
      BY <3>1 DEF RuntimeLines, ToolkitLines
    <3>4. (RuntimeDone => RuntimeDone') /\ (ToolkitDone => ToolkitDone')
      BY <3>2, DoneStays
    <3> QED  BY <1>0, <1>2, <1>3, <3>1, <3>2, <3>3, <3>4
  <2>7. CASE /\ phase # "idle" /\ UNCHANGED <<todo, doc, script, fresh>>
             /\ phase' = phase \/ (phase = "reboot" /\ phase' = "next")
             /\ \/ UNCHANGED <<node, power>>
                \/ NodeGoesDown /\ phase # "script"
                \/ (NodeComesUp /\ phase # "script") \/ DaemonDies
             /\ ~ScriptStep
    <3>0. phase' # "idle"
      BY <2>7
    <3>1. \A c \in Part : /\ Passed(c)' => Passed(c)
                          /\ At(c)' => At(c) /\ phase = "script"
                          /\ Waits(c)' => Waits(c)
      <4>1. \A c \in Part : At(c)' => UNCHANGED phase /\ phase = "script"
        BY <2>7 DEF At
      <4>2. phase = "script" => UNCHANGED phase
        BY <2>7
      <4> QED  BY <2>7, <3>0, <4>1, <4>2, SamePlace
    <3>2. (RuntimeDone => RuntimeDone') /\ (ToolkitDone => ToolkitDone')
      BY <2>7, DoneStays
    <3>3. phase = "script" => (RuntimeLines => RuntimeLines') /\ (ToolkitLines => ToolkitLines')
      BY <2>7, LinesStay
    <3> QED  BY <1>0, <1>2, <1>3, <2>7, <3>0, <3>1, <3>2, <3>3
  <2> HIDE DEF here
  <2> QED  BY <2>1, <2>2, <2>3, <2>4, <2>5, <2>6, <2>7, ControlSteps
<1> QED  BY <1>4 DEF FirstInv

\* The runtime's and the toolkit's scripts in the first run: either their end has
\* been reached, or a line that brings it about is still to come.
THEOREM First == Spec => []FirstInv
<1>1. Init => FirstInv
  <2> SUFFICES ASSUME Init PROVE FirstInv
    OBVIOUS
  <2>1. \A r \in Runtime : <<r, "package">> \in Item /\ <<r, "local">> \in Item
        /\ <<"toolkit", "package">> \in Item /\ <<"toolkit", "local">> \in Item
    BY DEF Item, Runtime
  <2>2. (\A r \in Runtime : NotInstalled(r)) /\ NotInstalled("toolkit")
    BY <2>1 DEF Init, NodeInit, NotInstalled, Item, Runtime
  <2> QED  BY <2>2 DEF FirstInv, Init, At, Passed
<1>2. BaseInv /\ BaseInv' /\ RunningInv /\ FirstInv /\ [Next]_vars => FirstInv'
  BY FirstStep
<1> QED  BY <1>1, <1>2, Based, WhatRunsIsThere, PTL DEF Spec

\* The first run on a node that is about to report success leaves a runtime
\* that runs and has read what the kubelet and the GPU need: no script undoes
\* what another has written, and every daemon is started after the last of them.
THEOREM FirstServes == Spec => []FirstRunServes
<1>1. BaseInv /\ FirstInv => FirstRunServes
  <2> SUFFICES ASSUME BaseInv, FirstInv, Done, fresh, Full PROVE RuntimeServes /\ ToolkitServes
    BY DEF FirstRunServes
  <2>1. Len(todo) = 0 /\ phase = "next" /\ power = "up"
    BY EmptySeq DEF Done
  <2>2. ASSUME Asked(doc.runtime) PROVE RuntimeServes
    <3>1. Passed("runtime")
      BY <2>1, <2>2 DEF Passed, Has, In, Expected
    <3> QED  BY <2>1, <3>1 DEF FirstInv, RuntimeDone, Serves, RuntimeServes, OwnRuntime
  <2>3. ASSUME Asked(doc.toolkit), GPU PROVE ToolkitServes
    <3>1. Passed("toolkit")
      BY <2>1, <2>3 DEF Passed, Has, In, Expected
    <3> QED  BY <2>1, <2>3, <3>1 DEF FirstInv, ToolkitDone, Serves, ToolkitServes, OwnRuntime
  <2> QED  BY <2>2, <2>3 DEF RuntimeServes, ToolkitServes
<1> QED  BY <1>1, Based, First, PTL

-----------------------------------------------------------------------------
(* The runtime, in every run                                               *)

\* Only the runtime of the document is ever installed.
RuntimeInv == \A r \in Runtime : ~Asked(doc.runtime) \/ r # OwnRuntime => NotInstalled(r)

\* A runtime that a run has installed is there and, unless the node is down, runs.
RuntimeUp ==
  /\ Passed("runtime") => Serves(OwnRuntime, {})
  /\ At("runtime") =>
       Serves(OwnRuntime, {}) \/ \E i \in 1..Len(script) : script[i] = Need(OwnRuntime)

\* What a step leaves of the document.
LEMMA DocumentKept ==
  ASSUME BaseInv, [Next]_vars
  PROVE  /\ UNCHANGED doc \/ (Update /\ phase = "idle")
         /\ Asked(doc.runtime) => doc'.runtime = doc.runtime
         /\ Asked(doc.kubernetes) => doc'.kubernetes = doc.kubernetes
         /\ OwnRuntime' = "containerd" => OwnRuntime = "containerd"
<1>1. UNCHANGED doc \/ Update
  BY DEF Next, Run, vars, StartRun, RefuseRun, BeginScript, TemplateFails, ScriptStep, run,
         RebootStep, ScriptFails, ScriptEnds, Reconnect, Finish, CutOff, InitFails, GiveUp,
         NodeGoesDown, NodeComesUp, UserReboots, DaemonDies, BranchMoves, EndRun
<1>2. CASE UNCHANGED doc
  BY <1>2 DEF OwnRuntime, RuntimeOf
<1>3. CASE Update
  <2>1. doc \in Document /\ doc' \in Updated(doc) /\ phase = "idle"
    BY <1>3 DEF Update, BaseInv, Types
  <2>2. /\ doc' \in Document
        /\ \/ \E x : doc' = [doc EXCEPT !.driver = x]
           \/ \E x : doc' = [doc EXCEPT !.runtime = x] /\ ~Asked(doc.runtime)
           \/ \E x : doc' = [doc EXCEPT !.toolkit = x]
           \/ \E x : doc' = [doc EXCEPT !.kubernetes = x] /\ ~Asked(doc.kubernetes)
    BY <2>1, UpdatedDocuments
  <2>3. /\ Asked(doc.runtime) => doc'.runtime = doc.runtime
        /\ Asked(doc.kubernetes) => doc'.kubernetes = doc.kubernetes
    BY <2>1, <2>2 DEF Document
  <2>4. OwnRuntime' = "containerd" => OwnRuntime = "containerd"
    BY <2>3 DEF OwnRuntime, RuntimeOf, Asked
  <2> QED  BY <1>3, <2>1, <2>3, <2>4
<1> QED  BY <1>1, <1>2, <1>3

LEMMA RuntimeInvStep ==
  ASSUME BaseInv, RuntimeInv, [Next]_vars
  PROVE  RuntimeInv'
<1> USE DEF BaseInv
<1>1. SUFFICES ASSUME NEW r \in Runtime, ~Asked(doc.runtime)' \/ r # OwnRuntime' PROVE NotInstalled(r)'
  BY DEF RuntimeInv
<1>2. ~Asked(doc.runtime) \/ r # OwnRuntime
  <2> SUFFICES ASSUME Asked(doc.runtime) PROVE r # OwnRuntime
    OBVIOUS
  <2>1. doc'.runtime = doc.runtime
    BY DocumentKept
  <2> QED  BY <1>1, <2>1 DEF Asked, OwnRuntime, RuntimeOf
<1>3. NotInstalled(r)
  BY <1>2 DEF RuntimeInv
<1>4. CASE ~(ScriptStep /\ At("runtime"))
  BY <1>3, <1>4, InstalledOnlyThere
<1>5. CASE ScriptStep /\ At("runtime")
  <2>1. RunningScript /\ Effect /\ UNCHANGED branch /\ "runtime" \in Part
    BY <1>5 DEF ScriptStep, Part
  <2>2. Change("runtime") /\ Expected("runtime")
    <3>1. Head(todo) = todo[1] /\ 1 \in 1..Len(todo)
      BY <1>5, EmptySeq, LenProperties DEF At, TodoInv, Within
    <3>2. Has(todo, "runtime")
      BY <1>5, <3>1 DEF At, Has, In
    <3> QED  BY <1>5, <2>1, <3>2, EffectChange DEF TodoInv
  <2>3. r # OwnRuntime
    BY <1>2, <2>2 DEF Expected
  <2>4. /\ <<r, "package">> \in Item /\ <<r, "local">> \in Item
        /\ <<r, "package">> \notin ItemsOf("runtime") /\ <<r, "local">> \notin ItemsOf("runtime")
    BY <2>3 DEF Item, ItemsOf, Runtime
  <2> QED  BY <1>3, <2>2, <2>4 DEF NotInstalled, Change
<1> QED  BY <1>4, <1>5

\* A runtime that runs is there.
LEMMA UpServes ==
  ASSUME RunningInv, NEW r \in Runtime, Up(r)
  PROVE  Serves(r, {})
<1>1. r \in Daemon \ {"kind", "driver"}
  BY DEF Daemon, Runtime
<1>2. Started(r).build = Binary(r)
  BY DEF Started, Runtime
<1> QED  BY <1>1, <1>2 DEF RunningInv, Startable, Serves

\* The script of a runtime finds it running, or asks for it in the end.
LEMMA RuntimeAsks ==
  ASSUME BaseInv, RunningInv, BeginScript, Head(todo) = Install("runtime"), Expected("runtime")
  PROVE  Serves(OwnRuntime, {}) \/ \E i \in 1..Len(script') : script'[i] = Need(OwnRuntime)
<1> DEFINE v == doc.runtime[3]  r == OwnRuntime
<1>1. /\ script' = ScriptOf(<<"install", "runtime">>) /\ ~TemplateRefuses(<<"install", "runtime">>)
      /\ doc \in Document /\ Asked(doc.runtime)
  BY DEF BeginScript, Install, BaseInv, Types, Expected
<1>2. /\ doc.runtime[2] \in {"package", "git", "latest"} /\ r \in Runtime
      /\ doc.runtime[2] = "latest" => r = "containerd"
  BY <1>1, DocumentShape DEF OwnRuntime, Asked, TemplateRefuses
<1>3. SUFFICES ASSUME ~Up(r) PROVE \E i \in 1..Len(script') : script'[i] = Need(r)
  BY <1>2, UpServes
<1>4. \A c : ~FromCommit(r, c)
  BY <1>3 DEF FromCommit
<1>f. ASSUME NEW t, Sequence(t), script' = Fetched(r) \o t, NEW i \in 1..Len(t), t[i] = Need(r)
      PROVE  \E j \in 1..Len(script') : script'[j] = Need(r)
  <2>1. Sequence(t)
    BY <1>f
  <2>2. /\ Len(t) \in Nat /\ Len(script') = 2 + Len(t)
        /\ \A k \in 1..Len(t) : script'[2 + k] = t[k]
    BY <1>f, <2>1, AfterFetched
  <2>3. 2 + i \in 1..Len(script') /\ script'[2 + i] = t[i]
    BY <2>2
  <2> QED  BY <1>f, <2>3
<1>5. CASE r = "containerd"
  <2>1. script' = ContainerdScript(doc.runtime[2], v)
    BY <1>1, <1>5 DEF ScriptOf, OwnRuntime
  <2>2. \/ script' = ContainerdPackage(v) \/ script' = ContainerdGit(v)
        \/ script' = ContainerdLatest(branch)
    <3>1. ~FromCommit("containerd", v) /\ ~FromCommit("containerd", branch) /\ ~Up("containerd")
      BY <1>3, <1>4, <1>5
    <3> QED  BY <1>2, <2>1, <3>1 DEF ContainerdScript, ContainerdPackageSkips
  <2>3. CASE script' = ContainerdPackage(v)
    <3> DEFINE t == << Package("containerd", OrNewest(v)), Overwrite("containerd", {"cri"}),
                       Restart("containerd"), Need("containerd") >>
    <3>1. Sequence(t) /\ 4 \in 1..Len(t) /\ t[4] = Need(r) /\ script' = Fetched(r) \o t
      BY <1>5, <2>3, Literals DEF ContainerdPackage
    <3> HIDE DEF t
    <3> QED  BY <1>f, <3>1
  <2>4. CASE script' = ContainerdGit(v)
    <3> DEFINE t == << Put("containerd", "local", v), Overwrite("containerd", {"cri"}),
                       Start("containerd"), Need("containerd"), Put("containerd", "provenance", v) >>
    <3>1. Sequence(t) /\ 4 \in 1..Len(t) /\ t[4] = Need(r) /\ script' = Fetched(r) \o t
      BY <1>5, <2>4, Literals DEF ContainerdGit
    <3> HIDE DEF t
    <3> QED  BY <1>f, <3>1
  <2>5. CASE script' = ContainerdLatest(branch)
    <3> DEFINE t == << Clone({<<"containerd", "local">>}), Overwrite("containerd", {"cri"}),
                       Start("containerd"), Need("containerd"),
                       Put("containerd", "provenance", branch) >>
    <3>1. Sequence(t) /\ 4 \in 1..Len(t) /\ t[4] = Need(r) /\ script' = Fetched(r) \o t
      BY <1>5, <2>5, Literals DEF ContainerdLatest
    <3> HIDE DEF t
    <3> QED  BY <1>f, <3>1
  <2> QED  BY <2>2, <2>3, <2>4, <2>5
<1>6. CASE r = "crio"
  <2>1. script' = CrioScript(doc.runtime[2], v) /\ doc.runtime[2] \in {"package", "git"}
    BY <1>1, <1>2, <1>6 DEF ScriptOf, OwnRuntime
  <2>2. script' = CrioPackage(v) \/ script' = CrioGit(v)
    <3>1. ~FromCommit("crio", v) /\ ~Up("crio")
      BY <1>3, <1>4, <1>6
    <3> QED  BY <2>1, <3>1 DEF CrioScript, CrioPackageSkips
  <2>3. CASE script' = CrioPackage(v)
    <3> DEFINE t == << Package("crio", OrNewest(v)), Start("crio"), Need("crio") >>
    <3>1. Sequence(t) /\ 3 \in 1..Len(t) /\ t[3] = Need(r) /\ script' = Fetched(r) \o t
      BY <1>6, <2>3, Literals DEF CrioPackage
    <3> HIDE DEF t
    <3> QED  BY <1>f, <3>1
  <2>4. CASE script' = CrioGit(v)
    <3> DEFINE t == << Put("crio", "local", v), Add("crio", {"cri"}), Start("crio"), Need("crio"),
                       Put("crio", "provenance", v) >>
    <3>1. Sequence(t) /\ 4 \in 1..Len(t) /\ t[4] = Need(r) /\ script' = Fetched(r) \o t
      BY <1>6, <2>4, Literals DEF CrioGit
    <3> HIDE DEF t
    <3> QED  BY <1>f, <3>1
  <2> QED  BY <2>2, <2>3, <2>4
<1>7. CASE r = "docker"
  <2>1. script' = DockerScript(doc.runtime[2], v) /\ doc.runtime[2] \in {"package", "git"}
    BY <1>1, <1>2, <1>7 DEF ScriptOf, OwnRuntime
  <2>2. ASSUME NEW s, NEW t, Sequence(s), Sequence(t), script' = s \o t, NEW i \in 1..Len(t),
               t[i] = Need("docker")
        PROVE  \E j \in 1..Len(script') : script'[j] = Need(r)
    <3>1. /\ Len(s) \in Nat /\ Len(t) \in Nat /\ Len(script') = Len(s) + Len(t)
          /\ script'[Len(s) + i] = t[i]
      <4>1. Sequence(s) /\ Sequence(t)
        BY <2>2
      <4> QED  BY <2>2, <4>1, Joined
    <3>2. Len(s) + i \in 1..Len(script')
      BY <3>1
    <3> QED  BY <1>7, <2>2, <3>1, <3>2
  <2>3. CASE doc.runtime[2] = "package"
    <3> DEFINE s == IF DockerPackageSkips(v) THEN << >> ELSE DockerPackage(v)
    <3>1. script' = s \o CriDockerd
      BY <2>1, <2>3 DEF DockerScript
    <3>2. Sequence(s)
      BY Literals, AfterFetched DEF DockerPackage
    <3>3. Sequence(CriDockerd) /\ 4 \in 1..Len(CriDockerd) /\ CriDockerd[4] = Need("docker")
      BY Literals DEF CriDockerd
    <3> HIDE DEF s
    <3> QED  BY <2>2, <3>1, <3>2, <3>3
  <2>4. CASE doc.runtime[2] = "git"
    <3> DEFINE s == IF FromCommit("docker", v) THEN << >> ELSE DockerGit(v)
    <3>1. script' = s \o CriDockerdGit(v)
      BY <2>1, <2>4 DEF DockerScript
    <3>2. Sequence(s)
      BY Literals, AfterFetched DEF DockerGit
    <3>3. /\ Sequence(CriDockerdGit(v)) /\ 2 \in 1..Len(CriDockerdGit(v))
          /\ CriDockerdGit(v)[2] = Need("docker")
      BY Literals DEF CriDockerdGit
    <3> HIDE DEF s
    <3> QED  BY <2>2, <3>1, <3>2, <3>3
  <2> QED  BY <2>1, <2>3, <2>4
<1> QED  BY <1>2, <1>5, <1>6, <1>7 DEF Runtime

LEMMA RuntimeUpStep ==
  ASSUME BaseInv, BaseInv', RunningInv, RuntimeUp, [Next]_vars
  PROVE  RuntimeUp'
<1> USE DEF BaseInv
<1> DEFINE c == "runtime"
<1>1. c \in Part /\ {} \in SUBSET Setting /\ {} \subseteq {"cri"}
  BY DEF Part
<1>2. SUFFICES ASSUME phase' # "idle" PROVE RuntimeUp'
  BY DEF RuntimeUp, At, Passed
<1>3. UNCHANGED doc
  BY <1>2, DocumentKept DEF Update
<1>4. PICK r \in Runtime : r = OwnRuntime /\ r = OwnRuntime'
  BY <1>3, OwnIsRuntime DEF OwnRuntime, RuntimeOf
<1> DEFINE done == Serves(r, {})  asks == \E i \in 1..Len(script) : script[i] = Need(r)
<1>5. done => done'
  BY <1>1, ServesStays
<1>6. /\ RuntimeUp <=> (Passed(c) => done) /\ (At(c) => done \/ asks)
      /\ RuntimeUp' <=> (Passed(c)' => done') /\ (At(c)' => done' \/ asks')
  BY <1>4 DEF RuntimeUp
<1>7. CASE StartRun
  BY <1>1, <1>6, <1>7, AtStart
<1>8. CASE BeginScript
  <2>1. /\ UNCHANGED <<todo, doc>> /\ phase = "next" /\ phase' = "script" /\ Len(todo) # 0
    BY <1>8, EmptySeq, LenProperties DEF BeginScript, TodoInv, Within
  <2>2. Passed(c)' => Passed(c)
    BY <1>1, <2>1, SamePlace
  <2>3. ASSUME At(c)' PROVE done' \/ asks'
    <3>1. Head(todo) = Install(c) /\ Head(todo) = todo[1] /\ 1 \in 1..Len(todo)
      BY <2>1, <2>3, LenProperties DEF At, TodoInv, Within
    <3>2. Expected(c)
      BY <1>1, <3>1 DEF TodoInv, Has, In
    <3> QED  BY <1>4, <1>5, <1>8, <3>1, <3>2, RuntimeAsks
  <2> QED  BY <1>5, <1>6, <2>2, <2>3
<1>9. CASE ScriptStep
  <2>1. /\ UNCHANGED <<doc, todo, power, phase>> /\ phase = "script" /\ RunningScript /\ Effect
    BY <1>9 DEF ScriptStep, run, RunningScript
  <2>2. (Passed(c)' => Passed(c)) /\ (At(c)' => At(c))
    BY <1>1, <2>1, SamePlace
  <2>3. ASSUME At(c), asks PROVE done' \/ asks'
    <3>1. PICK i \in 1..Len(script) : script[i] = Need(r)
      BY <2>3
    <3>2. Sequence(script) /\ Len(script) \in Nat \ {0} /\ Step = script[1] /\ 1 \in 1..Len(script)
      BY <2>1, RunningLine
    <3>4. Moves \/ Refetches
      BY <2>1, EffectMoves
    <3>r. CASE Refetches
      <4>1. /\ Step.do = "fetch" /\ Len(script') = Len(script)
            /\ \A j \in 2..Len(script) : script'[j] = script[j]
        BY <3>r DEF Refetches
      <4>2. i # 1 /\ i \in 2..Len(script)
        BY <3>1, <3>2, <4>1 DEF Need
      <4> QED  BY <3>1, <4>1, <4>2
    <3>5. CASE i = 1
      <4>1. Holds(r) /\ UNCHANGED <<disk, config, proc>>
        BY <2>1, <3>1, <3>2, <3>5, KnownLines
      <4>2. Up(r)
        BY <4>1 DEF Holds, Runtime, Daemon
      <4> QED  BY <1>5, <4>2, UpServes
    <3>6. CASE i # 1 /\ Moves
      <4>1. i - 1 \in 1..Len(script') /\ script'[i - 1] = script[(i - 1) + 1] /\ (i - 1) + 1 = i
        BY <3>2, <3>6 DEF Moves
      <4> QED  BY <3>1, <4>1
    <3> QED  BY <3>4, <3>r, <3>5, <3>6
  <2> QED  BY <1>5, <1>6, <2>2, <2>3
<1>10. CASE RebootStep
  <2>1. /\ UNCHANGED <<doc, todo, phase>> /\ phase = "script" /\ RunningScript /\ Step.do = "reboot"
    BY <1>10 DEF RebootStep, RunningScript
  <2>2. PICK e \in Part : At(e) /\ StepOf(e, Step)
    BY <2>1, RunningLine
  <2>3. e # c
    BY <2>1, <2>2 DEF StepOf
  <2>4. ~At(c)
    BY <1>1, <2>2, <2>3, Order
  <2>5. (Passed(c)' => Passed(c)) /\ (At(c)' => At(c))
    BY <1>1, <2>1, SamePlace
  <2> QED  BY <1>5, <1>6, <2>4, <2>5
<1>11. CASE ScriptEnds
  <2>1. (Passed(c)' => Passed(c) \/ At(c)) /\ ~At(c)' /\ Len(script) = 0
    BY <1>1, <1>11, AtEnd
  <2>2. ~asks
    BY <2>1
  <2> QED  BY <1>5, <1>6, <2>1, <2>2
<1>12. CASE /\ phase # "idle" /\ UNCHANGED <<todo, doc, script, fresh>>
            /\ phase' = phase \/ (phase = "reboot" /\ phase' = "next")
  <2>1. At(c)' => UNCHANGED phase
    BY <1>12 DEF At
  <2>2. (Passed(c)' => Passed(c)) /\ (At(c)' => At(c))
    BY <1>1, <1>2, <1>12, <2>1, SamePlace
  <2>3. asks => asks'
    BY <1>12
  <2> QED  BY <1>5, <1>6, <2>2, <2>3
<1> QED  BY <1>2, <1>7, <1>8, <1>9, <1>10, <1>11, <1>12, ControlSteps

-----------------------------------------------------------------------------
(* Kubernetes                                                              *)

\* The cluster of kind is stopped before it is deleted.
KindInv == Up("kind") => disk[<<"kind", "cluster">>] # "none"

\* A cluster of kubeadm that was put together, whatever becomes of its daemons.
Complete ==
  /\ Initialised /\ disk[<<"kube", "network">>] = "calico"
  /\ OwnRuntime = "containerd" =>
       /\ "cri" \in config["containerd"]
       /\ Up("containerd") => "cri" \in proc["containerd"].config

Kubeadm == doc.kubernetes[1] \in {"kubeadm", ""}

\* The file that says where a cluster comes from is written when it is complete.
ClusterInv ==
  disk[<<"kube", "provenance">>] # "none" => Asked(doc.kubernetes) /\ (Kubeadm => Complete)

\* kubeadm from source does not find the socket on a node with Docker.
SourceOnDocker == Kubeadm /\ doc.kubernetes[2] # "release" /\ OwnRuntime = "docker"

\* Only a script that has a runtime initialises a cluster, and that one does not.
AdminInv ==
  /\ At("kubernetes") => doc.runtime[1] \notin {"", "none"}
  /\ disk[<<"kube", "admin">>] # "none" =>
       doc.runtime[1] \notin {"", "none"} /\ Asked(doc.kubernetes) /\ ~SourceOnDocker

\* What the script asks for at its end.
Goal ==
  CASE Kubeadm -> "nodes"
    [] doc.kubernetes[1] = "kind" -> "kind"
    [] OTHER -> "microk8s"

Writes(x)  == x.do \in {"put", "keep", "fetch", "clone"}
Removes(x) == x.do \in {"put", "keep", "fetch"} /\ "none" \in x.val
Marks(x)   == Writes(x) /\ <<"kube", "provenance">> \in x.at

\* What a line needs of the one before it: a cluster is deleted when it has been
\* stopped, and its provenance is written when it has answered.
Follows(x, y) ==
  /\ Removes(y) => x = Stop("kind")
  /\ Marks(y) => x = Need(Goal)

\* The network is never taken back.
KeepsNetwork(x) ==
  Writes(x) /\ <<"kube", "network">> \in x.at =>
    x = Put("kube", "network", "calico") \/ x = Fetch("kube", "network", "operator")

\* The cluster is complete, and serves if nothing has happened to it.
Ready == (Kubeadm => Complete) /\ (~disturbed => KubernetesServes)

KubernetesLines ==
  /\ IF Len(script) = 0 THEN ~disturbed => KubernetesServes
     ELSE /\ script[Len(script)] = Need(Goal) \/ Marks(script[Len(script)])
          /\ Removes(script[1]) => ~Up("kind")
          /\ Marks(script[1]) => Ready
  /\ \A i \in 1..Len(script) :
       /\ i > 1 => Follows(script[i - 1], script[i])
       /\ KeepsNetwork(script[i]) \/ (i = 1 /\ disk[<<"kube", "network">>] = "partial")

\* What a reboot leaves of the cluster.
Boots(r) ==
  /\ Binary(r) # "none"
  /\ r = "containerd" => "cri" \in config[r]
  /\ r = "docker" =>
       disk[<<"cri-docker", "binary">>] = "binary" /\ disk[<<"cri-docker", "unit">>] # "none"

KubernetesBoots ==
  CASE doc.kubernetes[1] = "none" -> TRUE
    [] Kubeadm ->
         Initialised /\ disk[<<"kube", "network">>] = "calico" /\ \E r \in Runtime : Boots(r)
    [] doc.kubernetes[1] = "kind" -> disk[<<"kind", "cluster">>] # "none"
    [] doc.kubernetes[1] = "microk8s" -> disk[<<"microk8s", "snap">>] # "none"

KubernetesDone == KubernetesBoots /\ (power # "down" => KubernetesServes)

KubernetesInv ==
  /\ RuntimeInv /\ RuntimeUp /\ KindInv /\ ClusterInv /\ AdminInv
  /\ At("kubernetes") => KubernetesLines
  /\ Undisturbed /\ Passed("kubernetes") => KubernetesDone

\* What every script of Kubernetes keeps to.
Plain(x) == ~Removes(x) /\ ~Marks(x)

Chained(s) ==
  /\ Sequence(s) /\ (Len(s) # 0 => Plain(s[1]))
  /\ \A i \in 1..Len(s) : KeepsNetwork(s[i]) /\ (i > 1 => Follows(s[i - 1], s[i]))

Closes(s) == Len(s) # 0 /\ (s[Len(s)] = Need(Goal) \/ Marks(s[Len(s)]))

LEMMA ChainsJoined ==
  ASSUME NEW s, NEW t, Chained(s), Chained(t)
  PROVE  Chained(s \o t) /\ (Closes(t) => Closes(s \o t))
<1> DEFINE u == s \o t
<1>1. Sequence(s) /\ Sequence(t)
  BY DEF Chained
<1>2. /\ Sequence(u) /\ Len(s) \in Nat /\ Len(t) \in Nat /\ Len(u) = Len(s) + Len(t)
      /\ \A i \in 1..Len(s) : u[i] = s[i]
      /\ \A i \in 1..Len(t) : u[Len(s) + i] = t[i]
  BY <1>1, Joined
<1> HIDE DEF u
<1>3. Len(u) # 0 => Plain(u[1])
  <2>1. CASE Len(s) # 0
    <3>1. 1 \in 1..Len(s)
      BY <1>2, <2>1
    <3> QED  BY <1>2, <2>1, <3>1 DEF Chained
  <2>2. CASE Len(s) = 0 /\ Len(t) # 0
    <3>1. 1 \in 1..Len(t) /\ Len(s) + 1 = 1
      BY <1>2, <2>2
    <3>2. u[1] = t[1]
      BY <1>2, <3>1
    <3> QED  BY <2>2, <3>2 DEF Chained
  <2>3. CASE Len(s) = 0 /\ Len(t) = 0
    BY <1>2, <2>3
  <2> QED  BY <2>1, <2>2, <2>3
<1>4. ASSUME NEW i \in 1..Len(u)
      PROVE  KeepsNetwork(u[i]) /\ (i > 1 => Follows(u[i - 1], u[i]))
  <2>1. CASE i \in 1..Len(s)
    <3>1. i > 1 => i - 1 \in 1..Len(s)
      BY <1>2, <2>1
    <3> QED  BY <1>2, <2>1, <3>1 DEF Chained
  <2>2. CASE i \notin 1..Len(s)
    <3> DEFINE j == i - Len(s)
    <3>1. j \in 1..Len(t) /\ Len(s) + j = i
      BY <1>2, <2>2
    <3>2. u[i] = t[j]
      BY <1>2, <3>1
    <3>3. CASE j = 1
      <4>1. Plain(u[i])
        BY <3>1, <3>2, <3>3, <1>2 DEF Chained
      <4>2. KeepsNetwork(u[i])
        BY <3>1, <3>2 DEF Chained
      <4>3. Follows(u[i - 1], u[i])
        BY <4>1 DEF Plain, Follows
      <4> QED  BY <4>2, <4>3
    <3>4. CASE j # 1
      <4>1. j - 1 \in 1..Len(t) /\ Len(s) + (j - 1) = i - 1 /\ j > 1
        BY <1>2, <3>1, <3>4
      <4>2. u[i - 1] = t[j - 1]
        BY <1>2, <4>1
      <4> QED  BY <3>1, <3>2, <4>1, <4>2 DEF Chained
    <3> QED  BY <3>3, <3>4
  <2> QED  BY <2>1, <2>2
<1>5. Closes(t) => Closes(u)
  <2> SUFFICES ASSUME Closes(t) PROVE Closes(u)
    OBVIOUS
  <2>1. Len(t) \in 1..Len(t) /\ Len(u) = Len(s) + Len(t) /\ Len(u) # 0
    BY <1>2 DEF Closes
  <2>2. u[Len(u)] = t[Len(t)]
    BY <1>2, <2>1
  <2> QED  BY <2>1, <2>2 DEF Closes
<1> QED  BY <1>2, <1>3, <1>4, <1>5 DEF Chained, u

\* A line that the one before it allows for.
LEMMA ChainGrows ==
  ASSUME NEW s, NEW x, Chained(s), Len(s) # 0, Follows(s[Len(s)], x), KeepsNetwork(x)
  PROVE  Chained(s \o <<x>>) /\ (Marks(x) => Closes(s \o <<x>>))
<1> DEFINE t == <<x>>  u == s \o t
<1>1. Sequence(s) /\ Sequence(t) /\ Len(t) = 1 /\ t[1] = x
  BY Literals DEF Chained
<1> HIDE DEF t
<1>0. Sequence(s) /\ Sequence(t)
  BY <1>1
<1>2. /\ Sequence(u) /\ Len(s) \in Nat /\ Len(u) = Len(s) + Len(t)
      /\ \A i \in 1..Len(s) : u[i] = s[i]
      /\ \A i \in 1..Len(t) : u[Len(s) + i] = t[i]
  BY <1>0, Joined
<1> HIDE DEF u
<1>3. u[Len(u)] = x
  <2>1. 1 \in 1..Len(t)
    BY <1>1
  <2> QED  BY <1>1, <1>2, <2>1
<1>4. Plain(u[1])
  <2>1. 1 \in 1..Len(s)
    BY <1>2
  <2> QED  BY <1>2, <2>1 DEF Chained
<1>5. ASSUME NEW i \in 1..Len(u)
      PROVE  KeepsNetwork(u[i]) /\ (i > 1 => Follows(u[i - 1], u[i]))
  <2>1. CASE i \in 1..Len(s)
    <3>1. i > 1 => i - 1 \in 1..Len(s)
      BY <1>2, <2>1
    <3> QED  BY <1>2, <2>1, <3>1 DEF Chained
  <2>2. CASE i \notin 1..Len(s)
    <3>1. i = Len(u) /\ i - 1 = Len(s) /\ Len(s) \in 1..Len(s)
      BY <1>1, <1>2, <2>2
    <3>2. u[i - 1] = s[Len(s)]
      BY <1>2, <3>1
    <3> QED  BY <1>3, <3>1, <3>2
  <2> QED  BY <2>1, <2>2
<1>6. Len(u) # 0
  BY <1>2
<1> QED  BY <1>2, <1>3, <1>4, <1>5, <1>6 DEF Chained, Closes, u, t

\* Short chains.
LEMMA ShortChains ==
  /\ Chained(<< >>)
  /\ \A x : Plain(x) /\ KeepsNetwork(x) => Chained(<<x>>)
  /\ \A x, y : Plain(x) /\ KeepsNetwork(x) /\ Follows(x, y) /\ KeepsNetwork(y) => Chained(<<x, y>>)
  /\ \A x, y, z :
       Plain(x) /\ KeepsNetwork(x) /\ Plain(y) /\ KeepsNetwork(y) /\ Plain(z) /\ KeepsNetwork(z)
       => Chained(<<x, y, z>>) /\ (z = Need(Goal) => Closes(<<x, y, z>>))
  /\ \A x, y, z, u :
       /\ Plain(x) /\ KeepsNetwork(x) /\ Plain(y) /\ KeepsNetwork(y)
       /\ Plain(z) /\ KeepsNetwork(z) /\ Plain(u) /\ KeepsNetwork(u)
       => Chained(<<x, y, z, u>>) /\ (u = Need(Goal) => Closes(<<x, y, z, u>>))
  /\ \A x, y, z, u, w :
       /\ Plain(x) /\ KeepsNetwork(x) /\ Plain(y) /\ KeepsNetwork(y)
       /\ Plain(z) /\ KeepsNetwork(z) /\ Plain(u) /\ KeepsNetwork(u)
       /\ Plain(w) /\ KeepsNetwork(w)
       => Chained(<<x, y, z, u, w>>) /\ (w = Need(Goal) => Closes(<<x, y, z, u, w>>))
  /\ \A x, y, z, u, w, l :
       /\ Plain(x) /\ KeepsNetwork(x) /\ Plain(y) /\ KeepsNetwork(y)
       /\ Plain(z) /\ KeepsNetwork(z) /\ Plain(u) /\ KeepsNetwork(u)
       /\ Plain(w) /\ KeepsNetwork(w) /\ Plain(l) /\ KeepsNetwork(l)
       => Chained(<<x, y, z, u, w, l>>) /\ (l = Need(Goal) => Closes(<<x, y, z, u, w, l>>))
<1>1. \A x, y : Plain(y) => Follows(x, y)
  BY DEF Plain, Follows
<1> HIDE DEF Plain, Follows, KeepsNetwork, Need, Goal, Marks
<1>2. Chained(<< >>)
  BY Literals DEF Chained
<1>3. ASSUME NEW x, Plain(x), KeepsNetwork(x) PROVE Chained(<<x>>)
  BY <1>3, Literals DEF Chained
<1>4. ASSUME NEW x, NEW y, Plain(x), KeepsNetwork(x), Follows(x, y), KeepsNetwork(y)
      PROVE  Chained(<<x, y>>)
  BY <1>4, Literals DEF Chained
<1>5. ASSUME NEW x, NEW y, NEW z, Plain(x), KeepsNetwork(x), Plain(y), KeepsNetwork(y),
             Plain(z), KeepsNetwork(z)
      PROVE  Chained(<<x, y, z>>) /\ (z = Need(Goal) => Closes(<<x, y, z>>))
  BY <1>1, <1>5, Literals DEF Chained, Closes
<1>6. ASSUME NEW x, NEW y, NEW z, NEW u, Plain(x), KeepsNetwork(x), Plain(y), KeepsNetwork(y),
             Plain(z), KeepsNetwork(z), Plain(u), KeepsNetwork(u)
      PROVE  Chained(<<x, y, z, u>>) /\ (u = Need(Goal) => Closes(<<x, y, z, u>>))
  BY <1>1, <1>6, Literals DEF Chained, Closes
<1>7. ASSUME NEW x, NEW y, NEW z, NEW u, NEW w, Plain(x), KeepsNetwork(x), Plain(y), KeepsNetwork(y),
             Plain(z), KeepsNetwork(z), Plain(u), KeepsNetwork(u), Plain(w), KeepsNetwork(w)
      PROVE  Chained(<<x, y, z, u, w>>) /\ (w = Need(Goal) => Closes(<<x, y, z, u, w>>))
  BY <1>1, <1>7, Literals DEF Chained, Closes
<1>8. ASSUME NEW x, NEW y, NEW z, NEW u, NEW w, NEW l, Plain(x), KeepsNetwork(x), Plain(y),
             KeepsNetwork(y), Plain(z), KeepsNetwork(z), Plain(u), KeepsNetwork(u),
             Plain(w), KeepsNetwork(w), Plain(l), KeepsNetwork(l)
      PROVE  /\ Chained(<<x, y, z, u, w, l>>)
             /\ l = Need(Goal) => Closes(<<x, y, z, u, w, l>>)
  BY <1>1, <1>8, Literals DEF Chained, Closes
<1> QED  BY <1>2, <1>3, <1>4, <1>5, <1>6, <1>7, <1>8

\* What a script that ends at once has found.
Found ==
  /\ Kubeadm => KubeadmSkips
                  \/ (doc.kubernetes[2] # "release" /\ \E c \in Commit : KubeadmGitSkips(c))
  /\ doc.kubernetes[1] = "kind" => Up("kind")
  /\ doc.kubernetes[1] = "microk8s" => Up("microk8s")

LEMMA KubernetesProgram ==
  ASSUME doc \in Document, Asked(doc.kubernetes), branch \in Commit
  PROVE  LET s == ScriptOf(<<"install", "kubernetes">>) IN
         (Found /\ s = << >>) \/ (Chained(s) /\ Closes(s))
<1> DEFINE v == doc.kubernetes[3]  r == OwnRuntime
           i == doc.kubernetes[1]  source == doc.kubernetes[2]
           Good(x) == Plain(x) /\ KeepsNetwork(x)
           prov(c) == Put("kube", "provenance", c)
<1>1. /\ i \in {"", "kubeadm", "kind", "microk8s"} /\ source \in {"release", "git", "latest"}
      /\ source \in {"release", "git"} => v \in Build
      /\ source = "git" => v \in Commit
      /\ i = "microk8s" => source = "release"
  BY DocumentShape DEF Asked, Build
<1>2. "none" \notin Build /\ branch \in Build
  BY BuildAssumption DEF Build
<1>3. /\ Good(Fetch("kube", "unit", "unit")) /\ Good(Fetch("kube", "network", "operator"))
      /\ Good(Fetch("kube", "fetched", "whole")) /\ Good(Put("jq", "package", "jq"))
      /\ Good(Fetch("kind", "kubectl", "whole")) /\ Good(Keep("kind", "kubectl", "whole"))
      /\ Good(Put("kube", "network", "calico")) /\ Good(Clone({<<"kube", "tools">>}))
      /\ Good(Put("kind", "cluster", "partial")) /\ Good(Clone({<<"kind", "cluster">>}))
  BY DEF Plain, Removes, Marks, Writes, KeepsNetwork, Put, PutOneOf, Keep, Fetch, Clone
<1>4. ASSUME NEW c \in Build
      PROVE  /\ Good(Fetch("kube", "tools", c)) /\ Good(Put("kube", "tools", c))
             /\ Good(Put("kind", "cluster", c)) /\ Good(Keep("microk8s", "snap", c))
             /\ KeepsNetwork(prov(c)) /\ Marks(prov(c)) /\ ~Removes(prov(c))
  BY <1>2 DEF Plain, Removes, Marks, Writes, KeepsNetwork, Put, PutOneOf, Keep, Fetch
<1>5. /\ \A c, f : Good(KubeadmInit(c, f))
      /\ \A c, p : Good(Whole(c, p))
      /\ \A c : Good(Need(c)) /\ Good(Restart(c)) /\ Good(Start(c)) /\ Good(Stop(c))
      /\ \A c : Good(KubeadmInitSearches(c))
      /\ Good(Add("docker", {"nvidia"}))
  BY DEF Plain, Removes, Marks, Writes, KeepsNetwork, KubeadmInit, KubeadmInitSearches, Need, Whole,
         Restart, Start, Stop, Add
<1>6. Follows(Stop("kind"), Put("kind", "cluster", "none")) /\ KeepsNetwork(Put("kind", "cluster", "none"))
  BY DEF Follows, Removes, Marks, Writes, KeepsNetwork, Put, PutOneOf
<1> HIDE DEF Good
<1>7. \A x : Good(x) => Plain(x) /\ KeepsNetwork(x)
  BY DEF Good
<1> HIDE DEF prov
<1>8. ASSUME Kubeadm PROVE Chained(KubeadmNetwork) /\ Closes(KubeadmNetwork) /\ KubeadmNetwork[Len(KubeadmNetwork)] = Need(Goal)
  <2>1. Goal = "nodes"
    BY <1>8 DEF Goal, Kubeadm
  <2>2. Chained(KubeadmNetwork) /\ Closes(KubeadmNetwork)
    BY <1>3, <1>5, <1>7, <2>1, ShortChains DEF KubeadmNetwork
  <2> QED  BY <2>1, <2>2 DEF KubeadmNetwork
<1>9. \A c : Chained(KubeadmCluster(c, r))
  <2>1. \A c, f : Chained(<< KubeadmInit(c, f), Need("kube") >>) /\ Chained(<< Restart("cri-docker") >>)
    <3>1. \A x, y : Good(x) /\ Good(y) => Chained(<<x>>) /\ Chained(<<x, y>>)
      <4>1. \A x, y : Plain(y) => Follows(x, y)
        BY DEF Plain, Follows
      <4> QED  BY <1>7, <4>1, ShortChains
    <3> QED  BY <1>5, <3>1
  <2> QED  BY <2>1, ChainsJoined, ShortChains DEF KubeadmCluster
<1>10. ASSUME NEW c \in Build
       PROVE  Chained(KubeadmTools(c)) /\ Chained(KubeadmGitTools(c)) /\ Chained(KubeadmLatestTools)
  <2>1. \A x, y : Good(x) /\ Good(y) => Chained(<<x, y>>)
    <3>1. \A x, y : Plain(y) => Follows(x, y)
      BY DEF Plain, Follows
    <3> QED  BY <1>7, <3>1, ShortChains
  <2>2. Chained(<< Put("jq", "package", "jq") >>)
    BY <1>3, <1>7, ShortChains
  <2>3. Chained(Fetched("kube"))
    BY <1>3, <1>5, <2>1 DEF Fetched
  <2>4. Chained(KubeadmBuilder)
    BY <2>2, <2>3, ChainsJoined DEF KubeadmBuilder
  <2>5. /\ Chained(<< Put("kube", "tools", c), Fetch("kube", "unit", "unit") >>)
        /\ Chained(<< Clone({<<"kube", "tools">>}), Fetch("kube", "unit", "unit") >>)
    BY <1>3, <1>4, <2>1
  <2>6. Chained(KubeadmGitTools(c)) /\ Chained(KubeadmLatestTools)
    BY <2>4, <2>5, ChainsJoined DEF KubeadmGitTools, KubeadmLatestTools
  <2> QED  BY <1>3, <1>4, <2>1, <2>6 DEF KubeadmTools
<1>11. ASSUME Kubeadm, NEW c \in Build
       PROVE  /\ Chained(KubeadmRelease(c, r)) /\ Closes(KubeadmRelease(c, r))
              /\ Chained(KubeadmGitCluster(c, r)) /\ Closes(KubeadmGitCluster(c, r))
              /\ Chained(KubeadmLatestCluster(c, r)) /\ Closes(KubeadmLatestCluster(c, r))
  <2>1. Chained(KubeadmTools(c) \o KubeadmCluster(c, r))
    BY <1>9, <1>10, ChainsJoined
  <2>2. Chained(KubeadmRelease(c, r)) /\ Closes(KubeadmRelease(c, r))
    BY <1>8, <1>11, <2>1, ChainsJoined DEF KubeadmRelease
  <2> DEFINE first == << KubeadmInitSearches(r), Need("kube") >>  most == first \o KubeadmNetwork
  <2>3. Chained(first)
    <3>1. \A x, y : Good(x) /\ Good(y) => Chained(<<x, y>>)
      <4>1. \A x, y : Plain(y) => Follows(x, y)
        BY DEF Plain, Follows
      <4> QED  BY <1>7, <4>1, ShortChains
    <3> QED  BY <1>5, <3>1
  <2>4. Chained(most) /\ most[Len(most)] = Need(Goal) /\ Len(most) # 0
    <3>1. Sequence(first) /\ Sequence(KubeadmNetwork)
      BY <1>8, <1>11, <2>3 DEF Chained
    <3>2. Chained(KubeadmNetwork) /\ KubeadmNetwork[Len(KubeadmNetwork)] = Need(Goal) /\ Len(KubeadmNetwork) # 0
      BY <1>8, <1>11 DEF Closes
    <3>3. Chained(most)
      BY <2>3, <3>2, ChainsJoined
    <3> HIDE DEF first
    <3> DEFINE t == KubeadmNetwork
    <3> HIDE DEF t
    <3>4. /\ Len(first) \in Nat /\ Len(t) \in Nat /\ Len(first \o t) = Len(first) + Len(t)
          /\ \A j \in 1..Len(t) : (first \o t)[Len(first) + j] = t[j]
      <4>1. Sequence(first) /\ Sequence(t)
        BY <3>1 DEF t
      <4> QED  BY <4>1, Joined
    <3>5. Len(t) \in 1..Len(t) /\ Len(first \o t) # 0
      BY <3>2, <3>4 DEF t
    <3>6. (first \o t)[Len(first \o t)] = t[Len(t)]
      BY <3>4, <3>5
    <3> QED  BY <3>2, <3>3, <3>5, <3>6 DEF t
  <2> HIDE DEF first, most
  <2>5. Chained(most \o << prov(c) >>) /\ Closes(most \o << prov(c) >>)
    <3>1. Follows(Need(Goal), prov(c))
      BY <1>4 DEF Follows
    <3> QED  BY <1>4, <2>4, <3>1, ChainGrows
  <2>6. KubeadmGitCluster(c, r) = most \o << prov(c) >> /\ KubeadmLatestCluster(c, r) = most \o << prov(c) >>
    BY DEF KubeadmGitCluster, KubeadmLatestCluster, most, first, prov
  <2> QED  BY <2>2, <2>5, <2>6
<1>12. ASSUME i = "kind", NEW make, Good(make)
       PROVE  /\ Chained(KindCluster(make)) /\ Closes(KindCluster(make))
              /\ KindCluster(make)[Len(KindCluster(make))] = Need(Goal)
  <2> DEFINE first == IF Binary("toolkit") # "none" THEN << Add("docker", {"nvidia"}), Restart("docker") >>
                      ELSE << >>
             last == << Need("docker"), Put("kind", "cluster", "partial"), make, Start("kind"),
                        Whole("kind", "kubectl"), Need("kind") >>
  <2>1. Goal = "kind"
    BY <1>12 DEF Goal, Kubeadm
  <2>2. Chained(last) /\ Closes(last)
    BY <1>3, <1>5, <1>7, <1>12, <2>1, ShortChains
  <2>3. Chained(first)
    <3>1. \A x, y : Good(x) /\ Good(y) => Chained(<<x, y>>)
      <4>1. \A x, y : Plain(y) => Follows(x, y)
        BY DEF Plain, Follows
      <4> QED  BY <1>7, <4>1, ShortChains
    <3> QED  BY <1>5, <3>1, ShortChains
  <2>4. Len(last) = 6 /\ last[6] = Need("kind")
    OBVIOUS
  <2> DEFINE all == first \o last
  <2>5. KindCluster(make) = all
    BY DEF KindCluster
  <2> HIDE DEF first, last
  <2>6. Chained(all) /\ Closes(all)
    BY <2>2, <2>3, ChainsJoined
  <2>7. all[Len(all)] = Need("kind")
    <3>1. Sequence(first) /\ Sequence(last)
      BY <2>2, <2>3 DEF Chained
    <3>2. /\ Len(first) \in Nat /\ Len(all) = Len(first) + Len(last)
          /\ \A j \in 1..Len(last) : all[Len(first) + j] = last[j]
      BY <3>1, Joined
    <3> HIDE DEF all
    <3>3. 6 \in 1..Len(last) /\ Len(all) = Len(first) + 6
      BY <2>4, <3>2
    <3> QED  BY <2>4, <3>2, <3>3
  <2> HIDE DEF all
  <2> QED  BY <2>1, <2>5, <2>6, <2>7
<1>13. Chained(DeleteCluster) /\ Chained(KindBuilder)
  <2>1. Chained(DeleteCluster)
    BY <1>5, <1>6, <1>7, ShortChains DEF DeleteCluster
  <2>2. Chained(<< Keep("kind", "kubectl", "whole") >>)
    BY <1>3, <1>7, ShortChains
  <2> QED  BY <2>1, <2>2, ChainsJoined DEF KindBuilder
<1>14. ASSUME i = "kind", NEW c \in Build
       PROVE  /\ Chained(KindRelease(c)) /\ Closes(KindRelease(c))
              /\ Chained(KindGit(c)) /\ Closes(KindGit(c)) /\ Chained(KindLatest(c)) /\ Closes(KindLatest(c))
  <2> DEFINE put == KindCluster(Put("kind", "cluster", c))
             clone == KindCluster(Clone({<<"kind", "cluster">>}))
             maybe == (IF disk[<<"kind", "cluster">>] # "none" THEN DeleteCluster ELSE << >>)
                        \o << Fetch("kind", "kubectl", "whole") >>
  <2>1. /\ Chained(put) /\ Closes(put) /\ put[Len(put)] = Need(Goal)
        /\ Chained(clone) /\ Closes(clone) /\ clone[Len(clone)] = Need(Goal)
    BY <1>3, <1>4, <1>12, <1>14
  <2>2. Chained(maybe)
    <3>1. Chained(IF disk[<<"kind", "cluster">>] # "none" THEN DeleteCluster ELSE << >>)
      BY <1>13, ShortChains
    <3>2. Chained(<< Fetch("kind", "kubectl", "whole") >>)
      BY <1>3, <1>7, ShortChains
    <3> QED  BY <3>1, <3>2, ChainsJoined
  <2>3. KindRelease(c) = maybe \o put
    BY DEF KindRelease
  <2>4. /\ KindGit(c) = KindBuilder \o put \o << prov(c) >>
        /\ KindLatest(c) = KindBuilder \o clone \o << prov(c) >>
    BY DEF KindGit, KindLatest, prov
  <2> HIDE DEF put, clone, maybe
  <2>5. ASSUME NEW t, Chained(t), Closes(t), t[Len(t)] = Need(Goal)
        PROVE  /\ Chained(KindBuilder \o t \o << prov(c) >>)
               /\ Closes(KindBuilder \o t \o << prov(c) >>)
    <3> DEFINE s == KindBuilder  u == s \o t
    <3>0. Chained(s)
      BY <1>13
    <3> HIDE DEF s
    <3>1. Chained(u)
      BY <2>5, <3>0, ChainsJoined
    <3>2. Sequence(s) /\ Sequence(t)
      BY <2>5, <3>0 DEF Chained
    <3>3. /\ Len(s) \in Nat /\ Len(t) \in Nat /\ Len(u) = Len(s) + Len(t)
          /\ \A j \in 1..Len(t) : u[Len(s) + j] = t[j]
      BY <3>2, Joined
    <3> HIDE DEF u
    <3>4. Len(t) \in 1..Len(t) /\ Len(u) # 0
      BY <2>5, <3>3 DEF Closes
    <3>5. u[Len(u)] = Need(Goal)
      BY <2>5, <3>3, <3>4
    <3>6. Follows(Need(Goal), prov(c))
      BY <1>4 DEF Follows
    <3>7. Chained(u \o << prov(c) >>) /\ Closes(u \o << prov(c) >>)
      BY <1>4, <3>1, <3>4, <3>5, <3>6, ChainGrows
    <3> QED  BY <3>7 DEF u, s
  <2>6. Chained(maybe \o put) /\ Closes(maybe \o put)
    BY <2>1, <2>2, ChainsJoined
  <2> QED  BY <2>1, <2>3, <2>4, <2>5, <2>6
<1>15. ASSUME i = "microk8s", NEW c \in Build PROVE Chained(Microk8s(c)) /\ Closes(Microk8s(c))
  <2>1. Goal = "microk8s"
    BY <1>15 DEF Goal, Kubeadm
  <2> QED  BY <1>4, <1>5, <1>7, <2>1, ShortChains DEF Microk8s
<1> DEFINE s == ScriptOf(<<"install", "kubernetes">>)
<1>16. s = KubernetesScript(i, source, v, r)
  BY DEF ScriptOf, OwnRuntime
<1>17. ASSUME i \in {"", "kubeadm"} PROVE (Found /\ s = << >>) \/ (Chained(s) /\ Closes(s))
  <2>1. Kubeadm
    BY <1>17 DEF Kubeadm
  <2>2. /\ source = "release" => (KubeadmSkips /\ s = << >>) \/ s = KubeadmRelease(v, r)
        /\ source = "git" => (KubeadmGitSkips(v) /\ s = << >>) \/ s = KubeadmGitTools(v) \o KubeadmGitCluster(v, r)
        /\ source = "latest" =>
             (KubeadmGitSkips(branch) /\ s = << >>) \/ s = KubeadmLatestTools \o KubeadmLatestCluster(branch, r)
    BY <1>16, <1>17 DEF KubernetesScript
  <2>3. ASSUME KubeadmSkips \/ (source # "release" /\ \E c \in Commit : KubeadmGitSkips(c)) PROVE Found
    BY <1>17, <2>3 DEF Found
  <2>4. ASSUME NEW c \in Build
        PROVE  /\ Chained(KubeadmGitTools(c) \o KubeadmGitCluster(c, r))
               /\ Closes(KubeadmGitTools(c) \o KubeadmGitCluster(c, r))
               /\ Chained(KubeadmLatestTools \o KubeadmLatestCluster(c, r))
               /\ Closes(KubeadmLatestTools \o KubeadmLatestCluster(c, r))
    BY <1>10, <1>11, <2>1, ChainsJoined
  <2> HIDE DEF s, v, i, source, r
  <2> QED  BY <1>1, <1>2, <1>11, <2>1, <2>2, <2>3, <2>4
<1>18. ASSUME i = "kind" PROVE (Found /\ s = << >>) \/ (Chained(s) /\ Closes(s))
  <2>1. /\ source = "release" => (KindSkips /\ s = << >>) \/ s = KindRelease(v)
        /\ source = "git" => (KindGitSkips(v) /\ s = << >>) \/ s = KindGit(v)
        /\ source = "latest" => (KindGitSkips(branch) /\ s = << >>) \/ s = KindLatest(branch)
    BY <1>16, <1>18 DEF KubernetesScript
  <2>2. ASSUME KindSkips \/ KindGitSkips(v) \/ KindGitSkips(branch) PROVE Found
    BY <1>18, <2>2 DEF Found, KindSkips, KindGitSkips, Kubeadm
  <2> HIDE DEF s, v, i, source
  <2> QED  BY <1>1, <1>2, <1>14, <1>18, <2>1, <2>2
<1>19. ASSUME i = "microk8s" PROVE (Found /\ s = << >>) \/ (Chained(s) /\ Closes(s))
  <2>1. (Microk8sSkips /\ s = << >>) \/ s = Microk8s(v)
    BY <1>16, <1>19 DEF KubernetesScript
  <2>2. ASSUME Microk8sSkips PROVE Found
    BY <1>19, <2>2 DEF Found, Microk8sSkips, Kubeadm
  <2>3. v \in Build
    BY <1>1, <1>19
  <2> HIDE DEF s, v, i
  <2> QED  BY <1>15, <1>19, <2>1, <2>2, <2>3
<1> QED  BY <1>1, <1>17, <1>18, <1>19

\* What a serving cluster becomes of when the node is started again.
LEMMA ServesBoots ==
  ASSUME BaseInv, RunningInv, KindInv, KubernetesServes
  PROVE  KubernetesBoots
<1>1. doc.kubernetes[1] \in {"none", "", "kubeadm", "kind", "microk8s"}
  BY DocumentShape DEF BaseInv, Types
<1>2. \A d \in Daemon \ {"kind", "driver"} : Up(d) => Started(d).build # "none"
  BY DEF RunningInv, Startable
<1>3. CASE Kubeadm
  <2>1. NodesReady
    BY <1>3 DEF KubernetesServes, Kubeadm
  <2>2. ASSUME NodesReady PROVE disk[<<"kube", "network">>] = "calico" /\ \E r \in Runtime : Boots(r)
    <3>1. PICK r \in Runtime : CRI(r)
      BY <2>2 DEF NodesReady
    <3>2. /\ Started(r).build = Binary(r)
          /\ Started("cri-docker").build # "none" =>
               /\ disk[<<"cri-docker", "binary">>] = "binary"
               /\ disk[<<"cri-docker", "unit">>] # "none"
          /\ r \in Daemon \ {"kind", "driver"} /\ "cri-docker" \in Daemon \ {"kind", "driver"}
      BY DEF Started, Runtime, Daemon, Off
    <3>3. CASE r = "containerd"
      <4>1. "cri" \in proc["containerd"].config
        BY <3>1, <3>3 DEF CRI
      <4>2. Up("containerd") /\ "cri" \in config["containerd"]
        BY <4>1 DEF Up, Off, RunningInv, SettingsRead
      <4>3. Boots(r)
        <5>1. Started(r).build # "none"
          BY <1>2, <3>2, <3>3, <4>2
        <5> QED  BY <3>2, <3>3, <4>2, <5>1 DEF Boots
      <4> QED  BY <2>2, <4>3 DEF NodesReady
    <3>4. CASE r = "docker"
      <4>1. Up("docker") /\ Up("cri-docker")
        BY <3>1, <3>4 DEF CRI
      <4>3. Boots(r)
        <5>1. Started(r).build # "none" /\ Started("cri-docker").build # "none"
          BY <1>2, <3>2, <3>4, <4>1
        <5> QED  BY <3>2, <3>4, <5>1 DEF Boots
      <4> QED  BY <2>2, <4>3 DEF NodesReady
    <3>5. CASE r = "crio"
      <4>1. Up("crio")
        BY <3>1, <3>5 DEF CRI
      <4>3. Boots(r)
        <5>1. Started(r).build # "none"
          BY <1>2, <3>2, <3>5, <4>1
        <5> QED  BY <3>2, <3>5, <5>1 DEF Boots
      <4> QED  BY <2>2, <4>3 DEF NodesReady
    <3> QED  BY <3>3, <3>4, <3>5 DEF Runtime
  <2>3. Initialised
    BY <2>1 DEF NodesReady
  <2> QED  BY <1>3, <2>1, <2>2, <2>3 DEF KubernetesBoots, Kubeadm
<1>4. CASE doc.kubernetes[1] = "kind"
  BY <1>4 DEF KubernetesServes, KubernetesBoots, KindInv, Kubeadm
<1>5. CASE doc.kubernetes[1] = "microk8s"
  <2>1. Up("microk8s") /\ "microk8s" \in Daemon \ {"kind", "driver"}
    BY <1>5 DEF KubernetesServes, Daemon
  <2>2. Started("microk8s").build = disk[<<"microk8s", "snap">>]
    BY DEF Started, Runtime
  <2> QED  BY <1>2, <1>5, <2>1, <2>2 DEF KubernetesBoots, Kubeadm
<1>6. CASE doc.kubernetes[1] = "none"
  BY <1>6 DEF KubernetesBoots, Kubeadm
<1> QED  BY <1>1, <1>3, <1>4, <1>5, <1>6 DEF Kubeadm

\* And what it then is.
LEMMA BootsServe ==
  ASSUME BaseInv, KubernetesBoots, NodeComesUp
  PROVE  KubernetesServes'
<1>1. doc.kubernetes[1] \in {"none", "", "kubeadm", "kind", "microk8s"}
  BY DocumentShape DEF BaseInv, Types
<1>2. /\ UNCHANGED <<disk, config, doc>>
      /\ \A d \in Daemon : proc'[d] = IF Started(d).build = "none" THEN Off ELSE Started(d)
  BY DEF NodeComesUp, Booted
<1>3. ASSUME NEW d \in Daemon, Started(d).build # "none" PROVE Up(d)' /\ proc'[d] = Started(d)
  <2>1. proc'[d] = Started(d) /\ Started(d) # Off
    BY <1>2, <1>3 DEF Off
  <2> QED  BY <2>1 DEF Up, Off
<1>4. /\ {"kube", "kind", "microk8s", "cri-docker"} \subseteq Daemon /\ Runtime \subseteq Daemon
      /\ "none" \notin Build /\ "files" \notin Build
  BY BuildAssumption DEF Daemon, Build
<1>5. CASE Kubeadm
  <2>1. Initialised /\ disk[<<"kube", "network">>] = "calico" /\ \E r \in Runtime : Boots(r)
    BY <1>5 DEF KubernetesBoots, Kubeadm
  <2>2. Up("kube")' /\ Initialised'
    <3>1. Started("kube").build # "none"
      BY <1>4, <2>1 DEF Started, Runtime, Initialised
    <3> QED  BY <1>2, <1>3, <1>4, <2>1, <3>1 DEF Initialised
  <2>3. ASSUME NEW r \in Runtime, Boots(r) PROVE CRI(r)'
    <3>1. Started(r) = [build |-> Binary(r), config |-> config[r]] /\ Binary(r) # "none"
      BY <2>3 DEF Started, Runtime, Boots
    <3>2. Up(r)' /\ proc'[r].config = config[r]
      BY <1>3, <1>4, <3>1
    <3>3. r = "docker" => Up("cri-docker")'
      <4>1. r = "docker" => Started("cri-docker").build # "none"
        BY <2>3 DEF Started, Runtime, Boots
      <4> QED  BY <1>3, <1>4, <4>1
    <3>4. CASE r = "containerd"
      BY <2>3, <3>2, <3>4 DEF CRI, Boots
    <3>5. CASE r = "docker"
      BY <3>2, <3>3, <3>5 DEF CRI
    <3>6. CASE r = "crio"
      BY <3>2, <3>6 DEF CRI
    <3> QED  BY <3>4, <3>5, <3>6 DEF Runtime
  <2>5. NodesReady'
    BY <1>2, <2>1, <2>2, <2>3 DEF NodesReady
  <2> QED  BY <1>2, <1>5, <2>5 DEF KubernetesServes, Kubeadm
<1>6. CASE doc.kubernetes[1] = "kind"
  <2>1. Started("kind").build # "none"
    BY <1>6 DEF KubernetesBoots, Started, Runtime, Kubeadm
  <2>2. Up("kind")'
    BY <1>3, <1>4, <2>1
  <2> QED  BY <1>2, <1>6, <2>2 DEF KubernetesServes
<1>7. CASE doc.kubernetes[1] = "microk8s"
  <2>1. Started("microk8s").build # "none"
    BY <1>7 DEF KubernetesBoots, Started, Runtime, Kubeadm
  <2>2. Up("microk8s")'
    BY <1>3, <1>4, <2>1
  <2> QED  BY <1>2, <1>7, <2>2 DEF KubernetesServes
<1>8. CASE doc.kubernetes[1] = "none"
  BY <1>2, <1>8 DEF KubernetesServes
<1> QED  BY <1>1, <1>5, <1>6, <1>7, <1>8 DEF Kubeadm

\* Nodes that are ready are those of a complete cluster, as no other runtime
\* than that of the document can be what they use.
LEMMA ReadyComplete ==
  ASSUME RunningInv, RuntimeInv, NodesReady
  PROVE  Complete
<1>1. PICK r \in Runtime : CRI(r)
  BY DEF NodesReady
<1>2. Up(r) \/ "cri" \in proc["containerd"].config
  BY <1>1 DEF CRI, Runtime
<1>3. Up(r)
  <2>1. r = "containerd" => "cri" \in proc["containerd"].config
    BY <1>1 DEF CRI
  <2>2. r # "containerd" => Up(r)
    BY <1>1 DEF CRI, Runtime
  <2> QED  BY <2>1, <2>2 DEF Up, Off
<1>4. OwnRuntime = "containerd" => r = "containerd"
  <2> SUFFICES ASSUME OwnRuntime # r PROVE FALSE
    OBVIOUS
  <2>1. NotInstalled(r)
    BY DEF RuntimeInv
  <2>2. Binary(r) # "none"
    BY <1>3, UpServes DEF Serves
  <2> QED  BY <2>1, <2>2 DEF NotInstalled, Binary
<1>5. OwnRuntime = "containerd" => "cri" \in proc["containerd"].config
  BY <1>1, <1>4 DEF CRI
<1> QED  BY <1>5 DEF Complete, NodesReady, RunningInv, SettingsRead

\* What the line of a script writes on the disk.
LEMMA OnDisk ==
  ASSUME BaseInv, RunningScript, Effect, NEW i \in Item, disk'[i] # disk[i]
  PROVE  \/ Step.do = "init" /\ i = <<"kube", "admin">>
         \/ Step.do \in {"put", "keep", "fetch", "clone", "copy", "package"} /\ i \in Step.at
<1> USE DEF BaseInv, NodeTypes
<1>1. CASE PutStep \/ CloneStep \/ CopyStep
  BY <1>1 DEF PutStep, CloneStep, CopyStep
<1>2. CASE FetchStep
  BY <1>2 DEF FetchStep
<1>3. CASE PackageStep
  BY <1>3 DEF PackageStep
<1>4. CASE ConfigStep \/ DaemonStep \/ StopStep \/ CheckStep
  BY <1>4 DEF ConfigStep, DaemonStep, StopStep, CheckStep, node
<1>5. CASE InitStep
  BY <1>5 DEF InitStep
<1> QED  BY <1>1, <1>2, <1>3, <1>4, <1>5 DEF Effect

\* What a script of Kubernetes writes, and what other steps leave alone.
LEMMA Written ==
  ASSUME BaseInv, [Next]_vars,
         NEW i \in {<<"kube", "tools">>, <<"kube", "network">>, <<"kube", "provenance">>, <<"kind", "cluster">>},
         disk'[i] # disk[i]
  PROVE  /\ ScriptStep /\ At("kubernetes") /\ RunningScript /\ Effect
         /\ Writes(Step) /\ i \in Step.at /\ UNCHANGED proc /\ Step = script[1]
<1> USE DEF BaseInv
<1>1. /\ i \in Item /\ i # <<"kube", "config">> /\ i # <<"kube", "admin">>
      /\ \A c \in Part : i \in ItemsOf(c) => c = "kubernetes"
  BY OwnIsRuntime DEF Item, ItemsOf, Part, Runtime
<1>2. ~StartRun
  BY <1>1 DEF StartRun, NodeTypes
<1>3. ~InitFails
  BY <1>1 DEF InitFails, InitBreaks, NodeTypes
<1>4. PICK c \in Part : ScriptStep /\ At(c) /\ Change(c)
  BY <1>2, <1>3, NodeSteps DEF node, NodeGoesDown, NodeComesUp, DaemonDies
<1>5. c = "kubernetes"
  BY <1>1, <1>4 DEF Change
<1>6. RunningScript /\ Effect
  BY <1>4 DEF ScriptStep
<1>7. Step = script[1] /\ 1 \in 1..Len(script)
  BY <1>6, RunningLine
<1>8. StepOf("kubernetes", Step)
  BY <1>4, <1>5, <1>7 DEF ScriptInv
<1>9. Writes(Step) /\ i \in Step.at
  BY <1>1, <1>6, <1>8, OnDisk DEF Writes, StepOf
<1>10. UNCHANGED proc
  BY <1>6, <1>9 DEF Writes, Effect, PutStep, FetchStep, CloneStep, CopyStep, PackageStep, ConfigStep,
                    DaemonStep, StopStep, CheckStep, InitStep
<1> QED  BY <1>4, <1>5, <1>6, <1>7, <1>9, <1>10

LEMMA NetworkStays ==
  ASSUME BaseInv, At("kubernetes") => KubernetesLines, [Next]_vars,
         disk[<<"kube", "network">>] = "calico"
  PROVE  disk'[<<"kube", "network">>] = "calico"
<1> DEFINE i == <<"kube", "network">>
<1> SUFFICES ASSUME disk'[i] # disk[i] PROVE FALSE
  OBVIOUS
<1>1. /\ At("kubernetes") /\ RunningScript /\ Effect
      /\ Writes(Step) /\ i \in Step.at /\ Step = script[1]
  BY Written
<1>2. 1 \in 1..Len(script)
  BY <1>1, RunningLine DEF BaseInv
<1>3. KeepsNetwork(Step)
  BY <1>1, <1>2 DEF KubernetesLines
<1>4. CASE Step = Put("kube", "network", "calico")
  <2>1. disk' = [disk EXCEPT ![i] = "calico"]
    BY <1>1, <1>4, KnownLines
  <2> QED  BY <2>1 DEF BaseInv, NodeTypes
<1>5. CASE Step = Fetch("kube", "network", "operator")
  <2>1. Step.do = "fetch" /\ Step.at = {i}
    BY <1>5 DEF Fetch
  <2>2. FetchStep
    BY <1>1, <2>1 DEF Effect, PutStep, CloneStep, CopyStep, PackageStep, ConfigStep, DaemonStep,
                      StopStep, CheckStep, InitStep
  <2>3. UNCHANGED disk
    BY <2>1, <2>2 DEF FetchStep
  <2> QED  BY <2>3
<1> QED  BY <1>1, <1>3, <1>4, <1>5 DEF KeepsNetwork

\* A complete cluster stays one, over every fault and every edit.
LEMMA CompleteStays ==
  ASSUME BaseInv, At("kubernetes") => KubernetesLines, [Next]_vars, Complete
  PROVE  Complete'
<1> USE DEF BaseInv
<1> DEFINE c == "containerd"
<1>1. OwnRuntime' = c => OwnRuntime = c
  BY DocumentKept
<1>2. /\ c \in Daemon /\ c \in Runtime /\ c # "cri-docker" /\ c # "kind" /\ "kubernetes" \in Part
      /\ "none" \notin Build
  BY BuildAssumption DEF Daemon, Runtime, Part, Build
<1>3. disk'[<<"kube", "network">>] = "calico"
  BY NetworkStays DEF Complete
<1>4. Started(c).config = config[c] /\ Started(c)'.config = config'[c]
  BY DEF Started, Runtime
<1>5. CASE UNCHANGED node
  BY <1>1, <1>5 DEF Complete, Initialised, Up, node
<1>6. ASSUME NEW p \in Part, Change(p) PROVE Complete'
  <2>1. Initialised'
    BY <1>2, <1>6 DEF Complete, Initialised, Change
  <2>2. "cri" \in config[c] => "cri" \in config'[c]
    BY <1>2, <1>6 DEF Change
  <2>3. proc'[c] = proc[c] \/ proc'[c] = Started(c)'
    BY <1>2, <1>6 DEF Change, StartedNow
  <2>4. Up(c)' => (proc'[c] = proc[c] /\ Up(c)) \/ proc'[c].config = config'[c]
    BY <1>4, <2>3 DEF Up, Off
  <2> QED  BY <1>1, <1>3, <2>1, <2>2, <2>4 DEF Complete
<1>7. CASE NodeGoesDown
  BY <1>1, <1>2, <1>7 DEF NodeGoesDown, Complete, Initialised, Up, Off
<1>8. CASE NodeComesUp
  <2>1. UNCHANGED <<disk, config>> /\ proc'[c] = IF Started(c).build = "none" THEN Off ELSE Started(c)
    BY <1>2, <1>8 DEF NodeComesUp, Booted
  <2> QED  BY <1>1, <1>4, <2>1 DEF Complete, Initialised, Up, Off
<1>9. CASE DaemonDies
  <2>1. UNCHANGED <<disk, config>>
    BY <1>9 DEF DaemonDies
  <2>3. proc'[c] = proc[c] \/ proc'[c] = Started(c)
    BY <1>2, <1>9, DaemonLost
  <2> QED  BY <1>1, <1>4, <2>1, <2>3 DEF Complete, Initialised, Up, Off
<1> QED  BY <1>2, <1>5, <1>6, <1>7, <1>8, <1>9, NodeSteps

LEMMA ClusterStep ==
  ASSUME BaseInv, At("kubernetes") => KubernetesLines, ClusterInv, [Next]_vars
  PROVE  ClusterInv'
<1> DEFINE i == <<"kube", "provenance">>
<1> SUFFICES ASSUME disk'[i] # "none" PROVE Asked(doc.kubernetes)' /\ (Kubeadm' => Complete')
  BY DEF ClusterInv
<1>1. Asked(doc.kubernetes) /\ (Kubeadm => Complete)
  <2>1. CASE disk[i] # "none"
    BY <2>1 DEF ClusterInv
  <2>2. CASE disk[i] = "none"
    <3>1. At("kubernetes") /\ RunningScript /\ Writes(Step) /\ i \in Step.at /\ Step = script[1]
      BY <2>2, Written
    <3>2. Len(script) # 0
      BY <3>1, RunningLine DEF BaseInv
    <3>3. Kubeadm => Complete
      BY <3>1, <3>2 DEF KubernetesLines, Marks, Ready
    <3>4. Expected("kubernetes")
      BY <3>1, Order DEF BaseInv, Part
    <3> QED  BY <3>3, <3>4 DEF Expected
  <2> QED  BY <2>1, <2>2
<1>2. doc'.kubernetes = doc.kubernetes
  BY <1>1, DocumentKept
<1> QED  BY <1>1, <1>2, CompleteStays DEF Kubeadm, Asked

\* Only the line that initialises a cluster touches its admin.conf.
LEMMA AdminWritten ==
  ASSUME BaseInv, [Next]_vars, disk'[<<"kube", "admin">>] # disk[<<"kube", "admin">>]
  PROVE  At("kubernetes") /\ StepOf("kubernetes", Step) /\ Step.do = "init" /\ SocketKnown
<1> USE DEF BaseInv
<1> DEFINE i == <<"kube", "admin">>
<1>1. i \in Item /\ i # <<"kube", "config">> /\ i \notin Removable
  BY DEF Item, Removable
<1>2. ~StartRun
  BY <1>1 DEF StartRun, NodeTypes
<1>3. RunningScript /\ (Effect \/ InitBreaks)
  BY <1>2, NodeSteps DEF node, NodeGoesDown, NodeComesUp, DaemonDies, ScriptStep, InitFails
<1>4. PICK c \in Part : At(c) /\ StepOf(c, Step)
  BY <1>3, RunningLine
<1>5. Step.do = "init" /\ SocketKnown
  <2>1. CASE InitBreaks
    BY <2>1 DEF InitBreaks
  <2>2. CASE Effect
    <3>1. Step.do = "init"
      <4>1. Step.do = "init" \/ (Step.do \in {"put", "keep", "fetch", "clone", "copy", "package"} /\ i \in Step.at)
        BY <1>1, <1>3, <2>2, OnDisk
      <4>2. ~(Step.do \in {"put", "keep", "fetch", "clone", "copy", "package"} /\ i \in Step.at)
        BY <1>4, OwnIsRuntime DEF StepOf, Runtime
      <4> QED  BY <4>1, <4>2
    <3>2. InitStep
      BY <2>2, <3>1 DEF Effect, PutStep, FetchStep, CloneStep, CopyStep, PackageStep, ConfigStep,
                        DaemonStep, StopStep, CheckStep
    <3>3. CanInit
      BY <3>2 DEF InitStep
    <3> QED  BY <3>1, <3>3 DEF CanInit
  <2> QED  BY <1>3, <2>1, <2>2
<1>6. c = "kubernetes"
  BY <1>4, <1>5 DEF StepOf
<1> QED  BY <1>4, <1>5, <1>6

LEMMA AdminStep ==
  ASSUME BaseInv, AdminInv, [Next]_vars
  PROVE  AdminInv'
<1> USE DEF BaseInv
<1> DEFINE k == "kubernetes"  i == <<"kube", "admin">>
<1>0. k \in Part
  BY DEF Part
<1>1. ASSUME At(k)' PROVE (doc.runtime[1] \notin {"", "none"})'
  <2>1. UNCHANGED doc
    BY <1>1, DocumentKept DEF Update, At
  <2>2. CASE At(k)
    BY <2>1, <2>2 DEF AdminInv
  <2>3. CASE ~At(k)
    <3>1. BeginScript \/ UNCHANGED <<todo, phase>> \/ phase' # "script"
      BY DEF Next, Run, vars, StartRun, RefuseRun, TemplateFails, ScriptStep, run,
             RebootStep, ScriptFails, ScriptEnds, Reconnect, Finish, CutOff, InitFails, GiveUp,
             NodeGoesDown, NodeComesUp, UserReboots, DaemonDies, BranchMoves, Update, EndRun
    <3>2. BeginScript
      BY <1>1, <2>3, <3>1 DEF At
    <3>3. Head(todo) = Install(k) /\ ~TemplateRefuses(Install(k))
      BY <1>1, <3>2 DEF BeginScript, At
    <3> QED  BY <2>1, <3>3 DEF TemplateRefuses, Install
  <2> QED  BY <2>2, <2>3
<1>2. ASSUME disk'[i] # "none"
      PROVE  doc.runtime[1] \notin {"", "none"} /\ Asked(doc.kubernetes) /\ ~SourceOnDocker
  <2>1. CASE disk[i] # "none"
    BY <2>1 DEF AdminInv
  <2>2. CASE disk[i] = "none"
    <3>1. At(k) /\ StepOf(k, Step) /\ Step.do = "init" /\ SocketKnown
      BY <1>2, <2>2, AdminWritten
    <3>2. doc.runtime[1] \notin {"", "none"} /\ Asked(doc.kubernetes)
      BY <1>0, <3>1, Order DEF AdminInv, Expected
    <3>3. ~SourceOnDocker
      BY <3>1 DEF SourceOnDocker, StepOf, SocketKnown
    <3> QED  BY <3>2, <3>3
  <2> QED  BY <2>1, <2>2
<1>3. ASSUME doc.runtime[1] \notin {"", "none"}, Asked(doc.kubernetes), ~SourceOnDocker
      PROVE  (doc.runtime[1] \notin {"", "none"} /\ Asked(doc.kubernetes) /\ ~SourceOnDocker)'
  <2>1. doc'.runtime = doc.runtime /\ doc'.kubernetes = doc.kubernetes
    BY <1>3, DocumentKept DEF Asked
  <2> QED  BY <1>3, <2>1 DEF Asked, SourceOnDocker, Kubeadm, OwnRuntime, RuntimeOf
<1> QED  BY <1>1, <1>2, <1>3 DEF AdminInv

LEMMA KindStep ==
  ASSUME BaseInv, At("kubernetes") => KubernetesLines, KindInv, [Next]_vars
  PROVE  KindInv'
<1> USE DEF BaseInv
<1> DEFINE i == <<"kind", "cluster">>  k == "kind"
<1> SUFFICES ASSUME Up(k)' PROVE disk'[i] # "none"
  BY DEF KindInv
<1>1. k \in Daemon /\ "kubernetes" \in Part
  BY DEF Daemon, Part
<1>2. Started(k).build = disk[i] /\ Started(k)'.build = disk'[i]
  BY DEF Started, Runtime
<1>3. Up(k) \/ disk'[i] # "none"
  <2>1. CASE UNCHANGED node
    BY <2>1 DEF node, Up, Off
  <2>2. ASSUME NEW p \in Part, Change(p) PROVE Up(k) \/ disk'[i] # "none"
    BY <1>1, <1>2, <2>2 DEF Change, StartedNow, Up, Off
  <2>3. CASE NodeGoesDown
    BY <1>1, <2>3 DEF NodeGoesDown, Up, Off
  <2>4. CASE NodeComesUp
    BY <1>1, <1>2, <2>4 DEF NodeComesUp, Booted, Up, Off
  <2>5. CASE DaemonDies
    <3>1. proc'[k] = proc[k] \/ proc'[k] = Off
      BY <1>1, <2>5, DaemonLost DEF Runtime
    <3> QED  BY <3>1 DEF Up, Off
  <2> QED  BY <1>1, <2>1, <2>2, <2>3, <2>4, <2>5, NodeSteps
<1>5. CASE disk'[i] # disk[i]
  <2>1. /\ At("kubernetes") /\ RunningScript /\ Effect
        /\ Writes(Step) /\ i \in Step.at /\ UNCHANGED proc /\ Step = script[1]
    BY <1>5, Written
  <2>2. Len(script) # 0
    BY <2>1, RunningLine
  <2>3. ~Removes(Step)
    BY <2>1, <2>2 DEF KubernetesLines, Up, Off
  <2>4. CASE Step.do \in {"put", "keep"}
    <3>1. PutStep
      BY <2>1, <2>4 DEF Effect, FetchStep, CloneStep, CopyStep, PackageStep, ConfigStep, DaemonStep,
                        StopStep, CheckStep, InitStep
    <3>2. PICK j \in Step.at, v \in Step.val :
            disk' = [disk EXCEPT ![j] = IF Step.do = "keep" /\ @ # "none" THEN @ ELSE v]
      BY <3>1 DEF PutStep
    <3>3. v # "none"
      BY <2>3, <2>4 DEF Removes
    <3> QED  BY <1>5, <3>2, <3>3 DEF NodeTypes
  <2>5. CASE Step.do = "fetch"
    <3>1. FetchStep
      BY <2>1, <2>5 DEF Effect, PutStep, CloneStep, CopyStep, PackageStep, ConfigStep, DaemonStep,
                        StopStep, CheckStep, InitStep
    <3>2. PICK j \in Step.at : disk' = [disk EXCEPT ![j] = "partial"] \/ UNCHANGED disk
      BY <3>1 DEF FetchStep
    <3>3. disk' = [disk EXCEPT ![j] = "partial"]
      BY <1>5, <3>2
    <3>4. disk'[i] = "partial" \/ disk'[i] = disk[i]
      BY <3>3 DEF NodeTypes
    <3> QED  BY <1>5, <3>4
  <2>6. CASE Step.do = "clone"
    <3>1. CloneStep
      BY <2>1, <2>6 DEF Effect, PutStep, FetchStep, CopyStep, PackageStep, ConfigStep, DaemonStep,
                        StopStep, CheckStep, InitStep
    <3>2. branch # "none"
      BY BuildAssumption DEF NodeTypes
    <3> QED  BY <1>5, <3>1, <3>2 DEF CloneStep, NodeTypes
  <2> QED  BY <2>1, <2>4, <2>5, <2>6 DEF Writes
<1>6. CASE disk'[i] = disk[i]
  BY <1>3, <1>6 DEF KindInv
<1> QED  BY <1>5, <1>6

LEMMA GoalServes ==
  ASSUME BaseInv, RunningInv, RuntimeInv, Holds(Goal), Asked(doc.kubernetes)
  PROVE  Ready
<1>1. doc.kubernetes[1] \in {"", "kubeadm", "kind", "microk8s"}
  BY DocumentShape DEF BaseInv, Types, Asked
<1>2. CASE Kubeadm
  <2>1. Goal = "nodes"
    BY <1>2 DEF Goal, Kubeadm
  <2>2. NodesReady
    BY <2>1 DEF Holds, Daemon, Runtime
  <2>3. KubernetesServes
    BY <1>2, <2>2 DEF KubernetesServes, Kubeadm, NodesReady
  <2> QED  BY <2>2, <2>3, ReadyComplete DEF Ready
<1>3. CASE doc.kubernetes[1] = "kind"
  <2>1. Goal = "kind"
    BY <1>3 DEF Goal, Kubeadm
  <2>2. Up("kind")
    BY <2>1 DEF Holds, Daemon, Runtime
  <2> QED  BY <1>3, <2>2 DEF Ready, Kubeadm, KubernetesServes
<1>4. CASE doc.kubernetes[1] = "microk8s"
  <2>1. Goal = "microk8s"
    BY <1>4 DEF Goal, Kubeadm
  <2>2. Up("microk8s")
    BY <2>1 DEF Holds, Daemon, Runtime
  <2> QED  BY <1>4, <2>2 DEF Ready, Kubeadm, KubernetesServes
<1> QED  BY <1>1, <1>2, <1>3, <1>4 DEF Kubeadm

\* A cluster that serves goes on when its daemons are left alone.
LEMMA ReadyStays ==
  ASSUME BaseInv, At("kubernetes"), KubernetesLines, [Next]_vars, Ready, UNCHANGED doc,
         UNCHANGED proc \/ disturbed', disturbed' = FALSE => disturbed = FALSE
  PROVE  Ready'
<1>1. Kubeadm' <=> Kubeadm
  BY DEF Kubeadm
<1>2. Kubeadm => Complete'
  BY CompleteStays DEF Ready
<1>3. ASSUME ~disturbed' PROVE KubernetesServes'
  <2>1. UNCHANGED proc /\ KubernetesServes
    BY <1>3 DEF Ready, BaseInv, Types
  <2>2. CASE Kubeadm
    <3>2. Initialised' /\ disk'[<<"kube", "network">>] = "calico"
      BY <1>2, <2>2 DEF Complete
    <3>3. Up("kube") /\ \E r \in Runtime : CRI(r)
      BY <2>1, <2>2 DEF KubernetesServes, Kubeadm, NodesReady
    <3>4. /\ Up("kube")' <=> Up("kube")
          /\ \A r \in Runtime : CRI(r)' <=> CRI(r)
      BY <2>1 DEF Up, Off, CRI, Runtime
    <3>5. NodesReady'
      BY <3>2, <3>3, <3>4 DEF NodesReady
    <3> QED  BY <2>2, <3>5 DEF KubernetesServes, Kubeadm
  <2>3. CASE ~Kubeadm
    <3>1. doc.kubernetes[1] \in {"none", "kind", "microk8s"}
      BY <2>3, DocumentShape DEF BaseInv, Types, Kubeadm
    <3>2. \A d : Up(d)' <=> Up(d)
      BY <2>1 DEF Up, Off
    <3> QED  BY <2>1, <3>1, <3>2 DEF KubernetesServes
  <2> QED  BY <2>2, <2>3
<1> QED  BY <1>1, <1>2, <1>3 DEF Ready

LEMMA KubernetesLine ==
  ASSUME BaseInv, RunningInv, RuntimeInv, ScriptStep, At("kubernetes"), KubernetesLines
  PROVE  KubernetesLines'
<1> DEFINE n == Len(script)  network == <<"kube", "network">>
<1>0. /\ RunningScript /\ Effect /\ UNCHANGED <<branch, doc, power, phase, disturbed>> /\ [Next]_vars
      /\ "kubernetes" \in Part
  BY DEF ScriptStep, run, Next, Run, Part
<1>1. /\ Sequence(script) /\ n \in Nat \ {0} /\ Step = script[1] /\ 1 \in 1..n
      /\ Moves \/ Refetches
  BY <1>0, RunningLine, EffectMoves DEF BaseInv
<1>2. Goal' = Goal
  BY <1>0 DEF Goal, Kubeadm
<1>3. Asked(doc.kubernetes)
  BY <1>0, Order DEF BaseInv, Expected
<1>4. /\ script[n] = Need(Goal) \/ Marks(script[n])
      /\ Removes(Step) => ~Up("kind")
      /\ Marks(Step) => Ready
      /\ \A i \in 1..n :
           /\ i > 1 => Follows(script[i - 1], script[i])
           /\ KeepsNetwork(script[i]) \/ (i = 1 /\ disk[network] = "partial")
  BY <1>1 DEF KubernetesLines
<1>5. ASSUME Step = Need(Goal) PROVE Ready' /\ (~disturbed => KubernetesServes)'
  <2>1. Holds(Goal) /\ UNCHANGED <<disk, config, proc>>
    BY <1>0, <1>5, KnownLines
  <2>2. Ready
    BY <1>3, <2>1, GoalServes
  <2>3. Ready'
    BY <1>0, <2>1, <2>2, ReadyStays DEF BaseInv, Types
  <2> QED  BY <2>3 DEF Ready
<1>6. ASSUME Marks(Step) PROVE Ready' /\ (~disturbed => KubernetesServes)'
  <2>1. UNCHANGED proc
    BY <1>0, <1>6 DEF Marks, Writes, Effect, PutStep, FetchStep, CloneStep, CopyStep, PackageStep,
                      ConfigStep, DaemonStep, StopStep, CheckStep, InitStep
  <2>2. Ready'
    BY <1>0, <1>4, <1>6, <2>1, ReadyStays DEF BaseInv, Types
  <2> QED  BY <2>2 DEF Ready
<1>7. CASE Moves
  <2>1. Len(script') = n - 1 /\ \A i \in 1..(n - 1) : script'[i] = script[i + 1]
    BY <1>7 DEF Moves
  <2>2. CASE n = 1
    <3>1. (~disturbed => KubernetesServes)'
      BY <1>1, <1>4, <1>5, <1>6, <2>2
    <3>2. Len(script') = 0
      BY <2>1, <2>2
    <3> QED  BY <3>1, <3>2 DEF KubernetesLines
  <2>3. CASE n # 1
    <3>0. \A m \in Nat \ {0} : m # 1 =>
            /\ m - 1 \in 1..(m - 1) /\ 1 \in 1..(m - 1) /\ (m - 1) + 1 = m
            /\ 2 \in 1..m /\ m - 1 # 0
      OBVIOUS
    <3>1. /\ n - 1 \in 1..(n - 1) /\ 1 \in 1..(n - 1) /\ (n - 1) + 1 = n /\ 2 \in 1..n /\ n - 1 # 0
      BY <1>1, <2>3, <3>0
    <3>2. script'[Len(script')] = script[n] /\ script'[1] = script[2] /\ Len(script') # 0
      BY <2>1, <3>1
    <3>3. Follows(Step, script'[1])
      BY <1>1, <1>4, <3>1, <3>2
    <3>4. ASSUME Removes(script'[1]) PROVE ~Up("kind")'
      <4>1. Step = Stop("kind")
        BY <3>3, <3>4 DEF Follows
      <4>2. Step.do = "stop" /\ Step.at = {"kind"}
        BY <4>1 DEF Stop
      <4>3. StopStep
        BY <1>0, <4>2 DEF Effect, PutStep, FetchStep, CloneStep, CopyStep, PackageStep, ConfigStep,
                          DaemonStep, CheckStep, InitStep
      <4>4. proc'["kind"] = Off
        BY <4>2, <4>3 DEF StopStep, Daemon
      <4> QED  BY <4>4 DEF Up, Off
    <3>5. Marks(script'[1]) => Ready'
      BY <1>5, <3>3 DEF Follows
    <3>6. ASSUME NEW i \in 1..Len(script')
          PROVE  /\ i > 1 => Follows(script'[i - 1], script'[i])
                 /\ KeepsNetwork(script'[i])
      <4>1. /\ i + 1 \in 1..n /\ i + 1 > 1 /\ i + 1 # 1 /\ (i + 1) - 1 = i /\ i \in 1..(n - 1)
            /\ i > 1 => i - 1 \in 1..(n - 1) /\ (i - 1) + 1 = i
        BY <1>1, <2>1, <3>6
      <4>2. script'[i] = script[i + 1] /\ (i > 1 => script'[i - 1] = script[i])
        BY <2>1, <4>1
      <4>3. Follows(script[(i + 1) - 1], script[i + 1]) /\ KeepsNetwork(script[i + 1])
        BY <1>4, <4>1
      <4> QED  BY <4>1, <4>2, <4>3
    <3>7. script'[Len(script')] = Need(Goal) \/ Marks(script'[Len(script')])
      BY <1>4, <3>2
    <3> QED
      BY <1>2, <3>2, <3>4, <3>5, <3>6, <3>7 DEF KubernetesLines, Follows, Removes, Marks, Writes, KeepsNetwork
  <2> QED  BY <2>2, <2>3
<1>8. CASE Refetches
  <2>1. /\ Step.do = "fetch" /\ Len(script') = n /\ script'[1] = PutOneOf(Step.at, Step.val)
        /\ \A i \in 2..n : script'[i] = script[i]
    BY <1>8 DEF Refetches
  <2>2. /\ script'[1].do = "put" /\ script'[1].at = Step.at /\ script'[1].val = Step.val
    BY <2>1 DEF PutOneOf
  <2>3. FetchStep
    BY <1>0, <2>1 DEF Effect, PutStep, CloneStep, CopyStep, PackageStep, ConfigStep, DaemonStep,
                      StopStep, CheckStep, InitStep
  <2>4. Removes(script'[1]) => ~Up("kind")'
    <3>1. Removes(script'[1]) => Removes(Step)
      BY <2>1, <2>2 DEF Removes
    <3> QED  BY <1>4, <2>3, <3>1 DEF FetchStep, Up, Off
  <2>5. (Marks(script'[1]) => Marks(Step)) /\ (Marks(Step) => Marks(script'[1]))
    BY <2>1, <2>2 DEF Marks, Writes
  <2>6. script'[n] = Need(Goal) \/ Marks(script'[n])
    <3>1. CASE n = 1
      BY <1>1, <1>4, <2>1, <2>5, <3>1 DEF Need
    <3>2. CASE n # 1
      <4>1. n \in 2..n
        BY <1>1, <3>2
      <4> QED  BY <1>4, <2>1, <4>1
    <3> QED  BY <3>1, <3>2
  <2>7. ASSUME NEW i \in 1..n, i > 1
        PROVE  Follows(script'[i - 1], script'[i]) /\ KeepsNetwork(script'[i])
    <3>1. i \in 2..n /\ i # 1 /\ (i # 2 => i - 1 \in 2..n) /\ (i = 2 => i - 1 = 1)
      BY <1>1, <2>7
    <3>2. script'[i] = script[i] /\ KeepsNetwork(script[i]) /\ Follows(script[i - 1], script[i])
      BY <1>4, <2>1, <2>7, <3>1
    <3>3. CASE i = 2
      <4>1. Follows(Step, script[i])
        BY <1>1, <3>1, <3>2, <3>3
      <4>2. Step # Stop("kind") /\ Step # Need(Goal)
        BY <2>1 DEF Stop, Need
      <4>3. ~Removes(script[i]) /\ ~Marks(script[i])
        BY <4>1, <4>2 DEF Follows
      <4> QED  BY <3>2, <4>3 DEF Follows
    <3>4. CASE i # 2
      BY <2>1, <3>1, <3>2, <3>4
    <3> QED  BY <3>3, <3>4
  <2>8. KeepsNetwork(script'[1]) \/ disk'[network] = "partial"
    <3>1. CASE network \notin Step.at
      BY <2>2, <3>1 DEF KeepsNetwork
    <3>2. CASE network \in Step.at /\ disk[network] = "partial"
      <4> SUFFICES ASSUME disk'[network] # disk[network] PROVE FALSE
        BY <3>2
      <4>1. PICK i \in Step.at : disk[i] = "none" /\ disk' = [disk EXCEPT ![i] = "partial"]
        BY <2>3 DEF FetchStep
      <4> QED  BY <3>2, <4>1 DEF BaseInv, NodeTypes
    <3>3. CASE network \in Step.at /\ disk[network] # "partial"
      <4>1. KeepsNetwork(Step)
        BY <1>1, <1>4, <3>3
      <4>2. Step.at = {network}
        BY <2>1, <3>3, <4>1 DEF KeepsNetwork, Writes, Put, PutOneOf, Fetch
      <4>3. disk[network] = "none" /\ disk' = [disk EXCEPT ![network] = "partial"]
        <5>1. ~Pass
          <6> SUFFICES ASSUME Pass PROVE FALSE
            OBVIOUS
          <6>1. Moves
            BY <1>1, PassMoves
          <6> QED  BY <1>1, <2>1, <6>1 DEF Moves
        <5> QED  BY <2>3, <4>2, <5>1 DEF FetchStep
      <4>4. network \in Item
        BY DEF Item
      <4> QED  BY <4>3, <4>4 DEF BaseInv, NodeTypes
    <3> QED  BY <3>1, <3>2, <3>3
  <2>9. Marks(script'[1]) => Ready'
    BY <1>6, <2>5
  <2> QED
    BY <1>1, <1>2, <2>1, <2>4, <2>6, <2>7, <2>8, <2>9
    DEF KubernetesLines, Follows, Removes, Marks, Writes, KeepsNetwork
<1> QED  BY <1>1, <1>7, <1>8

\* When the script of Kubernetes finds its work done, the cluster serves: one
\* that is taken to be complete has a runtime that the run has installed.
LEMMA FoundServes ==
  ASSUME BaseInv, RunningInv, RuntimeUp, ClusterInv, AdminInv, BeginScript,
         Head(todo) = Install("kubernetes"), Expected("kubernetes"), Found
  PROVE  KubernetesServes
<1> DEFINE r == OwnRuntime
<1>1. /\ phase = "next" /\ power # "down" /\ ~TemplateRefuses(Install("kubernetes"))
      /\ Asked(doc.kubernetes) /\ doc \in Document /\ TodoInv
  BY DEF BeginScript, BaseInv, Types, Expected
<1>2. doc.runtime[1] \notin {"", "none"} /\ Asked(doc.runtime) /\ r \in Runtime
  BY <1>1, OwnIsRuntime DEF TemplateRefuses, Install, Asked
<1>3. ASSUME Kubeadm, NEW c \in Commit, KubeadmGitSkips(c), doc.kubernetes[2] # "release"
      PROVE  KubernetesServes
  <2>1. disk[<<"kube", "provenance">>] # "none"
    BY <1>3, BuildAssumption DEF KubeadmGitSkips
  <2>2. Complete /\ Up("kube")
    BY <1>3, <2>1 DEF ClusterInv, KubeadmGitSkips
  <2>3. NodesReady
    <3>1. ~Has(todo, "runtime")
      <4> SUFFICES ASSUME NEW i \in 1..Len(todo), todo[i] = Install("runtime") PROVE FALSE
        BY DEF Has, In
      <4>1. Len(todo) \in Nat /\ Head(todo) = todo[1] /\ 1 \in 1..Len(todo)
        BY <1>1, LenProperties DEF TodoInv, Within
      <4>2. i # 1 /\ i > 1
        BY <4>1 DEF Install
      <4>3. Rank(Install("kubernetes")) < Rank(Install("runtime"))
        BY <1>1, <4>1, <4>2 DEF TodoInv, Within
      <4> QED  BY <4>3, Ranks
    <3>2. Expected("runtime")
      BY <1>2, <1>3 DEF Expected, Full, Kubeadm
    <3>3. Passed("runtime")
      BY <1>1, <3>1, <3>2 DEF Passed
    <3>4. Up(r)
      BY <1>1, <3>3 DEF RuntimeUp, Serves
    <3>5. CRI(r)
      <4>1. r # "docker"
        BY <1>3 DEF AdminInv, SourceOnDocker, KubeadmGitSkips
      <4> QED  BY <1>2, <2>2, <3>4, <4>1 DEF CRI, Complete, Runtime
    <3> QED  BY <1>2, <2>2, <3>5 DEF NodesReady, Complete
  <2> QED  BY <1>3, <2>3 DEF KubernetesServes, Kubeadm
<1>4. ASSUME Kubeadm, KubeadmSkips PROVE KubernetesServes
  <2>1. NodesReady /\ Up("kube") /\ Initialised
    BY <1>4 DEF KubeadmSkips, NodesReady
  <2> QED  BY <1>4, <2>1 DEF KubernetesServes, Kubeadm
<1>5. CASE doc.kubernetes[1] = "kind"
  BY <1>5 DEF Found, KubernetesServes
<1>6. CASE doc.kubernetes[1] = "microk8s"
  BY <1>6 DEF Found, KubernetesServes
<1>7. doc.kubernetes[1] \in {"kubeadm", "", "kind", "microk8s"}
  BY <1>1, DocumentShape DEF Asked
<1> QED  BY <1>3, <1>4, <1>5, <1>6, <1>7 DEF Found, Kubeadm

LEMMA KubernetesBegins ==
  ASSUME BaseInv, RunningInv, RuntimeUp, ClusterInv, AdminInv, BeginScript,
         Head(todo) = Install("kubernetes"), Expected("kubernetes")
  PROVE  KubernetesLines'
<1> DEFINE s == ScriptOf(<<"install", "kubernetes">>)  n == Len(script')
<1>1. /\ script' = s /\ UNCHANGED <<disk, config, proc, doc, power, disturbed>>
      /\ doc \in Document /\ branch \in Commit /\ Asked(doc.kubernetes)
  BY DEF BeginScript, Install, BaseInv, Types, NodeTypes, Expected, node
<1>2. (Found /\ s = << >>) \/ (Chained(s) /\ Closes(s))
  BY <1>1, KubernetesProgram
<1> HIDE DEF s
<1>3. /\ Goal' = Goal /\ KubernetesServes' = KubernetesServes
  BY <1>1 DEF Goal, Kubeadm, KubernetesServes, Up, Off, Initialised,
              NodesReady, CRI
<1>4. CASE Found /\ s = << >>
  <2>1. KubernetesServes
    BY <1>4, FoundServes
  <2>2. n = 0
    BY <1>1, <1>4, Literals
  <2> QED  BY <1>3, <2>1, <2>2 DEF KubernetesLines
<1>5. CASE Chained(s) /\ Closes(s)
  <2>1. n # 0 /\ (s[n] = Need(Goal) \/ Marks(s[n])) /\ Plain(s[1])
    BY <1>1, <1>5 DEF Chained, Closes
  <2>2. \A i \in 1..n : KeepsNetwork(s[i]) /\ (i > 1 => Follows(s[i - 1], s[i]))
    BY <1>1, <1>5 DEF Chained
  <2> QED
    BY <1>1, <1>3, <2>1, <2>2 DEF KubernetesLines, Follows, Removes, Marks, Writes, KeepsNetwork, Plain
<1> QED  BY <1>2, <1>4, <1>5

\* A script that waits, or finds a daemon dead, has the same to do as before.
LEMMA KubernetesLinesStay ==
  ASSUME BaseInv, At("kubernetes"), KubernetesLines, [Next]_vars, UNCHANGED <<doc, script>>,
         UNCHANGED node \/ DaemonDies, disturbed' = FALSE => disturbed = FALSE
  PROVE  KubernetesLines'
<1>1. Goal' = Goal
  BY DEF Goal, Kubeadm
<1>2. UNCHANGED disk /\ (UNCHANGED proc \/ disturbed' = TRUE)
  BY DEF node, DaemonDies, Disturb
<1>3. ~Up("kind") => ~Up("kind")'
  <2>1. CASE UNCHANGED node
    BY <2>1 DEF node, Up, Off
  <2>2. CASE DaemonDies
    <3>1. "kind" \in Daemon /\ "kind" \notin Runtime
      BY DEF Daemon, Runtime
    <3>2. proc'["kind"] = proc["kind"] \/ proc'["kind"] = Off
      BY <2>2, <3>1, DaemonLost DEF BaseInv
    <3> QED  BY <3>2 DEF Up, Off
  <2> QED  BY <2>1, <2>2
<1>4. Ready => Ready'
  BY <1>2, ReadyStays
<1>5. (~disturbed => KubernetesServes) => (~disturbed => KubernetesServes)'
  <2> SUFFICES ASSUME ~disturbed', KubernetesServes PROVE KubernetesServes'
    BY DEF BaseInv, Types
  <2>1. UNCHANGED <<disk, proc, doc>>
    BY <1>2
  <2> QED
    BY <2>1 DEF KubernetesServes, Up, Off, Initialised, NodesReady, CRI
<1>6. /\ \A i \in 1..Len(script) : Marks(script[i])' <=> Marks(script[i])
      /\ Removes(script[1])' <=> Removes(script[1])
  BY DEF Marks, Removes, Writes
<1>7. CASE Len(script) = 0
  BY <1>5, <1>7 DEF KubernetesLines
<1>8. CASE Len(script) # 0
  <2>1. /\ script[Len(script)] = Need(Goal) \/ Marks(script[Len(script)])
        /\ Removes(script[1]) => ~Up("kind")
        /\ Marks(script[1]) => Ready
    BY <1>8 DEF KubernetesLines
  <2>2. \A i \in 1..Len(script) :
          /\ i > 1 => Follows(script[i - 1], script[i])
          /\ KeepsNetwork(script[i]) \/ (i = 1 /\ disk[<<"kube", "network">>] = "partial")
    BY DEF KubernetesLines
  <2> QED
    BY <1>1, <1>2, <1>3, <1>4, <1>8, <2>1, <2>2
    DEF KubernetesLines, Follows, Removes, Marks, Writes, KeepsNetwork
<1> QED  BY <1>7, <1>8

LEMMA KubernetesStep ==
  ASSUME BaseInv, BaseInv', RunningInv, KubernetesInv, [Next]_vars
  PROVE  KubernetesInv'
<1> USE DEF BaseInv
<1> DEFINE k == "kubernetes"
           lines == At(k) => KubernetesLines
           done == Undisturbed /\ Passed(k) => KubernetesDone
<1>1. /\ RuntimeInv /\ RuntimeUp /\ KindInv /\ ClusterInv /\ AdminInv /\ lines /\ done /\ k \in Part
      /\ \A c \in Part : c = k \/ Rank(Install(c)) < Rank(Install(k))
  BY Ranks DEF KubernetesInv, Part
<1>2. RuntimeInv' /\ RuntimeUp' /\ KindInv' /\ ClusterInv' /\ AdminInv'
  BY <1>1, RuntimeInvStep, RuntimeUpStep, KindStep, ClusterStep, AdminStep
<1>3. ASSUME NEW c \in Part, At(c) PROVE ~Passed(k)
  BY <1>1, <1>3, Order
<1>4. lines' /\ done'
  <2>1. CASE phase' = "idle"
    BY <2>1 DEF At, Undisturbed
  <2>2. CASE StartRun
    BY <1>1, <2>2, AtStart
  <2>3. CASE BeginScript
    <3>1. UNCHANGED <<node, doc, todo, power, disturbed>> /\ phase = "next" /\ phase' = "script"
      BY <2>3 DEF BeginScript
    <3>2. At(k)' => KubernetesLines'
      <4> SUFFICES ASSUME At(k)' PROVE KubernetesLines'
        OBVIOUS
      <4>1. Head(todo) = Install(k)
        BY <3>1 DEF At
      <4>2. Head(todo) = todo[1] /\ 1 \in 1..Len(todo)
        BY <2>3, EmptySeq, LenProperties DEF BeginScript, TodoInv, Within
      <4>3. Expected(k)
        BY <1>1, <4>1, <4>2 DEF TodoInv, Has, In
      <4> QED  BY <1>1, <2>3, <4>1, <4>3, KubernetesBegins
    <3>3. Passed(k)' => Passed(k)
      BY <1>1, <3>1, SamePlace
    <3>4. (Undisturbed' => Undisturbed) /\ (KubernetesDone => KubernetesDone')
      BY <3>1 DEF Undisturbed, KubernetesDone, node, KubernetesBoots, Kubeadm, Initialised, Boots, Binary,
                  KubernetesServes, Up, Off, NodesReady, CRI
    <3> QED  BY <1>1, <3>2, <3>3, <3>4
  <2>4. CASE ScriptStep
    <3>1. UNCHANGED <<doc, todo, phase>> /\ phase = "script" /\ RunningScript
      BY <2>4 DEF ScriptStep, run, RunningScript
    <3>2. \E c \in Part : At(c)
      BY <3>1, RunningLine
    <3>3. ~Passed(k)' /\ (At(k)' => At(k))
      BY <1>1, <1>3, <3>1, <3>2, SamePlace
    <3>4. At(k) => KubernetesLines'
      BY <1>1, <2>4, KubernetesLine
    <3> QED  BY <3>3, <3>4
  <2>5. CASE RebootStep
    <3>1. /\ UNCHANGED <<doc, todo, phase>> /\ phase = "script" /\ RunningScript /\ Step.do = "reboot"
      BY <2>5 DEF RebootStep, RunningScript
    <3>2. PICK c \in Part : At(c) /\ StepOf(c, Step)
      BY <3>1, RunningLine
    <3>3. c # k
      BY <3>1, <3>2 DEF StepOf
    <3>4. ~Passed(k) /\ ~At(k)
      BY <1>1, <1>3, <3>2, <3>3, Order
    <3> QED  BY <1>1, <3>1, <3>4, SamePlace
  <2>6. CASE ScriptEnds
    <3>1. (Passed(k)' => Passed(k) \/ At(k)) /\ ~At(k)' /\ Len(script) = 0
      BY <1>1, <2>6, AtEnd
    <3>2. UNCHANGED <<node, doc, power, disturbed>> /\ phase = "script"
      BY <2>6 DEF ScriptEnds
    <3>3. ~disturbed /\ At(k) => KubernetesDone
      BY <1>1, <3>1, ServesBoots DEF KubernetesLines, KubernetesDone
    <3>4. (Undisturbed' => Undisturbed) /\ (KubernetesDone => KubernetesDone')
      BY <3>2 DEF Undisturbed, KubernetesDone, node, KubernetesBoots, Kubeadm, Initialised, Boots, Binary,
                  KubernetesServes, Up, Off, NodesReady, CRI
    <3> QED  BY <1>1, <3>1, <3>3, <3>4 DEF Undisturbed
  <2>7. CASE /\ phase # "idle" /\ UNCHANGED <<todo, doc, script, fresh>>
             /\ phase' = phase \/ (phase = "reboot" /\ phase' = "next")
             /\ disturbed' = FALSE => disturbed = FALSE
             /\ \/ UNCHANGED <<node, power>>
                \/ NodeGoesDown /\ phase # "script"
                \/ (NodeComesUp /\ phase # "script") \/ DaemonDies
    <3>0. phase' # "idle"
      BY <2>7
    <3>1. Passed(k)' => Passed(k)
      BY <1>1, <2>7, <3>0, SamePlace
    <3>2. At(k)' => At(k) /\ phase = "script"
      BY <2>7 DEF At
    <3>3. Undisturbed' => Undisturbed
      BY <2>7 DEF Undisturbed, Types
    <3>4. lines'
      BY <1>1, <2>7, <3>2, KubernetesLinesStay
    <3>5. CASE UNCHANGED <<node, power>>
      <4>1. KubernetesDone => KubernetesDone'
        BY <2>7, <3>5 DEF KubernetesDone, node, KubernetesBoots, Kubeadm, Initialised, Boots, Binary,
                  KubernetesServes, Up, Off, NodesReady, CRI
      <4> QED  BY <1>1, <3>1, <3>3, <3>4, <4>1
    <3>6. CASE NodeGoesDown /\ phase # "script"
      <4>1. power' = "down" /\ UNCHANGED <<disk, config, doc>>
        BY <3>6 DEF NodeGoesDown
      <4>2. KubernetesBoots => KubernetesBoots'
        BY <4>1 DEF KubernetesBoots, Kubeadm, Initialised, Boots, Binary
      <4> QED  BY <1>1, <3>1, <3>3, <3>4, <4>1, <4>2 DEF KubernetesDone
    <3>7. CASE NodeComesUp /\ phase # "script"
      <4>1. UNCHANGED <<disk, config, doc>>
        BY <3>7 DEF NodeComesUp
      <4>2. KubernetesBoots => KubernetesBoots'
        BY <4>1 DEF KubernetesBoots, Kubeadm, Initialised, Boots, Binary
      <4>3. KubernetesBoots => KubernetesServes'
        BY <3>7, BootsServe
      <4> QED  BY <1>1, <3>1, <3>3, <3>4, <4>2, <4>3 DEF KubernetesDone
    <3>8. CASE DaemonDies
      <4>1. ~Undisturbed'
        BY <3>8 DEF DaemonDies, Disturb, Undisturbed
      <4> QED  BY <3>4, <4>1
    <3> QED  BY <2>7, <3>5, <3>6, <3>7, <3>8
  <2> HIDE DEF lines, done
  <2> QED  BY <2>1, <2>2, <2>3, <2>4, <2>5, <2>6, <2>7, ControlSteps
<1> QED  BY <1>2, <1>4 DEF KubernetesInv

\* The runtime and the cluster over all runs: a cluster that is recorded as
\* complete is, only the document's runtime is ever installed, and the script of
\* Kubernetes ends with a check or with the record that follows one.
THEOREM Kubernetes == Spec => []KubernetesInv
<1>1. Init => KubernetesInv
  <2> SUFFICES ASSUME Init PROVE KubernetesInv
    OBVIOUS
  <2>1. /\ \A r \in Runtime : <<r, "package">> \in Item /\ <<r, "local">> \in Item
        /\ <<"kube", "provenance">> \in Item /\ <<"kube", "admin">> \in Item /\ "kind" \in Daemon
    BY DEF Item, Runtime, Daemon
  <2>2. /\ \A r \in Runtime : NotInstalled(r)
        /\ disk[<<"kube", "provenance">>] = "none" /\ disk[<<"kube", "admin">>] = "none"
        /\ ~Up("kind") /\ phase = "idle"
    BY <2>1 DEF Init, NodeInit, NotInstalled, Item, Runtime, Up, Off, Daemon
  <2> QED
    BY <2>2 DEF KubernetesInv, RuntimeInv, RuntimeUp, KindInv, ClusterInv, AdminInv, At, Passed,
                Undisturbed
<1>2. BaseInv /\ BaseInv' /\ RunningInv /\ KubernetesInv /\ [Next]_vars => KubernetesInv'
  BY KubernetesStep
<1> QED  BY <1>1, <1>2, Based, WhatRunsIsThere, PTL DEF Spec

\* A run that is about to report success, and that nothing has disturbed, leaves
\* the cluster that the document asks for ready, whatever was cut off, stopped,
\* rebooted or updated before it: no script takes half of a cluster for the whole.
THEOREM KubernetesIsServed == Spec => []SuccessMeansKubernetes
<1>1. BaseInv /\ KubernetesInv => SuccessMeansKubernetes
  <2> SUFFICES ASSUME BaseInv, KubernetesInv, Done PROVE KubernetesServes
    BY DEF SuccessMeansKubernetes
  <2>1. Len(todo) = 0 /\ phase = "next" /\ ~disturbed /\ power = "up"
    BY EmptySeq DEF Done
  <2>2. CASE Asked(doc.kubernetes)
    <3>1. Passed("kubernetes") /\ Undisturbed
      BY <2>1, <2>2 DEF Passed, Has, In, Expected, Undisturbed
    <3> QED  BY <2>1, <3>1 DEF KubernetesInv, KubernetesDone
  <2>3. CASE ~Asked(doc.kubernetes)
    BY <2>3 DEF Asked, KubernetesServes
  <2> QED  BY <2>2, <2>3
<1> QED  BY <1>1, Based, Kubernetes, PTL

=============================================================================
