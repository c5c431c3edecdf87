--------------------------- MODULE ConnectionProofs ---------------------------
(***************************************************************************)
(* Proofs about KnownHosts and Connection, for any threads, processes,     *)
(* hosts, setups and bounds: the types, OneKeyPerAddress,                  *)
(* ClientsAreVerified and GivesUpWithReason.                               *)
(***************************************************************************)
EXTENDS Connection, TLAPS

-----------------------------------------------------------------------------
(* The inductive invariant: the host keys                                  *)

Where == {"out", "mutex", "lock", "load", "verify", "record", "leave", "refuse",
          "accepted", "refused"}

HostTypes ==
  /\ process \in [Thread -> Process] /\ known \in Seq(Address \X Host)
  /\ mutex \in [Process -> Thread \cup {None}] /\ flock \in Thread \cup {None}
  /\ at \in [Thread -> Where]
  /\ asked \in [Thread -> (Address \cup {None}) \X (Host \cup {None})]
  /\ loaded \in [Thread -> Seq(Address \X Host)]

\* Who is past a lock holds it.
Locks ==
  \A t \in Thread :
    /\ at[t] \in {"lock", "load", "verify", "record", "leave", "refuse"} => mutex[process[t]] = t
    /\ at[t] \in {"load", "verify", "record", "leave", "refuse"} => flock = t

Met(question)     == \E i \in DOMAIN known : known[i] = question
Disputed(question) == \E i \in DOMAIN known : known[i][1] = question[1] /\ known[i] # question

\* What was read is still in the file while it is used, and the answers are
\* those of the file.
Answers ==
  \A t \in Thread :
    /\ at[t] # "out" => asked[t] \in Address \X Host
    /\ at[t] \in {"verify", "record"} => loaded[t] = known
    /\ at[t] = "record" => \A i \in DOMAIN known : known[i][1] # asked[t][1]
    /\ at[t] \in {"leave", "accepted"} => Policy = "off" \/ Met(asked[t])
    /\ at[t] \in {"refuse", "refused"} => Policy = "strict" \/ Disputed(asked[t])

HostsInv == HostTypes /\ Locks /\ Answers /\ OneKeyPerAddress

-----------------------------------------------------------------------------
(* The inductive invariant: the connections                                *)

Places == {"new", "dial", "hop1", "hop2", "tunnel", "shake", "ready", "run", "sleep",
           "failed", "closed"}

Types ==
  /\ setup \in Setups /\ pc \in [Thread -> Places]
  /\ process \in Placements
  /\ mode \in [Thread -> {"new", "provision", "reboot"}]
  /\ tries \in [Thread -> [target : Count(Attempts), bastion : Count(Attempts)]]
  /\ rounds \in [Thread -> Count(Rounds)] /\ scripts \in [Thread -> Count(Scripts)]
  /\ hop \in [Thread -> {"target", "bastion"}]
  /\ conn \in [Thread -> [host : Host \cup {None}, state : {"open", "closed", "silent"}]]
  /\ client \in [Thread -> [host : Host \cup {None}, alive : BOOLEAN]]
  /\ hop1 \in [Thread -> {"none", "alive", "dead"}]
  /\ session \in [Thread -> [state : {"none", "starting", "listening"}, port : Port \cup {None}]]
  /\ up \in [Host -> BOOLEAN] /\ outage \in [Thread -> BOOLEAN] /\ faults \in Count(Faults)

\* The callback runs within a handshake, and is asked about its other side.
Handshake(t) ==
  /\ at[t] # "out" => pc[t] = "shake" /\ asked[t] = <<PeerName(t), conn[t].host>>
  /\ pc[t] = "shake" =>
       /\ conn[t].host \in Host
       /\ hop[t] = "bastion" => conn[t].host = Bastion /\ Via(t) = "bastion"
       /\ hop[t] = "target" => conn[t].host = Node(t) \/ outage[t]
       /\ conn[t].state # "open" => outage[t]

Dialling == {"dial", "hop1", "hop2", "tunnel", "shake"}

\* A dial has an attempt left, knows of every host that is down on its way,
\* and is on the branch of its transport.
Dials(t) ==
  /\ pc[t] \in Dialling =>
       tries[t].target >= 1 /\ (~outage[t] => \A h \in Path(t) : up[h])
  /\ pc[t] = "hop1" \/ (pc[t] = "shake" /\ hop[t] = "bastion") => tries[t].bastion >= 1
  /\ pc[t] \in {"hop1", "hop2"} => Via(t) = "bastion"
  /\ pc[t] = "hop2" => hop1[t] # "none"
  /\ pc[t] = "tunnel" => session[t].state # "none" \/ outage[t]
  /\ pc[t] = "sleep" => rounds[t] >= 1

\* The parts of ClientsAreVerified and GivesUpWithReason for one thread.
Verified(t) ==
  Policy # "off" =>
    /\ client[t].host # None => Recorded(setup[t].address, client[t].host)
    /\ hop1[t] # "none" => Recorded(Bastion, Bastion)

Reason(t) == pc[t] = "failed" => outage[t] \/ Mistrusted(t) \/ hop1[t] = "dead"

ThreadInv(t) == Handshake(t) /\ Dials(t) /\ Verified(t) /\ Reason(t)

IInv == HostsInv /\ Types /\ \A t \in Thread : ThreadInv(t)

-----------------------------------------------------------------------------
(* The host key callback preserves its part                                *)

\* Lines are only ever added to the file.
Grows ==
  /\ known' \in Seq(Address \X Host)
  /\ \A i \in DOMAIN known : i \in DOMAIN known' /\ known'[i] = known[i]

\* What is recorded stays recorded, and disputes stay.
LEMMA GrowsKeeps ==
  ASSUME Grows
  PROVE  /\ \A q : Met(q) => Met(q)'
         /\ \A q : Disputed(q) => Disputed(q)'
         /\ \A a, k : Recorded(a, k) => Recorded(a, k)'
BY DEF Grows, Met, Disputed, Recorded

\* A lock that is free is held by no thread.
LEMMA FreeIsNobodys == \A t \in Thread : t # None
BY NoneAssumption

LEMMA LockMutexKeeps ==
  ASSUME HostsInv, NEW t \in Thread, LockMutex(t)
  PROVE  HostsInv'
<1>1. /\ at[t] = "mutex" /\ mutex[process[t]] = None
      /\ mutex' = [mutex EXCEPT ![process[t]] = t] /\ at' = [at EXCEPT ![t] = "lock"]
      /\ process' = process /\ known' = known /\ flock' = flock /\ asked' = asked
      /\ loaded' = loaded
  BY DEF LockMutex, Goto
<1>2. HostTypes'
  BY <1>1 DEF HostsInv, HostTypes, Where
<1>3. Locks'
  BY <1>1, FreeIsNobodys DEF HostsInv, HostTypes, Locks
<1>4. Answers' /\ OneKeyPerAddress'
  BY <1>1 DEF HostsInv, HostTypes, Answers, OneKeyPerAddress, Met, Disputed
<1>. QED
  BY <1>2, <1>3, <1>4 DEF HostsInv

LEMMA LockFileKeeps ==
  ASSUME HostsInv, NEW t \in Thread, LockFile(t)
  PROVE  HostsInv'
<1>1. /\ at[t] = "lock" /\ flock = None /\ flock' = t /\ at' = [at EXCEPT ![t] = "load"]
      /\ process' = process /\ known' = known /\ mutex' = mutex /\ asked' = asked
      /\ loaded' = loaded
  BY DEF LockFile, Goto
<1>2. HostTypes'
  BY <1>1 DEF HostsInv, HostTypes, Where
<1>3. Locks'
  BY <1>1, FreeIsNobodys DEF HostsInv, HostTypes, Locks
<1>4. Answers' /\ OneKeyPerAddress'
  BY <1>1 DEF HostsInv, HostTypes, Answers, OneKeyPerAddress, Met, Disputed
<1>. QED
  BY <1>2, <1>3, <1>4 DEF HostsInv

LEMMA LoadKeeps ==
  ASSUME HostsInv, NEW t \in Thread, Load(t)
  PROVE  HostsInv'
<1>1. /\ at[t] = "load" /\ loaded' = [loaded EXCEPT ![t] = known]
      /\ at' = [at EXCEPT ![t] = "verify"]
      /\ process' = process /\ known' = known /\ mutex' = mutex /\ flock' = flock
      /\ asked' = asked
  BY DEF Load, Goto
<1>2. HostTypes'
  BY <1>1 DEF HostsInv, HostTypes, Where
<1>3. Locks'
  BY <1>1 DEF HostsInv, HostTypes, Locks
<1>4. Answers' /\ OneKeyPerAddress'
  BY <1>1 DEF HostsInv, HostTypes, Answers, OneKeyPerAddress, Met, Disputed
<1>. QED
  BY <1>2, <1>3, <1>4 DEF HostsInv

\* The verdict of the lines that were read is that of the file.
LEMMA VerifyKeeps ==
  ASSUME HostsInv, NEW t \in Thread, Verify(t)
  PROVE  HostsInv'
<1>1. /\ at[t] = "verify" /\ loaded[t] = known
      /\ process' = process /\ known' = known /\ mutex' = mutex /\ flock' = flock
      /\ asked' = asked /\ loaded' = loaded
  BY DEF Verify, HostsInv, Answers
<1>2. PICK where \in {"leave", "refuse", "record"} :
        /\ at' = [at EXCEPT ![t] = where]
        /\ where = "leave" => Met(asked[t])
        /\ where = "refuse" => Policy = "strict" \/ Disputed(asked[t])
        /\ where = "record" => \A i \in DOMAIN known : known[i][1] # asked[t][1]
  <2>1. Matches(t) <=> Met(asked[t])
    BY <1>1 DEF Matches, Lines, Met
  <2>2. Lines(t) = {i \in DOMAIN known : known[i][1] = asked[t][1]}
    BY <1>1 DEF Lines
  <2>3. CASE Matches(t)
    BY <2>1, <2>3 DEF Verify, Goto
  <2>4. CASE ~Matches(t) /\ (Lines(t) # {} \/ Policy = "strict")
    <3>1. at' = [at EXCEPT ![t] = "refuse"]
      BY <2>4 DEF Verify, Goto
    <3>2. Policy = "strict" \/ Disputed(asked[t])
      BY <2>1, <2>2, <2>4 DEF Met, Disputed
    <3>. QED
      BY <3>1, <3>2
  <2>5. CASE ~Matches(t) /\ ~(Lines(t) # {} \/ Policy = "strict")
    BY <2>2, <2>5 DEF Verify, Goto
  <2>. QED
    BY <2>3, <2>4, <2>5
<1>3. HostTypes'
  BY <1>1, <1>2 DEF HostsInv, HostTypes, Where
<1>4. Locks'
  BY <1>1, <1>2 DEF HostsInv, HostTypes, Locks
<1>5. Answers' /\ OneKeyPerAddress'
  BY <1>1, <1>2 DEF HostsInv, HostTypes, Answers, OneKeyPerAddress, Met, Disputed
<1>. QED
  BY <1>3, <1>4, <1>5 DEF HostsInv

\* Only the thread that has the file locked writes it: nobody else is between
\* reading and writing, and the address had no line.
LEMMA RecordKeeps ==
  ASSUME HostsInv, NEW t \in Thread, Record(t)
  PROVE  HostsInv' /\ Grows
<1>1. /\ at[t] = "record" /\ known' = Append(known, asked[t])
      /\ at' = [at EXCEPT ![t] = "leave"]
      /\ process' = process /\ mutex' = mutex /\ flock' = flock
      /\ asked' = asked /\ loaded' = loaded
  BY DEF Record, Goto
<1>. DEFINE n == Len(known) + 1
<1>2. known \in Seq(Address \X Host) /\ asked[t] \in Address \X Host
  BY <1>1 DEF HostsInv, HostTypes, Answers
<1>3. /\ known' \in Seq(Address \X Host) /\ DOMAIN known' = DOMAIN known \cup {n}
      /\ n \notin DOMAIN known /\ known'[n] = asked[t]
      /\ \A i \in DOMAIN known : known'[i] = known[i]
  BY <1>1, <1>2
<1>4. Grows
  BY <1>3 DEF Grows
<1>5. HostTypes'
  BY <1>1, <1>3 DEF HostsInv, HostTypes, Where
<1>6. Locks'
  BY <1>1 DEF HostsInv, HostTypes, Locks
<1>7. \A i \in DOMAIN known : known[i][1] # asked[t][1]
  BY <1>1 DEF HostsInv, Answers
<1>8. Answers'
  <2>. SUFFICES ASSUME NEW s \in Thread
                PROVE  /\ at'[s] # "out" => asked'[s] \in Address \X Host
                       /\ at'[s] \in {"verify", "record"} => loaded'[s] = known'
                       /\ at'[s] = "record" => \A i \in DOMAIN known' : known'[i][1] # asked'[s][1]
                       /\ at'[s] \in {"leave", "accepted"} => Policy = "off" \/ Met(asked[s])'
                       /\ at'[s] \in {"refuse", "refused"} => Policy = "strict" \/ Disputed(asked[s])'
    BY DEF Answers
  <2>1. CASE s = t
    <3>1. Met(asked[t])'
      BY <1>1, <1>3 DEF Met
    <3>. QED
      BY <2>1, <3>1, <1>1, <1>2 DEF HostsInv, HostTypes
  <2>2. CASE s # t
    <3>1. at'[s] = at[s] /\ at[s] \notin {"verify", "record"}
      BY <2>2, <1>1 DEF HostsInv, HostTypes, Locks
    <3>2. (Met(asked[s]) => Met(asked[s])') /\ (Disputed(asked[s]) => Disputed(asked[s])')
      BY <1>1, <1>3 DEF Met, Disputed
    <3>. QED
      BY <3>1, <3>2, <1>1 DEF HostsInv, Answers
  <2>. QED
    BY <2>1, <2>2
<1>9. OneKeyPerAddress'
  BY <1>3, <1>7 DEF HostsInv, OneKeyPerAddress
<1>. QED
  BY <1>4, <1>5, <1>6, <1>8, <1>9 DEF HostsInv

LEMMA UnlockKeeps ==
  ASSUME HostsInv, NEW t \in Thread, Unlock(t)
  PROVE  HostsInv'
<1>1. /\ at[t] \in {"leave", "refuse"} /\ process' = process /\ known' = known /\ asked' = asked
      /\ at' = [at EXCEPT ![t] = IF at[t] = "leave" THEN "accepted" ELSE "refused"]
      /\ loaded' = [loaded EXCEPT ![t] = << >>]
      /\ flock' = None /\ mutex' = [mutex EXCEPT ![process[t]] = None]
  BY DEF Unlock, Goto
<1>2. HostTypes'
  <2>1. << >> \in Seq(Address \X Host)
    OBVIOUS
  <2>. QED
    BY <1>1, <2>1 DEF HostsInv, HostTypes, Where
<1>3. Locks'
  BY <1>1, FreeIsNobodys DEF HostsInv, HostTypes, Locks
<1>4. Answers' /\ OneKeyPerAddress'
  BY <1>1 DEF HostsInv, HostTypes, Answers, OneKeyPerAddress, Met, Disputed
<1>. QED
  BY <1>2, <1>3, <1>4 DEF HostsInv

\* A question is asked before any lock is taken.
LEMMA AskKeeps ==
  ASSUME HostsInv, NEW t \in Thread, at[t] = "out", NEW address \in Address, NEW key \in Host,
         Ask(t, address, key)
  PROVE  HostsInv'
<1>1. /\ at' = [at EXCEPT ![t] = IF Policy = "off" THEN "accepted" ELSE "mutex"]
      /\ asked' = [asked EXCEPT ![t] = <<address, key>>]
      /\ process' = process /\ known' = known /\ mutex' = mutex /\ flock' = flock
      /\ loaded' = loaded
  BY DEF Ask, Goto
<1>2. HostTypes'
  BY <1>1 DEF HostsInv, HostTypes, Where
<1>3. Locks'
  BY <1>1 DEF HostsInv, HostTypes, Locks
<1>4. Answers' /\ OneKeyPerAddress'
  BY <1>1 DEF HostsInv, HostTypes, Answers, OneKeyPerAddress, Met, Disputed
<1>. QED
  BY <1>2, <1>3, <1>4 DEF HostsInv

\* The handshake leaves when no lock is held.
LEMMA LeaveKeeps ==
  ASSUME HostsInv, NEW t \in Thread, Leave(t)
  PROVE  HostsInv'
<1>1. /\ at' = [at EXCEPT ![t] = "out"] /\ asked' = [asked EXCEPT ![t] = <<None, None>>]
      /\ process' = process /\ known' = known /\ mutex' = mutex /\ flock' = flock
      /\ loaded' = loaded
  BY DEF Leave, Goto
<1>2. HostTypes'
  BY <1>1 DEF HostsInv, HostTypes, Where
<1>3. Locks'
  BY <1>1 DEF HostsInv, HostTypes, Locks
<1>4. Answers' /\ OneKeyPerAddress'
  BY <1>1 DEF HostsInv, HostTypes, Answers, OneKeyPerAddress, Met, Disputed
<1>. QED
  BY <1>2, <1>3, <1>4 DEF HostsInv

\* A process that is killed takes its threads and their locks along.
LEMMA HostsKillKeeps ==
  ASSUME HostsInv, NEW p \in Process, HostsKill(p)
  PROVE  HostsInv'
<1>. DEFINE gone == {t \in Thread : process[t] = p}
<1>1. /\ mutex' = [mutex EXCEPT ![p] = None] /\ flock' = IF flock \in gone THEN None ELSE flock
      /\ at' = [t \in Thread |-> IF t \in gone THEN "out" ELSE at[t]]
      /\ asked' = [t \in Thread |-> IF t \in gone THEN <<None, None>> ELSE asked[t]]
      /\ loaded' = [t \in Thread |-> IF t \in gone THEN << >> ELSE loaded[t]]
      /\ process' = process /\ known' = known
  BY DEF HostsKill
<1>2. HostTypes'
  <2>1. << >> \in Seq(Address \X Host)
    OBVIOUS
  <2>. QED
    BY <1>1, <2>1 DEF HostsInv, HostTypes, Where
<1>3. Locks'
  BY <1>1, FreeIsNobodys DEF HostsInv, HostTypes, Locks
<1>4. Answers' /\ OneKeyPerAddress'
  BY <1>1 DEF HostsInv, HostTypes, Answers, OneKeyPerAddress, Met, Disputed
<1>. QED
  BY <1>2, <1>3, <1>4 DEF HostsInv

-----------------------------------------------------------------------------
(* Lemmas about connections                                                *)

\* What a setup says of a thread.
LEMMA SetupFields ==
  ASSUME Types, NEW t \in Thread
  PROVE  /\ Via(t) \in {"direct", "bastion", "ssm"} /\ Node(t) \in Host
         /\ setup[t].address \in Address /\ Path(t) \subseteq Host /\ Node(t) \in Path(t)
         /\ Via(t) = "bastion" => Path(t) = {Bastion, Node(t)}
         /\ Via(t) # "bastion" => Path(t) = {Node(t)}
         /\ PeerName(t) \in Address /\ Bastion \in Host /\ None \notin Host
<1>1. setup \in [Thread -> [via : {"direct", "bastion", "ssm"}, node : Host, address : Address]]
  BY SetupAssumption DEF Types
<1>. QED
  BY <1>1, BastionAssumption, NoneAssumption DEF Via, Node, Path, PeerName

\* The types of what is empty.
LEMMA Empties ==
  /\ NoConn \in [host : Host \cup {None}, state : {"open", "closed", "silent"}]
  /\ NoConn.state = "closed" /\ NoConn.host = None
  /\ NoClient \in [host : Host \cup {None}, alive : BOOLEAN] /\ NoClient.host = None
  /\ NoTries \in [target : Count(Attempts), bastion : Count(Attempts)]
  /\ NoSession \in [state : {"none", "starting", "listening"}, port : Port \cup {None}]
  /\ NoSession.state = "none"
  /\ Attempts \in Count(Attempts) /\ Attempts >= 1 /\ 0 \in Count(Rounds) /\ 0 \in Count(Scripts)
  /\ Rounds \in Count(Rounds) /\ Rounds >= 1 /\ Scripts \in Count(Scripts) /\ 0 \in Count(Faults)
BY BoundAssumption DEF NoConn, NoClient, NoTries, NoSession, Count

\* The callback variables stay, or the file grows.
Kept == UNCHANGED hosts \/ (setup' = setup /\ Grows)

LEMMA HostsSame ==
  ASSUME HostsInv, UNCHANGED hosts
  PROVE  HostsInv'
BY DEF HostsInv, hosts, HostTypes, Locks, Answers, OneKeyPerAddress, Met, Disputed

\* What is recorded or disputed stays so.
Monotone(t) ==
  /\ \A a, k : Recorded(a, k) => Recorded(a, k)'
  /\ Mistrusted(t) => Mistrusted(t)'

LEMMA Remains ==
  ASSUME setup' = setup, known' = known \/ Grows, NEW t
  PROVE  Monotone(t)
BY GrowsKeeps DEF Monotone, Mistrusted, Recorded, Grows, Node, Via

\* A step leaves thread t alone.
Same(t) ==
  /\ pc'[t] = pc[t] /\ at'[t] = at[t] /\ asked'[t] = asked[t] /\ hop'[t] = hop[t]
  /\ conn'[t] = conn[t] /\ client'[t] = client[t] /\ hop1'[t] = hop1[t]
  /\ session'[t] = session[t] /\ rounds'[t] = rounds[t] /\ tries'[t] = tries[t]
  /\ outage'[t] = outage[t]

LEMMA SameKeeps ==
  ASSUME IInv, NEW t \in Thread, Same(t), setup' = setup, up' = up, known' = known \/ Grows
  PROVE  ThreadInv(t)'
<1>1. ThreadInv(t) /\ Monotone(t)
  BY Remains DEF IInv
<1>2. Via(t)' = Via(t) /\ Node(t)' = Node(t) /\ Path(t)' = Path(t) /\ PeerName(t)' = PeerName(t)
  BY DEF Via, Node, Path, PeerName, Same
<1>3. Handshake(t)'
  BY <1>1, <1>2 DEF Same, ThreadInv, Handshake
<1>4. Dials(t)'
  BY <1>1, <1>2 DEF Same, ThreadInv, Dials
<1>5. Verified(t)' /\ Reason(t)'
  BY <1>1 DEF Same, ThreadInv, Verified, Reason, Monotone
<1>. QED
  BY <1>3, <1>4, <1>5 DEF ThreadInv

\* A failed attempt is counted, and the last one ends the dial.
LEMMA TargetFailsEffect ==
  ASSUME IInv, NEW t \in Thread, pc[t] \in Dialling, TargetFails(t)
  PROVE  /\ pc' \in [Thread -> Places]
         /\ tries' \in [Thread -> [target : Count(Attempts), bastion : Count(Attempts)]]
         /\ \A s \in Thread \ {t} : pc'[s] = pc[s] /\ tries'[s] = tries[s]
         /\ pc'[t] = "failed" \/ (pc'[t] = "dial" /\ tries'[t].target >= 1)
<1>1. tries[t].target \in Nat /\ tries[t].target >= 1 /\ tries[t].target <= Attempts
  BY BoundAssumption DEF IInv, Types, ThreadInv, Dials, Count
<1>2. /\ pc' = [pc EXCEPT ![t] = IF tries[t].target > 1 THEN "dial" ELSE "failed"]
      /\ tries' = [tries EXCEPT ![t].target = @ - 1]
  BY DEF TargetFails, Go
<1>. QED
  BY <1>1, <1>2, BoundAssumption DEF IInv, Types, Places, Count

LEMMA BastionFailsEffect ==
  ASSUME IInv, NEW t \in Thread, pc[t] = "hop1" \/ (pc[t] = "shake" /\ hop[t] = "bastion"),
         BastionFails(t)
  PROVE  /\ pc' \in [Thread -> Places]
         /\ tries' \in [Thread -> [target : Count(Attempts), bastion : Count(Attempts)]]
         /\ \A s \in Thread \ {t} : pc'[s] = pc[s] /\ tries'[s] = tries[s]
         /\ \/ pc'[t] = "failed" \/ (pc'[t] = "dial" /\ tries'[t].target >= 1)
            \/ pc'[t] = "hop1" /\ tries'[t].target >= 1 /\ tries'[t].bastion >= 1
<1>1. CASE tries[t].bastion > 1
  <2>1. /\ tries[t].target \in Nat /\ tries[t].target >= 1
        /\ tries[t].bastion \in Nat /\ tries[t].bastion <= Attempts
    BY BoundAssumption DEF IInv, Types, ThreadInv, Dials, Count, Dialling
  <2>2. tries' = [tries EXCEPT ![t].bastion = @ - 1] /\ pc' = [pc EXCEPT ![t] = "hop1"]
    BY <1>1 DEF BastionFails, Go
  <2>. QED
    BY <2>1, <2>2, <1>1, BoundAssumption DEF IInv, Types, Places, Count
<1>2. CASE ~(tries[t].bastion > 1)
  BY <1>2, TargetFailsEffect DEF BastionFails, Dialling
<1>. QED
  BY <1>1, <1>2

\* A connection is made to host, for the handshake with the target or the bastion.
LEMMA ShakeEffect ==
  ASSUME IInv, NEW t \in Thread, NEW host \in Host, NEW with \in {"target", "bastion"},
         Shake(t, host, with)
  PROVE  /\ pc' \in [Thread -> Places] /\ hop' \in [Thread -> {"target", "bastion"}]
         /\ conn' \in [Thread -> [host : Host \cup {None}, state : {"open", "closed", "silent"}]]
         /\ \A s \in Thread \ {t} : pc'[s] = pc[s] /\ hop'[s] = hop[s] /\ conn'[s] = conn[s]
         /\ pc'[t] = "shake" /\ hop'[t] = with /\ conn'[t].host = host /\ conn'[t].state = "open"
         /\ tries' = tries
BY DEF Shake, Go, IInv, Types, Places

\* What no step of a dial changes.
Background ==
  /\ setup' = setup /\ process' = process /\ known' = known /\ mode' = mode
  /\ rounds' = rounds /\ scripts' = scripts /\ client' = client /\ hop1' = hop1 /\ up' = up
  /\ faults' \in Count(Faults)

\* A step of t, after which its callback does not run and it may know of an outage.
Mine(t) ==
  /\ outage' \in [Thread -> BOOLEAN] /\ (outage[t] => outage'[t]) /\ at'[t] = "out"
  /\ \A s \in Thread \ {t} : /\ at'[s] = at[s] /\ asked'[s] = asked[s] /\ hop'[s] = hop[s]
                             /\ conn'[s] = conn[s] /\ session'[s] = session[s]
                             /\ outage'[s] = outage[s]

\* A connection is made, and t shakes hands on it.
LEMMA ConnectionIsMade ==
  ASSUME IInv, NEW t \in Thread, pc[t] \in Dialling, HostsInv', Background, Mine(t),
         NEW host \in Host, NEW with \in {"target", "bastion"}, Shake(t, host, with),
         with = "bastion" => host = Bastion /\ Via(t) = "bastion" /\ tries[t].bastion >= 1,
         with = "target" => host = Node(t) \/ outage'[t],
         session' = session
  PROVE  IInv'
<1>1. ThreadInv(t) /\ Types /\ Monotone(t)
  BY Remains DEF IInv, Background
<1>2. Via(t)' = Via(t) /\ Node(t)' = Node(t) /\ Path(t)' = Path(t)
  BY DEF Via, Node, Path, Background
<1>3. Types'
  BY <1>1, ShakeEffect DEF Types, Background, Mine
<1>4. ThreadInv(t)'
  <2>1. Handshake(t)'
    BY <1>1, <1>2, ShakeEffect DEF Handshake, Mine
  <2>2. Dials(t)'
    BY <1>1, <1>2, ShakeEffect DEF ThreadInv, Dials, Background, Mine, Dialling
  <2>3. Verified(t)'
    BY <1>1 DEF ThreadInv, Verified, Monotone, Background
  <2>4. Reason(t)'
    BY ShakeEffect DEF Reason
  <2>. QED
    BY <2>1, <2>2, <2>3, <2>4 DEF ThreadInv
<1>5. \A s \in Thread \ {t} : Same(s)
  BY ShakeEffect DEF Same, Background, Mine
<1>. QED
  BY <1>3, <1>4, <1>5, SameKeeps DEF IInv, Background

\* An attempt fails, for a reason.
LEMMA AttemptFails ==
  ASSUME IInv, NEW t \in Thread, pc[t] \in Dialling, HostsInv', Background, Mine(t),
         \/ TargetFails(t)
         \/ (pc[t] = "hop1" \/ (pc[t] = "shake" /\ hop[t] = "bastion")) /\ BastionFails(t),
         outage'[t] \/ Mistrusted(t) \/ hop1[t] = "dead",
         hop' = hop, conn' \in [Thread -> [host : Host \cup {None}, state : {"open", "closed", "silent"}]],
         session' \in [Thread -> [state : {"none", "starting", "listening"}, port : Port \cup {None}]]
  PROVE  IInv'
<1>1. ThreadInv(t) /\ Types /\ Monotone(t)
  BY Remains DEF IInv, Background
<1>2. Via(t)' = Via(t) /\ Node(t)' = Node(t) /\ Path(t)' = Path(t)
  BY DEF Via, Node, Path, Background
<1>3. /\ pc' \in [Thread -> Places]
      /\ tries' \in [Thread -> [target : Count(Attempts), bastion : Count(Attempts)]]
      /\ \A s \in Thread \ {t} : pc'[s] = pc[s] /\ tries'[s] = tries[s]
      /\ \/ pc'[t] = "failed" \/ (pc'[t] = "dial" /\ tries'[t].target >= 1)
         \/ pc'[t] = "hop1" /\ tries'[t].target >= 1 /\ tries'[t].bastion >= 1 /\ Via(t) = "bastion"
  <2>1. CASE TargetFails(t)
    BY <2>1, TargetFailsEffect
  <2>2. CASE (pc[t] = "hop1" \/ (pc[t] = "shake" /\ hop[t] = "bastion")) /\ BastionFails(t)
    BY <2>2, <1>1, BastionFailsEffect DEF ThreadInv, Handshake, Dials
  <2>. QED
    BY <2>1, <2>2
<1>4. Types'
  BY <1>1, <1>3 DEF Types, Background, Mine
<1>5. ThreadInv(t)'
  <2>1. Handshake(t)'
    BY <1>3 DEF Handshake, Mine
  <2>2. Dials(t)'
    BY <1>1, <1>2, <1>3 DEF ThreadInv, Dials, Background, Mine, Dialling
  <2>3. Verified(t)'
    BY <1>1 DEF ThreadInv, Verified, Monotone, Background
  <2>4. Reason(t)'
    BY <1>1 DEF Reason, Monotone, Background
  <2>. QED
    BY <2>1, <2>2, <2>3, <2>4 DEF ThreadInv
<1>6. \A s \in Thread \ {t} : Same(s)
  BY <1>3 DEF Same, Background, Mine
<1>. QED
  BY <1>4, <1>5, <1>6, SameKeeps DEF IInv, Background

-----------------------------------------------------------------------------
(* The steps of a dial                                                     *)

\* A step that leaves the callback and the file alone.
LEMMA NoCallback ==
  ASSUME IInv, UNCHANGED hosts
  PROVE  HostsInv' /\ process' = process /\ at' = at /\ asked' = asked /\ known' = known
BY HostsSame DEF IInv, hosts

\* The callback runs within handshakes only.
LEMMA OutOfHandshake ==
  ASSUME IInv, NEW t \in Thread, pc[t] # "shake"
  PROVE  at[t] = "out"
BY DEF IInv, ThreadInv, Handshake

LEMMA DialDirectKeeps ==
  ASSUME IInv, NEW t \in Thread, DialDirect(t)
  PROVE  IInv'
<1>1. /\ pc[t] = "dial" /\ UNCHANGED hosts
      /\ setup' = setup /\ mode' = mode /\ rounds' = rounds /\ scripts' = scripts
      /\ client' = client /\ hop1' = hop1 /\ session' = session /\ up' = up
      /\ outage' = outage /\ faults' = faults
  BY DEF DialDirect
<1>2. Background /\ pc[t] \in Dialling /\ Types /\ HostsInv' /\ at' = at /\ at'[t] = "out"
  BY <1>1, NoCallback, OutOfHandshake DEF Background, Dialling, IInv, Types
<1>3. CASE up[Node(t)]
  <2>1. Shake(t, Node(t), "target")
    BY <1>3 DEF DialDirect
  <2>2. Mine(t)
    BY <2>1, <1>1, <1>2, NoCallback, ShakeEffect, SetupFields DEF Mine, Types
  <2>. QED
    BY <2>1, <2>2, <1>1, <1>2, SetupFields, ConnectionIsMade
<1>4. CASE ~up[Node(t)]
  <2>1. TargetFails(t) /\ hop' = hop /\ conn' = conn
    BY <1>4 DEF DialDirect
  <2>2. Mine(t)
    BY <2>1, <1>1, <1>2, NoCallback DEF Mine, Types
  <2>3. outage'[t]
    BY <1>1, <1>2, <1>4, SetupFields DEF IInv, ThreadInv, Dials
  <2>. QED
    BY <2>1, <2>2, <2>3, <1>1, <1>2, AttemptFails DEF Types
<1>. QED
  BY <1>3, <1>4

LEMMA DialBastionKeeps ==
  ASSUME IInv, NEW t \in Thread, DialBastion(t)
  PROVE  IInv'
<1>1. /\ pc[t] = "dial" /\ Via(t) = "bastion" /\ UNCHANGED hosts
      /\ setup' = setup /\ mode' = mode /\ rounds' = rounds /\ scripts' = scripts
      /\ hop' = hop /\ conn' = conn /\ client' = client /\ hop1' = hop1 /\ session' = session
      /\ up' = up /\ outage' = outage /\ faults' = faults
      /\ \/ /\ pc' = [pc EXCEPT ![t] = "hop1"] /\ tries' = [tries EXCEPT ![t].bastion = Attempts]
         \/ /\ hop1[t] # "none" /\ pc' = [pc EXCEPT ![t] = "hop2"] /\ tries' = tries
  BY DEF DialBastion, Go
<1>2. /\ Types /\ ThreadInv(t) /\ HostsInv' /\ process' = process /\ at' = at /\ asked' = asked
      /\ known' = known /\ at[t] = "out" /\ Monotone(t)
  BY <1>1, NoCallback, OutOfHandshake, Remains DEF IInv
<1>3. Types'
  <2>. /\ tries \in [Thread -> [target : Count(Attempts), bastion : Count(Attempts)]]
       /\ pc \in [Thread -> Places] /\ {"hop1", "hop2"} \subseteq Places
    BY <1>2 DEF Types, Places
  <2>1. tries' \in [Thread -> [target : Count(Attempts), bastion : Count(Attempts)]]
    BY <1>1, Empties
  <2>2. pc' \in [Thread -> Places]
    BY <1>1
  <2>. QED
    BY <2>1, <2>2, <1>1, <1>2 DEF Types
<1>4. ThreadInv(t)'
  <2>1. Handshake(t)' /\ Reason(t)'
    BY <1>1, <1>2 DEF Types, Handshake, Reason
  <2>2. Dials(t)'
    BY <1>1, <1>2, Empties DEF Types, ThreadInv, Dials, Dialling, Via, Node, Path
  <2>3. Verified(t)'
    BY <1>1, <1>2 DEF ThreadInv, Verified, Monotone
  <2>. QED
    BY <2>1, <2>2, <2>3 DEF ThreadInv
<1>5. \A s \in Thread \ {t} : Same(s)
  BY <1>1, <1>2 DEF Same, Types
<1>. QED
  BY <1>1, <1>2, <1>3, <1>4, <1>5, SameKeeps DEF IInv

LEMMA DialHop1Keeps ==
  ASSUME IInv, NEW t \in Thread, DialHop1(t)
  PROVE  IInv'
<1>1. /\ pc[t] = "hop1" /\ UNCHANGED hosts
      /\ setup' = setup /\ mode' = mode /\ rounds' = rounds /\ scripts' = scripts
      /\ client' = client /\ hop1' = hop1 /\ session' = session /\ up' = up
      /\ outage' = outage /\ faults' = faults
  BY DEF DialHop1
<1>2. /\ Background /\ pc[t] \in Dialling /\ Types /\ HostsInv' /\ at' = at /\ at'[t] = "out"
      /\ Via(t) = "bastion" /\ tries[t].bastion >= 1
  BY <1>1, NoCallback, OutOfHandshake
     DEF Background, Dialling, IInv, Types, ThreadInv, Dials
<1>3. CASE up[Bastion]
  <2>1. Shake(t, Bastion, "bastion") /\ Bastion \in Host
    BY <1>2, <1>3, SetupFields DEF DialHop1
  <2>2. Mine(t)
    BY <2>1, <1>1, <1>2, NoCallback, ShakeEffect DEF Mine, Types
  <2>. QED
    BY <2>1, <2>2, <1>1, <1>2, ConnectionIsMade
<1>4. CASE ~up[Bastion]
  <2>1. BastionFails(t) /\ hop' = hop /\ conn' = conn
    BY <1>4 DEF DialHop1
  <2>2. Mine(t)
    BY <2>1, <1>1, <1>2, NoCallback DEF Mine, Types
  <2>3. outage'[t]
    BY <1>1, <1>2, <1>4, SetupFields DEF IInv, ThreadInv, Dials
  <2>. QED
    BY <2>1, <2>2, <2>3, <1>1, <1>2, AttemptFails DEF Types
<1>. QED
  BY <1>3, <1>4

LEMMA DialHop2Keeps ==
  ASSUME IInv, NEW t \in Thread, DialHop2(t)
  PROVE  IInv'
<1>1. /\ pc[t] = "hop2" /\ UNCHANGED hosts
      /\ setup' = setup /\ mode' = mode /\ rounds' = rounds /\ scripts' = scripts
      /\ client' = client /\ hop1' = hop1 /\ session' = session /\ up' = up
      /\ outage' = outage /\ faults' = faults
  BY DEF DialHop2
<1>2. /\ Background /\ pc[t] \in Dialling /\ Types /\ HostsInv' /\ at' = at /\ at'[t] = "out"
      /\ hop1[t] # "none"
  BY <1>1, NoCallback, OutOfHandshake
     DEF Background, Dialling, IInv, Types, ThreadInv, Dials
<1>3. CASE hop1[t] = "alive" /\ up[Node(t)]
  <2>1. Shake(t, Node(t), "target")
    BY <1>3 DEF DialHop2
  <2>2. Mine(t)
    BY <2>1, <1>1, <1>2, NoCallback, ShakeEffect, SetupFields DEF Mine, Types
  <2>. QED
    BY <2>1, <2>2, <1>1, <1>2, SetupFields, ConnectionIsMade
<1>4. CASE ~(hop1[t] = "alive" /\ up[Node(t)])
  <2>1. TargetFails(t) /\ hop' = hop /\ conn' = conn
    BY <1>4 DEF DialHop2
  <2>2. Mine(t)
    BY <2>1, <1>1, <1>2, NoCallback DEF Mine, Types
  <2>3. outage'[t] \/ hop1[t] = "dead"
    BY <1>1, <1>2, <1>4, SetupFields DEF IInv, Types, ThreadInv, Dials
  <2>. QED
    BY <2>1, <2>2, <2>3, <1>1, <1>2, AttemptFails DEF Types
<1>. QED
  BY <1>3, <1>4

\* Nobody listens on a port that does not belong to t, and t does not either.
LEMMA StartSessionKeeps ==
  ASSUME IInv, NEW t \in Thread, StartSession(t)
  PROVE  IInv'
<1>1. /\ pc[t] = "dial" /\ UNCHANGED hosts /\ pc' = [pc EXCEPT ![t] = "tunnel"]
      /\ setup' = setup /\ mode' = mode /\ tries' = tries /\ rounds' = rounds
      /\ scripts' = scripts /\ hop' = hop /\ conn' = conn /\ client' = client /\ hop1' = hop1
      /\ up' = up /\ outage' = outage /\ faults' = faults
  BY DEF StartSession, Go
<1>2. PICK p \in Port : session' = [session EXCEPT ![t] = [state |-> "starting", port |-> p]]
  BY DEF StartSession
<1>3. /\ Types /\ ThreadInv(t) /\ HostsInv' /\ process' = process /\ at' = at /\ asked' = asked
      /\ known' = known /\ at[t] = "out" /\ Monotone(t)
  BY <1>1, NoCallback, OutOfHandshake, Remains DEF IInv
<1>4. /\ pc' \in [Thread -> Places] /\ pc'[t] = "tunnel" /\ \A s \in Thread \ {t} : pc'[s] = pc[s]
      /\ session' \in [Thread -> [state : {"none", "starting", "listening"}, port : Port \cup {None}]]
      /\ session'[t].state = "starting" /\ \A s \in Thread \ {t} : session'[s] = session[s]
  BY <1>1, <1>2, <1>3 DEF Types, Places
<1>5. Types'
  BY <1>1, <1>3, <1>4 DEF Types
<1>6. ThreadInv(t)'
  <2>1. Handshake(t)' /\ Reason(t)'
    BY <1>1, <1>3, <1>4 DEF Handshake, Reason
  <2>2. Dials(t)'
    BY <1>1, <1>3, <1>4 DEF ThreadInv, Dials, Dialling, Via, Node, Path
  <2>3. Verified(t)'
    BY <1>1, <1>3 DEF ThreadInv, Verified, Monotone
  <2>. QED
    BY <2>1, <2>2, <2>3 DEF ThreadInv
<1>7. \A s \in Thread \ {t} : Same(s)
  BY <1>1, <1>3, <1>4 DEF Same
<1>. QED
  BY <1>1, <1>3, <1>5, <1>6, <1>7, SameKeeps DEF IInv

LEMMA SessionListensKeeps ==
  ASSUME IInv, NEW t \in Thread, SessionListens(t)
  PROVE  IInv'
<1>1. /\ UNCHANGED hosts /\ pc' = pc /\ session' = [session EXCEPT ![t].state = "listening"]
      /\ setup' = setup /\ mode' = mode /\ tries' = tries /\ rounds' = rounds
      /\ scripts' = scripts /\ hop' = hop /\ conn' = conn /\ client' = client /\ hop1' = hop1
      /\ up' = up /\ outage' = outage /\ faults' = faults
  BY DEF SessionListens
<1>2. /\ Types /\ ThreadInv(t) /\ HostsInv' /\ process' = process /\ at' = at /\ asked' = asked
      /\ known' = known /\ Monotone(t)
  BY <1>1, NoCallback, Remains DEF IInv
<1>3. /\ session' \in [Thread -> [state : {"none", "starting", "listening"}, port : Port \cup {None}]]
      /\ session'[t].state = "listening" /\ \A s \in Thread \ {t} : session'[s] = session[s]
  <2>. session \in [Thread -> [state : {"none", "starting", "listening"}, port : Port \cup {None}]]
    BY <1>2 DEF Types
  <2>. QED
    BY <1>1
<1>4. Types'
  BY <1>1, <1>2, <1>3 DEF Types
<1>5. ThreadInv(t)'
  <2>1. Handshake(t)'
    BY <1>1, <1>2 DEF ThreadInv, Handshake, PeerName, Via, Node
  <2>2. Dials(t)'
    BY <1>1, <1>2, <1>3 DEF ThreadInv, Dials, Via, Node, Path
  <2>3. Verified(t)' /\ Reason(t)'
    BY <1>1, <1>2 DEF ThreadInv, Verified, Reason, Monotone
  <2>. QED
    BY <2>1, <2>2, <2>3 DEF ThreadInv
<1>6. \A s \in Thread \ {t} : Same(s)
  BY <1>1, <1>2, <1>3 DEF Same
<1>. QED
  BY <1>1, <1>2, <1>4, <1>5, <1>6, SameKeeps DEF IInv

\* Another one's listener is an outage of t.
LEMMA DialTunnelKeeps ==
  ASSUME IInv, NEW t \in Thread, DialTunnel(t)
  PROVE  IInv'
<1>1. /\ pc[t] = "tunnel" /\ UNCHANGED hosts
      /\ setup' = setup /\ mode' = mode /\ rounds' = rounds /\ scripts' = scripts
      /\ client' = client /\ hop1' = hop1 /\ session' = session /\ up' = up
      /\ faults' = faults
  BY DEF DialTunnel
<1>2. PICK s \in Thread : /\ Shake(t, Node(s), "target")
                          /\ outage' = [outage EXCEPT ![t] = outage[t] \/ s # t]
  BY DEF DialTunnel, Listener
<1>3. Background /\ pc[t] \in Dialling /\ Types /\ HostsInv' /\ at' = at /\ at'[t] = "out"
  BY <1>1, NoCallback, OutOfHandshake DEF Background, Dialling, IInv, Types
<1>4. Node(s) \in Host
  BY <1>3, SetupFields
<1>5. /\ outage' \in [Thread -> BOOLEAN] /\ outage'[t] = (outage[t] \/ s # t)
      /\ \A r \in Thread \ {t} : outage'[r] = outage[r]
  BY <1>2, <1>3 DEF Types
<1>6. Mine(t)
  BY <1>1, <1>2, <1>3, <1>4, <1>5, NoCallback, ShakeEffect DEF Mine
<1>. QED
  BY <1>1, <1>2, <1>3, <1>4, <1>5, <1>6, ConnectionIsMade

LEMMA TunnelFailsKeeps ==
  ASSUME IInv, NEW t \in Thread, TunnelFails(t)
  PROVE  IInv'
<1>1. /\ pc[t] = "tunnel" /\ Listener(session[t].port) = {} /\ TargetFails(t) /\ UNCHANGED hosts
      /\ setup' = setup /\ mode' = mode /\ rounds' = rounds /\ scripts' = scripts
      /\ hop' = hop /\ conn' = conn /\ client' = client /\ hop1' = hop1 /\ up' = up
      /\ session' = [session EXCEPT ![t] = NoSession]
      /\ IF up[Node(t)] /\ session[t].state = "starting"
         THEN faults < Faults /\ faults' = faults + 1 /\ outage' = [outage EXCEPT ![t] = TRUE]
         ELSE faults' = faults /\ outage' = outage
  BY DEF TunnelFails
<1>2. /\ pc[t] \in Dialling /\ Types /\ HostsInv' /\ at' = at /\ at'[t] = "out"
      /\ ThreadInv(t)
  BY <1>1, NoCallback, OutOfHandshake DEF Dialling, IInv
<1>3. faults' \in Count(Faults)
  BY <1>1, <1>2, BoundAssumption DEF Types, Count
<1>4. Background
  BY <1>1, <1>3, NoCallback DEF Background
<1>5. /\ session' \in [Thread -> [state : {"none", "starting", "listening"}, port : Port \cup {None}]]
      /\ \A s \in Thread \ {t} : session'[s] = session[s]
  BY <1>1, <1>2, Empties DEF Types
<1>6. /\ outage' \in [Thread -> BOOLEAN] /\ (outage[t] => outage'[t])
      /\ \A s \in Thread \ {t} : outage'[s] = outage[s]
  BY <1>1, <1>2 DEF Types
<1>7. Mine(t)
  BY <1>1, <1>2, <1>5, <1>6, NoCallback DEF Mine
<1>8. outage'[t]
  <2>1. CASE ~up[Node(t)]
    BY <2>1, <1>1, <1>2, <1>6, SetupFields DEF ThreadInv, Dials
  <2>2. CASE up[Node(t)] /\ session[t].state = "starting"
    BY <2>2, <1>1, <1>2 DEF Types
  <2>3. CASE session[t].state = "listening"
    <3>1. session[t] = [state |-> "listening", port |-> session[t].port]
      BY <2>3, <1>2 DEF Types
    <3>. QED
      BY <3>1, <1>1 DEF Listener
  <2>4. CASE session[t].state = "none"
    BY <2>4, <1>1, <1>2, <1>6 DEF ThreadInv, Dials
  <2>5. session[t].state \in {"none", "starting", "listening"}
    BY <1>2 DEF Types
  <2>. QED
    BY <2>1, <2>2, <2>3, <2>4, <2>5
<1>. QED
  BY <1>1, <1>2, <1>4, <1>5, <1>7, <1>8, AttemptFails DEF Types

-----------------------------------------------------------------------------
(* The handshake                                                           *)

LEMMA CheckHostKeyKeeps ==
  ASSUME IInv, NEW t \in Thread, CheckHostKey(t)
  PROVE  IInv'
<1>1. /\ pc[t] = "shake" /\ at[t] = "out" /\ Ask(t, PeerName(t), conn[t].host) /\ UNCHANGED lines
  BY DEF CheckHostKey
<1>2. Types /\ ThreadInv(t) /\ conn[t].host \in Host /\ PeerName(t) \in Address
  BY <1>1, SetupFields DEF IInv, ThreadInv, Handshake
<1>3. HostsInv' /\ process' = process /\ known' = known
  BY <1>1, <1>2, AskKeeps DEF IInv, Ask
<1>4. /\ at' = [at EXCEPT ![t] = IF Policy = "off" THEN "accepted" ELSE "mutex"]
      /\ asked' = [asked EXCEPT ![t] = <<PeerName(t), conn[t].host>>]
  BY <1>1 DEF Ask, Goto
<1>5. asked'[t] = <<PeerName(t), conn[t].host>> /\ \A s \in Thread \ {t} : at'[s] = at[s] /\ asked'[s] = asked[s]
  BY <1>4 DEF IInv, HostsInv, HostTypes
<1>6. Types'
  BY <1>1, <1>2, <1>3 DEF Types, lines
<1>7. ThreadInv(t)'
  <2>1. Handshake(t)'
    BY <1>1, <1>2, <1>5 DEF lines, ThreadInv, Handshake, PeerName, Via, Node
  <2>2. Dials(t)'
    BY <1>1, <1>2 DEF lines, ThreadInv, Dials, Via, Node, Path
  <2>3. Verified(t)' /\ Reason(t)'
    BY <1>1, <1>2, <1>3, Remains DEF lines, ThreadInv, Verified, Reason, Monotone
  <2>. QED
    BY <2>1, <2>2, <2>3 DEF ThreadInv
<1>8. \A s \in Thread \ {t} : Same(s)
  BY <1>1, <1>5 DEF Same, lines
<1>. QED
  BY <1>1, <1>3, <1>6, <1>7, <1>8, SameKeeps DEF IInv, lines

\* A step of the callback: the question stays, and the handshake waits.
LEMMA HostKeyStepKeeps ==
  ASSUME IInv, NEW t \in Thread, HostKeyStep(t)
  PROVE  IInv'
<1>1. Callback(t) /\ UNCHANGED lines
  BY DEF HostKeyStep
<1>2. HostsInv' /\ (known' = known \/ Grows)
  <2>1. CASE Record(t)
    BY <2>1, RecordKeeps DEF IInv
  <2>2. CASE Verify(t) \/ Unlock(t)
    BY <2>2, VerifyKeeps, UnlockKeeps DEF IInv, Verify, Unlock
  <2>3. CASE LockMutex(t) \/ LockFile(t) \/ Load(t)
    BY <2>3, LockMutexKeeps, LockFileKeeps, LoadKeeps DEF IInv, LockMutex, LockFile, Load
  <2>. QED
    BY <2>1, <2>2, <2>3, <1>1 DEF Callback
<1>3. /\ process' = process /\ asked' = asked /\ at[t] # "out"
      /\ \E where : at' = [at EXCEPT ![t] = where]
  BY <1>1 DEF Callback, LockMutex, LockFile, Load, Verify, Record, Unlock, Goto
<1>4. at \in [Thread -> Where]
  BY DEF IInv, HostsInv, HostTypes
<1>5. \A s \in Thread \ {t} : at'[s] = at[s]
  BY <1>3, <1>4
<1>6. Types /\ ThreadInv(t) /\ Monotone(t)
  BY <1>1, <1>2, Remains DEF IInv, lines
<1>7. Types'
  BY <1>1, <1>3, <1>6 DEF Types, lines
<1>8. ThreadInv(t)'
  <2>1. Handshake(t)'
    BY <1>1, <1>3, <1>6 DEF lines, ThreadInv, Handshake, PeerName, Via, Node
  <2>2. Dials(t)'
    BY <1>1, <1>6 DEF lines, ThreadInv, Dials, Via, Node, Path
  <2>3. Verified(t)' /\ Reason(t)'
    BY <1>1, <1>6 DEF lines, ThreadInv, Verified, Reason, Monotone
  <2>. QED
    BY <2>1, <2>2, <2>3 DEF ThreadInv
<1>9. \A s \in Thread \ {t} : Same(s)
  BY <1>1, <1>3, <1>5 DEF Same, lines
<1>. QED
  BY <1>1, <1>2, <1>7, <1>8, <1>9, SameKeeps DEF IInv, lines

\* A client is made of a connection whose key was found in the file.
LEMMA ConnectedKeeps ==
  ASSUME IInv, NEW t \in Thread, Connected(t)
  PROVE  IInv'
<1>1. /\ pc[t] = "shake" /\ at[t] = "accepted" /\ Leave(t)
      /\ conn' = [conn EXCEPT ![t] = NoConn]
      /\ setup' = setup /\ mode' = mode /\ rounds' = rounds /\ scripts' = scripts
      /\ hop' = hop /\ session' = session /\ up' = up /\ outage' = outage /\ faults' = faults
  BY DEF Connected
<1>2. /\ Types /\ ThreadInv(t) /\ HostsInv' /\ process' = process /\ known' = known /\ Monotone(t)
      /\ at' = [at EXCEPT ![t] = "out"] /\ asked' = [asked EXCEPT ![t] = <<None, None>>]
  BY <1>1, LeaveKeeps, Remains DEF IInv, Leave, Goto
<1>3. at'[t] = "out" /\ \A s \in Thread \ {t} : at'[s] = at[s] /\ asked'[s] = asked[s]
  BY <1>2 DEF IInv, HostsInv, HostTypes
<1>4. /\ conn' \in [Thread -> [host : Host \cup {None}, state : {"open", "closed", "silent"}]]
      /\ \A s \in Thread \ {t} : conn'[s] = conn[s]
  BY <1>1, <1>2, Empties DEF Types
<1>5. conn[t].host \in Host /\ (Policy = "off" \/ Recorded(PeerName(t), conn[t].host))
  BY <1>1, <1>2 DEF IInv, HostsInv, Answers, ThreadInv, Handshake, Met, Recorded
<1>6. CASE hop[t] = "bastion"
  <2>1. /\ hop1' = [hop1 EXCEPT ![t] = "alive"] /\ pc' = [pc EXCEPT ![t] = "hop2"]
        /\ client' = client /\ tries' = [tries EXCEPT ![t].bastion = 0]
    BY <1>6 DEF Connected, Go
  <2>2. /\ tries' \in [Thread -> [target : Count(Attempts), bastion : Count(Attempts)]]
        /\ tries'[t].target = tries[t].target /\ \A s \in Thread \ {t} : tries'[s] = tries[s]
    <3>. tries \in [Thread -> [target : Count(Attempts), bastion : Count(Attempts)]]
      BY <1>2 DEF Types
    <3>. 0 \in Count(Attempts)
      BY BoundAssumption DEF Count
    <3>. QED
      BY <2>1
  <2>3. /\ pc' \in [Thread -> Places] /\ pc'[t] = "hop2" /\ \A s \in Thread \ {t} : pc'[s] = pc[s]
        /\ hop1' \in [Thread -> {"none", "alive", "dead"}] /\ hop1'[t] = "alive"
        /\ \A s \in Thread \ {t} : hop1'[s] = hop1[s]
    BY <2>1, <1>2 DEF Types, Places
  <2>4. Types'
    BY <2>1, <2>2, <2>3, <1>1, <1>2, <1>4 DEF Types
  <2>5. PeerName(t) = Bastion /\ conn[t].host = Bastion /\ Via(t) = "bastion"
    BY <1>1, <1>2, <1>6 DEF PeerName, ThreadInv, Handshake
  <2>6. ThreadInv(t)'
    <3>1. Handshake(t)' /\ Reason(t)'
      BY <2>3, <1>3 DEF Handshake, Reason
    <3>2. Dials(t)'
      BY <2>2, <2>3, <2>5, <1>1, <1>2 DEF ThreadInv, Dials, Dialling, Via, Node, Path
    <3>3. Verified(t)'
      BY <2>1, <2>5, <1>1, <1>2, <1>5 DEF ThreadInv, Verified, Monotone
    <3>. QED
      BY <3>1, <3>2, <3>3 DEF ThreadInv
  <2>7. \A s \in Thread \ {t} : Same(s)
    BY <2>1, <2>2, <2>3, <1>1, <1>3, <1>4 DEF Same
  <2>. QED
    BY <2>4, <2>6, <2>7, <1>1, <1>2, SameKeeps DEF IInv
<1>7. CASE hop[t] # "bastion"
  <2>1. PICK where \in {"run", "ready"} :
          /\ client' = [client EXCEPT ![t] = [host |-> conn[t].host, alive |-> TRUE]]
          /\ pc' = [pc EXCEPT ![t] = where] /\ hop1' = hop1
          /\ tries' = [tries EXCEPT ![t] = NoTries]
    BY <1>7 DEF Connected, Go
  <2>2. /\ tries' \in [Thread -> [target : Count(Attempts), bastion : Count(Attempts)]]
        /\ \A s \in Thread \ {t} : tries'[s] = tries[s]
        /\ pc' \in [Thread -> Places] /\ pc'[t] \in {"run", "ready"}
        /\ \A s \in Thread \ {t} : pc'[s] = pc[s]
    BY <2>1, <1>2, Empties DEF Types, Places
  <2>3. /\ client' \in [Thread -> [host : Host \cup {None}, alive : BOOLEAN]]
        /\ client'[t].host = conn[t].host /\ \A s \in Thread \ {t} : client'[s] = client[s]
    BY <2>1, <1>2, <1>5 DEF Types
  <2>4. Types'
    BY <2>1, <2>2, <2>3, <1>1, <1>2, <1>4 DEF Types
  <2>5. PeerName(t) = setup[t].address
    BY <1>7 DEF PeerName
  <2>6. ThreadInv(t)'
    <3>1. Handshake(t)' /\ Reason(t)'
      BY <2>2, <1>3 DEF Handshake, Reason
    <3>2. Dials(t)'
      BY <2>2 DEF Dials, Dialling
    <3>3. Verified(t)'
      BY <2>1, <2>3, <2>5, <1>1, <1>2, <1>5 DEF ThreadInv, Verified, Monotone
    <3>. QED
      BY <3>1, <3>2, <3>3 DEF ThreadInv
  <2>7. \A s \in Thread \ {t} : Same(s)
    BY <2>1, <2>2, <2>3, <1>1, <1>3, <1>4 DEF Same
  <2>. QED
    BY <2>4, <2>6, <2>7, <1>1, <1>2, SameKeeps DEF IInv
<1>. QED
  BY <1>6, <1>7

\* A handshake fails because its key is disputed, or with its connection.
LEMMA ShakeFailsKeeps ==
  ASSUME IInv, NEW t \in Thread, ShakeFails(t)
  PROVE  IInv'
<1>1. /\ pc[t] = "shake" /\ Leave(t) /\ conn' = [conn EXCEPT ![t] = NoConn]
      /\ at[t] = "refused" \/ conn[t].state # "open"
      /\ IF hop[t] = "bastion" THEN BastionFails(t) ELSE TargetFails(t)
      /\ setup' = setup /\ mode' = mode /\ rounds' = rounds /\ scripts' = scripts
      /\ hop' = hop /\ client' = client /\ hop1' = hop1 /\ session' = session /\ up' = up
      /\ outage' = outage /\ faults' = faults
  BY DEF ShakeFails
<1>2. /\ Types /\ ThreadInv(t) /\ HostsInv' /\ process' = process /\ known' = known
      /\ at' = [at EXCEPT ![t] = "out"] /\ asked' = [asked EXCEPT ![t] = <<None, None>>]
  BY <1>1, LeaveKeeps DEF IInv, Leave, Goto
<1>3. at'[t] = "out" /\ \A s \in Thread \ {t} : at'[s] = at[s] /\ asked'[s] = asked[s]
  BY <1>2 DEF IInv, HostsInv, HostTypes
<1>4. /\ conn' \in [Thread -> [host : Host \cup {None}, state : {"open", "closed", "silent"}]]
      /\ \A s \in Thread \ {t} : conn'[s] = conn[s]
  BY <1>1, <1>2, Empties DEF Types
<1>5. Background /\ Mine(t) /\ pc[t] \in Dialling
  BY <1>1, <1>2, <1>3, <1>4 DEF Background, Mine, Types, Dialling
<1>6. outage[t] \/ Mistrusted(t)
  <2>1. CASE conn[t].state # "open"
    BY <2>1, <1>1, <1>2 DEF ThreadInv, Handshake
  <2>2. CASE at[t] = "refused"
    <3>1. Policy = "strict" \/ Disputed(asked[t])
      BY <2>2 DEF IInv, HostsInv, Answers
    <3>2. asked[t] = <<PeerName(t), conn[t].host>> /\ hop[t] \in {"target", "bastion"}
      BY <2>2, <1>2 DEF ThreadInv, Handshake, Types
    <3>3. known \in Seq(Address \X Host)
      BY DEF IInv, HostsInv, HostTypes
    <3>4. Disputed(asked[t]) =>
            \E i \in DOMAIN known : known[i][1] = PeerName(t) /\ known[i][2] # conn[t].host
      <4>1. \A i \in DOMAIN known : known[i] = <<known[i][1], known[i][2]>>
        BY <3>3
      <4>. QED
        BY <4>1, <3>2 DEF Disputed
    <3>5. CASE hop[t] = "target"
      BY <3>1, <3>4, <3>5, <1>1, <1>2 DEF ThreadInv, Handshake, PeerName, Mistrusted
    <3>6. CASE hop[t] = "bastion"
      BY <3>1, <3>4, <3>6, <1>1, <1>2 DEF ThreadInv, Handshake, PeerName, Mistrusted
    <3>. QED
      BY <3>2, <3>5, <3>6
  <2>. QED
    BY <2>1, <2>2, <1>1
<1>. QED
  BY <1>1, <1>2, <1>4, <1>5, <1>6, AttemptFails DEF Types

-----------------------------------------------------------------------------
(* The provisioner                                                         *)

\* A dial starts without a client, and with all its attempts.
LEMMA DialEffect ==
  ASSUME IInv, NEW t \in Thread, NEW caller \in {"new", "provision", "reboot"}, Dial(t, caller)
  PROVE  /\ pc' \in [Thread -> Places] /\ mode' \in [Thread -> {"new", "provision", "reboot"}]
         /\ tries' \in [Thread -> [target : Count(Attempts), bastion : Count(Attempts)]]
         /\ client' \in [Thread -> [host : Host \cup {None}, alive : BOOLEAN]]
         /\ outage' \in [Thread -> BOOLEAN]
         /\ \A s \in Thread \ {t} : /\ pc'[s] = pc[s] /\ tries'[s] = tries[s]
                                    /\ client'[s] = client[s] /\ outage'[s] = outage[s]
         /\ pc'[t] = "dial" /\ tries'[t].target >= 1 /\ client'[t].host = None
         /\ ~outage'[t] => \A h \in Path(t) : up[h]
<1>1. Types
  BY DEF IInv
<1>2. /\ pc' = [pc EXCEPT ![t] = "dial"] /\ mode' = [mode EXCEPT ![t] = caller]
      /\ tries' = [tries EXCEPT ![t].target = Attempts]
      /\ client' = [client EXCEPT ![t] = NoClient]
      /\ outage' = [outage EXCEPT ![t] = \E h \in Path(t) : ~up[h]]
  BY DEF Dial, Go
<1>3. /\ tries' \in [Thread -> [target : Count(Attempts), bastion : Count(Attempts)]]
      /\ tries'[t].target >= 1 /\ \A s \in Thread \ {t} : tries'[s] = tries[s]
  <2>. tries \in [Thread -> [target : Count(Attempts), bastion : Count(Attempts)]]
    BY <1>1 DEF Types
  <2>. QED
    BY <1>2, Empties
<1>4. /\ outage' \in [Thread -> BOOLEAN] /\ (~outage'[t] => \A h \in Path(t) : up[h])
      /\ \A s \in Thread \ {t} : outage'[s] = outage[s]
  BY <1>1, <1>2 DEF Types
<1>5. /\ client' \in [Thread -> [host : Host \cup {None}, alive : BOOLEAN]]
      /\ client'[t].host = None /\ \A s \in Thread \ {t} : client'[s] = client[s]
  BY <1>1, <1>2, Empties DEF Types
<1>6. /\ pc' \in [Thread -> Places] /\ mode' \in [Thread -> {"new", "provision", "reboot"}]
      /\ pc'[t] = "dial" /\ \A s \in Thread \ {t} : pc'[s] = pc[s]
  BY <1>1, <1>2 DEF Types, Places
<1>. QED
  BY <1>3, <1>4, <1>5, <1>6

\* Whoever calls it, a dial starts well.
LEMMA DialKeeps ==
  ASSUME IInv, NEW t \in Thread, NEW caller \in {"new", "provision", "reboot"}, Dial(t, caller),
         UNCHANGED hosts, pc[t] # "shake",
         setup' = setup /\ hop' = hop /\ conn' = conn /\ hop1' = hop1 /\ session' = session
           /\ up' = up /\ faults' = faults,
         rounds' \in [Thread -> Count(Rounds)], scripts' \in [Thread -> Count(Scripts)],
         \A s \in Thread \ {t} : rounds'[s] = rounds[s]
  PROVE  IInv'
<1>1. /\ Types /\ ThreadInv(t) /\ HostsInv' /\ process' = process /\ at' = at /\ asked' = asked
      /\ known' = known /\ at[t] = "out" /\ Monotone(t)
  BY NoCallback, OutOfHandshake, Remains DEF IInv
<1>2. Types'
  BY <1>1, DialEffect DEF Types
<1>3. ThreadInv(t)'
  <2>1. Handshake(t)' /\ Reason(t)'
    BY <1>1, DialEffect DEF Handshake, Reason
  <2>2. Dials(t)'
    BY <1>1, DialEffect DEF Dials, Via, Node, Path
  <2>3. Verified(t)'
    BY <1>1, DialEffect DEF ThreadInv, Verified, Monotone
  <2>. QED
    BY <2>1, <2>2, <2>3 DEF ThreadInv
<1>4. \A s \in Thread \ {t} : Same(s)
  BY <1>1, DialEffect DEF Same
<1>. QED
  BY <1>1, <1>2, <1>3, <1>4, SameKeeps DEF IInv

LEMMA NewKeeps ==
  ASSUME IInv, NEW t \in Thread, New(t)
  PROVE  IInv'
<1>1. Dial(t, "new") /\ UNCHANGED hosts /\ pc[t] # "shake"
  BY DEF New
<1>2. /\ setup' = setup /\ hop' = hop /\ conn' = conn /\ hop1' = hop1 /\ session' = session
      /\ up' = up /\ faults' = faults /\ rounds' = rounds /\ scripts' = scripts
  BY DEF New
<1>. QED
  BY <1>1, <1>2, DialKeeps DEF IInv, Types

LEMMA WakeKeeps ==
  ASSUME IInv, NEW t \in Thread, Wake(t)
  PROVE  IInv'
<1>1. Dial(t, "reboot") /\ UNCHANGED hosts /\ pc[t] = "sleep"
  BY DEF Wake
<1>2. /\ setup' = setup /\ hop' = hop /\ conn' = conn /\ hop1' = hop1 /\ session' = session
      /\ up' = up /\ faults' = faults /\ scripts' = scripts
      /\ rounds' = [rounds EXCEPT ![t] = @ - 1]
  BY DEF Wake
<1>3. rounds \in [Thread -> Count(Rounds)] /\ scripts \in [Thread -> Count(Scripts)] /\ rounds[t] >= 1
  BY <1>1 DEF IInv, Types, ThreadInv, Dials
<1>4. rounds' \in [Thread -> Count(Rounds)] /\ \A s \in Thread \ {t} : rounds'[s] = rounds[s]
  BY <1>2, <1>3, BoundAssumption DEF Count
<1>. QED
  BY <1>1, <1>2, <1>3, <1>4, DialKeeps

\* A step of t with the client it has: no dial, no handshake.
LEMMA WithoutDial ==
  ASSUME IInv, NEW t \in Thread, UNCHANGED hosts, pc[t] # "shake",
         setup' = setup /\ hop' = hop /\ conn' = conn /\ hop1' = hop1 /\ session' = session
           /\ up' = up /\ faults' = faults /\ mode' = mode /\ tries' = tries /\ outage' = outage,
         NEW where \in {"ready", "run", "sleep"}, pc' = [pc EXCEPT ![t] = where],
         client' = client \/ client' = [client EXCEPT ![t] = NoClient],
         rounds' \in [Thread -> Count(Rounds)], scripts' \in [Thread -> Count(Scripts)],
         \A s \in Thread \ {t} : rounds'[s] = rounds[s],
         where = "sleep" => rounds'[t] >= 1
  PROVE  IInv'
<1>1. /\ Types /\ ThreadInv(t) /\ HostsInv' /\ process' = process /\ at' = at /\ asked' = asked
      /\ known' = known /\ at[t] = "out" /\ Monotone(t)
  BY NoCallback, OutOfHandshake, Remains DEF IInv
<1>2. pc' \in [Thread -> Places] /\ pc'[t] = where /\ \A s \in Thread \ {t} : pc'[s] = pc[s]
  BY <1>1 DEF Types, Places
<1>3. /\ client' \in [Thread -> [host : Host \cup {None}, alive : BOOLEAN]]
      /\ client'[t] = client[t] \/ client'[t].host = None
      /\ \A s \in Thread \ {t} : client'[s] = client[s]
  BY <1>1, Empties DEF Types
<1>4. Types'
  BY <1>1, <1>2, <1>3 DEF Types
<1>5. ThreadInv(t)'
  <2>1. Handshake(t)' /\ Reason(t)' /\ Dials(t)'
    BY <1>1, <1>2 DEF Handshake, Reason, Dials, Dialling
  <2>2. Verified(t)'
    BY <1>1, <1>3 DEF ThreadInv, Verified, Monotone
  <2>. QED
    BY <2>1, <2>2 DEF ThreadInv
<1>6. \A s \in Thread \ {t} : Same(s)
  BY <1>1, <1>2, <1>3 DEF Same
<1>. QED
  BY <1>1, <1>4, <1>5, <1>6, SameKeeps DEF IInv

LEMMA ProvisionKeeps ==
  ASSUME IInv, NEW t \in Thread, Provision(t)
  PROVE  IInv'
<1>1. /\ pc[t] = "ready" /\ scripts[t] > 0 /\ scripts' = [scripts EXCEPT ![t] = @ - 1]
      /\ UNCHANGED hosts
      /\ setup' = setup /\ hop' = hop /\ conn' = conn /\ hop1' = hop1 /\ session' = session
      /\ up' = up /\ faults' = faults /\ rounds' = rounds
  BY DEF Provision
<1>2. rounds \in [Thread -> Count(Rounds)] /\ scripts' \in [Thread -> Count(Scripts)]
  BY <1>1, BoundAssumption DEF IInv, Types, Count
<1>3. CASE client[t].alive
  <2>1. /\ pc' = [pc EXCEPT ![t] = "run"] /\ mode' = mode /\ tries' = tries /\ client' = client
        /\ outage' = outage
    BY <1>3 DEF Provision, Go
  <2>. QED
    BY <2>1, <1>1, <1>2, WithoutDial
<1>4. CASE ~client[t].alive
  <2>1. Dial(t, "provision")
    BY <1>4 DEF Provision
  <2>. QED
    BY <2>1, <1>1, <1>2, DialKeeps
<1>. QED
  BY <1>3, <1>4

LEMMA ScriptDoneKeeps ==
  ASSUME IInv, NEW t \in Thread, ScriptDone(t)
  PROVE  IInv'
<1>1. /\ pc[t] = "run" /\ client' = [client EXCEPT ![t] = NoClient] /\ UNCHANGED hosts
      /\ setup' = setup /\ mode' = mode /\ tries' = tries /\ scripts' = scripts /\ hop' = hop
      /\ conn' = conn /\ hop1' = hop1 /\ session' = session /\ up' = up /\ outage' = outage
      /\ faults' = faults
  BY DEF ScriptDone
<1>2. rounds \in [Thread -> Count(Rounds)] /\ scripts \in [Thread -> Count(Scripts)]
  BY DEF IInv, Types
<1>3. CASE pc' = [pc EXCEPT ![t] = "ready"] /\ rounds' = rounds
  BY <1>1, <1>2, <1>3, WithoutDial
<1>4. CASE pc' = [pc EXCEPT ![t] = "sleep"] /\ rounds' = [rounds EXCEPT ![t] = Rounds]
  <2>1. /\ rounds' \in [Thread -> Count(Rounds)] /\ rounds'[t] >= 1
        /\ \A s \in Thread \ {t} : rounds'[s] = rounds[s]
    BY <1>2, <1>4, Empties
  <2>. QED
    BY <2>1, <1>1, <1>2, <1>4, WithoutDial
<1>. QED
  BY <1>3, <1>4 DEF ScriptDone, Go

LEMMA SleepAgainKeeps ==
  ASSUME IInv, NEW t \in Thread, SleepAgain(t)
  PROVE  IInv'
<1>1. /\ pc[t] = "failed" /\ rounds[t] > 0 /\ pc' = [pc EXCEPT ![t] = "sleep"] /\ UNCHANGED hosts
      /\ setup' = setup /\ mode' = mode /\ tries' = tries /\ scripts' = scripts /\ hop' = hop
      /\ rounds' = rounds /\ client' = client
      /\ conn' = conn /\ hop1' = hop1 /\ session' = session /\ up' = up /\ outage' = outage
      /\ faults' = faults
  BY DEF SleepAgain, Go
<1>2. /\ rounds \in [Thread -> Count(Rounds)] /\ scripts \in [Thread -> Count(Scripts)]
      /\ rounds[t] >= 1
  BY <1>1, BoundAssumption DEF IInv, Types, Count
<1>. QED
  BY <1>1, <1>2, WithoutDial

\* A provisioner that is closed or killed remembers nothing.
LEMMA ForgetEffect ==
  ASSUME IInv, NEW gone \in SUBSET Thread, Forget(gone)
  PROVE  /\ pc' \in [Thread -> Places] /\ mode' \in [Thread -> {"new", "provision", "reboot"}]
         /\ tries' \in [Thread -> [target : Count(Attempts), bastion : Count(Attempts)]]
         /\ rounds' \in [Thread -> Count(Rounds)] /\ scripts' \in [Thread -> Count(Scripts)]
         /\ hop' \in [Thread -> {"target", "bastion"}] /\ outage' \in [Thread -> BOOLEAN]
         /\ client' \in [Thread -> [host : Host \cup {None}, alive : BOOLEAN]]
         /\ \A t \in gone : pc'[t] = "closed" /\ client'[t].host = None
         /\ \A t \in Thread \ gone : /\ pc'[t] = pc[t] /\ hop'[t] = hop[t] /\ client'[t] = client[t]
                                     /\ rounds'[t] = rounds[t] /\ tries'[t] = tries[t]
                                     /\ outage'[t] = outage[t]
<1>1. Types /\ "closed" \in Places
  BY DEF IInv, Places
<1>2. /\ pc' \in [Thread -> Places] /\ mode' \in [Thread -> {"new", "provision", "reboot"}]
      /\ tries' \in [Thread -> [target : Count(Attempts), bastion : Count(Attempts)]]
      /\ client' \in [Thread -> [host : Host \cup {None}, alive : BOOLEAN]]
  BY <1>1, Empties DEF Types, Forget
<1>3. /\ rounds' \in [Thread -> Count(Rounds)] /\ scripts' \in [Thread -> Count(Scripts)]
      /\ hop' \in [Thread -> {"target", "bastion"}] /\ outage' \in [Thread -> BOOLEAN]
  BY <1>1, Empties DEF Types, Forget
<1>4. \A t \in gone : pc'[t] = "closed" /\ client'[t].host = None
  BY Empties DEF Forget
<1>5. \A t \in Thread \ gone : /\ pc'[t] = pc[t] /\ hop'[t] = hop[t] /\ client'[t] = client[t]
                               /\ rounds'[t] = rounds[t] /\ tries'[t] = tries[t]
                               /\ outage'[t] = outage[t]
  BY DEF Forget
<1>. QED
  BY <1>2, <1>3, <1>4, <1>5

LEMMA CloseKeeps ==
  ASSUME IInv, NEW t \in Thread, Close(t)
  PROVE  IInv'
<1>1. /\ pc[t] # "shake" /\ Forget({t}) /\ UNCHANGED hosts
      /\ setup' = setup /\ conn' = conn /\ up' = up /\ faults' = faults
      /\ \/ hop1' = [hop1 EXCEPT ![t] = "none"] /\ session' = [session EXCEPT ![t] = NoSession]
         \/ hop1' = hop1 /\ session' = session
  BY DEF Close
<1>2. /\ Types /\ ThreadInv(t) /\ HostsInv' /\ process' = process /\ at' = at /\ asked' = asked
      /\ known' = known /\ at[t] = "out" /\ Monotone(t)
  BY <1>1, NoCallback, OutOfHandshake, Remains DEF IInv
<1>3. /\ hop1' \in [Thread -> {"none", "alive", "dead"}]
      /\ session' \in [Thread -> [state : {"none", "starting", "listening"}, port : Port \cup {None}]]
      /\ hop1'[t] = hop1[t] \/ hop1'[t] = "none"
      /\ \A s \in Thread \ {t} : hop1'[s] = hop1[s] /\ session'[s] = session[s]
  <2>. /\ session \in [Thread -> [state : {"none", "starting", "listening"}, port : Port \cup {None}]]
       /\ hop1 \in [Thread -> {"none", "alive", "dead"}]
    BY <1>2 DEF Types
  <2>. QED
    BY <1>1, Empties
<1>4. Types'
  BY <1>1, <1>2, <1>3, ForgetEffect DEF Types
<1>5. ThreadInv(t)'
  <2>1. pc'[t] = "closed" /\ client'[t].host = None
    BY <1>1, ForgetEffect
  <2>2. Handshake(t)' /\ Reason(t)' /\ Dials(t)'
    BY <2>1, <1>2 DEF Handshake, Reason, Dials, Dialling
  <2>3. Verified(t)'
    BY <2>1, <1>2, <1>3 DEF ThreadInv, Verified, Monotone
  <2>. QED
    BY <2>2, <2>3 DEF ThreadInv
<1>6. \A s \in Thread \ {t} : Same(s)
  BY <1>1, <1>2, <1>3, ForgetEffect DEF Same
<1>. QED
  BY <1>1, <1>2, <1>4, <1>5, <1>6, SameKeeps DEF IInv

-----------------------------------------------------------------------------
(* The network                                                             *)

\* A fault is counted.
LEMMA FaultEffect ==
  ASSUME IInv, Fault
  PROVE  faults' \in Count(Faults)
BY BoundAssumption DEF IInv, Types, Fault, Count

\* Clients of a lost bastion die; nobody gets or loses one.
LEMMA LoseHop1Effect ==
  ASSUME Types, NEW lost, LoseHop1(lost)
  PROVE  /\ hop1' \in [Thread -> {"none", "alive", "dead"}]
         /\ \A t \in Thread : /\ hop1'[t] = "none" <=> hop1[t] = "none"
                              /\ hop1[t] = "dead" => hop1'[t] = "dead"
BY DEF Types, LoseHop1

\* A host goes down, or a connection is lost: threads that it concerns know of
\* the outage, and no client comes into being.
LEMMA LossKeeps ==
  ASSUME IInv, UNCHANGED hosts, Types',
         setup' = setup /\ pc' = pc /\ tries' = tries /\ rounds' = rounds /\ hop' = hop,
         NEW t \in Thread,
         client'[t].host = client[t].host, conn'[t].host = conn[t].host,
         hop1'[t] = "none" <=> hop1[t] = "none", hop1[t] = "dead" => hop1'[t] = "dead",
         outage[t] => outage'[t],
         ~outage'[t] => /\ \A h \in Path(t) : up'[h] = up[h]
                        /\ session'[t] = session[t]
                        /\ pc[t] = "shake" => conn'[t].state = conn[t].state
  PROVE  ThreadInv(t)'
<1>1. /\ Types /\ ThreadInv(t) /\ at' = at /\ asked' = asked /\ known' = known /\ Monotone(t)
  BY NoCallback, Remains DEF IInv
<1>2. Via(t)' = Via(t) /\ Node(t)' = Node(t) /\ Path(t)' = Path(t) /\ PeerName(t)' = PeerName(t)
  BY DEF Via, Node, Path, PeerName
<1>3. Handshake(t)'
  BY <1>1, <1>2 DEF ThreadInv, Handshake
<1>4. Dials(t)'
  BY <1>1, <1>2 DEF ThreadInv, Dials
<1>5. Verified(t)' /\ Reason(t)'
  BY <1>1 DEF ThreadInv, Verified, Reason, Monotone
<1>. QED
  BY <1>3, <1>4, <1>5 DEF ThreadInv

LEMMA HostDownKeeps ==
  ASSUME IInv, NEW h \in Host, HostDown(h)
  PROVE  IInv'
<1>. DEFINE cut == {t \in Thread : client[t].host = h \/ Through(t, h)}
<1>1. /\ UNCHANGED hosts /\ Fault /\ up' = [up EXCEPT ![h] = FALSE]
      /\ client' = [t \in Thread |-> IF t \in cut THEN [client[t] EXCEPT !.alive = FALSE] ELSE client[t]]
      /\ LoseHop1({t \in Thread : Through(t, h)})
      /\ session' = [t \in Thread |->
                       IF Node(t) = h /\ session[t].state = "listening" THEN NoSession ELSE session[t]]
      /\ outage' = [t \in Thread |-> outage[t] \/ h \in Path(t)]
      /\ setup' = setup /\ pc' = pc /\ mode' = mode /\ tries' = tries /\ rounds' = rounds
      /\ scripts' = scripts /\ hop' = hop
  BY DEF HostDown
<1>2. PICK how \in {"closed", "silent"} :
        conn' = [t \in Thread |->
                   IF conn[t].host = h THEN [conn[t] EXCEPT !.state = how]
                   ELSE IF Through(t, h) THEN [conn[t] EXCEPT !.state = "closed"]
                   ELSE conn[t]]
  BY DEF HostDown
<1>3. Types /\ HostsInv' /\ process' = process
  BY <1>1, NoCallback DEF IInv
<1>4. /\ client' \in [Thread -> [host : Host \cup {None}, alive : BOOLEAN]]
      /\ \A t \in Thread : client'[t].host = client[t].host
  <2>1. client \in [Thread -> [host : Host \cup {None}, alive : BOOLEAN]]
    BY <1>3 DEF Types
  <2>2. \A t \in Thread : /\ [client[t] EXCEPT !.alive = FALSE] \in [host : Host \cup {None}, alive : BOOLEAN]
                          /\ [client[t] EXCEPT !.alive = FALSE].host = client[t].host
    BY <2>1
  <2>3. \A t \in Thread : client'[t] \in {client[t], [client[t] EXCEPT !.alive = FALSE]}
    BY <1>1
  <2>4. client' = [t \in Thread |-> client'[t]]
    BY <1>1
  <2>. QED
    BY <2>1, <2>2, <2>3, <2>4
<1>5. /\ conn' \in [Thread -> [host : Host \cup {None}, state : {"open", "closed", "silent"}]]
      /\ \A t \in Thread :
           /\ conn'[t].host = conn[t].host
           /\ conn[t].host # h /\ ~Through(t, h) => conn'[t] = conn[t]
  BY <1>2, <1>3 DEF Types
<1>6. /\ session' \in [Thread -> [state : {"none", "starting", "listening"}, port : Port \cup {None}]]
      /\ \A t \in Thread : Node(t) # h => session'[t] = session[t]
  BY <1>1, <1>3, Empties DEF Types
<1>7. /\ outage' \in [Thread -> BOOLEAN] /\ up' \in [Host -> BOOLEAN]
      /\ \A t \in Thread : outage'[t] = (outage[t] \/ h \in Path(t))
      /\ \A g \in Host : g # h => up'[g] = up[g]
  <2>. outage \in [Thread -> BOOLEAN] /\ up \in [Host -> BOOLEAN]
    BY <1>3 DEF Types
  <2>1. /\ outage' \in [Thread -> BOOLEAN]
        /\ \A t \in Thread : outage'[t] = (outage[t] \/ h \in Path(t))
    BY <1>1
  <2>2. up' \in [Host -> BOOLEAN] /\ \A g \in Host : g # h => up'[g] = up[g]
    BY <1>1
  <2>. QED
    BY <2>1, <2>2
<1>8. Types'
  BY <1>1, <1>3, <1>4, <1>5, <1>6, <1>7, FaultEffect, LoseHop1Effect DEF Types
<1>9. ASSUME NEW t \in Thread
      PROVE  ThreadInv(t)'
  <2>1. ~outage'[t] => Node(t) # h /\ ~Through(t, h) /\ h \notin Path(t)
    BY <1>3, <1>7, SetupFields DEF Through
  <2>2. ~outage'[t] => \A g \in Path(t) : up'[g] = up[g]
    BY <2>1, <1>3, <1>7, SetupFields
  <2>3. ~outage'[t] /\ pc[t] = "shake" => conn'[t].state = conn[t].state
    <3>. SUFFICES ASSUME ~outage'[t], pc[t] = "shake" PROVE conn'[t] = conn[t]
      OBVIOUS
    <3>1. conn[t].host = Node(t) \/ (conn[t].host = Bastion /\ Via(t) = "bastion")
      BY <1>3, <1>7 DEF IInv, ThreadInv, Handshake, Types
    <3>2. conn[t].host \in Path(t)
      BY <3>1, <1>3, SetupFields
    <3>. QED
      BY <3>2, <2>1, <1>5
  <2>4. /\ hop1'[t] = "none" <=> hop1[t] = "none"
        /\ hop1[t] = "dead" => hop1'[t] = "dead"
    BY <1>1, <1>3, LoseHop1Effect
  <2>. QED
    BY <2>1, <2>2, <2>3, <2>4, <1>1, <1>4, <1>5, <1>6, <1>7, <1>8, LossKeeps
<1>. QED
  BY <1>3, <1>8, <1>9 DEF IInv

LEMMA HostUpKeeps ==
  ASSUME IInv, NEW h \in Host, HostUp(h)
  PROVE  IInv'
<1>1. /\ UNCHANGED hosts /\ up' = [up EXCEPT ![h] = TRUE]
      /\ setup' = setup /\ pc' = pc /\ mode' = mode /\ tries' = tries /\ rounds' = rounds
      /\ scripts' = scripts /\ hop' = hop /\ conn' = conn /\ client' = client /\ hop1' = hop1
      /\ session' = session /\ outage' = outage /\ faults' = faults
  BY DEF HostUp
<1>2. /\ Types /\ HostsInv' /\ process' = process /\ at' = at /\ asked' = asked
      /\ known' = known
  BY <1>1, NoCallback DEF IInv
<1>3. up' \in [Host -> BOOLEAN] /\ \A g \in Host : up[g] => up'[g]
  BY <1>1, <1>2 DEF Types
<1>4. Types'
  BY <1>1, <1>2, <1>3 DEF Types
<1>5. ASSUME NEW t \in Thread
      PROVE  ThreadInv(t)'
  <2>1. ThreadInv(t) /\ Monotone(t) /\ Path(t) \subseteq Host
    BY <1>1, <1>2, Remains, SetupFields DEF IInv
  <2>2. Handshake(t)'
    BY <2>1, <1>1, <1>2 DEF ThreadInv, Handshake, PeerName, Via, Node
  <2>3. Dials(t)'
    <3>1. Via(t)' = Via(t) /\ Path(t)' = Path(t)
      BY <1>1 DEF Via, Node, Path
    <3>. QED
      BY <3>1, <2>1, <1>1, <1>3 DEF ThreadInv, Dials
  <2>4. Verified(t)' /\ Reason(t)'
    BY <2>1, <1>1 DEF ThreadInv, Verified, Reason, Monotone
  <2>. QED
    BY <2>2, <2>3, <2>4 DEF ThreadInv
<1>. QED
  BY <1>2, <1>4, <1>5 DEF IInv

LEMMA DropKeeps ==
  ASSUME IInv, NEW t \in Thread, Drop(t)
  PROVE  IInv'
<1>1. /\ UNCHANGED hosts /\ Fault /\ client' = [client EXCEPT ![t].alive = FALSE]
      /\ conn' = [conn EXCEPT ![t].state = "closed"] /\ outage' = [outage EXCEPT ![t] = TRUE]
      /\ setup' = setup /\ pc' = pc /\ mode' = mode /\ tries' = tries /\ rounds' = rounds
      /\ scripts' = scripts /\ hop' = hop /\ session' = session /\ up' = up
      /\ hop1' = hop1 \/ LoseHop1({t})
  BY DEF Drop
<1>2. Types /\ HostsInv' /\ process' = process
  BY <1>1, NoCallback DEF IInv
<1>3. /\ hop1' \in [Thread -> {"none", "alive", "dead"}]
      /\ \A s \in Thread : /\ hop1'[s] = "none" <=> hop1[s] = "none"
                           /\ hop1[s] = "dead" => hop1'[s] = "dead"
  BY <1>1, <1>2, LoseHop1Effect DEF Types
<1>4. /\ client' \in [Thread -> [host : Host \cup {None}, alive : BOOLEAN]]
      /\ \A s \in Thread : client'[s].host = client[s].host
  <2>. client \in [Thread -> [host : Host \cup {None}, alive : BOOLEAN]]
    BY <1>2 DEF Types
  <2>. QED
    BY <1>1
<1>5. /\ conn' \in [Thread -> [host : Host \cup {None}, state : {"open", "closed", "silent"}]]
      /\ \A s \in Thread : conn'[s].host = conn[s].host /\ (s # t => conn'[s] = conn[s])
  <2>. conn \in [Thread -> [host : Host \cup {None}, state : {"open", "closed", "silent"}]]
    BY <1>2 DEF Types
  <2>. QED
    BY <1>1
<1>6. /\ outage' \in [Thread -> BOOLEAN] /\ outage'[t]
      /\ \A s \in Thread : outage[s] => outage'[s]
  BY <1>1, <1>2 DEF Types
<1>7. Types'
  BY <1>1, <1>2, <1>3, <1>4, <1>5, <1>6, FaultEffect DEF Types
<1>8. ASSUME NEW s \in Thread
      PROVE  ThreadInv(s)'
  <2>1. ~outage'[s] => s # t
    BY <1>6
  <2>. QED
    BY <2>1, <1>1, <1>3, <1>4, <1>5, <1>6, <1>7, LossKeeps
<1>. QED
  BY <1>2, <1>7, <1>8 DEF IInv

LEMMA KillKeeps ==
  ASSUME IInv, NEW p \in Process, Kill(p)
  PROVE  IInv'
<1>. DEFINE gone == {t \in Thread : process[t] = p}
<1>1. /\ Fault /\ HostsKill(p) /\ Forget(gone)
      /\ conn' = [t \in Thread |-> IF t \in gone THEN NoConn ELSE conn[t]]
      /\ hop1' = [t \in Thread |-> IF t \in gone THEN "none" ELSE hop1[t]]
      /\ setup' = setup /\ session' = session /\ up' = up
  BY DEF Kill
<1>2. /\ Types /\ HostsInv' /\ process' = process /\ known' = known
      /\ \A t \in gone : at'[t] = "out"
      /\ \A t \in Thread \ gone : at'[t] = at[t] /\ asked'[t] = asked[t]
  BY <1>1, HostsKillKeeps DEF IInv, HostsKill
<1>3. /\ conn' \in [Thread -> [host : Host \cup {None}, state : {"open", "closed", "silent"}]]
      /\ hop1' \in [Thread -> {"none", "alive", "dead"}]
      /\ \A t \in gone : hop1'[t] = "none"
      /\ \A t \in Thread \ gone : conn'[t] = conn[t] /\ hop1'[t] = hop1[t]
  BY <1>1, <1>2, Empties DEF Types
<1>4. Types'
  BY <1>1, <1>2, <1>3, FaultEffect, ForgetEffect DEF Types
<1>5. ASSUME NEW t \in gone
      PROVE  ThreadInv(t)'
  <2>1. pc'[t] = "closed" /\ client'[t].host = None
    BY <1>1, ForgetEffect
  <2>. QED
    BY <2>1, <1>2, <1>3 DEF ThreadInv, Handshake, Dials, Verified, Reason, Dialling
<1>6. \A t \in Thread \ gone : Same(t)
  BY <1>1, <1>2, <1>3, ForgetEffect DEF Same
<1>. QED
  BY <1>1, <1>2, <1>4, <1>5, <1>6, SameKeeps DEF IInv

-----------------------------------------------------------------------------
(* Theorems                                                                *)

\* Nobody has connected.
LEMMA IInvInit == Init => IInv
<1>. SUFFICES ASSUME Init PROVE IInv
  OBVIOUS
<1>1. process \in [Thread -> Process] /\ << >> \in Seq(Address \X Host)
  BY ThreadAssumption DEF Init, HostsInit
<1>2. HostTypes
  BY <1>1 DEF Init, HostsInit, HostTypes, Where
<1>3. Locks /\ Answers /\ OneKeyPerAddress
  BY DEF Init, HostsInit, Locks, Answers, OneKeyPerAddress
<1>4. Types
  BY Empties DEF Init, HostsInit, Types, Places
<1>5. \A t \in Thread : ThreadInv(t)
  BY Empties DEF Init, HostsInit, ThreadInv, Handshake, Dials, Verified, Reason, Dialling
<1>. QED
  BY <1>2, <1>3, <1>4, <1>5 DEF IInv, HostsInv

\* Every step of the specification preserves the invariant.
LEMMA IInvStep == IInv /\ [Next]_vars => IInv'
<1>. SUFFICES ASSUME IInv, [Next]_vars PROVE IInv'
  OBVIOUS
<1>1. ASSUME NEW t \in Thread, Provisioner(t)
      PROVE  IInv'
  BY <1>1, NewKeeps, ProvisionKeeps, ScriptDoneKeeps, WakeKeeps, SleepAgainKeeps, CloseKeeps,
     DialDirectKeeps, DialBastionKeeps, DialHop1Keeps, DialHop2Keeps, StartSessionKeeps,
     SessionListensKeeps, DialTunnelKeeps, TunnelFailsKeeps, CheckHostKeyKeeps,
     HostKeyStepKeeps, ConnectedKeeps, ShakeFailsKeeps
     DEF Provisioner
<1>2. ASSUME Network
      PROVE  IInv'
  BY <1>2, HostDownKeeps, HostUpKeeps, DropKeeps, KillKeeps DEF Network
<1>3. CASE UNCHANGED vars
  <2>1. UNCHANGED hosts /\ UNCHANGED lines
    BY <1>3 DEF vars
  <2>2. /\ HostsInv' /\ process' = process /\ at' = at /\ asked' = asked /\ known' = known
    BY <2>1, NoCallback
  <2>3. Types' /\ \A t \in Thread : Same(t)
    BY <2>1, <2>2 DEF IInv, Types, Same, lines
  <2>. QED
    BY <2>1, <2>2, <2>3, SameKeeps DEF IInv, lines
<1>. QED
  BY <1>1, <1>2, <1>3 DEF Next

\* The invariant holds in every reachable state.
THEOREM Inductive == Spec => []IInv
<1>. QED
  BY IInvInit, IInvStep, PTL DEF Spec

\* The variables keep their types: attempts and rounds stay within their
\* bounds, and a callback runs within a handshake only.
THEOREM TypeCorrect == Spec => []TypeOK
<1>1. IInv => TypeOK
  <2>. SUFFICES ASSUME IInv PROVE TypeOK
    OBVIOUS
  <2>1. Types /\ HostTypes /\ \A t \in Thread : at[t] # "out" => pc[t] = "shake"
    BY DEF IInv, HostsInv, ThreadInv, Handshake
  <2>. QED
    BY <2>1 DEF Types, HostTypes, TypeOK, Places, Where
<1>. QED
  BY <1>1, Inductive, PTL

\* No address gets a second key, however many processes record hosts in the
\* file at the same time, and wherever they are killed.
THEOREM OneKey == Spec => []OneKeyPerAddress
<1>1. IInv => OneKeyPerAddress
  BY DEF IInv, HostsInv
<1>. QED
  BY <1>1, Inductive, PTL

\* Whoever a client talks to has presented the recorded key.
THEOREM Verification == Spec => []ClientsAreVerified
<1>1. IInv => ClientsAreVerified
  BY DEF IInv, ThreadInv, Verified, ClientsAreVerified
<1>. QED
  BY <1>1, Inductive, PTL

\* A dial that has failed met an outage, a disputed key or a dead bastion client.
THEOREM ReasonForFailure == Spec => []GivesUpWithReason
<1>1. IInv => GivesUpWithReason
  BY DEF IInv, ThreadInv, Reason, GivesUpWithReason
<1>. QED
  BY <1>1, Inductive, PTL

=============================================================================
