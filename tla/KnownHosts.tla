----------------------------- MODULE KnownHosts -----------------------------
(***************************************************************************)
(* pkg/sshutil/tofu.go: the host key callback.  The goroutines of several  *)
(* holodeck processes verify host keys against one file, and record the    *)
(* keys of hosts they do not know.  Within a process they take a mutex,    *)
(* between processes a lock on the file, which the system frees when a     *)
(* process is killed.  A host's key is the host itself.                    *)
(***************************************************************************)
EXTENDS Naturals, Sequences

CONSTANTS
  Thread,     \* goroutines that connect
  Process,
  Placements, \* of the threads in the processes
  Host,
  Address,    \* the names that keys are recorded under
  Policy      \* of the known hosts: "accept-new", "strict", "off"

ASSUME ThreadAssumption == Placements \subseteq [Thread -> Process]
ASSUME PolicyAssumption == Policy \in {"accept-new", "strict", "off"}

None == "none"
ASSUME NoneAssumption == None \notin Thread \cup Host \cup Address

VARIABLES
  process, \* thread -> its process; one of Placements
  known,   \* the lines of the file: <<address, key>>
  mutex,   \* process -> the thread that holds tofuMu
  flock,   \* the thread that has the file locked
  at,      \* thread -> where its callback is
  asked,   \* thread -> the address and the key it is asked about
  loaded   \* thread -> the lines it has read

hosts == <<process, known, mutex, flock, at, asked, loaded>>

HostsInit ==
  /\ process \in Placements /\ known = << >> /\ flock = None
  /\ mutex = [p \in Process |-> None]
  /\ at = [t \in Thread |-> "out"]
  /\ asked = [t \in Thread |-> <<None, None>>]
  /\ loaded = [t \in Thread |-> << >>]

Goto(t, where) == at' = [at EXCEPT ![t] = where]

\* The handshake asks whether key may be the key of address.
Ask(t, address, key) ==
  /\ Goto(t, IF Policy = "off" THEN "accepted" ELSE "mutex")
  /\ asked' = [asked EXCEPT ![t] = <<address, key>>]
  /\ UNCHANGED <<process, known, mutex, flock, loaded>>

LockMutex(t) ==
  /\ at[t] = "mutex" /\ mutex[process[t]] = None
  /\ mutex' = [mutex EXCEPT ![process[t]] = t]
  /\ Goto(t, "lock") /\ UNCHANGED <<process, known, flock, asked, loaded>>

\* Mutant: no lock between the processes.
LockFileAlways(t) ==
  /\ at[t] = "lock" /\ flock' = t
  /\ Goto(t, "load") /\ UNCHANGED <<process, known, mutex, asked, loaded>>

LockFile(t) ==
  /\ at[t] = "lock" /\ flock = None /\ flock' = t
  /\ Goto(t, "load") /\ UNCHANGED <<process, known, mutex, asked, loaded>>

Load(t) ==
  /\ at[t] = "load" /\ loaded' = [loaded EXCEPT ![t] = known]
  /\ Goto(t, "verify") /\ UNCHANGED <<process, known, mutex, flock, asked>>

Lines(t) == {i \in DOMAIN loaded[t] : loaded[t][i][1] = asked[t][1]}
Matches(t) == \E i \in Lines(t) : loaded[t][i] = asked[t]

\* Mutant: a host that has a key recorded may present another.
VerifyAnyKey(t) ==
  /\ at[t] = "verify"
  /\ Goto(t, IF Lines(t) # {} THEN "leave" ELSE IF Policy = "strict" THEN "refuse" ELSE "record")
  /\ UNCHANGED <<process, known, mutex, flock, asked, loaded>>

\* Mutant: no host is known before it has been recorded.
VerifyStrictly(t) ==
  /\ at[t] = "verify" /\ Goto(t, IF Matches(t) THEN "leave" ELSE "refuse")
  /\ UNCHANGED <<process, known, mutex, flock, asked, loaded>>

\* A recorded key must match; a host without one is recorded, or refused.
Verify(t) ==
  /\ at[t] = "verify"
  /\ Goto(t, IF Matches(t) THEN "leave"
             ELSE IF Lines(t) # {} \/ Policy = "strict" THEN "refuse"
             ELSE "record")
  /\ UNCHANGED <<process, known, mutex, flock, asked, loaded>>

Record(t) ==
  /\ at[t] = "record" /\ known' = Append(known, asked[t])
  /\ Goto(t, "leave") /\ UNCHANGED <<process, mutex, flock, asked, loaded>>

\* Mutant: only a key that is accepted gives the locks back.
UnlockAccepted(t) ==
  /\ at[t] \in {"leave", "refuse"} /\ UNCHANGED <<process, known, asked>>
  /\ Goto(t, IF at[t] = "leave" THEN "accepted" ELSE "refused")
  /\ loaded' = [loaded EXCEPT ![t] = << >>]
  /\ IF at[t] = "leave" THEN flock' = None /\ mutex' = [mutex EXCEPT ![process[t]] = None]
     ELSE UNCHANGED <<flock, mutex>>

\* The deferred calls give both locks back on every path.
Unlock(t) ==
  /\ at[t] \in {"leave", "refuse"} /\ UNCHANGED <<process, known, asked>>
  /\ Goto(t, IF at[t] = "leave" THEN "accepted" ELSE "refused")
  /\ loaded' = [loaded EXCEPT ![t] = << >>]
  /\ flock' = None /\ mutex' = [mutex EXCEPT ![process[t]] = None]

Callback(t) ==
  LockMutex(t) \/ LockFile(t) \/ Load(t) \/ Verify(t) \/ Record(t) \/ Unlock(t)

\* The handshake goes on with the answer.
Leave(t) ==
  /\ Goto(t, "out") /\ asked' = [asked EXCEPT ![t] = <<None, None>>]
  /\ UNCHANGED <<process, known, mutex, flock, loaded>>

\* The threads of a process end with it, and its lock of the file.
HostsKill(p) ==
  LET gone == {t \in Thread : process[t] = p} IN
  /\ mutex' = [mutex EXCEPT ![p] = None]
  /\ flock' = IF flock \in gone THEN None ELSE flock
  /\ at' = [t \in Thread |-> IF t \in gone THEN "out" ELSE at[t]]
  /\ asked' = [t \in Thread |-> IF t \in gone THEN <<None, None>> ELSE asked[t]]
  /\ loaded' = [t \in Thread |-> IF t \in gone THEN << >> ELSE loaded[t]]
  /\ UNCHANGED <<process, known>>

-----------------------------------------------------------------------------

\* An address never gets two keys, whichever processes meet it first at the
\* same time: reading, verifying and appending are one step for the others.
OneKeyPerAddress ==
  \A i, j \in DOMAIN known : known[i][1] = known[j][1] => i = j

=============================================================================
