----------------------------- MODULE Connection -----------------------------
(***************************************************************************)
(* The SSH connection of a provisioner: pkg/sshutil/dialer.go, bastion.go, *)
(* transport.go, and of pkg/provisioner New, ensureClient, provision,      *)
(* resetConnection, waitForNodeReboot and Close, and SSMTransport.  Every  *)
(* thread has one provisioner, and connects to its node directly, through  *)
(* a bastion, or through a port that an aws process forwards.  Hosts go    *)
(* down and come back, connections drop, processes are killed.             *)
(***************************************************************************)
EXTENDS KnownHosts

CONSTANTS
  Bastion,   \* the host that all bastion transports share
  Setups,    \* thread -> how it connects, to which node, under which address
  Port,      \* the local ports that forwarding may use
  Attempts,  \* of a dial; 20 by default
  Rounds,    \* of the wait for a reboot; 10
  Scripts,   \* that a provisioner runs
  Faults     \* bound of what goes wrong

ASSUME BastionAssumption == Bastion \in Host \cap Address
ASSUME BoundAssumption ==
  Attempts \in Nat \ {0} /\ Rounds \in Nat \ {0} /\ Scripts \in Nat /\ Faults \in Nat
ASSUME SetupAssumption ==
  Setups \subseteq
    [Thread -> [via : {"direct", "bastion", "ssm"}, node : Host, address : Address]]

VARIABLES
  setup,    \* one of Setups
  pc,       \* where the provisioner is
  mode,     \* who called ensureClient: "new", "provision", "reboot"
  tries,    \* attempts that are left for the target and for the bastion
  rounds,   \* rounds that are left of the wait for a reboot
  scripts,  \* scripts that are left to run
  hop,      \* what the handshake is with: "target" or "bastion"
  conn,     \* the connection the handshake uses: its host and state
  client,   \* the SSH client: its host and whether it lives
  hop1,     \* the client of the bastion transport: "none", "alive", "dead"
  session,  \* of the aws process: "none", "starting", "listening", and its port
  up,       \* which hosts are up
  outage,   \* something on the way was down, lost, slow or not its own in the dial
  faults

lines == <<setup, pc, mode, tries, rounds, scripts, hop, conn, client, hop1, session, up, outage, faults>>
vars  == <<hosts, lines>>

NoConn    == [host |-> None, state |-> "closed"]
NoClient  == [host |-> None, alive |-> FALSE]
NoTries   == [target |-> 0, bastion |-> 0]
NoSession == [state |-> "none", port |-> None]

Via(t)  == setup[t].via
Node(t) == setup[t].node
Path(t) == IF Via(t) = "bastion" THEN {Bastion, Node(t)} ELSE {Node(t)}

\* The name that the key of the other side is looked up under.
PeerName(t) == IF hop[t] = "bastion" THEN Bastion ELSE setup[t].address

Init ==
  /\ HostsInit /\ setup \in Setups
  /\ pc = [t \in Thread |-> "new"] /\ mode = [t \in Thread |-> "new"]
  /\ tries = [t \in Thread |-> NoTries]
  /\ rounds = [t \in Thread |-> 0] /\ scripts = [t \in Thread |-> Scripts]
  /\ hop = [t \in Thread |-> "target"]
  /\ conn = [t \in Thread |-> NoConn] /\ client = [t \in Thread |-> NoClient]
  /\ hop1 = [t \in Thread |-> "none"] /\ session = [t \in Thread |-> NoSession]
  /\ up = [h \in Host |-> TRUE] /\ outage = [t \in Thread |-> FALSE] /\ faults = 0

Go(t, where) == pc' = [pc EXCEPT ![t] = where]

-----------------------------------------------------------------------------
(* Dial                                                                    *)

\* The dialer starts over with all its attempts.
Dial(t, caller) ==
  /\ Go(t, "dial") /\ mode' = [mode EXCEPT ![t] = caller]
  /\ tries' = [tries EXCEPT ![t].target = Attempts]
  /\ client' = [client EXCEPT ![t] = NoClient]
  /\ outage' = [outage EXCEPT ![t] = \E h \in Path(t) : ~up[h]]

\* Mutant: the attempts are counted one too far.
TargetFailsOnce(t) ==
  /\ tries' = [tries EXCEPT ![t].target = @ - 1]
  /\ Go(t, IF tries[t].target >= 0 THEN "dial" ELSE "failed")

\* An attempt of the dial failed: wait and try again, or give up.
TargetFails(t) ==
  /\ tries' = [tries EXCEPT ![t].target = @ - 1]
  /\ Go(t, IF tries[t].target > 1 THEN "dial" ELSE "failed")

BastionFails(t) ==
  IF tries[t].bastion > 1
  THEN tries' = [tries EXCEPT ![t].bastion = @ - 1] /\ Go(t, "hop1")
  ELSE TargetFails(t)

\* A connection is there: the handshake begins.
Shake(t, host, with) ==
  /\ Go(t, "shake") /\ hop' = [hop EXCEPT ![t] = with]
  /\ conn' = [conn EXCEPT ![t] = [host |-> host, state |-> "open"]]
  /\ UNCHANGED tries

DialDirect(t) ==
  /\ pc[t] = "dial" /\ Via(t) = "direct"
  /\ IF up[Node(t)] THEN Shake(t, Node(t), "target")
     ELSE TargetFails(t) /\ UNCHANGED <<hop, conn>>
  /\ UNCHANGED <<hosts, setup, mode, rounds, scripts, client, hop1, session, up, outage, faults>>

\* The client of the bastion is made once, by a dialer of its own.
DialBastion(t) ==
  /\ pc[t] = "dial" /\ Via(t) = "bastion"
  /\ IF hop1[t] = "none"
     THEN Go(t, "hop1") /\ tries' = [tries EXCEPT ![t].bastion = Attempts]
     ELSE Go(t, "hop2") /\ UNCHANGED tries
  /\ UNCHANGED <<hosts, setup, mode, rounds, scripts, hop, conn, client, hop1, session, up, outage, faults>>

DialHop1(t) ==
  /\ pc[t] = "hop1"
  /\ IF up[Bastion] THEN Shake(t, Bastion, "bastion")
     ELSE BastionFails(t) /\ UNCHANGED <<hop, conn>>
  /\ UNCHANGED <<hosts, setup, mode, rounds, scripts, client, hop1, session, up, outage, faults>>

\* A client of the bastion that is dead is kept, and fails every attempt.
DialHop2(t) ==
  /\ pc[t] = "hop2"
  /\ IF hop1[t] = "alive" /\ up[Node(t)] THEN Shake(t, Node(t), "target")
     ELSE TargetFails(t) /\ UNCHANGED <<hop, conn>>
  /\ UNCHANGED <<hosts, setup, mode, rounds, scripts, client, hop1, session, up, outage, faults>>

Listener(p) == {t \in Thread : session[t] = [state |-> "listening", port |-> p]}

\* An older aws process is killed; a port that nobody listens on is chosen, and
\* given back for the new process to listen on.
StartSession(t) ==
  /\ pc[t] = "dial" /\ Via(t) = "ssm" /\ Go(t, "tunnel")
  /\ \E p \in Port :
       /\ Listener(p) \subseteq {t}
       /\ session' = [session EXCEPT ![t] = [state |-> "starting", port |-> p]]
  /\ UNCHANGED <<hosts, setup, mode, tries, rounds, scripts, hop, conn, client, hop1, up, outage, faults>>

SessionListens(t) ==
  /\ session[t].state = "starting" /\ up[Node(t)] /\ Listener(session[t].port) = {}
  /\ session' = [session EXCEPT ![t].state = "listening"]
  /\ UNCHANGED <<hosts, setup, pc, mode, tries, rounds, scripts, hop, conn, client, hop1, up, outage, faults>>

\* Whoever listens on the port, the connection ends at the node it forwards to.
DialTunnel(t) ==
  /\ pc[t] = "tunnel"
  /\ \E s \in Listener(session[t].port) :
       Shake(t, Node(s), "target") /\ outage' = [outage EXCEPT ![t] = @ \/ s # t]
  /\ UNCHANGED <<hosts, setup, mode, rounds, scripts, client, hop1, session, up, faults>>

\* Five attempts met nobody: the node is down, or was, or the process is slow.
TunnelFails(t) ==
  /\ pc[t] = "tunnel" /\ Listener(session[t].port) = {} /\ TargetFails(t)
  /\ session' = [session EXCEPT ![t] = NoSession]
  /\ IF up[Node(t)] /\ session[t].state = "starting"
     THEN faults < Faults /\ faults' = faults + 1 /\ outage' = [outage EXCEPT ![t] = TRUE]
     ELSE UNCHANGED <<faults, outage>>
  /\ UNCHANGED <<hosts, setup, mode, rounds, scripts, hop, conn, client, hop1, up>>

-----------------------------------------------------------------------------
(* The handshake                                                           *)

CheckHostKey(t) ==
  /\ pc[t] = "shake" /\ at[t] = "out" /\ conn[t].state = "open"
  /\ Ask(t, PeerName(t), conn[t].host)
  /\ UNCHANGED lines

HostKeyStep(t) == Callback(t) /\ UNCHANGED lines

\* The other side is authenticated: a client is made, and the dial is over.
Connected(t) ==
  /\ pc[t] = "shake" /\ at[t] = "accepted" /\ conn[t].state = "open" /\ Leave(t)
  /\ conn' = [conn EXCEPT ![t] = NoConn]
  /\ IF hop[t] = "bastion"
     THEN /\ hop1' = [hop1 EXCEPT ![t] = "alive"] /\ Go(t, "hop2") /\ UNCHANGED client
          /\ tries' = [tries EXCEPT ![t].bastion = 0]
     ELSE /\ client' = [client EXCEPT ![t] = [host |-> conn[t].host, alive |-> TRUE]]
          /\ Go(t, IF mode[t] = "provision" THEN "run" ELSE "ready") /\ UNCHANGED hop1
          /\ tries' = [tries EXCEPT ![t] = NoTries]
  /\ UNCHANGED <<setup, mode, rounds, scripts, hop, session, up, outage, faults>>

\* The deadline of the handshake.  A connection through the bastion has none:
\* it ignores SetDeadline.
Deadline(t) == Via(t) # "bastion" \/ hop[t] = "bastion"

\* Mutant: only a connection that was closed ends the handshake.
ShakeFailsClosed(t) ==
  /\ pc[t] = "shake" /\ at[t] \in {"out", "accepted", "refused"}
  /\ at[t] = "refused" \/ conn[t].state = "closed"
  /\ Leave(t) /\ conn' = [conn EXCEPT ![t] = NoConn]
  /\ IF hop[t] = "bastion" THEN BastionFails(t) ELSE TargetFails(t)
  /\ UNCHANGED <<setup, mode, rounds, scripts, hop, client, hop1, session, up, outage, faults>>

\* The key is refused, the connection closed, or it is silent for too long.
ShakeFails(t) ==
  /\ pc[t] = "shake" /\ at[t] \in {"out", "accepted", "refused"}
  /\ \/ at[t] = "refused" \/ conn[t].state = "closed"
     \/ conn[t].state = "silent" /\ Deadline(t)
  /\ Leave(t) /\ conn' = [conn EXCEPT ![t] = NoConn]
  /\ IF hop[t] = "bastion" THEN BastionFails(t) ELSE TargetFails(t)
  /\ UNCHANGED <<setup, mode, rounds, scripts, hop, client, hop1, session, up, outage, faults>>

-----------------------------------------------------------------------------
(* The provisioner                                                         *)

New(t) ==
  /\ pc[t] = "new" /\ Dial(t, "new")
  /\ UNCHANGED <<hosts, setup, rounds, scripts, hop, conn, hop1, session, up, faults>>

\* A client that lives is used again, a dead one is replaced.
Provision(t) ==
  /\ pc[t] = "ready" /\ scripts[t] > 0
  /\ scripts' = [scripts EXCEPT ![t] = @ - 1]
  /\ IF client[t].alive THEN Go(t, "run") /\ UNCHANGED <<mode, tries, client, outage>>
     ELSE Dial(t, "provision")
  /\ UNCHANGED <<hosts, setup, rounds, hop, conn, hop1, session, up, faults>>

\* After a script the client is closed; with a kernel the node is waited for.
ScriptDone(t) ==
  /\ pc[t] = "run" /\ client[t].alive
  /\ client' = [client EXCEPT ![t] = NoClient]
  /\ \/ Go(t, "ready") /\ UNCHANGED rounds
     \/ Go(t, "sleep") /\ rounds' = [rounds EXCEPT ![t] = Rounds]
  /\ UNCHANGED <<hosts, setup, mode, tries, scripts, hop, conn, hop1, session, up, outage, faults>>

Wake(t) ==
  /\ pc[t] = "sleep" /\ Dial(t, "reboot") /\ rounds' = [rounds EXCEPT ![t] = @ - 1]
  /\ UNCHANGED <<hosts, setup, scripts, hop, conn, hop1, session, up, faults>>

SleepAgain(t) ==
  /\ pc[t] = "failed" /\ mode[t] = "reboot" /\ rounds[t] > 0 /\ Go(t, "sleep")
  /\ UNCHANGED <<hosts, setup, mode, tries, rounds, scripts, hop, conn, client, hop1, session, up, outage, faults>>

\* The provisioners of gone are no more: what a closed one remembers is nothing.
Forget(gone) ==
  LET Without(f, none) == [t \in Thread |-> IF t \in gone THEN none ELSE f[t]] IN
  /\ pc' = Without(pc, "closed") /\ client' = Without(client, NoClient)
  /\ mode' = Without(mode, "new") /\ tries' = Without(tries, NoTries)
  /\ rounds' = Without(rounds, 0) /\ scripts' = Without(scripts, 0)
  /\ hop' = Without(hop, "target") /\ outage' = Without(outage, FALSE)

\* The run is over, or has failed.  New closes the transport when it fails;
\* of the other callers some do, and some close the client only.
Close(t) ==
  /\ \/ pc[t] = "failed" /\ (mode[t] = "reboot" => rounds[t] = 0)
     \/ pc[t] = "run" /\ ~client[t].alive
     \/ pc[t] = "ready" /\ scripts[t] = 0
  /\ Forget({t})
  /\ \/ /\ hop1' = [hop1 EXCEPT ![t] = "none"] /\ session' = [session EXCEPT ![t] = NoSession]
     \/ ~(pc[t] = "failed" /\ mode[t] = "new") /\ UNCHANGED <<hop1, session>>
  /\ UNCHANGED <<hosts, setup, conn, up, faults>>

Provisioner(t) ==
  \/ New(t) \/ Provision(t) \/ ScriptDone(t) \/ Wake(t) \/ SleepAgain(t) \/ Close(t)
  \/ DialDirect(t) \/ DialBastion(t) \/ DialHop1(t) \/ DialHop2(t)
  \/ StartSession(t) \/ SessionListens(t) \/ DialTunnel(t) \/ TunnelFails(t)
  \/ CheckHostKey(t) \/ HostKeyStep(t) \/ Connected(t) \/ ShakeFails(t)

-----------------------------------------------------------------------------
(* The network                                                             *)

Fault == faults < Faults /\ faults' = faults + 1

\* What the loss of the hosts or connections means for the clients of t.
Through(t, h) == h = Bastion /\ Via(t) = "bastion"
LoseHop1(lost) ==
  hop1' = [t \in Thread |-> IF t \in lost /\ hop1[t] = "alive" THEN "dead" ELSE hop1[t]]

\* A host goes down: it says so, or it falls silent.  The forwarding to it ends.
HostDown(h) ==
  /\ up[h] /\ Fault /\ up' = [up EXCEPT ![h] = FALSE]
  /\ LET cut == {t \in Thread : client[t].host = h \/ Through(t, h)} IN
       client' = [t \in Thread |-> IF t \in cut THEN [client[t] EXCEPT !.alive = FALSE] ELSE client[t]]
  /\ LoseHop1({t \in Thread : Through(t, h)})
  /\ \E how \in {"closed", "silent"} :
       conn' = [t \in Thread |->
                  IF conn[t].host = h THEN [conn[t] EXCEPT !.state = how]
                  ELSE IF Through(t, h) THEN [conn[t] EXCEPT !.state = "closed"]
                  ELSE conn[t]]
  /\ session' = [t \in Thread |->
                   IF Node(t) = h /\ session[t].state = "listening" THEN NoSession ELSE session[t]]
  /\ outage' = [t \in Thread |-> outage[t] \/ h \in Path(t)]
  /\ UNCHANGED <<hosts, setup, pc, mode, tries, rounds, scripts, hop>>

HostUp(h) ==
  /\ ~up[h] /\ up' = [up EXCEPT ![h] = TRUE]
  /\ UNCHANGED <<hosts, setup, pc, mode, tries, rounds, scripts, hop, conn, client, hop1, session, outage, faults>>

\* The connection to the node, or to the bastion and all it carries, is lost.
Drop(t) ==
  /\ Fault /\ client' = [client EXCEPT ![t].alive = FALSE]
  /\ conn' = [conn EXCEPT ![t].state = "closed"]
  /\ \/ (client[t].alive \/ conn[t].state = "open") /\ UNCHANGED hop1
     \/ hop1[t] = "alive" /\ LoseHop1({t})
  /\ outage' = [outage EXCEPT ![t] = TRUE]
  /\ UNCHANGED <<hosts, setup, pc, mode, tries, rounds, scripts, hop, session, up>>

\* The aws processes of a process that is killed go on.
Kill(p) ==
  /\ Fault /\ HostsKill(p)
  /\ LET gone == {t \in Thread : process[t] = p} IN
       /\ Forget(gone)
       /\ conn' = [t \in Thread |-> IF t \in gone THEN NoConn ELSE conn[t]]
       /\ hop1' = [t \in Thread |-> IF t \in gone THEN "none" ELSE hop1[t]]
  /\ UNCHANGED <<setup, session, up>>

Network ==
  \/ \E h \in Host : HostDown(h) \/ HostUp(h)
  \/ \E t \in Thread : Drop(t)
  \/ \E p \in Process : Kill(p)

Next == Network \/ \E t \in Thread : Provisioner(t)

Spec == Init /\ [][Next]_vars

\* Every goroutine goes on, and hosts come back.
FairSpec ==
  /\ Spec /\ \A t \in Thread : WF_vars(Provisioner(t))
  /\ \A h \in Host : WF_vars(HostUp(h))

-----------------------------------------------------------------------------
(* Properties                                                              *)

Count(n) == 0..n

TypeOK ==
  /\ setup \in Setups /\ process \in Placements
  /\ \A t \in Thread :
       /\ pc[t] \in {"new", "dial", "hop1", "hop2", "tunnel", "shake", "ready", "run",
                     "sleep", "failed", "closed"}
       /\ at[t] \in {"out", "mutex", "lock", "load", "verify", "record", "leave", "refuse",
                     "accepted", "refused"}
       /\ at[t] # "out" => pc[t] = "shake"
       /\ tries[t].target \in Count(Attempts) /\ tries[t].bastion \in Count(Attempts)
       /\ rounds[t] \in Count(Rounds) /\ scripts[t] \in Count(Scripts)
       /\ conn[t] \in [host : Host \cup {None}, state : {"open", "closed", "silent"}]
       /\ client[t] \in [host : Host \cup {None}, alive : BOOLEAN]
       /\ hop1[t] \in {"none", "alive", "dead"}
       /\ session[t] \in [state : {"none", "starting", "listening"}, port : Port \cup {None}]
  /\ flock \in Thread \cup {None} /\ mutex \in [Process -> Thread \cup {None}]
  /\ up \in [Host -> BOOLEAN] /\ faults \in Count(Faults)

Recorded(address, key) == \E i \in DOMAIN known : known[i] = <<address, key>>

\* Unless the policy is off, whoever a client talks to presented the key that
\* is recorded under the address, also at the bastion, and also when another
\* process recorded the address at the same time.
ClientsAreVerified ==
  Policy # "off" =>
    \A t \in Thread :
      /\ client[t].host # None => Recorded(setup[t].address, client[t].host)
      /\ hop1[t] # "none" => Recorded(Bastion, Bastion)

\* Under an address on the way of t the key of another host is recorded.
Mistrusted(t) ==
  \/ Policy = "strict"
  \/ \E i \in DOMAIN known :
       \/ known[i][1] = setup[t].address /\ known[i][2] # Node(t)
       \/ known[i][1] = Bastion /\ known[i][2] # Bastion /\ Via(t) = "bastion"

\* A dial that gives up had a reason: something was wrong on the way (a host
\* down, a connection lost, a port that another thread's node answers), the
\* address is another host's for the file, or the bastion's client is dead.
GivesUpWithReason ==
  \A t \in Thread : pc[t] = "failed" =>
    outage[t] \/ Mistrusted(t) \/ hop1[t] = "dead"

\* No goroutine waits for ever for another one's lock, whatever answer that one
\* got, and also if its process was killed while it had the locks.
CallbacksReturn ==
  \A t \in Thread : at[t] = "mutex" ~> at[t] \in {"out", "accepted", "refused"}

\* What a handshake through the bastion may do: wait for a host that went down
\* without a word.
Hangs(t) == pc[t] = "shake" /\ conn[t].state = "silent" /\ ~Deadline(t)

\* Every dial ends, with a client or with an error, unless it hangs.
DialsEnd ==
  \A t \in Thread : pc[t] = "dial" ~> pc[t] \in {"ready", "run", "failed", "closed"} \/ Hangs(t)

=============================================================================
