---------------------------- MODULE Negotiation -----------------------------
(***************************************************************************)
(* How the daemons of several nodes find each other: ControlPlane (stream  *)
(* handler, initialOfferToRemotePeer, WaitForRemoteConn) and webrtc.Ice    *)
(* (Setup, StartGatheringProcess, waitingRemotePeerConnections) on every   *)
(* node, and between them a signal server that relays offers, answers and  *)
(* candidates in any order.                                                *)
(*                                                                         *)
(* A node's ICE credentials are new whenever its daemon starts, so the     *)
(* start number inc[n] stands for them.  One candidate stands for all that *)
(* an agent gathers.                                                       *)
(***************************************************************************)
EXTENDS Naturals

CONSTANTS
    Nodes,
    NoPeer,     \* stands for a nil *Ice
    WgKey,      \* the order of the nodes' WireGuard public keys
    Enrolled,   \* nodes the server lists before any daemon starts
    Lossy,      \* whether calls fail and messages get lost
    MaxStarts   \* how often each node's daemon may be started

ASSUME NegotiationAssumption ==
    /\ NoPeer \notin Nodes
    /\ WgKey \in [Nodes -> Nat]
    /\ \A n, p \in Nodes : WgKey[n] = WgKey[p] => n = p
    /\ Enrolled \subseteq Nodes
    /\ Lossy \in BOOLEAN
    /\ MaxStarts \in [Nodes -> Nat]

VARIABLES
    proc,     \* "down", "up" or "crashed", per node
    inc,      \* how often the node's daemon was started
    listed,   \* the nodes the server hands out in SyncRemoteNodesConfig
    todo,     \* remote nodes initialOfferToRemotePeer still has to hand over
    synced,   \* whether SyncRemoteNodesConfig has answered
    known,    \* the keys of peerConns
    hand,     \* the peer being sent on waitForRemoteConnCh
    worker,   \* the peer WaitForRemoteConn is at work on
    agent,    \* the peers whose Ice has an agent
    waiter,   \* where each waitingRemotePeerConnections is
    remote,   \* the credentials it last got from the peer, 0 for none
    gathered, \* the peers for which GatherCandidates was called
    cands,    \* credentials of the remote candidates each agent has
    dialed,   \* the credentials startConn was called with, 0 for none
    starts,   \* how often startConn was called, per peer
    linked,   \* the peers whose conn.Start has returned
    msgs,     \* messages in flight
    missed    \* an offer or answer was dropped before its waiter could wait, a
              \* call failed, an agent gave up its checks, or a message to a
              \* running daemon got lost

nodeVars == <<proc, inc, listed>>
cpVars   == <<todo, synced, known, hand, worker>>
iceVars  == <<agent, waiter, remote, gathered, cands, dialed, starts, linked>>
vars == <<nodeVars, cpVars, iceVars, msgs, missed>>

Creds == Nat \ {0}

\* re is the start of the receiver that a reply answers; offers have none.
Messages ==
    [type : {"OFFER"}, src : Nodes, dst : Nodes, cred : Creds, re : {0}]
    \cup [type : {"ANSWER", "CANDIDATE"}, src : Nodes, dst : Nodes, cred : Creds, re : Creds]

Offer(n, p) == [type |-> "OFFER", src |-> n, dst |-> p, cred |-> inc[n], re |-> 0]

Reply(t, n, p) == [type |-> t, src |-> n, dst |-> p, cred |-> inc[n], re |-> remote[n][p]]

Up(n) == proc[n] = "up"

Send(m) == msgs' = msgs \cup {m}

SetPeer(f, n, p, v) == [f EXCEPT ![n][p] = v]

Crash(n) == proc' = [proc EXCEPT ![n] = "crashed"]

----------------------------------------------------------------------------
(* The daemon starts and stops                                             *)

\* execUp: LoginNode enrols the node, and the stream to the signal server is
\* open.  Everything in memory is new.
StartDaemon(n) ==
    /\ ~Up(n)
    /\ inc[n] < MaxStarts[n]
    /\ proc' = [proc EXCEPT ![n] = "up"]
    /\ inc' = [inc EXCEPT ![n] = @ + 1]
    /\ listed' = listed \cup {n}
    /\ todo' = [todo EXCEPT ![n] = {}]
    /\ synced' = [synced EXCEPT ![n] = FALSE]
    /\ known' = [known EXCEPT ![n] = {}]
    /\ hand' = [hand EXCEPT ![n] = NoPeer]
    /\ worker' = [worker EXCEPT ![n] = NoPeer]
    /\ agent' = [agent EXCEPT ![n] = {}]
    /\ waiter' = [waiter EXCEPT ![n] = [p \in Nodes |-> "none"]]
    /\ remote' = [remote EXCEPT ![n] = [p \in Nodes |-> 0]]
    /\ gathered' = [gathered EXCEPT ![n] = {}]
    /\ cands' = [cands EXCEPT ![n] = [p \in Nodes |-> {}]]
    /\ dialed' = [dialed EXCEPT ![n] = [p \in Nodes |-> 0]]
    /\ starts' = [starts EXCEPT ![n] = [p \in Nodes |-> 0]]
    /\ linked' = [linked EXCEPT ![n] = {}]
    /\ UNCHANGED <<msgs, missed>>

\* The process ends, by a signal or otherwise, and will be started again.
StopDaemon(n) ==
    /\ Up(n)
    /\ inc[n] < MaxStarts[n]
    /\ proc' = [proc EXCEPT ![n] = "down"]
    /\ UNCHANGED <<inc, listed, cpVars, iceVars, msgs, missed>>

----------------------------------------------------------------------------
(* ControlPlane.initialOfferToRemotePeer                                   *)

SyncRemoteNodesConfig(n) ==
    /\ Up(n)
    /\ ~synced[n]
    /\ synced' = [synced EXCEPT ![n] = TRUE]
    /\ todo' = [todo EXCEPT ![n] = listed \ {n}]
    /\ UNCHANGED <<nodeVars, known, hand, worker, iceVars, msgs, missed>>

\* The new Ice enters peerConns, then waits on the unbuffered channel until
\* WaitForRemoteConn takes it.
HandOver(n, p) ==
    /\ Up(n)
    /\ p \in todo[n]
    /\ hand[n] = NoPeer
    /\ todo' = [todo EXCEPT ![n] = @ \ {p}]
    /\ known' = [known EXCEPT ![n] = @ \cup {p}]
    /\ hand' = [hand EXCEPT ![n] = p]
    /\ UNCHANGED <<nodeVars, synced, worker, iceVars, msgs, missed>>

\* initialOfferToRemotePeer writes peerConns without c.mu while the handler,
\* or isExistPeer in WaitForRemoteConn, reads it: the Go runtime may detect
\* the concurrent map access, which it treats as fatal.
ConcurrentMapAccess(n) ==
    /\ Up(n)
    /\ todo[n] # {} /\ hand[n] = NoPeer
    /\ worker[n] # NoPeer \/ \E m \in msgs : m.dst = n
    /\ Crash(n)
    /\ UNCHANGED <<inc, listed, cpVars, iceVars, msgs, missed>>

----------------------------------------------------------------------------
(* ControlPlane.WaitForRemoteConn and Ice.StartGatheringProcess            *)

TakeRemoteConn(n) ==
    /\ Up(n)
    /\ hand[n] # NoPeer
    /\ worker[n] = NoPeer
    /\ worker' = [worker EXCEPT ![n] = hand[n]]
    /\ hand' = [hand EXCEPT ![n] = NoPeer]
    /\ UNCHANGED <<nodeVars, todo, synced, known, iceVars, msgs, missed>>

\* The signal client is not ready, or Setup fails: the peer is skipped, and
\* nothing hands it over again.
SkipRemoteConn(n) ==
    /\ Lossy
    /\ Up(n)
    /\ worker[n] # NoPeer
    /\ worker[n] \notin agent[n]
    /\ worker' = [worker EXCEPT ![n] = NoPeer]
    /\ missed' = TRUE
    /\ UNCHANGED <<nodeVars, todo, synced, known, hand, iceVars, msgs>>

\* Setup dereferences stunTurn, which is nil when ConfigureStunTurnConf
\* failed: Rcn.Start only logs that.
SetupWithoutStun(n) ==
    /\ Lossy
    /\ Up(n)
    /\ worker[n] # NoPeer
    /\ worker[n] \notin agent[n]
    /\ Crash(n)
    /\ UNCHANGED <<inc, listed, cpVars, iceVars, msgs, missed>>

\* Setup makes the agent and StartGatheringProcess starts the goroutine.
SetupIce(n) ==
    /\ Up(n)
    /\ worker[n] # NoPeer
    /\ worker[n] \notin agent[n]
    /\ agent' = [agent EXCEPT ![n] = @ \cup {worker[n]}]
    /\ waiter' = SetPeer(waiter, n, worker[n], "spawned")
    /\ UNCHANGED <<nodeVars, cpVars, remote, gathered, cands, dialed, starts, linked, msgs, missed>>

SignalOfferBeforeSetup(n) ==
    /\ Up(n)
    /\ worker[n] # NoPeer
    /\ Send(Offer(n, worker[n]))
    /\ worker' = [worker EXCEPT ![n] = NoPeer]
    /\ UNCHANGED <<nodeVars, todo, synced, known, hand, iceVars, missed>>

\* The offer goes out at once, whether or not the goroutine waits yet.
SignalOffer(n) ==
    /\ Up(n)
    /\ worker[n] # NoPeer
    /\ worker[n] \in agent[n]
    /\ Send(Offer(n, worker[n]))
    /\ worker' = [worker EXCEPT ![n] = NoPeer]
    /\ UNCHANGED <<nodeVars, todo, synced, known, hand, iceVars, missed>>

----------------------------------------------------------------------------
(* The stream handler: receiveSignalRequest under c.mu                     *)

\* peerConns has no entry: the method is called on a nil *Ice.
ReceiveFromUnknown(n, m) ==
    /\ Up(n)
    /\ m \in msgs /\ m.dst = n
    /\ m.src \notin known[n]
    /\ msgs' = msgs \ {m}
    /\ Crash(n)
    /\ UNCHANGED <<inc, listed, cpVars, iceVars, missed>>

\* SendRemoteOfferCh and SendRemoteAnswerCh do not block: the waiter takes
\* the credentials if it is at its select, otherwise they are dropped.
ReceiveHandshake(n, m) ==
    /\ Up(n)
    /\ m \in msgs /\ m.dst = n
    /\ m.src \in known[n]
    /\ m.type \in {"OFFER", "ANSWER"}
    /\ msgs' = msgs \ {m}
    /\ IF waiter[n][m.src] = "select"
          THEN /\ waiter' = SetPeer(waiter, n, m.src,
                                IF m.type = "OFFER" THEN "answer" ELSE "gather")
               /\ remote' = SetPeer(remote, n, m.src, m.cred)
               /\ UNCHANGED missed
          ELSE /\ missed' = (missed \/ waiter[n][m.src] = "spawned")
               /\ UNCHANGED <<waiter, remote>>
    /\ UNCHANGED <<nodeVars, cpVars, agent, gathered, cands, dialed, starts, linked>>

\* SendRemoteCandidate: dropped when the agent is still nil.
ReceiveCandidate(n, m) ==
    /\ Up(n)
    /\ m \in msgs /\ m.dst = n
    /\ m.src \in known[n]
    /\ m.type = "CANDIDATE"
    /\ msgs' = msgs \ {m}
    /\ cands' = IF m.src \in agent[n]
                   THEN SetPeer(cands, n, m.src, cands[n][m.src] \cup {m.cred})
                   ELSE cands
    /\ UNCHANGED <<nodeVars, cpVars, agent, waiter, remote, gathered, dialed, starts, linked, missed>>

Receive(n, m) == ReceiveFromUnknown(n, m) \/ ReceiveHandshake(n, m) \/ ReceiveCandidate(n, m)

\* The server has no stream to the receiver, or a call timed out.
Lose(m) ==
    /\ m \in msgs
    /\ Lossy \/ ~Up(m.dst)
    /\ msgs' = msgs \ {m}
    /\ missed' = (missed \/ Up(m.dst))
    /\ UNCHANGED <<nodeVars, cpVars, iceVars>>

----------------------------------------------------------------------------
(* Ice.waitingRemotePeerConnections                                        *)

\* The goroutine reaches its select for the first time.
StartWaiting(n, p) ==
    /\ Up(n)
    /\ waiter[n][p] = "spawned"
    /\ waiter' = SetPeer(waiter, n, p, "select")
    /\ UNCHANGED <<nodeVars, cpVars, agent, remote, gathered, cands, dialed, starts, linked, msgs, missed>>

SignalAnswerUnsent(n, p) ==
    /\ Up(n)
    /\ waiter[n][p] = "answer"
    /\ waiter' = SetPeer(waiter, n, p, "gather")
    /\ UNCHANGED <<nodeVars, cpVars, agent, remote, gathered, cands, dialed, starts, linked, msgs, missed>>

SignalAnswer(n, p) ==
    /\ Up(n)
    /\ waiter[n][p] = "answer"
    /\ Send(Reply("ANSWER", n, p))
    /\ waiter' = SetPeer(waiter, n, p, "gather")
    /\ UNCHANGED <<nodeVars, cpVars, agent, remote, gathered, cands, dialed, starts, linked, missed>>

GatherAgain(n, p) ==
    /\ Up(n)
    /\ waiter[n][p] = "gather"
    /\ gathered' = [gathered EXCEPT ![n] = @ \cup {p}]
    /\ Send(Reply("CANDIDATE", n, p))
    /\ dialed' = SetPeer(dialed, n, p, remote[n][p])
    /\ starts' = SetPeer(starts, n, p, starts[n][p] + 1)
    /\ waiter' = SetPeer(waiter, n, p, "dial")
    /\ UNCHANGED <<nodeVars, cpVars, agent, remote, cands, linked, missed>>

\* An agent gathers once; its candidates go to the peer, and startConn makes
\* a Conn that dials or accepts with the credentials received.
GatherAndStartConn(n, p) ==
    /\ Up(n)
    /\ waiter[n][p] = "gather"
    /\ p \notin gathered[n]
    /\ gathered' = [gathered EXCEPT ![n] = @ \cup {p}]
    /\ Send(Reply("CANDIDATE", n, p))
    /\ dialed' = SetPeer(dialed, n, p, remote[n][p])
    /\ starts' = SetPeer(starts, n, p, starts[n][p] + 1)
    /\ waiter' = SetPeer(waiter, n, p, "dial")
    /\ UNCHANGED <<nodeVars, cpVars, agent, remote, cands, linked, missed>>

Exits(n, p) ==
    /\ waiter' = SetPeer(waiter, n, p, "exited")
    /\ UNCHANGED <<nodeVars, cpVars, agent, remote, gathered, cands, dialed, starts, linked, msgs>>

\* The second GatherCandidates of an agent fails and ends the goroutine;
\* nothing starts it again.
GatherFails(n, p) ==
    /\ Up(n)
    /\ waiter[n][p] = "gather" /\ p \in gathered[n]
    /\ Exits(n, p)
    /\ UNCHANGED missed

\* So does any other call that fails.  An agent whose checks run into
\* failedTimeout is covered too: Dial and Accept then block for good, and like
\* a goroutine that has exited theirs never comes back to its select.
CallFails(n, p) ==
    /\ Lossy
    /\ Up(n)
    /\ waiter[n][p] \in {"answer", "gather", "dial", "report"}
    /\ Exits(n, p)
    /\ missed' = TRUE

\* conn.Start: the smaller public key dials, the other one accepts.
Dials(n, p) == WgKey[n] < WgKey[p]

\* The ICE agents can reach each other: both are in conn.Start in opposite
\* roles with each other's credentials, and one of them has a candidate to
\* try before failedTimeout, which CallFails stands for.  Otherwise Dial and
\* Accept block.
CanConnect(n, p) ==
    /\ Up(n) /\ Up(p)
    /\ waiter[n][p] = "dial"
    /\ waiter[p][n] = "dial" \/ n \in linked[p]
    /\ dialed[n][p] = inc[p]
    /\ dialed[p][n] = inc[n]
    /\ inc[p] \in cands[n][p] \/ inc[n] \in cands[p][n]
    /\ Dials(n, p) # Dials(p, n)

IceConnects(n, p) ==
    /\ CanConnect(n, p)
    /\ linked' = [linked EXCEPT ![n] = @ \cup {p}]
    /\ waiter' = SetPeer(waiter, n, p, "report")
    /\ UNCHANGED <<nodeVars, cpVars, agent, remote, gathered, cands, dialed, starts, msgs, missed>>

\* serverClient.Connect succeeds and the goroutine waits again.
ReportConnected(n, p) ==
    /\ Up(n)
    /\ waiter[n][p] = "report"
    /\ waiter' = SetPeer(waiter, n, p, "select")
    /\ UNCHANGED <<nodeVars, cpVars, agent, remote, gathered, cands, dialed, starts, linked, msgs, missed>>

WaiterStep(n, p) ==
    \/ StartWaiting(n, p)
    \/ SignalAnswer(n, p)
    \/ GatherAndStartConn(n, p)
    \/ ReportConnected(n, p)

----------------------------------------------------------------------------
Init ==
    /\ proc = [n \in Nodes |-> "down"]
    /\ inc = [n \in Nodes |-> 0]
    /\ listed = Enrolled
    /\ todo = [n \in Nodes |-> {}]
    /\ synced = [n \in Nodes |-> FALSE]
    /\ known = [n \in Nodes |-> {}]
    /\ hand = [n \in Nodes |-> NoPeer]
    /\ worker = [n \in Nodes |-> NoPeer]
    /\ agent = [n \in Nodes |-> {}]
    /\ waiter = [n \in Nodes |-> [p \in Nodes |-> "none"]]
    /\ remote = [n \in Nodes |-> [p \in Nodes |-> 0]]
    /\ gathered = [n \in Nodes |-> {}]
    /\ cands = [n \in Nodes |-> [p \in Nodes |-> {}]]
    /\ dialed = [n \in Nodes |-> [p \in Nodes |-> 0]]
    /\ linked = [n \in Nodes |-> {}]
    /\ starts = [n \in Nodes |-> [p \in Nodes |-> 0]]
    /\ msgs = {}
    /\ missed = FALSE

OffererStep(n) == SyncRemoteNodesConfig(n) \/ \E p \in Nodes : HandOver(n, p)

WorkerStep(n) == TakeRemoteConn(n) \/ SetupIce(n) \/ SignalOffer(n)

ReceiveStep(n) == \E m \in msgs : Receive(n, m)

Next ==
    \/ \E n \in Nodes :
          \/ StartDaemon(n)
          \/ StopDaemon(n)
          \/ OffererStep(n)
          \/ ConcurrentMapAccess(n)
          \/ WorkerStep(n)
          \/ SkipRemoteConn(n)
          \/ SetupWithoutStun(n)
          \/ ReceiveStep(n)
    \/ \E n, p \in Nodes :
          \/ WaiterStep(n, p)
          \/ GatherFails(n, p)
          \/ CallFails(n, p)
          \/ IceConnects(n, p)
    \/ \E m \in msgs : Lose(m)

Spec == Init /\ [][Next]_vars

\* Daemons are started, goroutines run, the server delivers what it can, and
\* agents that can reach each other do.  Nothing is assumed of failures.
Fairness ==
    /\ \A n \in Nodes :
          /\ WF_vars(StartDaemon(n))
          /\ WF_vars(OffererStep(n))
          /\ WF_vars(WorkerStep(n))
          /\ WF_vars(ReceiveStep(n))
    /\ \A n, p \in Nodes :
          /\ WF_vars(WaiterStep(n, p))
          /\ WF_vars(GatherFails(n, p))
          /\ WF_vars(IceConnects(n, p))

FairSpec == Spec /\ Fairness

----------------------------------------------------------------------------
WaiterStates == {"none", "spawned", "select", "answer", "gather", "dial", "report", "exited"}

TypeOK ==
    /\ proc \in [Nodes -> {"down", "up", "crashed"}]
    /\ inc \in [Nodes -> Nat]
    /\ listed \in SUBSET Nodes
    /\ todo \in [Nodes -> SUBSET Nodes]
    /\ synced \in [Nodes -> BOOLEAN]
    /\ known \in [Nodes -> SUBSET Nodes]
    /\ hand \in [Nodes -> Nodes \cup {NoPeer}]
    /\ worker \in [Nodes -> Nodes \cup {NoPeer}]
    /\ agent \in [Nodes -> SUBSET Nodes]
    /\ waiter \in [Nodes -> [Nodes -> WaiterStates]]
    /\ remote \in [Nodes -> [Nodes -> Nat]]
    /\ dialed \in [Nodes -> [Nodes -> Nat]]
    /\ gathered \in [Nodes -> SUBSET Nodes]
    /\ cands \in [Nodes -> [Nodes -> SUBSET Creds]]
    /\ linked \in [Nodes -> SUBSET Nodes]
    /\ starts \in [Nodes -> [Nodes -> Nat]]
    /\ msgs \subseteq Messages
    /\ missed \in BOOLEAN

\* An answer or a candidate that replies to the running daemon finds its peer
\* in peerConns and its agent set up: the handler neither dereferences a nil
\* *Ice nor drops the candidate for want of an agent.  Only offers, and
\* replies to an earlier start of the daemon, reach a node unprepared.
RepliesFindTheirAgent ==
    \A m \in msgs :
        m.type \in {"ANSWER", "CANDIDATE"} /\ m.re = inc[m.dst] /\ Up(m.dst)
            => m.src \in known[m.dst] /\ m.src \in agent[m.dst]

\* One Ice starts at most one Conn, whatever offers and answers follow: a
\* second startConn would overwrite i.conn and leave the first one running.
OneConnPerPeer == \A n, p \in Nodes : starts[n][p] <= 1

\* Both ends agree about a link: if n is linked to the daemon p runs now,
\* that daemon has an agent for n and has dialled n's current start, so
\* whatever a late offer or answer does, neither side has moved on alone.
LinkAgrees ==
    \A n, p \in Nodes :
        Up(n) /\ Up(p) /\ p \in linked[n] /\ dialed[n][p] = inc[p]
            => n \in agent[p] /\ dialed[p][n] = inc[n]

Crashed == \E n \in Nodes : proc[n] = "crashed"

\* The nodes n and p, both running, are linked to each other's current start.
Meshed(n, p) ==
    /\ Up(n) /\ Up(p)
    /\ p \in linked[n] /\ n \in linked[p]
    /\ dialed[n][p] = inc[p] /\ dialed[p][n] = inc[n]

AllMeshed == \A n, p \in Nodes : n # p => Meshed(n, p)

\* Every daemon runs its first start, and nothing was dropped or lost.
FirstStarts == ~missed /\ \A n \in Nodes : Up(n) /\ inc[n] = 1

\* Nobody has anything left to do: no message is in flight, every offer is
\* out, every waiter is at its select, in conn.Start or gone, and no two
\* agents can reach each other that have not.
Quiet ==
    /\ msgs = {}
    /\ \A n \in Nodes :
          synced[n] /\ todo[n] = {} /\ hand[n] = NoPeer /\ worker[n] = NoPeer
    /\ \A n, p \in Nodes :
          /\ waiter[n][p] \notin {"spawned", "answer", "gather", "report"}
          /\ ~CanConnect(n, p)

\* The handshake cannot stall half-way.  When daemons that run their first
\* start have nothing left to do, and no offer or answer fell between the
\* start of a waiter and its select, every two nodes are linked: no pair is
\* left with one side in Dial or Accept and the other back at its select,
\* whichever of the crossing offers and answers were ignored.
NoStall == FirstStarts /\ Quiet => AllMeshed

\* Daemons that start once end up connected, in whatever order they start
\* and messages arrive, unless one of them crashes, a call fails, or an offer
\* or answer is dropped between the start of a waiter and its select.
PeersConnect ==
    [](~Crashed /\ ~missed /\ \A n \in Nodes : inc[n] <= 1) => <>[]AllMeshed

\* The same for daemons that are started again: the comment above
\* waitingRemotePeerConnections says "when the offer and answer come in,
\* gather the agent's candidates and collect the process".
RestartedPeersConnect == [](~Crashed /\ ~missed) => <>[]AllMeshed

\* The start of p that n is linked to, 0 for none.
LinkedStart == [n \in Nodes |-> [p \in Nodes |-> IF p \in linked[n] THEN dialed[n][p] ELSE 0]]

AbstractLink == INSTANCE Link WITH gen <- inc, half <- LinkedStart

\* Seen from outside, all of this makes links between starts: a node links to
\* a peer once in its life, to the start of the peer that runs, and only if
\* that one is not linked to an earlier start of the node.
ImplementsLink == AbstractLink!LSpec

\* A daemon that has finished its initial offers lives on when another node
\* joins: SyncRemoteNodes is documented to "maintain flexible connections by
\* updating remote nodes information on a regular basis, rather than only
\* when other Nodes join".
SettledDaemonSurvivesJoin ==
    \A n \in Nodes :
        synced[n] /\ todo[n] = {} /\ hand[n] = NoPeer /\ worker[n] = NoPeer
            => proc[n] # "crashed"
=============================================================================
