------------------------- MODULE Negotiation_proofs -------------------------
(***************************************************************************)
(* For any set of nodes, any number of restarts and any loss: replies find *)
(* the agent they reply to, an Ice starts at most one Conn, and both ends  *)
(* of a link agree.  And when nothing was disturbed, no handshake stalls.  *)
(*                                                                         *)
(* The argument follows the credentials.  A credential of p that n holds,  *)
(* or that is on its way to n, was sent after p set up its agent for n; it *)
(* belongs to the daemon p runs now exactly if it equals inc[p], and a     *)
(* restart, which discards the agents, also makes every credential stale.  *)
(***************************************************************************)
EXTENDS Negotiation, TLAPS

\* A running daemon was started.
UpStarted == \A n \in Nodes : Up(n) => inc[n] # 0

\* Every peer beyond the hand-over is in peerConns.
PeersPrepared ==
    \A n \in Nodes :
        /\ agent[n] \subseteq known[n]
        /\ hand[n] # NoPeer => hand[n] \in known[n]
        /\ worker[n] # NoPeer => worker[n] \in known[n]

\* A goroutine that waits, answers or dials has an agent, and one that has
\* left its select holds credentials.
WaiterHasAgent ==
    \A n, p \in Nodes :
        /\ waiter[n][p] # "none" => p \in agent[n]
        /\ waiter[n][p] \in {"answer", "gather"} => remote[n][p] # 0

\* c is a credential p has sent to n: not newer than p's daemon, and if that
\* daemon still runs with it, p has an agent for n.
Issued(c, p, n) == c <= inc[p] /\ (c # 0 /\ c = inc[p] => n \in agent[p])

CredsIssued ==
    /\ \A m \in msgs : Issued(m.cred, m.src, m.dst) /\ Issued(m.re, m.dst, m.src)
    /\ \A n, p \in Nodes : Issued(remote[n][p], p, n) /\ Issued(dialed[n][p], p, n)

\* startConn runs only with the agent's first gathering.
ConnOnce ==
    \A n, p \in Nodes :
        /\ starts[n][p] <= 1
        /\ p \notin gathered[n] => starts[n][p] = 0 /\ dialed[n][p] = 0

\* Both ends of a link to the current daemon of the peer dialled each other.
LinkSound ==
    \A n, p \in Nodes :
        p \in linked[n] =>
            /\ inc[n] # 0 /\ dialed[n][p] # 0
            /\ dialed[n][p] = inc[p] => n \in agent[p] /\ dialed[p][n] = inc[n]

\* The inductive invariant.
IInv ==
    /\ TypeOK
    /\ UpStarted
    /\ PeersPrepared
    /\ WaiterHasAgent
    /\ CredsIssued
    /\ ConnOnce
    /\ LinkSound

----------------------------------------------------------------------------
\* Credentials stay issued while no daemon restarts and agents only come.
LEMMA IssuedStable ==
    ASSUME NEW c \in Nat, NEW p \in Nodes, NEW n \in Nodes, TypeOK,
           Issued(c, p, n), inc' = inc, agent[p] \subseteq agent'[p]
    PROVE  Issued(c, p, n)'
  BY DEF Issued, TypeOK

\* Every message in flight has the fields its type calls for.
LEMMA MessageFields ==
    ASSUME TypeOK, NEW m \in msgs
    PROVE  /\ m \in Messages
           /\ m.src \in Nodes /\ m.dst \in Nodes
           /\ m.cred \in Nat /\ m.cred # 0 /\ m.re \in Nat
           /\ m.type \in {"OFFER", "ANSWER", "CANDIDATE"}
  BY DEF TypeOK, Messages, Creds

\* An offer or a reply by a running node is a message.
LEMMA SentAreMessages ==
    ASSUME TypeOK, UpStarted, NEW n \in Nodes, NEW p \in Nodes, Up(n)
    PROVE  /\ Offer(n, p) \in Messages
           /\ remote[n][p] # 0 =>
                 Reply("ANSWER", n, p) \in Messages /\ Reply("CANDIDATE", n, p) \in Messages
  BY DEF TypeOK, UpStarted, Messages, Creds, Offer, Reply

\* The inductive invariant holds before any daemon is started.
LEMMA InitIInv == Init => IInv
  <1> SUFFICES ASSUME Init PROVE IInv
    OBVIOUS
  <1> USE NegotiationAssumption
  <1>1. TypeOK
    BY DEF Init, TypeOK, WaiterStates
  <1>2. UpStarted /\ PeersPrepared /\ WaiterHasAgent
    BY DEF Init, UpStarted, Up, PeersPrepared, WaiterHasAgent
  <1>3. CredsIssued /\ ConnOnce /\ LinkSound
    BY DEF Init, CredsIssued, Issued, ConnOnce, LinkSound
  <1>4. QED
    BY <1>1, <1>2, <1>3 DEF IInv

----------------------------------------------------------------------------
\* Each action keeps the types.
LEMMA StepType == IInv /\ [Next]_vars => TypeOK'
  <1> SUFFICES ASSUME IInv, [Next]_vars PROVE TypeOK'
    OBVIOUS
  <1>t. TypeOK /\ UpStarted /\ WaiterHasAgent
    BY DEF IInv
  <1> USE NegotiationAssumption DEF nodeVars, cpVars, iceVars, SetPeer, Crash
  <1>1. ASSUME NEW n \in Nodes, StartDaemon(n) PROVE TypeOK'
    BY <1>t, <1>1 DEF StartDaemon, TypeOK, WaiterStates
  <1>2. ASSUME NEW n \in Nodes,
               \/ StopDaemon(n) \/ ConcurrentMapAccess(n) \/ SetupWithoutStun(n)
        PROVE  TypeOK'
    BY <1>t, <1>2 DEF StopDaemon, ConcurrentMapAccess, SetupWithoutStun, TypeOK
  <1>3. ASSUME NEW n \in Nodes, SyncRemoteNodesConfig(n) PROVE TypeOK'
    BY <1>t, <1>3 DEF SyncRemoteNodesConfig, TypeOK
  <1>4. ASSUME NEW n \in Nodes, NEW p \in Nodes, HandOver(n, p) PROVE TypeOK'
    BY <1>t, <1>4 DEF HandOver, TypeOK
  <1>5. ASSUME NEW n \in Nodes, TakeRemoteConn(n) \/ SkipRemoteConn(n) PROVE TypeOK'
    <2>1. CASE TakeRemoteConn(n)
      BY <1>t, <2>1 DEF TakeRemoteConn, TypeOK
    <2>2. CASE SkipRemoteConn(n)
      BY <1>t, <2>2 DEF SkipRemoteConn, TypeOK
    <2>3. QED
      BY <1>5, <2>1, <2>2
  <1>6. ASSUME NEW n \in Nodes, SetupIce(n) PROVE TypeOK'
    BY <1>t, <1>6 DEF SetupIce, TypeOK, WaiterStates
  <1>7. ASSUME NEW n \in Nodes, SignalOffer(n) PROVE TypeOK'
    <2>1. worker[n] \in Nodes
      BY <1>t, <1>7 DEF SignalOffer, TypeOK
    <2>2. Offer(n, worker[n]) \in Messages
      BY <1>t, <1>7, <2>1, SentAreMessages DEF SignalOffer
    <2>3. QED
      BY <1>t, <1>7, <2>2 DEF SignalOffer, Send, TypeOK
  <1>8. ASSUME NEW n \in Nodes, NEW m \in msgs, ReceiveFromUnknown(n, m) PROVE TypeOK'
    BY <1>t, <1>8 DEF ReceiveFromUnknown, TypeOK
  <1>9. ASSUME NEW n \in Nodes, NEW m \in msgs, ReceiveHandshake(n, m) PROVE TypeOK'
    <2>1. m.src \in Nodes /\ m.cred \in Nat
      BY <1>t, MessageFields
    <2>2. CASE waiter[n][m.src] = "select"
      <3>1. \E s \in {"answer", "gather"} : waiter' = [waiter EXCEPT ![n][m.src] = s]
        BY <1>9, <2>2 DEF ReceiveHandshake
      <3>2. waiter' \in [Nodes -> [Nodes -> WaiterStates]]
        BY <1>t, <2>1, <3>1 DEF TypeOK, WaiterStates
      <3>3. remote' = [remote EXCEPT ![n][m.src] = m.cred]
        BY <1>9, <2>2 DEF ReceiveHandshake
      <3>4. remote' \in [Nodes -> [Nodes -> Nat]]
        BY <1>t, <2>1, <3>3 DEF TypeOK
      <3>5. QED
        BY <1>t, <1>9, <2>2, <3>2, <3>4 DEF ReceiveHandshake, TypeOK
    <2>3. CASE waiter[n][m.src] # "select"
      BY <1>t, <1>9, <2>1, <2>3 DEF ReceiveHandshake, TypeOK
    <2>4. QED
      BY <2>2, <2>3
  <1>10. ASSUME NEW n \in Nodes, NEW m \in msgs, ReceiveCandidate(n, m) PROVE TypeOK'
    <2>1. m.src \in Nodes /\ m.cred \in Creds
      BY <1>t, MessageFields DEF Creds
    <2>2. cands' \in [Nodes -> [Nodes -> SUBSET Creds]]
      BY <1>t, <1>10, <2>1 DEF ReceiveCandidate, TypeOK
    <2>3. QED
      BY <1>t, <1>10, <2>2 DEF ReceiveCandidate, TypeOK
  <1>11. ASSUME NEW m \in msgs, Lose(m) PROVE TypeOK'
    BY <1>t, <1>11 DEF Lose, TypeOK
  <1>12. ASSUME NEW n \in Nodes, NEW p \in Nodes,
                StartWaiting(n, p) \/ GatherFails(n, p) \/ CallFails(n, p) \/ ReportConnected(n, p)
         PROVE  TypeOK'
    <2>1. \E s \in {"select", "exited"} : waiter' = [waiter EXCEPT ![n][p] = s]
      BY <1>12 DEF StartWaiting, GatherFails, CallFails, Exits, ReportConnected
    <2>2. waiter' \in [Nodes -> [Nodes -> WaiterStates]]
      BY <1>t, <2>1 DEF TypeOK, WaiterStates
    <2>3. /\ UNCHANGED <<nodeVars, cpVars, agent, remote, gathered, cands>>
          /\ UNCHANGED <<dialed, starts, linked, msgs>>
      BY <1>12 DEF StartWaiting, GatherFails, CallFails, Exits, ReportConnected
    <2>4. missed' \in BOOLEAN
      BY <1>t, <1>12 DEF StartWaiting, GatherFails, CallFails, Exits, ReportConnected, TypeOK
    <2>5. QED
      BY <1>t, <2>2, <2>3, <2>4 DEF TypeOK
  <1>13. ASSUME NEW n \in Nodes, NEW p \in Nodes, SignalAnswer(n, p) PROVE TypeOK'
    <2>1. Reply("ANSWER", n, p) \in Messages
      BY <1>t, <1>13, SentAreMessages DEF SignalAnswer, WaiterHasAgent
    <2>2. QED
      BY <1>t, <1>13, <2>1 DEF SignalAnswer, Send, TypeOK, WaiterStates
  <1>14. ASSUME NEW n \in Nodes, NEW p \in Nodes, GatherAndStartConn(n, p) PROVE TypeOK'
    <2>1. Reply("CANDIDATE", n, p) \in Messages
      BY <1>t, <1>14, SentAreMessages DEF GatherAndStartConn, WaiterHasAgent
    <2>2. QED
      BY <1>t, <1>14, <2>1 DEF GatherAndStartConn, Send, TypeOK, WaiterStates
  <1>15. ASSUME NEW n \in Nodes, NEW p \in Nodes, IceConnects(n, p) PROVE TypeOK'
    BY <1>t, <1>15 DEF IceConnects, CanConnect, TypeOK, WaiterStates
  <1>16. CASE UNCHANGED vars
    BY <1>t, <1>16 DEF vars, TypeOK
  <1>17. QED
    BY <1>1, <1>2, <1>3, <1>4, <1>5, <1>6, <1>7, <1>8, <1>9, <1>10, <1>11, <1>12,
       <1>13, <1>14, <1>15, <1>16
    DEF Next, OffererStep, WorkerStep, ReceiveStep, Receive, WaiterStep

----------------------------------------------------------------------------
\* Steps that only deliver or drop messages, or add agents, keep every
\* credential issued.
LEMMA CredsFrame ==
    ASSUME IInv, inc' = inc, \A p \in Nodes : agent[p] \subseteq agent'[p],
           msgs' \subseteq msgs, remote' = remote, dialed' = dialed
    PROVE  CredsIssued'
  <1>1. \A m \in msgs' : Issued(m.cred, m.src, m.dst)' /\ Issued(m.re, m.dst, m.src)'
    BY MessageFields, IssuedStable DEF IInv, CredsIssued
  <1>2. \A n, p \in Nodes : Issued(remote[n][p], p, n)' /\ Issued(dialed[n][p], p, n)'
    <2> SUFFICES ASSUME NEW n \in Nodes, NEW p \in Nodes
                 PROVE  Issued(remote[n][p], p, n)' /\ Issued(dialed[n][p], p, n)'
      OBVIOUS
    <2>1. remote[n][p] \in Nat /\ dialed[n][p] \in Nat
      BY DEF IInv, TypeOK
    <2>2. QED
      BY <2>1, IssuedStable DEF IInv, CredsIssued
  <1>3. QED
    BY <1>1, <1>2 DEF CredsIssued

\* A node that has an agent for p, and holds a credential of p or none, may
\* send its own credential to p.
LEMMA SentAreIssued ==
    ASSUME IInv, NEW n \in Nodes, NEW p \in agent[n]
    PROVE  /\ Issued(Offer(n, p).cred, n, p) /\ Issued(Offer(n, p).re, p, n)
           /\ \A t \in {"ANSWER", "CANDIDATE"} :
                 Issued(Reply(t, n, p).cred, n, p) /\ Issued(Reply(t, n, p).re, p, n)
  BY DEF IInv, TypeOK, CredsIssued, Issued, Offer, Reply

\* Sending one more issued message keeps every credential issued.
LEMMA CredsSend ==
    ASSUME IInv, NEW n \in Nodes, NEW p \in agent[n],
           NEW t \in {"ANSWER", "CANDIDATE"},
           \/ msgs' = msgs \cup {Offer(n, p)}
           \/ msgs' = msgs \cup {Reply(t, n, p)},
           inc' = inc, agent' = agent, remote' = remote,
           \A x, y \in Nodes : dialed'[x][y] \in {dialed[x][y], remote[x][y]}
    PROVE  CredsIssued'
  <1>1. \A c, x, y : Issued(c, x, y) => Issued(c, x, y)'
    BY DEF Issued
  <1>2. ASSUME NEW m \in msgs'
        PROVE  Issued(m.cred, m.src, m.dst)' /\ Issued(m.re, m.dst, m.src)'
    <2>1. CASE m \in msgs
      BY <2>1 DEF IInv, CredsIssued, Issued
    <2>2. CASE m = Offer(n, p)
      <3>1. m.src = n /\ m.dst = p
        BY <2>2 DEF Offer
      <3>2. QED
        BY <2>2, <3>1, SentAreIssued DEF Issued
    <2>3. CASE m = Reply(t, n, p)
      <3>1. m.src = n /\ m.dst = p
        BY <2>3 DEF Reply
      <3>2. QED
        BY <2>3, <3>1, SentAreIssued DEF Issued
    <2>4. QED
      BY <1>2, <2>1, <2>2, <2>3
  <1>3. ASSUME NEW x \in Nodes, NEW y \in Nodes
        PROVE  Issued(remote[x][y], y, x)' /\ Issued(dialed[x][y], y, x)'
    BY DEF IInv, CredsIssued, Issued
  <1>4. QED
    BY <1>2, <1>3 DEF CredsIssued

\* Each action keeps every credential issued.
LEMMA StepCreds == IInv /\ [Next]_vars => CredsIssued'
  <1> SUFFICES ASSUME IInv, [Next]_vars PROVE CredsIssued'
    OBVIOUS
  <1>t. TypeOK /\ CredsIssued /\ WaiterHasAgent
    BY DEF IInv
  <1>1. ASSUME NEW n \in Nodes, StartDaemon(n) PROVE CredsIssued'
    <2>0. /\ inc' = [inc EXCEPT ![n] = @ + 1]
          /\ agent' = [agent EXCEPT ![n] = {}]
          /\ msgs' = msgs
          /\ remote' = [remote EXCEPT ![n] = [p \in Nodes |-> 0]]
          /\ dialed' = [dialed EXCEPT ![n] = [p \in Nodes |-> 0]]
      BY <1>1 DEF StartDaemon
    <2>1. ASSUME NEW c \in Nat, NEW p \in Nodes, NEW x \in Nodes, Issued(c, p, x) \/ c = 0
          PROVE  c <= inc'[p] /\ (c # 0 /\ c = inc'[p] => x \in agent'[p])
      BY <1>t, <2>0, <2>1 DEF Issued, TypeOK
    <2>2. \A m \in msgs' : Issued(m.cred, m.src, m.dst)' /\ Issued(m.re, m.dst, m.src)'
      BY <1>t, <2>0, <2>1, MessageFields DEF CredsIssued, Issued
    <2>3. ASSUME NEW x \in Nodes, NEW p \in Nodes
          PROVE  Issued(remote[x][p], p, x)' /\ Issued(dialed[x][p], p, x)'
      <3>1. /\ remote'[x][p] \in Nat /\ (remote'[x][p] = 0 \/ remote'[x][p] = remote[x][p])
            /\ dialed'[x][p] \in Nat /\ (dialed'[x][p] = 0 \/ dialed'[x][p] = dialed[x][p])
        BY <1>t, <2>0 DEF TypeOK
      <3>2. QED
        BY <1>t, <2>1, <3>1 DEF CredsIssued, Issued
    <2>4. QED
      BY <2>2, <2>3 DEF CredsIssued
  <1>2. ASSUME NEW n \in Nodes,
               \/ StopDaemon(n) \/ ConcurrentMapAccess(n) \/ SetupWithoutStun(n)
               \/ SyncRemoteNodesConfig(n) \/ TakeRemoteConn(n) \/ SkipRemoteConn(n)
        PROVE  CredsIssued'
    BY <1>2, CredsFrame DEF StopDaemon, ConcurrentMapAccess, SetupWithoutStun,
       SyncRemoteNodesConfig, TakeRemoteConn, SkipRemoteConn, iceVars, nodeVars
  <1>3. ASSUME NEW n \in Nodes, NEW p \in Nodes,
               \/ HandOver(n, p) \/ StartWaiting(n, p) \/ GatherFails(n, p) \/ CallFails(n, p)
               \/ ReportConnected(n, p) \/ IceConnects(n, p)
        PROVE  CredsIssued'
    BY <1>3, CredsFrame DEF HandOver, StartWaiting, GatherFails, CallFails, Exits, ReportConnected,
       IceConnects, iceVars, nodeVars
  <1>4. ASSUME NEW n \in Nodes, SetupIce(n) PROVE CredsIssued'
    <2>1. \A p \in Nodes : agent[p] \subseteq agent'[p]
      BY <1>t, <1>4 DEF SetupIce, TypeOK
    <2>2. QED
      BY <1>4, <2>1, CredsFrame DEF SetupIce, nodeVars
  <1>5. ASSUME NEW n \in Nodes, SignalOffer(n) PROVE CredsIssued'
    <2>1. worker[n] \in agent[n] /\ msgs' = msgs \cup {Offer(n, worker[n])}
      BY <1>5 DEF SignalOffer, Send
    <2>2. inc' = inc /\ agent' = agent /\ remote' = remote /\ dialed' = dialed
      BY <1>5 DEF SignalOffer, iceVars, nodeVars
    <2>3. QED
      BY <2>1, <2>2, CredsSend
  <1>6. ASSUME NEW n \in Nodes, NEW m \in msgs,
               ReceiveFromUnknown(n, m) \/ ReceiveCandidate(n, m)
        PROVE  CredsIssued'
    BY <1>6, CredsFrame DEF ReceiveFromUnknown, ReceiveCandidate, iceVars, nodeVars
  <1>7. ASSUME NEW n \in Nodes, NEW m \in msgs, ReceiveHandshake(n, m) PROVE CredsIssued'
    <2>0. inc' = inc /\ agent' = agent /\ dialed' = dialed /\ msgs' \subseteq msgs
      BY <1>7 DEF ReceiveHandshake, nodeVars
    <2>1. CASE remote' = remote
      BY <2>0, <2>1, CredsFrame
    <2>2. CASE remote' = [remote EXCEPT ![n][m.src] = m.cred]
      <3>1. m.src \in Nodes /\ m.dst = n
        BY <1>t, <1>7, MessageFields DEF ReceiveHandshake
      <3>2. \A x \in msgs' : Issued(x.cred, x.src, x.dst)' /\ Issued(x.re, x.dst, x.src)'
        BY <1>t, <2>0 DEF CredsIssued, Issued
      <3>3. ASSUME NEW x \in Nodes, NEW p \in Nodes
            PROVE  Issued(remote[x][p], p, x)' /\ Issued(dialed[x][p], p, x)'
        <4>1. CASE x = n /\ p = m.src
          BY <1>t, <2>0, <2>2, <3>1, <4>1 DEF CredsIssued, Issued, TypeOK
        <4>2. CASE ~(x = n /\ p = m.src)
          <5>1. remote'[x][p] = remote[x][p]
            BY <1>t, <2>2, <4>2 DEF TypeOK
          <5>2. QED
            BY <1>t, <2>0, <5>1 DEF CredsIssued, Issued
        <4>3. QED
          BY <4>1, <4>2
      <3>4. QED
        BY <3>2, <3>3 DEF CredsIssued
    <2>3. QED
      BY <1>7, <2>1, <2>2 DEF ReceiveHandshake, SetPeer
  <1>8. ASSUME NEW n \in Nodes, NEW p \in Nodes, SignalAnswer(n, p) PROVE CredsIssued'
    <2>1. p \in agent[n] /\ msgs' = msgs \cup {Reply("ANSWER", n, p)}
      BY <1>t, <1>8 DEF SignalAnswer, Send, WaiterHasAgent
    <2>2. inc' = inc /\ agent' = agent /\ remote' = remote /\ dialed' = dialed
      BY <1>8 DEF SignalAnswer, nodeVars
    <2>3. QED
      BY <2>1, <2>2, CredsSend
  <1>9. ASSUME NEW n \in Nodes, NEW p \in Nodes, GatherAndStartConn(n, p) PROVE CredsIssued'
    <2>1. p \in agent[n] /\ msgs' = msgs \cup {Reply("CANDIDATE", n, p)}
      BY <1>t, <1>9 DEF GatherAndStartConn, Send, WaiterHasAgent
    <2>2. inc' = inc /\ agent' = agent /\ remote' = remote
      BY <1>9 DEF GatherAndStartConn, nodeVars
    <2>3. \A x, y \in Nodes : dialed'[x][y] \in {dialed[x][y], remote[x][y]}
      BY <1>t, <1>9 DEF GatherAndStartConn, SetPeer, TypeOK
    <2>4. QED
      BY <2>1, <2>2, <2>3, CredsSend
  <1>10. ASSUME NEW m \in msgs, Lose(m) PROVE CredsIssued'
    BY <1>10, CredsFrame DEF Lose, iceVars, nodeVars
  <1>11. CASE UNCHANGED vars
    BY <1>11, CredsFrame DEF vars, iceVars, nodeVars
  <1>12. QED
    BY <1>1, <1>2, <1>3, <1>4, <1>5, <1>6, <1>7, <1>8, <1>9, <1>10, <1>11
    DEF Next, OffererStep, WorkerStep, ReceiveStep, Receive, WaiterStep

----------------------------------------------------------------------------
\* What one node keeps about itself: its daemon was started, its peers are in
\* peerConns, its waiters have agents, and its Conns were started once.
LocalInv == UpStarted /\ PeersPrepared /\ WaiterHasAgent /\ ConnOnce

\* Each action keeps the node-local part of the invariant.
LEMMA StepLocal == IInv /\ [Next]_vars => LocalInv'
  <1> SUFFICES ASSUME IInv, [Next]_vars PROVE LocalInv'
    OBVIOUS
  <1>t. TypeOK /\ LocalInv
    BY DEF IInv, LocalInv
  <1> USE NegotiationAssumption DEF LocalInv, nodeVars, cpVars, iceVars, SetPeer, Crash, Up
  <1>1. ASSUME NEW n \in Nodes, StartDaemon(n) PROVE LocalInv'
    <2>1. UpStarted'
      BY <1>t, <1>1 DEF StartDaemon, TypeOK, UpStarted
    <2>2. PeersPrepared'
      BY <1>t, <1>1 DEF StartDaemon, TypeOK, PeersPrepared
    <2>3. WaiterHasAgent'
      BY <1>t, <1>1 DEF StartDaemon, TypeOK, WaiterHasAgent
    <2>4. ConnOnce'
      BY <1>t, <1>1 DEF StartDaemon, TypeOK, ConnOnce
    <2>5. QED
      BY <2>1, <2>2, <2>3, <2>4
  <1>2. ASSUME NEW n \in Nodes,
               \/ StopDaemon(n) \/ ConcurrentMapAccess(n) \/ SetupWithoutStun(n)
        PROVE  LocalInv'
    BY <1>t, <1>2 DEF StopDaemon, ConcurrentMapAccess, SetupWithoutStun, TypeOK,
       UpStarted, PeersPrepared, WaiterHasAgent, ConnOnce
  <1>3. ASSUME NEW n \in Nodes, SyncRemoteNodesConfig(n) PROVE LocalInv'
    BY <1>t, <1>3 DEF SyncRemoteNodesConfig, UpStarted, PeersPrepared, WaiterHasAgent, ConnOnce
  <1>4. ASSUME NEW n \in Nodes, NEW p \in Nodes, HandOver(n, p) PROVE LocalInv'
    <2>1. PeersPrepared'
      BY <1>t, <1>4 DEF HandOver, TypeOK, PeersPrepared
    <2>2. QED
      BY <1>t, <1>4, <2>1 DEF HandOver, UpStarted, WaiterHasAgent, ConnOnce
  <1>5. ASSUME NEW n \in Nodes, TakeRemoteConn(n) PROVE LocalInv'
    <2>1. PeersPrepared'
      BY <1>t, <1>5 DEF TakeRemoteConn, TypeOK, PeersPrepared
    <2>2. QED
      BY <1>t, <1>5, <2>1 DEF TakeRemoteConn, UpStarted, WaiterHasAgent, ConnOnce
  <1>6. ASSUME NEW n \in Nodes, SkipRemoteConn(n) \/ SignalOffer(n) PROVE LocalInv'
    <2>1. PeersPrepared'
      BY <1>t, <1>6 DEF SkipRemoteConn, SignalOffer, TypeOK, PeersPrepared
    <2>2. QED
      BY <1>t, <1>6, <2>1 DEF SkipRemoteConn, SignalOffer, UpStarted, WaiterHasAgent, ConnOnce
  <1>7. ASSUME NEW n \in Nodes, SetupIce(n) PROVE LocalInv'
    <2>1. PeersPrepared'
      BY <1>t, <1>7 DEF SetupIce, TypeOK, PeersPrepared
    <2>2. WaiterHasAgent'
      BY <1>t, <1>7 DEF SetupIce, TypeOK, WaiterHasAgent
    <2>3. QED
      BY <1>t, <1>7, <2>1, <2>2 DEF SetupIce, UpStarted, ConnOnce
  <1>8. ASSUME NEW n \in Nodes, NEW m \in msgs, ReceiveFromUnknown(n, m) PROVE LocalInv'
    BY <1>t, <1>8 DEF ReceiveFromUnknown, TypeOK, UpStarted, PeersPrepared,
       WaiterHasAgent, ConnOnce
  <1>9. ASSUME NEW n \in Nodes, NEW m \in msgs, ReceiveCandidate(n, m) PROVE LocalInv'
    BY <1>t, <1>9 DEF ReceiveCandidate, UpStarted, PeersPrepared, WaiterHasAgent, ConnOnce
  <1>10. ASSUME NEW n \in Nodes, NEW m \in msgs, ReceiveHandshake(n, m) PROVE LocalInv'
    <2>1. m.src \in Nodes /\ m.cred # 0
      BY <1>t, MessageFields
    <2>2. WaiterHasAgent'
      <3>1. CASE waiter[n][m.src] = "select"
        <4>1. \E s \in {"answer", "gather"} : waiter' = [waiter EXCEPT ![n][m.src] = s]
          BY <1>10, <3>1 DEF ReceiveHandshake
        <4>2. remote' = [remote EXCEPT ![n][m.src] = m.cred] /\ agent' = agent
          BY <1>10, <3>1 DEF ReceiveHandshake
        <4>3. QED
          BY <1>t, <2>1, <3>1, <4>1, <4>2 DEF TypeOK, WaiterHasAgent
      <3>2. CASE waiter[n][m.src] # "select"
        BY <1>t, <1>10, <3>2 DEF ReceiveHandshake, WaiterHasAgent
      <3>3. QED
        BY <3>1, <3>2
    <2>3. QED
      BY <1>t, <1>10, <2>2 DEF ReceiveHandshake, UpStarted, PeersPrepared, ConnOnce
  <1>11. ASSUME NEW m \in msgs, Lose(m) PROVE LocalInv'
    BY <1>t, <1>11 DEF Lose, UpStarted, PeersPrepared, WaiterHasAgent, ConnOnce
  <1>12. ASSUME NEW n \in Nodes, NEW p \in Nodes,
                \/ StartWaiting(n, p) \/ GatherFails(n, p) \/ CallFails(n, p) \/ ReportConnected(n, p)
                \/ SignalAnswer(n, p) \/ IceConnects(n, p)
         PROVE  LocalInv'
    <2>1. /\ waiter[n][p] # "none" /\ (waiter[n][p] = "gather" => p \in gathered[n] \/ Lossy)
          /\ \E s \in {"select", "exited", "report", "gather"} :
                /\ waiter' = [waiter EXCEPT ![n][p] = s]
                /\ s = "gather" => waiter[n][p] = "answer"
      BY <1>12 DEF StartWaiting, GatherFails, CallFails, Exits, ReportConnected, SignalAnswer,
         IceConnects, CanConnect
    <2>2. /\ UNCHANGED <<proc, inc, known, hand, worker, agent, remote>>
          /\ UNCHANGED <<gathered, dialed, starts>>
      BY <1>12 DEF StartWaiting, GatherFails, CallFails, Exits, ReportConnected, SignalAnswer,
         IceConnects, CanConnect
    <2>3. WaiterHasAgent'
      BY <1>t, <2>1, <2>2 DEF TypeOK, WaiterHasAgent
    <2>4. QED
      BY <1>t, <2>2, <2>3 DEF UpStarted, PeersPrepared, ConnOnce
  <1>13. ASSUME NEW n \in Nodes, NEW p \in Nodes, GatherAndStartConn(n, p) PROVE LocalInv'
    <2>1. WaiterHasAgent'
      BY <1>t, <1>13 DEF GatherAndStartConn, TypeOK, WaiterHasAgent
    <2>2. ConnOnce'
      BY <1>t, <1>13 DEF GatherAndStartConn, TypeOK, ConnOnce
    <2>3. QED
      BY <1>t, <1>13, <2>1, <2>2 DEF GatherAndStartConn, UpStarted, PeersPrepared
  <1>14. CASE UNCHANGED vars
    BY <1>t, <1>14 DEF vars, UpStarted, PeersPrepared, WaiterHasAgent, ConnOnce
  <1>15. QED
    BY <1>1, <1>2, <1>3, <1>4, <1>5, <1>6, <1>7, <1>8, <1>9, <1>10, <1>11, <1>12,
       <1>13, <1>14
    DEF Next, OffererStep, WorkerStep, ReceiveStep, Receive, WaiterStep

----------------------------------------------------------------------------
\* Steps that start no Conn, link nobody and restart nobody keep the links.
LEMMA LinkFrame ==
    ASSUME IInv, inc' = inc, dialed' = dialed, linked' = linked,
           \A p \in Nodes : agent[p] \subseteq agent'[p]
    PROVE  LinkSound'
  BY DEF IInv, LinkSound

\* Each action keeps the links sound.
LEMMA StepLink == IInv /\ [Next]_vars => LinkSound'
  <1> SUFFICES ASSUME IInv, [Next]_vars PROVE LinkSound'
    OBVIOUS
  <1>t. TypeOK /\ CredsIssued /\ ConnOnce /\ LinkSound /\ UpStarted
    BY DEF IInv
  <1>1. ASSUME NEW n \in Nodes, StartDaemon(n) PROVE LinkSound'
    <2>0. /\ inc' = [inc EXCEPT ![n] = @ + 1]
          /\ agent' = [agent EXCEPT ![n] = {}]
          /\ dialed' = [dialed EXCEPT ![n] = [p \in Nodes |-> 0]]
          /\ linked' = [linked EXCEPT ![n] = {}]
      BY <1>1 DEF StartDaemon
    <2> SUFFICES ASSUME NEW x \in Nodes, NEW p \in Nodes, p \in linked'[x]
                 PROVE  /\ inc'[x] # 0 /\ dialed'[x][p] # 0
                        /\ dialed'[x][p] = inc'[p] =>
                              x \in agent'[p] /\ dialed'[p][x] = inc'[x]
      BY DEF LinkSound
    <2>1. x # n /\ p \in linked[x] /\ dialed'[x] = dialed[x] /\ inc'[x] = inc[x]
      BY <1>t, <2>0 DEF TypeOK
    <2>2. CASE p = n
      <3>1. dialed[x][n] <= inc[n] /\ inc'[n] = inc[n] + 1 /\ dialed[x][n] \in Nat /\ inc[n] \in Nat
        BY <1>t, <2>0 DEF TypeOK, CredsIssued, Issued
      <3>2. QED
        BY <1>t, <2>1, <2>2, <3>1 DEF LinkSound
    <2>3. CASE p # n
      BY <1>t, <2>0, <2>1, <2>3 DEF LinkSound, TypeOK
    <2>4. QED
      BY <2>2, <2>3
  <1>2. ASSUME NEW n \in Nodes,
               \/ StopDaemon(n) \/ ConcurrentMapAccess(n) \/ SetupWithoutStun(n)
               \/ SyncRemoteNodesConfig(n) \/ TakeRemoteConn(n) \/ SkipRemoteConn(n)
               \/ SignalOffer(n)
        PROVE  LinkSound'
    BY <1>2, LinkFrame DEF StopDaemon, ConcurrentMapAccess, SetupWithoutStun,
       SyncRemoteNodesConfig, TakeRemoteConn, SkipRemoteConn, SignalOffer, iceVars, nodeVars
  <1>3. ASSUME NEW n \in Nodes, NEW p \in Nodes,
               \/ HandOver(n, p) \/ StartWaiting(n, p) \/ GatherFails(n, p) \/ CallFails(n, p)
               \/ ReportConnected(n, p) \/ SignalAnswer(n, p)
        PROVE  LinkSound'
    BY <1>3, LinkFrame DEF HandOver, StartWaiting, GatherFails, CallFails, Exits, ReportConnected,
       SignalAnswer, iceVars, nodeVars
  <1>4. ASSUME NEW n \in Nodes, SetupIce(n) PROVE LinkSound'
    <2>1. \A p \in Nodes : agent[p] \subseteq agent'[p]
      BY <1>t, <1>4 DEF SetupIce, TypeOK
    <2>2. QED
      BY <1>4, <2>1, LinkFrame DEF SetupIce, nodeVars
  <1>5. ASSUME NEW n \in Nodes, NEW m \in msgs, Receive(n, m) PROVE LinkSound'
    BY <1>5, LinkFrame DEF Receive, ReceiveFromUnknown, ReceiveHandshake,
       ReceiveCandidate, iceVars, nodeVars
  <1>6. ASSUME NEW m \in msgs, Lose(m) PROVE LinkSound'
    BY <1>6, LinkFrame DEF Lose, iceVars, nodeVars
  <1>7. ASSUME NEW n \in Nodes, NEW p \in Nodes, GatherAndStartConn(n, p) PROVE LinkSound'
    <2>0. /\ inc' = inc /\ agent' = agent /\ linked' = linked
          /\ dialed' = [dialed EXCEPT ![n][p] = remote[n][p]]
          /\ dialed[n][p] = 0 /\ remote[n][p] # 0
      BY <1>t, <1>7 DEF IInv, GatherAndStartConn, ConnOnce, WaiterHasAgent, SetPeer, nodeVars
    <2> SUFFICES ASSUME NEW x \in Nodes, NEW y \in Nodes, y \in linked[x]
                 PROVE  /\ inc[x] # 0 /\ dialed'[x][y] # 0
                        /\ dialed'[x][y] = inc[y] =>
                              x \in agent[y] /\ dialed'[y][x] = inc[x]
      BY <2>0 DEF LinkSound
    <2>1. inc[x] # 0 /\ dialed[x][y] # 0
      BY <1>t DEF LinkSound
    <2>2. dialed'[x][y] = dialed[x][y]
      BY <1>t, <2>0, <2>1 DEF TypeOK
    <2>3. SUFFICES ASSUME dialed[x][y] = inc[y]
                   PROVE  x \in agent[y] /\ dialed'[y][x] = inc[x]
      BY <2>1, <2>2
    <2>4. x \in agent[y] /\ dialed[y][x] = inc[x]
      BY <1>t, <2>3 DEF LinkSound
    <2>5. dialed'[y][x] = dialed[y][x]
      BY <1>t, <2>0, <2>1, <2>4 DEF TypeOK
    <2>6. QED
      BY <2>4, <2>5
  <1>8. ASSUME NEW n \in Nodes, NEW p \in Nodes, IceConnects(n, p) PROVE LinkSound'
    <2>0. /\ inc' = inc /\ agent' = agent /\ dialed' = dialed
          /\ linked' = [linked EXCEPT ![n] = @ \cup {p}]
          /\ dialed[n][p] = inc[p] /\ dialed[p][n] = inc[n] /\ Up(n) /\ Up(p)
      BY <1>8 DEF IceConnects, CanConnect, nodeVars
    <2>1. inc[n] # 0 /\ inc[p] # 0
      BY <1>t, <2>0 DEF UpStarted
    <2>2. n \in agent[p]
      BY <1>t, <2>0, <2>1 DEF CredsIssued, Issued
    <2> SUFFICES ASSUME NEW x \in Nodes, NEW y \in Nodes, y \in linked'[x]
                 PROVE  /\ inc[x] # 0 /\ dialed[x][y] # 0
                        /\ dialed[x][y] = inc[y] => x \in agent[y] /\ dialed[y][x] = inc[x]
      BY <2>0 DEF LinkSound
    <2>3. y \in linked[x] \/ (x = n /\ y = p)
      BY <1>t, <2>0 DEF TypeOK
    <2>4. QED
      BY <1>t, <2>0, <2>1, <2>2, <2>3 DEF LinkSound
  <1>9. CASE UNCHANGED vars
    BY <1>9, LinkFrame DEF vars, iceVars, nodeVars
  <1>10. QED
    BY <1>1, <1>2, <1>3, <1>4, <1>5, <1>6, <1>7, <1>8, <1>9
    DEF Next, OffererStep, WorkerStep, ReceiveStep, WaiterStep

----------------------------------------------------------------------------
\* The inductive invariant holds in every reachable state.
THEOREM InductiveInvariant == Spec => []IInv
  <1>1. IInv /\ [Next]_vars => IInv'
    BY StepType, StepCreds, StepLocal, StepLink DEF IInv, LocalInv
  <1>2. QED
    BY InitIInv, <1>1, PTL DEF Spec

\* Type correctness of the negotiation.
THEOREM TypeCorrect == Spec => []TypeOK
  BY InductiveInvariant, PTL DEF IInv

\* Every answer and every candidate to the running daemon finds its peer in
\* peerConns and its agent set up, on every node.
THEOREM RepliesCorrect == Spec => []RepliesFindTheirAgent
  <1>1. IInv => RepliesFindTheirAgent
    <2> SUFFICES ASSUME IInv, NEW m \in msgs, m.type \in {"ANSWER", "CANDIDATE"},
                        m.re = inc[m.dst], Up(m.dst)
                 PROVE  m.src \in known[m.dst] /\ m.src \in agent[m.dst]
      BY DEF RepliesFindTheirAgent
    <2>1. m.dst \in Nodes /\ m.re # 0
      BY MessageFields DEF IInv, UpStarted
    <2>2. m.src \in agent[m.dst]
      BY <2>1 DEF IInv, CredsIssued, Issued
    <2>3. QED
      BY <2>1, <2>2 DEF IInv, PeersPrepared
  <1>2. QED
    BY <1>1, InductiveInvariant, PTL

\* No sequence of offers and answers makes an Ice start a second Conn.
THEOREM OneConnCorrect == Spec => []OneConnPerPeer
  <1>1. IInv => OneConnPerPeer
    BY DEF IInv, ConnOnce, OneConnPerPeer
  <1>2. QED
    BY <1>1, InductiveInvariant, PTL

\* Both ends of a link between running daemons agree about it.
THEOREM LinkCorrect == Spec => []LinkAgrees
  <1>1. IInv => LinkAgrees
    BY DEF IInv, LinkSound, LinkAgrees
  <1>2. QED
    BY <1>1, InductiveInvariant, PTL

----------------------------------------------------------------------------
\* Steps that restart, dial and link nobody leave the abstract links alone.
LEMMA AbstractFrame ==
    ASSUME inc' = inc, dialed' = dialed, linked' = linked
    PROVE  inc' = inc /\ LinkedStart' = LinkedStart
  BY DEF LinkedStart

\* Every step makes an abstract start, an abstract half of a link, or none.
LEMMA StepImplementsLink ==
    IInv /\ [Next]_vars => [AbstractLink!LNext]_<<inc, LinkedStart>>
  <1> SUFFICES ASSUME IInv, [Next]_vars PROVE [AbstractLink!LNext]_<<inc, LinkedStart>>
    OBVIOUS
  <1>t. TypeOK /\ ConnOnce /\ LinkSound /\ UpStarted
    BY DEF IInv
  <1>1. ASSUME NEW n \in Nodes, StartDaemon(n) PROVE AbstractLink!LStart(n)
    <2>1. /\ inc' = [inc EXCEPT ![n] = @ + 1]
          /\ dialed' = [dialed EXCEPT ![n] = [p \in Nodes |-> 0]]
          /\ linked' = [linked EXCEPT ![n] = {}]
      BY <1>1 DEF StartDaemon
    <2>2. ASSUME NEW x \in Nodes
          PROVE  LinkedStart'[x] = IF x = n THEN [p \in Nodes |-> 0] ELSE LinkedStart[x]
      BY <1>t, <2>1 DEF LinkedStart, TypeOK
    <2>3. LinkedStart' = [LinkedStart EXCEPT ![n] = [p \in Nodes |-> 0]]
      BY <2>2 DEF LinkedStart
    <2>4. QED
      BY <2>1, <2>3 DEF AbstractLink!LStart
  <1>2. ASSUME NEW n \in Nodes, NEW p \in Nodes, IceConnects(n, p)
        PROVE  AbstractLink!LConnect(n, p) \/ (LinkedStart' = LinkedStart /\ inc' = inc)
    <2>1. /\ inc' = inc /\ dialed' = dialed
          /\ linked' = [linked EXCEPT ![n] = @ \cup {p}]
          /\ dialed[n][p] = inc[p] /\ dialed[p][n] = inc[n] /\ Up(p)
      BY <1>2 DEF IceConnects, CanConnect, nodeVars
    <2>2. CASE p \in linked[n]
      <3>1. linked' = linked
        BY <1>t, <2>1, <2>2 DEF TypeOK
      <3>2. QED
        BY <2>1, <3>1, AbstractFrame
    <2>3. CASE p \notin linked[n]
      <3>1. LinkedStart[n][p] = 0 /\ inc[p] # 0
        BY <1>t, <2>1, <2>3 DEF LinkedStart, UpStarted
      <3>2. LinkedStart[p][n] \in {0, inc[n]}
        BY <2>1 DEF LinkedStart
      <3>3. ASSUME NEW x \in Nodes, NEW y \in Nodes
            PROVE  LinkedStart'[x][y] = IF x = n /\ y = p THEN inc[p] ELSE LinkedStart[x][y]
        BY <1>t, <2>1 DEF LinkedStart, TypeOK
      <3>4. ASSUME NEW x \in Nodes
            PROVE  LinkedStart'[x] = [LinkedStart EXCEPT ![n][p] = inc[p]][x]
        <4>1. /\ DOMAIN LinkedStart = Nodes /\ DOMAIN LinkedStart[x] = Nodes
              /\ LinkedStart[x] = [y \in Nodes |-> LinkedStart[x][y]]
              /\ LinkedStart'[x] = [y \in Nodes |-> LinkedStart'[x][y]]
          BY DEF LinkedStart
        <4>2. QED
          BY <3>3, <4>1
      <3>5. LinkedStart' = [LinkedStart EXCEPT ![n][p] = inc[p]]
        <4>1. /\ LinkedStart = [x \in Nodes |-> LinkedStart[x]]
              /\ LinkedStart' = [x \in Nodes |-> LinkedStart'[x]]
          BY DEF LinkedStart
        <4>2. QED
          BY <3>4, <4>1
      <3>6. QED
        BY <2>1, <3>1, <3>2, <3>5 DEF AbstractLink!LConnect
    <2>4. QED
      BY <2>2, <2>3
  <1>3. ASSUME NEW n \in Nodes, NEW p \in Nodes, GatherAndStartConn(n, p)
        PROVE  LinkedStart' = LinkedStart /\ inc' = inc
    <2>1. /\ inc' = inc /\ linked' = linked
          /\ dialed' = [dialed EXCEPT ![n][p] = remote[n][p]]
          /\ dialed[n][p] = 0
      BY <1>t, <1>3 DEF GatherAndStartConn, ConnOnce, SetPeer, nodeVars
    <2>2. p \notin linked[n]
      BY <1>t, <2>1 DEF LinkSound
    <2>3. ASSUME NEW x \in Nodes, NEW y \in Nodes, y \in linked[x]
          PROVE  dialed'[x][y] = dialed[x][y]
      BY <1>t, <2>1, <2>2, <2>3 DEF TypeOK
    <2>4. QED
      BY <2>1, <2>3 DEF LinkedStart
  <1>4. ASSUME NEW n \in Nodes,
               \/ StopDaemon(n) \/ ConcurrentMapAccess(n) \/ SetupWithoutStun(n)
               \/ SyncRemoteNodesConfig(n) \/ TakeRemoteConn(n) \/ SkipRemoteConn(n)
               \/ SignalOffer(n) \/ SetupIce(n)
        PROVE  LinkedStart' = LinkedStart /\ inc' = inc
    BY <1>4, AbstractFrame DEF StopDaemon, ConcurrentMapAccess, SetupWithoutStun, SetupIce,
       SyncRemoteNodesConfig, TakeRemoteConn, SkipRemoteConn, SignalOffer, iceVars, nodeVars
  <1>5. ASSUME NEW n \in Nodes, NEW p \in Nodes,
               \/ HandOver(n, p) \/ StartWaiting(n, p) \/ GatherFails(n, p) \/ CallFails(n, p)
               \/ ReportConnected(n, p) \/ SignalAnswer(n, p)
        PROVE  LinkedStart' = LinkedStart /\ inc' = inc
    BY <1>5, AbstractFrame DEF HandOver, StartWaiting, GatherFails, CallFails, Exits, ReportConnected,
       SignalAnswer, iceVars, nodeVars
  <1>6. ASSUME NEW n \in Nodes, NEW m \in msgs, Receive(n, m)
        PROVE  LinkedStart' = LinkedStart /\ inc' = inc
    BY <1>6, AbstractFrame DEF Receive, ReceiveFromUnknown, ReceiveHandshake,
       ReceiveCandidate, iceVars, nodeVars
  <1>7. ASSUME NEW m \in msgs, Lose(m) PROVE LinkedStart' = LinkedStart /\ inc' = inc
    BY <1>7, AbstractFrame DEF Lose, iceVars, nodeVars
  <1>8. CASE UNCHANGED vars
    BY <1>8, AbstractFrame DEF vars, iceVars, nodeVars
  <1>9. QED
    BY <1>1, <1>2, <1>3, <1>4, <1>5, <1>6, <1>7, <1>8
    DEF Next, OffererStep, WorkerStep, ReceiveStep, WaiterStep, AbstractLink!LNext

\* Offers, answers, candidates, agents and restarts together implement the
\* abstract links, for any set of nodes, any number of starts and any loss.
THEOREM LinkRefinement == Spec => ImplementsLink
  <1>1. Init => AbstractLink!LInit
    BY DEF Init, AbstractLink!LInit, LinkedStart
  <1>2. QED
    BY <1>1, InductiveInvariant, StepImplementsLink, PTL
    DEF Spec, ImplementsLink, AbstractLink!LSpec, AbstractLink!linkVars

----------------------------------------------------------------------------
(* No stall.  While no daemon was stopped and nothing was dropped,         *)
(* something carries the handshake of every two nodes on, until both have  *)
(* dialled.                                                                *)

\* No daemon was stopped, crashed or started again, and nothing was dropped,
\* lost or failed.
Fresh == ~missed /\ \A n \in Nodes : inc[n] = 0 \/ (inc[n] = 1 /\ Up(n))

\* n has left its select for p: it has taken p's credentials.
Engaged(n, p) == waiter[n][p] \in {"answer", "gather", "dial", "report"} \/ p \in gathered[n]

\* n has still to make its offer to p.
Pending(n, p) == ~synced[n] \/ p \in todo[n] \/ hand[n] = p \/ worker[n] = p

\* A message of type t from n to p is in flight.
InFlight(t, n, p) == \E m \in msgs : m.type = t /\ m.src = n /\ m.dst = p

\* Where a goroutine can be: a peer without one waits to be set up, only a
\* running node has agents, and one that has gathered is in conn.Start or
\* linked.
WaiterStages(n, p) ==
    /\ p \in known[n] /\ waiter[n][p] = "none" => hand[n] = p \/ worker[n] = p
    /\ p \in agent[n] \/ p \in gathered[n] => Up(n) /\ waiter[n][p] # "none"
    /\ waiter[n][p] \in {"dial", "report", "exited"} => p \in gathered[n]
    /\ p \in gathered[n] => dialed[n][p] # 0 /\ (waiter[n][p] = "dial" \/ p \in linked[n])

\* Some offer between two running nodes is still to be made, is on its way,
\* or was taken.
OfferCarried(n, p) ==
    Up(n) /\ Up(p) /\ n # p =>
        \/ Pending(n, p) \/ Pending(p, n)
        \/ InFlight("OFFER", n, p) \/ InFlight("OFFER", p, n)
        \/ Engaged(n, p) \/ Engaged(p, n)

\* Whoever took the peer's credentials answers, has its answer on the way, or
\* the peer took its credentials too; and only such a node has answered.
AnswerCarried(n, p) ==
    /\ Engaged(n, p) => Engaged(p, n) \/ waiter[n][p] = "answer" \/ InFlight("ANSWER", n, p)
    /\ InFlight("ANSWER", n, p) => Engaged(n, p)

\* The candidates of an agent that has gathered are on the way or arrived.
CandidateCarried(n, p) ==
    p \in gathered[n] => InFlight("CANDIDATE", n, p) \/ inc[n] \in cands[p][n]

\* The server lists every running node.
UpListed == \A n \in Nodes : Up(n) => n \in listed

\* The inductive invariant of undisturbed first starts.
Carried ==
    Fresh =>
        /\ UpListed
        /\ \A n, p \in Nodes :
              /\ WaiterStages(n, p)
              /\ OfferCarried(n, p)
              /\ AnswerCarried(n, p)
              /\ CandidateCarried(n, p)

\* The steps that leave daemons undisturbed.
FreshNext ==
    \/ \E n \in Nodes :
          \/ StartDaemon(n) /\ inc[n] = 0
          \/ SyncRemoteNodesConfig(n)
          \/ TakeRemoteConn(n)
          \/ SetupIce(n)
          \/ SignalOffer(n)
          \/ \E m \in msgs : ReceiveHandshake(n, m) \/ ReceiveCandidate(n, m)
    \/ \E n, p \in Nodes :
          \/ HandOver(n, p)
          \/ WaiterStep(n, p)
          \/ GatherFails(n, p)
          \/ IceConnects(n, p)
    \/ \E m \in msgs : Lose(m) /\ ~Up(m.dst)
    \/ UNCHANGED vars

\* Once a daemon was stopped or something dropped, that stays so.
LEMMA FreshStable == IInv /\ [Next]_vars /\ Fresh' => Fresh /\ FreshNext
  <1> SUFFICES ASSUME IInv, [Next]_vars, Fresh' PROVE Fresh /\ FreshNext
    OBVIOUS
  <1>t. TypeOK /\ UpStarted
    BY DEF IInv
  <1> DEFINE Steady == missed' = missed /\ proc' = proc /\ inc' = inc
  <1>s. ASSUME Steady PROVE Fresh
    BY <1>s DEF Fresh, Up
  <1>1. ASSUME NEW n \in Nodes, StartDaemon(n) PROVE Fresh /\ inc[n] = 0
    <2>1. /\ proc' = [proc EXCEPT ![n] = "up"] /\ inc' = [inc EXCEPT ![n] = @ + 1]
          /\ missed' = missed
      BY <1>1 DEF StartDaemon
    <2>2. inc[n] + 1 \in {0, 1} /\ inc[n] \in Nat
      BY <1>t, <2>1 DEF TypeOK, Fresh
    <2>3. QED
      BY <1>t, <2>1, <2>2 DEF TypeOK, Fresh, Up
  <1>2. ASSUME NEW n \in Nodes, Up(n), inc' = inc, proc'[n] # "up" PROVE FALSE
    BY <1>t, <1>2 DEF UpStarted, Fresh, Up
  <1>3. ASSUME NEW n \in Nodes,
               \/ StopDaemon(n) \/ ConcurrentMapAccess(n) \/ SetupWithoutStun(n)
               \/ \E m \in msgs : ReceiveFromUnknown(n, m)
        PROVE  FALSE
    <2>1. Up(n) /\ inc' = inc /\ \E s \in {"down", "crashed"} : proc' = [proc EXCEPT ![n] = s]
      BY <1>3 DEF StopDaemon, ConcurrentMapAccess, SetupWithoutStun, ReceiveFromUnknown, Crash
    <2>2. QED
      BY <1>t, <1>2, <2>1 DEF TypeOK
  <1>4. ASSUME NEW n \in Nodes, SkipRemoteConn(n) \/ \E p \in Nodes : CallFails(n, p) PROVE FALSE
    BY <1>4 DEF SkipRemoteConn, CallFails, Fresh
  <1>5. ASSUME NEW n \in Nodes, NEW m \in msgs, ReceiveHandshake(n, m) PROVE Fresh
    <2>1. proc' = proc /\ inc' = inc /\ (missed => missed')
      BY <1>5 DEF ReceiveHandshake, nodeVars
    <2>2. QED
      BY <2>1 DEF Fresh, Up
  <1>6. ASSUME NEW m \in msgs, Lose(m) PROVE Fresh /\ ~Up(m.dst)
    <2>1. proc' = proc /\ inc' = inc /\ (missed \/ Up(m.dst) => missed')
      BY <1>6 DEF Lose, nodeVars
    <2>2. QED
      BY <2>1 DEF Fresh, Up
  <1>7. ASSUME NEW n \in Nodes,
               \/ SyncRemoteNodesConfig(n) \/ TakeRemoteConn(n) \/ SetupIce(n) \/ SignalOffer(n)
               \/ \E m \in msgs : ReceiveCandidate(n, m)
        PROVE  Steady
    BY <1>7 DEF SyncRemoteNodesConfig, TakeRemoteConn, SetupIce, SignalOffer,
       ReceiveCandidate, nodeVars
  <1>8. ASSUME NEW n \in Nodes, NEW p \in Nodes,
               HandOver(n, p) \/ WaiterStep(n, p) \/ GatherFails(n, p) \/ IceConnects(n, p)
        PROVE  Steady
    BY <1>8 DEF HandOver, WaiterStep, StartWaiting, SignalAnswer, GatherAndStartConn,
       ReportConnected, GatherFails, Exits, IceConnects, nodeVars
  <1>9. CASE UNCHANGED vars
    BY <1>9, <1>s DEF vars, nodeVars, FreshNext
  <1>10. CASE Next
    <2>1. CASE \E n \in Nodes : StartDaemon(n)
      BY <1>1, <2>1 DEF FreshNext
    <2>2. CASE \E n \in Nodes : \E m \in msgs : ReceiveHandshake(n, m)
      BY <1>5, <2>2 DEF FreshNext
    <2>3. CASE \E m \in msgs : Lose(m)
      BY <1>6, <2>3 DEF FreshNext
    <2>4. CASE \E n \in Nodes : \/ SyncRemoteNodesConfig(n) \/ TakeRemoteConn(n) \/ SetupIce(n)
                                \/ SignalOffer(n) \/ \E m \in msgs : ReceiveCandidate(n, m)
      BY <1>7, <1>s, <2>4 DEF FreshNext
    <2>5. CASE \E n, p \in Nodes : \/ HandOver(n, p) \/ WaiterStep(n, p)
                                   \/ GatherFails(n, p) \/ IceConnects(n, p)
      BY <1>8, <1>s, <2>5 DEF FreshNext
    <2>6. QED
      BY <1>3, <1>4, <1>10, <2>1, <2>2, <2>3, <2>4, <2>5
      DEF Next, OffererStep, WorkerStep, ReceiveStep, Receive
  <1>11. QED
    BY <1>9, <1>10

\* A step from an undisturbed state to an undisturbed state.
FreshStep == IInv /\ Carried /\ Fresh /\ Fresh' /\ FreshNext

\* A node that took a peer's credentials runs, and so does the peer, which
\* has an agent for it.
LEMMA EngagedPeer ==
    ASSUME IInv, Carried, Fresh, NEW n \in Nodes, NEW p \in Nodes, Engaged(n, p)
    PROVE  /\ Up(n) /\ Up(p) /\ inc[n] = 1 /\ inc[p] = 1
           /\ p \in agent[n] /\ n \in agent[p] /\ n \in known[p] /\ waiter[p][n] # "none"
  <1>1. WaiterStages(n, p) /\ WaiterStages(p, n)
    BY DEF Carried
  <1>2. remote[n][p] # 0 \/ dialed[n][p] # 0
    BY <1>1 DEF Engaged, WaiterStages, IInv, WaiterHasAgent
  <1>3. inc[p] = 1 /\ n \in agent[p]
    <2>1. /\ inc[p] \in Nat /\ remote[n][p] \in Nat /\ dialed[n][p] \in Nat
          /\ Issued(remote[n][p], p, n) /\ Issued(dialed[n][p], p, n)
      BY DEF IInv, TypeOK, CredsIssued
    <2>2. inc[p] # 0
      BY <1>2, <2>1 DEF Issued
    <2>3. inc[p] = 1
      BY <2>2 DEF Fresh
    <2>4. QED
      BY <1>2, <2>1, <2>3 DEF Issued
  <1>4. waiter[n][p] # "none"
    BY <1>1 DEF Engaged, WaiterStages
  <1>5. p \in agent[n]
    BY <1>4 DEF IInv, WaiterHasAgent
  <1>6. Up(n) /\ Up(p) /\ waiter[p][n] # "none"
    BY <1>1, <1>3, <1>5 DEF WaiterStages
  <1>7. inc[n] = 1
    BY <1>6 DEF Fresh, IInv, UpStarted
  <1>8. QED
    BY <1>3, <1>5, <1>6, <1>7 DEF IInv, PeersPrepared

\* The messages that are in flight after one was sent.
LEMMA FlightSends ==
    ASSUME NEW m, msgs' = msgs \cup {m}, NEW t, NEW n, NEW p
    PROVE  /\ InFlight(t, n, p) => InFlight(t, n, p)'
           /\ m.type = t /\ m.src = n /\ m.dst = p => InFlight(t, n, p)'
           /\ InFlight(t, n, p)' => InFlight(t, n, p) \/ (m.type = t /\ m.src = n /\ m.dst = p)
  BY DEF InFlight

\* The same when a message is received or lost.
LEMMA FlightTakes ==
    ASSUME NEW m, msgs' = msgs \ {m}, NEW t, NEW n, NEW p
    PROVE  /\ InFlight(t, n, p)' => InFlight(t, n, p)
           /\ InFlight(t, n, p) => InFlight(t, n, p)' \/ (m.type = t /\ m.src = n /\ m.dst = p)
  BY DEF InFlight

\* And when none is.
LEMMA FlightKeeps ==
    ASSUME msgs' = msgs, NEW t, NEW n, NEW p
    PROVE  InFlight(t, n, p)' <=> InFlight(t, n, p)
  BY DEF InFlight

\* An undisturbed step keeps the waiters where they can be.
LEMMA StepStages == FreshStep => UpListed' /\ \A x, y \in Nodes : WaiterStages(x, y)'
  <1> SUFFICES ASSUME FreshStep PROVE UpListed' /\ \A x, y \in Nodes : WaiterStages(x, y)'
    OBVIOUS
  <1>t. /\ TypeOK /\ PeersPrepared /\ WaiterHasAgent /\ ConnOnce /\ UpListed
        /\ \A x, y \in Nodes : WaiterStages(x, y)
    BY DEF FreshStep, IInv, Carried
  <1> DEFINE Goal == UpListed' /\ \A x, y \in Nodes : WaiterStages(x, y)'
  <1> USE DEF SetPeer
  <1>1. ASSUME NEW n \in Nodes, StartDaemon(n), inc[n] = 0 PROVE Goal
    <2>1. UpListed'
      BY <1>t, <1>1 DEF StartDaemon, TypeOK, UpListed, Up
    <2>2. ASSUME NEW x \in Nodes, NEW y \in Nodes PROVE WaiterStages(x, y)'
      <3>1. CASE x = n
        BY <1>t, <1>1, <3>1 DEF StartDaemon, TypeOK, WaiterStages, Up
      <3>2. CASE x # n
        BY <1>t, <1>1, <3>2 DEF StartDaemon, TypeOK, WaiterStages, Up
      <3>3. QED
        BY <3>1, <3>2
    <2>3. QED
      BY <2>1, <2>2
  <1>2. ASSUME NEW n \in Nodes, SyncRemoteNodesConfig(n) PROVE Goal
    BY <1>t, <1>2 DEF SyncRemoteNodesConfig, nodeVars, iceVars, UpListed, WaiterStages, Up
  <1>3. ASSUME NEW n \in Nodes, NEW p \in Nodes, HandOver(n, p) PROVE Goal
    BY <1>t, <1>3, NegotiationAssumption DEF HandOver, TypeOK, nodeVars, iceVars, UpListed, WaiterStages, Up
  <1>4. ASSUME NEW n \in Nodes, TakeRemoteConn(n) PROVE Goal
    BY <1>t, <1>4 DEF TakeRemoteConn, TypeOK, nodeVars, iceVars, UpListed, WaiterStages, Up
  <1>5. ASSUME NEW n \in Nodes, SetupIce(n) PROVE Goal
    <2>1. worker[n] \in Nodes /\ worker[n] \notin agent[n] /\ waiter[n][worker[n]] = "none"
      BY <1>t, <1>5 DEF SetupIce, TypeOK, WaiterHasAgent
    <2>2. ASSUME NEW x \in Nodes, NEW y \in Nodes PROVE WaiterStages(x, y)'
      BY <1>t, <1>5, <2>1 DEF SetupIce, TypeOK, nodeVars, cpVars, WaiterStages, Up
    <2>3. QED
      BY <1>t, <1>5, <2>2 DEF SetupIce, nodeVars, UpListed, Up
  <1>6. ASSUME NEW n \in Nodes, SignalOffer(n) PROVE Goal
    BY <1>t, <1>6 DEF SignalOffer, TypeOK, nodeVars, iceVars, UpListed, WaiterStages, Up
  <1>7. ASSUME NEW n \in Nodes, NEW m \in msgs, ReceiveHandshake(n, m) PROVE Goal
    <2>1. /\ UNCHANGED <<proc, inc, listed, known, hand, worker, agent, gathered>>
          /\ UNCHANGED <<dialed, linked>>
          /\ m.src \in Nodes
      BY <1>t, <1>7, MessageFields DEF ReceiveHandshake, nodeVars, cpVars
    <2>2. \/ waiter' = waiter
          \/ /\ waiter[n][m.src] = "select"
             /\ \E s \in {"answer", "gather"} : waiter' = [waiter EXCEPT ![n][m.src] = s]
      BY <1>7 DEF ReceiveHandshake
    <2>3. ASSUME NEW x \in Nodes, NEW y \in Nodes PROVE WaiterStages(x, y)'
      <3>1. CASE x = n /\ y = m.src
        <4>1. \/ waiter'[x][y] = waiter[x][y]
              \/ waiter[x][y] = "select" /\ waiter'[x][y] \in {"answer", "gather"}
          BY <1>t, <2>1, <2>2, <3>1 DEF TypeOK
        <4>2. QED
          BY <1>t, <2>1, <4>1 DEF WaiterStages, Up
      <3>2. CASE ~(x = n /\ y = m.src)
        <4>1. waiter'[x][y] = waiter[x][y]
          BY <1>t, <2>1, <2>2, <3>2 DEF TypeOK
        <4>2. QED
          BY <1>t, <2>1, <4>1 DEF WaiterStages, Up
      <3>3. QED
        BY <3>1, <3>2
    <2>4. QED
      BY <1>t, <2>1, <2>3 DEF UpListed, Up
  <1>8. ASSUME NEW n \in Nodes, NEW m \in msgs, ReceiveCandidate(n, m) PROVE Goal
    BY <1>t, <1>8 DEF ReceiveCandidate, nodeVars, cpVars, UpListed, WaiterStages, Up
  <1>9. ASSUME NEW n \in Nodes, NEW p \in Nodes,
               \/ StartWaiting(n, p) \/ SignalAnswer(n, p) \/ ReportConnected(n, p)
               \/ GatherFails(n, p)
        PROVE  Goal
    <2>1. /\ UNCHANGED <<proc, inc, listed, known, hand, worker, agent, gathered>>
          /\ UNCHANGED <<dialed, linked>>
      BY <1>9 DEF StartWaiting, SignalAnswer, ReportConnected, GatherFails, Exits, nodeVars, cpVars
    <2>2. /\ waiter[n][p] \in {"spawned", "answer", "report", "gather"}
          /\ waiter[n][p] = "gather" => p \in gathered[n]
          /\ \E s \in {"select", "gather", "exited"} :
                /\ waiter' = [waiter EXCEPT ![n][p] = s]
                /\ s = "exited" => waiter[n][p] = "gather"
      BY <1>9 DEF StartWaiting, SignalAnswer, ReportConnected, GatherFails, Exits
    <2>3. ASSUME NEW x \in Nodes, NEW y \in Nodes PROVE WaiterStages(x, y)'
      BY <1>t, <2>1, <2>2 DEF TypeOK, WaiterStages, Up
    <2>4. QED
      BY <1>t, <2>1, <2>3 DEF UpListed, Up
  <1>10. ASSUME NEW n \in Nodes, NEW p \in Nodes, GatherAndStartConn(n, p) PROVE Goal
    <2>1. Up(n) /\ p \in agent[n] /\ remote[n][p] # 0
      BY <1>t, <1>10 DEF GatherAndStartConn, WaiterHasAgent
    <2>2. ASSUME NEW x \in Nodes, NEW y \in Nodes PROVE WaiterStages(x, y)'
      BY <1>t, <1>10, <2>1 DEF GatherAndStartConn, TypeOK, nodeVars, cpVars, WaiterStages, Up
    <2>3. QED
      BY <1>t, <1>10, <2>2 DEF GatherAndStartConn, nodeVars, UpListed, Up
  <1>11. ASSUME NEW n \in Nodes, NEW p \in Nodes, IceConnects(n, p) PROVE Goal
    <2>1. waiter[n][p] = "dial" /\ linked' = [linked EXCEPT ![n] = @ \cup {p}]
      BY <1>11 DEF IceConnects, CanConnect
    <2>2. ASSUME NEW x \in Nodes, NEW y \in Nodes PROVE WaiterStages(x, y)'
      BY <1>t, <1>11, <2>1 DEF IceConnects, TypeOK, nodeVars, cpVars, WaiterStages, Up
    <2>3. QED
      BY <1>t, <1>11, <2>2 DEF IceConnects, nodeVars, UpListed, Up
  <1>12. ASSUME NEW m \in msgs, Lose(m) PROVE Goal
    BY <1>t, <1>12 DEF Lose, nodeVars, cpVars, iceVars, UpListed, WaiterStages, Up
  <1>13. CASE UNCHANGED vars
    BY <1>t, <1>13 DEF vars, nodeVars, cpVars, iceVars, UpListed, WaiterStages, Up
  <1>14. QED
    BY <1>1, <1>2, <1>3, <1>4, <1>5, <1>6, <1>7, <1>8, <1>9, <1>10, <1>11, <1>12, <1>13
    DEF FreshStep, FreshNext, WaiterStep

\* A node that took a peer's credentials stays engaged; it becomes so by an
\* offer, which it answers, or by an answer of the peer.
LEMMA StepEngaged ==
    FreshStep => \A x, y \in Nodes :
        /\ Engaged(x, y) => Engaged(x, y)'
        /\ Engaged(x, y)' =>
              Engaged(x, y) \/ waiter'[x][y] = "answer" \/ InFlight("ANSWER", y, x)
        /\ waiter[x][y] = "answer" => waiter'[x][y] = "answer" \/ InFlight("ANSWER", x, y)'
  <1> SUFFICES ASSUME FreshStep, NEW x \in Nodes, NEW y \in Nodes
               PROVE  /\ Engaged(x, y) => Engaged(x, y)'
                      /\ Engaged(x, y)' =>
                            \/ Engaged(x, y) \/ waiter'[x][y] = "answer"
                            \/ InFlight("ANSWER", y, x)
                      /\ waiter[x][y] = "answer" =>
                            waiter'[x][y] = "answer" \/ InFlight("ANSWER", x, y)'
    OBVIOUS
  <1> DEFINE Goal == /\ Engaged(x, y) => Engaged(x, y)'
                     /\ Engaged(x, y)' =>
                           \/ Engaged(x, y) \/ waiter'[x][y] = "answer"
                           \/ InFlight("ANSWER", y, x)
                     /\ waiter[x][y] = "answer" =>
                           waiter'[x][y] = "answer" \/ InFlight("ANSWER", x, y)'
  <1>t. TypeOK /\ WaiterHasAgent /\ WaiterStages(x, y)
    BY DEF FreshStep, IInv, Carried
  <1> USE DEF SetPeer
  <1>u. ASSUME waiter'[x][y] = waiter[x][y], gathered'[x] = gathered[x] PROVE Goal
    BY <1>u DEF Engaged
  <1>1. ASSUME NEW n \in Nodes, StartDaemon(n) PROVE Goal
    <2>1. CASE x = n
      <3>1. ~Engaged(x, y) /\ waiter[x][y] # "answer"
        BY <1>t, <1>1, <2>1 DEF StartDaemon, WaiterHasAgent, WaiterStages, Engaged
      <3>2. ~Engaged(x, y)'
        BY <1>t, <1>1, <2>1 DEF StartDaemon, TypeOK, Engaged
      <3>3. QED
        BY <3>1, <3>2
    <2>2. CASE x # n
      BY <1>t, <1>1, <1>u, <2>2 DEF StartDaemon, TypeOK
    <2>3. QED
      BY <2>1, <2>2
  <1>2. ASSUME NEW n \in Nodes, \/ SyncRemoteNodesConfig(n) \/ TakeRemoteConn(n) \/ SignalOffer(n)
        PROVE  Goal
    BY <1>2, <1>u DEF SyncRemoteNodesConfig, TakeRemoteConn, SignalOffer, iceVars
  <1>3. ASSUME NEW n \in Nodes, NEW p \in Nodes, HandOver(n, p) PROVE Goal
    BY <1>3, <1>u DEF HandOver, iceVars
  <1>4. ASSUME NEW n \in Nodes, SetupIce(n) PROVE Goal
    <2>1. /\ worker[n] \in Nodes /\ waiter[n][worker[n]] = "none" /\ gathered' = gathered
          /\ waiter' = [waiter EXCEPT ![n][worker[n]] = "spawned"]
      BY <1>t, <1>4 DEF FreshStep, IInv, SetupIce, TypeOK, WaiterHasAgent
    <2>2. \/ waiter'[x][y] = waiter[x][y]
          \/ waiter[x][y] = "none" /\ waiter'[x][y] = "spawned"
      BY <1>t, <2>1 DEF TypeOK
    <2>3. QED
      BY <2>1, <2>2 DEF Engaged
  <1>5. ASSUME NEW n \in Nodes, NEW m \in msgs, ReceiveHandshake(n, m) PROVE Goal
    <2>1. m.src \in Nodes /\ gathered' = gathered
      BY <1>t, <1>5, MessageFields DEF ReceiveHandshake
    <2>2. CASE waiter[n][m.src] = "select" /\ x = n /\ y = m.src
      <3>1. /\ waiter'[x][y] = IF m.type = "OFFER" THEN "answer" ELSE "gather"
            /\ m.dst = x /\ m.type \in {"OFFER", "ANSWER"}
        BY <1>t, <1>5, <2>1, <2>2 DEF ReceiveHandshake, TypeOK
      <3>2. CASE m.type = "OFFER"
        BY <2>1, <2>2, <3>1, <3>2 DEF Engaged
      <3>3. CASE m.type = "ANSWER"
        BY <2>1, <2>2, <3>1, <3>3 DEF Engaged, InFlight
      <3>4. QED
        BY <3>1, <3>2, <3>3
    <2>3. CASE ~(waiter[n][m.src] = "select" /\ x = n /\ y = m.src)
      <3>1. waiter'[x][y] = waiter[x][y]
        BY <1>t, <1>5, <2>1, <2>3 DEF ReceiveHandshake, TypeOK
      <3>2. QED
        BY <1>u, <2>1, <3>1
    <2>4. QED
      BY <2>2, <2>3
  <1>6. ASSUME NEW n \in Nodes, NEW m \in msgs, ReceiveCandidate(n, m) PROVE Goal
    BY <1>6, <1>u DEF ReceiveCandidate
  <1>7. ASSUME NEW n \in Nodes, NEW p \in Nodes,
               StartWaiting(n, p) \/ ReportConnected(n, p) \/ GatherFails(n, p) \/ IceConnects(n, p)
        PROVE  Goal
    <2>1. /\ gathered' = gathered
          /\ waiter[n][p] \in {"spawned", "report", "gather", "dial"}
          /\ waiter[n][p] = "gather" => p \in gathered[n]
          /\ \E s \in {"select", "exited", "report"} :
                /\ waiter' = [waiter EXCEPT ![n][p] = s]
                /\ s = "report" => waiter[n][p] = "dial"
      BY <1>7 DEF StartWaiting, ReportConnected, GatherFails, Exits, IceConnects, CanConnect
    <2>2. \/ waiter'[x][y] = waiter[x][y]
          \/ /\ waiter[x][y] \in {"spawned", "report", "gather", "dial"}
             /\ waiter[x][y] = "gather" => y \in gathered[x]
             /\ waiter'[x][y] \in {"select", "exited", "report"}
             /\ waiter'[x][y] = "report" => waiter[x][y] = "dial"
      BY <1>t, <2>1 DEF TypeOK
    <2>3. QED
      BY <1>t, <2>1, <2>2 DEF Engaged, WaiterStages
  <1>8. ASSUME NEW n \in Nodes, NEW p \in Nodes, SignalAnswer(n, p) PROVE Goal
    <2>1. /\ gathered' = gathered /\ waiter[n][p] = "answer"
          /\ waiter' = [waiter EXCEPT ![n][p] = "gather"]
          /\ msgs' = msgs \cup {Reply("ANSWER", n, p)}
      BY <1>8 DEF SignalAnswer, Send
    <2>2. CASE x = n /\ y = p
      <3>0. /\ Reply("ANSWER", n, p).type = "ANSWER"
            /\ Reply("ANSWER", n, p).src = x /\ Reply("ANSWER", n, p).dst = y
        BY <2>2 DEF Reply
      <3>1. InFlight("ANSWER", x, y)'
        BY <2>1, <3>0 DEF InFlight
      <3>2. waiter'[x][y] = "gather"
        BY <1>t, <2>1, <2>2 DEF TypeOK
      <3>3. QED
        BY <2>1, <2>2, <3>1, <3>2 DEF Engaged
    <2>3. CASE ~(x = n /\ y = p)
      BY <1>t, <1>u, <2>1, <2>3 DEF TypeOK
    <2>4. QED
      BY <2>2, <2>3
  <1>9. ASSUME NEW n \in Nodes, NEW p \in Nodes, GatherAndStartConn(n, p) PROVE Goal
    <2>1. CASE x = n /\ y = p
      BY <1>t, <1>9, <2>1 DEF GatherAndStartConn, TypeOK, Engaged
    <2>2. CASE ~(x = n /\ y = p)
      BY <1>t, <1>9, <2>2 DEF GatherAndStartConn, TypeOK, Engaged
    <2>3. QED
      BY <2>1, <2>2
  <1>10. ASSUME NEW m \in msgs, Lose(m) PROVE Goal
    BY <1>10, <1>u DEF Lose, iceVars
  <1>11. CASE UNCHANGED vars
    BY <1>11, <1>u DEF vars, iceVars
  <1>12. QED
    BY <1>1, <1>2, <1>3, <1>4, <1>5, <1>6, <1>7, <1>8, <1>9, <1>10, <1>11
    DEF FreshStep, FreshNext, WaiterStep

\* An answer or a candidate is of the daemon that runs, and meets a running
\* daemon that has an agent for the sender.
LEMMA ReplyReceiver ==
    ASSUME IInv, Fresh, NEW m \in msgs, m.type \in {"ANSWER", "CANDIDATE"}
    PROVE  Up(m.dst) /\ m.src \in agent[m.dst] /\ m.cred = inc[m.src]
  <1>1. /\ m.src \in Nodes /\ m.dst \in Nodes
        /\ m.cred \in Nat /\ m.cred # 0 /\ m.re \in Nat /\ m.re # 0
        /\ inc[m.src] \in Nat /\ inc[m.dst] \in Nat
    BY MessageFields DEF IInv, TypeOK, Messages, Creds
  <1>2. m.cred <= inc[m.src] /\ m.re <= inc[m.dst] /\ (m.re = inc[m.dst] => m.src \in agent[m.dst])
    BY <1>1 DEF IInv, CredsIssued, Issued
  <1>3. inc[m.src] = 1 /\ inc[m.dst] = 1 /\ Up(m.dst)
    BY <1>1, <1>2 DEF Fresh
  <1>4. QED
    BY <1>1, <1>2, <1>3

\* A node that gets an answer is engaged then; one that gets an offer is, or
\* has its own offer to make.
LEMMA HandshakeTaken ==
    ASSUME FreshStep, NEW n \in Nodes, NEW m \in msgs, ReceiveHandshake(n, m)
    PROVE  /\ Engaged(n, m.src)' \/ Pending(n, m.src)'
           /\ m.type = "ANSWER" => Engaged(n, m.src)'
  <1>t. TypeOK /\ IInv /\ Carried /\ Fresh /\ ~missed'
    BY DEF FreshStep, IInv, Fresh
  <1>1. m.src \in Nodes /\ m.dst = n /\ m.src \in known[n] /\ m.type \in {"OFFER", "ANSWER"}
    BY <1>t, MessageFields DEF ReceiveHandshake
  <1>2. WaiterStages(n, m.src) /\ AnswerCarried(m.src, n)
    BY <1>t, <1>1 DEF Carried
  <1>3. Engaged(n, m.src) => Engaged(n, m.src)'
    BY <1>1, StepEngaged
  <1>4. CASE waiter[n][m.src] = "select"
    <2>1. waiter'[n][m.src] \in {"answer", "gather"}
      BY <1>t, <1>1, <1>4 DEF ReceiveHandshake, TypeOK, SetPeer
    <2>2. QED
      BY <2>1 DEF Engaged
  <1>5. CASE waiter[n][m.src] = "none"
    <2>1. hand[n] = m.src \/ worker[n] = m.src
      BY <1>1, <1>2, <1>5 DEF WaiterStages
    <2>2. Pending(n, m.src)'
      BY <2>1 DEF ReceiveHandshake, cpVars, Pending
    <2>3. ASSUME m.type = "ANSWER" PROVE FALSE
      <3>1. InFlight("ANSWER", m.src, n)
        BY <1>1, <2>3 DEF InFlight
      <3>2. Engaged(m.src, n)
        BY <1>2, <3>1 DEF AnswerCarried
      <3>3. QED
        BY <1>t, <1>1, <1>5, <3>2, EngagedPeer
    <2>4. QED
      BY <2>2, <2>3
  <1>6. CASE waiter[n][m.src] \notin {"select", "none"}
    <2>1. waiter[n][m.src] # "spawned"
      BY <1>t, <1>6 DEF ReceiveHandshake
    <2>2. waiter[n][m.src] \in WaiterStates
      BY <1>t, <1>1 DEF TypeOK
    <2>3. Engaged(n, m.src)
      BY <1>2, <1>6, <2>1, <2>2 DEF WaiterStates, WaiterStages, Engaged
    <2>4. QED
      BY <1>3, <2>3
  <1>7. QED
    BY <1>4, <1>5, <1>6

\* What becomes of messages in flight, and where new answers come from.
LEMMA StepFlight ==
    FreshStep => \A x, y \in Nodes :
        /\ Up(y) /\ InFlight("OFFER", x, y) =>
              InFlight("OFFER", x, y)' \/ Pending(y, x)' \/ Engaged(y, x)'
        /\ InFlight("ANSWER", x, y) => InFlight("ANSWER", x, y)' \/ Engaged(y, x)'
        /\ InFlight("ANSWER", x, y)' => InFlight("ANSWER", x, y) \/ Engaged(x, y)
        /\ InFlight("CANDIDATE", x, y) => InFlight("CANDIDATE", x, y)' \/ inc'[x] \in cands'[y][x]
  <1> SUFFICES ASSUME FreshStep, NEW x \in Nodes, NEW y \in Nodes
        PROVE  /\ Up(y) /\ InFlight("OFFER", x, y) =>
                     InFlight("OFFER", x, y)' \/ Pending(y, x)' \/ Engaged(y, x)'
               /\ InFlight("ANSWER", x, y) => InFlight("ANSWER", x, y)' \/ Engaged(y, x)'
               /\ InFlight("ANSWER", x, y)' => InFlight("ANSWER", x, y) \/ Engaged(x, y)
               /\ InFlight("CANDIDATE", x, y) =>
                     InFlight("CANDIDATE", x, y)' \/ inc'[x] \in cands'[y][x]
    OBVIOUS
  <1> DEFINE Goal == /\ Up(y) /\ InFlight("OFFER", x, y) =>
                           InFlight("OFFER", x, y)' \/ Pending(y, x)' \/ Engaged(y, x)'
                     /\ InFlight("ANSWER", x, y) => InFlight("ANSWER", x, y)' \/ Engaged(y, x)'
                     /\ InFlight("ANSWER", x, y)' => InFlight("ANSWER", x, y) \/ Engaged(x, y)
                     /\ InFlight("CANDIDATE", x, y) =>
                           InFlight("CANDIDATE", x, y)' \/ inc'[x] \in cands'[y][x]
  <1>t. TypeOK /\ IInv /\ Carried /\ Fresh
    BY DEF FreshStep, IInv
  <1>u. ASSUME msgs' = msgs PROVE Goal
    BY <1>u, FlightKeeps
  <1>1. ASSUME NEW n \in Nodes,
               \/ StartDaemon(n) \/ SyncRemoteNodesConfig(n) \/ TakeRemoteConn(n) \/ SetupIce(n)
        PROVE  Goal
    BY <1>1, <1>u DEF StartDaemon, SyncRemoteNodesConfig, TakeRemoteConn, SetupIce
  <1>2. ASSUME NEW n \in Nodes, NEW p \in Nodes,
               \/ HandOver(n, p) \/ StartWaiting(n, p) \/ ReportConnected(n, p)
               \/ GatherFails(n, p) \/ IceConnects(n, p)
        PROVE  Goal
    BY <1>2, <1>u DEF HandOver, StartWaiting, ReportConnected, GatherFails, Exits, IceConnects
  <1>3. ASSUME NEW n \in Nodes, SignalOffer(n) PROVE Goal
    <2>1. msgs' = msgs \cup {Offer(n, worker[n])} /\ Offer(n, worker[n]).type = "OFFER"
      BY <1>3 DEF SignalOffer, Send, Offer
    <2>2. QED
      BY <2>1, FlightSends
  <1>4. ASSUME NEW n \in Nodes, NEW p \in Nodes, SignalAnswer(n, p) PROVE Goal
    <2>1. /\ msgs' = msgs \cup {Reply("ANSWER", n, p)}
          /\ Reply("ANSWER", n, p).src = n /\ Reply("ANSWER", n, p).dst = p
          /\ Engaged(n, p)
      BY <1>4 DEF SignalAnswer, Send, Reply, Engaged
    <2>2. QED
      BY <2>1, FlightSends
  <1>5. ASSUME NEW n \in Nodes, NEW p \in Nodes, GatherAndStartConn(n, p) PROVE Goal
    <2>1. /\ msgs' = msgs \cup {Reply("CANDIDATE", n, p)}
          /\ Reply("CANDIDATE", n, p).type = "CANDIDATE"
      BY <1>5 DEF GatherAndStartConn, Send, Reply
    <2>2. QED
      BY <2>1, FlightSends
  <1>6. ASSUME NEW n \in Nodes, NEW m \in msgs, ReceiveHandshake(n, m) PROVE Goal
    <2>1. msgs' = msgs \ {m} /\ m.dst = n /\ m.type \in {"OFFER", "ANSWER"}
      BY <1>6 DEF ReceiveHandshake
    <2>2. /\ Engaged(n, m.src)' \/ Pending(n, m.src)'
          /\ m.type = "ANSWER" => Engaged(n, m.src)'
      BY <1>6, HandshakeTaken
    <2>3. QED
      BY <2>1, <2>2, FlightTakes
  <1>7. ASSUME NEW n \in Nodes, NEW m \in msgs, ReceiveCandidate(n, m) PROVE Goal
    <2>1. msgs' = msgs \ {m} /\ m.dst = n /\ m.type = "CANDIDATE" /\ inc' = inc
      BY <1>7 DEF ReceiveCandidate, nodeVars
    <2>2. m.src \in agent[n] /\ m.cred = inc[m.src] /\ m.src \in Nodes
      BY <1>t, <2>1, ReplyReceiver, MessageFields
    <2>3. inc'[m.src] \in cands'[n][m.src]
      BY <1>t, <1>7, <2>1, <2>2 DEF ReceiveCandidate, TypeOK, SetPeer
    <2>4. QED
      BY <2>1, <2>3, FlightTakes
  <1>8. ASSUME NEW m \in msgs, Lose(m), ~Up(m.dst) PROVE Goal
    <2>1. msgs' = msgs \ {m} /\ m.type \notin {"ANSWER", "CANDIDATE"}
      BY <1>t, <1>8, ReplyReceiver DEF Lose
    <2>2. QED
      BY <1>8, <2>1, FlightTakes
  <1>9. CASE UNCHANGED vars
    BY <1>9, <1>u DEF vars
  <1>10. QED
    BY <1>1, <1>2, <1>3, <1>4, <1>5, <1>6, <1>7, <1>8, <1>9
    DEF FreshStep, FreshNext, WaiterStep

\* A node that starts has all its offers to make, and an offer that was to be
\* made still is, or is on its way.
LEMMA StepPending ==
    FreshStep => \A x, y \in Nodes :
        /\ Up(x)' => Up(x) \/ Pending(x, y)'
        /\ Up(y) /\ x # y /\ Pending(x, y) => Pending(x, y)' \/ InFlight("OFFER", x, y)'
  <1> SUFFICES ASSUME FreshStep, NEW x \in Nodes, NEW y \in Nodes
               PROVE  /\ Up(x)' => Up(x) \/ Pending(x, y)'
                      /\ Up(y) /\ x # y /\ Pending(x, y) =>
                            Pending(x, y)' \/ InFlight("OFFER", x, y)'
    OBVIOUS
  <1> DEFINE Goal == /\ Up(x)' => Up(x) \/ Pending(x, y)'
                     /\ Up(y) /\ x # y /\ Pending(x, y) =>
                           Pending(x, y)' \/ InFlight("OFFER", x, y)'
  <1>t. TypeOK /\ UpListed
    BY DEF FreshStep, IInv, Carried
  <1>u. ASSUME proc' = proc, UNCHANGED cpVars PROVE Goal
    BY <1>u DEF Up, Pending, cpVars
  <1>1. ASSUME NEW n \in Nodes, StartDaemon(n) PROVE Goal
    BY <1>t, <1>1 DEF StartDaemon, TypeOK, Up, Pending
  <1>2. ASSUME NEW n \in Nodes, SyncRemoteNodesConfig(n) PROVE Goal
    BY <1>t, <1>2 DEF SyncRemoteNodesConfig, TypeOK, nodeVars, Up, UpListed, Pending
  <1>3. ASSUME NEW n \in Nodes, TakeRemoteConn(n) PROVE Goal
    BY <1>t, <1>3, NegotiationAssumption DEF TakeRemoteConn, TypeOK, nodeVars, Up, Pending
  <1>4. ASSUME NEW n \in Nodes, NEW p \in Nodes, HandOver(n, p) PROVE Goal
    BY <1>t, <1>4, NegotiationAssumption DEF HandOver, TypeOK, nodeVars, Up, Pending
  <1>5. ASSUME NEW n \in Nodes, SignalOffer(n) PROVE Goal
    <2>1. /\ msgs' = msgs \cup {Offer(n, worker[n])}
          /\ Offer(n, worker[n]).type = "OFFER"
          /\ Offer(n, worker[n]).src = n /\ Offer(n, worker[n]).dst = worker[n]
      BY <1>5 DEF SignalOffer, Send, Offer
    <2>2. CASE x = n /\ worker[n] = y
      <3>1. InFlight("OFFER", x, y)'
        BY <2>1, <2>2 DEF InFlight
      <3>2. QED
        BY <1>5, <3>1 DEF SignalOffer, nodeVars, Up
    <2>3. CASE ~(x = n /\ worker[n] = y)
      BY <1>t, <1>5, <2>3 DEF SignalOffer, TypeOK, nodeVars, Up, Pending
    <2>4. QED
      BY <2>2, <2>3
  <1>6. ASSUME NEW n \in Nodes,
               \/ SetupIce(n)
               \/ \E m \in msgs : ReceiveHandshake(n, m) \/ ReceiveCandidate(n, m)
        PROVE  Goal
    BY <1>6, <1>u DEF SetupIce, ReceiveHandshake, ReceiveCandidate, nodeVars
  <1>7. ASSUME NEW n \in Nodes, NEW p \in Nodes,
               \/ StartWaiting(n, p) \/ SignalAnswer(n, p) \/ GatherAndStartConn(n, p)
               \/ ReportConnected(n, p) \/ GatherFails(n, p) \/ IceConnects(n, p)
        PROVE  Goal
    BY <1>7, <1>u DEF StartWaiting, SignalAnswer, GatherAndStartConn, ReportConnected,
       GatherFails, Exits, IceConnects, nodeVars
  <1>8. ASSUME NEW m \in msgs, Lose(m) PROVE Goal
    BY <1>8, <1>u DEF Lose, nodeVars
  <1>9. CASE UNCHANGED vars
    BY <1>9, <1>u DEF vars, nodeVars
  <1>10. QED
    BY <1>1, <1>2, <1>3, <1>4, <1>5, <1>6, <1>7, <1>8, <1>9
    DEF FreshStep, FreshNext, WaiterStep

\* Whoever gathers sends its candidates, and the ones that arrived stay.
LEMMA StepGathered ==
    FreshStep => \A x, y \in Nodes :
        /\ y \in gathered'[x] => y \in gathered[x] \/ InFlight("CANDIDATE", x, y)'
        /\ y \in gathered[x] /\ inc[x] \in cands[y][x] => inc'[x] \in cands'[y][x]
  <1> SUFFICES ASSUME FreshStep, NEW x \in Nodes, NEW y \in Nodes
        PROVE  /\ y \in gathered'[x] => y \in gathered[x] \/ InFlight("CANDIDATE", x, y)'
               /\ y \in gathered[x] /\ inc[x] \in cands[y][x] => inc'[x] \in cands'[y][x]
    OBVIOUS
  <1> DEFINE Goal ==
        /\ y \in gathered'[x] => y \in gathered[x] \/ InFlight("CANDIDATE", x, y)'
        /\ y \in gathered[x] /\ inc[x] \in cands[y][x] => inc'[x] \in cands'[y][x]
  <1>t. TypeOK
    BY DEF FreshStep, IInv
  <1>u. ASSUME UNCHANGED <<inc, gathered, cands>> PROVE Goal
    BY <1>u
  <1>1. ASSUME NEW n \in Nodes, StartDaemon(n) PROVE Goal
    <2>1. y \in gathered[x] => n # x /\ n # y
      BY <1>1, EngagedPeer DEF FreshStep, StartDaemon, Engaged
    <2>2. QED
      BY <1>t, <1>1, <2>1 DEF StartDaemon, TypeOK
  <1>2. ASSUME NEW n \in Nodes, NEW p \in Nodes, GatherAndStartConn(n, p) PROVE Goal
    <2>1. /\ msgs' = msgs \cup {Reply("CANDIDATE", n, p)}
          /\ Reply("CANDIDATE", n, p).type = "CANDIDATE"
          /\ Reply("CANDIDATE", n, p).src = n /\ Reply("CANDIDATE", n, p).dst = p
      BY <1>2 DEF GatherAndStartConn, Send, Reply
    <2>2. InFlight("CANDIDATE", n, p)'
      BY <2>1 DEF InFlight
    <2>3. CASE x = n /\ y = p
      BY <1>2, <2>2, <2>3 DEF GatherAndStartConn, nodeVars
    <2>4. CASE ~(x = n /\ y = p)
      BY <1>t, <1>2, <2>4 DEF GatherAndStartConn, TypeOK, nodeVars
    <2>5. QED
      BY <2>3, <2>4
  <1>3. ASSUME NEW n \in Nodes, NEW m \in msgs, ReceiveCandidate(n, m) PROVE Goal
    <2>1. m.src \in Nodes /\ inc' = inc /\ gathered' = gathered
      BY <1>t, <1>3, MessageFields DEF ReceiveCandidate, nodeVars
    <2>2. cands[y][x] \subseteq cands'[y][x]
      BY <1>t, <1>3, <2>1 DEF ReceiveCandidate, TypeOK, SetPeer
    <2>3. QED
      BY <2>1, <2>2
  <1>4. ASSUME NEW n \in Nodes,
               \/ SyncRemoteNodesConfig(n) \/ TakeRemoteConn(n) \/ SetupIce(n) \/ SignalOffer(n)
               \/ \E m \in msgs : ReceiveHandshake(n, m)
        PROVE  Goal
    BY <1>4, <1>u DEF SyncRemoteNodesConfig, TakeRemoteConn, SetupIce, SignalOffer,
       ReceiveHandshake, nodeVars, iceVars
  <1>5. ASSUME NEW n \in Nodes, NEW p \in Nodes,
               \/ HandOver(n, p) \/ StartWaiting(n, p) \/ SignalAnswer(n, p)
               \/ ReportConnected(n, p) \/ GatherFails(n, p) \/ IceConnects(n, p)
        PROVE  Goal
    BY <1>5, <1>u DEF HandOver, StartWaiting, SignalAnswer, ReportConnected,
       GatherFails, Exits, IceConnects, nodeVars, iceVars
  <1>6. ASSUME NEW m \in msgs, Lose(m) PROVE Goal
    BY <1>6, <1>u DEF Lose, nodeVars, iceVars
  <1>7. CASE UNCHANGED vars
    BY <1>7, <1>u DEF vars, nodeVars, iceVars
  <1>8. QED
    BY <1>1, <1>2, <1>3, <1>4, <1>5, <1>6, <1>7
    DEF FreshStep, FreshNext, WaiterStep

\* Every step of undisturbed daemons carries the handshakes on.
LEMMA StepCarried == IInv /\ Carried /\ [Next]_vars => Carried'
  <1> SUFFICES ASSUME IInv, Carried, [Next]_vars, Fresh'
               PROVE  /\ UpListed'
                      /\ \A x, y \in Nodes : /\ WaiterStages(x, y)'
                                             /\ OfferCarried(x, y)'
                                             /\ AnswerCarried(x, y)'
                                             /\ CandidateCarried(x, y)'
    BY DEF Carried
  <1>0. FreshStep
    BY FreshStable DEF FreshStep
  <1> SUFFICES ASSUME NEW x \in Nodes, NEW y \in Nodes
               PROVE  OfferCarried(x, y)' /\ AnswerCarried(x, y)' /\ CandidateCarried(x, y)'
    BY <1>0, StepStages
  <1>1. /\ OfferCarried(x, y) /\ AnswerCarried(x, y) /\ AnswerCarried(y, x)
        /\ CandidateCarried(x, y)
    BY <1>0 DEF FreshStep, Carried
  <1>2. OfferCarried(x, y)'
    <2> SUFFICES ASSUME Up(x)', Up(y)', x # y
                 PROVE  \/ Pending(x, y)' \/ Pending(y, x)'
                        \/ InFlight("OFFER", x, y)' \/ InFlight("OFFER", y, x)'
                        \/ Engaged(x, y)' \/ Engaged(y, x)'
      BY DEF OfferCarried
    <2>1. CASE ~Up(x) \/ ~Up(y)
      BY <1>0, <2>1, StepPending
    <2>2. CASE Up(x) /\ Up(y)
      <3>1. \/ Pending(x, y) \/ Pending(y, x)
            \/ InFlight("OFFER", x, y) \/ InFlight("OFFER", y, x)
            \/ Engaged(x, y) \/ Engaged(y, x)
        BY <1>1, <2>2 DEF OfferCarried
      <3>2. CASE Pending(x, y) \/ Pending(y, x)
        BY <1>0, <2>2, <3>2, StepPending
      <3>3. CASE InFlight("OFFER", x, y) \/ InFlight("OFFER", y, x)
        BY <1>0, <2>2, <3>3, StepFlight
      <3>4. CASE Engaged(x, y) \/ Engaged(y, x)
        BY <1>0, <3>4, StepEngaged
      <3>5. QED
        BY <3>1, <3>2, <3>3, <3>4
    <2>3. QED
      BY <2>1, <2>2
  <1>3. AnswerCarried(x, y)'
    <2>1. Engaged(x, y)' => Engaged(y, x)' \/ waiter'[x][y] = "answer" \/ InFlight("ANSWER", x, y)'
      <3>1. CASE Engaged(x, y)
        <4>1. Engaged(y, x) \/ waiter[x][y] = "answer" \/ InFlight("ANSWER", x, y)
          BY <1>1, <3>1 DEF AnswerCarried
        <4>2. QED
          BY <1>0, <4>1, StepEngaged, StepFlight
      <3>2. CASE Engaged(x, y)' /\ InFlight("ANSWER", y, x)
        <4>1. Engaged(y, x)
          BY <1>1, <3>2 DEF AnswerCarried
        <4>2. QED
          BY <1>0, <4>1, StepEngaged
      <3>3. QED
        BY <1>0, <3>1, <3>2, StepEngaged
    <2>2. InFlight("ANSWER", x, y)' => Engaged(x, y)'
      <3>1. InFlight("ANSWER", x, y) => Engaged(x, y)
        BY <1>1 DEF AnswerCarried
      <3>2. InFlight("ANSWER", x, y)' => InFlight("ANSWER", x, y) \/ Engaged(x, y)
        BY <1>0, StepFlight
      <3>3. QED
        BY <1>0, <3>1, <3>2, StepEngaged
    <2>3. QED
      BY <2>1, <2>2 DEF AnswerCarried
  <1>4. CandidateCarried(x, y)'
    <2> SUFFICES ASSUME y \in gathered'[x]
                 PROVE  InFlight("CANDIDATE", x, y)' \/ inc'[x] \in cands'[y][x]
      BY DEF CandidateCarried
    <2>1. CASE y \in gathered[x]
      <3>1. InFlight("CANDIDATE", x, y) \/ inc[x] \in cands[y][x]
        BY <1>1, <2>1 DEF CandidateCarried
      <3>2. QED
        BY <1>0, <2>1, <3>1, StepFlight, StepGathered
    <2>2. CASE y \notin gathered[x]
      BY <1>0, <2>2, StepGathered
    <2>3. QED
      BY <2>1, <2>2
  <1>5. QED
    BY <1>2, <1>3, <1>4

\* Undisturbed daemons that have nothing left to do are linked.
LEMMA QuietIsMeshed == IInv /\ Carried => NoStall
  <1> SUFFICES ASSUME IInv, Carried, FirstStarts, Quiet, NEW n \in Nodes, NEW p \in Nodes, n # p
               PROVE  Meshed(n, p)
    BY DEF NoStall, AllMeshed
  <1>1. Fresh /\ Up(n) /\ Up(p) /\ inc[n] = 1 /\ inc[p] = 1
    BY DEF FirstStarts, Fresh
  <1>2. \A t, x, y : ~InFlight(t, x, y)
    BY DEF Quiet, InFlight
  <1>3. ~Pending(n, p) /\ ~Pending(p, n)
    BY NegotiationAssumption DEF Quiet, Pending
  <1>4. Engaged(n, p) /\ Engaged(p, n)
    <2>1. OfferCarried(n, p) /\ AnswerCarried(n, p) /\ AnswerCarried(p, n)
      BY <1>1 DEF Carried
    <2>2. Engaged(n, p) \/ Engaged(p, n)
      BY <1>1, <1>2, <1>3, <2>1 DEF OfferCarried
    <2>3. waiter[n][p] # "answer" /\ waiter[p][n] # "answer"
      BY DEF Quiet
    <2>4. QED
      BY <1>2, <2>1, <2>2, <2>3 DEF AnswerCarried
  <1>5. ASSUME NEW x \in Nodes, NEW y \in Nodes, x # y, Engaged(x, y), inc[x] = 1, inc[y] = 1
        PROVE  /\ waiter[x][y] = "dial" \/ y \in linked[x]
               /\ dialed[x][y] = inc[y]
               /\ inc[x] \in cands[y][x]
    <2>1. WaiterStages(x, y) /\ CandidateCarried(x, y)
      BY <1>1 DEF Carried
    <2>2. y \in gathered[x]
      BY <1>5, <2>1 DEF Quiet, Engaged, WaiterStages
    <2>3. dialed[x][y] # 0 /\ (waiter[x][y] = "dial" \/ y \in linked[x])
      BY <2>1, <2>2 DEF WaiterStages
    <2>4. dialed[x][y] <= inc[y] /\ dialed[x][y] \in Nat
      BY DEF IInv, TypeOK, CredsIssued, Issued
    <2>5. inc[x] \in cands[y][x]
      BY <1>2, <2>1, <2>2 DEF CandidateCarried
    <2>6. QED
      BY <1>5, <2>3, <2>4, <2>5
  <1>6. Dials(n, p) # Dials(p, n)
    <2>1. WgKey[n] \in Nat /\ WgKey[p] \in Nat /\ WgKey[n] # WgKey[p]
      BY NegotiationAssumption
    <2>2. QED
      BY <2>1 DEF Dials
  <1>7. p \in linked[n] /\ n \in linked[p]
    <2>1. ~CanConnect(n, p) /\ ~CanConnect(p, n)
      BY DEF Quiet
    <2>2. QED
      BY <1>1, <1>4, <1>5, <1>6, <2>1 DEF CanConnect
  <1>8. QED
    BY <1>1, <1>4, <1>5, <1>7 DEF Meshed

\* For any set of nodes the handshake never stalls half-way: undisturbed
\* daemons that have nothing left to do are linked, every two of them.
THEOREM NoStallCorrect == Spec => []NoStall
  <1>1. Init => Carried
    BY DEF Init, Carried, UpListed, WaiterStages, OfferCarried, AnswerCarried,
       CandidateCarried, Engaged, InFlight, Up
  <1>2. IInv /\ Carried /\ [Next]_vars => Carried'
    BY StepCarried
  <1>3. QED
    BY <1>1, <1>2, InductiveInvariant, QuietIsMeshed, PTL DEF Spec
=============================================================================
