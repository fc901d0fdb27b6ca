----------------------------- MODULE WireProxy ------------------------------
(***************************************************************************)
(* The wire proxies at the two ends of one connection: StartProxy, the two *)
(* pumps, Stop, and the Conn.Close and closeIceAgent that follow it, with  *)
(* WireGuard between its configured endpoint and the pumps.                *)
(*                                                                         *)
(* Each end decides for itself, from the candidate pair that its agent     *)
(* shows it, whether WireGuard goes through the pumps or sends straight to *)
(* the peer's address and the WireGuard port.  The two may decide          *)
(* differently, the address may not be one that can be reached, and the    *)
(* firewall there may let in only the answers to what was sent from it.    *)
(***************************************************************************)
EXTENDS Naturals

CONSTANTS
    A, B,       \* the two ends
    Stopping    \* those that may be told to stop

ASSUME EndsAssumption == A # B /\ Stopping \subseteq {A, B}

VARIABLES
    useProxy,   \* useProxy[e]: what shouldUseProxy says of e's pair
    direct,     \* direct[e]: e skips the proxy and sends to an address that is its
                \* peer's own
    filtered,   \* the ends whose firewall lets in answers only, where it matters
    stranded,   \* both ends skip the proxy and neither gets through
    starter,    \* starter[e]: where StartProxy is
    localConn,  \* the ends whose localConn is set
    cancelled,  \* the ends whose context is cancelled
    closed,     \* the ends whose agent is closed
    closer,     \* closer[e]: where Ice.Cleanup is
    localPump,  \* localPump[e]: monLocalToRemoteProxy
    remotePump, \* remotePump[e]: monRemoteToLocalProxy
    toLocal,    \* the ends where a packet waits on localConn
    toRemote,   \* the ends where a packet waits on remoteConn
    endpoint,   \* endpoint[e]: where e's WireGuard sends for its peer
    heard,      \* the ends whose WireGuard has a session with its peer
    late,       \* late[e]: packets forwarded by e's pumps since its Stop
    overtaken   \* the ends where Stop ran while StartProxy had not returned

netVars   == <<useProxy, direct, filtered, stranded>>
pumpVars  == <<localPump, remotePump, late>>
wgVars    == <<endpoint, heard>>
ctlVars   == <<starter, localConn, cancelled, closed, closer, overtaken>>
vars == <<netVars, ctlVars, pumpVars, toLocal, toRemote, wgVars>>

Ends == {A, B}

Peer(e) == IF e = A THEN B ELSE A

----------------------------------------------------------------------------
(* The network and the selected pair                                       *)

\* Where an end is: on a public address, behind a NAT with a private one, or
\* behind a carrier NAT, whose addresses IsPublicIP takes for public.
Places == {"public", "nat", "carrier"}

IsPublicIP(place) == place # "nat"

\* A candidate has a type and an address that is public or not.
Candidate(t, public) == [type |-> t, public |-> public]

\* What an end's own agent shows as its local candidate.
Local(t, place) == Candidate(t, IF t = "host" THEN IsPublicIP(place) ELSE TRUE)

LocalTypes(place) == IF place = "public" THEN {"host", "relay"} ELSE {"host", "srflx", "relay"}

\* The peer's host address is its own: it is public, or on the same LAN.
Direct(t, place, lan) == t = "host" /\ (lan \/ place = "public")

\* How the other end's agent shows that candidate: as signalled, or peer
\* reflexive when a check came first.
RemoteTypes(t, place, lan) ==
    {"prflx", IF t = "host" /\ ~Direct(t, place, lan) THEN "srflx" ELSE t}

Remote(seen, t, place, lan) ==
    Candidate(seen, IF Direct(t, place, lan) THEN IsPublicIP(place) ELSE TRUE)

shouldUseProxy(local, remote) ==
    /\ ~(remote.public /\ remote.type = "host")
    /\ ~(local.public /\ local.type = "host")
    /\ ~(local.type = "host" /\ remote.type = "host" /\ ~remote.public /\ ~local.public)

\* Both ends skip the proxy and neither gets through: behind carrier NATs of
\* different networks, or because one has a firewall that takes the other's
\* packets for unasked and the other has no address of its own to be asked at.
Stranded(place, lan) ==
    /\ \A e \in Ends : ~useProxy[e]
    /\ \/ ~lan /\ \A e \in Ends : place[e] = "carrier"
       \/ \E e \in filtered : ~direct[e]

Init ==
    /\ \E place \in [Ends -> Places], lan \in BOOLEAN :
          \E type \in [Ends -> {"host", "srflx", "relay"}],
             seen \in [Ends -> {"host", "srflx", "relay", "prflx"}] :
             /\ \A e \in Ends :
                   /\ type[e] \in LocalTypes(place[e])
                   /\ seen[e] \in RemoteTypes(type[e], place[e], lan)
             /\ useProxy = [e \in Ends |->
                   LET p == Peer(e)
                   IN  shouldUseProxy(Local(type[e], place[e]),
                                      Remote(seen[p], type[p], place[p], lan))]
             /\ direct = [e \in Ends |->
                   ~useProxy[e] /\ Direct(type[Peer(e)], place[Peer(e)], lan)]
             /\ filtered \in SUBSET {e \in Ends : direct[Peer(e)]}
             /\ stranded = Stranded(place, lan)
    /\ starter = [e \in Ends |-> "idle"]
    /\ localConn = {} /\ cancelled = {} /\ closed = {} /\ overtaken = {}
    /\ closer = [e \in Ends |-> "none"]
    /\ localPump = [e \in Ends |-> "off"]
    /\ remotePump = [e \in Ends |-> "off"]
    /\ late = [e \in Ends |-> [local |-> 0, remote |-> 0]]
    /\ toLocal = {} /\ toRemote = {}
    /\ endpoint = [e \in Ends |-> "none"]
    /\ heard = {}

----------------------------------------------------------------------------
(* StartProxy                                                              *)

Goto(e, from, to) == starter[e] = from /\ starter' = [starter EXCEPT ![e] = to]

setup(e) ==
    /\ \/ Goto(e, "idle", "pair") /\ localConn' = localConn \cup {e}
       \/ Goto(e, "idle", "failed") /\ UNCHANGED localConn
    /\ UNCHANGED <<netVars, cancelled, closed, closer, overtaken, pumpVars, toLocal, toRemote, wgVars>>

\* A closed agent may keep its pair or have none to give.
GetSelectedCandidatePair(e) ==
    /\ \/ Goto(e, "pair", "configure")
       \/ e \in closed /\ Goto(e, "pair", "failed")
    /\ UNCHANGED <<netVars, localConn, cancelled, closed, closer, overtaken, pumpVars,
                   toLocal, toRemote, wgVars>>

\* configureWireProxy or configureNoProxy.
Configure(e) ==
    /\ \/ /\ Goto(e, "configure", "mon")
          /\ endpoint' = [endpoint EXCEPT ![e] = IF useProxy[e] THEN "proxy" ELSE "address"]
       \/ Goto(e, "configure", "failed") /\ UNCHANGED endpoint
    /\ UNCHANGED <<netVars, localConn, cancelled, closed, closer, overtaken, pumpVars,
                   toLocal, toRemote, heard>>

StartMonIfProxied(e) ==
    /\ Goto(e, "mon", "done")
    /\ localPump' = [localPump EXCEPT ![e] = IF useProxy[e] THEN "top" ELSE @]
    /\ remotePump' = [remotePump EXCEPT ![e] = IF useProxy[e] THEN "top" ELSE @]
    /\ UNCHANGED <<netVars, localConn, cancelled, closed, closer, overtaken, late,
                   toLocal, toRemote, wgVars>>

\* Both branches start the pumps, also when WireGuard does not need them.
startMon(e) ==
    /\ Goto(e, "mon", "done")
    /\ localPump' = [localPump EXCEPT ![e] = "top"]
    /\ remotePump' = [remotePump EXCEPT ![e] = "top"]
    /\ UNCHANGED <<netVars, localConn, cancelled, closed, closer, overtaken, late,
                   toLocal, toRemote, wgVars>>

StartProxy(e) == setup(e) \/ GetSelectedCandidatePair(e) \/ Configure(e) \/ startMon(e)

----------------------------------------------------------------------------
(* The pumps                                                               *)

\* A loop looks at the context and then reads without a deadline.
LoopsUnchecked(e, pump) == pump[e] = "top" /\ pump' = [pump EXCEPT ![e] = "read"]

Loops(e, pump) ==
    /\ pump[e] = "top"
    /\ pump' = [pump EXCEPT ![e] = IF e \in cancelled THEN "done" ELSE "read"]

PumpLoops(e) ==
    /\ \/ Loops(e, localPump) /\ UNCHANGED remotePump
       \/ Loops(e, remotePump) /\ UNCHANGED localPump
    /\ UNCHANGED <<netVars, ctlVars, late, toLocal, toRemote, wgVars>>

\* A packet from WireGuard goes to the peer's agent, or the write fails.
monLocalToRemoteProxy(e) ==
    /\ localPump[e] = "read"
    /\ e \in toLocal
    /\ toLocal' = toLocal \ {e}
    /\ toRemote' = IF closed = {} THEN toRemote \cup {Peer(e)} ELSE toRemote
    /\ localPump' = [localPump EXCEPT ![e] = "top"]
    /\ late' = IF e \in cancelled THEN [late EXCEPT ![e].local = @ + 1] ELSE late
    /\ UNCHANGED <<netVars, ctlVars, remotePump, wgVars>>

\* A packet from the peer goes to WireGuard, which answers to where it came
\* from: the source is localConn, whatever endpoint was configured.
monRemoteToLocalProxy(e) ==
    /\ remotePump[e] = "read"
    /\ e \in toRemote \ closed
    /\ toRemote' = toRemote \ {e}
    /\ remotePump' = [remotePump EXCEPT ![e] = "top"]
    /\ late' = IF e \in cancelled THEN [late EXCEPT ![e].remote = @ + 1] ELSE late
    /\ IF endpoint[e] # "none"
          THEN endpoint' = [endpoint EXCEPT ![e] = "proxy"] /\ heard' = heard \cup {e}
          ELSE UNCHANGED wgVars
    /\ UNCHANGED <<netVars, ctlVars, localPump, toLocal>>

\* localConn.Read returns the refusal of an earlier packet, and the loop goes on.
LocalReadFails(e) ==
    /\ localPump[e] = "read"
    /\ e \notin toLocal
    /\ localPump' = [localPump EXCEPT ![e] = "top"]
    /\ UNCHANGED <<netVars, ctlVars, remotePump, late, toLocal, toRemote, wgVars>>

\* remoteConn.Read fails once the agent is closed, and the loop goes on.
ReadFails(e) ==
    /\ remotePump[e] = "read"
    /\ e \in closed
    /\ remotePump' = [remotePump EXCEPT ![e] = "top"]
    /\ UNCHANGED <<netVars, ctlVars, localPump, late, toLocal, toRemote, wgVars>>

----------------------------------------------------------------------------
(* WireGuard                                                               *)

\* The firewall of e takes its peer's packets for answers: e's WireGuard sends
\* its keepalives, from the same port, to where they come from.
LetsIn(e) ==
    \/ e \notin filtered
    \/ endpoint[e] = "address" /\ direct[e]
    \/ endpoint[e] = "roamed"

\* WireGuard sends, at least its keepalives, to the endpoint.  Straight to
\* the peer it can be heard if the address is the peer's own and its firewall
\* lets the packet in, or if the peer has sent from there, and then the peer
\* answers to where the packet came from.
WgSends(e) ==
    LET p == Peer(e) IN
    /\ endpoint[e] # "none"
    /\ \/ endpoint[e] = "proxy" /\ toLocal' = toLocal \cup {e} /\ UNCHANGED wgVars
       \/ /\ endpoint[e] = "roamed" \/ (endpoint[e] = "address" /\ direct[e] /\ LetsIn(p))
          /\ endpoint[p] # "none"
          /\ endpoint' = [endpoint EXCEPT ![p] = "roamed"]
          /\ heard' = heard \cup {p}
          /\ UNCHANGED toLocal
    /\ UNCHANGED <<netVars, ctlVars, pumpVars, toRemote>>

\* A session does not last: the peer has to be heard again.
SessionExpires(e) ==
    /\ e \in heard
    /\ heard' = heard \ {e}
    /\ UNCHANGED <<netVars, ctlVars, pumpVars, toLocal, toRemote, endpoint>>

----------------------------------------------------------------------------
(* Ice.Cleanup: Conn.Close with WireProxy.Stop, then closeIceAgent         *)

CloserGoto(e, from, to) == closer[e] = from /\ closer' = [closer EXCEPT ![e] = to]

StopKeepsContext(e) ==
    /\ e \in Stopping
    /\ CloserGoto(e, "none", IF e \in localConn THEN "remove" ELSE "agent")
    /\ overtaken' = IF starter[e] \in {"done", "failed"} THEN overtaken ELSE overtaken \cup {e}
    /\ UNCHANGED <<netVars, starter, localConn, cancelled, closed, pumpVars,
                   toLocal, toRemote, wgVars>>

\* The context is cancelled; without a localConn that is all.
Stop(e) ==
    /\ e \in Stopping
    /\ CloserGoto(e, "none", IF e \in localConn THEN "remove" ELSE "agent")
    /\ cancelled' = cancelled \cup {e}
    /\ overtaken' = IF starter[e] \in {"done", "failed"} THEN overtaken ELSE overtaken \cup {e}
    /\ UNCHANGED <<netVars, starter, localConn, closed, pumpVars, toLocal, toRemote, wgVars>>

RemoveSkippedWithoutProxy(e) ==
    /\ \/ CloserGoto(e, "remove", "agent")
       \/ CloserGoto(e, "remove", "failed")
    /\ endpoint' = [endpoint EXCEPT ![e] = IF useProxy[e] THEN "none" ELSE @]
    /\ UNCHANGED <<netVars, starter, localConn, cancelled, closed, overtaken, pumpVars,
                   toLocal, toRemote, heard>>

\* A failure ends the cleanup: the agent stays open.
RemoveRemotePeer(e) ==
    /\ \/ /\ CloserGoto(e, "remove", "agent")
          /\ endpoint' = [endpoint EXCEPT ![e] = "none"]
          /\ heard' = heard \ {e}
       \/ CloserGoto(e, "remove", "failed") /\ UNCHANGED wgVars
    /\ UNCHANGED <<netVars, starter, localConn, cancelled, closed, overtaken, pumpVars,
                   toLocal, toRemote>>

closeIceAgent(e) ==
    /\ \/ CloserGoto(e, "agent", "done") /\ closed' = closed \cup {e}
       \/ CloserGoto(e, "agent", "failed") /\ UNCHANGED closed
    /\ UNCHANGED <<netVars, starter, localConn, cancelled, overtaken, pumpVars,
                   toLocal, toRemote, wgVars>>

----------------------------------------------------------------------------
Next ==
    \E e \in Ends :
        \/ StartProxy(e)
        \/ PumpLoops(e)
        \/ monLocalToRemoteProxy(e)
        \/ monRemoteToLocalProxy(e)
        \/ LocalReadFails(e)
        \/ ReadFails(e)
        \/ WgSends(e)
        \/ SessionExpires(e)
        \/ Stop(e)
        \/ RemoveRemotePeer(e)
        \/ closeIceAgent(e)

Spec == Init /\ [][Next]_vars

\* Goroutines run, and WireGuard sends its keepalives.
Fairness ==
    \A e \in Ends :
        /\ WF_vars(StartProxy(e))
        /\ WF_vars(PumpLoops(e) /\ localPump' # localPump)
        /\ WF_vars(PumpLoops(e) /\ remotePump' # remotePump)
        /\ WF_vars(monLocalToRemoteProxy(e))
        /\ WF_vars(monRemoteToLocalProxy(e))
        /\ WF_vars(ReadFails(e))
        /\ WF_vars(WgSends(e))

FairSpec == Spec /\ Fairness

----------------------------------------------------------------------------
PumpStates == {"off", "top", "read", "done"}

TypeOK ==
    /\ useProxy \in [Ends -> BOOLEAN]
    /\ direct \in [Ends -> BOOLEAN]
    /\ filtered \subseteq Ends
    /\ stranded \in BOOLEAN
    /\ starter \in [Ends -> {"idle", "pair", "configure", "mon", "done", "failed"}]
    /\ localConn \subseteq Ends
    /\ cancelled \subseteq Ends
    /\ closed \subseteq Ends
    /\ overtaken \subseteq Ends
    /\ closer \in [Ends -> {"none", "remove", "agent", "done", "failed"}]
    /\ localPump \in [Ends -> PumpStates]
    /\ remotePump \in [Ends -> PumpStates]
    /\ late \in [Ends -> [local : Nat, remote : Nat]]
    /\ toLocal \subseteq Ends
    /\ toRemote \subseteq Ends
    /\ endpoint \in [Ends -> {"none", "proxy", "address", "roamed"}]
    /\ heard \subseteq Ends

\* Once an end is told to stop, each of its pumps forwards one packet at the
\* most: the one it was reading for when the context was cancelled.
LateForwardsBounded == \A e \in Ends : late[e].local <= 1 /\ late[e].remote <= 1

\* A cleaned-up peer is gone from the interface, whether its proxy was in use
\* or not, unless Stop overtook a StartProxy that had yet to configure it.
CleanedPeerIsOff == \A e \in Ends : closer[e] = "done" => endpoint[e] = "none" \/ e \in overtaken

\* After a cleanup that succeeded the pump that reads from the peer ends.
RemotePumpEnds ==
    \A e \in Ends : closer[e] = "done" /\ remotePump[e] # "off" ~> remotePump[e] = "done"

Running == {"top", "read"}

\* What e's WireGuard sends reaches its peer: through the pumps of both ends,
\* straight to an address of the peer's own that lets the packets in, or back
\* to where the peer has sent from.
Path(e) ==
    \/ /\ endpoint[e] = "proxy"
       /\ localPump[e] \in Running /\ remotePump[Peer(e)] \in Running
       /\ closed = {}
    \/ endpoint[e] = "address" /\ direct[e] /\ LetsIn(Peer(e))
    \/ endpoint[e] = "roamed"

\* Two ends that are through StartProxy and not told to stop have a path, in
\* one direction at least, and an end that has heard its peer has one back:
\* no combination of candidate types, addresses, firewalls and views of the
\* pair makes both of them send to addresses that take no packets, or one send
\* into pumps that the other has not started, except for the two in which
\* shouldUseProxy strands them: two carrier NATs, and a public host behind a
\* firewall whose peer is known by a NAT's or a relay's address.
PathOpen ==
    (\A e \in Ends : starter[e] = "done" /\ closer[e] = "none") =>
        /\ ~stranded => \E e \in Ends : Path(e)
        /\ \A e \in heard : Path(e)

\* The two WireGuards keep hearing each other, however differently the two
\* ends see the pair and decide about the proxy, and although one of them may
\* send to an address that takes no packets: the pumps of the other one bring
\* a packet whose source WireGuard then answers to, and two firewalls take each
\* other's packets for answers.  Only the pairs that shouldUseProxy strands
\* are left without a path.
TunnelStaysUp ==
    [](~stranded /\ \A e \in Ends : closer[e] = "none" /\ starter[e] # "failed")
        => \A e \in Ends : []<>(e \in heard)
=============================================================================
