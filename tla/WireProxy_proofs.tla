-------------------------- MODULE WireProxy_proofs ---------------------------
(***************************************************************************)
(* Proofs about WireProxy, for any two ends and whichever of them may be   *)
(* told to stop.                                                           *)
(***************************************************************************)
EXTENDS WireProxy, TLAPS

----------------------------------------------------------------------------
(* Types                                                                   *)

\* The peer of an end is an end.
LEMMA PeerIsEnd == \A e \in Ends : Peer(e) \in Ends
  BY DEF Ends, Peer

\* A step of a proxy, a pump, a cleanup or WireGuard keeps the types.
LEMMA TypeStep == TypeOK /\ [Next]_vars => TypeOK'
<1> SUFFICES ASSUME TypeOK, [Next]_vars PROVE TypeOK'
  OBVIOUS
<1> USE PeerIsEnd DEF TypeOK, PumpStates, netVars, pumpVars, wgVars, ctlVars
<1>1. ASSUME NEW e \in Ends, setup(e) PROVE TypeOK'
  BY <1>1 DEF setup, Goto
<1>2. ASSUME NEW e \in Ends, GetSelectedCandidatePair(e) PROVE TypeOK'
  BY <1>2 DEF GetSelectedCandidatePair, Goto
<1>3. ASSUME NEW e \in Ends, Configure(e) PROVE TypeOK'
  <2>1. endpoint' \in [Ends -> {"none", "proxy", "address", "roamed"}]
    BY <1>3 DEF Configure
  <2> QED
    BY <1>3, <2>1 DEF Configure, Goto
<1>4. ASSUME NEW e \in Ends, startMon(e) PROVE TypeOK'
  BY <1>4 DEF startMon, Goto
<1>5. ASSUME NEW e \in Ends, PumpLoops(e) PROVE TypeOK'
  BY <1>5 DEF PumpLoops, Loops
<1>6. ASSUME NEW e \in Ends, monLocalToRemoteProxy(e) PROVE TypeOK'
  BY <1>6 DEF monLocalToRemoteProxy
<1>7. ASSUME NEW e \in Ends, monRemoteToLocalProxy(e) PROVE TypeOK'
  <2>1. /\ endpoint' \in [Ends -> {"none", "proxy", "address", "roamed"}]
        /\ heard' \subseteq Ends
    BY <1>7 DEF monRemoteToLocalProxy
  <2>2. late' \in [Ends -> [local : Nat, remote : Nat]]
    BY <1>7 DEF monRemoteToLocalProxy
  <2>3. remotePump' \in [Ends -> PumpStates] /\ toRemote' \subseteq Ends
    BY <1>7 DEF monRemoteToLocalProxy
  <2> QED
    BY <1>7, <2>1, <2>2, <2>3 DEF monRemoteToLocalProxy
<1>8. ASSUME NEW e \in Ends, LocalReadFails(e) PROVE TypeOK'
  BY <1>8 DEF LocalReadFails
<1>9. ASSUME NEW e \in Ends, ReadFails(e) PROVE TypeOK'
  BY <1>9 DEF ReadFails
<1>10. ASSUME NEW e \in Ends, WgSends(e) PROVE TypeOK'
  BY <1>10 DEF WgSends
<1>11. ASSUME NEW e \in Ends, SessionExpires(e) PROVE TypeOK'
  BY <1>11 DEF SessionExpires
<1>12. ASSUME NEW e \in Ends, Stop(e) PROVE TypeOK'
  BY <1>12 DEF Stop, CloserGoto
<1>13. ASSUME NEW e \in Ends, RemoveRemotePeer(e) PROVE TypeOK'
  <2>1. endpoint' \in [Ends -> {"none", "proxy", "address", "roamed"}]
    BY <1>13 DEF RemoveRemotePeer
  <2> QED
    BY <1>13, <2>1 DEF RemoveRemotePeer, CloserGoto
<1>14. ASSUME NEW e \in Ends, closeIceAgent(e) PROVE TypeOK'
  BY <1>14 DEF closeIceAgent, CloserGoto
<1>15. CASE UNCHANGED vars
  BY <1>15 DEF vars
<1> QED
  BY <1>1, <1>2, <1>3, <1>4, <1>5, <1>6, <1>7, <1>8, <1>9,
     <1>10, <1>11, <1>12, <1>13, <1>14, <1>15 DEF Next, StartProxy

\* The decisions about the proxy and the addresses are Booleans.
LEMMA InitTyped == Init => TypeOK
<1> SUFFICES ASSUME Init PROVE TypeOK
  OBVIOUS
<1>1. useProxy \in [Ends -> BOOLEAN]
  BY DEF Init, shouldUseProxy
<1>2. direct \in [Ends -> BOOLEAN] /\ filtered \subseteq Ends
  BY DEF Init, Direct
<1>3. stranded \in BOOLEAN
  BY Zenon DEF Init, Stranded
<1> QED
  BY <1>1, <1>2, <1>3 DEF Init, TypeOK, PumpStates

\* The variables keep their types.
THEOREM TypeCorrect == Spec => []TypeOK
  BY InitTyped, TypeStep, PTL DEF Spec

----------------------------------------------------------------------------
(* The pumps after Stop                                                    *)

\* Nothing is forwarded late before Stop, and a pump that still reads after
\* it has not forwarded anything since.
LateInv ==
    /\ LateForwardsBounded
    /\ \A e \in Ends :
          /\ e \notin cancelled => late[e].local = 0 /\ late[e].remote = 0
          /\ localPump[e] = "read" => late[e].local = 0
          /\ remotePump[e] = "read" => late[e].remote = 0

\* A step of a proxy, a pump, a cleanup or WireGuard keeps it.
LEMMA LateStep == TypeOK /\ LateInv /\ [Next]_vars => LateInv'
<1> SUFFICES ASSUME TypeOK, LateInv, [Next]_vars PROVE LateInv'
  OBVIOUS
<1> USE DEF TypeOK, PumpStates, LateInv, LateForwardsBounded, netVars, pumpVars, wgVars, ctlVars
<1>1. ASSUME NEW e \in Ends, setup(e) PROVE LateInv'
  BY <1>1 DEF setup, Goto
<1>2. ASSUME NEW e \in Ends, GetSelectedCandidatePair(e) PROVE LateInv'
  BY <1>2 DEF GetSelectedCandidatePair, Goto
<1>3. ASSUME NEW e \in Ends, Configure(e) PROVE LateInv'
  BY <1>3 DEF Configure, Goto
<1>4. ASSUME NEW e \in Ends, startMon(e) PROVE LateInv'
  BY <1>4 DEF startMon, Goto
<1>5. ASSUME NEW e \in Ends, PumpLoops(e) PROVE LateInv'
  BY <1>5 DEF PumpLoops, Loops
<1>6. ASSUME NEW e \in Ends, monLocalToRemoteProxy(e) PROVE LateInv'
  BY <1>6 DEF monLocalToRemoteProxy
<1>7. ASSUME NEW e \in Ends, monRemoteToLocalProxy(e) PROVE LateInv'
  BY <1>7 DEF monRemoteToLocalProxy
<1>8. ASSUME NEW e \in Ends, LocalReadFails(e) PROVE LateInv'
  BY <1>8 DEF LocalReadFails
<1>9. ASSUME NEW e \in Ends, ReadFails(e) PROVE LateInv'
  BY <1>9 DEF ReadFails
<1>10. ASSUME NEW e \in Ends, WgSends(e) PROVE LateInv'
  BY <1>10 DEF WgSends
<1>11. ASSUME NEW e \in Ends, SessionExpires(e) PROVE LateInv'
  BY <1>11 DEF SessionExpires
<1>12. ASSUME NEW e \in Ends, Stop(e) PROVE LateInv'
  BY <1>12 DEF Stop, CloserGoto
<1>13. ASSUME NEW e \in Ends, RemoveRemotePeer(e) PROVE LateInv'
  BY <1>13 DEF RemoveRemotePeer, CloserGoto
<1>14. ASSUME NEW e \in Ends, closeIceAgent(e) PROVE LateInv'
  BY <1>14 DEF closeIceAgent, CloserGoto
<1>15. CASE UNCHANGED vars
  BY <1>15 DEF vars
<1> QED
  BY <1>1, <1>2, <1>3, <1>4, <1>5, <1>6, <1>7, <1>8, <1>9,
     <1>10, <1>11, <1>12, <1>13, <1>14, <1>15 DEF Next, StartProxy

\* Each pump forwards one packet at the most after Stop.
THEOREM LateCorrect == Spec => []LateForwardsBounded
<1>1. Init => LateInv
  BY DEF Init, LateInv, LateForwardsBounded
<1>2. LateInv => LateForwardsBounded
  BY DEF LateInv
<1> QED
  BY <1>1, <1>2, TypeCorrect, LateStep, PTL DEF Spec

----------------------------------------------------------------------------
(* The cleanup                                                             *)

\* WireGuard knows a peer only behind a localConn, the pumps start last, and
\* the agent is closed last, after the context was cancelled.
ClosedInv ==
    \A e \in Ends :
        /\ starter[e] # "done" => remotePump[e] = "off"
        /\ starter[e] \in {"pair", "configure", "mon", "done"} => e \in localConn
        /\ endpoint[e] # "none" => e \in localConn
        /\ closer[e] # "none" => e \in cancelled
        /\ e \in closed => closer[e] = "done"

\* A cleanup that StartProxy preceded finds nobody who would configure the
\* peer again once it is removed.
RemovedInv ==
    \A e \in Ends \ overtaken :
        /\ closer[e] # "none" => starter[e] \in {"done", "failed"}
        /\ closer[e] \in {"agent", "done"} => endpoint[e] = "none"

CleanInv == ClosedInv /\ RemovedInv

\* A step of a proxy, a pump, a cleanup or WireGuard keeps it.
LEMMA CleanStep == TypeOK /\ CleanInv /\ [Next]_vars => CleanInv'
<1> SUFFICES ASSUME TypeOK, CleanInv, [Next]_vars PROVE CleanInv'
  OBVIOUS
<1> USE PeerIsEnd DEF TypeOK, CleanInv, ClosedInv, RemovedInv, netVars, pumpVars, wgVars, ctlVars
<1>1. ASSUME NEW e \in Ends, setup(e) PROVE CleanInv'
  BY <1>1 DEF setup, Goto
<1>2. ASSUME NEW e \in Ends, GetSelectedCandidatePair(e) PROVE CleanInv'
  BY <1>2 DEF GetSelectedCandidatePair, Goto
<1>3. ASSUME NEW e \in Ends, Configure(e) PROVE CleanInv'
  BY <1>3 DEF Configure, Goto
<1>4. ASSUME NEW e \in Ends, startMon(e) PROVE CleanInv'
  BY <1>4 DEF startMon, Goto
<1>5. ASSUME NEW e \in Ends, PumpLoops(e) PROVE CleanInv'
  BY <1>5 DEF PumpLoops, Loops
<1>6. ASSUME NEW e \in Ends, monLocalToRemoteProxy(e) PROVE CleanInv'
  BY <1>6 DEF monLocalToRemoteProxy
<1>7. ASSUME NEW e \in Ends, monRemoteToLocalProxy(e) PROVE CleanInv'
  BY <1>7 DEF monRemoteToLocalProxy
<1>8. ASSUME NEW e \in Ends, LocalReadFails(e) PROVE CleanInv'
  BY <1>8 DEF LocalReadFails
<1>9. ASSUME NEW e \in Ends, ReadFails(e) PROVE CleanInv'
  BY <1>9 DEF ReadFails
<1>10. ASSUME NEW e \in Ends, WgSends(e) PROVE CleanInv'
  BY <1>10 DEF WgSends
<1>11. ASSUME NEW e \in Ends, SessionExpires(e) PROVE CleanInv'
  BY <1>11 DEF SessionExpires
<1>12. ASSUME NEW e \in Ends, Stop(e) PROVE CleanInv'
  BY <1>12 DEF Stop, CloserGoto
<1>13. ASSUME NEW e \in Ends, RemoveRemotePeer(e) PROVE CleanInv'
  BY <1>13 DEF RemoveRemotePeer, CloserGoto
<1>14. ASSUME NEW e \in Ends, closeIceAgent(e) PROVE CleanInv'
  BY <1>14 DEF closeIceAgent, CloserGoto
<1>15. CASE UNCHANGED vars
  BY <1>15 DEF vars
<1> QED
  BY <1>1, <1>2, <1>3, <1>4, <1>5, <1>6, <1>7, <1>8, <1>9,
     <1>10, <1>11, <1>12, <1>13, <1>14, <1>15 DEF Next, StartProxy

\* The order of the cleanup is kept in every reachable state.
THEOREM InductiveInvariant == Spec => []CleanInv
<1>1. Init => CleanInv
  BY DEF Init, CleanInv, ClosedInv, RemovedInv
<1> QED
  BY <1>1, TypeCorrect, CleanStep, PTL DEF Spec

\* The steps that are left to the pump of a closed agent.
WindingDown == {<<"off", "top">>, <<"read", "top">>, <<"top", "done">>}

\* No pump spins on an agent whose reads fail because it is closed: from then
\* on the pump takes three steps at most and does not read again.
PumpWindsDown ==
    [][\A e \in closed : \/ remotePump'[e] = remotePump[e]
                         \/ <<remotePump[e], remotePump'[e]>> \in WindingDown]_vars

\* closeIceAgent comes after Stop has cancelled the context, so a pump whose
\* reads fail ends; fairness turns this into RemotePumpEnds.
THEOREM WindDownCorrect == Spec => PumpWindsDown
<1> DEFINE Step == \A e \in closed : \/ remotePump'[e] = remotePump[e]
                                     \/ <<remotePump[e], remotePump'[e]>> \in WindingDown
<1>1. TypeOK /\ CleanInv /\ [Next]_vars => [Step]_vars
  <2> SUFFICES ASSUME TypeOK, CleanInv, Next, NEW e \in closed
               PROVE  \/ remotePump'[e] = remotePump[e]
                      \/ <<remotePump[e], remotePump'[e]>> \in WindingDown
    OBVIOUS
  <2>1. e \in Ends /\ e \in cancelled
    BY DEF TypeOK, CleanInv, ClosedInv
  <2> USE <2>1 DEF TypeOK, PumpStates, WindingDown
  <2>2. PICK d \in Ends : \/ StartProxy(d) \/ PumpLoops(d) \/ monLocalToRemoteProxy(d)
                          \/ monRemoteToLocalProxy(d) \/ LocalReadFails(d) \/ ReadFails(d)
                          \/ WgSends(d) \/ SessionExpires(d) \/ Stop(d)
                          \/ RemoveRemotePeer(d) \/ closeIceAgent(d)
    BY DEF Next
  <2>3. CASE startMon(d)
    BY <2>3 DEF startMon, Goto, CleanInv, ClosedInv
  <2>4. CASE PumpLoops(d)
    BY <2>4 DEF PumpLoops, Loops
  <2>5. CASE monRemoteToLocalProxy(d) \/ ReadFails(d)
    BY <2>5 DEF monRemoteToLocalProxy, ReadFails
  <2>6. CASE ~startMon(d) /\ ~PumpLoops(d) /\ ~monRemoteToLocalProxy(d) /\ ~ReadFails(d)
    BY <2>2, <2>6 DEF StartProxy, setup, GetSelectedCandidatePair, Configure,
       monLocalToRemoteProxy, LocalReadFails, WgSends, SessionExpires, Stop,
       RemoveRemotePeer, closeIceAgent, pumpVars
  <2> QED
    BY <2>3, <2>4, <2>5, <2>6
<1> QED
  BY <1>1, TypeCorrect, InductiveInvariant, PTL DEF Spec, PumpWindsDown

\* A cleaned-up peer is off the interface unless Stop overtook StartProxy.
THEOREM CleanedCorrect == Spec => []CleanedPeerIsOff
<1>1. CleanInv => CleanedPeerIsOff
  BY DEF CleanInv, RemovedInv, CleanedPeerIsOff
<1> QED
  BY <1>1, InductiveInvariant, PTL

----------------------------------------------------------------------------
(* The path between the two WireGuards                                     *)

\* An end that skips the proxy, although its peer's address takes no packets,
\* does so because its own host address looks public.
LEMMA SkipsForItsOwnAddress ==
    ASSUME NEW t, NEW place \in Places, t \in LocalTypes(place),
           NEW tp, NEW placep \in Places, tp \in LocalTypes(placep), NEW lan \in BOOLEAN,
           NEW seen \in RemoteTypes(tp, placep, lan),
           ~shouldUseProxy(Local(t, place), Remote(seen, tp, placep, lan)),
           ~Direct(tp, placep, lan)
    PROVE  t = "host" /\ place # "nat"
<1>1. seen # "host"
  BY DEF RemoteTypes, Direct, LocalTypes, Places
<1>2. Remote(seen, tp, placep, lan).type = seen /\ Local(t, place).type = t
  BY DEF Remote, Local, Candidate
<1>3. Local(t, place).public /\ t = "host"
  BY <1>1, <1>2 DEF shouldUseProxy
<1> QED
  BY <1>3 DEF Local, Candidate, IsPublicIP

\* The end gets through: by the proxy, or because its peer's own address has
\* no firewall, or a firewall that the peer's own sending opens.
GetsThrough(e) == useProxy[e] \/ (direct[e] /\ (Peer(e) \notin filtered \/ direct[Peer(e)]))

\* However the two ends see their pair, one of them gets through, unless both
\* skip the proxy in one of the two ways that Stranded names.
LEMMA SomeEndGetsThrough == Init => stranded \/ \E e \in Ends : GetsThrough(e)
<1> SUFFICES ASSUME Init, \A e \in Ends : ~GetsThrough(e) PROVE stranded
  OBVIOUS
<1> DEFINE Sees(place, lan, type, seen) ==
             /\ \A e \in Ends :
                   /\ type[e] \in LocalTypes(place[e])
                   /\ seen[e] \in RemoteTypes(type[e], place[e], lan)
             /\ useProxy = [e \in Ends |->
                   shouldUseProxy(Local(type[e], place[e]),
                                  Remote(seen[Peer(e)], type[Peer(e)], place[Peer(e)], lan))]
             /\ direct = [e \in Ends |->
                   ~useProxy[e] /\ Direct(type[Peer(e)], place[Peer(e)], lan)]
             /\ filtered \in SUBSET {e \in Ends : direct[Peer(e)]}
             /\ stranded = Stranded(place, lan)
<1>1. PICK place \in [Ends -> Places], lan \in BOOLEAN,
           type \in [Ends -> {"host", "srflx", "relay"}],
           seen \in [Ends -> {"host", "srflx", "relay", "prflx"}] :
           Sees(place, lan, type, seen)
  BY Zenon DEF Init
<1>2. ASSUME NEW e \in Ends PROVE ~useProxy[e]
  BY DEF GetsThrough
<1>3. CASE \E e \in Ends : direct[e]
  <2>1. PICK e \in Ends : direct[e]
    BY <1>3
  <2>2. Peer(e) \in filtered /\ ~direct[Peer(e)]
    BY <2>1 DEF GetsThrough
  <2> QED
    BY <1>1, <1>2, <2>2 DEF Stranded
<1>4. CASE \A e \in Ends : ~direct[e]
  <2>1. ASSUME NEW e \in Ends
        PROVE  /\ ~shouldUseProxy(Local(type[e], place[e]),
                                  Remote(seen[Peer(e)], type[Peer(e)], place[Peer(e)], lan))
               /\ ~Direct(type[Peer(e)], place[Peer(e)], lan)
    BY <1>1, <1>2, <1>4
  <2>2. ASSUME NEW e \in Ends PROVE type[e] = "host" /\ place[e] # "nat"
    <3>1. Peer(e) \in Ends /\ place[e] \in Places /\ place[Peer(e)] \in Places
      BY PeerIsEnd
    <3> QED
      BY <1>1, <2>1, <3>1, SkipsForItsOwnAddress
  <2>3. ASSUME NEW e \in Ends PROVE ~lan /\ place[e] = "carrier"
    <3>1. Peer(e) \in Ends /\ Peer(Peer(e)) = e
      BY EndsAssumption DEF Ends, Peer
    <3>2. ~Direct(type[e], place[e], lan)
      BY <2>1, <3>1
    <3> QED
      BY <2>2, <3>2 DEF Direct, Places
  <2>4. A \in Ends
    BY DEF Ends
  <2> QED
    BY <1>1, <1>2, <2>3, <2>4 DEF Stranded
<1> QED
  BY <1>3, <1>4

\* An endpoint is an address only where the proxy is skipped, an end that has
\* heard its peer answers to where it heard it, and until Stop a configured
\* peer stays configured and the pumps stay on.
PathInv ==
    /\ stranded \/ \E e \in Ends : GetsThrough(e)
    /\ \A e \in Ends :
          /\ direct[e] => ~useProxy[e]
          /\ endpoint[e] = "address" => ~useProxy[e]
          /\ e \in heard => endpoint[e] \in {"proxy", "roamed"}
          /\ starter[e] \in {"idle", "pair", "configure"} => endpoint[e] = "none"
          /\ closer[e] = "none" => e \notin cancelled
          /\ starter[e] \in {"mon", "done"} /\ closer[e] = "none" => endpoint[e] # "none"
          /\ starter[e] = "done" /\ e \notin cancelled =>
                localPump[e] \in Running /\ remotePump[e] \in Running

\* A step of a proxy, a pump, a cleanup or WireGuard keeps it.
LEMMA PathStep == TypeOK /\ PathInv /\ [Next]_vars => PathInv'
<1> SUFFICES ASSUME TypeOK, PathInv, [Next]_vars PROVE PathInv'
  OBVIOUS
<1> USE PeerIsEnd DEF TypeOK, PumpStates, PathInv, GetsThrough, Running, netVars, pumpVars, wgVars, ctlVars
<1>1. ASSUME NEW e \in Ends, setup(e) PROVE PathInv'
  BY <1>1 DEF setup, Goto
<1>2. ASSUME NEW e \in Ends, GetSelectedCandidatePair(e) PROVE PathInv'
  BY <1>2 DEF GetSelectedCandidatePair, Goto
<1>3. ASSUME NEW e \in Ends, Configure(e) PROVE PathInv'
  BY <1>3 DEF Configure, Goto
<1>4. ASSUME NEW e \in Ends, startMon(e) PROVE PathInv'
  BY <1>4 DEF startMon, Goto
<1>5. ASSUME NEW e \in Ends, PumpLoops(e) PROVE PathInv'
  BY <1>5 DEF PumpLoops, Loops
<1>6. ASSUME NEW e \in Ends, monLocalToRemoteProxy(e) PROVE PathInv'
  BY <1>6 DEF monLocalToRemoteProxy
<1>7. ASSUME NEW e \in Ends, monRemoteToLocalProxy(e) PROVE PathInv'
  BY <1>7 DEF monRemoteToLocalProxy
<1>8. ASSUME NEW e \in Ends, LocalReadFails(e) PROVE PathInv'
  BY <1>8 DEF LocalReadFails
<1>9. ASSUME NEW e \in Ends, ReadFails(e) PROVE PathInv'
  BY <1>9 DEF ReadFails
<1>10. ASSUME NEW e \in Ends, WgSends(e) PROVE PathInv'
  BY <1>10 DEF WgSends
<1>11. ASSUME NEW e \in Ends, SessionExpires(e) PROVE PathInv'
  BY <1>11 DEF SessionExpires
<1>12. ASSUME NEW e \in Ends, Stop(e) PROVE PathInv'
  BY <1>12 DEF Stop, CloserGoto
<1>13. ASSUME NEW e \in Ends, RemoveRemotePeer(e) PROVE PathInv'
  BY <1>13 DEF RemoveRemotePeer, CloserGoto
<1>14. ASSUME NEW e \in Ends, closeIceAgent(e) PROVE PathInv'
  BY <1>14 DEF closeIceAgent, CloserGoto
<1>15. CASE UNCHANGED vars
  BY <1>15 DEF vars
<1> QED
  BY <1>1, <1>2, <1>3, <1>4, <1>5, <1>6, <1>7, <1>8, <1>9,
     <1>10, <1>11, <1>12, <1>13, <1>14, <1>15 DEF Next, StartProxy

\* Two ends that are through StartProxy and not told to stop have a path.
THEOREM PathCorrect == Spec => []PathOpen
<1>1. Init => PathInv
  <2> SUFFICES ASSUME Init PROVE PathInv
    OBVIOUS
  <2>1. \A e \in Ends : direct[e] => ~useProxy[e]
    BY DEF Init
  <2> QED
    BY <2>1, SomeEndGetsThrough DEF Init, PathInv
<1>2. TypeOK /\ PathInv /\ CleanInv => PathOpen
  <2> SUFFICES ASSUME TypeOK, PathInv, CleanInv,
                      \A e \in Ends : starter[e] = "done" /\ closer[e] = "none"
               PROVE  /\ ~stranded => \E e \in Ends : Path(e)
                      /\ \A e \in heard : Path(e)
    BY DEF PathOpen
  <2>1. closed = {}
    BY DEF TypeOK, CleanInv, ClosedInv
  <2>2. ASSUME NEW e \in Ends, endpoint[e] \in {"proxy", "roamed"} PROVE Path(e)
    BY <2>1, <2>2, PeerIsEnd DEF PathInv, Path
  <2>3. ASSUME NEW e \in Ends, GetsThrough(e) PROVE Path(e) \/ Path(Peer(e))
    <3>1. CASE endpoint[e] \in {"proxy", "roamed"}
      BY <2>2, <3>1
    <3>2. CASE endpoint[Peer(e)] \in {"proxy", "roamed"}
      BY <2>2, <3>2, PeerIsEnd
    <3>3. CASE endpoint[e] = "address" /\ endpoint[Peer(e)] = "address"
      BY <2>3, <3>3, PeerIsEnd DEF GetsThrough, PathInv, Path, LetsIn
    <3> QED
      BY <3>1, <3>2, <3>3, PeerIsEnd DEF TypeOK, PathInv
  <2> QED
    BY <2>2, <2>3, PeerIsEnd DEF TypeOK, PathInv
<1> QED
  BY <1>1, <1>2, TypeCorrect, InductiveInvariant, PathStep, PTL DEF Spec
=============================================================================
