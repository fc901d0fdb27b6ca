---------------------------- MODULE Daemon_proofs ---------------------------
(***************************************************************************)
(* Proofs for Daemon, for any set of peers and any number of faults.       *)
(***************************************************************************)
EXTENDS Daemon, TLAPS

\* What a step needs to know of the interface: the two invariants the model
\* is about, and that a leak is a leak of something that is still there and
\* that only a kernel keeps.
IfaceInv ==
    /\ NoSilentLeak
    /\ ServesOwnInterface
    /\ leak => iface /\ host = "kernel"

----------------------------------------------------------------------------
(* Types                                                                   *)

\* A process that ends leaves the device variables in their types.
LEMMA EndTyped ==
    ASSUME TypeOK, NEW how \in Final, EndLeaking(how)
    PROVE  /\ main' \in Final
           /\ iface' \in BOOLEAN
           /\ leak' \in BOOLEAN
           /\ wgPeers' \subseteq Peers
<1>1. CASE host = "kernel"
  <2>1. leak' \in BOOLEAN
    BY <1>1, Zenon DEF EndLeaking
  <2> QED
    BY <1>1, <2>1 DEF EndLeaking, TypeOK
<1>2. CASE host # "kernel"
  <2>1. iface' \in BOOLEAN
    BY <1>2, Zenon DEF EndLeaking
  <2> QED
    BY <1>2, <2>1 DEF EndLeaking, TypeOK
<1> QED
  BY <1>1, <1>2

\* So does close(ch), whether or not it panics.
LEMMA CloseTyped ==
    ASSUME TypeOK, CloseCh
    PROVE  /\ main' \in Starting \cup Serving \cup Final
           /\ ch' \in BOOLEAN
           /\ iface' \in BOOLEAN
           /\ leak' \in BOOLEAN
           /\ wgPeers' \subseteq Peers
<1>1. CASE ch
  BY <1>1, EndTyped DEF CloseCh, Final
<1>2. CASE ~ch
  BY <1>2 DEF CloseCh, TypeOK, devVars
<1> QED
  BY <1>1, <1>2

\* Making an interface in user space keeps the types.
LEMMA UserSpaceTyped ==
    ASSUME TypeOK, CreateWithUserSpace
    PROVE  /\ main' \in Starting \cup Serving \cup Final
           /\ iface' \in BOOLEAN
           /\ leak' \in BOOLEAN
           /\ wgPeers' \subseteq Peers
<1>1. CASE assignAddr
  <2>1. iface' \in BOOLEAN
    BY <1>1, Zenon DEF CreateWithUserSpace
  <2> QED
    BY <1>1, <2>1 DEF CreateWithUserSpace, TypeOK, Serving
<1>2. CASE ~assignAddr
  BY <1>2, EndTyped DEF CreateWithUserSpace, Final
<1> QED
  BY <1>1, <1>2

\* A step keeps every variable in its type.
LEMMA TypeStep == TypeOK /\ [Next]_vars => TypeOK'
<1> SUFFICES ASSUME TypeOK, [Next]_vars PROVE TypeOK'
  OBVIOUS
<1> USE DaemonAssumption
    DEF TypeOK, Stages, Starting, Serving, Final, unitVars, chVars, peerVars, devVars
<1>1. CASE RestartOnFailure
  BY <1>1 DEF RestartOnFailure, Fresh
<1>2. CASE AdminStart
  BY <1>2 DEF AdminStart, Fresh
<1>3. CASE AdminStop
  BY <1>3 DEF AdminStop
<1>4. CASE NewConf
  BY <1>4, EndTyped DEF NewConf, Fault
<1>5. CASE LoginRegistered
  BY <1>5 DEF LoginRegistered
<1>6. CASE LoginBySession
  BY <1>6 DEF LoginBySession
<1>7. CASE LoginFails
  BY <1>7, EndTyped DEF LoginFails, Fault
<1>8. CASE SetupIface
  BY <1>8 DEF SetupIface
<1>9. CASE SetupFails
  BY <1>9, EndTyped DEF SetupFails, Fault
<1>10. CASE SetupPartial
  BY <1>10 DEF SetupPartial, Fault
<1>11. CASE SetupExists
  BY <1>11, EndTyped DEF SetupExists
<1>12. CASE ArmSignal
  BY <1>12 DEF ArmSignal
<1>13. CASE SignalArrives
  BY <1>13, CloseTyped, EndTyped DEF SignalArrives
<1>14. CASE RcnStart
  BY <1>14 DEF RcnStart, Fault
<1>15. CASE StreamGivesUp
  BY <1>15, CloseTyped, EndTyped DEF StreamGivesUp, Fault
<1>16. CASE OffererEnds
  BY <1>16, CloseTyped, EndTyped DEF OffererEnds, Fault
<1>17. CASE CrashElsewhere
  BY <1>17, EndTyped DEF CrashElsewhere, Fault
<1>18. ASSUME NEW p \in Peers, AddPeer(p) PROVE TypeOK'
  BY <1>18, EndTyped DEF AddPeer
<1>19. ASSUME NEW p \in Peers, SetupIce(p) PROVE TypeOK'
  BY <1>19, EndTyped DEF SetupIce, Reach, Fault
<1>20. ASSUME NEW p \in Peers, Dial(p) PROVE TypeOK'
  BY <1>20 DEF Dial, Reach
<1>21. ASSUME NEW p \in Peers, SetupProxy(p) PROVE TypeOK'
  BY <1>21 DEF SetupProxy, Reach
<1>22. ASSUME NEW p \in Peers, ConfigurePeer(p) PROVE TypeOK'
  BY <1>22 DEF ConfigurePeer, ConfigureRemoteNodePeer, Reach, Fault
<1>23. CASE MainWakes
  BY <1>23 DEF MainWakes
<1>24. ASSUME NEW p \in Peers, CleanPeer(p) PROVE TypeOK'
  BY <1>24 DEF CleanPeer, CloseConn, RemoveRemotePeer
<1>25. ASSUME NEW p \in Peers, CleanPeerPanics(p) PROVE TypeOK'
  BY <1>25, EndTyped DEF CleanPeerPanics
<1>26. ASSUME NEW p \in Peers, CleanPeerFails(p) PROVE TypeOK'
  BY <1>26, EndTyped DEF CleanPeerFails, Fault
<1>27. CASE CloseEnds
  BY <1>27 DEF CloseEnds
<1>28. CASE RemoveIface
  <2>1. CASE Fault /\ EndLeaking("exit0")
    BY <1>28, <2>1, EndTyped DEF RemoveIface, Fault
  <2>2. CASE iface' = FALSE /\ leak' = FALSE /\ wgPeers' = {} /\ main' = "exit0" /\ UNCHANGED faults
    <3>1. iface' \in BOOLEAN /\ leak' \in BOOLEAN
      BY <2>2, Zenon
    <3> QED
      BY <1>28, <2>2, <3>1 DEF RemoveIface
  <2> QED
    BY <1>28, <2>1, <2>2 DEF RemoveIface
<1>29. CASE KeepAlive
  BY <1>29 DEF KeepAlive, Fresh
<1>30. CASE createWithUserSpace
  BY <1>30, UserSpaceTyped DEF createWithUserSpace, CreateWithUserSpace
<1>31. CASE CreateOnDarwin
  BY <1>31, UserSpaceTyped DEF CreateOnDarwin, CreateWithUserSpace
<1>32. CASE TakeDown
  BY <1>32, EndTyped DEF TakeDown
<1>33. CASE UNCHANGED vars
  BY <1>33 DEF vars
<1> QED
  BY <1>1, <1>2, <1>3, <1>4, <1>5, <1>6, <1>7, <1>8, <1>9, <1>10, <1>11,
     <1>12, <1>13, <1>14, <1>15, <1>16, <1>17, <1>18, <1>19, <1>20, <1>21,
     <1>22, <1>23, <1>24, <1>25, <1>26, <1>27, <1>28, <1>29, <1>30,
     <1>31, <1>32, <1>33 DEF Next,
     SetupStep, StopStep, PeerStep

\* Initial states are typed, no step leaves the types.
THEOREM TypeCorrect == Spec => []TypeOK
<1>1. Init => TypeOK
  <2> SUFFICES ASSUME Init PROVE TypeOK
    OBVIOUS
  <2>1. stopAsked \in BOOLEAN /\ registered \in BOOLEAN /\ addr \in BOOLEAN
    BY Zenon DEF Init
  <2>2. ch \in BOOLEAN /\ iface \in BOOLEAN /\ leak \in BOOLEAN
    BY Zenon DEF Init
  <2> QED
    BY <2>1, <2>2, DaemonAssumption DEF Init, TypeOK, Stages, Final
<1> QED
  BY <1>1, TypeStep, PTL DEF Spec

----------------------------------------------------------------------------
(* The interface                                                           *)

\* A process that ends without RemoveIface leaves a leak, if anything.
LEMMA EndIface ==
    ASSUME IfaceInv, UNCHANGED host, NEW how \in Final, EndLeaking(how)
    PROVE  IfaceInv'
  BY DEF IfaceInv, NoSilentLeak, ServesOwnInterface, EndLeaking, Final, Serving

\* A step that leaves the device alone and neither begins nor ends serving
\* keeps the invariant.
LEMMA SameIface ==
    ASSUME IfaceInv, UNCHANGED host, UNCHANGED devVars, main' \in Serving <=> main \in Serving
    PROVE  IfaceInv'
  BY DEF IfaceInv, NoSilentLeak, ServesOwnInterface, devVars

\* close(ch) either ends the process or leaves the device alone.
LEMMA CloseIface ==
    ASSUME IfaceInv, UNCHANGED host, CloseCh
    PROVE  IfaceInv'
<1>1. CASE ch
  BY <1>1, EndIface DEF CloseCh, Final
<1>2. CASE ~ch
  BY <1>2, SameIface DEF CloseCh
<1> QED
  BY <1>1, <1>2

\* So does making an interface in user space, where none is left behind.
LEMMA UserSpaceIface ==
    ASSUME IfaceInv, host # "kernel", UNCHANGED host, CreateWithUserSpace
    PROVE  IfaceInv'
<1>1. CASE assignAddr
  BY <1>1 DEF CreateWithUserSpace, IfaceInv, NoSilentLeak, ServesOwnInterface, Serving
<1>2. CASE ~assignAddr
  BY <1>2, EndIface DEF CreateWithUserSpace, Final
<1> QED
  BY <1>1, <1>2

\* A step keeps what is known of the interface.
LEMMA IfaceStep == TypeOK /\ IfaceInv /\ [Next]_vars => IfaceInv'
<1> SUFFICES ASSUME TypeOK, IfaceInv, [Next]_vars PROVE IfaceInv'
  OBVIOUS
<1> USE DEF Starting, Serving, Final, Ended, devVars, unitVars
<1>1. CASE RestartOnFailure
  BY <1>1, SameIface DEF RestartOnFailure, Fresh
<1>2. CASE AdminStart
  BY <1>2, SameIface DEF AdminStart, Fresh
<1>3. CASE AdminStop
  BY <1>3, SameIface DEF AdminStop
<1>4. CASE NewConf
  BY <1>4, EndIface, SameIface DEF NewConf
<1>5. CASE LoginRegistered
  BY <1>5, SameIface DEF LoginRegistered
<1>6. CASE LoginBySession
  BY <1>6, SameIface DEF LoginBySession
<1>7. CASE LoginFails
  BY <1>7, EndIface, SameIface DEF LoginFails
<1>8. CASE SetupIface
  BY <1>8 DEF SetupIface, IfaceInv, NoSilentLeak, ServesOwnInterface
<1>9. CASE SetupFails
  BY <1>9, EndIface, SameIface DEF SetupFails
<1>10. CASE SetupPartial
  BY <1>10 DEF SetupPartial, IfaceInv, NoSilentLeak, ServesOwnInterface
<1>11. CASE SetupExists
  BY <1>11, EndIface, SameIface DEF SetupExists
<1>12. CASE ArmSignal
  BY <1>12, SameIface DEF ArmSignal
<1>13. CASE SignalArrives
  BY <1>13, CloseIface, EndIface, SameIface DEF SignalArrives
<1>14. CASE RcnStart
  BY <1>14, SameIface DEF RcnStart
<1>15. CASE StreamGivesUp
  BY <1>15, CloseIface, EndIface, SameIface DEF StreamGivesUp
<1>16. CASE OffererEnds
  BY <1>16, CloseIface, EndIface, SameIface DEF OffererEnds
<1>17. CASE CrashElsewhere
  BY <1>17, EndIface, SameIface DEF CrashElsewhere
<1>18. ASSUME NEW p \in Peers, AddPeer(p) PROVE IfaceInv'
  BY <1>18, EndIface, SameIface DEF AddPeer
<1>19. ASSUME NEW p \in Peers, SetupIce(p) PROVE IfaceInv'
  BY <1>19, EndIface, SameIface DEF SetupIce
<1>20. ASSUME NEW p \in Peers, Dial(p) PROVE IfaceInv'
  BY <1>20, SameIface DEF Dial
<1>21. ASSUME NEW p \in Peers, SetupProxy(p) PROVE IfaceInv'
  BY <1>21, SameIface DEF SetupProxy
<1>22. ASSUME NEW p \in Peers, ConfigurePeer(p) PROVE IfaceInv'
  BY <1>22
  DEF ConfigurePeer, ConfigureRemoteNodePeer, IfaceInv, NoSilentLeak, ServesOwnInterface, Reach
<1>23. CASE MainWakes
  BY <1>23, SameIface DEF MainWakes
<1>24. ASSUME NEW p \in Peers, CleanPeer(p) PROVE IfaceInv'
  BY <1>24 DEF CleanPeer, CloseConn, RemoveRemotePeer, IfaceInv, NoSilentLeak, ServesOwnInterface
<1>25. ASSUME NEW p \in Peers, CleanPeerPanics(p) PROVE IfaceInv'
  BY <1>25, EndIface, SameIface DEF CleanPeerPanics
<1>26. ASSUME NEW p \in Peers, CleanPeerFails(p) PROVE IfaceInv'
  BY <1>26, EndIface, SameIface DEF CleanPeerFails
<1>27. CASE CloseEnds
  BY <1>27, SameIface DEF CloseEnds
<1>28. CASE RemoveIface
  BY <1>28, EndIface
  DEF RemoveIface, Fault, IfaceInv, NoSilentLeak, ServesOwnInterface
<1>29. CASE KeepAlive
  BY <1>29, SameIface DEF KeepAlive, Fresh
<1>30. CASE createWithUserSpace
  BY <1>30, UserSpaceIface DEF createWithUserSpace, CreateWithUserSpace
<1>31. CASE CreateOnDarwin
  BY <1>31, UserSpaceIface DEF CreateOnDarwin, CreateWithUserSpace
<1>32. CASE TakeDown
  BY <1>32, EndIface DEF TakeDown
<1>33. CASE UNCHANGED vars
  BY <1>33, SameIface DEF vars
<1> QED
  BY <1>1, <1>2, <1>3, <1>4, <1>5, <1>6, <1>7, <1>8, <1>9, <1>10, <1>11,
     <1>12, <1>13, <1>14, <1>15, <1>16, <1>17, <1>18, <1>19, <1>20, <1>21,
     <1>22, <1>23, <1>24, <1>25, <1>26, <1>27, <1>28, <1>29, <1>30,
     <1>31, <1>32, <1>33 DEF Next,
     SetupStep, StopStep, PeerStep

\* The invariant of the interface holds in every reachable state.
THEOREM IfaceCorrect == Spec => []IfaceInv
<1>1. Init => IfaceInv
  BY DEF Init, IfaceInv, NoSilentLeak, ServesOwnInterface, Serving
<1> QED
  BY <1>1, TypeCorrect, IfaceStep, PTL DEF Spec

\* No interface is left behind by a process whose calls all succeed.
THEOREM LeakCorrect == Spec => []NoSilentLeak
<1>1. IfaceInv => NoSilentLeak
  BY DEF IfaceInv
<1> QED
  BY <1>1, IfaceCorrect, PTL

\* A process serves only on the interface its own Setup made.
THEOREM ServesCorrect == Spec => []ServesOwnInterface
<1>1. IfaceInv => ServesOwnInterface
  BY DEF IfaceInv
<1> QED
  BY <1>1, IfaceCorrect, PTL

----------------------------------------------------------------------------
(* A stop by signal                                                        *)

\* While no call has failed only the signal goroutine closes ch, which it does
\* in a process that serves, and every peer that got past Ice.Setup has its
\* agent.
QuietInv ==
    /\ main \in Starting => ~ch
    /\ faults = 0 =>
          /\ ch => sig = "spent"
          /\ stream = "run" /\ offerer # "failed" /\ rcn # "nostun"
          /\ \A p \in Peers : stage[p] # "noagent"
    /\ StopIsClean

\* A call that fails is counted.
LEMMA FaultCounted == ASSUME TypeOK, Fault PROVE faults' # 0
  BY DaemonAssumption DEF TypeOK, Fault

\* A new process has nothing of the last one.
LEMMA FreshQuiet == ASSUME TypeOK, Fresh PROVE QuietInv'
  BY DEF Fresh, QuietInv, StopIsClean, Ended, Starting, Final

\* After a failed call nothing more is asked of the process, once it is past
\* its start.
LEMMA FaultQuiet ==
    ASSUME TypeOK, Fault, main' \notin Starting
    PROVE  QuietInv'
  BY FaultCounted DEF QuietInv, StopIsClean

\* A step of a start.
LEMMA StartQuiet ==
    ASSUME TypeOK, QuietInv, UNCHANGED <<chVars, stage>>, main \in Starting,
           faults' = 0 => faults = 0
    PROVE  QuietInv'
  BY DEF QuietInv, StopIsClean, chVars

\* A step that leaves ch and the flags of its goroutines alone, with the
\* process serving on.
LEMMA ServeQuiet ==
    ASSUME TypeOK, QuietInv, UNCHANGED <<chVars, faults>>, main \in Serving, main' \in Serving,
           \A p \in Peers : stage[p] # "noagent" => stage'[p] # "noagent"
    PROVE  QuietInv'
  BY DEF QuietInv, StopIsClean, Ended, chVars, Serving, Starting, Final

\* A step of a peer: without a failure it ends the process only over a peer
\* that the initial offers are still to write into the map.
LEMMA PeerQuiet ==
    ASSUME TypeOK, QuietInv, NEW p \in Peers, PeerStep(p)
    PROVE  QuietInv'
<1> USE DEF Serving, Starting, Final
<1>1. CASE AddPeer(p)
  <2>1. CASE stage' = [stage EXCEPT ![p] = "known"] /\ UNCHANGED main
    BY <1>1, <2>1, ServeQuiet DEF AddPeer, TypeOK
  <2>2. CASE main' = "exit2" /\ UNCHANGED stage
    <3>1. Unready(p)'
      BY <1>1, <2>2 DEF AddPeer, Unready, chVars
    <3> QED
      BY <1>1, <2>2, <3>1 DEF AddPeer, QuietInv, StopIsClean, chVars
  <2> QED
    BY <1>1, <2>1, <2>2 DEF AddPeer, EndLeaking
<1>2. CASE SetupIce(p)
  <2>1. CASE rcn = "stun" /\ Reach(p, "ready") /\ UNCHANGED <<main, faults>>
    BY <1>2, <2>1, ServeQuiet DEF SetupIce, Reach, TypeOK
  <2>2. CASE Fault /\ UNCHANGED main
    BY <1>2, <2>2, FaultQuiet DEF SetupIce
  <2>3. CASE rcn = "nostun" /\ main' = "exit2" /\ UNCHANGED faults
    BY <1>2, <2>3 DEF SetupIce, QuietInv, StopIsClean
  <2> QED
    BY <1>2, <2>1, <2>2, <2>3 DEF SetupIce, EndLeaking
<1>3. CASE Dial(p)
  BY <1>3, ServeQuiet DEF Dial, Reach, TypeOK
<1>4. CASE SetupProxy(p)
  BY <1>4, ServeQuiet DEF SetupProxy, Reach, TypeOK
<1>5. CASE ConfigurePeer(p)
  <2>1. CASE Fault
    BY <1>5, <2>1, FaultQuiet DEF ConfigurePeer
  <2>2. CASE UNCHANGED faults
    BY <1>5, <2>1, <2>2, ServeQuiet DEF ConfigurePeer, Reach, TypeOK
  <2> QED
    BY <1>5, <2>1, <2>2 DEF ConfigurePeer
<1> QED
  BY <1>1, <1>2, <1>3, <1>4, <1>5 DEF PeerStep

\* A step of Rcn.Stop: without a failure it ends the process over a peer that
\* has no agent, or when the interface is gone.
LEMMA StopQuiet ==
    ASSUME TypeOK, QuietInv, StopStep
    PROVE  QuietInv'
<1> USE DEF Serving, Starting, Final
<1>1. CASE MainWakes
  BY <1>1, ServeQuiet DEF MainWakes
<1>2. ASSUME NEW p \in Peers, CleanPeer(p) PROVE QuietInv'
  BY <1>2, ServeQuiet DEF CleanPeer
<1>3. ASSUME NEW p \in Peers, CleanPeerPanics(p) PROVE QuietInv'
  <2>1. faults = 0 => Unready(p)'
    BY <1>3 DEF CleanPeerPanics, QuietInv, Unready, peerVars
  <2> QED
    BY <1>3, <2>1 DEF CleanPeerPanics, EndLeaking, QuietInv, StopIsClean, chVars, peerVars
<1>4. ASSUME NEW p \in Peers, CleanPeerFails(p) PROVE QuietInv'
  BY <1>4, FaultQuiet DEF CleanPeerFails, EndLeaking
<1>5. CASE CloseEnds
  BY <1>5, ServeQuiet DEF CloseEnds, peerVars
<1>6. CASE RemoveIface
  <2>1. CASE Fault /\ main' = "exit0"
    BY <2>1, FaultQuiet
  <2>2. CASE main' = "exit0" /\ iface' = FALSE /\ UNCHANGED faults
    BY <1>6, <2>2 DEF RemoveIface, QuietInv, StopIsClean, chVars, peerVars
  <2> QED
    BY <1>6, <2>1, <2>2 DEF RemoveIface, EndLeaking
<1>7. CASE TakeDown
  BY <1>7 DEF TakeDown, EndLeaking, QuietInv, StopIsClean, chVars, peerVars
<1> QED
  BY <1>1, <1>2, <1>3, <1>4, <1>5, <1>6, <1>7 DEF StopStep

\* Every step keeps the invariant.
LEMMA QuietStep == TypeOK /\ QuietInv /\ [Next]_vars => QuietInv'
<1> SUFFICES ASSUME TypeOK, QuietInv, [Next]_vars PROVE QuietInv'
  OBVIOUS
<1> USE DEF Serving, Starting, Final, chVars, peerVars
<1>1. CASE RestartOnFailure \/ KeepAlive \/ AdminStart
  BY <1>1, FreshQuiet DEF RestartOnFailure, KeepAlive, AdminStart
<1>2. CASE AdminStop \/ UNCHANGED vars
  BY <1>2 DEF AdminStop, vars, devVars, QuietInv, StopIsClean, Unready, Ended
<1>3. CASE NewConf \/ LoginRegistered \/ LoginBySession \/ LoginFails \/ SetupStep
  <2>1. main \in Starting /\ UNCHANGED <<chVars, stage>> /\ (faults' = 0 => faults = 0)
    BY <1>3, FaultCounted DEF NewConf, LoginRegistered, LoginBySession, LoginFails, SetupStep,
       SetupIface, createWithUserSpace, CreateOnDarwin, CreateWithUserSpace, SetupFails,
       SetupPartial, SetupExists
  <2> QED
    BY <2>1, StartQuiet
<1>4. CASE ArmSignal
  BY <1>4 DEF ArmSignal, QuietInv, StopIsClean, Ended
<1>5. CASE SignalArrives
  BY <1>5 DEF SignalArrives, CloseCh, EndLeaking, QuietInv, StopIsClean, Ended
<1>6. CASE RcnStart
  <2>1. CASE Fault
    BY <1>6, <2>1, FaultQuiet DEF RcnStart
  <2>2. CASE rcn' = "stun" /\ UNCHANGED faults
    BY <1>6, <2>2 DEF RcnStart, QuietInv, StopIsClean, Ended
  <2> QED
    BY <1>6, <2>1, <2>2 DEF RcnStart
<1>7. CASE StreamGivesUp \/ CrashElsewhere
  BY <1>7, FaultQuiet DEF StreamGivesUp, CrashElsewhere, CloseCh, EndLeaking
<1>8. CASE OffererEnds
  <2>1. CASE Fault
    BY <1>8, <2>1, FaultQuiet DEF OffererEnds, CloseCh, EndLeaking
  <2>2. CASE offerer' = "done" /\ UNCHANGED <<main, ch, faults>>
    BY <1>8, <2>2 DEF OffererEnds, QuietInv, StopIsClean, Ended
  <2> QED
    BY <1>8, <2>1, <2>2 DEF OffererEnds
<1>9. ASSUME NEW p \in Peers, PeerStep(p) PROVE QuietInv'
  BY <1>9, PeerQuiet
<1>10. CASE StopStep
  BY <1>10, StopQuiet
<1> QED
  BY <1>1, <1>2, <1>3, <1>4, <1>5, <1>6, <1>7, <1>8, <1>9, <1>10 DEF Next

\* A stop by signal is clean while no call has failed and every peer has its
\* agent.
THEOREM StopCorrect == Spec => []StopIsClean
<1>1. Init => QuietInv
  BY DEF Init, QuietInv, StopIsClean, Starting
<1>2. QuietInv => StopIsClean
  BY DEF QuietInv
<1> QED
  BY <1>1, <1>2, TypeCorrect, QuietStep, PTL DEF Spec

----------------------------------------------------------------------------
(* The progress of a shutdown                                              *)

\* Close has begun because ch is closed, and it has only peers to clean up
\* that the map has held since.
ClosingInv ==
    /\ main \in {"close", "remove"} => ch
    /\ \A p \in toClean : stage[p] # "none"

\* The phases a process goes through once ch is closed.
NextPhase == {<<"wait", "close">>, <<"close", "remove">>}

\* What the range of Close may still come by: peers it has yet to visit, and
\* peers that the initial offers may still write into the map.
Work == toClean \cup {p \in Peers : stage[p] = "none"}

\* Once ch is closed the process stays in its phase, goes to the next one or
\* ends, and ch stays closed.  While Close ranges over the peers nothing adds
\* to its work, and each of its own steps takes a peer off that work.
Advances ==
    main \in Serving /\ ch =>
        /\ main' = main \/ <<main, main'>> \in NextPhase \/ main' \in Final
        /\ ch'
        /\ main = "close" /\ main' = "close" => Work' \subseteq Work
        /\ StopStep => main' # main \/ (main = "close" /\ Work' # Work)

ShutdownAdvances == [][Advances]_vars

\* A process that ends is in no phase of a shutdown.
LEMMA EndClosing ==
    ASSUME ClosingInv, NEW how \in Final, EndLeaking(how), UNCHANGED <<stage, toClean>>
    PROVE  ClosingInv'
  BY DEF ClosingInv, EndLeaking, Final

\* A step that keeps the phase, the peers and the set of Close and does not
\* open ch keeps the invariant.
LEMMA SameClosing ==
    ASSUME ClosingInv, main' = main \/ main' \in Starting \cup {"wait"},
           ch => ch', UNCHANGED <<stage, toClean>>
    PROVE  ClosingInv'
  BY DEF ClosingInv, Starting

\* A step of a peer keeps the invariant: no peer leaves the map again.
LEMMA PeerClosing ==
    ASSUME TypeOK, ClosingInv, NEW p \in Peers, PeerStep(p)
    PROVE  ClosingInv'
<1> USE DEF ClosingInv, TypeOK
<1>1. CASE AddPeer(p)
  <2>1. CASE EndLeaking("exit2") /\ UNCHANGED <<stage, toClean>>
    BY <2>1, EndClosing DEF Final
  <2>2. CASE stage' = [stage EXCEPT ![p] = "known"] /\ UNCHANGED main
    BY <1>1, <2>2 DEF AddPeer, chVars
  <2> QED
    BY <1>1, <2>1, <2>2 DEF AddPeer
<1>2. CASE SetupIce(p)
  <2>1. CASE EndLeaking("exit2") /\ UNCHANGED stage
    BY <1>2, <2>1, EndClosing DEF SetupIce, Final
  <2>2. CASE UNCHANGED main
    BY <1>2, <2>2 DEF SetupIce, Reach, chVars
  <2> QED
    BY <1>2, <2>1, <2>2 DEF SetupIce
<1>3. CASE Dial(p)
  BY <1>3 DEF Dial, Reach, chVars
<1>4. CASE SetupProxy(p)
  BY <1>4 DEF SetupProxy, Reach, chVars
<1>5. CASE ConfigurePeer(p)
  BY <1>5 DEF ConfigurePeer, Reach, chVars
<1> QED
  BY <1>1, <1>2, <1>3, <1>4, <1>5 DEF PeerStep

\* A step of Rcn.Stop keeps the invariant.
LEMMA StopClosing ==
    ASSUME TypeOK, ClosingInv, StopStep
    PROVE  ClosingInv'
<1>1. CASE MainWakes
  BY <1>1 DEF MainWakes, ClosingInv, chVars
<1>2. ASSUME NEW p \in Peers, CleanPeer(p) PROVE ClosingInv'
  BY <1>2 DEF CleanPeer, ClosingInv, chVars
<1>3. ASSUME NEW p \in Peers, CleanPeerPanics(p) \/ CleanPeerFails(p) PROVE ClosingInv'
  BY <1>3, EndClosing DEF CleanPeerPanics, CleanPeerFails, peerVars, Final
<1>4. CASE CloseEnds
  BY <1>4 DEF CloseEnds, ClosingInv, chVars, peerVars
<1>5. CASE RemoveIface \/ TakeDown
  BY <1>5 DEF RemoveIface, TakeDown, EndLeaking, ClosingInv, peerVars
<1> QED
  BY <1>1, <1>2, <1>3, <1>4, <1>5 DEF StopStep

\* Every step keeps the invariant.
LEMMA ClosingStep == TypeOK /\ ClosingInv /\ [Next]_vars => ClosingInv'
<1> SUFFICES ASSUME TypeOK, ClosingInv, [Next]_vars PROVE ClosingInv'
  OBVIOUS
<1>1. CASE RestartOnFailure \/ KeepAlive \/ AdminStart
  BY <1>1 DEF RestartOnFailure, KeepAlive, AdminStart, Fresh, ClosingInv
<1>2. CASE AdminStop \/ ArmSignal \/ RcnStart \/ UNCHANGED vars
  BY <1>2, SameClosing DEF AdminStop, ArmSignal, RcnStart, vars, chVars, peerVars
<1>3. CASE NewConf \/ LoginRegistered \/ LoginBySession \/ LoginFails
  BY <1>3, SameClosing, EndClosing
  DEF NewConf, LoginRegistered, LoginBySession, LoginFails, chVars, peerVars, Starting, Final
<1>4. CASE SetupStep
  BY <1>4 DEF SetupStep, SetupIface, createWithUserSpace, CreateOnDarwin, CreateWithUserSpace,
     SetupFails, SetupPartial, SetupExists, EndLeaking, ClosingInv, peerVars
<1>5. CASE SignalArrives \/ StreamGivesUp \/ OffererEnds \/ CrashElsewhere
  BY <1>5 DEF SignalArrives, StreamGivesUp, OffererEnds, CrashElsewhere, CloseCh, EndLeaking,
     ClosingInv, chVars, peerVars
<1>6. ASSUME NEW p \in Peers, PeerStep(p) PROVE ClosingInv'
  BY <1>6, PeerClosing
<1>7. CASE StopStep
  BY <1>7, StopClosing
<1> QED
  BY <1>1, <1>2, <1>3, <1>4, <1>5, <1>6, <1>7 DEF Next

\* A step of Rcn.Stop goes to the next phase, ends the process, or takes one
\* peer off the work of Close.
LEMMA StopAdvances ==
    ASSUME TypeOK, ClosingInv, StopStep
    PROVE  Advances
<1> USE DEF Advances, Serving, Final, NextPhase, chVars, peerVars
<1>1. CASE MainWakes
  BY <1>1 DEF MainWakes
<1>2. ASSUME NEW p \in Peers, CleanPeer(p) PROVE Advances
  <2>1. p \in Work /\ p \notin Work' /\ Work' \subseteq Work
    BY <1>2 DEF CleanPeer, Work, ClosingInv
  <2> QED
    BY <1>2, <2>1 DEF CleanPeer
<1>3. ASSUME NEW p \in Peers, CleanPeerPanics(p) \/ CleanPeerFails(p) PROVE Advances
  BY <1>3 DEF CleanPeerPanics, CleanPeerFails, EndLeaking
<1>4. CASE CloseEnds
  BY <1>4 DEF CloseEnds
<1>5. CASE RemoveIface \/ TakeDown
  BY <1>5 DEF RemoveIface, TakeDown, EndLeaking
<1> QED
  BY <1>1, <1>2, <1>3, <1>4, <1>5 DEF StopStep

\* A step of a peer adds nothing to the work of Close: a peer that is written
\* into the map while Close ranges over it was counted before.
LEMMA PeerAdvances ==
    ASSUME TypeOK, ClosingInv, NEW p \in Peers, PeerStep(p), ~StopStep
    PROVE  Advances
<1>1. main' = main \/ main' \in Final
  BY DEF PeerStep, AddPeer, SetupIce, Dial, SetupProxy, ConfigurePeer, EndLeaking, Final
<1>2. ch' = ch
  BY DEF PeerStep, AddPeer, SetupIce, Dial, SetupProxy, ConfigurePeer, chVars
<1>3. toClean' \subseteq Work /\ \A q \in Peers : stage'[q] = "none" => stage[q] = "none"
  BY DEF PeerStep, AddPeer, SetupIce, Dial, SetupProxy, ConfigurePeer, Reach, Work, TypeOK
<1> QED
  BY <1>1, <1>2, <1>3 DEF Advances, Work

\* A shutdown, once begun, only advances: initial offers that write peers into
\* the map while Close ranges over it cannot keep Close from coming to its end.
\* Fairness of the main goroutine then turns this into ShutdownEnds.
THEOREM ShutdownProgress == Spec => ShutdownAdvances
<1>1. Init => ClosingInv
  BY DEF Init, ClosingInv
<1>2. TypeOK /\ ClosingInv /\ [Next]_vars => [Advances]_vars
  <2> SUFFICES ASSUME TypeOK, ClosingInv, Next PROVE Advances
    OBVIOUS
  <2>1. CASE StopStep
    BY <2>1, StopAdvances
  <2>2. ASSUME NEW p \in Peers, PeerStep(p), ~StopStep PROVE Advances
    BY <2>2, PeerAdvances
  <2>3. CASE ~StopStep /\ (SignalArrives \/ StreamGivesUp \/ OffererEnds)
    BY <2>3 DEF SignalArrives, StreamGivesUp, OffererEnds, CloseCh, EndLeaking, Advances, Work,
       peerVars, Final
  <2>4. CASE ~StopStep /\ (AdminStop \/ ArmSignal \/ RcnStart \/ CrashElsewhere)
    BY <2>4 DEF AdminStop, ArmSignal, RcnStart, CrashElsewhere, EndLeaking, Advances, Work,
       peerVars, chVars, Final
  <2>5. CASE RestartOnFailure \/ KeepAlive \/ AdminStart \/ NewConf \/ LoginRegistered
             \/ LoginBySession \/ LoginFails \/ SetupStep
    <3>1. main \notin Serving
      BY <2>5 DEF RestartOnFailure, KeepAlive, AdminStart, NewConf, LoginRegistered,
         LoginBySession, LoginFails, SetupStep, SetupIface, createWithUserSpace,
         CreateOnDarwin, CreateWithUserSpace, SetupFails, SetupPartial, SetupExists,
         Ended, Serving, Final
    <3> QED
      BY <3>1 DEF Advances
  <2> QED
    BY <2>1, <2>2, <2>3, <2>4, <2>5 DEF Next
<1> QED
  BY <1>1, <1>2, TypeCorrect, ClosingStep, PTL DEF Spec, ShutdownAdvances

----------------------------------------------------------------------------
(* Starts that fail                                                        *)

\* Whoever comes to Setup has logged in.
LoggedIn == main = "setup" => registered

\* A start that nobody stops and in which no call fails goes on to serve,
\* unless a kernel's interface is left behind, or the login was by browser
\* on a host without the kernel module.  It then ends with exit code 1, which
\* systemd restarts, and in the second case the next login has an address.
StartFailsForAReason ==
    main \in Starting /\ main' \in Final /\ faults' = faults /\ ~stopAsked =>
        /\ main' = "exit1"
        /\ leak' \/ (host # "kernel" /\ ~addr /\ registered')

StartsOnlyFailForAReason == [][StartFailsForAReason]_vars

\* Only a login leads to Setup, and the server does not forget the node.
LEMMA LoggedInStep == TypeOK /\ LoggedIn /\ [Next]_vars => LoggedIn'
<1> SUFFICES ASSUME TypeOK, LoggedIn, [Next]_vars, main' = "setup" PROVE registered'
  BY DEF LoggedIn
<1>1. CASE LoginRegistered \/ LoginBySession
  BY <1>1 DEF LoginRegistered, LoginBySession, unitVars
<1>2. CASE UNCHANGED <<main, registered>>
  BY <1>2 DEF LoggedIn
<1>3. ASSUME NEW p \in Peers, PeerStep(p) PROVE UNCHANGED <<main, registered>>
  BY <1>3 DEF PeerStep, AddPeer, SetupIce, Dial, SetupProxy, ConfigurePeer, EndLeaking, unitVars
<1>4. CASE StopStep
  BY <1>4 DEF StopStep, MainWakes, CleanPeer, CleanPeerPanics, CleanPeerFails, CloseEnds,
     RemoveIface, TakeDown, EndLeaking
<1>5. CASE SetupStep
  BY <1>5 DEF SetupStep, SetupIface, createWithUserSpace, CreateOnDarwin, CreateWithUserSpace,
     SetupFails, SetupPartial, SetupExists, EndLeaking
<1>6. CASE RestartOnFailure \/ KeepAlive \/ AdminStart \/ NewConf \/ LoginFails \/ CrashElsewhere
  BY <1>6 DEF RestartOnFailure, KeepAlive, AdminStart, Fresh, NewConf, LoginFails,
     CrashElsewhere, EndLeaking
<1>7. CASE AdminStop \/ ArmSignal \/ RcnStart
  BY <1>2, <1>7 DEF AdminStop, ArmSignal, RcnStart, unitVars
<1>8. CASE SignalArrives \/ StreamGivesUp \/ OffererEnds
  BY <1>2, <1>8 DEF SignalArrives, StreamGivesUp, OffererEnds, CloseCh, EndLeaking, unitVars
<1>9. CASE UNCHANGED vars
  BY <1>2, <1>9 DEF vars, unitVars
<1> QED
  BY <1>1, <1>2, <1>3, <1>4, <1>5, <1>6, <1>7, <1>8, <1>9 DEF Next

\* The interface that makes Setup fail is one that an earlier process leaked,
\* or that this one leaks.
LEMMA SetupReason ==
    ASSUME TypeOK, IfaceInv, LoggedIn, SetupStep
    PROVE  StartFailsForAReason
<1> USE DEF StartFailsForAReason, Starting, Final, unitVars
<1>1. CASE SetupIface
  BY <1>1 DEF SetupIface
<1>2. CASE createWithUserSpace \/ CreateOnDarwin
  BY <1>2 DEF createWithUserSpace, CreateOnDarwin, CreateWithUserSpace, assignAddr, EndLeaking,
     LoggedIn
<1>3. CASE SetupFails
  BY <1>3, DaemonAssumption DEF SetupFails, Fault, TypeOK
<1>4. CASE SetupPartial
  BY <1>4 DEF SetupPartial
<1>5. CASE SetupExists
  BY <1>5 DEF SetupExists, EndLeaking
<1> QED
  BY <1>1, <1>2, <1>3, <1>4, <1>5 DEF SetupStep

\* Every start that fails by itself fails for a reason the next start does not
\* meet, short of a leaked interface.  Fairness of systemd turns this
\* into ComesBack.
THEOREM StartCorrect == Spec => StartsOnlyFailForAReason
<1>1. Init => LoggedIn
  BY DEF Init, LoggedIn
<1>2. TypeOK /\ IfaceInv /\ LoggedIn /\ [Next]_vars => [StartFailsForAReason]_vars
  <2> SUFFICES ASSUME TypeOK, IfaceInv, LoggedIn, Next,
                      main \in Starting, main' \in Final, faults' = faults, ~stopAsked
               PROVE  StartFailsForAReason
    BY DEF StartFailsForAReason
  <2>1. ~Fault
    BY DaemonAssumption DEF Fault, TypeOK
  <2>2. CASE SetupStep
    BY <2>2, SetupReason
  <2>3. ~(NewConf \/ LoginRegistered \/ LoginBySession \/ LoginFails \/ AdminStop)
    BY <2>1 DEF NewConf, LoginRegistered, LoginBySession, LoginFails, AdminStop, Starting, Final
  <2>4. ~(RestartOnFailure \/ KeepAlive \/ AdminStart \/ SignalArrives)
    BY DEF RestartOnFailure, KeepAlive, AdminStart, SignalArrives, Ended, Starting, Final
  <2>5. ~(ArmSignal \/ RcnStart \/ StreamGivesUp \/ OffererEnds \/ CrashElsewhere \/ StopStep)
    BY DEF ArmSignal, RcnStart, StreamGivesUp, OffererEnds, CrashElsewhere, StopStep, MainWakes,
       CleanPeer, CleanPeerPanics, CleanPeerFails, CloseEnds, RemoveIface, TakeDown, Starting,
       Serving
  <2>6. \A p \in Peers : ~PeerStep(p)
    BY DEF PeerStep, AddPeer, SetupIce, Dial, SetupProxy, ConfigurePeer, Starting, Serving
  <2> QED
    BY <2>2, <2>3, <2>4, <2>5, <2>6 DEF Next
<1> QED
  BY <1>1, <1>2, TypeCorrect, IfaceCorrect, LoggedInStep, PTL DEF Spec, StartsOnlyFailForAReason
=============================================================================
