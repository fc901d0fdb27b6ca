------------------------------- MODULE Daemon -------------------------------
(***************************************************************************)
(* The life of the process `runetaled up -daemon=false` under the systemd  *)
(* unit or the launchd job that the project installs: execUp, Rcn.Setup,   *)
(* Start and Stop, ControlPlane.Close, Ice.Cleanup, the wire proxy, and    *)
(* the WireGuard interface.  A kernel's interface outlives the process, a  *)
(* user-space one is gone with it.                                         *)
(*                                                                         *)
(* Three goroutines may close execUp's channel ch: the one that waits for  *)
(* a signal, the stream goroutine that gives up, and the one that fails to *)
(* send the initial offers.  Closing it a second time panics.              *)
(***************************************************************************)
EXTENDS Naturals

CONSTANTS
    Peers,      \* the remote nodes the server may list
    MaxFaults   \* how many calls fail and goroutines crash in a behaviour

ASSUME DaemonAssumption == MaxFaults \in Nat

VARIABLES
    host,       \* "kernel" is Linux with the WireGuard module, "tun" Linux without,
                \* "darwin" macOS
    main,       \* where execUp is, or how the process ended
    stopAsked,  \* the administrator has stopped the unit
    registered, \* the server knows the node: LoginNode needs no browser
    addr,       \* whether LoginNode's answer carries an address
    sig,        \* the signal goroutine: "unarmed", "armed" or "spent"
    ch,         \* execUp's channel is closed
    rcn,        \* Rcn.Start: "idle", then "stun" or "nostun"
    stream,     \* the stream goroutine: "run" or "over"
    offerer,    \* ConnectSignalServer's own goroutine: "run", "done" or "failed"
    stage,      \* how far each peer's Ice got
    toClean,    \* the peers that ControlPlane.Close has yet to clean up
    cleaned,    \* the peers it has cleaned up
    iface,      \* the WireGuard interface is there
    wgPeers,    \* the peers configured on it
    leak,       \* a process ended without removing the interface
    faults      \* faults so far

unitVars == <<host, stopAsked, registered>>
chVars   == <<sig, ch, rcn, stream, offerer>>
peerVars == <<stage, toClean, cleaned>>
devVars  == <<iface, wgPeers, leak>>
vars == <<main, unitVars, addr, chVars, peerVars, devVars, faults>>

Starting == {"conf", "login", "setup"}
Serving  == {"wait", "close", "remove"}
Final    == {"off", "exit0", "exit1", "exit2", "killed"}

Ended == main \in Final

Fault == faults < MaxFaults /\ faults' = faults + 1

\* The process ends without RemoveIface: a kernel's interface stays behind.
EndLeaking(how) ==
    /\ main' = how
    /\ IF host = "kernel"
          THEN leak' = (leak \/ iface) /\ UNCHANGED <<iface, wgPeers>>
          ELSE iface' = FALSE /\ wgPeers' = {} /\ UNCHANGED leak

----------------------------------------------------------------------------
(* systemd or launchd, and the administrator                               *)

Fresh ==
    /\ main' = "conf"
    /\ addr' = FALSE
    /\ sig' = "unarmed"
    /\ ch' = FALSE
    /\ rcn' = "idle"
    /\ stream' = "run"
    /\ offerer' = "run"
    /\ stage' = [p \in Peers |-> "none"]
    /\ toClean' = {}
    /\ cleaned' = {}

RestartOnPanicOnly ==
    /\ host # "darwin"
    /\ main = "exit2"
    /\ ~stopAsked
    /\ Fresh
    /\ UNCHANGED <<unitVars, devVars, faults>>

\* Restart=on-failure: exit codes 1 and 2 are failures, 0 and SIGTERM not.
RestartOnFailure ==
    /\ host # "darwin"
    /\ main \in {"exit1", "exit2"}
    /\ ~stopAsked
    /\ Fresh
    /\ UNCHANGED <<unitVars, devVars, faults>>

\* launchd starts the job again however it ended.
KeepAlive ==
    /\ host = "darwin"
    /\ Ended /\ main # "off"
    /\ ~stopAsked
    /\ Fresh
    /\ UNCHANGED <<unitVars, devVars, faults>>

AdminStart ==
    /\ Ended
    /\ Fresh
    /\ stopAsked' = FALSE
    /\ UNCHANGED <<host, registered, devVars, faults>>

AdminStop ==
    /\ ~Ended
    /\ stopAsked' = TRUE
    /\ UNCHANGED <<main, host, registered, addr, chVars, peerVars, devVars, faults>>

----------------------------------------------------------------------------
(* execUp up to the point where it waits on ch                             *)

\* Without its log file execUp returns nil, without a configuration an error.
NewConf ==
    /\ main = "conf"
    /\ \/ main' = "login" /\ UNCHANGED <<devVars, faults>>
       \/ Fault /\ EndLeaking("exit0")
       \/ Fault /\ EndLeaking("exit1")
    /\ UNCHANGED <<unitVars, addr, chVars, peerVars>>

LoginRegistered ==
    /\ main = "login"
    /\ registered
    /\ main' = "setup"
    /\ addr' = TRUE
    /\ UNCHANGED <<unitVars, chVars, peerVars, devVars, faults>>

\* The user logs in in the browser.  The session's address is only logged:
\* LoginNode returns its first response, which has none.
LoginBySession ==
    /\ main = "login"
    /\ ~registered
    /\ main' = "setup"
    /\ registered' = TRUE
    /\ addr' = FALSE
    /\ UNCHANGED <<host, stopAsked, chVars, peerVars, devVars, faults>>

\* execUp returns nil, so the exit code is 0.
LoginFails ==
    /\ main = "login"
    /\ Fault
    /\ EndLeaking("exit0")
    /\ UNCHANGED <<unitVars, addr, chVars, peerVars>>

SetupOverwrites ==
    /\ main = "setup"
    /\ host = "kernel"
    /\ addr
    /\ main' = "wait"
    /\ iface' = TRUE
    /\ UNCHANGED <<unitVars, addr, chVars, peerVars, wgPeers, leak, faults>>

\* createWithKernelSpace
SetupIface ==
    /\ main = "setup"
    /\ host = "kernel"
    /\ ~iface
    /\ addr
    /\ main' = "wait"
    /\ iface' = TRUE
    /\ UNCHANGED <<unitVars, addr, chVars, peerVars, wgPeers, leak, faults>>

\* `ifconfig` does not take an empty address.
assignAddr == addr

\* The TUN device is made and up, then gets its address.
CreateWithUserSpace ==
    /\ main = "setup"
    /\ IF assignAddr
          THEN main' = "wait" /\ iface' = TRUE /\ UNCHANGED <<wgPeers, leak>>
          ELSE EndLeaking("exit1")
    /\ UNCHANGED <<unitVars, addr, chVars, peerVars, faults>>

createWithUserSpace == host = "tun" /\ CreateWithUserSpace

CreateOnDarwin == host = "darwin" /\ CreateWithUserSpace

\* No ip command, a bad key or no wgctrl: nothing was created.  In user space
\* any other failure has the same effect.
SetupFails ==
    /\ main = "setup"
    /\ Fault
    /\ EndLeaking("exit1")
    /\ UNCHANGED <<unitVars, addr, chVars, peerVars>>

\* The link was added, then the address or the device was refused.  The
\* link stays.
SetupPartial ==
    /\ main = "setup"
    /\ host = "kernel"
    /\ ~iface
    /\ \/ addr /\ Fault
       \/ ~addr /\ UNCHANGED faults
    /\ main' = "exit1"
    /\ iface' = TRUE
    /\ leak' = TRUE
    /\ UNCHANGED <<unitVars, addr, chVars, peerVars, wgPeers>>

\* `ip link add` fails because an earlier process left the interface.
SetupExists ==
    /\ main = "setup"
    /\ host = "kernel"
    /\ iface
    /\ EndLeaking("exit1")
    /\ UNCHANGED <<unitVars, addr, chVars, peerVars, faults>>

----------------------------------------------------------------------------
(* The goroutines beside execUp                                            *)

ArmSignal ==
    /\ main \in Serving
    /\ sig = "unarmed"
    /\ sig' = "armed"
    /\ UNCHANGED <<main, unitVars, addr, ch, rcn, stream, offerer, peerVars, devVars, faults>>

\* close(ch), which panics when the channel is closed already.
CloseCh ==
    /\ ch' = TRUE
    /\ IF ch THEN EndLeaking("exit2") ELSE UNCHANGED <<main, devVars>>

SignalArrivesAgain ==
    /\ stopAsked
    /\ \/ /\ main \in Starting \cup Serving
          /\ sig = "unarmed"
          /\ EndLeaking("killed")
          /\ UNCHANGED <<sig, ch>>
       \/ /\ main \in Serving
          /\ sig = "armed"
          /\ UNCHANGED sig
          /\ CloseCh
    /\ UNCHANGED <<unitVars, addr, rcn, stream, offerer, peerVars, faults>>

\* Before signal.Notify has run, SIGTERM kills the process.
SignalArrives ==
    /\ stopAsked
    /\ \/ /\ main \in Starting \cup Serving
          /\ sig = "unarmed"
          /\ EndLeaking("killed")
          /\ UNCHANGED <<sig, ch>>
       \/ /\ main \in Serving
          /\ sig = "armed"
          /\ sig' = "spent"
          /\ CloseCh
    /\ UNCHANGED <<unitVars, addr, rcn, stream, offerer, peerVars, faults>>

\* Rcn.Start goes on when there is no STUN and TURN configuration.
RcnStart ==
    /\ main \in Serving
    /\ rcn = "idle"
    /\ \/ rcn' = "stun" /\ UNCHANGED faults
       \/ rcn' = "nostun" /\ Fault
    /\ UNCHANGED <<main, unitVars, addr, sig, ch, stream, offerer, peerVars, devVars>>

StreamGivesUpQuietly ==
    /\ main \in Serving
    /\ rcn # "idle"
    /\ stream = "run"
    /\ Fault
    /\ stream' = "over"
    /\ UNCHANGED <<main, devVars, unitVars, addr, sig, ch, rcn, offerer, peerVars>>

\* backoff.Retry has given up on the stream to the signal server.
StreamGivesUp ==
    /\ main \in Serving
    /\ rcn # "idle"
    /\ stream = "run"
    /\ Fault
    /\ stream' = "over"
    /\ CloseCh
    /\ UNCHANGED <<unitVars, addr, sig, rcn, offerer, peerVars>>

\* initialOfferToRemotePeer returns, with an error once its retries are spent.
OffererEnds ==
    /\ main \in Serving
    /\ rcn # "idle"
    /\ offerer = "run"
    /\ \/ offerer' = "done" /\ UNCHANGED <<main, ch, devVars, faults>>
       \/ offerer' = "failed" /\ Fault /\ CloseCh
    /\ UNCHANGED <<unitVars, addr, sig, rcn, stream, peerVars>>

\* A write to the unguarded map peerConns.  While Close ranges over it, the
\* new peer may be visited or not, or the runtime aborts the process.
AddPeer(p) ==
    /\ main \in Serving
    /\ rcn # "idle"
    /\ offerer = "run"
    /\ stage[p] = "none"
    /\ \/ /\ stage' = [stage EXCEPT ![p] = "known"]
          /\ \/ UNCHANGED toClean
             \/ main = "close" /\ toClean' = toClean \cup {p}
          /\ UNCHANGED <<main, devVars>>
       \/ /\ main = "close"
          /\ EndLeaking("exit2")
          /\ UNCHANGED <<stage, toClean>>
    /\ UNCHANGED <<unitVars, addr, chVars, cleaned, faults>>

\* A panic or a failed map access in a goroutine of another module.
CrashElsewhere ==
    /\ main \in Serving
    /\ Fault
    /\ EndLeaking("exit2")
    /\ UNCHANGED <<unitVars, addr, chVars, peerVars>>

----------------------------------------------------------------------------
(* A peer's way to a link.  A peer may stay in any stage for good.         *)

Reach(p, s) == stage' = [stage EXCEPT ![p] = s]

\* Ice.Setup: without a STUN configuration it dereferences nil; when the
\* agent cannot be made, the sockets are there and the agent is not.
SetupIce(p) ==
    /\ main \in Serving
    /\ stage[p] = "known"
    /\ \/ rcn = "stun" /\ Reach(p, "ready") /\ UNCHANGED <<main, devVars, faults>>
       \/ rcn = "stun" /\ Reach(p, "noagent") /\ Fault /\ UNCHANGED <<main, devVars>>
       \/ rcn = "nostun" /\ EndLeaking("exit2") /\ UNCHANGED <<stage, faults>>
    /\ UNCHANGED <<unitVars, addr, chVars, toClean, cleaned>>

\* startConn and Conn.Start.  Dial and Accept need an agent that is open.
Dial(p) ==
    /\ main \in Serving
    /\ p \notin cleaned
    /\ \/ stage[p] = "ready" /\ Reach(p, "dialing")
       \/ stage[p] = "dialing" /\ Reach(p, "connected")
    /\ UNCHANGED <<main, unitVars, addr, chVars, toClean, cleaned, devVars, faults>>

\* WireProxy.setup, from where on Stop removes the peer.
SetupProxy(p) ==
    /\ main \in Serving
    /\ stage[p] = "connected"
    /\ Reach(p, "proxying")
    /\ UNCHANGED <<main, unitVars, addr, chVars, toClean, cleaned, devVars, faults>>

ConfigureRemoteNodePeer(p) == iface /\ wgPeers' = wgPeers \cup {p}

\* configureNoProxy or configureWireProxy, on a device that has to be there.
\* Nothing tells them that the peer was cleaned up meanwhile.
ConfigurePeer(p) ==
    /\ main \in Serving
    /\ stage[p] = "proxying"
    /\ \/ ConfigureRemoteNodePeer(p) /\ Reach(p, "linked") /\ UNCHANGED faults
       \/ Reach(p, "unlinked") /\ Fault /\ UNCHANGED wgPeers
    /\ UNCHANGED <<main, unitVars, addr, chVars, toClean, cleaned, iface, leak>>

----------------------------------------------------------------------------
(* Rcn.Stop                                                                *)

\* `<-ch` returns and ControlPlane.Close ranges over peerConns.
MainWakes ==
    /\ main = "wait"
    /\ ch
    /\ main' = "close"
    /\ toClean' = {p \in Peers : stage[p] # "none"}
    /\ UNCHANGED <<unitVars, addr, chVars, stage, cleaned, devVars, faults>>

HasLocalConn == {"proxying", "linked", "unlinked"}

RemoveRemotePeer(p) == wgPeers' = wgPeers \ {p}

\* Conn.Close: WireProxy.Stop takes the peer off the interface if the proxy
\* has its local connection.
CloseConn(p) == IF stage[p] \in HasLocalConn THEN RemoveRemotePeer(p) ELSE UNCHANGED wgPeers

CleanPeerAwaitsDial(p) ==
    /\ main = "close"
    /\ p \in toClean
    /\ stage[p] \notin {"known", "noagent", "dialing"}
    /\ toClean' = toClean \ {p}
    /\ cleaned' = cleaned \cup {p}
    /\ CloseConn(p)
    /\ UNCHANGED <<main, unitVars, addr, chVars, stage, iface, leak, faults>>

\* Ice.Cleanup closes the connection, then the agent.
CleanPeer(p) ==
    /\ main = "close"
    /\ p \in toClean
    /\ stage[p] \notin {"known", "noagent"}
    /\ toClean' = toClean \ {p}
    /\ cleaned' = cleaned \cup {p}
    /\ CloseConn(p)
    /\ UNCHANGED <<main, unitVars, addr, chVars, stage, iface, leak, faults>>

\* A peer that never got its agent: closeIceAgent dereferences nil.
CleanPeerPanics(p) ==
    /\ main = "close"
    /\ p \in toClean
    /\ stage[p] \in {"known", "noagent"}
    /\ EndLeaking("exit2")
    /\ UNCHANGED <<unitVars, addr, chVars, peerVars, faults>>

\* Close returns the error, Stop returns before RemoveIface, and execUp
\* drops the error.
CleanPeerFails(p) ==
    /\ main = "close"
    /\ p \in toClean
    /\ stage[p] \notin {"known", "noagent"}
    /\ Fault
    /\ EndLeaking("exit0")
    /\ UNCHANGED <<unitVars, addr, chVars, peerVars>>

CloseEndsForgettingIface ==
    /\ main = "close"
    /\ toClean = {}
    /\ main' = "exit0"
    /\ UNCHANGED <<unitVars, addr, chVars, peerVars, devVars, faults>>

CloseEnds ==
    /\ main = "close"
    /\ toClean = {}
    /\ main' = "remove"
    /\ UNCHANGED <<unitVars, addr, chVars, peerVars, devVars, faults>>

\* `ip link delete`, whose failure is logged.  execUp returns nil.
RemoveIface ==
    /\ main = "remove"
    /\ host # "darwin"
    /\ \/ /\ main' = "exit0"
          /\ iface' = FALSE
          /\ wgPeers' = {}
          /\ leak' = FALSE
          /\ UNCHANGED faults
       \/ Fault /\ EndLeaking("exit0")
    /\ UNCHANGED <<unitVars, addr, chVars, peerVars>>

\* `ifconfig down`, whose failure is logged: the end of the process takes the
\* interface away.
TakeDown ==
    /\ main = "remove"
    /\ host = "darwin"
    /\ EndLeaking("exit0")
    /\ UNCHANGED <<unitVars, addr, chVars, peerVars, faults>>

----------------------------------------------------------------------------
Init ==
    /\ host \in {"kernel", "tun", "darwin"}
    /\ main = "off"
    /\ stopAsked = FALSE
    /\ registered \in BOOLEAN
    /\ addr = FALSE
    /\ sig = "unarmed"
    /\ ch = FALSE
    /\ rcn = "idle"
    /\ stream = "run"
    /\ offerer = "run"
    /\ stage = [p \in Peers |-> "none"]
    /\ toClean = {}
    /\ cleaned = {}
    /\ iface = FALSE
    /\ wgPeers = {}
    /\ leak = FALSE
    /\ faults = 0

SetupStep ==
    \/ SetupIface
    \/ createWithUserSpace
    \/ CreateOnDarwin
    \/ SetupFails
    \/ SetupPartial
    \/ SetupExists

StopStep ==
    \/ MainWakes
    \/ \E p \in Peers : CleanPeer(p) \/ CleanPeerPanics(p) \/ CleanPeerFails(p)
    \/ CloseEnds
    \/ RemoveIface
    \/ TakeDown

PeerStep(p) == AddPeer(p) \/ SetupIce(p) \/ Dial(p) \/ SetupProxy(p) \/ ConfigurePeer(p)

Next ==
    \/ RestartOnFailure
    \/ KeepAlive
    \/ AdminStart
    \/ AdminStop
    \/ NewConf
    \/ LoginRegistered
    \/ LoginBySession
    \/ LoginFails
    \/ SetupStep
    \/ ArmSignal
    \/ SignalArrives
    \/ RcnStart
    \/ StreamGivesUp
    \/ OffererEnds
    \/ CrashElsewhere
    \/ \E p \in Peers : PeerStep(p)
    \/ StopStep

Spec == Init /\ [][Next]_vars

\* systemd restarts a failed unit, launchd any, a signal is delivered, the main goroutine
\* is scheduled, and calls return.  Nobody has to log in in a browser, and
\* no peer has to get any further.
Fairness ==
    /\ WF_vars(RestartOnFailure)
    /\ WF_vars(KeepAlive)
    /\ WF_vars(NewConf)
    /\ WF_vars(LoginRegistered)
    /\ WF_vars(SetupStep)
    /\ WF_vars(SignalArrives)
    /\ WF_vars(StopStep)

FairSpec == Spec /\ Fairness

----------------------------------------------------------------------------
Stages == {"none", "known", "noagent", "ready", "dialing", "connected",
           "proxying", "linked", "unlinked"}

TypeOK ==
    /\ host \in {"kernel", "tun", "darwin"}
    /\ main \in Starting \cup Serving \cup Final
    /\ stopAsked \in BOOLEAN
    /\ registered \in BOOLEAN
    /\ addr \in BOOLEAN
    /\ sig \in {"unarmed", "armed", "spent"}
    /\ ch \in BOOLEAN
    /\ rcn \in {"idle", "stun", "nostun"}
    /\ stream \in {"run", "over"}
    /\ offerer \in {"run", "done", "failed"}
    /\ stage \in [Peers -> Stages]
    /\ toClean \subseteq Peers
    /\ cleaned \subseteq Peers
    /\ iface \in BOOLEAN
    /\ wgPeers \subseteq Peers
    /\ leak \in BOOLEAN
    /\ faults \in 0..MaxFaults

\* An interface that is there without a process that serves it is the kernel's
\* and was left by a process that crashed, was killed, or could not finish its
\* Setup or Stop: a shutdown in which every call succeeds takes the interface
\* away, however late peers are still being connected, and without the kernel
\* module every end of the process does.
NoSilentLeak == iface /\ main \notin Serving => leak /\ host = "kernel"

\* A process serves only on an interface that its own Setup made, and has it
\* until Stop is through, so no peer is ever configured without one or on
\* what an earlier process left, with that one's address and peers.
ServesOwnInterface ==
    /\ main \in Serving => iface /\ ~leak
    /\ wgPeers # {} => iface

\* A peer that is not through Ice.Setup: it has no agent yet, or the initial
\* offers are still to write it into the map.
Unready(p) == stage[p] = "known" \/ (stage[p] = "none" /\ offerer = "run" /\ rcn # "idle")

\* A stop by signal is clean as long as no call has failed: however often the
\* signal is sent and wherever the peers are in their dialling and their
\* configuration, no second close of ch and no dereference of nil ends the
\* process first, so it exits with code 0 and its interface is gone.  The
\* exception is a peer whose agent is not yet there when Close comes to it.
StopIsClean ==
    faults = 0 /\ ch /\ Ended => (main = "exit0" /\ ~iface) \/ \E p \in Peers : Unready(p)

\* A process that is asked to stop or whose ch is closed ends, wherever it
\* and the goroutines beside it are.
ShutdownEnds == (stopAsked \/ ch) ~> Ended

\* With finitely many faults and nobody stopping it, a started daemon ends up
\* serving, unless execUp returned nil under systemd, a kernel's interface was
\* left behind, or a browser login is outstanding.
ComesBack ==
    []~stopAsked /\ <>(main = "conf") =>
        \/ <>[](main = "wait")
        \/ host # "darwin" /\ <>[](main \in {"wait", "exit0"})
        \/ host = "kernel" /\ <>[]leak
        \/ <>[](main = "login" /\ ~registered)
=============================================================================
