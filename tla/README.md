# A TLA+ verification of runetale

runetale builds a WireGuard mesh. On every node the daemon `runetaled` logs in
at a server, opens a stream to a signal server, exchanges ICE credentials and
candidates with its peers over it, and puts a peer on the WireGuard interface
once their ICE agents reach each other. systemd or launchd keeps the daemon
running; `runetale up` asks it for its status over a unix socket. This directory
holds TLA+ modules of those parts, TLC configurations, and TLAPS
proofs. `PROJECT.json` lists components, runs, the map from definitions to
source lines, hazards, findings and theorems.

Paths below are relative to `src/`.

## 1. Inventory

| part | state | operations | hard behaviour |
|---|---|---|---|
| retry policy `backoff/backoff.go` | `numTries`, `currentInterval`, `startTime` | `Retry`, `Reset`, two nested `NextBackOff` | two budgets, off-by-one, the clock |
| `ConnectState` `rcn/conn/status.go` | `State`, `conn` (a channel) | `Connected`, `DisConnected`, `GetConnChan`, `IsConnected` | five kinds of callers; wake-ups; double close |
| signal client `client/grpc/signal_client.go` | the stream | `Connect`, `WaitStartConnect`, `Offer`, `Answer`, `Candidate`, `GetConnStatus` | check and registration in two steps; reconnects |
| control plane `rcn/controlplane` | `peerConns`, `waitForRemoteConnCh`, `ch`, `stconf` | `ConnectSignalServer` (handler), `initialOfferToRemotePeer`, `WaitForRemoteConn`, `Close` | an unguarded map; unknown peers; three closers of `ch` |
| ICE `rcn/webrtc` | agent, sockets, `conn`, two unbuffered channels | `Setup`, `StartGatheringProcess`, `waitingRemotePeerConnections`, `SendRemote...`, `Cleanup` | dropped handshakes, reordering, restarts of the peer |
| conn and wire proxy `rcn/conn/conn.go`, `rcn/proxy` | `remoteConn`, `localConn`, `ctx` | `Start`, `Close`, `shouldUseProxy`, `StartProxy`, two pumps, `Stop` | `Stop` beside `StartProxy`; reads without a deadline; two ends that decide differently |
| interface `iface/` | a kernel's or a user-space device and its peers | `CreateIface`, `RemoveIface`, `ConfigureRemoteNodePeer`, `RemoveRemotePeer` | a kernel's device outlives the process; partial creation |
| process `rcn/rcn.go`, `cmd/runetaled/cmd/up.go` | `ch`, exit code | `execUp`, `Setup`, `Start`, `Stop` | signals, crashes, restarts |
| service `daemon/`, `cmd/runetaled/cmd/{daemon,down}.go` | unit file or plist, binary, enablement, activity | `Install`, `Uninstall`, `Load`, `Unload`, `start`, `Stop`, `Status`, on systemd, launchd and as stubs | killed half-way; systemd or launchd acts beside it |
| files `conf/`, `store/`, `utils/file.go` | state file, spec file, `FileStore.cache` | `NewConf`, `WritePrivateKey`, `CreateSpec`, `AtomicWriteFile` | two processes; killed half-way; power failures |
| socket `rcn/rcnsock` | a path, a listener, `ip` | `Connect`, `listen`, `cleanup`, `DialRunetaledStatus` | the path outlives the process; no deadlines |
| `runetale up`: `cmd/runetale`, `engine/` | `mu`, `rootch` | `execUp`, `Start`, `Stop` | `Start` waits under `mu` for a channel that nobody closes |

How they interact: `execUp` calls `NewConf`, `LoginNode`, `Rcn.Setup`, and then
runs `Rcn.Start` in a goroutine and waits on `ch`. `Rcn.Start` starts
`WaitForRemoteConn`, `ConnectSignalServer` and the socket. The stream handler
calls into the `Ice` of a peer; that `Ice` has its own goroutine, which calls
`Conn.Start` and so the proxy and the interface. ICE callbacks and socket
queries write the `ConnectState` of the signal client. `ch` ends everything.

What makes the parts correct: a retry loop that honours its budgets; a waiter
that no interleaving strands; peers that both sides agree about; an interface
that no shutdown forgets and no process inherits; a
stop by signal that nothing cuts short; a process that ends when asked and comes
back when it fails; a service
whose files, enablement and activity match what the command reported; an
identity that survives crashes and power failures; a status query that ends and
is answered by the daemon that was asked; a tunnel that has a path although its
two ends choose theirs separately.

## 2. Modules

| module | models | variables and code |
|---|---|---|
| `RetryContract` | the promise in the comment above `backoff.Retry`, without a clock | `attempts` = finished runs |
| `Backoff` | `doRetryNotify` with `WithMaxRetries(NewExponentialBackOff())` | `elapsed` = `Clock.Now() - startTime`; one action per branch after `operation()` returns, one for the timer |
| `Broadcast` | what `ConnectState` promises the callers of `WaitStartConnect`, without channels | `on` = the state is Connected; `place[w]` = outside, waiting or released |
| `SignalClient` | `ConnectState`, the stream goroutine, waiters, status queries, ICE callbacks | `conn`/`closed` are numbered channels; `IsConnected` and `GetConnChan` are separate steps because the code does not lock across them |
| `Negotiation` | control plane and ICE of several nodes with the signal server between them | `inc[n]` = start number = credentials; `hand` = the blocked send on `waitForRemoteConnCh`; `worker` = the loop of `WaitForRemoteConn`; `waiter[n][p]` = the goroutine of an `Ice` |
| `Link` | what `Negotiation` promises, without messages, agents and goroutines | `gen` = starts; `half[n][p]` = the start of p that n is linked to |
| `Daemon` | one node's process under systemd or launchd | `host` = kernel module, user-space device or darwin; `main` = where `execUp` is or how the process ended (exit codes 0, 1, 2 and killed); `stage[p]` = how far a peer's `Ice` got; `iface`, `wgPeers` = the device |
| `WireProxy` | the proxies at the two ends of a connection, with WireGuard between its endpoint and the pumps | `useProxy` = what `shouldUseProxy` says of the pair each end sees; `direct` = it skips the proxy and sends to an address of the peer's own; `filtered` = the ends whose firewall lets in answers only; `starter`, `closer` = where `StartProxy` and `Ice.Cleanup` are; `localPump`, `remotePump` = the two loops |
| `Service` | the systemd commands | `pc` = the next step of the command; `unit` = systemd's view |
| `Launchd` | the same commands on darwin; extends `Service` | `unitFile` = the plist, `enabled` = launchd has loaded the job, `unit` = its process |
| `Platforms` | `newDaemon`: systemd, launchd or a record whose methods do nothing | `platform` |
| `ClientConf` | `NewConf` and its two files | a file is what reading it yields; `tmp[p]` = the temporary file is complete; `stateDisk`, `specDisk` = what a power failure would leave |
| `RcnSock` | the status socket: the daemon's `Connect` and goroutines, and `DialRunetaledStatus` | `file` = who bound the path; `sock[d]` = where `Connect` is; `query[c]` = where the client is |
| `Engine` | `runetale up` with its engine and WonderWall; extends `RcnSock` | `up[c]` = where `execUp` is; waiting in `engine.Start` is `"wait"` |
| `*_proofs` | theorems about the module they extend (`Service_proofs`: about `Platforms`) | |
| `MC*` | constants for TLC | `Platforms`, `Service` and `WireProxy` are checked as they are |

`SignalClient` and `Backoff` are both related to `RetryContract`: `Backoff`
implements it (`ImplementsContract`, with `Init`), and the stream goroutine
keeps its next-state relation (`StreamKeepsRetryContract`). `SignalClient`
implements `Broadcast` (`ImplementsBroadcast`): a waiter is released once the
channel it holds is closed, whether or not it has noticed. `Negotiation`
implements `Link` with `gen <- inc` and `half` the start each node has dialled
and reached (`ImplementsLink`). `Platforms` puts the three service managers side
by side under the same properties, and `Engine` composes the command with
`RcnSock`. `Negotiation`, `Daemon`, `WireProxy` and `SignalClient` cut the daemon along its questions rather than its
packages. Each of them takes what it does not ask about as a free choice:
`SignalClient` lets `initialOfferToRemotePeer` end either way; `Daemon` lets a
peer stop at any stage and has `CrashElsewhere` for the panics that
`SignalClient` and `Negotiation` find; `Negotiation` has the stream open;
`RcnSock` starts a daemon only when no other one holds the interface, which is
what `Daemon` shows of `Setup`; `WireProxy` begins where `Dial` or `Accept` has
returned, with any pair of candidates the agents can have selected and any firewalls
before the ends.

In the text of a message the server swaps the node keys, so that
`GetDstNodeKey()` of a received message is its sender's key: the handler looks
`peerConns` up by it. `src` and `dst` in `Negotiation` are sender and receiver.

The definitions that break something on purpose stand before the one they vary
(`ResetKeepsTries` before `Reset`); no specification uses them. `PROJECT.json`
names the property each of them violates.

## 3. Runs

| run | instance | what it shows |
|---|---|---|
| `backoff` | 3 retries, intervals 2, 3, 4, 5, elapsed budget 12, operations of 0, 3 or 12 ticks, timers up to 2 late | the budgets, the contract, termination |
| `signal` | 2 waiters, 3 retries | channels as a broadcast, offers, reconnects |
| `signal_wait` | 1 waiter | **violated**: the lost wake-up in `WaitStartConnect` |
| `negotiation` | 2 enrolled nodes, b may start twice, lost messages, failing calls, crashes | replies, single connection, agreement, the refinement of `Link`; no handshake stalls, the peers connect |
| `negotiation_restart` | node b starts twice, nothing lost | **violated**: the pair does not connect again |
| `negotiation_join` | nobody enrolled at first | **violated**: a late joiner crashes a settled node |
| `daemon` | 3 kinds of host, 2 peers, 2 faults, any number of restarts | interface, clean stops, shutdown, restart |
| `proxy` | 2 ends anywhere, every pair of candidates, every set of firewalls, end A may stop | pumps, cleanup, a path for the tunnel |
| `service` | 3 platforms, the whole state space | unit file and binary, the job, what nil means |
| `service_down` | systemd, the whole state space | **violated**: `down` fails in `NewConf`, before it uninstalls |
| `client_conf` | 2 processes, 4 keys, symmetric, power failures | usable files, one identity |
| `engine` | 2 starts of the daemon, 1 client that may run `up` again and again | answers, the path, listening, queries that end |

The runs check no type invariant: `TypeOK` of every module is a theorem.

Bounds and why they are enough. *Backoff*: the intervals reach their cap, both
budgets run out, and a single operation can outlast the elapsed one; the theorems cover all
values. *SignalClient*: the daemon has one waiter; a second one makes two
callers share and re-create channels. *Negotiation*: the protocol is between
pairs, and a node that restarts has stale messages from its first start and
meets a peer that did not restart; the theorems cover any set of nodes and any
number of starts. `MaxStarts` bounds restarts. *Daemon*: two
peers make `Close` stop between two cleanups; `MaxFaults` bounds the failing
calls of a behaviour, not its restarts or administrators, and two faults give the
double close, a crash during a shutdown and a failed restart after a crash.
*ClientConf*: four keys let both processes generate both keys, or one start
over after a power failure; `Keys` bounds how many are generated. *Engine*: the
hazards are between a daemon and its successor; every start and every query of
one client meets both, and the theorems cover any number. *WireProxy*: a pair has
two ends, both of which may have a firewall; one that stops is enough for the peer to be left behind, and the
theorems cover both stopping. A full connection buffer is one waiting packet: the
next one is lost, which UDP and the tunnel have to stand.

Deadlock is checked in `backoff`, `daemon`, `service`, `service_down` and
`client_conf`. It is not in the others: a stream that was given up, nodes that
are linked, ends whose proxies failed or were cleaned up, and a command that waits
for `rootch` after the last daemon has ended, have nothing left to do.

Fairness. `Backoff`: an operation returns and a timer fires. `SignalClient`:
goroutines that can run do, and timers fire; nothing makes the server accept a
stream. `Negotiation`: daemons are started, goroutines run, the server delivers
what it has (weakly fair per receiver) and agents that can reach each other do;
no failure is fair. `Daemon`: systemd restarts a failed unit and delivers
signals, and the main goroutine goes on; `LoginBySession` is not fair, since
nobody has to use a browser, and no peer has to advance. `ArmSignal` and
`RcnStart` are not needed. `Engine`: the daemon's goroutines (`Connect`, accept and
serve) run while its process lives, and the command goes on once it dials; `NewConf`, the login and the end of a daemon are not fair, and no
daemon has to start. `WireProxy`: goroutines run and WireGuard sends, as it does
every `DefaultWgKeepAlive`, which also keeps the state of NATs and firewalls alive; `Stop`, the removal of the peer, closing the agent and
a failing `localConn.Read` are not fair. `Platforms` and `ClientConf` have
safety properties only.

### What the properties leave open

Several properties carry an exception that names a real weakness, so that the
rest can be shown: `OfferNeedsSession` (`queried`: a status query calls
`Connected()`), `NoStall` and `PeersConnect` (`missed`: a handshake dropped before the select, a
failed call, a lost message; crashes), `NoSilentLeak` (`leak`), `ComesBack` (exit
code 0 under systemd, a left kernel interface), `UnitHasBinary` (`undeleted`),
`InstallStartsService` (`skipped`: a unit file left by a failed Install, or a
stub), `UninstallRemovesService` (`undeleted`; `ran` and `steady`: a service between two
restarts), `StopIsClean` (`faults`: a failing call, among them the second close of
`ch` when the stream gives up; `Unready`: a peer without an agent, whose cleanup
dereferences nil),
`UninstallEndsJob` (`undeleted`), `OneIdentity` (`overlapped`, `lost`),
`IdentityStays` (a power failure before the directories are on the disk),
`SocketStaysReachable` and `DaemonListens` (`overlap`), `CleanedPeerIsOff`
(`overtaken`), `PathOpen` and `TunnelStaysUp` (`stranded`: two carrier
NATs, or a firewalled public host whose peer is known by a NAT's or a relay's
address). Hazards in `PROJECT.json` say where
each of them is in the code, and a hazard that only an exception names has a note
instead of a property.

### Findings

1. `WaitStartConnect` can miss `Connected()` and block for ever
   (`signal_client.go:176`).
2. After a restart of its peer a node never connects to it again (`ice.go:402`).
3. An offer of a node that is not in `peerConns` dereferences a nil `*Ice`;
   `SyncRemoteNodes`, which would refresh the map, has no caller
   (`control_plane.go:335`).
4. `runetaled down` uninstalls nothing (`down.go:77`). Its flags are bound to
   `upArgs`, `execDown` passes `downArgs`, whose ports are 0, and the blocking dial
   of `NewConf` fails after 5 s; `execDown` prints that and returns nil before
   `r.Stop()` and `d.Uninstall()`. (`CreateSpec` panics if the spec file cannot be
   read or written, which ends the command as early.)

Other observations, which no text of the repository contradicts:

* A kernel's interface that a failed `Setup` or a crash left makes every later
  start fail at `ip link add` (`iface_linux.go:85`). A failed login or `Stop` exits
  with code 0, which `Restart=on-failure` does not restart; launchd restarts always.
* In `runetale up` nobody closes `rootch`, so `engine.Start` never returns and the
  signal handling after it (`up.go:114-131`) is never reached; the default action
  ends the process. If `rootch` were closed, `Start` would lock `mu` twice
  (`engine.go:107`). When the dial fails, the command prints that one should retry
  and waits all the same.
* The daemon's last goroutine removes the socket path whoever bound it
  (`sock.go:102`). A daemon started by hand beside one that is still ending
  can lose its path for good.
* `IsPublicIP` takes carrier-grade NAT addresses (100.64/10) for public
  (`wire_proxy.go:167`). Two ends behind different carrier NATs both skip the
  proxy, and neither address takes packets.
* `shouldUseProxy` returns false at both ends as soon as either one is a public host
  (`wire_proxy.go:151-156`). ICE may have reached that host by hole punching on
  another port or over a relay: if a stateful firewall protects its WireGuard port
  and its peer is known by a NAT's or a relay's address, neither end gets through.
* A SIGTERM while the stream gives up, or while the initial offers fail, closes `ch`
  twice (`up.go:123`, `control_plane.go:187`): the process crashes before `Stop`
  has removed the interface.
* After `Stop` the pump that reads `localConn` stays in `Read` until WireGuard
  sends another packet or the process ends.
* `AtomicWriteFile` does not sync the directory. A power failure soon after the
  first start can undo a rename, and the node comes back under another key.

## 4. Proofs

All theorems hold for every value of the constants under the assumptions named
in the modules (`BackoffAssumption`, `SignalAssumption`,
`NegotiationAssumption`, `DaemonAssumption`, `ConfAssumption`,
`NoDaemonAssumption`, `EndsAssumption`), which TLC
evaluates in the runs. Each module has a step lemma per invariant, with one step
per action.

Fairness and ENABLED are out of the prover's reach, so no theorem states a
liveness property. What is proved of most of them is the half that fairness does
not give: that what is waited for has not been lost, and that steps which can go
on for ever do not undo what was achieved.

| liveness, by TLC | proved for every instance | what fairness adds |
|---|---|---|
| `RetryReturns` | `Refinement`: runs are counted and at most `1 + MaxTries` | operations return, timers fire |
| `ReconnectReleases` | `BroadcastRefinement`: the next `Connected()` releases everybody who waits | the goroutine that opened a stream calls it |
| `PeersConnect` | `NoStallCorrect`: nodes that have nothing left to do are linked | messages arrive, goroutines run |
| `ShutdownEnds` | `ShutdownProgress`: the work of `Close` only shrinks, phases only go forward | the main goroutine runs |
| `ComesBack` | `StartCorrect`: a start in which no call fails ends only with exit code 1, and after a leak or a browser login | systemd and launchd restart |
| `QueryEnds` | `QueryNeverStuck`: who is waited for serves, or is gone | daemons and commands run |
| `DaemonListens` | `ReachableCorrect`: without an overlap no daemon finds the path in use | `Connect` goes on |
| `RemotePumpEnds` | `WindDownCorrect`: the pump of a closed agent never reads again | the pump runs |
| `TunnelStaysUp` | `PathCorrect`: there is a path, and who was heard is reached | pumps run, WireGuard sends |


* `Backoff_proofs`: type correctness, the run budget, the elapsed budget, giving
  up, the interval, and the refinement of `RetryContract`. The budget needs
  `runs = numTries` while the loop runs; the refinement uses that as its
  mapping's link between `runs` and the guard of `CFailedRun`. Giving up needs
  that a random pause is at most `LongestPause(MaxInterval)`.
* `SignalClient_proofs`: types (which need how `fails` and `numTries` go together
  at each point of the stream), no orphan waiter, no double close, offers after
  sessions, the retry contract, and the refinement of `Broadcast`. `NoOrphanWaiter` and
  `RegisteredChannelIsOpen` are proved over numbered channels: `made` is fresh, so
  a new channel is not in `closed`. Offers need that state CONNECT and every
  closed channel come from a session, a query or an agent. In the refinement
  `GetConnChan` is `BWait` because what it hands out is open, and every caller of
  `Connected()` is `BConnect` because whoever waits on an open channel waits on
  the registered one.
* `Negotiation_proofs`: types, `RepliesFindTheirAgent`, `OneConnPerPeer`,
  `LinkAgrees`, for any set of nodes. The invariants relate messages to their
  senders: no message carries credentials from the future, an offer of the
  current start was sent after its agent was made, so a reply to it finds that
  agent; `starts` counts exactly the peers in `gathered`; credentials once dialled
  are not replaced while the process lives. `LinkRefinement` maps a start to
  `LStart`, `IceConnects` to `LConnect` and everything else to a stutter; that
  `startConn` runs once per `Ice` is what keeps a half from being made again.
  `NoStallCorrect` is the longest argument. As long as every node runs its first
  start and misses nothing (`Fresh`, which no step can bring back), `Carried`
  holds: what one side of a pair still needs is on its way. Between two running
  nodes an offer is still to be made, in flight or taken (`OfferCarried`; the
  server lists every running node, `UpListed`, so whoever synchronises second finds
  the first); whoever took credentials has yet to answer, has its answer in
  flight, or its peer took credentials too (`AnswerCarried`); the candidates of an
  agent that has gathered are in flight or arrived (`CandidateCarried`). When
  nothing is in flight and nobody has a step left, the only stage that both sides
  of a pair can be in is linked (`QuietIsMeshed`).
* `Daemon_proofs`: types, `NoSilentLeak` and `ServesOwnInterface` on every kind
  of host (inductive together with: a leaked interface is a kernel's and is
  there), `StopIsClean` and
  `ShutdownProgress`. `StopIsClean` rests on `QuietInv`: as long as no call has failed,
  `ch` is closed by the signal goroutine only and the goroutine has then spent its
  signal, and every step that ends the process early either needs a fault or meets a
  peer without an agent. `ShutdownProgress` is about the unguarded map: the initial offers
  may write a peer into it while `Close` ranges over it. `Work`, the peers to visit
  and those not in the map yet, never grows, since a peer that is in the set of
  `Close` is in the map for good (`ClosingInv`). `StartCorrect` needs the invariant
  of the interface (what makes `ip link add` fail is a leak) and that `Setup` comes
  after a login.
* `Service_proofs`: types, `UnitHasBinary`, `InstallStartsService`,
  `UninstallRemovesService` on all platforms, and `JobKeepsPlist` and
  `UninstallEndsJob`; the invariant says for each program point what the
  command has achieved so far if the service manager did nothing by itself, and
  on launchd that the plist goes only after the job.
* `ClientConf_proofs`: types, `StartsAgain` (no process holds the empty key),
  `OneIdentity` and `IdentityStays`. For `OneIdentity` the invariant says what a
  process that is alone in `NewConf` knows of the files at each point, and that every
  identity that logged in is the one in the files. The copies on the disk are
  covered by `StartsAgain` too: whatever was renamed into place was complete.
* `Engine_proofs`: types, `AnswersAreOwn` (a daemon that serves has stored its
  address), `SocketStaysReachable` (`SockInv`: without an overlap one
  daemon lives at a time, and whoever is bound or dialled has come to serve), and
  `QueryNeverStuck`, from `SockInv` and that a command has a query exactly from the
  moment it dials.
* `WireProxy_proofs`: types, `LateForwardsBounded` (inductive with: a pump that has
  forwarded a late packet does not read again), `CleanedPeerIsOff`
  (`CleanInv`: what each point of `Cleanup` implies for the context, the agent and
  the peer, unless `Stop` overtook `StartProxy`), `WindDownCorrect` from the same
  invariant, and `PathOpen`. That one rests on a lemma about `shouldUseProxy`: an
  end that skips the proxy does so for its own host address or for the peer's.
  So in every pair that is not stranded one end uses the proxy or sends to an
  address of the peer's own (`SomeEndGetsThrough`), and either no firewall is in the
  way or the peer sends straight back, which opens it (`GetsThrough`); `PathInv`
  then follows the endpoint of that end through the packets that move it.

Only model-checked: the liveness properties in the table as they stand.

## 5. Not modelled

* `SyncRemoteNodes`, `syncRemotePeerConfig`, `UpdateState`, launchd's `start` and
  the Load, Unload, Start and Stop of the stubs: no caller. `engine.Stop` and
  `WonderWall.Stop` are never reached.
* `ComposeNode`, `Disconnect` and `GetConnectionStatus` of the server client: calls
  without state in the client.
* The content of packets, and `localConn.Write` failing while the interface is up.
* pion's failed timeout as a clock: a `Dial` or `Accept` that gives up is `CallFails`
  in `Negotiation`, at any time.
* `mu` of the engine: `Start` holds it while it waits for `rootch`, which nobody
  closes, so no second caller of `Lock` is ever reached.
* Two service commands at once: `Service` runs one at a time, since both need
  root and a person.
* A power failure in the middle of `Install`: `Reboot` and `Boot` keep what was
  written.
* Fields of the spec file other than the key. (A `preshared_key` in the file is
  erased by the next start: `spec.go:145`.)
* Key formats, paths, logging, system information, gRPC and pion: external or pure.

## 6. Plan

Done, in this order: `RetryContract` and `Backoff`; `SignalClient`;
`Negotiation`; `Daemon`; `Service`; `ClientConf`; `Link` and its refinement;
`Launchd` and `Platforms`; `RcnSock` and `Engine`; `WireProxy`; the hosts of
`Daemon` and the power failures of `ClientConf`; proofs of every safety property;
`Broadcast` and its refinement; the safety halves of the liveness properties.

Next:

1. The step simulation between `Daemon`'s view of a peer (`stage`, `wgPeers`) and
   `WireProxy`'s (`starter`, `closer`, `endpoint`), as two refinements of one
   abstract peer entry.
2. Proofs that read better: fewer cases per step lemma in `Negotiation_proofs` and
   `Service_proofs`, lemmas shared between the invariants.
