---------------------------- MODULE SignalClient ----------------------------
(***************************************************************************)
(* How the daemon learns that its stream to the signal server is up: the   *)
(* shared conn.ConnectState, the stream goroutine that ConnectSignalServer *)
(* starts, the callers of WaitStartConnect, the status queries that arrive *)
(* on the unix socket and the ICE callbacks.                               *)
(*                                                                         *)
(* ConnectState.mu makes Connected, DisConnected, GetConnChan and          *)
(* GetConnStatus atomic.  IsConnected reads State without the lock: State  *)
(* is a Go string, and a torn read compares unequal to "CONNECT", which is *)
(* the value before Connected or after DisConnected, so reading atomically *)
(* loses no outcome.                                                       *)
(***************************************************************************)
EXTENDS Naturals

CONSTANTS
    Waiters,   \* goroutines that call WaitStartConnect and then offer
    MaxTries   \* the retries the stream goroutine is granted

ASSUME SignalAssumption == MaxTries \in Nat

VARIABLES
    state,     \* ConnectState.State
    conn,      \* ConnectState.conn: a channel number, 0 for nil
    made,      \* channels made so far, numbered 1..made
    closed,    \* the channels that have been closed
    waiter,    \* where each waiter is in WaitStartConnect and after it
    ch,        \* the channel a waiter blocks on, 0 before it has one
    stream,    \* where the stream goroutine is
    numTries,  \* retries granted to the stream goroutine
    fails,     \* failed runs of SignalClient.Connect
    opened,    \* whether a stream was ever established
    query,     \* the socket goroutine: "idle", or "marked" inside GetConnStatus
    queried    \* whether GetConnStatus was ever called

stateVars  == <<state, conn, made, closed>>
waiterVars == <<waiter, ch>>
streamVars == <<stream, numTries, fails, opened>>
queryVars  == <<query, queried>>
vars == <<stateVars, waiterVars, streamVars, queryVars>>

\* A panic in any goroutine ends the process.
Alive == stream # "crashed"

----------------------------------------------------------------------------
(* conn.ConnectState                                                       *)

ConnectedKeepsChannel ==
    /\ state' = "CONNECT"
    /\ closed' = IF conn = 0 THEN closed ELSE closed \cup {conn}
    /\ UNCHANGED <<conn, made>>

ConnectedForgetsClose ==
    /\ state' = "CONNECT"
    /\ conn' = 0
    /\ UNCHANGED <<closed, made>>

\* The registered channel is closed, which wakes whoever waits on it.
Connected ==
    /\ state' = "CONNECT"
    /\ closed' = IF conn = 0 THEN closed ELSE closed \cup {conn}
    /\ conn' = 0
    /\ UNCHANGED made

DisConnected ==
    /\ state' = "DISCONNECT"
    /\ UNCHANGED <<conn, made, closed>>

----------------------------------------------------------------------------
(* SignalClient.WaitStartConnect, followed by initialOfferToRemotePeer     *)

IsConnectedInverted(w) ==
    /\ Alive
    /\ waiter[w] = "check"
    /\ waiter' = [waiter EXCEPT ![w] = IF state = "CONNECT" THEN "getchan" ELSE "offering"]
    /\ UNCHANGED <<stateVars, ch, streamVars, queryVars>>

IsConnected(w) ==
    /\ Alive
    /\ waiter[w] = "check"
    /\ waiter' = [waiter EXCEPT ![w] = IF state = "CONNECT" THEN "offering" ELSE "getchan"]
    /\ UNCHANGED <<stateVars, ch, streamVars, queryVars>>

GetConnChanAlwaysMakes(w) ==
    /\ Alive
    /\ waiter[w] = "getchan"
    /\ made' = made + 1
    /\ conn' = made'
    /\ ch' = [ch EXCEPT ![w] = conn']
    /\ waiter' = [waiter EXCEPT ![w] = "blocked"]
    /\ UNCHANGED <<state, closed, streamVars, queryVars>>

\* Waiters that come while a channel is registered share it.
GetConnChan(w) ==
    /\ Alive
    /\ waiter[w] = "getchan"
    /\ IF conn = 0 THEN made' = made + 1 /\ conn' = made + 1
                   ELSE UNCHANGED <<made, conn>>
    /\ ch' = [ch EXCEPT ![w] = conn']
    /\ waiter' = [waiter EXCEPT ![w] = "blocked"]
    /\ UNCHANGED <<state, closed, streamVars, queryVars>>

\* The client's context is Background, so only the channel ends the select.
WaitEnds(w) ==
    /\ Alive
    /\ waiter[w] = "blocked"
    /\ ch[w] \in closed
    /\ waiter' = [waiter EXCEPT ![w] = "offering"]
    /\ UNCHANGED <<stateVars, ch, streamVars, queryVars>>

\* initialOfferToRemotePeer returns: every peer was handed over, or the
\* retries of SyncRemoteNodesConfig were used up.
InitialOfferEnds(w) ==
    /\ Alive
    /\ waiter[w] = "offering"
    /\ waiter' \in {[waiter EXCEPT ![w] = "offered"], [waiter EXCEPT ![w] = "failed"]}
    /\ UNCHANGED <<stateVars, ch, streamVars, queryVars>>

WaiterStep(w) == IsConnected(w) \/ GetConnChan(w) \/ WaitEnds(w) \/ InitialOfferEnds(w)

----------------------------------------------------------------------------
(* The stream goroutine: SignalClient.Connect under backoff.Retry          *)

\* The server accepted the stream; Connected() has not been called yet.
StreamOpens ==
    /\ stream = "dial"
    /\ stream' = "opened"
    /\ opened' = TRUE
    /\ UNCHANGED <<stateVars, waiterVars, numTries, fails, queryVars>>

MarkConnected ==
    /\ stream = "opened"
    /\ stream' = "recv"
    /\ Connected
    /\ UNCHANGED <<waiterVars, numTries, fails, opened, queryVars>>

RetriesUncounted ==
    /\ stream \in {"dial", "recv"}
    /\ fails' = fails + 1
    /\ fails <= MaxTries + 1
    /\ stream' = "sleep"
    /\ UNCHANGED <<stateVars, waiterVars, numTries, opened, queryVars>>

\* Connect returns an error the loop may retry: the stream could not be
\* opened, it ended with EOF, or the handler could not parse a candidate.
\* State stays what it was.  Stop comes from the tries or, whatever the
\* tries, from the elapsed time, which Retry never resets while it runs.
ConnectFails ==
    /\ stream \in {"dial", "recv"}
    /\ fails' = fails + 1
    /\ \/ /\ numTries < MaxTries
          /\ numTries' = numTries + 1
          /\ stream' \in {"sleep", "ended"}
       \/ /\ numTries = MaxTries
          /\ stream' = "ended"
          /\ UNCHANGED numTries
    /\ UNCHANGED <<stateVars, waiterVars, opened, queryVars>>

\* Recv fails with anything but EOF: the log line reads msg.DstNodeKey of a
\* nil message.
RecvErrorPanics ==
    /\ stream = "recv"
    /\ stream' = "crashed"
    /\ UNCHANGED <<stateVars, waiterVars, numTries, fails, opened, queryVars>>

RetryTimerFires ==
    /\ stream = "sleep"
    /\ stream' = "dial"
    /\ UNCHANGED <<stateVars, waiterVars, numTries, fails, opened, queryVars>>

----------------------------------------------------------------------------
(* RcnSock.listen calls SignalClient.GetConnStatus, which first calls      *)
(* Connected() and then reads the state under a second lock.               *)

GetConnStatusMarks ==
    /\ Alive
    /\ query = "idle"
    /\ query' = "marked"
    /\ queried' = TRUE
    /\ Connected
    /\ UNCHANGED <<waiterVars, streamVars>>

GetConnStatusReads ==
    /\ Alive
    /\ query = "marked"
    /\ query' = "idle"
    /\ UNCHANGED <<stateVars, waiterVars, streamVars, queried>>

\* IceConnectionHasBeenChanged reports the state of a peer's ICE agent into
\* the same ConnectState.  An agent exists once a waiter has begun to offer.
AgentExists == \E w \in Waiters : waiter[w] \in {"offering", "offered", "failed"}

IceCompleted ==
    /\ Alive /\ AgentExists
    /\ Connected
    /\ UNCHANGED <<waiterVars, streamVars, queryVars>>

IceLost ==
    /\ Alive /\ AgentExists
    /\ DisConnected
    /\ UNCHANGED <<waiterVars, streamVars, queryVars>>

----------------------------------------------------------------------------
Init ==
    /\ state = "DISCONNECT"
    /\ conn = 0
    /\ made = 0
    /\ closed = {}
    /\ waiter = [w \in Waiters |-> "check"]
    /\ ch = [w \in Waiters |-> 0]
    /\ stream = "dial"
    /\ numTries = 0
    /\ fails = 0
    /\ opened = FALSE
    /\ query = "idle"
    /\ queried = FALSE

Next ==
    \/ \E w \in Waiters : WaiterStep(w)
    \/ StreamOpens
    \/ MarkConnected
    \/ ConnectFails
    \/ RecvErrorPanics
    \/ RetryTimerFires
    \/ GetConnStatusMarks
    \/ GetConnStatusReads
    \/ IceCompleted
    \/ IceLost

Spec == Init /\ [][Next]_vars

\* The Go scheduler runs every goroutine that can run, and a timer fires.
\* Nothing makes the server accept a stream or a healthy stream fail.
Fairness ==
    /\ \A w \in Waiters : WF_vars(WaiterStep(w))
    /\ WF_vars(MarkConnected)
    /\ WF_vars(RetryTimerFires)
    /\ WF_vars(GetConnStatusReads)

FairSpec == Spec /\ Fairness

----------------------------------------------------------------------------
WaiterStates == {"check", "getchan", "blocked", "offering", "offered", "failed"}
StreamStates == {"dial", "opened", "recv", "sleep", "ended", "crashed"}

TypeOK ==
    /\ state \in {"CONNECT", "DISCONNECT"}
    /\ made \in Nat
    /\ conn \in 0..made
    /\ closed \subseteq 1..made
    /\ waiter \in [Waiters -> WaiterStates]
    /\ ch \in [Waiters -> 0..made]
    /\ stream \in StreamStates
    /\ numTries \in 0..MaxTries
    /\ fails \in 0..(MaxTries + 1)
    /\ opened \in BOOLEAN
    /\ query \in {"idle", "marked"}
    /\ queried \in BOOLEAN

\* The registered channel is open, so Connected() never closes a channel
\* twice, which would panic.
RegisteredChannelIsOpen == conn \notin closed

\* Initial offers go out only after a stream was established, unless a
\* status query has released the waiter: GetConnStatus calls Connected().
OfferNeedsSession ==
    (\E w \in Waiters : waiter[w] \in {"offering", "offered", "failed"}) => opened \/ queried

\* A waiter that registered in time is released by the next stream.
ReconnectReleases ==
    \A w \in Waiters :
        (waiter[w] = "blocked" /\ stream = "opened")
            ~> (waiter[w] # "blocked" \/ stream = "crashed")

\* No caller waits for ever beside a healthy stream in state Connected; the
\* comment on WaitStartConnect calls it a "function to wait until connState
\* becomes Connected until it can".
WaitEndsOnceConnected ==
    \A w \in Waiters :
        ~<>[](waiter[w] = "blocked" /\ state = "CONNECT" /\ stream = "recv")

\* The stream goroutine as a caller of backoff.Retry.
Contract == INSTANCE RetryContract WITH
    phase    <- IF stream = "ended" THEN "done" ELSE "busy",
    attempts <- fails,
    outcome  <- IF stream = "ended" THEN "error" ELSE "none"

\* However streams open, fail and reopen, the goroutine keeps the contract of
\* Retry: it gives up only after a failed run, within 1 + MaxTries runs, and
\* stays given up.
StreamKeepsRetryContract == [][Contract!CNext]_(Contract!contractVars)

\* Where a waiter is for ConnectState: behind an open channel it waits, and
\* once that is closed it is released, whether or not it has noticed.
Place(w) ==
    IF waiter[w] \in {"check", "getchan"} THEN "outside"
    ELSE IF waiter[w] = "blocked" /\ ch[w] \notin closed THEN "waiting" ELSE "released"

Switch == INSTANCE Broadcast WITH
    on    <- state = "CONNECT",
    place <- [w \in Waiters |-> Place(w)]

\* Whoever waits is released by the next Connected(), together with everybody
\* else who waits, and by nothing else: channels that are made, shared, closed
\* and forgotten one after the other lose nobody and let nobody through.
ImplementsBroadcast == Switch!BSpec
=============================================================================
