------------------------ MODULE SignalClient_proofs ------------------------
(***************************************************************************)
(* No waiter is orphaned, no channel is closed twice, ConnectState is the  *)
(* broadcast its callers rely on, and the stream goroutine keeps the retry *)
(* contract, for any number of waiters and any number of tries.            *)
(***************************************************************************)
EXTENDS SignalClient, TLAPS

\* Whoever blocks in WaitStartConnect holds a channel that is already closed
\* or that the next Connected() will close: GetConnChan never hands out a
\* channel that ConnectState has lost.
NoOrphanWaiter ==
    \A w \in Waiters : waiter[w] = "blocked" => ch[w] \in closed \cup {conn} /\ ch[w] # 0

\* The failures counted by the goroutine are the ones Retry has granted a
\* run for, plus the last one when it gives up.
FailsMatchTries ==
    /\ stream \notin {"ended"} => fails = numTries
    /\ stream = "ended" => fails \in {numTries, numTries + 1}

Offering(w) == waiter[w] \in {"offering", "offered", "failed"}

\* A released waiter, and a closed channel it could be released by, both
\* trace back to a stream or to a status query; so does the state itself.
ReleaseHasCause ==
    opened \/ queried \/
        /\ state = "DISCONNECT"
        /\ closed = {}
        /\ \A w \in Waiters : ~Offering(w)

OpenedInSession == stream \in {"opened", "recv"} => opened

IInv ==
    /\ TypeOK
    /\ NoOrphanWaiter
    /\ RegisteredChannelIsOpen
    /\ FailsMatchTries
    /\ ReleaseHasCause
    /\ OpenedInSession

\* The effect of Connected() on the channel bookkeeping: the registered
\* channel moves to the closed ones and nobody is orphaned.
LEMMA ConnectedKeepsWaiters ==
    ASSUME TypeOK, NoOrphanWaiter, RegisteredChannelIsOpen, Connected, UNCHANGED waiterVars
    PROVE  /\ state' = "CONNECT"
           /\ made' = made
           /\ conn' \in 0..made'
           /\ closed' \subseteq 1..made'
           /\ NoOrphanWaiter'
           /\ RegisteredChannelIsOpen'
  <1>1. CASE conn = 0
    BY <1>1 DEF TypeOK, NoOrphanWaiter, RegisteredChannelIsOpen, Connected, waiterVars
  <1>2. CASE conn # 0
    BY <1>2 DEF TypeOK, NoOrphanWaiter, RegisteredChannelIsOpen, Connected, waiterVars
  <1>3. QED
    BY <1>1, <1>2

\* The inductive invariant holds before any goroutine has run.
LEMMA InitIInv == Init => IInv
  <1> SUFFICES ASSUME Init PROVE IInv
    OBVIOUS
  <1>1. TypeOK
    <2>1. opened \in BOOLEAN /\ queried \in BOOLEAN
      BY Zenon DEF Init
    <2>2. waiter \in [Waiters -> WaiterStates] /\ ch \in [Waiters -> 0..made]
      BY DEF Init, WaiterStates
    <2>3. numTries \in 0..MaxTries /\ fails \in 0..(MaxTries + 1)
      BY SignalAssumption DEF Init
    <2>4. /\ state \in {"CONNECT", "DISCONNECT"} /\ query \in {"idle", "marked"}
          /\ stream \in StreamStates /\ made \in Nat /\ conn \in 0..made
          /\ closed \subseteq 1..made
      BY DEF Init, StreamStates
    <2>5. QED
      BY <2>1, <2>2, <2>3, <2>4 DEF TypeOK
  <1>2. NoOrphanWaiter /\ RegisteredChannelIsOpen
    BY DEF Init, NoOrphanWaiter, RegisteredChannelIsOpen
  <1>3. FailsMatchTries /\ ReleaseHasCause /\ OpenedInSession
    BY DEF Init, FailsMatchTries, ReleaseHasCause, OpenedInSession, Offering
  <1>4. QED
    BY <1>1, <1>2, <1>3 DEF IInv

\* Each step of a waiter preserves the inductive invariant.
LEMMA WaiterKeepsIInv ==
    ASSUME IInv, NEW w \in Waiters, WaiterStep(w)
    PROVE  IInv'
  <1> USE SignalAssumption DEF IInv, TypeOK, WaiterStates, StreamStates,
          stateVars, streamVars, queryVars
  <1>1. CASE IsConnected(w)
    BY <1>1 DEF IsConnected, NoOrphanWaiter, RegisteredChannelIsOpen, FailsMatchTries,
                ReleaseHasCause, OpenedInSession, Offering
  <1>2. CASE GetConnChan(w)
    <2>1. TypeOK'
      BY <1>2 DEF GetConnChan
    <2>2. NoOrphanWaiter' /\ RegisteredChannelIsOpen'
      BY <1>2 DEF GetConnChan, NoOrphanWaiter, RegisteredChannelIsOpen
    <2>3. FailsMatchTries' /\ OpenedInSession'
      BY <1>2 DEF GetConnChan, FailsMatchTries, OpenedInSession
    <2>4. ReleaseHasCause'
      BY <1>2 DEF GetConnChan, ReleaseHasCause, Offering
    <2>5. QED
      BY <2>1, <2>2, <2>3, <2>4
  <1>3. CASE WaitEnds(w)
    BY <1>3 DEF WaitEnds, NoOrphanWaiter, RegisteredChannelIsOpen, FailsMatchTries,
                ReleaseHasCause, OpenedInSession, Offering
  <1>4. CASE InitialOfferEnds(w)
    BY <1>4 DEF InitialOfferEnds, NoOrphanWaiter, RegisteredChannelIsOpen,
                FailsMatchTries, ReleaseHasCause, OpenedInSession, Offering
  <1>5. QED
    BY <1>1, <1>2, <1>3, <1>4 DEF WaiterStep

\* Every step that calls Connected() preserves the inductive invariant.
LEMMA MarkKeepsIInv ==
    ASSUME IInv, MarkConnected \/ GetConnStatusMarks \/ IceCompleted
    PROVE  IInv'
  <1>1. Connected /\ UNCHANGED waiterVars /\ numTries' = numTries /\ fails' = fails
          /\ opened' = opened
    BY DEF MarkConnected, GetConnStatusMarks, IceCompleted, streamVars
  <1>2. /\ state' = "CONNECT" /\ made' = made /\ conn' \in 0..made'
        /\ closed' \subseteq 1..made'
        /\ NoOrphanWaiter' /\ RegisteredChannelIsOpen'
    BY <1>1, ConnectedKeepsWaiters DEF IInv
  <1>3. opened' \/ queried'
    BY <1>1 DEF IInv, MarkConnected, GetConnStatusMarks, IceCompleted, OpenedInSession,
                ReleaseHasCause, AgentExists, Offering, queryVars
  <1>4. TypeOK' /\ FailsMatchTries' /\ OpenedInSession'
    BY <1>1, <1>2, SignalAssumption
    DEF IInv, TypeOK, FailsMatchTries, OpenedInSession, MarkConnected,
        GetConnStatusMarks, IceCompleted, waiterVars, streamVars, queryVars, StreamStates
  <1>5. QED
    BY <1>2, <1>3, <1>4 DEF IInv, ReleaseHasCause

\* Every step of the system preserves the inductive invariant.
LEMMA StepIInv == IInv /\ [Next]_vars => IInv'
  <1> SUFFICES ASSUME IInv, [Next]_vars PROVE IInv'
    OBVIOUS
  <1> USE SignalAssumption
  <1>1. ASSUME NEW w \in Waiters, WaiterStep(w) PROVE IInv'
    BY <1>1, WaiterKeepsIInv
  <1>2. CASE MarkConnected \/ GetConnStatusMarks \/ IceCompleted
    BY <1>2, MarkKeepsIInv
  <1> USE DEF IInv, TypeOK, NoOrphanWaiter, RegisteredChannelIsOpen, FailsMatchTries,
              ReleaseHasCause, OpenedInSession, Offering, StreamStates,
              stateVars, waiterVars, streamVars, queryVars
  <1>3. CASE StreamOpens
    BY <1>3 DEF StreamOpens
  <1>4. CASE ConnectFails
    BY <1>4 DEF ConnectFails
  <1>5. CASE RecvErrorPanics
    BY <1>5 DEF RecvErrorPanics
  <1>6. CASE RetryTimerFires
    BY <1>6 DEF RetryTimerFires
  <1>7. CASE GetConnStatusReads
    BY <1>7 DEF GetConnStatusReads
  <1>8. CASE IceLost
    BY <1>8 DEF IceLost, DisConnected
  <1>9. CASE UNCHANGED vars
    BY <1>9 DEF vars
  <1>10. QED
    BY <1>1, <1>2, <1>3, <1>4, <1>5, <1>6, <1>7, <1>8, <1>9 DEF Next

\* The inductive invariant holds in every reachable state.
THEOREM InductiveInvariant == Spec => []IInv
  BY InitIInv, StepIInv, PTL DEF Spec

\* Type correctness, which bounds the failed runs by 1 + MaxTries.
THEOREM TypeCorrect == Spec => []TypeOK
  BY InductiveInvariant, PTL DEF IInv

\* GetConnChan and Connected never leave a waiter on a lost channel.
THEOREM NoOrphanCorrect == Spec => []NoOrphanWaiter
  BY InductiveInvariant, PTL DEF IInv

\* Connected never closes a channel twice.
THEOREM ChannelCorrect == Spec => []RegisteredChannelIsOpen
  BY InductiveInvariant, PTL DEF IInv

\* Offers wait for a stream, or for the status query that fakes one.
THEOREM OfferCorrect == Spec => []OfferNeedsSession
  <1>1. IInv => OfferNeedsSession
    BY DEF IInv, ReleaseHasCause, OfferNeedsSession, Offering
  <1>2. QED
    BY <1>1, InductiveInvariant, PTL

\* The stream goroutine is a caller of Retry that keeps its contract.
THEOREM RetryContractKept == Spec => StreamKeepsRetryContract
  <1>1. IInv /\ [Next]_vars => [Contract!CNext]_(Contract!contractVars)
    <2> SUFFICES ASSUME IInv, [Next]_vars
                 PROVE  [Contract!CNext]_(Contract!contractVars)
      OBVIOUS
    <2>1. CASE ConnectFails
      <3>1. stream' # "ended" => Contract!CFailedRun
        BY <2>1, SignalAssumption
        DEF IInv, TypeOK, FailsMatchTries, ConnectFails, Contract!CFailedRun
      <3>2. stream' = "ended" => Contract!CLastRun
        BY <2>1, SignalAssumption
        DEF IInv, TypeOK, FailsMatchTries, ConnectFails, Contract!CLastRun
      <3>3. QED
        BY <3>1, <3>2 DEF Contract!CNext
    <2>2. CASE ~ConnectFails
      <3>1. fails' = fails /\ (stream' = "ended") = (stream = "ended")
        BY <2>2 DEF Next, WaiterStep, IsConnected, GetConnChan, WaitEnds,
           InitialOfferEnds, StreamOpens, MarkConnected, RecvErrorPanics,
           RetryTimerFires, GetConnStatusMarks, GetConnStatusReads, IceCompleted,
           IceLost, vars, streamVars
      <3>2. QED
        BY <3>1 DEF Contract!contractVars
    <2>3. QED
      BY <2>1, <2>2
  <1>2. QED
    BY <1>1, InductiveInvariant, PTL DEF Spec, StreamKeepsRetryContract

----------------------------------------------------------------------------
(* The refinement of Broadcast                                             *)

\* A step after which every waiter but w is where it was for ConnectState
\* changes one place at most.
LEMMA OnePlaceMoves ==
    ASSUME NEW w \in Waiters, NEW s,
           Place(w)' = s,
           \A v \in Waiters \ {w} : Place(v)' = Place(v)
    PROVE  [v \in Waiters |-> Place(v)]' = [[v \in Waiters |-> Place(v)] EXCEPT ![w] = s]
  OBVIOUS

\* Each step of a waiter is a step of the switch or leaves it alone.
LEMMA WaiterRefines ==
    ASSUME IInv, NEW w \in Waiters, WaiterStep(w)
    PROVE  [Switch!BNext]_(Switch!switchVars)
  <1> DEFINE places == [v \in Waiters |-> Place(v)]
  <1>1. state' = state /\ closed' = closed
    BY DEF WaiterStep, IsConnected, GetConnChan, WaitEnds, InitialOfferEnds, stateVars
  <1>2. ASSUME NEW v \in Waiters \ {w} PROVE Place(v)' = Place(v)
    BY <1>1, <1>2 DEF WaiterStep, IsConnected, GetConnChan, WaitEnds, InitialOfferEnds, Place,
                      IInv, TypeOK, stateVars
  <1>3. (state = "CONNECT")' = (state = "CONNECT")
    BY <1>1
  <1>4. CASE IsConnected(w) /\ state = "CONNECT"
    <2>1. Place(w) = "outside" /\ Place(w)' = "released"
      BY <1>4 DEF IsConnected, Place, IInv, TypeOK
    <2>2. Switch!BPass(w)
      BY <1>2, <1>3, <1>4, <2>1, OnePlaceMoves DEF Switch!BPass
    <2>3. QED
      BY <2>2 DEF Switch!BNext
  <1>5. CASE GetConnChan(w)
    <2>1. conn' \notin closed
      BY <1>5 DEF GetConnChan, IInv, TypeOK, RegisteredChannelIsOpen
    <2>2. Place(w) = "outside" /\ Place(w)' = "waiting"
      BY <1>1, <1>5, <2>1 DEF GetConnChan, Place, IInv, TypeOK
    <2>3. Switch!BWait(w)
      BY <1>2, <1>3, <2>2, OnePlaceMoves DEF Switch!BWait
    <2>4. QED
      BY <2>3 DEF Switch!BNext
  <1>6. CASE (IsConnected(w) /\ state # "CONNECT") \/ WaitEnds(w) \/ InitialOfferEnds(w)
    <2>1. Place(w)' = Place(w)
      BY <1>1, <1>6 DEF IsConnected, WaitEnds, InitialOfferEnds, Place, IInv, TypeOK, stateVars
    <2>2. places' = places
      BY <1>2, <2>1
    <2>3. QED
      BY <1>3, <2>2 DEF Switch!switchVars
  <1>7. QED
    BY <1>4, <1>5, <1>6 DEF WaiterStep

\* Connected() turns the switch on and releases everybody who waits: each of
\* them waits on the channel that is registered, and that one is closed.
LEMMA ConnectedRefines ==
    ASSUME IInv, Connected, UNCHANGED waiterVars
    PROVE  Switch!BConnect
  <1>1. (state = "CONNECT")' = TRUE
    BY DEF Connected
  <1>2. ASSUME NEW w \in Waiters
        PROVE  Place(w)' = IF Place(w) = "waiting" THEN "released" ELSE Place(w)
    <2>1. CASE Place(w) = "waiting"
      <3>1. waiter[w] = "blocked" /\ ch[w] = conn /\ conn # 0
        BY <1>2, <2>1 DEF Place, IInv, NoOrphanWaiter
      <3>2. ch[w]' \in closed' /\ waiter[w]' = "blocked"
        BY <3>1 DEF Connected, waiterVars
      <3>3. QED
        BY <2>1, <3>2 DEF Place
    <2>2. CASE Place(w) # "waiting"
      <3>1. closed \subseteq closed'
        BY DEF Connected
      <3>2. QED
        BY <2>2, <3>1 DEF Place, waiterVars
    <2>3. QED
      BY <2>1, <2>2
  <1>3. [w \in Waiters |-> Place(w)]'
          = [w \in Waiters |-> IF [v \in Waiters |-> Place(v)][w] = "waiting"
                               THEN "released" ELSE [v \in Waiters |-> Place(v)][w]]
    BY <1>2
  <1>4. QED
    BY <1>1, <1>3 DEF Switch!BConnect

\* ConnectState, with its channels, is the broadcast its callers rely on:
\* Connected() releases all who wait and nobody else ever gets through.
THEOREM BroadcastRefinement == Spec => ImplementsBroadcast
  <1>1. Init => Switch!BInit
    <2> SUFFICES ASSUME Init PROVE Switch!BInit
      OBVIOUS
    <2>1. (state = "CONNECT") = FALSE
      BY DEF Init
    <2>2. [w \in Waiters |-> Place(w)] = [w \in Waiters |-> "outside"]
      BY DEF Init, Place
    <2>3. QED
      BY <2>1, <2>2 DEF Switch!BInit
  <1>2. IInv /\ [Next]_vars => [Switch!BNext]_(Switch!switchVars)
    <2> SUFFICES ASSUME IInv, [Next]_vars PROVE [Switch!BNext]_(Switch!switchVars)
      OBVIOUS
    <2>1. ASSUME NEW w \in Waiters, WaiterStep(w) PROVE [Switch!BNext]_(Switch!switchVars)
      BY <2>1, WaiterRefines
    <2>2. CASE MarkConnected \/ GetConnStatusMarks \/ IceCompleted
      <3>1. Switch!BConnect
        BY <2>2, ConnectedRefines DEF MarkConnected, GetConnStatusMarks, IceCompleted
      <3>2. QED
        BY <3>1 DEF Switch!BNext
    <2>3. CASE IceLost
      <3>1. (state = "CONNECT")' = FALSE
        BY <2>3 DEF IceLost, DisConnected
      <3>2. [w \in Waiters |-> Place(w)]' = [w \in Waiters |-> Place(w)]
        BY <2>3 DEF IceLost, DisConnected, Place, waiterVars
      <3>3. Switch!BDisconnect
        BY <3>1, <3>2 DEF Switch!BDisconnect
      <3>4. QED
        BY <3>3 DEF Switch!BNext
    <2>4. CASE StreamOpens \/ ConnectFails \/ RecvErrorPanics \/ RetryTimerFires
               \/ GetConnStatusReads \/ UNCHANGED vars
      <3>1. UNCHANGED <<stateVars, waiterVars>>
        BY <2>4 DEF StreamOpens, ConnectFails, RecvErrorPanics, RetryTimerFires,
                    GetConnStatusReads, vars
      <3>2. (state = "CONNECT")' = (state = "CONNECT")
              /\ [w \in Waiters |-> Place(w)]' = [w \in Waiters |-> Place(w)]
        BY <3>1 DEF Place, stateVars, waiterVars
      <3>3. QED
        BY <3>2 DEF Switch!switchVars
    <2>5. QED
      BY <2>1, <2>2, <2>3, <2>4 DEF Next
  <1>3. QED
    BY <1>1, <1>2, InductiveInvariant, PTL DEF Spec, ImplementsBroadcast, Switch!BSpec
=============================================================================
