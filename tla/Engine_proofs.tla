--------------------------- MODULE Engine_proofs ----------------------------
(***************************************************************************)
(* Proofs about Engine and RcnSock, for any number of starts of the daemon *)
(* and of commands that query it.                                          *)
(***************************************************************************)
EXTENDS Engine, TLAPS

----------------------------------------------------------------------------
(* Types                                                                   *)

\* A step of the daemon, of a command or of a query keeps the types.
LEMMA TypeStep == TypeOK /\ [Next]_vars => TypeOK'
<1> SUFFICES ASSUME TypeOK, [Next]_vars PROVE TypeOK'
  OBVIOUS
<1> USE NoDaemonAssumption DEF TypeOK, upVars, sockVars, daemonVars, queryVars
<1>1. ASSUME NEW d \in Daemons, StartDaemon(d), UNCHANGED upVars PROVE TypeOK'
  <2>1. overlap' \in BOOLEAN
    BY <1>1, Zenon DEF StartDaemon
  <2> QED
    BY <1>1, <2>1 DEF StartDaemon
<1>2. ASSUME NEW d \in Daemons, CloseCh(d), UNCHANGED upVars PROVE TypeOK'
  BY <1>2 DEF CloseCh
<1>3. ASSUME NEW d \in Daemons, DaemonEnds(d), UNCHANGED upVars PROVE TypeOK'
  BY <1>3 DEF DaemonEnds
<1>4. ASSUME NEW d \in Daemons, Cleanup(d), UNCHANGED upVars PROVE TypeOK'
  BY <1>4 DEF Cleanup, At, Goto
<1>5. ASSUME NEW d \in Daemons, Assign(d), UNCHANGED upVars PROVE TypeOK'
  BY <1>5 DEF Assign, At, Goto
<1>6. ASSUME NEW d \in Daemons, Listen(d), UNCHANGED upVars PROVE TypeOK'
  BY <1>6 DEF Listen, At, Goto
<1>7. ASSUME NEW d \in Daemons, Unlink(d), UNCHANGED upVars PROVE TypeOK'
  BY <1>7 DEF Unlink, At, Goto
<1>8. ASSUME NEW d \in Daemons, AcceptFails(d), UNCHANGED upVars PROVE TypeOK'
  BY <1>8 DEF AcceptFails, DaemonEnds
<1>9. ASSUME NEW d \in Daemons, NEW c \in Clients, Accept(d, c), UNCHANGED upVars PROVE TypeOK'
  BY <1>9 DEF Accept, Serving
<1>10. ASSUME NEW d \in Daemons, NEW c \in Clients, Serve(d, c), UNCHANGED upVars PROVE TypeOK'
  BY <1>10 DEF Serve, Serving
<1>11. ASSUME NEW c \in Clients, RunUp(c) PROVE TypeOK'
  BY <1>11 DEF RunUp, Goes
<1>12. ASSUME NEW c \in Clients, NewConf(c) PROVE TypeOK'
  BY <1>12 DEF NewConf, Goes, Ends
<1>13. ASSUME NEW c \in Clients, CheckDaemon(c) PROVE TypeOK'
  BY <1>13 DEF CheckDaemon, Goes, Ends
<1>14. ASSUME NEW c \in Clients, loginNode(c) PROVE TypeOK'
  BY <1>14 DEF loginNode, Goes, Ends
<1>15. ASSUME NEW c \in Clients, StartEngine(c) PROVE TypeOK'
  BY <1>15 DEF StartEngine, Goes, Ends, Dial
<1>16. ASSUME NEW c \in Clients, AskStatus(c) PROVE TypeOK'
  BY <1>16 DEF AskStatus, QueryStep, SendRequest, QueryFails
<1>17. ASSUME NEW c \in Clients, WonderWallStarted(c) PROVE TypeOK'
  BY <1>17 DEF WonderWallStarted, Goes
<1>18. ASSUME NEW c \in Clients, Interrupt(c) PROVE TypeOK'
  BY <1>18 DEF Interrupt
<1>19. ASSUME NEW c \in Clients, SignalKills(c) PROVE TypeOK'
  BY <1>19 DEF SignalKills, Ends, HangUp
<1>20. CASE UNCHANGED vars
  BY <1>20 DEF vars
<1> QED
  BY <1>1, <1>2, <1>3, <1>4, <1>5, <1>6, <1>7, <1>8, <1>9, <1>10, <1>11, <1>12,
     <1>13, <1>14, <1>15, <1>16, <1>17, <1>18, <1>19, <1>20
  DEF Next, DaemonNext, ConnectStep, UpStep

\* The variables keep their types.
THEOREM TypeCorrect == Spec => []TypeOK
<1>1. Init => TypeOK
  BY DEF Init, SockInit, TypeOK
<1> QED
  BY <1>1, TypeStep, PTL DEF Spec

----------------------------------------------------------------------------
(* The socket                                                              *)

\* A daemon that has not started has no socket, and one that is ready to
\* listen has stored its own address.
Stored ==
    \A d \in Daemons :
        /\ d \notin live \cup past => sock[d] = "none"
        /\ sock[d] \in {"listen", "serving", "unlinked", "inuse"} => ip[d] = d

\* Whoever bound the path, or is connected to, has come to serve.
BoundServes ==
    /\ file # NoDaemon => sock[file] \in {"serving", "unlinked"}
    /\ \A c \in Clients :
          query[c] \in {"dialed", "sent", "answered"} =>
              /\ conn[c] \in Daemons
              /\ sock[conn[c]] \in {"serving", "unlinked"}

OwnAnswers == \A c \in Clients : query[c] = "answered" => answer[c] = conn[c]

\* Without an overlap there is one daemon at a time, and once that one has
\* removed what it found at the path nothing is there until it listens.
Alone ==
    ~overlap =>
        /\ \A d, e \in live : d = e
        /\ \A d \in live : sock[d] \in {"assign", "listen"} => file = NoDaemon

\* The inductive invariant of the socket.
SockInv == Stored /\ BoundServes /\ OwnAnswers /\ Alone /\ SocketStaysReachable

\* A step of the daemon, of a command or of a query keeps it.
LEMMA SockStep == TypeOK /\ SockInv /\ [Next]_vars => SockInv'
<1> SUFFICES ASSUME TypeOK, SockInv, [Next]_vars PROVE SockInv'
  OBVIOUS
<1> USE NoDaemonAssumption
    DEF TypeOK, SockInv, Stored, BoundServes, OwnAnswers, Alone, SocketStaysReachable,
        upVars, sockVars, daemonVars, queryVars
<1>1. ASSUME NEW d \in Daemons, StartDaemon(d), UNCHANGED upVars PROVE SockInv'
  <2>1. sock[d] = "none"
    BY <1>1 DEF StartDaemon
  <2>2. Stored' /\ BoundServes' /\ OwnAnswers'
    BY <1>1, <2>1 DEF StartDaemon
  <2>3. overlap' <=> overlap \/ live # {}
    BY <1>1, Zenon DEF StartDaemon
  <2>4. Alone'
    BY <1>1, <2>3 DEF StartDaemon
  <2>5. SocketStaysReachable'
    BY <1>1, <2>3 DEF StartDaemon
  <2> QED
    BY <2>2, <2>4, <2>5
<1>2. ASSUME NEW d \in Daemons, CloseCh(d), UNCHANGED upVars PROVE SockInv'
  BY <1>2 DEF CloseCh
<1>3. ASSUME NEW d \in Daemons, DaemonEnds(d), UNCHANGED upVars PROVE SockInv'
  BY <1>3 DEF DaemonEnds
<1>4. ASSUME NEW d \in Daemons, Cleanup(d), UNCHANGED upVars PROVE SockInv'
  BY <1>4 DEF Cleanup, At, Goto
<1>5. ASSUME NEW d \in Daemons, Assign(d), UNCHANGED upVars PROVE SockInv'
  BY <1>5 DEF Assign, At, Goto
<1>6. ASSUME NEW d \in Daemons, Listen(d), UNCHANGED upVars PROVE SockInv'
  BY <1>6 DEF Listen, At, Goto
<1>7. ASSUME NEW d \in Daemons, Unlink(d), UNCHANGED upVars PROVE SockInv'
  BY <1>7 DEF Unlink, At, Goto
<1>8. ASSUME NEW d \in Daemons, AcceptFails(d), UNCHANGED upVars PROVE SockInv'
  BY <1>8 DEF AcceptFails, DaemonEnds
<1>9. ASSUME NEW d \in Daemons, NEW c \in Clients, Accept(d, c), UNCHANGED upVars PROVE SockInv'
  BY <1>9 DEF Accept, Serving
<1>10. ASSUME NEW d \in Daemons, NEW c \in Clients, Serve(d, c), UNCHANGED upVars PROVE SockInv'
  BY <1>10 DEF Serve, Serving
<1>11. ASSUME NEW c \in Clients, RunUp(c) PROVE SockInv'
  BY <1>11 DEF RunUp, Goes
<1>12. ASSUME NEW c \in Clients, NewConf(c) PROVE SockInv'
  BY <1>12 DEF NewConf, Goes, Ends
<1>13. ASSUME NEW c \in Clients, CheckDaemon(c) PROVE SockInv'
  BY <1>13 DEF CheckDaemon, Goes, Ends
<1>14. ASSUME NEW c \in Clients, loginNode(c) PROVE SockInv'
  BY <1>14 DEF loginNode, Goes, Ends
<1>15. ASSUME NEW c \in Clients, StartEngine(c) PROVE SockInv'
  BY <1>15 DEF StartEngine, Goes, Ends, Dial
<1>16. ASSUME NEW c \in Clients, AskStatus(c) PROVE SockInv'
  BY <1>16 DEF AskStatus, QueryStep, SendRequest, QueryFails
<1>17. ASSUME NEW c \in Clients, WonderWallStarted(c) PROVE SockInv'
  BY <1>17 DEF WonderWallStarted, Goes
<1>18. ASSUME NEW c \in Clients, Interrupt(c) PROVE SockInv'
  BY <1>18 DEF Interrupt
<1>19. ASSUME NEW c \in Clients, SignalKills(c) PROVE SockInv'
  BY <1>19 DEF SignalKills, Ends, HangUp
<1>20. CASE UNCHANGED vars
  BY <1>20 DEF vars
<1> QED
  BY <1>1, <1>2, <1>3, <1>4, <1>5, <1>6, <1>7, <1>8, <1>9, <1>10, <1>11, <1>12,
     <1>13, <1>14, <1>15, <1>16, <1>17, <1>18, <1>19, <1>20
  DEF Next, DaemonNext, ConnectStep, UpStep

\* What is known of the socket holds in every reachable state.
THEOREM InductiveInvariant == Spec => []SockInv
<1>1. Init => SockInv
  BY DEF Init, SockInit, SockInv, Stored, BoundServes, OwnAnswers, Alone, SocketStaysReachable
<1> QED
  BY <1>1, TypeCorrect, SockStep, PTL DEF Spec

\* Every answer is that of the daemon that was dialled.
THEOREM AnswersCorrect == Spec => []AnswersAreOwn
<1>1. SockInv => AnswersAreOwn
  BY NoDaemonAssumption DEF SockInv, BoundServes, OwnAnswers, AnswersAreOwn
<1> QED
  BY <1>1, InductiveInvariant, PTL

\* The path of a serving daemon is its own, and free when one comes to listen,
\* short of an overlap.
THEOREM ReachableCorrect == Spec => []SocketStaysReachable
<1>1. SockInv => SocketStaysReachable
  BY DEF SockInv
<1> QED
  BY <1>1, InductiveInvariant, PTL
----------------------------------------------------------------------------
(* No query is stuck                                                       *)

\* A command has a query exactly from the moment it dials.
DialsOnce == \A c \in Clients : up[c] \in {"dial", "wait"} <=> query[c] # "none"

\* A command that asks for the status has its answer or its error, or its
\* daemon is gone, which ends the query, or its daemon serves: nobody waits
\* for a daemon that has bound the path and does not accept.
QueryNotStuck ==
    \A c \in Clients :
        up[c] = "dial" =>
            \/ query[c] \in {"answered", "failed"}
            \/ query[c] \in {"dialed", "sent"} /\ (conn[c] \notin live \/ Serving(conn[c]))

\* Only the command itself makes and ends its query.
LEMMA DialsStep == TypeOK /\ DialsOnce /\ [Next]_vars => DialsOnce'
<1> SUFFICES ASSUME TypeOK, DialsOnce, [Next]_vars PROVE DialsOnce'
  OBVIOUS
<1> USE DEF TypeOK, DialsOnce, upVars, sockVars, daemonVars, queryVars
<1>1. ASSUME NEW d \in Daemons,
             \/ StartDaemon(d) \/ CloseCh(d) \/ DaemonEnds(d) \/ ConnectStep(d)
             \/ Unlink(d) \/ AcceptFails(d) \/ \E c \in Clients : Accept(d, c),
             UNCHANGED upVars
      PROVE  DialsOnce'
  BY <1>1 DEF StartDaemon, CloseCh, DaemonEnds, ConnectStep, Cleanup, Assign, Listen,
     Unlink, AcceptFails, Accept
<1>2. ASSUME NEW d \in Daemons, NEW c \in Clients, Serve(d, c), UNCHANGED upVars
      PROVE  DialsOnce'
  BY <1>2 DEF Serve
<1>3. ASSUME NEW c \in Clients, RunUp(c) \/ NewConf(c) \/ CheckDaemon(c) \/ loginNode(c)
      PROVE  DialsOnce'
  BY <1>3 DEF RunUp, NewConf, CheckDaemon, loginNode, Goes, Ends
<1>4. ASSUME NEW c \in Clients, StartEngine(c) PROVE DialsOnce'
  BY <1>4 DEF StartEngine, Goes, Ends, Dial
<1>5. ASSUME NEW c \in Clients, AskStatus(c) PROVE DialsOnce'
  BY <1>5 DEF AskStatus, QueryStep, SendRequest, QueryFails
<1>6. ASSUME NEW c \in Clients, WonderWallStarted(c) \/ Interrupt(c) PROVE DialsOnce'
  BY <1>6 DEF WonderWallStarted, Interrupt, Goes
<1>7. ASSUME NEW c \in Clients, SignalKills(c) PROVE DialsOnce'
  BY <1>7 DEF SignalKills, Ends, HangUp
<1>8. CASE UNCHANGED vars
  BY <1>8 DEF vars
<1> QED
  BY <1>1, <1>2, <1>3, <1>4, <1>5, <1>6, <1>7, <1>8 DEF Next, DaemonNext, UpStep

\* Whatever daemons and commands do to each other, a query can always go on.
THEOREM QueryNeverStuck == Spec => []QueryNotStuck
<1>1. Init => DialsOnce
  BY DEF Init, SockInit, DialsOnce
<1>2. TypeOK /\ SockInv /\ DialsOnce => QueryNotStuck
  BY DEF TypeOK, SockInv, BoundServes, DialsOnce, QueryNotStuck, Serving
<1> QED
  BY <1>1, <1>2, TypeCorrect, InductiveInvariant, DialsStep, PTL DEF Spec
=============================================================================
