------------------------------ MODULE RcnSock -------------------------------
(***************************************************************************)
(* The unix socket on which the daemon answers status queries: Connect,    *)
(* its two goroutines and DialRunetaledStatus.  The path of the socket     *)
(* outlives the process that bound it.  A client of a daemon d is answered *)
(* with the address of d, written here as d itself.                        *)
(***************************************************************************)
CONSTANTS
    Daemons,    \* starts of runetaled, each of which may happen once
    NoDaemon,
    Clients     \* the callers of DialRunetaledStatus

ASSUME NoDaemonAssumption == NoDaemon \notin Daemons

VARIABLES
    live,       \* the daemons whose process runs
    past,       \* those that have ended
    closing,    \* those whose channel ch is closed
    overlap,    \* a daemon has started beside one that was still ending
    file,       \* the daemon that bound the socket file, NoDaemon without one
    sock,       \* sock[d]: where Connect is in daemon d
    ip,         \* ip[d]: the address stored in d's RcnSock
    conn,       \* conn[c]: the daemon that client c is connected to
    accepted,   \* the clients whose connection has been accepted
    query,      \* query[c]: "none", "dialed", "sent", "answered" or "failed"
    answer      \* answer[c]: the address in the answer

daemonVars == <<live, past, closing, overlap>>
queryVars  == <<conn, accepted, query, answer>>
sockVars   == <<daemonVars, file, sock, ip, queryVars>>

SockInit ==
    /\ live = {} /\ past = {} /\ closing = {} /\ overlap = FALSE
    /\ file = NoDaemon
    /\ sock = [d \in Daemons |-> "none"]
    /\ ip = [d \in Daemons |-> NoDaemon]
    /\ conn = [c \in Clients |-> NoDaemon]
    /\ accepted = {}
    /\ query = [c \in Clients |-> "none"]
    /\ answer = [c \in Clients |-> NoDaemon]

----------------------------------------------------------------------------
(* The daemon's process                                                    *)

\* Rcn.Start calls ConnectSock in a goroutine.  Setup has succeeded before,
\* which it does only when no other daemon holds the network interface.
StartDaemon(d) ==
    /\ d \notin live \cup past
    /\ live \subseteq closing
    /\ live' = live \cup {d}
    /\ overlap' = (overlap \/ live # {})
    /\ sock' = [sock EXCEPT ![d] = "cleanup"]
    /\ UNCHANGED <<past, closing, file, ip, queryVars>>

CloseCh(d) ==
    /\ d \in live \ closing
    /\ closing' = closing \cup {d}
    /\ UNCHANGED <<live, past, overlap, file, sock, ip, queryVars>>

\* Rcn.Stop returns, or the process is killed or crashes.
DaemonEnds(d) ==
    /\ d \in live
    /\ live' = live \ {d}
    /\ past' = past \cup {d}
    /\ UNCHANGED <<closing, overlap, file, sock, ip, queryVars>>

----------------------------------------------------------------------------
(* RcnSock.Connect                                                         *)

At(d, l) == d \in live /\ sock[d] = l

Goto(d, l) == sock' = [sock EXCEPT ![d] = l]

CleanupSkipped(d) ==
    /\ At(d, "cleanup")
    /\ Goto(d, "assign")
    /\ UNCHANGED <<daemonVars, file, ip, queryVars>>

\* The file an earlier daemon left is removed, unless that fails.
Cleanup(d) ==
    /\ At(d, "cleanup")
    /\ \/ file' = NoDaemon /\ Goto(d, "assign")
       \/ file # NoDaemon /\ UNCHANGED file /\ Goto(d, "failed")
    /\ UNCHANGED <<daemonVars, ip, queryVars>>

ListenFirst(d) ==
    /\ At(d, "assign")
    /\ file = NoDaemon
    /\ file' = d
    /\ Goto(d, "serving")
    /\ UNCHANGED <<daemonVars, ip, queryVars>>

Assign(d) ==
    /\ At(d, "assign")
    /\ ip' = [ip EXCEPT ![d] = d]
    /\ Goto(d, "listen")
    /\ UNCHANGED <<daemonVars, file, queryVars>>

ListenThenCleanup(d) ==
    /\ At(d, "listen")
    /\ UNCHANGED file
    /\ Goto(d, "serving")
    /\ UNCHANGED <<daemonVars, ip, queryVars>>

\* net.Listen fails when the path exists, and may fail for other reasons.
Listen(d) ==
    /\ At(d, "listen")
    /\ \/ file = NoDaemon /\ file' = d /\ Goto(d, "serving")
       \/ file # NoDaemon /\ UNCHANGED file /\ Goto(d, "inuse")
       \/ UNCHANGED file /\ Goto(d, "failed")
    /\ UNCHANGED <<daemonVars, ip, queryVars>>

\* The goroutine that waits for ch removes the path, whoever bound it.
Unlink(d) ==
    /\ At(d, "serving")
    /\ d \in closing
    /\ file' = NoDaemon
    /\ Goto(d, "unlinked")
    /\ UNCHANGED <<daemonVars, ip, queryVars>>

Serving(d) == d \in live /\ sock[d] \in {"serving", "unlinked"}

Accept(d, c) ==
    /\ Serving(d)
    /\ conn[c] = d /\ query[c] \in {"dialed", "sent"} /\ c \notin accepted
    /\ accepted' = accepted \cup {c}
    /\ UNCHANGED <<daemonVars, file, sock, ip, conn, query, answer>>

\* A failed Accept is logged and listen is called with a nil connection,
\* which panics.
AcceptFails(d) ==
    /\ Serving(d)
    /\ DaemonEnds(d)

ServeWithoutReply(d, c) ==
    /\ Serving(d)
    /\ conn[c] = d /\ query[c] = "sent" /\ c \in accepted
    /\ answer' = [answer EXCEPT ![c] = ip[d]]
    /\ UNCHANGED <<daemonVars, file, sock, ip, conn, accepted, query>>

\* listen decodes the request and encodes the reply.
Serve(d, c) ==
    /\ Serving(d)
    /\ conn[c] = d /\ query[c] = "sent" /\ c \in accepted
    /\ query' = [query EXCEPT ![c] = "answered"]
    /\ answer' = [answer EXCEPT ![c] = ip[d]]
    /\ UNCHANGED <<daemonVars, file, sock, ip, conn, accepted>>

----------------------------------------------------------------------------
(* DialRunetaledStatus: each step ends the query when it fails             *)

\* The listener that bound the path must still be there.
Dial(c) ==
    /\ query[c] = "none"
    /\ IF file \in live
          THEN /\ conn' = [conn EXCEPT ![c] = file]
               /\ query' = [query EXCEPT ![c] = "dialed"]
          ELSE /\ query' = [query EXCEPT ![c] = "failed"]
               /\ UNCHANGED conn
    /\ UNCHANGED <<daemonVars, file, sock, ip, accepted, answer>>

SendRequest(c) ==
    /\ query[c] = "dialed"
    /\ conn[c] \in live
    /\ query' = [query EXCEPT ![c] = "sent"]
    /\ UNCHANGED <<daemonVars, file, sock, ip, conn, accepted, answer>>

\* The daemon is gone before it has written its reply.
QueryFails(c) ==
    /\ query[c] \in {"dialed", "sent"}
    /\ conn[c] \notin live
    /\ query' = [query EXCEPT ![c] = "failed"]
    /\ UNCHANGED <<daemonVars, file, sock, ip, conn, accepted, answer>>

\* The client's process ends, and its connection with it.
HangUp(c) ==
    /\ conn' = [conn EXCEPT ![c] = NoDaemon]
    /\ accepted' = accepted \ {c}
    /\ query' = [query EXCEPT ![c] = "none"]
    /\ answer' = [answer EXCEPT ![c] = NoDaemon]
    /\ UNCHANGED <<daemonVars, file, sock, ip>>

QueryStep(c) == SendRequest(c) \/ QueryFails(c)

ConnectStep(d) == Cleanup(d) \/ Assign(d) \/ Listen(d)

DaemonNext ==
    \E d \in Daemons :
        \/ StartDaemon(d)
        \/ CloseCh(d)
        \/ DaemonEnds(d)
        \/ ConnectStep(d)
        \/ Unlink(d)
        \/ AcceptFails(d)
        \/ \E c \in Clients : Accept(d, c) \/ Serve(d, c)
=============================================================================
