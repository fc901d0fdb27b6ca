------------------------------- MODULE Engine -------------------------------
(***************************************************************************)
(* `runetale up`: execUp, the engine and its WonderWall, which asks the    *)
(* daemon for its status over RcnSock and then waits for a channel that    *)
(* nobody closes.                                                          *)
(***************************************************************************)
EXTENDS RcnSock

VARIABLES
    up,             \* up[c]: where command c is
    interrupted     \* the commands that were sent SIGINT or SIGTERM

upVars == <<up, interrupted>>
vars == <<sockVars, upVars>>

Goes(c, from, to) ==
    /\ up[c] = from
    /\ up' = [up EXCEPT ![c] = to]
    /\ UNCHANGED interrupted

Ends(c) ==
    /\ up' = [up EXCEPT ![c] = "idle"]
    /\ interrupted' = interrupted \ {c}

RunUp(c) ==
    /\ Goes(c, "idle", "conf")
    /\ UNCHANGED sockVars

NewConf(c) ==
    /\ \/ Goes(c, "conf", "check")
       \/ up[c] = "conf" /\ Ends(c)
    /\ UNCHANGED sockVars

\* Status of the service, or any process that is called runetaled, be it
\* only another command.
CheckDaemon(c) ==
    /\ \/ Goes(c, "check", "login")
       \/ up[c] = "check" /\ live = {} /\ Ends(c)
    /\ UNCHANGED sockVars

loginNode(c) ==
    /\ \/ Goes(c, "login", "engine")
       \/ up[c] = "login" /\ Ends(c)
    /\ UNCHANGED sockVars

\* NewEngine fails without a key; otherwise Start locks mu and dials.
StartEngine(c) ==
    \/ Goes(c, "engine", "dial") /\ Dial(c)
    \/ up[c] = "engine" /\ Ends(c) /\ UNCHANGED sockVars

AskStatus(c) ==
    /\ up[c] = "dial"
    /\ QueryStep(c)
    /\ UNCHANGED upVars

\* WonderWall.Start returns, with or without an answer, and Start waits for
\* rootch.  Only the Stop that follows that wait would lock mu, which Start
\* holds, a second time; nobody closes rootch before, so it is not reached.
WonderWallStarted(c) ==
    /\ query[c] \in {"answered", "failed"}
    /\ Goes(c, "dial", "wait")
    /\ UNCHANGED sockVars

Interrupt(c) ==
    /\ up[c] # "idle"
    /\ c \notin interrupted
    /\ interrupted' = interrupted \cup {c}
    /\ UNCHANGED <<sockVars, up>>

\* execUp calls signal.Notify after the engine's Start, which does not
\* return: until then the default action ends the process.
SignalKills(c) ==
    /\ c \in interrupted
    /\ Ends(c)
    /\ HangUp(c)

UpStep(c) ==
    \/ NewConf(c)
    \/ CheckDaemon(c)
    \/ loginNode(c)
    \/ StartEngine(c)
    \/ AskStatus(c)
    \/ WonderWallStarted(c)

Init ==
    /\ SockInit
    /\ up = [c \in Clients |-> "idle"]
    /\ interrupted = {}

Next ==
    \/ DaemonNext /\ UNCHANGED upVars
    \/ \E c \in Clients :
          \/ RunUp(c)
          \/ UpStep(c)
          \/ Interrupt(c)
          \/ SignalKills(c)

Spec == Init /\ [][Next]_vars

\* The daemon's goroutines run, and so does the command once it dials;
\* NewConf and the login may wait for ever.
Fairness ==
    /\ \A d \in Daemons :
          /\ WF_vars(ConnectStep(d) /\ UNCHANGED upVars)
          /\ \A c \in Clients :
                /\ WF_vars(Accept(d, c) /\ UNCHANGED upVars)
                /\ WF_vars(Serve(d, c) /\ UNCHANGED upVars)
    /\ \A c \in Clients :
          /\ WF_vars(AskStatus(c))
          /\ WF_vars(WonderWallStarted(c))

FairSpec == Spec /\ Fairness

----------------------------------------------------------------------------
TypeOK ==
    /\ live \subseteq Daemons
    /\ past \subseteq Daemons
    /\ closing \subseteq Daemons
    /\ overlap \in BOOLEAN
    /\ file \in Daemons \cup {NoDaemon}
    /\ sock \in [Daemons -> {"none", "cleanup", "assign", "listen", "serving", "unlinked",
                             "inuse", "failed"}]
    /\ ip \in [Daemons -> Daemons \cup {NoDaemon}]
    /\ conn \in [Clients -> Daemons \cup {NoDaemon}]
    /\ accepted \subseteq Clients
    /\ query \in [Clients -> {"none", "dialed", "sent", "answered", "failed"}]
    /\ answer \in [Clients -> Daemons \cup {NoDaemon}]
    /\ up \in [Clients -> {"idle", "conf", "check", "login", "engine", "dial", "wait"}]
    /\ interrupted \subseteq Clients

\* An answer carries the address of the daemon that was dialled, never the
\* empty one of an RcnSock that listens before Connect has filled it, and
\* never that of another daemon that was started in the meantime.
AnswersAreOwn ==
    \A c \in Clients : query[c] = "answered" => answer[c] = conn[c] /\ conn[c] # NoDaemon

\* As long as a daemon serves and nobody has told it to stop, the socket path
\* is its own: no daemon before it removes it late, although all of them use
\* the same path.  And none finds the path in use when it comes to listen,
\* whatever an earlier one left there.  The exception is a daemon that was
\* started by hand while another one was still ending.
SocketStaysReachable ==
    \A d \in Daemons :
        /\ d \in live \ closing /\ sock[d] = "serving" => file = d \/ overlap
        /\ sock[d] = "inuse" => overlap

\* However the last daemon ended and whatever it left at the path, the next
\* one comes to listen, unless a call fails or it ends before.
DaemonListens ==
    \A d \in Daemons :
        sock[d] = "cleanup" ~>
            d \notin live \/ sock[d] \in {"serving", "unlinked", "failed"} \/ overlap

\* A status query ends, with an answer or an error, also when the daemon is
\* killed, crashes or shuts down at any moment of it: no call on the socket
\* has a deadline.
QueryEnds == \A c \in Clients : up[c] = "dial" ~> up[c] # "dial"
=============================================================================
